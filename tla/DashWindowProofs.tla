--------------------------- MODULE DashWindowProofs ---------------------------
(***************************************************************************)
(* Proofs about the dashboard's window, for any histories, any number of   *)
(* pulse threads and any positions of the sliders.                         *)
(***************************************************************************)
EXTENDS DashWindow, BoundedQueueProofs

(* What a step may do to each group of variables, apart from the steps the *)
(* group is about. *)
LEMMA TimingUntouched ==
  ASSUME [Next]_vars, ~ui_apply, ~ui_sample, ~ui_sample_end
  PROVE  /\ UNCHANGED <<connVars, sample, timeVars, session>>
         /\ upc' \in {"record", "sample"} => upc' = upc
         /\ upc' \notin {"record", "sample"} => upc \notin {"record", "sample"}
<1> USE DEF connVars, timeVars, circRest, stateVars
<1>1. CASE ui_poll \/ ui_result \/ ui_pop \/ ui_close
  BY <1>1 DEF ui_poll, ui_result, ui_pop, ui_close
<1>2. CASE \E t \in Senders : SendStep(t)
  BY <1>2 DEF SendStep, send_open, send_ioctl, send_ioctl_fails, windowRest
<1>3. CASE send_status \/ pulse_status \/ store_thread \/ store_result
  BY <1>3 DEF send_status, pulse_status, store_thread, store_result, callbackRest
<1>4. CASE reset_clear
  BY <1>4 DEF reset_clear, circ_clear, circWindow
<1>5. CASE click_send("send", sliders) \/ click_send("stop", Zero)
  BY <1>5 DEF click_send, callbackRest
<1>6. CASE \E p \in Pulses : click_pulse(p)
  BY <1>6 DEF click_pulse
<1>7. CASE click_circ \/ click_reset
  BY <1>7 DEF click_circ, click_reset, circ_start, circ_stop, circ_select, circWindow
<1>8. ASSUME NEW p \in Pulses, PulseStep(p)
      PROVE  /\ UNCHANGED <<connVars, sample, timeVars, session>>
             /\ upc' = upc
  BY <1>8 DEF PulseStep, SendStep, send_open, send_ioctl, send_ioctl_fails,
       pulse_sent, pulse_failed, pulse_slept, pulse_done, windowRest, pulseRest
<1>9. CASE plug \/ unplug
  BY <1>9 DEF plug, unplug, windowRest
<1>10. CASE UNCHANGED vars
  BY <1>10 DEF vars
<1>11. SendStep("callback") => \E t \in Senders : SendStep(t)
  BY DEF Senders
<1> QED
  BY <1>1, <1>2, <1>3, <1>4, <1>5, <1>6, <1>7, <1>8, <1>9, <1>10, <1>11
  DEF Next, UIStep, CallbackStep, UserStep
-------------------------------------------------------------------------------
(* The timing panel *)

Interval == [from : Sample, to : Sample]

(* An interval between two samples of one session that were counted one    *)
(* after the other.                                                        *)
Links(e, ses) ==
  /\ {e.from.session, e.to.session} = {ses}
  /\ e.to.id = (e.from.id + 1) % Ids

(* The intervals follow on each other in one session. *)
Chained(ints, ses) ==
  \A k \in DOMAIN ints :
    /\ Links(ints[k], ses)
    /\ k > 1 => ints[k].from = ints[k - 1].to

LEMMA ChainGrows ==
  ASSUME NEW ints \in Seq(Interval), NEW ses, Chained(ints, ses),
         NEW e \in Interval, Links(e, ses),
         ints # <<>> => ints[Len(ints)].to = e.from,
         NEW r, r = PutDroppingOldest(ints, e, TIMING_HISTORY)
  PROVE  /\ Chained(r, ses) /\ r \in Seq(Interval) /\ r # <<>> /\ r[Len(r)] = e
<1> DEFINE lost == Lost(ints, TIMING_HISTORY)
<1>1. TIMING_HISTORY \in Nat \ {0}
  BY StateAssumption
<1>2. lost \in 0 .. 1
  BY DEF Lost
<1>3. /\ r \in Seq(Interval) /\ r # <<>>
      /\ Len(r) = Len(ints) + 1 - lost
      /\ \A k \in 1 .. Len(r) - 1 : r[k] = ints[k + lost]
      /\ r[Len(r)] = e
      /\ Len(ints) \in Nat /\ Len(r) \in Nat
  BY <1>1, PutProperties
<1> HIDE DEF lost
<1>4. DOMAIN r = 1 .. Len(r) /\ DOMAIN ints = 1 .. Len(ints)
  BY <1>3
<1>5. ASSUME NEW k \in 1 .. Len(r) - 1
      PROVE  /\ Links(r[k], ses)
             /\ k > 1 => r[k].from = r[k - 1].to
  <2>1. PICK j \in 1 .. Len(ints) : j = k + lost
    BY <1>2, <1>3
  <2>2. r[k] = ints[j]
    BY <1>3, <2>1
  <2>3. k > 1 => j > 1 /\ k - 1 \in 1 .. Len(r) - 1 /\ j - 1 = (k - 1) + lost
    BY <1>2, <1>3, <2>1
  <2>4. k > 1 => r[k - 1] = ints[j - 1]
    BY <1>3, <2>3
  <2>5. /\ Links(ints[j], ses)
        /\ j > 1 => ints[j].from = ints[j - 1].to
    BY <1>4, <2>1 DEF Chained
  <2> QED
    BY <2>2, <2>3, <2>4, <2>5
<1>6. Len(r) > 1 => r[Len(r)].from = r[Len(r) - 1].to
  <2> SUFFICES ASSUME Len(r) > 1 PROVE r[Len(r)].from = r[Len(r) - 1].to
    OBVIOUS
  <2>1. PICK k \in 1 .. Len(r) - 1 : k = Len(r) - 1
    BY <1>3
  <2>2. k + lost = Len(ints)
    BY <1>2, <1>3, <2>1
  <2>3. r[k] = ints[Len(ints)]
    BY <1>3, <2>2
  <2>4. ints # <<>>
    BY <1>2, <1>3, <2>1, <2>2
  <2> QED
    BY <1>3, <2>1, <2>3, <2>4
<1>7. Chained(r, ses)
  <2> SUFFICES ASSUME NEW k \in 1 .. Len(r)
               PROVE  /\ Links(r[k], ses)
                      /\ k > 1 => r[k].from = r[k - 1].to
    BY <1>4 DEF Chained
  <2>1. CASE k = Len(r)
    BY <1>3, <1>6, <2>1
  <2>2. CASE k # Len(r)
    <3>1. k \in 1 .. Len(r) - 1
      BY <1>3, <2>2
    <3> QED
      BY <1>5, <3>1
  <2> QED
    BY <2>1, <2>2
<1> QED
  BY <1>3, <1>7

TimeTypes ==
  /\ connected \in BOOLEAN /\ last_error \in BOOLEAN /\ session \in BOOLEAN
  /\ sample \in Sample \cup {None} /\ prev_recv \in Sample \cup {None}
  /\ intervals \in Seq(Interval)
  /\ Len(intervals) <= TIMING_HISTORY
  /\ packet_count \in 0 .. Ids - 1

(* The newest sample is the one counted last, in this session, and the     *)
(* sample shown but for the one that is being applied. *)
NewestCounted ==
  /\ prev_recv # None => prev_recv = [id |-> packet_count, session |-> session]
  /\ prev_recv = None => intervals = <<>> /\ upc \notin {"record", "sample"}
  /\ upc \notin {"record", "sample"} => sample = prev_recv

TimeInv ==
  /\ TimeTypes /\ NewestCounted
  /\ Chained(intervals, session)
  /\ intervals # <<>> => intervals[Len(intervals)].to = prev_recv
  /\ stats = IF Len(intervals) >= 2 THEN intervals ELSE <<>>

LEMMA NoIntervals ==
  /\ <<>> \in Seq(Interval) /\ Len(<<>>) = 0 /\ DOMAIN <<>> = {}
OBVIOUS

LEMMA TimeInit == Init => TimeInv
<1> SUFFICES ASSUME Init PROVE TimeInv
  OBVIOUS
<1>1. /\ sample = None /\ prev_recv = None /\ intervals = <<>> /\ stats = <<>>
      /\ packet_count = 0 /\ session = FALSE /\ connected = FALSE
      /\ last_error = FALSE /\ upc = "drain"
  BY DEF Init, StateInit
<1>2. Chained(intervals, session)
  BY <1>1, NoIntervals DEF Chained
<1>3. TimeTypes
  <2>1. connected \in BOOLEAN /\ last_error \in BOOLEAN /\ session \in BOOLEAN
    BY <1>1
  <2>2. packet_count \in 0 .. Ids - 1 /\ Len(intervals) <= TIMING_HISTORY
    BY <1>1, NoIntervals, StateAssumption
  <2> QED
    BY <1>1, <2>1, <2>2, NoIntervals DEF TimeTypes
<1>4. NewestCounted
  BY <1>1 DEF NewestCounted
<1>5. stats = IF Len(intervals) >= 2 THEN intervals ELSE <<>>
  BY <1>1, NoIntervals
<1> QED
  BY <1>1, <1>2, <1>3, <1>4, <1>5 DEF TimeInv

(* The samples of the same session that are counted one after another. *)
LEMMA ReceivedNext ==
  ASSUME packet_count \in 0 .. Ids - 1, session \in BOOLEAN,
         NEW s, s = Received(packet_count + 1)
  PROVE  /\ s = [id |-> (packet_count + 1) % Ids, session |-> session]
         /\ s \in Sample /\ s # None
         /\ Received(packet_count) = [id |-> packet_count, session |-> session]
<1>1. Ids \in Nat \ {0}
  BY StateAssumption
<1>2. (packet_count + 1) % Ids \in 0 .. Ids - 1
  BY <1>1
<1>3. packet_count % Ids = packet_count
  BY <1>1
<1>4. None \notin Sample
  BY StateAssumption DEF Sample
<1> QED
  BY <1>2, <1>3, <1>4 DEF Received, Sample

(* update_timing *)
LEMMA TimingStep ==
  ASSUME TimeInv, ui_sample
  PROVE  TimeInv'
<1> DEFINE s == Received(packet_count + 1)
           e == [from |-> prev_recv, to |-> s]
<1>1. /\ packet_count' = s.id /\ prev_recv' = s
      /\ intervals' = IF prev_recv = None THEN intervals
                      ELSE PutDroppingOldest(intervals, e, TIMING_HISTORY)
      /\ stats' = IF prev_recv # None /\ Len(intervals') >= 2 THEN intervals' ELSE stats
      /\ UNCHANGED <<connected, last_error, sample, session>>
      /\ upc' \in {"record", "sample"}
  BY DEF ui_sample, update_timing, connVars
<1>2. /\ s = [id |-> (packet_count + 1) % Ids, session |-> session]
      /\ s \in Sample /\ s # None
  BY ReceivedNext DEF TimeInv, TimeTypes
<1>3. prev_recv' = [id |-> packet_count', session |-> session']
  BY <1>1, <1>2
<1>4. packet_count' \in 0 .. Ids - 1 /\ prev_recv' \in Sample /\ prev_recv' # None
  BY <1>1, <1>2 DEF Sample
<1>5. NewestCounted'
  BY <1>1, <1>3, <1>4 DEF NewestCounted
<1>6. TIMING_HISTORY \in Nat \ {0} /\ TIMING_HISTORY >= 2
  BY StateAssumption
<1>7. CASE prev_recv = None
  <2>1. intervals = <<>> /\ intervals' = <<>> /\ stats' = <<>>
    BY <1>1, <1>7, NoIntervals DEF TimeInv, NewestCounted
  <2>2. Chained(<<>>, session')
    BY NoIntervals DEF Chained
  <2>3. TimeTypes'
    BY <1>1, <1>4, <2>1, NoIntervals, <1>6 DEF TimeInv, TimeTypes
  <2> QED
    BY <1>5, <2>1, <2>2, <2>3, NoIntervals DEF TimeInv
<1>8. CASE prev_recv # None
  <2>1. prev_recv = [id |-> packet_count, session |-> session] /\ prev_recv \in Sample
    BY <1>8 DEF TimeInv, TimeTypes, NewestCounted
  <2>2. e \in Interval /\ e.from = prev_recv /\ e.to = s
    BY <1>2, <2>1 DEF Interval
  <2>3. {e.from.session, e.to.session} = {session}
    BY <1>2, <2>1, <2>2
  <2>4. Links(e, session)
    <3>1. e.to.id = (e.from.id + 1) % Ids
      BY <1>2, <2>1, <2>2
    <3> QED
      BY <2>3, <3>1 DEF Links
  <2> HIDE DEF e, s
  <2>5. intervals' = PutDroppingOldest(intervals, e, TIMING_HISTORY)
    BY <1>1, <1>8
  <2>6. /\ Chained(intervals', session) /\ intervals' \in Seq(Interval)
        /\ intervals' # <<>> /\ intervals'[Len(intervals')] = e
    <3>1. /\ intervals \in Seq(Interval) /\ Chained(intervals, session)
          /\ intervals # <<>> => intervals[Len(intervals)].to = e.from
      BY <2>2 DEF TimeInv, TimeTypes
    <3>2. PICK r : r = intervals'
      OBVIOUS
    <3>3. r = PutDroppingOldest(intervals, e, TIMING_HISTORY)
      BY <2>5, <3>2
    <3>4. Chained(r, session) /\ r \in Seq(Interval) /\ r # <<>> /\ r[Len(r)] = e
      BY <2>2, <2>4, <3>1, <3>3, ChainGrows
    <3> QED
      BY <3>2, <3>4
  <2>7. Len(intervals') <= TIMING_HISTORY
    BY <1>6, <2>2, <2>5, PutBounded DEF TimeInv, TimeTypes
  <2>8. Len(intervals') >= 2 \/ stats = <<>>
    <3>1. PICK lost \in 0 .. 1 : lost = Lost(intervals, TIMING_HISTORY)
      BY DEF Lost
    <3>2. /\ Len(intervals') = Len(intervals) + 1 - lost
          /\ Len(intervals) \in Nat
      BY <1>6, <2>2, <2>5, <3>1, PutProperties DEF TimeInv, TimeTypes
    <3>3. lost = 1 => Len(intervals) >= 2
      BY <1>6, <3>1, <3>2 DEF Lost
    <3>4. Len(intervals) >= 2 => Len(intervals') >= 2
      BY <3>1, <3>2, <3>3, <1>6, <2>7 DEF Lost
    <3> QED
      BY <3>4 DEF TimeInv
  <2>9. stats' = IF Len(intervals') >= 2 THEN intervals' ELSE <<>>
    BY <1>1, <1>8, <2>8
  <2>10. TimeTypes'
    BY <1>1, <1>4, <2>6, <2>7 DEF TimeInv, TimeTypes
  <2>11. intervals'[Len(intervals')].to = prev_recv'
    BY <1>1, <2>2, <2>6
  <2> QED
    BY <1>1, <1>5, <2>6, <2>9, <2>10, <2>11 DEF TimeInv
<1> QED
  BY <1>7, <1>8

LEMMA TimeStep ==
  ASSUME TimeInv, [Next]_vars
  PROVE  TimeInv'
<1>1. CASE ui_sample
  BY <1>1, TimingStep
<1>2. CASE ui_sample_end
  <2>1. /\ UNCHANGED <<connected, last_error, timeVars, session>>
        /\ sample' = Received(packet_count) /\ upc \in {"record", "sample"}
        /\ upc' = "drain"
    BY <1>2 DEF ui_sample_end, record_point, show_sample, connVars
  <2>2. prev_recv = [id |-> packet_count, session |-> session] /\ prev_recv \in Sample
        /\ prev_recv # None
    BY <2>1 DEF TimeInv, TimeTypes, NewestCounted
  <2>3. sample' = prev_recv
    BY <2>1, <2>2, ReceivedNext DEF TimeInv, TimeTypes
  <2> QED
    BY <2>1, <2>2, <2>3 DEF TimeInv, TimeTypes, NewestCounted, timeVars
<1>3. CASE ui_apply
  <2>1. upc = "drain" /\ upc' = "drain"
    BY <1>3 DEF ui_apply
  <2>2. CASE apply_connected \/ apply_error \/ apply_hotplug
    <3>1. /\ UNCHANGED <<sample, timeVars, session>>
          /\ connected' \in BOOLEAN /\ last_error' \in BOOLEAN
      BY <2>2 DEF apply_connected, apply_error, apply_hotplug, stateVars,
                  connVars, TimeInv, TimeTypes
    <3> QED
      BY <2>1, <3>1 DEF TimeInv, TimeTypes, NewestCounted, timeVars
  <2>3. CASE apply_disconnected
    <3>1. /\ connected' = FALSE /\ last_error' = last_error
          /\ sample' = None /\ prev_recv' = None /\ intervals' = <<>> /\ stats' = <<>>
          /\ packet_count' = packet_count /\ session' = ~session
      BY <2>3 DEF apply_disconnected
    <3>2. Chained(<<>>, session')
      BY NoIntervals DEF Chained
    <3>3. TIMING_HISTORY \in Nat
      BY StateAssumption
    <3>4. TimeTypes'
      <4>1. session' \in BOOLEAN /\ connected' \in BOOLEAN /\ last_error' \in BOOLEAN
        BY <3>1 DEF TimeInv, TimeTypes
      <4>2. Len(intervals') <= TIMING_HISTORY /\ packet_count' \in 0 .. Ids - 1
        BY <3>1, <3>3, NoIntervals DEF TimeInv, TimeTypes
      <4> QED
        BY <3>1, <4>1, <4>2, NoIntervals DEF TimeTypes
    <3>5. NewestCounted'
      BY <2>1, <3>1 DEF NewestCounted
    <3> QED
      BY <3>1, <3>2, <3>4, <3>5, NoIntervals DEF TimeInv
  <2> QED
    BY <1>3, <2>2, <2>3 DEF ui_apply
<1>4. CASE ~ui_apply /\ ~ui_sample /\ ~ui_sample_end
  <2>1. /\ UNCHANGED <<connected, last_error, sample, prev_recv, intervals, stats,
                       packet_count, session>>
        /\ upc' \in {"record", "sample"} => upc' = upc
        /\ upc' \notin {"record", "sample"} => upc \notin {"record", "sample"}
    BY <1>4, TimingUntouched DEF connVars, timeVars
  <2> QED
    BY <2>1 DEF TimeInv, TimeTypes, NewestCounted
<1> QED
  BY <1>1, <1>2, <1>3, <1>4
-------------------------------------------------------------------------------
(* The circularity panel *)

CircTypes ==
  /\ circ_active \in BOOLEAN /\ circ_stick \in Sticks
  /\ circ_points \in Seq(Sticks) /\ Len(circ_points) <= CIRC_HISTORY
  /\ was_reset \in BOOLEAN

(* From Reset on nothing is recorded: the one point that may still come is *)
(* the first after the plot was emptied.                                   *)
NotRecording ==
  /\ was_reset \/ cpc = "reset" => ~circ_active
  /\ was_reset => Len(circ_points) <= 1
  /\ was_reset /\ upc = "record" => circ_points = <<>>

CircInv == CircTypes /\ NotRecording

LEMMA NoPoints == <<>> \in Seq(Sticks) /\ Len(<<>>) = 0
OBVIOUS

LEMMA CircInit == Init => CircInv
<1> SUFFICES ASSUME Init PROVE CircInv
  OBVIOUS
<1>1. /\ circ_active = FALSE /\ circ_stick = "left" /\ circ_points = <<>>
      /\ was_reset = FALSE /\ cpc = "idle"
  BY DEF Init, StateInit
<1>2. circ_active \in BOOLEAN /\ was_reset \in BOOLEAN
  BY <1>1
<1>3. Len(circ_points) <= CIRC_HISTORY /\ circ_points \in Seq(Sticks)
  BY <1>1, NoPoints, StateAssumption
<1> QED
  BY <1>1, <1>2, <1>3 DEF CircInv, CircTypes, NotRecording, Sticks

LEMMA PointStep ==
  ASSUME CircInv, upc = "record", record_point
  PROVE  /\ UNCHANGED <<circ_active, circ_stick, was_reset>>
         /\ circ_points' \in Seq(Sticks) /\ Len(circ_points') <= CIRC_HISTORY
         /\ was_reset => Len(circ_points') <= 1
<1>1. /\ circ_points' = PutDroppingOldest(circ_points, circ_stick, CIRC_HISTORY)
      /\ UNCHANGED <<circ_active, circ_stick, was_reset>>
  BY DEF record_point
<1>2. CIRC_HISTORY \in Nat \ {0}
  BY StateAssumption
<1>3. circ_points' \in Seq(Sticks) /\ Len(circ_points') <= CIRC_HISTORY
  BY <1>1, <1>2, PutProperties, PutBounded DEF CircInv, CircTypes
<1>4. ASSUME was_reset PROVE Len(circ_points') <= 1
  <2>1. Len(circ_points) = 0
    BY <1>4, NoPoints DEF CircInv, NotRecording
  <2>2. PICK lost \in 0 .. 1 : lost = Lost(circ_points, CIRC_HISTORY)
    BY DEF Lost
  <2>3. Len(circ_points') = Len(circ_points) + 1 - lost
    BY <1>1, <1>2, <2>2, PutProperties DEF CircInv, CircTypes
  <2> QED
    BY <2>1, <2>2, <2>3
<1> QED
  BY <1>1, <1>3, <1>4

LEMMA CircStep ==
  ASSUME CircInv, [Next]_vars
  PROVE  CircInv'
<1> USE DEF CircInv, CircTypes, NotRecording
<1>1. CASE ui_sample_end
  <2>1. upc' = "drain" /\ cpc' = cpc
    BY <1>1 DEF ui_sample_end, uiRest
  <2>2. CASE upc = "record" /\ record_point
    <3>1. /\ UNCHANGED <<circ_active, circ_stick, was_reset>>
          /\ circ_points' \in Seq(Sticks) /\ Len(circ_points') <= CIRC_HISTORY
          /\ was_reset => Len(circ_points') <= 1
      BY <2>2, PointStep
    <3> QED
      BY <2>1, <3>1
  <2>3. CASE show_sample
    BY <2>1, <2>3 DEF show_sample, circVars
  <2> QED
    BY <1>1, <2>2, <2>3 DEF ui_sample_end
<1>2. CASE ui_sample
  BY <1>2 DEF ui_sample, update_timing, circVars, uiRest
<1>3. CASE ui_apply
  BY <1>3 DEF ui_apply, apply_connected, apply_disconnected, apply_error,
       apply_hotplug, circVars, uiRest, stateVars
<1>4. CASE reset_clear
  <2>1. /\ circ_points' = <<>> /\ was_reset' = TRUE /\ cpc = "reset"
        /\ UNCHANGED <<circ_active, circ_stick, upc>>
    BY <1>4 DEF reset_clear, circ_clear, circWindow
  <2>2. CIRC_HISTORY \in Nat
    BY StateAssumption
  <2>3. was_reset' \in BOOLEAN /\ circ_points' \in Seq(Sticks) /\ Len(circ_points') = 0
    BY <2>1, NoPoints
  <2> QED
    BY <2>1, <2>2, <2>3
<1>5. CASE click_reset
  BY <1>5 DEF click_reset, circ_stop, circWindow
<1>6. CASE click_circ
  <2>1. cpc = "idle" /\ cpc' = "idle" /\ upc' = upc
    BY <1>6 DEF click_circ, Click, circWindow
  <2>2. CASE circ_start
    <3>1. circ_active' = TRUE /\ was_reset' = FALSE
          /\ UNCHANGED <<circ_stick, circ_points>>
      BY <2>2 DEF circ_start
    <3> QED
      BY <2>1, <3>1
  <2>3. CASE circ_stop
    <3>1. circ_active' = FALSE /\ UNCHANGED <<circ_stick, circ_points, was_reset>>
      BY <2>3 DEF circ_stop
    <3> QED
      BY <2>1, <3>1
  <2>4. ASSUME NEW v \in Sticks, circ_select(v) PROVE CircInv'
    <3>1. circ_stick' = v /\ UNCHANGED <<circ_active, circ_points, was_reset>>
      BY <2>4 DEF circ_select
    <3> QED
      BY <2>1, <3>1
  <2> QED
    BY <1>6, <2>2, <2>3, <2>4 DEF click_circ
<1>7. ASSUME UNCHANGED <<circ_active, circ_stick, circ_points, was_reset>>,
             upc' = "record" => upc = "record", cpc' = "reset" => cpc = "reset"
      PROVE  CircInv'
  BY <1>7
<1>8. CASE \/ ui_poll \/ ui_result \/ ui_pop \/ ui_close
  BY <1>7, <1>8 DEF ui_poll, ui_result, ui_pop, ui_close, stateVars, circVars, uiRest
<1>9. CASE \/ send_status \/ pulse_status \/ store_thread \/ store_result
           \/ click_send("send", sliders) \/ click_send("stop", Zero)
           \/ \E p \in Pulses : click_pulse(p)
  <2>1. /\ UNCHANGED <<circ_active, circ_stick, circ_points, was_reset, upc>>
        /\ cpc' # "reset"
    BY <1>9 DEF send_status, pulse_status, store_thread, store_result, click_send,
       click_pulse, Click, callbackRest, stateVars, circVars
  <2> QED
    BY <1>7, <2>1
<1>10. CASE \/ SendStep("callback") \/ \E p \in Pulses : PulseStep(p)
            \/ plug \/ unplug \/ UNCHANGED vars
  <2>1. UNCHANGED <<stateVars, upc, cpc>>
    BY <1>10 DEF PulseStep, SendStep, send_open, send_ioctl, send_ioctl_fails,
       pulse_sent, pulse_failed, pulse_slept, pulse_done, windowRest, pulseRest,
       plug, unplug, vars
  <2>2. UNCHANGED <<circ_active, circ_stick, circ_points, was_reset, upc, cpc>>
    BY <2>1 DEF stateVars, circVars
  <2> QED
    BY <1>7, <2>2
<1> QED
  BY <1>1, <1>2, <1>3, <1>4, <1>5, <1>6, <1>7, <1>8, <1>9, <1>10
  DEF Next, UIStep, CallbackStep, UserStep
-------------------------------------------------------------------------------
(* The rumble panel *)

Percents == Settings \cup {Zero, <<50, 50>>}

SendStates == {"none", "open", "ioctl", "sent", "failed", "wait"}

PanelTypes ==
  /\ focus \in {"rumble", "circularity"}
  /\ upc \in {"drain", "record", "sample", "exit"} \cup UpdateStates
  /\ cpc \in {"idle", "send", "stop", "reset"} \cup PulseCallback
  /\ new \in Pulses \cup {None}
  /\ result \in [Pulses -> {"", "report"}]
  /\ sliders \in Settings
  /\ tags \in [thread : Pulses \cup {None}, result : Pulses \cup {None}]
  /\ status \in {"", "Pulsing", "report"}

MotorTypes ==
  /\ node \in BOOLEAN /\ motors \in (0 .. 255) \X (0 .. 255)
  /\ pc \in [Senders -> SendStates]
  /\ want \in [Senders -> Percents]
  /\ held \in BOOLEAN /\ failed \in BOOLEAN

(* Only a controller that is there has an open file or running motors. *)
MotorsThere ==
  /\ \A t \in Senders : pc[t] = "ioctl" => node
  /\ ~node => motors = Zero

MotorOK == MotorTypes /\ MotorsThere /\ MotorsHaveHolder

LEMMA ScaledPercents ==
  /\ \A p \in Percents : Scaled(p) \in (0 .. 255) \X (0 .. 255)
  /\ Scaled(Zero) = Zero
<1>1. \A n \in 0 .. 100 : intensity(n) \in 0 .. 255
  BY DEF intensity, Clip
<1>2. intensity(0) = 0
  BY DEF intensity, Clip
<1>3. Percents \subseteq (0 .. 100) \X (0 .. 100)
  BY WindowAssumption DEF Percents, Zero
<1>4. \A p \in Percents : p[1] \in 0 .. 100 /\ p[2] \in 0 .. 100
  BY <1>3
<1>5. ASSUME NEW p \in Percents PROVE Scaled(p) \in (0 .. 255) \X (0 .. 255)
  <2>1. intensity(p[1]) \in 0 .. 255 /\ intensity(p[2]) \in 0 .. 255
    BY <1>1, <1>4
  <2> QED
    BY <2>1, SMTT(30) DEF Scaled
<1>6. Scaled(Zero) = Zero
  BY <1>2 DEF Scaled, Zero
<1> QED
  BY <1>5, <1>6

LEMMA MotorInit == Init => PanelTypes /\ MotorOK
<1> SUFFICES ASSUME Init PROVE PanelTypes /\ MotorOK
  OBVIOUS
<1>1. PanelTypes
  BY DEF Init, PanelTypes
<1>2. node \in BOOLEAN /\ held \in BOOLEAN /\ failed \in BOOLEAN /\ motors = Zero
  BY DEF Init
<1>3. MotorTypes
  <2>1. motors \in (0 .. 255) \X (0 .. 255)
    BY <1>2 DEF Zero
  <2>2. pc \in [Senders -> SendStates] /\ want \in [Senders -> Percents]
    BY DEF Init, SendStates, Percents
  <2> QED
    BY <1>2, <2>1, <2>2 DEF MotorTypes
<1> QED
  BY <1>1, <1>2, <1>3 DEF Init, MotorOK, MotorsThere, MotorsHaveHolder

LEMMA PanelStep ==
  ASSUME PanelTypes, [Next]_vars
  PROVE  PanelTypes'
<1> USE DEF PanelTypes
<1>1. CASE ui_apply \/ ui_sample \/ ui_sample_end
  BY <1>1 DEF ui_apply, ui_sample, ui_sample_end, uiRest, threadVars, UpdateStates
<1>2. CASE ui_poll \/ ui_close
  BY <1>2 DEF ui_poll, ui_close, uiRest, threadVars, UpdateStates
<1>3. CASE ui_result
  <2>1. status' \in {"", "Pulsing", "report"}
    BY <1>3 DEF ui_result
  <2> QED
    BY <1>3, <2>1 DEF ui_result, uiRest, threadVars, UpdateStates
<1>4. CASE ui_pop
  <2>1. tags' \in [thread : Pulses \cup {None}, result : Pulses \cup {None}]
    BY <1>4 DEF ui_pop
  <2>2. upc' \in {"pop_result", "drain"}
    BY <1>4 DEF ui_pop
  <2> QED
    BY <1>4, <2>1, <2>2 DEF ui_pop, uiRest, threadVars, UpdateStates
<1>5. ASSUME NEW p \in Pulses,
             \/ pulse_sent(p) \/ pulse_failed(p) \/ pulse_slept(p) \/ pulse_done(p)
      PROVE  PanelTypes'
  <2>1. result' \in [Pulses -> {"", "report"}]
    BY <1>5 DEF pulse_sent, pulse_failed, pulse_slept, pulse_done
  <2> QED
    BY <1>5, <2>1 DEF pulse_sent, pulse_failed, pulse_slept, pulse_done,
                      pulseRest, panelVars
<1>6. CASE \/ \E t \in Senders : SendStep(t)
           \/ plug \/ unplug \/ UNCHANGED vars
  BY <1>6 DEF SendStep, send_open, send_ioctl, send_ioctl_fails, plug, unplug,
              windowRest, vars, panelVars, threadVars
<1>7. CASE send_status \/ pulse_status \/ store_thread \/ store_result
  <2>1. /\ tags' \in [thread : Pulses \cup {None}, result : Pulses \cup {None}]
        /\ new' \in Pulses \cup {None}
    BY <1>7 DEF send_status, pulse_status, store_thread, store_result
  <2>2. /\ cpc' \in {"idle", "store_thread", "store_result"}
        /\ status' \in {"", "Pulsing", "report"}
        /\ UNCHANGED <<focus, upc, result, sliders>>
    BY <1>7 DEF send_status, pulse_status, store_thread, store_result, callbackRest
  <2> QED
    BY <2>1, <2>2 DEF PulseCallback
<1>8. CASE \/ click_circ \/ click_reset \/ reset_clear
           \/ click_send("send", sliders) \/ click_send("stop", Zero)
  <2>1. /\ UNCHANGED <<focus, upc, new, result, sliders, tags, status>>
        /\ cpc' \in {"idle", "reset", "send", "stop"}
    BY <1>8 DEF click_circ, Click, click_reset, reset_clear, click_send,
                circWindow, callbackRest, threadVars, panelVars
  <2> QED
    BY <2>1
<1>9. ASSUME NEW p \in Pulses, click_pulse(p) PROVE PanelTypes'
  <2>1. result' \in [Pulses -> {"", "report"}]
    BY <1>9 DEF click_pulse
  <2> QED
    BY <1>9, <2>1 DEF click_pulse, PulseCallback
<1>10. /\ SendStep("callback") => \E t \in Senders : SendStep(t)
       /\ \A p \in Pulses : SendStep(p) => \E t \in Senders : SendStep(t)
  BY DEF Senders
<1> QED
  BY <1>1, <1>2, <1>3, <1>4, <1>5, <1>6, <1>7, <1>8, <1>9, <1>10
  DEF Next, UIStep, CallbackStep, UserStep, PulseStep
-------------------------------------------------------------------------------
(* What a command that is sent, or fails, does to the motors. *)

LEMMA GotoType ==
  ASSUME pc \in [Senders -> SendStates], NEW t \in Senders, NEW s \in SendStates,
         goto(t, s)
  PROVE  /\ pc' \in [Senders -> SendStates]
         /\ pc'[t] = s
         /\ \A u \in Senders : u # t => pc'[u] = pc[u]
BY DEF goto

LEMMA SendKeepsMotors ==
  ASSUME MotorOK, NEW t \in Senders, SendStep(t)
  PROVE  MotorOK'
<1> USE DEF MotorOK
<1>1. /\ pc \in [Senders -> SendStates] /\ want' = want /\ node' = node /\ upc' = upc
      /\ want[t] \in Percents
  BY DEF MotorTypes, SendStep, send_open, send_ioctl, send_ioctl_fails,
         windowRest, deviceVars
<1>2. \A p \in Pulses : p \in Senders
  BY DEF Senders
<1>3. Running
  BY DEF SendStep, send_open, send_ioctl, send_ioctl_fails, at
<1>4. CASE send_open(t)
  <2>1. PICK s \in {"ioctl", "failed"} : goto(t, s) /\ (s = "ioctl" <=> node)
    BY <1>4 DEF send_open
  <2>2. /\ UNCHANGED <<motors, held, failed>> /\ pc[t] = "open"
    BY <1>4 DEF send_open, deviceVars, at
  <2>3. s \in SendStates
    BY DEF SendStates
  <2>4. /\ pc' \in [Senders -> SendStates]
        /\ pc'[t] = s
        /\ \A u \in Senders : u # t => pc'[u] = pc[u]
    BY <1>1, <2>1, <2>3, GotoType
  <2>5. MotorTypes'
    BY <1>1, <2>2, <2>4 DEF MotorTypes
  <2>6. MotorsThere'
    BY <1>1, <2>1, <2>2, <2>4 DEF MotorsThere
  <2>7. MotorsHaveHolder'
    <3>1. CASE ~node
      BY <1>1, <2>2, <3>1 DEF MotorsThere, MotorsHaveHolder
    <3>2. CASE node
      <4>1. ASSUME NEW p \in Pulses, WillStop(p) PROVE WillStop(p)'
        BY <1>1, <1>2, <2>1, <2>2, <2>4, <3>2, <4>1 DEF WillStop
      <4> QED
        BY <1>1, <1>3, <2>2, <4>1 DEF MotorsHaveHolder, Running
    <3> QED
      BY <3>1, <3>2
  <2> QED
    BY <2>5, <2>6, <2>7
<1>5. CASE send_ioctl(t)
  <2>1. /\ motors' = Scaled(want[t]) /\ pc[t] = "ioctl" /\ goto(t, "sent")
        /\ held' = (want[t] # Zero /\ (held \/ t = "callback"))
        /\ failed' = FALSE
    BY <1>5 DEF send_ioctl, at
  <2>2. /\ pc' \in [Senders -> SendStates]
        /\ pc'[t] = "sent"
        /\ \A u \in Senders : u # t => pc'[u] = pc[u]
    BY <1>1, <2>1, GotoType DEF SendStates
  <2>3. MotorTypes'
    <3>1. held' \in BOOLEAN /\ failed' \in BOOLEAN
      BY <2>1
    <3>2. motors' \in (0 .. 255) \X (0 .. 255)
      BY <1>1, <2>1, ScaledPercents
    <3> QED
      BY <1>1, <2>2, <3>1, <3>2 DEF MotorTypes
  <2>4. node
    BY <2>1 DEF MotorsThere
  <2>5. MotorsThere'
    BY <1>1, <2>4 DEF MotorsThere
  <2>6. MotorsHaveHolder'
    <3>1. CASE want[t] = Zero
      BY <2>1, <3>1, ScaledPercents DEF MotorsHaveHolder
    <3>2. CASE want[t] # Zero /\ t = "callback"
      BY <2>1, <3>2 DEF MotorsHaveHolder
    <3>3. CASE want[t] # Zero /\ t \in Pulses
      <4>1. WillStop(t)'
        BY <1>1, <2>2, <3>3 DEF WillStop
      <4> QED
        BY <3>3, <4>1 DEF MotorsHaveHolder
    <3> QED
      BY <3>1, <3>2, <3>3 DEF Senders
  <2> QED
    BY <2>3, <2>5, <2>6
<1>6. CASE send_ioctl_fails(t)
  <2>1. /\ motors' \in {motors, Scaled(want[t])} /\ pc[t] = "ioctl" /\ goto(t, "failed")
        /\ held' = (held /\ motors' # Zero)
        /\ failed' = (motors' # Zero)
    BY <1>6 DEF send_ioctl_fails, at
  <2>2. pc' \in [Senders -> SendStates]
    BY <1>1, <2>1, GotoType DEF SendStates
  <2>3. MotorTypes'
    <3>1. held' \in BOOLEAN /\ failed' \in BOOLEAN
      BY <2>1
    <3>2. motors' \in (0 .. 255) \X (0 .. 255)
      BY <1>1, <2>1, ScaledPercents DEF MotorTypes
    <3> QED
      BY <1>1, <2>2, <3>1, <3>2 DEF MotorTypes
  <2>4. node
    BY <2>1 DEF MotorsThere
  <2>5. MotorsThere'
    BY <1>1, <2>4 DEF MotorsThere
  <2>6. MotorsHaveHolder'
    BY <2>1 DEF MotorsHaveHolder
  <2> QED
    BY <2>3, <2>5, <2>6
<1> QED
  BY <1>4, <1>5, <1>6 DEF SendStep

LEMMA PulseKeepsMotors ==
  ASSUME MotorOK, NEW p \in Pulses,
         \/ pulse_sent(p) \/ pulse_failed(p) \/ pulse_slept(p) \/ pulse_done(p)
  PROVE  MotorOK'
<1> USE DEF MotorOK
<1>1. p \in Senders /\ (\A q \in Pulses : q \in Senders) /\ Zero \in Percents
  BY DEF Senders, Percents
<1>2. UNCHANGED <<node, motors, held, failed, upc>>
  BY DEF pulse_sent, pulse_failed, pulse_slept, pulse_done, pulseRest, deviceVars
<1>3. PICK s \in {"wait", "none", "open"} : goto(p, s)
  BY DEF pulse_sent, pulse_failed, pulse_slept, pulse_done
<1>4. /\ pc' \in [Senders -> SendStates]
      /\ pc'[p] = s
      /\ \A u \in Senders : u # p => pc'[u] = pc[u]
  BY <1>1, <1>3, GotoType DEF SendStates, MotorTypes
<1>5. want' \in {want, [want EXCEPT ![p] = Zero]}
  BY DEF pulse_sent, pulse_failed, pulse_slept, pulse_done
<1>6. /\ want' \in [Senders -> Percents]
      /\ \A u \in Senders : u # p => want'[u] = want[u]
  BY <1>1, <1>5 DEF MotorTypes
<1>7. MotorTypes'
  BY <1>2, <1>4, <1>6 DEF MotorTypes
<1>8. MotorsThere'
  BY <1>2, <1>4, <1>3 DEF MotorsThere
<1>9. ASSUME NEW q \in Pulses, WillStop(q) PROVE WillStop(q)'
  <2>1. CASE q # p
    BY <1>1, <1>4, <1>6, <1>9, <2>1 DEF WillStop
  <2>2. CASE q = p
    <3>1. CASE pulse_sent(p)
      <4>1. pc'[p] = "wait" /\ want' = want /\ want[p] # Zero
        BY <1>1, <3>1, GotoType DEF pulse_sent, MotorTypes, SendStates
      <4> QED
        BY <2>2, <4>1 DEF WillStop
    <3>2. CASE pulse_slept(p)
      <4>1. pc'[p] = "open" /\ want' = [want EXCEPT ![p] = Zero]
        BY <1>1, <3>2, GotoType DEF pulse_slept, MotorTypes, SendStates
      <4>2. want'[p] = Zero
        BY <1>1, <4>1 DEF MotorTypes
      <4> QED
        BY <2>2, <4>1, <4>2 DEF WillStop
    <3>3. CASE pulse_failed(p) \/ pulse_done(p)
      BY <1>9, <2>2, <3>3 DEF WillStop, pulse_failed, pulse_done, at
    <3> QED
      BY <3>1, <3>2, <3>3
  <2> QED
    BY <2>1, <2>2
<1>10. MotorsHaveHolder'
  BY <1>2, <1>9 DEF MotorsHaveHolder, Running
<1> QED
  BY <1>7, <1>8, <1>10

LEMMA MotorStep ==
  ASSUME MotorOK, PanelTypes, [Next]_vars
  PROVE  MotorOK'
<1> USE DEF MotorOK
<1>1. "callback" \in Senders /\ (\A p \in Pulses : p \in Senders /\ p # "callback")
  BY WindowAssumption DEF Senders
<1>2. ASSUME NEW p \in Pulses, PulseStep(p) PROVE MotorOK'
  BY <1>1, <1>2, SendKeepsMotors, PulseKeepsMotors DEF PulseStep
<1>3. CASE SendStep("callback")
  BY <1>1, <1>3, SendKeepsMotors
<1>4. CASE click_send("send", sliders) \/ click_send("stop", Zero) \/ send_status
  <2>1. PICK s \in {"open", "none"}, z \in Percents :
          goto("callback", s) /\ want' = [want EXCEPT !["callback"] = z]
    BY <1>4 DEF click_send, send_status, Percents, PanelTypes
  <2>2. UNCHANGED <<node, motors, held, failed, upc>>
    BY <1>4 DEF click_send, send_status, callbackRest, deviceVars
  <2>3. /\ pc' \in [Senders -> SendStates]
        /\ pc'["callback"] = s
        /\ \A u \in Senders : u # "callback" => pc'[u] = pc[u]
    BY <1>1, <2>1, GotoType DEF SendStates, MotorTypes
  <2>4. /\ want' \in [Senders -> Percents]
        /\ \A u \in Senders : u # "callback" => want'[u] = want[u]
    BY <1>1, <2>1 DEF MotorTypes
  <2>5. MotorTypes'
    BY <2>2, <2>3, <2>4 DEF MotorTypes
  <2>6. MotorsThere'
    BY <2>2, <2>3 DEF MotorsThere
  <2>7. ASSUME NEW q \in Pulses, WillStop(q) PROVE WillStop(q)'
    BY <1>1, <2>3, <2>4, <2>7 DEF WillStop
  <2>8. MotorsHaveHolder'
    BY <2>2, <2>7 DEF MotorsHaveHolder, Running
  <2> QED
    BY <2>5, <2>6, <2>8
<1>5. ASSUME NEW p \in Pulses, click_pulse(p) PROVE MotorOK'
  <2>1. UNCHANGED <<node, motors, held, failed, upc>>
    BY <1>5 DEF click_pulse, deviceVars
  <2>2. pc[p] = "none" /\ goto(p, "open")
    BY <1>5 DEF click_pulse, Free
  <2>3. PICK z \in Percents : want' = [want EXCEPT ![p] = z]
    BY <1>5 DEF click_pulse, Percents, PanelTypes
  <2>4. /\ pc' \in [Senders -> SendStates]
        /\ pc'[p] = "open"
        /\ \A u \in Senders : u # p => pc'[u] = pc[u]
    BY <1>1, <2>2, GotoType DEF SendStates, MotorTypes
  <2>5. /\ want' \in [Senders -> Percents]
        /\ \A u \in Senders : u # p => want'[u] = want[u]
    BY <1>1, <2>3 DEF MotorTypes
  <2>6. MotorTypes'
    BY <2>1, <2>4, <2>5 DEF MotorTypes
  <2>7. MotorsThere'
    BY <2>1, <2>4 DEF MotorsThere
  <2>8. ASSUME NEW q \in Pulses, WillStop(q) PROVE WillStop(q)'
    BY <1>1, <2>2, <2>4, <2>5, <2>8 DEF WillStop
  <2>9. MotorsHaveHolder'
    BY <2>1, <2>8 DEF MotorsHaveHolder, Running
  <2> QED
    BY <2>6, <2>7, <2>9
<1>6. CASE plug
  <2>1. node' = TRUE /\ UNCHANGED <<motors, held, failed, pc, want, upc>>
    BY <1>6 DEF plug, windowRest
  <2> QED
    BY <2>1 DEF MotorTypes, MotorsThere, MotorsHaveHolder, Running, WillStop
<1>7. CASE unplug
  <2>1. /\ node' = FALSE /\ motors' = Zero /\ held' = FALSE /\ failed' = FALSE
        /\ pc' = [t \in Senders |-> IF pc[t] = "ioctl" THEN "failed" ELSE pc[t]]
        /\ want' = want
    BY <1>7 DEF unplug, windowRest
  <2>2. pc' \in [Senders -> SendStates]
    BY <2>1 DEF MotorTypes, SendStates
  <2>3. \A t \in Senders : pc'[t] # "ioctl"
    BY <2>1
  <2>4. motors' \in (0 .. 255) \X (0 .. 255)
    BY <2>1 DEF Zero
  <2>5. MotorTypes'
    BY <2>1, <2>2, <2>4 DEF MotorTypes
  <2>6. MotorsThere' /\ MotorsHaveHolder'
    BY <2>1, <2>3 DEF MotorsThere, MotorsHaveHolder
  <2> QED
    BY <2>5, <2>6
<1>8. ASSUME UNCHANGED <<node, motors, held, failed, pc, want>>, Running' => Running
      PROVE  MotorOK'
  BY <1>8 DEF MotorTypes, MotorsThere, MotorsHaveHolder, WillStop
<1>9. CASE \/ ui_apply \/ ui_sample \/ ui_sample_end \/ ui_poll \/ ui_result
           \/ ui_pop \/ ui_close
  <2>1. UNCHANGED <<node, motors, held, failed, pc, want>>
    BY <1>9 DEF ui_apply, ui_sample, ui_sample_end, ui_poll, ui_result, ui_pop,
                ui_close, uiRest, deviceVars, threadVars
  <2>2. upc # "exit"
    BY <1>9 DEF ui_apply, ui_sample, ui_sample_end, ui_poll, ui_result, ui_pop,
                ui_close
  <2> QED
    BY <1>8, <2>1, <2>2 DEF Running
<1>10. CASE \/ pulse_status \/ store_thread \/ store_result \/ reset_clear
            \/ click_circ \/ click_reset \/ UNCHANGED vars
  <2>1. UNCHANGED <<node, motors, held, failed, pc, want, upc>>
    BY <1>10 DEF pulse_status, store_thread, store_result, reset_clear, click_circ,
         click_reset, callbackRest, circWindow, vars, deviceVars, threadVars
  <2> QED
    BY <1>8, <2>1 DEF Running
<1> QED
  BY <1>2, <1>3, <1>4, <1>5, <1>6, <1>7, <1>9, <1>10
  DEF Next, UIStep, CallbackStep, UserStep
-------------------------------------------------------------------------------
WindowInv == TimeInv /\ CircInv /\ PanelTypes /\ MotorOK

THEOREM WindowInvariant == Spec => []WindowInv
<1>1. Init => WindowInv
  BY TimeInit, CircInit, MotorInit DEF WindowInv
<1>2. WindowInv /\ [Next]_vars => WindowInv'
  BY TimeStep, CircStep, PanelStep, MotorStep DEF WindowInv
<1> QED
  BY <1>1, <1>2, PTL DEF Spec

(* Every variable keeps its type and every history its bound; the rate and *)
(* the jitter are never made from intervals that are no longer there.      *)
THEOREM WindowTypeCorrect == Spec => []WindowTypeOK
<1>1. WindowInv => WindowTypeOK
  <2> SUFFICES ASSUME WindowInv PROVE WindowTypeOK
    OBVIOUS
  <2>1. stats \in {<<>>, intervals}
    BY DEF WindowInv, TimeInv
  <2>2. StateTypeOK
    BY <2>1 DEF WindowInv, TimeInv, TimeTypes, Interval, CircInv, CircTypes, StateTypeOK
  <2> QED
    BY <2>2 DEF WindowInv, PanelTypes, MotorOK, MotorTypes, SendStates, Percents,
                WindowTypeOK
<1> QED
  BY <1>1, WindowInvariant, PTL

(* The timing panel shows the intervals of one connection, in their order, *)
(* and figures made from exactly these.                                    *)
THEOREM TimingCorrect == Spec => []IntervalsOfConnection
<1>1. WindowInv => IntervalsOfConnection
  <2> SUFFICES ASSUME WindowInv PROVE IntervalsOfConnection
    OBVIOUS
  <2>1. TimeInv
    BY DEF WindowInv
  <2>2. \A k \in DOMAIN intervals :
          /\ {intervals[k].from.session, intervals[k].to.session} = {session}
          /\ intervals[k].to.id = (intervals[k].from.id + 1) % Ids
          /\ k > 1 => intervals[k].from = intervals[k - 1].to
    BY <2>1 DEF TimeInv, Chained, Links
  <2>3. /\ intervals # <<>> => intervals[Len(intervals)].to = prev_recv
        /\ stats = IF Len(intervals) >= 2 THEN intervals ELSE <<>>
        /\ upc = "drain" => sample = prev_recv
    BY <2>1 DEF TimeInv, NewestCounted
  <2> QED
    BY <2>2, <2>3 DEF IntervalsOfConnection
<1> QED
  BY <1>1, WindowInvariant, PTL

(* Reset leaves at most the one point that was being recorded. *)
THEOREM ResetCorrect == Spec => []ResetHolds
<1>1. WindowInv => ResetHolds
  BY DEF WindowInv, CircInv, NotRecording, ResetHolds
<1> QED
  BY <1>1, WindowInvariant, PTL

(* No order of clicks, pulses, failures and unplugs leaves the motors      *)
(* running for no one.                                                     *)
THEOREM MotorsCorrect == Spec => []MotorsHaveHolder
<1>1. WindowInv => MotorsHaveHolder
  BY DEF WindowInv, MotorOK
<1> QED
  BY <1>1, WindowInvariant, PTL
===============================================================================
