------------------------------ MODULE DashWindow ------------------------------
(***************************************************************************)
(* The dashboard's window: the UI thread (app.py), which applies events    *)
(* and updates the panels once a frame; the thread on which DearPyGui runs *)
(* the callbacks of the buttons; the pulse threads of the rumble panel;    *)
(* and the motors they command through files of their own.  State and the  *)
(* dictionary tags of the rumble panel are shared without a lock.          *)
(***************************************************************************)
EXTENDS DashState, PacketFormat

CONSTANTS
  Pulses,   \* bound: pulse threads alive, or not yet polled, at a time
  Settings  \* the positions <<left, right>> of the two sliders

ASSUME WindowAssumption ==
  /\ "callback" \notin Pulses /\ None \notin Pulses
  /\ Settings \subseteq (0 .. 100) \X (0 .. 100)

VARIABLES
  focus,     \* bound: the panel the user works with in this behaviour
  \* the controller
  node,      \* does open find it?
  motors,    \* the intensities of its motors
  \* the threads
  upc,       \* where the UI thread is
  cpc,       \* the callback that runs, and where it is
  new,       \* the pulse that callback has started
  pc,        \* of the commands of each thread: _send_motors
  want,      \* the percentages each thread is asking for
  result,    \* pulse_result[0] of each pulse
  \* the rumble panel
  sliders,
  tags,      \* tags["_pulse_thread"], tags["_pulse_result"]
  status,
  \* history
  held,      \* the motors run because Send was clicked
  failed     \* the motors run, and the last command failed

deviceVars == <<node, motors, held, failed>>
threadVars == <<pc, want, result>>
panelVars  == <<sliders, tags, status>>

vars == <<stateVars, focus, deviceVars, upc, cpc, new, threadVars, panelVars>>

Zero == <<0, 0>>

Senders == Pulses \cup {"callback"}

Scaled(p) == <<intensity(p[1]), intensity(p[2])>>

UpdateStates == {"result", "pop_thread", "pop_result"}

PulseCallback == {"pulsing", "store_thread", "store_result"}

Init ==
  /\ StateInit
  /\ focus \in {"rumble", "circularity"}
  /\ node \in BOOLEAN /\ motors = Zero
  /\ upc = "drain" /\ cpc = "idle" /\ new = None
  /\ pc = [t \in Senders |-> "none"] /\ want = [t \in Senders |-> Zero]
  /\ result = [p \in Pulses |-> ""]
  /\ sliders \in Settings /\ tags = [thread |-> None, result |-> None] /\ status = ""
  /\ held = FALSE /\ failed = FALSE

Running == upc # "exit"

-------------------------------------------------------------------------------
(* The controller *)

windowRest == <<stateVars, focus, upc, cpc, new, want, result, panelVars>>

plug ==
  /\ focus = "rumble" /\ ~node
  /\ node' = TRUE
  /\ UNCHANGED <<windowRest, motors, held, failed, pc>>

(* The ioctl on a file that is open now will fail: ENODEV. *)
unplug ==
  /\ focus = "rumble" /\ node
  /\ node' = FALSE /\ motors' = Zero /\ held' = FALSE /\ failed' = FALSE
  /\ pc' = [t \in Senders |-> IF pc[t] = "ioctl" THEN "failed" ELSE pc[t]]
  /\ UNCHANGED windowRest

-------------------------------------------------------------------------------
(* _send_motors, in any thread *)

at(t, s) == Running /\ pc[t] = s

goto(t, s) == pc' = [pc EXCEPT ![t] = s]

send_open(t) ==
  /\ at(t, "open")
  /\ goto(t, IF node THEN "ioctl" ELSE "failed")
  /\ UNCHANGED <<windowRest, deviceVars>>

(* The driver scales the percentages and sends them to the controller;     *)
(* os.close follows.                                                       *)
send_ioctl(t) ==
  /\ at(t, "ioctl")
  /\ abi_SET_MOTORS = RUMBLE_SET_MOTORS
  /\ motors' = Scaled(want[t])
  /\ held' = (want[t] # Zero /\ (held \/ t = "callback"))
  /\ failed' = FALSE
  /\ goto(t, "sent")
  /\ UNCHANGED <<windowRest, node>>

(* The transfer fails, or times out and may have reached the controller.   *)
(* The exception skips os.close: the file stays open until the program     *)
(* ends.                                                                   *)
send_ioctl_fails(t) ==
  /\ at(t, "ioctl")
  /\ motors' \in {motors, Scaled(want[t])}
  /\ held' = (held /\ motors' # Zero)
  /\ failed' = (motors' # Zero)
  /\ goto(t, "failed")
  /\ UNCHANGED <<windowRest, node>>

SendStep(t) ==
  send_open(t) \/ send_ioctl(t) \/ send_ioctl_fails(t)

-------------------------------------------------------------------------------
(* _pulse *)

pulseRest == <<stateVars, focus, deviceVars, upc, cpc, new, panelVars>>

(* Mutation of pulse_sent: the second command is forgotten. *)
pulse_sent_only_once(p) ==
  /\ pc[p] \in {"sent", "wait"} /\ Running
  /\ goto(p, "none")
  /\ result' = [result EXCEPT ![p] = "report"]
  /\ UNCHANGED <<pulseRest, want>>

(* The first command was sent. *)
pulse_sent(p) ==
  /\ at(p, "sent") /\ want[p] # Zero
  /\ goto(p, "wait")
  /\ UNCHANGED <<pulseRest, want, result>>

pulse_failed(p) ==
  /\ at(p, "failed") /\ want[p] # Zero
  /\ goto(p, "none")
  /\ result' = [result EXCEPT ![p] = "report"]
  /\ want' = [want EXCEPT ![p] = Zero]
  /\ UNCHANGED pulseRest

(* The sleep is over: _send_motors(0, 0). *)
pulse_slept(p) ==
  /\ at(p, "wait")
  /\ goto(p, "open")
  /\ want' = [want EXCEPT ![p] = Zero]
  /\ UNCHANGED <<pulseRest, result>>

(* What became of the second command is not looked at. *)
pulse_done(p) ==
  /\ Running /\ pc[p] \in {"sent", "failed"} /\ want[p] = Zero
  /\ goto(p, "none")
  /\ result' = [result EXCEPT ![p] = "report"]
  /\ UNCHANGED <<pulseRest, want>>

PulseStep(p) ==
  SendStep(p) \/ pulse_sent(p) \/ pulse_failed(p) \/ pulse_slept(p) \/ pulse_done(p)

-------------------------------------------------------------------------------
(* The callbacks, one after the other on DearPyGui's thread *)

callbackRest == <<stateVars, focus, deviceVars, upc, result, sliders>>

Click(panel) == Running /\ cpc = "idle" /\ focus = panel

(* _on_send and _on_stop *)
click_send(callback, percent) ==
  /\ Click("rumble")
  /\ cpc' = callback
  /\ goto("callback", "open")
  /\ want' = [want EXCEPT !["callback"] = percent]
  /\ UNCHANGED <<callbackRest, new, tags, status>>

(* The error, "Stopped" or "" is shown: a report, too. *)
send_status ==
  /\ Running /\ cpc \in {"send", "stop"} /\ pc["callback"] \in {"sent", "failed"}
  /\ status' = "report"
  /\ cpc' = "idle"
  /\ goto("callback", "none")
  /\ want' = [want EXCEPT !["callback"] = Zero]
  /\ UNCHANGED <<callbackRest, new, tags>>

(* The pulses whose thread and result no one looks at any more. *)
Free == {p \in Pulses : pc[p] = "none" /\ p \notin {tags.thread, tags.result}}

(* _on_pulse, up to t.start().  Which of the free pulses it is does not    *)
(* matter.                                                                 *)
click_pulse(p) ==
  /\ Click("rumble")
  /\ Free # {} /\ p = CHOOSE q \in Free : TRUE
  /\ cpc' = "pulsing" /\ new' = p
  /\ goto(p, "open")
  /\ want' = [want EXCEPT ![p] = IF sliders = Zero THEN <<50, 50>> ELSE sliders]
  /\ result' = [result EXCEPT ![p] = ""]
  /\ UNCHANGED <<stateVars, focus, deviceVars, upc, sliders, tags, status>>

pulse_status ==
  /\ Running /\ cpc = "pulsing"
  /\ status' = "Pulsing"
  /\ cpc' = "store_thread"
  /\ UNCHANGED <<callbackRest, new, pc, want, tags>>

store_thread ==
  /\ Running /\ cpc = "store_thread"
  /\ tags' = [tags EXCEPT !.thread = new]
  /\ cpc' = "store_result"
  /\ UNCHANGED <<callbackRest, new, pc, want, status>>

store_result ==
  /\ Running /\ cpc = "store_result"
  /\ tags' = [tags EXCEPT !.result = new]
  /\ cpc' = "idle" /\ new' = None
  /\ UNCHANGED <<callbackRest, pc, want, status>>

-------------------------------------------------------------------------------
circWindow == <<focus, deviceVars, upc, new, threadVars, panelVars>>

(* The circularity panel's Start, Stop and combo box. *)
click_circ ==
  /\ Click("circularity")
  /\ circ_start \/ circ_stop \/ \E v \in Sticks : circ_select(v)
  /\ UNCHANGED <<circWindow, cpc>>

(* Mutation of click_reset: the recording goes on. *)
click_reset_records ==
  /\ Click("circularity")
  /\ cpc' = "reset"
  /\ UNCHANGED <<stateVars, circWindow>>

(* _reset, first half *)
click_reset ==
  /\ Click("circularity")
  /\ circ_stop
  /\ cpc' = "reset"
  /\ UNCHANGED circWindow

reset_clear ==
  /\ Running /\ cpc = "reset"
  /\ circ_clear
  /\ cpc' = "idle"
  /\ UNCHANGED circWindow

CallbackStep ==
  SendStep("callback") \/ send_status \/ pulse_status \/ store_thread \/ store_result
  \/ reset_clear

UserStep ==
  \/ click_send("send", sliders) \/ click_send("stop", Zero)
  \/ \E p \in Pulses : click_pulse(p)
  \/ click_circ \/ click_reset

-------------------------------------------------------------------------------
(* The UI thread *)

uiRest == <<focus, deviceVars, cpc, new, threadVars, sliders>>

(* An event from the queue: an overflow may have dropped any before it. *)
ui_apply ==
  /\ focus = "circularity" /\ upc = "drain"
  /\ apply_connected \/ apply_disconnected \/ apply_error \/ apply_hotplug
  /\ UNCHANGED <<uiRest, upc, tags, status>>

(* A sample, up to the test of circ_active. *)
ui_sample ==
  /\ focus = "circularity" /\ upc = "drain"
  /\ update_timing
  /\ upc' = IF circ_active THEN "record" ELSE "sample"
  /\ UNCHANGED <<uiRest, tags, status>>

ui_sample_end ==
  /\ \/ upc = "record" /\ record_point
     \/ upc = "sample" /\ show_sample
  /\ upc' = "drain"
  /\ UNCHANGED <<uiRest, tags, status>>

(* Mutation of ui_poll: the test of is_alive is not negated. *)
ui_poll_alive ==
  /\ upc = "drain"
  /\ tags.thread # None /\ pc[tags.thread] # "none"
  /\ upc' = "result"
  /\ UNCHANGED <<stateVars, uiRest, tags, status>>

(* The queue is empty and the update of the rumble panel finds a pulse     *)
(* thread that has ended.  The other panels only read State; a frame in    *)
(* which there is none changes nothing.                                    *)
ui_poll ==
  /\ upc = "drain"
  /\ tags.thread # None /\ pc[tags.thread] = "none"
  /\ upc' = "result"
  /\ UNCHANGED <<stateVars, uiRest, tags, status>>

(* tags.get("_pulse_result", [""])[0] is shown, unless it is "". *)
ui_result ==
  /\ upc = "result"
  /\ status' = IF tags.result = None \/ result[tags.result] = "" THEN status
               ELSE result[tags.result]
  /\ upc' = "pop_thread"
  /\ UNCHANGED <<stateVars, uiRest, tags>>

ui_pop ==
  /\ \/ /\ upc = "pop_thread" /\ tags' = [tags EXCEPT !.thread = None]
        /\ upc' = "pop_result"
     \/ /\ upc = "pop_result" /\ tags' = [tags EXCEPT !.result = None]
        /\ upc' = "drain"
  /\ UNCHANGED <<stateVars, uiRest, status>>

(* stop.set(), destroy_context(): the program ends, and with it the daemon *)
(* threads, wherever they are.                                             *)
ui_close ==
  /\ upc = "drain"
  /\ upc' = "exit"
  /\ UNCHANGED <<stateVars, uiRest, tags, status>>

UIStep == ui_sample_end \/ ui_poll \/ ui_result \/ ui_pop

Next ==
  \/ ui_apply \/ ui_sample \/ UIStep \/ ui_close
  \/ CallbackStep \/ UserStep
  \/ \E p \in Pulses : PulseStep(p)
  \/ plug \/ unplug

Spec == Init /\ [][Next]_vars

(* Every thread gets its turn: a command takes at most the 200 ms of the   *)
(* driver's transfer.  Nothing is asked of the user, the controller or the *)
(* reader, and the window need never be closed.                            *)
FairSpec ==
  /\ Spec
  /\ WF_vars(UIStep) /\ WF_vars(CallbackStep)
  /\ \A p \in Pulses : WF_vars(PulseStep(p))

-------------------------------------------------------------------------------
(* Properties *)

WindowTypeOK ==
  /\ StateTypeOK
  /\ focus \in {"rumble", "circularity"}
  /\ node \in BOOLEAN /\ motors \in (0 .. 255) \X (0 .. 255)
  /\ upc \in {"drain", "record", "sample", "exit"} \cup UpdateStates
  /\ cpc \in {"idle", "send", "stop", "reset"} \cup PulseCallback
  /\ new \in Pulses \cup {None}
  /\ pc \in [Senders -> {"none", "open", "ioctl", "sent", "failed", "wait"}]
  /\ want \in [Senders -> Settings \cup {Zero, <<50, 50>>}]
  /\ result \in [Pulses -> {"", "report"}]
  /\ sliders \in Settings
  /\ tags \in [thread : Pulses \cup {None}, result : Pulses \cup {None}]
  /\ status \in {"", "Pulsing", "report"}
  /\ held \in BOOLEAN /\ failed \in BOOLEAN

(* The timing panel shows one connection: the intervals plotted follow on  *)
(* each other, lie after the last disconnect and end with the newest       *)
(* sample, and rate, mean and jitter are those of exactly these intervals, *)
(* as soon as there are two (store.py:84-92, 107-118, timing.py:36-53).    *)
IntervalsOfConnection ==
  /\ \A k \in DOMAIN intervals :
       /\ {intervals[k].from.session, intervals[k].to.session} = {session}
       /\ intervals[k].to.id = (intervals[k].from.id + 1) % Ids
       /\ k > 1 => intervals[k].from = intervals[k - 1].to
  /\ intervals # <<>> => intervals[Len(intervals)].to = prev_recv
  /\ stats = IF Len(intervals) >= 2 THEN intervals ELSE <<>>
  /\ upc = "drain" => sample = prev_recv

(* After Reset the plot is empty, but for the one point of a sample that   *)
(* the UI thread was applying when Reset was clicked: no later sample is   *)
(* recorded before the next Start (circularity.py:79-88, store.py:120-125, *)
(* which runs on another thread).                                          *)
ResetHolds == was_reset => Len(circ_points) <= 1

(* A pulse that has still to send its zero. *)
WillStop(p) ==
  \/ want[p] # Zero /\ pc[p] \in {"sent", "wait"}
  \/ want[p] = Zero /\ pc[p] \in {"open", "ioctl"}

(* While the dashboard runs the motors run only because Send was clicked,  *)
(* or a pulse has still to stop them, or the last command failed: no order *)
(* of clicks, of overlapping pulses and of unplugs leaves them running for *)
(* no one, and a command that gets through makes good an earlier one that  *)
(* failed (rumble.py:16-26, 55-91).                                        *)
MotorsHaveHolder ==
  (Running /\ motors # Zero) => held \/ failed \/ \E p \in Pulses : WillStop(p)

(* Every pulse is reported: "Store thread + result so update() can poll    *)
(* it" (rumble.py:89-91, 100-108), unless the next one is clicked first or *)
(* the dashboard ends.  It is as long as no click on Pulse falls into an   *)
(* update that reports an earlier one: that click's thread and result are  *)
(* popped unread.                                                          *)
PulseReported ==
  []~(cpc \in PulseCallback /\ upc \in UpdateStates)
    => (status = "Pulsing" ~> (status # "Pulsing" \/ cpc = "pulsing" \/ ~Running))
===============================================================================
