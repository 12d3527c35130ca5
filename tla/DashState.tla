------------------------------- MODULE DashState -------------------------------
(***************************************************************************)
(* State of the dashboard (store.py): what the UI thread makes of the      *)
(* reader's events, and the recording of the circularity panel, whose      *)
(* callbacks write it, too.  Each action is a part of a function that no   *)
(* other thread can disturb; DashWindow has the threads.                   *)
(*                                                                         *)
(* The traces and the debug lines are bounded histories for the display    *)
(* and are left out.                                                       *)
(***************************************************************************)
EXTENDS Naturals, Sequences, BoundedQueue

CONSTANTS
  TIMING_HISTORY,  \* intervals kept
  CIRC_HISTORY,    \* points kept
  Ids,             \* bound: samples are counted modulo Ids
  None

ASSUME StateAssumption ==
  /\ TIMING_HISTORY \in Nat /\ TIMING_HISTORY >= 2
  /\ CIRC_HISTORY \in Nat /\ CIRC_HISTORY > 0
  /\ Ids \in Nat /\ Ids > 1
  /\ None \notin [id : 0 .. Ids - 1, session : BOOLEAN]

VARIABLES
  connected,
  last_error,    \* is an error text shown?
  sample,        \* the sample shown, or None
  prev_recv,     \* the sample prev_recv_ns belongs to, or None for 0
  intervals,     \* intervals_ms: the two samples each one lies between
  stats,         \* the intervals that rate, mean and jitter were made from
  packet_count,  \* modulo Ids: also the id of the newest sample
  circ_active, circ_stick,
  circ_points,   \* the stick each point was taken from
  session,       \* history: changes with every disconnect
  was_reset      \* history: Reset was clicked, and Start not since

connVars == <<connected, last_error>>
timeVars == <<prev_recv, intervals, stats, packet_count>>
circVars == <<circ_active, circ_stick, circ_points, was_reset>>

stateVars == <<connVars, sample, timeVars, circVars, session>>

Sticks == {"left", "right"}

Sample == [id : 0 .. Ids - 1, session : BOOLEAN]

StateInit ==
  /\ connected = FALSE /\ last_error = FALSE /\ sample = None
  /\ prev_recv = None /\ intervals = <<>> /\ stats = <<>> /\ packet_count = 0
  /\ circ_active = FALSE /\ circ_stick = "left" /\ circ_points = <<>>
  /\ session = FALSE /\ was_reset = FALSE

-------------------------------------------------------------------------------
(* State.apply, on the UI thread *)

apply_connected ==
  /\ connected' = TRUE /\ last_error' = FALSE
  /\ UNCHANGED <<sample, timeVars, circVars, session>>

(* Mutation of apply_disconnected: prev_recv_ns is kept. *)
apply_disconnected_keeps_prev ==
  /\ connected' = FALSE
  /\ sample' = None /\ intervals' = <<>> /\ stats' = <<>>
  /\ session' = ~session
  /\ UNCHANGED <<last_error, prev_recv, packet_count, circVars>>

apply_disconnected ==
  /\ connected' = FALSE
  /\ sample' = None /\ prev_recv' = None /\ intervals' = <<>> /\ stats' = <<>>
  /\ session' = ~session
  /\ UNCHANGED <<last_error, packet_count, circVars>>

apply_error ==
  /\ last_error' = TRUE
  /\ UNCHANGED <<connected, sample, timeVars, circVars, session>>

(* hotplug_add and hotplug_remove *)
apply_hotplug == UNCHANGED stateVars

(* The newest sample, when n of them have been counted. *)
Received(n) == [id |-> n % Ids, session |-> session]

(* A sample, up to the test of circ_active: _update_timing.  A deque of    *)
(* maxlen drops its oldest entry.                                          *)
update_timing ==
  LET s == Received(packet_count + 1) IN
    /\ packet_count' = s.id
    /\ prev_recv' = s
    /\ intervals' =
         IF prev_recv = None THEN intervals
         ELSE PutDroppingOldest(intervals, [from |-> prev_recv, to |-> s], TIMING_HISTORY)
    /\ stats' = IF prev_recv # None /\ Len(intervals') >= 2 THEN intervals' ELSE stats
    /\ UNCHANGED <<connVars, sample, circVars, session>>

(* Mutation of record_point: the deque has no maxlen. *)
record_point_unbounded ==
  /\ circ_points' = Append(circ_points, circ_stick)
  /\ sample' = Received(packet_count)
  /\ UNCHANGED <<connVars, timeVars, circ_active, circ_stick, was_reset, session>>

(* The rest of it: the point of a recording, and the sample is shown. *)
record_point ==
  /\ circ_points' = PutDroppingOldest(circ_points, circ_stick, CIRC_HISTORY)
  /\ sample' = Received(packet_count)
  /\ UNCHANGED <<connVars, timeVars, circ_active, circ_stick, was_reset, session>>

show_sample ==
  /\ sample' = Received(packet_count)
  /\ UNCHANGED <<connVars, timeVars, circVars, session>>

-------------------------------------------------------------------------------
(* The callbacks of the circularity panel *)

circRest == <<connVars, sample, timeVars, session>>

circ_start ==
  /\ circ_active' = TRUE /\ was_reset' = FALSE
  /\ UNCHANGED <<circRest, circ_stick, circ_points>>

circ_stop ==
  /\ circ_active' = FALSE
  /\ UNCHANGED <<circRest, circ_stick, circ_points, was_reset>>

circ_select(v) ==
  /\ circ_stick' = v
  /\ UNCHANGED <<circRest, circ_active, circ_points, was_reset>>

(* The second half of _reset, after circ_stop. *)
circ_clear ==
  /\ circ_points' = <<>> /\ was_reset' = TRUE
  /\ UNCHANGED <<circRest, circ_active, circ_stick>>

-------------------------------------------------------------------------------
StateTypeOK ==
  /\ connected \in BOOLEAN /\ last_error \in BOOLEAN
  /\ sample \in Sample \cup {None} /\ prev_recv \in Sample \cup {None}
  /\ intervals \in Seq([from : Sample, to : Sample])
  /\ Len(intervals) <= TIMING_HISTORY
  /\ stats \in {<<>>, intervals}
  /\ packet_count \in 0 .. Ids - 1
  /\ circ_active \in BOOLEAN /\ circ_stick \in Sticks
  /\ circ_points \in Seq(Sticks) /\ Len(circ_points) <= CIRC_HISTORY
  /\ session \in BOOLEAN /\ was_reset \in BOOLEAN
===============================================================================
