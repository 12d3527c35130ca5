------------------------------ MODULE RumbleMouse ------------------------------
(***************************************************************************)
(* The mouse emulation rumble_mouse.py: one thread that drains the packets *)
(* of /dev/rumble0, keeps the newest one, and turns it into events of a    *)
(* virtual mouse at fixed ticks, until a signal or a disconnect ends it.   *)
(*                                                                         *)
(* The two axes of the pointer and the two of the wheel are treated alike: *)
(* one of them is modelled, in whole fractions of a pixel.                 *)
(***************************************************************************)
EXTENDS Integers, Sequences, BoundedQueue

CONSTANTS
  Buttons,     \* LS, RS, LB
  Pixel,       \* units in a pixel
  Deflections, \* nx * speed_x * mult in units, for the stick's positions
  NULL,        \* None
  MaxUnread    \* bound: packets the driver's ring keeps

ASSUME MouseAssumption ==
  /\ Pixel \in Nat /\ Pixel > 0
  /\ Deflections \subseteq Int /\ 0 \in Deflections
  /\ MaxUnread \in Nat /\ MaxUnread > 0
  /\ NULL \notin [buttons : SUBSET Buttons, x : Deflections]

VARIABLES
  \* the controller and its driver
  node,           \* does open find a device?
  pad,            \* what the user holds down
  unread,         \* packets reported and not read, oldest first
  \* the mapper
  file,           \* its file: "none", "live", or "gone" after a disconnect
  pc,
  running,
  due,            \* now >= next_tick
  current_sample,
  last_buttons,
  residue,        \* residue_x
  \* the virtual mouse
  held,           \* buttons pressed and not yet released
  moved           \* the newest movement, in pixels

devVars == <<node, pad, unread>>
mapVars == <<current_sample, last_buttons, residue, held, moved>>

vars == <<devVars, file, pc, running, due, mapVars>>

Samples == [buttons : SUBSET Buttons, x : Deflections]

LoopStates == {"loop", "select", "drain", "check"}

PCStates == {"open", "uinput", "start", "close", "done"} \cup LoopStates

AtRest == [buttons |-> {}, x |-> 0]

Init ==
  /\ node \in BOOLEAN /\ pad = AtRest /\ unread = <<>>
  /\ file = "none" /\ pc = "open" /\ running = FALSE /\ due = FALSE
  /\ current_sample = NULL /\ last_buttons = {} /\ residue = 0
  /\ held = {} /\ moved = 0

-------------------------------------------------------------------------------
(* The controller, the clock and the user *)

(* The mapper never reopens: only the device it has open matters to it. *)
plug ==
  /\ ~node /\ file = "none"
  /\ node' = TRUE /\ pad' = AtRest /\ unread' = <<>>
  /\ UNCHANGED <<file, pc, running, due, mapVars>>

(* The packets left in the ring of a device that goes are still read. *)
unplug ==
  /\ node
  /\ node' = FALSE /\ pad' = AtRest
  /\ file' = IF file = "live" THEN "gone" ELSE file
  /\ UNCHANGED <<unread, pc, running, due, mapVars>>

report(s) ==
  /\ node /\ pad # s
  /\ pad' = s
  /\ unread' = PutDroppingOldest(unread, s, MaxUnread)
  /\ UNCHANGED <<node, file, pc, running, due, mapVars>>

(* time.monotonic() reaches next_tick. *)
next_tick ==
  /\ ~due
  /\ due' = TRUE
  /\ UNCHANGED <<devVars, file, pc, running, mapVars>>

(* SIGINT or SIGTERM, between any two steps of the program. *)
handle_sigint ==
  /\ pc # "done"
  /\ running' = FALSE
  /\ UNCHANGED <<devVars, file, pc, due, mapVars>>

-------------------------------------------------------------------------------
(* Start-up *)

open_device ==
  /\ pc = "open"
  /\ node
  /\ file' = "live"
  /\ pc' = "uinput"
  /\ UNCHANGED <<devVars, running, due, mapVars>>

open_device_fails ==
  /\ pc = "open"
  /\ ~node
  /\ pc' = "close"
  /\ UNCHANGED <<devVars, file, running, due, mapVars>>

(* uinput.Device is created, or the program exits. *)
init_uinput ==
  /\ pc = "uinput"
  /\ pc' \in {"start", "close"}
  /\ UNCHANGED <<devVars, file, running, due, mapVars>>

(* self.running = True, whatever a signal has set before. *)
start ==
  /\ pc = "start"
  /\ running' = TRUE
  /\ due' = FALSE
  /\ pc' = "loop"
  /\ UNCHANGED <<devVars, file, mapVars>>

-------------------------------------------------------------------------------
(* The loop of run *)

(* Mutation of loop_top: while True. *)
loop_top_forever ==
  /\ pc = "loop"
  /\ pc' = "select"
  /\ UNCHANGED <<devVars, file, running, due, mapVars>>

(* while self.running *)
loop_top ==
  /\ pc = "loop"
  /\ pc' = IF running THEN "select" ELSE "close"
  /\ UNCHANGED <<devVars, file, running, due, mapVars>>

(* A disconnected device is readable.  A signal does not end select: the   *)
(* interpreter calls it again.                                             *)
select_readable ==
  /\ pc = "select"
  /\ unread # <<>> \/ file = "gone"
  /\ pc' = "drain"
  /\ UNCHANGED <<devVars, file, running, due, mapVars>>

select_timeout ==
  /\ pc = "select"
  /\ unread = <<>> /\ file = "live" /\ due
  /\ pc' = "check"
  /\ UNCHANGED <<devVars, file, running, due, mapVars>>

(* Mutation of drain_read: the first packet is kept, not the newest. *)
drain_first ==
  /\ pc = "drain"
  /\ unread # <<>>
  /\ current_sample' = IF current_sample = NULL THEN Head(unread) ELSE current_sample
  /\ unread' = Tail(unread)
  /\ UNCHANGED <<node, pad, file, pc, running, due, last_buttons, residue, held, moved>>

drain_read ==
  /\ pc = "drain"
  /\ unread # <<>>
  /\ current_sample' = Head(unread)
  /\ unread' = Tail(unread)
  /\ UNCHANGED <<node, pad, file, pc, running, due, last_buttons, residue, held, moved>>

(* BlockingIOError *)
drain_empty ==
  /\ pc = "drain"
  /\ unread = <<>> /\ file = "live"
  /\ pc' = "check"
  /\ UNCHANGED <<devVars, file, running, due, mapVars>>

(* Mutation of drain_error: the disconnect only ends the inner loop. *)
drain_error_ignored ==
  /\ pc = "drain"
  /\ unread = <<>> /\ file = "gone"
  /\ pc' = "check"
  /\ UNCHANGED <<devVars, file, running, due, mapVars>>

(* OSError: ENODEV *)
drain_error ==
  /\ pc = "drain"
  /\ unread = <<>> /\ file = "gone"
  /\ running' = FALSE
  /\ pc' = "check"
  /\ UNCHANGED <<devVars, file, due, mapVars>>

(* int(): truncation towards zero, to whole pixels. *)
WholePixels(n) == IF n >= 0 THEN n \div Pixel ELSE -((-n) \div Pixel)

(* Mutation of tick: the movement stays in the residue.                    *)
tick_keeps_residue(s) ==
  LET d == s.x + residue IN
    /\ moved' = WholePixels(d)
    /\ residue' = d
    /\ held' = (held \ (last_buttons \ s.buttons)) \cup (s.buttons \ last_buttons)
    /\ last_buttons' = s.buttons

(* Move by whole pixels and keep the rest; press what is newly pressed and *)
(* release what is newly released.                                         *)
tick(s) ==
  LET d == s.x + residue IN
    /\ moved' = WholePixels(d)
    /\ residue' = d - WholePixels(d) * Pixel
    /\ held' = (held \ (last_buttons \ s.buttons)) \cup (s.buttons \ last_buttons)
    /\ last_buttons' = s.buttons

(* A tick is due.  The next one may be due at once, if this one is late. *)
check_tick ==
  /\ pc = "check"
  /\ due
  /\ IF current_sample # NULL /\ running
       THEN tick(current_sample)
       ELSE UNCHANGED <<last_buttons, residue, held, moved>>
  /\ due' = FALSE
  /\ pc' = "loop"
  /\ UNCHANGED <<devVars, file, running, current_sample>>

check_early ==
  /\ pc = "check"
  /\ ~due
  /\ pc' = "loop"
  /\ UNCHANGED <<devVars, file, running, due, mapVars>>

-------------------------------------------------------------------------------
(* Mutation of close: the virtual mouse is destroyed as it is. *)
close_keeps_buttons ==
  /\ pc = "close"
  /\ file' = "none"
  /\ pc' = "done"
  /\ UNCHANGED <<devVars, running, due, mapVars>>

(* In the finally clause of main: held buttons are released. *)
close ==
  /\ pc = "close"
  /\ file' = "none"
  /\ held' = held \ last_buttons
  /\ pc' = "done"
  /\ UNCHANGED <<devVars, running, due, current_sample, last_buttons, residue,
                 moved>>

MapperStep ==
  \/ open_device \/ open_device_fails \/ init_uinput \/ start
  \/ loop_top \/ select_readable \/ select_timeout
  \/ drain_read \/ drain_empty \/ drain_error
  \/ check_tick \/ check_early \/ close

UserStep == plug \/ unplug \/ handle_sigint \/ \E s \in Samples : report(s)

Next == MapperStep \/ next_tick \/ UserStep

Spec == Init /\ [][Next]_vars

(* The program runs and time passes; the user need not do anything.  The   *)
(* inner loop has no limit of its own: it ends because the controller      *)
(* sends a few hundred packets a second and a read takes microseconds.     *)
Fairness ==
  /\ WF_vars(MapperStep) /\ WF_vars(next_tick)
  /\ []<>(pc # "drain")

FairSpec == Spec /\ Fairness

-------------------------------------------------------------------------------
(* Properties *)

MouseTypeOK ==
  /\ node \in BOOLEAN /\ pad \in Samples
  /\ unread \in Seq(Samples) /\ Len(unread) <= MaxUnread
  /\ file \in {"none", "live", "gone"} /\ pc \in PCStates
  /\ running \in BOOLEAN /\ due \in BOOLEAN
  /\ current_sample \in Samples \cup {NULL}
  /\ last_buttons \subseteq Buttons /\ held \subseteq Buttons
  /\ residue \in (1 - Pixel) .. (Pixel - 1)
  /\ moved \in Int

(* The pointer never moves against the stick, nor with the stick at rest,  *)
(* whatever earlier movements have left in the residue (rumble_mouse.py:   *)
(* 128-134).                                                               *)
MovesWithStick ==
  [][moved' # moved /\ moved' # 0 =>
       /\ current_sample.x > 0 => moved' > 0
       /\ current_sample.x < 0 => moved' < 0
       /\ current_sample.x # 0]_vars

(* Every press the desktop has seen is released before the virtual mouse   *)
(* goes, by a signal, a disconnect or a failing start (rumble_mouse.py:    *)
(* 102-118, 161-175).                                                      *)
NothingHeldAtExit == pc = "done" => held = {}

(* Buttons that are released for good are released on the desktop for good *)
(* (rumble_mouse.py:200-220).                                              *)
ButtonsReleased == <>[](pad.buttons = {}) => <>[](held = {})

(* "If it disconnects, the mapper exits cleanly." (mouse/README.md, Known  *)
(* Limitations); and a signal during the loop ends it (rumble_mouse.py:    *)
(* 189-191, 229-233).                                                      *)
MapperEnds ==
  ((file = "gone") \/ (pc \in LoopStates /\ ~running)) ~> (pc = "done")
===============================================================================
