--------------------------- MODULE RumbleMouseProofs ---------------------------
(***************************************************************************)
(* Proofs about the mouse emulation, for any buttons, any size of a pixel, *)
(* any deflections of the stick and any capacity of the driver's ring.     *)
(***************************************************************************)
EXTENDS RumbleMouse, BoundedQueueProofs

(* int() loses less than a pixel, and never changes a sign. *)
LEMMA WholePixelsOf ==
  ASSUME NEW d \in Int
  PROVE  /\ WholePixels(d) \in Int
         /\ d - WholePixels(d) * Pixel \in (1 - Pixel) .. (Pixel - 1)
         /\ d > -Pixel => WholePixels(d) >= 0
         /\ d < Pixel => WholePixels(d) <= 0
<1>1. PICK p \in Nat \ {0} : p = Pixel
  BY MouseAssumption
<1>2. ASSUME NEW n \in Nat
      PROVE  /\ n \div p \in Nat
             /\ n - (n \div p) * p \in 0 .. p - 1
             /\ n < p => n \div p = 0
  <2>1. PICK q \in Int, r \in 0 .. p - 1 : q = n \div p /\ n = p * q + r
    BY DivisionLemma
  <2>2. q >= 0
    <3>1. CASE q <= -1
      <4>1. p * q <= -p
        BY <3>1
      <4> QED
        BY <2>1, <4>1
    <3> QED
      BY <3>1
  <2>3. p * q = q * p
    OBVIOUS
  <2>4. n < p => q = 0
    <3>1. p * q \in Nat
      BY <2>2
    <3>2. n < p => p * q \in 0 .. p - 1
      BY <2>1, <3>1
    <3> QED
      BY <3>2, MultipleBelow
  <2>5. PICK x \in Int : x = p * q
    OBVIOUS
  <2>6. n - x \in 0 .. p - 1
    BY <2>1, <2>5
  <2> QED
    BY <2>1, <2>2, <2>3, <2>4, <2>5, <2>6
<1>3. CASE d >= 0
  <2>1. WholePixels(d) = d \div p
    BY <1>1, <1>3 DEF WholePixels
  <2>2. PICK w \in Nat : w = d \div p
    BY <1>2, <1>3
  <2>3. /\ d - w * p \in 0 .. p - 1
        /\ d < p => w = 0
    BY <1>2, <1>3, <2>2
  <2> QED
    BY <1>1, <2>1, <2>2, <2>3
<1>4. CASE d < 0
  <2>1. PICK n \in Nat : n = -d
    BY <1>4
  <2>2. WholePixels(d) = -(n \div p)
    BY <1>1, <1>4, <2>1 DEF WholePixels
  <2>3. PICK w \in Nat : w = n \div p
    BY <1>2
  <2>4. /\ n - w * p \in 0 .. p - 1
        /\ n < p => w = 0
    BY <1>2, <2>3
  <2>5. PICK x \in Int : x = w * p /\ -x = (-w) * p
    OBVIOUS
  <2>6. d - (-w) * p \in (1 - p) .. (p - 1)
    BY <2>1, <2>4, <2>5
  <2>7. d > -p => w = 0
    BY <2>1, <2>4
  <2> QED
    BY <1>1, <1>4, <2>2, <2>3, <2>6, <2>7
<1> QED
  BY <1>3, <1>4
-------------------------------------------------------------------------------
(* Until close, the buttons held on the desktop are those of the last tick. *)
HeldAsTicked ==
  IF pc = "done" THEN held = {} ELSE held = last_buttons

MouseInv == MouseTypeOK /\ HeldAsTicked

LEMMA MouseInit == Init => MouseInv
<1> SUFFICES ASSUME Init PROVE MouseInv
  OBVIOUS
<1>1. AtRest \in Samples
  BY MouseAssumption DEF AtRest, Samples
<1>2. <<>> \in Seq(Samples) /\ Len(<<>>) <= MaxUnread
  BY MouseAssumption
<1>3. 0 \in (1 - Pixel) .. (Pixel - 1)
  BY MouseAssumption
<1>4. /\ unread \in Seq(Samples) /\ Len(unread) <= MaxUnread
      /\ pad \in Samples /\ residue \in (1 - Pixel) .. (Pixel - 1)
  BY <1>1, <1>2, <1>3 DEF Init
<1>5. node \in BOOLEAN /\ running \in BOOLEAN /\ due \in BOOLEAN
  BY DEF Init
<1>6. /\ file \in {"none", "live", "gone"} /\ pc \in PCStates
      /\ current_sample \in Samples \cup {NULL} /\ moved \in Int
  BY DEF Init, PCStates
<1>7. last_buttons \subseteq Buttons /\ held \subseteq Buttons /\ HeldAsTicked
  BY DEF Init, HeldAsTicked
<1> QED
  BY <1>4, <1>5, <1>6, <1>7 DEF MouseInv, MouseTypeOK

(* What a tick does with a sample, in terms of the lemma above. *)
LEMMA TickStep ==
  ASSUME MouseTypeOK, NEW s \in Samples, tick(s)
  PROVE  /\ moved' \in Int
         /\ residue' \in (1 - Pixel) .. (Pixel - 1)
         /\ s.x >= 0 => moved' >= 0
         /\ s.x <= 0 => moved' <= 0
         /\ last_buttons' \subseteq Buttons /\ held' \subseteq Buttons
         /\ held = last_buttons => held' = last_buttons'
<1>1. s.x \in Int /\ s.buttons \subseteq Buttons
  BY MouseAssumption DEF Samples
<1>2. PICK p \in Nat \ {0} : p = Pixel
  BY MouseAssumption
<1>3. PICK x \in Int : x = s.x
  BY <1>1
<1>4. PICK r \in (1 - p) .. (p - 1) : r = residue
  BY <1>2 DEF MouseTypeOK
<1>5. PICK d \in Int : d = x + r
  BY <1>3, <1>4
<1>6. moved' = WholePixels(d) /\ residue' = d - WholePixels(d) * Pixel
  BY <1>3, <1>4, <1>5 DEF tick
<1>7. /\ moved' \in Int
      /\ residue' \in (1 - Pixel) .. (Pixel - 1)
      /\ d > -Pixel => moved' >= 0
      /\ d < Pixel => moved' <= 0
  BY <1>6, WholePixelsOf
<1>8. (x >= 0 => d > -p) /\ (x <= 0 => d < p)
  BY <1>4, <1>5
<1>9. /\ last_buttons' = s.buttons
      /\ held' = (held \ (last_buttons \ s.buttons)) \cup (s.buttons \ last_buttons)
  BY DEF tick
<1>10. held = last_buttons => held' = last_buttons'
  BY <1>9
<1>11. last_buttons' \subseteq Buttons /\ held' \subseteq Buttons
  BY <1>1, <1>9 DEF MouseTypeOK
<1> QED
  BY <1>2, <1>3, <1>7, <1>8, <1>10, <1>11

(* The packets of the controller, and the one the mapper keeps. *)
PacketsOK ==
  /\ unread \in Seq(Samples) /\ Len(unread) <= MaxUnread
  /\ pad \in Samples
  /\ current_sample \in Samples \cup {NULL}

LEMMA PacketStep ==
  ASSUME MouseTypeOK, [Next]_vars
  PROVE  PacketsOK'
<1> USE DEF MouseTypeOK, PacketsOK
<1>1. AtRest \in Samples
  BY MouseAssumption DEF AtRest, Samples
<1>2. CASE plug
  <2>1. <<>> \in Seq(Samples) /\ Len(<<>>) <= MaxUnread
    BY MouseAssumption
  <2> QED
    BY <1>1, <1>2, <2>1 DEF plug, mapVars
<1>3. CASE unplug
  BY <1>1, <1>3 DEF unplug, mapVars
<1>4. ASSUME NEW s \in Samples, report(s) PROVE PacketsOK'
  <2>1. MaxUnread \in Nat \ {0}
    BY MouseAssumption
  <2>2. PutDroppingOldest(unread, s, MaxUnread) \in Seq(Samples)
    BY <2>1, PutProperties
  <2>3. Len(PutDroppingOldest(unread, s, MaxUnread)) <= MaxUnread
    BY <2>1, PutBounded
  <2> QED
    BY <1>4, <2>2, <2>3 DEF report, mapVars
<1>5. CASE drain_read
  <2>1. /\ Head(unread) \in Samples /\ Tail(unread) \in Seq(Samples)
        /\ Len(unread) \in Nat /\ Len(Tail(unread)) = Len(unread) - 1
    BY <1>5, TailProperties DEF drain_read
  <2>2. Len(Tail(unread)) <= MaxUnread
    BY <2>1, MouseAssumption
  <2> QED
    BY <1>5, <2>1, <2>2 DEF drain_read
<1>6. CASE \/ next_tick \/ handle_sigint \/ open_device \/ open_device_fails
           \/ init_uinput \/ start \/ loop_top \/ select_readable
           \/ select_timeout \/ drain_empty \/ drain_error \/ check_tick
           \/ check_early \/ close
  BY <1>6 DEF next_tick, handle_sigint, open_device, open_device_fails,
       init_uinput, start, loop_top, select_readable, select_timeout,
       drain_empty, drain_error, check_tick, check_early, close, devVars, mapVars
<1>7. CASE UNCHANGED vars
  BY <1>7 DEF vars, devVars, mapVars
<1> QED
  BY <1>2, <1>3, <1>4, <1>5, <1>6, <1>7 DEF Next, MapperStep, UserStep

(* Every step keeps the invariant, and no step moves the pointer against   *)
(* the stick.                                                              *)
Moves ==
  moved' # moved /\ moved' # 0 =>
    /\ current_sample.x > 0 => moved' > 0
    /\ current_sample.x < 0 => moved' < 0
    /\ current_sample.x # 0

LEMMA MouseStep ==
  ASSUME MouseInv, [Next]_vars
  PROVE  MouseInv' /\ Moves
<1> USE DEF MouseInv, MouseTypeOK, HeldAsTicked, Moves
<1>1. PacketsOK'
  BY PacketStep
<1> USE <1>1 DEF PacketsOK, PCStates, LoopStates
<1>2. CASE check_tick
  <2>1. CASE current_sample # NULL /\ running
    <3>1. PICK s \in Samples : s = current_sample
      BY <2>1
    <3>2. tick(s)
      BY <1>2, <2>1, <3>1 DEF check_tick
    <3>3. s.x \in Int
      BY MouseAssumption DEF Samples
    <3>4. /\ moved' \in Int
          /\ residue' \in (1 - Pixel) .. (Pixel - 1)
          /\ s.x >= 0 => moved' >= 0
          /\ s.x <= 0 => moved' <= 0
          /\ last_buttons' \subseteq Buttons /\ held' \subseteq Buttons
          /\ held = last_buttons => held' = last_buttons'
      BY <3>2, TickStep
    <3>5. Moves
      BY <3>1, <3>3, <3>4
    <3>6. MouseInv'
      BY <1>2, <3>4 DEF check_tick, devVars
    <3> QED
      BY <3>5, <3>6
  <2>2. CASE ~(current_sample # NULL /\ running)
    BY <1>2, <2>2 DEF check_tick, devVars
  <2> QED
    BY <2>1, <2>2
<1>3. CASE close
  BY <1>3 DEF close, devVars
<1>4. CASE \/ open_device \/ open_device_fails \/ init_uinput \/ start
           \/ loop_top \/ select_readable \/ select_timeout
           \/ drain_empty \/ drain_error \/ check_early
  BY <1>4, ZenonT(30) DEF open_device, open_device_fails, init_uinput, start, loop_top,
       select_readable, select_timeout, drain_empty, drain_error, check_early,
       devVars, mapVars
<1>5. CASE drain_read
  BY <1>5 DEF drain_read
<1>6. CASE next_tick \/ plug \/ unplug \/ handle_sigint
  BY <1>6, ZenonT(30) DEF next_tick, plug, unplug, handle_sigint, devVars, mapVars
<1>7. CASE \E s \in Samples : report(s)
  BY <1>7 DEF report, mapVars
<1>8. CASE UNCHANGED vars
  BY <1>8 DEF vars, devVars, mapVars
<1> QED
  BY <1>2, <1>3, <1>4, <1>5, <1>6, <1>7, <1>8 DEF Next, MapperStep, UserStep
-------------------------------------------------------------------------------
THEOREM MouseInvariant == Spec => []MouseInv
<1>1. MouseInv /\ [Next]_vars => MouseInv'
  BY MouseStep
<1> QED
  BY <1>1, MouseInit, PTL DEF Spec

(* The residue of a movement is less than a pixel of either sign, the ring *)
(* keeps its bound, and every variable of the mapper has its type.         *)
THEOREM MouseTypeCorrect == Spec => []MouseTypeOK
<1>1. MouseInv => MouseTypeOK
  BY DEF MouseInv
<1> QED
  BY <1>1, MouseInvariant, PTL

(* However the mapper ends, the desktop sees every button released. *)
THEOREM ExitCorrect == Spec => []NothingHeldAtExit
<1>1. MouseInv => NothingHeldAtExit
  BY DEF MouseInv, HeldAsTicked, NothingHeldAtExit
<1> QED
  BY <1>1, MouseInvariant, PTL

(* No step moves the pointer against the stick or with the stick at rest. *)
THEOREM MovementCorrect == Spec => MovesWithStick
<1>1. MouseInv /\ [Next]_vars => [Moves]_vars
  BY MouseStep
<1> QED
  BY <1>1, MouseInvariant, PTL DEF Spec, MovesWithStick, Moves
===============================================================================
