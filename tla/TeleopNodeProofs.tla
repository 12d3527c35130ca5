--------------------------- MODULE TeleopNodeProofs ---------------------------
(***************************************************************************)
(* Proofs about the teleoperation node, for any number of haptic threads,  *)
(* any capacity of the driver's ring, and with or without a second reader  *)
(* of the controller.                                                      *)
(***************************************************************************)
EXTENDS TeleopNode, BoundedQueueProofs

(* The two stable states of _fd, _connected and the open file: between     *)
(* them lie the three steps of _close_device.                              *)
Held == connected /\ fd /\ file # "none"

Released == ~connected /\ ~fd /\ file = "none"

(* From the end of the join on, the reader does not touch the file: it has *)
(* ended, or is still in the sleep after which it will see the stop event. *)
ReaderIsOut ==
  pc.main \notin {"spin", "join"} => pc.reader \in {"done", "sleep", "top"}

StopSeen == stop <=> pc.main # "spin"

(* What each thread knows of the file in each of its states. *)
ReaderKnows ==
  /\ pc.reader \in {"select", "read", "twist"} => Held
  /\ pc.reader = "close" => Held /\ file = "gone"
  /\ pc.reader = "forget" => connected /\ fd /\ file = "none"
  /\ pc.reader = "halt" => ~fd /\ file = "none"
  /\ pc.reader \in {"open", "sleep"} => Released
  /\ pc.reader = "open" => pc.main \in {"spin", "join"}

MainKnows ==
  /\ pc.main \in {"spin", "join", "close"}
       => (pc.reader \in {"top", "done"} => Held \/ Released)
  /\ pc.main = "forget" => connected /\ fd /\ file = "none"
  /\ pc.main = "halt" => ~fd /\ file = "none"
  /\ pc.main \in {"zero", "shutdown", "exit"} => Released

(* An open file is at the number _fd holds. *)
NumberKnown == file # "none" => fd

Knowledge ==
  ReaderIsOut /\ StopSeen /\ ReaderKnows /\ MainKnows /\ NumberKnown

(* Motors that run before the shutdown are those of the controller the     *)
(* file refers to.                                                         *)
MotorsReachable == motors => stop \/ file = "live"

TeleopInv ==
  /\ TeleopTypeOK /\ Knowledge
  /\ DisconnectedRobotStands /\ ShutdownStopsRobot
  /\ MotorsReachable /\ MotorsHaveOwner
-------------------------------------------------------------------------------
LEMMA TeleopInit == Init => TeleopInv
<1> SUFFICES ASSUME Init PROVE TeleopInv
  OBVIOUS
<1>1. TeleopTypeOK
  <2>1. <<>> \in Seq(Positions) /\ Len(<<>>) <= MaxUnread
    BY TeleopAssumption
  <2> QED
    BY <2>1 DEF Init, TeleopTypeOK, Positions, PCStates, CloseStates,
               HapticStates, Twist
<1> QED
  BY <1>1 DEF Init, TeleopInv, Knowledge, ReaderIsOut, StopSeen, ReaderKnows,
              MainKnows, NumberKnown, Held, Released, MotorsReachable, ShutdownStopsRobot,
              DisconnectedRobotStands, MotorsHaveOwner, Twist

(* The positions that are reported and read stay few, in the ring and in   *)
(* the file of a device that is gone.                                      *)
UnreadOK ==
  /\ unread \in Seq(Positions) /\ Len(unread) <= MaxUnread
  /\ left \in Seq(Positions) /\ Len(left) <= MaxUnread

LEMMA UnreadStep ==
  ASSUME TeleopTypeOK, [Next]_vars
  PROVE  UnreadOK' /\ position' \in Positions
<1> USE DEF TeleopTypeOK, UnreadOK
<1>1. <<>> \in Seq(Positions) /\ Len(<<>>) <= MaxUnread
  BY TeleopAssumption
<1>2. ASSUME NEW q \in Seq(Positions), q # <<>>, Len(q) <= MaxUnread
      PROVE  /\ Head(q) \in Positions
             /\ Tail(q) \in Seq(Positions) /\ Len(Tail(q)) <= MaxUnread
  <2>1. /\ Head(q) \in Positions /\ Tail(q) \in Seq(Positions)
        /\ Len(q) \in Nat /\ Len(Tail(q)) = Len(q) - 1
    BY <1>2, TailProperties
  <2>2. Len(q) - 1 <= MaxUnread
    BY <1>2, <2>1, TeleopAssumption
  <2> QED
    BY <2>1, <2>2
<1>3. ASSUME NEW q \in Seq(Positions), NEW p \in Positions, Len(q) <= MaxUnread
      PROVE  /\ PutDroppingOldest(q, p, MaxUnread) \in Seq(Positions)
             /\ Len(PutDroppingOldest(q, p, MaxUnread)) <= MaxUnread
  <2>1. MaxUnread \in Nat \ {0}
    BY TeleopAssumption
  <2>2. PutDroppingOldest(q, p, MaxUnread) \in Seq(Positions)
    BY <2>1, PutProperties
  <2> QED
    BY <1>3, <2>1, <2>2, PutBounded
<1>4. "rest" \in Positions
  BY DEF Positions
<1>5. CASE UNCHANGED vars
  BY <1>5 DEF vars, devVars, motorVars, fileVars
<1>6. CASE ReaderStep \/ interval_over
  <2>1. CASE reader_read
    BY <2>1, <1>2 DEF reader_read
  <2>2. CASE reader_publish
    BY <2>2, <1>4 DEF reader_publish, devVars, motorVars, fileVars
  <2>3. CASE reader_open
    BY <2>3, <1>1 DEF reader_open, devVars, motorVars
  <2>4. CASE CloseStep("reader")
    BY <2>4, <1>1 DEF CloseStep, close_fd, close_nothing, close_forget,
                      close_halt, closeRest, devVars, motorVars, fileVars
  <2>5. CASE \/ reader_exit \/ reader_top \/ reader_open_fails \/ reader_slept
             \/ select_timeout \/ select_readable
             \/ reader_read_eagain \/ reader_read_error \/ interval_over
    BY <2>5 DEF reader_exit, reader_top, reader_open_fails, reader_slept,
                select_timeout, select_readable, reader_read_eagain,
                reader_read_error, interval_over, devVars, motorVars, fileVars
  <2> QED
    BY <1>6, <2>1, <2>2, <2>3, <2>4, <2>5 DEF ReaderStep
<1>7. CASE main_interrupt \/ ShutdownStep
  BY <1>7, <1>1 DEF main_interrupt, ShutdownStep, main_join, main_zero,
       main_exit, mainRest, CloseStep, close_fd, close_nothing, close_forget,
       close_halt, closeRest, devVars, motorVars, fileVars
<1>8. CASE \E h \in Haptics : odom_cb(h) \/ HapticStep(h)
  BY <1>8 DEF odom_cb, HapticStep, haptic_check, haptic_ioctl, haptic_ioctl_fails, haptic_slept,
              mainRest, hapticRest, devVars, motorVars, fileVars
<1>9. CASE ControllerStep
  <2>1. CASE plug
    BY <2>1, <1>1 DEF plug, fileVars, appVars
  <2>2. CASE unplug
    BY <2>2 DEF unplug, appVars
  <2>3. CASE packet_taken
    BY <2>3, <1>2 DEF packet_taken, fileVars, appVars
  <2>4. ASSUME NEW p \in Positions, move(p)
        PROVE  UnreadOK' /\ position' \in Positions
    BY <2>4, <1>3 DEF move, fileVars, appVars
  <2> QED
    BY <1>9, <2>1, <2>2, <2>3, <2>4 DEF ControllerStep
<1> QED
  BY <1>5, <1>6, <1>7, <1>8, <1>9 DEF Next

(* A jump of one of the two threads leaves the other where it is. *)
LEMMA GotoProperties ==
  ASSUME TeleopTypeOK
  PROVE  /\ \A s : goto("reader", s) => pc'.reader = s /\ pc'.main = pc.main
         /\ \A s : goto("main", s) => pc'.main = s /\ pc'.reader = pc.reader
         /\ \A s \in {"top", "open", "sleep", "select", "read", "twist", "done",
                      "close", "forget", "halt"} :
               goto("reader", s) => pc' \in PCStates
         /\ \A s \in {"join", "zero", "shutdown", "exit",
                      "close", "forget", "halt"} :
               goto("main", s) => pc' \in PCStates
BY DEF TeleopTypeOK, PCStates, CloseStates, goto

LEMMA TypeStep ==
  ASSUME TeleopTypeOK, [Next]_vars
  PROVE  TeleopTypeOK'
<1> USE DEF TeleopTypeOK
<1> DEFINE SmallOK ==
      /\ node \in BOOLEAN /\ stick \in Positions
      /\ motors \in BOOLEAN /\ failed \in BOOLEAN
      /\ fd \in BOOLEAN /\ file \in {"none", "live", "gone"}
      /\ connected \in BOOLEAN
      /\ pc \in PCStates
      /\ hpc \in [Haptics -> HapticStates]
      /\ recent \in BOOLEAN /\ stop \in BOOLEAN /\ cmd \in Positions
<1>1. UnreadOK' /\ position' \in Positions
  BY UnreadStep
<1>2. Twist \in Positions /\ "rest" \in Positions
  BY DEF Twist, Positions
<1>3. SmallOK'
  <2>1. CASE UNCHANGED vars
    BY <2>1 DEF vars, devVars, motorVars, fileVars, pubVars
  <2>2. CASE ReaderStep \/ interval_over
    <3>1. CASE CloseStep("reader")
      BY <3>1, <1>2, GotoProperties, ZenonT(30) DEF CloseStep, close_fd, close_nothing,
           close_forget, close_halt, closeRest, devVars, motorVars, fileVars
    <3>2. CASE \/ reader_exit \/ reader_open_fails \/ reader_slept \/ reader_top
               \/ select_timeout \/ select_readable
               \/ reader_read_eagain \/ reader_read_error
      BY <3>2, GotoProperties DEF reader_exit, reader_open_fails, reader_slept,
           reader_top, select_timeout, select_readable, reader_read_eagain,
           reader_read_error, readerRest, devVars, motorVars, fileVars, pubVars
    <3>3. CASE reader_open \/ reader_read \/ reader_publish \/ interval_over
      BY <3>3, GotoProperties, ZenonT(30) DEF reader_open, reader_read, reader_publish,
           interval_over, readerRest, devVars, motorVars, fileVars, pubVars
    <3> QED
      BY <2>2, <3>1, <3>2, <3>3 DEF ReaderStep
  <2>3. CASE main_interrupt \/ ShutdownStep
    BY <2>3, <1>2, GotoProperties, ZenonT(60) DEF main_interrupt, ShutdownStep, main_join, main_zero,
         main_exit, mainRest, CloseStep, close_fd, close_nothing, close_forget,
         close_halt, closeRest, devVars, motorVars, fileVars
  <2>4. CASE \E h \in Haptics : odom_cb(h) \/ HapticStep(h)
    BY <2>4, ZenonT(60) DEF odom_cb, HapticStep, haptic_check, haptic_ioctl,
         haptic_ioctl_fails, haptic_slept, mainRest, hapticRest, devVars,
         motorVars, fileVars, pubVars, HapticStates
  <2>5. CASE ControllerStep
    BY <2>5, ZenonT(60) DEF ControllerStep, plug, unplug, packet_taken, move, motorVars, fileVars,
         appVars, pubVars, Positions
  <2> QED
    BY <2>1, <2>2, <2>3, <2>4, <2>5 DEF Next
<1> QED
  BY <1>1, <1>3 DEF UnreadOK

-------------------------------------------------------------------------------
LEMMA ReaderKeepsKnowledge ==
  ASSUME TeleopTypeOK, Knowledge, ReaderStep
  PROVE  Knowledge'
<1> USE DEF TeleopTypeOK, Knowledge, ReaderIsOut, StopSeen, ReaderKnows,
            MainKnows, NumberKnown, Held, Released
<1>1. CASE CloseStep("reader")
  BY <1>1, GotoProperties DEF CloseStep, close_fd, close_nothing, close_forget,
       close_halt, closeRest, devVars, motorVars, fileVars
<1>2. CASE reader_exit \/ reader_top
  BY <1>2, GotoProperties DEF reader_exit, reader_top, readerRest, devVars, motorVars,
       fileVars
<1>3. CASE reader_open \/ reader_open_fails \/ reader_slept
  BY <1>3, GotoProperties DEF reader_open, reader_open_fails, reader_slept,
       readerRest, devVars, motorVars, fileVars
<1>4. CASE select_timeout \/ select_readable
  BY <1>4, GotoProperties DEF select_timeout, select_readable, readerRest,
       devVars, motorVars, fileVars
<1>5. CASE reader_read \/ reader_read_eagain \/ reader_read_error
  BY <1>5, GotoProperties DEF reader_read, reader_read_eagain,
       reader_read_error, readerRest, devVars, motorVars, fileVars
<1>6. CASE reader_publish
  BY <1>6, GotoProperties DEF reader_publish, readerRest, devVars, motorVars, fileVars
<1> QED
  BY <1>1, <1>2, <1>3, <1>4, <1>5, <1>6 DEF ReaderStep

LEMMA MainKeepsKnowledge ==
  ASSUME TeleopTypeOK, Knowledge, main_interrupt \/ ShutdownStep
  PROVE  Knowledge'
<1> USE DEF TeleopTypeOK, Knowledge, ReaderIsOut, StopSeen, ReaderKnows,
            MainKnows, NumberKnown, Held, Released
<1>1. CASE CloseStep("main")
  BY <1>1, GotoProperties DEF CloseStep, close_fd, close_nothing, close_forget,
       close_halt, closeRest, devVars, motorVars, fileVars
<1>2. CASE main_interrupt
  BY <1>2, GotoProperties DEF main_interrupt, mainRest, devVars, motorVars, fileVars
<1>3. CASE main_join
  BY <1>3, GotoProperties DEF main_join, mainRest, devVars, motorVars, fileVars
<1>4. CASE main_zero \/ main_exit
  BY <1>4, GotoProperties DEF main_zero, main_exit, mainRest, devVars, motorVars, fileVars
<1> QED
  BY <1>1, <1>2, <1>3, <1>4 DEF ShutdownStep

(* The odometry and the haptic threads leave alone what the others share.  *)
LEMMA HapticFrame ==
  ASSUME NEW h \in Haptics, odom_cb(h) \/ HapticStep(h)
  PROVE  UNCHANGED <<node, stick, unread, fileVars, pc, position, cmd, stop>>
<1>1. CASE odom_cb(h)
  BY <1>1 DEF odom_cb, mainRest, devVars
<1>2. ASSUME NEW s, NEW on, NEW next,
             haptic_ioctl(h, s, on, next) \/ haptic_ioctl_fails(h, s, on)
      PROVE  UNCHANGED <<hapticRest>>
  BY <1>2 DEF haptic_ioctl, haptic_ioctl_fails
<1>3. ASSUME NEW s, NEW yes, NEW no, haptic_check(h, s, yes, no)
      PROVE  UNCHANGED <<hapticRest>>
  BY <1>3 DEF haptic_check
<1>4. CASE haptic_slept(h)
  BY <1>4 DEF haptic_slept, hapticRest, pubVars
<1>5. CASE HapticStep(h) /\ ~haptic_slept(h)
  BY <1>2, <1>3, <1>5 DEF HapticStep, hapticRest, pubVars
<1> QED
  BY <1>1, <1>4, <1>5

LEMMA KnowledgeStep ==
  ASSUME TeleopTypeOK, Knowledge, [Next]_vars
  PROVE  Knowledge'
<1> USE DEF TeleopTypeOK, Knowledge, ReaderIsOut, StopSeen, ReaderKnows,
            MainKnows, NumberKnown, Held, Released
<1>1. CASE UNCHANGED vars
  BY <1>1 DEF vars, devVars, motorVars, fileVars
<1>2. CASE interval_over
  BY <1>2 DEF interval_over, devVars, motorVars, fileVars
<1>3. CASE \E h \in Haptics : odom_cb(h) \/ HapticStep(h)
  BY <1>3, HapticFrame DEF fileVars
<1>4. CASE unplug
  BY <1>4 DEF unplug, appVars
<1>5. CASE plug \/ packet_taken \/ \E p \in Positions : move(p)
  BY <1>5 DEF plug, packet_taken, move, fileVars, appVars
<1> QED
  BY <1>1, <1>2, <1>3, <1>4, <1>5, ReaderKeepsKnowledge, MainKeepsKnowledge
     DEF Next, ControllerStep

(* The robot: a velocity other than zero is published only by the reader,  *)
(* which holds the file then, and every way to lose the connection passes  *)
(* the halt.                                                               *)
LEMMA RobotStep ==
  ASSUME TeleopTypeOK, Knowledge, DisconnectedRobotStands, [Next]_vars
  PROVE  DisconnectedRobotStands'
<1> USE DEF DisconnectedRobotStands
<1>1. CASE ReaderStep
  <2>1. CASE reader_publish
    BY <1>1, <2>1 DEF reader_publish, fileVars, Knowledge, ReaderKnows, Held
  <2>2. CASE CloseStep("reader")
    BY <2>2 DEF CloseStep, close_fd, close_nothing, close_forget, close_halt,
         fileVars, TeleopTypeOK
  <2>3. CASE ReaderStep /\ ~reader_publish /\ ~CloseStep("reader")
    BY <2>3 DEF ReaderStep, reader_exit, reader_top, reader_open,
         reader_open_fails, reader_slept, select_timeout, select_readable,
         reader_read, reader_read_eagain, reader_read_error, fileVars, pubVars
  <2> QED
    BY <1>1, <2>1, <2>2, <2>3
<1>2. CASE main_interrupt \/ ShutdownStep
  BY <1>2 DEF main_interrupt, ShutdownStep, main_join, main_zero, main_exit,
       mainRest, CloseStep, close_fd, close_nothing, close_forget, close_halt,
       fileVars, TeleopTypeOK
<1>3. CASE \E h \in Haptics : odom_cb(h) \/ HapticStep(h)
  BY <1>3, HapticFrame DEF fileVars
<1>4. CASE ControllerStep \/ interval_over \/ UNCHANGED vars
  BY <1>4 DEF ControllerStep, plug, unplug, packet_taken, move, interval_over,
       vars, fileVars, appVars, pubVars
<1> QED
  BY <1>1, <1>2, <1>3, <1>4 DEF Next
-------------------------------------------------------------------------------
(* The threads that will still stop the motors. *)
Owner(h) == hpc[h] \in {"wait", "off_check", "off"}

(* The motors: whoever starts them waits next; the thread that gives up    *)
(* its wait finds them stopped, stops them, or finds the file closed or    *)
(* the controller gone, and then they do not run.  A command that fails    *)
(* is the last one, until another gets through.                            *)
LEMMA HapticMotors ==
  ASSUME TeleopTypeOK, Knowledge, MotorsReachable, MotorsHaveOwner,
         NEW h \in Haptics, odom_cb(h) \/ HapticStep(h)
  PROVE  MotorsReachable' /\ MotorsHaveOwner'
<1> USE DEF MotorsReachable, MotorsHaveOwner
<1>1. \A g \in Haptics \ {h} : hpc'[g] = hpc[g]
  BY DEF odom_cb, HapticStep, haptic_check, haptic_ioctl, haptic_ioctl_fails,
         haptic_slept, TeleopTypeOK
<1>2. UNCHANGED <<file, fd, stop>>
  BY HapticFrame DEF fileVars
<1>3. ASSUME NEW s, NEW on, haptic_ioctl_fails(h, s, on)
      PROVE  MotorsReachable' /\ MotorsHaveOwner'
  BY <1>2, <1>3 DEF haptic_ioctl_fails
<1>4. CASE haptic_ioctl(h, "on", TRUE, "wait")
  <2>1. CASE fd /\ file = "live"
    BY <1>2, <1>4, <2>1 DEF haptic_ioctl, TeleopTypeOK
  <2>2. CASE ~(fd /\ file = "live")
    <3>1. ~motors \/ stop
      BY <2>2 DEF Knowledge, NumberKnown
    <3> QED
      BY <1>2, <1>4, <2>2, <3>1 DEF haptic_ioctl, motorVars
  <2> QED
    BY <2>1, <2>2
<1>5. CASE haptic_ioctl(h, "off", FALSE, "idle")
  <2>1. motors' => stop
    BY <1>5 DEF haptic_ioctl, motorVars, Knowledge, NumberKnown
  <2> QED
    BY <1>2, <2>1
<1>6. CASE haptic_check(h, "off_check", "off", "idle")
  <2>1. CASE fd
    BY <1>1, <1>2, <1>6, <2>1 DEF haptic_check, motorVars, TeleopTypeOK
  <2>2. CASE ~fd
    BY <1>2, <1>6, <2>2 DEF haptic_check, motorVars, Knowledge, NumberKnown
  <2> QED
    BY <2>1, <2>2
<1>7. CASE \/ odom_cb(h) \/ haptic_slept(h)
           \/ haptic_check(h, "check", "on_check", "idle")
           \/ haptic_check(h, "on_check", "on", "wait")
  <2>1. Owner(h) => Owner(h)'
    BY <1>7 DEF odom_cb, haptic_slept, haptic_check, Owner, TeleopTypeOK
  <2>2. UNCHANGED motorVars
    BY <1>7 DEF odom_cb, haptic_slept, haptic_check, mainRest, devVars
  <2> QED
    BY <1>1, <1>2, <2>1, <2>2 DEF Owner, motorVars
<1> QED
  BY <1>3, <1>4, <1>5, <1>6, <1>7 DEF HapticStep

LEMMA MotorsStep ==
  ASSUME TeleopTypeOK, Knowledge, MotorsReachable, MotorsHaveOwner,
         [Next]_vars
  PROVE  MotorsReachable' /\ MotorsHaveOwner'
<1>1. CASE ReaderStep
  <2>1. UNCHANGED <<motors, failed, hpc, stop>>
    BY <1>1 DEF ReaderStep, reader_exit, reader_top, reader_open,
         reader_open_fails, reader_slept, select_timeout, select_readable,
         reader_read, reader_read_eagain, reader_read_error, reader_publish,
         CloseStep, close_fd, close_nothing, close_forget, close_halt,
         closeRest, readerRest, devVars, motorVars
  <2>2. file = "live" => file' = "live"
    BY <1>1 DEF ReaderStep, reader_exit, reader_top, reader_open,
         reader_open_fails, reader_slept, select_timeout, select_readable,
         reader_read, reader_read_eagain, reader_read_error, reader_publish,
         CloseStep, close_fd, close_nothing, close_forget, close_halt,
         fileVars, Knowledge, ReaderKnows
  <2> QED
    BY <2>1, <2>2 DEF MotorsReachable, MotorsHaveOwner
<1>2. CASE main_interrupt \/ ShutdownStep
  <2>1. stop' /\ UNCHANGED <<motors, hpc>>
    BY <1>2 DEF main_interrupt, ShutdownStep, main_join, main_zero, main_exit,
         mainRest, CloseStep, close_fd, close_nothing, close_forget,
         close_halt, closeRest, devVars, motorVars, Knowledge, StopSeen
  <2> QED
    BY <2>1 DEF MotorsReachable, MotorsHaveOwner
<1>3. CASE unplug
  BY <1>3 DEF unplug, MotorsReachable, MotorsHaveOwner
<1>4. CASE \/ plug \/ packet_taken \/ \E p \in Positions : move(p)
           \/ interval_over \/ UNCHANGED vars
  BY <1>4 DEF plug, packet_taken, move, interval_over, vars, devVars, motorVars, fileVars,
       appVars, MotorsReachable, MotorsHaveOwner
<1> QED
  BY <1>1, <1>2, <1>3, <1>4, HapticMotors DEF Next, ControllerStep
-------------------------------------------------------------------------------
LEMMA TeleopInvariant == Spec => []TeleopInv
<1>1. TeleopInv /\ [Next]_vars => TeleopInv'
  <2> SUFFICES ASSUME TeleopInv, [Next]_vars PROVE TeleopInv'
    OBVIOUS
  <2>1. TeleopTypeOK' /\ Knowledge' /\ DisconnectedRobotStands'
    BY TypeStep, KnowledgeStep, RobotStep DEF TeleopInv
  <2>2. ShutdownStopsRobot'
    BY <2>1 DEF Knowledge, MainKnows, Released, DisconnectedRobotStands,
                ShutdownStopsRobot
  <2>3. MotorsReachable' /\ MotorsHaveOwner'
    BY MotorsStep DEF TeleopInv
  <2> QED
    BY <2>1, <2>2, <2>3 DEF TeleopInv
<1> QED
  BY <1>1, TeleopInit, PTL DEF Spec

(* Type correctness; the bounds of the two buffers are the part of it that *)
(* the code has to earn (ring_put, src/driver/rumble.c:170-185).           *)
THEOREM TeleopTypeCorrect == Spec => []TeleopTypeOK
BY TeleopInvariant, PTL DEF TeleopInv

(* Once shutdown is through with its zero velocity, no later command sets  *)
(* the robot going again, however the reader was caught by the stop event  *)
(* (rumble_teleop_node.py:301-305).                                        *)
THEOREM ShutdownCorrect == Spec => []ShutdownStopsRobot
BY TeleopInvariant, PTL DEF TeleopInv

(* Without a connection the robot stands still (rumble_teleop_node.py:     *)
(* 177-188).                                                               *)
THEOREM DisconnectCorrect == Spec => []DisconnectedRobotStands
BY TeleopInvariant, PTL DEF TeleopInv

(* The motors run only on behalf of a haptic thread that will stop them,   *)
(* however many threads overlap, until the shutdown, or because the last   *)
(* command failed (rumble_teleop_node.py:274-290).                         *)
THEOREM MotorsCorrect == Spec => []MotorsHaveOwner
BY TeleopInvariant, PTL DEF TeleopInv
===============================================================================
