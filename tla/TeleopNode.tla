------------------------------ MODULE TeleopNode ------------------------------
(***************************************************************************)
(* The ROS 2 node rumble_teleop: the reader thread that turns packets of   *)
(* /dev/rumble0 into velocity commands, the haptic threads the odometry    *)
(* callback starts, and the main thread, which runs the callbacks until    *)
(* the node is shut down.  They share _fd and _connected without a lock.   *)
(*                                                                         *)
(* Assumed of time: an action of the reader other than its sleep of two    *)
(* seconds takes less than the two seconds for which shutdown joins it.    *)
(***************************************************************************)
EXTENDS Naturals, Sequences, BoundedQueue

CONSTANTS
  Haptics,     \* haptic threads alive at a time
  Shared,      \* does another program read the controller, too?
  MaxUnread    \* bound: packets the driver's ring keeps

ASSUME TeleopAssumption ==
  /\ Shared \in BOOLEAN
  /\ MaxUnread \in Nat /\ MaxUnread > 0

VARIABLES
  \* the controller and its driver
  node,        \* does open find a device?
  stick,       \* the position of the left stick
  unread,      \* positions reported and not read, oldest first
  motors,      \* do its motors run?
  failed,      \* history: they run, and the last command failed
  \* the node's file
  fd,          \* _fd >= 0
  file,        \* what it refers to: "none" (closed), "live", or "gone"
  left,        \* unread positions of a device that is gone
  connected,   \* _connected
  \* the threads
  pc,          \* of the reader and of the main thread
  hpc,         \* of the haptic threads
  position,    \* the position in the packet just read
  recent,      \* time.monotonic() - _last_pub_time < _pub_interval
  stop,        \* _stop_event
  cmd          \* the velocity last published on /cmd_vel

motorVars == <<motors, failed>>
devVars  == <<node, stick, unread, motorVars>>
fileVars == <<fd, file, left, connected>>
pubVars  == <<recent, cmd>>

vars == <<devVars, fileVars, pc, hpc, position, pubVars, stop>>

Positions == {"rest", "pushed"}

(* Twist() is the velocity of a stick at rest. *)
Twist == "rest"

CloseStates == {"close", "forget", "halt"}

PCStates ==
  [reader : {"top", "open", "sleep", "select", "read", "twist", "done"}
              \cup CloseStates,
   main : {"spin", "join", "zero", "shutdown", "exit"} \cup CloseStates]

HapticStates ==
  {"idle", "check", "on_check", "on", "wait", "off_check", "off"}

Init ==
  /\ node \in BOOLEAN /\ stick = "rest" /\ unread = <<>>
  /\ motors = FALSE /\ failed = FALSE
  /\ fd = FALSE /\ file = "none" /\ left = <<>> /\ connected = FALSE
  /\ pc = [reader |-> "top", main |-> "spin"]
  /\ hpc = [h \in Haptics |-> "idle"]
  /\ position = "rest"
  /\ recent = FALSE /\ cmd = Twist
  /\ stop = FALSE

(* No thread of the process runs after it has exited. *)
Running == pc.main # "exit"

-------------------------------------------------------------------------------
(* The controller *)

appVars == <<pc, hpc, position, pubVars, stop>>

plug ==
  /\ ~node
  /\ node' = TRUE /\ stick' = "rest" /\ unread' = <<>>
  /\ UNCHANGED <<motorVars, fileVars, appVars>>

unplug ==
  /\ node
  /\ node' = FALSE /\ motors' = FALSE /\ failed' = FALSE
  /\ file' = IF file = "live" THEN "gone" ELSE file
  /\ left' = IF file = "live" THEN unread ELSE left
  /\ UNCHANGED <<stick, unread, fd, connected, appVars>>

(* The stick moves, and the controller reports it. *)
move(p) ==
  /\ node /\ stick # p
  /\ stick' = p
  /\ unread' = PutDroppingOldest(unread, p, MaxUnread)
  /\ UNCHANGED <<node, motorVars, fileVars, appVars>>

(* Another program reads the ring. *)
packet_taken ==
  /\ Shared
  /\ node /\ unread # <<>>
  /\ unread' = Tail(unread)
  /\ UNCHANGED <<node, stick, motorVars, fileVars, appVars>>

-------------------------------------------------------------------------------
(* _close_device, called by the reader and by destroy_node *)

goto(a, s) == pc' = [pc EXCEPT ![a] = s]

closeRest == <<devVars, hpc, position, recent, stop>>

(* os.close *)
close_fd(a) ==
  /\ Running /\ pc[a] = "close"
  /\ fd
  /\ file' = "none" /\ left' = <<>>
  /\ goto(a, "forget")
  /\ UNCHANGED <<closeRest, fd, connected, cmd>>

close_nothing(a) ==
  /\ Running /\ pc[a] = "close"
  /\ ~fd
  /\ goto(a, "halt")
  /\ UNCHANGED <<closeRest, fileVars, cmd>>

(* Mutation of close_forget: _fd keeps the number of the closed file. *)
close_remembers(a) ==
  /\ Running /\ pc[a] = "forget"
  /\ goto(a, "halt")
  /\ UNCHANGED <<closeRest, fileVars, cmd>>

(* _fd = -1 *)
close_forget(a) ==
  /\ Running /\ pc[a] = "forget"
  /\ fd' = FALSE
  /\ goto(a, "halt")
  /\ UNCHANGED <<closeRest, file, left, connected, cmd>>

(* Mutation of close_halt: the robot is not stopped. *)
close_keeps_driving(a) ==
  /\ Running /\ pc[a] = "halt"
  /\ connected' = FALSE
  /\ goto(a, IF a = "reader" THEN "top" ELSE "zero")
  /\ UNCHANGED <<closeRest, fd, file, left, cmd>>

(* If it was connected, the robot is stopped. *)
close_halt(a) ==
  /\ Running /\ pc[a] = "halt"
  /\ connected' = FALSE
  /\ cmd' = IF connected THEN Twist ELSE cmd
  /\ goto(a, IF a = "reader" THEN "top" ELSE "zero")
  /\ UNCHANGED <<closeRest, fd, file, left>>

-------------------------------------------------------------------------------
(* _reader_loop *)

readerRest == <<hpc, stop>>

reader_exit ==
  /\ Running /\ pc.reader = "top"
  /\ stop
  /\ goto("reader", "done")
  /\ UNCHANGED <<readerRest, devVars, fileVars, position, pubVars>>

reader_top ==
  /\ Running /\ pc.reader = "top"
  /\ ~stop
  /\ goto("reader", IF fd THEN "select" ELSE "open")
  /\ UNCHANGED <<readerRest, devVars, fileVars, position, pubVars>>

reader_open ==
  /\ Running /\ pc.reader = "open"
  /\ node
  /\ fd' = TRUE /\ file' = "live" /\ left' = <<>> /\ connected' = TRUE
  /\ goto("reader", "select")
  /\ UNCHANGED <<readerRest, devVars, position, pubVars>>

reader_open_fails ==
  /\ Running /\ pc.reader = "open"
  /\ ~node
  /\ goto("reader", "sleep")
  /\ UNCHANGED <<readerRest, devVars, fileVars, position, pubVars>>

(* The two seconds are over. *)
reader_slept ==
  /\ Running /\ pc.reader = "sleep"
  /\ goto("reader", "top")
  /\ UNCHANGED <<readerRest, devVars, fileVars, position, pubVars>>

select_timeout ==
  /\ Running /\ pc.reader = "select"
  /\ file = "live" /\ unread = <<>>
  /\ goto("reader", "top")
  /\ UNCHANGED <<readerRest, devVars, fileVars, position, pubVars>>

(* A disconnected device is readable, too. *)
select_readable ==
  /\ Running /\ pc.reader = "select"
  /\ file = "gone" \/ (file = "live" /\ unread # <<>>)
  /\ goto("reader", "read")
  /\ UNCHANGED <<readerRest, devVars, fileVars, position, pubVars>>

reader_read ==
  /\ Running /\ pc.reader = "read"
  /\ \/ /\ file = "live" /\ unread # <<>>
        /\ position' = Head(unread)
        /\ unread' = Tail(unread)
        /\ UNCHANGED left
     \/ /\ file = "gone" /\ left # <<>>
        /\ position' = Head(left)
        /\ left' = Tail(left)
        /\ UNCHANGED unread
  /\ goto("reader", "twist")
  /\ UNCHANGED <<readerRest, node, stick, motorVars, fd, file, connected, pubVars>>

(* BlockingIOError: another program took the packet. *)
reader_read_eagain ==
  /\ Running /\ pc.reader = "read"
  /\ file = "live" /\ unread = <<>>
  /\ goto("reader", "top")
  /\ UNCHANGED <<readerRest, devVars, fileVars, position, pubVars>>

(* ENODEV. *)
reader_read_error ==
  /\ Running /\ pc.reader = "read"
  /\ file = "gone" /\ left = <<>>
  /\ goto("reader", "close")
  /\ UNCHANGED <<readerRest, devVars, fileVars, position, pubVars>>

(* The rate limit lets the velocity through, or drops it. *)
reader_publish ==
  /\ Running /\ pc.reader = "twist"
  /\ recent' = TRUE
  /\ cmd' = IF recent THEN cmd ELSE position
  /\ position' = "rest"
  /\ goto("reader", "top")
  /\ UNCHANGED <<readerRest, devVars, fileVars>>

(* _pub_interval has passed since the last publication. *)
interval_over ==
  /\ Running /\ recent
  /\ recent' = FALSE
  /\ UNCHANGED <<devVars, fileVars, pc, hpc, position, stop, cmd>>

-------------------------------------------------------------------------------
(* The main thread: rclpy.spin and destroy_node *)

mainRest == <<devVars, fileVars, position, recent>>

(* A collision in the odometry starts a haptic thread.  Its cooldown of    *)
(* two seconds is left out: pulses may overlap here.                       *)
odom_cb(h) ==
  /\ pc.main = "spin"
  /\ hpc[h] = "idle"
  /\ hpc' = [hpc EXCEPT ![h] = "check"]
  /\ UNCHANGED <<mainRest, pc, stop, cmd>>

(* KeyboardInterrupt; destroy_node sets the stop event. *)
main_interrupt ==
  /\ pc.main = "spin"
  /\ stop' = TRUE
  /\ goto("main", "join")
  /\ UNCHANGED <<mainRest, hpc, cmd>>

(* Mutation of main_join: the reader is not waited for. *)
main_join_skipped ==
  /\ pc.main = "join"
  /\ goto("main", "close")
  /\ UNCHANGED <<mainRest, hpc, stop, cmd>>

(* join(timeout=2.0): the reader has ended, or is still asleep. *)
main_join ==
  /\ pc.main = "join"
  /\ pc.reader \in {"done", "sleep"}
  /\ goto("main", "close")
  /\ UNCHANGED <<mainRest, hpc, stop, cmd>>

main_zero ==
  /\ pc.main = "zero"
  /\ cmd' = Twist
  /\ goto("main", "shutdown")
  /\ UNCHANGED <<mainRest, hpc, stop>>

(* The process exits, and its daemon threads with it, wherever they are. *)
main_exit ==
  /\ pc.main = "shutdown"
  /\ goto("main", "exit")
  /\ UNCHANGED <<mainRest, hpc, stop, cmd>>

-------------------------------------------------------------------------------
(* _rumble_feedback and _set_motors *)

hapticRest == <<node, stick, unread, fileVars, pc, position, pubVars, stop>>

(* Mutation of haptic_check: after "wait" the thread ends. *)
haptic_no_stop(h, s, yes, no) ==
  /\ Running /\ hpc[h] = s
  /\ hpc' = [hpc EXCEPT ![h] = IF fd /\ yes # "off" THEN yes ELSE no]
  /\ UNCHANGED <<hapticRest, motorVars>>

(* if self._fd < 0: return *)
haptic_check(h, s, yes, no) ==
  /\ Running /\ hpc[h] = s
  /\ hpc' = [hpc EXCEPT ![h] = IF fd THEN yes ELSE no]
  /\ UNCHANGED <<hapticRest, motorVars>>

(* fcntl.ioctl(self._fd, ...): the controller obeys; without a file or a   *)
(* controller an exception ends the thread.                                *)
haptic_ioctl(h, s, on, next) ==
  /\ Running /\ hpc[h] = s
  /\ \/ /\ fd /\ file = "live"
        /\ motors' = on /\ failed' = FALSE
        /\ hpc' = [hpc EXCEPT ![h] = next]
     \/ /\ ~fd \/ file # "live"
        /\ hpc' = [hpc EXCEPT ![h] = "idle"]
        /\ UNCHANGED motorVars
  /\ UNCHANGED hapticRest

(* The transfer fails, or times out and may have reached the controller:   *)
(* the exception ends the thread, before its sleep or its second command.  *)
haptic_ioctl_fails(h, s, on) ==
  /\ Running /\ hpc[h] = s
  /\ fd /\ file = "live"
  /\ motors' \in {motors, on}
  /\ failed' = motors'
  /\ hpc' = [hpc EXCEPT ![h] = "idle"]
  /\ UNCHANGED hapticRest

(* The sleep between the two commands is over. *)
haptic_slept(h) ==
  /\ Running /\ hpc[h] = "wait"
  /\ hpc' = [hpc EXCEPT ![h] = "off_check"]
  /\ UNCHANGED <<hapticRest, motorVars>>

HapticStep(h) ==
  \/ haptic_check(h, "check", "on_check", "idle")
  \/ haptic_check(h, "on_check", "on", "wait")
  \/ haptic_ioctl(h, "on", TRUE, "wait") \/ haptic_ioctl_fails(h, "on", TRUE)
  \/ haptic_slept(h)
  \/ haptic_check(h, "off_check", "off", "idle")
  \/ haptic_ioctl(h, "off", FALSE, "idle") \/ haptic_ioctl_fails(h, "off", FALSE)

-------------------------------------------------------------------------------
CloseStep(a) ==
  close_fd(a) \/ close_nothing(a) \/ close_forget(a) \/ close_halt(a)

ReaderStep ==
  \/ reader_exit \/ reader_top \/ reader_open \/ reader_open_fails
  \/ reader_slept \/ select_timeout \/ select_readable
  \/ reader_read \/ reader_read_eagain \/ reader_read_error
  \/ reader_publish \/ CloseStep("reader")

ShutdownStep == main_join \/ CloseStep("main") \/ main_zero \/ main_exit

ControllerStep ==
  plug \/ unplug \/ packet_taken \/ \E p \in Positions : move(p)

Next ==
  \/ ReaderStep \/ interval_over
  \/ main_interrupt \/ ShutdownStep
  \/ \E h \in Haptics : odom_cb(h) \/ HapticStep(h)
  \/ ControllerStep

(* Each thread gets its turn, and time passes.  Nothing is asked of the    *)
(* controller, of the user who interrupts, or of the odometry.             *)
Fairness ==
  /\ WF_vars(ReaderStep) /\ WF_vars(ShutdownStep) /\ WF_vars(interval_over)
  /\ \A h \in Haptics : WF_vars(HapticStep(h))

Spec == Init /\ [][Next]_vars

FairSpec == Spec /\ Fairness

-------------------------------------------------------------------------------
(* Properties *)

TeleopTypeOK ==
  /\ node \in BOOLEAN /\ stick \in Positions
  /\ motors \in BOOLEAN /\ failed \in BOOLEAN
  /\ unread \in Seq(Positions) /\ Len(unread) <= MaxUnread
  /\ fd \in BOOLEAN /\ file \in {"none", "live", "gone"}
  /\ left \in Seq(Positions) /\ Len(left) <= MaxUnread
  /\ connected \in BOOLEAN
  /\ pc \in PCStates
  /\ hpc \in [Haptics -> HapticStates]
  /\ position \in Positions
  /\ recent \in BOOLEAN /\ stop \in BOOLEAN /\ cmd \in Positions

(* Once shutdown is through with its zero velocity, no later command sets  *)
(* the robot going again (rumble_teleop_node.py:301-305).                  *)
ShutdownStopsRobot == pc.main \in {"shutdown", "exit"} => cmd = Twist

(* Without a connection the robot stands still (rumble_teleop_node.py:     *)
(* 177-188).                                                               *)
DisconnectedRobotStands == ~connected => cmd = Twist

(* The motors run only on behalf of a haptic thread that will stop them,   *)
(* as long as the node is not shut down, or because the last command of    *)
(* all threads failed: no order of overlapping pulses, of unplugs and of   *)
(* _close_device leaves them running for no one, and a command that gets   *)
(* through makes good an earlier one that failed (rumble_teleop_node.py:   *)
(* 274-290, src/driver/rumble.c:513-524).                                  *)
MotorsHaveOwner ==
  motors => \/ stop \/ failed
            \/ \E h \in Haptics : hpc[h] \in {"wait", "off_check", "off"}

(* "Send a timed rumble pulse" (rumble_teleop_node.py:275): motors that    *)
(* were started are stopped after a while, however pulses overlap and      *)
(* _close_device runs in between, unless the node is shut down or the      *)
(* last command failed.                                                    *)
PulseIsTimed == motors ~> (~motors \/ stop \/ failed)

(* After an unplug the robot is stopped, whatever is still unread and      *)
(* whoever else takes packets (rumble_teleop_node.py:209-217, 184-188).    *)
UnplugStopsRobot == ~node ~> (cmd = Twist \/ node)

(* "it recovers automatically when the controller is re-plugged"           *)
(* (ros2/README.md:153-154).                                               *)
Reconnects == <>[](node /\ ~stop) => []<>(file = "live")

(* A stick that is released for good stops the robot for good: "Left stick *)
(* Y -> Twist.linear.x" (rumble_teleop_node.py:16-17).                     *)
RobotFollowsStick == <>[](stick = "rest") => <>[](cmd = Twist)
===============================================================================
