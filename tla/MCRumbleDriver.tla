---------------------------- MODULE MCRumbleDriver ----------------------------
(* RumbleDriver on small sets of interfaces, device addresses and threads.  *)
EXTENDS RumbleDriver, TLC

(* Interfaces, addresses and threads are interchangeable in the lifecycle run. *)
Symmetry == Permutations(Intfs) \cup Permutations(Devs) \cup Permutations(Threads)

(* The system calls of the threads, run by run. *)
NoCalls == [t \in Threads |-> {}]

(* One thread reads and polls, and all of them drive the motors. *)
MixedCalls ==
  LET reader == CHOOSE t \in Threads : TRUE IN
    [t \in Threads |-> {"ioctl"} \cup IF t = reader THEN {"read", "poll"} ELSE {}]

(* One thread reads and polls, the others only read. *)
ReaderCalls ==
  LET reader == CHOOSE t \in Threads : TRUE IN
    [t \in Threads |-> {"read"} \cup IF t = reader THEN {"poll"} ELSE {}]
===============================================================================
