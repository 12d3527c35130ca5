--------------------------- MODULE DropOldestQueue ----------------------------
(***************************************************************************)
(* The abstract promise of the driver's packet buffer: a FIFO of at most   *)
(* Capacity packets in which a put never waits and never fails.  A put     *)
(* into a full queue loses the oldest packet, and no other one is ever     *)
(* lost, duplicated or reordered.                                          *)
(***************************************************************************)
EXTENDS Naturals, Sequences, BoundedQueue

CONSTANTS Capacity,   \* the packets the queue can hold
          Packet,     \* the packets
          NoPacket    \* the result of a get from an empty queue

VARIABLES queue,      \* the packets held, oldest first
          got         \* the result of the last get

queueVars == <<queue, got>>

QInit ==
  /\ queue = <<>>
  /\ got = NoPacket

QPut(p) ==
  /\ queue' = PutDroppingOldest(queue, p, Capacity)
  /\ UNCHANGED got

QGet ==
  /\ queue # <<>>
  /\ got' = Head(queue)
  /\ queue' = Tail(queue)

QGetEmpty ==
  /\ queue = <<>>
  /\ got' = NoPacket
  /\ UNCHANGED queue

QNext == (\E p \in Packet : QPut(p)) \/ QGet \/ QGetEmpty

QSpec == QInit /\ [][QNext]_queueVars
===============================================================================
