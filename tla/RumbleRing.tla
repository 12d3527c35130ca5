------------------------------ MODULE RumbleRing ------------------------------
(***************************************************************************)
(* The driver's ring buffer as the code has it: an array of RingSize slots *)
(* with a producer index r_head and a consumer index r_tail, both kept     *)
(* below RingSize by masking.  The callers hold ring_lock, so each helper  *)
(* is one step.                                                            *)
(*                                                                         *)
(* The mask of the code, x & (RingSize - 1), is written x % RingSize: the  *)
(* two agree because RING_BUF_SIZE is a power of two, which MCPacketPath   *)
(* evaluates.                                                              *)
(***************************************************************************)
EXTENDS Naturals, Sequences

CONSTANTS RingSize,   \* RING_BUF_SIZE, the number of slots
          Packet,     \* the struct rumble_input values put in the ring
          ZeroPacket, \* the all-zero packet kzalloc leaves in every slot
          NoPacket    \* "ring_get returned false"

ASSUME RingAssumption ==
  /\ RingSize \in Nat
  /\ RingSize > 1
  /\ ZeroPacket \in Packet
  /\ NoPacket \notin Packet

VARIABLES ring,       \* the slots
          r_head,     \* producer index
          r_tail,     \* consumer index
          got         \* what the last ring_get returned

ringVars == <<ring, r_head, r_tail, got>>

Slots == 0 .. RingSize - 1

Mask(i) == i % RingSize

(* Mutation of ring_full: a second slot stays free. *)
ring_full_early == Mask(r_head + 2) = Mask(r_tail)

ring_full == Mask(r_head + 1) = Mask(r_tail)

ring_empty == r_head = r_tail

(* What kzalloc leaves. *)
RingInit ==
  /\ ring = [s \in Slots |-> ZeroPacket]
  /\ r_head = 0
  /\ r_tail = 0
  /\ got = NoPacket

(* Mutation of ring_put: the producer index is not masked. *)
ring_put_unmasked(p) ==
  /\ r_tail' = IF ring_full THEN Mask(r_tail + 1) ELSE r_tail
  /\ ring' = [ring EXCEPT ![Mask(r_head)] = p]
  /\ r_head' = r_head + 1
  /\ UNCHANGED got

ring_put(p) ==
  /\ r_tail' = IF ring_full THEN Mask(r_tail + 1) ELSE r_tail
  /\ ring' = [ring EXCEPT ![Mask(r_head)] = p]
  /\ r_head' = Mask(r_head + 1)
  /\ UNCHANGED got

ring_get ==
  \/ /\ ring_empty
     /\ got' = NoPacket
     /\ UNCHANGED <<ring, r_head, r_tail>>
  \/ /\ ~ring_empty
     /\ got' = ring[Mask(r_tail)]
     /\ r_tail' = Mask(r_tail + 1)
     /\ UNCHANGED <<ring, r_head>>

RingNext == (\E p \in Packet : ring_put(p)) \/ ring_get

RingSpec == RingInit /\ [][RingNext]_ringVars
-------------------------------------------------------------------------------
(* The indices stay inside the array: no access of ring[] is ever out of   *)
(* bounds, whatever the interleaving of puts and gets.                     *)
RingTypeOK ==
  /\ ring \in [Slots -> Packet]
  /\ r_head \in Slots
  /\ r_tail \in Slots
  /\ got \in Packet \cup {NoPacket}

(* The number of packets held: one slot always stays free, because         *)
(* r_head = r_tail means empty.                                            *)
Count == Mask(r_head + RingSize - r_tail)

(* The packets held, oldest first: the queue the ring stands for. *)
Contents == [k \in 1 .. Count |-> ring[Mask(r_tail + k - 1)]]

Queue == INSTANCE DropOldestQueue
           WITH Capacity <- RingSize - 1, queue <- Contents

(* The ring with its wrapping indices and its overwriting of the oldest    *)
(* entry (rumble.c:167-193) is a drop-oldest FIFO of RingSize - 1 packets. *)
RingIsQueue == Queue!QSpec
===============================================================================
