--------------------------- MODULE PacketPathProofs ---------------------------
(***************************************************************************)
(* Proofs about the driver's ring and the way of a packet through it, for  *)
(* every size of the ring and every table of transfers: that the ring is a *)
(* drop-oldest queue, that what a program parses is what the controller    *)
(* sent, and that the programs agree about it.                             *)
(***************************************************************************)
EXTENDS PacketPath, BoundedQueueProofs

-------------------------------------------------------------------------------
(* The masked indices *)

(* An index that has passed the end at most once. *)
LEMMA WrapOnce ==
  ASSUME NEW b \in Nat \ {0}, NEW x \in 0 .. 2 * b - 1
  PROVE  x % b = IF x < b THEN x ELSE x - b
<1> DEFINE q == x \div b
           r == x % b
<1>1. q \in Int /\ r \in 0 .. b - 1 /\ x = b * q + r
  BY DivisionLemma
<1> HIDE DEF q, r
<1>2. CASE x < b
  <2>1. b * q \in Int /\ b * q <= b - 1 /\ b * q >= -(b - 1)
    BY <1>1, <1>2
  <2>2. CASE q >= 0
    <3>1. b * q >= 0
      BY <1>1, <2>2
    <3>2. b * q \in 0 .. b - 1
      BY <2>1, <3>1
    <3> QED
      BY <1>1, <1>2, <3>2, MultipleBelow DEF r
  <2>3. CASE q <= -1
    <3>1. b * q <= -b
      BY <1>1, <2>3
    <3> QED
      BY <2>1, <3>1
  <2> QED
    BY <1>1, <2>2, <2>3
<1>3. CASE x >= b
  <2>1. x - b = b * (q - 1) + r
    BY <1>1
  <2>2. q - 1 \in Int /\ b * (q - 1) \in Int
        /\ b * (q - 1) <= b - 1 /\ b * (q - 1) >= -(b - 1)
    BY <1>1, <1>3, <2>1
  <2>3. CASE q - 1 >= 0
    <3>1. b * (q - 1) >= 0
      BY <1>1, <2>3
    <3>2. b * (q - 1) \in 0 .. b - 1
      BY <2>2, <3>1
    <3>3. q - 1 = 0
      BY <2>2, <3>2, MultipleBelow
    <3> QED
      BY <1>1, <1>3, <3>3 DEF r
  <2>4. CASE q - 1 <= -1
    <3>1. b * (q - 1) <= -b
      BY <1>1, <2>4
    <3> QED
      BY <2>2, <3>1
  <2> QED
    BY <2>2, <2>3, <2>4
<1> QED
  BY <1>2, <1>3

(* Mask on the sums the helpers form. *)
LEMMA MaskValue ==
  ASSUME NEW x \in 0 .. 2 * RingSize - 1
  PROVE  /\ x < RingSize => Mask(x) = x
         /\ x >= RingSize => Mask(x) = x - RingSize
<1>1. RingSize \in Nat \ {0}
  BY RingAssumption
<1>2. x % RingSize = IF x < RingSize THEN x ELSE x - RingSize
  BY <1>1, WrapOnce
<1> QED
  BY <1>1, <1>2 DEF Mask

(* The indices the helpers form, without the wrapping. *)
LEMMA MaskedIndices ==
  ASSUME NEW h \in Slots, NEW t \in Slots
  PROVE  /\ Mask(h) = h
         /\ Mask(h + 1) = (IF h = RingSize - 1 THEN 0 ELSE h + 1)
         /\ Mask(h + RingSize - t) = (IF h >= t THEN h - t ELSE h + RingSize - t)
<1>1. RingSize \in Nat /\ RingSize > 1 /\ h \in 0 .. RingSize - 1
      /\ t \in 0 .. RingSize - 1
  BY RingAssumption DEF Slots
<1>2. h \in 0 .. 2 * RingSize - 1 /\ h + 1 \in 0 .. 2 * RingSize - 1
  BY <1>1
<1>3. Mask(h) = h
  BY <1>1, <1>2, MaskValue
<1>4. Mask(h + 1) = (IF h = RingSize - 1 THEN 0 ELSE h + 1)
  <2> DEFINE x == h + 1
  <2>1. x \in 0 .. 2 * RingSize - 1
    BY <1>2
  <2>2. (x < RingSize => Mask(x) = x) /\ (x >= RingSize => Mask(x) = x - RingSize)
    BY <2>1, MaskValue
  <2> QED
    BY <1>1, <2>2
<1>5. Mask(h + RingSize - t) = (IF h >= t THEN h - t ELSE h + RingSize - t)
  <2> DEFINE x == h + RingSize - t
  <2>1. x \in 0 .. 2 * RingSize - 1
    BY <1>1
  <2>2. (x < RingSize => Mask(x) = x) /\ (x >= RingSize => Mask(x) = x - RingSize)
    BY <2>1, MaskValue
  <2> QED
    BY <1>1, <2>2
<1> QED
  BY <1>3, <1>4, <1>5

(* The slot of the k-th packet from the index t on. *)
At(t, k) == Mask(t + k - 1)

LEMMA SlotValue ==
  ASSUME NEW t \in Slots, NEW k \in 1 .. RingSize
  PROVE  At(t, k) = (IF t + k - 1 < RingSize THEN t + k - 1
                     ELSE t + k - 1 - RingSize)
<1>1. RingSize \in Nat /\ RingSize > 1 /\ t \in 0 .. RingSize - 1
  BY RingAssumption DEF Slots
<1> DEFINE x == t + k - 1
<1>2. x \in 0 .. 2 * RingSize - 1
  BY <1>1
<1>3. (x < RingSize => Mask(x) = x) /\ (x >= RingSize => Mask(x) = x - RingSize)
  BY <1>2, MaskValue
<1> QED
  BY <1>1, <1>3 DEF At
-------------------------------------------------------------------------------
(* The ring and the queue it stands for *)

CountOf(h, t) == Mask(h + RingSize - t)

ContentsOf(slots, h, t) == [k \in 1 .. CountOf(h, t) |-> slots[At(t, k)]]

(* What the array and its two indices say of the sequence q of n packets.  *)
Shape(slots, t, n, q) ==
  /\ q \in Seq(Packet) /\ Len(q) = n
  /\ \A k \in 1 .. n : q[k] = slots[At(t, k)]

LEMMA CountValue ==
  ASSUME NEW h \in Slots, NEW t \in Slots
  PROVE  /\ CountOf(h, t) = (IF h >= t THEN h - t ELSE h + RingSize - t)
         /\ CountOf(h, t) \in 0 .. RingSize - 1
<1>1. RingSize \in Nat /\ RingSize > 1 /\ h \in 0 .. RingSize - 1
      /\ t \in 0 .. RingSize - 1
  BY RingAssumption DEF Slots
<1>2. CountOf(h, t) = (IF h >= t THEN h - t ELSE h + RingSize - t)
  BY MaskedIndices DEF CountOf
<1> QED
  BY <1>1, <1>2

LEMMA SlotsOfPackets ==
  ASSUME NEW t \in Slots, NEW k \in 1 .. RingSize
  PROVE  At(t, k) \in Slots
<1>1. RingSize \in Nat /\ RingSize > 1 /\ t \in 0 .. RingSize - 1
  BY RingAssumption DEF Slots
<1>2. At(t, k) = (IF t + k - 1 < RingSize THEN t + k - 1
                  ELSE t + k - 1 - RingSize)
  BY SlotValue
<1> QED
  BY <1>1, <1>2 DEF Slots

LEMMA ContentsShape ==
  ASSUME NEW slots \in [Slots -> Packet], NEW h \in Slots, NEW t \in Slots,
         NEW n \in 0 .. RingSize - 1, n = CountOf(h, t)
  PROVE  Shape(slots, t, n, ContentsOf(slots, h, t))
<1>1. \A k \in 1 .. n : slots[At(t, k)] \in Packet
  <2> SUFFICES ASSUME NEW k \in 1 .. n PROVE At(t, k) \in Slots
    OBVIOUS
  <2>1. k \in 1 .. RingSize
    BY RingAssumption
  <2> QED
    BY <2>1, SlotsOfPackets
<1>2. ContentsOf(slots, h, t) = [k \in 1 .. n |-> slots[At(t, k)]]
  BY DEF ContentsOf
<1>3. n \in Nat
  BY RingAssumption
<1> QED
  BY <1>1, <1>2, <1>3 DEF Shape

(* Where a put leaves the indices; lost is 1 if the ring was full. *)
LEMMA PutIndices ==
  ASSUME NEW h \in Slots, NEW t \in Slots,
         NEW lost \in 0 .. 1, lost = 1 <=> CountOf(h, t) >= RingSize - 1,
         NEW t1 \in Slots,
         t1 = IF Mask(h + 1) = Mask(t) THEN Mask(t + 1) ELSE t,
         NEW h1 \in Slots, h1 = Mask(h + 1),
         NEW n1 \in 0 .. RingSize - 1, n1 = CountOf(h1, t1)
  PROVE  /\ n1 = CountOf(h, t) + 1 - lost
         /\ \A k \in 1 .. n1 : At(t1, k) = At(t, k + lost)
         /\ \A k \in 1 .. n1 : At(t1, k) = h <=> k = n1
         /\ n1 >= 1
<1>1. /\ RingSize \in Nat /\ RingSize > 1
      /\ h \in 0 .. RingSize - 1 /\ t \in 0 .. RingSize - 1
      /\ h1 \in 0 .. RingSize - 1 /\ t1 \in 0 .. RingSize - 1
  BY RingAssumption DEF Slots
<1>2. /\ h1 = (IF h = RingSize - 1 THEN 0 ELSE h + 1)
      /\ t1 = IF h1 = t THEN (IF t = RingSize - 1 THEN 0 ELSE t + 1) ELSE t
  BY MaskedIndices
<1>3. PICK n \in 0 .. RingSize - 1 : n = CountOf(h, t)
  BY CountValue
<1>4. n = (IF h >= t THEN h - t ELSE h + RingSize - t)
  BY <1>3, CountValue
<1>5. n1 = (IF h1 >= t1 THEN h1 - t1 ELSE h1 + RingSize - t1)
  BY CountValue
<1>6. lost = 1 <=> n >= RingSize - 1
  BY <1>3
<1>7. h1 = t <=> lost = 1
  BY <1>1, <1>2, <1>4, <1>6
<1>8. n1 = n + 1 - lost /\ n1 >= 1
  BY <1>1, <1>2, <1>4, <1>5, <1>6, <1>7
<1>9. t1 = IF lost = 1 THEN (IF t = RingSize - 1 THEN 0 ELSE t + 1) ELSE t
  BY <1>2, <1>7
<1>10. ASSUME NEW k \in 1 .. n1
       PROVE  /\ At(t1, k) = At(t, k + lost)
              /\ At(t1, k) = h <=> k = n1
  <2>1. k \in 1 .. RingSize /\ k + lost \in 1 .. RingSize /\ k \in Nat
    BY <1>1
  <2>2. At(t1, k) = (IF t1 + k - 1 < RingSize THEN t1 + k - 1
                     ELSE t1 + k - 1 - RingSize)
    BY <2>1, SlotValue
  <2>3. At(t, k + lost) = (IF t + (k + lost) - 1 < RingSize
                           THEN t + (k + lost) - 1
                           ELSE t + (k + lost) - 1 - RingSize)
    BY <2>1, SlotValue
  <2>4. At(t1, k) = At(t, k + lost)
    BY <1>1, <1>9, <2>1, <2>2, <2>3
  <2>5. At(t1, k) = h <=> k = n1
    BY <1>1, <1>2, <1>5, <2>1, <2>2
  <2> QED
    BY <2>4, <2>5
<1> QED
  BY <1>3, <1>8, <1>10

(* What ring_put assigns. *)
Puts(slots, h, t, p, slots1, h1, t1) ==
  /\ t1 = IF Mask(h + 1) = Mask(t) THEN Mask(t + 1) ELSE t
  /\ h1 = Mask(h + 1)
  /\ slots1 = [slots EXCEPT ![Mask(h)] = p]

(* A put: into a full ring it overwrites the free slot and leaves the      *)
(* oldest packet's slot free instead.                                      *)
LEMMA PutIsQueuePut ==
  ASSUME NEW slots \in [Slots -> Packet], NEW h \in Slots, NEW t \in Slots,
         NEW p \in Packet,
         NEW slots1, NEW h1, NEW t1, Puts(slots, h, t, p, slots1, h1, t1)
  PROVE  /\ slots1 \in [Slots -> Packet] /\ h1 \in Slots /\ t1 \in Slots
         /\ ContentsOf(slots1, h1, t1) =
              PutDroppingOldest(ContentsOf(slots, h, t), p, RingSize - 1)
<1>1. RingSize \in Nat /\ RingSize > 1 /\ RingSize - 1 \in Nat \ {0}
  BY RingAssumption
<1>2. h1 \in Slots /\ t1 \in Slots
  <2>1. /\ Mask(h) = h /\ Mask(t) = t
        /\ Mask(h + 1) = (IF h = RingSize - 1 THEN 0 ELSE h + 1)
        /\ Mask(t + 1) = (IF t = RingSize - 1 THEN 0 ELSE t + 1)
    BY MaskedIndices
  <2> QED
    BY <1>1, <2>1 DEF Slots, Puts
<1>3. slots1 = [slots EXCEPT ![h] = p] /\ slots1 \in [Slots -> Packet]
  BY MaskedIndices DEF Puts
<1>4. PICK n \in 0 .. RingSize - 1 : n = CountOf(h, t)
  BY CountValue
<1>5. PICK n1 \in 0 .. RingSize - 1 : n1 = CountOf(h1, t1)
  BY <1>2, CountValue
<1>6. Shape(slots, t, n, ContentsOf(slots, h, t))
  BY <1>4, ContentsShape
<1>7. Shape(slots1, t1, n1, ContentsOf(slots1, h1, t1))
  BY <1>2, <1>3, <1>5, ContentsShape
<1>8. PICK q \in Seq(Packet) : q = ContentsOf(slots, h, t)
  BY <1>6 DEF Shape
<1>9. PICK q1 \in Seq(Packet) : q1 = ContentsOf(slots1, h1, t1)
  BY <1>7 DEF Shape
<1>10. Shape(slots, t, n, q) /\ Shape(slots1, t1, n1, q1)
  BY <1>6, <1>7, <1>8, <1>9
<1>11. PICK r \in Seq(Packet) : r = PutDroppingOldest(q, p, RingSize - 1)
  BY <1>1, PutProperties
<1>12. PICK lost \in 0 .. 1 : lost = Lost(q, RingSize - 1)
  BY DEF Lost
<1>13. Len(q) = n
  BY <1>10 DEF Shape
<1>14. lost = 1 <=> n >= RingSize - 1
  BY <1>12, <1>13 DEF Lost
<1>15. lost = 1 <=> CountOf(h, t) >= RingSize - 1
  BY <1>4, <1>14
<1>16. /\ n1 = CountOf(h, t) + 1 - lost
       /\ \A k \in 1 .. n1 : At(t1, k) = At(t, k + lost)
       /\ \A k \in 1 .. n1 : At(t1, k) = h <=> k = n1
       /\ n1 >= 1
  BY <1>2, <1>5, <1>15, PutIndices DEF Puts
<1>17. /\ Len(r) = Len(q) + 1 - lost
       /\ \A k \in 1 .. Len(r) - 1 : r[k] = q[k + lost]
       /\ r[Len(r)] = p
  <2>1. PutResult(q, p, lost, r)
    BY <1>1, <1>11, <1>12, PutResultOf
  <2> QED
    BY <2>1 DEF PutResult
<1>18. Len(r) = n1
  BY <1>4, <1>13, <1>16, <1>17
<1>19. q1[n1] = p
  <2>1. n1 \in 1 .. n1 /\ At(t1, n1) = h
    BY <1>16
  <2> QED
    BY <1>3, <1>10, <2>1 DEF Shape
<1>20. ASSUME NEW k \in 1 .. n1 - 1
       PROVE  q1[k] = q[k + lost]
  <2>1. n1 = n + 1 - lost
    BY <1>4, <1>16
  <2>2. k \in 1 .. n1 /\ k # n1 /\ k + lost \in 1 .. n
    BY <1>1, <2>1
  <2>3. At(t1, k) # h /\ At(t1, k) = At(t, k + lost)
    BY <1>16, <2>2
  <2>4. At(t1, k) \in Slots
    <3>1. k \in 1 .. RingSize
      BY <1>1
    <3> QED
      BY <1>2, <3>1, SlotsOfPackets
  <2>5. slots1[At(t1, k)] = slots[At(t1, k)]
    BY <1>3, <2>3, <2>4
  <2>6. q1[k] = slots1[At(t1, k)]
    BY <1>10, <2>2 DEF Shape
  <2>7. q[k + lost] = slots[At(t, k + lost)]
    BY <1>10, <2>2 DEF Shape
  <2> QED
    BY <2>3, <2>5, <2>6, <2>7
<1>21. q1 = r
  <2>1. Len(q1) = Len(r) /\ Len(q1) = n1
    BY <1>10, <1>18 DEF Shape
  <2>2. ASSUME NEW k \in 1 .. n1 PROVE q1[k] = r[k]
    <3>1. CASE k = n1
      BY <1>17, <1>18, <1>19, <3>1
    <3>2. CASE k # n1
      <4>1. k \in 1 .. n1 - 1
        BY <1>1, <3>2
      <4>2. r[k] = q[k + lost]
        BY <1>17, <1>18, <4>1
      <4> QED
        BY <1>20, <4>1, <4>2
    <3> QED
      BY <3>1, <3>2
  <2>3. \A k \in 1 .. Len(q1) : q1[k] = r[k]
    BY <2>1, <2>2
  <2> QED
    BY <2>1, <2>3, SeqEqual
<1> QED
  BY <1>2, <1>3, <1>8, <1>9, <1>11, <1>21
(* A get takes the oldest packet, and the equal indices of an empty ring   *)
(* are never those of a full one.                                          *)
LEMMA EmptyIsEmpty ==
  ASSUME NEW slots \in [Slots -> Packet], NEW h \in Slots, NEW t \in Slots
  PROVE  h = t <=> ContentsOf(slots, h, t) = <<>>
<1>1. PICK n \in 0 .. RingSize - 1 : n = CountOf(h, t)
  BY CountValue
<1>2. Shape(slots, t, n, ContentsOf(slots, h, t))
  BY <1>1, ContentsShape
<1>3. PICK q \in Seq(Packet) : q = ContentsOf(slots, h, t)
  BY <1>2 DEF Shape
<1>4. Len(q) = n
  BY <1>2, <1>3 DEF Shape
<1>5. q = <<>> <=> n = 0
  BY <1>4, EmptySeq
<1>6. n = 0 <=> h = t
  <2>1. n = (IF h >= t THEN h - t ELSE h + RingSize - t)
    BY <1>1, CountValue
  <2> QED
    BY <2>1, RingAssumption DEF Slots
<1> QED
  BY <1>3, <1>5, <1>6

LEMMA GetIndices ==
  ASSUME NEW h \in Slots, NEW t \in Slots, h # t,
         NEW t1 \in Slots, t1 = Mask(t + 1)
  PROVE  /\ CountOf(h, t1) = CountOf(h, t) - 1
         /\ CountOf(h, t) >= 1
         /\ \A k \in 1 .. CountOf(h, t1) : At(t1, k) = At(t, k + 1)
         /\ At(t, 1) = t
<1>1. /\ RingSize \in Nat /\ RingSize > 1
      /\ h \in 0 .. RingSize - 1 /\ t \in 0 .. RingSize - 1
      /\ t1 \in 0 .. RingSize - 1
  BY RingAssumption DEF Slots
<1>2. t1 = (IF t = RingSize - 1 THEN 0 ELSE t + 1)
  BY MaskedIndices
<1>3. PICK n \in 0 .. RingSize - 1 : n = CountOf(h, t)
  BY CountValue
<1>4. PICK n1 \in 0 .. RingSize - 1 : n1 = CountOf(h, t1)
  BY CountValue
<1>5. n = (IF h >= t THEN h - t ELSE h + RingSize - t)
  BY <1>3, CountValue
<1>6. n1 = (IF h >= t1 THEN h - t1 ELSE h + RingSize - t1)
  BY <1>4, CountValue
<1>7. n1 = n - 1 /\ n >= 1
  BY <1>1, <1>2, <1>5, <1>6
<1>8. ASSUME NEW k \in 1 .. n1 PROVE At(t1, k) = At(t, k + 1)
  <2>1. k \in 1 .. RingSize /\ k + 1 \in 1 .. RingSize /\ k \in Nat
    BY <1>1, <1>7
  <2>2. At(t1, k) = (IF t1 + k - 1 < RingSize THEN t1 + k - 1
                     ELSE t1 + k - 1 - RingSize)
    BY <2>1, SlotValue
  <2>3. At(t, k + 1) = (IF t + (k + 1) - 1 < RingSize THEN t + (k + 1) - 1
                        ELSE t + (k + 1) - 1 - RingSize)
    BY <2>1, SlotValue
  <2> QED
    BY <1>1, <1>2, <2>1, <2>2, <2>3
<1>9. At(t, 1) = t
  <2>1. At(t, 1) = (IF t + 1 - 1 < RingSize THEN t + 1 - 1
                    ELSE t + 1 - 1 - RingSize)
    BY <1>1, SlotValue
  <2> QED
    BY <1>1, <2>1
<1> QED
  BY <1>3, <1>4, <1>7, <1>8, <1>9

LEMMA GetIsQueueGet ==
  ASSUME NEW slots \in [Slots -> Packet], NEW h \in Slots, NEW t \in Slots,
         h # t, NEW t1, t1 = Mask(t + 1)
  PROVE  /\ t1 \in Slots
         /\ slots[Mask(t)] \in Packet
         /\ slots[Mask(t)] = Head(ContentsOf(slots, h, t))
         /\ ContentsOf(slots, h, t1) = Tail(ContentsOf(slots, h, t))
<1>1. RingSize \in Nat /\ RingSize > 1
  BY RingAssumption
<1>2. Mask(t) = t /\ t1 = (IF t = RingSize - 1 THEN 0 ELSE t + 1)
  BY MaskedIndices
<1>3. t1 \in Slots
  BY <1>1, <1>2 DEF Slots
<1>4. PICK n \in 0 .. RingSize - 1 : n = CountOf(h, t)
  BY CountValue
<1>5. PICK n1 \in 0 .. RingSize - 1 : n1 = CountOf(h, t1)
  BY <1>3, CountValue
<1>6. /\ n1 = n - 1 /\ n >= 1
      /\ \A k \in 1 .. n1 : At(t1, k) = At(t, k + 1)
      /\ At(t, 1) = t
  BY <1>3, <1>4, <1>5, GetIndices
<1>7. Shape(slots, t, n, ContentsOf(slots, h, t))
  BY <1>4, ContentsShape
<1>8. Shape(slots, t1, n1, ContentsOf(slots, h, t1))
  BY <1>3, <1>5, ContentsShape
<1>9. PICK q \in Seq(Packet) : q = ContentsOf(slots, h, t)
  BY <1>7 DEF Shape
<1>10. PICK q1 \in Seq(Packet) : q1 = ContentsOf(slots, h, t1)
  BY <1>8 DEF Shape
<1>11. Shape(slots, t, n, q) /\ Shape(slots, t1, n1, q1)
  BY <1>7, <1>8, <1>9, <1>10
<1>12. Len(q) = n /\ Len(q1) = n1 /\ q # <<>>
  BY <1>6, <1>11, EmptySeq DEF Shape
<1>13. PICK r \in Seq(Packet) : r = Tail(q)
  BY <1>12, TailProperties
<1>14. /\ Head(q) = q[1] /\ Len(r) = Len(q) - 1
       /\ \A k \in 1 .. Len(q) - 1 : r[k] = q[k + 1]
  BY <1>12, <1>13, TailProperties
<1>15. q[1] = slots[t]
  <2>1. 1 \in 1 .. n
    BY <1>6
  <2> QED
    BY <1>6, <1>11, <2>1 DEF Shape
<1>16. ASSUME NEW k \in 1 .. n1 PROVE q1[k] = r[k]
  <2>1. k + 1 \in 1 .. n
    BY <1>6
  <2>2. q1[k] = slots[At(t1, k)] /\ q[k + 1] = slots[At(t, k + 1)]
    BY <1>11, <2>1 DEF Shape
  <2>3. r[k] = q[k + 1]
    BY <1>6, <1>12, <1>14
  <2> QED
    BY <1>6, <2>2, <2>3
<1>17. q1 = r
  <2>1. Len(q1) = Len(r) /\ Len(q1) = n1
    BY <1>6, <1>12, <1>14
  <2>2. \A k \in 1 .. Len(q1) : q1[k] = r[k]
    BY <1>16, <2>1
  <2> QED
    BY <2>1, <2>2, SeqEqual
<1>18. slots[Mask(t)] \in Packet
  BY <1>2
<1> QED
  BY <1>2, <1>3, <1>9, <1>10, <1>13, <1>14, <1>15, <1>17, <1>18
-------------------------------------------------------------------------------
(* The ring implements the queue *)

LEMMA ContentsIs ==
  /\ Contents = ContentsOf(ring, r_head, r_tail)
  /\ Contents' = ContentsOf(ring', r_head', r_tail')
BY DEF Contents, ContentsOf, Count, CountOf, At

LEMMA RingStart ==
  ASSUME RingInit
  PROVE  RingTypeOK /\ Contents = <<>>
<1>1. RingTypeOK
  BY RingAssumption DEF RingInit, RingTypeOK, Slots
<1>2. r_head = r_tail
  BY DEF RingInit
<1> QED
  BY <1>1, <1>2, EmptyIsEmpty, ContentsIs DEF RingTypeOK

LEMMA PutStep ==
  ASSUME RingTypeOK, NEW p \in Packet, ring_put(p)
  PROVE  /\ RingTypeOK'
         /\ Contents' = PutDroppingOldest(Contents, p, RingSize - 1)
         /\ got' = got
<1>1. PICK slots \in [Slots -> Packet], h \in Slots, t \in Slots :
        slots = ring /\ h = r_head /\ t = r_tail
  BY DEF RingTypeOK
<1>2. PICK slots1, h1, t1 : slots1 = ring' /\ h1 = r_head' /\ t1 = r_tail'
  OBVIOUS
<1>3. Puts(slots, h, t, p, slots1, h1, t1)
  BY <1>1, <1>2 DEF ring_put, ring_full, Puts
<1>4. /\ slots1 \in [Slots -> Packet] /\ h1 \in Slots /\ t1 \in Slots
      /\ ContentsOf(slots1, h1, t1) =
           PutDroppingOldest(ContentsOf(slots, h, t), p, RingSize - 1)
  BY <1>3, PutIsQueuePut
<1> QED
  BY <1>1, <1>2, <1>4, ContentsIs DEF RingTypeOK, ring_put

LEMMA GetStep ==
  ASSUME RingTypeOK, ring_get
  PROVE  /\ RingTypeOK'
         /\ \/ Contents = <<>> /\ Contents' = Contents /\ got' = NoPacket
            \/ /\ Contents # <<>> /\ Contents' = Tail(Contents)
               /\ got' = Head(Contents)
<1>1. CASE ring_empty
  BY <1>1, EmptyIsEmpty, ContentsIs DEF RingTypeOK, ring_get, ring_empty
<1>2. CASE ~ring_empty
  <2>1. /\ got' = ring[Mask(r_tail)] /\ r_tail' = Mask(r_tail + 1)
        /\ UNCHANGED <<ring, r_head>> /\ r_head # r_tail
    BY <1>2 DEF ring_get, ring_empty
  <2>2. /\ r_tail' \in Slots /\ ring[Mask(r_tail)] \in Packet
        /\ ring[Mask(r_tail)] = Head(ContentsOf(ring, r_head, r_tail))
        /\ ContentsOf(ring, r_head, r_tail') = Tail(ContentsOf(ring, r_head, r_tail))
    BY <2>1, GetIsQueueGet DEF RingTypeOK
  <2>3. Contents # <<>>
    BY <2>1, EmptyIsEmpty, ContentsIs DEF RingTypeOK
  <2> QED
    BY <2>1, <2>2, <2>3, ContentsIs DEF RingTypeOK
<1> QED
  BY <1>1, <1>2

LEMMA IdleStep ==
  ASSUME RingTypeOK, UNCHANGED ringVars
  PROVE  RingTypeOK' /\ Contents' = Contents /\ got' = got
BY ContentsIs DEF RingTypeOK, ringVars

(* Each step of the ring is a step of the queue. *)
LEMMA QueueStep ==
  ASSUME RingTypeOK,
         (\E p \in Packet : ring_put(p)) \/ ring_get \/ UNCHANGED ringVars
  PROVE  RingTypeOK' /\ [Queue!QNext]_(Queue!queueVars)
<1> USE DEF Queue!QNext, Queue!queueVars, Queue!QPut, Queue!QGet,
            Queue!QGetEmpty
<1>1. ASSUME NEW p \in Packet, ring_put(p)
      PROVE  RingTypeOK' /\ Queue!QPut(p)
  BY <1>1, PutStep DEF Queue!PutDroppingOldest, PutDroppingOldest
<1>2. CASE ring_get
  BY <1>2, GetStep
<1>3. CASE UNCHANGED ringVars
  BY <1>3, IdleStep
<1> QED
  BY <1>1, <1>2, <1>3

(* The driver's ring, with its wrapping indices, its mask and its          *)
(* overwriting of the oldest entry, is a drop-oldest FIFO of RingSize - 1  *)
(* packets, whatever its size (rumble.c:158-193).                          *)
THEOREM RingCorrect == RingSpec => RingIsQueue
<1>1. RingInit => RingTypeOK /\ Queue!QInit
  BY RingStart DEF Queue!QInit, RingInit
<1>2. RingTypeOK /\ [RingNext]_ringVars
        => RingTypeOK' /\ [Queue!QNext]_(Queue!queueVars)
  BY QueueStep DEF RingNext
<1> QED
  BY <1>1, <1>2, PTL DEF RingSpec, RingIsQueue, Queue!QSpec

-------------------------------------------------------------------------------
(* The bytes of a number *)

(* The recursion of Shifted, unfolded. *)
LEMMA ShiftedValues ==
  ASSUME NEW v \in Int
  PROVE  /\ Shifted(v)[0] = v
         /\ \A k \in 1 .. 8 : Shifted(v)[k] = Shifted(v)[k - 1] \div 256
         /\ \A k \in 0 .. 8 : Shifted(v)[k] \in Int
<1> DEFINE v1 == v \div 256
           v2 == v1 \div 256
           v3 == v2 \div 256
           v4 == v3 \div 256
           v5 == v4 \div 256
           v6 == v5 \div 256
           v7 == v6 \div 256
           g == [k \in 0 .. 8 |->
                   CASE k = 0 -> v  [] k = 1 -> v1 [] k = 2 -> v2
                     [] k = 3 -> v3 [] k = 4 -> v4 [] k = 5 -> v5
                     [] k = 6 -> v6 [] k = 7 -> v7 [] k = 8 -> v7 \div 256]
           Unfolds(s) == s = [k \in 0 .. 8 |-> IF k = 0 THEN v
                                               ELSE s[k - 1] \div 256]
<1>1. /\ g[0] = v /\ g[1] = v1 /\ g[2] = v2 /\ g[3] = v3 /\ g[4] = v4
      /\ g[5] = v5 /\ g[6] = v6 /\ g[7] = v7 /\ g[8] = v7 \div 256
  <2> HIDE DEF v1, v2, v3, v4, v5, v6, v7
  <2> QED
    OBVIOUS
<1>2. \A k \in 0 .. 8 : g[k] = IF k = 0 THEN v ELSE g[k - 1] \div 256
  <2> HIDE DEF g
  <2> SUFFICES ASSUME NEW k \in 0 .. 8
               PROVE  g[k] = IF k = 0 THEN v ELSE g[k - 1] \div 256
    OBVIOUS
  <2>1. \/ k = 0 \/ k = 1 \/ k = 2 \/ k = 3 \/ k = 4 \/ k = 5 \/ k = 6 \/ k = 7
        \/ k = 8
    OBVIOUS
  <2> QED
    BY <1>1, <2>1
<1>3. PICK h : h = g
  OBVIOUS
<1>4. h = [k \in 0 .. 8 |-> h[k]]
  BY <1>3
<1>5. \A k \in 0 .. 8 : h[k] = IF k = 0 THEN v ELSE h[k - 1] \div 256
  BY <1>2, <1>3
<1> HIDE DEF g
<1>6. Unfolds(h)
  BY <1>4, <1>5
<1>7. Shifted(v) = CHOOSE s : Unfolds(s)
  BY DEF Shifted
<1>8. Unfolds(Shifted(v))
  <2> HIDE DEF Unfolds
  <2> QED
    BY <1>6, <1>7
<1>9. PICK s : s = Shifted(v)
  OBVIOUS
<1>10. s = [k \in 0 .. 8 |-> IF k = 0 THEN v ELSE s[k - 1] \div 256]
  BY <1>8, <1>9
<1>11. /\ s[0] = v
       /\ \A k \in 1 .. 8 : s[k] = s[k - 1] \div 256
  BY <1>10
<1>12. \A k \in 0 .. 8 : s[k] \in Int
  <2>1. s[0] \in Int
    BY <1>11
  <2>2. \A k \in 1 .. 8 : s[k - 1] \in Int => s[k] \in Int
    BY <1>11
  <2>3. s[1] \in Int BY <2>1, <2>2
  <2>4. s[2] \in Int BY <2>3, <2>2
  <2>5. s[3] \in Int BY <2>4, <2>2
  <2>6. s[4] \in Int BY <2>5, <2>2
  <2>7. s[5] \in Int BY <2>6, <2>2
  <2>8. s[6] \in Int BY <2>7, <2>2
  <2>9. s[7] \in Int BY <2>8, <2>2
  <2>10. s[8] \in Int BY <2>9, <2>2
  <2>11. \A k \in 0 .. 8 : \/ k = 0 \/ k = 1 \/ k = 2 \/ k = 3 \/ k = 4 \/ k = 5
                           \/ k = 6 \/ k = 7 \/ k = 8
    OBVIOUS
  <2> QED BY <2>1, <2>3, <2>4, <2>5, <2>6, <2>7, <2>8, <2>9, <2>10, <2>11
<1> QED
  BY <1>9, <1>11, <1>12

(* A number is its lowest byte and the rest of it. *)
Low(x) == x % 256

Rest(x) == x \div 256

(* ToBytes makes as many bytes as it is asked for. *)
LEMMA BytesOf ==
  ASSUME NEW v \in Int, NEW size \in 1 .. 8
  PROVE  /\ ToBytes(v, size) \in Seq(0 .. 255)
         /\ Len(ToBytes(v, size)) = size
         /\ \A k \in 1 .. size : ToBytes(v, size)[k] = Low(Shifted(v)[k - 1])
<1>1. PICK s : s = Shifted(v)
  OBVIOUS
<1>2. \A k \in 0 .. 8 : s[k] \in Int
  BY <1>1, ShiftedValues
<1>3. PICK b : b = [k \in 1 .. size |-> Low(s[k - 1])]
  OBVIOUS
<1>4. ASSUME NEW k \in 1 .. size PROVE b[k] = Low(s[k - 1]) /\ b[k] \in 0 .. 255
  <2>1. PICK x \in Int : x = s[k - 1]
    BY <1>2
  <2>2. Low(x) \in 0 .. 255
    BY DEF Low
  <2> QED
    BY <1>3, <2>1, <2>2
<1>5. b = ToBytes(v, size)
  BY <1>1, <1>3 DEF ToBytes, Low
<1>6. b \in Seq(0 .. 255) /\ Len(b) = size
  BY <1>3, <1>4
<1> QED
  BY <1>1, <1>4, <1>5, <1>6

(* The recursion of FromBytes, unfolded: n from the index m up. *)
TopByte(b, signed) == IF signed /\ b >= 128 THEN b - 256 ELSE b

Sums(bytes, signed, n) ==
  /\ n = [k \in 1 .. Len(bytes) |-> n[k]]
  /\ \A k \in 1 .. Len(bytes) :
       n[k] = IF k < Len(bytes) THEN 256 * n[k + 1] + bytes[k]
              ELSE TopByte(bytes[k], signed)

(* FromBytes is the first of any numbers that satisfy its recursion. *)
LEMMA FromBytesIs ==
  ASSUME NEW bytes, NEW signed, NEW g, Sums(bytes, signed, g)
  PROVE  \E n : Sums(bytes, signed, n) /\ n[1] = FromBytes(bytes, signed)
<1> DEFINE Unfolds(n) ==
      n = [k \in 1 .. Len(bytes) |->
             IF k < Len(bytes) THEN 256 * n[k + 1] + bytes[k]
             ELSE IF signed /\ bytes[k] >= 128 THEN bytes[k] - 256 ELSE bytes[k]]
<1>1. \A n : Unfolds(n) <=> Sums(bytes, signed, n)
  BY DEF Sums, TopByte
<1>2. PICK n : n = CHOOSE f : Unfolds(f)
  OBVIOUS
<1>3. Unfolds(n)
  <2> HIDE DEF Unfolds
  <2> QED
    BY <1>1, <1>2
<1>4. FromBytes(bytes, signed) = n[1]
  BY <1>2 DEF FromBytes
<1> HIDE DEF Unfolds
<1> QED
  BY <1>1, <1>3, <1>4

(* FromBytes of one byte. *)
LEMMA OneByte ==
  ASSUME NEW bytes \in Seq(Int), Len(bytes) = 1, NEW signed \in BOOLEAN, ~signed
  PROVE  FromBytes(bytes, signed) = bytes[1]
<1>1. PICK m : m = Len(bytes)
  OBVIOUS
<1> DEFINE g == [k \in 1 .. m |-> bytes[1]]
<1>2. /\ g = [k \in 1 .. m |-> g[k]]
      /\ \A k \in 1 .. m : g[k] = bytes[1] /\ k = 1 /\ ~(k < m)
  BY <1>1
<1>3. TopByte(bytes[1], signed) = bytes[1]
  BY DEF TopByte
<1> HIDE DEF g
<1>4. Sums(bytes, signed, g)
  BY <1>1, <1>2, <1>3 DEF Sums
<1>5. PICK n : Sums(bytes, signed, n) /\ n[1] = FromBytes(bytes, signed)
  BY <1>4, FromBytesIs
<1>6. 1 \in 1 .. m /\ ~(1 < m)
  BY <1>1
<1>7. n[1] = TopByte(bytes[1], signed)
  BY <1>1, <1>5, <1>6 DEF Sums
<1> QED
  BY <1>3, <1>5, <1>7

(* FromBytes of two bytes. *)
LEMMA TwoBytes ==
  ASSUME NEW bytes \in Seq(Int), Len(bytes) = 2, NEW signed \in BOOLEAN,
         NEW low, low = bytes[1], NEW high, high = bytes[2]
  PROVE  FromBytes(bytes, signed) = 256 * TopByte(high, signed) + low
<1>1. PICK t : t = TopByte(bytes[2], signed)
  OBVIOUS
<1> DEFINE g == [k \in 1 .. 2 |-> IF k = 1 THEN 256 * t + bytes[1] ELSE t]
<1>2. Sums(bytes, signed, g)
  BY <1>1 DEF Sums
<1>3. PICK n : Sums(bytes, signed, n) /\ n[1] = FromBytes(bytes, signed)
  BY <1>2, FromBytesIs
<1>4. n[1] = 256 * n[2] + bytes[1] /\ n[2] = t
  BY <1>1, <1>3 DEF Sums
<1> QED
  BY <1>1, <1>3, <1>4

(* FromBytes of eight bytes. *)
EightSums(bytes, n) ==
  n[8] = bytes[8] /\ \A k \in 1 .. 7 : n[k] = 256 * n[k + 1] + bytes[k]

LEMMA EightBytes ==
  ASSUME NEW bytes \in Seq(Int), Len(bytes) = 8, NEW signed \in BOOLEAN, ~signed
  PROVE  \E n : n[1] = FromBytes(bytes, signed) /\ EightSums(bytes, n)
<1> DEFINE v8 == bytes[8]
           v7 == 256 * v8 + bytes[7]
           v6 == 256 * v7 + bytes[6]
           v5 == 256 * v6 + bytes[5]
           v4 == 256 * v5 + bytes[4]
           v3 == 256 * v4 + bytes[3]
           v2 == 256 * v3 + bytes[2]
           v1 == 256 * v2 + bytes[1]
           g == [k \in 1 .. 8 |->
                   CASE k = 1 -> v1 [] k = 2 -> v2 [] k = 3 -> v3 [] k = 4 -> v4
                     [] k = 5 -> v5 [] k = 6 -> v6 [] k = 7 -> v7 [] k = 8 -> v8]
<1>1. /\ g[1] = v1 /\ g[2] = v2 /\ g[3] = v3 /\ g[4] = v4
      /\ g[5] = v5 /\ g[6] = v6 /\ g[7] = v7 /\ g[8] = v8
  <2> HIDE DEF v1, v2, v3, v4, v5, v6, v7, v8
  <2> QED
    OBVIOUS
<1>2. \A k \in 1 .. 8 : g[k] = IF k < 8 THEN 256 * g[k + 1] + bytes[k] ELSE bytes[k]
  <2> SUFFICES ASSUME NEW k \in 1 .. 8
               PROVE  g[k] = IF k < 8 THEN 256 * g[k + 1] + bytes[k] ELSE bytes[k]
    OBVIOUS
  <2> HIDE DEF g
  <2>1. \/ k = 1 \/ k = 2 \/ k = 3 \/ k = 4 \/ k = 5 \/ k = 6 \/ k = 7 \/ k = 8
    OBVIOUS
  <2> QED
    BY <1>1, <2>1
<1>3. PICK h : h = g
  OBVIOUS
<1>4. h = [k \in 1 .. 8 |-> h[k]]
  BY <1>3
<1>5. \A k \in 1 .. 8 : h[k] = IF k < 8 THEN 256 * h[k + 1] + bytes[k] ELSE bytes[k]
  BY <1>2, <1>3, SMTT(30)
<1> HIDE DEF g
<1>6. Sums(bytes, signed, h)
  BY <1>4, <1>5 DEF Sums, TopByte
<1>7. PICK n : Sums(bytes, signed, n) /\ n[1] = FromBytes(bytes, signed)
  BY <1>6, FromBytesIs
<1>8. \A k \in 1 .. 8 : n[k] = IF k < 8 THEN 256 * n[k + 1] + bytes[k]
                             ELSE TopByte(bytes[k], signed)
  BY <1>7 DEF Sums
<1>9. n[8] = bytes[8]
  BY <1>8 DEF TopByte
<1>10. \A k \in 1 .. 7 : n[k] = 256 * n[k + 1] + bytes[k]
  BY <1>8
<1> HIDE DEF v1, v2, v3, v4, v5, v6, v7, v8
<1>11. EightSums(bytes, n)
  BY <1>9, <1>10 DEF EightSums
<1> QED
  BY <1>7, <1>11

(* Division by 256, with its remainder. *)
LEMMA LowAndRest ==
  ASSUME NEW x \in Int
  PROVE  /\ Low(x) \in 0 .. 255 /\ Rest(x) \in Int /\ x = 256 * Rest(x) + Low(x)
         /\ x \in 0 .. 255 => Low(x) = x /\ Rest(x) = 0
         /\ x >= 0 => Rest(x) >= 0
         /\ Rest(x) = 0 => x \in 0 .. 255
<1>1. PICK q \in Int, r \in 0 .. 255 : q = x \div 256 /\ r = x % 256
  OBVIOUS
<1>2. x = 256 * q + r
  BY <1>1
<1> QED
  BY <1>1, <1>2 DEF Low, Rest

(* The same, for the prover: l is the lowest byte of x, and h the rest. *)
Parts(x, l, h) ==
  l \in 0 .. 255 /\ h \in Int /\ l = Low(x) /\ h = Rest(x) /\ x = 256 * h + l

(* Every integer has these two parts. *)
LEMMA PartsExist ==
  ASSUME NEW x \in Int
  PROVE  \E l, h : Parts(x, l, h)
BY LowAndRest DEF Parts

(* The parts of an integer are integers. *)
LEMMA IntBytes ==
  ASSUME NEW b, b \in Seq(0 .. 255)
  PROVE  b \in Seq(Int)
<1>1. PICK n \in Nat : n = Len(b)
  BY LenProperties
<1>2. b \in [1 .. n -> 0 .. 255]
  BY <1>1, LenProperties, ZenonT(30)
<1>3. b \in [1 .. n -> Int]
  <2>1. \A x \in 0 .. 255 : x \in Int
    OBVIOUS
  <2>2. b = [k \in 1 .. n |-> b[k]] /\ \A k \in 1 .. n : b[k] \in Int
    BY <1>2, <2>1
  <2> QED
    BY <2>2
<1>4. [1 .. n -> Int] \in {[1 .. m -> Int] : m \in Nat}
  OBVIOUS
<1> QED
  BY <1>3, <1>4, SeqDef

(* The bytes b are those of v, of which s has the quotients. *)
BytesFrom(b, v, size, s) ==
  /\ s = Shifted(v) /\ s[0] = v
  /\ \A k \in 0 .. 8 : s[k] \in Int
  /\ \A k \in 1 .. 8 : s[k] = Rest(s[k - 1])
  /\ \A k \in 1 .. size : b[k] = Low(s[k - 1])

(* The bytes of a number. *)
LEMMA ByteValues ==
  ASSUME NEW v \in Int, NEW size \in 1 .. 8, NEW b, b = ToBytes(v, size)
  PROVE  /\ b \in Seq(0 .. 255) /\ b \in Seq(Int) /\ Len(b) = size
         /\ BytesFrom(b, v, size, Shifted(v))
<1>1. b \in Seq(0 .. 255) /\ Len(b) = size
  BY BytesOf
<1>2. PICK s : s = Shifted(v)
  OBVIOUS
<1>3. s[0] = v /\ \A k \in 0 .. 8 : s[k] \in Int
  BY <1>2, ShiftedValues
<1>4. \A k \in 1 .. 8 : s[k] = Rest(s[k - 1])
  <2>1. \A k \in 1 .. 8 : s[k] = s[k - 1] \div 256
    BY <1>2, ShiftedValues
  <2> QED
    BY <2>1 DEF Rest
<1>5. \A k \in 1 .. size : b[k] = Low(s[k - 1])
  BY <1>2, BytesOf
<1>6. b \in Seq(Int)
  BY <1>1, IntBytes
<1>7. BytesFrom(b, v, size, s)
  BY <1>2, <1>3, <1>4, <1>5 DEF BytesFrom
<1> QED
  BY <1>1, <1>2, <1>6, <1>7

(* A byte survives its encoding. *)
LEMMA RoundTrip1 ==
  ASSUME NEW v \in 0 .. 255, NEW signed \in BOOLEAN, ~signed
  PROVE  FromBytes(ToBytes(v, 1), signed) = v
<1>1. PICK b : b = ToBytes(v, 1)
  OBVIOUS
<1>2. b \in Seq(Int) /\ Len(b) = 1 /\ BytesFrom(b, v, 1, Shifted(v))
  BY <1>1, ByteValues
<1>3. b[1] = Low(v)
  BY <1>2 DEF BytesFrom
<1>4. b[1] = v
  BY <1>2, <1>3, LowAndRest
<1> QED
  BY <1>1, <1>2, <1>4, OneByte

(* The two bytes of a number. *)
LEMMA WordBytes ==
  ASSUME NEW v \in Int, NEW b, b = ToBytes(v, 2)
  PROVE  b \in Seq(Int) /\ Len(b) = 2 /\ b[1] = Low(v) /\ b[2] = Low(Rest(v))
<1>1. b \in Seq(Int) /\ Len(b) = 2
  BY ByteValues
<1>2. PICK s : BytesFrom(b, v, 2, s)
  BY ByteValues
<1>3. b[1] = Low(s[0]) /\ b[2] = Low(s[1]) /\ s[0] = v /\ s[1] = Rest(s[0])
  BY <1>2 DEF BytesFrom
<1> QED
  BY <1>1, <1>3

WordLimit == 65536
Word == 0 .. WordLimit - 1

(* The range of a signed 16-bit number, as inequalities. *)
LEMMA ShortRange ==
  ASSUME NEW v, v \in Int16
  PROVE  v \in Int /\ -32768 <= v /\ v <= 32767
<1>1. PICK n \in Int : n = Int16Limit
  BY DEF Int16Limit
<1>2. v \in -n .. n - 1
  BY <1>1 DEF Int16
<1>3. v \in Int /\ -n <= v /\ v <= n - 1
  BY <1>2
<1>4. n = 32768
  BY <1>1 DEF Int16Limit
<1> QED
  BY <1>3, <1>4

(* The range of an unsigned 16-bit number, as inequalities. *)
LEMMA WordRange ==
  ASSUME NEW v, v \in Word
  PROVE  v \in Int /\ 0 <= v /\ v <= 65535
<1>1. PICK n \in Int : n = WordLimit
  BY DEF WordLimit
<1>2. v \in 0 .. n - 1
  BY <1>1 DEF Word
<1>3. v \in Int /\ 0 <= v /\ v <= n - 1
  BY <1>2
<1>4. n = 65536
  BY <1>1 DEF WordLimit
<1> QED
  BY <1>3, <1>4

(* The upper byte of a 16-bit number, and its sign. *)
LEMMA HighByte ==
  ASSUME NEW v \in Int, NEW l, NEW h, Parts(v, l, h), NEW t, NEW u, Parts(h, t, u)
  PROVE  /\ v \in Int16 => h = IF t >= 128 THEN t - 256 ELSE t
         /\ v \in Word => h = t
<1>1. /\ l \in 0 .. 255 /\ h \in Int /\ v = 256 * h + l
      /\ t \in 0 .. 255 /\ u \in Int /\ h = 256 * u + t
  BY DEF Parts
<1>2. ASSUME v \in Int16 PROVE h = IF t >= 128 THEN t - 256 ELSE t
  <2>1. -32768 <= v /\ v <= 32767
    BY <1>2, ShortRange
  <2>2. -128 <= h /\ h <= 127
    BY <1>1, <2>1
  <2>3. -1 <= u /\ u <= 0
    BY <1>1, <2>2
  <2> QED
    BY <1>1, <2>2, <2>3
<1>3. ASSUME v \in Word PROVE h = t
  <2>1. 0 <= v /\ v <= 65535
    BY <1>3, WordRange
  <2>2. 0 <= h /\ h <= 255
    BY <1>1, <2>1
  <2>3. u = 0
    BY <1>1, <2>2
  <2> QED
    BY <1>1, <2>3
<1> QED
  BY <1>2, <1>3

WordValue(high, signed, low) == 256 * TopByte(high, signed) + low

(* What is read from the two bytes of a number. *)
LEMMA WordRead ==
  ASSUME NEW v \in Int, NEW signed \in BOOLEAN,
         NEW l, NEW h, Parts(v, l, h), NEW t, NEW u, Parts(h, t, u)
  PROVE  FromBytes(ToBytes(v, 2), signed) = WordValue(t, signed, l)
<1>1. PICK b : b = ToBytes(v, 2)
  OBVIOUS
<1>2. b \in Seq(Int) /\ Len(b) = 2 /\ b[1] = Low(v) /\ b[2] = Low(Rest(v))
  BY <1>1, WordBytes
<1>3. l = b[1] /\ t = b[2]
  BY <1>2 DEF Parts
<1>4. b \in Seq(Int) /\ Len(b) = 2
  BY <1>2
<1>5. FromBytes(b, signed) = WordValue(t, signed, l)
  BY <1>3, <1>4, TwoBytes DEF WordValue
<1> QED
  BY <1>1, <1>5, Zenon

(* A signed 16-bit number survives its encoding. *)
LEMMA SignedWord ==
  ASSUME NEW v \in Int, v \in Int16
  PROVE  FromBytes(ToBytes(v, 2), TRUE) = v
<1>1. PICK l, h : Parts(v, l, h)
  BY PartsExist, Zenon
<1>2. PICK t, u : Parts(h, t, u)
  BY <1>1, PartsExist DEF Parts
<1>3. FromBytes(ToBytes(v, 2), TRUE) = WordValue(t, TRUE, l)
  BY <1>1, <1>2, WordRead, Zenon
<1>4. TopByte(t, TRUE) = h
  <2>1. h = IF t >= 128 THEN t - 256 ELSE t
    BY <1>1, <1>2, HighByte
  <2> QED
    BY <2>1 DEF TopByte
<1>5. l \in Int /\ h \in Int /\ v = 256 * h + l
  BY <1>1 DEF Parts
<1>6. FromBytes(ToBytes(v, 2), TRUE) = 256 * h + l
  BY <1>3, <1>4 DEF WordValue
<1> QED
  BY <1>5, <1>6

(* An unsigned 16-bit number survives its encoding. *)
LEMMA UnsignedWord ==
  ASSUME NEW v \in Int, v \in Word
  PROVE  FromBytes(ToBytes(v, 2), FALSE) = v
<1>1. PICK l, h : Parts(v, l, h)
  BY PartsExist, Zenon
<1>2. PICK t, u : Parts(h, t, u)
  BY <1>1, PartsExist DEF Parts
<1>3. FromBytes(ToBytes(v, 2), FALSE) = WordValue(t, FALSE, l)
  BY <1>1, <1>2, WordRead, Zenon
<1>4. TopByte(t, FALSE) = h
  <2>1. h = t
    BY <1>1, <1>2, HighByte
  <2> QED
    BY <2>1 DEF TopByte
<1>5. l \in Int /\ h \in Int /\ v = 256 * h + l
  BY <1>1 DEF Parts
<1>6. FromBytes(ToBytes(v, 2), FALSE) = 256 * h + l
  BY <1>3, <1>4 DEF WordValue
<1> QED
  BY <1>5, <1>6

(* A number of at most eight bytes. *)
LEMMA RoundTrip8 ==
  ASSUME NEW v \in Nat, Shifted(v)[8] = 0, NEW signed \in BOOLEAN, ~signed
  PROVE  FromBytes(ToBytes(v, 8), signed) = v
<1>1. PICK b : b = ToBytes(v, 8)
  OBVIOUS
<1>2. PICK s : /\ s = Shifted(v) /\ s[0] = v
               /\ \A k \in 0 .. 8 : s[k] \in Int
               /\ \A k \in 1 .. 8 : s[k] = Rest(s[k - 1])
               /\ \A k \in 1 .. 8 : b[k] = Low(s[k - 1])
  <2>1. BytesFrom(b, v, 8, Shifted(v))
    BY <1>1, ByteValues
  <2> QED
    BY <2>1 DEF BytesFrom
<1>3. b \in Seq(Int) /\ Len(b) = 8
  BY <1>1, ByteValues
<1>4. PICK n : n[1] = FromBytes(b, signed) /\ EightSums(b, n)
  BY <1>3, EightBytes
<1>5. n[8] = s[7]
  <2>1. PICK x \in Int : x = s[7]
    BY <1>2
  <2>2. Rest(x) = 0 /\ b[8] = Low(x)
    BY <1>2, <2>1
  <2>3. Low(x) = x
    BY <2>2, LowAndRest
  <2> QED
    BY <1>4, <2>1, <2>2, <2>3 DEF EightSums
<1>6. ASSUME NEW k \in 1 .. 7, n[k + 1] = s[k] PROVE n[k] = s[k - 1]
  <2>1. PICK x \in Int : x = s[k - 1]
    BY <1>2
  <2>2. s[k] = Rest(x) /\ b[k] = Low(x)
    BY <1>2, <2>1
  <2>3. x = 256 * Rest(x) + Low(x)
    BY LowAndRest
  <2>4. n[k] = 256 * Rest(x) + Low(x)
    BY <1>4, <1>6, <2>2 DEF EightSums
  <2> QED
    BY <2>1, <2>3, <2>4
<1>7. n[7] = s[6] BY <1>5, <1>6
<1>8. n[6] = s[5] BY <1>6, <1>7
<1>9. n[5] = s[4] BY <1>6, <1>8
<1>10. n[4] = s[3] BY <1>6, <1>9
<1>11. n[3] = s[2] BY <1>6, <1>10
<1>12. n[2] = s[1] BY <1>6, <1>11
<1>13. n[1] = s[0] BY <1>6, <1>12
<1> QED
  BY <1>1, <1>2, <1>4, <1>13

-------------------------------------------------------------------------------
(* The bits of a number *)

(* One bit of a number: what is below it, the bit, and what is above it.   *)
LEMMA DivideUnique ==
  ASSUME NEW p \in Nat \ {0}, NEW low \in 0 .. p - 1, NEW h \in Int
  PROVE  (p * h + low) \div p = h
<1>1. PICK n \in Int : n = p * h + low
  OBVIOUS
<1>2. PICK q \in Int, r \in 0 .. p - 1 : q = n \div p /\ n = p * q + r
  BY DivisionLemma
<1>3. p * q - p * h = low - r
  <2>1. PICK x \in Int : x = p * q
    OBVIOUS
  <2>2. PICK y \in Int : y = p * h
    OBVIOUS
  <2>3. n = x + r
    BY <1>2, <2>1
  <2>4. n = y + low
    BY <1>1, <2>2
  <2>5. x - y = low - r
    BY <2>3, <2>4
  <2> QED
    BY <2>1, <2>2, <2>5
<1>4. p * (q - h) = p * q - p * h /\ p * (h - q) = p * h - p * q
  OBVIOUS
<1>5. CASE low >= r
  <2>1. p * (q - h) \in 0 .. p - 1
    BY <1>3, <1>4, <1>5
  <2>2. q - h = 0
    BY <2>1, MultipleBelow
  <2> QED
    BY <1>1, <1>2, <2>2
<1>6. CASE low < r
  <2>1. p * (h - q) \in 0 .. p - 1
    BY <1>3, <1>4, <1>6
  <2>2. h - q = 0
    BY <2>1, MultipleBelow
  <2> QED
    BY <1>1, <1>2, <2>2
<1> QED
  BY <1>5, <1>6

(* Twice a number and a bit, halved again. *)
LEMMA Halves ==
  ASSUME NEW p \in Nat \ {0}, NEW n \in Nat, NEW m \in Nat, NEW c \in 0 .. 1,
         NEW h \in Nat, h = n \div p, h = 2 * m + c
  PROVE  n \div (2 * p) = m
<1>1. PICK d \in Int, r \in 0 .. p - 1 : d = n \div p /\ n = p * d + r
  <2>1. PICK z \in Int : z = n
    OBVIOUS
  <2>2. PICK d \in Int, r \in 0 .. p - 1 : d = z \div p /\ z = p * d + r
    BY DivisionLemma
  <2> QED
    BY <2>1, <2>2
<1>2. n = p * h + r
  <2>1. d = h
    BY <1>1
  <2> QED
    BY <1>1, <2>1
<1>3. p * h = (2 * p) * m + p * c
  OBVIOUS
<1>4. PICK x \in Int : x = p * c /\ x \in 0 .. p
  <2>1. CASE c = 0
    BY <2>1
  <2>2. CASE c = 1
    BY <2>2
  <2> QED
    BY <2>1, <2>2
<1>5. PICK y \in Int : y = (2 * p) * m
  OBVIOUS
<1>6. PICK low \in 0 .. 2 * p - 1 : low = x + r
  BY <1>4
<1>7. n = (2 * p) * m + low
  BY <1>2, <1>3, <1>4, <1>5, <1>6
<1> QED
  BY <1>7, DivideUnique

(* Down from 16, one by one. *)
Descends(S) == \A k \in 0 .. 15 : k + 1 \in S => k \in S

(* What goes from 16 down to every index holds at all of them. *)
LEMMA CountDown ==
  ASSUME NEW S, 16 \in S, Descends(S)
  PROVE  \A k \in 0 .. 16 : k \in S
<1>1. PICK T : T = {m \in Nat : m <= 16 => 16 - m \in S}
  OBVIOUS
<1>2. 0 \in T
  BY <1>1
<1>3. ASSUME NEW m \in Nat, m \in T PROVE m + 1 \in T
  <2>1. CASE m + 1 <= 16
    <3>1. PICK k \in 0 .. 15 : k = 16 - (m + 1) /\ k + 1 = 16 - m
      BY <2>1
    <3>2. k + 1 \in S
      BY <1>1, <1>3, <2>1, <3>1
    <3>3. k \in S
      BY <3>2 DEF Descends
    <3> QED
      BY <1>1, <3>1, <3>3
  <2>2. CASE ~(m + 1 <= 16)
    BY <1>1, <2>2
  <2> QED
    BY <2>1, <2>2
<1>4. \A m \in Nat : m \in T
  BY <1>2, <1>3, SetInduction
<1>5. ASSUME NEW k \in 0 .. 16 PROVE k \in S
  <2>1. PICK m \in Nat : m = 16 - k /\ k = 16 - m /\ m <= 16
    OBVIOUS
  <2>2. m \in T
    BY <1>4
  <2> QED
    BY <1>1, <2>1, <2>2
<1> QED
  BY <1>5

(* The recursion of FromBits: n from the index m up. *)
BitOf(bits, k) == IF k \in bits THEN 1 ELSE 0

BitSums(bits, m, n) ==
  /\ n \in [m .. 16 -> Nat]
  /\ \A k \in m .. 16 : n[k] = IF k = 16 THEN 0 ELSE 2 * n[k + 1] + BitOf(bits, k)

(* The numbers of the recursion, one index further down. *)
LEMMA BitSumsExtend ==
  ASSUME NEW bits, NEW m \in 0 .. 15, NEW n, BitSums(bits, m + 1, n)
  PROVE  \E n1 : BitSums(bits, m, n1)
<1> DEFINE n1 == [k \in m .. 16 |-> IF k = m THEN 2 * n[m + 1] + BitOf(bits, m)
                                    ELSE n[k]]
<1>1. BitOf(bits, m) \in 0 .. 1
  BY DEF BitOf
<1>2. n[m + 1] \in Nat
  BY DEF BitSums
<1>3. ASSUME NEW k \in m .. 16, k # m PROVE n[k] \in Nat
  <2>1. k \in m + 1 .. 16
    BY <1>3
  <2> QED
    BY <2>1 DEF BitSums
<1>4. n1 \in [m .. 16 -> Nat]
  BY <1>1, <1>2, <1>3
<1>5. ASSUME NEW k \in m .. 16
      PROVE  n1[k] = IF k = 16 THEN 0 ELSE 2 * n1[k + 1] + BitOf(bits, k)
  <2>1. CASE k = m
    BY <2>1
  <2>2. CASE k # m
    <3>1. k \in m + 1 .. 16 /\ n1[k] = n[k]
      BY <2>2
    <3>2. k # 16 => k + 1 \in m .. 16 /\ n1[k + 1] = n[k + 1]
      BY <2>2
    <3> HIDE DEF n1
    <3> QED
      BY <3>1, <3>2 DEF BitSums
  <2> QED
    BY <2>1, <2>2
<1> HIDE DEF n1
<1> QED
  BY <1>4, <1>5 DEF BitSums

(* There are numbers that satisfy the recursion of FromBits. *)
LEMMA BitSumsExist == \A bits : \E n : BitSums(bits, 0, n)
<1> TAKE bits
<1> DEFINE E(m) == \E n : BitSums(bits, m, n)
<1>1. E(16)
  <2> DEFINE n == [k \in 16 .. 16 |-> 0]
  <2>1. BitSums(bits, 16, n)
    BY DEF BitSums
  <2> QED
    BY <2>1
<1>2. ASSUME NEW m \in 0 .. 15, E(m + 1) PROVE E(m)
  BY <1>2, BitSumsExtend
<1> HIDE DEF E
<1>3. PICK S : S = {m \in 0 .. 16 : E(m)}
  OBVIOUS
<1>4. 16 \in S /\ Descends(S)
  <2>1. 16 \in S
    BY <1>1, <1>3
  <2>2. ASSUME NEW k \in 0 .. 15, k + 1 \in S PROVE k \in S
    <3>1. E(k + 1)
      BY <1>3, <2>2
    <3>2. E(k)
      BY <1>2, <3>1
    <3> QED
      BY <1>3, <3>2
  <2> QED
    BY <2>1, <2>2 DEF Descends
<1>5. 0 \in S
  BY <1>4, CountDown
<1> QED
  BY <1>3, <1>5 DEF E

(* FromBits satisfies its recursion. *)
LEMMA FromBitsValue ==
  ASSUME NEW bits
  PROVE  \E n : BitSums(bits, 0, n) /\ n[0] = FromBits(bits)
<1> DEFINE Unfolds(n) ==
      n = [k \in 0 .. 16 |->
             IF k = 16 THEN 0 ELSE 2 * n[k + 1] + (IF k \in bits THEN 1 ELSE 0)]
<1>1. PICK g : BitSums(bits, 0, g)
  BY BitSumsExist
<1>2. Unfolds(g)
  <2>1. g = [k \in 0 .. 16 |-> g[k]]
    BY <1>1 DEF BitSums
  <2>2. \A k \in 0 .. 16 :
          g[k] = IF k = 16 THEN 0 ELSE 2 * g[k + 1] + (IF k \in bits THEN 1 ELSE 0)
    BY <1>1 DEF BitSums, BitOf
  <2> QED
    BY <2>1, <2>2
<1>3. PICK n : n = CHOOSE f : Unfolds(f)
  OBVIOUS
<1>4. Unfolds(n)
  <2> HIDE DEF Unfolds
  <2> QED
    BY <1>2, <1>3
<1>5. FromBits(bits) = n[0]
  BY <1>3 DEF FromBits
<1>6. /\ n = [k \in 0 .. 16 |-> n[k]]
      /\ \A k \in 0 .. 16 :
           n[k] = IF k = 16 THEN 0 ELSE 2 * n[k + 1] + BitOf(bits, k)
  BY <1>4 DEF BitOf
<1>7. \A k \in 0 .. 16 : n[k] \in Nat
  <2>1. \A k : BitOf(bits, k) \in Nat
    BY DEF BitOf
  <2>2. PICK S : S = {k \in 0 .. 16 : n[k] \in Nat}
    OBVIOUS
  <2>3. 16 \in S
    BY <1>6, <2>2
  <2>4. Descends(S)
    <3> SUFFICES ASSUME NEW k \in 0 .. 15, k + 1 \in S PROVE k \in S
      BY DEF Descends
    <3>1. n[k] = 2 * n[k + 1] + BitOf(bits, k)
      BY <1>6
    <3> QED
      BY <2>1, <2>2, <3>1
  <2>5. \A k \in 0 .. 16 : k \in S
    BY <2>3, <2>4, CountDown
  <2> QED
    BY <2>2, <2>5
<1> HIDE DEF Unfolds
<1>8. BitSums(bits, 0, n)
  BY <1>6, <1>7 DEF BitSums
<1> QED
  BY <1>5, <1>8

Quotient(n, p) == n \div p

(* A number given by inequalities is an unsigned 16-bit number. *)
LEMMA IsWord ==
  ASSUME NEW v \in Nat, v <= 65535
  PROVE  v \in Word
<1>1. PICK n \in Int : n = WordLimit
  BY DEF WordLimit
<1>2. v <= n - 1
  <2>1. n = 65536
    BY <1>1 DEF WordLimit
  <2> QED
    BY <2>1
<1>3. v \in 0 .. n - 1
  BY <1>2
<1> QED
  BY <1>1, <1>3 DEF Word

(* One more factor of two. *)
LEMMA HalfQuotient ==
  ASSUME NEW p \in Nat \ {0}, NEW n \in Nat, NEW m \in Nat, NEW c \in 0 .. 1,
         Quotient(n, p) = 2 * m + c
  PROVE  Quotient(n, 2 * p) = m
<1>1. PICK h \in Nat : h = 2 * m + c
  OBVIOUS
<1>2. h = n \div p
  BY <1>1 DEF Quotient
<1>3. n \div (2 * p) = m
  BY <1>1, <1>2, Halves
<1> QED
  BY <1>3 DEF Quotient

(* The lowest bit of twice a number and a bit. *)
LEMMA Odd ==
  ASSUME NEW m \in Nat, NEW c \in 0 .. 1, NEW h \in Nat, h = 2 * m + c
  PROVE  (h % 2) = c
<1>1. CASE c = 0
  BY <1>1
<1>2. CASE c = 1
  BY <1>2
<1> QED
  BY <1>1, <1>2

(* The powers of two that the bits stand for. *)
LEMMA Powers ==
  /\ 2 ^ 0 = 1 /\ 2 ^ 1 = 2 /\ 2 ^ 2 = 4 /\ 2 ^ 3 = 8 /\ 2 ^ 4 = 16 /\ 2 ^ 5 = 32
  /\ 2 ^ 6 = 64 /\ 2 ^ 7 = 128 /\ 2 ^ 8 = 256 /\ 2 ^ 9 = 512 /\ 2 ^ 10 = 1024
  /\ 2 ^ 11 = 2048 /\ 2 ^ 12 = 4096 /\ 2 ^ 13 = 8192
BY SMT

(* What is left of a number of bits above each of them. *)
LEMMA BitQuotients ==
  ASSUME NEW bits, NEW n, BitSums(bits, 0, n), NEW N \in Nat, N = n[0]
  PROVE  \A k \in 0 .. 13 : Quotient(N, 2 ^ k) = n[k]
<1>1. ASSUME NEW k \in 0 .. 14, NEW p \in Nat \ {0}, Quotient(N, p) = n[k]
      PROVE  Quotient(N, 2 * p) = n[k + 1]
  <2>1. n[k + 1] \in Nat /\ n[k] = 2 * n[k + 1] + BitOf(bits, k)
    BY DEF BitSums
  <2>2. PICK m \in Nat, c \in 0 .. 1 : m = n[k + 1] /\ c = BitOf(bits, k)
    BY <2>1 DEF BitOf
  <2>3. Quotient(N, p) = 2 * m + c
    BY <1>1, <2>1, <2>2
  <2> QED
    BY <2>2, <2>3, HalfQuotient
<1>2. Quotient(N, 1) = n[0]
  BY DEF Quotient
<1>3. Quotient(N, 2) = n[1]
  BY <1>1, <1>2
<1>4. Quotient(N, 4) = n[2]
  BY <1>1, <1>3
<1>5. Quotient(N, 8) = n[3]
  BY <1>1, <1>4
<1>6. Quotient(N, 16) = n[4]
  BY <1>1, <1>5
<1>7. Quotient(N, 32) = n[5]
  BY <1>1, <1>6
<1>8. Quotient(N, 64) = n[6]
  BY <1>1, <1>7
<1>9. Quotient(N, 128) = n[7]
  BY <1>1, <1>8
<1>10. Quotient(N, 256) = n[8]
  BY <1>1, <1>9
<1>11. Quotient(N, 512) = n[9]
  BY <1>1, <1>10
<1>12. Quotient(N, 1024) = n[10]
  BY <1>1, <1>11
<1>13. Quotient(N, 2048) = n[11]
  BY <1>1, <1>12
<1>14. Quotient(N, 4096) = n[12]
  BY <1>1, <1>13
<1>15. Quotient(N, 8192) = n[13]
  BY <1>1, <1>14
<1> DEFINE P(k) == Quotient(N, 2 ^ k) = n[k]
<1>16. P(0) /\ P(1) /\ P(2) /\ P(3) /\ P(4) /\ P(5) /\ P(6) /\ P(7) /\ P(8) /\ P(9)
       /\ P(10) /\ P(11) /\ P(12) /\ P(13)
  BY <1>2, <1>3, <1>4, <1>5, <1>6, <1>7, <1>8, <1>9, <1>10, <1>11, <1>12, <1>13,
     <1>14, <1>15, Powers
<1>17. \A k \in 0 .. 13 : P(k)
  <2> HIDE DEF P
  <2>1. \A k \in 0 .. 13 :
          \/ k = 0 \/ k = 1 \/ k = 2 \/ k = 3 \/ k = 4 \/ k = 5 \/ k = 6 \/ k = 7
          \/ k = 8 \/ k = 9 \/ k = 10 \/ k = 11 \/ k = 12 \/ k = 13
    OBVIOUS
  <2> QED
    BY <1>16, <2>1
<1> QED
  BY <1>17

(* The bits of a number put together from bits are those bits, and a       *)
(* number of eight or sixteen bits is below 2^8 or 2^16.                   *)
LEMMA BitsOf ==
  ASSUME NEW bits
  PROVE  /\ FromBits(bits) \in Nat
         /\ \A b \in 0 .. 13 : HasBit(FromBits(bits), b) <=> b \in bits
<1>1. PICK n : BitSums(bits, 0, n) /\ n[0] = FromBits(bits)
  BY FromBitsValue
<1>2. PICK N \in Nat : N = n[0]
  BY <1>1 DEF BitSums
<1>3. ASSUME NEW b \in 0 .. 13
      PROVE  HasBit(N, b) <=> b \in bits
  <2>1. n[b + 1] \in Nat /\ n[b] = 2 * n[b + 1] + BitOf(bits, b) /\ n[b] \in Nat
    BY <1>1 DEF BitSums
  <2>2. PICK m \in Nat, c \in 0 .. 1, h \in Nat :
          m = n[b + 1] /\ c = BitOf(bits, b) /\ h = n[b] /\ h = 2 * m + c
    BY <2>1 DEF BitOf
  <2>3. (h % 2) = c
    BY <2>2, Odd
  <2>4. Quotient(N, 2 ^ b) = h
    BY <1>1, <1>2, <2>2, BitQuotients
  <2>5. HasBit(N, b) <=> (h % 2) = 1
    BY <2>4 DEF HasBit, Quotient
  <2>6. c = 1 <=> b \in bits
    BY <2>2 DEF BitOf
  <2> QED
    BY <2>3, <2>5, <2>6
<1> QED
  BY <1>1, <1>2, <1>3

(* A number of eight bits is a byte. *)
LEMMA ByteOfBits ==
  ASSUME NEW bits, bits \subseteq 0 .. 7
  PROVE  FromBits(bits) \in 0 .. 255
<1>1. PICK n : BitSums(bits, 0, n) /\ n[0] = FromBits(bits)
  BY FromBitsValue
<1>2. /\ n[16] = 0
      /\ \A k \in 0 .. 15 : n[k] = 2 * n[k + 1] + BitOf(bits, k)
  BY <1>1 DEF BitSums
<1>3. \A k \in 8 .. 15 : BitOf(bits, k) = 0
  BY DEF BitOf
<1>4. \A k : BitOf(bits, k) \in 0 .. 1
  BY DEF BitOf
<1>5. \A k \in 8 .. 15 : n[k + 1] = 0 => n[k] = 0
  BY <1>2, <1>3
<1>6. n[15] = 0 BY <1>2, <1>5
<1>7. n[14] = 0 BY <1>6, <1>5
<1>8. n[13] = 0 BY <1>7, <1>5
<1>9. n[12] = 0 BY <1>8, <1>5
<1>10. n[11] = 0 BY <1>9, <1>5
<1>11. n[10] = 0 BY <1>10, <1>5
<1>12. n[9] = 0 BY <1>11, <1>5
<1>13. n[8] = 0 BY <1>12, <1>5
<1>14. ASSUME NEW k \in 0 .. 15, NEW top \in Nat, n[k + 1] <= top
       PROVE  n[k] <= 2 * top + 1
  <2>1. n[k + 1] \in Nat /\ n[k] = 2 * n[k + 1] + BitOf(bits, k)
    BY <1>1 DEF BitSums
  <2>2. PICK m \in Nat, c \in 0 .. 1 : m = n[k + 1] /\ c = BitOf(bits, k)
    BY <2>1, <1>4
  <2> QED
    BY <1>14, <2>1, <2>2
<1>15. n[8] <= 0
  BY <1>13
<1>16. n[7] <= 1 BY <1>15, <1>14
<1>17. n[6] <= 3 BY <1>16, <1>14
<1>18. n[5] <= 7 BY <1>17, <1>14
<1>19. n[4] <= 15 BY <1>18, <1>14
<1>20. n[3] <= 31 BY <1>19, <1>14
<1>21. n[2] <= 63 BY <1>20, <1>14
<1>22. n[1] <= 127 BY <1>21, <1>14
<1>23. n[0] <= 255 BY <1>22, <1>14
<1>24. n[0] \in Nat
  BY <1>1 DEF BitSums
<1> QED
  BY <1>1, <1>23, <1>24

(* A number of sixteen bits has two bytes. *)
LEMMA WordOfBits ==
  ASSUME NEW bits
  PROVE  FromBits(bits) \in Word
<1>1. PICK n : BitSums(bits, 0, n) /\ n[0] = FromBits(bits)
  BY FromBitsValue
<1>2. \A k : BitOf(bits, k) \in 0 .. 1
  BY DEF BitOf
<1>3. ASSUME NEW k \in 0 .. 15, NEW top \in Nat, n[k + 1] <= top
      PROVE  n[k] <= 2 * top + 1
  <2>1. n[k + 1] \in Nat /\ n[k] = 2 * n[k + 1] + BitOf(bits, k)
    BY <1>1 DEF BitSums
  <2>2. PICK m \in Nat, c \in 0 .. 1 : m = n[k + 1] /\ c = BitOf(bits, k)
    BY <1>2, <2>1
  <2> QED
    BY <1>3, <2>1, <2>2
<1>4. n[16] <= 0
  BY <1>1 DEF BitSums
<1>5. n[15] <= 1 BY <1>4, <1>3
<1>6. n[14] <= 3 BY <1>5, <1>3
<1>7. n[13] <= 7 BY <1>6, <1>3
<1>8. n[12] <= 15 BY <1>7, <1>3
<1>9. n[11] <= 31 BY <1>8, <1>3
<1>10. n[10] <= 63 BY <1>9, <1>3
<1>11. n[9] <= 127 BY <1>10, <1>3
<1>12. n[8] <= 255 BY <1>11, <1>3
<1>13. n[7] <= 511 BY <1>12, <1>3
<1>14. n[6] <= 1023 BY <1>13, <1>3
<1>15. n[5] <= 2047 BY <1>14, <1>3
<1>16. n[4] <= 4095 BY <1>15, <1>3
<1>17. n[3] <= 8191 BY <1>16, <1>3
<1>18. n[2] <= 16383 BY <1>17, <1>3
<1>19. n[1] <= 32767 BY <1>18, <1>3
<1>20. n[0] <= 65535 BY <1>19, <1>3
<1>30. n[0] \in Nat
  BY <1>1 DEF BitSums
<1>31. PICK m \in Nat : m = n[0] /\ m <= 65535
  BY <1>20, <1>30
<1>32. m \in Word
  BY <1>31, IsWord
<1> QED
  BY <1>1, <1>31, <1>32

-------------------------------------------------------------------------------
(* The bytes of a packet *)

Bytes(w, n) == w \in Seq(0 .. 255) /\ n \in Nat /\ Len(w) = n

(* The sequence w has the piece p from place a on. *)
Has(w, a, p, n) ==
  a \in Nat \ {0} /\ Bytes(p, n) /\ \A i \in 1 .. n : w[a + i - 1] = p[i]

(* What follows, to the end of y, is p. *)
Joins(y, w, m, p, n) ==
  /\ Bytes(y, m + n)
  /\ \A i \in 1 .. m : y[i] = w[i]
  /\ Has(y, m + 1, p, n)

(* A piece appended is at the end. *)
LEMMA Appended ==
  ASSUME NEW w, NEW p, NEW m, NEW n, Bytes(w, m), Bytes(p, n)
  PROVE  Joins(w \o p, w, m, p, n)
<1>1. w \in Seq(0 .. 255) /\ p \in Seq(0 .. 255) /\ Len(w) = m /\ Len(p) = n
      /\ m \in Nat /\ n \in Nat
  BY DEF Bytes
<1>2. PICK y : y = w \o p
  OBVIOUS
<1>3. y \in Seq(0 .. 255) /\ Len(y) = Len(w) + Len(p)
  BY <1>1, <1>2, ConcatProperties, ZenonT(30)
<1>4. \A i \in 1 .. Len(w) + Len(p) : y[i] = IF i <= Len(w) THEN w[i] ELSE p[i - Len(w)]
  BY <1>1, <1>2, ConcatProperties, ZenonT(30)
<1>5. Len(y) = m + n /\ \A i \in 1 .. m + n : y[i] = IF i <= m THEN w[i] ELSE p[i - m]
  BY <1>1, <1>3, <1>4
<1>6. \A i \in 1 .. m : y[i] = w[i]
  BY <1>1, <1>5
<1>7. ASSUME NEW i \in 1 .. n PROVE y[m + 1 + i - 1] = p[i]
  <2>1. PICK j \in Int : j = m + 1 + i - 1
    BY <1>1
  <2>2. j \in 1 .. m + n /\ ~(j <= m) /\ j - m = i
    BY <1>1, <2>1
  <2> QED
    BY <1>5, <2>1, <2>2
<1>8. m + 1 \in Nat \ {0} /\ m + n \in Nat
  BY <1>1
<1> QED
  BY <1>1, <1>2, <1>3, <1>5, <1>6, <1>7, <1>8 DEF Bytes, Has, Joins

(* A piece stays where it is when another is appended. *)
LEMMA StillHas ==
  ASSUME NEW w, NEW p, NEW m, NEW n, Bytes(w, m), NEW y, Joins(y, w, m, p, n),
         NEW a, NEW q, NEW l, Has(w, a, q, l), a + l - 1 <= m
  PROVE  Has(y, a, q, l)
<1>1. m \in Nat /\ a \in Nat \ {0} /\ l \in Nat /\ Bytes(q, l)
  BY DEF Bytes, Has
<1>2. \A i \in 1 .. m : y[i] = w[i]
  BY DEF Joins
<1>3. ASSUME NEW i \in 1 .. l PROVE y[a + i - 1] = q[i]
  <2>1. PICK j \in Int : j = a + i - 1
    BY <1>1
  <2>2. j \in 1 .. m
    BY <1>1, <2>1
  <2>3. w[j] = q[i]
    BY <2>1 DEF Has
  <2> QED
    BY <1>2, <2>1, <2>2, <2>3
<1> QED
  BY <1>1, <1>3 DEF Has

(* The piece is what SubSeq cuts out at its place. *)
LEMMA CutOut ==
  ASSUME NEW w, NEW a, NEW q, NEW l \in Nat \ {0}, NEW b \in Int, Has(w, a, q, l),
         b = a + l - 1
  PROVE  SubSeq(w, a, b) = q
<1>1. /\ a \in Nat \ {0} /\ l \in Nat /\ q \in Seq(0 .. 255) /\ Len(q) = l
      /\ \A i \in 1 .. l : w[a + i - 1] = q[i]
  BY DEF Has, Bytes
<1>2. \A i \in 1 .. l : q[i] \in 0 .. 255
  BY <1>1, ElementOfSeq
<1>3. ASSUME NEW i \in a .. b PROVE w[i] \in 0 .. 255
  <2>1. PICK k \in 1 .. l : a + k - 1 = i
    <3>1. i - a + 1 \in 1 .. l /\ a + (i - a + 1) - 1 = i
      BY <1>1
    <3> QED
      BY <3>1
  <2> QED
    BY <1>1, <1>2, <2>1
<1>4. PICK u : u = SubSeq(w, a, b)
  OBVIOUS
<1>5. a \in Int /\ a <= b /\ b - a + 1 = l
  BY <1>1
<1>6. u \in Seq(0 .. 255) /\ Len(u) = l
  BY <1>3, <1>4, <1>5, SubSeqProperties
<1>7. \A i \in 1 .. l : u[i] = w[a + i - 1]
  <2>1. \A i \in 1 .. b - a + 1 : u[i] = w[a + i - 1]
    BY <1>3, <1>4, <1>5, SubSeqProperties
  <2> QED
    BY <1>5, <2>1
<1>8. \A i \in 1 .. l : u[i] = q[i]
  BY <1>1, <1>7
<1>9. u = [i \in 1 .. l |-> u[i]]
  BY <1>6, LenProperties
<1>10. q = [i \in 1 .. l |-> q[i]]
  BY <1>1, LenProperties
<1>11. u = q
  BY <1>8, <1>9, <1>10
<1> QED
  BY <1>4, <1>11

(* The bytes of a number are a piece. *)
LEMMA NumberBytes ==
  ASSUME NEW v \in Int, NEW n \in 1 .. 8
  PROVE  Bytes(ToBytes(v, n), n)
<1>1. ToBytes(v, n) \in Seq(0 .. 255) /\ Len(ToBytes(v, n)) = n
  BY BytesOf
<1>2. n \in Nat
  OBVIOUS
<1> QED
  BY <1>1, <1>2 DEF Bytes

(* The pieces of struct rumble_input, each in its place. *)
StructPieces(w, inp) ==
  /\ Has(w, 1, ToBytes(inp.buttons, 2), 2)
  /\ Has(w, 3, ToBytes(inp.lt, 1), 1)
  /\ Has(w, 4, ToBytes(inp.rt, 1), 1)
  /\ Has(w, 5, ToBytes(inp.lx, 2), 2)
  /\ Has(w, 7, ToBytes(inp.ly, 2), 2)
  /\ Has(w, 9, ToBytes(inp.rx, 2), 2)
  /\ Has(w, 11, ToBytes(inp.ry, 2), 2)
  /\ Has(w, 13, ToBytes(inp._pad, 2), 2)
  /\ Has(w, 15, ToBytes(inp.timestamp_us, 8), 8)

(* Every field of struct rumble_input is in its place in its bytes. *)
LEMMA StructLayout ==
  ASSUME NEW inp,
         inp.buttons \in Int, inp.lt \in Int, inp.rt \in Int, inp.lx \in Int,
         inp.ly \in Int, inp.rx \in Int, inp.ry \in Int, inp._pad \in Int,
         inp.timestamp_us \in Int
  PROVE  Bytes(StructBytes(inp), 22) /\ StructPieces(StructBytes(inp), inp)
<1> DEFINE p1 == ToBytes(inp.buttons, 2)
           p2 == ToBytes(inp.lt, 1)
           p3 == ToBytes(inp.rt, 1)
           p4 == ToBytes(inp.lx, 2)
           p5 == ToBytes(inp.ly, 2)
           p6 == ToBytes(inp.rx, 2)
           p7 == ToBytes(inp.ry, 2)
           p8 == ToBytes(inp._pad, 2)
           p9 == ToBytes(inp.timestamp_us, 8)
           w2 == p1 \o p2
           w3 == w2 \o p3
           w4 == w3 \o p4
           w5 == w4 \o p5
           w6 == w5 \o p6
           w7 == w6 \o p7
           w8 == w7 \o p8
           w9 == w8 \o p9
<1>1. /\ Bytes(p1, 2)
      /\ Bytes(p2, 1)
      /\ Bytes(p3, 1)
      /\ Bytes(p4, 2)
      /\ Bytes(p5, 2)
      /\ Bytes(p6, 2)
      /\ Bytes(p7, 2)
      /\ Bytes(p8, 2)
      /\ Bytes(p9, 8)
  BY NumberBytes
<1>2. StructBytes(inp) = w9
  BY DEF StructBytes
<1>3. Has(p1, 1, p1, 2)
  BY <1>1 DEF Has, Bytes
<1> HIDE DEF p1, p2, p3, p4, p5, p6, p7, p8, p9, w2, w3, w4, w5, w6, w7, w8, w9
<1>4. Joins(w2, p1, 2, p2, 1)
  BY <1>1, Appended DEF w2
<1>5. /\ Bytes(w2, 3)
      /\ Has(w2, 1, p1, 2)
      /\ Has(w2, 3, p2, 1)
  <2>1. Bytes(w2, 3) /\ Has(w2, 3, p2, 1)
    BY <1>4 DEF Joins
  <2>2. Has(w2, 1, p1, 2)
    BY <1>1, <1>3, <1>4, StillHas
  <2> QED
    BY <2>1, <2>2
<1>6. Joins(w3, w2, 3, p3, 1)
  BY <1>1, <1>5, Appended DEF w3
<1>7. /\ Bytes(w3, 4)
      /\ Has(w3, 1, p1, 2)
      /\ Has(w3, 3, p2, 1)
      /\ Has(w3, 4, p3, 1)
  <2>1. Bytes(w3, 4) /\ Has(w3, 4, p3, 1)
    BY <1>6 DEF Joins
  <2>2. /\ Has(w3, 1, p1, 2)
        /\ Has(w3, 3, p2, 1)
    BY <1>5, <1>6, StillHas
  <2> QED
    BY <2>1, <2>2
<1>8. Joins(w4, w3, 4, p4, 2)
  BY <1>1, <1>7, Appended DEF w4
<1>9. /\ Bytes(w4, 6)
      /\ Has(w4, 1, p1, 2)
      /\ Has(w4, 3, p2, 1)
      /\ Has(w4, 4, p3, 1)
      /\ Has(w4, 5, p4, 2)
  <2>1. Bytes(w4, 6) /\ Has(w4, 5, p4, 2)
    BY <1>8 DEF Joins
  <2>2. /\ Has(w4, 1, p1, 2)
        /\ Has(w4, 3, p2, 1)
        /\ Has(w4, 4, p3, 1)
    BY <1>7, <1>8, StillHas
  <2> QED
    BY <2>1, <2>2
<1>10. Joins(w5, w4, 6, p5, 2)
  BY <1>1, <1>9, Appended DEF w5
<1>11. /\ Bytes(w5, 8)
       /\ Has(w5, 1, p1, 2)
       /\ Has(w5, 3, p2, 1)
       /\ Has(w5, 4, p3, 1)
       /\ Has(w5, 5, p4, 2)
       /\ Has(w5, 7, p5, 2)
  <2>1. Bytes(w5, 8) /\ Has(w5, 7, p5, 2)
    BY <1>10 DEF Joins
  <2>2. /\ Has(w5, 1, p1, 2)
        /\ Has(w5, 3, p2, 1)
        /\ Has(w5, 4, p3, 1)
        /\ Has(w5, 5, p4, 2)
    BY <1>9, <1>10, StillHas
  <2> QED
    BY <2>1, <2>2
<1>12. Joins(w6, w5, 8, p6, 2)
  BY <1>1, <1>11, Appended DEF w6
<1>13. /\ Bytes(w6, 10)
       /\ Has(w6, 1, p1, 2)
       /\ Has(w6, 3, p2, 1)
       /\ Has(w6, 4, p3, 1)
       /\ Has(w6, 5, p4, 2)
       /\ Has(w6, 7, p5, 2)
       /\ Has(w6, 9, p6, 2)
  <2>1. Bytes(w6, 10) /\ Has(w6, 9, p6, 2)
    BY <1>12 DEF Joins
  <2>2. /\ Has(w6, 1, p1, 2)
        /\ Has(w6, 3, p2, 1)
        /\ Has(w6, 4, p3, 1)
        /\ Has(w6, 5, p4, 2)
        /\ Has(w6, 7, p5, 2)
    BY <1>11, <1>12, StillHas
  <2> QED
    BY <2>1, <2>2
<1>14. Joins(w7, w6, 10, p7, 2)
  BY <1>1, <1>13, Appended DEF w7
<1>15. /\ Bytes(w7, 12)
       /\ Has(w7, 1, p1, 2)
       /\ Has(w7, 3, p2, 1)
       /\ Has(w7, 4, p3, 1)
       /\ Has(w7, 5, p4, 2)
       /\ Has(w7, 7, p5, 2)
       /\ Has(w7, 9, p6, 2)
       /\ Has(w7, 11, p7, 2)
  <2>1. Bytes(w7, 12) /\ Has(w7, 11, p7, 2)
    BY <1>14 DEF Joins
  <2>2. /\ Has(w7, 1, p1, 2)
        /\ Has(w7, 3, p2, 1)
        /\ Has(w7, 4, p3, 1)
        /\ Has(w7, 5, p4, 2)
        /\ Has(w7, 7, p5, 2)
        /\ Has(w7, 9, p6, 2)
    BY <1>13, <1>14, StillHas
  <2> QED
    BY <2>1, <2>2
<1>16. Joins(w8, w7, 12, p8, 2)
  BY <1>1, <1>15, Appended DEF w8
<1>17. /\ Bytes(w8, 14)
       /\ Has(w8, 1, p1, 2)
       /\ Has(w8, 3, p2, 1)
       /\ Has(w8, 4, p3, 1)
       /\ Has(w8, 5, p4, 2)
       /\ Has(w8, 7, p5, 2)
       /\ Has(w8, 9, p6, 2)
       /\ Has(w8, 11, p7, 2)
       /\ Has(w8, 13, p8, 2)
  <2>1. Bytes(w8, 14) /\ Has(w8, 13, p8, 2)
    BY <1>16 DEF Joins
  <2>2. /\ Has(w8, 1, p1, 2)
        /\ Has(w8, 3, p2, 1)
        /\ Has(w8, 4, p3, 1)
        /\ Has(w8, 5, p4, 2)
        /\ Has(w8, 7, p5, 2)
        /\ Has(w8, 9, p6, 2)
        /\ Has(w8, 11, p7, 2)
    BY <1>15, <1>16, StillHas
  <2> QED
    BY <2>1, <2>2
<1>18. Joins(w9, w8, 14, p9, 8)
  BY <1>1, <1>17, Appended DEF w9
<1>19. /\ Bytes(w9, 22)
       /\ Has(w9, 1, p1, 2)
       /\ Has(w9, 3, p2, 1)
       /\ Has(w9, 4, p3, 1)
       /\ Has(w9, 5, p4, 2)
       /\ Has(w9, 7, p5, 2)
       /\ Has(w9, 9, p6, 2)
       /\ Has(w9, 11, p7, 2)
       /\ Has(w9, 13, p8, 2)
       /\ Has(w9, 15, p9, 8)
  <2>1. Bytes(w9, 22) /\ Has(w9, 15, p9, 8)
    BY <1>18 DEF Joins
  <2>2. /\ Has(w9, 1, p1, 2)
        /\ Has(w9, 3, p2, 1)
        /\ Has(w9, 4, p3, 1)
        /\ Has(w9, 5, p4, 2)
        /\ Has(w9, 7, p5, 2)
        /\ Has(w9, 9, p6, 2)
        /\ Has(w9, 11, p7, 2)
        /\ Has(w9, 13, p8, 2)
    BY <1>17, <1>18, StillHas
  <2> QED
    BY <2>1, <2>2
<1> QED
  BY <1>2, <1>19 DEF StructPieces, p1, p2, p3, p4, p5, p6, p7, p8, p9

(* The places of the letters that all three programs use. *)
Places == <<1, 3, 4, 5, 7, 9, 11, 13, 15>>

Letters == <<"H", "B", "B", "h", "h", "h", "h", "H", "Q">>

(* The recursion of Format, unfolded for these letters. *)
LEMMA FormatPlaces ==
  /\ Format(Letters) = [k \in 1 .. 9 |->
       [first |-> Places[k], last |-> Places[k] + CharSize[Letters[k]] - 1,
        signed |-> Letters[k] = "h"]]
<1> DEFINE Unfolds(at) ==
      at = [k \in 1 .. Len(Letters) |->
              IF k = 1 THEN 1 ELSE at[k - 1] + CharSize[Letters[k - 1]]]
<1>1. Len(Letters) = 9
  BY DEF Letters
<1>2. /\ CharSize[Letters[1]] = 2 /\ CharSize[Letters[2]] = 1 /\ CharSize[Letters[3]] = 1
      /\ CharSize[Letters[4]] = 2 /\ CharSize[Letters[5]] = 2 /\ CharSize[Letters[6]] = 2
      /\ CharSize[Letters[7]] = 2 /\ CharSize[Letters[8]] = 2 /\ CharSize[Letters[9]] = 8
  BY DEF Letters, CharSize
<1>3. /\ Places = [k \in 1 .. 9 |-> Places[k]]
      /\ Places[1] = 1 /\ Places[2] = 3 /\ Places[3] = 4 /\ Places[4] = 5 /\ Places[5] = 7
      /\ Places[6] = 9 /\ Places[7] = 11 /\ Places[8] = 13 /\ Places[9] = 15
  BY DEF Places
<1>4. \A k \in 1 .. 9 :
        \/ k = 1 \/ k = 2 \/ k = 3 \/ k = 4 \/ k = 5 \/ k = 6 \/ k = 7 \/ k = 8 \/ k = 9
  OBVIOUS
<1>5. Unfolds(Places)
  <2>1. \A k \in 1 .. 9 :
          Places[k] = IF k = 1 THEN 1 ELSE Places[k - 1] + CharSize[Letters[k - 1]]
    BY <1>2, <1>3, <1>4
  <2> QED
    BY <1>1, <1>3, <2>1
<1>6. PICK at : at = CHOOSE x : Unfolds(x)
  OBVIOUS
<1>7. Unfolds(at)
  <2> HIDE DEF Unfolds
  <2> QED
    BY <1>5, <1>6
<1>8. /\ at = [k \in 1 .. 9 |-> at[k]]
      /\ \A k \in 1 .. 9 : at[k] = IF k = 1 THEN 1 ELSE at[k - 1] + CharSize[Letters[k - 1]]
  BY <1>1, <1>7
<1>9. at = Places
  <2>1. at[1] = 1 BY <1>8
  <2>2. at[2] = 3 BY <1>8, <1>2, <2>1
  <2>3. at[3] = 4 BY <1>8, <1>2, <2>2
  <2>4. at[4] = 5 BY <1>8, <1>2, <2>3
  <2>5. at[5] = 7 BY <1>8, <1>2, <2>4
  <2>6. at[6] = 9 BY <1>8, <1>2, <2>5
  <2>7. at[7] = 11 BY <1>8, <1>2, <2>6
  <2>8. at[8] = 13 BY <1>8, <1>2, <2>7
  <2>9. at[9] = 15 BY <1>8, <1>2, <2>8
  <2>10. \A k \in 1 .. 9 : at[k] = Places[k]
    BY <1>3, <1>4, <2>1, <2>2, <2>3, <2>4, <2>5, <2>6, <2>7, <2>8, <2>9
  <2> QED
    BY <1>3, <1>8, <2>10
<1>10. Format(Letters) =
         [k \in 1 .. Len(Letters) |->
            [first |-> at[k], last |-> at[k] + CharSize[Letters[k]] - 1,
             signed |-> Letters[k] = "h"]]
  BY <1>6 DEF Format
<1> QED
  BY <1>1, <1>9, <1>10

(* The place and the sign of each field. *)
LEMMA FieldPlaces ==
  ASSUME NEW f, f = Format(Letters)
  PROVE  /\ DOMAIN f = 1 .. 9 /\ Len(f) = 9
         /\ f[1].first = 1 /\ f[1].last = 2
         /\ f[2].first = 3 /\ f[2].last = 3
         /\ f[3].first = 4 /\ f[3].last = 4
         /\ f[4].first = 5 /\ f[4].last = 6
         /\ f[5].first = 7 /\ f[5].last = 8
         /\ f[6].first = 9 /\ f[6].last = 10
         /\ f[7].first = 11 /\ f[7].last = 12
         /\ f[8].first = 13 /\ f[8].last = 14
         /\ f[9].first = 15 /\ f[9].last = 22
         /\ \A k \in 1 .. 9 : f[k].signed \in BOOLEAN
         /\ ~f[1].signed /\ ~f[2].signed /\ ~f[3].signed /\ f[4].signed /\ f[5].signed
         /\ f[6].signed /\ f[7].signed /\ ~f[8].signed /\ ~f[9].signed
<1>1. f = [k \in 1 .. 9 |->
       [first |-> Places[k], last |-> Places[k] + CharSize[Letters[k]] - 1,
        signed |-> Letters[k] = "h"]]
  BY FormatPlaces
<1>2. /\ DOMAIN f = 1 .. 9
      /\ \A k \in 1 .. 9 : /\ f[k].first = Places[k]
                           /\ f[k].last = Places[k] + CharSize[Letters[k]] - 1
  BY <1>1
<1>3. \A k \in 1 .. 9 : f[k].signed = (Letters[k] = "h")
  BY <1>1
<1>4. Len(f) = 9
  BY <1>1
<1>5. /\ CharSize[Letters[1]] = 2 /\ CharSize[Letters[2]] = 1 /\ CharSize[Letters[3]] = 1
      /\ CharSize[Letters[4]] = 2 /\ CharSize[Letters[5]] = 2 /\ CharSize[Letters[6]] = 2
      /\ CharSize[Letters[7]] = 2 /\ CharSize[Letters[8]] = 2 /\ CharSize[Letters[9]] = 8
  BY DEF Letters, CharSize
<1>6. /\ Places[1] = 1 /\ Places[2] = 3 /\ Places[3] = 4 /\ Places[4] = 5 /\ Places[5] = 7
      /\ Places[6] = 9 /\ Places[7] = 11 /\ Places[8] = 13 /\ Places[9] = 15
  BY DEF Places
<1>7. /\ f[1].first = 1 /\ f[1].last = 2
      /\ f[2].first = 3 /\ f[2].last = 3
      /\ f[3].first = 4 /\ f[3].last = 4
      /\ f[4].first = 5 /\ f[4].last = 6
      /\ f[5].first = 7 /\ f[5].last = 8
      /\ f[6].first = 9 /\ f[6].last = 10
      /\ f[7].first = 11 /\ f[7].last = 12
      /\ f[8].first = 13 /\ f[8].last = 14
      /\ f[9].first = 15 /\ f[9].last = 22
  BY <1>2, <1>5, <1>6
<1>8. /\ Letters[1] # "h" /\ Letters[2] # "h" /\ Letters[3] # "h" /\ Letters[4] = "h"
      /\ Letters[5] = "h" /\ Letters[6] = "h" /\ Letters[7] = "h" /\ Letters[8] # "h"
      /\ Letters[9] # "h"
  BY DEF Letters
<1>9. \A k \in 1 .. 9 : f[k].signed \in BOOLEAN
  BY <1>3
<1>10. /\ ~f[1].signed
       /\ ~f[2].signed
       /\ ~f[3].signed
       /\ f[4].signed
       /\ f[5].signed
       /\ f[6].signed
       /\ f[7].signed
       /\ ~f[8].signed
       /\ ~f[9].signed
  <2>1. ~f[1].signed
    <3>1. f[1].signed = (Letters[1] = "h")
      BY <1>3
    <3> QED
      BY <1>8, <3>1, Zenon
  <2>2. ~f[2].signed
    <3>1. f[2].signed = (Letters[2] = "h")
      BY <1>3
    <3> QED
      BY <1>8, <3>1, Zenon
  <2>3. ~f[3].signed
    <3>1. f[3].signed = (Letters[3] = "h")
      BY <1>3
    <3> QED
      BY <1>8, <3>1, Zenon
  <2>4. f[4].signed
    <3>1. f[4].signed = (Letters[4] = "h")
      BY <1>3
    <3> QED
      BY <1>8, <3>1, Zenon
  <2>5. f[5].signed
    <3>1. f[5].signed = (Letters[5] = "h")
      BY <1>3
    <3> QED
      BY <1>8, <3>1, Zenon
  <2>6. f[6].signed
    <3>1. f[6].signed = (Letters[6] = "h")
      BY <1>3
    <3> QED
      BY <1>8, <3>1, Zenon
  <2>7. f[7].signed
    <3>1. f[7].signed = (Letters[7] = "h")
      BY <1>3
    <3> QED
      BY <1>8, <3>1, Zenon
  <2>8. ~f[8].signed
    <3>1. f[8].signed = (Letters[8] = "h")
      BY <1>3
    <3> QED
      BY <1>8, <3>1, Zenon
  <2>9. ~f[9].signed
    <3>1. f[9].signed = (Letters[9] = "h")
      BY <1>3
    <3> QED
      BY <1>8, <3>1, Zenon
  <2> QED
    BY <2>1, <2>2, <2>3, <2>4, <2>5, <2>6, <2>7, <2>8, <2>9
<1> QED
  BY <1>2, <1>4, <1>7, <1>9, <1>10

(* The values the driver puts into a packet. *)
Fields(inp) ==
  /\ inp.buttons \in Word /\ inp.lt \in 0 .. 255 /\ inp.rt \in 0 .. 255
  /\ inp.lx \in Int16 /\ inp.ly \in Int16 /\ inp.rx \in Int16 /\ inp.ry \in Int16
  /\ inp._pad = 0 /\ inp.timestamp_us \in Nat /\ Shifted(inp.timestamp_us)[8] = 0

(* All of them are integers. *)
LEMMA FieldsAreInts ==
  ASSUME NEW inp, Fields(inp)
  PROVE  /\ inp.buttons \in Int /\ inp.lt \in Int /\ inp.rt \in Int /\ inp.lx \in Int
         /\ inp.ly \in Int /\ inp.rx \in Int /\ inp.ry \in Int /\ inp._pad \in Int
         /\ inp.timestamp_us \in Int
BY WordRange, ShortRange DEF Fields

(* What struct.unpack of Python makes of the bytes of a packet.            *)
LEMMA Unpacked ==
  ASSUME NEW inp, Fields(inp), NEW u, u = unpack(Format(Letters), StructBytes(inp))
  PROVE  /\ u[1] = inp.buttons /\ u[2] = inp.lt /\ u[3] = inp.rt
         /\ u[4] = inp.lx /\ u[5] = inp.ly /\ u[6] = inp.rx /\ u[7] = inp.ry
         /\ u[9] = inp.timestamp_us
<1>1. PICK f : f = Format(Letters)
  OBVIOUS
<1>2. PICK raw : raw = StructBytes(inp)
  OBVIOUS
<1>3. StructPieces(raw, inp)
  BY <1>2, FieldsAreInts, StructLayout
<1>4. DOMAIN f = 1 .. 9
  BY <1>1, FieldPlaces
<1>5. \A k \in 1 .. 9 : u[k] = FromBytes(SubSeq(raw, f[k].first, f[k].last), f[k].signed)
  BY <1>1, <1>2, <1>4 DEF unpack
<1>6. ASSUME NEW k \in 1 .. 9, NEW a, NEW p, NEW n \in Nat \ {0}, Has(raw, a, p, n),
             f[k].first = a, NEW b \in Int, b = a + n - 1, f[k].last = b
      PROVE  u[k] = FromBytes(p, f[k].signed)
  <2>1. SubSeq(raw, a, b) = p
    BY <1>6, CutOut
  <2> QED
    BY <1>5, <1>6, <2>1
<1>7. u[1] = inp.buttons
  <2>1. Has(raw, 1, ToBytes(inp.buttons, 2), 2)
    BY <1>3 DEF StructPieces
  <2>2. f[1].first = 1 /\ f[1].last = 2
    BY <1>1, FieldPlaces
  <2>3. f[1].signed \in BOOLEAN /\ ~f[1].signed
    BY <1>1, FieldPlaces
  <2>4. u[1] = FromBytes(ToBytes(inp.buttons, 2), f[1].signed)
    BY <1>6, <2>1, <2>2
  <2>5. FromBytes(ToBytes(inp.buttons, 2), f[1].signed) = inp.buttons
    BY <2>3, FieldsAreInts, UnsignedWord DEF Fields
  <2> QED
    BY <2>4, <2>5
<1>8. u[2] = inp.lt
  <2>1. Has(raw, 3, ToBytes(inp.lt, 1), 1)
    BY <1>3 DEF StructPieces
  <2>2. f[2].first = 3 /\ f[2].last = 3
    BY <1>1, FieldPlaces
  <2>3. f[2].signed \in BOOLEAN /\ ~f[2].signed
    BY <1>1, FieldPlaces
  <2>4. u[2] = FromBytes(ToBytes(inp.lt, 1), f[2].signed)
    BY <1>6, <2>1, <2>2
  <2>5. FromBytes(ToBytes(inp.lt, 1), f[2].signed) = inp.lt
    BY <2>3, FieldsAreInts, RoundTrip1 DEF Fields
  <2> QED
    BY <2>4, <2>5
<1>9. u[3] = inp.rt
  <2>1. Has(raw, 4, ToBytes(inp.rt, 1), 1)
    BY <1>3 DEF StructPieces
  <2>2. f[3].first = 4 /\ f[3].last = 4
    BY <1>1, FieldPlaces
  <2>3. f[3].signed \in BOOLEAN /\ ~f[3].signed
    BY <1>1, FieldPlaces
  <2>4. u[3] = FromBytes(ToBytes(inp.rt, 1), f[3].signed)
    BY <1>6, <2>1, <2>2
  <2>5. FromBytes(ToBytes(inp.rt, 1), f[3].signed) = inp.rt
    BY <2>3, FieldsAreInts, RoundTrip1 DEF Fields
  <2> QED
    BY <2>4, <2>5
<1>10. u[4] = inp.lx
  <2>1. Has(raw, 5, ToBytes(inp.lx, 2), 2)
    BY <1>3 DEF StructPieces
  <2>2. f[4].first = 5 /\ f[4].last = 6
    BY <1>1, FieldPlaces
  <2>3. f[4].signed \in BOOLEAN /\ f[4].signed
    BY <1>1, FieldPlaces
  <2>4. u[4] = FromBytes(ToBytes(inp.lx, 2), f[4].signed)
    BY <1>6, <2>1, <2>2
  <2>5. FromBytes(ToBytes(inp.lx, 2), f[4].signed) = inp.lx
    BY <2>3, FieldsAreInts, SignedWord DEF Fields
  <2> QED
    BY <2>4, <2>5
<1>11. u[5] = inp.ly
  <2>1. Has(raw, 7, ToBytes(inp.ly, 2), 2)
    BY <1>3 DEF StructPieces
  <2>2. f[5].first = 7 /\ f[5].last = 8
    BY <1>1, FieldPlaces
  <2>3. f[5].signed \in BOOLEAN /\ f[5].signed
    BY <1>1, FieldPlaces
  <2>4. u[5] = FromBytes(ToBytes(inp.ly, 2), f[5].signed)
    BY <1>6, <2>1, <2>2
  <2>5. FromBytes(ToBytes(inp.ly, 2), f[5].signed) = inp.ly
    BY <2>3, FieldsAreInts, SignedWord DEF Fields
  <2> QED
    BY <2>4, <2>5
<1>12. u[6] = inp.rx
  <2>1. Has(raw, 9, ToBytes(inp.rx, 2), 2)
    BY <1>3 DEF StructPieces
  <2>2. f[6].first = 9 /\ f[6].last = 10
    BY <1>1, FieldPlaces
  <2>3. f[6].signed \in BOOLEAN /\ f[6].signed
    BY <1>1, FieldPlaces
  <2>4. u[6] = FromBytes(ToBytes(inp.rx, 2), f[6].signed)
    BY <1>6, <2>1, <2>2
  <2>5. FromBytes(ToBytes(inp.rx, 2), f[6].signed) = inp.rx
    BY <2>3, FieldsAreInts, SignedWord DEF Fields
  <2> QED
    BY <2>4, <2>5
<1>13. u[7] = inp.ry
  <2>1. Has(raw, 11, ToBytes(inp.ry, 2), 2)
    BY <1>3 DEF StructPieces
  <2>2. f[7].first = 11 /\ f[7].last = 12
    BY <1>1, FieldPlaces
  <2>3. f[7].signed \in BOOLEAN /\ f[7].signed
    BY <1>1, FieldPlaces
  <2>4. u[7] = FromBytes(ToBytes(inp.ry, 2), f[7].signed)
    BY <1>6, <2>1, <2>2
  <2>5. FromBytes(ToBytes(inp.ry, 2), f[7].signed) = inp.ry
    BY <2>3, FieldsAreInts, SignedWord DEF Fields
  <2> QED
    BY <2>4, <2>5
<1>14. u[9] = inp.timestamp_us
  <2>1. Has(raw, 15, ToBytes(inp.timestamp_us, 8), 8)
    BY <1>3 DEF StructPieces
  <2>2. f[9].first = 15 /\ f[9].last = 22
    BY <1>1, FieldPlaces
  <2>3. f[9].signed \in BOOLEAN /\ ~f[9].signed
    BY <1>1, FieldPlaces
  <2>4. u[9] = FromBytes(ToBytes(inp.timestamp_us, 8), f[9].signed)
    BY <1>6, <2>1, <2>2
  <2>5. FromBytes(ToBytes(inp.timestamp_us, 8), f[9].signed) = inp.timestamp_us
    BY <2>3, FieldsAreInts, RoundTrip8 DEF Fields
  <2> QED
    BY <2>4, <2>5
<1> QED
  BY <1>7, <1>8, <1>9, <1>10, <1>11, <1>12, <1>13, <1>14

(* The bytes of a packet, parsed, are its fields. *)
LEMMA ParseInverts ==
  ASSUME NEW inp, Fields(inp)
  PROVE  parse(StructBytes(inp)) =
           [buttons |-> inp.buttons, lt |-> inp.lt, rt |-> inp.rt,
            lx |-> inp.lx, ly |-> inp.ly, rx |-> inp.rx, ry |-> inp.ry,
            timestamp_us |-> inp.timestamp_us]
<1>1. PICK u : u = unpack(abi_INPUT_FMT, StructBytes(inp))
  OBVIOUS
<1>2. u = unpack(Format(Letters), StructBytes(inp))
  BY <1>1 DEF abi_INPUT_FMT, Letters
<1>3. parse(StructBytes(inp)) =
        [buttons |-> u[1], lt |-> u[2], rt |-> u[3],
         lx |-> u[4], ly |-> u[5], rx |-> u[6], ry |-> u[7], timestamp_us |-> u[9]]
  BY <1>1 DEF parse
<1>4. /\ u[1] = inp.buttons /\ u[2] = inp.lt /\ u[3] = inp.rt
      /\ u[4] = inp.lx /\ u[5] = inp.ly /\ u[6] = inp.rx /\ u[7] = inp.ry
      /\ u[9] = inp.timestamp_us
  BY <1>2, Unpacked
<1> QED
  BY <1>3, <1>4

-------------------------------------------------------------------------------
(* What the programs make of a packet *)

(* The masks of the button panel are the bits of the driver. *)
LEMMA RowMasks == ROWS = {<<2 ^ BTN[b], b>> : b \in Buttons}
<1>1. /\ 2 ^ BTN["MENU"] = 1 /\ 2 ^ BTN["VIEW"] = 2 /\ 2 ^ BTN["LS"] = 4
      /\ 2 ^ BTN["RS"] = 8 /\ 2 ^ BTN["A"] = 16 /\ 2 ^ BTN["B"] = 32
      /\ 2 ^ BTN["X"] = 64 /\ 2 ^ BTN["Y"] = 128 /\ 2 ^ BTN["DPAD_UP"] = 256
      /\ 2 ^ BTN["DPAD_DOWN"] = 512 /\ 2 ^ BTN["DPAD_LEFT"] = 1024
      /\ 2 ^ BTN["DPAD_RIGHT"] = 2048 /\ 2 ^ BTN["LB"] = 4096 /\ 2 ^ BTN["RB"] = 8192
  BY Powers DEF BTN
<1>2. PICK mask : mask = [b \in Buttons |-> 2 ^ BTN[b]]
  OBVIOUS
<1>3. /\ mask["MENU"] = 1 /\ mask["VIEW"] = 2 /\ mask["LS"] = 4
      /\ mask["RS"] = 8 /\ mask["A"] = 16 /\ mask["B"] = 32
      /\ mask["X"] = 64 /\ mask["Y"] = 128 /\ mask["DPAD_UP"] = 256
      /\ mask["DPAD_DOWN"] = 512 /\ mask["DPAD_LEFT"] = 1024
      /\ mask["DPAD_RIGHT"] = 2048 /\ mask["LB"] = 4096 /\ mask["RB"] = 8192
  BY <1>1, <1>2 DEF Buttons
<1>4. ROWS = {<<mask[b], b>> : b \in Buttons}
  BY <1>3 DEF ROWS, Buttons
<1> QED
  BY <1>2, <1>4

(* The button panel lights the buttons whose bits are set. *)
LEMMA LitButtons ==
  ASSUME NEW s
  PROVE  lit(s) = {b \in Buttons : HasBit(s.buttons, BTN[b])}
<1>1. PICK mask : mask = [b \in Buttons |-> 2 ^ BTN[b]]
  OBVIOUS
<1>2. ROWS = {<<mask[b], b>> : b \in Buttons}
  BY <1>1, RowMasks
<1> DEFINE On(m) == (s.buttons \div m) % 2 = 1
<1>3. lit(s) = {r[2] : r \in {q \in ROWS : On(q[1])}}
  BY DEF lit
<1>4. \A b \in Buttons : On(mask[b]) <=> HasBit(s.buttons, BTN[b])
  BY <1>1 DEF HasBit
<1> HIDE DEF On
<1>5. lit(s) \subseteq {b \in Buttons : On(mask[b])}
  BY <1>2, <1>3
<1>6. ASSUME NEW b \in Buttons, On(mask[b]) PROVE b \in lit(s)
  <2>1. PICK q \in ROWS : q = <<mask[b], b>>
    BY <1>2
  <2>2. q[1] = mask[b] /\ q[2] = b
    BY <2>1
  <2>3. q \in {r \in ROWS : On(r[1])}
    BY <1>6, <2>2
  <2> QED
    BY <1>3, <2>2, <2>3
<1> QED
  BY <1>4, <1>5, <1>6

(* The mouse looks at the same bits. *)
LEMMA MouseButtons ==
  \A b \in DOMAIN mouse_BTN : b \in Buttons /\ mouse_BTN[b] = BTN[b]
BY DEF mouse_BTN, BTN, Buttons

(* The number of the ioctl is the same in the three places it is made. *)
LEMMA IoctlNumbers ==
  abi_SET_MOTORS = RUMBLE_SET_MOTORS /\ teleop_SET_MOTORS = RUMBLE_SET_MOTORS
<1>1. 2 ^ 0 = 1 /\ 2 ^ 8 = 256 /\ 2 ^ 16 = 65536 /\ 2 ^ 30 = 1073741824
  BY SMT
<1>2. RUMBLE_SET_MOTORS = 1073741824 + 2 * 65536 + 82 * 256 + 1
  BY <1>1 DEF RUMBLE_SET_MOTORS
<1>3. abi_SET_MOTORS = RUMBLE_SET_MOTORS
  BY <1>2 DEF abi_SET_MOTORS
<1>4. 0 + 8 = 8 /\ 8 + 8 = 16 /\ 16 + 14 = 30
  OBVIOUS
<1>5. teleop_SET_MOTORS = 1 * 2 ^ 30 + 82 * 2 ^ 8 + 1 * 2 ^ 0 + 2 * 2 ^ 16
  BY <1>4 DEF teleop_SET_MOTORS
<1>6. teleop_SET_MOTORS = RUMBLE_SET_MOTORS
  BY <1>1, <1>2, <1>5
<1> QED
  BY <1>3, <1>6

(* An axis of the node is the stick's position or rest. *)
LEMMA NodeAxis ==
  ASSUME NEW v, v \in Int16
  PROVE  /\ axis_to_unit(v) = IF Abs(v) < 1500 THEN 0 ELSE v
         /\ Sign(axis_to_unit(v)) \in {0, Sign(v)}
<1>1. v \in Int /\ -32768 <= v /\ v <= 32767
  BY ShortRange
<1>2. axis_to_unit(v) = IF Abs(v) < 1500 THEN 0 ELSE v
  BY <1>1 DEF axis_to_unit, teleop_DEADZONE, Clip
<1>3. Sign(0) = 0
  BY DEF Sign
<1> QED
  BY <1>2, <1>3

(* A velocity is within three times, or twice, the range of an axis. *)
LEMMA Velocities ==
  ASSUME NEW s, s.lx \in Int16, s.ly \in Int16
  PROVE  Abs(linear_x(s)) <= 65536 /\ Abs(angular_z(s)) <= 98304
<1>1. PICK x \in Int : x = axis_to_unit(s.lx) /\ -32768 <= x /\ x <= 32767
  BY NodeAxis, ShortRange
<1>2. PICK y \in Int : y = axis_to_unit(s.ly) /\ -32768 <= y /\ y <= 32767
  BY NodeAxis, ShortRange
<1>3. linear_x(s) = 2 * y /\ angular_z(s) = -3 * x
  BY <1>1, <1>2 DEF linear_x, angular_z
<1> QED
  BY <1>1, <1>2, <1>3 DEF Abs

(* The mouse moves to the side the node drives to. *)
LEMMA MouseAxis ==
  ASSUME NEW v, v \in Int16
  PROVE  /\ mouse_unit(v) # 0 => Sign(mouse_unit(v)) = Sign(axis_to_unit(v))
         /\ Abs(mouse_unit(v)) <= 28768
<1>1. v \in Int /\ -32768 <= v /\ v <= 32767
  BY ShortRange
<1>2. CASE -4000 < v /\ v < 4000
  <2>1. mouse_unit(v) = 0
    BY <1>1, <1>2 DEF mouse_unit, Abs, mouse_deadzone
  <2> QED
    BY <2>1 DEF Abs
<1>3. CASE v >= 4000
  <2>1. mouse_unit(v) = v - 4000
    BY <1>1, <1>3 DEF mouse_unit, Abs, mouse_deadzone, Sign, Clip
  <2>2. axis_to_unit(v) = v
    BY <1>1, <1>3, NodeAxis DEF Abs
  <2> QED
    BY <1>1, <1>3, <2>1, <2>2 DEF Abs, Sign
<1>4. CASE v <= -4000
  <2>1. mouse_unit(v) = v + 4000
    BY <1>1, <1>4 DEF mouse_unit, Abs, mouse_deadzone, Sign, Clip
  <2>2. axis_to_unit(v) = v
    BY <1>1, <1>4, NodeAxis DEF Abs
  <2> QED
    BY <1>1, <1>4, <2>1, <2>2 DEF Abs, Sign
<1> QED
  BY <1>1, <1>2, <1>3, <1>4

(* The dot of a stick stays inside its panel. *)
LEMMA Dots ==
  ASSUME NEW v, v \in Int16
  PROVE  /\ Abs(dot_x(v) - 75 * 32768) <= 70 * 32768
         /\ Abs(dot_y(v) - 75 * 32768) <= 70 * 32768
<1>1. v \in Int /\ -32768 <= v /\ v <= 32767
  BY ShortRange
<1>2. dot_x(v) - 75 * 32768 = 70 * v /\ dot_y(v) - 75 * 32768 = -70 * v
  BY <1>1 DEF dot_x, dot_y
<1> QED
  BY <1>1, <1>2 DEF Abs

(* The bar of a trigger fits its frame. *)
LEMMA Bars ==
  ASSUME NEW t, t \in 0 .. 255
  PROVE  fill_h(t) \in 0 .. 120
<1>1. t \in Int /\ 0 <= t /\ t <= 255
  OBVIOUS
<1>2. PICK x \in Int : x = 120 * t
  BY <1>1
<1>3. 0 <= x /\ x <= 255 * 120
  BY <1>1, <1>2
<1>4. x \div 255 \in 0 .. 120
  BY <1>3
<1> QED
  BY <1>2, <1>4 DEF fill_h

(* The intensity of a motor never wraps around the byte it is sent in.     *)
LEMMA IntensityValue ==
  ASSUME NEW pct \in Int, NEW c, c = Clip(pct, 0, 100)
  PROVE  /\ c \in 0 .. 100 /\ intensity(pct) = (c * 255) \div 100
         /\ intensity(pct) \in 0 .. 255
<1>1. c \in Int /\ 0 <= c /\ c <= 100
  BY DEF Clip
<1>2. PICK y \in Int : y = (c * 255) \div 100
  BY <1>1
<1>3. 0 <= y /\ y <= 255
  BY <1>1, <1>2
<1>4. y % 256 = y
  BY <1>3
<1>5. intensity(pct) = y
  BY <1>2, <1>4 DEF intensity
<1> QED
  BY <1>1, <1>2, <1>3, <1>5

(* The driver's scale of the motors, for every percentage a program can    *)
(* send: the intensity is a byte, 0 only for no vibration, 255 only from   *)
(* 100 on, and a higher percentage is never weaker (rumble.c:492-504).     *)
THEOREM IntensityCorrect ==
  ASSUME NEW low \in Int, NEW high \in Int, low <= high
  PROVE  /\ intensity(low) \in 0 .. 255
         /\ intensity(low) = 0 <=> low <= 0
         /\ intensity(low) = 255 <=> low >= 100
         /\ intensity(low) <= intensity(high)
<1>1. PICK c : c = Clip(low, 0, 100)
  OBVIOUS
<1>2. PICK d : d = Clip(high, 0, 100)
  OBVIOUS
<1>3. c <= d /\ (c = 0 <=> low <= 0) /\ (c = 100 <=> low >= 100)
  BY <1>1, <1>2 DEF Clip
<1>4. /\ c \in 0 .. 100 /\ intensity(low) = (c * 255) \div 100
      /\ intensity(low) \in 0 .. 255
  BY <1>1, IntensityValue
<1>5. d \in 0 .. 100 /\ intensity(high) = (d * 255) \div 100
  BY <1>2, IntensityValue
<1>6. PICK s \in Int, t \in Int : s = (c * 255) \div 100 /\ t = (d * 255) \div 100
  BY <1>4, <1>5
<1>7. s <= t /\ (s = 0 <=> c = 0) /\ (s = 255 <=> c = 100)
  BY <1>3, <1>4, <1>5, <1>6
<1> QED
  BY <1>3, <1>4, <1>5, <1>6, <1>7

(* The scales of a stick, for every position of it: one that is farther    *)
(* out is never slower, in the node and in the mouse                       *)
(* (rumble_teleop_node.py:103-115, rumble_mouse.py:53-59).                  *)
THEOREM AxesCorrect ==
  ASSUME NEW v, v \in Int16, NEW w, w \in Int16, v <= w
  PROVE  /\ axis_to_unit(v) <= axis_to_unit(w)
         /\ mouse_unit(v) <= mouse_unit(w)
         /\ mouse_unit(w) - mouse_unit(v) <= w - v
<1>1. /\ v \in Int /\ -32768 <= v /\ v <= 32767
      /\ w \in Int /\ -32768 <= w /\ w <= 32767
  BY ShortRange
<1>2. axis_to_unit(v) <= axis_to_unit(w)
  BY <1>1, NodeAxis DEF Abs
<1>3. ASSUME NEW u \in Int, -32768 <= u, u <= 32767
      PROVE  mouse_unit(u) = IF u >= 4000 THEN u - 4000
                             ELSE IF u <= -4000 THEN u + 4000 ELSE 0
  <2>1. CASE -4000 < u /\ u < 4000
    BY <2>1 DEF mouse_unit, Abs, mouse_deadzone
  <2>2. CASE u >= 4000
    BY <1>3, <2>2 DEF mouse_unit, Abs, mouse_deadzone, Sign, Clip
  <2>3. CASE u <= -4000
    BY <1>3, <2>3 DEF mouse_unit, Abs, mouse_deadzone, Sign, Clip
  <2> QED
    BY <2>1, <2>2, <2>3
<1>4. mouse_unit(v) <= mouse_unit(w) /\ mouse_unit(w) - mouse_unit(v) <= w - v
  BY <1>1, <1>3
<1> QED
  BY <1>2, <1>4

-------------------------------------------------------------------------------
(* From a report to a packet *)

(* Distinct names have distinct bits. *)
Distinct(bits, top) ==
  /\ \A b \in DOMAIN bits : bits[b] \in 0 .. top
  /\ \A a, b \in DOMAIN bits : bits[a] = bits[b] => a = b

(* The tables of bits name distinct bits, in a byte and in fourteen bits. *)
LEMMA BitTables ==
  /\ DOMAIN GipBits.b4 = {"MENU", "VIEW", "A", "B", "X", "Y"}
  /\ DOMAIN GipBits.b5 = {"DPAD_UP", "DPAD_DOWN", "DPAD_LEFT", "DPAD_RIGHT",
                          "LB", "RB", "LS", "RS"}
  /\ DOMAIN BTN = Buttons /\ DOMAIN abi_BTN = Buttons
  /\ Distinct(GipBits.b4, 7) /\ Distinct(GipBits.b5, 7) /\ Distinct(BTN, 13)
<1>1. DOMAIN GipBits.b4 = {"MENU", "VIEW", "A", "B", "X", "Y"}
  BY DEF GipBits
<1>2. DOMAIN GipBits.b5 = {"DPAD_UP", "DPAD_DOWN", "DPAD_LEFT", "DPAD_RIGHT",
                           "LB", "RB", "LS", "RS"}
  BY DEF GipBits
<1>3. DOMAIN BTN = Buttons /\ DOMAIN abi_BTN = Buttons
  BY DEF BTN, abi_BTN, Buttons
<1>4. Distinct(GipBits.b4, 7)
  BY DEF GipBits, Distinct
<1>5. Distinct(GipBits.b5, 7)
  BY DEF GipBits, Distinct
<1>6. Distinct(BTN, 13)
  BY DEF BTN, Distinct
<1> QED
  BY <1>1, <1>2, <1>3, <1>4, <1>5, <1>6

(* A number made of the bits of some names has the bit of exactly these. *)
LEMMA NamedBits ==
  ASSUME NEW bits, NEW names, names \subseteq DOMAIN bits, Distinct(bits, 13),
         NEW m \in DOMAIN bits
  PROVE  HasBit(FromBits({bits[b] : b \in names}), bits[m]) <=> m \in names
<1>1. PICK S : S = {bits[b] : b \in names}
  OBVIOUS
<1>2. bits[m] \in S <=> m \in names
  BY <1>1 DEF Distinct
<1>3. bits[m] \in 0 .. 13
  BY DEF Distinct
<1>4. HasBit(FromBits(S), bits[m]) <=> bits[m] \in S
  BY <1>3, BitsOf
<1> QED
  BY <1>1, <1>2, <1>4

(* A byte of buttons has the bits of exactly the buttons pressed. *)
LEMMA GipBytes ==
  ASSUME NEW bits, Distinct(bits, 7), NEW pressed
  PROVE  /\ GipByte(bits, pressed) \in 0 .. 255
         /\ \A m \in DOMAIN bits : HasBit(GipByte(bits, pressed), bits[m]) <=> m \in pressed
<1>1. PICK names : names = pressed \cap DOMAIN bits
  OBVIOUS
<1>2. GipByte(bits, pressed) = FromBits({bits[b] : b \in names})
  BY <1>1 DEF GipByte
<1>3. {bits[b] : b \in names} \subseteq 0 .. 7
  BY <1>1 DEF Distinct
<1>4. FromBits({bits[b] : b \in names}) \in 0 .. 255
  BY <1>3, ByteOfBits, SMTT(30)
<1>5. Distinct(bits, 13) /\ names \subseteq DOMAIN bits
  BY <1>1 DEF Distinct
<1>6. \A m \in DOMAIN bits :
        HasBit(FromBits({bits[b] : b \in names}), bits[m]) <=> m \in names
  BY <1>5, NamedBits
<1> QED
  BY <1>1, <1>2, <1>4, <1>6

(* The driver sets exactly the bits of the buttons that are pressed. *)
LEMMA ButtonsDecoded ==
  ASSUME NEW pressed \in SUBSET Buttons, NEW b,
         b[4] = GipByte(GipBits.b4, pressed), b[5] = GipByte(GipBits.b5, pressed)
  PROVE  ButtonBits(b) = FromBits({BTN[n] : n \in pressed})
<1>1. PICK S4 : S4 = {m \in DOMAIN GipBits.b4 : HasBit(b[4], GipBits.b4[m])}
  OBVIOUS
<1>2. PICK S5 : S5 = {m \in DOMAIN GipBits.b5 : HasBit(b[5], GipBits.b5[m])}
  OBVIOUS
<1>3. S4 = pressed \cap DOMAIN GipBits.b4
  <2>1. \A m \in DOMAIN GipBits.b4 : HasBit(b[4], GipBits.b4[m]) <=> m \in pressed
    BY BitTables, GipBytes
  <2> QED
    BY <1>1, <2>1
<1>4. S5 = pressed \cap DOMAIN GipBits.b5
  <2>1. \A m \in DOMAIN GipBits.b5 : HasBit(b[5], GipBits.b5[m]) <=> m \in pressed
    BY BitTables, GipBytes
  <2> QED
    BY <1>2, <2>1
<1>5. S4 \cup S5 = pressed
  BY <1>3, <1>4, BitTables DEF Buttons
<1>6. ButtonBits(b) = FromBits({BTN[n] : n \in S4 \cup S5})
  <2>1. GipBits.b4 = [MENU |-> 2, VIEW |-> 3, A |-> 4, B |-> 5, X |-> 6, Y |-> 7]
    BY DEF GipBits
  <2>2. GipBits.b5 = [DPAD_UP |-> 0, DPAD_DOWN |-> 1, DPAD_LEFT |-> 2, DPAD_RIGHT |-> 3,
                      LB |-> 4, RB |-> 5, LS |-> 6, RS |-> 7]
    BY DEF GipBits
  <2> QED
    BY <1>1, <1>2, <2>1, <2>2, BitTables DEF ButtonBits
<1> QED
  BY <1>5, <1>6

(* The buttons a program finds set are those that are pressed. *)
LEMMA ButtonsSeen ==
  ASSUME NEW pressed \in SUBSET Buttons, NEW s,
         s.buttons = FromBits({BTN[n] : n \in pressed})
  PROVE  {b \in Buttons : btn(s, b)} = pressed
<1>1. abi_BTN = BTN
  BY DEF abi_BTN, BTN
<1>2. \A b \in Buttons : btn(s, b) <=> b \in pressed
  BY <1>1, BitTables, NamedBits DEF btn
<1> QED
  BY <1>2

Trigger == 0 .. 1023

ReportOK(r) ==
  r \in [buttons : SUBSET Buttons, lt : Trigger, rt : Trigger,
         lx : Int16, ly : Int16, rx : Int16, ry : Int16]

(* The ranges of the fields of a report. *)
LEMMA ReportInts ==
  ASSUME NEW r, ReportOK(r)
  PROVE  /\ r.lt \in Int /\ r.rt \in Int /\ r.lx \in Int /\ r.ly \in Int
         /\ r.rx \in Int /\ r.ry \in Int
         /\ r.buttons \in SUBSET Buttons
         /\ r.lx \in Int16 /\ r.ly \in Int16 /\ r.rx \in Int16 /\ r.ry \in Int16
         /\ r.lt \in Trigger /\ r.rt \in Trigger
<1>1. /\ r.lx \in Int16 /\ r.ly \in Int16 /\ r.rx \in Int16 /\ r.ry \in Int16
      /\ r.lt \in Trigger /\ r.rt \in Trigger /\ r.buttons \in SUBSET Buttons
  BY DEF ReportOK
<1>2. \A v \in Int16 : v \in Int
  BY ShortRange
<1>3. /\ r.lx \in Int /\ r.ly \in Int /\ r.rx \in Int /\ r.ry \in Int
  BY <1>1, <1>2
<1>4. r.lt \in Int /\ r.rt \in Int
  <2>1. \A v \in Trigger : v \in Int
    BY DEF Trigger
  <2> QED
    BY <1>1, <2>1
<1> QED
  BY <1>1, <1>3, <1>4

(* The pieces of an input report, each in its place. *)
Header(t) ==
  <<t.cmd, 0, t.flags, 14,
    GipByte(GipBits.b4, t.report.buttons), GipByte(GipBits.b5, t.report.buttons)>>

PayloadPieces(w, t) ==
  /\ Has(w, 1, Header(t), 6)
  /\ Has(w, 7, ToBytes(t.report.lt, 2), 2)
  /\ Has(w, 9, ToBytes(t.report.rt, 2), 2)
  /\ Has(w, 11, ToBytes(t.report.lx, 2), 2)
  /\ Has(w, 13, ToBytes(t.report.ly, 2), 2)
  /\ Has(w, 15, ToBytes(t.report.rx, 2), 2)
  /\ Has(w, 17, ToBytes(t.report.ry, 2), 2)

(* Every field of a report is in its place in its bytes. *)
LEMMA PayloadLayout ==
  ASSUME NEW t, t.cmd \in Byte, t.flags \in Byte, ReportOK(t.report)
  PROVE  Bytes(Payload(t), 18) /\ PayloadPieces(Payload(t), t)
<1> DEFINE p1 == Header(t)
           p2 == ToBytes(t.report.lt, 2)
           p3 == ToBytes(t.report.rt, 2)
           p4 == ToBytes(t.report.lx, 2)
           p5 == ToBytes(t.report.ly, 2)
           p6 == ToBytes(t.report.rx, 2)
           p7 == ToBytes(t.report.ry, 2)
           w2 == p1 \o p2
           w3 == w2 \o p3
           w4 == w3 \o p4
           w5 == w4 \o p5
           w6 == w5 \o p6
           w7 == w6 \o p7
<1>1. Bytes(p1, 6)
  <2>1. /\ GipByte(GipBits.b4, t.report.buttons) \in 0 .. 255
        /\ GipByte(GipBits.b5, t.report.buttons) \in 0 .. 255
    BY BitTables, GipBytes
  <2>2. t.cmd \in 0 .. 255 /\ t.flags \in 0 .. 255
    BY DEF Byte
  <2> QED
    BY <2>1, <2>2 DEF Bytes, Header
<1>2. /\ Bytes(p2, 2)
      /\ Bytes(p3, 2)
      /\ Bytes(p4, 2)
      /\ Bytes(p5, 2)
      /\ Bytes(p6, 2)
      /\ Bytes(p7, 2)
  BY ReportInts, NumberBytes
<1>3. Payload(t) = w7
  BY DEF Payload, Header
<1>4. Has(p1, 1, p1, 6)
  BY <1>1 DEF Has, Bytes
<1> HIDE DEF p1, p2, p3, p4, p5, p6, p7, w2, w3, w4, w5, w6, w7
<1>5. Joins(w2, p1, 6, p2, 2)
  BY <1>1, <1>2, Appended DEF w2
<1>6. /\ Bytes(w2, 8)
      /\ Has(w2, 1, p1, 6)
      /\ Has(w2, 7, p2, 2)
  <2>1. Bytes(w2, 8) /\ Has(w2, 7, p2, 2)
    BY <1>5 DEF Joins
  <2>2. /\ Has(w2, 1, p1, 6)
    BY <1>1, <1>4, <1>5, StillHas
  <2> QED
    BY <2>1, <2>2
<1>7. Joins(w3, w2, 8, p3, 2)
  BY <1>2, <1>6, Appended DEF w3
<1>8. /\ Bytes(w3, 10)
      /\ Has(w3, 1, p1, 6)
      /\ Has(w3, 7, p2, 2)
      /\ Has(w3, 9, p3, 2)
  <2>1. Bytes(w3, 10) /\ Has(w3, 9, p3, 2)
    BY <1>7 DEF Joins
  <2>2. /\ Has(w3, 1, p1, 6)
        /\ Has(w3, 7, p2, 2)
    BY <1>6, <1>7, StillHas
  <2> QED
    BY <2>1, <2>2
<1>9. Joins(w4, w3, 10, p4, 2)
  BY <1>2, <1>8, Appended DEF w4
<1>10. /\ Bytes(w4, 12)
       /\ Has(w4, 1, p1, 6)
       /\ Has(w4, 7, p2, 2)
       /\ Has(w4, 9, p3, 2)
       /\ Has(w4, 11, p4, 2)
  <2>1. Bytes(w4, 12) /\ Has(w4, 11, p4, 2)
    BY <1>9 DEF Joins
  <2>2. /\ Has(w4, 1, p1, 6)
        /\ Has(w4, 7, p2, 2)
        /\ Has(w4, 9, p3, 2)
    BY <1>8, <1>9, StillHas
  <2> QED
    BY <2>1, <2>2
<1>11. Joins(w5, w4, 12, p5, 2)
  BY <1>2, <1>10, Appended DEF w5
<1>12. /\ Bytes(w5, 14)
       /\ Has(w5, 1, p1, 6)
       /\ Has(w5, 7, p2, 2)
       /\ Has(w5, 9, p3, 2)
       /\ Has(w5, 11, p4, 2)
       /\ Has(w5, 13, p5, 2)
  <2>1. Bytes(w5, 14) /\ Has(w5, 13, p5, 2)
    BY <1>11 DEF Joins
  <2>2. /\ Has(w5, 1, p1, 6)
        /\ Has(w5, 7, p2, 2)
        /\ Has(w5, 9, p3, 2)
        /\ Has(w5, 11, p4, 2)
    BY <1>10, <1>11, StillHas
  <2> QED
    BY <2>1, <2>2
<1>13. Joins(w6, w5, 14, p6, 2)
  BY <1>2, <1>12, Appended DEF w6
<1>14. /\ Bytes(w6, 16)
       /\ Has(w6, 1, p1, 6)
       /\ Has(w6, 7, p2, 2)
       /\ Has(w6, 9, p3, 2)
       /\ Has(w6, 11, p4, 2)
       /\ Has(w6, 13, p5, 2)
       /\ Has(w6, 15, p6, 2)
  <2>1. Bytes(w6, 16) /\ Has(w6, 15, p6, 2)
    BY <1>13 DEF Joins
  <2>2. /\ Has(w6, 1, p1, 6)
        /\ Has(w6, 7, p2, 2)
        /\ Has(w6, 9, p3, 2)
        /\ Has(w6, 11, p4, 2)
        /\ Has(w6, 13, p5, 2)
    BY <1>12, <1>13, StillHas
  <2> QED
    BY <2>1, <2>2
<1>15. Joins(w7, w6, 16, p7, 2)
  BY <1>2, <1>14, Appended DEF w7
<1>16. /\ Bytes(w7, 18)
       /\ Has(w7, 1, p1, 6)
       /\ Has(w7, 7, p2, 2)
       /\ Has(w7, 9, p3, 2)
       /\ Has(w7, 11, p4, 2)
       /\ Has(w7, 13, p5, 2)
       /\ Has(w7, 15, p6, 2)
       /\ Has(w7, 17, p7, 2)
  <2>1. Bytes(w7, 18) /\ Has(w7, 17, p7, 2)
    BY <1>15 DEF Joins
  <2>2. /\ Has(w7, 1, p1, 6)
        /\ Has(w7, 7, p2, 2)
        /\ Has(w7, 9, p3, 2)
        /\ Has(w7, 11, p4, 2)
        /\ Has(w7, 13, p5, 2)
        /\ Has(w7, 15, p6, 2)
    BY <1>14, <1>15, StillHas
  <2> QED
    BY <2>1, <2>2
<1> QED
  BY <1>3, <1>16, SMTT(30) DEF PayloadPieces, p1, p2, p3, p4, p5, p6, p7

(* The two bytes of a number, back in a number as the driver does it. *)
LEMMA WordAt ==
  ASSUME NEW w, NEW v \in Int, NEW a \in Nat \ {0}, Has(w, a, ToBytes(v, 2), 2)
  PROVE  \E l, h, t, u : Parts(v, l, h) /\ Parts(h, t, u) /\ w[a] = l /\ w[a + 1] = t
<1>1. PICK b : b = ToBytes(v, 2)
  OBVIOUS
<1>2. b[1] = Low(v) /\ b[2] = Low(Rest(v))
  BY <1>1, WordBytes
<1>3. w[a] = b[1] /\ w[a + 1] = b[2]
  <2>1. \A i \in 1 .. 2 : w[a + i - 1] = b[i]
    BY <1>1 DEF Has
  <2>2. a + 1 - 1 = a /\ a + 2 - 1 = a + 1
    OBVIOUS
  <2>3. w[a + 1 - 1] = b[1] /\ w[a + 2 - 1] = b[2]
    BY <2>1
  <2> QED
    BY <2>2, <2>3
<1>4. PICK l, h : Parts(v, l, h)
  BY PartsExist
<1>5. PICK t, u : Parts(h, t, u)
  BY <1>4, PartsExist DEF Parts
<1>6. w[a] = l /\ w[a + 1] = t
  BY <1>2, <1>3, <1>4, <1>5, ZenonT(30) DEF Parts
<1> QED
  BY <1>4, <1>5, <1>6

(* An axis, read as the driver reads it. *)
LEMMA ShortRead ==
  ASSUME NEW w, NEW v \in Int, v \in Int16, NEW a \in Nat \ {0}, Has(w, a, ToBytes(v, 2), 2),
         NEW x, x = w[a] + w[a + 1] * 256
  PROVE  v = IF x >= 32768 THEN x - 65536 ELSE x
<1>1. PICK l, h, t, u : Parts(v, l, h) /\ Parts(h, t, u) /\ w[a] = l /\ w[a + 1] = t
  BY WordAt
<1>2. l \in 0 .. 255 /\ h \in Int /\ v = 256 * h + l /\ t \in 0 .. 255
  BY <1>1 DEF Parts
<1>3. h = IF t >= 128 THEN t - 256 ELSE t
  BY <1>1, HighByte
<1>4. x = l + t * 256
  BY <1>1
<1> QED
  BY <1>2, <1>3, <1>4

(* A trigger of ten bits becomes a byte. *)
Quarter(v) == v \div 4

ToByte(v) == v % 256

(* A trigger, read as the driver reads it. *)
LEMMA TriggerRead ==
  ASSUME NEW w, NEW v \in Int, v \in Trigger, NEW a \in Nat \ {0},
         Has(w, a, ToBytes(v, 2), 2), NEW x, x = w[a] + w[a + 1] * 256
  PROVE  ToByte(Quarter(x)) = Quarter(v) /\ Quarter(v) \in 0 .. 255
<1>1. PICK l, h, t, u : Parts(v, l, h) /\ Parts(h, t, u) /\ w[a] = l /\ w[a + 1] = t
  BY WordAt
<1>2. /\ l \in 0 .. 255 /\ h \in Int /\ v = 256 * h + l /\ t \in 0 .. 255
      /\ u \in Int /\ h = 256 * u + t
  BY <1>1 DEF Parts
<1>3. 0 <= v /\ v <= 1023
  BY DEF Trigger
<1>4. h = t
  <2>1. h \in 0 .. 3
    BY <1>2, <1>3
  <2>2. u = 0
    BY <1>2, <2>1
  <2> QED
    BY <1>2, <2>2
<1>5. x = v
  BY <1>1, <1>2, <1>4
<1>6. PICK q \in Int : q = v \div 4
  OBVIOUS
<1>7. q \in 0 .. 255
  BY <1>3, <1>6
<1>8. (q % 256) = q
  BY <1>7
<1>9. Quarter(v) = q /\ ToByte(q) = q
  BY <1>6, <1>8 DEF Quarter, ToByte
<1> QED
  BY <1>5, <1>7, <1>9

(* What the driver makes of a report. *)
Decoded(p, t) ==
  LET r == t.report
  IN  /\ p.buttons = FromBits({BTN[n] : n \in r.buttons})
      /\ p.lt = Quarter(r.lt) /\ p.rt = Quarter(r.rt)
      /\ p.lx = r.lx /\ p.ly = r.ly /\ p.rx = r.rx /\ p.ry = r.ry
      /\ p._pad = 0 /\ p.timestamp_us = t.now

(* The frame is the payload, counted from 0. *)
LEMMA FrameOf ==
  ASSUME NEW t, NEW b, b = FrameBytes(t)
  PROVE  \A i \in 0 .. 17 : b[i] = Payload(t)[i + 1]
BY DEF FrameBytes, BufSize

(* The driver finds in a frame what the controller put there. *)
LEMMA DecodedFrame ==
  ASSUME NEW t, t.cmd \in Byte, t.flags \in Byte, ReportOK(t.report)
  PROVE  Decoded(decode(FrameBytes(t), t.now), t)
<1>1. PICK b : b = FrameBytes(t)
  OBVIOUS
<1>2. PICK w : w = Payload(t)
  OBVIOUS
<1>3. PayloadPieces(w, t)
  BY <1>2, PayloadLayout
<1>4. PICK r : r = t.report /\ ReportOK(r)
  OBVIOUS
<1>5. /\ b[4] = w[5] /\ b[5] = w[6]
      /\ b[6] = w[7] /\ b[7] = w[8] /\ b[8] = w[9] /\ b[9] = w[10]
      /\ b[10] = w[11] /\ b[11] = w[12] /\ b[12] = w[13] /\ b[13] = w[14]
      /\ b[14] = w[15] /\ b[15] = w[16] /\ b[16] = w[17] /\ b[17] = w[18]
  <2>1. \A i \in 0 .. 17 : b[i] = w[i + 1]
    BY <1>1, <1>2, FrameOf
  <2> QED
    BY <2>1
<1> DEFINE word(i) == b[i] + b[i + 1] * 256
           int16(i) == IF word(i) >= 32768 THEN word(i) - 65536 ELSE word(i)
<1>6. b[4] = GipByte(GipBits.b4, r.buttons) /\ b[5] = GipByte(GipBits.b5, r.buttons)
  <2>1. Has(w, 1, Header(t), 6)
    BY <1>3 DEF PayloadPieces
  <2>2. \A i \in 1 .. 6 : w[1 + i - 1] = Header(t)[i]
    BY <2>1 DEF Has
  <2>3. w[5] = Header(t)[5] /\ w[6] = Header(t)[6]
    BY <2>2
  <2> QED
    BY <1>4, <1>5, <2>3 DEF Header
<1>7. ButtonBits(b) = FromBits({BTN[n] : n \in r.buttons})
  BY <1>4, <1>6, ReportInts, ButtonsDecoded
<1>8. ToByte(Quarter(word(6))) = Quarter(r.lt)
  <2>1. Has(w, 7, ToBytes(r.lt, 2), 2)
    BY <1>3, <1>4 DEF PayloadPieces
  <2>2. word(6) = w[7] + w[7 + 1] * 256
    BY <1>5
  <2>3. r.lt \in Int /\ r.lt \in Trigger
    BY <1>4, ReportInts
  <2>4. PICK x : x = word(6)
    OBVIOUS
  <2> HIDE DEF word
  <2>5. ToByte(Quarter(x)) = Quarter(r.lt)
    BY <2>1, <2>2, <2>3, <2>4, TriggerRead
  <2> QED
    BY <2>4, <2>5
<1>9. ToByte(Quarter(word(8))) = Quarter(r.rt)
  <2>1. Has(w, 9, ToBytes(r.rt, 2), 2)
    BY <1>3, <1>4 DEF PayloadPieces
  <2>2. word(8) = w[9] + w[9 + 1] * 256
    BY <1>5
  <2>3. r.rt \in Int /\ r.rt \in Trigger
    BY <1>4, ReportInts
  <2>4. PICK x : x = word(8)
    OBVIOUS
  <2> HIDE DEF word
  <2>5. ToByte(Quarter(x)) = Quarter(r.rt)
    BY <2>1, <2>2, <2>3, <2>4, TriggerRead
  <2> QED
    BY <2>4, <2>5
<1>10. int16(10) = r.lx
  <2>1. Has(w, 11, ToBytes(r.lx, 2), 2)
    BY <1>3, <1>4 DEF PayloadPieces
  <2>2. word(10) = w[11] + w[11 + 1] * 256
    BY <1>5
  <2>3. r.lx \in Int /\ r.lx \in Int16
    BY <1>4, ReportInts
  <2> HIDE DEF word
  <2>4. r.lx = IF word(10) >= 32768 THEN word(10) - 65536 ELSE word(10)
    BY <2>1, <2>2, <2>3, ShortRead
  <2> QED
    BY <2>4
<1>11. int16(12) = r.ly
  <2>1. Has(w, 13, ToBytes(r.ly, 2), 2)
    BY <1>3, <1>4 DEF PayloadPieces
  <2>2. word(12) = w[13] + w[13 + 1] * 256
    BY <1>5
  <2>3. r.ly \in Int /\ r.ly \in Int16
    BY <1>4, ReportInts
  <2> HIDE DEF word
  <2>4. r.ly = IF word(12) >= 32768 THEN word(12) - 65536 ELSE word(12)
    BY <2>1, <2>2, <2>3, ShortRead
  <2> QED
    BY <2>4
<1>12. int16(14) = r.rx
  <2>1. Has(w, 15, ToBytes(r.rx, 2), 2)
    BY <1>3, <1>4 DEF PayloadPieces
  <2>2. word(14) = w[15] + w[15 + 1] * 256
    BY <1>5
  <2>3. r.rx \in Int /\ r.rx \in Int16
    BY <1>4, ReportInts
  <2> HIDE DEF word
  <2>4. r.rx = IF word(14) >= 32768 THEN word(14) - 65536 ELSE word(14)
    BY <2>1, <2>2, <2>3, ShortRead
  <2> QED
    BY <2>4
<1>13. int16(16) = r.ry
  <2>1. Has(w, 17, ToBytes(r.ry, 2), 2)
    BY <1>3, <1>4 DEF PayloadPieces
  <2>2. word(16) = w[17] + w[17 + 1] * 256
    BY <1>5
  <2>3. r.ry \in Int /\ r.ry \in Int16
    BY <1>4, ReportInts
  <2> HIDE DEF word
  <2>4. r.ry = IF word(16) >= 32768 THEN word(16) - 65536 ELSE word(16)
    BY <2>1, <2>2, <2>3, ShortRead
  <2> QED
    BY <2>4
<1>14. decode(b, t.now) =
         [buttons |-> ButtonBits(b),
          lt |-> ToByte(Quarter(word(6))), rt |-> ToByte(Quarter(word(8))),
          lx |-> int16(10), ly |-> int16(12), rx |-> int16(14), ry |-> int16(16),
          _pad |-> 0, timestamp_us |-> t.now]
  BY DEF decode, ToByte, Quarter
<1> HIDE DEF word, int16
<1> QED
  BY <1>1, <1>4, <1>7, <1>8, <1>9, <1>10, <1>11, <1>12, <1>13, <1>14 DEF Decoded

-------------------------------------------------------------------------------
(* The way of the packets *)

(* Packet p is what report f was decoded to. *)
Encodes(p, f) ==
  /\ WholeReport(Transfers[f])
  /\ p = decode(FrameBytes(Transfers[f]), Transfers[f].now)

Carried(q, s) ==
  /\ Len(q) = Len(s)
  /\ \A k \in 1 .. Len(q) : Encodes(q[k], s[k])

LEMMA PutCarried ==
  ASSUME NEW q \in Seq(Packet), NEW s \in Seq(Frames), Carried(q, s),
         NEW p \in Packet, NEW f \in Frames, Encodes(p, f),
         NEW cap \in Nat \ {0}
  PROVE  Carried(PutDroppingOldest(q, p, cap), PutDroppingOldest(s, f, cap))
<1>1. PICK q1 \in Seq(Packet) : q1 = PutDroppingOldest(q, p, cap)
  BY PutProperties
<1>2. PICK s1 \in Seq(Frames) : s1 = PutDroppingOldest(s, f, cap)
  BY PutProperties
<1>3. PICK n \in Nat : n = Len(q) /\ n = Len(s)
  BY LenProperties DEF Carried
<1>4. PICK lost \in 0 .. 1 : lost = Lost(q, cap)
  BY DEF Lost
<1>5. lost = Lost(s, cap)
  BY <1>3, <1>4 DEF Lost
<1>6. PutResult(q, p, lost, q1)
  BY <1>1, <1>4, PutResultOf
<1>7. PutResult(s, f, lost, s1)
  BY <1>2, <1>5, PutResultOf
<1>8. Len(q1) = n + 1 - lost /\ Len(s1) = n + 1 - lost
  BY <1>3, <1>6, <1>7 DEF PutResult
<1>9. PICK m \in Nat : m = n + 1 - lost
  OBVIOUS
<1>10. ASSUME NEW k \in 1 .. m PROVE Encodes(q1[k], s1[k])
  <2>1. CASE k = m
    BY <1>6, <1>7, <1>8, <1>9, <2>1 DEF PutResult
  <2>2. CASE k # m
    <3>1. k \in 1 .. m - 1 /\ k + lost \in 1 .. n
      BY <1>9, <2>2
    <3>2. q1[k] = q[k + lost] /\ s1[k] = s[k + lost]
      BY <1>6, <1>7, <1>8, <1>9, <3>1 DEF PutResult
    <3>3. Encodes(q[k + lost], s[k + lost])
      BY <1>3, <3>1 DEF Carried
    <3> QED
      BY <3>2, <3>3
  <2> QED
    BY <2>1, <2>2
<1>11. Carried(q1, s1)
  BY <1>8, <1>9, <1>10 DEF Carried
<1> QED
  BY <1>1, <1>2, <1>11

LEMMA TailCarried ==
  ASSUME NEW q \in Seq(Packet), NEW s \in Seq(Frames), Carried(q, s), q # <<>>
  PROVE  s # <<>> /\ Tail(s) \in Seq(Frames) /\ Carried(Tail(q), Tail(s))
<1>1. PICK n \in Nat : n = Len(q) /\ n = Len(s)
  BY LenProperties DEF Carried
<1>2. s # <<>>
  BY <1>1, EmptySeq
<1>3. PICK q1 \in Seq(Packet) : q1 = Tail(q)
  BY TailProperties
<1>4. PICK s1 \in Seq(Frames) : s1 = Tail(s)
  BY <1>2, TailProperties
<1>5. n > 0 /\ Len(q1) = n - 1 /\ \A k \in 1 .. n - 1 : q1[k] = q[k + 1]
  BY <1>1, <1>3, TailProperties
<1>6. Len(s1) = n - 1 /\ \A k \in 1 .. n - 1 : s1[k] = s[k + 1]
  BY <1>1, <1>2, <1>4, TailProperties
<1>7. ASSUME NEW k \in 1 .. n - 1 PROVE Encodes(q1[k], s1[k])
  <2>1. k + 1 \in 1 .. n
    OBVIOUS
  <2>2. Encodes(q[k + 1], s[k + 1])
    BY <1>1, <2>1 DEF Carried
  <2> QED
    BY <1>5, <1>6, <2>2
<1>8. Carried(q1, s1)
  BY <1>5, <1>6, <1>7 DEF Carried
<1> QED
  BY <1>2, <1>3, <1>4, <1>8

(* Only whole reports are put into the ring, and the bytes that a shorter  *)
(* transfer left in the buffer never get there.                            *)
LEMMA InputIsWhole ==
  ASSUME NEW f \in Frames
  PROVE  /\ is_input(Transfers[f]) <=> WholeReport(Transfers[f])
         /\ is_input(Transfers[f]) => Filled(Transfers[f]) = FrameBytes(Transfers[f])
<1>1. PICK t : t = Transfers[f]
  OBVIOUS
<1>2. t \in [cmd : Byte, flags : Byte, status : {"0", "EOVERFLOW"},
             length : 0 .. XBOX_PKT_SIZE, report : Reports, now : Nat]
  <2>1. PICK T : T = [cmd : Byte, flags : Byte, status : {"0", "EOVERFLOW"},
                      length : 0 .. XBOX_PKT_SIZE, report : Reports, now : Nat]
    OBVIOUS
  <2>2. Transfers \in Seq(T)
    BY <2>1, PathAssumption
  <2>3. f \in 1 .. Len(Transfers)
    BY <2>2, LenProperties DEF Frames
  <2>4. Transfers[f] \in T
    BY <2>2, <2>3, ElementOfSeq
  <2> QED
    BY <1>1, <2>1, <2>4
<1>3. t.length \in 0 .. 32 /\ BufSize = 18
  BY <1>2 DEF BufSize, XBOX_PKT_SIZE
<1>4. is_input(t) <=> WholeReport(t)
  BY <1>3 DEF is_input, WholeReport
<1>5. is_input(t) => t.length >= BufSize
  BY <1>3 DEF is_input
<1>6. is_input(t) => Filled(t) = FrameBytes(t)
  BY <1>3, <1>5 DEF Filled, FrameBytes
<1> QED
  BY <1>1, <1>4, <1>6

PathInv ==
  /\ RingTypeOK
  /\ sent \in Seq(Frames)
  /\ Carried(Contents, sent)

LEMMA ContentsSeq ==
  ASSUME RingTypeOK
  PROVE  Contents \in Seq(Packet) /\ Len(Contents) = Count
<1>1. PICK n \in 0 .. RingSize - 1 : n = CountOf(r_head, r_tail)
  BY CountValue DEF RingTypeOK
<1>2. Shape(ring, r_tail, n, ContentsOf(ring, r_head, r_tail))
  BY <1>1, ContentsShape DEF RingTypeOK
<1> QED
  BY <1>1, <1>2, ContentsIs DEF Shape, Count, CountOf

LEMMA PathStart == PathInit => PathInv
<1> SUFFICES ASSUME PathInit PROVE PathInv
  OBVIOUS
<1>1. RingTypeOK /\ Contents = <<>> /\ sent = <<>>
  BY RingStart DEF PathInit
<1> QED
  BY <1>1 DEF PathInv, Carried

LEMMA CompleteStep ==
  ASSUME PathInv, NEW f \in Frames, rumble_urb_complete(f)
  PROVE  /\ PathInv'
         /\ (\E p \in Packet : ring_put(p)) \/ UNCHANGED ringVars
<1>1. CASE is_input(Transfers[f])
  <2>1. PICK p \in Packet : p = decode(FrameBytes(Transfers[f]), Transfers[f].now)
    BY <1>1, PacketAssumption
  <2>2. ring_put(p)
    BY <1>1, <2>1, InputIsWhole DEF rumble_urb_complete
  <2>3. /\ RingTypeOK'
        /\ Contents' = PutDroppingOldest(Contents, p, RingSize - 1)
    BY <2>2, PutStep DEF PathInv
  <2>4. sent' = PutDroppingOldest(sent, f, RingSize - 1)
    BY <1>1, InputIsWhole DEF rumble_urb_complete
  <2>5. RingSize - 1 \in Nat \ {0}
    BY RingAssumption
  <2>6. Encodes(p, f)
    BY <1>1, <2>1, InputIsWhole DEF Encodes
  <2>7. Contents \in Seq(Packet) /\ sent \in Seq(Frames) /\ Carried(Contents, sent)
    BY ContentsSeq DEF PathInv
  <2>8. Carried(Contents', sent')
    BY <2>3, <2>4, <2>5, <2>6, <2>7, PutCarried
  <2>9. sent' \in Seq(Frames)
    BY <2>4, <2>5, <2>7, PutProperties
  <2> QED
    BY <2>2, <2>3, <2>8, <2>9 DEF PathInv
<1>2. CASE ~is_input(Transfers[f])
  <2>1. UNCHANGED ringVars /\ sent' = sent
    BY <1>2, InputIsWhole DEF rumble_urb_complete
  <2> QED
    BY <2>1, IdleStep DEF PathInv
<1> QED
  BY <1>1, <1>2

LEMMA ReadStep ==
  ASSUME PathInv, rumble_read
  PROVE  PathInv' /\ ring_get
<1>1. ring_get /\ sent' = IF sent = <<>> THEN sent ELSE Tail(sent)
  BY DEF rumble_read
<1>2. /\ RingTypeOK'
      /\ \/ Contents = <<>> /\ Contents' = Contents
         \/ Contents # <<>> /\ Contents' = Tail(Contents)
  BY <1>1, GetStep DEF PathInv
<1>3. Contents \in Seq(Packet) /\ sent \in Seq(Frames) /\ Carried(Contents, sent)
  BY ContentsSeq DEF PathInv
<1>4. CASE Contents = <<>>
  <2>1. sent = <<>>
    BY <1>3, <1>4, EmptySeq DEF Carried
  <2> QED
    BY <1>1, <1>2, <1>3, <1>4, <2>1 DEF PathInv
<1>5. CASE Contents # <<>>
  <2>1. sent # <<>> /\ Tail(sent) \in Seq(Frames) /\ Carried(Tail(Contents), Tail(sent))
    BY <1>3, <1>5, TailCarried
  <2> QED
    BY <1>1, <1>2, <1>5, <2>1 DEF PathInv
<1> QED
  BY <1>4, <1>5

LEMMA PathStep ==
  PathInv /\ [PathNext]_vars => PathInv' /\ [Queue!QNext]_(Queue!queueVars)
<1> SUFFICES ASSUME PathInv, [PathNext]_vars
             PROVE  PathInv' /\ [Queue!QNext]_(Queue!queueVars)
  OBVIOUS
<1>1. RingTypeOK
  BY DEF PathInv
<1>2. ASSUME NEW f \in Frames, rumble_urb_complete(f)
      PROVE  PathInv' /\ [Queue!QNext]_(Queue!queueVars)
  BY <1>1, <1>2, CompleteStep, QueueStep
<1>3. CASE rumble_read
  BY <1>1, <1>3, ReadStep, QueueStep
<1>4. CASE UNCHANGED vars
  <2>1. UNCHANGED ringVars /\ sent' = sent
    BY <1>4 DEF vars
  <2> QED
    BY <1>1, <2>1, IdleStep, QueueStep DEF PathInv
<1> QED
  BY <1>2, <1>3, <1>4 DEF PathNext

LEMMA PathInvariant == PathSpec => []PathInv
BY PathStart, PathStep, PTL DEF PathSpec

(* The same of the ring as the driver uses it: filled by the completion    *)
(* handler, emptied by reads (rumble.c:222-285, 395-450).                  *)
THEOREM PathRingCorrect == PathSpec => RingIsQueue
<1>1. PathInit => Queue!QInit
  BY RingStart DEF PathInit, RingInit, Queue!QInit
<1> QED
  BY <1>1, PathInvariant, PathStep, PTL DEF PathSpec, RingIsQueue, Queue!QSpec

(* A transfer of the table, field by field. *)
LEMMA TransferType ==
  ASSUME NEW f \in Frames
  PROVE  /\ Transfers[f].cmd \in Byte /\ Transfers[f].flags \in Byte
         /\ Transfers[f].length \in 0 .. XBOX_PKT_SIZE
         /\ ReportOK(Transfers[f].report)
         /\ Transfers[f].now \in Nat /\ Shifted(Transfers[f].now)[8] = 0
<1>1. PICK T : T = [cmd : Byte, flags : Byte, status : {"0", "EOVERFLOW"},
                    length : 0 .. XBOX_PKT_SIZE, report : Reports, now : Nat]
  OBVIOUS
<1>2. Transfers \in Seq(T)
  BY <1>1, PathAssumption
<1>3. f \in 1 .. Len(Transfers)
  BY <1>2, LenProperties DEF Frames
<1>4. Transfers[f] \in T
  BY <1>2, <1>3, ElementOfSeq
<1>5. /\ Transfers[f].cmd \in Byte /\ Transfers[f].flags \in Byte
      /\ Transfers[f].length \in 0 .. XBOX_PKT_SIZE
      /\ Transfers[f].report \in Reports /\ Transfers[f].now \in Nat
  BY <1>1, <1>4
<1>6. \A r \in Reports : ReportOK(r)
  <2>1. PICK S : S = Int16
    OBVIOUS
  <2>2. PICK T10 : T10 = Trigger
    OBVIOUS
  <2>3. S = Int16 /\ T10 = 0 .. 1023
    BY <2>1, <2>2 DEF Trigger
  <2>4. Reports \subseteq [buttons : SUBSET Buttons, lt : T10, rt : T10,
                           lx : S, ly : S, rx : S, ry : S]
    BY <2>3, PathAssumption
  <2> QED
    BY <2>1, <2>2, <2>4 DEF ReportOK
<1>7. Shifted(Transfers[f].now)[8] = 0
  BY PathAssumption DEF Frames
<1> QED
  BY <1>5, <1>6, <1>7

(* The values of a packet that a report was decoded to. *)
LEMMA PacketFields ==
  ASSUME NEW f \in Frames, NEW p, Decoded(p, Transfers[f])
  PROVE  Fields(p)
<1>1. PICK t : t = Transfers[f]
  OBVIOUS
<1>2. PICK r : r = t.report /\ ReportOK(r)
  BY <1>1, TransferType
<1>3. p.buttons \in Word
  BY <1>1, WordOfBits DEF Decoded
<1>4. ASSUME NEW v \in Int, v \in Trigger PROVE Quarter(v) \in 0 .. 255
  <2>1. 0 <= v /\ v <= 1023
    BY <1>4 DEF Trigger
  <2>2. v \div 4 \in 0 .. 255
    BY <2>1
  <2> QED
    BY <2>2 DEF Quarter
<1>5. p.lt \in 0 .. 255 /\ p.rt \in 0 .. 255
  <2>1. p.lt = Quarter(r.lt) /\ p.rt = Quarter(r.rt)
    BY <1>1, <1>2 DEF Decoded
  <2>2. r.lt \in Int /\ r.lt \in Trigger /\ r.rt \in Int /\ r.rt \in Trigger
    BY <1>2, ReportInts
  <2>3. Quarter(r.lt) \in 0 .. 255 /\ Quarter(r.rt) \in 0 .. 255
    BY <1>4, <2>2
  <2> QED
    BY <2>1, <2>3
<1>6. p.lx \in Int16 /\ p.ly \in Int16 /\ p.rx \in Int16 /\ p.ry \in Int16
  BY <1>1, <1>2, ReportInts DEF Decoded
<1>7. p._pad = 0 /\ p.timestamp_us \in Nat /\ Shifted(p.timestamp_us)[8] = 0
  BY <1>1, TransferType DEF Decoded
<1> QED
  BY <1>3, <1>5, <1>6, <1>7 DEF Fields

(* What a program sees of a packet is what the report said. *)
LEMMA ReportSeen ==
  ASSUME NEW f \in Frames, NEW p, Encodes(p, f)
  PROVE  Decoded(p, Transfers[f]) /\ Fields(p) /\ Seen(p) = Meaning(Transfers[f])
<1>1. PICK t : t = Transfers[f]
  OBVIOUS
<1>2. PICK r : r = t.report
  OBVIOUS
<1>3. Decoded(p, t)
  BY <1>1, TransferType, DecodedFrame DEF Encodes
<1>4. Fields(p)
  BY <1>1, <1>3, PacketFields
<1>5. PICK s : s = parse(StructBytes(p))
  OBVIOUS
<1>6. s = [buttons |-> p.buttons, lt |-> p.lt, rt |-> p.rt,
           lx |-> p.lx, ly |-> p.ly, rx |-> p.rx, ry |-> p.ry,
           timestamp_us |-> p.timestamp_us]
  BY <1>4, <1>5, ParseInverts
<1>7. {b \in Buttons : btn(s, b)} = r.buttons
  <2>1. s.buttons = FromBits({BTN[n] : n \in r.buttons})
    BY <1>2, <1>3, <1>6 DEF Decoded
  <2>2. r.buttons \in SUBSET Buttons
    BY <1>1, <1>2, TransferType, ReportInts
  <2> QED
    BY <2>1, <2>2, ButtonsSeen
<1>8. Seen(p) = [buttons |-> r.buttons, lt |-> p.lt, rt |-> p.rt,
                 lx |-> p.lx, ly |-> p.ly, rx |-> p.rx, ry |-> p.ry,
                 timestamp_us |-> p.timestamp_us]
  <2>1. Seen(p) = [s EXCEPT !.buttons = {b \in Buttons : btn(s, b)}]
    BY <1>5 DEF Seen
  <2>2. Seen(p) = [s EXCEPT !.buttons = r.buttons]
    BY <1>7, <2>1
  <2> QED
    BY <1>6, <2>2
<1>9. Meaning(t) = [buttons |-> r.buttons, lt |-> Quarter(r.lt), rt |-> Quarter(r.rt),
                    lx |-> r.lx, ly |-> r.ly, rx |-> r.rx, ry |-> r.ry,
                    timestamp_us |-> t.now]
  BY <1>2 DEF Meaning, Quarter
<1>10. Seen(p) = Meaning(t)
  BY <1>2, <1>3, <1>8, <1>9 DEF Decoded
<1> QED
  BY <1>1, <1>3, <1>4, <1>10

(* What a program reads is what the controller sent. *)
THEOREM SampleCorrect == PathSpec => []SampleFaithful
<1>1. PathInv => SampleFaithful
  <2> SUFFICES ASSUME PathInv PROVE SampleFaithful
    OBVIOUS
  <2>1. /\ Contents \in Seq(Packet) /\ Len(Contents) = Count
        /\ sent \in Seq(Frames) /\ Carried(Contents, sent)
    BY ContentsSeq DEF PathInv
  <2>2. Count = Len(sent)
    BY <2>1 DEF Carried
  <2>3. ASSUME NEW k \in 1 .. Count
        PROVE  Seen(Contents[k]) = Meaning(Transfers[sent[k]])
    <3>1. PICK f \in Frames : f = sent[k]
      BY <2>1, <2>2, ElementOfSeq
    <3>2. Encodes(Contents[k], f)
      BY <2>1, <3>1 DEF Carried
    <3> QED
      BY <3>1, <3>2, ReportSeen
  <2> QED
    BY <2>2, <2>3 DEF SampleFaithful
<1> QED
  BY <1>1, PathInvariant, PTL

(* The bytes of a report are bytes, and so is what a transfer, whole or    *)
(* cut short, leaves in the buffer.                                        *)
LEMMA FrameOfBytes ==
  ASSUME NEW f \in Frames
  PROVE  \A i \in 0 .. BufSize - 1 : FrameBytes(Transfers[f])[i] \in Byte
<1>1. PICK t : t = Transfers[f]
  OBVIOUS
<1>2. PICK w : w = Payload(t)
  OBVIOUS
<1>3. w \in Seq(0 .. 255) /\ Len(w) = 18
  BY <1>1, <1>2, TransferType, PayloadLayout DEF Bytes
<1>4. \A i \in 1 .. 18 : w[i] \in 0 .. 255
  BY <1>3, ElementOfSeq
<1>5. \A i \in 0 .. 17 : FrameBytes(t)[i] = w[i + 1]
  BY <1>2, FrameOf
<1>6. \A i \in 0 .. 17 : i + 1 \in 1 .. 18
  OBVIOUS
<1>7. \A i \in 0 .. 17 : FrameBytes(t)[i] \in Byte
  BY <1>4, <1>5, <1>6 DEF Byte
<1> QED
  BY <1>1, <1>7 DEF BufSize

BufOK == buf \in [0 .. BufSize - 1 -> Byte]

LEMMA BufStart == PathInit => BufOK
BY DEF PathInit, BufOK, Byte

LEMMA BufStep == BufOK /\ [PathNext]_vars => BufOK'
<1> SUFFICES ASSUME BufOK, [PathNext]_vars PROVE BufOK'
  OBVIOUS
<1>1. ASSUME NEW f \in Frames, rumble_urb_complete(f) PROVE BufOK'
  <2>1. buf' = Filled(Transfers[f])
    BY <1>1 DEF rumble_urb_complete
  <2>2. \A i \in 0 .. BufSize - 1 : FrameBytes(Transfers[f])[i] \in Byte
    BY FrameOfBytes
  <2> QED
    BY <2>1, <2>2 DEF Filled, BufOK
<1>2. CASE rumble_read
  BY <1>2 DEF rumble_read, BufOK
<1>3. CASE UNCHANGED vars
  BY <1>3 DEF vars, BufOK
<1> QED
  BY <1>1, <1>2, <1>3 DEF PathNext

(* The indices of the ring stay inside the array, the buffer holds bytes   *)
(* and the ring packets, whatever the transfers bring (rumble.c:158-285).  *)
THEOREM PathTypeCorrect == PathSpec => []PathTypeOK
<1>1. PathInv /\ BufOK => PathTypeOK
  BY DEF PathInv, BufOK, PathTypeOK
<1> QED
  BY <1>1, PathInvariant, BufStart, BufStep, PTL DEF PathSpec

(* What the last read returned, if it returned anything, was decoded from  *)
(* a whole report.                                                         *)
GotInv == got # NoPacket => \E f \in Frames : Encodes(got, f)

LEMMA GotStart == PathInit => GotInv
BY DEF PathInit, RingInit, GotInv

LEMMA GotStep == PathInv /\ GotInv /\ [PathNext]_vars => GotInv'
<1> SUFFICES ASSUME PathInv, GotInv, [PathNext]_vars PROVE GotInv'
  OBVIOUS
<1>1. RingTypeOK
  BY DEF PathInv
<1>2. ASSUME NEW f \in Frames, rumble_urb_complete(f) PROVE GotInv'
  <2>1. got' = got
    BY <1>2 DEF rumble_urb_complete, ring_put, ringVars
  <2> QED
    BY <2>1 DEF GotInv, Encodes
<1>3. CASE rumble_read
  <2>1. ring_get
    BY <1>3 DEF rumble_read
  <2>2. /\ Contents \in Seq(Packet) /\ sent \in Seq(Frames) /\ Len(Contents) = Len(sent)
        /\ \A k \in 1 .. Len(Contents) : Encodes(Contents[k], sent[k])
    BY <1>1, ContentsSeq DEF PathInv, Carried
  <2>3. CASE got' = NoPacket
    BY <2>3 DEF GotInv
  <2>4. CASE Contents # <<>> /\ got' = Head(Contents)
    <3>1. 1 \in 1 .. Len(Contents) /\ got' = Contents[1]
      BY <2>2, <2>4, EmptySeq, LenProperties
    <3>2. sent[1] \in Frames /\ Encodes(got', sent[1])
      BY <2>2, <3>1, ElementOfSeq
    <3> QED
      BY <3>2 DEF GotInv, Encodes
  <2> QED
    BY <1>1, <2>1, <2>3, <2>4, GetStep
<1>4. CASE UNCHANGED vars
  BY <1>4 DEF vars, ringVars, GotInv, Encodes
<1> QED
  BY <1>2, <1>3, <1>4 DEF PathNext

(* The three programs agree about a packet with the driver's fields.       *)
LEMMA FieldsAgree ==
  ASSUME NEW p, Fields(p), p = got
  PROVE  InputAgrees
<1>1. PICK raw : raw = StructBytes(p)
  OBVIOUS
<1>2. PICK s : s = parse(raw)
  OBVIOUS
<1>3. s = [buttons |-> p.buttons, lt |-> p.lt, rt |-> p.rt,
           lx |-> p.lx, ly |-> p.ly, rx |-> p.rx, ry |-> p.ry,
           timestamp_us |-> p.timestamp_us]
  BY <1>1, <1>2, ParseInverts
<1>4. Len(raw) = calcsize(abi_INPUT_FMT)
  <2>1. Len(raw) = 22
    BY <1>1, FieldsAreInts, StructLayout DEF Bytes
  <2>2. PICK fmt : fmt = Format(Letters)
    OBVIOUS
  <2>3. Len(fmt) = 9 /\ fmt[9].last = 22
    BY <2>2, FieldPlaces
  <2>4. abi_INPUT_FMT = fmt
    BY <2>2 DEF abi_INPUT_FMT, Letters
  <2> QED
    BY <2>1, <2>3, <2>4 DEF calcsize
<1>5. teleop_INPUT_FMT = abi_INPUT_FMT /\ mouse_INPUT_FMT = abi_INPUT_FMT
  BY DEF teleop_INPUT_FMT, abi_INPUT_FMT, mouse_INPUT_FMT
<1>6. lit(s) = {b \in Buttons : HasBit(p.buttons, BTN[b])}
  BY <1>3, LitButtons
<1>7. \A b \in DOMAIN mouse_BTN : HasBit(s.buttons, mouse_BTN[b]) <=> b \in lit(s)
  BY <1>3, <1>6, MouseButtons
<1>8. s.lx \in Int16 /\ s.ly \in Int16 /\ s.rx \in Int16 /\ s.ry \in Int16
  BY <1>3 DEF Fields
<1>9. fill_h(s.lt) \in 0 .. 120 /\ fill_h(s.rt) \in 0 .. 120
  <2>1. s.lt \in 0 .. 255 /\ s.rt \in 0 .. 255
    BY <1>3 DEF Fields
  <2> QED
    BY <2>1, Bars
<1>10. Abs(linear_x(s)) <= 65536 /\ Abs(angular_z(s)) <= 98304
  BY <1>8, Velocities
<1>11. \A v \in {s.lx, s.ly, s.rx, s.ry} :
         /\ Sign(axis_to_unit(v)) \in {0, Sign(v)}
         /\ mouse_unit(v) # 0 => Sign(mouse_unit(v)) = Sign(axis_to_unit(v))
         /\ Abs(mouse_unit(v)) <= 28768
         /\ Abs(dot_x(v) - 75 * 32768) <= 70 * 32768
         /\ Abs(dot_y(v) - 75 * 32768) <= 70 * 32768
  <2>1. \A v \in {s.lx, s.ly, s.rx, s.ry} : v \in Int16
    BY <1>8
  <2> QED
    BY <2>1, NodeAxis, MouseAxis, Dots
<1> QED
  BY <1>1, <1>2, <1>4, <1>5, <1>6, <1>7, <1>9, <1>10, <1>11 DEF InputAgrees

(* The driver and its three users agree about every packet that is read:   *)
(* its layout, its buttons, its axes and its triggers, and about the       *)
(* number of the motor ioctl (abi.py, buttons.py:15-25, sticks.py,         *)
(* triggers.py, rumble_teleop_node.py:50-115, rumble_mouse.py:24-60,       *)
(* rumble.h:31-72).                                                        *)
THEOREM ClientsCorrect == PathSpec => []ClientsAgree
<1>1. GotInv => ClientsAgree
  <2> SUFFICES ASSUME GotInv PROVE ClientsAgree
    OBVIOUS
  <2>1. InputAgrees
    <3>1. CASE got = NoPacket
      BY <3>1 DEF InputAgrees
    <3>2. CASE got # NoPacket
      <4>1. PICK f \in Frames : Encodes(got, f)
        BY <3>2 DEF GotInv
      <4> QED
        BY <4>1, ReportSeen, FieldsAgree
    <3> QED
      BY <3>1, <3>2
  <2> QED
    BY <2>1, IoctlNumbers DEF ClientsAgree
<1> QED
  BY <1>1, PathInvariant, GotStart, GotStep, PTL DEF PathSpec
===============================================================================
