-------------------------- MODULE BoundedQueueProofs --------------------------
(***************************************************************************)
(* What the put of a bounded queue and the removal of its first entry do   *)
(* to a sequence: the lemmas that the proofs about every module with a     *)
(* buffer share.                                                           *)
(***************************************************************************)
EXTENDS BoundedQueue, Integers, Sequences, SequenceTheorems,
        WellFoundedInduction, TLAPS

(* Induction, stated of a set of numbers instead of a predicate: a number  *)
(* outside of the set would have a smallest one among its like.            *)
LEMMA SetInduction ==
  ASSUME NEW S, 0 \in S, \A n \in Nat : n \in S => n + 1 \in S
  PROVE  \A n \in Nat : n \in S
<1> SUFFICES ASSUME NEW x \in Nat, x \notin S PROVE FALSE
  OBVIOUS
<1>1. PICK T : T = Nat \ S
  OBVIOUS
<1>2. T # {} /\ T \subseteq Nat
  BY <1>1
<1>3. PICK R : R = OpToRel(<, Nat)
  OBVIOUS
<1>4. \A a, b \in Nat : a < b => <<a, b>> \in R
  BY <1>3 DEF OpToRel
<1>5. IsWellFoundedOn(R, Nat)
  BY <1>3, NatLessThanWellFounded
<1>6. PICK m \in T : \A y \in T : ~(<<y, m>> \in R)
  BY <1>2, <1>5, WFMin
<1>7. m \in Nat /\ m \notin S
  BY <1>1
<1>8. m # 0
  BY <1>7
<1>9. PICK p \in Nat : p + 1 = m /\ p < m
  BY <1>7, <1>8
<1>10. p \in S
  BY <1>1, <1>4, <1>6, <1>7, <1>9
<1> QED
  BY <1>7, <1>9, <1>10

(* How many entries a put loses. *)
Lost(q, cap) == IF Len(q) >= cap THEN 1 ELSE 0

(* The new entry is the last one, and the entries before it are the newest *)
(* of the old ones, in their order.                                        *)
LEMMA PutProperties ==
  ASSUME NEW S, NEW q \in Seq(S), NEW e \in S, NEW cap \in Nat \ {0},
         NEW r, r = PutDroppingOldest(q, e, cap),
         NEW lost, lost = Lost(q, cap)
  PROVE  /\ r \in Seq(S)
         /\ r # <<>>
         /\ Len(r) = Len(q) + 1 - lost
         /\ \A k \in 1 .. Len(r) - 1 : r[k] = q[k + lost]
         /\ r[Len(r)] = e
         /\ Len(q) \in Nat /\ Len(r) \in Nat
<1> DEFINE kept == IF Len(q) >= cap THEN Tail(q) ELSE q
<1>1. /\ kept \in Seq(S)
      /\ Len(kept) = Len(q) - lost
      /\ \A k \in 1 .. Len(kept) : kept[k] = q[k + lost]
  <2>1. CASE Len(q) >= cap
    <3>1. q # <<>>
      BY <2>1, EmptySeq
    <3> QED
      BY <2>1, <3>1, HeadTailProperties, LenProperties DEF Lost
  <2>2. CASE ~(Len(q) >= cap)
    <3>1. kept = q /\ lost = 0 /\ Len(q) \in Nat
      BY <2>2, LenProperties DEF Lost
    <3> HIDE DEF kept
    <3> QED
      BY <3>1
  <2> QED
    BY <2>1, <2>2
<1>2. r = Append(kept, e)
  BY DEF PutDroppingOldest
<1>3. Len(q) \in Nat /\ Len(kept) \in Nat /\ lost \in 0 .. 1
  BY <1>1, LenProperties DEF Lost
<1> HIDE DEF kept
<1>4. /\ r \in Seq(S) /\ r # <<>> /\ Len(r) = Len(kept) + 1
      /\ \A k \in 1 .. Len(kept) : r[k] = kept[k]
      /\ r[Len(kept) + 1] = e
  BY <1>1, <1>2, AppendProperties
<1>5. Len(r) \in Nat /\ Len(r) - 1 = Len(kept)
  BY <1>3, <1>4
<1>6. \A k \in 1 .. Len(r) - 1 : r[k] = q[k + lost]
  BY <1>1, <1>4, <1>5
<1>7. r[Len(r)] = e
  BY <1>4
<1> QED
  BY <1>1, <1>3, <1>4, <1>5, <1>6, <1>7

(* The same as one fact about r. *)
PutResult(q, e, lost, r) ==
  /\ Len(r) = Len(q) + 1 - lost
  /\ \A k \in 1 .. Len(r) - 1 : r[k] = q[k + lost]
  /\ r[Len(r)] = e

LEMMA PutResultOf ==
  ASSUME NEW S, NEW q \in Seq(S), NEW e \in S, NEW cap \in Nat \ {0},
         NEW r, r = PutDroppingOldest(q, e, cap),
         NEW lost, lost = Lost(q, cap)
  PROVE  PutResult(q, e, lost, r)
BY PutProperties DEF PutResult

(* A full queue stays full, and no queue grows beyond its capacity. *)
LEMMA PutBounded ==
  ASSUME NEW S, NEW q \in Seq(S), NEW e \in S, NEW cap \in Nat \ {0},
         Len(q) <= cap
  PROVE  Len(PutDroppingOldest(q, e, cap)) <= cap
<1> DEFINE r    == PutDroppingOldest(q, e, cap)
           lost == Lost(q, cap)
<1>1. Len(q) \in Nat /\ (lost = IF Len(q) >= cap THEN 1 ELSE 0)
  BY LenProperties DEF Lost
<1> HIDE DEF r, lost
<1>2. r = PutDroppingOldest(q, e, cap) /\ lost = Lost(q, cap)
  BY DEF r, lost
<1>3. Len(r) = Len(q) + 1 - lost
  BY <1>2, PutProperties
<1>4. Len(r) <= cap
  BY <1>1, <1>3
<1> QED
  BY <1>4 DEF r

LEMMA TailProperties ==
  ASSUME NEW S, NEW q \in Seq(S), q # <<>>
  PROVE  /\ Head(q) \in S /\ Head(q) = q[1]
         /\ Tail(q) \in Seq(S) /\ Len(q) \in Nat /\ Len(q) > 0
         /\ Len(Tail(q)) = Len(q) - 1
         /\ \A k \in 1 .. Len(q) - 1 : Tail(q)[k] = q[k + 1]
  BY HeadTailProperties, EmptySeq
-------------------------------------------------------------------------------
(* Arithmetic of the indices of a ring of b slots. *)
LEMMA DivisionLemma ==
  \A a \in Int, b \in Nat \ {0} :
    /\ a \div b \in Int /\ a % b \in 0 .. b - 1
    /\ a = b * (a \div b) + (a % b)
OBVIOUS

LEMMA MultipleBelow ==
  ASSUME NEW b \in Nat \ {0}, NEW k \in Int, b * k \in 0 .. b - 1
  PROVE  k = 0
<1>1. CASE k >= 1
  <2>1. b * k >= b
    BY <1>1
  <2> QED
    BY <2>1
<1>2. CASE k <= -1
  <2>1. b * k <= -b
    BY <1>2
  <2> QED
    BY <2>1
<1> QED
  BY <1>1, <1>2

(* Two positions less than a ring apart share a slot only if they are one. *)
LEMMA SameSlot ==
  ASSUME NEW b \in Nat \ {0}, NEW s \in Int, NEW n \in 0 .. b - 1,
         (s - n) % b = s % b
  PROVE  n = 0
<1> DEFINE k == (s \div b) - ((s - n) \div b)
<1>1. s \div b \in Int /\ s % b \in Int /\ s = b * (s \div b) + (s % b)
  BY DivisionLemma
<1>2. /\ (s - n) \div b \in Int
      /\ s - n = b * ((s - n) \div b) + ((s - n) % b)
  BY DivisionLemma
<1>3. n = b * (s \div b) - b * ((s - n) \div b)
  BY <1>1, <1>2
<1>4. n = b * k /\ k \in Int
  BY <1>1, <1>2, <1>3
<1> HIDE DEF k
<1>5. k = 0
  BY <1>4, MultipleBelow
<1> QED
  BY <1>4, <1>5
===============================================================================
