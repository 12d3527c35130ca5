-------------------------- MODULE DashPipelineProofs --------------------------
(***************************************************************************)
(* Proofs about the dashboard's reader, its event queue and its state, for *)
(* a queue of any size, with or without the hotplug thread.                *)
(***************************************************************************)
EXTENDS DashPipeline, BoundedQueueProofs

Event == ReaderEvent \cup {HotplugEvent}

LEMMA EventTypesApart ==
  /\ HotplugEvent \notin ReaderEvent /\ ~IsAnnouncement(HotplugEvent)
  /\ HotplugEvent.type # "sample" /\ HotplugEvent.type \notin Announcements
  /\ \A e \in ReaderEvent :
       /\ e.type \in EventTypes /\ e.id \in 0 .. Ids - 1 /\ e.gap \in BOOLEAN
       /\ e # HotplugEvent
<1>1. HotplugEvent.type = "hotplug"
  BY DEF HotplugEvent
<1>2. "hotplug" \notin EventTypes
  BY DEF EventTypes, Announcements
<1>3. \A e \in ReaderEvent :
        e.type \in EventTypes /\ e.id \in 0 .. Ids - 1 /\ e.gap \in BOOLEAN
  BY DEF ReaderEvent
<1>4. HotplugEvent \notin ReaderEvent
  BY <1>1, <1>2, <1>3
<1> QED
  BY <1>1, <1>2, <1>3, <1>4 DEF IsAnnouncement, EventTypes, Announcements
-------------------------------------------------------------------------------
(* What the queue's own operations do to the places of its entries. *)

Added(q, e, r) ==
  /\ r \in Seq(Event) /\ Len(q) \in Nat /\ Len(r) = Len(q) + 1
  /\ \A k \in 1 .. Len(q) : r[k] = q[k]
  /\ r[Len(r)] = e

LEMMA AddedByAppend ==
  ASSUME NEW q \in Seq(Event), NEW e \in Event
  PROVE  Added(q, e, Append(q, e))
BY AppendProperties, LenProperties DEF Added

Removed(q, r) ==
  /\ r \in Seq(Event) /\ Len(r) \in Nat /\ Len(q) = Len(r) + 1
  /\ \A k \in 1 .. Len(r) : r[k] = q[k + 1]
  /\ Head(q) = q[1] /\ q[1] \in Event

LEMMA RemovedByTail ==
  ASSUME NEW q \in Seq(Event), q # <<>>
  PROVE  Removed(q, Tail(q))
<1>1. /\ Head(q) \in Event /\ Head(q) = q[1]
      /\ Tail(q) \in Seq(Event) /\ Len(q) \in Nat /\ Len(q) > 0
      /\ Len(Tail(q)) = Len(q) - 1
      /\ \A k \in 1 .. Len(q) - 1 : Tail(q)[k] = q[k + 1]
  BY TailProperties
<1> QED
  BY <1>1 DEF Removed

LEMMA PlacesAdded ==
  ASSUME NEW q, NEW e, NEW r, Added(q, e, r)
  PROVE  /\ e # HotplugEvent => ReaderPlaces(r) = ReaderPlaces(q) \cup {Len(r)}
         /\ e = HotplugEvent => ReaderPlaces(r) = ReaderPlaces(q)
         /\ IsAnnouncement(e)
              => AnnouncementPlaces(r) = AnnouncementPlaces(q) \cup {Len(r)}
         /\ ~IsAnnouncement(e) => AnnouncementPlaces(r) = AnnouncementPlaces(q)
<1>1. \A k : k \in 1 .. Len(r) <=> k \in 1 .. Len(q) \/ k = Len(r)
  BY DEF Added
<1>2. /\ \A k \in 1 .. Len(q) : r[k] = q[k]
      /\ r[Len(r)] = e /\ Len(r) \notin 1 .. Len(q)
  BY DEF Added
<1>3. /\ e # HotplugEvent => ReaderPlaces(r) = ReaderPlaces(q) \cup {Len(r)}
      /\ e = HotplugEvent => ReaderPlaces(r) = ReaderPlaces(q)
  BY <1>1, <1>2 DEF ReaderPlaces
<1>4. /\ IsAnnouncement(e)
           => AnnouncementPlaces(r) = AnnouncementPlaces(q) \cup {Len(r)}
      /\ ~IsAnnouncement(e) => AnnouncementPlaces(r) = AnnouncementPlaces(q)
  BY <1>1, <1>2 DEF AnnouncementPlaces
<1> QED
  BY <1>3, <1>4

LEMMA PlacesRemoved ==
  ASSUME NEW q, NEW r, Removed(q, r)
  PROVE  /\ ReaderPlaces(r) = {k \in 1 .. Len(r) : k + 1 \in ReaderPlaces(q)}
         /\ AnnouncementPlaces(r)
              = {k \in 1 .. Len(r) : k + 1 \in AnnouncementPlaces(q)}
<1>1. \A k \in 1 .. Len(r) : k + 1 \in 1 .. Len(q) /\ r[k] = q[k + 1]
  BY DEF Removed
<1>2. ReaderPlaces(r) = {k \in 1 .. Len(r) : k + 1 \in ReaderPlaces(q)}
  BY <1>1 DEF ReaderPlaces
<1>3. AnnouncementPlaces(r) = {k \in 1 .. Len(r) : k + 1 \in AnnouncementPlaces(q)}
  BY <1>1 DEF AnnouncementPlaces
<1> QED
  BY <1>2, <1>3

LEMMA PlacesInQueue ==
  ASSUME NEW q
  PROVE  ReaderPlaces(q) \subseteq 1 .. Len(q) /\ AnnouncementPlaces(q) \subseteq 1 .. Len(q)
BY DEF ReaderPlaces, AnnouncementPlaces

(* The last and the next place of a set that gets or loses one. *)
LEMMA LastRemoved ==
  ASSUME NEW n \in Nat, NEW S \in SUBSET (1 .. n + 1), NEW T,
         T = {k \in 1 .. n : k + 1 \in S}
  PROVE  /\ \A k \in 1 .. n : IsLast(k, T) => IsLast(k + 1, S)
         /\ \A j, k \in 1 .. n : IsNext(j, k, T) => IsNext(j + 1, k + 1, S)
         /\ T = {} => S \subseteq {1}
<1>1. ASSUME NEW k \in 1 .. n, IsLast(k, T) PROVE IsLast(k + 1, S)
  <2>1. k + 1 \in S
    BY <1>1 DEF IsLast
  <2>2. ASSUME NEW i \in S PROVE i <= k + 1
    <3>1. CASE i = 1
      BY <3>1
    <3>2. CASE i # 1
      <4>1. PICK m \in 1 .. n : m + 1 = i
        BY <3>2
      <4>2. m \in T
        BY <4>1
      <4>3. m <= k
        BY <1>1, <4>2 DEF IsLast
      <4> QED
        BY <4>1, <4>3
    <3> QED
      BY <3>1, <3>2
  <2> QED
    BY <2>1, <2>2 DEF IsLast
<1>2. ASSUME NEW j \in 1 .. n, NEW k \in 1 .. n, IsNext(j, k, T)
      PROVE  IsNext(j + 1, k + 1, S)
  <2>1. j + 1 \in S /\ k + 1 \in S /\ j < k
    BY <1>2 DEF IsNext
  <2>2. ASSUME NEW i \in S PROVE i <= j + 1 \/ k + 1 <= i
    <3>1. CASE i = 1
      BY <3>1
    <3>2. CASE i # 1
      <4>1. PICK m \in 1 .. n : m + 1 = i
        BY <3>2
      <4>2. m \in T
        BY <4>1
      <4>3. m <= j \/ k <= m
        BY <1>2, <4>2 DEF IsNext
      <4> QED
        BY <4>1, <4>3
    <3> QED
      BY <3>1, <3>2
  <2> QED
    BY <2>1, <2>2 DEF IsNext
<1>3. ASSUME T = {}, NEW i \in S, i # 1 PROVE FALSE
  <2>1. PICK m \in 1 .. n : m + 1 = i
    BY <1>3
  <2> QED
    BY <1>3, <2>1
<1> QED
  BY <1>1, <1>2, <1>3

LEMMA LastAdded ==
  ASSUME NEW n \in Nat, NEW S \in SUBSET (1 .. n), NEW T, T = S \cup {n + 1}
  PROVE  /\ \A k : IsLast(k, T) => k = n + 1
         /\ \A j \in 1 .. n + 1, k \in 1 .. n + 1 :
              IsNext(j, k, T) =>
                \/ k = n + 1 /\ j \in 1 .. n /\ IsLast(j, S)
                \/ j \in 1 .. n /\ k \in 1 .. n /\ IsNext(j, k, S)
<1>1. ASSUME NEW k, IsLast(k, T) PROVE k = n + 1
  <2>1. k \in T /\ n + 1 <= k
    BY <1>1 DEF IsLast
  <2> QED
    BY <2>1
<1>2. ASSUME NEW j \in 1 .. n + 1, NEW k \in 1 .. n + 1, IsNext(j, k, T)
      PROVE  \/ k = n + 1 /\ j \in 1 .. n /\ IsLast(j, S)
             \/ j \in 1 .. n /\ k \in 1 .. n /\ IsNext(j, k, S)
  <2>1. /\ j \in T /\ k \in T /\ j < k
        /\ \A i \in T : i <= j \/ k <= i
    BY <1>2 DEF IsNext
  <2>2. j \in S /\ j \in 1 .. n
    BY <2>1
  <2>3. CASE k = n + 1
    <3>1. ASSUME NEW i \in S PROVE i <= j
      <4>1. i \in 1 .. n /\ i \in T
        OBVIOUS
      <4> QED
        BY <2>1, <2>3, <4>1
    <3> QED
      BY <2>2, <2>3, <3>1 DEF IsLast
  <2>4. CASE k # n + 1
    <3>1. k \in S
      BY <2>1, <2>4
    <3>2. \A i \in S : i <= j \/ k <= i
      BY <2>1
    <3> QED
      BY <2>1, <2>2, <3>1, <3>2 DEF IsNext
  <2> QED
    BY <2>3, <2>4
<1> QED
  BY <1>1, <1>2
-------------------------------------------------------------------------------
(* What they do to the parts of the properties, stated of a queue q. *)

(* The reader's last event in q is n, or if there is none, a is. *)
NewestIs(q, n, a) ==
  /\ \A k \in 1 .. Len(q) : IsLast(k, ReaderPlaces(q)) => q[k].id = n
  /\ ReaderPlaces(q) = {} => a = n

(* n comes next after the reader's last event in q. *)
NextIs(q, n) ==
  \A k \in 1 .. Len(q) : IsLast(k, ReaderPlaces(q)) => n = (q[k].id + 1) % Ids

(* WillShow with c for the status that is shown. *)
Shows(q, c, s) ==
  /\ \A k \in 1 .. Len(q) :
       IsLast(k, AnnouncementPlaces(q)) => (q[k].type = "connected") = s
  /\ AnnouncementPlaces(q) = {} => c = s

(* A sample that no announcement follows was read while t was announced. *)
SamplesKnown(q, t) ==
  \A k \in 1 .. Len(q) :
    q[k].type = "sample" /\ (\A i \in AnnouncementPlaces(q) : i <= k) => t

LEMMA NewestGivesNext ==
  ASSUME NEW q, NEW n, NEW a, NewestIs(q, n, a), NEW m, m = (n + 1) % Ids
  PROVE  NextIs(q, m)
BY DEF NewestIs, NextIs

LEMMA AddReaderEvent ==
  ASSUME NEW q \in Seq(Event), NEW e \in ReaderEvent, NEW r, Added(q, e, r),
         InOrder(q), e.gap \/ NextIs(q, e.id), NEW a
  PROVE  InOrder(r) /\ NewestIs(r, e.id, a)
<1> DEFINE S == ReaderPlaces(q)
<1>1. PICK n \in Nat : n = Len(q) /\ Len(r) = n + 1
  BY DEF Added
<1>2. (\A k \in 1 .. n : r[k] = q[k]) /\ r[n + 1] = e
  BY <1>1 DEF Added
<1>3. ReaderPlaces(r) = S \cup {n + 1}
  BY <1>1, EventTypesApart, PlacesAdded
<1>4. S \in SUBSET (1 .. n)
  BY <1>1, PlacesInQueue
<1> HIDE DEF S
<1>5. /\ \A k : IsLast(k, ReaderPlaces(r)) => k = n + 1
      /\ \A j \in 1 .. n + 1, k \in 1 .. n + 1 :
           IsNext(j, k, ReaderPlaces(r)) =>
             \/ k = n + 1 /\ j \in 1 .. n /\ IsLast(j, S)
             \/ j \in 1 .. n /\ k \in 1 .. n /\ IsNext(j, k, S)
  BY <1>3, <1>4, LastAdded
<1>6. NewestIs(r, e.id, a)
  <2>1. ReaderPlaces(r) # {}
    BY <1>3
  <2> QED
    BY <1>2, <1>5, <2>1 DEF NewestIs
<1>7. ASSUME NEW j \in 1 .. n + 1, NEW k \in 1 .. n + 1, IsNext(j, k, ReaderPlaces(r))
      PROVE  r[k].gap \/ r[k].id = (r[j].id + 1) % Ids
  <2>1. CASE k = n + 1 /\ j \in 1 .. n /\ IsLast(j, S)
    <3>1. NextIs(q, e.id) => e.id = (q[j].id + 1) % Ids
      BY <1>1, <2>1 DEF NextIs, S
    <3> QED
      BY <1>2, <2>1, <3>1
  <2>2. CASE j \in 1 .. n /\ k \in 1 .. n /\ IsNext(j, k, S)
    BY <1>1, <1>2, <2>2 DEF InOrder, S
  <2> QED
    BY <1>5, <1>7, <2>1, <2>2
<1> QED
  BY <1>1, <1>6, <1>7 DEF InOrder

LEMMA AddHotplugEvent ==
  ASSUME NEW q \in Seq(Event), NEW r, Added(q, HotplugEvent, r)
  PROVE  /\ InOrder(q) => InOrder(r)
         /\ \A n, a : NewestIs(q, n, a) => NewestIs(r, n, a)
         /\ \A n : NextIs(q, n) => NextIs(r, n)
         /\ \A c, s : Shows(q, c, s) => Shows(r, c, s)
         /\ \A t : SamplesKnown(q, t) => SamplesKnown(r, t)
         /\ AnnouncementPlaces(r) = AnnouncementPlaces(q)
<1>1. PICK n \in Nat : n = Len(q) /\ Len(r) = n + 1
  BY DEF Added
<1>2. (\A k \in 1 .. n : r[k] = q[k]) /\ r[n + 1] = HotplugEvent
  BY <1>1 DEF Added
<1>3. ReaderPlaces(r) = ReaderPlaces(q) /\ AnnouncementPlaces(r) = AnnouncementPlaces(q)
  BY PlacesAdded, EventTypesApart
<1>4. ReaderPlaces(q) \subseteq 1 .. n /\ AnnouncementPlaces(q) \subseteq 1 .. n
  BY <1>1, PlacesInQueue
<1>5. \A k, S : IsLast(k, S) => k \in S
  BY DEF IsLast
<1>6. \A j, k, S : IsNext(j, k, S) => j \in S /\ k \in S
  BY DEF IsNext
<1>7. InOrder(q) => InOrder(r)
  BY <1>1, <1>2, <1>3, <1>4, <1>6 DEF InOrder
<1>8. ASSUME NEW m, NEW a, NewestIs(q, m, a) PROVE NewestIs(r, m, a)
  BY <1>1, <1>2, <1>3, <1>4, <1>5, <1>8 DEF NewestIs
<1>9. ASSUME NEW m, NextIs(q, m) PROVE NextIs(r, m)
  BY <1>1, <1>2, <1>3, <1>4, <1>5, <1>9 DEF NextIs
<1>10. ASSUME NEW c, NEW s, Shows(q, c, s) PROVE Shows(r, c, s)
  BY <1>1, <1>2, <1>3, <1>4, <1>5, <1>10 DEF Shows
<1>11. ASSUME NEW t, SamplesKnown(q, t) PROVE SamplesKnown(r, t)
  <2> SUFFICES ASSUME NEW k \in 1 .. n + 1, r[k].type = "sample",
                      \A i \in AnnouncementPlaces(q) : i <= k
               PROVE  t
    BY <1>1, <1>3 DEF SamplesKnown
  <2>1. k \in 1 .. n /\ q[k].type = "sample"
    BY <1>2, EventTypesApart
  <2> QED
    BY <1>1, <1>11, <2>1 DEF SamplesKnown
<1> QED
  BY <1>3, <1>7, <1>8, <1>9, <1>10, <1>11

LEMMA AddAnnouncement ==
  ASSUME NEW q \in Seq(Event), NEW e \in ReaderEvent, IsAnnouncement(e),
         NEW r, Added(q, e, r), NEW c, NEW t
  PROVE  /\ Shows(r, c, e.type = "connected")
         /\ SamplesKnown(r, t)
         /\ AnnouncementPlaces(r) # {}
<1> DEFINE S == AnnouncementPlaces(q)
<1>1. PICK n \in Nat : n = Len(q) /\ Len(r) = n + 1
  BY DEF Added
<1>2. r[n + 1] = e
  BY <1>1 DEF Added
<1>3. AnnouncementPlaces(r) = S \cup {n + 1}
  BY <1>1, PlacesAdded
<1>4. S \in SUBSET (1 .. n)
  BY <1>1, PlacesInQueue
<1> HIDE DEF S
<1>5. \A k : IsLast(k, AnnouncementPlaces(r)) => k = n + 1
  BY <1>3, <1>4, LastAdded
<1>6. AnnouncementPlaces(r) # {} /\ n + 1 \in AnnouncementPlaces(r)
  BY <1>3
<1>7. Shows(r, c, e.type = "connected")
  BY <1>1, <1>2, <1>5, <1>6 DEF Shows
<1>8. SamplesKnown(r, t)
  <2> SUFFICES ASSUME NEW k \in 1 .. n + 1, r[k].type = "sample", n + 1 <= k
               PROVE  FALSE
    BY <1>1, <1>6 DEF SamplesKnown
  <2>1. e.type = "sample"
    BY <1>2
  <2> QED
    BY <2>1 DEF IsAnnouncement, Announcements
<1> QED
  BY <1>6, <1>7, <1>8

LEMMA AddOther ==
  ASSUME NEW q \in Seq(Event), NEW e \in ReaderEvent, ~IsAnnouncement(e),
         NEW r, Added(q, e, r)
  PROVE  /\ \A c, s : Shows(q, c, s) => Shows(r, c, s)
         /\ \A t : SamplesKnown(q, t) /\ (e.type = "sample" => t) => SamplesKnown(r, t)
         /\ AnnouncementPlaces(r) = AnnouncementPlaces(q)
<1>1. PICK n \in Nat : n = Len(q) /\ Len(r) = n + 1
  BY DEF Added
<1>2. (\A k \in 1 .. n : r[k] = q[k]) /\ r[n + 1] = e
  BY <1>1 DEF Added
<1>3. AnnouncementPlaces(r) = AnnouncementPlaces(q)
  BY PlacesAdded
<1>4. AnnouncementPlaces(q) \subseteq 1 .. n
  BY <1>1, PlacesInQueue
<1>5. \A k, S : IsLast(k, S) => k \in S
  BY DEF IsLast
<1>6. ASSUME NEW c, NEW s, Shows(q, c, s) PROVE Shows(r, c, s)
  BY <1>1, <1>2, <1>3, <1>4, <1>5, <1>6 DEF Shows
<1>7. ASSUME NEW t, SamplesKnown(q, t), e.type = "sample" => t PROVE SamplesKnown(r, t)
  <2> SUFFICES ASSUME NEW k \in 1 .. n + 1, r[k].type = "sample",
                      \A i \in AnnouncementPlaces(q) : i <= k
               PROVE  t
    BY <1>1, <1>3 DEF SamplesKnown
  <2>1. CASE k = n + 1
    BY <1>2, <1>7, <2>1
  <2>2. CASE k # n + 1
    <3>1. k \in 1 .. n /\ q[k].type = "sample"
      BY <1>2, <2>2
    <3> QED
      BY <1>1, <1>7, <3>1 DEF SamplesKnown
  <2> QED
    BY <2>1, <2>2
<1> QED
  BY <1>3, <1>6, <1>7

(* An entry is taken from the front, by the UI or by an overflow. *)
LEMMA RemoveEvent ==
  ASSUME NEW q \in Seq(Event), NEW r, Removed(q, r)
  PROVE  /\ InOrder(q) => InOrder(r)
         /\ \A n, a : NewestIs(q, n, a) =>
              NewestIs(r, n, IF q[1] = HotplugEvent THEN a ELSE q[1].id)
         /\ \A n : NextIs(q, n) => NextIs(r, n)
<1>1. PICK n \in Nat : n = Len(r) /\ Len(q) = n + 1
  BY DEF Removed
<1>2. \A k \in 1 .. n : r[k] = q[k + 1]
  BY <1>1 DEF Removed
<1>3. PICK S \in SUBSET (1 .. n + 1) : S = ReaderPlaces(q)
  BY <1>1, PlacesInQueue
<1>4. PICK T : T = ReaderPlaces(r)
  OBVIOUS
<1>5. T = {k \in 1 .. n : k + 1 \in S}
  BY <1>1, <1>3, <1>4, PlacesRemoved
<1>6. /\ \A k \in 1 .. n : IsLast(k, T) => IsLast(k + 1, S)
      /\ \A j, k \in 1 .. n : IsNext(j, k, T) => IsNext(j + 1, k + 1, S)
      /\ T = {} => S \subseteq {1}
  BY <1>5, LastRemoved
<1>7. \A k \in 1 .. n : k + 1 \in 1 .. n + 1
  OBVIOUS
<1>8. ASSUME InOrder(q) PROVE InOrder(r)
  BY <1>1, <1>2, <1>3, <1>4, <1>6, <1>7, <1>8, SMTT(30) DEF InOrder
<1>9. ASSUME NEW m, NEW a, NewestIs(q, m, a)
      PROVE  NewestIs(r, m, IF q[1] = HotplugEvent THEN a ELSE q[1].id)
  <2>1. \A k \in 1 .. n : IsLast(k, T) => r[k].id = m
    BY <1>1, <1>2, <1>3, <1>6, <1>7, <1>9 DEF NewestIs
  <2>2. ASSUME T = {} PROVE (IF q[1] = HotplugEvent THEN a ELSE q[1].id) = m
    <3>1. S \subseteq {1}
      BY <1>6, <2>2
    <3>2. 1 \in S <=> q[1] # HotplugEvent
      BY <1>1, <1>3 DEF ReaderPlaces
    <3>3. CASE q[1] = HotplugEvent
      BY <1>3, <1>9, <3>1, <3>2, <3>3 DEF NewestIs
    <3>4. CASE q[1] # HotplugEvent
      <4>1. IsLast(1, S)
        BY <3>1, <3>2, <3>4 DEF IsLast
      <4> QED
        BY <1>1, <1>3, <1>9, <3>4, <4>1 DEF NewestIs
    <3> QED
      BY <3>3, <3>4
  <2> QED
    BY <1>1, <1>4, <2>1, <2>2 DEF NewestIs
<1>10. ASSUME NEW m, NextIs(q, m) PROVE NextIs(r, m)
  BY <1>1, <1>2, <1>3, <1>4, <1>6, <1>7, <1>10 DEF NextIs
<1> QED
  BY <1>8, <1>9, <1>10

LEMMA RemoveShown ==
  ASSUME NEW q \in Seq(Event), NEW r, Removed(q, r)
  PROVE  /\ \A c, s : Shows(q, c, s) =>
              Shows(r, IF IsAnnouncement(q[1]) THEN q[1].type = "connected" ELSE c, s)
         /\ \A c, s : /\ Shows(q, c, s)
                      /\ IsAnnouncement(q[1]) => AnnouncementPlaces(r) # {}
                      => Shows(r, c, s)
         /\ \A t : SamplesKnown(q, t) => SamplesKnown(r, t)
         /\ AnnouncementPlaces(q) # {} /\ ~IsAnnouncement(q[1])
              => AnnouncementPlaces(r) # {}
<1>1. PICK n \in Nat : n = Len(r) /\ Len(q) = n + 1
  BY DEF Removed
<1>2. \A k \in 1 .. n : r[k] = q[k + 1]
  BY <1>1 DEF Removed
<1>3. PICK S \in SUBSET (1 .. n + 1) : S = AnnouncementPlaces(q)
  BY <1>1, PlacesInQueue
<1>4. PICK T : T = AnnouncementPlaces(r)
  OBVIOUS
<1>5. T = {k \in 1 .. n : k + 1 \in S}
  BY <1>1, <1>3, <1>4, PlacesRemoved
<1>6. /\ \A k \in 1 .. n : IsLast(k, T) => IsLast(k + 1, S)
      /\ T = {} => S \subseteq {1}
  BY <1>5, LastRemoved
<1>7. \A k \in 1 .. n : k + 1 \in 1 .. n + 1
  OBVIOUS
<1>8. 1 \in S <=> IsAnnouncement(q[1])
  BY <1>1, <1>3 DEF AnnouncementPlaces
<1>9. ASSUME NEW c, NEW s, Shows(q, c, s)
      PROVE  \A k \in 1 .. n : IsLast(k, T) => (r[k].type = "connected") = s
  BY <1>1, <1>2, <1>3, <1>6, <1>7, <1>9 DEF Shows
<1>10. ASSUME NEW c, NEW s, Shows(q, c, s)
       PROVE  Shows(r, IF IsAnnouncement(q[1]) THEN q[1].type = "connected" ELSE c, s)
  <2>1. ASSUME T = {}
        PROVE (IF IsAnnouncement(q[1]) THEN q[1].type = "connected" ELSE c) = s
    <3>1. CASE IsAnnouncement(q[1])
      <4>1. IsLast(1, S)
        BY <1>6, <1>8, <2>1, <3>1 DEF IsLast
      <4> QED
        BY <1>1, <1>3, <1>10, <3>1, <4>1 DEF Shows
    <3>2. CASE ~IsAnnouncement(q[1])
      <4>1. S = {}
        BY <1>6, <1>8, <2>1, <3>2
      <4> QED
        BY <1>3, <1>10, <3>2, <4>1 DEF Shows
    <3> QED
      BY <3>1, <3>2
  <2> QED
    BY <1>1, <1>4, <1>9, <1>10, <2>1 DEF Shows
<1>11. ASSUME NEW c, NEW s, Shows(q, c, s), IsAnnouncement(q[1]) => T # {}
       PROVE  Shows(r, c, s)
  <2>1. T = {} => S = {}
    BY <1>6, <1>8, <1>11
  <2> QED
    BY <1>1, <1>3, <1>4, <1>9, <1>11, <2>1 DEF Shows
<1>12. ASSUME NEW t, SamplesKnown(q, t) PROVE SamplesKnown(r, t)
  <2> SUFFICES ASSUME NEW k \in 1 .. n, r[k].type = "sample", \A i \in T : i <= k
               PROVE  t
    BY <1>1, <1>4 DEF SamplesKnown
  <2>1. q[k + 1].type = "sample" /\ k + 1 \in 1 .. n + 1
    BY <1>2
  <2>2. ASSUME NEW i \in S PROVE i <= k + 1
    <3>1. CASE i = 1
      BY <3>1
    <3>2. CASE i # 1
      <4>1. PICK m \in 1 .. n : m + 1 = i
        BY <3>2
      <4>2. m \in T
        BY <1>5, <4>1
      <4> QED
        BY <4>1, <4>2
    <3> QED
      BY <3>1, <3>2
  <2> QED
    BY <1>1, <1>3, <1>12, <2>1, <2>2 DEF SamplesKnown
<1>13. S # {} /\ ~IsAnnouncement(q[1]) => T # {}
  BY <1>6, <1>8
<1> QED
  BY <1>3, <1>4, <1>10, <1>11, <1>12, <1>13
-------------------------------------------------------------------------------
(* The inductive invariant *)

InLoop == {"top", "poll", "read"}

(* What _drop_push is called with, and when. *)
PushKnows ==
  rpc \in PushStates =>
    /\ item.id = seq
    /\ ~gap => NextIs(queue, seq)
    /\ item.type = "sample" => told
    /\ after \in InLoop => item.type \in {"connected", "sample"}

(* The reader's events are in the queue in their order, up to the newest. *)
OrderInv ==
  /\ InOrder(queue)
  /\ (rpc \notin PushStates /\ ~gap) => NewestIs(queue, seq, applied)
  /\ PushKnows
  /\ gap => Hotplug
  (* Without the hotplug thread the slot that was made stays free. *)
  /\ ~Hotplug => hpc = "done" /\ (rpc = "reput" => Len(queue) < QueueMax)

(* The reader reads only what it has announced; the samples that the UI    *)
(* will apply after the last announcement belong to a connection.          *)
StatusInv ==
  /\ rpc \in InLoop => told
  /\ missed \/ SamplesKnown(queue, told)
  /\ missed \/ Shows(queue, connected, told)
  /\ SampleShown

DashInv == DashTypeOK /\ OrderInv /\ StatusInv

LEMMA NoEvents ==
  /\ <<>> \in Seq(Event) /\ Len(<<>>) = 0
  /\ InOrder(<<>>) /\ ReaderPlaces(<<>>) = {} /\ AnnouncementPlaces(<<>>) = {}
  /\ \A n : NewestIs(<<>>, n, n)
  /\ \A s : Shows(<<>>, s, s)
  /\ \A t : SamplesKnown(<<>>, t)
<1>1. <<>> \in Seq(Event) /\ Len(<<>>) = 0 /\ 1 .. 0 = {}
  OBVIOUS
<1>2. ReaderPlaces(<<>>) = {} /\ AnnouncementPlaces(<<>>) = {}
  BY <1>1, PlacesInQueue
<1>3. \A k : k \notin 1 .. Len(<<>>)
  BY <1>1
<1> QED
  BY <1>1, <1>2, <1>3 DEF InOrder, NewestIs, Shows, SamplesKnown

LEMMA DashInit == Init => DashInv
<1> SUFFICES ASSUME Init PROVE DashInv
  OBVIOUS
<1>1. 0 \in 0 .. Ids - 1 /\ 0 \in 0 .. MaxAvail /\ 0 <= QueueMax
  BY DashAssumption
<1>2. item \in [type : EventTypes, id : 0 .. Ids - 1]
  BY <1>1 DEF Init, NoItem, EventTypes
<1>3. /\ queue = <<>> /\ rpc = "open" /\ seq = 0 /\ applied = 0 /\ gap = FALSE
      /\ told = FALSE /\ connected = FALSE /\ sampled = FALSE /\ missed = FALSE
      /\ (~Hotplug => hpc = "done") /\ stop = FALSE /\ node \in BOOLEAN
  BY DEF Init
<1>4. /\ stop \in BOOLEAN /\ connected \in BOOLEAN /\ sampled \in BOOLEAN
      /\ gap \in BOOLEAN /\ told \in BOOLEAN /\ missed \in BOOLEAN
  BY <1>3
<1>5. /\ avail \in 0 .. MaxAvail /\ left \in 0 .. MaxAvail
      /\ file \in {"none", "live", "gone"} /\ hpc \in {"select", "put", "done"}
      /\ upc \in {"drain", "render", "done"}
      /\ rpc \in ReaderStates /\ after \in {"open", "top", "close", "wait"}
  BY <1>1 DEF Init, ReaderStates
<1>6. queue \in Seq(ReaderEvent \cup {HotplugEvent}) /\ Len(queue) <= QueueMax
  BY <1>1, <1>3, NoEvents DEF Event
<1>7. DashTypeOK
  BY <1>1, <1>2, <1>3, <1>4, <1>5, <1>6 DEF DashTypeOK
<1>8. OrderInv
  BY <1>3, NoEvents DEF OrderInv, PushKnows, PushStates
<1>9. StatusInv
  BY <1>3, NoEvents DEF StatusInv, InLoop, SampleShown
<1> QED
  BY <1>7, <1>8, <1>9 DEF DashInv

(* What a step of the reader is: a part of _drop_push, the call of it with *)
(* a new event, or a step that neither touches the queue nor pushes.       *)
Calls(type, pc) ==
  /\ rpc \notin PushStates
  /\ push(type, pc)
  /\ type = "sample" => rpc \in InLoop
  /\ pc \in InLoop => type \in {"connected", "sample"}
  /\ UNCHANGED <<pushVars, stop, hpc, uiVars>>

Moves ==
  /\ rpc \notin PushStates /\ rpc' \notin PushStates /\ rpc' \in ReaderStates
  /\ rpc' \in InLoop => rpc \in InLoop
  /\ UNCHANGED <<item, after, seq, pushVars, stop, hpc, uiVars>>

LEMMA ReaderCases ==
  ASSUME ReaderStep
  PROVE  \/ PushStep
         \/ \E type \in EventTypes, pc \in {"open", "top", "close", "wait"} :
              Calls(type, pc)
         \/ Moves
<1> USE DEF PushStates, InLoop
<1>1. CASE reader_open
  <2>1. Calls("connected", "top")
    BY <1>1 DEF reader_open, Calls, readerRest
  <2> QED
    BY <2>1 DEF EventTypes, Announcements
<1>2. CASE reader_open_fails
  <2>1. Calls("error", "wait")
    BY <1>2 DEF reader_open_fails, Calls, readerRest
  <2> QED
    BY <2>1 DEF EventTypes
<1>3. CASE poll_hangup \/ reader_read_enodev
  <2>1. Calls("disconnected", "close")
    BY <1>3 DEF poll_hangup, reader_read_enodev, Calls, readerRest
  <2> QED
    BY <2>1 DEF EventTypes, Announcements
<1>4. CASE reader_read
  <2>1. Calls("sample", "top")
    BY <1>4 DEF reader_read, Calls, pushVars, uiVars
  <2> QED
    BY <2>1 DEF EventTypes
<1>5. CASE reader_read_eagain
  <2>1. Calls("error", "close")
    BY <1>5 DEF reader_read_eagain, Calls, readerRest
  <2> QED
    BY <2>1 DEF EventTypes
<1>6. CASE reader_exit \/ reader_top \/ poll_timeout \/ poll_in \/ reader_close
           \/ reader_wait
  <2>1. /\ rpc \notin PushStates /\ rpc' \notin PushStates /\ rpc' \in ReaderStates
        /\ rpc' \in InLoop => rpc \in InLoop
    BY <1>6 DEF reader_exit, reader_top, poll_timeout, poll_in, reader_close,
         reader_wait, ReaderStates
  <2>2. UNCHANGED <<item, after, seq, pushVars, stop, hpc, uiVars>>
    BY <1>6 DEF reader_exit, reader_top, poll_timeout, poll_in, reader_close,
         reader_wait, readerRest
  <2> QED
    BY <2>1, <2>2 DEF Moves
<1> QED
  BY <1>1, <1>2, <1>3, <1>4, <1>5, <1>6 DEF ReaderStep

(* The parts of _drop_push *)

Entry == [type |-> item.type, id |-> item.id, gap |-> gap]

Stored ==
  /\ rpc \in {"put", "reput"} /\ Len(queue) < QueueMax
  /\ queue' = Append(queue, Entry) /\ gap' = FALSE
  /\ IF IsAnnouncement(item)
       THEN told' = (item.type = "connected") /\ missed' = FALSE
       ELSE UNCHANGED <<told, missed>>
  /\ return

GivenUp ==
  /\ rpc = "reput" /\ Len(queue) >= QueueMax
  /\ queue' = queue /\ gap' = TRUE
  /\ IF IsAnnouncement(item)
       THEN told' = (item.type = "connected") /\ missed' = TRUE
       ELSE UNCHANGED <<told, missed>>
  /\ return

Found ==
  /\ rpc = "put" /\ rpc' = "drop"
  /\ UNCHANGED <<pushVars, item, after>>

LEMMA PushCases ==
  ASSUME PushStep
  PROVE  /\ Stored \/ GivenUp \/ Found \/ push_drop
         /\ UNCHANGED <<devVars, file, left, stop, hpc, uiVars, seq>>
<1>1. CASE push_put
  BY <1>1 DEF push_put, enqueue, Stored, Entry, Found
<1>2. CASE push_reput
  BY <1>2 DEF push_reput, enqueue, Stored, Entry, GivenUp
<1>3. CASE push_drop
  BY <1>3 DEF push_drop
<1> QED
  BY <1>1, <1>2, <1>3 DEF PushStep

LEMMA EntryType ==
  ASSUME DashTypeOK
  PROVE  /\ Entry \in ReaderEvent /\ Entry \in Event
         /\ Entry.id = item.id /\ Entry.gap = gap /\ Entry.type = item.type
         /\ IsAnnouncement(Entry) <=> IsAnnouncement(item)
<1>1. item.type \in EventTypes /\ item.id \in 0 .. Ids - 1 /\ gap \in BOOLEAN
  BY DEF DashTypeOK
<1> QED
  BY <1>1 DEF Entry, ReaderEvent, Event, IsAnnouncement

QueueOK == queue \in Seq(Event) /\ Len(queue) <= QueueMax

PusherTypes ==
  /\ rpc \in ReaderStates /\ after \in {"open", "top", "close", "wait"}
  /\ item \in [type : EventTypes, id : 0 .. Ids - 1]
  /\ seq \in 0 .. Ids - 1
  /\ gap \in BOOLEAN /\ told \in BOOLEAN /\ missed \in BOOLEAN

LEMMA PusherStep ==
  ASSUME DashTypeOK, [Next]_vars
  PROVE  PusherTypes'
<1> USE DEF DashTypeOK, PusherTypes
<1>1. NoItem \in [type : EventTypes, id : 0 .. Ids - 1]
  BY DashAssumption DEF NoItem, EventTypes
<1>2. CASE PushStep
  <2>1. return => /\ rpc' \in ReaderStates
                  /\ after' \in {"open", "top", "close", "wait"}
                  /\ item' \in [type : EventTypes, id : 0 .. Ids - 1]
    BY <1>1 DEF return, ReaderStates
  <2>2. CASE Stored \/ GivenUp
    <3>1. gap' \in BOOLEAN /\ told' \in BOOLEAN /\ missed' \in BOOLEAN
      BY <2>2 DEF Stored, GivenUp
    <3>2. return /\ seq' = seq
      BY <1>2, <2>2, PushCases DEF Stored, GivenUp
    <3> QED
      BY <2>1, <3>1, <3>2
  <2>3. CASE Found
    <3>1. rpc' = "drop" /\ UNCHANGED <<item, after, seq, gap, told, missed>>
      BY <1>2, <2>3, PushCases DEF Found, pushVars
    <3> QED
      BY <3>1 DEF ReaderStates, PushStates
  <2>4. CASE push_drop
    <3>1. /\ rpc' = "reput" /\ UNCHANGED <<item, after, seq, gap, told>>
          /\ missed' \in BOOLEAN
      BY <2>4 DEF push_drop
    <3> QED
      BY <3>1 DEF ReaderStates, PushStates
  <2> QED
    BY <1>2, <2>2, <2>3, <2>4, PushCases
<1>3. ASSUME NEW type \in EventTypes, NEW c \in {"open", "top", "close", "wait"},
             Calls(type, c)
      PROVE  PusherTypes'
  <2>1. Ids \in Nat \ {0}
    BY DashAssumption
  <2>2. (seq + 1) % Ids \in 0 .. Ids - 1
    BY <2>1
  <2>3. /\ seq' = (seq + 1) % Ids
        /\ item' = [type |-> type, id |-> (seq + 1) % Ids]
        /\ rpc' = "put" /\ after' = c /\ UNCHANGED <<gap, told, missed>>
    BY <1>3 DEF Calls, push, pushVars
  <2> QED
    BY <2>2, <2>3 DEF ReaderStates, PushStates
<1>4. CASE Moves
  BY <1>4 DEF Moves, pushVars
<1>5. CASE HotplugStep
  BY <1>5 DEF HotplugStep, hotplug_exit, hotplug_event, hotplug_put, hotplugRest,
              readerVars
<1>6. CASE UIStep
  BY <1>6 DEF UIStep, ui_get, ui_empty, ui_frame, ui_close, uiRest, readerVars
<1>7. CASE DeviceStep
  BY <1>7 DEF DeviceStep, plug, unplug, packet, packet_taken, readerVars, pushVars
<1>8. CASE UNCHANGED vars
  BY <1>8 DEF vars, readerVars, pushVars
<1> QED
  BY <1>2, <1>3, <1>4, <1>5, <1>6, <1>7, <1>8, ReaderCases DEF Next

LEMMA QueueStep ==
  ASSUME DashTypeOK, [Next]_vars
  PROVE  QueueOK'
<1>1. queue \in Seq(Event) /\ Len(queue) <= QueueMax /\ QueueMax \in Nat
  BY DashAssumption DEF DashTypeOK, Event
<1>2. ASSUME NEW e \in Event, Len(queue) < QueueMax, queue' = Append(queue, e)
      PROVE  QueueOK'
  <2>1. Added(queue, e, queue')
    BY <1>1, <1>2, AddedByAppend
  <2> QED
    BY <1>1, <1>2, <2>1 DEF Added, QueueOK
<1>3. ASSUME queue # <<>>, queue' = Tail(queue) PROVE QueueOK'
  <2>1. Removed(queue, queue')
    BY <1>1, <1>3, RemovedByTail
  <2> QED
    BY <1>1, <1>3, <2>1 DEF Removed, QueueOK
<1>4. CASE UNCHANGED queue
  BY <1>1, <1>4 DEF QueueOK
<1>5. CASE PushStep
  <2>1. CASE Stored
    BY <1>2, <2>1, EntryType DEF Stored
  <2>2. CASE GivenUp \/ Found
    BY <1>4, <2>2 DEF GivenUp, Found, pushVars
  <2>3. CASE push_drop
    BY <1>3, <1>4, <2>3 DEF push_drop
  <2> QED
    BY <1>5, <2>1, <2>2, <2>3, PushCases
<1>6. CASE ReaderStep /\ ~PushStep
  BY <1>4, <1>6, ReaderCases DEF Calls, Moves, pushVars
<1>7. CASE HotplugStep
  <2>1. HotplugEvent \in Event
    BY DEF Event
  <2> QED
    BY <1>2, <1>4, <1>7, <2>1 DEF HotplugStep, hotplug_exit, hotplug_event, hotplug_put
<1>8. CASE UIStep
  BY <1>3, <1>4, <1>8 DEF UIStep, ui_get, ui_empty, ui_frame, ui_close
<1>9. CASE DeviceStep \/ UNCHANGED vars
  BY <1>4, <1>9 DEF DeviceStep, plug, unplug, packet, packet_taken, vars, pushVars
<1> QED
  BY <1>5, <1>6, <1>7, <1>8, <1>9 DEF Next

LEMMA TypeStep ==
  ASSUME DashTypeOK, [Next]_vars
  PROVE  DashTypeOK'
<1> USE DEF DashTypeOK
<1>1. PusherTypes' /\ QueueOK'
  BY PusherStep, QueueStep
<1> SUFFICES /\ (node \in BOOLEAN)' /\ (avail \in 0 .. MaxAvail)'
             /\ (file \in {"none", "live", "gone"})' /\ (left \in 0 .. MaxAvail)'
             /\ (stop \in BOOLEAN)'
             /\ (hpc \in {"select", "put", "done"})'
             /\ (upc \in {"drain", "render", "done"})'
             /\ (connected \in BOOLEAN)' /\ (sampled \in BOOLEAN)'
             /\ (applied \in 0 .. Ids - 1)'
  BY <1>1 DEF PusherTypes, QueueOK, Event
<1>2. MaxAvail \in Nat
  BY DashAssumption
<1>3. CASE DeviceStep
  <2>1. UNCHANGED <<stop, hpc, upc, connected, sampled, applied>> /\ node' \in BOOLEAN
    BY <1>3 DEF DeviceStep, plug, unplug, packet, packet_taken, uiVars
  <2>2. avail' \in 0 .. MaxAvail
    BY <1>2, <1>3 DEF DeviceStep, plug, unplug, packet, packet_taken
  <2>3. left' \in {left, avail} /\ file' \in {"none", "live", "gone"}
    BY <1>3 DEF DeviceStep, plug, unplug, packet, packet_taken, readerVars
  <2> QED
    BY <2>1, <2>2, <2>3
<1>4. CASE HotplugStep
  BY <1>4 DEF HotplugStep, hotplug_exit, hotplug_event, hotplug_put, hotplugRest,
              devVars, readerVars, uiVars
<1>5. CASE ui_get
  <2>1. Head(queue) \in Event
    BY <1>5, RemovedByTail DEF ui_get, Event, Removed
  <2>2. applied' \in 0 .. Ids - 1
    BY <1>5, <2>1 DEF ui_get, Event, ReaderEvent
  <2>3. connected' \in BOOLEAN /\ sampled' \in BOOLEAN
    BY <1>5 DEF ui_get, apply
  <2> QED
    BY <1>5, <2>2, <2>3 DEF ui_get, uiRest, devVars, readerVars
<1>6. CASE ui_empty \/ ui_frame \/ ui_close
  BY <1>6, ZenonT(30) DEF ui_empty, ui_frame, ui_close, uiRest, devVars, readerVars
<1>7. CASE ReaderStep
  <2>1. UNCHANGED <<node, stop, hpc, upc, connected, sampled, applied>>
    BY <1>7 DEF ReaderStep, PushStep, push_put, push_drop, push_reput,
         reader_exit, reader_open, reader_open_fails, reader_top, poll_timeout,
         poll_hangup, poll_in, reader_read, reader_read_enodev, reader_read_eagain,
         reader_close, reader_wait, readerRest, devVars, uiVars
  <2>2. CASE reader_read
    <3>1. PICK a \in {avail, avail - 1}, l \in {left, left - 1} :
            avail' = a /\ left' = l /\ a >= 0 /\ l >= 0
      BY <1>2, <2>2 DEF reader_read
    <3>2. a \in 0 .. MaxAvail /\ l \in 0 .. MaxAvail
      BY <1>2, <3>1
    <3> QED
      BY <2>1, <2>2, <3>1, <3>2 DEF reader_read
  <2>3. CASE ~reader_read
    <3>1. avail' = avail /\ left' \in {left, 0} /\ file' \in {"none", "live", "gone"}
      BY <1>7, <2>3 DEF ReaderStep, PushStep, push_put, push_drop, push_reput,
           reader_exit, reader_open, reader_open_fails, reader_top, poll_timeout,
           poll_hangup, poll_in, reader_read_enodev, reader_read_eagain,
           reader_close, reader_wait, readerRest, devVars
    <3>2. 0 \in 0 .. MaxAvail
      BY <1>2
    <3> QED
      BY <2>1, <3>1, <3>2
  <2> QED
    BY <2>2, <2>3
<1>8. CASE UNCHANGED vars
  BY <1>8 DEF vars, devVars, readerVars, uiVars
<1> QED
  BY <1>3, <1>4, <1>5, <1>6, <1>7, <1>8 DEF Next, UIStep
-------------------------------------------------------------------------------
(* The order of the events *)

LEMMA OrderStep ==
  ASSUME DashTypeOK, OrderInv, rpc \in InLoop => told, [Next]_vars
  PROVE  OrderInv'
<1> USE DEF OrderInv
<1>1. queue \in Seq(Event) /\ Len(queue) <= QueueMax /\ QueueMax \in Nat
  BY DashAssumption DEF DashTypeOK, Event
<1>2. CASE PushStep
  <2>1. UNCHANGED <<hpc, applied, seq>>
    BY <1>2, PushCases DEF uiVars
  <2>2. rpc \in PushStates
    BY <1>2 DEF PushStep, push_put, push_drop, push_reput, PushStates
  <2>3. return /\ after \in {"open", "top", "close", "wait"} => rpc' \notin PushStates
    BY DEF return, PushStates
  <2>4. CASE Stored
    <3>1. Added(queue, Entry, queue')
      BY <1>1, <2>4, AddedByAppend, EntryType DEF Stored
    <3>2. Entry.gap \/ NextIs(queue, Entry.id)
      BY <2>2, EntryType DEF PushKnows
    <3>3. InOrder(queue') /\ NewestIs(queue', Entry.id, applied)
      BY <1>1, <3>1, <3>2, AddReaderEvent, EntryType
    <3>4. Entry.id = seq
      BY <2>2, EntryType DEF PushKnows
    <3>5. rpc' \notin PushStates /\ gap' = FALSE
      BY <2>3, <2>4 DEF Stored, DashTypeOK
    <3> QED
      BY <2>1, <3>3, <3>4, <3>5 DEF PushKnows, PushStates
  <2>5. CASE GivenUp
    <3>1. queue' = queue /\ gap' = TRUE /\ Hotplug
      <4>1. Len(queue) \in Nat /\ ~(Len(queue) < QueueMax)
        BY <1>1, <2>5, LenProperties DEF GivenUp
      <4> QED
        BY <2>5, <4>1 DEF GivenUp
    <3>2. rpc' \notin PushStates
      BY <2>3, <2>5 DEF GivenUp, DashTypeOK
    <3> QED
      BY <2>1, <3>1, <3>2 DEF PushKnows, PushStates
  <2>6. CASE Found
    <3>1. rpc' = "drop" /\ UNCHANGED <<queue, gap, told, item, after>>
      BY <2>6 DEF Found, pushVars
    <3> QED
      BY <2>1, <2>2, <3>1 DEF PushKnows, PushStates
  <2>7. CASE push_drop
    <3>1. rpc' = "reput" /\ UNCHANGED <<gap, told, item, after>>
      BY <2>7 DEF push_drop
    <3>2. CASE queue # <<>> /\ queue' = Tail(queue)
      <4>1. Removed(queue, queue')
        BY <1>1, <3>2, RemovedByTail
      <4>2. InOrder(queue') /\ (NextIs(queue, seq) => NextIs(queue', seq))
        BY <1>1, <4>1, RemoveEvent
      <4>3. Len(queue') < QueueMax
        BY <1>1, <4>1 DEF Removed
      <4> QED
        BY <2>1, <2>2, <3>1, <4>2, <4>3 DEF PushKnows, PushStates
    <3>3. CASE queue = <<>> /\ queue' = queue
      <4>1. Len(queue') < QueueMax
        BY <3>3, NoEvents, DashAssumption
      <4> QED
        BY <2>1, <2>2, <3>1, <3>3, <4>1 DEF PushKnows, PushStates
    <3> QED
      BY <2>7, <3>2, <3>3 DEF push_drop
  <2> QED
    BY <1>2, <2>4, <2>5, <2>6, <2>7, PushCases
<1>3. ASSUME NEW type \in EventTypes, NEW c \in {"open", "top", "close", "wait"},
             Calls(type, c)
      PROVE  OrderInv'
  <2>1. /\ seq' = (seq + 1) % Ids
        /\ item' = [type |-> type, id |-> (seq + 1) % Ids]
        /\ rpc' = "put" /\ after' = c /\ UNCHANGED <<queue, gap, told, hpc>>
        /\ rpc \notin PushStates
        /\ c \in InLoop => type \in {"connected", "sample"}
        /\ type = "sample" => told
    BY <1>3 DEF Calls, push, pushVars
  <2>2. item'.type = type /\ item'.id = seq'
    BY <2>1
  <2>3. ~gap' => NextIs(queue', seq')
    BY <2>1, NewestGivesNext
  <2> QED
    BY <1>3, <2>1, <2>2, <2>3 DEF PushKnows, PushStates
<1>4. CASE Moves
  BY <1>4 DEF Moves, pushVars, uiVars, PushKnows, PushStates
<1>5. CASE HotplugStep
  <2>1. CASE hotplug_put
    <3>1. HotplugEvent \in Event /\ queue' = Append(queue, HotplugEvent) /\ Hotplug
      BY <2>1 DEF Event, hotplug_put
    <3>2. Added(queue, HotplugEvent, queue')
      BY <1>1, <3>1, AddedByAppend
    <3>3. /\ InOrder(queue')
          /\ NewestIs(queue, seq, applied) => NewestIs(queue', seq, applied)
          /\ NextIs(queue, seq) => NextIs(queue', seq)
      BY <1>1, <3>2, AddHotplugEvent
    <3>4. UNCHANGED <<rpc, gap, told, item, after, seq, applied>>
      BY <2>1 DEF hotplug_put, hotplugRest, readerVars, uiVars
    <3> QED
      BY <3>1, <3>3, <3>4 DEF PushKnows
  <2>2. CASE hotplug_exit \/ hotplug_event
    <3>1. /\ UNCHANGED <<queue, rpc, gap, told, item, after, seq, applied>>
          /\ Hotplug
      BY <2>2 DEF hotplug_exit, hotplug_event, hotplugRest, readerVars, uiVars
    <3> QED
      BY <3>1 DEF PushKnows
  <2> QED
    BY <1>5, <2>1, <2>2 DEF HotplugStep
<1>6. CASE ui_get
  <2>1. Removed(queue, queue') /\ Head(queue) = queue[1]
    BY <1>1, <1>6, RemovedByTail DEF ui_get, Removed
  <2>2. UNCHANGED <<rpc, gap, told, item, after, seq, hpc>>
    BY <1>6 DEF ui_get, uiRest, readerVars
  <2>3. applied' = IF queue[1] = HotplugEvent THEN applied ELSE queue[1].id
    BY <1>6, <2>1 DEF ui_get
  <2>4. /\ InOrder(queue')
        /\ NewestIs(queue, seq, applied) => NewestIs(queue', seq, applied')
        /\ NextIs(queue, seq) => NextIs(queue', seq)
    BY <1>1, <2>1, <2>3, RemoveEvent
  <2>5. Len(queue) < QueueMax => Len(queue') < QueueMax
    BY <1>1, <2>1 DEF Removed
  <2> QED
    BY <2>2, <2>4, <2>5 DEF PushKnows
<1>7. CASE ui_empty \/ ui_frame \/ ui_close \/ DeviceStep \/ UNCHANGED vars
  <2>1. UNCHANGED <<queue, rpc, gap, told, item, after, seq, applied, hpc>>
    BY <1>7 DEF ui_empty, ui_frame, ui_close, DeviceStep, plug, unplug, packet,
         packet_taken, vars, uiRest, readerVars, pushVars, uiVars
  <2> QED
    BY <2>1 DEF PushKnows
<1> QED
  BY <1>2, <1>3, <1>4, <1>5, <1>6, <1>7, ReaderCases DEF Next, UIStep
-------------------------------------------------------------------------------
(* The status strip and the sample *)

LEMMA StatusStep ==
  ASSUME DashTypeOK, OrderInv, StatusInv, [Next]_vars
  PROVE  StatusInv'
<1> USE DEF StatusInv
<1>1. queue \in Seq(Event)
  BY DEF DashTypeOK, Event
<1>2. CASE PushStep
  <2>1. UNCHANGED <<connected, sampled>> /\ rpc \in PushStates
    BY <1>2, PushCases DEF uiVars, PushStep, push_put, push_drop, push_reput, PushStates
  <2>2. item.type \in EventTypes /\ after \in {"open", "top", "close", "wait"}
    BY DEF DashTypeOK
  <2>3. ASSUME return,
               IF IsAnnouncement(item) THEN told' = (item.type = "connected")
                                       ELSE told' = told
        PROVE  rpc' \in InLoop => told'
    <3>1. rpc' \in InLoop => item.type = "connected" \/ (item.type = "sample" /\ told)
      BY <2>1, <2>3 DEF return, OrderInv, PushKnows
    <3> QED
      BY <2>3, <3>1 DEF IsAnnouncement, Announcements
  <2>4. CASE Stored
    <3>1. rpc' \in InLoop => told'
      BY <2>3, <2>4 DEF Stored
    <3>2. Added(queue, Entry, queue')
      BY <1>1, <2>4, AddedByAppend, EntryType DEF Stored
    <3>3. CASE IsAnnouncement(item)
      <4>1. told' = (Entry.type = "connected") /\ missed' = FALSE
        BY <2>4, <3>3, EntryType DEF Stored
      <4>2. /\ Shows(queue', connected, Entry.type = "connected")
            /\ SamplesKnown(queue', told')
            /\ AnnouncementPlaces(queue') # {}
        BY <1>1, <3>2, <3>3, AddAnnouncement, EntryType
      <4> QED
        BY <2>1, <3>1, <4>1, <4>2 DEF SampleShown
    <3>4. CASE ~IsAnnouncement(item)
      <4>1. UNCHANGED <<told, missed>>
        BY <2>4, <3>4 DEF Stored
      <4>2. Entry.type = "sample" => told
        BY <2>1, EntryType DEF OrderInv, PushKnows
      <4>3. /\ Shows(queue, connected, told) => Shows(queue', connected, told)
            /\ SamplesKnown(queue, told) => SamplesKnown(queue', told)
            /\ AnnouncementPlaces(queue') = AnnouncementPlaces(queue)
        BY <1>1, <3>2, <3>4, <4>2, AddOther, EntryType
      <4> QED
        BY <2>1, <3>1, <4>1, <4>3 DEF SampleShown
    <3> QED
      BY <3>3, <3>4
  <2>5. CASE GivenUp
    <3>1. queue' = queue /\ (rpc' \in InLoop => told')
      BY <2>3, <2>5 DEF GivenUp
    <3>2. missed' = TRUE \/ UNCHANGED <<told, missed>>
      BY <2>5 DEF GivenUp
    <3> QED
      BY <2>1, <3>1, <3>2 DEF SampleShown
  <2>6. CASE Found
    <3>1. rpc' = "drop" /\ UNCHANGED <<queue, told, missed>>
      BY <2>6 DEF Found, pushVars
    <3> QED
      BY <2>1, <3>1 DEF SampleShown, InLoop
  <2>7. CASE push_drop
    <3>1. rpc' = "reput" /\ told' = told
      BY <2>7 DEF push_drop
    <3>2. CASE queue # <<>> /\ queue' = Tail(queue)
      <4>1. Removed(queue, queue') /\ Head(queue) = queue[1]
        BY <1>1, <3>2, RemovedByTail DEF Removed
      <4>2. /\ missed => missed'
            /\ ~missed' => ~IsAnnouncement(queue[1])
                           \/ \E k \in 2 .. Len(queue) : IsAnnouncement(queue[k])
        BY <2>7, <3>2, <4>1 DEF push_drop
      <4>3. ASSUME NEW k \in 2 .. Len(queue), IsAnnouncement(queue[k])
            PROVE  AnnouncementPlaces(queue') # {}
        <5>1. PICK m \in 1 .. Len(queue') : m + 1 = k
          <6>1. PICK n \in Nat : n = Len(queue') /\ Len(queue) = n + 1
            BY <4>1 DEF Removed
          <6>2. k - 1 \in 1 .. n /\ (k - 1) + 1 = k
            BY <6>1
          <6> QED
            BY <6>1, <6>2
        <5>2. m \in AnnouncementPlaces(queue')
          BY <4>1, <4>3, <5>1 DEF Removed, AnnouncementPlaces
        <5> QED
          BY <5>2
      <4>4. ~missed' /\ IsAnnouncement(queue[1]) => AnnouncementPlaces(queue') # {}
        BY <4>2, <4>3
      <4>5. /\ ~missed' /\ Shows(queue, connected, told) => Shows(queue', connected, told)
            /\ SamplesKnown(queue, told) => SamplesKnown(queue', told)
            /\ AnnouncementPlaces(queue) # {} /\ ~IsAnnouncement(queue[1])
                 => AnnouncementPlaces(queue') # {}
        BY <1>1, <4>1, <4>4, RemoveShown
      <4> QED
        BY <2>1, <3>1, <4>2, <4>4, <4>5 DEF SampleShown, InLoop
    <3>3. CASE queue' = queue /\ missed' = missed
      BY <2>1, <3>1, <3>3 DEF SampleShown, InLoop
    <3> QED
      BY <2>7, <3>2, <3>3 DEF push_drop
  <2> QED
    BY <1>2, <2>4, <2>5, <2>6, <2>7, PushCases
<1>3. CASE ReaderStep /\ ~PushStep
  <2>1. UNCHANGED <<queue, told, missed, connected, sampled>>
        /\ (rpc' \in InLoop => rpc \in InLoop)
    BY <1>3, ReaderCases DEF Calls, Moves, push, pushVars, uiVars, InLoop
  <2> QED
    BY <2>1 DEF SampleShown
<1>4. CASE HotplugStep
  <2>1. UNCHANGED <<rpc, told, missed, connected, sampled>>
    BY <1>4 DEF HotplugStep, hotplug_exit, hotplug_event, hotplug_put, hotplugRest,
                readerVars, uiVars
  <2>2. CASE hotplug_put
    <3>1. Added(queue, HotplugEvent, queue')
      BY <1>1, <2>2, AddedByAppend DEF hotplug_put, Event
    <3>2. /\ Shows(queue, connected, told) => Shows(queue', connected, told)
          /\ SamplesKnown(queue, told) => SamplesKnown(queue', told)
          /\ AnnouncementPlaces(queue') = AnnouncementPlaces(queue)
      BY <1>1, <3>1, AddHotplugEvent
    <3> QED
      BY <2>1, <3>2 DEF SampleShown
  <2>3. CASE hotplug_exit \/ hotplug_event
    BY <2>1, <2>3 DEF hotplug_exit, hotplug_event, SampleShown
  <2> QED
    BY <1>4, <2>2, <2>3 DEF HotplugStep
<1>5. CASE ui_get
  <2>1. Removed(queue, queue') /\ Head(queue) = queue[1] /\ queue[1] \in Event
    BY <1>1, <1>5, RemovedByTail DEF ui_get, Removed
  <2>2. UNCHANGED <<rpc, told, missed>>
    BY <1>5 DEF ui_get, uiRest, readerVars
  <2>3. PICK e \in Event : e = queue[1]
    BY <2>1
  <2>4. /\ connected' = (e.type = "connected" \/ (connected /\ e.type # "disconnected"))
        /\ sampled' = (e.type = "sample" \/ (sampled /\ e.type # "disconnected"))
    BY <1>5, <2>1, <2>3 DEF ui_get, apply
  <2>5. connected \in BOOLEAN
    BY DEF DashTypeOK
  <2>6. connected' = IF IsAnnouncement(e) THEN e.type = "connected" ELSE connected
    BY <2>4, <2>5 DEF IsAnnouncement, Announcements
  <2>7. /\ Shows(queue, connected, told) => Shows(queue', connected', told)
        /\ SamplesKnown(queue, told) => SamplesKnown(queue', told)
        /\ AnnouncementPlaces(queue) # {} /\ ~IsAnnouncement(e)
             => AnnouncementPlaces(queue') # {}
    BY <1>1, <2>1, <2>3, <2>6, RemoveShown
  <2>8. SampleShown'
    <3> SUFFICES ASSUME sampled', ~connected', ~missed, AnnouncementPlaces(queue') = {}
                 PROVE  FALSE
      BY <2>2 DEF SampleShown
    <3>1. ~IsAnnouncement(e)
      BY <2>4 DEF IsAnnouncement, Announcements
    <3>2. AnnouncementPlaces(queue) = {} /\ ~connected
      BY <2>6, <2>7, <3>1
    <3>3. ~told
      BY <3>2 DEF Shows, DashTypeOK
    <3>4. e.type # "sample"
      <4>1. 1 \in 1 .. Len(queue)
        BY <2>1 DEF Removed
      <4> QED
        BY <2>3, <3>2, <3>3, <4>1 DEF SamplesKnown
    <3>5. sampled
      BY <2>4, <3>4
    <3> QED
      BY <3>2, <3>5 DEF SampleShown
  <2> QED
    BY <2>2, <2>7, <2>8
<1>6. CASE ui_empty \/ ui_frame \/ ui_close \/ DeviceStep \/ UNCHANGED vars
  <2>1. UNCHANGED <<queue, rpc, told, missed, connected, sampled>>
    BY <1>6 DEF ui_empty, ui_frame, ui_close, DeviceStep, plug, unplug, packet,
         packet_taken, vars, uiRest, readerVars, pushVars, uiVars
  <2> QED
    BY <2>1 DEF SampleShown
<1> QED
  BY <1>2, <1>3, <1>4, <1>5, <1>6 DEF Next, UIStep
-------------------------------------------------------------------------------
THEOREM DashInvariant == Spec => []DashInv
<1>1. DashInv /\ [Next]_vars => DashInv'
  BY TypeStep, OrderStep, StatusStep DEF DashInv, StatusInv
<1> QED
  BY <1>1, DashInit, PTL DEF Spec

(* The queue keeps its bound although _drop_push and the hotplug thread    *)
(* test and fill it in steps of their own, and every variable its type.    *)
THEOREM DashTypeCorrect == Spec => []DashTypeOK
<1>1. DashInv => DashTypeOK
  BY DEF DashInv
<1> QED
  BY <1>1, DashInvariant, PTL

(* An overflow takes the oldest event; without the hotplug thread no event *)
(* is ever missing between two others.                                     *)
THEOREM QueueCorrect == Spec => []QueueIsNewest
<1>1. DashInv => QueueIsNewest
  BY DEF DashInv, OrderInv, NewestIs, QueueIsNewest
<1> QED
  BY <1>1, DashInvariant, PTL

(* The status strip will show what the reader last announced, unless that  *)
(* announcement was lost.                                                  *)
THEOREM StatusCorrect == Spec => []StatusCatchesUp
<1>1. DashInv => StatusCatchesUp
  BY DEF DashInv, StatusInv, Shows, StatusCatchesUp, WillShow
<1> QED
  BY <1>1, DashInvariant, PTL

(* Input is shown of a controller that is shown as disconnected only while *)
(* an announcement is lost or pending.                                     *)
THEOREM SampleCorrect == Spec => []SampleShown
<1>1. DashInv => SampleShown
  BY DEF DashInv, StatusInv
<1> QED
  BY <1>1, DashInvariant, PTL
===============================================================================
