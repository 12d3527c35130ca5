----------------------------- MODULE BoundedQueue -----------------------------
(***************************************************************************)
(* What both bounded buffers of the system do when they are full: the      *)
(* newest entry always gets in and the oldest one is lost.  The driver's   *)
(* ring (ring_put) and the dashboard's event queue (_drop_push) are both   *)
(* meant to behave like this.                                              *)
(***************************************************************************)
LOCAL INSTANCE Naturals
LOCAL INSTANCE Sequences

(* Mutations of PutDroppingOldest: nothing is dropped, or a full queue     *)
(* refuses the new entry.                                                  *)
PutDroppingNothing(q, e, cap) == Append(q, e)

PutDroppingNewest(q, e, cap) == IF Len(q) >= cap THEN q ELSE Append(q, e)

(* The queue q, of at most cap entries, after e was put in. *)
PutDroppingOldest(q, e, cap) ==
  IF Len(q) >= cap THEN Append(Tail(q), e) ELSE Append(q, e)
===============================================================================
