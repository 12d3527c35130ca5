-------------------------- MODULE RumbleStreamProofs --------------------------
(***************************************************************************)
(* Safety of the packet stream of RumbleDriver for every number of         *)
(* interfaces, addresses and threads and every size of the ring: what the  *)
(* ring holds, what read delivers, what poll promises, and who sleeps.     *)
(***************************************************************************)
EXTENDS RumbleDriverProofs

(* The packets in q are the newest of s reports, oldest first. *)
Newest(q, s) ==
  /\ q \in Seq(Nat) /\ s \in Nat /\ Len(q) \in Nat /\ Len(q) <= s
  /\ \A k \in 1 .. Len(q) : q[k] = (s - Len(q)) + k

(* The ring of a device holds the newest reports, and one slot is free. *)
RingShape ==
  \A d \in Devs : Newest(ring[d], stamp[d]) /\ Len(ring[d]) < RingSize
-------------------------------------------------------------------------------
(* What a put and a get do to the ring. *)
LEMMA PutNewest ==
  ASSUME NEW q, NEW s, Newest(q, s), NEW cap \in Nat \ {0}, Len(q) <= cap,
         NEW r, r = PutDroppingOldest(q, s + 1, cap)
  PROVE  Newest(r, s + 1) /\ r # <<>> /\ Len(r) <= cap /\ Len(r) <= Len(q) + 1
<1>0. PICK e \in Nat : e = s + 1
  BY DEF Newest
<1>1. PICK lost : lost = Lost(q, cap)
  OBVIOUS
<1>2. /\ q \in Seq(Nat) /\ Len(q) \in Nat /\ s \in Nat /\ lost \in {0, 1}
      /\ Len(q) >= cap => lost = 1
  BY <1>1 DEF Newest, Lost
<1>3. r = PutDroppingOldest(q, e, cap)
  BY <1>0
<1>4. \A S : (q \in Seq(S) /\ e \in S) =>
        /\ r \in Seq(S) /\ r # <<>> /\ Len(r) \in Nat
        /\ Len(r) = Len(q) + 1 - lost
        /\ \A k \in 1 .. Len(r) - 1 : r[k] = q[k + lost]
        /\ r[Len(r)] = e
  BY <1>1, <1>3, PutProperties
<1>5. /\ r \in Seq(Nat) /\ r # <<>> /\ Len(r) \in Nat
      /\ Len(r) = Len(q) + 1 - lost
      /\ \A k \in 1 .. Len(r) - 1 : r[k] = q[k + lost]
      /\ r[Len(r)] = e
  BY <1>2, <1>4
<1>6. Len(r) <= cap /\ Len(r) <= s + 1 /\ Len(r) <= Len(q) + 1
  BY <1>2, <1>5 DEF Newest
<1>7. ASSUME NEW k \in 1 .. Len(r)
      PROVE  r[k] = (s + 1 - Len(r)) + k
  <2>1. CASE k = Len(r)
    BY <1>0, <1>2, <1>5, <2>1, SMTT(30)
  <2>2. CASE k # Len(r)
    <3>1. k \in 1 .. Len(r) - 1 /\ k + lost \in 1 .. Len(q)
      BY <1>2, <1>5, <2>2, SMTT(30)
    <3>2. r[k] = (s - Len(q)) + (k + lost)
      BY <1>5, <3>1 DEF Newest
    <3>3. (s - Len(q)) + (k + lost) = (s + 1 - Len(r)) + k
      <4>1. Len(r) = Len(q) + 1 - lost /\ Len(r) \in Nat
        BY <1>5
      <4> QED
        BY <1>2, <4>1
    <3> QED
      BY <3>2, <3>3
  <2> QED
    BY <2>1, <2>2
<1> QED
  BY <1>2, <1>5, <1>6, <1>7 DEF Newest

LEMMA GetNewest ==
  ASSUME NEW q, NEW s, Newest(q, s), q # <<>>
  PROVE  /\ Head(q) = (s - Len(q)) + 1
         /\ Newest(Tail(q), s) /\ Len(Tail(q)) = Len(q) - 1
<1> DEFINE r == Tail(q)
<1>1. /\ r \in Seq(Nat) /\ Len(r) = Len(q) - 1
      /\ \A k \in 1 .. Len(q) - 1 : r[k] = q[k + 1]
      /\ Head(q) = q[1] /\ Len(q) \in Nat /\ Len(q) > 0
  BY TailProperties DEF Newest
<1> HIDE DEF r
<1>2. ASSUME NEW k \in 1 .. Len(r)
      PROVE  r[k] = (s - Len(r)) + k
  <2>1. k \in 1 .. Len(q) - 1 /\ k + 1 \in 1 .. Len(q)
    BY <1>1
  <2>2. r[k] = (s - Len(q)) + (k + 1)
    BY <1>1, <2>1 DEF Newest
  <2> QED
    BY <1>1, <2>1, <2>2 DEF Newest
<1>3. Head(q) = (s - Len(q)) + 1
  BY <1>1 DEF Newest
<1>4. Len(r) \in Nat /\ Len(r) <= s
  BY <1>1 DEF Newest
<1> QED
  BY <1>1, <1>2, <1>3, <1>4 DEF Newest, r

(* Only these three touch the ring. *)
LEMMA RingSteps ==
  ASSUME [Next]_vars
  PROVE  \/ UNCHANGED ringVars
         \/ \E i \in Intfs, d \in Devs : probe_alloc(i, d)
         \/ \E d \in Devs : urb_input(d)
         \/ \E t \in Threads : read_get(t)
<1> USE DEF vars, modVars, memVars, usbVars, ringVars, txVars, sysVars,
       devVars, intfVars, fileVars, callVars, thrVars
<1>1. CASE UNCHANGED vars
  BY <1>1
<1>2. CASE rumble_init \/ rumble_exit \/ rumble_exit_return
  BY <1>2 DEF rumble_init, rumble_exit, rumble_exit_return
<1>3. ASSUME NEW i \in Intfs, usb_unbind(i) \/ ProbeStep(i) \/ DisconnectStep(i)
      PROVE  UNCHANGED ringVars
  BY <1>3 DEF usb_unbind, ProbeStep, probe_register, probe_alloc_buf,
     probe_alloc_urb, probe_submit, probe_return, probe_goto_err, err_free_urb,
     err_free_buf, err_destroy_dev, err_put_dev, DisconnectStep, disconnect_mark,
     disconnect_wake, disconnect_killed, disconnect_destroy, disconnect_free,
     disconnect_put
<1>4. ASSUME NEW d \in Devs, HandlerStep(d) \/ CompletionStep(d), ~urb_input(d)
      PROVE  UNCHANGED ringVars
  BY <1>4 DEF HandlerStep, urb_wake, urb_acked, urb_resubmit, CompletionStep,
     urb_virtual_key, urb_ignored, urb_shutdown
<1>5. ASSUME NEW t \in Threads, ReadStep(t), ~read_get(t)
      PROVE  UNCHANGED ringVars
  BY <1>5 DEF ReadStep, read_get_empty, read_check, read_prepare, read_load,
     read_test, read_awake, read_woken, read_copy
<1>6. ASSUME NEW t \in Threads, OpenStep(t) \/ PollStep(t) \/ IoctlStep(t) \/ CallStep(t)
      PROVE  UNCHANGED ringVars
  BY <1>6 DEF OpenStep, rumble_open, rumble_open_enodev, PollStep, poll_load,
     poll_test, poll_awake, IoctlStep, ioctl_store_seq, ioctl_lock, ioctl_check,
     ioctl_sent, ioctl_unlock, CallStep, open_lookup, rumble_release, read_begin,
     poll_begin, ioctl_load_seq, read_signal, poll_timeout
<1> QED
  BY <1>1, <1>2, <1>3, <1>4, <1>5, <1>6 DEF Next

LEMMA RingShapeStep ==
  ASSUME LifecycleInv, RingShape, [Next]_vars
  PROVE  RingShape'
<1>0. /\ ring \in [Devs -> Seq(Nat)] /\ stamp \in [Devs -> Nat]
      /\ file \in [Threads -> Devs \cup {NULL}]
      /\ \A t \in Threads : tpc[t] = "r_get" => file[t] \in Devs
  BY DEF LifecycleInv, TypeOK, References
<1> USE DEF RingShape
<1>1. CASE UNCHANGED ringVars
  BY <1>1 DEF ringVars
<1>2. ASSUME NEW i \in Intfs, NEW d \in Devs, probe_alloc(i, d)
      PROVE  RingShape'
  <2>1. \A e \in Devs : \/ ring'[e] = ring[e] /\ stamp'[e] = stamp[e]
                        \/ ring'[e] = <<>> /\ stamp'[e] = 0
    BY <1>0, <1>2 DEF probe_alloc
  <2>2. Newest(<<>>, 0) /\ Len(<<>>) < RingSize
    BY DriverAssumption DEF Newest
  <2> QED
    BY <2>1, <2>2
<1>3. ASSUME NEW d \in Devs, urb_input(d)
      PROVE  RingShape'
  <2> DEFINE q == ring[d]
             s == stamp[d]
             cap == RingSize - 1
  <2>1. /\ Newest(q, s) /\ cap \in Nat \ {0} /\ Len(q) <= cap
        /\ \A n \in Nat : n <= cap => n < RingSize
    BY DriverAssumption DEF Newest
  <2>2. /\ stamp'[d] = s + 1
        /\ ring'[d] = PutDroppingOldest(q, s + 1, cap)
        /\ \A e \in Devs \ {d} : ring'[e] = ring[e] /\ stamp'[e] = stamp[e]
    BY <1>0, <1>3 DEF urb_input
  <2> HIDE DEF q, s, cap
  <2>3. Newest(ring'[d], s + 1) /\ Len(ring'[d]) <= cap
    BY <2>1, <2>2, PutNewest
  <2>4. Len(ring'[d]) < RingSize
    BY <2>1, <2>3 DEF Newest
  <2> QED
    BY <2>2, <2>3, <2>4
<1>4. ASSUME NEW t \in Threads, read_get(t)
      PROVE  RingShape'
  <2> DEFINE d == file[t]
             q == ring[d]
  <2>1. d \in Devs /\ q # <<>> /\ Newest(q, stamp[d]) /\ Len(q) < RingSize
    BY <1>0, <1>4 DEF read_get
  <2>2. /\ stamp' = stamp /\ ring'[d] = Tail(q)
        /\ \A e \in Devs \ {d} : ring'[e] = ring[e]
    BY <1>0, <1>4, <2>1 DEF read_get, ring_get
  <2> HIDE DEF d, q
  <2>3. Newest(Tail(q), stamp[d]) /\ Len(Tail(q)) = Len(q) - 1
    BY <2>1, GetNewest
  <2>4. Len(Tail(q)) < RingSize
    BY <2>1, <2>3, DriverAssumption DEF Newest
  <2> QED
    BY <2>2, <2>3, <2>4
<1> QED
  BY <1>1, <1>2, <1>3, <1>4, RingSteps

(* The ring holds the newest reports, without a gap (rumble.c:170-181).    *)
THEOREM RingNewestCorrect == Spec => []RingIsNewest
<1>1. Init => RingShape
  <2>1. Newest(<<>>, 0) /\ Len(<<>>) < RingSize
    BY DriverAssumption DEF Newest
  <2> QED
    BY <2>1 DEF Init, RingShape
<1>2. LifecycleInv /\ RingShape /\ [Next]_vars => RingShape'
  BY RingShapeStep
<1>3. ASSUME RingShape, NEW d \in Devs
      PROVE  ring[d] = [k \in 1 .. Len(ring[d]) |-> stamp[d] - Len(ring[d]) + k]
  <2>1. Newest(ring[d], stamp[d])
    BY <1>3 DEF RingShape
  <2>2. ring[d] = [k \in 1 .. Len(ring[d]) |-> ring[d][k]]
    BY <2>1 DEF Newest
  <2> QED
    BY <2>1, <2>2 DEF Newest
<1>4. RingShape => RingIsNewest
  BY <1>3 DEF RingIsNewest
<1> QED
  BY <1>1, <1>2, <1>4, LifecycleCorrect, PTL DEF Spec
-------------------------------------------------------------------------------
(* How many reports of d have left its ring: read, or overwritten.         *)
Taken(d) == stamp[d] - Len(ring[d])

(* What a file has delivered has left the ring, and what a reader has just *)
(* taken is newer than that, has left the ring too, and is nobody else's.  *)
DeliveryInv ==
  /\ \A t \in Threads : file[t] = NULL => last[t] = 0
  /\ \A t \in Threads : file[t] # NULL => last[t] <= Taken(file[t])
  /\ \A t \in Threads :
       inp[t] # 0 => /\ tpc[t] = "r_copy"
                     /\ last[t] < inp[t] /\ inp[t] <= Taken(file[t])
  /\ \A t, u \in Threads :
       (t # u /\ file[t] = file[u] /\ inp[t] # 0) => inp[t] # inp[u]

LEMMA TakenType ==
  ASSUME RingShape, NEW d \in Devs
  PROVE  Taken(d) \in Nat
BY DEF RingShape, Newest, Taken

LEMMA TakenInput ==
  ASSUME LifecycleInv, RingShape, NEW d \in Devs, urb_input(d)
  PROVE  \A e \in Devs : Taken(e)' \in Nat /\ Taken(e) <= Taken(e)'
<1>0. ring \in [Devs -> Seq(Nat)] /\ stamp \in [Devs -> Nat]
  BY DEF LifecycleInv, TypeOK
<1> DEFINE q == ring[d]
           s == stamp[d]
           cap == RingSize - 1
<1>1. Newest(q, s) /\ cap \in Nat \ {0} /\ Len(q) <= cap
  BY DriverAssumption DEF RingShape, Newest
<1>2. /\ stamp'[d] = s + 1
      /\ ring'[d] = PutDroppingOldest(q, s + 1, cap)
      /\ \A e \in Devs \ {d} : ring'[e] = ring[e] /\ stamp'[e] = stamp[e]
  BY <1>0 DEF urb_input
<1> HIDE DEF q, s, cap
<1>3. Newest(ring'[d], s + 1) /\ Len(ring'[d]) <= Len(q) + 1
  BY <1>1, <1>2, PutNewest
<1>4. /\ s \in Nat /\ Len(q) \in Nat /\ Len(ring'[d]) \in Nat
      /\ Len(ring'[d]) <= s + 1
  BY <1>1, <1>3 DEF Newest
<1>5. Taken(d) = s - Len(q) /\ Taken(d)' = (s + 1) - Len(ring'[d])
  BY <1>2 DEF Taken, q, s
<1>6. Taken(d)' \in Nat /\ Taken(d) <= Taken(d)'
  BY <1>3, <1>4, <1>5
<1>7. \A e \in Devs \ {d} : Taken(e)' = Taken(e) /\ Taken(e) \in Nat
  BY <1>2, TakenType DEF Taken
<1> QED
  BY <1>6, <1>7

LEMMA TakenGet ==
  ASSUME LifecycleInv, RingShape, NEW t \in Threads, read_get(t)
  PROVE  \E d \in Devs : /\ d = file[t]
                         /\ inp' = [inp EXCEPT ![t] = Taken(d) + 1]
                         /\ Taken(d)' = Taken(d) + 1
                         /\ \A e \in Devs \ {d} : Taken(e)' = Taken(e)
<1>0. PICK d \in Devs : d = file[t]
  BY DEF LifecycleInv, TypeOK, References, read_get
<1> DEFINE q == ring[d]
<1>1. q # <<>> /\ Newest(q, stamp[d]) /\ ring \in [Devs -> Seq(Nat)]
  BY <1>0 DEF LifecycleInv, TypeOK, read_get, RingShape
<1>2. /\ stamp' = stamp /\ ring'[d] = Tail(q)
      /\ inp' = [inp EXCEPT ![t] = Head(q)]
      /\ \A e \in Devs \ {d} : ring'[e] = ring[e]
  BY <1>0, <1>1 DEF read_get, ring_get
<1> HIDE DEF q
<1>3. /\ Head(q) = (stamp[d] - Len(q)) + 1
      /\ Len(Tail(q)) = Len(q) - 1
  BY <1>1, GetNewest
<1>4. Len(q) \in Nat /\ stamp[d] \in Nat
  BY <1>1 DEF Newest
<1>5. Taken(d) = stamp[d] - Len(q) /\ Taken(d)' = stamp[d] - Len(Tail(q))
  BY <1>2 DEF Taken, q
<1>6. Head(q) = Taken(d) + 1 /\ Taken(d)' = Taken(d) + 1
  BY <1>3, <1>4, <1>5
<1>7. \A e \in Devs \ {d} : Taken(e)' = Taken(e)
  BY <1>2 DEF Taken
<1> QED
  BY <1>0, <1>2, <1>6, <1>7

(* A step of a thread moves that thread only. *)
LEMMA ThreadMoves ==
  ASSUME NEW t \in Threads,
         OpenStep(t) \/ ReadStep(t) \/ PollStep(t) \/ IoctlStep(t) \/ CallStep(t)
  PROVE  \E pc : tpc' = [tpc EXCEPT ![t] = pc]
<1>1. CASE OpenStep(t)
  BY <1>1 DEF OpenStep, rumble_open, rumble_open_enodev
<1>2. CASE ReadStep(t)
  <2>1. CASE read_test(t)
    BY <2>1 DEF read_test
  <2>2. CASE ~read_test(t)
    BY <1>2, <2>2 DEF ReadStep, read_get, read_get_empty, read_check,
       read_prepare, read_load, read_awake, read_woken, read_copy
  <2> QED
    BY <2>1, <2>2
<1>3. CASE PollStep(t)
  <2>1. CASE poll_test(t)
    BY <2>1 DEF poll_test
  <2>2. CASE ~poll_test(t)
    BY <1>3, <2>2 DEF PollStep, poll_load, poll_awake
  <2> QED
    BY <2>1, <2>2
<1>4. CASE IoctlStep(t)
  BY <1>4 DEF IoctlStep, ioctl_store_seq, ioctl_lock, ioctl_check, ioctl_sent,
     ioctl_unlock
<1>5. CASE CallStep(t)
  BY <1>5 DEF CallStep, open_lookup, rumble_release, read_begin, poll_begin,
     ioctl_load_seq, read_signal, poll_timeout
<1> QED
  BY <1>1, <1>2, <1>3, <1>4, <1>5

(* Only these touch what DeliveryInv is about. *)
LEMMA DeliverySteps ==
  ASSUME TypeOK, [Next]_vars
  PROVE  \/ /\ UNCHANGED <<ringVars, file, last, inp>>
            /\ \A t \in Threads : tpc[t] = "r_copy" => tpc'[t] = "r_copy"
         \/ \E i \in Intfs, d \in Devs : probe_alloc(i, d)
         \/ \E d \in Devs : urb_input(d)
         \/ \E t \in Threads : \/ read_get(t) \/ read_copy(t)
                               \/ rumble_open(t) \/ rumble_release(t)
<1> DEFINE Quiet == /\ UNCHANGED <<ringVars, file, last, inp>>
                    /\ \A t \in Threads : tpc[t] = "r_copy" => tpc'[t] = "r_copy"
<1> USE DEF vars, modVars, memVars, usbVars, ringVars, txVars, sysVars,
       devVars, intfVars, fileVars, callVars, thrVars
<1>1. CASE UNCHANGED vars
  BY <1>1
<1>2. CASE rumble_init \/ rumble_exit \/ rumble_exit_return
  BY <1>2 DEF rumble_init, rumble_exit, rumble_exit_return
<1>3. ASSUME NEW i \in Intfs, usb_unbind(i) \/ ProbeStep(i) \/ DisconnectStep(i)
      PROVE  Quiet
  BY <1>3 DEF usb_unbind, ProbeStep, probe_register, probe_alloc_buf,
     probe_alloc_urb, probe_submit, probe_return, probe_goto_err, err_free_urb,
     err_free_buf, err_destroy_dev, err_put_dev, DisconnectStep, disconnect_mark,
     disconnect_wake, disconnect_killed, disconnect_destroy, disconnect_free,
     disconnect_put
<1>4. ASSUME NEW d \in Devs, HandlerStep(d) \/ CompletionStep(d), ~urb_input(d)
      PROVE  Quiet
  BY <1>4 DEF HandlerStep, urb_wake, urb_acked, urb_resubmit, CompletionStep,
     urb_virtual_key, urb_ignored, urb_shutdown
<1>5. ASSUME NEW t \in Threads, UNCHANGED <<ringVars, file, last, inp>>,
             tpc[t] # "r_copy", \E pc : tpc' = [tpc EXCEPT ![t] = pc]
      PROVE  Quiet
  BY <1>5 DEF TypeOK
<1>6. ASSUME NEW t \in Threads, ReadStep(t), ~read_get(t), ~read_copy(t)
      PROVE  Quiet
  <2>1. /\ UNCHANGED <<ringVars, file, last, inp>>
        /\ tpc[t] # "r_copy"
    BY <1>6 DEF ReadStep, read_get_empty, read_check, read_prepare, read_load,
       read_test, read_awake, read_woken
  <2> QED
    BY <1>5, <1>6, <2>1, ThreadMoves
<1>7. ASSUME NEW t \in Threads, OpenStep(t) \/ CallStep(t),
             ~rumble_open(t), ~rumble_release(t)
      PROVE  Quiet
  <2>1. /\ UNCHANGED <<ringVars, file, last, inp>>
        /\ tpc[t] # "r_copy"
    BY <1>7 DEF OpenStep, rumble_open_enodev, CallStep, open_lookup, read_begin,
       poll_begin, ioctl_load_seq, read_signal, poll_timeout
  <2> QED
    BY <1>5, <1>7, <2>1, ThreadMoves
<1>8. ASSUME NEW t \in Threads, PollStep(t) \/ IoctlStep(t)
      PROVE  Quiet
  <2>1. /\ UNCHANGED <<ringVars, file, last, inp>>
        /\ tpc[t] # "r_copy"
    BY <1>8 DEF PollStep, poll_load, poll_test, poll_awake, IoctlStep,
       ioctl_store_seq, ioctl_lock, ioctl_check, ioctl_sent, ioctl_unlock
  <2> QED
    BY <1>5, <1>8, <2>1, ThreadMoves
<1> QED
  BY <1>1, <1>2, <1>3, <1>4, <1>6, <1>7, <1>8 DEF Next

LEMMA DeliveryStep ==
  ASSUME LifecycleInv, RingShape, DeliveryInv, [Next]_vars
  PROVE  DeliveryInv'
<1>0. /\ file \in [Threads -> Devs \cup {NULL}] /\ NULL \notin Devs
      /\ last \in [Threads -> Nat] /\ inp \in [Threads -> Nat]
      /\ \A t \in Threads : file[t] = NULL <=> tpc[t] \in {"closed", "opening"}
      /\ tpc \in [Threads -> ThreadStates] /\ TypeOK
      /\ g_dev \in Devs \cup {NULL}
      /\ \A d \in Devs : Taken(d) \in Nat
  BY DriverAssumption, TakenType DEF LifecycleInv, TypeOK, References
<1> USE DEF DeliveryInv
<1>1. ASSUME UNCHANGED <<ringVars, file, last, inp>>,
             \A t \in Threads : tpc[t] = "r_copy" => tpc'[t] = "r_copy"
      PROVE  DeliveryInv'
  <2>1. \A d : Taken(d)' = Taken(d)
    BY <1>1 DEF Taken, ringVars
  <2> QED
    BY <1>1, <2>1
<1>2. ASSUME NEW i \in Intfs, NEW d \in Devs, probe_alloc(i, d)
      PROVE  DeliveryInv'
  <2>1. UNCHANGED <<tpc, file, last, inp>> /\ \A t \in Threads : file[t] # d
    BY <1>2 DEF probe_alloc, thrVars, fileVars, callVars, Holders
  <2>2. \A e \in Devs \ {d} : Taken(e)' = Taken(e)
    BY <1>2 DEF probe_alloc, Taken, LifecycleInv, TypeOK
  <2> QED
    BY <1>0, <2>1, <2>2
<1>3. ASSUME NEW d \in Devs, urb_input(d)
      PROVE  DeliveryInv'
  <2>1. UNCHANGED <<tpc, file, last, inp>>
    BY <1>3 DEF urb_input, thrVars, fileVars, callVars
  <2>2. \A e \in Devs : Taken(e)' \in Nat /\ Taken(e) <= Taken(e)'
    BY <1>3, TakenInput
  <2>3. \A t \in Threads : inp[t] # 0 => file[t] # NULL
    BY <1>0
  <2> QED
    BY <1>0, <2>1, <2>2, <2>3
<1>4. ASSUME NEW t \in Threads, read_get(t)
      PROVE  DeliveryInv'
  <2>1. PICK d \in Devs : /\ d = file[t]
                          /\ inp' = [inp EXCEPT ![t] = Taken(d) + 1]
                          /\ Taken(d)' = Taken(d) + 1
                          /\ \A e \in Devs \ {d} : Taken(e)' = Taken(e)
    BY <1>4, TakenGet
  <2>2. UNCHANGED <<file, last>> /\ tpc' = [tpc EXCEPT ![t] = "r_copy"]
    BY <1>4 DEF read_get, fileVars
  <2>3. \A e \in Devs : /\ Taken(e) \in Nat /\ Taken(e)' \in Nat
                       /\ Taken(e) <= Taken(e)'
    BY <1>0, <2>1
  <2>4. \A u \in Threads : inp[u] # 0 => file[u] # NULL
    BY <1>0
  <2>5. inp'[t] = Taken(d) + 1 /\ tpc'[t] = "r_copy" /\ last[t] <= Taken(d)
    BY <1>0, <2>1, <2>2
  <2>6. \A u \in Threads : u # t => inp'[u] = inp[u] /\ tpc'[u] = tpc[u]
    BY <1>0, <2>1, <2>2
  <2>7. \A u \in Threads : file[u] # NULL => last[u] <= Taken(file[u])'
    BY <1>0, <2>2, <2>3
  <2>8. \A u \in Threads \ {t} : inp[u] # 0 => inp[u] <= Taken(file[u])'
    BY <1>0, <2>2, <2>3, <2>4
  <2>9. last[t] < inp'[t] /\ inp'[t] <= Taken(file[t])'
    BY <1>0, <2>1, <2>2, <2>3, <2>5
  <2>10. ASSUME NEW u \in Threads, NEW v \in Threads, u # v,
               file[u] = file[v], inp'[u] # 0
        PROVE  inp'[u] # inp'[v]
    <3>1. CASE u = t
      <4>1. inp[v] # 0 => inp[v] <= Taken(d)
        BY <2>1, <2>10, <3>1
      <4> QED
        BY <1>0, <2>3, <2>5, <2>6, <2>10, <3>1, <4>1
    <3>2. CASE v = t
      <4>1. inp[u] <= Taken(d)
        BY <2>1, <2>6, <2>10, <3>2
      <4> QED
        BY <1>0, <2>3, <2>5, <2>6, <2>10, <3>2, <4>1
    <3>3. CASE u # t /\ v # t
      BY <2>6, <2>10, <3>3
    <3> QED
      BY <3>1, <3>2, <3>3
  <2> QED
    BY <2>2, <2>5, <2>6, <2>7, <2>8, <2>9, <2>10
<1>5. ASSUME NEW t \in Threads, read_copy(t)
      PROVE  DeliveryInv'
  <2>1. /\ UNCHANGED <<file, ring, stamp>> /\ tpc' = [tpc EXCEPT ![t] = "open"]
        /\ inp' = [inp EXCEPT ![t] = 0]
        /\ last' = last \/ last' = [last EXCEPT ![t] = inp[t]]
        /\ tpc[t] = "r_copy"
    BY <1>5 DEF read_copy, fileVars, devVars, sysVars, ringVars
  <2>2. \A d : Taken(d)' = Taken(d)
    BY <2>1 DEF Taken
  <2>3. file[t] # NULL
    BY <1>0, <2>1
  <2>4. \A u \in Threads : u # t => last'[u] = last[u] /\ inp'[u] = inp[u] /\ tpc'[u] = tpc[u]
    BY <1>0, <2>1
  <2>5. inp'[t] = 0 /\ (last'[t] = last[t] \/ last'[t] = inp[t])
    BY <1>0, <2>1
  <2>6. last'[t] <= Taken(file[t])
    BY <1>0, <2>3, <2>5
  <2> QED
    BY <1>0, <2>1, <2>2, <2>3, <2>4, <2>5, <2>6
<1>6. ASSUME NEW t \in Threads, rumble_open(t)
      PROVE  DeliveryInv'
  <2>1. /\ UNCHANGED <<last, inp, ring, stamp>> /\ tpc' = [tpc EXCEPT ![t] = "open"]
        /\ file' = [file EXCEPT ![t] = g_dev] /\ g_dev \in Devs
        /\ tpc[t] = "opening"
    BY <1>0, <1>6 DEF rumble_open, callVars, sysVars, ringVars
  <2>2. \A d : Taken(d)' = Taken(d)
    BY <2>1 DEF Taken
  <2>3. last[t] = 0 /\ inp[t] = 0 /\ file'[t] = g_dev
    BY <1>0, <2>1
  <2>4. \A u \in Threads : u # t => file'[u] = file[u] /\ tpc'[u] = tpc[u]
    BY <1>0, <2>1
  <2> QED
    BY <1>0, <2>1, <2>2, <2>3, <2>4
<1>7. ASSUME NEW t \in Threads, rumble_release(t)
      PROVE  DeliveryInv'
  <2>1. /\ UNCHANGED <<inp, ring, stamp>> /\ tpc' = [tpc EXCEPT ![t] = "closed"]
        /\ file' = [file EXCEPT ![t] = NULL] /\ last' = [last EXCEPT ![t] = 0]
        /\ tpc[t] = "open"
    BY <1>7 DEF rumble_release, sysVars, ringVars
  <2>2. \A d : Taken(d)' = Taken(d)
    BY <2>1 DEF Taken
  <2>3. last'[t] = 0 /\ inp[t] = 0 /\ file'[t] = NULL
    BY <1>0, <2>1
  <2>4. \A u \in Threads : u # t => /\ file'[u] = file[u] /\ tpc'[u] = tpc[u]
                                    /\ last'[u] = last[u]
    BY <1>0, <2>1
  <2> QED
    BY <1>0, <2>1, <2>2, <2>3, <2>4
<1> QED
  BY <1>0, <1>1, <1>2, <1>3, <1>4, <1>5, <1>6, <1>7, DeliverySteps

(* No packet is delivered twice, to one program or to two, and each        *)
(* program's timestamps only grow (rumble.c:397-427).                      *)
THEOREM DeliveryCorrect == Spec => []DeliveredOnce
<1>1. Init => RingShape /\ DeliveryInv
  <2>1. Newest(<<>>, 0) /\ Len(<<>>) < RingSize
    BY DriverAssumption DEF Newest
  <2> QED
    BY <2>1 DEF Init, RingShape, DeliveryInv
<1>2. LifecycleInv /\ (RingShape /\ DeliveryInv) /\ [Next]_vars
        => (RingShape /\ DeliveryInv)'
  BY RingShapeStep, DeliveryStep
<1>3. DeliveryInv => DeliveredOnce
  BY DEF DeliveryInv, DeliveredOnce, Taken
<1> QED
  BY <1>1, <1>2, <1>3, LifecycleCorrect, PTL DEF Spec
-------------------------------------------------------------------------------
(* What the environment of the threads does to the device behind an open   *)
(* file: it may put a packet into the ring and owe a wake-up, it may mark  *)
(* the device disconnected and owe a wake-up, and it pays what it owes by  *)
(* emptying the wait queue.                                                *)
Unplugging(d) == \E i \in Owners(d) : ipc[i] = "wake"

EnvKeeps(d) ==
  /\ disconnected[d] => disconnected'[d]
  /\ disconnected'[d] => disconnected[d] \/ Unplugging(d)'
  /\ \/ ring'[d] = ring[d] /\ stamp'[d] = stamp[d]
     \/ ring'[d] # <<>> /\ urb'[d] = "wake"
  /\ read_wq'[d] \subseteq read_wq[d]
  /\ read_wq'[d] # {} => /\ urb[d] = "wake" => urb'[d] = "wake"
                         /\ Unplugging(d) => Unplugging(d)'

ThreadStep(t) ==
  OpenStep(t) \/ ReadStep(t) \/ PollStep(t) \/ IoctlStep(t) \/ CallStep(t)

(* An interface whose disconnect is about to wake the readers stays there  *)
(* until it has.                                                           *)
LEMMA UnpluggingKept ==
  ASSUME NEW d \in Devs,
         \A i \in Intfs : ipc[i] = "wake" => ipc'[i] = "wake" /\ ird'[i] = ird[i]
  PROVE  Unplugging(d) => Unplugging(d)'
BY DEF Unplugging, Owners

LEMMA EnvSteps ==
  ASSUME LifecycleInv, RingShape, [Next]_vars, ~\E t \in Threads : ThreadStep(t)
  PROVE  UNCHANGED thrVars /\ \A d \in Devs : Holders(d) # {} => EnvKeeps(d)
<1> DEFINE Goal == /\ UNCHANGED thrVars
                   /\ \A d \in Devs : Holders(d) # {} => EnvKeeps(d)
<1>0. /\ disconnected \in [Devs -> BOOLEAN] /\ urb \in [Devs -> UrbStates]
      /\ ring \in [Devs -> Seq(Nat)] /\ stamp \in [Devs -> Nat]
      /\ read_wq \in [Devs -> SUBSET Threads]
      /\ ipc \in [Intfs -> IntfStates] /\ ird \in [Intfs -> Devs \cup {NULL}]
      /\ \A i \in Intfs : ird[i] # NULL <=> ipc[i] # "unbound"
      /\ \A i \in Intfs : ird[i] # NULL =>
           /\ urb[ird[i]] # "none" <=> ipc[i] \in UrbHeldStates
           /\ urb[ird[i]] \notin {"none", "idle"} => ipc[i] \in StreamStates
  BY DEF LifecycleInv, TypeOK, References, Resources
<1> USE DEF vars, modVars, memVars, usbVars, ringVars, txVars, sysVars,
       devVars, intfVars
<1>1. CASE \/ UNCHANGED vars \/ rumble_init \/ rumble_exit \/ rumble_exit_return
  <2>1. UNCHANGED <<thrVars, disconnected, ring, stamp, read_wq, urb, ipc, ird>>
    BY <1>1 DEF rumble_init, rumble_exit, rumble_exit_return
  <2> QED
    BY <2>1, UnpluggingKept DEF EnvKeeps
<1>2. ASSUME NEW i \in Intfs, NEW d \in Devs, probe_alloc(i, d)
      PROVE  Goal
  <2>1. /\ UNCHANGED thrVars /\ Holders(d) = {}
        /\ \A e \in Devs \ {d} :
             UNCHANGED <<disconnected[e], ring[e], stamp[e], read_wq[e], urb[e]>>
        /\ ipc' = [ipc EXCEPT ![i] = "register"] /\ ird' = [ird EXCEPT ![i] = d]
        /\ ipc[i] = "unbound"
    BY <1>0, <1>2 DEF probe_alloc
  <2>2. \A e \in Devs : Unplugging(e) => Unplugging(e)'
    BY <1>0, <2>1, UnpluggingKept
  <2> QED
    BY <2>1, <2>2 DEF EnvKeeps
<1>3. ASSUME NEW i \in Intfs,
             \/ usb_unbind(i) \/ probe_register(i) \/ probe_alloc_buf(i)
             \/ probe_return(i) \/ probe_goto_err(i) \/ err_free_buf(i)
             \/ err_destroy_dev(i) \/ err_put_dev(i) \/ disconnect_killed(i)
             \/ disconnect_destroy(i) \/ disconnect_put(i)
      PROVE  Goal
  <2>1. /\ UNCHANGED <<thrVars, disconnected, ring, stamp, read_wq, urb>>
        /\ ipc[i] # "wake"
        /\ \E s : ipc' = [ipc EXCEPT ![i] = s]
        /\ ird' = ird \/ ird' = [ird EXCEPT ![i] = NULL]
    BY <1>3 DEF usb_unbind, probe_register, probe_alloc_buf, probe_return,
       probe_goto_err, err_free_buf, err_destroy_dev, err_put_dev,
       disconnect_killed, disconnect_destroy, disconnect_put
  <2>2. \A e \in Devs : Unplugging(e) => Unplugging(e)'
    BY <1>0, <2>1, UnpluggingKept
  <2> QED
    BY <2>1, <2>2 DEF EnvKeeps
<1>4. ASSUME NEW i \in Intfs,
             \/ probe_alloc_urb(i) \/ probe_submit(i) \/ err_free_urb(i)
             \/ disconnect_free(i)
      PROVE  Goal
  <2>1. /\ UNCHANGED <<thrVars, disconnected, ring, stamp, read_wq, ird>>
        /\ ipc[i] \in {"alloc_urb", "submit", "err_free_urb", "free"}
        /\ \E s : ipc' = [ipc EXCEPT ![i] = s]
        /\ \E u : urb' = [urb EXCEPT ![ird[i]] = u]
    BY <1>4 DEF probe_alloc_urb, probe_submit, err_free_urb, disconnect_free
  <2>2. \A e \in Devs : Unplugging(e) => Unplugging(e)'
    BY <1>0, <2>1, UnpluggingKept
  <2>3. urb[ird[i]] # "wake" /\ ird[i] \in Devs
    BY <1>0, <2>1 DEF StreamStates
  <2>4. \A e \in Devs : urb[e] = "wake" => urb'[e] = "wake"
    BY <1>0, <2>1, <2>3
  <2> QED
    BY <2>1, <2>2, <2>4 DEF EnvKeeps
<1>5. ASSUME NEW i \in Intfs, disconnect_mark(i)
      PROVE  Goal
  <2>1. /\ UNCHANGED <<thrVars, ring, stamp, read_wq, urb, ird>>
        /\ disconnected' = [disconnected EXCEPT ![ird[i]] = TRUE]
        /\ ipc' = [ipc EXCEPT ![i] = "wake"] /\ ird[i] \in Devs
    BY <1>0, <1>5 DEF disconnect_mark
  <2>2. \A e \in Devs : Unplugging(e) => Unplugging(e)'
    BY <1>0, <2>1, UnpluggingKept
  <2>3. Unplugging(ird[i])'
    BY <1>0, <2>1 DEF Unplugging, Owners
  <2>4. \A e \in Devs : /\ disconnected[e] => disconnected'[e]
                       /\ disconnected'[e] => disconnected[e] \/ e = ird[i]
    BY <1>0, <2>1
  <2>5. \A e \in Devs : e = ird[i] => Unplugging(e)'
    BY <1>0, <2>1 DEF Unplugging, Owners
  <2> QED
    BY <2>1, <2>2, <2>4, <2>5 DEF EnvKeeps
<1>6. ASSUME NEW i \in Intfs, disconnect_wake(i)
      PROVE  Goal
  <2>1. /\ UNCHANGED <<thrVars, disconnected, ring, stamp, urb, ird>>
        /\ read_wq' = [read_wq EXCEPT ![ird[i]] = {}]
        /\ ipc' = [ipc EXCEPT ![i] = "killing"] /\ ird[i] \in Devs
    BY <1>0, <1>6 DEF disconnect_wake
  <2>2. read_wq'[ird[i]] = {} /\ \A e \in Devs : e # ird[i] => read_wq'[e] = read_wq[e]
    BY <1>0, <2>1
  <2>3. \A e \in Devs : e # ird[i] => (Unplugging(e) => Unplugging(e)')
    BY <1>0, <2>1 DEF Unplugging, Owners
  <2> QED
    BY <2>1, <2>2, <2>3 DEF EnvKeeps
<1>7. ASSUME NEW d \in Devs, urb_input(d)
      PROVE  Goal
  <2>1. /\ UNCHANGED <<thrVars, disconnected, read_wq, ipc, ird>>
        /\ urb'[d] = "wake"
        /\ ring'[d] = PutDroppingOldest(ring[d], stamp[d] + 1, RingSize - 1)
        /\ \A e \in Devs \ {d} : UNCHANGED <<ring[e], stamp[e], urb[e]>>
    BY <1>0, <1>7 DEF urb_input
  <2>2. ring'[d] # <<>>
    <3>1. /\ Newest(ring[d], stamp[d]) /\ RingSize - 1 \in Nat \ {0}
          /\ Len(ring[d]) <= RingSize - 1
      BY DriverAssumption DEF RingShape, Newest
    <3> QED
      BY <2>1, <3>1, PutNewest
  <2>3. \A e \in Devs : Unplugging(e) => Unplugging(e)'
    BY <2>1, UnpluggingKept
  <2> QED
    BY <2>1, <2>2, <2>3 DEF EnvKeeps
<1>8. ASSUME NEW d \in Devs, urb_wake(d)
      PROVE  Goal
  <2>1. /\ UNCHANGED <<thrVars, disconnected, ring, stamp, ipc, ird>>
        /\ read_wq'[d] = {}
        /\ \A e \in Devs \ {d} : UNCHANGED <<read_wq[e], urb[e]>>
    BY <1>0, <1>8 DEF urb_wake
  <2>2. \A e \in Devs : Unplugging(e) => Unplugging(e)'
    BY <2>1, UnpluggingKept
  <2> QED
    BY <2>1, <2>2 DEF EnvKeeps
<1>9. ASSUME NEW d \in Devs,
             \/ urb_acked(d) \/ urb_resubmit(d) \/ urb_virtual_key(d)
             \/ urb_ignored(d) \/ urb_shutdown(d)
      PROVE  Goal
  <2>1. /\ UNCHANGED <<thrVars, disconnected, ring, stamp, read_wq, ipc, ird>>
        /\ urb[d] # "wake"
        /\ \E u : urb' = [urb EXCEPT ![d] = u]
    BY <1>9 DEF urb_acked, urb_resubmit, urb_virtual_key, urb_ignored,
       urb_shutdown
  <2>2. \A e \in Devs : Unplugging(e) => Unplugging(e)'
    BY <2>1, UnpluggingKept
  <2>3. \A e \in Devs : urb[e] = "wake" => urb'[e] = "wake"
    BY <1>0, <2>1
  <2> QED
    BY <2>1, <2>2, <2>3 DEF EnvKeeps
<1> QED
  BY <1>1, <1>2, <1>3, <1>4, <1>5, <1>6, <1>7, <1>8, <1>9
     DEF Next, ThreadStep, ProbeStep, DisconnectStep, HandlerStep, CompletionStep

(* What a step of thread t leaves to the others. *)
ThreadKeeps(t) ==
  /\ UNCHANGED <<stamp, urb, disconnected, ipc, ird>>
  /\ \A u \in Threads \ {t} : /\ tpc'[u] = tpc[u] /\ file'[u] = file[u]
                              /\ half'[u] = half[u] /\ (ready'[u] => ready[u])
  /\ \A d \in Devs : read_wq'[d] \subseteq read_wq[d] \cup {t}
  /\ ring' = ring \/ read_get(t)

LEMMA ThreadSteps ==
  ASSUME TypeOK, NEW t \in Threads, ThreadStep(t)
  PROVE  ThreadKeeps(t)
<1>0. /\ tpc \in [Threads -> ThreadStates] /\ half \in [Threads -> LoadedIndex]
      /\ file \in [Threads -> Devs \cup {NULL}] /\ ready \in [Threads -> BOOLEAN]
      /\ read_wq \in [Devs -> SUBSET Threads]
  BY DEF TypeOK
<1> USE DEF vars, modVars, memVars, usbVars, ringVars, txVars, sysVars,
       devVars, intfVars, fileVars, callVars, thrVars
<1>1. \A u \in Threads \ {t} : tpc'[u] = tpc[u]
  BY <1>0, ThreadMoves DEF ThreadStep
<1>2. CASE OpenStep(t) \/ IoctlStep(t)
  <2>1. /\ UNCHANGED <<stamp, urb, disconnected, ipc, ird, ring, read_wq, half, ready>>
        /\ file' = file \/ file' = [file EXCEPT ![t] = g_dev]
    BY <1>2 DEF OpenStep, rumble_open, rumble_open_enodev, IoctlStep,
       ioctl_store_seq, ioctl_lock, ioctl_check, ioctl_sent, ioctl_unlock
  <2> QED
    BY <1>0, <1>1, <2>1 DEF ThreadKeeps
<1>3. CASE read_get(t)
  <2>1. /\ UNCHANGED <<stamp, urb, disconnected, ipc, ird, read_wq, half, file>>
        /\ \A u \in Threads : ready'[u] => ready[u]
    BY <1>0, <1>3 DEF read_get
  <2> QED
    BY <1>1, <1>3, <2>1 DEF ThreadKeeps
<1>4. CASE ReadStep(t) /\ ~read_get(t)
  <2>1. /\ UNCHANGED <<stamp, urb, disconnected, ipc, ird, ring, file, ready>>
        /\ half' = half \/ \E l : half' = [half EXCEPT ![t] = l]
    BY <1>4 DEF ReadStep, read_get_empty, read_check, read_prepare, read_load,
       read_test, read_awake, read_woken, read_copy
  <2>2. \/ read_wq' = read_wq
        \/ read_wq' = [read_wq EXCEPT ![file[t]] = @ \cup {t}]
        \/ read_wq' = [read_wq EXCEPT ![file[t]] = @ \ {t}]
    BY <1>4 DEF ReadStep, read_get_empty, read_check, read_prepare, read_load,
       read_test, read_awake, read_woken, read_copy
  <2>3. \A d \in Devs : read_wq'[d] \subseteq read_wq[d] \cup {t}
    BY <1>0, <2>2
  <2> QED
    BY <1>0, <1>1, <2>1, <2>3 DEF ThreadKeeps
<1>5. CASE PollStep(t) \/ CallStep(t)
  <2>1. /\ UNCHANGED <<stamp, urb, disconnected, ipc, ird, ring>>
        /\ half' = half \/ \E l : half' = [half EXCEPT ![t] = l]
        /\ ready' = ready \/ \E b : ready' = [ready EXCEPT ![t] = b]
        /\ file' = file \/ file' = [file EXCEPT ![t] = NULL]
    BY <1>5 DEF PollStep, poll_load, poll_test, poll_awake, CallStep,
       open_lookup, rumble_release, read_begin, poll_begin, ioctl_load_seq,
       read_signal, poll_timeout
  <2>2. \/ read_wq' = read_wq
        \/ read_wq' = [read_wq EXCEPT ![file[t]] = @ \cup {t}]
        \/ read_wq' = [read_wq EXCEPT ![file[t]] = @ \ {t}]
    BY <1>5 DEF PollStep, poll_load, poll_test, poll_awake, CallStep,
       open_lookup, rumble_release, read_begin, poll_begin, ioctl_load_seq,
       read_signal, poll_timeout
  <2>3. \A d \in Devs : read_wq'[d] \subseteq read_wq[d] \cup {t}
    BY <1>0, <2>2
  <2> QED
    BY <1>0, <1>1, <2>1, <2>3 DEF ThreadKeeps
<1> QED
  BY <1>2, <1>3, <1>4, <1>5 DEF ThreadStep
-------------------------------------------------------------------------------
(* A program that poll has told to read finds a packet or the disconnect:  *)
(* while it looks, the index it has loaded is the one of an empty ring     *)
(* exactly as long as nothing has come in.                                 *)
ReadyOf(t) ==
  ready[t] =>
    /\ file[t] # NULL
    /\ tpc[t] # "p_loaded" => ring[file[t]] # <<>> \/ disconnected[file[t]]
    /\ tpc[t] = "r_check" => disconnected[file[t]]
    /\ tpc[t] # "p_asleep"
    /\ tpc[t] = "p_loaded" /\ ring[file[t]] = <<>>
         => half[t].at = stamp[file[t]] % RingSize

ReadinessInv == \A t \in Threads : ReadyOf(t)

LEMMA EmptyLoads ==
  ASSUME RingShape, NEW d \in Devs, ring[d] = <<>>, NEW l \in Loads(d)
  PROVE  l.at = stamp[d] % RingSize
<1>1. stamp[d] \in Nat /\ stamp[d] - Len(ring[d]) = stamp[d]
  BY DEF RingShape, Newest
<1> QED
  BY <1>1 DEF Loads, r_head, r_tail

LEMMA EmptyLooksEmpty ==
  ASSUME RingShape, NEW t \in Threads, file[t] \in Devs, ring[file[t]] = <<>>,
         half[t].at = stamp[file[t]] % RingSize
  PROVE  LooksEmpty(t)
<1>1. stamp[file[t]] \in Nat /\ stamp[file[t]] - Len(ring[file[t]]) = stamp[file[t]]
  BY DEF RingShape, Newest
<1> QED
  BY <1>1 DEF LooksEmpty, r_head, r_tail

LEMMA ReadinessStep ==
  ASSUME LifecycleInv, RingShape, ReadinessInv, [Next]_vars
  PROVE  ReadinessInv'
<1>0. /\ tpc \in [Threads -> ThreadStates] /\ half \in [Threads -> LoadedIndex]
      /\ file \in [Threads -> Devs \cup {NULL}] /\ ready \in [Threads -> BOOLEAN]
      /\ NULL \notin Devs /\ TypeOK
      /\ \A t \in Threads : file[t] = NULL <=> tpc[t] \in {"closed", "opening"}
  BY DriverAssumption DEF LifecycleInv, TypeOK, References
<1>1. CASE ~\E t \in Threads : ThreadStep(t)
  <2>1. UNCHANGED <<tpc, file, half, ready>>
    BY <1>1, EnvSteps DEF thrVars, fileVars, callVars
  <2>2. ASSUME NEW t \in Threads, ready[t]
        PROVE  /\ disconnected[file[t]] => disconnected'[file[t]]
               /\ \/ ring'[file[t]] = ring[file[t]] /\ stamp'[file[t]] = stamp[file[t]]
                  \/ ring'[file[t]] # <<>>
    <3>1. file[t] \in Devs /\ Holders(file[t]) # {}
      BY <1>0, <2>2 DEF ReadinessInv, ReadyOf, Holders
    <3> QED
      BY <1>1, <3>1, EnvSteps DEF EnvKeeps
  <2> QED
    BY <2>1, <2>2 DEF ReadinessInv, ReadyOf
<1>2. ASSUME NEW t \in Threads, ThreadStep(t)
      PROVE  ReadinessInv'
  <2>1. ThreadKeeps(t)
    BY <1>0, <1>2, ThreadSteps
  <2>2. ASSUME NEW u \in Threads \ {t}
        PROVE  ReadyOf(u)'
    <3>1. CASE ring' = ring
      BY <2>1, <3>1 DEF ThreadKeeps, ReadinessInv, ReadyOf
    <3>2. CASE read_get(t)
      <4>1. /\ ready'[u] => ready[u] /\ file[u] # file[t]
            /\ UNCHANGED <<stamp, file, half, disconnected>>
            /\ ring' = [ring EXCEPT ![file[t]] = Tail(@)]
            /\ tpc'[u] = tpc[u]
        BY <1>0, <2>1, <3>2 DEF read_get, ring_get, fileVars, ThreadKeeps
      <4>2. ready'[u] => ring'[file[u]] = ring[file[u]]
        BY <1>0, <4>1 DEF ReadinessInv, ReadyOf, TypeOK
      <4> QED
        BY <4>1, <4>2 DEF ReadinessInv, ReadyOf
    <3> QED
      BY <2>1, <3>1, <3>2 DEF ThreadKeeps
  <2>3. ReadyOf(t)'
    <3> USE DEF vars, modVars, memVars, usbVars, ringVars, txVars, sysVars,
           devVars, intfVars, fileVars, callVars, thrVars
    <3>0. ReadyOf(t)
      BY DEF ReadinessInv
    <3>1. CASE OpenStep(t)
      <4>1. ~ready'[t]
        BY <1>0, <3>0, <3>1 DEF OpenStep, rumble_open, rumble_open_enodev, ReadyOf
      <4> QED
        BY <4>1 DEF ReadyOf
    <3>2. CASE poll_load(t)
      <4>1. /\ tpc'[t] = "p_loaded" /\ file'[t] = file[t] /\ file[t] \in Devs
            /\ UNCHANGED <<ring, stamp>>
        BY <1>0, <3>2 DEF poll_load
      <4>2. PICK l \in Loads(file[t]) : half'[t] = l
        BY <1>0, <3>2 DEF poll_load
      <4>3. ring[file[t]] = <<>> => half'[t].at = stamp[file[t]] % RingSize
        BY <4>1, <4>2, EmptyLoads
      <4> QED
        BY <1>0, <4>1, <4>3 DEF ReadyOf
    <3>3. CASE poll_test(t)
      <4>1. CASE PollIn(t) /\ tpc' = [tpc EXCEPT ![t] = "open"] /\ UNCHANGED ready
        <5>1. /\ UNCHANGED <<file, ring, stamp, disconnected>> /\ tpc'[t] = "open"
              /\ ready'[t] = ready[t] /\ tpc[t] = "p_loaded"
          BY <1>0, <3>3, <4>1 DEF poll_test
        <5>2. ready[t] /\ ring[file[t]] = <<>> => disconnected[file[t]]
          <6>1. ready[t] => file[t] \in Devs
            BY <1>0, <3>0 DEF ReadyOf
          <6> QED
            BY <3>0, <4>1, <5>1, <6>1, EmptyLooksEmpty DEF PollIn, ReadyOf
        <5> QED
          BY <3>0, <5>1, <5>2 DEF ReadyOf
      <4>2. CASE ready' = [ready EXCEPT ![t] = FALSE]
        <5>1. ~ready'[t]
          BY <1>0, <4>2
        <5> QED
          BY <5>1 DEF ReadyOf
      <4> QED
        BY <3>3, <4>1, <4>2 DEF poll_test
    <3>4. CASE rumble_release(t)
      <4>1. ~ready'[t]
        BY <1>0, <3>4 DEF rumble_release
      <4> QED
        BY <4>1 DEF ReadyOf
    <3>5. CASE read_get(t)
      <4>1. ~ready'[t]
        BY <1>0, <3>5 DEF read_get
      <4> QED
        BY <4>1 DEF ReadyOf
    <3>6. CASE read_get_empty(t)
      <4>1. /\ UNCHANGED <<file, ring, stamp, disconnected, ready, half>>
            /\ tpc[t] = "r_get" /\ tpc'[t] = "r_check" /\ ring[file[t]] = <<>>
        BY <1>0, <3>6 DEF read_get_empty
      <4> QED
        BY <3>0, <4>1 DEF ReadyOf
    <3>7. CASE \/ read_check(t) \/ read_prepare(t) \/ read_load(t) \/ read_test(t)
               \/ read_awake(t) \/ read_woken(t) \/ read_copy(t) \/ poll_awake(t)
               \/ IoctlStep(t) \/ open_lookup(t) \/ read_begin(t) \/ poll_begin(t)
               \/ ioctl_load_seq(t) \/ read_signal(t) \/ poll_timeout(t)
      <4>1. /\ UNCHANGED <<file, ring, stamp, disconnected, ready>>
            /\ tpc[t] # "p_loaded"
            /\ \E pc \in ThreadStates \ {"p_loaded", "p_asleep", "r_check"} :
                 tpc' = [tpc EXCEPT ![t] = pc]
        <5>1. CASE \/ read_check(t) \/ read_prepare(t) \/ read_load(t)
                   \/ read_awake(t) \/ read_woken(t) \/ read_copy(t) \/ poll_awake(t)
          BY <5>1 DEF read_check, read_prepare, read_load, read_awake, read_woken,
             read_copy, poll_awake, ThreadStates, ReadStates, PollStates
        <5>2. CASE read_test(t)
          BY <5>2 DEF read_test, ThreadStates, ReadStates, PollStates
        <5>3. CASE \/ IoctlStep(t) \/ open_lookup(t) \/ read_begin(t)
                   \/ poll_begin(t) \/ ioctl_load_seq(t) \/ read_signal(t)
                   \/ poll_timeout(t)
          BY <5>3 DEF IoctlStep, ioctl_store_seq, ioctl_lock, ioctl_check,
             ioctl_sent, ioctl_unlock, open_lookup, read_begin, poll_begin,
             ioctl_load_seq, read_signal, poll_timeout, ThreadStates, ReadStates,
             PollStates, IoctlStates
        <5> QED
          BY <3>7, <5>1, <5>2, <5>3
      <4> QED
        BY <1>0, <3>0, <4>1 DEF ReadyOf
    <3> QED
      BY <1>2, <3>1, <3>2, <3>3, <3>4, <3>5, <3>6, <3>7
         DEF ThreadStep, ReadStep, PollStep, CallStep
  <2> QED
    BY <2>2, <2>3 DEF ReadinessInv
<1> QED
  BY <1>1, <1>2

(* After POLLIN, a read finds a packet or the disconnect, as long as       *)
(* nobody else has taken a packet since (rumble.c:398-412, 442).           *)
THEOREM PollCorrect == Spec => []PollThenRead
<1>1. Init => RingShape /\ ReadinessInv
  <2>1. Newest(<<>>, 0) /\ Len(<<>>) < RingSize
    BY DriverAssumption DEF Newest
  <2> QED
    BY <2>1 DEF Init, RingShape, ReadinessInv, ReadyOf
<1>2. LifecycleInv /\ (RingShape /\ ReadinessInv) /\ [Next]_vars
        => (RingShape /\ ReadinessInv)'
  BY RingShapeStep, ReadinessStep
<1>3. ReadinessInv => PollThenRead
  BY DEF ReadinessInv, ReadyOf, PollThenRead
<1> QED
  BY <1>1, <1>2, <1>3, LifecycleCorrect, PTL DEF Spec
-------------------------------------------------------------------------------
(* The index a queued thread has loaded is not stale: r_head has not moved *)
(* since, or r_tail was then at or before where it is now.                 *)
LoadIsRecent(t, d) ==
  \/ half[t].end = "head" /\ half[t].at = r_head(d)
  \/ /\ half[t].end = "tail"
     /\ \E n \in Len(ring[d]) .. RingSize - 1 :
          half[t].at = (stamp[d] - n) % RingSize

(* Whatever a thread on the wait queue has not seen yet, somebody is about *)
(* to wake it for.                                                         *)
WaitsSafely(t, d) ==
  t \in read_wq[d] =>
    /\ tpc[t] \in {"r_loaded", "p_loaded"} => urb[d] = "wake" \/ LoadIsRecent(t, d)
    /\ tpc[t] \in {"r_asleep", "p_asleep"} =>
         /\ ring[d] # <<>> => urb[d] = "wake"
         /\ disconnected[d] => Unplugging(d)

WaitingInv == \A t \in Threads : file[t] # NULL => WaitsSafely(t, file[t])

(* If the two indices look equal to a thread with a recent load, the ring  *)
(* is empty.                                                               *)
LEMMA RecentLooksEmpty ==
  ASSUME RingShape, NEW t \in Threads, file[t] \in Devs,
         LoadIsRecent(t, file[t]), LooksEmpty(t)
  PROVE  ring[file[t]] = <<>>
<1> PICK d \in Devs : d = file[t]
  OBVIOUS
<1>1. /\ ring[d] \in Seq(Nat) /\ stamp[d] \in Int /\ RingSize \in Nat \ {0}
      /\ Len(ring[d]) \in 0 .. RingSize - 1
  BY DriverAssumption DEF RingShape, Newest
<1>2. \E n \in Len(ring[d]) .. RingSize - 1 :
        (stamp[d] - n) % RingSize = stamp[d] % RingSize
  <2>1. CASE half[t].end = "head" /\ half[t].at = r_head(d)
    <3>1. (stamp[d] - Len(ring[d])) % RingSize = stamp[d] % RingSize
      BY <2>1 DEF LooksEmpty, r_head, r_tail
    <3>2. Len(ring[d]) \in Len(ring[d]) .. RingSize - 1
      BY <1>1
    <3> QED
      BY <3>1, <3>2
  <2>2. CASE half[t].end = "tail" /\ \E n \in Len(ring[d]) .. RingSize - 1 :
                                       half[t].at = (stamp[d] - n) % RingSize
    BY <2>2 DEF LooksEmpty, r_head
  <2> QED
    BY <2>1, <2>2 DEF LoadIsRecent
<1>3. PICK n \in 0 .. RingSize - 1 :
        n >= Len(ring[d]) /\ (stamp[d] - n) % RingSize = stamp[d] % RingSize
  BY <1>1, <1>2
<1>4. n = 0
  BY <1>1, <1>3, SameSlot
<1>5. Len(ring[d]) = 0
  BY <1>1, <1>3, <1>4
<1> QED
  BY <1>1, <1>5, EmptySeq

LEMMA FreshLoad ==
  ASSUME RingShape, NEW t \in Threads, NEW d \in Devs, NEW l \in Loads(d),
         half'[t] = l, UNCHANGED <<ring, stamp>>
  PROVE  LoadIsRecent(t, d)'
<1>1. /\ Len(ring[d]) \in Len(ring[d]) .. RingSize - 1
  BY DriverAssumption DEF RingShape, Newest
<1> QED
  BY <1>1 DEF Loads, LoadIsRecent, r_head, r_tail

(* Another thread takes a packet: the load of t stays recent. *)
LEMMA LoadStaysRecent ==
  ASSUME RingShape, NEW t \in Threads, NEW d \in Devs, LoadIsRecent(t, d),
         half'[t] = half[t], UNCHANGED stamp,
         ring'[d] = ring[d] \/ (ring[d] # <<>> /\ ring'[d] = Tail(ring[d]))
  PROVE  LoadIsRecent(t, d)'
<1>1. Len(ring'[d]) \in Nat /\ Len(ring[d]) \in Nat /\ Len(ring'[d]) <= Len(ring[d])
  <2>1. CASE ring'[d] = ring[d]
    BY <2>1 DEF RingShape, Newest
  <2>2. CASE ring[d] # <<>> /\ ring'[d] = Tail(ring[d])
    <3>1. /\ Len(Tail(ring[d])) = Len(ring[d]) - 1 /\ Len(ring[d]) \in Nat
          /\ Newest(Tail(ring[d]), stamp[d])
      BY <2>2, GetNewest, ZenonT(60) DEF RingShape, Newest
    <3> QED
      BY <2>2, <3>1 DEF Newest
  <2> QED
    BY <2>1, <2>2
<1>2. Len(ring[d]) .. RingSize - 1 \subseteq Len(ring'[d]) .. RingSize - 1
  BY <1>1, DriverAssumption
<1> QED
  BY <1>2 DEF LoadIsRecent, r_head

LEMMA WaitingStep ==
  ASSUME LifecycleInv, RingShape, WaitingInv, [Next]_vars
  PROVE  WaitingInv'
<1>0. /\ tpc \in [Threads -> ThreadStates] /\ half \in [Threads -> LoadedIndex]
      /\ file \in [Threads -> Devs \cup {NULL}]
      /\ read_wq \in [Devs -> SUBSET Threads] /\ ring \in [Devs -> Seq(Nat)]
      /\ NULL \notin Devs /\ TypeOK
      /\ \A t \in Threads : file[t] = NULL <=> tpc[t] \in {"closed", "opening"}
  BY DriverAssumption DEF LifecycleInv, TypeOK, References
<1>1. CASE ~\E t \in Threads : ThreadStep(t)
  <2>1. UNCHANGED <<tpc, file, half>>
    BY <1>1, EnvSteps DEF thrVars, fileVars, callVars
  <2>2. ASSUME NEW t \in Threads, NEW d \in Devs, d = file[t]
        PROVE  WaitsSafely(t, d)'
    <3>1. WaitsSafely(t, d) /\ EnvKeeps(d)
      <4>1. Holders(d) # {} /\ file[t] # NULL
        BY <1>0, <2>2 DEF Holders
      <4> QED
        BY <1>1, <2>2, <4>1, EnvSteps DEF WaitingInv
    <3>2. ring'[d] = ring[d] /\ stamp'[d] = stamp[d] /\ LoadIsRecent(t, d)
            => LoadIsRecent(t, d)'
      BY <2>1 DEF LoadIsRecent, r_head
    <3> QED
      BY <2>1, <3>1, <3>2 DEF WaitsSafely, EnvKeeps
  <2> QED
    BY <1>0, <2>1, <2>2 DEF WaitingInv
<1>2. ASSUME NEW t \in Threads, ThreadStep(t)
      PROVE  WaitingInv'
  <2>1. ThreadKeeps(t)
    BY <1>0, <1>2, ThreadSteps
  <2>2. ASSUME NEW u \in Threads \ {t}, NEW d \in Devs, d = file[u]
        PROVE  WaitsSafely(u, d)'
    <3>1. WaitsSafely(u, d)
      BY <1>0, <2>2 DEF WaitingInv
    <3>2. /\ tpc'[u] = tpc[u] /\ half'[u] = half[u]
          /\ UNCHANGED <<stamp, urb, disconnected, ipc, ird>>
          /\ u \in read_wq'[d] => u \in read_wq[d]
      BY <2>1, <2>2 DEF ThreadKeeps
    <3>3. ring'[d] = ring[d] \/ (ring[d] # <<>> /\ ring'[d] = Tail(ring[d]))
      <4>1. CASE read_get(t)
        <5>1. /\ ring' = [ring EXCEPT ![file[t]] = Tail(@)]
              /\ ring[file[t]] # <<>>
          BY <4>1 DEF read_get, ring_get
        <5> QED
          BY <1>0, <5>1
      <4> QED
        BY <2>1, <4>1 DEF ThreadKeeps
    <3>4. ASSUME LoadIsRecent(u, d)
          PROVE  LoadIsRecent(u, d)'
      <4>1. half'[u] = half[u] /\ UNCHANGED stamp
        BY <3>2
      <4>2. u \in Threads
        OBVIOUS
      <4> QED
        BY <3>3, <3>4, <4>1, <4>2, LoadStaysRecent
    <3>5. ring'[d] # <<>> => ring[d] # <<>>
      BY <3>3
    <3>6. Unplugging(d)' <=> Unplugging(d)
      BY <3>2 DEF Unplugging, Owners
    <3> QED
      BY <3>1, <3>2, <3>4, <3>5, <3>6 DEF WaitsSafely
  <2>3. ASSUME NEW d \in Devs, d = file'[t]
        PROVE  WaitsSafely(t, d)'
    <3> USE DEF vars, modVars, memVars, usbVars, ringVars, txVars, sysVars,
           devVars, intfVars, fileVars, callVars, thrVars
    <3>1. CASE read_load(t) \/ poll_load(t)
      <4>1. /\ UNCHANGED <<file, ring, stamp>>
            /\ tpc'[t] \in {"r_loaded", "p_loaded"}
        BY <1>0, <3>1 DEF read_load, poll_load
      <4>2. PICK l \in Loads(d) : half'[t] = l
        BY <1>0, <2>3, <3>1, <4>1 DEF read_load, poll_load
      <4>3. LoadIsRecent(t, d)'
        BY <4>1, <4>2, FreshLoad
      <4> QED
        BY <4>1, <4>3 DEF WaitsSafely
    <3>2. CASE read_test(t) \/ poll_test(t)
      <4>1. /\ UNCHANGED <<file, ring, stamp, urb, disconnected>> /\ d = file[t]
            /\ tpc[t] \in {"r_loaded", "p_loaded"}
        BY <2>3, <3>2 DEF read_test, poll_test
      <4>2. CASE tpc'[t] \in {"r_asleep", "p_asleep"}
        <5>1. LooksEmpty(t) /\ ~disconnected[d] /\ read_wq' = read_wq
          BY <1>0, <3>2, <4>1, <4>2 DEF read_test, poll_test, WaitCondition, PollIn
        <5>2. t \in read_wq[d] => urb[d] = "wake" \/ ring[d] = <<>>
          BY <1>0, <4>1, <5>1, RecentLooksEmpty DEF WaitingInv, WaitsSafely
        <5> QED
          BY <4>1, <4>2, <5>1, <5>2 DEF WaitsSafely
      <4>3. CASE tpc'[t] \notin {"r_asleep", "p_asleep"}
        <5>1. tpc'[t] \notin {"r_loaded", "p_loaded"}
          BY <1>0, <3>2 DEF read_test, poll_test
        <5> QED
          BY <4>3, <5>1 DEF WaitsSafely
      <4> QED
        BY <4>2, <4>3
    <3>3. CASE ~(read_load(t) \/ poll_load(t) \/ read_test(t) \/ poll_test(t))
      <4>1. tpc'[t] \notin {"r_loaded", "p_loaded", "r_asleep", "p_asleep"}
        <5>1. CASE OpenStep(t)
          BY <1>0, <5>1 DEF OpenStep, rumble_open, rumble_open_enodev
        <5>2. CASE ReadStep(t) \/ PollStep(t)
          BY <1>0, <3>3, <5>2 DEF ReadStep, read_get, read_get_empty, read_check,
             read_prepare, read_awake, read_woken, read_copy, PollStep, poll_awake
        <5>3. CASE IoctlStep(t)
          BY <1>0, <5>3 DEF IoctlStep, ioctl_store_seq, ioctl_lock, ioctl_check,
             ioctl_sent, ioctl_unlock
        <5>4. CASE CallStep(t)
          BY <1>0, <5>4 DEF CallStep, open_lookup, rumble_release, read_begin,
             poll_begin, ioctl_load_seq, read_signal, poll_timeout
        <5> QED
          BY <1>2, <5>1, <5>2, <5>3, <5>4 DEF ThreadStep
      <4> QED
        BY <4>1 DEF WaitsSafely
    <3> QED
      BY <3>1, <3>2, <3>3
  <2>4. file' \in [Threads -> Devs \cup {NULL}]
    BY TypeStep DEF TypeOK
  <2>5. \A u \in Threads \ {t} : file'[u] = file[u]
    BY <2>1 DEF ThreadKeeps
  <2> QED
    BY <2>2, <2>3, <2>4, <2>5 DEF WaitingInv
<1> QED
  BY <1>1, <1>2

(* A thread asleep in read or poll on the wait queue has missed nothing:   *)
(* if there is a packet or the device is gone, the wake-up is on its way   *)
(* (rumble.c:284-286, 415, 440-442, 733-734).                              *)
THEOREM WakeupCorrect == Spec => []NoLostWakeup
<1>1. Init => RingShape /\ WaitingInv
  <2>1. Newest(<<>>, 0) /\ Len(<<>>) < RingSize
    BY DriverAssumption DEF Newest
  <2> QED
    BY <2>1 DEF Init, RingShape, WaitingInv
<1>2. LifecycleInv /\ (RingShape /\ WaitingInv) /\ [Next]_vars
        => (RingShape /\ WaitingInv)'
  BY RingShapeStep, WaitingStep
<1>3. LifecycleInv /\ WaitingInv => NoLostWakeup
  BY DEF LifecycleInv, References, WaitingInv, WaitsSafely, NoLostWakeup, Unplugging
<1> QED
  BY <1>1, <1>2, <1>3, LifecycleCorrect, PTL DEF Spec
===============================================================================
