-------------------------- MODULE RumbleDriverProofs --------------------------
(***************************************************************************)
(* Safety of RumbleDriver for every number of interfaces, addresses and    *)
(* threads: the invariants of the life cycle of struct rumble_dev.         *)
(***************************************************************************)
EXTENDS RumbleDriver, BoundedQueueProofs, FiniteSetTheorems, TLAPS

(* Where probe or disconnect of an interface has published its device,     *)
(* where it has the transfer buffer, the URB, and the URB submitted.       *)
PublishedStates ==
  {"alloc_buf", "alloc_urb", "submit", "set_intfdata", "err_free_urb",
   "err_free_buf", "err_destroy_dev", "bound", "unbinding", "wake", "killing",
   "destroy"}

BufferStates ==
  {"alloc_urb", "submit", "set_intfdata", "err_free_urb", "err_free_buf",
   "bound", "unbinding", "wake", "killing", "destroy", "free"}

UrbHeldStates ==
  {"submit", "set_intfdata", "err_free_urb", "bound", "unbinding", "wake",
   "killing", "destroy", "free"}

StreamStates == {"set_intfdata", "bound", "unbinding", "wake", "killing"}

(* Who refers to what: an interface to its device while probe or           *)
(* disconnect is at it, a file to its device while it is open.             *)
References ==
  /\ \A i \in Intfs : ird[i] = NULL <=> ipc[i] = "unbound"
  /\ \A i, j \in Intfs : ird[i] # NULL /\ ird[i] = ird[j] => i = j
  /\ \A d \in unwound : Owners(d) = {}
  /\ \A t \in Threads : file[t] = NULL <=> tpc[t] \in {"closed", "opening"}

(* The published device belongs to the one interface that published it.    *)
Published ==
  /\ \A i \in Intfs : ipc[i] \in PublishedStates => g_dev = ird[i]
  /\ g_dev # NULL => \E i \in Intfs : ipc[i] \in PublishedStates
  /\ cdevs = {g_dev} \ {NULL}

(* A module that is going has no user, and one that is gone no device.     *)
Unloading ==
  /\ module # "live" => ~InUse
  /\ module = "unloaded" => \A i \in Intfs : ipc[i] = "unbound"

(* The buffer and the URB exist from their allocation to their release,    *)
(* and the URB is idle outside the stream.                                 *)
Resources ==
  /\ \A i \in Intfs : ird[i] # NULL =>
       /\ in_buf[ird[i]] <=> ipc[i] \in BufferStates
       /\ urb[ird[i]] # "none" <=> ipc[i] \in UrbHeldStates
       /\ urb[ird[i]] \notin {"none", "idle"} => ipc[i] \in StreamStates
  /\ \A d \in Devs :
       in_buf[d] \/ urb[d] # "none" => \E i \in Intfs : ird[i] = d

LifecycleInv ==
  TypeOK /\ References /\ KrefAccounts /\ Published /\ Unloading /\ Resources
-------------------------------------------------------------------------------
(* Counting the open files and the interface that refer to d. *)
LEMMA HoldersCount ==
  ASSUME NEW d \in Devs
  PROVE  /\ IsFiniteSet(Holders(d))
         /\ Cardinality(Holders(d)) \in Nat
         /\ Cardinality(Holders(d)) = 0 <=> Holders(d) = {}
<1>1. IsFiniteSet(Holders(d))
  BY DriverAssumption, FS_Subset DEF Holders
<1> QED
  BY <1>1, FS_CardinalityType, FS_EmptySet

LEMMA OwnersCount ==
  ASSUME TypeOK, References, NEW d \in Devs
  PROVE  Cardinality(Owners(d)) = IF Owners(d) = {} THEN 0 ELSE 1
<1>1. ASSUME Owners(d) # {}
      PROVE  \E i : Owners(d) = {i}
  BY <1>1, DriverAssumption DEF References, Owners
<1> QED
  BY <1>1, FS_EmptySet, FS_Singleton

(* Whoever refers to a device that no failed probe has freed is counted,   *)
(* so the count it gives back is positive and the device is there.         *)
LEMMA HeldPositive ==
  ASSUME TypeOK, References, KrefAccounts, NEW t \in Threads, file[t] # NULL
  PROVE  file[t] \in Devs /\ kref[file[t]] > 0
<1> DEFINE d == file[t]
<1>1. d \in Devs /\ Holders(d) # {}
  BY DEF TypeOK, Holders
<1>2. Cardinality(Holders(d)) > 0
  BY <1>1, HoldersCount
<1>3. Cardinality(Owners(d)) \in Nat
  BY <1>1, OwnersCount
<1> HIDE DEF d
<1>4. kref[d] > 0
  BY <1>1, <1>2, <1>3, HoldersCount DEF KrefAccounts
<1> QED
  BY <1>1, <1>4 DEF d

LEMMA OwnedPositive ==
  ASSUME TypeOK, References, KrefAccounts, NEW i \in Intfs, ird[i] # NULL
  PROVE  /\ ird[i] \in Devs /\ ird[i] \notin unwound
         /\ kref[ird[i]] > 0 /\ alloc[ird[i]]
<1> DEFINE d == ird[i]
<1>1. d \in Devs /\ i \in Owners(d) /\ d \notin unwound
  BY DEF TypeOK, Owners, References
<1>2. Cardinality(Owners(d)) = 1
  BY <1>1, OwnersCount
<1>3. kref[d] > 0 /\ alloc[d]
  BY <1>1, <1>2, HoldersCount DEF KrefAccounts
<1> QED
  BY <1>1, <1>3

(* What ring_empty loads is an index of the ring. *)
LEMMA LoadsType ==
  ASSUME NEW d \in Devs, stamp[d] \in Nat, ring[d] \in Seq(Nat), NEW l \in Loads(d)
  PROVE  l \in LoadedIndex
<1>1. \A n \in Int : n % RingSize \in 0 .. RingSize - 1
  BY DriverAssumption
<1>2. stamp[d] \in Int /\ stamp[d] - Len(ring[d]) \in Int
  OBVIOUS
<1>3. r_head(d) \in 0 .. RingSize - 1 /\ r_tail(d) \in 0 .. RingSize - 1
  BY <1>1, <1>2 DEF r_head, r_tail
<1> QED
  BY <1>3 DEF Loads, LoadedIndex

LEMMA NoLoadType == NoLoad \in LoadedIndex
  BY DriverAssumption DEF NoLoad, LoadedIndex

(* kref_put keeps the type of the count it takes one from. *)
LEMMA KrefPutType ==
  ASSUME kref \in [Devs -> Nat], alloc \in [Devs -> BOOLEAN],
         NEW d \in Devs, kref[d] > 0, kref_put(d)
  PROVE  kref' \in [Devs -> Nat] /\ alloc' \in [Devs -> BOOLEAN]
<1>1. kref[d] - 1 \in Nat
  OBVIOUS
<1>2. kref' \in [Devs -> Nat]
  BY <1>1 DEF kref_put
<1>3. alloc' \in [Devs -> BOOLEAN]
  BY DEF kref_put
<1> QED
  BY <1>2, <1>3

(* One step keeps the types. *)
LEMMA TypeStep ==
  ASSUME LifecycleInv, [Next]_vars
  PROVE  TypeOK'
<1> USE DriverAssumption DEF LifecycleInv
<1> USE DEF TypeOK, vars, modVars, memVars, usbVars, ringVars, txVars, sysVars,
       devVars, intfVars, fileVars, callVars, thrVars
<1> USE DEF UrbStates, IntfStates, ProbeStates, UnwindStates, DisconnectStates,
      ThreadStates, ReadStates, PollStates, IoctlStates, References
<1>1. CASE rumble_init \/ rumble_exit \/ rumble_exit_return
  BY <1>1 DEF rumble_init, rumble_exit, rumble_exit_return
<1>2. ASSUME NEW i \in Intfs, NEW d \in Devs, probe_alloc(i, d)
      PROVE  TypeOK'
  BY <1>2, SMTT(30) DEF probe_alloc
<1>3. ASSUME NEW i \in Intfs, usb_unbind(i)
      PROVE  TypeOK'
  BY <1>3 DEF usb_unbind
<1>4. ASSUME NEW i \in Intfs, ProbeStep(i)
      PROVE  TypeOK'
  <2>1. CASE probe_register(i)
    BY <2>1 DEF probe_register, SlotFree
  <2>2. CASE probe_alloc_buf(i)
    BY <2>2 DEF probe_alloc_buf
  <2>3. CASE probe_alloc_urb(i)
    BY <2>3 DEF probe_alloc_urb
  <2>4. CASE probe_submit(i)
    BY <2>4 DEF probe_submit
  <2>5. CASE probe_return(i)
    BY <2>5 DEF probe_return
  <2>6. CASE probe_goto_err(i)
    BY <2>6 DEF probe_goto_err, ErrorLabel
  <2>7. CASE err_free_urb(i)
    BY <2>7 DEF err_free_urb, usb_free_urb
  <2>8. CASE err_free_buf(i)
    BY <2>8 DEF err_free_buf
  <2>9. CASE err_destroy_dev(i)
    BY <2>9 DEF err_destroy_dev
  <2>10. CASE err_put_dev(i)
    BY <2>10 DEF err_put_dev
  <2> QED
    BY <1>4, <2>1, <2>2, <2>3, <2>4, <2>5, <2>6, <2>7, <2>8, <2>9, <2>10
       DEF ProbeStep
<1>5. ASSUME NEW i \in Intfs, DisconnectStep(i)
      PROVE  TypeOK'
  <2>1. CASE disconnect_mark(i)
    BY <2>1 DEF disconnect_mark
  <2>2. CASE disconnect_wake(i)
    BY <2>2 DEF disconnect_wake
  <2>3. CASE disconnect_killed(i)
    BY <2>3 DEF disconnect_killed
  <2>4. CASE disconnect_destroy(i)
    BY <2>4 DEF disconnect_destroy
  <2>5. CASE disconnect_free(i)
    BY <2>5 DEF disconnect_free, usb_free_urb
  <2>6. CASE disconnect_put(i)
    <3>1. kref' \in [Devs -> Nat]
      BY <2>6, OwnedPositive, SMTT(30) DEF disconnect_put, kref_put
    <3>2. alloc' \in [Devs -> BOOLEAN]
      BY <2>6, OwnedPositive DEF disconnect_put, kref_put
    <3> QED
      BY <2>6, <3>1, <3>2 DEF disconnect_put, kref_put
  <2> QED
    BY <1>5, <2>1, <2>2, <2>3, <2>4, <2>5, <2>6 DEF DisconnectStep
<1>6. ASSUME NEW d \in Devs, HandlerStep(d)
      PROVE  TypeOK'
  <2>1. CASE urb_wake(d)
    BY <2>1 DEF urb_wake
  <2>2. CASE urb_acked(d)
    BY <2>2 DEF urb_acked
  <2>3. CASE urb_resubmit(d)
    BY <2>3 DEF urb_resubmit
  <2> QED
    BY <1>6, <2>1, <2>2, <2>3 DEF HandlerStep
<1>7. ASSUME NEW d \in Devs, CompletionStep(d)
      PROVE  TypeOK'
  <2>1. CASE urb_input(d)
    <3>1. /\ ring[d] \in Seq(Nat) /\ stamp[d] + 1 \in Nat
          /\ RingSize - 1 \in Nat \ {0}
      BY DriverAssumption
    <3>2. PutDroppingOldest(ring[d], stamp[d] + 1, RingSize - 1) \in Seq(Nat)
      <4> HIDE DEF TypeOK, LifecycleInv, References
      <4> QED
        BY <3>1, PutProperties
    <3>3. ring' \in [Devs -> Seq(Nat)]
      BY <2>1, <3>2 DEF urb_input
    <3> QED
      BY <2>1, <3>1, <3>3 DEF urb_input
  <2>2. CASE urb_virtual_key(d)
    BY <2>2 DEF urb_virtual_key
  <2>3. CASE urb_ignored(d)
    BY <2>3 DEF urb_ignored
  <2>4. CASE urb_shutdown(d)
    BY <2>4 DEF urb_shutdown
  <2> QED
    BY <1>7, <2>1, <2>2, <2>3, <2>4 DEF CompletionStep
<1>8. ASSUME NEW t \in Threads, OpenStep(t)
      PROVE  TypeOK'
  <2>1. CASE rumble_open(t)
    <3>1. g_dev \in Devs /\ kref[g_dev] + 1 \in Nat
      BY <2>1 DEF rumble_open
    <3>2. kref' \in [Devs -> Nat]
      BY <2>1, <3>1 DEF rumble_open, kref_get
    <3>3. nonblock' \in [Threads -> BOOLEAN]
      BY <2>1 DEF rumble_open
    <3>4. file' \in [Threads -> Devs \cup {NULL}]
      BY <2>1, <3>1 DEF rumble_open
    <3> QED
      BY <2>1, <3>2, <3>3, <3>4 DEF rumble_open
  <2>2. CASE rumble_open_enodev(t)
    BY <2>2 DEF rumble_open_enodev
  <2> QED
    BY <1>8, <2>1, <2>2 DEF OpenStep
<1>9. ASSUME NEW t \in Threads, ReadStep(t)
      PROVE  TypeOK'
  <2>1. CASE read_get(t)
    <3>1. file[t] \in Devs
      BY <2>1 DEF read_get, ring_get
    <3>2. Head(ring[file[t]]) \in Nat /\ Tail(ring[file[t]]) \in Seq(Nat)
      BY <2>1, <3>1 DEF read_get, ring_get
    <3>3. ring' \in [Devs -> Seq(Nat)] /\ inp' \in [Threads -> Nat]
      BY <2>1, <3>1, <3>2 DEF read_get, ring_get
    <3>4. ready' \in [Threads -> BOOLEAN]
      BY <2>1, <3>1, <3>2, <3>3 DEF read_get, ring_get
    <3> QED
      BY <2>1, <3>1, <3>2, <3>3, <3>4 DEF read_get, ring_get
  <2>2. CASE read_get_empty(t)
    BY <2>2 DEF read_get_empty
  <2>3. CASE read_check(t)
    BY <2>3 DEF read_check
  <2>4. CASE read_prepare(t)
    BY <2>4, ZenonT(30) DEF read_prepare
  <2>5. CASE read_test(t)
    <3>1. read_wq' \in [Devs -> SUBSET Threads]
      <4>1. \/ read_wq' = read_wq
            \/ read_wq' = [read_wq EXCEPT ![file[t]] = @ \ {t}]
        BY <2>5 DEF read_test
      <4>2. read_wq \in [Devs -> SUBSET Threads]
        OBVIOUS
      <4> HIDE DEF TypeOK, LifecycleInv, References
      <4> QED
        BY <4>1, <4>2
    <3>2. tpc' \in [Threads -> ThreadStates]
      BY <2>5, ZenonT(60) DEF read_test
    <3>3. half' \in [Threads -> LoadedIndex]
      BY <2>5, NoLoadType DEF read_test
    <3> QED
      BY <2>5, <3>1, <3>2, <3>3 DEF read_test
  <2>6. CASE read_awake(t)
    BY <2>6 DEF read_awake
  <2>7. CASE read_woken(t)
    BY <2>7 DEF read_woken
  <2>8. CASE read_copy(t)
    <3>1. last' \in [Threads -> Nat]
      <4>1. last' = last \/ last' = [last EXCEPT ![t] = inp[t]]
        BY <2>8 DEF read_copy
      <4>2. last \in [Threads -> Nat] /\ inp \in [Threads -> Nat]
        OBVIOUS
      <4> HIDE DEF TypeOK, LifecycleInv, References
      <4> QED
        BY <4>1, <4>2
    <3>2. inp' \in [Threads -> Nat] /\ tpc' \in [Threads -> ThreadStates]
      BY <2>8 DEF read_copy
    <3> QED
      BY <2>8, <3>1, <3>2 DEF read_copy
  <2>9. CASE read_load(t)
    <3>1. file[t] \in Devs
      BY <2>9 DEF read_load
    <3>2. PICK l \in Loads(file[t]) : half' = [half EXCEPT ![t] = l]
      BY <2>9 DEF read_load
    <3>3. half' \in [Threads -> LoadedIndex]
      BY <3>1, <3>2, LoadsType
    <3> QED
      BY <2>9, <3>3 DEF read_load
  <2> QED
    BY <1>9, <2>1, <2>2, <2>3, <2>4, <2>5, <2>6, <2>7, <2>8, <2>9 DEF ReadStep
<1>10. ASSUME NEW t \in Threads, PollStep(t)
      PROVE  TypeOK'
  <2>1. CASE poll_test(t)
    <3>1. read_wq' \in [Devs -> SUBSET Threads]
      <4>1. \/ read_wq' = read_wq
            \/ read_wq' = [read_wq EXCEPT ![file[t]] = @ \ {t}]
        BY <2>1 DEF poll_test
      <4>2. read_wq \in [Devs -> SUBSET Threads]
        OBVIOUS
      <4> HIDE DEF TypeOK, LifecycleInv, References
      <4> QED
        BY <4>1, <4>2
    <3>2. ready' \in [Threads -> BOOLEAN]
      BY <2>1 DEF poll_test
    <3>3. tpc' \in [Threads -> ThreadStates]
      BY <2>1, ZenonT(30) DEF poll_test
    <3>4. half' \in [Threads -> LoadedIndex]
      BY <2>1, NoLoadType DEF poll_test
    <3> QED
      BY <2>1, <3>1, <3>2, <3>3, <3>4 DEF poll_test
  <2>2. CASE poll_awake(t)
    BY <2>2, ZenonT(30) DEF poll_awake
  <2>3. CASE poll_load(t)
    <3>1. file[t] \in Devs
      BY <2>3 DEF poll_load
    <3>2. PICK l \in Loads(file[t]) : half' = [half EXCEPT ![t] = l]
      BY <2>3 DEF poll_load
    <3>3. half' \in [Threads -> LoadedIndex]
      BY <3>1, <3>2, LoadsType
    <3>4. ready' \in [Threads -> BOOLEAN]
      BY <2>3 DEF poll_load
    <3> QED
      BY <2>3, <3>3, <3>4 DEF poll_load
  <2> QED
    BY <1>10, <2>1, <2>2, <2>3 DEF PollStep
<1>11. ASSUME NEW t \in Threads, IoctlStep(t)
      PROVE  TypeOK'
  <2>1. CASE ioctl_store_seq(t)
    <3>1. (seqno[t] + 1) % SeqMod \in 0 .. SeqMod - 1
      BY <2>1 DEF ioctl_store_seq
    <3>2. rumble_seq' \in [Devs -> 0 .. SeqMod - 1]
      BY <2>1, <3>1 DEF ioctl_store_seq
    <3> QED
      BY <2>1, <3>1, <3>2 DEF ioctl_store_seq
  <2>2. CASE ioctl_lock(t)
    BY <2>2 DEF ioctl_lock
  <2>3. CASE ioctl_check(t)
    BY <2>3 DEF ioctl_check
  <2>4. CASE ioctl_sent(t)
    BY <2>4 DEF ioctl_sent
  <2>5. CASE ioctl_unlock(t)
    <3>1. seqno' \in [Threads -> 0 .. SeqMod - 1]
      BY <2>5 DEF ioctl_unlock
    <3> QED
      BY <2>5, <3>1 DEF ioctl_unlock
  <2> QED
    BY <1>11, <2>1, <2>2, <2>3, <2>4, <2>5 DEF IoctlStep
<1>12. ASSUME NEW t \in Threads, CallStep(t)
      PROVE  TypeOK'
  <2>1. CASE open_lookup(t)
    BY <2>1 DEF open_lookup
  <2>2. CASE rumble_release(t)
    <3>1. file[t] # NULL
      BY <2>2, HeldPositive DEF rumble_release, kref_put
    <3>2. file[t] \in Devs /\ kref[file[t]] > 0
      BY <2>2, HeldPositive, <3>1 DEF rumble_release, kref_put
    <3>3. kref \in [Devs -> Nat] /\ alloc \in [Devs -> BOOLEAN] /\ kref_put(file[t])
      BY <2>2 DEF rumble_release
    <3> HIDE DEF TypeOK, LifecycleInv
    <3>4. kref' \in [Devs -> Nat] /\ alloc' \in [Devs -> BOOLEAN]
      BY <3>2, <3>3, KrefPutType
    <3> USE DEF TypeOK, LifecycleInv
    <3> QED
      BY <2>2, <3>1, <3>4 DEF rumble_release, kref_put
  <2>3. CASE read_begin(t)
    BY <2>3 DEF read_begin
  <2>4. CASE poll_begin(t)
    BY <2>4, ZenonT(30) DEF poll_begin
  <2>5. CASE ioctl_load_seq(t)
    BY <2>5 DEF ioctl_load_seq
  <2>6. CASE read_signal(t)
    BY <2>6 DEF read_signal
  <2>7. CASE poll_timeout(t)
    BY <2>7 DEF poll_timeout
  <2> QED
    BY <1>12, <2>1, <2>2, <2>3, <2>4, <2>5, <2>6, <2>7 DEF CallStep
<1>13. CASE UNCHANGED vars
  BY <1>13
<1> QED
  BY <1>1, <1>2, <1>3, <1>4, <1>5, <1>6, <1>7, <1>8, <1>9, <1>10, <1>11,
     <1>12, <1>13 DEF Next
(* A free object belongs to no interface. *)
LEMMA FreeUnowned ==
  ASSUME TypeOK, References, KrefAccounts, NEW d \in Devs, ~alloc[d]
  PROVE  \A i \in Intfs : ird[i] # d
  BY OwnedPositive, DriverAssumption


-------------------------------------------------------------------------------
(* Most steps leave the life cycle alone.  A thread inside the driver, or  *)
(* entering a call on its open file, stays inside with its file.           *)
LEMMA QuietThread ==
  ASSUME NEW t \in Threads,
         \/ ReadStep(t) \/ PollStep(t) \/ IoctlStep(t)
         \/ read_begin(t) \/ poll_begin(t) \/ ioctl_load_seq(t)
         \/ read_signal(t) \/ poll_timeout(t)
  PROVE  /\ UNCHANGED <<modVars, memVars, usbVars, intfVars, file>>
         /\ tpc[t] \notin {"closed", "opening"}
         /\ \E c : /\ c \notin {"closed", "opening"}
                   /\ tpc' = [tpc EXCEPT ![t] = c]
<1> USE DEF modVars, memVars, usbVars, ringVars, txVars, sysVars, devVars,
            intfVars, fileVars, callVars, thrVars
<1>1. CASE read_get(t)
  BY <1>1 DEF read_get
<1>2. CASE read_get_empty(t)
  BY <1>2 DEF read_get_empty
<1>3. CASE read_check(t)
  BY <1>3 DEF read_check
<1>4. CASE read_prepare(t)
  BY <1>4 DEF read_prepare
<1>5. CASE read_test(t)
  BY <1>5 DEF read_test
<1>6. CASE read_awake(t)
  BY <1>6 DEF read_awake
<1>7. CASE read_woken(t)
  BY <1>7 DEF read_woken
<1>8. CASE read_copy(t)
  BY <1>8 DEF read_copy
<1>9. CASE poll_test(t)
  BY <1>9 DEF poll_test
<1>10. CASE poll_awake(t)
  BY <1>10 DEF poll_awake
<1>11. CASE ioctl_store_seq(t)
  BY <1>11 DEF ioctl_store_seq
<1>12. CASE ioctl_lock(t)
  BY <1>12 DEF ioctl_lock
<1>13. CASE ioctl_check(t)
  BY <1>13 DEF ioctl_check
<1>14. CASE ioctl_sent(t)
  BY <1>14 DEF ioctl_sent
<1>15. CASE ioctl_unlock(t)
  BY <1>15 DEF ioctl_unlock
<1>16. CASE read_begin(t)
  BY <1>16 DEF read_begin
<1>17. CASE poll_begin(t)
  BY <1>17 DEF poll_begin
<1>18. CASE ioctl_load_seq(t)
  BY <1>18 DEF ioctl_load_seq
<1>19. CASE read_signal(t)
  BY <1>19 DEF read_signal
<1>20. CASE poll_timeout(t)
  BY <1>20 DEF poll_timeout
<1>21. CASE read_load(t)
  BY <1>21 DEF read_load
<1>22. CASE poll_load(t)
  BY <1>22 DEF poll_load
<1> QED
  BY <1>1, <1>2, <1>3, <1>4, <1>5, <1>6, <1>7, <1>8, <1>9, <1>10, <1>11,
     <1>12, <1>13, <1>14, <1>15, <1>16, <1>17, <1>18, <1>19, <1>20, <1>21,
     <1>22 DEF ReadStep, PollStep, IoctlStep

(* The handler and the transfers only move the URB along.                  *)
LEMMA QuietHandler ==
  ASSUME TypeOK, NEW d \in Devs, HandlerStep(d) \/ CompletionStep(d)
  PROVE  /\ UNCHANGED <<modVars, memVars, in_buf, intfVars, tpc, file>>
         /\ urb[d] \notin {"none", "idle"}
         /\ \E u : u # "none" /\ urb' = [urb EXCEPT ![d] = u]
<1> USE DEF modVars, memVars, usbVars, ringVars, txVars, sysVars, devVars,
            intfVars, fileVars, callVars, thrVars
<1>1. CASE urb_wake(d)
  BY <1>1 DEF urb_wake
<1>2. CASE urb_acked(d)
  BY <1>2 DEF urb_acked
<1>3. CASE urb_resubmit(d)
  BY <1>3 DEF urb_resubmit
<1>4. CASE urb_input(d)
  BY <1>4 DEF urb_input
<1>5. CASE urb_virtual_key(d)
  BY <1>5 DEF urb_virtual_key
<1>6. CASE urb_ignored(d)
  BY <1>6 DEF urb_ignored
<1>7. CASE urb_shutdown(d)
  BY <1>7 DEF urb_shutdown
<1> QED
  BY <1>1, <1>2, <1>3, <1>4, <1>5, <1>6, <1>7 DEF HandlerStep, CompletionStep

(* One step keeps who refers to what. *)
LEMMA ReferencesStep ==
  ASSUME LifecycleInv, [Next]_vars
  PROVE  References'
<1> USE DriverAssumption DEF LifecycleInv
<1> USE DEF modVars, memVars, usbVars, ringVars, txVars, sysVars, devVars,
            intfVars, fileVars, callVars, thrVars
<1> USE DEF TypeOK, References, Owners
<1>1. CASE rumble_init
  BY <1>1 DEF rumble_init
<1>2. CASE rumble_exit
  BY <1>2 DEF rumble_exit
<1>3. CASE rumble_exit_return
  BY <1>3 DEF rumble_exit_return
<1>4. ASSUME NEW i \in Intfs, NEW d \in Devs, probe_alloc(i, d)
      PROVE  References'
  <2>1. (\A j \in Intfs : ird[j] = NULL <=> ipc[j] = "unbound")'
    BY <1>4, FreeUnowned DEF probe_alloc
  <2>2. (\A j, k \in Intfs : ird[j] # NULL /\ ird[j] = ird[k] => j = k)'
    BY <1>4, FreeUnowned, ZenonT(30) DEF probe_alloc
  <2>3. (\A e \in unwound : Owners(e) = {})'
    BY <1>4, FreeUnowned DEF probe_alloc
  <2>4. (\A u \in Threads : file[u] = NULL <=> tpc[u] \in {"closed", "opening"})'
    BY <1>4, FreeUnowned DEF probe_alloc
  <2> QED
    BY <2>1, <2>2, <2>3, <2>4
<1>5. ASSUME NEW i \in Intfs, usb_unbind(i)
      PROVE  References'
  BY <1>5 DEF usb_unbind
<1>6. ASSUME NEW i \in Intfs, ProbeStep(i)
      PROVE  References'
  <2>1. CASE probe_register(i)
    BY <2>1 DEF probe_register, SlotFree
  <2>2. CASE probe_alloc_buf(i)
    BY <2>2 DEF probe_alloc_buf
  <2>3. CASE probe_alloc_urb(i)
    BY <2>3 DEF probe_alloc_urb
  <2>4. CASE probe_submit(i)
    BY <2>4 DEF probe_submit
  <2>5. CASE probe_return(i)
    BY <2>5 DEF probe_return
  <2>6. CASE probe_goto_err(i)
    BY <2>6 DEF probe_goto_err, ErrorLabel
  <2>7. CASE err_free_urb(i)
    BY <2>7 DEF err_free_urb
  <2>8. CASE err_free_buf(i)
    BY <2>8 DEF err_free_buf
  <2>9. CASE err_destroy_dev(i)
    BY <2>9 DEF err_destroy_dev
  <2>10. CASE err_put_dev(i)
    BY <2>10 DEF err_put_dev
  <2> QED
    BY <1>6, <2>1, <2>2, <2>3, <2>4, <2>5, <2>6, <2>7, <2>8, <2>9, <2>10
       DEF ProbeStep
<1>7. ASSUME NEW i \in Intfs, DisconnectStep(i)
      PROVE  References'
  <2>1. CASE disconnect_mark(i)
    BY <2>1 DEF disconnect_mark
  <2>2. CASE disconnect_wake(i)
    BY <2>2 DEF disconnect_wake
  <2>3. CASE disconnect_killed(i)
    BY <2>3 DEF disconnect_killed
  <2>4. CASE disconnect_destroy(i)
    BY <2>4 DEF disconnect_destroy
  <2>5. CASE disconnect_free(i)
    BY <2>5 DEF disconnect_free
  <2>6. CASE disconnect_put(i)
    <3>1. (\A j \in Intfs : ird[j] = NULL <=> ipc[j] = "unbound")'
      BY <2>6 DEF disconnect_put, kref_put
    <3>2. (\A j, k \in Intfs : ird[j] # NULL /\ ird[j] = ird[k] => j = k)'
      BY <2>6 DEF disconnect_put, kref_put
    <3>3. (\A e \in unwound : Owners(e) = {})'
      BY <2>6 DEF disconnect_put, kref_put
    <3>4. (\A u \in Threads : file[u] = NULL <=> tpc[u] \in {"closed", "opening"})'
      BY <2>6 DEF disconnect_put, kref_put
    <3> QED
      BY <3>1, <3>2, <3>3, <3>4
  <2> QED
    BY <1>7, <2>1, <2>2, <2>3, <2>4, <2>5, <2>6 DEF DisconnectStep
<1>8. ASSUME NEW t \in Threads, OpenStep(t)
      PROVE  References'
  <2>1. CASE rumble_open(t)
    BY <2>1 DEF rumble_open
  <2>2. CASE rumble_open_enodev(t)
    BY <2>2 DEF rumble_open_enodev
  <2> QED
    BY <1>8, <2>1, <2>2 DEF OpenStep
<1>9. ASSUME NEW t \in Threads, open_lookup(t)
      PROVE  References'
  BY <1>9 DEF open_lookup
<1>10. ASSUME NEW t \in Threads, rumble_release(t)
      PROVE  References'
  <2>1. (\A j \in Intfs : ird[j] = NULL <=> ipc[j] = "unbound")'
    BY <1>10 DEF rumble_release, kref_put
  <2>2. (\A j, k \in Intfs : ird[j] # NULL /\ ird[j] = ird[k] => j = k)'
    BY <1>10 DEF rumble_release, kref_put
  <2>3. (\A e \in unwound : Owners(e) = {})'
    BY <1>10 DEF rumble_release, kref_put
  <2>4. (\A u \in Threads : file[u] = NULL <=> tpc[u] \in {"closed", "opening"})'
    BY <1>10 DEF rumble_release, kref_put
  <2> QED
    BY <2>1, <2>2, <2>3, <2>4
<1>11. ASSUME NEW t \in Threads,
             \/ ReadStep(t) \/ PollStep(t) \/ IoctlStep(t)
             \/ read_begin(t) \/ poll_begin(t) \/ ioctl_load_seq(t)
             \/ read_signal(t) \/ poll_timeout(t)
       PROVE  References'
  <2>1. (\A j \in Intfs : ird[j] = NULL <=> ipc[j] = "unbound")'
    BY <1>11, QuietThread
  <2>2. (\A j, k \in Intfs : ird[j] # NULL /\ ird[j] = ird[k] => j = k)'
    BY <1>11, QuietThread
  <2>3. (\A e \in unwound : Owners(e) = {})'
    BY <1>11, QuietThread
  <2>4. (\A u \in Threads : file[u] = NULL <=> tpc[u] \in {"closed", "opening"})'
    BY <1>11, QuietThread, ZenonT(60)
  <2> QED
    BY <2>1, <2>2, <2>3, <2>4
<1>12. ASSUME NEW d \in Devs, HandlerStep(d) \/ CompletionStep(d)
       PROVE  References'
  <2>1. UNCHANGED <<ipc, ird, unwound, tpc, file>>
    BY <1>12, QuietHandler
  <2>2. References
    OBVIOUS
  <2>3. \A e \in Devs : Owners(e)' = Owners(e)
    BY <2>1 DEF Owners
  <2>4. unwound \subseteq Devs
    OBVIOUS
  <2> HIDE DEF LifecycleInv, TypeOK
  <2> QED
    BY <2>1, <2>2, <2>3, <2>4
<1>13. CASE UNCHANGED vars
  BY <1>13 DEF vars
<1> QED
  BY <1>1, <1>2, <1>3, <1>4, <1>5, <1>6, <1>7, <1>8, <1>9, <1>10, <1>11,
     <1>12, <1>13 DEF Next, CallStep

(* One step keeps the module unused while it goes. *)
LEMMA UnloadingStep ==
  ASSUME LifecycleInv, [Next]_vars
  PROVE  Unloading'
<1> USE DriverAssumption DEF LifecycleInv
<1> USE DEF modVars, memVars, usbVars, ringVars, txVars, sysVars, devVars,
            intfVars, fileVars, callVars, thrVars
<1> USE DEF TypeOK, References, Unloading, InUse
<1>1. CASE rumble_init
  BY <1>1 DEF rumble_init
<1>2. CASE rumble_exit
  BY <1>2 DEF rumble_exit
<1>3. CASE rumble_exit_return
  BY <1>3 DEF rumble_exit_return
<1>4. ASSUME NEW i \in Intfs, NEW d \in Devs, probe_alloc(i, d)
      PROVE  Unloading'
  BY <1>4 DEF probe_alloc
<1>5. ASSUME NEW i \in Intfs, usb_unbind(i)
      PROVE  Unloading'
  BY <1>5 DEF usb_unbind
<1>6. ASSUME NEW i \in Intfs, ProbeStep(i)
      PROVE  Unloading'
  <2>1. CASE probe_register(i)
    BY <2>1 DEF probe_register, SlotFree
  <2>2. CASE probe_alloc_buf(i)
    BY <2>2 DEF probe_alloc_buf
  <2>3. CASE probe_alloc_urb(i)
    BY <2>3 DEF probe_alloc_urb
  <2>4. CASE probe_submit(i)
    BY <2>4 DEF probe_submit
  <2>5. CASE probe_return(i)
    BY <2>5 DEF probe_return
  <2>6. CASE probe_goto_err(i)
    BY <2>6 DEF probe_goto_err, ErrorLabel
  <2>7. CASE err_free_urb(i)
    BY <2>7 DEF err_free_urb
  <2>8. CASE err_free_buf(i)
    BY <2>8 DEF err_free_buf
  <2>9. CASE err_destroy_dev(i)
    BY <2>9 DEF err_destroy_dev
  <2>10. CASE err_put_dev(i)
    BY <2>10 DEF err_put_dev
  <2> QED
    BY <1>6, <2>1, <2>2, <2>3, <2>4, <2>5, <2>6, <2>7, <2>8, <2>9, <2>10
       DEF ProbeStep
<1>7. ASSUME NEW i \in Intfs, DisconnectStep(i)
      PROVE  Unloading'
  <2>1. CASE disconnect_mark(i)
    BY <2>1 DEF disconnect_mark
  <2>2. CASE disconnect_wake(i)
    BY <2>2 DEF disconnect_wake
  <2>3. CASE disconnect_killed(i)
    BY <2>3 DEF disconnect_killed
  <2>4. CASE disconnect_destroy(i)
    BY <2>4 DEF disconnect_destroy
  <2>5. CASE disconnect_free(i)
    BY <2>5 DEF disconnect_free
  <2>6. CASE disconnect_put(i)
    BY <2>6 DEF disconnect_put
  <2> QED
    BY <1>7, <2>1, <2>2, <2>3, <2>4, <2>5, <2>6 DEF DisconnectStep
<1>8. ASSUME NEW t \in Threads, OpenStep(t)
      PROVE  Unloading'
  <2>1. CASE rumble_open(t)
    BY <2>1 DEF rumble_open
  <2>2. CASE rumble_open_enodev(t)
    BY <2>2 DEF rumble_open_enodev
  <2> QED
    BY <1>8, <2>1, <2>2 DEF OpenStep
<1>9. ASSUME NEW t \in Threads, open_lookup(t)
      PROVE  Unloading'
  BY <1>9 DEF open_lookup
<1>10. ASSUME NEW t \in Threads, rumble_release(t)
      PROVE  Unloading'
  BY <1>10 DEF rumble_release
<1>11. ASSUME NEW t \in Threads,
             \/ ReadStep(t) \/ PollStep(t) \/ IoctlStep(t)
             \/ read_begin(t) \/ poll_begin(t) \/ ioctl_load_seq(t)
             \/ read_signal(t) \/ poll_timeout(t)
       PROVE  Unloading'
  BY <1>11, QuietThread
<1>12. ASSUME NEW d \in Devs, HandlerStep(d) \/ CompletionStep(d)
       PROVE  Unloading'
  BY <1>12, QuietHandler
<1>13. CASE UNCHANGED vars
  BY <1>13 DEF vars
<1> QED
  BY <1>1, <1>2, <1>3, <1>4, <1>5, <1>6, <1>7, <1>8, <1>9, <1>10, <1>11,
     <1>12, <1>13 DEF Next, CallStep

(* One step keeps the slot and its one owner. *)
LEMMA PublishedStep ==
  ASSUME LifecycleInv, [Next]_vars
  PROVE  Published'
<1> USE DriverAssumption DEF LifecycleInv
<1> USE DEF modVars, memVars, usbVars, ringVars, txVars, sysVars, devVars,
            intfVars, fileVars, callVars, thrVars
<1> USE DEF TypeOK, References, Published, PublishedStates
<1>1. CASE rumble_init
  BY <1>1 DEF rumble_init
<1>2. CASE rumble_exit
  BY <1>2 DEF rumble_exit
<1>3. CASE rumble_exit_return
  BY <1>3 DEF rumble_exit_return
<1>4. ASSUME NEW i \in Intfs, NEW d \in Devs, probe_alloc(i, d)
      PROVE  Published'
  BY <1>4 DEF probe_alloc
<1>5. ASSUME NEW i \in Intfs, usb_unbind(i)
      PROVE  Published'
  BY <1>5 DEF usb_unbind
<1>6. ASSUME NEW i \in Intfs, ProbeStep(i)
      PROVE  Published'
  <2>1. CASE probe_register(i)
    BY <2>1 DEF probe_register, SlotFree
  <2>2. CASE probe_alloc_buf(i)
    BY <2>2 DEF probe_alloc_buf
  <2>3. CASE probe_alloc_urb(i)
    BY <2>3 DEF probe_alloc_urb
  <2>4. CASE probe_submit(i)
    BY <2>4 DEF probe_submit
  <2>5. CASE probe_return(i)
    BY <2>5 DEF probe_return
  <2>6. CASE probe_goto_err(i)
    BY <2>6 DEF probe_goto_err, ErrorLabel
  <2>7. CASE err_free_urb(i)
    BY <2>7 DEF err_free_urb
  <2>8. CASE err_free_buf(i)
    BY <2>8 DEF err_free_buf
  <2>9. CASE err_destroy_dev(i)
    BY <2>9 DEF err_destroy_dev
  <2>10. CASE err_put_dev(i)
    BY <2>10 DEF err_put_dev
  <2> QED
    BY <1>6, <2>1, <2>2, <2>3, <2>4, <2>5, <2>6, <2>7, <2>8, <2>9, <2>10
       DEF ProbeStep
<1>7. ASSUME NEW i \in Intfs, DisconnectStep(i)
      PROVE  Published'
  <2>1. CASE disconnect_mark(i)
    BY <2>1 DEF disconnect_mark
  <2>2. CASE disconnect_wake(i)
    BY <2>2 DEF disconnect_wake
  <2>3. CASE disconnect_killed(i)
    BY <2>3 DEF disconnect_killed
  <2>4. CASE disconnect_destroy(i)
    BY <2>4 DEF disconnect_destroy
  <2>5. CASE disconnect_free(i)
    BY <2>5 DEF disconnect_free
  <2>6. CASE disconnect_put(i)
    BY <2>6 DEF disconnect_put
  <2> QED
    BY <1>7, <2>1, <2>2, <2>3, <2>4, <2>5, <2>6 DEF DisconnectStep
<1>8. ASSUME NEW t \in Threads, OpenStep(t)
      PROVE  Published'
  <2>1. CASE rumble_open(t)
    BY <2>1 DEF rumble_open
  <2>2. CASE rumble_open_enodev(t)
    BY <2>2 DEF rumble_open_enodev
  <2> QED
    BY <1>8, <2>1, <2>2 DEF OpenStep
<1>9. ASSUME NEW t \in Threads, open_lookup(t)
      PROVE  Published'
  BY <1>9 DEF open_lookup
<1>10. ASSUME NEW t \in Threads, rumble_release(t)
      PROVE  Published'
  BY <1>10 DEF rumble_release
<1>11. ASSUME NEW t \in Threads,
             \/ ReadStep(t) \/ PollStep(t) \/ IoctlStep(t)
             \/ read_begin(t) \/ poll_begin(t) \/ ioctl_load_seq(t)
             \/ read_signal(t) \/ poll_timeout(t)
       PROVE  Published'
  BY <1>11, QuietThread
<1>12. ASSUME NEW d \in Devs, HandlerStep(d) \/ CompletionStep(d)
       PROVE  Published'
  BY <1>12, QuietHandler
<1>13. CASE UNCHANGED vars
  BY <1>13 DEF vars
<1> QED
  BY <1>1, <1>2, <1>3, <1>4, <1>5, <1>6, <1>7, <1>8, <1>9, <1>10, <1>11,
     <1>12, <1>13 DEF Next, CallStep

(* One step keeps the buffer and the URB as the states say. *)
LEMMA ResourcesStep ==
  ASSUME LifecycleInv, [Next]_vars
  PROVE  Resources'
<1> USE DriverAssumption DEF LifecycleInv
<1> USE DEF modVars, memVars, usbVars, ringVars, txVars, sysVars, devVars,
            intfVars, fileVars, callVars, thrVars
<1> USE DEF TypeOK, References, Resources, BufferStates, UrbHeldStates, StreamStates
<1>1. CASE rumble_init
  BY <1>1 DEF rumble_init
<1>2. CASE rumble_exit
  BY <1>2 DEF rumble_exit
<1>3. CASE rumble_exit_return
  BY <1>3 DEF rumble_exit_return
<1>4. ASSUME NEW i \in Intfs, NEW d \in Devs, probe_alloc(i, d)
      PROVE  Resources'
  <2>0. \A j \in Intfs : ird[j] # d
    BY <1>4, FreeUnowned DEF probe_alloc
  <2>1. (\A j \in Intfs : ird[j] # NULL =>
         (in_buf[ird[j]] <=> ipc[j] \in BufferStates))'
    BY <1>4, <2>0 DEF probe_alloc
  <2>2. (\A j \in Intfs : ird[j] # NULL =>
         (urb[ird[j]] # "none" <=> ipc[j] \in UrbHeldStates))'
    BY <1>4, <2>0 DEF probe_alloc
  <2>3. (\A j \in Intfs : ird[j] # NULL =>
         (urb[ird[j]] \notin {"none", "idle"} => ipc[j] \in StreamStates))'
    BY <1>4, <2>0 DEF probe_alloc
  <2>4. (\A e \in Devs : in_buf[e] \/ urb[e] # "none" =>
         \E j \in Intfs : ird[j] = e)'
    BY <1>4, FreeUnowned DEF probe_alloc
  <2> QED
    BY <2>1, <2>2, <2>3, <2>4
<1>5. ASSUME NEW i \in Intfs, usb_unbind(i)
      PROVE  Resources'
  BY <1>5 DEF usb_unbind
<1>6. ASSUME NEW i \in Intfs, ProbeStep(i)
      PROVE  Resources'
  <2>1. CASE probe_register(i)
    BY <2>1 DEF probe_register, SlotFree
  <2>2. CASE probe_alloc_buf(i)
    BY <2>2 DEF probe_alloc_buf
  <2>3. CASE probe_alloc_urb(i)
    BY <2>3 DEF probe_alloc_urb
  <2>4. CASE probe_submit(i)
    BY <2>4 DEF probe_submit
  <2>5. CASE probe_return(i)
    BY <2>5 DEF probe_return
  <2>6. CASE probe_goto_err(i)
    BY <2>6 DEF probe_goto_err, ErrorLabel
  <2>7. CASE err_free_urb(i)
    <3>1. (\A j \in Intfs : ird[j] # NULL =>
           (in_buf[ird[j]] <=> ipc[j] \in BufferStates))'
      BY <2>7 DEF err_free_urb, usb_free_urb
    <3>2. (\A j \in Intfs : ird[j] # NULL =>
           (urb[ird[j]] # "none" <=> ipc[j] \in UrbHeldStates))'
      BY <2>7 DEF err_free_urb, usb_free_urb
    <3>3. (\A j \in Intfs : ird[j] # NULL =>
           (urb[ird[j]] \notin {"none", "idle"} => ipc[j] \in StreamStates))'
      BY <2>7 DEF err_free_urb, usb_free_urb
    <3>4. (\A e \in Devs : in_buf[e] \/ urb[e] # "none" =>
           \E j \in Intfs : ird[j] = e)'
      BY <2>7 DEF err_free_urb, usb_free_urb
    <3> QED
      BY <3>1, <3>2, <3>3, <3>4
  <2>8. CASE err_free_buf(i)
    BY <2>8 DEF err_free_buf
  <2>9. CASE err_destroy_dev(i)
    BY <2>9 DEF err_destroy_dev
  <2>10. CASE err_put_dev(i)
    BY <2>10 DEF err_put_dev
  <2> QED
    BY <1>6, <2>1, <2>2, <2>3, <2>4, <2>5, <2>6, <2>7, <2>8, <2>9, <2>10
       DEF ProbeStep
<1>7. ASSUME NEW i \in Intfs, DisconnectStep(i)
      PROVE  Resources'
  <2>1. CASE disconnect_mark(i)
    BY <2>1 DEF disconnect_mark
  <2>2. CASE disconnect_wake(i)
    BY <2>2 DEF disconnect_wake
  <2>3. CASE disconnect_killed(i)
    BY <2>3 DEF disconnect_killed
  <2>4. CASE disconnect_destroy(i)
    BY <2>4 DEF disconnect_destroy
  <2>5. CASE disconnect_free(i)
    BY <2>5 DEF disconnect_free, usb_free_urb
  <2>6. CASE disconnect_put(i)
    BY <2>6 DEF disconnect_put
  <2> QED
    BY <1>7, <2>1, <2>2, <2>3, <2>4, <2>5, <2>6 DEF DisconnectStep
<1>8. ASSUME NEW t \in Threads, OpenStep(t)
      PROVE  Resources'
  <2>1. CASE rumble_open(t)
    BY <2>1 DEF rumble_open
  <2>2. CASE rumble_open_enodev(t)
    BY <2>2 DEF rumble_open_enodev
  <2> QED
    BY <1>8, <2>1, <2>2 DEF OpenStep
<1>9. ASSUME NEW t \in Threads, open_lookup(t)
      PROVE  Resources'
  BY <1>9 DEF open_lookup
<1>10. ASSUME NEW t \in Threads, rumble_release(t)
      PROVE  Resources'
  BY <1>10 DEF rumble_release
<1>11. ASSUME NEW t \in Threads,
             \/ ReadStep(t) \/ PollStep(t) \/ IoctlStep(t)
             \/ read_begin(t) \/ poll_begin(t) \/ ioctl_load_seq(t)
             \/ read_signal(t) \/ poll_timeout(t)
       PROVE  Resources'
  <2>1. UNCHANGED <<in_buf, urb, ird, ipc>>
    BY <1>11, QuietThread
  <2> QED
    BY <2>1
<1>12. ASSUME NEW d \in Devs, HandlerStep(d) \/ CompletionStep(d)
       PROVE  Resources'
  <2>1. UNCHANGED <<in_buf, ipc, ird>> /\ urb[d] \notin {"none", "idle"}
    BY <1>12, QuietHandler
  <2>2. PICK u : u # "none" /\ urb' = [urb EXCEPT ![d] = u]
    BY <1>12, QuietHandler, SMTT(30)
  <2> QED
    BY <2>1, <2>2
<1>13. CASE UNCHANGED vars
  BY <1>13 DEF vars
<1> QED
  BY <1>1, <1>2, <1>3, <1>4, <1>5, <1>6, <1>7, <1>8, <1>9, <1>10, <1>11,
     <1>12, <1>13 DEF Next, CallStep

-------------------------------------------------------------------------------
(* The two halves of KrefAccounts for one device.                          *)
CountExact(d) ==
  kref[d] = Cardinality(Holders(d))
            + (IF d \in unwound THEN 1 ELSE Cardinality(Owners(d)))

LiveExact(d) == alloc[d] <=> kref[d] > 0 /\ d \notin unwound

LEMMA KrefWhole ==
  ASSUME \A d \in Devs : CountExact(d)' /\ LiveExact(d)'
  PROVE  KrefAccounts'
  BY DEF KrefAccounts, CountExact, LiveExact

(* A device nothing happens to keeps its exact count. *)
LEMMA KrefOther ==
  ASSUME KrefAccounts, NEW d \in Devs,
         Holders(d)' = Holders(d), Owners(d)' = Owners(d),
         kref'[d] = kref[d], alloc'[d] = alloc[d],
         d \in unwound' <=> d \in unwound
  PROVE  CountExact(d)' /\ LiveExact(d)'
<1>1. CountExact(d) /\ LiveExact(d)
  BY DEF KrefAccounts, CountExact, LiveExact
<1>2. CountExact(d)'
  BY <1>1 DEF CountExact
<1>3. LiveExact(d)'
  BY <1>1 DEF LiveExact
<1> QED
  BY <1>2, <1>3

(* A step that leaves the references alone leaves the count exact. *)
LEMMA KrefFrame ==
  ASSUME KrefAccounts, UNCHANGED <<memVars, ird, file>>
  PROVE  KrefAccounts'
<1>1. \A d \in Devs : Holders(d)' = Holders(d) /\ Owners(d)' = Owners(d)
  BY DEF Holders, Owners
<1>2. \A d \in Devs : CountExact(d)' /\ LiveExact(d)'
  BY <1>1, KrefOther DEF memVars
<1> QED
  BY <1>2, KrefWhole

(* The steps that make or drop a reference.  In each, the count moves with *)
(* the sets for one device and nothing moves for the others.               *)
LEMMA KrefProbe ==
  ASSUME LifecycleInv, NEW i \in Intfs, NEW d \in Devs, probe_alloc(i, d)
  PROVE  KrefAccounts'
<1> USE DEF LifecycleInv
<1>1. /\ Owners(d)' = {i}
      /\ \A e \in Devs \ {d} : Owners(e)' = Owners(e)
  BY FreeUnowned, DriverAssumption, SMTT(30) DEF probe_alloc, Owners, TypeOK, References
<1>2. \A e \in Devs : Holders(e)' = Holders(e)
  BY DEF probe_alloc, Holders, thrVars, fileVars
<1>3. Holders(d)' = {}
  BY <1>2 DEF probe_alloc
<1>4. /\ kref'[d] = 1 /\ alloc'[d] /\ d \notin unwound'
      /\ \A e \in Devs \ {d} : /\ kref'[e] = kref[e] /\ alloc'[e] = alloc[e]
                              /\ e \in unwound' <=> e \in unwound
  BY DEF probe_alloc, TypeOK
<1>5. Cardinality({}) = 0 /\ Cardinality({i}) = 1
  BY FS_EmptySet, FS_Singleton
<1>6. CountExact(d)'
  BY <1>1, <1>3, <1>4, <1>5 DEF CountExact
<1>7. LiveExact(d)'
  BY <1>4 DEF LiveExact
<1>8. ASSUME NEW e \in Devs \ {d}
      PROVE  CountExact(e)' /\ LiveExact(e)'
  <2>1. e \in Devs /\ Holders(e)' = Holders(e) /\ Owners(e)' = Owners(e)
    BY <1>1, <1>2
  <2>2. kref'[e] = kref[e] /\ alloc'[e] = alloc[e]
    BY DEF probe_alloc, TypeOK
  <2>3. e \in unwound' <=> e \in unwound
    BY DEF probe_alloc
  <2> QED
    BY <2>1, <2>2, <2>3, KrefOther
<1> QED
  BY <1>6, <1>7, <1>8, KrefWhole

LEMMA KrefUnwind ==
  ASSUME LifecycleInv, NEW i \in Intfs, err_put_dev(i)
  PROVE  KrefAccounts'
<1> USE DEF LifecycleInv
<1>0. PICK d \in Devs : d = ird[i]
  BY DEF err_put_dev, TypeOK, References
<1>1. d \notin unwound /\ Owners(d) = {i}
  BY <1>0, OwnedPositive, DriverAssumption, SMTT(30)
     DEF err_put_dev, TypeOK, References, Owners
<1>2. \A e \in Devs \ {d} : Owners(e)' = Owners(e)
  BY <1>0, DriverAssumption, SMTT(30) DEF err_put_dev, Owners, TypeOK, References
<1>3. \A e \in Devs : Holders(e)' = Holders(e)
  BY DEF err_put_dev, Holders, thrVars, fileVars
<1>4. /\ unwound' = unwound \cup {d} /\ kref' = kref /\ ~alloc'[d]
      /\ \A e \in Devs \ {d} : alloc'[e] = alloc[e]
  BY <1>0, <1>1 DEF err_put_dev, TypeOK
<1>5. kref[d] = Cardinality(Holders(d)) + 1
  BY <1>1, FS_Singleton DEF KrefAccounts
<1>6. CountExact(d)' /\ LiveExact(d)'
  BY <1>3, <1>4, <1>5 DEF CountExact, LiveExact
<1>7. \A e \in Devs \ {d} : CountExact(e)' /\ LiveExact(e)'
  BY <1>2, <1>3, <1>4, KrefOther
<1> QED
  BY <1>6, <1>7, KrefWhole

LEMMA KrefDisconnect ==
  ASSUME LifecycleInv, NEW i \in Intfs, disconnect_put(i)
  PROVE  KrefAccounts'
<1> USE DEF LifecycleInv
<1>0. PICK d \in Devs : d = ird[i]
  BY DEF disconnect_put, TypeOK, References
<1>1. /\ d \notin unwound /\ alloc[d] /\ kref[d] \in Nat
      /\ Owners(d) = {i}
  <2>1. d # NULL
    BY DriverAssumption
  <2>2. d \notin unwound /\ alloc[d] /\ kref[d] \in Nat
    BY <1>0, <2>1, OwnedPositive DEF TypeOK
  <2>3. Owners(d) = {i}
    BY <1>0, <2>1 DEF References, Owners
  <2> QED
    BY <2>2, <2>3
<1>2. Owners(d)' = {}
  BY <1>0, <1>1, DriverAssumption DEF disconnect_put, Owners, TypeOK,
     References
<1>3. \A e \in Devs \ {d} : Owners(e)' = Owners(e)
  BY <1>0, <1>1, DriverAssumption, SMTT(30) DEF disconnect_put, Owners, TypeOK,
     References
<1>4. \A e \in Devs : Holders(e)' = Holders(e)
  BY DEF disconnect_put, Holders, thrVars, fileVars
<1>5. /\ unwound' = unwound /\ kref'[d] = kref[d] - 1
      /\ alloc'[d] <=> kref[d] # 1
      /\ \A e \in Devs \ {d} : alloc'[e] = alloc[e] /\ kref'[e] = kref[e]
  BY <1>0, <1>1 DEF disconnect_put, kref_put, TypeOK
<1>6. kref[d] = Cardinality(Holders(d)) + 1
  BY <1>1, FS_Singleton DEF KrefAccounts
<1>7. Cardinality(Holders(d)) \in Nat /\ Cardinality({}) = 0
  BY <1>1, HoldersCount, FS_EmptySet
<1>8. CountExact(d)'
  BY <1>1, <1>2, <1>4, <1>5, <1>6, <1>7 DEF CountExact
<1>9. LiveExact(d)'
  BY <1>1, <1>5, <1>6, <1>7 DEF LiveExact
<1>10. \A e \in Devs \ {d} : CountExact(e)' /\ LiveExact(e)'
  BY <1>3, <1>4, <1>5, KrefOther
<1> QED
  BY <1>8, <1>9, <1>10, KrefWhole

LEMMA KrefOpen ==
  ASSUME LifecycleInv, NEW t \in Threads, rumble_open(t)
  PROVE  KrefAccounts'
<1> USE DEF LifecycleInv
<1>0. PICK d \in Devs : d = g_dev
  BY DEF rumble_open, TypeOK
<1>1. d \notin unwound /\ alloc[d] /\ kref[d] \in Nat
  <2>1. PICK i \in Intfs : ird[i] = d
    BY <1>0 DEF rumble_open, Published, TypeOK
  <2> QED
    BY <1>0, <2>1, OwnedPositive DEF rumble_open, TypeOK
<1>2. Holders(d)' = Holders(d) \cup {t} /\ t \notin Holders(d)
  BY <1>0, <1>1, DriverAssumption DEF rumble_open, Holders, TypeOK, References
<1>3. \A e \in Devs \ {d} : Holders(e)' = Holders(e)
  BY <1>0, <1>1, DriverAssumption DEF rumble_open, Holders, TypeOK, References
<1>4. \A e \in Devs : Owners(e)' = Owners(e)
  BY DEF rumble_open, Owners, intfVars
<1>5. /\ unwound' = unwound /\ alloc' = alloc /\ kref'[d] = kref[d] + 1
      /\ \A e \in Devs \ {d} : kref'[e] = kref[e]
  BY <1>0, <1>1 DEF rumble_open, kref_get, TypeOK
<1>6. Cardinality(Holders(d)') = Cardinality(Holders(d)) + 1
  BY <1>1, <1>2, HoldersCount, FS_AddElement
<1>7. Cardinality(Holders(d)) \in Nat /\ Cardinality(Owners(d)) \in Nat
  BY <1>1, HoldersCount, OwnersCount
<1>8. kref[d] = Cardinality(Holders(d)) + Cardinality(Owners(d))
  BY <1>1 DEF KrefAccounts
<1>9. CountExact(d)'
  BY <1>1, <1>4, <1>5, <1>6, <1>7, <1>8 DEF CountExact
<1>10. LiveExact(d)'
  BY <1>1, <1>5 DEF LiveExact
<1>11. \A e \in Devs \ {d} : CountExact(e)' /\ LiveExact(e)'
  BY <1>3, <1>4, <1>5, KrefOther
<1> QED
  BY <1>9, <1>10, <1>11, KrefWhole

LEMMA KrefRelease ==
  ASSUME LifecycleInv, NEW t \in Threads, rumble_release(t)
  PROVE  KrefAccounts'
<1> USE DEF LifecycleInv
<1>0. PICK d \in Devs : d = file[t]
  BY DEF rumble_release, References, TypeOK
<1>1. d # NULL
  BY <1>0 DEF rumble_release, References
<1>2. kref[d] \in Nat /\ kref[d] > 0
  BY <1>0, <1>1, HeldPositive DEF TypeOK
<1>3. Holders(d)' = Holders(d) \ {t} /\ t \in Holders(d)
  BY <1>0, <1>2, DriverAssumption DEF rumble_release, Holders, TypeOK
<1>4. \A e \in Devs \ {d} : Holders(e)' = Holders(e)
  BY <1>0, <1>2, DriverAssumption DEF rumble_release, Holders, TypeOK
<1>5. \A e \in Devs : Owners(e)' = Owners(e)
  BY DEF rumble_release, Owners, intfVars
<1>6. /\ unwound' = unwound /\ kref'[d] = kref[d] - 1
      /\ alloc'[d] <=> alloc[d] /\ kref[d] # 1
      /\ \A e \in Devs \ {d} : kref'[e] = kref[e] /\ alloc'[e] = alloc[e]
  BY <1>0, <1>2 DEF rumble_release, kref_put, TypeOK
<1>7. Cardinality(Holders(d)') = Cardinality(Holders(d)) - 1
  BY <1>2, <1>3, HoldersCount, FS_RemoveElement
<1>8. Cardinality(Holders(d)) \in Nat /\ Cardinality(Owners(d)) \in Nat
  BY <1>2, HoldersCount, OwnersCount
<1>9. CountExact(d) /\ LiveExact(d)
  BY <1>2 DEF KrefAccounts, CountExact, LiveExact
<1>10. CountExact(d)'
  BY <1>2, <1>5, <1>6, <1>7, <1>8, <1>9 DEF CountExact
<1>11. LiveExact(d)'
  BY <1>2, <1>6, <1>9 DEF LiveExact
<1>12. \A e \in Devs \ {d} : CountExact(e)' /\ LiveExact(e)'
  BY <1>4, <1>5, <1>6, KrefOther
<1> QED
  BY <1>10, <1>11, <1>12, KrefWhole

(* One step keeps the count exact. *)
LEMMA KrefStep ==
  ASSUME LifecycleInv, [Next]_vars
  PROVE  KrefAccounts'
<1> USE DEF modVars, memVars, usbVars, ringVars, txVars, sysVars, devVars,
            intfVars, fileVars, callVars, thrVars
<1>1. KrefAccounts /\ TypeOK
  BY DEF LifecycleInv
<1>2. CASE rumble_init \/ rumble_exit \/ rumble_exit_return
  BY <1>1, <1>2, KrefFrame DEF rumble_init, rumble_exit, rumble_exit_return
<1>3. ASSUME NEW i \in Intfs, NEW d \in Devs, probe_alloc(i, d)
      PROVE  KrefAccounts'
  BY <1>3, KrefProbe
<1>4. ASSUME NEW i \in Intfs, usb_unbind(i)
      PROVE  KrefAccounts'
  BY <1>1, <1>4, KrefFrame DEF usb_unbind
<1>5. ASSUME NEW i \in Intfs, ProbeStep(i)
      PROVE  KrefAccounts'
  <2>1. CASE probe_register(i)
    BY <1>1, <2>1, KrefFrame DEF probe_register
  <2>2. CASE probe_alloc_buf(i)
    BY <1>1, <2>2, KrefFrame DEF probe_alloc_buf
  <2>3. CASE probe_alloc_urb(i)
    BY <1>1, <2>3, KrefFrame DEF probe_alloc_urb
  <2>4. CASE probe_submit(i)
    BY <1>1, <2>4, KrefFrame DEF probe_submit
  <2>5. CASE probe_return(i)
    BY <1>1, <2>5, KrefFrame DEF probe_return
  <2>6. CASE probe_goto_err(i)
    BY <1>1, <2>6, KrefFrame DEF probe_goto_err
  <2>7. CASE err_free_urb(i)
    BY <1>1, <2>7, KrefFrame DEF err_free_urb
  <2>8. CASE err_free_buf(i)
    BY <1>1, <2>8, KrefFrame DEF err_free_buf
  <2>9. CASE err_destroy_dev(i)
    BY <1>1, <2>9, KrefFrame DEF err_destroy_dev
  <2>10. CASE err_put_dev(i)
    BY <2>10, KrefUnwind
  <2> QED
    BY <1>5, <2>1, <2>2, <2>3, <2>4, <2>5, <2>6, <2>7, <2>8, <2>9, <2>10
       DEF ProbeStep
<1>6. ASSUME NEW i \in Intfs, DisconnectStep(i)
      PROVE  KrefAccounts'
  <2>1. CASE disconnect_mark(i)
    BY <1>1, <2>1, KrefFrame DEF disconnect_mark
  <2>2. CASE disconnect_wake(i)
    BY <1>1, <2>2, KrefFrame DEF disconnect_wake
  <2>3. CASE disconnect_killed(i)
    BY <1>1, <2>3, KrefFrame DEF disconnect_killed
  <2>4. CASE disconnect_destroy(i)
    BY <1>1, <2>4, KrefFrame DEF disconnect_destroy
  <2>5. CASE disconnect_free(i)
    BY <1>1, <2>5, KrefFrame DEF disconnect_free
  <2>6. CASE disconnect_put(i)
    BY <2>6, KrefDisconnect
  <2> QED
    BY <1>6, <2>1, <2>2, <2>3, <2>4, <2>5, <2>6 DEF DisconnectStep
<1>7. ASSUME NEW t \in Threads, OpenStep(t)
      PROVE  KrefAccounts'
  <2>1. CASE rumble_open(t)
    BY <2>1, KrefOpen
  <2>2. CASE rumble_open_enodev(t)
    BY <1>1, <2>2, KrefFrame DEF rumble_open_enodev
  <2> QED
    BY <1>7, <2>1, <2>2 DEF OpenStep
<1>8. ASSUME NEW t \in Threads, open_lookup(t)
      PROVE  KrefAccounts'
  BY <1>1, <1>8, KrefFrame DEF open_lookup
<1>9. ASSUME NEW t \in Threads, rumble_release(t)
      PROVE  KrefAccounts'
  BY <1>9, KrefRelease
<1>10. ASSUME NEW t \in Threads,
             \/ ReadStep(t) \/ PollStep(t) \/ IoctlStep(t)
             \/ read_begin(t) \/ poll_begin(t) \/ ioctl_load_seq(t)
             \/ read_signal(t) \/ poll_timeout(t)
       PROVE  KrefAccounts'
  BY <1>1, <1>10, QuietThread, KrefFrame
<1>11. ASSUME NEW d \in Devs, HandlerStep(d) \/ CompletionStep(d)
       PROVE  KrefAccounts'
  BY <1>1, <1>11, QuietHandler, KrefFrame
<1>12. CASE UNCHANGED vars
  BY <1>1, <1>12, KrefFrame DEF vars
<1> QED
  BY <1>2, <1>3, <1>4, <1>5, <1>6, <1>7, <1>8, <1>9, <1>10, <1>11, <1>12
     DEF Next, CallStep

-------------------------------------------------------------------------------
(* LifecycleInv is an invariant of the driver. *)
THEOREM LifecycleCorrect == Spec => []LifecycleInv
<1>1. Init => LifecycleInv
  <2> SUFFICES ASSUME Init PROVE LifecycleInv
    OBVIOUS
  <2> USE DriverAssumption DEF Init
  <2>1. TypeOK
    <3>1. <<>> \in Seq(Nat)
      OBVIOUS
    <3> QED
      BY <3>1, NoLoadType DEF TypeOK, UrbStates, IntfStates, ThreadStates
  <2>2. \A d \in Devs : Owners(d) = {} /\ Holders(d) = {}
    BY DEF Owners, Holders
  <2>3. References
    BY <2>2 DEF References
  <2>4. KrefAccounts
    <3>1. \A d \in Devs : kref[d] = 0 /\ ~alloc[d] /\ d \notin unwound
      OBVIOUS
    <3>2. Cardinality({}) = 0
      BY FS_EmptySet
    <3>3. ASSUME NEW d \in Devs
          PROVE  CountExact(d)
      <4>1. Cardinality(Holders(d)) = 0
        BY <2>2, <3>2
      <4>2. kref[d] = 0 /\ Cardinality(Owners(d)) = 0 /\ d \notin unwound
        BY <2>2, <3>1, <3>2
      <4> HIDE DEF Init
      <4> QED
        BY <4>1, <4>2 DEF CountExact
    <3>4. \A d \in Devs : LiveExact(d)
      BY <3>1 DEF LiveExact
    <3> QED
      BY <3>3, <3>4 DEF KrefAccounts, CountExact, LiveExact
  <2>5. Published
    BY DEF Published, PublishedStates
  <2>6. Unloading
    BY DEF Unloading, InUse
  <2>7. Resources
    BY DEF Resources
  <2> QED
    BY <2>1, <2>3, <2>4, <2>5, <2>6, <2>7 DEF LifecycleInv
<1>2. LifecycleInv /\ [Next]_vars => LifecycleInv'
  BY TypeStep, ReferencesStep, KrefStep, PublishedStep, UnloadingStep,
     ResourcesStep DEF LifecycleInv
<1> QED
  BY <1>1, <1>2, PTL DEF Spec

(* Every variable keeps its type, and kref never goes negative. *)
THEOREM TypeCorrect == Spec => []TypeOK
<1>1. LifecycleInv => TypeOK
  BY DEF LifecycleInv
<1> QED
  BY <1>1, LifecycleCorrect, PTL

(* The reference count is exact whatever opens, releases, probes and       *)
(* disconnects interleave, and the object lives exactly while it is        *)
(* referred to (rumble.c:321-374, 753).                                    *)
THEOREM KrefCorrect == Spec => []KrefAccounts
<1>1. LifecycleInv => KrefAccounts
  BY DEF LifecycleInv
<1> QED
  BY <1>1, LifecycleCorrect, PTL

(* An open file never refers to freed memory, but for the unwinding probe. *)
THEOREM FileSafe == Spec => []FileKeepsDevice
<1>1. LifecycleInv => FileKeepsDevice
  BY HeldPositive DEF LifecycleInv, FileKeepsDevice, KrefAccounts
<1> QED
  BY <1>1, LifecycleCorrect, PTL

(* At most one controller is published, and g_dev and the registered cdev  *)
(* are that one (rumble.c:618-651, 740-744).                               *)
THEOREM OneControllerCorrect == Spec => []OneController
<1>1. LifecycleInv => OneController
  BY OwnedPositive DEF LifecycleInv, OneController, Published, TypeOK,
     References, PublishedStates
<1> QED
  BY <1>1, LifecycleCorrect, PTL

(* No transfer and no handler ever touches freed memory (rumble.c:         *)
(* 735-753).                                                               *)
THEOREM StreamMemorySafe == Spec => []StreamMemory
<1>1. ASSUME LifecycleInv, NEW d \in Devs, urb[d] \notin {"none", "idle"}
      PROVE  alloc[d] /\ in_buf[d]
  <2>1. PICK i \in Intfs : ird[i] = d
    BY <1>1 DEF LifecycleInv, Resources
  <2>2. ird[i] # NULL
    BY <2>1, DriverAssumption
  <2>3. alloc[d]
    BY <1>1, <2>1, <2>2, OwnedPositive DEF LifecycleInv
  <2>4. ipc[i] \in StreamStates
    BY <1>1, <2>1, <2>2 DEF LifecycleInv, Resources
  <2>5. in_buf[d]
    BY <1>1, <2>1, <2>2, <2>4 DEF LifecycleInv, Resources, StreamStates,
       BufferStates
  <2> QED
    BY <2>3, <2>5
<1>2. LifecycleInv => StreamMemory
  BY <1>1 DEF StreamMemory
<1> QED
  BY <1>2, LifecycleCorrect, PTL

(* Once rumble_exit has returned nothing of any device is left (rumble.c:  *)
(* 820-823).                                                               *)
THEOREM ExitSafe == Spec => []ExitFreesAll
<1>1. ASSUME LifecycleInv, module = "unloaded"
      PROVE  g_dev = NULL /\ cdevs = {}
  BY <1>1 DEF LifecycleInv, Unloading, Published, PublishedStates
<1>2. ASSUME LifecycleInv, module = "unloaded", NEW d \in Devs
      PROVE  ~alloc[d] /\ ~in_buf[d] /\ urb[d] = "none"
  <2>1. \A i \in Intfs : ird[i] = NULL
    BY <1>2 DEF LifecycleInv, Unloading, References
  <2>2. Owners(d) = {} /\ Holders(d) = {}
    BY <1>2, <2>1, DriverAssumption
       DEF LifecycleInv, Unloading, InUse, References, Owners, Holders
  <2>3. d \notin unwound => kref[d] = 0
    <3>1. Cardinality({}) = 0
      BY FS_EmptySet
    <3> QED
      BY <1>2, <2>2, <3>1 DEF LifecycleInv, KrefAccounts
  <2>4. ~alloc[d]
    BY <1>2, <2>3 DEF LifecycleInv, KrefAccounts
  <2>5. ~in_buf[d] /\ urb[d] = "none"
    BY <1>2, <2>1, DriverAssumption DEF LifecycleInv, Resources
  <2> QED
    BY <2>4, <2>5
<1>3. LifecycleInv => ExitFreesAll
  BY <1>1, <1>2 DEF ExitFreesAll
<1> QED
  BY <1>3, LifecycleCorrect, PTL
===============================================================================
