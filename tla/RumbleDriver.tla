----------------------------- MODULE RumbleDriver -----------------------------
(***************************************************************************)
(* The kernel module driver/rumble.c: module load and unload, USB probe    *)
(* and disconnect, the interrupt-IN URB and its completion handler, and    *)
(* the file operations of /dev/rumble0, all running concurrently.          *)
(*                                                                         *)
(* Three kinds of actors take steps.                                       *)
(*  - Per USB interface, the worker in which the USB core calls probe and  *)
(*    disconnect.  The core holds the device lock, so for one interface    *)
(*    they never overlap; for two interfaces they do.                      *)
(*  - Per device structure, the completion handler, in interrupt context.  *)
(*  - Per thread of a program, the system calls on its own open file.      *)
(*                                                                         *)
(* A region under dev_mutex or ring_lock is one step, because everything   *)
(* it touches is touched only under that lock or is an atomic_t.  Between  *)
(* two regions, and around every unlocked access, other actors interleave. *)
(* ring_empty is called without ring_lock by read and poll: its two loads  *)
(* are two steps, in either order.                                         *)
(***************************************************************************)
EXTENDS Naturals, Sequences, FiniteSets, BoundedQueue

CONSTANTS
  Intfs,       \* USB interfaces a controller can appear on
  Devs,        \* addresses of struct rumble_dev objects
  Threads,     \* threads of user-space programs, one open file each
  NULL,        \* the null pointer
  RingSize,    \* RING_BUF_SIZE
  SeqMod,      \* number of values of rumble_seq: 256 in the code
  MaxReports,  \* bound: input reports one device sends while it is bound
  Calls        \* bound: the system calls each thread makes on an open file

ASSUME DriverAssumption ==
  /\ NULL \notin Devs \cup Threads \cup Intfs
  /\ IsFiniteSet(Threads)
  /\ RingSize \in Nat /\ RingSize > 1
  /\ SeqMod \in Nat /\ SeqMod > 0
  /\ MaxReports \in Nat
  /\ Calls \in [Threads -> SUBSET {"read", "poll", "ioctl"}]

VARIABLES
  \* module-level state
  module,       \* "unloaded", "live", or "going" during rumble_exit
  g_dev,        \* the one published device, or NULL
  cdevs,        \* devices whose cdev is added and whose node exists
  \* struct rumble_dev, by address
  alloc,        \* is the object allocated?
  kref,
  disconnected,
  in_buf,       \* is the transfer buffer allocated?
  urb,          \* the URB and its handler, see UrbStates
  ring,         \* packets in the ring, oldest first (RumbleRing, RingIsQueue)
  stamp,        \* timestamp of the newest report, counted from probe
  read_wq,      \* threads queued on read_wq and not yet woken
  rumble_seq,
  tx_mutex,     \* the thread holding tx_mutex, or NULL
  \* USB core, by interface
  ipc,          \* where probe or disconnect is, see IntfStates
  ird,          \* its local variable rd, or NULL
  \* program threads
  tpc,          \* where the thread is, see ThreadStates
  file,         \* filp->private_data of its open file, or NULL
  nonblock,     \* O_NONBLOCK in filp->f_flags
  inp,          \* the packet rumble_read has dequeued
  half,         \* the index an unlocked ring_empty has loaded first
  seqno,        \* the value of rumble_seq rumble_ioctl has loaded
  last,         \* timestamp of the last packet its file delivered
  ready,        \* the last poll said POLLIN, and no thread has taken a packet
                \* from the device since
  \* history
  unwound       \* devices the error path of probe freed, until reallocated

modVars  == <<module, g_dev, cdevs>>
memVars  == <<alloc, kref, unwound>>
usbVars  == <<in_buf, urb>>
ringVars == <<ring, stamp>>
txVars   == <<rumble_seq, tx_mutex>>
sysVars  == <<disconnected, ringVars, read_wq, txVars>>
devVars  == <<memVars, usbVars, sysVars>>
intfVars == <<ipc, ird>>
fileVars == <<file, nonblock>>
callVars == <<inp, half, seqno, last, ready>>
thrVars  == <<tpc, fileVars, callVars>>

vars == <<modVars, devVars, intfVars, thrVars>>

-------------------------------------------------------------------------------
(* The URB: not allocated, allocated, submitted, or its completion handler *)
(* about to wake the readers, to acknowledge, or to resubmit.              *)
UrbStates == {"none", "idle", "flight", "wake", "ack", "resubmit"}

ProbeStates == {"register", "alloc_buf", "alloc_urb", "submit", "set_intfdata"}

UnwindStates == {"err_free_urb", "err_free_buf", "err_destroy_dev",
                 "err_put_dev"}

DisconnectStates == {"unbinding", "wake", "killing", "destroy", "free", "put"}

IntfStates ==
  {"unbound", "bound"} \cup ProbeStates \cup UnwindStates \cup DisconnectStates

ReadStates == {"r_get", "r_check", "r_wait", "r_prepared", "r_loaded",
               "r_asleep", "r_woken", "r_copy"}

PollStates == {"p_queued", "p_loaded", "p_asleep"}

IoctlStates == {"i_store", "i_lock", "i_check", "i_tx", "i_unlock"}

ThreadStates ==
  {"closed", "opening", "open"} \cup ReadStates \cup PollStates \cup IoctlStates

(* The interfaces whose probe or disconnect has d as its rd: they hold the *)
(* reference kref_init made.                                               *)
Owners(d) == {i \in Intfs : ird[i] = d}

(* The open files that hold a reference to d. *)
Holders(d) == {t \in Threads : file[t] = d}

(* Mutation of Rejected: the resubmission is never refused. *)
NeverRejected(d) == FALSE

(* usb_kill_urb has raised urb->reject: a submission fails with -EPERM. *)
Rejected(d) == \E i \in Owners(d) : ipc[i] = "killing"

(* Mutation of kref_get: open forgets it. *)
NoKrefGet(d) == UNCHANGED kref

(* kref_get and kref_put(&rd->kref, rumble_delete): the object goes with   *)
(* the last reference.                                                     *)
kref_get(d) == kref' = [kref EXCEPT ![d] = @ + 1]

kref_put(d) ==
  /\ kref' = [kref EXCEPT ![d] = @ - 1]
  /\ alloc' = [alloc EXCEPT ![d] = @ /\ kref[d] # 1]
  /\ UNCHANGED unwound

(* The indices of the ring: one put moves r_head by one, and r_tail is as  *)
(* many slots behind it as there are packets.                              *)
r_head(d) == stamp[d] % RingSize

r_tail(d) == (stamp[d] - Len(ring[d])) % RingSize

(* ring_empty, called without ring_lock: it loads one index, and compares  *)
(* it with the other when it loads that one.  It may so find a full ring   *)
(* empty: a put moves both indices, and the first may be read before the   *)
(* put and the second after it.                                            *)
LoadedIndex == [end : {"head", "tail"}, at : 0 .. RingSize - 1]

Loads(d) ==
  {[end |-> "head", at |-> r_head(d)], [end |-> "tail", at |-> r_tail(d)]}

LooksEmpty(t) ==
  half[t].at = IF half[t].end = "head" THEN r_tail(file[t]) ELSE r_head(file[t])

NoLoad == [end |-> "head", at |-> 0]

(* Mutations: read waits for data only; poll always says POLLIN. *)
WaitForData(t) == ~LooksEmpty(t)
AlwaysPollIn(t) == TRUE

(* What read waits for, and what poll reports as POLLIN. *)
WaitCondition(t) == ~LooksEmpty(t) \/ disconnected[file[t]]

PollIn(t) == ~LooksEmpty(t) \/ disconnected[file[t]]

(* usb_free_urb drops the driver's reference.  The host controller has one *)
(* of its own on an URB in flight, until the handler has returned.         *)
usb_free_urb(u) == IF u = "idle" THEN "none" ELSE u

(* Mutation of SlotFree: a second controller is not rejected. *)
NoSlotCheck == TRUE

(* Minor 0 is free: the test probe makes under dev_mutex. *)
SlotFree == g_dev = NULL

(* Mutation of InUse: the fops have no owner. *)
NoOwner == FALSE

(* An open file, or an open in progress, holds a module reference.  The    *)
(* VFS takes it, because rumble_fops.owner is THIS_MODULE.                 *)
InUse == \E t \in Threads : tpc[t] # "closed"

Init ==
  /\ module = "unloaded" /\ g_dev = NULL /\ cdevs = {}
  /\ alloc = [d \in Devs |-> FALSE]
  /\ kref = [d \in Devs |-> 0]
  /\ unwound = {}
  /\ disconnected = [d \in Devs |-> FALSE]
  /\ in_buf = [d \in Devs |-> FALSE]
  /\ urb = [d \in Devs |-> "none"]
  /\ ring = [d \in Devs |-> <<>>]
  /\ stamp = [d \in Devs |-> 0]
  /\ read_wq = [d \in Devs |-> {}]
  /\ rumble_seq = [d \in Devs |-> 0]
  /\ tx_mutex = [d \in Devs |-> NULL]
  /\ ipc = [i \in Intfs |-> "unbound"]
  /\ ird = [i \in Intfs |-> NULL]
  /\ tpc = [t \in Threads |-> "closed"]
  /\ file = [t \in Threads |-> NULL]
  /\ nonblock = [t \in Threads |-> FALSE]
  /\ inp = [t \in Threads |-> 0]
  /\ half = [t \in Threads |-> NoLoad]
  /\ seqno = [t \in Threads |-> 0]
  /\ last = [t \in Threads |-> 0]
  /\ ready = [t \in Threads |-> FALSE]

-------------------------------------------------------------------------------
(* Module load and unload *)

(* A failure on the way (no major number, no class, no USB driver slot)    *)
(* unwinds what was done and leaves the module unloaded.                   *)
rumble_init ==
  /\ module = "unloaded"
  /\ module' = "live"
  /\ UNCHANGED <<g_dev, cdevs, devVars, intfVars, thrVars>>

(* rmmod is refused while the module is in use; once it is going, no new   *)
(* open gets a module reference and no new probe starts.                   *)
rumble_exit ==
  /\ module = "live"
  /\ ~InUse
  /\ module' = "going"
  /\ UNCHANGED <<g_dev, cdevs, devVars, intfVars, thrVars>>

(* usb_deregister returns when every interface is unbound; class_destroy   *)
(* and unregister_chrdev_region follow.                                    *)
rumble_exit_return ==
  /\ module = "going"
  /\ \A i \in Intfs : ipc[i] = "unbound"
  /\ module' = "unloaded"
  /\ UNCHANGED <<g_dev, cdevs, devVars, intfVars, thrVars>>

-------------------------------------------------------------------------------
(* rumble_probe *)

(* The interface matches and kzalloc succeeds.  (When one does not, probe  *)
(* returns and nothing has changed.)  The allocator never hands out an     *)
(* address a dangling file pointer still holds: what follows from such     *)
(* aliasing is not modelled.                                               *)
probe_alloc(i, d) ==
  /\ module = "live"
  /\ ipc[i] = "unbound"
  /\ ~alloc[d] /\ Holders(d) = {}
  /\ alloc' = [alloc EXCEPT ![d] = TRUE]
  /\ kref' = [kref EXCEPT ![d] = 1]
  /\ unwound' = unwound \ {d}
  /\ disconnected' = [disconnected EXCEPT ![d] = FALSE]
  /\ in_buf' = [in_buf EXCEPT ![d] = FALSE]
  /\ urb' = [urb EXCEPT ![d] = "none"]
  /\ ring' = [ring EXCEPT ![d] = <<>>]
  /\ stamp' = [stamp EXCEPT ![d] = 0]
  /\ read_wq' = [read_wq EXCEPT ![d] = {}]
  /\ rumble_seq' = [rumble_seq EXCEPT ![d] = 0]
  /\ tx_mutex' = [tx_mutex EXCEPT ![d] = NULL]
  /\ ird' = [ird EXCEPT ![i] = d]
  /\ ipc' = [ipc EXCEPT ![i] = "register"]
  /\ UNCHANGED <<modVars, thrVars>>

(* The region under dev_mutex, ending in g_dev = rd: from here on open()    *)
(* finds the device.                                                       *)
probe_register(i) ==
  /\ ipc[i] = "register"
  /\ SlotFree
  /\ g_dev' = ird[i]
  /\ cdevs' = cdevs \cup {ird[i]}
  /\ ipc' = [ipc EXCEPT ![i] = "alloc_buf"]
  /\ UNCHANGED <<module, devVars, ird, thrVars>>

probe_alloc_buf(i) ==
  /\ ipc[i] = "alloc_buf"
  /\ in_buf' = [in_buf EXCEPT ![ird[i]] = TRUE]
  /\ ipc' = [ipc EXCEPT ![i] = "alloc_urb"]
  /\ UNCHANGED <<modVars, memVars, sysVars, urb, ird, thrVars>>

probe_alloc_urb(i) ==
  /\ ipc[i] = "alloc_urb"
  /\ urb' = [urb EXCEPT ![ird[i]] = "idle"]
  /\ ipc' = [ipc EXCEPT ![i] = "submit"]
  /\ UNCHANGED <<modVars, memVars, sysVars, in_buf, ird, thrVars>>

probe_submit(i) ==
  /\ ipc[i] = "submit"
  /\ urb' = [urb EXCEPT ![ird[i]] = "flight"]
  /\ ipc' = [ipc EXCEPT ![i] = "set_intfdata"]
  /\ UNCHANGED <<modVars, memVars, sysVars, in_buf, ird, thrVars>>

(* The label each of these steps goes to when it fails: a controller is    *)
(* there already, cdev_add or device_create fails (and the cdev is deleted *)
(* again), memory is short, or the submission is refused.                  *)
ErrorLabel(s) ==
  CASE s = "register" -> "err_put_dev"
    [] s = "alloc_buf" -> "err_destroy_dev"
    [] s = "alloc_urb" -> "err_free_buf"
    [] s = "submit" -> "err_free_urb"

probe_goto_err(i) ==
  /\ ipc[i] \in {"register", "alloc_buf", "alloc_urb", "submit"}
  /\ ipc' = [ipc EXCEPT ![i] = ErrorLabel(@)]
  /\ UNCHANGED <<modVars, devVars, ird, thrVars>>

(* usb_set_intfdata and return 0; ird[i] now stands for the interface data *)
(* that disconnect reads back.                                             *)
probe_return(i) ==
  /\ ipc[i] = "set_intfdata"
  /\ ipc' = [ipc EXCEPT ![i] = "bound"]
  /\ UNCHANGED <<modVars, devVars, ird, thrVars>>

(* The error labels of probe, each falling through to the next. *)
err_free_urb(i) ==
  /\ ipc[i] = "err_free_urb"
  /\ urb' = [urb EXCEPT ![ird[i]] = usb_free_urb(@)]
  /\ ipc' = [ipc EXCEPT ![i] = "err_free_buf"]
  /\ UNCHANGED <<modVars, memVars, sysVars, in_buf, ird, thrVars>>

err_free_buf(i) ==
  /\ ipc[i] = "err_free_buf"
  /\ in_buf' = [in_buf EXCEPT ![ird[i]] = FALSE]
  /\ ipc' = [ipc EXCEPT ![i] = "err_destroy_dev"]
  /\ UNCHANGED <<modVars, memVars, sysVars, urb, ird, thrVars>>

err_destroy_dev(i) ==
  /\ ipc[i] = "err_destroy_dev"
  /\ g_dev' = NULL
  /\ cdevs' = cdevs \ {ird[i]}
  /\ ipc' = [ipc EXCEPT ![i] = "err_put_dev"]
  /\ UNCHANGED <<module, devVars, ird, thrVars>>

(* usb_put_dev and kfree, whatever the reference count is. *)
err_put_dev(i) ==
  /\ ipc[i] = "err_put_dev"
  /\ alloc' = [alloc EXCEPT ![ird[i]] = FALSE]
  /\ unwound' = unwound \cup {ird[i]}
  /\ ird' = [ird EXCEPT ![i] = NULL]
  /\ ipc' = [ipc EXCEPT ![i] = "unbound"]
  /\ UNCHANGED <<modVars, kref, sysVars, usbVars, thrVars>>

-------------------------------------------------------------------------------
(* rumble_disconnect *)

(* The USB core starts to unbind the interface: the controller was         *)
(* unplugged, or the module is being removed.  From now on it flushes the  *)
(* URBs of the interface.                                                  *)
usb_unbind(i) ==
  /\ ipc[i] = "bound"
  /\ ipc' = [ipc EXCEPT ![i] = "unbinding"]
  /\ UNCHANGED <<modVars, devVars, ird, thrVars>>

disconnect_mark(i) ==
  /\ ipc[i] = "unbinding"
  /\ disconnected' = [disconnected EXCEPT ![ird[i]] = TRUE]
  /\ ipc' = [ipc EXCEPT ![i] = "wake"]
  /\ UNCHANGED <<modVars, memVars, usbVars, ringVars, read_wq, txVars, ird,
                 thrVars>>

(* wake_up_interruptible; usb_kill_urb is entered. *)
disconnect_wake(i) ==
  /\ ipc[i] = "wake"
  /\ read_wq' = [read_wq EXCEPT ![ird[i]] = {}]
  /\ ipc' = [ipc EXCEPT ![i] = "killing"]
  /\ UNCHANGED <<modVars, memVars, disconnected, usbVars, ringVars, txVars,
                 ird, thrVars>>

(* Mutation of disconnect_killed: usb_unlink_urb, which does not wait. *)
disconnect_unlinked(i) ==
  /\ ipc[i] = "killing"
  /\ ipc' = [ipc EXCEPT ![i] = "destroy"]
  /\ UNCHANGED <<modVars, devVars, ird, thrVars>>

(* usb_kill_urb returns: the URB is idle and its handler has returned. *)
disconnect_killed(i) ==
  /\ ipc[i] = "killing"
  /\ urb[ird[i]] = "idle"
  /\ ipc' = [ipc EXCEPT ![i] = "destroy"]
  /\ UNCHANGED <<modVars, devVars, ird, thrVars>>

disconnect_destroy(i) ==
  /\ ipc[i] = "destroy"
  /\ g_dev' = NULL
  /\ cdevs' = cdevs \ {ird[i]}
  /\ ipc' = [ipc EXCEPT ![i] = "free"]
  /\ UNCHANGED <<module, devVars, ird, thrVars>>

disconnect_free(i) ==
  /\ ipc[i] = "free"
  /\ urb' = [urb EXCEPT ![ird[i]] = usb_free_urb(@)]
  /\ in_buf' = [in_buf EXCEPT ![ird[i]] = FALSE]
  /\ ipc' = [ipc EXCEPT ![i] = "put"]
  /\ UNCHANGED <<modVars, memVars, sysVars, ird, thrVars>>

disconnect_put(i) ==
  /\ ipc[i] = "put"
  /\ kref_put(ird[i])
  /\ ird' = [ird EXCEPT ![i] = NULL]
  /\ ipc' = [ipc EXCEPT ![i] = "unbound"]
  /\ UNCHANGED <<modVars, sysVars, usbVars, thrVars>>

-------------------------------------------------------------------------------
(* rumble_urb_complete *)

(* Status 0 and a full input report: the report goes into the ring under   *)
(* ring_lock, the oldest packet making room when the ring is full.         *)
urb_input(d) ==
  /\ urb[d] = "flight"
  /\ stamp[d] < MaxReports
  /\ stamp' = [stamp EXCEPT ![d] = @ + 1]
  /\ ring' = [ring EXCEPT ![d] = PutDroppingOldest(@, stamp[d] + 1, RingSize - 1)]
  /\ urb' = [urb EXCEPT ![d] = "wake"]
  /\ UNCHANGED <<modVars, memVars, disconnected, in_buf, read_wq, txVars,
                 intfVars, thrVars>>

(* Mutation of urb_wake: the handler wakes nobody. *)
urb_no_wake(d) ==
  /\ urb[d] = "wake"
  /\ urb' = [urb EXCEPT ![d] = "resubmit"]
  /\ UNCHANGED <<modVars, memVars, sysVars, in_buf, intfVars, thrVars>>

(* wake_up_interruptible(&rd->read_wq). *)
urb_wake(d) ==
  /\ urb[d] = "wake"
  /\ read_wq' = [read_wq EXCEPT ![d] = {}]
  /\ urb' = [urb EXCEPT ![d] = "resubmit"]
  /\ UNCHANGED <<modVars, memVars, disconnected, in_buf, ringVars, txVars,
                 intfVars, thrVars>>

(* A virtual-key report that asks for an acknowledgement: the handler      *)
(* calls usb_interrupt_msg, which sleeps until the transfer is done.       *)
urb_virtual_key(d) ==
  /\ urb[d] = "flight"
  /\ urb' = [urb EXCEPT ![d] = "ack"]
  /\ UNCHANGED <<modVars, memVars, sysVars, in_buf, intfVars, thrVars>>

urb_acked(d) ==
  /\ urb[d] = "ack"
  /\ urb' = [urb EXCEPT ![d] = "resubmit"]
  /\ UNCHANGED <<modVars, memVars, sysVars, in_buf, intfVars, thrVars>>

(* A transfer error, a short report or a report of another type. *)
urb_ignored(d) ==
  /\ urb[d] = "flight"
  /\ urb' = [urb EXCEPT ![d] = "resubmit"]
  /\ UNCHANGED <<modVars, memVars, sysVars, in_buf, intfVars, thrVars>>

(* Status -ENOENT, -ECONNRESET or -ESHUTDOWN, once the core is unbinding   *)
(* the interface: the handler returns and does not resubmit.               *)
urb_shutdown(d) ==
  /\ urb[d] = "flight"
  /\ \E i \in Owners(d) : ipc[i] \in {"unbinding", "wake", "killing"}
  /\ urb' = [urb EXCEPT ![d] = "idle"]
  /\ UNCHANGED <<modVars, memVars, sysVars, in_buf, intfVars, thrVars>>

(* usb_submit_urb may always fail, and fails for sure while usb_kill_urb   *)
(* rejects the URB.  The handler then only warns.                          *)
urb_resubmit(d) ==
  /\ urb[d] = "resubmit"
  /\ \/ /\ ~Rejected(d)
        /\ urb' = [urb EXCEPT ![d] = "flight"]
     \/ urb' = [urb EXCEPT ![d] = "idle"]
  /\ UNCHANGED <<modVars, memVars, sysVars, in_buf, intfVars, thrVars>>

-------------------------------------------------------------------------------
(* rumble_open, rumble_release *)

(* The VFS finds the cdev and takes a module reference. *)
open_lookup(t) ==
  /\ tpc[t] = "closed"
  /\ module = "live"
  /\ cdevs # {}
  /\ tpc' = [tpc EXCEPT ![t] = "opening"]
  /\ UNCHANGED <<modVars, devVars, intfVars, fileVars, callVars>>

(* rumble_open, all of it under dev_mutex: the file gets the published     *)
(* device, whichever cdev the lookup found.                                *)
rumble_open(t) ==
  /\ tpc[t] = "opening"
  /\ g_dev # NULL /\ ~disconnected[g_dev]
  /\ kref_get(g_dev)
  /\ file' = [file EXCEPT ![t] = g_dev]
  /\ \E nb \in BOOLEAN : nonblock' = [nonblock EXCEPT ![t] = nb]
  /\ tpc' = [tpc EXCEPT ![t] = "open"]
  /\ UNCHANGED <<modVars, alloc, unwound, sysVars, usbVars, intfVars, callVars>>

(* -ENODEV: the VFS drops the module reference again. *)
rumble_open_enodev(t) ==
  /\ tpc[t] = "opening"
  /\ g_dev = NULL \/ (g_dev # NULL /\ disconnected[g_dev])
  /\ tpc' = [tpc EXCEPT ![t] = "closed"]
  /\ UNCHANGED <<modVars, devVars, intfVars, fileVars, callVars>>

rumble_release(t) ==
  /\ tpc[t] = "open"
  /\ kref_put(file[t])
  /\ file' = [file EXCEPT ![t] = NULL]
  /\ tpc' = [tpc EXCEPT ![t] = "closed"]
  /\ nonblock' = [nonblock EXCEPT ![t] = FALSE]
  /\ last' = [last EXCEPT ![t] = 0]
  /\ ready' = [ready EXCEPT ![t] = FALSE]
  /\ UNCHANGED <<modVars, sysVars, usbVars, intfVars, inp, half, seqno>>

-------------------------------------------------------------------------------
(* rumble_read *)

read_begin(t) ==
  /\ tpc[t] = "open"
  /\ "read" \in Calls[t]
  /\ tpc' = [tpc EXCEPT ![t] = "r_get"]
  /\ UNCHANGED <<modVars, devVars, intfVars, fileVars, callVars>>

(* Mutation of ring_get: two readers read the same tail, as they could     *)
(* without ring_lock.                                                      *)
ring_peek(t) ==
  /\ inp' = [inp EXCEPT ![t] = Head(ring[file[t]])]
  /\ UNCHANGED ring

ring_get(t) ==
  /\ inp' = [inp EXCEPT ![t] = Head(ring[file[t]])]
  /\ ring' = [ring EXCEPT ![file[t]] = Tail(@)]

(* The region under ring_lock, when ring_get finds a packet. *)
read_get(t) ==
  /\ tpc[t] = "r_get"
  /\ ring[file[t]] # <<>>
  /\ ring_get(t)
  /\ ready' = [u \in Threads |-> ready[u] /\ file[u] # file[t]]
  /\ tpc' = [tpc EXCEPT ![t] = "r_copy"]
  /\ UNCHANGED <<modVars, memVars, disconnected, usbVars, stamp, read_wq,
                 txVars, intfVars, fileVars, half, seqno, last>>

read_get_empty(t) ==
  /\ tpc[t] = "r_get"
  /\ ring[file[t]] = <<>>
  /\ tpc' = [tpc EXCEPT ![t] = "r_check"]
  /\ UNCHANGED <<modVars, devVars, intfVars, fileVars, callVars>>

(* The ring was empty: -ENODEV, -EAGAIN, or wait. *)
read_check(t) ==
  /\ tpc[t] = "r_check"
  /\ tpc' = [tpc EXCEPT ![t] =
               IF disconnected[file[t]] \/ nonblock[t] THEN "open" ELSE "r_wait"]
  /\ UNCHANGED <<modVars, devVars, intfVars, fileVars, callVars>>

(* wait_event_interruptible queues the thread before it looks at the       *)
(* condition, so that a wake-up between the two is not missed.             *)
read_prepare(t) ==
  /\ tpc[t] = "r_wait"
  /\ read_wq' = [read_wq EXCEPT ![file[t]] = @ \cup {t}]
  /\ tpc' = [tpc EXCEPT ![t] = "r_prepared"]
  /\ UNCHANGED <<modVars, memVars, disconnected, usbVars, ringVars, txVars,
                 intfVars, fileVars, callVars>>

(* The first load of ring_empty. *)
read_load(t) ==
  /\ tpc[t] = "r_prepared"
  /\ \E l \in Loads(file[t]) : half' = [half EXCEPT ![t] = l]
  /\ tpc' = [tpc EXCEPT ![t] = "r_loaded"]
  /\ UNCHANGED <<modVars, devVars, intfVars, fileVars, inp, seqno, last, ready>>

(* The condition holds: leave the queue.  It does not: sleep, or return    *)
(* -ERESTARTSYS if a signal is pending.                                    *)
read_test(t) ==
  /\ tpc[t] = "r_loaded"
  /\ LET d == file[t] IN
       \/ /\ WaitCondition(t)
          /\ tpc' = [tpc EXCEPT ![t] = "r_woken"]
          /\ read_wq' = [read_wq EXCEPT ![d] = @ \ {t}]
       \/ /\ ~WaitCondition(t)
          /\ tpc' = [tpc EXCEPT ![t] = "r_asleep"]
          /\ UNCHANGED read_wq
       \/ /\ ~WaitCondition(t)
          /\ tpc' = [tpc EXCEPT ![t] = "open"]
          /\ read_wq' = [read_wq EXCEPT ![d] = @ \ {t}]
  /\ half' = [half EXCEPT ![t] = NoLoad]
  /\ UNCHANGED <<modVars, memVars, disconnected, usbVars, ringVars, txVars,
                 intfVars, fileVars, inp, seqno, last, ready>>

(* A wake-up took the thread off the queue: it looks again. *)
read_awake(t) ==
  /\ tpc[t] = "r_asleep"
  /\ t \notin read_wq[file[t]]
  /\ tpc' = [tpc EXCEPT ![t] = "r_wait"]
  /\ UNCHANGED <<modVars, devVars, intfVars, fileVars, callVars>>

(* So does a signal. *)
read_signal(t) ==
  /\ tpc[t] = "r_asleep"
  /\ read_wq' = [read_wq EXCEPT ![file[t]] = @ \ {t}]
  /\ tpc' = [tpc EXCEPT ![t] = "r_wait"]
  /\ UNCHANGED <<modVars, memVars, disconnected, usbVars, ringVars, txVars,
                 intfVars, fileVars, callVars>>

(* After the wait: -ENODEV if the device went, else try the ring again. *)
read_woken(t) ==
  /\ tpc[t] = "r_woken"
  /\ tpc' = [tpc EXCEPT ![t] = IF disconnected[file[t]] THEN "open" ELSE "r_get"]
  /\ UNCHANGED <<modVars, devVars, intfVars, fileVars, callVars>>

(* copy_to_user delivers the packet, or loses it with -EFAULT. *)
read_copy(t) ==
  /\ tpc[t] = "r_copy"
  /\ \/ last' = [last EXCEPT ![t] = inp[t]]
     \/ UNCHANGED last
  /\ inp' = [inp EXCEPT ![t] = 0]
  /\ tpc' = [tpc EXCEPT ![t] = "open"]
  /\ UNCHANGED <<modVars, devVars, intfVars, fileVars, half, seqno, ready>>

-------------------------------------------------------------------------------
(* rumble_poll, and the loop of poll(2) and select(2) around it *)

(* poll_wait queues the thread. *)
poll_begin(t) ==
  /\ tpc[t] = "open"
  /\ "poll" \in Calls[t]
  /\ read_wq' = [read_wq EXCEPT ![file[t]] = @ \cup {t}]
  /\ tpc' = [tpc EXCEPT ![t] = "p_queued"]
  /\ UNCHANGED <<modVars, memVars, disconnected, usbVars, ringVars, txVars,
                 intfVars, fileVars, callVars>>

(* The first load of ring_empty.  A packet taken from here on may be the   *)
(* one that poll goes on to report.                                        *)
poll_load(t) ==
  /\ tpc[t] = "p_queued"
  /\ \E l \in Loads(file[t]) : half' = [half EXCEPT ![t] = l]
  /\ ready' = [ready EXCEPT ![t] = TRUE]
  /\ tpc' = [tpc EXCEPT ![t] = "p_loaded"]
  /\ UNCHANGED <<modVars, devVars, intfVars, fileVars, inp, seqno, last>>

(* POLLIN returns to the program; an empty mask sleeps. *)
poll_test(t) ==
  /\ tpc[t] = "p_loaded"
  /\ LET d == file[t] IN
       \/ /\ PollIn(t)
          /\ read_wq' = [read_wq EXCEPT ![d] = @ \ {t}]
          /\ tpc' = [tpc EXCEPT ![t] = "open"]
          /\ UNCHANGED ready
       \/ /\ ~PollIn(t)
          /\ tpc' = [tpc EXCEPT ![t] = "p_asleep"]
          /\ ready' = [ready EXCEPT ![t] = FALSE]
          /\ UNCHANGED read_wq
  /\ half' = [half EXCEPT ![t] = NoLoad]
  /\ UNCHANGED <<modVars, memVars, disconnected, usbVars, ringVars, txVars,
                 intfVars, fileVars, inp, seqno, last>>

(* A wake-up makes poll call rumble_poll again, the thread still queued. *)
poll_awake(t) ==
  /\ tpc[t] = "p_asleep"
  /\ t \notin read_wq[file[t]]
  /\ read_wq' = [read_wq EXCEPT ![file[t]] = @ \cup {t}]
  /\ tpc' = [tpc EXCEPT ![t] = "p_queued"]
  /\ UNCHANGED <<modVars, memVars, disconnected, usbVars, ringVars, txVars,
                 intfVars, fileVars, callVars>>

(* The timeout of the call: it returns 0. *)
poll_timeout(t) ==
  /\ tpc[t] = "p_asleep"
  /\ read_wq' = [read_wq EXCEPT ![file[t]] = @ \ {t}]
  /\ tpc' = [tpc EXCEPT ![t] = "open"]
  /\ UNCHANGED <<modVars, memVars, disconnected, usbVars, ringVars, txVars,
                 intfVars, fileVars, callVars>>

-------------------------------------------------------------------------------
(* rumble_ioctl: RUMBLE_SET_MOTORS *)

(* The first check of disconnected passes, and pkt[1] = rd->rumble_seq++   *)
(* reads the counter.  Nothing protects it: the increment is a read and a  *)
(* later write, and two threads can be between the two.  (An early return  *)
(* of -ENODEV, -EFAULT or -ENOTTY changes nothing.)                        *)
ioctl_load_seq(t) ==
  /\ tpc[t] = "open"
  /\ "ioctl" \in Calls[t]
  /\ ~disconnected[file[t]]
  /\ seqno' = [seqno EXCEPT ![t] = rumble_seq[file[t]]]
  /\ tpc' = [tpc EXCEPT ![t] = "i_store"]
  /\ UNCHANGED <<modVars, devVars, intfVars, fileVars, inp, half, last, ready>>

ioctl_store_seq(t) ==
  /\ tpc[t] = "i_store"
  /\ rumble_seq' = [rumble_seq EXCEPT ![file[t]] = (seqno[t] + 1) % SeqMod]
  /\ tpc' = [tpc EXCEPT ![t] = "i_lock"]
  /\ UNCHANGED <<modVars, memVars, disconnected, usbVars, ringVars, read_wq,
                 tx_mutex, intfVars, fileVars, callVars>>

ioctl_lock(t) ==
  /\ tpc[t] = "i_lock"
  /\ tx_mutex[file[t]] = NULL
  /\ tx_mutex' = [tx_mutex EXCEPT ![file[t]] = t]
  /\ tpc' = [tpc EXCEPT ![t] = "i_check"]
  /\ UNCHANGED <<modVars, memVars, disconnected, usbVars, ringVars, read_wq,
                 rumble_seq, intfVars, fileVars, callVars>>

(* Mutation of ioctl_check: -ENODEV returns with tx_mutex held. *)
ioctl_check_keeps(t) ==
  /\ tpc[t] = "i_check"
  /\ tpc' = [tpc EXCEPT ![t] =
               IF disconnected[file[t]] THEN "open" ELSE "i_tx"]
  /\ UNCHANGED <<modVars, devVars, intfVars, fileVars, callVars>>

(* The second check, under tx_mutex: -ENODEV unlocks, else transmit. *)
ioctl_check(t) ==
  /\ tpc[t] = "i_check"
  /\ tpc' = [tpc EXCEPT ![t] =
               IF disconnected[file[t]] THEN "i_unlock" ELSE "i_tx"]
  /\ UNCHANGED <<modVars, devVars, intfVars, fileVars, callVars>>

(* usb_interrupt_msg returns: done, an error, or its 200 ms are over. *)
ioctl_sent(t) ==
  /\ tpc[t] = "i_tx"
  /\ tpc' = [tpc EXCEPT ![t] = "i_unlock"]
  /\ UNCHANGED <<modVars, devVars, intfVars, fileVars, callVars>>

ioctl_unlock(t) ==
  /\ tpc[t] = "i_unlock"
  /\ tx_mutex' = [tx_mutex EXCEPT ![file[t]] = NULL]
  /\ seqno' = [seqno EXCEPT ![t] = 0]
  /\ tpc' = [tpc EXCEPT ![t] = "open"]
  /\ UNCHANGED <<modVars, memVars, disconnected, usbVars, ringVars, read_wq,
                 rumble_seq, intfVars, fileVars, inp, half, last, ready>>

-------------------------------------------------------------------------------
(* The probe and disconnect code of interface i that is under way. *)
ProbeStep(i) ==
  \/ probe_register(i) \/ probe_alloc_buf(i) \/ probe_alloc_urb(i)
  \/ probe_submit(i) \/ probe_return(i) \/ probe_goto_err(i)
  \/ err_free_urb(i) \/ err_free_buf(i) \/ err_destroy_dev(i) \/ err_put_dev(i)

DisconnectStep(i) ==
  \/ disconnect_mark(i) \/ disconnect_wake(i) \/ disconnect_killed(i)
  \/ disconnect_destroy(i) \/ disconnect_free(i) \/ disconnect_put(i)

(* The completion handler of d, once it runs. *)
HandlerStep(d) == urb_wake(d) \/ urb_acked(d) \/ urb_resubmit(d)

(* What completes the URB of d. *)
CompletionStep(d) ==
  urb_input(d) \/ urb_virtual_key(d) \/ urb_ignored(d) \/ urb_shutdown(d)

OpenStep(t) == rumble_open(t) \/ rumble_open_enodev(t)

ReadStep(t) ==
  \/ read_get(t) \/ read_get_empty(t) \/ read_check(t) \/ read_prepare(t)
  \/ read_load(t) \/ read_test(t) \/ read_awake(t) \/ read_woken(t)
  \/ read_copy(t)

PollStep(t) == poll_load(t) \/ poll_test(t) \/ poll_awake(t)

IoctlStep(t) ==
  \/ ioctl_store_seq(t) \/ ioctl_lock(t) \/ ioctl_check(t) \/ ioctl_sent(t)
  \/ ioctl_unlock(t)

(* What the program decides, or what interrupts it. *)
CallStep(t) ==
  \/ open_lookup(t) \/ rumble_release(t) \/ read_begin(t) \/ poll_begin(t)
  \/ ioctl_load_seq(t) \/ read_signal(t) \/ poll_timeout(t)

Next ==
  \/ rumble_init \/ rumble_exit \/ rumble_exit_return
  \/ \E i \in Intfs : \/ \E d \in Devs : probe_alloc(i, d)
                      \/ usb_unbind(i) \/ ProbeStep(i) \/ DisconnectStep(i)
  \/ \E d \in Devs : HandlerStep(d) \/ CompletionStep(d)
  \/ \E t \in Threads : \/ OpenStep(t) \/ ReadStep(t) \/ PollStep(t)
                        \/ IoctlStep(t) \/ CallStep(t)

Spec == Init /\ [][Next]_vars

(* What the kernel guarantees: the USB core finishes a probe or disconnect *)
(* it has begun, a running handler returns, and flushing an interface      *)
(* completes its URB; a thread inside the driver runs on when nothing      *)
(* blocks it, and a mutex is handed to a waiter in the end.  Nothing       *)
(* forces a controller, a program or a signal to do anything.              *)
Fairness ==
  /\ WF_vars(rumble_exit_return)
  /\ \A i \in Intfs : /\ WF_vars(ProbeStep(i))
                      /\ WF_vars(DisconnectStep(i))
                      /\ WF_vars(module = "going" /\ usb_unbind(i))
  /\ \A d \in Devs : WF_vars(HandlerStep(d)) /\ WF_vars(urb_shutdown(d))
  /\ \A t \in Threads : /\ WF_vars(OpenStep(t))
                        /\ WF_vars(ReadStep(t))
                        /\ WF_vars(PollStep(t))
                        /\ WF_vars(IoctlStep(t))
                        /\ SF_vars(ioctl_lock(t))

FairSpec == Spec /\ Fairness

-------------------------------------------------------------------------------
(* Properties *)

(* Every variable has its type; kref never goes negative. *)
TypeOK ==
  /\ module \in {"unloaded", "live", "going"}
  /\ g_dev \in Devs \cup {NULL}
  /\ cdevs \subseteq Devs
  /\ alloc \in [Devs -> BOOLEAN]
  /\ kref \in [Devs -> Nat]
  /\ unwound \subseteq Devs
  /\ disconnected \in [Devs -> BOOLEAN]
  /\ in_buf \in [Devs -> BOOLEAN]
  /\ urb \in [Devs -> UrbStates]
  /\ ring \in [Devs -> Seq(Nat)]
  /\ stamp \in [Devs -> Nat]
  /\ read_wq \in [Devs -> SUBSET Threads]
  /\ rumble_seq \in [Devs -> 0 .. SeqMod - 1]
  /\ tx_mutex \in [Devs -> Threads \cup {NULL}]
  /\ ipc \in [Intfs -> IntfStates]
  /\ ird \in [Intfs -> Devs \cup {NULL}]
  /\ tpc \in [Threads -> ThreadStates]
  /\ file \in [Threads -> Devs \cup {NULL}]
  /\ nonblock \in [Threads -> BOOLEAN]
  /\ inp \in [Threads -> Nat]
  /\ half \in [Threads -> LoadedIndex]
  /\ seqno \in [Threads -> 0 .. SeqMod - 1]
  /\ last \in [Threads -> Nat]
  /\ ready \in [Threads -> BOOLEAN]

(* The reference count is exact: one reference for the interface from      *)
(* kref_init on (the one the error path of probe never gives back) and one *)
(* per open file.  The object lives exactly as long as somebody refers to  *)
(* it, unless that error path freed it: nothing leaks, nothing is freed    *)
(* twice (rumble.c:102-103, 352, 371, 753).                                *)
KrefAccounts ==
  \A d \in Devs :
    /\ kref[d] = Cardinality(Holders(d))
                 + (IF d \in unwound THEN 1 ELSE Cardinality(Owners(d)))
    /\ alloc[d] <=> kref[d] > 0 /\ d \notin unwound

(* An open file never refers to freed memory, except after the error path  *)
(* of a probe that had already published the device (rumble.c:321-326).    *)
FileKeepsDevice ==
  \A t \in Threads :
    file[t] # NULL => alloc[file[t]] \/ file[t] \in unwound

(* An open file never refers to freed memory: what the comment on struct   *)
(* rumble_dev says of the kref (rumble.c:102-103).                         *)
NoDanglingFile == \A t \in Threads : file[t] # NULL => alloc[file[t]]

(* A file that is closed leaves its device allocated.  The VFS refers to   *)
(* the cdev of an open file, drops that reference only after ->release has *)
(* returned, and the cdev lies in struct rumble_dev (rumble.c:111): "kref  *)
(* holds memory until close" (FIXES.md:91) is not long enough when the     *)
(* kref_put of rumble_release is the last one.  The object that the error  *)
(* path of probe has freed under an open file is another matter.           *)
CdevOutlivesFile ==
  [][\A t \in Threads :
       (file[t] \in Devs \ unwound /\ file'[t] = NULL) => alloc'[file[t]]]_vars

(* Only one controller is ever published, and g_dev is exactly that one:   *)
(* a disconnect or a failing probe never clears the slot of another device *)
(* and never leaves a registered cdev behind (rumble.c:618-651, 740-744).  *)
OneController ==
  /\ cdevs = {g_dev} \ {NULL}
  /\ \A d \in cdevs : alloc[d]

(* Whatever the URB or its handler touches exists: the object, the         *)
(* transfer buffer and the URB are freed only after usb_kill_urb           *)
(* (rumble.c:737, 747-753).                                                *)
StreamMemory ==
  \A d \in Devs :
    urb[d] \in {"flight", "wake", "ack", "resubmit"} => alloc[d] /\ in_buf[d]

(* After rumble_exit, g_dev is NULL and everything per device is freed     *)
(* (rumble.c:820-823), whatever probes, disconnects and opens it raced.    *)
ExitFreesAll ==
  module = "unloaded" =>
    /\ g_dev = NULL /\ cdevs = {}
    /\ \A d \in Devs : ~alloc[d] /\ ~in_buf[d] /\ urb[d] = "none"

(* A thread asleep in read or poll on the wait queue has missed nothing:   *)
(* if there is a packet or the device is gone, the wake-up is on its way   *)
(* (rumble.c:284-286, 415, 440-442, 733-734).                              *)
NoLostWakeup ==
  \A t \in Threads :
    (tpc[t] \in {"r_asleep", "p_asleep"} /\ t \in read_wq[file[t]]) =>
      /\ ring[file[t]] # <<>> => urb[file[t]] = "wake"
                               \/ \E i \in Owners(file[t]) : ipc[i] = "wake"
      /\ disconnected[file[t]] => \E i \in Owners(file[t]) : ipc[i] = "wake"

(* The ring holds the newest reports, without a gap: an overflow loses     *)
(* only packets older than everything a reader can still get (rumble.c:    *)
(* 170-181).                                                               *)
RingIsNewest ==
  \A d \in Devs :
    ring[d] = [k \in 1 .. Len(ring[d]) |-> stamp[d] - Len(ring[d]) + k]

(* No packet is delivered twice, to one program or to two, and each        *)
(* program sees timestamps that only grow (rumble.c:397-427).              *)
DeliveredOnce ==
  /\ \A t \in Threads :
       inp[t] # 0 => /\ last[t] < inp[t]
                     /\ inp[t] <= stamp[file[t]] - Len(ring[file[t]])
  /\ \A t, u \in Threads :
       (t # u /\ file[t] = file[u] /\ inp[t] # 0) => inp[t] # inp[u]

(* After poll has said POLLIN, a read finds a packet or the disconnect, as *)
(* long as no other program has taken a packet since (rumble.c:398-412,    *)
(* 442).                                                                   *)
PollThenRead ==
  \A t \in Threads :
    (tpc[t] = "r_check" /\ ready[t]) => disconnected[file[t]]

(* A disconnect releases every reader that is blocked, or about to block   *)
(* (rumble.c:719, 733-734).                                                *)
ReadersReleased ==
  \A t \in Threads :
    (tpc[t] \in ReadStates \cup PollStates /\ disconnected[file[t]])
      ~> (tpc[t] = "open")

(* An unplug is carried through: usb_kill_urb comes back although the      *)
(* handler resubmits the URB each time it runs (rumble.c:308-311, 737).    *)
DisconnectCompletes ==
  \A i \in Intfs : (ipc[i] \in DisconnectStates) ~> (ipc[i] = "unbound")

(* Each RUMBLE_SET_MOTORS call returns, also when the device goes away     *)
(* while threads wait for tx_mutex (rumble.c:511-521).                     *)
IoctlReturns ==
  \A t \in Threads : (tpc[t] \in IoctlStates) ~> (tpc[t] = "open")
===============================================================================
