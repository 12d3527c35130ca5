# rumble: a verification project in TLA+

`rumble` is a Linux kernel driver for the wired Xbox 1708 controller
(`driver/rumble.c`, `driver/rumble.h`), and four programs that use its device
node `/dev/rumble0`: the dashboard `rumble_dash`, the ROS 2 node
`rumble_teleop`, the mouse emulation `rumble_mouse.py` and the small tool
`test_read.c`. This directory models the concurrent core of that system,
model-checks it with TLC, and proves every safety property that holds in it with
TLAPS. Paths below are relative to the repository.

## 1. Inventory

### The driver, `driver/rumble.c`

*State.* `g_dev` (the one published device) under `dev_mutex`; per device a
`struct rumble_dev`: a kref, the `disconnected` flag (atomic), the transfer
buffer and the URB, a ring of `RING_BUF_SIZE` packets with `r_head` and `r_tail`
under `ring_lock`, the wait queue `read_wq`, the byte `rumble_seq`, the mutex
`tx_mutex`; per open file a pointer to the device and a reference to it.

*Operations.* Module init and exit; `rumble_probe` with its chain of error
labels; `rumble_disconnect`; the completion handler `rumble_urb_complete`,
which decodes a report, puts it into the ring, wakes readers and resubmits its
own URB, or acknowledges a Guide-button report; `open`, `release`, `read`,
`poll` and the `RUMBLE_SET_MOTORS` ioctl.

*Who runs when.* The USB core calls probe and disconnect of one interface one
after the other, of two interfaces side by side. The handler runs in interrupt
context. Every program thread is inside its own system call. They meet in
`g_dev`, the kref, the ring, the wait queue, the URB and `tx_mutex`.

*What is hard.* Lifetime: the object must outlive open files, the buffer and the
URB must outlive a handler that resubmits itself, and probe publishes the device
before it is complete. Wake-ups: a packet or an unplug can come between the
reader's test and its sleep, and that test (`ring_empty`) reads two indices
without the lock. Liveness: an unplug must end and must release every reader.

*Correct means:* the reference count is exact; no file, URB or handler touches
freed memory; one controller is published at a time; unload leaves nothing; no
wake-up is lost; the ring holds the newest packets and delivers each once;
blocked calls return after an unplug; motor commands return; what a program reads
is what the controller sent.

### The dashboard, `rumble_dash/rumble_dash`

*State.* A bounded `queue.Queue`, a stop event, the `State` object (`store.py`:
connected, the last sample, timing statistics, the recording of the circularity
panel, traces), and the tags of the rumble panel (its pulse thread and where
that thread leaves its result).

*Operations.* The reader thread (`reader.py`) opens, polls, reads and reopens
the device and pushes `connected`, `disconnected`, `sample` and `error` events
with `_drop_push`, which drops the oldest entry when the queue is full. The
hotplug thread (`hotplug.py`, only with pyudev) puts its own events into the
same queue and blocks when it is full. The UI thread (`ui/app.py`) drains the
queue into `State` once per frame and updates the panels from it. A further
thread, DearPyGui's, runs the callbacks: the rumble panel's Send and Stop write
to the device themselves, Pulse starts a thread that sends a command, sleeps and
sends zero, and the circularity panel's write `State`.

*What is hard.* `_drop_push` is up to three calls on the queue, with two other
threads running between them; an overflow may drop an announcement that nothing
repeats; the callbacks share `State` and the tags with the UI thread and take no
lock; pulses overlap each other, Send and Stop, each through a file of its own;
another program can take the packet poll has reported; the reader must stop
although nobody drains any more.

*Correct means:* the queue keeps the newest events in order; the status strip
shows what is true of the controller; closing the window stops the reader; the
reader finds a controller that is there; statistics are those of one connection;
Reset leaves an empty plot; pulses stop the motors and are reported.

### The other programs

* **Teleoperation node** (`ros2/.../rumble_teleop_node.py`): a reader thread
  that publishes `Twist`, an odometry callback that starts haptic threads, and
  shutdown. Hard: `_fd` is shared without a lock; the rate limit may drop the
  last packet; the shutdown's zero velocity may be overtaken. Correct: the robot
  stops on disconnect and on shutdown, the motors stop after a pulse.
* **Mouse** (`mouse/rumble_mouse.py`): a loop with fixed ticks that keeps the
  newest packet, the held buttons and fractional residues. Correct: every press
  is released, no movement is lost to rounding.
* **Packet layouts** (`rumble.h`, `abi.py`, `buttons.py`, the node, the mouse):
  each program repeats the format string, the button bits and the ioctl number
  it needs, with scales and dead zones of its own. Correct: all of them read the
  same packet the same way.
* **test_read.c:** one thread that polls the device and the keyboard, prints what
  it reads and, on a key, runs the motors for half a second. It shares no state;
  what it asks of the device any thread of the driver model may ask.
* Theme, layout, build files, generated `rumble.mod.c`: nothing to check.

`PROJECT.json` lists all hazards with their lines and, for each, the property
that covers it or why none does.

## 2. Modules

| module | models | relation |
| --- | --- | --- |
| `BoundedQueue` | the put that drops the oldest entry | operators |
| `DropOldestQueue` | abstract specification of the ring: a bounded FIFO | refined by `RumbleRing` |
| `RumbleRing` | `ring_put`, `ring_get`: the array, `r_head`, `r_tail`, the masks | implements `DropOldestQueue` |
| `PacketFormat` | the formats and scales of the driver and its programs | operators |
| `PacketPath` | one packet from the transfer buffer to the programs | composes `RumbleRing`, the decoding and the unpacking |
| `RumbleDriver` | everything of `rumble.c` that runs concurrently | uses `BoundedQueue` |
| `RumbleDriverProofs`, `RumbleStreamProofs` | theorems about `RumbleDriver`: its life cycle; its packets and wake-ups | extend it, the second the first |
| `BoundedQueueProofs` | lemmas about sequences, bounded queues and induction over intervals | extends `BoundedQueue` |
| `PacketPathProofs` | theorems about the ring, the packet path and the formats | extends `PacketPath` |
| `DashPipeline` | reader, hotplug and UI thread of the dashboard, and the queue | sees the driver through open, poll and read |
| `DashState` | `State`: `apply`, the timing statistics, the recording | actions |
| `DashWindow` | UI thread, callbacks, pulse threads, motors | extends `DashState`, uses `PacketFormat` |
| `TeleopNode` | reader, haptic and main thread of the ROS 2 node | the same, and the motor command |
| `RumbleMouse` | start-up, loop and end of the mouse emulation | the same, without poll |
| `DashPipelineProofs`, `DashWindowProofs`, `TeleopNodeProofs`, `RumbleMouseProofs` | theorems about these four | each extends its module |
| `MC...` | instances for TLC | |

### `RumbleRing` and `DropOldestQueue`

The ring at the level of its slots: one slot always stays free, so head equal to
tail means empty. `RingIsQueue` is the refinement: mapped to the sequence of its
live slots the ring is a FIFO of `RING_BUF_SIZE - 1` packets that loses its
oldest one on overflow. This is what lets `RumbleDriver` keep the ring as a
sequence; the two indices that its unlocked readers see are computed from the
packets put and the packets kept (`r_head`, `r_tail`). It is checked in
`packet_path`, where what goes through the ring are decoded packets, and proved
for every ring size (`RingCorrect`, `PathRingCorrect`).

### `PacketFormat` and `PacketPath`

A packet is its bytes. `PacketFormat` has the layout of `struct rumble_input`
(`StructBytes`) and the format strings that take it apart again (`Format`,
`unpack`), one per program although the three are equal, so that an edit of one
shows; the button bits, which the driver, `abi.py`, `buttons.py` and the mouse
each have for themselves; the ioctl number computed the three ways the code
computes it; the dead zones and the scale of a motor command. Fractions are
numerators over a fixed denominator.

`PacketPath` sends transfers through the handler. A transfer may be shorter than
a report, may carry an error, may be another kind of message; it leaves the rest
of the buffer as it was, and the buffer starts with whatever
`usb_alloc_coherent` returned. It may also be longer than a report, up to
`XBOX_PKT_SIZE`; of the buffer only the first `BufSize` bytes are kept, because
no one looks at the others. `is_input` is the handler's early returns. A
transfer and its completion are one step, because the URB is submitted again
only after the handler is done with the buffer; what interleaves with that is
`RumbleDriver`'s subject. `GipByte` and `FrameBytes` are the controller's side.
`sent` is a history: the reports that are still to be read.

### `RumbleDriver`

Each interface has a program counter `ipc` through probe, bound and disconnect
and its local `rd` (`ird`); each device address has the fields of the structure,
and `urb`, where the URB or its handler is; each thread has a program counter
`tpc` through the system calls of its open file. The names of the actions are
those of the functions, with one action per step that others can see:

* A region under `dev_mutex` or `ring_lock` is one step: nothing it touches is
  reached without that lock, except the indices of the ring (next item) and the
  atomic flag.
* `ring_empty` in `read` and `poll` runs without `ring_lock`. Its two loads are
  two steps, in either order (`read_load`/`read_test`, `poll_load`/`poll_test`).
  A put into a full ring moves both indices in between, so a full ring can look
  empty to a reader about to sleep.
* `wait_event_interruptible` is queueing, testing, sleeping and waking, in that
  order; a signal can end the sleep. `poll` has its timeout.
* `rumble_seq++` is a load and a store, because no lock protects it.
* Each label of probe's error path is a step, and opens run in between.
* The USB core: from the moment it unbinds an interface, its URBs may complete
  with `-ESHUTDOWN`; while `usb_kill_urb` runs, a resubmission fails; and it
  returns only when the URB is idle and its handler has returned.
* The VFS: `cdev_del` unpublishes, but an open that has found the cdev goes on;
  an open file pins the module.

A packet is the number of its report. Over-approximations, all harmless to what
is shown: `usb_submit_urb` may fail at any time, and may succeed while the core
unbinds until `usb_kill_urb` rejects it; any thread may get any signal. Three
simplifications: one open file per thread; a step on a structure that was freed
too early goes on as if the memory were intact (`NoDanglingFile` reports that it
happened); and the allocator does not hand out an address a dangling file still
holds. Each keeps the model from inventing outcomes of undefined behaviour.

### `DashPipeline`

The three calls of `_drop_push` are `push_put`, `push_drop` and `push_reput`;
`push` and `return` enter and leave it. `_reader_loop` is one action per
blocking call and branch; `after` is where it goes on after a push. Four
environment actions stand for the driver and the user: `plug`, `unplug`,
`packet` and `packet_taken`, the last for another program reading from the ring
that all open files share. A file whose device is gone keeps the packets that
were unread (`left`), because the driver delivers them before `-ENODEV`. The
branches for end of file, a short read and a failed parse cannot be reached with
this driver, which returns whole packets or an error. Of `State` this model keeps
`connected` and whether there is a sample; the rest of it is in `DashState`.
Events carry an id, counted modulo `Ids`, and a mark when the one before was
lost, both for the properties only.

### `DashState` and `DashWindow`

`DashState` has an action for each part of `State.apply` and of the circularity
callbacks that another thread cannot disturb. An interval is the pair of samples
it lies between, and `stats` are the intervals that rate, mean and jitter were
last computed from, so `_update_timing` is exact but for the division. A sample
is its number modulo `Ids` and the connection it came in.

`DashWindow` has the threads. The UI thread (`upc`) applies an event (any event:
the queue and what it may lose are `DashPipeline`'s), where a sample has a step
before and one after the test of `circ_active`; and it polls the pulse, where
reading the result and the two `pop`s are steps. A frame that finds nothing to
report changes nothing and is left out. The callback thread (`cpc`) runs one
callback at a time: sending, the four stores of `_on_pulse`, the two of
`_reset`. A pulse thread runs the commands of `_pulse`, and `send_open`,
`send_ioctl`, `send_ioctl_fails` are `_send_motors` in any thread. The motors
take the scaled percentages (`intensity`); a failing transfer may or may not have
reached them; an unplug stops them and fails the ioctl that is under way.
`failed` is a history: the motors run and the last command failed. Any command
that gets through ends it, so that one failure excuses no later mistake. A
pulse has an id that is used again when no tag names it; which free one a click
takes makes no difference. A text in the panel is `Pulsing`, a report, or
nothing. `want = Zero` tells the second command of a pulse from the first:
`_on_pulse` replaces a pulse of zero by 50 and 50. Daemon threads end where they
are when the window closes (`Running`). `focus` bounds the model: in one
behaviour the user works with the rumble panel, or with the circularity panel
while events arrive; the two share no variable.

### `TeleopNode`

`pc` holds where the reader and the main thread are, `hpc` the same for the
haptic threads. `_close_device` is called by both the reader and shutdown, so its
three steps (`close_fd`, `close_forget`, `close_halt`) take the actor as their
parameter; between `os.close` and `_fd = -1` a haptic thread can use the number
of a closed file. A velocity is that of a stick at rest or pushed; `cmd` is the
last one published. `recent` says that the 50 ms of the rate limit are not over.
A motor command reaches the controller (`haptic_ioctl`), finds no file or no
controller, or fails although the controller is there (`haptic_ioctl_fails`:
the transfer's error or its timeout, and then the command may have taken effect
or not). Every failure is an exception that ends the haptic thread, before its
sleep or with its stop command not carried out. `failed` is the history of
`DashWindow`. Left out: the collision heuristic and the cooldown of two seconds
(a collision may be seen at any time, so pulses may overlap). One assumption about time is made:
no step of the reader but its sleep takes the two seconds that shutdown waits
for it. Without it nothing keeps a late publication from following the final
zero velocity: `destroy_node` does not look whether the join has timed out.

### `RumbleMouse`

One thread, and three things that happen to it: packets, the clock and a signal,
which the interpreter delivers between any two steps. A tick takes the newest
packet that was drained, moves by whole pixels and keeps the rest, and presses
and releases what changed since the last tick. One axis stands for pointer and
wheel in both directions, which the code treats alike; displacements are
integers in fractions of a pixel. The mapper never reopens, so only the
device it has open matters.

## 3. Runs

| run | instance | states | shows |
| --- | --- | --- | --- |
| `packet_path` | a ring of 4, 8 kinds of transfers, 4 reports | 115 thousand | `PathTypeOK`, `SampleFaithful`, `ClientsAgree`, `RingIsQueue` (refinement) |
| `driver_lifecycle` | 2 interfaces, 3 addresses, 2 files, no packets | 14 thousand, with symmetry | `TypeOK`, `KrefAccounts`, `FileKeepsDevice`, `OneController`, `ExitFreesAll` |
| `driver_stream` | 1 controller, 4 reports, a ring of 3, 2 readers of which one polls | 2.8 million | `StreamMemory`, `NoLostWakeup`, `RingIsNewest`, `DeliveredOnce`, `PollThenRead` |
| `driver_live` | 1 controller, 1 report, reads, polls and motor commands | 73 thousand | `ReadersReleased`, `DisconnectCompletes`, `IoctlReturns` |
| `dash_pipeline` | queue of 2, hotplug on, 1 unread packet | 825 thousand | `DashTypeOK`, `QueueIsNewest`, `StatusCatchesUp`, `SampleShown`, `ReaderStops`, `Reconnects` |
| `dash_window` | 2 pulse threads, 2 slider positions, histories of 2 | 447 thousand | `WindowTypeOK`, `IntervalsOfConnection`, `ResetHolds`, `MotorsHaveHolder`, `PulseReported` |
| `teleop` | 1 unread packet, 2 haptic threads | 114 thousand | `TeleopTypeOK`, `ShutdownStopsRobot`, `DisconnectedRobotStands`, `MotorsHaveOwner`, `UnplugStopsRobot`, `Reconnects`, `PulseIsTimed` |
| `mouse` | 2 unread packets, 1 button, a pixel of 3 units | 193 thousand | `MouseTypeOK`, `NothingHeldAtExit`, `MovesWithStick`, `ButtonsReleased`, `MapperEnds` |
| `probe_unwind`, `cdev_freed`, `status_stale`, `stick_stale` | the smallest that shows it | | the findings of section 5 |

*Why the bounds are enough.* A ring of four wraps, overflows and mixes decoded
packets with the zeroed slots. Its transfers are four whole reports, in which each
button has a pattern of its own and the twenty-four axis and trigger values are
the edges of the types, the bytes and the dead zones, one of them with more bytes
behind it; a report one byte short;
one that overflowed; a virtual key; and another message of a report's length.
What is a function of one number is checked over all of its values when
`MCPacketPath` starts (`IntensityScales`, `AxesMonotone`, `MaskIsRemainder`). Two
interfaces are needed for a second controller
or a quick replug, three addresses let an old structure live on under an open
file while two others are probed, and two files let one reference outlive
another. A ring of three that receives four reports overflows, with two readers
to race for what is left; the wrap of the indices happens at report four. With
one report and two threads every wait, wake and lock handover of the liveness
run takes place. A queue of two is the smallest in which an entry can be dropped
from before another one and an event of the hotplug thread can slip in between
the two puts; a larger one only makes these rarer. In the
window two pulses overlap each other and a Send or Stop; two intervals are the
fewest with statistics and the fewest that follow on each other, and with three
ids the newest sample differs from both ends of the interval before. In the
teleoperation node one
unread packet is enough for the reader to be behind its controller, and two
haptic threads are enough for pulses to overlap. In the mouse two unread packets
make the difference between the oldest and the newest, and the displacements
-2, 0 and 4 at three units a pixel leave residues of both signs. `MaxReports`,
`Calls`, `MaxAvail`, `Ids`, `MaxUnread`, `Pulses`, `Settings` and the variable
`focus` are the only bounds; each is named. Deadlock is checked in every run but
`mouse` and `dash_window`, whose programs end.

*Fairness.* In the driver: the USB core carries through a probe or disconnect it
has started, a running handler returns, the core flushes the URB of an interface
it unbinds, a runnable thread runs, and a mutex is handed to a waiter in the
end (`SF` of `ioctl_lock`: Linux mutexes hand over to a starving waiter).
Nothing is assumed of the controller, the user, a program's decision to make a
call, or a signal. In the dashboard's pipeline only the reader thread is fair: the
interpreter gives each runnable thread its turn and the reader blocks only with
a timeout. No fairness of the UI, the hotplug thread or the device is assumed.
In its window the UI thread, the callback thread and every pulse get their turn
(a command takes at most the driver's 200 ms, a sleep ends); the user, the
reader, the controller and the closing of the window are free.
In the teleoperation node every thread gets its turn and the rate limit's
interval passes; the user, the odometry and the controller are free. In the
mouse the program runs and the clock ticks; and draining ends
(`[]<>(pc # "drain")`), which the code itself does not see to: it holds because
packets come every few milliseconds and a read takes microseconds.

Every property has a mutant in `PROJECT.json`: a plausible error in the code
under which that property fails in the same run. The mutated forms stand next to
the definitions they replace, marked "Mutation of".

## 4. Proofs

Every invariant and every action property of the passing runs is a theorem, for
all values of the constants that the modules' assumptions admit, and so is the
refinement of the ring. `PROJECT.json` lists the theorems; this section gives,
module by module, the inductive invariant each group rests on.

**`RumbleDriverProofs`: the life cycle**, for every set of interfaces and
addresses, every finite set of threads, every ring size above one and every
`SeqMod` and bound (`DriverAssumption`): `TypeOK` (`TypeCorrect`),
`KrefAccounts` (`KrefCorrect`), `FileKeepsDevice` (`FileSafe`), `OneController`
(`OneControllerCorrect`), `StreamMemory` (`StreamMemorySafe`), `ExitFreesAll`
(`ExitSafe`). None of these is inductive alone. `KrefAccounts` needs to know that
two interfaces never have the same `rd` and that a file is open exactly when it
has a device (`References`); that an interface which tears down clears its own
`g_dev` and no other needs that the published device belongs to the interface
that is between publishing and unpublishing (`Published`); that the handler's
buffer exists needs which resources exist at which program counter and that the
URB is idle outside the stream (`Resources`); that unload leaves nothing needs
that a module which is going has no user and an unloaded one no interface
(`Unloading`). `LifecycleInv` is their conjunction with `TypeOK`, and
`LifecycleCorrect` proves it, with one lemma per conjunct and in each one step
per action. The counting in `KrefStep` rests on the library's facts about finite
cardinality.

**`RumbleStreamProofs`: packets and wake-ups**, under the same assumptions and on
top of `LifecycleInv`.

* `RingNewestCorrect`: the ring holds consecutive reports up to the newest and a
  slot stays free (`RingShape`).
* `DeliveryCorrect`: what a file has delivered has left the ring, and a packet a
  reader holds between `ring_get` and `copy_to_user` is newer than what its file
  delivered and is nobody else's (`DeliveryInv`).
* `PollCorrect`: what poll told a thread still holds, unless another thread took
  a packet. The hard state is the one between the two loads of `ring_empty`: if
  the ring is empty, a thread with something ready has loaded the index at which
  it is empty (`ReadinessInv`).
* `WakeupCorrect`: a queued thread that has loaded one index either has a recent
  one or is about to be woken; one that sleeps has nothing to be woken for, unless
  a wake-up is on its way (`WaitingInv`). A recent load finds the indices equal
  only in an empty ring (`RecentLooksEmpty`), because fewer than `RingSize` packets
  lie between them.

**`PacketPathProofs`: the ring, the bytes and the formats.** `RingCorrect` is a
forward simulation: `Contents`, the live slots, takes a step of `DropOldestQueue`
whenever the ring takes one. Only the arithmetic of indices that wrap at most
once is needed, so it holds for every ring size above one (the code's size is a
power of two only for the mask). `PathRingCorrect` is the same for the handler
and the read.

`SampleCorrect` and `ClientsCorrect` follow the values through their bytes, for
every report a controller can send and every table of transfers. The argument:
a number survives its encoding (`RoundTrip1`, `SignedWord`, `UnsignedWord`,
`RoundTrip8`); the bytes of a structure hold each field in its place
(`StructLayout`, `PayloadLayout`), and a format finds the same places
(`FieldPlaces`), so that unpacking inverts packing (`ParseInverts`); a number made
from a set of bits has exactly these (`BitsOf`), so that button tables with
distinct bits lose and invent nothing (`ButtonsDecoded`, `ButtonsSeen`); hence the
driver decodes what the controller encoded (`DecodedFrame`) and a program sees
what the report said (`ReportSeen`). The inductive invariant (`PathInv`) says
that the k-th packet in the ring was decoded from the k-th of the reports that
are still to be read (`Carried`); it needs that a transfer accepted as input has
filled the whole buffer (`InputIsWhole`), whatever shorter transfers left there.
`GotInv` says the same of the packet a read returned, and `PathTypeCorrect` adds
that the buffer holds bytes. `IntensityCorrect` and `AxesCorrect` are about the
scales: the driver's intensity never wraps and is monotone, and no position of a
stick is faster than one farther out, in the node and in the mouse.

`PathAssumption` bounds a report by the widths of its fields (triggers of ten
bits, axes of sixteen) and the clock by the 64 bits of `timestamp_us`.
`PacketAssumption` says that `Packet`, which the ring's types are about, holds
what the driver decodes. Both are evaluated in `packet_path`.

**`DashPipelineProofs`**, for every queue size, with and without the hotplug
thread: `DashTypeCorrect`, `QueueCorrect`, `StatusCorrect`, `SampleCorrect`. The
invariant (`DashInv`) is what holds between the calls of `_drop_push`: the
reader's events are in order and without a gap (`OrderInv`), the event it holds
is the next one (`PushKnows`), and draining the queue makes the status strip show
what was announced, unless an announcement was dropped (`StatusInv`).

**`DashWindowProofs`**, for histories of every length, any number of pulse threads
and all slider settings: `WindowTypeCorrect`, `TimingCorrect`, `ResetCorrect`,
`MotorsCorrect`, from `WindowInv`: consecutive intervals that end with the newest
sample, which lags the sample shown while one is being applied (`TimeInv`); no
recording after Reset, and at most the one point that was past its test
(`CircInv`); and, for the motors, that only a controller that is there has an open
file (`MotorOK`). `MotorsHaveHolder` excepts motors whose last command failed
(`failed`), and no others.

**`TeleopNodeProofs`**, for any number of haptic threads: `TeleopTypeCorrect`,
`ShutdownCorrect`, `DisconnectCorrect`, `MotorsCorrect`. `TeleopInv` adds what
each thread may know of `_fd`, `_connected` and the file while the other is in
the middle of `_close_device` (`Knowledge`), and that motors which run belong to
the controller the file refers to (`MotorsReachable`): otherwise the second
command of a pulse could miss them. `MotorsHaveOwner` excepts the shutdown and
motors whose last command failed; that a command which gets through ends the
second exception is part of the induction (`HapticMotors`). The assumption about the join (section 2) is
part of the model, so `ShutdownCorrect` rests on it.

**`RumbleMouseProofs`**, for every size of a pixel and all stick positions:
`MouseTypeCorrect`, `ExitCorrect`, `MovementCorrect`. The buttons held on the
desktop are those of the last tick (`HeldAsTicked`), and the residue stays below
a pixel, from which the action property `MovesWithStick` follows.

*How it is done.* Induction over queues and histories is over sets of indices
(`SetInduction` of `BoundedQueueProofs`): the library's induction theorems take
an operator as a parameter, which the provers cannot instantiate. Recursive
functions (`Shifted`, `FromBits`, `FromBytes`, `Format`) are of bounded length; a
lemma exhibits a function that satisfies the recursion and so unfolds the
`CHOOSE` behind it.

*Only model-checked:* the liveness properties, which are out of the prover's
reach (fairness and `ENABLED`): `ReadersReleased`, `DisconnectCompletes`,
`IoctlReturns`, `ReaderStops`, `Reconnects`, `PulseReported`, `UnplugStopsRobot`,
`PulseIsTimed`, `ButtonsReleased`, `MapperEnds`. And `MaskIsRemainder`, on which
`RumbleRing` rests: the bit operator `&` cannot be used beside a theorem, so that
`x & (RING_BUF_SIZE - 1)` is `x % RING_BUF_SIZE` is evaluated for the powers of
two up to 64, the size in the code.

## 5. Findings

* `probe_unwind`: probe publishes the device before it is complete; when a later
  step fails, its error path frees the structure whatever its kref says, under a
  file that was opened meanwhile (`rumble.c:650-708`). Everything proved about
  files is therefore proved up to this path (`unwound`).
* `cdev_freed`: the `cdev` lies inside the structure that the last `kref_put`
  frees (`rumble.c:111`). When a file is closed after an unplug, that put is in
  `rumble_release` (`rumble.c:371`), and the VFS drops its own reference to the
  `cdev` after that (against `FIXES.md:23` and `91`).
* `status_stale`: after a failed read the reader announces an error and no
  disconnect. If the controller is unplugged before it is reopened, the status
  strip says connected for ever (`reader.py:80`, `store.py:94`).
* `stick_stale`: the rate limit drops packets instead of delaying them. A stick
  released within 50 ms of the last command leaves the robot driving, until the
  controller sends another packet (`rumble_teleop_node.py:235-237`).

Seen while modelling, without a run of their own:

* The completion handler waits in `usb_interrupt_msg`, in interrupt context
  (`rumble.c:301`, against the comment at `rumble.c:196`; the state `ack` of
  `urb`), and one failed resubmission ends the input of a device that stays bound
  (`rumble.c:309`, against `rumble.c:30-32`).
* Two motor commands can send the same sequence number, because `rumble_seq++`
  comes before `tx_mutex` (`rumble.c:498`, `511`).
* The layout comment at `rumble.h:43` gives the buttons as bytes 2 and 3; the
  driver reads bytes 4 and 5 (`rumble.c:242-261`).
* `rumble.h:6` names the product 0x02FD as the target, but the driver binds
  0x02DD alone (`rumble.h:23`), and `hotplug.py:14` announces 0x02FD, 0x02DD and
  0x02EA: the dashboard may announce a controller the driver does not serve.
* `_drop_push` can lose the very event it was called with after it has dropped
  the oldest, when the hotplug thread puts in between (`reader.py:32-39`). Lost in
  this way, or as the oldest event of an overflow, may be the announcement of a
  disconnect, which nothing repeats; `StatusCatchesUp` and `SampleShown` except
  lost announcements (`missed`), and no property forbids them.
* `State` is "mutated only on the UI thread" (`store.py:4-5`), but the
  circularity callbacks write it from DearPyGui's. So one point may follow a
  Reset (`ResetHolds` allows it), and a change of the combo box mixes both
  sticks' points in one plot.
* A click on Pulse while the UI thread reports an earlier pulse, or while its own
  has failed at once, loses its report: thread and result are two stores, and
  `update` may poll and pop in between. The panel says `Pulsing` until the next
  command (`rumble.py:89-91`, `100-108`). `PulseReported` has as its premise that
  the two do not overlap, and shows that nothing else loses a report.
* A motor command of the teleoperation node that fails on a controller that is
  there ends its haptic thread with an exception (`rumble_teleop_node.py:278-283`,
  `rumble.c:516-524`). If it was the stop command, or a first one that timed out
  after it had arrived, the motors run until a later command gets through (the
  exception `failed` in `MotorsHaveOwner` and `PulseIsTimed`).
* What became of the second command of a pulse is not looked at: the panel says
  "Pulse done" while the motors go on (`rumble.py:83-84`; the exception `failed` in
  `MotorsHaveHolder`).
* A failing ioctl skips `os.close` and leaks the file (`rumble.py:22-26`), and
  the panel writes to `/dev/rumble0` whatever device the reader uses
  (`rumble.py:12`).
* A read error closes and reopens the device without a disconnect, and the
  interval that spans the gap counts as one of the controller's (`reader.py:80`,
  `store.py:84-92`).
* Closing the window in the middle of a pulse leaves the motors running (the
  premise `Running` of `MotorsHaveHolder`), and so does a shutdown of the
  teleoperation node (the exception `stop` in `MotorsHaveOwner`).
* A signal to the mouse before `self.running = True` is forgotten
  (`rumble_mouse.py:181`).

## 6. Plan

Done: the driver's life cycle, stream and file operations, the ring, the packet
path, the dashboard's pipeline, state and window, the teleoperation node, the
mouse; and the safety proofs of all of them. Next, in this order:

1. `RumbleDriver` implements `RumbleRing`'s queue: each device's ring takes a
   step of `DropOldestQueue` or none, between probe and the last put.
2. Abstract specifications of the clients' motor use (who may have motors
   running, in one line), implemented by `DashWindow` and `TeleopNode`.
3. The safety part of liveness properties, as far as it can be said without
   fairness: what each waiting thread waits for is there to happen (for
   `ReadersReleased`, `PulseReported` and `PulseIsTimed`).

## 7. Not modelled

* Of the dashboard: layout, colours, texts, the coverage metric of the
  circularity panel, the traces of the stick panel and the debug lines. They are
  drawn and nothing reads them. Start-up (`run.py`, `__main__.py`) loads the
  driver and opens the window.
* Of the teleoperation node: the collision heuristic on the odometry and its
  cooldown of two seconds, which are a free choice in the model. Pulses may thus
  overlap more often than the cooldown lets them.
* `tools/test_read.c` polls, reads, prints and fires the motors in one thread; its
  use of the device is that of any thread in `RumbleDriver`.
* Build files and the generated `rumble.mod.c`.
* Allocation failures of the structure itself and the early returns of module
  init, which change nothing.

The kernel, DearPyGui and the Python runtime are modelled as far as the code
relies on them and marked external in the map.
