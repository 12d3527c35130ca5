----------------------------- MODULE DashPipeline -----------------------------
(***************************************************************************)
(* The dashboard rumble_dash: the reader thread (reader.py), the optional  *)
(* hotplug thread (hotplug.py), the bounded queue both push events into,   *)
(* and the UI thread that drains it into its State (app.py, store.py).     *)
(*                                                                         *)
(* Each method of queue.Queue is atomic, and so is each access of the stop *)
(* event; _drop_push is made of up to three such calls, and the other      *)
(* threads run between them.  /dev/rumble0 is seen through open, poll and  *)
(* read: what these return is the driver's doing (RumbleDriver).           *)
(***************************************************************************)
EXTENDS Naturals, Sequences

CONSTANTS
  QueueMax,   \* QUEUE_MAXSIZE
  Hotplug,    \* is pyudev installed?
  MaxAvail,   \* bound: unread packets of one device
  Ids         \* bound: identifiers of events are counted modulo Ids

ASSUME DashAssumption ==
  /\ QueueMax \in Nat /\ QueueMax > 0
  /\ Hotplug \in BOOLEAN
  /\ MaxAvail \in Nat
  /\ Ids \in Nat /\ Ids > 1

VARIABLES
  \* the device
  node,        \* does open find a device?
  avail,       \* unread packets of that device
  \* the reader thread
  file,        \* its file: "none", "live", or "gone" after a disconnect
  left,        \* unread packets of a device that is gone
  rpc,         \* where the thread is, see ReaderStates
  item,        \* the event _drop_push is called with
  after,       \* where the thread goes on after _drop_push
  \* shared
  stop,        \* threading.Event
  queue,
  \* the hotplug thread
  hpc,         \* "select", "put", or "done"
  \* the UI thread
  upc,         \* "drain", "render", or "done"
  connected,   \* State.connected
  sampled,     \* State.sample is not None
  \* history
  seq,         \* the id of the reader's newest event
  gap,         \* was the reader's last event lost?
  applied,     \* the id of the last event of the reader the UI applied
  told,        \* what the reader last announced: connected or disconnected
  missed       \* did that announcement get lost before the UI applied it?

devVars == <<node, avail>>
readerVars == <<file, left, rpc, item, after>>
uiVars == <<upc, connected, sampled, applied>>
pushVars == <<queue, gap, told, missed>>

vars == <<devVars, readerVars, stop, pushVars, hpc, uiVars, seq>>

PushStates == {"put", "drop", "reput"}

ReaderStates ==
  {"open", "top", "poll", "read", "close", "wait", "done"} \cup PushStates

Announcements == {"connected", "disconnected"}

EventTypes == Announcements \cup {"sample", "error"}

(* The reader's events: identified, and marked when the one before was lost. *)
ReaderEvent == [type : EventTypes, id : 0 .. Ids - 1, gap : BOOLEAN]

(* No event is being pushed. *)
NoItem == [type |-> "error", id |-> 0]

(* hotplug_add and hotplug_remove, which State.apply passes over. *)
HotplugEvent == [type |-> "hotplug", id |-> 0, gap |-> FALSE]

Init ==
  /\ node \in BOOLEAN /\ avail = 0
  /\ file = "none" /\ left = 0 /\ rpc = "open" /\ after = "open"
  /\ item = NoItem
  /\ stop = FALSE /\ queue = <<>>
  /\ hpc = IF Hotplug THEN "select" ELSE "done"
  /\ upc = "drain" /\ connected = FALSE /\ sampled = FALSE
  /\ seq = 0 /\ gap = FALSE /\ applied = 0 /\ told = FALSE /\ missed = FALSE

-------------------------------------------------------------------------------
(* The device, as open, poll and read see it *)

plug ==
  /\ ~node
  /\ node' = TRUE
  /\ avail' = 0
  /\ UNCHANGED <<readerVars, stop, pushVars, hpc, uiVars, seq>>

unplug ==
  /\ node
  /\ node' = FALSE
  /\ file' = IF file = "live" THEN "gone" ELSE file
  /\ left' = IF file = "live" THEN avail ELSE left
  /\ UNCHANGED <<avail, rpc, item, after, stop, pushVars, hpc, uiVars, seq>>

packet ==
  /\ node /\ avail < MaxAvail
  /\ avail' = avail + 1
  /\ UNCHANGED <<node, readerVars, stop, pushVars, hpc, uiVars, seq>>

(* Another program reads a packet from the ring that all files share. *)
packet_taken ==
  /\ node /\ avail > 0
  /\ avail' = avail - 1
  /\ UNCHANGED <<node, readerVars, stop, pushVars, hpc, uiVars, seq>>

-------------------------------------------------------------------------------
(* _drop_push *)

IsAnnouncement(e) == e.type \in Announcements

(* _drop_push is called with a new event and then goes on at pc. *)
push(type, pc) ==
  /\ seq' = (seq + 1) % Ids
  /\ item' = [type |-> type, id |-> (seq + 1) % Ids]
  /\ rpc' = "put"
  /\ after' = pc

(* _drop_push returns. *)
return == rpc' = after /\ item' = NoItem /\ after' = "open"

(* The event gets into the queue. *)
enqueue ==
  /\ queue' = Append(queue, [type |-> item.type, id |-> item.id, gap |-> gap])
  /\ gap' = FALSE
  /\ IF IsAnnouncement(item)
       THEN told' = (item.type = "connected") /\ missed' = FALSE
       ELSE UNCHANGED <<told, missed>>
  /\ return

(* Mutation of push_put: a queue without a maxsize. *)
push_put_unbounded ==
  /\ rpc = "put"
  /\ enqueue
  /\ UNCHANGED <<devVars, file, left, stop, hpc, uiVars, seq>>

(* The first put_nowait; a full queue raises Full. *)
push_put ==
  /\ rpc = "put"
  /\ \/ /\ Len(queue) < QueueMax
        /\ enqueue
     \/ /\ Len(queue) >= QueueMax
        /\ rpc' = "drop"
        /\ UNCHANGED <<pushVars, item, after>>
  /\ UNCHANGED <<devVars, file, left, stop, hpc, uiVars, seq>>

(* get_nowait: the oldest entry goes; an empty queue is passed over. *)
push_drop ==
  /\ rpc = "drop"
  /\ \/ /\ queue # <<>>
        /\ queue' = Tail(queue)
        /\ missed' =
             \/ missed
             \/ /\ IsAnnouncement(Head(queue))
                /\ \A k \in 2 .. Len(queue) : ~IsAnnouncement(queue[k])
     \/ /\ queue = <<>>
        /\ UNCHANGED <<queue, missed>>
  /\ rpc' = "reput"
  /\ UNCHANGED <<devVars, file, left, item, after, stop, gap, told, hpc, uiVars, seq>>

(* Mutation of push_reput: the event is given up after the drop. *)
push_reput_forgotten ==
  /\ rpc = "reput"
  /\ return
  /\ UNCHANGED <<devVars, file, left, stop, pushVars, hpc, uiVars, seq>>

(* The second put_nowait; if the queue is full again, the event is lost. *)
push_reput ==
  /\ rpc = "reput"
  /\ \/ /\ Len(queue) < QueueMax
        /\ enqueue
     \/ /\ Len(queue) >= QueueMax
        /\ gap' = TRUE
        /\ IF IsAnnouncement(item)
             THEN told' = (item.type = "connected") /\ missed' = TRUE
             ELSE UNCHANGED <<told, missed>>
        /\ return
        /\ UNCHANGED queue
  /\ UNCHANGED <<devVars, file, left, stop, hpc, uiVars, seq>>

-------------------------------------------------------------------------------
(* _reader_loop *)

readerRest == <<devVars, stop, pushVars, hpc, uiVars>>

reader_exit ==
  /\ rpc = "open" /\ stop
  /\ rpc' = "done"
  /\ UNCHANGED <<readerRest, file, left, item, after, seq>>

reader_open ==
  /\ rpc = "open" /\ ~stop
  /\ node
  /\ file' = "live" /\ left' = 0
  /\ push("connected", "top")
  /\ UNCHANGED readerRest

reader_open_fails ==
  /\ rpc = "open" /\ ~stop
  /\ ~node
  /\ push("error", "wait")
  /\ UNCHANGED <<readerRest, file, left>>

(* while not stop.is_set(). *)
reader_top ==
  /\ rpc = "top"
  /\ rpc' = IF stop THEN "close" ELSE "poll"
  /\ UNCHANGED <<readerRest, file, left, item, after, seq>>

(* Mutation of poll_timeout: poll waits for an event as long as it takes. *)
poll_no_timeout == rpc = "poll" /\ avail > 0 /\ UNCHANGED vars

(* poll returns no event after 200 ms. *)
poll_timeout ==
  /\ rpc = "poll"
  /\ file = "live" /\ avail = 0
  /\ rpc' = "top"
  /\ UNCHANGED <<readerRest, file, left, item, after, seq>>

(* POLLHUP, which the driver sets as soon as the device is disconnected:   *)
(* packets still in the ring are not read.                                 *)
poll_hangup ==
  /\ rpc = "poll"
  /\ file = "gone"
  /\ push("disconnected", "close")
  /\ UNCHANGED <<readerRest, file, left>>

poll_in ==
  /\ rpc = "poll"
  /\ file = "live" /\ avail > 0
  /\ rpc' = "read"
  /\ UNCHANGED <<readerRest, file, left, item, after, seq>>

(* A whole packet: the driver never returns a part of one, so the branches *)
(* for end of file, a short read and a failed parse are not reached.       *)
reader_read ==
  /\ rpc = "read"
  /\ \/ /\ file = "live" /\ avail > 0
        /\ avail' = avail - 1
        /\ UNCHANGED left
     \/ /\ file = "gone" /\ left > 0
        /\ left' = left - 1
        /\ UNCHANGED avail
  /\ push("sample", "top")
  /\ UNCHANGED <<node, file, stop, pushVars, hpc, uiVars>>

(* ENODEV. *)
reader_read_enodev ==
  /\ rpc = "read"
  /\ file = "gone" /\ left = 0
  /\ push("disconnected", "close")
  /\ UNCHANGED <<readerRest, file, left>>

(* EAGAIN: another program took the packet that poll reported. *)
reader_read_eagain ==
  /\ rpc = "read"
  /\ file = "live" /\ avail = 0
  /\ push("error", "close")
  /\ UNCHANGED <<readerRest, file, left>>

(* finally: unregister and close. *)
reader_close ==
  /\ rpc = "close"
  /\ file' = "none" /\ left' = 0
  /\ rpc' = "wait"
  /\ UNCHANGED <<readerRest, item, after, seq>>

(* Mutation of reader_wait: stop.wait() without RECONNECT_DELAY. *)
reader_wait_stop ==
  /\ rpc = "wait" /\ stop
  /\ rpc' = "open"
  /\ UNCHANGED <<readerRest, file, left, item, after, seq>>

(* stop.wait(RECONNECT_DELAY) is over, or was skipped. *)
reader_wait ==
  /\ rpc = "wait"
  /\ rpc' = "open"
  /\ UNCHANGED <<readerRest, file, left, item, after, seq>>

-------------------------------------------------------------------------------
(* _monitor_loop *)

hotplugRest == <<devVars, readerVars, stop, gap, told, missed, uiVars, seq>>

hotplug_exit ==
  /\ hpc = "select" /\ stop
  /\ hpc' = "done"
  /\ UNCHANGED <<hotplugRest, queue>>

(* A USB event of the controller; one plug or unplug makes several. *)
hotplug_event ==
  /\ hpc = "select" /\ ~stop
  /\ hpc' = "put"
  /\ UNCHANGED <<hotplugRest, queue>>

(* q.put without a timeout waits for a free slot. *)
hotplug_put ==
  /\ hpc = "put"
  /\ Len(queue) < QueueMax
  /\ queue' = Append(queue, HotplugEvent)
  /\ hpc' = "select"
  /\ UNCHANGED hotplugRest

-------------------------------------------------------------------------------
(* The UI thread *)

(* Mutations of apply: "disconnected" leaves the sample, or the status. *)
apply_keeps_sample(e) ==
  /\ connected' = (e.type = "connected" \/ (connected /\ e.type # "disconnected"))
  /\ sampled' = (e.type = "sample" \/ sampled)

apply_keeps_status(e) ==
  /\ connected' = (e.type = "connected" \/ connected)
  /\ sampled' = (e.type = "sample" \/ (sampled /\ e.type # "disconnected"))

(* State.apply. *)
apply(e) ==
  /\ connected' = (e.type = "connected" \/ (connected /\ e.type # "disconnected"))
  /\ sampled' = (e.type = "sample" \/ (sampled /\ e.type # "disconnected"))

uiRest == <<devVars, readerVars, gap, told, missed, hpc, seq>>

ui_get ==
  /\ upc = "drain"
  /\ queue # <<>>
  /\ queue' = Tail(queue)
  /\ apply(Head(queue))
  /\ applied' = IF Head(queue) = HotplugEvent THEN applied ELSE Head(queue).id
  /\ UNCHANGED <<uiRest, stop, upc>>

ui_empty ==
  /\ upc = "drain"
  /\ queue = <<>>
  /\ upc' = "render"
  /\ UNCHANGED <<uiRest, stop, queue, connected, sampled, applied>>

ui_frame ==
  /\ upc = "render"
  /\ upc' = "drain"
  /\ UNCHANGED <<uiRest, stop, queue, connected, sampled, applied>>

(* The window is closed. *)
ui_close ==
  /\ upc = "render"
  /\ stop' = TRUE
  /\ upc' = "done"
  /\ UNCHANGED <<uiRest, queue, connected, sampled, applied>>

-------------------------------------------------------------------------------
PushStep == push_put \/ push_drop \/ push_reput

ReaderStep ==
  \/ PushStep
  \/ reader_exit \/ reader_open \/ reader_open_fails \/ reader_top
  \/ poll_timeout \/ poll_hangup \/ poll_in
  \/ reader_read \/ reader_read_enodev \/ reader_read_eagain
  \/ reader_close \/ reader_wait

HotplugStep == hotplug_exit \/ hotplug_event \/ hotplug_put

UIStep == ui_get \/ ui_empty \/ ui_frame \/ ui_close

DeviceStep == plug \/ unplug \/ packet \/ packet_taken

Next == ReaderStep \/ HotplugStep \/ UIStep \/ DeviceStep

Spec == Init /\ [][Next]_vars

(* The interpreter gives every runnable thread its turn; the reader blocks *)
(* only with a timeout.  Nothing is asked of the device or of the user.    *)
FairSpec == Spec /\ WF_vars(ReaderStep)

-------------------------------------------------------------------------------
(* Properties *)

DashTypeOK ==
  /\ node \in BOOLEAN /\ avail \in 0 .. MaxAvail
  /\ file \in {"none", "live", "gone"} /\ left \in 0 .. MaxAvail
  /\ rpc \in ReaderStates /\ after \in {"open", "top", "close", "wait"}
  /\ item \in [type : EventTypes, id : 0 .. Ids - 1]
  /\ stop \in BOOLEAN
  /\ queue \in Seq(ReaderEvent \cup {HotplugEvent}) /\ Len(queue) <= QueueMax
  /\ hpc \in {"select", "put", "done"}
  /\ upc \in {"drain", "render", "done"}
  /\ connected \in BOOLEAN /\ sampled \in BOOLEAN
  /\ seq \in 0 .. Ids - 1 /\ applied \in 0 .. Ids - 1
  /\ gap \in BOOLEAN /\ told \in BOOLEAN /\ missed \in BOOLEAN

(* The places of the reader's events in a queue, and of its announcements. *)
ReaderPlaces(q) == {k \in 1 .. Len(q) : q[k] # HotplugEvent}

AnnouncementPlaces(q) == {k \in 1 .. Len(q) : IsAnnouncement(q[k])}

(* Of the places S, k is the last one; or it is the next one after j. *)
IsLast(k, S) == k \in S /\ \A i \in S : i <= k

IsNext(j, k, S) == j \in S /\ k \in S /\ j < k /\ \A i \in S : i <= j \/ k <= i

(* The reader's events that follow on each other in the queue were pushed  *)
(* one after the other, unless one between them was lost.                  *)
InOrder(q) ==
  \A j, k \in 1 .. Len(q) :
    IsNext(j, k, ReaderPlaces(q)) => q[k].gap \/ q[k].id = (q[j].id + 1) % Ids

(* The queue holds the newest events of the reader, in the order in which  *)
(* it pushed them: an overflow takes the oldest, and only where the        *)
(* hotplug thread slipped in is an event missing in between (reader.py:    *)
(* 27-39).  When nothing is pending, the UI has applied the newest one.    *)
QueueIsNewest ==
  /\ InOrder(queue)
  /\ (rpc \notin PushStates /\ ~gap) =>
       /\ \A k \in 1 .. Len(queue) : IsLast(k, ReaderPlaces(queue)) => queue[k].id = seq
       /\ ReaderPlaces(queue) = {} => applied = seq
  /\ gap => Hotplug

(* What the status strip will show once the queue is drained, s: the last  *)
(* announcement in it or, if there is none, what is shown.                 *)
WillShow(s) ==
  /\ \A k \in 1 .. Len(queue) :
       IsLast(k, AnnouncementPlaces(queue)) => (queue[k].type = "connected") = s
  /\ AnnouncementPlaces(queue) = {} => connected = s

(* The status strip catches up: once the queue is drained it shows what    *)
(* the reader last announced, unless an overflow took that announcement    *)
(* (store.py:78-92, reader.py:53, 68, 78).                                 *)
StatusCatchesUp == missed \/ WillShow(told)

(* The dashboard shows input of a controller that it shows as disconnected *)
(* only when an announcement was lost or is still in the queue             *)
(* (store.py:84-92, 97-102).                                               *)
SampleShown ==
  (sampled /\ ~connected) =>
     missed \/ AnnouncementPlaces(queue) # {}

(* Closing the window stops the reader, and it closes its file, whatever   *)
(* the device does and although nobody drains the queue any more           *)
(* (reader.py:44, 60-61, 99-101, app.py:119).                              *)
ReaderStops == stop ~> (rpc = "done" /\ file = "none")

(* The reader finds its way back to a controller that is there: after      *)
(* every unplug and every read error (reader.py:48-51, 103-104).           *)
Reconnects == <>[](node /\ ~stop) => []<>(file = "live")

(* When the controller is gone for good, a dashboard that keeps draining   *)
(* the queue, and never loses an announcement, shows it as DISCONNECTED in *)
(* the end: the status strip shows the "Connected/disconnected state"      *)
(* (rumble_dash/README.md:55).                                             *)
StatusTruthful ==
  (<>[]~node /\ []<>(upc = "render") /\ []~missed) => <>[]~connected
===============================================================================
