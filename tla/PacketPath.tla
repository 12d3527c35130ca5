------------------------------ MODULE PacketPath ------------------------------
(***************************************************************************)
(* The way of one packet from the controller to what a user sees of it:    *)
(* the transfer buffer, rumble_urb_complete, the ring, the read, and the   *)
(* unpacking in the dashboard, the teleoperation node and the mouse.  The  *)
(* way of a motor command back is in DashWindow.                           *)
(*                                                                         *)
(* A transfer and its completion are one step here: the URB is submitted   *)
(* again only when the handler is done with the buffer.  What interleaves  *)
(* with it is the subject of RumbleDriver.                                 *)
(***************************************************************************)
EXTENDS PacketFormat, RumbleRing, BoundedQueue

CONSTANTS
  Reports,     \* what the controller's sticks and buttons can be at
  Transfers    \* the transfers there can be, by number

VARIABLES
  buf,         \* the transfer buffer, rd->in_buf
  sent         \* history: the reports sent and not yet read, oldest first

vars == <<ringVars, buf, sent>>

GIP_CMD_INPUT == 32

(* The longest transfer; and the bytes of an input report that the driver  *)
(* looks at.  The model leaves the rest of the buffer out.                 *)
XBOX_PKT_SIZE == 32

BufSize == 18

Byte == 0 .. 255

Int16Limit == 32768
Int16 == -Int16Limit .. Int16Limit - 1

ASSUME PathAssumption ==
  /\ Reports \subseteq [buttons : SUBSET Buttons, lt : 0 .. 1023, rt : 0 .. 1023,
                        lx : Int16, ly : Int16, rx : Int16, ry : Int16]
  /\ Transfers \in Seq([cmd : Byte, flags : Byte, status : {"0", "EOVERFLOW"},
                        length : 0 .. XBOX_PKT_SIZE, report : Reports, now : Nat])
  /\ \A f \in DOMAIN Transfers : Shifted(Transfers[f].now)[8] = 0

(* usb_alloc_coherent clears nothing: two contents stand for any. *)
PathInit ==
  /\ RingInit
  /\ \E junk \in {0, 255} : buf = [i \in 0 .. BufSize - 1 |-> junk]
  /\ sent = <<>>

-------------------------------------------------------------------------------
(* The controller *)

(* The report the controller encodes into bytes 4 to 17. *)
GipBits ==
  [b4 |-> [MENU |-> 2, VIEW |-> 3, A |-> 4, B |-> 5, X |-> 6, Y |-> 7],
   b5 |-> [DPAD_UP |-> 0, DPAD_DOWN |-> 1, DPAD_LEFT |-> 2, DPAD_RIGHT |-> 3,
           LB |-> 4, RB |-> 5, LS |-> 6, RS |-> 7]]

GipByte(bits, pressed) == FromBits({bits[b] : b \in pressed \cap DOMAIN bits})

Payload(f) ==
  LET r == f.report
  IN  <<f.cmd, 0, f.flags, 14,
        GipByte(GipBits.b4, r.buttons), GipByte(GipBits.b5, r.buttons)>>
      \o ToBytes(r.lt, 2) \o ToBytes(r.rt, 2) \o ToBytes(r.lx, 2)
      \o ToBytes(r.ly, 2) \o ToBytes(r.rx, 2) \o ToBytes(r.ry, 2)

FrameBytes(f) ==
  LET payload == Payload(f) IN [i \in 0 .. BufSize - 1 |-> payload[i + 1]]

(* A transfer that carries a report, whole and undamaged. *)
WholeReport(t) ==
  t.cmd = GIP_CMD_INPUT /\ t.status = "0" /\ t.length >= BufSize

Frames == DOMAIN Transfers

(* A transfer of fewer bytes leaves the rest of the buffer as it was. *)
Filled(t) ==
  LET frame == FrameBytes(t)
  IN  [i \in 0 .. BufSize - 1 |-> IF i < t.length THEN frame[i] ELSE buf[i]]

-------------------------------------------------------------------------------
(* The driver *)

(* The bit of the frame that sets each BTN_ bit. *)
ButtonBits(b) ==
  FromBits({BTN[n] : n \in
    {m \in {"MENU", "VIEW", "A", "B", "X", "Y"} :
       HasBit(b[4], [MENU |-> 2, VIEW |-> 3, A |-> 4, B |-> 5, X |-> 6, Y |-> 7][m])}
    \cup
    {m \in {"DPAD_UP", "DPAD_DOWN", "DPAD_LEFT", "DPAD_RIGHT", "LB", "RB", "LS", "RS"} :
       HasBit(b[5], [DPAD_UP |-> 0, DPAD_DOWN |-> 1, DPAD_LEFT |-> 2, DPAD_RIGHT |-> 3,
                     LB |-> 4, RB |-> 5, LS |-> 6, RS |-> 7][m])}})

(* A 10-bit trigger becomes a byte; axes are signed 16-bit. *)
decode(b, now) ==
  LET word(i) == b[i] + b[i + 1] * 256
      int16(i) == IF word(i) >= 32768 THEN word(i) - 65536 ELSE word(i)
  IN [buttons |-> ButtonBits(b),
      lt |-> (word(6) \div 4) % 256, rt |-> (word(8) \div 4) % 256,
      lx |-> int16(10), ly |-> int16(12), rx |-> int16(14), ry |-> int16(16),
      _pad |-> 0, timestamp_us |-> now]

(* Mutation of is_input: the length is not checked. *)
is_input_any_length(t) == t.status = "0" /\ t.length >= 2 /\ t.cmd = GIP_CMD_INPUT

is_input(t) ==
  /\ t.status = "0" /\ t.length >= 2
  /\ t.cmd = GIP_CMD_INPUT
  /\ t.length >= BufSize

(* Packet has room for what the driver decodes. *)
ASSUME PacketAssumption ==
  \A f \in Frames :
    LET t == Transfers[f]
    IN  is_input(t) => decode(FrameBytes(t), t.now) \in Packet

(* Only a whole input report reaches the ring.  The acknowledgement of a   *)
(* virtual key is a state of the URB, in RumbleDriver.                     *)
rumble_urb_complete(f) ==
  LET t == Transfers[f] IN
    /\ buf' = Filled(t)
    /\ IF is_input(t)
         THEN ring_put(decode(buf', t.now))
         ELSE UNCHANGED ringVars
    /\ sent' = IF WholeReport(t) THEN PutDroppingOldest(sent, f, RingSize - 1) ELSE sent

rumble_read ==
  /\ ring_get
  /\ sent' = IF sent = <<>> THEN sent ELSE Tail(sent)
  /\ UNCHANGED buf

PathNext ==
  \/ \E f \in Frames : rumble_urb_complete(f)
  \/ rumble_read

PathSpec == PathInit /\ [][PathNext]_vars

-------------------------------------------------------------------------------
(* Properties *)

PathTypeOK ==
  /\ RingTypeOK
  /\ buf \in [0 .. BufSize - 1 -> Byte]
  /\ sent \in Seq(Frames)

(* What a program sees of a packet: the bytes it reads, unpacked. *)
Seen(p) ==
  LET s == parse(StructBytes(p))
  IN [s EXCEPT !.buttons = {b \in Buttons : btn(s, b)}]

(* What a frame says: triggers lose two bits. *)
Meaning(t) ==
  LET r == t.report
  IN  [buttons |-> r.buttons, lt |-> r.lt \div 4, rt |-> r.rt \div 4,
       lx |-> r.lx, ly |-> r.ly, rx |-> r.rx, ry |-> r.ry,
       timestamp_us |-> t.now]

(* From the bytes of a transfer to the Sample of a program nothing is      *)
(* changed, exchanged or made up: what is still to be read are the newest  *)
(* whole reports, each with the values it was sent with, whatever shorter  *)
(* or damaged transfers came between and whatever bytes they have left in  *)
(* the buffer (rumble.c:222-285, rumble.h:31-41, abi.py:112-125).          *)
SampleFaithful ==
  /\ Count = Len(sent)
  /\ \A k \in 1 .. Count : Seen(Contents[k]) = Meaning(Transfers[sent[k]])

(* The three programs read the same packet the same way: the same fields,  *)
(* the buttons the driver has set, and positions on the same side of rest  *)
(* and within their ranges.                                                *)
InputAgrees ==
  got # NoPacket =>
    LET raw == StructBytes(got)
        s   == parse(raw)
    IN  /\ Len(raw) = calcsize(abi_INPUT_FMT)
        /\ unpack(teleop_INPUT_FMT, raw) = unpack(abi_INPUT_FMT, raw)
        /\ unpack(mouse_INPUT_FMT, raw) = unpack(abi_INPUT_FMT, raw)
        /\ lit(s) = {b \in Buttons : HasBit(got.buttons, BTN[b])}
        /\ \A b \in DOMAIN mouse_BTN :
             HasBit(s.buttons, mouse_BTN[b]) <=> b \in lit(s)
        /\ Abs(linear_x(s)) <= 65536 /\ Abs(angular_z(s)) <= 98304
        /\ fill_h(s.lt) \in 0 .. 120 /\ fill_h(s.rt) \in 0 .. 120
        /\ \A v \in {s.lx, s.ly, s.rx, s.ry} :
             /\ Sign(axis_to_unit(v)) \in {0, Sign(v)}
             /\ mouse_unit(v) # 0 => Sign(mouse_unit(v)) = Sign(axis_to_unit(v))
             /\ Abs(mouse_unit(v)) <= 28768
             /\ Abs(dot_x(v) - 75 * 32768) <= 70 * 32768
             /\ Abs(dot_y(v) - 75 * 32768) <= 70 * 32768

(* The driver and the programs that use it hold the same idea of a packet, *)
(* and of the ioctl that sets the motors (abi.py, buttons.py:15-25,        *)
(* sticks.py, triggers.py, rumble_teleop_node.py:50-115, rumble_mouse.py:  *)
(* 24-60, rumble.h:31-72).                                                 *)
ClientsAgree ==
  /\ InputAgrees
  /\ {abi_SET_MOTORS, teleop_SET_MOTORS} = {RUMBLE_SET_MOTORS}
===============================================================================
