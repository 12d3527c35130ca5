----------------------------- MODULE PacketFormat -----------------------------
(***************************************************************************)
(* The formats a packet passes through: struct rumble_input of the driver  *)
(* and its copies in the three Python programs, the button bits, the axis  *)
(* scales, and the motor command with its ioctl number.  The header is C,  *)
(* and each program repeats what it needs of it; nothing but agreement     *)
(* keeps them together.  Numbers are exact: a byte is a number below 256,  *)
(* a fraction is its numerator over a fixed denominator.                   *)
(***************************************************************************)
EXTENDS Integers, Sequences

-------------------------------------------------------------------------------
(* Bytes of little-endian integers *)

(* v \div 256^k, for a number of at most eight bytes. *)
Shifted(v) == LET s[k \in 0 .. 8] == IF k = 0 THEN v ELSE s[k - 1] \div 256 IN s

(* The bytes of v in two's complement, lowest first. *)
ToBytes(v, size) == [k \in 1 .. size |-> Shifted(v)[k - 1] % 256]

(* The number that bytes stand for. *)
FromBytes(bytes, signed) ==
  LET top == Len(bytes)
      n[k \in 1 .. top] ==
        IF k < top THEN 256 * n[k + 1] + bytes[k]
        ELSE IF signed /\ bytes[k] >= 128 THEN bytes[k] - 256 ELSE bytes[k]
  IN  n[1]

HasBit(n, b) == (n \div 2 ^ b) % 2 = 1

(* The number, of at most sixteen bits, with exactly those of the set set. *)
FromBits(bits) ==
  LET n[k \in 0 .. 16] ==
        IF k = 16 THEN 0 ELSE 2 * n[k + 1] + (IF k \in bits THEN 1 ELSE 0)
  IN  n[0]

-------------------------------------------------------------------------------
(* rumble.h *)

(* struct rumble_input in memory, as copy_to_user copies it: packed, with  *)
(* no gaps but _pad.                                                       *)
StructBytes(inp) ==
  ToBytes(inp.buttons, 2) \o ToBytes(inp.lt, 1) \o ToBytes(inp.rt, 1)
  \o ToBytes(inp.lx, 2) \o ToBytes(inp.ly, 2) \o ToBytes(inp.rx, 2) \o ToBytes(inp.ry, 2)
  \o ToBytes(inp._pad, 2) \o ToBytes(inp.timestamp_us, 8)

Buttons ==
  {"MENU", "VIEW", "LS", "RS", "A", "B", "X", "Y",
   "DPAD_UP", "DPAD_DOWN", "DPAD_LEFT", "DPAD_RIGHT", "LB", "RB"}

(* The position of the bit of BTN_... *)
BTN ==
  [MENU |-> 0, VIEW |-> 1, LS |-> 2, RS |-> 3, A |-> 4, B |-> 5, X |-> 6, Y |-> 7,
   DPAD_UP |-> 8, DPAD_DOWN |-> 9, DPAD_LEFT |-> 10, DPAD_RIGHT |-> 11,
   LB |-> 12, RB |-> 13]

(* _IOW('R', 1, struct rumble_motors): direction, size, type, number. *)
RUMBLE_SET_MOTORS == 2 ^ 30 + 2 * 2 ^ 16 + 82 * 2 ^ 8 + 1

-------------------------------------------------------------------------------
(* The unpacking in the Python programs *)

CharSize == [H |-> 2, B |-> 1, h |-> 2, Q |-> 8]

(* The fields of a format string that begins with "<": little-endian, and  *)
(* each begins where the one before it ends.                               *)
Format(letters) ==
  LET at[k \in 1 .. Len(letters)] ==
        IF k = 1 THEN 1 ELSE at[k - 1] + CharSize[letters[k - 1]]
  IN [k \in 1 .. Len(letters) |->
        [first |-> at[k], last |-> at[k] + CharSize[letters[k]] - 1,
         signed |-> letters[k] = "h"]]

abi_INPUT_FMT == Format(<<"H", "B", "B", "h", "h", "h", "h", "H", "Q">>)

teleop_INPUT_FMT == Format(<<"H", "B", "B", "h", "h", "h", "h", "H", "Q">>)

mouse_INPUT_FMT == Format(<<"H", "B", "B", "h", "h", "h", "h", "H", "Q">>)

calcsize(fmt) == fmt[Len(fmt)].last

unpack(fmt, bytes) ==
  [k \in DOMAIN fmt |->
     FromBytes(SubSeq(bytes, fmt[k].first, fmt[k].last), fmt[k].signed)]

(* abi.parse: the fields of a Sample that come from the packet. *)
parse(raw) ==
  LET u == unpack(abi_INPUT_FMT, raw)
  IN  [buttons |-> u[1], lt |-> u[2], rt |-> u[3],
       lx |-> u[4], ly |-> u[5], rx |-> u[6], ry |-> u[7], timestamp_us |-> u[9]]

-------------------------------------------------------------------------------
(* The dashboard's view of a Sample *)

(* BTN_... of abi.py *)
abi_BTN ==
  [MENU |-> 0, VIEW |-> 1, LS |-> 2, RS |-> 3, A |-> 4, B |-> 5, X |-> 6, Y |-> 7,
   DPAD_UP |-> 8, DPAD_DOWN |-> 9, DPAD_LEFT |-> 10, DPAD_RIGHT |-> 11,
   LB |-> 12, RB |-> 13]

btn(s, b) == HasBit(s.buttons, abi_BTN[b])

(* Mutation of ROWS: X and A change places. *)
ROWS_swapped ==
  {<<4096, "LB">>, <<8192, "RB">>,
   <<16, "X">>, <<128, "Y">>, <<64, "A">>, <<32, "B">>,
   <<1, "MENU">>, <<2, "VIEW">>, <<4, "LS">>, <<8, "RS">>,
   <<256, "DPAD_UP">>, <<512, "DPAD_DOWN">>, <<1024, "DPAD_LEFT">>, <<2048, "DPAD_RIGHT">>}

(* _ROWS of the button panel, which has masks of its own. *)
ROWS ==
  {<<4096, "LB">>, <<8192, "RB">>,
   <<64, "X">>, <<128, "Y">>, <<16, "A">>, <<32, "B">>,
   <<1, "MENU">>, <<2, "VIEW">>, <<4, "LS">>, <<8, "RS">>,
   <<256, "DPAD_UP">>, <<512, "DPAD_DOWN">>, <<1024, "DPAD_LEFT">>, <<2048, "DPAD_RIGHT">>}

(* The labels that buttons.update lights: buttons & mask. *)
lit(s) == {r[2] : r \in {q \in ROWS : (s.buttons \div q[1]) % 2 = 1}}

(* The dot of sticks._draw_stick on one axis, in pixels over 32768: y is   *)
(* drawn upwards.                                                          *)
dot_x(v) == 75 * 32768 + v * 70

dot_y(v) == 75 * 32768 - v * 70

(* The filled height of a trigger's bar, int(_BAR_H * value). *)
fill_h(t) == (120 * t) \div 255

-------------------------------------------------------------------------------
(* The teleoperation node's view: velocities over 65536 *)

Abs(v) == IF v < 0 THEN -v ELSE v

Sign(v) == IF v < 0 THEN -1 ELSE IF v = 0 THEN 0 ELSE 1

Clip(v, low, high) == IF v < low THEN low ELSE IF v > high THEN high ELSE v

teleop_DEADZONE == 1500

(* axis_to_unit over 32768, with its apply_deadzone *)
axis_to_unit(raw) ==
  IF Abs(raw) < teleop_DEADZONE THEN 0 ELSE Clip(raw, -32768, 32768)

linear_x(s) == 2 * axis_to_unit(s.ly)

angular_z(s) == -3 * axis_to_unit(s.lx)

-------------------------------------------------------------------------------
(* The mouse emulation's view *)

mouse_BTN == [LS |-> 2, RS |-> 3, LB |-> 12]

mouse_deadzone == 4000

(* apply_deadzone over 28768, the rest of the axis *)
mouse_unit(val) ==
  IF Abs(val) < mouse_deadzone THEN 0
  ELSE Sign(val) * Clip(Abs(val) - mouse_deadzone, 0, 28768)

-------------------------------------------------------------------------------
(* The motor command *)

(* abi.py: 0x40000000 | (MOTORS_SIZE << 16) | (ord("R") << 8) | 1 *)
abi_SET_MOTORS == 1073741824 + 2 * 65536 + 82 * 256 + 1

(* _IOC of rumble_teleop_node.py, with its shifts *)
teleop_SET_MOTORS ==
  LET NRSHIFT   == 0
      TYPESHIFT == NRSHIFT + 8
      SIZESHIFT == TYPESHIFT + 8
      DIRSHIFT  == SIZESHIFT + 14
  IN  1 * 2 ^ DIRSHIFT + 82 * 2 ^ TYPESHIFT + 1 * 2 ^ NRSHIFT + 2 * 2 ^ SIZESHIFT

(* The motor intensity the ioctl sends for a percentage: clamped, scaled   *)
(* to a byte.                                                              *)
intensity(pct) == ((Clip(pct, 0, 100) * 255) \div 100) % 256
===============================================================================
