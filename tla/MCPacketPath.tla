----------------------------- MODULE MCPacketPath -----------------------------
(* PacketPath with a ring of four slots and four reports.  Every button    *)
(* has a pattern of its own over the four, and the twenty-four axis and    *)
(* trigger values are the edges of the types, of the bytes and of the two  *)
(* dead zones.                                                             *)
EXTENDS PacketPath, Bitwise

const_RingSize == 4

Report(b, l, r, x, y, u, v) ==
  [buttons |-> b, lt |-> l, rt |-> r, lx |-> x, ly |-> y, rx |-> u, ry |-> v]

Number == <<"MENU", "VIEW", "LS", "RS", "A", "B", "X", "Y", "DPAD_UP",
            "DPAD_DOWN", "DPAD_LEFT", "DPAD_RIGHT", "LB", "RB">>

(* The buttons whose number has bit k. *)
Pattern(k) == {Number[n] : n \in {m \in DOMAIN Number : HasBit(m, k)}}

R0 == Report(Pattern(0), 1023, 0, -32768, 32767, 1499, -1500)
R1 == Report(Pattern(1), 3, 4, 255, 256, -1, -256)
R2 == Report(Pattern(2), 512, 511, 1500, -1499, 4000, -3999)
R3 == Report(Pattern(3), 256, 1020, 0, 128, -4000, 32512)

ReportTable == {R0, R1, R2, R3}

Transfer(c, fl, st, n, r) ==
  [cmd |-> c, flags |-> fl, status |-> st, length |-> n, report |-> r, now |-> 16909060]

(* Whole input reports, one with more bytes after it; a short one, and one *)
(* that overflowed; a virtual key; and a long message of another kind.     *)
TransferTable ==
  <<Transfer(GIP_CMD_INPUT, 0, "0", BufSize, R0),
    Transfer(GIP_CMD_INPUT, 0, "0", BufSize, R1),
    Transfer(GIP_CMD_INPUT, 0, "0", BufSize, R2),
    Transfer(GIP_CMD_INPUT, 0, "0", XBOX_PKT_SIZE, R3),
    Transfer(GIP_CMD_INPUT, 0, "0", BufSize - 1, R1),
    Transfer(GIP_CMD_INPUT, 0, "EOVERFLOW", BufSize, R2),
    Transfer(7, 1, "0", 6, R0),
    Transfer(2, 0, "0", XBOX_PKT_SIZE, R3)>>

ZeroTable == decode([i \in 0 .. BufSize - 1 |-> 0], 0)

PacketTable ==
  {ZeroTable} \cup
  {decode(FrameBytes(Transfer(GIP_CMD_INPUT, 0, "0", BufSize, r)), 16909060) : r \in ReportTable}

(* Each constant is given by a definition of its own, which TLC evaluates  *)
(* once.                                                                   *)
const_Reports == ReportTable

const_Transfers == TransferTable

const_ZeroPacket == ZeroTable

const_Packet == PacketTable

(* An intensity is 0 only for no vibration at all, never wraps, and grows  *)
(* with the percentage up to the clamp, for every byte a program can send. *)
ASSUME IntensityScales ==
  \A pct \in Byte :
    /\ intensity(pct) = 0 <=> pct = 0
    /\ intensity(pct) = 255 <=> pct >= 100
    /\ pct < 255 => intensity(pct) <= intensity(pct + 1)

(* No position of a stick is faster than one farther out.  The dead zone   *)
(* of the node ends in a jump, that of the mouse does not.                 *)
ASSUME AxesMonotone ==
  \A v \in -32768 .. 32766 :
    /\ axis_to_unit(v) <= axis_to_unit(v + 1)
    /\ mouse_unit(v) \in mouse_unit(v + 1) - 1 .. mouse_unit(v + 1)

(* The code masks where RumbleRing takes the remainder: for a power of two *)
(* they are the same on every index the helpers form.                      *)
ASSUME MaskIsRemainder ==
  \A size \in {2, 4, 8, 16, 32, 64} :
    \A i \in 0 .. 2 * size : (i & (size - 1)) = i % size
===============================================================================
