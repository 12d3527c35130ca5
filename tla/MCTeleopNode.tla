----------------------------- MODULE MCTeleopNode -----------------------------
(* The instances of TeleopNode that TLC checks: one unread packet is       *)
(* enough for the reader to be late, and two haptic threads overlap.       *)
EXTENDS TeleopNode

const_MaxUnread == 1
===============================================================================
