----------------------------- MODULE MCRumbleMouse -----------------------------
(* RumbleMouse with a pixel of three units and deflections that leave a    *)
(* residue of either sign, and a movement of more than a pixel.            *)
EXTENDS RumbleMouse

const_Pixel == 3
const_Deflections == {-2, 0, 4}
const_MaxUnread == 2
===============================================================================
