----------------------------- MODULE MCDashWindow -----------------------------
(* DashWindow with histories of two intervals and two points, two pulse    *)
(* threads, and sliders at rest and at different positions.                *)
EXTENDS DashWindow

const_TIMING_HISTORY == 2
const_CIRC_HISTORY == 2
const_Ids == 3
const_Settings == {<<0, 0>>, <<30, 100>>}
===============================================================================
