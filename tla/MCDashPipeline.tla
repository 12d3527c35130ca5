---------------------------- MODULE MCDashPipeline ----------------------------
(* The instances of DashPipeline that TLC checks: the smallest queue in    *)
(* which an entry can be dropped from before or behind another one.        *)
EXTENDS DashPipeline

const_QueueMax == 2
const_MaxAvail == 1
===============================================================================
