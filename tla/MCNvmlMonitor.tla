----------------------------- MODULE MCNvmlMonitor -----------------------------
(***************************************************************************)
(* Two devices and two rounds of samples in a cycle, or one if it is slow.    *)
(***************************************************************************)
EXTENDS NvmlMonitor
=============================================================================
