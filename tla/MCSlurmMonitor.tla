--------------------------- MODULE MCSlurmMonitor ---------------------------
(* Small instances of slurm_monitor. *)
EXTENDS SlurmMonitor
=============================================================================
