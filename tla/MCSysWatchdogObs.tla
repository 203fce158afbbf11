-------------------------- MODULE MCSysWatchdogObs --------------------------
(* Values of the constants for the runs of SysWatchdogObs. *)
EXTENDS SysWatchdogObs, TLC

CONSTANTS t1, t2

TwoTasks == {t1, t2}
Symmetry == Permutations(Task)

\* What applications call.
AppOps == {"suspend", "resume", "latency", "rescale"}
=============================================================================
