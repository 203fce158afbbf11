--------------------------- MODULE MCDpmSleepObs ---------------------------
(* Instances of DpmSleepObs for TLC.                                       *)
EXTENDS MCDpmSleep, DpmSleepObs
=============================================================================
