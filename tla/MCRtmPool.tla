------------------------------ MODULE MCRtmPool ------------------------------
(* An instance of RtmPool for TLC.                                         *)
EXTENDS RtmPool

CONSTANTS t1, n1, n2

\* A power-down may come anywhere but between da16x_dpm_rtm_mem_free and the
\* store of free_ptr.
mcSleepAt ==
    (Calls \X Points) \ {<<"release", "getfree">>, <<"release", "putfree">>}
==============================================================================
