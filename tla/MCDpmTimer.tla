----------------------------- MODULE MCDpmTimer -----------------------------
(* Instances of DpmTimer for TLC.                                          *)
EXTENDS DpmTimer

CONSTANTS c1, c2, m1, n1

mcRegistered == {<<NoName, 4>>}

mcOps == {"create", "delete", "change", "register", "cancel", "all2"}
=============================================================================
