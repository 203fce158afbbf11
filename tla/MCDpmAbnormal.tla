--------------------------- MODULE MCDpmAbnormal ---------------------------
(* An instance of DpmAbnormal for TLC.                                     *)
EXTENDS DpmAbnormal

mcMaxWait == <<2, 1, 1, 1, 1>>

\* "done", "key" and "nodpm" take the same paths as "arp", "noconn" and a held
\* check.
mcCondSets == {{}, {"noconn"}, {"noconn", "wps"}, {"noip"}, {"arp"},
               {"notready"}}
=============================================================================
