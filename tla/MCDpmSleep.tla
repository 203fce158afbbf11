----------------------------- MODULE MCDpmSleep -----------------------------
(* Instances of DpmSleep for TLC.                                          *)
EXTENDS DpmSleep, TLC

CONSTANTS t1, t2, umac, supp, app

\* The driver's module is exempt from waiting for a power-down.
mcExempt == {umac}
mcNone == {}

\* One task makes every call.
mcUses1 == [t \in Task |-> Module]

\* Each module has a task of its own, the driver's task has two.
mcUses2 == [t \in Task |-> IF t = t1 THEN {app} ELSE Module \ {app}]

mcPort == [m \in Module |-> IF m = app THEN 1 ELSE 0]

\* The two tasks make the same calls.
taskSymmetry == Permutations(Task)

opsTable == {"reg", "unreg", "stop", "disable", "enable",
             "hold", "cmdhold", "resume", "rtc"}
opsLive == {"reg", "set", "clr", "all", "rcv", "rcvport", "init"}
opsLost == {"reg", "set"}
opsCalls == {"reg", "set", "clr", "all", "cmdhold", "resume"}
opsReuse == {"reg", "unreg", "init"}
=============================================================================
