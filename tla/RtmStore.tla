------------------------------ MODULE RtmStore ------------------------------
(***************************************************************************)
(* What the user retention memory promises its callers                     *)
(* (core/system/include/dpm/da16x_dpm.h, dpm_user_rtm_allocate, _get and   *)
(* _release): a name owns a range of bytes from its allocation to its      *)
(* release, no two names share a byte, and nothing moves; a power-down     *)
(* keeps it all, and only a boot without retention memory begins anew.     *)
(***************************************************************************)
EXTENDS Integers

CONSTANTS
    Name,           \* the names of records
    Bytes,          \* the sizes asked for
    Last            \* the addresses are 0 .. Last

VARIABLES
    store,          \* the names that have memory, and where
    power           \* "done" in operation; off, with the memory kept
                    \* ("wakeup") or not ("fresh")

vars == <<store, power>>

Address == 0 .. Last

Owned(n) == store[n].from .. store[n].from + store[n].size - 1

Empty == [n \in {} |-> [from |-> 0, size |-> 0]]

Init == store = Empty /\ power = "fresh"

Allocate(n, from, size) ==
    /\ power = "done" /\ n \notin DOMAIN store
    /\ from + size - 1 \in Address
    /\ \A m \in DOMAIN store : Owned(m) \cap (from .. from + size - 1) = {}
    /\ store' = [m \in DOMAIN store \cup {n} |->
                   IF m = n THEN [from |-> from, size |-> size] ELSE store[m]]
    /\ power' = power

Release(n) ==
    /\ power = "done" /\ n \in DOMAIN store
    /\ store' = [m \in DOMAIN store \ {n} |-> store[m]]
    /\ power' = power

PowerOff ==
    /\ power = "done"
    /\ power' \in {"wakeup", "fresh"} /\ store' = store

Boot ==
    /\ power # "done"
    /\ power' = "done"
    /\ store' = IF power = "fresh" THEN Empty ELSE store

Next ==
    \/ \E n \in Name, from \in Address, size \in Bytes : Allocate(n, from, size)
    \/ \E n \in Name : Release(n)
    \/ PowerOff \/ Boot

Spec == Init /\ [][Next]_vars
=============================================================================
