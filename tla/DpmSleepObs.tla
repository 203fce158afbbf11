---------------------------- MODULE DpmSleepObs ----------------------------
(***************************************************************************)
(* DpmSleep with history variables that record what the callers of the API *)
(* were told and what the daemon did since, and the properties that relate *)
(* the two.  The history variables restrict no behaviour of DpmSleep.      *)
(***************************************************************************)
EXTENDS DpmSleep

VARIABLES
    asked,      \* per module: what its last finished call asked for
    undone,     \* the slots whose bit another call has changed or missed
    late        \* per objection: power-down attempts begun while it stands

obsVars == <<asked, undone, late>>

\* A registered slot that is not ready, or a held daemon, objects to the
\* power-down.
Objection == Slot \cup {Daemon}

\* A call in progress for m: set_dpm_all_flags is a call for every module.
CallsFor(frame, m) == frame.mod = m \/ frame.pc = "allStore"

\* set_dpm_sleep, clr_dpm_sleep or reg_dpm_sleep of caller c returns success.
SetDone(c) ==
    SetStore(c) \/ (SetFind(c) /\ Return(c) /\ Registered(call[c].mod))
ClearDone(c) == ClrStore(c) \/ RegStore(c)

AskedStep(m) ==
    IF Reboot \/ \E c \in Caller : CallsFor(call'[c], m) \/ AllStore(c)
    THEN "none"
    ELSE IF \E c \in Caller : call[c].mod = m /\ SetDone(c)
    THEN "sleep"
    ELSE IF \E c \in Caller : call[c].mod = m /\ ClearDone(c)
    THEN "awake"
    ELSE asked[m]

\* Caller c stores the sleep mask for a module in this step.
Stores(c) == RegStore(c) \/ UnregStore(c) \/ SetStore(c) \/ ClrStore(c)

\* The bits of other slots that have changed since c loaded the mask.
Stale(c) ==
    {i \in Slot \ {call[c].idx} :
        (i \in call[c].tmp) # (i \in dpm_sleep_set_flag)}

\* The slot that c found has changed hands, or the table entry remembered
\* another one: that slot, and the one that c should have found.
Astray(c) ==
    IF call[c].pc = "regStore" \/ mod_name[call[c].idx] = call[c].mod
    THEN {} ELSE {call[c].idx} \cup Named(call[c].mod)

UndoneBy(c) == (undone \ {call[c].idx}) \cup Stale(c) \cup Astray(c)

UndoneStep ==
    LET writers == {c \in Caller : Stores(c)} IN
    IF writers = {} THEN undone ELSE UNION {UndoneBy(c) : c \in writers}

Objects(o) == IF o = Daemon
              THEN dpm_daemon_hold_flag \/ dpm_daemon_cmd_hold_flag
              ELSE o \in reg_dpm_req_flag \ dpm_sleep_set_flag

LateStep(o) ==
    IF ~Objects(o)' THEN 0
    ELSE IF d_pc = "commit" /\ d_pc' = "psCmd" /\ late[o] < 2
    THEN late[o] + 1
    ELSE late[o]

ObsInit ==
    /\ asked = [m \in Module |-> "none"]
    /\ undone = {}
    /\ late = [o \in Objection |-> 0]

ObsStep ==
    /\ asked' = [m \in Module |-> AskedStep(m)]
    /\ undone' = UndoneStep
    /\ late' = [o \in Objection |-> LateStep(o)]

ObsSpec == Init /\ ObsInit /\ [][Next /\ ObsStep]_<<vars, obsVars>>

-----------------------------------------------------------------------------
\* Once set_dpm_sleep has returned DPM_SET_OK for a module, the module's bit
\* stays set until the next call made for it: no other call, for another
\* module or by the daemon, takes it away (set_dpm_sleep, unreg_dpm_sleep).
SetSticks ==
    \A m \in Module :
        asked[m] = "sleep" /\ Registered(m) => SlotOf(m) \in dpm_sleep_set_flag

\* What remains of SetSticks with any number of callers, the daemon's own
\* clr_dpm_sleep and set_dpm_all_flags among them: nothing takes the bit away
\* but the store of a mask that was out of date, or a call whose slot has
\* changed hands since it looked it up (set_dpm_sleep, clr_dpm_sleep,
\* reg_dpm_sleep, unreg_dpm_sleep).
SetsKept ==
    \A m \in Module :
        asked[m] = "sleep" /\ Registered(m)
            => SlotOf(m) \in dpm_sleep_set_flag \cup undone

\* The same for a module whose clr_dpm_sleep or reg_dpm_sleep has returned:
\* its bit stays clear, so that the daemon cannot find every bit set
\* (clr_dpm_sleep, reg_dpm_sleep, unreg_dpm_sleep).
ClearsKept ==
    \A m \in Module :
        asked[m] = "awake" /\ Registered(m)
            => SlotOf(m) \notin dpm_sleep_set_flag \ undone

\* The daemon decides first and raises dpm_pdown_state later, so an objection
\* (a registered slot that is not ready, a held daemon) can come too late for
\* the attempt under way; while it stands it stops every later one, whoever
\* calls what meanwhile (dpm_sleep_daemon's loop).
AtMostOneLateAttempt == \A o \in Objection : late[o] <= 1
=============================================================================
