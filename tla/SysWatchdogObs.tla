-------------------------- MODULE SysWatchdogObs --------------------------
(***************************************************************************)
(* SysWatchdog with history: which identifiers notified since the counter  *)
(* was last restarted, whom a reset found silent, and how long a hung task *)
(* has left.                                                               *)
(***************************************************************************)
EXTENDS SysWatchdog

VARIABLES
    heard,          \* identifiers notified since the counter was restarted
    culprit,        \* the due identifiers a reset found not heard
    lifetime        \* per hung task: intervals it may still pass

obsVars == <<heard, culprit, lifetime>>
allVars == <<vars, obsVars>>

\* A task's notification counts for one interval, each unit of latency for
\* one more.
MaxLifetime == MaxLatency + 1

ObsInit ==
    /\ Init
    /\ heard = {} /\ culprit = {}
    /\ lifetime = [t \in Task |-> MaxLifetime]

\* The watchdog was satisfied: an interval ends for every hung task that is
\* monitored.
Satisfied ==
    \/ \E t \in Task : pc[t] = "compare" /\ pc'[t] = "reload"
    \/ counter = 0 /\ counter' > 0 /\ pc' = pc

Restarted ==
    \/ Satisfied /\ pc' = pc
    \/ \E t \in Task : pc[t] = "enable" /\ pc'[t] # "enable"
    \/ ~active /\ active'

Stored(t) == pc[t] = "store" /\ pc'[t] = "compare"

\* A notify is between its load and its store of the mask and will put the
\* notification of t back, whatever the interrupt makes of the mask meanwhile.
PutBack(t) == \E u \in Task : pc[u] = "store" /\ held[t] \in loaded[u]

Lifetime(t) ==
    IF hung' = hung
    THEN IF Satisfied /\ Watched(t) /\ ~PutBack(t) /\ lifetime[t] >= 0
         THEN lifetime[t] - 1 ELSE lifetime[t]
    ELSE IF t \in hung' \ hung /\ held[t] # -1
         THEN tasks_latency[held[t]] + 1
         ELSE lifetime[t]

Watch ==
    /\ heard' = IF Restarted THEN {}
                ELSE heard \cup {nid[t] : t \in {u \in Task : Stored(u)}}
    /\ culprit' = IF reset' THEN Due \ heard ELSE culprit
    /\ lifetime' = [t \in Task |-> Lifetime(t)]

ObsRestart ==
    /\ Restart
    /\ heard' = {} /\ culprit' = {}
    /\ lifetime' = [t \in Task |-> MaxLifetime]

ObsNext ==
    \/ (\E t \in Task : TaskNext(t) \/ NotifyNext(t)) /\ Watch
    \/ HwNext /\ Watch
    \/ da16x_sys_watchdog_disable /\ Watch
    \/ da16x_sys_watchdog_enable /\ Watch
    \/ da16x_sys_watchdog_set_rescale_time /\ Watch
    \/ ObsRestart

ObsSpec == ObsInit /\ [][ObsNext]_allVars

ObsFairSpec == ObsSpec /\ Fairness

-----------------------------------------------------------------------------
\* The chip is reset only when a monitored task with no latency left has not
\* notified since the counter was restarted, or when a task has emptied the
\* notified mask and not yet restarted the counter
\* (da16x_sys_watchdog_reset_watchdog).
RebootForSilence ==
    reset => culprit # {} \/ \E t \in Task : pc[t] \in {"reload", "enable"}

\* A monitored task that hangs passes at most its latency and one more
\* interval, whatever the other tasks call, not counting the intervals that
\* end while another task's da16x_sys_watchdog_notify_about_task has loaded
\* the hung task's notification and not yet stored it back.
HungSurvival == \A t \in Task : lifetime[t] >= 0

\* A monitored task that hangs is found: the chip is reset
\* (da16x_sys_watchdog_callback), unless the interrupt again and again falls
\* between that load and that store.
HungDetected ==
    \A t \in Task : (Watched(t) ~> reset)
                    \/ []<><<Satisfied /\ PutBack(t)>>_allVars
=============================================================================
