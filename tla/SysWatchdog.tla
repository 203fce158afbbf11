---------------------------- MODULE SysWatchdog ----------------------------
(***************************************************************************)
(* The software watchdog, core/system/src/common/da16x_sys_watchdog.c.     *)
(* Tasks register, notify, suspend and resume under one semaphore; the     *)
(* hardware watchdog counts down and its interrupt, which takes no         *)
(* semaphore, restarts the counter when every monitored task has notified  *)
(* and resets the chip otherwise.                                          *)
(*                                                                         *)
(* The masks are sets of identifiers.  The interrupt may come between any  *)
(* two steps; an API function whose accesses it cannot tell apart is one   *)
(* step, notify is the load and the store of the notified mask, the        *)
(* comparison that empties it, and the two register writes that restart    *)
(* the counter.                                                            *)
(***************************************************************************)
EXTENDS Integers

CONSTANTS
    Task,           \* tasks that register
    NoTask,
    MaxTasks,       \* DA16X_SYS_WDOG_MAX_TASKS_CNT
    MaxLatency,     \* bound on the latency a task asks for
    Period,         \* bound on the rescale time, in ticks of the counter
    Ops             \* the API functions the tasks call

AllOps == {"suspend", "resume", "latency", "rescale", "disable", "idle"}

ASSUME WatchdogAssumption ==
    /\ MaxTasks \in Nat \ {0}
    /\ MaxLatency \in Nat
    /\ Period \in Nat \ {0}
    /\ NoTask \notin Task
    /\ Ops \subseteq AllOps

Id == 0 .. MaxTasks - 1

VARIABLES
    tasks_mask,
    tasks_monitored_mask,
    tasks_notified_mask,
    tasks_latency,
    idle_task_id,   \* -1 until it is configured
    sem,            \* the task that holds wdog_fsm->mutex
    active,         \* da16x_sys_wdog_active
    rescale_time,
    wdog_off,       \* the driver ignores every request but WDOG_SET_ON
    setvalue,       \* what the driver loads into the counter
    running,        \* the counter's control register is not 0
    counter,        \* the hardware counter
    pc,             \* per task: where it is in notify
    nid,            \* per task: the identifier it notifies
    loaded,         \* per task: the notified mask it loaded
    held,           \* per task: the identifier register returned, -1 for none
    hung,           \* tasks that make no call any more
    reset           \* the chip is being reset

maskVars == <<tasks_mask, tasks_monitored_mask, tasks_notified_mask,
              tasks_latency>>
ctlVars  == <<active, rescale_time>>
hwVars   == <<wdog_off, setvalue, running, counter, reset>>
callVars == <<sem, pc, nid, loaded>>
taskVars == <<held, hung, idle_task_id>>
vars     == <<maskVars, ctlVars, hwVars, callVars, taskVars>>

TypeOK ==
    /\ tasks_mask \subseteq Id
    /\ tasks_monitored_mask \subseteq Id
    /\ tasks_notified_mask \subseteq Id
    /\ tasks_latency \in [Id -> 0 .. MaxLatency]
    /\ idle_task_id \in Id \cup {-1}
    /\ sem \in Task \cup {NoTask}
    /\ active \in BOOLEAN /\ wdog_off \in BOOLEAN
    /\ running \in BOOLEAN /\ reset \in BOOLEAN
    /\ rescale_time \in 1 .. Period /\ setvalue \in 1 .. Period
    /\ counter \in 0 .. Period
    /\ pc \in [Task -> {"idle", "load", "store", "compare", "reload", "enable",
                     "idleWait"}]
    /\ nid \in [Task -> Id]
    /\ loaded \in [Task -> SUBSET Id]
    /\ held \in [Task -> Id \cup {-1}]
    /\ hung \subseteq Task

Init ==
    /\ tasks_mask = {} /\ tasks_monitored_mask = {} /\ tasks_notified_mask = {}
    /\ tasks_latency = [i \in Id |-> 0]
    /\ idle_task_id = -1
    /\ sem = NoTask
    /\ active = TRUE /\ wdog_off = FALSE /\ running = TRUE /\ reset = FALSE
    /\ rescale_time = Period /\ setvalue = Period /\ counter = Period
    /\ pc = [t \in Task |-> "idle"]
    /\ nid = [t \in Task |-> 0]
    /\ loaded = [t \in Task |-> {}]
    /\ held = [t \in Task |-> -1]
    /\ hung = {}

-----------------------------------------------------------------------------
\* A task that is outside every call.
Runs(t) == ~reset /\ t \notin hung /\ pc[t] = "idle"

\* A call that gets the semaphore, finishes, and gives it back.
Calls(t) == Runs(t) /\ active /\ sem = NoTask

\* da16x_sys_watchdog_get_empty_id, the first id outside tasks_mask.
FirstFree == CHOOSE i \in Id \ tasks_mask : \A j \in Id \ tasks_mask : i <= j

\* Fault: identifiers in use are given out again.
LastIdReused == 0

\* What register returns: with no id left, the 0 of get_mutex.
RegisteredId == IF tasks_mask = Id THEN 0 ELSE FirstFree

da16x_sys_watchdog_register(t) ==
    /\ Calls(t)
    /\ held[t] = -1
    /\ LET id == RegisteredId IN
       /\ held' = [held EXCEPT ![t] = id]
       /\ IF tasks_mask = Id
          THEN UNCHANGED <<tasks_mask, tasks_monitored_mask>>
          ELSE /\ tasks_mask' = tasks_mask \cup {id}
               /\ tasks_monitored_mask' = tasks_monitored_mask \cup {id}
    /\ UNCHANGED <<tasks_notified_mask, tasks_latency, ctlVars, hwVars,
                   callVars, hung, idle_task_id>>

\* Fault: the bit of the monitored mask stays.
StillMonitored(id) == tasks_monitored_mask

\* da16x_sys_watchdog_unmask_monitored_task.
Unmonitored(id) == tasks_monitored_mask \ {id}

\* With the watchdog disabled the call does nothing; its callers do not look
\* at the result.
da16x_sys_watchdog_unregister(t) ==
    /\ Runs(t)
    /\ held[t] # -1
    /\ held' = [held EXCEPT ![t] = -1]
    /\ IF active
       THEN /\ sem = NoTask
            /\ tasks_mask' = tasks_mask \ {held[t]}
            /\ tasks_monitored_mask' = Unmonitored(held[t])
            /\ tasks_latency' = [tasks_latency EXCEPT ![held[t]] = 0]
       ELSE UNCHANGED <<tasks_mask, tasks_monitored_mask, tasks_latency>>
    /\ UNCHANGED <<tasks_notified_mask, ctlVars, hwVars, callVars, hung,
                   idle_task_id>>

da16x_sys_watchdog_configure_idle_id(t) ==
    /\ "idle" \in Ops
    /\ Runs(t) /\ active
    /\ held[t] # -1
    /\ idle_task_id' = held[t]
    /\ UNCHANGED <<maskVars, ctlVars, hwVars, callVars, held, hung>>

da16x_sys_watchdog_suspend(t) ==
    /\ "suspend" \in Ops
    /\ Calls(t)
    /\ held[t] # -1
    /\ tasks_monitored_mask' = Unmonitored(held[t])
    /\ UNCHANGED <<tasks_mask, tasks_notified_mask, tasks_latency, ctlVars,
                   hwVars, callVars, taskVars>>

\* Fault: the mask of the registered tasks is not applied.
ResumedAnyway(id) == tasks_monitored_mask \cup {id}

\* da16x_sys_watchdog_resume_monitoring.
Resumed(id) == (tasks_monitored_mask \cup {id}) \cap tasks_mask

da16x_sys_watchdog_resume(t) ==
    /\ "resume" \in Ops
    /\ Calls(t)
    /\ held[t] # -1
    /\ tasks_monitored_mask' = Resumed(held[t])
    /\ UNCHANGED <<tasks_mask, tasks_notified_mask, tasks_latency, ctlVars,
                   hwVars, callVars, taskVars>>

da16x_sys_watchdog_set_latency(t) ==
    /\ "latency" \in Ops
    /\ Calls(t)
    /\ held[t] # -1
    /\ \E l \in 0 .. MaxLatency :
          tasks_latency' = [tasks_latency EXCEPT ![held[t]] = l]
    /\ UNCHANGED <<tasks_mask, tasks_monitored_mask, tasks_notified_mask,
                   ctlVars, hwVars, callVars, taskVars>>

-----------------------------------------------------------------------------
(* da16x_sys_watchdog_notify and da16x_sys_watchdog_notify_and_resume.     *)

TakeSem(t, id) ==
    /\ sem' = t
    /\ pc' = [pc EXCEPT ![t] = "load"]
    /\ nid' = [nid EXCEPT ![t] = id]
    /\ UNCHANGED loaded

da16x_sys_watchdog_notify(t) ==
    /\ Calls(t)
    /\ held[t] # -1
    /\ TakeSem(t, held[t])
    /\ UNCHANGED <<maskVars, ctlVars, hwVars, taskVars>>

\* Monitoring is resumed before the task counts as notified.
da16x_sys_watchdog_notify_and_resume(t) ==
    /\ "resume" \in Ops
    /\ Calls(t)
    /\ held[t] # -1
    /\ TakeSem(t, held[t])
    /\ tasks_monitored_mask' = Resumed(held[t])
    /\ UNCHANGED <<tasks_mask, tasks_notified_mask, tasks_latency, ctlVars,
                   hwVars, taskVars>>

At(t, place) == ~reset /\ pc[t] = place

\* The call goes on at place, or gives the semaphore back and, for a task
\* other than the idle task, notifies for the idle task too.
GoOn(t, place) ==
    /\ pc' = [pc EXCEPT ![t] = place]
    /\ UNCHANGED <<sem, nid>>

Finish(t) ==
    /\ pc' = [pc EXCEPT ![t] = IF idle_task_id \notin {-1, nid[t]}
                               THEN "idleWait" ELSE "idle"]
    /\ sem' = NoTask
    /\ UNCHANGED nid

\* da16x_sys_watchdog_notify_about_task.
NotifyLoad(t) ==
    /\ At(t, "load")
    /\ IF active
       THEN /\ loaded' = [loaded EXCEPT ![t] = tasks_notified_mask]
            /\ GoOn(t, IF nid[t] \in tasks_mask THEN "store" ELSE "compare")
       ELSE Finish(t) /\ UNCHANGED loaded
    /\ UNCHANGED <<maskVars, ctlVars, hwVars, taskVars>>

NotifyStore(t) ==
    /\ At(t, "store")
    /\ tasks_notified_mask' = loaded[t] \cup {nid[t]}
    /\ tasks_latency' = [tasks_latency EXCEPT ![nid[t]] = 0]
    /\ GoOn(t, "compare")
    /\ loaded' = [loaded EXCEPT ![t] = {}]
    /\ UNCHANGED <<tasks_mask, tasks_monitored_mask, ctlVars, hwVars,
                   taskVars>>

\* Fault: one notification is enough.
AnyNotified(mask) == mask \cap tasks_notified_mask # {}

AllNotified(mask) == mask \subseteq tasks_notified_mask

\* Fault: the notifications of the last interval are kept.
NotifiedKept == tasks_notified_mask

\* da16x_sys_watchdog_reset_watchdog empties the mask and then restarts the
\* counter.
NotifiedAfterReset == {}

NotifyCompare(t) ==
    /\ At(t, "compare")
    /\ IF AllNotified(tasks_monitored_mask)
       THEN tasks_notified_mask' = NotifiedAfterReset /\ GoOn(t, "reload")
       ELSE UNCHANGED tasks_notified_mask /\ Finish(t)
    /\ UNCHANGED <<tasks_mask, tasks_monitored_mask, tasks_latency, loaded,
                   ctlVars, hwVars, taskVars>>

\* da16x_sys_watchdog_active: the counter is stopped and its start value set,
\* then it is started.  The driver tests wdog_off before each request.
NotifyReload(t) ==
    /\ At(t, "reload")
    /\ IF wdog_off
       THEN Finish(t) /\ UNCHANGED <<running, setvalue>>
       ELSE /\ running' = FALSE
            /\ setvalue' = rescale_time
            /\ GoOn(t, "enable")
    /\ UNCHANGED <<maskVars, loaded, ctlVars, wdog_off, counter, reset,
                   taskVars>>

\* The test may come before the console's switch-off and the start after it.
NotifyEnable(t) ==
    /\ At(t, "enable")
    /\ \/ running' = TRUE /\ counter' = setvalue
       \/ wdog_off /\ UNCHANGED <<running, counter>>
    /\ Finish(t)
    /\ UNCHANGED <<maskVars, loaded, ctlVars, wdog_off, setvalue, reset,
                   taskVars>>

NotifyIdle(t) ==
    /\ At(t, "idleWait")
    /\ IF active
       THEN /\ sem = NoTask
            /\ TakeSem(t, idle_task_id)
       ELSE /\ pc' = [pc EXCEPT ![t] = "idle"]
            /\ UNCHANGED <<sem, nid, loaded>>
    /\ UNCHANGED <<maskVars, ctlVars, hwVars, taskVars>>

-----------------------------------------------------------------------------
(* The hardware.                                                           *)

Tick ==
    /\ ~reset /\ running
    /\ counter > 0
    /\ counter' = counter - 1
    /\ UNCHANGED <<maskVars, ctlVars, wdog_off, setvalue, running, reset,
                   callVars, taskVars>>

\* Fault: a latency of 0 is decremented too.
LatencyBelowZero(i) == tasks_latency[i] - 1

\* Fault: the latency is not used up.
LatencyKept(i) == tasks_latency[i]

LatencyLeft(i) == IF tasks_latency[i] > 0 THEN tasks_latency[i] - 1 ELSE 0

\* The monitored tasks without latency.
Due == {i \in tasks_monitored_mask : tasks_latency[i] = 0}

\* da16x_sys_watchdog_callback, the interrupt of the expired counter.  A
\* driver that is off restarts the counter with the value it already has.
da16x_sys_watchdog_callback ==
    /\ ~reset /\ running
    /\ counter = 0
    /\ tasks_latency' = [i \in Id |-> LatencyLeft(i)]
    /\ IF AllNotified(Due)
       THEN /\ tasks_notified_mask' = NotifiedAfterReset
            /\ setvalue' = IF wdog_off THEN setvalue ELSE rescale_time
            /\ counter' = setvalue'
            /\ UNCHANGED reset
       ELSE /\ reset' = TRUE
            /\ UNCHANGED <<tasks_notified_mask, setvalue, counter>>
    /\ UNCHANGED <<tasks_mask, tasks_monitored_mask, ctlVars, wdog_off,
                   running, callVars, taskVars>>

\* The console, or an iperf session, switches the watchdog off and on.
da16x_sys_watchdog_disable ==
    /\ "disable" \in Ops
    /\ ~reset /\ active
    /\ wdog_off' = TRUE /\ running' = FALSE /\ active' = FALSE
    /\ UNCHANGED <<maskVars, rescale_time, setvalue, counter, reset, callVars,
                   taskVars>>

da16x_sys_watchdog_enable ==
    /\ ~reset /\ ~active
    /\ wdog_off' = FALSE /\ running' = TRUE /\ active' = TRUE
    /\ counter' = setvalue
    /\ UNCHANGED <<maskVars, rescale_time, setvalue, reset, callVars,
                   taskVars>>

da16x_sys_watchdog_set_rescale_time ==
    /\ "rescale" \in Ops
    /\ ~reset /\ active /\ sem = NoTask
    /\ rescale_time' \in 1 .. Period
    /\ UNCHANGED <<maskVars, active, hwVars, callVars, taskVars>>

\* A task stops making calls.
Hang(t) ==
    /\ Runs(t)
    /\ hung' = hung \cup {t}
    /\ UNCHANGED <<maskVars, ctlVars, hwVars, callVars, held, idle_task_id>>

\* The chip starts again.
Restart ==
    /\ reset
    /\ tasks_mask' = {} /\ tasks_monitored_mask' = {}
    /\ tasks_notified_mask' = {}
    /\ tasks_latency' = [i \in Id |-> 0]
    /\ idle_task_id' = -1
    /\ sem' = NoTask
    /\ active' = TRUE /\ wdog_off' = FALSE /\ running' = TRUE /\ reset' = FALSE
    /\ rescale_time' = Period /\ setvalue' = Period /\ counter' = Period
    /\ pc' = [t \in Task |-> "idle"]
    /\ nid' = [t \in Task |-> 0]
    /\ loaded' = [t \in Task |-> {}]
    /\ held' = [t \in Task |-> -1]
    /\ hung' = {}

NotifyNext(t) ==
    \/ NotifyLoad(t) \/ NotifyStore(t) \/ NotifyCompare(t) \/ NotifyReload(t)
    \/ NotifyEnable(t) \/ NotifyIdle(t)

TaskNext(t) ==
    \/ da16x_sys_watchdog_register(t) \/ da16x_sys_watchdog_unregister(t)
    \/ da16x_sys_watchdog_configure_idle_id(t)
    \/ da16x_sys_watchdog_suspend(t) \/ da16x_sys_watchdog_resume(t)
    \/ da16x_sys_watchdog_set_latency(t)
    \/ da16x_sys_watchdog_notify(t) \/ da16x_sys_watchdog_notify_and_resume(t)
    \/ Hang(t)

HwNext == Tick \/ da16x_sys_watchdog_callback

Next ==
    \/ \E t \in Task : TaskNext(t) \/ NotifyNext(t)
    \/ HwNext
    \/ da16x_sys_watchdog_disable \/ da16x_sys_watchdog_enable
    \/ da16x_sys_watchdog_set_rescale_time
    \/ Restart

Spec == Init /\ [][Next]_vars

\* The counter counts; a call in progress goes on unless the chip is reset.
Fairness ==
    /\ WF_vars(HwNext)
    /\ \A t \in Task : WF_vars(NotifyNext(t))

-----------------------------------------------------------------------------
\* No two tasks hold the same identifier, so that none notifies, suspends or
\* unregisters for another (register's "identifier on success, -1 on failure").
IdsExclusive ==
    \A t, u \in Task : held[t] # -1 /\ held[t] = held[u] => t = u

\* Only registered identifiers are monitored, whatever suspends, resumes and
\* unregistrations overlap (resume_monitoring's mask).
MonitoredRegistered == tasks_monitored_mask \subseteq tasks_mask

\* An identifier that unregister gave back is not monitored any more
\* (da16x_sys_watchdog_unregister).
MonitoredHeld == \A i \in tasks_monitored_mask : \E t \in Task : held[t] = i

\* A hung task that the watchdog still monitors.
Watched(t) == t \in hung /\ held[t] \in tasks_monitored_mask
=============================================================================
