------------------------- MODULE SysWatchdogProofs -------------------------
(***************************************************************************)
(* Proofs about SysWatchdog, for every set of tasks, every number of       *)
(* identifiers, every latency and every period; and, in the second part,   *)
(* about SysWatchdogObs: whom a reset punishes, and how long a task that   *)
(* hangs passes.                                                           *)
(***************************************************************************)
EXTENDS SysWatchdogObs, FiniteSetTheorems, WellFoundedInduction, TLAPS

\* The identifiers are natural numbers, and 0 is one of them.
LEMMA ZeroId == 0 \in Id /\ Id \subseteq Nat /\ -1 \notin Id
  BY WatchdogAssumption DEF Id

\* The scan for an empty identifier ends at one, unless all are in use.
LEMMA FirstFreeIsFree ==
    ASSUME tasks_mask # Id, tasks_mask \subseteq Id
    PROVE  FirstFree \in Id \ tasks_mask
<1> DEFINE S == Id \ tasks_mask
<1>1. S \subseteq Nat /\ S # {}
  BY ZeroId
<1>2. PICK x \in S : \A y \in S : ~(<<y, x>> \in OpToRel(<, Nat))
  BY <1>1, NatLessThanWellFounded, WFMin, Zenon
<1>3. ASSUME NEW y \in S PROVE x <= y
  <2>1. ~(y < x)
    BY <1>1, <1>2 DEF OpToRel
  <2> QED
    BY <1>1, <2>1
<1> QED
  BY <1>3 DEF FirstFree

\* What register returns is an identifier.
LEMMA RegisteredIdTyped ==
    ASSUME tasks_mask \subseteq Id
    PROVE  RegisteredId \in Id
  BY FirstFreeIsFree, ZeroId DEF RegisteredId

-----------------------------------------------------------------------------
(* The type invariant.  A task that is about to notify for the idle task   *)
(* relies on the idle identifier being configured still.                   *)

IdleConfigured == \A t \in Task : pc[t] = "idleWait" => idle_task_id # -1

\* The types of the variables that hold no Boolean.
DataTypeOK ==
    /\ tasks_mask \subseteq Id
    /\ tasks_monitored_mask \subseteq Id
    /\ tasks_notified_mask \subseteq Id
    /\ tasks_latency \in [Id -> 0 .. MaxLatency]
    /\ idle_task_id \in Id \cup {-1}
    /\ sem \in Task \cup {NoTask}
    /\ rescale_time \in 1 .. Period /\ setvalue \in 1 .. Period
    /\ counter \in 0 .. Period
    /\ pc \in [Task -> {"idle", "load", "store", "compare", "reload", "enable",
                        "idleWait"}]
    /\ nid \in [Task -> Id]
    /\ loaded \in [Task -> SUBSET Id]
    /\ held \in [Task -> Id \cup {-1}]
    /\ hung \subseteq Task

\* The types of the Boolean variables.
FlagTypeOK ==
    /\ active \in BOOLEAN /\ wdog_off \in BOOLEAN
    /\ running \in BOOLEAN /\ reset \in BOOLEAN

WInv == DataTypeOK /\ FlagTypeOK /\ IdleConfigured

\* When the chip starts the variables have their types.
LEMMA WInit == Init => WInv
<1> SUFFICES ASSUME Init PROVE WInv
  OBVIOUS
<1>1. DataTypeOK
  BY ZeroId, WatchdogAssumption DEF Init, DataTypeOK
<1>2. FlagTypeOK
  BY Zenon DEF Init, FlagTypeOK
<1>3. IdleConfigured
  BY DEF Init, IdleConfigured
<1> QED
  BY <1>1, <1>2, <1>3 DEF WInv

\* The functions a task calls and that leave the notification of a task that
\* is already going on alone preserve the types.
LEMMA WTask ==
    ASSUME WInv, NEW t \in Task, TaskNext(t)
    PROVE  DataTypeOK' /\ IdleConfigured'
<1> USE DEF DataTypeOK, IdleConfigured, WInv, maskVars, ctlVars, hwVars,
            callVars, taskVars
<1>1. CASE da16x_sys_watchdog_register(t)
  BY <1>1, RegisteredIdTyped DEF da16x_sys_watchdog_register
<1>2. CASE da16x_sys_watchdog_unregister(t)
  <2>1. held[t] \in Id
    BY <1>2 DEF da16x_sys_watchdog_unregister
  <2>2. 0 \in 0 .. MaxLatency
    BY WatchdogAssumption
  <2> QED
    BY <1>2, <2>1, <2>2 DEF da16x_sys_watchdog_unregister, Unmonitored
<1>3. CASE da16x_sys_watchdog_configure_idle_id(t)
  BY <1>3 DEF da16x_sys_watchdog_configure_idle_id
<1>4. CASE da16x_sys_watchdog_suspend(t)
  BY <1>4 DEF da16x_sys_watchdog_suspend, Unmonitored
<1>5. CASE da16x_sys_watchdog_resume(t)
  BY <1>5 DEF da16x_sys_watchdog_resume, Resumed
<1>6. CASE da16x_sys_watchdog_set_latency(t)
  BY <1>6 DEF da16x_sys_watchdog_set_latency
<1>7. CASE da16x_sys_watchdog_notify(t)
  BY <1>7 DEF da16x_sys_watchdog_notify, TakeSem
<1>8. CASE da16x_sys_watchdog_notify_and_resume(t)
  BY <1>8 DEF da16x_sys_watchdog_notify_and_resume, TakeSem, Resumed
<1>9. CASE Hang(t)
  BY <1>9 DEF Hang
<1> QED
  BY <1>1, <1>2, <1>3, <1>4, <1>5, <1>6, <1>7, <1>8, <1>9 DEF TaskNext

\* A step of a notification preserves the types.
LEMMA WNotify ==
    ASSUME WInv, NEW t \in Task, NotifyNext(t)
    PROVE  DataTypeOK' /\ IdleConfigured'
<1> USE DEF DataTypeOK, IdleConfigured, WInv, maskVars, ctlVars, hwVars,
            callVars, taskVars, At
<1>1. CASE NotifyLoad(t)
  <2>1. CASE active
    BY <1>1, <2>1 DEF NotifyLoad, GoOn
  <2>2. CASE ~active
    BY <1>1, <2>2 DEF NotifyLoad, Finish
  <2> QED
    BY <2>1, <2>2
<1>2. CASE NotifyStore(t)
  <2>1. 0 \in 0 .. MaxLatency
    BY WatchdogAssumption
  <2> QED
    BY <1>2, <2>1 DEF NotifyStore, GoOn
<1>3. CASE NotifyCompare(t)
  <2>1. CASE AllNotified(tasks_monitored_mask)
    BY <1>3, <2>1 DEF NotifyCompare, GoOn, NotifiedAfterReset
  <2>2. CASE ~AllNotified(tasks_monitored_mask)
    BY <1>3, <2>2 DEF NotifyCompare, Finish
  <2> QED
    BY <2>1, <2>2
<1>4. CASE NotifyReload(t)
  <2>1. CASE wdog_off
    BY <1>4, <2>1 DEF NotifyReload, Finish
  <2>2. CASE ~wdog_off
    BY <1>4, <2>2 DEF NotifyReload, GoOn
  <2> QED
    BY <2>1, <2>2
<1>5. CASE NotifyEnable(t)
  BY <1>5, WatchdogAssumption DEF NotifyEnable, Finish
<1>6. CASE NotifyIdle(t)
  <2>1. idle_task_id \in Id
    BY <1>6 DEF NotifyIdle
  <2> QED
    BY <1>6, <2>1 DEF NotifyIdle, TakeSem
<1> QED
  BY <1>1, <1>2, <1>3, <1>4, <1>5, <1>6 DEF NotifyNext

\* The counter, its interrupt, the console and a restart preserve the types.
LEMMA WRest ==
    ASSUME WInv,
           \/ HwNext \/ da16x_sys_watchdog_disable
           \/ da16x_sys_watchdog_enable \/ da16x_sys_watchdog_set_rescale_time
           \/ Restart
    PROVE  DataTypeOK' /\ IdleConfigured'
<1> USE DEF DataTypeOK, IdleConfigured, WInv, maskVars, ctlVars, hwVars,
            callVars, taskVars
<1>1. CASE Tick
  BY <1>1, WatchdogAssumption DEF Tick
<1>2. CASE da16x_sys_watchdog_callback
  <2>1. \A i \in Id : LatencyLeft(i) \in 0 .. MaxLatency
    BY WatchdogAssumption DEF LatencyLeft
  <2>2. tasks_latency' \in [Id -> 0 .. MaxLatency]
    BY <1>2, <2>1 DEF da16x_sys_watchdog_callback
  <2>3. CASE AllNotified(Due)
    <3>1. setvalue' \in 1 .. Period /\ counter' \in 0 .. Period
      BY <1>2, <2>3, WatchdogAssumption DEF da16x_sys_watchdog_callback
    <3> QED
      BY <1>2, <2>2, <2>3, <3>1
         DEF da16x_sys_watchdog_callback, NotifiedAfterReset
  <2>4. CASE ~AllNotified(Due)
    BY <1>2, <2>2, <2>4 DEF da16x_sys_watchdog_callback
  <2> QED
    BY <2>3, <2>4
<1>3. CASE da16x_sys_watchdog_disable
  BY <1>3 DEF da16x_sys_watchdog_disable
<1>4. CASE da16x_sys_watchdog_enable
  BY <1>4, WatchdogAssumption DEF da16x_sys_watchdog_enable
<1>5. CASE da16x_sys_watchdog_set_rescale_time
  BY <1>5 DEF da16x_sys_watchdog_set_rescale_time
<1>6. CASE Restart
  BY <1>6, ZeroId, WatchdogAssumption DEF Restart
<1> QED
  BY <1>1, <1>2, <1>3, <1>4, <1>5, <1>6 DEF HwNext

\* No step makes a Boolean anything else.
LEMMA WFlags ==
    ASSUME FlagTypeOK, [Next]_vars
    PROVE  FlagTypeOK'
<1> USE Zenon DEF FlagTypeOK, maskVars, ctlVars, hwVars, callVars, taskVars
<1>1. CASE \E t \in Task : TaskNext(t)
  BY <1>1 DEF TaskNext, da16x_sys_watchdog_register,
     da16x_sys_watchdog_unregister, da16x_sys_watchdog_configure_idle_id,
     da16x_sys_watchdog_suspend, da16x_sys_watchdog_resume,
     da16x_sys_watchdog_set_latency, da16x_sys_watchdog_notify,
     da16x_sys_watchdog_notify_and_resume, Hang
<1>2. CASE \E t \in Task : NotifyNext(t)
  BY <1>2 DEF NotifyNext, NotifyLoad, NotifyStore, NotifyCompare,
     NotifyReload, NotifyEnable, NotifyIdle
<1>3. CASE HwNext
  BY <1>3 DEF HwNext, Tick, da16x_sys_watchdog_callback
<1>4. CASE da16x_sys_watchdog_disable \/ da16x_sys_watchdog_enable
  BY <1>4 DEF da16x_sys_watchdog_disable, da16x_sys_watchdog_enable
<1>5. CASE da16x_sys_watchdog_set_rescale_time
  BY <1>5 DEF da16x_sys_watchdog_set_rescale_time
<1>6. CASE Restart
  BY <1>6 DEF Restart
<1>7. CASE UNCHANGED vars
  BY <1>7 DEF vars
<1> QED
  BY <1>1, <1>2, <1>3, <1>4, <1>5, <1>6, <1>7 DEF Next

\* The type invariant, with the configured idle identifier, is inductive.
LEMMA WStep == WInv /\ [Next]_vars => WInv'
<1> SUFFICES ASSUME WInv, [Next]_vars PROVE WInv'
  OBVIOUS
<1>1. FlagTypeOK'
  BY WFlags DEF WInv
<1>2. DataTypeOK' /\ IdleConfigured'
  <2>1. CASE UNCHANGED vars
    BY <2>1 DEF WInv, DataTypeOK, IdleConfigured, vars, maskVars, ctlVars,
       hwVars, callVars, taskVars
  <2>2. CASE Next
    BY <2>2, WTask, WNotify, WRest DEF Next
  <2> QED
    BY <2>1, <2>2
<1> QED
  BY <1>1, <1>2 DEF WInv

\* Throughout, every variable of the watchdog has its type: no step of a
\* task, of the interrupt or of the console writes a mask, a latency or a
\* counter out of its range (da16x_sys_watchdog.c).
THEOREM WatchdogTypes == Spec => []TypeOK
<1>1. WInv => TypeOK
  BY DEF WInv, DataTypeOK, FlagTypeOK, TypeOK
<1> QED
  BY <1>1, WInit, WStep, PTL DEF Spec

-----------------------------------------------------------------------------
(* Registration.  As long as the watchdog is not disabled and there are    *)
(* identifiers for all tasks, the registered mask is what the tasks hold.  *)

MaskHeld ==
    /\ \A i \in tasks_mask : \E t \in Task : held[t] = i
    /\ \A t \in Task : held[t] # -1 => held[t] \in tasks_mask
    /\ IdsExclusive

\* A task without an identifier finds one that is free.
LEMMA IdLeft ==
    ASSUME IsFiniteSet(Task), Cardinality(Task) <= MaxTasks,
           WInv, MaskHeld, NEW t \in Task, held[t] = -1
    PROVE  tasks_mask # Id
<1> SUFFICES ASSUME tasks_mask = Id PROVE FALSE
  OBVIOUS
<1> DEFINE Others == Task \ {t}
<1> DEFINE owner == [i \in Id |-> CHOOSE u \in Others : held[u] = i]
<1>1. \A i \in Id : \E u \in Others : held[u] = i
  <2>1. \A i \in Id : \E u \in Task : held[u] = i
    BY DEF MaskHeld
  <2>2. -1 \notin Id
    BY ZeroId
  <2> QED
    BY <2>1, <2>2
<1>2. \A i \in Id : owner[i] \in Others /\ held[owner[i]] = i
  BY <1>1
<1>3. owner \in [Id -> Others]
  BY <1>2
<1>4. IsFiniteSet(Others) /\ Cardinality(Others) = Cardinality(Task) - 1
  BY FS_RemoveElement
<1>5. IsFiniteSet(Id) /\ Cardinality(Id) = MaxTasks
  BY FS_Interval, WatchdogAssumption DEF Id
<1>6. Cardinality(Others) < Cardinality(Id)
  <2>1. Cardinality(Task) \in Nat
    BY FS_CardinalityType
  <2> QED
    BY <1>4, <1>5, <2>1, WatchdogAssumption
<1>7. \E x, y \in Id : x # y /\ owner[x] = owner[y]
  <2> HIDE DEF owner, Others
  <2> QED
    BY <1>3, <1>4, <1>5, <1>6, FS_PigeonHole
<1> QED
  BY <1>2, <1>7

\* A watchdog nobody disables stays active.
LEMMA ActiveStep ==
    ASSUME "disable" \notin Ops, active, [Next]_vars
    PROVE  active'
<1> USE Zenon DEF maskVars, ctlVars, hwVars, callVars, taskVars
<1>1. CASE \E t \in Task : TaskNext(t)
  BY <1>1 DEF TaskNext, da16x_sys_watchdog_register,
     da16x_sys_watchdog_unregister, da16x_sys_watchdog_configure_idle_id,
     da16x_sys_watchdog_suspend, da16x_sys_watchdog_resume,
     da16x_sys_watchdog_set_latency, da16x_sys_watchdog_notify,
     da16x_sys_watchdog_notify_and_resume, Hang
<1>2. CASE \E t \in Task : NotifyNext(t)
  BY <1>2 DEF NotifyNext, NotifyLoad, NotifyStore, NotifyCompare,
     NotifyReload, NotifyEnable, NotifyIdle
<1>3. CASE HwNext
  BY <1>3 DEF HwNext, Tick, da16x_sys_watchdog_callback
<1>4. CASE da16x_sys_watchdog_disable \/ da16x_sys_watchdog_enable
  BY <1>4 DEF da16x_sys_watchdog_disable, da16x_sys_watchdog_enable
<1>5. CASE da16x_sys_watchdog_set_rescale_time
  BY <1>5 DEF da16x_sys_watchdog_set_rescale_time
<1>6. CASE Restart
  BY <1>6 DEF Restart
<1>7. CASE UNCHANGED vars
  BY <1>7 DEF vars
<1> QED
  BY <1>1, <1>2, <1>3, <1>4, <1>5, <1>6, <1>7 DEF Next

\* Only register, unregister and a restart touch an identifier or the
\* registered mask, and they keep the two in step.
LEMMA MaskHeldStep ==
    ASSUME IsFiniteSet(Task), Cardinality(Task) <= MaxTasks,
           WInv, active, MaskHeld, [Next]_vars
    PROVE  MaskHeld'
<1> DEFINE same == UNCHANGED <<tasks_mask, held>>
<1>1. CASE same
  BY <1>1 DEF MaskHeld, IdsExclusive
<1>2. ASSUME NEW t \in Task, da16x_sys_watchdog_register(t) PROVE MaskHeld'
  <2>1. tasks_mask # Id
    BY <1>2, IdLeft DEF da16x_sys_watchdog_register
  <2> DEFINE id == FirstFree
  <2>2. id \in Id \ tasks_mask
    BY <2>1, FirstFreeIsFree DEF WInv, DataTypeOK
  <2>3. /\ held' = [held EXCEPT ![t] = id]
        /\ tasks_mask' = tasks_mask \cup {id}
    BY <1>2, <2>1 DEF da16x_sys_watchdog_register, RegisteredId
  <2>4. held \in [Task -> Id \cup {-1}] /\ -1 \notin Id
    BY ZeroId DEF WInv, DataTypeOK
  <2>5. held[t] = -1
    BY <1>2 DEF da16x_sys_watchdog_register
  <2> HIDE DEF id
  <2>6. \A u \in Task : held'[u] = IF u = t THEN id ELSE held[u]
    BY <2>3, <2>4
  <2>7. \A i \in tasks_mask' : \E u \in Task : held'[u] = i
    <3> SUFFICES ASSUME NEW i \in tasks_mask'
                 PROVE  \E u \in Task : held'[u] = i
      OBVIOUS
    <3>1. CASE i = id
      BY <2>6, <3>1
    <3>2. CASE i \in tasks_mask
      <4>1. PICK u \in Task : held[u] = i
        BY <3>2 DEF MaskHeld
      <4>2. u # t
        BY <2>4, <2>5, <3>2, <4>1 DEF WInv, DataTypeOK
      <4> QED
        BY <2>6, <4>1, <4>2
    <3> QED
      BY <2>3, <3>1, <3>2
  <2>8. \A u \in Task : held'[u] # -1 => held'[u] \in tasks_mask'
    BY <2>3, <2>6 DEF MaskHeld
  <2>9. IdsExclusive'
    BY <2>2, <2>4, <2>6 DEF MaskHeld, IdsExclusive
  <2> QED
    BY <2>7, <2>8, <2>9 DEF MaskHeld
<1>3. ASSUME NEW t \in Task, da16x_sys_watchdog_unregister(t) PROVE MaskHeld'
  <2>1. /\ held' = [held EXCEPT ![t] = -1]
        /\ tasks_mask' = tasks_mask \ {held[t]}
    BY <1>3 DEF da16x_sys_watchdog_unregister
  <2>2. held \in [Task -> Id \cup {-1}] /\ tasks_mask \subseteq Id
        /\ -1 \notin Id
    BY ZeroId DEF WInv, DataTypeOK
  <2>3. \A u \in Task : held'[u] = IF u = t THEN -1 ELSE held[u]
    BY <2>1, <2>2
  <2>4. \A i \in tasks_mask' : \E u \in Task : held'[u] = i
    BY <2>1, <2>3 DEF MaskHeld
  <2>5. \A u \in Task : held'[u] # -1 => held'[u] \in tasks_mask'
    BY <2>1, <2>3 DEF MaskHeld, IdsExclusive
  <2>6. IdsExclusive'
    BY <2>3 DEF MaskHeld, IdsExclusive
  <2> QED
    BY <2>4, <2>5, <2>6 DEF MaskHeld
<1>4. CASE Restart
  <2>1. tasks_mask' = {} /\ \A u \in Task : held'[u] = -1
    BY <1>4 DEF Restart
  <2> QED
    BY <2>1 DEF MaskHeld, IdsExclusive
<1>5. ASSUME NEW t \in Task, TaskNext(t) PROVE MaskHeld'
  <2>1. \/ da16x_sys_watchdog_register(t)
        \/ da16x_sys_watchdog_unregister(t)
        \/ same
    BY <1>5 DEF TaskNext, da16x_sys_watchdog_configure_idle_id,
       da16x_sys_watchdog_suspend, da16x_sys_watchdog_resume,
       da16x_sys_watchdog_set_latency, da16x_sys_watchdog_notify,
       da16x_sys_watchdog_notify_and_resume, Hang, maskVars, taskVars
  <2> QED
    BY <1>1, <1>2, <1>3, <2>1
<1>6. ASSUME NEW t \in Task, NotifyNext(t) PROVE same
  BY <1>6 DEF NotifyNext, NotifyLoad, NotifyStore, NotifyCompare,
     NotifyReload, NotifyEnable, NotifyIdle, maskVars, taskVars
<1>7. CASE HwNext
  BY <1>1, <1>7 DEF HwNext, Tick, da16x_sys_watchdog_callback, maskVars,
     taskVars
<1>8. CASE \/ da16x_sys_watchdog_disable \/ da16x_sys_watchdog_enable
           \/ da16x_sys_watchdog_set_rescale_time
  BY <1>1, <1>8 DEF da16x_sys_watchdog_disable, da16x_sys_watchdog_enable,
     da16x_sys_watchdog_set_rescale_time, maskVars, taskVars
<1>9. CASE UNCHANGED vars
  BY <1>1, <1>9 DEF vars, maskVars, taskVars
<1> QED
  BY <1>1, <1>4, <1>5, <1>6, <1>7, <1>8, <1>9 DEF Next

\* Only registered identifiers are ever monitored, also when calls of a task
\* that shares or has lost its identifier are among them.
THEOREM OnlyRegisteredMonitored == Spec => []MonitoredRegistered
<1>1. Init => MonitoredRegistered
  BY DEF Init, MonitoredRegistered
<1>2. MonitoredRegistered /\ [Next]_vars => MonitoredRegistered'
  <2> SUFFICES ASSUME MonitoredRegistered, [Next]_vars
               PROVE  MonitoredRegistered'
    OBVIOUS
  <2> USE DEF MonitoredRegistered, maskVars
  <2>1. ASSUME NEW t \in Task, TaskNext(t) PROVE MonitoredRegistered'
    BY <2>1 DEF TaskNext, da16x_sys_watchdog_register,
       da16x_sys_watchdog_unregister, da16x_sys_watchdog_configure_idle_id,
       da16x_sys_watchdog_suspend, da16x_sys_watchdog_resume,
       da16x_sys_watchdog_set_latency, da16x_sys_watchdog_notify,
       da16x_sys_watchdog_notify_and_resume, Hang, Resumed, Unmonitored
  <2>2. ASSUME NEW t \in Task, NotifyNext(t) PROVE MonitoredRegistered'
    BY <2>2 DEF NotifyNext, NotifyLoad, NotifyStore, NotifyCompare,
       NotifyReload, NotifyEnable, NotifyIdle
  <2>3. CASE HwNext
    BY <2>3 DEF HwNext, Tick, da16x_sys_watchdog_callback
  <2>4. CASE \/ da16x_sys_watchdog_disable \/ da16x_sys_watchdog_enable
             \/ da16x_sys_watchdog_set_rescale_time
    BY <2>4 DEF da16x_sys_watchdog_disable, da16x_sys_watchdog_enable,
       da16x_sys_watchdog_set_rescale_time
  <2>5. CASE Restart
    BY <2>5 DEF Restart
  <2>6. CASE UNCHANGED vars
    BY <2>6 DEF vars
  <2> QED
    BY <2>1, <2>2, <2>3, <2>4, <2>5, <2>6 DEF Next
<1> QED
  BY <1>1, <1>2, PTL DEF Spec

\* With an identifier for every task and a watchdog that is never disabled, no
\* two tasks ever hold the same identifier (da16x_sys_watchdog_register).
THEOREM IdentifiersExclusive ==
    ASSUME "disable" \notin Ops, IsFiniteSet(Task),
           Cardinality(Task) <= MaxTasks
    PROVE  Spec => []IdsExclusive
<1>1. Init => active /\ MaskHeld
  BY DEF Init, MaskHeld, IdsExclusive
<1>2. WInv /\ active /\ MaskHeld /\ [Next]_vars => active' /\ MaskHeld'
  BY ActiveStep, MaskHeldStep
<1>3. MaskHeld => IdsExclusive
  BY DEF MaskHeld
<1> QED
  BY <1>1, <1>2, <1>3, WInit, WStep, PTL DEF Spec

\* Under the same conditions an identifier that a task gave back is never
\* monitored (da16x_sys_watchdog_unregister).
THEOREM GivenBackUnmonitored ==
    ASSUME "disable" \notin Ops, IsFiniteSet(Task),
           Cardinality(Task) <= MaxTasks
    PROVE  Spec => []MonitoredHeld
<1>1. Init => active /\ MaskHeld
  BY DEF Init, MaskHeld, IdsExclusive
<1>2. WInv /\ active /\ MaskHeld /\ [Next]_vars => active' /\ MaskHeld'
  BY ActiveStep, MaskHeldStep
<1>3. MaskHeld /\ MonitoredRegistered => MonitoredHeld
  BY DEF MaskHeld, MonitoredRegistered, MonitoredHeld
<1> QED
  BY <1>1, <1>2, <1>3, WInit, WStep, OnlyRegisteredMonitored, PTL DEF Spec

-----------------------------------------------------------------------------
(* The history of SysWatchdogObs.                                          *)

\* A task is in the part of notify that the semaphore covers.
InNotify(t) == pc[t] \in {"load", "store", "compare", "reload", "enable"}

\* The semaphore excludes two such tasks.
SemOwned == \A t \in Task : InNotify(t) => sem = t

\* The steps of the history are steps of the watchdog.
LEMMA ObsRefines == [ObsNext]_allVars => [Next]_vars
  BY DEF ObsNext, Next, ObsRestart, allVars

\* What the history has of a step: a stutter, a restart, or one of the
\* watchdog's other steps with Watch.
LEMMA ObsCases ==
    ASSUME [ObsNext]_allVars
    PROVE  \/ UNCHANGED allVars
           \/ ObsRestart
           \/ \E t \in Task : TaskNext(t) /\ Watch
           \/ \E t \in Task : NotifyNext(t) /\ Watch
           \/ HwNext /\ Watch
           \/ da16x_sys_watchdog_disable /\ Watch
           \/ da16x_sys_watchdog_enable /\ Watch
           \/ da16x_sys_watchdog_set_rescale_time /\ Watch
  BY DEF ObsNext

\* Only a task that gets the semaphore enters that part, and only one that
\* gives it back leaves it.
LEMMA SemStep ==
    ASSUME WInv, SemOwned, [Next]_vars
    PROVE  SemOwned'
<1> USE DEF SemOwned, InNotify, maskVars, ctlVars, hwVars, callVars, taskVars
<1>t. pc \in [Task -> {"idle", "load", "store", "compare", "reload", "enable",
                       "idleWait"}] /\ NoTask \notin Task
  BY WatchdogAssumption DEF WInv, DataTypeOK
<1>1. ASSUME NEW t \in Task, TaskNext(t) PROVE SemOwned'
  <2>1. CASE UNCHANGED <<pc, sem>>
    BY <2>1
  <2>2. CASE sem = NoTask /\ sem' = t /\ pc' = [pc EXCEPT ![t] = "load"]
    BY <2>2, <1>t
  <2> QED
    BY <1>1, <2>1, <2>2 DEF TaskNext, da16x_sys_watchdog_register,
       da16x_sys_watchdog_unregister, da16x_sys_watchdog_configure_idle_id,
       da16x_sys_watchdog_suspend, da16x_sys_watchdog_resume,
       da16x_sys_watchdog_set_latency, da16x_sys_watchdog_notify,
       da16x_sys_watchdog_notify_and_resume, Hang, TakeSem, Calls
<1>2. ASSUME NEW t \in Task, NotifyNext(t) PROVE SemOwned'
  <2>1. CASE \E p : GoOn(t, p) /\ InNotify(t)
    BY <2>1, <1>t DEF GoOn
  <2>2. CASE Finish(t) /\ InNotify(t)
    BY <2>2, <1>t DEF Finish
  <2>3. CASE NotifyIdle(t)
    <3>1. CASE active
      BY <2>3, <3>1, <1>t DEF NotifyIdle, TakeSem
    <3>2. CASE ~active
      BY <2>3, <3>2, <1>t DEF NotifyIdle
    <3> QED
      BY <3>1, <3>2
  <2>4. CASE ~NotifyIdle(t)
    <3>1. Finish(t) \/ \E p : GoOn(t, p)
      BY <1>2, <2>4, Zenon DEF NotifyNext, NotifyLoad, NotifyStore,
         NotifyCompare, NotifyReload, NotifyEnable
    <3>2. InNotify(t)
      BY <1>2, <2>4 DEF NotifyNext, NotifyLoad, NotifyStore,
         NotifyCompare, NotifyReload, NotifyEnable, At
    <3> QED
      BY <2>1, <2>2, <3>1, <3>2
  <2> QED
    BY <2>3, <2>4
<1>3. CASE \/ HwNext \/ da16x_sys_watchdog_disable \/ da16x_sys_watchdog_enable
           \/ da16x_sys_watchdog_set_rescale_time \/ UNCHANGED vars
  <2>1. UNCHANGED <<pc, sem>>
    BY <1>3 DEF HwNext, Tick, da16x_sys_watchdog_callback, vars,
       da16x_sys_watchdog_disable, da16x_sys_watchdog_enable,
       da16x_sys_watchdog_set_rescale_time
  <2> QED
    BY <2>1
<1>4. CASE Restart
  BY <1>4 DEF Restart
<1> QED
  BY <1>1, <1>2, <1>3, <1>4 DEF Next

-----------------------------------------------------------------------------
(* Who was heard.                                                          *)

\* A driver that is off belongs to a watchdog that is not active.
OffTogether == wdog_off <=> ~active

\* A counter that runs although the watchdog is not active was restarted by a
\* notify that the switch overtook, and no task notifies until it is enabled.
RunsOn ==
    ~active /\ running => heard = {} /\ \A t \in Task : ~InNotify(t)

\* Who was heard is in the notified mask, unless a task has emptied it and not
\* yet restarted the counter, and in what a notify has loaded of it.
HeardCounted ==
    active /\ (\A t \in Task : pc[t] \notin {"reload", "enable"})
        => heard \subseteq tasks_notified_mask
HeardLoaded ==
    active => \A t \in Task : pc[t] = "store" => heard \subseteq loaded[t]

SInv == /\ OffTogether /\ RunsOn /\ HeardCounted /\ HeardLoaded
        /\ RebootForSilence

\* A step that neither restarts the counter nor stores leaves alone who was
\* heard.
LEMMA HeardQuiet ==
    ASSUME Watch, counter' = counter \/ counter # 0, active' => active,
           \A u \in Task : pc[u] \in {"store", "enable"} => pc'[u] = pc[u]
    PROVE  heard' = heard
<1>1. ASSUME Satisfied, pc' = pc PROVE FALSE
  BY <1>1 DEF Satisfied
<1>2. ~Restarted
  BY <1>1 DEF Restarted
<1>3. {u \in Task : Stored(u)} = {}
  BY DEF Stored
<1> QED
  BY <1>2, <1>3 DEF Watch

\* A call of a task.
LEMMA SilenceTask ==
    ASSUME WInv, SemOwned, SInv, NEW t \in Task, TaskNext(t), Watch
    PROVE  SInv'
<1> USE DEF maskVars, ctlVars, hwVars, callVars, taskVars
<1>t. pc \in [Task -> {"idle", "load", "store", "compare", "reload", "enable",
                       "idleWait"}]
  BY DEF WInv, DataTypeOK
<1>1. /\ UNCHANGED <<active, wdog_off, running, counter, tasks_notified_mask,
                     loaded, reset>>
      /\ ~reset /\ pc[t] = "idle"
      /\ pc' = pc \/ (active /\ pc' = [pc EXCEPT ![t] = "load"])
  BY DEF TaskNext, da16x_sys_watchdog_register,
       da16x_sys_watchdog_unregister, da16x_sys_watchdog_configure_idle_id,
       da16x_sys_watchdog_suspend, da16x_sys_watchdog_resume,
       da16x_sys_watchdog_set_latency, da16x_sys_watchdog_notify,
       da16x_sys_watchdog_notify_and_resume, Hang, TakeSem, Calls, Runs
<1>2. \A u \in Task : pc[u] # "idle" => pc'[u] = pc[u]
  BY <1>1, <1>t
<1>3. heard' = heard
  BY <1>1, <1>2, HeardQuiet
<1>4. \A u \in Task : pc'[u] = pc[u] \/ (active /\ pc[u] = "idle" /\ pc'[u] = "load")
  BY <1>1, <1>t
<1> QED
  BY <1>1, <1>3, <1>4 DEF SInv, OffTogether, RunsOn, HeardCounted, HeardLoaded,
     RebootForSilence, InNotify

\* A step of a notification.
LEMMA SilenceNotify ==
    ASSUME WInv, SemOwned, SInv, NEW t \in Task, NotifyNext(t), Watch
    PROVE  SInv'
<1> USE DEF maskVars, ctlVars, hwVars, callVars, taskVars, At
<1>t. pc \in [Task -> {"idle", "load", "store", "compare", "reload", "enable",
                       "idleWait"}] /\ loaded \in [Task -> SUBSET Id]
  BY DEF WInv, DataTypeOK
<1>r. ~reset /\ reset' = reset /\ active' = active /\ wdog_off' = wdog_off
  BY Zenon DEF NotifyNext, NotifyLoad, NotifyStore, NotifyCompare, NotifyReload,
     NotifyEnable, NotifyIdle
<1>u. \A u \in Task : u # t => pc'[u] = pc[u] /\ loaded'[u] = loaded[u]
  BY <1>t DEF NotifyNext, NotifyLoad, NotifyStore, NotifyCompare, NotifyReload,
     NotifyEnable, NotifyIdle, GoOn, Finish, TakeSem
<1>o. InNotify(t) => \A u \in Task : u # t => ~InNotify(u)
  BY DEF SemOwned
<1>q. ASSUME counter' = counter, pc[t] \notin {"store", "enable"}
      PROVE  heard' = heard
  BY <1>q, <1>r, <1>u, HeardQuiet
<1>n. InNotify(t) => active \/ ~running
  BY DEF SInv, RunsOn
<1>1. CASE NotifyLoad(t)
  <2>1. /\ pc[t] = "load" /\ counter' = counter /\ running' = running
        /\ tasks_notified_mask' = tasks_notified_mask
        /\ IF active THEN pc'[t] \in {"store", "compare"}
                          /\ loaded'[t] = tasks_notified_mask
                     ELSE pc'[t] \in {"idle", "idleWait"} /\ loaded' = loaded
    <3>1. CASE active
      BY <1>1, <1>t, <3>1 DEF NotifyLoad, GoOn
    <3>2. CASE ~active
      BY <1>1, <1>t, <3>2 DEF NotifyLoad, Finish
    <3> QED
      BY <3>1, <3>2
  <2>2. heard' = heard
    BY <2>1, <1>q
  <2>3. \A u \in Task : pc[u] \notin {"reload", "enable"}
    BY <1>o, <2>1 DEF InNotify
  <2> QED
    BY <2>1, <2>2, <2>3, <1>r, <1>u, <1>n, <1>o DEF SInv, OffTogether, RunsOn,
       HeardCounted, HeardLoaded, RebootForSilence, InNotify
<1>2. CASE NotifyStore(t)
  <2>1. /\ pc[t] = "store" /\ pc'[t] = "compare" /\ counter' = counter
        /\ running' = running /\ tasks_notified_mask' = loaded[t] \cup {nid[t]}
    BY <1>2, <1>t DEF NotifyStore, GoOn
  <2>2. heard' = heard \cup {nid[t]}
    <3>1. ~Restarted
      BY <2>1, <1>u, <1>r DEF Restarted, Satisfied
    <3>2. \A u \in Task : Stored(u) <=> u = t
      BY <2>1, <1>u DEF Stored
    <3>3. {nid[u] : u \in {v \in Task : Stored(v)}} = {nid[t]}
      BY <3>2
    <3> QED
      BY <3>1, <3>3 DEF Watch
  <2> QED
    BY <2>1, <2>2, <1>r, <1>u, <1>n, <1>o DEF SInv, OffTogether, RunsOn,
       HeardCounted, HeardLoaded, RebootForSilence, InNotify
<1>3. CASE NotifyCompare(t)
  <2>1. /\ pc[t] = "compare" /\ counter' = counter /\ running' = running
        /\ loaded' = loaded
        /\ \/ pc'[t] = "reload"
           \/ /\ pc'[t] \in {"idle", "idleWait"}
              /\ tasks_notified_mask' = tasks_notified_mask
    <3>1. CASE AllNotified(tasks_monitored_mask)
      BY <1>3, <1>t, <3>1 DEF NotifyCompare, GoOn
    <3>2. CASE ~AllNotified(tasks_monitored_mask)
      BY <1>3, <1>t, <3>2 DEF NotifyCompare, Finish
    <3> QED
      BY <3>1, <3>2
  <2>2. heard' = heard
    BY <2>1, <1>q
  <2> QED
    BY <2>1, <2>2, <1>r, <1>u, <1>n, <1>o DEF SInv, OffTogether, RunsOn,
       HeardCounted, HeardLoaded, RebootForSilence, InNotify
<1>4. CASE NotifyReload(t)
  <2>1. /\ pc[t] = "reload" /\ counter' = counter /\ loaded' = loaded
        /\ tasks_notified_mask' = tasks_notified_mask
        /\ IF wdog_off THEN running' = running /\ pc'[t] \in {"idle", "idleWait"}
                       ELSE pc'[t] = "enable"
    <3>1. CASE wdog_off
      BY <1>4, <1>t, <3>1 DEF NotifyReload, Finish
    <3>2. CASE ~wdog_off
      BY <1>4, <1>t, <3>2 DEF NotifyReload, GoOn
    <3> QED
      BY <3>1, <3>2
  <2>2. heard' = heard
    BY <2>1, <1>q
  <2> QED
    BY <2>1, <2>2, <1>r, <1>u, <1>n, <1>o DEF SInv, OffTogether, RunsOn,
       HeardCounted, HeardLoaded, RebootForSilence, InNotify
<1>5. CASE NotifyEnable(t)
  <2>1. pc[t] = "enable" /\ pc'[t] \in {"idle", "idleWait"}
    BY <1>5, <1>t DEF NotifyEnable, Finish
  <2>2. heard' = {}
    BY <2>1 DEF Watch, Restarted
  <2> QED
    BY <2>1, <2>2, <1>r, <1>u, <1>o DEF SInv, OffTogether, RunsOn,
       HeardCounted, HeardLoaded, RebootForSilence, InNotify
<1>6. CASE NotifyIdle(t)
  <2>1. /\ pc[t] = "idleWait" /\ counter' = counter /\ running' = running
        /\ loaded' = loaded /\ tasks_notified_mask' = tasks_notified_mask
        /\ IF active THEN pc'[t] = "load" ELSE pc'[t] = "idle"
    <3>1. CASE active
      BY <1>6, <1>t, <3>1 DEF NotifyIdle, TakeSem
    <3>2. CASE ~active
      BY <1>6, <1>t, <3>2 DEF NotifyIdle
    <3> QED
      BY <3>1, <3>2
  <2>2. heard' = heard
    BY <2>1, <1>q
  <2> QED
    BY <2>1, <2>2, <1>r, <1>u DEF SInv, OffTogether, RunsOn,
       HeardCounted, HeardLoaded, RebootForSilence, InNotify
<1> QED
  BY <1>1, <1>2, <1>3, <1>4, <1>5, <1>6 DEF NotifyNext

\* The counter and its interrupt.
LEMMA SilenceHw ==
    ASSUME WInv, SInv, HwNext, Watch
    PROVE  SInv'
<1> USE DEF maskVars, ctlVars, hwVars, callVars, taskVars
<1>t. setvalue \in 1 .. Period /\ rescale_time \in 1 .. Period
  BY DEF WInv, DataTypeOK
<1>1. UNCHANGED <<active, wdog_off, running, pc, loaded>> /\ ~reset /\ running
  BY DEF HwNext, Tick, da16x_sys_watchdog_callback
<1>2. CASE Tick
  <2>1. UNCHANGED <<tasks_notified_mask, reset>> /\ counter # 0
    BY <1>2, <1>t DEF Tick
  <2>2. heard' = heard
    BY <1>1, <2>1, HeardQuiet
  <2> QED
    BY <1>1, <2>1, <2>2 DEF SInv, OffTogether, RunsOn, HeardCounted,
       HeardLoaded, RebootForSilence, InNotify
<1>3. CASE da16x_sys_watchdog_callback /\ AllNotified(Due)
  <2>1. counter = 0 /\ counter' > 0 /\ reset' = reset
    BY <1>3, <1>t DEF da16x_sys_watchdog_callback
  <2>2. heard' = {}
    BY <2>1, <1>1 DEF Watch, Restarted, Satisfied
  <2> QED
    BY <1>1, <2>1, <2>2 DEF SInv, OffTogether, RunsOn, HeardCounted,
       HeardLoaded, RebootForSilence, InNotify
<1>4. CASE da16x_sys_watchdog_callback /\ ~AllNotified(Due)
  <2>1. counter' = counter /\ tasks_notified_mask' = tasks_notified_mask /\ reset'
    BY <1>4 DEF da16x_sys_watchdog_callback
  <2>2. heard' = heard
    BY <1>1, <2>1, HeardQuiet
  <2>3. PICK i \in Due : i \notin tasks_notified_mask
    BY <1>4 DEF AllNotified
  <2>4. culprit' = Due \ heard
    BY <2>1 DEF Watch
  <2>5. CASE heard \subseteq tasks_notified_mask
    <3>1. culprit' # {}
      BY <2>3, <2>4, <2>5
    <3> QED
      BY <1>1, <2>1, <2>2, <3>1 DEF SInv, OffTogether, RunsOn, HeardCounted,
         HeardLoaded, RebootForSilence, InNotify
  <2>6. CASE \E t \in Task : pc[t] \in {"reload", "enable"}
    BY <1>1, <2>1, <2>2, <2>6 DEF SInv, OffTogether, RunsOn, HeardCounted,
       HeardLoaded, RebootForSilence, InNotify
  <2> QED
    BY <2>5, <2>6, <1>1 DEF SInv, RunsOn, HeardCounted
<1> QED
  BY <1>2, <1>3, <1>4 DEF HwNext

\* The console's switch, the rescale time and a restart.
LEMMA SilenceRest ==
    ASSUME WInv, SInv,
           \/ da16x_sys_watchdog_disable /\ Watch
           \/ da16x_sys_watchdog_enable /\ Watch
           \/ da16x_sys_watchdog_set_rescale_time /\ Watch
           \/ ObsRestart \/ UNCHANGED allVars
    PROVE  SInv'
<1> USE DEF maskVars, ctlVars, hwVars, callVars, taskVars
<1>1. CASE da16x_sys_watchdog_disable /\ Watch
  <2>1. ~active' /\ ~running' /\ wdog_off' /\ ~reset'
    BY <1>1, Zenon DEF da16x_sys_watchdog_disable
  <2> QED
    BY <2>1, Zenon DEF SInv, OffTogether, RunsOn, HeardCounted, HeardLoaded,
       RebootForSilence
<1>2. CASE da16x_sys_watchdog_enable /\ Watch
  <2>1. ~active /\ active' /\ ~wdog_off' /\ ~reset'
    BY <1>2, Zenon DEF da16x_sys_watchdog_enable
  <2>2. heard' = {}
    BY <1>2, <2>1 DEF Watch, Restarted
  <2> QED
    BY <2>1, <2>2 DEF SInv, OffTogether, RunsOn, HeardCounted, HeardLoaded,
       RebootForSilence
<1>3. CASE da16x_sys_watchdog_set_rescale_time /\ Watch
  <2>1. UNCHANGED <<active, wdog_off, running, counter, pc, loaded, reset,
                    tasks_notified_mask>> /\ ~reset
    BY <1>3 DEF da16x_sys_watchdog_set_rescale_time
  <2>2. heard' = heard
    BY <1>3, <2>1, HeardQuiet
  <2> QED
    BY <2>1, <2>2 DEF SInv, OffTogether, RunsOn, HeardCounted, HeardLoaded,
       RebootForSilence, InNotify
<1>4. CASE ObsRestart
  <2>1. active' /\ ~wdog_off' /\ ~reset' /\ heard' = {}
    BY <1>4, Zenon DEF ObsRestart, Restart
  <2> QED
    BY <2>1 DEF SInv, OffTogether, RunsOn, HeardCounted, HeardLoaded,
       RebootForSilence
<1>5. CASE UNCHANGED allVars
  <2>1. UNCHANGED <<active, wdog_off, running, heard, culprit, pc, loaded, reset,
                    tasks_notified_mask>>
    BY <1>5 DEF allVars, vars, obsVars
  <2> QED
    BY <2>1 DEF SInv, OffTogether, RunsOn, HeardCounted, HeardLoaded,
       RebootForSilence, InNotify
<1> QED
  BY <1>1, <1>2, <1>3, <1>4, <1>5

\* The chip is reset only when a monitored task with no latency left has not
\* notified since the counter was restarted, or while a task is between the
\* two halves of da16x_sys_watchdog_reset_watchdog: whatever the tasks, the
\* console and the interrupt do, and however often the watchdog is switched.
THEOREM RebootsForSilence == ObsSpec => []RebootForSilence
<1>1. ObsInit => WInv /\ SemOwned /\ SInv
  <2> SUFFICES ASSUME ObsInit PROVE WInv /\ SemOwned /\ SInv
    OBVIOUS
  <2>1. Init /\ heard = {}
    BY DEF ObsInit
  <2>2. active /\ ~wdog_off /\ ~reset
    BY <2>1, Zenon DEF Init
  <2>3. SInv
    BY <2>1, <2>2 DEF SInv, OffTogether, RunsOn, HeardCounted, HeardLoaded,
       RebootForSilence
  <2> QED
    BY <2>1, <2>3, WInit DEF Init, SemOwned, InNotify
<1>2. WInv /\ SemOwned /\ SInv /\ [ObsNext]_allVars => WInv' /\ SemOwned' /\ SInv'
  <2> SUFFICES ASSUME WInv, SemOwned, SInv, [ObsNext]_allVars
               PROVE  WInv' /\ SemOwned' /\ SInv'
    OBVIOUS
  <2>1. WInv' /\ SemOwned'
    BY ObsRefines, WStep, SemStep
  <2>2. SInv'
    BY ObsCases, SilenceTask, SilenceNotify, SilenceHw, SilenceRest
  <2> QED
    BY <2>1, <2>2
<1>3. SInv => RebootForSilence
  BY DEF SInv
<1> QED
  BY <1>1, <1>2, <1>3, PTL DEF ObsSpec

-----------------------------------------------------------------------------
(* How long a hung task passes, when no task notifies for another: the     *)
(* idle identifier is not configured, and identifiers are exclusive.       *)

\* A task in notify notifies for itself.
OwnNotify == idle_task_id = -1 /\ \A t \in Task : InNotify(t) => nid[t] = held[t]

\* A hung task is outside every call.
HungIdle == \A t \in hung : pc[t] = "idle"

\* What a hung task may still live on: its latency, and its notification, in
\* the mask or in what a notify has loaded of the mask.
Noted(t) == held[t] \in tasks_notified_mask \/ PutBack(t)
Credit(t) == tasks_latency[held[t]] + IF Noted(t) THEN 1 ELSE 0

LifeTyped == lifetime \in [Task -> Int]
LifeCovers == \A t \in hung : held[t] # -1 => Credit(t) <= lifetime[t]

LInv == OwnNotify /\ HungIdle /\ LifeTyped /\ LifeCovers /\ HungSurvival

\* What the proof takes from the watchdog's other invariants.
Base == WInv /\ active /\ MaskHeld /\ SemOwned

\* Types of what a hung task lives on.
LEMMA CreditTyped ==
    ASSUME WInv
    PROVE  \A t \in Task : held[t] # -1 =>
               /\ held[t] \in Id /\ tasks_latency[held[t]] \in Nat
               /\ tasks_latency[held[t]] <= MaxLatency
<1> SUFFICES ASSUME NEW t \in Task, held[t] # -1
             PROVE  /\ held[t] \in Id /\ tasks_latency[held[t]] \in Nat
                    /\ tasks_latency[held[t]] <= MaxLatency
  OBVIOUS
<1>1. held[t] \in Id
  BY DEF WInv, DataTypeOK
<1>2. tasks_latency[held[t]] \in 0 .. MaxLatency
  BY <1>1 DEF WInv, DataTypeOK
<1> QED
  BY <1>1, <1>2, WatchdogAssumption

\* A step that ends no interval leaves the lifetimes of hung tasks alone.
LEMMA LifeQuiet ==
    ASSUME Watch, ~Satisfied, LifeTyped, hung' = hung
    PROVE  lifetime' = lifetime
  BY DEF Watch, Lifetime, LifeTyped

\* A step that leaves lifetimes alone and gives no hung task credit keeps the
\* invariant.
LEMMA NoCredit ==
    ASSUME LInv, WInv, hung' = hung, lifetime' = lifetime, OwnNotify', HungIdle',
           \A t \in hung : held'[t] = held[t],
           \A t \in hung : held[t] # -1 =>
               /\ tasks_latency'[held[t]] \in Nat
               /\ tasks_latency'[held[t]] <= tasks_latency[held[t]]
               /\ Noted(t)' => Noted(t)
    PROVE  LInv'
<1>h. hung \subseteq Task
  BY DEF WInv, DataTypeOK
<1>1. LifeCovers'
  <2> SUFFICES ASSUME NEW t \in hung, held[t] # -1 PROVE Credit(t)' <= lifetime[t]
    BY DEF LifeCovers
  <2>1. Credit(t) <= lifetime[t] /\ lifetime[t] \in Int
    BY <1>h DEF LInv, LifeCovers, LifeTyped
  <2>2. tasks_latency[held[t]] \in Nat /\ tasks_latency'[held[t]] \in Nat
        /\ tasks_latency'[held[t]] <= tasks_latency[held[t]]
    BY <1>h, CreditTyped
  <2>3. Noted(t)' => Noted(t)
    OBVIOUS
  <2> QED
    BY <2>1, <2>2, <2>3 DEF Credit
<1>2. LifeTyped' /\ HungSurvival'
  BY DEF LInv, LifeTyped, HungSurvival
<1> QED
  BY <1>1, <1>2 DEF LInv

\* A step that may end an interval takes credit from every hung task that it
\* charges, and gives none.
LEMMA Charged ==
    ASSUME LInv, WInv, Watch, hung' = hung, held' = held, OwnNotify', HungIdle',
           \A t \in hung : held[t] # -1 =>
               /\ tasks_latency'[held[t]] \in Nat
               /\ tasks_latency'[held[t]] <= tasks_latency[held[t]]
               /\ Noted(t)' => Noted(t)
               /\ Watched(t) /\ ~PutBack(t) =>
                     /\ ~Noted(t)'
                     /\ Noted(t) \/ tasks_latency'[held[t]] < tasks_latency[held[t]]
    PROVE  LInv'
<1>h. hung \subseteq Task /\ tasks_monitored_mask \subseteq Id /\ -1 \notin Id
  BY ZeroId DEF WInv, DataTypeOK
<1>l. \A t \in Task : lifetime[t] \in Int /\ lifetime[t] >= 0
  BY DEF LInv, LifeTyped, HungSurvival
<1>1. \A t \in Task : lifetime'[t] \in {lifetime[t], lifetime[t] - 1}
                     /\ (lifetime'[t] # lifetime[t] => Watched(t) /\ ~PutBack(t))
  BY <1>l DEF Watch, Lifetime
<1>2. ASSUME NEW t \in hung, held[t] # -1
      PROVE  Credit(t)' <= lifetime'[t] /\ lifetime'[t] >= 0
  <2>1. Credit(t) <= lifetime[t] /\ lifetime[t] \in Int
    BY <1>2, <1>h, <1>l DEF LInv, LifeCovers
  <2>2. tasks_latency[held[t]] \in Nat /\ tasks_latency'[held[t]] \in Nat
        /\ tasks_latency'[held[t]] <= tasks_latency[held[t]]
    BY <1>2, <1>h, CreditTyped
  <2>3. Credit(t)' = tasks_latency'[held[t]] + IF Noted(t)' THEN 1 ELSE 0
    BY DEF Credit
  <2>4. CASE Watched(t) /\ ~PutBack(t)
    <3>1. Credit(t)' <= lifetime[t] - 1
      BY <1>2, <2>1, <2>2, <2>3, <2>4 DEF Credit
    <3> QED
      BY <3>1, <2>1, <2>2, <2>3, <1>1, <1>h
  <2>5. CASE ~(Watched(t) /\ ~PutBack(t))
    <3>1. Credit(t)' <= lifetime[t]
      BY <1>2, <2>1, <2>2, <2>3, <2>5 DEF Credit
    <3> QED
      BY <3>1, <2>5, <1>1, <1>h, <1>l
  <2> QED
    BY <2>4, <2>5
<1>3. LifeCovers'
  BY <1>2 DEF LifeCovers
<1>4. LifeTyped'
  <2>1. lifetime' = [t \in Task |-> lifetime'[t]]
    BY DEF Watch
  <2> QED
    BY <2>1, <1>1, <1>l DEF LifeTyped
<1>5. HungSurvival'
  <2> SUFFICES ASSUME NEW t \in Task PROVE lifetime'[t] >= 0
    BY DEF HungSurvival
  <2>1. CASE Watched(t)
    BY <2>1, <1>2, <1>h DEF Watched
  <2>2. CASE ~Watched(t)
    BY <2>2, <1>1, <1>l
  <2> QED
    BY <2>1, <2>2
<1> QED
  BY <1>3, <1>4, <1>5 DEF LInv

\* A call of a task.
LEMMA LifeTask ==
    ASSUME "idle" \notin Ops, Base, LInv, NEW u \in Task, TaskNext(u), Watch
    PROVE  LInv'
<1> USE DEF maskVars, ctlVars, hwVars, callVars, taskVars
<1>t. /\ pc \in [Task -> {"idle", "load", "store", "compare", "reload", "enable",
                          "idleWait"}]
      /\ held \in [Task -> Id \cup {-1}] /\ nid \in [Task -> Id]
      /\ tasks_latency \in [Id -> 0 .. MaxLatency] /\ hung \subseteq Task
      /\ -1 \notin Id
  BY ZeroId DEF Base, WInv, DataTypeOK
<1>1. /\ u \notin hung /\ pc[u] = "idle"
      /\ UNCHANGED <<tasks_notified_mask, loaded, counter, idle_task_id>>
  BY DEF TaskNext, da16x_sys_watchdog_register,
       da16x_sys_watchdog_unregister, da16x_sys_watchdog_configure_idle_id,
       da16x_sys_watchdog_suspend, da16x_sys_watchdog_resume,
       da16x_sys_watchdog_set_latency, da16x_sys_watchdog_notify,
       da16x_sys_watchdog_notify_and_resume, Hang, TakeSem, Calls, Runs
<1>2. CASE Hang(u)
  <2>1. /\ hung' = hung \cup {u}
        /\ UNCHANGED <<held, tasks_latency, pc, nid, tasks_monitored_mask>>
    BY <1>2 DEF Hang
  <2>2. \A t \in Task : Noted(t)' = Noted(t) /\ Credit(t)' = Credit(t)
    BY <1>1, <2>1 DEF Noted, PutBack, Credit
  <2>3. \A t \in Task : lifetime'[t] = IF t = u /\ held[t] # -1
                                        THEN tasks_latency[held[t]] + 1
                                        ELSE lifetime[t]
    BY <1>1, <2>1 DEF Watch, Lifetime
  <2>4. \A t \in Task : held[t] # -1 => tasks_latency[held[t]] \in Nat
    BY CreditTyped DEF Base
  <2>5. OwnNotify' /\ HungIdle'
    BY <1>1, <2>1 DEF LInv, OwnNotify, HungIdle, InNotify
  <2>6. LifeCovers'
    <3> SUFFICES ASSUME NEW t \in hung', held[t] # -1
                 PROVE  Credit(t) <= lifetime'[t]
      BY <2>1, <2>2, <1>t DEF LifeCovers
    <3>1. CASE t = u
      BY <3>1, <2>3, <2>4 DEF Credit
    <3>2. CASE t # u
      BY <3>2, <2>1, <2>3, <1>t DEF LInv, LifeCovers
    <3> QED
      BY <3>1, <3>2
  <2>7. LifeTyped' /\ HungSurvival'
    <3>1. lifetime' = [t \in Task |-> lifetime'[t]]
      BY DEF Watch
    <3> QED
      BY <3>1, <2>3, <2>4 DEF LInv, LifeTyped, HungSurvival
  <2> QED
    BY <2>5, <2>6, <2>7 DEF LInv
<1>3. CASE ~Hang(u)
  <2>1. /\ hung' = hung
        /\ held' = held \/ (pc' = pc /\ nid' = nid
                              /\ \E i : held' = [held EXCEPT ![u] = i])
        /\ \/ pc' = pc /\ nid' = nid
           \/ /\ held' = held /\ pc' = [pc EXCEPT ![u] = "load"]
              /\ nid' = [nid EXCEPT ![u] = held[u]]
        /\ tasks_latency' = tasks_latency
           \/ (held[u] # -1 /\ \E l \in 0 .. MaxLatency :
                  tasks_latency' = [tasks_latency EXCEPT ![held[u]] = l])
    BY <1>3, WatchdogAssumption DEF TaskNext, da16x_sys_watchdog_register,
       da16x_sys_watchdog_unregister, da16x_sys_watchdog_configure_idle_id,
       da16x_sys_watchdog_suspend, da16x_sys_watchdog_resume,
       da16x_sys_watchdog_set_latency, da16x_sys_watchdog_notify,
       da16x_sys_watchdog_notify_and_resume, TakeSem, Calls, Runs
  <2>2. \A v \in Task : v # u => held'[v] = held[v] /\ pc'[v] = pc[v]
                                                   /\ nid'[v] = nid[v]
    BY <2>1, <1>t
  <2>3. pc'[u] = "idle" \/ (pc'[u] = "load" /\ nid'[u] = held'[u])
    BY <2>1, <1>1, <1>t
  <2>4. ~Satisfied
    BY <1>1, <2>2, <2>3 DEF Satisfied
  <2>5. lifetime' = lifetime
    BY <2>1, <2>4, LifeQuiet DEF LInv
  <2>6. OwnNotify'
    BY <1>1, <2>2, <2>3 DEF LInv, OwnNotify, InNotify
  <2>7. HungIdle'
    BY <1>1, <2>1, <2>2, <1>t DEF LInv, HungIdle
  <2>8. \A t \in hung : held'[t] = held[t]
    BY <1>1, <2>2, <1>t
  <2>9. \A t \in hung : held[t] # -1 =>
            tasks_latency'[held[t]] = tasks_latency[held[t]]
    <3> SUFFICES ASSUME NEW t \in hung, held[t] # -1
                 PROVE  tasks_latency'[held[t]] = tasks_latency[held[t]]
      OBVIOUS
    <3>1. t # u /\ t \in Task /\ held[t] \in Id
      BY <1>1, <1>t
    <3>2. held[u] # held[t]
      BY <3>1 DEF Base, MaskHeld, IdsExclusive
    <3> QED
      BY <2>1, <3>1, <3>2, <1>t
  <2>10. \A t \in hung : Noted(t)' => Noted(t)
    <3> SUFFICES ASSUME NEW t \in hung, Noted(t)' PROVE Noted(t)
      OBVIOUS
    <3>1. \A v \in Task : pc'[v] = "store" => pc[v] = "store"
      BY <2>2, <2>3
    <3> QED
      BY <1>1, <2>8, <3>1 DEF Noted, PutBack
  <2>11. \A t \in hung : held[t] # -1 => tasks_latency[held[t]] \in Nat
    BY <1>t, CreditTyped DEF Base
  <2> QED
    BY <2>1, <2>5, <2>6, <2>7, <2>8, <2>9, <2>10, <2>11, NoCredit DEF Base
<1> QED
  BY <1>2, <1>3

\* A step of a notification.
LEMMA LifeNotify ==
    ASSUME Base, LInv, NEW u \in Task, NotifyNext(u), Watch
    PROVE  LInv'
<1> USE DEF maskVars, ctlVars, hwVars, callVars, taskVars, At
<1>t. /\ pc \in [Task -> {"idle", "load", "store", "compare", "reload", "enable",
                          "idleWait"}]
      /\ held \in [Task -> Id \cup {-1}] /\ nid \in [Task -> Id]
      /\ loaded \in [Task -> SUBSET Id]
      /\ tasks_latency \in [Id -> 0 .. MaxLatency] /\ hung \subseteq Task
      /\ -1 \notin Id /\ tasks_monitored_mask \subseteq Id
  BY ZeroId DEF Base, WInv, DataTypeOK
<1>i. ~NotifyIdle(u)
  BY DEF NotifyIdle, Base, WInv, IdleConfigured, LInv, OwnNotify
<1>n. InNotify(u) /\ u \notin hung
  BY <1>i DEF NotifyNext, NotifyLoad, NotifyStore, NotifyCompare, NotifyReload,
     NotifyEnable, InNotify, LInv, HungIdle
<1>u. /\ UNCHANGED <<hung, held, idle_task_id, nid>>
      /\ \A v \in Task : v # u => pc'[v] = pc[v] /\ loaded'[v] = loaded[v]
  BY <1>t, <1>i DEF NotifyNext, NotifyLoad, NotifyStore, NotifyCompare,
     NotifyReload, NotifyEnable, GoOn, Finish
<1>o. \A v \in Task : v # u => ~InNotify(v)
  BY <1>n DEF Base, SemOwned
<1>w. OwnNotify'
  BY <1>u, <1>n DEF LInv, OwnNotify, InNotify
<1>h. HungIdle'
  BY <1>u, <1>n, <1>t DEF LInv, HungIdle
<1>c. \A t \in hung : held[t] # -1 => tasks_latency[held[t]] \in Nat
  BY <1>t, CreditTyped DEF Base
<1>q. ASSUME ~(pc[u] = "compare" /\ pc'[u] = "reload"), pc'[u] # pc[u]
      PROVE  lifetime' = lifetime
  <2>1. ~Satisfied
    BY <1>q, <1>u DEF Satisfied
  <2> QED
    BY <2>1, <1>u, LifeQuiet DEF LInv
<1>1. CASE NotifyLoad(u)
  <2>1. /\ pc[u] = "load" /\ pc'[u] \in {"store", "compare"}
        /\ loaded'[u] = tasks_notified_mask
        /\ UNCHANGED <<tasks_latency, tasks_notified_mask>>
    BY <1>1, <1>t DEF NotifyLoad, GoOn, Base
  <2>2. \A t \in hung : Noted(t)' => Noted(t)
    BY <2>1, <1>u DEF Noted, PutBack
  <2>3. lifetime' = lifetime
    BY <2>1, <1>q
  <2> QED
    BY <2>1, <2>2, <2>3, <1>u, <1>w, <1>h, <1>c, NoCredit DEF Base
<1>2. CASE NotifyStore(u)
  <2>1. /\ pc[u] = "store" /\ pc'[u] = "compare"
        /\ tasks_notified_mask' = loaded[u] \cup {nid[u]}
        /\ tasks_latency' = [tasks_latency EXCEPT ![nid[u]] = 0]
    BY <1>2, <1>t DEF NotifyStore, GoOn
  <2>2. \A t \in hung : held[t] # -1 => held[t] # nid[u]
    <3>1. nid[u] = held[u]
      BY <1>n DEF LInv, OwnNotify
    <3> QED
      BY <3>1, <1>n, <1>t DEF Base, MaskHeld, IdsExclusive
  <2>3. \A t \in hung : held[t] # -1 =>
            tasks_latency'[held[t]] = tasks_latency[held[t]]
    BY <2>1, <2>2, <1>t
  <2>4. \A t \in hung : held[t] # -1 /\ Noted(t)' => Noted(t)
    BY <2>1, <2>2, <1>u DEF Noted, PutBack
  <2>5. lifetime' = lifetime
    BY <2>1, <1>q
  <2> QED
    BY <2>3, <2>4, <2>5, <1>u, <1>w, <1>h, <1>c, NoCredit DEF Base
<1>3. CASE NotifyCompare(u)
  <2>1. pc[u] = "compare" /\ tasks_latency' = tasks_latency /\ loaded' = loaded
    BY <1>3 DEF NotifyCompare
  <2>2. \A t \in hung : ~PutBack(t)
    BY <1>o, <2>1 DEF PutBack, InNotify
  <2>3. CASE AllNotified(tasks_monitored_mask)
    <3>1. pc'[u] = "reload" /\ tasks_notified_mask' = {}
      BY <1>3, <2>3, <1>t DEF NotifyCompare, GoOn, NotifiedAfterReset
    <3>2. \A t \in hung : ~Noted(t)'
      BY <2>1, <3>1, <1>o, <1>u DEF Noted, PutBack, InNotify
    <3>3. \A t \in hung : Watched(t) => Noted(t)
      BY <2>3 DEF Watched, AllNotified, Noted
    <3> QED
      BY <2>1, <3>2, <3>3, <1>u, <1>w, <1>h, <1>c, Charged DEF Base
  <2>4. CASE ~AllNotified(tasks_monitored_mask)
    <3>1. pc'[u] \in {"idle", "idleWait"} /\ tasks_notified_mask' = tasks_notified_mask
      BY <1>3, <2>4, <1>t DEF NotifyCompare, Finish
    <3>2. \A t \in hung : Noted(t)' => Noted(t)
      BY <2>1, <3>1, <1>u DEF Noted, PutBack
    <3>3. lifetime' = lifetime
      BY <2>1, <3>1, <1>q
    <3> QED
      BY <2>1, <3>2, <3>3, <1>u, <1>w, <1>h, <1>c, NoCredit DEF Base
  <2> QED
    BY <2>3, <2>4
<1>4. CASE NotifyReload(u) \/ NotifyEnable(u)
  <2>1. /\ pc[u] \in {"reload", "enable"}
        /\ pc'[u] \in {"enable", "idle", "idleWait"} /\ pc'[u] # pc[u]
        /\ UNCHANGED <<tasks_latency, tasks_notified_mask, loaded>>
    <3>1. CASE NotifyReload(u) /\ wdog_off
      BY <3>1, <1>t DEF NotifyReload, Finish
    <3>2. CASE NotifyReload(u) /\ ~wdog_off
      BY <3>2, <1>t DEF NotifyReload, GoOn
    <3>3. CASE NotifyEnable(u)
      BY <3>3, <1>t DEF NotifyEnable, Finish
    <3> QED
      BY <1>4, <3>1, <3>2, <3>3
  <2>2. \A t \in hung : Noted(t)' => Noted(t)
    BY <2>1, <1>u DEF Noted, PutBack
  <2>3. lifetime' = lifetime
    BY <2>1, <1>q
  <2> QED
    BY <2>1, <2>2, <2>3, <1>u, <1>w, <1>h, <1>c, NoCredit DEF Base
<1> QED
  BY <1>i, <1>1, <1>2, <1>3, <1>4 DEF NotifyNext

\* The counter and its interrupt.
LEMMA LifeHw ==
    ASSUME Base, LInv, HwNext, Watch
    PROVE  LInv'
<1> USE DEF maskVars, ctlVars, hwVars, callVars, taskVars
<1>t. /\ tasks_latency \in [Id -> 0 .. MaxLatency] /\ hung \subseteq Task
      /\ counter \in 0 .. Period /\ tasks_monitored_mask \subseteq Id
  BY DEF Base, WInv, DataTypeOK
<1>1. UNCHANGED <<hung, held, pc, nid, idle_task_id, loaded, tasks_monitored_mask>>
  BY DEF HwNext, Tick, da16x_sys_watchdog_callback
<1>2. OwnNotify' /\ HungIdle'
  BY <1>1 DEF LInv, OwnNotify, HungIdle, InNotify
<1>3. \A t \in hung : PutBack(t)' <=> PutBack(t)
  BY <1>1 DEF PutBack
<1>c. \A t \in hung : held[t] # -1 => held[t] \in Id /\ tasks_latency[held[t]] \in Nat
  BY <1>t, CreditTyped DEF Base
<1>4. CASE Tick
  <2>1. UNCHANGED <<tasks_latency, tasks_notified_mask>> /\ counter # 0
    BY <1>4, <1>t DEF Tick
  <2>2. lifetime' = lifetime
    <3>1. ~Satisfied
      BY <2>1, <1>1 DEF Satisfied
    <3> QED
      BY <3>1, <1>1, LifeQuiet DEF LInv
  <2>3. \A t \in hung : Noted(t)' => Noted(t)
    BY <1>1, <1>3, <2>1 DEF Noted
  <2> QED
    BY <1>1, <1>2, <1>c, <2>1, <2>2, <2>3, NoCredit DEF Base
<1>5. CASE da16x_sys_watchdog_callback
  <2>1. tasks_latency' = [i \in Id |-> LatencyLeft(i)]
    BY <1>5 DEF da16x_sys_watchdog_callback
  <2>2. \A t \in hung : held[t] # -1 =>
            /\ tasks_latency'[held[t]] \in Nat
            /\ tasks_latency'[held[t]] <= tasks_latency[held[t]]
            /\ tasks_latency[held[t]] # 0 =>
                  tasks_latency'[held[t]] < tasks_latency[held[t]]
    BY <2>1, <1>c DEF LatencyLeft
  <2>3. CASE AllNotified(Due)
    <3>1. tasks_notified_mask' = {}
      BY <1>5, <2>3 DEF da16x_sys_watchdog_callback, NotifiedAfterReset
    <3>2. \A t \in hung : Noted(t)' <=> PutBack(t)
      BY <3>1, <1>3 DEF Noted
    <3>3. \A t \in hung : Watched(t) /\ tasks_latency[held[t]] = 0 => Noted(t)
      BY <2>3 DEF Watched, Due, AllNotified, Noted
    <3>4. \A t \in hung : PutBack(t) => Noted(t)
      BY DEF Noted
    <3> QED
      BY <1>1, <1>2, <1>c, <2>2, <3>2, <3>3, <3>4, Charged DEF Base
  <2>4. CASE ~AllNotified(Due)
    <3>1. UNCHANGED <<tasks_notified_mask, counter>>
      BY <1>5, <2>4 DEF da16x_sys_watchdog_callback
    <3>2. lifetime' = lifetime
      <4>1. ~Satisfied
        BY <3>1, <1>1 DEF Satisfied
      <4> QED
        BY <4>1, <1>1, LifeQuiet DEF LInv
    <3>3. \A t \in hung : Noted(t)' => Noted(t)
      BY <1>1, <1>3, <3>1 DEF Noted
    <3> QED
      BY <1>1, <1>2, <1>c, <2>2, <3>2, <3>3, NoCredit DEF Base
  <2> QED
    BY <2>3, <2>4
<1> QED
  BY <1>4, <1>5 DEF HwNext

\* The rescale time, a restart and a stutter; the switch is not used.
LEMMA LifeRest ==
    ASSUME "disable" \notin Ops, Base, LInv,
           \/ da16x_sys_watchdog_disable /\ Watch
           \/ da16x_sys_watchdog_enable /\ Watch
           \/ da16x_sys_watchdog_set_rescale_time /\ Watch
           \/ ObsRestart \/ UNCHANGED allVars
    PROVE  LInv'
<1> USE DEF maskVars, ctlVars, hwVars, callVars, taskVars
<1>1. ~da16x_sys_watchdog_disable /\ ~da16x_sys_watchdog_enable
  BY DEF da16x_sys_watchdog_disable, da16x_sys_watchdog_enable, Base
<1>2. CASE ObsRestart
  <2>1. hung' = {} /\ idle_task_id' = -1 /\ pc' = [t \in Task |-> "idle"]
        /\ lifetime' = [t \in Task |-> MaxLifetime]
    BY <1>2 DEF ObsRestart, Restart
  <2>2. MaxLifetime \in Nat
    BY WatchdogAssumption DEF MaxLifetime
  <2> QED
    BY <2>1, <2>2 DEF LInv, OwnNotify, HungIdle, InNotify, LifeTyped, LifeCovers,
       HungSurvival
<1>3. CASE (da16x_sys_watchdog_set_rescale_time /\ Watch) \/ UNCHANGED allVars
  <2>1. UNCHANGED <<hung, held, pc, nid, idle_task_id, loaded, tasks_latency,
                    tasks_notified_mask, counter>>
    BY <1>3 DEF da16x_sys_watchdog_set_rescale_time, allVars, vars
  <2>2. lifetime' = lifetime
    <3>1. ~Satisfied
      BY <2>1 DEF Satisfied
    <3>2. CASE Watch
      BY <3>1, <3>2, <2>1, LifeQuiet DEF LInv
    <3>3. CASE UNCHANGED allVars
      BY <3>3 DEF allVars, obsVars
    <3> QED
      BY <1>3, <3>2, <3>3
  <2> QED
    BY <2>1, <2>2 DEF LInv, OwnNotify, HungIdle, InNotify, LifeTyped, LifeCovers,
       HungSurvival, Credit, Noted, PutBack
<1> QED
  BY <1>1, <1>2, <1>3

\* With an identifier for every task, no idle identifier and a watchdog that is
\* never disabled, a monitored task that hangs passes at most its latency and
\* one more interval, however many tasks there are and whatever they call, not
\* counting the intervals that the interrupt ends between a notify's load and
\* its store of the hung task's notification
\* (da16x_sys_watchdog_notify_about_task, da16x_sys_watchdog_callback).
THEOREM HungTaskPasses ==
    ASSUME "disable" \notin Ops, "idle" \notin Ops, IsFiniteSet(Task),
           Cardinality(Task) <= MaxTasks
    PROVE  ObsSpec => []HungSurvival
<1>1. ObsInit => Base /\ LInv
  <2> SUFFICES ASSUME ObsInit PROVE Base /\ LInv
    OBVIOUS
  <2>1. Init /\ lifetime = [t \in Task |-> MaxLifetime]
    BY DEF ObsInit
  <2>2. Base
    BY <2>1, WInit DEF Init, Base, MaskHeld, IdsExclusive, SemOwned, InNotify
  <2>3. MaxLifetime \in Nat
    BY WatchdogAssumption DEF MaxLifetime
  <2>4. LInv
    BY <2>1, <2>3 DEF Init, LInv, OwnNotify, HungIdle, InNotify, LifeTyped,
       LifeCovers, HungSurvival
  <2> QED
    BY <2>2, <2>4
<1>2. Base /\ LInv /\ [ObsNext]_allVars => Base' /\ LInv'
  <2> SUFFICES ASSUME Base, LInv, [ObsNext]_allVars PROVE Base' /\ LInv'
    OBVIOUS
  <2>1. Base'
    BY ObsRefines, WStep, SemStep, ActiveStep, MaskHeldStep DEF Base
  <2>2. LInv'
    BY ObsCases, LifeTask, LifeNotify, LifeHw, LifeRest
  <2> QED
    BY <2>1, <2>2
<1>3. LInv => HungSurvival
  BY DEF LInv
<1> QED
  BY <1>1, <1>2, <1>3, PTL DEF ObsSpec
=============================================================================
