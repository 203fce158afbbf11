-------------------------- MODULE DpmAbnormalProofs --------------------------
(***************************************************************************)
(* Proofs about DpmAbnormal, for every length of the table of intervals,   *)
(* every waiting time and whatever the system may look like to the check.  *)
(***************************************************************************)
EXTENDS DpmAbnormal, TLAPS

-----------------------------------------------------------------------------
(* The type invariant.  That idle_time is bounded needs an account of who  *)
(* lets it grow: silence beyond both limits is counted by reason 5 too, and *)
(* the counter of reason 5 ends in a sleep.                                *)

\* The types of the variables that hold no Boolean.
DataOK ==
    /\ last_abnormal_count \in 0..(RetryCnt - 1)
    /\ last_sleep_type \in {0, 1}
    /\ wifi_conn_wait_time \in Times \cup {0}
    /\ nv_wait \in Times \cup {0}
    /\ fail_cnt \in [Reason -> Nat]
    /\ idle_time \in Nat
    /\ act \in {"no", "counted", "resting", "marked"}
    /\ timer \in {"none", "running", "stopped"}
    /\ pc \in {"idle", "read", "stopping", "starting"}
    /\ cond \in CondSets
    /\ power \in Abnormal \cup {"boot", "on", "dpm"}
    /\ calls \in 0..MaxCalls
    /\ chain \in 0..(RetryCnt - 1)
    /\ since \in Nat

\* The types of the Boolean variables.
FlagOK ==
    /\ nv_stop \in BOOLEAN /\ hold_flag \in BOOLEAN /\ stopped \in BOOLEAN
    /\ sleep1_flag \in BOOLEAN /\ sleep2_triggered \in BOOLEAN
    /\ daemon_hold \in BOOLEAN
    /\ wakeup \in BOOLEAN /\ left \in BOOLEAN

\* The silence beyond the two limits was counted.
SilenceCounted ==
    /\ fail_cnt[5] <= MaxWait[5]
    /\ idle_time <= IdleReady + IdleUser + fail_cnt[5]

AInv == DataOK /\ FlagOK /\ SilenceCounted

\* The limits are numbers.
LEMMA Limits ==
    /\ RetryCnt \in Nat /\ RetryCnt > 1
    /\ MaxWait \in [Reason -> Nat \ {0}]
    /\ \A a \in Reason : MaxWait[a] \in Nat /\ MaxWait[a] > 0
    /\ IdleReady \in Nat /\ IdleUser \in Nat /\ MaxCalls \in Nat
    /\ 1 \in Reason /\ 5 \in Reason
    /\ Times \subseteq Nat
  BY TableAssumption, WaitAssumption, TimesAssumption, LimitAssumption DEF Reason

\* The invariant gives the types.
LEMMA AInvTypes == AInv => TypeOK
<1> SUFFICES ASSUME AInv PROVE TypeOK
  OBVIOUS
<1>1. idle_time \in 0..(IdleReady + IdleUser + MaxWait[5] + 1)
  <2>1. fail_cnt[5] \in Nat /\ MaxWait[5] \in Nat
    BY Limits DEF AInv, DataOK
  <2> QED
    BY <2>1, Limits DEF AInv, DataOK, SilenceCounted
<1>2. {hold_flag, stopped, sleep1_flag, sleep2_triggered, daemon_hold, wakeup,
       left} \subseteq BOOLEAN
  BY Zenon DEF AInv, FlagOK
<1>3. nv_stop \in BOOLEAN
  BY Zenon DEF AInv, FlagOK
<1> QED
  BY <1>1, <1>2, <1>3 DEF AInv, DataOK, TypeOK

\* The waiting times are numbers.
LEMMA WaitTyped ==
    ASSUME DataOK
    PROVE  ConnWait \in Nat /\ \A a \in Reason : Wait(a) \in Nat
  BY Limits DEF DataOK, ConnWait, Wait

\* The place in the table stays in the table.
LEMMA NextCountTyped ==
    ASSUME DataOK
    PROVE  NextCount \in 0..(RetryCnt - 1)
  BY Limits DEF DataOK, NextCount

\* The seconds of silence are a number.
LEMMA IdleTyped ==
    ASSUME DataOK, NEW traffic \in BOOLEAN
    PROVE  Idle(traffic) \in Nat /\ Idle(traffic) <= idle_time + 1
  BY DEF DataOK, Idle

\* What the check may see of the traffic: without another reason, silence
\* within the limits is no reason.
LEMMA SeenIs ==
    ASSUME NEW i \in Nat
    PROVE  /\ Seen(i) \in Reason \cup {NoReason, Report}
           /\ LooksAtTraffic /\ Seen(i) = NoReason => i <= IdleReady + IdleUser
           /\ LooksAtTraffic /\ Seen(i) \in Reason => Seen(i) = 5
           /\ Seen(i) = 5 => LooksAtTraffic /\ i > IdleReady
<1>1. CASE LooksAtTraffic
  BY <1>1, Limits DEF LooksAtTraffic, Seen, Reason, NoReason, Report
<1>2. CASE ~LooksAtTraffic
  BY <1>2, Limits DEF LooksAtTraffic, Seen, Reason, NoReason, Report
<1> QED
  BY <1>1, <1>2

\* A tick keeps the types and the account of the silence.
LEMMA ATick == ASSUME AInv, Tick PROVE DataOK' /\ SilenceCounted'
<1> USE Limits DEF AInv, dpm_monitor_cleanup, retained, nvram, switches, flags,
                   world
<1>1. CASE Cleans
  BY <1>1 DEF Cleans, DataOK, SilenceCounted
<1>2. ASSUME NEW traffic \in BOOLEAN, Quiet(traffic)
      PROVE  DataOK' /\ SilenceCounted'
  <2>1. DataOK'
    BY <1>2, IdleTyped DEF Quiet, DataOK
  <2>2. idle_time' <= IdleReady + IdleUser + fail_cnt[5]
    <3>1. fail_cnt[5] \in Nat
      BY DEF DataOK
    <3>2. CASE LooksAtTraffic
      BY <1>2, <3>1, <3>2, IdleTyped, SeenIs DEF Quiet
    <3>3. CASE ~LooksAtTraffic
      BY <1>2, <3>3 DEF Quiet, Idle, SilenceCounted
    <3> QED
      BY <3>2, <3>3
  <2> QED
    BY <1>2, <2>1, <2>2 DEF Quiet, SilenceCounted
<1>3. ASSUME NEW traffic \in BOOLEAN, Waits(traffic)
      PROVE  DataOK' /\ SilenceCounted'
  <2> DEFINE a == Seen(Idle(traffic))
  <2>1. a \in Reason /\ fail_cnt[a] < Wait(a) /\ fail_cnt' = Count(a)
        /\ idle_time' = Idle(traffic)
    BY <1>3 DEF Waits
  <2>2. DataOK'
    BY <1>3, <2>1, IdleTyped DEF Waits, DataOK, Count
  <2>3. SilenceCounted'
    <3>1. fail_cnt[5] \in Nat /\ idle_time \in Nat
      BY DEF DataOK
    <3>2. CASE a = 5
      <4>1. fail_cnt[5] < MaxWait[5]
        BY <2>1, <3>2 DEF Wait
      <4>2. fail_cnt'[5] = fail_cnt[5] + 1
        BY <2>1, <3>2 DEF Count, DataOK
      <4> QED
        BY <2>1, <3>1, <4>1, <4>2, IdleTyped DEF SilenceCounted
    <3>3. CASE a # 5
      <4>1. fail_cnt'[5] = fail_cnt[5]
        BY <2>1, <3>3 DEF Count, DataOK
      <4>2. ~LooksAtTraffic
        BY <2>1, <3>3, IdleTyped, SeenIs
      <4> QED
        BY <2>1, <4>1, <4>2 DEF SilenceCounted, Idle
    <3> QED
      BY <3>2, <3>3
  <2> QED
    BY <2>2, <2>3
<1>4. ASSUME NEW traffic \in BOOLEAN, Reports(traffic)
      PROVE  DataOK' /\ SilenceCounted'
  BY <1>4, NextCountTyped DEF Reports, DataOK, SilenceCounted
<1>5. ASSUME NEW traffic \in BOOLEAN, Sleeps(traffic)
      PROVE  DataOK' /\ SilenceCounted'
  BY <1>5, NextCountTyped DEF Sleeps, DataOK, SilenceCounted
<1>6. CASE Marks
  <2>1. chain' \in 0..(RetryCnt - 1)
    BY <1>6 DEF Marks, DataOK
  <2> QED
    BY <1>6, <2>1 DEF Marks, DataOK, SilenceCounted, SleepType, counters
<1>7. CASE PowersDown
  <2>1. power' \in Abnormal
    BY <1>7 DEF PowersDown, Depth, Abnormal
  <2> QED
    BY <1>7, <2>1 DEF PowersDown, DataOK, SilenceCounted, retained, counters
<1> QED
  BY <1>1, <1>2, <1>3, <1>4, <1>5, <1>6, <1>7 DEF Tick

\* A boot keeps the types.
LEMMA ABoot ==
    ASSUME AInv, BootRam, calls' \in 0..MaxCalls,
           last_abnormal_count' \in {0, last_abnormal_count},
           last_sleep_type' \in {0, last_sleep_type},
           wifi_conn_wait_time' \in {0, wifi_conn_wait_time},
           chain' \in {0, chain}
    PROVE  DataOK' /\ SilenceCounted'
  BY Limits DEF AInv, BootRam, DataOK, SilenceCounted, nvram

\* The steps other than ticks keep the types.
LEMMA AOther ==
    ASSUME AInv, Starts \/ Calls \/ Change \/ AlarmNears \/ DpmSleep
    PROVE  DataOK' /\ SilenceCounted'
<1> USE Limits DEF AInv, DataOK, SilenceCounted, retained, nvram, counters,
                   switches, flags, world, Called
<1>1. CASE Starts
  BY <1>1 DEF Starts, StartChecks, ReadStop, ConfigSave, Obey
<1>2. CASE Calls
  <2>1. ASSUME NEW why, ForceSleep(why)
        PROVE  DataOK' /\ SilenceCounted'
    BY <2>1 DEF ForceSleep, Forced
  <2>2. ASSUME NEW b \in BOOLEAN, HoldChecks(b) \/ StopMonitor(b)
                                    \/ HoldDaemon(b) \/ ConfigTimer(b)
        PROVE  DataOK' /\ SilenceCounted'
    BY <2>2 DEF HoldChecks, StopMonitor, HoldDaemon, ConfigTimer
  <2>3. ASSUME NEW t \in Times, SetWait(t)
        PROVE  DataOK' /\ SilenceCounted'
    BY <2>3 DEF SetWait
  <2> QED
    BY <1>2, <2>1, <2>2, <2>3 DEF Calls
<1>3. CASE Change
  BY <1>3 DEF Change
<1>4. CASE AlarmNears
  BY <1>4 DEF AlarmNears
<1>5. CASE DpmSleep
  BY <1>5 DEF DpmSleep, clear_abnormal_DPM_param
<1> QED
  BY <1>1, <1>2, <1>3, <1>4, <1>5

\* Every step keeps the data typed.
LEMMA AData == ASSUME AInv, [Next]_vars PROVE DataOK' /\ SilenceCounted'
<1>1. ASSUME NEW b, Wake(b) PROVE DataOK' /\ SilenceCounted'
  <2>1. 0 \in 0..MaxCalls
    BY Limits
  <2> QED
    BY <1>1, <2>1, ABoot DEF Wake, retained
<1>2. CASE Reset
  <2>1. calls' \in 0..MaxCalls
    BY <1>2, Limits DEF Reset, AInv, DataOK
  <2> QED
    BY <1>2, <2>1, ABoot DEF Reset, retained
<1>3. CASE UNCHANGED vars
  BY <1>3 DEF vars, retained, nvram, counters, switches, flags, world, AInv,
              DataOK, SilenceCounted
<1>4. CASE AlarmWake \/ OtherWake \/ ButtonWake
  BY <1>1, <1>4 DEF AlarmWake, OtherWake, ButtonWake
<1> QED
  BY <1>2, <1>3, <1>4, ATick, AOther DEF Next

\* Every step keeps the Boolean variables Boolean.
LEMMA AFlags == ASSUME AInv, [Next]_vars PROVE FlagOK'
<1> USE DEF AInv, FlagOK, retained, nvram, counters, switches, flags, world, Called
<1>1. CASE Tick
  <2>1. ASSUME NEW traffic, Sleeps(traffic) PROVE FlagOK'
    BY <2>1, Zenon DEF Sleeps
  <2>2. ASSUME NEW traffic, Quiet(traffic) \/ Waits(traffic) \/ Reports(traffic)
        PROVE  FlagOK'
    BY <2>2, Zenon DEF Quiet, Waits, Reports
  <2>3. CASE Cleans \/ Marks \/ PowersDown
    BY <2>3, Zenon DEF Cleans, Marks, PowersDown
  <2> QED
    BY <1>1, <2>1, <2>2, <2>3 DEF Tick
<1>2. CASE Starts
  BY <1>2, Zenon DEF Starts, StartChecks, ReadStop, ConfigSave
<1>3. CASE Calls
  <2>1. ASSUME NEW why, ForceSleep(why) PROVE FlagOK'
    <3>1. /\ (sleep1_flag \/ why = "key") \in BOOLEAN
          /\ (sleep2_triggered \/ why = "sleep2") \in BOOLEAN
      OBVIOUS
    <3> QED
      BY <2>1, <3>1, Zenon DEF ForceSleep
  <2>2. ASSUME NEW b \in BOOLEAN, HoldChecks(b) \/ StopMonitor(b)
                                    \/ HoldDaemon(b) \/ ConfigTimer(b)
        PROVE  FlagOK'
    <3>1. CASE HoldChecks(b)
      BY <3>1, Zenon DEF HoldChecks
    <3>2. CASE StopMonitor(b)
      BY <3>2, Zenon DEF StopMonitor
    <3>3. CASE HoldDaemon(b)
      BY <3>3, Zenon DEF HoldDaemon
    <3>4. CASE ConfigTimer(b)
      BY <3>4, Zenon DEF ConfigTimer
    <3> QED
      BY <2>2, <3>1, <3>2, <3>3, <3>4
  <2>3. ASSUME NEW t \in Times, SetWait(t) PROVE FlagOK'
    BY <2>3, Zenon DEF SetWait
  <2> QED
    BY <1>3, <2>1, <2>2, <2>3 DEF Calls
<1>4. CASE Change \/ AlarmNears \/ DpmSleep
  BY <1>4, Zenon DEF Change, AlarmNears, DpmSleep
<1>5. ASSUME NEW b, Wake(b) PROVE FlagOK'
  BY <1>5, Zenon DEF Wake, BootRam
<1>6. CASE Reset
  BY <1>6, Zenon DEF Reset, BootRam
<1>7. CASE UNCHANGED vars
  BY <1>7, Zenon DEF vars
<1> QED
  BY <1>1, <1>2, <1>3, <1>4, <1>5, <1>6, <1>7
     DEF Next, AlarmWake, OtherWake, ButtonWake

\* The check begins with the types.
LEMMA AInit == Init => AInv
<1> SUFFICES ASSUME Init PROVE AInv
  OBVIOUS
<1>1. DataOK /\ SilenceCounted
  BY Limits DEF Init, DataOK, SilenceCounted
<1>2. FlagOK
  BY Zenon DEF Init, FlagOK
<1> QED
  BY <1>1, <1>2 DEF AInv

\* AInv is an invariant.
LEMMA AlwaysA == Spec => []AInv
<1>1. AInv /\ [Next]_vars => AInv'
  BY AData, AFlags DEF AInv
<1> QED
  BY <1>1, AInit, PTL DEF Spec

\* Every variable of the check keeps its type: the place stays in the table of
\* intervals (dpm_abnormal_next_action), and silence is not counted for ever
\* (dpm_sts_chk_tm_fn).
THEOREM AbnormalTypes == Spec => []TypeOK
  BY AlwaysA, AInvTypes, PTL

-----------------------------------------------------------------------------
(* The growing intervals.  A boot goes back to the first interval if the    *)
(* last sleep was not the check's; so a chain of its sleeps must have left  *)
(* that mark.                                                               *)

ChainMarked == chain > 0 => last_sleep_type = 1

\* A sleep that is saved and not yet marked has its place behind the others.
CountedAhead ==
    act = "counted" => \/ chain < last_abnormal_count
                       \/ last_abnormal_count = RetryCnt - 1

\* A boot does not go on with the callback.
BootStops == power = "boot" => act = "no"

BackInv == BackOffKept /\ ChainMarked /\ CountedAhead /\ BootStops

\* No step takes back what the sleeps in a row have reached.
LEMMA BackStep == ASSUME AInv, BackInv, [Next]_vars PROVE BackInv'
<1> USE Limits DEF BackInv, BackOffKept, ChainMarked, CountedAhead, BootStops,
                   AInv, DataOK, Abnormal, retained, nvram, counters, switches,
                   flags, world, Called
<1>1. CASE Tick
  <2>1. CASE Cleans
    BY <1>1, <2>1 DEF Cleans
  <2>2. ASSUME NEW traffic \in BOOLEAN, Quiet(traffic) \/ Waits(traffic)
        PROVE  BackInv'
    BY <2>2 DEF Quiet, Waits
  <2>3. ASSUME NEW traffic \in BOOLEAN, Reports(traffic) PROVE BackInv'
    BY <2>3 DEF Reports, NextCount
  <2>4. ASSUME NEW traffic \in BOOLEAN, Sleeps(traffic) PROVE BackInv'
    BY <2>4 DEF Sleeps, NextCount, Resting, Checks, Runs
  <2>5. CASE Marks
    BY <2>5 DEF Marks, SleepType
  <2>6. CASE PowersDown
    BY <2>6 DEF PowersDown
  <2> QED
    BY <1>1, <2>1, <2>2, <2>3, <2>4, <2>5, <2>6 DEF Tick
<1>2. CASE Starts
  BY <1>2 DEF Starts, StartChecks, ReadStop, ConfigSave
<1>3. CASE Calls
  BY <1>3 DEF Calls, ForceSleep, HoldChecks, StopMonitor, HoldDaemon, ConfigTimer,
              SetWait
<1>4. CASE Change \/ AlarmNears \/ DpmSleep
  BY <1>4 DEF Change, AlarmNears, DpmSleep, clear_abnormal_DPM_param
<1>5. ASSUME NEW b, Wake(b) PROVE BackInv'
  BY <1>5 DEF Wake, BootRam
<1>6. CASE Reset
  BY <1>6 DEF Reset, BootRam
<1>7. CASE UNCHANGED vars
  BY <1>7 DEF vars
<1> QED
  BY <1>1, <1>2, <1>3, <1>4, <1>5, <1>6, <1>7
     DEF Next, AlarmWake, OtherWake, ButtonWake

\* The n-th sleep of the check in a row waits for at least the n-th interval,
\* for a table of any length and wherever a reset cuts the callback off on its
\* way to the power-down (dpm_abnormal_next_action, start_dpm_sts_chk_timer).
THEOREM BackOffGrows == Spec => []BackOffKept
<1>1. Init => BackInv
  BY DEF Init, BackInv, BackOffKept, ChainMarked, CountedAhead, BootStops
<1>2. AInv /\ BackInv /\ [Next]_vars => BackInv'
  BY BackStep
<1>3. BackInv => BackOffKept
  BY DEF BackInv
<1> QED
  BY <1>1, <1>2, <1>3, AlwaysA, PTL DEF Spec

-----------------------------------------------------------------------------
(* A forced sleep.  Since the force call the counter of reason 1 tells how  *)
(* many ticks found no connection; a boot forgets both.                     *)

SinceCounted == since > 0 => fail_cnt[1] = MaxWait[1] + since - 2

BootForgets == power = "boot" => since = 0

ForceInv == ForcedSoon /\ SinceCounted /\ BootForgets

\* No step puts a forced sleep off.
LEMMA ForceStep == ASSUME AInv, ForceInv, [Next]_vars PROVE ForceInv'
<1>t. /\ fail_cnt \in [Reason -> Nat] /\ since \in Nat /\ ConnWait \in Nat
      /\ MaxWait[1] \in Nat /\ MaxWait[1] > 0
  BY Limits, WaitTyped DEF AInv, DataOK
<1> USE <1>t, Limits DEF ForceInv, ForcedSoon, SinceCounted, BootForgets, ConnWait,
                   retained, nvram, counters, switches, flags, world, Called, Abnormal
<1>1. CASE Tick
  <2>1. CASE Cleans
    BY <2>1 DEF Cleans, dpm_monitor_cleanup
  <2>2. ASSUME NEW traffic \in BOOLEAN, Quiet(traffic) PROVE ForceInv'
    BY <2>2 DEF Quiet
  <2>3. ASSUME NEW traffic \in BOOLEAN, Waits(traffic) PROVE ForceInv'
    <3> DEFINE a == Seen(Idle(traffic))
    <3>1. /\ a \in Reason /\ fail_cnt[a] < Wait(a) /\ fail_cnt' = Count(a)
          /\ since' = IF a = 1 /\ since > 0 THEN since + 1 ELSE since
          /\ UNCHANGED <<wifi_conn_wait_time, power>>
      BY <2>3 DEF Waits
    <3>2. CASE a = 1
      BY <3>1, <3>2 DEF Count, Wait
    <3>3. CASE a # 1
      BY <3>1, <3>3 DEF Count
    <3> QED
      BY <3>2, <3>3
  <2>4. ASSUME NEW traffic \in BOOLEAN, Reports(traffic) \/ Sleeps(traffic)
        PROVE  ForceInv'
    <3>1. since' = 0
      BY <2>4 DEF Reports, Sleeps, dpm_monitor_cleanup
    <3> QED
      BY <3>1
  <2>5. CASE Marks \/ PowersDown
    <3>1. /\ UNCHANGED <<fail_cnt, since, wifi_conn_wait_time>>
          /\ power' = power \/ power' \in Abnormal
      BY <2>5 DEF Marks, PowersDown, Depth
    <3> QED
      BY <3>1
  <2> QED
    BY <1>1, <2>1, <2>2, <2>3, <2>4, <2>5 DEF Tick
<1>2. CASE Starts
  BY <1>2 DEF Starts, StartChecks, ReadStop, ConfigSave
<1>3. CASE Calls
  <2>1. ASSUME NEW why, ForceSleep(why) PROVE ForceInv'
    BY <2>1 DEF ForceSleep, Forced
  <2>2. ASSUME NEW b \in BOOLEAN, HoldChecks(b) \/ StopMonitor(b)
                                    \/ HoldDaemon(b) \/ ConfigTimer(b)
        PROVE  ForceInv'
    BY <2>2 DEF HoldChecks, StopMonitor, HoldDaemon, ConfigTimer
  <2>3. ASSUME NEW t \in Times, SetWait(t) PROVE ForceInv'
    BY <2>3 DEF SetWait
  <2> QED
    BY <1>3, <2>1, <2>2, <2>3 DEF Calls
<1>4. CASE Change \/ AlarmNears \/ DpmSleep
  BY <1>4 DEF Change, AlarmNears, DpmSleep
<1>5. ASSUME NEW b, Wake(b) PROVE ForceInv'
  BY <1>5 DEF Wake, BootRam
<1>6. CASE Reset
  BY <1>6 DEF Reset, BootRam
<1>7. CASE UNCHANGED vars
  BY <1>7 DEF vars
<1> QED
  BY <1>1, <1>2, <1>3, <1>4, <1>5, <1>6, <1>7
     DEF Next, AlarmWake, OtherWake, ButtonWake

\* A forced sleep comes with the second tick without connection, unless a
\* longer waiting time is configured or the counters were cleaned since
\* (force_dpm_abnormal_sleep_by_wifi_conn_fail), for all waiting times.
THEOREM ForcedSleepsSoon == Spec => []ForcedSoon
<1>1. Init => ForceInv
  BY DEF Init, ForceInv, ForcedSoon, SinceCounted, BootForgets
<1>2. AInv /\ ForceInv /\ [Next]_vars => ForceInv'
  BY ForceStep
<1>3. ForceInv => ForcedSoon
  BY DEF ForceInv
<1> QED
  BY <1>1, <1>2, <1>3, AlwaysA, PTL DEF Spec

-----------------------------------------------------------------------------
(* A check that is switched off.  The call to switch it off stops the timer *)
(* before it writes the flag, and nothing starts it in between.             *)

StoppingStopped == pc = "stopping" => timer # "running"

StopInv == StoppedStays /\ StoppingStopped

\* No step starts a check that is switched off.
LEMMA StopStep == ASSUME AInv, StopInv, [Next]_vars PROVE StopInv'
<1> USE DEF StopInv, StoppedStays, StoppingStopped, AInv, FlagOK, retained,
            nvram, counters, switches, flags, world, Called
<1>1. CASE Tick
  <2>1. UNCHANGED <<nv_stop, pc, timer>> \/ timer' = "none"
    BY <1>1, Zenon DEF Tick, Cleans, Quiet, Waits, Reports, Sleeps, Marks,
                       PowersDown
  <2> QED
    BY <2>1
<1>2. CASE Starts
  <2>1. CASE StartChecks
    BY <2>1 DEF StartChecks
  <2>2. CASE ReadStop
    BY <2>2 DEF ReadStop, Obey
  <2>3. CASE ConfigSave
    BY <2>3 DEF ConfigSave
  <2> QED
    BY <1>2, <2>1, <2>2, <2>3 DEF Starts
<1>3. CASE Calls
  BY <1>3 DEF Calls, ForceSleep, HoldChecks, StopMonitor, HoldDaemon, ConfigTimer,
              SetWait
<1>4. CASE Change \/ AlarmNears \/ DpmSleep
  BY <1>4 DEF Change, AlarmNears, DpmSleep
<1>5. ASSUME NEW b, Wake(b) PROVE StopInv'
  BY <1>5 DEF Wake, BootRam
<1>6. CASE Reset
  BY <1>6 DEF Reset, BootRam
<1>7. CASE UNCHANGED vars
  BY <1>7 DEF vars
<1> QED
  BY <1>1, <1>2, <1>3, <1>4, <1>5, <1>6, <1>7
     DEF Next, AlarmWake, OtherWake, ButtonWake

\* A check that is switched off in NVRAM does not run once the boot has read
\* the flag, whatever boots, resets and calls lie between (DPM_ABNORM_STOP).
THEOREM SwitchedOffStaysOff == Spec => []StoppedStays
<1>1. Init => StopInv
  BY DEF Init, StopInv, StoppedStays, StoppingStopped
<1>2. AInv /\ StopInv /\ [Next]_vars => StopInv'
  BY StopStep
<1>3. StopInv => StoppedStays
  BY DEF StopInv
<1> QED
  BY <1>1, <1>2, <1>3, AlwaysA, PTL DEF Spec
=============================================================================
