---------------------------- MODULE DpmAbnormal ----------------------------
(***************************************************************************)
(* The DPM abnormal check (core/system/src/dpm/da16x_dpm_abnorml_chk.c).   *)
(*                                                                         *)
(* A one-second timer looks for a reason why the device is not asleep: no  *)
(* Wi-Fi connection, no address, an unanswered ARP request, a power-down   *)
(* that was announced and did not come, or silence.  Each reason has a     *)
(* counter; when one reaches its limit the check puts the device to sleep  *)
(* itself, for an interval that grows with every such sleep in a row.  The *)
(* place in the table of intervals is kept in retention memory, the        *)
(* counters are not.                                                       *)
(*                                                                         *)
(* The callback is one step until it decides to sleep; from there a reset  *)
(* may come between saving the place in the table, marking the sleep and   *)
(* the power-down.  The retry budget of the supplicant, a wrong key, the   *)
(* sleep-2 command and the join command of the AT interface all reach the  *)
(* check through force_dpm_abnormal_sleep_by_wifi_conn_fail (ForceSleep).  *)
(***************************************************************************)
EXTENDS Naturals

CONSTANTS
    RetryCnt,      \* DPM_MON_RETRY_CNT, the length of the interval table
    LastIsForever, \* the last interval is 0xDEADBEAF: no alarm wakes the device
    MaxWait,       \* MAX_..._TIME of the reasons 1 to 5, in seconds
    IdleReady,     \* seconds of silence after which a ready device is suspect
    IdleUser,      \* seconds of silence after which an unready one is reported
    Times,         \* the waiting times the console sets, all above 0
    CondSets,      \* what the system may look like to the check
    MaxCalls       \* bound: calls from outside and resets, per sleep

Reason == 1..5     \* DPM_ABNORM_ACT_1 to 5: these end in a sleep
Report == 6        \* DPM_ABNORM_ACT_6: the application is only reported
NoReason == 0

ASSUME TableAssumption == RetryCnt \in Nat /\ RetryCnt > 1
ASSUME WaitAssumption  == MaxWait \in [Reason -> Nat \ {0}]
ASSUME TimesAssumption == Times \subseteq Nat \ {0}
ASSUME LimitAssumption == {IdleReady, IdleUser, MaxCalls} \subseteq Nat

VARIABLES
    \* retention memory and NVRAM
    last_abnormal_count,   \* place in the table of intervals
    last_sleep_type,       \* 1: the last sleep was the check's
    wifi_conn_wait_time,   \* configured waiting time, 0 for none
    nv_wait,               \* its copy in NVRAM
    nv_stop,               \* DPM_ABNORM_STOP in NVRAM
    \* RAM
    fail_cnt,              \* the five counters
    idle_time,
    hold_flag,             \* dpm_abnorm_chk_hold_flag
    stopped,               \* dpm_monitor_stopped
    sleep1_flag,
    sleep2_triggered,      \* cmd_combo_is_sleep2_triggered
    act,                   \* how far the callback is on its way to the sleep
    daemon_hold,           \* dpm_daemon_hold_flag, see DpmSleep
    timer,                 \* the state of dpm_sts_chk_tm
    pc,                    \* "no call", or the call to the configuration
    \* the surroundings
    cond,                  \* what the check sees
    power,
    wakeup,                \* the wake-up is a DPM wake-up: chk_dpm_wakeup
    left,                  \* woken by the button, over 30 s before the alarm
    \* bound and history
    calls,
    chain,                 \* sleeps of the check in a row, up to the last entry
    since                  \* 0, or 1 + the seconds without connection since ForceSleep

retained == <<last_abnormal_count, last_sleep_type, wifi_conn_wait_time>>
nvram    == <<nv_wait, nv_stop>>
counters == <<fail_cnt, idle_time, since>>
flags    == <<hold_flag, stopped, sleep1_flag, sleep2_triggered, daemon_hold>>
switches == <<flags, act, timer, pc>>
world    == <<cond, power, wakeup, left>>

vars == <<retained, nvram, counters, switches, world, calls, chain>>

Abnormal == {"sleep1", "sleep2"}

ConnWait == IF wifi_conn_wait_time > 0 THEN wifi_conn_wait_time ELSE MaxWait[1]

Wait(a) == IF a = 1 THEN ConnWait ELSE MaxWait[a]

\* Types of the check's state: the place stays in the table of intervals.
TypeOK ==
    /\ last_abnormal_count \in 0..(RetryCnt - 1)
    /\ last_sleep_type \in {0, 1}
    /\ wifi_conn_wait_time \in Times \cup {0}
    /\ nv_wait \in Times \cup {0}
    /\ nv_stop \in BOOLEAN
    /\ fail_cnt \in [Reason -> Nat]
    /\ idle_time \in 0..(IdleReady + IdleUser + MaxWait[5] + 1)
    /\ {hold_flag, stopped, sleep1_flag, sleep2_triggered, daemon_hold, wakeup,
        left} \subseteq BOOLEAN
    /\ act \in {"no", "counted", "resting", "marked"}
    /\ timer \in {"none", "running", "stopped"}
    /\ pc \in {"idle", "read", "stopping", "starting"}
    /\ cond \in CondSets
    /\ power \in Abnormal \cup {"boot", "on", "dpm"}
    /\ calls \in 0..MaxCalls
    /\ chain \in 0..(RetryCnt - 1)
    /\ since \in Nat

-----------------------------------------------------------------------------
(* What the check sees.  DPM_KEY and Disconnect_loss are the modules whose   *)
(* missing bit counts as a lost connection.                                  *)

Unlinked == cond \cap {"noconn", "key"} # {}

\* The first reason that applies, idle being the seconds of silence.
Seen(idle) ==
    CASE Unlinked /\ "wps" \in cond     -> NoReason
      [] Unlinked /\ "wps" \notin cond  -> 1
      [] ~Unlinked /\ "noip" \in cond   -> 2
      [] ~Unlinked /\ "noip" \notin cond /\ "arp" \in cond -> 3
      [] ~Unlinked /\ cond \cap {"noip", "arp"} = {} /\ "done" \in cond -> 4
      [] OTHER ->
           IF "notready" \in cond /\ idle > IdleUser THEN Report
           ELSE IF "notready" \notin cond /\ idle > IdleReady THEN 5
           ELSE NoReason

\* The four reasons that are looked at before the traffic is.
LooksAtTraffic == ~Unlinked /\ cond \cap {"noip", "arp", "done"} = {}

Runs == power = "on" /\ act = "no" /\ timer = "running"
          /\ "nodpm" \notin cond /\ ~hold_flag

dpm_monitor_cleanup ==
    /\ fail_cnt' = [a \in Reason |-> 0]
    /\ idle_time' = 0
    /\ since' = 0

\* While the daemon is held or the monitor stopped, a tick only cleans up.
Cleans ==
    /\ Runs
    /\ daemon_hold \/ stopped
    /\ dpm_monitor_cleanup
    /\ UNCHANGED <<retained, nvram, switches, world, calls, chain>>

\* Silence is counted only when nothing else is wrong.
Idle(traffic) ==
    IF ~LooksAtTraffic THEN idle_time ELSE IF traffic THEN 0 ELSE idle_time + 1

Checks == Runs /\ ~daemon_hold /\ ~stopped

Quiet(traffic) ==
    /\ Checks
    /\ Seen(Idle(traffic)) = NoReason
    /\ idle_time' = Idle(traffic)
    /\ UNCHANGED <<fail_cnt, since, retained, nvram, switches, world, calls, chain>>

\* Fault: the counters of the other reasons start again.
CountAlone(a) == [b \in Reason |-> IF b = a THEN fail_cnt[a] + 1 ELSE 0]

Count(a) == [fail_cnt EXCEPT ![a] = @ + 1]

Waits(traffic) ==
    LET a == Seen(Idle(traffic))
    IN /\ Checks
       /\ a \in Reason
       /\ fail_cnt[a] < Wait(a)
       /\ fail_cnt' = Count(a)
       /\ idle_time' = Idle(traffic)
       /\ since' = IF a = 1 /\ since > 0 THEN since + 1 ELSE since
       /\ UNCHANGED <<retained, nvram, switches, world, calls, chain>>

-----------------------------------------------------------------------------
(* dpm_abnormal_next_action                                                  *)

\* Woken by the button long before the alarm: the place in the table stays.
Resting == left

\* Fault: the end of the table is not looked at.
NextCountOn == last_abnormal_count + 1

\* The last entry is repeated for ever.
NextCount ==
    IF Resting THEN last_abnormal_count
    ELSE IF last_abnormal_count + 1 = RetryCnt THEN last_abnormal_count
    ELSE last_abnormal_count + 1

\* The report raises the place in the table as a sleep does.
Reports(traffic) ==
    /\ Checks
    /\ Seen(Idle(traffic)) = Report
    /\ dpm_monitor_cleanup
    /\ last_abnormal_count' = NextCount
    /\ UNCHANGED <<last_sleep_type, wifi_conn_wait_time, nvram, switches, world,
                   calls, chain>>

\* The place in the table is saved; the callback goes on with Marks.
Sleeps(traffic) ==
    LET a == Seen(Idle(traffic))
    IN /\ Checks
       /\ a \in Reason
       /\ fail_cnt[a] >= Wait(a)
       /\ dpm_monitor_cleanup
       /\ last_abnormal_count' = NextCount
       /\ act' = IF Resting THEN "resting" ELSE "counted"
       /\ UNCHANGED <<last_sleep_type, wifi_conn_wait_time, nvram, flags, timer,
                      pc, world, calls, chain>>

\* Fault: the sleep is not marked as the check's.
MarkedNot == 0

SleepType == 1

\* The daemon is held and the sleep marked.
Marks ==
    /\ act \in {"counted", "resting"}
    /\ act' = "marked"
    /\ daemon_hold' = TRUE
    /\ last_sleep_type' = SleepType
    /\ chain' = IF act = "resting" \/ chain = RetryCnt - 1 THEN chain ELSE chain + 1
    /\ UNCHANGED <<last_abnormal_count, wifi_conn_wait_time, nvram, counters,
                   hold_flag, stopped, sleep1_flag, sleep2_triggered, timer, pc,
                   world, calls>>

\* The time left is read again: if it has run out meanwhile, the sleep-2 command
\* or the table gives the time.
Depth ==
    IF \/ sleep1_flag
       \/ /\ LastIsForever /\ last_abnormal_count = RetryCnt - 1
          /\ ~left /\ ~sleep2_triggered
    THEN "sleep1" ELSE "sleep2"

PowersDown ==
    /\ act = "marked"
    /\ power' = Depth
    /\ act' = "no" /\ timer' = "none" /\ pc' = "idle"
    /\ UNCHANGED <<retained, nvram, counters, flags, cond, wakeup, left, calls,
                   chain>>

Tick ==
    \/ Cleans
    \/ \E traffic \in BOOLEAN :
         Quiet(traffic) \/ Waits(traffic) \/ Reports(traffic) \/ Sleeps(traffic)
    \/ Marks
    \/ PowersDown

-----------------------------------------------------------------------------
(* start_dpm_sts_chk_timer, run by the sleep daemon once the network is up.  *)
(* The timer is started first; then the stop flag is read from NVRAM.        *)

StartChecks ==
    /\ power = "boot"
    /\ power' = "on"
    /\ last_abnormal_count' =
         IF last_sleep_type = 0 THEN 0 ELSE last_abnormal_count
    /\ wifi_conn_wait_time' =
         IF ~wakeup /\ nv_wait > 0 THEN nv_wait ELSE wifi_conn_wait_time
    /\ timer' = "running"
    /\ pc' = "read"
    /\ UNCHANGED <<last_sleep_type, nvram, counters, flags, act, cond, wakeup,
                   left, calls, chain>>

\* Fault: the flag is not obeyed.
ObeyNot == timer

Obey == IF nv_stop THEN "stopped" ELSE timer

ReadStop ==
    /\ pc = "read"
    /\ timer' = Obey
    /\ pc' = "idle"
    /\ UNCHANGED <<retained, nvram, counters, flags, act, world, calls, chain>>

-----------------------------------------------------------------------------
(* Calls from outside.                                                       *)

Called ==
    /\ power = "on"
    /\ pc = "idle"
    /\ calls < MaxCalls
    /\ calls' = calls + 1

\* Fault: two seconds too few.
ForcedLate == MaxWait[1] - 2

Forced == MaxWait[1] - 1

\* force_dpm_abnormal_sleep_by_wifi_conn_fail, after force_dpm_abnormal_sleep1
\* when the key was wrong, and from let_dpm_daemon_trigger_sleep2.
ForceSleep(why) ==
    /\ Called
    /\ fail_cnt' = [fail_cnt EXCEPT ![1] = Forced]
    /\ sleep1_flag' = (sleep1_flag \/ why = "key")
    /\ sleep2_triggered' = (sleep2_triggered \/ why = "sleep2")
    /\ since' = 1
    /\ UNCHANGED <<retained, nvram, idle_time, hold_flag, stopped, daemon_hold,
                   act, timer, pc, world, chain>>

\* dpm_abnormal_chk_hold, dpm_abnormal_chk_resume
HoldChecks(b) ==
    /\ Called
    /\ hold_flag' = b
    /\ UNCHANGED <<retained, nvram, counters, stopped, sleep1_flag,
                   sleep2_triggered, daemon_hold, act, timer, pc, world, chain>>

\* dpm_monitor_stop, dpm_monitor_restart
StopMonitor(b) ==
    /\ Called
    /\ stopped' = b
    /\ UNCHANGED <<retained, nvram, counters, hold_flag, sleep1_flag,
                   sleep2_triggered, daemon_hold, act, timer, pc, world, chain>>

\* hold_dpm_sleepd, resume_dpm_sleepd
HoldDaemon(b) ==
    /\ Called
    /\ daemon_hold' = b
    /\ UNCHANGED <<retained, nvram, counters, hold_flag, stopped, sleep1_flag,
                   sleep2_triggered, act, timer, pc, world, chain>>

\* set_dpm_abnormal_wait_time: NVRAM is not written on a DPM wake-up.
SetWait(t) ==
    /\ Called
    /\ wifi_conn_wait_time' = t
    /\ nv_wait' = IF "nodpm" \notin cond /\ ~wakeup THEN t ELSE nv_wait
    /\ since' = 0
    /\ UNCHANGED <<last_abnormal_count, last_sleep_type, nv_stop, fail_cnt,
                   idle_time, switches, world, chain>>

\* DA16X_CONF_INT_DPM_ABN: the timer is switched first, NVRAM is written after.
ConfigTimer(b) ==
    /\ Called
    /\ timer' = IF b THEN "running" ELSE "stopped"
    /\ pc' = IF b THEN "starting" ELSE "stopping"
    /\ UNCHANGED <<retained, nvram, counters, flags, act, world, chain>>

ConfigSave ==
    /\ pc \in {"starting", "stopping"}
    /\ nv_stop' = (pc = "stopping")
    /\ pc' = "idle"
    /\ UNCHANGED <<retained, nv_wait, counters, flags, act, timer, world, calls,
                   chain>>

-----------------------------------------------------------------------------
(* The surroundings.                                                         *)

\* The network, the application or the daemon changes what the check sees.
Change ==
    /\ power = "on"
    /\ \E c \in CondSets \ {cond} : cond' = c
    /\ UNCHANGED <<retained, nvram, counters, switches, power, wakeup, left,
                   calls, chain>>

\* The alarm the device was woken ahead of comes near.
AlarmNears ==
    /\ power = "on" /\ left
    /\ left' = FALSE
    /\ UNCHANGED <<retained, nvram, counters, switches, cond, power, wakeup,
                   calls, chain>>

\* The sleep the daemon asks for.  The MAC clears the marks of the check.
clear_abnormal_DPM_param ==
    /\ last_sleep_type' = 0
    /\ last_abnormal_count' = 0

DpmSleep ==
    /\ power = "on"
    /\ cond = {} /\ ~daemon_hold
    /\ clear_abnormal_DPM_param
    /\ power' = "dpm"
    /\ act' = "no" /\ timer' = "none" /\ pc' = "idle"
    /\ chain' = 0
    /\ UNCHANGED <<wifi_conn_wait_time, nvram, counters, flags, cond, wakeup,
                   left, calls>>

\* A boot starts with RAM as the program's image has it.
BootRam ==
    /\ power' = "boot"
    /\ fail_cnt' = [a \in Reason |-> 0]
    /\ idle_time' = 0
    /\ since' = 0
    /\ hold_flag' = FALSE /\ stopped' = FALSE
    /\ sleep1_flag' = FALSE /\ sleep2_triggered' = FALSE /\ daemon_hold' = FALSE
    /\ act' = "no" /\ timer' = "none" /\ pc' = "idle"
    /\ UNCHANGED <<nvram, cond>>

\* The alarm or the button.  After a sleep of the check the wake-up is a DPM
\* wake-up only if the MAC still has the connection (wlaninit).
Wake(button) ==
    /\ power \in Abnormal \cup {"dpm"}
    /\ power = "sleep1" => button
    /\ BootRam
    /\ wakeup' \in IF power = "dpm" THEN {TRUE} ELSE BOOLEAN
    /\ left' \in IF button /\ power # "sleep1" THEN BOOLEAN ELSE {FALSE}
    /\ calls' = 0
    /\ UNCHANGED <<retained, chain>>

AlarmWake  == power = "sleep2" /\ Wake(FALSE)
OtherWake  == power = "dpm" /\ Wake(FALSE)
ButtonWake == Wake(TRUE)

\* A watchdog reset keeps the retention memory, a power cut does not.
Reset ==
    /\ power \in {"boot", "on"}
    /\ calls < MaxCalls
    /\ calls' = calls + 1
    /\ BootRam
    /\ wakeup' = FALSE /\ left' = FALSE
    /\ \/ UNCHANGED <<retained, chain>>
       \/ /\ last_abnormal_count' = 0 /\ last_sleep_type' = 0
          /\ wifi_conn_wait_time' = 0
          /\ chain' = 0

-----------------------------------------------------------------------------
Init ==
    /\ last_abnormal_count = 0 /\ last_sleep_type = 0
    /\ wifi_conn_wait_time = 0 /\ nv_wait = 0 /\ nv_stop = FALSE
    /\ fail_cnt = [a \in Reason |-> 0] /\ idle_time = 0 /\ since = 0
    /\ hold_flag = FALSE /\ stopped = FALSE
    /\ sleep1_flag = FALSE /\ sleep2_triggered = FALSE /\ daemon_hold = FALSE
    /\ act = "no" /\ timer = "none" /\ pc = "idle"
    /\ cond \in CondSets
    /\ power = "boot" /\ wakeup = FALSE /\ left = FALSE
    /\ calls = 0 /\ chain = 0

Calls ==
    \/ \E why \in {"other", "key", "sleep2"} : ForceSleep(why)
    \/ \E b \in BOOLEAN : \/ HoldChecks(b) \/ StopMonitor(b) \/ HoldDaemon(b)
                          \/ ConfigTimer(b)
    \/ \E t \in Times : SetWait(t)

Starts == StartChecks \/ ReadStop \/ ConfigSave

Next ==
    \/ Tick
    \/ Starts
    \/ Calls
    \/ Change
    \/ AlarmNears
    \/ DpmSleep
    \/ AlarmWake
    \/ OtherWake
    \/ ButtonWake
    \/ Reset

Spec == Init /\ [][Next]_vars

\* The timer service runs the callback, tasks that have begun go on, and the
\* alarm of a timed sleep goes off.
FairSpec == Spec /\ WF_vars(Tick) /\ WF_vars(Starts) /\ WF_vars(AlarmWake)

-----------------------------------------------------------------------------
(* Properties.                                                               *)

\* The n-th sleep of the check in a row waits for at least the n-th interval of
\* the table, whatever resets, button wake-ups and reports lie between, also if
\* a reset cuts the callback off on its way to the power-down: only a sleep of
\* the daemon or a power cut takes the device back to short intervals
\* (dpm_abnormal_next_action, start_dpm_sts_chk_timer).  A sleep whose time the
\* sleep-2 command gives has its place in the row all the same.
BackOffKept == chain <= last_abnormal_count

\* Once a sleep was forced, the second tick without connection takes it, unless
\* a longer waiting time is configured or the counters were cleaned since
\* (force_dpm_abnormal_sleep_by_wifi_conn_fail sets MAX_INIT_WIFI_CONN_TIME - 1,
\* whatever waiting time is configured).
ForcedSoon == since > 2 => ConnWait > MaxWait[1]

\* A check that was switched off for good stays off through every reboot: with
\* the flag in NVRAM the timer does not run once the boot has read the flag,
\* unless it is being switched on again (DPM_ABNORM_STOP).
StoppedStays == nv_stop /\ pc = "idle" => timer # "running"

Quieted == hold_flag \/ stopped \/ daemon_hold \/ timer # "running"
             \/ "nodpm" \in cond

\* A device that from some time on always has one of the four reasons, not the
\* same one all the time, and whose check is not held, is put to sleep again and
\* again: changing from one reason to another does not start the waiting anew
\* (dpm_sts_chk_tm_fn).
GivesUp ==
    <>[](/\ power # "dpm"
         /\ power = "on" /\ act = "no" => Seen(idle_time) \in 1..4 /\ ~Quieted)
      => []<>(power \in Abnormal)

=============================================================================
