------------------------------ MODULE DpmSleep ------------------------------
(***************************************************************************)
(* The DPM (dynamic power management) sleep manager of the SDK,            *)
(* core/system/src/dpm/da16x_dpm.c: the table of registered modules, the   *)
(* two bit masks reg_dpm_req_flag and dpm_sleep_set_flag, the sleep daemon *)
(* that powers the chip down once every registered module agrees, and the  *)
(* 30 ms trigger timer.                                                    *)
(*                                                                         *)
(* The API functions run in the calling task, preemptively interleaved     *)
(* with the other callers, the daemon and the timer.  A step is what one   *)
(* task does between two accesses of state that another task also writes:  *)
(* in particular a read-modify-write of dpm_sleep_set_flag that no mutex   *)
(* protects is a load and a store.  A mask is the set of its one bits.     *)
(***************************************************************************)
EXTENDS Integers

CONSTANTS
    Task,           \* tasks that call the DPM API
    Module,         \* module names
    Uses,           \* the modules each task calls the API for
    Exempt,         \* DPM_UMAC, DPM_UMAC_RX, Disconnect_loss
    Supp,           \* REG_NAME_DPM_SUPPLICANT
    PortOf,         \* the port a module registers with, 0 for none
    Ops,            \* the API functions the tasks call
    MaxSlots,       \* MAX_DPM_REQ_CNT
    DelayCnt,       \* DPM_DAEMON_SLEEP_DELAY_CNT
    MaxTry,         \* MAX_CHECK_CNT_PS_CMD_FAIL
    PdownResults,   \* results of fc80211_set_da16x_power_off that can occur
    Daemon,         \* the dpm_sleep_daemon task
    NoName          \* the empty mod_name of a free slot

Slot   == 0 .. MaxSlots - 1
Caller == Task \cup {Daemon}

AllOps == {"reg", "unreg", "set", "clr", "all", "rcv", "rcvport", "init",
           "hold", "resume", "cmdhold", "rtc", "stop", "disable", "enable"}

\* -1/-2/-3, -4, 0, and anything else.
AllResults == {"busy", "disconnected", "ok", "fail"}

ASSUME BoundsAssumption ==
    /\ MaxSlots \in Nat \ {0}
    /\ DelayCnt \in Nat \ {0}
    /\ MaxTry \in Nat

ASSUME NamesAssumption ==
    /\ Uses \in [Task -> SUBSET Module]
    /\ Exempt \subseteq Module
    /\ Supp \in Module
    /\ PortOf \in [Module -> Nat]
    /\ Daemon \notin Task
    /\ NoName \notin Module

ASSUME ChoiceAssumption == Ops \subseteq AllOps /\ PdownResults \subseteq AllResults

VARIABLES
    mod_name,               \* the fields of _da16x_dpm_sleep_list, per slot
    port_number,
    bit_index,
    rcv_ready,
    init_done,
    reg_dpm_req_flag,
    dpm_sleep_set_flag,
    mutex,                  \* da16x_dpm_reg_req_flag_mutex: its holders
    call,                   \* per caller: the API call in progress
    ev_group,               \* da16x_dpm_ev_group
    dpm_pdown_state,
    dpm_daemon_start_flag,
    dpm_daemon_hold_flag,
    dpm_daemon_cmd_hold_flag,
    dpm_rtc_to_chk_flag,
    dpm_mac_err_flag,
    not_rcv,                \* Data-Rx blocking in the Wi-Fi driver
    d_pc,                   \* where the daemon is
    sleep_delay_cnt,
    dpm_sleep_try_chk_cnt,
    dpm_mode,               \* RTM_FLAG_PTR->dpm_mode
    nv_dpm_mode             \* "dpm_mode" in NVRAM

readyVars  == <<rcv_ready, init_done>>
listVars   == <<mod_name, port_number, bit_index, readyVars>>
tableVars  == <<listVars, reg_dpm_req_flag, mutex>>
daemonVars == <<d_pc, sleep_delay_cnt, dpm_sleep_try_chk_cnt>>
holdVars   == <<dpm_daemon_start_flag, dpm_daemon_hold_flag,
                dpm_daemon_cmd_hold_flag, dpm_rtc_to_chk_flag>>
modeVars   == <<dpm_mode, nv_dpm_mode>>
pdownVars  == <<dpm_pdown_state, dpm_mac_err_flag, not_rcv>>
systemVars == <<pdownVars, holdVars, daemonVars, modeVars>>
vars == <<tableVars, dpm_sleep_set_flag, call, ev_group, systemVars>>

\* No call in progress; a call in progress has the module it is for, the slot
\* it found, the mask it loaded, and except_case.
Frame(pc, m, i, mask, exc) ==
    [pc |-> pc, mod |-> m, idx |-> i, tmp |-> mask, exc |-> exc]

Idle == Frame("idle", NoName, 0, {}, FALSE)

CallPc == {"idle", "regTake", "reg", "regStore",
           "unregTake", "unregStore", "unregName", "unregBit",
           "setWait", "setLoad", "setStore",
           "clrWait", "clrLoad", "clrStore", "allStore", "stopKill",
           "disableNv", "disableMode"}

DaemonPc == {"boot", "top", "poll", "check", "commit", "psCmd", "clr",
             "done", "dead"}

TableTypeOK ==
    /\ mod_name \in [Slot -> Module \cup {NoName}]
    /\ port_number \in [Slot -> Nat]
    /\ bit_index \in [Slot -> Slot]
    /\ rcv_ready \in [Slot -> BOOLEAN]
    /\ init_done \in [Slot -> BOOLEAN]
    /\ reg_dpm_req_flag \subseteq Slot
    /\ dpm_sleep_set_flag \subseteq Slot
    /\ mutex \subseteq Caller
    /\ call \in [Caller -> [pc : CallPc, mod : Module \cup {NoName},
                            idx : Slot, tmp : SUBSET Slot, exc : BOOLEAN]]
    /\ ev_group \subseteq {"TRIGGER", "SLEEP_SET"}

DaemonTypeOK ==
    /\ dpm_pdown_state \in {"WAIT", "RUN", "DONE"}
    /\ d_pc \in DaemonPc
    /\ sleep_delay_cnt \in 0 .. DelayCnt
    /\ dpm_sleep_try_chk_cnt \in 0 .. MaxTry

FlagTypeOK ==
    /\ dpm_daemon_start_flag \in BOOLEAN
    /\ dpm_daemon_hold_flag \in BOOLEAN
    /\ dpm_daemon_cmd_hold_flag \in BOOLEAN
    /\ dpm_rtc_to_chk_flag \in BOOLEAN
    /\ dpm_mac_err_flag \in BOOLEAN
    /\ not_rcv \in BOOLEAN
    /\ dpm_mode \in BOOLEAN
    /\ nv_dpm_mode \in BOOLEAN

\* Every variable stays in its type; in particular sleep_delay_cnt and
\* dpm_sleep_try_chk_cnt stay within the limits of dpm_sleep_daemon.
TypeOK == TableTypeOK /\ DaemonTypeOK /\ FlagTypeOK

-----------------------------------------------------------------------------
(* Reading the table.                                                      *)

Named(m)      == {i \in Slot : mod_name[i] = m}
Registered(m) == Named(m) # {}                       \* chk_dpm_reg_state
First(S)      == CHOOSE i \in S : \A j \in S : i <= j

\* What a scan by name ends at.
SlotOf(m) == First(Named(m))

\* chk_dpm_rcv_ready and chk_dpm_init_done.
chk_dpm_rcv_ready(m) == Registered(m) /\ rcv_ready[SlotOf(m)]
chk_dpm_init_done(m) == Registered(m) /\ init_done[SlotOf(m)]

\* chk_dpm_sleep_possibility in the daemon.
SleepPossible ==
    /\ reg_dpm_req_flag # {}
    /\ reg_dpm_req_flag = dpm_sleep_set_flag

-----------------------------------------------------------------------------
(* The API functions.  A task begins one with Start; the call ends with    *)
(* Return.  Every function returns at once when DPM mode is off.           *)

Enter(c, frame) == call' = [call EXCEPT ![c] = frame]
Return(c)       == Enter(c, Idle)

Start(t, op, m, pc) ==
    /\ op \in Ops
    /\ m \in Uses[t]
    /\ call[t].pc = "idle"
    /\ dpm_mode
    /\ Enter(t, Frame(pc, m, 0, {}, FALSE))
    /\ UNCHANGED <<tableVars, dpm_sleep_set_flag, ev_group, systemVars>>

\* Fault: take without the mutex.
MutexIgnored == TRUE

\* xSemaphoreTake of da16x_dpm_reg_req_flag_mutex succeeds at once, or fails
\* after DPM_MUTEX_WAIT ticks.
MutexFree == mutex = {}

\* reg_dpm_sleep.
RegTake(t) ==
    /\ call[t].pc = "regTake"
    /\ \/ /\ MutexFree
          /\ mutex' = {t}
          /\ Enter(t, Frame("reg", call[t].mod, 0, {}, FALSE))
       \/ /\ mutex # {}                             \* DPM_REG_ERR
          /\ Return(t)
          /\ UNCHANGED mutex
    /\ UNCHANGED <<listVars, reg_dpm_req_flag, dpm_sleep_set_flag, ev_group,
                   systemVars>>

\* Under the mutex: refuse a duplicate name or a full table, else take the
\* first free slot, set its bit in the registration mask and load the sleep
\* mask to clear its bit there.
RegSlot(t) ==
    /\ call[t].pc = "reg"
    /\ IF Registered(call[t].mod) \/ Named(NoName) = {}
       THEN /\ mutex' = mutex \ {t}
            /\ Return(t)
            /\ UNCHANGED reg_dpm_req_flag
       ELSE LET i == First(Named(NoName)) IN
            /\ reg_dpm_req_flag' = reg_dpm_req_flag \cup {i}
            /\ Enter(t, Frame("regStore", call[t].mod, i, dpm_sleep_set_flag,
                              FALSE))
            /\ UNCHANGED mutex
    /\ UNCHANGED <<listVars, dpm_sleep_set_flag, ev_group, systemVars>>

\* rcv_ready and init_done keep what the slot's last owner left there.
RegStore(t) ==
    /\ call[t].pc = "regStore"
    /\ LET i == call[t].idx IN
       /\ dpm_sleep_set_flag' = call[t].tmp \ {i}
       /\ mod_name' = [mod_name EXCEPT ![i] = call[t].mod]
       /\ port_number' = [port_number EXCEPT ![i] = PortOf[call[t].mod]]
       /\ bit_index' = [bit_index EXCEPT ![i] = i]
    /\ mutex' = mutex \ {t}
    /\ Return(t)
    /\ UNCHANGED <<readyVars, reg_dpm_req_flag, ev_group, systemVars>>

\* unreg_dpm_sleep.  The slot is looked up before the mutex is taken.
UnregFind(t, m) ==
    /\ "unreg" \in Ops
    /\ m \in Uses[t]
    /\ call[t].pc = "idle"
    /\ dpm_mode
    /\ Registered(m)
    /\ Enter(t, Frame("unregTake", m, SlotOf(m), {}, FALSE))
    /\ UNCHANGED <<tableVars, dpm_sleep_set_flag, ev_group, systemVars>>

UnregTake(t) ==
    /\ call[t].pc = "unregTake"
    /\ \/ /\ MutexFree
          /\ mutex' = {t}
          /\ reg_dpm_req_flag' = reg_dpm_req_flag \ {call[t].idx}
          /\ Enter(t, Frame("unregStore", call[t].mod, call[t].idx,
                            dpm_sleep_set_flag, FALSE))
       \/ /\ mutex # {}                             \* mutex get error
          /\ Return(t)
          /\ UNCHANGED <<mutex, reg_dpm_req_flag>>
    /\ UNCHANGED <<listVars, dpm_sleep_set_flag, ev_group, systemVars>>

\* Fault: the whole mask is cleared.
AllBitsOut(mask, i) == {}

\* The sleep mask without the bit of the slot.
BitOut(mask, i) == mask \ {i}

UnregStore(t) ==
    /\ call[t].pc = "unregStore"
    /\ dpm_sleep_set_flag' = BitOut(call[t].tmp, call[t].idx)
    /\ mutex' = mutex \ {t}
    /\ Enter(t, Frame("unregName", call[t].mod, call[t].idx, {}, FALSE))
    /\ UNCHANGED <<listVars, reg_dpm_req_flag, ev_group, systemVars>>

\* The name and then the bit index are cleared after the mutex is given back.
UnregName(t) ==
    /\ call[t].pc = "unregName"
    /\ mod_name' = [mod_name EXCEPT ![call[t].idx] = NoName]
    /\ Enter(t, Frame("unregBit", call[t].mod, call[t].idx, {}, FALSE))
    /\ UNCHANGED <<port_number, bit_index, readyVars, reg_dpm_req_flag, mutex,
                   dpm_sleep_set_flag, ev_group, systemVars>>

UnregBit(t) ==
    /\ call[t].pc = "unregBit"
    /\ bit_index' = [bit_index EXCEPT ![call[t].idx] = 0]
    /\ Return(t)
    /\ UNCHANGED <<mod_name, port_number, readyVars, reg_dpm_req_flag, mutex,
                   dpm_sleep_set_flag, ev_group, systemVars>>

\* The loop at the head of set_dpm_sleep and clr_dpm_sleep: a caller stays in
\* it while a power-down is under way, unless its module is exempt.
MayPass(m) == dpm_pdown_state = "WAIT" \/ m \in Exempt

\* set_dpm_sleep.  The test for a bit that is already set compares the masked
\* word with 1, so that it recognises slot 0 only.
SetFind(c) ==
    /\ call[c].pc = "setWait"
    /\ MayPass(call[c].mod)
    /\ LET i == SlotOf(call[c].mod) IN
       IF ~Registered(call[c].mod)
       THEN Return(c) /\ UNCHANGED bit_index
       ELSE /\ bit_index' = [bit_index EXCEPT ![i] = i]
            /\ IF i = 0 /\ 0 \in dpm_sleep_set_flag
               THEN Return(c)
               ELSE Enter(c, Frame("setLoad", call[c].mod, i, {},
                                   dpm_pdown_state # "WAIT"))
    /\ UNCHANGED <<mod_name, port_number, readyVars, reg_dpm_req_flag, mutex,
                   dpm_sleep_set_flag, ev_group, systemVars>>

Load(c, from, to) ==
    /\ call[c].pc = from
    /\ Enter(c, Frame(to, call[c].mod, call[c].idx, dpm_sleep_set_flag,
                      call[c].exc))
    /\ UNCHANGED <<tableVars, dpm_sleep_set_flag, ev_group, systemVars>>

SetLoad(c) == Load(c, "setLoad", "setStore")

\* Fault: the bits of all registered slots are set.
AllBitsIn(mask, i) == mask \cup reg_dpm_req_flag

\* The sleep mask with the bit of the slot.
BitIn(mask, i) == mask \cup {i}

SetStore(c) ==
    /\ call[c].pc = "setStore"
    /\ dpm_sleep_set_flag' = BitIn(call[c].tmp, call[c].idx)
    /\ ev_group' = IF call[c].exc /\ dpm_pdown_state = "RUN"
                   THEN ev_group
                   ELSE ev_group \cup {"SLEEP_SET"}
    /\ Return(c)
    /\ UNCHANGED <<tableVars, systemVars>>

\* clr_dpm_sleep.  The bit is the one the table entry remembers.
ClrBit(m) == bit_index[SlotOf(m)]

ClrFind(c) ==
    /\ call[c].pc = "clrWait"
    /\ MayPass(call[c].mod)
    /\ IF ~Registered(call[c].mod)
       THEN Return(c)
       ELSE Enter(c, Frame("clrLoad", call[c].mod, ClrBit(call[c].mod), {},
                           FALSE))
    /\ UNCHANGED <<tableVars, dpm_sleep_set_flag, ev_group, systemVars>>

ClrLoad(c) == Load(c, "clrLoad", "clrStore")

ClrStore(c) ==
    /\ call[c].pc = "clrStore"
    /\ dpm_sleep_set_flag' = BitOut(call[c].tmp, call[c].idx)
    /\ Return(c)
    /\ UNCHANGED <<tableVars, ev_group, systemVars>>

\* set_dpm_all_flags.
AllLoad(t) ==
    /\ "all" \in Ops
    /\ call[t].pc = "idle"
    /\ Enter(t, Frame("allStore", NoName, 0, reg_dpm_req_flag, FALSE))
    /\ UNCHANGED <<tableVars, dpm_sleep_set_flag, ev_group, systemVars>>

AllStore(t) ==
    /\ call[t].pc = "allStore"
    /\ dpm_sleep_set_flag' = call[t].tmp
    /\ Return(t)
    /\ UNCHANGED <<tableVars, ev_group, systemVars>>

\* set_dpm_rcv_ready, set_dpm_rcv_ready_by_port and set_dpm_init_done write
\* one field of one slot.
WriteReady(t, op, m, rcv, init) ==
    /\ op \in Ops
    /\ m \in Uses[t]
    /\ call[t].pc = "idle"
    /\ dpm_mode
    /\ rcv_ready' = rcv
    /\ init_done' = init
    /\ UNCHANGED <<mod_name, port_number, bit_index, reg_dpm_req_flag, mutex,
                   dpm_sleep_set_flag, call, ev_group, systemVars>>

set_dpm_rcv_ready(t, m) ==
    /\ Registered(m)
    /\ WriteReady(t, "rcv", m,
                  [rcv_ready EXCEPT ![SlotOf(m)] = port_number[SlotOf(m)] # 0],
                  init_done)

\* By port, a free slot that still carries the port is found as well.
set_dpm_rcv_ready_by_port(t, m) ==
    LET S == {i \in Slot : port_number[i] = PortOf[m]} IN
    /\ S # {}
    /\ WriteReady(t, "rcvport", m, [rcv_ready EXCEPT ![First(S)] = TRUE],
                  init_done)

set_dpm_init_done(t, m) ==
    /\ Registered(m)
    /\ WriteReady(t, "init", m, rcv_ready,
                  [init_done EXCEPT ![SlotOf(m)] = TRUE])

-----------------------------------------------------------------------------
(* Holding, stopping and restarting the daemon.                            *)

HoldStep(op, start, hold, cmd, rtc) ==
    /\ op \in Ops
    /\ dpm_daemon_start_flag' = start
    /\ dpm_daemon_hold_flag' = hold
    /\ dpm_daemon_cmd_hold_flag' = cmd
    /\ dpm_rtc_to_chk_flag' = rtc
    /\ UNCHANGED <<tableVars, dpm_sleep_set_flag, ev_group, dpm_pdown_state,
                   dpm_mac_err_flag>>

\* hold_dpm_sleepd also lifts the Data-Rx blocking.
hold_dpm_sleepd ==
    /\ HoldStep("hold", dpm_daemon_start_flag, TRUE, dpm_daemon_cmd_hold_flag,
                dpm_rtc_to_chk_flag)
    /\ not_rcv' = FALSE
    /\ UNCHANGED <<call, daemonVars, modeVars>>

resume_dpm_sleepd ==
    /\ HoldStep("resume", dpm_daemon_start_flag, FALSE,
                dpm_daemon_cmd_hold_flag, dpm_rtc_to_chk_flag)
    /\ UNCHANGED <<not_rcv, call, daemonVars, modeVars>>

\* The console commands "dpm hold" and "dpm resume".  They set the command
\* flag and call hold_dpm_sleepd or resume_dpm_sleepd.
CmdHold ==
    /\ dpm_mode
    /\ HoldStep("cmdhold", dpm_daemon_start_flag, TRUE, TRUE,
                dpm_rtc_to_chk_flag)
    /\ not_rcv' = FALSE
    /\ UNCHANGED <<call, daemonVars, modeVars>>

CmdResume ==
    /\ dpm_mode
    /\ HoldStep("cmdhold", dpm_daemon_start_flag, FALSE, FALSE,
                dpm_rtc_to_chk_flag)
    /\ UNCHANGED <<not_rcv, call, daemonVars, modeVars>>

\* dpm_timer_process brackets its work with dpm_rtc_to_chk_flag.
RtcProcess ==
    /\ HoldStep("rtc", dpm_daemon_start_flag, dpm_daemon_hold_flag,
                dpm_daemon_cmd_hold_flag, ~dpm_rtc_to_chk_flag)
    /\ UNCHANGED <<not_rcv, call, daemonVars, modeVars>>

\* vTaskDelete of the daemon, wherever it is.
KillDaemon == d_pc' = "dead" /\ UNCHANGED <<sleep_delay_cnt, dpm_sleep_try_chk_cnt>>

\* stop_dpm_mode first clears the flags, which lets the daemon delete itself,
\* and then deletes the trigger timer and the daemon.
StopFlags(t) ==
    /\ call[t].pc = "idle"
    /\ dpm_mode
    /\ HoldStep("stop", FALSE, FALSE, dpm_daemon_cmd_hold_flag,
                dpm_rtc_to_chk_flag)
    /\ Enter(t, Frame("stopKill", NoName, 0, {}, FALSE))
    /\ UNCHANGED <<not_rcv, daemonVars, modeVars>>

StopKill(t) ==
    /\ call[t].pc = "stopKill"
    /\ call' = [call EXCEPT ![t] = Idle, ![Daemon] = Idle]
    /\ KillDaemon
    /\ dpm_mode' = FALSE
    /\ UNCHANGED <<tableVars, dpm_sleep_set_flag, ev_group, pdownVars,
                   holdVars, nv_dpm_mode>>

\* disable_dpm_mode deletes the trigger timer and the daemon, sleeps, and only
\* then clears the flags and the mode.
DisableKill(t) ==
    /\ call[t].pc = "idle"
    /\ dpm_mode
    /\ HoldStep("disable", dpm_daemon_start_flag, dpm_daemon_hold_flag,
                dpm_daemon_cmd_hold_flag, dpm_rtc_to_chk_flag)
    /\ call' = [call EXCEPT ![t] = Frame("disableNv", NoName, 0, {}, FALSE),
                            ![Daemon] = Idle]
    /\ KillDaemon
    /\ UNCHANGED <<not_rcv, modeVars>>

DisableNv(t) ==
    /\ call[t].pc = "disableNv"
    /\ nv_dpm_mode' = FALSE
    /\ Enter(t, Frame("disableMode", NoName, 0, {}, FALSE))
    /\ UNCHANGED <<tableVars, dpm_sleep_set_flag, ev_group, pdownVars,
                   holdVars, daemonVars, dpm_mode>>

DisableMode(t) ==
    /\ call[t].pc = "disableMode"
    /\ HoldStep("disable", FALSE, FALSE, dpm_daemon_cmd_hold_flag,
                dpm_rtc_to_chk_flag)
    /\ Return(t)
    /\ dpm_mode' = FALSE
    /\ UNCHANGED <<not_rcv, daemonVars, nv_dpm_mode>>

enable_dpm_mode(t) ==
    /\ "enable" \in Ops
    /\ call[t].pc = "idle"
    /\ ~dpm_mode
    /\ dpm_mode' = TRUE
    /\ nv_dpm_mode' = TRUE
    /\ UNCHANGED <<tableVars, dpm_sleep_set_flag, call, ev_group, pdownVars,
                   holdVars, daemonVars>>

-----------------------------------------------------------------------------
(* dpm_sleep_daemon.                                                       *)

DaemonStep(pc, cnt) ==
    /\ d_pc' = pc
    /\ sleep_delay_cnt' = cnt
    /\ UNCHANGED <<tableVars, dpm_sleep_set_flag, ev_group,
                   dpm_daemon_start_flag, dpm_daemon_cmd_hold_flag,
                   dpm_rtc_to_chk_flag, modeVars>>

\* After a wake-up the daemon waits for the supplicant; a debug feature of the
\* retention memory can hold it.
DaemonBoot ==
    /\ d_pc = "boot"
    /\ DaemonStep("top", sleep_delay_cnt)
    /\ dpm_daemon_hold_flag' \in {dpm_daemon_hold_flag, TRUE}
    /\ UNCHANGED <<call, pdownVars, dpm_sleep_try_chk_cnt>>

\* Fault: the command flag is forgotten.
HeldNotByCommand == dpm_daemon_hold_flag

\* Held by a command or by a module.
Held == dpm_daemon_hold_flag \/ dpm_daemon_cmd_hold_flag

\* The head of the loop.  The Data-Rx blocking is lifted when the driver says
\* that it can receive.
DaemonTop ==
    /\ d_pc = "top"
    /\ dpm_daemon_start_flag
    /\ ~Held
    /\ DaemonStep("poll", sleep_delay_cnt)
    /\ not_rcv' \in {not_rcv, FALSE}
    /\ UNCHANGED <<call, dpm_pdown_state, dpm_mac_err_flag,
                   dpm_daemon_hold_flag, dpm_sleep_try_chk_cnt>>

\* The start flag was cleared: the daemon leaves its loop and deletes itself.
DaemonExit ==
    /\ d_pc = "top"
    /\ ~dpm_daemon_start_flag
    /\ DaemonStep("dead", sleep_delay_cnt)
    /\ UNCHANGED <<call, pdownVars, dpm_daemon_hold_flag, dpm_sleep_try_chk_cnt>>

\* Fault: the delay always restarts.
DelayAlwaysRestarted == DelayCnt

\* xEventGroupWaitBits leaves the bits set.  Only an event without TRIGGER
\* restarts the delay.  The count stays at zero once it is there.
DelayAfterEvent ==
    IF "TRIGGER" \in ev_group THEN sleep_delay_cnt ELSE DelayCnt

DaemonPoll ==
    /\ d_pc = "poll"
    /\ LET cnt  == DelayAfterEvent
           left == IF cnt > 0 THEN cnt - 1 ELSE 0
       IN  IF ev_group = {} \/ dpm_daemon_hold_flag
           THEN DaemonStep("top", sleep_delay_cnt)
           ELSE IF dpm_rtc_to_chk_flag \/ ~dpm_mode
                THEN DaemonStep("top", cnt)
                ELSE DaemonStep(IF left = 0 THEN "check" ELSE "top", left)
    /\ UNCHANGED <<call, pdownVars, dpm_daemon_hold_flag, dpm_sleep_try_chk_cnt>>

\* Some registered module is not ready: start over.
DaemonNotReady ==
    /\ d_pc = "check"
    /\ ~SleepPossible
    /\ DaemonStep("top", DelayCnt)
    /\ UNCHANGED <<call, pdownVars, dpm_daemon_hold_flag, dpm_sleep_try_chk_cnt>>

\* A TCP session is busy (da16x_dpm_sock_is_available_set_sleep) or the crystal
\* is not running: try again at once.
DaemonDefer ==
    /\ d_pc = "check"
    /\ SleepPossible
    /\ DaemonStep("top", sleep_delay_cnt)
    /\ UNCHANGED <<call, pdownVars, dpm_daemon_hold_flag, dpm_sleep_try_chk_cnt>>

\* The decision to power down, and the Data-Rx blocking.
DaemonDecide ==
    /\ d_pc = "check"
    /\ SleepPossible
    /\ DaemonStep("commit", sleep_delay_cnt)
    /\ not_rcv' = TRUE
    /\ UNCHANGED <<call, dpm_pdown_state, dpm_mac_err_flag,
                   dpm_daemon_hold_flag, dpm_sleep_try_chk_cnt>>

DaemonRun ==
    /\ d_pc = "commit"
    /\ DaemonStep("psCmd", sleep_delay_cnt)
    /\ dpm_pdown_state' = "RUN"
    /\ UNCHANGED <<call, dpm_mac_err_flag, not_rcv, dpm_daemon_hold_flag,
                   dpm_sleep_try_chk_cnt>>

PowerOffResult(r) ==
    /\ d_pc = "psCmd"
    /\ r \in PdownResults
    /\ UNCHANGED <<not_rcv, dpm_daemon_hold_flag>>

\* -1, -2, -3: data is still being received or sent.
PowerOffBusy ==
    /\ PowerOffResult("busy")
    /\ DaemonStep("top", DelayCnt)
    /\ dpm_pdown_state' = "WAIT"
    /\ UNCHANGED <<call, dpm_mac_err_flag, dpm_sleep_try_chk_cnt>>

\* -4: the daemon itself calls clr_dpm_sleep(REG_NAME_DPM_SUPPLICANT).
PowerOffDisconnected ==
    /\ PowerOffResult("disconnected")
    /\ DaemonStep("clr", DelayCnt)
    /\ dpm_pdown_state' = "WAIT"
    /\ Enter(Daemon, Frame("clrWait", Supp, 0, {}, FALSE))
    /\ UNCHANGED <<dpm_mac_err_flag, dpm_sleep_try_chk_cnt>>

DaemonClrDone ==
    /\ d_pc = "clr"
    /\ call[Daemon].pc = "idle"
    /\ DaemonStep("top", sleep_delay_cnt)
    /\ UNCHANGED <<call, pdownVars, dpm_daemon_hold_flag, dpm_sleep_try_chk_cnt>>

PowerOffOk ==
    /\ PowerOffResult("ok")
    /\ DaemonStep("done", sleep_delay_cnt)
    /\ dpm_pdown_state' = "DONE"
    /\ UNCHANGED <<call, dpm_mac_err_flag, dpm_sleep_try_chk_cnt>>

\* Fault: one failure too many.
MaxTryOvershot == dpm_sleep_try_chk_cnt > MaxTry

\* Any other result: the MAC failed the PS command.  dpm_pdown_state stays RUN
\* until the trigger timer sees dpm_mac_err_flag.  After too many failures the
\* connection is dropped (fc80211_connection_loss) and the delay is not reset.
MaxTryReached == dpm_sleep_try_chk_cnt >= MaxTry

PowerOffFail ==
    /\ PowerOffResult("fail")
    /\ dpm_mac_err_flag' = TRUE
    /\ IF MaxTryReached
       THEN /\ dpm_sleep_try_chk_cnt' = 0
            /\ DaemonStep("top", sleep_delay_cnt)
       ELSE /\ dpm_sleep_try_chk_cnt' = dpm_sleep_try_chk_cnt + 1
            /\ DaemonStep("top", DelayCnt)
    /\ UNCHANGED <<call, dpm_pdown_state>>

DaemonNext ==
    \/ DaemonBoot \/ DaemonTop \/ DaemonExit \/ DaemonPoll
    \/ DaemonNotReady \/ DaemonDefer \/ DaemonDecide \/ DaemonRun
    \/ PowerOffBusy \/ PowerOffDisconnected \/ PowerOffOk \/ PowerOffFail
    \/ DaemonClrDone

-----------------------------------------------------------------------------
\* Fault: the state is tested first.
TakeBackAfterState == dpm_mac_err_flag /\ dpm_pdown_state = "WAIT"

\* dpm_mac_err_flag is looked at before dpm_pdown_state.
TakeBack == dpm_mac_err_flag

\* dpm_trigger_timer_fn, every 30 ms.  The timer is deleted with the daemon.
dpm_trigger_timer_fn ==
    /\ dpm_daemon_start_flag
    /\ d_pc # "dead"
    /\ IF TakeBack
       THEN /\ dpm_pdown_state' = "WAIT"
            /\ dpm_mac_err_flag' = FALSE
            /\ UNCHANGED ev_group
       ELSE /\ dpm_pdown_state = "WAIT"
            /\ ev_group' = ev_group \cup {"TRIGGER"}
            /\ UNCHANGED <<dpm_pdown_state, dpm_mac_err_flag>>
    /\ UNCHANGED <<tableVars, dpm_sleep_set_flag, call, not_rcv, holdVars,
                   daemonVars, modeVars>>

-----------------------------------------------------------------------------
\* RAM as start_dpm_sleep_daemon leaves it at boot.
Init ==
    /\ mod_name = [i \in Slot |-> NoName]
    /\ port_number = [i \in Slot |-> 0]
    /\ bit_index = [i \in Slot |-> 0]
    /\ rcv_ready = [i \in Slot |-> FALSE]
    /\ init_done = [i \in Slot |-> FALSE]
    /\ reg_dpm_req_flag = {} /\ dpm_sleep_set_flag = {} /\ mutex = {}
    /\ call = [c \in Caller |-> Idle]
    /\ ev_group = {}
    /\ dpm_pdown_state = "WAIT"
    /\ dpm_daemon_start_flag = TRUE
    /\ dpm_daemon_hold_flag = FALSE /\ dpm_daemon_cmd_hold_flag = FALSE
    /\ dpm_rtc_to_chk_flag = FALSE /\ dpm_mac_err_flag = FALSE
    /\ not_rcv = FALSE
    /\ d_pc = "boot"
    /\ sleep_delay_cnt = DelayCnt /\ dpm_sleep_try_chk_cnt = 0
    /\ dpm_mode = TRUE /\ nv_dpm_mode = TRUE

\* The power goes down and comes back, or the system reboots after the daemon
\* was stopped: everything but NVRAM starts again, and with DPM mode off there
\* is no daemon.
Reboot ==
    /\ d_pc \in {"done", "dead"}
    /\ mod_name' = [i \in Slot |-> NoName]
    /\ port_number' = [i \in Slot |-> 0]
    /\ bit_index' = [i \in Slot |-> 0]
    /\ rcv_ready' = [i \in Slot |-> FALSE]
    /\ init_done' = [i \in Slot |-> FALSE]
    /\ reg_dpm_req_flag' = {} /\ dpm_sleep_set_flag' = {} /\ mutex' = {}
    /\ call' = [c \in Caller |-> Idle]
    /\ ev_group' = {}
    /\ dpm_pdown_state' = "WAIT"
    /\ dpm_daemon_start_flag' = nv_dpm_mode
    /\ dpm_daemon_hold_flag' = FALSE /\ dpm_daemon_cmd_hold_flag' = FALSE
    /\ dpm_rtc_to_chk_flag' = FALSE /\ dpm_mac_err_flag' = FALSE
    /\ not_rcv' = FALSE
    /\ d_pc' = IF nv_dpm_mode THEN "boot" ELSE "dead"
    /\ sleep_delay_cnt' = DelayCnt /\ dpm_sleep_try_chk_cnt' = 0
    /\ dpm_mode' = nv_dpm_mode
    /\ UNCHANGED nv_dpm_mode

CallNext(c) ==
    \/ RegTake(c) \/ RegSlot(c) \/ RegStore(c)
    \/ UnregTake(c) \/ UnregStore(c) \/ UnregName(c) \/ UnregBit(c)
    \/ SetFind(c) \/ SetLoad(c) \/ SetStore(c)
    \/ ClrFind(c) \/ ClrLoad(c) \/ ClrStore(c)
    \/ AllStore(c) \/ StopKill(c) \/ DisableNv(c) \/ DisableMode(c)

TaskNext(t) ==
    \/ \E m \in Uses[t] :
          \/ Start(t, "reg", m, "regTake")
          \/ Start(t, "set", m, "setWait")
          \/ Start(t, "clr", m, "clrWait")
          \/ UnregFind(t, m)
          \/ set_dpm_rcv_ready(t, m)
          \/ set_dpm_rcv_ready_by_port(t, m)
          \/ set_dpm_init_done(t, m)
    \/ AllLoad(t) \/ StopFlags(t) \/ DisableKill(t) \/ enable_dpm_mode(t)

ControlNext ==
    hold_dpm_sleepd \/ resume_dpm_sleepd \/ CmdHold \/ CmdResume \/ RtcProcess

Next ==
    \/ \E t \in Task : TaskNext(t)
    \/ \E c \in Caller : CallNext(c)
    \/ ControlNext
    \/ DaemonNext
    \/ dpm_trigger_timer_fn
    \/ Reboot

Spec == Init /\ [][Next]_vars

\* The scheduler runs the daemon, the timer service and a task that is inside a
\* call; nobody is obliged to start one.  Nothing obliges the daemon to decide
\* instead of deferring, at any point.
Fairness ==
    /\ WF_vars(DaemonNext)
    /\ WF_vars(dpm_trigger_timer_fn)
    /\ \A c \in Caller : WF_vars(CallNext(c))

FairSpec == Spec /\ Fairness

-----------------------------------------------------------------------------
\* The mutex protects the critical sections of reg_dpm_sleep and
\* unreg_dpm_sleep.
InCritical(c) == call[c].pc \in {"reg", "regStore", "unregStore"}

MutexHeld == \A c \in Caller : InCritical(c) => mutex = {c}

\* A module is registered in at most one slot, whatever registrations and
\* unregistrations overlap (reg_dpm_sleep's test for a duplicate name, under
\* the mutex, against the unprotected erasure of unreg_dpm_sleep).
UniqueNames ==
    \A i, j \in Slot :
        /\ mod_name[i] # NoName
        /\ mod_name[i] = mod_name[j]
        => i = j

\* A named slot counts in reg_dpm_req_flag, so that the daemon waits for its
\* module, unless a task is about to erase that very slot (reg_dpm_sleep,
\* unreg_dpm_sleep).
Unregistering(i) ==
    \E c \in Caller : /\ call[c].pc \in {"unregStore", "unregName"}
                      /\ call[c].idx = i

NamedSlotCounts ==
    \A i \in Slot : mod_name[i] # NoName
                        => i \in reg_dpm_req_flag \/ Unregistering(i)

\* A registration under way has checked that its module has no slot, owns a
\* free slot and has set its bit.
RegPending ==
    \A c \in Caller : call[c].pc = "regStore" =>
        /\ ~Registered(call[c].mod)
        /\ mod_name[call[c].idx] = NoName
        /\ call[c].idx \in reg_dpm_req_flag

\* A registration is for a module, and the daemon makes no call but
\* clr_dpm_sleep.
CallsMade ==
    /\ \A c \in Caller : call[c].pc \in {"regTake", "reg", "regStore"}
                             => call[c].mod \in Module
    /\ call[Daemon].pc \in {"idle", "clrWait", "clrLoad", "clrStore"}

\* What UniqueNames and NamedSlotCounts rest on, step by step: the mutex keeps
\* the outcome of the duplicate test valid until the name is written, although
\* unreg_dpm_sleep erases names without it.
TableInv ==
    MutexHeld /\ CallsMade /\ RegPending /\ UniqueNames /\ NamedSlotCounts

\* A module that has not called dpm_app_wakeup_done is not called back by the
\* RTC timers: one that does not read as initialised begins to do so only when
\* it is already registered (set_dpm_init_done, chk_dpm_init_done).
InitDoneIsOwn ==
    [][\A m \in Module :
          ~chk_dpm_init_done(m) /\ chk_dpm_init_done(m)' => Registered(m)]_vars

\* dpm_pdown_state does not stay RUN: a PS command that succeeds ends in DONE,
\* and one that fails is taken back by the daemon or by the trigger timer, so
\* that the callers waiting in set_dpm_sleep and clr_dpm_sleep can go on
\* (dpm_sleep_daemon, dpm_trigger_timer_fn).
RunEnds == dpm_pdown_state = "RUN" ~> dpm_pdown_state # "RUN"

\* Nothing stands in the way of a power-down.
Ready ==
    /\ SleepPossible
    /\ dpm_mode /\ dpm_daemon_start_flag /\ d_pc # "done"
    /\ ~dpm_daemon_hold_flag /\ ~dpm_daemon_cmd_hold_flag
    /\ ~dpm_rtc_to_chk_flag

\* When every registered module is ready for sleep and stays so, and nothing
\* holds the daemon, the daemon issues the PS command, unless TCP sessions or
\* the crystal make it defer its decision again and again for ever
\* (dpm_sleep_daemon, da16x_dpm_sock_is_available_set_sleep, which counts the
\* deferrals of a session only when it has a sess_info).
ReadyIsAttempted ==
    []<><<DaemonDefer>>_vars \/ (Ready ~> (d_pc = "psCmd" \/ ~Ready))
=============================================================================
