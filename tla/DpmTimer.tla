------------------------------ MODULE DpmTimer ------------------------------
(***************************************************************************)
(* The DPM timers (core/system/src/dpm/da16x_dpm.c, rtc_timeout_cb to      *)
(* dpm_timer_task_create): the table of timers in retention memory, the    *)
(* calls of the applications, the interrupt of an expired RTC timer, the   *)
(* task that turns expired identifiers into callbacks, and the power-down  *)
(* that may come in between.                                               *)
(*                                                                         *)
(* dpm_timer_mutex covers the calls into the RTC and not the table: most   *)
(* reads and some writes of an entry are made without it, and the          *)
(* interrupt changes dpm_rtc_timeout_tid whatever the task does with it.   *)
(* The timer task's agreement to the power-down is a bit of a mask that    *)
(* other tasks store as a whole.                                           *)
(***************************************************************************)
EXTENDS Integers, Sequences, FiniteSets

CONSTANTS
    Caller,         \* the tasks that call the timer functions
    Tid,            \* the RTC's timer identifiers
    Fixed,          \* those with a fixed use (TIMER_2 to TIMER_4)
    Module,         \* the names of DPM modules
    Timer,          \* the names of timers
    NoName,         \* an empty string
    NoTid,          \* no identifier
    Nobody,         \* nobody holds the mutex
    MaxAbnormal,    \* RTC_ABNORMAL_MAX_CNT
    QueueLen,       \* the length of dpm_timer_queue
    Registered,     \* the names and identifiers rtc_register_timer is given
    Ops,            \* the functions that are called
    MaxCalls        \* bound: how often a caller calls one

ASSUME TimerLimits ==
    /\ Tid \subseteq Nat /\ NoTid \notin Tid /\ Fixed \subseteq Tid
    /\ MaxAbnormal \in Nat /\ QueueLen \in Nat \ {0}
    /\ Registered \subseteq (Module \cup {NoName}) \X Tid
    /\ MaxCalls \in Nat

ASSUME TimerNames == NoName \notin Module \cup Timer /\ Nobody \notin Caller

VARIABLES
    rtc,            \* external: the RTC timers that run
    timeout_tid,    \* retained: dpm_rtc_timeout_tid, as a set
    entry,          \* retained: the table of dpm_timer_info_t
    queue,          \* dpm_timer_queue
    abnormal,       \* dpm_timer_abnormal_flag
    mutex,          \* dpm_timer_mutex
    init_done,      \* the modules that are ready for callbacks
    sleep_set,      \* the timer task's bit of dpm_sleep_set_flag
    pdown,          \* how far the daemon is on its way to the power-down
    proc,           \* the timer task
    call,           \* each caller
    owed            \* history: "due" from an expiry to the callback it owes,
                    \* "lost" if it falls into a gap of the code

timerVars == <<rtc, timeout_tid, entry, queue, abnormal, mutex, init_done,
               sleep_set, pdown, proc, call>>
vars == <<timerVars, owed>>

Entry(task, timer, callback, periodic) ==
    [task |-> task, timer |-> timer, callback |-> callback, msec |-> periodic]

\* An entry after its four memsets and stores.
Erased == Entry(NoName, NoName, FALSE, FALSE)

ProcIdle == [pc |-> "top", todo |-> {}, cur |-> NoTid, word |-> {}]
CallIdle(left) == [pc |-> "idle", op |-> "none", e |-> Erased, tid |-> NoTid,
                   todo |-> {}, left |-> left]

ProcPoints == {"top", "flag", "send", "clear", "receive", "reschedule",
               "check", "confirm", "callback", "restore", "store", "finish"}

CallPoints == {"idle", "start", "write", "erase", "kill", "change", "restart",
               "all"}

Init ==
    /\ rtc = [t \in Tid |-> FALSE] /\ timeout_tid = {}
    /\ entry = [t \in Tid |-> Erased]
    /\ queue = <<>> /\ abnormal = [t \in Tid |-> 0]
    /\ mutex = Nobody /\ init_done = [m \in Module |-> FALSE]
    /\ sleep_set = FALSE /\ pdown = "wait"
    /\ proc = ProcIdle
    /\ call = [c \in Caller |-> CallIdle(MaxCalls)]
    /\ owed = [t \in Tid |-> "no"]

\* The identifiers of S that are due are lost, or settled.
Due == {t \in Tid : owed[t] = "due"}
Lost(S) == owed' = [t \in Tid |-> IF t \in Due \cap S THEN "lost" ELSE owed[t]]
Settled(S) == owed' = [t \in Tid |-> IF t \in S THEN "no" ELSE owed[t]]

Ids(q) == {q[i] : i \in 1 .. Len(q)}
Queued == Ids(queue)

Lowest(S) == CHOOSE t \in S : \A u \in S : t <= u

-----------------------------------------------------------------------------
(* The interrupt                                                           *)

\* Somebody waits for the callback of t: it has one, or a create has started
\* the RTC and is about to write one.
Expected(t) ==
    \/ entry[t].callback
    \/ \E c \in Caller : call[c].pc = "write" /\ call[c].tid = t

\* An RTC timer expires, and rtc_timeout_cb notes it.
rtc_timeout_cb(t) ==
    /\ rtc[t]
    /\ rtc' = [rtc EXCEPT ![t] = FALSE]
    /\ timeout_tid' = timeout_tid \cup {t}
    /\ owed' = [owed EXCEPT ![t] = IF Expected(t) THEN "due" ELSE "no"]
    /\ UNCHANGED <<entry, queue, abnormal, mutex, init_done, sleep_set, pdown,
                   proc, call>>

-----------------------------------------------------------------------------
(* dpm_timer_task                                                          *)

At(pc) == proc.pc = pc
Go(pc) == proc' = [proc EXCEPT !.pc = pc]

\* get_rtc_timeout_tid, while no power-down runs.
ReadTids ==
    /\ At("top") /\ pdown # "run"
    /\ proc' = [proc EXCEPT !.pc = "flag", !.todo = timeout_tid]
    /\ UNCHANGED <<rtc, timeout_tid, entry, queue, abnormal, mutex, init_done,
                   sleep_set, pdown, call, owed>>

SkipTids ==
    /\ At("top") /\ pdown = "run"
    /\ Go("flag")
    /\ UNCHANGED <<rtc, timeout_tid, entry, queue, abnormal, mutex, init_done,
                   sleep_set, pdown, call, owed>>

\* clr_dpm_sleep when there is something to do, set_dpm_sleep when not; both
\* wait for the end of a power-down attempt.
AnnounceSleep ==
    /\ At("flag") /\ pdown # "run"
    /\ sleep_set' = (proc.todo = {})
    /\ IF proc.todo = {} THEN Go("top") ELSE Go("send")
    /\ UNCHANGED <<rtc, timeout_tid, entry, queue, abnormal, mutex, init_done,
                   pdown, call, owed>>

\* One identifier goes to the queue, or stays where it is if the queue is
\* full; clr_rtc_timeout_tid reads the word here and writes it in ClearTid.
SendTid ==
    LET t == Lowest(proc.todo)
    IN  /\ At("send") /\ proc.todo # {}
        /\ IF Len(queue) < QueueLen
           THEN /\ queue' = Append(queue, t)
                /\ proc' = [proc EXCEPT !.pc = "clear", !.cur = t,
                                        !.word = timeout_tid]
           ELSE /\ proc' = [proc EXCEPT !.todo = proc.todo \ {t}]
                /\ queue' = queue
        /\ UNCHANGED <<rtc, timeout_tid, entry, abnormal, mutex, init_done,
                       sleep_set, pdown, call, owed>>

\* Fault: the whole word is cleared.
ClearedAll == {}

\* Fault: the bit is not cleared.
ClearedNone == proc.word

ClearedWord == proc.word \ {proc.cur}

\* The bits that rtc_timeout_cb set since the word was read are lost.
Overwritten == timeout_tid \ proc.word

ClearTid ==
    /\ At("clear")
    /\ timeout_tid' = ClearedWord
    /\ proc' = [ProcIdle EXCEPT !.pc = "send", !.todo = proc.todo \ {proc.cur}]
    /\ Lost(Overwritten \ Queued)
    /\ UNCHANGED <<rtc, entry, queue, abnormal, mutex, init_done, sleep_set,
                   pdown, call>>

\* The queue is sent, or one more identifier of it is processed.
ReceiveTid ==
    /\ At("receive") \/ (At("send") /\ proc.todo = {})
    /\ IF queue = <<>>
       THEN proc' = ProcIdle /\ queue' = queue
       ELSE /\ proc' = [ProcIdle EXCEPT !.pc = "reschedule", !.cur = Head(queue)]
            /\ queue' = Tail(queue)
    /\ UNCHANGED <<rtc, timeout_tid, entry, abnormal, mutex, init_done,
                   sleep_set, pdown, call, owed>>

-----------------------------------------------------------------------------
(* dpm_timer_process; dpm_rtc_to_chk_flag is TRUE from its begin to its end *)

InProcess == proc.pc \in {"reschedule", "check", "confirm", "callback",
                          "restore", "store", "finish"}

\* A periodic timer is started again before anything else, or the RTC refuses.
Reschedule ==
    /\ At("reschedule")
    /\ entry[proc.cur].msec => mutex = Nobody
    /\ \/ rtc' = [rtc EXCEPT ![proc.cur] = @ \/ entry[proc.cur].msec]
       \/ rtc' = rtc
    /\ Go("check")
    /\ UNCHANGED <<timeout_tid, entry, queue, abnormal, mutex, init_done,
                   sleep_set, pdown, call, owed>>

\* Is there a callback, and does it belong to a module?
CheckCallback ==
    LET e == entry[proc.cur]
    IN  /\ At("check")
        /\ Go(IF ~e.callback THEN "finish"
              ELSE IF e.task = NoName THEN "callback" ELSE "confirm")
        /\ Lost(IF e.callback THEN {} ELSE {proc.cur})
        /\ UNCHANGED <<rtc, timeout_tid, entry, queue, abnormal, mutex,
                       init_done, sleep_set, pdown, call>>

\* What confirm_dpm_init_done may answer: it asks again for a second.  An
\* empty name, of an entry erased meanwhile, may match an unused slot.
Confirmed ==
    LET m == entry[proc.cur].task
    IN  IF m = NoName THEN BOOLEAN ELSE {init_done[m]}

ConfirmYes ==
    /\ At("confirm") /\ TRUE \in Confirmed
    /\ Go("callback")
    /\ UNCHANGED <<rtc, timeout_tid, entry, queue, abnormal, mutex, init_done,
                   sleep_set, pdown, call, owed>>

\* Fault: one time more than the limit.
AbnormalOnceMore(n) == IF n > MaxAbnormal THEN 0 ELSE n + 1

\* Fault: the count stays at its limit.
AbnormalSaturates(n) == IF n + 1 > MaxAbnormal THEN n ELSE n + 1

\* The module is not ready: the identifier is restored MaxAbnormal times.
AbnormalCount(n) == IF n + 1 > MaxAbnormal THEN 0 ELSE n + 1

ConfirmNo ==
    LET n == AbnormalCount(abnormal[proc.cur])
    IN  /\ At("confirm") /\ FALSE \in Confirmed
        /\ abnormal' = [abnormal EXCEPT ![proc.cur] = n]
        /\ Go(IF n = 0 THEN "finish" ELSE "restore")
        /\ Settled(IF n = 0 THEN {proc.cur} ELSE {})
        /\ UNCHANGED <<rtc, timeout_tid, entry, queue, mutex, init_done,
                       sleep_set, pdown, call>>

\* The callback is called through the entry as it is now.
Callback ==
    /\ At("callback") /\ entry[proc.cur].callback
    /\ Settled({proc.cur})
    /\ Go("finish")
    /\ UNCHANGED <<rtc, timeout_tid, entry, queue, abnormal, mutex, init_done,
                   sleep_set, pdown, call>>

\* dpm_rtc_timeout_tid |= 1 << timeout_id, read and written.
RestoreRead ==
    /\ At("restore")
    /\ proc' = [proc EXCEPT !.pc = "store", !.word = timeout_tid]
    /\ UNCHANGED <<rtc, timeout_tid, entry, queue, abnormal, mutex, init_done,
                   sleep_set, pdown, call, owed>>

RestoreWrite ==
    /\ At("store")
    /\ timeout_tid' = proc.word \cup {proc.cur}
    /\ proc' = [proc EXCEPT !.pc = "finish", !.word = {}]
    /\ Lost(Overwritten \ (Queued \cup {proc.cur}))
    /\ UNCHANGED <<rtc, entry, queue, abnormal, mutex, init_done, sleep_set,
                   pdown, call>>

\* What a single-shot timer leaves in the table, and the queue after an
\* identifier with an abnormal count.
AfterShot(e) == IF e.msec THEN e ELSE Erased
AfterProcess(q) == IF abnormal[proc.cur] # 0 THEN <<>> ELSE q

Finish ==
    /\ At("finish")
    /\ entry' = [entry EXCEPT ![proc.cur] = AfterShot(@)]
    /\ queue' = AfterProcess(queue)
    /\ proc' = [ProcIdle EXCEPT !.pc = IF abnormal[proc.cur] # 0 THEN "top"
                                       ELSE "receive"]
    /\ Lost((Queued \ Ids(queue')) \cup IF entry[proc.cur].msec THEN {}
                                         ELSE {proc.cur})
    /\ UNCHANGED <<rtc, timeout_tid, abnormal, mutex, init_done, sleep_set,
                   pdown, call>>

-----------------------------------------------------------------------------
(* The calls                                                               *)

Idle(c, op) == call[c].pc = "idle" /\ op \in Ops /\ call[c].left > 0
Enter(c, pc, op, e, t, todo) ==
    call' = [call EXCEPT ![c] = [pc |-> pc, op |-> op, e |-> e, tid |-> t,
                                 todo |-> todo, left |-> @.left - 1]]
CallGo(c, pc) == call' = [call EXCEPT ![c].pc = pc]
Return(c) == call' = [call EXCEPT ![c] = CallIdle(@.left)]

MutexFree == mutex = Nobody

\* dpm_timer_find_timer_id
dpm_timer_find_timer_id(m, n) ==
    {t \in Tid : entry[t].task = m /\ entry[t].timer = n}

\* dpm_user_timer_create looks for the name, without the mutex.
CreateFind(c, m, n, periodic) ==
    /\ Idle(c, "create")
    /\ dpm_timer_find_timer_id(m, n) = {}
    /\ Enter(c, "start", "create", Entry(m, n, TRUE, periodic), NoTid, {})
    /\ UNCHANGED <<rtc, timeout_tid, entry, queue, abnormal, mutex, init_done,
                   sleep_set, pdown, proc, owed>>

\* fc80211_set_app_keepalivetime(0, ...) starts any timer that does not run.
CreateStart(c, t) ==
    /\ call[c].pc = "start" /\ MutexFree /\ ~rtc[t]
    /\ mutex' = c
    /\ rtc' = [rtc EXCEPT ![t] = TRUE]
    /\ call' = [call EXCEPT ![c].pc = "write", ![c].tid = t]
    /\ Lost({t})
    /\ UNCHANGED <<timeout_tid, entry, queue, abnormal, init_done, sleep_set,
                   pdown, proc>>

CreateFailed(c) ==
    /\ call[c].pc = "start" /\ MutexFree /\ \A t \in Tid \ Fixed : rtc[t]
    /\ Return(c)
    /\ UNCHANGED <<rtc, timeout_tid, entry, queue, abnormal, mutex, init_done,
                   sleep_set, pdown, proc, owed>>

\* The table is written when the RTC timer already runs.
CreateWrite(c) ==
    /\ call[c].pc = "write"
    /\ entry' = [entry EXCEPT ![call[c].tid] = call[c].e]
    /\ mutex' = Nobody
    /\ Return(c)
    /\ UNCHANGED <<rtc, timeout_tid, queue, abnormal, init_done, sleep_set,
                   pdown, proc, owed>>

\* rtc_register_timer with a fixed identifier or with one that does not run:
\* the table first, then the RTC.
rtc_register_timer(c, m, t, periodic) ==
    /\ Idle(c, "register") /\ MutexFree /\ (t \in Fixed \/ ~rtc[t])
    /\ mutex' = c
    /\ entry' = [entry EXCEPT ![t] = Entry(m, NoName, TRUE, periodic)]
    /\ Enter(c, "restart", "register", Erased, t, {})
    /\ Lost({t})
    /\ UNCHANGED <<rtc, timeout_tid, queue, abnormal, init_done, sleep_set,
                   pdown, proc>>

\* The RTC timer is set (again), by register or by change; or the RTC refuses,
\* and the call returns with the entry as it is.
RtcStart(c) ==
    /\ call[c].pc = "restart" /\ mutex \in {c, Nobody}
    /\ \/ rtc' = [rtc EXCEPT ![call[c].tid] = TRUE]
       \/ rtc' = rtc
    /\ mutex' = Nobody
    /\ Return(c)
    /\ UNCHANGED <<timeout_tid, entry, queue, abnormal, init_done, sleep_set,
                   pdown, proc, owed>>

\* dpm_user_timer_delete and dpm_user_timer_change find the timer without the
\* mutex.
Find(c, op, m, n) ==
    LET found == dpm_timer_find_timer_id(m, n)
    IN  /\ op \in {"delete", "change"} /\ Idle(c, op)
        /\ found # {}
        /\ Enter(c, IF op = "delete" THEN "erase" ELSE "change", op,
                 Entry(m, n, FALSE, FALSE), Lowest(found), {})
        /\ UNCHANGED <<rtc, timeout_tid, entry, queue, abnormal, mutex,
                       init_done, sleep_set, pdown, proc, owed>>

\* Is the entry still the one that was found?
Same(c) ==
    LET e == entry[call[c].tid]
    IN  e.task = call[c].e.task /\ e.timer = call[c].e.timer

\* The entry is erased without the mutex; a callback that is due is not
\* wanted any more.
DeleteErase(c) ==
    LET t == call[c].tid
    IN  /\ call[c].pc = "erase"
        /\ entry' = [entry EXCEPT ![t] = Erased]
        /\ CallGo(c, "kill")
        /\ IF Same(c) THEN Settled({t}) ELSE Lost({t})
        /\ UNCHANGED <<rtc, timeout_tid, queue, abnormal, mutex, init_done,
                       sleep_set, pdown, proc>>

DeleteKill(c) ==
    /\ call[c].pc = "kill" /\ MutexFree
    /\ rtc' = [rtc EXCEPT ![call[c].tid] = FALSE]
    /\ Return(c)
    /\ UNCHANGED <<timeout_tid, entry, queue, abnormal, mutex, init_done,
                   sleep_set, pdown, proc, owed>>

\* The reschedule time is written whether the timer is periodic or not.
ChangeWrite(c) ==
    /\ call[c].pc = "change"
    /\ entry' = [entry EXCEPT ![call[c].tid].msec = TRUE]
    /\ CallGo(c, "restart")
    /\ UNCHANGED <<rtc, timeout_tid, queue, abnormal, mutex, init_done,
                   sleep_set, pdown, proc, owed>>

\* rtc_cancel_timer leaves the table as it is.
rtc_cancel_timer(c, t) ==
    /\ Idle(c, "cancel") /\ MutexFree /\ rtc[t]
    /\ rtc' = [rtc EXCEPT ![t] = FALSE]
    /\ call' = [call EXCEPT ![c].left = @ - 1]
    /\ UNCHANGED <<timeout_tid, entry, queue, abnormal, mutex, init_done,
                   sleep_set, pdown, proc, owed>>

\* TIMER_9 and TIMER_10, which dpm_user_timer_delete_all leaves alone.
Limited == Tid \cap {9, 10}

\* dpm_user_timer_delete_all: level 1 erases the table, level 2 also stops
\* the RTC, and passes over a timer that the RTC does not stop.
DeleteAll(c, level) ==
    /\ Idle(c, level) /\ level \in {"all1", "all2"} /\ MutexFree
    /\ mutex' = c
    /\ Enter(c, "all", level, Erased, NoTid, Tid \ (Fixed \cup Limited))
    /\ UNCHANGED <<rtc, timeout_tid, entry, queue, abnormal, init_done,
                   sleep_set, pdown, proc, owed>>

DeleteNext(c) ==
    LET t == Lowest(call[c].todo)
    IN  /\ call[c].pc = "all" /\ call[c].todo # {}
        /\ \/ /\ entry' = [entry EXCEPT ![t] = Erased]
              /\ rtc' = [rtc EXCEPT ![t] = @ /\ call[c].op = "all1"]
              /\ Settled({t})
           \/ /\ call[c].op = "all2" /\ ~rtc[t]
              /\ UNCHANGED <<entry, rtc, owed>>
        /\ call' = [call EXCEPT ![c].todo = @ \ {t}]
        /\ UNCHANGED <<timeout_tid, queue, abnormal, mutex, init_done,
                       sleep_set, pdown, proc>>

DeletedAll(c) ==
    /\ call[c].pc = "all" /\ call[c].todo = {}
    /\ mutex' = Nobody
    /\ Return(c)
    /\ UNCHANGED <<rtc, timeout_tid, entry, queue, abnormal, init_done,
                   sleep_set, pdown, proc, owed>>

-----------------------------------------------------------------------------
(* The rest of the system                                                  *)

\* A module is ready for its callbacks.
set_dpm_init_done(m) ==
    /\ ~init_done[m]
    /\ init_done' = [init_done EXCEPT ![m] = TRUE]
    /\ UNCHANGED <<rtc, timeout_tid, entry, queue, abnormal, mutex, sleep_set,
                   pdown, proc, call, owed>>

\* Another task stores dpm_sleep_set_flag as it was before the timer task last
\* changed its bit, or set_dpm_all_flags sets all bits.
OtherStore ==
    /\ sleep_set' = ~sleep_set
    /\ UNCHANGED <<rtc, timeout_tid, entry, queue, abnormal, mutex, init_done,
                   pdown, proc, call, owed>>

\* The sleep daemon finds every module ready for the power-down and no
\* dpm_timer_process running, and goes for it some time later.
DaemonDecide ==
    /\ pdown = "wait" /\ sleep_set /\ ~InProcess
    /\ pdown' = "decided"
    /\ UNCHANGED <<rtc, timeout_tid, entry, queue, abnormal, mutex, init_done,
                   sleep_set, proc, call, owed>>

DaemonRun ==
    /\ pdown = "decided"
    /\ pdown' = "run"
    /\ UNCHANGED <<rtc, timeout_tid, entry, queue, abnormal, mutex, init_done,
                   sleep_set, proc, call, owed>>

DaemonBack ==
    /\ pdown = "run"
    /\ pdown' = "wait"
    /\ UNCHANGED <<rtc, timeout_tid, entry, queue, abnormal, mutex, init_done,
                   sleep_set, proc, call, owed>>

\* What a boot finds that is not in retention memory.
Booted ==
    /\ queue' = <<>> /\ abnormal' = [t \in Tid |-> 0]
    /\ mutex' = Nobody /\ init_done' = [m \in Module |-> FALSE]
    /\ sleep_set' = FALSE /\ pdown' = "wait"
    /\ proc' = ProcIdle
    /\ call' = [c \in Caller |-> CallIdle(call[c].left)]

\* The identifiers that the timer task has taken out of the word.
Taken == Queued \cup IF InProcess THEN {proc.cur} ELSE {}

\* The power-down keeps the RTC, the table and dpm_rtc_timeout_tid, and loses
\* the identifiers that the timer task had taken out of it.
PowerDown ==
    /\ pdown = "run"
    /\ Booted
    /\ Lost(Taken \ timeout_tid)
    /\ UNCHANGED <<rtc, timeout_tid, entry>>

\* A callback that was erased since it was checked: the call faults, and the
\* system starts again without its retention memory.
NullCallback ==
    /\ At("callback") /\ ~entry[proc.cur].callback
    /\ Booted
    /\ rtc' = [t \in Tid |-> FALSE] /\ timeout_tid' = {}
    /\ entry' = [t \in Tid |-> Erased]
    /\ owed' = [t \in Tid |-> "no"]

-----------------------------------------------------------------------------
TimerTask ==
    \/ ReadTids \/ SkipTids \/ AnnounceSleep \/ SendTid \/ ClearTid \/ ReceiveTid
    \/ Reschedule \/ CheckCallback \/ ConfirmYes \/ ConfirmNo \/ Callback
    \/ NullCallback \/ RestoreRead \/ RestoreWrite \/ Finish

CallStep(c) ==
    \/ \E t \in Tid \ Fixed : CreateStart(c, t)
    \/ CreateFailed(c) \/ CreateWrite(c) \/ RtcStart(c)
    \/ DeleteErase(c) \/ DeleteKill(c) \/ ChangeWrite(c)
    \/ DeleteNext(c) \/ DeletedAll(c)

CallBegin(c) ==
    \/ \E m \in Module, n \in Timer, p \in BOOLEAN : CreateFind(c, m, n, p)
    \/ \E r \in Registered, p \in BOOLEAN :
          rtc_register_timer(c, r[1], r[2], p)
    \/ \E m \in Module, n \in Timer, op \in {"delete", "change"} :
          Find(c, op, m, n)
    \/ \E t \in Tid : rtc_cancel_timer(c, t)
    \/ \E level \in {"all1", "all2"} : DeleteAll(c, level)

Daemon == DaemonDecide \/ DaemonRun \/ DaemonBack \/ PowerDown

Next ==
    \/ \E t \in Tid : rtc_timeout_cb(t)
    \/ TimerTask
    \/ \E c \in Caller : CallBegin(c) \/ CallStep(c)
    \/ \E m \in Module : set_dpm_init_done(m)
    \/ OtherStore \/ Daemon

Spec == Init /\ [][Next]_vars

\* The scheduler runs the timer task and ends what a caller began, and a
\* power-down attempt ends.  Between two attempts the daemon waits for several
\* ticks, while the timer task, set_dpm_sleep and clr_dpm_sleep look at every
\* few ticks whether the attempt is over.
FairSpec ==
    /\ Spec
    /\ WF_vars(TimerTask) /\ SF_vars(ReadTids) /\ SF_vars(AnnounceSleep)
    /\ \A c \in Caller : WF_vars(CallStep(c))
    /\ WF_vars(DaemonRun) /\ WF_vars(DaemonBack \/ PowerDown)

-----------------------------------------------------------------------------
\* Types of the timers' state.
TypeOK ==
    LET entries == [task : Module \cup {NoName}, timer : Timer \cup {NoName},
                    callback : BOOLEAN, msec : BOOLEAN]
    IN  /\ rtc \in [Tid -> BOOLEAN] /\ timeout_tid \subseteq Tid
        /\ entry \in [Tid -> entries]
        /\ queue \in Seq(Tid) /\ Len(queue) <= QueueLen
        /\ abnormal \in [Tid -> 0 .. MaxAbnormal]
        /\ mutex \in Caller \cup {Nobody}
        /\ init_done \in [Module -> BOOLEAN]
        /\ sleep_set \in BOOLEAN /\ pdown \in {"wait", "decided", "run"}
        /\ proc \in [pc : ProcPoints, todo : SUBSET Tid,
                     cur : Tid \cup {NoTid}, word : SUBSET Tid]
        /\ call \in [Caller -> [pc : CallPoints,
                                op : Ops \cup {"none"},
                                e : entries, tid : Tid \cup {NoTid},
                                todo : SUBSET Tid, left : 0 .. MaxCalls]]
        /\ owed \in [Tid -> {"no", "due", "lost"}]

\* An expired identifier whose callback is owed is in the retained word, in
\* the queue or being processed.  The code gives one up, and it counts as lost,
\* where the task's read-modify-write of the word overwrites it, the queue is
\* reset with it, a single-shot entry is erased although its module was not
\* ready, the identifier is given to another timer, or the power-down comes
\* when the task has taken it out of the word; nowhere else is one dropped.
ExpiryKept == Due \subseteq timeout_tid \cup Taken

\* A callback that is owed is made, given up or deleted, or falls into a gap,
\* unless other tasks again and again store the timer task's agreement over its
\* objection, and the power-down comes each time before it has read the word.
ExpiryServed ==
    \/ []<><<OtherStore /\ sleep_set'>>_vars
    \/ \A t \in Tid : owed[t] = "due" ~> owed[t] # "due"

\* When no RTC timer expires any more the timer task agrees to the power-down
\* again and again, whatever other tasks store over it: retries for a module
\* that is not ready do not keep the chip awake.
SleepAgain == (<>[](\A t \in Tid : ~rtc[t])) => []<>sleep_set
=============================================================================
