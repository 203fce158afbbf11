--------------------------- MODULE DpmTimerProofs ---------------------------
(***************************************************************************)
(* Proofs about DpmTimer, for every set of callers, identifiers, modules   *)
(* and timers, every length of the queue and every number of retries: the  *)
(* types, and where an expiry is whose callback is owed.                   *)
(***************************************************************************)
EXTENDS DpmTimer, WellFoundedInduction, TLAPS

\* The lowest identifier of a set is in it.
LEMMA LowestIn == ASSUME NEW S, S \subseteq Tid, S # {} PROVE Lowest(S) \in S
<1>1. S \subseteq Nat
  BY TimerLimits
<1>2. PICK x \in S : \A y \in S : ~(<<y, x>> \in OpToRel(<, Nat))
  BY <1>1, NatLessThanWellFounded, WFMin, Zenon
<1>3. ASSUME NEW y \in S PROVE x <= y
  <2>1. ~(y < x)
    BY <1>1, <1>2 DEF OpToRel
  <2> QED
    BY <1>1, <2>1
<1> QED
  BY <1>3 DEF Lowest

-----------------------------------------------------------------------------
(* The identifiers in a queue.                                             *)

\* A queue that gets an identifier at its end has it and those it had.
LEMMA IdsAppend ==
    ASSUME NEW q \in Seq(Tid), NEW t \in Tid
    PROVE  /\ Append(q, t) \in Seq(Tid) /\ Len(Append(q, t)) = Len(q) + 1
           /\ Ids(Append(q, t)) = Ids(q) \cup {t}
  BY DEF Ids

\* A queue without its first identifier has the others.
LEMMA IdsTail ==
    ASSUME NEW q \in Seq(Tid), q # <<>>
    PROVE  /\ Head(q) \in Tid /\ Tail(q) \in Seq(Tid) /\ Len(Tail(q)) = Len(q) - 1
           /\ Ids(q) = {Head(q)} \cup Ids(Tail(q))
<1>1. Len(q) \in Nat \ {0} /\ Head(q) = q[1] /\ Tail(q) \in Seq(Tid)
      /\ Len(Tail(q)) = Len(q) - 1
      /\ \A i \in 1 .. Len(q) - 1 : Tail(q)[i] = q[i + 1]
  OBVIOUS
<1>2. ASSUME NEW i \in 1 .. Len(q) PROVE q[i] \in {Head(q)} \cup Ids(Tail(q))
  <2>1. CASE i = 1
    BY <1>1, <2>1
  <2>2. CASE i # 1
    <3>1. i - 1 \in 1 .. Len(Tail(q)) /\ Tail(q)[i - 1] = q[i]
      BY <1>1, <2>2
    <3> QED
      BY <3>1 DEF Ids
  <2> QED
    BY <2>1, <2>2
<1>3. ASSUME NEW i \in 1 .. Len(Tail(q)) PROVE Tail(q)[i] \in Ids(q)
  <2>1. i + 1 \in 1 .. Len(q) /\ Tail(q)[i] = q[i + 1]
    BY <1>1
  <2> QED
    BY <2>1 DEF Ids
<1>4. Head(q) \in Ids(q)
  BY <1>1 DEF Ids
<1>5. Head(q) \in Tid
  BY <1>1
<1> QED
  BY <1>1, <1>2, <1>3, <1>4, <1>5 DEF Ids

\* An empty queue has none.
LEMMA IdsEmpty == Ids(<<>>) = {} /\ <<>> \in Seq(Tid) /\ Len(<<>>) = 0
  BY DEF Ids

-----------------------------------------------------------------------------
(* The type invariant.  The identifiers that the timer task and the calls  *)
(* carry along are part of it: where one is used, it is one of the RTC's.  *)

Entries == [task : Module \cup {NoName}, timer : Timer \cup {NoName},
            callback : BOOLEAN, msec : BOOLEAN]

Frames == [pc : CallPoints, op : Ops \cup {"none"}, e : Entries,
           tid : Tid \cup {NoTid}, todo : SUBSET Tid, left : 0 .. MaxCalls]

Procs == [pc : ProcPoints, todo : SUBSET Tid, cur : Tid \cup {NoTid},
          word : SUBSET Tid]

\* The types of what the timer task owns or shares with the interrupt.
TaskOK ==
    /\ timeout_tid \subseteq Tid
    /\ queue \in Seq(Tid) /\ Len(queue) <= QueueLen
    /\ abnormal \in [Tid -> 0 .. MaxAbnormal]
    /\ proc \in Procs
    /\ owed \in [Tid -> {"no", "due", "lost"}]
    /\ pdown \in {"wait", "decided", "run"}

\* The types of what the calls change.
TableOK ==
    /\ entry \in [Tid -> Entries]
    /\ mutex \in Caller \cup {Nobody}
    /\ call \in [Caller -> Frames]

\* The types of the Boolean state.
FlagOK ==
    /\ rtc \in [Tid -> BOOLEAN]
    /\ init_done \in [Module -> BOOLEAN]
    /\ sleep_set \in BOOLEAN

\* The timer task has an identifier where it uses one.
CurIsTid ==
    proc.pc \in {"clear", "reschedule", "check", "confirm", "callback",
                 "restore", "store", "finish"} => proc.cur \in Tid

TInv == TaskOK /\ TableOK /\ FlagOK /\ CurIsTid

\* The invariant gives the types.
LEMMA TInvTypes == TInv => TypeOK
<1> SUFFICES ASSUME TInv PROVE TypeOK
  OBVIOUS
<1>1. rtc \in [Tid -> BOOLEAN] /\ init_done \in [Module -> BOOLEAN]
      /\ sleep_set \in BOOLEAN
  BY Zenon DEF TInv, FlagOK
<1> QED
  BY <1>1 DEF TInv, TaskOK, TableOK, TypeOK, Entries, Frames, Procs

\* An erased entry, and one that is written, have their type.
LEMMA EntryTyped ==
    /\ Erased \in Entries
    /\ \A m \in Module \cup {NoName}, n \in Timer \cup {NoName},
          b \in BOOLEAN, p \in BOOLEAN : Entry(m, n, b, p) \in Entries
  BY DEF Erased, Entry, Entries

\* A task in no call, and a boot's timer task, have their type.
LEMMA IdleTyped ==
    /\ ProcIdle \in Procs
    /\ \A l \in 0 .. MaxCalls : CallIdle(l) \in Frames
  BY EntryTyped DEF ProcIdle, CallIdle, Procs, Frames, ProcPoints, CallPoints

\* What is lost, and what is settled, is not due any more.
LEMMA DueAfter ==
    ASSUME TaskOK, NEW S
    PROVE  /\ Lost(S) => Due' = Due \ S /\ owed' \in [Tid -> {"no", "due", "lost"}]
           /\ Settled(S) => Due' = Due \ S /\ owed' \in [Tid -> {"no", "due", "lost"}]
  BY DEF TaskOK, Lost, Settled, Due

\* The count of failed deliveries stays within its limit.
LEMMA CountTyped ==
    ASSUME NEW n \in 0 .. MaxAbnormal
    PROVE  AbnormalCount(n) \in 0 .. MaxAbnormal
  BY TimerLimits DEF AbnormalCount

\* Going on keeps the timer task's record typed.
LEMMA GoTyped ==
    ASSUME proc \in Procs, NEW p \in ProcPoints, Go(p)
    PROVE  proc' \in Procs /\ proc'.pc = p /\ proc'.cur = proc.cur
           /\ proc'.todo = proc.todo /\ proc'.word = proc.word
  BY DEF Procs, Go

\* What the timer task does from reading the word to taking an identifier out
\* of its queue keeps the types.
LEMMA TypeScan ==
    ASSUME TInv, \/ ReadTids \/ SkipTids \/ AnnounceSleep \/ SendTid
                 \/ ClearTid \/ ReceiveTid
    PROVE  TaskOK' /\ TableOK' /\ CurIsTid'
<1>t. TaskOK /\ TableOK /\ CurIsTid
  BY DEF TInv
<1>p. /\ proc.pc \in ProcPoints /\ proc.todo \subseteq Tid
      /\ proc.cur \in Tid \cup {NoTid} /\ proc.word \subseteq Tid
  BY <1>t DEF TaskOK, Procs
<1> USE DEF At
<1>1. CASE ReadTids
  BY <1>1, <1>t DEF ReadTids, TaskOK, TableOK, CurIsTid, Procs, ProcPoints
<1>2. CASE SkipTids
  BY <1>2, <1>t DEF SkipTids, Go, TaskOK, TableOK, CurIsTid, Procs, ProcPoints
<1>3. CASE AnnounceSleep
  <2>1. PICK p \in {"top", "send"} : Go(p)
    BY <1>3 DEF AnnounceSleep
  <2>2. proc \in Procs /\ p \in ProcPoints
    BY <1>t DEF TaskOK, ProcPoints
  <2>3. proc' \in Procs /\ proc'.pc = p
    BY <2>1, <2>2, GoTyped
  <2> QED
    BY <1>3, <1>t, <2>1, <2>3 DEF AnnounceSleep, TaskOK, TableOK, CurIsTid
<1>4. CASE SendTid
  <2> DEFINE t == Lowest(proc.todo)
  <2>1. t \in Tid
    BY <1>4, <1>p, LowestIn DEF SendTid
  <2>2. CASE Len(queue) < QueueLen
    <3>1. queue' = Append(queue, t)
          /\ proc' = [proc EXCEPT !.pc = "clear", !.cur = t, !.word = timeout_tid]
      BY <1>4, <2>2 DEF SendTid
    <3>2. queue' \in Seq(Tid) /\ Len(queue') <= QueueLen
      BY <3>1, <2>1, <2>2, <1>t, IdsAppend, TimerLimits DEF TaskOK
    <3>3. proc' \in Procs /\ proc'.cur \in Tid
      BY <3>1, <2>1, <1>t DEF TaskOK, Procs, ProcPoints
    <3> QED
      BY <1>4, <1>t, <3>2, <3>3 DEF SendTid, TaskOK, TableOK, CurIsTid
  <2>3. CASE ~(Len(queue) < QueueLen)
    <3>1. queue' = queue /\ proc' = [proc EXCEPT !.todo = proc.todo \ {t}]
      BY <1>4, <2>3 DEF SendTid
    <3>2. proc' \in Procs /\ proc'.pc = proc.pc /\ proc'.cur = proc.cur
      BY <3>1, <1>t DEF TaskOK, Procs
    <3> QED
      BY <1>4, <1>t, <3>1, <3>2 DEF SendTid, TaskOK, TableOK, CurIsTid
  <2> QED
    BY <2>2, <2>3
<1>5. CASE ClearTid
  <2>1. proc' \in Procs /\ proc'.pc = "send"
    BY <1>5, <1>p DEF ClearTid, ProcIdle, Procs, ProcPoints
  <2>2. timeout_tid' \subseteq Tid
    BY <1>5, <1>p DEF ClearTid, ClearedWord
  <2>3. owed' \in [Tid -> {"no", "due", "lost"}]
    BY <1>5, <1>t, DueAfter DEF ClearTid
  <2> QED
    BY <1>5, <1>t, <2>1, <2>2, <2>3 DEF ClearTid, TaskOK, TableOK, CurIsTid
<1>6. CASE ReceiveTid
  <2>u. UNCHANGED <<timeout_tid, abnormal, owed, pdown, entry, mutex, call>>
    BY <1>6 DEF ReceiveTid
  <2>1. CASE queue = <<>>
    <3>1. proc' = ProcIdle /\ queue' = queue
      BY <1>6, <2>1 DEF ReceiveTid
    <3>2. proc' \in Procs /\ proc'.pc = "top"
      BY <3>1, IdleTyped DEF ProcIdle
    <3> QED
      BY <2>u, <1>t, <3>1, <3>2 DEF TaskOK, TableOK, CurIsTid
  <2>2. CASE queue # <<>>
    <3>1. proc' = [ProcIdle EXCEPT !.pc = "reschedule", !.cur = Head(queue)]
          /\ queue' = Tail(queue)
      BY <1>6, <2>2 DEF ReceiveTid
    <3>2. Head(queue) \in Tid /\ Tail(queue) \in Seq(Tid)
          /\ Len(Tail(queue)) = Len(queue) - 1
      BY <2>2, <1>t, IdsTail DEF TaskOK
    <3>3. proc' \in Procs /\ proc'.cur \in Tid
      BY <3>1, <3>2 DEF ProcIdle, Procs, ProcPoints
    <3>4. queue' \in Seq(Tid) /\ Len(queue') <= QueueLen
      BY <3>1, <3>2, <1>t, TimerLimits DEF TaskOK
    <3> QED
      BY <2>u, <1>t, <3>3, <3>4 DEF TaskOK, TableOK, CurIsTid
  <2> QED
    BY <2>1, <2>2
<1> QED
  BY <1>1, <1>2, <1>3, <1>4, <1>5, <1>6

\* dpm_timer_process keeps the types.
LEMMA TypeProcess ==
    ASSUME TInv, \/ Reschedule \/ CheckCallback \/ ConfirmYes \/ ConfirmNo
                 \/ Callback \/ RestoreRead \/ RestoreWrite \/ Finish
    PROVE  TaskOK' /\ TableOK' /\ CurIsTid'
<1>t. TaskOK /\ TableOK /\ CurIsTid
  BY DEF TInv
<1>p. /\ proc.pc \in ProcPoints /\ proc.todo \subseteq Tid
      /\ proc.cur \in Tid \cup {NoTid} /\ proc.word \subseteq Tid
  BY <1>t DEF TaskOK, Procs
<1>c. proc.cur \in Tid
  BY <1>t DEF CurIsTid, At, Reschedule, CheckCallback, ConfirmYes, ConfirmNo,
              Callback, RestoreRead, RestoreWrite, Finish
<1>g. ASSUME NEW p \in ProcPoints, Go(p)
      PROVE  proc' \in Procs /\ CurIsTid'
  BY <1>g, <1>t, <1>c, GoTyped DEF TaskOK, CurIsTid
<1>1. CASE Reschedule
  <2>1. proc' \in Procs /\ CurIsTid'
    BY <1>1, <1>g DEF Reschedule, ProcPoints
  <2> QED
    BY <1>1, <2>1, <1>t DEF Reschedule, TaskOK, TableOK
<1>2. CASE CheckCallback
  <2>1. proc' \in Procs /\ CurIsTid'
    BY <1>2, <1>g DEF CheckCallback, ProcPoints
  <2>2. owed' \in [Tid -> {"no", "due", "lost"}]
    BY <1>2, <1>t, DueAfter DEF CheckCallback
  <2> QED
    BY <1>2, <2>1, <2>2, <1>t DEF CheckCallback, TaskOK, TableOK
<1>3. CASE ConfirmYes
  <2>1. proc' \in Procs /\ CurIsTid'
    BY <1>3, <1>g DEF ConfirmYes, ProcPoints
  <2> QED
    BY <1>3, <2>1, <1>t DEF ConfirmYes, TaskOK, TableOK
<1>4. CASE ConfirmNo
  <2>1. proc' \in Procs /\ CurIsTid'
    BY <1>4, <1>g DEF ConfirmNo, ProcPoints
  <2>2. owed' \in [Tid -> {"no", "due", "lost"}]
    BY <1>4, <1>t, DueAfter DEF ConfirmNo
  <2>3. abnormal' \in [Tid -> 0 .. MaxAbnormal]
    BY <1>4, <1>t, <1>c, CountTyped DEF ConfirmNo, TaskOK
  <2> QED
    BY <1>4, <2>1, <2>2, <2>3, <1>t DEF ConfirmNo, TaskOK, TableOK
<1>5. CASE Callback
  <2>1. proc' \in Procs /\ CurIsTid'
    BY <1>5, <1>g DEF Callback, ProcPoints
  <2>2. owed' \in [Tid -> {"no", "due", "lost"}]
    BY <1>5, <1>t, DueAfter DEF Callback
  <2> QED
    BY <1>5, <2>1, <2>2, <1>t DEF Callback, TaskOK, TableOK
<1>6. CASE RestoreRead
  <2>1. proc' \in Procs /\ proc'.cur = proc.cur
    BY <1>6, <1>t DEF RestoreRead, TaskOK, Procs, ProcPoints
  <2> QED
    BY <1>6, <2>1, <1>t, <1>c DEF RestoreRead, TaskOK, TableOK, CurIsTid
<1>7. CASE RestoreWrite
  <2>1. proc' \in Procs /\ proc'.cur = proc.cur
    BY <1>7, <1>t DEF RestoreWrite, TaskOK, Procs, ProcPoints
  <2>2. owed' \in [Tid -> {"no", "due", "lost"}]
    BY <1>7, <1>t, DueAfter DEF RestoreWrite
  <2> QED
    BY <1>7, <2>1, <2>2, <1>t, <1>p, <1>c DEF RestoreWrite, TaskOK, TableOK, CurIsTid
<1>8. CASE Finish
  <2>1. proc' \in Procs /\ proc'.pc \in {"top", "receive"}
    BY <1>8, IdleTyped DEF Finish, ProcIdle, Procs, ProcPoints
  <2>2. owed' \in [Tid -> {"no", "due", "lost"}]
    BY <1>8, <1>t, DueAfter DEF Finish
  <2>3. queue' \in Seq(Tid) /\ Len(queue') <= QueueLen
    BY <1>8, <1>t, IdsEmpty, TimerLimits DEF Finish, AfterProcess, TaskOK
  <2>4. entry' \in [Tid -> Entries]
    BY <1>8, <1>t, EntryTyped DEF Finish, AfterShot, TableOK
  <2> QED
    BY <1>8, <2>1, <2>2, <2>3, <2>4, <1>t DEF Finish, TaskOK, TableOK, CurIsTid
<1> QED
  BY <1>1, <1>2, <1>3, <1>4, <1>5, <1>6, <1>7, <1>8

\* A call that begins, goes on or ends keeps the callers' records typed.
LEMMA EnterTyped ==
    ASSUME TableOK, NEW c \in Caller, NEW pc \in CallPoints, NEW op \in Ops,
           NEW e \in Entries, NEW t \in Tid \cup {NoTid}, NEW S, S \subseteq Tid,
           Idle(c, op), Enter(c, pc, op, e, t, S)
    PROVE  call' \in [Caller -> Frames]
<1>1. call[c].left - 1 \in 0 .. MaxCalls
  BY TimerLimits DEF TableOK, Frames, Idle
<1>2. [pc |-> pc, op |-> op, e |-> e, tid |-> t, todo |-> S,
       left |-> call[c].left - 1] \in Frames
  BY <1>1 DEF Frames
<1> QED
  BY <1>2 DEF TableOK, Enter

LEMMA CallGoTyped ==
    ASSUME TableOK, NEW c \in Caller, NEW pc \in CallPoints, CallGo(c, pc)
    PROVE  call' \in [Caller -> Frames]
  BY DEF TableOK, Frames, CallGo

LEMMA ReturnTyped ==
    ASSUME TableOK, NEW c \in Caller, Return(c)
    PROVE  call' \in [Caller -> Frames]
<1>1. CallIdle(call[c].left) \in Frames
  BY IdleTyped DEF TableOK, Frames
<1> QED
  BY <1>1 DEF TableOK, Return

\* The beginning of a call keeps the types.
LEMMA TypeBegin ==
    ASSUME TInv, NEW c \in Caller, CallBegin(c)
    PROVE  TaskOK' /\ TableOK' /\ CurIsTid'
<1>t. TaskOK /\ TableOK /\ CurIsTid
  BY DEF TInv
<1>1. ASSUME NEW m \in Module, NEW n \in Timer, NEW p \in BOOLEAN,
             CreateFind(c, m, n, p)
      PROVE  TaskOK' /\ TableOK' /\ CurIsTid'
  <2> DEFINE e == Entry(m, n, TRUE, p)
  <2>1. Idle(c, "create") /\ "create" \in Ops
        /\ Enter(c, "start", "create", e, NoTid, {})
    BY <1>1 DEF CreateFind, Idle
  <2>2. e \in Entries /\ "start" \in CallPoints
    BY EntryTyped DEF CallPoints
  <2> HIDE DEF e
  <2>3. call[c].left - 1 \in 0 .. MaxCalls
    BY <2>1, <1>t, TimerLimits DEF TableOK, Frames, Idle
  <2>4. call' \in [Caller -> Frames]
    BY <2>1, <2>2, <2>3, <1>t DEF Enter, Frames, TableOK
  <2> QED
    BY <1>1, <2>4, <1>t DEF CreateFind, TaskOK, TableOK, CurIsTid
<1>2. ASSUME NEW r \in Registered, NEW p \in BOOLEAN,
             rtc_register_timer(c, r[1], r[2], p)
      PROVE  TaskOK' /\ TableOK' /\ CurIsTid'
  <2>1. r[1] \in Module \cup {NoName} /\ r[2] \in Tid
    BY TimerLimits
  <2>2. Idle(c, "register") /\ "register" \in Ops
        /\ Enter(c, "restart", "register", Erased, r[2], {})
    BY <1>2 DEF rtc_register_timer, Idle
  <2>3. call' \in [Caller -> Frames]
    BY <2>1, <2>2, <1>t, EnterTyped, EntryTyped DEF CallPoints
  <2>4. Entry(r[1], NoName, TRUE, p) \in Entries
    BY <2>1, EntryTyped
  <2>5. entry' \in [Tid -> Entries]
    BY <1>2, <2>1, <2>4, <1>t DEF rtc_register_timer, TableOK
  <2>6. owed' \in [Tid -> {"no", "due", "lost"}]
    BY <1>2, <1>t, DueAfter DEF rtc_register_timer
  <2> QED
    BY <1>2, <2>3, <2>5, <2>6, <1>t DEF rtc_register_timer, TaskOK, TableOK, CurIsTid
<1>3. ASSUME NEW m \in Module, NEW n \in Timer, NEW op \in {"delete", "change"},
             Find(c, op, m, n)
      PROVE  TaskOK' /\ TableOK' /\ CurIsTid'
  <2> DEFINE found == dpm_timer_find_timer_id(m, n)
             pc == IF op = "delete" THEN "erase" ELSE "change"
             e == Entry(m, n, FALSE, FALSE)
  <2>1. Lowest(found) \in Tid
    BY <1>3, LowestIn DEF Find, dpm_timer_find_timer_id
  <2>2. Idle(c, op) /\ op \in Ops
        /\ Enter(c, pc, op, e, Lowest(found), {})
    BY <1>3 DEF Find, Idle
  <2>3. e \in Entries /\ pc \in CallPoints
    BY EntryTyped DEF CallPoints
  <2> HIDE DEF found, pc, e
  <2>4. call' \in [Caller -> Frames]
    BY <2>1, <2>2, <2>3, <1>t, EnterTyped
  <2> QED
    BY <1>3, <2>4, <1>t DEF Find, TaskOK, TableOK, CurIsTid
<1>4. ASSUME NEW t \in Tid, rtc_cancel_timer(c, t)
      PROVE  TaskOK' /\ TableOK' /\ CurIsTid'
  <2>1. call[c].left - 1 \in 0 .. MaxCalls
    BY <1>4, <1>t, TimerLimits DEF rtc_cancel_timer, TableOK, Frames, Idle
  <2>2. call' = [call EXCEPT ![c].left = @ - 1]
    BY <1>4 DEF rtc_cancel_timer
  <2>3. call' \in [Caller -> Frames]
    BY <2>1, <2>2, <1>t DEF TableOK, Frames
  <2> QED
    BY <1>4, <2>3, <1>t DEF rtc_cancel_timer, TaskOK, TableOK, CurIsTid
<1>5. ASSUME NEW l \in {"all1", "all2"}, DeleteAll(c, l)
      PROVE  TaskOK' /\ TableOK' /\ CurIsTid'
  <2>1. Idle(c, l) /\ l \in Ops
        /\ Enter(c, "all", l, Erased, NoTid, Tid \ (Fixed \cup Limited))
    BY <1>5 DEF DeleteAll, Idle
  <2>2. call' \in [Caller -> Frames]
    BY <2>1, <1>t, EnterTyped, EntryTyped DEF CallPoints
  <2> QED
    BY <1>5, <2>2, <1>t DEF DeleteAll, TaskOK, TableOK, CurIsTid
<1> QED
  BY <1>1, <1>2, <1>3, <1>4, <1>5 DEF CallBegin

\* The further steps of a call keep the types.
LEMMA TypeStep ==
    ASSUME TInv, NEW c \in Caller, CallStep(c)
    PROVE  TaskOK' /\ TableOK' /\ CurIsTid'
<1>t. TaskOK /\ TableOK /\ CurIsTid
  BY DEF TInv
<1>c. /\ call[c] \in Frames /\ call[c].e \in Entries
      /\ call[c].tid \in Tid \cup {NoTid} /\ call[c].todo \subseteq Tid
  BY <1>t DEF TableOK, Frames
<1>1. ASSUME NEW t \in Tid \ Fixed, CreateStart(c, t)
      PROVE  TaskOK' /\ TableOK' /\ CurIsTid'
  <2>1. call' = [call EXCEPT ![c].pc = "write", ![c].tid = t]
    BY <1>1 DEF CreateStart
  <2>2. [call[c] EXCEPT !.pc = "write", !.tid = t] \in Frames
    BY <1>c DEF Frames, CallPoints
  <2>4. call' = [call EXCEPT ![c] = [call[c] EXCEPT !.pc = "write", !.tid = t]]
    BY <2>1, <1>t DEF TableOK
  <2>5. call' \in [Caller -> Frames]
    BY <2>2, <2>4, <1>t DEF TableOK
  <2>3. owed' \in [Tid -> {"no", "due", "lost"}]
    BY <1>1, <1>t, DueAfter DEF CreateStart
  <2> QED
    BY <1>1, <2>3, <2>5, <1>t DEF CreateStart, TaskOK, TableOK, CurIsTid
<1>2. CASE CreateFailed(c)
  <2>1. call' \in [Caller -> Frames]
    BY <1>2, <1>t, ReturnTyped DEF CreateFailed
  <2> QED
    BY <1>2, <2>1, <1>t DEF CreateFailed, TaskOK, TableOK, CurIsTid
<1>3. CASE CreateWrite(c)
  <2>1. call' \in [Caller -> Frames]
    BY <1>3, <1>t, ReturnTyped DEF CreateWrite
  <2>2. entry' \in [Tid -> Entries]
    BY <1>3, <1>t, <1>c DEF CreateWrite, TableOK
  <2> QED
    BY <1>3, <2>1, <2>2, <1>t DEF CreateWrite, TaskOK, TableOK, CurIsTid
<1>4. CASE RtcStart(c)
  <2>1. call' \in [Caller -> Frames]
    BY <1>4, <1>t, ReturnTyped DEF RtcStart
  <2> QED
    BY <1>4, <2>1, <1>t DEF RtcStart, TaskOK, TableOK, CurIsTid
<1>5. CASE DeleteErase(c)
  <2>1. call' \in [Caller -> Frames]
    BY <1>5, <1>t, CallGoTyped DEF DeleteErase, CallPoints
  <2>2. entry' \in [Tid -> Entries]
    BY <1>5, <1>t, EntryTyped DEF DeleteErase, TableOK
  <2>3. owed' \in [Tid -> {"no", "due", "lost"}]
    BY <1>5, <1>t, DueAfter DEF DeleteErase
  <2> QED
    BY <1>5, <2>1, <2>2, <2>3, <1>t DEF DeleteErase, TaskOK, TableOK, CurIsTid
<1>6. CASE DeleteKill(c)
  <2>1. call' \in [Caller -> Frames]
    BY <1>6, <1>t, ReturnTyped DEF DeleteKill
  <2> QED
    BY <1>6, <2>1, <1>t DEF DeleteKill, TaskOK, TableOK, CurIsTid
<1>7. CASE ChangeWrite(c)
  <2>1. call' \in [Caller -> Frames]
    BY <1>7, <1>t, CallGoTyped DEF ChangeWrite, CallPoints
  <2>2. entry' \in [Tid -> Entries]
    BY <1>7, <1>t DEF ChangeWrite, TableOK, Entries
  <2> QED
    BY <1>7, <2>1, <2>2, <1>t DEF ChangeWrite, TaskOK, TableOK, CurIsTid
<1>8. CASE DeleteNext(c)
  <2> DEFINE t == Lowest(call[c].todo)
  <2>1. t \in Tid
    BY <1>8, <1>c, LowestIn DEF DeleteNext
  <2>2. call' = [call EXCEPT ![c].todo = @ \ {t}]
    BY <1>8 DEF DeleteNext
  <2>3. call' \in [Caller -> Frames]
    BY <2>2, <1>t DEF TableOK, Frames
  <2>4. entry' \in [Tid -> Entries]
    BY <1>8, <1>t, EntryTyped DEF DeleteNext, TableOK
  <2>5. owed' \in [Tid -> {"no", "due", "lost"}]
    <3>1. Settled({t}) \/ owed' = owed
      BY <1>8 DEF DeleteNext
    <3> QED
      BY <3>1, <1>t, DueAfter DEF TaskOK
  <2> QED
    BY <1>8, <2>3, <2>4, <2>5, <1>t DEF DeleteNext, TaskOK, TableOK, CurIsTid
<1>9. CASE DeletedAll(c)
  <2>1. call' \in [Caller -> Frames]
    BY <1>9, <1>t, ReturnTyped DEF DeletedAll
  <2> QED
    BY <1>9, <2>1, <1>t DEF DeletedAll, TaskOK, TableOK, CurIsTid
<1> QED
  BY <1>1, <1>2, <1>3, <1>4, <1>5, <1>6, <1>7, <1>8, <1>9 DEF CallStep

\* The interrupt, a module that gets ready and the daemon keep the types.
LEMMA TypeRest ==
    ASSUME TInv, \/ \E t \in Tid : rtc_timeout_cb(t)
                 \/ \E m \in Module : set_dpm_init_done(m)
                 \/ OtherStore \/ DaemonDecide \/ DaemonRun \/ DaemonBack
    PROVE  TaskOK' /\ TableOK' /\ CurIsTid'
<1>t. TaskOK /\ TableOK /\ CurIsTid
  BY DEF TInv
<1>1. ASSUME NEW t \in Tid, rtc_timeout_cb(t)
      PROVE  TaskOK' /\ TableOK' /\ CurIsTid'
  BY <1>1, <1>t DEF rtc_timeout_cb, TaskOK, TableOK, CurIsTid
<1>2. ASSUME NEW m \in Module, set_dpm_init_done(m)
      PROVE  TaskOK' /\ TableOK' /\ CurIsTid'
  BY <1>2, <1>t DEF set_dpm_init_done, TaskOK, TableOK, CurIsTid
<1>3. CASE OtherStore \/ DaemonDecide \/ DaemonRun \/ DaemonBack
  BY <1>3, <1>t DEF OtherStore, DaemonDecide, DaemonRun, DaemonBack, TaskOK,
                    TableOK, CurIsTid
<1> QED
  BY <1>1, <1>2, <1>3

\* The power-down and a fault give a boot's values.
LEMMA TypeBoot ==
    ASSUME TInv, PowerDown \/ NullCallback
    PROVE  TaskOK' /\ TableOK' /\ CurIsTid'
<1>t. TaskOK /\ TableOK /\ CurIsTid
  BY DEF TInv
<1>b. Booted
  BY DEF PowerDown, NullCallback
<1>1. call' \in [Caller -> Frames]
  <2>1. ASSUME NEW c \in Caller PROVE CallIdle(call[c].left) \in Frames
    BY <1>t, IdleTyped DEF TableOK, Frames
  <2> QED
    BY <1>b, <2>1 DEF Booted
<1>2. proc' \in Procs /\ proc'.pc = "top"
  BY <1>b, IdleTyped DEF Booted, ProcIdle
<1>3. /\ queue' \in Seq(Tid) /\ Len(queue') <= QueueLen
      /\ abnormal' \in [Tid -> 0 .. MaxAbnormal]
      /\ mutex' \in Caller \cup {Nobody} /\ pdown' \in {"wait", "decided", "run"}
  BY <1>b, IdsEmpty, TimerLimits DEF Booted
<1>4. CASE PowerDown
  <2>1. owed' \in [Tid -> {"no", "due", "lost"}]
    BY <1>4, <1>t, DueAfter DEF PowerDown
  <2> QED
    BY <1>4, <2>1, <1>1, <1>2, <1>3, <1>t DEF PowerDown, TaskOK, TableOK, CurIsTid
<1>5. CASE NullCallback
  <2>1. owed' \in [Tid -> {"no", "due", "lost"}] /\ timeout_tid' \subseteq Tid
    BY <1>5 DEF NullCallback
  <2>2. entry' \in [Tid -> Entries]
    BY <1>5, EntryTyped DEF NullCallback
  <2> QED
    BY <2>1, <2>2, <1>1, <1>2, <1>3 DEF TaskOK, TableOK, CurIsTid
<1> QED
  BY <1>4, <1>5

\* A function that is changed at one place keeps its Boolean values.
LEMMA FlagsExcept ==
    ASSUME NEW D, NEW f \in [D -> BOOLEAN], NEW d, NEW b \in BOOLEAN
    PROVE  [f EXCEPT ![d] = b] \in [D -> BOOLEAN]
  BY Zenon

\* Every step keeps the Boolean state typed.
LEMMA TypeFlags == ASSUME TInv, Next PROVE FlagOK'
<1>t. /\ rtc \in [Tid -> BOOLEAN] /\ init_done \in [Module -> BOOLEAN]
      /\ sleep_set \in BOOLEAN
  BY Zenon DEF TInv, FlagOK
<1> SUFFICES /\ rtc' \in [Tid -> BOOLEAN] /\ init_done' \in [Module -> BOOLEAN]
             /\ sleep_set' \in BOOLEAN
  BY Zenon DEF FlagOK
<1>1. ASSUME NEW t \in Tid, rtc_timeout_cb(t)
      PROVE  /\ rtc' \in [Tid -> BOOLEAN] /\ init_done' = init_done
             /\ sleep_set' = sleep_set
  BY <1>1, <1>t, Zenon DEF rtc_timeout_cb
<1>2. CASE \/ ReadTids \/ SkipTids \/ SendTid \/ ClearTid \/ ReceiveTid
           \/ CheckCallback \/ ConfirmYes \/ ConfirmNo \/ Callback
           \/ RestoreRead \/ RestoreWrite \/ Finish
  <2>1. rtc' = rtc /\ init_done' = init_done /\ sleep_set' = sleep_set
    BY <1>2, Zenon DEF ReadTids, SkipTids, SendTid, ClearTid, ReceiveTid,
                CheckCallback, ConfirmYes, ConfirmNo, Callback, RestoreRead,
                RestoreWrite, Finish
  <2> QED
    BY <2>1, <1>t, Zenon
<1>3. CASE AnnounceSleep
  <2>1. rtc' = rtc /\ init_done' = init_done /\ sleep_set' = (proc.todo = {})
    BY <1>3, Zenon DEF AnnounceSleep
  <2>2. (proc.todo = {}) \in BOOLEAN
    BY Zenon
  <2> QED
    BY <2>1, <2>2, <1>t, Zenon
<1>4. CASE Reschedule
  <2> DEFINE b == rtc[proc.cur] \/ entry[proc.cur].msec
  <2>1. /\ rtc' = [rtc EXCEPT ![proc.cur] = b] \/ rtc' = rtc
        /\ init_done' = init_done /\ sleep_set' = sleep_set
    BY <1>4, Zenon DEF Reschedule
  <2>2. b \in BOOLEAN
    OBVIOUS
  <2> HIDE DEF b
  <2> QED
    BY <2>1, <2>2, <1>t, FlagsExcept, Zenon
<1>5. CASE PowerDown \/ NullCallback
  <2>1. init_done' = [m \in Module |-> FALSE] /\ sleep_set' = FALSE
    BY <1>5, Zenon DEF PowerDown, NullCallback, Booted
  <2>2. rtc' = rtc \/ rtc' = [t \in Tid |-> FALSE]
    BY <1>5, Zenon DEF PowerDown, NullCallback
  <2> QED
    BY <2>1, <2>2, <1>t, Zenon
<1>6. CASE DaemonDecide \/ DaemonRun \/ DaemonBack
  <2>1. rtc' = rtc /\ init_done' = init_done /\ sleep_set' = sleep_set
    BY <1>6, Zenon DEF DaemonDecide, DaemonRun, DaemonBack
  <2> QED
    BY <2>1, <1>t, Zenon
<1>7. ASSUME NEW m \in Module, set_dpm_init_done(m)
      PROVE  rtc' = rtc /\ init_done' \in [Module -> BOOLEAN] /\ sleep_set' = sleep_set
  BY <1>7, <1>t, Zenon DEF set_dpm_init_done
<1>8. ASSUME NEW c \in Caller, CallBegin(c)
      PROVE  rtc' \in [Tid -> BOOLEAN] /\ init_done' = init_done
             /\ sleep_set' = sleep_set
  BY <1>8, <1>t, Zenon DEF CallBegin, CreateFind, rtc_register_timer, Find,
                           rtc_cancel_timer, DeleteAll
<1>9. ASSUME NEW c \in Caller, CallStep(c)
      PROVE  rtc' \in [Tid -> BOOLEAN] /\ init_done' = init_done
             /\ sleep_set' = sleep_set
  <2>1. CASE DeleteNext(c)
    <3> DEFINE t == Lowest(call[c].todo)
               b == rtc[t] /\ call[c].op = "all1"
    <3>1. /\ rtc' = rtc \/ rtc' = [rtc EXCEPT ![t] = b]
          /\ init_done' = init_done /\ sleep_set' = sleep_set
      BY <2>1, Zenon DEF DeleteNext
    <3>2. b \in BOOLEAN
      OBVIOUS
    <3> HIDE DEF b, t
    <3> QED
      BY <3>1, <3>2, <1>t, FlagsExcept, Zenon
  <2>2. CASE ~DeleteNext(c)
    BY <1>9, <2>2, <1>t, Zenon DEF CallStep, CreateStart, CreateFailed,
        CreateWrite, RtcStart, DeleteErase, DeleteKill, ChangeWrite, DeletedAll
  <2> QED
    BY <2>1, <2>2
<1>10. CASE OtherStore
  <2>1. rtc' = rtc /\ init_done' = init_done /\ sleep_set' = ~sleep_set
    BY <1>10, Zenon DEF OtherStore
  <2> QED
    BY <2>1, <1>t, Zenon
<1> QED
  BY <1>t, <1>1, <1>2, <1>3, <1>4, <1>5, <1>6, <1>7, <1>8, <1>9, <1>10, Zenon
     DEF Next, TimerTask, Daemon

\* The initial states have their types.
LEMMA TypeInit == Init => TInv
<1> SUFFICES ASSUME Init PROVE TInv
  OBVIOUS
<1>1. rtc \in [Tid -> BOOLEAN] /\ init_done \in [Module -> BOOLEAN]
      /\ sleep_set \in BOOLEAN
  BY Zenon DEF Init
<1>2. FlagOK
  BY <1>1, Zenon DEF FlagOK
<1>3. TableOK
  <2>1. MaxCalls \in 0 .. MaxCalls
    BY TimerLimits
  <2> QED
    BY <2>1, EntryTyped, IdleTyped DEF Init, TableOK
<1>4. TaskOK
  BY IdsEmpty, IdleTyped, TimerLimits DEF Init, TaskOK
<1>5. CurIsTid
  BY DEF Init, CurIsTid, ProcIdle
<1> QED
  BY <1>2, <1>3, <1>4, <1>5 DEF TInv

\* Every step keeps the types.
LEMMA TypeNext == TInv /\ [Next]_vars => TInv'
<1> SUFFICES ASSUME TInv, [Next]_vars PROVE TInv'
  OBVIOUS
<1>1. CASE Next
  <2>1. FlagOK'
    BY <1>1, TypeFlags
  <2>2. TaskOK' /\ TableOK' /\ CurIsTid'
    BY <1>1, TypeScan, TypeProcess, TypeBegin, TypeStep, TypeRest, TypeBoot
       DEF Next, TimerTask, Daemon
  <2> QED
    BY <2>1, <2>2 DEF TInv
<1>2. CASE UNCHANGED vars
  <2>1. FlagOK'
    BY <1>2, Zenon DEF TInv, FlagOK, vars, timerVars
  <2>2. TaskOK' /\ TableOK' /\ CurIsTid'
    BY <1>2 DEF TInv, TaskOK, TableOK, CurIsTid, vars, timerVars
  <2> QED
    BY <2>1, <2>2 DEF TInv
<1> QED
  BY <1>1, <1>2

\* Every variable of the DPM timers keeps its type: the queue within its
\* length, the retries within their limit, and every identifier that
\* dpm_timer_task or a call carries along is one of the RTC's or none.
THEOREM TimerTypes == Spec => []TypeOK
<1>1. Spec => []TInv
  BY TypeInit, TypeNext, PTL DEF Spec
<1> QED
  BY <1>1, TInvTypes, PTL

-----------------------------------------------------------------------------
(* Where an expiry is whose callback is owed.                              *)

\* The identifier whose bit is about to be cleared is in the queue, and one
\* that is due again when its processing ends is noted elsewhere.
ClearQueued == At("clear") => proc.cur \in Queued
FinishNoted ==
    At("finish") /\ proc.cur \in Due => proc.cur \in timeout_tid \cup Queued

EInv == ExpiryKept /\ ClearQueued /\ FinishNoted

\* A step that makes nothing due and leaves the places alone keeps them.
LEMMA KeptByOthers ==
    ASSUME EInv, Due' \subseteq Due, proc' = proc, queue' = queue,
           timeout_tid' = timeout_tid
    PROVE  EInv'
  BY DEF EInv, ExpiryKept, ClearQueued, FinishNoted, Queued, Taken, InProcess, At

\* The calls owe nothing: they settle or lose what is due.
LEMMA CallsOweNothing ==
    ASSUME TInv, NEW c \in Caller, CallBegin(c) \/ CallStep(c)
    PROVE  /\ Due' \subseteq Due /\ proc' = proc /\ queue' = queue
           /\ timeout_tid' = timeout_tid
<1>t. TaskOK
  BY DEF TInv
<1>1. owed' = owed => Due' \subseteq Due
  BY DEF Due
<1>2. ASSUME NEW S, Lost(S) \/ Settled(S) PROVE Due' \subseteq Due
  BY <1>2, <1>t, DueAfter
<1>3. proc' = proc /\ queue' = queue /\ timeout_tid' = timeout_tid
  BY Zenon DEF CallBegin, CreateFind, rtc_register_timer, Find,
        rtc_cancel_timer, DeleteAll, CallStep, CreateStart, CreateFailed,
        CreateWrite, RtcStart, DeleteErase, DeleteKill, ChangeWrite,
        DeleteNext, DeletedAll
<1>4. CASE CallBegin(c)
  <2>1. owed' = owed \/ \E t \in Tid : Lost({t})
    <3>1. \A r \in Registered : r[2] \in Tid
      BY TimerLimits
    <3> QED
      BY <1>4, <3>1, Zenon DEF CallBegin, CreateFind, rtc_register_timer, Find,
         rtc_cancel_timer, DeleteAll
  <2>2. ASSUME NEW t \in Tid, Lost({t}) PROVE Due' \subseteq Due
    BY <2>2, <1>2
  <2> QED
    BY <2>1, <2>2, <1>1, <1>3, Zenon
<1>5. CASE CallStep(c)
  <2>1. owed' = owed \/ \E S : Lost(S) \/ Settled(S)
    BY <1>5, Zenon DEF CallStep, CreateStart, CreateFailed, CreateWrite,
       RtcStart, DeleteErase, DeleteKill, ChangeWrite, DeleteNext, DeletedAll
  <2> QED
    BY <2>1, <1>1, <1>3, <1>2, Zenon
<1> QED
  BY <1>3, <1>4, <1>5

\* The timer task moves an identifier from the word to its queue, from there
\* to its processing, and back to the word when the module is not ready.
LEMMA KeptByTask ==
    ASSUME TInv, EInv,
           \/ ReadTids \/ SkipTids \/ AnnounceSleep \/ SendTid \/ ClearTid
           \/ ReceiveTid
    PROVE  EInv'
<1>t. TaskOK /\ proc \in Procs /\ proc.cur \in Tid \cup {NoTid}
      /\ queue \in Seq(Tid) /\ proc.todo \subseteq Tid
  BY DEF TInv, TaskOK, Procs
<1>e. ExpiryKept /\ ClearQueued
  BY DEF EInv
<1>s. CASE ReadTids \/ SkipTids \/ AnnounceSleep
  <2>1. /\ proc.pc \in {"top", "flag"} /\ proc'.pc \in {"flag", "top", "send"}
        /\ UNCHANGED <<queue, owed, timeout_tid>>
    <3>1. CASE ReadTids \/ SkipTids
      BY <3>1, <1>t DEF ReadTids, SkipTids, At, Go, Procs
    <3>2. CASE AnnounceSleep
      BY <3>2, <1>t DEF AnnounceSleep, At, Go, Procs
    <3> QED
      BY <1>s, <3>1, <3>2
  <2> QED
    BY <2>1, <1>e DEF EInv, ExpiryKept, ClearQueued, FinishNoted, Due, Queued,
                      Taken, InProcess, At
<1>1. CASE SendTid
  <2> DEFINE t == Lowest(proc.todo)
  <2>1. t \in Tid /\ proc.pc = "send" /\ UNCHANGED <<owed, timeout_tid>>
    BY <1>1, <1>t, LowestIn DEF SendTid, At
  <2>2. CASE Len(queue) < QueueLen
    <3>1. queue' = Append(queue, t)
          /\ proc' = [proc EXCEPT !.pc = "clear", !.cur = t, !.word = timeout_tid]
      BY <1>1, <2>2 DEF SendTid
    <3>2. Queued' = Queued \cup {t}
      BY <3>1, <2>1, <1>t, IdsAppend DEF Queued
    <3>3. proc'.pc = "clear" /\ proc'.cur = t
      BY <3>1, <1>t DEF Procs
    <3> HIDE DEF t
    <3> QED
      BY <2>1, <3>2, <3>3, <1>e DEF EInv, ExpiryKept, ClearQueued, FinishNoted,
                                    Due, Taken, InProcess, At
  <2>3. CASE ~(Len(queue) < QueueLen)
    <3>1. queue' = queue /\ proc'.pc = "send"
      BY <1>1, <2>1, <2>3, <1>t DEF SendTid, Procs
    <3> QED
      BY <2>1, <3>1, <1>e DEF EInv, ExpiryKept, ClearQueued, FinishNoted,
                              Due, Taken, InProcess, At, Queued
  <2> QED
    BY <2>2, <2>3
<1>2. CASE ClearTid
  <2>1. /\ proc.pc = "clear" /\ proc'.pc = "send" /\ queue' = queue
        /\ timeout_tid' = proc.word \ {proc.cur}
    BY <1>2 DEF ClearTid, At, ClearedWord, ProcIdle
  <2>2. Due' = Due \ ((timeout_tid \ proc.word) \ Queued)
    BY <1>2, <1>t, DueAfter DEF ClearTid, Overwritten
  <2> QED
    BY <2>1, <2>2, <1>e DEF EInv, ExpiryKept, ClearQueued, FinishNoted, Queued,
                            Taken, InProcess, At
<1>3. CASE ReceiveTid
  <2>1. /\ proc.pc \in {"receive", "send"} /\ UNCHANGED <<owed, timeout_tid>>
    BY <1>3 DEF ReceiveTid, At
  <2>2. CASE queue = <<>>
    <3>1. queue' = queue /\ proc' = ProcIdle
      BY <1>3, <2>2 DEF ReceiveTid
    <3> QED
      BY <2>1, <3>1, <1>e DEF EInv, ExpiryKept, ClearQueued, FinishNoted,
                              Due, Taken, InProcess, At, Queued, ProcIdle
  <2>3. CASE queue # <<>>
    <3>1. proc' = [ProcIdle EXCEPT !.pc = "reschedule", !.cur = Head(queue)]
          /\ queue' = Tail(queue)
      BY <1>3, <2>3 DEF ReceiveTid
    <3>2. Queued = {proc'.cur} \cup Queued' /\ proc'.pc = "reschedule"
      BY <3>1, <2>3, <1>t, IdsTail DEF Queued, ProcIdle
    <3> QED
      BY <2>1, <3>2, <1>e DEF EInv, ExpiryKept, ClearQueued, FinishNoted, Due,
                              Taken, InProcess, At
  <2> QED
    BY <2>2, <2>3
<1> QED
  BY <1>s, <1>1, <1>2, <1>3

\* dpm_timer_process calls the callback, gives it up after the last retry, or
\* puts the identifier back into the word.
LEMMA KeptByProcess ==
    ASSUME TInv, EInv,
           \/ Reschedule \/ CheckCallback \/ ConfirmYes \/ ConfirmNo
           \/ Callback \/ RestoreRead \/ RestoreWrite \/ Finish
    PROVE  EInv'
<1>t. TaskOK /\ proc \in Procs
  BY DEF TInv, TaskOK
<1>e. ExpiryKept /\ FinishNoted
  BY DEF EInv
<1>g. ASSUME NEW p, Go(p), p \in {"check", "confirm", "callback", "restore", "finish"}
      PROVE  proc'.pc = p /\ proc'.cur = proc.cur
  BY <1>g, <1>t DEF Go, Procs
<1> USE DEF EInv, ExpiryKept, ClearQueued, FinishNoted, Queued, Taken, InProcess, At
<1>1. CASE Reschedule
  <2>1. /\ proc'.pc = "check" /\ proc'.cur = proc.cur
        /\ UNCHANGED <<queue, timeout_tid, owed>>
    BY <1>1, <1>g DEF Reschedule
  <2> QED
    BY <2>1, <1>1, <1>e DEF Reschedule, Due
<1>2. CASE CheckCallback
  <2> DEFINE p == IF ~entry[proc.cur].callback THEN "finish"
                  ELSE IF entry[proc.cur].task = NoName THEN "callback"
                  ELSE "confirm"
  <2>1. /\ Go(p) /\ Lost(IF entry[proc.cur].callback THEN {} ELSE {proc.cur})
        /\ UNCHANGED <<queue, timeout_tid>> /\ proc.pc = "check"
    BY <1>2 DEF CheckCallback
  <2>2. proc'.pc = p /\ proc'.cur = proc.cur
    BY <2>1, <1>g
  <2>3. Due' = Due \ (IF entry[proc.cur].callback THEN {} ELSE {proc.cur})
    BY <2>1, <1>t, DueAfter
  <2> QED
    BY <2>1, <2>2, <2>3, <1>e
<1>3. CASE ConfirmYes
  <2>1. /\ proc'.pc = "callback" /\ proc'.cur = proc.cur
        /\ UNCHANGED <<queue, timeout_tid, owed>>
    BY <1>3, <1>g DEF ConfirmYes
  <2> QED
    BY <2>1, <1>3, <1>e DEF ConfirmYes, Due
<1>4. CASE ConfirmNo
  <2> DEFINE n == AbnormalCount(abnormal[proc.cur])
             p == IF n = 0 THEN "finish" ELSE "restore"
  <2>1. /\ Go(p) /\ Settled(IF n = 0 THEN {proc.cur} ELSE {})
        /\ UNCHANGED <<queue, timeout_tid>> /\ proc.pc = "confirm"
    BY <1>4 DEF ConfirmNo
  <2>2. proc'.pc = p /\ proc'.cur = proc.cur
    BY <2>1, <1>g
  <2>3. Due' = Due \ (IF n = 0 THEN {proc.cur} ELSE {})
    BY <2>1, <1>t, DueAfter
  <2> HIDE DEF n
  <2> QED
    BY <2>1, <2>2, <2>3, <1>e
<1>5. CASE Callback
  <2>1. /\ proc'.pc = "finish" /\ proc'.cur = proc.cur
        /\ UNCHANGED <<queue, timeout_tid>> /\ proc.pc = "callback"
    BY <1>5, <1>g DEF Callback
  <2>2. Due' = Due \ {proc.cur}
    BY <1>5, <1>t, DueAfter DEF Callback
  <2> QED
    BY <2>1, <2>2, <1>e
<1>6. CASE RestoreRead
  <2>1. /\ proc'.pc = "store" /\ proc'.cur = proc.cur /\ proc.pc = "restore"
        /\ UNCHANGED <<queue, timeout_tid, owed>>
    BY <1>6, <1>t DEF RestoreRead, Procs
  <2> QED
    BY <2>1, <1>e DEF Due
<1>7. CASE RestoreWrite
  <2>1. /\ proc'.pc = "finish" /\ proc'.cur = proc.cur /\ proc.pc = "store"
        /\ queue' = queue /\ timeout_tid' = proc.word \cup {proc.cur}
    BY <1>7, <1>t DEF RestoreWrite, Procs
  <2>2. Due' = Due \ ((timeout_tid \ proc.word) \ (Queued \cup {proc.cur}))
    BY <1>7, <1>t, DueAfter DEF RestoreWrite, Overwritten
  <2> QED
    BY <2>1, <2>2, <1>e
<1>8. CASE Finish
  <2> DEFINE shot == IF entry[proc.cur].msec THEN {} ELSE {proc.cur}
  <2>1. /\ proc.pc = "finish" /\ timeout_tid' = timeout_tid
        /\ Lost((Queued \ Ids(queue')) \cup shot)
    BY <1>8 DEF Finish
  <2>2. proc'.pc \in {"top", "receive"}
    BY <1>8 DEF Finish, ProcIdle
  <2>3. Due' = Due \ ((Queued \ Ids(queue')) \cup shot)
    BY <2>1, <1>t, DueAfter
  <2> HIDE DEF shot
  <2> QED
    BY <2>1, <2>2, <2>3, <1>e
<1> QED
  BY <1>1, <1>2, <1>3, <1>4, <1>5, <1>6, <1>7, <1>8

\* Every step keeps what is owed.
LEMMA KeptNext == TInv /\ EInv /\ [Next]_vars => EInv'
<1> SUFFICES ASSUME TInv, EInv, [Next]_vars PROVE EInv'
  OBVIOUS
<1>t. TaskOK
  BY DEF TInv
<1>1. ASSUME NEW t \in Tid, rtc_timeout_cb(t) PROVE EInv'
  <2>1. Due' \subseteq Due \cup {t}
    BY <1>1, <1>t DEF rtc_timeout_cb, Due, TaskOK
  <2>2. timeout_tid' = timeout_tid \cup {t} /\ UNCHANGED <<queue, proc>>
    BY <1>1 DEF rtc_timeout_cb
  <2> QED
    BY <2>1, <2>2 DEF EInv, ExpiryKept, ClearQueued, FinishNoted, Queued,
                      Taken, InProcess, At
<1>2. CASE \/ \E m \in Module : set_dpm_init_done(m)
           \/ OtherStore \/ DaemonDecide \/ DaemonRun \/ DaemonBack
           \/ UNCHANGED vars
  <2>1. owed' = owed /\ proc' = proc /\ queue' = queue
        /\ timeout_tid' = timeout_tid
    BY <1>2 DEF set_dpm_init_done, OtherStore, DaemonDecide, DaemonRun,
                DaemonBack, vars, timerVars
  <2> QED
    BY <2>1, KeptByOthers DEF Due
<1>3. ASSUME NEW c \in Caller, CallBegin(c) \/ CallStep(c) PROVE EInv'
  BY <1>3, CallsOweNothing, KeptByOthers
<1>4. CASE PowerDown
  <2>1. Due' = Due \ (Taken \ timeout_tid) /\ timeout_tid' = timeout_tid
    BY <1>4, <1>t, DueAfter DEF PowerDown
  <2>2. Due' \subseteq timeout_tid'
    BY <2>1 DEF EInv, ExpiryKept
  <2>3. proc'.pc = "top"
    BY <1>4 DEF PowerDown, Booted, ProcIdle
  <2> QED
    BY <2>2, <2>3 DEF EInv, ExpiryKept, ClearQueued, FinishNoted, At
<1>5. CASE NullCallback
  <2>1. Due' = {}
    BY <1>5 DEF NullCallback, Due
  <2>2. proc'.pc = "top"
    BY <1>5 DEF NullCallback, Booted, ProcIdle
  <2> QED
    BY <2>1, <2>2 DEF EInv, ExpiryKept, ClearQueued, FinishNoted, At
<1> QED
  BY <1>1, <1>2, <1>3, <1>4, <1>5, KeptByTask, KeptByProcess
     DEF Next, TimerTask, Daemon

\* An expired identifier whose callback is owed is in dpm_rtc_timeout_tid, in
\* dpm_timer_queue or in dpm_timer_process, whatever the interrupt and the
\* calls do meanwhile, unless it fell into one of the gaps that ExpiryKept
\* names.  A power-down loses at most what dpm_timer_task had taken out of
\* dpm_rtc_timeout_tid: whatever else is owed is in the word it retains.
THEOREM ExpiriesKept == Spec => []ExpiryKept
<1>1. Init => EInv
  BY DEF Init, EInv, ExpiryKept, ClearQueued, FinishNoted, At, Due, ProcIdle
<1>2. EInv => ExpiryKept
  BY DEF EInv
<1> QED
  BY <1>1, <1>2, KeptNext, TypeInit, TypeNext, PTL DEF Spec
=============================================================================
