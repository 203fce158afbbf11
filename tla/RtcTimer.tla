------------------------------ MODULE RtcTimer ------------------------------
(***************************************************************************)
(* The RTC timers (core/system/src/ramlib/da16200_timer.c): a list of      *)
(* timers in retention memory in the order in which they expire, each with *)
(* the time after the one before it, over one hardware counter (MCNT).     *)
(* The first timer of the list also ends a power-down; the scheduler then  *)
(* calls its callback and subtracts the time the boot took.                *)
(*                                                                         *)
(* Times are in microseconds and the hardware counts RTC clocks of Num/Den *)
(* microseconds.  Time passes in Tick, one clock a step; the interrupt     *)
(* takes up to MaxIsr clocks, for its callbacks print.                     *)
(*                                                                         *)
(* A call of a task is one step, but not all of its steps are safe from    *)
(* the interrupt, and some ways through the code leave the list or its     *)
(* times spoilt.  Those are the actions under Spoils: power becomes        *)
(* "lost", and the model does not follow the timers any further than that. *)
(* Calls of several tasks are not interleaved with each other.             *)
(***************************************************************************)
EXTENDS Integers, FiniteSets

CONSTANTS
    Id,             \* DA16X_TIMER_ID, but for the two that are never used
    NoId,           \* TIMER_ERR
    Times,          \* the times that are set
    Num, Den,       \* a clock takes Num/Den microseconds (15625/512)
    Slice,          \* MINIMUM_TIME_SLICE
    MinSleep,       \* the shortest sleep (1000)
    MaxIsr,         \* bound: the clocks the interrupt takes
    MaxBoot         \* bound: the clocks a boot takes

ASSUME RtcLimits ==
    /\ Id \subseteq Nat /\ IsFiniteSet(Id) /\ NoId \notin Id
    /\ Times \subseteq Nat
    /\ Num \in Nat \ {0} /\ Den \in Nat \ {0}
    /\ {Slice, MinSleep, MaxIsr, MaxBoot} \subseteq Nat

VARIABLES
    using, next, time,  \* gtimer
    cur,                \* gCurIdx
    hTimer,             \* the counter was created in this boot
    mcnt,               \* external: the clocks left to MCNT, or Stopped
    power,              \* "on", "sleep", "boot" before the scheduler, "tim",
                        \* "lost"
    source,             \* external: what ended the sleep, or "none"
    target,             \* external: the clocks to the end of the sleep
    wakeup_id,          \* external: the timer that ends the sleep
    boot_tim,           \* BOOT_TIM
    called              \* the timers whose callback this step called

list == <<using, next, time, cur>>
vars == <<using, next, time, cur, hTimer, mcnt, power, source, target,
          wakeup_id, boot_tim, called>>

Stopped == -1
Beacon == Id \cap {0, 1}

US2CLK(us) == (us * Den) \div Num
CLK2US(clk) == (clk * Num) \div Den

Nothing ==
    /\ using = [i \in Id |-> FALSE] /\ next = [i \in Id |-> NoId]
    /\ time = [i \in Id |-> 0] /\ cur = NoId

Init ==
    /\ Nothing
    /\ hTimer = FALSE /\ mcnt = Stopped
    /\ power = "on" /\ source = "none"
    /\ target = 0 /\ wakeup_id = NoId /\ boot_tim = FALSE
    /\ called = {}

-----------------------------------------------------------------------------
After(nx, i) == IF i = NoId THEN NoId ELSE nx[i]

\* The k-th timer of the list from c on, in the pointers nx.
Chain(nx, c) ==
    LET f[k \in 0 .. Cardinality(Id)] == IF k = 0 THEN c ELSE After(nx, f[k - 1])
    IN  f

\* The time from the k-th timer's predecessor on.
Rest(f, tm, t, k) ==
    LET r[j \in 0 .. k] == IF j = 0 THEN t ELSE r[j - 1] - tm[f[j - 1]] IN r[k]

First(P(_)) == CHOOSE k \in 0 .. Cardinality(Id) :
                 P(k) /\ \A j \in 0 .. k - 1 : ~P(j)

\* A timer list as the functions below pass it on.
L(us, nx, tm, c) == [using |-> us, next |-> nx, time |-> tm, cur |-> c]

\* Fault: the new timer's pointer is not set.
LinkedNot(nx, i, n) == nx

\* n comes after i.
Linked(nx, i, n) == [nx EXCEPT ![i] = n]

\* time_sorting(l.cur, i): the new timer goes before the first one that is
\* later, or behind one at the same time, or to the end.
time_sorting(l, i) ==
    LET f == Chain(l.next, l.cur)
        rest(k) == Rest(f, l.time, l.time[i], k)
        Stop(k) == \/ ~l.using[f[k]] \/ l.next[f[k]] = NoId
                   \/ l.time[f[k]] >= rest(k)
        p == First(Stop)
        at == f[p]
        later == l.time[at] > rest(p)
        same == l.time[at] = rest(p)
    IN  IF ~l.using[at]
        THEN [l EXCEPT !.cur = IF l.time[@] > rest(p) THEN i ELSE @,
                       !.time[i] = rest(p)]
        ELSE IF later
        THEN [l EXCEPT !.time[at] = @ - rest(p), !.time[i] = rest(p),
                       !.next = Linked(IF p = 0 THEN l.next
                                       ELSE [l.next EXCEPT ![f[p - 1]] = i], i, at),
                       !.cur = IF p = 0 THEN i ELSE @]
        ELSE [l EXCEPT !.time[i] = IF same THEN 0 ELSE rest(p) - l.time[at],
                       !.next = Linked([l.next EXCEPT ![at] = i], i, l.next[at])]

\* DA16200_TIMER_ALLOC
Alloc(i, t) ==
    L([using EXCEPT ![i] = TRUE], [next EXCEPT ![i] = NoId],
      [time EXCEPT ![i] = t], cur)

\* Fault: the counter is stopped and not read.
CountedNot(l) == l

\* The time that the counter had left is the first timer's.
Counted(l) ==
    IF l.cur # NoId /\ mcnt # Stopped
    THEN [l EXCEPT !.time[l.cur] = CLK2US(mcnt)] ELSE l

Insert(l, i) == IF l.cur = NoId THEN [l EXCEPT !.cur = i] ELSE time_sorting(l, i)

Update(l) ==
    using' = l.using /\ next' = l.next /\ time' = l.time /\ cur' = l.cur

-----------------------------------------------------------------------------
\* A counter at 0 interrupts a task before its call, or within it: Spoils.
Awake == power = "on" /\ mcnt # 0

DA16X_SET_TIMER(i, t) ==
    LET l == Insert(Counted(Alloc(i, t)), i)
    IN  /\ Awake /\ ~using[i]
        /\ Update(l)
        /\ hTimer' = TRUE
        /\ mcnt' = US2CLK(l.time[l.cur])
        /\ called' = {}
        /\ UNCHANGED <<power, source, target, wakeup_id, boot_tim>>

\* Fault: the timer's time is forgotten.
InheritNot(l, n, t) == l

\* The timer's time goes to the next one.
Inherit(l, n, t) == IF n = NoId THEN l ELSE [l EXCEPT !.time[n] = @ + t]

KillFirst(i) ==
    LET l == Inherit(L([using EXCEPT ![i] = FALSE], next, time, next[i]),
                     next[i], CLK2US(mcnt))
    IN  /\ Update(l)
        /\ mcnt' = IF l.cur = NoId THEN Stopped ELSE US2CLK(l.time[l.cur])

KillOther(i) ==
    LET before == CHOOSE j \in Id : using[j] /\ next[j] = i
    IN  /\ Update(Inherit(L([using EXCEPT ![i] = FALSE],
                            [next EXCEPT ![before] = next[i]], time, cur),
                          next[i], time[i]))
        /\ mcnt' = mcnt

\* The first timer's counter may also end, and interrupt, between the test of
\* gCurIdx (588) and MCNT_STOP, which then leaves no rest.
DA16X_KILL_TIMER(i) ==
    /\ power = "on" /\ (mcnt # 0 \/ cur = i)
    /\ using[i] /\ hTimer
    /\ IF cur = i THEN KillFirst(i) ELSE KillOther(i)
    /\ called' = {}
    /\ UNCHANGED <<hTimer, power, source, target, wakeup_id, boot_tim>>

-----------------------------------------------------------------------------
\* What a timer with the time t leaves of the gap for the timers behind it: a
\* rest shorter than a slice is dropped.
Leaves(gap, t) == IF gap - t < Slice THEN 0 ELSE gap - t

\* Fault: subtraction without a test.
LessAnyhow(t, gap) == t - gap

Less(t, gap) == IF t > gap THEN t - gap ELSE 0

\* The time gap is subtracted along the list from c on; a timer that is due
\* gets 0.
Deduct(l, c, gap) ==
    LET f == Chain(l.next, c)
        g[k \in 0 .. Cardinality(Id)] ==
          IF k = 0 THEN gap
          ELSE IF f[k - 1] = NoId THEN 0 ELSE Leaves(g[k - 1], l.time[f[k - 1]])
    IN  [l EXCEPT !.time =
           [i \in Id |-> IF \E k \in DOMAIN f : f[k] = i
                         THEN Less(@[i], g[CHOOSE k \in DOMAIN f : f[k] = i])
                         ELSE @[i]]]

Soon(t) == t <= Slice

\* DA16200_PROCESS_CALLBACK(i): the timers whose callback is called, and the
\* list after that.  gap is 0 unless time_gap is set.
ProcessCallback(l, i, gap) ==
    LET d == Deduct([l EXCEPT !.using[i] = FALSE, !.time[i] = 0], l.next[i], gap)
        f == Chain(d.next, d.next[i])
        Later(k) == f[k] = NoId \/ ~Soon(d.time[f[k]])
        p == First(Later)
        due == {f[k] : k \in 0 .. p - 1}
    IN  IF l.using[i]
        THEN [called |-> {i} \cup due,
              list |-> [d EXCEPT !.using = [j \in Id |-> @[j] /\ j \notin due],
                                 !.cur = f[p]]]
        ELSE [called |-> {}, list |-> [l EXCEPT !.cur = NoId]]

\* What rtc_mirror_hisr does to a list.
Expired(l) == ProcessCallback(l, cur, 0)

\* The interrupt took no longer than the timer n has left of its time.
Fits(l, n, d) == n # NoId => CLK2US(d) <= l.time[n]

\* rtc_mirror_hisr and DA16200_TIMER_CALLBACK, which take d clocks.
rtc_mirror_hisr(d) ==
    LET p == Expired(L(using, next, time, cur))
        n == p.list.cur
        t == p.list.time[n] - CLK2US(d)
    IN  /\ power = "on" /\ mcnt = 0 /\ Fits(p.list, n, d)
        /\ IF n = NoId
           THEN Update(p.list) /\ mcnt' = Stopped
           ELSE Update([p.list EXCEPT !.time[n] = t]) /\ mcnt' = US2CLK(t)
        /\ called' = p.called
        /\ UNCHANGED <<hTimer, power, source, target, wakeup_id, boot_tim>>

-----------------------------------------------------------------------------
Abs(n) == IF n < 0 THEN -n ELSE n

\* get_remain_counter: the clocks to the end of the sleep, or since then.
get_remain_counter == Abs(target)

\* In a TIM boot time_gap is set and the boot's time is subtracted here.
Gapped(l) ==
    IF power = "tim" /\ l.cur # NoId
    THEN Deduct(l, l.cur, CLK2US(get_remain_counter + 2)) ELSE l

AtLeast(t) == IF t < MinSleep THEN MinSleep ELSE t

DA16X_SET_WAKEUP_TIMER(i, t) ==
    LET l == Insert(Gapped(Counted(Alloc(i, t))), i)
    IN  /\ Awake \/ power = "tim"
        /\ ~using[i]
        /\ Update([l EXCEPT !.time[l.cur] = AtLeast(@)])
        /\ boot_tim' = (boot_tim \/ i \in Beacon)
        /\ power' = "sleep"
        /\ target' = US2CLK(AtLeast(l.time[l.cur])) /\ wakeup_id' = l.cur
        /\ mcnt' = Stopped /\ hTimer' = FALSE
        /\ called' = {} /\ source' = source

\* The sleep ends: the counter is at its end, or an external signal comes.
Wakeup(ext) ==
    /\ power = "sleep" /\ (ext \/ target <= 0)
    /\ power' = "boot"
    /\ source' = IF target > 0 THEN "ext" ELSE IF ext THEN "both" ELSE "counter"
    /\ called' = {}
    /\ UNCHANGED <<list, hTimer, mcnt, target, wakeup_id, boot_tim>>

\* The first timer of the list is started, as the last step of a boot.
Started(l) ==
    LET n == l.cur
        run == n # NoId /\ l.using[n]
    IN  /\ Update([l EXCEPT !.cur = IF run THEN n ELSE NoId])
        /\ mcnt' = IF run THEN US2CLK(l.time[n]) ELSE Stopped
        /\ hTimer' = (hTimer \/ run)
        /\ power' = "on" /\ source' = "none" /\ target' = 0 /\ wakeup_id' = NoId

\* DA16X_TIMER_SCHEDULER after the counter's end: the firmware that receives a
\* beacon begins, with no timer running.  Of the two sources it leaves "ext".
SchedulerTim ==
    LET w == wakeup_id
    IN  /\ power = "boot" /\ source # "ext" /\ w \in Beacon /\ boot_tim
        /\ Update(L([using EXCEPT ![w] = FALSE], next, time, next[w]))
        /\ boot_tim' = FALSE
        /\ power' = "tim"
        /\ source' = IF source = "both" THEN "ext" ELSE source
        /\ called' = {}
        /\ UNCHANGED <<hTimer, mcnt, target, wakeup_id>>

\* It hands over to a full boot, which calls the scheduler again.
FullBoot ==
    /\ power = "tim"
    /\ power' = "boot"
    /\ called' = {}
    /\ UNCHANGED <<list, hTimer, mcnt, source, target, wakeup_id, boot_tim>>

\* The callbacks of a full boot after the counter's end, and the list then.
CounterBoot ==
    LET w == wakeup_id
    IN  ProcessCallback(L([using EXCEPT ![w] = @ \/ w \in Beacon], next, time, w), w,
                        IF target = 0 THEN 0 ELSE CLK2US(get_remain_counter + 3))

AfterCounter ==
    /\ power = "boot" /\ source # "ext" /\ (wakeup_id \in Beacon => ~boot_tim)

\* A full boot after the counter's end calls the callback.
SchedulerCounter ==
    /\ AfterCounter
    /\ Started(CounterBoot.list)
    /\ called' = CounterBoot.called
    /\ UNCHANGED boot_tim

\* The list after an external signal.
ExtBoot ==
    LET w == wakeup_id
        left == CLK2US(get_remain_counter)
    IN  IF w \in Beacon
        THEN Inherit(L([using EXCEPT ![w] = FALSE], next, time, next[w]),
                     next[w], left)
        ELSE L(using, next, [time EXCEPT ![w] = left], w)

AfterExt == power = "boot" /\ source = "ext"

\* After an external signal the first timer goes on with what is left, or with
\* what has passed since the sleep was to end.
SchedulerExt ==
    /\ AfterExt
    /\ Started(ExtBoot)
    /\ called' = {}
    /\ UNCHANGED boot_tim

\* A reset that does not keep the retention memory.
SchedulerReset ==
    /\ using' = [i \in Id |-> FALSE] /\ next' = [i \in Id |-> NoId]
    /\ time' = [i \in Id |-> 0] /\ cur' = NoId
    /\ hTimer' = FALSE /\ mcnt' = Stopped
    /\ power' = "on" /\ target' = 0 /\ wakeup_id' = NoId /\ boot_tim' = FALSE
    /\ called' = {} /\ source' = "none"

\* One RTC clock.  The sleep's counter may end in a boot and join the source.
Tick ==
    /\ \/ /\ power = "on" /\ mcnt > 0 /\ mcnt' = mcnt - 1
          /\ UNCHANGED <<target, source>>
       \/ /\ power \in {"sleep", "boot", "tim"}
          /\ target > IF power = "sleep" THEN 0 ELSE -MaxBoot
          /\ target' = target - 1 /\ mcnt' = mcnt
          /\ \/ source' = source
             \/ power = "boot" /\ source = "ext" /\ target = 1 /\ source' = "both"
    /\ called' = {}
    /\ UNCHANGED <<list, hTimer, power, wakeup_id, boot_tim>>

-----------------------------------------------------------------------------
\* The list or its times no longer fit the timers in use; callbacks of some of
\* them may have been called before.
Lost ==
    /\ power' = "lost"
    /\ \E S \in SUBSET {i \in Id : using[i] \/ (power = "boot" /\ i = wakeup_id)} :
          called' = S
    /\ UNCHANGED <<list, hTimer, mcnt, source, target, wakeup_id, boot_tim>>

\* The interrupt comes within DA16X_KILL_TIMER, which has cleared USING (583):
\* it drops the list if i is the first timer, and otherwise calls i although it
\* is killed, or lets it be the first timer while the list is searched for it.
KillInterrupted(i) ==
    LET p == Expired(L([using EXCEPT ![i] = FALSE], next, time, cur))
    IN  /\ power = "on" /\ mcnt = 0 /\ using[i]
        /\ i \in {cur, p.list.cur} \cup p.called
        /\ Lost

\* The counter ends within DA16X_SET_TIMER or DA16X_SET_WAKEUP_TIMER, which has
\* seen a first timer (425, 455): MCNT_STOP has nothing to stop, so the first
\* timer keeps the time that has passed, or the interrupt has left no list, and
\* the new timer is sorted behind TIMER_ERR.
SetInterrupted(i) == power = "on" /\ mcnt = 0 /\ ~using[i] /\ Lost

\* MCNT_CREATE fails (420): the timer is in use, and not in the list.
SetFails(i) == power = "on" /\ ~hTimer /\ ~using[i] /\ Lost

\* The interrupt took longer than the next timer has left (306): its time wraps.
IsrLate(d) ==
    LET p == Expired(L(using, next, time, cur))
    IN  /\ power = "on" /\ mcnt = 0 /\ ~Fits(p.list, p.list.cur, d)
        /\ Lost

\* MCNT_CREATE fails in a boot (719, 762): the first timer does not run.  Or
\* there is no first timer, and its time (743) is that of what lies behind
\* gtimer, time_gap with it.
BootFails ==
    /\ \/ AfterCounter /\ CounterBoot.list.cur # NoId
       \/ AfterExt /\ (ExtBoot.cur # NoId \/ wakeup_id \in Beacon)
    /\ Lost

Spoils ==
    \/ \E i \in Id : KillInterrupted(i) \/ SetInterrupted(i) \/ SetFails(i)
    \/ \E d \in 0 .. MaxIsr : IsrLate(d)
    \/ BootFails

-----------------------------------------------------------------------------
Scheduler == SchedulerTim \/ SchedulerCounter \/ SchedulerExt

Next ==
    \/ \E i \in Id, t \in Times :
          DA16X_SET_TIMER(i, t) \/ DA16X_SET_WAKEUP_TIMER(i, t)
    \/ \E i \in Id : DA16X_KILL_TIMER(i)
    \/ \E d \in 0 .. MaxIsr : rtc_mirror_hisr(d)
    \/ \E ext \in BOOLEAN : Wakeup(ext)
    \/ Scheduler \/ FullBoot \/ SchedulerReset \/ Tick
    \/ Spoils

Spec == Init /\ [][Next]_vars

\* What happens without a call: interrupts, wake-ups and boots.  The firmware
\* that receives a beacon sleeps again or boots.
Runs ==
    \/ \E d \in 0 .. MaxIsr : rtc_mirror_hisr(d)
    \/ Wakeup(FALSE) \/ Scheduler \/ FullBoot
    \/ power = "tim" /\ \E i \in Id, t \in Times : DA16X_SET_WAKEUP_TIMER(i, t)

FairSpec == Spec /\ WF_vars(Tick) /\ WF_vars(Runs)

-----------------------------------------------------------------------------
\* Types of the timers' state.
TypeOK ==
    /\ using \in [Id -> BOOLEAN] /\ next \in [Id -> Id \cup {NoId}]
    /\ time \in [Id -> Nat] /\ cur \in Id \cup {NoId}
    /\ hTimer \in BOOLEAN /\ mcnt \in Nat \cup {Stopped}
    /\ power \in {"on", "sleep", "boot", "tim", "lost"}
    /\ source \in {"none", "counter", "both", "ext"}
    /\ target \in Int /\ target >= -MaxBoot
    /\ wakeup_id \in Id \cup {NoId} /\ boot_tim \in BOOLEAN
    /\ called \subseteq Id

InList == {Chain(next, cur)[k] : k \in 0 .. Cardinality(Id)} \ {NoId}

\* Unless a step has spoilt it, the list holds every timer in use once, and no
\* other; it ends; and when the system is on, its first timer is the one the
\* counter runs for.
ListSound ==
    power # "lost" =>
      /\ InList = {i \in Id : using[i]}
      /\ Cardinality(InList) =
           Cardinality({k \in 0 .. Cardinality(Id) : Chain(next, cur)[k] # NoId})
      /\ power = "on" => (mcnt = Stopped <=> cur = NoId)

\* Below the alarm of a boot that takes MaxBoot clocks.
Off == -(MaxBoot + 1) * Num

\* The time left to each timer, in units of a microsecond over Den.  The timer
\* that ended the sleep goes off in the boot.  A list that is lost has no alarms.
Alarm ==
    LET f == Chain(next, cur)
        head == IF power = "on" THEN mcnt * Num
                ELSE target * Num + IF cur = wakeup_id \/ cur = NoId THEN 0
                                    ELSE time[cur] * Den
        sum[k \in 0 .. Cardinality(Id)] ==
          IF k = 0 THEN head
          ELSE IF f[k] = NoId THEN 0 ELSE sum[k - 1] + time[f[k]] * Den
    IN  [i \in Id |->
           IF power = "lost" THEN Off
           ELSE IF using[i] THEN sum[CHOOSE k \in DOMAIN f : f[k] = i]
           ELSE IF i = wakeup_id /\ power \in {"tim", "boot"}
           THEN target * Num ELSE Off]

Promised == INSTANCE RtcAlarms WITH
    alarm <- Alarm,
    Period <- {t * Den : t \in Times},
    Round <- Num + Den,
    Boot <- 3 * Num,
    Late <- 2 * MaxBoot * Num,
    Slice <- Slice * Den,
    MinSleep <- MinSleep * Den,
    Elapse <- IF MaxIsr = 0 THEN Num ELSE MaxIsr * Num

\* The list implements the alarms of RtcAlarms: inserting, removing, sleeping
\* and booting move no alarm further than the code's rounding and corrections,
\* and none goes off that is not due or close to one that is.  The alarms are
\* given up together, by a reset or by a step that spoils the list.
AlarmSpec == Promised!Spec

\* Every timer in use goes off, is killed or is lost, to a reset or with the
\* list, however often others are set before it, and sleeps are cut short: unless
\* boots after an external signal again and again pass the end of the sleep and
\* set the first timer back.  (The beacon timers are set again by each sleep.)
GoesOff ==
    \A i \in Id \ Beacon :
       \/ []<><<SchedulerExt /\ target < 0>>_vars
       \/ using[i] ~> (~using[i] \/ power = "lost")
=============================================================================
