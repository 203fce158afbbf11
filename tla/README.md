# TLA+ models of the DA16200 SDK

This directory holds a verification project for the DA16200/DA16600 SDK: TLA+
modules that model parts of the firmware, TLC configurations that model-check
them on small instances, and proofs checked by TLAPS. `PROJECT.json` is the
index: it maps every definition to the lines of C it stands for, and lists the
runs, the mutants that show that each property can fail, the hazards of the
code and the theorems. Paths in this file are relative to the repository root.

## 1. The system and its parts

The DA16200 is a battery-powered Wi-Fi chip. Most of the SDK is third-party
code (FreeRTOS, lwIP, mbedTLS, wpa_supplicant, mosquitto, cJSON) or drivers
and console commands. What is the SDK's own, concurrent and stateful is the
layer that decides when the chip may lose power and when it has to be reset:

| Part | Source | State | Operations | Hard because |
|---|---|---|---|---|
| DPM sleep manager | `core/system/src/dpm/da16x_dpm.c` | table of modules, two masks, power-down state, hold flags | register, unregister, set/clear, ready marks, hold/resume, daemon, trigger timer | every task calls it, half of it without a mutex; the daemon checks first and acts later; the PS command fails in four ways |
| System watchdog | `core/system/src/common/da16x_sys_watchdog.c`, `core/bsp/driver/src/DA16200/wdog.c` | masks of registered, monitored and notified tasks, latencies, the counter | register, notify, suspend, resume, latency, enable/disable, interrupt | an interrupt changes the masks while a task is inside the semaphore |
| DPM RTC timers | `da16x_dpm.c` (`dpm_timer_*`) | timer table in retention memory, expired set, queue | create, delete, change, expiry, callback after wake-up | interrupt and task share words; callbacks wait for `init_done` |
| RTC delta timer | `core/system/src/ramlib/da16200_timer.c` | delta list in retention memory | set, kill, interrupt | deltas must add up over sleeps |
| Retention memory pool | `core/system/src/dpm/da16x_dpm_rtm_mem.c`, `core/system/src/common/main/util_api.c`, `da16x_dpm.c` (`dpm_user_rtm_*`) | heap and chain of named records that survive sleep | allocate, release, recover | the contents survive a power-down that the caller's call does not |
| DPM TCP sockets | `core/system/src/dpm/da16x_dpm_sockets.c` | saved sessions, wait counts | save, restore, defer sleep | bounded deferral, sequence numbers saved before the power goes |
| DPM abnormal check | `core/system/src/dpm/da16x_dpm_abnorml_chk.c` | a counter for each reason to be awake, place in the table of intervals | one-second check, force, hold, stop, configure | a sleep, a reset and a power cut each keep a different part of the state |
| Firmware update | `core/system/src/ota/` | progress, boot index | download, renew, reboot | crash between download and switch |
| MQTT client, BLE booter, application DPM manager, AT commands | see `PROJECT.json` | sessions | | users of the parts above |

How they interact: a module registers with the sleep manager (a table entry
and one bit in each mask), clears its bit while it works and sets it when it
may sleep; the daemon powers the chip down when the masks are equal. The RTC
timers hold the daemon through `dpm_rtc_to_chk_flag` while an expiry is
delivered and read `init_done` and `rcv_ready` of the table entry; the sockets
defer the daemon's decision; the Wi-Fi driver answers the PS command; the
console holds, resumes and disables. Every system task, the sleep daemon
included, also registers with the watchdog and suspends itself there while it
waits. After a power-down the chip boots again: RAM is lost, retention memory
and NVRAM stay.

What makes each part correct:

* sleep manager: a module has one slot; a slot that is in use counts; a request
  that returned success stays in force; an objection stops the power-down; a
  failed power-down lets its waiters go on; a ready system does go to sleep;
* watchdog: no two tasks share an identifier; only tasks that are there are
  monitored; a hung task leads to a reset within a bound, and a reset has a
  silent task behind it;
* RTC timers: an expiry reaches its callback or is given up, never forgotten;
  a module that is not ready does not keep the chip awake;
* delta list: every timer fires at its own time, whatever is set, killed and
  slept before it. The code promises that only as long as no interrupt falls
  into a call, none takes too long, and calls of several tasks do not overlap
  (section 7);
* pool: blocks are disjoint, freed memory comes back, a name keeps its bytes
  over every wake-up;
* sockets: sleep is deferred at most so many times; no session loses data;
* abnormal check: a device that cannot connect sleeps for longer and longer
  intervals, and is not awake for ever;
* OTA: a reboot at any point boots one of the two images.

## 2. Plan

Done, in this order: `DpmSleep` (with `DpmSleepObs` and the proofs of both),
`SysWatchdog` (with `SysWatchdogObs` and the proofs of both), `RtmMem` and
`RtmPool` (implementing `RtmStore`, with proofs), `DpmTimer` and `DpmAbnormal`
(with proofs), `RtcTimer` (implementing `RtcAlarms`, with proofs). Every invariant
and every refinement that a run checks is proved. What is left:

1. Theorems: what the gaps of `ExpiryKept` and the steps of `Spoils` leave intact,
   e.g. that a spoilt delta list is sound again after the next reset.
2. Compositions: `DpmSleep` with `DpmTimer` (the timer task agrees to sleep
   through the mask, and its callbacks read `init_done`), `DpmTimer` over
   `RtcTimer`, `DpmSleep` with `SysWatchdog` (a daemon deleted while it holds the
   watchdog's semaphore).
3. The deferral of sleep by TCP sessions, which would say when the exception of
   `ReadyIsAttempted` can be dropped, if lwIP's side of it can be stated
   faithfully.

## 3. `DpmSleep`: the sleep manager

### State

The fields of `_da16x_dpm_sleep_list` are functions on slots (`mod_name`,
`port_number`, `bit_index`, `rcv_ready`, `init_done`), a mask is the set of its
one bits, and the globals keep their names. `call[c]` is the frame of the API
call that task `c` is in: its place, the module it is for, the slot it found,
the mask it loaded. `d_pc` is the daemon's place in its loop, `mutex` the
holders of `da16x_dpm_reg_req_flag_mutex`, `nv_dpm_mode` the copy of DPM mode
in NVRAM, the only thing a reboot leaves.

### Steps

A step is what one task does between two accesses to state that another task
writes too. So

* `reg_dpm_sleep` is `RegTake`, `RegSlot`, `RegStore`: wait for the mutex; test
  for a duplicate or a full table, take a slot, set its bit, load the sleep
  mask; store it, write the entry, give the mutex back;
* `unreg_dpm_sleep` is `UnregFind` (before the mutex), `UnregTake`,
  `UnregStore`, and, after the mutex was given back, `UnregName`, `UnregBit`;
* `set_dpm_sleep` and `clr_dpm_sleep` are the wait loop with the scan
  (`SetFind`, `ClrFind`), the load and the store of the mask: nothing protects
  the `|=` and `&=`;
* `set_dpm_rcv_ready`, `..._by_port`, `set_dpm_init_done` write one field;
* `stop_dpm_mode` clears the flags and then deletes the daemon (`StopFlags`,
  `StopKill`); `disable_dpm_mode` deletes first (`DisableKill`, `DisableNv`,
  `DisableMode`);
* `hold_dpm_sleepd`, `resume_dpm_sleepd`, the console's `CmdHold`, `CmdResume`;
  `RtcProcess` raises and lowers `dpm_rtc_to_chk_flag`;
* the daemon's loop is `DaemonTop` or `DaemonExit`, `DaemonPoll` (event wait,
  delay), `DaemonNotReady`, `DaemonDefer` or `DaemonDecide`, `DaemonRun`, and
  one action for each class of results of the PS command: `PowerOffBusy`,
  `PowerOffDisconnected` (the daemon itself calls `clr_dpm_sleep`),
  `PowerOffOk`, `PowerOffFail`;
* `dpm_trigger_timer_fn` is one step, `Reboot` the boot after a power-down or
  after the daemon is gone.

Three steps hold more than one access, where no property tells the difference.
`RegStore` writes the mask, the entry and gives the mutex back: nobody but the
holder of the mutex names a slot, and a reader that sees the name without the bit
index finds what it finds a moment before. `DaemonDecide` compares the masks and
blocks the reception: between the two only a hold may lift a blocking that is not
there yet. `SetStore` stores the mask and raises the daemon's event, which
the daemon would otherwise see one round later.

Abstracted: names and ports are values, log output and the debug prints are
left out; waits in ticks are waits that may fail (`RegTake` may give up when the
mutex is held); what the PS command does in the driver is its result, chosen
from `PdownResults`; the settings kept in retention memory (filters, keep-alive,
IP) are not modelled. `Ops` selects the API functions a run lets the tasks
call, `Uses` which modules a task calls them for.

`DpmSleepObs` adds history: what the last finished call for a module asked for
(`asked`), which slots' bits have since been changed by the store of a mask that
was out of date or by a call whose slot had changed hands (`undone`), and how many
power-down attempts began since an objection was made (`late`).

### What is checked

* `table_races`: two tasks register and unregister three modules in a table of two
  slots, with stop, disable, enable, the holds and resumes of the daemon and the
  flag of `dpm_timer_process`. `UniqueNames`: no module has two slots. `NamedSlotCounts`: a named slot counts in the registration mask unless
  its eraser is under way.
* `sleep_calls`: a task makes the calls that write the sleep mask, with
  `set_dpm_all_flags`, the console's hold and every result of the PS command; on
  `PowerOffDisconnected` the daemon calls `clr_dpm_sleep` itself, and so is a second
  writer. `SetsKept` and `ClearsKept`: what a call achieved stays until the next
  call for that module, unless one of two things happens to the slot's bit: a mask
  that was loaded before is stored over it, or a call whose slot has changed hands
  since it looked it up writes there (`undone`). `AtMostOneLateAttempt`: the daemon
  decides at one point and raises `dpm_pdown_state` later, so an objection can come
  too late for the attempt that is under way, and, as long as it stands, for no
  other. `TypeOK` bounds the delay and the failure count.
* `sleep_live`: `RunEnds`: `dpm_pdown_state` does not stay RUN (all callers of
  set and clear wait for that); `ReadyIsAttempted`: when every registered module
  is and stays ready and nothing holds the daemon, it issues the PS command, unless
  it defers again and again for ever.

Two runs end in a violation and show a disagreement of the code with its
documentation. `set_lost`: with two tasks, `SetSticks` fails. Task A loads the sleep
mask, task B sets its bit and returns `DPM_SET_OK`, task A stores: B's bit is
gone, and the chip does not sleep until B calls again. The store may be the `|=`
of `set_dpm_sleep` or the `&=` of `reg_dpm_sleep`, whose mutex the others do not
take. Nor does `unreg_dpm_sleep` keep to its slot: a stale one may erase the name
or the bit of the slot's next owner, which `SetsKept` and `ClearsKept` except.

`init_reuse`: `reg_dpm_sleep` does not reset `init_done`, so a module that registers
in a used slot reads as initialised before it said so, and its timer callbacks are
called; the header says that they are not.

One more behaviour a reader should know of: `dpm_sleep_try_chk_cnt` is cleared only
when it reaches its limit, so PS failures with other results between them add up
and the connection is dropped.

### Bounds

Two slots for three modules make the table overflow and slots be used again;
two tasks are enough for each race over one word (a race needs one loader and
one interferer, and the daemon is a third caller). In `sleep_calls` the second
writer is the daemon, whose call for a module of the driver meets the task's; the
theorems about the same properties have no limit on the tasks (section 9). It does
not unregister, so that no slot changes hands there; with `unreg_dpm_sleep` it has
2.5 million states, and the properties hold as well. `MaxTry` 0 and 1 make the limit
and its reset happen; `DelayCnt` 2 in `sleep_live` has both a delay that runs down
and one that is restarted. `late` saturates just above the value the
property compares with. `table_races` uses the symmetry of the two tasks, which
make the same calls; runs with liveness use none. `sleep_live` makes the calls a
module makes and `set_dpm_all_flags`; a hold of the daemon, or the flag of
`dpm_timer_process`, would only make `Ready` false, so that they stay in
`table_races`.

### Fairness

`WF` of the daemon, of the timer service and of a task inside a call: FreeRTOS
runs a ready task of that priority. Nobody is obliged to begin a call, and the
console and the RTC may hold the daemon for ever. Nor does anything oblige a busy
TCP session to let the daemon decide: the sockets count the deferrals of a session
(`DPM_SOCK_MAX_TCP_WAIT_CNT` in `da16x_dpm_sockets.c`), but not those of one without
`sess_info`. No fairness of `DaemonDecide` is assumed therefore, and
`ReadyIsAttempted` names the exception.
`RunEnds` and `ReadyIsAttempted` are checked without stop and disable: a daemon
that is deleted during RUN does leave its waiters waiting, until the reboot
those calls are followed by.

## 4. `SysWatchdog`: the watchdog

### State and steps

`tasks_mask`, `tasks_monitored_mask`, `tasks_notified_mask` are sets of
identifiers, `tasks_latency` a function on them; `sem` is the owner of the
watchdog's semaphore, `active` is `da16x_sys_wdog_active`; `wdog_off`,
`setvalue`, `running` and `counter` are the driver and the hardware counter.
`held[t]` is the identifier that register returned to task `t`, which is where
the model keeps what the callers know.

Every API function is an action that gets the semaphore, works and gives it
back, since the interrupt cannot tell its accesses apart. `notify` is different:
the interrupt reads and empties the notified mask in the middle of it, so it is
`NotifyLoad`, `NotifyStore`, `NotifyCompare`, and, when every monitored task has
notified, `NotifyReload` and `NotifyEnable` for the two requests to the driver;
The driver tests `wdog_off` before each request; between the last test and the
start of the counter the console may switch off, so `NotifyEnable` starts it or not.
`NotifyIdle` is the second notification, for the configured idle task.
`da16x_sys_watchdog_callback` is the interrupt: it counts latencies down and
either restarts the counter or resets the chip. `Hang` stops a task outside
every call; `Restart` is the boot after a reset.

`Resumed` is one step, although the code sets the bit of the monitored mask and
then takes the unregistered ones out: the caller is registered, so that the second
store takes nothing away and the interrupt finds the same mask in between.

Abstracted: the counter counts `Period` ticks instead of seconds; the trailing
information display and the print in the callback are left out. A task that
hangs inside a call, with the semaphore, is not modelled: all tasks are then
silent and the reset follows from the same rule.

`SysWatchdogObs` adds who was heard since the counter was restarted, whom a
reset found silent, and how many intervals a hung task may still pass.

### What is checked

* `wdog_calls`: two tasks, two identifiers, every call except the console's
  switch and the idle identifier. `IdsExclusive`, `MonitoredHeld` (an identifier
  that was given back is not monitored), `HungSurvival`: a monitored task that
  hangs passes at most its latency and one more interval, not counting those
  that end while another task is between the load and the store of its notify
  and will put the old notification back (`PutBack`). `HungDetected`: under
  fairness the reset comes, unless such intervals come again and again.
* `wdog_switch`: with the switch and the idle identifier. `MonitoredRegistered`;
  `RebootForSilence`: a reset finds a due task that was not heard since the
  counter was restarted, except while a task has emptied the notified mask and
  not yet restarted the counter (`da16x_sys_watchdog_reset_watchdog` does the
  two in that order): then everyone may have notified, and the chip is reset
  all the same.
* `wdog_full` (violation): with one identifier and two tasks `IdsExclusive`
  fails: register returns 0, left over from the semaphore call, where the
  header says -1.

The exception is not a matter of the proof. With two tasks the interrupt can cut
in on the only other notifier once, since the mask it then finds lacks that
task's own notification. With three, two tasks that notify in turn can carry the
notification of the third from interval to interval: each has loaded the mask
when the interrupt empties it and stores the old one back. TLC finds this in 24
states, and it may repeat for ever; an earlier form of `HungSurvival`, two
intervals after the latency, was true for two tasks and false for three, which
came to light when its proof was tried. The two properties as they stand were
checked with three tasks as well (2.4 million states); the run keeps two.

`MonitoredHeld` and `HungDetected` are checked without the switch because with
it they do not hold: `unregister` does nothing while the watchdog is disabled,
so the identifier of a task that is gone stays monitored and the next enable
leads to a reset; and a disabled watchdog detects nothing.

### Bounds and fairness

Two tasks suffice for one to put back the notification of the other, and what
three add is above; latency up
to 2 lets a latency run out and be set again, `Period` 2 lets the rescale time
change. In `wdog_switch` latency and rescale are left out, since the switch
multiplies the states. `WF` of the hardware (a running counter counts, its
interrupt is served) and of a task inside notify, which the scheduler runs.

## 5. `RtmMem`, `RtmPool`, `RtmStore`: retention memory

### State and steps

`RtmMem` is the heap. `mem` is the retention memory read as a block header at
every offset, so that a header left over from a merged block is still there;
`lfree` is the lowest free block, which malloc searches from, `lock` the mutex,
`hpc` and its companions the frame of each task inside calloc. Malloc scans one
block a step (`ScanOn`, `ScanTake`, `ScanFailed`), moves `lfree` (`AdjustOn`,
`AdjustEnd`), and calloc clears the data outside the mutex (`Zero`).
`da16x_dpm_rtm_mem_free` with its merging in both directions, the first
initialisation and the recovery after a wake-up are one step each. `live` is
history: the offsets that are blocks of the list.

`RtmPool` adds the chain of `dpm_user_rtm` records (`rec`, `first_user_addr`),
the retained copy `free_ptr` of `lfree`, and the two functions of `util_api.c`:
allocation searches the chain for the name, one record a step, allocates, copies
`lfree`, fills the record and walks the chain again to link it; release finds,
unlinks, frees, and copies `lfree`. `PowerOff` ends everything but the retention
memory, at any point of `SleepAt`; `dpm_user_rtm_pool_create` boots, with or
without retention. Sizes are numbers with the code's alignment, minimum size and
16-bit width (`% Width`); contents of user data are left out, names are values.

`RtmStore` says what callers rely on: a name owns a range of bytes from
allocation to release, no two names share a byte, a power-down changes nothing,
and only a boot without retention memory begins anew.

### What is checked

`rtm_pool`: `ListSane` (the assertions of `da16x_dpm_rtm_mem_sanity`, and that the
blocks fill the pool), `SearchComplete` (no free block lies below `lfree`, also
after a wake-up that took it from `free_ptr`), `RecordsIntact` (the linked records
are used blocks with room for what they promise, names differ), `NoLeak` (a used
block has a record, or is in a task's hands, or was when the power went),
`StoreSpec` (the pool implements `RtmStore`, with the names of the linked records
mapped to their bytes), `CallsReturn`.

The pool of ten units holds two or three blocks, which is enough for a split, a
merge in each direction and a failure for lack of room; one of the sizes never
fits. Limits of the run, each of which TLC shows to matter:

* the power does not go between the free of a block and the store of `free_ptr`.
  With it there, `SearchComplete` and `RecordsIntact` fail: the wake-up begins its
  search at a block that was merged away. A caller that releases memory only
  while its sleep bit is clear is safe;
* one task. The chain is not protected, and with two tasks `RecordsIntact` fails;
* no size that wraps in the 16-bit count. With one, `RecordsIntact` fails: the
  block is smaller than its record says. Callers in the SDK ask for small sizes.

Fairness: a task inside a call goes on.

## 6. `DpmTimer`: timers of the applications

### State and steps

`entry` is the table of `dpm_timer_info_t` and `timeout_tid` the word
`dpm_rtc_timeout_tid`, as a set, both retained; `queue`, `abnormal` and
`dpm_timer_mutex` are RAM; `rtc` says which RTC timers run. `proc` is the timer
task: it reads the word, agrees or objects to the power-down (`AnnounceSleep`),
moves each identifier to the queue and clears its bit by a read and a write
(`SendTid`, `ClearTid`), and processes the queue (`Reschedule`, `CheckCallback`,
the wait for `init_done` as `ConfirmYes` or `ConfirmNo`, `Callback`, the restoring
of the bit, `Finish`). `rtc_timeout_cb` is the interrupt and can come anywhere.
The calls are split where they leave the mutex or touch the RTC: create finds the
name, starts the RTC, then writes the entry; delete erases, then stops the RTC;
change, register, cancel and delete-all likewise. The RTC may refuse a timer, at a
registration (`RtcStart`) and when a periodic one is started again (`Reschedule`).
Delete-all leaves the two identifiers alone that other code uses (`Limited`).

The timer task's agreement to the power-down is a bit of `dpm_sleep_set_flag`, which
every task stores as a whole (section 3). `OtherStore` is such a store: it puts the
bit back, either way, at any time. The daemon is reduced to
deciding, running and failing or succeeding (`PowerDown`), as in `DpmSleep`.

`owed[t]` is history: `"due"` from an expiry to the end of the callback it owes,
`"lost"` from the moment one of the code's known gaps takes it.

### What is checked

`dpm_timer`: `ExpiryKept`: a callback that is owed is in the retained word, in the
queue or in process. The gaps through which the code does lose one are named in
the module and are exactly these: the interrupt sets a bit between the task's load
and store of the word; the queue is emptied after an identifier whose module was
not ready; a one-shot entry is erased although its identifier was restored for a
retry; the power-down comes when the identifier has been moved from the word to the
queue or is in process (`Taken`), because it was decided before or the task's
objection was overwritten; the identifier is given to a new timer, or found before and
erased after it was. Each of these counts as lost, so that `ExpiryKept` says that
nothing else takes one. `ExpiryServed`: a callback that is owed is made or given up
or falls into a gap, unless other tasks again and again overwrite the timer task's
objection and a power-down comes each time before it has read the word.
`SleepAgain`: when no RTC timer expires any more, retries for
a module that is not ready end, and the task agrees to sleep again and again.

A callback that is erased while the task waits for its module is called through a
NULL pointer; the model has that as `NullCallback`, a fault after which the system
starts anew.

Two identifiers, one of them fixed, give the queue a second identifier to drop. Two
tasks make a call each, so that one finds a timer the other is creating or erasing
while an expiry is pending; one retry makes the limit and
its reset happen. The instance does not use delete-all of level 1, which differs
from level 2 only by leaving the RTC alone.

Fairness: the scheduler runs the timer task and ends what a caller began, and an
attempt of the daemon ends. `SF` of `ReadTids` and `AnnounceSleep`: they wait for
the end of an attempt by polling every few ticks, and between two attempts the
daemon waits for longer than that.

## 7. `RtcTimer`, `RtcAlarms`: the delta list

### State and steps

`using`, `next`, `time` are the fields of `gtimer`, `cur` is `gCurIdx`, the first
timer; `mcnt` is the hardware counter, `target` the clocks to the end of a sleep
(negative after it). Time passes one RTC clock a step. `time_sorting`, the
subtraction of a gap along the list (`Deduct`), `DA16200_PROCESS_CALLBACK` and the
rounding between microseconds and clocks are operators with the code's
arithmetic; `DA16X_SET_TIMER`, `DA16X_KILL_TIMER`, `DA16X_SET_WAKEUP_TIMER`, the
interrupt and the branches of `DA16X_TIMER_SCHEDULER` (counter, beacon firmware,
external signal, reset) are the actions. `source` is the wake-up source register,
by which the scheduler chooses its branch: a signal, the counter, or both, and a
signal that comes first may be joined by the counter during the boot.

A task's call is one step, but the interrupt can fall into it: `isr_block` keeps
calls out of the interrupt, nothing keeps the interrupt out of calls. What that
does, and what else goes wrong in the code, are the actions of `Spoils`:

* `KillInterrupted`: `DA16X_KILL_TIMER` clears USING and stops the counter later. The
  interrupt in between finds a first timer that is not in use, sets `gCurIdx` to
  `TIMER_ERR` and so drops the list; or it calls the killed timer, or makes it the
  first one under the walk that looks for it;
* `SetInterrupted`: the counter ends between the test of `gCurIdx` and `MCNT_STOP`. The
  first timer keeps the time that has passed, or the new one is sorted behind
  `TIMER_ERR`;
* `IsrLate`: the interrupt takes longer than the next timer has left, and the
  unsigned subtraction wraps;
* `SetFails`, `BootFails`: `MCNT_CREATE` fails, or a boot after an external signal
  writes behind the table because the beacon timer was the only one.

After one of them `power` is `"lost"`: the list need not hold the timers in use any
more, and the model follows it no further until a reset. It is an over-approximation
in that the code may get through such a step unharmed.

Calls of several tasks are not interleaved with each other, which is an assumption.
Callers reach these functions through `fc80211_set_app_keepalivetime`, which is
declared in the wifistack's headers and whose body is not among the sources; it
would have to hold a lock. `dpm_timer_mutex` covers only part of its callers.

`RtcAlarms` is a time per identifier. Setting, killing, sleeping and going off may
move the other alarms by the rounding, by the slice within which timers go off
together, by what the code adds for the boot, and no further.

### What is checked

`rtc_delta`: until a step spoils it, `ListSound` (the list holds exactly the timers
in use, once, and the counter runs for the first) and `AlarmSpec` (the list
implements `RtcAlarms`: a timer's time is the sum of the deltas before it, and alarms
are given up only all together, by a reset or with a spoilt list); `GoesOff` (a timer
in use goes off, is killed or is given up with the others). `GoesOff` has an exception:
when an external signal ends a sleep and the boot passes the sleep's end,
`get_remain_counter` returns the time since then, which becomes the first timer's;
if that happens again and again the timer does not go off.

Three timers, one of them a beacon timer, with two different times give every
place of insertion and removal. A clock takes 3/2 microseconds, so that rounding
happens; the shortest sleep is about a clock, where the code has 1000
microseconds, and a boot takes a clock. The interrupt takes up to `MaxIsr` clocks,
which is enough for it to take longer than the next timer has left.

Fairness: the clock ticks, interrupts and wake-ups are served, a boot goes on, and
the beacon firmware sleeps again or boots.

## 8. `DpmAbnormal`: the abnormal check

### State and steps

The check's state is of three kinds, and `retained`, `nvram`, `counters` and
`switches` keep them apart: a sleep keeps retention memory and NVRAM, a power cut
NVRAM only. A tick of the one-second timer is `Cleans` (held or stopped), `Quiet`
(no reason), `Waits` (one more second for the first reason that applies), `Reports`
or `Sleeps`. The callback is split where a reset between two of its writes to retention
memory matters: `Sleeps` saves the place in the table, `Marks` holds the daemon and
marks the sleep as the check's own, `PowersDown` reads the time left once more,
chooses the sleep and powers down. `Seen` is the order in which the reasons are
looked at, `NextCount` how `dpm_abnormal_next_action` moves on in the table of
intervals. The sleep-2 command forces a sleep like the supplicant and gives it a
duration of its own, also at the end of the table (`sleep2_triggered`). A boot starts
the timer and then reads the stop flag (`StartChecks`, `ReadStop`); the
configuration call switches the timer and then writes the flag (`ConfigTimer`,
`ConfigSave`). `cond` is what the check sees of the network, the supplicant and
the modules, and changes freely. The daemon's own sleep clears the marks of the
check through `clear_abnormal_DPM_param`, called from the MAC driver.

Abstracted: the length of a sleep is the place in the table, that of the sleep-2
command is left out; the supplicant's retry
budget, a wrong key and the AT command reach the check through the force call; the
configuration call does not come between the creation and the start of the timer
in a boot. At the sleep the code also deletes the timers and wakes the daemon;
those parts are in `DpmTimer` and `DpmSleep`, with which this module is not
composed.

### What is checked

`dpm_abnormal`: `BackOffKept` (the n-th sleep of the check in a row waits for at
least the n-th interval, whatever resets, button wake-ups and reports lie
between), `ForcedSoon` (a forced sleep comes with the second tick without
connection, unless a longer time is configured or the counters were cleaned: the
force call sets the counter for the default time), `StoppedStays` (a check that is
switched off in NVRAM does not run once a boot has read the flag), `GivesUp` (a
device that always has one of the first four reasons, not always the same, is put
to sleep again and again: the counters of the other reasons are not reset).

The table has three intervals, the last one without an alarm; limits are one and
two seconds; one call from outside, or reset, between two sleeps. Fairness: the
timer service runs the callback, what began goes on, the alarm of a timed sleep
goes off. Nobody has to press the button, so after the last interval the device
may stay asleep.

## 9. Proofs

TLC shows a property on one instance; the theorems hold for any number of
tasks, modules, slots, identifiers and limits that satisfy the assumptions of
the modules (`BoundsAssumption`, `NamesAssumption`, `ChoiceAssumption`,
`WatchdogAssumption`, `HeapSizes`, `PoolSizes`, `TimerLimits`, `TimerNames`,
`TableAssumption`, `WaitAssumption`, `TimesAssumption`, `LimitAssumption`,
`RtcLimits` and two for the absent name: limits are natural numbers, positive
where the code divides or scans; model values are distinct). Where a theorem has
further hypotheses they are in its statement, and a run or a paragraph above shows
what happens without them.

`DpmSleepProofs`:

* `TypeCorrect`, `NamesUnique` and `NamedCount`, from the lemma `Inductive`,
  `Spec => [](TypeOK /\ TableInv)`. `UniqueNames` is not inductive: a name
  is written one step after the test for a duplicate. `RegPending` says that a
  registration between the two still has no slot and owns a free, counted one;
  `MutexHeld` says that it is alone there; `CallsMade` that the daemon makes no
  registration and that a registration is for a real module, so that writing
  its name fills the slot. Unregistration erases names outside the mutex, and
  the proof shows why that is harmless for these two properties: erasure never
  creates a duplicate, and a slot being erased is accounted for by the frame
  of its eraser. One lemma covers the actions that touch the table, one all
  others through `Quiet` (a step that moves no caller into or inside the
  critical places preserves the invariant).

`SysWatchdogProofs`, for `SysWatchdog`:

* `WatchdogTypes`, `Spec => []TypeOK`, needs `IdleConfigured`: a task waiting to
  notify for the idle task relies on the idle identifier still being set;
* `OnlyRegisteredMonitored`, `Spec => []MonitoredRegistered`;
* `IdentifiersExclusive` and `GivenBackUnmonitored` for a finite `Task` with at
  most `MaxTasks` members and no `disable`: exactly the two conditions whose
  absence `wdog_full` and the ignored unregistration show. The invariant
  `MaskHeld` says that `tasks_mask` is the set of held identifiers and holders
  differ; that a task without an identifier finds one left is a pigeonhole
  argument (lemma `IdLeft`).

The same module, for `SysWatchdogObs`:

* `RebootsForSilence`, without hypotheses. `HeardCounted` says that whoever was
  heard is in the notified mask, except where the mask was just emptied;
  `HeardLoaded` that a notify between load and store carries everyone who was
  heard, because the semaphore lets only one task in (`SemOwned`).
* `HungTaskPasses`, `HungSurvival` with an identifier for every task, without the
  switch and the idle identifier. The invariant `LifeCovers` weighs what a hung
  task has left against its latency and its notification, counting the one that
  is about to be put back. The proof attempt with the old bound is what found
  the behaviour of three tasks described in section 4.

`DpmSleepObsProofs`:

* `SetStays`, `ClearStays`, `OneLateAttempt`, without hypotheses: for any tasks,
  modules, slots, calls and results of the PS command. The invariant `MaskInv` is
  `SetsKept` and `ClearsKept` slot by slot, with `AskedVoid` (no promise counts while
  a call for the module is under way). Only five stores change the mask
  (`MaskWriters`, `StoreBits`); each leaves the other slots' bits as they are, or
  they are noted as undone (`StoreNoted`), and only `reg_dpm_sleep` gives a slot a new
  name (`OldSlot`).
* The bound on late attempts does not rest on the mask: an objection stands when a
  slot is registered and its bit is clear, by whoever's store, and the decision
  is made at one point only. `DaemonWay` says where the daemon is between that
  point and the attempt; `HeldLate` and `SlotLate` tie the count to it.

`RtmMemProofs`: `HeapStaysSane` and `SearchStaysComplete` for `HeapSpec`, any
number of tasks, any pool and any sizes. The invariant `HInv` says that the
blocks are linked both ways and fill the pool (`Linked`), that no two unused ones
touch (`Spaced`), that none lies below `lfree` (`Seen`), and what each task knows
at its place in malloc (`Owns`): that the mutex is its own, that no unused block
lies below the point to which `lfree` is being moved, and that the block it took
is used and large enough. Split and the two merges have lemmas of their own.

`RtmPoolProofs`:

* `PointersStayInPool`, `TypeOK`, for any tasks and a power-down anywhere;
* `MemoryIsNotLost`, `PoolHeapStaysSane` and the refinement `PoolImplementsStore` under
  `OneCaller`: one task, sizes that do not wrap, no power-down between the free of
  a block and the store of `free_ptr`. These are the three limits of the run
  `rtm_pool`; section 5 says what TLC finds without each. The invariant `PInv` joins
  the heap's `HInv` to the chain: at each place of an allocation or a release it
  says which block is in the task's hands (`Hands`), how far the search of the
  chain came (`Searches`, `Adds`, `Finds`) and what is about to be stored in
  `free_ptr` (`Copies`). `FreePtrOK` is what a wake-up lives on: a search that
  begins at `free_ptr` misses no unused block, except between a free and the store
  that follows it. The refinement maps the linked records to their bytes;
  the step that links the new record is the abstract allocation, the one that
  unlinks is the release, all others stutter. `chain` is history of the linked
  list; `Without` says what unlinking does to it.

`DpmTimerProofs`: `TimerTypes` and `ExpiriesKept`. The latter needs that an identifier
is in the queue before its bit is cleared (`ClearQueued`), and that one that becomes
due again while it is being served is noted in the word or the queue when the
service ends (`FinishNoted`). It says nothing of what a power-down takes out of the
task's hands: that is one of the gaps, and counts as lost.

`DpmAbnormalProofs`: `AbnormalTypes`, `BackOffGrows` (with `ChainMarked`: a chain of
sleeps is one whose last sleep was marked as the check's own, and `CountedAhead`: the
place is saved before the sleep is marked), `ForcedSleepsSoon`
(with `SinceCounted`, which ties the ticks since the force call to the counter it
set) and `SwitchedOffStaysOff` (with `StoppingStopped`).

`RtcTimerProofs`, for any finite set of timers, any times and any clock:

* `RtcTypes`, `RtcListSound` without hypotheses. The code knows the list only as
  pointers and follows them; the invariant `TInv` says that there is a sequence
  `s` of the timers in use which the pointers run through (`IsList`) and a time
  `sum` for each, whose differences are the deltas (`Apart`), and who ends a sleep
  in each state of the power-down (`PowerOK`). It holds unless the list is lost
  (`Inv`), as does what is proved from it. `ChainIs`, `RestIs`, `SortingIs`,
  `DeductIs`, `CallbackIs` say what the code's walks compute in these terms, and
  `ListInsert`, `ListRemove`, `ListDrop` what an operation makes of the sequence.
* `RtcImplementsAlarms`, `Spec => AlarmSpec`, under `FineClock` (a clock takes a
  microsecond at least; the code's takes 30.5). A step of `Spoils` is a step in which
  `RtcAlarms` gives all alarms up. `ViewIs` reads `Alarm` off the sequence: the head's
  time, which is the counter's, the sleep's or, after a beacon, the sleep's and the
  first timer's own, and the differences of `sum`. Each action then has a lemma that
  bounds what it does to each alarm: `RestartBounds` for a counter that is read,
  converted and started again, `GapBounds` for the time of a boot that is
  subtracted along the list (`Moved`: nothing is lost but less than a slice),
  `StaysBounds` for what goes off before a timer, `AsleepBounds` for a sleep.
  `FineClock` is where the boot's two or three added clocks cover the rounding.

Only model-checked:

* liveness (`RunEnds`, `ReadyIsAttempted`, `HungDetected`, `CallsReturn`,
  `ExpiryServed`, `SleepAgain`, `GoesOff`, `GivesUp`): the prover handles neither
  fairness nor `ENABLED`.

A recursive definition is proved about without induction over data, which the
prover cannot instantiate: a set of positions at which the claim fails has a
least element (`Least`, `UpTo`), and that one contradicts the definition's own
equation. That is how `RtcTimerProofs` follows lists of every length.

## 10. Not modelled

Most of the repository is not the SDK's own logic: of its 1.16 million lines of
implementation nearly all are FreeRTOS, lwIP, mbedTLS, wpa_supplicant, mosquitto,
the BLE platform's headers, register descriptions, drivers, and the parsers and
printers of the AT and console commands. They are left out because they have no
state machine of this system, or because their state machine is that of another
project. The modules here cover the power management, which is where the SDK's
own tasks, interrupts and retained state meet. In detail:

* third-party code, drivers, ROM and boot loader; what the models need of them
  (semaphores, timers, the PS command's results, the RTC, retention) is stated in
  the modules as external;
* the AT commands, provisioning and the console, except for DPM hold and resume:
  parsing and printing;
* TCP sockets and TLS sessions under DPM: their control is in lwIP and mbedTLS,
  their own part copies control blocks into retention memory;
* firmware update: what an interruption leaves depends on the boot loader;
* the MQTT client, the application DPM manager and the monitor client: users of
  the parts modelled;
* within the modelled files: filters, ports, keep-alive and IP settings (stored
  values without control), `da16x_dpm_rtm_mem_trim` (no caller), a timer
  registration without a free identifier (it writes behind the table).

Memory ordering is not an issue on this
single-core chip; a word is loaded and stored at once. Use of a deleted task's
handle (`stop_dpm_mode` after the daemon deleted itself) is treated as harmless.
