------------------------------ MODULE RtmPool ------------------------------
(***************************************************************************)
(* Named blocks of user retention memory: user_rtm_pool_allocate and       *)
(* user_rtm_release (core/system/src/common/main/util_api.c) over the heap *)
(* of RtmMem, the chain of records and the boot                            *)
(* (core/system/src/dpm/da16x_dpm.c, the dpm_user_rtm functions).          *)
(*                                                                         *)
(* Nothing but the heap is protected: the chain is walked and changed      *)
(* without a lock, and the heap's lfree, which does not survive a          *)
(* power-down, is copied to the pool's free_ptr in a step of its own.  A   *)
(* power-down keeps mem, rec, first_user_addr and free_ptr and nothing     *)
(* else; it may find a task at any point of SleepAt.                       *)
(***************************************************************************)
EXTENDS RtmMem, Sequences

CONSTANTS
    Name,           \* the names of records
    NoName,         \* the name of a cleared record
    RecSize,        \* sizeof(dpm_user_rtm)
    Bytes,          \* the sizes of user data asked for
    SleepAt         \* the calls and points in them at which the power may go

ASSUME PoolSizes == RecSize \in Nat \ {0} /\ Bytes \subseteq Nat

ASSUME NoNameIsNone == NoName \notin Name

VARIABLES
    rec,                \* retained: the dpm_user_rtm in each block's data
    first_user_addr,    \* retained: the block of the first record
    free_ptr,           \* retained: the heap's lfree, for the wake-up
    boot,               \* "done" once user_rtm_pool_init_done is set; before,
                        \* whether chk_dpm_wakeup() or get_boot_mode() holds
    task,               \* per task: its call and where it is in it
    chain,              \* history: the blocks of the chain
    lost                \* history: blocks a power-down took from a task

poolVars == <<rec, first_user_addr, free_ptr, boot, task, chain,
              lost>>
vars == <<heapVars, poolVars>>

Record(n, s, next) == [name |-> n, size |-> s, next |-> next]
Cleared == Record(NoName, 0, Null)

\* A task outside the pool's functions.
Idle == [pc |-> "idle", op |-> "none", name |-> NoName, size |-> 0,
         cur |-> Null, prev |-> Null, mem |-> Null, fp |-> 0]

Points == {"idle", "search", "malloc", "calloc", "getfree", "putfree", "fill",
           "add", "find", "free"}

Calls == {"none", "allocate", "release"}

PoolInit ==
    /\ HeapInit
    /\ rec = [o \in Offset |-> Cleared]
    /\ first_user_addr = Null /\ free_ptr = 0
    /\ boot = "fresh"
    /\ task = [t \in Task |-> Idle]
    /\ chain = <<>> /\ lost = {}

At(t, point) == task[t].pc = point
Go(t, point) == task' = [task EXCEPT ![t].pc = point]
Return(t) == task' = [task EXCEPT ![t] = Idle]

-----------------------------------------------------------------------------
(* user_rtm_pool_allocate                                                  *)

Allocate(t, n, s) ==
    /\ boot = "done" /\ At(t, "idle") /\ s > 0
    /\ task' = [task EXCEPT ![t] =
                  [Idle EXCEPT !.pc = "search", !.op = "allocate", !.name = n,
                               !.size = s, !.cur = first_user_addr]]
    /\ UNCHANGED <<heapVars, rec, first_user_addr, free_ptr, boot,
                   chain, lost>>

\* dpm_user_rtm_search, one record a step.
dpm_user_rtm_search(t) ==
    LET c == task[t].cur
    IN  /\ At(t, "search")
        /\ IF c = Null THEN Go(t, "malloc")
           ELSE IF rec[c].name = task[t].name THEN Return(t)
           ELSE task' = [task EXCEPT ![t].cur = rec[c].next]
        /\ UNCHANGED <<heapVars, rec, first_user_addr, free_ptr, boot,
                       chain, lost>>

\* The count is narrowed to da16x_dpm_rtm_mem_size_t before calloc sees it.
Count(s) == (s + RecSize) % Width

Calloc(t) ==
    /\ At(t, "malloc")
    /\ \/ MallocRefused(t, Count(task[t].size)) /\ Return(t)
       \/ MallocBegin(t, Count(task[t].size)) /\ Go(t, "calloc")
    /\ UNCHANGED <<rec, first_user_addr, free_ptr, boot, chain,
                   lost>>

\* Inside calloc; the memory it clears includes the record's.
InCalloc(t) ==
    /\ At(t, "calloc") /\ HeapStep(t)
    /\ rec' = IF hpc[t] = "zero" THEN [rec EXCEPT ![blk[t]] = Cleared]
              ELSE rec
    /\ UNCHANGED <<first_user_addr, free_ptr, boot, task, chain,
                   lost>>

\* Fault: NULL is not tested for.
CallocReturnsAny(t) ==
    /\ At(t, "calloc") /\ CallocReturn(t)
    /\ task' = [task EXCEPT ![t].mem = blk[t], ![t].pc = "getfree"]
    /\ UNCHANGED <<rec, first_user_addr, free_ptr, boot, chain, lost>>

CallocReturns(t) ==
    /\ At(t, "calloc") /\ CallocReturn(t)
    /\ IF blk[t] = Null THEN Return(t)
       ELSE task' = [task EXCEPT ![t].mem = blk[t], ![t].pc = "getfree"]
    /\ UNCHANGED <<rec, first_user_addr, free_ptr, boot, chain, lost>>

\* user_rtm_pool->free_ptr = da16x_dpm_rtm_mem_get_free_ptr()
GetFree(t) ==
    /\ At(t, "getfree")
    /\ task' = [task EXCEPT ![t].fp = lfree, ![t].pc = "putfree"]
    /\ UNCHANGED <<heapVars, rec, first_user_addr, free_ptr, boot,
                   chain, lost>>

PutFree(t) ==
    /\ At(t, "putfree")
    /\ free_ptr' = task[t].fp
    /\ IF task[t].op = "allocate" THEN Go(t, "fill") ELSE Return(t)
    /\ UNCHANGED <<heapVars, rec, first_user_addr, boot, chain,
                   lost>>

Fill(t) ==
    /\ At(t, "fill")
    /\ rec' = [rec EXCEPT ![task[t].mem] = Record(task[t].name, task[t].size, Null)]
    /\ task' = [task EXCEPT ![t].pc = "add", ![t].cur = first_user_addr]
    /\ UNCHANGED <<heapVars, first_user_addr, free_ptr, boot,
                   chain, lost>>

\* The record is linked behind the last one, or as the first.
Link(t) ==
    IF task[t].cur = Null
    THEN first_user_addr' = task[t].mem /\ rec' = rec
    ELSE /\ rec' = [rec EXCEPT ![task[t].cur].next = task[t].mem]
         /\ first_user_addr' = first_user_addr

\* dpm_user_rtm_add, one record a step.
dpm_user_rtm_add(t) ==
    LET c == task[t].cur
    IN  /\ At(t, "add")
        /\ IF c # Null /\ rec[c].next # Null
           THEN /\ task' = [task EXCEPT ![t].cur = rec[c].next]
                /\ UNCHANGED <<rec, first_user_addr, chain>>
           ELSE /\ Link(t)
                /\ chain' = Append(chain, task[t].mem)
                /\ Return(t)
        /\ UNCHANGED <<heapVars, free_ptr, boot, lost>>

-----------------------------------------------------------------------------
(* user_rtm_release                                                        *)

Release(t, n) ==
    /\ boot = "done" /\ At(t, "idle")
    /\ task' = [task EXCEPT ![t] =
                  [Idle EXCEPT !.pc = "find", !.op = "release", !.name = n,
                               !.cur = first_user_addr]]
    /\ UNCHANGED <<heapVars, rec, first_user_addr, free_ptr, boot,
                   chain, lost>>

\* Fault: the record is always taken for the first.
UnlinkFirst(t) == first_user_addr' = rec[task[t].cur].next /\ rec' = rec

Unlink(t) ==
    LET next == rec[task[t].cur].next
    IN  IF task[t].prev = Null
        THEN first_user_addr' = next /\ rec' = rec
        ELSE /\ rec' = [rec EXCEPT ![task[t].prev].next = next]
             /\ first_user_addr' = first_user_addr

\* The chain without the block at o.
Without(o) ==
    IF \E j \in 1 .. Len(chain) : chain[j] = o
    THEN [i \in 1 .. Len(chain) - 1 |->
            IF \E j \in 1 .. i : chain[j] = o THEN chain[i + 1] ELSE chain[i]]
    ELSE chain

\* dpm_user_rtm_remove, one record a step.
dpm_user_rtm_remove(t) ==
    LET c == task[t].cur
    IN  /\ At(t, "find")
        /\ IF c = Null
           THEN Return(t) /\ UNCHANGED <<rec, first_user_addr, chain>>
           ELSE IF rec[c].name = task[t].name
           THEN /\ Unlink(t)
                /\ chain' = Without(c)
                /\ Go(t, "free")
           ELSE /\ task' = [task EXCEPT ![t].prev = c, ![t].cur = rec[c].next]
                /\ UNCHANGED <<rec, first_user_addr, chain>>
        /\ UNCHANGED <<heapVars, free_ptr, boot, lost>>

\* Fault: the record is unlinked and its block not freed.
FreeNot(t) ==
    /\ At(t, "free")
    /\ Go(t, "getfree")
    /\ UNCHANGED <<heapVars, rec, first_user_addr, free_ptr, boot, chain, lost>>

Free(t) ==
    /\ At(t, "free")
    /\ da16x_dpm_rtm_mem_free(t, task[t].cur)
    /\ Go(t, "getfree")
    /\ UNCHANGED <<rec, first_user_addr, free_ptr, boot, chain,
                   lost>>

-----------------------------------------------------------------------------
(* Power-down, reset and boot                                              *)

\* The block a task has in its hands: allocated and not linked yet, or not
\* linked any more and not yet free.
InHand(t) ==
    {o \in {blk[t], task[t].mem} : o # Null}
        \cup {o \in {task[t].cur} : At(t, "free")}

\* The chip stops, by a power-down that keeps the retention memory or, at any
\* moment, by a reset that does not.
PowerOff(kept) ==
    /\ boot = "done"
    /\ kept => \A t \in Task : <<task[t].op, task[t].pc>> \in SleepAt
    /\ boot' = IF kept THEN "wakeup" ELSE "fresh"
    /\ lost' = lost \cup UNION {InHand(t) : t \in Task}
    /\ task' = [t \in Task |-> Idle]
    /\ Restarted
    /\ UNCHANGED <<heap, rec, first_user_addr, free_ptr, chain>>

\* Fault: a wake-up is taken for a first boot.
RecoversNever == FALSE

\* chk_dpm_wakeup() or get_boot_mode() says that the memory was kept.
Recovers == boot = "wakeup"

\* dpm_user_rtm_pool_create: called by init_dpm_environment and once more by
\* the DPM daemon, when applications may have allocated already.
dpm_user_rtm_pool_create ==
    /\ IF boot = "done" THEN UNCHANGED <<heapVars, rec, first_user_addr, free_ptr,
                                     chain, lost>>
       ELSE IF ~Recovers
       THEN /\ da16x_dpm_rtm_mem_init
            /\ rec' = [o \in Offset |-> Cleared]
            /\ first_user_addr' = Null /\ free_ptr' = 0
            /\ chain' = <<>> /\ lost' = {}
       ELSE /\ da16x_dpm_rtm_mem_recovery(free_ptr)
            /\ UNCHANGED <<rec, first_user_addr, free_ptr, chain, lost>>
    /\ boot' = "done"
    /\ UNCHANGED task

-----------------------------------------------------------------------------
Step(t) ==
    \/ dpm_user_rtm_search(t) \/ Calloc(t) \/ InCalloc(t) \/ CallocReturns(t)
    \/ GetFree(t) \/ PutFree(t) \/ Fill(t) \/ dpm_user_rtm_add(t)
    \/ dpm_user_rtm_remove(t) \/ Free(t)

Next ==
    \/ \E t \in Task, n \in Name, s \in Bytes : Allocate(t, n, s)
    \/ \E t \in Task, n \in Name : Release(t, n)
    \/ \E t \in Task : Step(t)
    \/ \E kept \in BOOLEAN : PowerOff(kept)
    \/ dpm_user_rtm_pool_create

Spec == PoolInit /\ [][Next]_vars

\* The scheduler runs every task that can run.
FairSpec == Spec /\ \A t \in Task : WF_vars(Step(t))

-----------------------------------------------------------------------------
\* Types of the pool's state.
TypeOK ==
    /\ mem \in [Offset -> [next : Offset, prev : Offset, used : BOOLEAN]]
    /\ lfree \in Offset /\ live \subseteq Offset
    /\ lock \in Task \cup {NoTask}
    /\ hpc \in [Task -> {"out", "scan", "adjust", "zero", "done"}]
    /\ ptr \in [Task -> Offset] /\ blk \in [Task -> Offset \cup {Null}]
    /\ want \in [Task -> Nat]
    /\ rec \in [Offset -> [name : Name \cup {NoName}, size : Nat,
                           next : Offset \cup {Null}]]
    /\ first_user_addr \in Offset \cup {Null} /\ free_ptr \in Offset
    /\ boot \in {"fresh", "wakeup", "done"}
    /\ task \in [Task -> [pc : Points, op : Calls,
                          name : Name \cup {NoName}, size : Nat,
                          cur : Offset \cup {Null}, prev : Offset \cup {Null},
                          mem : Offset \cup {Null}, fp : Offset]]
    /\ chain \in Seq(Offset) /\ lost \subseteq Offset

Chained == {chain[i] : i \in 1 .. Len(chain)}

\* The records of the chain, as first_user_addr and next_user_addr link them,
\* are used blocks with room for the data their size promises, under names
\* that differ: no allocation, release, power-down or wake-up leaves a dangling
\* or a half-made record in the chain.
RecordsIntact ==
    /\ first_user_addr = IF chain = <<>> THEN Null ELSE chain[1]
    /\ \A i \in 1 .. Len(chain) :
          LET o == chain[i]
          IN  /\ o \in live \ {Size} /\ mem[o].used
              /\ rec[o].next = IF i = Len(chain) THEN Null ELSE chain[i + 1]
              /\ rec[o].size + RecSize <= Room(o)
              /\ \A j \in 1 .. Len(chain) :
                    rec[chain[j]].name = rec[o].name => i = j

\* A used block has a record, or is in the hands of a task, or was in its
\* hands when the power went: no other path leaks retention memory.
NoLeak ==
    \A o \in live \ {Size} :
       mem[o].used => o \in Chained \cup lost \cup UNION {InHand(t) : t \in Task}

\* The bytes of a name are those from start_user_addr on that its record's
\* size promises.
Named == [n \in {rec[o].name : o \in Chained} |->
            LET o == CHOOSE q \in Chained : rec[q].name = n
            IN  [from |-> o + Header + RecSize, size |-> rec[o].size]]

Promised == INSTANCE RtmStore WITH Last <- Size - 1, store <- Named, power <- boot

\* The pool implements RtmStore: although calls are cut off by power-downs, the
\* names keep their bytes over every wake-up, no two names share one, and only
\* a boot without retention memory takes them away.
StoreSpec == Promised!Spec

\* Every call returns: the walks over the chain and over the blocks end,
\* unless the power goes.
CallsReturn == \A t \in Task : ~At(t, "idle") ~> At(t, "idle")
=============================================================================
