------------------------------- MODULE RtmMem -------------------------------
(***************************************************************************)
(* The heap in retention memory (core/system/src/dpm/da16x_dpm_rtm_mem.c): *)
(* a list of blocks with a header each, searched first-fit from lfree.     *)
(*                                                                         *)
(* A pointer is the offset of a header.  mem is the memory, read as a      *)
(* header at every offset: what is left of a header after its block was    *)
(* merged stays in mem, as it does in the retention memory.  Malloc scans  *)
(* the list one block a step, under the mutex.                             *)
(***************************************************************************)
EXTENDS Integers

CONSTANTS
    Task,           \* the tasks that use the heap
    NoTask,         \* nobody holds the mutex
    Size,           \* DA16X_DPM_RTM_MEM_SIZE_ALIGNED, the offset of rtm_end
    Header,         \* SIZEOF_STRUCT_DA16X_DPM_RTM_MEM
    MinSize,        \* DA16X_DPM_RTM_MEM_MIN_SIZE_ALIGNED
    Align,          \* MEM_ALIGNMENT
    Width,          \* da16x_dpm_rtm_mem_size_t counts modulo Width
    Request         \* the sizes asked for

ASSUME HeapSizes ==
    /\ Size \in Nat /\ Header \in Nat \ {0} /\ MinSize \in Nat \ {0}
    /\ Size >= Header + MinSize
    /\ Align \in Nat \ {0} /\ Width \in Nat /\ Size < Width
    /\ Request \subseteq Nat

ASSUME NobodyIsNoTask == NoTask \notin Task

Offset == 0 .. Size
Null == -1

VARIABLES
    mem,            \* rtm: the header at every offset
    lfree,          \* where malloc begins to search
    lock,           \* da16x_dpm_rtm_mem_mutex
    hpc,            \* where each task is in da16x_dpm_rtm_mem_calloc
    ptr,            \* the block each task looks at
    want,           \* the size each task asked for
    blk,            \* the block each task found
    live            \* history: the offsets of the blocks of the list

heap == <<mem, lfree, live>>
heapVars == <<mem, lfree, lock, hpc, ptr, want, blk, live>>

Hdr(next, prev, used) == [next |-> next, prev |-> prev, used |-> used]
EndHdr == Hdr(Size, Size, TRUE)
Zeroed == Hdr(0, 0, FALSE)

-----------------------------------------------------------------------------
\* What da16x_dpm_rtm_mem_init leaves of memory cleared by dpm_user_rtm_clear:
\* one unused block.
FreshMem == [o \in Offset |-> IF o = 0 THEN Hdr(Size, 0, FALSE)
                              ELSE IF o = Size THEN EndHdr ELSE Zeroed]

HeapInit ==
    /\ mem = FreshMem /\ lfree = 0 /\ live = {0, Size}
    /\ lock = NoTask
    /\ hpc = [t \in Task |-> "out"]
    /\ ptr = [t \in Task |-> 0]
    /\ want = [t \in Task |-> 0]
    /\ blk = [t \in Task |-> Null]

LWIP_MEM_ALIGN_SIZE(n) == (((n + Align - 1) \div Align) * Align) % Width

\* The size of the block that serves a request of n bytes.
BlockSize(n) ==
    LET a == LWIP_MEM_ALIGN_SIZE(n) IN IF a < MinSize THEN MinSize ELSE a

Serveable(n) == n > 0 /\ BlockSize(n) <= Size /\ BlockSize(n) >= n

Need(t) == BlockSize(want[t])

\* The data size of the block at o.
Room(o) == mem[o].next - (o + Header)

\* A header's prev is corrected unless the header is rtm_end's.
Relink(m, o, prev) == IF o # Size THEN [m EXCEPT ![o].prev = prev] ELSE m

\* The block at o is used, and what it does not need becomes a block.
Split(o, n) ==
    LET rest == o + Header + n
    IN  Relink([mem EXCEPT ![rest] = Hdr(mem[o].next, o, FALSE),
                           ![o] = Hdr(rest, mem[o].prev, TRUE)],
               mem[o].next, rest)

-----------------------------------------------------------------------------
\* da16x_dpm_rtm_mem_malloc: checks of the size, then the mutex is taken.
MallocRefused(t, n) ==
    /\ hpc[t] = "out" /\ ~Serveable(n)
    /\ UNCHANGED heapVars

MallocBegin(t, n) ==
    /\ hpc[t] = "out" /\ Serveable(n) /\ lock = NoTask
    /\ lock' = t
    /\ hpc' = [hpc EXCEPT ![t] = "scan"]
    /\ ptr' = [ptr EXCEPT ![t] = lfree]
    /\ want' = [want EXCEPT ![t] = n]
    /\ UNCHANGED <<heap, blk>>

Scanning(t) == hpc[t] = "scan" /\ ptr[t] < Size - Need(t)
Fits(t) == ~mem[ptr[t]].used /\ Room(ptr[t]) >= Need(t)

\* One round of the loop that fails.
ScanOn(t) ==
    /\ Scanning(t) /\ ~Fits(t)
    /\ ptr' = [ptr EXCEPT ![t] = mem[ptr[t]].next]
    /\ UNCHANGED <<heap, lock, hpc, want, blk>>

\* Fault: the error path keeps the mutex.
ScanFailedLocked(t) ==
    /\ hpc[t] = "scan" /\ ~(ptr[t] < Size - Need(t))
    /\ hpc' = [hpc EXCEPT ![t] = "done"]
    /\ UNCHANGED <<heap, lock, ptr, want, blk>>

\* No block is large enough.
ScanFailed(t) ==
    /\ hpc[t] = "scan" /\ ~(ptr[t] < Size - Need(t))
    /\ hpc' = [hpc EXCEPT ![t] = "done"]
    /\ lock' = NoTask
    /\ UNCHANGED <<heap, ptr, want, blk>>

\* The block is taken; the remainder becomes a block if it can hold data.
ScanTake(t) ==
    LET o == ptr[t]
    IN  /\ Scanning(t) /\ Fits(t)
        /\ IF Room(o) >= Need(t) + Header + MinSize
           THEN /\ mem' = Split(o, Need(t))
                /\ live' = live \cup {o + Header + Need(t)}
           ELSE /\ mem' = [mem EXCEPT ![o].used = TRUE]
                /\ live' = live
        /\ blk' = [blk EXCEPT ![t] = o]
        /\ IF o = lfree
           THEN hpc' = [hpc EXCEPT ![t] = "adjust"] /\ lock' = lock
           ELSE hpc' = [hpc EXCEPT ![t] = "zero"] /\ lock' = NoTask
        /\ UNCHANGED <<lfree, ptr, want>>

\* lfree moves on to the next unused block, or to the end.
AdjustOn(t) ==
    /\ hpc[t] = "adjust" /\ mem[ptr[t]].used /\ ptr[t] # Size
    /\ ptr' = [ptr EXCEPT ![t] = mem[ptr[t]].next]
    /\ UNCHANGED <<heap, lock, hpc, want, blk>>

AdjustEnd(t) ==
    /\ hpc[t] = "adjust" /\ ~(mem[ptr[t]].used /\ ptr[t] # Size)
    /\ lfree' = ptr[t]
    /\ hpc' = [hpc EXCEPT ![t] = "zero"]
    /\ lock' = NoTask
    /\ UNCHANGED <<mem, ptr, want, blk, live>>

\* da16x_dpm_rtm_mem_calloc clears the data outside the mutex.
Zero(t) ==
    /\ hpc[t] = "zero"
    /\ mem' = [o \in Offset |->
                 IF blk[t] + Header <= o /\ o < blk[t] + Header + want[t]
                 THEN Zeroed ELSE mem[o]]
    /\ hpc' = [hpc EXCEPT ![t] = "done"]
    /\ UNCHANGED <<lfree, lock, ptr, want, blk, live>>

\* The function returns blk[t]; its variables are gone.
CallocReturn(t) ==
    /\ hpc[t] = "done"
    /\ hpc' = [hpc EXCEPT ![t] = "out"]
    /\ ptr' = [ptr EXCEPT ![t] = 0]
    /\ want' = [want EXCEPT ![t] = 0]
    /\ blk' = [blk EXCEPT ![t] = Null]
    /\ UNCHANGED <<heap, lock>>

-----------------------------------------------------------------------------
da16x_dpm_rtm_mem_link_valid(o) ==
    /\ mem[o].prev = o \/ mem[mem[o].prev].next = o
    /\ mem[o].next = Size \/ mem[mem[o].next].prev = o

\* da16x_dpm_rtm_mem_plug_holes(o) for memory m with blocks b and lowest free
\* block f, in its two halves.
PlugForward(m, f, b, o) ==
    LET n == m[o].next
    IN  IF n # o /\ ~m[n].used /\ n # Size
        THEN [mem |-> Relink([m EXCEPT ![o].next = m[n].next], m[n].next, o),
              lfree |-> IF f = n THEN o ELSE f,
              live |-> b \ {n}]
        ELSE [mem |-> m, lfree |-> f, live |-> b]

\* Fault: an unused block in front is left alone.
PlugBackwardNot(m, f, b, o) == [mem |-> m, lfree |-> f, live |-> b]

PlugBackward(m, f, b, o) ==
    LET p == m[o].prev
    IN  IF p # o /\ ~m[p].used
        THEN [mem |-> Relink([m EXCEPT ![p].next = m[o].next], m[o].next, p),
              lfree |-> IF f = o THEN p ELSE f,
              live |-> b \ {o}]
        ELSE [mem |-> m, lfree |-> f, live |-> b]

PlugHoles(m, f, b, o) ==
    LET h == PlugForward(m, f, b, o)
    IN  PlugBackward(h.mem, h.lfree, h.live, o)

\* da16x_dpm_rtm_mem_free: a block that is not used, or not linked, is left
\* alone.
Legal(o) ==
    /\ o + Header + MinSize <= Size
    /\ mem[o].used
    /\ da16x_dpm_rtm_mem_link_valid(o)

\* Fault: the search begins where it did.
LowestFreeKept(o) == lfree

LowestFree(o) == IF o < lfree THEN o ELSE lfree

da16x_dpm_rtm_mem_free(t, o) ==
    /\ hpc[t] = "out" /\ lock = NoTask
    /\ IF Legal(o)
       THEN LET h == PlugHoles([mem EXCEPT ![o].used = FALSE],
                               LowestFree(o), live, o)
            IN  mem' = h.mem /\ lfree' = h.lfree /\ live' = h.live
       ELSE UNCHANGED heap
    /\ UNCHANGED <<lock, hpc, ptr, want, blk>>

\* The tasks of a boot have made no call.
Restarted ==
    /\ lock' = NoTask
    /\ hpc' = [t \in Task |-> "out"]
    /\ ptr' = [t \in Task |-> 0]
    /\ want' = [t \in Task |-> 0]
    /\ blk' = [t \in Task |-> Null]

da16x_dpm_rtm_mem_init ==
    /\ mem' = FreshMem /\ lfree' = 0 /\ live' = {0, Size}
    /\ Restarted

\* da16x_dpm_rtm_mem_recovery after a wake-up: rtm_end is written again and
\* lfree is what the caller kept.
da16x_dpm_rtm_mem_recovery(lfree_ptr) ==
    /\ mem' = [mem EXCEPT ![Size] = EndHdr]
    /\ lfree' = lfree_ptr
    /\ UNCHANGED live
    /\ Restarted

-----------------------------------------------------------------------------
HeapStep(t) ==
    \/ ScanOn(t) \/ ScanFailed(t) \/ ScanTake(t)
    \/ AdjustOn(t) \/ AdjustEnd(t) \/ Zero(t)

\* calloc has returned the block at o.
HandedOut(o) == \A t \in Task : blk[t] # o

HeapNext ==
    \/ \E t \in Task, n \in Request : MallocRefused(t, n) \/ MallocBegin(t, n)
    \/ \E t \in Task : HeapStep(t) \/ CallocReturn(t)
    \/ \E t \in Task, o \in live \ {Size} :
          HandedOut(o) /\ da16x_dpm_rtm_mem_free(t, o)
    \/ da16x_dpm_rtm_mem_recovery(lfree)

\* The heap by itself: any task allocates, and frees any block that was handed
\* out; at a wake-up lfree is what da16x_dpm_rtm_mem_get_free_ptr returned.
HeapSpec == HeapInit /\ [][HeapNext]_heapVars

-----------------------------------------------------------------------------
\* The asserts of da16x_dpm_rtm_mem_sanity, and that the blocks fill the pool:
\* the list goes from 0 to rtm_end, each block begins where the one before it
\* ends and is wide enough, both links agree, and no two blocks in a row are
\* unused.
ListSane ==
    /\ {0, Size} \subseteq live
    /\ mem[Size] = EndHdr /\ mem[0].prev = 0
    /\ \A o \in live \ {Size} :
          /\ mem[o].next \in live
          /\ mem[o].next >= o + Header + MinSize
          /\ \A q \in live : q <= o \/ q >= mem[o].next
          /\ mem[o].next # Size => mem[mem[o].next].prev = o
          /\ ~mem[o].used => mem[mem[o].next].used

\* Every unused block is found by the search: lfree is a block and no unused
\* block is below it.
SearchComplete ==
    lfree \in live /\ \A o \in live : ~mem[o].used => lfree <= o
=============================================================================
