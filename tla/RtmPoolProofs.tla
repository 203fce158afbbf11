--------------------------- MODULE RtmPoolProofs ---------------------------
(***************************************************************************)
(* Proofs about RtmPool.  The types hold for every number of tasks, every  *)
(* size and every moment of a power-down.  The other results are about one *)
(* calling task (nothing protects the chain), requests that do not wrap,   *)
(* and power-downs that do not cut a release off between the heap's free   *)
(* and the store of free_ptr.                                              *)
(***************************************************************************)
EXTENDS RtmPool, RtmMemProofs, SequenceTheorems

-----------------------------------------------------------------------------
(* Types                                                                   *)

Pointer == Offset \cup {Null}

TaskRec == [pc : Points, op : Calls, name : Name \cup {NoName}, size : Nat,
            cur : Pointer, prev : Pointer, mem : Pointer, fp : Offset]

RecordType == [name : Name \cup {NoName}, size : Nat, next : Pointer]

HeapTyped ==
    /\ mem \in [Offset -> Headers] /\ lfree \in Offset /\ live \subseteq Offset
    /\ TaskTyped

PoolTyped ==
    /\ rec \in [Offset -> RecordType]
    /\ first_user_addr \in Pointer /\ free_ptr \in Offset
    /\ boot \in {"fresh", "wakeup", "done"}
    /\ task \in [Task -> TaskRec]
    /\ chain \in Seq(Offset) /\ lost \subseteq Offset

\* A block that is about to be freed, or to be linked, is a block.
Shape(t) ==
    /\ task[t].pc \in {"find", "free"} => task[t].op = "release"
    /\ task[t].pc = "free" => task[t].cur # Null
    /\ task[t].pc \in {"getfree", "putfree"} /\ task[t].op = "allocate" => task[t].mem # Null
    /\ task[t].pc \in {"fill", "add"} => task[t].mem # Null

PTInv == HeapTyped /\ PoolTyped /\ \A t \in Task : Shape(t)

LEMMA TypesAgree == HeapTyped /\ PoolTyped <=> TypeOK
  BY DEF HeapTyped, PoolTyped, TypeOK, TaskTyped, Places, Headers, TaskRec, RecordType, Pointer

\* A pointer that is not null is an offset.
LEMMA Pointers == /\ Null \in Pointer /\ Offset \subseteq Pointer /\ Null \notin Offset
                  /\ \A o \in Pointer : o # Null => o \in Offset
  BY Sizes DEF Pointer, Null

\* A split stays in the pool, whatever the headers say.
LEMMA SplitTyped ==
    ASSUME mem \in [Offset -> Headers], NEW o \in Offset, NEW n \in Nat,
           Room(o) >= n + Header + MinSize
    PROVE  o + Header + n \in Offset /\ Split(o, n) \in [Offset -> Headers]
<1> DEFINE rest == o + Header + n
           s == mem[o].next
           w == [mem EXCEPT ![rest] = Hdr(s, o, FALSE),
                            ![o] = Hdr(rest, mem[o].prev, TRUE)]
<1>1. s \in Offset /\ mem[o].prev \in Offset
  BY DEF Headers
<1>2. rest \in Offset
  <2> HIDE DEF s
  <2>1. s >= o + Header + (n + Header + MinSize)
    <3>1. s - (o + Header) >= n + Header + MinSize
      BY DEF Room, s
    <3> QED
      BY <3>1, <1>1, Sizes
  <2> QED
    BY <2>1, <1>1, Sizes
<1> HIDE DEF rest, s
<1>3. Hdr(s, o, FALSE) \in Headers /\ Hdr(rest, mem[o].prev, TRUE) \in Headers
  BY <1>1, <1>2, HdrTyped
<1>4. w \in [Offset -> Headers]
  BY <1>3
<1>5. Split(o, n) = IF s # Size THEN [w EXCEPT ![s].prev = rest] ELSE w
  BY DEF Split, Relink, rest, s
<1> HIDE DEF w
<1>6. [w EXCEPT ![s].prev = rest] \in [Offset -> Headers]
  BY <1>1, <1>2, <1>4, WritePrev
<1> QED
  BY <1>2, <1>4, <1>5, <1>6 DEF rest

\* plug_holes stays in the pool, whatever the headers say.
LEMMA PlugTyped ==
    ASSUME NEW m \in [Offset -> Headers], NEW f \in Offset, NEW b \in SUBSET Offset,
           NEW o \in Offset
    PROVE  LET h == PlugHoles(m, f, b, o)
           IN  /\ h.mem \in [Offset -> Headers] /\ h.lfree \in Offset
               /\ h.live \subseteq Offset
<1>l. \A w \in [Offset -> Headers] : \A q \in Offset : w[q].next \in Offset /\ w[q].prev \in Offset
  BY DEF Headers
<1>r. ASSUME NEW w \in [Offset -> Headers], NEW q \in Offset, NEW n \in Offset
      PROVE  Relink([w EXCEPT ![q].next = n], n, q) \in [Offset -> Headers]
  <2> DEFINE v == [w EXCEPT ![q].next = n]
  <2>1. v \in [Offset -> Headers]
    BY WriteNext
  <2> HIDE DEF v
  <2>2. [v EXCEPT ![n].prev = q] \in [Offset -> Headers]
    BY <2>1, WritePrev
  <2> QED
    BY <2>1, <2>2 DEF Relink, v
<1> DEFINE g == PlugForward(m, f, b, o)
           h == PlugBackward(g.mem, g.lfree, g.live, o)
<1>1. /\ g.mem \in [Offset -> Headers] /\ g.lfree \in Offset /\ g.live \subseteq Offset
  <2> DEFINE n == m[o].next
  <2>1. n \in Offset /\ m[n].next \in Offset
    BY <1>l
  <2>2. Relink([m EXCEPT ![o].next = m[n].next], m[n].next, o) \in [Offset -> Headers]
    BY <2>1, <1>r
  <2> QED
    BY <2>1, <2>2 DEF PlugForward
<1> HIDE DEF g
<1>2. /\ h.mem \in [Offset -> Headers] /\ h.lfree \in Offset /\ h.live \subseteq Offset
  <2> DEFINE p == g.mem[o].prev
  <2>1. p \in Offset /\ g.mem[o].next \in Offset
    BY <1>1, <1>l
  <2>2. Relink([g.mem EXCEPT ![p].next = g.mem[o].next], g.mem[o].next, p)
           \in [Offset -> Headers]
    BY <2>1, <1>1, <1>r
  <2> QED
    BY <2>1, <2>2, <1>1 DEF PlugBackward
<1> QED
  BY <1>2 DEF PlugHoles, g

\* Marking a block writes a header.
LEMMA MarkTyped ==
    ASSUME NEW m \in [Offset -> Headers], NEW o \in Offset
    PROVE  Use(m, o) \in [Offset -> Headers] /\ Unuse(m, o) \in [Offset -> Headers]
<1>1. m[o] \in Headers
  OBVIOUS
<1>2. [m[o] EXCEPT !.used = TRUE] \in Headers /\ [m[o] EXCEPT !.used = FALSE] \in Headers
  BY <1>1 DEF Headers
<1>3. /\ Use(m, o) = [m EXCEPT ![o] = [m[o] EXCEPT !.used = TRUE]]
      /\ Unuse(m, o) = [m EXCEPT ![o] = [m[o] EXCEPT !.used = FALSE]]
  BY DEF Use, Unuse
<1> QED
  BY <1>2, <1>3

LEMMA FreeTyped ==
    ASSUME HeapTyped, NEW t \in Task, NEW o \in Offset, da16x_dpm_rtm_mem_free(t, o)
    PROVE  HeapTyped'
<1>1. TaskTyped'
  BY DEF HeapTyped, TaskTyped, da16x_dpm_rtm_mem_free
<1>2. CASE ~Legal(o)
  BY <1>1, <1>2 DEF HeapTyped, da16x_dpm_rtm_mem_free, heap
<1>3. CASE Legal(o)
  <2> DEFINE m == Unuse(mem, o)
             h == PlugHoles(m, LowestFree(o), live, o)
  <2>1. m \in [Offset -> Headers] /\ LowestFree(o) \in Offset /\ live \in SUBSET Offset
    BY MarkTyped DEF HeapTyped, LowestFree
  <2>2. mem' = h.mem /\ lfree' = h.lfree /\ live' = h.live
    BY <1>3 DEF da16x_dpm_rtm_mem_free, Unuse
  <2> HIDE DEF m
  <2>3. h.mem \in [Offset -> Headers] /\ h.lfree \in Offset /\ h.live \subseteq Offset
    BY <2>1, PlugTyped
  <2> QED
    BY <1>1, <2>2, <2>3 DEF HeapTyped
<1> QED
  BY <1>2, <1>3

LEMMA MallocBeginTyped ==
    ASSUME HeapTyped, NEW t \in Task, NEW n \in Nat, MallocBegin(t, n)
    PROVE  HeapTyped'
  BY DEF HeapTyped, TaskTyped, Places, MallocBegin, heap

LEMMA CallocReturnTyped ==
    ASSUME HeapTyped, NEW t \in Task, CallocReturn(t)
    PROVE  HeapTyped'
  BY Sizes DEF HeapTyped, TaskTyped, Places, CallocReturn, heap

LEMMA HeapStepTyped ==
    ASSUME HeapTyped, NEW t \in Task, HeapStep(t)
    PROVE  HeapTyped'
<1>1. /\ TaskTyped /\ ptr[t] \in Offset /\ mem[ptr[t]].next \in Offset
      /\ mem \in [Offset -> Headers] /\ want[t] \in Nat
  BY DEF HeapTyped, TaskTyped, Headers
<1>2. CASE ScanOn(t) \/ AdjustOn(t)
  BY <1>1, <1>2 DEF ScanOn, AdjustOn, HeapTyped, TaskTyped, heap
<1>3. CASE ScanFailed(t)
  BY <1>1, <1>3 DEF ScanFailed, HeapTyped, TaskTyped, Places, heap
<1>4. CASE AdjustEnd(t)
  BY <1>1, <1>4 DEF AdjustEnd, HeapTyped, TaskTyped, Places
<1>5. CASE Zero(t)
  <2>1. mem' \in [Offset -> Headers]
    BY <1>1, <1>5, HdrTyped DEF Zero
  <2> QED
    BY <2>1, <1>5 DEF Zero, HeapTyped, TaskTyped, Places
<1>6. CASE ScanTake(t)
  <2> DEFINE o == ptr[t]
  <2>1. TaskTyped' /\ lfree' = lfree
    BY <1>1, <1>6 DEF ScanTake, TaskTyped, Places
  <2>2. mem' \in [Offset -> Headers] /\ live' \subseteq Offset
    <3>1. CASE Room(o) >= Need(t) + Header + MinSize
      <4>1. Need(t) \in Nat
        BY <1>1, BlockSizeTyped DEF Need
      <4>2. mem' = Split(o, Need(t)) /\ live' = live \cup {o + Header + Need(t)}
        BY <3>1, <1>6 DEF ScanTake
      <4>3. o + Header + Need(t) \in Offset /\ Split(o, Need(t)) \in [Offset -> Headers]
        BY <3>1, <4>1, <1>1, SplitTyped
      <4> QED
        BY <4>2, <4>3 DEF HeapTyped
    <3>2. CASE ~(Room(o) >= Need(t) + Header + MinSize)
      <4>1. mem' = Use(mem, o) /\ live' = live
        BY <3>2, <1>6 DEF ScanTake, Use
      <4>2. Use(mem, o) \in [Offset -> Headers]
        BY <1>1, MarkTyped
      <4> QED
        BY <4>1, <4>2 DEF HeapTyped
    <3> QED
      BY <3>1, <3>2
  <2> QED
    BY <2>1, <2>2 DEF HeapTyped
<1> QED
  BY <1>2, <1>3, <1>4, <1>5, <1>6 DEF HeapStep

-----------------------------------------------------------------------------
\* What a step makes of the record of its task.
Becomes(t, pc, op, name, size, cur, prev, m, fp) ==
    /\ task' \in [Task -> TaskRec]
    /\ \A u \in Task \ {t} : task'[u] = task[u]
    /\ task'[t].pc = pc /\ task'[t].op = op
    /\ task'[t].name = name /\ task'[t].size = size
    /\ task'[t].cur = cur /\ task'[t].prev = prev
    /\ task'[t].mem = m /\ task'[t].fp = fp

\* The same, for a step that leaves the call as it is.
Moves(t, pc, cur, prev, m, fp) ==
    Becomes(t, pc, task[t].op, task[t].name, task[t].size, cur, prev, m, fp)

LEMMA Writes ==
    ASSUME task \in [Task -> TaskRec], NEW t \in Task, NEW r \in TaskRec,
           task' = [task EXCEPT ![t] = r]
    PROVE  Becomes(t, r.pc, r.op, r.name, r.size, r.cur, r.prev, r.mem, r.fp)
<1>1. task' \in [Task -> TaskRec] /\ task'[t] = r /\ \A u \in Task \ {t} : task'[u] = task[u]
  OBVIOUS
<1> QED
  BY <1>1 DEF Becomes

LEMMA GoMoves ==
    ASSUME task \in [Task -> TaskRec], NEW t \in Task, NEW p \in Points, Go(t, p)
    PROVE  Moves(t, p, task[t].cur, task[t].prev, task[t].mem, task[t].fp)
<1> DEFINE r == [task[t] EXCEPT !.pc = p]
<1>1. task[t] \in TaskRec
  OBVIOUS
<1>2. /\ r \in TaskRec /\ r.pc = p /\ r.op = task[t].op /\ r.name = task[t].name
      /\ r.size = task[t].size /\ r.cur = task[t].cur /\ r.prev = task[t].prev
      /\ r.mem = task[t].mem /\ r.fp = task[t].fp
  BY <1>1 DEF TaskRec
<1>3. task' = [task EXCEPT ![t] = r]
  BY DEF Go
<1> HIDE DEF r
<1>4. Becomes(t, r.pc, r.op, r.name, r.size, r.cur, r.prev, r.mem, r.fp)
  BY <1>2, <1>3, Writes
<1> QED
  BY <1>2, <1>4 DEF Moves

LEMMA IdleTyped == Idle \in TaskRec
  BY Sizes DEF Idle, TaskRec, Points, Calls, Pointer

LEMMA ReturnBecomes ==
    ASSUME task \in [Task -> TaskRec], NEW t \in Task, Return(t)
    PROVE  Becomes(t, "idle", "none", NoName, 0, Null, Null, Null, 0) /\ task'[t] = Idle
<1>1. task' = [task EXCEPT ![t] = Idle]
  BY DEF Return
<1>2. Becomes(t, Idle.pc, Idle.op, Idle.name, Idle.size, Idle.cur, Idle.prev, Idle.mem, Idle.fp)
  BY <1>1, IdleTyped, Writes
<1>3. task'[t] = Idle
  BY <1>1
<1> QED
  BY <1>2, <1>3 DEF Idle

LEMMA CurMoves ==
    ASSUME task \in [Task -> TaskRec], NEW t \in Task, NEW c \in Pointer,
           task' = [task EXCEPT ![t].cur = c]
    PROVE  Moves(t, task[t].pc, c, task[t].prev, task[t].mem, task[t].fp)
<1> DEFINE r == [task[t] EXCEPT !.cur = c]
<1>1. task[t] \in TaskRec
  OBVIOUS
<1>2. /\ r \in TaskRec /\ r.pc = task[t].pc /\ r.op = task[t].op /\ r.name = task[t].name
      /\ r.size = task[t].size /\ r.cur = c /\ r.prev = task[t].prev
      /\ r.mem = task[t].mem /\ r.fp = task[t].fp
  BY <1>1 DEF TaskRec
<1>3. task' = [task EXCEPT ![t] = r]
  OBVIOUS
<1> HIDE DEF r
<1>4. Becomes(t, r.pc, r.op, r.name, r.size, r.cur, r.prev, r.mem, r.fp)
  BY <1>2, <1>3, Writes
<1> QED
  BY <1>2, <1>4 DEF Moves

LEMMA WalkMoves ==
    ASSUME task \in [Task -> TaskRec], NEW t \in Task, NEW p \in Pointer, NEW c \in Pointer,
           task' = [task EXCEPT ![t].prev = p, ![t].cur = c]
    PROVE  Moves(t, task[t].pc, c, p, task[t].mem, task[t].fp)
<1> DEFINE r == [task[t] EXCEPT !.prev = p, !.cur = c]
<1>1. task[t] \in TaskRec
  OBVIOUS
<1>2. /\ r \in TaskRec /\ r.pc = task[t].pc /\ r.op = task[t].op /\ r.name = task[t].name
      /\ r.size = task[t].size /\ r.cur = c /\ r.prev = p
      /\ r.mem = task[t].mem /\ r.fp = task[t].fp
  BY <1>1 DEF TaskRec
<1>3. task' = [task EXCEPT ![t] = r]
  OBVIOUS
<1> HIDE DEF r
<1>4. Becomes(t, r.pc, r.op, r.name, r.size, r.cur, r.prev, r.mem, r.fp)
  BY <1>2, <1>3, Writes
<1> QED
  BY <1>2, <1>4 DEF Moves

LEMMA MemMoves ==
    ASSUME task \in [Task -> TaskRec], NEW t \in Task, NEW m \in Pointer, NEW p \in Points,
           task' = [task EXCEPT ![t].mem = m, ![t].pc = p]
    PROVE  Moves(t, p, task[t].cur, task[t].prev, m, task[t].fp)
<1> DEFINE r == [task[t] EXCEPT !.mem = m, !.pc = p]
<1>1. task[t] \in TaskRec
  OBVIOUS
<1>2. /\ r \in TaskRec /\ r.pc = p /\ r.op = task[t].op /\ r.name = task[t].name
      /\ r.size = task[t].size /\ r.cur = task[t].cur /\ r.prev = task[t].prev
      /\ r.mem = m /\ r.fp = task[t].fp
  BY <1>1 DEF TaskRec
<1>3. task' = [task EXCEPT ![t] = r]
  OBVIOUS
<1> HIDE DEF r
<1>4. Becomes(t, r.pc, r.op, r.name, r.size, r.cur, r.prev, r.mem, r.fp)
  BY <1>2, <1>3, Writes
<1> QED
  BY <1>2, <1>4 DEF Moves

LEMMA FpMoves ==
    ASSUME task \in [Task -> TaskRec], NEW t \in Task, NEW f \in Offset, NEW p \in Points,
           task' = [task EXCEPT ![t].fp = f, ![t].pc = p]
    PROVE  Moves(t, p, task[t].cur, task[t].prev, task[t].mem, f)
<1> DEFINE r == [task[t] EXCEPT !.fp = f, !.pc = p]
<1>1. task[t] \in TaskRec
  OBVIOUS
<1>2. /\ r \in TaskRec /\ r.pc = p /\ r.op = task[t].op /\ r.name = task[t].name
      /\ r.size = task[t].size /\ r.cur = task[t].cur /\ r.prev = task[t].prev
      /\ r.mem = task[t].mem /\ r.fp = f
  BY <1>1 DEF TaskRec
<1>3. task' = [task EXCEPT ![t] = r]
  OBVIOUS
<1> HIDE DEF r
<1>4. Becomes(t, r.pc, r.op, r.name, r.size, r.cur, r.prev, r.mem, r.fp)
  BY <1>2, <1>3, Writes
<1> QED
  BY <1>2, <1>4 DEF Moves

LEMMA BeginMoves ==
    ASSUME task \in [Task -> TaskRec], NEW t \in Task, NEW c \in Pointer, NEW p \in Points,
           task' = [task EXCEPT ![t].pc = p, ![t].cur = c]
    PROVE  Moves(t, p, c, task[t].prev, task[t].mem, task[t].fp)
<1> DEFINE r == [task[t] EXCEPT !.pc = p, !.cur = c]
<1>1. task[t] \in TaskRec
  OBVIOUS
<1>2. /\ r \in TaskRec /\ r.pc = p /\ r.op = task[t].op /\ r.name = task[t].name
      /\ r.size = task[t].size /\ r.cur = c /\ r.prev = task[t].prev
      /\ r.mem = task[t].mem /\ r.fp = task[t].fp
  BY <1>1 DEF TaskRec
<1>3. task' = [task EXCEPT ![t] = r]
  OBVIOUS
<1> HIDE DEF r
<1>4. Becomes(t, r.pc, r.op, r.name, r.size, r.cur, r.prev, r.mem, r.fp)
  BY <1>2, <1>3, Writes
<1> QED
  BY <1>2, <1>4 DEF Moves

LEMMA SeqOfFunction ==
    ASSUME NEW S, NEW n \in Nat, NEW f \in [1 .. n -> S]
    PROVE  f \in Seq(S) /\ Len(f) = n
<1>1. f \in Seq(S)
  BY SeqDef
<1>2. DOMAIN f = 1 .. Len(f) /\ Len(f) \in Nat /\ DOMAIN f = 1 .. n
  BY <1>1, LenProperties
<1> QED
  BY <1>1, <1>2

\* The chain without a block is a chain of offsets.
LEMMA WithoutTyped ==
    ASSUME chain \in Seq(Offset), NEW o
    PROVE  Without(o) \in Seq(Offset)
<1> DEFINE n == Len(chain) - 1
           f == [i \in 1 .. n |->
                   IF \E j \in 1 .. i : chain[j] = o THEN chain[i + 1] ELSE chain[i]]
<1>1. CASE \E j \in 1 .. Len(chain) : chain[j] = o
  <2>1. Len(chain) \in Nat /\ n \in Nat
    BY <1>1
  <2>2. \A i \in 1 .. n : chain[i] \in Offset /\ chain[i + 1] \in Offset
    BY <2>1
  <2>3. f \in [1 .. n -> Offset]
    BY <2>2
  <2>4. Without(o) = f
    BY <1>1 DEF Without
  <2> HIDE DEF f, n
  <2> QED
    BY <2>1, <2>3, <2>4, SeqOfFunction
<1>2. CASE ~\E j \in 1 .. Len(chain) : chain[j] = o
  BY <1>2 DEF Without
<1> QED
  BY <1>1, <1>2

\* The tasks that do not move keep their shape.
LEMMA ShapeKept ==
    ASSUME PTInv, NEW t \in Task, \A u \in Task \ {t} : task'[u] = task[u], Shape(t)'
    PROVE  \A u \in Task : Shape(u)'
<1>1. ASSUME NEW u \in Task, u # t PROVE Shape(u)'
  BY <1>1 DEF PTInv, Shape
<1> QED
  BY <1>1

LEMMA CallTyped ==
    ASSUME PTInv, NEW t \in Task, NEW n \in Name,
           (\E s \in Bytes : Allocate(t, n, s)) \/ Release(t, n)
    PROVE  PTInv'
<1>0. PoolTyped /\ first_user_addr \in Pointer /\ task \in [Task -> TaskRec]
  BY DEF PTInv, PoolTyped
<1>1. ASSUME NEW r \in TaskRec, r.pc \in {"search", "find"},
             r.pc = "find" => r.op = "release",
             task' = [task EXCEPT ![t] = r],
             UNCHANGED <<heapVars, rec, first_user_addr, free_ptr, boot, chain, lost>>
      PROVE  PTInv'
  <2>1. Becomes(t, r.pc, r.op, r.name, r.size, r.cur, r.prev, r.mem, r.fp)
    BY <1>0, <1>1, Writes
  <2>2. Shape(t)' /\ \A u \in Task \ {t} : task'[u] = task[u]
    BY <2>1, <1>1 DEF Becomes, Shape
  <2>3. \A u \in Task : Shape(u)'
    BY <2>2, ShapeKept
  <2>4. PoolTyped'
    BY <2>1, <1>0, <1>1 DEF PoolTyped, Becomes
  <2>5. HeapTyped'
    BY <1>1 DEF PTInv, HeapTyped, TaskTyped, heapVars
  <2> QED
    BY <2>3, <2>4, <2>5 DEF PTInv
<1>2. ASSUME NEW s \in Bytes, Allocate(t, n, s) PROVE PTInv'
  <2> DEFINE r == [Idle EXCEPT !.pc = "search", !.op = "allocate", !.name = n,
                               !.size = s, !.cur = first_user_addr]
  <2>1. r \in TaskRec /\ r.pc = "search"
    BY <1>0, Sizes, Pointers, PoolSizes DEF Idle, TaskRec, Points, Calls
  <2>2. task' = [task EXCEPT ![t] = r]
    BY <1>2 DEF Allocate
  <2> HIDE DEF r
  <2> QED
    BY <2>1, <2>2, <1>1, <1>2 DEF Allocate
<1>3. CASE Release(t, n)
  <2> DEFINE r == [Idle EXCEPT !.pc = "find", !.op = "release", !.name = n,
                               !.cur = first_user_addr]
  <2>1. r \in TaskRec /\ r.pc = "find" /\ r.op = "release"
    BY <1>0, Sizes, Pointers DEF Idle, TaskRec, Points, Calls
  <2>2. task' = [task EXCEPT ![t] = r]
    BY <1>3 DEF Release
  <2> HIDE DEF r
  <2> QED
    BY <2>1, <2>2, <1>1, <1>3 DEF Release
<1> QED
  BY <1>2, <1>3

\* The fields of the pool's state, and of the record of a task.
LEMMA PoolFields ==
    ASSUME PTInv, NEW t \in Task
    PROVE  /\ task \in [Task -> TaskRec]
           /\ task[t].pc \in Points /\ task[t].op \in Calls
           /\ task[t].name \in Name \cup {NoName} /\ task[t].size \in Nat
           /\ task[t].cur \in Pointer /\ task[t].prev \in Pointer
           /\ task[t].mem \in Pointer /\ task[t].fp \in Offset
           /\ rec \in [Offset -> RecordType]
           /\ \A o \in Offset : /\ rec[o].next \in Pointer /\ rec[o].size \in Nat
                                /\ rec[o].name \in Name \cup {NoName}
           /\ first_user_addr \in Pointer /\ free_ptr \in Offset /\ lfree \in Offset
           /\ blk[t] \in Pointer /\ chain \in Seq(Offset)
<1>1. task \in [Task -> TaskRec] /\ task[t] \in TaskRec
  BY DEF PTInv, PoolTyped
<1>2. /\ task[t].pc \in Points /\ task[t].op \in Calls
      /\ task[t].name \in Name \cup {NoName} /\ task[t].size \in Nat
      /\ task[t].cur \in Pointer /\ task[t].prev \in Pointer
      /\ task[t].mem \in Pointer /\ task[t].fp \in Offset
  BY <1>1 DEF TaskRec
<1>3. rec \in [Offset -> RecordType]
  BY DEF PTInv, PoolTyped
<1>4. \A o \in Offset : /\ rec[o].next \in Pointer /\ rec[o].size \in Nat
                        /\ rec[o].name \in Name \cup {NoName}
  BY <1>3 DEF RecordType
<1>5. /\ first_user_addr \in Pointer /\ free_ptr \in Offset /\ lfree \in Offset
      /\ blk[t] \in Pointer /\ chain \in Seq(Offset)
  BY DEF PTInv, PoolTyped, HeapTyped, TaskTyped, Pointer
<1> QED
  BY <1>1, <1>2, <1>3, <1>4, <1>5

\* A step of a task that writes only its own record.
LEMMA WalkTyped ==
    ASSUME PTInv, NEW t \in Task, task' \in [Task -> TaskRec],
           \A u \in Task \ {t} : task'[u] = task[u], Shape(t)', HeapTyped',
           UNCHANGED <<rec, first_user_addr, free_ptr, boot, chain, lost>>
    PROVE  PTInv'
<1>1. \A u \in Task : Shape(u)'
  BY ShapeKept
<1>2. PoolTyped'
  BY DEF PTInv, PoolTyped
<1> QED
  BY <1>1, <1>2 DEF PTInv

LEMMA HeapVarsTyped ==
    ASSUME HeapTyped, UNCHANGED heapVars
    PROVE  HeapTyped'
  BY DEF HeapTyped, TaskTyped, heapVars

LEMMA SearchTyped ==
    ASSUME PTInv, NEW t \in Task, dpm_user_rtm_search(t)
    PROVE  PTInv'
<1> DEFINE c == task[t].cur
<1>1. /\ task[t].pc = "search" /\ UNCHANGED heapVars
      /\ UNCHANGED <<rec, first_user_addr, free_ptr, boot, chain, lost>>
      /\ \/ Go(t, "malloc")
         \/ Return(t)
         \/ c # Null /\ task' = [task EXCEPT ![t].cur = rec[c].next]
  BY DEF dpm_user_rtm_search, At
<1>2. HeapTyped'
  BY <1>1, HeapVarsTyped DEF PTInv
<1>3. /\ task' \in [Task -> TaskRec] /\ \A u \in Task \ {t} : task'[u] = task[u]
      /\ Shape(t)'
  <2>1. CASE Go(t, "malloc")
    BY <2>1, PoolFields, GoMoves DEF Moves, Becomes, Shape, Points
  <2>2. CASE Return(t)
    BY <2>2, PoolFields, ReturnBecomes DEF Becomes, Shape
  <2>3. CASE c # Null /\ task' = [task EXCEPT ![t].cur = rec[c].next]
    <3>1. rec[c].next \in Pointer
      BY <2>3, PoolFields, Pointers
    <3>2. Moves(t, "search", rec[c].next, task[t].prev, task[t].mem, task[t].fp)
      BY <2>3, <3>1, <1>1, PoolFields, CurMoves
    <3> QED
      BY <3>2 DEF Moves, Becomes, Shape
  <2> QED
    BY <1>1, <2>1, <2>2, <2>3
<1> QED
  BY <1>1, <1>2, <1>3, WalkTyped

LEMMA CountTyped == \A s \in Nat : Count(s) \in Nat
<1> TAKE s \in Nat
<1>1. s + RecSize \in Int /\ Width \in Nat /\ Width > 0
  BY PoolSizes, HeapSizes
<1> QED
  BY <1>1 DEF Count

LEMMA CallocTyped ==
    ASSUME PTInv, NEW t \in Task, Calloc(t) \/ InCalloc(t) \/ CallocReturns(t)
    PROVE  PTInv'
<1>1. CASE Calloc(t)
  <2>1. HeapTyped'
    <3>1. Count(task[t].size) \in Nat
      BY PoolFields, CountTyped
    <3> QED
      BY <1>1, <3>1, HeapVarsTyped, MallocBeginTyped DEF Calloc, MallocRefused, PTInv
  <2>2. /\ task' \in [Task -> TaskRec] /\ \A u \in Task \ {t} : task'[u] = task[u]
        /\ Shape(t)'
    <3>1. CASE Go(t, "calloc")
      BY <3>1, PoolFields, GoMoves DEF Moves, Becomes, Shape, Points
    <3>2. CASE Return(t)
      BY <3>2, PoolFields, ReturnBecomes DEF Becomes, Shape
    <3> QED
      BY <1>1, <3>1, <3>2 DEF Calloc
  <2> QED
    BY <1>1, <2>1, <2>2, WalkTyped DEF Calloc
<1>2. CASE InCalloc(t)
  <2>1. HeapTyped'
    BY <1>2, HeapStepTyped DEF InCalloc, PTInv
  <2>2. rec' \in [Offset -> RecordType]
    <3>1. Cleared \in RecordType
      BY Pointers DEF Cleared, Record, RecordType
    <3> QED
      BY <3>1, <1>2, PoolFields DEF InCalloc
  <2>3. task' = task /\ UNCHANGED <<first_user_addr, free_ptr, boot, chain, lost>>
    BY <1>2 DEF InCalloc
  <2>4. PoolTyped' /\ \A u \in Task : Shape(u)'
    BY <2>2, <2>3 DEF PTInv, PoolTyped, Shape
  <2> QED
    BY <2>1, <2>4 DEF PTInv
<1>3. CASE CallocReturns(t)
  <2>1. HeapTyped'
    BY <1>3, CallocReturnTyped DEF CallocReturns, PTInv
  <2>2. /\ task' \in [Task -> TaskRec] /\ \A u \in Task \ {t} : task'[u] = task[u]
        /\ Shape(t)'
    <3>1. CASE blk[t] = Null
      BY <3>1, <1>3, PoolFields, ReturnBecomes DEF CallocReturns, Becomes, Shape
    <3>2. CASE blk[t] # Null
      <4>1. task' = [task EXCEPT ![t].mem = blk[t], ![t].pc = "getfree"]
        BY <3>2, <1>3 DEF CallocReturns
      <4>2. Moves(t, "getfree", task[t].cur, task[t].prev, blk[t], task[t].fp)
        BY <4>1, PoolFields, MemMoves DEF Points
      <4> QED
        BY <3>2, <4>2 DEF Moves, Becomes, Shape
    <3> QED
      BY <3>1, <3>2
  <2> QED
    BY <1>3, <2>1, <2>2, WalkTyped DEF CallocReturns
<1> QED
  BY <1>1, <1>2, <1>3

LEMMA FreePtrTyped ==
    ASSUME PTInv, NEW t \in Task, GetFree(t) \/ PutFree(t)
    PROVE  PTInv'
<1>1. CASE GetFree(t)
  <2>1. task' = [task EXCEPT ![t].fp = lfree, ![t].pc = "putfree"]
        /\ task[t].pc = "getfree" /\ UNCHANGED heapVars
        /\ UNCHANGED <<rec, first_user_addr, free_ptr, boot, chain, lost>>
    BY <1>1 DEF GetFree, At
  <2>2. Moves(t, "putfree", task[t].cur, task[t].prev, task[t].mem, lfree)
    BY <2>1, PoolFields, FpMoves DEF Points
  <2>3. Shape(t)
    BY DEF PTInv
  <2>4. Shape(t)' /\ task' \in [Task -> TaskRec] /\ \A u \in Task \ {t} : task'[u] = task[u]
    BY <2>1, <2>2, <2>3 DEF Moves, Becomes, Shape
  <2> QED
    BY <2>1, <2>4, WalkTyped, HeapVarsTyped DEF PTInv
<1>2. CASE PutFree(t)
  <2>1. /\ task[t].pc = "putfree" /\ UNCHANGED heapVars /\ free_ptr' = task[t].fp
        /\ UNCHANGED <<rec, first_user_addr, boot, chain, lost>>
        /\ \/ task[t].op = "allocate" /\ Go(t, "fill")
           \/ Return(t)
    BY <1>2 DEF PutFree, At
  <2>2. Shape(t)
    BY DEF PTInv
  <2>3. Shape(t)' /\ task' \in [Task -> TaskRec] /\ \A u \in Task \ {t} : task'[u] = task[u]
    <3>1. CASE task[t].op = "allocate" /\ Go(t, "fill")
      BY <3>1, <2>1, <2>2, PoolFields, GoMoves DEF Moves, Becomes, Shape, Points
    <3>2. CASE Return(t)
      BY <3>2, PoolFields, ReturnBecomes DEF Becomes, Shape
    <3> QED
      BY <2>1, <3>1, <3>2
  <2>4. \A u \in Task : Shape(u)'
    BY <2>3, ShapeKept
  <2>5. PoolTyped'
    BY <2>1, <2>3, PoolFields DEF PTInv, PoolTyped
  <2>6. HeapTyped'
    BY <2>1, HeapVarsTyped DEF PTInv
  <2> QED
    BY <2>4, <2>5, <2>6 DEF PTInv
<1> QED
  BY <1>1, <1>2

LEMMA FillTyped ==
    ASSUME PTInv, NEW t \in Task, Fill(t)
    PROVE  PTInv'
<1>1. /\ task[t].pc = "fill" /\ UNCHANGED heapVars
      /\ rec' = [rec EXCEPT ![task[t].mem] = Record(task[t].name, task[t].size, Null)]
      /\ task' = [task EXCEPT ![t].pc = "add", ![t].cur = first_user_addr]
      /\ UNCHANGED <<first_user_addr, free_ptr, boot, chain, lost>>
  BY DEF Fill, At
<1>2. Record(task[t].name, task[t].size, Null) \in RecordType
  BY PoolFields, Pointers DEF Record, RecordType
<1>3. rec' \in [Offset -> RecordType]
  BY <1>1, <1>2, PoolFields
<1>4. Moves(t, "add", first_user_addr, task[t].prev, task[t].mem, task[t].fp)
  BY <1>1, PoolFields, BeginMoves DEF Points
<1>5. Shape(t)
  BY DEF PTInv
<1>6. Shape(t)' /\ task' \in [Task -> TaskRec] /\ \A u \in Task \ {t} : task'[u] = task[u]
  BY <1>1, <1>4, <1>5 DEF Moves, Becomes, Shape
<1>7. \A u \in Task : Shape(u)'
  BY <1>6, ShapeKept
<1>8. PoolTyped'
  BY <1>1, <1>3, <1>6 DEF PTInv, PoolTyped
<1>9. HeapTyped'
  BY <1>1, HeapVarsTyped DEF PTInv
<1> QED
  BY <1>7, <1>8, <1>9 DEF PTInv

\* A record whose next is written is a record.
LEMMA NextTyped ==
    ASSUME NEW r \in [Offset -> RecordType], NEW o \in Offset, NEW x \in Pointer
    PROVE  /\ [r EXCEPT ![o].next = x] \in [Offset -> RecordType]
           /\ \A q \in Offset :
                 /\ [r EXCEPT ![o].next = x][q].name = r[q].name
                 /\ [r EXCEPT ![o].next = x][q].size = r[q].size
                 /\ q # o => [r EXCEPT ![o].next = x][q].next = r[q].next
           /\ [r EXCEPT ![o].next = x][o].next = x
<1> DEFINE h == [r[o] EXCEPT !.next = x]
           w == [r EXCEPT ![o].next = x]
<1>1. h \in RecordType /\ h.name = r[o].name /\ h.size = r[o].size /\ h.next = x
  BY DEF RecordType
<1>2. w = [r EXCEPT ![o] = h]
  OBVIOUS
<1> HIDE DEF h, w
<1>3. w \in [Offset -> RecordType] /\ \A q \in Offset : w[q] = IF q = o THEN h ELSE r[q]
  BY <1>1, <1>2
<1>4. /\ \A q \in Offset : w[q].name = r[q].name /\ w[q].size = r[q].size
                           /\ (q # o => w[q].next = r[q].next)
      /\ w[o].next = x
  BY <1>1, <1>3
<1> QED
  BY <1>3, <1>4 DEF w

LEMMA AddTyped ==
    ASSUME PTInv, NEW t \in Task, dpm_user_rtm_add(t)
    PROVE  PTInv'
<1> DEFINE c == task[t].cur
<1>0. task[t].pc = "add" /\ UNCHANGED <<heapVars, free_ptr, boot, lost>>
  BY DEF dpm_user_rtm_add, At
<1>h. HeapTyped'
  BY <1>0, HeapVarsTyped DEF PTInv
<1>m. task[t].mem \in Offset
  BY <1>0, PoolFields, Pointers DEF PTInv, Shape
<1>1. CASE c # Null /\ rec[c].next # Null
  <2>1. /\ task' = [task EXCEPT ![t].cur = rec[c].next]
        /\ UNCHANGED <<rec, first_user_addr, chain>>
    BY <1>1 DEF dpm_user_rtm_add
  <2>2. rec[c].next \in Pointer
    BY <1>1, PoolFields, Pointers
  <2>3. Moves(t, "add", rec[c].next, task[t].prev, task[t].mem, task[t].fp)
    BY <2>1, <2>2, <1>0, PoolFields, CurMoves
  <2>4. Shape(t)' /\ task' \in [Task -> TaskRec] /\ \A u \in Task \ {t} : task'[u] = task[u]
    BY <2>3, <1>m, Pointers DEF Moves, Becomes, Shape
  <2> QED
    BY <2>1, <2>4, <1>0, <1>h, WalkTyped
<1>2. CASE ~(c # Null /\ rec[c].next # Null)
  <2>1. Link(t) /\ chain' = Append(chain, task[t].mem) /\ Return(t)
    BY <1>2 DEF dpm_user_rtm_add
  <2>2. rec' \in [Offset -> RecordType] /\ first_user_addr' \in Pointer
    <3>1. CASE c = Null
      BY <3>1, <2>1, <1>m, PoolFields DEF Link
    <3>2. CASE c # Null
      <4>1. rec' = [rec EXCEPT ![c].next = task[t].mem] /\ first_user_addr' = first_user_addr
        BY <3>2, <2>1 DEF Link
      <4>2. c \in Offset
        BY <3>2, PoolFields, Pointers
      <4> QED
        BY <4>1, <4>2, PoolFields, NextTyped
    <3> QED
      BY <3>1, <3>2
  <2>3. chain' \in Seq(Offset)
    BY <2>1, <1>m, PoolFields
  <2>4. Shape(t)' /\ task' \in [Task -> TaskRec] /\ \A u \in Task \ {t} : task'[u] = task[u]
    BY <2>1, PoolFields, ReturnBecomes DEF Becomes, Shape
  <2>5. \A u \in Task : Shape(u)'
    BY <2>4, ShapeKept
  <2>6. PoolTyped'
    BY <2>2, <2>3, <2>4, <1>0 DEF PTInv, PoolTyped
  <2> QED
    BY <2>5, <2>6, <1>h DEF PTInv
<1> QED
  BY <1>1, <1>2

LEMMA RemoveTyped ==
    ASSUME PTInv, NEW t \in Task, dpm_user_rtm_remove(t)
    PROVE  PTInv'
<1> DEFINE c == task[t].cur
<1>0. task[t].pc = "find" /\ UNCHANGED <<heapVars, free_ptr, boot, lost>>
  BY DEF dpm_user_rtm_remove, At
<1>s. Shape(t)
  BY DEF PTInv
<1>h. HeapTyped'
  BY <1>0, HeapVarsTyped DEF PTInv
<1>1. CASE c = Null
  <2>1. Return(t) /\ UNCHANGED <<rec, first_user_addr, chain>>
    BY <1>1 DEF dpm_user_rtm_remove
  <2>2. Shape(t)' /\ task' \in [Task -> TaskRec] /\ \A u \in Task \ {t} : task'[u] = task[u]
    BY <2>1, PoolFields, ReturnBecomes DEF Becomes, Shape
  <2> QED
    BY <2>1, <2>2, <1>0, <1>h, WalkTyped
<1>2. CASE c # Null /\ rec[c].name = task[t].name
  <2>1. Unlink(t) /\ chain' = Without(c) /\ Go(t, "free")
    BY <1>2 DEF dpm_user_rtm_remove
  <2>2. rec[c].next \in Pointer
    BY <1>2, PoolFields, Pointers
  <2>3. rec' \in [Offset -> RecordType] /\ first_user_addr' \in Pointer
    <3>1. CASE task[t].prev = Null
      BY <3>1, <2>1, <2>2, PoolFields DEF Unlink
    <3>2. CASE task[t].prev # Null
      <4>1. /\ rec' = [rec EXCEPT ![task[t].prev].next = rec[c].next]
            /\ first_user_addr' = first_user_addr
        BY <3>2, <2>1 DEF Unlink
      <4>2. task[t].prev \in Offset
        BY <3>2, PoolFields, Pointers
      <4> QED
        BY <4>1, <4>2, <2>2, PoolFields, NextTyped
    <3> QED
      BY <3>1, <3>2
  <2>4. chain' \in Seq(Offset)
    BY <2>1, PoolFields, WithoutTyped
  <2>5. Shape(t)' /\ task' \in [Task -> TaskRec] /\ \A u \in Task \ {t} : task'[u] = task[u]
    BY <2>1, <1>0, <1>s, <1>2, PoolFields, GoMoves DEF Moves, Becomes, Shape, Points
  <2>6. \A u \in Task : Shape(u)'
    BY <2>5, ShapeKept
  <2>7. PoolTyped'
    BY <2>3, <2>4, <2>5, <1>0 DEF PTInv, PoolTyped
  <2> QED
    BY <2>6, <2>7, <1>h DEF PTInv
<1>3. CASE c # Null /\ rec[c].name # task[t].name
  <2>1. /\ task' = [task EXCEPT ![t].prev = c, ![t].cur = rec[c].next]
        /\ UNCHANGED <<rec, first_user_addr, chain>>
    BY <1>3 DEF dpm_user_rtm_remove
  <2>2. rec[c].next \in Pointer
    BY <1>3, PoolFields, Pointers
  <2>3. Moves(t, "find", rec[c].next, c, task[t].mem, task[t].fp)
    BY <2>1, <2>2, <1>0, PoolFields, WalkMoves
  <2>4. Shape(t)' /\ task' \in [Task -> TaskRec] /\ \A u \in Task \ {t} : task'[u] = task[u]
    BY <2>3, <1>0, <1>s DEF Moves, Becomes, Shape
  <2> QED
    BY <2>1, <2>4, <1>0, <1>h, WalkTyped
<1> QED
  BY <1>1, <1>2, <1>3

LEMMA PoolFreeTyped ==
    ASSUME PTInv, NEW t \in Task, Free(t)
    PROVE  PTInv'
<1>1. /\ task[t].pc = "free" /\ da16x_dpm_rtm_mem_free(t, task[t].cur) /\ Go(t, "getfree")
      /\ UNCHANGED <<rec, first_user_addr, free_ptr, boot, chain, lost>>
  BY DEF Free, At
<1>2. Shape(t)
  BY DEF PTInv
<1>3. task[t].cur \in Offset /\ task[t].op = "release"
  BY <1>1, <1>2, PoolFields, Pointers DEF Shape
<1>4. HeapTyped'
  BY <1>1, <1>3, FreeTyped DEF PTInv
<1>5. Shape(t)' /\ task' \in [Task -> TaskRec] /\ \A u \in Task \ {t} : task'[u] = task[u]
  BY <1>1, <1>3, PoolFields, GoMoves DEF Moves, Becomes, Shape, Points
<1> QED
  BY <1>1, <1>4, <1>5, WalkTyped

LEMMA FreshTyped == FreshMem \in [Offset -> Headers]
  BY FreshLinked DEF Linked

LEMMA RestartedTyped ==
    ASSUME Restarted
    PROVE  TaskTyped'
  BY Sizes DEF Restarted, TaskTyped, Places

LEMMA PowerOffTyped ==
    ASSUME PTInv, NEW kept \in BOOLEAN, PowerOff(kept)
    PROVE  PTInv'
<1>1. /\ boot' \in {"wakeup", "fresh"} /\ task' = [t \in Task |-> Idle]
      /\ lost' = lost \cup UNION {InHand(t) : t \in Task}
      /\ Restarted /\ UNCHANGED <<heap, rec, first_user_addr, free_ptr, chain>>
  BY DEF PowerOff
<1>2. HeapTyped'
  BY <1>1, RestartedTyped DEF PTInv, HeapTyped, heap
<1>3. lost' \subseteq Offset
  <2>1. ASSUME NEW t \in Task PROVE InHand(t) \subseteq Offset
    <3>1. Shape(t)
      BY DEF PTInv
    <3> QED
      BY <3>1, PoolFields, Pointers DEF InHand, At, Shape
  <2> QED
    BY <2>1, <1>1 DEF PTInv, PoolTyped
<1>4. PoolTyped'
  BY <1>1, <1>3, IdleTyped DEF PTInv, PoolTyped
<1>5. \A u \in Task : Shape(u)'
  BY <1>1 DEF Shape, Idle
<1> QED
  BY <1>2, <1>4, <1>5 DEF PTInv

LEMMA ClearedTyped == Cleared \in RecordType
  BY Pointers DEF Cleared, Record, RecordType

LEMMA CreateTyped ==
    ASSUME PTInv, dpm_user_rtm_pool_create
    PROVE  PTInv'
<1>0. boot' = "done" /\ task' = task
  BY DEF dpm_user_rtm_pool_create
<1>s. \A u \in Task : Shape(u)'
  BY <1>0 DEF PTInv, Shape
<1>1. CASE UNCHANGED <<heapVars, rec, first_user_addr, free_ptr, chain, lost>>
  BY <1>0, <1>s, <1>1, HeapVarsTyped DEF PTInv, PoolTyped
<1>2. CASE /\ da16x_dpm_rtm_mem_init
           /\ rec' = [o \in Offset |-> Cleared]
           /\ first_user_addr' = Null /\ free_ptr' = 0
           /\ chain' = <<>> /\ lost' = {}
  <2>1. HeapTyped'
    BY <1>2, FreshTyped, RestartedTyped, Sizes DEF da16x_dpm_rtm_mem_init, HeapTyped
  <2>2. PoolTyped'
    BY <1>0, <1>2, ClearedTyped, Pointers, Sizes DEF PTInv, PoolTyped
  <2> QED
    BY <2>1, <2>2, <1>s DEF PTInv
<1>3. CASE /\ da16x_dpm_rtm_mem_recovery(free_ptr)
           /\ UNCHANGED <<rec, first_user_addr, free_ptr, chain, lost>>
  <2>1. mem' \in [Offset -> Headers] /\ lfree' \in Offset /\ live' \subseteq Offset
    BY <1>3, HdrTyped DEF da16x_dpm_rtm_mem_recovery, PTInv, PoolTyped, HeapTyped
  <2>2. HeapTyped'
    BY <2>1, <1>3, RestartedTyped DEF da16x_dpm_rtm_mem_recovery, HeapTyped
  <2>3. PoolTyped'
    BY <1>0, <1>3 DEF PTInv, PoolTyped
  <2> QED
    BY <2>2, <2>3, <1>s DEF PTInv
<1> QED
  BY <1>1, <1>2, <1>3 DEF dpm_user_rtm_pool_create

LEMMA PoolStarts == PoolInit => PTInv
<1> SUFFICES ASSUME PoolInit PROVE PTInv
  OBVIOUS
<1>1. HeapTyped
  BY FreshTyped, Sizes DEF PoolInit, HeapInit, HeapTyped, TaskTyped, Places
<1>2. PoolTyped
  BY ClearedTyped, IdleTyped, Pointers, Sizes DEF PoolInit, PoolTyped
<1>3. \A t \in Task : Shape(t)
  BY DEF PoolInit, Shape, Idle
<1> QED
  BY <1>1, <1>2, <1>3 DEF PTInv

LEMMA PoolNextTyped == PTInv /\ [Next]_vars => PTInv'
<1> SUFFICES ASSUME PTInv, [Next]_vars PROVE PTInv'
  OBVIOUS
<1>1. ASSUME NEW t \in Task, NEW n \in Name,
             (\E s \in Bytes : Allocate(t, n, s)) \/ Release(t, n)
      PROVE  PTInv'
  BY <1>1, CallTyped
<1>2. ASSUME NEW t \in Task, Step(t) PROVE PTInv'
  BY <1>2, SearchTyped, CallocTyped, FreePtrTyped, FillTyped, AddTyped, RemoveTyped,
     PoolFreeTyped DEF Step
<1>3. ASSUME NEW kept \in BOOLEAN, PowerOff(kept) PROVE PTInv'
  BY <1>3, PowerOffTyped
<1>4. CASE dpm_user_rtm_pool_create
  BY <1>4, CreateTyped
<1>5. CASE UNCHANGED vars
  <2>1. UNCHANGED heapVars /\ UNCHANGED poolVars
    BY <1>5 DEF vars
  <2>2. HeapTyped'
    BY <2>1, HeapVarsTyped DEF PTInv
  <2>3. PoolTyped' /\ \A t \in Task : Shape(t)'
    BY <2>1 DEF PTInv, PoolTyped, Shape, poolVars
  <2> QED
    BY <2>2, <2>3 DEF PTInv
<1> QED
  BY <1>1, <1>2, <1>3, <1>4, <1>5 DEF Next

LEMMA PoolTypes == Spec => []PTInv
  BY PoolStarts, PoolNextTyped, PTL DEF Spec

\* The pool's state keeps its types for every number of tasks that allocate and
\* release at the same time without a lock, and for a power-down at any moment:
\* however the chain and the heap are damaged, no pointer leaves the pool.
THEOREM PointersStayInPool == Spec => []TypeOK
<1>1. PTInv => TypeOK
  BY TypesAgree DEF PTInv
<1> QED
  BY <1>1, PoolTypes, PTL

-----------------------------------------------------------------------------
(* One calling task                                                        *)

\* One task uses the pool, its requests do not wrap, and no power-down cuts a
\* release off between the heap's free and the store of free_ptr.
OneCaller ==
    /\ \A t, u \in Task : t = u
    /\ \A s \in Bytes : s + RecSize < Width
    /\ <<"release", "getfree">> \notin SleepAt /\ <<"release", "putfree">> \notin SleepAt

\* A used block that has no record in the chain.
Good(o) == o \in live \ {Size} /\ mem[o].used /\ o \notin Chained

\* No record of the chain has the name n.
Unknown(n) == \A i \in 1 .. Len(chain) : rec[chain[i]].name # n

\* The call has searched the chain and not yet added its record.
Searched(t) ==
    \/ task[t].pc \in {"malloc", "calloc", "fill", "add"}
    \/ task[t].pc \in {"getfree", "putfree"} /\ task[t].op = "allocate"

\* A release has freed its block and not yet stored free_ptr.
Stale(t) == task[t].op = "release" /\ task[t].pc \in {"getfree", "putfree"}

CallOK(t) ==
    /\ task[t].pc = "search" \/ Searched(t) => task[t].op = "allocate"
    /\ task[t].op = "allocate" => task[t].size \in Bytes /\ task[t].size > 0
    /\ task[t].op # "none" => task[t].name \in Name
    /\ task[t].mem # Null =>
          task[t].op = "allocate" /\ task[t].pc \in {"getfree", "putfree", "fill", "add"}

InHeap(t) ==
    /\ hpc[t] = "out" <=> task[t].pc # "calloc"
    /\ hpc[t] \in {"out", "scan"} => blk[t] = Null
    /\ task[t].pc = "calloc" => want[t] = task[t].size + RecSize

Hands(t) ==
    /\ blk[t] # Null => Good(blk[t]) /\ Room(blk[t]) >= want[t]
    /\ task[t].mem # Null => Good(task[t].mem) /\ Room(task[t].mem) >= task[t].size + RecSize
    /\ task[t].pc = "free" => Good(task[t].cur)

Searches(t) ==
    task[t].pc = "search" =>
        \/ task[t].cur = Null /\ Unknown(task[t].name)
        \/ \E i \in 1 .. Len(chain) :
              /\ task[t].cur = chain[i]
              /\ \A j \in 1 .. i - 1 : rec[chain[j]].name # task[t].name

Adds(t) ==
    /\ Searched(t) => Unknown(task[t].name)
    /\ task[t].pc = "add" =>
          /\ rec[task[t].mem] = Record(task[t].name, task[t].size, Null)
          /\ \/ task[t].cur = Null /\ chain = <<>>
             \/ \E i \in 1 .. Len(chain) : task[t].cur = chain[i]

Finds(t) ==
    task[t].pc = "find" =>
        \/ task[t].cur = Null
        \/ \E i \in 1 .. Len(chain) :
              /\ task[t].cur = chain[i]
              /\ task[t].prev = IF i = 1 THEN Null ELSE chain[i - 1]

Copies(t) == task[t].pc = "putfree" => task[t].fp = lfree

TaskOK(t) ==
    CallOK(t) /\ InHeap(t) /\ Hands(t) /\ Searches(t) /\ Adds(t) /\ Finds(t) /\ Copies(t)

\* The lfree that a wake-up would find misses no unused block.
FreePtrOK ==
    boot # "fresh" /\ (\A t \in Task : ~Stale(t)) => Seen(mem, live, free_ptr)

BootOK == boot # "done" => \A t \in Task : task[t] = Idle

\* The inductive invariant of the pool.
PInv ==
    /\ PTInv /\ HInv /\ RecordsIntact /\ NoLeak /\ FreePtrOK /\ BootOK
    /\ \A t \in Task : TaskOK(t)

\* What RecordsIntact says of the blocks of the chain.
LEMMA ChainFacts ==
    ASSUME PTInv, RecordsIntact
    PROVE  /\ Len(chain) \in Nat
           /\ \A i \in 1 .. Len(chain) :
                 /\ chain[i] \in Offset /\ chain[i] # Null
                 /\ chain[i] \in live \ {Size} /\ mem[chain[i]].used
                 /\ chain[i] \in Chained
           /\ \A i, j \in 1 .. Len(chain) : chain[i] = chain[j] => i = j
           /\ \A o \in Chained : \E i \in 1 .. Len(chain) : o = chain[i]
<1>1. chain \in Seq(Offset)
  BY DEF PTInv, PoolTyped
<1>2. Len(chain) \in Nat /\ \A i \in 1 .. Len(chain) : chain[i] \in Offset
  BY <1>1
<1>3. \A i \in 1 .. Len(chain) : chain[i] \in live \ {Size} /\ mem[chain[i]].used
  BY DEF RecordsIntact
<1>4. \A i, j \in 1 .. Len(chain) : chain[i] = chain[j] => i = j
  BY DEF RecordsIntact
<1>5. \A o : o \in Chained <=> \E i \in 1 .. Len(chain) : o = chain[i]
  BY DEF Chained
<1> QED
  BY <1>2, <1>3, <1>4, <1>5, Pointers

\* The chain is intact when its records and their blocks stay.
LEMMA RecordsKept ==
    ASSUME RecordsIntact, chain' = chain, first_user_addr' = first_user_addr,
           \A i \in 1 .. Len(chain) :
              /\ rec'[chain[i]] = rec[chain[i]]
              /\ chain[i] \in live' /\ mem'[chain[i]].used
              /\ mem'[chain[i]].next = mem[chain[i]].next
    PROVE  RecordsIntact'
  BY DEF RecordsIntact, Room

\* A step of the calling task that leaves the heap and the chain alone.
LEMMA Still ==
    ASSUME PInv, OneCaller, NEW t \in Task, task[t].pc # "idle" \/ boot = "done",
           UNCHANGED <<heapVars, first_user_addr, chain, lost, boot>>,
           \A i \in 1 .. Len(chain) : rec'[chain[i]] = rec[chain[i]],
           PTInv', TaskOK(t)', FreePtrOK', InHand(t) \subseteq InHand(t)'
    PROVE  PInv'
<1>h. HInv'
  BY HeapUnchanged DEF PInv
<1>m. mem' = mem /\ live' = live
  BY DEF heapVars
<1>1. RecordsIntact'
  BY <1>m, RecordsKept DEF PInv, RecordsIntact
<1>2. boot = "done" /\ boot' = "done"
  BY DEF PInv, BootOK, Idle
<1>3. BootOK'
  BY <1>2 DEF BootOK
<1>4. \A u \in Task : u = t
  BY DEF OneCaller
<1>5. NoLeak'
  <2> SUFFICES ASSUME NEW o \in live \ {Size}, mem[o].used
               PROVE  o \in Chained' \cup lost' \cup UNION {InHand(u)' : u \in Task}
    BY <1>m DEF NoLeak
  <2>1. o \in Chained \cup lost \cup UNION {InHand(u) : u \in Task}
    BY DEF PInv, NoLeak
  <2>2. Chained' = Chained /\ lost' = lost
    BY DEF Chained
  <2> QED
    BY <2>1, <2>2, <1>4
<1>6. \A u \in Task : TaskOK(u)'
  BY <1>4
<1> QED
  BY <1>h, <1>1, <1>3, <1>5, <1>6 DEF PInv

\* Nothing that the invariant says of blocks and names changes.
LEMMA Unmoved ==
    ASSUME UNCHANGED <<heapVars, rec, chain>>
    PROVE  /\ \A o : (Good(o)' <=> Good(o)) /\ Room(o)' = Room(o)
           /\ \A n : Unknown(n)' <=> Unknown(n)
<1>1. mem' = mem /\ live' = live /\ rec' = rec /\ chain' = chain
  BY DEF heapVars
<1> QED
  BY <1>1 DEF Good, Room, Unknown, Chained

\* The first record, if there is one, is where the walks begin.
LEMMA FirstRecord ==
    ASSUME PTInv, RecordsIntact
    PROVE  \/ first_user_addr = Null /\ chain = <<>> /\ Len(chain) = 0
           \/ 1 \in 1 .. Len(chain) /\ first_user_addr = chain[1]
<1>1. chain \in Seq(Offset)
  BY DEF PTInv, PoolTyped
<1>2. CASE chain = <<>>
  BY <1>2 DEF RecordsIntact
<1>3. CASE chain # <<>>
  <2>1. Len(chain) \in Nat \ {0}
    BY <1>1, <1>3, EmptySeq
  <2> QED
    BY <2>1, <1>3 DEF RecordsIntact
<1> QED
  BY <1>2, <1>3

\* The record behind the one at position i.
LEMMA NextRecord ==
    ASSUME PTInv, RecordsIntact, NEW i \in 1 .. Len(chain)
    PROVE  \/ rec[chain[i]].next = Null /\ i = Len(chain)
           \/ i + 1 \in 1 .. Len(chain) /\ rec[chain[i]].next = chain[i + 1]
<1>1. Len(chain) \in Nat
  BY ChainFacts
<1>2. rec[chain[i]].next = IF i = Len(chain) THEN Null ELSE chain[i + 1]
  BY DEF RecordsIntact
<1> QED
  BY <1>1, <1>2

LEMMA CallKeeps ==
    ASSUME PInv, OneCaller, NEW t \in Task, NEW n \in Name,
           (\E s \in Bytes : Allocate(t, n, s)) \/ Release(t, n)
    PROVE  PInv'
<1>1. PTInv'
  BY CallTyped DEF PInv
<1>2. /\ boot = "done" /\ task[t].pc = "idle"
      /\ UNCHANGED <<heapVars, rec, first_user_addr, free_ptr, boot, chain, lost>>
  BY DEF Allocate, Release, At
<1>3. PTInv /\ RecordsIntact /\ TaskOK(t)
  BY DEF PInv
<1>i. hpc[t] = "out" /\ blk[t] = Null /\ hpc' = hpc /\ blk' = blk /\ want' = want /\ lfree' = lfree
  BY <1>2, <1>3 DEF TaskOK, InHeap, heapVars
<1>o. \A u \in Task : u = t
  BY DEF OneCaller
<1>f. \/ first_user_addr = Null /\ chain = <<>> /\ Len(chain) = 0
      \/ 1 \in 1 .. Len(chain) /\ first_user_addr = chain[1]
  BY <1>3, FirstRecord
<1>u. \A o : (Good(o)' <=> Good(o)) /\ Room(o)' = Room(o)
  BY <1>2, Unmoved
<1>m. task[t].mem = Null
  BY <1>2, <1>3 DEF TaskOK, CallOK
<1>h. InHand(t) = {}
  BY <1>2, <1>i, <1>m DEF InHand, At
<1>p. mem' = mem /\ live' = live
  BY <1>2 DEF heapVars
<1>4. ASSUME NEW s \in Bytes, Allocate(t, n, s) PROVE TaskOK(t)' /\ FreePtrOK'
  <2> DEFINE r == [Idle EXCEPT !.pc = "search", !.op = "allocate", !.name = n,
                               !.size = s, !.cur = first_user_addr]
  <2>1. r \in TaskRec /\ r.pc = "search" /\ r.op = "allocate" /\ r.name = n /\ r.size = s
        /\ r.cur = first_user_addr /\ r.mem = Null /\ r.prev = Null
    BY <1>3, Sizes, PoolFields, Pointers, PoolSizes DEF Idle, TaskRec, Points, Calls
  <2>2. task' = [task EXCEPT ![t] = r] /\ s > 0
    BY <1>4 DEF Allocate
  <2>3. task'[t] = r
    BY <2>2, <1>3, PoolFields
  <2> HIDE DEF r
  <2>4. CallOK(t)' /\ InHeap(t)' /\ Hands(t)' /\ Finds(t)' /\ Copies(t)'
    BY <2>1, <2>2, <2>3, <1>i DEF CallOK, Searched, InHeap, Hands, Finds, Copies
  <2>5. Searches(t)'
    BY <2>1, <2>3, <1>2, <1>f DEF Searches, Unknown
  <2>6. Adds(t)'
    BY <2>1, <2>3 DEF Adds, Searched
  <2>7. FreePtrOK'
    <3>1. ~Stale(t)
      BY <1>2 DEF Stale
    <3> QED
      BY <3>1, <1>2, <1>o, <1>p DEF PInv, FreePtrOK
  <2> QED
    BY <2>4, <2>5, <2>6, <2>7 DEF TaskOK
<1>5. ASSUME Release(t, n) PROVE TaskOK(t)' /\ FreePtrOK'
  <2> DEFINE r == [Idle EXCEPT !.pc = "find", !.op = "release", !.name = n,
                               !.cur = first_user_addr]
  <2>1. r \in TaskRec /\ r.pc = "find" /\ r.op = "release" /\ r.name = n
        /\ r.cur = first_user_addr /\ r.mem = Null /\ r.prev = Null
    BY <1>3, Sizes, PoolFields, Pointers DEF Idle, TaskRec, Points, Calls
  <2>2. task' = [task EXCEPT ![t] = r]
    BY <1>5 DEF Release
  <2>3. task'[t] = r
    BY <2>2, <1>3, PoolFields
  <2> HIDE DEF r
  <2>4. CallOK(t)' /\ InHeap(t)' /\ Hands(t)' /\ Searches(t)' /\ Copies(t)' /\ Adds(t)'
    BY <2>1, <2>3, <1>i DEF CallOK, Searched, InHeap, Hands, Searches, Copies, Adds
  <2>5. Finds(t)'
    BY <2>1, <2>3, <1>2, <1>f DEF Finds
  <2>6. FreePtrOK'
    <3>1. ~Stale(t)
      BY <1>2 DEF Stale
    <3> QED
      BY <3>1, <1>2, <1>o, <1>p DEF PInv, FreePtrOK
  <2> QED
    BY <2>4, <2>5, <2>6 DEF TaskOK
<1>6. TaskOK(t)' /\ FreePtrOK'
  BY <1>4, <1>5
<1> QED
  BY <1>1, <1>2, <1>6, <1>h, Still

\* What the invariant says of the calling task, taken apart.
LEMMA Parts ==
    ASSUME PInv, NEW t \in Task
    PROVE  /\ PTInv /\ HInv /\ RecordsIntact /\ TaskOK(t)
           /\ CallOK(t) /\ InHeap(t) /\ Hands(t) /\ Searches(t) /\ Adds(t) /\ Finds(t)
           /\ Copies(t)
  BY DEF PInv, TaskOK

LEMMA SearchKeeps ==
    ASSUME PInv, OneCaller, NEW t \in Task, dpm_user_rtm_search(t)
    PROVE  PInv'
<1> DEFINE c == task[t].cur
<1>1. /\ task[t].pc = "search" /\ UNCHANGED heapVars
      /\ UNCHANGED <<rec, first_user_addr, free_ptr, boot, chain, lost>>
      /\ \/ c = Null /\ Go(t, "malloc")
         \/ c # Null /\ Return(t)
         \/ c # Null /\ rec[c].name # task[t].name /\ task' = [task EXCEPT ![t].cur = rec[c].next]
  BY DEF dpm_user_rtm_search, At
<1>p. /\ PTInv /\ RecordsIntact /\ CallOK(t) /\ InHeap(t) /\ Hands(t) /\ Searches(t)
      /\ task \in [Task -> TaskRec]
  BY Parts, PoolFields
<1>2. PTInv'
  BY <1>p, SearchTyped
<1>i. /\ hpc[t] = "out" /\ blk[t] = Null /\ task[t].mem = Null /\ task[t].op = "allocate"
      /\ hpc' = hpc /\ blk' = blk /\ want' = want /\ mem' = mem /\ live' = live
  BY <1>1, <1>p DEF InHeap, CallOK, heapVars
<1>h. InHand(t) = {}
  BY <1>1, <1>i DEF InHand, At
<1>u. /\ \A o : (Good(o)' <=> Good(o)) /\ Room(o)' = Room(o)
      /\ \A n : Unknown(n)' <=> Unknown(n)
  BY <1>1, Unmoved
<1>f. FreePtrOK'
  <2>1. \A u \in Task : u = t
    BY DEF OneCaller
  <2>2. ~Stale(t)
    BY <1>1 DEF Stale
  <2> QED
    BY <2>1, <2>2, <1>1, <1>i DEF PInv, FreePtrOK
<1>3. TaskOK(t)'
  <2>1. CASE c = Null /\ Go(t, "malloc")
    <3>1. Moves(t, "malloc", task[t].cur, task[t].prev, task[t].mem, task[t].fp)
      BY <2>1, <1>p, GoMoves DEF Points
    <3>2. Unknown(task[t].name)
      BY <2>1, <1>1, <1>p, ChainFacts DEF Searches
    <3> QED
      BY <3>1, <3>2, <1>p, <1>i, <1>u
      DEF Moves, Becomes, TaskOK, CallOK, Searched, InHeap, Hands, Searches, Adds, Finds, Copies
  <2>2. CASE Return(t)
    <3>1. Becomes(t, "idle", "none", NoName, 0, Null, Null, Null, 0)
      BY <2>2, <1>p, ReturnBecomes
    <3> QED
      BY <3>1, <1>i
      DEF Becomes, TaskOK, CallOK, Searched, InHeap, Hands, Searches, Adds, Finds, Copies
  <2>3. CASE /\ c # Null /\ rec[c].name # task[t].name
             /\ task' = [task EXCEPT ![t].cur = rec[c].next]
    <3>1. PICK i \in 1 .. Len(chain) :
             c = chain[i] /\ \A j \in 1 .. i - 1 : rec[chain[j]].name # task[t].name
      BY <2>3, <1>1, <1>p DEF Searches
    <3>2. rec[c].next \in Pointer
      BY <2>3, <1>p, PoolFields, Pointers
    <3>3. Moves(t, "search", rec[c].next, task[t].prev, task[t].mem, task[t].fp)
      BY <2>3, <3>2, <1>1, <1>p, CurMoves
    <3>4. Len(chain) \in Nat
      BY <1>p, ChainFacts
    <3>5. \A j \in 1 .. i : rec[chain[j]].name # task[t].name
      BY <3>1, <3>4, <2>3
    <3>6. \/ rec[c].next = Null /\ i = Len(chain)
          \/ i + 1 \in 1 .. Len(chain) /\ rec[c].next = chain[i + 1]
      BY <3>1, <1>p, NextRecord
    <3>7. Searches(t)'
      <4>1. CASE rec[c].next = Null /\ i = Len(chain)
        BY <4>1, <3>3, <3>5, <1>1 DEF Moves, Becomes, Searches, Unknown
      <4>2. CASE i + 1 \in 1 .. Len(chain) /\ rec[c].next = chain[i + 1]
        <5>1. \A j \in 1 .. (i + 1) - 1 : rec[chain[j]].name # task[t].name
          BY <3>4, <3>5
        <5> QED
          BY <4>2, <5>1, <3>3, <1>1 DEF Moves, Becomes, Searches
      <4> QED
        BY <3>6, <4>1, <4>2
    <3> QED
      BY <3>3, <3>7, <1>p, <1>i
      DEF Moves, Becomes, TaskOK, CallOK, Searched, InHeap, Hands, Adds, Finds, Copies
  <2> QED
    BY <1>1, <2>1, <2>2, <2>3
<1> QED
  BY <1>1, <1>2, <1>3, <1>f, <1>h, Still

LEMMA GetFreeKeeps ==
    ASSUME PInv, OneCaller, NEW t \in Task, GetFree(t)
    PROVE  PInv'
<1>1. /\ task[t].pc = "getfree" /\ UNCHANGED heapVars
      /\ UNCHANGED <<rec, first_user_addr, free_ptr, boot, chain, lost>>
      /\ task' = [task EXCEPT ![t].fp = lfree, ![t].pc = "putfree"]
  BY DEF GetFree, At
<1>p. /\ PTInv /\ CallOK(t) /\ InHeap(t) /\ Hands(t) /\ Adds(t)
      /\ task \in [Task -> TaskRec] /\ lfree \in Offset
  BY Parts, PoolFields
<1>2. PTInv'
  BY <1>p, FreePtrTyped
<1>i. /\ hpc[t] = "out" /\ blk[t] = Null /\ hpc' = hpc /\ blk' = blk /\ want' = want
      /\ mem' = mem /\ live' = live /\ lfree' = lfree
  BY <1>1, <1>p DEF InHeap, heapVars
<1>u. /\ \A o : (Good(o)' <=> Good(o)) /\ Room(o)' = Room(o)
      /\ \A n : Unknown(n)' <=> Unknown(n)
  BY <1>1, Unmoved
<1>m. Moves(t, "putfree", task[t].cur, task[t].prev, task[t].mem, lfree)
  BY <1>1, <1>p, FpMoves DEF Points
<1>h. InHand(t) \subseteq InHand(t)'
  BY <1>1, <1>i, <1>m DEF InHand, At, Moves, Becomes
<1>f. FreePtrOK'
  <2>1. \A u \in Task : u = t
    BY DEF OneCaller
  <2>2. Stale(t)' <=> Stale(t)
    BY <1>1, <1>m DEF Stale, Moves, Becomes
  <2> QED
    BY <2>1, <2>2, <1>1, <1>i DEF PInv, FreePtrOK
<1>3. TaskOK(t)'
  BY <1>m, <1>1, <1>p, <1>i, <1>u
  DEF Moves, Becomes, TaskOK, CallOK, Searched, InHeap, Hands, Searches, Adds, Finds, Copies
<1> QED
  BY <1>1, <1>2, <1>3, <1>f, <1>h, Still

LEMMA PutFreeKeeps ==
    ASSUME PInv, OneCaller, NEW t \in Task, PutFree(t)
    PROVE  PInv'
<1>1. /\ task[t].pc = "putfree" /\ UNCHANGED heapVars /\ free_ptr' = task[t].fp
      /\ UNCHANGED <<rec, first_user_addr, boot, chain, lost>>
      /\ \/ task[t].op = "allocate" /\ Go(t, "fill")
         \/ task[t].op # "allocate" /\ Return(t)
  BY DEF PutFree, At
<1>p. /\ PTInv /\ HInv /\ CallOK(t) /\ InHeap(t) /\ Hands(t) /\ Adds(t) /\ Copies(t)
      /\ task \in [Task -> TaskRec]
  BY Parts, PoolFields
<1>2. PTInv'
  BY <1>p, FreePtrTyped
<1>i. /\ hpc[t] = "out" /\ blk[t] = Null /\ hpc' = hpc /\ blk' = blk /\ want' = want
      /\ mem' = mem /\ live' = live /\ lfree' = lfree
  BY <1>1, <1>p DEF InHeap, heapVars
<1>u. /\ \A o : (Good(o)' <=> Good(o)) /\ Room(o)' = Room(o)
      /\ \A n : Unknown(n)' <=> Unknown(n)
  BY <1>1, Unmoved
<1>f. FreePtrOK'
  <2>1. Seen(mem, live, lfree) /\ free_ptr' = lfree
    BY <1>1, <1>p DEF HInv, Copies
  <2> QED
    BY <2>1, <1>i DEF FreePtrOK
<1>3. CASE task[t].op = "allocate" /\ Go(t, "fill")
  <2>m. Moves(t, "fill", task[t].cur, task[t].prev, task[t].mem, task[t].fp)
    BY <1>3, <1>p, GoMoves DEF Points
  <2>1. TaskOK(t)'
    BY <2>m, <1>1, <1>3, <1>p, <1>i, <1>u
    DEF Moves, Becomes, TaskOK, CallOK, Searched, InHeap, Hands, Searches, Adds, Finds, Copies
  <2>2. InHand(t) \subseteq InHand(t)'
    BY <2>m, <1>1, <1>i DEF InHand, At, Moves, Becomes
  <2> QED
    BY <2>1, <2>2, <1>1, <1>2, <1>f, Still
<1>4. CASE task[t].op # "allocate" /\ Return(t)
  <2>m. Becomes(t, "idle", "none", NoName, 0, Null, Null, Null, 0)
    BY <1>4, <1>p, ReturnBecomes
  <2>1. TaskOK(t)'
    BY <2>m, <1>i
    DEF Becomes, TaskOK, CallOK, Searched, InHeap, Hands, Searches, Adds, Finds, Copies
  <2>2. InHand(t) = {}
    BY <1>1, <1>4, <1>p, <1>i DEF InHand, At, CallOK
  <2> QED
    BY <2>1, <2>2, <1>1, <1>2, <1>f, Still
<1> QED
  BY <1>1, <1>3, <1>4

LEMMA FillKeeps ==
    ASSUME PInv, OneCaller, NEW t \in Task, Fill(t)
    PROVE  PInv'
<1> DEFINE m == task[t].mem
           r == Record(task[t].name, task[t].size, Null)
<1>1. /\ task[t].pc = "fill" /\ UNCHANGED heapVars
      /\ rec' = [rec EXCEPT ![m] = r]
      /\ task' = [task EXCEPT ![t].pc = "add", ![t].cur = first_user_addr]
      /\ UNCHANGED <<first_user_addr, free_ptr, boot, chain, lost>>
  BY DEF Fill, At
<1>p. /\ PTInv /\ RecordsIntact /\ CallOK(t) /\ InHeap(t) /\ Hands(t) /\ Adds(t)
      /\ task \in [Task -> TaskRec] /\ rec \in [Offset -> RecordType]
      /\ m \in Pointer /\ first_user_addr \in Pointer
  BY Parts, PoolFields
<1>2. PTInv'
  BY <1>p, FillTyped
<1>i. /\ hpc[t] = "out" /\ blk[t] = Null /\ hpc' = hpc /\ blk' = blk /\ want' = want
      /\ mem' = mem /\ live' = live /\ lfree' = lfree
  BY <1>1, <1>p DEF InHeap, heapVars
<1>m. /\ m # Null /\ m \in Offset /\ Good(m) /\ task[t].op = "allocate"
  BY <1>1, <1>p, Pointers DEF PTInv, Shape, Hands, CallOK
<1>r. /\ rec'[m] = r
      /\ \A i \in 1 .. Len(chain) : rec'[chain[i]] = rec[chain[i]]
  <2> HIDE DEF r
  <2> QED
    BY <1>1, <1>m, <1>p, ChainFacts DEF Good
<1>b. Moves(t, "add", first_user_addr, task[t].prev, m, task[t].fp)
  BY <1>1, <1>p, BeginMoves DEF Points
<1>u. \A o : (Good(o)' <=> Good(o)) /\ Room(o)' = Room(o)
  BY <1>1, <1>i DEF Good, Room, Chained
<1>k. Unknown(task[t].name)'
  BY <1>1, <1>p, <1>r DEF Unknown, Adds, Searched
<1>h. InHand(t) \subseteq InHand(t)'
  BY <1>1, <1>i, <1>b DEF InHand, At, Moves, Becomes
<1>f. FreePtrOK'
  <2>1. \A u \in Task : u = t
    BY DEF OneCaller
  <2>2. ~Stale(t)
    BY <1>1 DEF Stale
  <2> QED
    BY <2>1, <2>2, <1>1, <1>i DEF PInv, FreePtrOK
<1>3. CallOK(t)' /\ InHeap(t)' /\ Searches(t)' /\ Finds(t)' /\ Copies(t)'
  BY <1>b, <1>1, <1>p, <1>i, <1>m
  DEF Moves, Becomes, CallOK, Searched, InHeap, Searches, Finds, Copies
<1>4. Hands(t)'
  BY <1>b, <1>p, <1>i, <1>u DEF Moves, Becomes, Hands
<1>5. Adds(t)'
  <2>1. \/ first_user_addr = Null /\ chain = <<>>
        \/ \E i \in 1 .. Len(chain) : first_user_addr = chain[i]
    BY <1>p, FirstRecord
  <2> HIDE DEF m
  <2>2. task'[t].cur = first_user_addr /\ task'[t].mem = m
        /\ task'[t].name = task[t].name /\ task'[t].size = task[t].size
    BY <1>b DEF Moves, Becomes
  <2>3. rec'[task'[t].mem] = Record(task'[t].name, task'[t].size, Null)
    BY <2>2, <1>r
  <2> QED
    BY <2>1, <2>2, <2>3, <1>1, <1>k DEF Adds
<1>6. TaskOK(t)'
  BY <1>3, <1>4, <1>5 DEF TaskOK
<1> QED
  BY <1>1, <1>2, <1>6, <1>f, <1>h, <1>r, Still

\* The chain with a record at its end.
LEMMA Appended ==
    ASSUME chain \in Seq(Offset), NEW m \in Offset, chain' = Append(chain, m)
    PROVE  /\ Len(chain) \in Nat /\ Len(chain') = Len(chain) + 1 /\ chain' # <<>>
           /\ chain'[Len(chain) + 1] = m
           /\ \A i \in 1 .. Len(chain) : chain'[i] = chain[i]
           /\ Chained' = Chained \cup {m}
<1> DEFINE L == Len(chain)
<1>1. /\ L \in Nat /\ Len(chain') = L + 1
      /\ \A i \in 1 .. L + 1 : chain'[i] = IF i = L + 1 THEN m ELSE chain[i]
  BY AppendProperties
<1> HIDE DEF L
<1>2. \A i \in 1 .. L : chain'[i] = chain[i]
  BY <1>1
<1>3. chain'[L + 1] = m
  BY <1>1
<1>4. Chained' = Chained \cup {m}
  <2>1. ASSUME NEW o \in Chained' PROVE o \in Chained \cup {m}
    <3>1. PICK i \in 1 .. L + 1 : o = chain'[i]
      BY <1>1, <2>1 DEF Chained
    <3>2. i = L + 1 \/ i \in 1 .. L
      BY <1>1
    <3> QED
      BY <3>1, <3>2, <1>2, <1>3 DEF Chained, L
  <2>2. ASSUME NEW o \in Chained \cup {m} PROVE o \in Chained'
    <3>1. CASE o = m
      <4>1. L + 1 \in 1 .. Len(chain')
        BY <1>1
      <4> QED
        BY <3>1, <4>1, <1>3 DEF Chained
    <3>2. CASE o \in Chained
      <4>1. PICK i \in 1 .. L : o = chain[i]
        BY <3>2 DEF Chained, L
      <4>2. i \in 1 .. Len(chain') /\ chain'[i] = o
        BY <4>1, <1>1, <1>2
      <4> QED
        BY <4>2 DEF Chained
    <3> QED
      BY <3>1, <3>2, <2>2
  <2> QED
    BY <2>1, <2>2
<1>5. chain' # <<>>
  <2>1. L + 1 # 0
    BY <1>1
  <2> QED
    BY <2>1, <1>1, EmptySeq
<1> QED
  BY <1>1, <1>2, <1>3, <1>4, <1>5 DEF L

LEMMA RoomTyped ==
    ASSUME HInv
    PROVE  \A o \in live : Room(o) \in Int
<1>1. \A o \in live : o \in Int /\ mem[o].next \in Int
  BY Blocks
<1> QED
  BY <1>1, Sizes DEF Room

\* RecordsIntact after a step, field by field.
LEMMA IntactAfter ==
    ASSUME first_user_addr' = IF chain' = <<>> THEN Null ELSE chain'[1],
           \A i \in 1 .. Len(chain') : chain'[i] \in live' \ {Size} /\ mem'[chain'[i]].used,
           \A i \in 1 .. Len(chain') :
              rec'[chain'[i]].next = IF i = Len(chain') THEN Null ELSE chain'[i + 1],
           \A i \in 1 .. Len(chain') : rec'[chain'[i]].size + RecSize <= Room(chain[i])',
           \A i, j \in 1 .. Len(chain') :
              rec'[chain'[j]].name = rec'[chain'[i]].name => i = j
    PROVE  RecordsIntact'
  BY DEF RecordsIntact

\* RecordsIntact, field by field.
LEMMA IntactNow ==
    ASSUME RecordsIntact
    PROVE  /\ \A i \in 1 .. Len(chain) : rec[chain[i]].size + RecSize <= Room(chain[i])
           /\ \A i, j \in 1 .. Len(chain) :
                 rec[chain[j]].name = rec[chain[i]].name => i = j
  BY DEF RecordsIntact

\* The record is linked: the chain is intact with it.
LEMMA LinkKeepsRecords ==
    ASSUME PInv, NEW t \in Task, task[t].pc = "add", UNCHANGED heapVars, Link(t),
           ~(task[t].cur # Null /\ rec[task[t].cur].next # Null),
           chain' = Append(chain, task[t].mem)
    PROVE  RecordsIntact'
<1> DEFINE m == task[t].mem
           c == task[t].cur
           L == Len(chain)
<1>p. /\ PTInv /\ HInv /\ RecordsIntact /\ CallOK(t) /\ Hands(t) /\ Adds(t)
      /\ rec \in [Offset -> RecordType] /\ m \in Pointer /\ c \in Pointer
      /\ chain \in Seq(Offset)
  BY Parts, PoolFields
<1>m. /\ m # Null /\ m \in Offset /\ Good(m) /\ Room(m) >= task[t].size + RecSize
      /\ Unknown(task[t].name) /\ rec[m] = Record(task[t].name, task[t].size, Null)
  BY <1>p, Pointers DEF PTInv, Shape, Hands, Adds, Searched
<1>n. rec[m].name = task[t].name /\ rec[m].size = task[t].size /\ rec[m].next = Null
  BY <1>m DEF Record
<1>h. mem' = mem /\ live' = live
  BY DEF heapVars
<1>a. /\ L \in Nat /\ Len(chain') = L + 1 /\ chain' # <<>> /\ chain'[L + 1] = m
      /\ \A i \in 1 .. L : chain'[i] = chain[i]
  BY <1>p, <1>m, Appended
<1>c. /\ \A i \in 1 .. L : /\ chain[i] \in Offset /\ chain[i] # Null /\ chain[i] # m
                           /\ chain[i] \in live \ {Size} /\ mem[chain[i]].used
      /\ \A i, j \in 1 .. L : chain[i] = chain[j] => i = j
  BY <1>p, <1>m, ChainFacts DEF Good
\* What Link writes: the record at the end of the chain, if there is one.
<1>w. /\ \/ L = 0 /\ first_user_addr' = m
         \/ L \in 1 .. L /\ first_user_addr' = first_user_addr
      /\ \A o \in Offset : rec'[o].name = rec[o].name /\ rec'[o].size = rec[o].size
      /\ \A i \in 1 .. L : rec'[chain[i]].next = chain'[i + 1]
      /\ rec'[m].next = Null
  <2>1. CASE c = Null
    <3>1. chain = <<>> /\ L = 0
      BY <2>1, <1>p, <1>c, EmptySeq DEF Adds
    <3>2. first_user_addr' = m /\ rec' = rec
      BY <2>1 DEF Link
    <3> QED
      BY <3>1, <3>2, <1>n
  <2>2. CASE c # Null
    <3>1. PICK i \in 1 .. L : c = chain[i]
      BY <2>2, <1>p DEF Adds
    <3>2. i = L
      <4>1. rec[chain[i]].next = Null
        BY <2>2, <3>1
      <4> QED
        BY <4>1, <1>c, <1>p, NextRecord
    <3>3. first_user_addr' = first_user_addr /\ rec' = [rec EXCEPT ![c].next = m]
      BY <2>2 DEF Link
    <3>4. c \in Offset /\ c # m
      BY <3>1, <1>c
    <3>5. /\ \A q \in Offset : /\ rec'[q].name = rec[q].name /\ rec'[q].size = rec[q].size
                               /\ q # c => rec'[q].next = rec[q].next
          /\ rec'[c].next = m
      <4> HIDE DEF m, c
      <4> QED
        BY <3>3, <3>4, <1>p, <1>m, NextTyped
    <3>6. ASSUME NEW j \in 1 .. L PROVE rec'[chain[j]].next = chain'[j + 1]
      <4>1. CASE j = L
        BY <4>1, <3>1, <3>2, <3>5, <1>a
      <4>2. CASE j # L
        <5>1. chain[j] # c /\ chain[j] \in Offset
          BY <4>2, <3>1, <3>2, <1>c
        <5>2. rec[chain[j]].next = chain[j + 1] /\ j + 1 \in 1 .. L
          BY <4>2, <1>p, NextRecord
        <5> QED
          BY <5>1, <5>2, <3>5, <1>a
      <4> QED
        BY <4>1, <4>2
    <3>7. rec'[m].next = Null
      BY <3>4, <3>5, <1>m, <1>n
    <3> QED
      BY <3>1, <3>2, <3>3, <3>5, <3>6, <3>7
  <2> QED
    BY <2>1, <2>2
<1>f. first_user_addr' = IF chain' = <<>> THEN Null ELSE chain'[1]
  <2>1. CASE L = 0 /\ first_user_addr' = m
    BY <2>1, <1>a
  <2>2. CASE L \in 1 .. L /\ first_user_addr' = first_user_addr
    <3>1. 1 \in 1 .. L /\ chain # <<>>
      BY <2>2, <1>a, EmptySeq
    <3>2. first_user_addr = chain[1]
      BY <3>1, <1>p DEF RecordsIntact
    <3> QED
      BY <3>1, <3>2, <2>2, <1>a
  <2> QED
    BY <2>1, <2>2, <1>w
<1> HIDE DEF m, c, L
<1>r. \A o : Room(o)' = Room(o)
  BY <1>h DEF Room
<1>k. \A j \in 1 .. L : /\ chain'[j] = chain[j] /\ rec'[chain[j]].name = rec[chain[j]].name
                        /\ rec'[chain[j]].size = rec[chain[j]].size
                        /\ rec[chain[j]].name # task[t].name
  BY <1>a, <1>w, <1>c, <1>m DEF Unknown, L
<1>l. rec'[m].name = task[t].name /\ rec'[m].size = task[t].size
  BY <1>w, <1>m, <1>n
<1>e. \A i \in 1 .. L + 1 : i = L + 1 \/ i \in 1 .. L
  BY <1>a
<1>1. ASSUME NEW i \in 1 .. L + 1
      PROVE  chain'[i] \in live' \ {Size} /\ mem'[chain'[i]].used
  BY <1>a, <1>c, <1>h, <1>m, <1>e DEF Good
<1>2. ASSUME NEW i \in 1 .. L + 1
      PROVE  rec'[chain'[i]].next = IF i = L + 1 THEN Null ELSE chain'[i + 1]
  <2>1. CASE i = L + 1
    BY <2>1, <1>a, <1>w
  <2>2. CASE i # L + 1
    BY <2>2, <1>a, <1>w, <1>e
  <2> QED
    BY <2>1, <2>2
<1>3. ASSUME NEW i \in 1 .. L + 1
      PROVE  rec'[chain'[i]].size + RecSize <= Room(chain[i])'
  <2>1. CASE i = L + 1
    <3>1. task[t].size \in Nat /\ RecSize \in Nat
      BY <1>p, PoolFields, PoolSizes
    <3>2. Room(m) \in Int
      BY <1>p, <1>m, RoomTyped DEF Good
    <3> QED
      BY <2>1, <3>1, <3>2, <1>r, <1>l, <1>a, <1>m
  <2>2. CASE i # L + 1
    <3>1. i \in 1 .. L
      BY <2>2, <1>e
    <3>2. rec[chain[i]].size + RecSize <= Room(chain[i])
      BY <3>1, <1>p, IntactNow DEF L
    <3> QED
      BY <3>1, <3>2, <1>r, <1>k
  <2> QED
    BY <2>1, <2>2
<1>4. ASSUME NEW i \in 1 .. L + 1, NEW j \in 1 .. L + 1,
             rec'[chain'[j]].name = rec'[chain'[i]].name
      PROVE  i = j
  <2>1. CASE i = L + 1 \/ j = L + 1
    BY <2>1, <1>4, <1>e, <1>k, <1>l, <1>a
  <2>2. CASE i \in 1 .. L /\ j \in 1 .. L
    <3>1. rec[chain[j]].name = rec[chain[i]].name
      BY <2>2, <1>4, <1>k
    <3> QED
      BY <3>1, <2>2, <1>p, IntactNow DEF L
  <2> QED
    BY <2>1, <2>2, <1>e
<1> QED
  BY <1>1, <1>2, <1>3, <1>4, <1>f, <1>a, IntactAfter

\* A step of the calling task that leaves the heap alone.
LEMMA Relinked ==
    ASSUME PInv, OneCaller, NEW t \in Task, task[t].pc # "idle",
           UNCHANGED heapVars, lost' = lost, boot' = boot,
           PTInv', RecordsIntact', TaskOK(t)', FreePtrOK',
           Chained \cup InHand(t) \subseteq Chained' \cup InHand(t)'
    PROVE  PInv'
<1>h. HInv'
  BY HeapUnchanged DEF PInv
<1>m. mem' = mem /\ live' = live
  BY DEF heapVars
<1>1. BootOK'
  BY DEF PInv, BootOK, Idle
<1>2. \A u \in Task : u = t
  BY DEF OneCaller
<1>3. NoLeak'
  <2> SUFFICES ASSUME NEW o \in live \ {Size}, mem[o].used
               PROVE  o \in Chained' \cup lost' \cup UNION {InHand(u)' : u \in Task}
    BY <1>m DEF NoLeak
  <2>1. o \in Chained \cup lost \cup UNION {InHand(u) : u \in Task}
    BY DEF PInv, NoLeak
  <2> QED
    BY <2>1, <1>2
<1>4. \A u \in Task : TaskOK(u)'
  BY <1>2
<1> QED
  BY <1>h, <1>1, <1>3, <1>4 DEF PInv

LEMMA AddKeeps ==
    ASSUME PInv, OneCaller, NEW t \in Task, dpm_user_rtm_add(t)
    PROVE  PInv'
<1> DEFINE m == task[t].mem
           c == task[t].cur
<1>1. task[t].pc = "add" /\ UNCHANGED heapVars /\ UNCHANGED <<free_ptr, boot, lost>>
  BY DEF dpm_user_rtm_add, At
<1>p. /\ PTInv /\ HInv /\ RecordsIntact /\ CallOK(t) /\ InHeap(t) /\ Hands(t) /\ Adds(t)
      /\ task \in [Task -> TaskRec] /\ rec \in [Offset -> RecordType]
      /\ m \in Pointer /\ c \in Pointer /\ chain \in Seq(Offset)
  BY Parts, PoolFields
<1>2. PTInv'
  BY <1>p, AddTyped
<1>i. /\ hpc[t] = "out" /\ blk[t] = Null /\ hpc' = hpc /\ blk' = blk /\ want' = want
      /\ mem' = mem /\ live' = live /\ lfree' = lfree
  BY <1>1, <1>p DEF InHeap, heapVars
<1>m. m # Null /\ m \in Offset /\ task[t].op = "allocate"
  BY <1>1, <1>p, Pointers DEF PTInv, Shape, CallOK, Searched
<1>f. FreePtrOK'
  <2>1. \A u \in Task : u = t
    BY DEF OneCaller
  <2>2. ~Stale(t)
    BY <1>1 DEF Stale
  <2> QED
    BY <2>1, <2>2, <1>1, <1>i DEF PInv, FreePtrOK
<1>3. CASE c # Null /\ rec[c].next # Null
  <2>1. /\ task' = [task EXCEPT ![t].cur = rec[c].next]
        /\ UNCHANGED <<rec, first_user_addr, chain>>
    BY <1>3 DEF dpm_user_rtm_add
  <2>2. rec[c].next \in Pointer
    BY <1>3, <1>p, PoolFields, Pointers
  <2>3. Moves(t, "add", rec[c].next, task[t].prev, m, task[t].fp)
    BY <2>1, <2>2, <1>1, <1>p, CurMoves
  <2>4. \E i \in 1 .. Len(chain) : rec[c].next = chain[i]
    <3>1. PICK i \in 1 .. Len(chain) : c = chain[i]
      BY <1>1, <1>3, <1>p DEF Adds
    <3> QED
      BY <3>1, <1>3, <1>p, NextRecord
  <2>u. /\ \A o : (Good(o)' <=> Good(o)) /\ Room(o)' = Room(o)
        /\ \A n : Unknown(n)' <=> Unknown(n)
    BY <2>1, <1>1, Unmoved
  <2>5. CallOK(t)' /\ InHeap(t)' /\ Searches(t)' /\ Finds(t)' /\ Copies(t)'
    BY <2>3, <1>1, <1>p, <1>i, <1>m
    DEF Moves, Becomes, CallOK, Searched, InHeap, Searches, Finds, Copies
  <2>6. Hands(t)'
    BY <2>3, <2>u, <1>p, <1>i DEF Moves, Becomes, Hands
  <2>7. Adds(t)'
    BY <2>1, <2>3, <2>4, <2>u, <1>1, <1>p DEF Moves, Becomes, Adds, Searched
  <2>8. TaskOK(t)'
    BY <2>5, <2>6, <2>7 DEF TaskOK
  <2>9. InHand(t) \subseteq InHand(t)'
    BY <2>3, <1>1, <1>i DEF InHand, At, Moves, Becomes
  <2> QED
    BY <2>1, <2>8, <2>9, <1>1, <1>2, <1>f, Still
<1>4. CASE ~(c # Null /\ rec[c].next # Null)
  <2>1. Link(t) /\ chain' = Append(chain, m) /\ Return(t)
    BY <1>4 DEF dpm_user_rtm_add
  <2>2. RecordsIntact'
    BY <2>1, <1>4, <1>1, LinkKeepsRecords
  <2>3. Becomes(t, "idle", "none", NoName, 0, Null, Null, Null, 0)
    BY <2>1, <1>p, ReturnBecomes
  <2>4. TaskOK(t)'
    BY <2>3, <1>i
    DEF Becomes, TaskOK, CallOK, Searched, InHeap, Hands, Searches, Adds, Finds, Copies
  <2>5. Chained' = Chained \cup {m}
    BY <2>1, <1>p, <1>m, Appended
  <2>6. InHand(t) = {m}
    BY <1>1, <1>i, <1>m DEF InHand, At
  <2> QED
    BY <2>2, <2>4, <2>5, <2>6, <1>1, <1>2, <1>f, Relinked
<1> QED
  BY <1>3, <1>4

\* The chain without its record at position i.
LEMMA RemovedIs ==
    ASSUME PTInv, RecordsIntact, NEW i \in 1 .. Len(chain), chain' = Without(chain[i])
    PROVE  /\ Len(chain) \in Nat /\ i \in Nat /\ Len(chain') = Len(chain) - 1
           /\ \A j \in 1 .. Len(chain) - 1 :
                 (j < i => chain'[j] = chain[j]) /\ (j >= i => chain'[j] = chain[j + 1])
           /\ Chained' = Chained \ {chain[i]}
<1> DEFINE L == Len(chain)
<1>1. /\ L \in Nat /\ chain \in Seq(Offset)
      /\ \A j, k \in 1 .. L : chain[j] = chain[k] => j = k
  BY ChainFacts DEF PTInv, PoolTyped
<1>2. i \in Nat /\ i >= 1 /\ i <= L /\ L - 1 \in Nat
  BY <1>1
<1>3. chain' = [j \in 1 .. L - 1 |->
                  IF \E k \in 1 .. j : chain[k] = chain[i] THEN chain[j + 1] ELSE chain[j]]
  BY DEF Without
<1>4. chain' \in Seq(Offset)
  BY <1>1, WithoutTyped
<1>5. Len(chain') = L - 1
  <2>1. DOMAIN chain' = 1 .. L - 1
    BY <1>3
  <2>2. Len(chain') \in Nat /\ DOMAIN chain' = 1 .. Len(chain')
    BY <1>4, LenProperties
  <2> QED
    BY <2>1, <2>2, <1>2
<1> HIDE DEF L
<1>6. ASSUME NEW j \in 1 .. L - 1
      PROVE  (j < i => chain'[j] = chain[j]) /\ (j >= i => chain'[j] = chain[j + 1])
  <2>1. chain'[j] = IF \E k \in 1 .. j : chain[k] = chain[i] THEN chain[j + 1] ELSE chain[j]
    BY <1>3
  <2>2. CASE j < i
    <3>1. ASSUME NEW k \in 1 .. j, chain[k] = chain[i] PROVE FALSE
      <4>1. k \in 1 .. L /\ i \in 1 .. L /\ k # i
        BY <2>2, <1>2, <1>1
      <4> QED
        BY <4>1, <3>1, <1>1
    <3> QED
      BY <2>1, <2>2, <3>1, <1>2
  <2>3. CASE j >= i
    <3>1. i \in 1 .. j
      BY <2>3, <1>2
    <3> QED
      BY <2>1, <2>3, <3>1, <1>2
  <2> QED
    BY <2>2, <2>3, <1>2
<1>7. ASSUME NEW o \in Chained' PROVE o \in Chained /\ o # chain[i]
  <2>1. PICK j \in 1 .. L - 1 : o = chain'[j]
    BY <1>5, <1>7 DEF Chained
  <2>2. PICK k \in 1 .. L : o = chain[k] /\ k # i
    <3>1. CASE j < i
      BY <3>1, <2>1, <1>6, <1>2, <1>1
    <3>2. CASE j >= i
      <4>1. j + 1 \in 1 .. L /\ j + 1 # i
        BY <3>2, <1>2, <1>1
      <4> QED
        BY <4>1, <3>2, <2>1, <1>6
    <3> QED
      BY <3>1, <3>2, <1>2
  <2>3. i \in 1 .. L
    BY <1>2, <1>1
  <2> QED
    BY <2>2, <2>3, <1>1 DEF Chained, L
<1>8. ASSUME NEW o \in Chained, o # chain[i] PROVE o \in Chained'
  <2>1. PICK k \in 1 .. L : o = chain[k]
    BY DEF Chained, L
  <2>2. k # i
    BY <2>1, <1>8
  <2>3. CASE k < i
    <3>1. k \in 1 .. L - 1 /\ chain'[k] = o
      BY <2>1, <2>3, <1>2, <1>1, <1>6
    <3> QED
      BY <3>1, <1>5 DEF Chained
  <2>4. CASE k > i
    <3>1. k - 1 \in 1 .. L - 1 /\ k - 1 >= i /\ (k - 1) + 1 = k
      BY <2>4, <1>2, <1>1
    <3>2. chain'[k - 1] = o
      BY <3>1, <2>1, <1>6
    <3> QED
      BY <3>1, <3>2, <1>5 DEF Chained
  <2> QED
    BY <2>2, <2>3, <2>4, <1>2, <1>1
<1>9. Chained' = Chained \ {chain[i]}
  BY <1>7, <1>8
<1> QED
  BY <1>1, <1>2, <1>5, <1>6, <1>9 DEF L

\* The record is unlinked: the chain is intact without it.
LEMMA UnlinkKeepsRecords ==
    ASSUME PInv, NEW t \in Task, UNCHANGED heapVars, Unlink(t),
           NEW i \in 1 .. Len(chain), task[t].cur = chain[i],
           task[t].prev = IF i = 1 THEN Null ELSE chain[i - 1],
           chain' = Without(chain[i])
    PROVE  RecordsIntact' /\ \A o \in Offset : rec'[o].name = rec[o].name
<1> DEFINE c == chain[i]
           L == Len(chain)
<1>p. /\ PTInv /\ HInv /\ RecordsIntact /\ rec \in [Offset -> RecordType]
      /\ chain \in Seq(Offset)
  BY Parts, PoolFields
<1>h. mem' = mem /\ live' = live
  BY DEF heapVars
<1>l. L \in Nat /\ i \in Nat /\ i >= 1 /\ i <= L /\ L - 1 \in Nat
  BY <1>p, ChainFacts
<1>a. /\ Len(chain') = L - 1
      /\ \A j \in 1 .. L - 1 :
            (j < i => chain'[j] = chain[j]) /\ (j >= i => chain'[j] = chain[j + 1])
  BY <1>p, RemovedIs
<1>c. /\ \A j \in 1 .. L : /\ chain[j] \in Offset /\ chain[j] # Null
                           /\ chain[j] \in live \ {Size} /\ mem[chain[j]].used
      /\ \A j, k \in 1 .. L : chain[j] = chain[k] => j = k
  BY <1>p, ChainFacts
<1>n. \A j \in 1 .. L : rec[chain[j]].next = IF j = L THEN Null ELSE chain[j + 1]
  BY <1>p DEF RecordsIntact
\* What Unlink writes.
<1>w. /\ \A o \in Offset : rec'[o].name = rec[o].name /\ rec'[o].size = rec[o].size
      /\ \A j \in 1 .. L : j # i - 1 => rec'[chain[j]].next = rec[chain[j]].next
      /\ i # 1 => rec'[chain[i - 1]].next = rec[c].next /\ first_user_addr' = first_user_addr
      /\ i = 1 => first_user_addr' = rec[c].next
  <2>1. CASE i = 1
    <3>1. first_user_addr' = rec[c].next /\ rec' = rec
      BY <2>1 DEF Unlink
    <3> QED
      BY <2>1, <3>1
  <2>2. CASE i # 1
    <3> DEFINE p == chain[i - 1]
    <3>1. i - 1 \in 1 .. L
      BY <2>2, <1>l
    <3>2. p \in Offset /\ p # Null
      BY <3>1, <1>c
    <3>3. rec' = [rec EXCEPT ![p].next = rec[c].next] /\ first_user_addr' = first_user_addr
      BY <2>2, <3>2 DEF Unlink
    <3>4. rec[c].next \in Pointer
      BY <1>l, <1>c, <1>p, PoolFields
    <3>5. /\ \A q \in Offset : /\ rec'[q].name = rec[q].name /\ rec'[q].size = rec[q].size
                               /\ q # p => rec'[q].next = rec[q].next
          /\ rec'[p].next = rec[c].next
      <4> HIDE DEF p, c
      <4> QED
        BY <3>2, <3>3, <3>4, <1>p, NextTyped
    <3>6. \A j \in 1 .. L : j # i - 1 => chain[j] # p /\ chain[j] \in Offset
      BY <3>1, <1>c
    <3> QED
      BY <2>2, <3>3, <3>5, <3>6
  <2> QED
    BY <2>1, <2>2
<1> HIDE DEF c, L
<1>r. \A o : Room(o)' = Room(o)
  BY <1>h DEF Room
\* Where the records of the new chain were.
<1>k. ASSUME NEW j \in 1 .. L - 1
      PROVE  \E k \in 1 .. L : /\ k = (IF j < i THEN j ELSE j + 1) /\ chain'[j] = chain[k]
                               /\ k # i
  <2>1. CASE j < i
    BY <2>1, <1>l, <1>a
  <2>2. CASE ~(j < i)
    <3>1. j >= i /\ j + 1 \in 1 .. L /\ j + 1 # i
      BY <2>2, <1>l
    <3> QED
      BY <2>2, <3>1, <1>a
  <2> QED
    BY <2>1, <2>2
<1>1. ASSUME NEW j \in 1 .. L - 1
      PROVE  chain'[j] \in live' \ {Size} /\ mem'[chain'[j]].used
  BY <1>k, <1>c, <1>h
<1>2. ASSUME NEW j \in 1 .. L - 1
      PROVE  rec'[chain'[j]].next = IF j = L - 1 THEN Null ELSE chain'[j + 1]
  <2>1. CASE j < i - 1
    <3>1. /\ j \in 1 .. L /\ j # L /\ j # L - 1 /\ j + 1 < i /\ j + 1 \in 1 .. L - 1
          /\ j < i /\ j # i - 1
      BY <2>1, <1>l
    <3> QED
      BY <3>1, <1>a, <1>w, <1>n
  <2>2. CASE j = i - 1
    <3>1. /\ i # 1 /\ j < i /\ i \in 1 .. L /\ (j = L - 1 <=> i = L) /\ j + 1 = i
          /\ (i # L => i \in 1 .. L - 1 /\ i >= i)
      BY <2>2, <1>l
    <3>2. chain'[j] = chain[i - 1] /\ rec'[chain'[j]].next = rec[chain[i]].next
      BY <3>1, <2>2, <1>a, <1>w DEF c
    <3>3. rec[chain[i]].next = IF i = L THEN Null ELSE chain[i + 1]
      BY <3>1, <1>n
    <3>4. i # L => chain'[i] = chain[i + 1]
      BY <3>1, <1>a
    <3> QED
      BY <3>1, <3>2, <3>3, <3>4
  <2>3. CASE j >= i
    <3>1. /\ j + 1 \in 1 .. L /\ (j = L - 1 <=> j + 1 = L) /\ j + 1 # i - 1
          /\ (j # L - 1 => j + 1 \in 1 .. L - 1 /\ j + 1 >= i)
      BY <2>3, <1>l
    <3>2. chain'[j] = chain[j + 1]
      BY <2>3, <1>a
    <3>3. rec'[chain[j + 1]].next = IF j + 1 = L THEN Null ELSE chain[(j + 1) + 1]
      BY <3>1, <1>w, <1>n
    <3>4. j # L - 1 => chain'[j + 1] = chain[(j + 1) + 1]
      BY <3>1, <1>a
    <3> QED
      BY <3>1, <3>2, <3>3, <3>4
  <2> QED
    BY <2>1, <2>2, <2>3, <1>l
<1>3. ASSUME NEW j \in 1 .. L - 1
      PROVE  rec'[chain'[j]].size + RecSize <= Room(chain[j])'
  <2>1. PICK k \in 1 .. L : chain'[j] = chain[k]
    BY <1>k
  <2>2. rec[chain[k]].size + RecSize <= Room(chain[k])
    BY <1>p, IntactNow DEF L
  <2> QED
    BY <2>1, <2>2, <1>c, <1>w, <1>r
<1>4. ASSUME NEW j1 \in 1 .. L - 1, NEW j2 \in 1 .. L - 1,
             rec'[chain'[j2]].name = rec'[chain'[j1]].name
      PROVE  j1 = j2
  <2>1. PICK k1 \in 1 .. L : k1 = (IF j1 < i THEN j1 ELSE j1 + 1) /\ chain'[j1] = chain[k1]
    BY <1>k
  <2>2. PICK k2 \in 1 .. L : k2 = (IF j2 < i THEN j2 ELSE j2 + 1) /\ chain'[j2] = chain[k2]
    BY <1>k
  <2>3. rec[chain[k2]].name = rec[chain[k1]].name
    <3>1. rec'[chain[k2]].name = rec'[chain[k1]].name
      BY <2>1, <2>2, <1>4
    <3>2. chain[k1] \in Offset /\ chain[k2] \in Offset
      BY <1>c
    <3> QED
      BY <3>1, <3>2, <1>w
  <2>4. k1 = k2
    BY <2>3, <1>p, IntactNow DEF L
  <2> QED
    BY <2>1, <2>2, <2>4, <1>l
<1>5. first_user_addr' = IF chain' = <<>> THEN Null ELSE chain'[1]
  <2>0. chain' \in Seq(Offset) /\ (chain' = <<>> <=> L = 1)
    <3>1. chain' \in Seq(Offset)
      BY <1>p, WithoutTyped
    <3> QED
      BY <3>1, <1>a, <1>l, EmptySeq
  <2>1. CASE i = 1
    <3>1. rec[chain[i]].next = IF i = L THEN Null ELSE chain[i + 1]
      BY <1>l, <1>n
    <3>2. L # 1 => 1 \in 1 .. L - 1
      BY <1>l
    <3>3. L # 1 => chain'[1] = chain[1 + 1]
      BY <3>2, <2>1, <1>a
    <3> QED
      BY <2>0, <2>1, <3>1, <3>3, <1>w DEF c
  <2>2. CASE i # 1
    <3>1. L # 1 /\ 1 \in 1 .. L - 1 /\ 1 < i /\ 1 \in 1 .. L
      BY <2>2, <1>l
    <3>2. first_user_addr = chain[1]
      BY <3>1, <1>p, FirstRecord DEF L
    <3> QED
      BY <2>0, <2>2, <3>1, <3>2, <1>a, <1>w
  <2> QED
    BY <2>1, <2>2
<1>6. RecordsIntact'
  BY <1>1, <1>2, <1>3, <1>4, <1>5, <1>a, IntactAfter
<1> QED
  BY <1>6, <1>w

LEMMA RemoveKeeps ==
    ASSUME PInv, OneCaller, NEW t \in Task, dpm_user_rtm_remove(t)
    PROVE  PInv'
<1> DEFINE c == task[t].cur
<1>1. task[t].pc = "find" /\ UNCHANGED heapVars /\ UNCHANGED <<free_ptr, boot, lost>>
  BY DEF dpm_user_rtm_remove, At
<1>p. /\ PTInv /\ HInv /\ RecordsIntact /\ CallOK(t) /\ InHeap(t) /\ Hands(t) /\ Finds(t)
      /\ task \in [Task -> TaskRec] /\ rec \in [Offset -> RecordType]
      /\ c \in Pointer /\ chain \in Seq(Offset)
  BY Parts, PoolFields
<1>2. PTInv'
  BY <1>p, RemoveTyped
<1>i. /\ hpc[t] = "out" /\ blk[t] = Null /\ hpc' = hpc /\ blk' = blk /\ want' = want
      /\ mem' = mem /\ live' = live /\ lfree' = lfree
  BY <1>1, <1>p DEF InHeap, heapVars
<1>m. task[t].mem = Null /\ task[t].op = "release"
  BY <1>1, <1>p DEF PTInv, Shape, CallOK
<1>h. InHand(t) = {}
  BY <1>1, <1>i, <1>m DEF InHand, At
<1>f. FreePtrOK'
  <2>1. \A u \in Task : u = t
    BY DEF OneCaller
  <2>2. ~Stale(t)
    BY <1>1 DEF Stale
  <2> QED
    BY <2>1, <2>2, <1>1, <1>i DEF PInv, FreePtrOK
<1>3. CASE c = Null
  <2>1. Return(t) /\ UNCHANGED <<rec, first_user_addr, chain>>
    BY <1>3 DEF dpm_user_rtm_remove
  <2>2. Becomes(t, "idle", "none", NoName, 0, Null, Null, Null, 0)
    BY <2>1, <1>p, ReturnBecomes
  <2>3. TaskOK(t)'
    BY <2>2, <1>i
    DEF Becomes, TaskOK, CallOK, Searched, InHeap, Hands, Searches, Adds, Finds, Copies
  <2> QED
    BY <2>1, <2>3, <1>1, <1>2, <1>f, <1>h, Still
<1>4. CASE c # Null /\ rec[c].name # task[t].name
  <2>1. /\ task' = [task EXCEPT ![t].prev = c, ![t].cur = rec[c].next]
        /\ UNCHANGED <<rec, first_user_addr, chain>>
    BY <1>4 DEF dpm_user_rtm_remove
  <2>2. rec[c].next \in Pointer
    BY <1>4, <1>p, PoolFields, Pointers
  <2>3. Moves(t, "find", rec[c].next, c, task[t].mem, task[t].fp)
    BY <2>1, <2>2, <1>1, <1>p, WalkMoves
  <2>4. \/ rec[c].next = Null
        \/ \E k \in 1 .. Len(chain) :
              rec[c].next = chain[k] /\ c = IF k = 1 THEN Null ELSE chain[k - 1]
    <3>1. PICK i \in 1 .. Len(chain) : c = chain[i]
      BY <1>1, <1>4, <1>p DEF Finds
    <3>2. CASE rec[c].next = Null
      BY <3>2
    <3>3. CASE rec[c].next # Null
      <4>1. i + 1 \in 1 .. Len(chain) /\ rec[c].next = chain[i + 1]
        BY <3>1, <3>3, <1>p, NextRecord
      <4>2. i + 1 # 1 /\ (i + 1) - 1 = i
        BY <1>p, ChainFacts
      <4> QED
        BY <3>1, <4>1, <4>2
    <3> QED
      BY <3>2, <3>3
  <2>5. Finds(t)'
    BY <2>1, <2>3, <2>4 DEF Moves, Becomes, Finds
  <2>6. CallOK(t)' /\ InHeap(t)' /\ Hands(t)' /\ Searches(t)' /\ Adds(t)' /\ Copies(t)'
    BY <2>3, <1>1, <1>p, <1>i, <1>m
    DEF Moves, Becomes, CallOK, Searched, InHeap, Hands, Searches, Adds, Copies
  <2>7. TaskOK(t)'
    BY <2>5, <2>6 DEF TaskOK
  <2> QED
    BY <2>1, <2>7, <1>1, <1>2, <1>f, <1>h, Still
<1>5. CASE c # Null /\ rec[c].name = task[t].name
  <2>1. Unlink(t) /\ chain' = Without(c) /\ Go(t, "free")
    BY <1>5 DEF dpm_user_rtm_remove
  <2>2. PICK i \in 1 .. Len(chain) :
           c = chain[i] /\ task[t].prev = IF i = 1 THEN Null ELSE chain[i - 1]
    BY <1>1, <1>5, <1>p DEF Finds
  <2>3. RecordsIntact'
    BY <2>1, <2>2, <1>1, UnlinkKeepsRecords
  <2>4. Chained' = Chained \ {c}
    BY <2>1, <2>2, <1>p, RemovedIs
  <2>5. Moves(t, "free", c, task[t].prev, task[t].mem, task[t].fp)
    BY <2>1, <1>p, GoMoves DEF Points
  <2>6. Good(task[t].cur)'
    <3>1. task'[t].cur = c
      BY <2>5 DEF Moves, Becomes
    <3>2. c \in live' \ {Size} /\ mem'[c].used /\ c \notin Chained'
      BY <2>2, <2>4, <1>i, <1>p, ChainFacts
    <3> QED
      BY <3>1, <3>2 DEF Good
  <2>7. Hands(t)'
    BY <2>5, <2>6, <1>i, <1>m DEF Moves, Becomes, Hands
  <2>8. CallOK(t)' /\ InHeap(t)' /\ Searches(t)' /\ Adds(t)' /\ Finds(t)' /\ Copies(t)'
    BY <2>5, <1>1, <1>p, <1>i, <1>m
    DEF Moves, Becomes, CallOK, Searched, InHeap, Searches, Adds, Finds, Copies
  <2>9. TaskOK(t)'
    BY <2>7, <2>8 DEF TaskOK
  <2>10. c \in InHand(t)'
    BY <2>5 DEF InHand, At, Moves, Becomes
  <2> QED
    BY <2>3, <2>4, <2>9, <2>10, <1>1, <1>2, <1>f, <1>h, Relinked
<1> QED
  BY <1>3, <1>4, <1>5

\* A step of the calling task that frees no block and may take one.
LEMMA Taken ==
    ASSUME PInv, OneCaller, NEW t \in Task, task[t].pc # "idle", ~Stale(t),
           UNCHANGED <<first_user_addr, free_ptr, boot, chain, lost>>,
           \A i \in 1 .. Len(chain) : rec'[chain[i]] = rec[chain[i]],
           \A q \in live : mem[q].used =>
                              q \in live' /\ mem'[q].used /\ mem'[q].next = mem[q].next,
           \A q \in live' \ {Size} :
              mem'[q].used => (q \in live /\ mem[q].used) \/ q \in InHand(t)',
           InHand(t) \subseteq InHand(t)',
           \A f : Seen(mem, live, f) => Seen(mem', live', f),
           HInv', PTInv', TaskOK(t)'
    PROVE  PInv'
<1>o. \A u \in Task : u = t
  BY DEF OneCaller
<1>1. RecordsIntact'
  <2>1. PTInv /\ RecordsIntact
    BY DEF PInv
  <2> QED
    BY <2>1, ChainFacts, RecordsKept
<1>2. boot = "done" /\ boot' = "done"
  BY DEF PInv, BootOK, Idle
<1>3. BootOK'
  BY <1>2 DEF BootOK
<1>4. FreePtrOK'
  <2>1. Seen(mem, live, free_ptr)
    BY <1>o, <1>2 DEF PInv, FreePtrOK
  <2> QED
    BY <2>1 DEF FreePtrOK
<1>5. NoLeak'
  <2> SUFFICES ASSUME NEW o \in live' \ {Size}, mem'[o].used
               PROVE  o \in Chained' \cup lost' \cup UNION {InHand(u)' : u \in Task}
    BY DEF NoLeak
  <2>1. CASE o \in InHand(t)'
    BY <2>1
  <2>2. CASE o \in live /\ mem[o].used
    <3>1. o \in Chained \cup lost \cup UNION {InHand(u) : u \in Task}
      BY <2>2 DEF PInv, NoLeak
    <3>2. Chained' = Chained /\ lost' = lost
      BY DEF Chained
    <3> QED
      BY <3>1, <3>2, <1>o
  <2> QED
    BY <2>1, <2>2
<1>6. \A u \in Task : TaskOK(u)'
  BY <1>o
<1> QED
  BY <1>1, <1>3, <1>4, <1>5, <1>6 DEF PInv

\* A request of a caller does not wrap, so the count is what calloc is to clear.
LEMMA CountIs ==
    ASSUME OneCaller, NEW s \in Bytes
    PROVE  Count(s) = s + RecSize /\ Count(s) \in Nat
<1>1. s \in Nat /\ RecSize \in Nat /\ Width \in Nat \ {0} /\ s + RecSize < Width
  BY PoolSizes, HeapSizes DEF OneCaller
<1>2. s + RecSize \in 0 .. Width - 1
  BY <1>1
<1>3. (s + RecSize) % Width = s + RecSize
  BY <1>1, <1>2
<1> QED
  BY <1>1, <1>3 DEF Count

LEMMA CallocKeeps ==
    ASSUME PInv, OneCaller, NEW t \in Task, Calloc(t)
    PROVE  PInv'
<1> DEFINE n == Count(task[t].size)
<1>1. /\ task[t].pc = "malloc"
      /\ UNCHANGED <<rec, first_user_addr, free_ptr, boot, chain, lost>>
      /\ \/ MallocRefused(t, n) /\ Return(t)
         \/ MallocBegin(t, n) /\ Go(t, "calloc")
  BY DEF Calloc, At
<1>p. /\ PTInv /\ HInv /\ RecordsIntact /\ CallOK(t) /\ InHeap(t) /\ Hands(t) /\ Adds(t)
      /\ task \in [Task -> TaskRec]
  BY Parts, PoolFields
<1>2. PTInv'
  BY <1>p, CallocTyped
<1>i. /\ hpc[t] = "out" /\ blk[t] = Null /\ task[t].mem = Null /\ task[t].op = "allocate"
      /\ task[t].size \in Bytes
  BY <1>1, <1>p DEF InHeap, CallOK, Searched
<1>n. n = task[t].size + RecSize /\ n \in Nat
  BY <1>i, CountIs
<1>h. InHand(t) = {}
  BY <1>1, <1>i DEF InHand, At
<1>s. ~Stale(t)
  BY <1>1 DEF Stale
<1>3. CASE MallocRefused(t, n) /\ Return(t)
  <2>1. Becomes(t, "idle", "none", NoName, 0, Null, Null, Null, 0)
    BY <1>3, <1>p, ReturnBecomes
  <2>2. UNCHANGED heapVars
    BY <1>3 DEF MallocRefused
  <2>3. mem' = mem /\ live' = live /\ hpc' = hpc /\ blk' = blk
    BY <2>2 DEF heapVars
  <2>4. TaskOK(t)'
    BY <2>1, <2>3, <1>i
    DEF Becomes, TaskOK, CallOK, Searched, InHeap, Hands, Searches, Adds, Finds, Copies
  <2>5. FreePtrOK'
    <3>1. \A u \in Task : u = t
      BY DEF OneCaller
    <3> QED
      BY <3>1, <2>3, <1>1, <1>s DEF PInv, FreePtrOK
  <2> QED
    BY <2>2, <2>4, <2>5, <1>1, <1>2, <1>h, Still
<1>4. CASE MallocBegin(t, n) /\ Go(t, "calloc")
  <2>1. Moves(t, "calloc", task[t].cur, task[t].prev, task[t].mem, task[t].fp)
    BY <1>4, <1>p, GoMoves DEF Points
  <2>2. /\ hpc' = [hpc EXCEPT ![t] = "scan"] /\ want' = [want EXCEPT ![t] = n]
        /\ mem' = mem /\ live' = live /\ lfree' = lfree /\ blk' = blk
    BY <1>4 DEF MallocBegin, heap
  <2>3. hpc'[t] = "scan" /\ want'[t] = n
    BY <2>2, <1>p DEF PTInv, HeapTyped, TaskTyped
  <2>4. HInv'
    BY <1>4, <1>n, <1>p, MallocBeginKeeps
  <2>5. CallOK(t)' /\ InHeap(t)' /\ Hands(t)' /\ Searches(t)' /\ Finds(t)' /\ Copies(t)'
    BY <2>1, <2>2, <2>3, <1>p, <1>i, <1>n
    DEF Moves, Becomes, CallOK, Searched, InHeap, Hands, Searches, Finds, Copies
  <2>6. Adds(t)'
    BY <2>1, <1>1, <1>p DEF Moves, Becomes, Adds, Searched, Unknown
  <2>7. TaskOK(t)'
    BY <2>5, <2>6 DEF TaskOK
  <2> QED
    BY <2>2, <2>4, <2>7, <1>1, <1>2, <1>h, <1>s, Taken
<1> QED
  BY <1>1, <1>3, <1>4

\* What a step inside calloc does to the heap: no block is freed, and a block
\* is used that was not only if the task has it then.
LEMMA HeapStepIs ==
    ASSUME HInv, NEW t \in Task, HeapStep(t), hpc[t] = "scan" => blk[t] = Null
    PROVE  /\ HInv'
           /\ hpc'[t] \in {"scan", "adjust", "zero", "done"}
           /\ hpc'[t] = "scan" => blk'[t] = Null
           /\ want'[t] = want[t]
           /\ \A q \in live : mem[q].used =>
                                 q \in live' /\ mem'[q].used /\ mem'[q].next = mem[q].next
           /\ \A q \in live' : mem'[q].used => (q \in live /\ mem[q].used) \/ q = blk'[t]
           /\ \A f : Seen(mem, live, f) => Seen(mem', live', f)
           /\ \/ blk'[t] = blk[t]
              \/ /\ blk[t] = Null /\ blk'[t] \in live \ {Size} /\ ~mem[blk'[t]].used
                 /\ blk'[t] \in live' /\ mem'[blk'[t]].used
                 /\ mem'[blk'[t]].next - (blk'[t] + Header) >= want[t]
<1>t. hpc \in [Task -> Places] /\ blk \in [Task -> Offset \cup {Null}]
  BY DEF HInv, TaskTyped
<1>1. CASE ScanOn(t)
  <2>1. HInv'
    BY <1>1, ScanOnKeeps
  <2>2. /\ mem' = mem /\ live' = live /\ hpc' = hpc /\ want' = want /\ blk' = blk
        /\ hpc[t] = "scan"
    BY <1>1 DEF ScanOn, Scanning, heap
  <2> QED
    BY <2>1, <2>2
<1>2. CASE ScanFailed(t)
  <2>1. HInv'
    BY <1>2, ScanFailedKeeps
  <2>2. mem' = mem /\ live' = live /\ want' = want /\ blk' = blk /\ hpc'[t] = "done"
    BY <1>2, <1>t DEF ScanFailed, heap
  <2> QED
    BY <2>1, <2>2
<1>3. CASE AdjustOn(t)
  <2>1. HInv'
    BY <1>3, AdjustOnKeeps
  <2>2. /\ mem' = mem /\ live' = live /\ hpc' = hpc /\ want' = want /\ blk' = blk
        /\ hpc[t] = "adjust"
    BY <1>3 DEF AdjustOn, heap
  <2> QED
    BY <2>1, <2>2
<1>4. CASE AdjustEnd(t)
  <2>1. HInv'
    BY <1>4, AdjustEndKeeps
  <2>2. mem' = mem /\ live' = live /\ want' = want /\ blk' = blk /\ hpc'[t] = "zero"
    BY <1>4, <1>t DEF AdjustEnd
  <2> QED
    BY <2>1, <2>2
<1>5. CASE Zero(t)
  <2>1. HInv'
    BY <1>5, ZeroKeeps
  <2>2. live' = live /\ want' = want /\ blk' = blk /\ hpc'[t] = "done"
    BY <1>5, <1>t DEF Zero
  <2>3. \A q \in live : mem'[q] = mem[q]
    BY <1>5, ZeroOwnData
  <2>4. \A f : Seen(mem, live, f) => Seen(mem', live', f)
    BY <2>2, <2>3 DEF Seen
  <2> QED
    BY <2>1, <2>2, <2>3, <2>4
<1>6. CASE ScanTake(t)
  <2> DEFINE o == ptr[t]
  <2>1. HInv'
    BY <1>6, ScanTakeKeeps
  <2>2. want' = want /\ blk'[t] = o /\ hpc'[t] \in {"adjust", "zero"} /\ hpc[t] = "scan"
    BY <1>6, <1>t DEF ScanTake, Scanning
  <2>3. /\ o \in live \ {Size} /\ ~mem[o].used
        /\ \A f : Seen(mem, live, f) => Seen(mem', live', f)
        /\ o \in live' /\ mem'[o].used
        /\ mem'[o].next - (o + Header) >= want[t]
        /\ \A q \in live \ {o} : /\ q \in live' /\ mem'[q].used = mem[q].used
                                /\ mem'[q].next = mem[q].next
        /\ \A q \in live' \ {o} : mem'[q].used => q \in live
    BY <1>6, ScanTakeBlock
  <2> HIDE DEF o
  <2>4. \A q \in live : mem[q].used =>
                           q \in live' /\ mem'[q].used /\ mem'[q].next = mem[q].next
    BY <2>3
  <2>5. \A q \in live' : mem'[q].used => (q \in live /\ mem[q].used) \/ q = o
    BY <2>3
  <2> QED
    BY <2>1, <2>2, <2>3, <2>4, <2>5
<1> QED
  BY <1>1, <1>2, <1>3, <1>4, <1>5, <1>6 DEF HeapStep

LEMMA InCallocKeeps ==
    ASSUME PInv, OneCaller, NEW t \in Task, InCalloc(t)
    PROVE  PInv'
<1>1. /\ task[t].pc = "calloc" /\ HeapStep(t)
      /\ rec' = IF hpc[t] = "zero" THEN [rec EXCEPT ![blk[t]] = Cleared] ELSE rec
      /\ task' = task /\ UNCHANGED <<first_user_addr, free_ptr, boot, chain, lost>>
  BY DEF InCalloc, At
<1>p. /\ PTInv /\ HInv /\ RecordsIntact /\ CallOK(t) /\ InHeap(t) /\ Hands(t) /\ Adds(t)
      /\ rec \in [Offset -> RecordType] /\ blk[t] \in Pointer
  BY Parts, PoolFields
<1>2. PTInv'
  BY <1>p, CallocTyped
<1>m. task[t].mem = Null /\ task[t].op = "allocate" /\ want[t] = task[t].size + RecSize
  BY <1>1, <1>p DEF CallOK, Searched, InHeap
<1>e. /\ HInv'
      /\ hpc'[t] \in {"scan", "adjust", "zero", "done"}
      /\ hpc'[t] = "scan" => blk'[t] = Null
      /\ want'[t] = want[t]
      /\ \A q \in live : mem[q].used =>
                            q \in live' /\ mem'[q].used /\ mem'[q].next = mem[q].next
      /\ \A q \in live' : mem'[q].used => (q \in live /\ mem[q].used) \/ q = blk'[t]
      /\ \A f : Seen(mem, live, f) => Seen(mem', live', f)
      /\ \/ blk'[t] = blk[t]
         \/ /\ blk[t] = Null /\ blk'[t] \in live \ {Size} /\ ~mem[blk'[t]].used
            /\ blk'[t] \in live' /\ mem'[blk'[t]].used
            /\ mem'[blk'[t]].next - (blk'[t] + Header) >= want[t]
  <2>1. hpc[t] = "scan" => blk[t] = Null
    BY <1>p DEF InHeap
  <2> QED
    BY <2>1, <1>1, <1>p, HeapStepIs
<1>c. Chained' = Chained
  BY <1>1 DEF Chained
<1>r. \A i \in 1 .. Len(chain) : rec'[chain[i]] = rec[chain[i]]
  <2>1. CASE hpc[t] = "zero"
    <3>1. blk[t] \in live \ {Size}
      BY <2>1, <1>p DEF HInv, Owns, Has
    <3>2. blk[t] # Null /\ blk[t] \in Offset
      BY <3>1, <1>p, Blocks, Pointers
    <3>3. blk[t] \notin Chained
      BY <3>2, <1>p DEF Hands, Good
    <3>4. rec' = [rec EXCEPT ![blk[t]] = Cleared]
      BY <2>1, <1>1
    <3> HIDE DEF Cleared
    <3> QED
      BY <3>2, <3>3, <3>4, <1>p, ChainFacts
  <2>2. CASE hpc[t] # "zero"
    BY <2>2, <1>1
  <2> QED
    BY <2>1, <2>2
<1>b. blk'[t] # Null => /\ blk'[t] \in live' \ {Size} /\ mem'[blk'[t]].used
                        /\ blk'[t] \notin Chained'
                        /\ mem'[blk'[t]].next - (blk'[t] + Header) >= want[t]
  <2>1. CASE blk'[t] = blk[t]
    <3> HAVE blk'[t] # Null
    <3>1. blk[t] \in live \ {Size} /\ mem[blk[t]].used /\ blk[t] \notin Chained
          /\ mem[blk[t]].next - (blk[t] + Header) >= want[t]
      BY <2>1, <1>p DEF Hands, Good, Room
    <3> QED
      BY <2>1, <3>1, <1>e, <1>c
  <2>2. CASE blk'[t] # blk[t]
    <3>1. blk'[t] \notin Chained
      BY <2>2, <1>e, <1>p, ChainFacts
    <3> QED
      BY <2>2, <3>1, <1>e, <1>c
  <2> QED
    BY <2>1, <2>2
<1>3. Hands(t)'
  <2>1. Good(blk[t])' <=> /\ blk'[t] \in live' \ {Size} /\ mem'[blk'[t]].used
                          /\ blk'[t] \notin Chained'
    BY DEF Good
  <2>2. Room(blk[t])' = mem'[blk'[t]].next - (blk'[t] + Header)
    BY DEF Room
  <2> QED
    BY <2>1, <2>2, <1>b, <1>e, <1>1, <1>m DEF Hands
<1>4. CallOK(t)' /\ InHeap(t)' /\ Searches(t)' /\ Finds(t)' /\ Copies(t)'
  BY <1>1, <1>e, <1>m, <1>p DEF CallOK, Searched, InHeap, Searches, Finds, Copies
<1>5. Adds(t)'
  BY <1>1, <1>r, <1>p DEF Adds, Searched, Unknown
<1>6. TaskOK(t)'
  BY <1>3, <1>4, <1>5 DEF TaskOK
<1>7. InHand(t) \subseteq InHand(t)'
  BY <1>1, <1>e, <1>m DEF InHand, At
<1>8. \A q \in live' \ {Size} :
         mem'[q].used => (q \in live /\ mem[q].used) \/ q \in InHand(t)'
  <2>1. ASSUME NEW q \in live' \ {Size}, q = blk'[t] PROVE q \in InHand(t)'
    <3>1. q # Null
      BY <2>1, <1>e, Blocks, Pointers, <1>2 DEF PTInv, HeapTyped
    <3> QED
      BY <2>1, <3>1 DEF InHand
  <2> QED
    BY <2>1, <1>e
<1>9. ~Stale(t)
  BY <1>1 DEF Stale
<1> QED
  BY <1>1, <1>2, <1>e, <1>r, <1>6, <1>7, <1>8, <1>9, Taken

LEMMA CallocReturnsKeeps ==
    ASSUME PInv, OneCaller, NEW t \in Task, CallocReturns(t)
    PROVE  PInv'
<1>1. /\ task[t].pc = "calloc" /\ CallocReturn(t)
      /\ \/ blk[t] = Null /\ Return(t)
         \/ /\ blk[t] # Null
            /\ task' = [task EXCEPT ![t].mem = blk[t], ![t].pc = "getfree"]
      /\ UNCHANGED <<rec, first_user_addr, free_ptr, boot, chain, lost>>
  BY DEF CallocReturns, At
<1>p. /\ PTInv /\ HInv /\ RecordsIntact /\ CallOK(t) /\ InHeap(t) /\ Hands(t) /\ Adds(t)
      /\ task \in [Task -> TaskRec] /\ blk[t] \in Pointer
  BY Parts, PoolFields
<1>2. PTInv' /\ HInv'
  BY <1>1, <1>p, CallocTyped, CallocReturnKeeps
<1>m. task[t].mem = Null /\ task[t].op = "allocate" /\ want[t] = task[t].size + RecSize
  BY <1>1, <1>p DEF CallOK, Searched, InHeap
<1>h. /\ mem' = mem /\ live' = live /\ lfree' = lfree
      /\ hpc'[t] = "out" /\ blk'[t] = Null
  BY <1>1, <1>p DEF CallocReturn, heap, PTInv, HeapTyped, TaskTyped
<1>u. \A o : (Good(o)' <=> Good(o)) /\ Room(o)' = Room(o)
  BY <1>1, <1>h DEF Good, Room, Chained
<1>s. ~Stale(t)
  BY <1>1 DEF Stale
<1>3. CASE blk[t] = Null /\ Return(t)
  <2>1. Becomes(t, "idle", "none", NoName, 0, Null, Null, Null, 0)
    BY <1>3, <1>p, ReturnBecomes
  <2>2. TaskOK(t)'
    BY <2>1, <1>h
    DEF Becomes, TaskOK, CallOK, Searched, InHeap, Hands, Searches, Adds, Finds, Copies
  <2>3. InHand(t) = {}
    BY <1>1, <1>3, <1>m DEF InHand, At
  <2> QED
    BY <2>2, <2>3, <1>1, <1>2, <1>h, <1>s, Taken
<1>4. CASE /\ blk[t] # Null
           /\ task' = [task EXCEPT ![t].mem = blk[t], ![t].pc = "getfree"]
  <2>1. Moves(t, "getfree", task[t].cur, task[t].prev, blk[t], task[t].fp)
    BY <1>4, <1>p, MemMoves DEF Points
  <2>2. CallOK(t)' /\ InHeap(t)' /\ Searches(t)' /\ Finds(t)' /\ Copies(t)'
    BY <2>1, <1>p, <1>m, <1>h
    DEF Moves, Becomes, CallOK, Searched, InHeap, Searches, Finds, Copies
  <2>3. Hands(t)'
    <3>1. Good(blk[t]) /\ Room(blk[t]) >= task[t].size + RecSize
      BY <1>4, <1>p, <1>m DEF Hands
    <3>2. task'[t].mem = blk[t] /\ task'[t].size = task[t].size /\ task'[t].pc = "getfree"
      BY <2>1 DEF Moves, Becomes
    <3>3. Good(task[t].mem)' /\ Room(task[t].mem)' >= task'[t].size + RecSize
      BY <3>1, <3>2, <1>u
    <3> QED
      BY <3>2, <3>3, <1>h DEF Hands
  <2>4. Adds(t)'
    BY <2>1, <1>1, <1>p, <1>m DEF Moves, Becomes, Adds, Searched, Unknown
  <2>5. TaskOK(t)'
    BY <2>2, <2>3, <2>4 DEF TaskOK
  <2>6. InHand(t) \subseteq InHand(t)'
    BY <2>1, <1>1, <1>m DEF InHand, At, Moves, Becomes
  <2> QED
    BY <2>5, <2>6, <1>1, <1>2, <1>h, <1>s, Taken
<1> QED
  BY <1>1, <1>3, <1>4

\* A used block of the list passes the checks of da16x_dpm_rtm_mem_free.
LEMMA UsedIsLegal ==
    ASSUME HInv, NEW o \in live \ {Size}, mem[o].used
    PROVE  Legal(o)
<1>1. Linked(mem, live)
  BY DEF HInv
<1>2. o + Header + MinSize <= Size
  <2>1. /\ o \in Int /\ mem[o].next \in Int /\ mem[o].next >= o + Header + MinSize
        /\ mem[o].next <= Size
    BY Blocks
  <2> QED
    BY <2>1, Sizes
<1>3. mem[o].prev = o \/ mem[mem[o].prev].next = o
  <2>1. CASE o = 0
    BY <2>1, <1>1 DEF Linked
  <2>2. CASE o # 0
    BY <2>2, <1>1 DEF Linked
  <2> QED
    BY <2>1, <2>2
<1>4. mem[o].next = Size \/ mem[mem[o].next].prev = o
  BY <1>1 DEF Linked
<1> QED
  BY <1>2, <1>3, <1>4 DEF Legal, da16x_dpm_rtm_mem_link_valid

LEMMA PoolFreeKeeps ==
    ASSUME PInv, OneCaller, NEW t \in Task, Free(t)
    PROVE  PInv'
<1> DEFINE o == task[t].cur
<1>1. /\ task[t].pc = "free" /\ da16x_dpm_rtm_mem_free(t, o) /\ Go(t, "getfree")
      /\ UNCHANGED <<rec, first_user_addr, free_ptr, boot, chain, lost>>
  BY DEF Free, At
<1>p. /\ PTInv /\ HInv /\ RecordsIntact /\ CallOK(t) /\ InHeap(t) /\ Hands(t)
      /\ task \in [Task -> TaskRec] /\ o \in Pointer
  BY Parts, PoolFields
<1>2. PTInv'
  BY <1>p, PoolFreeTyped
<1>o. \A u \in Task : u = t
  BY DEF OneCaller
<1>m. /\ task[t].mem = Null /\ task[t].op = "release" /\ hpc[t] = "out" /\ blk[t] = Null
      /\ o \in live \ {Size} /\ mem[o].used /\ o \notin Chained
  BY <1>1, <1>p DEF PTInv, Shape, CallOK, InHeap, Hands, Good
<1>n. o # Null /\ o \in Offset
  BY <1>m, <1>p, Blocks, Pointers
<1>3. HInv'
  <2>1. HandedOut(o)
    BY <1>m, <1>n, <1>o DEF HandedOut
  <2> QED
    BY <2>1, <1>1, <1>m, <1>p, FreeKeeps
<1>4. /\ \A q \in live \ {o} :
            mem[q].used => q \in live' /\ mem'[q].used /\ mem'[q].next = mem[q].next
      /\ \A q \in live' : mem'[q].used => q \in live \ {o} /\ mem[q].used
      /\ hpc' = hpc /\ blk' = blk
  <2>1. Legal(o)
    BY <1>m, <1>p, UsedIsLegal
  <2> DEFINE h == PlugHoles([mem EXCEPT ![o].used = FALSE], LowestFree(o), live, o)
  <2>2. mem' = h.mem /\ lfree' = h.lfree /\ live' = h.live /\ hpc' = hpc /\ blk' = blk
    BY <2>1, <1>1 DEF da16x_dpm_rtm_mem_free
  <2>3. /\ \A q \in live \ {o} :
              mem[q].used => q \in h.live /\ h.mem[q].used /\ h.mem[q].next = mem[q].next
        /\ \A q \in h.live : h.mem[q].used => q \in live \ {o} /\ mem[q].used
    BY <1>m, <1>p, FreeHeap
  <2> HIDE DEF h
  <2> QED
    BY <2>2, <2>3
<1>5. RecordsIntact'
  <2>1. \A i \in 1 .. Len(chain) : chain[i] \in live \ {o} /\ mem[chain[i]].used
    BY <1>m, <1>p, ChainFacts
  <2> QED
    BY <2>1, <1>1, <1>4, <1>p, RecordsKept
<1>6. Moves(t, "getfree", o, task[t].prev, task[t].mem, task[t].fp)
  BY <1>1, <1>p, GoMoves DEF Points
<1>7. TaskOK(t)'
  BY <1>6, <1>4, <1>m, <1>p
  DEF Moves, Becomes, TaskOK, CallOK, Searched, InHeap, Hands, Searches, Adds, Finds, Copies
<1>8. FreePtrOK'
  <2>1. Stale(t)'
    BY <1>6, <1>m DEF Moves, Becomes, Stale
  <2> QED
    BY <2>1 DEF FreePtrOK
<1>9. BootOK'
  BY <1>1, <1>p DEF PInv, BootOK, Idle
<1>10. NoLeak'
  <2> SUFFICES ASSUME NEW q \in live' \ {Size}, mem'[q].used
               PROVE  q \in Chained' \cup lost'
    BY DEF NoLeak
  <2>1. q \in live \ {Size} /\ mem[q].used /\ q # o
    BY <1>4
  <2>2. q \in Chained \cup lost \cup UNION {InHand(u) : u \in Task}
    BY <2>1 DEF PInv, NoLeak
  <2>3. InHand(t) = {o}
    BY <1>1, <1>m DEF InHand, At
  <2>4. Chained' = Chained /\ lost' = lost
    BY <1>1 DEF Chained
  <2> QED
    BY <2>1, <2>2, <2>3, <2>4, <1>o
<1>11. \A u \in Task : TaskOK(u)'
  BY <1>7, <1>o
<1> QED
  BY <1>2, <1>3, <1>5, <1>8, <1>9, <1>10, <1>11 DEF PInv

\* The tasks of a boot hold nothing of the heap.
LEMMA RestartedOwns ==
    ASSUME Restarted, NEW t \in Task
    PROVE  /\ Owns(t)' /\ hpc'[t] = "out" /\ blk'[t] = Null
<1>1. hpc'[t] = "out" /\ blk'[t] = Null
  BY DEF Restarted
<1> QED
  BY <1>1 DEF Owns, Holds, Asked, Passed, Has

\* A task that has made no call since the boot.
LEMMA IdleOK ==
    ASSUME NEW t \in Task, task' = [u \in Task |-> Idle] \/ task'[t] = Idle, Restarted
    PROVE  TaskOK(t)' /\ InHand(t)' = {} /\ ~Stale(t)'
<1>1. task'[t] = Idle
  OBVIOUS
<1>2. /\ task'[t].pc = "idle" /\ task'[t].op = "none" /\ task'[t].mem = Null
  BY <1>1 DEF Idle
<1>3. hpc'[t] = "out" /\ blk'[t] = Null
  BY RestartedOwns
<1> QED
  BY <1>2, <1>3 DEF TaskOK, CallOK, Searched, InHeap, Hands, Searches, Adds, Finds, Copies,
                    InHand, At, Stale

LEMMA PowerOffKeeps ==
    ASSUME PInv, OneCaller, NEW kept \in BOOLEAN, PowerOff(kept)
    PROVE  PInv'
<1>1. /\ boot = "done" /\ boot' = (IF kept THEN "wakeup" ELSE "fresh")
      /\ kept => \A t \in Task : <<task[t].op, task[t].pc>> \in SleepAt
      /\ lost' = lost \cup UNION {InHand(t) : t \in Task}
      /\ task' = [t \in Task |-> Idle]
      /\ Restarted /\ UNCHANGED <<mem, lfree, live>>
      /\ UNCHANGED <<rec, first_user_addr, free_ptr, chain>>
  BY DEF PowerOff, heap
<1>2. PTInv'
  BY PowerOffTyped DEF PInv
<1>3. HInv'
  BY <1>1, RestartedTyped, RestartedOwns DEF PInv, HInv
<1>4. RecordsIntact'
  BY <1>1, RecordsKept DEF PInv, RecordsIntact
<1>5. NoLeak'
  BY <1>1 DEF PInv, NoLeak, Chained
<1>6. FreePtrOK'
  <2>1. CASE kept
    <3>1. \A t \in Task : ~Stale(t)
      BY <2>1, <1>1 DEF OneCaller, Stale
    <3> QED
      BY <3>1, <1>1 DEF PInv, FreePtrOK
  <2>2. CASE ~kept
    BY <2>2, <1>1 DEF FreePtrOK
  <2> QED
    BY <2>1, <2>2
<1>7. BootOK'
  BY <1>1 DEF BootOK
<1>8. \A t \in Task : TaskOK(t)'
  BY <1>1, IdleOK
<1> QED
  BY <1>2, <1>3, <1>4, <1>5, <1>6, <1>7, <1>8 DEF PInv

LEMMA CreateKeeps ==
    ASSUME PInv, OneCaller, dpm_user_rtm_pool_create
    PROVE  PInv'
<1>0. boot' = "done" /\ task' = task
  BY DEF dpm_user_rtm_pool_create
<1>t. PTInv'
  BY CreateTyped DEF PInv
<1>b. BootOK'
  BY <1>0 DEF BootOK
<1>i. boot # "done" => \A t \in Task : task'[t] = Idle
  BY <1>0 DEF PInv, BootOK
<1>1. CASE boot = "done"
  <2>1. UNCHANGED heapVars /\ UNCHANGED <<rec, first_user_addr, free_ptr, chain, lost>>
    BY <1>1 DEF dpm_user_rtm_pool_create
  <2>2. UNCHANGED <<mem, lfree, live, hpc, want, blk>> /\ UNCHANGED <<task, boot>>
    BY <2>1, <1>0, <1>1 DEF heapVars
  <2>3. HInv'
    BY <2>1, HeapUnchanged DEF PInv
  <2>4. RecordsIntact' /\ NoLeak' /\ FreePtrOK'
    BY <2>1, <2>2
    DEF PInv, RecordsIntact, Room, NoLeak, Chained, InHand, At, FreePtrOK, Stale
  <2>5. ASSUME NEW t \in Task PROVE TaskOK(t)'
    <3>1. TaskOK(t)
      BY DEF PInv
    <3>2. /\ \A o : (Good(o)' <=> Good(o)) /\ Room(o)' = Room(o)
          /\ \A n : Unknown(n)' <=> Unknown(n)
      BY <2>1, Unmoved
    <3> QED
      BY <3>1, <3>2, <2>1, <2>2
      DEF TaskOK, CallOK, Searched, InHeap, Hands, Searches, Adds, Finds, Copies
  <2> QED
    BY <2>3, <2>4, <2>5, <1>t, <1>b DEF PInv
<1>2. CASE boot # "done" /\ ~Recovers
  <2>1. /\ mem' = FreshMem /\ lfree' = 0 /\ live' = {0, Size} /\ Restarted
        /\ first_user_addr' = Null /\ free_ptr' = 0 /\ chain' = <<>> /\ lost' = {}
    BY <1>2 DEF dpm_user_rtm_pool_create, da16x_dpm_rtm_mem_init
  <2>2. HInv'
    BY <2>1, FreshLinked, RestartedTyped, RestartedOwns DEF HInv
  <2>3. Len(chain') = 0
    BY <2>1, EmptySeq
  <2>4. RecordsIntact'
    BY <2>1, <2>3 DEF RecordsIntact
  <2>5. NoLeak'
    BY <2>1, Sizes DEF NoLeak, FreshMem, Hdr
  <2>6. FreePtrOK'
    BY <2>1, FreshLinked DEF FreePtrOK
  <2>7. \A t \in Task : TaskOK(t)'
    BY <2>1, <1>i, <1>2, IdleOK
  <2> QED
    BY <2>2, <2>4, <2>5, <2>6, <2>7, <1>t, <1>b DEF PInv
<1>3. CASE boot # "done" /\ Recovers
  <2>1. /\ mem' = [mem EXCEPT ![Size] = EndHdr] /\ lfree' = free_ptr /\ live' = live /\ Restarted
        /\ UNCHANGED <<rec, first_user_addr, free_ptr, chain, lost>> /\ boot = "wakeup"
    BY <1>3 DEF dpm_user_rtm_pool_create, da16x_dpm_rtm_mem_recovery, Recovers
  <2>2. mem' = mem
    <3>1. mem \in [Offset -> Headers] /\ mem[Size] = EndHdr /\ Size \in Offset
      BY Sizes DEF PInv, HInv, Linked
    <3> HIDE DEF EndHdr
    <3> QED
      BY <3>1, <2>1
  <2>3. \A t \in Task : ~Stale(t) /\ InHand(t) \subseteq {blk[t]} \ {Null}
    BY <1>0, <1>i, <1>3 DEF Stale, Idle, InHand, At
  <2>4. Seen(mem, live, free_ptr)
    BY <2>1, <2>3 DEF PInv, FreePtrOK
  <2>5. HInv'
    BY <2>1, <2>2, <2>4, RestartedTyped, RestartedOwns DEF PInv, HInv
  <2>6. RecordsIntact'
    BY <2>1, <2>2, RecordsKept DEF PInv, RecordsIntact
  <2>7. NoLeak'
    <3>1. ASSUME NEW t \in Task PROVE InHand(t) = {}
      <4>1. TaskOK(t) /\ task[t] = Idle
        BY <1>0, <1>i, <1>3 DEF PInv
      <4>2. blk[t] = Null
        BY <4>1 DEF TaskOK, InHeap, Idle
      <4> QED
        BY <4>2, <2>3
    <3> QED
      BY <3>1, <2>1, <2>2 DEF PInv, NoLeak, Chained
  <2>8. FreePtrOK'
    BY <2>1, <2>2, <2>4 DEF FreePtrOK
  <2>9. \A t \in Task : TaskOK(t)'
    BY <2>1, <1>i, <1>3, IdleOK
  <2> QED
    BY <2>5, <2>6, <2>7, <2>8, <2>9, <1>t, <1>b DEF PInv
<1> QED
  BY <1>1, <1>2, <1>3

LEMMA PoolSetUp == PoolInit => PInv
<1> SUFFICES ASSUME PoolInit PROVE PInv
  OBVIOUS
<1>1. PTInv
  BY PoolStarts
<1>2. HInv
  BY HeapStarts DEF PoolInit
<1>3. /\ mem = FreshMem /\ live = {0, Size} /\ hpc = [t \in Task |-> "out"]
      /\ blk = [t \in Task |-> Null]
      /\ first_user_addr = Null /\ chain = <<>> /\ boot = "fresh"
      /\ task = [t \in Task |-> Idle]
  BY DEF PoolInit, HeapInit
<1>4. Len(chain) = 0
  BY <1>3, EmptySeq
<1>5. RecordsIntact
  BY <1>3, <1>4 DEF RecordsIntact
<1>6. NoLeak
  BY <1>3, Sizes DEF NoLeak, FreshMem, Hdr
<1>7. FreePtrOK /\ BootOK
  BY <1>3 DEF FreePtrOK, BootOK
<1>8. ASSUME NEW t \in Task PROVE TaskOK(t)
  <2>1. /\ task[t].pc = "idle" /\ task[t].op = "none" /\ task[t].mem = Null
        /\ hpc[t] = "out" /\ blk[t] = Null
    BY <1>3 DEF Idle
  <2> QED
    BY <2>1
    DEF TaskOK, CallOK, Searched, InHeap, Hands, Searches, Adds, Finds, Copies
<1> QED
  BY <1>1, <1>2, <1>5, <1>6, <1>7, <1>8 DEF PInv

LEMMA PoolNextKeeps ==
    ASSUME OneCaller
    PROVE  PInv /\ [Next]_vars => PInv'
<1> SUFFICES ASSUME PInv, [Next]_vars PROVE PInv'
  OBVIOUS
<1>1. ASSUME NEW t \in Task, NEW n \in Name,
             (\E s \in Bytes : Allocate(t, n, s)) \/ Release(t, n)
      PROVE  PInv'
  BY <1>1, CallKeeps
<1>2. ASSUME NEW t \in Task, Step(t) PROVE PInv'
  BY <1>2, SearchKeeps, CallocKeeps, InCallocKeeps, CallocReturnsKeeps, GetFreeKeeps,
     PutFreeKeeps, FillKeeps, AddKeeps, RemoveKeeps, PoolFreeKeeps DEF Step
<1>3. ASSUME NEW kept \in BOOLEAN, PowerOff(kept) PROVE PInv'
  BY <1>3, PowerOffKeeps
<1>4. CASE dpm_user_rtm_pool_create
  BY <1>4, CreateKeeps
<1>5. CASE UNCHANGED vars
  <2>1. UNCHANGED heapVars /\ UNCHANGED poolVars
    BY <1>5 DEF vars
  <2>2. /\ UNCHANGED <<mem, lfree, live, hpc, want, blk>>
        /\ UNCHANGED <<rec, first_user_addr, free_ptr, boot, task, chain, lost>>
    BY <2>1 DEF heapVars, poolVars
  <2>3. HInv' /\ PTInv'
    BY <2>1, <1>5, HeapUnchanged, PoolNextTyped DEF PInv
  <2>4. RecordsIntact' /\ NoLeak' /\ FreePtrOK' /\ BootOK'
    BY <2>2
    DEF PInv, RecordsIntact, Room, NoLeak, Chained, InHand, At, FreePtrOK, Stale, BootOK
  <2>5. ASSUME NEW t \in Task PROVE TaskOK(t)'
    <3>1. TaskOK(t)
      BY DEF PInv
    <3>2. /\ \A o : (Good(o)' <=> Good(o)) /\ Room(o)' = Room(o)
          /\ \A n : Unknown(n)' <=> Unknown(n)
      BY <2>1, <2>2, Unmoved
    <3> QED
      BY <3>1, <3>2, <2>2
      DEF TaskOK, CallOK, Searched, InHeap, Hands, Searches, Adds, Finds, Copies
  <2> QED
    BY <2>3, <2>4, <2>5 DEF PInv
<1> QED
  BY <1>1, <1>2, <1>3, <1>4, <1>5 DEF Next

LEMMA PoolInvariant ==
    ASSUME OneCaller
    PROVE  Spec => []PInv
<1>1. PInv /\ [Next]_vars => PInv'
  BY PoolNextKeeps
<1> QED
  BY <1>1, PoolSetUp, PTL DEF Spec

\* With one calling task, whatever names and sizes it asks for and releases, and
\* wherever a power-down or a reset cuts its calls off (outside the window of a
\* release between the heap's free and the store of free_ptr), the only
\* retention memory that is lost is the block that a call had in its hands when
\* the power went.
THEOREM MemoryIsNotLost ==
    ASSUME OneCaller
    PROVE  Spec => []NoLeak
<1>1. PInv => NoLeak
  BY DEF PInv
<1> QED
  BY <1>1, PoolInvariant, PTL

\* Under the same conditions, over power-downs and wake-ups too, the asserts of
\* da16x_dpm_rtm_mem_sanity hold, although the heap is taken from the retention
\* memory as it was found.
THEOREM PoolHeapStaysSane ==
    ASSUME OneCaller
    PROVE  Spec => []ListSane
<1>1. PInv => ListSane
  BY DEF PInv, HInv, Linked, Spaced, ListSane
<1> QED
  BY <1>1, PoolInvariant, PTL

-----------------------------------------------------------------------------
(* The pool implements RtmStore                                            *)

\* Where the records r of the blocks C have their bytes; Named is this of the
\* chain.
BytesOf(o, r) == [from |-> o + Header + RecSize, size |-> r[o].size]
NamedOf(C, r) ==
    [n \in {r[o].name : o \in C} |-> BytesOf(CHOOSE q \in C : r[q].name = n, r)]

Distinct(C, r) == \A o, q \in C : r[o].name = r[q].name => o = q

LEMMA NamedIs ==
    ASSUME NEW C, NEW r, Distinct(C, r)
    PROVE  /\ DOMAIN NamedOf(C, r) = {r[o].name : o \in C}
           /\ \A o \in C : NamedOf(C, r)[r[o].name] = BytesOf(o, r)
<1>1. DOMAIN NamedOf(C, r) = {r[o].name : o \in C}
  BY DEF NamedOf
<1>2. ASSUME NEW o \in C PROVE NamedOf(C, r)[r[o].name] = BytesOf(o, r)
  <2> DEFINE q == CHOOSE x \in C : r[x].name = r[o].name
  <2>1. NamedOf(C, r)[r[o].name] = BytesOf(q, r)
    BY DEF NamedOf
  <2>2. q \in C /\ r[q].name = r[o].name
    OBVIOUS
  <2> HIDE DEF q
  <2>3. q = o
    BY <2>2 DEF Distinct
  <2> QED
    BY <2>1, <2>3
<1> QED
  BY <1>1, <1>2

\* Two maps from names to bytes that agree record by record are the same.
LEMMA NamedSame ==
    ASSUME NEW C, NEW r, NEW f, Distinct(C, r),
           f = [n \in DOMAIN f |-> f[n]],
           DOMAIN f = {r[o].name : o \in C},
           \A o \in C : f[r[o].name] = BytesOf(o, r)
    PROVE  NamedOf(C, r) = f
<1> DEFINE g == NamedOf(C, r)
<1>1. g = [n \in DOMAIN f |-> g[n]]
  BY DEF NamedOf
<1>2. \A o \in C : g[r[o].name] = BytesOf(o, r)
  BY NamedIs
<1>3. \A n \in DOMAIN f : \E o \in C : n = r[o].name
  OBVIOUS
<1> HIDE DEF g
<1>4. \A n \in DOMAIN f : g[n] = f[n]
  BY <1>2, <1>3
<1>5. g = f
  BY <1>1, <1>4
<1> QED
  BY <1>5 DEF g

LEMMA NamedNow == Named = NamedOf(Chained, rec) /\ Named' = NamedOf(Chained', rec')
  BY DEF Named, NamedOf, BytesOf

LEMMA NamesDiffer ==
    ASSUME RecordsIntact
    PROVE  Distinct(Chained, rec)
<1>1. ASSUME NEW o \in Chained, NEW q \in Chained, rec[o].name = rec[q].name PROVE o = q
  <2>1. PICK i \in 1 .. Len(chain) : o = chain[i]
    BY DEF Chained
  <2>2. PICK j \in 1 .. Len(chain) : q = chain[j]
    BY DEF Chained
  <2> QED
    BY <2>1, <2>2, <1>1, IntactNow
<1> QED
  BY <1>1 DEF Distinct

\* The names keep their bytes when the records of the chain keep names and
\* sizes.
LEMMA NamedKept ==
    ASSUME RecordsIntact, Chained' = Chained,
           \A o \in Chained : rec'[o].name = rec[o].name /\ rec'[o].size = rec[o].size
    PROVE  Named' = Named
<1> DEFINE C == Chained
           r == rec
           s == rec'
           f == NamedOf(C, r)
<1>1. Distinct(C, r)
  BY NamesDiffer
<1>2. DOMAIN f = {r[o].name : o \in C} /\ \A o \in C : f[r[o].name] = BytesOf(o, r)
  BY <1>1, NamedIs
<1>3. f = [n \in DOMAIN f |-> f[n]]
  BY DEF NamedOf
<1>4. Named = f /\ Named' = NamedOf(C, s)
  BY NamedNow
<1>5. \A o \in C : s[o].name = r[o].name /\ s[o].size = r[o].size
  OBVIOUS
<1> HIDE DEF C, r, s, f
<1>6. Distinct(C, s)
  BY <1>1, <1>5 DEF Distinct
<1>7. {r[o].name : o \in C} = {s[o].name : o \in C}
  BY <1>5
<1>8. \A o \in C : f[s[o].name] = BytesOf(o, s)
  BY <1>2, <1>5 DEF BytesOf
<1>9. DOMAIN f = {s[o].name : o \in C}
  BY <1>2, <1>7
<1>10. NamedOf(C, s) = f
  BY <1>3, <1>6, <1>8, <1>9, NamedSame
<1> QED
  BY <1>4, <1>10

\* The data of two used blocks do not overlap and are in the pool.
LEMMA DataInBlock ==
    ASSUME HInv, NEW o \in live \ {Size}, NEW s \in Nat, s + RecSize <= Room(o)
    PROVE  /\ o \in Int /\ mem[o].next \in Int
           /\ o + Header + RecSize \in Nat /\ o < o + Header + RecSize
           /\ o + Header + RecSize + s <= mem[o].next /\ mem[o].next <= Size
           /\ \A q \in live : q <= o \/ q >= mem[o].next
<1>1. /\ o \in Int /\ 0 <= o /\ mem[o].next \in Int /\ mem[o].next <= Size
      /\ \A q \in live : q <= o \/ q >= mem[o].next
  BY Blocks
<1>2. s + RecSize <= mem[o].next - (o + Header)
  BY DEF Room
<1>3. RecSize \in Nat \ {0} /\ Header \in Nat \ {0}
  BY PoolSizes, Sizes
<1> DEFINE n == mem[o].next
<1>4. o \in Int /\ 0 <= o /\ n \in Int /\ s + RecSize <= n - (o + Header)
  BY <1>1, <1>2
<1> HIDE DEF n
<1>5. /\ o + Header + RecSize \in Nat /\ o < o + Header + RecSize
      /\ o + Header + RecSize + s <= n
  BY <1>3, <1>4
<1> QED
  BY <1>1, <1>5 DEF n

\* The data of two records that differ have no byte in common.
LEMMA DataApart ==
    ASSUME HInv, NEW o \in live \ {Size}, NEW q \in live \ {Size}, o # q,
           NEW s \in Nat, NEW u \in Nat,
           s + RecSize <= Room(o), u + RecSize <= Room(q)
    PROVE  (o + Header + RecSize .. o + Header + RecSize + s - 1)
              \cap (q + Header + RecSize .. q + Header + RecSize + u - 1) = {}
<1> DEFINE a == o + Header + RecSize
           b == q + Header + RecSize
<1>1. /\ o \in Int /\ mem[o].next \in Int /\ a \in Nat /\ o < a /\ a + s <= mem[o].next
      /\ q <= o \/ q >= mem[o].next
  BY DataInBlock
<1>2. /\ q \in Int /\ mem[q].next \in Int /\ b \in Nat /\ q < b /\ b + u <= mem[q].next
      /\ o <= q \/ o >= mem[q].next
  BY DataInBlock
<1> HIDE DEF a, b
<1>3. (a .. a + s - 1) \cap (b .. b + u - 1) = {}
  BY <1>1, <1>2
<1> QED
  BY <1>3 DEF a, b

\* dpm_user_rtm_add's last step is the Allocate of RtmStore.
LEMMA LinkAllocates ==
    ASSUME PInv, PInv', NEW t \in Task, task[t].pc = "add", UNCHANGED heapVars, boot' = boot,
           Link(t), chain' = Append(chain, task[t].mem)
    PROVE  Promised!Next
<1> DEFINE m == task[t].mem
           c == task[t].cur
           n == task[t].name
           z == task[t].size
           a == m + Header + RecSize
<1>p. /\ PTInv /\ HInv /\ RecordsIntact /\ CallOK(t) /\ Hands(t) /\ Adds(t)
      /\ rec \in [Offset -> RecordType] /\ m \in Pointer /\ c \in Pointer
      /\ chain \in Seq(Offset) /\ z \in Nat
  BY Parts, PoolFields
<1>m. /\ m # Null /\ m \in Offset /\ Good(m) /\ z + RecSize <= Room(m)
      /\ Unknown(n) /\ rec[m] = Record(n, z, Null)
      /\ n \in Name /\ z \in Bytes /\ z > 0
  <2>1. m # Null /\ task[t].op = "allocate"
    BY <1>p DEF PTInv, Shape, CallOK, Searched
  <2>2. Room(m) >= z + RecSize /\ Good(m)
    BY <2>1, <1>p DEF Hands
  <2>3. z + RecSize <= Room(m)
    <3>1. Room(m) \in Int /\ RecSize \in Nat
      BY <2>2, <1>p, RoomTyped, PoolSizes DEF Good
    <3> QED
      BY <3>1, <2>2, <1>p
  <2> QED
    BY <2>1, <2>2, <2>3, <1>p, Pointers DEF Adds, Searched, CallOK
<1>n. rec[m].name = n /\ rec[m].size = z
  BY <1>m DEF Record
<1>b. boot = "done"
  BY DEF PInv, BootOK, Idle
<1>c. Chained' = Chained \cup {m}
  BY <1>p, <1>m, Appended
<1>w. \A o \in Offset : rec'[o].name = rec[o].name /\ rec'[o].size = rec[o].size
  <2>1. CASE c = Null
    BY <2>1 DEF Link
  <2>2. CASE c # Null
    <3>1. rec' = [rec EXCEPT ![c].next = m] /\ c \in Offset
      BY <2>2, <1>p, Pointers DEF Link
    <3> HIDE DEF c, m
    <3> QED
      BY <3>1, <1>p, NextTyped
  <2> QED
    BY <2>1, <2>2
<1> DEFINE f == NamedOf(Chained, rec)
           D == {rec[o].name : o \in Chained}
           g == [k \in D \cup {n} |-> IF k = n THEN [from |-> a, size |-> z] ELSE f[k]]
<1>d. /\ DOMAIN f = D /\ \A o \in Chained : f[rec[o].name] = BytesOf(o, rec)
  BY <1>p, NamesDiffer, NamedIs
<1>u. \A o \in Chained : rec[o].name # n /\ o \in live \ {Size} /\ o \in Offset /\ o # m
  BY <1>m, <1>p, ChainFacts DEF Unknown, Good
<1>N. Named = f /\ Named' = NamedOf(Chained', rec')
  BY NamedNow
<1>1. NamedOf(Chained', rec') = g
  <2> DEFINE C == Chained'
             r == rec'
  <2>1. Distinct(C, r)
    <3>1. RecordsIntact'
      BY DEF PInv
    <3>2. Distinct(Chained, rec)'
      BY <3>1, NamesDiffer, PTL
    <3> QED
      BY <3>2 DEF Distinct
  <2>2. C = Chained \cup {m} /\ r[m].name = n /\ r[m].size = z
        /\ \A o \in Chained : r[o].name = rec[o].name /\ r[o].size = rec[o].size
    BY <1>c, <1>w, <1>n, <1>m, <1>u
  <2> HIDE DEF C, r, f, m, n, z, a
  <2>3. DOMAIN g = {r[o].name : o \in C}
    BY <2>2
  <2>4. g = [k \in DOMAIN g |-> g[k]]
    OBVIOUS
  <2>5. ASSUME NEW o \in C PROVE g[r[o].name] = BytesOf(o, r)
    <3>1. CASE o = m
      BY <3>1, <2>2 DEF BytesOf, a
    <3>2. CASE o \in Chained
      <4>1. g[rec[o].name] = f[rec[o].name]
        BY <3>2, <1>u
      <4> QED
        BY <3>2, <4>1, <2>2, <1>d DEF BytesOf
    <3> QED
      BY <3>1, <3>2, <2>2
  <2> HIDE DEF g
  <2>6. NamedOf(C, r) = g
    BY <2>1, <2>3, <2>4, <2>5, NamedSame
  <2> QED
    BY <2>6 DEF C, r
<1>2. a \in Nat /\ a + z <= Size
  <2>1. m \in live \ {Size}
    BY <1>m DEF Good
  <2>2. mem[m].next \in Int /\ a \in Nat /\ a + z <= mem[m].next /\ mem[m].next <= Size
    BY <2>1, <1>m, <1>p, DataInBlock
  <2> HIDE DEF a, z, m
  <2> QED
    BY <2>2, <1>p, Sizes
<1>3. a \in 0 .. Size - 1 /\ a + z - 1 \in 0 .. Size - 1
  <2> HIDE DEF a, z
  <2> QED
    BY <1>2, <1>m, <1>p, Sizes
<1>4. ASSUME NEW k \in D
      PROVE  (f[k].from .. f[k].from + f[k].size - 1) \cap (a .. a + z - 1) = {}
  <2>1. PICK o \in Chained : k = rec[o].name
    OBVIOUS
  <2>2. f[k] = BytesOf(o, rec)
    BY <2>1, <1>d
  <2>3. f[k].from = o + Header + RecSize /\ f[k].size = rec[o].size
    BY <2>2 DEF BytesOf
  <2>4. rec[o].size \in Nat
    BY <1>u, <1>p, PoolFields
  <2>5. rec[o].size + RecSize <= Room(o)
    BY <1>p, IntactNow DEF Chained
  <2> HIDE DEF f
  <2>6. m \in live \ {Size}
    BY <1>m DEF Good
  <2> QED
    BY <2>3, <2>4, <2>5, <2>6, <1>u, <1>m, <1>p, DataApart
<1> HIDE DEF f, D, g
<1>5. Promised!Allocate(n, a, z)
  <2>1. n \notin DOMAIN Named
    BY <1>N, <1>d, <1>u DEF D
  <2>2. Named' = [k \in DOMAIN Named \cup {n} |->
                    IF k = n THEN [from |-> a, size |-> z] ELSE Named[k]]
    BY <1>N, <1>1, <1>d DEF g
  <2>3. \A k \in DOMAIN Named : Promised!Owned(k) \cap (a .. a + z - 1) = {}
    BY <1>N, <1>d, <1>4 DEF Promised!Owned
  <2>4. a + z - 1 \in Promised!Address
    BY <1>3 DEF Promised!Address
  <2> HIDE DEF a, n, z
  <2> QED
    BY <2>1, <2>2, <2>3, <2>4, <1>b DEF Promised!Allocate
<1>6. a \in Promised!Address
  BY <1>3 DEF Promised!Address
<1> HIDE DEF a, n, z
<1> QED
  BY <1>5, <1>6, <1>m DEF Promised!Next

\* dpm_user_rtm_remove's last step is the Release of RtmStore.
LEMMA UnlinkReleases ==
    ASSUME PInv, PInv', NEW t \in Task, task[t].pc = "find", UNCHANGED heapVars, boot' = boot,
           task[t].cur # Null, rec[task[t].cur].name = task[t].name,
           Unlink(t), chain' = Without(task[t].cur)
    PROVE  Promised!Next
<1> DEFINE c == task[t].cur
           n == task[t].name
<1>p. PTInv /\ RecordsIntact /\ CallOK(t) /\ Finds(t)
  BY Parts
<1>b. boot = "done"
  BY DEF PInv, BootOK, Idle
<1>n. n \in Name
  <2>1. task[t].op = "release"
    BY <1>p DEF PTInv, Shape
  <2> QED
    BY <2>1, <1>p DEF CallOK
<1>1. PICK i \in 1 .. Len(chain) :
         c = chain[i] /\ task[t].prev = IF i = 1 THEN Null ELSE chain[i - 1]
  BY <1>p DEF Finds
<1>2. \A o \in Offset : rec'[o].name = rec[o].name
  BY <1>1, UnlinkKeepsRecords
<1>s. \A o \in Offset : rec'[o].size = rec[o].size
  <2>1. CASE task[t].prev = Null
    BY <2>1 DEF Unlink
  <2>2. CASE task[t].prev # Null
    <3>1. /\ rec' = [rec EXCEPT ![task[t].prev].next = rec[c].next]
          /\ task[t].prev \in Offset /\ c \in Offset
      BY <2>2, <1>p, PoolFields, Pointers DEF Unlink
    <3>2. rec[c].next \in Pointer /\ rec \in [Offset -> RecordType]
      BY <3>1, <1>p, PoolFields
    <3> HIDE DEF c
    <3> QED
      BY <3>1, <3>2, NextTyped
  <2> QED
    BY <2>1, <2>2
<1>c. Chained' = Chained \ {c} /\ c \in Chained /\ Chained \subseteq Offset
  BY <1>1, <1>p, RemovedIs, ChainFacts
<1> DEFINE f == NamedOf(Chained, rec)
           D == {rec[o].name : o \in Chained}
           g == [k \in D \ {n} |-> f[k]]
<1>D. Distinct(Chained, rec)
  BY <1>p, NamesDiffer
<1>d. /\ DOMAIN f = D /\ \A o \in Chained : f[rec[o].name] = BytesOf(o, rec)
  BY <1>D, NamedIs
<1>u. rec[c].name = n /\ \A o \in Chained : rec[o].name = n => o = c
  BY <1>D, <1>c DEF Distinct
<1>N. Named = f /\ Named' = NamedOf(Chained', rec')
  BY NamedNow
<1>3. NamedOf(Chained', rec') = g
  <2> DEFINE C == Chained'
             r == rec'
  <2>1. Distinct(C, r)
    <3>1. RecordsIntact'
      BY DEF PInv
    <3>2. Distinct(Chained, rec)'
      BY <3>1, NamesDiffer, PTL
    <3> QED
      BY <3>2 DEF Distinct
  <2>2. C = Chained \ {c}
        /\ \A o \in Chained : r[o].name = rec[o].name /\ r[o].size = rec[o].size
    BY <1>c, <1>2, <1>s
  <2> HIDE DEF C, r, f, n, c
  <2>3. DOMAIN g = {r[o].name : o \in C}
    BY <2>2, <1>u
  <2>4. g = [k \in DOMAIN g |-> g[k]]
    OBVIOUS
  <2>5. ASSUME NEW o \in C PROVE g[r[o].name] = BytesOf(o, r)
    <3>1. o \in Chained /\ o # c
      BY <2>2
    <3>2. rec[o].name # n
      BY <3>1, <1>u
    <3>3. g[rec[o].name] = f[rec[o].name]
      BY <3>1, <3>2
    <3> QED
      BY <3>1, <3>3, <2>2, <1>d DEF BytesOf
  <2> HIDE DEF g
  <2>6. NamedOf(C, r) = g
    BY <2>1, <2>3, <2>4, <2>5, NamedSame
  <2> QED
    BY <2>6 DEF C, r
<1> HIDE DEF f, g
<1>4. Promised!Release(n)
  <2>1. n \in DOMAIN Named
    BY <1>N, <1>d, <1>u, <1>c
  <2>2. Named' = [k \in DOMAIN Named \ {n} |-> Named[k]]
    BY <1>N, <1>3, <1>d DEF g
  <2> HIDE DEF n
  <2> QED
    BY <2>1, <2>2, <1>b DEF Promised!Release
<1> HIDE DEF n
<1> QED
  BY <1>4, <1>n DEF Promised!Next

\* Every step of the pool is a step of RtmStore, or leaves it as it is.
LEMMA StoreStep ==
    ASSUME PInv, PInv', [Next]_vars
    PROVE  [Promised!Next]_(Promised!vars)
<1>r. RecordsIntact /\ PTInv
  BY DEF PInv
<1>k. ASSUME chain' = chain, rec' = rec, boot' = boot
      PROVE  UNCHANGED Promised!vars
  <2>1. Chained' = Chained
    BY <1>k DEF Chained
  <2>2. Named' = Named
    BY <2>1, <1>k, <1>r, NamedKept
  <2> QED
    BY <2>2, <1>k DEF Promised!vars
<1>1. ASSUME NEW t \in Task, NEW n \in Name,
             (\E s \in Bytes : Allocate(t, n, s)) \/ Release(t, n)
      PROVE  UNCHANGED Promised!vars
  BY <1>1, <1>k DEF Allocate, Release
<1>2. ASSUME NEW t \in Task,
             \/ dpm_user_rtm_search(t) \/ Calloc(t) \/ CallocReturns(t)
             \/ GetFree(t) \/ PutFree(t) \/ Free(t)
      PROVE  UNCHANGED Promised!vars
  BY <1>2, <1>k DEF dpm_user_rtm_search, Calloc, CallocReturns, GetFree, PutFree, Free
<1>3. ASSUME NEW t \in Task, InCalloc(t)
      PROVE  UNCHANGED Promised!vars
  <2>1. CASE hpc[t] = "zero"
    <3>1. /\ chain' = chain /\ boot' = boot /\ rec' = [rec EXCEPT ![blk[t]] = Cleared]
      BY <2>1, <1>3 DEF InCalloc
    <3>2. blk[t] \in live \ {Size} /\ Hands(t) /\ HInv /\ rec \in [Offset -> RecordType]
      BY <2>1, Parts, PoolFields DEF HInv, Owns, Has
    <3>3. blk[t] # Null /\ blk[t] \in Offset
      BY <3>2, Blocks, Pointers
    <3>4. blk[t] \notin Chained
      BY <3>2, <3>3 DEF Hands, Good
    <3>5. \A o \in Chained : rec'[o] = rec[o]
      <4> HIDE DEF Cleared
      <4> QED
        BY <3>1, <3>2, <3>3, <3>4, <1>r, ChainFacts
    <3>6. Chained' = Chained
      BY <3>1 DEF Chained
    <3> QED
      BY <3>1, <3>5, <3>6, <1>r, NamedKept DEF Promised!vars
  <2>2. CASE hpc[t] # "zero"
    BY <2>2, <1>3, <1>k DEF InCalloc
  <2> QED
    BY <2>1, <2>2
<1>4. ASSUME NEW t \in Task, Fill(t)
      PROVE  UNCHANGED Promised!vars
  <2> DEFINE m == task[t].mem
             x == Record(task[t].name, task[t].size, Null)
  <2>1. /\ chain' = chain /\ boot' = boot /\ rec' = [rec EXCEPT ![m] = x]
        /\ task[t].pc = "fill"
    BY <1>4 DEF Fill, At
  <2>2. Hands(t) /\ rec \in [Offset -> RecordType] /\ m \in Pointer
    BY Parts, PoolFields
  <2>3. m # Null
    BY <2>1, <1>r DEF PTInv, Shape
  <2>4. m \in Offset /\ m \notin Chained
    BY <2>2, <2>3, Pointers DEF Hands, Good
  <2>5. \A o \in Chained : rec'[o] = rec[o]
    <3> HIDE DEF x, m
    <3> QED
      BY <2>1, <2>2, <2>4, <1>r, ChainFacts
  <2>6. Chained' = Chained
    BY <2>1 DEF Chained
  <2> QED
    BY <2>1, <2>5, <2>6, <1>r, NamedKept DEF Promised!vars
<1>5. ASSUME NEW t \in Task, dpm_user_rtm_add(t)
      PROVE  Promised!Next \/ UNCHANGED Promised!vars
  <2>1. task[t].pc = "add" /\ UNCHANGED heapVars /\ boot' = boot
    BY <1>5 DEF dpm_user_rtm_add, At
  <2>2. CASE UNCHANGED <<rec, first_user_addr, chain>>
    BY <2>1, <2>2, <1>k
  <2>3. CASE Link(t) /\ chain' = Append(chain, task[t].mem)
    BY <2>1, <2>3, LinkAllocates
  <2> QED
    BY <1>5, <2>2, <2>3 DEF dpm_user_rtm_add
<1>6. ASSUME NEW t \in Task, dpm_user_rtm_remove(t)
      PROVE  Promised!Next \/ UNCHANGED Promised!vars
  <2>1. task[t].pc = "find" /\ UNCHANGED heapVars /\ boot' = boot
    BY <1>6 DEF dpm_user_rtm_remove, At
  <2>2. CASE UNCHANGED <<rec, first_user_addr, chain>>
    BY <2>1, <2>2, <1>k
  <2>3. CASE /\ task[t].cur # Null /\ rec[task[t].cur].name = task[t].name
             /\ Unlink(t) /\ chain' = Without(task[t].cur)
    BY <2>1, <2>3, UnlinkReleases
  <2> QED
    BY <1>6, <2>2, <2>3 DEF dpm_user_rtm_remove
<1>7. ASSUME NEW kept \in BOOLEAN, PowerOff(kept)
      PROVE  Promised!Next
  <2>1. boot = "done" /\ boot' \in {"wakeup", "fresh"} /\ rec' = rec /\ chain' = chain
    BY <1>7 DEF PowerOff
  <2>2. Chained' = Chained
    BY <2>1 DEF Chained
  <2>3. Named' = Named
    BY <2>1, <2>2, <1>r, NamedKept
  <2> QED
    BY <2>1, <2>3 DEF Promised!PowerOff, Promised!Next
<1>8. ASSUME dpm_user_rtm_pool_create
      PROVE  Promised!Next \/ UNCHANGED Promised!vars
  <2>1. CASE boot = "done"
    BY <2>1, <1>8, <1>k DEF dpm_user_rtm_pool_create
  <2>2. CASE boot = "fresh"
    <3>1. chain' = <<>> /\ boot' = "done"
      BY <2>2, <1>8 DEF dpm_user_rtm_pool_create, Recovers
    <3>2. Len(chain') = 0
      BY <3>1, EmptySeq
    <3>3. Chained' = {}
      BY <3>2 DEF Chained
    <3>4. Named' = Promised!Empty
      BY <3>3, NamedNow DEF NamedOf, Promised!Empty
    <3> QED
      BY <2>2, <3>1, <3>4 DEF Promised!Boot, Promised!Next
  <2>3. CASE boot = "wakeup"
    <3>1. chain' = chain /\ rec' = rec /\ boot' = "done"
      BY <2>3, <1>8 DEF dpm_user_rtm_pool_create, Recovers
    <3>2. Chained' = Chained
      BY <3>1 DEF Chained
    <3>3. Named' = Named
      BY <3>1, <3>2, <1>r, NamedKept
    <3> QED
      BY <2>3, <3>1, <3>3 DEF Promised!Boot, Promised!Next
  <2> QED
    BY <2>1, <2>2, <2>3, <1>r DEF PTInv, PoolTyped
<1>9. ASSUME UNCHANGED vars
      PROVE  UNCHANGED Promised!vars
  BY <1>9, <1>k DEF vars, poolVars
<1>10. ASSUME NEW t \in Task, Step(t)
       PROVE  Promised!Next \/ UNCHANGED Promised!vars
  BY <1>10, <1>2, <1>3, <1>4, <1>5, <1>6 DEF Step
<1> QED
  BY <1>1, <1>7, <1>8, <1>9, <1>10 DEF Next

LEMMA StoreStarts == PoolInit => Promised!Init
<1> SUFFICES ASSUME PoolInit PROVE Promised!Init
  OBVIOUS
<1>1. chain = <<>> /\ boot = "fresh"
  BY DEF PoolInit
<1>2. Chained = {}
  BY <1>1, EmptySeq DEF Chained
<1>3. Named = Promised!Empty
  BY <1>2, NamedNow DEF NamedOf, Promised!Empty
<1> QED
  BY <1>1, <1>3 DEF Promised!Init

\* The pool implements RtmStore, for every pool, all names and all sizes: with
\* one calling task, whose calls a power-down may cut off anywhere but between
\* a release's free and its store of free_ptr, a name owns its bytes from the
\* step that links its record to the step that unlinks it, no two names share
\* a byte, and only a boot without retention memory takes them away.
THEOREM PoolImplementsStore ==
    ASSUME OneCaller
    PROVE  Spec => StoreSpec
<1>1. PInv /\ PInv' /\ [Next]_vars => [Promised!Next]_(Promised!vars)
  BY StoreStep
<1>2. Spec => []PInv
  BY PoolInvariant
<1> QED
  BY <1>1, <1>2, StoreStarts, PTL DEF Spec, StoreSpec, Promised!Spec
=============================================================================
