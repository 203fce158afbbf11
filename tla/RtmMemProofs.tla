---------------------------- MODULE RtmMemProofs ----------------------------
(***************************************************************************)
(* Proofs about the heap of RtmMem, for every number of tasks, every size  *)
(* of the pool, of a header and of the smallest block, and every request:  *)
(* the list of blocks stays sane, and the search sees every unused block.  *)
(***************************************************************************)
EXTENDS RtmMem, TLAPS

Headers == [next : Offset, prev : Offset, used : BOOLEAN]

\* The blocks b are linked through the headers of m in both directions, one
\* begins where the one before it ends, and each is wide enough.
Linked(m, b) ==
    /\ m \in [Offset -> Headers]
    /\ b \subseteq Offset /\ {0, Size} \subseteq b
    /\ m[Size] = EndHdr /\ m[0].prev = 0
    /\ \A o \in b \ {Size} :
          /\ m[o].next \in b
          /\ m[o].next >= o + Header + MinSize
          /\ \A q \in b : q <= o \/ q >= m[o].next
          /\ m[o].next # Size => m[m[o].next].prev = o
    /\ \A o \in b \ {0, Size} :
          m[o].prev \in b \ {Size} /\ m[m[o].prev].next = o

\* No two blocks in a row are unused.
Spaced(m, b) == \A o \in b \ {Size} : ~m[o].used => m[m[o].next].used

\* The search from f sees every unused block.
Seen(m, b, f) == f \in b /\ \A o \in b : ~m[o].used => f <= o

\* The sizes are numbers, and rtm_end is behind the first block.
LEMMA Sizes ==
    /\ Size \in Nat /\ Header \in Nat \ {0} /\ MinSize \in Nat \ {0}
    /\ Size >= Header + MinSize /\ 0 \in Offset /\ Size \in Offset /\ Size # 0
    /\ Offset \subseteq Int
    /\ \A o : o \in Offset <=> o \in Int /\ 0 <= o /\ o <= Size
  BY HeapSizes DEF Offset

\* The headers that the code writes have their type.
LEMMA HdrTyped ==
    /\ EndHdr \in Headers /\ Zeroed \in Headers
    /\ \A n \in Offset, p \in Offset, u \in BOOLEAN : Hdr(n, p, u) \in Headers
  BY Sizes DEF EndHdr, Zeroed, Hdr, Headers

\* The links depend only on the headers of the blocks.
LEMMA SameLinks ==
    ASSUME NEW m, NEW b, NEW m2 \in [Offset -> Headers], Linked(m, b),
           \A q \in b : m2[q].next = m[q].next /\ m2[q].prev = m[q].prev,
           m2[Size] = EndHdr
    PROVE  Linked(m2, b)
<1>1. m2[0].prev = 0
  BY DEF Linked
<1>2. ASSUME NEW o \in b \ {Size}
      PROVE  /\ m2[o].next \in b
             /\ m2[o].next >= o + Header + MinSize
             /\ \A q \in b : q <= o \/ q >= m2[o].next
             /\ m2[o].next # Size => m2[m2[o].next].prev = o
  BY DEF Linked
<1>3. ASSUME NEW o \in b \ {0, Size}
      PROVE  m2[o].prev \in b \ {Size} /\ m2[m2[o].prev].next = o
  BY DEF Linked
<1> QED
  BY <1>1, <1>2, <1>3 DEF Linked

\* A header whose prev, or whose next, is written keeps its other fields.
LEMMA WritePrev ==
    ASSUME NEW m \in [Offset -> Headers], NEW o \in Offset, NEW x \in Offset
    PROVE  /\ [m EXCEPT ![o].prev = x] \in [Offset -> Headers]
           /\ \A q \in Offset :
                 /\ [m EXCEPT ![o].prev = x][q].next = m[q].next
                 /\ [m EXCEPT ![o].prev = x][q].prev = IF q = o THEN x ELSE m[q].prev
                 /\ [m EXCEPT ![o].prev = x][q].used = m[q].used
                 /\ q # o => [m EXCEPT ![o].prev = x][q] = m[q]
<1> DEFINE h == [m[o] EXCEPT !.prev = x]
           w == [m EXCEPT ![o].prev = x]
<1>1. h \in Headers /\ h.next = m[o].next /\ h.prev = x /\ h.used = m[o].used
  BY DEF Headers
<1>2. w = [m EXCEPT ![o] = h]
  OBVIOUS
<1> HIDE DEF h, w
<1>3. w \in [Offset -> Headers] /\ \A q \in Offset : w[q] = IF q = o THEN h ELSE m[q]
  BY <1>1, <1>2
<1>4. \A q \in Offset : /\ w[q].next = m[q].next
                        /\ w[q].prev = IF q = o THEN x ELSE m[q].prev
                        /\ w[q].used = m[q].used
                        /\ q # o => w[q] = m[q]
  BY <1>1, <1>3
<1> QED
  BY <1>3, <1>4 DEF w

LEMMA WriteNext ==
    ASSUME NEW m \in [Offset -> Headers], NEW o \in Offset, NEW x \in Offset
    PROVE  /\ [m EXCEPT ![o].next = x] \in [Offset -> Headers]
           /\ \A q \in Offset :
                 /\ [m EXCEPT ![o].next = x][q].next = IF q = o THEN x ELSE m[q].next
                 /\ [m EXCEPT ![o].next = x][q].prev = m[q].prev
                 /\ [m EXCEPT ![o].next = x][q].used = m[q].used
                 /\ q # o => [m EXCEPT ![o].next = x][q] = m[q]
<1> DEFINE h == [m[o] EXCEPT !.next = x]
           w == [m EXCEPT ![o].next = x]
<1>1. h \in Headers /\ h.next = x /\ h.prev = m[o].prev /\ h.used = m[o].used
  BY DEF Headers
<1>2. w = [m EXCEPT ![o] = h]
  OBVIOUS
<1> HIDE DEF h, w
<1>3. w \in [Offset -> Headers] /\ \A q \in Offset : w[q] = IF q = o THEN h ELSE m[q]
  BY <1>1, <1>2
<1>4. \A q \in Offset : /\ w[q].next = IF q = o THEN x ELSE m[q].next
                        /\ w[q].prev = m[q].prev
                        /\ w[q].used = m[q].used
                        /\ q # o => w[q] = m[q]
  BY <1>1, <1>3
<1> QED
  BY <1>3, <1>4 DEF w

\* The second half of a merge: block o takes over its successor.
Merged(m, o) ==
    Relink([m EXCEPT ![o].next = m[m[o].next].next], m[m[o].next].next, o)

\* What a merge writes.
LEMMA MergeWrites ==
    ASSUME NEW m, NEW b, Linked(m, b), NEW o \in b \ {Size}, m[o].next # Size
    PROVE  LET n == m[o].next  s == m[n].next
           IN  /\ n \in b \ {0, Size} /\ s \in b /\ o < n /\ n < s /\ n \in Int /\ s \in Int
               /\ m[n].prev = o /\ (s # Size => m[s].prev = n)
               /\ Merged(m, o) \in [Offset -> Headers]
               /\ \A q \in Offset :
                     /\ Merged(m, o)[q].next = IF q = o THEN s ELSE m[q].next
                     /\ Merged(m, o)[q].prev = IF q = s /\ s # Size THEN o ELSE m[q].prev
                     /\ Merged(m, o)[q].used = m[q].used
               /\ Merged(m, o)[Size] = EndHdr
<1> DEFINE n == m[o].next
           s == m[n].next
           w == [m EXCEPT ![o].next = s]
<1>1. /\ o \in Offset /\ n \in b /\ n \in Offset /\ n # Size
      /\ n >= o + Header + MinSize /\ m[n].prev = o
  BY DEF Linked
<1>2. n \in b \ {0, Size} /\ o < n /\ n \in Int
  BY <1>1, Sizes
<1>3. s \in b /\ s \in Offset /\ s >= n + Header + MinSize /\ (s # Size => m[s].prev = n)
  BY <1>2 DEF Linked
<1>4. n < s /\ s \in Int
  BY <1>2, <1>3, Sizes
<1>5. /\ w \in [Offset -> Headers]
      /\ \A q \in Offset : /\ w[q].next = IF q = o THEN s ELSE m[q].next
                           /\ w[q].prev = m[q].prev /\ w[q].used = m[q].used
      /\ w[Size] = EndHdr
  <2>1. m \in [Offset -> Headers] /\ m[Size] = EndHdr /\ Size \in Offset
    BY Sizes DEF Linked
  <2> HIDE DEF s, n
  <2> QED
    BY <2>1, <1>1, <1>3, WriteNext
<1>6. Merged(m, o) = IF s # Size THEN [w EXCEPT ![s].prev = o] ELSE w
  BY DEF Merged, Relink
<1> HIDE DEF w, s, n
<1>7. /\ Merged(m, o) \in [Offset -> Headers]
      /\ \A q \in Offset :
            /\ Merged(m, o)[q].next = IF q = o THEN s ELSE m[q].next
            /\ Merged(m, o)[q].prev = IF q = s /\ s # Size THEN o ELSE m[q].prev
            /\ Merged(m, o)[q].used = m[q].used
      /\ Merged(m, o)[Size] = EndHdr
  <2>1. CASE s = Size
    BY <2>1, <1>5, <1>6
  <2>2. CASE s # Size
    <3>1. Merged(m, o) = [w EXCEPT ![s].prev = o]
      BY <1>6, <2>2
    <3>2. /\ Merged(m, o) \in [Offset -> Headers]
          /\ \A q \in Offset : /\ Merged(m, o)[q].next = w[q].next
                               /\ Merged(m, o)[q].prev = IF q = s THEN o ELSE w[q].prev
                               /\ Merged(m, o)[q].used = w[q].used
      BY <3>1, <1>1, <1>3, <1>5, WritePrev
    <3>3. Merged(m, o)[Size] = w[Size]
      BY <3>1, <2>2, <1>5, Sizes
    <3> QED
      BY <3>2, <3>3, <1>5, <2>2
  <2> QED
    BY <2>1, <2>2
<1> QED
  BY <1>1, <1>2, <1>3, <1>4, <1>7 DEF s, n

\* A merge keeps the links, and every header's used.
LEMMA MergeLinked ==
    ASSUME NEW m, NEW b, Linked(m, b), NEW o \in b \ {Size}, m[o].next # Size
    PROVE  Linked(Merged(m, o), b \ {m[o].next})
<1> DEFINE n == m[o].next
           s == m[n].next
           m2 == Merged(m, o)
<1>w. /\ n \in b \ {0, Size} /\ s \in b /\ o < n /\ n < s /\ n \in Int /\ s \in Int
      /\ m[n].prev = o /\ (s # Size => m[s].prev = n)
      /\ m2 \in [Offset -> Headers] /\ m2[Size] = EndHdr
      /\ \A q \in Offset :
            /\ m2[q].next = IF q = o THEN s ELSE m[q].next
            /\ m2[q].prev = IF q = s /\ s # Size THEN o ELSE m[q].prev
  BY MergeWrites
<1> HIDE DEF m2
<1>b. b \subseteq Offset /\ 0 \in b /\ Size \in b /\ Offset \subseteq Int /\ o \in Int
      /\ m[0].prev = 0
  BY Sizes DEF Linked
<1>l. \A q \in b \ {Size} :
          /\ m[q].next \in b /\ m[q].next >= q + Header + MinSize
          /\ \A r \in b : r <= q \/ r >= m[q].next
          /\ m[q].next # Size => m[m[q].next].prev = q
  BY DEF Linked
<1>p. \A q \in b \ {0, Size} : m[q].prev \in b \ {Size} /\ m[m[q].prev].next = q
  BY DEF Linked
<1>1. m2[0].prev = 0
  BY <1>w, <1>b, Sizes
<1>2. ASSUME NEW q \in (b \ {n}) \ {Size}
      PROVE  /\ m2[q].next \in b \ {n}
             /\ m2[q].next >= q + Header + MinSize
             /\ \A r \in b \ {n} : r <= q \/ r >= m2[q].next
             /\ m2[q].next # Size => m2[m2[q].next].prev = q
  <2>1. CASE q = o
    <3>1. m2[q].next = s
      BY <2>1, <1>w, <1>b
    <3>2. s >= o + Header + MinSize /\ s # n
      BY <1>w, <1>b, <1>l, Sizes
    <3>3. ASSUME NEW r \in b \ {n} PROVE r <= o \/ r >= s
      <4>1. r \in b /\ o \in b \ {Size} /\ n \in b \ {Size}
        BY <1>w
      <4>2. (r <= o \/ r >= n) /\ (r <= n \/ r >= s)
        BY <4>1, <1>l
      <4>3. r \in Int /\ r # n /\ o \in Int /\ n \in Int /\ s \in Int /\ o < n /\ n < s
        BY <4>1, <1>w, <1>b
      <4> HIDE DEF n, s
      <4> QED
        BY <4>2, <4>3
    <3>4. s # Size => m2[s].prev = o
      BY <1>w, <1>b
    <3> QED
      BY <2>1, <3>1, <3>2, <3>3, <3>4, <1>w
  <2>2. CASE q # o
    <3>1. m2[q].next = m[q].next
      BY <2>2, <1>w, <1>b
    <3>2. m[q].next # n
      BY <2>2, <1>l, <1>w
    <3>3. m[q].next # Size => m[q].next # s
      BY <1>l, <1>w
    <3>4. m[q].next # Size => m2[m[q].next].prev = q
      BY <3>3, <1>l, <1>w, <1>b
    <3> QED
      BY <3>1, <3>2, <3>4, <1>l
  <2> QED
    BY <2>1, <2>2
<1>3. ASSUME NEW q \in (b \ {n}) \ {0, Size}
      PROVE  m2[q].prev \in (b \ {n}) \ {Size} /\ m2[m2[q].prev].next = q
  <2>1. CASE q = s
    BY <2>1, <1>w, <1>b
  <2>2. CASE q # s
    <3> DEFINE p == m[q].prev
    <3>1. m2[q].prev = p /\ p \in b \ {Size} /\ m[p].next = q
      BY <2>2, <1>w, <1>b, <1>p
    <3>2. p # n /\ p # o
      BY <3>1, <2>2
    <3>3. m2[p].next = q
      BY <3>1, <3>2, <1>w, <1>b
    <3> QED
      BY <3>1, <3>2, <3>3
  <2> QED
    BY <2>1, <2>2
<1>4. Linked(m2, b \ {n})
  BY <1>1, <1>2, <1>3, <1>w, <1>b DEF Linked
<1> QED
  BY <1>4 DEF m2

\* A header that keeps its next and its prev keeps the links.
LEMMA WriteUsed ==
    ASSUME NEW m, NEW b, Linked(m, b), NEW o \in b \ {Size},
           NEW h \in Headers, h.next = m[o].next, h.prev = m[o].prev,
           NEW w \in [Offset -> Headers],
           \A q \in Offset : w[q] = IF q = o THEN h ELSE m[q]
    PROVE  /\ Linked(w, b) /\ w[o] = h
           /\ \A q \in Offset : w[q].next = m[q].next /\ (q # o => w[q] = m[q])
<1>0. m \in [Offset -> Headers] /\ o \in Offset /\ b \subseteq Offset
      /\ m[Size] = EndHdr /\ Size \in Offset
  BY Sizes DEF Linked
<1>2. \A q \in Offset : w[q].next = m[q].next /\ w[q].prev = m[q].prev
  OBVIOUS
<1>3. w[Size] = EndHdr
  BY <1>0
<1>4. Linked(w, b)
  BY <1>0, <1>2, <1>3, SameLinks
<1> QED
  BY <1>0, <1>2, <1>4

\* A block is marked as used, or as unused.
Use(m, o) == [m EXCEPT ![o].used = TRUE]
Unuse(m, o) == [m EXCEPT ![o].used = FALSE]

LEMMA MarkedUsed ==
    ASSUME NEW m, NEW b, Linked(m, b), NEW o \in b \ {Size}
    PROVE  LET w == Use(m, o) IN
           /\ Linked(w, b) /\ w[o].used
           /\ \A q \in Offset : w[q].next = m[q].next /\ (q # o => w[q] = m[q])
<1> DEFINE h == [m[o] EXCEPT !.used = TRUE]
           w == Use(m, o)
<1>0. m \in [Offset -> Headers] /\ o \in Offset /\ m[o] \in Headers
  BY DEF Linked
<1>1. h \in Headers /\ h.next = m[o].next /\ h.prev = m[o].prev /\ h.used
  BY <1>0 DEF Headers
<1>b. w = [m EXCEPT ![o] = h]
  BY <1>0 DEF Use
<1> HIDE DEF h, w
<1>2. w \in [Offset -> Headers] /\ \A q \in Offset : w[q] = IF q = o THEN h ELSE m[q]
  BY <1>b, <1>0, <1>1
<1>3. /\ Linked(w, b) /\ w[o] = h
      /\ \A q \in Offset : w[q].next = m[q].next /\ (q # o => w[q] = m[q])
  BY <1>1, <1>2, WriteUsed
<1> QED
  BY <1>1, <1>3 DEF w

LEMMA MarkedUnused ==
    ASSUME NEW m, NEW b, Linked(m, b), NEW o \in b \ {Size}
    PROVE  LET w == Unuse(m, o) IN
           /\ Linked(w, b) /\ ~w[o].used
           /\ \A q \in Offset : w[q].next = m[q].next /\ (q # o => w[q] = m[q])
<1> DEFINE h == [m[o] EXCEPT !.used = FALSE]
           w == Unuse(m, o)
<1>0. m \in [Offset -> Headers] /\ o \in Offset /\ m[o] \in Headers
  BY DEF Linked
<1>1. h \in Headers /\ h.next = m[o].next /\ h.prev = m[o].prev /\ ~h.used
  BY <1>0 DEF Headers
<1>b. w = [m EXCEPT ![o] = h]
  BY <1>0 DEF Unuse
<1> HIDE DEF h, w
<1>2. w \in [Offset -> Headers] /\ \A q \in Offset : w[q] = IF q = o THEN h ELSE m[q]
  BY <1>b, <1>0, <1>1
<1>3. /\ Linked(w, b) /\ w[o] = h
      /\ \A q \in Offset : w[q].next = m[q].next /\ (q # o => w[q] = m[q])
  BY <1>1, <1>2, WriteUsed
<1> QED
  BY <1>1, <1>3 DEF w

\* Two headers are written.
LEMMA WriteTwo ==
    ASSUME NEW m \in [Offset -> Headers], NEW o \in Offset, NEW r \in Offset, o # r,
           NEW g \in Headers, NEW h \in Headers
    PROVE  LET w == [m EXCEPT ![r] = g, ![o] = h]
           IN  /\ w \in [Offset -> Headers] /\ w[o] = h /\ w[r] = g
               /\ \A q \in Offset \ {o, r} : w[q] = m[q]
  OBVIOUS

\* In w, block o is used and a new unused block is linked between it and its
\* successor in mem.
SplitDone(w, o, rest) ==
    /\ rest \in Offset \ live /\ o < rest /\ rest < mem[o].next
    /\ Linked(w, live \cup {rest})
    /\ w[o].used /\ ~w[rest].used
    /\ w[o].next = rest /\ w[rest].next = mem[o].next
    /\ \A q \in live \ {o} : w[q].used = mem[q].used /\ w[q].next = mem[q].next

\* What a split writes.
LEMMA SplitLinked ==
    ASSUME Linked(mem, live), NEW o \in live \ {Size}, NEW n \in Nat, n >= MinSize,
           Room(o) >= n + Header + MinSize
    PROVE  SplitDone(Split(o, n), o, o + Header + n)
<1> DEFINE rest == o + Header + n
           s == mem[o].next
           w == [mem EXCEPT ![rest] = Hdr(s, o, FALSE),
                            ![o] = Hdr(rest, mem[o].prev, TRUE)]
           m2 == Split(o, n)
<1>b. /\ mem \in [Offset -> Headers] /\ live \subseteq Offset /\ 0 \in live /\ Size \in live
      /\ mem[Size] = EndHdr /\ mem[0].prev = 0 /\ o \in Offset /\ o \in Int
      /\ Offset \subseteq Int
  BY Sizes DEF Linked
<1>l. \A q \in live \ {Size} :
          /\ mem[q].next \in live /\ mem[q].next >= q + Header + MinSize
          /\ \A r \in live : r <= q \/ r >= mem[q].next
          /\ mem[q].next # Size => mem[mem[q].next].prev = q
  BY DEF Linked
<1>p. \A q \in live \ {0, Size} :
          mem[q].prev \in live \ {Size} /\ mem[mem[q].prev].next = q
  BY DEF Linked
<1>s. s \in live /\ s \in Offset /\ s \in Int /\ (s # Size => mem[s].prev = o) /\ o < s
  <2>1. s \in live /\ s >= o + Header + MinSize /\ (s # Size => mem[s].prev = o)
    BY <1>l
  <2> HIDE DEF s
  <2> QED
    BY <2>1, <1>b, Sizes
<1>r. /\ rest \in Int /\ o < rest /\ rest + Header + MinSize <= s
      /\ rest >= o + Header + MinSize /\ rest < s
  BY <1>b, <1>s, Sizes DEF Room
<1>o. rest \in Offset
  BY <1>b, <1>s, <1>r, Sizes
<1>n. rest \notin live
  <2>1. \A r \in live : r <= o \/ r >= s
    BY <1>l
  <2> QED
    BY <2>1, <1>b, <1>s, <1>r
<1>h. /\ Hdr(s, o, FALSE) \in Headers /\ Hdr(rest, mem[o].prev, TRUE) \in Headers
      /\ Hdr(s, o, FALSE).next = s /\ Hdr(s, o, FALSE).prev = o /\ ~Hdr(s, o, FALSE).used
      /\ Hdr(rest, mem[o].prev, TRUE).next = rest
      /\ Hdr(rest, mem[o].prev, TRUE).prev = mem[o].prev
      /\ Hdr(rest, mem[o].prev, TRUE).used
  BY <1>b, <1>s, <1>o DEF Hdr, Headers
<1>w. /\ w \in [Offset -> Headers]
      /\ w[o] = Hdr(rest, mem[o].prev, TRUE) /\ w[rest] = Hdr(s, o, FALSE)
      /\ \A q \in Offset \ {o, rest} : w[q] = mem[q]
  <2>1. o # rest
    BY <1>r, <1>b
  <2> DEFINE g == Hdr(s, o, FALSE)
             h == Hdr(rest, mem[o].prev, TRUE)
  <2>2. g \in Headers /\ h \in Headers /\ o \in Offset /\ rest \in Offset
        /\ mem \in [Offset -> Headers]
    BY <1>b, <1>h, <1>o
  <2>3. w = [mem EXCEPT ![rest] = g, ![o] = h]
    OBVIOUS
  <2> HIDE DEF s, rest, g, h, w
  <2>4. /\ w \in [Offset -> Headers] /\ w[o] = h /\ w[rest] = g
        /\ \A q \in Offset \ {o, rest} : w[q] = mem[q]
    BY <2>1, <2>2, <2>3, WriteTwo
  <2> QED
    BY <2>4 DEF g, h
<1>m. m2 = IF s # Size THEN [w EXCEPT ![s].prev = rest] ELSE w
  BY DEF Split, Relink
<1> HIDE DEF w, m2, s, rest
<1>f. /\ m2 \in [Offset -> Headers]
      /\ \A q \in Offset : /\ m2[q].next = w[q].next
                           /\ m2[q].prev = IF q = s /\ s # Size THEN rest ELSE w[q].prev
                           /\ m2[q].used = w[q].used
      /\ m2[Size] = EndHdr
  <2>1. w[Size] = EndHdr
    BY <1>w, <1>b, <1>n
  <2>2. CASE s = Size
    BY <2>1, <2>2, <1>m, <1>w
  <2>3. CASE s # Size
    <3>1. m2 = [w EXCEPT ![s].prev = rest]
      BY <2>3, <1>m
    <3>2. /\ m2 \in [Offset -> Headers]
          /\ \A q \in Offset : /\ m2[q].next = w[q].next
                               /\ m2[q].prev = IF q = s THEN rest ELSE w[q].prev
                               /\ m2[q].used = w[q].used
                               /\ q # s => m2[q] = w[q]
      BY <3>1, <1>w, <1>s, <1>o, WritePrev
    <3> QED
      BY <3>2, <2>1, <2>3, <1>b
  <2> QED
    BY <2>2, <2>3
<1>g. /\ m2[o].next = rest /\ m2[o].prev = mem[o].prev /\ m2[o].used
      /\ m2[rest].next = s /\ m2[rest].prev = o /\ ~m2[rest].used
      /\ \A q \in live \ {o} : /\ m2[q].next = mem[q].next /\ m2[q].used = mem[q].used
                              /\ m2[q].prev = IF q = s /\ s # Size THEN rest
                                               ELSE mem[q].prev
  <2>1. o # s /\ rest # s
    BY <1>s, <1>r, <1>b
  <2>2. /\ m2[o].next = rest /\ m2[o].prev = mem[o].prev /\ m2[o].used
        /\ m2[rest].next = s /\ m2[rest].prev = o /\ ~m2[rest].used
    <3>1. /\ m2[o].next = w[o].next /\ m2[o].prev = w[o].prev /\ m2[o].used = w[o].used
          /\ m2[rest].next = w[rest].next /\ m2[rest].prev = w[rest].prev
          /\ m2[rest].used = w[rest].used
      BY <2>1, <1>f, <1>b, <1>o
    <3> QED
      BY <3>1, <1>w, <1>h
  <2>3. ASSUME NEW q \in live \ {o}
        PROVE  /\ m2[q].next = mem[q].next /\ m2[q].used = mem[q].used
               /\ m2[q].prev = IF q = s /\ s # Size THEN rest ELSE mem[q].prev
    <3>1. q \in Offset \ {o, rest}
      BY <1>b, <1>n
    <3>2. w[q] = mem[q]
      BY <3>1, <1>w
    <3> QED
      BY <3>1, <3>2, <1>f
  <2> QED
    BY <2>2, <2>3
<1> DEFINE b2 == live \cup {rest}
<1>1. m2[0].prev = 0
  <2>1. s # 0
    BY <1>s, <1>b, Sizes
  <2> QED
    BY <2>1, <1>g, <1>b
<1>2. ASSUME NEW q \in b2 \ {Size}
      PROVE  /\ m2[q].next \in b2
             /\ m2[q].next >= q + Header + MinSize
             /\ \A r \in b2 : r <= q \/ r >= m2[q].next
             /\ m2[q].next # Size => m2[m2[q].next].prev = q
  <2>1. CASE q = o
    <3>1. \A r \in live : r <= o \/ r >= s
      BY <1>l DEF s
    <3>2. \A r \in b2 : r <= o \/ r >= rest
      BY <3>1, <1>r, <1>s, <1>b
    <3> QED
      BY <2>1, <3>2, <1>g, <1>r
  <2>2. CASE q = rest
    <3>1. \A r \in live : r <= o \/ r >= s
      BY <1>l DEF s
    <3>2. \A r \in b2 : r <= rest \/ r >= s
      BY <3>1, <1>r, <1>s, <1>b
    <3>3. s # Size => m2[s].prev = rest
      BY <1>g, <1>s, <1>b
    <3> QED
      BY <2>2, <3>2, <3>3, <1>g, <1>r, <1>s
  <2>3. CASE q \in live \ {o, Size}
    <3>1. m2[q].next = mem[q].next /\ mem[q].next \in live
          /\ mem[q].next >= q + Header + MinSize
      BY <2>3, <1>g, <1>l
    <3>2. \A r \in live : r <= q \/ r >= mem[q].next
      BY <2>3, <1>l
    <3>3. rest <= q \/ rest >= mem[q].next
      <4>1. q <= o \/ q >= s
        BY <2>3, <1>l DEF s
      <4>2. o <= q \/ o >= mem[q].next
        BY <3>2
      <4>3. q \in Int /\ q # o /\ mem[q].next \in Int
        BY <2>3, <3>1, <1>b
      <4> QED
        BY <4>1, <4>2, <4>3, <1>r, <1>s, <1>b
    <3>4. mem[q].next # Size => mem[q].next # s
      BY <2>3, <1>l, <1>s
    <3>5. mem[q].next # o => (mem[q].next # Size => m2[mem[q].next].prev = q)
      BY <2>3, <3>1, <3>4, <1>g, <1>l
    <3>6. mem[q].next = o => m2[o].prev = q
      BY <2>3, <1>l, <1>g
    <3> QED
      BY <3>1, <3>2, <3>3, <3>5, <3>6
  <2> QED
    BY <2>1, <2>2, <2>3
<1>3. ASSUME NEW q \in b2 \ {0, Size}
      PROVE  m2[q].prev \in b2 \ {Size} /\ m2[m2[q].prev].next = q
  <2>0. rest # Size
    BY <1>n, <1>b
  <2>1. CASE q = rest
    BY <2>1, <1>g
  <2>2. CASE q = s
    BY <2>0, <2>2, <1>g, <1>s
  <2>3. CASE q \in live \ {0, Size, s}
    <3> DEFINE p == mem[q].prev
    <3>1. m2[q].prev = p /\ p \in live \ {Size} /\ mem[p].next = q
      BY <2>3, <1>g, <1>p
    <3>2. p # o
      BY <3>1, <2>3 DEF s
    <3> QED
      BY <3>1, <3>2, <1>g
  <2> QED
    BY <2>1, <2>2, <2>3
<1>4. Linked(m2, b2)
  BY <1>1, <1>2, <1>3, <1>f, <1>b, <1>o DEF Linked
<1>5. SplitDone(m2, o, rest)
  BY <1>4, <1>g, <1>n, <1>o, <1>r DEF SplitDone, s
<1> QED
  BY <1>5 DEF m2, rest

\* The memory that da16x_dpm_rtm_mem_init leaves is one unused block.
LEMMA FreshLinked ==
    /\ Linked(FreshMem, {0, Size}) /\ Spaced(FreshMem, {0, Size})
    /\ Seen(FreshMem, {0, Size}, 0)
<1> DEFINE h == Hdr(Size, 0, FALSE)
           m == FreshMem
<1>1. h \in Headers /\ h.next = Size /\ h.prev = 0 /\ ~h.used
  BY Sizes DEF Hdr, Headers
<1>2. EndHdr \in Headers /\ EndHdr.used /\ EndHdr.next = Size
  BY HdrTyped DEF EndHdr, Hdr
<1>3. \A o \in Offset : m[o] = IF o = 0 THEN h ELSE IF o = Size THEN EndHdr ELSE Zeroed
  BY DEF FreshMem
<1>4. m \in [Offset -> Headers]
  <2> HIDE DEF h
  <2> QED
    BY <1>1, HdrTyped DEF FreshMem, h
<1> HIDE DEF h, m
<1>5. m[0] = h /\ m[Size] = EndHdr
  BY <1>3, Sizes
<1>6. Linked(m, {0, Size})
  BY <1>1, <1>4, <1>5, Sizes DEF Linked
<1>7. Spaced(m, {0, Size}) /\ Seen(m, {0, Size}, 0)
  BY <1>1, <1>2, <1>5, Sizes DEF Spaced, Seen
<1> QED
  BY <1>6, <1>7 DEF m

-----------------------------------------------------------------------------
\* The size of a block is a number, and at least the smallest.
LEMMA BlockSizeTyped ==
    ASSUME NEW n \in Nat
    PROVE  BlockSize(n) \in Nat /\ BlockSize(n) >= MinSize
<1> DEFINE x == ((n + Align - 1) \div Align) * Align
<1>1. Align \in Nat /\ Align > 0 /\ Width \in Nat /\ Width > 0 /\ MinSize \in Nat
  BY HeapSizes
<1>2. (n + Align - 1) \in Int
  BY <1>1
<1>3. ((n + Align - 1) \div Align) \in Int
  BY <1>1, <1>2
<1>4. x \in Int
  BY <1>1, <1>3
<1> HIDE DEF x
<1>5. x % Width \in Nat
  BY <1>1, <1>4
<1>6. LWIP_MEM_ALIGN_SIZE(n) = x % Width
  BY DEF x, LWIP_MEM_ALIGN_SIZE
<1> QED
  BY <1>1, <1>5, <1>6 DEF BlockSize

Places == {"out", "scan", "adjust", "zero", "done"}

TaskTyped ==
    /\ lock \in Task \cup {NoTask}
    /\ hpc \in [Task -> Places]
    /\ ptr \in [Task -> Offset]
    /\ want \in [Task -> Nat]
    /\ blk \in [Task -> Offset \cup {Null}]

\* What malloc and calloc know at each place: the block they look at is in the
\* list and the mutex is theirs, no unused block was passed, and the block that
\* was taken is used and large enough.
Holds(t) == hpc[t] \in {"scan", "adjust"} => lock = t /\ ptr[t] \in live
Asked(t) == hpc[t] \in {"scan", "adjust", "zero"} => Serveable(want[t])
Passed(t) == hpc[t] = "adjust" => \A o \in live : ~mem[o].used => ptr[t] <= o
Has(t) ==
    hpc[t] \in {"adjust", "zero"} =>
        blk[t] \in live \ {Size} /\ mem[blk[t]].used /\ Room(blk[t]) >= want[t]
Owns(t) == Holds(t) /\ Asked(t) /\ Passed(t) /\ Has(t)

\* The inductive invariant of the heap.
HInv ==
    /\ Linked(mem, live) /\ Spaced(mem, live) /\ Seen(mem, live, lfree)
    /\ TaskTyped
    /\ \A t \in Task : Owns(t)

\* What HInv says of offsets and blocks, in the form the steps need.
LEMMA Blocks ==
    ASSUME HInv
    PROVE  /\ mem \in [Offset -> Headers] /\ live \subseteq Offset
           /\ 0 \in live /\ Size \in live /\ lfree \in live
           /\ \A o \in live : o \in Int /\ 0 <= o /\ o <= Size
           /\ \A o \in live : mem[o].next \in Offset /\ mem[o].next \in Int
           /\ \A o \in live \ {Size} : /\ mem[o].next \in live /\ o < mem[o].next
                                       /\ mem[o].next >= o + Header + MinSize
                                       /\ \A q \in live : q <= o \/ q >= mem[o].next
<1>1. Linked(mem, live) /\ lfree \in live
  BY DEF HInv, Seen
<1>2. /\ mem \in [Offset -> Headers] /\ live \subseteq Offset
      /\ 0 \in live /\ Size \in live
      /\ \A o \in live \ {Size} : /\ mem[o].next \in live
                                  /\ mem[o].next >= o + Header + MinSize
                                  /\ \A q \in live : q <= o \/ q >= mem[o].next
  BY <1>1 DEF Linked
<1>3. \A o \in live : o \in Int /\ 0 <= o /\ o <= Size
  BY <1>2, Sizes
<1>4. \A o \in live : mem[o].next \in Offset /\ mem[o].next \in Int
  BY <1>2, Sizes DEF Headers
<1>5. \A o \in live \ {Size} : o < mem[o].next
  BY <1>2, <1>3, <1>4, Sizes
<1> QED
  BY <1>1, <1>2, <1>3, <1>4, <1>5

\* A task that did not move keeps what it knows when the blocks are the same.
LEMMA SameBlocks ==
    ASSUME HInv, NEW u \in Task, live' = live, lock' = lock \/ hpc[u] \notin {"scan", "adjust"},
           \A q \in live : mem'[q].next = mem[q].next /\ mem'[q].used = mem[q].used,
           hpc'[u] = hpc[u], ptr'[u] = ptr[u], want'[u] = want[u], blk'[u] = blk[u]
    PROVE  Owns(u)'
<1>1. Owns(u)
  BY DEF HInv
<1>2. Holds(u)' /\ Asked(u)'
  BY <1>1 DEF Owns, Holds, Asked, Serveable, BlockSize, LWIP_MEM_ALIGN_SIZE
<1>3. Passed(u)'
  BY <1>1 DEF Owns, Passed
<1>4. Has(u)'
  BY <1>1 DEF Owns, Has, Room
<1> QED
  BY <1>2, <1>3, <1>4 DEF Owns

\* While nobody but t holds the mutex, another task keeps what it knows when
\* its block stays in the list, stays used and keeps its successor.
LEMMA OthersKept ==
    ASSUME HInv, NEW t \in Task, lock \in {t, NoTask}, NEW u \in Task, u # t,
           \A o \in live \ {Size} :
              mem[o].used /\ hpc[u] = "zero" /\ o = blk[u] =>
                 o \in live' /\ mem'[o].used /\ mem'[o].next = mem[o].next,
           hpc'[u] = hpc[u], ptr'[u] = ptr[u], want'[u] = want[u], blk'[u] = blk[u]
    PROVE  Owns(u)'
<1>1. Owns(u)
  BY DEF HInv
<1>2. hpc[u] \notin {"scan", "adjust"}
  BY <1>1, NobodyIsNoTask DEF Owns, Holds
<1>3. Holds(u)' /\ Passed(u)'
  BY <1>2 DEF Holds, Passed
<1>4. Asked(u)'
  BY <1>1 DEF Owns, Asked, Serveable, BlockSize, LWIP_MEM_ALIGN_SIZE
<1>5. Has(u)'
  BY <1>1, <1>2 DEF Owns, Has, Room
<1> QED
  BY <1>3, <1>4, <1>5 DEF Owns

LEMMA HeapStarts == HeapInit => HInv
<1> SUFFICES ASSUME HeapInit PROVE HInv
  OBVIOUS
<1>1. /\ mem = FreshMem /\ lfree = 0 /\ live = {0, Size} /\ lock = NoTask
      /\ hpc = [t \in Task |-> "out"] /\ ptr = [t \in Task |-> 0]
      /\ want = [t \in Task |-> 0] /\ blk = [t \in Task |-> Null]
  BY DEF HeapInit
<1>2. TaskTyped
  BY <1>1, Sizes DEF TaskTyped, Places
<1>3. \A t \in Task : Owns(t)
  BY <1>1 DEF Owns, Holds, Asked, Passed, Has
<1>4. Linked(FreshMem, {0, Size}) /\ Spaced(FreshMem, {0, Size})
      /\ Seen(FreshMem, {0, Size}, 0)
  BY FreshLinked
<1> QED
  BY <1>1, <1>2, <1>3, <1>4 DEF HInv

\* The step of task t leaves the list and lfree alone.
LEMMA HeapLeft ==
    ASSUME HInv, UNCHANGED heap, TaskTyped', \A u \in Task : Owns(u)'
    PROVE  HInv'
  BY DEF HInv, heap

LEMMA HeapUnchanged ==
    ASSUME HInv, UNCHANGED heapVars
    PROVE  HInv'
<1>1. UNCHANGED heap /\ lock' = lock /\ hpc' = hpc /\ ptr' = ptr /\ want' = want /\ blk' = blk
  BY DEF heapVars, heap
<1>2. TaskTyped' /\ \A u \in Task : Owns(u)'
  BY <1>1, SameBlocks DEF HInv, TaskTyped, heap
<1> QED
  BY <1>1, <1>2, HeapLeft

LEMMA MallocBeginKeeps ==
    ASSUME HInv, NEW t \in Task, NEW n \in Nat, MallocBegin(t, n)
    PROVE  HInv'
<1>1. /\ lock = NoTask /\ lock' = t /\ hpc' = [hpc EXCEPT ![t] = "scan"]
      /\ ptr' = [ptr EXCEPT ![t] = lfree] /\ want' = [want EXCEPT ![t] = n]
      /\ UNCHANGED heap /\ blk' = blk /\ Serveable(n)
  BY DEF MallocBegin
<1>2. lfree \in live /\ lfree \in Offset
  BY Blocks
<1>3. TaskTyped'
  BY <1>1, <1>2 DEF HInv, TaskTyped, Places
<1>4. ASSUME NEW u \in Task PROVE Owns(u)'
  <2>1. CASE u = t
    <3>1. hpc'[t] = "scan" /\ ptr'[t] = lfree /\ want'[t] = n
      BY <1>1 DEF HInv, TaskTyped
    <3> QED
      BY <2>1, <3>1, <1>1, <1>2
      DEF Owns, Holds, Asked, Passed, Has, heap, Serveable, BlockSize, LWIP_MEM_ALIGN_SIZE
  <2>2. CASE u # t
    BY <2>2, <1>1, OthersKept DEF HInv, TaskTyped, heap
  <2> QED
    BY <2>1, <2>2
<1> QED
  BY <1>1, <1>3, <1>4, HeapLeft

LEMMA ScanOnKeeps ==
    ASSUME HInv, NEW t \in Task, ScanOn(t)
    PROVE  HInv'
<1>1. /\ hpc[t] = "scan" /\ ptr[t] < Size - Need(t)
      /\ ptr' = [ptr EXCEPT ![t] = mem[ptr[t]].next]
      /\ UNCHANGED heap /\ lock' = lock /\ hpc' = hpc /\ want' = want /\ blk' = blk
  BY DEF ScanOn, Scanning
<1>t. TaskTyped
  BY DEF HInv
<1>2. Owns(t) /\ lock = t /\ ptr[t] \in live /\ Need(t) \in Nat /\ Need(t) >= MinSize
  BY <1>1, <1>t, BlockSizeTyped DEF HInv, Owns, Holds, TaskTyped, Need
<1>3. ptr[t] # Size
  BY <1>1, <1>2, Sizes, Blocks
<1>4. mem[ptr[t]].next \in live /\ mem[ptr[t]].next \in Offset
  BY <1>2, <1>3, Blocks
<1>5. TaskTyped'
  BY <1>1, <1>4, <1>t DEF TaskTyped
<1>6. ASSUME NEW u \in Task PROVE Owns(u)'
  <2>1. CASE u = t
    <3>1. ptr'[t] = mem[ptr[t]].next
      BY <1>1, <1>t DEF TaskTyped
    <3> QED
      BY <2>1, <3>1, <1>1, <1>2, <1>4
      DEF Owns, Holds, Asked, Passed, Has, heap, Serveable, BlockSize, LWIP_MEM_ALIGN_SIZE
  <2>2. CASE u # t
    BY <2>2, <1>1, <1>t, SameBlocks DEF TaskTyped, heap
  <2> QED
    BY <2>1, <2>2
<1> QED
  BY <1>1, <1>5, <1>6, HeapLeft

LEMMA ScanFailedKeeps ==
    ASSUME HInv, NEW t \in Task, ScanFailed(t)
    PROVE  HInv'
<1>1. /\ hpc[t] = "scan" /\ hpc' = [hpc EXCEPT ![t] = "done"] /\ lock' = NoTask
      /\ UNCHANGED heap /\ ptr' = ptr /\ want' = want /\ blk' = blk
  BY DEF ScanFailed
<1>t. TaskTyped /\ lock = t
  BY <1>1 DEF HInv, Owns, Holds
<1>2. TaskTyped'
  BY <1>1, <1>t DEF TaskTyped, Places
<1>3. ASSUME NEW u \in Task PROVE Owns(u)'
  <2>1. CASE u = t
    <3>1. hpc'[t] = "done"
      BY <1>1, <1>t DEF TaskTyped
    <3> QED
      BY <2>1, <3>1 DEF Owns, Holds, Asked, Passed, Has
  <2>2. CASE u # t
    BY <2>2, <1>1, <1>t, OthersKept DEF TaskTyped, heap
  <2> QED
    BY <2>1, <2>2
<1> QED
  BY <1>1, <1>2, <1>3, HeapLeft

LEMMA AdjustOnKeeps ==
    ASSUME HInv, NEW t \in Task, AdjustOn(t)
    PROVE  HInv'
<1>1. /\ hpc[t] = "adjust" /\ mem[ptr[t]].used /\ ptr[t] # Size
      /\ ptr' = [ptr EXCEPT ![t] = mem[ptr[t]].next]
      /\ UNCHANGED heap /\ lock' = lock /\ hpc' = hpc /\ want' = want /\ blk' = blk
  BY DEF AdjustOn
<1>t. TaskTyped
  BY DEF HInv
<1>2. Owns(t) /\ lock = t /\ ptr[t] \in live
  BY <1>1, <1>t DEF HInv, Owns, Holds
<1>3. /\ mem[ptr[t]].next \in live /\ mem[ptr[t]].next \in Offset
      /\ \A q \in live : q <= ptr[t] \/ q >= mem[ptr[t]].next
  BY <1>1, <1>2, Blocks
<1>4. TaskTyped'
  BY <1>1, <1>3, <1>t DEF TaskTyped
<1>5. ptr'[t] = mem[ptr[t]].next
  BY <1>1, <1>t DEF TaskTyped
<1>6. ASSUME NEW o \in live, ~mem[o].used PROVE mem[ptr[t]].next <= o
  <2>1. ptr[t] <= o /\ o # ptr[t]
    BY <1>1, <1>2, <1>6 DEF Owns, Passed
  <2>2. o \in Int /\ ptr[t] \in Int /\ mem[ptr[t]].next \in Int
    BY <1>2, Blocks
  <2> QED
    BY <2>1, <2>2, <1>3
<1>7. ASSUME NEW u \in Task PROVE Owns(u)'
  <2>1. CASE u = t
    <3>1. Passed(t)'
      BY <1>1, <1>5, <1>6 DEF Passed, heap
    <3>2. Holds(t)' /\ Asked(t)' /\ Has(t)'
      BY <1>1, <1>2, <1>3, <1>5
      DEF Owns, Holds, Asked, Has, heap, Serveable, BlockSize, LWIP_MEM_ALIGN_SIZE, Room
    <3> QED
      BY <2>1, <3>1, <3>2 DEF Owns
  <2>2. CASE u # t
    BY <2>2, <1>1, <1>t, SameBlocks DEF TaskTyped, heap
  <2> QED
    BY <2>1, <2>2
<1> QED
  BY <1>1, <1>4, <1>7, HeapLeft

LEMMA AdjustEndKeeps ==
    ASSUME HInv, NEW t \in Task, AdjustEnd(t)
    PROVE  HInv'
<1>1. /\ hpc[t] = "adjust" /\ lfree' = ptr[t]
      /\ hpc' = [hpc EXCEPT ![t] = "zero"] /\ lock' = NoTask
      /\ mem' = mem /\ live' = live /\ ptr' = ptr /\ want' = want /\ blk' = blk
  BY DEF AdjustEnd
<1>t. TaskTyped
  BY DEF HInv
<1>2. Owns(t) /\ lock = t /\ ptr[t] \in live
  BY <1>1, <1>t DEF HInv, Owns, Holds
<1>3. TaskTyped'
  BY <1>1, <1>t DEF TaskTyped, Places
<1>4. Linked(mem', live') /\ Spaced(mem', live') /\ Seen(mem', live', lfree')
  BY <1>1, <1>2 DEF HInv, Seen, Owns, Passed
<1>5. ASSUME NEW u \in Task PROVE Owns(u)'
  <2>1. CASE u = t
    <3>1. hpc'[t] = "zero"
      BY <1>1, <1>t DEF TaskTyped
    <3> QED
      BY <2>1, <3>1, <1>1, <1>2
      DEF Owns, Holds, Asked, Passed, Has, Serveable, BlockSize, LWIP_MEM_ALIGN_SIZE, Room
  <2>2. CASE u # t
    BY <2>2, <1>1, <1>2, <1>t, OthersKept DEF TaskTyped
  <2> QED
    BY <2>1, <2>2
<1> QED
  BY <1>3, <1>4, <1>5 DEF HInv

\* The block that malloc takes: used, with room for the request, and the list
\* is in order whether the remainder was cut off or not.
LEMMA ScanTakeBlock ==
    ASSUME HInv, NEW t \in Task, ScanTake(t)
    PROVE  LET o == ptr[t]
           IN  /\ o \in live \ {Size} /\ ~mem[o].used
               /\ Linked(mem', live') /\ Spaced(mem', live')
               /\ \A f : Seen(mem, live, f) => Seen(mem', live', f)
               /\ o \in live' /\ mem'[o].used
               /\ mem'[o].next - (o + Header) >= want[t]
               /\ \A q \in live \ {o} : /\ q \in live' /\ mem'[q].used = mem[q].used
                                       /\ mem'[q].next = mem[q].next
               /\ \A q \in live' \ {o} : mem'[q].used => q \in live
<1> DEFINE o == ptr[t]
           n == Need(t)
<1>t. TaskTyped
  BY DEF HInv
<1>1. /\ hpc[t] = "scan" /\ o < Size - n /\ ~mem[o].used /\ Room(o) >= n
  BY DEF ScanTake, Scanning, Fits
<1>2. o \in live /\ n \in Nat /\ n >= MinSize /\ n >= want[t] /\ want[t] \in Nat
  BY <1>1, <1>t, BlockSizeTyped
  DEF HInv, Owns, Holds, Asked, Serveable, TaskTyped, Need
<1>i. o \in Int /\ mem[o].next \in Int
  BY <1>2, Blocks
<1>3. o \in live \ {Size}
  <2> HIDE DEF n, o
  <2> QED
    BY <1>1, <1>2, <1>i, Sizes
<1>4. /\ Linked(mem, live) /\ Spaced(mem, live)
      /\ mem[o].next \in live /\ mem[mem[o].next].used /\ mem[o].next # o
  <2>1. Linked(mem, live) /\ Spaced(mem, live)
    BY DEF HInv
  <2>2. mem[o].next \in live /\ o < mem[o].next
    BY <1>3, Blocks
  <2> QED
    BY <2>1, <2>2, <1>1, <1>3, <1>i DEF Spaced
<1>5. CASE Room(o) >= n + Header + MinSize
  <2> DEFINE rest == o + Header + n
  <2>1. mem' = Split(o, n) /\ live' = live \cup {rest}
    BY <1>5 DEF ScanTake
  <2> HIDE DEF n, o
  <2>2. /\ rest \in Offset \ live /\ o < rest /\ rest < mem[o].next
        /\ Linked(mem', live')
        /\ mem'[o].used /\ ~mem'[rest].used
        /\ mem'[o].next = rest /\ mem'[rest].next = mem[o].next
        /\ \A q \in live \ {o} : mem'[q].used = mem[q].used /\ mem'[q].next = mem[q].next
    <3>1. n \in Nat /\ n >= MinSize /\ Room(o) >= n + Header + MinSize
          /\ Linked(mem, live)
      BY <1>2, <1>4, <1>5
    <3>2. SplitDone(mem', o, rest)
      BY <3>1, <2>1, <1>3, SplitLinked
    <3>3. live' = live \cup {rest}
      BY <2>1
    <3> HIDE DEF rest
    <3> QED
      BY <3>2, <3>3 DEF SplitDone
  <2>r. rest \in Int
    BY <2>2, Sizes
  <2>3. Spaced(mem', live')
    <3> SUFFICES ASSUME NEW q \in live' \ {Size}, ~mem'[q].used
                 PROVE  mem'[mem'[q].next].used
      BY DEF Spaced
    <3>1. CASE q = rest
      BY <3>1, <2>2, <1>4
    <3>2. CASE q # rest
      <4>1. q \in live \ {o, Size}
        BY <3>2, <2>1, <2>2
      <4>2. mem[mem[q].next].used /\ mem[q].next \in live
        BY <4>1, <2>2, <1>4, Blocks DEF Spaced
      <4> QED
        BY <4>1, <4>2, <2>2, <1>1
    <3> QED
      BY <3>1, <3>2
  <2>4. ASSUME NEW f, Seen(mem, live, f) PROVE Seen(mem', live', f)
    <3>1. f \in live' /\ f \in Int /\ f <= o
      BY <2>1, <2>4, <1>1, <1>3, Blocks DEF Seen
    <3>2. ASSUME NEW q \in live', ~mem'[q].used PROVE f <= q
      <4>1. CASE q = rest
        <5>1. o \in Int
          BY <1>i
        <5> HIDE DEF rest
        <5> QED
          BY <4>1, <5>1, <3>1, <2>2, <2>r
      <4>2. CASE q # rest
        BY <4>2, <3>2, <2>1, <2>2, <2>4 DEF Seen
      <4> QED
        BY <4>1, <4>2
    <3> QED
      BY <3>1, <3>2 DEF Seen
  <2>5. mem'[o].next - (o + Header) >= want[t]
    BY <2>2, <1>2, <1>i, Sizes DEF o
  <2> QED
    BY <2>1, <2>2, <2>3, <2>4, <2>5, <1>1, <1>3 DEF o
<1>6. CASE ~(Room(o) >= n + Header + MinSize)
  <2>1. mem' = Use(mem, o) /\ live' = live
    BY <1>6 DEF ScanTake, Use
  <2> HIDE DEF n, o
  <2>2. /\ Linked(mem', live') /\ mem'[o].used
        /\ \A q \in Offset : mem'[q].next = mem[q].next /\ (q # o => mem'[q] = mem[q])
    BY <2>1, <1>3, <1>4, MarkedUsed
  <2>3. live \subseteq Offset /\ \A q \in live \ {Size} : mem[q].next \in live
    BY Blocks
  <2>4. Spaced(mem', live') /\ \A f : Seen(mem, live, f) => Seen(mem', live', f)
    <3>1. live' = live /\ Spaced(mem, live)
      BY <2>1, <1>4
    <3>2. \A q \in live : q # o => mem'[q] = mem[q]
      BY <2>2, <2>3
    <3>3. \A q \in live : mem'[q].next = mem[q].next
      BY <2>2, <2>3
    <3>4. \A q \in live : ~mem'[q].used => q # o /\ ~mem[q].used
      BY <2>2, <3>2
    <3>5. Spaced(mem', live)
      BY <3>1, <3>2, <3>3, <3>4, <2>2, <2>3 DEF Spaced
    <3>6. \A f : Seen(mem, live, f) => Seen(mem', live, f)
      BY <3>4 DEF Seen
    <3> QED
      BY <3>1, <3>5, <3>6
  <2>5. mem'[o].used /\ mem'[o].next = mem[o].next
    BY <2>2, <2>3, <1>3
  <2>6. mem'[o].next - (o + Header) >= want[t]
    BY <2>5, <1>1, <1>2, <1>i, Sizes DEF Room, o
  <2> QED
    BY <2>1, <2>2, <2>3, <2>4, <2>5, <2>6, <1>1, <1>3 DEF o
<1> QED
  BY <1>5, <1>6

LEMMA ScanTakeKeeps ==
    ASSUME HInv, NEW t \in Task, ScanTake(t)
    PROVE  HInv'
<1> DEFINE o == ptr[t]
<1>t. TaskTyped
  BY DEF HInv
<1>1. /\ hpc[t] = "scan" /\ lfree' = lfree /\ ptr' = ptr /\ want' = want
      /\ blk' = [blk EXCEPT ![t] = o]
      /\ \/ /\ o = lfree /\ hpc' = [hpc EXCEPT ![t] = "adjust"] /\ lock' = lock
         \/ /\ hpc' = [hpc EXCEPT ![t] = "zero"] /\ lock' = NoTask
  BY DEF ScanTake, Scanning
<1>2. lock = t /\ Serveable(want[t]) /\ o \in Offset
  BY <1>1, <1>t DEF HInv, Owns, Holds, Asked, TaskTyped
<1>3. /\ o \in live \ {Size} /\ ~mem[o].used
      /\ Linked(mem', live') /\ Spaced(mem', live') /\ Seen(mem', live', lfree')
      /\ o \in live' /\ mem'[o].used
      /\ mem'[o].next - (o + Header) >= want[t]
      /\ \A q \in live \ {o} : /\ q \in live' /\ mem'[q].used = mem[q].used
                              /\ mem'[q].next = mem[q].next
  BY <1>1, ScanTakeBlock DEF HInv
<1>4. TaskTyped'
  BY <1>1, <1>2, <1>t DEF TaskTyped, Places
<1>5. ASSUME NEW u \in Task PROVE Owns(u)'
  <2>1. CASE u = t
    <3>1. blk'[t] = o /\ ptr'[t] = o /\ want'[t] = want[t]
      BY <1>1, <1>t DEF TaskTyped
    <3>2. Asked(t)'
      BY <1>1, <1>2 DEF Asked, Serveable, BlockSize, LWIP_MEM_ALIGN_SIZE
    <3>3. Has(t)'
      BY <3>1, <1>3 DEF Has, Room
    <3>4. Holds(t)' /\ Passed(t)'
      <4>1. CASE o = lfree /\ hpc' = [hpc EXCEPT ![t] = "adjust"] /\ lock' = lock
        BY <4>1, <3>1, <1>1, <1>2, <1>3 DEF Holds, Passed, Seen
      <4>2. CASE hpc' = [hpc EXCEPT ![t] = "zero"] /\ lock' = NoTask
        <5>1. hpc'[t] = "zero"
          BY <4>2, <1>t DEF TaskTyped
        <5> QED
          BY <5>1 DEF Holds, Passed
      <4> QED
        BY <4>1, <4>2, <1>1
    <3> QED
      BY <2>1, <3>2, <3>3, <3>4 DEF Owns
  <2>2. CASE u # t
    <3>1. hpc'[u] = hpc[u] /\ ptr'[u] = ptr[u] /\ want'[u] = want[u] /\ blk'[u] = blk[u]
      BY <2>2, <1>1, <1>t DEF TaskTyped
    <3>2. \A q \in live \ {Size} :
             mem[q].used => q \in live' /\ mem'[q].used /\ mem'[q].next = mem[q].next
      BY <1>3
    <3> QED
      BY <2>2, <3>1, <3>2, <1>2, OthersKept
  <2> QED
    BY <2>1, <2>2
<1> QED
  BY <1>3, <1>4, <1>5 DEF HInv

\* The data that calloc clears is that of its own block.
LEMMA ZeroOwnData ==
    ASSUME HInv, NEW t \in Task, Zero(t)
    PROVE  /\ mem' \in [Offset -> Headers]
           /\ \A q \in live : mem'[q] = mem[q]
<1> DEFINE o == blk[t]
<1>1. hpc[t] = "zero" /\ \A q \in Offset :
          mem'[q] = IF o + Header <= q /\ q < o + Header + want[t] THEN Zeroed ELSE mem[q]
  BY DEF Zero
<1>2. o \in live \ {Size} /\ Room(o) >= want[t] /\ want[t] \in Nat
  BY <1>1 DEF HInv, Owns, Has, TaskTyped
<1>3. mem' \in [Offset -> Headers]
  BY HdrTyped, Blocks DEF Zero
<1>4. ASSUME NEW q \in live PROVE mem'[q] = mem[q]
  <2>1. q \in Int /\ o \in Int /\ mem[o].next \in Int /\ q \in Offset
        /\ (q <= o \/ q >= mem[o].next)
    BY <1>2, Blocks
  <2>2. mem[o].next >= o + Header + want[t]
    BY <2>1, <1>2, Sizes DEF Room
  <2>3. ~(o + Header <= q /\ q < o + Header + want[t])
    BY <2>1, <2>2, <1>2, Sizes
  <2> QED
    BY <2>1, <2>3, <1>1
<1> QED
  BY <1>3, <1>4

LEMMA ZeroKeeps ==
    ASSUME HInv, NEW t \in Task, Zero(t)
    PROVE  HInv'
<1>1. /\ hpc' = [hpc EXCEPT ![t] = "done"] /\ lfree' = lfree /\ lock' = lock
      /\ ptr' = ptr /\ want' = want /\ blk' = blk /\ live' = live
  BY DEF Zero
<1>t. TaskTyped
  BY DEF HInv
<1>2. TaskTyped'
  BY <1>1, <1>t DEF TaskTyped, Places
<1>3. mem' \in [Offset -> Headers] /\ \A q \in live : mem'[q] = mem[q]
  BY ZeroOwnData
<1>4. /\ Linked(mem, live) /\ mem[Size] = EndHdr /\ Size \in live
      /\ \A q \in live \ {Size} : mem[q].next \in live
  BY Blocks DEF HInv, Linked
<1>5. Linked(mem', live')
  BY <1>1, <1>3, <1>4, SameLinks
<1>6. Spaced(mem', live') /\ Seen(mem', live', lfree')
  BY <1>1, <1>3, <1>4 DEF HInv, Spaced, Seen
<1>7. ASSUME NEW u \in Task PROVE Owns(u)'
  <2>1. CASE u = t
    <3>1. hpc'[t] = "done"
      BY <1>1, <1>t DEF TaskTyped
    <3> QED
      BY <2>1, <3>1 DEF Owns, Holds, Asked, Passed, Has
  <2>2. CASE u # t
    BY <2>2, <1>1, <1>3, <1>t, SameBlocks DEF TaskTyped
  <2> QED
    BY <2>1, <2>2
<1> QED
  BY <1>2, <1>5, <1>6, <1>7 DEF HInv

LEMMA CallocReturnKeeps ==
    ASSUME HInv, NEW t \in Task, CallocReturn(t)
    PROVE  HInv'
<1>1. /\ hpc' = [hpc EXCEPT ![t] = "out"] /\ ptr' = [ptr EXCEPT ![t] = 0]
      /\ want' = [want EXCEPT ![t] = 0] /\ blk' = [blk EXCEPT ![t] = Null]
      /\ UNCHANGED heap /\ lock' = lock
  BY DEF CallocReturn
<1>t. TaskTyped
  BY DEF HInv
<1>2. TaskTyped'
  BY <1>1, <1>t, Sizes DEF TaskTyped, Places
<1>3. ASSUME NEW u \in Task PROVE Owns(u)'
  <2>1. CASE u = t
    <3>1. hpc'[t] = "out"
      BY <1>1, <1>t DEF TaskTyped
    <3> QED
      BY <2>1, <3>1 DEF Owns, Holds, Asked, Passed, Has
  <2>2. CASE u # t
    BY <2>2, <1>1, <1>t, SameBlocks DEF TaskTyped, heap
  <2> QED
    BY <2>1, <2>2
<1> QED
  BY <1>1, <1>2, <1>3, HeapLeft

\* After a wake-up the list is the one that was kept.
LEMMA RecoveryKeeps ==
    ASSUME HInv, da16x_dpm_rtm_mem_recovery(lfree)
    PROVE  HInv'
<1>1. /\ mem' = [mem EXCEPT ![Size] = EndHdr] /\ lfree' = lfree /\ live' = live
      /\ lock' = NoTask
      /\ hpc' = [t \in Task |-> "out"] /\ ptr' = [t \in Task |-> 0]
      /\ want' = [t \in Task |-> 0] /\ blk' = [t \in Task |-> Null]
  BY DEF da16x_dpm_rtm_mem_recovery, Restarted
<1>2. mem \in [Offset -> Headers] /\ mem[Size] = EndHdr /\ Size \in Offset
  BY Sizes DEF HInv, Linked
<1>3. mem' = mem
  BY <1>1, <1>2
<1>4. TaskTyped'
  BY <1>1, Sizes DEF TaskTyped, Places
<1>5. \A u \in Task : Owns(u)'
  BY <1>1 DEF Owns, Holds, Asked, Passed, Has
<1> QED
  BY <1>1, <1>3, <1>4, <1>5, HeapLeft DEF heap

-----------------------------------------------------------------------------
\* Two unused blocks in a row involve the block at o.
SpacedBut(m, b, o) ==
    \A q \in b \ {Size, o} : ~m[q].used /\ m[q].next # o => m[m[q].next].used

\* The used blocks of m with blocks b are those of m2 with blocks b2.
UsedKept(m, b, m2, b2) ==
    /\ \A q \in b : m[q].used => q \in b2 /\ m2[q].used /\ m2[q].next = m[q].next
    /\ \A q \in b2 : m2[q].used => q \in b /\ m[q].used

\* The unused block at o, in the list that the two halves of plug_holes see.
Freed(m, f, b, o) ==
    /\ Linked(m, b) /\ Seen(m, b, f) /\ SpacedBut(m, b, o)
    /\ o \in b \ {Size} /\ ~m[o].used

\* The first half of plug_holes: the block behind o is used afterwards.
LEMMA PlugForwardKeeps ==
    ASSUME NEW m, NEW b, NEW f, NEW o, Freed(m, f, b, o)
    PROVE  LET h == PlugForward(m, f, b, o)
           IN  /\ Freed(h.mem, h.lfree, h.live, o)
               /\ h.mem[h.mem[o].next].used
               /\ UsedKept(m, b, h.mem, h.live)
<1> DEFINE h == PlugForward(m, f, b, o)
           n == m[o].next
           s == m[n].next
<1>0. /\ Linked(m, b) /\ Seen(m, b, f) /\ SpacedBut(m, b, o)
      /\ o \in b \ {Size} /\ ~m[o].used
  BY DEF Freed
<1>1. /\ m \in [Offset -> Headers] /\ b \subseteq Offset /\ Offset \subseteq Int
      /\ m[Size] = EndHdr /\ n \in b /\ o < n /\ o \in Int /\ n \in Int
      /\ \A q \in b \ {Size} : m[q].next \in b
  <2>1. n \in b /\ n >= o + Header + MinSize
    BY <1>0 DEF Linked
  <2>2. /\ m \in [Offset -> Headers] /\ b \subseteq Offset
        /\ m[Size] = EndHdr /\ \A q \in b \ {Size} : m[q].next \in b
    BY <1>0 DEF Linked
  <2> HIDE DEF n
  <2>3. o \in Int /\ n \in Int
    BY <2>1, <2>2, <1>0, Sizes
  <2> QED
    BY <2>1, <2>2, <2>3, Sizes
<1>2. CASE ~m[n].used /\ n # Size
  <2>1. /\ h.mem = Merged(m, o) /\ h.live = b \ {n}
        /\ h.lfree = IF f = n THEN o ELSE f
    BY <1>1, <1>2 DEF PlugForward, Merged
  <2>2. /\ n \in b \ {0, Size} /\ s \in b /\ n < s /\ s \in Int
        /\ \A q \in Offset : /\ h.mem[q].next = IF q = o THEN s ELSE m[q].next
                             /\ h.mem[q].used = m[q].used
    BY <2>1, <1>0, <1>2, MergeWrites
  <2>3. Linked(h.mem, h.live)
    BY <2>1, <1>0, <1>2, MergeLinked
  <2> HIDE DEF h, n, s
  <2>4. f <= o /\ f \in b /\ f # n /\ h.lfree = f
    <3>1. f \in b /\ f <= o
      BY <1>0 DEF Seen
    <3> QED
      BY <3>1, <2>1, <1>1
  <2>5. Seen(h.mem, h.live, h.lfree)
    BY <2>1, <2>2, <2>4, <1>0, <1>1 DEF Seen
  <2>6. m[s].used
    <3>1. n \in b \ {Size, o} /\ s # o
      BY <2>2, <1>1
    <3> QED
      BY <3>1, <1>0, <1>2 DEF SpacedBut, s
  <2>7. h.mem[o].next = s /\ h.mem[s].used /\ ~h.mem[o].used
    BY <2>2, <2>6, <1>0, <1>1
  <2>8. SpacedBut(h.mem, h.live, o)
    <3> SUFFICES ASSUME NEW q \in h.live \ {Size, o}, ~h.mem[q].used, h.mem[q].next # o
                 PROVE  h.mem[h.mem[q].next].used
      BY DEF SpacedBut
    <3>1. q \in b \ {Size, o} /\ q \in Offset
      BY <2>1, <1>1
    <3>2. h.mem[q].next = m[q].next /\ ~m[q].used
      BY <3>1, <2>2
    <3>3. m[m[q].next].used /\ m[q].next \in Offset
      BY <3>1, <3>2, <1>0, <1>1 DEF SpacedBut
    <3> QED
      BY <3>2, <3>3, <2>2
  <2>9. UsedKept(m, b, h.mem, h.live)
    BY <2>1, <2>2, <1>0, <1>1, <1>2 DEF UsedKept
  <2> QED
    BY <2>1, <2>2, <2>3, <2>5, <2>7, <2>8, <2>9, <1>0, <1>1 DEF Freed, h
<1>3. CASE ~(~m[n].used /\ n # Size)
  <2>1. h.mem = m /\ h.lfree = f /\ h.live = b
    BY <1>3 DEF PlugForward
  <2>2. m[n].used
    <3>1. EndHdr.used
      BY DEF EndHdr, Hdr
    <3> QED
      BY <3>1, <1>1, <1>3
  <2> HIDE DEF h
  <2> QED
    BY <2>1, <2>2 DEF UsedKept, h
<1> QED
  BY <1>2, <1>3

\* The second half: no two blocks in a row are unused.
LEMMA PlugBackwardKeeps ==
    ASSUME NEW m, NEW b, NEW f, NEW o, Freed(m, f, b, o), m[m[o].next].used
    PROVE  LET h == PlugBackward(m, f, b, o)
           IN  /\ Linked(h.mem, h.live) /\ Seen(h.mem, h.live, h.lfree)
               /\ Spaced(h.mem, h.live) /\ UsedKept(m, b, h.mem, h.live)
<1> DEFINE h == PlugBackward(m, f, b, o)
           p == m[o].prev
           n == m[o].next
<1>0. /\ Linked(m, b) /\ Seen(m, b, f) /\ SpacedBut(m, b, o)
      /\ o \in b \ {Size} /\ ~m[o].used
  BY DEF Freed
<1>1. /\ m \in [Offset -> Headers] /\ b \subseteq Offset /\ Offset \subseteq Int
      /\ m[0].prev = 0
      /\ \A q \in b \ {Size} : /\ m[q].next \in b /\ m[q].next >= q + Header + MinSize
                               /\ m[q].next # Size => m[m[q].next].prev = q
      /\ \A q \in b \ {0, Size} : m[q].prev \in b \ {Size} /\ m[m[q].prev].next = q
  BY <1>0, Sizes DEF Linked
<1>2. ASSUME NEW q \in b \ {Size} PROVE q < m[q].next
  <2>1. q \in Int /\ m[q].next \in Int /\ m[q].next >= q + Header + MinSize
    BY <1>1
  <2> QED
    BY <2>1, Sizes
<1>3. \A q \in b \ {Size} : m[q].next = o => q = p
  BY <1>0, <1>1
<1>4. CASE p # o /\ ~m[p].used
  <2>1. p \in b \ {Size} /\ m[p].next = o /\ o # Size
    BY <1>0, <1>1, <1>4
  <2>2. /\ h.mem = Merged(m, p) /\ h.live = b \ {o}
        /\ h.lfree = IF f = o THEN p ELSE f
    BY <2>1, <1>4 DEF PlugBackward, Merged
  <2>3. \A q \in Offset : /\ h.mem[q].next = IF q = p THEN n ELSE m[q].next
                          /\ h.mem[q].used = m[q].used
    BY <2>1, <2>2, <1>0, MergeWrites
  <2>4. Linked(h.mem, h.live)
    BY <2>1, <2>2, <1>0, MergeLinked
  <2> HIDE DEF h, p, n
  <2>5. p < o /\ p \in Int /\ o \in Int
    BY <2>1, <1>0, <1>1, <1>2
  <2>6. f \in b /\ f <= p /\ f # o /\ h.lfree = f
    <3>1. f \in b /\ f <= p
      BY <2>1, <1>0, <1>4 DEF Seen
    <3> QED
      BY <3>1, <2>2, <2>5, <1>1
  <2>7. Seen(h.mem, h.live, h.lfree)
    BY <2>2, <2>3, <2>6, <1>0, <1>1 DEF Seen
  <2>8. Spaced(h.mem, h.live)
    <3> SUFFICES ASSUME NEW q \in h.live \ {Size}, ~h.mem[q].used
                 PROVE  h.mem[h.mem[q].next].used
      BY DEF Spaced
    <3>1. q \in b \ {Size, o} /\ q \in Offset /\ ~m[q].used
      BY <2>2, <2>3, <1>1
    <3>2. CASE q = p
      <4>1. n \in Offset /\ m[n].used
        BY <1>0, <1>1 DEF n
      <4> QED
        BY <3>1, <3>2, <4>1, <2>3
    <3>3. CASE q # p
      <4>1. h.mem[q].next = m[q].next /\ m[q].next \in Offset
        BY <3>1, <3>3, <2>3, <1>1
      <4>2. m[m[q].next].used
        BY <3>1, <3>3, <1>0, <1>3 DEF SpacedBut
      <4> QED
        BY <4>1, <4>2, <2>3
    <3> QED
      BY <3>2, <3>3
  <2>9. UsedKept(m, b, h.mem, h.live)
    BY <2>2, <2>3, <1>0, <1>1, <1>4 DEF UsedKept
  <2> QED
    BY <2>4, <2>7, <2>8, <2>9 DEF h
<1>5. CASE ~(p # o /\ ~m[p].used)
  <2>1. h.mem = m /\ h.lfree = f /\ h.live = b
    BY <1>5 DEF PlugBackward
  <2>2. Spaced(m, b)
    <3> SUFFICES ASSUME NEW q \in b \ {Size}, ~m[q].used PROVE m[m[q].next].used
      BY DEF Spaced
    <3>1. CASE q = o
      BY <3>1
    <3>2. CASE q # o
      <4>1. m[q].next # o
        BY <3>2, <1>3, <1>5
      <4> QED
        BY <3>2, <4>1, <1>0 DEF SpacedBut
    <3> QED
      BY <3>1, <3>2
  <2> HIDE DEF h
  <2> QED
    BY <2>1, <2>2, <1>0 DEF UsedKept, h
<1> QED
  BY <1>4, <1>5

\* da16x_dpm_rtm_mem_free keeps the list, and every used block but the freed one.
LEMMA FreeHeap ==
    ASSUME HInv, NEW o \in live \ {Size}, mem[o].used
    PROVE  LET h == PlugHoles([mem EXCEPT ![o].used = FALSE], LowestFree(o), live, o)
           IN  /\ Linked(h.mem, h.live) /\ Spaced(h.mem, h.live)
               /\ Seen(h.mem, h.live, h.lfree)
               /\ \A q \in live \ {o} :
                     mem[q].used =>
                        q \in h.live /\ h.mem[q].used /\ h.mem[q].next = mem[q].next
               /\ \A q \in h.live : h.mem[q].used => q \in live \ {o} /\ mem[q].used
<1> DEFINE m == Unuse(mem, o)
           f == LowestFree(o)
           g == PlugForward(m, f, live, o)
           h == PlugBackward(g.mem, g.lfree, g.live, o)
<1>0. Linked(mem, live) /\ Spaced(mem, live) /\ Seen(mem, live, lfree)
  BY DEF HInv
<1>1. /\ Linked(m, live) /\ ~m[o].used
      /\ \A q \in Offset : m[q].next = mem[q].next /\ (q # o => m[q] = mem[q])
  BY <1>0, MarkedUnused
<1>2. PlugHoles([mem EXCEPT ![o].used = FALSE], LowestFree(o), live, o) = h
  BY DEF PlugHoles, Unuse
<1> HIDE DEF m
<1>3. live \subseteq Offset /\ \A q \in live \ {Size} : mem[q].next \in live
  BY Blocks
<1>4. Seen(m, live, f)
  <2>1. lfree \in live /\ o \in Int /\ lfree \in Int
    BY Blocks
  <2>2. f \in live /\ f \in Int /\ f <= o /\ f <= lfree
    BY <2>1 DEF LowestFree
  <2>3. ASSUME NEW q \in live, ~m[q].used PROVE f <= q
    <3>1. CASE q = o
      BY <3>1, <2>2
    <3>2. CASE q # o
      <4>1. lfree <= q /\ q \in Int
        BY <3>2, <2>3, <1>0, <1>1, <1>3, Blocks DEF Seen
      <4> QED
        BY <4>1, <2>1, <2>2
    <3> QED
      BY <3>1, <3>2
  <2> QED
    BY <2>2, <2>3 DEF Seen
<1>5. SpacedBut(m, live, o)
  <2> SUFFICES ASSUME NEW q \in live \ {Size, o}, ~m[q].used, m[q].next # o
               PROVE  m[m[q].next].used
    BY DEF SpacedBut
  <2>1. m[q].next = mem[q].next /\ ~mem[q].used /\ mem[q].next \in Offset
    BY <1>1, <1>3
  <2>2. mem[mem[q].next].used
    BY <2>1, <1>0 DEF Spaced
  <2> QED
    BY <2>1, <2>2, <1>1
<1>6. Freed(m, f, live, o)
  BY <1>1, <1>4, <1>5 DEF Freed
<1>7. /\ Freed(g.mem, g.lfree, g.live, o) /\ g.mem[g.mem[o].next].used
      /\ UsedKept(m, live, g.mem, g.live)
  BY <1>6, PlugForwardKeeps
<1> HIDE DEF g
<1>8. /\ Linked(h.mem, h.live) /\ Seen(h.mem, h.live, h.lfree)
      /\ Spaced(h.mem, h.live) /\ UsedKept(g.mem, g.live, h.mem, h.live)
  BY <1>7, PlugBackwardKeeps
<1> HIDE DEF h
<1>9. ASSUME NEW q \in live \ {o}, mem[q].used
      PROVE  q \in h.live /\ h.mem[q].used /\ h.mem[q].next = mem[q].next
  <2>1. m[q].used /\ m[q].next = mem[q].next
    BY <1>1, <1>3, <1>9
  <2>2. q \in g.live /\ g.mem[q].used /\ g.mem[q].next = mem[q].next
    BY <2>1, <1>7 DEF UsedKept
  <2> QED
    BY <2>2, <1>8 DEF UsedKept
<1>10. ASSUME NEW q \in h.live, h.mem[q].used
       PROVE  q \in live \ {o} /\ mem[q].used
  <2>1. q \in live /\ m[q].used
    BY <1>7, <1>8, <1>10 DEF UsedKept
  <2> QED
    BY <2>1, <1>1, <1>3
<1> QED
  BY <1>2, <1>8, <1>9, <1>10

LEMMA FreeKeeps ==
    ASSUME HInv, NEW t \in Task, NEW o \in live \ {Size}, HandedOut(o),
           da16x_dpm_rtm_mem_free(t, o)
    PROVE  HInv'
<1>1. hpc[t] = "out" /\ lock = NoTask
      /\ lock' = lock /\ hpc' = hpc /\ ptr' = ptr /\ want' = want /\ blk' = blk
  BY DEF da16x_dpm_rtm_mem_free
<1>t. TaskTyped
  BY DEF HInv
<1>2. TaskTyped'
  BY <1>1, <1>t DEF TaskTyped
<1>3. CASE Legal(o)
  <2> DEFINE h == PlugHoles([mem EXCEPT ![o].used = FALSE], LowestFree(o), live, o)
  <2>1. mem' = h.mem /\ lfree' = h.lfree /\ live' = h.live
    BY <1>3 DEF da16x_dpm_rtm_mem_free
  <2>2. /\ Linked(h.mem, h.live) /\ Spaced(h.mem, h.live)
        /\ Seen(h.mem, h.live, h.lfree)
        /\ \A q \in live \ {o} :
              mem[q].used =>
                 q \in h.live /\ h.mem[q].used /\ h.mem[q].next = mem[q].next
    BY <1>3, FreeHeap DEF Legal
  <2> HIDE DEF h
  <2>3. /\ Linked(mem', live') /\ Spaced(mem', live') /\ Seen(mem', live', lfree')
        /\ \A q \in live \ {o} :
              mem[q].used => q \in live' /\ mem'[q].used /\ mem'[q].next = mem[q].next
    BY <2>1, <2>2
  <2>4. ASSUME NEW u \in Task PROVE Owns(u)'
    <3>1. CASE u = t
      BY <3>1, <1>1 DEF Owns, Holds, Asked, Passed, Has
    <3>2. CASE u # t
      <4>1. blk[u] # o
        BY DEF HandedOut
      <4>2. \A q \in live \ {Size} :
               mem[q].used /\ hpc[u] = "zero" /\ q = blk[u] =>
                  q \in live' /\ mem'[q].used /\ mem'[q].next = mem[q].next
        BY <4>1, <2>3
      <4> QED
        BY <3>2, <4>2, <1>1, OthersKept
    <3> QED
      BY <3>1, <3>2
  <2> QED
    BY <2>3, <2>4, <1>2 DEF HInv
<1>4. CASE ~Legal(o)
  <2>1. UNCHANGED heap
    BY <1>4 DEF da16x_dpm_rtm_mem_free
  <2>2. \A u \in Task : Owns(u)'
    BY <2>1, <1>1, SameBlocks DEF heap
  <2> QED
    BY <2>1, <2>2, <1>2, HeapLeft
<1> QED
  BY <1>3, <1>4

\* HInv is inductive.
LEMMA HeapNextKeeps ==
    HInv /\ [HeapNext]_heapVars => HInv'
<1> SUFFICES ASSUME HInv, [HeapNext]_heapVars PROVE HInv'
  OBVIOUS
<1>1. ASSUME NEW t \in Task, NEW n \in Request, MallocRefused(t, n) \/ MallocBegin(t, n)
      PROVE  HInv'
  <2>1. CASE UNCHANGED heapVars
    BY <2>1, HeapUnchanged
  <2>2. CASE MallocBegin(t, n)
    BY <2>2, MallocBeginKeeps, HeapSizes
  <2> QED
    BY <1>1, <2>1, <2>2 DEF MallocRefused
<1>2. ASSUME NEW t \in Task, HeapStep(t) \/ CallocReturn(t)
      PROVE  HInv'
  BY <1>2, ScanOnKeeps, ScanFailedKeeps, ScanTakeKeeps, AdjustOnKeeps, AdjustEndKeeps,
     ZeroKeeps, CallocReturnKeeps DEF HeapStep
<1>3. ASSUME NEW t \in Task, NEW o \in live \ {Size},
             HandedOut(o) /\ da16x_dpm_rtm_mem_free(t, o)
      PROVE  HInv'
  BY <1>3, FreeKeeps
<1>4. CASE da16x_dpm_rtm_mem_recovery(lfree)
  BY <1>4, RecoveryKeeps
<1>5. CASE UNCHANGED heapVars
  BY <1>5, HeapUnchanged
<1> QED
  BY <1>1, <1>2, <1>3, <1>4, <1>5 DEF HeapNext

LEMMA HeapInvariant == HeapSpec => []HInv
  BY HeapStarts, HeapNextKeeps, PTL DEF HeapSpec

\* The asserts of da16x_dpm_rtm_mem_sanity hold after every step of any number
\* of tasks that allocate and free: the list of blocks fills the pool, both
\* links agree, every block is wide enough, and no two blocks in a row are
\* unused.
THEOREM HeapStaysSane == HeapSpec => []ListSane
<1>1. HInv => ListSane
  BY DEF HInv, Linked, Spaced, ListSane
<1> QED
  BY <1>1, HeapInvariant, PTL

\* malloc's search from lfree misses no unused block, whoever moved lfree.
THEOREM SearchStaysComplete == HeapSpec => []SearchComplete
<1>1. HInv => SearchComplete
  BY DEF HInv, Seen, SearchComplete
<1> QED
  BY <1>1, HeapInvariant, PTL
=============================================================================
