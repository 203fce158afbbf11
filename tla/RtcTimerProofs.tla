--------------------------- MODULE RtcTimerProofs ---------------------------
(***************************************************************************)
(* Proofs about RtcTimer, for any finite set of timers, any times and any  *)
(* clock.                                                                  *)
(*                                                                         *)
(* The list is described by its sequence of timers, s[0] to s[n - 1], and  *)
(* the pointers, which the code follows, by that sequence.  What a         *)
(* recursive function computes along the list is proved by the least       *)
(* position at which it would compute something else.  The last section    *)
(* shows that the list implements the alarms of RtcAlarms.                 *)
(***************************************************************************)
EXTENDS RtcTimer, FiniteSetTheorems, WellFoundedInduction, TLAPS

\* A set of natural numbers that is not empty has a least element.
LEMMA Least ==
    ASSUME NEW S \in SUBSET Nat, S # {}
    PROVE  \E x \in S : \A y \in S : x <= y
<1>1. PICK x \in S : \A y \in S : ~(<<y, x>> \in OpToRel(<, Nat))
  BY NatLessThanWellFounded, WFMin, Zenon
<1>2. ASSUME NEW y \in S PROVE x <= y
  <2>1. ~(y < x)
    BY <1>1 DEF OpToRel
  <2> QED
    BY <2>1
<1> QED
  BY <1>2

\* Induction up to N, over a set.
LEMMA UpTo ==
    ASSUME NEW N \in Nat, NEW S, 0 \in S,
           \A k \in 0 .. N - 1 : k \in S => k + 1 \in S
    PROVE  \A k \in 0 .. N : k \in S
<1> DEFINE T == {k \in 0 .. N : k \notin S}
<1>1. SUFFICES ASSUME T # {} PROVE FALSE
  OBVIOUS
<1>2. PICK x \in T : \A y \in T : x <= y
  <2>1. T \in SUBSET Nat
    OBVIOUS
  <2> HIDE DEF T
  <2> QED
    BY <1>1, <2>1, Least
<1>3. x # 0 /\ x - 1 \in 0 .. N - 1 /\ x - 1 \notin T
  BY <1>2
<1> QED
  BY <1>2, <1>3

\* Two functions that obey the same recursive equation agree.
LEMMA SameValues ==
    ASSUME NEW N \in Nat, NEW f, NEW g, f[0] = g[0],
           \A k \in 0 .. N - 1 : f[k] = g[k] => f[k + 1] = g[k + 1]
    PROVE  \A k \in 0 .. N : f[k] = g[k]
<1> DEFINE S == {k \in 0 .. N : f[k] = g[k]}
<1>1. 0 \in S /\ \A k \in 0 .. N - 1 : k \in S => k + 1 \in S
  OBVIOUS
<1>2. \A k \in 0 .. N : k \in S
  <2> HIDE DEF S
  <2> QED
    BY <1>1, UpTo
<1> QED
  BY <1>2

\* Every sequence of numbers has its partial sums.
LEMMA PartialSums ==
    ASSUME NEW N \in Nat, NEW a \in Int, NEW v \in [0 .. N -> Int]
    PROVE  \E e \in [0 .. N -> Int] :
              e[0] = a /\ \A k \in 0 .. N - 1 : e[k + 1] = e[k] + v[k + 1]
<1> DEFINE P(m, e) == e[0] = a /\ \A k \in 0 .. m - 1 : e[k + 1] = e[k] + v[k + 1]
           S == {m \in 0 .. N : \E e \in [0 .. N -> Int] : P(m, e)}
<1>1. 0 \in S
  <2> DEFINE h == [k \in 0 .. N |-> a]
  <2>1. h \in [0 .. N -> Int] /\ P(0, h)
    OBVIOUS
  <2> HIDE DEF h, P
  <2> QED
    BY <2>1
<1>2. ASSUME NEW m \in 0 .. N - 1, m \in S PROVE m + 1 \in S
  <2>1. PICK e \in [0 .. N -> Int] : P(m, e)
    BY <1>2
  <2> DEFINE h == [e EXCEPT ![m + 1] = e[m] + v[m + 1]]
  <2>2. h \in [0 .. N -> Int] /\ h[0] = a
    BY <2>1
  <2>3. ASSUME NEW k \in 0 .. m PROVE h[k + 1] = h[k] + v[k + 1]
    <3>1. CASE k = m
      BY <3>1
    <3>2. CASE k < m
      BY <2>1, <3>2
    <3> QED
      BY <3>1, <3>2
  <2>4. P(m + 1, h)
    <3> HIDE DEF h
    <3> QED
      BY <2>2, <2>3
  <2> HIDE DEF h, P
  <2> QED
    BY <2>2, <2>4
<1>3. \A k \in 0 .. N : k \in S
  <2> HIDE DEF S
  <2> QED
    BY <1>1, <1>2, UpTo
<1>4. PICK e \in [0 .. N -> Int] : P(N, e)
  <2> HIDE DEF P
  <2> QED
    BY <1>3
<1> QED
  BY <1>4

-----------------------------------------------------------------------------
(* The list as a sequence.                                                 *)

\* The timers of U are the n timers of s, in the pointers nx from c on.
IsList(s, n, U, nx, c) ==
    /\ n \in Nat /\ s \in [0 .. n - 1 -> Id]
    /\ nx \in [Id -> Id \cup {NoId}]
    /\ \A j, k \in 0 .. n - 1 : s[j] = s[k] => j = k
    /\ U = {s[k] : k \in 0 .. n - 1}
    /\ c = IF n = 0 THEN NoId ELSE s[0]
    /\ \A k \in 0 .. n - 1 : nx[s[k]] = IF k = n - 1 THEN NoId ELSE s[k + 1]

\* The list is not longer than the timers are many.
LEMMA ListLength ==
    ASSUME NEW s, NEW n, NEW U, NEW nx, NEW c, IsList(s, n, U, nx, c)
    PROVE  n <= Cardinality(Id) /\ Cardinality(Id) \in Nat
<1>1. IsFiniteSet(Id) /\ Cardinality(Id) \in Nat
  BY RtcLimits, FS_CardinalityType
<1>2. n \in Nat /\ s \in Injection(0 .. n - 1, Id)
  BY DEF IsList, Injection, IsInjective
<1>3. Cardinality(0 .. n - 1) <= Cardinality(Id)
  BY <1>1, <1>2, FS_Injection
<1> QED
  BY <1>1, <1>2, <1>3, FS_Interval

\* What Chain computes: the list, and NoId behind its end.
LEMMA ChainIs ==
    ASSUME NEW s, NEW n, NEW U, NEW nx, NEW c, IsList(s, n, U, nx, c)
    PROVE  Chain(nx, c) =
             [k \in 0 .. Cardinality(Id) |-> IF k < n THEN s[k] ELSE NoId]
<1> DEFINE N == Cardinality(Id)
           f == Chain(nx, c)
           g == [k \in 0 .. N |-> IF k < n THEN s[k] ELSE NoId]
           C(h) == h = [k \in 0 .. N |-> IF k = 0 THEN c ELSE After(nx, h[k - 1])]
<1>1. N \in Nat /\ n \in Nat /\ n <= N
  BY ListLength DEF IsList
<1>2. ASSUME NEW k \in 0 .. N
      PROVE  g[k] = IF k = 0 THEN c ELSE After(nx, g[k - 1])
  <2>1. CASE k = 0
    BY <1>1, <2>1 DEF IsList
  <2>2. CASE k # 0
    <3>1. g[k - 1] = IF k - 1 < n THEN s[k - 1] ELSE NoId
      BY <1>1, <2>2
    <3> HIDE DEF N
    <3> QED
      BY <1>1, <2>2, <3>1, RtcLimits DEF IsList, After
  <2> QED
    BY <2>1, <2>2
<1>3. C(g)
  BY <1>2
<1>4. f = CHOOSE h : C(h)
  BY DEF Chain
<1>5. C(f)
  <2> HIDE DEF C, f, g
  <2> QED
    BY <1>3, <1>4
<1>6. \A k \in 0 .. N : f[k] = g[k]
  <2> HIDE DEF f
  <2>1. f[0] = c /\ g[0] = c
    <3>1. 0 \in 0 .. N
      BY <1>1
    <3>2. f[0] = c
      BY <1>5, <3>1
    <3>3. g[0] = c
      <4> HIDE DEF g
      <4> QED
        BY <1>2, <3>1
    <3> QED
      BY <3>2, <3>3
  <2>2. ASSUME NEW k \in 0 .. N - 1, f[k] = g[k] PROVE f[k + 1] = g[k + 1]
    <3>1. k + 1 \in 0 .. N /\ k + 1 # 0 /\ (k + 1) - 1 = k
      BY <1>1
    <3>2. f[k + 1] = After(nx, f[k])
      BY <1>5, <3>1
    <3>3. g[k + 1] = After(nx, g[k])
      <4> HIDE DEF g
      <4> QED
        BY <1>2, <3>1
    <3> QED
      BY <2>2, <3>2, <3>3
  <2> HIDE DEF g, N
  <2> QED
    BY <1>1, <2>1, <2>2, SameValues
<1>7. f = [k \in 0 .. N |-> f[k]]
  <2> HIDE DEF f
  <2> QED
    BY <1>5
<1>8. f = [k \in 0 .. N |-> g[k]]
  <2> HIDE DEF f, g
  <2> QED
    BY <1>6, <1>7
<1> QED
  BY <1>8

\* The list depends on the pointers of its own timers only.
LEMMA ListFrame ==
    ASSUME NEW s, NEW n, NEW U, NEW nx, NEW c, IsList(s, n, U, nx, c),
           NEW nx2 \in [Id -> Id \cup {NoId}], \A j \in U : nx2[j] = nx[j]
    PROVE  IsList(s, n, U, nx2, c)
<1>1. \A k \in 0 .. n - 1 : nx2[s[k]] = nx[s[k]]
  BY DEF IsList
<1> QED
  BY <1>1 DEF IsList

\* The timers are its own, its first one is one of them, and each has its
\* place.
LEMMA ListMembers ==
    ASSUME NEW s, NEW n, NEW U, NEW nx, NEW c, IsList(s, n, U, nx, c)
    PROVE  /\ U \subseteq Id /\ n \in Nat
           /\ c = NoId <=> n = 0
           /\ c = NoId <=> U = {}
           /\ c # NoId <=> c \in U
           /\ \A j \in U : \E k \in 0 .. n - 1 : j = s[k]
           /\ \A j \in U : nx[j] \in U \cup {NoId} /\ nx[j] # c
           /\ NoId \notin U
<1>1. n \in Nat /\ s \in [0 .. n - 1 -> Id] /\ U = {s[k] : k \in 0 .. n - 1}
  BY DEF IsList
<1>2. c = NoId <=> n = 0
  BY <1>1, RtcLimits DEF IsList
<1>3. c # NoId <=> c \in U
  BY <1>1, <1>2, RtcLimits DEF IsList
<1>5. n = 0 <=> U = {}
  <2>1. n # 0 => s[0] \in U
    BY <1>1
  <2>2. n = 0 => 0 .. n - 1 = {}
    OBVIOUS
  <2> QED
    BY <1>1, <2>1, <2>2
<1>4. ASSUME NEW k \in 0 .. n - 1 PROVE nx[s[k]] \in U \cup {NoId} /\ nx[s[k]] # c
  <2>1. nx[s[k]] = IF k = n - 1 THEN NoId ELSE s[k + 1]
    BY DEF IsList
  <2>2. CASE k = n - 1
    BY <1>2, <2>1, <2>2
  <2>3. CASE k # n - 1
    <3>1. k + 1 \in 0 .. n - 1 /\ k + 1 # 0 /\ 0 \in 0 .. n - 1
      BY <1>1, <2>3
    <3>2. s[k + 1] # s[0]
      BY <3>1 DEF IsList
    <3>3. c = s[0]
      BY <1>1 DEF IsList
    <3> QED
      BY <1>1, <2>1, <2>3, <3>1, <3>2, <3>3
  <2> QED
    BY <2>2, <2>3
<1> QED
  BY <1>1, <1>2, <1>3, <1>4, <1>5, RtcLimits

\* A list without its first p timers, with i at place p, and without place p.
Dropped(s, n, p) == [k \in 0 .. n - p - 1 |-> s[k + p]]
Inserted(s, n, p, i) ==
    [k \in 0 .. n |-> IF k < p THEN s[k] ELSE IF k = p THEN i ELSE s[k - 1]]
Removed(s, n, p) == [k \in 0 .. n - 2 |-> IF k < p THEN s[k] ELSE s[k + 1]]

\* Without its first p timers it is a list.
LEMMA ListDrop ==
    ASSUME NEW s, NEW n, NEW U, NEW nx, NEW c, IsList(s, n, U, nx, c),
           NEW p \in 0 .. n
    PROVE  IsList(Dropped(s, n, p), n - p, U \ {s[k] : k \in 0 .. p - 1}, nx,
                  IF p = n THEN NoId ELSE s[p])
<1> USE DEF Dropped
<1> DEFINE z == Dropped(s, n, p)
<1>0. n \in Nat /\ s \in [0 .. n - 1 -> Id] /\ U = {s[k] : k \in 0 .. n - 1}
  BY DEF IsList
<1>1. n - p \in Nat /\ z \in [0 .. (n - p) - 1 -> Id]
  BY <1>0
<1>2. \A j, k \in 0 .. (n - p) - 1 : z[j] = z[k] => j = k
  BY <1>0 DEF IsList
<1>3. U \ {s[k] : k \in 0 .. p - 1} = {z[k] : k \in 0 .. (n - p) - 1}
  <2>1. ASSUME NEW k \in 0 .. n - 1, s[k] \notin {s[m] : m \in 0 .. p - 1}
        PROVE  s[k] \in {z[m] : m \in 0 .. (n - p) - 1}
    <3>1. ~(k < p)
      BY <1>0, <2>1
    <3>2. k - p \in 0 .. (n - p) - 1 /\ z[k - p] = s[k]
      BY <1>0, <3>1
    <3> QED
      BY <3>2
  <2>2. ASSUME NEW k \in 0 .. (n - p) - 1
        PROVE  z[k] \in U /\ z[k] \notin {s[m] : m \in 0 .. p - 1}
    <3>1. k + p \in 0 .. n - 1 /\ z[k] = s[k + p]
      BY <1>0
    <3>2. ASSUME NEW m \in 0 .. p - 1 PROVE s[m] # s[k + p]
      BY <1>0, <3>1 DEF IsList
    <3> QED
      BY <1>0, <3>1, <3>2
  <2> QED
    BY <1>0, <2>1, <2>2
<1>4. (IF p = n THEN NoId ELSE s[p]) = IF n - p = 0 THEN NoId ELSE z[0]
  BY <1>0
<1>5. ASSUME NEW k \in 0 .. (n - p) - 1
      PROVE  nx[z[k]] = IF k = (n - p) - 1 THEN NoId ELSE z[k + 1]
  <2>1. k + p \in 0 .. n - 1 /\ z[k] = s[k + p]
    BY <1>0
  <2>2. k # (n - p) - 1 => z[k + 1] = s[(k + p) + 1]
    BY <1>0
  <2>3. nx[s[k + p]] = IF k + p = n - 1 THEN NoId ELSE s[(k + p) + 1]
    BY <2>1 DEF IsList
  <2> QED
    BY <1>0, <2>1, <2>2, <2>3
<1>6. nx \in [Id -> Id \cup {NoId}]
  BY DEF IsList
<1> HIDE DEF z
<1>7. IsList(z, n - p, U \ {s[k] : k \in 0 .. p - 1}, nx,
             IF p = n THEN NoId ELSE s[p])
  BY <1>1, <1>2, <1>3, <1>4, <1>5, <1>6 DEF IsList
<1> QED
  BY <1>7 DEF z

\* The pointers nx2 are nx with i before the p-th timer.
Links(s, n, nx, p, i, nx2) ==
    /\ nx2 \in [Id -> Id \cup {NoId}]
    /\ nx2[i] = IF p = n THEN NoId ELSE s[p]
    /\ p > 0 => nx2[s[p - 1]] = i
    /\ \A k \in 0 .. n - 1 : k # p - 1 => nx2[s[k]] = nx[s[k]]

\* A timer that comes before the p-th one makes a list.
LEMMA ListInsert ==
    ASSUME NEW s, NEW n, NEW U, NEW nx, NEW c, IsList(s, n, U, nx, c),
           NEW p \in 0 .. n, NEW i \in Id, i \notin U,
           NEW nx2, Links(s, n, nx, p, i, nx2)
    PROVE  IsList(Inserted(s, n, p, i), n + 1, U \cup {i}, nx2,
                  IF p = 0 THEN i ELSE c)
<1> USE DEF Inserted, Links
<1> DEFINE z == Inserted(s, n, p, i)
<1>0. n \in Nat /\ s \in [0 .. n - 1 -> Id] /\ U = {s[k] : k \in 0 .. n - 1}
  BY DEF IsList
<1>i. \A k \in 0 .. n - 1 : s[k] # i
  BY <1>0
<1>1. n + 1 \in Nat /\ z \in [0 .. (n + 1) - 1 -> Id]
  BY <1>0
<1>2. \A j, k \in 0 .. n : z[j] = z[k] => j = k
  <2> SUFFICES ASSUME NEW j \in 0 .. n, NEW k \in 0 .. n, z[j] = z[k] PROVE j = k
    OBVIOUS
  <2>1. \A a, b \in 0 .. n - 1 : s[a] = s[b] => a = b
    BY DEF IsList
  <2> QED
    BY <1>0, <1>i, <2>1
<1>3. U \cup {i} = {z[k] : k \in 0 .. n}
  <2>1. ASSUME NEW k \in 0 .. n - 1 PROVE s[k] \in {z[m] : m \in 0 .. n}
    <3>1. CASE k < p
      <4>1. k \in 0 .. n /\ z[k] = s[k]
        BY <1>0, <3>1
      <4> QED
        BY <4>1
    <3>2. CASE k >= p
      <4>1. k + 1 \in 0 .. n /\ z[k + 1] = s[k]
        BY <1>0, <3>2
      <4> QED
        BY <4>1
    <3> QED
      BY <1>0, <3>1, <3>2
  <2>2. i \in {z[m] : m \in 0 .. n}
    <3>1. p \in 0 .. n /\ z[p] = i
      BY <1>0
    <3> QED
      BY <3>1
  <2>3. ASSUME NEW k \in 0 .. n PROVE z[k] \in U \cup {i}
    BY <1>0
  <2>4. U \cup {i} \subseteq {z[k] : k \in 0 .. n}
    BY <1>0, <2>1, <2>2
  <2>5. {z[k] : k \in 0 .. n} \subseteq U \cup {i}
    BY <2>3
  <2> QED
    BY <2>4, <2>5
<1>4. (IF p = 0 THEN i ELSE c) = z[0] /\ n + 1 # 0
  BY <1>0 DEF IsList
<1>5. ASSUME NEW k \in 0 .. n
      PROVE  nx2[z[k]] = IF k = n THEN NoId ELSE z[k + 1]
  <2>n. \A m \in 0 .. n - 1 : nx[s[m]] = IF m = n - 1 THEN NoId ELSE s[m + 1]
    BY DEF IsList
  <2>1. CASE k < p - 1
    <3>1. z[k] = s[k] /\ z[k + 1] = s[k + 1] /\ k \in 0 .. n - 1 /\ k # n - 1
      BY <1>0, <2>1
    <3>2. nx2[s[k]] = nx[s[k]]
      BY <1>0, <2>1, <3>1
    <3> QED
      BY <1>0, <2>1, <2>n, <3>1, <3>2
  <2>2. CASE k = p - 1
    <3>1. z[k] = s[p - 1] /\ z[k + 1] = i /\ k # n
      BY <1>0, <2>2
    <3>2. nx2[s[p - 1]] = i
      BY <1>0, <2>2
    <3> HIDE DEF z
    <3> QED
      BY <3>1, <3>2
  <2>3. CASE k = p
    <3>1. z[k] = i /\ (k # n => z[k + 1] = s[p])
      BY <1>0, <2>3
    <3> QED
      BY <1>0, <2>3, <3>1
  <2>4. CASE k > p
    <3>1. z[k] = s[k - 1] /\ k - 1 \in 0 .. n - 1 /\ k - 1 # p - 1
          /\ (k # n => z[k + 1] = s[k])
      BY <1>0, <2>4
    <3>2. nx2[s[k - 1]] = nx[s[k - 1]]
      BY <1>0, <3>1
    <3>3. nx[s[k - 1]] = IF k - 1 = n - 1 THEN NoId ELSE s[(k - 1) + 1]
      BY <2>n, <3>1
    <3> QED
      BY <1>0, <2>4, <3>1, <3>2, <3>3
  <2> QED
    BY <1>0, <2>1, <2>2, <2>3, <2>4
<1> HIDE DEF z
<1>6. (n + 1) - 1 = n
  BY <1>0
<1>7. IsList(z, n + 1, U \cup {i}, nx2, IF p = 0 THEN i ELSE c)
  BY <1>1, <1>2, <1>3, <1>4, <1>5, <1>6 DEF IsList
<1> QED
  BY <1>7 DEF z

\* Without a timer that is not the first it is a list, if the one before it
\* points behind it.
LEMMA ListRemove ==
    ASSUME NEW s, NEW n, NEW U, NEW nx, NEW c, IsList(s, n, U, nx, c),
           NEW p \in 1 .. n - 1,
           NEW nx2, nx2 = [nx EXCEPT ![s[p - 1]] = nx[s[p]]]
    PROVE  IsList(Removed(s, n, p), n - 1, U \ {s[p]}, nx2, c)
<1> USE DEF Removed
<1> DEFINE z == Removed(s, n, p)
<1>0. n \in Nat /\ s \in [0 .. n - 1 -> Id] /\ U = {s[k] : k \in 0 .. n - 1}
  BY DEF IsList
<1>d. \A a, b \in 0 .. n - 1 : s[a] = s[b] => a = b
  BY DEF IsList
<1>n. nx \in [Id -> Id \cup {NoId}]
      /\ \A m \in 0 .. n - 1 : nx[s[m]] = IF m = n - 1 THEN NoId ELSE s[m + 1]
  BY DEF IsList
<1>1. n - 1 \in Nat /\ (n - 1) - 1 = n - 2 /\ z \in [0 .. n - 2 -> Id]
  BY <1>0
<1>2. \A j, k \in 0 .. n - 2 : z[j] = z[k] => j = k
  <2> SUFFICES ASSUME NEW j \in 0 .. n - 2, NEW k \in 0 .. n - 2, z[j] = z[k] PROVE j = k
    OBVIOUS
  <2> DEFINE at(m) == IF m < p THEN m ELSE m + 1
  <2>1. \A m \in 0 .. n - 2 : at(m) \in 0 .. n - 1 /\ z[m] = s[at(m)]
    BY <1>0
  <2>2. s[at(j)] = s[at(k)] /\ at(j) \in 0 .. n - 1 /\ at(k) \in 0 .. n - 1
    BY <2>1
  <2> HIDE DEF z
  <2>3. at(j) = at(k)
    <3> HIDE DEF at
    <3> QED
      BY <1>d, <2>2
  <2> QED
    BY <1>0, <2>3
<1>3. U \ {s[p]} = {z[k] : k \in 0 .. n - 2}
  <2>1. ASSUME NEW k \in 0 .. n - 1, k # p PROVE s[k] \in {z[m] : m \in 0 .. n - 2}
    <3>1. CASE k < p
      <4>1. k \in 0 .. n - 2 /\ z[k] = s[k]
        BY <1>0, <3>1
      <4> QED
        BY <4>1
    <3>2. CASE k > p
      <4>1. k - 1 \in 0 .. n - 2 /\ z[k - 1] = s[k]
        BY <1>0, <3>2
      <4> QED
        BY <4>1
    <3> QED
      BY <1>0, <2>1, <3>1, <3>2
  <2>2. ASSUME NEW k \in 0 .. n - 2 PROVE z[k] \in U /\ z[k] # s[p]
    BY <1>0, <1>d
  <2> QED
    BY <1>0, <2>1, <2>2
<1>4. c = z[0] /\ n - 1 # 0
  BY <1>0 DEF IsList
<1>5. ASSUME NEW k \in 0 .. n - 2
      PROVE  nx2[z[k]] = IF k = n - 2 THEN NoId ELSE z[k + 1]
  <2>1. CASE k < p - 1
    <3>1. z[k] = s[k] /\ z[k + 1] = s[k + 1] /\ k \in 0 .. n - 1 /\ k # n - 2
      BY <1>0, <2>1
    <3>2. s[k] \in Id /\ s[k] # s[p - 1]
      BY <1>0, <1>d, <2>1
    <3>3. nx2[s[k]] = nx[s[k]]
      BY <1>n, <3>2
    <3>4. nx[s[k]] = s[k + 1]
      BY <1>0, <1>n, <2>1
    <3> QED
      BY <3>1, <3>3, <3>4
  <2>2. CASE k = p - 1
    <3>1. z[k] = s[p - 1] /\ (k # n - 2 => z[k + 1] = s[p + 1])
      BY <1>0, <2>2
    <3>2. nx2[s[p - 1]] = nx[s[p]]
      BY <1>0, <1>n
    <3>3. nx[s[p]] = IF p = n - 1 THEN NoId ELSE s[p + 1]
      BY <1>0, <1>n
    <3> QED
      BY <1>0, <2>2, <3>1, <3>2, <3>3
  <2>3. CASE k >= p
    <3>1. z[k] = s[k + 1] /\ (k # n - 2 => z[k + 1] = s[(k + 1) + 1])
      BY <1>0, <2>3
    <3>2. s[k + 1] \in Id /\ s[k + 1] # s[p - 1]
      BY <1>0, <1>d, <2>3
    <3>3. nx2[s[k + 1]] = nx[s[k + 1]]
      BY <1>n, <3>2
    <3>4. nx[s[k + 1]] = IF k + 1 = n - 1 THEN NoId ELSE s[(k + 1) + 1]
      BY <1>0, <1>n
    <3> QED
      BY <1>0, <2>3, <3>1, <3>3, <3>4
  <2> QED
    BY <1>0, <2>1, <2>2, <2>3
<1>6. nx2 \in [Id -> Id \cup {NoId}]
  <2>1. s[p] \in Id
    BY <1>0
  <2> QED
    BY <1>n, <2>1
<1> HIDE DEF z
<1>7. IsList(z, n - 1, U \ {s[p]}, nx2, c)
  BY <1>1, <1>2, <1>3, <1>4, <1>5, <1>6 DEF IsList
<1> QED
  BY <1>7 DEF z

-----------------------------------------------------------------------------
(* The times.  sum[i] is the time from some moment to the timer i.         *)

\* The timers of U are as far apart as their times say.
Apart(U, nx, tm, sum) ==
    /\ sum \in [Id -> Int]
    /\ \A j \in U : nx[j] # NoId => sum[nx[j]] = sum[j] + tm[nx[j]]

\* They are at least as far apart.
AtLeastApart(U, nx, tm, sum) ==
    /\ sum \in [Id -> Int]
    /\ \A j \in U : nx[j] # NoId => sum[nx[j]] >= sum[j] + tm[nx[j]]

\* Times that are at least as far apart as a list's bound those of the list.
LEMMA SumsTighten ==
    ASSUME NEW s, NEW n, NEW U, NEW nx, NEW c, IsList(s, n, U, nx, c),
           NEW tm \in [Id -> Int], NEW up, AtLeastApart(U, nx, tm, up), c # NoId
    PROVE  \E sum : /\ Apart(U, nx, tm, sum) /\ sum[c] = tm[c]
                    /\ \A j \in U : sum[j] - sum[c] <= up[j] - up[c]
<1>0. n \in Nat \ {0} /\ s \in [0 .. n - 1 -> Id] /\ c = s[0]
      /\ U = {s[k] : k \in 0 .. n - 1}
  BY DEF IsList
<1>d. \A a, b \in 0 .. n - 1 : s[a] = s[b] => a = b
  BY DEF IsList
<1>n. \A m \in 0 .. n - 1 : nx[s[m]] = IF m = n - 1 THEN NoId ELSE s[m + 1]
  BY DEF IsList
<1> DEFINE N == n - 1
           v == [k \in 0 .. N |-> tm[s[k]]]
<1>1. N \in Nat /\ v \in [0 .. N -> Int] /\ c \in Id /\ tm[c] \in Int
  BY <1>0
<1>2. PICK e \in [0 .. N -> Int] :
         e[0] = tm[c] /\ \A k \in 0 .. N - 1 : e[k + 1] = e[k] + v[k + 1]
  <2> HIDE DEF N, v
  <2> QED
    BY <1>1, PartialSums
<1> DEFINE at(j) == CHOOSE k \in 0 .. N : s[k] = j
           sum == [j \in Id |-> IF j \in U THEN e[at(j)] ELSE 0]
<1>3. ASSUME NEW k \in 0 .. N PROVE sum[s[k]] = e[k] /\ s[k] \in U /\ s[k] \in Id
  <2>1. at(s[k]) = k
    BY <1>0, <1>d
  <2> QED
    BY <1>0, <2>1
<1>4. sum \in [Id -> Int]
  <2>1. ASSUME NEW j \in U PROVE e[at(j)] \in Int
    <3>1. at(j) \in 0 .. N
      BY <1>0
    <3> HIDE DEF at
    <3> QED
      BY <1>2, <3>1
  <2> HIDE DEF at
  <2> QED
    BY <2>1
<1>5. Apart(U, nx, tm, sum)
  <2>1. SUFFICES ASSUME NEW k \in 0 .. N, nx[s[k]] # NoId
                 PROVE  sum[nx[s[k]]] = sum[s[k]] + tm[nx[s[k]]]
    BY <1>0, <1>4 DEF Apart
  <2>2. k \in 0 .. N - 1 /\ nx[s[k]] = s[k + 1] /\ k + 1 \in 0 .. N
    BY <1>0, <1>n, <2>1
  <2>3. sum[s[k]] = e[k] /\ sum[s[k + 1]] = e[k + 1] /\ v[k + 1] = tm[s[k + 1]]
    <3> HIDE DEF sum
    <3> QED
      BY <1>3, <2>2
  <2> HIDE DEF sum, v
  <2> QED
    BY <1>2, <2>2, <2>3
<1>6. sum[c] = tm[c]
  <2>1. 0 \in 0 .. N /\ c = s[0] /\ e[0] = tm[c]
    BY <1>0, <1>2
  <2>2. sum[s[0]] = e[0]
    <3> HIDE DEF sum, N
    <3> QED
      BY <1>3, <2>1
  <2> HIDE DEF sum
  <2> QED
    BY <2>1, <2>2
<1>7. \A k \in 0 .. N : sum[s[k]] - sum[c] <= up[s[k]] - up[c]
  <2> DEFINE S == {k \in 0 .. N : sum[s[k]] - sum[c] <= up[s[k]] - up[c]}
  <2> HIDE DEF sum
  <2>0. up \in [Id -> Int] /\ \A k \in 0 .. N : s[k] \in Id
    BY <1>0 DEF AtLeastApart
  <2>1. 0 \in S
    BY <1>0, <1>1, <1>4, <2>0
  <2>2. ASSUME NEW k \in 0 .. N - 1, k \in S PROVE k + 1 \in S
    <3>1. k \in 0 .. N /\ k + 1 \in 0 .. N /\ nx[s[k]] = s[k + 1]
      <4>1. k \in 0 .. n - 1 /\ k # n - 1 /\ k + 1 \in 0 .. N /\ N = n - 1
        BY <1>0
      <4> QED
        BY <1>n, <4>1
    <3>2. s[k] \in U /\ s[k + 1] \in U /\ s[k + 1] # NoId
      BY <1>3, <3>1, RtcLimits
    <3>3. up[s[k + 1]] >= up[s[k]] + tm[s[k + 1]]
      BY <3>1, <3>2 DEF AtLeastApart
    <3>4. sum[s[k + 1]] = sum[s[k]] + tm[s[k + 1]]
      BY <1>5, <3>1, <3>2 DEF Apart
    <3>5. {up[s[k]], up[s[k + 1]], up[c], sum[s[k]], sum[c], tm[s[k + 1]]} \subseteq Int
      BY <1>1, <1>4, <2>0, <3>1
    <3>6. sum[s[k]] - sum[c] <= up[s[k]] - up[c]
      BY <2>2
    <3>7. sum[s[k + 1]] - sum[c] <= up[s[k + 1]] - up[c]
      <4> DEFINE u1 == up[s[k]]
                 u2 == up[s[k + 1]]
                 u0 == up[c]
                 a1 == sum[s[k]]
                 a2 == sum[s[k + 1]]
                 a0 == sum[c]
                 x == tm[s[k + 1]]
      <4>1. {u1, u2, u0, a1, a0, x} \subseteq Int /\ u2 >= u1 + x /\ a2 = a1 + x
            /\ a1 - a0 <= u1 - u0
        BY <3>3, <3>4, <3>5, <3>6
      <4> HIDE DEF u1, u2, u0, a1, a2, a0, x
      <4>2. a2 - a0 <= u2 - u0
        BY <4>1
      <4> QED
        BY <4>2 DEF u2, u0, a2, a0
    <3> QED
      BY <3>1, <3>7
  <2>3. \A k \in 0 .. N : k \in S
    <3> HIDE DEF S, N
    <3> QED
      BY <1>1, <2>1, <2>2, UpTo
  <2> QED
    BY <2>3
<1> HIDE DEF sum
<1> QED
  BY <1>0, <1>5, <1>6, <1>7

\* What Rest computes: the time from the timer before on.
LEMMA RestIs ==
    ASSUME NEW s, NEW n, NEW U, NEW nx, NEW c, IsList(s, n, U, nx, c), c # NoId,
           NEW tm \in [Id -> Int], NEW sum, Apart(U, nx, tm, sum), sum[c] = tm[c],
           NEW t \in Int, NEW p \in 0 .. n - 1
    PROVE  Rest(Chain(nx, c), tm, t, p) = IF p = 0 THEN t ELSE t - sum[s[p - 1]]
<1>0. n \in Nat \ {0} /\ s \in [0 .. n - 1 -> Id] /\ c = s[0]
      /\ U = {s[k] : k \in 0 .. n - 1} /\ NoId \notin Id
  BY RtcLimits DEF IsList
<1>n. \A m \in 0 .. n - 1 : nx[s[m]] = IF m = n - 1 THEN NoId ELSE s[m + 1]
  BY DEF IsList
<1>s. sum \in [Id -> Int]
  BY DEF Apart
<1> DEFINE f == Chain(nx, c)
           g == [j \in 0 .. p |-> IF j = 0 THEN t ELSE t - sum[s[j - 1]]]
           C(h) == h = [j \in 0 .. p |-> IF j = 0 THEN t ELSE h[j - 1] - tm[f[j - 1]]]
           r == CHOOSE h : C(h)
<1>1. \A k \in 0 .. n - 1 : f[k] = s[k] /\ s[k] \in Id
  <2>1. n <= Cardinality(Id) /\ Cardinality(Id) \in Nat
    BY ListLength
  <2> QED
    BY <1>0, <2>1, ChainIs
<1> HIDE DEF f
<1>2. ASSUME NEW j \in 0 .. p
      PROVE  g[j] = IF j = 0 THEN t ELSE g[j - 1] - tm[f[j - 1]]
  <2>1. CASE j = 0
    BY <2>1
  <2>2. CASE j = 1
    <3>1. g[j] = t - sum[s[0]] /\ g[j - 1] = t /\ f[j - 1] = s[0]
      BY <1>0, <1>1, <2>2
    <3> QED
      BY <1>0, <2>2, <3>1
  <2>3. CASE j > 1
    <3>0. (j - 1) - 1 = j - 2 /\ j - 1 \in 0 .. p /\ j # 0 /\ j - 1 # 0
      BY <1>0, <2>3
    <3>1. g[j] = t - sum[s[j - 1]] /\ g[j - 1] = t - sum[s[j - 2]]
      BY <3>0
    <3>2. f[j - 1] = s[j - 1] /\ s[j - 1] \in Id /\ s[j - 2] \in U /\ s[j - 2] \in Id
      BY <1>0, <1>1, <2>3
    <3>3. nx[s[j - 2]] = s[j - 1]
      <4>1. j - 2 \in 0 .. n - 1 /\ j - 2 # n - 1 /\ (j - 2) + 1 = j - 1
        BY <1>0, <2>3
      <4> QED
        BY <1>n, <4>1
    <3>4. sum[s[j - 1]] = sum[s[j - 2]] + tm[s[j - 1]]
      BY <1>0, <3>2, <3>3 DEF Apart
    <3>5. {sum[s[j - 1]], sum[s[j - 2]], tm[s[j - 1]]} \subseteq Int
      BY <1>s, <3>2
    <3> HIDE DEF g
    <3> QED
      BY <2>3, <3>1, <3>2, <3>4, <3>5
  <2> QED
    BY <2>1, <2>2, <2>3
<1>3. C(g)
  BY <1>2
<1>4. C(r)
  <2> HIDE DEF C, g
  <2> QED
    BY <1>3
<1>5. Rest(f, tm, t, p) = r[p]
  BY DEF Rest
<1>6. \A j \in 0 .. p : r[j] = g[j]
  <2> HIDE DEF r, g
  <2>0. p \in Nat /\ 0 \in 0 .. p
    BY <1>0
  <2>1. r[0] = g[0]
    BY <1>2, <1>4, <2>0
  <2>2. ASSUME NEW k \in 0 .. p - 1, r[k] = g[k] PROVE r[k + 1] = g[k + 1]
    <3>1. k + 1 \in 0 .. p /\ k + 1 # 0 /\ (k + 1) - 1 = k
      BY <1>0
    <3>2. r[k + 1] = r[k] - tm[f[k]]
      BY <1>4, <3>1
    <3>3. g[k + 1] = g[k] - tm[f[k]]
      BY <1>2, <3>1
    <3> QED
      BY <2>2, <3>2, <3>3
  <2> QED
    BY <2>0, <2>1, <2>2, SameValues
<1>7. r[p] = g[p]
  <2> HIDE DEF r, g
  <2> QED
    BY <1>0, <1>6
<1> QED
  BY <1>0, <1>5, <1>7 DEF f

-----------------------------------------------------------------------------
(* time_sorting.                                                           *)

\* The place p at which time_sorting stops, and the time r it has left there.
StopsAt(p, r, s, n, nx, tm, sum, t) ==
    /\ p \in 0 .. n - 1
    /\ r = (IF p = 0 THEN t ELSE t - sum[s[p - 1]]) /\ r \in Nat
    /\ nx[s[p]] = NoId \/ tm[s[p]] >= r

\* The list with the timer i before the p-th one or behind it.
Placed(us, nx, tm, c, i, s, p, r) ==
    LET at == s[p]
    IN  IF tm[at] > r
        THEN L(us, [(IF p = 0 THEN nx ELSE [nx EXCEPT ![s[p - 1]] = i])
                      EXCEPT ![i] = at],
               [tm EXCEPT ![at] = @ - r, ![i] = r],
               IF p = 0 THEN i ELSE c)
        ELSE L(us, [[nx EXCEPT ![at] = i] EXCEPT ![i] = nx[at]],
               [tm EXCEPT ![i] = IF tm[at] = r THEN 0 ELSE r - tm[at]], c)

\* What time_sorting returns.
LEMMA SortingIs ==
    ASSUME NEW s, NEW n, NEW U, NEW nx, NEW c, IsList(s, n, U, nx, c), c # NoId,
           NEW tm \in [Id -> Nat], NEW sum, Apart(U, nx, tm, sum), sum[c] = tm[c],
           NEW us \in [Id -> BOOLEAN], NEW i \in Id, i \notin U, 
           U \cup {i} = {j \in Id : us[j]}
    PROVE  \E p, r :
             /\ StopsAt(p, r, s, n, nx, tm, sum, tm[i])
             /\ time_sorting(L(us, nx, tm, c), i) = Placed(us, nx, tm, c, i, s, p, r)
<1>0. n \in Nat \ {0} /\ s \in [0 .. n - 1 -> Id] /\ c = s[0] /\ c \in Id
      /\ U = {s[k] : k \in 0 .. n - 1} /\ NoId \notin Id /\ nx \in [Id -> Id \cup {NoId}]
  BY RtcLimits DEF IsList
<1>n. \A m \in 0 .. n - 1 : nx[s[m]] = IF m = n - 1 THEN NoId ELSE s[m + 1]
  BY DEF IsList
<1>s. sum \in [Id -> Int] /\ tm \in [Id -> Int] /\ tm[i] \in Int
  BY DEF Apart
<1>N. n <= Cardinality(Id) /\ Cardinality(Id) \in Nat
  BY ListLength
<1> DEFINE l == L(us, nx, tm, c)
           t == tm[i]
           f == Chain(l.next, l.cur)
           rest(k) == Rest(f, l.time, l.time[i], k)
           Stop(k) == \/ ~l.using[f[k]] \/ l.next[f[k]] = NoId
                      \/ l.time[f[k]] >= rest(k)
           p == First(Stop)
           S == {k \in 0 .. n - 1 : Stop(k)}
<1>l. l.using = us /\ l.next = nx /\ l.time = tm /\ l.cur = c
  BY DEF L
<1> HIDE DEF l
<1>1. \A k \in 0 .. n - 1 : f[k] = s[k] /\ s[k] \in Id /\ s[k] \in U /\ us[s[k]] /\ s[k] # i
  <2>1. Chain(nx, c) = [k \in 0 .. Cardinality(Id) |-> IF k < n THEN s[k] ELSE NoId]
    BY ChainIs
  <2>2. f = [k \in 0 .. Cardinality(Id) |-> IF k < n THEN s[k] ELSE NoId]
    BY <1>l, <2>1
  <2> HIDE DEF f
  <2>3. ASSUME NEW k \in 0 .. n - 1 PROVE f[k] = s[k] /\ s[k] \in U
    <3>1. k \in 0 .. Cardinality(Id) /\ k < n
      BY <1>0, <1>N
    <3> QED
      BY <1>0, <2>2, <3>1
  <2>4. ASSUME NEW j \in U PROVE j \in Id /\ us[j] /\ j # i
    OBVIOUS
  <2> HIDE DEF l
  <2> QED
    BY <2>3, <2>4
<1>2. \A k \in 0 .. n - 1 : rest(k) = IF k = 0 THEN t ELSE t - sum[s[k - 1]]
  <2> SUFFICES ASSUME NEW k \in 0 .. n - 1
               PROVE  Rest(Chain(nx, c), tm, t, k) = IF k = 0 THEN t ELSE t - sum[s[k - 1]]
    BY <1>l
  <2> HIDE DEF t
  <2> QED
    BY <1>s, RestIs DEF t
<1> HIDE DEF f, rest
<1>S. \A k \in 0 .. n - 1 : Stop(k) <=> nx[s[k]] = NoId \/ tm[s[k]] >= rest(k)
  BY <1>l, <1>1
<1>3. p \in 0 .. n - 1 /\ Stop(p) /\ \A j \in 0 .. p - 1 : ~Stop(j)
  <2>1. p = CHOOSE k \in 0 .. Cardinality(Id) : Stop(k) /\ \A j \in 0 .. k - 1 : ~Stop(j)
    BY DEF First
  <2>2. n - 1 \in 0 .. Cardinality(Id) /\ n - 1 \in S
    <3>1. n - 1 \in 0 .. Cardinality(Id) /\ n - 1 \in 0 .. n - 1
      BY <1>0, <1>N
    <3>2. nx[s[n - 1]] = NoId
      BY <1>n, <3>1
    <3> HIDE DEF Stop
    <3> QED
      BY <1>S, <3>1, <3>2
  <2>3. PICK x \in S : \A y \in S : x <= y
    <3>1. S \in SUBSET Nat /\ S # {}
      BY <2>2
    <3> HIDE DEF S
    <3> QED
      BY <3>1, Least
  <2>4. x \in 0 .. Cardinality(Id) /\ x \in 0 .. n - 1 /\ Stop(x)
        /\ \A j \in 0 .. x - 1 : ~Stop(j)
    <3>1. x \in 0 .. n - 1 /\ Stop(x)
      BY <2>3
    <3>2. ASSUME NEW j \in 0 .. x - 1, Stop(j) PROVE FALSE
      <4>1. j \in S /\ ~(x <= j)
        BY <1>0, <3>1, <3>2
      <4> QED
        BY <2>3, <4>1
    <3> QED
      BY <1>0, <1>N, <3>1, <3>2
  <2> HIDE DEF Stop, p
  <2>5. p \in 0 .. Cardinality(Id) /\ Stop(p) /\ \A j \in 0 .. p - 1 : ~Stop(j)
    BY <2>1, <2>4
  <2>6. ~(x < p)
    BY <1>N, <2>4, <2>5
  <2> QED
    BY <1>N, <2>4, <2>5, <2>6
<1> HIDE DEF p, Stop
<1>4. rest(p) \in Nat
  <2>1. CASE p = 0
    BY <1>0, <1>2, <2>1
  <2>2. CASE p # 0
    <3>1. p - 1 \in 0 .. n - 1 /\ p - 1 \in 0 .. p - 1 /\ ~Stop(p - 1)
      BY <1>0, <1>3, <2>2
    <3>2. ~(tm[s[p - 1]] >= rest(p - 1))
      BY <1>S, <3>1
    <3>3. rest(p) = t - sum[s[p - 1]]
      BY <1>2, <1>3, <2>2
    <3>4. rest(p) = rest(p - 1) - tm[s[p - 1]]
      <4>1. CASE p = 1
        BY <1>0, <1>2, <1>s, <3>1, <3>3, <4>1
      <4>2. CASE p # 1
        <5>0. p - 2 \in 0 .. n - 1 /\ (p - 1) - 1 = p - 2 /\ p - 2 # n - 1 /\ (p - 2) + 1 = p - 1
          BY <1>0, <1>3, <2>2, <4>2
        <5>1. nx[s[p - 2]] = s[p - 1]
          BY <1>n, <5>0
        <5>2. sum[s[p - 1]] = sum[s[p - 2]] + tm[s[p - 1]]
          <6>1. s[p - 2] \in U /\ nx[s[p - 2]] # NoId
            BY <1>0, <1>1, <3>1, <5>0, <5>1
          <6> QED
            BY <5>1, <6>1 DEF Apart
        <5>3. rest(p - 1) = t - sum[s[p - 2]]
          BY <1>2, <3>1, <5>0, <4>2
        <5>4. {sum[s[p - 1]], sum[s[p - 2]], tm[s[p - 1]], t} \subseteq Int
          BY <1>1, <1>s, <3>1, <5>0
        <5> HIDE DEF t
        <5> QED
          BY <3>3, <5>2, <5>3, <5>4
      <4> QED
        BY <4>1, <4>2
    <3>5. rest(p - 1) \in Int /\ tm[s[p - 1]] \in Int
      <4>0. n \in Int /\ p \in Int
        BY <1>0, <1>3
      <4>1. p - 1 # 0 => (p - 1) - 1 \in 0 .. n - 1
        BY <3>1, <4>0
      <4>2. p - 1 # 0 => sum[s[(p - 1) - 1]] \in Int
        BY <1>1, <1>s, <4>1
      <4> QED
        BY <1>1, <1>2, <1>s, <3>1, <4>2
    <3> QED
      BY <3>2, <3>4, <3>5
  <2> QED
    BY <2>1, <2>2
<1>5. StopsAt(p, rest(p), s, n, nx, tm, sum, tm[i])
  BY <1>2, <1>3, <1>4, <1>S DEF StopsAt
<1>6. time_sorting(l, i) = Placed(us, nx, tm, c, i, s, p, rest(p))
  <2>2. f[p] = s[p] /\ us[s[p]] /\ (p # 0 => f[p - 1] = s[p - 1])
    <3>1. p \in 0 .. n - 1 /\ (p # 0 => p - 1 \in 0 .. n - 1)
      BY <1>0, <1>3
    <3> QED
      BY <1>1, <3>1
  <2>3. time_sorting(l, i) =
          IF ~l.using[f[p]]
          THEN [l EXCEPT !.cur = IF l.time[@] > rest(p) THEN i ELSE @,
                         !.time[i] = rest(p)]
          ELSE IF l.time[f[p]] > rest(p)
          THEN [l EXCEPT !.time[f[p]] = @ - rest(p), !.time[i] = rest(p),
                         !.next = Linked(IF p = 0 THEN l.next
                                         ELSE [l.next EXCEPT ![f[p - 1]] = i], i, f[p]),
                         !.cur = IF p = 0 THEN i ELSE @]
          ELSE [l EXCEPT !.time[i] = IF l.time[f[p]] = rest(p) THEN 0
                                     ELSE rest(p) - l.time[f[p]],
                         !.next = Linked([l.next EXCEPT ![f[p]] = i], i, l.next[f[p]])]
    BY DEF time_sorting, f, rest, p, Stop
  <2>4. time_sorting(l, i) =
          IF tm[s[p]] > rest(p)
          THEN [l EXCEPT !.time[s[p]] = @ - rest(p), !.time[i] = rest(p),
                         !.next = Linked(IF p = 0 THEN l.next
                                         ELSE [l.next EXCEPT ![s[p - 1]] = i], i, s[p]),
                         !.cur = IF p = 0 THEN i ELSE @]
          ELSE [l EXCEPT !.time[i] = IF tm[s[p]] = rest(p) THEN 0
                                     ELSE rest(p) - tm[s[p]],
                         !.next = Linked([l.next EXCEPT ![s[p]] = i], i, l.next[s[p]])]
    BY <1>l, <2>2, <2>3
  <2> QED
    BY <2>4 DEF l, L, Linked, Placed
<1> QED
  BY <1>5, <1>6 DEF l

\* time_sorting puts the timer where its time belongs: the others keep their
\* times, and it has its own.
LEMMA SortedList ==
    ASSUME NEW s, NEW n, NEW U, NEW nx, NEW c, IsList(s, n, U, nx, c), c # NoId,
           NEW tm \in [Id -> Nat], NEW sum, Apart(U, nx, tm, sum), sum[c] = tm[c],
           NEW us \in [Id -> BOOLEAN], NEW i \in Id, i \notin U,
           U \cup {i} = {j \in Id : us[j]}
    PROVE  \E z, nx2, tm2, c2 :
             /\ time_sorting(L(us, nx, tm, c), i) = L(us, nx2, tm2, c2)
             /\ IsList(z, n + 1, U \cup {i}, nx2, c2)
             /\ tm2 \in [Id -> Nat]
             /\ Apart(U \cup {i}, nx2, tm2, [sum EXCEPT ![i] = tm[i]])
             /\ c2 \in {i, c}
             /\ [sum EXCEPT ![i] = tm[i]][c2] = tm2[c2]
<1>0. n \in Nat \ {0} /\ s \in [0 .. n - 1 -> Id] /\ c = s[0] /\ c \in Id
      /\ U = {s[k] : k \in 0 .. n - 1} /\ NoId \notin Id /\ nx \in [Id -> Id \cup {NoId}]
  BY RtcLimits DEF IsList
<1>d. \A a, b \in 0 .. n - 1 : s[a] = s[b] => a = b
  BY DEF IsList
<1>n. \A m \in 0 .. n - 1 : nx[s[m]] = IF m = n - 1 THEN NoId ELSE s[m + 1]
  BY DEF IsList
<1>s. sum \in [Id -> Int]
  BY DEF Apart
<1>1. PICK p, r :
        /\ StopsAt(p, r, s, n, nx, tm, sum, tm[i])
        /\ time_sorting(L(us, nx, tm, c), i) = Placed(us, nx, tm, c, i, s, p, r)
  BY SortingIs
<1> DEFINE at == s[p]
           t == tm[i]
           sum2 == [sum EXCEPT ![i] = t]
<1>2. /\ p \in 0 .. n - 1 /\ r \in Nat /\ at \in Id /\ at \in U /\ at # i
      /\ tm[at] \in Nat /\ t \in Nat /\ sum[at] \in Int
  BY <1>0, <1>1, <1>s DEF StopsAt
<1>3. sum[at] = t - r + tm[at]
  <2>1. CASE p = 0
    <3>1. r = t /\ at = c
      BY <1>0, <1>1, <2>1 DEF StopsAt
    <3> QED
      BY <1>2, <3>1
  <2>2. CASE p # 0
    <3>1. p - 1 \in 0 .. n - 1 /\ p - 1 # n - 1 /\ (p - 1) + 1 = p
      BY <1>0, <1>2, <2>2
    <3>2. nx[s[p - 1]] = at /\ s[p - 1] \in U /\ s[p - 1] \in Id
      BY <1>0, <1>n, <3>1
    <3>3. sum[at] = sum[s[p - 1]] + tm[at]
      BY <1>0, <1>2, <3>2 DEF Apart
    <3>4. r = t - sum[s[p - 1]] /\ sum[s[p - 1]] \in Int
      BY <1>1, <1>s, <2>2, <3>2 DEF StopsAt
    <3> HIDE DEF t, at
    <3> QED
      BY <1>2, <3>3, <3>4
  <2> QED
    BY <2>1, <2>2
<1>4. CASE tm[at] > r
  <2> DEFINE nx1 == IF p = 0 THEN nx ELSE [nx EXCEPT ![s[p - 1]] = i]
             nx2 == [nx1 EXCEPT ![i] = at]
             tm2 == [tm EXCEPT ![at] = tm[at] - r, ![i] = r]
             c2 == IF p = 0 THEN i ELSE c
             z == Inserted(s, n, p, i)
  <2>1. nx2 \in [Id -> Id \cup {NoId}] /\ nx2[i] = s[p]
    BY <1>0, <1>2
  <2>2. p > 0 => p - 1 \in 0 .. n - 1 /\ s[p - 1] \in Id /\ s[p - 1] \in U /\ s[p - 1] # i
                 /\ nx2[s[p - 1]] = i
    BY <1>0, <1>2
  <2>3. \A k \in 0 .. n - 1 : k # p - 1 => nx2[s[k]] = nx[s[k]]
    <3>1. SUFFICES ASSUME NEW k \in 0 .. n - 1, k # p - 1 PROVE nx2[s[k]] = nx[s[k]]
      OBVIOUS
    <3>2. s[k] \in Id /\ s[k] # i /\ (p > 0 => s[k] # s[p - 1])
      BY <1>0, <1>d, <1>2, <2>2, <3>1
    <3> QED
      BY <1>0, <1>2, <3>2
  <2> HIDE DEF nx2
  <2>4. IsList(z, n + 1, U \cup {i}, nx2, c2)
    <3>1. p \in 0 .. n /\ p # n
      BY <1>0, <1>2
    <3>2. nx2[i] = IF p = n THEN NoId ELSE s[p]
      BY <2>1, <3>1
    <3>3. p > 0 => nx2[s[p - 1]] = i
      BY <2>2
    <3>4. nx2 \in [Id -> Id \cup {NoId}]
      BY <2>1
    <3>5. Links(s, n, nx, p, i, nx2)
      BY <2>3, <3>2, <3>3, <3>4 DEF Links
    <3> QED
      BY <3>1, <3>5, ListInsert
  <2>5. tm2 \in [Id -> Nat] /\ tm2[at] = tm[at] - r /\ tm2[i] = r
        /\ \A j \in Id \ {i, at} : tm2[j] = tm[j]
    BY <1>2, <1>4
  <2>6. sum2 \in [Id -> Int] /\ sum2[i] = t /\ \A j \in Id \ {i} : sum2[j] = sum[j]
    BY <1>s, <1>2
  <2> HIDE DEF tm2, sum2, z
  <2>7. Apart(U \cup {i}, nx2, tm2, sum2)
    <3>1. SUFFICES ASSUME NEW j \in U \cup {i}, nx2[j] # NoId
                   PROVE  sum2[nx2[j]] = sum2[j] + tm2[nx2[j]]
      BY <2>6 DEF Apart
    <3>2. CASE j = i
      <4>1. sum2[at] = sum[at] /\ tm2[at] = tm[at] - r /\ nx2[j] = at /\ sum2[j] = t
        BY <1>2, <2>1, <2>5, <2>6, <3>2
      <4> HIDE DEF at, t
      <4> QED
        BY <1>2, <1>3, <4>1
    <3>3. CASE j # i
      <4>1. PICK k \in 0 .. n - 1 : j = s[k]
        BY <1>0, <3>3
      <4>2. CASE k = p - 1
        <5>1. p > 0 /\ nx2[j] = i /\ j \in Id /\ j = s[p - 1] /\ r = t - sum[s[p - 1]]
          BY <1>0, <1>1, <1>2, <2>2, <4>1, <4>2 DEF StopsAt
        <5>2. sum2[j] = sum[j] /\ sum[j] \in Int
          BY <1>s, <2>6, <3>3, <5>1
        <5> HIDE DEF t
        <5> QED
          BY <1>2, <2>5, <2>6, <5>1, <5>2
      <4>3. CASE k # p - 1
        <5>1. nx2[j] = nx[j] /\ k # n - 1 /\ nx[j] = s[k + 1] /\ k + 1 \in 0 .. n - 1
          BY <1>0, <1>n, <2>3, <3>1, <4>1, <4>3
        <5>2. s[k + 1] \in Id /\ s[k + 1] # at /\ s[k + 1] # i
          BY <1>0, <1>d, <1>2, <4>3, <5>1
        <5>3. sum[nx[j]] = sum[j] + tm[nx[j]]
          BY <1>0, <3>3, <5>1, <5>2 DEF Apart
        <5>4. sum2[j] = sum[j] /\ sum2[nx2[j]] = sum[nx[j]] /\ tm2[nx2[j]] = tm[nx[j]]
          <6>1. j \in Id \ {i} /\ s[k + 1] \in Id \ {i, at} /\ nx2[j] = s[k + 1] /\ nx[j] = s[k + 1]
            BY <1>0, <3>3, <4>1, <5>1, <5>2
          <6> HIDE DEF at
          <6> QED
            BY <2>5, <2>6, <6>1
        <5> QED
          BY <5>3, <5>4
      <4> QED
        BY <4>2, <4>3
    <3> QED
      BY <3>2, <3>3
  <2>8. sum2[c2] = tm2[c2] /\ c2 \in {i, c}
    <3>1. CASE p = 0
      <4>1. r = t
        BY <1>1, <3>1 DEF StopsAt
      <4> QED
        BY <2>5, <2>6, <3>1, <4>1
    <3>2. CASE p # 0
      <4>1. c # at /\ c # i
        BY <1>0, <1>d, <1>2, <3>2
      <4> QED
        BY <1>0, <2>5, <2>6, <3>2, <4>1
    <3> QED
      BY <3>1, <3>2
  <2>9. time_sorting(L(us, nx, tm, c), i) = L(us, nx2, tm2, c2)
    BY <1>1, <1>4 DEF nx2, tm2, Placed
  <2> HIDE DEF c2
  <2> QED
    BY <2>4, <2>5, <2>7, <2>8, <2>9 DEF sum2
<1>5. CASE ~(tm[at] > r)
  <2> DEFINE nx2 == [[nx EXCEPT ![at] = i] EXCEPT ![i] = nx[at]]
             tm2 == [tm EXCEPT ![i] = IF tm[at] = r THEN 0 ELSE r - tm[at]]
             q == p + 1
             z == Inserted(s, n, q, i)
  <2>1. nx2 \in [Id -> Id \cup {NoId}] /\ nx2[i] = nx[at] /\ nx2[at] = i
    BY <1>0, <1>2
  <2>2. q \in 0 .. n /\ q > 0 /\ q - 1 = p /\ nx[at] = IF q = n THEN NoId ELSE s[q]
    <3>1. nx[s[p]] = IF p = n - 1 THEN NoId ELSE s[p + 1]
      BY <1>n, <1>2
    <3> QED
      BY <1>0, <1>2, <3>1
  <2>3. \A k \in 0 .. n - 1 : k # p => s[k] \in Id /\ nx2[s[k]] = nx[s[k]]
    <3>1. SUFFICES ASSUME NEW k \in 0 .. n - 1, k # p
                   PROVE  s[k] \in Id /\ nx2[s[k]] = nx[s[k]]
      OBVIOUS
    <3>2. s[k] \in Id /\ s[k] # i /\ s[k] # at
      BY <1>0, <1>d, <1>2, <3>1
    <3> QED
      BY <1>0, <3>2
  <2>4. IsList(z, n + 1, U \cup {i}, nx2, c)
    <3> DEFINE c2 == IF q = 0 THEN i ELSE c
    <3>1. nx2[i] = IF q = n THEN NoId ELSE s[q]
      BY <2>1, <2>2
    <3>2. \A k \in 0 .. n - 1 : k # q - 1 => nx2[s[k]] = nx[s[k]]
      BY <2>2, <2>3
    <3>3. nx2[s[q - 1]] = i
      BY <2>1, <2>2
    <3> HIDE DEF nx2, q
    <3>4. IsList(z, n + 1, U \cup {i}, nx2, c2)
      <4>1. Links(s, n, nx, q, i, nx2)
        BY <2>1, <3>1, <3>2, <3>3 DEF Links
      <4> QED
        BY <2>2, <4>1, ListInsert
    <3> QED
      BY <2>2, <3>4
  <2>5. tm2 \in [Id -> Nat] /\ tm2[i] = r - tm[at]
        /\ \A j \in Id \ {i} : tm2[j] = tm[j]
    BY <1>2, <1>5
  <2>6. sum2 \in [Id -> Int] /\ sum2[i] = t /\ \A j \in Id \ {i} : sum2[j] = sum[j]
    BY <1>s, <1>2
  <2> HIDE DEF nx2, tm2, sum2, z
  <2>7. Apart(U \cup {i}, nx2, tm2, sum2)
    <3>1. SUFFICES ASSUME NEW j \in U \cup {i}, nx2[j] # NoId
                   PROVE  sum2[nx2[j]] = sum2[j] + tm2[nx2[j]]
      BY <2>6 DEF Apart
    <3>2. CASE j = i
      <4>1. nx[at] # NoId /\ nx2[j] = nx[at]
        BY <2>1, <3>1, <3>2
      <4>2. q \in 0 .. n - 1 /\ nx[at] = s[q] /\ s[q] \in Id /\ s[q] # i
        BY <1>0, <1>2, <2>2, <4>1
      <4>3. tm[at] = r
        BY <1>1, <1>2, <1>5, <4>1 DEF StopsAt
      <4>4. sum[s[q]] = sum[at] + tm[s[q]] /\ sum[at] = t
        <5>1. sum[s[q]] = sum[at] + tm[s[q]]
          BY <1>2, <4>1, <4>2 DEF Apart
        <5>2. sum[at] = t
          <6> HIDE DEF at, t
          <6> QED
            BY <1>2, <1>3, <4>3
        <5> QED
          BY <5>1, <5>2
      <4> QED
        BY <2>5, <2>6, <3>2, <4>1, <4>2, <4>4
    <3>3. CASE j = at
      <4>1. nx2[j] = i /\ sum2[j] = sum[at]
        BY <1>2, <2>1, <2>6, <3>3
      <4> HIDE DEF at, t
      <4> QED
        BY <1>2, <1>3, <2>5, <2>6, <4>1
    <3>4. CASE j # i /\ j # at
      <4>1. PICK k \in 0 .. n - 1 : j = s[k] /\ k # p
        BY <1>0, <3>4
      <4>2. nx2[j] = nx[j] /\ k # n - 1 /\ nx[j] = s[k + 1] /\ k + 1 \in 0 .. n - 1
        BY <1>0, <1>n, <2>3, <3>1, <4>1
      <4>3. s[k + 1] \in Id /\ s[k + 1] # i
        BY <1>0, <1>2, <4>2
      <4>4. sum[nx[j]] = sum[j] + tm[nx[j]]
        BY <1>0, <3>4, <4>2, <4>3 DEF Apart
      <4> QED
        BY <1>0, <2>5, <2>6, <3>4, <4>1, <4>2, <4>3, <4>4
    <3> QED
      BY <3>2, <3>3, <3>4
  <2>8. sum2[c] = tm2[c]
    BY <1>0, <2>5, <2>6
  <2>9. time_sorting(L(us, nx, tm, c), i) = L(us, nx2, tm2, c)
    BY <1>1, <1>5 DEF nx2, tm2, Placed
  <2> QED
    BY <2>4, <2>5, <2>7, <2>8, <2>9 DEF sum2
<1> QED
  BY <1>4, <1>5

-----------------------------------------------------------------------------
(* The subtraction of a gap.                                               *)

\* The times tm2 are tm after the gap has been subtracted along s; g[k] is
\* what of the gap reaches the k-th timer.
Deducted(s, n, tm, gap, g, tm2) ==
    /\ tm2 \in [Id -> Nat]
    /\ g \in [0 .. n -> Nat] /\ g[0] = gap
    /\ \A k \in 0 .. n - 1 : /\ g[k + 1] = Leaves(g[k], tm[s[k]])
                             /\ tm2[s[k]] = Less(tm[s[k]], g[k])
    /\ \A j \in Id : (\A k \in 0 .. n - 1 : s[k] # j) => tm2[j] = tm[j]

\* What is left of a gap, and of a time, is a natural number.
LEMMA LeavesNat ==
    ASSUME NEW a \in Nat, NEW t \in Nat
    PROVE  /\ Leaves(a, t) \in Nat /\ Less(t, a) \in Nat
           /\ Leaves(a, t) <= a /\ Less(t, a) <= t
           /\ a = 0 => Leaves(a, t) = 0 /\ Less(t, a) = t
<1>1. Slice \in Nat
  BY RtcLimits
<1> QED
  BY <1>1 DEF Leaves, Less

\* What Deduct computes.
LEMMA DeductIs ==
    ASSUME NEW s, NEW n, NEW U, NEW nx, NEW c, IsList(s, n, U, nx, c),
           NEW tm \in [Id -> Nat], NEW us, NEW first, NEW gap \in Nat
    PROVE  \E g, tm2 : /\ Deduct(L(us, nx, tm, first), c, gap) = L(us, nx, tm2, first)
                       /\ Deducted(s, n, tm, gap, g, tm2)
<1>0. n \in Nat /\ s \in [0 .. n - 1 -> Id] /\ NoId \notin Id
  BY RtcLimits DEF IsList
<1>d. \A a, b \in 0 .. n - 1 : s[a] = s[b] => a = b
  BY DEF IsList
<1> DEFINE l == L(us, nx, tm, first)
           N == Cardinality(Id)
           f == Chain(l.next, c)
           F(x, k) == IF f[k] = NoId THEN 0 ELSE Leaves(x, l.time[f[k]])
           C(h) == h = [k \in 0 .. N |->
                          IF k = 0 THEN gap
                          ELSE IF f[k - 1] = NoId THEN 0
                               ELSE Leaves(h[k - 1], l.time[f[k - 1]])]
           g == CHOOSE h : C(h)
           P(m, h) == h[0] = gap /\ \A k \in 0 .. m - 1 : h[k + 1] = F(h[k], k)
           S == {m \in 0 .. N : \E h \in [0 .. N -> Nat] : P(m, h)}
<1>l. l.using = us /\ l.next = nx /\ l.time = tm /\ l.cur = first
  BY DEF L
<1>N. n <= N /\ N \in Nat
  BY ListLength
<1>f. \A k \in 0 .. N : f[k] = IF k < n THEN s[k] ELSE NoId
  <2>1. Chain(nx, c) = [k \in 0 .. N |-> IF k < n THEN s[k] ELSE NoId]
    BY ChainIs
  <2>2. f = Chain(nx, c)
    BY <1>l
  <2> HIDE DEF N, l, f
  <2> QED
    BY <2>1, <2>2
<1>t. \A k \in 0 .. N : f[k] # NoId => f[k] \in Id
  BY <1>0, <1>N, <1>f
<1> HIDE DEF l, N, f
<1>F. ASSUME NEW k \in 0 .. N, NEW x \in Nat PROVE F(x, k) \in Nat
  BY <1>l, <1>t, LeavesNat
<1> HIDE DEF F
<1>1. 0 \in S
  <2> DEFINE h == [k \in 0 .. N |-> gap]
  <2>1. h \in [0 .. N -> Nat] /\ P(0, h)
    BY <1>N
  <2> HIDE DEF h, P
  <2> QED
    BY <1>N, <2>1
<1>2. ASSUME NEW m \in 0 .. N - 1, m \in S PROVE m + 1 \in S
  <2>1. PICK h \in [0 .. N -> Nat] : P(m, h)
    BY <1>2
  <2> DEFINE e == [h EXCEPT ![m + 1] = F(h[m], m)]
  <2>2. e \in [0 .. N -> Nat] /\ e[0] = gap
    <3>1. m \in 0 .. N /\ h[m] \in Nat /\ m + 1 \in 0 .. N /\ m + 1 # 0
      BY <1>N
    <3>2. F(h[m], m) \in Nat
      BY <1>F, <3>1
    <3> QED
      BY <1>N, <2>1, <3>1, <3>2
  <2>3. ASSUME NEW k \in 0 .. m PROVE e[k + 1] = F(e[k], k)
    <3>1. CASE k = m
      BY <1>N, <3>1
    <3>2. CASE k < m
      BY <1>N, <2>1, <3>2
    <3> QED
      BY <3>1, <3>2
  <2>4. P(m + 1, e)
    <3> HIDE DEF e
    <3> QED
      BY <1>N, <2>2, <2>3
  <2> HIDE DEF e, P
  <2> QED
    BY <1>N, <2>2, <2>4
<1>3. PICK h \in [0 .. N -> Nat] : P(N, h)
  <2>1. \A m \in 0 .. N : m \in S
    <3> HIDE DEF S
    <3> QED
      BY <1>N, <1>1, <1>2, UpTo
  <2>2. N \in 0 .. N
    BY <1>N
  <2>3. N \in S
    <3> HIDE DEF S
    <3> QED
      BY <2>1, <2>2
  <2> HIDE DEF P, N
  <2> QED
    BY <2>3
<1>4. C(h)
  <2>1. ASSUME NEW k \in 0 .. N
        PROVE  h[k] = IF k = 0 THEN gap
                      ELSE IF f[k - 1] = NoId THEN 0 ELSE Leaves(h[k - 1], l.time[f[k - 1]])
    <3>1. CASE k = 0
      BY <1>3, <3>1
    <3>2. CASE k # 0
      <4>1. k - 1 \in 0 .. N - 1 /\ (k - 1) + 1 = k
        BY <1>N, <3>2
      <4>2. h[k] = F(h[k - 1], k - 1)
        BY <1>3, <4>1
      <4> QED
        BY <3>2, <4>2 DEF F
    <3> QED
      BY <3>1, <3>2
  <2> QED
    BY <1>3, <2>1
<1>5. C(g)
  <2> HIDE DEF C
  <2> QED
    BY <1>4
<1> HIDE DEF g
<1>6. g[0] = gap /\ \A k \in 0 .. N - 1 : g[k + 1] = F(g[k], k)
  <2>1. g[0] = gap
    BY <1>N, <1>5
  <2>2. ASSUME NEW k \in 0 .. N - 1 PROVE g[k + 1] = F(g[k], k)
    <3>1. k + 1 \in 0 .. N /\ k + 1 # 0 /\ (k + 1) - 1 = k
      BY <1>N
    <3> QED
      BY <1>5, <3>1 DEF F
  <2> QED
    BY <2>1, <2>2
<1>7. \A k \in 0 .. N : g[k] \in Nat
  <2> DEFINE V == {k \in 0 .. N : g[k] \in Nat}
  <2>1. 0 \in V
    BY <1>N, <1>6
  <2>2. ASSUME NEW k \in 0 .. N - 1, k \in V PROVE k + 1 \in V
    <3>1. k \in 0 .. N /\ k + 1 \in 0 .. N /\ g[k] \in Nat
      BY <1>N, <2>2
    <3>2. g[k + 1] = F(g[k], k) /\ F(g[k], k) \in Nat
      BY <1>6, <1>F, <3>1
    <3> QED
      BY <3>1, <3>2
  <2>3. \A k \in 0 .. N : k \in V
    <3> HIDE DEF V
    <3> QED
      BY <1>N, <2>1, <2>2, UpTo
  <2> QED
    BY <2>3
<1> DEFINE at(i) == CHOOSE k \in DOMAIN f : f[k] = i
           tm2 == [i \in Id |-> IF \E k \in DOMAIN f : f[k] = i
                                THEN Less(tm[i], g[at(i)]) ELSE tm[i]]
           h2 == [k \in 0 .. n |-> g[k]]
<1>8. Deduct(l, c, gap) = L(us, nx, tm2, first)
  <2>1. Deduct(l, c, gap) =
          [l EXCEPT !.time = [i \in Id |-> IF \E k \in DOMAIN f : f[k] = i
                                           THEN Less(@[i], g[at(i)]) ELSE @[i]]]
    BY DEF Deduct, f, g, C, N
  <2> HIDE DEF at
  <2> QED
    BY <2>1 DEF l, L
<1>D. DOMAIN f = 0 .. N
  BY <1>l, ChainIs DEF f, N
<1>9. ASSUME NEW k \in 0 .. n - 1 PROVE tm2[s[k]] = Less(tm[s[k]], g[k]) /\ tm2[s[k]] \in Nat
  <2>1. k \in 0 .. N /\ f[k] = s[k] /\ s[k] \in Id /\ s[k] # NoId
    BY <1>0, <1>N, <1>f
  <2>2. ASSUME NEW m \in 0 .. N, f[m] = s[k] PROVE m = k
    BY <1>0, <1>N, <1>d, <1>f, <2>1, <2>2
  <2>3. at(s[k]) = k
    BY <1>D, <2>1, <2>2
  <2>4. \E m \in DOMAIN f : f[m] = s[k]
    BY <1>D, <2>1
  <2> HIDE DEF at
  <2>5. tm2[s[k]] = Less(tm[s[k]], g[k])
    BY <2>1, <2>3, <2>4
  <2>6. Less(tm[s[k]], g[k]) \in Nat
    BY <1>7, <2>1, LeavesNat
  <2> QED
    BY <2>5, <2>6
<1>10. ASSUME NEW j \in Id, \A k \in 0 .. n - 1 : s[k] # j PROVE tm2[j] = tm[j]
  <2>1. ASSUME NEW k \in 0 .. N PROVE f[k] # j
    <3>1. f[k] = IF k < n THEN s[k] ELSE NoId
      BY <1>f
    <3>2. k < n => k \in 0 .. n - 1
      BY <1>0, <1>N
    <3> QED
      BY <1>0, <1>10, <3>1, <3>2
  <2> QED
    BY <1>D, <2>1
<1> HIDE DEF at
<1>11. tm2 \in [Id -> Nat]
  <2>0. tm2 = [i \in Id |-> tm2[i]]
    OBVIOUS
  <2> HIDE DEF tm2
  <2>1. ASSUME NEW j \in Id PROVE tm2[j] \in Nat
    BY <1>9, <1>10
  <2> QED
    BY <2>0, <2>1
<1> HIDE DEF tm2
<1>12. Deducted(s, n, tm, gap, h2, tm2)
  <2>1. h2 \in [0 .. n -> Nat] /\ h2[0] = gap
    BY <1>0, <1>N, <1>6, <1>7
  <2>2. ASSUME NEW k \in 0 .. n - 1 PROVE h2[k + 1] = Leaves(h2[k], tm[s[k]])
    <3>1. k \in 0 .. N - 1 /\ k \in 0 .. N /\ f[k] = s[k] /\ s[k] # NoId
      BY <1>0, <1>N, <1>f
    <3>2. g[k + 1] = Leaves(g[k], tm[s[k]])
      BY <1>l, <1>6, <3>1 DEF F
    <3> QED
      BY <1>0, <3>2
  <2>3. \A k \in 0 .. n - 1 : h2[k] = g[k]
    BY <1>0
  <2> HIDE DEF h2
  <2> QED
    BY <1>9, <1>10, <1>11, <2>1, <2>2, <2>3 DEF Deducted
<1> QED
  BY <1>8, <1>12 DEF l

\* The first q timers of s have gone off.
GoneOff(us, nx, tm, s, n, q) ==
    [called |-> {s[k] : k \in 0 .. q - 1},
     list |-> L([j \in Id |-> us[j] /\ j \notin {s[k] : k \in 0 .. q - 1}], nx, tm,
                IF q = n THEN NoId ELSE s[q])]

\* The q timers from the first on are close to it, and the next one is not.
Close(s, n, q, tm) ==
    /\ q \in 1 .. n
    /\ \A k \in 1 .. q - 1 : tm[s[k]] <= Slice
    /\ q # n => tm[s[q]] > Slice

\* The gap is subtracted behind the first timer, and q timers go off.
CalledBack(us, nx, tm, c, gap, s, n, q, g, tm2) ==
    /\ ProcessCallback(L(us, nx, tm, c), c, gap) = GoneOff(us, nx, tm2, s, n, q)
    /\ Close(s, n, q, tm2)
    /\ Deducted(Dropped(s, n, 1), n - 1, [tm EXCEPT ![c] = 0], gap, g, tm2)

\* What DA16200_PROCESS_CALLBACK does with the first timer of a list.
LEMMA CallbackIs ==
    ASSUME NEW s, NEW n, NEW U, NEW nx, NEW c, IsList(s, n, U, nx, c), c # NoId,
           NEW tm \in [Id -> Nat], NEW us \in [Id -> BOOLEAN],
           U = {j \in Id : us[j]}, NEW gap \in Nat
    PROVE  \E q, g, tm2 : CalledBack(us, nx, tm, c, gap, s, n, q, g, tm2)
<1>0. n \in Nat \ {0} /\ s \in [0 .. n - 1 -> Id] /\ c = s[0] /\ c \in Id
      /\ U = {s[k] : k \in 0 .. n - 1} /\ NoId \notin Id /\ nx \in [Id -> Id \cup {NoId}]
  BY RtcLimits DEF IsList
<1>n. nx[c] = IF n = 1 THEN NoId ELSE s[1]
  BY <1>0 DEF IsList
<1>N. n <= Cardinality(Id) /\ Cardinality(Id) \in Nat
  BY ListLength
<1> DEFINE z == Dropped(s, n, 1)
           V == U \ {s[k] : k \in 0 .. 1 - 1}
           us1 == [us EXCEPT ![c] = FALSE]
           tm1 == [tm EXCEPT ![c] = 0]
<1>1. IsList(z, n - 1, V, nx, nx[c])
  <2>1. 1 \in 0 .. n /\ nx[c] = IF 1 = n THEN NoId ELSE s[1]
    BY <1>0, <1>n
  <2> HIDE DEF z, V
  <2> QED
    BY <2>1, ListDrop DEF z, V
<1>z. \A k \in 0 .. n - 2 : z[k] = s[k + 1] /\ z[k] \in Id
  BY <1>0 DEF Dropped
<1> HIDE DEF z, V
<1>2. tm1 \in [Id -> Nat]
  BY <1>0
<1> HIDE DEF tm1
<1>3. PICK g, tm2 : /\ Deduct(L(us1, nx, tm1, c), nx[c], gap) = L(us1, nx, tm2, c)
                    /\ Deducted(z, n - 1, tm1, gap, g, tm2)
  BY <1>1, <1>2, DeductIs
<1> DEFINE l == L(us, nx, tm, c)
           d == Deduct([l EXCEPT !.using[c] = FALSE, !.time[c] = 0], l.next[c], gap)
           f == Chain(d.next, d.next[c])
           Later(k) == f[k] = NoId \/ ~Soon(d.time[f[k]])
           p == First(Later)
           due == {f[k] : k \in 0 .. p - 1}
<1>4. d = L(us1, nx, tm2, c)
  <2>1. [l EXCEPT !.using[c] = FALSE, !.time[c] = 0] = L(us1, nx, tm1, c)
    <3>1. [l EXCEPT !.using[c] = FALSE, !.time[c] = 0]
            = [l EXCEPT !.using = [l.using EXCEPT ![c] = FALSE],
                        !.time = [l.time EXCEPT ![c] = 0]]
      BY DEF L
    <3>2. l.using = us /\ l.time = tm
      BY DEF L
    <3>3. [l EXCEPT !.using = us1, !.time = tm1] = L(us1, nx, tm1, c)
      <4> HIDE DEF us1
      <4>1. [l EXCEPT !.using = us1] = L(us1, nx, tm, c)
        BY DEF L
      <4>2. [L(us1, nx, tm, c) EXCEPT !.time = tm1] = L(us1, nx, tm1, c)
        BY DEF L
      <4>3. [l EXCEPT !.using = us1, !.time = tm1]
              = [[l EXCEPT !.using = us1] EXCEPT !.time = tm1]
        OBVIOUS
      <4> QED
        BY <4>1, <4>2, <4>3
    <3> HIDE DEF l
    <3> QED
      BY <3>1, <3>2, <3>3 DEF tm1
  <2>2. l.next = nx
    BY DEF L
  <2> HIDE DEF l, us1
  <2> QED
    BY <1>3, <2>1, <2>2
<1>5. ProcessCallback(l, c, gap) =
        IF l.using[c]
        THEN [called |-> {c} \cup due,
              list |-> [d EXCEPT !.using = [j \in Id |-> @[j] /\ j \notin due],
                                 !.cur = f[p]]]
        ELSE [called |-> {}, list |-> [l EXCEPT !.cur = NoId]]
  BY DEF ProcessCallback
<1>6. d.using = us1 /\ d.next = nx /\ d.time = tm2 /\ l.using[c]
  <2>1. l.using = us
    BY DEF L
  <2>2. us[c]
    BY <1>0
  <2> HIDE DEF l, d
  <2> QED
    BY <1>4, <2>1, <2>2 DEF L
<1> HIDE DEF l, d
<1>7. \A k \in 0 .. Cardinality(Id) : f[k] = IF k < n - 1 THEN s[k + 1] ELSE NoId
  <2>1. f = [k \in 0 .. Cardinality(Id) |-> IF k < n - 1 THEN z[k] ELSE NoId]
    <3>1. f = Chain(nx, nx[c])
      BY <1>6
    <3> DEFINE m == n - 1
               c1 == nx[c]
    <3>2. IsList(z, m, V, nx, c1) /\ f = Chain(nx, c1)
      BY <1>1, <3>1
    <3> HIDE DEF f, m, c1
    <3>3. f = [k \in 0 .. Cardinality(Id) |-> IF k < m THEN z[k] ELSE NoId]
      BY <3>2, ChainIs
    <3> QED
      BY <3>3 DEF m
  <2>2. ASSUME NEW k \in 0 .. Cardinality(Id)
        PROVE  f[k] = IF k < n - 1 THEN s[k + 1] ELSE NoId
    <3>1. k < n - 1 => k \in 0 .. n - 2
      BY <1>0, <1>N
    <3> HIDE DEF f
    <3> QED
      BY <1>z, <2>1, <3>1
  <2> QED
    BY <2>2
<1> HIDE DEF f
<1>8. \A k \in 0 .. n - 1 : Later(k) <=> k = n - 1 \/ tm2[s[k + 1]] > Slice
  <2> SUFFICES ASSUME NEW k \in 0 .. n - 1
               PROVE  Later(k) <=> k = n - 1 \/ tm2[s[k + 1]] > Slice
    OBVIOUS
  <2>1. k \in 0 .. Cardinality(Id)
    BY <1>0, <1>N
  <2>2. CASE k = n - 1
    <3>1. f[k] = NoId
      BY <1>0, <1>7, <2>1, <2>2
    <3> QED
      BY <2>2, <3>1
  <2>3. CASE k # n - 1
    <3>1. f[k] = s[k + 1] /\ s[k + 1] \in Id
      BY <1>0, <1>7, <2>1, <2>3
    <3>2. tm2[s[k + 1]] \in Nat /\ Slice \in Nat
      BY <1>3, <3>1, RtcLimits DEF Deducted
    <3> QED
      BY <1>0, <1>6, <2>3, <3>1, <3>2 DEF Soon
  <2> QED
    BY <2>2, <2>3
<1>9. p \in 0 .. n - 1 /\ Later(p) /\ \A j \in 0 .. p - 1 : ~Later(j)
  <2> DEFINE S == {k \in 0 .. n - 1 : Later(k)}
  <2>1. p = CHOOSE k \in 0 .. Cardinality(Id) : Later(k) /\ \A j \in 0 .. k - 1 : ~Later(j)
    BY DEF First
  <2>2. n - 1 \in S
    <3>1. n - 1 \in 0 .. n - 1
      BY <1>0
    <3> HIDE DEF Later
    <3> QED
      BY <1>8, <3>1
  <2>3. PICK x \in S : \A y \in S : x <= y
    <3>1. S \in SUBSET Nat /\ S # {}
      BY <2>2
    <3> HIDE DEF S
    <3> QED
      BY <3>1, Least
  <2> HIDE DEF Later, p
  <2>4. x \in 0 .. Cardinality(Id) /\ x \in 0 .. n - 1 /\ Later(x)
        /\ \A j \in 0 .. x - 1 : ~Later(j)
    <3>1. x \in 0 .. n - 1 /\ Later(x)
      BY <2>3
    <3>2. ASSUME NEW j \in 0 .. x - 1, Later(j) PROVE FALSE
      <4>1. j \in S /\ ~(x <= j)
        BY <1>0, <3>1, <3>2
      <4> QED
        BY <2>3, <4>1
    <3> QED
      BY <1>0, <1>N, <3>1, <3>2
  <2>5. p \in 0 .. Cardinality(Id) /\ Later(p) /\ \A j \in 0 .. p - 1 : ~Later(j)
    BY <2>1, <2>4
  <2>6. ~(x < p)
    BY <1>N, <2>4, <2>5
  <2> QED
    BY <1>N, <2>4, <2>5, <2>6
<1> HIDE DEF p, Later
<1> DEFINE q == p + 1
<1>10. Close(s, n, q, tm2)
  <2>1. q \in 1 .. n
    BY <1>0, <1>9
  <2>2. ASSUME NEW k \in 1 .. q - 1 PROVE tm2[s[k]] <= Slice
    <3>1. k - 1 \in 0 .. p - 1 /\ k - 1 \in 0 .. n - 1 /\ (k - 1) + 1 = k /\ s[k] \in Id
      BY <1>0, <1>9
    <3>2. ~(tm2[s[k]] > Slice)
      BY <1>8, <1>9, <3>1
    <3>3. tm2[s[k]] \in Nat /\ Slice \in Nat
      BY <1>3, <3>1, RtcLimits DEF Deducted
    <3> QED
      BY <3>2, <3>3
  <2>3. q # n => tm2[s[q]] > Slice
    BY <1>0, <1>8, <1>9
  <2> QED
    BY <2>1, <2>2, <2>3 DEF Close
<1>11. f[p] = IF q = n THEN NoId ELSE s[q]
  <2>1. p \in 0 .. Cardinality(Id)
    BY <1>0, <1>N, <1>9
  <2> QED
    BY <1>0, <1>7, <1>9, <2>1
<1>12. {c} \cup due = {s[k] : k \in 0 .. q - 1}
  <2>1. ASSUME NEW k \in 0 .. p - 1 PROVE f[k] = s[k + 1] /\ k + 1 \in 0 .. q - 1
    <3>1. k \in 0 .. Cardinality(Id) /\ k < n - 1
      BY <1>0, <1>N, <1>9
    <3> QED
      BY <1>0, <1>7, <1>9, <3>1
  <2>2. ASSUME NEW k \in 0 .. q - 1 PROVE s[k] \in {c} \cup due
    <3>1. CASE k = 0
      BY <1>0, <3>1
    <3>2. CASE k # 0
      <4>1. k - 1 \in 0 .. p - 1 /\ (k - 1) + 1 = k
        BY <1>0, <1>9, <3>2
      <4>2. f[k - 1] = s[k]
        BY <2>1, <4>1
      <4> QED
        BY <4>1, <4>2
    <3> QED
      BY <3>1, <3>2
  <2>3. c \in {s[k] : k \in 0 .. q - 1}
    <3>1. 0 \in 0 .. q - 1
      BY <1>0, <1>9
    <3> QED
      BY <1>0, <3>1
  <2>4. due \subseteq {s[k] : k \in 0 .. q - 1}
    BY <2>1
  <2> QED
    BY <2>2, <2>3, <2>4
<1> HIDE DEF q
<1>13. ProcessCallback(l, c, gap) = GoneOff(us, nx, tm2, s, n, q)
  <2> DEFINE Q == {s[k] : k \in 0 .. q - 1}
             us2 == [j \in Id |-> us[j] /\ j \notin Q]
  <2>1. [d EXCEPT !.using = [j \in Id |-> @[j] /\ j \notin due], !.cur = f[p]]
          = L([j \in Id |-> us1[j] /\ j \notin due], nx, tm2, IF q = n THEN NoId ELSE s[q])
    <3> DEFINE w == [j \in Id |-> us1[j] /\ j \notin due]
    <3>1. [j \in Id |-> d.using[j] /\ j \notin due] = w
      BY <1>6
    <3>2. [d EXCEPT !.using = [j \in Id |-> @[j] /\ j \notin due], !.cur = f[p]]
            = [d EXCEPT !.using = w, !.cur = f[p]]
      <4> HIDE DEF w, due
      <4> QED
        BY <3>1
    <3> HIDE DEF w, us1, due
    <3>3. [d EXCEPT !.using = w, !.cur = f[p]] = L(w, nx, tm2, f[p])
      <4>1. [d EXCEPT !.using = w, !.cur = f[p]]
              = [L(us1, nx, tm2, c) EXCEPT !.using = w, !.cur = f[p]]
        BY <1>4
      <4>2. [L(us1, nx, tm2, c) EXCEPT !.using = w, !.cur = f[p]] = L(w, nx, tm2, f[p])
        <5> DEFINE l1 == L(us1, nx, tm2, c)
        <5>1. [l1 EXCEPT !.using = w] = L(w, nx, tm2, c)
          BY DEF L
        <5>2. [L(w, nx, tm2, c) EXCEPT !.cur = f[p]] = L(w, nx, tm2, f[p])
          BY DEF L
        <5>3. [l1 EXCEPT !.using = w, !.cur = f[p]]
                = [[l1 EXCEPT !.using = w] EXCEPT !.cur = f[p]]
          OBVIOUS
        <5> QED
          BY <5>1, <5>2, <5>3
      <4> QED
        BY <4>1, <4>2
    <3>4. [d EXCEPT !.using = [j \in Id |-> @[j] /\ j \notin due], !.cur = f[p]]
            = L(w, nx, tm2, IF q = n THEN NoId ELSE s[q])
      BY <1>11, <3>2, <3>3
    <3> QED
      BY <3>4 DEF w
  <2>2. \A j \in Id : (us1[j] /\ j \notin due) = (us[j] /\ j \notin Q)
    <3> SUFFICES ASSUME NEW j \in Id
                 PROVE  (us1[j] /\ j \notin due) <=> (us[j] /\ j \notin Q)
      BY Zenon
    <3>1. j \in Q <=> j = c \/ j \in due
      <4> HIDE DEF Q, due
      <4> QED
        BY <1>12 DEF Q
    <3>2. us1[j] <=> us[j] /\ j # c
      BY <1>0
    <3> HIDE DEF us1, due, Q
    <3> QED
      BY <3>1, <3>2
  <2>3. [j \in Id |-> us1[j] /\ j \notin due] = us2
    <3> HIDE DEF us1, due, Q
    <3> QED
      BY <2>2
  <2>4. ProcessCallback(l, c, gap) =
          [called |-> Q, list |-> L(us2, nx, tm2, IF q = n THEN NoId ELSE s[q])]
    <3> HIDE DEF us1, due, Q, us2
    <3> QED
      BY <1>5, <1>6, <1>12, <2>1, <2>3 DEF Q
  <2> QED
    BY <2>4 DEF GoneOff
<1> QED
  BY <1>3, <1>10, <1>13 DEF l, z, tm1, CalledBack

\* l is the list z of the timers U and i, whose times add up to A; its first
\* timer is i or was the first before.
Joined(l, us, U, i, c, z, m, A) ==
    /\ l = L(us, l.next, l.time, l.cur)
    /\ IsList(z, m, U \cup {i}, l.next, l.cur)
    /\ l.time \in [Id -> Nat]
    /\ Apart(U \cup {i}, l.next, l.time, A)
    /\ l.cur \in {i, c} /\ l.cur # NoId
    /\ A[l.cur] = l.time[l.cur]

\* The conjuncts of Joined, for a list given as its four functions.
LEMMA JoinedOf ==
    ASSUME NEW us, NEW U, NEW i, NEW c, NEW z, NEW m, NEW A, NEW nx, NEW tm, NEW c2,
           IsList(z, m, U \cup {i}, nx, c2), tm \in [Id -> Nat],
           Apart(U \cup {i}, nx, tm, A), c2 \in {i, c}, c2 # NoId, A[c2] = tm[c2]
    PROVE  Joined(L(us, nx, tm, c2), us, U, i, c, z, m, A)
<1> DEFINE l == L(us, nx, tm, c2)
<1>1. l.next = nx /\ l.time = tm /\ l.cur = c2
  BY DEF L
<1>2. l = L(us, l.next, l.time, l.cur)
  BY <1>1
<1> HIDE DEF l
<1>3. Joined(l, us, U, i, c, z, m, A)
  BY <1>1, <1>2 DEF Joined
<1> QED
  BY <1>3 DEF l

\* Insert puts the timer i into any list: the others keep their times, and it
\* has its own.
LEMMA InsertIs ==
    ASSUME NEW s, NEW n, NEW U, NEW nx, NEW c, IsList(s, n, U, nx, c),
           NEW tm \in [Id -> Nat], NEW sum, Apart(U, nx, tm, sum),
           c # NoId => sum[c] = tm[c],
           NEW us \in [Id -> BOOLEAN], NEW i \in Id, i \notin U, nx[i] = NoId,
           U \cup {i} = {j \in Id : us[j]}
    PROVE  \E z, m : Joined(Insert(L(us, nx, tm, c), i), us, U, i, c, z, m,
                            [sum EXCEPT ![i] = tm[i]])
<1> DEFINE l == L(us, nx, tm, c)
           sum2 == [sum EXCEPT ![i] = tm[i]]
<1>l. l.cur = c
  BY DEF L
<1>1. CASE c = NoId
  <2>1. n = 0 /\ U = {} /\ i # NoId
    BY <1>1, ListMembers, RtcLimits
  <2>2. Insert(l, i) = [l EXCEPT !.cur = i]
    BY <1>1, <1>l DEF Insert
  <2>3. [l EXCEPT !.cur = i] = L(us, nx, tm, i)
    BY DEF L
  <2>4. Links(s, n, nx, 0, i, nx)
    BY <2>1 DEF Links, IsList
  <2>5. IsList(Inserted(s, n, 0, i), n + 1, U \cup {i}, nx, IF 0 = 0 THEN i ELSE c)
    <3> DEFINE p == 0
    <3>1. p \in 0 .. n /\ Links(s, n, nx, p, i, nx)
      BY <2>1, <2>4
    <3> HIDE DEF p
    <3>2. IsList(Inserted(s, n, p, i), n + 1, U \cup {i}, nx, IF p = 0 THEN i ELSE c)
      BY <3>1, ListInsert
    <3> QED
      BY <3>2 DEF p
  <2>6. sum2 \in [Id -> Int] /\ sum2[i] = tm[i]
    BY DEF Apart
  <2>7. Apart(U \cup {i}, nx, tm, sum2)
    <3> HIDE DEF sum2
    <3> QED
      BY <2>1, <2>6 DEF Apart
  <2> HIDE DEF sum2, l
  <2>8. Joined(L(us, nx, tm, i), us, U, i, c, Inserted(s, n, 0, i), n + 1, sum2)
    BY <2>1, <2>5, <2>6, <2>7, JoinedOf
  <2> QED
    BY <2>2, <2>3, <2>8 DEF sum2, l
<1>2. CASE c # NoId
  <2>1. Insert(l, i) = time_sorting(l, i)
    BY <1>2, <1>l DEF Insert
  <2>2. PICK z, nx2, tm2, c2 :
             /\ time_sorting(l, i) = L(us, nx2, tm2, c2)
             /\ IsList(z, n + 1, U \cup {i}, nx2, c2)
             /\ tm2 \in [Id -> Nat]
             /\ Apart(U \cup {i}, nx2, tm2, sum2)
             /\ c2 \in {i, c}
             /\ sum2[c2] = tm2[c2]
    <3>1. sum[c] = tm[c]
      BY <1>2
    <3> QED
      BY <1>2, <3>1, SortedList, SMTT(40)
  <2>3. c2 # NoId
    BY <1>2, <2>2, RtcLimits
  <2> HIDE DEF sum2
  <2>4. Joined(L(us, nx2, tm2, c2), us, U, i, c, z, n + 1, sum2)
    BY <2>2, <2>3, JoinedOf
  <2> QED
    BY <2>1, <2>2, <2>4 DEF sum2
<1> QED
  BY <1>1, <1>2

\* The list after its first timer's time has been read, with the times counted
\* from then on.
LEMMA Recounted ==
    ASSUME NEW s, NEW n, NEW U, NEW nx, NEW c, IsList(s, n, U, nx, c), c # NoId,
           NEW tm \in [Id -> Nat], NEW sum, Apart(U, nx, tm, sum),
           NEW nx2 \in [Id -> Id \cup {NoId}], \A j \in U : nx2[j] = nx[j],
           NEW tm2 \in [Id -> Nat], \A j \in U \ {c} : tm2[j] = tm[j],
           NEW sum2, sum2 = [j \in Id |-> sum[j] - sum[c] + tm2[c]]
    PROVE  /\ IsList(s, n, U, nx2, c)
           /\ Apart(U, nx2, tm2, sum2)
           /\ sum2[c] = tm2[c]
<1>1. IsList(s, n, U, nx2, c)
  BY ListFrame
<1>2. U \subseteq Id /\ c \in U /\ \A j \in U : nx[j] \in U \cup {NoId} /\ nx[j] # c
  BY ListMembers
<1>3. sum \in [Id -> Int] /\ sum[c] \in Int /\ tm2[c] \in Nat
  BY <1>2 DEF Apart
<1>4. sum2 \in [Id -> Int] /\ sum2[c] = tm2[c]
  BY <1>2, <1>3
<1>5. ASSUME NEW j \in U, nx2[j] # NoId
      PROVE  sum2[nx2[j]] = sum2[j] + tm2[nx2[j]]
  <2>1. nx2[j] = nx[j] /\ nx[j] \in U \ {c} /\ nx[j] \in Id /\ j \in Id
    BY <1>2, <1>5
  <2>2. sum[nx[j]] = sum[j] + tm[nx[j]] /\ tm2[nx[j]] = tm[nx[j]]
    BY <1>5, <2>1 DEF Apart
  <2>3. {sum[nx[j]], sum[j], sum[c], tm2[c], tm[nx[j]]} \subseteq Int
    BY <1>2, <1>3, <2>1
  <2>4. sum2[nx[j]] = sum[nx[j]] - sum[c] + tm2[c] /\ sum2[j] = sum[j] - sum[c] + tm2[c]
    BY <2>1
  <2> QED
    BY <2>1, <2>2, <2>3, <2>4
<1> QED
  BY <1>1, <1>4, <1>5 DEF Apart

\* From the first timer on the times do not fall.
LEMMA SumsRise ==
    ASSUME NEW s, NEW n, NEW U, NEW nx, NEW c, IsList(s, n, U, nx, c),
           NEW tm \in [Id -> Nat], NEW sum, Apart(U, nx, tm, sum)
    PROVE  \A k \in 0 .. n - 1 : \A m \in 0 .. k : sum[s[m]] <= sum[s[k]]
<1>0. n \in Nat /\ s \in [0 .. n - 1 -> Id] /\ U = {s[k] : k \in 0 .. n - 1}
      /\ NoId \notin Id /\ sum \in [Id -> Int]
  BY RtcLimits DEF IsList, Apart
<1>n. \A m \in 0 .. n - 1 : nx[s[m]] = IF m = n - 1 THEN NoId ELSE s[m + 1]
  BY DEF IsList
<1>1. ASSUME NEW k \in 0 .. n - 1, k # n - 1
      PROVE  sum[s[k + 1]] >= sum[s[k]] /\ sum[s[k]] \in Int /\ sum[s[k + 1]] \in Int
  <2>1. k + 1 \in 0 .. n - 1 /\ s[k] \in U /\ s[k] \in Id /\ s[k + 1] \in Id
        /\ nx[s[k]] = s[k + 1]
    BY <1>0, <1>n, <1>1
  <2>2. sum[s[k + 1]] = sum[s[k]] + tm[s[k + 1]]
    BY <1>0, <2>1 DEF Apart
  <2> QED
    BY <1>0, <2>1, <2>2
<1>2. SUFFICES ASSUME NEW k \in 0 .. n - 1, NEW m \in 0 .. k
               PROVE  sum[s[m]] <= sum[s[k]]
  OBVIOUS
<1> DEFINE N == k - m
           S == {d \in 0 .. N : sum[s[m]] <= sum[s[m + d]]}
<1>3. N \in Nat /\ m + N = k
  BY <1>0
<1>4. 0 \in S
  BY <1>0
<1>5. ASSUME NEW d \in 0 .. N - 1, d \in S PROVE d + 1 \in S
  <2>1. m + d \in 0 .. n - 1 /\ m + d # n - 1 /\ (m + d) + 1 = m + (d + 1) /\ s[m] \in Id
    BY <1>0
  <2>2. sum[s[m + (d + 1)]] >= sum[s[m + d]] /\ sum[s[m + d]] \in Int
        /\ sum[s[m + (d + 1)]] \in Int /\ sum[s[m]] \in Int
    BY <1>0, <1>1, <2>1
  <2>3. sum[s[m]] <= sum[s[m + d]]
    BY <1>5
  <2>4. sum[s[m]] <= sum[s[m + (d + 1)]]
    BY <2>2, <2>3
  <2> QED
    BY <1>3, <2>4
<1>6. \A d \in 0 .. N : d \in S
  <2> HIDE DEF S, N
  <2> QED
    BY <1>3, <1>4, <1>5, UpTo
<1>7. N \in S
  <2> HIDE DEF S, N
  <2> QED
    BY <1>3, <1>6
<1> QED
  BY <1>3, <1>7

-----------------------------------------------------------------------------
(* The conversions between microseconds and clocks round down.             *)

\* A factor that is not negative keeps an order.
LEMMA MulLe ==
    ASSUME NEW a \in Int, NEW b \in Int, NEW d \in Nat, a <= b PROVE a * d <= b * d
  OBVIOUS

\* Division rounds down, by less than the divisor.
LEMMA Division ==
    ASSUME NEW a \in Nat, NEW b \in Nat \ {0}
    PROVE  a \div b \in Nat /\ (a \div b) * b <= a /\ a < (a \div b) * b + b
  OBVIOUS

\* The clocks of a time last no longer than it, and less than a clock less.
LEMMA US2CLKRounds ==
    ASSUME NEW us \in Nat
    PROVE  /\ US2CLK(us) \in Nat
           /\ US2CLK(us) * Num <= us * Den
           /\ us * Den < US2CLK(us) * Num + Num
<1>1. us * Den \in Nat /\ Num \in Nat \ {0}
  BY RtcLimits
<1> QED
  BY <1>1, Division DEF US2CLK

\* The time of some clocks is no longer than they, and less than a microsecond
\* less.
LEMMA CLK2USRounds ==
    ASSUME NEW clk \in Nat
    PROVE  /\ CLK2US(clk) \in Nat
           /\ CLK2US(clk) * Den <= clk * Num
           /\ clk * Num < CLK2US(clk) * Den + Den
<1>1. clk * Num \in Nat /\ Den \in Nat \ {0}
  BY RtcLimits
<1> QED
  BY <1>1, Division DEF CLK2US

-----------------------------------------------------------------------------
(* The invariant.                                                          *)

\* The timers in use.
Used == {i \in Id : using[i]}

\* The list is s, and sum its times.
Shows(s, n, sum) ==
    IsList(s, n, Used, next, cur) /\ Apart(Used, next, time, sum)

\* The first timer of the list ends the sleep.
EndsSleep == cur = wakeup_id /\ cur # NoId

\* The beacon timer that ended the sleep has left the list, of which it was
\* the first.
Received ==
    /\ wakeup_id \in Beacon /\ ~using[wakeup_id]
    /\ next[wakeup_id] = cur
    /\ ~boot_tim /\ target <= 0

\* The list is not spoilt, and the counter runs for a timer when the system is
\* on.  A power-down and a boot know the timer that ends the sleep, and a boot
\* that is not after an external signal comes after the sleep's end.
PowerOK ==
    /\ power # "lost"
    /\ power = "on" => (mcnt = Stopped <=> cur = NoId)
    /\ power # "on" => mcnt = Stopped
    /\ power = "sleep" => EndsSleep
    /\ power = "boot" => EndsSleep \/ Received
    /\ power = "tim" => Received
    /\ power = "boot" /\ source # "ext" => target <= 0

\* A clock takes a microsecond at least.
FineClock == Den <= Num

\* The inductive invariant of a list that is not spoilt: the pointers are a list
\* of the timers in use, which shows the times between them.
TInv == TypeOK /\ PowerOK /\ \E s, n, sum : Shows(s, n, sum)

\* Stopped is no number of clocks, and the lengths are numbers.
LEMMA Numbers ==
    /\ Stopped \notin Nat /\ Num \in Nat \ {0} /\ Den \in Nat \ {0}
    /\ Slice \in Nat /\ MinSleep \in Nat /\ MaxIsr \in Nat /\ MaxBoot \in Nat
    /\ NoId \notin Id /\ Times \subseteq Nat
    /\ Beacon \subseteq Id
  BY RtcLimits DEF Stopped, Beacon

\* No times are apart in an empty list.
LEMMA EmptyList ==
    ASSUME NEW nx \in [Id -> Id \cup {NoId}], NEW tm
    PROVE  \E s, n, sum : IsList(s, n, {}, nx, NoId) /\ Apart({}, nx, tm, sum)
<1> DEFINE s == [k \in 0 .. 0 - 1 |-> 0]
           sum == [j \in Id |-> 0]
<1>0. 0 .. 0 - 1 = {}
  OBVIOUS
<1>1. s \in [0 .. 0 - 1 -> Id]
  BY <1>0
<1>2. IsList(s, 0, {}, nx, NoId)
  <2> HIDE DEF s
  <2> QED
    BY <1>0, <1>1 DEF IsList
<1>3. Apart({}, nx, tm, sum)
  BY DEF Apart
<1> QED
  BY <1>2, <1>3

\* With no timer in use the list is empty.
LEMMA EmptyShows ==
    ASSUME next \in [Id -> Id \cup {NoId}], Used = {}, cur = NoId
    PROVE  \E s, n, sum : Shows(s, n, sum)
<1>1. PICK s, n, sum : IsList(s, n, {}, next, NoId) /\ Apart({}, next, time, sum)
  BY EmptyList
<1> QED
  BY <1>1 DEF Shows

\* At power-on there is no timer.
LEMMA TInit == Init => TInv
<1> SUFFICES ASSUME Init PROVE TInv
  OBVIOUS
<1>1. TypeOK
  <2>1. using \in [Id -> BOOLEAN] /\ hTimer \in BOOLEAN /\ boot_tim \in BOOLEAN
    BY DEF Init, Nothing
  <2>2. 0 >= -MaxBoot
    BY Numbers
  <2> QED
    BY <2>1, <2>2, Numbers DEF Init, Nothing, TypeOK
<1>2. PowerOK
  BY DEF Init, Nothing, PowerOK
<1>3. Used = {} /\ cur = NoId
  BY DEF Init, Nothing, Used
<1> QED
  BY <1>1, <1>2, <1>3, EmptyShows DEF TInv, TypeOK

-----------------------------------------------------------------------------
(* A timer is set.                                                         *)

\* A list l with the timer i at the time t and the others at A.
Added(l, i, t, A, z, m) ==
    /\ Joined(l, [using EXCEPT ![i] = TRUE], Used, i, cur, z, m, A)
    /\ A[i] = t

\* What Insert does after the list's times have been brought up to date.
LEMMA InsertAdds ==
    ASSUME TypeOK, NEW s, NEW n, NEW i \in Id, ~using[i], NEW t \in Nat,
           NEW nx, NEW tm \in [Id -> Nat], NEW sum,
           IsList(s, n, Used, nx, cur), Apart(Used, nx, tm, sum),
           nx[i] = NoId, tm[i] = t, cur # NoId => sum[cur] = tm[cur]
    PROVE  \E A, z, m :
             /\ Added(Insert(L([using EXCEPT ![i] = TRUE], nx, tm, cur), i), i, t, A, z, m)
             /\ \A j \in Used : A[j] = sum[j]
<1> DEFINE us == [using EXCEPT ![i] = TRUE]
           U == Used
           A == [sum EXCEPT ![i] = tm[i]]
<1>0. using \in [Id -> BOOLEAN] /\ i \notin U /\ U \subseteq Id
  BY DEF TypeOK, Used
<1>1. us \in [Id -> BOOLEAN] /\ U \cup {i} = {j \in Id : us[j]}
  BY <1>0 DEF Used
<1>2. sum \in [Id -> Int]
  BY DEF Apart
<1> HIDE DEF us, U
<1>3. PICK z, m : Joined(Insert(L(us, nx, tm, cur), i), us, U, i, cur, z, m, A)
  <2>1. IsList(s, n, U, nx, cur) /\ Apart(U, nx, tm, sum)
    BY DEF U
  <2> QED
    BY <1>0, <1>1, <2>1, InsertIs
<1>4. A[i] = t /\ \A j \in U : A[j] = sum[j]
  BY <1>0, <1>2
<1> HIDE DEF A
<1> QED
  BY <1>3, <1>4 DEF Added, us, U

\* A timer that is set while the counter runs: it is as far away as it should
\* be, and the others are where the counter says.
LEMMA AddedOn ==
    ASSUME TypeOK, PowerOK, power = "on", NEW s, NEW n, NEW sum, Shows(s, n, sum),
           NEW i \in Id, NEW t \in Times, ~using[i]
    PROVE  \E A, z, m :
             /\ Added(Insert(Counted(Alloc(i, t)), i), i, t, A, z, m)
             /\ \A j \in Used : A[j] = CLK2US(mcnt) + (sum[j] - sum[cur])
<1> DEFINE us == [using EXCEPT ![i] = TRUE]
           nx == [next EXCEPT ![i] = NoId]
           tm == [time EXCEPT ![i] = t]
           h == CLK2US(mcnt)
           tm2 == IF cur = NoId THEN tm ELSE [tm EXCEPT ![cur] = h]
           l == Alloc(i, t)
<1>0. /\ next \in [Id -> Id \cup {NoId}] /\ time \in [Id -> Nat] /\ t \in Nat
      /\ NoId \notin Id /\ i \notin Used /\ Used \subseteq Id /\ cur \in Id \cup {NoId}
  BY Numbers DEF TypeOK, Used
<1>1. cur # NoId => mcnt # Stopped /\ mcnt \in Nat /\ h \in Nat
  <2>1. cur # NoId => mcnt # Stopped /\ mcnt \in Nat
    BY DEF PowerOK, TypeOK
  <2> QED
    BY <2>1, CLK2USRounds
<1>2. /\ IsList(s, n, Used, next, cur) /\ Apart(Used, next, time, sum)
  BY DEF Shows
<1>3. cur # NoId => cur \in Used
  BY <1>2, ListMembers
<1> HIDE DEF h
<1>4. nx \in [Id -> Id \cup {NoId}] /\ tm \in [Id -> Nat] /\ tm2 \in [Id -> Nat]
      /\ nx[i] = NoId /\ tm2[i] = t /\ \A j \in Used : nx[j] = next[j]
  BY <1>0, <1>1, <1>3
<1>5. \A j \in Used \ {cur} : tm2[j] = time[j]
  BY <1>0, <1>1
<1>6. Counted(l) = L(us, nx, tm2, cur)
  <2>1. l = L(us, nx, tm, cur)
    BY DEF Alloc
  <2>2. l.cur = cur
    BY <2>1 DEF L
  <2>3. CASE cur = NoId
    BY <2>1, <2>2, <2>3 DEF Counted
  <2>4. CASE cur # NoId
    <3>1. Counted(l) = [l EXCEPT !.time[cur] = h]
      <4> HIDE DEF l
      <4> QED
        BY <1>1, <2>2, <2>4 DEF Counted, h
    <3>2. [L(us, nx, tm, cur) EXCEPT !.time[cur] = h]
            = L(us, nx, [tm EXCEPT ![cur] = h], cur)
      <4> HIDE DEF us, nx, tm
      <4> QED
        BY DEF L
    <3> HIDE DEF us, nx, tm, l
    <3> QED
      BY <2>1, <2>4, <3>1, <3>2
  <2> QED
    BY <2>3, <2>4
<1> HIDE DEF us, nx, tm, tm2, l
<1>7. CASE cur = NoId
  <2>1. Used = {}
    BY <1>2, <1>7, ListMembers
  <2>2. IsList(s, n, Used, nx, cur) /\ Apart(Used, nx, tm2, sum)
    <3>1. IsList(s, n, Used, nx, cur)
      BY <1>2, <1>4, ListFrame
    <3> QED
      BY <1>2, <2>1, <3>1 DEF Apart
  <2>3. PICK A, z, m : Added(Insert(L(us, nx, tm2, cur), i), i, t, A, z, m)
    BY <1>0, <1>4, <1>7, <2>2, InsertAdds DEF us
  <2> QED
    BY <1>6, <2>1, <2>3 DEF l
<1>8. CASE cur # NoId
  <2> DEFINE sum2 == [j \in Id |-> sum[j] - sum[cur] + tm2[cur]]
  <2>1. tm2[cur] = h /\ h \in Nat /\ cur \in Id /\ sum \in [Id -> Int]
    BY <1>0, <1>1, <1>2, <1>3, <1>8 DEF tm2, tm, Apart
  <2>2. IsList(s, n, Used, nx, cur) /\ Apart(Used, nx, tm2, sum2) /\ sum2[cur] = tm2[cur]
    <3> HIDE DEF sum2
    <3> QED
      BY <1>0, <1>2, <1>4, <1>5, <1>8, Recounted DEF sum2
  <2>3. \A j \in Used : sum2[j] = h + (sum[j] - sum[cur])
    BY <1>0, <2>1
  <2> HIDE DEF sum2
  <2>4. PICK A, z, m : Added(Insert(L(us, nx, tm2, cur), i), i, t, A, z, m)
                       /\ \A j \in Used : A[j] = sum2[j]
    BY <1>0, <1>4, <2>2, InsertAdds DEF us
  <2> QED
    BY <1>6, <2>3, <2>4 DEF l, h
<1> QED
  BY <1>7, <1>8

\* What a gap leaves of the times is no more than they were.
LEMMA DeductedLess ==
    ASSUME NEW s, NEW n, NEW U, NEW nx, NEW c, IsList(s, n, U, nx, c),
           NEW tm \in [Id -> Nat], NEW gap, NEW g, NEW tm2,
           Deducted(s, n, tm, gap, g, tm2)
    PROVE  \A j \in Id : tm2[j] <= tm[j]
<1> SUFFICES ASSUME NEW j \in Id PROVE tm2[j] <= tm[j]
  OBVIOUS
<1>0. n \in Nat /\ tm2 \in [Id -> Nat]
  BY DEF IsList, Deducted
<1>1. CASE \A k \in 0 .. n - 1 : s[k] # j
  <2>1. tm2[j] = tm[j]
    BY <1>1 DEF Deducted
  <2> QED
    BY <2>1
<1>2. CASE \E k \in 0 .. n - 1 : s[k] = j
  <2>1. PICK k \in 0 .. n - 1 : s[k] = j
    BY <1>2
  <2>2. tm2[j] = Less(tm[j], g[k]) /\ g[k] \in Nat
    BY <1>0, <2>1 DEF Deducted
  <2> QED
    BY <2>2, LeavesNat
<1> QED
  BY <1>1, <1>2

\* The times of a list after a gap has been subtracted.
LEMMA DeductedApart ==
    ASSUME NEW s, NEW n, NEW U, NEW nx, NEW c, IsList(s, n, U, nx, c), c # NoId,
           NEW tm \in [Id -> Nat], NEW sum, Apart(U, nx, tm, sum),
           NEW tm2 \in [Id -> Nat], \A j \in U : tm2[j] <= tm[j]
    PROVE  \E B : /\ Apart(U, nx, tm2, B) /\ B[c] = tm2[c]
                  /\ \A j \in U : B[j] - B[c] <= sum[j] - sum[c]
<1>1. U \subseteq Id /\ \A j \in U : nx[j] \in U \cup {NoId}
  BY ListMembers
<1>2. AtLeastApart(U, nx, tm2, sum)
  <2>1. sum \in [Id -> Int]
    BY DEF Apart
  <2>2. ASSUME NEW j \in U, nx[j] # NoId PROVE sum[nx[j]] >= sum[j] + tm2[nx[j]]
    <3>1. sum[nx[j]] = sum[j] + tm[nx[j]] /\ tm2[nx[j]] <= tm[nx[j]]
      BY <1>1, <2>2 DEF Apart
    <3>2. {sum[nx[j]], sum[j], tm[nx[j]], tm2[nx[j]]} \subseteq Int
      BY <1>1, <2>1, <2>2
    <3> QED
      BY <3>1, <3>2
  <2> QED
    BY <2>1, <2>2 DEF AtLeastApart
<1>3. tm2 \in [Id -> Int]
  OBVIOUS
<1> QED
  BY <1>2, <1>3, SumsTighten

\* What a power-down after a beacon subtracts.
BootGap == CLK2US(get_remain_counter + 2)

\* A timer that is set after a beacon: the boot's time is subtracted first.
LEMMA AddedTim ==
    ASSUME TypeOK, PowerOK, power = "tim", NEW s, NEW n, NEW sum, Shows(s, n, sum),
           NEW i \in Id, NEW t \in Times, ~using[i]
    PROVE  \E A, z, m, g, tm2 :
             /\ Added(Insert(Gapped(Counted(Alloc(i, t))), i), i, t, A, z, m)
             /\ cur # NoId =>
                  /\ Deducted(s, n, [time EXCEPT ![i] = t], BootGap, g, tm2)
                  /\ Apart(Used, next, tm2, A) /\ A[cur] = tm2[cur]
                  /\ \A j \in Used : A[j] <= time[cur] + (sum[j] - sum[cur])
<1> DEFINE us == [using EXCEPT ![i] = TRUE]
           nx == [next EXCEPT ![i] = NoId]
           tm == [time EXCEPT ![i] = t]
           l == Counted(Alloc(i, t))
<1>0. /\ next \in [Id -> Id \cup {NoId}] /\ time \in [Id -> Nat] /\ t \in Nat
      /\ NoId \notin Id /\ i \notin Used /\ Used \subseteq Id /\ cur \in Id \cup {NoId}
      /\ mcnt = Stopped /\ target \in Int
  BY Numbers DEF TypeOK, PowerOK, Used
<1>1. l = L(us, nx, tm, cur)
  BY <1>0 DEF Counted, Alloc
<1>2. IsList(s, n, Used, next, cur) /\ Apart(Used, next, time, sum) /\ sum \in [Id -> Int]
  BY DEF Shows, Apart
<1>4. nx \in [Id -> Id \cup {NoId}] /\ tm \in [Id -> Nat]
      /\ nx[i] = NoId /\ tm[i] = t /\ \A j \in Used : nx[j] = next[j] /\ tm[j] = time[j]
  BY <1>0
<1>5. IsList(s, n, Used, nx, cur)
  BY <1>2, <1>4, ListFrame
<1>6. l.cur = cur
  <2> HIDE DEF l, us, nx, tm
  <2> QED
    BY <1>1 DEF L
<1>7. CASE cur = NoId
  <2>1. Used = {}
    BY <1>2, <1>7, ListMembers
  <2>2. Apart(Used, nx, tm, sum)
    BY <1>2, <2>1 DEF Apart
  <2> HIDE DEF us, nx, tm, l
  <2>3. PICK A, z, m : Added(Insert(L(us, nx, tm, cur), i), i, t, A, z, m)
    BY <1>0, <1>4, <1>5, <1>7, <2>2, InsertAdds DEF us
  <2>4. Gapped(l) = l
    BY <1>6, <1>7 DEF Gapped
  <2> QED
    BY <1>1, <1>7, <2>3, <2>4 DEF l
<1>8. CASE cur # NoId
  <2>1. BootGap \in Nat
    <3>1. get_remain_counter + 2 \in Nat
      BY <1>0 DEF get_remain_counter, Abs
    <3> QED
      BY <3>1, CLK2USRounds DEF BootGap
  <2>2. Gapped(l) = Deduct(L(us, nx, tm, cur), cur, BootGap)
    <3> HIDE DEF us, nx, tm, l
    <3> QED
      BY <1>1, <1>6, <1>8 DEF Gapped, BootGap
  <2> HIDE DEF us, nx, tm, l
  <2>3. PICK g, tm2 : /\ Deduct(L(us, nx, tm, cur), cur, BootGap) = L(us, nx, tm2, cur)
                      /\ Deducted(s, n, tm, BootGap, g, tm2)
    BY <1>4, <1>5, <2>1, DeductIs
  <2>4. tm2 \in [Id -> Nat] /\ \A j \in Id : tm2[j] <= tm[j]
    <3>1. tm2 \in [Id -> Nat]
      BY <2>3 DEF Deducted
    <3>2. \A j \in Id : tm2[j] <= tm[j]
      BY <1>4, <1>5, <2>3, DeductedLess
    <3> QED
      BY <3>1, <3>2
  <2>5. tm2[i] = t
    <3>1. \A k \in 0 .. n - 1 : s[k] # i
      BY <1>0, <1>5 DEF IsList
    <3> QED
      BY <1>4, <2>3, <3>1 DEF Deducted
  <2>6. PICK B : /\ Apart(Used, next, tm2, B) /\ B[cur] = tm2[cur]
                 /\ \A j \in Used : B[j] - B[cur] <= sum[j] - sum[cur]
    <3>1. \A j \in Used : tm2[j] <= time[j]
      BY <1>0, <1>4, <2>4
    <3> QED
      BY <1>0, <1>2, <1>8, <2>4, <3>1, DeductedApart
  <2>7. Apart(Used, nx, tm2, B)
    BY <1>4, <2>6 DEF Apart
  <2>8. PICK A, z, m : /\ Added(Insert(L(us, nx, tm2, cur), i), i, t, A, z, m)
                       /\ \A j \in Used : A[j] = B[j]
    <3>1. t \in Nat /\ tm2 \in [Id -> Nat] /\ nx[i] = NoId /\ B[cur] = tm2[cur]
      BY <1>0, <1>4, <2>4, <2>6
    <3> QED
      BY <1>5, <2>5, <2>7, <3>1, InsertAdds DEF us
  <2>9. cur \in Used /\ \A j \in Used : next[j] \in Used \cup {NoId}
    BY <1>2, <1>8, ListMembers
  <2>10. Apart(Used, next, tm2, A) /\ A[cur] = tm2[cur]
    <3>1. A \in [Id -> Int]
      BY <2>8 DEF Added, Joined, Apart
    <3> QED
      BY <2>6, <2>8, <2>9, <3>1 DEF Apart
  <2>11. ASSUME NEW j \in Used PROVE A[j] <= time[cur] + (sum[j] - sum[cur])
    <3>1. A[j] = B[j] /\ B[j] - B[cur] <= sum[j] - sum[cur] /\ B[cur] = tm2[cur]
          /\ tm2[cur] <= time[cur]
      BY <1>0, <1>4, <2>4, <2>6, <2>8, <2>9
    <3>2. {B[j], B[cur], sum[j], sum[cur], time[cur]} \subseteq Int
      BY <1>0, <1>2, <2>6, <2>9 DEF Apart
    <3> QED
      BY <3>1, <3>2
  <2> QED
    BY <1>1, <2>2, <2>3, <2>8, <2>10, <2>11 DEF l, tm
<1> QED
  BY <1>7, <1>8

\* The list after a timer has been set has its types.
LEMMA AddedTyped ==
    ASSUME TypeOK, NEW i \in Id, NEW t, NEW l, NEW A, NEW z, NEW m,
           Added(l, i, t, A, z, m), Update(l)
    PROVE  /\ using' \in [Id -> BOOLEAN] /\ next' \in [Id -> Id \cup {NoId}]
           /\ time' \in [Id -> Nat] /\ cur' \in Id /\ cur' = l.cur
           /\ Used' = Used \cup {i} /\ Shows(z, m, A)' /\ A[cur'] = time'[cur']
           /\ time'[cur'] \in Nat
<1>1. using' = [using EXCEPT ![i] = TRUE] /\ next' = l.next /\ time' = l.time /\ cur' = l.cur
  <2>1. l.using = [using EXCEPT ![i] = TRUE]
    BY DEF Added, Joined, L
  <2> QED
    BY <2>1 DEF Update
<1>2. Used' = Used \cup {i} /\ using' \in [Id -> BOOLEAN]
  BY <1>1 DEF TypeOK, Used
<1>3. IsList(z, m, Used \cup {i}, next', cur') /\ Apart(Used \cup {i}, next', time', A)
  BY <1>1 DEF Added, Joined
<1>4. next' \in [Id -> Id \cup {NoId}]
  BY <1>3 DEF IsList
<1>5. time' \in [Id -> Nat] /\ cur' \in {i, cur} /\ cur' # NoId /\ A[cur'] = time'[cur']
  BY <1>1 DEF Added, Joined
<1>6. cur' \in Id
  BY <1>5 DEF TypeOK
<1> QED
  BY <1>1, <1>2, <1>3, <1>4, <1>5, <1>6 DEF Shows

\* DA16X_SET_TIMER keeps the invariant.
LEMMA SetTimerStep ==
    ASSUME TInv, NEW i \in Id, NEW t \in Times, DA16X_SET_TIMER(i, t)
    PROVE  TInv'
<1>0. TypeOK /\ PowerOK /\ power = "on" /\ ~using[i]
  BY DEF TInv, DA16X_SET_TIMER, Awake
<1>1. PICK s, n, sum : Shows(s, n, sum)
  BY DEF TInv
<1> DEFINE l == Insert(Counted(Alloc(i, t)), i)
<1>2. PICK A, z, m : Added(l, i, t, A, z, m)
                     /\ \A j \in Used : A[j] = CLK2US(mcnt) + (sum[j] - sum[cur])
  BY <1>0, <1>1, AddedOn
<1>3. /\ Update(l) /\ hTimer' = TRUE /\ mcnt' = US2CLK(l.time[l.cur]) /\ called' = {}
      /\ UNCHANGED <<power, source, target, wakeup_id, boot_tim>>
  BY DEF DA16X_SET_TIMER
<1> HIDE DEF l
<1>4. /\ using' \in [Id -> BOOLEAN] /\ next' \in [Id -> Id \cup {NoId}]
      /\ time' \in [Id -> Nat] /\ cur' \in Id /\ cur' = l.cur
      /\ Used' = Used \cup {i} /\ Shows(z, m, A)' /\ A[cur'] = time'[cur']
      /\ time'[cur'] \in Nat
  BY <1>0, <1>2, <1>3, AddedTyped
<1>5. mcnt' = US2CLK(time'[cur']) /\ mcnt' \in Nat /\ mcnt' * Num <= A[cur'] * Den
  <2>1. mcnt' = US2CLK(time'[cur'])
    BY <1>3 DEF Update
  <2> QED
    BY <1>4, <2>1, US2CLKRounds
<1>6. TypeOK'
  BY <1>0, <1>3, <1>4, <1>5 DEF TypeOK
<1>7. PowerOK'
  BY <1>0, <1>3, <1>4, <1>5, Numbers DEF PowerOK
<1> QED
  BY <1>4, <1>6, <1>7 DEF TInv

\* The first timer's own time is in no distance.
LEMMA ApartFirst ==
    ASSUME NEW s, NEW n, NEW U, NEW nx, NEW c, IsList(s, n, U, nx, c),
           NEW tm, NEW sum, Apart(U, nx, tm, sum),
           NEW tm2, \A j \in U \ {c} : tm2[j] = tm[j]
    PROVE  Apart(U, nx, tm2, sum)
<1>1. \A j \in U : nx[j] \in U \cup {NoId} /\ nx[j] # c
  BY ListMembers
<1> QED
  BY <1>1 DEF Apart

\* The sleep is as long as the first timer's time, and not too short.
LEMMA AtLeastNat ==
    ASSUME NEW t \in Nat
    PROVE  AtLeast(t) \in Nat /\ AtLeast(t) >= t /\ AtLeast(t) >= MinSleep
           /\ AtLeast(t) \in {t, MinSleep}
  BY Numbers DEF AtLeast

\* The list that a sleep begins with: the times A from now on, in which the
\* first one may have grown to the shortest sleep.
LEMMA WakeupAdds ==
    ASSUME TypeOK, PowerOK, NEW s, NEW n, NEW sum, Shows(s, n, sum),
           NEW i \in Id, NEW t \in Times, DA16X_SET_WAKEUP_TIMER(i, t)
    PROVE  \E A, z, m, g, tm2 :
             /\ Added(Insert(Gapped(Counted(Alloc(i, t))), i), i, t, A, z, m)
             /\ power = "on" => \A j \in Used : A[j] = CLK2US(mcnt) + (sum[j] - sum[cur])
             /\ power # "on" =>
                  /\ power = "tim"
                  /\ cur # NoId =>
                     /\ Deducted(s, n, [time EXCEPT ![i] = t], BootGap, g, tm2)
                     /\ Apart(Used, next, tm2, A) /\ A[cur] = tm2[cur]
                     /\ \A j \in Used : A[j] <= time[cur] + (sum[j] - sum[cur])
<1>1. ~using[i] /\ (power = "on" \/ power = "tim")
  BY DEF DA16X_SET_WAKEUP_TIMER, Awake
<1>2. CASE power = "on"
  <2>1. Gapped(Counted(Alloc(i, t))) = Counted(Alloc(i, t))
    BY <1>2 DEF Gapped
  <2>2. PICK A, z, m :
             /\ Added(Insert(Counted(Alloc(i, t)), i), i, t, A, z, m)
             /\ \A j \in Used : A[j] = CLK2US(mcnt) + (sum[j] - sum[cur])
    BY <1>1, <1>2, AddedOn
  <2> QED
    BY <1>2, <2>1, <2>2
<1>3. CASE power = "tim"
  <2>1. PICK A, z, m, g, tm2 :
             /\ Added(Insert(Gapped(Counted(Alloc(i, t))), i), i, t, A, z, m)
             /\ cur # NoId =>
                  /\ Deducted(s, n, [time EXCEPT ![i] = t], BootGap, g, tm2)
                  /\ Apart(Used, next, tm2, A) /\ A[cur] = tm2[cur]
                  /\ \A j \in Used : A[j] <= time[cur] + (sum[j] - sum[cur])
    BY <1>1, <1>3, AddedTim
  <2> QED
    BY <1>3, <2>1
<1> QED
  BY <1>1, <1>2, <1>3

\* The state in which a sleep begins.
LEMMA WakeupSleeps ==
    ASSUME TypeOK, NEW i \in Id, NEW t, DA16X_SET_WAKEUP_TIMER(i, t),
           NEW A, NEW z, NEW m,
           Added(Insert(Gapped(Counted(Alloc(i, t))), i), i, t, A, z, m)
    PROVE  /\ using' = [using EXCEPT ![i] = TRUE] /\ using' \in [Id -> BOOLEAN]
           /\ next' \in [Id -> Id \cup {NoId}]
           /\ time' \in [Id -> Nat] /\ cur' \in Id /\ cur' # NoId
           /\ Used' = Used \cup {i} /\ Shows(z, m, A)'
           /\ A[cur'] \in Nat /\ time'[cur'] = AtLeast(A[cur'])
           /\ cur' = Insert(Gapped(Counted(Alloc(i, t))), i).cur
           /\ cur' \in {i, cur}
           /\ target' = US2CLK(AtLeast(A[cur'])) /\ wakeup_id' = cur'
           /\ power' = "sleep" /\ mcnt' = Stopped /\ hTimer' = FALSE
           /\ boot_tim' = (boot_tim \/ i \in Beacon) /\ called' = {} /\ source' = source
<1> DEFINE l == Insert(Gapped(Counted(Alloc(i, t))), i)
<1>1. /\ Update([l EXCEPT !.time[l.cur] = AtLeast(@)])
      /\ boot_tim' = (boot_tim \/ i \in Beacon)
      /\ power' = "sleep"
      /\ target' = US2CLK(AtLeast(l.time[l.cur])) /\ wakeup_id' = l.cur
      /\ mcnt' = Stopped /\ hTimer' = FALSE
      /\ called' = {} /\ source' = source
  BY DEF DA16X_SET_WAKEUP_TIMER
<1>2. Added(l, i, t, A, z, m)
  OBVIOUS
<1> HIDE DEF l
<1> DEFINE us == [using EXCEPT ![i] = TRUE]
           c == l.cur
           tm == [l.time EXCEPT ![c] = AtLeast(l.time[c])]
<1>3. l = L(us, l.next, l.time, c)
  BY <1>2 DEF Added, Joined
<1>4. [l EXCEPT !.time[c] = AtLeast(@)] = L(us, l.next, tm, c)
  <2> DEFINE nx1 == l.next
             tm1 == l.time
             c1 == l.cur
  <2>1. l = L(us, nx1, tm1, c1)
    BY <1>3
  <2> HIDE DEF nx1, tm1, c1, us
  <2>2. [L(us, nx1, tm1, c1) EXCEPT !.time[c1] = AtLeast(@)]
          = L(us, nx1, [tm1 EXCEPT ![c1] = AtLeast(tm1[c1])], c1)
    BY DEF L
  <2> QED
    BY <2>1, <2>2 DEF nx1, tm1, c1
<1>5. using' = us /\ next' = l.next /\ time' = tm /\ cur' = c
  <2> DEFINE l2 == L(us, l.next, tm, c)
  <2>1. l2.using = us /\ l2.next = l.next /\ l2.time = tm /\ l2.cur = c
    BY DEF L
  <2> HIDE DEF l2
  <2>2. Update(l2)
    BY <1>1, <1>4 DEF l2
  <2> QED
    BY <2>1, <2>2 DEF Update
<1>6. /\ IsList(z, m, Used \cup {i}, l.next, c) /\ l.time \in [Id -> Nat]
      /\ Apart(Used \cup {i}, l.next, l.time, A)
      /\ c \in {i, cur} /\ c # NoId /\ A[c] = l.time[c]
  BY <1>2 DEF Added, Joined
<1>7. c \in Id /\ A[c] \in Nat /\ AtLeast(l.time[c]) \in Nat
  <2>1. c \in Id
    BY <1>6 DEF TypeOK
  <2> QED
    BY <1>6, <2>1, AtLeastNat
<1>8. tm \in [Id -> Nat] /\ tm[c] = AtLeast(A[c]) /\ \A j \in Id \ {c} : tm[j] = l.time[j]
  BY <1>6, <1>7
<1>9. Used' = Used \cup {i} /\ using' \in [Id -> BOOLEAN]
  BY <1>5 DEF TypeOK, Used
<1> HIDE DEF tm, us, c
<1>10. Apart(Used \cup {i}, l.next, tm, A)
  <2>1. \A j \in (Used \cup {i}) \ {c} : tm[j] = l.time[j]
    BY <1>8 DEF Used
  <2> QED
    BY <1>6, <2>1, ApartFirst
<1>11. next' \in [Id -> Id \cup {NoId}]
  BY <1>5, <1>6 DEF IsList
<1>12. Shows(z, m, A)'
  BY <1>5, <1>6, <1>9, <1>10 DEF Shows
<1> QED
  BY <1>1, <1>5, <1>6, <1>7, <1>8, <1>9, <1>11, <1>12 DEF c, l, us

\* DA16X_SET_WAKEUP_TIMER keeps the invariant.
LEMMA SetWakeupStep ==
    ASSUME TInv, NEW i \in Id, NEW t \in Times, DA16X_SET_WAKEUP_TIMER(i, t)
    PROVE  TInv'
<1>0. TypeOK /\ PowerOK
  BY DEF TInv
<1>1. PICK s, n, sum : Shows(s, n, sum)
  BY DEF TInv
<1> DEFINE l == Insert(Gapped(Counted(Alloc(i, t))), i)
<1>2. PICK A, z, m, g, tm2 :
             /\ Added(l, i, t, A, z, m)
             /\ power = "on" => \A j \in Used : A[j] = CLK2US(mcnt) + (sum[j] - sum[cur])
             /\ power # "on" =>
                  /\ power = "tim"
                  /\ cur # NoId =>
                     /\ Deducted(s, n, [time EXCEPT ![i] = t], BootGap, g, tm2)
                     /\ Apart(Used, next, tm2, A) /\ A[cur] = tm2[cur]
                     /\ \A j \in Used : A[j] <= time[cur] + (sum[j] - sum[cur])
  BY <1>0, <1>1, WakeupAdds
<1>3. /\ using' \in [Id -> BOOLEAN] /\ next' \in [Id -> Id \cup {NoId}]
      /\ time' \in [Id -> Nat] /\ cur' \in Id /\ cur' # NoId
      /\ Used' = Used \cup {i} /\ Shows(z, m, A)'
      /\ A[cur'] \in Nat /\ cur' = l.cur
      /\ target' = US2CLK(AtLeast(A[cur'])) /\ wakeup_id' = cur'
      /\ power' = "sleep" /\ mcnt' = Stopped /\ hTimer' = FALSE
      /\ boot_tim' = (boot_tim \/ i \in Beacon) /\ called' = {} /\ source' = source
  BY <1>0, <1>2, WakeupSleeps
<1> HIDE DEF l
<1>4. target' \in Nat /\ target' * Num <= AtLeast(A[cur']) * Den
      /\ AtLeast(A[cur']) \in {A[cur'], MinSleep}
  BY <1>3, AtLeastNat, US2CLKRounds
<1>5. TypeOK'
  <2>1. target' \in Int /\ target' >= -MaxBoot
    BY <1>4, Numbers
  <2>2. boot_tim' \in BOOLEAN
    BY <1>0, <1>3, Zenon DEF TypeOK
  <2>3. mcnt' \in Nat \cup {Stopped} /\ hTimer' \in BOOLEAN /\ called' \subseteq Id
        /\ cur' \in Id \cup {NoId} /\ wakeup_id' \in Id \cup {NoId}
    BY <1>3
  <2>4. source' \in {"none", "counter", "both", "ext"}
    BY <1>0, <1>3 DEF TypeOK
  <2> QED
    BY <1>3, <2>1, <2>2, <2>3, <2>4, Zenon DEF TypeOK
<1>6. PowerOK'
  BY <1>3 DEF PowerOK, EndsSleep
<1> QED
  BY <1>3, <1>5, <1>6 DEF TInv

\* A step that leaves the list alone leaves its description alone.
LEMMA SameShows ==
    ASSUME NEW s, NEW n, NEW sum, Shows(s, n, sum), UNCHANGED list
    PROVE  Shows(s, n, sum)' /\ Used' = Used
  BY DEF Shows, Used, list

\* A clock is counted by the counter that runs.
LEMMA TickStep == ASSUME TInv, Tick PROVE TInv'
<1>0. TypeOK /\ PowerOK /\ UNCHANGED list
      /\ UNCHANGED <<hTimer, power, wakeup_id, boot_tim>> /\ called' = {}
  BY DEF TInv, Tick
<1>1. PICK s, n, sum : Shows(s, n, sum)
  BY DEF TInv
<1>2. Shows(s, n, sum)'
  BY <1>0, <1>1, SameShows
<1>3. UNCHANGED <<using, next, time, cur>>
  BY <1>0 DEF list
<1>4. CASE /\ power = "on" /\ mcnt > 0 /\ mcnt' = mcnt - 1
           /\ UNCHANGED <<target, source>>
  <2>1. mcnt \in Nat /\ mcnt' \in Nat /\ mcnt' # Stopped /\ mcnt # Stopped
    BY <1>0, <1>4, Numbers DEF TypeOK, Stopped
  <2>2. TypeOK'
    BY <1>0, <1>3, <1>4, <2>1 DEF TypeOK
  <2>3. PowerOK'
    BY <1>0, <1>3, <1>4, <2>1 DEF PowerOK
  <2> QED
    BY <1>2, <2>2, <2>3 DEF TInv
<1>5. CASE /\ power \in {"sleep", "boot", "tim"}
           /\ target > IF power = "sleep" THEN 0 ELSE -MaxBoot
           /\ target' = target - 1 /\ mcnt' = mcnt
           /\ \/ source' = source
              \/ power = "boot" /\ source = "ext" /\ target = 1 /\ source' = "both"
  <2>1. target \in Int /\ target' \in Int /\ target' <= target /\ target' >= -MaxBoot
    BY <1>0, <1>5, Numbers DEF TypeOK
  <2>2. TypeOK'
    BY <1>0, <1>3, <1>5, <2>1 DEF TypeOK
  <2>3. Received => Received'
    BY <1>0, <1>3, <1>5, <2>1 DEF Received
  <2>4. power = "boot" /\ source' # "ext" => target' <= 0
    BY <1>0, <1>5, <2>1 DEF PowerOK
  <2>5. PowerOK'
    BY <1>0, <1>3, <1>5, <2>3, <2>4 DEF PowerOK, EndsSleep
  <2> QED
    BY <1>2, <2>2, <2>5 DEF TInv
<1> QED
  BY <1>4, <1>5 DEF Tick

\* The end of a sleep, and the full boot after a beacon, move no timer.
LEMMA BootStep ==
    ASSUME TInv, (\E ext \in BOOLEAN : Wakeup(ext)) \/ FullBoot PROVE TInv'
<1>0. /\ TypeOK /\ PowerOK /\ UNCHANGED <<using, next, time, cur>>
      /\ UNCHANGED <<hTimer, mcnt, target, wakeup_id, boot_tim>> /\ called' = {}
      /\ power' = "boot" /\ power \in {"sleep", "tim"}
  BY DEF TInv, Wakeup, FullBoot, list
<1>1. PICK s, n, sum : Shows(s, n, sum)
  BY DEF TInv
<1>2. Shows(s, n, sum)'
  BY <1>0, <1>1 DEF Shows, Used
<1>3. source' \in {"none", "counter", "both", "ext"}
      /\ (source' # "ext" => target <= 0 \/ FullBoot)
  BY <1>0 DEF Wakeup, FullBoot, TypeOK
<1>4. TypeOK'
  BY <1>0, <1>3 DEF TypeOK
<1>5. source' # "ext" => target' <= 0
  BY <1>0, <1>3 DEF FullBoot, PowerOK, Received
<1>6. PowerOK'
  BY <1>0, <1>5 DEF PowerOK, EndsSleep, Received
<1> QED
  BY <1>2, <1>4, <1>6 DEF TInv

\* Nothing is in the list after a reset.
LEMMA ResetStep == ASSUME SchedulerReset PROVE TInv'
<1>1. Used' = {}
  BY DEF SchedulerReset, Used
<1>2. TypeOK'
  <2>1. using' \in [Id -> BOOLEAN] /\ hTimer' \in BOOLEAN /\ boot_tim' \in BOOLEAN
    BY DEF SchedulerReset
  <2>2. 0 >= -MaxBoot
    BY Numbers
  <2> QED
    BY <2>1, <2>2, Numbers DEF SchedulerReset, TypeOK
<1>3. PowerOK'
  BY DEF SchedulerReset, PowerOK
<1>4. (\E s, n, sum : Shows(s, n, sum))'
  <2>1. PICK s, n, sum : IsList(s, n, {}, next', NoId) /\ Apart({}, next', time', sum)
    BY <1>2, EmptyList DEF TypeOK
  <2>2. cur' = NoId
    BY DEF SchedulerReset
  <2>3. Shows(s, n, sum)'
    BY <1>1, <2>1, <2>2 DEF Shows
  <2> QED
    BY <2>3
<1> QED
  BY <1>2, <1>3, <1>4 DEF TInv

\* The timers behind the first one, c, are a list, and d is their first.
Tail(s, n, U, nx, c, tm, sum, d) ==
    /\ IsList(Dropped(s, n, 1), n - 1, U \ {c}, nx, d)
    /\ Apart(U \ {c}, nx, tm, sum)
    /\ d # NoId => d \in U \ {c} /\ sum[d] = sum[c] + tm[d]
    /\ sum \in [Id -> Int]

\* Without its first timer it is a list, with the same times.
LEMMA ListTail ==
    ASSUME NEW s, NEW n, NEW U, NEW nx, NEW c, IsList(s, n, U, nx, c), c # NoId,
           NEW tm, NEW sum, Apart(U, nx, tm, sum), NEW d, d = nx[c]
    PROVE  Tail(s, n, U, nx, c, tm, sum, d)
<1>1. n \in Nat \ {0} /\ c = s[0] /\ c \in U /\ U \subseteq Id
  <2>1. n \in Nat /\ n # 0 /\ c \in U /\ U \subseteq Id
    BY ListMembers
  <2> QED
    BY <2>1 DEF IsList
<1>2. nx[c] = IF 1 = n THEN NoId ELSE s[1]
  BY <1>1 DEF IsList
<1>3. {s[k] : k \in 0 .. 1 - 1} = {c}
  <2>1. 0 .. 1 - 1 = {0}
    OBVIOUS
  <2> QED
    BY <1>1, <2>1
<1>4. 1 \in 0 .. n
  BY <1>1
<1>5. IsList(Dropped(s, n, 1), n - 1, U \ {s[k] : k \in 0 .. 1 - 1}, nx,
             IF 1 = n THEN NoId ELSE s[1])
  BY <1>4, ListDrop
<1>6. Apart(U \ {c}, nx, tm, sum)
  BY DEF Apart
<1>7. nx[c] # NoId => nx[c] \in U \ {c} /\ sum[nx[c]] = sum[c] + tm[nx[c]]
  BY <1>1, ListMembers DEF Apart
<1>8. IsList(Dropped(s, n, 1), n - 1, U \ {c}, nx, d)
  BY <1>2, <1>3, <1>5
<1>9. sum \in [Id -> Int]
  BY DEF Apart
<1> QED
  BY <1>6, <1>7, <1>8, <1>9 DEF Tail

-----------------------------------------------------------------------------
(* The first timer leaves the list.                                        *)

\* The system is on with a list.
Running ==
    /\ using \in [Id -> BOOLEAN] /\ next \in [Id -> Id \cup {NoId}]
    /\ time \in [Id -> Nat] /\ cur \in Id \cup {NoId}
    /\ power = "on" /\ mcnt \in Nat \cup {Stopped}
    /\ mcnt = Stopped <=> cur = NoId
    /\ \E s, n, sum : Shows(s, n, sum)

\* With the types of the rest it is as the invariant says.
LEMMA RunningIs ==
    ASSUME Running',
           (/\ hTimer \in BOOLEAN /\ source \in {"none", "counter", "both", "ext"}
            /\ target \in Int /\ target >= -MaxBoot
            /\ wakeup_id \in Id \cup {NoId} /\ boot_tim \in BOOLEAN
            /\ called \subseteq Id)'
    PROVE  TInv'
<1>1. TypeOK'
  BY Zenon DEF TypeOK, Running
<1>2. PowerOK'
  BY Zenon DEF PowerOK, Running
<1> QED
  BY <1>1, <1>2, Zenon DEF TInv, Running

\* What the first timer had left, clk clocks, has gone to the next one, for
\* which the counter is started.
HandedOn(s, n, sum, clk) ==
    /\ using' \in [Id -> BOOLEAN] /\ next' \in [Id -> Id \cup {NoId}]
    /\ time' \in [Id -> Nat] /\ cur' \in Id \cup {NoId}
    /\ cur' = next[cur] /\ Used' = Used \ {cur}
    /\ Shows(Dropped(s, n, 1), n - 1, sum)'
    /\ mcnt' \in Nat \cup {Stopped} /\ (mcnt' = Stopped <=> cur' = NoId)
    /\ next[cur] # NoId =>
         /\ next[cur] \in Used \ {cur}
         /\ sum[next[cur]] = sum[cur] + time[next[cur]]
         /\ mcnt' = US2CLK(time[next[cur]] + CLK2US(clk))

\* The list after that.
LEMMA HandOnIs ==
    ASSUME TypeOK, NEW s, NEW n, NEW sum, Shows(s, n, sum), cur # NoId,
           NEW clk \in Nat,
           NEW l, l = Inherit(L([using EXCEPT ![cur] = FALSE], next, time, next[cur]),
                              next[cur], CLK2US(clk)),
           Update(l),
           mcnt' = IF l.cur = NoId THEN Stopped ELSE US2CLK(l.time[l.cur])
    PROVE  HandedOn(s, n, sum, clk)
<1> DEFINE c == next[cur]
           us == [using EXCEPT ![cur] = FALSE]
           left == CLK2US(clk)
           tm == IF c = NoId THEN time ELSE [time EXCEPT ![c] = @ + left]
<1>0. /\ using \in [Id -> BOOLEAN] /\ next \in [Id -> Id \cup {NoId}]
      /\ time \in [Id -> Nat] /\ cur \in Id /\ c \in Id \cup {NoId} /\ NoId \notin Id
      /\ left \in Nat /\ left * Den <= clk * Num
  BY CLK2USRounds, Numbers DEF TypeOK
<1>1. l = L(us, next, tm, c)
  <2> HIDE DEF c, us, left
  <2>1. l = Inherit(L(us, next, time, c), c, left)
    BY DEF c, us, left
  <2>2. CASE c = NoId
    BY <2>1, <2>2 DEF Inherit
  <2>3. CASE c # NoId
    <3>1. [L(us, next, time, c) EXCEPT !.time[c] = @ + left]
            = L(us, next, [time EXCEPT ![c] = @ + left], c)
      BY DEF L
    <3> QED
      BY <2>1, <2>3, <3>1 DEF Inherit
  <2> QED
    BY <2>2, <2>3
<1>2. l.using = us /\ l.next = next /\ l.time = tm /\ l.cur = c
  <2> HIDE DEF us, tm, c
  <2> QED
    BY <1>1 DEF L
<1>3. using' = us /\ next' = next /\ time' = tm /\ cur' = c
  BY <1>2 DEF Update
<1>4. using' \in [Id -> BOOLEAN] /\ Used' = Used \ {cur}
  BY <1>0, <1>3 DEF Used
<1>5. tm \in [Id -> Nat] /\ \A j \in Id \ {c} : tm[j] = time[j]
  BY <1>0
<1>6. /\ IsList(Dropped(s, n, 1), n - 1, Used \ {cur}, next, c)
      /\ Apart(Used \ {cur}, next, time, sum)
      /\ c # NoId => c \in Used \ {cur} /\ sum[c] = sum[cur] + time[c]
      /\ sum \in [Id -> Int]
  <2>1. IsList(s, n, Used, next, cur) /\ Apart(Used, next, time, sum)
    BY DEF Shows
  <2> HIDE DEF c
  <2>2. Tail(s, n, Used, next, cur, time, sum, c)
    BY <2>1, ListTail DEF c
  <2> QED
    BY <2>2 DEF Tail
<1>7. c # NoId => tm[c] = time[c] + left
  BY <1>0
<1> HIDE DEF tm, us, c, left
<1>8. Apart(Used \ {cur}, next, tm, sum)
  <2>1. \A j \in (Used \ {cur}) \ {c} : tm[j] = time[j]
    BY <1>5 DEF Used
  <2> QED
    BY <1>6, <2>1, ApartFirst
<1>9. Shows(Dropped(s, n, 1), n - 1, sum)'
  BY <1>3, <1>4, <1>6, <1>8 DEF Shows
<1>10. c = NoId => mcnt' = Stopped
  BY <1>2
<1>11. c # NoId => mcnt' = US2CLK(tm[c]) /\ mcnt' \in Nat
  <2>1. c # NoId => mcnt' = US2CLK(tm[c]) /\ tm[c] \in Nat
    BY <1>0, <1>2, <1>5
  <2> QED
    BY <2>1, US2CLKRounds
<1>12. mcnt' \in Nat \cup {Stopped} /\ (mcnt' = Stopped <=> cur' = NoId)
  BY <1>3, <1>10, <1>11, Numbers
<1>13. next' \in [Id -> Id \cup {NoId}] /\ time' \in [Id -> Nat] /\ cur' \in Id \cup {NoId}
  BY <1>0, <1>3, <1>5
<1>14. c # NoId => c \in Used \ {cur} /\ sum[c] = sum[cur] + time[c]
                   /\ mcnt' = US2CLK(time[c] + left)
  BY <1>6, <1>7, <1>11
<1>15. cur' = c
  BY <1>3
<1> QED
  BY <1>4, <1>9, <1>12, <1>13, <1>14, <1>15 DEF HandedOn, c, left

\* It runs on.
LEMMA HandOn ==
    ASSUME NEW s, NEW n, NEW sum, NEW clk, HandedOn(s, n, sum, clk), power' = "on"
    PROVE  Running'
  BY Zenon DEF HandedOn, Running

\* The first timer is killed.
LEMMA KillFirstStep ==
    ASSUME TInv, DA16X_KILL_TIMER(cur), cur \in Id
    PROVE  TInv'
<1>0. TypeOK /\ PowerOK /\ power = "on" /\ KillFirst(cur) /\ called' = {}
      /\ UNCHANGED <<hTimer, power, source, target, wakeup_id, boot_tim>>
  BY DEF TInv, DA16X_KILL_TIMER
<1>1. PICK s, n, sum : Shows(s, n, sum)
  BY DEF TInv
<1>2. cur # NoId /\ mcnt \in Nat
  <2>1. cur # NoId
    BY Numbers
  <2> QED
    BY <1>0, <2>1 DEF PowerOK, TypeOK
<1> DEFINE l == Inherit(L([using EXCEPT ![cur] = FALSE], next, time, next[cur]),
                        next[cur], CLK2US(mcnt))
<1>3. Update(l) /\ mcnt' = IF l.cur = NoId THEN Stopped ELSE US2CLK(l.time[l.cur])
  BY <1>0 DEF KillFirst
<1>5. Running'
  <2>1. power' = "on"
    BY <1>0
  <2>2. l = Inherit(L([using EXCEPT ![cur] = FALSE], next, time, next[cur]),
                        next[cur], CLK2US(mcnt))
    OBVIOUS
  <2> HIDE DEF l
  <2>3. HandedOn(s, n, sum, mcnt)
    BY <1>0, <1>1, <1>2, <1>3, <2>2, HandOnIs
  <2> QED
    BY <1>0, <2>1, <2>3, HandOn
<1>6. (/\ hTimer \in BOOLEAN /\ source \in {"none", "counter", "both", "ext"}
       /\ target \in Int /\ target >= -MaxBoot
       /\ wakeup_id \in Id \cup {NoId} /\ boot_tim \in BOOLEAN /\ called \subseteq Id)'
  BY <1>0 DEF TypeOK
<1> QED
  BY <1>5, <1>6, RunningIs

\* The state in which a boot that a counter or a signal has ended begins, when
\* the beacon has not been received.
LEMMA EndedSleep ==
    ASSUME TInv, power = "boot", ~Received
    PROVE  TypeOK /\ EndsSleep /\ cur \in Id /\ using[cur] /\ target \in Int
<1>1. TypeOK /\ PowerOK
  BY DEF TInv
<1>2. EndsSleep /\ cur \in Id
  BY <1>1 DEF PowerOK, EndsSleep, TypeOK
<1>3. PICK s, n, sum : Shows(s, n, sum)
  BY DEF TInv
<1>4. cur \in Used
  BY <1>2, <1>3, ListMembers DEF Shows, EndsSleep
<1> QED
  BY <1>1, <1>2, <1>4 DEF TypeOK, Used

\* The firmware that receives a beacon takes the timer off the list.
LEMMA TimStep == ASSUME TInv, SchedulerTim PROVE TInv'
<1>0. /\ power = "boot" /\ source # "ext" /\ wakeup_id \in Beacon /\ boot_tim
      /\ Update(L([using EXCEPT ![wakeup_id] = FALSE], next, time, next[wakeup_id]))
      /\ boot_tim' = FALSE /\ power' = "tim" /\ called' = {}
      /\ source' = IF source = "both" THEN "ext" ELSE source
      /\ UNCHANGED <<hTimer, mcnt, target, wakeup_id>>
  BY DEF SchedulerTim
<1>1. ~Received
  BY <1>0 DEF Received
<1>2. TypeOK /\ cur = wakeup_id /\ cur # NoId /\ cur \in Id /\ using[cur]
  BY <1>0, <1>1, EndedSleep DEF EndsSleep
<1>3. PICK s, n, sum : Shows(s, n, sum)
  BY DEF TInv
<1>4. using' = [using EXCEPT ![cur] = FALSE] /\ next' = next /\ time' = time
      /\ cur' = next[cur]
  BY <1>0, <1>2 DEF Update, L
<1>5. Used' = Used \ {cur} /\ using' \in [Id -> BOOLEAN] /\ ~using'[cur]
  BY <1>2, <1>4 DEF Used, TypeOK
<1>6. /\ IsList(Dropped(s, n, 1), n - 1, Used \ {cur}, next, next[cur])
      /\ Apart(Used \ {cur}, next, time, sum)
      /\ next[cur] # NoId => next[cur] \in Used \ {cur}
                             /\ sum[next[cur]] = sum[cur] + time[next[cur]]
      /\ sum \in [Id -> Int]
  <2>1. IsList(s, n, Used, next, cur) /\ Apart(Used, next, time, sum)
    BY <1>3 DEF Shows
  <2> DEFINE c == next[cur]
  <2> HIDE DEF c
  <2>2. Tail(s, n, Used, next, cur, time, sum, c)
    BY <1>2, <2>1, ListTail DEF c
  <2> QED
    BY <2>2 DEF Tail, c
<1>7. Shows(Dropped(s, n, 1), n - 1, sum)'
  BY <1>4, <1>5, <1>6 DEF Shows
<1>8. TypeOK'
  <2>1. next[cur] \in Id \cup {NoId}
    BY <1>2 DEF TypeOK
  <2>2. source' \in {"none", "counter", "both", "ext"}
    BY <1>0, <1>2 DEF TypeOK
  <2> QED
    BY <1>0, <1>2, <1>4, <1>5, <2>1, <2>2 DEF TypeOK
<1>9. PowerOK'
  <2>1. Received'
    <3>1. target <= 0
      BY <1>0 DEF TInv, PowerOK
    <3> QED
      BY <1>0, <1>2, <1>4, <1>5, <3>1 DEF Received
  <2>2. mcnt = Stopped
    BY <1>0 DEF TInv, PowerOK
  <2> QED
    BY <1>0, <2>1, <2>2 DEF PowerOK
<1> QED
  BY <1>7, <1>8, <1>9 DEF TInv

\* No two timers have the same one behind them.
LEMMA OneBefore ==
    ASSUME NEW s, NEW n, NEW U, NEW nx, NEW c, IsList(s, n, U, nx, c)
    PROVE  \A j, k \in U : nx[j] = nx[k] /\ nx[j] # NoId => j = k
<1> SUFFICES ASSUME NEW j \in U, NEW k \in U, nx[j] = nx[k], nx[j] # NoId PROVE j = k
  OBVIOUS
<1>1. PICK a \in 0 .. n - 1 : j = s[a]
  BY ListMembers
<1>2. PICK b \in 0 .. n - 1 : k = s[b]
  BY ListMembers
<1>3. n \in Nat /\ a # n - 1 /\ b # n - 1 /\ nx[j] = s[a + 1] /\ nx[k] = s[b + 1]
  BY <1>1, <1>2 DEF IsList
<1>4. a + 1 \in 0 .. n - 1 /\ b + 1 \in 0 .. n - 1
  BY <1>3
<1>5. a + 1 = b + 1
  BY <1>3, <1>4 DEF IsList
<1> QED
  BY <1>1, <1>2, <1>5

\* A timer of the list that is not the first has one before it.
LEMMA HasBefore ==
    ASSUME NEW s, NEW n, NEW U, NEW nx, NEW c, IsList(s, n, U, nx, c),
           NEW i \in U, i # c
    PROVE  \E p \in 1 .. n - 1 : s[p] = i /\ s[p - 1] \in U /\ nx[s[p - 1]] = i
<1>1. PICK p \in 0 .. n - 1 : i = s[p]
  BY ListMembers
<1>2. n \in Nat /\ p # 0
  BY <1>1 DEF IsList
<1>3. p \in 1 .. n - 1 /\ p - 1 \in 0 .. n - 1 /\ p - 1 # n - 1 /\ (p - 1) + 1 = p
  BY <1>2
<1>4. s[p - 1] \in U /\ nx[s[p - 1]] = s[p]
  BY <1>3 DEF IsList
<1> QED
  BY <1>1, <1>3, <1>4

\* The timer d, if it is one, has the time t on top.
TakesOver(tm, d, t, tm2) ==
    /\ tm2 \in [Id -> Nat]
    /\ d # NoId => tm2[d] = tm[d] + t
    /\ \A j \in Id \ {d} : tm2[j] = tm[j]

\* The times of a list without the timer i, which comes behind b: the timer
\* behind i takes its time over.
LEMMA ApartWithout ==
    ASSUME NEW s, NEW n, NEW U, NEW nx, NEW c, IsList(s, n, U, nx, c),
           NEW tm \in [Id -> Nat], NEW sum, Apart(U, nx, tm, sum),
           NEW i \in U, NEW b \in U, nx[b] = i, NEW d, d = nx[i],
           NEW nx2, nx2 = [nx EXCEPT ![b] = d],
           NEW tm2, TakesOver(tm, d, tm[i], tm2)
    PROVE  Apart(U \ {i}, nx2, tm2, sum)
<1>0. U \subseteq Id /\ nx \in [Id -> Id \cup {NoId}] /\ sum \in [Id -> Int] /\ i # NoId
  <2>1. U \subseteq Id /\ i # NoId
    BY ListMembers
  <2> QED
    BY <2>1 DEF IsList, Apart
<1> USE DEF TakesOver
<1>1. ASSUME NEW j \in U \ {i}, nx2[j] # NoId PROVE sum[nx2[j]] = sum[j] + tm2[nx2[j]]
  <2>1. CASE j = b
    <3>1. nx2[j] = d /\ d # NoId /\ sum[d] = sum[i] + tm[d] /\ sum[i] = sum[b] + tm[i]
      BY <1>0, <1>1, <2>1 DEF Apart
    <3>2. d \in Id
      BY <1>0, <3>1
    <3>3. {sum[d], sum[i], sum[b]} \subseteq Int /\ {tm[d], tm[i]} \subseteq Nat
      BY <1>0, <3>2
    <3> QED
      BY <2>1, <3>1, <3>3
  <2>2. CASE j # b
    <3>1. nx2[j] = nx[j] /\ nx[j] # NoId
      BY <1>0, <1>1, <2>2
    <3>2. nx[j] # d
      BY <1>1, <3>1, OneBefore
    <3>3. nx[j] \in Id \ {d}
      BY <1>0, <3>1, <3>2
    <3> QED
      BY <3>1, <3>3 DEF Apart
  <2> QED
    BY <2>1, <2>2
<1> QED
  BY <1>0, <1>1 DEF Apart

\* The list without the timer i, which is not its first.
LEMMA KillOtherIs ==
    ASSUME TypeOK, NEW s, NEW n, NEW sum, Shows(s, n, sum), NEW i \in Id, i # cur,
           using[i], KillOther(i)
    PROVE  /\ using' \in [Id -> BOOLEAN] /\ next' \in [Id -> Id \cup {NoId}]
           /\ time' \in [Id -> Nat] /\ cur' = cur /\ mcnt' = mcnt
           /\ Used' = Used \ {i} /\ \E z, m : Shows(z, m, sum)'
<1>2. /\ IsList(s, n, Used, next, cur) /\ Apart(Used, next, time, sum)
      /\ i \in Used /\ next \in [Id -> Id \cup {NoId}] /\ time \in [Id -> Nat]
      /\ using \in [Id -> BOOLEAN] /\ cur \in Id /\ NoId \notin Id
  <2>1. IsList(s, n, Used, next, cur) /\ Apart(Used, next, time, sum) /\ i \in Used
    BY DEF Shows, Used
  <2>2. cur \in Used
    BY <2>1, ListMembers
  <2> QED
    BY <2>1, <2>2, Numbers DEF TypeOK, Used
<1>3. PICK p \in 1 .. n - 1 : s[p] = i /\ s[p - 1] \in Used /\ next[s[p - 1]] = i
  BY <1>2, HasBefore
<1> DEFINE b == s[p - 1]
           d == next[i]
           us == [using EXCEPT ![i] = FALSE]
           nx == [next EXCEPT ![b] = d]
           tm == IF d = NoId THEN time ELSE [time EXCEPT ![d] = @ + time[i]]
           before == CHOOSE j \in Id : using[j] /\ next[j] = i
<1>4. before = b
  <2>1. b \in Id /\ using[b] /\ next[b] = i
    BY <1>3 DEF Used
  <2>2. ASSUME NEW j \in Id, using[j] /\ next[j] = i PROVE j = b
    <3>1. j \in Used /\ next[j] = next[b] /\ next[j] # NoId
      BY <1>2, <2>1, <2>2 DEF Used
    <3> HIDE DEF b
    <3>2. b \in Used
      BY <1>3 DEF b
    <3> QED
      BY <1>2, <3>1, <3>2, OneBefore
  <2> HIDE DEF b
  <2> QED
    BY <2>1, <2>2
<1>5. Update(Inherit(L(us, nx, time, cur), d, time[i])) /\ mcnt' = mcnt
  <2>1. Update(Inherit(L([using EXCEPT ![i] = FALSE],
                         [next EXCEPT ![before] = next[i]], time, cur),
                       next[i], time[i])) /\ mcnt' = mcnt
    BY DEF KillOther
  <2> HIDE DEF b, before
  <2> QED
    BY <1>4, <2>1
<1>6. d \in Id \cup {NoId} /\ tm \in [Id -> Nat] /\ (d # NoId => tm[d] = time[d] + time[i])
      /\ \A j \in Id \ {d} : tm[j] = time[j]
  BY <1>2
<1>7. Inherit(L(us, nx, time, cur), d, time[i]) = L(us, nx, tm, cur)
  <2> HIDE DEF us, nx, d
  <2>1. [L(us, nx, time, cur) EXCEPT !.time[d] = @ + time[i]]
          = L(us, nx, [time EXCEPT ![d] = @ + time[i]], cur)
    BY DEF L
  <2> QED
    BY <2>1 DEF Inherit
<1>8. using' = us /\ next' = nx /\ time' = tm /\ cur' = cur
  <2> HIDE DEF us, nx, tm
  <2> QED
    BY <1>5, <1>7 DEF Update, L
<1>9. using' \in [Id -> BOOLEAN] /\ Used' = Used \ {i}
  BY <1>2, <1>8 DEF Used
<1>10. IsList(Removed(s, n, p), n - 1, Used \ {i}, nx, cur)
  <2>1. nx = [next EXCEPT ![s[p - 1]] = next[s[p]]]
    BY <1>3
  <2> HIDE DEF nx
  <2>2. IsList(Removed(s, n, p), n - 1, Used \ {s[p]}, nx, cur)
    BY <1>2, <2>1, ListRemove
  <2> QED
    BY <1>3, <2>2
<1>11. Apart(Used \ {i}, nx, tm, sum)
  <2>1. b \in Used /\ next[b] = i /\ d = next[i] /\ nx = [next EXCEPT ![b] = d]
    BY <1>3
  <2>2. TakesOver(time, d, time[i], tm)
    BY <1>6 DEF TakesOver
  <2> HIDE DEF b, d, nx, tm
  <2> QED
    BY <1>2, <2>1, <2>2, ApartWithout
<1>12. Shows(Removed(s, n, p), n - 1, sum)'
  <2> HIDE DEF nx, tm
  <2> QED
    BY <1>8, <1>9, <1>10, <1>11 DEF Shows
<1>13. next' \in [Id -> Id \cup {NoId}] /\ time' \in [Id -> Nat] /\ cur' = cur /\ mcnt' = mcnt
  <2>1. nx \in [Id -> Id \cup {NoId}]
    BY <1>10 DEF IsList
  <2> HIDE DEF nx, tm
  <2> QED
    BY <1>5, <1>6, <1>8, <2>1
<1> HIDE DEF nx, tm, us, b, d
<1> QED
  BY <1>9, <1>12, <1>13

\* Another timer than the first is killed.
LEMMA KillOtherStep ==
    ASSUME TInv, NEW i \in Id, DA16X_KILL_TIMER(i), i # cur
    PROVE  TInv'
<1>0. TypeOK /\ PowerOK /\ power = "on" /\ KillOther(i) /\ called' = {} /\ using[i]
      /\ UNCHANGED <<hTimer, power, source, target, wakeup_id, boot_tim>>
  BY DEF TInv, DA16X_KILL_TIMER
<1>1. PICK s, n, sum : Shows(s, n, sum)
  BY DEF TInv
<1>2. /\ using' \in [Id -> BOOLEAN] /\ next' \in [Id -> Id \cup {NoId}]
      /\ time' \in [Id -> Nat] /\ cur' = cur /\ mcnt' = mcnt
      /\ Used' = Used \ {i} /\ \E z, m : Shows(z, m, sum)'
  BY <1>0, <1>1, KillOtherIs
<1>3. TypeOK'
  BY <1>0, <1>2 DEF TypeOK
<1>4. PowerOK'
  BY <1>0, <1>2 DEF PowerOK
<1> QED
  BY <1>2, <1>3, <1>4 DEF TInv

\* The first timer of a list starts, as the last step of a boot.
LEMMA StartedIs ==
    ASSUME hTimer \in BOOLEAN, NEW us, NEW nx, NEW tm, NEW c, c # NoId => us[c],
           NEW l, l = L(us, nx, tm, c), Started(l)
    PROVE  /\ using' = us /\ next' = nx /\ time' = tm /\ cur' = c
           /\ mcnt' = IF c = NoId THEN Stopped ELSE US2CLK(tm[c])
           /\ hTimer' \in BOOLEAN
           /\ power' = "on" /\ source' = "none" /\ target' = 0 /\ wakeup_id' = NoId
<1>1. l.using = us /\ l.next = nx /\ l.time = tm /\ l.cur = c
  BY DEF L
<1>2. (IF c # NoId /\ us[c] THEN c ELSE NoId) = c
  OBVIOUS
<1>3. [l EXCEPT !.cur = c] = l
  BY DEF L
<1>4. Update([l EXCEPT !.cur = IF c # NoId /\ us[c] THEN c ELSE NoId])
      /\ mcnt' = (IF c # NoId /\ us[c] THEN US2CLK(tm[c]) ELSE Stopped)
      /\ hTimer' = (hTimer \/ (c # NoId /\ us[c]))
      /\ power' = "on" /\ source' = "none" /\ target' = 0 /\ wakeup_id' = NoId
  <2> HIDE DEF L
  <2> QED
    BY <1>1 DEF Started
<1>5. Update(l)
  BY <1>2, <1>3, <1>4
<1>6. using' = us /\ next' = nx /\ time' = tm /\ cur' = c
  BY <1>1, <1>5 DEF Update
<1>7. mcnt' = IF c = NoId THEN Stopped ELSE US2CLK(tm[c])
  BY <1>4
<1>8. hTimer' \in BOOLEAN
  BY <1>4, Zenon
<1> QED
  BY <1>4, <1>6, <1>7, <1>8

\* The list stays as it is, and its first timer starts with the time us.
RunsOn(s, n, sum, us) ==
    /\ using' = using /\ next' = next /\ time' \in [Id -> Nat] /\ cur' = cur
    /\ IF cur = NoId THEN mcnt' = Stopped ELSE us \in Nat /\ mcnt' = US2CLK(us)
    /\ Shows(s, n, sum)' /\ Used' = Used

\* After an external signal the first timer goes on with what is left, or hands
\* it on when it is a beacon's; or it was, and the next one gets it.
LEMMA ExtIs ==
    ASSUME TInv, SchedulerExt, NEW s, NEW n, NEW sum, Shows(s, n, sum)
    PROVE  /\ TypeOK /\ PowerOK /\ power = "boot" /\ called' = {} /\ boot_tim' = boot_tim
           /\ hTimer' \in BOOLEAN
           /\ power' = "on" /\ source' = "none" /\ target' = 0 /\ wakeup_id' = NoId
           /\ \/ /\ EndsSleep /\ cur \in Id /\ using[cur] /\ cur \in Beacon
                 /\ HandedOn(s, n, sum, Abs(target))
              \/ /\ EndsSleep /\ cur \in Id /\ using[cur] /\ cur \notin Beacon
                 /\ RunsOn(s, n, sum, CLK2US(Abs(target)))
              \/ /\ Received
                 /\ RunsOn(s, n, sum, time[cur] + CLK2US(Abs(target)))
<1>0. power = "boot" /\ called' = {} /\ boot_tim' = boot_tim /\ Started(ExtBoot)
  BY DEF SchedulerExt, AfterExt
<1>1. TypeOK /\ PowerOK /\ hTimer \in BOOLEAN /\ (EndsSleep \/ Received)
      /\ IsList(s, n, Used, next, cur) /\ Apart(Used, next, time, sum)
  BY <1>0 DEF TInv, PowerOK, TypeOK, Shows
<1> DEFINE clk == Abs(target)
           left == CLK2US(clk)
           w == wakeup_id
<1>2. clk \in Nat /\ get_remain_counter = clk /\ left \in Nat
  <2>1. clk \in Nat
    BY <1>1 DEF TypeOK, Abs
  <2> HIDE DEF clk
  <2>2. left \in Nat
    BY <2>1, CLK2USRounds
  <2> QED
    BY <2>1, <2>2 DEF get_remain_counter, clk
<1>3. ExtBoot = IF w \in Beacon
                THEN Inherit(L([using EXCEPT ![w] = FALSE], next, time, next[w]), next[w], left)
                ELSE L(using, next, [time EXCEPT ![w] = left], w)
  BY <1>2 DEF ExtBoot
<1> HIDE DEF clk, left
<1>4. CASE EndsSleep /\ cur \in Beacon
  <2> DEFINE us == [using EXCEPT ![cur] = FALSE]
             c == next[cur]
             tm == IF c = NoId THEN time ELSE [time EXCEPT ![c] = @ + left]
             l1 == Inherit(L(us, next, time, c), c, left)
  <2>1. w = cur /\ cur # NoId /\ cur \in Id /\ cur \in Used
    <3>1. cur # NoId /\ w = cur
      BY <1>4 DEF EndsSleep
    <3> QED
      BY <1>1, <3>1, ListMembers DEF TypeOK
  <2>2. ExtBoot = l1
    BY <1>3, <1>4, <2>1
  <2>3. c # NoId => c \in Used /\ c # cur
    BY <1>1, <2>1, ListMembers
  <2>4. c # NoId => us[c]
    BY <2>1, <2>3 DEF Used, TypeOK
  <2>5. Started(l1)
    BY <1>0, <2>2
  <2> HIDE DEF us, c, tm, l1
  <2>6. l1 = L(us, next, tm, c)
    <3>1. Inherit(L(us, next, time, c), c, left)
            = L(us, next, IF c = NoId THEN time ELSE [time EXCEPT ![c] = @ + left], c)
      BY DEF Inherit, L
    <3> QED
      BY <3>1 DEF l1, tm
  <2>7. /\ using' = us /\ next' = next /\ time' = tm /\ cur' = c
        /\ mcnt' = IF c = NoId THEN Stopped ELSE US2CLK(tm[c])
        /\ hTimer' \in BOOLEAN
        /\ power' = "on" /\ source' = "none" /\ target' = 0 /\ wakeup_id' = NoId
    BY <1>1, <2>4, <2>5, <2>6, StartedIs
  <2>8. l1.using = us /\ l1.next = next /\ l1.time = tm /\ l1.cur = c
    BY <2>6 DEF L
  <2>9. Update(l1) /\ mcnt' = IF l1.cur = NoId THEN Stopped ELSE US2CLK(l1.time[l1.cur])
    BY <2>7, <2>8 DEF Update
  <2>10. HandedOn(s, n, sum, clk)
    <3>1. l1 = Inherit(L([using EXCEPT ![cur] = FALSE], next, time, next[cur]),
                       next[cur], CLK2US(clk))
      BY DEF l1, us, c, left
    <3> QED
      BY <1>1, <1>2, <2>1, <2>9, <3>1, HandOnIs
  <2> QED
    BY <1>0, <1>1, <1>4, <2>1, <2>7, <2>10 DEF clk, Used
<1>5. CASE EndsSleep /\ cur \notin Beacon
  <2> DEFINE tm == [time EXCEPT ![cur] = left]
  <2>1. w = cur /\ cur # NoId /\ cur \in Id /\ cur \in Used
    <3>1. cur # NoId /\ w = cur
      BY <1>5 DEF EndsSleep
    <3> QED
      BY <1>1, <3>1, ListMembers DEF TypeOK
  <2>2. ExtBoot = L(using, next, tm, cur)
    BY <1>3, <1>5, <2>1
  <2>3. tm \in [Id -> Nat] /\ tm[cur] = left /\ \A j \in Id \ {cur} : tm[j] = time[j]
    BY <1>1, <1>2, <2>1 DEF TypeOK
  <2>4. cur # NoId => using[cur]
    BY <2>1 DEF Used
  <2> HIDE DEF tm
  <2>5. Apart(Used, next, tm, sum)
    <3>1. \A j \in Used \ {cur} : tm[j] = time[j]
      BY <2>3 DEF Used
    <3> QED
      BY <1>1, <3>1, ApartFirst
  <2>6. /\ using' = using /\ next' = next /\ time' = tm /\ cur' = cur
        /\ mcnt' = IF cur = NoId THEN Stopped ELSE US2CLK(tm[cur])
        /\ hTimer' \in BOOLEAN
        /\ power' = "on" /\ source' = "none" /\ target' = 0 /\ wakeup_id' = NoId
    BY <1>0, <1>1, <2>2, <2>4, StartedIs
  <2>7. Shows(s, n, sum)' /\ Used' = Used
    BY <1>1, <2>5, <2>6 DEF Shows, Used
  <2>8. RunsOn(s, n, sum, left)
    BY <1>2, <2>1, <2>3, <2>6, <2>7 DEF RunsOn
  <2> QED
    BY <1>0, <1>1, <1>5, <2>1, <2>6, <2>8 DEF clk, left, Used
<1>6. CASE Received
  <2> DEFINE tm == IF cur = NoId THEN time ELSE [time EXCEPT ![cur] = @ + left]
             us == [using EXCEPT ![w] = FALSE]
             l1 == Inherit(L(us, next, time, cur), cur, left)
  <2>1. w \in Beacon /\ w \in Id /\ next[w] = cur /\ ~using[w]
    BY <1>6, Numbers DEF Received
  <2>2. us = using
    BY <1>1, <2>1 DEF TypeOK
  <2>3. ExtBoot = l1
    BY <1>3, <2>1
  <2>4. Started(l1)
    BY <1>0, <2>3
  <2>5. cur # NoId => cur \in Used /\ cur \in Id /\ using[cur]
    <3>1. cur # NoId => cur \in Used
      BY <1>1, ListMembers
    <3> QED
      BY <3>1 DEF Used
  <2>6. /\ tm \in [Id -> Nat] /\ \A j \in Id \ {cur} : tm[j] = time[j]
        /\ cur # NoId => tm[cur] = time[cur] + left /\ time[cur] + left \in Nat
    BY <1>1, <1>2, <2>5 DEF TypeOK
  <2> HIDE DEF us, l1
  <2>7. l1 = L(using, next, tm, cur)
    <3>1. Inherit(L(us, next, time, cur), cur, left)
            = L(us, next, IF cur = NoId THEN time ELSE [time EXCEPT ![cur] = @ + left], cur)
      BY DEF Inherit, L
    <3> QED
      BY <2>2, <3>1 DEF l1
  <2> HIDE DEF tm
  <2>8. /\ using' = using /\ next' = next /\ time' = tm /\ cur' = cur
        /\ mcnt' = IF cur = NoId THEN Stopped ELSE US2CLK(tm[cur])
        /\ hTimer' \in BOOLEAN
        /\ power' = "on" /\ source' = "none" /\ target' = 0 /\ wakeup_id' = NoId
    BY <1>1, <2>4, <2>5, <2>7, StartedIs
  <2>9. Apart(Used, next, tm, sum)
    <3>1. \A j \in Used \ {cur} : tm[j] = time[j]
      BY <2>6 DEF Used
    <3> QED
      BY <1>1, <3>1, ApartFirst
  <2>10. Shows(s, n, sum)' /\ Used' = Used
    BY <1>1, <2>8, <2>9 DEF Shows, Used
  <2>11. RunsOn(s, n, sum, time[cur] + left)
    BY <2>6, <2>8, <2>10 DEF RunsOn
  <2> QED
    BY <1>0, <1>1, <1>6, <2>8, <2>11 DEF clk, left
<1> QED
  BY <1>1, <1>4, <1>5, <1>6

\* An external signal ends the sleep: the first timer, or the one behind it,
\* goes on.
LEMMA ExtStep == ASSUME TInv, SchedulerExt PROVE TInv'
<1>1. PICK s, n, sum : Shows(s, n, sum)
  BY DEF TInv
<1>2. /\ TypeOK /\ PowerOK /\ power = "boot" /\ called' = {} /\ boot_tim' = boot_tim
      /\ hTimer' \in BOOLEAN
      /\ power' = "on" /\ source' = "none" /\ target' = 0 /\ wakeup_id' = NoId
      /\ \/ HandedOn(s, n, sum, Abs(target))
         \/ \E us : RunsOn(s, n, sum, us)
  BY <1>1, ExtIs
<1>3. (/\ hTimer \in BOOLEAN /\ source \in {"none", "counter", "both", "ext"}
       /\ target \in Int /\ target >= -MaxBoot
       /\ wakeup_id \in Id \cup {NoId} /\ boot_tim \in BOOLEAN /\ called \subseteq Id)'
  <2>1. 0 >= -MaxBoot
    BY Numbers
  <2> QED
    BY <1>2, <2>1 DEF TypeOK
<1>4. CASE HandedOn(s, n, sum, Abs(target))
  <2>1. Running'
    BY <1>2, <1>4, HandOn
  <2> QED
    BY <1>3, <2>1, RunningIs
<1>5. CASE \E us : RunsOn(s, n, sum, us)
  <2>1. PICK us : RunsOn(s, n, sum, us)
    BY <1>5
  <2>2. /\ using' \in [Id -> BOOLEAN] /\ next' \in [Id -> Id \cup {NoId}]
        /\ time' \in [Id -> Nat] /\ cur' \in Id \cup {NoId} /\ Shows(s, n, sum)'
    BY <1>2, <2>1 DEF RunsOn, TypeOK
  <2>3. mcnt' \in Nat \cup {Stopped} /\ (mcnt' = Stopped <=> cur' = NoId)
    <3>1. CASE cur = NoId
      BY <2>1, <3>1 DEF RunsOn
    <3>2. CASE cur # NoId
      <4>1. us \in Nat /\ mcnt' = US2CLK(us) /\ cur' = cur
        BY <2>1, <3>2 DEF RunsOn
      <4>2. mcnt' \in Nat
        BY <4>1, US2CLKRounds
      <4> QED
        BY <3>2, <4>1, <4>2, Numbers
    <3> QED
      BY <3>1, <3>2
  <2>4. Running'
    BY <1>2, <2>2, <2>3, Zenon DEF Running
  <2> QED
    BY <1>3, <2>4, RunningIs
<1> QED
  BY <1>2, <1>4, <1>5

-----------------------------------------------------------------------------
(* How far a subtraction moves a timer.                                    *)

\* What a subtracted gap did to a time o, which is b now: not more than the
\* gap is gone, and what is not gone of it is less than a slice.
Moved(o, b, gap) == o - gap <= b /\ (b = 0 \/ b <= o - gap + Slice)

\* The times of a list before and after a gap has been subtracted.
LEMMA DeductedMoves ==
    ASSUME NEW s, NEW n, NEW U, NEW nx, NEW c, IsList(s, n, U, nx, c),
           NEW tm \in [Id -> Nat], NEW gap \in Nat, NEW g, NEW tm2,
           Deducted(s, n, tm, gap, g, tm2),
           NEW O, Apart(U, nx, tm, O), c # NoId => O[c] = tm[c],
           NEW B, Apart(U, nx, tm2, B), c # NoId => B[c] = tm2[c]
    PROVE  \A j \in U : Moved(O[j], B[j], gap)
<1>0. n \in Nat /\ s \in [0 .. n - 1 -> Id] /\ U = {s[k] : k \in 0 .. n - 1}
      /\ NoId \notin Id
  BY Numbers DEF IsList
<1>1. CASE n = 0
  <2>1. U = {}
    BY <1>0, <1>1
  <2> QED
    BY <2>1
<1>2. CASE n # 0
  <2>0. c = s[0] /\ c \in Id /\ c # NoId
    BY <1>0, <1>2 DEF IsList
  <2>1. /\ O \in [Id -> Int] /\ B \in [Id -> Int] /\ g \in [0 .. n -> Nat]
        /\ tm2 \in [Id -> Nat] /\ Slice \in Nat /\ g[0] = gap
    BY Numbers DEF Apart, Deducted
  <2> DEFINE N == n - 1
             P(k) == \/ B[s[k]] = 0 /\ O[s[k]] + g[k + 1] = gap
                     \/ /\ g[k + 1] = 0 /\ O[s[k]] - gap <= B[s[k]]
                        /\ B[s[k]] <= O[s[k]] - gap + Slice
             S == {k \in 0 .. N : P(k)}
  <2>2. \A k \in 0 .. n - 1 : /\ g[k + 1] = Leaves(g[k], tm[s[k]])
                              /\ tm2[s[k]] = Less(tm[s[k]], g[k])
    BY DEF Deducted
  <2>3. N \in Nat /\ 0 \in 0 .. N
    BY <1>0, <1>2
  <2>4. 0 \in S
    <3> DEFINE t == tm[c]
    <3>1. /\ g[0 + 1] = Leaves(gap, t) /\ B[c] = Less(t, gap) /\ O[c] = t
      <4>1. 0 \in 0 .. n - 1
        BY <2>3
      <4> QED
        BY <2>0, <2>1, <2>2, <4>1
    <3>2. t \in Nat
      BY <2>0
    <3> DEFINE b == B[c]
               g1 == g[0 + 1]
               o == O[c]
    <3>3. g1 = Leaves(gap, t) /\ b = Less(t, gap) /\ o = t
      BY <3>1
    <3> HIDE DEF t, b, g1, o
    <3>4. \/ b = 0 /\ o + g1 = gap
          \/ g1 = 0 /\ o - gap <= b /\ b <= o - gap + Slice
      BY <2>1, <3>2, <3>3 DEF Leaves, Less
    <3>5. P(0)
      BY <2>0, <3>4 DEF b, g1, o
    <3> HIDE DEF P
    <3> QED
      BY <2>3, <3>5
  <2>5. ASSUME NEW k \in 0 .. N - 1, k \in S PROVE k + 1 \in S
    <3>1. k \in 0 .. n - 1 /\ k + 1 \in 0 .. n - 1 /\ k # n - 1 /\ k + 1 \in 0 .. n
          /\ k + 1 \in 0 .. N
      BY <1>0, <2>3
    <3>2. nx[s[k]] = s[k + 1] /\ s[k] \in U /\ s[k + 1] \in Id /\ s[k] \in Id
      BY <1>0, <3>1 DEF IsList
    <3>3. O[s[k + 1]] = O[s[k]] + tm[s[k + 1]] /\ B[s[k + 1]] = B[s[k]] + tm2[s[k + 1]]
      BY <1>0, <3>2 DEF Apart
    <3>4. /\ g[(k + 1) + 1] = Leaves(g[k + 1], tm[s[k + 1]])
          /\ tm2[s[k + 1]] = Less(tm[s[k + 1]], g[k + 1])
      BY <2>2, <3>1
    <3> DEFINE t == tm[s[k + 1]]
               o == O[s[k]]
               b == B[s[k]]
               g0 == g[k + 1]
               g1 == g[(k + 1) + 1]
               o1 == O[s[k + 1]]
               b1 == B[s[k + 1]]
    <3>5. t \in Nat /\ o \in Int /\ b \in Int /\ g0 \in Nat
      BY <2>1, <3>1, <3>2
    <3>6. o1 = o + t /\ b1 = b + Less(t, g0) /\ g1 = Leaves(g0, t)
      BY <3>3, <3>4
    <3>7. \/ b = 0 /\ o + g0 = gap
          \/ g0 = 0 /\ o - gap <= b /\ b <= o - gap + Slice
      BY <2>5
    <3> HIDE DEF t, o, b, g0, g1, o1, b1
    <3>8. \/ b1 = 0 /\ o1 + g1 = gap
          \/ g1 = 0 /\ o1 - gap <= b1 /\ b1 <= o1 - gap + Slice
      <4>1. CASE b = 0 /\ o + g0 = gap
        BY <2>1, <3>5, <3>6, <4>1 DEF Leaves, Less
      <4>2. CASE g0 = 0 /\ o - gap <= b /\ b <= o - gap + Slice
        <5>1. Less(t, g0) = t /\ Leaves(g0, t) = 0
          BY <2>1, <3>5, <4>2 DEF Leaves, Less
        <5> QED
          BY <2>1, <3>5, <3>6, <4>2, <5>1
      <4> QED
        BY <3>7, <4>1, <4>2
    <3>9. P(k + 1)
      BY <3>8 DEF g1, o1, b1
    <3> HIDE DEF P
    <3> QED
      BY <3>1, <3>9
  <2>6. \A k \in 0 .. N : k \in S
    <3> HIDE DEF S, N
    <3> QED
      BY <2>3, <2>4, <2>5, UpTo
  <2>7. ASSUME NEW k \in 0 .. n - 1 PROVE Moved(O[s[k]], B[s[k]], gap)
    <3> DEFINE o == O[s[k]]
               b == B[s[k]]
               g1 == g[k + 1]
    <3>1. P(k)
      <4>1. k \in S
        <5> HIDE DEF S
        <5> QED
          BY <2>6
      <4> QED
        BY <4>1
    <3>2. \/ b = 0 /\ o + g1 = gap
          \/ g1 = 0 /\ o - gap <= b /\ b <= o - gap + Slice
      BY <3>1
    <3>3. o \in Int /\ b \in Int /\ g1 \in Nat
      <4>1. s[k] \in Id /\ k + 1 \in 0 .. n
        BY <1>0
      <4> QED
        BY <2>1, <4>1
    <3> HIDE DEF o, b, g1
    <3>4. Moved(o, b, gap)
      BY <2>1, <3>2, <3>3 DEF Moved
    <3> QED
      BY <3>4 DEF o, b
  <2> QED
    BY <1>0, <2>7
<1> QED
  BY <1>1, <1>2

-----------------------------------------------------------------------------
(* The first timer goes off.                                               *)

\* The q timers from the first one, c, on have gone off: the list from c2 on
\* with the times tm2.
Remains(s, n, U, nx, c, tm, sum, q, c2, tm2, B) ==
    LET U2 == U \ {s[k] : k \in 0 .. q - 1}
    IN  /\ q \in 1 .. n /\ c2 = IF q = n THEN NoId ELSE s[q]
        /\ tm2 \in [Id -> Nat]
        /\ IsList(Dropped(s, n, q), n - q, U2, nx, c2)
        /\ Apart(U2, nx, tm2, B)
        /\ c2 # NoId =>
             /\ tm2[c2] > Slice
             /\ \A j \in U2 : tm2[c2] + (B[j] - B[c2]) <= sum[j] - sum[c]

\* How far the timers behind the first one, c, have moved: the times B are what
\* sum was from c on, less the gap, and the q that went off were early by the
\* slices between them, which those that remain lose.
Shifted(s, q, U, c, sum, gap, c2, tm2, B) ==
    /\ \A j \in U \ {c} : Moved(sum[j] - sum[c], B[j], gap)
    /\ \A k \in 1 .. q - 1 : B[s[k]] <= (q - 1) * Slice
    /\ c2 # NoId => B[c2] - tm2[c2] \in 0 .. (q - 1) * Slice

\* The gap has been subtracted behind the first timer, c.
Behindhand(s, n, tm, c, gap, g, tm2) ==
    Deducted(Dropped(s, n, 1), n - 1, [tm EXCEPT ![c] = 0], gap, g, tm2)

\* The times B from c on that the timers behind it have then, d the first.
TailMoved(U, nx, c, sum, gap, d, tm2, B) ==
    /\ Apart(U \ {c}, nx, tm2, B)
    /\ d # NoId => B[d] = tm2[d]
    /\ \A j \in U \ {c} : /\ B[j] <= sum[j] - sum[c]
                          /\ Moved(sum[j] - sum[c], B[j], gap)

\* The times behind the first timer after the gap has been subtracted there.
LEMMA TailMoves ==
    ASSUME NEW s, NEW n, NEW U, NEW nx, NEW c, IsList(s, n, U, nx, c), c # NoId,
           NEW tm \in [Id -> Nat], NEW sum, Apart(U, nx, tm, sum), NEW gap \in Nat,
           NEW g, NEW tm2, Behindhand(s, n, tm, c, gap, g, tm2),
           NEW d, d = nx[c]
    PROVE  \E B : TailMoved(U, nx, c, sum, gap, d, tm2, B)
<1> DEFINE tm0 == [tm EXCEPT ![c] = 0]
           m == n - 1
           z == Dropped(s, n, 1)
           V == U \ {c}
           O == [j \in Id |-> sum[j] - sum[c]]
<1>1. /\ IsList(z, m, V, nx, d) /\ Apart(V, nx, tm, sum) /\ sum \in [Id -> Int]
      /\ d # NoId => d \in V /\ sum[d] = sum[c] + tm[d]
  <2>1. Tail(s, n, U, nx, c, tm, sum, d)
    BY ListTail
  <2> QED
    BY <2>1 DEF Tail
<1>2. Deducted(z, m, tm0, gap, g, tm2) /\ tm2 \in [Id -> Nat]
  BY DEF Behindhand, Deducted
<1>3. c \in Id /\ V \subseteq Id /\ U \subseteq Id /\ \A j \in U : nx[j] # c
  <2>1. c \in U /\ U \subseteq Id /\ \A j \in U : nx[j] # c
    BY ListMembers
  <2> QED
    BY <2>1
<1>4. tm0 \in [Id -> Nat] /\ \A j \in Id \ {c} : tm0[j] = tm[j]
  BY <1>3
<1>5. O \in [Id -> Int] /\ \A j \in Id : O[j] = sum[j] - sum[c]
  BY <1>1, <1>3
<1> HIDE DEF tm0, m, z, O
<1>6. CASE d = NoId
  <2>1. V = {}
    <3> HIDE DEF V
    <3> QED
      BY <1>1, <1>6, ListMembers
  <2>2. Apart(V, nx, tm2, sum)
    BY <1>1, <2>1 DEF Apart
  <2> QED
    BY <1>6, <2>1, <2>2 DEF TailMoved
<1>7. CASE d # NoId
  <2>1. \A j \in Id : tm2[j] <= tm0[j]
    <3> HIDE DEF V
    <3> QED
      BY <1>1, <1>2, <1>4, DeductedLess
  <2>2. \A j \in V : tm2[j] <= tm[j]
    BY <1>3, <1>4, <2>1
  <2>3. PICK B : /\ Apart(V, nx, tm2, B) /\ B[d] = tm2[d]
                 /\ \A j \in V : B[j] - B[d] <= sum[j] - sum[d]
    <3> HIDE DEF V
    <3> QED
      BY <1>1, <1>2, <1>7, <2>2, DeductedApart
  <2>4. Apart(V, nx, tm0, O) /\ O[d] = tm0[d]
    <3>1. ASSUME NEW j \in V, nx[j] # NoId PROVE O[nx[j]] = O[j] + tm0[nx[j]]
      <4>1. nx[j] \in V /\ nx[j] \in Id \ {c}
        <5>1. nx[j] \in V
          <6> HIDE DEF V
          <6> QED
            BY <1>1, <3>1, ListMembers
        <5> QED
          BY <1>3, <5>1
      <4>2. sum[nx[j]] = sum[j] + tm[nx[j]] /\ tm0[nx[j]] = tm[nx[j]]
        BY <1>1, <1>4, <3>1, <4>1 DEF Apart
      <4>3. {sum[nx[j]], sum[j], sum[c], tm[nx[j]]} \subseteq Int /\ j \in Id
        BY <1>1, <1>3, <4>1
      <4>4. O[nx[j]] = sum[nx[j]] - sum[c] /\ O[j] = sum[j] - sum[c]
        BY <1>3, <1>5, <4>1, <4>3
      <4> QED
        BY <4>2, <4>3, <4>4
    <3>2. O[d] = tm0[d]
      <4>1. d \in Id \ {c} /\ sum[d] = sum[c] + tm[d]
        BY <1>1, <1>3, <1>7
      <4>2. {sum[d], sum[c], tm[d]} \subseteq Int
        BY <1>1, <1>3, <4>1
      <4> QED
        BY <1>4, <1>5, <4>1, <4>2
    <3> QED
      BY <1>5, <3>1, <3>2 DEF Apart
  <2>5. \A j \in V : Moved(O[j], B[j], gap)
    <3> HIDE DEF V
    <3> QED
      BY <1>1, <1>2, <1>4, <2>3, <2>4, DeductedMoves
  <2>6. ASSUME NEW j \in V PROVE B[j] <= sum[j] - sum[c]
    <3>1. /\ B[j] - B[d] <= sum[j] - sum[d] /\ B[d] = tm2[d] /\ tm2[d] <= tm[d]
          /\ sum[d] = sum[c] + tm[d]
      BY <1>1, <1>7, <2>2, <2>3
    <3>2. {B[j], B[d], sum[j], sum[d], sum[c], tm2[d], tm[d]} \subseteq Int
      <4>1. d \in Id /\ j \in Id
        BY <1>1, <1>3, <1>7
      <4> QED
        BY <1>1, <1>2, <1>3, <2>3, <4>1 DEF Apart
    <3> QED
      BY <3>1, <3>2
  <2>7. \A j \in V : Moved(sum[j] - sum[c], B[j], gap)
    BY <1>3, <1>5, <2>5
  <2> QED
    BY <2>3, <2>6, <2>7 DEF TailMoved
<1> QED
  BY <1>6, <1>7

\* How early the q timers that go off are, and the first that does not.
Early(s, n, q, tm2, B) ==
    /\ \A k \in 1 .. q - 1 : 0 <= B[s[k]] /\ B[s[k]] <= (q - 1) * Slice
    /\ q # n => B[s[q]] - tm2[s[q]] \in 0 .. (q - 1) * Slice

\* The timers that go off with the first one are early by a slice each.
LEMMA CloseSums ==
    ASSUME NEW s, NEW n, NEW U, NEW nx, NEW c, IsList(s, n, U, nx, c), c # NoId,
           NEW tm2 \in [Id -> Nat], NEW q, Close(s, n, q, tm2),
           NEW B, Apart(U \ {c}, nx, tm2, B),
           NEW d, d = nx[c], d # NoId => B[d] = tm2[d]
    PROVE  Early(s, n, q, tm2, B)
<1>0. n \in Nat \ {0} /\ s \in [0 .. n - 1 -> Id] /\ c = s[0] /\ U = {s[k] : k \in 0 .. n - 1}
      /\ NoId \notin Id /\ B \in [Id -> Int] /\ Slice \in Nat /\ q \in 1 .. n
  BY Numbers DEF IsList, Apart, Close
<1>1. ASSUME NEW k \in 0 .. n - 2
      PROVE  /\ k = 0 => B[s[k + 1]] = tm2[s[k + 1]]
             /\ k # 0 => B[s[k + 1]] = B[s[k]] + tm2[s[k + 1]]
  <2>1. k \in 0 .. n - 1 /\ k + 1 \in 0 .. n - 1 /\ k # n - 1 /\ 0 \in 0 .. n - 1
    BY <1>0
  <2>2. nx[s[k]] = s[k + 1] /\ s[k] \in U /\ s[k + 1] # NoId
    BY <1>0, <2>1 DEF IsList
  <2>3. k # 0 => s[k] # c
    BY <1>0, <2>1 DEF IsList
  <2>4. k # 0 => s[k] \in U \ {c}
    BY <2>2, <2>3
  <2>5. k = 0 => nx[c] = s[k + 1]
    BY <1>0, <2>2
  <2>6. k # 0 => B[s[k + 1]] = B[s[k]] + tm2[s[k + 1]]
    BY <2>2, <2>4 DEF Apart
  <2> QED
    BY <2>2, <2>5, <2>6
<1> DEFINE N == q - 1
           S == {k \in 0 .. N : k # 0 => 0 <= B[s[k]] /\ B[s[k]] <= k * Slice}
<1>2. N \in Nat /\ N <= n - 1 /\ 0 \in S
  BY <1>0
<1>3. ASSUME NEW k \in 0 .. N - 1, k \in S PROVE k + 1 \in S
  <2>1. k \in 0 .. n - 2 /\ k + 1 \in 1 .. q - 1 /\ k + 1 \in 0 .. N /\ k \in Nat
        /\ k + 1 \in 0 .. n - 1 /\ k \in 0 .. n - 1
    <3>1. q \in 1 .. n /\ n \in Nat
      BY <1>0
    <3> HIDE DEF S
    <3>2. k \in 0 .. n - 2 /\ k \in Nat /\ k \in 0 .. n - 1
      BY <3>1
    <3>3. k + 1 \in 1 .. q - 1 /\ k + 1 \in 0 .. N /\ k + 1 \in 0 .. n - 1
      BY <3>1
    <3> QED
      BY <3>2, <3>3
  <2> DEFINE t == tm2[s[k + 1]]
             b == B[s[k]]
             b1 == B[s[k + 1]]
  <2>2. t \in Nat /\ b \in Int /\ b1 \in Int /\ t <= Slice
    <3>1. s[k] \in Id /\ s[k + 1] \in Id
      BY <1>0, <2>1
    <3>2. t <= Slice
      BY <2>1 DEF Close
    <3> QED
      BY <1>0, <3>1, <3>2
  <2>3. (k = 0 => b1 = t) /\ (k # 0 => b1 = b + t /\ 0 <= b /\ b <= k * Slice)
    BY <1>1, <1>3, <2>1
  <2> HIDE DEF t, b, b1
  <2>4. (k + 1) * Slice = k * Slice + Slice /\ k * Slice \in Nat
    <3>1. k \in Nat /\ Slice \in Nat
      BY <1>0, <2>1
    <3> QED
      BY <3>1
  <2>5. 0 <= b1 /\ b1 <= (k + 1) * Slice
    <3>1. CASE k = 0
      <4>1. (k + 1) * Slice = Slice
        BY <1>0, <3>1
      <4> QED
        BY <2>2, <2>3, <3>1, <4>1
    <3>2. CASE k # 0
      <4> DEFINE m == k * Slice
                 m1 == (k + 1) * Slice
      <4>1. m1 = m + Slice /\ m \in Nat /\ b1 = b + t /\ 0 <= b /\ b <= m
        BY <2>3, <2>4, <3>2
      <4> HIDE DEF m, m1
      <4>2. 0 <= b1 /\ b1 <= m1
        BY <1>0, <2>2, <4>1
      <4> QED
        BY <4>2 DEF m1
    <3> QED
      BY <3>1, <3>2
  <2> QED
    BY <2>1, <2>5 DEF b1
<1>4. \A k \in 0 .. N : k \in S
  <2> HIDE DEF S, N
  <2> QED
    BY <1>2, <1>3, UpTo
<1>5. ASSUME NEW k \in 1 .. q - 1 PROVE 0 <= B[s[k]] /\ B[s[k]] <= (q - 1) * Slice
  <2>1. k \in 0 .. N /\ k # 0 /\ k \in Int /\ N \in Int /\ k <= N /\ k \in 0 .. n - 1
    BY <1>0, <1>2
  <2>2. 0 <= B[s[k]] /\ B[s[k]] <= k * Slice
    BY <1>4, <2>1
  <2>3. k * Slice <= N * Slice /\ k * Slice \in Int /\ N * Slice \in Int
    <3> HIDE DEF N
    <3>1. k \in Int /\ N \in Int /\ k <= N /\ Slice \in Nat
      BY <1>0, <2>1
    <3> QED
      BY <3>1, MulLe
  <2>4. B[s[k]] \in Int
    BY <1>0, <2>1
  <2> QED
    BY <2>2, <2>3, <2>4
<1>6. ASSUME q # n PROVE B[s[q]] - tm2[s[q]] \in 0 .. (q - 1) * Slice
  <2> DEFINE k == q - 1
             e == (q - 1) * Slice
  <2>1. k \in 0 .. n - 2 /\ k + 1 = q /\ q \in 0 .. n - 1 /\ e \in Nat
    BY <1>0, <1>6
  <2>2. s[q] \in Id /\ B[s[q]] \in Int /\ tm2[s[q]] \in Nat
    <3>1. s[q] \in Id
      BY <1>0, <2>1
    <3> QED
      BY <1>0, <3>1
  <2>3. CASE k = 0
    <3>1. B[s[k + 1]] = tm2[s[k + 1]]
      <4> HIDE DEF k
      <4> QED
        BY <1>1, <2>1, <2>3
    <3>2. B[s[q]] = tm2[s[q]]
      <4> HIDE DEF k
      <4> QED
        BY <2>1, <3>1
    <3> QED
      BY <2>1, <2>2, <3>2
  <2>4. CASE k # 0
    <3>1. B[s[k + 1]] = B[s[k]] + tm2[s[k + 1]]
      <4> HIDE DEF k
      <4> QED
        BY <1>1, <2>1, <2>4
    <3>2. B[s[q]] = B[s[k]] + tm2[s[q]]
      <4> HIDE DEF k
      <4> QED
        BY <2>1, <3>1
    <3>3. k \in 1 .. q - 1
      BY <1>0, <2>1, <2>4
    <3>4. 0 <= B[s[k]] /\ B[s[k]] <= e /\ B[s[k]] \in Int
      <4>1. s[k] \in Id
        BY <1>0, <2>1
      <4> QED
        BY <1>0, <1>5, <3>3, <4>1
    <3> HIDE DEF k, e
    <3>5. B[s[q]] - tm2[s[q]] = B[s[k]]
      BY <2>2, <3>2, <3>4
    <3>6. B[s[k]] \in 0 .. e
      BY <2>1, <3>4
    <3> QED
      BY <3>5, <3>6 DEF e
  <2> QED
    BY <2>3, <2>4
<1> QED
  BY <1>5, <1>6 DEF Early

\* What DA16200_PROCESS_CALLBACK leaves: no timer is further behind the first
\* than it was, and none has moved further than the gap and the slices.
LEMMA CallbackRemains ==
    ASSUME NEW s, NEW n, NEW U, NEW nx, NEW c, IsList(s, n, U, nx, c), c # NoId,
           NEW tm \in [Id -> Nat], NEW sum, Apart(U, nx, tm, sum),
           NEW us \in [Id -> BOOLEAN], U = {j \in Id : us[j]}, NEW gap \in Nat
    PROVE  \E q, c2, tm2, B :
             /\ ProcessCallback(L(us, nx, tm, c), c, gap) = GoneOff(us, nx, tm2, s, n, q)
             /\ Remains(s, n, U, nx, c, tm, sum, q, c2, tm2, B)
             /\ Shifted(s, q, U, c, sum, gap, c2, tm2, B)
<1>1. PICK q, g, tm2 :
             /\ ProcessCallback(L(us, nx, tm, c), c, gap) = GoneOff(us, nx, tm2, s, n, q)
             /\ Close(s, n, q, tm2)
             /\ Behindhand(s, n, tm, c, gap, g, tm2)
  <2>1. PICK q, g, tm2 : CalledBack(us, nx, tm, c, gap, s, n, q, g, tm2)
    BY CallbackIs
  <2> QED
    BY <2>1, Zenon DEF CalledBack, Behindhand
<1> DEFINE U2 == U \ {s[k] : k \in 0 .. q - 1}
           c2 == IF q = n THEN NoId ELSE s[q]
           d == nx[c]
<1>2. n \in Nat /\ q \in 1 .. n /\ q \in 0 .. n /\ s \in [0 .. n - 1 -> Id] /\ c = s[0]
      /\ U = {s[k] : k \in 0 .. n - 1} /\ c \in Id
  BY <1>1 DEF Close, IsList
<1>3. sum \in [Id -> Int] /\ tm2 \in [Id -> Nat]
  BY <1>1 DEF Apart, Behindhand, Deducted
<1>d. d = nx[c]
  OBVIOUS
<1> HIDE DEF d
<1>b. PICK B : TailMoved(U, nx, c, sum, gap, d, tm2, B)
  BY <1>1, <1>d, TailMoves
<1>4. /\ Apart(U \ {c}, nx, tm2, B)
      /\ d # NoId => B[d] = tm2[d]
      /\ \A j \in U \ {c} : /\ B[j] <= sum[j] - sum[c]
                            /\ Moved(sum[j] - sum[c], B[j], gap)
  BY <1>b DEF TailMoved
<1>5. /\ \A k \in 1 .. q - 1 : 0 <= B[s[k]] /\ B[s[k]] <= (q - 1) * Slice
      /\ q # n => B[s[q]] - tm2[s[q]] \in 0 .. (q - 1) * Slice
  <2>1. Early(s, n, q, tm2, B)
    BY <1>1, <1>3, <1>4, <1>d, CloseSums
  <2> QED
    BY <2>1 DEF Early
<1>6. U2 \subseteq U \ {c}
  <2>1. 0 \in 0 .. q - 1
    BY <1>2
  <2> QED
    BY <1>2, <2>1
<1>7. IsList(Dropped(s, n, q), n - q, U2, nx, c2)
  BY <1>2, ListDrop
<1>8. Apart(U2, nx, tm2, B) /\ B \in [Id -> Int]
  BY <1>4, <1>6 DEF Apart
<1>9. c2 # NoId => tm2[c2] > Slice
  BY <1>1 DEF Close
<1>10. c2 # NoId => \A j \in U2 : tm2[c2] + (B[j] - B[c2]) <= sum[j] - sum[c]
  <2> SUFFICES ASSUME c2 # NoId, NEW j \in U2
               PROVE  tm2[c2] + (B[j] - B[c2]) <= sum[j] - sum[c]
    OBVIOUS
  <2>1. c2 = s[q] /\ q # n /\ c2 \in Id /\ j \in Id
    BY <1>2
  <2>2. B[c2] - tm2[c2] \in 0 .. (q - 1) * Slice
    BY <1>5, <2>1
  <2>3. B[j] <= sum[j] - sum[c]
    BY <1>4, <1>6
  <2> HIDE DEF c2
  <2>4. B[c2] \in Int /\ tm2[c2] \in Int /\ sum[j] \in Int /\ sum[c] \in Int /\ B[j] \in Int
    BY <1>2, <1>3, <1>8, <2>1
  <2>5. B[c2] - tm2[c2] >= 0
    BY <2>2, <2>4
  <2> QED
    BY <2>3, <2>4, <2>5
<1>11. Remains(s, n, U, nx, c, tm, sum, q, c2, tm2, B)
  BY <1>2, <1>3, <1>7, <1>8, <1>9, <1>10 DEF Remains
<1>12. Shifted(s, q, U, c, sum, gap, c2, tm2, B)
  BY <1>4, <1>5 DEF Shifted
<1> HIDE DEF c2
<1> QED
  BY <1>1, <1>11, <1>12

\* The step after which it goes on, with a counter for the first timer.
GoesOn(us, nx, s, q, c2, tm2) ==
    /\ using' = [j \in Id |-> us[j] /\ j \notin {s[k] : k \in 0 .. q - 1}]
    /\ next' = nx /\ cur' = c2 /\ time' \in [Id -> Nat]
    /\ \A j \in Id \ {c2} : time'[j] = tm2[j]
    /\ power' = "on"
    /\ mcnt' = IF c2 = NoId THEN Stopped ELSE US2CLK(time'[c2])
    /\ c2 # NoId => time'[c2] <= tm2[c2]

\* The list that remains.
LEMMA RemainsShows ==
    ASSUME NEW s, NEW n, NEW U, NEW nx, NEW c, NEW tm, NEW sum,
           NEW us \in [Id -> BOOLEAN], U = {j \in Id : us[j]},
           NEW q, NEW c2, NEW tm2, NEW B,
           Remains(s, n, U, nx, c, tm, sum, q, c2, tm2, B), GoesOn(us, nx, s, q, c2, tm2)
    PROVE  /\ Shows(Dropped(s, n, q), n - q, B)' /\ cur' = c2
           /\ Used' = U \ {s[k] : k \in 0 .. q - 1}
<1> USE DEF GoesOn
<1> DEFINE U2 == U \ {s[k] : k \in 0 .. q - 1}
<1>1. /\ tm2 \in [Id -> Nat]
      /\ IsList(Dropped(s, n, q), n - q, U2, nx, c2)
      /\ Apart(U2, nx, tm2, B)
  BY DEF Remains
<1>2. Used' = U2 /\ cur' = c2
  BY DEF Used
<1>3. U2 \subseteq Id
  OBVIOUS
<1> HIDE DEF U2
<1>4. Apart(U2, nx, time', B)
  <2> DEFINE t2 == time'
             z == Dropped(s, n, q)
             m == n - q
  <2>1. \A j \in U2 \ {c2} : t2[j] = tm2[j]
    BY <1>3
  <2>2. IsList(z, m, U2, nx, c2)
    BY <1>1
  <2> HIDE DEF t2, z, m
  <2>3. Apart(U2, nx, t2, B)
    BY <1>1, <2>1, <2>2, ApartFirst
  <2> QED
    BY <2>3 DEF t2
<1>5. Shows(Dropped(s, n, q), n - q, B)'
  BY <1>1, <1>2, <1>4 DEF Shows
<1> QED
  BY <1>2, <1>5 DEF U2

\* What remains goes on, with the counter for its first timer.
LEMMA RemainsRuns ==
    ASSUME NEW s, NEW n, NEW U, NEW nx, NEW c, NEW tm, NEW sum,
           NEW us \in [Id -> BOOLEAN], U = {j \in Id : us[j]},
           NEW q, NEW c2, NEW tm2, NEW B,
           Remains(s, n, U, nx, c, tm, sum, q, c2, tm2, B),
           GoesOn(us, nx, s, q, c2, tm2)
    PROVE  Running'
<1> USE DEF GoesOn
<1> DEFINE U2 == U \ {s[k] : k \in 0 .. q - 1}
<1>1. /\ tm2 \in [Id -> Nat]
      /\ IsList(Dropped(s, n, q), n - q, U2, nx, c2)
      /\ Apart(U2, nx, tm2, B)
  BY DEF Remains
<1>2. Used' = U2 /\ using' \in [Id -> BOOLEAN]
  BY DEF Used
<1>3. U2 \subseteq Id /\ B \in [Id -> Int] /\ nx \in [Id -> Id \cup {NoId}]
  BY <1>1 DEF Apart, IsList
<1>4. c2 \in Id \cup {NoId}
  <2> HIDE DEF U2
  <2>1. c2 # NoId <=> c2 \in U2
    BY <1>1, ListMembers
  <2> QED
    BY <1>3, <2>1
<1> HIDE DEF U2
<1>6. Shows(Dropped(s, n, q), n - q, B)'
  BY RemainsShows
<1>7. c2 # NoId => time'[c2] \in Nat /\ mcnt' = US2CLK(time'[c2]) /\ mcnt' \in Nat
  <2>1. c2 # NoId => time'[c2] \in Nat
    BY <1>4
  <2> QED
    BY <2>1, US2CLKRounds
<1>8. mcnt' \in Nat \cup {Stopped} /\ (mcnt' = Stopped <=> cur' = NoId)
  BY <1>7, Numbers
<1> QED
  BY <1>2, <1>3, <1>4, <1>6, <1>8, Zenon DEF Running

\* What the list is after timers have gone off.
LEMMA GoneOffIs ==
    ASSUME NEW us, NEW nx, NEW tm2, NEW s, NEW n, NEW q
    PROVE  LET l == GoneOff(us, nx, tm2, s, n, q).list
               c2 == IF q = n THEN NoId ELSE s[q]
               us2 == [j \in Id |-> us[j] /\ j \notin {s[k] : k \in 0 .. q - 1}]
           IN  /\ GoneOff(us, nx, tm2, s, n, q).called = {s[k] : k \in 0 .. q - 1}
               /\ l.using = us2 /\ l.next = nx /\ l.time = tm2 /\ l.cur = c2
               /\ l = L(us2, nx, tm2, c2)
<1> DEFINE c2 == IF q = n THEN NoId ELSE s[q]
           Q == {s[k] : k \in 0 .. q - 1}
           us2 == [j \in Id |-> us[j] /\ j \notin Q]
<1>1. GoneOff(us, nx, tm2, s, n, q) = [called |-> Q, list |-> L(us2, nx, tm2, c2)]
  BY DEF GoneOff
<1> HIDE DEF c2, Q, us2
<1>2. GoneOff(us, nx, tm2, s, n, q).called = Q
      /\ GoneOff(us, nx, tm2, s, n, q).list = L(us2, nx, tm2, c2)
  BY <1>1
<1>3. L(us2, nx, tm2, c2).using = us2 /\ L(us2, nx, tm2, c2).next = nx
      /\ L(us2, nx, tm2, c2).time = tm2 /\ L(us2, nx, tm2, c2).cur = c2
  BY DEF L
<1> QED
  BY <1>2, <1>3 DEF c2, Q, us2

\* The first timer, c, goes off with those that are close, and the others go on.
WentOff(s, n, U, nx, c, tm, sum, us, gap, q, c2, tm2, B) ==
    /\ Remains(s, n, U, nx, c, tm, sum, q, c2, tm2, B)
    /\ Shifted(s, q, U, c, sum, gap, c2, tm2, B)
    /\ GoesOn(us, nx, s, q, c2, tm2)
    /\ called' = {s[k] : k \in 0 .. q - 1}

\* The interrupt: the first timer goes off, with those that are close, and the
\* counter is started for the next one.
LEMMA IsrIs ==
    ASSUME TypeOK, PowerOK, NEW s, NEW n, NEW sum, Shows(s, n, sum),
           NEW d \in 0 .. MaxIsr, rtc_mirror_hisr(d)
    PROVE  \E q, c2, tm2, B :
             /\ WentOff(s, n, Used, next, cur, time, sum, using, 0, q, c2, tm2, B)
             /\ c2 # NoId => time'[c2] = tm2[c2] - CLK2US(d)
<1>0. power = "on" /\ mcnt = 0
      /\ UNCHANGED <<hTimer, power, source, target, wakeup_id, boot_tim>>
  BY DEF rtc_mirror_hisr
<1>2. /\ IsList(s, n, Used, next, cur) /\ Apart(Used, next, time, sum) /\ sum \in [Id -> Int]
      /\ cur # NoId /\ cur \in Id /\ using \in [Id -> BOOLEAN] /\ time \in [Id -> Nat]
      /\ Used = {j \in Id : using[j]}
  <2>1. mcnt # Stopped
    BY <1>0 DEF Stopped
  <2> QED
    BY <1>0, <2>1 DEF Shows, Apart, PowerOK, TypeOK, Used
<1> DEFINE gap == 0
<1>3. PICK q, c2, tm2, B :
             /\ ProcessCallback(L(using, next, time, cur), cur, gap)
                  = GoneOff(using, next, tm2, s, n, q)
             /\ Remains(s, n, Used, next, cur, time, sum, q, c2, tm2, B)
             /\ Shifted(s, q, Used, cur, sum, gap, c2, tm2, B)
  <2>1. gap \in Nat
    OBVIOUS
  <2> HIDE DEF gap
  <2> QED
    BY <1>2, <2>1, CallbackRemains
<1> DEFINE p == ProcessCallback(L(using, next, time, cur), cur, gap)
           Q == {s[k] : k \in 0 .. q - 1}
           us2 == [j \in Id |-> using[j] /\ j \notin Q]
           t == tm2[c2] - CLK2US(d)
<1>4. /\ p.called = Q /\ p.list = L(us2, next, tm2, c2) /\ p.list.using = us2
      /\ p.list.next = next /\ p.list.time = tm2 /\ p.list.cur = c2
  BY <1>3, GoneOffIs DEF Remains
<1>5. /\ IF c2 = NoId
         THEN Update(L(us2, next, tm2, c2)) /\ mcnt' = Stopped
         ELSE Update([L(us2, next, tm2, c2) EXCEPT !.time[c2] = t]) /\ mcnt' = US2CLK(t)
      /\ called' = Q /\ Fits(L(us2, next, tm2, c2), c2, d)
  <2>1. LET m == p.list.cur
            t1 == p.list.time[m] - CLK2US(d)
        IN  /\ IF m = NoId
               THEN Update(p.list) /\ mcnt' = Stopped
               ELSE Update([p.list EXCEPT !.time[m] = t1]) /\ mcnt' = US2CLK(t1)
            /\ called' = p.called /\ Fits(p.list, m, d)
    BY DEF rtc_mirror_hisr, Expired
  <2> HIDE DEF p, us2, Q
  <2> QED
    BY <1>4, <2>1
<1>6. tm2 \in [Id -> Nat] /\ q \in 1 .. n /\ (c2 # NoId => c2 \in Id /\ tm2[c2] > Slice)
  <2>1. n \in Nat /\ s \in [0 .. n - 1 -> Id]
    BY <1>2 DEF IsList
  <2> QED
    BY <1>3, <2>1 DEF Remains
<1>7. CLK2US(d) \in Nat /\ (c2 # NoId => CLK2US(d) <= tm2[c2])
  <2>1. CLK2US(d) \in Nat
    BY CLK2USRounds
  <2>2. L(us2, next, tm2, c2).time = tm2
    BY DEF L
  <2>3. c2 # NoId => CLK2US(d) <= tm2[c2]
    <3> HIDE DEF us2
    <3> QED
      BY <1>5, <2>2 DEF Fits
  <2> QED
    BY <2>1, <2>3
<1>8. c2 # NoId => t \in Nat /\ t <= tm2[c2]
  <2>1. c2 # NoId => tm2[c2] \in Nat
    BY <1>6
  <2> QED
    BY <1>7, <2>1
<1> DEFINE tm3 == IF c2 = NoId THEN tm2 ELSE [tm2 EXCEPT ![c2] = t]
<1>9. using' = us2 /\ next' = next /\ time' = tm3 /\ cur' = c2
      /\ (c2 = NoId => mcnt' = Stopped) /\ (c2 # NoId => mcnt' = US2CLK(t))
  <2> HIDE DEF us2, t
  <2>1. [L(us2, next, tm2, c2) EXCEPT !.time[c2] = t]
          = L(us2, next, [tm2 EXCEPT ![c2] = t], c2)
    BY DEF L
  <2>2. CASE c2 = NoId
    BY <1>5, <2>2 DEF Update, L
  <2>3. CASE c2 # NoId
    <3>1. Update(L(us2, next, [tm2 EXCEPT ![c2] = t], c2)) /\ mcnt' = US2CLK(t)
      BY <1>5, <2>1, <2>3
    <3> QED
      BY <2>3, <3>1 DEF Update, L
  <2> QED
    BY <2>2, <2>3
<1>10. time' \in [Id -> Nat] /\ (\A j \in Id \ {c2} : time'[j] = tm2[j])
       /\ (c2 # NoId => time'[c2] = t)
  <2> HIDE DEF t
  <2> QED
    BY <1>6, <1>8, <1>9
<1>11. mcnt' = IF c2 = NoId THEN Stopped ELSE US2CLK(time'[c2])
  <2> HIDE DEF t, tm3
  <2> QED
    BY <1>9, <1>10
<1>12. c2 # NoId => time'[c2] <= tm2[c2]
  <2> HIDE DEF t
  <2> QED
    BY <1>8, <1>10
<1>13. GoesOn(using, next, s, q, c2, tm2)
  <2>1. next' = next /\ cur' = c2 /\ power' = "on" /\ using' = us2
    BY <1>0, <1>9
  <2> HIDE DEF t, tm3
  <2> QED
    BY <1>10, <1>11, <1>12, <2>1 DEF GoesOn
<1>14. WentOff(s, n, Used, next, cur, time, sum, using, 0, q, c2, tm2, B)
  BY <1>3, <1>5, <1>13 DEF WentOff
<1> QED
  BY <1>10, <1>14

\* The interrupt keeps the invariant.
LEMMA IsrStep ==
    ASSUME TInv, NEW d \in 0 .. MaxIsr, rtc_mirror_hisr(d)
    PROVE  TInv'
<1>0. TypeOK /\ PowerOK /\ power = "on" /\ mcnt = 0
      /\ UNCHANGED <<hTimer, power, source, target, wakeup_id, boot_tim>>
  BY DEF TInv, rtc_mirror_hisr
<1>1. PICK s, n, sum : Shows(s, n, sum)
  BY DEF TInv
<1>2. /\ IsList(s, n, Used, next, cur) /\ sum \in [Id -> Int]
      /\ cur # NoId /\ cur \in Id /\ using \in [Id -> BOOLEAN]
      /\ Used = {j \in Id : using[j]}
  <2>1. mcnt # Stopped
    BY <1>0 DEF Stopped
  <2> QED
    BY <1>0, <1>1, <2>1 DEF Shows, Apart, PowerOK, TypeOK, Used
<1>3. PICK q, c2, tm2, B :
             WentOff(s, n, Used, next, cur, time, sum, using, 0, q, c2, tm2, B)
  BY <1>0, <1>1, IsrIs
<1>4. /\ Remains(s, n, Used, next, cur, time, sum, q, c2, tm2, B)
      /\ GoesOn(using, next, s, q, c2, tm2) /\ called' = {s[k] : k \in 0 .. q - 1}
  BY <1>3 DEF WentOff
<1>5. Running'
  BY <1>2, <1>4, RemainsRuns
<1>6. called' \subseteq Id
  <2>1. n \in Nat /\ s \in [0 .. n - 1 -> Id] /\ q \in 1 .. n
    BY <1>2, <1>4 DEF IsList, Remains
  <2>2. \A k \in 0 .. q - 1 : s[k] \in Id
    BY <2>1
  <2> QED
    BY <1>4, <2>2
<1>7. (/\ hTimer \in BOOLEAN /\ source \in {"none", "counter", "both", "ext"}
       /\ target \in Int /\ target >= -MaxBoot
       /\ wakeup_id \in Id \cup {NoId} /\ boot_tim \in BOOLEAN /\ called \subseteq Id)'
  BY <1>0, <1>6 DEF TypeOK
<1> QED
  BY <1>5, <1>7, RunningIs

\* The list that a boot after the counter's end begins with: the timer that
\* ended the sleep is its first, also when the beacon has been received.
BootList(z, m, us, A) ==
    /\ us = [using EXCEPT ![wakeup_id] = @ \/ wakeup_id \in Beacon]
    /\ us \in [Id -> BOOLEAN]
    /\ IsList(z, m, {j \in Id : us[j]}, next, wakeup_id)
    /\ Apart({j \in Id : us[j]}, next, time, A)

\* There is such a list in every boot.
LEMMA BootListIs ==
    ASSUME TInv, power = "boot"
    PROVE  /\ TypeOK /\ wakeup_id \in Id /\ wakeup_id # NoId
           /\ \E z, m, us, A : BootList(z, m, us, A)
<1> DEFINE w == wakeup_id
           us == [using EXCEPT ![w] = @ \/ w \in Beacon]
           U == {j \in Id : us[j]}
<1>0. TypeOK /\ PowerOK
  BY DEF TInv
<1>1. PICK s, n, sum : Shows(s, n, sum)
  BY DEF TInv
<1>2. IsList(s, n, Used, next, cur) /\ Apart(Used, next, time, sum) /\ sum \in [Id -> Int]
  BY <1>1 DEF Shows, Apart
<1>3. /\ using \in [Id -> BOOLEAN] /\ next \in [Id -> Id \cup {NoId}]
      /\ time \in [Id -> Nat] /\ NoId \notin Id /\ Beacon \subseteq Id
  BY <1>0, Numbers DEF TypeOK
<1>4. CASE EndsSleep
  <2>1. cur = w /\ w # NoId /\ w \in Id
    BY <1>0, <1>4 DEF EndsSleep, TypeOK
  <2>2. using[w]
    <3>1. cur \in Used
      BY <1>2, <2>1, ListMembers
    <3> QED
      BY <2>1, <3>1 DEF Used
  <2>3. us = using
    BY <1>3, <2>1, <2>2
  <2>4. U = Used
    BY <2>3 DEF Used
  <2>6. BootList(s, n, us, sum)
    <3> HIDE DEF us
    <3> QED
      BY <1>2, <1>3, <2>1, <2>3, <2>4 DEF BootList, us
  <2> QED
    BY <1>0, <2>1, <2>6
<1>5. CASE Received
  <2>1. w \in Beacon /\ w \in Id /\ w # NoId /\ w \notin Used /\ next[w] = cur
    BY <1>3, <1>5 DEF Received, Used
  <2>2. us \in [Id -> BOOLEAN] /\ U = Used \cup {w}
    <3>1. us = [using EXCEPT ![w] = TRUE]
      BY <2>1
    <3> QED
      BY <1>3, <2>1, <3>1 DEF Used
  <2>3. n \in Nat /\ (cur = NoId <=> n = 0) /\ (cur # NoId => cur \in Used /\ cur = s[0])
    <3>1. n \in Nat /\ (cur = NoId <=> n = 0) /\ (cur # NoId => cur \in Used)
      BY <1>2, ListMembers
    <3> QED
      BY <1>2, <3>1 DEF IsList
  <2> DEFINE z == Inserted(s, n, 0, w)
             m == n + 1
             A == [sum EXCEPT ![w] = IF cur = NoId THEN 0 ELSE sum[cur] - time[cur]]
  <2>4. IsList(z, m, Used \cup {w}, next, w)
    <3> DEFINE p == 0
    <3>1. Links(s, n, next, p, w, next)
      BY <1>3, <2>1, <2>3 DEF Links
    <3>2. p \in 0 .. n /\ w = IF p = 0 THEN w ELSE cur
      BY <2>3
    <3>3. IsList(Inserted(s, n, p, w), n + 1, Used \cup {w}, next, IF p = 0 THEN w ELSE cur)
      <4> HIDE DEF p
      <4> QED
        BY <1>2, <2>1, <3>1, <3>2, ListInsert
    <3> QED
      BY <3>3
  <2>5. A \in [Id -> Int] /\ (\A j \in Used : A[j] = sum[j])
        /\ (cur # NoId => A[w] = sum[cur] - time[cur])
    <3>1. cur # NoId => sum[cur] - time[cur] \in Int
      BY <1>2, <1>3, <2>3 DEF Used
    <3> QED
      BY <1>2, <2>1, <3>1 DEF Used
  <2> HIDE DEF A, z, m
  <2>6. Apart(Used \cup {w}, next, time, A)
    <3>1. ASSUME NEW j \in Used \cup {w}, next[j] # NoId
          PROVE  A[next[j]] = A[j] + time[next[j]]
      <4>1. CASE j = w
        <5>1. next[j] = cur /\ cur # NoId /\ A[cur] = sum[cur] /\ A[j] = sum[cur] - time[cur]
          BY <2>1, <2>3, <2>5, <3>1, <4>1
        <5>2. sum[cur] \in Int /\ time[cur] \in Int
          BY <1>2, <1>3, <2>3, <5>1 DEF Used
        <5> QED
          BY <5>1, <5>2
      <4>2. CASE j # w
        <5>1. j \in Used /\ next[j] \in Used
          BY <1>2, <3>1, <4>2, ListMembers
        <5> QED
          BY <1>2, <2>5, <3>1, <5>1 DEF Apart
      <4> QED
        BY <4>1, <4>2
    <3> QED
      BY <2>5, <3>1 DEF Apart
  <2>8. BootList(z, m, us, A)
    <3> HIDE DEF us
    <3> QED
      BY <2>2, <2>4, <2>6 DEF BootList, us
  <2> QED
    BY <1>0, <2>1, <2>8
<1> QED
  BY <1>0, <1>4, <1>5 DEF PowerOK

\* What a boot after the counter's end subtracts.
CounterGap == IF target = 0 THEN 0 ELSE CLK2US(get_remain_counter + 3)

\* A boot after the counter's end: the first timer of its list goes off.
LEMMA CounterIs ==
    ASSUME TypeOK, SchedulerCounter, wakeup_id \in Id, wakeup_id # NoId,
           NEW z, NEW m, NEW us, NEW A, BootList(z, m, us, A), NEW U, U = {j \in Id : us[j]}
    PROVE  /\ hTimer' \in BOOLEAN /\ power' = "on" /\ source' = "none"
           /\ target' = 0 /\ wakeup_id' = NoId
           /\ boot_tim' = boot_tim
           /\ \E q, c2, tm2, B :
                /\ WentOff(z, m, U, next, wakeup_id, time, A, us, CounterGap, q, c2, tm2, B)
                /\ time' = tm2
<1> DEFINE w == wakeup_id
           gap == CounterGap
<1>0. power = "boot" /\ boot_tim' = boot_tim
  BY DEF SchedulerCounter, AfterCounter
<1>1. TypeOK /\ w \in Id /\ w # NoId
  OBVIOUS
<1>2. BootList(z, m, us, A)
  OBVIOUS
<1>3. /\ us = [using EXCEPT ![w] = @ \/ w \in Beacon] /\ us \in [Id -> BOOLEAN]
      /\ IsList(z, m, U, next, w) /\ Apart(U, next, time, A) /\ A \in [Id -> Int]
      /\ time \in [Id -> Nat]
  BY <1>1, <1>2 DEF BootList, Apart, TypeOK
<1>4. gap \in Nat
  <2>1. get_remain_counter + 3 \in Nat
    BY <1>1 DEF TypeOK, get_remain_counter, Abs
  <2> QED
    BY <2>1, CLK2USRounds DEF CounterGap
<1>5. PICK q, c2, tm2, B :
             /\ ProcessCallback(L(us, next, time, w), w, gap)
                  = GoneOff(us, next, tm2, z, m, q)
             /\ Remains(z, m, U, next, w, time, A, q, c2, tm2, B)
             /\ Shifted(z, q, U, w, A, gap, c2, tm2, B)
  <2> HIDE DEF w, gap
  <2>1. /\ IsList(z, m, U, next, w) /\ w # NoId /\ time \in [Id -> Nat]
        /\ Apart(U, next, time, A) /\ us \in [Id -> BOOLEAN] /\ U = {j \in Id : us[j]}
        /\ gap \in Nat
    BY <1>1, <1>3, <1>4
  <2> QED
    BY <2>1, CallbackRemains
<1> DEFINE p == ProcessCallback(L(us, next, time, w), w, gap)
           Q == {z[k] : k \in 0 .. q - 1}
           us2 == [j \in Id |-> us[j] /\ j \notin Q]
<1>6. /\ p.called = Q /\ p.list = L(us2, next, tm2, c2) /\ p.list.using = us2
      /\ p.list.next = next /\ p.list.time = tm2 /\ p.list.cur = c2
  <2> HIDE DEF gap
  <2> QED
    BY <1>5, GoneOffIs DEF Remains
<1>7. Started(L(us2, next, tm2, c2)) /\ called' = Q
  <2>1. LET l0 == L([using EXCEPT ![w] = @ \/ w \in Beacon], next, time, w)
            p0 == ProcessCallback(l0, w, gap)
        IN  Started(p0.list) /\ called' = p0.called
    BY DEF SchedulerCounter, CounterBoot, CounterGap
  <2>2. Started(p.list) /\ called' = p.called
    <3> HIDE DEF gap
    <3> QED
      BY <1>3, <2>1
  <2> HIDE DEF p, us2, Q
  <2> QED
    BY <1>6, <2>2
<1>8. c2 # NoId => c2 \in Id /\ us2[c2]
  <2> DEFINE U2 == U \ Q
             z2 == Dropped(z, m, q)
             m2 == m - q
  <2>1. IsList(z2, m2, U2, next, c2)
    BY <1>5 DEF Remains
  <2>2. c2 # NoId => c2 \in U2
    <3> HIDE DEF U2, z2, m2
    <3> QED
      BY <2>1, ListMembers
  <2> QED
    BY <2>2
<1>9. /\ using' = us2 /\ next' = next /\ time' = tm2 /\ cur' = c2
      /\ mcnt' = (IF c2 = NoId THEN Stopped ELSE US2CLK(tm2[c2]))
      /\ hTimer' \in BOOLEAN
      /\ power' = "on" /\ source' = "none" /\ target' = 0 /\ wakeup_id' = NoId
  <2>1. hTimer \in BOOLEAN /\ (c2 # NoId => us2[c2])
    BY <1>1, <1>8 DEF TypeOK
  <2> HIDE DEF us2
  <2> QED
    BY <1>7, <2>1, StartedIs
<1>10. GoesOn(us, next, z, q, c2, tm2)
  <2>1. tm2 \in [Id -> Nat] /\ (c2 # NoId => tm2[c2] <= tm2[c2])
    <3>1. tm2 \in [Id -> Nat]
      BY <1>5 DEF Remains
    <3> QED
      BY <1>8, <3>1
  <2> QED
    BY <1>9, <2>1 DEF GoesOn
<1>12. WentOff(z, m, U, next, w, time, A, us, gap, q, c2, tm2, B)
  <2> HIDE DEF gap, w
  <2> QED
    BY <1>5, <1>7, <1>10 DEF WentOff
<1> HIDE DEF us2, p
<1> QED
  BY <1>0, <1>9, <1>12

\* It keeps the invariant.
LEMMA CounterStep == ASSUME TInv, SchedulerCounter PROVE TInv'
<1> DEFINE w == wakeup_id
<1>0. power = "boot"
  BY DEF SchedulerCounter, AfterCounter
<1>1. TypeOK /\ w \in Id /\ w # NoId
  BY <1>0, BootListIs
<1>2. PICK z, m, us, A : BootList(z, m, us, A)
  BY <1>0, BootListIs
<1> DEFINE U == {j \in Id : us[j]}
<1>3. us \in [Id -> BOOLEAN] /\ IsList(z, m, U, next, w)
  BY <1>1, <1>2 DEF BootList, Apart, TypeOK
<1>u. U = {j \in Id : us[j]}
  OBVIOUS
<1> HIDE DEF U
<1>4. /\ hTimer' \in BOOLEAN /\ power' = "on" /\ source' = "none"
      /\ target' = 0 /\ wakeup_id' = NoId
      /\ boot_tim' = boot_tim
      /\ \E q, c2, tm2, B :
                /\ WentOff(z, m, U, next, w, time, A, us, CounterGap, q, c2, tm2, B)
                /\ time' = tm2
  BY <1>1, <1>2, <1>u, CounterIs
<1>5. PICK q, c2, tm2, B :
         WentOff(z, m, U, next, w, time, A, us, CounterGap, q, c2, tm2, B)
  BY <1>4
<1>6. /\ Remains(z, m, U, next, w, time, A, q, c2, tm2, B)
      /\ GoesOn(us, next, z, q, c2, tm2) /\ called' = {z[k] : k \in 0 .. q - 1}
  BY <1>5 DEF WentOff
<1> HIDE DEF w
<1>10. Running'
  BY <1>3, <1>6, <1>u, RemainsRuns
<1>11. called' \subseteq Id
  <2>1. m \in Nat /\ z \in [0 .. m - 1 -> Id] /\ q \in 1 .. m
    BY <1>3, <1>6 DEF IsList, Remains
  <2>2. \A k \in 0 .. q - 1 : z[k] \in Id
    BY <2>1
  <2> QED
    BY <1>6, <2>2
<1>12. (/\ hTimer \in BOOLEAN /\ source \in {"none", "counter", "both", "ext"}
        /\ target \in Int /\ target >= -MaxBoot
        /\ wakeup_id \in Id \cup {NoId} /\ boot_tim \in BOOLEAN /\ called \subseteq Id)'
  <2>1. 0 >= -MaxBoot
    BY Numbers
  <2> QED
    BY <1>1, <1>4, <1>11, <2>1 DEF TypeOK
<1> QED
  BY <1>10, <1>12, RunningIs

-----------------------------------------------------------------------------
(* The invariant.                                                          *)

\* Every step keeps the invariant, but those that spoil the list.
LEMMA TStep == TInv /\ [Next]_vars => TInv' \/ Spoils
<1> SUFFICES ASSUME TInv, [Next]_vars, ~Spoils PROVE TInv'
  OBVIOUS
<1>1. ASSUME NEW i \in Id, NEW t \in Times,
             DA16X_SET_TIMER(i, t) \/ DA16X_SET_WAKEUP_TIMER(i, t)
      PROVE  TInv'
  BY <1>1, SetTimerStep, SetWakeupStep
<1>2. ASSUME NEW i \in Id, DA16X_KILL_TIMER(i) PROVE TInv'
  <2>1. CASE i = cur
    BY <1>2, <2>1, KillFirstStep
  <2>2. CASE i # cur
    BY <1>2, <2>2, KillOtherStep
  <2> QED
    BY <2>1, <2>2
<1>3. ASSUME NEW d \in 0 .. MaxIsr, rtc_mirror_hisr(d) PROVE TInv'
  BY <1>3, IsrStep
<1>4. CASE (\E ext \in BOOLEAN : Wakeup(ext)) \/ FullBoot
  BY <1>4, BootStep
<1>5. CASE Scheduler
  BY <1>5, TimStep, CounterStep, ExtStep DEF Scheduler
<1>6. CASE SchedulerReset
  BY <1>6, ResetStep
<1>7. CASE Tick
  BY <1>7, TickStep
<1>8. CASE UNCHANGED vars
  <2>1. PICK s, n, sum : Shows(s, n, sum)
    BY DEF TInv
  <2>2. Shows(s, n, sum)'
    BY <1>8, <2>1 DEF vars, Shows, Used
  <2>3. TypeOK' /\ PowerOK'
    BY <1>8 DEF vars, TInv, TypeOK, PowerOK, EndsSleep, Received
  <2> QED
    BY <2>2, <2>3 DEF TInv
<1> QED
  BY <1>1, <1>2, <1>3, <1>4, <1>5, <1>6, <1>7, <1>8 DEF Next

\* The types always hold, and the invariant of a list unless it is spoilt.
Inv == TypeOK /\ (power # "lost" => TInv)

\* A step that spoils the list changes nothing but that.
LEMMA SpoilsIs ==
    ASSUME TypeOK, Spoils
    PROVE  /\ power' = "lost"
           /\ called' \subseteq {i \in Id : using[i] \/ (power = "boot" /\ i = wakeup_id)}
           /\ power \in {"on", "boot"} /\ TypeOK'
<1>1. Lost /\ power \in {"on", "boot"}
  BY DEF Spoils, KillInterrupted, SetInterrupted, SetFails, IsrLate, BootFails, AfterCounter,
     AfterExt
<1>2. /\ power' = "lost"
      /\ called' \subseteq {i \in Id : using[i] \/ (power = "boot" /\ i = wakeup_id)}
      /\ UNCHANGED <<using, next, time, cur, hTimer, mcnt, source, target, wakeup_id, boot_tim>>
  BY <1>1 DEF Lost, list
<1>3. TypeOK'
  BY <1>2 DEF TypeOK
<1> QED
  BY <1>1, <1>2, <1>3

\* A spoilt list stays as it is until a reset.
LEMMA LostStep ==
    ASSUME power = "lost", [Next]_vars PROVE SchedulerReset \/ UNCHANGED vars
  BY DEF Next, DA16X_SET_TIMER, DA16X_SET_WAKEUP_TIMER, Awake, DA16X_KILL_TIMER,
     rtc_mirror_hisr, Wakeup, Scheduler, SchedulerTim, SchedulerCounter, AfterCounter,
     SchedulerExt, AfterExt, FullBoot, Tick, Spoils, KillInterrupted, SetInterrupted,
     SetFails, IsrLate, BootFails

\* Every step keeps it.
LEMMA InvStep == Inv /\ [Next]_vars => Inv'
<1> SUFFICES ASSUME Inv, [Next]_vars PROVE Inv'
  OBVIOUS
<1>1. CASE TInv'
  BY <1>1 DEF Inv, TInv
<1>2. CASE power # "lost" /\ ~TInv'
  <2>1. TypeOK /\ Spoils
    BY <1>2, TStep DEF Inv
  <2>2. TypeOK' /\ power' = "lost"
    BY <2>1, SpoilsIs
  <2> QED
    BY <2>2 DEF Inv
<1>3. CASE power = "lost"
  <2>1. CASE SchedulerReset
    BY <1>1, <2>1, ResetStep
  <2>2. CASE UNCHANGED vars
    <3>1. TypeOK' /\ power' = "lost"
      BY <1>3, <2>2 DEF Inv, vars, TypeOK
    <3> QED
      BY <3>1 DEF Inv
  <2> QED
    BY <1>3, <2>1, <2>2, LostStep
<1> QED
  BY <1>1, <1>2, <1>3

\* It holds at power-on.
LEMMA InvInit == Init => Inv
  BY TInit DEF Inv, TInv

\* The types hold in every reachable state, for every value of the constants:
\* no time of a timer and no counter is ever negative.
THEOREM RtcTypes == Spec => []TypeOK
<1>1. Inv => TypeOK
  BY DEF Inv
<1> QED
  BY <1>1, InvInit, InvStep, PTL DEF Spec

\* What the invariant says of the pointers.
LEMMA SoundList == TInv => ListSound
<1> SUFFICES ASSUME TInv PROVE ListSound
  OBVIOUS
<1>1. PICK s, n, sum : Shows(s, n, sum)
  BY DEF TInv
<1>2. IsList(s, n, Used, next, cur)
  BY <1>1 DEF Shows
<1> DEFINE N == Cardinality(Id)
           f == Chain(next, cur)
           D == {k \in 0 .. N : f[k] # NoId}
<1>3. n <= N /\ N \in Nat /\ n \in Nat /\ s \in [0 .. n - 1 -> Id] /\ NoId \notin Id
      /\ Used = {s[k] : k \in 0 .. n - 1}
  <2>1. n <= N /\ N \in Nat
    BY <1>2, ListLength
  <2> QED
    BY <1>2, <2>1, Numbers DEF IsList
<1>4. f = [k \in 0 .. N |-> IF k < n THEN s[k] ELSE NoId]
  BY <1>2, ChainIs
<1> HIDE DEF f, N
<1>5. ASSUME NEW k \in 0 .. N
      PROVE  f[k] = IF k < n THEN s[k] ELSE NoId
  BY <1>4
<1>6. D = 0 .. n - 1
  <2>1. \A k \in 0 .. n - 1 : k \in 0 .. N /\ f[k] # NoId
    BY <1>3, <1>5
  <2>2. \A k \in 0 .. N : f[k] # NoId => k \in 0 .. n - 1
    BY <1>3, <1>5
  <2> QED
    BY <2>1, <2>2
<1>7. InList = Used
  <2>1. InList = {f[k] : k \in 0 .. N} \ {NoId}
    BY DEF InList, f, N
  <2>2. ASSUME NEW k \in 0 .. N, f[k] # NoId PROVE f[k] \in Used
    BY <1>3, <1>5, <2>2
  <2>3. ASSUME NEW k \in 0 .. n - 1 PROVE s[k] \in {f[j] : j \in 0 .. N} \ {NoId}
    <3>1. k \in 0 .. N /\ f[k] = s[k] /\ s[k] # NoId
      BY <1>3, <1>5
    <3> QED
      BY <3>1
  <2> QED
    BY <1>3, <2>1, <2>2, <2>3
<1>8. Cardinality(Used) = Cardinality(0 .. n - 1)
  <2>1. s \in Bijection(0 .. n - 1, Used)
    <3>1. \A j, k \in 0 .. n - 1 : s[j] = s[k] => j = k
      BY <1>2 DEF IsList
    <3>2. s \in [0 .. n - 1 -> Used]
      BY <1>3
    <3> QED
      BY <1>3, <3>1, <3>2 DEF Bijection, Injection, Surjection, IsInjective
  <2>2. IsFiniteSet(0 .. n - 1)
    BY <1>3, FS_Interval
  <2>3. \E h : h \in Bijection(0 .. n - 1, Used)
    BY <2>1
  <2> QED
    BY <2>2, <2>3, FS_Bijection DEF ExistsBijection
<1>9. Cardinality(InList) = Cardinality({k \in 0 .. Cardinality(Id) : Chain(next, cur)[k] # NoId})
  <2>1. Cardinality(InList) = Cardinality(D)
    <3> HIDE DEF D
    <3> QED
      BY <1>6, <1>7, <1>8
  <2> QED
    BY <2>1 DEF f, N
<1>10. power = "on" => (mcnt = Stopped <=> cur = NoId)
  BY DEF TInv, PowerOK
<1>11. Used = {i \in Id : using[i]}
  BY DEF Used
<1> QED
  BY <1>7, <1>9, <1>10, <1>11 DEF ListSound

\* The list holds every timer in use once, and it ends, for any number of
\* timers and whatever is set, killed, called back, slept through and booted: no
\* timer gets lost, is in the list twice, or is called after it was freed, but in
\* the ways that are listed under Spoils.
THEOREM RtcListSound == Spec => []ListSound
<1>1. Inv => ListSound
  BY SoundList DEF Inv, ListSound
<1> QED
  BY <1>1, InvInit, InvStep, PTL DEF Spec

\* The alarm of the list's first timer, and those of the others by their sums.
Head ==
    IF power = "on" THEN mcnt * Num
    ELSE target * Num + IF cur = wakeup_id \/ cur = NoId THEN 0 ELSE time[cur] * Den

\* What Alarm computes for a timer in use.
LEMMA AlarmIs ==
    ASSUME TypeOK, power # "lost", NEW s, NEW n, NEW sum, Shows(s, n, sum), NEW i \in Used
    PROVE  Alarm[i] = Head + (sum[i] - sum[cur]) * Den /\ Head \in Int
<1> DEFINE N == Cardinality(Id)
           f == Chain(next, cur)
           C(h) == h = [k \in 0 .. N |->
                          IF k = 0 THEN Head
                          ELSE IF f[k] = NoId THEN 0 ELSE h[k - 1] + time[f[k]] * Den]
           E == [k \in 0 .. N |-> IF k = 0 THEN Head
                                  ELSE IF k < n THEN Head + (sum[s[k]] - sum[cur]) * Den
                                  ELSE 0]
           e == CHOOSE h : C(h)
<1>1. IsList(s, n, Used, next, cur) /\ Apart(Used, next, time, sum) /\ sum \in [Id -> Int]
  BY DEF Shows, Apart
<1>2. n <= N /\ N \in Nat /\ n \in Nat \ {0} /\ s \in [0 .. n - 1 -> Id] /\ NoId \notin Id
      /\ Used = {s[k] : k \in 0 .. n - 1} /\ cur = s[0] /\ cur \in Id
      /\ time \in [Id -> Nat]
  <2>1. n <= N /\ N \in Nat
    BY <1>1, ListLength
  <2>2. n # 0
    BY <1>1, ListMembers
  <2> QED
    BY <1>1, <2>1, <2>2, Numbers DEF IsList, TypeOK
<1>3. Head \in Int
  <2>1. mcnt \in Int /\ target \in Int /\ time[cur] \in Int
    BY <1>2 DEF TypeOK, Stopped
  <2>2. mcnt * Num \in Int /\ target * Num \in Int /\ time[cur] * Den \in Int
    BY <2>1, Numbers
  <2> QED
    BY <2>2 DEF Head
<1>4. f = [k \in 0 .. N |-> IF k < n THEN s[k] ELSE NoId]
  BY <1>1, ChainIs
<1> HIDE DEF f
<1>5. ASSUME NEW k \in 0 .. N
      PROVE  E[k] = IF k = 0 THEN Head
                    ELSE IF f[k] = NoId THEN 0 ELSE E[k - 1] + time[f[k]] * Den
  <2>1. CASE k = 0 \/ k >= n
    BY <1>2, <1>4, <2>1
  <2>2. CASE k # 0 /\ k < n
    <3>1. k - 1 \in 0 .. n - 1 /\ k - 1 # n - 1 /\ (k - 1) + 1 = k /\ k - 1 \in 0 .. N
          /\ k \in 0 .. n - 1
      BY <1>2, <2>2
    <3>2. next[s[k - 1]] = s[k] /\ s[k - 1] \in Used /\ s[k] \in Id /\ s[k - 1] \in Id
      BY <1>1, <1>2, <3>1 DEF IsList
    <3>3. sum[s[k]] = sum[s[k - 1]] + time[s[k]]
      BY <1>1, <1>2, <3>2 DEF Apart
    <3>4. f[k] = s[k] /\ f[k] # NoId
      BY <1>2, <1>4, <2>2, <3>2
    <3>5. E[k - 1] = Head + (sum[s[k - 1]] - sum[cur]) * Den
      <4>1. CASE k - 1 = 0
        <5>1. sum[s[k - 1]] - sum[cur] = 0
          BY <1>1, <1>2, <4>1
        <5> QED
          BY <1>3, <3>1, <4>1, <5>1, Numbers
      <4>2. CASE k - 1 # 0
        <5>1. k - 1 < n
          BY <1>2, <2>2
        <5> QED
          BY <3>1, <4>2, <5>1
      <4> QED
        BY <4>1, <4>2
    <3>6. E[k] = Head + (sum[s[k]] - sum[cur]) * Den
      BY <2>2
    <3> DEFINE a == sum[s[k - 1]]
               b == sum[s[k]]
               c == sum[cur]
               t == time[s[k]]
               H == Head
    <3>7. a \in Int /\ b \in Int /\ c \in Int /\ t \in Int /\ b = a + t /\ H \in Int
      <4>1. a \in Int /\ b \in Int /\ c \in Int /\ t \in Int
        <5>1. sum \in [Id -> Int] /\ time \in [Id -> Nat] /\ cur \in Id
          BY <1>1, <1>2
        <5> HIDE DEF E, H
        <5> QED
          BY <3>2, <5>1
      <4>2. b = a + t
        BY <3>3
      <4> HIDE DEF a, b, c, t
      <4> QED
        BY <1>3, <4>1, <4>2
    <3>8. H + (b - c) * Den = H + (a - c) * Den + t * Den
      <4> HIDE DEF a, b, c, t, H
      <4>1. (b - c) * Den = (a - c) * Den + t * Den /\ (a - c) * Den \in Int /\ t * Den \in Int
        BY <3>7, Numbers
      <4> QED
        BY <3>7, <4>1
    <3> HIDE DEF E
    <3> QED
      BY <2>2, <3>4, <3>5, <3>6, <3>8
  <2> QED
    BY <1>2, <2>1, <2>2
<1>6. C(E)
  BY <1>5
<1>7. C(e)
  <2> HIDE DEF C, E
  <2> QED
    BY <1>6
<1>8. \A k \in 0 .. N : e[k] = E[k]
  <2> HIDE DEF e
  <2>1. e[0] = E[0]
    BY <1>2, <1>7
  <2>2. ASSUME NEW k \in 0 .. N - 1, e[k] = E[k] PROVE e[k + 1] = E[k + 1]
    <3>1. k + 1 \in 0 .. N /\ k + 1 # 0 /\ (k + 1) - 1 = k
      BY <1>2
    <3>2. e[k + 1] = IF f[k + 1] = NoId THEN 0 ELSE e[k] + time[f[k + 1]] * Den
      BY <1>7, <3>1
    <3> HIDE DEF E
    <3>3. E[k + 1] = IF f[k + 1] = NoId THEN 0 ELSE E[k] + time[f[k + 1]] * Den
      BY <1>5, <3>1
    <3> QED
      BY <2>2, <3>2, <3>3
  <2>3. N \in Nat
    BY <1>2
  <2> HIDE DEF E, N
  <2> QED
    BY <2>1, <2>2, <2>3, SameValues
<1>9. PICK p \in 0 .. n - 1 : i = s[p]
  BY <1>2
<1>10. (CHOOSE k \in DOMAIN f : f[k] = i) = p
  <2>1. p \in DOMAIN f /\ f[p] = i
    BY <1>2, <1>4, <1>9
  <2>2. ASSUME NEW k \in DOMAIN f, f[k] = i PROVE k = p
    <3>1. k \in 0 .. N
      BY <1>4
    <3>2. k < n
      BY <1>2, <1>4, <1>9, <2>2, <3>1
    <3>3. k \in 0 .. n - 1 /\ s[k] = s[p]
      BY <1>2, <1>4, <1>9, <2>2, <3>1, <3>2
    <3> QED
      BY <1>1, <3>3 DEF IsList
  <2> QED
    BY <2>1, <2>2
<1>11. Alarm[i] = e[p]
  <2>1. i \in Id /\ using[i]
    BY DEF Used
  <2>2. Alarm = [j \in Id |->
           IF using[j] THEN e[CHOOSE k \in DOMAIN f : f[k] = j]
           ELSE IF j = wakeup_id /\ power \in {"tim", "boot"}
           THEN target * Num ELSE Off]
    BY DEF Alarm, Head, f
  <2> HIDE DEF e
  <2> QED
    BY <1>10, <2>1, <2>2
<1>12. e[p] = Head + (sum[i] - sum[cur]) * Den
  <2>1. p \in 0 .. N /\ p < n
    BY <1>2
  <2>2. e[p] = E[p]
    <3> HIDE DEF e, E
    <3> QED
      BY <1>8, <2>1
  <2>3. CASE p = 0
    <3>1. sum[i] - sum[cur] = 0
      BY <1>1, <1>2, <1>9, <2>3
    <3> HIDE DEF e
    <3> QED
      BY <1>3, <2>1, <2>2, <2>3, <3>1, Numbers
  <2>4. CASE p # 0
    <3> HIDE DEF e
    <3> QED
      BY <1>9, <2>1, <2>2, <2>4
  <2> QED
    BY <2>3, <2>4
<1> HIDE DEF e
<1> QED
  BY <1>3, <1>11, <1>12

-----------------------------------------------------------------------------
(* The alarms of RtcAlarms.                                                *)

\* The alarms of S are at the times O from h on, and the others are off.
Alarms(al, S, h, O) ==
    /\ al \in [Id -> Int] /\ S \subseteq Id
    /\ \A i \in S : /\ h \in Int /\ O[i] \in Int
                   /\ al[i] = h + O[i] * Den /\ al[i] > Off
    /\ \A i \in Id \ S : al[i] = Off

\* A counter at h is read in microseconds, for a timer that is b behind it.
LEMMA ReadBounds ==
    ASSUME NEW h \in Nat, NEW b \in Int
    PROVE  /\ (CLK2US(h) + b) * Den <= h * Num + b * Den
           /\ h * Num + b * Den <= (CLK2US(h) + b) * Den + Den
           /\ CLK2US(h) + b \in Int /\ h * Num + b * Den \in Int
<1> DEFINE r == CLK2US(h)
<1>1. r \in Nat /\ r * Den <= h * Num /\ h * Num < r * Den + Den
  BY CLK2USRounds
<1> HIDE DEF r
<1>2. (r + b) * Den = r * Den + b * Den
  BY <1>1, Numbers
<1>3. {r * Den, b * Den, h * Num, Den} \subseteq Int
  BY <1>1, Numbers
<1>4. /\ (r + b) * Den <= h * Num + b * Den
      /\ h * Num + b * Den <= (r + b) * Den + Den
      /\ r + b \in Int /\ h * Num + b * Den \in Int
  BY <1>1, <1>2, <1>3
<1> QED
  BY <1>4 DEF r

\* A counter is started for a time f, of which a timer at the time x is x - f
\* behind.
LEMMA StartBounds ==
    ASSUME NEW f \in Nat, NEW x \in Int
    PROVE  /\ US2CLK(f) * Num + (x - f) * Den <= x * Den
           /\ x * Den <= US2CLK(f) * Num + (x - f) * Den + Num
           /\ US2CLK(f) * Num + (x - f) * Den \in Int /\ x * Den \in Int
<1> DEFINE r == US2CLK(f)
<1>1. r \in Nat /\ r * Num <= f * Den /\ f * Den < r * Num + Num
  BY US2CLKRounds
<1> HIDE DEF r
<1>2. (x - f) * Den = x * Den - f * Den
  BY Numbers
<1>3. {r * Num, f * Den, x * Den, Num} \subseteq Int
  BY <1>1, Numbers
<1>4. /\ r * Num + (x - f) * Den <= x * Den
      /\ x * Den <= r * Num + (x - f) * Den + Num
      /\ r * Num + (x - f) * Den \in Int /\ x * Den \in Int
  BY <1>1, <1>2, <1>3
<1> QED
  BY <1>4 DEF r

\* The same for a sleep, which is not too short.
LEMMA SleepBounds ==
    ASSUME NEW f \in Nat, NEW x \in Int
    PROVE  /\ US2CLK(AtLeast(f)) * Num + (x - f) * Den <= x * Den + MinSleep * Den
           /\ x * Den <= US2CLK(AtLeast(f)) * Num + (x - f) * Den + Num
           /\ US2CLK(AtLeast(f)) * Num + (x - f) * Den \in Int /\ x * Den \in Int
<1> DEFINE g == AtLeast(f)
           r == US2CLK(g)
<1>1. g \in Nat /\ g >= f /\ g <= f + MinSleep
  <2>1. MinSleep \in Nat
    BY Numbers
  <2> QED
    BY <2>1, AtLeastNat
<1> HIDE DEF g
<1>2. r \in Nat /\ r * Num <= g * Den /\ g * Den < r * Num + Num
  BY <1>1, US2CLKRounds
<1> HIDE DEF r
<1>3. f * Den <= g * Den /\ g * Den <= f * Den + MinSleep * Den
  <2>1. f * Den <= g * Den
    BY <1>1, Numbers, MulLe
  <2>2. g * Den <= (f + MinSleep) * Den
    BY <1>1, Numbers, MulLe
  <2>3. (f + MinSleep) * Den = f * Den + MinSleep * Den
    BY Numbers
  <2> QED
    BY <2>1, <2>2, <2>3
<1>4. (x - f) * Den = x * Den - f * Den
  BY Numbers
<1>5. {r * Num, f * Den, g * Den, x * Den, Num, MinSleep * Den} \subseteq Int
  BY <1>1, <1>2, Numbers
<1>6. /\ r * Num + (x - f) * Den <= x * Den + MinSleep * Den
      /\ x * Den <= r * Num + (x - f) * Den + Num
      /\ r * Num + (x - f) * Den \in Int /\ x * Den \in Int
  BY <1>2, <1>3, <1>4, <1>5
<1> QED
  BY <1>6 DEF r, g

\* A boot that began at t has taken the gap, with e clocks more: a timer that
\* was at the time o and is at b now is not too early, and late by less than a
\* slice.
LEMMA GapBounds ==
    ASSUME Den <= Num, NEW t \in Int, t <= 0, NEW e \in Nat \ {0}, NEW gap,
           gap = CLK2US(Abs(t) + e), NEW o \in Int, NEW b \in Int, Moved(o, b, gap)
    PROVE  /\ t * Num + o * Den <= b * Den + e * Num
           /\ b = 0 \/ b * Den <= t * Num + o * Den + Slice * Den
           /\ t * Num + o * Den \in Int /\ b * Den \in Int
<1>1. Abs(t) + e = e - t /\ e - t \in Nat
  BY DEF Abs
<1>2. gap \in Nat /\ gap * Den <= (e - t) * Num /\ (e - t) * Num < gap * Den + Den
  BY <1>1, CLK2USRounds
<1>3. (e - t) * Num = e * Num - t * Num
  BY Numbers
<1>4. e * Num >= Num
  <2>1. 1 <= e /\ e \in Int /\ 1 \in Int /\ Num \in Nat
    BY Numbers
  <2>2. 1 * Num <= e * Num
    BY <2>1, MulLe
  <2> QED
    BY <2>1, <2>2
<1>5. {t * Num, e * Num, gap * Den, o * Den, b * Den, Slice * Den, Num, Den} \subseteq Int
  BY <1>2, Numbers
<1>6. o * Den <= b * Den + gap * Den
  <2>1. o <= b + gap /\ b + gap \in Int
    BY <1>2 DEF Moved
  <2>2. o * Den <= (b + gap) * Den
    BY <2>1, Numbers, MulLe
  <2>3. (b + gap) * Den = b * Den + gap * Den
    BY <1>2, Numbers
  <2> QED
    BY <2>2, <2>3
<1>7. b = 0 \/ b * Den + gap * Den <= o * Den + Slice * Den
  <2> SUFFICES ASSUME b # 0 PROVE b * Den + gap * Den <= o * Den + Slice * Den
    OBVIOUS
  <2>1. b + gap <= o + Slice /\ b + gap \in Int /\ o + Slice \in Int
    BY <1>2, Numbers DEF Moved
  <2>2. (b + gap) * Den <= (o + Slice) * Den
    BY <2>1, Numbers, MulLe
  <2>3. (b + gap) * Den = b * Den + gap * Den /\ (o + Slice) * Den = o * Den + Slice * Den
    BY <1>2, Numbers
  <2> QED
    BY <2>2, <2>3
<1>8. t * Num + o * Den <= b * Den + e * Num
  BY <1>2, <1>3, <1>5, <1>6
<1>9. b = 0 \/ b * Den <= t * Num + o * Den + Slice * Den
  BY <1>2, <1>3, <1>4, <1>5, <1>7
<1> QED
  BY <1>5, <1>8, <1>9

\* The times from the first timer on.
Gaps(sum) == [i \in Id |-> sum[i] - sum[cur]]
\* The times from the timer on that ended the sleep and has left the list.
BootGaps(sum) ==
    [i \in Id |-> IF i = wakeup_id THEN 0 ELSE time[cur] + (sum[i] - sum[cur])]

\* The alarms that the list sum shows, when the system is on, from a sleep to
\* the boot, and after a beacon.
ViewIs(sum) ==
    /\ power = "on" => Alarms(Alarm, Used, mcnt * Num, Gaps(sum))
    /\ power # "on" /\ EndsSleep => Alarms(Alarm, Used, target * Num, Gaps(sum))
    /\ power \in {"tim", "boot"} /\ Received =>
         Alarms(Alarm, Used \cup {wakeup_id}, target * Num, BootGaps(sum))

\* In every state a list shows the alarms so.
Views == \A s, n, sum : TypeOK /\ PowerOK /\ Shows(s, n, sum) => ViewIs(sum)

\* Alarm for a timer that is not in use, and in a list that is spoilt.
LEMMA AlarmUnused ==
    /\ power # "lost" =>
         \A i \in Id \ Used : Alarm[i] = IF i = wakeup_id /\ power \in {"tim", "boot"}
                                         THEN target * Num ELSE Off
    /\ power = "lost" => \A i \in Id : Alarm[i] = Off
    /\ DOMAIN Alarm = Id /\ Alarm = [i \in Id |-> Alarm[i]]
  BY DEF Alarm, Used

\* No alarm that is set is off.
LEMMA OffBelow ==
    ASSUME TypeOK
    PROVE  /\ Off \in Int /\ Off < 0 /\ target * Num \in Int /\ Off < target * Num
<1>1. MaxBoot \in Nat /\ Num \in Nat \ {0} /\ target \in Int /\ target >= -MaxBoot
  BY Numbers DEF TypeOK
<1>2. -(MaxBoot + 1) \in Int /\ -MaxBoot \in Int /\ -MaxBoot <= target
  BY <1>1
<1>3. (-MaxBoot) * Num <= target * Num
  BY <1>1, <1>2, MulLe
<1>4. -(MaxBoot + 1) * Num = (-MaxBoot) * Num - Num
  BY <1>1
<1>5. (-MaxBoot) * Num \in Int /\ target * Num \in Int /\ (-MaxBoot) * Num <= 0
  BY <1>1
<1> QED
  BY <1>1, <1>3, <1>4, <1>5 DEF Off

\* The alarm of every timer, by the list.
LEMMA ViewsAll == Views
<1> SUFFICES ASSUME TypeOK, PowerOK, NEW s, NEW n, NEW sum, Shows(s, n, sum)
             PROVE  ViewIs(sum)
  BY DEF Views
<1>1. /\ IsList(s, n, Used, next, cur) /\ Apart(Used, next, time, sum) /\ sum \in [Id -> Int]
      /\ time \in [Id -> Nat] /\ Used \subseteq Id
  BY DEF Shows, Apart, TypeOK, Used
<1>2. Off \in Int /\ Off < 0 /\ target * Num \in Int /\ Off < target * Num
  BY OffBelow
<1>3. ASSUME NEW i \in Used
      PROVE  /\ cur # NoId /\ cur \in Id /\ i \in Id
             /\ sum[i] - sum[cur] \in Nat
             /\ (sum[i] - sum[cur]) * Den \in Nat
             /\ Alarm[i] = Head + (sum[i] - sum[cur]) * Den /\ Head \in Int
  <2>1. cur # NoId /\ cur \in Id
    <3>1. cur # NoId
      BY <1>1, ListMembers
    <3> QED
      BY <3>1 DEF TypeOK
  <2>2. PICK k \in 0 .. n - 1 : i = s[k]
    BY <1>1, ListMembers
  <2>3. cur = s[0] /\ 0 \in 0 .. k
    BY <1>1, <2>1, <2>2 DEF IsList
  <2>4. sum[cur] <= sum[i]
    <3> DEFINE z == 0
    <3>1. z \in 0 .. k
      BY <2>3
    <3> HIDE DEF z
    <3>2. sum[s[z]] <= sum[s[k]]
      BY <1>1, <3>1, SumsRise
    <3> QED
      BY <2>2, <2>3, <3>2 DEF z
  <2>5. i \in Id /\ sum[i] \in Int /\ sum[cur] \in Int
    BY <1>1, <2>1
  <2>6. sum[i] - sum[cur] \in Nat
    BY <2>4, <2>5
  <2>7. (sum[i] - sum[cur]) * Den \in Nat
    <3> DEFINE b == sum[i] - sum[cur]
    <3> HIDE DEF b
    <3>1. b \in Nat
      BY <2>6 DEF b
    <3>2. b * Den \in Nat
      BY <3>1, Numbers
    <3> QED
      BY <3>2 DEF b
  <2>8. Alarm[i] = Head + (sum[i] - sum[cur]) * Den /\ Head \in Int
    BY AlarmIs DEF PowerOK
  <2> QED
    BY <2>1, <2>5, <2>6, <2>7, <2>8
<1>4. /\ \A i \in Id \ Used : Alarm[i] = IF i = wakeup_id /\ power \in {"tim", "boot"}
                                         THEN target * Num ELSE Off
      /\ Alarm = [i \in Id |-> Alarm[i]]
  BY AlarmUnused DEF PowerOK
<1>5. Alarm \in [Id -> Int]
  <2>1. \A i \in Used : Alarm[i] \in Int
    BY <1>3
  <2>2. \A i \in Id \ Used : Alarm[i] \in Int
    BY <1>2, <1>4
  <2>3. \A i \in Id : Alarm[i] \in Int
    BY <2>1, <2>2
  <2> DEFINE a == Alarm
  <2> HIDE DEF a
  <2>4. a = [i \in Id |-> a[i]] /\ \A i \in Id : a[i] \in Int
    BY <1>4, <2>3 DEF a
  <2>5. a \in [Id -> Int]
    BY <2>4
  <2> QED
    BY <2>5 DEF a
<1>6. ASSUME power = "on" PROVE Alarms(Alarm, Used, mcnt * Num, Gaps(sum))
  <2>1. ASSUME NEW i \in Used
        PROVE  /\ mcnt * Num \in Int /\ Gaps(sum)[i] \in Int
               /\ Alarm[i] = mcnt * Num + Gaps(sum)[i] * Den /\ Alarm[i] > Off
    <3>1. Gaps(sum)[i] = sum[i] - sum[cur]
      BY <1>1 DEF Gaps
    <3>2. Head = mcnt * Num
      BY <1>6 DEF Head
    <3>3. mcnt * Num \in Nat
      <4>1. mcnt \in Nat
        BY <1>3, <1>6 DEF PowerOK, TypeOK
      <4> QED
        BY <4>1, Numbers
    <3> QED
      BY <1>2, <1>3, <3>1, <3>2, <3>3
  <2>2. \A i \in Id \ Used : Alarm[i] = Off
    BY <1>4, <1>6
  <2> QED
    BY <1>1, <1>5, <2>1, <2>2 DEF Alarms
<1>7. ASSUME power # "on", EndsSleep PROVE Alarms(Alarm, Used, target * Num, Gaps(sum))
  <2>1. ASSUME NEW i \in Used
        PROVE  /\ target * Num \in Int /\ Gaps(sum)[i] \in Int
               /\ Alarm[i] = target * Num + Gaps(sum)[i] * Den /\ Alarm[i] > Off
    <3>1. Gaps(sum)[i] = sum[i] - sum[cur]
      BY <1>1 DEF Gaps
    <3>2. Head = target * Num
      BY <1>2, <1>7 DEF Head, EndsSleep
    <3> QED
      BY <1>2, <1>3, <3>1, <3>2
  <2>2. \A i \in Id \ Used : Alarm[i] = Off
    <3>1. wakeup_id \in Used
      BY <1>1, <1>7, ListMembers DEF EndsSleep
    <3> QED
      BY <1>4, <3>1
  <2> QED
    BY <1>1, <1>5, <2>1, <2>2 DEF Alarms
<1>8. ASSUME power \in {"tim", "boot"}, Received
      PROVE  Alarms(Alarm, Used \cup {wakeup_id}, target * Num, BootGaps(sum))
  <2>1. wakeup_id \in Id /\ wakeup_id \notin Used
    BY <1>8, Numbers DEF Received, Used
  <2>2. ASSUME NEW i \in Used
        PROVE  /\ target * Num \in Int /\ BootGaps(sum)[i] \in Int
               /\ Alarm[i] = target * Num + BootGaps(sum)[i] * Den /\ Alarm[i] > Off
    <3>1. BootGaps(sum)[i] = time[cur] + (sum[i] - sum[cur])
      BY <1>1, <2>1 DEF BootGaps
    <3>2. cur \in Used
      BY <1>1, <1>3, ListMembers
    <3>3. Head = target * Num + time[cur] * Den
      BY <1>3, <1>8, <2>1, <3>2 DEF Head
    <3> DEFINE t == time[cur]
               b == sum[i] - sum[cur]
    <3>4. t \in Nat /\ b \in Nat /\ b * Den \in Nat /\ Alarm[i] = Head + b * Den
      BY <1>1, <1>3
    <3> HIDE DEF t, b
    <3>5. (t + b) * Den = t * Den + b * Den /\ t * Den \in Nat
      BY <3>4, Numbers
    <3>6. Head = target * Num + t * Den
      BY <3>3 DEF t
    <3>7. Alarm[i] = target * Num + (t + b) * Den /\ Alarm[i] > Off /\ t + b \in Int
      BY <1>2, <3>4, <3>5, <3>6
    <3> QED
      BY <1>2, <3>1, <3>7 DEF t, b
  <2>3. Alarm[wakeup_id] = target * Num + BootGaps(sum)[wakeup_id] * Den
        /\ Alarm[wakeup_id] > Off
        /\ target * Num \in Int /\ BootGaps(sum)[wakeup_id] \in Int
    <3>1. BootGaps(sum)[wakeup_id] = 0
      BY <2>1 DEF BootGaps
    <3>2. Alarm[wakeup_id] = target * Num
      BY <1>4, <1>8, <2>1
    <3>3. 0 * Den = 0
      BY Numbers
    <3> QED
      BY <1>2, <3>1, <3>2, <3>3
  <2>4. \A i \in Id \ (Used \cup {wakeup_id}) : Alarm[i] = Off
    BY <1>4
  <2> QED
    BY <1>1, <1>5, <2>1, <2>2, <2>3, <2>4 DEF Alarms
<1> QED
  BY <1>6, <1>7, <1>8 DEF ViewIs

\* What a list shows before a step.
LEMMA ViewNow ==
    ASSUME TInv, NEW s, NEW n, NEW sum, Shows(s, n, sum) PROVE ViewIs(sum)
  BY ViewsAll DEF TInv, Views

\* What it shows after a step.
LEMMA ViewThen ==
    ASSUME TInv', NEW s, NEW n, NEW sum, Shows(s, n, sum)' PROVE ViewIs(sum)'
<1>1. Views'
  BY ViewsAll, PTL
<1> QED
  BY <1>1 DEF TInv, Views

\* The alarms that are set.
LEMMA SetIs ==
    ASSUME NEW S, NEW h, NEW O, Alarms(Alarm, S, h, O) PROVE Promised!Set = S
<1>1. Off \in Int
  BY Numbers DEF Off
<1>2. \A i \in S : i \in Id /\ Alarm[i] \in Int /\ Alarm[i] > Off
  BY DEF Alarms
<1>3. \A i \in S : Alarm[i] # Off
  BY <1>1, <1>2
<1>4. \A i \in Id \ S : Alarm[i] = Off
  BY DEF Alarms
<1> QED
  BY <1>2, <1>3, <1>4 DEF Promised!Set

\* The longest time that passes in a step.
Elapsed == IF MaxIsr = 0 THEN Num ELSE MaxIsr * Num

\* A clock is not longer than what passes in a step.
LEMMA ElapsedClock == Elapsed \in Nat /\ Num <= Elapsed
<1>1. MaxIsr \in Nat /\ Num \in Nat
  BY Numbers
<1>2. MaxIsr # 0 => 1 * Num <= MaxIsr * Num
  BY <1>1, MulLe
<1> QED
  BY <1>1, <1>2 DEF Elapsed

\* All alarms come nearer by d.
LEMMA PassStep ==
    ASSUME NEW S, NEW h, NEW O, Alarms(Alarm, S, h, O),
           NEW h2, NEW O2, Alarms(Alarm', S, h2, O2), called' = {},
           NEW d \in 0 .. Elapsed, \A i \in S : Alarm'[i] = Alarm[i] - d
    PROVE  Promised!Next
<1>1. \A i \in S : Alarm[i] # Off
  <2>1. Off \in Int
    BY Numbers DEF Off
  <2> QED
    BY <2>1 DEF Alarms
<1>2. \A i \in Id : Alarm'[i] = IF Alarm[i] = Off THEN Off ELSE Alarm[i] - d
  BY <1>1 DEF Alarms
<1>3. Alarm' \in [Id -> Int]
  BY DEF Alarms
<1>4. Alarm' = [i \in Id |-> IF Alarm[i] = Off THEN Off ELSE Alarm[i] - d]
  BY <1>2, <1>3
<1> QED
  BY <1>4 DEF Promised!Next, Promised!Pass, Elapsed

\* All alarms stay where they are.
LEMMA StayStep ==
    ASSUME NEW S, NEW h, NEW O, Alarms(Alarm, S, h, O),
           NEW O2, Alarms(Alarm', S, h, O2), \A i \in S : O2[i] = O[i], called' = {}
    PROVE  Promised!Next
<1>1. \A i \in S : Alarm'[i] = Alarm[i] /\ Alarm[i] \in Int
  BY DEF Alarms
<1>2. \A i \in S : Alarm'[i] = Alarm[i] - 0
  BY <1>1
<1> DEFINE d == 0
<1>3. d \in 0 .. Elapsed /\ \A i \in S : Alarm'[i] = Alarm[i] - d
  BY <1>2, ElapsedClock
<1> HIDE DEF d
<1> QED
  BY <1>3, PassStep

\* A power-down ends, and the beacon firmware hands over, without moving an
\* alarm.
LEMMA BootAlarms ==
    ASSUME TInv, TInv', (\E ext \in BOOLEAN : Wakeup(ext)) \/ FullBoot
    PROVE  Promised!Next
<1>0. /\ UNCHANGED <<list, target, wakeup_id, boot_tim>> /\ called' = {} /\ power' = "boot"
      /\ power = "sleep" \/ power = "tim"
  BY DEF Wakeup, FullBoot
<1>1. PICK s, n, sum : Shows(s, n, sum)
  BY DEF TInv
<1>2. Shows(s, n, sum)' /\ Used' = Used
  BY <1>0, <1>1, SameShows
<1>3. ViewIs(sum) /\ ViewIs(sum)'
  BY <1>1, <1>2, ViewNow, ViewThen
<1>4. Gaps(sum)' = Gaps(sum) /\ BootGaps(sum)' = BootGaps(sum)
  BY <1>0 DEF Gaps, BootGaps, list
<1>5. CASE power = "sleep"
  <2>1. EndsSleep /\ EndsSleep'
    BY <1>0, <1>5 DEF TInv, PowerOK, EndsSleep, list
  <2>2. Alarms(Alarm, Used, target * Num, Gaps(sum))
    BY <1>3, <1>5, <2>1 DEF ViewIs
  <2>3. Alarms(Alarm', Used, target * Num, Gaps(sum))
    <3>1. Alarms(Alarm', Used', target' * Num, Gaps(sum)')
      BY <1>0, <1>3, <2>1 DEF ViewIs
    <3> QED
      BY <1>0, <1>2, <1>4, <3>1
  <2> DEFINE O == Gaps(sum)
             h == target * Num
  <2> HIDE DEF O, h
  <2>4. Alarms(Alarm, Used, h, O) /\ Alarms(Alarm', Used, h, O)
    BY <2>2, <2>3 DEF O, h
  <2> QED
    BY <1>0, <2>4, StayStep
<1>6. CASE power = "tim"
  <2>1. Received /\ Received'
    BY <1>0, <1>6 DEF TInv, PowerOK, Received, list
  <2> DEFINE O == BootGaps(sum)
             h == target * Num
             S == Used \cup {wakeup_id}
  <2>2. Alarms(Alarm, S, h, O)
    BY <1>3, <1>6, <2>1 DEF ViewIs
  <2>3. Alarms(Alarm', S, h, O)
    <3>1. Alarms(Alarm', Used' \cup {wakeup_id'}, target' * Num, BootGaps(sum)')
      BY <1>0, <1>3, <2>1 DEF ViewIs
    <3> QED
      BY <1>0, <1>2, <1>4, <3>1
  <2> HIDE DEF O, h, S
  <2> QED
    BY <1>0, <2>2, <2>3, StayStep
<1> QED
  BY <1>0, <1>5, <1>6

\* The clock x of a counter is over.
LEMMA ClockStep ==
    ASSUME NEW S, NEW x \in Int, NEW O, Alarms(Alarm, S, x * Num, O),
           Alarms(Alarm', S, (x - 1) * Num, O), called' = {}
    PROVE  Promised!Next
<1>1. (x - 1) * Num = x * Num - Num /\ x * Num \in Int /\ Num \in Int
  BY Numbers
<1>2. ASSUME NEW i \in S PROVE Alarm'[i] = Alarm[i] - Num
  <2> DEFINE y == O[i] * Den
  <2>1. O[i] \in Int /\ Alarm[i] = x * Num + y /\ Alarm'[i] = (x - 1) * Num + y
    BY DEF Alarms
  <2>2. y \in Int
    BY <2>1, Numbers
  <2> HIDE DEF y
  <2> QED
    BY <1>1, <2>1, <2>2
<1> DEFINE h == x * Num
           h2 == (x - 1) * Num
           d == Num
<1>3. /\ Alarms(Alarm, S, h, O) /\ Alarms(Alarm', S, h2, O) /\ d \in 0 .. Elapsed
      /\ \A i \in S : Alarm'[i] = Alarm[i] - d
  BY <1>1, <1>2, ElapsedClock, Numbers
<1> HIDE DEF h, h2, d
<1> QED
  BY <1>3, PassStep

\* A clock: every alarm comes nearer by it.
LEMMA TickAlarms == ASSUME TInv, TInv', Tick PROVE Promised!Next
<1>0. UNCHANGED <<list, power, wakeup_id, boot_tim>> /\ called' = {}
  BY DEF Tick
<1>1. PICK s, n, sum : Shows(s, n, sum)
  BY DEF TInv
<1>2. Shows(s, n, sum)' /\ Used' = Used
  BY <1>0, <1>1, SameShows
<1>3. ViewIs(sum) /\ ViewIs(sum)'
  BY <1>1, <1>2, ViewNow, ViewThen
<1>4. Gaps(sum)' = Gaps(sum) /\ BootGaps(sum)' = BootGaps(sum)
  BY <1>0 DEF Gaps, BootGaps, list
<1> DEFINE G == Gaps(sum)
           H == BootGaps(sum)
<1> HIDE DEF G, H
<1>5. CASE power = "on"
  <2>1. mcnt \in Int /\ mcnt' = mcnt - 1
    BY <1>5 DEF Tick, TInv, TypeOK, Stopped
  <2>2. Alarms(Alarm, Used, mcnt * Num, G)
    BY <1>3, <1>5 DEF ViewIs, G
  <2>3. Alarms(Alarm', Used, (mcnt - 1) * Num, G)
    <3>1. Alarms(Alarm', Used', mcnt' * Num, Gaps(sum)')
      BY <1>0, <1>3, <1>5 DEF ViewIs
    <3> QED
      BY <1>2, <1>4, <2>1, <3>1 DEF G
  <2> QED
    BY <1>0, <2>1, <2>2, <2>3, ClockStep
<1>6. CASE power # "on"
  <2>1. target \in Int /\ target' = target - 1
    BY <1>6 DEF Tick, TInv, TypeOK
  <2>2. CASE EndsSleep
    <3>1. EndsSleep'
      BY <1>0, <2>2 DEF EndsSleep, list
    <3>2. Alarms(Alarm, Used, target * Num, G)
      BY <1>3, <1>6, <2>2 DEF ViewIs, G
    <3>3. Alarms(Alarm', Used, (target - 1) * Num, G)
      <4>1. Alarms(Alarm', Used', target' * Num, Gaps(sum)')
        BY <1>0, <1>3, <1>6, <3>1 DEF ViewIs
      <4> QED
        BY <1>2, <1>4, <2>1, <4>1 DEF G
    <3> QED
      BY <1>0, <2>1, <3>2, <3>3, ClockStep
  <2>3. CASE ~EndsSleep
    <3>1. Received /\ power \in {"tim", "boot"}
      BY <1>6, <2>3 DEF TInv, PowerOK, TypeOK
    <3>2. Received'
      BY <1>0, <2>1, <3>1 DEF Received, list
    <3> DEFINE S == Used \cup {wakeup_id}
    <3>3. Alarms(Alarm, S, target * Num, H)
      BY <1>3, <3>1 DEF ViewIs, H
    <3>4. Alarms(Alarm', S, (target - 1) * Num, H)
      <4>1. Alarms(Alarm', Used' \cup {wakeup_id'}, target' * Num, BootGaps(sum)')
        BY <1>0, <1>3, <3>1, <3>2 DEF ViewIs
      <4> QED
        BY <1>0, <1>2, <1>4, <2>1, <4>1 DEF H
    <3> HIDE DEF S
    <3> QED
      BY <1>0, <2>1, <3>3, <3>4, ClockStep
  <2> QED
    BY <2>2, <2>3
<1> QED
  BY <1>5, <1>6

\* A reset that loses the memory turns all alarms off.
LEMMA ResetAlarms == ASSUME SchedulerReset PROVE Promised!Next
<1>1. called' = {} /\ power' = "on" /\ Used' = {}
  BY DEF SchedulerReset, Used
<1>2. (power # "lost" =>
         \A i \in Id \ Used : Alarm[i] = IF i = wakeup_id /\ power \in {"tim", "boot"}
                                         THEN target * Num ELSE Off)'
  BY AlarmUnused, PTL
<1>3. \A i \in Id : Alarm'[i] = Off
  BY <1>1, <1>2 DEF Off
<1> QED
  BY <1>1, <1>3 DEF Promised!Next, Promised!Lose, Promised!Gone

\* At power-on all alarms are off.
LEMMA InitAlarms == Init => Promised!Init
<1> SUFFICES ASSUME Init PROVE Promised!Init
  OBVIOUS
<1>1. called = {} /\ power # "lost" /\ power = "on" /\ Used = {}
  BY DEF Init, Nothing, Used
<1>2. \A i \in Id : Alarm[i] = Off
  BY <1>1, AlarmUnused
<1>3. Alarm = [i \in Id |-> Off]
  <2>1. Alarm = [i \in Id |-> Alarm[i]]
    BY AlarmUnused
  <2> QED
    BY <1>2, <2>1
<1> QED
  BY <1>1, <1>3 DEF Promised!Init

\* The firmware that receives a beacon begins: no alarm moves, and the one that
\* ended the sleep waits for a full boot.
LEMMA TimAlarms == ASSUME TInv, TInv', SchedulerTim PROVE Promised!Next
<1>0. /\ power = "boot" /\ wakeup_id \in Beacon /\ boot_tim
      /\ Update(L([using EXCEPT ![wakeup_id] = FALSE], next, time, next[wakeup_id]))
      /\ boot_tim' = FALSE /\ power' = "tim" /\ called' = {}
      /\ UNCHANGED <<hTimer, mcnt, target, wakeup_id>>
  BY DEF SchedulerTim
<1>1. ~Received
  BY <1>0 DEF Received
<1>2. TypeOK /\ EndsSleep /\ cur = wakeup_id /\ cur # NoId /\ cur \in Id /\ using[cur]
  BY <1>0, <1>1, EndedSleep DEF EndsSleep
<1>3. PICK s, n, sum : Shows(s, n, sum)
  BY DEF TInv
<1>4. using' = [using EXCEPT ![cur] = FALSE] /\ next' = next /\ time' = time
      /\ cur' = next[cur]
  BY <1>0, <1>2 DEF Update, L
<1>5. Used' = Used \ {cur} /\ cur \in Used
  BY <1>2, <1>4 DEF Used, TypeOK
<1> DEFINE c == next[cur]
<1>6. /\ IsList(Dropped(s, n, 1), n - 1, Used \ {cur}, next, c)
      /\ Apart(Used \ {cur}, next, time, sum)
      /\ c # NoId => c \in Used \ {cur} /\ sum[c] = sum[cur] + time[c]
      /\ sum \in [Id -> Int]
  <2>1. IsList(s, n, Used, next, cur) /\ Apart(Used, next, time, sum)
    BY <1>3 DEF Shows
  <2> HIDE DEF c
  <2>2. Tail(s, n, Used, next, cur, time, sum, c)
    BY <1>2, <2>1, ListTail DEF c
  <2> QED
    BY <2>2 DEF Tail
<1>7. Shows(Dropped(s, n, 1), n - 1, sum)'
  BY <1>4, <1>5, <1>6 DEF Shows
<1>8. ViewIs(sum) /\ ViewIs(sum)'
  <2> DEFINE z == Dropped(s, n, 1)
             m == n - 1
  <2> HIDE DEF z, m
  <2>1. Shows(z, m, sum)'
    BY <1>7 DEF z, m
  <2> QED
    BY <1>3, <2>1, ViewNow, ViewThen
<1>9. Received'
  BY <1>0 DEF TInv, PowerOK
<1> DEFINE O == Gaps(sum)
           O2 == BootGaps(sum)'
           h == target * Num
<1>10. Alarms(Alarm, Used, h, O)
  BY <1>0, <1>2, <1>8 DEF ViewIs
<1>11. Alarms(Alarm', Used, h, O2)
  <2>1. Alarms(Alarm', Used' \cup {wakeup_id'}, target' * Num, BootGaps(sum)')
    BY <1>0, <1>8, <1>9 DEF ViewIs
  <2>2. Used' \cup {wakeup_id'} = Used
    BY <1>0, <1>2, <1>5
  <2> QED
    BY <1>0, <2>1, <2>2
<1>12. ASSUME NEW i \in Used PROVE O2[i] = O[i]
  <2>1. i \in Id /\ sum[i] \in Int /\ sum[cur] \in Int
    BY <1>2, <1>6 DEF Used
  <2>2. CASE i = cur
    BY <1>0, <1>2, <2>1, <2>2 DEF Gaps, BootGaps
  <2>3. CASE i # cur
    <3>1. c # NoId
      <4>1. i \in Used \ {cur}
        BY <2>3
      <4> HIDE DEF c
      <4> QED
        BY <1>6, <4>1, ListMembers
    <3>2. c \in Id /\ sum[c] = sum[cur] + time[c]
      BY <1>6, <3>1 DEF Used
    <3>3. O2[i] = time[c] + (sum[i] - sum[c])
      BY <1>0, <1>2, <1>4, <2>1, <2>3 DEF BootGaps
    <3>4. time[c] \in Int /\ sum[c] \in Int
      BY <1>2, <1>6, <3>2 DEF TypeOK
    <3>5. O[i] = sum[i] - sum[cur]
      BY <2>1 DEF Gaps
    <3> QED
      BY <2>1, <3>2, <3>3, <3>4, <3>5
  <2> QED
    BY <2>2, <2>3
<1> HIDE DEF O, O2, h
<1> QED
  BY <1>0, <1>10, <1>11, <1>12, StayStep

\* What is left is no less, and not negative.
LEMMA RemainingIs ==
    ASSUME NEW a \in Int
    PROVE  Promised!Remaining(a) \in Nat /\ Promised!Remaining(a) >= a
  BY DEF Promised!Remaining

\* An alarm is within its bounds.
LEMMA KeptIn ==
    ASSUME NEW a \in Int, NEW b \in Int, NEW early \in Int, NEW late \in Int,
           a <= b + early, b <= late \/ b <= a + late
    PROVE  b \in (a - early) .. (late + Promised!Remaining(a))
<1>1. Promised!Remaining(a) \in Int /\ Promised!Remaining(a) >= a /\ Promised!Remaining(a) >= 0
  BY RemainingIs
<1> DEFINE r == Promised!Remaining(a)
<1> HIDE DEF r
<1>2. r \in Int /\ r >= a /\ r >= 0
  BY <1>1 DEF r
<1>3. b \in (a - early) .. (late + r)
  BY <1>2
<1> QED
  BY <1>3 DEF r

\* The counter is read and started again: the alarm a of a timer that is b
\* behind the first one moves by the rounding.  x is its time from now on, and
\* f that of the new first timer.
LEMMA RestartBounds ==
    ASSUME NEW h \in Nat, NEW b \in Int, NEW x, x = CLK2US(h) + b, NEW f \in Nat,
           NEW a, a = h * Num + b * Den, NEW v, v = US2CLK(f) * Num + (x - f) * Den
    PROVE  a \in Int /\ v \in Int /\ v <= a /\ a <= v + (Num + Den)
<1>1. x \in Int /\ a \in Int /\ x * Den <= a /\ a <= x * Den + Den
  BY ReadBounds
<1>2. v <= x * Den /\ x * Den <= v + Num /\ v \in Int /\ x * Den \in Int
  BY <1>1, StartBounds
<1>3. Num \in Int /\ Den \in Int
  BY Numbers
<1> QED
  BY <1>1, <1>2, <1>3

\* DA16X_SET_TIMER sets an alarm and moves the others by the rounding.
LEMMA SetTimerAlarms ==
    ASSUME TInv, TInv', NEW i \in Id, NEW t \in Times, DA16X_SET_TIMER(i, t)
    PROVE  Promised!Next
<1>0. TypeOK /\ PowerOK /\ power = "on" /\ ~using[i]
  BY DEF TInv, DA16X_SET_TIMER, Awake
<1>1. PICK s, n, sum : Shows(s, n, sum)
  BY DEF TInv
<1> DEFINE l == Insert(Counted(Alloc(i, t)), i)
<1>2. PICK A, z, m : Added(l, i, t, A, z, m)
                     /\ \A j \in Used : A[j] = CLK2US(mcnt) + (sum[j] - sum[cur])
  BY <1>0, <1>1, AddedOn
<1>3. Update(l) /\ mcnt' = US2CLK(l.time[l.cur]) /\ called' = {} /\ power' = "on"
  BY <1>0 DEF DA16X_SET_TIMER
<1>a. A[i] = t
  BY <1>2 DEF Added
<1> HIDE DEF l
<1>4. /\ cur' = l.cur /\ cur' \in Id
      /\ Used' = Used \cup {i} /\ Shows(z, m, A)' /\ A[cur'] = time'[cur']
      /\ time'[cur'] \in Nat
  BY <1>0, <1>2, <1>3, AddedTyped
<1> DEFINE f == A[cur']
           G == Gaps(sum)
           G2 == Gaps(A)'
<1>5. f \in Nat /\ mcnt' = US2CLK(f)
  BY <1>3, <1>4 DEF Update
<1>6. ViewIs(sum) /\ ViewIs(A)'
  BY <1>1, <1>4, ViewNow, ViewThen
<1>7. Alarms(Alarm, Used, mcnt * Num, G)
  BY <1>0, <1>6 DEF ViewIs
<1>8. Alarms(Alarm', Used \cup {i}, mcnt' * Num, G2)
  <2>1. Alarms(Alarm', Used', mcnt' * Num, G2)
    BY <1>3, <1>6 DEF ViewIs
  <2> QED
    BY <1>4, <2>1
<1>9. \A j \in Used \cup {i} : G2[j] = A[j] - f /\ A[j] \in Int
  BY <1>4 DEF Gaps, Shows, Apart, Used
<1>10. \A j \in Used : j \in Id /\ G[j] = sum[j] - sum[cur]
  BY DEF Gaps, Used
<1>11. Promised!Set = Used /\ i \notin Used /\ Alarm[i] = Off
  <2>1. i \notin Used
    BY <1>0 DEF Used
  <2>2. Alarm[i] = Off
    BY <1>7, <2>1 DEF Alarms
  <2> HIDE DEF G
  <2>3. Promised!Set = Used
    <3> DEFINE h == mcnt * Num
    <3> HIDE DEF h
    <3>1. Alarms(Alarm, Used, h, G)
      BY <1>7 DEF h
    <3> QED
      BY <3>1, SetIs
  <2> QED
    BY <2>1, <2>2, <2>3
<1> HIDE DEF f, G, G2
<1>12. ASSUME NEW j \in Used
       PROVE  Alarm'[j] \in (Alarm[j] - (Num + Den)) .. (0 + Promised!Remaining(Alarm[j]))
  <2>1. mcnt \in Nat
    <3>1. cur # NoId
      <4>1. IsList(s, n, Used, next, cur)
        BY <1>1 DEF Shows
      <4> QED
        BY <4>1, ListMembers
    <3> QED
      BY <1>0, <3>1 DEF PowerOK, TypeOK
  <2> DEFINE b == G[j]
             x == A[j]
             a == Alarm[j]
             v == Alarm'[j]
  <2>2. /\ b \in Int /\ x = CLK2US(mcnt) + b /\ a = mcnt * Num + b * Den
        /\ v = US2CLK(f) * Num + (x - f) * Den
    <3>1. b \in Int /\ a = mcnt * Num + b * Den
      BY <1>7 DEF Alarms
    <3>2. x = CLK2US(mcnt) + b
      BY <1>2, <1>10
    <3>3. v = mcnt' * Num + G2[j] * Den
      BY <1>8 DEF Alarms
    <3>4. v = US2CLK(f) * Num + (x - f) * Den
      BY <1>5, <1>9, <3>3
    <3> QED
      BY <3>1, <3>2, <3>4
  <2> HIDE DEF b, x, a, v
  <2>3. a \in Int /\ v \in Int /\ v <= a /\ a <= v + (Num + Den)
    BY <1>5, <2>1, <2>2, RestartBounds
  <2>4. Num + Den \in Int /\ 0 \in Int /\ (v <= 0 \/ v <= a + 0)
    BY <2>3, Numbers
  <2>5. v \in (a - (Num + Den)) .. (0 + Promised!Remaining(a))
    BY <2>3, <2>4, KeptIn
  <2> QED
    BY <2>5 DEF a, v
<1>13. Alarm'[i] \in (t * Den - (Num + Den)) .. (t * Den)
  <2>1. Alarm'[i] = US2CLK(f) * Num + (t - f) * Den
    BY <1>5, <1>8, <1>9, <1>a DEF Alarms
  <2>2. t \in Int
    BY Numbers
  <2> DEFINE v == Alarm'[i]
             e == t * Den
  <2>3. v <= e /\ e <= v + Num /\ v \in Int /\ e \in Int
    BY <1>5, <2>1, <2>2, StartBounds
  <2> HIDE DEF v, e
  <2>4. v \in (e - (Num + Den)) .. e
    BY <2>3, Numbers
  <2> QED
    BY <2>4 DEF v, e
<1>14. \A j \in Id \ (Used \cup {i}) : Alarm'[j] = Off
  BY <1>8 DEF Alarms
<1>15. Promised!SetAlarm(i)
  <2>1. \E d \in {u * Den : u \in Times} : Alarm'[i] \in (d - (Num + Den)) .. d
    BY <1>13
  <2>2. Promised!Kept(Promised!Set, Num + Den, 0)
    BY <1>11, <1>12 DEF Promised!Kept
  <2>3. Promised!Gone(Id \ (Promised!Set \cup {i}))
    BY <1>11, <1>14 DEF Promised!Gone
  <2> QED
    BY <1>3, <1>11, <2>1, <2>2, <2>3 DEF Promised!SetAlarm
<1> QED
  BY <1>15 DEF Promised!Next

\* The alarm a of a timer is v in the sleep, for which its time was x.
LEMMA AsleepBounds ==
    ASSUME NEW a \in Int, NEW x \in Int, NEW f \in Nat,
           a <= x * Den + (Den + 2 * Num), x = 0 \/ x * Den <= a + Slice * Den,
           NEW v, v = US2CLK(AtLeast(f)) * Num + (x - f) * Den
    PROVE  v \in (a - ((Num + Den) + 3 * Num)) ..
                 ((MinSleep * Den + Slice * Den) + Promised!Remaining(a))
<1>1. v <= x * Den + MinSleep * Den /\ x * Den <= v + Num /\ v \in Int /\ x * Den \in Int
  BY SleepBounds
<1> DEFINE y == x * Den
           ms == MinSleep * Den
           sl == Slice * Den
<1>2. y \in Int /\ ms \in Nat /\ sl \in Nat /\ Num \in Nat /\ Den \in Nat
      /\ (x = 0 => y = 0)
  BY <1>1, Numbers
<1>3. v <= y + ms /\ y <= v + Num /\ a <= y + (Den + 2 * Num) /\ (y = 0 \/ y <= a + sl)
  BY <1>1, <1>2
<1> HIDE DEF y, ms, sl
<1>4. a <= v + ((Num + Den) + 3 * Num) /\ (v <= ms + sl \/ v <= a + (ms + sl))
  BY <1>1, <1>2, <1>3
<1>5. (Num + Den) + 3 * Num \in Int /\ ms + sl \in Int
  BY <1>2
<1>6. v \in (a - ((Num + Den) + 3 * Num)) .. ((ms + sl) + Promised!Remaining(a))
  BY <1>1, <1>4, <1>5, KeptIn
<1> QED
  BY <1>6 DEF ms, sl

\* The times A for a sleep are close to the alarms of U.
Close2Alarms(U, A) ==
    \A j \in U : /\ Alarm[j] <= A[j] * Den + (Den + 2 * Num)
                 /\ A[j] = 0 \/ A[j] * Den <= Alarm[j] + Slice * Den

\* A sleep begins, with the timer i for the time t, and with the times A from
\* now on; c is the first timer then.
Asleep(i, t, U, A, c, h2, O2) ==
    /\ A[i] = t /\ c \in Id /\ A[c] \in Nat
    /\ h2 = US2CLK(AtLeast(A[c])) * Num
    /\ \A j \in U \cup {i} : O2[j] = A[j] - A[c]
    /\ Alarms(Alarm', U \cup {i}, h2, O2)
    /\ Close2Alarms(U, A) /\ called' = {}

\* A sleep that begins with such times moves no alarm further than it may.
LEMMA AsleepStep ==
    ASSUME NEW S, NEW h, NEW O, Alarms(Alarm, S, h, O), NEW i \in Id, NEW t \in Times,
           NEW U, U \subseteq S, S \subseteq U \cup Beacon, NEW A \in [Id -> Int],
           NEW c, NEW h2, NEW O2, Asleep(i, t, U, A, c, h2, O2),
           i \notin S \/ i \in Beacon
    PROVE  Promised!Next
<1> USE DEF Asleep
<1> DEFINE f == A[c]
           stay == S \ (Beacon \cup {i})
<1>1. Promised!Set = S
  BY SetIs
<1>2. Alarm[i] = Off \/ i \in Beacon
  BY DEF Alarms
<1>3. ASSUME NEW j \in U \cup {i}
      PROVE  Alarm'[j] = US2CLK(AtLeast(f)) * Num + (A[j] - f) * Den
  BY <1>3 DEF Alarms
<1>4. f \in Nat
  OBVIOUS
<1> HIDE DEF f
<1>5. ASSUME NEW j \in stay
      PROVE  Alarm'[j] \in (Alarm[j] - ((Num + Den) + 3 * Num)) ..
                  ((MinSleep * Den + Slice * Den) + Promised!Remaining(Alarm[j]))
  <2>1. j \in U /\ j \in Id /\ Alarm[j] \in Int /\ A[j] \in Int
    BY DEF Alarms
  <2> DEFINE a == Alarm[j]
             x == A[j]
             v == Alarm'[j]
  <2>2. /\ a \in Int /\ x \in Int /\ v = US2CLK(AtLeast(f)) * Num + (x - f) * Den
        /\ a <= x * Den + (Den + 2 * Num) /\ (x = 0 \/ x * Den <= a + Slice * Den)
    BY <1>3, <2>1 DEF Close2Alarms
  <2> HIDE DEF a, x, v
  <2>3. v \in (a - ((Num + Den) + 3 * Num)) ..
                 ((MinSleep * Den + Slice * Den) + Promised!Remaining(a))
    BY <1>4, <2>2, AsleepBounds
  <2> QED
    BY <2>3 DEF a, v
<1>6. Alarm'[i] \in (t * Den - (Num + Den)) .. (t * Den + MinSleep * Den)
  <2> DEFINE v == Alarm'[i]
             e == t * Den
             ms == MinSleep * Den
  <2>1. v = US2CLK(AtLeast(f)) * Num + (t - f) * Den /\ t \in Int
    BY <1>3, Numbers
  <2>2. v <= e + ms /\ e <= v + Num /\ v \in Int /\ e \in Int
    BY <1>4, <2>1, SleepBounds
  <2>3. ms \in Int /\ Num \in Nat /\ Den \in Nat
    BY Numbers
  <2> HIDE DEF v, e, ms
  <2>4. v \in (e - (Num + Den)) .. (e + ms)
    BY <2>2, <2>3
  <2> QED
    BY <2>4 DEF v, e, ms
<1>7. \A j \in Id \ (S \cup {i}) : Alarm'[j] = Off
  BY DEF Alarms
<1>8. Promised!Sleep(i)
  <2>1. \E d \in {u * Den : u \in Times} :
           Alarm'[i] \in (d - (Num + Den)) .. (d + MinSleep * Den)
    BY <1>6
  <2>2. Promised!Kept(Promised!Set \ (Beacon \cup {i}), (Num + Den) + 3 * Num,
                      MinSleep * Den + Slice * Den)
    BY <1>1, <1>5 DEF Promised!Kept
  <2>3. Promised!Gone(Id \ (Promised!Set \cup {i}))
    BY <1>1, <1>7 DEF Promised!Gone
  <2> QED
    BY <1>2, <2>1, <2>2, <2>3 DEF Promised!Sleep
<1> QED
  BY <1>8 DEF Promised!Next

\* The times of a sleep that begins while the counter runs.
LEMMA CloseOn ==
    ASSUME TInv, power = "on", NEW s, NEW n, NEW sum, Shows(s, n, sum), NEW A,
           \A j \in Used : A[j] = CLK2US(mcnt) + (sum[j] - sum[cur])
    PROVE  Close2Alarms(Used, A)
<1> SUFFICES ASSUME NEW j \in Used
             PROVE  /\ Alarm[j] <= A[j] * Den + (Den + 2 * Num)
                    /\ A[j] * Den <= Alarm[j] + Slice * Den
  BY DEF Close2Alarms
<1>1. Alarms(Alarm, Used, mcnt * Num, Gaps(sum))
  BY ViewNow DEF ViewIs
<1> DEFINE b == sum[j] - sum[cur]
           a == Alarm[j]
           x == A[j]
<1>2. mcnt \in Nat
  <2>1. cur # NoId
    <3>1. IsList(s, n, Used, next, cur)
      BY DEF Shows
    <3> QED
      BY <3>1, ListMembers
  <2> QED
    BY <2>1 DEF TInv, PowerOK, TypeOK
<1>3. Gaps(sum)[j] = b
  BY DEF Gaps, Used
<1>4. b \in Int /\ x = CLK2US(mcnt) + b /\ a = mcnt * Num + b * Den
  BY <1>1, <1>3 DEF Alarms
<1> HIDE DEF b, a, x
<1>5. x * Den <= a /\ a <= x * Den + Den /\ x \in Int /\ a \in Int
  BY <1>2, <1>4, ReadBounds
<1>6. x * Den \in Int /\ Slice * Den \in Nat /\ Num \in Nat /\ Den \in Nat
  BY <1>5, Numbers
<1>7. a <= x * Den + (Den + 2 * Num) /\ x * Den <= a + Slice * Den
  BY <1>5, <1>6
<1> QED
  BY <1>7 DEF a, x

\* The times of a sleep that begins after a beacon: the boot's time has been
\* subtracted.
LEMMA CloseTim ==
    ASSUME FineClock, TInv, power = "tim", NEW s, NEW n, NEW sum, Shows(s, n, sum),
           NEW i \in Id, ~using[i], NEW t \in Times, NEW A, NEW g, NEW tm2,
           cur # NoId =>
              /\ Deducted(s, n, [time EXCEPT ![i] = t], BootGap, g, tm2)
              /\ Apart(Used, next, tm2, A) /\ A[cur] = tm2[cur]
    PROVE  Close2Alarms(Used, A)
<1> SUFFICES ASSUME NEW j \in Used
             PROVE  /\ Alarm[j] <= A[j] * Den + (Den + 2 * Num)
                    /\ A[j] = 0 \/ A[j] * Den <= Alarm[j] + Slice * Den
  BY DEF Close2Alarms
<1>0. /\ TypeOK /\ Received /\ time \in [Id -> Nat] /\ next \in [Id -> Id \cup {NoId}]
      /\ target \in Int /\ target <= 0 /\ t \in Nat /\ i \notin Used
  BY Numbers DEF TInv, PowerOK, TypeOK, Received, Used
<1>1. IsList(s, n, Used, next, cur) /\ Apart(Used, next, time, sum) /\ sum \in [Id -> Int]
  BY DEF Shows, Apart
<1>2. cur # NoId /\ cur \in Used /\ cur \in Id /\ j \in Id /\ j # wakeup_id
  <2>1. cur # NoId
    BY <1>1, ListMembers
  <2>2. cur \in Used
    BY <1>1, <2>1, ListMembers
  <2> QED
    BY <1>0, <2>1, <2>2 DEF Used, Received
<1>3. Alarms(Alarm, Used \cup {wakeup_id}, target * Num, BootGaps(sum))
  BY <1>0, ViewNow DEF ViewIs
<1> DEFINE tm == [time EXCEPT ![i] = t]
           O == [k \in Id |-> sum[k] - sum[cur] + tm[cur]]
<1>4. tm \in [Id -> Nat] /\ \A k \in Used : tm[k] = time[k]
  BY <1>0
<1>5. Deducted(s, n, tm, BootGap, g, tm2) /\ Apart(Used, next, tm2, A) /\ A[cur] = tm2[cur]
      /\ A \in [Id -> Int]
  BY <1>2 DEF Apart
<1>6. BootGap \in Nat /\ BootGap = CLK2US(Abs(target) + 2)
  <2>1. Abs(target) + 2 \in Nat
    BY <1>0 DEF Abs
  <2> QED
    BY <2>1, CLK2USRounds DEF BootGap, get_remain_counter
<1> HIDE DEF tm
<1>7. Apart(Used, next, tm, O) /\ O[cur] = tm[cur]
  <2>1. \A k \in Used \ {cur} : tm[k] = time[k]
    BY <1>4
  <2> HIDE DEF O
  <2> QED
    BY <1>0, <1>1, <1>2, <1>4, <2>1, Recounted DEF O
<1>8. O[j] = time[cur] + (sum[j] - sum[cur]) /\ O[j] \in Int
  <2>1. {sum[j], sum[cur], time[cur]} \subseteq Int /\ tm[cur] = time[cur]
    BY <1>0, <1>1, <1>2, <1>4
  <2> QED
    BY <1>2, <2>1
<1> HIDE DEF O
<1>9. Moved(O[j], A[j], BootGap)
  <2> DEFINE gp == BootGap
  <2>1. gp \in Nat /\ Deducted(s, n, tm, gp, g, tm2)
    BY <1>5, <1>6
  <2> HIDE DEF gp
  <2>2. \A k \in Used : Moved(O[k], A[k], gp)
    BY <1>1, <1>4, <1>5, <1>7, <2>1, DeductedMoves
  <2> QED
    BY <2>2 DEF gp
<1> DEFINE o == O[j]
           x == A[j]
           a == Alarm[j]
           v == target
           e == 2
           gap == BootGap
<1>10. a = v * Num + o * Den /\ a \in Int
  <2>1. BootGaps(sum)[j] = O[j]
    BY <1>2, <1>8 DEF BootGaps
  <2> QED
    BY <1>3, <2>1 DEF Alarms
<1>11. /\ v \in Int /\ v <= 0 /\ e \in Nat \ {0} /\ gap = CLK2US(Abs(v) + e)
       /\ o \in Int /\ x \in Int /\ Moved(o, x, gap) /\ e = 2
  BY <1>0, <1>2, <1>5, <1>6, <1>8, <1>9
<1> HIDE DEF o, x, a, v, e, gap
<1>12. /\ v * Num + o * Den <= x * Den + e * Num
       /\ x = 0 \/ x * Den <= v * Num + o * Den + Slice * Den
       /\ x * Den \in Int
  BY <1>11, GapBounds DEF FineClock
<1>13. Slice * Den \in Nat /\ Num \in Nat /\ Den \in Nat
  BY Numbers
<1>14. a <= x * Den + (Den + 2 * Num) /\ (x = 0 \/ x * Den <= a + Slice * Den)
  BY <1>10, <1>11, <1>12, <1>13
<1> QED
  BY <1>14 DEF a, x

\* DA16X_SET_WAKEUP_TIMER sets an alarm and begins a sleep, which puts the
\* others off by no more than the shortest sleep and a slice.
LEMMA SetWakeupAlarms ==
    ASSUME FineClock, TInv, TInv', NEW i \in Id, NEW t \in Times,
           DA16X_SET_WAKEUP_TIMER(i, t)
    PROVE  Promised!Next
<1>0. TypeOK /\ PowerOK /\ ~using[i] /\ (power = "on" \/ power = "tim")
  BY DEF TInv, DA16X_SET_WAKEUP_TIMER, Awake
<1>1. PICK s, n, sum : Shows(s, n, sum)
  BY DEF TInv
<1> DEFINE l == Insert(Gapped(Counted(Alloc(i, t))), i)
<1>2. PICK A, z, m, g, tm2 :
             /\ Added(l, i, t, A, z, m)
             /\ power = "on" => \A j \in Used : A[j] = CLK2US(mcnt) + (sum[j] - sum[cur])
             /\ power # "on" =>
                  /\ power = "tim"
                  /\ cur # NoId =>
                     /\ Deducted(s, n, [time EXCEPT ![i] = t], BootGap, g, tm2)
                     /\ Apart(Used, next, tm2, A) /\ A[cur] = tm2[cur]
                     /\ \A j \in Used : A[j] <= time[cur] + (sum[j] - sum[cur])
  BY <1>0, <1>1, WakeupAdds
<1>3. /\ cur' \in Id /\ cur' # NoId /\ Used' = Used \cup {i} /\ Shows(z, m, A)'
      /\ A[cur'] \in Nat /\ target' = US2CLK(AtLeast(A[cur'])) /\ wakeup_id' = cur'
      /\ power' = "sleep" /\ called' = {}
  BY <1>0, <1>2, WakeupSleeps
<1>4. A[i] = t /\ A \in [Id -> Int]
  BY <1>2 DEF Added, Joined, Apart
<1> HIDE DEF l
<1> DEFINE h2 == target' * Num
           O2 == Gaps(A)'
           c == cur'
<1>5. Alarms(Alarm', Used \cup {i}, h2, O2)
  <2>1. EndsSleep' /\ ViewIs(A)'
    BY <1>3, ViewThen DEF EndsSleep
  <2>2. Alarms(Alarm', Used', h2, O2)
    BY <1>3, <2>1 DEF ViewIs
  <2> QED
    BY <1>3, <2>2
<1>6. h2 = US2CLK(AtLeast(A[c])) * Num /\ \A j \in Used \cup {i} : O2[j] = A[j] - A[c]
  BY <1>3 DEF Gaps, Used
<1>7. Close2Alarms(Used, A)
  <2>1. CASE power = "on"
    BY <1>1, <1>2, <2>1, CloseOn
  <2>2. CASE power # "on"
    <3>1. power = "tim"
      BY <1>0, <2>2
    <3>2. cur # NoId =>
              /\ Deducted(s, n, [time EXCEPT ![i] = t], BootGap, g, tm2)
              /\ Apart(Used, next, tm2, A) /\ A[cur] = tm2[cur]
      BY <1>2, <2>2
    <3> QED
      BY <1>0, <1>1, <3>1, <3>2, CloseTim
  <2> QED
    BY <2>1, <2>2
<1>8. ViewIs(sum) /\ i \notin Used
  BY <1>0, <1>1, ViewNow DEF Used
<1>11. Asleep(i, t, Used, A, c, h2, O2)
  BY <1>3, <1>4, <1>5, <1>6, <1>7 DEF Asleep
<1> HIDE DEF h2, O2, c
<1>9. CASE power = "on"
  <2> DEFINE S == Used
             h == mcnt * Num
             O == Gaps(sum)
  <2>1. Alarms(Alarm, S, h, O) /\ i \notin S
    BY <1>8, <1>9 DEF ViewIs
  <2>2. Used \subseteq S /\ S \subseteq Used \cup Beacon
    OBVIOUS
  <2> HIDE DEF S, h, O
  <2> QED
    BY <1>4, <1>11, <2>1, <2>2, AsleepStep
<1>10. CASE power = "tim"
  <2> DEFINE S == Used \cup {wakeup_id}
             h == target * Num
             O == BootGaps(sum)
  <2>1. Received
    BY <1>0, <1>10 DEF PowerOK
  <2>2. Alarms(Alarm, S, h, O)
    BY <1>8, <1>10, <2>1 DEF ViewIs
  <2>3. Used \subseteq S /\ S \subseteq Used \cup Beacon
    BY <2>1 DEF Received
  <2>4. i \notin S \/ i \in Beacon
    BY <1>8, <2>1 DEF Received
  <2> HIDE DEF S, h, O
  <2> QED
    BY <1>4, <1>11, <2>2, <2>3, <2>4, AsleepStep
<1> QED
  BY <1>0, <1>9, <1>10

\* An alarm is turned off, and the others move by the rounding.
LEMMA KillStep ==
    ASSUME NEW S, NEW h, NEW O, Alarms(Alarm, S, h, O), NEW i \in S,
           NEW h2, NEW O2, Alarms(Alarm', S \ {i}, h2, O2), called' = {},
           \A j \in S \ {i} : /\ Alarm'[j] <= Alarm[j]
                              /\ Alarm[j] <= Alarm'[j] + (Num + Den)
    PROVE  Promised!Next
<1>1. Promised!Set = S
  BY SetIs
<1>2. i \in Id /\ Alarm[i] # Off
  <2>1. Off \in Int
    BY Numbers DEF Off
  <2> QED
    BY <2>1 DEF Alarms
<1>3. ASSUME NEW j \in S \ {i}
      PROVE  Alarm'[j] \in (Alarm[j] - (Num + Den)) .. (0 + Promised!Remaining(Alarm[j]))
  <2> DEFINE a == Alarm[j]
             v == Alarm'[j]
  <2>1. a \in Int /\ v \in Int /\ v <= a /\ a <= v + (Num + Den)
    BY DEF Alarms
  <2> HIDE DEF a, v
  <2>2. Num + Den \in Int /\ 0 \in Int /\ (v <= 0 \/ v <= a + 0)
    BY <2>1, Numbers
  <2>3. v \in (a - (Num + Den)) .. (0 + Promised!Remaining(a))
    BY <2>1, <2>2, KeptIn
  <2> QED
    BY <2>3 DEF a, v
<1>4. \A j \in (Id \ S) \cup {i} : Alarm'[j] = Off
  BY DEF Alarms
<1>5. Promised!KillAlarm(i)
  <2>1. Promised!Kept(Promised!Set \ {i}, Num + Den, 0)
    BY <1>1, <1>3 DEF Promised!Kept
  <2>2. Promised!Gone((Id \ Promised!Set) \cup {i})
    BY <1>1, <1>4 DEF Promised!Gone
  <2> QED
    BY <1>2, <2>1, <2>2 DEF Promised!KillAlarm
<1> QED
  BY <1>2, <1>5 DEF Promised!Next

\* The counter is started again for what clk clocks and the times O are worth:
\* the alarms of S are there, but for the rounding.
Restarted(S, clk, O) ==
    \A j \in S : LET a == clk * Num + O[j] * Den
                 IN  Alarm'[j] <= a /\ a <= Alarm'[j] + (Num + Den)

\* The first timer, which had clk clocks left, hands them on.
LEMMA HandOnAlarms ==
    ASSUME TInv, TInv', NEW s, NEW n, NEW sum, Shows(s, n, sum), cur # NoId,
           NEW clk \in Nat, HandedOn(s, n, sum, clk), power' = "on"
    PROVE  /\ Alarms(Alarm', Used \ {cur}, mcnt' * Num, Gaps(sum)')
           /\ Restarted(Used \ {cur}, clk, Gaps(sum)) /\ cur \in Used
<1> DEFINE c == next[cur]
           left == CLK2US(clk)
           f == time[c] + left
           G == Gaps(sum)
           G2 == Gaps(sum)'
           V == Used \ {cur}
<1>0. /\ time \in [Id -> Nat] /\ cur \in Id /\ left \in Nat /\ sum \in [Id -> Int]
      /\ IsList(s, n, Used, next, cur)
  BY CLK2USRounds DEF TInv, TypeOK, Shows, Apart
<1>1. cur \in Used
  BY <1>0, ListMembers
<1>2. /\ cur' = c /\ Used' = V /\ Shows(Dropped(s, n, 1), n - 1, sum)'
      /\ c # NoId => c \in V /\ sum[c] = sum[cur] + time[c] /\ mcnt' = US2CLK(f)
  BY DEF HandedOn
<1>3. Alarms(Alarm', V, mcnt' * Num, G2)
  <2> DEFINE z == Dropped(s, n, 1)
             m == n - 1
  <2> HIDE DEF z, m
  <2>1. Shows(z, m, sum)'
    BY <1>2 DEF z, m
  <2>2. ViewIs(sum)'
    BY <2>1, ViewThen
  <2>3. Alarms(Alarm', Used', mcnt' * Num, G2)
    BY <2>2 DEF ViewIs
  <2> QED
    BY <1>2, <2>3
<1>5. \A j \in Used : j \in Id /\ G[j] = sum[j] - sum[cur]
  BY DEF Gaps, Used
<1>6. \A j \in V : G2[j] = sum[j] - sum[c]
  BY <1>2, <1>5 DEF Gaps
<1>7. V # {} => c # NoId
  <2>1. c = NoId => V = {}
    <3> HIDE DEF c, V
    <3>1. Tail(s, n, Used, next, cur, time, sum, c)
      BY <1>0, ListTail DEF c, Shows
    <3>2. IsList(Dropped(s, n, 1), n - 1, V, next, c)
      BY <3>1 DEF Tail, V
    <3> QED
      BY <3>2, ListMembers
  <2> QED
    BY <2>1
<1>8. ASSUME NEW j \in V
      PROVE  Alarm'[j] <= clk * Num + G[j] * Den
             /\ clk * Num + G[j] * Den <= Alarm'[j] + (Num + Den)
  <2>1. c # NoId /\ c \in V /\ c \in Id /\ j \in Id /\ j \in Used
    BY <1>2, <1>5, <1>7
  <2>2. {sum[j], sum[c], sum[cur]} \subseteq Int /\ time[c] \in Nat
    BY <1>0, <2>1
  <2> DEFINE b == G[j]
             x == left + b
             a == clk * Num + b * Den
             v == Alarm'[j]
  <2>3. b \in Int /\ b = sum[j] - sum[cur]
    BY <1>5, <2>1, <2>2
  <2>4. v = US2CLK(f) * Num + (sum[j] - sum[c]) * Den
    BY <1>2, <1>3, <1>6, <2>1 DEF Alarms
  <2>5. sum[j] - sum[c] = x - f /\ f \in Nat
    <3> DEFINE e == time[c]
               s1 == sum[j]
               s2 == sum[c]
               s3 == sum[cur]
    <3>1. s2 = s3 + e /\ b = s1 - s3 /\ s1 \in Int /\ s2 \in Int /\ s3 \in Int /\ e \in Nat
      BY <1>2, <2>1, <2>2, <2>3
    <3>2. f = e + left
      OBVIOUS
    <3> HIDE DEF e, s1, s2, s3, b, left, f
    <3>3. s1 - s2 = (left + b) - f /\ f \in Nat
      BY <1>0, <3>1, <3>2
    <3> QED
      BY <3>3 DEF s1, s2
  <2>6. v = US2CLK(f) * Num + (x - f) * Den
    BY <2>4, <2>5
  <2>7. x = CLK2US(clk) + b /\ a = clk * Num + b * Den
    OBVIOUS
  <2> HIDE DEF b, x, a, v, f, left
  <2>8. v <= a /\ a <= v + (Num + Den)
    BY <2>3, <2>5, <2>6, <2>7, RestartBounds
  <2> QED
    BY <2>8 DEF a, b, v
<1> QED
  BY <1>1, <1>3, <1>8 DEF Restarted

\* The list starts as it is, with the time f for its first timer: that of clk
\* clocks, and what the times O are more than the list's own.
LEMMA RunsOnAlarms ==
    ASSUME TInv', NEW s, NEW n, NEW sum, Shows(s, n, sum),
           NEW f, RunsOn(s, n, sum, f), power' = "on", NEW clk \in Nat, NEW O,
           \A j \in Used : O[j] \in Int /\ f = CLK2US(clk) + (O[j] - Gaps(sum)[j])
    PROVE  Alarms(Alarm', Used, mcnt' * Num, Gaps(sum)') /\ Restarted(Used, clk, O)
<1> DEFINE G == Gaps(sum)
           left == CLK2US(clk)
<1>1. IsList(s, n, Used, next, cur) /\ Shows(s, n, sum)' /\ Used' = Used /\ cur' = cur
  BY DEF RunsOn, Shows
<1>2. Gaps(sum)' = G
  BY <1>1 DEF Gaps
<1>3. Alarms(Alarm', Used, mcnt' * Num, G)
  <2>1. ViewIs(sum)'
    BY <1>1, ViewThen
  <2>2. Alarms(Alarm', Used', mcnt' * Num, Gaps(sum)')
    BY <2>1 DEF ViewIs
  <2> QED
    BY <1>1, <1>2, <2>2
<1>4. left \in Nat
  BY CLK2USRounds
<1>5. ASSUME NEW j \in Used
      PROVE  Alarm'[j] <= clk * Num + O[j] * Den
             /\ clk * Num + O[j] * Den <= Alarm'[j] + (Num + Den)
  <2>1. cur # NoId
    BY <1>1, ListMembers
  <2>2. f \in Nat /\ mcnt' = US2CLK(f)
    BY <2>1 DEF RunsOn
  <2> DEFINE b == O[j]
             x == left + b
             a == clk * Num + b * Den
             v == Alarm'[j]
             e == G[j]
  <2>3. v = US2CLK(f) * Num + e * Den /\ e \in Int /\ b \in Int /\ f = left + (b - e)
    BY <1>3, <2>2 DEF Alarms
  <2>4. x = CLK2US(clk) + b /\ a = clk * Num + b * Den
    OBVIOUS
  <2> HIDE DEF b, a, v, e, left
  <2>5. x - f = e
    BY <1>4, <2>2, <2>3
  <2> HIDE DEF x
  <2>6. v = US2CLK(f) * Num + (x - f) * Den
    BY <2>3, <2>5
  <2>7. v <= a /\ a <= v + (Num + Den)
    BY <2>2, <2>3, <2>4, <2>6, RestartBounds
  <2> QED
    BY <2>7 DEF a, b, v
<1> QED
  BY <1>2, <1>3, <1>5 DEF Restarted

\* DA16X_KILL_TIMER turns its alarm off and moves the others by the rounding,
\* whether or not the timer was the first.
LEMMA KillAlarms ==
    ASSUME TInv, TInv', NEW i \in Id, DA16X_KILL_TIMER(i)
    PROVE  Promised!Next
<1>0. /\ TypeOK /\ PowerOK /\ power = "on" /\ called' = {} /\ power' = "on" /\ using[i]
      /\ IF cur = i THEN KillFirst(i) ELSE KillOther(i)
  BY DEF TInv, DA16X_KILL_TIMER
<1>1. PICK s, n, sum : Shows(s, n, sum)
  BY DEF TInv
<1>2. Alarms(Alarm, Used, mcnt * Num, Gaps(sum))
  BY <1>0, <1>1, ViewNow DEF ViewIs
<1>3. CASE cur = i
  <2>1. cur # NoId /\ mcnt \in Nat
    <3>1. cur # NoId
      BY <1>3, Numbers
    <3> QED
      BY <1>0, <3>1 DEF PowerOK, TypeOK
  <2> DEFINE l == Inherit(L([using EXCEPT ![cur] = FALSE], next, time, next[cur]),
                          next[cur], CLK2US(mcnt))
  <2>2. Update(l) /\ mcnt' = IF l.cur = NoId THEN Stopped ELSE US2CLK(l.time[l.cur])
    BY <1>0, <1>3 DEF KillFirst
  <2>3. HandedOn(s, n, sum, mcnt)
    <3>1. l = Inherit(L([using EXCEPT ![cur] = FALSE], next, time, next[cur]),
                        next[cur], CLK2US(mcnt))
      OBVIOUS
    <3> HIDE DEF l
    <3> QED
      BY <1>0, <1>1, <2>1, <2>2, <3>1, HandOnIs
  <2> HIDE DEF l
  <2>4. /\ Alarms(Alarm', Used \ {cur}, mcnt' * Num, Gaps(sum)')
        /\ Restarted(Used \ {cur}, mcnt, Gaps(sum)) /\ cur \in Used
    BY <1>0, <1>1, <2>1, <2>3, HandOnAlarms
  <2> DEFINE h == mcnt * Num
             h2 == mcnt' * Num
             O == Gaps(sum)
             O2 == Gaps(sum)'
  <2>5. Alarms(Alarm, Used, h, O) /\ Alarms(Alarm', Used \ {i}, h2, O2) /\ i \in Used
    BY <1>2, <1>3, <2>4
  <2>6. \A j \in Used \ {i} : Alarm'[j] <= Alarm[j] /\ Alarm[j] <= Alarm'[j] + (Num + Den)
    BY <1>2, <1>3, <2>4 DEF Alarms, Restarted
  <2> HIDE DEF h, h2, O, O2
  <2> QED
    BY <1>0, <2>5, <2>6, KillStep
<1>4. CASE cur # i
  <2>1. /\ cur' = cur /\ mcnt' = mcnt /\ Used' = Used \ {i}
        /\ \E z, m : Shows(z, m, sum)'
    BY <1>0, <1>1, <1>4, KillOtherIs
  <2>2. ViewIs(sum)'
    BY <2>1, ViewThen
  <2> DEFINE O == Gaps(sum)
             h == mcnt * Num
  <2>3. Alarms(Alarm, Used, h, O) /\ Alarms(Alarm', Used \ {i}, h, O)
    <3>1. Alarms(Alarm', Used', mcnt' * Num, Gaps(sum)')
      BY <1>0, <2>2 DEF ViewIs
    <3>2. Gaps(sum)' = Gaps(sum)
      BY <2>1 DEF Gaps
    <3> QED
      BY <1>2, <2>1, <3>1, <3>2
  <2> HIDE DEF O, h
  <2>4. i \in Used
    BY <1>0 DEF Used
  <2>5. ASSUME NEW j \in Used \ {i}
        PROVE  Alarm'[j] <= Alarm[j] /\ Alarm[j] <= Alarm'[j] + (Num + Den)
    <3>1. Alarm'[j] = Alarm[j] /\ Alarm[j] \in Int
      BY <2>3 DEF Alarms
    <3> QED
      BY <3>1, Numbers
  <2> QED
    BY <1>0, <2>3, <2>4, <2>5, KillStep
<1> QED
  BY <1>3, <1>4

\* How late an external signal may make an alarm.
Lateness == 2 * MaxBoot * Num

\* The sleep's rest without its sign is late by no more.
LEMMA LateBounds ==
    ASSUME NEW t \in Int, t >= -MaxBoot, NEW y \in Int
    PROVE  /\ Abs(t) \in Nat /\ Lateness \in Nat
           /\ t * Num + y \in Int /\ Abs(t) * Num + y \in Int
           /\ t * Num + y <= Abs(t) * Num + y
           /\ Abs(t) * Num + y <= (t * Num + y) + Lateness
<1>1. Num \in Nat \ {0} /\ MaxBoot \in Nat
  BY Numbers
<1> DEFINE a == Abs(t)
           k == 2 * MaxBoot
<1>2. a \in Nat /\ t <= a /\ a <= t + k /\ k \in Nat
  BY <1>1 DEF Abs
<1> HIDE DEF a, k
<1>3. t * Num <= a * Num
  BY <1>1, <1>2, MulLe
<1>4. a * Num <= (t + k) * Num
  BY <1>1, <1>2, MulLe
<1>5. (t + k) * Num = t * Num + k * Num /\ k * Num \in Nat
  BY <1>1, <1>2
<1>6. {t * Num, a * Num, k * Num} \subseteq Int
  BY <1>1, <1>2
<1>7. /\ t * Num + y \in Int /\ a * Num + y \in Int /\ t * Num + y <= a * Num + y
      /\ a * Num + y <= (t * Num + y) + k * Num
  BY <1>3, <1>4, <1>5, <1>6
<1> QED
  BY <1>2, <1>5, <1>7 DEF a, k, Lateness

\* The alarms of R are turned off, and the others go on with the sleep's rest.
LEMMA ResumeStep ==
    ASSUME TypeOK, NEW S, NEW O, Alarms(Alarm, S, target * Num, O), NEW R, R \subseteq S,
           R \subseteq Beacon, NEW h2, NEW O2, Alarms(Alarm', S \ R, h2, O2),
           Restarted(S \ R, Abs(target), O), called' = {}
    PROVE  Promised!Next
<1>1. Promised!Set = S
  <2> DEFINE h == target * Num
  <2> HIDE DEF h
  <2>1. Alarms(Alarm, S, h, O)
    BY DEF h
  <2> QED
    BY <2>1, SetIs
<1>2. target \in Int /\ target >= -MaxBoot
  BY DEF TypeOK
<1>3. ASSUME NEW j \in S \ R
      PROVE  Alarm'[j] \in (Alarm[j] - (Num + Den)) .. (Lateness + Promised!Remaining(Alarm[j]))
  <2> DEFINE a == Alarm[j]
             v == Alarm'[j]
             y == O[j] * Den
             k == Abs(target) * Num + y
  <2>1. /\ a = target * Num + y /\ O[j] \in Int /\ v \in Int
        /\ v <= k /\ k <= v + (Num + Den)
    BY DEF Alarms, Restarted
  <2>2. y \in Int
    BY <2>1, Numbers
  <2> HIDE DEF y
  <2>3. /\ a \in Int /\ k \in Int /\ a <= k /\ k <= a + Lateness /\ Lateness \in Nat
    BY <1>2, <2>1, <2>2, LateBounds
  <2> DEFINE r == Num + Den
             e == Lateness
  <2>4. r \in Int
    BY Numbers
  <2> HIDE DEF a, v, k, r, e
  <2>5. a <= v + r /\ (v <= e \/ v <= a + e) /\ e \in Int /\ a \in Int /\ v \in Int
    BY <2>1, <2>3, <2>4 DEF r, e
  <2>6. v \in (a - r) .. (e + Promised!Remaining(a))
    BY <2>4, <2>5, KeptIn
  <2> QED
    BY <2>6 DEF a, v, r, e
<1>4. \A j \in (Id \ S) \cup R : Alarm'[j] = Off
  BY DEF Alarms
<1>5. Promised!Resume(R)
  <2>1. Promised!Kept(Promised!Set \ R, Num + Den, 2 * MaxBoot * Num)
    BY <1>1, <1>3 DEF Promised!Kept, Lateness
  <2>2. Promised!Gone((Id \ Promised!Set) \cup R)
    BY <1>1, <1>4 DEF Promised!Gone
  <2> QED
    BY <2>1, <2>2 DEF Promised!Resume
<1> QED
  BY <1>5 DEF Promised!Next

\* An external signal ends the sleep: a beacon's alarm is turned off, and the
\* others go on, late by no more than the boot made of them.
LEMMA ExtAlarms == ASSUME TInv, TInv', SchedulerExt PROVE Promised!Next
<1>1. PICK s, n, sum : Shows(s, n, sum)
  BY DEF TInv
<1>2. /\ TypeOK /\ PowerOK /\ power = "boot" /\ called' = {} /\ power' = "on"
      /\ \/ /\ EndsSleep /\ cur \in Id /\ using[cur] /\ cur \in Beacon
            /\ HandedOn(s, n, sum, Abs(target))
         \/ /\ EndsSleep /\ cur \in Id /\ using[cur] /\ cur \notin Beacon
            /\ RunsOn(s, n, sum, CLK2US(Abs(target)))
         \/ /\ Received
            /\ RunsOn(s, n, sum, time[cur] + CLK2US(Abs(target)))
  BY <1>1, ExtIs
<1>3. ViewIs(sum)
  BY <1>1, ViewNow
<1> DEFINE clk == Abs(target)
           left == CLK2US(clk)
<1>4. clk \in Nat /\ left \in Nat
  <2>1. clk \in Nat
    BY <1>2 DEF TypeOK, Abs
  <2> HIDE DEF clk
  <2> QED
    BY <2>1, CLK2USRounds
<1>5. sum \in [Id -> Int] /\ time \in [Id -> Nat] /\ IsList(s, n, Used, next, cur)
  BY <1>1, <1>2 DEF Shows, Apart, TypeOK
<1>6. \A j \in Used : j \in Id /\ cur \in Id /\ cur # NoId
                      /\ Gaps(sum)[j] = sum[j] - sum[cur] /\ Gaps(sum)[j] \in Int
  <2>1. \A j \in Used : cur # NoId
    BY <1>5, ListMembers
  <2>2. \A j \in Used : j \in Id /\ cur \in Id
    BY <1>2, <2>1 DEF Used, TypeOK
  <2> QED
    BY <1>5, <2>1, <2>2 DEF Gaps
<1> DEFINE G == Gaps(sum)
           G2 == Gaps(sum)'
           h2 == mcnt' * Num
           H == BootGaps(sum)
<1>7. CASE EndsSleep /\ HandedOn(s, n, sum, clk) /\ cur \in Beacon
  <2>1. cur # NoId
    BY <1>7 DEF EndsSleep
  <2>2. Alarms(Alarm', Used \ {cur}, h2, G2) /\ Restarted(Used \ {cur}, clk, G) /\ cur \in Used
    <3> HIDE DEF clk
    <3> QED
      BY <1>1, <1>2, <1>4, <1>7, <2>1, HandOnAlarms
  <2>3. Alarms(Alarm, Used, target * Num, G)
    BY <1>2, <1>3, <1>7 DEF ViewIs
  <2> DEFINE R == {cur}
  <2>4. R \subseteq Used /\ R \subseteq Beacon /\ Alarms(Alarm', Used \ R, h2, G2)
        /\ Restarted(Used \ R, Abs(target), G)
    BY <1>7, <2>2
  <2> HIDE DEF R, G, G2, h2, clk, left
  <2> QED
    BY <1>2, <2>3, <2>4, ResumeStep
<1>8. CASE EndsSleep /\ RunsOn(s, n, sum, left)
  <2>1. \A j \in Used : G[j] \in Int /\ left = CLK2US(clk) + (G[j] - G[j])
    <3> HIDE DEF clk, G
    <3>1. \A j \in Used : G[j] \in Int
      BY <1>6 DEF G
    <3> QED
      BY <1>4, <3>1
  <2>2. Alarms(Alarm', Used, h2, G2) /\ Restarted(Used, clk, G)
    <3> HIDE DEF clk, left
    <3> QED
      BY <1>1, <1>2, <1>4, <1>8, <2>1, RunsOnAlarms
  <2>3. Alarms(Alarm, Used, target * Num, G)
    BY <1>2, <1>3, <1>8 DEF ViewIs
  <2> DEFINE R == {}
  <2>4. R \subseteq Used /\ R \subseteq Beacon /\ Alarms(Alarm', Used \ R, h2, G2)
        /\ Restarted(Used \ R, Abs(target), G)
    BY <2>2
  <2> HIDE DEF R, G, G2, h2, clk, left
  <2> QED
    BY <1>2, <2>3, <2>4, ResumeStep
<1>9. CASE Received /\ RunsOn(s, n, sum, time[cur] + left)
  <2>1. wakeup_id \in Beacon /\ wakeup_id \notin Used
    BY <1>9 DEF Received, Used
  <2>2. \A j \in Used : H[j] \in Int /\ time[cur] + left = CLK2US(clk) + (H[j] - G[j])
    <3> SUFFICES ASSUME NEW j \in Used
                 PROVE  H[j] \in Int /\ time[cur] + left = CLK2US(clk) + (H[j] - G[j])
      OBVIOUS
    <3>1. j \in Id /\ cur \in Id /\ j # wakeup_id /\ G[j] = sum[j] - sum[cur] /\ G[j] \in Int
      BY <1>6, <2>1
    <3>2. H[j] = time[cur] + (sum[j] - sum[cur])
      BY <3>1 DEF BootGaps
    <3>3. time[cur] \in Nat
      BY <1>5, <3>1
    <3> DEFINE b == sum[j] - sum[cur]
               t == time[cur]
    <3>4. G[j] = b /\ H[j] = t + b /\ b \in Int /\ t \in Nat
      BY <3>1, <3>2, <3>3
    <3> HIDE DEF b, t, G, H, clk
    <3>5. H[j] \in Int /\ t + left = CLK2US(clk) + (H[j] - G[j])
      BY <1>4, <3>4
    <3> QED
      BY <3>5 DEF t
  <2> DEFINE f == time[cur] + left
  <2>3. Alarms(Alarm', Used, h2, G2) /\ Restarted(Used, clk, H)
    <3>1. /\ RunsOn(s, n, sum, f)
          /\ \A j \in Used : H[j] \in Int /\ f = CLK2US(clk) + (H[j] - Gaps(sum)[j])
      BY <1>9, <2>2
    <3> HIDE DEF clk, left, f, H
    <3> QED
      BY <1>1, <1>2, <1>4, <3>1, RunsOnAlarms
  <2> DEFINE S == Used \cup {wakeup_id}
             R == {wakeup_id}
  <2>4. Alarms(Alarm, S, target * Num, H)
    BY <1>2, <1>3, <1>9 DEF ViewIs
  <2>5. S \ R = Used /\ R \subseteq S /\ R \subseteq Beacon
    BY <2>1
  <2> HIDE DEF S, R
  <2>6. Alarms(Alarm', S \ R, h2, G2) /\ Restarted(S \ R, Abs(target), H)
    BY <2>3, <2>5
  <2> HIDE DEF H, G, G2, h2, clk, left
  <2> QED
    BY <1>2, <2>4, <2>5, <2>6, ResumeStep
<1> QED
  BY <1>2, <1>7, <1>8, <1>9

\* The timers of a list's first q places are q.
LEMMA FirstCount ==
    ASSUME NEW s, NEW n, NEW U, NEW nx, NEW c, IsList(s, n, U, nx, c), NEW q \in 1 .. n
    PROVE  /\ Cardinality({s[k] : k \in 0 .. q - 1}) = q
           /\ {s[k] : k \in 0 .. q - 1} \subseteq U
           /\ c \in {s[k] : k \in 0 .. q - 1} /\ c = s[0]
<1> DEFINE Q == {s[k] : k \in 0 .. q - 1}
           D == 0 .. q - 1
           z == [k \in D |-> s[k]]
<1>1. /\ n \in Nat /\ s \in [0 .. n - 1 -> Id] /\ U = {s[k] : k \in 0 .. n - 1}
      /\ n # 0 /\ c = s[0]
  BY DEF IsList
<1>2. \A k \in D : k \in 0 .. n - 1
  BY <1>1
<1>3. z \in Bijection(D, Q)
  <2>1. \A j, k \in D : z[j] = z[k] => j = k
    BY <1>2 DEF IsList
  <2>2. z \in [D -> Q]
    OBVIOUS
  <2>3. \A x \in Q : \E k \in D : z[k] = x
    OBVIOUS
  <2> HIDE DEF z, Q, D
  <2> QED
    BY <2>1, <2>2, <2>3 DEF Bijection, Injection, Surjection, IsInjective
<1>4. IsFiniteSet(D) /\ Cardinality(D) = q
  <2>1. q \in Nat /\ q - 1 \in Int /\ 0 \in Int /\ ~(0 > q - 1) /\ (q - 1) - 0 + 1 = q
    BY <1>1
  <2>2. Cardinality(D) = IF 0 > q - 1 THEN 0 ELSE (q - 1) - 0 + 1
    BY <2>1, FS_Interval
  <2>3. IsFiniteSet(D)
    BY <2>1, FS_Interval
  <2> QED
    BY <2>1, <2>2, <2>3
<1>5. Cardinality(Q) = q
  <2>1. \E h : h \in Bijection(D, Q)
    BY <1>3
  <2> HIDE DEF Q, D
  <2> QED
    BY <1>4, <2>1, FS_Bijection DEF ExistsBijection
<1>6. Q \subseteq U
  BY <1>1, <1>2
<1>7. c \in Q
  <2>1. 0 \in D
    BY <1>1
  <2> QED
    BY <1>1, <2>1
<1> QED
  BY <1>1, <1>5, <1>6, <1>7

\* The instance counts the elements of a set as this module does.
LEMMA PromisedCount == ASSUME NEW Q PROVE Promised!Cardinality(Q) = Cardinality(Q)
  BY Zenon DEF Promised!Cardinality, Cardinality

\* What rounding, a boot and the slices between q timers may cost an alarm.
Costs(q) == (Num + Den) + 3 * Num + (q - 1) * (Slice * Den)

\* The alarms of Q go off: the first is due, the others are close, and those
\* that stay move by no more than a step, a boot and the slices.
LEMMA GoOffStep ==
    ASSUME NEW S, NEW h, NEW O, Alarms(Alarm, S, h, O), NEW Q, Q \subseteq S,
           NEW h2, NEW O2, Alarms(Alarm', S \ Q, h2, O2), called' = Q,
           NEW c \in Q, Alarm[c] <= 0, NEW q \in Nat \ {0}, Cardinality(Q) = q,
           \A j \in Q : Alarm[j] <= Costs(q),
           \A j \in S \ Q :
             /\ Alarm[j] <= Alarm'[j] + (Elapsed + Costs(q))
             /\ Alarm'[j] <= Slice * Den \/ Alarm'[j] <= Alarm[j] + Slice * Den
    PROVE  Promised!Next
<1> DEFINE cut == (q - 1) * (Slice * Den)
           round == Num + Den
           boot == 3 * Num
           late == Slice * Den
<1>1. Promised!Set = S /\ S \subseteq Id
  <2>1. S \subseteq Id
    BY DEF Alarms
  <2> QED
    BY <2>1, SetIs
<1>2. cut \in Int /\ round \in Int /\ boot \in Int /\ late \in Int /\ Elapsed \in Int
  BY Numbers, ElapsedClock
<1>3. Costs(q) = round + boot + cut
  BY DEF Costs
<1> HIDE DEF cut, round, boot, late
<1>4. ASSUME NEW j \in Q PROVE Alarm[j] <= cut + round + boot
  <2> DEFINE a == Alarm[j]
  <2>1. a \in Int /\ a <= round + boot + cut
    BY <1>3 DEF Alarms
  <2> HIDE DEF a
  <2>2. a <= cut + round + boot
    BY <1>2, <2>1
  <2> QED
    BY <2>2 DEF a
<1>5. ASSUME NEW j \in S \ Q
      PROVE  Alarm'[j] \in (Alarm[j] - (Elapsed + round + boot + cut)) ..
                             (late + Promised!Remaining(Alarm[j]))
  <2> DEFINE a == Alarm[j]
             v == Alarm'[j]
             early == Elapsed + round + boot + cut
  <2>1. a \in Int /\ v \in Int /\ a <= v + (Elapsed + (round + boot + cut))
        /\ (v <= late \/ v <= a + late)
    BY <1>3 DEF Alarms, late
  <2>2. early \in Int /\ early = Elapsed + (round + boot + cut)
    BY <1>2
  <2> HIDE DEF a, v, early
  <2>3. a <= v + early
    BY <2>1, <2>2
  <2>4. v \in (a - early) .. (late + Promised!Remaining(a))
    BY <1>2, <2>1, <2>2, <2>3, KeptIn
  <2> QED
    BY <2>4 DEF a, v, early
<1>6. \A j \in (Id \ S) \cup Q : Alarm'[j] = Off
  BY <1>1 DEF Alarms
<1>7. Promised!GoOff(Q)
  <2> DEFINE e == (Cardinality(Q) - 1) * (Slice * Den)
  <2>0. e = cut
    BY DEF cut
  <2> HIDE DEF e
  <2>1. Promised!Kept(Promised!Set \ Q, Elapsed + round + boot + e, late)
    BY <1>1, <1>5, <2>0 DEF Promised!Kept
  <2>2. Promised!Gone((Id \ Promised!Set) \cup Q)
    BY <1>1, <1>6 DEF Promised!Gone
  <2>3. Q # {} /\ Q \subseteq Promised!Set /\ (\E i \in Q : Alarm[i] <= 0)
    BY <1>1
  <2>4. \A i \in Q : Alarm[i] <= e + round + boot
    BY <1>4, <2>0
  <2>5. Promised!Kept(Promised!Set \ Q, Elapsed + (Num + Den) + 3 * Num
                        + (Cardinality(Q) - 1) * (Slice * Den), Slice * Den)
    BY <2>1 DEF e, round, boot, late
  <2>6. \A i \in Q : Alarm[i] <= (Cardinality(Q) - 1) * (Slice * Den) + (Num + Den) + 3 * Num
    BY <2>4 DEF e, round, boot
  <2> QED
    BY <2>2, <2>3, <2>5, <2>6, PromisedCount, Zenon DEF Promised!GoOff, Elapsed
<1> QED
  BY <1>1, <1>7 DEF Promised!Next

\* An alarm a of a timer that is at the time b after the gap has been
\* subtracted: it is not much too early, and late by less than a slice.
Deducts(a, b) ==
    a <= b * Den + 3 * Num /\ (b = 0 \/ b * Den <= a + Slice * Den)

\* A timer at the time b that is close goes off.
LEMMA CloseBounds ==
    ASSUME NEW a \in Int, NEW b \in Int, Deducts(a, b), NEW q \in Nat \ {0},
           b <= (q - 1) * Slice
    PROVE  a <= Costs(q)
<1> DEFINE p == q - 1
           m == p * Slice
<1>1. p \in Nat /\ m \in Int /\ b <= m /\ Slice \in Nat
  <2>1. p \in Nat /\ Slice \in Nat
    BY Numbers
  <2> QED
    BY <2>1
<1>2. m * Den = p * (Slice * Den)
  <2> HIDE DEF p
  <2> QED
    BY <1>1, Numbers
<1>3. Costs(q) = (Num + Den) + 3 * Num + p * (Slice * Den)
  BY DEF Costs
<1> HIDE DEF m, p
<1>4. b * Den <= m * Den /\ m * Den \in Int /\ b * Den \in Int
  BY <1>1, Numbers, MulLe
<1>5. a <= b * Den + 3 * Num /\ Num \in Nat /\ Den \in Nat
  BY Numbers DEF Deducts
<1> QED
  BY <1>2, <1>3, <1>4, <1>5

\* The counter is started anew, for a first timer that has x left, of which a
\* timer at the time b, less the slices and the time dd of the interrupt, is y.
LEMMA StaysBounds ==
    ASSUME NEW a \in Int, NEW b \in Int, Deducts(a, b), NEW q \in Nat \ {0},
           NEW e \in Int, 0 <= e, e <= (q - 1) * Slice,
           NEW dd \in Nat, dd * Den <= Elapsed,
           NEW x \in Nat, NEW y, y = b - (e + dd),
           NEW v, v = US2CLK(x) * Num + (y - x) * Den
    PROVE  /\ a <= v + (Elapsed + Costs(q))
           /\ v <= Slice * Den \/ v <= a + Slice * Den
<1> DEFINE p == q - 1
           m == p * Slice
<1>1. p \in Nat /\ m \in Int /\ e <= m /\ Slice \in Nat
  <2>1. p \in Nat /\ Slice \in Nat
    BY Numbers
  <2> QED
    BY <2>1
<1>2. m * Den = p * (Slice * Den)
  <2> HIDE DEF p
  <2> QED
    BY <1>1, Numbers
<1>3. Costs(q) = (Num + Den) + 3 * Num + p * (Slice * Den)
  BY DEF Costs
<1> HIDE DEF m, p
<1>4. e * Den <= m * Den /\ m * Den \in Int /\ e * Den \in Nat
  <2>1. e * Den <= m * Den
    BY <1>1, Numbers, MulLe
  <2>2. e \in Nat
    OBVIOUS
  <2> QED
    BY <1>1, <2>1, <2>2, Numbers
<1>5. y \in Int /\ y * Den = b * Den - (e * Den + dd * Den) /\ dd * Den \in Nat
      /\ b * Den \in Int
  BY Numbers
<1>6. v <= y * Den /\ y * Den <= v + Num /\ v \in Int /\ y * Den \in Int
  BY <1>5, StartBounds
<1>7. a <= b * Den + 3 * Num /\ Num \in Nat /\ Den \in Nat /\ Elapsed \in Nat
      /\ (b = 0 \/ b * Den <= a + Slice * Den) /\ Slice * Den \in Nat
  BY Numbers, ElapsedClock DEF Deducts
<1>8. a <= v + (Elapsed + Costs(q))
  BY <1>2, <1>3, <1>4, <1>5, <1>6, <1>7
<1>9. v <= b * Den
  BY <1>4, <1>5, <1>6
<1>10. CASE b = 0
  <2>1. b * Den = 0
    BY <1>10, Numbers
  <2> QED
    BY <1>6, <1>7, <1>8, <1>9, <2>1
<1>11. CASE b # 0
  BY <1>5, <1>6, <1>7, <1>8, <1>9, <1>11
<1> QED
  BY <1>10, <1>11

\* What the alarms are when the list s from c on, with the times sum, has gone
\* off; the interrupt took dd.
GoesOffFrom(s, n, U, c, sum, tm, us, gap, q, c2, tm2, B, h, O, dd) ==
    /\ IsList(s, n, U, next, c) /\ sum \in [Id -> Int]
    /\ us \in [Id -> BOOLEAN] /\ U = {j \in Id : us[j]}
    /\ WentOff(s, n, U, next, c, tm, sum, us, gap, q, c2, tm2, B)
    /\ Alarms(Alarm, U, h, O) /\ Alarm[c] <= 0
    /\ \A j \in U \ {c} : Deducts(Alarm[j], B[j])
    /\ dd \in Nat /\ dd * Den <= Elapsed
    /\ c2 # NoId => time'[c2] = tm2[c2] - dd

\* The timers that go off, and those that go on.
LEMMA WentOffAlarms ==
    ASSUME TInv', NEW s, NEW n, NEW U, NEW c, NEW sum, NEW tm, NEW us, NEW gap, NEW q,
           NEW c2, NEW tm2, NEW B, NEW h, NEW O, NEW dd,
           GoesOffFrom(s, n, U, c, sum, tm, us, gap, q, c2, tm2, B, h, O, dd)
    PROVE  Promised!Next
<1>h. /\ IsList(s, n, U, next, c) /\ sum \in [Id -> Int]
      /\ us \in [Id -> BOOLEAN] /\ U = {j \in Id : us[j]}
      /\ WentOff(s, n, U, next, c, tm, sum, us, gap, q, c2, tm2, B)
      /\ Alarms(Alarm, U, h, O) /\ Alarm[c] <= 0
      /\ \A j \in U \ {c} : Deducts(Alarm[j], B[j])
      /\ dd \in Nat /\ dd * Den <= Elapsed
      /\ c2 # NoId => time'[c2] = tm2[c2] - dd
  BY DEF GoesOffFrom
<1> DEFINE Q == {s[k] : k \in 0 .. q - 1}
           h2 == mcnt' * Num
           O2 == Gaps(B)'
<1>1. /\ Remains(s, n, U, next, c, tm, sum, q, c2, tm2, B)
      /\ Shifted(s, q, U, c, sum, gap, c2, tm2, B)
      /\ GoesOn(us, next, s, q, c2, tm2) /\ called' = Q
  BY <1>h DEF WentOff
<1>2. /\ q \in 1 .. n /\ c2 = IF q = n THEN NoId ELSE s[q]
      /\ tm2 \in [Id -> Nat] /\ B \in [Id -> Int]
      /\ IsList(Dropped(s, n, q), n - q, U \ Q, next, c2)
  BY <1>1 DEF Remains, Apart
<1>3. q \in Nat \ {0} /\ n \in Nat
  BY <1>h, <1>2 DEF IsList
<1>4. Cardinality(Q) = q /\ Q \subseteq U /\ c \in Q /\ c = s[0]
  <2>1. q \in 1 .. n /\ IsList(s, n, U, next, c)
    BY <1>h, <1>2
  <2> QED
    BY <2>1, FirstCount
<1>5. Shows(Dropped(s, n, q), n - q, B)' /\ cur' = c2 /\ Used' = U \ Q
  <2>1. /\ Remains(s, n, U, next, c, tm, sum, q, c2, tm2, B)
        /\ GoesOn(us, next, s, q, c2, tm2)
    BY <1>1
  <2>2. us \in [Id -> BOOLEAN] /\ U = {j \in Id : us[j]}
    BY <1>h
  <2>3. Shows(Dropped(s, n, q), n - q, B)'
    BY <2>1, <2>2, RemainsShows
  <2>4. cur' = c2
    BY <2>1 DEF GoesOn
  <2>5. Used' = U \ {s[k] : k \in 0 .. q - 1}
    BY <2>1, <2>2 DEF GoesOn, Used
  <2> QED
    BY <2>3, <2>4, <2>5
<1>6. Alarms(Alarm', U \ Q, h2, O2)
  <2> DEFINE z == Dropped(s, n, q)
             m == n - q
  <2> HIDE DEF z, m
  <2>1. Shows(z, m, B)'
    BY <1>5 DEF z, m
  <2>2. ViewIs(B)' /\ power' = "on"
    BY <1>1, <2>1, ViewThen DEF GoesOn
  <2>3. Alarms(Alarm', Used', mcnt' * Num, O2)
    BY <2>2 DEF ViewIs
  <2> HIDE DEF O2, Q
  <2> QED
    BY <1>5, <2>3 DEF h2
<1>7. U \subseteq Id /\ \A j \in U : Alarm[j] \in Int /\ B[j] \in Int
  BY <1>h, <1>2 DEF Alarms
<1>8. ASSUME NEW j \in Q PROVE Alarm[j] <= Costs(q)
  <2>1. CASE j = c
    <3>1. Alarm[j] <= 0 /\ Alarm[j] \in Int
      BY <1>h, <1>4, <1>7, <2>1
    <3>2. Costs(q) \in Nat
      <4> DEFINE p == q - 1
                 r == Slice * Den
      <4>1. p \in Nat /\ r \in Nat /\ Num \in Nat /\ Den \in Nat
        BY <1>3, Numbers
      <4> HIDE DEF p, r
      <4>2. (Num + Den) + 3 * Num + p * r \in Nat
        BY <4>1
      <4> QED
        BY <4>2 DEF Costs, p, r
    <3> QED
      BY <3>1, <3>2
  <2>2. CASE j # c
    <3>1. PICK k \in 0 .. q - 1 : j = s[k]
      OBVIOUS
    <3>2. k \in 1 .. q - 1
      BY <1>3, <1>4, <2>2, <3>1
    <3>3. B[j] <= (q - 1) * Slice
      BY <1>1, <3>1, <3>2 DEF Shifted
    <3>4. j \in U \ {c}
      BY <1>4, <2>2
    <3>5. Deducts(Alarm[j], B[j]) /\ Alarm[j] \in Int /\ B[j] \in Int
      BY <1>h, <1>7, <3>4
    <3> QED
      BY <1>3, <3>3, <3>5, CloseBounds
  <2> QED
    BY <2>1, <2>2
<1>9. ASSUME NEW j \in U \ Q
      PROVE  /\ Alarm[j] <= Alarm'[j] + (Elapsed + Costs(q))
             /\ Alarm'[j] <= Slice * Den \/ Alarm'[j] <= Alarm[j] + Slice * Den
  <2>1. j \in U \ {c} /\ j \in Id
    BY <1>4, <1>7
  <2>2. c2 # NoId /\ c2 \in U /\ c2 \in Id
    <3> DEFINE U2 == U \ Q
               z == Dropped(s, n, q)
               m == n - q
    <3>1. IsList(z, m, U2, next, c2) /\ U2 # {} /\ U2 \subseteq U
      BY <1>2
    <3> HIDE DEF U2, z, m
    <3>2. c2 # NoId /\ c2 \in U2
      BY <3>1, ListMembers
    <3> QED
      BY <1>7, <3>1, <3>2
  <2> DEFINE e == B[c2] - tm2[c2]
             x == time'[c2]
             a == Alarm[j]
             b == B[j]
             y == x + (b - B[c2])
             v == Alarm'[j]
  <2>3. e \in 0 .. (q - 1) * Slice
    BY <1>1, <2>2 DEF Shifted
  <2>4. x \in Nat /\ x = tm2[c2] - dd /\ mcnt' = US2CLK(x)
    BY <1>h, <1>1, <2>2 DEF GoesOn
  <2>5. b \in Int /\ B[c2] \in Int /\ tm2[c2] \in Nat
    BY <1>2, <2>1, <2>2
  <2>6. a \in Int /\ Deducts(a, b)
    BY <1>h, <1>7, <2>1
  <2>7. y = b - (e + dd) /\ y - x = b - B[c2]
    BY <1>h, <2>4, <2>5
  <2>8. v = US2CLK(x) * Num + (y - x) * Den
    <3>1. v = h2 + O2[j] * Den
      BY <1>6 DEF Alarms
    <3>2. O2[j] = b - B[c2]
      BY <1>5, <2>1 DEF Gaps
    <3> QED
      BY <2>4, <2>7, <3>1, <3>2
  <2>9. e \in Int /\ 0 <= e /\ e <= (q - 1) * Slice
    <3> DEFINE w == (q - 1) * Slice
    <3>1. e \in 0 .. w
      BY <2>3
    <3> HIDE DEF w, e
    <3>2. w \in Int
      BY <1>3, Numbers DEF w
    <3> QED
      BY <3>1, <3>2 DEF w
  <2> HIDE DEF e, x, a, b, y, v
  <2>10. /\ a <= v + (Elapsed + Costs(q))
         /\ v <= Slice * Den \/ v <= a + Slice * Den
    BY <1>h, <1>3, <2>4, <2>5, <2>6, <2>7, <2>8, <2>9, StaysBounds
  <2> QED
    BY <2>10 DEF a, v
<1>10. called' = Q
  BY <1>1
<1> HIDE DEF Q, h2, O2
<1> QED
  BY <1>h, <1>3, <1>4, <1>6, <1>8, <1>9, <1>10, GoOffStep

\* Without a gap the rest is what it was, or longer by less than a slice.
LEMMA NoGapBounds ==
    ASSUME NEW o \in Int, NEW b \in Int, NEW gap, gap = 0, Moved(o, b, gap),
           NEW a, a = o * Den
    PROVE  Deducts(a, b)
<1>1. o <= b /\ (b = 0 \/ b <= o + Slice) /\ Slice \in Nat
  BY Numbers DEF Moved
<1>2. o * Den <= b * Den /\ {o * Den, b * Den, 3 * Num, Slice * Den} \subseteq Int
      /\ 3 * Num >= 0
  BY <1>1, Numbers, MulLe
<1>3. b = 0 \/ b * Den <= o * Den + Slice * Den
  <2> SUFFICES ASSUME b # 0 PROVE b * Den <= o * Den + Slice * Den
    OBVIOUS
  <2>1. b * Den <= (o + Slice) * Den
    BY <1>1, Numbers, MulLe
  <2>2. (o + Slice) * Den = o * Den + Slice * Den
    BY <1>1, Numbers
  <2> QED
    BY <2>1, <2>2
<1> QED
  BY <1>2, <1>3 DEF Deducts

\* The interrupt calls the timers that are due, or close to one, and moves the
\* others by the slices between them and by the time it takes.
LEMMA IsrAlarms ==
    ASSUME TInv, TInv', NEW d \in 0 .. MaxIsr, rtc_mirror_hisr(d)
    PROVE  Promised!Next
<1>0. TypeOK /\ PowerOK /\ power = "on" /\ mcnt = 0
  BY DEF TInv, rtc_mirror_hisr
<1>1. PICK s, n, sum : Shows(s, n, sum)
  BY DEF TInv
<1>2. /\ IsList(s, n, Used, next, cur) /\ sum \in [Id -> Int]
      /\ cur # NoId /\ cur \in Id /\ using \in [Id -> BOOLEAN]
      /\ Used = {j \in Id : using[j]}
  <2>1. mcnt # Stopped
    BY <1>0 DEF Stopped
  <2> QED
    BY <1>0, <1>1, <2>1 DEF Shows, Apart, PowerOK, TypeOK, Used
<1> DEFINE gap == 0
           h == mcnt * Num
           O == Gaps(sum)
           dd == CLK2US(d)
<1>3. PICK q, c2, tm2, B :
             /\ WentOff(s, n, Used, next, cur, time, sum, using, gap, q, c2, tm2, B)
             /\ c2 # NoId => time'[c2] = tm2[c2] - dd
  BY <1>0, <1>1, IsrIs
<1> HIDE DEF gap
<1>4. /\ Remains(s, n, Used, next, cur, time, sum, q, c2, tm2, B)
      /\ Shifted(s, q, Used, cur, sum, gap, c2, tm2, B)
  BY <1>3 DEF WentOff
<1>5. Alarms(Alarm, Used, h, O) /\ h = 0 /\ \A j \in Used : O[j] = sum[j] - sum[cur]
  <2>1. Alarms(Alarm, Used, h, O)
    BY <1>0, <1>1, ViewNow DEF ViewIs
  <2>2. 0 * Num = 0
    BY Numbers
  <2> QED
    BY <1>0, <2>1, <2>2 DEF Gaps, Used
<1>6. cur \in Used /\ B \in [Id -> Int] /\ Used \subseteq Id
  BY <1>2, <1>4, ListMembers DEF Remains, Apart
<1>7. \A j \in Used : Alarm[j] = (sum[j] - sum[cur]) * Den
  <2>1. \A j \in Used : sum[j] - sum[cur] \in Int
    BY <1>2, <1>6
  <2> HIDE DEF h, O
  <2>2. ASSUME NEW j \in Used PROVE Alarm[j] = (sum[j] - sum[cur]) * Den
    <3>1. Alarm[j] = 0 + (sum[j] - sum[cur]) * Den
      BY <1>5 DEF Alarms
    <3> DEFINE o == sum[j] - sum[cur]
    <3>2. o \in Int
      BY <2>1
    <3> HIDE DEF o
    <3>3. 0 + o * Den = o * Den
      BY <3>2, Numbers
    <3> QED
      BY <3>1, <3>3 DEF o
  <2> QED
    BY <2>2
<1>8. Alarm[cur] <= 0
  <2>1. sum[cur] - sum[cur] = 0
    BY <1>2
  <2>2. 0 * Den = 0
    BY Numbers
  <2> QED
    BY <1>6, <1>7, <2>1, <2>2
<1>9. \A j \in Used \ {cur} : Deducts(Alarm[j], B[j])
  <2> SUFFICES ASSUME NEW j \in Used \ {cur} PROVE Deducts(Alarm[j], B[j])
    OBVIOUS
  <2> DEFINE o == sum[j] - sum[cur]
             b == B[j]
             a == Alarm[j]
  <2>1. o \in Int /\ b \in Int /\ a = o * Den
    BY <1>2, <1>6, <1>7
  <2>2. Moved(o, b, gap) /\ gap = 0
    BY <1>4 DEF Shifted, gap
  <2> HIDE DEF o, b, a
  <2> QED
    BY <2>1, <2>2, NoGapBounds DEF a, b
<1>10. dd \in Nat /\ dd * Den <= Elapsed
  <2>1. d \in Nat /\ d <= MaxIsr /\ MaxIsr \in Nat
    BY Numbers
  <2>2. dd \in Nat /\ dd * Den <= d * Num
    BY <2>1, CLK2USRounds
  <2>3. d * Num <= MaxIsr * Num /\ d * Num \in Int /\ MaxIsr * Num \in Int
    BY <2>1, Numbers, MulLe
  <2>4. MaxIsr * Num <= Elapsed
    <3>1. Num \in Nat /\ 0 * Num = 0
      BY Numbers
    <3> QED
      BY <2>1, <2>3, <3>1 DEF Elapsed
  <2> HIDE DEF dd
  <2>5. dd * Den \in Int /\ Elapsed \in Int
    BY <2>2, Numbers, ElapsedClock
  <2> QED
    BY <2>2, <2>3, <2>4, <2>5
<1>11. c2 # NoId => time'[c2] = tm2[c2] - dd
  BY <1>3
<1>12. WentOff(s, n, Used, next, cur, time, sum, using, gap, q, c2, tm2, B)
  BY <1>3
<1> HIDE DEF h, O, dd
<1>13. GoesOffFrom(s, n, Used, cur, sum, time, using, gap, q, c2, tm2, B, h, O, dd)
  BY <1>2, <1>5, <1>8, <1>9, <1>10, <1>11, <1>12 DEF GoesOffFrom
<1> QED
  BY <1>13, WentOffAlarms

\* The alarms are those of the list that a boot begins with.
LEMMA BootListAlarms ==
    ASSUME TInv, power = "boot", NEW z, NEW m, NEW us, NEW A, BootList(z, m, us, A),
           NEW U, U = {j \in Id : us[j]}
    PROVE  Alarms(Alarm, U, target * Num, [j \in Id |-> A[j] - A[wakeup_id]])
<1> DEFINE w == wakeup_id
           O == [j \in Id |-> A[j] - A[w]]
           h == target * Num
<1>0. TypeOK /\ PowerOK /\ w \in Id /\ w # NoId /\ NoId \notin Id /\ Beacon \subseteq Id
  <2>1. TypeOK /\ w \in Id /\ w # NoId
    BY BootListIs
  <2> QED
    BY <2>1, Numbers DEF TInv
<1>1. /\ us = [using EXCEPT ![w] = @ \/ w \in Beacon] /\ using \in [Id -> BOOLEAN]
      /\ IsList(z, m, U, next, w) /\ Apart(U, next, time, A) /\ A \in [Id -> Int]
      /\ time \in [Id -> Nat]
  BY <1>0 DEF BootList, Apart, TypeOK
<1>2. CASE EndsSleep
  <2>1. cur = w
    BY <1>2 DEF EndsSleep
  <2>2. U = Used /\ w \in Used
    <3>1. \E s, n : IsList(s, n, Used, next, cur)
      BY DEF TInv, Shows
    <3>2. using[w]
      <4>1. w \in Used
        BY <1>0, <2>1, <3>1, ListMembers
      <4> QED
        BY <4>1 DEF Used
    <3>3. us = using
      BY <1>0, <1>1, <3>2
    <3> QED
      BY <1>0, <3>2, <3>3 DEF Used
  <2>3. Shows(z, m, A)
    BY <1>1, <2>1, <2>2 DEF Shows
  <2>4. Alarms(Alarm, Used, target * Num, Gaps(A))
    BY <1>2, <2>3, ViewNow DEF ViewIs
  <2>5. Gaps(A) = O
    BY <2>1 DEF Gaps
  <2> QED
    BY <2>2, <2>4, <2>5
<1>3. CASE Received
  <2>1. w \in Beacon /\ ~using[w] /\ next[w] = cur
    BY <1>3 DEF Received
  <2>2. U = Used \cup {w} /\ w \notin Used
    <3>1. us = [using EXCEPT ![w] = TRUE]
      BY <1>1, <2>1
    <3> QED
      BY <1>0, <1>1, <2>1, <3>1 DEF Used
  <2>3. Tail(z, m, U, next, w, time, A, cur)
    BY <1>0, <1>1, <2>1, ListTail
  <2> DEFINE y == Dropped(z, m, 1)
             k == m - 1
  <2>4. /\ IsList(y, k, U \ {w}, next, cur) /\ Apart(U \ {w}, next, time, A)
        /\ cur # NoId => cur \in U \ {w} /\ A[cur] = A[w] + time[cur]
    BY <2>3 DEF Tail
  <2> HIDE DEF y, k
  <2>5. U \ {w} = Used
    BY <2>2
  <2>6. Shows(y, k, A)
    BY <2>4, <2>5 DEF Shows
  <2>7. Alarms(Alarm, Used \cup {w}, target * Num, BootGaps(A))
    BY <1>3, <2>6, ViewNow DEF ViewIs
  <2>8. \A j \in U : BootGaps(A)[j] = O[j] /\ O[j] \in Int
    <3> SUFFICES ASSUME NEW j \in U PROVE BootGaps(A)[j] = O[j] /\ O[j] \in Int
      OBVIOUS
    <3>1. j \in Id /\ A[j] \in Int /\ A[w] \in Int
      BY <1>0, <1>1, <2>2 DEF Used
    <3>2. CASE j = w
      BY <1>0, <3>1, <3>2 DEF BootGaps
    <3>3. CASE j # w
      <4>1. cur # NoId /\ cur \in Id
        <5>1. j \in Used
          BY <2>2, <3>3
        <5>2. cur # NoId /\ cur \in Used
          BY <2>4, <2>5, <5>1, ListMembers
        <5> QED
          BY <5>2 DEF Used
      <4>2. A[cur] = A[w] + time[cur] /\ A[cur] \in Int /\ time[cur] \in Int
        BY <1>1, <2>4, <4>1
      <4>3. BootGaps(A)[j] = time[cur] + (A[j] - A[cur])
        BY <3>1, <3>3 DEF BootGaps
      <4> QED
        BY <3>1, <4>2, <4>3
    <3> QED
      BY <3>2, <3>3
  <2> HIDE DEF O
  <2>9. Alarms(Alarm, U, h, O)
    <3> DEFINE P == BootGaps(A)
    <3>1. Alarms(Alarm, U, h, P) /\ \A j \in U : P[j] = O[j]
      BY <2>2, <2>7, <2>8
    <3> HIDE DEF P, h
    <3> QED
      BY <3>1 DEF Alarms
  <2> QED
    BY <2>9 DEF O
<1> QED
  BY <1>0, <1>2, <1>3 DEF PowerOK

\* A boot after the counter's end calls the timer that ended the sleep and
\* those that are close, and takes from the others what it lasted.
LEMMA CounterAlarms ==
    ASSUME FineClock, TInv, TInv', SchedulerCounter PROVE Promised!Next
<1> DEFINE w == wakeup_id
           gap == CounterGap
           h == target * Num
<1>0. power = "boot" /\ target <= 0 /\ target \in Int
  BY DEF SchedulerCounter, AfterCounter, TInv, TypeOK, PowerOK
<1>1. TypeOK /\ w \in Id /\ w # NoId
  BY <1>0, BootListIs
<1>2. PICK z, m, us, A : BootList(z, m, us, A)
  BY <1>0, BootListIs
<1> DEFINE U == {j \in Id : us[j]}
           O == [j \in Id |-> A[j] - A[w]]
<1>3. us \in [Id -> BOOLEAN] /\ IsList(z, m, U, next, w) /\ A \in [Id -> Int]
  BY <1>1, <1>2 DEF BootList, Apart, TypeOK
<1>u. U = {j \in Id : us[j]}
  OBVIOUS
<1> HIDE DEF U
<1>4. \E q, c2, tm2, B :
         /\ WentOff(z, m, U, next, w, time, A, us, gap, q, c2, tm2, B)
         /\ time' = tm2
  BY <1>1, <1>2, <1>u, CounterIs
<1>5. PICK q, c2, tm2, B :
         /\ WentOff(z, m, U, next, w, time, A, us, gap, q, c2, tm2, B)
         /\ time' = tm2
  BY <1>4
<1>6. Alarms(Alarm, U, h, O)
  BY <1>0, <1>2, <1>u, BootListAlarms
<1>7. /\ w \in U /\ B \in [Id -> Int] /\ U \subseteq Id /\ tm2 \in [Id -> Nat]
      /\ \A j \in U \ {w} : Moved(A[j] - A[w], B[j], gap)
      /\ c2 # NoId => c2 \in Id
  <2>1. /\ Remains(z, m, U, next, w, time, A, q, c2, tm2, B)
        /\ Shifted(z, q, U, w, A, gap, c2, tm2, B)
    BY <1>5 DEF WentOff
  <2>2. w \in U /\ U \subseteq Id
    BY <1>1, <1>3, ListMembers
  <2>3. B \in [Id -> Int] /\ tm2 \in [Id -> Nat] /\ q \in 1 .. m
        /\ c2 = IF q = m THEN NoId ELSE z[q]
    BY <2>1 DEF Remains, Apart
  <2>4. c2 # NoId => c2 \in Id
    <3>1. z \in [0 .. m - 1 -> Id] /\ m \in Nat
      BY <1>3 DEF IsList
    <3> QED
      BY <2>3, <3>1
  <2> QED
    BY <2>1, <2>2, <2>3, <2>4 DEF Shifted
<1> DEFINE dd == 0
<1>8. dd \in Nat /\ dd * Den <= Elapsed
  <2>1. 0 * Den = 0
    BY Numbers
  <2> QED
    BY <2>1, ElapsedClock
<1>9. c2 # NoId => time'[c2] = tm2[c2] - dd
  <2> SUFFICES ASSUME c2 # NoId PROVE time'[c2] = tm2[c2] - dd
    OBVIOUS
  <2> DEFINE x == tm2[c2]
  <2>1. x \in Nat /\ time'[c2] = x
    BY <1>5, <1>7
  <2> HIDE DEF x
  <2>2. x - dd = x
    BY <2>1
  <2> QED
    BY <2>1, <2>2 DEF x
<1> HIDE DEF dd
<1>10. \A j \in U : O[j] = A[j] - A[w] /\ O[j] \in Int
  BY <1>1, <1>3, <1>7
<1> HIDE DEF O
<1>11. \A j \in U : Alarm[j] = h + O[j] * Den /\ h \in Int
  BY <1>6 DEF Alarms
<1>12. Alarm[w] <= 0
  <2>1. O[w] = 0
    BY <1>1, <1>3, <1>7, <1>10
  <2>2. 0 * Den = 0
    BY Numbers
  <2>3. h <= 0 /\ h \in Int
    BY <1>0, Numbers
  <2> QED
    BY <1>7, <1>11, <2>1, <2>2, <2>3
<1>13. ASSUME NEW j \in U \ {w} PROVE Deducts(Alarm[j], B[j])
  <2> DEFINE o == O[j]
             b == B[j]
             a == Alarm[j]
             t == target
  <2>1. o \in Int /\ b \in Int /\ a = t * Num + o * Den /\ Moved(o, b, gap)
    BY <1>7, <1>10, <1>11
  <2>2. CASE target = 0
    <3>1. gap = 0 /\ 0 * Num = 0
      BY <2>2, Numbers DEF CounterGap
    <3>2. a = o * Den
      <4> HIDE DEF a, o
      <4>1. a = 0 + o * Den /\ o * Den \in Int
        BY <2>1, <2>2, <3>1, Numbers
      <4> QED
        BY <4>1
    <3> HIDE DEF o, b, a, gap
    <3> QED
      BY <2>1, <3>1, <3>2, NoGapBounds DEF a, b
  <2>3. CASE target # 0
    <3> DEFINE e == 3
    <3>1. gap = CLK2US(Abs(t) + e)
      <4>1. Abs(target) + 3 \in Nat
        BY <1>0 DEF Abs
      <4> QED
        BY <1>0, <2>3 DEF CounterGap, get_remain_counter, Abs
    <3>2. t \in Int /\ t <= 0 /\ e \in Nat \ {0} /\ e = 3
      BY <1>0
    <3> HIDE DEF o, b, a, gap, t, e
    <3>3. /\ t * Num + o * Den <= b * Den + e * Num
          /\ b = 0 \/ b * Den <= t * Num + o * Den + Slice * Den
      BY <2>1, <3>1, <3>2, GapBounds DEF FineClock
    <3> QED
      BY <2>1, <3>2, <3>3 DEF Deducts, a, b
  <2> QED
    BY <2>2, <2>3
<1>14. GoesOffFrom(z, m, U, w, A, time, us, gap, q, c2, tm2, B, h, O, dd)
  <2> HIDE DEF w, gap, h
  <2> QED
    BY <1>u, <1>3, <1>5, <1>6, <1>8, <1>9, <1>12, <1>13 DEF GoesOffFrom
<1> HIDE DEF w, gap, h
<1> QED
  BY <1>14, WentOffAlarms
-----------------------------------------------------------------------------
(* The list implements the alarms.                                         *)

\* A step that spoils the list turns all alarms off.
LEMMA SpoilsAlarms == ASSUME TInv, Spoils PROVE Promised!Next
<1>1. /\ power' = "lost" /\ power \in {"on", "boot"}
      /\ called' \subseteq {i \in Id : using[i] \/ (power = "boot" /\ i = wakeup_id)}
  BY SpoilsIs DEF TInv
<1>2. (power = "lost" => \A i \in Id : Alarm[i] = Off)'
  BY AlarmUnused, PTL
<1>3. PICK s, n, sum : Shows(s, n, sum)
  BY DEF TInv
<1>4. ViewIs(sum)
  BY <1>3, ViewNow
<1>5. called' \subseteq Promised!Set
  <2>1. CASE power = "on"
    <3> DEFINE h == mcnt * Num
               O == Gaps(sum)
    <3>1. Alarms(Alarm, Used, h, O)
      BY <1>4, <2>1 DEF ViewIs
    <3> HIDE DEF h, O
    <3> QED
      BY <1>1, <2>1, <3>1, SetIs DEF Used
  <2>2. CASE power = "boot" /\ EndsSleep
    <3> DEFINE h == target * Num
               O == Gaps(sum)
    <3>1. Alarms(Alarm, Used, h, O)
      BY <1>4, <2>2 DEF ViewIs
    <3>2. wakeup_id \in Used
      <4>1. wakeup_id = cur /\ cur # NoId /\ IsList(s, n, Used, next, cur)
        BY <1>3, <2>2 DEF EndsSleep, Shows
      <4> QED
        BY <4>1, ListMembers
    <3> HIDE DEF h, O
    <3> QED
      BY <1>1, <3>1, <3>2, SetIs DEF Used
  <2>3. CASE power = "boot" /\ Received
    <3> DEFINE h == target * Num
               O == BootGaps(sum)
               S == Used \cup {wakeup_id}
    <3>1. Alarms(Alarm, S, h, O)
      BY <1>4, <2>3 DEF ViewIs
    <3>2. called' \subseteq S
      BY <1>1 DEF Used
    <3> HIDE DEF h, O, S
    <3> QED
      BY <3>1, <3>2, SetIs
  <2>4. power = "boot" => EndsSleep \/ Received
    BY DEF TInv, PowerOK
  <2> QED
    BY <1>1, <2>1, <2>2, <2>3, <2>4
<1>6. \A i \in Id : Alarm'[i] = Off
  BY <1>1, <1>2
<1>7. Promised!Lose
  BY <1>5, <1>6 DEF Promised!Lose, Promised!Gone
<1> QED
  BY <1>7 DEF Promised!Next

\* Every other step of a list that is not spoilt is one of RtcAlarms.
LEMMA NextAlarms ==
    ASSUME FineClock, TInv, TInv', Next, ~Spoils PROVE Promised!Next
<1>1. ASSUME NEW i \in Id, NEW t \in Times,
             DA16X_SET_TIMER(i, t) \/ DA16X_SET_WAKEUP_TIMER(i, t)
      PROVE  Promised!Next
  BY <1>1, SetTimerAlarms, SetWakeupAlarms
<1>2. ASSUME NEW i \in Id, DA16X_KILL_TIMER(i) PROVE Promised!Next
  BY <1>2, KillAlarms
<1>3. ASSUME NEW d \in 0 .. MaxIsr, rtc_mirror_hisr(d) PROVE Promised!Next
  BY <1>3, IsrAlarms
<1>4. ASSUME (\E ext \in BOOLEAN : Wakeup(ext)) \/ FullBoot PROVE Promised!Next
  BY <1>4, BootAlarms
<1>5. ASSUME Scheduler PROVE Promised!Next
  BY <1>5, TimAlarms, CounterAlarms, ExtAlarms DEF Scheduler
<1>6. ASSUME SchedulerReset PROVE Promised!Next
  BY <1>6, ResetAlarms
<1>7. ASSUME Tick PROVE Promised!Next
  BY <1>7, TickAlarms
<1> QED
  BY <1>1, <1>2, <1>3, <1>4, <1>5, <1>6, <1>7, Zenon DEF Next

\* Every step is one of RtcAlarms, or moves no alarm.
LEMMA AlarmStep ==
    ASSUME FineClock, Inv, Inv', [Next]_vars PROVE [Promised!Next]_(Promised!vars)
<1>1. CASE UNCHANGED vars
  <2>1. Alarm' = Alarm /\ called' = called
    BY <1>1 DEF vars, Alarm
  <2>2. UNCHANGED Promised!vars
    BY <2>1 DEF Promised!vars
  <2> QED
    BY <2>2
<1>2. CASE power = "lost"
  <2>1. SchedulerReset \/ UNCHANGED vars
    BY <1>2, LostStep
  <2> QED
    BY <1>1, <2>1, ResetAlarms
<1>3. CASE power # "lost" /\ Spoils
  <2>1. TInv
    BY <1>3 DEF Inv
  <2> QED
    BY <1>3, <2>1, SpoilsAlarms
<1>4. CASE power # "lost" /\ ~Spoils /\ Next
  <2>1. TInv
    BY <1>4 DEF Inv
  <2>2. TInv'
    BY <1>4, <2>1, TStep
  <2> QED
    BY <1>4, <2>1, <2>2, NextAlarms
<1> QED
  BY <1>1, <1>2, <1>3, <1>4

\* The RTC timers keep what RtcAlarms promises, for any number of timers and
\* any times, and however long interrupts and boots take: an operation, an
\* interrupt, a power-down or a boot moves no alarm by more than the rounding,
\* the corrections and the slices allow, turns off none but its own, and calls
\* none that is neither due nor close to one that is; only a reset, or a step
\* listed under Spoils, turns all of them off.  A clock is no shorter than a
\* microsecond.
THEOREM RtcImplementsAlarms == ASSUME FineClock PROVE Spec => AlarmSpec
<1>1. Init => Inv /\ Promised!Init
  BY TInit, InvInit, InitAlarms
<1>2. Inv /\ [Next]_vars => Inv'
  BY InvStep
<1>3. Inv /\ Inv' /\ [Next]_vars => [Promised!Next]_(Promised!vars)
  BY AlarmStep
<1> QED
  BY <1>1, <1>2, <1>3, PTL DEF Spec, AlarmSpec, Promised!Spec
=============================================================================
