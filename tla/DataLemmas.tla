----------------------------- MODULE DataLemmas -----------------------------
(***************************************************************************)
(* Lemmas about data that the proofs of several components rest on: the    *)
(* queue of a listening server, induction over the natural numbers, and    *)
(* functions that are defined by recursion.                                *)
(***************************************************************************)
EXTENDS Integers, Sequences, WellFoundedInduction, TLAPS

-----------------------------------------------------------------------------
(***************************************************************************)
(* The queue of a listening server, in which every peer is pending at most *)
(* once.                                                                   *)
(***************************************************************************)
IsIn(q, p) == \E k \in 1..Len(q) : q[k] = p

Once(q) == \A k, n \in 1..Len(q) : q[k] = q[n] => k = n

\* accept() takes the first connection and leaves the others pending.
LEMMA TakeHead ==
  ASSUME NEW S, NEW q \in Seq(S), q # <<>>, Once(q)
  PROVE  /\ Head(q) \in S /\ IsIn(q, Head(q))
         /\ \A p : IsIn(Tail(q), p) <=> IsIn(q, p) /\ p # Head(q)
         /\ Once(Tail(q))
<1> DEFINE rest == Tail(q)
<1>1. /\ rest \in Seq(S) /\ Len(rest) = Len(q) - 1 /\ Len(q) \in Nat \ {0}
      /\ \A k \in 1..Len(rest) : rest[k] = q[k + 1]
      /\ Head(q) = q[1] /\ q[1] \in S
  OBVIOUS
<1> HIDE DEF rest
<1>2. \A k \in 1..Len(rest) : k + 1 \in 1..Len(q)
  BY <1>1
<1>3. Once(rest)
  BY <1>1, <1>2 DEF Once
<1>4. ASSUME NEW p, IsIn(rest, p) PROVE IsIn(q, p) /\ p # q[1]
  BY <1>1, <1>2, <1>4 DEF IsIn, Once
<1>5. ASSUME NEW p, IsIn(q, p), p # q[1] PROVE IsIn(rest, p)
  <2>1. PICK k \in 1..Len(q) : q[k] = p
    BY <1>5 DEF IsIn
  <2>2. k - 1 \in 1..Len(rest) /\ rest[k - 1] = p
    BY <1>1, <1>5, <2>1
  <2> QED
    BY <2>2 DEF IsIn
<1>6. IsIn(q, q[1])
  BY <1>1 DEF IsIn
<1> QED
  BY <1>1, <1>3, <1>4, <1>5, <1>6 DEF rest

\* A new connection is pending behind the others.
LEMMA AddLast ==
  ASSUME NEW S, NEW q \in Seq(S), NEW p \in S, Once(q), ~IsIn(q, p)
  PROVE  /\ \A r : IsIn(Append(q, p), r) <=> IsIn(q, r) \/ r = p
         /\ Once(Append(q, p))
<1> DEFINE longer == Append(q, p)
<1>1. /\ Len(longer) = Len(q) + 1 /\ Len(q) \in Nat
      /\ \A k \in 1..Len(q) : longer[k] = q[k]
      /\ longer[Len(q) + 1] = p
  OBVIOUS
<1> HIDE DEF longer
<1>2. 1..Len(longer) = 1..Len(q) \cup {Len(q) + 1}
  BY <1>1
<1>3. \A r : IsIn(longer, r) <=> IsIn(q, r) \/ r = p
  BY <1>1, <1>2 DEF IsIn
<1>4. Once(longer)
  BY <1>1, <1>2 DEF IsIn, Once
<1> QED
  BY <1>3, <1>4 DEF longer

LEMMA EmptyQueue == ASSUME NEW q, q = <<>> PROVE Once(q) /\ \A p : ~IsIn(q, p)
  BY DEF Once, IsIn

-----------------------------------------------------------------------------
(***************************************************************************)
(* Induction.  What is to be shown of every number is given as a set, not  *)
(* as an operator, so that the provers can instantiate the lemmas; they    *)
(* rest on the library's fact that a set of numbers has a least one.       *)
(***************************************************************************)
NatOrder == {p \in Nat \X Nat : p[1] < p[2]}

LEMMA NatOrderWellFounded == IsWellFoundedOn(NatOrder, Nat)
BY NatLessThanWellFounded DEF OpToRel, NatOrder

LEMMA LeastNatural ==
  ASSUME NEW T, T \subseteq Nat, T # {}
  PROVE  \E x \in T : \A y \in T : x <= y
<1>1. PICK x \in T : \A y \in T : ~ (<<y, x>> \in NatOrder)
  <2> HIDE DEF NatOrder
  <2> QED BY NatOrderWellFounded, WFMin
<1>2. \A y \in T : ~ (y < x)
  BY <1>1 DEF NatOrder
<1> QED BY <1>2

LEMMA Induction ==
  ASSUME NEW S, 0 \in S, \A n \in Nat : n \in S => n + 1 \in S
  PROVE  \A n \in Nat : n \in S
<1> DEFINE T == {n \in Nat : n \notin S}
<1> SUFFICES ASSUME T # {} PROVE FALSE
  OBVIOUS
<1>1. PICK x \in T : \A y \in T : x <= y
  BY LeastNatural
<1>2. x \in Nat /\ x # 0
  OBVIOUS
<1>3. x - 1 \in Nat /\ x - 1 \notin T
  BY <1>1, <1>2
<1>4. x - 1 \in S
  BY <1>3
<1>5. (x - 1) + 1 = x
  BY <1>2
<1> QED BY <1>2, <1>3, <1>4, <1>5

\* The same with all smaller numbers in the hypothesis.
LEMMA StrongInduction ==
  ASSUME NEW S, \A n \in Nat : (\A k \in Nat : k < n => k \in S) => n \in S
  PROVE  \A n \in Nat : n \in S
<1> DEFINE T == {n \in Nat : n \notin S}
<1> SUFFICES ASSUME T # {} PROVE FALSE
  OBVIOUS
<1>1. PICK x \in T : \A y \in T : x <= y
  BY LeastNatural
<1>2. \A k \in Nat : k < x => k \in S
  BY <1>1
<1> QED BY <1>2

\* The same over an interval.
LEMMA InductionFrom ==
  ASSUME NEW m \in Int, NEW n \in Int, NEW S,
         m \in S, \A i \in m..(n - 1) : i \in S => i + 1 \in S
  PROVE  \A i \in m..n : i \in S
<1> DEFINE T == {k \in Nat : m + k <= n => m + k \in S}
<1>1. 0 \in T
  OBVIOUS
<1>2. \A k \in Nat : k \in T => k + 1 \in T
  <2> SUFFICES ASSUME NEW k \in Nat, k \in T, m + (k + 1) <= n PROVE m + (k + 1) \in S
    OBVIOUS
  <2>1. m + k \in m..(n - 1) /\ m + k \in S /\ (m + k) + 1 = m + (k + 1)
    OBVIOUS
  <2> QED BY <2>1
<1>3. \A k \in Nat : k \in T
  <2> HIDE DEF T
  <2> QED BY <1>1, <1>2, Induction
<1> TAKE i \in m..n
<1>4. i - m \in Nat /\ m + (i - m) = i /\ i <= n
  OBVIOUS
<1>5. i - m \in T
  BY <1>3, <1>4
<1> QED BY <1>4, <1>5

-----------------------------------------------------------------------------
(***************************************************************************)
(* Recursive functions.  TLA+ defines f[x \in D] == e(f, x) as some f that *)
(* satisfies the equation, so there is something to show: that one does.   *)
(* It does when step[x][f], the value at x, depends on f only at points of *)
(* a smaller rank.                                                         *)
(***************************************************************************)
IsRecursion(D, V, rank, bound, step) ==
  /\ V # {} /\ bound \in Nat /\ rank \in [D -> 0..bound]
  /\ step \in [D -> [[D -> V] -> V]]
  /\ \A x \in D : \A g, h \in [D -> V] :
        (\A y \in D : rank[y] < rank[x] => g[y] = h[y]) => step[x][g] = step[x][h]

IsFixpoint(f, D, V, step) == f \in [D -> V] /\ \A x \in D : f[x] = step[x][f]

LEMMA RecursionExists ==
  ASSUME NEW D, NEW V, NEW rank, NEW bound, NEW step, IsRecursion(D, V, rank, bound, step)
  PROVE  \E f : IsFixpoint(f, D, V, step)
<1> USE DEF IsRecursion, IsFixpoint
<1>0. PICK v \in V : TRUE
  OBVIOUS
<1> DEFINE Solves(g, n) == \A x \in D : rank[x] < n => g[x] = step[x][g]
<1> DEFINE S == {n \in Nat : \E g \in [D -> V] : Solves(g, n)}
<1>1. 0 \in S
  <2>1. Solves([x \in D |-> v], 0)
    OBVIOUS
  <2> QED BY <2>1
<1>2. ASSUME NEW n \in Nat, n \in S PROVE n + 1 \in S
  <2>1. PICK g \in [D -> V] : Solves(g, n)
    BY <1>2
  <2> DEFINE h == [x \in D |-> IF rank[x] < n THEN g[x] ELSE step[x][g]]
  <2>2. h \in [D -> V]
    OBVIOUS
  <2>3. ASSUME NEW x \in D, rank[x] < n + 1 PROVE h[x] = step[x][h]
    <3>1. \A y \in D : rank[y] < rank[x] => g[y] = h[y]
      BY <2>3
    <3>2. step[x][g] = step[x][h]
      BY <2>2, <3>1
    <3> QED BY <2>1, <3>2
  <2>4. Solves(h, n + 1)
    BY <2>3
  <2> HIDE DEF h
  <2> QED BY <2>2, <2>4
<1>3. bound + 1 \in S
  <2> HIDE DEF S
  <2> QED BY <1>1, <1>2, Induction
<1>4. PICK f \in [D -> V] : Solves(f, bound + 1)
  BY <1>3
<1> QED BY <1>4

\* A sum that begins with c and goes on with d[m + 1], d[m + 2]...
IsSum(f, m, n, c, d) == f = [i \in m..n |-> IF i = m THEN c ELSE f[i - 1] + d[i]]

LEMMA SumExists ==
  ASSUME NEW m \in Nat, NEW n \in Nat, NEW c \in Nat, NEW d \in [(m + 1)..n -> Nat]
  PROVE  \E f : IsSum(f, m, n, c, d)
<1> DEFINE D == m..n
           step == [i \in D |-> [g \in [D -> Nat] |->
                      IF i = m THEN c ELSE g[i - 1] + d[i]]]
           rank == [i \in D |-> i]
<1>1. step \in [D -> [[D -> Nat] -> Nat]]
  <2>1. ASSUME NEW i \in D, NEW g \in [D -> Nat]
        PROVE  (IF i = m THEN c ELSE g[i - 1] + d[i]) \in Nat
    <3>1. CASE i = m  BY <3>1
    <3>2. CASE i # m
      <4>1. i \in (m + 1)..n /\ i - 1 \in D  BY <3>2
      <4>2. g[i - 1] \in Nat /\ d[i] \in Nat  BY <4>1
      <4> QED  BY <3>2, <4>2
    <3> QED  BY <3>1, <3>2
  <2> QED  BY <2>1
<1>2. IsRecursion(D, Nat, rank, n, step)
  <2>1. rank \in [D -> 0..n]  OBVIOUS
  <2>2. ASSUME NEW i \in D, NEW g \in [D -> Nat], NEW h \in [D -> Nat],
               \A y \in D : rank[y] < rank[i] => g[y] = h[y]
        PROVE  step[i][g] = step[i][h]
    <3>1. CASE i = m  BY <3>1
    <3>2. CASE i # m
      <4>1. i - 1 \in D /\ i - 1 < i  BY <3>2
      <4>2. g[i - 1] = h[i - 1]  BY <2>2, <4>1
      <4> QED  BY <4>2
    <3> QED  BY <3>1, <3>2
  <2> HIDE DEF step, rank, D
  <2> QED  BY <1>1, <2>1, <2>2 DEF IsRecursion
<1>3. PICK f : IsFixpoint(f, D, Nat, step)
  <2> HIDE DEF step, rank, D
  <2> QED  BY <1>2, RecursionExists
<1>4. f \in [D -> Nat] /\ \A i \in D : f[i] = step[i][f]
  BY <1>3 DEF IsFixpoint
<1>5. \A i \in D : f[i] = IF i = m THEN c ELSE f[i - 1] + d[i]
  BY <1>4
<1> HIDE DEF step, rank
<1>6. IsSum(f, m, n, c, d)
  BY <1>4, <1>5 DEF IsSum
<1> QED  BY <1>6

LEMMA SumGoesOn ==
  ASSUME NEW m \in Nat, NEW n \in Nat, m <= n, NEW c \in Nat,
         NEW d \in [(m + 1)..n -> Nat], NEW f, IsSum(f, m, n, c, d)
  PROVE  /\ f[m] = c
         /\ \A i \in m..(n - 1) : f[i + 1] = f[i] + d[i + 1]
         /\ \A i \in m..n : f[i] \in Nat
<1>1. f[m] = c  BY DEF IsSum
<1>2. ASSUME NEW i \in m..(n - 1) PROVE f[i + 1] = f[i] + d[i + 1]
  <2>1. i + 1 \in m..n /\ i + 1 # m /\ (i + 1) - 1 = i  OBVIOUS
  <2> QED  BY <2>1 DEF IsSum
<1> DEFINE S == {i \in m..n : f[i] \in Nat}
<1>3. m \in S  BY <1>1
<1>4. ASSUME NEW i \in m..(n - 1), i \in S PROVE i + 1 \in S
  <2>1. i + 1 \in (m + 1)..n /\ i + 1 \in m..n  OBVIOUS
  <2>2. d[i + 1] \in Nat  BY <2>1
  <2> QED  BY <1>2, <1>4, <2>1, <2>2
<1>5. \A i \in m..n : i \in S
  <2> HIDE DEF S
  <2>1. m \in Int /\ n \in Int  OBVIOUS
  <2> QED  BY ONLY <1>3, <1>4, <2>1, InductionFrom, Zenon
<1> QED  BY <1>1, <1>2, <1>5

\* A value that is carried along a range: it begins with c, and each place i
\* behind the first makes op[i][v] of what it was.
IsCarry(op, m, n, V) == op \in [(m + 1)..n -> [V -> V]]
IsCarried(f, m, n, V, c, op) ==
  f \in [m..n -> V] /\ \A i \in m..n : f[i] = IF i = m THEN c ELSE op[i][f[i - 1]]

LEMMA CarriedExists ==
  ASSUME NEW m \in Int, NEW n \in Int, NEW V, NEW c \in V,
         NEW op, IsCarry(op, m, n, V)
  PROVE  \E f : IsCarried(f, m, n, V, c, op)
<1> USE DEF IsCarry
<1> DEFINE D == m..n
           step == [i \in D |-> [g \in [D -> V] |->
                      IF i = m THEN c ELSE op[i][g[i - 1]]]]
           rank == [i \in D |-> i - m]
           bound == IF m <= n THEN n - m ELSE 0
<1>1. step \in [D -> [[D -> V] -> V]]
  <2>1. ASSUME NEW i \in D, NEW g \in [D -> V]
        PROVE  (IF i = m THEN c ELSE op[i][g[i - 1]]) \in V
    <3>1. CASE i = m  BY <3>1
    <3>2. CASE i # m
      <4>1. i \in (m + 1)..n /\ i - 1 \in D  BY <3>2
      <4>2. g[i - 1] \in V /\ op[i] \in [V -> V]  BY <4>1
      <4> QED  BY <3>2, <4>2
    <3> QED  BY <3>1, <3>2
  <2> QED  BY <2>1
<1>2. IsRecursion(D, V, rank, bound, step)
  <2>1. rank \in [D -> 0..bound] /\ bound \in Nat  OBVIOUS
  <2>2. ASSUME NEW i \in D, NEW g \in [D -> V], NEW h \in [D -> V],
               \A y \in D : rank[y] < rank[i] => g[y] = h[y]
        PROVE  step[i][g] = step[i][h]
    <3>1. CASE i = m  BY <3>1
    <3>2. CASE i # m
      <4>1. i - 1 \in D /\ rank[i - 1] < rank[i]  BY <3>2
      <4>2. g[i - 1] = h[i - 1]  BY <2>2, <4>1
      <4> QED  BY <4>2
    <3> QED  BY <3>1, <3>2
  <2> HIDE DEF step, rank, D, bound
  <2> QED  BY <1>1, <2>1, <2>2 DEF IsRecursion
<1>3. PICK f : IsFixpoint(f, D, V, step)
  <2> HIDE DEF step, rank, D, bound
  <2> QED  BY <1>2, RecursionExists
<1>4. f \in [D -> V] /\ \A i \in D : f[i] = step[i][f]
  BY <1>3 DEF IsFixpoint
<1>5. \A i \in D : f[i] = IF i = m THEN c ELSE op[i][f[i - 1]]
  BY <1>4
<1> QED  BY <1>4, <1>5 DEF IsCarried
=============================================================================
