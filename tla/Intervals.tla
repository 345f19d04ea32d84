------------------------------ MODULE Intervals ------------------------------
(***************************************************************************)
(* Facts about intervals of numbers that the proofs about several          *)
(* components need.  The schedulers take the front of a queue, an item     *)
(* with the least time point: that there is one, as no chain of ever       *)
(* smaller initial segments of the time points is infinite.  What a loop   *)
(* over a sequence computes is a function defined by recursion on an       *)
(* interval: that there is one, and that what each of its steps preserves  *)
(* holds of the result.                                                    *)
(***************************************************************************)
EXTENDS Integers, FiniteSetTheorems, TLAPS

\* A nonempty set of time points has a least one.
LEMMA LeastTimeExists ==
    ASSUME NEW MaxT \in Nat, NEW T \in SUBSET (0 .. MaxT), T # {}
    PROVE  \E t \in T : \A q \in T : t <= q
<1> DEFINE Times == 0 .. MaxT
           Before(t) == 0 .. (t - 1)
           Initials == {Before(t) : t \in T}
<1>1. IsWellFoundedOn(StrictSubsetOrdering(Times), FiniteSubsetsOf(Times))
  <2>1. IsFiniteSet(Times)
    BY FS_Interval
  <2> QED BY <2>1, FS_StrictSubsetOrderingWellFounded
<1>2. Initials \subseteq FiniteSubsetsOf(Times) /\ Initials # {}
  <2>1. ASSUME NEW t \in T
        PROVE  Before(t) \in SUBSET Times /\ IsFiniteSet(Before(t))
    BY FS_Interval
  <2> QED BY <2>1 DEF FiniteSubsetsOf
<1>3. PICK A \in Initials : \A B \in Initials : <<B, A>> \notin StrictSubsetOrdering(Times)
  <2> HIDE DEF Initials
  <2> QED BY <1>1, <1>2, WFMin
<1>4. PICK t \in T : A = Before(t)
  OBVIOUS
<1>5. ASSUME NEW q \in T, q < t
      PROVE  FALSE
  <2>1. Before(q) \in SUBSET Times /\ A \in SUBSET Times
    BY <1>4
  <2>2. Before(q) \subseteq A /\ q \in A /\ q \notin Before(q)
    <3>1. q \in Nat /\ t \in Nat
      OBVIOUS
    <3>2. \A x \in Before(q) : x \in Before(t)
      BY <1>5, <3>1
    <3>3. q \in Before(t) /\ q \notin Before(q)
      BY <1>5, <3>1
    <3> QED BY <1>4, <3>2, <3>3
  <2>3. <<Before(q), A>> \in StrictSubsetOrdering(Times)
    <3> HIDE DEF Before
    <3> QED BY <2>1, <2>2 DEF StrictSubsetOrdering
  <2> QED BY <1>3, <2>3
<1> QED BY <1>5

\* Induction on an interval, for the set of the numbers that have the property.
LEMMA IntervalInduction ==
    ASSUME NEW n \in Nat, NEW S, 0 \in S, \A k \in 1 .. n : k - 1 \in S => k \in S
    PROVE  \A k \in 0 .. n : k \in S
<1> DEFINE Missed == {k \in 0 .. n : k \notin S}
<1> SUFFICES ASSUME Missed # {}
             PROVE  FALSE
  OBVIOUS
<1>1. PICK k \in Missed : \A q \in Missed : k <= q
  <2>1. Missed \in SUBSET (0 .. n)
    OBVIOUS
  <2> HIDE DEF Missed
  <2> QED BY <2>1, LeastTimeExists
<1>2. k \in 1 .. n /\ k - 1 \in 0 .. n /\ ~(k <= k - 1)
  OBVIOUS
<1>3. k - 1 \in S
  BY <1>1, <1>2
<1> QED BY <1>2, <1>3

\* A loop of n rounds, from base: the state each round leaves, given by the state the
\* round before left.
IsLoop(f, n, S, base, Step) ==
    /\ f \in [0 .. n -> S]
    /\ f[0] = base
    /\ \A k \in 1 .. n : f[k] = Step[k][f[k - 1]]

LEMMA LoopExists ==
    ASSUME NEW n \in Nat, NEW S, NEW base \in S, NEW Step \in [1 .. n -> [S -> S]]
    PROVE  \E f : IsLoop(f, n, S, base, Step)
<1> DEFINE Upto(f, m) ==
              f[0] = base /\ \A k \in 1 .. m : f[k] = Step[k][f[k - 1]]
           Done == {m \in 0 .. n : \E f \in [0 .. n -> S] : Upto(f, m)}
<1>1. 0 \in Done
  <2> DEFINE f == [k \in 0 .. n |-> base]
  <2>1. f \in [0 .. n -> S] /\ f[0] = base
    OBVIOUS
  <2>2. \A k \in 1 .. 0 : FALSE
    OBVIOUS
  <2> HIDE DEF f
  <2> QED BY <2>1, <2>2
<1>2. ASSUME NEW m \in 1 .. n, m - 1 \in Done
      PROVE  m \in Done
  <2>1. PICK f \in [0 .. n -> S] : Upto(f, m - 1)
    BY <1>2
  <2> DEFINE g == [f EXCEPT ![m] = Step[m][f[m - 1]]]
  <2>2. m - 1 \in 0 .. n /\ Step[m][f[m - 1]] \in S
    BY <2>1
  <2>3. g \in [0 .. n -> S] /\ g[m] = Step[m][f[m - 1]]
    BY <2>2
  <2>4. \A k \in 0 .. (m - 1) : g[k] = f[k]
    OBVIOUS
  <2> HIDE DEF g
  <2>5. Upto(g, m)
    <3>1. g[0] = base
      BY <2>1, <2>4
    <3>2. ASSUME NEW k \in 1 .. m
          PROVE  g[k] = Step[k][g[k - 1]]
      <4>1. g[k - 1] = f[k - 1]
        BY <2>4
      <4>2. CASE k = m
        BY <2>3, <4>1, <4>2
      <4>3. CASE k # m
        BY <2>1, <2>4, <4>1, <4>3
      <4> QED BY <4>2, <4>3
    <3> QED BY <3>1, <3>2
  <2> QED BY <2>3, <2>5
<1>3. n \in Done
  <2> HIDE DEF Done
  <2>1. \A k \in 0 .. n : k \in Done
    BY <1>1, <1>2, IntervalInduction
  <2> QED BY <2>1
<1> QED BY <1>3 DEF IsLoop
=============================================================================
