------------------------------- MODULE Loops -------------------------------
(***************************************************************************)
(* Induction along the rounds of a loop, and the function from the number  *)
(* of its rounds to what they made. The theorems of the library take a     *)
(* predicate or an operator as a parameter, which no prover here can give  *)
(* them; these take a set or a function.                                   *)
(***************************************************************************)
EXTENDS FiniteSetTheorems, Integers, TLAPS

\* Every set of naturals that is not empty has a least element.
LEMMA LeastNatural ==
    ASSUME NEW T, T \subseteq Nat, T # {}
    PROVE  \E n \in T : \A i \in T : n <= i
<1> DEFINE Below(n) == 0 .. n - 1
           Belows == {Below(n) : n \in T}
<1>1. Belows \subseteq FiniteSubsetsOf(Nat) /\ Belows # {}
  <2>1. \A n \in T : Below(n) \in SUBSET Nat /\ IsFiniteSet(Below(n))
    BY FS_Interval
  <2> HIDE DEF Below
  <2>2. QED
    BY <2>1 DEF FiniteSubsetsOf
<1>2. \E S \in Belows : \A U \in Belows : ~(<<U, S>> \in StrictSubsetOrdering(Nat))
  <2> HIDE DEF Belows
  <2>1. IsWellFoundedOn(StrictSubsetOrdering(Nat), FiniteSubsetsOf(Nat))
    BY FS_StrictSubsetOrderingWellFounded
  <2>2. QED
    BY <1>1, <2>1, WFMin
<1>3. PICK n \in T : \A i \in T : ~(<<Below(i), Below(n)>> \in StrictSubsetOrdering(Nat))
  BY <1>2
<1>4. ASSUME NEW i \in T, i < n PROVE FALSE
  <2>1. Below(i) \subseteq Below(n) /\ i \in Below(n) /\ i \notin Below(i)
    BY <1>4
  <2>2. Below(i) \in SUBSET Nat /\ Below(n) \in SUBSET Nat
    OBVIOUS
  <2>3. <<Below(i), Below(n)>> \in StrictSubsetOrdering(Nat)
    <3> HIDE DEF Below
    <3> QED
      BY <2>1, <2>2 DEF StrictSubsetOrdering
  <2>4. QED
    BY <2>3, <1>3
<1>5. QED
  BY <1>4

\* Induction along a loop, with a set in place of a predicate: what holds before the
\* first round and after each round that it held before, holds throughout.
LEMMA Induction ==
    ASSUME NEW n \in Nat, NEW T, 0 \in T, \A i \in 1 .. n : i - 1 \in T => i \in T
    PROVE  \A i \in 0 .. n : i \in T
<1> SUFFICES ASSUME NEW i \in 0 .. n, i \notin T PROVE FALSE
  OBVIOUS
<1> DEFINE Wrong == {j \in 0 .. n : j \notin T}
<1>1. Wrong \subseteq Nat /\ Wrong # {}
  OBVIOUS
<1>2. PICK least \in Wrong : \A j \in Wrong : least <= j
  BY <1>1, LeastNatural
<1>3. least # 0 /\ least - 1 \in 0 .. n /\ least \in 1 .. n
  OBVIOUS
<1>4. least - 1 \notin Wrong
  BY <1>2, <1>3
<1>5. QED
  BY <1>3, <1>4

\* A loop with a state of its own, and what a round makes of it.
Rounds(n, S) == [(1 .. n) \X S -> S]
IsLoop(f, n, S, base, step) ==
    /\ f \in [0 .. n -> S]
    /\ f[0] = base
    /\ \A i \in 1 .. n : f[i] = step[<<i, f[i - 1]>>]

\* There is a function from the number of rounds to the state after them,
\* whatever a round makes of it.
LEMMA Recursion ==
    ASSUME NEW n \in Nat, NEW S, NEW base \in S, NEW step \in Rounds(n, S)
    PROVE  \E f : IsLoop(f, n, S, base, step)
<1> DEFINE Upto(m) == \E f \in [0 .. m -> S] :
               f[0] = base /\ \A i \in 1 .. m : f[i] = step[<<i, f[i - 1]>>]
           Done == {m \in 0 .. n : Upto(m)}
<1>1. 0 \in Done
  <2> DEFINE f == [i \in 0 .. 0 |-> base]
  <2>1. f \in [0 .. 0 -> S] /\ f[0] = base /\ \A i \in 1 .. 0 : f[i] = step[<<i, f[i - 1]>>]
    OBVIOUS
  <2> HIDE DEF f
  <2>2. Upto(0)
    BY <2>1
  <2>3. QED
    BY <2>2
<1> USE DEF Rounds
<1>2. ASSUME NEW m \in 1 .. n, m - 1 \in Done PROVE m \in Done
  <2>1. PICK g \in [0 .. m - 1 -> S] :
            g[0] = base /\ \A i \in 1 .. m - 1 : g[i] = step[<<i, g[i - 1]>>]
    BY <1>2
  <2> DEFINE f == [i \in 0 .. m |-> IF i = m THEN step[<<m, g[m - 1]>>] ELSE g[i]]
  <2>2. step[<<m, g[m - 1]>>] \in S
    <3>1. g[m - 1] \in S
      OBVIOUS
    <3>2. QED
      BY <3>1
  <2>3. f \in [0 .. m -> S]
    BY <2>2
  <2>4. f[0] = base
    BY <2>1
  <2>5. ASSUME NEW i \in 1 .. m PROVE f[i] = step[<<i, f[i - 1]>>]
    <3>1. i - 1 # m /\ i - 1 \in 0 .. m /\ i \in 0 .. m
      OBVIOUS
    <3>2. f[i - 1] = g[i - 1]
      BY <3>1
    <3>3. CASE i = m
      BY <3>1, <3>2, <3>3
    <3>4. CASE i # m
      <4>1. i \in 1 .. m - 1
        BY <3>4
      <4>2. g[i] = step[<<i, g[i - 1]>>]
        BY <4>1, <2>1
      <4>3. QED
        BY <4>2, <3>1, <3>2, <3>4
    <3>5. QED
      BY <3>3, <3>4
  <2> HIDE DEF f
  <2>6. QED
    BY <2>3, <2>4, <2>5
<1> HIDE DEF Done
<1>3. n \in Done
  BY <1>1, <1>2, Induction
<1>4. QED
  BY <1>3 DEF Done, IsLoop

\* A loop whose rounds keep a type has that type.
LEMMA LoopType ==
    ASSUME NEW n \in Nat, NEW S, NEW f, f = [i \in 0 .. n |-> f[i]],
           f[0] \in S, \A i \in 1 .. n : f[i - 1] \in S => f[i] \in S
    PROVE  f \in [0 .. n -> S]
<1> DEFINE Done == {i \in 0 .. n : f[i] \in S}
<1>1. 0 \in Done /\ \A i \in 1 .. n : i - 1 \in Done => i \in Done
  OBVIOUS
<1>2. \A i \in 0 .. n : i \in Done
  <2> HIDE DEF Done
  <2> QED
    BY <1>1, Induction
<1>3. QED
  BY <1>2
=============================================================================
