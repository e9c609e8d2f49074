--------------------------- MODULE IterationProofs ---------------------------
(***************************************************************************)
(* Induction on natural numbers as facts about sets, which the proofs      *)
(* about the loops of the code use: a set that has 0 and with a number the *)
(* next one has all of them, and a loop that goes from 1 to n has a state  *)
(* after each of its steps.                                                *)
(***************************************************************************)
EXTENDS Integers, Sequences, WellFoundedInduction, TLAPS

(* A set of natural numbers has a least member. *)
LEMMA LeastMember ==
  ASSUME NEW T, T \subseteq Nat, T # {}
  PROVE  \E m \in T : \A k \in T : m <= k
<1>1. PICK m \in T : \A k \in T : ~(<<k, m>> \in OpToRel(<, Nat))
  BY WFMin, NatLessThanWellFounded, Zenon
<1>2. \A k \in T : ~(k < m)
  BY <1>1, Zenon DEF OpToRel
<1> QED BY <1>2

(* Induction up to n. *)
LEMMA InductionUpTo ==
  ASSUME NEW n \in Nat, NEW T, 0 \in T, \A i \in 1..n : i - 1 \in T => i \in T
  PROVE  0..n \subseteq T
<1> SUFFICES ASSUME NEW k \in 0..n, k \notin T PROVE FALSE
  OBVIOUS
<1> DEFINE Missed == {i \in 0..n : i \notin T}
<1>1. PICK m \in Missed : \A i \in Missed : m <= i
  <2>1. Missed \subseteq Nat /\ k \in Missed
    OBVIOUS
  <2> HIDE DEF Missed
  <2> QED BY <2>1, LeastMember
<1>2. m \in 1..n
  BY <1>1
<1>3. m - 1 \in T
  BY <1>1, <1>2
<1> QED BY <1>1, <1>2, <1>3

(* The states of a loop from 1 to n that takes state s to step[i][s], one  *)
(* after each of its steps.                                                *)
Runs(n, S, base, step) ==
  {f \in [0..n -> S] : f[0] = base /\ \A i \in 1..n : f[i] = step[i][f[i - 1]]}

LEMMA LoopRuns ==
  ASSUME NEW n \in Nat, NEW S, NEW base \in S, NEW step \in [1..n -> [S -> S]]
  PROVE  Runs(n, S, base, step) # {}
<1> DEFINE States(k) ==
      {f \in [0..k -> S] : f[0] = base /\ \A i \in 1..k : f[i] = step[i][f[i - 1]]}
<1> DEFINE T == {k \in 0..n : States(k) # {}}
<1>1. 0 \in T
  <2>1. [i \in 0..0 |-> base] \in States(0)
    OBVIOUS
  <2> QED BY <2>1
<1>2. ASSUME NEW k \in 1..n, k - 1 \in T PROVE k \in T
  <2>1. PICK f \in States(k - 1) : TRUE
    BY <1>2
  <2> DEFINE g == [i \in 0..k |-> IF i = k THEN step[k][f[k - 1]] ELSE f[i]]
  <2>2. /\ f \in [0..(k - 1) -> S] /\ f[0] = base
        /\ \A i \in 1..(k - 1) : f[i] = step[i][f[i - 1]]
    BY <2>1
  <2>3. step[k][f[k - 1]] \in S
    BY <2>2
  <2>4. g \in [0..k -> S] /\ g[0] = base
    BY <2>2, <2>3
  <2>5. ASSUME NEW i \in 1..k PROVE g[i] = step[i][g[i - 1]]
    <3>1. CASE i = k
      <4>1. i - 1 \in 0..k /\ i - 1 # k
        BY <3>1
      <4> QED BY <3>1, <4>1
    <3>2. CASE i # k
      <4>1. i \in 1..(k - 1) /\ i \in 0..k /\ i - 1 \in 0..k /\ i - 1 # k
        BY <3>2
      <4> QED BY <2>2, <3>2, <4>1
    <3> QED BY <3>1, <3>2
  <2>6. g \in States(k)
    BY <2>4, <2>5
  <2>7. k \in 0..n
    OBVIOUS
  <2> QED BY <2>6, <2>7
<1>3. 0..n \subseteq T
  BY <1>1, <1>2, InductionUpTo
<1> QED BY <1>3 DEF Runs
==============================================================================
