------------------------------- MODULE MinLemmas -------------------------------
(***************************************************************************)
(* The least element of a set of numbers, which stands for "the first free *)
(* slot" and "the first match" of the loops of the code, and the runs of a *)
(* loop of any number of rounds.                                           *)
(***************************************************************************)
EXTENDS Integers, FiniteSetsExt, WellFoundedInduction, TLAPS

\* The minimum is the least member.
LEMMA MinIsLeast ==
    ASSUME NEW S, S \subseteq Nat, NEW b \in S
    PROVE  Min(S) \in S /\ Min(S) <= b
  <1>1. PICK a \in S : \A c \in S : ~(<<c, a>> \in OpToRel(<, Nat))
    BY WFMin, NatLessThanWellFounded
  <1>2. \A c \in S : a <= c
    <2> SUFFICES ASSUME NEW c \in S PROVE a <= c
      OBVIOUS
    <2>1. a \in Nat /\ c \in Nat /\ ~(c < a)
      BY <1>1 DEF OpToRel
    <2> QED
      BY <2>1
  <1> QED
    BY <1>1, <1>2 DEF Min

\* The minimum of a set that has a member is one of its members.
LEMMA MinIsMember ==
    ASSUME NEW S, S \subseteq Nat, S # {}
    PROVE  Min(S) \in S
  <1>1. PICK b : b \in S
    OBVIOUS
  <1> QED
    BY <1>1, MinIsLeast

\* A loop of n rounds that starts in S and never leaves it runs through states of S.
Loops(g, S, n, base, round) ==
    g \in [0..n -> S] /\ g[0] = base /\ \A i \in 1..n : g[i] = round[<<g[i - 1], i>>]

\* There is a run of every loop, whatever its number of rounds.
LEMMA LoopRuns ==
    ASSUME NEW S, NEW n \in Nat, NEW base \in S, NEW round \in [S \X (1..n) -> S]
    PROVE  \E g : Loops(g, S, n, base, round)
  <1> DEFINE Runs(g, k) == g \in [0..k -> S] /\ g[0] = base /\ \A i \in 1..k : g[i] = round[<<g[i - 1], i>>]
             Stuck == { k \in 0..n : ~(\E g : Runs(g, k)) }
  <1>1. Stuck = {}
    <2> SUFFICES ASSUME Stuck # {} PROVE FALSE
      OBVIOUS
    <2>1. Stuck \subseteq Nat
      OBVIOUS
    <2>2. PICK k \in Stuck : \A j \in Stuck : k <= j
      BY <2>1, MinIsMember, MinIsLeast
    <2>3. k \in 0..n /\ ~(\E g : Runs(g, k))
      BY <2>2
    <2>4. k # 0
      <3>1. Runs([i \in 0..0 |-> base], 0)
        OBVIOUS
      <3> QED
        BY <2>3, <3>1
    <2>5. k - 1 \in 0..n /\ k - 1 \notin Stuck
      BY <2>2, <2>3, <2>4
    <2>6. PICK g : Runs(g, k - 1)
      BY <2>5
    <2>7. PICK h : h = [i \in 0..k |-> IF i = k THEN round[<<g[k - 1], k>>] ELSE g[i]]
      OBVIOUS
    <2>8. g[k - 1] \in S /\ k \in 1..n
      BY <2>3, <2>4, <2>6
    <2>9. round[<<g[k - 1], k>>] \in S
      BY <2>8
    <2>10. h \in [0..k -> S] /\ h[k] = round[<<g[k - 1], k>>] /\ \A i \in 0..(k - 1) : h[i] = g[i]
      BY <2>3, <2>6, <2>7, <2>9
    <2>11. \A i \in 1..k : h[i] = round[<<h[i - 1], i>>]
      <3> SUFFICES ASSUME NEW i \in 1..k PROVE h[i] = round[<<h[i - 1], i>>]
        OBVIOUS
      <3>1. CASE i = k
        BY <2>8, <2>10, <3>1
      <3>2. CASE i # k
        <4>1. i \in 1..(k - 1) /\ i \in 0..(k - 1) /\ i - 1 \in 0..(k - 1)
          BY <2>3, <3>2
        <4>2. h[i] = g[i] /\ h[i - 1] = g[i - 1] /\ g[i] = round[<<g[i - 1], i>>]
          BY <2>6, <2>10, <4>1
        <4> QED
          BY <4>2
      <3> QED
        BY <3>1, <3>2
    <2>12. h[0] = base
      BY <2>6, <2>8, <2>10
    <2>13. Runs(h, k)
      BY <2>10, <2>11, <2>12
    <2> QED
      BY <2>3, <2>13, Zenon
  <1> HIDE DEF Runs
  <1>2. \E g : Runs(g, n)
    <2>1. n \in 0..n
      OBVIOUS
    <2> QED
      BY <1>1, <2>1, Zenon DEF Stuck
  <1> USE DEF Runs
  <1> QED
    BY <1>2 DEF Loops

\* What a loop does is determined by its start and its rounds.
LEMMA LoopUnique ==
    ASSUME NEW n \in Nat, NEW g, NEW h, DOMAIN g = 0..n, DOMAIN h = 0..n,
           g = [i \in 0..n |-> g[i]], h = [i \in 0..n |-> h[i]],
           g[0] = h[0], \A i \in 1..n : g[i - 1] = h[i - 1] => g[i] = h[i]
    PROVE  g = h
  <1> DEFINE Bad == { k \in 0..n : g[k] # h[k] }
  <1>1. Bad = {}
    <2> SUFFICES ASSUME Bad # {} PROVE FALSE
      OBVIOUS
    <2>1. Bad \subseteq Nat
      OBVIOUS
    <2>2. PICK k \in Bad : \A j \in Bad : k <= j
      BY <2>1, MinIsMember, MinIsLeast
    <2>3. k \in 0..n /\ g[k] # h[k] /\ k # 0
      BY <2>2
    <2>4. k - 1 \in 0..n /\ k - 1 \notin Bad /\ k \in 1..n
      BY <2>2, <2>3
    <2> QED
      BY <2>3, <2>4
  <1>2. \A k \in 0..n : g[k] = h[k]
    BY <1>1
  <1> QED
    BY <1>2

\* What a loop starts with and every round keeps holds after every round.
LEMMA LoopStays ==
    ASSUME NEW n \in Nat, NEW g, NEW S, g[0] \in S, \A i \in 1..n : g[i - 1] \in S => g[i] \in S
    PROVE  \A k \in 0..n : g[k] \in S
  <1> DEFINE Bad == { k \in 0..n : g[k] \notin S }
  <1>1. Bad = {}
    <2> SUFFICES ASSUME Bad # {} PROVE FALSE
      OBVIOUS
    <2>1. Bad \subseteq Nat
      OBVIOUS
    <2>2. PICK k \in Bad : \A j \in Bad : k <= j
      BY <2>1, MinIsMember, MinIsLeast
    <2>3. k \in 0..n /\ g[k] \notin S /\ k # 0
      BY <2>2
    <2>4. k - 1 \in 0..n /\ k - 1 \notin Bad /\ k \in 1..n
      BY <2>2, <2>3
    <2> QED
      BY <2>3, <2>4
  <1> QED
    BY <1>1
=============================================================================
