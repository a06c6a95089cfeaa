--------------------------- MODULE EnvSchedProofs ---------------------------
(***************************************************************************)
(* Proofs about the environments, for every number of envs and ASIDs and   *)
(* every sequence of boot priorities: what the operations of TailQ do to a *)
(* queue of any length, the invariants of EnvSched, and the refinement of  *)
(* RunQueue, the abstract queue of runnable envs.                          *)
(***************************************************************************)
EXTENDS EnvSched, MinLemmas, SequenceTheorems, FiniteSetTheorems, WellFoundedInduction, TLAPS

-----------------------------------------------------------------------------
(* The operations of a well-formed queue *)

\* No element stands twice in s.
Injective(s) == \A i, j \in DOMAIN s : s[i] = s[j] => i = j

\* An order is a sequence of elements without repetition.
LEMMA OrderIsSeq ==
    ASSUME NEW s \in Orders
    PROVE  s \in Seq(Elems) /\ Injective(s) /\ DOMAIN s = 1..Len(s)
  BY DEF Orders, Injective

\* A sequence without repetition is no longer than there are elements.
LEMMA InjectiveIsOrder ==
    ASSUME NEW s \in Seq(Elems), Injective(s)
    PROVE  s \in Orders
  <1> DEFINE n == Len(s)
  <1>1. n \in Nat /\ s \in [1..n -> Elems]
    OBVIOUS
  <1>2. IsFiniteSet(1..n) /\ Cardinality(1..n) = n
    BY <1>1, FS_Interval
  <1>3. s \in Injection(1..n, Elems)
    BY <1>1 DEF Injective, Injection, IsInjective
  <1>4. Cardinality(1..n) <= Cardinality(Elems)
    BY <1>3, <1>2, FS_Injection, PointerAssumption
  <1>5. Cardinality(Elems) \in Nat
    BY FS_CardinalityType, PointerAssumption
  <1>6. n \in 0..Cardinality(Elems)
    BY <1>1, <1>2, <1>4, <1>5
  <1> QED
    BY <1>1, <1>6 DEF Orders, Injective

\* What Represents says of the two ends of the queue.
LEMMA Ends ==
    ASSUME NEW q, NEW s \in Orders, Represents(q, s)
    PROVE  /\ Len(s) \in Nat
           /\ q.trap = "none"
           /\ Len(s) = 0 => q.first = NULL /\ q.last = Anchor
           /\ Len(s) # 0 => q.first = s[1] /\ q.last = s[Len(s)]
  BY OrderIsSeq DEF Represents

\* What Represents says of the links of the i-th element.
LEMMA Links ==
    ASSUME NEW q, NEW s \in Orders, Represents(q, s), NEW i \in 1..Len(s)
    PROVE  /\ s[i] \in Elems
           /\ i = Len(s) => q.next[s[i]] = NULL
           /\ i # Len(s) => q.next[s[i]] = s[i + 1]
           /\ i = 1 => q.prev[s[i]] = Anchor
           /\ i # 1 => q.prev[s[i]] = s[i - 1]
  BY OrderIsSeq DEF Represents

\* The converse of Ends and Links.
LEMMA RepresentsIntro ==
    ASSUME NEW q, NEW s \in Seq(Elems), q.trap = "none",
           Len(s) = 0 => q.first = NULL /\ q.last = Anchor,
           Len(s) # 0 => q.first = s[1] /\ q.last = s[Len(s)],
           \A i \in 1..Len(s) : /\ i = Len(s) => q.next[s[i]] = NULL
                                /\ i # Len(s) => q.next[s[i]] = s[i + 1]
                                /\ i = 1 => q.prev[s[i]] = Anchor
                                /\ i # 1 => q.prev[s[i]] = s[i - 1]
    PROVE  Represents(q, s)
  BY DEF Represents

\* TAILQ_INSERT_TAIL of an element that is not linked appends it.
LEMMA InsertTailAppends ==
    ASSUME NEW q \in Queues, NEW s \in Orders, Represents(q, s),
           NEW e \in Elems, e \notin Members(s)
    PROVE  /\ TAILQ_INSERT_TAIL(q, e) \in Queues
           /\ Append(s, e) \in Orders
           /\ Represents(TAILQ_INSERT_TAIL(q, e), Append(s, e))
           /\ Members(Append(s, e)) = Members(s) \cup {e}
  <1> DEFINE t == Append(s, e)
             n == Len(s)
             r == TAILQ_INSERT_TAIL(q, e)
  <1>1. s \in Seq(Elems) /\ Injective(s) /\ DOMAIN s = 1..n /\ n \in Nat
    BY OrderIsSeq
  <1>2. t \in Seq(Elems) /\ Len(t) = n + 1 /\ t[n + 1] = e /\ \A i \in 1..n : t[i] = s[i]
    BY <1>1
  <1>3. \A i \in 1..n : s[i] # e /\ s[i] \in Elems
    BY <1>1 DEF Members
  <1>4. t \in Orders
    <2>1. Injective(t)
      BY <1>1, <1>2, <1>3 DEF Injective
    <2> QED
      BY <2>1, <1>2, InjectiveIsOrder
  <1>5. Members(t) = Members(s) \cup {e}
    BY <1>1, <1>2 DEF Members
  <1>6. /\ n = 0 => q.first = NULL /\ q.last = Anchor
        /\ n # 0 => q.first = s[1] /\ q.last = s[n] /\ s[n] \in Elems /\ s[n] # e
        /\ q.trap = "none"
    BY <1>1, <1>3, Ends
  <1>7. /\ q.last # NULL /\ q.last \in FieldAddr
        /\ q.last = Anchor <=> n = 0
    BY <1>6, PointerAssumption DEF FieldAddr
  <1>8. /\ r.first = IF q.last = Anchor THEN e ELSE q.first
        /\ r.last = e
        /\ r.trap = "none"
        /\ \A x \in Elems : /\ x = q.last => r.next[x] = e
                            /\ x # q.last /\ x = e => r.next[x] = NULL
                            /\ x # q.last /\ x # e => r.next[x] = q.next[x]
                            /\ x = e => r.prev[x] = q.last
                            /\ x # e => r.prev[x] = q.prev[x]
    BY <1>6, <1>7 DEF TAILQ_INSERT_TAIL, FirstAfter, TrapAfter, Queues
  <1>9. r \in Queues
    BY <1>6, <1>7 DEF TAILQ_INSERT_TAIL, FirstAfter, TrapAfter, Queues, FieldAddr
  <1> HIDE DEF t, r, n
  <1>10. r.first = t[1] /\ r.last = t[n + 1]
    BY <1>8, <1>7, <1>6, <1>2, <1>1
  <1>11. ASSUME NEW i \in 1..(n + 1)
         PROVE  /\ i = n + 1 => r.next[t[i]] = NULL
                /\ i # n + 1 => r.next[t[i]] = t[i + 1]
                /\ i = 1 => r.prev[t[i]] = Anchor
                /\ i # 1 => r.prev[t[i]] = t[i - 1]
    <2>1. CASE i = n + 1
      <3>1. e # q.last
        BY <1>6, <1>7, PointerAssumption
      <3> QED
        BY <2>1, <3>1, <1>8, <1>7, <1>6, <1>2, <1>1
    <2>2. CASE i # n + 1
      <3>1. i \in 1..n /\ t[i] = s[i] /\ s[i] \in Elems /\ s[i] # e
        BY <2>2, <1>1, <1>2, <1>3
      <3>2. r.prev[t[i]] = q.prev[s[i]]
        BY <3>1, <1>8
      <3>3. /\ i = 1 => q.prev[s[i]] = Anchor
            /\ i # 1 => q.prev[s[i]] = s[i - 1]
            /\ i # n => q.next[s[i]] = s[i + 1]
        BY <3>1, Links DEF n
      <3>4. i # 1 => t[i - 1] = s[i - 1]
        BY <3>1, <1>1, <1>2
      <3>5. CASE i = n
        BY <3>5, <3>1, <3>2, <3>3, <3>4, <1>8, <1>6, <1>2, <1>1
      <3>6. CASE i # n
        <4>1. s[i] # s[n] /\ t[i + 1] = s[i + 1] /\ n # 0
          BY <3>6, <3>1, <1>1, <1>2 DEF Injective
        <4>2. r.next[t[i]] = q.next[s[i]]
          BY <4>1, <3>1, <1>8, <1>6
        <4> QED
          BY <4>1, <4>2, <3>1, <3>2, <3>3, <3>4, <3>6, <2>2
      <3> QED
        BY <3>5, <3>6
    <2> QED
      BY <2>1, <2>2
  <1>12. Represents(r, t)
    <2>1. Len(t) # 0 /\ r.first = t[1] /\ r.last = t[Len(t)]
      BY <1>1, <1>2, <1>10
    <2>2. \A i \in 1..Len(t) :
             /\ i = Len(t) => r.next[t[i]] = NULL
             /\ i # Len(t) => r.next[t[i]] = t[i + 1]
             /\ i = 1 => r.prev[t[i]] = Anchor
             /\ i # 1 => r.prev[t[i]] = t[i - 1]
      BY <1>2, <1>11
    <2> QED
      BY <2>1, <2>2, <1>2, <1>8, RepresentsIntro
  <1> QED
    BY <1>4, <1>5, <1>9, <1>12 DEF t, r

\* TAILQ_INSERT_HEAD of an element that is not linked puts it first.
LEMMA InsertHeadPrepends ==
    ASSUME NEW q \in Queues, NEW s \in Orders, Represents(q, s),
           NEW e \in Elems, e \notin Members(s)
    PROVE  /\ TAILQ_INSERT_HEAD(q, e) \in Queues
           /\ <<e>> \o s \in Orders
           /\ Represents(TAILQ_INSERT_HEAD(q, e), <<e>> \o s)
           /\ Members(<<e>> \o s) = Members(s) \cup {e}
  <1> DEFINE t == <<e>> \o s
             n == Len(s)
             r == TAILQ_INSERT_HEAD(q, e)
  <1>1. s \in Seq(Elems) /\ Injective(s) /\ DOMAIN s = 1..n /\ n \in Nat
    BY OrderIsSeq
  <1>2. /\ t \in Seq(Elems) /\ Len(t) = n + 1 /\ t[1] = e
        /\ \A i \in 2..(n + 1) : t[i] = s[i - 1] /\ i - 1 \in 1..n
    BY <1>1
  <1>3. \A i \in 1..n : s[i] # e /\ s[i] \in Elems
    BY <1>1 DEF Members
  <1>4. t \in Orders
    <2>1. Injective(t)
      BY <1>1, <1>2, <1>3 DEF Injective
    <2> QED
      BY <2>1, <1>2, InjectiveIsOrder
  <1>5. Members(t) = Members(s) \cup {e}
    <2>1. \A i \in 1..n : t[i + 1] = s[i] /\ i + 1 \in 1..(n + 1)
      BY <1>1
    <2>2. DOMAIN t = 1..(n + 1)
      BY <1>1
    <2>3. 1 \in 1..(n + 1)
      BY <1>1
    <2> HIDE DEF t
    <2>4. ASSUME NEW x \in Members(t) PROVE x \in Members(s) \cup {e}
      <3>1. PICK i \in 1..(n + 1) : x = t[i]
        BY <2>2 DEF Members
      <3>2. CASE i = 1
        BY <3>1, <3>2, <1>2
      <3>3. CASE i # 1
        <4>1. i \in 2..(n + 1)
          BY <3>1, <3>3, <1>1
        <4>2. x = s[i - 1] /\ i - 1 \in DOMAIN s
          BY <4>1, <3>1, <1>1, <1>2
        <4> QED
          BY <4>2 DEF Members
      <3> QED
        BY <3>2, <3>3
    <2>5. ASSUME NEW x \in Members(s) \cup {e} PROVE x \in Members(t)
      BY <2>1, <2>2, <2>3, <1>1, <1>2 DEF Members
    <2> QED
      BY <2>4, <2>5
  <1>6. /\ n = 0 => q.first = NULL /\ q.last = Anchor
        /\ n # 0 => q.first = s[1] /\ q.last = s[n] /\ s[1] \in Elems
        /\ q.trap = "none"
    BY <1>1, <1>3, Ends
  <1>7. q.first = NULL <=> n = 0
    BY <1>6, PointerAssumption
  <1>8. /\ r.first = e
        /\ n = 0 => r.last = e
        /\ n # 0 => r.last = s[n]
        /\ r.trap = "none"
        /\ r.next[e] = q.first
        /\ \A x \in Elems : x # e => r.next[x] = q.next[x]
        /\ r.prev[e] = Anchor
        /\ \A x \in Elems : x # e /\ x = q.first => r.prev[x] = e
        /\ \A x \in Elems : x # e /\ x # q.first => r.prev[x] = q.prev[x]
    BY <1>6, <1>7 DEF TAILQ_INSERT_HEAD, Queues
  <1>9. r \in Queues
    BY <1>6 DEF TAILQ_INSERT_HEAD, Queues, FieldAddr
  <1> HIDE DEF t, r, n
  <1>10. Len(t) # 0 /\ r.first = t[1] /\ r.last = t[Len(t)]
    BY <1>8, <1>2, <1>1
  <1>11. ASSUME NEW i \in 1..Len(t)
         PROVE  /\ i = Len(t) => r.next[t[i]] = NULL
                /\ i # Len(t) => r.next[t[i]] = t[i + 1]
                /\ i = 1 => r.prev[t[i]] = Anchor
                /\ i # 1 => r.prev[t[i]] = t[i - 1]
    <2>1. CASE i = 1
      BY <2>1, <1>8, <1>6, <1>2, <1>1
    <2>2. CASE i # 1
      <3>1. /\ i - 1 \in 1..n /\ t[i] = s[i - 1] /\ s[i - 1] \in Elems /\ s[i - 1] # e
            /\ i \in 2..(n + 1)
        BY <2>2, <1>1, <1>2, <1>3
      <3>2. /\ i - 1 = n => q.next[s[i - 1]] = NULL
            /\ i - 1 # n => q.next[s[i - 1]] = s[i]
            /\ i - 1 # 1 => q.prev[s[i - 1]] = s[i - 2]
        BY <3>1, Links DEF n
      <3>3. r.next[t[i]] = q.next[s[i - 1]]
        BY <3>1, <1>8
      <3>4. i # Len(t) => t[i + 1] = s[i]
        BY <3>1, <1>1, <1>2
      <3>5. CASE i - 1 = 1
        BY <3>5, <3>1, <3>2, <3>3, <3>4, <1>1, <1>2, <1>6, <1>8
      <3>6. CASE i - 1 # 1
        <4>1. s[i - 1] # s[1] /\ q.first = s[1] /\ i - 1 \in 2..(n + 1)
          BY <3>6, <3>1, <1>1, <1>6 DEF Injective
        <4>2. r.prev[t[i]] = q.prev[s[i - 1]]
          BY <4>1, <3>1, <1>8
        <4>3. t[i - 1] = s[i - 2]
          BY <4>1, <1>2, <1>1
        <4> QED
          BY <4>2, <4>3, <3>1, <3>2, <3>3, <3>4, <3>6, <2>2, <1>1, <1>2
      <3> QED
        BY <3>5, <3>6
    <2> QED
      BY <2>1, <2>2
  <1>12. Represents(r, t)
    BY <1>2, <1>8, <1>10, <1>11, RepresentsIntro
  <1> QED
    BY <1>4, <1>5, <1>9, <1>12 DEF t, r

\* TAILQ_REMOVE of the k-th element takes it out and leaves the order of the
\* others; its own links stay as they were.
LEMMA RemoveTakesOut ==
    ASSUME NEW q \in Queues, NEW s \in Orders, Represents(q, s),
           NEW k \in 1..Len(s)
    PROVE  /\ TAILQ_REMOVE(q, s[k]) \in Queues
           /\ Without(s, k) \in Orders
           /\ Represents(TAILQ_REMOVE(q, s[k]), Without(s, k))
           /\ Members(Without(s, k)) = Members(s) \ {s[k]}
           /\ TAILQ_REMOVE(q, s[k]).next[s[k]] = q.next[s[k]]
           /\ TAILQ_REMOVE(q, s[k]).prev[s[k]] = q.prev[s[k]]
  <1> DEFINE n == Len(s)
             e == s[k]
             t == Without(s, k)
             r == TAILQ_REMOVE(q, e)
  <1>1. s \in Seq(Elems) /\ Injective(s) /\ DOMAIN s = 1..n /\ n \in Nat /\ n # 0 /\ k \in 1..n
    BY OrderIsSeq
  <1>2. /\ t \in Seq(Elems) /\ Len(t) = n - 1 /\ DOMAIN t = 1..(n - 1)
        /\ \A i \in 1..(n - 1) : /\ i < k => t[i] = s[i]
                                 /\ i >= k => t[i] = s[i + 1]
    BY <1>1 DEF Without
  <1>3. \A i \in 1..n : s[i] \in Elems /\ (i # k => s[i] # e)
    BY <1>1 DEF Injective
  <1>4. t \in Orders
    <2>1. Injective(t)
      <3> SUFFICES ASSUME NEW i \in 1..(n - 1), NEW j \in 1..(n - 1), t[i] = t[j]
                   PROVE  i = j
        BY <1>2 DEF Injective
      <3> DEFINE u(x) == IF x < k THEN x ELSE x + 1
      <3>1. u(i) \in 1..n /\ u(j) \in 1..n /\ t[i] = s[u(i)] /\ t[j] = s[u(j)]
        BY <1>1, <1>2
      <3>2. u(i) = u(j)
        BY <3>1, <1>1 DEF Injective
      <3> QED
        BY <3>2, <1>1
    <2> QED
      BY <2>1, <1>2, InjectiveIsOrder
  <1>5. Members(t) = Members(s) \ {e}
    <2>1. ASSUME NEW x \in Members(t) PROVE x \in Members(s) \ {e}
      <3>1. PICK i \in 1..(n - 1) : x = t[i]
        BY <1>2 DEF Members
      <3>2. CASE i < k
        <4>1. i \in 1..n /\ i # k /\ x = s[i]
          BY <3>1, <3>2, <1>1, <1>2
        <4> QED
          BY <4>1, <1>1, <1>3 DEF Members
      <3>3. CASE i >= k
        <4>1. i + 1 \in 1..n /\ i + 1 # k /\ x = s[i + 1]
          BY <3>1, <3>3, <1>1, <1>2
        <4> QED
          BY <4>1, <1>1, <1>3 DEF Members
      <3> QED
        BY <3>2, <3>3, <1>1
    <2>2. ASSUME NEW x \in Members(s) \ {e} PROVE x \in Members(t)
      <3>1. PICK i \in 1..n : x = s[i]
        BY <1>1 DEF Members
      <3>2. i # k
        BY <3>1, <2>2
      <3>3. CASE i < k
        <4>1. i \in 1..(n - 1) /\ t[i] = x
          BY <3>1, <3>3, <1>1, <1>2
        <4> QED
          BY <4>1, <1>2 DEF Members
      <3>4. CASE i > k
        <4>1. i - 1 \in 1..(n - 1) /\ t[i - 1] = x
          BY <3>1, <3>4, <1>1, <1>2
        <4> QED
          BY <4>1, <1>2 DEF Members
      <3> QED
        BY <3>2, <3>3, <3>4, <1>1
    <2> QED
      BY <2>1, <2>2
  <1>6. q.first = s[1] /\ q.last = s[n] /\ q.trap = "none"
    BY <1>1, Ends
  <1>7. /\ e \in Elems
        /\ k = n => q.next[e] = NULL
        /\ k # n => q.next[e] = s[k + 1] /\ s[k + 1] \in Elems
        /\ k = 1 => q.prev[e] = Anchor
        /\ k # 1 => q.prev[e] = s[k - 1] /\ s[k - 1] \in Elems
    <2>1. /\ k # n => k + 1 \in 1..n
          /\ k # 1 => k - 1 \in 1..n
      <3>1. n \in Nat /\ k \in 1..n
        BY <1>1
      <3> HIDE DEF n
      <3> QED
        BY <3>1
    <2>2. /\ e \in Elems
          /\ k = n => q.next[e] = NULL
          /\ k # n => q.next[e] = s[k + 1]
          /\ k = 1 => q.prev[e] = Anchor
          /\ k # 1 => q.prev[e] = s[k - 1]
      BY Links
    <2> QED
      BY <2>1, <2>2, <1>3
  <1>8. /\ q.next[e] = NULL <=> k = n
        /\ q.prev[e] = Anchor <=> k = 1
        /\ q.prev[e] # NULL
    BY <1>7, PointerAssumption
  <1>9. /\ k = 1 => r.first = q.next[e]
        /\ k # 1 => r.first = q.first
        /\ k = n => r.last = q.prev[e]
        /\ k # n => r.last = q.last
        /\ r.trap = "none"
        /\ \A x \in Elems : x = q.prev[e] => r.next[x] = q.next[e]
        /\ \A x \in Elems : x # q.prev[e] => r.next[x] = q.next[x]
        /\ \A x \in Elems : x = q.next[e] => r.prev[x] = q.prev[e]
        /\ \A x \in Elems : x # q.next[e] => r.prev[x] = q.prev[x]
    BY <1>6, <1>8 DEF TAILQ_REMOVE, FirstAfter, TrapAfter
  <1>10. r \in Queues
    BY <1>7 DEF TAILQ_REMOVE, FirstAfter, TrapAfter, Queues, FieldAddr
  <1> HIDE DEF t, r, n, e
  <1>11. /\ Len(t) = 0 => r.first = NULL /\ r.last = Anchor
         /\ Len(t) # 0 => r.first = t[1] /\ r.last = t[Len(t)]
    <2>1. CASE n = 1
      BY <2>1, <1>1, <1>2, <1>7, <1>9
    <2>2. CASE n # 1
      <3>1. n - 1 \in 1..(n - 1) /\ 1 \in 1..(n - 1)
        BY <2>2, <1>1
      <3>2. r.first = t[1]
        BY <3>1, <1>1, <1>2, <1>6, <1>7, <1>9
      <3>3. r.last = t[n - 1]
        BY <3>1, <1>1, <1>2, <1>6, <1>7, <1>9
      <3> QED
        BY <2>2, <3>2, <3>3, <1>2, <1>1
    <2> QED
      BY <2>1, <2>2
  <1>12. ASSUME NEW i \in 1..(n - 1)
         PROVE  /\ i = n - 1 => r.next[t[i]] = NULL
                /\ i # n - 1 => r.next[t[i]] = t[i + 1]
                /\ i = 1 => r.prev[t[i]] = Anchor
                /\ i # 1 => r.prev[t[i]] = t[i - 1]
    <2> DEFINE j == IF i < k THEN i ELSE i + 1
    <2>1. j \in 1..n /\ j # k /\ t[i] = s[j] /\ s[j] \in Elems
      BY <1>1, <1>2, <1>3
    <2>2. /\ j = n => q.next[s[j]] = NULL
          /\ j # n => q.next[s[j]] = s[j + 1]
          /\ j = 1 => q.prev[s[j]] = Anchor
          /\ j # 1 => q.prev[s[j]] = s[j - 1]
      BY <2>1, Links DEF n
    <2>3. s[j] = q.prev[e] <=> j = k - 1
      <3>1. CASE k = 1
        BY <3>1, <2>1, <1>1, <1>7, PointerAssumption
      <3>2. CASE k # 1
        BY <3>2, <2>1, <1>1, <1>7 DEF Injective
      <3> QED
        BY <3>1, <3>2
    <2>4. s[j] = q.next[e] <=> j = k + 1
      <3>1. CASE k = n
        BY <3>1, <2>1, <1>1, <1>7, PointerAssumption
      <3>2. CASE k # n
        BY <3>2, <2>1, <1>1, <1>7 DEF Injective
      <3> QED
        BY <3>1, <3>2
    <2>5. /\ i = n - 1 => r.next[t[i]] = NULL
          /\ i # n - 1 => r.next[t[i]] = t[i + 1]
      <3>1. CASE j = k - 1
        <4>1. r.next[t[i]] = q.next[e] /\ i = k - 1 /\ i < k
          BY <3>1, <2>1, <2>3, <1>9, <1>1
        <4>2. i # n - 1 => t[i + 1] = s[k + 1]
          BY <4>1, <1>1, <1>2
        <4> QED
          BY <4>1, <4>2, <1>7, <1>1
      <3>2. CASE j # k - 1
        <4>1. r.next[t[i]] = q.next[s[j]]
          BY <3>2, <2>1, <2>3, <1>9
        <4>2. i = n - 1 <=> j = n
          BY <3>2, <1>1
        <4>3. i # n - 1 => t[i + 1] = s[j + 1]
          BY <3>2, <1>1, <1>2
        <4> QED
          BY <4>1, <4>2, <4>3, <2>2
      <3> QED
        BY <3>1, <3>2
    <2>6. /\ i = 1 => r.prev[t[i]] = Anchor
          /\ i # 1 => r.prev[t[i]] = t[i - 1]
      <3>1. CASE j = k + 1
        <4>1. r.prev[t[i]] = q.prev[e] /\ i = k
          BY <3>1, <2>1, <2>4, <1>9, <1>1
        <4>2. i # 1 => t[i - 1] = s[k - 1]
          BY <4>1, <1>1, <1>2
        <4> QED
          BY <4>1, <4>2, <1>7, <1>1
      <3>2. CASE j # k + 1
        <4>1. r.prev[t[i]] = q.prev[s[j]]
          BY <3>2, <2>1, <2>4, <1>9
        <4>2. i = 1 <=> j = 1
          BY <3>2, <1>1
        <4>3. i # 1 => t[i - 1] = s[j - 1]
          BY <3>2, <1>1, <1>2
        <4> QED
          BY <4>1, <4>2, <4>3, <2>2
      <3> QED
        BY <3>1, <3>2
    <2> QED
      BY <2>5, <2>6
  <1>13. \A i \in 1..Len(t) : /\ i = Len(t) => r.next[t[i]] = NULL
                              /\ i # Len(t) => r.next[t[i]] = t[i + 1]
                              /\ i = 1 => r.prev[t[i]] = Anchor
                              /\ i # 1 => r.prev[t[i]] = t[i - 1]
    BY <1>2, <1>12
  <1>14. Represents(r, t)
    BY <1>2, <1>9, <1>11, <1>13, RepresentsIntro
  <1>15. e # q.prev[e] /\ e # q.next[e]
    BY <1>1, <1>3, <1>7, PointerAssumption
  <1>16. r.next[e] = q.next[e] /\ r.prev[e] = q.prev[e]
    BY <1>15, <1>7, <1>9
  <1> QED
    BY <1>4, <1>5, <1>10, <1>14, <1>16 DEF t, r, e

\* Removing a linked element a second time changes nothing: sys_ipc_recv and
\* sys_set_env_status unlink curenv, and schedule unlinks it again.
LEMMA RemoveTwice ==
    ASSUME NEW q \in Queues, NEW s \in Orders, Represents(q, s),
           NEW k \in 1..Len(s)
    PROVE  TAILQ_REMOVE(TAILQ_REMOVE(q, s[k]), s[k]) = TAILQ_REMOVE(q, s[k])
  <1> DEFINE e == s[k]
             n == q.next[e]
             p == q.prev[e]
             r == TAILQ_REMOVE(q, e)
             r2 == TAILQ_REMOVE(r, e)
  <1>1. r.next[e] = n /\ r.prev[e] = p /\ r \in Queues /\ e \in Elems
    BY RemoveTakesOut, Links
  <1>2. p # NULL
    <2>1. k \in 1..Len(s) /\ (k # 1 => k - 1 \in 1..Len(s))
      BY OrderIsSeq
    <2> QED
      BY <2>1, Links, PointerAssumption
  <1>3. r = [first |-> IF p = Anchor THEN n ELSE q.first,
             last  |-> IF n = NULL THEN p ELSE q.last,
             next  |-> [x \in Elems |-> IF x = p THEN n ELSE q.next[x]],
             prev  |-> [x \in Elems |-> IF x = n THEN p ELSE q.prev[x]],
             trap  |-> q.trap]
    BY <1>2 DEF TAILQ_REMOVE, FirstAfter, TrapAfter
  <1>4. r2 = [first |-> IF p = Anchor THEN n ELSE r.first,
              last  |-> IF n = NULL THEN p ELSE r.last,
              next  |-> [x \in Elems |-> IF x = p THEN n ELSE r.next[x]],
              prev  |-> [x \in Elems |-> IF x = n THEN p ELSE r.prev[x]],
              trap  |-> r.trap]
    BY <1>1, <1>2 DEF TAILQ_REMOVE, FirstAfter, TrapAfter
  <1> HIDE DEF r, r2, n, p
  <1>5. r2.first = r.first /\ r2.last = r.last /\ r2.trap = r.trap
    BY <1>3, <1>4
  <1>6. [x \in Elems |-> IF x = p THEN n ELSE r.next[x]] = r.next
    BY <1>3
  <1>7. [x \in Elems |-> IF x = n THEN p ELSE r.prev[x]] = r.prev
    BY <1>3
  <1>8. r2 = [first |-> r.first, last |-> r.last, next |-> r.next, prev |-> r.prev, trap |-> r.trap]
    BY <1>4, <1>5, <1>6, <1>7
  <1>9. r = [first |-> r.first, last |-> r.last, next |-> r.next, prev |-> r.prev, trap |-> r.trap]
    BY <1>1 DEF Queues
  <1> QED
    BY <1>8, <1>9 DEF r2, r

-----------------------------------------------------------------------------
(* The invariants of EnvSched *)

\* A live env has a positive priority.
PriPositive == \A e \in Envs : env_status[e] # ENV_FREE => env_pri[e] > 0

\* The inductive invariant: SchedListExact alone is not inductive, for
\* TAILQ_INSERT_TAIL needs an element that is not linked (ReceiverBlocked,
\* FreeListExact) and TAILQ_REMOVE one that is (CurenvRunnable).
IInv == /\ TypeOK
        /\ SchedListExact
        /\ FreeListExact
        /\ ReceiverBlocked
        /\ AsidExact
        /\ StopsOnlyIdle
        /\ CurenvRunnable
        /\ PriPositive

-----------------------------------------------------------------------------

\* The envs that st says are runnable.
Ready(st) == { x \in Envs : st[x] = ENV_RUNNABLE }

\* q is a well-formed queue of exactly the envs that st says are runnable.
Holds(q, st) == q \in Queues /\ \E s \in Orders : Represents(q, s) /\ Members(s) = Ready(st)

\* The elements of the queue are the envs, and NULL is none.
LEMMA ElemsAreEnvs == Elems = Envs /\ NULL \notin Envs
  BY EnvAssumption, PointerAssumption

\* Linking an env that becomes runnable.
LEMMA HoldsInsert ==
    ASSUME NEW q, NEW st \in [Envs -> Status], Holds(q, st),
           NEW e \in Envs, st[e] # ENV_RUNNABLE
    PROVE  /\ Holds(TAILQ_INSERT_TAIL(q, e), [st EXCEPT ![e] = ENV_RUNNABLE])
           /\ Holds(TAILQ_INSERT_HEAD(q, e), [st EXCEPT ![e] = ENV_RUNNABLE])
           /\ TAILQ_INSERT_TAIL(q, e).trap = "none"
           /\ TAILQ_INSERT_HEAD(q, e).trap = "none"
  <1>1. PICK s \in Orders : Represents(q, s) /\ Members(s) = Ready(st)
    BY DEF Holds
  <1>2. q \in Queues /\ e \in Elems /\ e \notin Members(s)
    BY <1>1, ElemsAreEnvs DEF Holds, Ready
  <1>3. Ready([st EXCEPT ![e] = ENV_RUNNABLE]) = Members(s) \cup {e}
    BY <1>1 DEF Ready
  <1>4. Holds(TAILQ_INSERT_TAIL(q, e), [st EXCEPT ![e] = ENV_RUNNABLE])
    <2>1. /\ TAILQ_INSERT_TAIL(q, e) \in Queues
          /\ Append(s, e) \in Orders
          /\ Represents(TAILQ_INSERT_TAIL(q, e), Append(s, e))
          /\ Members(Append(s, e)) = Members(s) \cup {e}
      BY <1>1, <1>2, InsertTailAppends
    <2> QED
      BY <2>1, <1>3 DEF Holds
  <1>5. Holds(TAILQ_INSERT_HEAD(q, e), [st EXCEPT ![e] = ENV_RUNNABLE])
    <2>1. /\ TAILQ_INSERT_HEAD(q, e) \in Queues
          /\ (<<e>> \o s) \in Orders
          /\ Represents(TAILQ_INSERT_HEAD(q, e), (<<e>> \o s))
          /\ Members((<<e>> \o s)) = Members(s) \cup {e}
      BY <1>1, <1>2, InsertHeadPrepends
    <2> QED
      BY <2>1, <1>3 DEF Holds
  <1> QED
    BY <1>4, <1>5 DEF Holds, Represents

\* Unlinking a runnable env that becomes something else, once or twice.
LEMMA HoldsRemove ==
    ASSUME NEW q, NEW st \in [Envs -> Status], Holds(q, st),
           NEW e \in Envs, st[e] = ENV_RUNNABLE,
           NEW v \in Status \ {ENV_RUNNABLE}
    PROVE  /\ Holds(TAILQ_REMOVE(q, e), [st EXCEPT ![e] = v])
           /\ TAILQ_REMOVE(q, e).trap = "none"
           /\ TAILQ_REMOVE(TAILQ_REMOVE(q, e), e) = TAILQ_REMOVE(q, e)
  <1>1. PICK s \in Orders : Represents(q, s) /\ Members(s) = Ready(st)
    BY DEF Holds
  <1>2. q \in Queues /\ e \in Members(s)
    BY <1>1 DEF Holds, Ready
  <1>3. PICK k \in 1..Len(s) : e = s[k]
    BY <1>2, OrderIsSeq DEF Members
  <1>4. Ready([st EXCEPT ![e] = v]) = Members(s) \ {e}
    BY <1>1 DEF Ready
  <1>5. Holds(TAILQ_REMOVE(q, e), [st EXCEPT ![e] = v])
    <2>1. /\ TAILQ_REMOVE(q, e) \in Queues
          /\ Without(s, k) \in Orders
          /\ Represents(TAILQ_REMOVE(q, e), Without(s, k))
          /\ Members(Without(s, k)) = Members(s) \ {e}
      BY <1>1, <1>2, <1>3, RemoveTakesOut
    <2> QED
      BY <2>1, <1>4 DEF Holds
  <1>6. TAILQ_REMOVE(TAILQ_REMOVE(q, e), e) = TAILQ_REMOVE(q, e)
    BY <1>1, <1>2, <1>3, RemoveTwice
  <1> QED
    BY <1>5, <1>6 DEF Holds, Represents

\* The head of a well-formed queue is runnable, and an empty queue means
\* that no env is.
LEMMA HoldsFirst ==
    ASSUME NEW q, NEW st, Holds(q, st)
    PROVE  /\ q.trap = "none"
           /\ q.first = NULL => Ready(st) = {}
           /\ q.first # NULL => q.first \in Envs /\ st[q.first] = ENV_RUNNABLE
  <1>1. PICK s \in Orders : Represents(q, s) /\ Members(s) = Ready(st)
    BY DEF Holds
  <1>2. s \in Seq(Elems) /\ DOMAIN s = 1..Len(s) /\ Len(s) \in Nat
    BY OrderIsSeq
  <1>3. CASE Len(s) = 0
    BY <1>1, <1>2, <1>3, Ends DEF Members
  <1>4. CASE Len(s) # 0
    <2>1. q.first = s[1] /\ q.trap = "none" /\ 1 \in 1..Len(s)
      BY <1>1, <1>2, <1>4, Ends
    <2>2. q.first \in Members(s) /\ q.first \in Elems
      BY <2>1, <1>2 DEF Members
    <2> QED
      BY <2>1, <2>2, <1>1, PointerAssumption DEF Ready
  <1> QED
    BY <1>3, <1>4

\* schedule, called with a list that holds the runnable envs, keeps it so,
\* and ends either in a runnable env with a fresh slice or, when there is
\* none, in the panic "no_runnable".
LEMMA ScheduleKeeps ==
    ASSUME NEW q, NEW st \in [Envs -> Status], Holds(q, st),
           NEW e \in Envs \cup {NULL}, NEW yield \in BOOLEAN,
           e # NULL /\ st[e] # ENV_RUNNABLE => TAILQ_REMOVE(q, e) = q,
           ~yield /\ e # NULL => count < env_pri[e],
           env_pri \in [Envs -> Nat], count \in Int,
           \A x \in Envs : st[x] # ENV_FREE => env_pri[x] > 0,
           schedule(yield, q, e, st)
    PROVE  /\ Holds(env_sched_list', st)
           /\ curenv' \in Envs \cup {NULL}
           /\ count' \in Int
           /\ panic' \in {"none", "no_runnable"}
           /\ panic' = "no_runnable" => Ready(st) = {}
           /\ panic' = "none" => /\ curenv' \in Envs
                                 /\ st[curenv'] = ENV_RUNNABLE
                                 /\ count' \in 0..(env_pri[curenv'] - 1)
  <1>1. CASE ~yield /\ count > 0 /\ e # NULL /\ st[e] = ENV_RUNNABLE
    BY <1>1, ElemsAreEnvs DEF schedule, env_run
  <1>2. CASE ~(~yield /\ count > 0 /\ e # NULL /\ st[e] = ENV_RUNNABLE)
    <2> DEFINE r == Requeue(q, e, st)
    <2>1. Holds(r, st)
      <3>1. CASE e = NULL
        BY <3>1 DEF Requeue
      <3>2. CASE e # NULL /\ st[e] # ENV_RUNNABLE
        BY <3>2 DEF Requeue
      <3>3. CASE e # NULL /\ st[e] = ENV_RUNNABLE
        <4> DEFINE st1 == [st EXCEPT ![e] = ENV_NOT_RUNNABLE]
        <4>1. e \in Envs /\ ENV_NOT_RUNNABLE \in Status \ {ENV_RUNNABLE}
          BY <3>3 DEF Status, ENV_RUNNABLE, ENV_NOT_RUNNABLE
        <4>2. Holds(TAILQ_REMOVE(q, e), st1)
          BY <3>3, <4>1, HoldsRemove
        <4>3. st1 \in [Envs -> Status] /\ st1[e] # ENV_RUNNABLE
          BY <4>1
        <4>4. [st1 EXCEPT ![e] = ENV_RUNNABLE] = st
          BY <3>3, <4>1
        <4> HIDE DEF st1
        <4>5. Holds(TAILQ_INSERT_TAIL(TAILQ_REMOVE(q, e), e), st)
          BY <4>1, <4>2, <4>3, <4>4, HoldsInsert
        <4> QED
          BY <4>5, <3>3 DEF Requeue
      <3> QED
        BY <3>1, <3>2, <3>3
    <2>2. /\ r.trap = "none"
          /\ r.first = NULL => Ready(st) = {}
          /\ r.first # NULL => r.first \in Envs /\ st[r.first] = ENV_RUNNABLE
      BY <2>1, HoldsFirst
    <2>3. env_sched_list' = r
      BY <1>2 DEF schedule
    <2> HIDE DEF r
    <2>4. CASE r.first = NULL
      <3>1. Panic("no_runnable", e)
        BY <1>2, <2>2, <2>4 DEF schedule, TAILQ_EMPTY, r
      <3> QED
        BY <3>1, <2>1, <2>2, <2>3, <2>4 DEF Panic
    <2>5. CASE r.first # NULL
      <3>1. env_run(r.first, e, env_pri[r.first] - 1, st)
        BY <1>2, <2>2, <2>5 DEF schedule, TAILQ_EMPTY, TAILQ_FIRST, r
      <3>2. curenv' = r.first /\ count' = env_pri[r.first] - 1 /\ panic' = "none"
        BY <3>1, <2>2, <2>5 DEF env_run
      <3>3. env_pri[r.first] \in Nat /\ env_pri[r.first] > 0
        BY <2>2, <2>5 DEF ENV_FREE, ENV_RUNNABLE
      <3> QED
        BY <3>2, <3>3, <2>1, <2>2, <2>3, <2>5
    <2> QED
      BY <2>4, <2>5
  <1> QED
    BY <1>1, <1>2

-----------------------------------------------------------------------------
\* The two halves of IInv: the scheduler's and the env table's.
SchedInv == /\ Holds(env_sched_list, env_status)
            /\ curenv \in Envs \cup {NULL}
            /\ count \in Int
            /\ StopsOnlyIdle
            /\ CurenvRunnable

\* The part of IInv about the table of envs: its type, and its facts.
TableType == /\ env_status \in [Envs -> Status]
             /\ env_id \in [Envs -> EnvIds]
             /\ env_parent_id \in [Envs -> EnvIds]
             /\ env_asid \in [Envs -> ASIDs]
             /\ env_pri \in [Envs -> Nat]
             /\ env_ipc_recving \in [Envs -> BOOLEAN]
             /\ env_free_list \in Seq(Envs)
             /\ asid_bitmap \in SUBSET ASIDs
             /\ mkenvid_i \in 0..MaxId
             /\ created \in 0..Len(BootPri)
             /\ polling \in BOOLEAN

TableInv == /\ TableType
            /\ FreeListExact
            /\ ReceiverBlocked
            /\ AsidExact
            /\ PriPositive

\* The invariant in two halves: queue and processor, table and ASIDs.
LEMMA IInvHalves == IInv <=> SchedInv /\ TableInv
  <1>1. Ready(env_status) = Runnable
    BY DEF Ready, Runnable
  <1>2. StopsOnlyIdle => panic \in Panics
    BY DEF StopsOnlyIdle, Panics
  <1> QED
    BY <1>1, <1>2 DEF IInv, SchedInv, TableInv, TypeOK, TableType, SchedListExact, Holds

\* The same for the next state.
LEMMA IInvNextHalves == SchedInv' /\ TableInv' => IInv'
  <1>1. Ready(env_status') = Runnable'
    BY DEF Ready, Runnable
  <1>2. StopsOnlyIdle' => panic' \in Panics
    BY DEF StopsOnlyIdle, Panics
  <1> QED
    BY <1>1, <1>2 DEF IInv, SchedInv, TableInv, TypeOK, TableType, SchedListExact, Holds

\* A handler that ends in schedule.
LEMMA EndsInSchedule ==
    ASSUME SchedInv, TableInv, env_status' \in [Envs -> Status], PriPositive', env_pri' = env_pri,
           NEW q, Holds(q, env_status'),
           NEW e \in Envs \cup {NULL}, NEW yield \in BOOLEAN,
           e # NULL /\ env_status'[e] # ENV_RUNNABLE => TAILQ_REMOVE(q, e) = q,
           ~yield /\ e # NULL => count < env_pri[e],
           schedule(yield, q, e, env_status')
    PROVE  SchedInv'
  <1>1. env_pri \in [Envs -> Nat] /\ count \in Int
    BY DEF TableInv, TableType, SchedInv
  <1>2. \A x \in Envs : env_status'[x] # ENV_FREE => env_pri[x] > 0
    BY DEF PriPositive
  <1> DEFINE st == env_status'
  <1>3. /\ st \in [Envs -> Status] /\ Holds(q, st) /\ schedule(yield, q, e, st)
        /\ e # NULL /\ st[e] # ENV_RUNNABLE => TAILQ_REMOVE(q, e) = q
        /\ \A x \in Envs : st[x] # ENV_FREE => env_pri[x] > 0
    BY <1>2
  <1> HIDE DEF st
  <1>4. /\ Holds(env_sched_list', st)
        /\ curenv' \in Envs \cup {NULL}
        /\ count' \in Int
        /\ panic' \in {"none", "no_runnable"}
        /\ panic' = "no_runnable" => Ready(st) = {}
        /\ panic' = "none" => /\ curenv' \in Envs
                              /\ st[curenv'] = ENV_RUNNABLE
                              /\ count' \in 0..(env_pri[curenv'] - 1)
    BY <1>1, <1>3, ScheduleKeeps
  <1>5. Ready(st) = Runnable'
    BY DEF Ready, Runnable, st
  <1>6. StopsOnlyIdle'
    BY <1>4, <1>5 DEF StopsOnlyIdle
  <1>7. CurenvRunnable'
    BY <1>4 DEF CurenvRunnable, UserMode, Running, st
  <1> QED
    BY <1>4, <1>6, <1>7 DEF SchedInv, st, Holds

\* A handler that returns to its caller.
LEMMA EndsInReturn ==
    ASSUME SchedInv, UserMode, NEW q, Holds(q, env_status'), Return(q),
           env_status'[curenv] = ENV_RUNNABLE, env_pri'[curenv] = env_pri[curenv]
    PROVE  SchedInv'
  <1>1. q.trap = "none"
    BY HoldsFirst
  <1>2. env_sched_list' = q /\ panic' = "none" /\ curenv' = curenv /\ count' = count
    BY <1>1 DEF Return
  <1>3. count \in 0..(env_pri[curenv] - 1)
    BY DEF SchedInv, CurenvRunnable, UserMode
  <1>4. StopsOnlyIdle' /\ CurenvRunnable'
    BY <1>2, <1>3 DEF StopsOnlyIdle, CurenvRunnable, UserMode, Running
  <1> QED
    BY <1>2, <1>4 DEF SchedInv, Holds

-----------------------------------------------------------------------------
\* The free list as a stack.

\* LIST_FIRST and LIST_REMOVE of the free list.
LEMMA PopFree ==
    ASSUME NEW s \in Seq(Envs), s # <<>>, Injective(s)
    PROVE  /\ Head(s) \in Members(s)
           /\ Head(s) \in Envs
           /\ Tail(s) \in Seq(Envs)
           /\ Injective(Tail(s))
           /\ Members(Tail(s)) = Members(s) \ {Head(s)}
  <1> DEFINE n == Len(s)
  <1>1. n \in Nat /\ n > 0 /\ DOMAIN s = 1..n /\ Head(s) = s[1] /\ 1 \in 1..n
    OBVIOUS
  <1>2. /\ Tail(s) \in Seq(Envs) /\ DOMAIN Tail(s) = 1..(n - 1)
        /\ \A i \in 1..(n - 1) : Tail(s)[i] = s[i + 1] /\ i + 1 \in 1..n
    OBVIOUS
  <1>3. Injective(Tail(s))
    BY <1>1, <1>2 DEF Injective
  <1>4. ASSUME NEW x \in Members(Tail(s)) PROVE x \in Members(s) \ {Head(s)}
    BY <1>1, <1>2 DEF Members, Injective
  <1>5. ASSUME NEW x \in Members(s) \ {Head(s)} PROVE x \in Members(Tail(s))
    <2>1. PICK i \in 1..n : x = s[i] /\ i # 1
      BY <1>1 DEF Members
    <2>2. i - 1 \in 1..(n - 1) /\ Tail(s)[i - 1] = s[i]
      BY <2>1, <1>1, <1>2
    <2> QED
      BY <2>1, <2>2, <1>2 DEF Members
  <1>6. Head(s) \in Members(s) /\ Head(s) \in Envs
    BY <1>1 DEF Members
  <1> QED
    BY <1>2, <1>3, <1>4, <1>5, <1>6

\* LIST_INSERT_HEAD of a slot that is not in the free list.
LEMMA PushFree ==
    ASSUME NEW s \in Seq(Envs), Injective(s), NEW e \in Envs, e \notin Members(s)
    PROVE  /\ <<e>> \o s \in Seq(Envs)
           /\ Injective(<<e>> \o s)
           /\ Members(<<e>> \o s) = Members(s) \cup {e}
  <1> DEFINE n == Len(s)
             t == <<e>> \o s
  <1>1. n \in Nat /\ DOMAIN s = 1..n
    OBVIOUS
  <1>2. /\ t \in Seq(Envs) /\ DOMAIN t = 1..(n + 1) /\ t[1] = e
        /\ \A i \in 2..(n + 1) : t[i] = s[i - 1] /\ i - 1 \in 1..n
        /\ \A i \in 1..n : t[i + 1] = s[i] /\ i + 1 \in 1..(n + 1)
    BY <1>1
  <1>3. \A i \in 1..n : s[i] # e
    BY <1>1 DEF Members
  <1> HIDE DEF t, n
  <1>4. Injective(t)
    <2> SUFFICES ASSUME NEW i \in 1..(n + 1), NEW j \in 1..(n + 1), t[i] = t[j]
                 PROVE  i = j
      BY <1>2 DEF Injective
    <2>1. \A k \in 1..(n + 1) : k = 1 \/ (k \in 2..(n + 1) /\ t[k] = s[k - 1] /\ k - 1 \in 1..n)
      BY <1>1, <1>2
    <2>2. CASE i = 1 \/ j = 1
      BY <2>1, <2>2, <1>2, <1>3
    <2>3. CASE i # 1 /\ j # 1
      <3>1. i - 1 = j - 1
        BY <2>1, <2>3, <1>1 DEF Injective
      <3> QED
        BY <3>1, <1>1
    <2> QED
      BY <2>2, <2>3
  <1>5. ASSUME NEW x \in Members(t) PROVE x \in Members(s) \cup {e}
    <2>1. PICK i \in 1..(n + 1) : x = t[i]
      BY <1>2 DEF Members
    <2>2. CASE i = 1
      BY <2>1, <2>2, <1>2
    <2>3. CASE i # 1
      <3>1. i - 1 \in DOMAIN s /\ x = s[i - 1]
        BY <2>1, <2>3, <1>1, <1>2
      <3> QED
        BY <3>1 DEF Members
    <2> QED
      BY <2>2, <2>3
  <1>6. ASSUME NEW x \in Members(s) \cup {e} PROVE x \in Members(t)
    <2>1. CASE x = e
      <3>1. 1 \in DOMAIN t
        BY <1>1, <1>2
      <3> QED
        BY <3>1, <2>1, <1>2 DEF Members
    <2>2. CASE x \in Members(s)
      <3>1. PICK i \in 1..n : x = s[i]
        BY <2>2, <1>1 DEF Members
      <3>2. i + 1 \in DOMAIN t /\ t[i + 1] = x
        BY <3>1, <1>2
      <3> QED
        BY <3>2 DEF Members
    <2> QED
      BY <2>1, <2>2
  <1> QED
    BY <1>2, <1>4, <1>5, <1>6 DEF t

\* asid_alloc returns an ASID that is not in use.
LEMMA AsidAllocFree ==
    ASSUME FreeAsids # {}, NASID \in Nat
    PROVE  asid_alloc \in FreeAsids
  <1>1. FreeAsids \subseteq Nat
    BY DEF FreeAsids, ASIDs
  <1>2. PICK a \in FreeAsids : \A b \in FreeAsids : ~(<<b, a>> \in OpToRel(<, Nat))
    BY <1>1, WFMin, NatLessThanWellFounded
  <1>3. \A b \in FreeAsids : a <= b
    <2> SUFFICES ASSUME NEW b \in FreeAsids PROVE a <= b
      OBVIOUS
    <2>1. a \in Nat /\ b \in Nat
      BY <1>1
    <2>2. ~(b < a)
      BY <1>2, <2>1 DEF OpToRel
    <2> QED
      BY <2>1, <2>2
  <1> QED
    BY <1>2, <1>3 DEF asid_alloc

-----------------------------------------------------------------------------
\* env_alloc, with the fields its two callers set, keeps the table's half.
LEMMA AllocKeeps ==
    ASSUME TableInv, NEW e \in Envs, NEW parent \in EnvIds, env_alloc(e, parent),
           NEW v \in {ENV_RUNNABLE, ENV_NOT_RUNNABLE},
           env_status' = [env_status EXCEPT ![e] = v],
           NEW pri \in Nat \ {0}, env_pri' = [env_pri EXCEPT ![e] = pri],
           env_ipc_recving' = env_ipc_recving, created' \in 0..Len(BootPri),
           polling' = polling
    PROVE  TableInv' /\ env_status[e] = ENV_FREE
  <1> USE DEF ENV_FREE, ENV_RUNNABLE, ENV_NOT_RUNNABLE
  <1>1. TableType
    BY DEF TableInv
  <1>2. /\ e = Head(env_free_list) /\ env_free_list # <<>> /\ Injective(env_free_list)
        /\ env_free_list \in Seq(Envs)
    BY <1>1 DEF TableInv, FreeListExact, Injective, env_alloc, TableType
  <1>3. env_status[e] = ENV_FREE
    BY <1>2, PopFree DEF TableInv, FreeListExact
  <1>4. env_free_list' = Tail(env_free_list)
    BY DEF env_alloc
  <1>5. FreeListExact' /\ env_free_list' \in Seq(Envs)
    <2>1. /\ env_free_list' \in Seq(Envs) /\ Injective(env_free_list')
          /\ Members(env_free_list') = Members(env_free_list) \ {e}
      BY <1>2, <1>4, PopFree
    <2>2. Members(env_free_list) = { x \in Envs : env_status[x] = ENV_FREE }
      BY DEF TableInv, FreeListExact
    <2>3. { x \in Envs : env_status'[x] = ENV_FREE } = Members(env_free_list) \ {e}
      BY <1>1, <2>2 DEF TableType
    <2> QED
      BY <2>1, <2>3 DEF FreeListExact, Injective
  <1> DEFINE a == asid_alloc
  <1>6. a \in ASIDs /\ a \notin asid_bitmap
    BY AsidAllocFree, EnvAssumption DEF env_alloc, FreeAsids
  <1>7. env_asid' = [env_asid EXCEPT ![e] = a] /\ asid_bitmap' = asid_bitmap \cup {a}
    BY DEF env_alloc
  <1> HIDE DEF a
  <1>8. AsidExact'
    <2> DEFINE live == { x \in Envs : env_status[x] # ENV_FREE }
    <2>1. { x \in Envs : env_status'[x] # ENV_FREE } = live \cup {e}
      BY <1>1 DEF TableType
    <2>2. /\ asid_bitmap = { env_asid[x] : x \in live }
          /\ \A x, y \in live : env_asid[x] = env_asid[y] => x = y
      BY DEF TableInv, AsidExact
    <2>3. e \notin live
      BY <1>3
    <2>4. env_asid'[e] = a /\ \A x \in live : env_asid'[x] = env_asid[x]
      BY <1>1, <1>7, <2>3 DEF TableType
    <2> HIDE DEF live
    <2>5. asid_bitmap' = { env_asid'[x] : x \in live \cup {e} }
      BY <1>7, <2>2, <2>4
    <2>6. \A x, y \in live \cup {e} : env_asid'[x] = env_asid'[y] => x = y
      BY <1>6, <2>2, <2>4
    <2> QED
      BY <2>1, <2>5, <2>6 DEF AsidExact
  <1>9. ReceiverBlocked' /\ PriPositive'
    BY <1>1, <1>3 DEF TableInv, TableType, ReceiverBlocked, PriPositive
  <1>10. mkenvid_i' \in 0..MaxId /\ env_id' \in [Envs -> EnvIds] /\ env_parent_id' \in [Envs -> EnvIds]
    <2>1. mkenvid_i \in Nat /\ mkenvid_i + 1 \in 0..MaxId /\ mkenvid_i' = mkenvid_i + 1
      BY <1>1, EnvAssumption DEF env_alloc, TableType
    <2>2. <<mkenvid_i + 1, e>> \in EnvIds
      BY <2>1 DEF EnvIds
    <2> QED
      BY <1>1, <2>1, <2>2 DEF env_alloc, TableType
  <1>11. TableType'
    BY <1>1, <1>5, <1>6, <1>7, <1>10 DEF TableType, Status
  <1> QED
    BY <1>3, <1>5, <1>8, <1>9, <1>11 DEF TableInv

\* env_free of a linked env keeps the table's half.
LEMMA FreeKeeps ==
    ASSUME TableInv, NEW e \in Envs, env_status[e] = ENV_RUNNABLE, env_free(e),
           UNCHANGED <<table, env_ipc_recving, created, polling>>
    PROVE  TableInv'
  <1> USE DEF ENV_FREE, ENV_RUNNABLE, ENV_NOT_RUNNABLE
  <1>1. TableType
    BY DEF TableInv
  <1>2. /\ env_status' = [env_status EXCEPT ![e] = ENV_FREE]
        /\ env_free_list' = <<e>> \o env_free_list
        /\ asid_bitmap' = asid_bitmap \ {env_asid[e]}
        /\ env_id' = env_id /\ env_parent_id' = env_parent_id /\ env_asid' = env_asid
        /\ env_pri' = env_pri /\ mkenvid_i' = mkenvid_i
        /\ env_ipc_recving' = env_ipc_recving /\ created' = created /\ polling' = polling
    BY DEF env_free, table
  <1>3. FreeListExact' /\ env_free_list' \in Seq(Envs)
    <2>1. /\ Members(env_free_list) = { x \in Envs : env_status[x] = ENV_FREE }
          /\ Injective(env_free_list) /\ env_free_list \in Seq(Envs)
      BY <1>1 DEF TableInv, FreeListExact, Injective, TableType
    <2>2. e \notin Members(env_free_list)
      BY <2>1
    <2>3. /\ env_free_list' \in Seq(Envs) /\ Injective(env_free_list')
          /\ Members(env_free_list') = Members(env_free_list) \cup {e}
      BY <1>2, <2>1, <2>2, PushFree
    <2>4. { x \in Envs : env_status'[x] = ENV_FREE } = Members(env_free_list) \cup {e}
      BY <1>1, <1>2, <2>1 DEF TableType
    <2> QED
      BY <2>3, <2>4 DEF FreeListExact, Injective
  <1>4. AsidExact'
    <2> DEFINE live == { x \in Envs : env_status[x] # ENV_FREE }
    <2>1. { x \in Envs : env_status'[x] # ENV_FREE } = live \ {e}
      BY <1>1, <1>2 DEF TableType
    <2>2. /\ asid_bitmap = { env_asid[x] : x \in live }
          /\ \A x, y \in live : env_asid[x] = env_asid[y] => x = y
      BY DEF TableInv, AsidExact
    <2>3. e \in live
      OBVIOUS
    <2> HIDE DEF live
    <2>4. asid_bitmap \ {env_asid[e]} = { env_asid[x] : x \in live \ {e} }
      BY <2>2, <2>3
    <2>5. /\ asid_bitmap' = { env_asid'[x] : x \in live \ {e} }
          /\ \A x, y \in live \ {e} : env_asid'[x] = env_asid'[y] => x = y
      BY <1>2, <2>2, <2>4
    <2> QED
      BY <2>1, <2>5 DEF AsidExact
  <1>5. ReceiverBlocked' /\ PriPositive'
    BY <1>1, <1>2 DEF TableInv, TableType, ReceiverBlocked, PriPositive
  <1>6. TableType'
    BY <1>1, <1>2, <1>3 DEF TableType, Status
  <1> QED
    BY <1>3, <1>4, <1>5, <1>6 DEF TableInv

\* Changing the status of a live env to another live status, with recving
\* kept consistent, keeps the table's half.
LEMMA StatusKeeps ==
    ASSUME TableInv, NEW e \in Envs, env_status[e] # ENV_FREE,
           NEW v \in {ENV_RUNNABLE, ENV_NOT_RUNNABLE},
           env_status' = [env_status EXCEPT ![e] = v],
           NEW b \in BOOLEAN, b => v = ENV_NOT_RUNNABLE,
           env_ipc_recving' = [env_ipc_recving EXCEPT ![e] = b],
           UNCHANGED <<table, env_free_list, asid_bitmap, created, polling>>
    PROVE  TableInv'
  <1> USE DEF ENV_FREE, ENV_RUNNABLE, ENV_NOT_RUNNABLE
  <1>1. TableType
    BY DEF TableInv
  <1>2. /\ env_free_list' = env_free_list /\ asid_bitmap' = asid_bitmap
        /\ env_id' = env_id /\ env_parent_id' = env_parent_id /\ env_asid' = env_asid
        /\ env_pri' = env_pri /\ mkenvid_i' = mkenvid_i /\ created' = created /\ polling' = polling
    BY DEF table
  <1>3. \A x \in Envs : env_status'[x] = ENV_FREE <=> env_status[x] = ENV_FREE
    BY <1>1 DEF TableType
  <1>4. FreeListExact' /\ AsidExact' /\ PriPositive'
    <2>1. { x \in Envs : env_status'[x] = ENV_FREE } = { x \in Envs : env_status[x] = ENV_FREE }
      BY <1>3
    <2>2. { x \in Envs : env_status'[x] # ENV_FREE } = { x \in Envs : env_status[x] # ENV_FREE }
      BY <1>3
    <2>3. FreeListExact'
      BY <1>2, <2>1 DEF TableInv, FreeListExact
    <2>4. AsidExact'
      BY <1>2, <2>2 DEF TableInv, AsidExact
    <2>5. PriPositive'
      BY <1>2, <1>3 DEF TableInv, PriPositive
    <2> QED
      BY <2>3, <2>4, <2>5
  <1>5. env_ipc_recving' \in [Envs -> BOOLEAN]
    BY <1>1 DEF TableType
  <1>6. env_status' \in [Envs -> Status]
    BY <1>1 DEF TableType, Status
  <1>7. ReceiverBlocked'
    <2> SUFFICES ASSUME NEW x \in Envs, env_ipc_recving'[x]
                 PROVE  env_status'[x] = ENV_NOT_RUNNABLE
      BY DEF ReceiverBlocked
    <2>1. CASE x = e
      BY <2>1, <1>1 DEF TableType
    <2>2. CASE x # e
      BY <2>2, <1>1 DEF TableType, TableInv, ReceiverBlocked
    <2> QED
      BY <2>1, <2>2
  <1>8. TableType'
    BY <1>1, <1>2, <1>5, <1>6 DEF TableType
  <1> QED
    BY <1>4, <1>7, <1>8 DEF TableInv

-----------------------------------------------------------------------------

\* env_init leaves every slot free and the queue empty.
LEMMA InitIInv == Init => IInv
  <1> SUFFICES ASSUME Init PROVE SchedInv /\ TableInv
    BY IInvHalves
  <1> USE DEF ENV_FREE, ENV_RUNNABLE, ENV_NOT_RUNNABLE
  <1>1. env_status = [x \in Envs |-> ENV_FREE]
    BY DEF Init
  <1>2. 0 \in Envs /\ 0 \in ASIDs /\ NoParent \in EnvIds
    BY EnvAssumption DEF Envs, ASIDs, NoParent, EnvIds
  <1>3. Holds(env_sched_list, env_status)
    <2>1. << >> \in Orders
      <3>1. << >> \in Seq(Elems) /\ Injective(<< >>)
        BY DEF Injective
      <3> QED
        BY <3>1, InjectiveIsOrder
    <2>2. Represents(TAILQ_INIT, << >>)
      BY DEF Represents, TAILQ_INIT
    <2>3. Members(<< >>) = {}
      BY DEF Members
    <2>4. Ready(env_status) = {}
      BY <1>1 DEF Ready
    <2>5. TAILQ_INIT \in Queues
      BY DEF TAILQ_INIT, Queues, FieldAddr
    <2> QED
      BY <2>1, <2>2, <2>3, <2>4, <2>5 DEF Holds, Init
  <1>4. SchedInv
    BY <1>3 DEF Init, SchedInv, StopsOnlyIdle, CurenvRunnable, UserMode, Running
  <1>5. FreeListExact /\ env_free_list \in Seq(Envs)
    <2>1. env_free_list = [i \in 1..NENV |-> i - 1] /\ NENV \in Nat
      BY EnvAssumption DEF Init
    <2>2. \A i \in 1..NENV : i - 1 \in Envs
      BY <2>1 DEF Envs
    <2>3. \A x \in Envs : x + 1 \in 1..NENV /\ (x + 1) - 1 = x
      BY <2>1 DEF Envs
    <2>4. env_free_list \in Seq(Envs) /\ DOMAIN env_free_list = 1..NENV
      BY <2>1, <2>2
    <2>5. Members(env_free_list) = Envs
      BY <2>1, <2>2, <2>3 DEF Members
    <2>6. { x \in Envs : env_status[x] = ENV_FREE } = Envs
      BY <1>1
    <2>7. \A i, j \in 1..NENV : env_free_list[i] = env_free_list[j] => i = j
      BY <2>1
    <2> QED
      BY <2>4, <2>5, <2>6, <2>7 DEF FreeListExact
  <1>6. ReceiverBlocked /\ PriPositive
    BY DEF Init, ReceiverBlocked, PriPositive
  <1>7. AsidExact
    BY <1>1 DEF Init, AsidExact
  <1>8. TableType
    <2>1. created \in 0..Len(BootPri) /\ mkenvid_i \in 0..MaxId
      BY EnvAssumption DEF Init
    <2>2. polling \in BOOLEAN
      BY DEF Init
    <2> QED
      BY <1>2, <1>5, <2>1, <2>2 DEF Init, TableType, Status
  <1> QED
    BY <1>4, <1>5, <1>6, <1>7, <1>8 DEF TableInv

\* What a successful lookup of an env id says.
LEMMA LookupLive ==
    ASSUME NEW id \in EnvIds, NEW perm \in BOOLEAN, envid2env(id, perm) # NULL
    PROVE  /\ envid2env(id, perm) = ENVX(id)
           /\ ENVX(id) \in Envs
           /\ env_status[ENVX(id)] # ENV_FREE
  BY DEF envid2env, ENVX, EnvIds

\* A step that leaves the table alone keeps the table's half.
LEMMA TableSame ==
    ASSUME TableInv,
           UNCHANGED <<env_status, table, env_ipc_recving, env_free_list, asid_bitmap, created, polling>>
    PROVE  TableInv'
  BY DEF TableInv, TableType, FreeListExact, ReceiverBlocked, AsidExact, PriPositive, table

\* A step that leaves the scheduler, the statuses and the priorities alone
\* keeps the scheduler's half.
LEMMA SchedSame ==
    ASSUME SchedInv, UNCHANGED <<env_status, env_pri, cpu>>
    PROVE  SchedInv'
  BY DEF SchedInv, Holds, StopsOnlyIdle, Runnable, CurenvRunnable, UserMode, Running, cpu

\* schedule called on the list as it is.
LEMMA PlainSchedule ==
    ASSUME SchedInv, TableInv, NEW yield \in BOOLEAN,
           panic = "none",
           schedule(yield, env_sched_list, curenv, env_status),
           UNCHANGED <<env_status, table, env_ipc_recving, env_free_list, asid_bitmap, created, polling>>
    PROVE  SchedInv' /\ TableInv'
  <1>1. TableInv'
    BY TableSame
  <1>2. env_status' = env_status /\ env_pri' = env_pri
    BY DEF table
  <1>3. PriPositive' /\ env_status' \in [Envs -> Status]
    BY <1>1 DEF TableInv, TableType
  <1>4. curenv \in Envs \cup {NULL} /\ Holds(env_sched_list, env_status')
    BY <1>2 DEF SchedInv
  <1>5. curenv # NULL => env_status'[curenv] = ENV_RUNNABLE /\ count \in 0..(env_pri[curenv] - 1)
    BY <1>2 DEF SchedInv, CurenvRunnable, UserMode, Running
  <1>6. curenv # NULL => count < env_pri[curenv]
    <2>1. curenv # NULL => env_pri[curenv] \in Nat
      BY <1>4 DEF TableInv, TableType
    <2> QED
      BY <2>1, <1>5
  <1>7. schedule(yield, env_sched_list, curenv, env_status')
    BY <1>2
  <1>8. SchedInv'
    BY <1>2, <1>3, <1>4, <1>5, <1>6, <1>7, EndsInSchedule
  <1> QED
    BY <1>1, <1>8

\* Every handler keeps the invariant.
LEMMA NextIInv == IInv /\ [Next]_vars => IInv'
  <1> SUFFICES ASSUME SchedInv, TableInv, [Next]_vars PROVE SchedInv' /\ TableInv'
    BY IInvHalves, IInvNextHalves
  <1> USE DEF ENV_FREE, ENV_RUNNABLE, ENV_NOT_RUNNABLE
  <1>t. TableType
    BY DEF TableInv
  <1>s. /\ Holds(env_sched_list, env_status)
        /\ curenv \in Envs \cup {NULL}
        /\ Running => curenv \in Envs /\ env_status[curenv] = ENV_RUNNABLE
        /\ UserMode => curenv \in Envs /\ env_status[curenv] = ENV_RUNNABLE
    BY DEF SchedInv, CurenvRunnable, UserMode, Running
  <1>1. CASE MipsInitCreate
    <2>1. PICK e \in Envs :
             /\ env_alloc(e, NoParent)
             /\ env_pri' = [env_pri EXCEPT ![e] = BootPri[created + 1]]
             /\ env_status' = [env_status EXCEPT ![e] = ENV_RUNNABLE]
             /\ env_sched_list' = TAILQ_INSERT_HEAD(env_sched_list, e)
             /\ env_ipc_recving' = env_ipc_recving /\ curenv' = curenv /\ count' = count /\ panic' = panic
      BY <1>1 DEF MipsInitCreate, env_create
    <2>2. /\ created + 1 \in 1..Len(BootPri) /\ created' \in 0..Len(BootPri) /\ panic = "none"
          /\ polling' = polling
      BY <1>1, <1>t, EnvAssumption DEF MipsInitCreate, TableType
    <2>3. BootPri[created + 1] \in Nat \ {0} /\ NoParent \in EnvIds
      BY <2>2, EnvAssumption DEF NoParent, EnvIds, Envs
    <2>4. TableInv' /\ env_status[e] = ENV_FREE
      BY <2>1, <2>2, <2>3, AllocKeeps
    <2>5. Holds(env_sched_list', env_status')
      BY <2>1, <2>4, <1>s, <1>t, HoldsInsert DEF TableType
    <2>6. curenv # NULL => curenv \in Envs /\ curenv # e /\ env_status'[curenv] = ENV_RUNNABLE
                           /\ env_pri'[curenv] = env_pri[curenv]
      BY <2>1, <2>2, <2>4, <1>s, <1>t DEF UserMode, Running, TableType
    <2>7. StopsOnlyIdle' /\ CurenvRunnable'
      BY <2>1, <2>2, <2>6 DEF SchedInv, StopsOnlyIdle, CurenvRunnable, UserMode, Running
    <2>8. SchedInv'
      BY <2>1, <2>5, <2>7 DEF SchedInv, Holds
    <2> QED
      BY <2>4, <2>8
  <1>2. CASE MipsInitSchedule
    BY <1>2, PlainSchedule DEF MipsInitSchedule
  <1>3. CASE handle_int
    BY <1>3, PlainSchedule DEF handle_int, UserMode, Running
  <1>4. CASE sys_yield
    BY <1>4, PlainSchedule DEF sys_yield, UserMode, Running
  <1>5. CASE sys_exofork
    <2>1. UserMode /\ UNCHANGED <<env_ipc_recving, cpu, created, polling>>
      BY <1>5 DEF sys_exofork
    <2>2. PICK e \in Envs :
             /\ env_alloc(e, env_id[curenv])
             /\ env_status' = [env_status EXCEPT ![e] = ENV_NOT_RUNNABLE]
             /\ env_pri' = [env_pri EXCEPT ![e] = env_pri[curenv]]
      BY <1>5 DEF sys_exofork
    <2>3. curenv \in Envs /\ env_id[curenv] \in EnvIds /\ env_pri[curenv] \in Nat \ {0}
      BY <2>1, <1>s, <1>t DEF TableType, TableInv, PriPositive
    <2>4. TableInv' /\ env_status[e] = ENV_FREE
      <3>1. created' \in 0..Len(BootPri) /\ env_ipc_recving' = env_ipc_recving /\ polling' = polling
        BY <2>1, <1>t DEF TableType
      <3> QED
        BY <2>2, <2>3, <3>1, AllocKeeps
    <2>5. Ready(env_status') = Ready(env_status)
      BY <2>2, <2>4, <1>t DEF Ready, TableType
    <2>6. env_sched_list' = env_sched_list /\ curenv' = curenv /\ count' = count /\ panic' = panic
      BY <2>1 DEF cpu
    <2>7. Holds(env_sched_list', env_status')
      BY <2>5, <2>6, <1>s DEF Holds
    <2>8. curenv # e /\ env_status'[curenv] = env_status[curenv] /\ env_pri'[curenv] = env_pri[curenv]
      BY <2>1, <2>2, <2>3, <2>4, <1>s, <1>t DEF TableType
    <2>9. StopsOnlyIdle' /\ CurenvRunnable'
      BY <2>1, <2>6, <2>8 DEF SchedInv, StopsOnlyIdle, CurenvRunnable, UserMode, Running
    <2> QED
      BY <2>4, <2>6, <2>7, <2>9 DEF SchedInv
  <1>6. CASE sys_exofork_no_asid
    <2> DEFINE e == Head(env_free_list)
    <2>1. /\ UserMode /\ env_free_list # << >> /\ mkenvid_i < MaxId
          /\ mkenvid_i' = mkenvid_i + 1
          /\ env_id' = [env_id EXCEPT ![e] = <<mkenvid_i + 1, e>>]
          /\ env_parent_id' = [env_parent_id EXCEPT ![e] = env_id[curenv]]
          /\ UNCHANGED <<env_status, env_asid, env_pri, env_ipc_recving, env_free_list,
                         asid_bitmap, cpu, created, polling>>
      BY <1>6 DEF sys_exofork_no_asid, env_alloc_no_asid
    <2>2. SchedInv'
      BY <2>1, SchedSame
    <2>3. e \in Envs /\ env_id[curenv] \in EnvIds /\ mkenvid_i + 1 \in 0..MaxId
      BY <2>1, <1>s, <1>t, EnvAssumption DEF TableType
    <2> HIDE DEF e
    <2>4. env_id' \in [Envs -> EnvIds] /\ env_parent_id' \in [Envs -> EnvIds]
      <3>1. <<mkenvid_i + 1, e>> \in EnvIds
        BY <2>3 DEF EnvIds
      <3> QED
        BY <3>1, <2>1, <2>3, <1>t DEF TableType
    <2>5. TableType'
      BY <2>1, <2>3, <2>4, <1>t DEF TableType
    <2>6. FreeListExact' /\ ReceiverBlocked' /\ AsidExact' /\ PriPositive'
      BY <2>1 DEF TableInv, FreeListExact, ReceiverBlocked, AsidExact, PriPositive
    <2> QED
      BY <2>2, <2>5, <2>6 DEF TableInv
  <1>7. CASE Destroy
    <2>1. PICK id \in EnvIds : DestroysLinked(id) /\ sys_env_destroy(id)
      BY <1>7 DEF Destroy
    <2> DEFINE e == ENVX(id)
               q == TAILQ_REMOVE(env_sched_list, e)
    <2>2. /\ UserMode /\ e \in Envs /\ env_status[e] = ENV_RUNNABLE /\ env_destroy(e)
          /\ UNCHANGED <<table, env_ipc_recving, created, polling>>
      BY <2>1, LookupLive DEF sys_env_destroy, DestroysLinked
    <2>3. env_free(e) /\ env_status' = [env_status EXCEPT ![e] = ENV_FREE]
      BY <2>2 DEF env_destroy, env_free
    <2>4. TableInv'
      BY <2>2, <2>3, FreeKeeps
    <2>5. Holds(q, env_status') /\ q.trap = "none"
      <3>1. ENV_FREE \in Status \ {ENV_RUNNABLE} /\ env_status \in [Envs -> Status]
        BY <1>t DEF Status, TableType
      <3> QED
        BY <3>1, <2>2, <2>3, <1>s, HoldsRemove
    <2>6. env_pri' = env_pri /\ PriPositive' /\ env_status' \in [Envs -> Status]
      BY <2>2, <2>4 DEF table, TableInv, TableType
    <2>7. CASE curenv = e
      <3>1. schedule(TRUE, q, NULL, env_status')
        BY <2>2, <2>3, <2>5, <2>7 DEF env_destroy
      <3> HIDE DEF q
      <3>2. SchedInv'
        BY <3>1, <2>5, <2>6, EndsInSchedule
      <3> QED
        BY <3>2, <2>4
    <2>8. CASE curenv # e
      <3>1. Return(q)
        BY <2>2, <2>8 DEF env_destroy
      <3>2. env_status'[curenv] = ENV_RUNNABLE
        BY <2>2, <2>3, <2>8, <1>s, <1>t DEF TableType
      <3> HIDE DEF q
      <3>3. SchedInv'
        BY <3>1, <3>2, <2>2, <2>5, <2>6, EndsInReturn
      <3> QED
        BY <3>3, <2>4
    <2> QED
      BY <2>7, <2>8
  <1>8. CASE SetStatus
    <2>1. PICK id \in EnvIds, v \in {ENV_RUNNABLE, ENV_NOT_RUNNABLE} :
             StartsIdle(id, v) /\ sys_set_env_status(id, v)
      BY <1>8 DEF SetStatus
    <2> DEFINE e == ENVX(id)
               old == env_status[e]
               q == CASE v = ENV_NOT_RUNNABLE /\ old # v -> TAILQ_REMOVE(env_sched_list, e)
                      [] v = ENV_RUNNABLE /\ old # v -> TAILQ_INSERT_TAIL(env_sched_list, e)
                      [] OTHER -> env_sched_list
    <2>2. /\ UserMode /\ e \in Envs /\ old # ENV_FREE
          /\ env_status' = [env_status EXCEPT ![e] = v]
          /\ IF e = curenv /\ q.trap = "none" THEN schedule(TRUE, q, curenv, env_status')
                                              ELSE Return(q)
          /\ UNCHANGED <<table, env_ipc_recving, env_free_list, asid_bitmap, created, polling>>
      BY <2>1, LookupLive DEF sys_set_env_status
    <2>3. v = ENV_RUNNABLE => ~env_ipc_recving[e]
      BY <2>1 DEF StartsIdle
    <2>4. old \in {ENV_RUNNABLE, ENV_NOT_RUNNABLE} /\ env_status \in [Envs -> Status]
      BY <2>2, <1>t DEF TableType, Status
    <2>5. TableInv'
      <3>1. env_ipc_recving' = [env_ipc_recving EXCEPT ![e] = env_ipc_recving[e]]
        BY <2>2, <1>t DEF TableType
      <3>2. env_ipc_recving[e] \in BOOLEAN /\ (env_ipc_recving[e] => v = ENV_NOT_RUNNABLE)
        BY <2>1, <2>2, <2>3, <1>t DEF TableType
      <3> HIDE DEF q
      <3> QED
        BY <2>2, <3>1, <3>2, StatusKeeps
    <2>6. Holds(q, env_status')
          /\ (old = ENV_RUNNABLE /\ v # ENV_RUNNABLE => TAILQ_REMOVE(q, e) = q)
      <3>1. CASE old = v
        <4>1. q = env_sched_list /\ env_status' = env_status
          BY <3>1, <2>2, <2>4
        <4> QED
          BY <4>1, <3>1, <1>s
      <3>2. CASE old # v /\ v = ENV_RUNNABLE
        <4>1. q = TAILQ_INSERT_TAIL(env_sched_list, e)
          BY <3>2
        <4> HIDE DEF q
        <4> QED
          BY <4>1, <3>2, <2>2, <2>4, <1>s, HoldsInsert
      <3>3. CASE old # v /\ v = ENV_NOT_RUNNABLE
        <4>1. q = TAILQ_REMOVE(env_sched_list, e) /\ old = ENV_RUNNABLE /\ v \in Status \ {ENV_RUNNABLE}
          BY <3>3, <2>4 DEF Status
        <4> HIDE DEF q
        <4> QED
          BY <4>1, <3>3, <2>2, <2>4, <1>s, HoldsRemove
      <3> QED
        BY <3>1, <3>2, <3>3, <2>1
    <2> HIDE DEF q
    <2>7. q.trap = "none" /\ env_pri' = env_pri /\ PriPositive' /\ env_status' \in [Envs -> Status]
      BY <2>2, <2>5, <2>6, HoldsFirst DEF table, TableInv, TableType
    <2>8. CASE e = curenv
      <3>1. schedule(TRUE, q, curenv, env_status')
        BY <2>2, <2>7, <2>8
      <3>2. curenv # NULL /\ env_status'[curenv] # ENV_RUNNABLE => TAILQ_REMOVE(q, curenv) = q
        BY <2>2, <2>4, <2>6, <2>8, <1>s
      <3>3. SchedInv'
        BY <3>1, <3>2, <2>6, <2>7, <1>s, EndsInSchedule
      <3> QED
        BY <3>3, <2>5
    <2>9. CASE e # curenv
      <3>1. Return(q)
        BY <2>2, <2>9
      <3>2. env_status'[curenv] = ENV_RUNNABLE
        BY <2>2, <2>4, <2>9, <1>s
      <3>3. SchedInv'
        BY <3>1, <3>2, <2>2, <2>6, <2>7, EndsInReturn
      <3> QED
        BY <3>3, <2>5
    <2> QED
      BY <2>8, <2>9
  <1>9. CASE sys_ipc_recv
    <2> DEFINE q == TAILQ_REMOVE(env_sched_list, curenv)
    <2>1. /\ UserMode
          /\ env_ipc_recving' = [env_ipc_recving EXCEPT ![curenv] = TRUE]
          /\ env_status' = [env_status EXCEPT ![curenv] = ENV_NOT_RUNNABLE]
          /\ IF q.trap = "none" THEN schedule(TRUE, q, curenv, env_status') ELSE Return(q)
          /\ UNCHANGED <<table, env_free_list, asid_bitmap, created, polling>>
      BY <1>9 DEF sys_ipc_recv
    <2>2. /\ Holds(q, env_status') /\ q.trap = "none" /\ TAILQ_REMOVE(q, curenv) = q
      <3>1. ENV_NOT_RUNNABLE \in Status \ {ENV_RUNNABLE} /\ env_status \in [Envs -> Status]
        BY <1>t DEF Status, TableType
      <3> QED
        BY <3>1, <2>1, <1>s, HoldsRemove
    <2> HIDE DEF q
    <2>3. TableInv'
      BY <2>1, <1>s, StatusKeeps
    <2>4. env_pri' = env_pri /\ PriPositive' /\ env_status' \in [Envs -> Status]
      BY <2>1, <2>3 DEF table, TableInv, TableType
    <2>5. SchedInv'
      BY <2>1, <2>2, <2>4, <1>s, EndsInSchedule
    <2> QED
      BY <2>3, <2>5
  <1>10. CASE TrySend
    <2>1. PICK id \in EnvIds : sys_ipc_try_send(id)
      BY <1>10 DEF TrySend
    <2> DEFINE e == ENVX(id)
               q == TAILQ_INSERT_TAIL(env_sched_list, e)
    <2>2. /\ UserMode /\ e \in Envs /\ env_status[e] # ENV_FREE /\ env_ipc_recving[e]
          /\ env_ipc_recving' = [env_ipc_recving EXCEPT ![e] = FALSE]
          /\ env_status' = [env_status EXCEPT ![e] = ENV_RUNNABLE]
          /\ Return(q)
          /\ UNCHANGED <<table, env_free_list, asid_bitmap, created, polling>>
      BY <2>1, LookupLive DEF sys_ipc_try_send
    <2>3. env_status[e] = ENV_NOT_RUNNABLE
      BY <2>2 DEF TableInv, ReceiverBlocked
    <2>4. Holds(q, env_status')
      BY <2>2, <2>3, <1>s, <1>t, HoldsInsert DEF TableType
    <2> HIDE DEF q
    <2>5. TableInv'
      BY <2>2, StatusKeeps
    <2>6. env_status'[curenv] = ENV_RUNNABLE /\ env_pri' = env_pri
      BY <2>2, <1>s, <1>t DEF TableType, table
    <2>7. SchedInv'
      BY <2>2, <2>4, <2>6, EndsInReturn
    <2> QED
      BY <2>5, <2>7
  <1>11. CASE sys_cgetc \/ scancharc
    <2>1. /\ UNCHANGED <<env_status, table, env_ipc_recving, env_free_list, asid_bitmap, cpu, created>>
          /\ polling' \in BOOLEAN
      BY <1>11 DEF sys_cgetc, scancharc
    <2>2. TableInv'
      BY <2>1 DEF TableInv, TableType, FreeListExact, ReceiverBlocked, AsidExact, PriPositive, table
    <2>3. SchedInv'
      BY <2>1, SchedSame DEF table
    <2> QED
      BY <2>2, <2>3
  <1>12. CASE UNCHANGED vars
    BY <1>12, TableSame, SchedSame DEF vars, table
  <1> QED
    BY <1>1, <1>2, <1>3, <1>4, <1>5, <1>6, <1>7, <1>8, <1>9, <1>10, <1>11, <1>12 DEF Next

\* IInv holds in every reachable state.
THEOREM Invariance == Spec => []IInv
  BY InitIInv, NextIInv, PTL DEF Spec

\* The state of the scheduler has its type in every reachable state.
THEOREM TypeCorrect == Spec => []TypeOK
  BY Invariance, PTL DEF IInv

\* kern/env.c:14 for any number of envs: env_sched_list is a well-formed
\* queue of exactly the runnable envs, as long as callers of
\* sys_env_destroy and sys_set_env_status meet the two obligations.
THEOREM SchedListTheorem == Spec => []SchedListExact
  BY Invariance, PTL DEF IInv

\* No slot is lost, handed out twice or handed out while in use.
THEOREM FreeListTheorem == Spec => []FreeListExact
  BY Invariance, PTL DEF IInv

\* sys_ipc_try_send only ever wakes an env that is blocked and unlinked.
THEOREM ReceiverTheorem == Spec => []ReceiverBlocked
  BY Invariance, PTL DEF IInv

\* Live envs have distinct ASIDs and none is leaked.
THEOREM AsidTheorem == Spec => []AsidExact
  BY Invariance, PTL DEF IInv

\* The kernel's list operations and env_run's assertion never fail, and it
\* gives up only when nothing can run.
THEOREM KernelStops == Spec => []StopsOnlyIdle
  BY Invariance, PTL DEF IInv

\* curenv is runnable and within its slice.
THEOREM CurenvTheorem == Spec => []CurenvRunnable
  BY Invariance, PTL DEF IInv

-----------------------------------------------------------------------------
(* EnvSched implements RunQueue: every handler is a step of one queue *)

\* s is the order of the queue q, which holds the envs that st says are runnable.
Lists(q, st, s) == q \in Queues /\ s \in Orders /\ Represents(q, s) /\ Members(s) = Ready(st)

\* A queue of n elements is as long as the set of its members.
LEMMA OrderLength ==
    ASSUME NEW s \in Orders
    PROVE  Cardinality(Members(s)) = Len(s)
  <1>1. Len(s) \in Nat /\ DOMAIN s = 1..Len(s) /\ Injective(s) /\ s \in Seq(Elems)
    BY OrderIsSeq
  <1>2. s \in Bijection(1..Len(s), Members(s))
    BY <1>1 DEF Injective, Members, Bijection, Injection, Surjection, IsInjective
  <1>3. IsFiniteSet(1..Len(s)) /\ Cardinality(1..Len(s)) = Len(s)
    BY <1>1, FS_Interval
  <1> QED
    BY <1>2, <1>3, FS_Bijection DEF ExistsBijection

\* Following the links yields the order: SchedSeq is the queue.
SeqFact ==
    \A s : Lists(env_sched_list, env_status, s) => SchedSeq = s

\* The order read off the links of a well-formed list is the order of the list.
LEMMA SeqIsOrder == SeqFact
  <1> SUFFICES ASSUME NEW s, Lists(env_sched_list, env_status, s) PROVE SchedSeq = s
    BY DEF SeqFact
  <1> DEFINE n == Len(s)
             Follows(f) == f = [k \in 1..n |-> IF k = 1 THEN TAILQ_FIRST(env_sched_list)
                                               ELSE env_sched_list.next[f[k - 1]]]
  <1>1. n \in Nat /\ s \in Seq(Elems) /\ DOMAIN s = 1..n /\ s \in Orders /\ Represents(env_sched_list, s)
    BY OrderIsSeq DEF Lists
  <1>2. Cardinality(Runnable) = n
    BY OrderLength DEF Lists, Runnable, Ready
  <1>3. \A k \in 1..n : s[k] = IF k = 1 THEN TAILQ_FIRST(env_sched_list) ELSE env_sched_list.next[s[k - 1]]
    <2> SUFFICES ASSUME NEW k \in 1..n
                 PROVE  s[k] = IF k = 1 THEN TAILQ_FIRST(env_sched_list) ELSE env_sched_list.next[s[k - 1]]
      OBVIOUS
    <2>1. CASE k = 1
      BY <1>1, <2>1, Ends DEF TAILQ_FIRST
    <2>2. CASE k # 1
      <3>1. k - 1 \in 1..n /\ k - 1 # n /\ (k - 1) + 1 = k
        BY <1>1, <2>2
      <3> QED
        BY <1>1, <2>2, <3>1, Links
    <2> QED
      BY <2>1, <2>2
  <1>4. Follows(s)
    BY <1>1, <1>3
  <1>5. ASSUME NEW f, Follows(f) PROVE f = s
    <2>1. DOMAIN f = 1..n
      BY <1>5
    <2>2. \A k \in 1..n : f[k] = IF k = 1 THEN TAILQ_FIRST(env_sched_list) ELSE env_sched_list.next[f[k - 1]]
      BY <1>5
    <2> HIDE DEF Follows
    <2> DEFINE Bad == { k \in 1..n : f[k] # s[k] }
    <2>3. Bad = {}
      <3> SUFFICES ASSUME Bad # {} PROVE FALSE
        OBVIOUS
      <3>1. Bad \subseteq Nat
        BY <1>1
      <3>2. PICK m \in Bad : \A b \in Bad : m <= b
        BY <3>1, MinIsMember, MinIsLeast
      <3>3. m \in 1..n /\ f[m] # s[m]
        BY <3>2
      <3>4. m # 1
        BY <1>3, <2>2, <3>3
      <3>5. m - 1 \in 1..n /\ m - 1 \notin Bad
        BY <1>1, <3>2, <3>3, <3>4
      <3> QED
        BY <1>3, <2>2, <3>3, <3>4, <3>5
    <2>4. \A k \in 1..n : f[k] = s[k]
      BY <2>3
    <2>5. f = [k \in 1..n |-> f[k]]
      BY <1>5, <2>1 DEF Follows
    <2>6. s = [k \in 1..n |-> s[k]]
      BY <1>1
    <2> QED
      BY <2>4, <2>5, <2>6
  <1>6. s = CHOOSE f : Follows(f)
    BY <1>4, <1>5
  <1>7. PICK g : g = CHOOSE f : Follows(f)
    OBVIOUS
  <1>8. SchedSeq = [k \in 1..n |-> g[k]]
    BY <1>2, <1>7 DEF SchedSeq
  <1>9. g = s
    BY <1>6, <1>7
  <1> HIDE DEF Follows
  <1> QED
    BY <1>1, <1>8, <1>9

\* The same of the next state.
LEMMA SeqIsOrderNext == SeqFact'
  BY SeqIsOrder, PTL

\* A well-formed queue of the runnable envs has an order.
LEMMA HoldsLists == \A q, st : Holds(q, st) <=> \E s : Lists(q, st, s)
  BY DEF Holds, Lists

-----------------------------------------------------------------------------
(***************************************************************************)
(* What the queue operations and schedule do to the order.                 *)
(***************************************************************************)

\* An env that becomes runnable is linked at one end.
LEMMA ListsInsert ==
    ASSUME NEW q, NEW st \in [Envs -> Status], NEW s, Lists(q, st, s),
           NEW e \in Envs, st[e] # ENV_RUNNABLE
    PROVE  /\ Lists(TAILQ_INSERT_TAIL(q, e), [st EXCEPT ![e] = ENV_RUNNABLE], Append(s, e))
           /\ Lists(TAILQ_INSERT_HEAD(q, e), [st EXCEPT ![e] = ENV_RUNNABLE], <<e>> \o s)
           /\ e \notin Members(s)
  <1>1. q \in Queues /\ s \in Orders /\ Represents(q, s) /\ Members(s) = Ready(st)
    BY DEF Lists
  <1>2. e \in Elems /\ e \notin Members(s)
    BY <1>1, ElemsAreEnvs DEF Ready
  <1>3. Ready([st EXCEPT ![e] = ENV_RUNNABLE]) = Members(s) \cup {e}
    BY <1>1 DEF Ready
  <1>4. /\ TAILQ_INSERT_TAIL(q, e) \in Queues /\ Append(s, e) \in Orders
        /\ Represents(TAILQ_INSERT_TAIL(q, e), Append(s, e))
        /\ Members(Append(s, e)) = Members(s) \cup {e}
    BY <1>1, <1>2, InsertTailAppends
  <1>5. /\ TAILQ_INSERT_HEAD(q, e) \in Queues /\ (<<e>> \o s) \in Orders
        /\ Represents(TAILQ_INSERT_HEAD(q, e), (<<e>> \o s))
        /\ Members((<<e>> \o s)) = Members(s) \cup {e}
    BY <1>1, <1>2, InsertHeadPrepends
  <1> QED
    BY <1>2, <1>3, <1>4, <1>5 DEF Lists

\* One that is runnable no more is taken out, wherever it is.
LEMMA ListsRemove ==
    ASSUME NEW q, NEW st \in [Envs -> Status], NEW s, Lists(q, st, s),
           NEW e \in Envs, st[e] = ENV_RUNNABLE, NEW v \in Status \ {ENV_RUNNABLE}
    PROVE  \E k \in 1..Len(s) : /\ s[k] = e
                                /\ Lists(TAILQ_REMOVE(q, e), [st EXCEPT ![e] = v], Without(s, k))
  <1>1. q \in Queues /\ s \in Orders /\ Represents(q, s) /\ Members(s) = Ready(st)
    BY DEF Lists
  <1>2. PICK k \in 1..Len(s) : s[k] = e
    BY <1>1, OrderIsSeq DEF Members, Ready
  <1>3. Ready([st EXCEPT ![e] = v]) = Members(s) \ {e}
    BY <1>1 DEF Ready
  <1>4. /\ TAILQ_REMOVE(q, e) \in Queues /\ Without(s, k) \in Orders
        /\ Represents(TAILQ_REMOVE(q, e), Without(s, k))
        /\ Members(Without(s, k)) = Members(s) \ {e}
    BY <1>1, <1>2, RemoveTakesOut
  <1> QED
    BY <1>2, <1>3, <1>4 DEF Lists

\* The order t is s with e, which could go on, moved to the end.
Rotates(s, e, t) == \E k \in 1..Len(s) : s[k] = e /\ t = Append(Without(s, k), e)

\* The env that has the CPU after a schedule that leaves the order t: its head,
\* or e itself when nobody is runnable.
GoesTo(t, e) == IF t = <<>> THEN curenv' = e ELSE curenv' = t[1]

\* schedule lets e go on, or hands the CPU to the head of the order in which e,
\* if it can still run, has gone to the end.
LEMMA ScheduleMoves ==
    ASSUME NEW q, NEW st \in [Envs -> Status], NEW s, Lists(q, st, s),
           NEW e \in Envs \cup {NULL}, NEW yield \in BOOLEAN,
           e # NULL /\ st[e] # ENV_RUNNABLE => TAILQ_REMOVE(q, e) = q,
           schedule(yield, q, e, st)
    PROVE  \/ e # NULL /\ st[e] = ENV_RUNNABLE /\ env_sched_list' = q /\ curenv' = e
           \/ \E t : /\ Lists(env_sched_list', st, t) /\ GoesTo(t, e)
                     /\ IF e # NULL /\ st[e] = ENV_RUNNABLE THEN Rotates(s, e, t) ELSE t = s
  <1>1. CASE ~yield /\ count > 0 /\ e # NULL /\ st[e] = ENV_RUNNABLE
    BY <1>1 DEF schedule, env_run
  <1>2. CASE ~(~yield /\ count > 0 /\ e # NULL /\ st[e] = ENV_RUNNABLE)
    <2> DEFINE r == Requeue(q, e, st)
    <2>1. PICK t : /\ Lists(r, st, t)
                   /\ IF e # NULL /\ st[e] = ENV_RUNNABLE THEN Rotates(s, e, t) ELSE t = s
      <3>1. CASE e = NULL
        BY <3>1 DEF Requeue
      <3>2. CASE e # NULL /\ st[e] # ENV_RUNNABLE
        BY <3>2 DEF Requeue
      <3>3. CASE e # NULL /\ st[e] = ENV_RUNNABLE
        <4> DEFINE st1 == [st EXCEPT ![e] = ENV_NOT_RUNNABLE]
        <4>1. e \in Envs /\ ENV_NOT_RUNNABLE \in Status \ {ENV_RUNNABLE}
          BY <3>3 DEF Status, ENV_RUNNABLE, ENV_NOT_RUNNABLE
        <4>2. PICK k \in 1..Len(s) : s[k] = e /\ Lists(TAILQ_REMOVE(q, e), st1, Without(s, k))
          BY <3>3, <4>1, ListsRemove
        <4>3. st1 \in [Envs -> Status] /\ st1[e] # ENV_RUNNABLE
          BY <4>1
        <4>4. [st1 EXCEPT ![e] = ENV_RUNNABLE] = st
          BY <3>3, <4>1
        <4> HIDE DEF st1
        <4>5. Lists(TAILQ_INSERT_TAIL(TAILQ_REMOVE(q, e), e), st, Append(Without(s, k), e))
          BY <4>1, <4>2, <4>3, <4>4, ListsInsert
        <4>6. r = TAILQ_INSERT_TAIL(TAILQ_REMOVE(q, e), e)
          BY <3>3 DEF Requeue
        <4> QED
          BY <4>2, <4>5, <4>6, <3>3 DEF Rotates
      <3> QED
        BY <3>1, <3>2, <3>3
    <2>2. env_sched_list' = r
      BY <1>2 DEF schedule
    <2> HIDE DEF r
    <2>3. t \in Orders /\ Represents(r, t) /\ r.trap = "none"
      BY <2>1 DEF Lists, Represents
    <2>4. Len(t) \in Nat /\ (Len(t) = 0 <=> t = <<>>) /\ t \in Seq(Elems)
      BY <2>3, OrderIsSeq
    <2>5. CASE t = <<>>
      <3>1. r.first = NULL
        BY <2>3, <2>4, <2>5, Ends
      <3>2. Panic("no_runnable", e)
        BY <1>2, <2>3, <3>1 DEF schedule, TAILQ_EMPTY, r
      <3> QED
        BY <2>1, <2>2, <2>5, <3>2 DEF Panic, GoesTo
    <2>6. CASE t # <<>>
      <3>1. r.first = t[1] /\ t[1] \in Members(t) /\ t[1] \in Elems
        BY <2>3, <2>4, <2>6, Ends, OrderIsSeq DEF Members
      <3>2. r.first # NULL /\ st[r.first] = ENV_RUNNABLE
        BY <2>1, <3>1, PointerAssumption DEF Lists, Ready
      <3>3. env_run(r.first, e, env_pri[r.first] - 1, st)
        BY <1>2, <2>3, <3>2 DEF schedule, TAILQ_EMPTY, TAILQ_FIRST, r
      <3> QED
        BY <2>1, <2>2, <2>6, <3>1, <3>2, <3>3 DEF env_run, GoesTo
    <2> QED
      BY <2>5, <2>6
  <1> QED
    BY <1>1, <1>2

\* When the env that had the CPU can go on no more, schedule leaves the order
\* alone.
LEMMA StoppedMoves ==
    ASSUME NEW q, NEW st \in [Envs -> Status], NEW s, Lists(q, st, s),
           NEW e \in Envs \cup {NULL},
           e # NULL => st[e] # ENV_RUNNABLE /\ TAILQ_REMOVE(q, e) = q,
           schedule(TRUE, q, e, st)
    PROVE  Lists(env_sched_list', st, s) /\ GoesTo(s, e)
  <1>1. ~(e # NULL /\ st[e] = ENV_RUNNABLE)
    OBVIOUS
  <1>2. \E t : /\ Lists(env_sched_list', st, t) /\ GoesTo(t, e)
               /\ IF e # NULL /\ st[e] = ENV_RUNNABLE THEN Rotates(s, e, t) ELSE t = s
    <2>1. TRUE \in BOOLEAN /\ (e # NULL /\ st[e] # ENV_RUNNABLE => TAILQ_REMOVE(q, e) = q)
      OBVIOUS
    <2>2. \/ e # NULL /\ st[e] = ENV_RUNNABLE /\ env_sched_list' = q /\ curenv' = e
          \/ \E t : /\ Lists(env_sched_list', st, t) /\ GoesTo(t, e)
                    /\ IF e # NULL /\ st[e] = ENV_RUNNABLE THEN Rotates(s, e, t) ELSE t = s
      <3>1. PICK y \in BOOLEAN : y = TRUE
        OBVIOUS
      <3>2. schedule(y, q, e, st)
        BY <3>1
      <3> QED
        BY <2>1, <3>2, ScheduleMoves
    <2> QED
      BY <1>1, <2>2
  <1> QED
    BY <1>1, <1>2

-----------------------------------------------------------------------------
(***************************************************************************)
(* The steps of RunQueue.                                                  *)
(***************************************************************************)

\* A step of RunQueue or a stutter.
AbstractStep == [Abstract!Next]_Abstract!vars

\* Taking the env at place k out of RunQueue's queue leaves the order without
\* its k-th element.
LEMMA DropIsWithout ==
    ASSUME NEW s \in Orders, SchedSeq = s, NEW k \in 1..Len(s)
    PROVE  Abstract!Drop(s[k]) = Without(s, k) /\ ~Abstract!Waiting(s[k])
  <1>1. s \in Seq(Elems) /\ DOMAIN s = 1..Len(s) /\ Injective(s) /\ Len(s) \in Nat
    BY OrderIsSeq
  <1>2. k = CHOOSE i \in DOMAIN s : s[i] = s[k]
    BY <1>1 DEF Injective
  <1>3. Without(s, k) = SubSeq(s, 1, k - 1) \o SubSeq(s, k + 1, Len(s))
    <2> DEFINE n == Len(s)
               a == SubSeq(s, 1, k - 1)
               b == SubSeq(s, k + 1, n)
    <2>1. n \in Nat /\ k \in 1..n /\ \A i \in 1..n : s[i] \in Elems
      BY <1>1
    <2>2. a \in Seq(Elems) /\ Len(a) = k - 1 /\ \A i \in 1..(k - 1) : a[i] = s[i]
      <3>1. 1 \in Int /\ k - 1 \in Int /\ \A i \in 1..(k - 1) : s[i] \in Elems
        BY <2>1
      <3> HIDE DEF n
      <3>2. /\ SubSeq(s, 1, k - 1) \in Seq(Elems)
            /\ Len(SubSeq(s, 1, k - 1)) = IF 1 <= k - 1 THEN (k - 1) - 1 + 1 ELSE 0
            /\ \A i \in 1..((k - 1) - 1 + 1) : SubSeq(s, 1, k - 1)[i] = s[1 + i - 1]
        BY <3>1, SubSeqProperties
      <3> QED
        BY <3>2, <2>1
    <2>3. b \in Seq(Elems) /\ Len(b) = n - k /\ \A i \in 1..(n - k) : b[i] = s[i + k]
      <3>1. k + 1 \in Int /\ n \in Int /\ \A i \in (k + 1)..n : s[i] \in Elems
        BY <2>1
      <3> HIDE DEF n
      <3>2. /\ SubSeq(s, k + 1, n) \in Seq(Elems)
            /\ Len(SubSeq(s, k + 1, n)) = IF k + 1 <= n THEN n - (k + 1) + 1 ELSE 0
            /\ \A i \in 1..(n - (k + 1) + 1) : SubSeq(s, k + 1, n)[i] = s[(k + 1) + i - 1]
        BY <3>1, SubSeqProperties
      <3> QED
        BY <3>2, <2>1
    <2> HIDE DEF a, b, n
    <2>4. /\ a \o b \in Seq(Elems) /\ Len(a \o b) = n - 1
          /\ \A i \in 1..(n - 1) : (a \o b)[i] = IF i < k THEN s[i] ELSE s[i + 1]
      <3>1. /\ a \o b \in Seq(Elems)
            /\ Len(a \o b) = Len(a) + Len(b)
            /\ \A i \in 1..(Len(a) + Len(b)) : (a \o b)[i] = IF i <= Len(a) THEN a[i] ELSE b[i - Len(a)]
        BY <2>2, <2>3, ConcatProperties
      <3>2. Len(a) + Len(b) = n - 1
        BY <2>1, <2>2, <2>3
      <3>3. ASSUME NEW i \in 1..(n - 1)
            PROVE  (a \o b)[i] = IF i < k THEN s[i] ELSE s[i + 1]
        <4>1. CASE i < k
          BY <3>1, <3>2, <4>1, <2>1, <2>2
        <4>2. CASE ~(i < k)
          <5>1. i - (k - 1) \in 1..(n - k) /\ (i - (k - 1)) + k = i + 1
            BY <4>2, <2>1
          <5>2. (a \o b)[i] = b[i - (k - 1)]
            BY <3>1, <3>2, <4>2, <2>1, <2>2
          <5> QED
            BY <4>2, <5>1, <5>2, <2>3
        <4> QED
          BY <4>1, <4>2
      <3> QED
        BY <3>1, <3>2, <3>3
    <2>5. a \o b = [i \in 1..(n - 1) |-> (a \o b)[i]]
      <3>1. PICK c : c = a \o b
        OBVIOUS
      <3>2. c \in Seq(Elems) /\ Len(c) = n - 1
        BY <3>1, <2>4
      <3>3. c = [i \in 1..Len(c) |-> c[i]]
        BY <3>2
      <3> QED
        BY <3>1, <3>2, <3>3
    <2>6. a \o b = [i \in 1..(n - 1) |-> IF i < k THEN s[i] ELSE s[i + 1]]
      BY <2>4, <2>5
    <2> QED
      BY <2>6 DEF Without, a, b, n
  <1> QED
    BY <1>1, <1>2, <1>3 DEF Abstract!Drop, Abstract!Waiting

\* An order that lost an element and got another one at its end is not empty.
LEMMA WithoutEnds ==
    ASSUME NEW s \in Orders, NEW k \in 1..Len(s), NEW e \in Elems
    PROVE  Without(s, k) \in Seq(Elems) /\ Append(Without(s, k), e) # <<>>
  BY OrderIsSeq DEF Without

\* The running env goes to the end.
LEMMA ToRotate ==
    ASSUME NEW s \in Orders, SchedSeq = s, curenv \in Elems, NEW t, Rotates(s, curenv, t),
           SchedSeq' = t, GoesTo(t, curenv)
    PROVE  AbstractStep
  <1>1. PICK k \in 1..Len(s) : s[k] = curenv /\ t = Append(Without(s, k), curenv)
    BY DEF Rotates
  <1>2. t # <<>> /\ t[1] = Head(t)
    BY <1>1, WithoutEnds
  <1>3. Abstract!Drop(curenv) = Without(s, k) /\ ~Abstract!Waiting(curenv)
    BY <1>1, DropIsWithout
  <1>4. Abstract!Rotate
    BY <1>1, <1>2, <1>3, PointerAssumption DEF Abstract!Rotate, Abstract!Dispatch, GoesTo
  <1> QED
    BY <1>4 DEF AbstractStep, Abstract!Next

\* The running env blocks or ends.
LEMMA ToStop ==
    ASSUME NEW s \in Orders, SchedSeq = s, curenv \in Elems, NEW k \in 1..Len(s), s[k] = curenv,
           NEW t, t = Without(s, k), SchedSeq' = t, NEW prev \in {curenv, NULL}, GoesTo(t, prev)
    PROVE  AbstractStep
  <1>1. t # <<>> => t[1] = Head(t)
    BY WithoutEnds
  <1>2. Abstract!Drop(curenv) = Without(s, k) /\ ~Abstract!Waiting(curenv)
    BY DropIsWithout
  <1>3. Abstract!Stop
    BY <1>1, <1>2, PointerAssumption DEF Abstract!Stop, Abstract!Dispatch, GoesTo
  <1> QED
    BY <1>3 DEF AbstractStep, Abstract!Next

\* Another env stops being able to run.
LEMMA ToSuspend ==
    ASSUME NEW s \in Orders, SchedSeq = s, NEW k \in 1..Len(s), s[k] # curenv,
           SchedSeq' = Without(s, k), curenv' = curenv, s[k] \in Envs
    PROVE  AbstractStep
  BY DropIsWithout DEF AbstractStep, Abstract!Next, Abstract!Suspend

\* Another env becomes able to run: behind all others, or, at boot, before them.
LEMMA ToWake ==
    ASSUME NEW s \in Orders, SchedSeq = s, NEW e \in Envs, e \notin Members(s), curenv' = curenv,
           \/ curenv # NULL /\ SchedSeq' = Append(s, e)
           \/ curenv = NULL /\ SchedSeq' = <<e>> \o s
    PROVE  AbstractStep
  <1>1. Abstract!Waiting(e)
    BY DEF Abstract!Waiting, Members
  <1> QED
    BY <1>1 DEF AbstractStep, Abstract!Next, Abstract!Wake, Abstract!Boot

\* The first env is started.
LEMMA ToStart ==
    ASSUME NEW s \in Orders, SchedSeq = s, curenv = NULL, SchedSeq' = s, GoesTo(s, NULL)
    PROVE  AbstractStep
  <1>1. CASE s = <<>>
    BY <1>1 DEF AbstractStep, Abstract!vars, GoesTo
  <1>2. CASE s # <<>>
    <2>1. s[1] = Head(s)
      BY <1>2, OrderIsSeq
    <2> QED
      BY <1>2, <2>1 DEF AbstractStep, Abstract!Next, Abstract!Start, Abstract!Dispatch, GoesTo
  <1> QED
    BY <1>1, <1>2
-----------------------------------------------------------------------------
(***************************************************************************)
(* The handlers.                                                           *)
(***************************************************************************)

\* mips_init creates its envs before it runs one.
BootFirst == created < Len(BootPri) => curenv = NULL
\* What the refinement is proved from.
RInv == IInv /\ BootFirst

\* A step that leaves list and runnable envs alone.
LEMMA Stutters ==
    ASSUME UNCHANGED <<Ready(env_status), env_sched_list, curenv>>
    PROVE  AbstractStep
  <1>1. Runnable' = Runnable
    BY DEF Ready, Runnable
  <1>2. SchedSeq' = SchedSeq
    BY <1>1 DEF SchedSeq
  <1> QED
    BY <1>2 DEF AbstractStep, Abstract!vars

\* schedule on the list as it is.
LEMMA PlainMoves ==
    ASSUME SchedInv, TableInv, panic = "none", NEW yield \in BOOLEAN,
           schedule(yield, env_sched_list, curenv, env_status), UNCHANGED env_status
    PROVE  AbstractStep
  <1>1. PICK s : Lists(env_sched_list, env_status, s)
    BY HoldsLists DEF SchedInv
  <1>2. s \in Orders /\ SchedSeq = s
    BY <1>1, SeqIsOrder DEF SeqFact, Lists
  <1>3. curenv \in Envs \cup {NULL} /\ (curenv # NULL => env_status[curenv] = ENV_RUNNABLE)
        /\ env_status \in [Envs -> Status]
    BY DEF SchedInv, CurenvRunnable, UserMode, Running, TableInv, TableType
  <1>4. CASE env_sched_list' = env_sched_list /\ curenv' = curenv
    BY <1>4, Stutters
  <1>5. ASSUME NEW t, Lists(env_sched_list', env_status, t), GoesTo(t, curenv),
               IF curenv # NULL /\ env_status[curenv] = ENV_RUNNABLE THEN Rotates(s, curenv, t) ELSE t = s
        PROVE  AbstractStep
    <2>1. SchedSeq' = t
      BY <1>5, SeqIsOrderNext DEF SeqFact
    <2>2. CASE curenv = NULL
      BY <1>2, <1>5, <2>1, <2>2, ToStart
    <2>3. CASE curenv # NULL
      BY <1>2, <1>3, <1>5, <2>1, <2>3, ElemsAreEnvs, ToRotate
    <2> QED
      BY <2>2, <2>3
  <1> QED
    BY <1>1, <1>3, <1>4, <1>5, ScheduleMoves

\* Every handler of the kernel is a step of RunQueue, or none: timer, yield,
\* fork, kill, suspension, receive, send and boot move at most one env in the
\* queue and give the CPU to nobody but its head.
THEOREM NextRefines == RInv /\ RInv' /\ [Next]_vars => AbstractStep
  <1> SUFFICES ASSUME SchedInv, TableInv, BootFirst, [Next]_vars PROVE AbstractStep
    BY IInvHalves DEF RInv
  <1> USE DEF ENV_FREE, ENV_RUNNABLE, ENV_NOT_RUNNABLE
  <1>t. TableType
    BY DEF TableInv
  <1>s. /\ curenv \in Envs \cup {NULL}
        /\ UserMode => curenv \in Envs /\ curenv # NULL /\ env_status[curenv] = ENV_RUNNABLE
        /\ env_status \in [Envs -> Status]
    BY <1>t DEF SchedInv, CurenvRunnable, UserMode, Running, TableType
  <1>o. PICK s : Lists(env_sched_list, env_status, s)
    BY HoldsLists DEF SchedInv
  <1>q. s \in Orders /\ SchedSeq = s /\ Represents(env_sched_list, s) /\ env_sched_list.trap = "none"
    BY <1>o, SeqIsOrder DEF SeqFact, Lists, Represents
  <1>1. CASE MipsInitCreate
    <2>1. PICK e \in Envs :
             /\ env_alloc(e, NoParent)
             /\ env_status' = [env_status EXCEPT ![e] = ENV_RUNNABLE]
             /\ env_sched_list' = TAILQ_INSERT_HEAD(env_sched_list, e)
             /\ curenv' = curenv
      BY <1>1 DEF MipsInitCreate, env_create
    <2>2. curenv = NULL
      BY <1>1 DEF MipsInitCreate, BootFirst
    <2>3. env_status[e] = ENV_FREE
      BY <2>1, <1>t, PopFree DEF env_alloc, TableInv, FreeListExact, TableType, Members, Injective
    <2>4. Lists(env_sched_list', env_status', <<e>> \o s) /\ e \notin Members(s)
      BY <2>1, <2>3, <1>s, <1>o, ListsInsert
    <2>5. SchedSeq' = <<e>> \o s
      BY <2>4, SeqIsOrderNext DEF SeqFact
    <2> QED
      BY <2>1, <2>2, <2>4, <2>5, <1>q, ToWake
  <1>2. CASE MipsInitSchedule
    BY <1>2, PlainMoves DEF MipsInitSchedule
  <1>3. CASE handle_int
    BY <1>3, PlainMoves DEF handle_int, UserMode, Running
  <1>4. CASE sys_yield
    BY <1>4, PlainMoves DEF sys_yield, UserMode, Running
  <1>5. CASE sys_exofork
    <2>1. UNCHANGED cpu
      BY <1>5 DEF sys_exofork
    <2>2. PICK e \in Envs : /\ env_alloc(e, env_id[curenv])
                            /\ env_status' = [env_status EXCEPT ![e] = ENV_NOT_RUNNABLE]
      BY <1>5 DEF sys_exofork
    <2>3. env_status[e] = ENV_FREE
      BY <2>2, <1>t, PopFree DEF env_alloc, TableInv, FreeListExact, TableType, Members, Injective
    <2>4. Ready(env_status') = Ready(env_status)
      BY <2>2, <2>3, <1>s DEF Ready
    <2> QED
      BY <2>1, <2>4, Stutters DEF cpu
  <1>6. CASE sys_exofork_no_asid
    BY <1>6, Stutters DEF sys_exofork_no_asid, cpu
  <1>7. CASE Destroy
    <2>1. PICK id \in EnvIds : DestroysLinked(id) /\ sys_env_destroy(id)
      BY <1>7 DEF Destroy
    <2> DEFINE e == ENVX(id)
               q == TAILQ_REMOVE(env_sched_list, e)
    <2>2. UserMode /\ e \in Envs /\ env_status[e] = ENV_RUNNABLE /\ env_destroy(e)
      BY <2>1, LookupLive DEF sys_env_destroy, DestroysLinked
    <2>3. env_status' = [env_status EXCEPT ![e] = ENV_FREE]
      BY <2>2 DEF env_destroy, env_free
    <2>4. PICK k \in 1..Len(s) : s[k] = e /\ Lists(q, env_status', Without(s, k))
      <3>1. ENV_FREE \in Status \ {ENV_RUNNABLE}
        BY DEF Status
      <3> QED
        BY <3>1, <2>2, <2>3, <1>s, <1>o, ListsRemove
    <2>5. q.trap = "none" /\ env_status' \in [Envs -> Status]
      BY <2>3, <2>4, <1>s DEF Lists, Represents, Status
    <2>6. CASE curenv = e
      <3>1. schedule(TRUE, q, NULL, env_status')
        BY <2>2, <2>3, <2>5, <2>6 DEF env_destroy
      <3> HIDE DEF q
      <3>2. PICK st : st = env_status'
        OBVIOUS
      <3>3. PICK t : t = Without(s, k)
        OBVIOUS
      <3>4. Lists(q, st, t) /\ st \in [Envs -> Status] /\ schedule(TRUE, q, NULL, st)
        BY <3>1, <3>2, <3>3, <2>4, <2>5
      <3>5. Lists(env_sched_list', st, t) /\ GoesTo(t, NULL)
        BY <3>4, StoppedMoves
      <3>6. SchedSeq' = t
        BY <3>2, <3>5, SeqIsOrderNext DEF SeqFact
      <3> QED
        BY <3>3, <3>5, <3>6, <2>2, <2>4, <2>6, <1>q, ElemsAreEnvs, ToStop
    <2>7. CASE curenv # e
      <3>1. Return(q)
        BY <2>2, <2>7 DEF env_destroy
      <3>2. SchedSeq' = Without(s, k) /\ curenv' = curenv
        BY <3>1, <2>4, SeqIsOrderNext DEF SeqFact, Return
      <3> QED
        BY <3>2, <2>2, <2>4, <2>7, <1>q, ToSuspend
    <2> QED
      BY <2>6, <2>7
  <1>8. CASE SetStatus
    <2>1. PICK id \in EnvIds, v \in {ENV_RUNNABLE, ENV_NOT_RUNNABLE} : sys_set_env_status(id, v)
      BY <1>8 DEF SetStatus
    <2> DEFINE e == ENVX(id)
               old == env_status[e]
               q == CASE v = ENV_NOT_RUNNABLE /\ old # v -> TAILQ_REMOVE(env_sched_list, e)
                      [] v = ENV_RUNNABLE /\ old # v -> TAILQ_INSERT_TAIL(env_sched_list, e)
                      [] OTHER -> env_sched_list
    <2>2. /\ UserMode /\ e \in Envs /\ old # ENV_FREE
          /\ env_status' = [env_status EXCEPT ![e] = v]
          /\ IF e = curenv /\ q.trap = "none" THEN schedule(TRUE, q, curenv, env_status')
                                              ELSE Return(q)
      BY <2>1, LookupLive DEF sys_set_env_status
    <2>3. old \in {ENV_RUNNABLE, ENV_NOT_RUNNABLE} /\ env_status' \in [Envs -> Status]
      BY <2>2, <1>s DEF Status
    <2>4. CASE old = v
      <3>1. q = env_sched_list /\ env_status' = env_status
        BY <2>2, <2>4, <1>s
      <3> HIDE DEF q
      <3>2. CASE e = curenv
        BY <3>1, <3>2, <2>2, <1>q, PlainMoves DEF UserMode, Running
      <3>3. CASE e # curenv
        BY <3>1, <3>3, <2>2, Stutters DEF Return
      <3> QED
        BY <3>2, <3>3
    <2>5. CASE old # v /\ v = ENV_RUNNABLE
      <3>1. q = TAILQ_INSERT_TAIL(env_sched_list, e) /\ e # curenv
        BY <2>2, <2>5, <1>s
      <3> HIDE DEF q
      <3>2. Lists(q, env_status', Append(s, e)) /\ e \notin Members(s)
        BY <3>1, <2>2, <2>5, <1>s, <1>o, ListsInsert
      <3>3. SchedSeq' = Append(s, e) /\ curenv' = curenv
        BY <3>1, <3>2, <2>2, SeqIsOrderNext DEF SeqFact, Return
      <3> QED
        BY <3>2, <3>3, <2>2, <1>q, <1>s, ToWake
    <2>6. CASE old # v /\ v = ENV_NOT_RUNNABLE
      <3>1. q = TAILQ_REMOVE(env_sched_list, e) /\ old = ENV_RUNNABLE /\ v \in Status \ {ENV_RUNNABLE}
        BY <2>3, <2>6 DEF Status
      <3> HIDE DEF q
      <3>2. PICK k \in 1..Len(s) : s[k] = e /\ Lists(q, env_status', Without(s, k))
        BY <3>1, <2>2, <1>s, <1>o, ListsRemove
      <3>3. TAILQ_REMOVE(q, e) = q /\ q.trap = "none"
        <4>1. env_sched_list \in Queues /\ Represents(env_sched_list, s)
          BY <1>o DEF Lists
        <4>2. TAILQ_REMOVE(TAILQ_REMOVE(env_sched_list, s[k]), s[k]) = TAILQ_REMOVE(env_sched_list, s[k])
          BY <4>1, <1>q, RemoveTwice
        <4>3. TAILQ_REMOVE(q, s[k]) = q
          BY <4>2, <3>1, <3>2
        <4> QED
          BY <4>3, <3>2 DEF Lists, Represents
      <3>4. CASE e = curenv
        <4>1. schedule(TRUE, q, curenv, env_status')
          BY <2>2, <3>3, <3>4
        <4>2. PICK st : st = env_status'
          OBVIOUS
        <4>3. st[curenv] # ENV_RUNNABLE /\ curenv # NULL
          BY <4>2, <2>2, <2>6, <3>4, <1>s
        <4>4. PICK t : t = Without(s, k)
          OBVIOUS
        <4>5. /\ Lists(q, st, t) /\ st \in [Envs -> Status] /\ schedule(TRUE, q, curenv, st)
              /\ curenv \in Envs /\ TAILQ_REMOVE(q, curenv) = q
          BY <4>1, <4>2, <4>4, <3>2, <3>3, <3>4, <2>2, <2>3
        <4>6. Lists(env_sched_list', st, t) /\ GoesTo(t, curenv)
          BY <4>3, <4>5, StoppedMoves
        <4>7. SchedSeq' = t
          BY <4>2, <4>6, SeqIsOrderNext DEF SeqFact
        <4> QED
          BY <4>4, <4>6, <4>7, <3>2, <3>4, <2>2, <1>q, ElemsAreEnvs, ToStop
      <3>5. CASE e # curenv
        <4>1. SchedSeq' = Without(s, k) /\ curenv' = curenv
          BY <3>2, <3>5, <2>2, SeqIsOrderNext DEF SeqFact, Return
        <4> QED
          BY <4>1, <3>2, <3>5, <2>2, <1>q, ToSuspend
      <3> QED
        BY <3>4, <3>5
    <2> QED
      BY <2>4, <2>5, <2>6
  <1>9. CASE sys_ipc_recv
    <2> DEFINE q == TAILQ_REMOVE(env_sched_list, curenv)
    <2>1. /\ UserMode
          /\ env_status' = [env_status EXCEPT ![curenv] = ENV_NOT_RUNNABLE]
          /\ IF q.trap = "none" THEN schedule(TRUE, q, curenv, env_status') ELSE Return(q)
      BY <1>9 DEF sys_ipc_recv
    <2>2. ENV_NOT_RUNNABLE \in Status \ {ENV_RUNNABLE}
      BY DEF Status
    <2>3. PICK k \in 1..Len(s) : s[k] = curenv /\ Lists(q, env_status', Without(s, k))
      BY <2>1, <2>2, <1>s, <1>o, ListsRemove
    <2>4. TAILQ_REMOVE(q, curenv) = q /\ q.trap = "none"
      BY <2>3, <1>o, <1>q, RemoveTwice DEF Lists, Represents
    <2> HIDE DEF q
    <2>5. PICK st : st = env_status'
      OBVIOUS
    <2>6. st[curenv] # ENV_RUNNABLE /\ st \in [Envs -> Status]
      BY <2>1, <2>2, <2>5, <1>s
    <2>7. PICK t : t = Without(s, k)
      OBVIOUS
    <2>8. /\ Lists(q, st, t) /\ schedule(TRUE, q, curenv, st)
          /\ curenv \in Envs /\ TAILQ_REMOVE(q, curenv) = q
      BY <2>1, <2>3, <2>4, <2>5, <2>7, <1>s
    <2>9. Lists(env_sched_list', st, t) /\ GoesTo(t, curenv)
      BY <2>6, <2>8, StoppedMoves
    <2>10. SchedSeq' = t
      BY <2>5, <2>9, SeqIsOrderNext DEF SeqFact
    <2> QED
      BY <2>1, <2>3, <2>7, <2>9, <2>10, <1>q, <1>s, ElemsAreEnvs, ToStop
  <1>10. CASE TrySend
    <2>1. PICK id \in EnvIds : sys_ipc_try_send(id)
      BY <1>10 DEF TrySend
    <2> DEFINE e == ENVX(id)
               q == TAILQ_INSERT_TAIL(env_sched_list, e)
    <2>2. /\ UserMode /\ e \in Envs /\ env_ipc_recving[e]
          /\ env_status' = [env_status EXCEPT ![e] = ENV_RUNNABLE]
          /\ Return(q)
      BY <2>1, LookupLive DEF sys_ipc_try_send
    <2>3. env_status[e] = ENV_NOT_RUNNABLE
      BY <2>2 DEF TableInv, ReceiverBlocked
    <2>4. Lists(q, env_status', Append(s, e)) /\ e \notin Members(s)
      BY <2>2, <2>3, <1>s, <1>o, ListsInsert
    <2>5. SchedSeq' = Append(s, e) /\ curenv' = curenv
      BY <2>2, <2>4, SeqIsOrderNext DEF SeqFact, Return
    <2> QED
      BY <2>2, <2>4, <2>5, <1>q, <1>s, ToWake
  <1>11. CASE sys_cgetc \/ scancharc
    BY <1>11, Stutters DEF sys_cgetc, scancharc, cpu
  <1>12. CASE UNCHANGED vars
    BY <1>12, Stutters DEF vars, cpu
  <1> QED
    BY <1>1, <1>2, <1>3, <1>4, <1>5, <1>6, <1>7, <1>8, <1>9, <1>10, <1>11, <1>12 DEF Next

-----------------------------------------------------------------------------
\* Envs are created by the boot code only while nothing runs.
LEMMA NextBootFirst == IInv /\ BootFirst /\ [Next]_vars => BootFirst'
  <1> SUFFICES ASSUME IInv, BootFirst, [Next]_vars PROVE BootFirst'
    OBVIOUS
  <1>1. created \in 0..Len(BootPri) /\ Len(BootPri) \in Nat
    BY EnvAssumption DEF IInv, TypeOK
  <1>2. CASE MipsInitCreate
    BY <1>1, <1>2 DEF MipsInitCreate, env_create, BootFirst
  <1>3. CASE created' = created /\ created = Len(BootPri)
    BY <1>1, <1>3 DEF BootFirst
  <1>4. Running => created = Len(BootPri)
    BY <1>1 DEF UserMode, Running, BootFirst
  <1>5. CASE Next /\ ~MipsInitCreate
    BY <1>3, <1>4, <1>5 DEF Next, MipsInitSchedule, handle_int, sys_yield, sys_exofork,
       sys_exofork_no_asid, Destroy, sys_env_destroy, SetStatus, sys_set_env_status, sys_ipc_recv,
       TrySend, sys_ipc_try_send, sys_cgetc, scancharc, UserMode
  <1>6. CASE UNCHANGED vars
    BY <1>6 DEF vars, cpu, BootFirst
  <1> QED
    BY <1>2, <1>5, <1>6

\* Before boot the queue is empty and nothing runs.
LEMMA InitRefines == Init => Abstract!Init /\ BootFirst
  <1> SUFFICES ASSUME Init PROVE Abstract!Init /\ BootFirst
    OBVIOUS
  <1>1. Runnable = {}
    BY DEF Init, Runnable, ENV_FREE, ENV_RUNNABLE
  <1>2. Cardinality(Runnable) = 0
    BY <1>1, FS_EmptySet
  <1>3. SchedSeq = <<>>
    BY <1>2 DEF SchedSeq
  <1> QED
    BY <1>3 DEF Init, Abstract!Init, BootFirst

\* Round robin, for any number of envs: whatever fork, exit, IPC, suspension
\* and preemption do to the links of env_sched_list, the CPU goes to the head
\* of one FIFO of the runnable envs.
THEOREM RefinesRunQueue == Spec => ImplementsRunQueue
  <1>1. Init => RInv
    BY InitIInv, InitRefines DEF RInv
  <1>2. RInv /\ [Next]_vars => RInv'
    BY NextIInv, NextBootFirst DEF RInv
  <1>3. RInv /\ RInv' /\ [Next]_vars => [Abstract!Next]_Abstract!vars
    BY NextRefines DEF AbstractStep
  <1>4. Init => Abstract!Init
    BY InitRefines
  <1> QED
    BY <1>1, <1>2, <1>3, <1>4, PTL DEF Spec, ImplementsRunQueue, Abstract!Spec

=============================================================================
