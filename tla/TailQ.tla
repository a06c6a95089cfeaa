------------------------------- MODULE TailQ -------------------------------
(***************************************************************************)
(* The intrusive tail queue of include/queue.h, at the level of its        *)
(* pointers.  An element that is removed keeps its old links, as in C, and *)
(* nothing stops a caller from removing an element that is not linked or   *)
(* from inserting one twice: what such a call does to the links is what    *)
(* this module says it does.                                               *)
(*                                                                         *)
(* A queue is a record:                                                    *)
(*   first  tqh_first                                                      *)
(*   last   tqh_last, the address of a next field                          *)
(*   next   tqe_next of every element                                      *)
(*   prev   tqe_prev of every element, the address of a next field         *)
(*   trap   "null_store" once a store went through a null pointer          *)
(* The address of e's tqe_next is written e, that of tqh_first Anchor.     *)
(***************************************************************************)
EXTENDS Naturals, Sequences, FiniteSets

CONSTANTS Elems,   \* the elements that have a link field
          NULL,    \* the null pointer
          Anchor   \* the address of tqh_first

ASSUME PointerAssumption ==
    /\ IsFiniteSet(Elems)
    /\ NULL \notin Elems /\ Anchor \notin Elems /\ NULL # Anchor

FieldAddr == Elems \cup {Anchor}

Queues == [first : Elems \cup {NULL},
           last  : FieldAddr \cup {NULL},
           next  : [Elems -> Elems \cup {NULL}],
           prev  : [Elems -> FieldAddr \cup {NULL}],
           trap  : {"none", "null_store"}]

\* A statically allocated queue after TAILQ_INIT: the elements are in .bss.
TAILQ_INIT == [first |-> NULL, last |-> Anchor,
               next  |-> [e \in Elems |-> NULL],
               prev  |-> [e \in Elems |-> NULL],
               trap  |-> "none"]

\* The fields of a queue after the store *p = v.
FirstAfter(q, p, v) == IF p = Anchor THEN v ELSE q.first
TrapAfter(q, p) == IF p = NULL THEN "null_store" ELSE q.trap

TAILQ_INSERT_HEAD(q, e) ==
    LET old == q.first
    IN  [first |-> e,
         last  |-> IF old = NULL THEN e ELSE q.last,
         next  |-> [q.next EXCEPT ![e] = old],
         prev  |-> [x \in Elems |-> CASE x = e -> Anchor
                                      [] x # e /\ x = old -> e
                                      [] OTHER -> q.prev[x]],
         trap  |-> q.trap]

\* The store through tqh_last comes after the one to e's own next field.
TAILQ_INSERT_TAIL(q, e) ==
    LET p == q.last
    IN  [first |-> FirstAfter(q, p, e),
         last  |-> e,
         next  |-> [x \in Elems |-> CASE x = p -> e
                                      [] x # p /\ x = e -> NULL
                                      [] OTHER -> q.next[x]],
         prev  |-> [q.prev EXCEPT ![e] = p],
         trap  |-> TrapAfter(q, p)]

TAILQ_REMOVE(q, e) ==
    LET n == q.next[e]
        p == q.prev[e]
    IN  [first |-> FirstAfter(q, p, n),
         last  |-> IF n = NULL THEN p ELSE q.last,
         next  |-> [x \in Elems |-> IF x = p THEN n ELSE q.next[x]],
         prev  |-> [x \in Elems |-> IF x = n THEN p ELSE q.prev[x]],
         trap  |-> TrapAfter(q, p)]

TAILQ_EMPTY(q) == q.first = NULL

TAILQ_FIRST(q) == q.first

-----------------------------------------------------------------------------
\* What the pointers stand for.

\* The sequences without repetition over Elems.
Orders == { s \in UNION { [1..n -> Elems] : n \in 0..Cardinality(Elems) } :
              \A i, j \in DOMAIN s : s[i] = s[j] => i = j }

\* The links of q are those of the queue whose elements are s, in that order.
Represents(q, s) ==
    /\ q.trap = "none"
    /\ q.first = IF Len(s) = 0 THEN NULL ELSE s[1]
    /\ q.last = IF Len(s) = 0 THEN Anchor ELSE s[Len(s)]
    /\ \A i \in 1..Len(s) :
          /\ q.next[s[i]] = IF i = Len(s) THEN NULL ELSE s[i + 1]
          /\ q.prev[s[i]] = IF i = 1 THEN Anchor ELSE s[i - 1]

\* The set of elements of a sequence.
Members(s) == { s[i] : i \in DOMAIN s }

\* s without its k-th element.
Without(s, k) == [i \in 1..(Len(s) - 1) |-> IF i < k THEN s[i] ELSE s[i + 1]]
=============================================================================
