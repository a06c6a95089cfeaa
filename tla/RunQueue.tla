------------------------------ MODULE RunQueue ------------------------------
(***************************************************************************)
(* What the scheduler promises: a FIFO of the envs that can run, one of    *)
(* which has the CPU.  A step lets the running env go on, hands the CPU to *)
(* the head of the queue, or moves one env in or out of the queue.         *)
(***************************************************************************)
EXTENDS Integers, Sequences

CONSTANTS Envs, Idle

VARIABLES runq,     \* the envs that can run, in the order they get the CPU
          running   \* the env that has the CPU, or Idle

vars == <<runq, running>>

Waiting(e) == \A i \in DOMAIN runq : runq[i] # e
Drop(e) == LET k == CHOOSE i \in DOMAIN runq : runq[i] = e
           IN  SubSeq(runq, 1, k - 1) \o SubSeq(runq, k + 1, Len(runq))

\* The CPU goes to the head of q; with an empty q nothing runs any more.
Dispatch(q) ==
    /\ runq' = q
    /\ IF q = <<>> THEN UNCHANGED running \/ running' = Idle ELSE running' = Head(q)

Init == runq = <<>> /\ running = Idle

\* Before anything runs, envs are put in front of each other.
Boot(e) == running = Idle /\ Waiting(e) /\ runq' = <<e>> \o runq /\ UNCHANGED running

Start == running = Idle /\ runq # <<>> /\ Dispatch(runq)

\* The running env gives up the CPU and goes to the end.
Rotate == running # Idle /\ ~Waiting(running) /\ Dispatch(Append(Drop(running), running))

\* The running env blocks or ends.
Stop == running # Idle /\ ~Waiting(running) /\ Dispatch(Drop(running))

\* Another env becomes able to run, or stops being able to.
Wake(e) == running # Idle /\ Waiting(e) /\ runq' = Append(runq, e) /\ UNCHANGED running
Suspend(e) == e # running /\ ~Waiting(e) /\ runq' = Drop(e) /\ UNCHANGED running

Next == \/ Start \/ Rotate \/ Stop
        \/ \E e \in Envs : Boot(e) \/ Wake(e) \/ Suspend(e)

Spec == Init /\ [][Next]_vars
=============================================================================
