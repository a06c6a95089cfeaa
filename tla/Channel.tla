------------------------------ MODULE Channel ------------------------------
(***************************************************************************)
(* What a pipe promises: a FIFO of bounded capacity.  The k-th byte sent   *)
(* is k.                                                                   *)
(***************************************************************************)
EXTENDS Integers, Sequences

CONSTANT Capacity

VARIABLES in,    \* number of bytes sent
          out,   \* the bytes received
          chan   \* the bytes on their way, oldest first

Init == in = 0 /\ out = <<>> /\ chan = <<>>

Send == /\ Len(chan) < Capacity
        /\ in' = in + 1
        /\ chan' = Append(chan, in + 1)
        /\ UNCHANGED out

Receive == /\ chan # <<>>
           /\ out' = Append(out, Head(chan))
           /\ chan' = Tail(chan)
           /\ UNCHANGED in

Spec == Init /\ [][Send \/ Receive]_<<in, out, chan>>
=============================================================================
