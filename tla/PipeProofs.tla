------------------------------ MODULE PipeProofs ------------------------------
(***************************************************************************)
(* The test for a closed pipe and the FIFO in the ring: NoFalseClosed and  *)
(* ImplementsChannel of Pipe, for every number of envs and descriptors and *)
(* every size of the ring.                                                 *)
(***************************************************************************)
EXTENDS Pipe, MinLemmas, FiniteSetTheorems, SequenceTheorems, TLAPS

Ends == {"r", "w"}
Testing == {"runs", "fd_ref", "pipe_ref", "compare"}
Reading == {"read", "rfirst", "rsecond"}
Writing == {"write", "wfirst", "wsecond"}
Points == {"unborn", "embryo", "dead", "user", "yield", "close_fd", "close_data", "dup", "dup_fd", "fork"}
            \cup Testing \cup Reading \cup Writing
LocRec == [op : {"none", "read", "write", "poll", "close", "dup", "fork"}, fd : Fds, n : Nat, i : Nat,
           fd_ref : Nat, pipe_ref : Nat, aux : Nat, order : {"byte_first", "pos_first"}]

TypeOK ==
    /\ fdpage \in [Envs -> [Fds -> {"none"} \cup Ends]]
    /\ data \in [Envs -> SUBSET Fds]
    /\ p_rpos \in 0..(WORD - 1) /\ p_wpos \in 0..(WORD - 1)
    /\ p_buf \in [0..(PIPE_SIZE - 1) -> Nat]
    /\ pc \in [Envs -> Points]
    /\ loc \in [Envs -> LocRec]
    /\ cur \in Envs
    /\ rerun \in [Envs -> BOOLEAN]
    /\ sent \in Nat
    /\ got \in Seq(Nat)

\* The call that an env is in, at each of its points.
CallOf(point) ==
    CASE point \in Testing                   -> {"read", "write", "poll"}
      [] point \in Reading                   -> {"read"}
      [] point \in Writing                   -> {"write"}
      [] point = "yield"                     -> {"read", "write"}
      [] point \in {"close_fd", "close_data"} -> {"close", "dup"}
      [] point \in {"dup", "dup_fd"}         -> {"dup"}
      [] point = "fork"                      -> {"fork"}
      [] OTHER                               -> {"none"}

\* read, write and the closed test work on a descriptor that stays open.
Uses == Testing \cup Reading \cup Writing \cup {"yield"}

CallsGood ==
    \A e \in Envs :
      /\ loc[e].op \in CallOf(pc[e])
      /\ pc[e] \in Uses => fdpage[e][loc[e].fd] \in Ends
      /\ loc[e].op = "dup" => loc[e].aux \in Fds
      /\ pc[e] = "dup_fd" => loc[e].fd \in data[e]
      /\ pc[e] = "unborn" => fdpage[e] = [f \in Fds |-> "none"]

\* A fork has a child of its own, which does not run.
ForksGood ==
    /\ \A e \in Envs : pc[e] = "fork" => loc[e].aux \in Envs /\ pc[loc[e].aux] = "embryo"
    /\ \A e, d \in Envs : pc[e] = "fork" /\ pc[d] = "fork" /\ loc[e].aux = loc[d].aux => e = d

\* Behind every Fd page that an env has is the Pipe page.
Backed(e) == \A f \in Fds : fdpage[e][f] # "none" => f \in data[e]
AllBacked == \A e \in Envs : pc[e] # "embryo" => Backed(e)

\* What the env on the CPU has counted is what there is, unless the clock has
\* struck since.
CountsFresh ==
    ~rerun[cur] =>
      /\ pc[cur] \in {"pipe_ref", "compare"} => loc[cur].fd_ref = FdRef(fdpage[cur][loc[cur].fd])
      /\ pc[cur] = "compare" => loc[cur].pipe_ref = PipeRef

IInv == TypeOK /\ CallsGood /\ ForksGood /\ AllBacked /\ CountsFresh
-----------------------------------------------------------------------------
(***************************************************************************)
(* Counting the mappings.                                                  *)
(***************************************************************************)

Slots == Envs \X Fds
FdSlots(end) == { x \in Slots : fdpage[x[1]][x[2]] = end }
PipeSlots == { x \in Slots : x[2] \in data[x[1]] }

\* There are finitely many descriptors.
LEMMA SlotsFinite == IsFiniteSet(Slots)
  <1>1. IsFiniteSet(Envs) /\ IsFiniteSet(Fds)
    BY PipeAssumption, FS_Interval DEF Envs, Fds
  <1> QED
    BY <1>1, FS_Product DEF Slots

\* The mappings of the two ends are no more than those of the Pipe page and
\* what forks have half copied.
LEMMA EndsFit ==
    ASSUME TypeOK, AllBacked
    PROVE  /\ FdRef("r") \in Nat /\ FdRef("w") \in Nat /\ Cardinality(HalfForked) \in Nat
           /\ FdRef("r") + FdRef("w") <= PipeRef + Cardinality(HalfForked)
  <1>1. /\ FdSlots("r") \subseteq Slots /\ FdSlots("w") \subseteq Slots /\ PipeSlots \subseteq Slots
        /\ HalfForked \subseteq Slots
    BY DEF FdSlots, PipeSlots, HalfForked, Slots
  <1>2. /\ IsFiniteSet(FdSlots("r")) /\ IsFiniteSet(FdSlots("w")) /\ IsFiniteSet(PipeSlots)
        /\ IsFiniteSet(HalfForked)
    BY <1>1, SlotsFinite, FS_Subset
  <1>3. FdSlots("r") \cap FdSlots("w") = {}
    BY DEF FdSlots
  <1>4. FdSlots("r") \cup FdSlots("w") \subseteq PipeSlots \cup HalfForked
    BY DEF FdSlots, PipeSlots, HalfForked, AllBacked, Backed, Slots
  <1>5. /\ Cardinality(FdSlots("r")) \in Nat /\ Cardinality(FdSlots("w")) \in Nat
        /\ Cardinality(PipeSlots) \in Nat /\ Cardinality(HalfForked) \in Nat
    BY <1>2, FS_CardinalityType
  <1>6. Cardinality(FdSlots("r") \cup FdSlots("w"))
          = Cardinality(FdSlots("r")) + Cardinality(FdSlots("w"))
    <2>1. Cardinality(FdSlots("r") \cup FdSlots("w"))
            = Cardinality(FdSlots("r")) + Cardinality(FdSlots("w")) - Cardinality({})
      BY <1>2, <1>3, FS_Union
    <2>2. Cardinality({}) = 0
      BY FS_EmptySet
    <2> QED
      BY <1>5, <2>1, <2>2
  <1>7. Cardinality(FdSlots("r") \cup FdSlots("w")) <= Cardinality(PipeSlots) + Cardinality(HalfForked)
    <2>1. /\ IsFiniteSet(PipeSlots \cup HalfForked) /\ IsFiniteSet(PipeSlots \cap HalfForked)
          /\ Cardinality(PipeSlots \cup HalfForked)
               = Cardinality(PipeSlots) + Cardinality(HalfForked) - Cardinality(PipeSlots \cap HalfForked)
      BY <1>2, FS_Union, FS_Intersection
    <2>2. Cardinality(PipeSlots \cap HalfForked) \in Nat
      BY <2>1, FS_CardinalityType
    <2>3. Cardinality(FdSlots("r") \cup FdSlots("w")) <= Cardinality(PipeSlots \cup HalfForked)
      BY <1>4, <2>1, FS_Subset
    <2> QED
      BY <1>5, <1>6, <2>1, <2>2, <2>3
  <1>8. FdRef("r") = Cardinality(FdSlots("r")) /\ FdRef("w") = Cardinality(FdSlots("w"))
          /\ PipeRef = Cardinality(PipeSlots)
    BY DEF FdRef, PipeRef, FdSlots, PipeSlots, Slots
  <1> QED
    BY <1>5, <1>6, <1>7, <1>8

\* A count is a number.
LEMMA RefTypes == PipeRef \in Nat /\ \A end : FdRef(end) \in Nat
  <1>1. PipeSlots \subseteq Slots /\ \A end : FdSlots(end) \subseteq Slots
    BY DEF FdSlots, PipeSlots
  <1>2. IsFiniteSet(PipeSlots) /\ \A end : IsFiniteSet(FdSlots(end))
    BY <1>1, SlotsFinite, FS_Subset
  <1>3. Cardinality(PipeSlots) \in Nat /\ \A end : Cardinality(FdSlots(end)) \in Nat
    BY <1>2, FS_CardinalityType
  <1> QED
    BY <1>3 DEF FdRef, PipeRef, FdSlots, PipeSlots, Slots

\* The state of the invariant in which the closed test reports a closed pipe.
LEMMA NeverFalse == IInv => NoFalseClosed
  <1> SUFFICES ASSUME IInv, NEW e \in Envs, SaysClosed(e)
               PROVE  FdRef(OtherEnd(fdpage[e][loc[e].fd])) <= Cardinality(HalfForked)
    BY DEF NoFalseClosed
  <1>1. fdpage[e][loc[e].fd] \in Ends
    BY DEF IInv, CallsGood, SaysClosed, Uses, Testing
  <1>2. FdRef(fdpage[e][loc[e].fd]) = PipeRef
    BY DEF IInv, CountsFresh, SaysClosed, Retry
  <1>3. /\ FdRef("r") \in Nat /\ FdRef("w") \in Nat /\ Cardinality(HalfForked) \in Nat
        /\ FdRef("r") + FdRef("w") <= PipeRef + Cardinality(HalfForked)
    BY EndsFit DEF IInv
  <1>4. PipeRef \in Nat
    BY RefTypes
  <1> QED
    BY <1>1, <1>2, <1>3, <1>4 DEF Ends, OtherEnd

\* The pipe as pipe() returns it satisfies the invariant.
THEOREM InitIInv == Init => IInv
  <1> SUFFICES ASSUME Init PROVE IInv
    OBVIOUS
  <1> USE PipeAssumption
  <1>1. Idle \in LocRec
    BY DEF Idle, LocRec, Fds
  <1>2. TypeOK
    <2>1. fdpage \in [Envs -> [Fds -> {"none"} \cup Ends]] /\ data \in [Envs -> SUBSET Fds]
      BY DEF Init, Envs, Fds, Ends
    <2>2. pc \in [Envs -> Points] /\ loc \in [Envs -> LocRec]
      BY <1>1 DEF Init, Points
    <2>3. /\ p_rpos \in 0..(WORD - 1) /\ p_wpos \in 0..(WORD - 1)
          /\ p_buf \in [0..(PIPE_SIZE - 1) -> Nat] /\ sent \in Nat /\ got \in Seq(Nat)
      <3>1. WORD \in Nat /\ 0 < WORD
        OBVIOUS
      <3> QED
        BY <3>1 DEF Init
    <2>4. cur \in Envs /\ rerun \in [Envs -> BOOLEAN]
      BY DEF Init, Envs
    <2> QED
      BY <2>1, <2>2, <2>3, <2>4 DEF TypeOK
  <1>3. Idle.op = "none"
    BY DEF Idle
  <1>4. CallsGood
    BY <1>3 DEF Init, CallsGood, CallOf, Uses, Testing, Reading, Writing, Ends
  <1>5. \A e \in Envs : pc[e] \in {"user", "unborn"}
    BY DEF Init
  <1>6. ForksGood /\ CountsFresh
    <2>1. cur \in Envs
      BY <1>2 DEF TypeOK
    <2> QED
      BY <1>5, <2>1 DEF ForksGood, CountsFresh
  <1>7. AllBacked
    BY DEF Init, AllBacked, Backed
  <1> QED
    BY <1>2, <1>4, <1>6, <1>7 DEF IInv
-----------------------------------------------------------------------------
(***************************************************************************)
(* A step of the env on the CPU that leaves it at point x with locals l,   *)
(* Fd pages F and Pipe pages D.                                            *)
(***************************************************************************)

RingType == /\ p_rpos \in 0..(WORD - 1) /\ p_wpos \in 0..(WORD - 1)
            /\ p_buf \in [0..(PIPE_SIZE - 1) -> Nat]
            /\ sent \in Nat /\ got \in Seq(Nat)

Rest == TypeOK /\ CallsGood /\ ForksGood /\ AllBacked

Fits(x, l, F, D) ==
    /\ x \in Points \ {"unborn", "embryo", "fork"} /\ l \in LocRec
    /\ F \in [Fds -> {"none"} \cup Ends] /\ D \in SUBSET Fds
    /\ l.op \in CallOf(x)
    /\ x \in Uses => F[l.fd] \in Ends
    /\ l.op = "dup" => l.aux \in Fds
    /\ x = "dup_fd" => l.fd \in D
    /\ \A f \in Fds : F[f] # "none" => f \in D

\* Whatever such a step is, it keeps every part but the counts.
LEMMA CurStep ==
    ASSUME Rest, pc[cur] \notin {"unborn", "embryo", "fork"},
           NEW x, NEW l, NEW F, NEW D, Fits(x, l, F, D),
           pc' = [pc EXCEPT ![cur] = x], loc' = [loc EXCEPT ![cur] = l],
           fdpage' = [fdpage EXCEPT ![cur] = F], data' = [data EXCEPT ![cur] = D],
           RingType', cur' \in Envs, rerun' \in [Envs -> BOOLEAN]
    PROVE  Rest'
  <1> USE DEF Rest
  <1>1. cur \in Envs
    BY DEF TypeOK
  <1>2. TypeOK'
    BY <1>1 DEF TypeOK, Fits, RingType
  <1>3. /\ pc'[cur] = x /\ loc'[cur] = l /\ fdpage'[cur] = F /\ data'[cur] = D
        /\ \A e \in Envs \ {cur} : /\ pc'[e] = pc[e] /\ loc'[e] = loc[e]
                                   /\ fdpage'[e] = fdpage[e] /\ data'[e] = data[e]
    BY <1>1 DEF TypeOK
  <1>4. CallsGood'
    <2> SUFFICES ASSUME NEW e \in Envs
                 PROVE  /\ loc'[e].op \in CallOf(pc'[e])
                        /\ pc'[e] \in Uses => fdpage'[e][loc'[e].fd] \in Ends
                        /\ loc'[e].op = "dup" => loc'[e].aux \in Fds
                        /\ pc'[e] = "dup_fd" => loc'[e].fd \in data'[e]
                        /\ pc'[e] = "unborn" => fdpage'[e] = [f \in Fds |-> "none"]
      BY DEF CallsGood, CallOf, Uses, Testing, Reading, Writing, Ends
    <2>1. CASE e = cur
      BY <1>3, <2>1 DEF Fits
    <2>2. CASE e # cur
      BY <1>3, <2>2 DEF CallsGood
    <2> QED
      BY <2>1, <2>2
  <1>5. ForksGood'
    BY <1>1, <1>3 DEF ForksGood, Fits
  <1>6. AllBacked'
    BY <1>1, <1>3 DEF AllBacked, Backed, Fits
  <1> QED
    BY <1>2, <1>4, <1>5, <1>6

\* A step that leaves the maps alone and takes no count.
LEMMA QuietStep ==
    ASSUME IInv, pc[cur] \notin {"unborn", "embryo", "fork"},
           NEW x, NEW l, Fits(x, l, fdpage[cur], data[cur]),
           x \notin {"pipe_ref", "compare"},
           pc' = [pc EXCEPT ![cur] = x], loc' = [loc EXCEPT ![cur] = l],
           UNCHANGED <<maps, cur>>, RingType', rerun' \in [Envs -> BOOLEAN]
    PROVE  IInv'
  <1> USE DEF IInv
  <1>1. fdpage' = [fdpage EXCEPT ![cur] = fdpage[cur]] /\ data' = [data EXCEPT ![cur] = data[cur]]
    BY DEF maps, TypeOK
  <1>2. cur' \in Envs
    BY DEF TypeOK
  <1>3. Rest'
    BY <1>1, <1>2, CurStep DEF Rest
  <1>4. pc'[cur'] = x
    BY DEF TypeOK
  <1> QED
    BY <1>3, <1>4 DEF Rest, CountsFresh

\* A position stays in its range.
LEMMA ModTypes ==
    /\ \A k \in Int : k % WORD \in 0..(WORD - 1) /\ k % PIPE_SIZE \in 0..(PIPE_SIZE - 1)
    /\ 0..(WORD - 1) \subseteq Int
  <1>1. /\ WORD \in Nat /\ 0 < WORD /\ PIPE_SIZE \in Nat /\ 0 < PIPE_SIZE
    BY PipeAssumption
  <1> QED
    BY <1>1

\* What pipe_read and pipe_write do to the ring.
LEMMA RingFrom ==
    ASSUME TypeOK,
           p_rpos' \in {p_rpos, (p_rpos + 1) % WORD}, p_wpos' \in {p_wpos, (p_wpos + 1) % WORD},
           \/ p_buf' = p_buf
           \/ \E k \in Int : p_buf' = [p_buf EXCEPT ![k % PIPE_SIZE] = sent + 1],
           sent' \in {sent, sent + 1},
           got' = got \/ \E b \in Nat : got' = Append(got, b)
    PROVE  RingType'
  <1>1. p_rpos \in Int /\ p_wpos \in Int /\ p_rpos + 1 \in Int /\ p_wpos + 1 \in Int
    BY ModTypes DEF TypeOK
  <1>2. p_rpos' \in 0..(WORD - 1) /\ p_wpos' \in 0..(WORD - 1)
    BY <1>1, ModTypes DEF TypeOK
  <1>3. p_buf' \in [0..(PIPE_SIZE - 1) -> Nat]
    BY DEF TypeOK
  <1>4. sent' \in Nat
    BY DEF TypeOK
  <1>5. got' \in Seq(Nat)
    <2>1. got \in Seq(Nat)
      BY DEF TypeOK
    <2>2. ASSUME NEW b \in Nat PROVE Append(got, b) \in Seq(Nat)
      BY <2>1
    <2> QED
      BY <2>1, <2>2
  <1> QED
    BY <1>2, <1>3, <1>4, <1>5 DEF RingType

\* A record of locals with some fields replaced.
LEMMA LocTypes ==
    /\ Idle \in LocRec /\ Idle.op = "none"
    /\ \A l \in LocRec : Forget(l) \in LocRec /\ Forget(l).op = l.op /\ Forget(l).aux = l.aux /\ Forget(l).fd = l.fd
  <1>1. Idle \in LocRec /\ Idle.op = "none"
    BY PipeAssumption DEF Idle, LocRec, Fds
  <1>2. ASSUME NEW l \in LocRec
        PROVE  Forget(l) \in LocRec /\ Forget(l).op = l.op /\ Forget(l).aux = l.aux /\ Forget(l).fd = l.fd
    <2>1. PICK y : y = Forget(l)
      OBVIOUS
    <2>2. y = [op |-> l.op, fd |-> l.fd, n |-> l.n, i |-> l.i, fd_ref |-> 0, pipe_ref |-> 0,
               aux |-> l.aux, order |-> l.order]
      BY <2>1 DEF Forget, LocRec
    <2> QED
      BY <2>1, <2>2 DEF LocRec
  <1> QED
    BY <1>1, <1>2

\* A step that leaves the ring alone leaves it well typed.
LEMMA RingKept == ASSUME TypeOK, UNCHANGED ring PROVE RingType'
  BY DEF TypeOK, ring, RingType

\* What cur has at its point.
LEMMA CurFits ==
    ASSUME IInv, pc[cur] \notin {"unborn", "embryo", "fork"}
    PROVE  Fits(pc[cur], loc[cur], fdpage[cur], data[cur])
  <1>1. cur \in Envs
    BY DEF IInv, TypeOK
  <1>2. Backed(cur)
    BY <1>1 DEF IInv, AllBacked
  <1>3. /\ loc[cur].op \in CallOf(pc[cur])
        /\ pc[cur] \in Uses => fdpage[cur][loc[cur].fd] \in Ends
        /\ loc[cur].op = "dup" => loc[cur].aux \in Fds
        /\ pc[cur] = "dup_fd" => loc[cur].fd \in data[cur]
    BY <1>1 DEF IInv, CallsGood
  <1>4. pc[cur] \in Points /\ loc[cur] \in LocRec /\ fdpage[cur] \in [Fds -> {"none"} \cup Ends]
          /\ data[cur] \in SUBSET Fds
    BY <1>1 DEF IInv, TypeOK
  <1> QED
    BY <1>2, <1>3, <1>4 DEF Fits, Backed

\* Only the descriptor must be one that stays open while the call uses it.
LEMMA FitsFrom ==
    ASSUME IInv, pc[cur] \notin {"unborn", "embryo", "fork"},
           NEW x \in Points \ {"unborn", "embryo", "fork", "dup_fd"}, NEW l \in LocRec,
           l.op \in CallOf(x), x \in Uses => fdpage[cur][l.fd] \in Ends,
           l.op = "dup" => l.aux \in Fds
    PROVE  Fits(x, l, fdpage[cur], data[cur])
  BY CurFits DEF Fits

\* A call is entered with a descriptor that is open.
LEMMA EnterStep ==
    ASSUME IInv, NEW op, NEW point, NEW fd \in Fds, NEW n \in Nat, Enter(op, point, fd, n),
           <<op, point>> \in {<<"read", "read">>, <<"write", "write">>, <<"poll", "runs">>, <<"close", "close_fd">>},
           fdpage[cur][fd] # "none"
    PROVE  IInv'
  <1>1. PICK l : l = [Idle EXCEPT !.op = op, !.fd = fd, !.n = n]
    OBVIOUS
  <1>2. l = [op |-> op, fd |-> fd, n |-> n, i |-> 0, fd_ref |-> 0, pipe_ref |-> 0, aux |-> 0, order |-> "byte_first"]
    BY <1>1 DEF Idle
  <1>3. l \in LocRec /\ l.op = op /\ l.fd = fd
    BY <1>2 DEF LocRec
  <1>4. cur \in Envs /\ fdpage[cur][fd] \in Ends
    BY DEF IInv, TypeOK
  <1>5. pc[cur] = "user" /\ pc' = [pc EXCEPT ![cur] = point] /\ loc' = [loc EXCEPT ![cur] = l]
        /\ UNCHANGED <<maps, cur>> /\ rerun' = rerun /\ RingType'
    BY <1>1, RingKept DEF Enter, At, GoTo, Local, Stay, IInv
  <1>6. Fits(point, l, fdpage[cur], data[cur])
    BY <1>3, <1>4, <1>5, FitsFrom DEF CallOf, Points, Uses, Testing, Reading, Writing
  <1>7. point \notin {"pipe_ref", "compare"} /\ rerun' \in [Envs -> BOOLEAN]
    BY <1>5 DEF IInv, TypeOK
  <1> QED
    BY <1>5, <1>6, <1>7, QuietStep

\* A quiet step of a call, at a point that uses its descriptor.
LEMMA CallStep ==
    ASSUME IInv, pc[cur] \in Uses,
           NEW x, NEW l, GoTo(x), Local(l),
           UNCHANGED <<maps, cur>>, rerun' \in [Envs -> BOOLEAN], RingType',
           \/ x = "user" /\ l = Idle
           \/ /\ x \in Uses \ {"pipe_ref", "compare"} /\ loc[cur].op \in CallOf(x)
              /\ l \in LocRec /\ l.op = loc[cur].op /\ l.fd = loc[cur].fd
    PROVE  IInv'
  <1>1. pc[cur] \notin {"unborn", "embryo", "fork"} /\ loc[cur].op # "dup"
    BY CurFits DEF Uses, Testing, Reading, Writing, Fits, CallOf
  <1>2. fdpage[cur][loc[cur].fd] \in Ends
    BY <1>1, CurFits DEF Fits
  <1>3. Fits(x, l, fdpage[cur], data[cur])
    <2>1. CASE x = "user" /\ l = Idle
      BY <1>1, <2>1, LocTypes, FitsFrom DEF Points, Uses, Testing, Reading, Writing, CallOf
    <2>2. CASE /\ x \in Uses \ {"pipe_ref", "compare"} /\ loc[cur].op \in CallOf(x)
               /\ l \in LocRec /\ l.op = loc[cur].op /\ l.fd = loc[cur].fd
      <3>1. x \in Points \ {"unborn", "embryo", "fork", "dup_fd"}
        BY <2>2 DEF Points, Uses, Testing, Reading, Writing
      <3> QED
        BY <1>1, <1>2, <2>2, <3>1, FitsFrom
    <2> QED
      BY <2>1, <2>2
  <1> QED
    BY <1>1, <1>3, QuietStep DEF GoTo, Local, Uses, Testing, Reading, Writing
-----------------------------------------------------------------------------
(***************************************************************************)
(* The steps of pipe_read, pipe_write and the closed test.                 *)
(***************************************************************************)

\* The head of the loop of pipe_read.
LEMMA ReadLoopStep == ASSUME IInv, ReadLoop PROVE IInv'
  <1>1. pc[cur] \in Uses /\ loc[cur].op = "read"
    BY CurFits DEF ReadLoop, At, Uses, Testing, Reading, Writing, Fits, CallOf
  <1>2. UNCHANGED <<maps, cur>> /\ rerun' \in [Envs -> BOOLEAN] /\ RingType'
    BY RingKept DEF IInv, TypeOK, ReadLoop, Stay
  <1>3. loc[cur] \in LocRec
    BY DEF IInv, TypeOK
  <1>4. CASE Return
    BY <1>1, <1>2, <1>4, CallStep DEF Return
  <1>5. CASE GoTo("runs") /\ UNCHANGED loc
    <2>1. Local(loc[cur])
      BY <1>5 DEF Local, IInv, TypeOK
    <2> QED
      BY <1>1, <1>2, <1>3, <1>5, <2>1, CallStep DEF Uses, Testing, Reading, Writing, CallOf
  <1>6. ASSUME NEW o \in CopyOrders, Local([loc[cur] EXCEPT !.order = o]), GoTo("rfirst")
        PROVE  IInv'
    <2>1. PICK l : l = [loc[cur] EXCEPT !.order = o]
      OBVIOUS
    <2>2. l \in LocRec /\ l.op = loc[cur].op /\ l.fd = loc[cur].fd
      BY <1>3, <2>1, PipeAssumption DEF LocRec
    <2> QED
      BY <1>1, <1>2, <1>6, <2>1, <2>2, CallStep DEF Uses, Testing, Reading, Writing, CallOf
  <1> QED
    BY <1>4, <1>5, <1>6 DEF ReadLoop

\* The head of the loop of pipe_write.
LEMMA WriteLoopStep == ASSUME IInv, WriteLoop PROVE IInv'
  <1>1. pc[cur] \in Uses /\ loc[cur].op = "write"
    BY CurFits DEF WriteLoop, At, Uses, Testing, Reading, Writing, Fits, CallOf
  <1>2. UNCHANGED <<maps, cur>> /\ rerun' \in [Envs -> BOOLEAN] /\ RingType'
    BY RingKept DEF IInv, TypeOK, WriteLoop, Stay
  <1>3. loc[cur] \in LocRec
    BY DEF IInv, TypeOK
  <1>4. CASE Return
    BY <1>1, <1>2, <1>4, CallStep DEF Return
  <1>5. CASE GoTo("runs") /\ UNCHANGED loc
    <2>1. Local(loc[cur])
      BY <1>5 DEF Local, IInv, TypeOK
    <2> QED
      BY <1>1, <1>2, <1>3, <1>5, <2>1, CallStep DEF Uses, Testing, Reading, Writing, CallOf
  <1>6. ASSUME NEW o \in CopyOrders, Local([loc[cur] EXCEPT !.order = o]), GoTo("wfirst")
        PROVE  IInv'
    <2>1. PICK l : l = [loc[cur] EXCEPT !.order = o]
      OBVIOUS
    <2>2. l \in LocRec /\ l.op = loc[cur].op /\ l.fd = loc[cur].fd
      BY <1>3, <2>1, PipeAssumption DEF LocRec
    <2> QED
      BY <1>1, <1>2, <1>6, <2>1, <2>2, CallStep DEF Uses, Testing, Reading, Writing, CallOf
  <1> QED
    BY <1>4, <1>5, <1>6 DEF WriteLoop

\* pipe_read loads the byte, or stores the new position.
LEMMA ReadFirstStep == ASSUME IInv, ReadFirst PROVE IInv'
  <1>1. pc[cur] \in Uses /\ loc[cur].op = "read"
    BY CurFits DEF ReadFirst, At, Uses, Testing, Reading, Writing, Fits, CallOf
  <1>2. UNCHANGED <<maps, cur>> /\ rerun' \in [Envs -> BOOLEAN] /\ GoTo("rsecond")
    BY DEF IInv, TypeOK, ReadFirst, Stay
  <1>3. RingType'
    BY RingFrom DEF IInv, ReadFirst
  <1>4. loc[cur] \in LocRec
    BY DEF IInv, TypeOK
  <1>5. PICK l \in LocRec : Local(l) /\ l.op = loc[cur].op /\ l.fd = loc[cur].fd
    <2>1. p_buf[p_rpos % PIPE_SIZE] \in Nat
      BY ModTypes DEF IInv, TypeOK
    <2>2. PICK l : l = [loc[cur] EXCEPT !.aux = p_buf[p_rpos % PIPE_SIZE]]
      OBVIOUS
    <2>3. l \in LocRec /\ l.op = loc[cur].op /\ l.fd = loc[cur].fd
      BY <1>4, <2>1, <2>2 DEF LocRec
    <2>4. UNCHANGED loc => Local(loc[cur])
      BY DEF Local, IInv, TypeOK
    <2> QED
      BY <1>4, <2>2, <2>3, <2>4 DEF ReadFirst
  <1> QED
    BY <1>1, <1>2, <1>3, <1>5, CallStep DEF Uses, Testing, Reading, Writing, CallOf

\* It does the other, and counts the byte.
LEMMA ReadSecondStep == ASSUME IInv, ReadSecond PROVE IInv'
  <1>1. pc[cur] \in Uses /\ loc[cur].op = "read"
    BY CurFits DEF ReadSecond, At, Uses, Testing, Reading, Writing, Fits, CallOf
  <1>2. UNCHANGED <<maps, cur>> /\ rerun' \in [Envs -> BOOLEAN] /\ GoTo("read")
    BY DEF IInv, TypeOK, ReadSecond, Stay
  <1>3. loc[cur] \in LocRec
    BY DEF IInv, TypeOK
  <1>4. RingType'
    <2>1. loc[cur].aux \in Nat
      BY <1>3 DEF LocRec
    <2>2. p_buf[((p_rpos - 1) % WORD) % PIPE_SIZE] \in Nat
      <3>1. (p_rpos - 1) % WORD \in Int
        BY ModTypes DEF IInv, TypeOK
      <3> QED
        BY <3>1, ModTypes DEF IInv, TypeOK
    <2>3. TypeOK
      BY DEF IInv
    <2> QED
      BY <2>1, <2>2, <2>3, RingFrom DEF ReadSecond
  <1>5. PICK l : l = [loc[cur] EXCEPT !.i = @ + 1, !.aux = 0, !.order = "byte_first"]
    OBVIOUS
  <1>6. l = [op |-> loc[cur].op, fd |-> loc[cur].fd, n |-> loc[cur].n, i |-> loc[cur].i + 1,
             fd_ref |-> loc[cur].fd_ref, pipe_ref |-> loc[cur].pipe_ref, aux |-> 0, order |-> "byte_first"]
    BY <1>3, <1>5 DEF LocRec
  <1>7. l \in LocRec /\ l.op = loc[cur].op /\ l.fd = loc[cur].fd
    BY <1>3, <1>6 DEF LocRec
  <1>8. Local(l)
    BY <1>5 DEF ReadSecond
  <1> QED
    BY <1>1, <1>2, <1>4, <1>7, <1>8, CallStep DEF Uses, Testing, Reading, Writing, CallOf

\* pipe_write stores the byte, or the new position.
LEMMA WriteFirstStep == ASSUME IInv, WriteFirst PROVE IInv'
  <1>1. pc[cur] \in Uses /\ loc[cur].op = "write"
    BY CurFits DEF WriteFirst, At, Uses, Testing, Reading, Writing, Fits, CallOf
  <1>2. UNCHANGED <<maps, cur, loc>> /\ rerun' \in [Envs -> BOOLEAN] /\ GoTo("wsecond")
    BY DEF IInv, TypeOK, WriteFirst, Stay
  <1>3. RingType'
    <2>1. TypeOK /\ p_wpos \in Int
      BY ModTypes DEF IInv, TypeOK
    <2> QED
      BY <2>1, RingFrom DEF WriteFirst
  <1>4. loc[cur] \in LocRec /\ Local(loc[cur])
    BY <1>2 DEF IInv, TypeOK, Local
  <1> QED
    BY <1>1, <1>2, <1>3, <1>4, CallStep DEF Uses, Testing, Reading, Writing, CallOf

\* It does the other, and counts the byte.
LEMMA WriteSecondStep == ASSUME IInv, WriteSecond PROVE IInv'
  <1>1. pc[cur] \in Uses /\ loc[cur].op = "write"
    BY CurFits DEF WriteSecond, At, Uses, Testing, Reading, Writing, Fits, CallOf
  <1>2. UNCHANGED <<maps, cur>> /\ rerun' \in [Envs -> BOOLEAN] /\ GoTo("write")
    BY DEF IInv, TypeOK, WriteSecond, Stay
  <1>3. loc[cur] \in LocRec
    BY DEF IInv, TypeOK
  <1>4. RingType'
    <2>1. TypeOK /\ p_wpos - 1 \in Int
      <3>1. TypeOK
        BY DEF IInv
      <3>2. p_wpos \in Int
        BY <3>1, ModTypes DEF TypeOK
      <3> QED
        BY <3>1, <3>2
    <2>2. (p_wpos - 1) % WORD \in Int
      BY <2>1, ModTypes
    <2> QED
      BY <2>1, <2>2, RingFrom DEF WriteSecond
  <1>5. PICK l : l = [loc[cur] EXCEPT !.i = @ + 1, !.order = "byte_first"]
    OBVIOUS
  <1>6. l = [op |-> loc[cur].op, fd |-> loc[cur].fd, n |-> loc[cur].n, i |-> loc[cur].i + 1,
             fd_ref |-> loc[cur].fd_ref, pipe_ref |-> loc[cur].pipe_ref, aux |-> loc[cur].aux,
             order |-> "byte_first"]
    BY <1>3, <1>5 DEF LocRec
  <1>7. l \in LocRec /\ l.op = loc[cur].op /\ l.fd = loc[cur].fd
    BY <1>3, <1>6 DEF LocRec
  <1>8. Local(l)
    BY <1>5 DEF WriteSecond
  <1> QED
    BY <1>1, <1>2, <1>4, <1>7, <1>8, CallStep DEF Uses, Testing, Reading, Writing, CallOf

\* The counts are taken one after the other; nobody else runs in between.
LEMMA CountStep ==
    ASSUME IInv, pc[cur] \in Testing, NEW x \in Testing, NEW l \in LocRec, GoTo(x), Local(l),
           l.op = loc[cur].op, l.fd = loc[cur].fd,
           UNCHANGED <<maps, cur, rerun, ring>>,
           ~rerun[cur] =>
              /\ x \in {"pipe_ref", "compare"} => l.fd_ref = FdRef(fdpage[cur][l.fd])
              /\ x = "compare" => l.pipe_ref = PipeRef
    PROVE  IInv'
  <1>1. pc[cur] \notin {"unborn", "embryo", "fork"} /\ loc[cur].op \in {"read", "write", "poll"}
    BY CurFits DEF Testing, Fits, CallOf
  <1>2. fdpage[cur][loc[cur].fd] \in Ends
    BY <1>1, CurFits DEF Fits, Uses
  <1>3. Fits(x, l, fdpage[cur], data[cur])
    <2>1. l.op \in CallOf(x)
      BY <1>1 DEF CallOf, Testing, Reading, Writing
    <2>2. x \in Points \ {"unborn", "embryo", "fork", "dup_fd"}
      BY DEF Points, Testing
    <2> QED
      BY <1>1, <1>2, <2>1, <2>2, FitsFrom
  <1>4. RingType' /\ cur' = cur /\ cur \in Envs /\ rerun' \in [Envs -> BOOLEAN]
    BY RingKept DEF IInv, TypeOK
  <1>5. fdpage' = [fdpage EXCEPT ![cur] = fdpage[cur]] /\ data' = [data EXCEPT ![cur] = data[cur]]
    BY DEF maps, IInv, TypeOK
  <1>6. Rest'
    BY <1>1, <1>3, <1>4, <1>5, CurStep DEF Rest, IInv, GoTo, Local
  <1>7. pc'[cur'] = x /\ loc'[cur'] = l /\ rerun'[cur'] = rerun[cur] /\ fdpage' = fdpage /\ data' = data
    BY <1>4 DEF IInv, TypeOK, GoTo, Local, maps
  <1>8. \A end : FdRef(end)' = FdRef(end)
    BY <1>7 DEF FdRef
  <1>9. PipeRef' = PipeRef
    BY <1>7 DEF PipeRef
  <1>10. CountsFresh'
    BY <1>7, <1>8, <1>9 DEF CountsFresh
  <1> QED
    BY <1>6, <1>10 DEF Rest, IInv

\* The closed test saves env_runs: its counts are fresh from here on.
LEMMA SaveRunsStep == ASSUME IInv, SaveRuns PROVE IInv'
  <1>1. pc[cur] = "runs" /\ cur \in Envs /\ GoTo("fd_ref") /\ UNCHANGED <<maps, cur, ring, loc>>
          /\ loc[cur] \in LocRec /\ rerun' \in [Envs -> BOOLEAN]
    BY DEF SaveRuns, At, IInv, TypeOK
  <1>2. RingType' /\ Local(loc[cur])
    BY <1>1, RingKept DEF IInv, TypeOK, Local
  <1>3. loc[cur].op \in CallOf("fd_ref")
    BY <1>1, CurFits DEF Fits, CallOf, Testing, Reading, Writing
  <1> QED
    BY <1>1, <1>2, <1>3, CallStep DEF Uses, Testing

\* It counts the mappings of the Fd page,
LEMMA ReadFdRefStep == ASSUME IInv, ReadFdRef PROVE IInv'
  <1>1. pc[cur] = "fd_ref" /\ loc[cur] \in LocRec /\ GoTo("pipe_ref") /\ UNCHANGED <<maps, cur, rerun, ring>>
    BY DEF ReadFdRef, At, Stay, IInv, TypeOK
  <1>2. PICK k \in Nat : k = FdRef(fdpage[cur][loc[cur].fd])
    BY RefTypes
  <1>3. PICK l : l = [loc[cur] EXCEPT !.fd_ref = k]
    OBVIOUS
  <1>4. l \in LocRec /\ l.op = loc[cur].op /\ l.fd = loc[cur].fd /\ l.fd_ref = k
    BY <1>1, <1>3 DEF LocRec
  <1>5. Local(l)
    BY <1>2, <1>3 DEF ReadFdRef
  <1> QED
    BY <1>1, <1>2, <1>4, <1>5, CountStep DEF Testing

\* and then those of the Pipe page, with the first count still fresh.
LEMMA ReadPipeRefStep == ASSUME IInv, ReadPipeRef PROVE IInv'
  <1>1. pc[cur] = "pipe_ref" /\ loc[cur] \in LocRec /\ GoTo("compare") /\ UNCHANGED <<maps, cur, rerun, ring>>
    BY DEF ReadPipeRef, At, Stay, IInv, TypeOK
  <1>2. PICK k \in Nat : k = PipeRef
    BY RefTypes
  <1>3. PICK l : l = [loc[cur] EXCEPT !.pipe_ref = k]
    OBVIOUS
  <1>4. l \in LocRec /\ l.op = loc[cur].op /\ l.fd = loc[cur].fd /\ l.fd_ref = loc[cur].fd_ref /\ l.pipe_ref = k
    BY <1>1, <1>3 DEF LocRec
  <1>5. Local(l)
    BY <1>2, <1>3 DEF ReadPipeRef
  <1>6. ~rerun[cur] => loc[cur].fd_ref = FdRef(fdpage[cur][loc[cur].fd])
    BY <1>1 DEF IInv, CountsFresh
  <1> QED
    BY <1>1, <1>2, <1>4, <1>5, <1>6, CountStep DEF Testing

\* It decides, or begins again.
LEMMA CompareStep == ASSUME IInv, Compare PROVE IInv'
  <1>1. pc[cur] = "compare" /\ loc[cur] \in LocRec /\ UNCHANGED <<maps, cur, rerun, ring>>
          /\ rerun' \in [Envs -> BOOLEAN]
    BY DEF Compare, At, Stay, IInv, TypeOK
  <1>2. pc[cur] \in Uses /\ RingType'
    BY <1>1, RingKept DEF Uses, Testing, IInv
  <1>3. loc[cur].op \in {"read", "write", "poll"}
    BY <1>1, CurFits DEF Fits, CallOf, Testing, Reading, Writing
  <1>4. CASE Return
    BY <1>1, <1>2, <1>4, CallStep DEF Return
  <1>5. CASE Local(Forget(loc[cur])) /\ (GoTo("runs") \/ (GoTo("yield") /\ loc[cur].op # "poll"))
    <2>1. Forget(loc[cur]) \in LocRec /\ Forget(loc[cur]).op = loc[cur].op /\ Forget(loc[cur]).fd = loc[cur].fd
      BY <1>1, LocTypes
    <2>2. loc[cur].op \in CallOf("runs") /\ (loc[cur].op # "poll" => loc[cur].op \in CallOf("yield"))
      BY <1>3 DEF CallOf, Testing, Reading, Writing
    <2> QED
      BY <1>1, <1>2, <1>5, <2>1, <2>2, CallStep DEF Uses, Testing
  <1> QED
    BY <1>4, <1>5 DEF Compare
-----------------------------------------------------------------------------
(***************************************************************************)
(* The steps of close and dup.                                             *)
(***************************************************************************)

\* A step that changes the maps of the env on the CPU.
LEMMA MapStep ==
    ASSUME IInv, pc[cur] \notin {"unborn", "embryo", "fork"},
           NEW x, NEW l, NEW F, NEW D, Fits(x, l, F, D), x \notin {"pipe_ref", "compare"},
           GoTo(x), Local(l),
           fdpage' = [fdpage EXCEPT ![cur] = F], data' = [data EXCEPT ![cur] = D],
           UNCHANGED <<cur, rerun, ring>>
    PROVE  IInv'
  <1>1. RingType' /\ cur' = cur /\ cur \in Envs /\ rerun' \in [Envs -> BOOLEAN]
    BY RingKept DEF IInv, TypeOK
  <1>2. Rest'
    BY <1>1, CurStep DEF Rest, IInv, GoTo, Local
  <1>3. pc'[cur'] = x
    BY <1>1 DEF IInv, TypeOK, GoTo
  <1> QED
    BY <1>2, <1>3 DEF Rest, IInv, CountsFresh

\* close unmaps the Fd page first: the Pipe page is behind nothing for a while,
LEMMA CloseFdStep == ASSUME IInv, CloseFd PROVE IInv'
  <1>1. pc[cur] = "close_fd" /\ cur \in Envs /\ GoTo("close_data") /\ UNCHANGED <<cur, rerun, ring, loc, data>>
    BY DEF CloseFd, At, Stay, IInv, TypeOK
  <1>2. Fits("close_fd", loc[cur], fdpage[cur], data[cur])
    BY <1>1, CurFits
  <1>3. PICK F : F = [fdpage[cur] EXCEPT ![loc[cur].fd] = "none"]
    OBVIOUS
  <1>4. F \in [Fds -> {"none"} \cup Ends] /\ \A f \in Fds : F[f] # "none" => fdpage[cur][f] # "none"
    BY <1>2, <1>3 DEF Fits
  <1>5. "close_data" \in Points \ {"unborn", "embryo", "fork"} /\ "close_data" \notin Uses
          /\ CallOf("close_data") = CallOf("close_fd")
    BY DEF Points, Uses, Testing, Reading, Writing, CallOf
  <1>6. Fits("close_data", loc[cur], F, data[cur])
    BY <1>2, <1>4, <1>5 DEF Fits
  <1>7. fdpage' = [fdpage EXCEPT ![cur] = F] /\ data' = [data EXCEPT ![cur] = data[cur]] /\ Local(loc[cur])
    BY <1>1, <1>3 DEF CloseFd, IInv, TypeOK, Local
  <1> QED
    BY <1>1, <1>6, <1>7, MapStep

\* and then the Pipe page.
LEMMA CloseDataStep == ASSUME IInv, CloseData PROVE IInv'
  <1>1. pc[cur] = "close_data" /\ cur \in Envs /\ UNCHANGED <<cur, rerun, ring>> /\ loc[cur] \in LocRec
    BY DEF CloseData, At, Stay, IInv, TypeOK
  <1>2. Fits("close_data", loc[cur], fdpage[cur], data[cur])
    BY <1>1, CurFits
  <1>3. PICK F : F = [fdpage[cur] EXCEPT ![loc[cur].fd] = "none"]
    OBVIOUS
  <1>4. PICK D : D = data[cur] \ {loc[cur].fd}
    OBVIOUS
  <1>5. /\ F \in [Fds -> {"none"} \cup Ends] /\ D \in SUBSET Fds
        /\ \A f \in Fds : F[f] # "none" => f \in D
    BY <1>2, <1>3, <1>4 DEF Fits
  <1>6. fdpage' = [fdpage EXCEPT ![cur] = F] /\ data' = [data EXCEPT ![cur] = D]
    BY <1>3, <1>4 DEF CloseData
  <1>7. PICK x, l : /\ GoTo(x) /\ Local(l)
                    /\ \/ x = "dup" /\ l = loc[cur] /\ l.op = "dup"
                       \/ x = "user" /\ l = Idle
    <2>1. UNCHANGED loc => Local(loc[cur])
      BY DEF Local, IInv, TypeOK
    <2> QED
      BY <2>1 DEF CloseData, AfterClose, Return
  <1>8. l \in LocRec /\ l.op \in CallOf(x) /\ (l.op = "dup" => l.aux \in Fds)
    BY <1>1, <1>2, <1>7, LocTypes DEF CallOf, Testing, Reading, Writing, Fits
  <1>9. x \in Points \ {"unborn", "embryo", "fork", "dup_fd", "pipe_ref", "compare"} /\ x \notin Uses
    BY <1>7 DEF Points, Uses, Testing, Reading, Writing
  <1>10. Fits(x, l, F, D)
    BY <1>5, <1>8, <1>9 DEF Fits
  <1> QED
    BY <1>1, <1>6, <1>7, <1>9, <1>10, MapStep

\* dup maps the Pipe page first,
LEMMA DupDataStep == ASSUME IInv, DupData PROVE IInv'
  <1>1. pc[cur] = "dup" /\ cur \in Envs /\ GoTo("dup_fd") /\ UNCHANGED <<cur, rerun, ring, loc, fdpage>>
          /\ loc[cur] \in LocRec
    BY DEF DupData, At, Stay, IInv, TypeOK
  <1>2. Fits("dup", loc[cur], fdpage[cur], data[cur])
    BY <1>1, CurFits
  <1>3. PICK D : D = data[cur] \cup {loc[cur].fd}
    OBVIOUS
  <1>4. D \in SUBSET Fds /\ loc[cur].fd \in D /\ data[cur] \subseteq D
    BY <1>1, <1>2, <1>3 DEF Fits, LocRec
  <1>5. "dup_fd" \in Points \ {"unborn", "embryo", "fork"} /\ "dup_fd" \notin Uses
          /\ CallOf("dup_fd") = CallOf("dup")
    BY DEF Points, Uses, Testing, Reading, Writing, CallOf
  <1>6. Fits("dup_fd", loc[cur], fdpage[cur], D)
    BY <1>2, <1>4, <1>5 DEF Fits
  <1>7. fdpage' = [fdpage EXCEPT ![cur] = fdpage[cur]] /\ data' = [data EXCEPT ![cur] = D] /\ Local(loc[cur])
    BY <1>1, <1>3 DEF DupData, IInv, TypeOK, Local
  <1> QED
    BY <1>1, <1>6, <1>7, MapStep

\* so that it is there when the Fd page is mapped.
LEMMA DupFdStep == ASSUME IInv, DupFd PROVE IInv'
  <1>1. pc[cur] = "dup_fd" /\ cur \in Envs /\ UNCHANGED <<cur, rerun, ring, data>> /\ GoTo("user") /\ Local(Idle)
          /\ loc[cur] \in LocRec
    BY DEF DupFd, At, Stay, Return, IInv, TypeOK
  <1>2. Fits("dup_fd", loc[cur], fdpage[cur], data[cur])
    BY <1>1, CurFits
  <1>3. loc[cur].op = "dup" /\ loc[cur].aux \in Fds /\ loc[cur].fd \in data[cur]
    BY <1>2 DEF Fits, CallOf, Testing, Reading, Writing
  <1>4. PICK F : F = [fdpage[cur] EXCEPT ![loc[cur].fd] = fdpage[cur][loc[cur].aux]]
    OBVIOUS
  <1>5. F \in [Fds -> {"none"} \cup Ends] /\ \A f \in Fds : F[f] # "none" => f \in data[cur]
    BY <1>2, <1>3, <1>4 DEF Fits
  <1>6. fdpage' = [fdpage EXCEPT ![cur] = F] /\ data' = [data EXCEPT ![cur] = data[cur]]
    BY <1>1, <1>4 DEF DupFd, IInv, TypeOK
  <1>7. "user" \in Points /\ "user" \notin Uses /\ CallOf("user") = {"none"}
    BY DEF Points, Uses, Testing, Reading, Writing, CallOf
  <1>8. Fits("user", Idle, F, data[cur])
    BY <1>2, <1>5, <1>7, LocTypes DEF Fits
  <1> QED
    BY <1>1, <1>6, <1>8, MapStep

\* dup closes the new descriptor if it is open.
LEMMA StartDupStep ==
    ASSUME IInv, NEW old \in Fds, NEW new \in Fds, StartDup(old, new)
    PROVE  IInv'
  <1>1. PICK l : l = [Idle EXCEPT !.op = "dup", !.fd = new, !.aux = old]
    OBVIOUS
  <1>2. l = [op |-> "dup", fd |-> new, n |-> 0, i |-> 0, fd_ref |-> 0, pipe_ref |-> 0, aux |-> old,
             order |-> "byte_first"]
    BY <1>1 DEF Idle
  <1>3. l \in LocRec /\ l.op = "dup" /\ l.aux = old
    BY <1>2, PipeAssumption DEF LocRec, Fds
  <1>4. PICK x \in {"close_fd", "dup"} : GoTo(x)
    BY DEF StartDup
  <1>5. pc[cur] = "user" /\ Local(l) /\ UNCHANGED <<maps, cur, rerun, ring>>
    BY <1>1 DEF StartDup, At, Stay
  <1>6. Fits(x, l, fdpage[cur], data[cur])
    BY <1>3, <1>4, <1>5, FitsFrom DEF Points, Uses, Testing, Reading, Writing, CallOf
  <1>7. RingType' /\ rerun' \in [Envs -> BOOLEAN]
    BY <1>5, RingKept DEF IInv, TypeOK
  <1> QED
    BY <1>4, <1>5, <1>6, <1>7, QuietStep DEF GoTo, Local
-----------------------------------------------------------------------------
(***************************************************************************)
(* The steps that hand over the processor: what the env that gets it has   *)
(* counted before is marked stale.                                         *)
(***************************************************************************)

\* An env that gets the processor in the middle of the test sees env_runs change.
LEMMA DispatchFresh ==
    ASSUME Rest', NEW e, Dispatch(e), rerun \in [Envs -> BOOLEAN]
    PROVE  e \in Envs /\ CountsFresh'
  <1>1. e \in Envs /\ cur' = e
    BY DEF Dispatch, Runnable
  <1>2. rerun'[e] = (pc'[e] \in Saved)
    BY <1>1 DEF Dispatch
  <1> QED
    BY <1>1, <1>2 DEF CountsFresh, Saved

\* The env on the CPU gives it up at point x.
LEMMA HandOver ==
    ASSUME IInv, pc[cur] \notin {"unborn", "embryo", "fork"}, NEW x, NEW e,
           Fits(x, loc[cur], fdpage[cur], data[cur]),
           GoTo(x), Dispatch(e), UNCHANGED <<maps, ring, loc>>
    PROVE  IInv'
  <1>1. cur' \in Envs /\ rerun' \in [Envs -> BOOLEAN]
    BY DEF Dispatch, Runnable, IInv, TypeOK
  <1>2. /\ fdpage' = [fdpage EXCEPT ![cur] = fdpage[cur]] /\ data' = [data EXCEPT ![cur] = data[cur]]
        /\ loc' = [loc EXCEPT ![cur] = loc[cur]] /\ RingType'
    BY RingKept DEF IInv, TypeOK, maps
  <1>3. Rest'
    BY <1>1, <1>2, CurStep DEF Rest, IInv, GoTo
  <1>4. CountsFresh'
    BY <1>3, DispatchFresh DEF IInv, TypeOK
  <1> QED
    BY <1>3, <1>4 DEF Rest, IInv

\* The clock strikes.
LEMMA ClockStep == ASSUME IInv, NEW e, Clock(e) PROVE IInv'
  <1>1. UNCHANGED <<maps, ring, pc, loc>> /\ cur' \in Envs /\ rerun' \in [Envs -> BOOLEAN] /\ Dispatch(e)
    BY DEF Clock, Dispatch, Runnable, IInv, TypeOK
  <1>2. TypeOK'
    BY <1>1 DEF IInv, TypeOK, maps, ring
  <1>3. CallsGood' /\ ForksGood' /\ AllBacked'
    BY <1>1 DEF IInv, CallsGood, ForksGood, AllBacked, Backed, maps
  <1>4. CountsFresh'
    BY <1>1, <1>2, <1>3, DispatchFresh DEF Rest, IInv, TypeOK
  <1> QED
    BY <1>2, <1>3, <1>4 DEF IInv

\* A reader or writer that found the pipe open yields, and then tries again.
LEMMA YieldStep == ASSUME IInv, NEW e, Yield(e) PROVE IInv'
  <1>1. pc[cur] = "yield" /\ Dispatch(e) /\ UNCHANGED <<maps, ring, loc>> /\ GoTo(loc[cur].op)
    BY DEF Yield, At, GoTo
  <1>2. Fits("yield", loc[cur], fdpage[cur], data[cur])
    BY <1>1, CurFits
  <1>3. loc[cur].op \in {"read", "write"}
    BY <1>2 DEF Fits, CallOf, Testing, Reading, Writing
  <1>4. loc[cur].op \in Points \ {"unborn", "embryo", "fork", "dup_fd"} /\ loc[cur].op \in CallOf(loc[cur].op)
    BY <1>3 DEF Points, Testing, Reading, Writing, CallOf
  <1>5. Fits(loc[cur].op, loc[cur], fdpage[cur], data[cur])
    BY <1>2, <1>4 DEF Fits, Uses
  <1> QED
    BY <1>1, <1>5, HandOver

\* An env without descriptors ends.
LEMMA ExitStep == ASSUME IInv, NEW e, Exit(e) PROVE IInv'
  <1>1. pc[cur] = "user" /\ Dispatch(e) /\ UNCHANGED <<maps, ring, loc>> /\ GoTo("dead")
    BY DEF Exit, At
  <1>2. Fits("user", loc[cur], fdpage[cur], data[cur])
    BY <1>1, CurFits
  <1>3. "dead" \in Points /\ "dead" \notin Uses /\ CallOf("dead") = CallOf("user")
    BY DEF Points, Uses, Testing, Reading, Writing, CallOf
  <1>4. Fits("dead", loc[cur], fdpage[cur], data[cur])
    BY <1>2, <1>3 DEF Fits
  <1> QED
    BY <1>1, <1>4, HandOver

-----------------------------------------------------------------------------
(***************************************************************************)
(* The steps of fork.                                                      *)
(***************************************************************************)

\* The points of an env that is in no call on the pipe.
LEMMA OutsideCalls ==
    /\ CallOf("user") = {"none"} /\ CallOf("embryo") = {"none"} /\ CallOf("unborn") = {"none"}
    /\ CallOf("fork") = {"fork"}
    /\ \A x \in {"user", "embryo", "unborn", "fork"} : x \in Points /\ x \notin Uses
  BY DEF CallOf, Points, Uses, Testing, Reading, Writing

\* fork makes an env of its own.
LEMMA StartForkStep == ASSUME IInv, NEW child \in Envs, StartFork(child) PROVE IInv'
  <1> USE DEF IInv
  <1>1. PICK l : l = [Idle EXCEPT !.op = "fork", !.aux = child]
    OBVIOUS
  <1>2. l = [op |-> "fork", fd |-> 0, n |-> 0, i |-> 0, fd_ref |-> 0, pipe_ref |-> 0, aux |-> child,
             order |-> "byte_first"]
    BY <1>1 DEF Idle
  <1>3. l \in LocRec /\ l.op = "fork" /\ l.aux = child
    BY <1>2, PipeAssumption DEF LocRec, Fds, Envs
  <1>4. pc[cur] = "user" /\ pc[child] = "unborn" /\ cur # child /\ cur \in Envs
          /\ UNCHANGED <<maps, ring, cur, rerun>>
    BY DEF StartFork, At, Stay, TypeOK
  <1>5. /\ pc' = [pc EXCEPT ![cur] = "fork", ![child] = "embryo"] /\ loc' = [loc EXCEPT ![cur] = l]
        /\ fdpage' = fdpage /\ data' = data
    BY <1>1, <1>4 DEF StartFork, maps
  <1>6. /\ pc'[cur] = "fork" /\ pc'[child] = "embryo" /\ loc'[cur] = l
        /\ \A e \in Envs \ {cur, child} : pc'[e] = pc[e]
        /\ \A e \in Envs \ {cur} : loc'[e] = loc[e]
    BY <1>4, <1>5 DEF TypeOK
  <1>7. TypeOK'
    <2>1. pc' \in [Envs -> Points] /\ loc' \in [Envs -> LocRec]
      BY <1>3, <1>4, <1>5, OutsideCalls DEF TypeOK
    <2> QED
      BY <1>4, <1>5, <2>1 DEF TypeOK, ring
  <1>8. CallsGood'
    <2> SUFFICES ASSUME NEW e \in Envs
                 PROVE  /\ loc'[e].op \in CallOf(pc'[e])
                        /\ pc'[e] \in Uses => fdpage[e][loc'[e].fd] \in Ends
                        /\ loc'[e].op = "dup" => loc'[e].aux \in Fds
                        /\ pc'[e] = "dup_fd" => loc'[e].fd \in data[e]
                        /\ pc'[e] = "unborn" => fdpage[e] = [f \in Fds |-> "none"]
      BY <1>5 DEF CallsGood, CallOf, Uses, Testing, Reading, Writing, Ends
    <2>1. CASE e = cur
      BY <1>3, <1>6, <2>1, OutsideCalls
    <2>2. CASE e = child
      <3>1. loc[child].op = "none"
        BY <1>4, OutsideCalls DEF CallsGood
      <3> QED
        BY <1>4, <1>6, <2>2, <3>1, OutsideCalls
    <2>3. CASE e \notin {cur, child}
      BY <1>6, <2>3 DEF CallsGood
    <2> QED
      BY <2>1, <2>2, <2>3
  <1>9. ForksGood'
    BY <1>3, <1>4, <1>6 DEF ForksGood
  <1>10. AllBacked'
    BY <1>4, <1>5, <1>6 DEF AllBacked, Backed
  <1>11. CountsFresh'
    BY <1>4, <1>6 DEF CountsFresh
  <1> QED
    BY <1>7, <1>8, <1>9, <1>10, <1>11

\* duppage touches the maps of the child only, which does not run.
LEMMA DuppageStep == ASSUME IInv, Duppage PROVE IInv'
  <1> USE DEF IInv
  <1>1. pc[cur] = "fork" /\ cur \in Envs /\ UNCHANGED <<ring, pc, loc, cur, rerun>>
    BY DEF Duppage, At, Stay, TypeOK
  <1>2. PICK child \in Envs : child = loc[cur].aux /\ pc[child] = "embryo" /\ child # cur
    BY <1>1 DEF ForksGood
  <1>3. PICK next : next = Min(ToCopy(child))
    OBVIOUS
  <1>4. next \in Fds \/ \E f \in Fds : next = NFD + f
    <2>1. \A p \in ToCopy(child) : p \in Fds \/ \E f \in Fds : p = NFD + f
      <3>1. data[cur] \subseteq Fds
        BY <1>1 DEF TypeOK
      <3> QED
        BY <3>1 DEF ToCopy
    <2>2. ToCopy(child) \subseteq Nat
      BY <2>1, PipeAssumption DEF Fds
    <2>3. ToCopy(child) # {}
      BY <1>2 DEF Duppage
    <2>4. next \in ToCopy(child)
      BY <1>3, <2>2, <2>3, MinIsMember
    <2> QED
      BY <2>1, <2>4
  <1>5. next < NFD => next \in Fds
    BY <1>4, PipeAssumption DEF Fds
  <1>6. next >= NFD => next - NFD \in Fds
    BY <1>4, PipeAssumption DEF Fds
  <1>7. \/ /\ next \in Fds /\ fdpage' = [fdpage EXCEPT ![child][next] = fdpage[cur][next]]
           /\ data' = data
        \/ /\ next - NFD \in Fds /\ data' = [data EXCEPT ![child] = @ \cup {next - NFD}]
           /\ fdpage' = fdpage
    <2>1. next = CHOOSE p \in ToCopy(child) : \A q \in ToCopy(child) : p <= q
      BY <1>3 DEF Min
    <2>2. \/ /\ next < NFD /\ fdpage' = [fdpage EXCEPT ![child][next] = fdpage[cur][next]]
             /\ data' = data
          \/ /\ next >= NFD /\ data' = [data EXCEPT ![child] = @ \cup {next - NFD}]
             /\ fdpage' = fdpage
      BY <1>2, <2>1 DEF Duppage
    <2> QED
      BY <1>5, <1>6, <2>2
  <1>8. fdpage' \in [Envs -> [Fds -> {"none"} \cup Ends]] /\ data' \in [Envs -> SUBSET Fds]
    <2>1. fdpage \in [Envs -> [Fds -> {"none"} \cup Ends]] /\ data \in [Envs -> SUBSET Fds]
      BY DEF TypeOK
    <2>2. CASE next \in Fds /\ fdpage' = [fdpage EXCEPT ![child][next] = fdpage[cur][next]] /\ data' = data
      <3>1. fdpage[cur][next] \in {"none"} \cup Ends
        BY <1>1, <2>1, <2>2
      <3>2. [fdpage[child] EXCEPT ![next] = fdpage[cur][next]] \in [Fds -> {"none"} \cup Ends]
        BY <2>1, <2>2, <3>1
      <3> QED
        BY <2>1, <2>2, <3>2
    <2>3. CASE next - NFD \in Fds /\ data' = [data EXCEPT ![child] = @ \cup {next - NFD}] /\ fdpage' = fdpage
      BY <2>1, <2>3
    <2> QED
      BY <1>7, <2>2, <2>3
  <1>9. TypeOK'
    BY <1>1, <1>8 DEF TypeOK, ring
  <1>10. \A e \in Envs \ {child} : fdpage'[e] = fdpage[e] /\ data'[e] = data[e]
    BY <1>2, <1>7 DEF TypeOK
  <1>11. CallsGood'
    <2> SUFFICES ASSUME NEW e \in Envs
                 PROVE  /\ loc[e].op \in CallOf(pc[e])
                        /\ pc[e] \in Uses => fdpage'[e][loc[e].fd] \in Ends
                        /\ loc[e].op = "dup" => loc[e].aux \in Fds
                        /\ pc[e] = "dup_fd" => loc[e].fd \in data'[e]
                        /\ pc[e] = "unborn" => fdpage'[e] = [f \in Fds |-> "none"]
      BY <1>1 DEF CallsGood, CallOf, Uses, Testing, Reading, Writing, Ends
    <2>1. CASE e = child
      BY <1>2, <2>1, OutsideCalls DEF CallsGood
    <2>2. CASE e # child
      BY <1>10, <2>2 DEF CallsGood
    <2> QED
      BY <2>1, <2>2
  <1>12. ForksGood'
    BY <1>1 DEF ForksGood
  <1>13. AllBacked'
    BY <1>1, <1>2, <1>10 DEF AllBacked, Backed
  <1>14. CountsFresh'
    BY <1>1 DEF CountsFresh
  <1> QED
    BY <1>9, <1>11, <1>12, <1>13, <1>14

\* The child is started with every page of its parent: the Pipe pages too.
LEMMA StartChildStep == ASSUME IInv, StartChild PROVE IInv'
  <1> USE DEF IInv
  <1>1. pc[cur] = "fork" /\ cur \in Envs /\ UNCHANGED <<maps, ring, cur, rerun>>
    BY DEF StartChild, At, Stay, TypeOK
  <1>2. PICK child \in Envs : child = loc[cur].aux /\ pc[child] = "embryo" /\ child # cur
    BY <1>1 DEF ForksGood
  <1>3. /\ pc' = [pc EXCEPT ![cur] = "user", ![child] = "user"] /\ loc' = [loc EXCEPT ![cur] = Idle]
        /\ fdpage' = fdpage /\ data' = data /\ ToCopy(child) = {}
    BY <1>1, <1>2 DEF StartChild, Local, maps
  <1>4. /\ pc'[cur] = "user" /\ pc'[child] = "user" /\ loc'[cur] = Idle
        /\ \A e \in Envs \ {cur, child} : pc'[e] = pc[e]
        /\ \A e \in Envs \ {cur} : loc'[e] = loc[e]
    BY <1>1, <1>2, <1>3 DEF TypeOK
  <1>5. TypeOK'
    <2>1. pc' \in [Envs -> Points] /\ loc' \in [Envs -> LocRec]
      BY <1>1, <1>2, <1>3, OutsideCalls, LocTypes DEF TypeOK
    <2> QED
      BY <1>1, <1>3, <2>1 DEF TypeOK, ring
  <1>6. CallsGood'
    <2> SUFFICES ASSUME NEW e \in Envs
                 PROVE  /\ loc'[e].op \in CallOf(pc'[e])
                        /\ pc'[e] \in Uses => fdpage[e][loc'[e].fd] \in Ends
                        /\ loc'[e].op = "dup" => loc'[e].aux \in Fds
                        /\ pc'[e] = "dup_fd" => loc'[e].fd \in data[e]
                        /\ pc'[e] = "unborn" => fdpage[e] = [f \in Fds |-> "none"]
      BY <1>3 DEF CallsGood, CallOf, Uses, Testing, Reading, Writing, Ends
    <2>1. CASE e = cur
      BY <1>4, <2>1, OutsideCalls, LocTypes
    <2>2. CASE e = child
      <3>1. loc[child].op = "none"
        BY <1>2, OutsideCalls DEF CallsGood
      <3> QED
        BY <1>2, <1>4, <2>2, <3>1, OutsideCalls
    <2>3. CASE e \notin {cur, child}
      BY <1>4, <2>3 DEF CallsGood
    <2> QED
      BY <2>1, <2>2, <2>3
  <1>7. ForksGood'
    BY <1>1, <1>2, <1>4 DEF ForksGood
  <1>8. Backed(child)
    <2> SUFFICES ASSUME NEW f \in Fds, fdpage[child][f] # "none" PROVE f \in data[child]
      BY DEF Backed
    <2>1. fdpage[cur][f] = fdpage[child][f]
      BY <1>3 DEF ToCopy
    <2>2. f \in data[cur]
      BY <1>1, <2>1 DEF AllBacked, Backed
    <2> QED
      BY <1>3, <2>2 DEF ToCopy
  <1>9. AllBacked'
    BY <1>1, <1>3, <1>4, <1>8 DEF AllBacked, Backed
  <1>10. CountsFresh'
    BY <1>1, <1>4 DEF CountsFresh
  <1> QED
    BY <1>5, <1>6, <1>7, <1>9, <1>10

-----------------------------------------------------------------------------
\* The invariant is inductive, wherever the clock strikes.
THEOREM NextIInv == IInv /\ [Next]_vars => IInv'
  <1> SUFFICES ASSUME IInv, [Next]_vars PROVE IInv'
    OBVIOUS
  <1>1. CASE UNCHANGED vars
    <2>1. TypeOK'
      BY <1>1 DEF vars, maps, ring, sched, IInv, TypeOK
    <2>2. CallsGood' /\ ForksGood' /\ AllBacked'
      BY <1>1 DEF vars, maps, ring, sched, IInv, CallsGood, ForksGood, AllBacked, Backed
    <2>3. CountsFresh'
      BY <1>1 DEF vars, maps, ring, sched, IInv, CountsFresh, FdRef, PipeRef
    <2> QED
      BY <2>1, <2>2, <2>3 DEF IInv
  <1>2. CASE Call
    <2>1. ASSUME NEW f \in Fds, NEW n \in 1..MaxCall, StartRead(f, n) PROVE IInv'
      BY <2>1, EnterStep, PipeAssumption DEF StartRead
    <2>2. ASSUME NEW f \in Fds, NEW n \in 1..MaxCall, StartWrite(f, n) PROVE IInv'
      BY <2>2, EnterStep, PipeAssumption DEF StartWrite
    <2>3. ASSUME NEW f \in Fds, StartPoll(f) PROVE IInv'
      BY <2>3, EnterStep DEF StartPoll
    <2>4. ASSUME NEW f \in Fds, StartClose(f) PROVE IInv'
      BY <2>4, EnterStep DEF StartClose
    <2> QED
      BY <1>2, <2>1, <2>2, <2>3, <2>4, StartDupStep, StartForkStep, ExitStep DEF Call
  <1>3. CASE Progress
    <2>1. CASE Compute
      <3>1. pc[cur] = "user" /\ cur \in Envs /\ UNCHANGED <<maps, ring, pc, loc, cur, rerun>>
        BY <2>1 DEF Compute, At, Stay, IInv, TypeOK
      <3>2. TypeOK'
        BY <3>1 DEF maps, ring, IInv, TypeOK
      <3>3. CallsGood' /\ ForksGood' /\ AllBacked'
        BY <3>1 DEF maps, IInv, CallsGood, ForksGood, AllBacked, Backed
      <3>4. CountsFresh'
        BY <3>1 DEF CountsFresh
      <3> QED
        BY <3>2, <3>3, <3>4 DEF IInv
    <2> QED
      BY <1>3, <2>1, ReadLoopStep, ReadFirstStep, ReadSecondStep, WriteLoopStep, WriteFirstStep,
         WriteSecondStep, SaveRunsStep, ReadFdRefStep, ReadPipeRefStep, CompareStep, CloseFdStep,
         CloseDataStep, DupDataStep, DupFdStep, DuppageStep, StartChildStep DEF Progress
  <1>4. ASSUME NEW e \in Envs, Switch(e) PROVE IInv'
    BY <1>4, ClockStep, YieldStep DEF Switch
  <1> QED
    BY <1>1, <1>2, <1>3, <1>4 DEF Next

\* Every reachable state satisfies it.
THEOREM SpecIInv == Spec => []IInv
  <1> QED
    BY InitIInv, NextIInv, PTL DEF Spec

\* pipe.c:95-118 with fd.c:94-178 and fork.c:76-153: for any number of envs and
\* descriptors, whatever the order of closes, dups and forks, the closed test
\* misses at most the open ends that a fork has half copied; with no fork half
\* way a pipe whose other end is open is never reported closed.
THEOREM NoFalseClosedHolds == Spec => []NoFalseClosed
  <1> QED
    BY SpecIInv, NeverFalse, PTL

-----------------------------------------------------------------------------
(***************************************************************************)
(* Positions that wrap around.                                             *)
(***************************************************************************)

\* Division with remainder.
LEMMA Euclid ==
    ASSUME NEW a \in Int, NEW n \in Nat, 0 < n
    PROVE  \E q \in Int, r \in 0..(n - 1) : a = n * q + r /\ a % n = r
  <1>1. PICK q \in Int : q = a \div n
    OBVIOUS
  <1>2. PICK d \in Int : d = n * q
    OBVIOUS
  <1>3. a % n = a - d
    BY <1>1, <1>2, Z3
  <1>4. a % n \in 0..(n - 1)
    OBVIOUS
  <1>5. PICK r \in 0..(n - 1) : r = a % n
    BY <1>4
  <1>6. r = a - d
    BY <1>3, <1>5
  <1>7. a = d + r
    BY <1>6
  <1> QED
    BY <1>2, <1>5, <1>7

\* A positive multiple of n is no less than n.
LEMMA AtLeast ==
    ASSUME NEW k \in Int, NEW n \in Nat, 1 <= k
    PROVE  n <= n * k
  OBVIOUS

\* The remainder is unique.
LEMMA Remainder ==
    ASSUME NEW a \in Int, NEW n \in Nat, 0 < n, NEW q \in Int, NEW r \in 0..(n - 1), a = n * q + r
    PROVE  a % n = r
  <1>1. PICK p \in Int, s \in 0..(n - 1) : a = n * p + s /\ a % n = s
    BY Euclid
  <1>3. n * (q - p) = s - r /\ n * (p - q) = r - s
    BY <1>1
  <1>4. ~(1 <= q - p) /\ ~(1 <= p - q)
    <2>1. q - p \in Int /\ p - q \in Int
      OBVIOUS
    <2>2. 1 <= q - p => n <= s - r
      BY <1>3, <2>1, AtLeast
    <2>3. 1 <= p - q => n <= r - s
      BY <1>3, <2>1, AtLeast
    <2> QED
      BY <2>2, <2>3, <1>1
  <1>5. q = p
    BY <1>4
  <1> QED
    BY <1>1, <1>5

\* A position modulo w, moved on by j places of a ring of n.
LEMMA ModShift ==
    ASSUME NEW w \in Nat, NEW n \in Nat, 0 < n, 0 < w, w % n = 0, NEW a \in Int, NEW j \in Int
    PROVE  ((a % w) + j) % n = (a + j) % n
  <1>1. PICK k \in Int : w = n * k
    <2>1. w \in Int
      OBVIOUS
    <2>2. PICK k \in Int, s \in 0..(n - 1) : w = n * k + s /\ w % n = s
      BY <2>1, Euclid
    <2> QED
      BY <2>2
  <1>2. PICK q \in Int, r \in 0..(w - 1) : a = w * q + r /\ a % w = r
    BY Euclid
  <1>3. PICK p \in Int, s \in 0..(n - 1) : r + j = n * p + s /\ (r + j) % n = s
    <2>1. r + j \in Int
      OBVIOUS
    <2> QED
      BY <2>1, Euclid
  <1>4. a + j = n * (k * q + p) + s /\ k * q + p \in Int /\ a + j \in Int
    <2>1. w * q = n * (k * q) /\ k * q \in Int
      BY <1>1
    <2>2. n * (k * q + p) = n * (k * q) + n * p /\ n * p \in Int /\ n * (k * q) \in Int
      BY <2>1
    <2> QED
      BY <1>2, <1>3, <2>1, <2>2
  <1>5. (a + j) % n = s
    BY <1>4, Remainder
  <1> QED
    BY <1>2, <1>3, <1>5

\* The place of a position in the ring.
LEMMA ModPlace ==
    ASSUME NEW w \in Nat, NEW n \in Nat, 0 < n, 0 < w, w % n = 0, NEW a \in Nat
    PROVE  (a % w) % n = a % n
  <1>0. a \in Int
    OBVIOUS
  <1>1. PICK j \in Int : j = 0
    OBVIOUS
  <1>2. ((a % w) + j) % n = (a + j) % n
    BY <1>0, ModShift
  <1>3. a % w \in Int /\ a \in Int
    OBVIOUS
  <1>4. (a % w) + j = a % w /\ a + j = a
    BY <1>1, <1>3
  <1> QED
    BY <1>2, <1>4

\* The difference of two positions less than a round apart.
LEMMA ModDifference ==
    ASSUME NEW n \in Nat, NEW a \in Nat, NEW b \in Nat, a <= b, b - a < n
    PROVE  ((b % n) - (a % n)) % n = b - a
  <1>0. 0 < n /\ a \in Int /\ b \in Int
    OBVIOUS
  <1>1. PICK p \in Int, r \in 0..(n - 1) : a = n * p + r /\ a % n = r
    BY <1>0, Euclid
  <1>2. PICK q \in Int, s \in 0..(n - 1) : b = n * q + s /\ b % n = s
    BY <1>0, Euclid
  <1>3. s - r = n * (p - q) + (b - a)
    <2>1. n * p \in Int /\ n * q \in Int /\ n * (p - q) = n * p - n * q
      OBVIOUS
    <2> QED
      BY <1>1, <1>2, <2>1
  <1>4. p - q \in Int /\ b - a \in 0..(n - 1) /\ s - r \in Int /\ 0 < n
    OBVIOUS
  <1>5. (s - r) % n = b - a
    BY <1>3, <1>4, Remainder
  <1> QED
    BY <1>1, <1>2, <1>5

\* The next position.
LEMMA ModNext ==
    ASSUME NEW n \in Nat, 0 < n, NEW a \in Nat
    PROVE  ((a % n) + 1) % n = (a + 1) % n
  <1>1. PICK p \in Int, r \in 0..(n - 1) : a = n * p + r /\ a % n = r
    BY Euclid
  <1>2. PICK q \in Int, s \in 0..(n - 1) : r + 1 = n * q + s /\ (r + 1) % n = s
    <2>1. r + 1 \in Int
      OBVIOUS
    <2> QED
      BY <2>1, Euclid
  <1>3. a + 1 = n * (p + q) + s /\ p + q \in Int
    BY <1>1, <1>2
  <1>4. (a + 1) % n = s
    <2>1. a + 1 \in Int
      OBVIOUS
    <2> QED
      BY <1>3, <2>1, Remainder
  <1> QED
    BY <1>1, <1>2, <1>4

\* Positions less than a round apart are different places.
LEMMA ModDistinct ==
    ASSUME NEW n \in Nat, NEW a \in Nat, NEW b \in Nat, a < b, b - a < n
    PROVE  b % n # a % n
  <1>0. 0 < n /\ a \in Int /\ b \in Int
    OBVIOUS
  <1>1. PICK p \in Int, r \in 0..(n - 1) : a = n * p + r /\ a % n = r
    BY <1>0, Euclid
  <1>2. PICK q \in Int, s \in 0..(n - 1) : b = n * q + s /\ b % n = s
    BY <1>0, Euclid
  <1>3. s = r => b - a = n * (q - p)
    BY <1>1, <1>2
  <1>4. q - p \in Int /\ (1 <= q - p => n <= n * (q - p))
    BY AtLeast
  <1>5. q - p <= 0 => n * (q - p) <= 0
    BY <1>4
  <1> QED
    BY <1>1, <1>2, <1>3, <1>4, <1>5

-----------------------------------------------------------------------------
(***************************************************************************)
(* The ring: Pipe implements Channel as long as no copy that stores the    *)
(* position before it handles the byte is interrupted half way.            *)
(***************************************************************************)

\* The env on the CPU has stored a position and not yet handled the byte.
Mid(point) == pc[cur] = point /\ loc[cur].order = "pos_first"

\* Where the bytes on their way are.  The positions count modulo WORD.
RingHolds ==
    /\ p_wpos = (IF Mid("wsecond") THEN sent + 1 ELSE sent) % WORD
    /\ p_rpos = (IF Mid("rsecond") THEN Len(got) + 1 ELSE Len(got)) % WORD
    /\ Len(got) <= sent /\ sent - Len(got) <= PIPE_SIZE
    /\ \A k \in Len(got)..(sent - 1) : p_buf[k % PIPE_SIZE] = k + 1

\* One env at a time is in pipe_read, and one in pipe_write.
OneOfAKind == \A e, f \in Envs : loc[e].op = loc[f].op /\ loc[e].op \in {"read", "write"} => e = f

\* A copy of a byte that has begun can be finished.
Copying == {"rfirst", "rsecond", "wfirst", "wsecond"}
CopyGood(e) ==
    /\ pc[e] \in Copying => loc[e].order \in CopyOrders
    /\ pc[e] \in {"rfirst", "rsecond"} => Len(got) < sent
    /\ pc[e] = "rsecond" /\ loc[e].order = "byte_first" => loc[e].aux = Len(got) + 1
    /\ pc[e] \in {"wfirst", "wsecond"} => sent - Len(got) < PIPE_SIZE
    /\ pc[e] = "wsecond" /\ loc[e].order = "byte_first" => p_buf[sent % PIPE_SIZE] = sent + 1

RingInv == RingHolds /\ OneOfAKind /\ ~Torn /\ \A e \in Envs : CopyGood(e)

\* The numbers of the bytes on their way.
OnTheirWay(first, n) == [k \in 1..n |-> first + k]

\* The sizes of the ring and of its positions.
LEMMA RingNumbers ==
    /\ PIPE_SIZE \in Nat /\ 0 < PIPE_SIZE /\ WORD \in Nat /\ 0 < WORD /\ PIPE_SIZE < WORD
    /\ WORD % PIPE_SIZE = 0
  BY PipeAssumption

\* The numbers of bytes sent and received.
LEMMA GotNumbers == TypeOK => sent \in Nat /\ Len(got) \in Nat /\ got \in Seq(Nat)
  BY DEF TypeOK

\* What the ring holds, by the numbers of bytes sent and received.
ContentsFact == TypeOK /\ RingHolds => Contents = OnTheirWay(Len(got), sent - Len(got))
\* The bytes between the two positions, in the order of the ring.
LEMMA ContentsAre == ContentsFact
  <1> SUFFICES ASSUME TypeOK, RingHolds PROVE Contents = OnTheirWay(Len(got), sent - Len(got))
    BY DEF ContentsFact
  <1> DEFINE a == Len(got)
             n == sent - a
  <1>1. a \in Nat /\ sent \in Nat /\ a <= sent /\ n \in Nat
    BY GotNumbers DEF RingHolds
  <1>2. ASSUME NEW k \in 1..n PROVE p_buf[(a + k - 1) % PIPE_SIZE] = a + k
    <2>1. a + k - 1 \in a..(sent - 1) /\ a + k - 1 + 1 = a + k
      BY <1>1
    <2> QED
      BY <2>1 DEF RingHolds
  <1> HIDE DEF n, a
  <1>3. Contents = [k \in 1..n |-> p_buf[(a + k - 1) % PIPE_SIZE]]
    BY DEF Contents, n, a
  <1>4. Contents = [k \in 1..n |-> a + k]
    BY <1>2, <1>3
  <1> QED
    BY <1>4 DEF OnTheirWay, n, a

\* The ring is empty at first.
LEMMA InitRingInv == Init => RingInv
  <1> SUFFICES ASSUME Init PROVE RingInv
    OBVIOUS
  <1>1. Len(got) = 0 /\ sent = 0 /\ p_wpos = 0 /\ p_rpos = 0
    BY DEF Init
  <1>2. 0 % WORD = 0
    <2>1. 0 \in Int /\ 0 \in 0..(WORD - 1) /\ 0 = WORD * 0 + 0
      BY RingNumbers
    <2> QED
      BY <2>1, RingNumbers, Remainder
  <1>3. \A e \in Envs : loc[e].op = "none" /\ pc[e] \in {"user", "unborn"}
    BY LocTypes DEF Init
  <1>4. cur \in Envs
    BY PipeAssumption DEF Init, Envs
  <1>5. ~Mid("wsecond") /\ ~Mid("rsecond") /\ ~Torn
    BY <1>3, <1>4 DEF Mid, Torn, Half
  <1>6. RingHolds
    BY <1>1, <1>2, <1>5, RingNumbers DEF RingHolds
  <1> QED
    BY <1>3, <1>5, <1>6 DEF RingInv, OneOfAKind, CopyGood, Copying

-----------------------------------------------------------------------------
(***************************************************************************)
(* Steps that leave the ring alone.                                        *)
(***************************************************************************)

\* No env begins to copy a byte or enters pipe_read or pipe_write.
NoCopyBegins ==
    \A e \in Envs : /\ pc'[e] \in Copying => pc'[e] = pc[e] /\ loc'[e] = loc[e]
                    /\ loc'[e].op \in {"read", "write"} => loc'[e].op = loc[e].op

\* Without a copy half way the positions are where the bytes are.
LEMMA Settled ==
    ASSUME RingHolds, ~Half(cur)
    PROVE  /\ ~Mid("wsecond") /\ ~Mid("rsecond")
           /\ p_wpos = sent % WORD /\ p_rpos = Len(got) % WORD
  <1>1. ~Mid("wsecond") /\ ~Mid("rsecond")
    BY DEF Mid, Half
  <1> QED
    BY <1>1 DEF RingHolds

\* The clock strikes and the same env goes on, or nothing happens.
LEMMA SameStep == ASSUME RingInv, UNCHANGED <<ring, pc, loc, cur>> PROVE RingInv'
  BY DEF RingInv, RingHolds, OneOfAKind, CopyGood, Torn, Half, Mid, ring

\* Such a step leaves every byte and every copy as it is.
LEMMA AsideStep == ASSUME TypeOK, TypeOK', RingInv, UNCHANGED ring, NoCopyBegins, ~Half(cur) PROVE RingInv'
  <1>0. ~Torn' /\ ~Half(cur)'
    <2>1. \A e \in Envs : ~Half(e)
      BY DEF RingInv, Torn
    <2>2. \A e \in Envs : ~Half(e)'
      BY <2>1 DEF Half, NoCopyBegins, Copying
    <2>3. cur' \in Envs
      BY DEF TypeOK
    <2> QED
      BY <2>2, <2>3 DEF Torn
  <1>1. RingHolds'
    <2>1. ~Mid("wsecond") /\ ~Mid("rsecond") /\ ~Mid("wsecond")' /\ ~Mid("rsecond")'
      BY <1>0 DEF Mid, Half
    <2> QED
      BY <2>1 DEF RingInv, RingHolds, ring
  <1>2. OneOfAKind'
    BY DEF RingInv, OneOfAKind, NoCopyBegins
  <1>3. ASSUME NEW e \in Envs PROVE CopyGood(e)'
    <2>1. CopyGood(e)
      BY DEF RingInv
    <2>2. CASE pc'[e] \in Copying
      BY <2>1, <2>2 DEF NoCopyBegins, CopyGood, ring, Copying
    <2>3. CASE pc'[e] \notin Copying
      BY <2>3 DEF CopyGood, Copying
    <2> QED
      BY <2>2, <2>3
  <1> QED
    BY <1>0, <1>1, <1>2, <1>3 DEF RingInv

\* The env on the CPU goes to x with locals l.
LEMMA CurAside ==
    ASSUME TypeOK, TypeOK', RingInv, UNCHANGED ring, NEW x, NEW l,
           pc' = [pc EXCEPT ![cur] = x], loc' = [loc EXCEPT ![cur] = l],
           pc[cur] \notin Copying, x \notin Copying, l.op \in {"read", "write"} => l.op = loc[cur].op
    PROVE  RingInv'
  <1>1. cur \in Envs /\ pc'[cur] = x /\ loc'[cur] = l
        /\ \A e \in Envs \ {cur} : pc'[e] = pc[e] /\ loc'[e] = loc[e]
    BY DEF TypeOK
  <1>2. NoCopyBegins
    BY <1>1 DEF NoCopyBegins
  <1>3. ~Half(cur)
    BY DEF Half, Copying
  <1> QED
    BY <1>2, <1>3, AsideStep

\* A call that is no read and no write.
LEMMA EnterAside ==
    ASSUME IInv, IInv', RingInv, NEW op, NEW point, NEW fd, NEW n, Enter(op, point, fd, n),
           op \in {"poll", "close"}, point \notin Copying
    PROVE  RingInv'
  <1>1. PICK l : l = [Idle EXCEPT !.op = op, !.fd = fd, !.n = n]
    OBVIOUS
  <1>2. l.op = op
    BY <1>1 DEF Idle
  <1> QED
    BY <1>1, <1>2, CurAside DEF Enter, At, Copying, GoTo, Local, IInv

\* A read or a write begins when no other env is in one.
LEMMA EnterAlone ==
    ASSUME IInv, RingInv, NEW op \in {"read", "write"}, NEW fd, NEW n, Enter(op, op, fd, n),
           \A e \in Envs : loc[e].op # op
    PROVE  RingInv'
  <1>1. PICK l : l = [Idle EXCEPT !.op = op, !.fd = fd, !.n = n]
    OBVIOUS
  <1>2. l.op = op
    BY <1>1 DEF Idle
  <1>3. /\ UNCHANGED ring /\ pc' = [pc EXCEPT ![cur] = op] /\ loc' = [loc EXCEPT ![cur] = l]
        /\ cur' = cur /\ pc[cur] = "user"
    BY <1>1 DEF Enter, At, Stay, GoTo, Local
  <1>4. cur \in Envs /\ pc'[cur] = op /\ loc'[cur] = l
        /\ \A e \in Envs \ {cur} : pc'[e] = pc[e] /\ loc'[e] = loc[e]
    BY <1>3 DEF IInv, TypeOK
  <1>8. ~Mid("wsecond") /\ ~Mid("rsecond") /\ ~Mid("wsecond")' /\ ~Mid("rsecond")' /\ ~Torn'
    BY <1>3, <1>4 DEF Mid, RingInv, Torn, Half
  <1>5. RingHolds'
    BY <1>3, <1>8 DEF RingInv, RingHolds, ring
  <1>6. OneOfAKind'
    BY <1>2, <1>4 DEF RingInv, OneOfAKind
  <1>7. ASSUME NEW e \in Envs PROVE CopyGood(e)'
    <2>1. CASE e = cur
      BY <1>4, <2>1 DEF CopyGood, Copying
    <2>2. CASE e # cur
      BY <1>3, <1>4, <2>2 DEF CopyGood, RingInv, ring
    <2> QED
      BY <2>1, <2>2
  <1> QED
    BY <1>5, <1>6, <1>7, <1>8 DEF RingInv

\* The steps that have nothing to do with the ring.
OutsideRing ==
    \/ \E f \in Fds : StartPoll(f) \/ StartClose(f)
    \/ \E f, g \in Fds : StartDup(f, g)
    \/ \E e \in Envs : StartFork(e) \/ Exit(e) \/ Switch(e)
    \/ SaveRuns \/ ReadFdRef \/ ReadPipeRef \/ Compare
    \/ CloseFd \/ CloseData \/ DupData \/ DupFd \/ Duppage \/ StartChild \/ Compute

\* The clock leaves no copy with the position stored and the byte not handled.
Whole == cur' # cur => ~Half(cur)

\* Descriptors, forks, the closed test and the clock leave the ring alone.
LEMMA OutsideSteps == ASSUME IInv, IInv', RingInv, OutsideRing, Whole PROVE RingInv' /\ UNCHANGED ring
  <1> USE DEF Copying, IInv, At
  <1>1. ASSUME NEW f \in Fds, StartPoll(f) PROVE RingInv' /\ UNCHANGED ring
    BY <1>1, EnterAside DEF StartPoll, Enter
  <1>2. ASSUME NEW f \in Fds, StartClose(f) PROVE RingInv' /\ UNCHANGED ring
    BY <1>2, EnterAside DEF StartClose, Enter
  <1>3. ASSUME NEW f \in Fds, NEW g \in Fds, StartDup(f, g) PROVE RingInv' /\ UNCHANGED ring
    <2>1. PICK l : l = [Idle EXCEPT !.op = "dup", !.fd = g, !.aux = f]
      OBVIOUS
    <2>2. l.op = "dup"
      BY <2>1 DEF Idle
    <2>3. PICK x : x = IF fdpage[cur][g] # "none" THEN "close_fd" ELSE "dup"
      OBVIOUS
    <2>4. /\ UNCHANGED ring /\ pc' = [pc EXCEPT ![cur] = x] /\ loc' = [loc EXCEPT ![cur] = l]
          /\ pc[cur] \notin Copying /\ x \notin Copying
      BY <1>3, <2>1, <2>3 DEF StartDup, GoTo, Local
    <2> QED
      BY <2>2, <2>4, CurAside
  <1>4. ASSUME NEW e \in Envs, StartFork(e) PROVE RingInv' /\ UNCHANGED ring
    <2>1. PICK l : l = [Idle EXCEPT !.op = "fork", !.aux = e]
      OBVIOUS
    <2>2. l.op = "fork"
      BY <2>1 DEF Idle
    <2>3. UNCHANGED ring /\ pc' = [pc EXCEPT ![cur] = "fork", ![e] = "embryo"]
          /\ loc' = [loc EXCEPT ![cur] = l]
      BY <1>4, <2>1 DEF StartFork
    <2>4. cur \in Envs /\ loc'[cur] = l /\ \A d \in Envs \ {cur} : loc'[d] = loc[d]
      BY <2>3 DEF TypeOK
    <2>5. /\ pc'[cur] \in {"fork", "embryo"} /\ pc'[e] \in {"fork", "embryo"}
          /\ \A d \in Envs \ {cur, e} : pc'[d] = pc[d]
      BY <2>3, <2>4 DEF TypeOK
    <2>6. NoCopyBegins
      BY <2>2, <2>4, <2>5 DEF NoCopyBegins
    <2>7. ~Half(cur)
      BY <1>4 DEF StartFork, Half
    <2> QED
      BY <2>3, <2>6, <2>7, AsideStep
  <1>5. ASSUME NEW e \in Envs, Exit(e) PROVE RingInv' /\ UNCHANGED ring
    <2>1. /\ loc' = [loc EXCEPT ![cur] = loc[cur]] /\ UNCHANGED ring /\ pc' = [pc EXCEPT ![cur] = "dead"]
          /\ pc[cur] = "user"
      BY <1>5 DEF Exit, GoTo, TypeOK
    <2> QED
      BY <2>1, CurAside
  <1>6. ASSUME NEW e \in Envs, Switch(e) PROVE RingInv' /\ UNCHANGED ring
    <2>1. CASE Clock(e)
      <3>1. UNCHANGED <<ring, pc, loc>> /\ NoCopyBegins
        BY <2>1 DEF Clock, NoCopyBegins
      <3>2. CASE cur' = cur
        BY <3>1, <3>2, SameStep
      <3>3. CASE cur' # cur
        BY <3>1, <3>3, AsideStep DEF Whole
      <3> QED
        BY <3>1, <3>2, <3>3
    <2>2. CASE Yield(e)
      <3>1. pc[cur] = "yield" /\ pc' = [pc EXCEPT ![cur] = loc[cur].op] /\ loc' = loc /\ UNCHANGED ring
        BY <2>2 DEF Yield, At
      <3>2. loc[cur].op \in {"read", "write"}
        BY <3>1, CurFits DEF Fits, CallOf, Testing, Reading, Writing
      <3>3. loc' = [loc EXCEPT ![cur] = loc[cur]]
        BY <3>1 DEF TypeOK
      <3> QED
        BY <3>1, <3>2, <3>3, CurAside
    <2> QED
      BY <1>6, <2>1, <2>2 DEF Switch
  <1>7. CASE SaveRuns
    <2>1. /\ loc' = [loc EXCEPT ![cur] = loc[cur]] /\ UNCHANGED ring /\ pc' = [pc EXCEPT ![cur] = "fd_ref"]
          /\ pc[cur] = "runs"
      BY <1>7 DEF SaveRuns, GoTo, TypeOK
    <2> QED
      BY <2>1, CurAside
  <1>8. CASE ReadFdRef
    <2>1. PICK l : l = [loc[cur] EXCEPT !.fd_ref = FdRef(fdpage[cur][loc[cur].fd])]
      OBVIOUS
    <2>2. loc[cur] \in LocRec
      BY DEF TypeOK
    <2>3. l.op = loc[cur].op
      BY <2>1, <2>2 DEF LocRec
    <2> QED
      BY <1>8, <2>1, <2>3, CurAside DEF ReadFdRef, GoTo, Local
  <1>9. CASE ReadPipeRef
    <2>1. PICK l : l = [loc[cur] EXCEPT !.pipe_ref = PipeRef]
      OBVIOUS
    <2>2. loc[cur] \in LocRec
      BY DEF TypeOK
    <2>3. l.op = loc[cur].op
      BY <2>1, <2>2 DEF LocRec
    <2> QED
      BY <1>9, <2>1, <2>3, CurAside DEF ReadPipeRef, GoTo, Local
  <1>10. CASE Compare
    <2>1. loc[cur] \in LocRec
      BY DEF TypeOK
    <2>2. Forget(loc[cur]).op = loc[cur].op /\ Idle.op = "none"
      BY <2>1, LocTypes
    <2>3. PICK x, l : /\ UNCHANGED ring /\ pc' = [pc EXCEPT ![cur] = x] /\ loc' = [loc EXCEPT ![cur] = l]
                      /\ x \in {"runs", "user", "yield"} /\ l \in {Forget(loc[cur]), Idle}
                      /\ pc[cur] = "compare"
      BY <1>10 DEF Compare, GoTo, Local, Return
    <2> QED
      BY <2>2, <2>3, CurAside
  <1>11. CASE CloseFd
    <2>1. /\ loc' = [loc EXCEPT ![cur] = loc[cur]] /\ UNCHANGED ring /\ pc' = [pc EXCEPT ![cur] = "close_data"]
          /\ pc[cur] = "close_fd"
      BY <1>11 DEF CloseFd, GoTo, TypeOK
    <2> QED
      BY <2>1, CurAside
  <1>12. CASE CloseData
    <2>1. PICK x, l : /\ UNCHANGED ring /\ pc' = [pc EXCEPT ![cur] = x] /\ loc' = [loc EXCEPT ![cur] = l]
                      /\ x \in {"dup", "user"} /\ l \in {loc[cur], Idle}
                      /\ pc[cur] = "close_data"
      <3>1. UNCHANGED loc => loc' = [loc EXCEPT ![cur] = loc[cur]]
        BY DEF TypeOK
      <3> QED
        BY <1>12, <3>1 DEF CloseData, AfterClose, GoTo, Local, Return
    <2> QED
      BY <2>1, LocTypes, CurAside
  <1>13. CASE DupData
    <2>1. /\ loc' = [loc EXCEPT ![cur] = loc[cur]] /\ UNCHANGED ring /\ pc' = [pc EXCEPT ![cur] = "dup_fd"]
          /\ pc[cur] = "dup"
      BY <1>13 DEF DupData, GoTo, TypeOK
    <2> QED
      BY <2>1, CurAside
  <1>14. CASE DupFd
    BY <1>14, LocTypes, CurAside DEF DupFd, Return, GoTo, Local
  <1>15. CASE Duppage
    BY <1>15, AsideStep DEF Duppage, NoCopyBegins, Half
  <1>16. CASE StartChild
    <2>1. PICK child : child = loc[cur].aux
      OBVIOUS
    <2>2. UNCHANGED ring /\ loc' = [loc EXCEPT ![cur] = Idle]
          /\ pc' = [pc EXCEPT ![cur] = "user", ![child] = "user"]
      BY <1>16, <2>1 DEF StartChild, Local
    <2>3. cur \in Envs /\ loc'[cur] = Idle /\ \A d \in Envs \ {cur} : loc'[d] = loc[d]
      BY <2>2 DEF TypeOK
    <2>4. \A d \in Envs : pc'[d] \in {"user", pc[d]} /\ (d = cur => pc'[d] = "user")
      BY <2>2 DEF TypeOK
    <2>5. NoCopyBegins
      BY <2>3, <2>4, LocTypes DEF NoCopyBegins
    <2>6. ~Half(cur)
      BY <1>16 DEF StartChild, Half
    <2> QED
      BY <2>2, <2>5, <2>6, AsideStep
  <1>17. CASE Compute
    BY <1>17, AsideStep DEF Compute, NoCopyBegins, Half
  <1> QED
    BY <1>1, <1>2, <1>3, <1>4, <1>5, <1>6, <1>7, <1>8, <1>9, <1>10, <1>11, <1>12, <1>13, <1>14,
       <1>15, <1>16, <1>17 DEF OutsideRing

-----------------------------------------------------------------------------
(***************************************************************************)
(* The loops of pipe_read and pipe_write.                                  *)
(***************************************************************************)

\* The two tests, by the numbers of bytes sent and received.
LEMMA Tests ==
    ASSUME TypeOK, RingHolds, ~Half(cur)
    PROVE  /\ ~Empty => Len(got) < sent
           /\ ~Full => sent - Len(got) < PIPE_SIZE
  <1> DEFINE a == Len(got)
  <1>1. a \in Nat /\ sent \in Nat /\ a <= sent /\ sent - a <= PIPE_SIZE
    BY GotNumbers DEF RingHolds
  <1>2. p_wpos = sent % WORD /\ p_rpos = a % WORD /\ p_wpos \in Int /\ p_rpos \in Int
    BY Settled DEF TypeOK
  <1> HIDE DEF a
  <1>3. a = sent => Empty
    BY <1>2 DEF Empty
  <1>4. ((sent % WORD) - (a % WORD)) % WORD = sent - a
    <2>1. sent - a < WORD
      BY <1>1, RingNumbers
    <2> QED
      BY <1>1, <2>1, RingNumbers, ModDifference
  <1>5. (p_wpos - p_rpos) % WORD = sent - a
    BY <1>2, <1>4
  <1>6. ~Full => sent - a < PIPE_SIZE
    BY <1>1, <1>5, RingNumbers DEF Full
  <1>7. ~Empty => a < sent
    BY <1>1, <1>3
  <1> QED
    BY <1>6, <1>7 DEF a

\* The first half of a copy is next.
LEMMA BeginCopy ==
    ASSUME IInv, RingInv, UNCHANGED ring, NEW x, NEW l \in LocRec,
           pc' = [pc EXCEPT ![cur] = x], loc' = [loc EXCEPT ![cur] = l],
           cur' = cur, pc[cur] \notin Copying, l.order \in CopyOrders, l.op = loc[cur].op,
           \/ x = "rfirst" /\ ~Empty
           \/ x = "wfirst" /\ ~Full
    PROVE  RingInv'
  <1>1. cur \in Envs /\ pc'[cur] = x /\ loc'[cur] = l
        /\ \A e \in Envs \ {cur} : pc'[e] = pc[e] /\ loc'[e] = loc[e]
    BY DEF IInv, TypeOK
  <1>6. ~Half(cur)
    BY DEF Half, Copying
  <1>7. ~Mid("wsecond") /\ ~Mid("rsecond") /\ ~Mid("wsecond")' /\ ~Mid("rsecond")' /\ ~Torn'
    BY <1>1, <1>6 DEF Mid, RingInv, Torn, Half
  <1>2. RingHolds'
    BY <1>7 DEF RingInv, RingHolds, ring
  <1>3. OneOfAKind'
    BY <1>1 DEF RingInv, OneOfAKind
  <1>4. /\ x = "rfirst" => Len(got) < sent
        /\ x = "wfirst" => sent - Len(got) < PIPE_SIZE
    BY <1>6, Tests DEF IInv, RingInv
  <1>5. ASSUME NEW e \in Envs PROVE CopyGood(e)'
    <2>1. CASE e = cur
      BY <1>1, <1>4, <2>1 DEF CopyGood, Copying, ring
    <2>2. CASE e # cur
      BY <1>1, <2>2 DEF CopyGood, RingInv, ring
    <2> QED
      BY <2>1, <2>2
  <1> QED
    BY <1>2, <1>3, <1>5, <1>7 DEF RingInv

\* A record of locals with the order that was picked.
LEMMA OrderPicked ==
    ASSUME NEW l \in LocRec, NEW o \in {"byte_first", "pos_first"}
    PROVE  LET y == [l EXCEPT !.order = o]
           IN  y \in LocRec /\ y.op = l.op /\ y.order = o
  <1>1. PICK y : y = [l EXCEPT !.order = o]
    OBVIOUS
  <1>2. y = [op |-> l.op, fd |-> l.fd, n |-> l.n, i |-> l.i, fd_ref |-> l.fd_ref,
             pipe_ref |-> l.pipe_ref, aux |-> l.aux, order |-> o]
    BY <1>1 DEF LocRec
  <1> QED
    BY <1>1, <1>2 DEF LocRec

\* The heads of the loops decide on a ring that the other side may change
\* afterwards, in the favourable direction only.
LEMMA LoopsKeepRing ==
    ASSUME IInv, IInv', RingInv, ReadLoop \/ WriteLoop
    PROVE  RingInv' /\ UNCHANGED ring
  <1>1. loc[cur] \in LocRec /\ UNCHANGED ring /\ cur' = cur /\ pc[cur] \notin Copying
    BY DEF IInv, TypeOK, ReadLoop, WriteLoop, At, Stay, Copying
  <1>2. CASE Return
    BY <1>1, <1>2, LocTypes, CurAside DEF IInv, Return, GoTo, Local, Copying
  <1>3. CASE GoTo("runs") /\ UNCHANGED loc
    <2>1. loc' = [loc EXCEPT ![cur] = loc[cur]] /\ pc' = [pc EXCEPT ![cur] = "runs"]
      BY <1>3 DEF IInv, TypeOK, GoTo
    <2> QED
      BY <1>1, <2>1, CurAside DEF IInv, Copying
  <1>4. ASSUME NEW o \in CopyOrders, Local([loc[cur] EXCEPT !.order = o]),
               (GoTo("rfirst") /\ ~Empty) \/ (GoTo("wfirst") /\ ~Full)
        PROVE  RingInv'
    <2>1. PICK l : l = [loc[cur] EXCEPT !.order = o]
      OBVIOUS
    <2>2. o \in {"byte_first", "pos_first"}
      BY PipeAssumption
    <2>3. l \in LocRec /\ l.op = loc[cur].op /\ l.order \in CopyOrders
      BY <1>1, <2>1, <2>2, OrderPicked
    <2> QED
      BY <1>1, <1>4, <2>1, <2>3, BeginCopy DEF GoTo, Local
  <1>5. \/ Return
        \/ GoTo("runs") /\ UNCHANGED loc
        \/ \E o \in CopyOrders : /\ Local([loc[cur] EXCEPT !.order = o])
                                 /\ (GoTo("rfirst") /\ ~Empty) \/ (GoTo("wfirst") /\ ~Full)
    <2>1. CASE ReadLoop
      BY <2>1 DEF ReadLoop
    <2>2. CASE WriteLoop
      BY <2>2 DEF WriteLoop
    <2> QED
      BY <2>1, <2>2
  <1> QED
    BY <1>1, <1>2, <1>3, <1>4, <1>5

-----------------------------------------------------------------------------
(***************************************************************************)
(* The copy of a byte.                                                     *)
(***************************************************************************)

\* Whoever copies is in the call of its kind, and nobody else is.
LEMMA OthersElsewhere ==
    ASSUME IInv, RingInv
    PROVE  /\ pc[cur] \in Reading => \A e \in Envs \ {cur} : pc[e] \notin Reading
           /\ pc[cur] \in Writing => \A e \in Envs \ {cur} : pc[e] \notin Writing
  <1>1. \A e \in Envs : /\ pc[e] \in Reading => loc[e].op = "read"
                        /\ pc[e] \in Writing => loc[e].op = "write"
    BY DEF IInv, CallsGood, CallOf, Testing, Reading, Writing
  <1>2. cur \in Envs
    BY DEF IInv, TypeOK
  <1> QED
    BY <1>1, <1>2 DEF RingInv, OneOfAKind

\* A position that was stored first, taken back by one, modulo WORD.
LEMMA ModBack ==
    ASSUME NEW a \in Nat
    PROVE  ((((a + 1) % WORD) - 1) % WORD) % PIPE_SIZE = a % PIPE_SIZE
  <1>1. WORD % WORD = 0
    <2>1. WORD \in Int /\ 0 \in 0..(WORD - 1) /\ 1 \in Int /\ WORD = WORD * 1 + 0
      BY RingNumbers
    <2> QED
      BY <2>1, RingNumbers, Remainder
  <1>2. PICK j \in Int : j = 0 - 1
    OBVIOUS
  <1>3. PICK b \in Int : b = a + 1
    OBVIOUS
  <1>4. ((b % WORD) + j) % WORD = (b + j) % WORD
    BY <1>1, RingNumbers, ModShift
  <1>5. b + j = a
    BY <1>2, <1>3
  <1>6. (b % WORD) + j = ((a + 1) % WORD) - 1
    <2>1. b % WORD \in Int
      BY RingNumbers
    <2> QED
      BY <1>2, <1>3, <2>1
  <1>7. (a % WORD) % PIPE_SIZE = a % PIPE_SIZE
    BY RingNumbers, ModPlace
  <1> QED
    BY <1>4, <1>5, <1>6, <1>7

\* The env on the CPU goes on: no copy of another env is half way.
LEMMA StillWhole ==
    ASSUME RingInv, cur' = cur, \A e \in Envs \ {cur} : pc'[e] = pc[e] /\ loc'[e] = loc[e]
    PROVE  ~Torn'
  BY DEF RingInv, Torn, Half

\* The byte is loaded, and is the next one; or its position is given up, and
\* the byte stays where it is.
LEMMA ReadFirstKeeps == ASSUME IInv, RingInv, ReadFirst PROVE RingInv' /\ UNCHANGED <<p_wpos, p_buf, sent, got>>
  <1>1. cur \in Envs /\ pc[cur] = "rfirst" /\ loc[cur] \in LocRec /\ cur' = cur
        /\ UNCHANGED <<p_wpos, p_buf, sent, got>> /\ pc' = [pc EXCEPT ![cur] = "rsecond"]
    BY DEF IInv, TypeOK, ReadFirst, At, GoTo, Stay
  <1>2. /\ Len(got) < sent /\ loc[cur].order \in CopyOrders
        /\ Len(got) \in Nat /\ sent \in Nat /\ Len(got) \in Len(got)..(sent - 1)
    BY <1>1, GotNumbers DEF RingInv, CopyGood, Copying, IInv
  <1>3. ~Mid("wsecond") /\ ~Mid("rsecond") /\ p_wpos = sent % WORD /\ p_rpos = Len(got) % WORD
    BY <1>1, Settled DEF Half, RingInv
  <1>4. PICK l : /\ loc' = [loc EXCEPT ![cur] = l] /\ l.op = loc[cur].op /\ l.order = loc[cur].order
                 /\ l.order = "byte_first" => l.aux = Len(got) + 1 /\ p_rpos' = p_rpos
                 /\ l.order # "byte_first" => l.order = "pos_first" /\ p_rpos' = (p_rpos + 1) % WORD
    <2>1. CASE loc[cur].order = "byte_first"
      <3>1. PICK b : b = p_buf[p_rpos % PIPE_SIZE]
        OBVIOUS
      <3>2. PICK l : l = [loc[cur] EXCEPT !.aux = b]
        OBVIOUS
      <3>3. l.aux = b /\ l.op = loc[cur].op /\ l.order = loc[cur].order
        BY <1>1, <3>2 DEF LocRec
      <3>4. b = Len(got) + 1
        <4>1. (Len(got) % WORD) % PIPE_SIZE = Len(got) % PIPE_SIZE
          BY <1>2, RingNumbers, ModPlace
        <4> QED
          BY <1>2, <1>3, <3>1, <4>1 DEF RingInv, RingHolds
      <3>5. loc' = [loc EXCEPT ![cur] = l] /\ p_rpos' = p_rpos
        BY <2>1, <3>1, <3>2 DEF ReadFirst, Local
      <3> QED
        BY <2>1, <3>3, <3>4, <3>5
    <2>2. CASE loc[cur].order # "byte_first"
      <3>1. loc[cur].order = "pos_first" /\ p_rpos' = (p_rpos + 1) % WORD /\ loc' = loc
        BY <2>2 DEF ReadFirst
      <3>2. loc' = [loc EXCEPT ![cur] = loc[cur]]
        BY <3>1 DEF IInv, TypeOK
      <3> QED
        BY <2>2, <3>1, <3>2
    <2> QED
      BY <2>1, <2>2
  <1>5. pc'[cur] = "rsecond" /\ loc'[cur] = l
        /\ \A e \in Envs \ {cur} : pc'[e] = pc[e] /\ loc'[e] = loc[e]
    BY <1>1, <1>4 DEF IInv, TypeOK
  <1>6. ~Torn'
    BY <1>1, <1>5, StillWhole
  <1>7. p_rpos' = (IF Mid("rsecond")' THEN Len(got) + 1 ELSE Len(got)) % WORD /\ ~Mid("wsecond")'
    <2>1. ((Len(got) % WORD) + 1) % WORD = (Len(got) + 1) % WORD
      BY <1>2, RingNumbers, ModNext
    <2>2. Mid("rsecond")' <=> l.order = "pos_first"
      BY <1>1, <1>5 DEF Mid
    <2>3. ~Mid("wsecond")'
      BY <1>1, <1>5 DEF Mid
    <2> QED
      BY <1>3, <1>4, <2>1, <2>2, <2>3
  <1>8. RingHolds'
    BY <1>1, <1>3, <1>7 DEF RingInv, RingHolds
  <1>9. OneOfAKind'
    BY <1>4, <1>5 DEF RingInv, OneOfAKind
  <1>10. ASSUME NEW e \in Envs PROVE CopyGood(e)'
    <2>1. CASE e = cur
      BY <1>1, <1>2, <1>4, <1>5, <2>1 DEF CopyGood
    <2>2. CASE e # cur
      BY <1>1, <1>5, <2>2 DEF CopyGood, RingInv
    <2> QED
      BY <2>1, <2>2
  <1> QED
    BY <1>1, <1>6, <1>8, <1>9, <1>10 DEF RingInv

\* The other half: the byte has been received.
LEMMA ReadSecondKeeps ==
    ASSUME IInv, RingInv, ReadSecond
    PROVE  RingInv' /\ got' = Append(got, Len(got) + 1) /\ Len(got) < sent /\ sent' = sent
  <1>1. cur \in Envs /\ pc[cur] = "rsecond" /\ loc[cur] \in LocRec /\ cur' = cur
        /\ UNCHANGED <<p_wpos, p_buf, sent>>
    BY DEF IInv, TypeOK, ReadSecond, At, Stay
  <1>2. /\ Len(got) < sent /\ Len(got) \in Nat /\ sent \in Nat /\ Len(got) \in Len(got)..(sent - 1)
        /\ loc[cur].order = "byte_first" => loc[cur].aux = Len(got) + 1
    BY <1>1, GotNumbers DEF RingInv, CopyGood, IInv
  <1>3. got' = Append(got, Len(got) + 1) /\ p_rpos' = (Len(got) + 1) % WORD
    <2>1. CASE loc[cur].order = "byte_first"
      <3>1. p_rpos = Len(got) % WORD
        BY <1>1, <2>1 DEF RingInv, RingHolds, Mid
      <3>2. ((Len(got) % WORD) + 1) % WORD = (Len(got) + 1) % WORD
        BY <1>2, RingNumbers, ModNext
      <3> QED
        BY <1>2, <2>1, <3>1, <3>2 DEF ReadSecond
    <2>2. CASE loc[cur].order # "byte_first"
      <3>1. /\ loc[cur].order = "pos_first" /\ p_rpos' = p_rpos
            /\ got' = Append(got, p_buf[((p_rpos - 1) % WORD) % PIPE_SIZE])
        BY <2>2 DEF ReadSecond
      <3>2. p_rpos = (Len(got) + 1) % WORD
        BY <1>1, <3>1 DEF RingInv, RingHolds, Mid
      <3>3. ((p_rpos - 1) % WORD) % PIPE_SIZE = Len(got) % PIPE_SIZE
        BY <1>2, <3>2, ModBack
      <3>4. p_buf[Len(got) % PIPE_SIZE] = Len(got) + 1
        BY <1>2 DEF RingInv, RingHolds
      <3> QED
        BY <3>1, <3>2, <3>3, <3>4
    <2> QED
      BY <2>1, <2>2
  <1>4. PICK l : l = [loc[cur] EXCEPT !.i = @ + 1, !.aux = 0, !.order = "byte_first"]
    OBVIOUS
  <1>5. l.op = loc[cur].op
    BY <1>1, <1>4 DEF LocRec
  <1>6. pc' = [pc EXCEPT ![cur] = "read"] /\ loc' = [loc EXCEPT ![cur] = l]
    BY <1>4 DEF ReadSecond, GoTo, Local
  <1>7. pc'[cur] = "read" /\ loc'[cur] = l
        /\ \A e \in Envs \ {cur} : pc'[e] = pc[e] /\ loc'[e] = loc[e]
    BY <1>1, <1>6 DEF IInv, TypeOK
  <1>8. Len(got') = Len(got) + 1
    BY <1>2, <1>3, GotNumbers DEF IInv
  <1>9. RingHolds'
    <2>1. ~Mid("wsecond") /\ ~Mid("wsecond")' /\ ~Mid("rsecond")'
      BY <1>1, <1>7 DEF Mid
    <2>2. p_rpos' = Len(got') % WORD /\ p_wpos' = sent' % WORD
      BY <1>1, <1>3, <1>8, <2>1 DEF RingInv, RingHolds
    <2>3. Len(got') <= sent /\ sent - Len(got') <= PIPE_SIZE
      BY <1>2, <1>8, RingNumbers DEF RingInv, RingHolds
    <2>4. \A k \in Len(got')..(sent - 1) : k \in Len(got)..(sent - 1)
      BY <1>2, <1>8
    <2> QED
      BY <1>1, <2>1, <2>2, <2>3, <2>4 DEF RingInv, RingHolds
  <1>10. OneOfAKind' /\ ~Torn'
    BY <1>1, <1>5, <1>7, StillWhole DEF RingInv, OneOfAKind
  <1>11. ASSUME NEW e \in Envs PROVE CopyGood(e)'
    <2>1. CASE e = cur
      BY <1>7, <2>1 DEF CopyGood, Copying
    <2>2. CASE e # cur
      <3>1. pc'[e] \notin Reading /\ CopyGood(e)
        BY <1>1, <1>7, <2>2, OthersElsewhere DEF Reading, RingInv
      <3>2. sent - Len(got) < PIPE_SIZE => sent - Len(got') < PIPE_SIZE
        BY <1>2, <1>8, RingNumbers
      <3> QED
        BY <1>1, <1>7, <2>2, <3>1, <3>2 DEF CopyGood, Reading, Copying
    <2> QED
      BY <2>1, <2>2
  <1> QED
    BY <1>1, <1>2, <1>3, <1>9, <1>10, <1>11 DEF RingInv

\* The place of the next byte is none of those of the bytes on their way.
LEMMA RoomForOne ==
    ASSUME IInv, RingInv, sent - Len(got) < PIPE_SIZE
    PROVE  /\ sent % PIPE_SIZE \in 0..(PIPE_SIZE - 1)
           /\ \A k \in Len(got)..(sent - 1) : /\ k % PIPE_SIZE \in 0..(PIPE_SIZE - 1)
                                              /\ sent % PIPE_SIZE # k % PIPE_SIZE
  <1>1. Len(got) \in Nat /\ sent \in Nat
    BY GotNumbers DEF IInv
  <1>2. ASSUME NEW k \in Len(got)..(sent - 1)
        PROVE  k % PIPE_SIZE \in 0..(PIPE_SIZE - 1) /\ sent % PIPE_SIZE # k % PIPE_SIZE
    <2>1. k \in Nat /\ k < sent /\ sent - k < PIPE_SIZE
      BY <1>1, RingNumbers
    <2>2. sent % PIPE_SIZE # k % PIPE_SIZE
      BY <1>1, <2>1, RingNumbers, ModDistinct
    <2>3. k % PIPE_SIZE \in 0..(PIPE_SIZE - 1)
      BY <2>1, RingNumbers
    <2> QED
      BY <2>2, <2>3
  <1> QED
    BY <1>1, <1>2, RingNumbers

\* The byte is stored where the ring has room: no byte on its way is lost.  Or
\* its place is taken first.
LEMMA WriteFirstKeeps ==
    ASSUME IInv, RingInv, WriteFirst
    PROVE  RingInv' /\ UNCHANGED <<p_rpos, sent, got>>
  <1>1. cur \in Envs /\ pc[cur] = "wfirst" /\ cur' = cur /\ UNCHANGED <<p_rpos, sent, got, loc>>
        /\ pc' = [pc EXCEPT ![cur] = "wsecond"]
    BY DEF IInv, TypeOK, WriteFirst, At, Stay, GoTo
  <1>2. /\ sent - Len(got) < PIPE_SIZE /\ Len(got) \in Nat /\ sent \in Nat
        /\ loc[cur].order \in CopyOrders
    BY <1>1, GotNumbers DEF RingInv, CopyGood, Copying, IInv
  <1>3. ~Mid("wsecond") /\ ~Mid("rsecond") /\ p_wpos = sent % WORD /\ p_rpos = Len(got) % WORD
    BY <1>1, Settled DEF Half, RingInv
  <1>4. /\ loc[cur].order = "byte_first" => p_buf' = [p_buf EXCEPT ![sent % PIPE_SIZE] = sent + 1]
                                            /\ p_wpos' = p_wpos
        /\ loc[cur].order # "byte_first" => /\ loc[cur].order = "pos_first" /\ p_buf' = p_buf
                                            /\ p_wpos' = (sent + 1) % WORD
    <2>1. (sent % WORD) % PIPE_SIZE = sent % PIPE_SIZE /\ ((sent % WORD) + 1) % WORD = (sent + 1) % WORD
      BY <1>2, RingNumbers, ModPlace, ModNext
    <2> QED
      BY <1>3, <2>1 DEF WriteFirst
  <1>5. p_buf \in [0..(PIPE_SIZE - 1) -> Nat]
    BY DEF IInv, TypeOK
  <1>6. \A k \in Len(got)..(sent - 1) : p_buf'[k % PIPE_SIZE] = k + 1
    <2>1. \A k \in Len(got)..(sent - 1) : p_buf[k % PIPE_SIZE] = k + 1
      BY DEF RingInv, RingHolds
    <2> QED
      BY <1>2, <1>4, <1>5, <2>1, RoomForOne
  <1>7. pc'[cur] = "wsecond" /\ \A e \in Envs \ {cur} : pc'[e] = pc[e]
    BY <1>1 DEF IInv, TypeOK
  <1>8. p_wpos' = (IF Mid("wsecond")' THEN sent + 1 ELSE sent) % WORD /\ ~Mid("rsecond")'
    <2>1. Mid("wsecond")' <=> loc[cur].order = "pos_first"
      BY <1>1, <1>7 DEF Mid
    <2>2. ~Mid("rsecond")'
      BY <1>1, <1>7 DEF Mid
    <2> QED
      BY <1>3, <1>4, <2>1, <2>2
  <1>9. RingHolds'
    BY <1>1, <1>3, <1>6, <1>8 DEF RingInv, RingHolds
  <1>10. OneOfAKind' /\ ~Torn'
    BY <1>1, <1>7, StillWhole DEF RingInv, OneOfAKind
  <1>11. ASSUME NEW e \in Envs PROVE CopyGood(e)'
    <2>1. CASE e = cur
      <3>1. loc[cur].order = "byte_first" => p_buf'[sent % PIPE_SIZE] = sent + 1
        BY <1>2, <1>4, <1>5, RoomForOne
      <3> QED
        BY <1>1, <1>2, <1>7, <2>1, <3>1 DEF CopyGood
    <2>2. CASE e # cur
      <3>1. pc'[e] \notin Writing /\ CopyGood(e)
        BY <1>1, <1>7, <2>2, OthersElsewhere DEF Writing, RingInv
      <3> QED
        BY <1>1, <1>7, <2>2, <3>1 DEF CopyGood, Writing, Copying
    <2> QED
      BY <2>1, <2>2
  <1> QED
    BY <1>1, <1>9, <1>10, <1>11 DEF RingInv

\* The other half: the byte has been sent.
LEMMA WriteSecondKeeps ==
    ASSUME IInv, RingInv, WriteSecond
    PROVE  RingInv' /\ sent' = sent + 1 /\ got' = got /\ sent - Len(got) < PIPE_SIZE
  <1>1. cur \in Envs /\ pc[cur] = "wsecond" /\ loc[cur] \in LocRec /\ cur' = cur
        /\ UNCHANGED <<p_rpos, got>> /\ sent' = sent + 1
    BY DEF IInv, TypeOK, WriteSecond, At, Stay
  <1>2. /\ sent - Len(got) < PIPE_SIZE /\ Len(got) \in Nat /\ sent \in Nat
        /\ loc[cur].order = "byte_first" => p_buf[sent % PIPE_SIZE] = sent + 1
    BY <1>1, GotNumbers DEF RingInv, CopyGood, IInv
  <1>3. /\ p_wpos' = (sent + 1) % WORD
        /\ \/ p_buf' = p_buf /\ p_buf[sent % PIPE_SIZE] = sent + 1
           \/ p_buf' = [p_buf EXCEPT ![sent % PIPE_SIZE] = sent + 1]
    <2>1. CASE loc[cur].order = "byte_first"
      <3>1. p_wpos = sent % WORD
        BY <1>1, <2>1 DEF RingInv, RingHolds, Mid
      <3>2. ((sent % WORD) + 1) % WORD = (sent + 1) % WORD
        BY <1>2, RingNumbers, ModNext
      <3> QED
        BY <1>2, <2>1, <3>1, <3>2 DEF WriteSecond
    <2>2. CASE loc[cur].order # "byte_first"
      <3>1. /\ loc[cur].order = "pos_first" /\ p_wpos' = p_wpos
            /\ p_buf' = [p_buf EXCEPT ![((p_wpos - 1) % WORD) % PIPE_SIZE] = sent + 1]
        BY <2>2 DEF WriteSecond
      <3>2. p_wpos = (sent + 1) % WORD
        BY <1>1, <3>1 DEF RingInv, RingHolds, Mid
      <3>3. ((p_wpos - 1) % WORD) % PIPE_SIZE = sent % PIPE_SIZE
        BY <1>2, <3>2, ModBack
      <3> QED
        BY <3>1, <3>2, <3>3
    <2> QED
      BY <2>1, <2>2
  <1>4. PICK l : l = [loc[cur] EXCEPT !.i = @ + 1, !.order = "byte_first"]
    OBVIOUS
  <1>5. l.op = loc[cur].op
    BY <1>1, <1>4 DEF LocRec
  <1>6. pc' = [pc EXCEPT ![cur] = "write"] /\ loc' = [loc EXCEPT ![cur] = l]
    BY <1>4 DEF WriteSecond, GoTo, Local
  <1>7. pc'[cur] = "write" /\ loc'[cur] = l
        /\ \A e \in Envs \ {cur} : pc'[e] = pc[e] /\ loc'[e] = loc[e]
    BY <1>1, <1>6 DEF IInv, TypeOK
  <1>8. \A k \in Len(got)..sent : p_buf'[k % PIPE_SIZE] = k + 1
    <2>1. \A k \in Len(got)..(sent - 1) : p_buf[k % PIPE_SIZE] = k + 1
      BY DEF RingInv, RingHolds
    <2>2. p_buf \in [0..(PIPE_SIZE - 1) -> Nat]
      BY DEF IInv, TypeOK
    <2>3. \A k \in Len(got)..sent : k = sent \/ k \in Len(got)..(sent - 1)
      BY <1>2
    <2>4. p_buf'[sent % PIPE_SIZE] = sent + 1
      BY <1>2, <1>3, <2>2, RoomForOne
    <2>5. \A k \in Len(got)..(sent - 1) : p_buf'[k % PIPE_SIZE] = k + 1
      BY <1>2, <1>3, <2>1, <2>2, RoomForOne
    <2> QED
      BY <2>3, <2>4, <2>5
  <1>9. RingHolds'
    <2>1. ~Mid("rsecond") /\ ~Mid("wsecond")' /\ ~Mid("rsecond")'
      BY <1>1, <1>7 DEF Mid
    <2>2. p_wpos' = sent' % WORD /\ p_rpos' = Len(got') % WORD
      BY <1>1, <1>3, <2>1 DEF RingInv, RingHolds
    <2>3. Len(got) <= sent' /\ sent' - Len(got) <= PIPE_SIZE /\ sent' - 1 = sent
      BY <1>1, <1>2, RingNumbers DEF RingInv, RingHolds
    <2> QED
      BY <1>1, <1>8, <2>1, <2>2, <2>3 DEF RingHolds
  <1>10. OneOfAKind' /\ ~Torn'
    BY <1>1, <1>5, <1>7, StillWhole DEF RingInv, OneOfAKind
  <1>11. ASSUME NEW e \in Envs PROVE CopyGood(e)'
    <2>1. CASE e = cur
      BY <1>7, <2>1 DEF CopyGood, Copying
    <2>2. CASE e # cur
      <3>1. pc'[e] \notin Writing /\ CopyGood(e)
        BY <1>1, <1>7, <2>2, OthersElsewhere DEF Writing, RingInv
      <3>2. Len(got) < sent => Len(got') < sent'
        BY <1>1, <1>2
      <3> QED
        BY <1>1, <1>7, <2>2, <3>1, <3>2 DEF CopyGood, Writing, Copying
    <2> QED
      BY <2>1, <2>2
  <1> QED
    BY <1>1, <1>2, <1>9, <1>10, <1>11 DEF RingInv

-----------------------------------------------------------------------------
(***************************************************************************)
(* The pipe is the channel.                                                *)
(***************************************************************************)

\* The maps do not matter for the ring, but who may be in which call does.
RInv == IInv /\ RingInv

\* A step after which no copy is torn has left none half way.
LEMMA NotTornIsWhole == ASSUME IInv, ~Torn', [Next]_vars PROVE Whole
  <1> SUFFICES ASSUME cur' # cur PROVE ~Half(cur)
    BY DEF Whole
  <1>1. cur \in Envs
    BY DEF IInv, TypeOK
  <1>2. CASE \E e \in Envs : Exit(e) \/ Yield(e)
    BY <1>2 DEF Exit, Yield, At, Half
  <1>3. CASE \E e \in Envs : Clock(e)
    BY <1>1, <1>3 DEF Clock, Torn, Half
  <1>4. CASE UNCHANGED vars
    BY <1>4 DEF vars, sched
  <1>5. CASE Progress
    BY <1>5 DEF Progress, Stay, ReadLoop, WriteLoop, ReadFirst, ReadSecond, WriteFirst, WriteSecond,
                SaveRuns, ReadFdRef, ReadPipeRef, Compare, CloseFd, CloseData, DupData, DupFd,
                Duppage, StartChild, Compute
  <1>6. CASE Call
    BY <1>2, <1>6 DEF Call, Stay, StartRead, StartWrite, StartPoll, StartClose, StartDup, StartFork, Enter
  <1> QED
    BY <1>2, <1>3, <1>4, <1>5, <1>6 DEF Next, Switch

\* Every step that leaves no copy half way keeps the ring and the copies right.
LEMMA WholeKeeps == ASSUME RInv, Whole, [Next]_vars PROVE RInv'
  <1> SUFFICES ASSUME IInv, RingInv PROVE RingInv'
    BY NextIInv DEF RInv
  <1>0. IInv'
    BY NextIInv
  <1>1. CASE UNCHANGED vars
    BY <1>1, SameStep DEF vars, sched
  <1>2. ASSUME NEW f \in Fds, NEW n \in 1..MaxCall, StartRead(f, n) \/ StartWrite(f, n) PROVE RingInv'
    BY <1>2, EnterAlone DEF StartRead, StartWrite
  <1>3. CASE OutsideRing
    BY <1>0, <1>3, OutsideSteps
  <1> QED
    BY <1>0, <1>1, <1>2, <1>3, LoopsKeepRing, ReadFirstKeeps, ReadSecondKeeps, WriteFirstKeeps, WriteSecondKeeps
    DEF Next, Call, Progress, OutsideRing

\* In particular a step that tears none.
THEOREM NextRInv == RInv /\ ~Torn' /\ [Next]_vars => RInv'
  BY WholeKeeps, NotTornIsWhole DEF RInv

\* Every state up to the first torn copy satisfies it.
THEOREM SpecRInv == Spec /\ []~Torn => []RInv
  <1>1. Init => RInv
    BY InitIInv, InitRingInv DEF RInv
  <1>2. RInv /\ ~Torn' /\ [Next]_vars => RInv'
    BY NextRInv
  <1> QED
    BY <1>1, <1>2, PTL DEF Spec

\* A sequence of consecutive bytes.
LEMMA BytesInARow ==
    ASSUME NEW a \in Nat, NEW n \in Nat
    PROVE  /\ OnTheirWay(a, n) \in Seq(Nat) /\ Len(OnTheirWay(a, n)) = n
           /\ Append(OnTheirWay(a, n), a + n + 1) = OnTheirWay(a, n + 1)
           /\ n > 0 => /\ Head(OnTheirWay(a, n)) = a + 1
                       /\ Tail(OnTheirWay(a, n)) = OnTheirWay(a + 1, n - 1)
  <1> DEFINE s == OnTheirWay(a, n)
  <1>1. s \in Seq(Nat) /\ Len(s) = n /\ \A k \in 1..n : s[k] = a + k
    <2>1. s \in [1..n -> Nat]
      BY DEF OnTheirWay
    <2> QED
      BY <2>1 DEF OnTheirWay
  <1>2. \A m \in Nat, f \in Nat : OnTheirWay(f, m) \in Seq(Nat) /\ Len(OnTheirWay(f, m)) = m
    <2> SUFFICES ASSUME NEW m \in Nat, NEW f \in Nat
                 PROVE  OnTheirWay(f, m) \in Seq(Nat) /\ Len(OnTheirWay(f, m)) = m
      OBVIOUS
    <2>1. OnTheirWay(f, m) \in [1..m -> Nat]
      BY DEF OnTheirWay
    <2> QED
      BY <2>1 DEF OnTheirWay
  <1>3. Append(s, a + n + 1) = OnTheirWay(a, n + 1)
    <2>1. n + 1 \in Nat /\ a + n + 1 \in Nat
      OBVIOUS
    <2>2. OnTheirWay(a, n + 1) \in Seq(Nat) /\ Len(OnTheirWay(a, n + 1)) = n + 1
      BY <1>2, <2>1
    <2>3. Append(s, a + n + 1) \in Seq(Nat) /\ Len(Append(s, a + n + 1)) = n + 1
      BY <1>1, <2>1
    <2>4. \A k \in 1..(n + 1) : Append(s, a + n + 1)[k] = OnTheirWay(a, n + 1)[k]
      BY <1>1 DEF OnTheirWay
    <2> QED
      BY <2>2, <2>3, <2>4, SeqEqual
  <1>4. ASSUME n > 0 PROVE Head(s) = a + 1 /\ Tail(s) = OnTheirWay(a + 1, n - 1)
    <2>1. Head(s) = s[1] /\ s[1] = a + 1
      BY <1>1, <1>4
    <2>2. n - 1 \in Nat /\ a + 1 \in Nat
      BY <1>4
    <2>3. OnTheirWay(a + 1, n - 1) \in Seq(Nat) /\ Len(OnTheirWay(a + 1, n - 1)) = n - 1
      BY <1>2, <2>2
    <2>4. Tail(s) \in Seq(Nat) /\ Len(Tail(s)) = n - 1 /\ \A k \in 1..(n - 1) : Tail(s)[k] = s[k + 1]
      BY <1>1, <1>4
    <2>5. \A k \in 1..(n - 1) : Tail(s)[k] = OnTheirWay(a + 1, n - 1)[k]
      BY <1>1, <2>4 DEF OnTheirWay
    <2> QED
      BY <2>1, <2>3, <2>4, <2>5, SeqEqual
  <1> QED
    BY <1>1, <1>3, <1>4

ContentsExact == Contents = OnTheirWay(Len(got), sent - Len(got))

\* The same for a state of the invariant.
LEMMA RInvContents == RInv => ContentsExact
  BY ContentsAre DEF ContentsFact, ContentsExact, RInv, IInv, RingInv

\* A step of the channel, or none.
ChannelStep == [Abstract!Send \/ Abstract!Receive]_<<sent, got, Contents>>

\* The second half of a write is the Send of the channel, that of a read its
\* Receive, and no other step is seen.
THEOREM NextRefinesChannel == RInv /\ RInv' /\ [Next]_vars => ChannelStep
  <1> SUFFICES ASSUME IInv, RingInv, RInv', [Next]_vars PROVE ChannelStep
    BY DEF RInv
  <1>0. IInv' /\ Whole
    BY NotTornIsWhole DEF RInv, RingInv
  <1> DEFINE a == Len(got)
             n == sent - Len(got)
  <1>1. a \in Nat /\ sent \in Nat /\ n \in Nat /\ a + n + 1 = sent + 1
    BY GotNumbers DEF IInv, RingInv, RingHolds
  <1>2. Contents = OnTheirWay(a, n)
    BY ContentsAre DEF ContentsFact, IInv, RingInv
  <1>3. Contents' = OnTheirWay(Len(got'), sent' - Len(got'))
    <2>1. ContentsExact'
      BY RInvContents, PTL
    <2> QED
      BY <2>1 DEF ContentsExact, OnTheirWay
  <1>4. ASSUME UNCHANGED <<sent, got>> PROVE ChannelStep
    BY <1>2, <1>3, <1>4 DEF ChannelStep
  <1>5. CASE ReadSecond
    <2>1. got' = Append(got, a + 1) /\ a < sent /\ sent' = sent /\ n > 0
      BY <1>1, <1>5, ReadSecondKeeps
    <2>2. Len(got') = a + 1 /\ sent' - Len(got') = n - 1
      BY <1>1, <2>1, GotNumbers DEF IInv
    <2>3. Head(Contents) = a + 1 /\ Tail(Contents) = OnTheirWay(a + 1, n - 1) /\ Len(Contents) = n
      BY <1>1, <1>2, <2>1, BytesInARow
    <2>4. Contents # <<>>
      BY <2>1, <2>3
    <2>5. Contents' = Tail(Contents)
      BY <1>3, <2>2, <2>3
    <2> QED
      BY <2>1, <2>3, <2>4, <2>5 DEF ChannelStep, Abstract!Receive
  <1>6. CASE WriteSecond
    <2>1. sent' = sent + 1 /\ got' = got /\ n < PIPE_SIZE
      BY <1>1, <1>6, WriteSecondKeeps
    <2>2. sent' - Len(got') = n + 1 /\ Len(got') = a
      BY <1>1, <2>1
    <2>3. Len(Contents) < PIPE_SIZE /\ Contents' = Append(Contents, sent + 1)
      BY <1>1, <1>2, <1>3, <2>1, <2>2, BytesInARow
    <2> QED
      BY <2>1, <2>3 DEF ChannelStep, Abstract!Send
  <1>7. CASE UNCHANGED vars
    BY <1>4, <1>7 DEF vars, ring
  <1>8. CASE OutsideRing
    BY <1>0, <1>4, <1>8, OutsideSteps DEF ring
  <1>9. ASSUME NEW f \in Fds, NEW m \in 1..MaxCall, StartRead(f, m) \/ StartWrite(f, m) PROVE ChannelStep
    BY <1>4, <1>9 DEF StartRead, StartWrite, Enter, ring
  <1>10. CASE ReadLoop \/ WriteLoop \/ ReadFirst \/ WriteFirst
    BY <1>0, <1>4, <1>10, LoopsKeepRing, ReadFirstKeeps, WriteFirstKeeps DEF ring
  <1> QED
    BY <1>5, <1>6, <1>7, <1>8, <1>9, <1>10 DEF Next, Call, Progress, OutsideRing

\* pipe.c:133-203: for every size of the ring, any number of envs, positions that
\* wrap around, and both orders in which a build may store a position and handle
\* its byte, the pipe is a FIFO of PIPE_SIZE bytes, wherever the clock strikes
\* except between a position stored first and its byte.
THEOREM RefinesChannel == Spec /\ []~Torn => ImplementsChannel
  <1>1. Init => Abstract!Init
    <2> SUFFICES ASSUME Init PROVE Abstract!Init
      OBVIOUS
    <2>1. TypeOK /\ RingHolds
      BY InitIInv, InitRingInv DEF IInv, RingInv
    <2>2. Contents = OnTheirWay(Len(got), sent - Len(got)) /\ sent = 0 /\ got = <<>>
      BY <2>1, ContentsAre DEF ContentsFact, Init
    <2>3. Contents = <<>>
      BY <2>2 DEF OnTheirWay
    <2> QED
      BY <2>2, <2>3 DEF Abstract!Init
  <1>2. RInv /\ RInv' /\ [Next]_vars => [Abstract!Send \/ Abstract!Receive]_<<sent, got, Contents>>
    BY NextRefinesChannel DEF ChannelStep
  <1> QED
    BY <1>1, <1>2, SpecRInv, PTL DEF Spec, ImplementsChannel, Abstract!Spec

\* No step is torn in a build that handles every byte before it stores its
\* position: there the pipe is the FIFO wherever the clock strikes.
THEOREM ByteFirstChannel ==
    ASSUME CopyOrders = {"byte_first"}
    PROVE  Spec => ImplementsChannel
  <1>1. Init => RInv
    BY InitIInv, InitRingInv DEF RInv
  <1>2. RInv /\ [Next]_vars => RInv'
    <2> SUFFICES ASSUME RInv, [Next]_vars PROVE RInv'
      OBVIOUS
    <2>1. cur \in Envs /\ CopyGood(cur)
      BY DEF RInv, IInv, TypeOK, RingInv
    <2>2. Whole
      BY <2>1 DEF Whole, Half, CopyGood, Copying
    <2> QED
      BY <2>2, WholeKeeps
  <1>3. RInv => ~Torn
    BY DEF RInv, RingInv
  <1> QED
    BY <1>1, <1>2, <1>3, RefinesChannel, PTL DEF Spec
=============================================================================
