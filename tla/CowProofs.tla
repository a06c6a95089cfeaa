------------------------------ MODULE CowProofs ------------------------------
(***************************************************************************)
(* Copy-on-write keeps envs apart: the properties of Cow, proved for every *)
(* number of envs, pages below USTACKTOP, physical pages and contents.     *)
(***************************************************************************)
EXTENDS Cow, MinLemmas, TLAPS

Slots == {UCOW} \cup VAs
Pte == [page : 0..NPAGES, d : BOOLEAN, cow : BOOLEAN, lib : BOOLEAN]
Points == {"user", "exofork", "dup", "child", "self", "entry", "start"}
FaultPoints == {"none", "perm", "alloc", "copy", "map", "unmap"}
ForkRec == [child : 0..NENV, va : 0..(NVA + 1), perm : Pte, flag : BOOLEAN]
FaultRec == [at : FaultPoints, va : 0..NVA, perm : Pte]

TypeOK ==
    /\ status \in [Envs -> {"free", "not_runnable", "runnable"}]
    /\ pt \in [Envs -> [Slots -> Pte]]
    /\ data \in [Pages -> Values]
    /\ entry \in [Envs -> BOOLEAN]
    /\ pc \in [Envs -> Points]
    /\ fk \in [Envs -> ForkRec]
    /\ fault \in [Envs -> FaultRec]

-----------------------------------------------------------------------------
(***************************************************************************)
(* The inductive invariant.                                                *)
(***************************************************************************)

\* An env that has not been started, or has ended, is in no routine.
Idle == \A e \in Envs : status[e] # "runnable" => pc[e] = "user" /\ fault[e].at = "none"

\* A mapped page is either writable or copy-on-write, a library page writable.
GoodPte(x) == \/ x = NoPage
              \/ x.page # 0 /\ (x.cow <=> ~x.d) /\ (x.lib => x.d)
PtesGood == \A e \in Envs, va \in VAs : GoodPte(pt[e][va])

\* Who can meet a copy-on-write page has the handler.
HandlerSet ==
    \A e \in Envs :
      /\ status[e] = "runnable" => \A va \in VAs : pt[e][va].cow => entry[e]
      /\ pc[e] # "user" => entry[e]

\* cow_entry: what it knows at each point.
FaultGood(e) ==
    LET f == fault[e]
        old == pt[e][f.va]
        new == pt[e][UCOW]
    IN  /\ f.at \in {"none", "perm", "alloc"} => new = NoPage
        /\ f.at # "none" => /\ f.va \in VAs /\ pc[e] \notin {"child", "self"}
                            /\ pc[e] # "user" => f.va = Stack
        /\ f.at \in {"perm", "alloc", "copy", "map"} => old.cow
        /\ f.at \in {"alloc", "copy", "map"} => f.perm.d /\ ~f.perm.cow /\ ~f.perm.lib
        /\ f.at \in {"copy", "map", "unmap"} => new.page # 0 /\ ~new.lib
        /\ f.at = "map" => data[new.page] = data[old.page]
        /\ f.at = "unmap" => new.page = old.page /\ old.d
FaultsGood == \A e \in Envs : FaultGood(e)

\* fork: the parent has a child of its own, with the pages handed over so far.
Forks(e) == pc[e] \in {"dup", "child", "self", "entry", "start"}
Copied(e, va) == va < fk[e].va \/ (va = fk[e].va /\ pc[e] = "self")

Given(e, c, va) == /\ Mapped(c, va) <=> Mapped(e, va)
                   /\ va # Stack => pt[c][va].page = pt[e][va].page
                   /\ pt[e][va].lib => pt[c][va] = pt[e][va]
HandedOver(e, va) ==
    LET c == fk[e].child
    IN  IF Copied(e, va) THEN Given(e, c, va) ELSE pt[c][va] = NoPage

\* duppage: perm is what the child gets, and flag says that the parent's page
\* is to become copy-on-write too.
SamePerm(x, y) == x.d = y.d /\ x.cow = y.cow /\ x.lib = y.lib
DupGood(e) ==
    LET x == pt[e][fk[e].va]
    IN  /\ pt[e][Stack].d /\ x.page # 0
        /\ fk[e].flag => x.d /\ ~x.lib /\ fk[e].perm.cow /\ ~fk[e].perm.d /\ ~fk[e].perm.lib
        /\ ~fk[e].flag => (x.d => x.lib) /\ SamePerm(fk[e].perm, x)
        /\ pc[e] = "self" => fk[e].flag

ForkGood(e) ==
    LET c == fk[e].child
    IN  Forks(e) => /\ c \in Envs /\ status[c] = "not_runnable"
                    /\ fk[e].va \in 1..(NVA + 1)
                    /\ IF pc[e] \in {"entry", "start"} THEN fk[e].va = NVA + 1 ELSE fk[e].va \in VAs
                    /\ pc[e] = "start" => entry[c]
                    /\ pc[e] \in {"child", "self"} => DupGood(e)
                    /\ \A va \in VAs : HandedOver(e, va)
                    /\ pt[c][UCOW] = NoPage
ForksGood == /\ \A e \in Envs : ForkGood(e)
             /\ \A e, f \in Envs : Forks(e) /\ Forks(f) /\ fk[e].child = fk[f].child => e = f

\* A page that is shared on purpose is so wherever it is mapped.
LibraryAlike ==
    \A e, f \in Envs, va, vb \in Slots :
      pt[e][va].page # 0 /\ pt[e][va].page = pt[f][vb].page /\ pt[e][va].lib => pt[f][vb].lib

\* The page of UCOW is nobody else's until it is mapped at the fault.
CopyAlone ==
    \A e, f \in Envs, vb \in Slots :
      fault[e].at \in {"copy", "map"} /\ pt[f][vb].page = pt[e][UCOW].page => f = e /\ vb = UCOW

\* A private page that an env can store to is mapped nowhere else, but at UCOW
\* at the end of cow_entry and in a child whose parent has yet to give it up.
WritableAlone ==
    \A e, f \in Envs, va \in VAs, vb \in Slots :
      pt[e][va].d /\ ~pt[e][va].lib /\ pt[f][vb].page = pt[e][va].page =>
        \/ f = e /\ vb = va
        \/ f = e /\ vb = UCOW /\ fault[e].at = "unmap" /\ fault[e].va = va
        \/ pc[e] = "self" /\ f = fk[e].child /\ vb = va /\ fk[e].va = va

IInv == /\ TypeOK /\ Idle /\ PtesGood /\ HandlerSet /\ FaultsGood /\ ForksGood
        /\ LibraryAlike /\ CopyAlone /\ WritableAlone /\ FaultsHandled

-----------------------------------------------------------------------------
\* The page of the stack is the last one, UCOW lies beyond, and 0 is no page.
LEMMA Sizes ==
    /\ NVA \in Nat /\ NVA > 0 /\ Stack \in VAs /\ UCOW \notin VAs /\ UCOW \in Slots
    /\ VAs \subseteq Slots /\ Envs \subseteq Nat \ {0} /\ Pages \subseteq Nat \ {0}
    /\ NENV \in Nat /\ NPAGES \in Nat /\ 0 \in Values
    /\ Slots \subseteq Nat /\ NoPage \in Pte
  BY CowAssumption DEF Stack, VAs, UCOW, Slots, Envs, Pages, NoPage, Pte

\* The env that boots starts in a state of the invariant.
THEOREM InitIInv == Init => IInv
  <1> SUFFICES ASSUME Init PROVE IInv
    OBVIOUS
  <1> USE Sizes
  <1>1. TypeOK
    BY CowAssumption DEF Init, TypeOK, ForkRec, FaultRec, Pte, Points, FaultPoints, NoFork, NoFault, NoPage, Slots, UCOW, Envs, Pages, VAs
  <1>2. Idle /\ PtesGood /\ HandlerSet
    BY DEF Init, Idle, PtesGood, GoodPte, HandlerSet, NoPage, NoFault, UCOW, VAs
  <1>3. FaultsGood /\ ForksGood /\ CopyAlone
    BY DEF Init, FaultsGood, FaultGood, ForksGood, ForkGood, Forks, CopyAlone, NoFault, NoPage, UCOW, Slots
  <1>4. LibraryAlike /\ WritableAlone
    BY DEF Init, LibraryAlike, WritableAlone, NoPage, Slots, VAs, UCOW
  <1> QED
    BY <1>1, <1>2, <1>3, <1>4 DEF IInv, FaultsHandled, Init

\* A copy-on-write pte, and one that can be stored to.
LEMMA PteKinds ==
    ASSUME NEW x, GoodPte(x)
    PROVE  /\ x.cow => x.page # 0 /\ ~x.d /\ ~x.lib
           /\ x.d => x.page # 0 /\ ~x.cow
           /\ x.lib => x.page # 0 /\ x.d
           /\ x.page = 0 => x = NoPage
  BY DEF GoodPte, NoPage

\* An entry of a page table names a page or is empty.
LEMMA PageNumbers ==
    ASSUME TypeOK, NEW g \in Envs, NEW vb \in Slots
    PROVE  pt[g][vb] \in Pte /\ (pt[g][vb].page # 0 => pt[g][vb].page \in Pages)
  <1>1. pt[g][vb] \in Pte
    BY DEF TypeOK
  <1> QED
    BY <1>1, Sizes DEF Pte, Pages

\* Records with several fields replaced.
LEMMA FaultRecord ==
    ASSUME NEW x \in FaultRec, NEW a, NEW p, NEW y,
           y = [x EXCEPT !.at = a, !.perm = p]
    PROVE  y = [at |-> a, va |-> x.va, perm |-> p]
  BY DEF FaultRec, FaultPoints

\* The locals of cow_entry when a fault is taken.
LEMMA FaultAtRecord ==
    ASSUME NEW x \in FaultRec, NEW a \in FaultPoints, NEW b \in 0..NVA, NEW y,
           y = [x EXCEPT !.at = a, !.va = b]
    PROVE  y = [at |-> a, va |-> b, perm |-> x.perm]
  BY Sizes DEF FaultRec, FaultPoints

\* cow_entry's permission: writable and no longer copy-on-write.
LEMMA WritablePerm ==
    ASSUME NEW x \in Pte, NEW y, y = [x EXCEPT !.page = 0, !.cow = FALSE, !.d = TRUE]
    PROVE  y \in Pte /\ y.d /\ ~y.cow /\ y.lib = x.lib
  <1>1. y = [page |-> 0, d |-> TRUE, cow |-> FALSE, lib |-> x.lib]
    BY DEF Pte
  <1>2. 0 \in 0..NPAGES /\ x.lib \in BOOLEAN
    BY Sizes DEF Pte
  <1>3. y \in Pte
    BY <1>1, <1>2 DEF Pte
  <1> QED
    BY <1>1, <1>3

\* The locals of fork with a new child.
LEMMA NewFork ==
    ASSUME NEW a, NEW y, y = [NoFork EXCEPT !.child = a, !.va = 1]
    PROVE  y = [child |-> a, va |-> 1, perm |-> NoPage, flag |-> FALSE]
  BY DEF NoFork

\* The locals of fork at the next page.
LEMMA NextRecord ==
    ASSUME NEW x \in ForkRec, NEW b, NEW y,
           y = [x EXCEPT !.va = b, !.perm = NoPage, !.flag = FALSE]
    PROVE  y = [child |-> x.child, va |-> b, perm |-> NoPage, flag |-> FALSE]
  BY DEF ForkRec

\* The locals of duppage once it has read the entry.
LEMMA DupRecord ==
    ASSUME NEW x \in ForkRec, NEW b, NEW p, NEW y,
           y = [x EXCEPT !.flag = b, !.perm = p]
    PROVE  y = [child |-> x.child, va |-> x.va, perm |-> p, flag |-> b]
  BY DEF ForkRec

\* Two entries with one page and one permission are equal.
LEMMA SamePte ==
    ASSUME NEW x \in Pte, NEW y \in Pte, x.page = y.page, SamePerm(x, y)
    PROVE  x = y
  BY DEF Pte, SamePerm

\* A step that leaves a fork, its parent's pages and its child alone.
LEMMA ForkKept ==
    ASSUME NEW g, ForkGood(g), fk'[g] = fk[g], pc'[g] = pc[g],
           Forks(g) => /\ \A vb \in VAs : pt'[g][vb] = pt[g][vb]
                       /\ \A vb \in Slots : pt'[fk[g].child][vb] = pt[fk[g].child][vb]
                       /\ status'[fk[g].child] = status[fk[g].child]
                       /\ entry[fk[g].child] => entry'[fk[g].child]
    PROVE  ForkGood(g)' /\ (Forks(g)' <=> Forks(g))
  <1> USE Sizes
  <1>1. Forks(g)' <=> Forks(g)
    BY DEF Forks
  <1>2. CASE ~Forks(g)
    BY <1>1, <1>2 DEF ForkGood
  <1>3. CASE Forks(g)
    <2>1. \A vb \in VAs : HandedOver(g, vb)'
      <3> SUFFICES ASSUME NEW vb \in VAs PROVE HandedOver(g, vb)'
        OBVIOUS
      <3>1. HandedOver(g, vb) /\ (Copied(g, vb)' <=> Copied(g, vb))
        BY <1>3 DEF ForkGood, Copied
      <3>2. /\ pt'[g][vb] = pt[g][vb]
            /\ pt'[fk'[g].child][vb] = pt[fk[g].child][vb]
        BY <1>3
      <3> QED
        BY <3>1, <3>2 DEF HandedOver, Given, Mapped
    <2>2. ASSUME pc[g] \in {"child", "self"} PROVE DupGood(g)'
      <3>1. DupGood(g) /\ fk[g].va \in VAs
        BY <1>3, <2>2 DEF ForkGood
      <3>2. pt'[g][fk'[g].va] = pt[g][fk[g].va] /\ pt'[g][Stack] = pt[g][Stack]
        BY <1>3, <3>1
      <3> QED
        BY <3>1, <3>2 DEF DupGood, SamePerm
    <2>3. pt'[fk'[g].child][UCOW] = pt[fk[g].child][UCOW]
      BY <1>3
    <2> QED
      BY <1>1, <1>3, <2>1, <2>2, <2>3 DEF ForkGood
  <1> QED
    BY <1>2, <1>3

\* A step that touches no map and no fork keeps all forks.
LEMMA ForksKept ==
    ASSUME ForksGood, UNCHANGED <<status, pt, entry, pc, fk>>
    PROVE  ForksGood'
  <1>1. \A g \in Envs : ForkGood(g)' /\ (Forks(g)' <=> Forks(g))
    BY ForkKept DEF ForksGood
  <1> QED
    BY <1>1 DEF ForksGood

\* The page that a handler copies from, or to, is not one that another env may
\* be storing to.
LEMMA SourceIsolated ==
    ASSUME IInv, NEW g \in Envs, fault[g].at = "map",
           NEW e \in Envs, NEW va \in VAs, pt[e][va].d, status[e] = "runnable", fault[e].at = "none"
    PROVE  pt[g][fault[g].va].page # pt[e][va].page /\ pt[g][UCOW].page # pt[e][va].page
  <1> USE Sizes
  <1> DEFINE old == pt[g][fault[g].va]
  <1>1. FaultGood(g) /\ Idle /\ PtesGood /\ ForksGood /\ LibraryAlike /\ CopyAlone /\ WritableAlone
    BY DEF IInv, FaultsGood
  <1>2. g # e /\ status[g] = "runnable" /\ fault[g].va \in VAs /\ old.cow
    BY <1>1 DEF FaultGood, Idle
  <1>3. GoodPte(old) /\ GoodPte(pt[e][va])
    BY <1>1, <1>2 DEF PtesGood
  <1>4. old.page # 0 /\ ~old.d /\ ~old.lib /\ pt[e][va].page # 0
    BY <1>2, <1>3, PteKinds
  <1>5. pc[e] = "self" => fk[e].child # g
    BY <1>1, <1>2 DEF ForksGood, ForkGood, Forks
  <1>6. old.page # pt[e][va].page
    <2> SUFFICES ASSUME old.page = pt[e][va].page PROVE FALSE
      OBVIOUS
    <2>1. ~pt[e][va].lib
      BY <1>1, <1>2, <1>4 DEF LibraryAlike, IInv, TypeOK, FaultRec, Pte
    <2> QED
      BY <1>1, <1>2, <1>5, <2>1 DEF WritableAlone
  <1>7. pt[g][UCOW].page # pt[e][va].page
    BY <1>1, <1>2 DEF CopyAlone
  <1> QED
    BY <1>6, <1>7

\* A store of the program goes to a page that nobody else sees, or to a library page.
LEMMA WriteKeeps ==
    ASSUME IInv, NEW e \in Envs, NEW va \in VAs, NEW v \in Values, Write(e, va, v)
    PROVE  IInv'
  <1> USE Sizes DEF IInv
  <1>1. /\ UNCHANGED <<status, pt, entry, pc, fk, fault, panic>>
        /\ pt[e][va].d /\ status[e] = "runnable" /\ fault[e].at = "none"
        /\ data' = [data EXCEPT ![pt[e][va].page] = v]
    BY DEF Write, Runs
  <1>2. TypeOK'
    BY <1>1 DEF TypeOK, FaultRec
  <1>3. FaultsGood'
    <2> SUFFICES ASSUME NEW g \in Envs PROVE FaultGood(g)'
      BY DEF FaultsGood
    <2>1. FaultGood(g)
      BY DEF FaultsGood
    <2>2. fault[g].at = "map" =>
            /\ pt[g][fault[g].va].page # pt[e][va].page /\ pt[g][UCOW].page # pt[e][va].page
      BY <1>1, SourceIsolated
    <2>3. pt[g][fault[g].va].page # pt[e][va].page =>
            data'[pt[g][fault[g].va].page] = data[pt[g][fault[g].va].page]
      BY <1>1 DEF TypeOK, FaultRec
    <2>4. pt[g][UCOW].page # pt[e][va].page => data'[pt[g][UCOW].page] = data[pt[g][UCOW].page]
      BY <1>1 DEF TypeOK, FaultRec
    <2> QED
      BY <1>1, <2>1, <2>2, <2>3, <2>4 DEF FaultGood
  <1>4. Idle' /\ PtesGood' /\ HandlerSet'
    BY <1>1 DEF Idle, PtesGood, HandlerSet
  <1>5. ForksGood'
    BY <1>1, ForksKept
  <1>6. LibraryAlike' /\ CopyAlone' /\ WritableAlone' /\ FaultsHandled'
    BY <1>1 DEF LibraryAlike, CopyAlone, WritableAlone, FaultsHandled
  <1> QED
    BY <1>2, <1>3, <1>4, <1>5, <1>6

-----------------------------------------------------------------------------
\* Steps that only enter the handler, or look at the pte in it.
LEMMA HandlerStep ==
    ASSUME IInv, NEW e \in Envs, status[e] = "runnable", fault[e].at \in {"none", "perm"},
           NEW x \in [at : {"perm", "alloc"}, va : 0..NVA, perm : Pte],
           fault' = [fault EXCEPT ![e] = x], FaultGood(e)',
           UNCHANGED <<status, pt, data, entry, pc, fk, panic>>
    PROVE  IInv'
  <1> USE Sizes DEF IInv
  <1>1. TypeOK' /\ Idle'
    BY DEF TypeOK, FaultRec, Idle, FaultPoints
  <1>2. FaultsGood'
    BY DEF FaultsGood, FaultGood, TypeOK, FaultRec
  <1>3. PtesGood' /\ HandlerSet' /\ LibraryAlike' /\ FaultsHandled'
    BY DEF PtesGood, HandlerSet, LibraryAlike, FaultsHandled
  <1>4. ForksGood'
    BY ForksKept
  <1>5. CopyAlone' /\ WritableAlone'
    BY DEF CopyAlone, WritableAlone, TypeOK, FaultRec
  <1> QED
    BY <1>1, <1>2, <1>3, <1>4, <1>5

\* do_tlb_mod enters the handler, which the env has (HandlerSet).
LEMMA TlbModKeeps ==
    ASSUME IInv, NEW e \in Envs, NEW va \in VAs, do_tlb_mod(e, va)
    PROVE  IInv'
  <1> USE Sizes
  <1>1. /\ UNCHANGED <<status, pt, data, entry, pc, fk>>
        /\ status[e] = "runnable" /\ fault[e].at = "none" /\ va \in Stores(e)
        /\ pt[e][va].page # 0 /\ ~pt[e][va].d
    BY DEF do_tlb_mod, Runs, Mapped
  <1>2. pt[e][va].cow
    BY <1>1 DEF IInv, PtesGood, GoodPte, NoPage
  <1>3. entry[e]
    BY <1>1, <1>2 DEF IInv, HandlerSet
  <1> DEFINE x == [NoFault EXCEPT !.at = "perm", !.va = va]
  <1>4. fault' = [fault EXCEPT ![e] = x] /\ panic' = panic
    BY <1>3 DEF do_tlb_mod
  <1>5. x \in [at : {"perm", "alloc"}, va : 0..NVA, perm : Pte]
    <2>3. x = [NoFault EXCEPT !.at = "perm", !.va = va] /\ va \in 0..NVA /\ "perm" \in FaultPoints
      BY DEF VAs, FaultPoints
    <2> HIDE DEF x
    <2>1. NoFault \in FaultRec /\ NoFault.perm = NoPage
      BY DEF NoFault, FaultPoints, FaultRec
    <2>2. x = [at |-> "perm", va |-> va, perm |-> NoPage]
      BY <2>1, <2>3, FaultAtRecord
    <2> QED
      BY <2>2 DEF VAs
  <1>6. fault'[e] = [at |-> "perm", va |-> va, perm |-> NoPage]
    BY <1>4 DEF IInv, TypeOK, FaultRec, NoFault
  <1>7. pc[e] \notin {"child", "self"} /\ (pc[e] # "user" => va = Stack)
    <2>1. pc[e] # "user" => va = Stack
      BY <1>1 DEF Stores
    <2>2. pc[e] \in {"child", "self"} => pt[e][Stack].d
      BY DEF IInv, ForksGood, ForkGood, Forks, DupGood
    <2> QED
      BY <2>1, <2>2, <1>1
  <1>8. FaultGood(e)
    BY DEF IInv, FaultsGood
  <1>9. FaultGood(e)'
    BY <1>1, <1>2, <1>6, <1>7, <1>8 DEF FaultGood
  <1> HIDE DEF x
  <1> QED
    BY <1>1, <1>4, <1>5, <1>9, HandlerStep

\* cow_entry reads the entry, which is copy-on-write (FaultGood).
LEMMA CowPermKeeps ==
    ASSUME IInv, NEW e \in Envs, CowPerm(e)
    PROVE  IInv'
  <1> USE Sizes
  <1> DEFINE perm == pt[e][fault[e].va]
             y == [perm EXCEPT !.page = 0, !.cow = FALSE, !.d = TRUE]
             x == [fault[e] EXCEPT !.at = "alloc", !.perm = y]
  <1>1. /\ UNCHANGED <<status, pt, data, entry, pc, fk>>
        /\ status[e] = "runnable" /\ fault[e].at = "perm"
    BY DEF CowPerm, InHandler, Runs
  <1>2. FaultGood(e) /\ TypeOK /\ PtesGood
    BY DEF IInv, FaultsGood
  <1>3. fault[e].va \in VAs /\ perm.cow /\ perm \in Pte
    BY <1>1, <1>2 DEF FaultGood, TypeOK, FaultRec
  <1>4. GoodPte(perm)
    BY <1>2, <1>3 DEF PtesGood
  <1>5. ~perm.lib
    BY <1>3, <1>4, PteKinds
  <1>7. fault' = [fault EXCEPT ![e] = x] /\ panic' = panic
    BY <1>2, <1>3 DEF CowPerm, TypeOK, FaultRec
  <1>12. /\ y = [perm EXCEPT !.page = 0, !.cow = FALSE, !.d = TRUE]
         /\ x = [fault[e] EXCEPT !.at = "alloc", !.perm = y]
    OBVIOUS
  <1> HIDE DEF y
  <1>6. y \in Pte /\ y.d /\ ~y.cow /\ ~y.lib
    BY <1>3, <1>5, <1>12, WritablePerm
  <1> HIDE DEF x
  <1>8. x = [at |-> "alloc", va |-> fault[e].va, perm |-> y]
    BY <1>2, <1>12, FaultRecord DEF TypeOK
  <1>11. x \in [at : {"perm", "alloc"}, va : 0..NVA, perm : Pte]
    BY <1>2, <1>6, <1>8 DEF TypeOK, FaultRec
  <1>9. fault'[e].at = "alloc" /\ fault'[e].va = fault[e].va /\ fault'[e].perm = y
    BY <1>2, <1>7, <1>8 DEF TypeOK, FaultRec
  <1>10. FaultGood(e)'
    BY <1>1, <1>2, <1>3, <1>6, <1>9 DEF FaultGood
  <1> QED
    BY <1>1, <1>7, <1>11, <1>10, HandlerStep

\* The page that cow_entry allocates at UCOW is mapped nowhere else (CopyAlone).
LEMMA CowAllocKeeps ==
    ASSUME IInv, NEW e \in Envs, CowAlloc(e)
    PROVE  IInv'
  <1> USE Sizes
  <1>1. /\ UNCHANGED <<status, data, entry, pc, fk>>
        /\ status[e] = "runnable" /\ fault[e].at = "alloc"
    BY DEF CowAlloc, InHandler, Runs
  <1>2. /\ FaultGood(e) /\ TypeOK /\ Idle /\ PtesGood /\ HandlerSet /\ FaultsGood /\ ForksGood
        /\ LibraryAlike /\ CopyAlone /\ WritableAlone /\ FaultsHandled
    BY DEF IInv, FaultsGood
  <1>3. CASE Free = {}
    <2>1. UNCHANGED <<pt, fault>> /\ panic' = "no_mem"
      BY <1>3 DEF CowAlloc
    <2>2. FaultsGood' /\ ForksGood'
      BY <1>1, <1>2, <2>1, ForksKept DEF FaultsGood, FaultGood
    <2> QED
      BY <1>1, <1>2, <2>1, <2>2 DEF IInv, TypeOK, FaultRec, Idle, PtesGood, HandlerSet, LibraryAlike, CopyAlone, WritableAlone, FaultsHandled
  <1>4. CASE Free # {}
    <2> DEFINE q == Min(Free)
    <2>1. q \in Free
      BY <1>4, MinIsMember DEF Free
    <2>2. q \in Pages /\ \A g \in Envs, vb \in Slots : pt[g][vb].page # q
      <3>1. q \in Pages /\ q \notin Used(pt)
        BY <2>1 DEF Free
      <3>2. \A g \in Envs, vb \in Slots : pt[g][vb].page \in Used(pt)
        BY DEF Used, Slots
      <3> QED
        BY <3>1, <3>2
    <2> DEFINE new == [fault[e].perm EXCEPT !.page = q]
    <2>3. new \in Pte /\ new.page = q /\ new.d /\ ~new.lib
      <3>1. fault[e].perm \in Pte /\ fault[e].perm.d /\ ~fault[e].perm.lib
        BY <1>1, <1>2 DEF FaultGood, TypeOK, FaultRec
      <3> QED
        BY <3>1, <2>2 DEF Pte, Pages
    <2>4. /\ pt' = [pt EXCEPT ![e][UCOW] = new]
          /\ fault' = [fault EXCEPT ![e].at = "copy"] /\ panic' = panic
      BY <1>4 DEF CowAlloc, HandlerGoto
    <2> HIDE DEF q, new
    <2>6. /\ pt' \in [Envs -> [Slots -> Pte]] /\ pt'[e][UCOW] = new
          /\ \A g \in Envs, vb \in Slots : g # e \/ vb # UCOW => pt'[g][vb] = pt[g][vb]
      BY <1>2, <2>3, <2>4 DEF TypeOK, FaultRec
    <2>7. /\ fault' \in [Envs -> FaultRec]
          /\ fault'[e].at = "copy" /\ fault'[e].va = fault[e].va /\ fault'[e].perm = fault[e].perm
          /\ \A g \in Envs : g # e => fault'[g] = fault[g]
      BY <1>2, <2>4 DEF TypeOK, FaultRec, FaultPoints
    <2>8. TypeOK' /\ Idle'
      BY <1>1, <1>2, <2>6, <2>7 DEF TypeOK, FaultRec, Idle
    <2>9. PtesGood' /\ HandlerSet' /\ FaultsHandled'
      BY <1>1, <1>2, <2>4, <2>6 DEF PtesGood, HandlerSet, FaultsHandled
    <2>10. FaultsGood'
      <3> SUFFICES ASSUME NEW g \in Envs PROVE FaultGood(g)'
        BY DEF FaultsGood
      <3>1. CASE g = e
        <4>1. pt'[e][fault[e].va] = pt[e][fault[e].va]
          BY <1>1, <1>2, <2>6 DEF FaultGood
        <4>2. new.page # 0 /\ ~new.lib
          BY <2>2, <2>3, Sizes
        <4> QED
          BY <1>1, <1>2, <2>6, <2>7, <3>1, <4>1, <4>2 DEF FaultGood
      <3>2. CASE g # e
        <4>1. FaultGood(g) /\ pt'[g] = pt[g]
          BY <1>2, <2>4, <3>2 DEF FaultsGood, TypeOK, FaultRec
        <4> QED
          BY <1>1, <2>7, <3>2, <4>1 DEF FaultGood
      <3> QED
        BY <3>1, <3>2
    <2>11. ForksGood'
      <3>1. \A g \in Envs : Forks(g) => fk[g].child # e /\ fk[g].child \in Envs
        BY <1>1, <1>2 DEF ForksGood, ForkGood
      <3>2. \A g \in Envs, vb \in VAs : pt'[g][vb] = pt[g][vb]
        BY <2>6
      <3>3. \A g \in Envs : Forks(g) => \A vb \in Slots : pt'[fk[g].child][vb] = pt[fk[g].child][vb]
        BY <2>6, <3>1
      <3>4. ASSUME NEW g \in Envs PROVE ForkGood(g)'
        <4>1. ForkGood(g) /\ \A vb \in VAs : pt'[g][vb] = pt[g][vb]
          BY <1>2, <3>2 DEF ForksGood
        <4>2. Forks(g) => \A vb \in Slots : pt'[fk[g].child][vb] = pt[fk[g].child][vb]
          BY <3>3
        <4> QED
          BY <1>1, <4>1, <4>2, ForkKept
      <3> QED
        BY <1>1, <1>2, <3>4 DEF ForksGood, Forks
    <2>12. LibraryAlike'
      <3> SUFFICES ASSUME NEW g \in Envs, NEW h \in Envs, NEW va \in Slots, NEW vb \in Slots,
                          pt'[g][va].page # 0, pt'[g][va].page = pt'[h][vb].page, pt'[g][va].lib
                   PROVE  pt'[h][vb].lib
        BY DEF LibraryAlike
      <3>1. pt'[g][va] = pt[g][va] /\ pt[g][va].page # q
        BY <2>2, <2>3, <2>6
      <3>2. pt'[h][vb] = pt[h][vb]
        BY <2>3, <2>6, <3>1
      <3>3. pt[g][va].page # 0 /\ pt[g][va].page = pt[h][vb].page /\ pt[g][va].lib
        BY <3>1, <3>2
      <3>4. LibraryAlike
        BY <1>2
      <3>5. pt[h][vb].lib
        BY <3>3, <3>4 DEF LibraryAlike
      <3> QED
        BY <3>2, <3>5
    <2>13. CopyAlone'
      <3> SUFFICES ASSUME NEW f \in Envs, NEW h \in Envs, NEW vb \in Slots,
                          fault'[f].at \in {"copy", "map"}, pt'[h][vb].page = pt'[f][UCOW].page
                   PROVE  h = f /\ vb = UCOW
        BY DEF CopyAlone
      <3>1. CASE f = e
        BY <2>2, <2>3, <2>6, <3>1
      <3>2. CASE f # e
        <4>1. pt'[f][UCOW] = pt[f][UCOW] /\ fault[f].at \in {"copy", "map"}
          BY <2>6, <2>7, <3>2
        <4>2. pt'[h][vb] = pt[h][vb]
          BY <2>2, <2>3, <2>6, <4>1
        <4>3. pt[h][vb].page = pt[f][UCOW].page
          BY <4>1, <4>2
        <4>4. CopyAlone
          BY <1>2
        <4> QED
          BY <4>1, <4>3, <4>4 DEF CopyAlone
      <3> QED
        BY <3>1, <3>2
    <2>14. WritableAlone'
      BY <1>1, <1>2, <2>2, <2>3, <2>6, <2>7 DEF WritableAlone
    <2> QED
      BY <2>8, <2>9, <2>10, <2>11, <2>12, <2>13, <2>14 DEF IInv
  <1> QED
    BY <1>3, <1>4

\* The copy at UCOW gets the data of the page at the fault.
LEMMA CowCopyKeeps ==
    ASSUME IInv, NEW e \in Envs, CowCopy(e)
    PROVE  IInv'
  <1> USE Sizes
  <1>1. /\ UNCHANGED <<status, pt, entry, pc, fk, panic>>
        /\ status[e] = "runnable" /\ fault[e].at = "copy"
        /\ fault' = [fault EXCEPT ![e].at = "map"]
        /\ data' = [data EXCEPT ![pt[e][UCOW].page] = data[pt[e][fault[e].va].page]]
    BY DEF CowCopy, InHandler, Runs, HandlerGoto
  <1>2. /\ FaultGood(e) /\ TypeOK /\ Idle /\ PtesGood /\ HandlerSet /\ FaultsGood /\ ForksGood
        /\ LibraryAlike /\ CopyAlone /\ WritableAlone /\ FaultsHandled
    BY DEF IInv, FaultsGood
  <1>3. fault[e].va \in VAs /\ pt[e][fault[e].va].cow /\ pt[e][UCOW].page # 0
    BY <1>1, <1>2 DEF FaultGood
  <1>4. GoodPte(pt[e][fault[e].va])
    BY <1>2, <1>3 DEF PtesGood
  <1>5. pt[e][fault[e].va].page \in Pages /\ pt[e][UCOW].page \in Pages
    BY <1>2, <1>3, <1>4, PteKinds, PageNumbers
  <1>6. /\ fault' \in [Envs -> FaultRec]
        /\ fault'[e].at = "map" /\ fault'[e].va = fault[e].va /\ fault'[e].perm = fault[e].perm
        /\ \A g \in Envs : g # e => fault'[g] = fault[g]
    BY <1>1, <1>2 DEF TypeOK, FaultRec, FaultPoints
  <1>7. TypeOK' /\ Idle'
    BY <1>1, <1>2, <1>5, <1>6 DEF TypeOK, Idle
  <1>8. data'[pt[e][UCOW].page] = data'[pt[e][fault[e].va].page]
    BY <1>1, <1>2, <1>5 DEF TypeOK
  <1>9. FaultsGood'
    <2> SUFFICES ASSUME NEW g \in Envs PROVE FaultGood(g)'
      BY DEF FaultsGood
    <2>1. CASE g = e
      BY <1>1, <1>2, <1>6, <1>8, <2>1 DEF FaultGood
    <2>2. CASE g # e
      <3>1. FaultGood(g)
        BY <1>2 DEF FaultsGood
      <3>2. ASSUME fault[g].at = "map"
            PROVE  data'[pt[g][UCOW].page] = data'[pt[g][fault[g].va].page]
        <4>1. fault[g].va \in VAs /\ data[pt[g][UCOW].page] = data[pt[g][fault[g].va].page]
          BY <3>1, <3>2 DEF FaultGood
        <4>2. pt[g][UCOW].page # pt[e][UCOW].page /\ pt[g][fault[g].va].page # pt[e][UCOW].page
          BY <1>1, <1>2, <2>2, <4>1 DEF CopyAlone
        <4> QED
          BY <1>1, <1>2, <4>1, <4>2 DEF TypeOK
      <3> QED
        BY <1>1, <1>6, <2>2, <3>1, <3>2 DEF FaultGood
    <2> QED
      BY <2>1, <2>2
  <1>10. ForksGood'
    BY <1>1, <1>2, ForksKept
  <1>11. PtesGood' /\ HandlerSet' /\ LibraryAlike' /\ FaultsHandled'
    BY <1>1, <1>2 DEF PtesGood, HandlerSet, LibraryAlike, FaultsHandled
  <1>12. CopyAlone' /\ WritableAlone'
    BY <1>1, <1>2, <1>6 DEF CopyAlone, WritableAlone
  <1> QED
    BY <1>7, <1>9, <1>10, <1>11, <1>12 DEF IInv

\* A page that stays in use keeps its contents when others are freed.
LEMMA RemapKeeps ==
    ASSUME NEW t, data \in [Pages -> Values], Remap(t)
    PROVE  /\ data' \in [Pages -> Values]
           /\ \A g \in Envs, vb \in Slots :
                t[g][vb].page \in Pages => data'[t[g][vb].page] = data[t[g][vb].page]
  <1>1. \A g \in Envs, vb \in Slots : t[g][vb].page \in Used(t)
    BY DEF Used, Slots
  <1> QED
    BY <1>1, Sizes DEF Remap

\* The copy is mapped at the fault: now writable there, and alone but for UCOW.
LEMMA CowMapKeeps ==
    ASSUME IInv, NEW e \in Envs, CowMap(e)
    PROVE  IInv'
  <1> USE Sizes
  <1> DEFINE fva == fault[e].va
             new == [fault[e].perm EXCEPT !.page = pt[e][UCOW].page]
             t == [pt EXCEPT ![e][fva] = new]
  <1>1. /\ UNCHANGED <<status, entry, pc, fk, panic>>
        /\ status[e] = "runnable" /\ fault[e].at = "map"
        /\ fault' = [fault EXCEPT ![e].at = "unmap"] /\ Remap(t)
    BY DEF CowMap, InHandler, Runs, HandlerGoto
  <1>2. /\ FaultGood(e) /\ TypeOK /\ Idle /\ PtesGood /\ HandlerSet /\ FaultsGood /\ ForksGood
        /\ LibraryAlike /\ CopyAlone /\ WritableAlone /\ FaultsHandled
    BY DEF IInv, FaultsGood
  <1>3. /\ fva \in VAs /\ fva # UCOW /\ pt[e][fva].cow /\ pt[e][UCOW].page # 0 /\ ~pt[e][UCOW].lib
        /\ pc[e] \notin {"child", "self"} /\ (pc[e] # "user" => fva = Stack)
    BY <1>1, <1>2 DEF FaultGood
  <1>4. GoodPte(pt[e][fva])
    BY <1>2, <1>3 DEF PtesGood
  <1>5. pt[e][fva].page # 0 /\ ~pt[e][fva].lib
    BY <1>3, <1>4, PteKinds
  <1>6. new \in Pte /\ new.page = pt[e][UCOW].page /\ new.d /\ ~new.lib /\ ~new.cow
    <2>1. fault[e].perm \in Pte /\ fault[e].perm.d /\ ~fault[e].perm.lib /\ ~fault[e].perm.cow
      BY <1>1, <1>2 DEF FaultGood, TypeOK, FaultRec
    <2>2. pt[e][UCOW].page \in 0..NPAGES
      BY <1>2 DEF TypeOK, Pte
    <2> QED
      BY <2>1, <2>2 DEF Pte
  <1> HIDE DEF new
  <1>7. /\ pt' \in [Envs -> [Slots -> Pte]] /\ pt'[e][fva] = new
        /\ \A g \in Envs, vb \in Slots : g # e \/ vb # fva => pt'[g][vb] = pt[g][vb]
    BY <1>1, <1>2, <1>3, <1>6 DEF TypeOK, Remap
  <1>8. /\ fault' \in [Envs -> FaultRec]
        /\ fault'[e].at = "unmap" /\ fault'[e].va = fva /\ fault'[e].perm = fault[e].perm
        /\ \A g \in Envs : g # e => fault'[g] = fault[g]
    BY <1>1, <1>2 DEF TypeOK, FaultRec, FaultPoints
  <1>9. /\ data' \in [Pages -> Values]
        /\ \A g \in Envs, vb \in Slots :
             pt'[g][vb].page \in Pages => data'[pt'[g][vb].page] = data[pt'[g][vb].page]
    <2>1. pt' = t
      BY <1>1 DEF Remap
    <2> HIDE DEF t
    <2> QED
      BY <1>1, <1>2, <2>1, RemapKeeps DEF TypeOK
  <1> HIDE DEF t
  <1>10. TypeOK' /\ Idle'
    BY <1>1, <1>2, <1>7, <1>8, <1>9 DEF TypeOK, Idle
  <1>11. PtesGood' /\ HandlerSet' /\ FaultsHandled'
    BY <1>1, <1>2, <1>3, <1>6, <1>7 DEF PtesGood, GoodPte, HandlerSet, FaultsHandled
  <1>12. FaultsGood'
    <2> SUFFICES ASSUME NEW g \in Envs PROVE FaultGood(g)'
      BY DEF FaultsGood
    <2>1. CASE g = e
      <3>1. pt'[e][UCOW] = pt[e][UCOW]
        BY <1>3, <1>7
      <3> QED
        BY <1>1, <1>2, <1>3, <1>6, <1>7, <1>8, <2>1, <3>1 DEF FaultGood
    <2>2. CASE g # e
      <3>1. FaultGood(g)
        BY <1>2 DEF FaultsGood
      <3>2. ASSUME fault[g].at # "none"
            PROVE  pt'[g][fault[g].va] = pt[g][fault[g].va]
        BY <1>7, <2>2, <3>1, <3>2 DEF FaultGood
      <3>3. pt'[g][UCOW] = pt[g][UCOW]
        BY <1>7, <2>2
      <3>4. ASSUME fault[g].at = "map"
            PROVE  data'[pt[g][UCOW].page] = data'[pt[g][fault[g].va].page]
        <4>1. /\ fault[g].va \in VAs /\ pt[g][UCOW].page # 0 /\ pt[g][fault[g].va].cow
              /\ data[pt[g][UCOW].page] = data[pt[g][fault[g].va].page]
          BY <3>1, <3>4 DEF FaultGood
        <4>2. GoodPte(pt[g][fault[g].va])
          BY <1>2, <4>1 DEF PtesGood
        <4>3. pt[g][UCOW].page \in Pages /\ pt[g][fault[g].va].page \in Pages
          BY <1>2, <4>1, <4>2, PteKinds, PageNumbers
        <4>4. data'[pt[g][UCOW].page] = data[pt[g][UCOW].page]
          <5>1. pt'[g][UCOW].page \in Pages => data'[pt'[g][UCOW].page] = data[pt'[g][UCOW].page]
            BY <1>9
          <5> QED
            BY <3>3, <4>3, <5>1
        <4>5. data'[pt[g][fault[g].va].page] = data[pt[g][fault[g].va].page]
          <5> DEFINE vb == fault[g].va
          <5>1. vb \in Slots
            BY <4>1
          <5>2. pt'[g][vb].page \in Pages => data'[pt'[g][vb].page] = data[pt'[g][vb].page]
            BY <1>9, <5>1
          <5> QED
            BY <3>2, <3>4, <4>3, <5>2
        <4> QED
          BY <4>1, <4>4, <4>5
      <3> QED
        BY <1>1, <1>8, <2>2, <3>1, <3>2, <3>3, <3>4 DEF FaultGood
    <2> QED
      BY <2>1, <2>2
  <1>13. ForksGood'
    <2> SUFFICES ASSUME NEW g \in Envs PROVE ForkGood(g)'
      BY <1>1, <1>2 DEF ForksGood, Forks
    <2>1. Forks(g) => fk[g].child # e /\ fk[g].child \in Envs
      BY <1>1, <1>2 DEF ForksGood, ForkGood
    <2>2. ForkGood(g)
      BY <1>2 DEF ForksGood
    <2>3. CASE g # e
      <3>1. /\ \A vb \in Slots : pt'[g][vb] = pt[g][vb]
            /\ Forks(g) => \A vb \in Slots : pt'[fk[g].child][vb] = pt[fk[g].child][vb]
        BY <1>7, <2>1, <2>3
      <3> QED
        BY <1>1, <2>1, <2>2, <3>1, Sizes, ForkKept
    <2>4. CASE g = e /\ Forks(e)
      <3>1. /\ \A vb \in Slots : vb # fva => pt'[e][vb] = pt[e][vb]
            /\ \A vb \in Slots : pt'[fk[e].child][vb] = pt[fk[e].child][vb]
            /\ fva = Stack
        BY <1>3, <1>7, <2>1, <2>4 DEF Forks
      <3>2. \A vb \in VAs : HandedOver(e, vb)'
        BY <1>1, <1>3, <1>5, <1>6, <1>7, <2>2, <2>4, <3>1 DEF ForkGood, HandedOver, Given, Copied, Mapped
      <3> QED
        BY <1>1, <1>3, <2>1, <2>2, <2>4, <3>1, <3>2 DEF ForkGood, Forks
    <2>5. CASE ~Forks(g)
      BY <1>1, <2>5 DEF ForkGood, Forks
    <2> QED
      BY <2>3, <2>4, <2>5
  <1>14. LibraryAlike'
    <2> SUFFICES ASSUME NEW g \in Envs, NEW h \in Envs, NEW va \in Slots, NEW vb \in Slots,
                        pt'[g][va].page # 0, pt'[g][va].page = pt'[h][vb].page, pt'[g][va].lib
                 PROVE  pt'[h][vb].lib
      BY DEF LibraryAlike
    <2>1. pt'[g][va] = pt[g][va]
      BY <1>6, <1>7
    <2>2. CASE h = e /\ vb = fva
      BY <1>2, <1>3, <1>6, <1>7, <2>1, <2>2 DEF LibraryAlike, TypeOK, Pte
    <2>3. CASE ~(h = e /\ vb = fva)
      BY <1>2, <1>7, <2>1, <2>3 DEF LibraryAlike, TypeOK, Pte
    <2> QED
      BY <2>2, <2>3
  <1>15. CopyAlone'
    <2> SUFFICES ASSUME NEW f \in Envs, NEW h \in Envs, NEW vb \in Slots,
                        fault'[f].at \in {"copy", "map"}, pt'[h][vb].page = pt'[f][UCOW].page
                 PROVE  h = f /\ vb = UCOW
      BY DEF CopyAlone
    <2>1. f # e /\ fault[f].at \in {"copy", "map"} /\ CopyAlone
      BY <1>2, <1>8
    <2>2. pt'[f][UCOW] = pt[f][UCOW]
      BY <1>7, <2>1
    <2>3. CASE h = e /\ vb = fva
      <3>1. pt[e][UCOW].page = pt[f][UCOW].page
        BY <1>6, <1>7, <2>2, <2>3
      <3> QED
        BY <2>1, <3>1 DEF CopyAlone
    <2>4. CASE ~(h = e /\ vb = fva)
      <3>1. pt[h][vb].page = pt[f][UCOW].page
        BY <1>7, <2>2, <2>4
      <3> QED
        BY <2>1, <3>1 DEF CopyAlone
    <2> QED
      BY <2>3, <2>4
  <1>16. WritableAlone'
    <2> SUFFICES ASSUME NEW g \in Envs, NEW h \in Envs, NEW a \in VAs, NEW vb \in Slots,
                        pt'[g][a].d, ~pt'[g][a].lib, pt'[h][vb].page = pt'[g][a].page
                 PROVE  \/ h = g /\ vb = a
                        \/ h = g /\ vb = UCOW /\ fault'[g].at = "unmap" /\ fault'[g].va = a
                        \/ pc[g] = "self" /\ h = fk[g].child /\ vb = a /\ fk[g].va = a
      BY <1>1 DEF WritableAlone
    <2>1. CASE g = e /\ a = fva
      <3>1. CASE h = e /\ vb = fva
        BY <2>1, <3>1
      <3>2. CASE ~(h = e /\ vb = fva)
        <4>1. pt[h][vb].page = pt[e][UCOW].page
          BY <1>6, <1>7, <2>1, <3>2
        <4>2. h = e /\ vb = UCOW
          BY <1>1, <1>2, <4>1 DEF CopyAlone
        <4> QED
          BY <1>8, <2>1, <4>2
      <3> QED
        BY <3>1, <3>2
    <2>2. CASE ~(g = e /\ a = fva)
      <3>1. pt'[g][a] = pt[g][a]
        BY <1>7, <2>2
      <3>2. ~(h = e /\ vb = fva)
        <4> SUFFICES ASSUME h = e, vb = fva PROVE FALSE
          OBVIOUS
        <4>1. pt[e][UCOW].page = pt[g][a].page
          BY <1>6, <1>7, <3>1
        <4> QED
          BY <1>1, <1>2, <4>1 DEF CopyAlone
      <3>3. pt[h][vb].page = pt[g][a].page /\ pt[g][a].d /\ ~pt[g][a].lib
        BY <1>7, <3>1, <3>2
      <3>4. \/ h = g /\ vb = a
            \/ h = g /\ vb = UCOW /\ fault[g].at = "unmap" /\ fault[g].va = a
            \/ pc[g] = "self" /\ h = fk[g].child /\ vb = a /\ fk[g].va = a
        BY <1>2, <3>3 DEF WritableAlone
      <3> QED
        BY <1>1, <1>8, <3>4
    <2> QED
      BY <2>1, <2>2
  <1> QED
    BY <1>10, <1>11, <1>12, <1>13, <1>14, <1>15, <1>16 DEF IInv

\* UCOW is given up, which leaves the copy to its place (WritableAlone).
LEMMA CowUnmapKeeps ==
    ASSUME IInv, NEW e \in Envs, CowUnmap(e)
    PROVE  IInv'
  <1> USE Sizes
  <1>1. /\ UNCHANGED <<status, data, entry, pc, fk, panic>>
        /\ status[e] = "runnable" /\ fault[e].at = "unmap"
        /\ pt' = [pt EXCEPT ![e][UCOW] = NoPage] /\ fault' = [fault EXCEPT ![e] = NoFault]
    BY DEF CowUnmap, InHandler, Runs
  <1>2. /\ FaultGood(e) /\ TypeOK /\ Idle /\ PtesGood /\ HandlerSet /\ FaultsGood /\ ForksGood
        /\ LibraryAlike /\ CopyAlone /\ WritableAlone /\ FaultsHandled
    BY DEF IInv, FaultsGood
  <1>3. /\ pt' \in [Envs -> [Slots -> Pte]] /\ pt'[e][UCOW] = NoPage
        /\ \A g \in Envs, vb \in Slots : g # e \/ vb # UCOW => pt'[g][vb] = pt[g][vb]
    BY <1>1, <1>2 DEF TypeOK
  <1>4. NoFault \in FaultRec /\ NoFault.at = "none"
    BY DEF NoFault, FaultRec, FaultPoints
  <1>5. /\ fault' \in [Envs -> FaultRec] /\ fault'[e].at = "none"
        /\ \A g \in Envs : g # e => fault'[g] = fault[g]
    BY <1>1, <1>2, <1>4 DEF TypeOK
  <1>6. TypeOK' /\ Idle'
    BY <1>1, <1>2, <1>3, <1>5 DEF TypeOK, Idle
  <1>7. PtesGood' /\ HandlerSet' /\ FaultsHandled'
    BY <1>1, <1>2, <1>3 DEF PtesGood, HandlerSet, FaultsHandled
  <1>8. FaultsGood'
    <2> SUFFICES ASSUME NEW g \in Envs PROVE FaultGood(g)'
      BY DEF FaultsGood
    <2>1. CASE g = e
      BY <1>3, <1>5, <2>1 DEF FaultGood
    <2>2. CASE g # e
      <3>1. FaultGood(g) /\ pt'[g] = pt[g]
        BY <1>1, <1>2, <2>2 DEF FaultsGood, TypeOK
      <3> QED
        BY <1>1, <1>5, <2>2, <3>1 DEF FaultGood
    <2> QED
      BY <2>1, <2>2
  <1>9. ForksGood'
    <2>1. \A g \in Envs : Forks(g) => fk[g].child # e /\ fk[g].child \in Envs
      BY <1>1, <1>2 DEF ForksGood, ForkGood
    <2>2. \A g \in Envs, vb \in VAs : pt'[g][vb] = pt[g][vb]
      BY <1>3
    <2>3. \A g \in Envs : Forks(g) => \A vb \in Slots : pt'[fk[g].child][vb] = pt[fk[g].child][vb]
      BY <1>3, <2>1
    <2>4. ASSUME NEW g \in Envs PROVE ForkGood(g)'
      <3>1. ForkGood(g)
        BY <1>2 DEF ForksGood
      <3> QED
        BY <1>1, <2>2, <2>3, <3>1, ForkKept
    <2> QED
      BY <1>1, <1>2, <2>4 DEF ForksGood, Forks
  <1>10. LibraryAlike'
    <2>1. NoPage.page = 0
      BY DEF NoPage
    <2> QED
      BY <1>2, <1>3, <2>1 DEF LibraryAlike, TypeOK, Pte
  <1>11. CopyAlone'
    <2>1. NoPage.page = 0
      BY DEF NoPage
    <2>2. \A g \in Envs : fault'[g].at \in {"copy", "map"} => g # e /\ pt[g][UCOW].page # 0
      BY <1>2, <1>5 DEF FaultsGood, FaultGood
    <2> SUFFICES ASSUME NEW f \in Envs, NEW h \in Envs, NEW vb \in Slots,
                        fault'[f].at \in {"copy", "map"}, pt'[h][vb].page = pt'[f][UCOW].page
                 PROVE  h = f /\ vb = UCOW
      BY DEF CopyAlone
    <2>3. f # e /\ pt[f][UCOW].page # 0 /\ fault[f].at \in {"copy", "map"}
      BY <1>5, <2>2
    <2>4. pt'[f][UCOW] = pt[f][UCOW]
      BY <1>3, <2>3
    <2>5. pt'[h][vb] = pt[h][vb]
      BY <1>3, <2>1, <2>3, <2>4
    <2>6. pt[h][vb].page = pt[f][UCOW].page
      BY <2>4, <2>5
    <2>7. CopyAlone
      BY <1>2
    <2> QED
      BY <2>3, <2>6, <2>7 DEF CopyAlone
  <1>12. WritableAlone'
    <2>1. NoPage.page = 0
      BY DEF NoPage
    <2>2. \A g \in Envs, vb \in VAs : pt[g][vb].d => pt[g][vb].page # 0
      BY <1>2, PteKinds DEF PtesGood
    <2> SUFFICES ASSUME NEW g \in Envs, NEW h \in Envs, NEW a \in VAs, NEW vb \in Slots,
                        pt'[g][a].d, ~pt'[g][a].lib, pt'[h][vb].page = pt'[g][a].page
                 PROVE  \/ h = g /\ vb = a
                        \/ h = g /\ vb = UCOW /\ fault'[g].at = "unmap" /\ fault'[g].va = a
                        \/ pc[g] = "self" /\ h = fk[g].child /\ vb = a /\ fk[g].va = a
      BY <1>1 DEF WritableAlone
    <2>3. pt'[g][a] = pt[g][a] /\ pt[g][a].page # 0
      BY <1>3, <2>2
    <2>4. ~(h = e /\ vb = UCOW) /\ pt'[h][vb] = pt[h][vb]
      BY <1>3, <2>1, <2>3
    <2>5. pt[h][vb].page = pt[g][a].page /\ pt[g][a].d /\ ~pt[g][a].lib
      BY <2>3, <2>4
    <2>6. \/ h = g /\ vb = a
          \/ h = g /\ vb = UCOW /\ fault[g].at = "unmap" /\ fault[g].va = a
          \/ pc[g] = "self" /\ h = fk[g].child /\ vb = a /\ fk[g].va = a
      BY <1>2, <2>5 DEF WritableAlone
    <2> QED
      BY <1>5, <2>4, <2>6
  <1> QED
    BY <1>6, <1>7, <1>8, <1>9, <1>10, <1>11, <1>12 DEF IInv
-----------------------------------------------------------------------------
\* fork sets the caller's own handler before anything else (HandlerSet).
LEMMA ForkEntryKeeps ==
    ASSUME IInv, NEW e \in Envs, ForkEntry(e)
    PROVE  IInv'
  <1> USE Sizes DEF IInv
  <1>1. /\ UNCHANGED <<status, pt, data, fk, fault, panic>>
        /\ status[e] = "runnable" /\ fault[e].at = "none" /\ pc[e] = "user"
        /\ entry' = [entry EXCEPT ![e] = TRUE] /\ pc' = [pc EXCEPT ![e] = "exofork"]
    BY DEF ForkEntry, In, Runs, Goto
  <1>2. /\ entry'[e] /\ pc'[e] = "exofork"
        /\ \A g \in Envs : g # e => pc'[g] = pc[g] /\ entry'[g] = entry[g]
    BY <1>1 DEF TypeOK
  <1>3. TypeOK'
    BY <1>1 DEF TypeOK, Points
  <1>4. Idle' /\ PtesGood' /\ HandlerSet' /\ FaultsHandled'
    BY <1>1, <1>2 DEF Idle, PtesGood, HandlerSet, FaultsHandled
  <1>5. FaultsGood'
    BY <1>1, <1>2 DEF FaultsGood, FaultGood
  <1>6. ForksGood'
    <2>1. ASSUME NEW g \in Envs PROVE ForkGood(g)'
      <3>1. CASE g = e
        BY <1>1, <1>2, <3>1 DEF ForkGood, Forks
      <3>2. CASE g # e
        <4>1. ForkGood(g) /\ (Forks(g) => fk[g].child \in Envs)
          BY DEF ForksGood, ForkGood
        <4>2. \A h \in Envs : entry[h] => entry'[h]
          BY <1>2
        <4> QED
          BY <1>1, <1>2, <3>2, <4>1, <4>2, ForkKept
      <3> QED
        BY <3>1, <3>2
    <2> QED
      BY <1>1, <1>2, <2>1 DEF ForksGood, Forks
  <1>7. LibraryAlike' /\ CopyAlone' /\ WritableAlone'
    BY <1>1, <1>2 DEF LibraryAlike, CopyAlone, WritableAlone
  <1> QED
    BY <1>3, <1>4, <1>5, <1>6, <1>7

\* fork sets the child's handler before it starts it (HandlerSet).
LEMMA ForkSetEntryKeeps ==
    ASSUME IInv, NEW e \in Envs, ForkSetEntry(e)
    PROVE  IInv'
  <1> USE Sizes DEF IInv
  <1>1. /\ UNCHANGED <<status, pt, data, fk, fault, panic>>
        /\ status[e] = "runnable" /\ fault[e].at = "none" /\ pc[e] = "entry"
        /\ entry' = [entry EXCEPT ![fk[e].child] = TRUE] /\ pc' = [pc EXCEPT ![e] = "start"]
    BY DEF ForkSetEntry, In, Runs, Goto
  <1>2. fk[e].child \in Envs /\ ForkGood(e)
    BY <1>1 DEF ForksGood, ForkGood, Forks
  <1>3. /\ entry'[fk[e].child] /\ pc'[e] = "start"
        /\ \A g \in Envs : entry[g] => entry'[g]
        /\ \A g \in Envs : g # e => pc'[g] = pc[g]
    BY <1>1, <1>2 DEF TypeOK
  <1>4. TypeOK'
    BY <1>1, <1>2 DEF TypeOK, Points
  <1>5. Idle' /\ PtesGood' /\ HandlerSet' /\ FaultsHandled'
    BY <1>1, <1>3 DEF Idle, PtesGood, HandlerSet, FaultsHandled
  <1>6. FaultsGood'
    BY <1>1, <1>3 DEF FaultsGood, FaultGood
  <1>7. ForksGood'
    <2>1. ForkGood(e)'
      BY <1>1, <1>2, <1>3 DEF ForkGood, Forks, HandedOver, Given, Copied, Mapped
    <2>2. ASSUME NEW g \in Envs, g # e PROVE ForkGood(g)'
      <3>1. ForkGood(g) /\ (Forks(g) => fk[g].child \in Envs)
        BY DEF ForksGood, ForkGood
      <3> QED
        BY <1>1, <1>3, <2>2, <3>1, ForkKept
    <2> QED
      BY <1>1, <1>3, <2>1, <2>2 DEF ForksGood, Forks
  <1>8. LibraryAlike' /\ CopyAlone' /\ WritableAlone'
    BY <1>1, <1>3 DEF LibraryAlike, CopyAlone, WritableAlone
  <1> QED
    BY <1>4, <1>5, <1>6, <1>7, <1>8

\* The child runs: it has its handler, and every page of its parent.
LEMMA ForkStartKeeps ==
    ASSUME IInv, NEW e \in Envs, ForkStart(e)
    PROVE  IInv'
  <1> USE Sizes DEF IInv
  <1> DEFINE c == fk[e].child
  <1>1. /\ UNCHANGED <<pt, data, entry, fault, panic>>
        /\ status[e] = "runnable" /\ fault[e].at = "none" /\ pc[e] = "start"
        /\ status' = [status EXCEPT ![c] = "runnable"]
        /\ fk' = [fk EXCEPT ![e] = NoFork] /\ pc' = [pc EXCEPT ![e] = "user"]
    BY DEF ForkStart, In, Runs, Goto
  <1>2. c \in Envs /\ entry[c] /\ status[c] = "not_runnable" /\ c # e
    BY <1>1 DEF ForksGood, ForkGood, Forks
  <1>3. NoFork \in ForkRec
    BY DEF NoFork, ForkRec
  <1>4. /\ status'[c] = "runnable" /\ pc'[e] = "user"
        /\ \A g \in Envs : g # c => status'[g] = status[g]
        /\ \A g \in Envs : g # e => pc'[g] = pc[g] /\ fk'[g] = fk[g]
    BY <1>1, <1>2 DEF TypeOK
  <1>5. TypeOK'
    BY <1>1, <1>2, <1>3 DEF TypeOK, Points
  <1>6. Idle' /\ PtesGood' /\ HandlerSet' /\ FaultsHandled'
    BY <1>1, <1>2, <1>4 DEF Idle, PtesGood, HandlerSet, FaultsHandled
  <1>7. FaultsGood'
    BY <1>1, <1>4 DEF FaultsGood, FaultGood
  <1>8. ForksGood'
    <2>1. \A g \in Envs : g # e /\ Forks(g) => fk[g].child # c
      BY <1>1 DEF ForksGood, Forks
    <2>2. ASSUME NEW g \in Envs, g # e, Forks(g) PROVE ForkGood(g)'
      <3>1. ForkGood(g) /\ status'[fk[g].child] = status[fk[g].child]
        BY <1>4, <2>1, <2>2 DEF ForksGood, ForkGood
      <3> HIDE DEF c
      <3> QED
        BY <1>1, <1>4, <2>2, <3>1, ForkKept
    <2>3. \A g \in Envs : Forks(g)' => g # e /\ Forks(g)
      BY <1>1, <1>4 DEF Forks
    <2>4. \A g \in Envs : ForkGood(g)'
      BY <2>2, <2>3 DEF ForkGood
    <2> QED
      BY <1>4, <2>3, <2>4 DEF ForksGood
  <1>9. LibraryAlike' /\ CopyAlone' /\ WritableAlone'
    BY <1>1, <1>4 DEF LibraryAlike, CopyAlone, WritableAlone
  <1> QED
    BY <1>5, <1>6, <1>7, <1>8, <1>9

\* syscall_exofork takes a free slot, which no other fork has as its child.
LEMMA ExoforkKeeps ==
    ASSUME IInv, NEW e \in Envs, Exofork(e)
    PROVE  IInv'
  <1> USE Sizes
  <1> DEFINE slots == { c \in Envs : status[c] = "free" }
             c == Min(slots)
             none == [va \in {UCOW} \cup VAs |-> NoPage]
  <1>1. /\ UNCHANGED <<data, fault, panic>>
        /\ status[e] = "runnable" /\ fault[e].at = "none" /\ pc[e] = "exofork"
    BY DEF Exofork, In, Runs
  <1>2. /\ TypeOK /\ Idle /\ PtesGood /\ HandlerSet /\ FaultsGood /\ ForksGood
        /\ LibraryAlike /\ CopyAlone /\ WritableAlone /\ FaultsHandled
    BY DEF IInv
  <1>3. CASE slots = {}
    <2>1. UNCHANGED <<status, pt, entry, fk>> /\ pc' = [pc EXCEPT ![e] = "user"]
      BY <1>3 DEF Exofork, Goto
    <2>2. pc'[e] = "user" /\ \A g \in Envs : g # e => pc'[g] = pc[g]
      BY <1>2, <2>1 DEF TypeOK
    <2>3. TypeOK'
      BY <1>1, <1>2, <2>1 DEF TypeOK, Points
    <2>4. Idle' /\ PtesGood' /\ HandlerSet' /\ FaultsHandled'
      BY <1>1, <1>2, <2>1, <2>2 DEF Idle, PtesGood, HandlerSet, FaultsHandled
    <2>5. FaultsGood'
      BY <1>1, <1>2, <2>1, <2>2 DEF FaultsGood, FaultGood
    <2>6. ASSUME NEW g \in Envs PROVE ForkGood(g)'
      <3>1. CASE g = e
        BY <2>2, <3>1 DEF ForkGood, Forks
      <3>2. CASE g # e
        <4>1. ForkGood(g)
          BY <1>2 DEF ForksGood
        <4> QED
          BY <2>1, <2>2, <3>2, <4>1, ForkKept
      <3> QED
        BY <3>1, <3>2
    <2>7. ForksGood'
      BY <1>1, <1>2, <2>1, <2>2, <2>6 DEF ForksGood, Forks
    <2>8. LibraryAlike' /\ CopyAlone'
      BY <1>1, <1>2, <2>1 DEF LibraryAlike, CopyAlone
    <2>9. WritableAlone'
      <3>1. \A g \in Envs : pc[g] = "self" => pc'[g] = "self"
        BY <1>1, <2>2
      <3> QED
        BY <1>1, <1>2, <2>1, <3>1 DEF WritableAlone
    <2> QED
      BY <2>3, <2>4, <2>5, <2>7, <2>8, <2>9 DEF IInv
  <1>4. CASE slots # {}
    <2> DEFINE rec == [NoFork EXCEPT !.child = c, !.va = 1]
    <2>1. c \in slots
      BY <1>4, MinIsMember
    <2>2. /\ status' = [status EXCEPT ![c] = "not_runnable"] /\ pt' = [pt EXCEPT ![c] = none]
          /\ entry' = [entry EXCEPT ![c] = FALSE] /\ fk' = [fk EXCEPT ![e] = rec]
          /\ pc' = [pc EXCEPT ![e] = "dup"]
      BY <1>4 DEF Exofork, Goto
    <2>3. /\ c \in Envs /\ status[c] = "free" /\ c # e /\ pc[c] = "user" /\ fault[c].at = "none"
      BY <1>1, <1>2, <2>1 DEF Idle
    <2>4. none \in [Slots -> Pte] /\ \A vb \in Slots : none[vb] = NoPage
      BY DEF Slots
    <2>18. rec = [NoFork EXCEPT !.child = c, !.va = 1]
      OBVIOUS
    <2> HIDE DEF rec, c, slots, none
    <2>5. rec = [child |-> c, va |-> 1, perm |-> NoPage, flag |-> FALSE]
      BY <2>18, NewFork
    <2>6. rec \in ForkRec
      <3>1. c \in 0..NENV /\ 1 \in 0..(NVA + 1)
        BY <2>3 DEF Envs
      <3> QED
        BY <2>5, <3>1 DEF ForkRec
    <2>7. /\ status'[c] = "not_runnable" /\ pc'[e] = "dup" /\ fk'[e] = rec
          /\ \A g \in Envs : g # c => status'[g] = status[g] /\ entry'[g] = entry[g] /\ pt'[g] = pt[g]
          /\ \A g \in Envs : g # e => pc'[g] = pc[g] /\ fk'[g] = fk[g]
          /\ \A vb \in Slots : pt'[c][vb] = NoPage
      BY <1>2, <2>2, <2>3, <2>4 DEF TypeOK
    <2>8. TypeOK'
      BY <1>1, <1>2, <2>2, <2>3, <2>4, <2>6 DEF TypeOK, Points
    <2>9. Idle' /\ FaultsHandled'
      BY <1>1, <1>2, <2>3, <2>7 DEF Idle, FaultsHandled
    <2>10. PtesGood'
      BY <1>2, <2>7 DEF PtesGood, GoodPte
    <2>11. HandlerSet'
      BY <1>1, <1>2, <2>3, <2>7 DEF HandlerSet
    <2>12. FaultsGood'
      <3> SUFFICES ASSUME NEW g \in Envs PROVE FaultGood(g)'
        BY DEF FaultsGood
      <3>1. CASE g = c
        BY <1>1, <2>3, <2>7, <3>1 DEF FaultGood
      <3>2. CASE g # c
        BY <1>1, <1>2, <2>7, <3>2 DEF FaultsGood, FaultGood
      <3> QED
        BY <3>1, <3>2
    <2>13. ForksGood'
      <3>1. ForkGood(e)'
        <4>1. fk'[e].child = c /\ fk'[e].va = 1 /\ 1 \in VAs /\ 1 \in 1..(NVA + 1)
          BY <2>5, <2>7 DEF VAs
        <4>2. \A vb \in VAs : ~Copied(e, vb)'
          BY <2>7, <4>1 DEF Copied, VAs
        <4> QED
          BY <2>3, <2>7, <4>1, <4>2 DEF ForkGood, HandedOver
      <3>2. \A g \in Envs : Forks(g) => fk[g].child # c /\ g # c
        BY <1>2, <2>3 DEF ForksGood, ForkGood, Forks
      <3>3. ASSUME NEW g \in Envs, g # e PROVE ForkGood(g)'
        <4>1. pt'[g] = pt[g] \/ ~Forks(g)
          BY <2>7, <3>2
        <4>2. Forks(g) => /\ pt'[fk[g].child] = pt[fk[g].child]
                          /\ entry'[fk[g].child] = entry[fk[g].child]
                          /\ status'[fk[g].child] = status[fk[g].child]
          BY <1>2, <2>7, <3>2 DEF ForksGood, ForkGood
        <4>3. ForkGood(g) /\ pc'[g] = pc[g] /\ fk'[g] = fk[g]
          BY <1>2, <2>7, <3>3 DEF ForksGood
        <4> QED
          BY <4>1, <4>2, <4>3, ForkKept
      <3>4. \A g \in Envs : g # e /\ Forks(g)' => Forks(g) /\ fk'[g].child # c
        BY <2>7, <3>2 DEF Forks
      <3>5. fk'[e].child = c
        BY <2>5, <2>7
      <3> QED
        BY <1>2, <2>7, <3>1, <3>3, <3>4, <3>5 DEF ForksGood
    <2>14. \A g \in Envs, vb \in Slots : pt'[g][vb].page # 0 => g # c /\ pt'[g][vb] = pt[g][vb]
      BY <2>7 DEF NoPage
    <2>15. LibraryAlike'
      <3> SUFFICES ASSUME NEW g \in Envs, NEW h \in Envs, NEW va \in Slots, NEW vb \in Slots,
                          pt'[g][va].page # 0, pt'[g][va].page = pt'[h][vb].page, pt'[g][va].lib
                   PROVE  pt'[h][vb].lib
        BY DEF LibraryAlike
      <3>1. pt'[g][va] = pt[g][va] /\ pt'[h][vb] = pt[h][vb]
        BY <2>14
      <3> QED
        BY <1>2, <3>1 DEF LibraryAlike
    <2>16. CopyAlone'
      <3>1. \A g \in Envs : fault'[g].at \in {"copy", "map"} => g # c /\ pt[g][UCOW].page # 0
        BY <1>1, <1>2, <2>3 DEF FaultsGood, FaultGood
      <3> QED
        BY <1>1, <1>2, <2>7, <2>14, <3>1 DEF CopyAlone
    <2>17. WritableAlone'
      <3>1. \A g \in Envs, vb \in VAs : pt'[g][vb].d => pt'[g][vb].page # 0
        BY <2>10, PteKinds DEF PtesGood
      <3>2. \A g \in Envs : pc[g] = "self" => g # e
        BY <1>1
      <3> QED
        BY <1>1, <1>2, <2>7, <2>14, <3>1, <3>2 DEF WritableAlone
    <2> QED
      BY <2>8, <2>9, <2>10, <2>11, <2>12, <2>13, <2>15, <2>16, <2>17 DEF IInv
  <1> QED
    BY <1>3, <1>4

\* A slot is freed with all its mappings: counts of sharers only fall.
LEMMA ExitKeeps ==
    ASSUME IInv, NEW e \in Envs, Exit(e)
    PROVE  IInv'
  <1> USE Sizes
  <1> DEFINE none == [va \in {UCOW} \cup VAs |-> NoPage]
             t == [pt EXCEPT ![e] = none]
  <1>1. /\ UNCHANGED <<entry, pc, fk, fault, panic>>
        /\ status[e] = "runnable" /\ fault[e].at = "none" /\ pc[e] = "user"
        /\ status' = [status EXCEPT ![e] = "free"] /\ Remap(t)
    BY DEF Exit, In, Runs
  <1>2. /\ TypeOK /\ Idle /\ PtesGood /\ HandlerSet /\ FaultsGood /\ ForksGood
        /\ LibraryAlike /\ CopyAlone /\ WritableAlone /\ FaultsHandled
    BY DEF IInv
  <1>3. none \in [Slots -> Pte] /\ \A vb \in Slots : none[vb] = NoPage
    BY DEF Slots
  <1>4. pt' = t
    BY <1>1 DEF Remap
  <1> HIDE DEF none
  <1>5. /\ pt' \in [Envs -> [Slots -> Pte]] /\ \A vb \in Slots : pt'[e][vb] = NoPage
        /\ \A g \in Envs : g # e => pt'[g] = pt[g] /\ status'[g] = status[g]
        /\ status'[e] = "free" /\ status' \in [Envs -> {"free", "not_runnable", "runnable"}]
    BY <1>1, <1>2, <1>3, <1>4 DEF TypeOK
  <1> HIDE DEF t
  <1>6. /\ data' \in [Pages -> Values]
        /\ \A g \in Envs, vb \in Slots :
             pt'[g][vb].page \in Pages => data'[pt'[g][vb].page] = data[pt'[g][vb].page]
    BY <1>1, <1>2, <1>4, RemapKeeps DEF TypeOK
  <1>7. TypeOK' /\ Idle' /\ FaultsHandled'
    BY <1>1, <1>2, <1>5, <1>6 DEF TypeOK, Idle, FaultsHandled
  <1>8. PtesGood' /\ HandlerSet'
    <2> SUFFICES ASSUME NEW g \in Envs
                 PROVE  /\ (\A va \in VAs : GoodPte(pt[g][va]))'
                        /\ (status[g] = "runnable" => \A va \in VAs : pt[g][va].cow => entry[g])'
                        /\ (pc[g] # "user" => entry[g])'
      BY DEF PtesGood, HandlerSet
    <2>1. CASE g = e
      BY <1>1, <1>5, <2>1 DEF GoodPte
    <2>2. CASE g # e
      <3>1. pt'[g] = pt[g] /\ status'[g] = status[g]
        BY <1>5, <2>2
      <3>2. \A va \in VAs : GoodPte(pt[g][va])
        BY <1>2 DEF PtesGood
      <3>3. \A va \in VAs : GoodPte(pt'[g][va])
        BY <3>1, <3>2
      <3> QED
        BY <1>1, <1>2, <3>1, <3>3 DEF HandlerSet
    <2> QED
      BY <2>1, <2>2
  <1>9. FaultsGood'
    <2> SUFFICES ASSUME NEW g \in Envs PROVE FaultGood(g)'
      BY DEF FaultsGood
    <2>1. CASE g = e
      BY <1>1, <1>5, <2>1 DEF FaultGood
    <2>2. CASE g # e
      <3>1. FaultGood(g) /\ pt'[g] = pt[g]
        BY <1>2, <1>5, <2>2 DEF FaultsGood
      <3>2. ASSUME fault[g].at = "map"
            PROVE  data'[pt[g][UCOW].page] = data'[pt[g][fault[g].va].page]
        <4> DEFINE vb == fault[g].va
        <4>1. /\ vb \in VAs /\ pt[g][UCOW].page # 0 /\ pt[g][vb].cow
              /\ data[pt[g][UCOW].page] = data[pt[g][vb].page]
          BY <3>1, <3>2 DEF FaultGood
        <4>2. GoodPte(pt[g][vb])
          BY <1>2, <4>1 DEF PtesGood
        <4>3. pt[g][UCOW].page \in Pages /\ pt[g][vb].page \in Pages
          BY <1>2, <4>1, <4>2, PteKinds, PageNumbers
        <4>4. pt'[g][UCOW].page \in Pages => data'[pt'[g][UCOW].page] = data[pt'[g][UCOW].page]
          BY <1>6
        <4>5. pt'[g][vb].page \in Pages => data'[pt'[g][vb].page] = data[pt'[g][vb].page]
          BY <1>6, <4>1
        <4> QED
          BY <3>1, <4>1, <4>3, <4>4, <4>5
      <3> QED
        BY <1>1, <3>1, <3>2 DEF FaultGood
    <2> QED
      BY <2>1, <2>2
  <1>10. ForksGood'
    <2>1. \A g \in Envs : Forks(g) => fk[g].child # e /\ g # e
      BY <1>1, <1>2 DEF ForksGood, ForkGood, Forks
    <2>2. ASSUME NEW g \in Envs PROVE ForkGood(g)'
      <3>1. ForkGood(g) /\ (Forks(g) => fk[g].child \in Envs)
        BY <1>2 DEF ForksGood, ForkGood
      <3> QED
        BY <1>1, <1>5, <2>1, <3>1, ForkKept
    <2> QED
      BY <1>1, <1>2, <2>2 DEF ForksGood, Forks
  <1>11. \A g \in Envs, vb \in Slots : pt'[g][vb].page # 0 => g # e /\ pt'[g][vb] = pt[g][vb]
    BY <1>5 DEF NoPage
  <1>12. LibraryAlike'
    BY <1>2, <1>11 DEF LibraryAlike, TypeOK, Pte
  <1>13. CopyAlone'
    <2>1. \A g \in Envs : fault'[g].at \in {"copy", "map"} => g # e /\ pt[g][UCOW].page # 0
      BY <1>1, <1>2 DEF FaultsGood, FaultGood
    <2> QED
      BY <1>1, <1>2, <1>5, <1>11, <2>1 DEF CopyAlone
  <1>14. WritableAlone'
    <2>1. \A g \in Envs, vb \in VAs : pt'[g][vb].d => pt'[g][vb].page # 0
      BY <1>8, PteKinds DEF PtesGood
    <2> QED
      BY <1>1, <1>2, <1>5, <1>11, <2>1 DEF WritableAlone
  <1> QED
    BY <1>7, <1>8, <1>9, <1>10, <1>12, <1>13, <1>14 DEF IInv
\* The loop of fork goes on: the pages up to this one are handed over.
LEMMA AdvanceGood ==
    ASSUME TypeOK, NEW e \in Envs, Advance(e), NEW c, c = fk[e].child,
           fk[e].va \in VAs, c \in Envs, (status[c] = "not_runnable")',
           \A vb \in VAs : IF vb <= fk[e].va THEN Given(e, c, vb)' ELSE (pt[c][vb] = NoPage)',
           (pt[c][UCOW] = NoPage)'
    PROVE  /\ fk' \in [Envs -> ForkRec] /\ pc' \in [Envs -> Points]
           /\ pc'[e] \in {"dup", "entry"} /\ fk'[e].child = c
           /\ \A g \in Envs : g # e => fk'[g] = fk[g] /\ pc'[g] = pc[g]
           /\ ForkGood(e)'
  <1> USE Sizes
  <1> DEFINE x == [fk[e] EXCEPT !.va = fk[e].va + 1, !.perm = NoPage, !.flag = FALSE]
  <1>1. fk' = [fk EXCEPT ![e] = x]
    BY DEF Advance, TypeOK
  <1>2. x = [fk[e] EXCEPT !.va = fk[e].va + 1, !.perm = NoPage, !.flag = FALSE]
    OBVIOUS
  <1>3. pc' = [pc EXCEPT ![e] = IF fk[e].va = NVA THEN "entry" ELSE "dup"]
    BY DEF Advance, Goto
  <1> HIDE DEF x
  <1>4. x = [child |-> c, va |-> fk[e].va + 1, perm |-> NoPage, flag |-> FALSE]
    BY <1>2, NextRecord DEF TypeOK
  <1>5. x \in ForkRec
    BY <1>4 DEF ForkRec, VAs, TypeOK
  <1>6. fk' \in [Envs -> ForkRec] /\ fk'[e] = x /\ \A g \in Envs : g # e => fk'[g] = fk[g]
    BY <1>1, <1>5 DEF TypeOK
  <1>7. /\ pc' \in [Envs -> Points] /\ \A g \in Envs : g # e => pc'[g] = pc[g]
        /\ pc'[e] = IF fk[e].va = NVA THEN "entry" ELSE "dup"
    BY <1>3 DEF TypeOK, Points
  <1>8. fk'[e].child = c /\ fk'[e].va = fk[e].va + 1
    BY <1>4, <1>6
  <1>9. \A vb \in VAs : HandedOver(e, vb)'
    <2> SUFFICES ASSUME NEW vb \in VAs PROVE HandedOver(e, vb)'
      OBVIOUS
    <2>1. Copied(e, vb)' <=> vb <= fk[e].va
      BY <1>7, <1>8 DEF Copied, VAs
    <2>2. (fk[e].child)' = c
      BY <1>8
    <2> QED
      BY <2>1, <2>2 DEF HandedOver, Given
  <1>10. fk'[e].va \in 1..(NVA + 1)
         /\ IF pc'[e] \in {"entry", "start"} THEN fk'[e].va = NVA + 1 ELSE fk'[e].va \in VAs
    BY <1>7, <1>8 DEF VAs
  <1>11. ForkGood(e)'
    BY <1>7, <1>8, <1>9, <1>10 DEF ForkGood
  <1> QED
    BY <1>6, <1>7, <1>8, <1>11

\* duppage decides on the entry it reads; a fault on the stack may come before it maps.
LEMMA DupReadKeeps ==
    ASSUME IInv, NEW e \in Envs, DupRead(e)
    PROVE  IInv'
  <1> USE Sizes
  <1>0. PICK x, c : x = pt[e][fk[e].va] /\ c = fk[e].child
    OBVIOUS
  <1> DEFINE flag == x.d /\ ~x.lib /\ ~x.cow
             cow == x.cow \/ flag
             d == x.d /\ ~flag
             perm == [x EXCEPT !.page = 0, !.cow = cow, !.d = d]
  <1>1. /\ UNCHANGED <<status, pt, data, entry, fault, panic>>
        /\ status[e] = "runnable" /\ fault[e].at = "none" /\ pc[e] = "dup" /\ pt[e][Stack].d
    BY DEF DupRead, In, Runs
  <1>2. /\ TypeOK /\ Idle /\ PtesGood /\ HandlerSet /\ FaultsGood /\ ForksGood
        /\ LibraryAlike /\ CopyAlone /\ WritableAlone /\ FaultsHandled
    BY DEF IInv
  <1>3. ForkGood(e) /\ Forks(e)
    BY <1>1, <1>2 DEF ForksGood, Forks
  <1>4. /\ c \in Envs /\ status[c] = "not_runnable" /\ fk[e].va \in VAs /\ pt[c][UCOW] = NoPage
        /\ \A va \in VAs : HandedOver(e, va)
    BY <1>0, <1>1, <1>3 DEF ForkGood
  <1>5. x \in Pte /\ GoodPte(x)
    BY <1>0, <1>2, <1>4, PageNumbers DEF PtesGood
  <1>6. /\ fk' \in [Envs -> ForkRec] /\ pc' \in [Envs -> Points]
        /\ pc'[e] \in {"dup", "entry", "child"} /\ fk'[e].child = c
        /\ \A g \in Envs : g # e => fk'[g] = fk[g] /\ pc'[g] = pc[g]
        /\ ForkGood(e)'
    <2>1. CASE x.page = 0
      <3>1. Advance(e)
        BY <1>0, <2>1 DEF DupRead
      <3>2. x = NoPage
        BY <1>5, <2>1, PteKinds
      <3>3. ASSUME NEW vb \in VAs
            PROVE  IF vb <= fk[e].va THEN Given(e, c, vb)' ELSE (pt[c][vb] = NoPage)'
        <4>1. /\ (Given(e, c, vb)' <=> Given(e, c, vb))
              /\ ((pt[c][vb] = NoPage)' <=> pt[c][vb] = NoPage)
          BY <1>1 DEF Given, Mapped
        <4>2. CASE vb < fk[e].va
          BY <1>0, <1>4, <4>1, <4>2 DEF HandedOver, Copied, VAs
        <4>3. CASE vb = fk[e].va
          <5>1. pt[c][vb] = NoPage
            BY <1>0, <1>1, <1>4, <4>3 DEF HandedOver, Copied, VAs
          <5>2. Given(e, c, vb)
            BY <1>0, <3>2, <4>3, <5>1 DEF Given, Mapped
          <5> QED
            BY <4>1, <4>3, <5>2 DEF VAs
        <4>4. CASE vb > fk[e].va
          BY <1>0, <1>1, <1>4, <4>1, <4>4 DEF HandedOver, Copied, VAs
        <4> QED
          BY <1>4, <4>2, <4>3, <4>4 DEF VAs
      <3>4. (status[c] = "not_runnable")' /\ (pt[c][UCOW] = NoPage)'
        BY <1>1, <1>4
      <3> QED
        BY <1>0, <1>2, <1>4, <3>1, <3>3, <3>4, AdvanceGood
    <2>2. CASE x.page # 0
      <3> DEFINE y == [fk[e] EXCEPT !.flag = flag, !.perm = perm]
      <3>1. fk' = [fk EXCEPT ![e] = y]
        BY <1>0, <1>2, <2>2 DEF DupRead, TypeOK
      <3>2. pc' = [pc EXCEPT ![e] = "child"]
        BY <1>0, <2>2 DEF DupRead, Goto
      <3>3. /\ perm = [x EXCEPT !.page = 0, !.cow = cow, !.d = d]
            /\ cow \in BOOLEAN /\ d \in BOOLEAN /\ (cow <=> x.cow \/ flag) /\ (d <=> x.d /\ ~flag)
            /\ y = [fk[e] EXCEPT !.flag = flag, !.perm = perm]
            /\ flag \in BOOLEAN /\ (flag <=> x.d /\ ~x.lib /\ ~x.cow)
        OBVIOUS
      <3> HIDE DEF y, perm, flag, cow, d
      <3>4. perm \in Pte /\ perm.lib = x.lib /\ perm.cow = cow /\ perm.d = d
        <4>1. x \in Pte /\ cow \in BOOLEAN /\ d \in BOOLEAN
          BY <1>5, <3>3
        <4>2. perm = [x EXCEPT !.page = 0, !.cow = cow, !.d = d]
          BY <3>3
        <4>3. perm = [page |-> 0, d |-> d, cow |-> cow, lib |-> x.lib]
          BY <4>1, <4>2 DEF Pte
        <4>4. 0 \in 0..NPAGES /\ x.lib \in BOOLEAN
          BY <4>1 DEF Pte
        <4>5. perm \in Pte
          BY <4>1, <4>3, <4>4 DEF Pte
        <4> QED
          BY <4>3, <4>5
      <3>5. y = [child |-> c, va |-> fk[e].va, perm |-> perm, flag |-> flag]
        BY <1>0, <1>2, <3>3, DupRecord DEF TypeOK
      <3>6. y \in ForkRec
        BY <1>0, <1>2, <3>3, <3>4, <3>5 DEF ForkRec, TypeOK
      <3>7. /\ fk' \in [Envs -> ForkRec] /\ fk'[e] = y
            /\ pc' \in [Envs -> Points] /\ pc'[e] = "child"
            /\ \A g \in Envs : g # e => fk'[g] = fk[g] /\ pc'[g] = pc[g]
        BY <1>2, <3>1, <3>2, <3>6 DEF TypeOK, Points
      <3>8. fk'[e].child = c /\ fk'[e].va = fk[e].va /\ fk'[e].perm = perm /\ fk'[e].flag = flag
        BY <3>5, <3>7
      <3>9. flag => x.d /\ ~x.lib /\ perm.cow /\ ~perm.d /\ ~perm.lib
        BY <3>3, <3>4
      <3>10. ~flag => (x.d => x.lib) /\ SamePerm(perm, x)
        <4>1. x.d => ~x.cow
          BY <1>5, PteKinds
        <4> QED
          BY <1>5, <3>3, <3>4, <4>1 DEF SamePerm, Pte
      <3>11. DupGood(e)'
        <4>1. (pt[e][fk[e].va])' = x
          BY <1>0, <1>1, <3>8
        <4> QED
          BY <1>1, <2>2, <3>7, <3>8, <3>9, <3>10, <4>1 DEF DupGood
      <3>12. \A vb \in VAs : HandedOver(e, vb)'
        BY <1>0, <1>1, <1>4, <3>7, <3>8 DEF HandedOver, Copied, Given, Mapped
      <3>13. ForkGood(e)'
        BY <1>0, <1>1, <1>3, <1>4, <3>7, <3>8, <3>11, <3>12 DEF ForkGood
      <3> QED
        BY <3>7, <3>8, <3>13
    <2> QED
      BY <2>1, <2>2
  <1> HIDE DEF flag, perm, cow, d
  <1>7. TypeOK'
    BY <1>1, <1>2, <1>6 DEF TypeOK
  <1>8. Idle' /\ PtesGood' /\ HandlerSet' /\ FaultsHandled'
    BY <1>1, <1>2, <1>6 DEF Idle, PtesGood, HandlerSet, FaultsHandled
  <1>9. FaultsGood'
    BY <1>1, <1>2, <1>6 DEF FaultsGood, FaultGood
  <1>10. ForksGood'
    <2>1. ASSUME NEW g \in Envs, g # e PROVE ForkGood(g)' /\ (Forks(g)' <=> Forks(g))
      <3>1. ForkGood(g)
        BY <1>2 DEF ForksGood
      <3> QED
        BY <1>1, <1>6, <2>1, <3>1, ForkKept
    <2> QED
      BY <1>0, <1>2, <1>3, <1>6, <2>1 DEF ForksGood
  <1>11. LibraryAlike' /\ CopyAlone'
    BY <1>1, <1>2 DEF LibraryAlike, CopyAlone
  <1>12. WritableAlone'
    <2>1. \A g \in Envs : pc[g] = "self" => pc'[g] = "self" /\ fk'[g] = fk[g]
      BY <1>1, <1>6
    <2> QED
      BY <1>1, <1>2, <2>1 DEF WritableAlone
  <1> QED
    BY <1>7, <1>8, <1>9, <1>10, <1>11, <1>12 DEF IInv
\* What both calls of duppage start from: x is the parent's pte, va its place.
LEMMA DupState ==
    ASSUME IInv, NEW e \in Envs, status[e] = "runnable", pc[e] \in {"child", "self"},
           NEW x, NEW c, NEW va, x = pt[e][fk[e].va], c = fk[e].child, va = fk[e].va
    PROVE  /\ c \in Envs /\ c # e /\ status[c] = "not_runnable" /\ va \in VAs
           /\ pc[c] = "user" /\ fault[c].at = "none"
           /\ pt[c][UCOW] = NoPage /\ \A vb \in VAs : HandedOver(e, vb)
           /\ x \in Pte /\ GoodPte(x) /\ x.page # 0 /\ x.page \in Pages
           /\ ForkGood(e) /\ DupGood(e)
           /\ [fk[e].perm EXCEPT !.page = x.page] \in Pte
           /\ [fk[e].perm EXCEPT !.page = x.page].page = x.page
           /\ SamePerm([fk[e].perm EXCEPT !.page = x.page], fk[e].perm)
  <1> USE Sizes
  <1>1. TypeOK /\ Idle /\ PtesGood /\ ForksGood
    BY DEF IInv
  <1>2. ForkGood(e) /\ Forks(e)
    BY <1>1 DEF ForksGood, Forks
  <1>3. /\ c \in Envs /\ status[c] = "not_runnable" /\ va \in VAs /\ pt[c][UCOW] = NoPage
        /\ DupGood(e) /\ \A vb \in VAs : HandedOver(e, vb)
    BY <1>2 DEF ForkGood
  <1>4. c # e /\ pc[c] = "user" /\ fault[c].at = "none"
    BY <1>1, <1>3 DEF Idle
  <1>5. GoodPte(x) /\ x.page # 0
    BY <1>1, <1>3 DEF PtesGood, DupGood
  <1>6. x \in Pte /\ x.page \in Pages
    BY <1>1, <1>3, <1>5, PageNumbers
  <1>7. fk[e].perm \in Pte
    BY <1>1 DEF TypeOK, ForkRec
  <1>8. x.page \in 0..NPAGES
    BY <1>6 DEF Pte
  <1>9. /\ [fk[e].perm EXCEPT !.page = x.page] \in Pte
        /\ [fk[e].perm EXCEPT !.page = x.page].page = x.page
        /\ SamePerm([fk[e].perm EXCEPT !.page = x.page], fk[e].perm)
    BY <1>7, <1>8 DEF Pte, SamePerm
  <1> QED
    BY <1>2, <1>3, <1>4, <1>5, <1>6, <1>9

\* duppage maps the page in the child, before the parent gives up its right to store.
LEMMA DupChildKeeps ==
    ASSUME IInv, NEW e \in Envs, DupChild(e)
    PROVE  IInv'
  <1> USE Sizes
  <1>0. PICK x, c, va, new : /\ x = pt[e][fk[e].va] /\ c = fk[e].child /\ va = fk[e].va
                             /\ new = [fk[e].perm EXCEPT !.page = pt[e][fk[e].va].page]
    OBVIOUS
  <1>1. /\ UNCHANGED <<status, data, entry, fault, panic>>
        /\ status[e] = "runnable" /\ fault[e].at = "none" /\ pc[e] = "child"
        /\ pt' = [pt EXCEPT ![c][va] = new]
    BY <1>0 DEF DupChild, In, Runs, MapTo
  <1>2. /\ TypeOK /\ Idle /\ PtesGood /\ HandlerSet /\ FaultsGood /\ ForksGood
        /\ LibraryAlike /\ CopyAlone /\ WritableAlone /\ FaultsHandled
    BY DEF IInv
  <1>3. /\ c \in Envs /\ c # e /\ status[c] = "not_runnable" /\ va \in VAs
        /\ pc[c] = "user" /\ fault[c].at = "none"
        /\ pt[c][UCOW] = NoPage /\ \A vb \in VAs : HandedOver(e, vb)
        /\ x \in Pte /\ GoodPte(x) /\ x.page # 0 /\ x.page \in Pages
        /\ ForkGood(e) /\ DupGood(e)
        /\ new \in Pte /\ new.page = x.page /\ SamePerm(new, fk[e].perm)
    BY <1>0, <1>1, DupState
  <1>4. /\ fk[e].flag => x.d /\ ~x.lib /\ new.cow /\ ~new.d /\ ~new.lib
        /\ ~fk[e].flag => (x.d => x.lib) /\ SamePerm(new, x)
    BY <1>0, <1>3 DEF DupGood, SamePerm
  <1>5. ~fk[e].flag => new = x
    BY <1>3, <1>4, SamePte
  <1>6. (new.lib <=> x.lib) /\ (new.d => new.lib) /\ GoodPte(new)
    BY <1>3, <1>4, <1>5 DEF GoodPte
  <1>7. /\ pt' \in [Envs -> [Slots -> Pte]] /\ pt'[c][va] = new
        /\ \A g \in Envs, vb \in Slots : g # c \/ vb # va => pt'[g][vb] = pt[g][vb]
        /\ \A g \in Envs : g # c => pt'[g] = pt[g]
    BY <1>1, <1>2, <1>3 DEF TypeOK
  <1>8. \A vb \in VAs : IF vb <= va THEN Given(e, c, vb)' ELSE (pt[c][vb] = NoPage)'
    <2> SUFFICES ASSUME NEW vb \in VAs
                 PROVE  IF vb <= va THEN Given(e, c, vb)' ELSE (pt[c][vb] = NoPage)'
      OBVIOUS
    <2>1. HandedOver(e, vb) /\ pt'[e] = pt[e] /\ va \in Nat /\ vb \in Nat
      BY <1>3, <1>7
    <2>2. CASE vb = va
      <3>1. pt'[c][vb] = new /\ pt'[e][vb] = x
        BY <1>0, <1>7, <2>1, <2>2
      <3>2. x.lib => new = x
        BY <1>4, <1>5
      <3> QED
        BY <1>3, <2>1, <2>2, <3>1, <3>2 DEF Given, Mapped
    <2>3. CASE vb # va
      <3>1. pt'[c][vb] = pt[c][vb]
        BY <1>3, <1>7, <2>3
      <3>2. Copied(e, vb) <=> vb < va
        BY <1>0, <1>1 DEF Copied
      <3> QED
        BY <1>0, <2>1, <2>3, <3>1, <3>2 DEF HandedOver, Given, Mapped
    <2> QED
      BY <2>2, <2>3
  <1>9. (status[c] = "not_runnable")' /\ (pt[c][UCOW] = NoPage)'
    BY <1>1, <1>3, <1>7
  <1>10. /\ fk' \in [Envs -> ForkRec] /\ pc' \in [Envs -> Points]
         /\ pc'[e] \in {"dup", "entry", "self"} /\ fk'[e].child = c
         /\ (fk[e].flag => pc'[e] = "self" /\ fk' = fk)
         /\ \A g \in Envs : g # e => fk'[g] = fk[g] /\ pc'[g] = pc[g]
         /\ ForkGood(e)'
    <2>1. CASE fk[e].flag
      <3>1. pc' = [pc EXCEPT ![e] = "self"] /\ fk' = fk
        BY <2>1 DEF DupChild, Goto
      <3>2. pc' \in [Envs -> Points] /\ pc'[e] = "self" /\ \A g \in Envs : g # e => pc'[g] = pc[g]
        BY <1>2, <3>1 DEF TypeOK, Points
      <3>3. \A vb \in VAs : HandedOver(e, vb)'
        <4> SUFFICES ASSUME NEW vb \in VAs PROVE HandedOver(e, vb)'
          OBVIOUS
        <4>1. Copied(e, vb)' <=> vb <= va
          BY <1>0, <1>3, <3>1, <3>2 DEF Copied, VAs
        <4>2. (fk[e].child)' = c
          BY <1>0, <3>1
        <4> QED
          BY <1>8, <4>1, <4>2 DEF HandedOver, Given
      <3>4. pt'[e] = pt[e]
        BY <1>3, <1>7
      <3>5. DupGood(e)'
        BY <1>3, <2>1, <3>1, <3>4 DEF DupGood
      <3>6. ForkGood(e)'
        BY <1>0, <1>1, <1>3, <1>9, <3>1, <3>2, <3>3, <3>5 DEF ForkGood, Forks
      <3> QED
        BY <1>0, <1>2, <3>1, <3>2, <3>6 DEF TypeOK
    <2>2. CASE ~fk[e].flag
      <3>1. Advance(e)
        BY <2>2 DEF DupChild
      <3> QED
        BY <1>0, <1>2, <1>3, <1>8, <1>9, <2>2, <3>1, AdvanceGood
    <2> QED
      BY <2>1, <2>2
  <1>11. TypeOK' /\ Idle' /\ FaultsHandled'
    BY <1>1, <1>2, <1>7, <1>10 DEF TypeOK, Idle, FaultsHandled
  <1>12. PtesGood'
    BY <1>2, <1>6, <1>7 DEF PtesGood
  <1>13. HandlerSet'
    BY <1>1, <1>2, <1>3, <1>7, <1>10 DEF HandlerSet
  <1>14. FaultsGood'
    <2> SUFFICES ASSUME NEW g \in Envs PROVE FaultGood(g)'
      BY DEF FaultsGood
    <2>1. CASE g = c
      BY <1>1, <1>3, <1>9, <2>1 DEF FaultGood
    <2>2. CASE g # c
      BY <1>1, <1>2, <1>7, <1>10, <2>2 DEF FaultsGood, FaultGood
    <2> QED
      BY <2>1, <2>2
  <1>15. ForksGood'
    <2>1. \A g \in Envs : Forks(g) => g # c /\ fk[g].child \in Envs /\ (g # e => fk[g].child # c)
      BY <1>0, <1>1, <1>2, <1>3 DEF ForksGood, ForkGood, Forks
    <2>2. ASSUME NEW g \in Envs, g # e PROVE ForkGood(g)' /\ (Forks(g)' <=> Forks(g)) /\ fk'[g] = fk[g]
      <3>1. Forks(g) => pt'[g] = pt[g] /\ pt'[fk[g].child] = pt[fk[g].child]
        BY <1>7, <2>1, <2>2
      <3>2. ForkGood(g) /\ pc'[g] = pc[g] /\ fk'[g] = fk[g]
        BY <1>2, <1>10, <2>2 DEF ForksGood
      <3> QED
        BY <1>1, <3>1, <3>2, ForkKept
    <2> QED
      BY <1>2, <1>10, <2>1, <2>2 DEF ForksGood
  <1>16. LibraryAlike'
    <2> SUFFICES ASSUME NEW g \in Envs, NEW h \in Envs, NEW va1 \in Slots, NEW vb \in Slots,
                        pt'[g][va1].page # 0, pt'[g][va1].page = pt'[h][vb].page, pt'[g][va1].lib
                 PROVE  pt'[h][vb].lib
      BY DEF LibraryAlike
    <2>1. va \in Slots /\ pt[e][va] = x
      BY <1>0, <1>3
    <2>2. CASE h = c /\ vb = va /\ g = c /\ va1 = va
      BY <2>2
    <2>3. CASE h = c /\ vb = va /\ ~(g = c /\ va1 = va)
      <3>1. pt'[g][va1] = pt[g][va1] /\ pt'[h][vb] = new
        BY <1>7, <2>3
      <3>2. pt[e][va].lib
        BY <1>2, <1>3, <2>1, <3>1 DEF LibraryAlike
      <3> QED
        BY <1>6, <2>1, <3>1, <3>2
    <2>4. CASE ~(h = c /\ vb = va) /\ g = c /\ va1 = va
      <3>1. pt'[h][vb] = pt[h][vb] /\ pt'[g][va1] = new
        BY <1>7, <2>4
      <3>2. x.lib
        BY <1>6, <3>1
      <3> QED
        BY <1>2, <1>3, <2>1, <3>1, <3>2 DEF LibraryAlike
    <2>5. CASE ~(h = c /\ vb = va) /\ ~(g = c /\ va1 = va)
      <3>1. pt'[h][vb] = pt[h][vb] /\ pt'[g][va1] = pt[g][va1]
        BY <1>7, <2>5
      <3>2. pt[g][va1].page # 0 /\ pt[g][va1].page = pt[h][vb].page /\ pt[g][va1].lib
        BY <3>1
      <3>3. pt[h][vb].lib
        BY <1>2, <3>2 DEF LibraryAlike
      <3> QED
        BY <3>1, <3>3
    <2> QED
      BY <2>2, <2>3, <2>4, <2>5
  <1>17. CopyAlone'
    <2> SUFFICES ASSUME NEW f \in Envs, NEW h \in Envs, NEW vb \in Slots,
                        fault[f].at \in {"copy", "map"}, pt'[h][vb].page = pt'[f][UCOW].page
                 PROVE  h = f /\ vb = UCOW
      BY <1>1 DEF CopyAlone
    <2>1. pt'[f][UCOW] = pt[f][UCOW]
      BY <1>3, <1>7
    <2>2. CASE h = c /\ vb = va
      <3>1. pt[e][va].page = pt[f][UCOW].page
        BY <1>0, <1>3, <1>7, <2>1, <2>2
      <3>2. va = UCOW
        BY <1>2, <1>3, <3>1 DEF CopyAlone
      <3> QED
        BY <1>3, <3>2
    <2>3. CASE ~(h = c /\ vb = va)
      <3>1. pt'[h][vb] = pt[h][vb]
        BY <1>7, <2>3
      <3> QED
        BY <1>2, <2>1, <3>1 DEF CopyAlone
    <2> QED
      BY <2>2, <2>3
  <1>18. WritableAlone'
    <2> SUFFICES ASSUME NEW g \in Envs, NEW h \in Envs, NEW a \in VAs, NEW vb \in Slots,
                        pt'[g][a].d, ~pt'[g][a].lib, pt'[h][vb].page = pt'[g][a].page
                 PROVE  \/ h = g /\ vb = a
                        \/ h = g /\ vb = UCOW /\ fault[g].at = "unmap" /\ fault[g].va = a
                        \/ pc'[g] = "self" /\ h = fk'[g].child /\ vb = a /\ fk'[g].va = a
      BY <1>1 DEF WritableAlone
    <2>1. pt'[g][a] = pt[g][a]
      BY <1>6, <1>7
    <2>2. CASE h = c /\ vb = va
      <3>1. pt[e][va].page = pt[g][a].page
        BY <1>0, <1>3, <1>7, <2>1, <2>2
      <3>2. g = e /\ a = va
        <4>1. ~(pc[g] = "self" /\ e = fk[g].child)
          BY <1>1, <1>2 DEF ForksGood, ForkGood, Forks
        <4> QED
          BY <1>2, <1>3, <2>1, <3>1, <4>1 DEF WritableAlone
      <3>3. fk[e].flag
        BY <1>0, <1>4, <2>1, <3>2
      <3> QED
        BY <1>0, <1>10, <2>2, <3>2, <3>3
    <2>3. CASE ~(h = c /\ vb = va)
      <3>1. pt'[h][vb] = pt[h][vb]
        BY <1>7, <2>3
      <3>2. pc[g] = "self" => g # e
        BY <1>1
      <3> QED
        BY <1>2, <1>10, <2>1, <3>1, <3>2 DEF WritableAlone
    <2> QED
      BY <2>2, <2>3
  <1> QED
    BY <1>11, <1>12, <1>13, <1>14, <1>15, <1>16, <1>17, <1>18 DEF IInv
\* duppage makes the parent's page copy-on-write too.
LEMMA DupSelfKeeps ==
    ASSUME IInv, NEW e \in Envs, DupSelf(e)
    PROVE  IInv'
  <1> USE Sizes
  <1>0. PICK x, c, va, new : /\ x = pt[e][fk[e].va] /\ c = fk[e].child /\ va = fk[e].va
                             /\ new = [fk[e].perm EXCEPT !.page = pt[e][fk[e].va].page]
    OBVIOUS
  <1>1. /\ UNCHANGED <<status, data, entry, fault, panic>> /\ Advance(e)
        /\ status[e] = "runnable" /\ fault[e].at = "none" /\ pc[e] = "self"
        /\ pt' = [pt EXCEPT ![e][va] = new]
    BY <1>0 DEF DupSelf, In, Runs, MapTo
  <1>2. /\ TypeOK /\ Idle /\ PtesGood /\ HandlerSet /\ FaultsGood /\ ForksGood
        /\ LibraryAlike /\ CopyAlone /\ WritableAlone /\ FaultsHandled
    BY DEF IInv
  <1>3. /\ c \in Envs /\ c # e /\ status[c] = "not_runnable" /\ va \in VAs
        /\ pc[c] = "user" /\ fault[c].at = "none"
        /\ pt[c][UCOW] = NoPage /\ \A vb \in VAs : HandedOver(e, vb)
        /\ x \in Pte /\ GoodPte(x) /\ x.page # 0 /\ x.page \in Pages
        /\ ForkGood(e) /\ DupGood(e)
        /\ new \in Pte /\ new.page = x.page /\ SamePerm(new, fk[e].perm)
    BY <1>0, <1>1, DupState
  <1>4. ~x.lib /\ new.cow /\ ~new.d /\ ~new.lib
    BY <1>0, <1>1, <1>3 DEF DupGood, SamePerm
  <1>5. GoodPte(new)
    BY <1>3, <1>4 DEF GoodPte
  <1>6. /\ pt' \in [Envs -> [Slots -> Pte]] /\ pt'[e][va] = new
        /\ \A g \in Envs, vb \in Slots : g # e \/ vb # va => pt'[g][vb] = pt[g][vb]
        /\ \A g \in Envs : g # e => pt'[g] = pt[g]
    BY <1>1, <1>2, <1>3 DEF TypeOK
  <1>7. /\ pt[e][va].page = pt'[e][va].page /\ ~pt[e][va].lib /\ ~pt'[e][va].lib
        /\ \A g \in Envs, vb \in Slots : pt'[g][vb].page = pt[g][vb].page
    BY <1>0, <1>3, <1>4, <1>6
  <1>8. \A vb \in VAs : IF vb <= va THEN Given(e, c, vb)' ELSE (pt[c][vb] = NoPage)'
    <2> SUFFICES ASSUME NEW vb \in VAs
                 PROVE  IF vb <= va THEN Given(e, c, vb)' ELSE (pt[c][vb] = NoPage)'
      OBVIOUS
    <2>1. HandedOver(e, vb) /\ pt'[c] = pt[c] /\ va \in Nat /\ vb \in Nat
      BY <1>3, <1>6
    <2>2. Copied(e, vb) <=> vb <= va
      BY <1>0, <1>1, <2>1 DEF Copied
    <2>3. pt'[e][vb].page = pt[e][vb].page
      BY <1>7
    <2>4. vb # va => pt'[e][vb] = pt[e][vb]
      BY <1>6
    <2> QED
      BY <1>0, <1>7, <2>1, <2>2, <2>3, <2>4 DEF HandedOver, Given, Mapped
  <1>9. (status[c] = "not_runnable")' /\ (pt[c][UCOW] = NoPage)'
    BY <1>1, <1>3, <1>6
  <1>10. /\ fk' \in [Envs -> ForkRec] /\ pc' \in [Envs -> Points]
         /\ pc'[e] \in {"dup", "entry"} /\ fk'[e].child = c
         /\ \A g \in Envs : g # e => fk'[g] = fk[g] /\ pc'[g] = pc[g]
         /\ ForkGood(e)'
    <2>1. TypeOK /\ Advance(e) /\ c = fk[e].child /\ fk[e].va \in VAs /\ c \in Envs
      BY <1>0, <1>1, <1>2, <1>3
    <2>2. \A vb \in VAs : IF vb <= fk[e].va THEN Given(e, c, vb)' ELSE (pt[c][vb] = NoPage)'
      BY <1>0, <1>8
    <2> QED
      BY <1>9, <2>1, <2>2, AdvanceGood
  <1>11. TypeOK' /\ Idle' /\ FaultsHandled'
    BY <1>1, <1>2, <1>6, <1>10 DEF TypeOK, Idle, FaultsHandled
  <1>12. PtesGood'
    BY <1>2, <1>5, <1>6 DEF PtesGood
  <1>13. HandlerSet'
    BY <1>1, <1>2, <1>3, <1>6, <1>10 DEF HandlerSet
  <1>14. FaultsGood'
    <2> SUFFICES ASSUME NEW g \in Envs PROVE FaultGood(g)'
      BY DEF FaultsGood
    <2>1. CASE g = e
      <3>1. FaultGood(e) /\ pt'[e][UCOW] = pt[e][UCOW]
        BY <1>2, <1>3, <1>6 DEF FaultsGood
      <3> QED
        BY <1>1, <2>1, <3>1 DEF FaultGood
    <2>2. CASE g # e
      BY <1>1, <1>2, <1>6, <1>10, <2>2 DEF FaultsGood, FaultGood
    <2> QED
      BY <2>1, <2>2
  <1>15. ForksGood'
    <2>1. \A g \in Envs : Forks(g) =>
            g # c /\ fk[g].child \in Envs /\ fk[g].child # e /\ (g # e => fk[g].child # c)
      BY <1>0, <1>1, <1>2, <1>3 DEF ForksGood, ForkGood, Forks
    <2>2. ASSUME NEW g \in Envs, g # e PROVE ForkGood(g)' /\ (Forks(g)' <=> Forks(g)) /\ fk'[g] = fk[g]
      <3>1. Forks(g) => pt'[g] = pt[g] /\ pt'[fk[g].child] = pt[fk[g].child]
        BY <1>6, <2>1, <2>2
      <3>2. ForkGood(g) /\ pc'[g] = pc[g] /\ fk'[g] = fk[g]
        BY <1>2, <1>10, <2>2 DEF ForksGood
      <3> QED
        BY <1>1, <3>1, <3>2, ForkKept
    <2> QED
      BY <1>2, <1>10, <2>1, <2>2 DEF ForksGood
  <1>16. LibraryAlike'
    <2> SUFFICES ASSUME NEW g \in Envs, NEW h \in Envs, NEW va1 \in Slots, NEW vb \in Slots,
                        pt'[g][va1].page # 0, pt'[g][va1].page = pt'[h][vb].page, pt'[g][va1].lib
                 PROVE  pt'[h][vb].lib
      BY DEF LibraryAlike
    <2>1. pt'[g][va1] = pt[g][va1]
      BY <1>6, <1>7
    <2>2. pt[g][va1].page # 0 /\ pt[g][va1].page = pt[h][vb].page /\ pt[g][va1].lib
      BY <1>7, <2>1
    <2>3. pt[h][vb].lib
      BY <1>2, <2>2 DEF LibraryAlike
    <2>4. pt'[h][vb] = pt[h][vb]
      BY <1>6, <1>7, <2>3
    <2> QED
      BY <2>3, <2>4
  <1>17. CopyAlone'
    BY <1>1, <1>2, <1>7 DEF CopyAlone
  <1>18. WritableAlone'
    <2> SUFFICES ASSUME NEW g \in Envs, NEW h \in Envs, NEW a \in VAs, NEW vb \in Slots,
                        pt'[g][a].d, ~pt'[g][a].lib, pt'[h][vb].page = pt'[g][a].page
                 PROVE  \/ h = g /\ vb = a
                        \/ h = g /\ vb = UCOW /\ fault[g].at = "unmap" /\ fault[g].va = a
                        \/ pc'[g] = "self" /\ h = fk'[g].child /\ vb = a /\ fk'[g].va = a
      BY <1>1 DEF WritableAlone
    <2>1. ~(g = e /\ a = va) /\ pt'[g][a] = pt[g][a]
      BY <1>4, <1>6
    <2>2. pt[h][vb].page = pt[g][a].page
      BY <1>7
    <2>3. ~(pc[g] = "self" /\ fk[g].va = a) \/ g # e
      BY <1>0, <2>1
    <2>4. pt[g][a].d /\ ~pt[g][a].lib
      BY <2>1
    <2>5. \/ h = g /\ vb = a
          \/ h = g /\ vb = UCOW /\ fault[g].at = "unmap" /\ fault[g].va = a
          \/ pc[g] = "self" /\ h = fk[g].child /\ vb = a /\ fk[g].va = a
      BY <1>2, <2>2, <2>4 DEF WritableAlone
    <2> QED
      BY <1>10, <2>3, <2>5
  <1> QED
    BY <1>11, <1>12, <1>13, <1>14, <1>15, <1>16, <1>17, <1>18 DEF IInv
-----------------------------------------------------------------------------
(***************************************************************************)
(* The theorems.                                                           *)
(***************************************************************************)

\* The invariant is inductive: no step of any env, in fork, in cow_entry or
\* outside, breaks it.
THEOREM NextIInv == IInv /\ [Next]_vars => IInv'
  <1> SUFFICES ASSUME IInv, [Next]_vars PROVE IInv'
    OBVIOUS
  <1>1. CASE UNCHANGED vars
    <2>1. UNCHANGED <<status, pt, data, entry, pc, fk, fault, panic>>
      BY <1>1 DEF vars
    <2>2. ForksGood'
      BY <2>1, ForksKept DEF IInv
    <2>3. TypeOK' /\ Idle' /\ PtesGood' /\ HandlerSet' /\ FaultsGood'
      BY <2>1 DEF IInv, TypeOK, Idle, PtesGood, HandlerSet, FaultsGood, FaultGood
    <2>4. LibraryAlike' /\ CopyAlone' /\ WritableAlone' /\ FaultsHandled'
      BY <2>1 DEF IInv, LibraryAlike, CopyAlone, WritableAlone, FaultsHandled
    <2> QED
      BY <2>2, <2>3, <2>4 DEF IInv
  <1>2. ASSUME NEW e \in Envs, NEW va \in VAs, do_tlb_mod(e, va) PROVE IInv'
    BY <1>2, TlbModKeeps
  <1>3. ASSUME NEW e \in Envs, NEW va \in VAs, NEW v \in Values, Write(e, va, v) PROVE IInv'
    BY <1>3, WriteKeeps
  <1>4. ASSUME NEW e \in Envs, Handler(e) PROVE IInv'
    BY <1>4, CowPermKeeps, CowAllocKeeps, CowCopyKeeps, CowMapKeeps, CowUnmapKeeps DEF Handler
  <1>5. ASSUME NEW e \in Envs, Forking(e) PROVE IInv'
    BY <1>5, ExoforkKeeps, DupReadKeeps, DupChildKeeps, DupSelfKeeps, ForkSetEntryKeeps, ForkStartKeeps
       DEF Forking
  <1>6. ASSUME NEW e \in Envs, ForkEntry(e) \/ Exit(e) PROVE IInv'
    BY <1>6, ForkEntryKeeps, ExitKeeps
  <1> QED
    BY <1>1, <1>2, <1>3, <1>4, <1>5, <1>6 DEF Next

\* Every reachable state is one: page tables, handlers and forks fit together.
THEOREM SpecIInv == Spec => []IInv
  <1> QED
    BY InitIInv, NextIInv, PTL DEF Spec

\* cow_entry finds a copy-on-write page at every fault, and do_tlb_mod finds it
\* set: the kernel never stops at a store that fork took the right for.
THEOREM FaultsAreHandled == Spec => []FaultsHandled
  <1>1. IInv => FaultsHandled
    BY DEF IInv
  <1> QED
    BY <1>1, SpecIInv, PTL

Apart ==
    \A e \in Envs, va \in VAs :
        status[e] = "runnable" /\ Private(e, va) /\ Private(e, va)' /\ Sees(e, va)' # Sees(e, va)
          => \E v \in Values : Write(e, va, v)

\* No step but its own store changes what an env sees in a private page.
LEMMA StepApart ==
    ASSUME IInv, [Next]_vars
    PROVE  Apart
  <1> USE Sizes
  <1> SUFFICES ASSUME NEW e \in Envs, NEW va \in VAs, status[e] = "runnable",
                      Private(e, va), Private(e, va)', Sees(e, va)' # Sees(e, va)
               PROVE  \E v \in Values : Write(e, va, v)
    BY DEF Apart
  <1>1. /\ TypeOK /\ Idle /\ PtesGood /\ HandlerSet /\ FaultsGood /\ ForksGood
        /\ LibraryAlike /\ CopyAlone /\ WritableAlone
    BY DEF IInv
  <1>2. /\ pt[e][va].page # 0 /\ ~pt[e][va].lib /\ pt'[e][va].page # 0 /\ va \in Slots /\ va # UCOW
        /\ pt[e][va].page \in Pages
    BY <1>1, PageNumbers DEF Private, Mapped
  <1>3. ~(pt'[e][va].page = pt[e][va].page /\ data'[pt[e][va].page] = data[pt[e][va].page])
    BY DEF Sees
  <1>4. CASE UNCHANGED vars
    BY <1>3, <1>4 DEF vars
  <1>5. ASSUME NEW f \in Envs, NEW vb \in VAs, do_tlb_mod(f, vb) PROVE FALSE
    BY <1>3, <1>5 DEF do_tlb_mod
  <1>6. ASSUME NEW f \in Envs, NEW vb \in VAs, NEW v \in Values, Write(f, vb, v)
        PROVE  \E w \in Values : Write(e, va, w)
    <2>1. /\ pt' = pt /\ pt[f][vb].d /\ status[f] = "runnable"
          /\ data' = [data EXCEPT ![pt[f][vb].page] = v]
      BY <1>6 DEF Write, Runs
    <2>2. pt[e][va].page = pt[f][vb].page
      BY <1>1, <1>2, <1>3, <2>1 DEF TypeOK
    <2>3. ~pt[f][vb].lib
      BY <1>1, <1>2, <2>2 DEF LibraryAlike
    <2>4. ~(pc[f] = "self" /\ e = fk[f].child)
      BY <1>1 DEF ForksGood, ForkGood, Forks
    <2>5. pt[f][vb].d /\ va \in Slots
      BY <1>2, <2>1
    <2>6. e = f /\ va = vb
      <3>1. \/ e = f /\ va = vb
            \/ e = f /\ va = UCOW /\ fault[f].at = "unmap" /\ fault[f].va = vb
            \/ pc[f] = "self" /\ e = fk[f].child /\ va = vb /\ fk[f].va = vb
        <4>1. WritableAlone
          BY <1>1
        <4> QED
          BY <2>2, <2>3, <2>5, <4>1 DEF WritableAlone
      <3> QED
        BY <1>2, <2>4, <3>1
    <2> QED
      BY <1>6, <2>6
  <1>7. ASSUME NEW f \in Envs, Handler(f) PROVE FALSE
    <2>1. CASE CowPerm(f)
      BY <1>3, <2>1 DEF CowPerm
    <2>2. CASE CowAlloc(f)
      <3>1. data' = data
        BY <2>2 DEF CowAlloc
      <3>2. CASE Free = {}
        BY <1>3, <2>2, <3>1, <3>2 DEF CowAlloc
      <3>3. CASE Free # {}
        BY <1>1, <1>2, <1>3, <2>2, <3>1, <3>3 DEF CowAlloc, TypeOK
      <3> QED
        BY <3>2, <3>3
    <2>3. CASE CowCopy(f)
      <3>1. pt[e][va].page # pt[f][UCOW].page
        BY <1>1, <1>2, <2>3 DEF CopyAlone, CowCopy, InHandler
      <3>2. /\ pt' = pt
            /\ data' = [data EXCEPT ![pt[f][UCOW].page] = data[pt[f][fault[f].va].page]]
        BY <2>3 DEF CowCopy
      <3>3. data'[pt[e][va].page] = data[pt[e][va].page]
        BY <1>1, <1>2, <3>1, <3>2 DEF TypeOK
      <3> QED
        BY <1>3, <3>2, <3>3
    <2>4. CASE CowMap(f)
      <3> DEFINE fva == fault[f].va
                 new == [fault[f].perm EXCEPT !.page = pt[f][UCOW].page]
                 t == [pt EXCEPT ![f][fva] = new]
      <3>1. Remap(t) /\ fault[f].at = "map" /\ pt' = t
        BY <2>4 DEF CowMap, InHandler, Remap
      <3>2. FaultGood(f) /\ fault[f].perm \in Pte
        BY <1>1 DEF FaultsGood, TypeOK, FaultRec
      <3>3. /\ fva \in Slots /\ pt[f][UCOW].page # 0
            /\ data[pt[f][UCOW].page] = data[pt[f][fva].page]
        BY <3>1, <3>2 DEF FaultGood
      <3>4. new.page = pt[f][UCOW].page
        BY <3>2 DEF Pte
      <3> HIDE DEF new
      <3>5. /\ pt'[f][fva] = new
            /\ \A g \in Envs, vb \in Slots : g # f \/ vb # fva => pt'[g][vb] = pt[g][vb]
        BY <1>1, <3>1, <3>3 DEF TypeOK
      <3> HIDE DEF t
      <3>6. pt'[e][va].page \in Pages => data'[pt'[e][va].page] = data[pt'[e][va].page]
        BY <1>1, <1>2, <3>1, RemapKeeps DEF TypeOK
      <3>7. CASE e = f /\ va = fva
        <4>1. pt'[e][va].page \in Pages
          BY <1>1, <3>3, <3>4, <3>5, <3>7, PageNumbers
        <4>2. Sees(e, va)' = Sees(e, va)
          BY <3>3, <3>4, <3>5, <3>6, <3>7, <4>1 DEF Sees
        <4> QED
          BY <4>2
      <3>8. CASE ~(e = f /\ va = fva)
        <4>1. pt'[e][va] = pt[e][va]
          BY <1>2, <3>5, <3>8
        <4> QED
          BY <1>2, <1>3, <3>6, <4>1
      <3> QED
        BY <3>7, <3>8
    <2>5. CASE CowUnmap(f)
      BY <1>1, <1>2, <1>3, <2>5 DEF CowUnmap, TypeOK
    <2> QED
      BY <1>7, <2>1, <2>2, <2>3, <2>4, <2>5 DEF Handler
  <1>8. ASSUME NEW f \in Envs, Forking(f) PROVE FALSE
    <2>1. CASE DupRead(f) \/ ForkSetEntry(f) \/ ForkStart(f)
      BY <1>3, <2>1 DEF DupRead, ForkSetEntry, ForkStart
    <2>2. CASE Exofork(f)
      <3> DEFINE slots == { g \in Envs : status[g] = "free" }
                 c == Min(slots)
                 none == [vb \in {UCOW} \cup VAs |-> NoPage]
      <3>1. data' = data
        BY <2>2 DEF Exofork
      <3>2. CASE slots = {}
        BY <1>3, <2>2, <3>1, <3>2 DEF Exofork
      <3>3. CASE slots # {}
        <4>1. c \in slots
          BY <3>3, MinIsMember
        <4>2. pt' = [pt EXCEPT ![c] = none]
          BY <2>2, <3>3 DEF Exofork
        <4>3. c # e
          BY <4>1
        <4> HIDE DEF c, none
        <4> QED
          BY <1>1, <1>3, <3>1, <4>2, <4>3 DEF TypeOK
      <3> QED
        BY <3>2, <3>3
    <2>3. CASE DupChild(f)
      <3>1. PICK c, vb, new : c = fk[f].child /\ pt' = [pt EXCEPT ![c][vb] = new] /\ data' = data
        BY <2>3 DEF DupChild, MapTo
      <3>2. c # e
        BY <1>1, <2>3, <3>1 DEF DupChild, In, ForksGood, ForkGood, Forks
      <3> QED
        BY <1>1, <1>3, <3>1, <3>2 DEF TypeOK
    <2>4. CASE DupSelf(f)
      <3> DEFINE new == [fk[f].perm EXCEPT !.page = pt[f][fk[f].va].page]
      <3>1. pt' = [pt EXCEPT ![f][fk[f].va] = new] /\ data' = data
        BY <2>4 DEF DupSelf, MapTo
      <3>2. new.page = pt[f][fk[f].va].page
        BY <1>1 DEF TypeOK, ForkRec, Pte
      <3> HIDE DEF new
      <3>3. CASE e = f /\ va = fk[f].va
        BY <1>1, <1>2, <1>3, <3>1, <3>2, <3>3 DEF TypeOK
      <3>4. CASE ~(e = f /\ va = fk[f].va)
        BY <1>1, <1>2, <1>3, <3>1, <3>4 DEF TypeOK
      <3> QED
        BY <3>3, <3>4
    <2> QED
      BY <1>8, <2>1, <2>2, <2>3, <2>4 DEF Forking
  <1>9. ASSUME NEW f \in Envs, ForkEntry(f) PROVE FALSE
    BY <1>3, <1>9 DEF ForkEntry
  <1>10. ASSUME NEW f \in Envs, Exit(f) PROVE FALSE
    <2> DEFINE none == [vb \in {UCOW} \cup VAs |-> NoPage]
               t == [pt EXCEPT ![f] = none]
    <2>1. Remap(t) /\ pt' = t
      BY <1>10 DEF Exit, Remap
    <2>2. none[va] = NoPage
      BY <1>2 DEF Slots
    <2> HIDE DEF none
    <2>3. e = f => pt'[e][va].page = 0
      BY <1>1, <2>1, <2>2 DEF TypeOK, NoPage
    <2>4. e # f
      BY <1>2, <2>3
    <2>5. pt'[e][va] = pt[e][va]
      BY <1>1, <2>1, <2>4 DEF TypeOK
    <2> HIDE DEF t
    <2>6. pt'[e][va].page \in Pages => data'[pt'[e][va].page] = data[pt'[e][va].page]
      BY <1>1, <1>2, <2>1, RemapKeeps DEF TypeOK
    <2> QED
      BY <1>2, <1>3, <2>5, <2>6
  <1> QED
    BY <1>4, <1>5, <1>6, <1>7, <1>8, <1>9, <1>10 DEF Next

\* fork.c:58-59: what a started env reads in a page of its own changes only by
\* its own store, whoever shares, copies, remaps or frees pages meanwhile.
THEOREM IsolatedHolds == Spec => Isolated
  <1>1. IInv /\ [Next]_vars => [Apart]_vars
    BY StepApart
  <1>2. [][Apart]_vars => Isolated
    BY DEF Apart, Isolated
  <1> QED
    BY <1>1, <1>2, SpecIInv, PTL DEF Spec

Copies == \A e \in Envs : ForkStart(e) =>
            \A va \in VAs : LET c == fk[e].child
                            IN  /\ Mapped(c, va) = Mapped(e, va)
                                /\ Mapped(e, va) /\ va # Stack => Sees(c, va) = Sees(e, va)
                                /\ pt[e][va].lib => pt[c][va] = pt[e][va]

\* The child that syscall_set_env_status starts has the pages of its parent:
\* duppage has been over every page, with no page lost or taken twice.
THEOREM ChildCopiesHolds == Spec => ChildCopies
  <1>1. IInv => Copies
    <2> SUFFICES ASSUME IInv, NEW e \in Envs, ForkStart(e), NEW va \in VAs
                 PROVE  Given(e, fk[e].child, va)
      BY DEF Copies, Given, Sees, Mapped
    <2>1. pc[e] = "start"
      BY DEF ForkStart, In
    <2>2. fk[e].va = NVA + 1 /\ HandedOver(e, va)
      BY <2>1 DEF IInv, ForksGood, ForkGood, Forks
    <2>3. Copied(e, va)
      BY <2>2, Sizes DEF Copied, VAs
    <2> QED
      BY <2>2, <2>3 DEF HandedOver
  <1>2. IInv /\ [Next]_vars => [Copies]_vars
    BY <1>1
  <1>3. [][Copies]_vars => ChildCopies
    BY DEF Copies, ChildCopies
  <1> QED
    BY <1>2, <1>3, SpecIInv, PTL DEF Spec
=============================================================================
