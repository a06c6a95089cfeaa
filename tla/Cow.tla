--------------------------------- MODULE Cow ---------------------------------
(***************************************************************************)
(* fork with copy-on-write (user/lib/fork.c), on the page tables that the  *)
(* memory system calls keep.  An env may be preempted between any two      *)
(* system calls of fork, duppage and cow_entry, so each is a step.         *)
(*                                                                         *)
(* While it forks, an env stores only to its stack; the stack is one page, *)
(* the highest that fork copies.  Contents are one value per page.  The    *)
(* translation is the page table (module Pmap shows that the TLB agrees);  *)
(* page tables are never short of memory here, pages may be.               *)
(***************************************************************************)
EXTENDS Integers, FiniteSets, FiniteSetsExt

CONSTANTS NENV,     \* slots of the env table
          NVA,      \* pages below USTACKTOP; the last is the stack
          Library,  \* those that the first env maps with PTE_LIBRARY
          NPAGES,   \* physical pages
          Values    \* contents of a page, 0 included

ASSUME CowAssumption ==
    /\ NENV \in Nat \ {0} /\ NVA \in Nat \ {0} /\ NPAGES \in Nat /\ NPAGES >= NVA
    /\ Library \subseteq 1..(NVA - 1)
    /\ 0 \in Values

Envs  == 1..NENV
UCOW  == 0
VAs   == 1..NVA
Stack == NVA
Pages == 1..NPAGES
NoPage == [page |-> 0, d |-> FALSE, cow |-> FALSE, lib |-> FALSE]

VARIABLES status,  \* env_status
          pt,      \* page table of each env: [page, PTE_D, PTE_COW, PTE_LIBRARY]
          data,    \* contents of each page, 0 for a free one: page_alloc clears it
          entry,   \* env_user_tlb_mod_entry is cow_entry
          pc,      \* where the env is in fork, or "user"
          fk,      \* locals of fork and duppage: child, va, perm, flag
          fault,   \* where the env is in cow_entry, with va and perm
          panic    \* why the system stopped, or "none"

vars == <<status, pt, data, entry, pc, fk, fault, panic>>

NoFork  == [child |-> 0, va |-> 0, perm |-> NoPage, flag |-> FALSE]
NoFault == [at |-> "none", va |-> 0, perm |-> NoPage]

Mapped(e, va) == pt[e][va].page # 0
Used(t) == { t[e][va].page : e \in Envs, va \in {UCOW} \cup VAs }
Free == Pages \ Used(pt)

\* The page tables become t; the pages no longer in use are freed.
Remap(t) ==
    /\ pt' = t
    /\ data' = [p \in Pages |-> IF p \in Used(t) THEN data[p] ELSE 0]

Runs(e) == panic = "none" /\ status[e] = "runnable"

\* Env e executes its own code, in fork or outside.
In(e, p) == Runs(e) /\ fault[e].at = "none" /\ pc[e] = p
InHandler(e, p) == Runs(e) /\ fault[e].at = p

Goto(e, p) == pc' = [pc EXCEPT ![e] = p]
HandlerGoto(e, p) == fault' = [fault EXCEPT ![e].at = p]

-----------------------------------------------------------------------------
(***************************************************************************)
(* Stores and the handler                                                  *)
(***************************************************************************)

\* The pages env e may be storing to.
Stores(e) == IF pc[e] = "user" THEN VAs ELSE {Stack}

Write(e, va, v) ==
    /\ Runs(e) /\ fault[e].at = "none" /\ va \in Stores(e)
    /\ Mapped(e, va) /\ pt[e][va].d
    /\ data' = [data EXCEPT ![pt[e][va].page] = v]
    /\ UNCHANGED <<status, pt, entry, pc, fk, fault, panic>>

\* A store to a page without PTE_D: do_tlb_mod enters the handler, or panics
\* when none is set.  The store is tried again when the handler returns.
do_tlb_mod(e, va) ==
    /\ Runs(e) /\ fault[e].at = "none" /\ va \in Stores(e)
    /\ Mapped(e, va) /\ ~pt[e][va].d
    /\ IF entry[e]
       THEN fault' = [fault EXCEPT ![e] = [NoFault EXCEPT !.at = "perm", !.va = va]]
            /\ UNCHANGED panic
       ELSE panic' = "no_handler" /\ UNCHANGED fault
    /\ UNCHANGED <<status, pt, data, entry, pc, fk>>

CowPerm(e) ==
    LET perm == pt[e][fault[e].va]
    IN  /\ InHandler(e, "perm")
        /\ IF perm.cow
           THEN /\ fault' = [fault EXCEPT ![e].at = "alloc",
                                          ![e].perm = [perm EXCEPT !.page = 0, !.cow = FALSE, !.d = TRUE]]
                /\ UNCHANGED panic
           ELSE panic' = "not_cow" /\ UNCHANGED fault
        /\ UNCHANGED <<status, pt, data, entry, pc, fk>>

\* Which free page is taken does not matter.  The result of syscall_mem_alloc
\* is not looked at: without a page, the store to UCOW stops the kernel in
\* passive_alloc.
CowAlloc(e) ==
    /\ InHandler(e, "alloc")
    /\ IF Free # {}
       THEN /\ pt' = [pt EXCEPT ![e][UCOW] = [fault[e].perm EXCEPT !.page = Min(Free)]]
            /\ HandlerGoto(e, "copy") /\ UNCHANGED panic
       ELSE panic' = "no_mem" /\ UNCHANGED <<pt, fault>>
    /\ UNCHANGED <<status, data, entry, pc, fk>>

CowCopy(e) ==
    /\ InHandler(e, "copy")
    /\ data' = [data EXCEPT ![pt[e][UCOW].page] = data[pt[e][fault[e].va].page]]
    /\ HandlerGoto(e, "map")
    /\ UNCHANGED <<status, pt, entry, pc, fk, panic>>

CowMap(e) ==
    /\ InHandler(e, "map")
    /\ Remap([pt EXCEPT ![e][fault[e].va] = [fault[e].perm EXCEPT !.page = pt[e][UCOW].page]])
    /\ HandlerGoto(e, "unmap")
    /\ UNCHANGED <<status, entry, pc, fk, panic>>

\* syscall_mem_unmap, and back to the store.
CowUnmap(e) ==
    /\ InHandler(e, "unmap")
    /\ pt' = [pt EXCEPT ![e][UCOW] = NoPage]
    /\ fault' = [fault EXCEPT ![e] = NoFault]
    /\ UNCHANGED <<status, data, entry, pc, fk, panic>>

-----------------------------------------------------------------------------
(***************************************************************************)
(* fork                                                                    *)
(***************************************************************************)

ForkEntry(e) ==
    /\ In(e, "user")
    /\ entry' = [entry EXCEPT ![e] = TRUE]
    /\ Goto(e, "exofork")
    /\ UNCHANGED <<status, pt, data, fk, fault, panic>>

\* The child starts from the same registers, with 0 as the result.  Without a
\* free slot every later call fails, and fork returns.
Exofork(e) ==
    LET slots == { c \in Envs : status[c] = "free" }
        c == Min(slots)
    IN  /\ In(e, "exofork")
        /\ IF slots = {}
           THEN Goto(e, "user") /\ UNCHANGED <<status, pt, entry, fk>>
           ELSE /\ status' = [status EXCEPT ![c] = "not_runnable"]
                /\ pt' = [pt EXCEPT ![c] = [va \in {UCOW} \cup VAs |-> NoPage]]
                /\ entry' = [entry EXCEPT ![c] = FALSE]
                /\ fk' = [fk EXCEPT ![e] = [NoFork EXCEPT !.child = c, !.va = 1]]
                /\ Goto(e, "dup")
        /\ UNCHANGED <<data, fault, panic>>

\* Mutant of Advance: the loop ends one page early.
Advance_Early(e) ==
    /\ fk' = [fk EXCEPT ![e].va = @ + 1, ![e].perm = NoPage, ![e].flag = FALSE]
    /\ Goto(e, IF fk[e].va + 1 = NVA THEN "entry" ELSE "dup")

\* The loop of fork goes to the next page, or ends.
Advance(e) ==
    /\ fk' = [fk EXCEPT ![e].va = @ + 1, ![e].perm = NoPage, ![e].flag = FALSE]
    /\ Goto(e, IF fk[e].va = NVA THEN "entry" ELSE "dup")

\* The permission as duppage reads it.  The call has stored to the stack, so
\* the stack is writable by now.
DupRead(e) ==
    LET pte == pt[e][fk[e].va]
        flag == pte.d /\ ~pte.lib /\ ~pte.cow
    IN  /\ In(e, "dup") /\ pt[e][Stack].d
        /\ IF pte.page = 0 THEN Advance(e)
           ELSE /\ fk' = [fk EXCEPT ![e].flag = flag,
                                    ![e].perm = [pte EXCEPT !.page = 0, !.cow = @ \/ flag, !.d = @ /\ ~flag]]
                /\ Goto(e, "child")
        /\ UNCHANGED <<status, pt, data, entry, fault, panic>>

\* Mutant of MapTo: the parent's page is remapped before the child's is mapped.
MapTo_SelfFirst(e, d) ==
    LET va == fk[e].va
        to == IF ~fk[e].flag THEN d ELSE IF d = e THEN fk[e].child ELSE e
    IN  pt' = [pt EXCEPT ![to][va] = [fk[e].perm EXCEPT !.page = pt[e][va].page]]

\* A syscall_mem_map of the page at va to env d.
MapTo(e, d) ==
    LET va == fk[e].va
    IN  pt' = [pt EXCEPT ![d][va] = [fk[e].perm EXCEPT !.page = pt[e][va].page]]

DupChild(e) ==
    /\ In(e, "child")
    /\ MapTo(e, fk[e].child)
    /\ IF fk[e].flag THEN Goto(e, "self") /\ UNCHANGED fk ELSE Advance(e)
    /\ UNCHANGED <<status, data, entry, fault, panic>>

DupSelf(e) ==
    /\ In(e, "self")
    /\ MapTo(e, e)
    /\ Advance(e)
    /\ UNCHANGED <<status, data, entry, fault, panic>>

\* Mutant of ForkSetEntry: the child gets no handler.
ForkSetEntry_Never(e) ==
    /\ In(e, "entry")
    /\ Goto(e, "start")
    /\ UNCHANGED <<status, pt, data, entry, fk, fault, panic>>

ForkSetEntry(e) ==
    /\ In(e, "entry")
    /\ entry' = [entry EXCEPT ![fk[e].child] = TRUE]
    /\ Goto(e, "start")
    /\ UNCHANGED <<status, pt, data, fk, fault, panic>>

ForkStart(e) ==
    /\ In(e, "start")
    /\ status' = [status EXCEPT ![fk[e].child] = "runnable"]
    /\ fk' = [fk EXCEPT ![e] = NoFork]
    /\ Goto(e, "user")
    /\ UNCHANGED <<pt, data, entry, fault, panic>>

\* env_free unmaps everything.
Exit(e) ==
    /\ In(e, "user")
    /\ status' = [status EXCEPT ![e] = "free"]
    /\ Remap([pt EXCEPT ![e] = [va \in {UCOW} \cup VAs |-> NoPage]])
    /\ UNCHANGED <<entry, pc, fk, fault, panic>>

-----------------------------------------------------------------------------
\* One env runs; each of its pages is writable and its own.
Init ==
    /\ status = [e \in Envs |-> IF e = 1 THEN "runnable" ELSE "free"]
    /\ pt = [e \in Envs |-> [va \in {UCOW} \cup VAs |->
               IF e = 1 /\ va # UCOW
               THEN [page |-> va, d |-> TRUE, cow |-> FALSE, lib |-> va \in Library] ELSE NoPage]]
    /\ data = [p \in Pages |-> 0]
    /\ entry = [e \in Envs |-> FALSE]
    /\ pc = [e \in Envs |-> "user"]
    /\ fk = [e \in Envs |-> NoFork]
    /\ fault = [e \in Envs |-> NoFault]
    /\ panic = "none"

Handler(e) == CowPerm(e) \/ CowAlloc(e) \/ CowCopy(e) \/ CowMap(e) \/ CowUnmap(e)

Forking(e) == \/ Exofork(e) \/ DupRead(e) \/ DupChild(e) \/ DupSelf(e)
              \/ ForkSetEntry(e) \/ ForkStart(e)

Next == \E e \in Envs :
            \/ \E va \in VAs : do_tlb_mod(e, va) \/ \E v \in Values : Write(e, va, v)
            \/ Handler(e) \/ ForkEntry(e) \/ Forking(e) \/ Exit(e)

Spec == Init /\ [][Next]_vars

-----------------------------------------------------------------------------
(***************************************************************************)
(* Properties                                                              *)
(***************************************************************************)

\* What an env reads in a page that is not shared on purpose.
Private(e, va) == Mapped(e, va) /\ ~pt[e][va].lib
Sees(e, va) == data[pt[e][va].page]

\* fork.c:58-59: PTE_COW isolates the modifications of a parent and its
\* children.  What a started env reads in a private page changes only by its
\* own store: not by stores of relatives, not while the page is shared, copied or
\* remapped, whoever is preempted where.
Isolated ==
    [][\A e \in Envs, va \in VAs :
        status[e] = "runnable" /\ Private(e, va) /\ Private(e, va)' /\ Sees(e, va)' # Sees(e, va)
          => \E v \in Values : Write(e, va, v)]_vars

\* A child starts with the pages its parent has, the private ones with the
\* contents the parent still sees, but for the stack, to which fork itself
\* stores, and the others shared.
ChildCopies ==
    [][\A e \in Envs : ForkStart(e) =>
        \A va \in VAs : LET c == fk[e].child
                        IN  /\ Mapped(c, va) = Mapped(e, va)
                            /\ Mapped(e, va) /\ va # Stack => Sees(c, va) = Sees(e, va)
                            /\ pt[e][va].lib => pt[c][va] = pt[e][va]]_vars

\* A fault on a page that may be stored to is always resolved: the handler is
\* set, the page is copy-on-write when it looks, and nothing but the lack of
\* memory stops it.
FaultsHandled == panic \notin {"no_handler", "not_cow"}
=============================================================================
