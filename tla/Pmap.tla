-------------------------------- MODULE Pmap --------------------------------
(***************************************************************************)
(* Physical pages, address spaces and the TLB (kern/pmap.c, kern/tlbex.c,  *)
(* kern/tlb_asm.S, the memory handlers of kern/syscall_all.c, and          *)
(* env_setup_vm and the memory part of env_free of kern/env.c).            *)
(*                                                                         *)
(* A handler is one step; inside it, the routines of pmap.c transform a    *)
(* record m of the memory state one after the other.  An address space is  *)
(* a directory page, the page tables its entries name, and the ptes.  A    *)
(* virtual page is <<d, t>>: entry t of the table of directory entry d.    *)
(* Entry UVPT of a directory is the directory itself, so <<UVPT, d>> is    *)
(* the page through which a program reads table d.  The window reaches     *)
(* past the directory's own page, to tables of entries above UVPT, which   *)
(* no user address uses but passive_alloc creates when they are read.      *)
(*                                                                         *)
(* Left out: page contents, the PTE bits other than PTE_V and PTE_D, the   *)
(* global mappings of UPAGES and UENVS and their two entries between UTOP  *)
(* and UVPT, which never change.                                           *)
(***************************************************************************)
EXTENDS Integers, FiniteSets, FiniteSetsExt

CONSTANTS Pages,    \* physical pages handed out by page_alloc
          NoPage,
          Envs,     \* env slots
          NASID,    \* number of address space identifiers
          NPD,      \* directory entries below UTOP
          NHIGH,    \* directory entries above UVPT
          NPT,      \* entries of a page table
          NTLB,     \* TLB entries
          REFS      \* range of pp_ref, a u_short (2^16)

ASSUME PmapAssumption ==
    /\ NoPage \notin Pages
    /\ IsFiniteSet(Pages) /\ IsFiniteSet(Envs)
    /\ NASID \in Nat \ {0} /\ NPD \in Nat \ {0} /\ NHIGH \in Nat /\ NPT \in Nat \ {0} /\ NTLB \in Nat \ {0}
    /\ REFS \in Nat \ {0, 1}

VARIABLES pp_ref,          \* [Pages -> 0..REFS-1]
          page_free_list,  \* set of pages
          env_pgdir,       \* [Envs -> Pages or NoPage]
          env_asid,        \* [Envs -> ASIDs]
          pde,             \* [Envs -> [Dirs -> Pages or NoPage]]
          pte,             \* [Envs -> [UserVas -> Pte]]
          tlb,             \* set of entries
          lost,            \* pages taken by an allocation that then failed
          orphans,         \* directories of envs that were not created, and
                           \* tables above UVPT of envs that are gone
          panic            \* why the kernel stopped, or "none"

mem  == <<pp_ref, page_free_list, pde, pte, tlb>>
vars == <<mem, env_pgdir, env_asid, lost, orphans, panic>>

ASIDs == 0..(NASID - 1)

\* The entry of the window: the second behind NPD, or the third, so that it is
\* odd like PDX(UVPT) = 511.
UVPT == 2 * (NPD \div 2) + 3
UserDirs == 0..(NPD - 1)
High == (UVPT + 1)..(UVPT + NHIGH)
Dirs == UserDirs \cup High

UserVas == UserDirs \X (0..(NPT - 1))
Vas == UserVas \cup ({UVPT} \X (Dirs \cup {UVPT}))

\* A pte: the page it maps and whether PTE_D lets it be written.
Pte == [pp : Pages \cup {NoPage}, d : BOOLEAN]
Invalid == [pp |-> NoPage, d |-> FALSE]

Live == { e \in Envs : env_pgdir[e] # NoPage }

-----------------------------------------------------------------------------
(***************************************************************************)
(* The routines of kern/pmap.c, as functions of the memory state m.        *)
(***************************************************************************)

Mem == [ref |-> pp_ref, free |-> page_free_list, pde |-> pde, pte |-> pte, tlb |-> tlb,
        bad |-> FALSE]

\* page_alloc takes p, any free page.
page_alloc(m, p) == [m EXCEPT !.free = @ \ {p}]

\* pp_ref++
incref(m, p) == [m EXCEPT !.ref[p] = (@ + 1) % REFS]

\* Mutant of page_decref: the page is released one reference too early.
page_decref_Early(m, p) ==
    [m EXCEPT !.ref[p] = @ - 1, !.free = IF m.ref[p] <= 2 THEN @ \cup {p} ELSE @]

\* page_decref asserts that the count is positive, and frees the page at 0.
page_decref(m, p) ==
    IF m.ref[p] = 0 THEN [m EXCEPT !.bad = TRUE]
    ELSE [m EXCEPT !.ref[p] = @ - 1, !.free = IF m.ref[p] = 1 THEN @ \cup {p} ELSE @]

\* The pte for va, as page_lookup and the hardware walk see it.
Lookup(m, e, va) ==
    CASE va[1] = UVPT /\ va[2] = UVPT -> [pp |-> env_pgdir[e], d |-> FALSE]
      [] va[1] = UVPT /\ va[2] # UVPT -> [pp |-> m.pde[e][va[2]], d |-> FALSE]
      [] OTHER -> IF m.pde[e][va[1]] = NoPage THEN Invalid ELSE m.pte[e][va]

\* A TLB entry covers the two virtual pages that differ in the last bit.
Pair(va) == <<va[1], va[2] \div 2>>

tlb_invalidate(m, e, va) ==
    [m EXCEPT !.tlb = { x \in @ : ~(x.asid = env_asid[e] /\ x.pair = Pair(va)) }]

page_remove(m, e, va) ==
    LET old == Lookup(m, e, va)
    IN  IF old.pp = NoPage THEN m
        ELSE tlb_invalidate([page_decref(m, old.pp) EXCEPT !.pte[e][va] = Invalid], e, va)

\* pgdir_walk with create: q, cleared by page_alloc, becomes the page table of
\* directory entry d.
NewTable(m, e, d, q) ==
    [incref(page_alloc(m, q), q) EXCEPT
        !.pde[e][d] = q,
        !.pte[e] = [va \in UserVas |-> IF va[1] = d THEN Invalid ELSE @[va]]]

\* Mutant of page_insert: a remapped page is counted again.
page_insert_CountsAgain(m, e, p, va, d) ==
    LET old == Lookup(m, e, va)
        m1 == IF old.pp \in {NoPage, p} THEN m ELSE page_remove(m, e, va)
        m2 == tlb_invalidate(m1, e, va)
        Put(x) == [incref(x, p) EXCEPT !.pte[e][va] = [pp |-> p, d |-> d]]
    IN  IF m2.pde[e][va[1]] # NoPage THEN {[ok |-> TRUE, m |-> Put(m2)]}
        ELSE IF m2.free = {} THEN {[ok |-> FALSE, m |-> m2]}
        ELSE { [ok |-> TRUE, m |-> Put(NewTable(m2, e, va[1], q))] : q \in m2.free }

\* The outcomes of page_insert(e's directory, p, va, perm d).  Mapping the
\* page that is already there only changes the permission.
page_insert(m, e, p, va, d) ==
    LET old == Lookup(m, e, va)
        m1 == IF old.pp \in {NoPage, p} THEN m ELSE page_remove(m, e, va)
        m2 == tlb_invalidate(m1, e, va)
        Put(x) == [x EXCEPT !.pte[e][va] = [pp |-> p, d |-> d]]
    IN  IF old.pp = p THEN {[ok |-> TRUE, m |-> Put(m2)]}
        ELSE IF m2.pde[e][va[1]] # NoPage THEN {[ok |-> TRUE, m |-> Put(incref(m2, p))]}
        ELSE IF m2.free = {} THEN {[ok |-> FALSE, m |-> m2]}
        ELSE { [ok |-> TRUE, m |-> Put(incref(NewTable(m2, e, va[1], q), p))] : q \in m2.free }

\* The handler leaves memory state m.
Becomes(m) ==
    /\ pp_ref' = m.ref /\ page_free_list' = m.free
    /\ pde' = m.pde /\ pte' = m.pte /\ tlb' = m.tlb
    /\ panic' = IF m.bad THEN "assert" ELSE panic

-----------------------------------------------------------------------------
(***************************************************************************)
(* Handlers                                                                *)
(***************************************************************************)

Running == panic = "none"

\* env_setup_vm takes p, cleared by page_alloc, as the directory of e.
env_setup_vm(m, e, p) ==
    [incref(page_alloc(m, p), p) EXCEPT !.pde[e] = [d \in Dirs |-> NoPage]]

\* Mutant of FreeAsids: the scan of the bitmap runs one bit too far.
FreeAsids_TooFar == (0..NASID) \ { env_asid[f] : f \in Live }

FreeAsids == ASIDs \ { env_asid[f] : f \in Live }

\* env_alloc: a directory page, then an ASID.  Without a free ASID the
\* directory is forgotten.
env_alloc(e) ==
    /\ Running /\ e \notin Live
    /\ \E p \in page_free_list :
         /\ Becomes(env_setup_vm(Mem, e, p))
         /\ \/ /\ FreeAsids # {}
               /\ env_asid' = [env_asid EXCEPT ![e] = Min(FreeAsids)]
               /\ env_pgdir' = [env_pgdir EXCEPT ![e] = p]
               /\ UNCHANGED orphans
            \/ /\ FreeAsids = {}
               /\ orphans' = orphans \cup {p}
               /\ UNCHANGED <<env_asid, env_pgdir>>
    /\ UNCHANGED lost

\* sys_mem_alloc: when no page is left for the page table, the page already
\* taken is forgotten.
sys_mem_alloc(e, va, d) ==
    /\ Running /\ e \in Live
    /\ \E p \in page_free_list : \E r \in page_insert(page_alloc(Mem, p), e, p, va, d) :
         /\ Becomes(r.m)
         /\ lost' = IF r.ok THEN lost ELSE lost \cup {p}
    /\ UNCHANGED <<env_pgdir, env_asid, orphans>>

\* sys_mem_map, and the page of an IPC message (sys_ipc_try_send).
sys_mem_map(src, srcva, dst, dstva, d) ==
    LET pp == Lookup(Mem, src, srcva).pp
    IN  /\ Running /\ src \in Live /\ dst \in Live
        /\ pp # NoPage
        /\ \E r \in page_insert(Mem, dst, pp, dstva, d) : Becomes(r.m)
        /\ UNCHANGED <<env_pgdir, env_asid, lost, orphans>>

sys_mem_unmap(e, va) ==
    /\ Running /\ e \in Live
    /\ Lookup(Mem, e, va).pp # NoPage
    /\ Becomes(page_remove(Mem, e, va))
    /\ UNCHANGED <<env_pgdir, env_asid, lost, orphans>>

\* A TLB entry for va, loaded from both ptes of the pair.
Entry(m, e, va) ==
    LET vp(i) == <<va[1], 2 * (va[2] \div 2) + i>>
    IN  [asid |-> env_asid[e], pair |-> Pair(va),
         lo |-> [i \in 0..1 |-> IF vp(i) \in Vas THEN Lookup(m, e, vp(i)) ELSE Invalid]]

\* tlbwr overwrites any entry.
tlbwr(m, x) ==
    { [m EXCEPT !.tlb = { y \in @ : y # z } \cup {x}] : z \in m.tlb }
      \cup (IF Cardinality(m.tlb) < NTLB THEN {[m EXCEPT !.tlb = @ \cup {x}]} ELSE {})

Hit(e, va) == \E x \in tlb : /\ x.asid = env_asid[e] /\ x.pair = Pair(va)
                             /\ x.lo[va[2] % 2].pp # NoPage

\* passive_alloc gives a page to an address that has none; reading table d
\* through UVPT creates the table.
passive_alloc(m, e, va) ==
    IF va[1] = UVPT
    THEN { [ok |-> TRUE, m |-> tlb_invalidate(NewTable(m, e, va[2], p), e, va)] : p \in m.free }
    ELSE UNION { page_insert(page_alloc(m, p), e, p, va, TRUE) : p \in m.free }

\* e accesses va, which the TLB does not map.
do_tlb_refill(e, va) ==
    LET m == tlb_invalidate(Mem, e, va)
        mapped == Lookup(m, e, va).pp # NoPage
        outcomes == IF mapped THEN {[ok |-> TRUE, m |-> m]} ELSE passive_alloc(m, e, va)
    IN  /\ Running /\ e \in Live
        /\ ~Hit(e, va)
        /\ \/ \E r \in outcomes : /\ r.ok
                                  /\ \E n \in tlbwr(r.m, Entry(r.m, e, va)) : Becomes(n)
           \/ /\ ~\E r \in outcomes : r.ok
              /\ panic' = "no_mem"
              /\ UNCHANGED mem
        /\ UNCHANGED <<env_pgdir, env_asid, lost, orphans>>

\* The page tables of e below UTOP, and the pages mapped through them.
Tables(e) == { d \in UserDirs : pde[e][d] # NoPage }
Mapped(e) == { va \in UserVas : va[1] \in Tables(e) /\ pte[e][va].pp # NoPage }

\* Mutant of Flushed: the tables are not flushed from the UVPT window.
Flushed_NoTables(e) == Mapped(e) \cup {<<UVPT, UVPT>>}

\* The virtual pages that env_free flushes.
Flushed(e) == Mapped(e) \cup ({UVPT} \X (Tables(e) \cup {UVPT}))

\* How often env_free calls page_decref for p: as a page mapped, as a page
\* table, and as the directory.
Held(e, p) ==
    Cardinality({ va \in Mapped(e) : pte[e][va].pp = p })
      + Cardinality({ d \in Tables(e) : pde[e][d] = p })
      + (IF env_pgdir[e] = p THEN 1 ELSE 0)

\* n[p] calls of page_decref for every page p.
page_decrefs(m, n) ==
    [m EXCEPT !.ref = [p \in Pages |-> IF m.ref[p] < n[p] THEN 0 ELSE m.ref[p] - n[p]],
              !.free = @ \cup { p \in Pages : m.ref[p] \in 1..n[p] },
              !.bad = @ \/ \E p \in Pages : m.ref[p] < n[p]]

\* The loop over the directory below UTOP and its tables, then the directory
\* itself.  What stands above UVPT in the directory is neither given back nor
\* flushed.
env_free(e) ==
    LET gone == { Pair(va) : va \in Flushed(e) }
        cleared == [Mem EXCEPT
            !.pte[e] = [va \in UserVas |-> IF va[1] \in Tables(e) THEN Invalid ELSE @[va]],
            !.pde[e] = [d \in Dirs |-> NoPage],
            !.tlb = { x \in @ : ~(x.asid = env_asid[e] /\ x.pair \in gone) }]
    IN  /\ Running /\ e \in Live
        /\ Becomes(page_decrefs(cleared, [p \in Pages |-> Held(e, p)]))
        /\ env_pgdir' = [env_pgdir EXCEPT ![e] = NoPage]
        /\ orphans' = orphans \cup ({ pde[e][d] : d \in High } \ {NoPage})
        /\ UNCHANGED <<env_asid, lost>>

-----------------------------------------------------------------------------
Init ==
    /\ pp_ref = [p \in Pages |-> 0]
    /\ page_free_list = Pages
    /\ env_pgdir = [e \in Envs |-> NoPage]
    /\ env_asid = [e \in Envs |-> 0]
    /\ pde = [e \in Envs |-> [d \in Dirs |-> NoPage]]
    /\ pte = [e \in Envs |-> [va \in UserVas |-> Invalid]]
    /\ tlb = {}
    /\ lost = {} /\ orphans = {}
    /\ panic = "none"

Next ==
    \/ \E e \in Envs : env_alloc(e)
    \/ \E e \in Envs : env_free(e)
    \/ \E e \in Envs, va \in UserVas, d \in BOOLEAN : sys_mem_alloc(e, va, d)
    \/ \E e, f \in Envs, va, vb \in UserVas, d \in BOOLEAN : sys_mem_map(e, va, f, vb, d)
    \/ \E e \in Envs, va \in UserVas : sys_mem_unmap(e, va)
    \/ \E e \in Envs, va \in Vas : do_tlb_refill(e, va)

Spec == Init /\ [][Next]_vars

-----------------------------------------------------------------------------
(***************************************************************************)
(* Properties                                                              *)
(***************************************************************************)

\* Every variable stays in its range; the TLB never holds more than NTLB
\* entries.
TypeOK ==
    /\ pp_ref \in [Pages -> 0..(REFS - 1)]
    /\ page_free_list \subseteq Pages
    /\ env_pgdir \in [Envs -> Pages \cup {NoPage}]
    /\ env_asid \in [Envs -> ASIDs]
    /\ pde \in [Envs -> [Dirs -> Pages \cup {NoPage}]]
    /\ pte \in [Envs -> [UserVas -> Pte]]
    /\ Cardinality(tlb) <= NTLB
    /\ lost \subseteq Pages /\ orphans \subseteq Pages
    /\ panic \in {"none", "no_mem", "assert"}

\* The pointers to page p in page tables, directories and envs.
Pointers(p) ==
    Cardinality({ x \in Envs \X UserVas : pte[x[1]][x[2]].pp = p })
      + Cardinality({ x \in Envs \X Dirs : pde[x[1]][x[2]] = p })
      + Cardinality({ e \in Envs : env_pgdir[e] = p })

\* pp_ref counts the pointers to a page, and the free list holds exactly the
\* pages without one, whatever is mapped over, shared, sent, refilled or torn
\* down: no page is freed while in use.  Pages are lost in three places only:
\* the two error paths that forget a page, and env_free, which leaves the
\* tables above UVPT their reference.  The assertion of page_decref holds.
PagesExact ==
    /\ \A p \in Pages : pp_ref[p] = Pointers(p) + (IF p \in orphans THEN 1 ELSE 0)
    /\ page_free_list = { p \in Pages : pp_ref[p] = 0 } \ lost
    /\ panic # "assert"

\* What a half x of a TLB entry for va may show after its env has gone: a table
\* above UVPT, which nobody writes and which is never handed out again.
Outlives(x, va) == va[1] = UVPT /\ va[2] \in High /\ x.pp \in orphans /\ ~x.d

\* A valid half of a TLB entry is the current pte of the live env that owns
\* the ASID: no access goes through a mapping that was removed, remapped,
\* made read-only, or left by the previous owner of the ASID.  The exception
\* are pages of the window above UVPT, which env_free does not flush: they show
\* the next owner of the ASID an empty table of the previous one.
TlbCoherent ==
    \A x \in tlb : \A i \in 0..1 :
        LET va == <<x.pair[1], 2 * x.pair[2] + i>>
        IN  \/ x.lo[i].pp = NoPage
            \/ \E e \in Live : env_asid[e] = x.asid /\ Lookup(Mem, e, va) = x.lo[i]
            \/ Outlives(x.lo[i], va)

\* A page is a directory, a page table or a data page, and never two of them;
\* a directory or a table belongs to one env, and one that an env left behind
\* to none.
KindsApart ==
    /\ \A e, f \in Live : \A d, c \in Dirs :
         /\ pde[e][d] # NoPage /\ pde[e][d] = pde[f][c] => e = f /\ d = c
         /\ env_pgdir[e] = env_pgdir[f] => e = f
         /\ pde[e][d] # env_pgdir[f]
    /\ \A e, f \in Live : \A va \in UserVas, d \in Dirs :
         pte[e][va].pp # NoPage => pte[e][va].pp \notin {pde[f][d], env_pgdir[f]}
    /\ \A p \in orphans : Pointers(p) = 0
=============================================================================
