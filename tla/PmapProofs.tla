------------------------------ MODULE PmapProofs ------------------------------
(***************************************************************************)
(* Proofs about Pmap, for any number of pages, envs, ASIDs, directory      *)
(* entries and TLB entries.                                                *)
(*                                                                         *)
(* Each routine of pmap.c is described by the fields of the memory state   *)
(* it changes, then shown to keep two invariants of a memory state:        *)
(* TlbGood (tables and TLB agree) and RefsGood (the counts are exact).     *)
(* Those are lifted to the handlers.  TlbInv is inductive as it stands;    *)
(* RefInv needs FewRefs, since pp_ref is a u_short that wraps around.      *)
(***************************************************************************)
EXTENDS Pmap, MinLemmas, FiniteSetTheorems

TlbEntry == [asid : ASIDs, pair : (0..UVPT) \X Nat, lo : [0..1 -> Pte]]

MemRec == [ref : [Pages -> 0..(REFS - 1)], free : SUBSET Pages,
           pde : [Envs -> [Dirs -> Pages \cup {NoPage}]], pte : [Envs -> [UserVas -> Pte]],
           tlb : SUBSET TlbEntry, bad : BOOLEAN]

\* The fields that fill a page.
LEMMA AllocFields ==
    ASSUME NEW m \in MemRec, NEW p, NEW r, r = page_alloc(m, p)
    PROVE  /\ r \in MemRec
           /\ r.ref = m.ref /\ r.free = m.free \ {p} /\ r.pde = m.pde /\ r.pte = m.pte
           /\ r.tlb = m.tlb /\ r.bad = m.bad
  <1>2. r = [ref |-> m.ref, free |-> m.free \ {p}, pde |-> m.pde, pte |-> m.pte, tlb |-> m.tlb, bad |-> m.bad]
    BY DEF page_alloc, MemRec
  <1>3. r \in MemRec
    BY <1>2 DEF MemRec
  <1> QED
    BY <1>2, <1>3

\* r is m with one reference to p more, modulo REFS.
Increffed(m, r, p) ==
    /\ r \in MemRec
    /\ r.ref = [m.ref EXCEPT ![p] = (m.ref[p] + 1) % REFS]
    /\ r.free = m.free /\ r.pde = m.pde /\ r.pte = m.pte /\ r.tlb = m.tlb /\ r.bad = m.bad

\* incref changes one count.
LEMMA IncrefFields ==
    ASSUME NEW m \in MemRec, NEW p \in Pages, NEW r, r = incref(m, p)
    PROVE  Increffed(m, r, p)
  <1>2. r = [ref |-> [m.ref EXCEPT ![p] = (m.ref[p] + 1) % REFS], free |-> m.free, pde |-> m.pde,
             pte |-> m.pte, tlb |-> m.tlb, bad |-> m.bad]
    BY DEF incref, MemRec
  <1>3. (m.ref[p] + 1) % REFS \in 0..(REFS - 1)
    BY PmapAssumption DEF MemRec
  <1>4. r \in MemRec
    BY <1>2, <1>3 DEF MemRec
  <1> QED
    BY <1>2, <1>4 DEF Increffed

\* r is m with one reference to p less; without one, the assertion has failed.
Decreffed(m, r, p) ==
    /\ r \in MemRec
    /\ r.pde = m.pde /\ r.pte = m.pte /\ r.tlb = m.tlb
    /\ m.ref[p] > 0 => /\ r.ref = [m.ref EXCEPT ![p] = m.ref[p] - 1]
                       /\ r.free = IF m.ref[p] = 1 THEN m.free \cup {p} ELSE m.free
                       /\ r.bad = m.bad

\* page_decref gives up one reference and frees the page with the last one.
LEMMA DecrefFields ==
    ASSUME NEW m \in MemRec, NEW p \in Pages, NEW r, r = page_decref(m, p)
    PROVE  Decreffed(m, r, p)
  <1>2. CASE m.ref[p] = 0
    <2>1. r = [ref |-> m.ref, free |-> m.free, pde |-> m.pde, pte |-> m.pte, tlb |-> m.tlb, bad |-> TRUE]
      BY <1>2 DEF page_decref, MemRec
    <2>2. r \in MemRec
      BY <2>1 DEF MemRec
    <2> QED
      BY <1>2, <2>1, <2>2 DEF Decreffed
  <1>3. CASE m.ref[p] # 0
    <2>1. r = [ref |-> [m.ref EXCEPT ![p] = m.ref[p] - 1],
               free |-> IF m.ref[p] = 1 THEN m.free \cup {p} ELSE m.free,
               pde |-> m.pde, pte |-> m.pte, tlb |-> m.tlb, bad |-> m.bad]
      BY <1>3 DEF page_decref, MemRec
    <2>2. m.ref[p] - 1 \in 0..(REFS - 1)
      BY <1>3, PmapAssumption DEF MemRec
    <2>3. r \in MemRec
      BY <2>1, <2>2 DEF MemRec
    <2> QED
      BY <2>1, <2>3 DEF Decreffed
  <1> QED
    BY <1>2, <1>3

\* tlb_invalidate drops the entry of one pair of one address space.
LEMMA FlushFields ==
    ASSUME NEW m \in MemRec, NEW e, NEW va, NEW r, r = tlb_invalidate(m, e, va)
    PROVE  /\ r \in MemRec
           /\ r.tlb = { x \in m.tlb : ~(x.asid = env_asid[e] /\ x.pair = Pair(va)) }
           /\ r.ref = m.ref /\ r.free = m.free /\ r.pde = m.pde /\ r.pte = m.pte /\ r.bad = m.bad
  <1>2. r = [ref |-> m.ref, free |-> m.free, pde |-> m.pde, pte |-> m.pte,
             tlb |-> { x \in m.tlb : ~(x.asid = env_asid[e] /\ x.pair = Pair(va)) }, bad |-> m.bad]
    BY DEF tlb_invalidate, MemRec
  <1>3. r \in MemRec
    BY <1>2 DEF MemRec
  <1> QED
    BY <1>2, <1>3

\* A pte is stored.
Put(m, e, va, x) == [m EXCEPT !.pte[e][va] = x]

\* Storing a pte changes nothing else.
LEMMA PutFields ==
    ASSUME NEW m \in MemRec, NEW e \in Envs, NEW va \in UserVas, NEW x \in Pte, NEW r, r = Put(m, e, va, x)
    PROVE  /\ r \in MemRec
           /\ r.pte = [m.pte EXCEPT ![e] = [m.pte[e] EXCEPT ![va] = x]]
           /\ r.ref = m.ref /\ r.free = m.free /\ r.pde = m.pde /\ r.tlb = m.tlb /\ r.bad = m.bad
  <1>2. r = [ref |-> m.ref, free |-> m.free, pde |-> m.pde,
             pte |-> [m.pte EXCEPT ![e] = [m.pte[e] EXCEPT ![va] = x]], tlb |-> m.tlb, bad |-> m.bad]
    BY DEF Put, MemRec
  <1>3. r \in MemRec
    BY <1>2 DEF MemRec
  <1> QED
    BY <1>2, <1>3

\* r is m with q as the table of directory entry d, all its entries invalid.
Tabled(m, r, e, d, q) ==
    /\ r \in MemRec
    /\ r.ref = [m.ref EXCEPT ![q] = (m.ref[q] + 1) % REFS]
    /\ r.free = m.free \ {q}
    /\ r.pde = [m.pde EXCEPT ![e] = [m.pde[e] EXCEPT ![d] = q]]
    /\ r.pte = [m.pte EXCEPT ![e] = [va \in UserVas |-> IF va[1] = d THEN Invalid ELSE m.pte[e][va]]]
    /\ r.tlb = m.tlb /\ r.bad = m.bad

\* pgdir_walk with create takes a page, counts it and hangs it in the directory.
LEMMA NewTableFields ==
    ASSUME NEW m \in MemRec, NEW e \in Envs, NEW d \in Dirs, NEW q \in Pages
    PROVE  Tabled(m, NewTable(m, e, d, q), e, d, q)
  <1>1. PICK y, n, k : /\ k = page_alloc(m, q) /\ n = incref(k, q)
                       /\ y = [n EXCEPT !.pde[e][d] = q,
                                        !.pte[e] = [va \in UserVas |-> IF va[1] = d THEN Invalid ELSE @[va]]]
    OBVIOUS
  <1>2. /\ n \in MemRec
        /\ n.ref = [m.ref EXCEPT ![q] = (m.ref[q] + 1) % REFS] /\ n.free = m.free \ {q}
        /\ n.pde = m.pde /\ n.pte = m.pte /\ n.tlb = m.tlb /\ n.bad = m.bad
    <2>1. k \in MemRec /\ k.ref = m.ref /\ k.free = m.free \ {q} /\ k.pde = m.pde /\ k.pte = m.pte
          /\ k.tlb = m.tlb /\ k.bad = m.bad
      BY <1>1, AllocFields
    <2>2. Increffed(k, n, q)
      BY <1>1, <2>1, IncrefFields
    <2> QED
      BY <2>1, <2>2 DEF Increffed
  <1>3. y = [ref |-> n.ref, free |-> n.free, pde |-> [n.pde EXCEPT ![e] = [n.pde[e] EXCEPT ![d] = q]],
             pte |-> [n.pte EXCEPT ![e] = [va \in UserVas |-> IF va[1] = d THEN Invalid ELSE n.pte[e][va]]],
             tlb |-> n.tlb, bad |-> n.bad]
    BY <1>1, <1>2 DEF MemRec
  <1>4. [va \in UserVas |-> IF va[1] = d THEN Invalid ELSE n.pte[e][va]] \in [UserVas -> Pte]
    BY <1>2 DEF MemRec, Pte, Invalid
  <1>5. y \in MemRec
    BY <1>2, <1>3, <1>4 DEF MemRec
  <1>6. y = NewTable(m, e, d, q)
    BY <1>1 DEF NewTable
  <1>7. Tabled(m, y, e, d, q)
    BY <1>2, <1>3, <1>5 DEF Tabled
  <1> QED
    BY <1>6, <1>7

-----------------------------------------------------------------------------
(***************************************************************************)
(* The TLB, the tables and what they say of each other.                    *)
(***************************************************************************)

\* A pte is valid only in a table that exists; envs that are not live have no
\* tables.
TablesBack(m) ==
    /\ \A e \in Envs : \A va \in UserVas : m.pde[e][va[1]] = NoPage => m.pte[e][va].pp = NoPage
    /\ \A e \in Envs \ Live : \A d \in Dirs : m.pde[e][d] = NoPage

\* The virtual page of half i of a TLB entry.
Half(x, i) == <<x.pair[1], 2 * x.pair[2] + i>>

\* Half i of a TLB entry shows a table above UVPT that its env left behind.
Gone(x, i) == Outlives(x.lo[i], Half(x, i))

Coherent(m) ==
    \A x \in m.tlb : \A i \in 0..1 : x.lo[i].pp # NoPage /\ ~Gone(x, i) =>
        /\ Half(x, i) \in Vas
        /\ \E e \in Live : env_asid[e] = x.asid /\ Lookup(m, e, Half(x, i)) = x.lo[i]

TlbGood(m) == /\ m \in MemRec /\ TablesBack(m) /\ Coherent(m)
           /\ IsFiniteSet(m.tlb) /\ Cardinality(m.tlb) <= NTLB

\* No entry covers va in the address space of e.
Quiet(m, e, va) == \A x \in m.tlb : ~(x.asid = env_asid[e] /\ x.pair = Pair(va))

\* The directory entries: those below UTOP, and those above UVPT.
LEMMA DirFacts ==
    /\ UVPT \in Nat /\ UVPT \notin Dirs /\ Dirs \subseteq Nat
    /\ UserDirs \subseteq Dirs /\ High \subseteq Dirs /\ UserDirs \subseteq 0..UVPT
    /\ IsFiniteSet(Dirs) /\ IsFiniteSet(UserDirs)
  <1>1. UVPT \in Nat /\ NPD \in Nat /\ NHIGH \in Nat /\ NPD - 1 < UVPT
    BY PmapAssumption DEF UVPT
  <1>2. IsFiniteSet(UserDirs) /\ IsFiniteSet(High)
    BY <1>1, FS_Interval DEF UserDirs, High
  <1>3. IsFiniteSet(Dirs)
    BY <1>2, FS_Union DEF Dirs
  <1> HIDE DEF UVPT
  <1>4. /\ UVPT \notin Dirs /\ Dirs \subseteq Nat /\ UserDirs \subseteq Dirs /\ High \subseteq Dirs
        /\ UserDirs \subseteq 0..UVPT
    BY <1>1 DEF Dirs, UserDirs, High
  <1> QED
    BY <1>1, <1>2, <1>3, <1>4

\* No entry above UVPT is one below UTOP.
LEMMA HighApart == ASSUME NEW d \in High PROVE d \notin UserDirs
  <1>1. UVPT \in Nat /\ NPD \in Nat /\ NPD - 1 < UVPT
    BY PmapAssumption DEF UVPT
  <1> HIDE DEF UVPT
  <1> QED
    BY <1>1, PmapAssumption DEF High, UserDirs

\* A user page lies below UVPT.
LEMMA UserVaFacts ==
    ASSUME NEW va \in UserVas
    PROVE  va = <<va[1], va[2]>> /\ va[1] \in Dirs /\ va[2] \in 0..(NPT - 1) /\ va[1] # UVPT /\ va \in Vas
  <1>1. va = <<va[1], va[2]>> /\ va[1] \in UserDirs /\ va[2] \in 0..(NPT - 1)
    BY DEF UserVas
  <1> QED
    BY <1>1, DirFacts DEF Vas

\* A page is a user page or one of the UVPT window.
LEMMA VaFacts ==
    ASSUME NEW va \in Vas
    PROVE  /\ va = <<va[1], va[2]>> /\ va[1] \in 0..UVPT /\ va[2] \in Nat
           /\ va[1] = UVPT => va[2] \in Dirs \cup {UVPT}
           /\ va[1] # UVPT => va \in UserVas /\ va[1] \in Dirs
  <1>1. CASE va \in UserVas
    <2>1. va[2] \in Nat
      BY <1>1, UserVaFacts, PmapAssumption
    <2>2. va[1] \in 0..UVPT
      BY <1>1, DirFacts DEF UserVas
    <2> QED
      BY <1>1, <2>1, <2>2, UserVaFacts
  <1>2. CASE va \in {UVPT} \X (Dirs \cup {UVPT})
    <2>1. va = <<UVPT, va[2]>> /\ va[2] \in Dirs \cup {UVPT}
      BY <1>2
    <2> QED
      BY <2>1, DirFacts
  <1> QED
    BY <1>1, <1>2 DEF Vas

\* The two halves of an entry lie in its pair.
LEMMA PairOfHalf ==
    ASSUME NEW x \in TlbEntry, NEW i \in 0..1
    PROVE  Pair(Half(x, i)) = x.pair
  <1>1. PICK a, b : x.pair = <<a, b>> /\ b \in Nat
    BY DEF TlbEntry
  <1>2. (2 * b + i) \div 2 = b
    BY <1>1
  <1> QED
    BY <1>1, <1>2 DEF Pair, Half

\* What a walk finds depends on the tables of its env only.
LEMMA LookupSame ==
    ASSUME NEW m, NEW n, NEW e, NEW va, n.pde[e] = m.pde[e], n.pte[e][va] = m.pte[e][va]
    PROVE  Lookup(n, e, va) = Lookup(m, e, va)
  BY DEF Lookup

\* For a user page the walk finds the pte, and an absent table means no pte.
LEMMA LookupUser ==
    ASSUME NEW m \in MemRec, NEW e \in Envs, NEW va \in UserVas, TablesBack(m)
    PROVE  /\ Lookup(m, e, va) = IF m.pde[e][va[1]] = NoPage THEN Invalid ELSE m.pte[e][va]
           /\ Lookup(m, e, va).pp = m.pte[e][va].pp
           /\ m.pte[e][va] \in Pte /\ m.pte[e][va].pp \in Pages \cup {NoPage}
  <1>1. Lookup(m, e, va) = IF m.pde[e][va[1]] = NoPage THEN Invalid ELSE m.pte[e][va]
    BY UserVaFacts DEF Lookup
  <1>2. m.pte[e][va] \in Pte
    BY DEF MemRec
  <1> QED
    BY <1>1, <1>2 DEF TablesBack, Invalid, Pte

\* The agreement rests on the tables and the TLB alone.
LEMMA TlbGoodSame ==
    ASSUME NEW m, TlbGood(m), NEW n \in MemRec, n.pde = m.pde, n.pte = m.pte, n.tlb = m.tlb
    PROVE  TlbGood(n)
  BY DEF TlbGood, TablesBack, Coherent, Lookup

\* A flush keeps the agreement and leaves no entry for the flushed pair.
LEMMA TlbGoodFlush ==
    ASSUME NEW m, TlbGood(m), NEW e, NEW va
    PROVE  TlbGood(tlb_invalidate(m, e, va)) /\ Quiet(tlb_invalidate(m, e, va), e, va)
  <1>1. PICK n : n = tlb_invalidate(m, e, va)
    OBVIOUS
  <1>2. /\ n \in MemRec /\ n.pde = m.pde /\ n.pte = m.pte
        /\ n.tlb = { x \in m.tlb : ~(x.asid = env_asid[e] /\ x.pair = Pair(va)) }
    BY <1>1, FlushFields DEF TlbGood
  <1>3. n.tlb \subseteq m.tlb /\ Quiet(n, e, va)
    BY <1>2 DEF Quiet
  <1>4. IsFiniteSet(n.tlb) /\ Cardinality(n.tlb) <= NTLB
    <2>1. IsFiniteSet(n.tlb) /\ Cardinality(n.tlb) <= Cardinality(m.tlb)
      BY <1>3, FS_Subset DEF TlbGood
    <2>2. Cardinality(n.tlb) \in Nat /\ Cardinality(m.tlb) \in Nat
      BY <2>1, FS_CardinalityType DEF TlbGood
    <2> QED
      BY <2>1, <2>2, PmapAssumption DEF TlbGood
  <1>5. Coherent(n)
    <2>1. \A f, v : Lookup(n, f, v) = Lookup(m, f, v)
      BY <1>2 DEF Lookup
    <2> QED
      BY <1>3, <2>1 DEF TlbGood, Coherent
  <1>6. TablesBack(n)
    BY <1>2 DEF TlbGood, TablesBack
  <1> QED
    BY <1>1, <1>2, <1>3, <1>4, <1>5, <1>6 DEF TlbGood

\* A pte may be stored when no entry covers its page.
LEMMA TlbGoodPut ==
    ASSUME NEW m, TlbGood(m), NEW e \in Live, NEW va \in UserVas, NEW x \in Pte, Quiet(m, e, va),
           x.pp # NoPage => m.pde[e][va[1]] # NoPage
    PROVE  TlbGood(Put(m, e, va, x))
  <1>1. PICK n : n = Put(m, e, va, x)
    OBVIOUS
  <1>2. e \in Envs /\ m \in MemRec
    BY DEF TlbGood, Live
  <1>3. /\ n \in MemRec /\ n.pde = m.pde /\ n.tlb = m.tlb
        /\ n.pte = [m.pte EXCEPT ![e] = [m.pte[e] EXCEPT ![va] = x]]
    BY <1>1, <1>2, PutFields
  <1>4. /\ n.pte[e][va] = x
        /\ \A f \in Envs : \A u \in UserVas : f # e \/ u # va => n.pte[f][u] = m.pte[f][u]
    BY <1>2, <1>3 DEF MemRec
  <1>5. TablesBack(n)
    BY <1>2, <1>3, <1>4 DEF TablesBack, TlbGood
  <1>6. Coherent(n)
    <2> SUFFICES ASSUME NEW y \in m.tlb, NEW i \in 0..1, y.lo[i].pp # NoPage, ~Gone(y, i)
                 PROVE  /\ Half(y, i) \in Vas
                        /\ \E f \in Live : env_asid[f] = y.asid /\ Lookup(n, f, Half(y, i)) = y.lo[i]
      BY <1>3 DEF Coherent
    <2>1. PICK f \in Live : env_asid[f] = y.asid /\ Lookup(m, f, Half(y, i)) = y.lo[i]
      BY DEF TlbGood, Coherent
    <2>2. Half(y, i) \in Vas
      BY DEF TlbGood, Coherent
    <2>3. y \in TlbEntry
      BY <1>2 DEF MemRec
    <2>4. f = e => Half(y, i) # va
      BY <2>1, <2>3, PairOfHalf DEF Quiet
    <2>5. CASE Half(y, i)[1] = UVPT
      BY <2>1, <2>2, <2>5, <1>3 DEF Lookup
    <2>6. CASE Half(y, i)[1] # UVPT
      <3>1. Half(y, i) \in UserVas /\ f \in Envs
        BY <2>2, <2>6, VaFacts DEF Live
      <3>2. n.pte[f][Half(y, i)] = m.pte[f][Half(y, i)] /\ n.pde[f] = m.pde[f]
        BY <3>1, <2>4, <1>3, <1>4
      <3>3. Lookup(n, f, Half(y, i)) = Lookup(m, f, Half(y, i))
        BY <3>2 DEF Lookup
      <3> QED
        BY <3>3, <2>1, <2>2
    <2> QED
      BY <2>5, <2>6
  <1> QED
    BY <1>1, <1>3, <1>5, <1>6 DEF TlbGood

\* A table may be added where there was none: no entry can cover what it maps.
LEMMA TlbGoodNewTable ==
    ASSUME NEW m, TlbGood(m), NEW e \in Live, NEW d \in Dirs, NEW q \in Pages, m.pde[e][d] = NoPage
    PROVE  TlbGood(NewTable(m, e, d, q))
  <1>1. PICK n : n = NewTable(m, e, d, q)
    OBVIOUS
  <1>2. e \in Envs /\ m \in MemRec
    BY DEF TlbGood, Live
  <1>3. Tabled(m, n, e, d, q)
    BY <1>1, <1>2, NewTableFields
  <1>4. /\ n.pde[e][d] = q
        /\ \A f \in Envs : \A c \in Dirs : f # e \/ c # d => n.pde[f][c] = m.pde[f][c]
    BY <1>2, <1>3 DEF MemRec, Tabled
  <1>5. /\ \A u \in UserVas : u[1] = d => n.pte[e][u] = Invalid
        /\ \A f \in Envs : \A u \in UserVas : f # e \/ u[1] # d => n.pte[f][u] = m.pte[f][u]
    BY <1>2, <1>3 DEF MemRec, Tabled
  <1>6. TablesBack(n)
    BY <1>2, <1>4, <1>5, UserVaFacts DEF TablesBack, TlbGood, Invalid
  <1>7. Coherent(n)
    <2> SUFFICES ASSUME NEW y \in m.tlb, NEW i \in 0..1, y.lo[i].pp # NoPage, ~Gone(y, i)
                 PROVE  /\ Half(y, i) \in Vas
                        /\ \E f \in Live : env_asid[f] = y.asid /\ Lookup(n, f, Half(y, i)) = y.lo[i]
      BY <1>3 DEF Coherent, Tabled
    <2>1. PICK f \in Live : env_asid[f] = y.asid /\ Lookup(m, f, Half(y, i)) = y.lo[i]
      BY DEF TlbGood, Coherent
    <2>2. Half(y, i) \in Vas /\ f \in Envs
      BY DEF TlbGood, Coherent, Live
    <2>h. PICK h : h = Half(y, i)
      OBVIOUS
    <2>3. Lookup(m, f, h).pp # NoPage
      BY <2>1, <2>h
    <2>5. CASE h[1] = UVPT /\ h[2] # UVPT
      <3>1. h[2] \in Dirs
        BY <2>2, <2>5, <2>h, VaFacts
      <3>2. m.pde[f][h[2]] # NoPage
        BY <2>3, <2>5 DEF Lookup
      <3>3. n.pde[f][h[2]] = m.pde[f][h[2]]
        BY <3>1, <3>2, <2>2, <1>4
      <3>4. Lookup(n, f, h) = Lookup(m, f, h)
        BY <3>3, <2>5 DEF Lookup
      <3> QED
        BY <3>4, <2>1, <2>2, <2>h
    <2>6. CASE h[1] = UVPT /\ h[2] = UVPT
      <3>1. Lookup(n, f, h) = Lookup(m, f, h)
        BY <2>6 DEF Lookup
      <3> QED
        BY <3>1, <2>1, <2>2, <2>h
    <2>7. CASE h[1] # UVPT
      <3>1. h \in UserVas /\ h[1] \in Dirs
        BY <2>2, <2>7, <2>h, VaFacts
      <3>2. m.pde[f][h[1]] # NoPage
        BY <2>3, <2>7 DEF Lookup, Invalid
      <3>3. n.pde[f][h[1]] = m.pde[f][h[1]] /\ n.pte[f][h] = m.pte[f][h]
        BY <3>1, <3>2, <2>2, <1>4, <1>5
      <3>4. Lookup(n, f, h) = Lookup(m, f, h)
        BY <3>3, <2>7 DEF Lookup
      <3> QED
        BY <3>4, <2>1, <2>2, <2>h
    <2> QED
      BY <2>5, <2>6, <2>7
  <1> QED
    BY <1>1, <1>3, <1>6, <1>7 DEF TlbGood, Tabled

\* Two memory states with the same fields.
LEMMA MemEq ==
    ASSUME NEW m \in MemRec, NEW n \in MemRec, m.ref = n.ref, m.free = n.free, m.pde = n.pde,
           m.pte = n.pte, m.tlb = n.tlb, m.bad = n.bad
    PROVE  m = n
  <1>1. m = [ref |-> m.ref, free |-> m.free, pde |-> m.pde, pte |-> m.pte, tlb |-> m.tlb, bad |-> m.bad]
    BY DEF MemRec
  <1>2. n = [ref |-> n.ref, free |-> n.free, pde |-> n.pde, pte |-> n.pte, tlb |-> n.tlb, bad |-> n.bad]
    BY DEF MemRec
  <1> QED
    BY <1>1, <1>2

\* Removing a mapping is to release its page, to flush it, and to clear its pte.
LEMMA RemoveIs ==
    ASSUME NEW m \in MemRec, NEW e \in Envs, NEW va \in UserVas, TablesBack(m),
           NEW p \in Pages, m.pte[e][va].pp = p
    PROVE  page_remove(m, e, va) = Put(tlb_invalidate(page_decref(m, p), e, va), e, va, Invalid)
  <1>1. Lookup(m, e, va).pp = p /\ p # NoPage
    BY LookupUser, PmapAssumption
  <1>2. PICK a : a = page_decref(m, p)
    OBVIOUS
  <1>3. page_remove(m, e, va) = tlb_invalidate(Put(a, e, va, Invalid), e, va)
    BY <1>1, <1>2 DEF page_remove, Put
  <1>4. a \in MemRec /\ Invalid \in Pte
    BY <1>2, DecrefFields DEF Decreffed, Invalid, Pte
  <1>5. PICK b : b = Put(a, e, va, Invalid)
    OBVIOUS
  <1>6. PICK c : c = tlb_invalidate(a, e, va)
    OBVIOUS
  <1>7. PICK l : l = tlb_invalidate(b, e, va)
    OBVIOUS
  <1>8. PICK r : r = Put(c, e, va, Invalid)
    OBVIOUS
  <1>9. b \in MemRec /\ c \in MemRec
    BY <1>4, <1>5, <1>6, PutFields, FlushFields
  <1>10. /\ b.pte = [a.pte EXCEPT ![e] = [a.pte[e] EXCEPT ![va] = Invalid]]
         /\ b.ref = a.ref /\ b.free = a.free /\ b.pde = a.pde /\ b.tlb = a.tlb /\ b.bad = a.bad
    BY <1>4, <1>5, PutFields
  <1>11. /\ c.tlb = { x \in a.tlb : ~(x.asid = env_asid[e] /\ x.pair = Pair(va)) }
         /\ c.ref = a.ref /\ c.free = a.free /\ c.pde = a.pde /\ c.pte = a.pte /\ c.bad = a.bad
    BY <1>4, <1>6, FlushFields
  <1>12. /\ l.tlb = { x \in b.tlb : ~(x.asid = env_asid[e] /\ x.pair = Pair(va)) } /\ l \in MemRec
         /\ l.ref = b.ref /\ l.free = b.free /\ l.pde = b.pde /\ l.pte = b.pte /\ l.bad = b.bad
    BY <1>7, <1>9, FlushFields
  <1>13. /\ r.pte = [c.pte EXCEPT ![e] = [c.pte[e] EXCEPT ![va] = Invalid]] /\ r \in MemRec
         /\ r.ref = c.ref /\ r.free = c.free /\ r.pde = c.pde /\ r.tlb = c.tlb /\ r.bad = c.bad
    BY <1>4, <1>8, <1>9, PutFields
  <1>14. /\ l \in MemRec /\ r \in MemRec
         /\ l.ref = r.ref /\ l.free = r.free /\ l.pde = r.pde /\ l.bad = r.bad /\ l.pte = r.pte
    BY <1>10, <1>11, <1>12, <1>13
  <1>15. l.tlb = r.tlb
    BY <1>10, <1>11, <1>12, <1>13
  <1>16. l = r
    BY <1>14, <1>15, MemEq
  <1> QED
    BY <1>2, <1>3, <1>5, <1>6, <1>7, <1>8, <1>16

\* What page_insert has done before it stores the new pte.
Released(m, e, p, va) ==
    tlb_invalidate(IF Lookup(m, e, va).pp \in {NoPage, p} THEN m ELSE page_remove(m, e, va), e, va)

\* The four outcomes of page_insert: the same page again, a mapping in a table that
\* exists, no page for the table, a mapping in a new table.
LEMMA InsertCases ==
    ASSUME NEW m, NEW e, NEW p, NEW va, NEW d, NEW r \in page_insert(m, e, p, va, d),
           NEW s, s = Released(m, e, p, va), NEW x, x = [pp |-> p, d |-> d]
    PROVE  \/ /\ Lookup(m, e, va).pp = p
              /\ r = [ok |-> TRUE, m |-> Put(s, e, va, x)]
           \/ /\ Lookup(m, e, va).pp # p /\ s.pde[e][va[1]] # NoPage
              /\ r = [ok |-> TRUE, m |-> Put(incref(s, p), e, va, x)]
           \/ /\ Lookup(m, e, va).pp # p /\ s.pde[e][va[1]] = NoPage /\ s.free = {}
              /\ r = [ok |-> FALSE, m |-> s]
           \/ /\ Lookup(m, e, va).pp # p /\ s.pde[e][va[1]] = NoPage
              /\ \E q \in s.free :
                   r = [ok |-> TRUE, m |-> Put(incref(NewTable(s, e, va[1], q), p), e, va, x)]
  BY Zenon DEF page_insert, Released, Put

\* page_remove flushes the mapping it removes.
LEMMA TlbGoodRemove ==
    ASSUME NEW m, TlbGood(m), NEW e \in Live, NEW va \in UserVas
    PROVE  TlbGood(page_remove(m, e, va))
  <1>1. m \in MemRec /\ TablesBack(m) /\ e \in Envs
    BY DEF TlbGood, Live
  <1>2. CASE m.pte[e][va].pp = NoPage
    <2>1. page_remove(m, e, va) = m
      BY <1>1, <1>2, LookupUser DEF page_remove
    <2> QED
      BY <2>1
  <1>3. CASE m.pte[e][va].pp # NoPage
    <2>1. PICK p \in Pages : m.pte[e][va].pp = p
      BY <1>1, <1>3, LookupUser
    <2>2. PICK a : a = page_decref(m, p)
      OBVIOUS
    <2>3. TlbGood(a)
      <3>1. Decreffed(m, a, p)
        BY <1>1, <2>1, <2>2, DecrefFields
      <3>2. a \in MemRec /\ a.pde = m.pde /\ a.pte = m.pte /\ a.tlb = m.tlb
        BY <3>1 DEF Decreffed
      <3> QED
        BY <3>2, TlbGoodSame
    <2>4. PICK b : b = tlb_invalidate(a, e, va)
      OBVIOUS
    <2>5. TlbGood(b) /\ Quiet(b, e, va)
      BY <2>3, <2>4, TlbGoodFlush
    <2>6. TlbGood(Put(b, e, va, Invalid))
      BY <2>5, TlbGoodPut DEF Invalid, Pte
    <2> QED
      BY <1>1, <2>1, <2>2, <2>4, <2>6, RemoveIs
  <1> QED
    BY <1>2, <1>3

\* After the old mapping is gone no entry covers the page to be mapped.
LEMMA TlbGoodReleased ==
    ASSUME NEW m, TlbGood(m), NEW e \in Live, NEW va \in UserVas, NEW p
    PROVE  TlbGood(Released(m, e, p, va)) /\ Quiet(Released(m, e, p, va), e, va)
  <1>1. PICK n : n = IF Lookup(m, e, va).pp \in {NoPage, p} THEN m ELSE page_remove(m, e, va)
    OBVIOUS
  <1>2. TlbGood(n)
    BY <1>1, TlbGoodRemove
  <1> QED
    BY <1>1, <1>2, TlbGoodFlush DEF Released

\* Counting a reference leaves tables and TLB alone.
LEMMA TlbGoodIncref ==
    ASSUME NEW m, TlbGood(m), NEW p \in Pages, NEW e, NEW va, Quiet(m, e, va)
    PROVE  TlbGood(incref(m, p)) /\ Quiet(incref(m, p), e, va) /\ incref(m, p).pde = m.pde
  <1>1. PICK n : n = incref(m, p)
    OBVIOUS
  <1>2. n \in MemRec /\ n.pde = m.pde /\ n.pte = m.pte /\ n.tlb = m.tlb
    <2>1. Increffed(m, n, p)
      BY <1>1, IncrefFields DEF TlbGood
    <2> QED
      BY <2>1 DEF Increffed
  <1>3. TlbGood(n)
    BY <1>2, TlbGoodSame
  <1> QED
    BY <1>1, <1>2, <1>3 DEF Quiet

\* page_insert keeps TLB and tables in agreement, whatever its outcome.
LEMMA TlbGoodInsert ==
    ASSUME NEW m, TlbGood(m), NEW e \in Live, NEW va \in UserVas, NEW p \in Pages, NEW d \in BOOLEAN,
           NEW r \in page_insert(m, e, p, va, d)
    PROVE  TlbGood(r.m)
  <1>1. PICK s : s = Released(m, e, p, va)
    OBVIOUS
  <1>2. TlbGood(s) /\ Quiet(s, e, va) /\ s \in MemRec /\ e \in Envs
    BY <1>1, TlbGoodReleased DEF TlbGood, Live
  <1>3. PICK x : x = [pp |-> p, d |-> d]
    OBVIOUS
  <1>4. x \in Pte /\ x.pp = p
    BY <1>3 DEF Pte
  <1>5. va[1] \in Dirs
    BY UserVaFacts
  <1>6. CASE Lookup(m, e, va).pp = p /\ r = [ok |-> TRUE, m |-> Put(s, e, va, x)]
    <2>1. s.pde[e][va[1]] # NoPage
      <3>1. m.pde[e][va[1]] # NoPage
        BY <1>2, <1>6, LookupUser, PmapAssumption DEF TlbGood, Invalid
      <3>2. s = tlb_invalidate(m, e, va)
        BY <1>1, <1>6 DEF Released
      <3>3. s.pde = m.pde
        BY <3>2, FlushFields DEF TlbGood
      <3> QED
        BY <3>1, <3>3
    <2> QED
      BY <1>2, <1>4, <1>6, <2>1, TlbGoodPut
  <1>7. CASE s.pde[e][va[1]] # NoPage /\ r = [ok |-> TRUE, m |-> Put(incref(s, p), e, va, x)]
    <2>1. PICK n : n = incref(s, p)
      OBVIOUS
    <2>2. TlbGood(n) /\ Quiet(n, e, va) /\ n.pde = s.pde
      BY <1>2, <2>1, TlbGoodIncref
    <2>3. TlbGood(Put(n, e, va, x))
      BY <1>4, <1>7, <2>2, TlbGoodPut
    <2> QED
      BY <1>7, <2>1, <2>3
  <1>8. CASE r = [ok |-> FALSE, m |-> s]
    BY <1>2, <1>8
  <1>9. CASE /\ s.pde[e][va[1]] = NoPage
             /\ \E q \in s.free :
                  r = [ok |-> TRUE, m |-> Put(incref(NewTable(s, e, va[1], q), p), e, va, x)]
    <2>1. PICK q \in s.free : r = [ok |-> TRUE, m |-> Put(incref(NewTable(s, e, va[1], q), p), e, va, x)]
      BY <1>9
    <2>2. PICK k : k = NewTable(s, e, va[1], q)
      OBVIOUS
    <2>3. q \in Pages
      BY <1>2 DEF MemRec
    <2>4. TlbGood(k)
      BY <1>2, <1>5, <1>9, <2>2, <2>3, TlbGoodNewTable
    <2>5. Tabled(s, k, e, va[1], q)
      BY <1>2, <1>5, <2>2, <2>3, NewTableFields
    <2>6. Quiet(k, e, va) /\ k.pde[e][va[1]] = q /\ q # NoPage
      BY <1>2, <1>5, <2>3, <2>5, PmapAssumption DEF Tabled, Quiet, MemRec
    <2>7. PICK n : n = incref(k, p)
      OBVIOUS
    <2>8. TlbGood(n) /\ Quiet(n, e, va) /\ n.pde = k.pde
      BY <2>4, <2>6, <2>7, TlbGoodIncref
    <2>9. TlbGood(Put(n, e, va, x))
      BY <1>4, <2>6, <2>8, TlbGoodPut
    <2> QED
      BY <2>1, <2>2, <2>7, <2>9
  <1> QED
    BY <1>1, <1>3, <1>6, <1>7, <1>8, <1>9, InsertCases

\* What the refill writes: an entry whose valid halves are ptes of e.
LEMMA EntryFits ==
    ASSUME NEW m \in MemRec, NEW e \in Envs, NEW va \in Vas, NEW x, x = Entry(m, e, va),
           env_pgdir \in [Envs -> Pages \cup {NoPage}], env_asid \in [Envs -> ASIDs]
    PROVE  /\ x \in TlbEntry /\ x.asid = env_asid[e]
           /\ \A i \in 0..1 : x.lo[i].pp # NoPage => /\ Half(x, i) \in Vas
                                                    /\ Lookup(m, e, Half(x, i)) = x.lo[i]
  <1> DEFINE k == va[2] \div 2
             vp(i) == <<va[1], 2 * k + i>>
  <1>1. va[1] \in 0..UVPT /\ k \in Nat
    BY VaFacts
  <1>2. \A u \in Vas : Lookup(m, e, u) \in Pte
    <2> SUFFICES ASSUME NEW u \in Vas PROVE Lookup(m, e, u) \in Pte
      OBVIOUS
    <2>1. CASE u[1] = UVPT /\ u[2] = UVPT
      BY <2>1, Zenon DEF Lookup, Pte
    <2>2. CASE u[1] = UVPT /\ u[2] # UVPT
      <3>1. m.pde[e][u[2]] \in Pages \cup {NoPage}
        BY <2>2, VaFacts DEF MemRec
      <3>2. Lookup(m, e, u) = [pp |-> m.pde[e][u[2]], d |-> FALSE]
        BY <2>2 DEF Lookup
      <3> QED
        BY <3>1, <3>2 DEF Pte
    <2>3. CASE u[1] # UVPT
      BY <2>3, VaFacts DEF Lookup, Pte, Invalid, MemRec
    <2> QED
      BY <2>1, <2>2, <2>3
  <1>3. Invalid \in Pte /\ Invalid.pp = NoPage
    BY DEF Invalid, Pte
  <1> HIDE DEF k
  <1>4. x = [asid |-> env_asid[e], pair |-> <<va[1], k>>,
             lo |-> [i \in 0..1 |-> IF vp(i) \in Vas THEN Lookup(m, e, vp(i)) ELSE Invalid]]
    BY DEF Entry, Pair, k
  <1>5. \A i \in 0..1 : Half(x, i) = vp(i)
    BY <1>4 DEF Half
  <1>6. x.lo \in [0..1 -> Pte]
    BY <1>2, <1>3, <1>4
  <1>7. x \in TlbEntry
    BY <1>1, <1>4, <1>6 DEF TlbEntry
  <1>8. \A i \in 0..1 : x.lo[i] = IF vp(i) \in Vas THEN Lookup(m, e, vp(i)) ELSE Invalid
    BY <1>4
  <1> HIDE DEF vp
  <1>9. \A i \in 0..1 : x.lo[i].pp # NoPage => Half(x, i) \in Vas /\ Lookup(m, e, Half(x, i)) = x.lo[i]
    BY <1>3, <1>5, <1>8
  <1> QED
    BY <1>4, <1>7, <1>9

\* r is m with the entry x written over another one or into an empty slot.
Written(m, r, x) ==
    /\ r \in MemRec
    /\ r.ref = m.ref /\ r.free = m.free /\ r.pde = m.pde /\ r.pte = m.pte /\ r.bad = m.bad
    /\ r.tlb \subseteq m.tlb \cup {x} /\ IsFiniteSet(r.tlb) /\ Cardinality(r.tlb) <= NTLB

\* tlbwr adds one entry and never exceeds the size of the TLB.
LEMMA TlbwrFields ==
    ASSUME NEW m \in MemRec, NEW x \in TlbEntry, NEW r \in tlbwr(m, x),
           IsFiniteSet(m.tlb), Cardinality(m.tlb) <= NTLB
    PROVE  Written(m, r, x)
  <1>1. PICK t : /\ \/ \E z \in m.tlb : t = (m.tlb \ {z}) \cup {x}
                    \/ Cardinality(m.tlb) < NTLB /\ t = m.tlb \cup {x}
                 /\ r = [m EXCEPT !.tlb = t]
    <2>1. CASE \E z \in m.tlb : r = [m EXCEPT !.tlb = { y \in m.tlb : y # z } \cup {x}]
      <3>1. PICK z \in m.tlb : r = [m EXCEPT !.tlb = { y \in m.tlb : y # z } \cup {x}]
        BY <2>1
      <3>2. { y \in m.tlb : y # z } = m.tlb \ {z}
        OBVIOUS
      <3> QED
        BY <3>1, <3>2
    <2>2. CASE Cardinality(m.tlb) < NTLB /\ r = [m EXCEPT !.tlb = m.tlb \cup {x}]
      BY <2>2
    <2> QED
      BY <2>1, <2>2 DEF tlbwr
  <1>2. t \subseteq m.tlb \cup {x} /\ t \subseteq TlbEntry
    BY <1>1 DEF MemRec
  <1>3. r = [ref |-> m.ref, free |-> m.free, pde |-> m.pde, pte |-> m.pte, tlb |-> t, bad |-> m.bad]
    BY <1>1 DEF MemRec
  <1>4. r \in MemRec
    BY <1>2, <1>3 DEF MemRec
  <1>5. Cardinality(m.tlb) \in Nat /\ NTLB \in Nat
    BY FS_CardinalityType, PmapAssumption
  <1>6. IsFiniteSet(t) /\ Cardinality(t) <= NTLB
    <2>1. CASE \E z \in m.tlb : t = (m.tlb \ {z}) \cup {x}
      <3>1. PICK z \in m.tlb : t = (m.tlb \ {z}) \cup {x}
        BY <2>1
      <3>2. IsFiniteSet(m.tlb \ {z}) /\ Cardinality(m.tlb \ {z}) = Cardinality(m.tlb) - 1
        BY FS_RemoveElement
      <3>3. /\ IsFiniteSet(t)
            /\ \/ Cardinality(t) = Cardinality(m.tlb \ {z})
               \/ Cardinality(t) = Cardinality(m.tlb \ {z}) + 1
        BY <3>1, <3>2, FS_AddElement
      <3> QED
        BY <1>5, <3>2, <3>3
    <2>2. CASE Cardinality(m.tlb) < NTLB /\ t = m.tlb \cup {x}
      <3>1. /\ IsFiniteSet(t)
            /\ \/ Cardinality(t) = Cardinality(m.tlb)
               \/ Cardinality(t) = Cardinality(m.tlb) + 1
        BY <2>2, FS_AddElement
      <3> QED
        BY <1>5, <2>2, <3>1
    <2> QED
      BY <1>1, <2>1, <2>2
  <1> QED
    BY <1>2, <1>3, <1>4, <1>6 DEF Written

\* The entry that the refill writes agrees with the tables.
LEMMA TlbGoodWritten ==
    ASSUME NEW m, TlbGood(m), NEW e \in Live, NEW va \in Vas, NEW r \in tlbwr(m, Entry(m, e, va)),
           env_pgdir \in [Envs -> Pages \cup {NoPage}], env_asid \in [Envs -> ASIDs]
    PROVE  TlbGood(r) /\ Written(m, r, Entry(m, e, va))
  <1>1. PICK x : x = Entry(m, e, va)
    OBVIOUS
  <1>2. m \in MemRec /\ e \in Envs
    BY DEF TlbGood, Live
  <1>3. /\ x \in TlbEntry /\ x.asid = env_asid[e]
        /\ \A i \in 0..1 : x.lo[i].pp # NoPage => /\ Half(x, i) \in Vas
                                                 /\ Lookup(m, e, Half(x, i)) = x.lo[i]
    BY <1>1, <1>2, EntryFits
  <1>4. Written(m, r, x)
    BY <1>1, <1>2, <1>3, TlbwrFields DEF TlbGood
  <1>5. \A f, v : Lookup(r, f, v) = Lookup(m, f, v)
    BY <1>4 DEF Lookup, Written
  <1>6. Coherent(r)
    BY <1>3, <1>4, <1>5 DEF Coherent, Written, TlbGood
  <1>7. TablesBack(r)
    BY <1>4 DEF TablesBack, Written, TlbGood
  <1> QED
    BY <1>1, <1>4, <1>6, <1>7 DEF TlbGood, Written

\* The page that the refill gives to an address without one.
LEMMA TlbGoodPassive ==
    ASSUME NEW m, TlbGood(m), NEW e \in Live, NEW va \in Vas, Lookup(m, e, va).pp = NoPage,
           NEW r \in passive_alloc(m, e, va)
    PROVE  TlbGood(r.m)
  <1>1. m \in MemRec /\ e \in Envs /\ env_pgdir[e] # NoPage
    BY DEF TlbGood, Live
  <1>2. CASE va[1] = UVPT
    <2>1. PICK p \in m.free : r = [ok |-> TRUE, m |-> tlb_invalidate(NewTable(m, e, va[2], p), e, va)]
      BY <1>2 DEF passive_alloc
    <2>2. va[2] \in Dirs /\ p \in Pages
      <3>1. va[2] # UVPT
        BY <1>1, <1>2 DEF Lookup
      <3> QED
        BY <3>1, <1>1, <1>2, VaFacts DEF MemRec
    <2>3. m.pde[e][va[2]] = NoPage
      <3>1. va[2] # UVPT
        BY <1>1, <1>2 DEF Lookup
      <3> QED
        BY <3>1, <1>2 DEF Lookup
    <2>4. PICK k : k = NewTable(m, e, va[2], p)
      OBVIOUS
    <2>5. TlbGood(k)
      BY <2>2, <2>3, <2>4, TlbGoodNewTable
    <2> QED
      BY <2>1, <2>4, <2>5, TlbGoodFlush
  <1>3. CASE va[1] # UVPT
    <2>1. PICK p \in m.free : r \in page_insert(page_alloc(m, p), e, p, va, TRUE)
      BY <1>3 DEF passive_alloc
    <2>2. p \in Pages /\ va \in UserVas
      BY <1>1, <1>3, VaFacts DEF MemRec
    <2>3. PICK k : k = page_alloc(m, p)
      OBVIOUS
    <2>4. TlbGood(k)
      <3>1. k \in MemRec /\ k.pde = m.pde /\ k.pte = m.pte /\ k.tlb = m.tlb
        BY <1>1, <2>3, AllocFields
      <3> QED
        BY <3>1, TlbGoodSame
    <2>5. TRUE \in BOOLEAN /\ r \in page_insert(k, e, p, va, TRUE)
      BY <2>1, <2>3
    <2> QED
      BY <2>2, <2>4, <2>5, TlbGoodInsert
  <1> QED
    BY <1>2, <1>3

-----------------------------------------------------------------------------
(***************************************************************************)
(* The handlers and the TLB.                                               *)
(***************************************************************************)

EnvTypes ==
    /\ env_pgdir \in [Envs -> Pages \cup {NoPage}]
    /\ env_asid \in [Envs -> ASIDs]
    /\ lost \subseteq Pages /\ orphans \subseteq Pages
    /\ panic \in {"none", "no_mem", "assert"}

\* Live envs have ASIDs of their own.
AsidsApart == \A e, f \in Live : env_asid[e] = env_asid[f] => e = f

TlbInv == EnvTypes /\ AsidsApart /\ TlbGood(Mem)

\* The memory state that a handler leaves.
LEMMA BecomesFields ==
    ASSUME NEW n \in MemRec, Becomes(n)
    PROVE  /\ Mem' \in MemRec
           /\ Mem'.ref = n.ref /\ Mem'.free = n.free /\ Mem'.pde = n.pde /\ Mem'.pte = n.pte
           /\ Mem'.tlb = n.tlb
  <1>1. PICK k : k = [ref |-> n.ref, free |-> n.free, pde |-> n.pde, pte |-> n.pte, tlb |-> n.tlb,
                      bad |-> FALSE]
    OBVIOUS
  <1>2. Mem' = k
    BY <1>1 DEF Becomes, Mem
  <1>3. k \in MemRec
    BY <1>1 DEF MemRec
  <1> QED
    BY <1>1, <1>2, <1>3

\* The agreement of the next state, when address spaces and ASIDs stay.
LEMMA TlbGoodNext ==
    ASSUME NEW n, TlbGood(n), Mem' \in MemRec, Mem'.pde = n.pde, Mem'.pte = n.pte, Mem'.tlb = n.tlb,
           UNCHANGED <<env_pgdir, env_asid>>, orphans \subseteq orphans'
    PROVE  TlbGood(Mem)'
  <1>2. PICK k : k = Mem'
    OBVIOUS
  <1>3. TlbGood(k)
    BY <1>2, TlbGoodSame
  <1>4. Live' = Live
    BY DEF Live
  <1>5. ASSUME NEW f, NEW v PROVE Lookup(Mem, f, v)' = Lookup(k, f, v)
    BY <1>2, Zenon DEF Lookup
  <1>8. ASSUME NEW x, NEW i PROVE Gone(x, i) => Gone(x, i)'
    BY DEF Gone, Outlives
  <1>6. Coherent(Mem)'
    BY <1>2, <1>3, <1>4, <1>5, <1>8 DEF Coherent, TlbGood
  <1>7. TablesBack(Mem)'
    BY <1>2, <1>3, <1>4 DEF TablesBack, TlbGood
  <1> QED
    BY <1>2, <1>3, <1>6, <1>7 DEF TlbGood

\* The memory record and the variables.
LEMMA MemFacts ==
    /\ Mem.ref = pp_ref /\ Mem.free = page_free_list /\ Mem.pde = pde /\ Mem.pte = pte
    /\ Mem.tlb = tlb /\ Mem.bad = FALSE
  BY DEF Mem

\* The boot state.
LEMMA InitTlbInv == Init => TlbInv
  <1> SUFFICES ASSUME Init PROVE TlbInv
    OBVIOUS
  <1>1. EnvTypes
    BY PmapAssumption DEF Init, EnvTypes, ASIDs
  <1>2. Live = {}
    BY DEF Init, Live
  <1>3. Mem \in MemRec
    BY PmapAssumption DEF Init, Mem, MemRec, Pte, Invalid
  <1>4. TablesBack(Mem)
    BY MemFacts DEF Init, TablesBack, Invalid
  <1>5. Coherent(Mem) /\ IsFiniteSet(Mem.tlb) /\ Cardinality(Mem.tlb) <= NTLB
    BY MemFacts, FS_EmptySet, PmapAssumption DEF Init, Coherent
  <1> QED
    BY <1>1, <1>2, <1>3, <1>4, <1>5 DEF TlbInv, AsidsApart, TlbGood

\* What env_alloc makes of the memory state: a page with one reference and an
\* empty directory, which an env that is not live has already.
Setup(m, n, p) ==
    /\ n \in MemRec
    /\ n.ref = [m.ref EXCEPT ![p] = (m.ref[p] + 1) % REFS]
    /\ n.free = m.free \ {p}
    /\ n.pde = m.pde /\ n.pte = m.pte /\ n.tlb = m.tlb /\ n.bad = m.bad

\* env_setup_vm in fields.
LEMMA SetupFields ==
    ASSUME NEW m, TlbGood(m), NEW e \in Envs, e \notin Live, NEW p \in Pages, NEW n, n = env_setup_vm(m, e, p)
    PROVE  Setup(m, n, p)
  <1>1. m \in MemRec /\ TablesBack(m)
    BY DEF TlbGood
  <1>2. PICK k : k = page_alloc(m, p)
    OBVIOUS
  <1>3. PICK a : a = incref(k, p)
    OBVIOUS
  <1>4. n = [a EXCEPT !.pde[e] = [d \in Dirs |-> NoPage]]
    BY <1>2, <1>3 DEF env_setup_vm
  <1>5. /\ k \in MemRec /\ k.ref = m.ref /\ k.free = m.free \ {p} /\ k.pde = m.pde /\ k.pte = m.pte
        /\ k.tlb = m.tlb /\ k.bad = m.bad
    BY <1>1, <1>2, AllocFields
  <1>6. /\ a \in MemRec /\ a.ref = [k.ref EXCEPT ![p] = (k.ref[p] + 1) % REFS]
        /\ a.free = k.free /\ a.pde = k.pde /\ a.pte = k.pte /\ a.tlb = k.tlb /\ a.bad = k.bad
    <2>1. Increffed(k, a, p)
      BY <1>3, <1>5, IncrefFields
    <2> QED
      BY <2>1 DEF Increffed
  <1>7. n = [ref |-> a.ref, free |-> a.free, pde |-> [a.pde EXCEPT ![e] = [d \in Dirs |-> NoPage]],
             pte |-> a.pte, tlb |-> a.tlb, bad |-> a.bad]
    BY <1>4, <1>6 DEF MemRec
  <1>8. m.pde[e] = [d \in Dirs |-> NoPage]
    <2>1. \A d \in Dirs : m.pde[e][d] = NoPage
      BY <1>1 DEF TablesBack
    <2>2. m.pde[e] \in [Dirs -> Pages \cup {NoPage}]
      BY <1>1 DEF MemRec
    <2> QED
      BY <2>1, <2>2
  <1>9. [a.pde EXCEPT ![e] = [d \in Dirs |-> NoPage]] = m.pde
    BY <1>1, <1>5, <1>6, <1>8 DEF MemRec
  <1>10. n \in MemRec
    <2>1. n = [ref |-> a.ref, free |-> a.free, pde |-> m.pde, pte |-> a.pte, tlb |-> a.tlb, bad |-> a.bad]
      BY <1>7, <1>9
    <2>2. a.pde = m.pde
      BY <1>5, <1>6
    <2> QED
      BY <1>6, <2>1, <2>2 DEF MemRec
  <1>11. n.ref = a.ref /\ n.free = a.free /\ n.pde = m.pde /\ n.pte = a.pte /\ n.tlb = a.tlb /\ n.bad = a.bad
    BY <1>7, <1>9
  <1> QED
    BY <1>5, <1>6, <1>10, <1>11 DEF Setup

\* env_alloc: the ASID it takes belongs to no live env, and the tables it starts from
\* are empty, so that no entry of the TLB is about the new env.
LEMMA AllocTlbInv ==
    ASSUME TlbInv, NEW e \in Envs, env_alloc(e)
    PROVE  TlbInv'
  <1>1. e \notin Live /\ Mem \in MemRec
    BY DEF env_alloc, TlbInv, TlbGood
  <1>2. PICK p \in page_free_list : Becomes(env_setup_vm(Mem, e, p)) /\
             \/ /\ FreeAsids # {}
                /\ env_asid' = [env_asid EXCEPT ![e] = Min(FreeAsids)]
                /\ env_pgdir' = [env_pgdir EXCEPT ![e] = p]
                /\ UNCHANGED orphans
             \/ /\ orphans' = orphans \cup {p}
                /\ UNCHANGED <<env_asid, env_pgdir>>
    BY DEF env_alloc
  <1>3. p \in Pages
    BY <1>1, MemFacts DEF MemRec
  <1>4. PICK m : m = Mem
    OBVIOUS
  <1>5. PICK n : n = env_setup_vm(m, e, p)
    OBVIOUS
  <1>6. TlbGood(m)
    BY <1>4 DEF TlbInv
  <1>7. Setup(m, n, p)
    BY <1>1, <1>3, <1>5, <1>6, SetupFields
  <1>9. n \in MemRec
    BY <1>7 DEF Setup
  <1>11. n.pde = m.pde /\ n.pte = m.pte /\ n.tlb = m.tlb
    BY <1>7 DEF Setup
  <1>12. TlbGood(n)
    BY <1>4, <1>9, <1>11, TlbGoodSame DEF TlbInv
  <1>13. Becomes(n)
    BY <1>2, <1>4, <1>5
  <1>14. /\ Mem' \in MemRec /\ Mem'.pde = n.pde /\ Mem'.pte = n.pte /\ Mem'.tlb = n.tlb
    BY <1>9, <1>13, BecomesFields
  <1>15. panic' \in {"none", "no_mem", "assert"} /\ lost' = lost
    BY <1>13 DEF Becomes, env_alloc, TlbInv, EnvTypes
  <1>16. CASE orphans' = orphans \cup {p} /\ UNCHANGED <<env_asid, env_pgdir>>
    <2>1. TlbGood(Mem)'
      BY <1>12, <1>14, <1>16, TlbGoodNext
    <2>2. Live' = Live
      BY <1>16 DEF Live
    <2> QED
      BY <1>3, <1>15, <1>16, <2>1, <2>2 DEF TlbInv, EnvTypes, AsidsApart
  <1>17. CASE /\ FreeAsids # {}
              /\ env_asid' = [env_asid EXCEPT ![e] = Min(FreeAsids)]
              /\ env_pgdir' = [env_pgdir EXCEPT ![e] = p]
              /\ UNCHANGED orphans
    <2>1. PICK a1 : a1 = Min(FreeAsids)
      OBVIOUS
    <2>2. a1 \in ASIDs /\ \A f \in Live : env_asid[f] # a1
      <3>1. FreeAsids \subseteq Nat
        BY PmapAssumption DEF ASIDs, FreeAsids
      <3>2. a1 \in FreeAsids
        BY <1>17, <2>1, <3>1, MinIsMember
      <3> QED
        BY <3>2 DEF FreeAsids
    <2>3. env_asid' = [env_asid EXCEPT ![e] = a1]
      BY <1>17, <2>1
    <2>4. /\ env_pgdir'[e] = p /\ p # NoPage
          /\ \A f \in Envs : f # e => env_pgdir'[f] = env_pgdir[f] /\ env_asid'[f] = env_asid[f]
      BY <1>3, <1>17, <2>3, PmapAssumption DEF TlbInv, EnvTypes
    <2>5. Live' = Live \cup {e}
      BY <2>4 DEF Live
    <2>6. env_asid'[e] = a1
      BY <2>3 DEF TlbInv, EnvTypes
    <2>7. AsidsApart'
      BY <2>2, <2>4, <2>5, <2>6 DEF AsidsApart, TlbInv, Live
    <2>8. EnvTypes'
      BY <1>3, <1>15, <1>17, <2>2, <2>3 DEF TlbInv, EnvTypes
    <2>9. PICK k : k = Mem'
      OBVIOUS
    <2>10. Coherent(Mem)'
      <3> SUFFICES ASSUME NEW y \in n.tlb, NEW i \in 0..1, y.lo[i].pp # NoPage, ~Gone(y, i)
                   PROVE  /\ Half(y, i) \in Vas
                          /\ \E f \in Live' : env_asid'[f] = y.asid /\ Lookup(Mem, f, Half(y, i))' = y.lo[i]
        <4>1. ASSUME NEW x, NEW i PROVE Gone(x, i)' <=> Gone(x, i)
          BY <1>17 DEF Gone, Outlives
        <4> QED
          BY <1>14, <4>1 DEF Coherent
      <3>1. PICK f \in Live : env_asid[f] = y.asid /\ Lookup(n, f, Half(y, i)) = y.lo[i]
        BY <1>12 DEF TlbGood, Coherent
      <3>2. Half(y, i) \in Vas
        BY <1>12 DEF TlbGood, Coherent
      <3>3. f \in Envs /\ f # e
        BY <1>1 DEF Live
      <3>4. env_pgdir'[f] = env_pgdir[f] /\ env_asid'[f] = env_asid[f]
        BY <2>4, <3>3
      <3>5. Lookup(Mem, f, Half(y, i))' = Lookup(n, f, Half(y, i))
        BY <1>14, <3>4, Zenon DEF Lookup
      <3> QED
        BY <2>5, <3>1, <3>2, <3>4, <3>5
    <2>11. TablesBack(Mem)'
      BY <1>12, <1>14, <2>5 DEF TlbGood, TablesBack
    <2> QED
      BY <1>12, <1>14, <2>7, <2>8, <2>10, <2>11 DEF TlbInv, TlbGood
  <1> QED
    BY <1>2, <1>16, <1>17

\* r is the memory state that env_free leaves of m: the tables of e are gone,
\* and what they mapped is flushed.
Freed(m, r, e) ==
    /\ r \in MemRec
    /\ r.pde = [m.pde EXCEPT ![e] = [d \in Dirs |-> NoPage]]
    /\ r.pte = [m.pte EXCEPT ![e] = [va \in UserVas |-> IF va[1] \in Tables(e) THEN Invalid ELSE m.pte[e][va]]]
    /\ r.tlb = { x \in m.tlb : ~(x.asid = env_asid[e] /\ x.pair \in { Pair(va) : va \in Flushed(e) }) }
    /\ r.ref = [p \in Pages |-> IF m.ref[p] < Held(e, p) THEN 0 ELSE m.ref[p] - Held(e, p)]
    /\ r.free = m.free \cup { p \in Pages : m.ref[p] \in 1..Held(e, p) }
    /\ (\A p \in Pages : Held(e, p) <= m.ref[p]) => r.bad = m.bad

\* The references env_free gives up are finitely many.
LEMMA HeldIsNat == ASSUME NEW e, NEW p, Mem \in MemRec, e \in Envs PROVE Held(e, p) \in Nat
  <1>1. IsFiniteSet(UserVas) /\ IsFiniteSet(Dirs)
    <2>1. IsFiniteSet(UserDirs) /\ IsFiniteSet(Dirs) /\ IsFiniteSet(0..(NPT - 1))
      BY DirFacts, FS_Interval, PmapAssumption
    <2> QED
      BY <2>1, FS_Product DEF UserVas
  <1>2. Cardinality({ va \in Mapped(e) : pte[e][va].pp = p }) \in Nat
    <2>1. { va \in Mapped(e) : pte[e][va].pp = p } \subseteq UserVas
      BY DEF Mapped
    <2> QED
      BY <1>1, <2>1, FS_Subset, FS_CardinalityType
  <1>3. Cardinality({ d \in Tables(e) : pde[e][d] = p }) \in Nat
    <2>1. { d \in Tables(e) : pde[e][d] = p } \subseteq Dirs
      BY DirFacts DEF Tables
    <2> QED
      BY <1>1, <2>1, FS_Subset, FS_CardinalityType
  <1> QED
    BY <1>2, <1>3 DEF Held

\* env_free leaves such a state.
LEMMA FreeFields ==
    ASSUME NEW m \in MemRec, m = Mem, NEW e \in Envs, env_free(e)
    PROVE  \E r : Freed(m, r, e) /\ Becomes(r)
  <1>1. PICK c : c = [m EXCEPT
            !.pte[e] = [va \in UserVas |-> IF va[1] \in Tables(e) THEN Invalid ELSE @[va]],
            !.pde[e] = [d \in Dirs |-> NoPage],
            !.tlb = { x \in @ : ~(x.asid = env_asid[e] /\ x.pair \in { Pair(va) : va \in Flushed(e) }) }]
    OBVIOUS
  <1>2. PICK h : h = [p \in Pages |-> Held(e, p)]
    OBVIOUS
  <1>3. Becomes(page_decrefs(c, h))
    BY <1>1, <1>2 DEF env_free
  <1>4. c = [ref |-> m.ref, free |-> m.free, pde |-> [m.pde EXCEPT ![e] = [d \in Dirs |-> NoPage]],
             pte |-> [m.pte EXCEPT ![e] = [va \in UserVas |-> IF va[1] \in Tables(e) THEN Invalid ELSE m.pte[e][va]]],
             tlb |-> { x \in m.tlb : ~(x.asid = env_asid[e] /\ x.pair \in { Pair(va) : va \in Flushed(e) }) },
             bad |-> m.bad]
    BY <1>1 DEF MemRec
  <1>5. PICK r : r = page_decrefs(c, h)
    OBVIOUS
  <1>6. PICK b : b = (m.bad \/ \E p \in Pages : m.ref[p] < h[p])
    OBVIOUS
  <1>7. r = [ref |-> [p \in Pages |-> IF m.ref[p] < h[p] THEN 0 ELSE m.ref[p] - h[p]],
             free |-> m.free \cup { p \in Pages : m.ref[p] \in 1..h[p] }, pde |-> c.pde, pte |-> c.pte,
             tlb |-> c.tlb, bad |-> b]
    BY <1>4, <1>5, <1>6 DEF page_decrefs
  <1>8. \A p \in Pages : h[p] = Held(e, p) /\ h[p] \in Nat
    BY <1>2, HeldIsNat
  <1>9. r \in MemRec
    <2>1. \A p \in Pages : (IF m.ref[p] < h[p] THEN 0 ELSE m.ref[p] - h[p]) \in 0..(REFS - 1)
      BY <1>8, PmapAssumption DEF MemRec
    <2>2. c.pte \in [Envs -> [UserVas -> Pte]]
      BY <1>4 DEF MemRec, Pte, Invalid
    <2>3. c.pde \in [Envs -> [Dirs -> Pages \cup {NoPage}]]
      BY <1>4 DEF MemRec
    <2>4. c.tlb \in SUBSET TlbEntry /\ b \in BOOLEAN
      BY <1>4, <1>6 DEF MemRec
    <2>5. [p \in Pages |-> IF m.ref[p] < h[p] THEN 0 ELSE m.ref[p] - h[p]] \in [Pages -> 0..(REFS - 1)]
      BY <2>1
    <2>6. m.free \cup { p \in Pages : m.ref[p] \in 1..h[p] } \in SUBSET Pages
      BY DEF MemRec
    <2> QED
      BY <1>7, <2>2, <2>3, <2>4, <2>5, <2>6 DEF MemRec
  <1>10. /\ r.ref = [p \in Pages |-> IF m.ref[p] < Held(e, p) THEN 0 ELSE m.ref[p] - Held(e, p)]
         /\ r.free = m.free \cup { p \in Pages : m.ref[p] \in 1..Held(e, p) }
    BY <1>7, <1>8
  <1>11. (\A p \in Pages : Held(e, p) <= m.ref[p]) => r.bad = m.bad
    <2> SUFFICES ASSUME \A p \in Pages : Held(e, p) <= m.ref[p] PROVE r.bad = m.bad
      OBVIOUS
    <2>1. \A p \in Pages : ~(m.ref[p] < h[p])
      BY <1>8 DEF MemRec
    <2>2. b = m.bad
      BY <1>6, <2>1 DEF MemRec
    <2> QED
      BY <1>7, <2>2
  <1>12. /\ r.pde = [m.pde EXCEPT ![e] = [d \in Dirs |-> NoPage]]
         /\ r.pte = [m.pte EXCEPT ![e] = [va \in UserVas |-> IF va[1] \in Tables(e) THEN Invalid ELSE m.pte[e][va]]]
         /\ r.tlb = { x \in m.tlb : ~(x.asid = env_asid[e] /\ x.pair \in { Pair(va) : va \in Flushed(e) }) }
    BY <1>4, <1>7
  <1> QED
    BY <1>3, <1>5, <1>9, <1>10, <1>11, <1>12 DEF Freed

\* env_free: every entry of the env is of a page that its loop flushes, so that the
\* ASID can be given to another env.
LEMMA FreeTlbInv ==
    ASSUME TlbInv, NEW e \in Envs, env_free(e)
    PROVE  TlbInv'
  <1>1. /\ e \in Live /\ env_pgdir' = [env_pgdir EXCEPT ![e] = NoPage]
        /\ UNCHANGED <<env_asid, lost>>
        /\ orphans' = orphans \cup ({ pde[e][d] : d \in High } \ {NoPage})
    BY DEF env_free
  <1>2. PICK m : m = Mem
    OBVIOUS
  <1>3. TlbGood(m) /\ m \in MemRec
    BY <1>2 DEF TlbInv, TlbGood
  <1>4. PICK n : Freed(m, n, e) /\ Becomes(n)
    BY <1>2, <1>3, FreeFields
  <1>5. /\ Mem' \in MemRec /\ Mem'.pde = n.pde /\ Mem'.pte = n.pte /\ Mem'.tlb = n.tlb
    BY <1>4, BecomesFields DEF Freed
  <1>6. panic' \in {"none", "no_mem", "assert"}
    BY <1>4 DEF Becomes, TlbInv, EnvTypes
  <1>7. EnvTypes'
    <2>1. \A d \in High : pde[e][d] \in Pages \cup {NoPage}
      BY <1>2, <1>3, MemFacts, DirFacts DEF MemRec
    <2>2. orphans' \subseteq Pages
      BY <1>1, <2>1 DEF TlbInv, EnvTypes
    <2> QED
      BY <1>1, <1>6, <2>2 DEF TlbInv, EnvTypes
  <1>8. Live' = Live \ {e} /\ \A f \in Envs : f # e => env_pgdir'[f] = env_pgdir[f]
    BY <1>1 DEF Live, TlbInv, EnvTypes
  <1>9. AsidsApart'
    BY <1>1, <1>8 DEF TlbInv, AsidsApart
  <1>10. /\ \A d \in Dirs : n.pde[e][d] = NoPage
         /\ \A f \in Envs : f # e => n.pde[f] = m.pde[f] /\ n.pte[f] = m.pte[f]
         /\ \A va \in UserVas : n.pte[e][va] = IF va[1] \in Tables(e) THEN Invalid ELSE m.pte[e][va]
    BY <1>3, <1>4 DEF Freed, MemRec
  <1>11. IsFiniteSet(n.tlb) /\ Cardinality(n.tlb) <= NTLB
    <2>1. n.tlb \subseteq m.tlb
      BY <1>4 DEF Freed
    <2>2. IsFiniteSet(n.tlb) /\ Cardinality(n.tlb) <= Cardinality(m.tlb)
      BY <1>3, <2>1, FS_Subset DEF TlbGood
    <2>3. Cardinality(n.tlb) \in Nat /\ Cardinality(m.tlb) \in Nat
      BY <1>3, <2>2, FS_CardinalityType DEF TlbGood
    <2> QED
      BY <1>3, <2>2, <2>3, PmapAssumption DEF TlbGood
  <1>12. TablesBack(Mem)'
    <2>1. \A f \in Envs, va \in UserVas : n.pde[f][va[1]] = NoPage => n.pte[f][va].pp = NoPage
      <3> SUFFICES ASSUME NEW f \in Envs, NEW va \in UserVas, n.pde[f][va[1]] = NoPage
                   PROVE  n.pte[f][va].pp = NoPage
        OBVIOUS
      <3>1. CASE f # e
        BY <1>3, <1>10, <3>1 DEF TlbGood, TablesBack
      <3>2. CASE f = e /\ va[1] \in Tables(e)
        BY <1>10, <3>2 DEF Invalid
      <3>3. CASE f = e /\ va[1] \notin Tables(e)
        <4>1. m.pde[e][va[1]] = NoPage
          BY <1>2, <3>3, MemFacts DEF Tables, UserVas
        <4> QED
          BY <1>3, <1>10, <3>3, <4>1 DEF TlbGood, TablesBack
      <3> QED
        BY <3>1, <3>2, <3>3
    <2>2. \A f \in Envs \ Live' : \A d \in Dirs : n.pde[f][d] = NoPage
      BY <1>3, <1>8, <1>10 DEF TlbGood, TablesBack
    <2> QED
      BY <1>5, <2>1, <2>2 DEF TablesBack
  <1>13. Coherent(Mem)'
    <2> SUFFICES ASSUME NEW y \in n.tlb, NEW i \in 0..1, y.lo[i].pp # NoPage, ~Gone(y, i)'
                 PROVE  /\ Half(y, i) \in Vas
                        /\ \E f \in Live' : env_asid'[f] = y.asid /\ Lookup(Mem, f, Half(y, i))' = y.lo[i]
      <3>1. \A x \in n.tlb : \A j \in 0..1 : Gone(x, j) => Gone(x, j)'
        BY <1>1 DEF Gone, Outlives
      <3> QED
        BY <1>5, <3>1 DEF Coherent
    <2>1. /\ y \in m.tlb /\ y \in TlbEntry
          /\ ~(y.asid = env_asid[e] /\ y.pair \in { Pair(va) : va \in Flushed(e) })
      BY <1>3, <1>4 DEF Freed, MemRec
    <2>g. ~Gone(y, i)
      BY <1>1 DEF Gone, Outlives
    <2>2. PICK f \in Live : env_asid[f] = y.asid /\ Lookup(m, f, Half(y, i)) = y.lo[i]
      BY <1>3, <2>1, <2>g DEF TlbGood, Coherent
    <2>3. PICK h \in Vas : h = Half(y, i)
      BY <1>3, <2>1, <2>g DEF TlbGood, Coherent
    <2>4. Lookup(m, f, h).pp # NoPage /\ Pair(h) = y.pair /\ f \in Envs
      BY <2>1, <2>2, <2>3, PairOfHalf DEF Live
    <2>5. f # e
      <3> SUFFICES ASSUME f = e PROVE FALSE
        OBVIOUS
      <3>1. h \notin Flushed(e)
        BY <2>1, <2>2, <2>4
      <3>2. CASE h[1] = UVPT
        <4>1. h = <<UVPT, h[2]>> /\ h[2] \in Dirs \cup {UVPT}
          BY <3>2, VaFacts
        <4>2. h[2] # UVPT /\ h[2] \in Dirs /\ h[2] \notin Tables(e)
          BY <3>1, <4>1 DEF Flushed
        <4>3. m.pde[e][h[2]] # NoPage /\ y.lo[i] = [pp |-> m.pde[e][h[2]], d |-> FALSE]
          BY <2>2, <2>3, <2>4, <3>2, <4>2 DEF Lookup
        <4>4. h[2] \in High /\ m.pde = pde
          BY <1>2, <4>2, <4>3, MemFacts DEF Tables, Dirs
        <4>5. y.lo[i].pp \in orphans' /\ ~y.lo[i].d
          BY <1>1, <4>3, <4>4
        <4>6. Outlives(y.lo[i], h)'
          BY <3>2, <4>4, <4>5 DEF Outlives
        <4> QED
          BY <2>3, <4>6 DEF Gone
      <3>3. CASE h[1] # UVPT
        <4>1. h \in UserVas /\ h[1] \in UserDirs
          BY <3>3, VaFacts DEF UserVas
        <4>2. m.pde[e][h[1]] # NoPage /\ m.pte[e][h].pp # NoPage
          BY <2>4, <3>3 DEF Lookup, Invalid
        <4>3. h \in Mapped(e)
          BY <1>2, <4>1, <4>2, MemFacts DEF Mapped, Tables
        <4> QED
          BY <3>1, <4>3 DEF Flushed
      <3> QED
        BY <3>2, <3>3
    <2>6. Lookup(Mem, f, h)' = Lookup(m, f, h)
      <3>1. Mem'.pde[f] = m.pde[f] /\ Mem'.pte[f] = m.pte[f] /\ env_pgdir'[f] = env_pgdir[f]
        BY <1>5, <1>8, <1>10, <2>4, <2>5
      <3> QED
        BY <3>1, Zenon DEF Lookup
    <2> QED
      BY <1>1, <1>8, <2>2, <2>3, <2>5, <2>6
  <1> QED
    BY <1>5, <1>7, <1>9, <1>11, <1>12, <1>13 DEF TlbInv, TlbGood

\* The other handlers keep address spaces and ASIDs.
LEMMA PlainTlbInv ==
    ASSUME TlbInv, NEW n, TlbGood(n), Becomes(n), UNCHANGED <<env_pgdir, env_asid, orphans>>,
           lost' \subseteq Pages
    PROVE  TlbInv'
  <1>1. n \in MemRec
    BY DEF TlbGood
  <1>2. /\ Mem' \in MemRec /\ Mem'.pde = n.pde /\ Mem'.pte = n.pte /\ Mem'.tlb = n.tlb
    BY <1>1, BecomesFields
  <1>3. TlbGood(Mem)'
    BY <1>2, TlbGoodNext
  <1>4. panic' \in {"none", "no_mem", "assert"}
    BY DEF Becomes, TlbInv, EnvTypes
  <1>5. Live' = Live
    BY DEF Live
  <1> QED
    BY <1>3, <1>4, <1>5 DEF TlbInv, EnvTypes, AsidsApart

\* The refill: it flushes the pair before it reads the tables.
LEMMA RefillTlbInv ==
    ASSUME TlbInv, NEW e \in Envs, NEW va \in Vas, do_tlb_refill(e, va)
    PROVE  TlbInv'
  <1>1. e \in Live /\ UNCHANGED <<env_pgdir, env_asid, lost, orphans>>
    BY DEF do_tlb_refill
  <1>2. PICK m : m = tlb_invalidate(Mem, e, va)
    OBVIOUS
  <1>3. TlbGood(m) /\ TlbGood(Mem)
    <2>1. PICK k : k = Mem
      OBVIOUS
    <2>2. TlbGood(k)
      BY <2>1 DEF TlbInv
    <2> QED
      BY <1>2, <2>1, <2>2, TlbGoodFlush
  <1>4. CASE panic' = "no_mem" /\ UNCHANGED mem
    <2>1. Mem' = Mem
      BY <1>4 DEF mem, Mem
    <2>2. PICK k : k = Mem
      OBVIOUS
    <2>3. TlbGood(k) /\ k \in MemRec
      BY <1>3, <2>2 DEF TlbGood
    <2>4. TlbGood(Mem)'
      BY <1>1, <2>1, <2>2, <2>3, TlbGoodNext
    <2>5. Live' = Live
      BY <1>1 DEF Live
    <2> QED
      BY <1>1, <1>4, <2>4, <2>5 DEF TlbInv, EnvTypes, AsidsApart
  <1>5. ASSUME NEW n, TlbGood(n), NEW w \in tlbwr(n, Entry(n, e, va)), Becomes(w)
        PROVE  TlbInv'
    <2>1. TlbGood(w)
      BY <1>1, <1>5, TlbGoodWritten DEF TlbInv, EnvTypes
    <2>2. lost' \subseteq Pages
      BY <1>1 DEF TlbInv, EnvTypes
    <2> QED
      BY <1>1, <1>5, <2>1, <2>2, PlainTlbInv
  <1>6. CASE /\ Lookup(m, e, va).pp # NoPage
             /\ \E w \in tlbwr(m, Entry(m, e, va)) : Becomes(w)
    BY <1>3, <1>5, <1>6
  <1>7. CASE /\ Lookup(m, e, va).pp = NoPage
             /\ \E r \in passive_alloc(m, e, va) : \E w \in tlbwr(r.m, Entry(r.m, e, va)) : Becomes(w)
    <2>1. PICK r \in passive_alloc(m, e, va) : \E w \in tlbwr(r.m, Entry(r.m, e, va)) : Becomes(w)
      BY <1>7
    <2>2. TlbGood(r.m)
      BY <1>1, <1>3, <1>7, <2>1, TlbGoodPassive
    <2>3. PICK n : n = r.m
      OBVIOUS
    <2> QED
      BY <1>5, <2>1, <2>2, <2>3
  <1>8. \/ panic' = "no_mem" /\ UNCHANGED mem
        \/ /\ Lookup(m, e, va).pp # NoPage
           /\ \E w \in tlbwr(m, Entry(m, e, va)) : Becomes(w)
        \/ /\ Lookup(m, e, va).pp = NoPage
           /\ \E r \in passive_alloc(m, e, va) : \E w \in tlbwr(r.m, Entry(r.m, e, va)) : Becomes(w)
    <2>1. PICK o : /\ o = IF Lookup(m, e, va).pp # NoPage THEN {[ok |-> TRUE, m |-> m]}
                                                          ELSE passive_alloc(m, e, va)
                   /\ \/ \E r \in o : /\ r.ok
                                      /\ \E w \in tlbwr(r.m, Entry(r.m, e, va)) : Becomes(w)
                      \/ panic' = "no_mem" /\ UNCHANGED mem
      BY <1>2, Zenon DEF do_tlb_refill
    <2>2. CASE Lookup(m, e, va).pp # NoPage
      <3>1. o = {[ok |-> TRUE, m |-> m]}
        BY <2>1, <2>2
      <3>2. \A r \in o : r.m = m
        BY <3>1
      <3> QED
        BY <2>1, <2>2, <3>2
    <2>3. CASE Lookup(m, e, va).pp = NoPage
      BY <2>1, <2>3
    <2> QED
      BY <2>2, <2>3
  <1> QED
    BY <1>4, <1>6, <1>7, <1>8

\* Every step keeps the invariant.
THEOREM NextTlbInv == TlbInv /\ [Next]_vars => TlbInv'
  <1> SUFFICES ASSUME TlbInv, [Next]_vars PROVE TlbInv'
    OBVIOUS
  <1>1. PICK k : k = Mem
    OBVIOUS
  <1>2. TlbGood(k) /\ k \in MemRec /\ k.free = page_free_list
    BY <1>1, MemFacts DEF TlbInv, TlbGood
  <1>3. lost \subseteq Pages /\ page_free_list \subseteq Pages
    BY <1>2 DEF TlbInv, EnvTypes, MemRec
  <1>4. ASSUME NEW e \in Envs, env_alloc(e) PROVE TlbInv'
    BY <1>4, AllocTlbInv
  <1>5. ASSUME NEW e \in Envs, env_free(e) PROVE TlbInv'
    BY <1>5, FreeTlbInv
  <1>6. ASSUME NEW e \in Envs, NEW va \in UserVas, NEW d \in BOOLEAN, sys_mem_alloc(e, va, d)
        PROVE  TlbInv'
    <2>1. /\ e \in Live /\ UNCHANGED <<env_pgdir, env_asid, orphans>>
          /\ \E p \in page_free_list : \E r \in page_insert(page_alloc(k, p), e, p, va, d) :
               Becomes(r.m) /\ lost' = IF r.ok THEN lost ELSE lost \cup {p}
      BY <1>1, <1>6 DEF sys_mem_alloc
    <2>2. PICK p \in page_free_list : \E r \in page_insert(page_alloc(k, p), e, p, va, d) :
               Becomes(r.m) /\ lost' = IF r.ok THEN lost ELSE lost \cup {p}
      BY <2>1
    <2>3. PICK a : a = page_alloc(k, p)
      OBVIOUS
    <2>4. PICK r \in page_insert(a, e, p, va, d) :
               Becomes(r.m) /\ lost' = IF r.ok THEN lost ELSE lost \cup {p}
      BY <2>2, <2>3
    <2>5. TlbGood(a)
      <3>1. a \in MemRec /\ a.pde = k.pde /\ a.pte = k.pte /\ a.tlb = k.tlb
        BY <1>2, <2>3, AllocFields
      <3> QED
        BY <1>2, <3>1, TlbGoodSame
    <2>6. PICK n : n = r.m
      OBVIOUS
    <2>7. TlbGood(n)
      BY <1>3, <2>1, <2>4, <2>5, <2>6, TlbGoodInsert
    <2>8. lost' \subseteq Pages
      BY <1>3, <2>4
    <2> QED
      BY <2>1, <2>4, <2>6, <2>7, <2>8, PlainTlbInv
  <1>7. ASSUME NEW e \in Envs, NEW f \in Envs, NEW va \in UserVas, NEW vb \in UserVas, NEW d \in BOOLEAN,
               sys_mem_map(e, va, f, vb, d)
        PROVE  TlbInv'
    <2>1. PICK p : p = Lookup(k, e, va).pp
      OBVIOUS
    <2>2. /\ f \in Live /\ p # NoPage /\ UNCHANGED <<env_pgdir, env_asid, lost, orphans>>
          /\ \E r \in page_insert(k, f, p, vb, d) : Becomes(r.m)
      BY <1>1, <1>7, <2>1 DEF sys_mem_map
    <2>3. PICK r \in page_insert(k, f, p, vb, d) : Becomes(r.m)
      BY <2>2
    <2>4. p \in Pages
      BY <1>2, <2>1, <2>2, LookupUser DEF TlbGood
    <2>5. PICK n : n = r.m
      OBVIOUS
    <2>6. TlbGood(n)
      BY <1>2, <2>2, <2>3, <2>4, <2>5, TlbGoodInsert
    <2> QED
      BY <1>3, <2>2, <2>3, <2>5, <2>6, PlainTlbInv
  <1>8. ASSUME NEW e \in Envs, NEW va \in UserVas, sys_mem_unmap(e, va) PROVE TlbInv'
    <2>1. e \in Live /\ UNCHANGED <<env_pgdir, env_asid, lost, orphans>> /\ Becomes(page_remove(k, e, va))
      BY <1>1, <1>8 DEF sys_mem_unmap
    <2>2. PICK n : n = page_remove(k, e, va)
      OBVIOUS
    <2>3. TlbGood(n)
      BY <1>2, <2>1, <2>2, TlbGoodRemove
    <2> QED
      BY <1>3, <2>1, <2>2, <2>3, PlainTlbInv
  <1>9. ASSUME NEW e \in Envs, NEW va \in Vas, do_tlb_refill(e, va) PROVE TlbInv'
    BY <1>9, RefillTlbInv
  <1>10. CASE UNCHANGED vars
    <2>1. Mem' = Mem /\ UNCHANGED <<env_pgdir, env_asid, lost, orphans, panic>>
      BY <1>10 DEF vars, mem, Mem
    <2>2. TlbGood(Mem)'
      BY <1>1, <1>2, <2>1, TlbGoodNext
    <2>3. Live' = Live
      BY <2>1 DEF Live
    <2> QED
      BY <2>1, <2>2, <2>3 DEF TlbInv, EnvTypes, AsidsApart
  <1> QED
    BY <1>4, <1>5, <1>6, <1>7, <1>8, <1>9, <1>10 DEF Next

\* Tables, ASIDs and TLB agree in every reachable state.
THEOREM SpecTlbInv == Spec => []TlbInv
  <1> QED
    BY InitTlbInv, NextTlbInv, PTL DEF Spec

\* Every variable stays in its range and the TLB within its size, for any number of
\* pages, envs, ASIDs and entries.
THEOREM TypeCorrect == Spec => []TypeOK
  <1>1. TlbInv => TypeOK
    BY MemFacts, Zenon DEF TlbInv, EnvTypes, TlbGood, MemRec, TypeOK, Mem
  <1> QED
    BY <1>1, SpecTlbInv, PTL

\* No access goes through a mapping that was removed, remapped, made read-only, or
\* left by the previous owner of the ASID: tlb_invalidate is called often enough in
\* page_insert, page_remove and env_free.
THEOREM TlbIsCoherent == Spec => []TlbCoherent
  <1>1. TlbInv => TlbCoherent
    BY MemFacts DEF TlbInv, TlbGood, Coherent, Gone, Half, TlbCoherent
  <1> QED
    BY <1>1, SpecTlbInv, PTL

-----------------------------------------------------------------------------
(***************************************************************************)
(* Reference counts.  The pointers to a page, as sets of places, and how   *)
(* each routine moves them.                                                *)
(***************************************************************************)

PteAt(P, p) == { x \in Envs \X UserVas : P[x[1]][x[2]].pp = p }
PdeAt(D, p) == { x \in Envs \X Dirs : D[x[1]][x[2]] = p }
DirAt(p) == { e \in Envs : env_pgdir[e] = p }

\* What pp_ref of p should be when the memory state is m.
Refs(m, p) == Cardinality(PteAt(m.pte, p)) + Cardinality(PdeAt(m.pde, p))
                + Cardinality(DirAt(p)) + (IF p \in orphans THEN 1 ELSE 0)

\* The counts and the free list are exact, but for the pages L that were
\* allocated and have no reference (yet).
Counted(m, L) ==
    /\ \A p \in Pages : m.ref[p] = Refs(m, p)
    /\ m.free = { p \in Pages : m.ref[p] = 0 } \ L
    /\ L \subseteq Pages /\ \A p \in L : m.ref[p] = 0
    /\ m.bad = FALSE

\* p is no page table and no directory of an env.
NoDir(m, p) == \A f \in Envs : env_pgdir[f] # p /\ \A d \in Dirs : m.pde[f][d] # p

\* Nor is it one that an env left behind.
NoTable(m, p) == p \notin orphans /\ NoDir(m, p)

\* KindsApart, of the envs that are not live too.
Apart(m) ==
    /\ \A e, f \in Envs : \A d, c \in Dirs :
         m.pde[e][d] # NoPage /\ m.pde[e][d] = m.pde[f][c] => e = f /\ d = c
    /\ \A e, f \in Envs : env_pgdir[e] # NoPage /\ env_pgdir[e] = env_pgdir[f] => e = f
    /\ \A e, f \in Envs : \A d \in Dirs : m.pde[e][d] # NoPage => m.pde[e][d] # env_pgdir[f]
    /\ \A e \in Envs : \A va \in UserVas : m.pte[e][va].pp # NoPage => NoTable(m, m.pte[e][va].pp)
    /\ \A p \in orphans : NoDir(m, p)

RefsGood(m, L) == TlbGood(m) /\ Counted(m, L) /\ Apart(m)

\* Sets that differ in one element.
LEMMA MoveElement ==
    ASSUME NEW A, NEW B, NEW i, IsFiniteSet(A), IsFiniteSet(B), A \ {i} = B \ {i}
    PROVE  Cardinality(B) + (IF i \in A THEN 1 ELSE 0) = Cardinality(A) + (IF i \in B THEN 1 ELSE 0)
  <1>1. Cardinality(A) \in Nat /\ Cardinality(B) \in Nat
    BY FS_CardinalityType
  <1>2. i \in A => Cardinality(A \ {i}) = Cardinality(A) - 1
    BY FS_RemoveElement
  <1>3. i \in B => Cardinality(B \ {i}) = Cardinality(B) - 1
    BY FS_RemoveElement
  <1>4. (i \notin A => A \ {i} = A) /\ (i \notin B => B \ {i} = B)
    OBVIOUS
  <1>5. PICK k : k = Cardinality(A \ {i}) /\ k = Cardinality(B \ {i})
    OBVIOUS
  <1>6. Cardinality(A) = k + (IF i \in A THEN 1 ELSE 0)
    <2>1. CASE i \in A
      BY <1>1, <1>2, <1>5, <2>1
    <2>2. CASE i \notin A
      BY <1>1, <1>4, <1>5, <2>2
    <2> QED
      BY <2>1, <2>2
  <1>7. Cardinality(B) = k + (IF i \in B THEN 1 ELSE 0)
    <2>1. CASE i \in B
      BY <1>1, <1>3, <1>5, <2>1
    <2>2. CASE i \notin B
      BY <1>1, <1>4, <1>5, <2>2
    <2> QED
      BY <2>1, <2>2
  <1>8. k \in Nat
    BY <1>5, FS_RemoveElement, FS_CardinalityType
  <1> QED
    BY <1>6, <1>7, <1>8

\* The places are finitely many.
LEMMA PlacesFinite ==
    /\ IsFiniteSet(UserVas) /\ IsFiniteSet(Dirs)
    /\ IsFiniteSet(Envs \X UserVas) /\ IsFiniteSet(Envs \X Dirs)
  <1>1. IsFiniteSet(Dirs) /\ IsFiniteSet(UserDirs) /\ IsFiniteSet(0..(NPT - 1))
    BY DirFacts, FS_Interval, PmapAssumption
  <1>2. IsFiniteSet(UserVas)
    BY <1>1, FS_Product DEF UserVas
  <1> QED
    BY <1>1, <1>2, FS_Product, PmapAssumption

\* The pointers to a page are finitely many.
LEMMA AtFinite ==
    ASSUME NEW P, NEW D, NEW p
    PROVE  /\ IsFiniteSet(PteAt(P, p)) /\ IsFiniteSet(PdeAt(D, p)) /\ IsFiniteSet(DirAt(p))
           /\ Cardinality(PteAt(P, p)) \in Nat /\ Cardinality(PdeAt(D, p)) \in Nat
           /\ Cardinality(DirAt(p)) \in Nat
  <1>1. PteAt(P, p) \subseteq Envs \X UserVas /\ PdeAt(D, p) \subseteq Envs \X Dirs /\ DirAt(p) \subseteq Envs
    BY DEF PteAt, PdeAt, DirAt
  <1>2. IsFiniteSet(PteAt(P, p)) /\ IsFiniteSet(PdeAt(D, p)) /\ IsFiniteSet(DirAt(p))
    BY <1>1, PlacesFinite, PmapAssumption, FS_Subset
  <1> QED
    BY <1>2, FS_CardinalityType

\* A pointer counts.
LEMMA PointedAt ==
    ASSUME NEW m, NEW p
    PROVE  /\ Refs(m, p) \in Nat
           /\ (\E e \in Envs, va \in UserVas : m.pte[e][va].pp = p) => Refs(m, p) > 0
           /\ ~NoTable(m, p) => Refs(m, p) > 0
           /\ p \in orphans => Refs(m, p) > 0
  <1>1. PICK a, b, c, l : /\ a = Cardinality(PteAt(m.pte, p)) /\ b = Cardinality(PdeAt(m.pde, p))
                       /\ c = Cardinality(DirAt(p)) /\ l = IF p \in orphans THEN 1 ELSE 0
    OBVIOUS
  <1>2. a \in Nat /\ b \in Nat /\ c \in Nat /\ l \in Nat /\ Refs(m, p) = a + b + c + l
    BY <1>1, AtFinite DEF Refs
  <1>3. ASSUME NEW e \in Envs, NEW va \in UserVas, m.pte[e][va].pp = p PROVE a > 0
    <2>1. <<e, va>> \in PteAt(m.pte, p)
      BY <1>3 DEF PteAt
    <2>2. a # 0
      BY <1>1, <2>1, AtFinite, FS_EmptySet
    <2> QED
      BY <1>2, <2>2
  <1>4. ASSUME NEW e \in Envs, NEW d \in Dirs, m.pde[e][d] = p PROVE b > 0
    <2>1. <<e, d>> \in PdeAt(m.pde, p)
      BY <1>4 DEF PdeAt
    <2>2. b # 0
      BY <1>1, <2>1, AtFinite, FS_EmptySet
    <2> QED
      BY <1>2, <2>2
  <1>5. ASSUME NEW e \in Envs, env_pgdir[e] = p PROVE c > 0
    <2>1. e \in DirAt(p)
      BY <1>5 DEF DirAt
    <2>2. c # 0
      BY <1>1, <2>1, AtFinite, FS_EmptySet
    <2> QED
      BY <1>2, <2>2
  <1>6. p \in orphans => l = 1
    BY <1>1
  <1>7. ~NoTable(m, p) => b > 0 \/ c > 0 \/ l = 1
    BY <1>4, <1>5, <1>6 DEF NoTable, NoDir
  <1> QED
    BY <1>2, <1>3, <1>6, <1>7

\* What the counts rest on.
LEMMA RefsSame ==
    ASSUME NEW m, NEW n, n.pte = m.pte, n.pde = m.pde, NEW p
    PROVE  Refs(n, p) = Refs(m, p)
  BY DEF Refs

\* Storing a pte moves one pointer.
LEMMA RefsPut ==
    ASSUME NEW m \in MemRec, NEW e \in Envs, NEW va \in UserVas, NEW x \in Pte,
           NEW n, n = Put(m, e, va, x), NEW p
    PROVE  Refs(n, p) + (IF m.pte[e][va].pp = p THEN 1 ELSE 0) = Refs(m, p) + (IF x.pp = p THEN 1 ELSE 0)
  <1>1. /\ n.pde = m.pde
        /\ n.pte = [m.pte EXCEPT ![e] = [m.pte[e] EXCEPT ![va] = x]]
    BY PutFields
  <1>2. /\ n.pte[e][va] = x
        /\ \A f \in Envs : \A u \in UserVas : f # e \/ u # va => n.pte[f][u] = m.pte[f][u]
    BY <1>1 DEF MemRec
  <1>3. PICK A, B : A = PteAt(m.pte, p) /\ B = PteAt(n.pte, p)
    OBVIOUS
  <1>4. (<<e, va>> \in A <=> m.pte[e][va].pp = p) /\ (<<e, va>> \in B <=> x.pp = p)
    BY <1>2, <1>3 DEF PteAt
  <1>5. A \ {<<e, va>>} = B \ {<<e, va>>}
    <2>1. ASSUME NEW y \in Envs \X UserVas, y # <<e, va>> PROVE n.pte[y[1]][y[2]] = m.pte[y[1]][y[2]]
      BY <1>2, <2>1
    <2> QED
      BY <1>3, <2>1 DEF PteAt
  <1>6. Cardinality(B) + (IF m.pte[e][va].pp = p THEN 1 ELSE 0) = Cardinality(A) + (IF x.pp = p THEN 1 ELSE 0)
    BY <1>3, <1>4, <1>5, MoveElement, AtFinite
  <1>7. PICK b, c, l : /\ b = Cardinality(PdeAt(m.pde, p))
                       /\ c = Cardinality(DirAt(p)) /\ l = IF p \in orphans THEN 1 ELSE 0
    OBVIOUS
  <1>8. /\ b \in Nat /\ c \in Nat /\ l \in Nat /\ Cardinality(A) \in Nat /\ Cardinality(B) \in Nat
        /\ Refs(m, p) = Cardinality(A) + b + c + l /\ Refs(n, p) = Cardinality(B) + b + c + l
    BY <1>1, <1>3, <1>7, AtFinite DEF Refs
  <1> QED
    BY <1>6, <1>8

\* A new table is one pointer more, to the page of the table.
LEMMA RefsNewTable ==
    ASSUME NEW m \in MemRec, NEW e \in Envs, NEW d \in Dirs, NEW q \in Pages, TablesBack(m),
           m.pde[e][d] = NoPage, NEW n, Tabled(m, n, e, d, q), NEW p \in Pages
    PROVE  Refs(n, p) = Refs(m, p) + (IF p = q THEN 1 ELSE 0)
  <1>1. /\ n.pde[e][d] = q
        /\ \A f \in Envs : \A c \in Dirs : f # e \/ c # d => n.pde[f][c] = m.pde[f][c]
    BY DEF MemRec, Tabled
  <1>2. /\ \A u \in UserVas : u[1] = d => n.pte[e][u] = Invalid
        /\ \A f \in Envs : \A u \in UserVas : f # e \/ u[1] # d => n.pte[f][u] = m.pte[f][u]
    BY DEF MemRec, Tabled
  <1>3. PteAt(n.pte, p) = PteAt(m.pte, p)
    <2>1. ASSUME NEW f \in Envs, NEW u \in UserVas PROVE n.pte[f][u].pp = m.pte[f][u].pp
      BY <1>2 DEF TablesBack, Invalid
    <2>2. ASSUME NEW y \in Envs \X UserVas PROVE n.pte[y[1]][y[2]].pp = m.pte[y[1]][y[2]].pp
      BY <2>1
    <2> QED
      BY <2>2 DEF PteAt
  <1>4. PICK A, B : A = PdeAt(m.pde, p) /\ B = PdeAt(n.pde, p)
    OBVIOUS
  <1>5. <<e, d>> \notin A /\ (<<e, d>> \in B <=> p = q)
    BY <1>1, <1>4, PmapAssumption DEF PdeAt
  <1>6. A \ {<<e, d>>} = B \ {<<e, d>>}
    <2>1. ASSUME NEW y \in Envs \X Dirs, y # <<e, d>> PROVE n.pde[y[1]][y[2]] = m.pde[y[1]][y[2]]
      BY <1>1, <2>1
    <2> QED
      BY <1>4, <2>1 DEF PdeAt
  <1>7. Cardinality(B) = Cardinality(A) + (IF p = q THEN 1 ELSE 0)
    <2>1. Cardinality(B) + (IF <<e, d>> \in A THEN 1 ELSE 0) = Cardinality(A) + (IF <<e, d>> \in B THEN 1 ELSE 0)
      BY <1>4, <1>6, MoveElement, AtFinite
    <2>2. Cardinality(A) \in Nat /\ Cardinality(B) \in Nat
      BY <1>4, AtFinite
    <2> QED
      BY <1>5, <2>1, <2>2
  <1>8. PICK a, c, l : /\ a = Cardinality(PteAt(m.pte, p))
                       /\ c = Cardinality(DirAt(p)) /\ l = IF p \in orphans THEN 1 ELSE 0
    OBVIOUS
  <1>9. /\ a \in Nat /\ c \in Nat /\ l \in Nat /\ Cardinality(A) \in Nat /\ Cardinality(B) \in Nat
        /\ Refs(m, p) = a + Cardinality(A) + c + l /\ Refs(n, p) = a + Cardinality(B) + c + l
    BY <1>3, <1>4, <1>8, AtFinite DEF Refs
  <1> QED
    BY <1>7, <1>9

\* A page without references has no pointers.
LEMMA UnusedPage ==
    ASSUME NEW m, NEW L, Counted(m, L), NEW p \in Pages, m.ref[p] = 0
    PROVE  /\ NoTable(m, p) /\ p \notin orphans
           /\ \A e \in Envs, va \in UserVas : m.pte[e][va].pp # p
  BY PointedAt DEF Counted

\* The counts do not depend on the TLB.
LEMMA RefsGoodSame ==
    ASSUME NEW m, NEW L, RefsGood(m, L), NEW n, TlbGood(n), n.ref = m.ref, n.free = m.free,
           n.pde = m.pde, n.pte = m.pte, n.bad = m.bad
    PROVE  RefsGood(n, L)
  <1>1. Counted(n, L)
    BY RefsSame DEF RefsGood, Counted
  <1>2. Apart(n)
    BY DEF RefsGood, Apart, NoTable, NoDir
  <1> QED
    BY <1>1, <1>2 DEF RefsGood

\* A flush keeps the counts.
LEMMA RefsGoodFlush ==
    ASSUME NEW m, NEW L, RefsGood(m, L), NEW e, NEW va, NEW n, n = tlb_invalidate(m, e, va)
    PROVE  RefsGood(n, L)
  <1>1. m \in MemRec /\ TlbGood(m)
    BY DEF RefsGood, TlbGood
  <1>2. TlbGood(n)
    BY <1>1, TlbGoodFlush
  <1>3. n.ref = m.ref /\ n.free = m.free /\ n.pde = m.pde /\ n.pte = m.pte /\ n.bad = m.bad
    BY <1>1, FlushFields
  <1> QED
    BY <1>2, <1>3, RefsGoodSame

\* Kinds stay apart when a pte comes to name a page that is no table.
LEMMA ApartPut ==
    ASSUME NEW m \in MemRec, Apart(m), NEW n, n.pde = m.pde, NEW e \in Envs, NEW va \in UserVas,
           \A f \in Envs : \A u \in UserVas : f # e \/ u # va => n.pte[f][u] = m.pte[f][u],
           n.pte[e][va].pp # NoPage => NoTable(m, n.pte[e][va].pp)
    PROVE  Apart(n)
  <1>1. \A p : (NoTable(m, p) => NoTable(n, p)) /\ (NoDir(m, p) => NoDir(n, p))
    BY DEF NoTable, NoDir
  <1>2. ASSUME NEW f \in Envs, NEW u \in UserVas, n.pte[f][u].pp # NoPage
        PROVE  NoTable(n, n.pte[f][u].pp)
    <2>1. CASE f = e /\ u = va
      BY <1>1, <1>2, <2>1
    <2>2. CASE f # e \/ u # va
      <3>1. n.pte[f][u] = m.pte[f][u]
        BY <2>2
      <3>2. NoTable(m, m.pte[f][u].pp)
        BY <1>2, <3>1 DEF Apart
      <3> QED
        BY <1>1, <3>1, <3>2
    <2> QED
      BY <2>1, <2>2
  <1> QED
    BY <1>1, <1>2 DEF Apart

\* page_remove gives up one reference and one pointer; its assertion holds.
LEMMA RefsGoodRemove ==
    ASSUME NEW m, NEW L, RefsGood(m, L), NEW e \in Live, NEW va \in UserVas, NEW p \in Pages,
           m.pte[e][va].pp = p, NEW n, n = page_remove(m, e, va)
    PROVE  RefsGood(n, L) /\ n.pde = m.pde /\ n.pte[e][va].pp = NoPage /\ n.free \subseteq m.free \cup {p}
  <1>1. m \in MemRec /\ TablesBack(m) /\ TlbGood(m) /\ e \in Envs /\ Counted(m, L)
    BY DEF RefsGood, TlbGood, Live
  <1>2. TlbGood(n)
    BY <1>1, TlbGoodRemove
  <1>3. PICK a : a = page_decref(m, p)
    OBVIOUS
  <1>4. PICK b : b = tlb_invalidate(a, e, va)
    OBVIOUS
  <1>5. n = Put(b, e, va, Invalid)
    BY <1>1, <1>3, <1>4, RemoveIs
  <1>6. m.ref[p] > 0 /\ m.ref[p] \in Nat
    BY <1>1, PointedAt DEF Counted
  <1>7. Decreffed(m, a, p)
    BY <1>1, <1>3, DecrefFields
  <1>8. /\ a \in MemRec /\ a.pde = m.pde /\ a.pte = m.pte
        /\ a.ref = [m.ref EXCEPT ![p] = m.ref[p] - 1]
        /\ a.free = IF m.ref[p] = 1 THEN m.free \cup {p} ELSE m.free
        /\ a.bad = m.bad
    BY <1>6, <1>7 DEF Decreffed
  <1>9. /\ b \in MemRec /\ b.ref = a.ref /\ b.free = a.free /\ b.pde = a.pde /\ b.pte = a.pte /\ b.bad = a.bad
    BY <1>4, <1>8, FlushFields
  <1>10. Invalid \in Pte /\ Invalid.pp = NoPage
    BY DEF Invalid, Pte
  <1>11. /\ n.pte = [b.pte EXCEPT ![e] = [b.pte[e] EXCEPT ![va] = Invalid]]
         /\ n.ref = b.ref /\ n.free = b.free /\ n.pde = b.pde /\ n.bad = b.bad
    BY <1>1, <1>5, <1>9, <1>10, PutFields
  <1>12. /\ n.pte[e][va] = Invalid
         /\ \A f \in Envs : \A u \in UserVas : f # e \/ u # va => n.pte[f][u] = m.pte[f][u]
    BY <1>1, <1>8, <1>9, <1>11 DEF MemRec
  <1>13. \A q \in Pages : n.ref[q] = IF q = p THEN m.ref[q] - 1 ELSE m.ref[q]
    BY <1>1, <1>8, <1>9, <1>11 DEF MemRec
  <1>14. n.free = IF m.ref[p] = 1 THEN m.free \cup {p} ELSE m.free
    BY <1>8, <1>9, <1>11
  <1>15. ASSUME NEW q \in Pages PROVE n.ref[q] = Refs(n, q)
    <2>1. Refs(n, q) + (IF b.pte[e][va].pp = q THEN 1 ELSE 0) = Refs(b, q) + (IF Invalid.pp = q THEN 1 ELSE 0)
      BY <1>1, <1>5, <1>9, <1>10, RefsPut
    <2>2. Refs(b, q) = Refs(m, q) /\ b.pte[e][va].pp = p /\ q # NoPage
      BY <1>8, <1>9, RefsSame, PmapAssumption
    <2>3. Refs(n, q) \in Nat /\ Refs(m, q) \in Nat
      BY PointedAt
    <2>4. m.ref[q] = Refs(m, q)
      BY <1>1 DEF Counted
    <2> QED
      BY <1>10, <1>13, <2>1, <2>2, <2>3, <2>4
  <1>16. n.free = { q \in Pages : n.ref[q] = 0 } \ L
    <2>1. m.free = { q \in Pages : m.ref[q] = 0 } \ L /\ p \notin L
      BY <1>1, <1>6 DEF Counted
    <2> QED
      BY <1>6, <1>13, <1>14, <2>1
  <1>17. Counted(n, L)
    <2>1. n.bad = FALSE
      BY <1>1, <1>8, <1>9, <1>11 DEF Counted
    <2>2. L \subseteq Pages /\ \A q \in L : n.ref[q] = 0
      BY <1>1, <1>6, <1>13 DEF Counted
    <2> QED
      BY <1>15, <1>16, <2>1, <2>2 DEF Counted
  <1>18. n.pde = m.pde
    BY <1>8, <1>9, <1>11
  <1>19. Apart(n)
    BY <1>1, <1>10, <1>12, <1>18, ApartPut DEF RefsGood
  <1> QED
    BY <1>2, <1>10, <1>12, <1>14, <1>17, <1>18, <1>19 DEF RefsGood

\* page_insert without the old mapping: the page to be mapped is not freed by it.
LEMMA RefsGoodReleased ==
    ASSUME NEW m, NEW L, RefsGood(m, L), NEW e \in Live, NEW va \in UserVas, NEW p \in Pages,
           NEW s, s = Released(m, e, p, va)
    PROVE  /\ RefsGood(s, L) /\ Quiet(s, e, va) /\ s.pde = m.pde
           /\ m.pte[e][va].pp = p => s.pte[e][va].pp = p
           /\ m.pte[e][va].pp # p => s.pte[e][va].pp = NoPage /\ (p \notin m.free => p \notin s.free)
  <1>1. m \in MemRec /\ TablesBack(m) /\ TlbGood(m) /\ e \in Envs
    BY DEF RefsGood, TlbGood, Live
  <1>2. PICK o : o = m.pte[e][va].pp /\ o = Lookup(m, e, va).pp /\ o \in Pages \cup {NoPage}
    BY <1>1, LookupUser
  <1>3. PICK n : n = IF o \in {NoPage, p} THEN m ELSE page_remove(m, e, va)
    OBVIOUS
  <1>4. s = tlb_invalidate(n, e, va)
    BY <1>2, <1>3 DEF Released
  <1>5. CASE o \in {NoPage, p}
    <2>1. n = m
      BY <1>3, <1>5
    <2>2. s.pde = m.pde /\ s.pte = m.pte /\ s.free = m.free
      BY <1>1, <1>4, <2>1, FlushFields
    <2> QED
      BY <1>1, <1>2, <1>4, <1>5, <2>1, <2>2, RefsGoodFlush, TlbGoodFlush
  <1>6. CASE o \notin {NoPage, p}
    <2>1. n = page_remove(m, e, va) /\ o \in Pages
      BY <1>2, <1>3, <1>6
    <2>0. m.pte[e][va].pp = o
      BY <1>2
    <2>2. RefsGood(n, L) /\ n.pde = m.pde /\ n.pte[e][va].pp = NoPage /\ n.free \subseteq m.free \cup {o}
      BY <2>0, <2>1, RefsGoodRemove
    <2>3. s.pde = n.pde /\ s.pte = n.pte /\ s.free = n.free
      BY <1>4, <2>2, FlushFields DEF RefsGood, TlbGood
    <2>4. RefsGood(s, L) /\ Quiet(s, e, va)
      BY <1>4, <2>2, RefsGoodFlush, TlbGoodFlush DEF RefsGood
    <2> QED
      BY <1>2, <1>6, <2>2, <2>3, <2>4
  <1> QED
    BY <1>5, <1>6

\* The page of a new pte is counted.
LEMMA RefsGoodPutIncref ==
    ASSUME NEW s, NEW L, RefsGood(s, L), NEW e \in Live, NEW va \in UserVas, NEW p \in Pages,
           NEW x \in Pte, x.pp = p, Quiet(s, e, va), s.pde[e][va[1]] # NoPage,
           s.pte[e][va].pp = NoPage, p \notin s.free, NoTable(s, p),
           NEW n, n = Put(incref(s, p), e, va, x), Refs(n, p) < REFS
    PROVE  RefsGood(n, L \ {p})
  <1>1. s \in MemRec /\ TlbGood(s) /\ e \in Envs /\ Counted(s, L) /\ Apart(s)
    BY DEF RefsGood, TlbGood, Live
  <1>2. PICK a : a = incref(s, p)
    OBVIOUS
  <1>3. TlbGood(a) /\ Quiet(a, e, va) /\ a.pde = s.pde /\ n = Put(a, e, va, x)
    BY <1>1, <1>2, TlbGoodIncref
  <1>4. TlbGood(n)
    BY <1>3, TlbGoodPut
  <1>5. /\ a \in MemRec /\ a.ref = [s.ref EXCEPT ![p] = (s.ref[p] + 1) % REFS]
        /\ a.free = s.free /\ a.pte = s.pte /\ a.bad = s.bad
    <2>1. Increffed(s, a, p)
      BY <1>1, <1>2, IncrefFields
    <2> QED
      BY <2>1 DEF Increffed
  <1>6. /\ n.pte = [a.pte EXCEPT ![e] = [a.pte[e] EXCEPT ![va] = x]]
        /\ n.ref = a.ref /\ n.free = a.free /\ n.pde = a.pde /\ n.bad = a.bad
    BY <1>1, <1>3, <1>5, PutFields
  <1>7. /\ n.pte[e][va] = x
        /\ \A f \in Envs : \A u \in UserVas : f # e \/ u # va => n.pte[f][u] = s.pte[f][u]
    BY <1>1, <1>5, <1>6 DEF MemRec
  <1>8. ASSUME NEW q \in Pages PROVE Refs(n, q) = s.ref[q] + (IF q = p THEN 1 ELSE 0) /\ s.ref[q] \in Nat
    <2>1. Refs(n, q) + (IF a.pte[e][va].pp = q THEN 1 ELSE 0) = Refs(a, q) + (IF x.pp = q THEN 1 ELSE 0)
      BY <1>1, <1>3, <1>5, RefsPut
    <2>2. Refs(a, q) = Refs(s, q) /\ a.pte[e][va].pp = NoPage /\ q # NoPage
      BY <1>3, <1>5, RefsSame, PmapAssumption
    <2>3. Refs(n, q) \in Nat /\ Refs(s, q) \in Nat
      BY PointedAt
    <2>4. s.ref[q] = Refs(s, q)
      BY <1>1 DEF Counted
    <2> QED
      BY <2>1, <2>2, <2>3, <2>4
  <1>9. (s.ref[p] + 1) % REFS = s.ref[p] + 1
    BY <1>8, PmapAssumption
  <1>10. \A q \in Pages : n.ref[q] = IF q = p THEN s.ref[q] + 1 ELSE s.ref[q]
    BY <1>1, <1>5, <1>6, <1>9 DEF MemRec
  <1>11. n.free = { q \in Pages : n.ref[q] = 0 } \ (L \ {p})
    <2>1. s.free = { q \in Pages : s.ref[q] = 0 } \ L
      BY <1>1 DEF Counted
    <2>2. n.free = s.free
      BY <1>5, <1>6
    <2> QED
      BY <1>8, <1>10, <2>1, <2>2
  <1>12. Counted(n, L \ {p})
    <2>1. n.bad = FALSE
      BY <1>1, <1>5, <1>6 DEF Counted
    <2>2. L \ {p} \subseteq Pages /\ \A q \in L \ {p} : n.ref[q] = 0
      BY <1>1, <1>10 DEF Counted
    <2>3. \A q \in Pages : n.ref[q] = Refs(n, q)
      BY <1>8, <1>10
    <2> QED
      BY <1>11, <2>1, <2>2, <2>3 DEF Counted
  <1>13. Apart(n)
    <2>1. n.pde = s.pde /\ NoTable(s, n.pte[e][va].pp)
      BY <1>3, <1>6, <1>7
    <2> QED
      BY <1>1, <1>7, <2>1, ApartPut
  <1> QED
    BY <1>4, <1>12, <1>13 DEF RefsGood

\* A new permission for the page that is there.
LEMMA RefsGoodPutSame ==
    ASSUME NEW s, NEW L, RefsGood(s, L), NEW e \in Live, NEW va \in UserVas,
           NEW x \in Pte, s.pte[e][va].pp = x.pp, x.pp # NoPage, Quiet(s, e, va),
           NEW n, n = Put(s, e, va, x)
    PROVE  RefsGood(n, L)
  <1>1. s \in MemRec /\ TlbGood(s) /\ e \in Envs /\ Counted(s, L) /\ Apart(s)
    BY DEF RefsGood, TlbGood, Live
  <1>2. s.pde[e][va[1]] # NoPage
    BY <1>1 DEF TlbGood, TablesBack
  <1>3. TlbGood(n)
    BY <1>1, <1>2, TlbGoodPut
  <1>4. /\ n.pte = [s.pte EXCEPT ![e] = [s.pte[e] EXCEPT ![va] = x]]
        /\ n.ref = s.ref /\ n.free = s.free /\ n.pde = s.pde /\ n.bad = s.bad
    BY <1>1, PutFields
  <1>5. /\ n.pte[e][va] = x
        /\ \A f \in Envs : \A u \in UserVas : f # e \/ u # va => n.pte[f][u] = s.pte[f][u]
    BY <1>1, <1>4 DEF MemRec
  <1>6. ASSUME NEW q \in Pages PROVE Refs(n, q) = Refs(s, q)
    <2>1. Refs(n, q) + (IF s.pte[e][va].pp = q THEN 1 ELSE 0) = Refs(s, q) + (IF x.pp = q THEN 1 ELSE 0)
      BY <1>1, RefsPut
    <2>2. Refs(n, q) \in Nat /\ Refs(s, q) \in Nat
      BY PointedAt
    <2> QED
      BY <2>1, <2>2
  <1>7. Counted(n, L)
    BY <1>1, <1>4, <1>6 DEF Counted
  <1>8. NoTable(s, x.pp)
    BY <1>1 DEF Apart
  <1>9. Apart(n)
    <2>1. n.pde = s.pde /\ NoTable(s, n.pte[e][va].pp)
      BY <1>4, <1>5, <1>8
    <2> QED
      BY <1>1, <1>5, <2>1, ApartPut
  <1> QED
    BY <1>3, <1>7, <1>9 DEF RefsGood

\* A free page becomes a page table.
LEMMA RefsGoodNewTable ==
    ASSUME NEW s, NEW L, RefsGood(s, L), NEW e \in Live, NEW d \in Dirs, s.pde[e][d] = NoPage,
           NEW q \in s.free, NEW n, n = NewTable(s, e, d, q)
    PROVE  /\ RefsGood(n, L) /\ q \in Pages /\ n.pde[e][d] = q /\ n.tlb = s.tlb
           /\ n.free = s.free \ {q}
           /\ \A va \in UserVas : va[1] = d => n.pte[e][va].pp = NoPage
           /\ \A p : p # q /\ NoTable(s, p) => NoTable(n, p)
  <1>1. s \in MemRec /\ TlbGood(s) /\ e \in Envs /\ Counted(s, L) /\ Apart(s) /\ TablesBack(s)
    BY DEF RefsGood, TlbGood, Live
  <1>2. q \in Pages /\ s.ref[q] = 0 /\ q \notin L
    BY <1>1 DEF Counted
  <1>3. Tabled(s, n, e, d, q)
    BY <1>1, <1>2, NewTableFields
  <1>4. TlbGood(n)
    BY <1>1, <1>2, TlbGoodNewTable
  <1>5. /\ n.pde[e][d] = q
        /\ \A f \in Envs : \A c \in Dirs : f # e \/ c # d => n.pde[f][c] = s.pde[f][c]
    BY <1>1, <1>3 DEF MemRec, Tabled
  <1>6. /\ \A u \in UserVas : u[1] = d => n.pte[e][u] = Invalid
        /\ \A f \in Envs : \A u \in UserVas : f # e \/ u[1] # d => n.pte[f][u] = s.pte[f][u]
    BY <1>1, <1>3 DEF MemRec, Tabled
  <1>7. (s.ref[q] + 1) % REFS = 1
    BY <1>2, PmapAssumption
  <1>8. \A p \in Pages : n.ref[p] = IF p = q THEN 1 ELSE s.ref[p]
    BY <1>1, <1>2, <1>3, <1>7 DEF Tabled, MemRec
  <1>9. n.free = s.free \ {q} /\ n.bad = s.bad /\ n.tlb = s.tlb
    BY <1>3 DEF Tabled
  <1>10. \A p \in Pages : n.ref[p] = Refs(n, p)
    <2> SUFFICES ASSUME NEW p \in Pages PROVE n.ref[p] = Refs(n, p)
      OBVIOUS
    <2>1. Refs(n, p) = Refs(s, p) + (IF p = q THEN 1 ELSE 0)
      BY <1>1, <1>2, <1>3, RefsNewTable
    <2>2. s.ref[p] = Refs(s, p) /\ Refs(s, p) \in Nat
      BY <1>1, PointedAt DEF Counted
    <2> QED
      BY <1>2, <1>8, <2>1, <2>2
  <1>11. Counted(n, L)
    <2>1. s.free = { p \in Pages : s.ref[p] = 0 } \ L
      BY <1>1 DEF Counted
    <2>2. n.free = { p \in Pages : n.ref[p] = 0 } \ L
      BY <1>8, <1>9, <2>1
    <2>3. L \subseteq Pages /\ \A p \in L : n.ref[p] = 0
      BY <1>1, <1>2, <1>8 DEF Counted
    <2>4. n.bad = FALSE
      BY <1>1, <1>9 DEF Counted
    <2> QED
      BY <1>10, <2>2, <2>3, <2>4 DEF Counted
  <1>12. \A p : p # q => (NoTable(s, p) => NoTable(n, p)) /\ (NoDir(s, p) => NoDir(n, p))
    BY <1>5 DEF NoTable, NoDir
  <1>13. NoTable(s, q) /\ \A f \in Envs, u \in UserVas : s.pte[f][u].pp # q
    BY <1>1, <1>2, UnusedPage
  <1>14. Apart(n)
    <2>1. ASSUME NEW f \in Envs, NEW g \in Envs, NEW b \in Dirs, NEW c \in Dirs,
                 n.pde[f][b] # NoPage, n.pde[f][b] = n.pde[g][c]
          PROVE  f = g /\ b = c
      BY <1>1, <1>5, <1>13, <2>1 DEF Apart, NoTable, NoDir
    <2>2. ASSUME NEW f \in Envs, NEW g \in Envs, NEW b \in Dirs, n.pde[f][b] # NoPage
          PROVE  n.pde[f][b] # env_pgdir[g]
      BY <1>1, <1>5, <1>13, <2>2 DEF Apart, NoTable, NoDir
    <2>3. ASSUME NEW f \in Envs, NEW u \in UserVas, n.pte[f][u].pp # NoPage
          PROVE  NoTable(n, n.pte[f][u].pp)
      <3>1. n.pte[f][u] = s.pte[f][u]
        BY <1>6, <2>3 DEF Invalid
      <3>2. NoTable(s, s.pte[f][u].pp) /\ s.pte[f][u].pp # q
        BY <1>1, <1>13, <2>3, <3>1 DEF Apart
      <3> QED
        BY <1>12, <3>1, <3>2
    <2>4. \A f, g \in Envs : env_pgdir[f] # NoPage /\ env_pgdir[f] = env_pgdir[g] => f = g
      BY <1>1 DEF Apart
    <2>5. \A p \in orphans : NoDir(n, p)
      BY <1>1, <1>12, <1>13 DEF Apart, NoTable
    <2> QED
      BY <2>1, <2>2, <2>3, <2>4, <2>5 DEF Apart
  <1> QED
    BY <1>2, <1>4, <1>5, <1>6, <1>9, <1>11, <1>12, <1>14 DEF RefsGood, Invalid

\* page_alloc takes a page that nothing points to; until it is mapped it is
\* neither free nor counted.
LEMMA RefsGoodAlloc ==
    ASSUME NEW m, NEW L, RefsGood(m, L), NEW p \in m.free, NEW n, n = page_alloc(m, p)
    PROVE  RefsGood(n, L \cup {p}) /\ p \in Pages /\ p \notin L /\ p \notin n.free /\ NoTable(n, p)
  <1>1. m \in MemRec /\ TlbGood(m) /\ Counted(m, L) /\ Apart(m)
    BY DEF RefsGood, TlbGood
  <1>2. p \in Pages /\ m.ref[p] = 0 /\ p \notin L
    BY <1>1 DEF Counted
  <1>3. /\ n \in MemRec /\ n.ref = m.ref /\ n.free = m.free \ {p} /\ n.pde = m.pde /\ n.pte = m.pte
        /\ n.tlb = m.tlb /\ n.bad = m.bad
    BY <1>1, AllocFields
  <1>4. TlbGood(n)
    BY <1>1, <1>3, TlbGoodSame
  <1>5. \A q \in Pages : Refs(n, q) = Refs(m, q)
    BY <1>3, RefsSame
  <1>6. n.free = { q \in Pages : n.ref[q] = 0 } \ (L \cup {p})
    BY <1>1, <1>3 DEF Counted
  <1>7. Counted(n, L \cup {p})
    BY <1>1, <1>2, <1>3, <1>5, <1>6 DEF Counted
  <1>8. Apart(n)
    BY <1>1, <1>3 DEF Apart, NoTable, NoDir
  <1>9. NoTable(m, p)
    BY <1>1, <1>2, UnusedPage
  <1> QED
    BY <1>2, <1>3, <1>4, <1>7, <1>8, <1>9 DEF RefsGood, NoTable, NoDir

\* page_insert keeps the counts exact, and counts the page it maps; when it
\* fails, nothing points to the page yet.
LEMMA RefsGoodInsert ==
    ASSUME NEW m, NEW L, RefsGood(m, L), NEW e \in Live, NEW va \in UserVas, NEW p \in Pages,
           NEW d \in BOOLEAN, p \notin m.free, NoTable(m, p), NEW r \in page_insert(m, e, p, va, d),
           Refs(r.m, p) < REFS
    PROVE  RefsGood(r.m, IF r.ok THEN L \ {p} ELSE L)
  <1>1. m \in MemRec /\ TablesBack(m) /\ e \in Envs /\ p # NoPage /\ Counted(m, L)
    BY PmapAssumption DEF RefsGood, TlbGood, Live
  <1>2. Lookup(m, e, va).pp = m.pte[e][va].pp
    BY <1>1, LookupUser
  <1>3. PICK s : s = Released(m, e, p, va)
    OBVIOUS
  <1>4. /\ RefsGood(s, L) /\ Quiet(s, e, va) /\ s.pde = m.pde
        /\ m.pte[e][va].pp = p => s.pte[e][va].pp = p
        /\ m.pte[e][va].pp # p => s.pte[e][va].pp = NoPage /\ p \notin s.free
    BY <1>3, RefsGoodReleased
  <1>5. PICK x : x = [pp |-> p, d |-> d]
    OBVIOUS
  <1>6. x \in Pte /\ x.pp = p
    BY <1>5 DEF Pte
  <1>7. NoTable(s, p) /\ va[1] \in Dirs
    BY <1>4, UserVaFacts DEF NoTable, NoDir
  <1>8. CASE Lookup(m, e, va).pp = p /\ r = [ok |-> TRUE, m |-> Put(s, e, va, x)]
    <2>1. RefsGood(Put(s, e, va, x), L)
      BY <1>1, <1>2, <1>4, <1>6, <1>8, RefsGoodPutSame
    <2>2. m.ref[p] > 0
      <3>1. m.ref[p] = Refs(m, p) /\ m.pte[e][va].pp = p
        BY <1>1, <1>2, <1>8 DEF Counted
      <3>2. Refs(m, p) > 0
        BY <1>1, <3>1, PointedAt
      <3> QED
        BY <3>1, <3>2
    <2>3. L \ {p} = L
      BY <1>1, <2>2 DEF Counted
    <2> QED
      BY <1>8, <2>1, <2>3
  <1>9. CASE /\ Lookup(m, e, va).pp # p /\ s.pde[e][va[1]] # NoPage
             /\ r = [ok |-> TRUE, m |-> Put(incref(s, p), e, va, x)]
    <2>1. PICK n : n = Put(incref(s, p), e, va, x)
      OBVIOUS
    <2>2. r.m = n /\ r.ok
      BY <1>9, <2>1
    <2>3. s.pte[e][va].pp = NoPage /\ p \notin s.free
      BY <1>2, <1>4, <1>9
    <2>4. Refs(n, p) < REFS
      BY <2>2
    <2>5. RefsGood(n, L \ {p})
      BY <1>4, <1>6, <1>7, <1>9, <2>1, <2>3, <2>4, RefsGoodPutIncref
    <2> QED
      BY <2>2, <2>5
  <1>10. CASE r = [ok |-> FALSE, m |-> s]
    BY <1>4, <1>10
  <1>11. CASE /\ Lookup(m, e, va).pp # p /\ s.pde[e][va[1]] = NoPage
              /\ \E q \in s.free :
                   r = [ok |-> TRUE, m |-> Put(incref(NewTable(s, e, va[1], q), p), e, va, x)]
    <2>1. PICK q \in s.free : r = [ok |-> TRUE, m |-> Put(incref(NewTable(s, e, va[1], q), p), e, va, x)]
      BY <1>11
    <2>2. PICK k : k = NewTable(s, e, va[1], q)
      OBVIOUS
    <2>3. /\ RefsGood(k, L) /\ q \in Pages /\ k.pde[e][va[1]] = q /\ k.tlb = s.tlb
          /\ k.free = s.free \ {q}
          /\ \A u \in UserVas : u[1] = va[1] => k.pte[e][u].pp = NoPage
          /\ \A g : g # q /\ NoTable(s, g) => NoTable(k, g)
      <3>1. s.pde[e][va[1]] = NoPage
        BY <1>11
      <3> QED
        BY <1>4, <1>7, <2>2, <3>1, RefsGoodNewTable
    <2>4. p \notin s.free /\ p # q
      BY <1>2, <1>4, <1>11, <2>1
    <2>5. NoTable(k, p) /\ p \notin k.free /\ k.pte[e][va].pp = NoPage /\ k.pde[e][va[1]] # NoPage
      BY <1>7, <2>3, <2>4, PmapAssumption
    <2>6. Quiet(k, e, va)
      BY <1>4, <2>3 DEF Quiet
    <2>7. PICK n : n = Put(incref(k, p), e, va, x)
      OBVIOUS
    <2>8. r.m = n /\ r.ok
      BY <2>1, <2>2, <2>7
    <2>9. Refs(n, p) < REFS
      BY <2>8
    <2>10. RefsGood(n, L \ {p})
      BY <1>6, <2>3, <2>5, <2>6, <2>7, <2>9, RefsGoodPutIncref
    <2> QED
      BY <2>8, <2>10
  <1> QED
    BY <1>3, <1>5, <1>8, <1>9, <1>10, <1>11, InsertCases

\* The page that the refill gives is counted too.
LEMMA RefsGoodPassive ==
    ASSUME NEW m, NEW L, RefsGood(m, L), NEW e \in Live, NEW va \in Vas, Lookup(m, e, va).pp = NoPage,
           NEW r \in passive_alloc(m, e, va), r.ok, \A p \in Pages : Refs(r.m, p) < REFS
    PROVE  RefsGood(r.m, L)
  <1>1. m \in MemRec /\ e \in Envs /\ env_pgdir[e] # NoPage
    BY DEF RefsGood, TlbGood, Live
  <1>2. CASE va[1] = UVPT
    <2>1. PICK p \in m.free : r = [ok |-> TRUE, m |-> tlb_invalidate(NewTable(m, e, va[2], p), e, va)]
      BY <1>2 DEF passive_alloc
    <2>2. va[2] # UVPT
      BY <1>1, <1>2 DEF Lookup
    <2>3. va[2] \in Dirs
      BY <1>2, <2>2, VaFacts
    <2>4. m.pde[e][va[2]] = NoPage
      BY <1>2, <2>2 DEF Lookup
    <2>5. PICK k : k = NewTable(m, e, va[2], p)
      OBVIOUS
    <2>6. RefsGood(k, L)
      BY <2>3, <2>4, <2>5, RefsGoodNewTable
    <2>7. PICK n : n = tlb_invalidate(k, e, va)
      OBVIOUS
    <2>8. RefsGood(n, L)
      BY <2>6, <2>7, RefsGoodFlush
    <2> QED
      BY <2>1, <2>5, <2>7, <2>8
  <1>3. CASE va[1] # UVPT
    <2>1. PICK p \in m.free : r \in page_insert(page_alloc(m, p), e, p, va, TRUE)
      BY <1>3 DEF passive_alloc
    <2>2. PICK k : k = page_alloc(m, p)
      OBVIOUS
    <2>3. RefsGood(k, L \cup {p}) /\ p \in Pages /\ p \notin L /\ p \notin k.free /\ NoTable(k, p)
      BY <2>2, RefsGoodAlloc
    <2>4. TRUE \in BOOLEAN /\ r \in page_insert(k, e, p, va, TRUE)
      BY <2>1, <2>2
    <2>5. va \in UserVas
      BY <1>3, VaFacts
    <2>6. PICK y \in BOOLEAN : y = TRUE
      OBVIOUS
    <2>7. r \in page_insert(k, e, p, va, y)
      BY <2>4, <2>6
    <2>8. RefsGood(r.m, IF r.ok THEN (L \cup {p}) \ {p} ELSE L \cup {p})
      BY <2>3, <2>5, <2>7, RefsGoodInsert
    <2>9. (L \cup {p}) \ {p} = L
      BY <2>3
    <2> QED
      BY <2>8, <2>9
  <1> QED
    BY <1>2, <1>3

\* Writing an entry keeps the counts.
LEMMA RefsGoodWritten ==
    ASSUME NEW m, NEW L, RefsGood(m, L), NEW e \in Live, NEW va \in Vas, NEW r \in tlbwr(m, Entry(m, e, va)),
           env_pgdir \in [Envs -> Pages \cup {NoPage}], env_asid \in [Envs -> ASIDs]
    PROVE  RefsGood(r, L) /\ r.pte = m.pte /\ r.pde = m.pde
  <1>1. TlbGood(r) /\ Written(m, r, Entry(m, e, va))
    BY TlbGoodWritten DEF RefsGood
  <1>2. r.ref = m.ref /\ r.free = m.free /\ r.pde = m.pde /\ r.pte = m.pte /\ r.bad = m.bad
    BY <1>1 DEF Written
  <1> QED
    BY <1>1, <1>2, RefsGoodSame

-----------------------------------------------------------------------------
(***************************************************************************)
(* The handlers and the counts.                                            *)
(***************************************************************************)

\* No page has as many pointers as pp_ref has values.
FewRefs == \A p \in Pages : Pointers(p) + (IF p \in orphans THEN 1 ELSE 0) < REFS

RefInv == TlbInv /\ Counted(Mem, lost) /\ Apart(Mem) /\ panic # "assert"

RefsArePointers == \A p \in Pages : Refs(Mem, p) = Pointers(p) + (IF p \in orphans THEN 1 ELSE 0)

\* The counted pointers are those of PagesExact.
LEMMA RefsPointers == RefsArePointers
  <1> SUFFICES ASSUME NEW p \in Pages
               PROVE  Refs(Mem, p) = Pointers(p) + (IF p \in orphans THEN 1 ELSE 0)
    BY DEF RefsArePointers
  <1>1. Refs(Mem, p) = Cardinality(PteAt(pte, p)) + Cardinality(PdeAt(pde, p))
                         + Cardinality(DirAt(p)) + (IF p \in orphans THEN 1 ELSE 0)
    BY MemFacts, Zenon DEF Refs
  <1>2. Pointers(p) = Cardinality(PteAt(pte, p)) + Cardinality(PdeAt(pde, p)) + Cardinality(DirAt(p))
    BY DEF Pointers, PteAt, PdeAt, DirAt
  <1> QED
    BY <1>1, <1>2

\* The counts after a handler that keeps the directories.
LEMMA RefsNext ==
    ASSUME NEW n, Mem'.pte = n.pte, Mem'.pde = n.pde, UNCHANGED <<env_pgdir, orphans>>, NEW p
    PROVE  Refs(Mem, p)' = Refs(n, p)
  <1>1. PteAt(Mem.pte, p)' = PteAt(n.pte, p)
    BY DEF PteAt
  <1>2. PdeAt(Mem.pde, p)' = PdeAt(n.pde, p)
    BY DEF PdeAt
  <1>3. DirAt(p)' = DirAt(p)
    BY DEF DirAt
  <1> QED
    BY <1>1, <1>2, <1>3 DEF Refs

\* FewRefs after a handler bounds the counts of the memory state it leaves.
LEMMA FewNext ==
    ASSUME NEW n \in MemRec, Becomes(n), UNCHANGED <<env_pgdir, orphans>>, FewRefs'
    PROVE  \A p \in Pages : Refs(n, p) < REFS
  <1>1. RefsArePointers'
    BY RefsPointers, PTL
  <1>2. Mem'.pte = n.pte /\ Mem'.pde = n.pde
    BY BecomesFields
  <1>3. \A p : Refs(Mem, p)' = Refs(n, p)
    BY <1>2, RefsNext
  <1> QED
    BY <1>1, <1>3 DEF FewRefs, RefsArePointers

\* The handlers that keep address spaces and ASIDs.
LEMMA PlainRefInv ==
    ASSUME RefInv, NEW n, RefsGood(n, lost'), Becomes(n), UNCHANGED <<env_pgdir, env_asid, orphans>>
    PROVE  RefInv'
  <1>1. n \in MemRec /\ TlbGood(n) /\ Counted(n, lost') /\ Apart(n)
    BY DEF RefsGood, TlbGood
  <1>2. TlbInv'
    BY <1>1, PlainTlbInv DEF RefInv, Counted
  <1>3. /\ Mem'.ref = n.ref /\ Mem'.free = n.free /\ Mem'.pde = n.pde /\ Mem'.pte = n.pte
    BY <1>1, BecomesFields
  <1>4. \A p : Refs(Mem, p)' = Refs(n, p)
    BY <1>3, RefsNext
  <1>5. Mem'.bad = FALSE
    BY DEF Mem
  <1>6. Counted(Mem, lost)'
    BY <1>1, <1>3, <1>4, <1>5 DEF Counted
  <1>7. Apart(Mem)'
    BY <1>1, <1>3 DEF Apart, NoTable, NoDir
  <1>8. panic' # "assert"
    BY <1>1 DEF Becomes, Counted, RefInv
  <1> QED
    BY <1>2, <1>6, <1>7, <1>8 DEF RefInv

\* The pairs S are those that start with e, in C without it, and the rest, R.
Split(S, e, R, C) ==
    /\ \A y \in S : y = <<y[1], y[2]>>
    /\ \A v : v \in C <=> <<e, v>> \in S
    /\ \A y : y \in R <=> y \in S /\ y[1] # e

\* The size of S is that of its parts.
LEMMA SplitCount ==
    ASSUME NEW S, IsFiniteSet(S), NEW e, NEW R, NEW C, Split(S, e, R, C)
    PROVE  /\ Cardinality(S) = Cardinality(R) + Cardinality(C)
           /\ Cardinality(R) \in Nat /\ Cardinality(C) \in Nat
  <1>1. PICK B : B = { y \in S : y[1] = e }
    OBVIOUS
  <1>2. IsFiniteSet(B) /\ IsFiniteSet(R)
    BY <1>1, FS_Subset DEF Split
  <1>3. B \cup R = S /\ B \cap R = {}
    BY <1>1 DEF Split
  <1>4. Cardinality(S) = Cardinality(B) + Cardinality(R) /\ Cardinality(B) \in Nat /\ Cardinality(R) \in Nat
    <2>1. Cardinality(S) = Cardinality(B) + Cardinality(R) - Cardinality({})
      BY <1>2, <1>3, FS_Union
    <2>2. Cardinality({}) = 0
      BY FS_EmptySet
    <2>3. Cardinality(B) \in Nat /\ Cardinality(R) \in Nat
      BY <1>2, FS_CardinalityType
    <2> QED
      BY <2>1, <2>2, <2>3
  <1>5. PICK f : f = [y \in B |-> y[2]]
    OBVIOUS
  <1>6. (\A y \in B : y = <<e, y[2]>>) /\ \A v : v \in C <=> <<e, v>> \in B
    BY <1>1 DEF Split
  <1>7. f \in Bijection(B, C)
    <2>1. f \in [B -> C]
      BY <1>1, <1>5, <1>6
    <2>2. \A y, z \in B : f[y] = f[z] => y = z
      BY <1>5, <1>6
    <2>3. \A c \in C : \E y \in B : f[y] = c
      <3> SUFFICES ASSUME NEW c \in C PROVE \E y \in B : f[y] = c
        OBVIOUS
      <3>1. <<e, c>> \in B
        BY <1>6
      <3>2. f[<<e, c>>] = c
        BY <1>5, <3>1
      <3> QED
        BY <3>1, <3>2
    <2> QED
      BY <2>1, <2>2, <2>3 DEF Bijection, Injection, Surjection, IsInjective
  <1>8. Cardinality(C) = Cardinality(B)
    BY <1>2, <1>7, FS_Bijection DEF ExistsBijection
  <1> QED
    BY <1>4, <1>8

\* env_alloc: the page of the directory gets one reference and one pointer, that of
\* the env or, without a free ASID, that of orphans.
LEMMA AllocRefInv ==
    ASSUME RefInv, TlbInv', NEW e \in Envs, env_alloc(e)
    PROVE  RefInv'
  <1>1. e \notin Live /\ lost' = lost
    BY DEF env_alloc
  <1>2. PICK m : m = Mem
    OBVIOUS
  <1>3. TlbGood(m) /\ m \in MemRec /\ Counted(m, lost) /\ Apart(m)
    BY <1>2 DEF RefInv, TlbInv, TlbGood
  <1>4. PICK p \in page_free_list : Becomes(env_setup_vm(m, e, p)) /\
             \/ env_pgdir' = [env_pgdir EXCEPT ![e] = p] /\ orphans' = orphans
             \/ orphans' = orphans \cup {p} /\ env_pgdir' = env_pgdir
    BY <1>2 DEF env_alloc
  <1>5. p \in Pages /\ m.ref[p] = 0 /\ p \in m.free /\ p \notin lost
    BY <1>2, <1>3, MemFacts DEF Counted
  <1>6. PICK n : n = env_setup_vm(m, e, p)
    OBVIOUS
  <1>7. Setup(m, n, p)
    BY <1>1, <1>3, <1>5, <1>6, SetupFields
  <1>8. Becomes(n) /\ n \in MemRec
    BY <1>4, <1>6, <1>7 DEF Setup
  <1>9. /\ Mem'.ref = [m.ref EXCEPT ![p] = (m.ref[p] + 1) % REFS] /\ Mem'.free = m.free \ {p}
        /\ Mem'.pde = m.pde /\ Mem'.pte = m.pte
    BY <1>7, <1>8, BecomesFields DEF Setup
  <1>10. (m.ref[p] + 1) % REFS = 1
    BY <1>5, PmapAssumption
  <1>11. \A q \in Pages : Mem'.ref[q] = IF q = p THEN 1 ELSE m.ref[q]
    BY <1>3, <1>9, <1>10 DEF MemRec
  <1>12. Mem'.bad = FALSE /\ panic' = panic
    BY <1>3, <1>7, <1>8 DEF Mem, Becomes, Setup, Counted
  <1>13. /\ NoTable(m, p) /\ p \notin orphans
         /\ \A f \in Envs, va \in UserVas : m.pte[f][va].pp # p
    BY <1>3, <1>5, UnusedPage
  <1>14. env_pgdir \in [Envs -> Pages \cup {NoPage}] /\ env_pgdir[e] = NoPage
    BY <1>1 DEF RefInv, TlbInv, EnvTypes, Live
  <1>15. ASSUME NEW q \in Pages PROVE Refs(Mem, q)' = Refs(m, q) + (IF q = p THEN 1 ELSE 0)
    <2>1. PteAt(Mem.pte, q)' = PteAt(m.pte, q)
      BY <1>9 DEF PteAt
    <2>2. PdeAt(Mem.pde, q)' = PdeAt(m.pde, q)
      BY <1>9 DEF PdeAt
    <2>3. PICK D : D = DirAt(q)'
      OBVIOUS
    <2>4. PICK a, b, c, l, c1, l1 : /\ a = Cardinality(PteAt(m.pte, q)) /\ b = Cardinality(PdeAt(m.pde, q))
                                    /\ c = Cardinality(DirAt(q)) /\ l = IF q \in orphans THEN 1 ELSE 0
                                    /\ c1 = Cardinality(D) /\ l1 = IF q \in orphans' THEN 1 ELSE 0
      OBVIOUS
    <2>5. Refs(m, q) = a + b + c + l /\ Refs(Mem, q)' = a + b + c1 + l1
      BY <2>1, <2>2, <2>3, <2>4 DEF Refs
    <2>6. a \in Nat /\ b \in Nat /\ c \in Nat /\ l \in Nat
      BY <2>4, AtFinite
    <2>7. CASE orphans' = orphans \cup {p} /\ env_pgdir' = env_pgdir
      <3>1. D = DirAt(q)
        BY <2>3, <2>7 DEF DirAt
      <3>2. l1 = l + (IF q = p THEN 1 ELSE 0)
        BY <1>13, <2>4, <2>7
      <3> QED
        BY <2>4, <2>5, <2>6, <3>1, <3>2
    <2>8. CASE env_pgdir' = [env_pgdir EXCEPT ![e] = p] /\ orphans' = orphans
      <3>1. D \subseteq Envs /\ D \ {e} = DirAt(q) \ {e} /\ e \notin DirAt(q) /\ (e \in D <=> q = p)
        BY <1>14, <2>3, <2>8, PmapAssumption DEF DirAt
      <3>2. IsFiniteSet(D) /\ IsFiniteSet(DirAt(q))
        BY <3>1, FS_Subset, PmapAssumption, AtFinite
      <3>3. c1 + (IF e \in DirAt(q) THEN 1 ELSE 0) = c + (IF e \in D THEN 1 ELSE 0)
        BY <2>4, <3>1, <3>2, MoveElement
      <3>4. c1 \in Nat
        BY <2>4, <3>2, FS_CardinalityType
      <3>5. c1 = c + (IF q = p THEN 1 ELSE 0)
        BY <2>6, <3>1, <3>3, <3>4
      <3> QED
        BY <2>4, <2>5, <2>6, <2>8, <3>5
    <2> QED
      BY <1>4, <2>7, <2>8
  <1>16. Counted(Mem, lost)'
    <2>1. \A q \in Pages : Mem'.ref[q] = Refs(Mem, q)'
      <3> SUFFICES ASSUME NEW q \in Pages PROVE Mem'.ref[q] = Refs(Mem, q)'
        OBVIOUS
      <3>1. m.ref[q] = Refs(m, q) /\ Refs(m, q) \in Nat
        BY <1>3, PointedAt DEF Counted
      <3> QED
        BY <1>5, <1>11, <1>15, <3>1
    <2>2. m.free = { q \in Pages : m.ref[q] = 0 } \ lost /\ lost \subseteq Pages /\ \A q \in lost : m.ref[q] = 0
      BY <1>3 DEF Counted
    <2>3. Mem'.free = { q \in Pages : Mem'.ref[q] = 0 } \ lost
      BY <1>9, <1>11, <2>2
    <2>4. \A q \in lost : Mem'.ref[q] = 0
      BY <1>5, <1>11, <2>2
    <2> QED
      BY <1>1, <1>12, <2>1, <2>2, <2>3, <2>4 DEF Counted
  <1>17. Apart(Mem)'
    <2>1. \A f \in Envs : env_pgdir'[f] = env_pgdir[f] \/ (env_pgdir'[f] = p /\ f = e)
      BY <1>4, <1>14
    <2>2. \A f \in Envs : env_pgdir[f] # p /\ \A d \in Dirs : m.pde[f][d] # p
      BY <1>13 DEF NoTable, NoDir
    <2>3. \A f, g \in Envs : env_pgdir'[f] # NoPage /\ env_pgdir'[f] = env_pgdir'[g] => f = g
      BY <1>3, <1>14, <2>1, <2>2 DEF Apart
    <2>4. \A f, g \in Envs : \A d \in Dirs : m.pde[f][d] # NoPage => m.pde[f][d] # env_pgdir'[g]
      BY <1>3, <2>1, <2>2 DEF Apart
    <2>5. ASSUME NEW f \in Envs, NEW va \in UserVas, m.pte[f][va].pp # NoPage, NEW g \in Envs
          PROVE  m.pte[f][va].pp # env_pgdir'[g] /\ \A d \in Dirs : m.pde[g][d] # m.pte[f][va].pp
      BY <1>3, <1>13, <2>1, <2>5 DEF Apart, NoTable, NoDir
    <2>6. \A f, g \in Envs : \A d, c \in Dirs :
             m.pde[f][d] # NoPage /\ m.pde[f][d] = m.pde[g][c] => f = g /\ d = c
      BY <1>3 DEF Apart
    <2>7. \A f \in Envs, va \in UserVas : m.pte[f][va].pp # NoPage => m.pte[f][va].pp \notin orphans'
      BY <1>3, <1>4, <1>13 DEF Apart, NoTable
    <2>8. ASSUME NEW q \in orphans', NEW g \in Envs
          PROVE  env_pgdir'[g] # q /\ \A d \in Dirs : m.pde[g][d] # q
      <3>1. CASE env_pgdir' = [env_pgdir EXCEPT ![e] = p] /\ orphans' = orphans
        BY <1>3, <1>13, <2>1, <2>8, <3>1 DEF Apart, NoDir
      <3>2. CASE orphans' = orphans \cup {p} /\ env_pgdir' = env_pgdir
        BY <1>3, <2>2, <2>8, <3>2 DEF Apart, NoDir
      <3> QED
        BY <1>4, <3>1, <3>2
    <2> QED
      BY <1>9, <2>3, <2>4, <2>5, <2>6, <2>7, <2>8 DEF Apart, NoTable, NoDir
  <1> QED
    BY <1>12, <1>16, <1>17 DEF RefInv

\* What env_free releases is exactly what the env points to, but for the tables above
\* UVPT, which become orphans.
LEMMA RefsFree ==
    ASSUME TlbInv, NEW e \in Live, NEW m, m = Mem, Apart(m), NEW n, Freed(m, n, e), Mem'.pte = n.pte,
           Mem'.pde = n.pde, env_pgdir' = [env_pgdir EXCEPT ![e] = NoPage],
           orphans' = orphans \cup ({ pde[e][d] : d \in High } \ {NoPage}), NEW p \in Pages
    PROVE  /\ Refs(Mem, p)' + Held(e, p) = Refs(m, p)
           /\ Held(e, p) \in Nat /\ Refs(Mem, p)' \in Nat
  <1>1. m \in MemRec /\ TablesBack(m) /\ e \in Envs /\ p # NoPage
    BY PmapAssumption DEF TlbInv, TlbGood, Live
  <1>2. m.pte = pte /\ m.pde = pde
    BY MemFacts
  <1>3. /\ \A d \in Dirs : n.pde[e][d] = NoPage
        /\ \A f \in Envs : f # e => n.pde[f] = m.pde[f] /\ n.pte[f] = m.pte[f]
        /\ \A va \in UserVas : n.pte[e][va] = IF va[1] \in Tables(e) THEN Invalid ELSE m.pte[e][va]
    BY <1>1 DEF Freed, MemRec
  <1>4. \A va \in UserVas : n.pte[e][va].pp = NoPage
    <2> SUFFICES ASSUME NEW va \in UserVas PROVE n.pte[e][va].pp = NoPage
      OBVIOUS
    <2>1. CASE va[1] \in Tables(e)
      BY <1>3, <2>1 DEF Invalid
    <2>2. CASE va[1] \notin Tables(e)
      <3>1. m.pde[e][va[1]] = NoPage
        BY <1>2, <2>2 DEF Tables, UserVas
      <3> QED
        BY <1>1, <1>3, <2>2, <3>1 DEF TablesBack
    <2> QED
      BY <2>1, <2>2
  <1>5. PICK A, B, D : A = PteAt(m.pte, p) /\ B = PdeAt(m.pde, p) /\ D = DirAt(p)
    OBVIOUS
  <1>6. PICK A1, B1, D1 : A1 = PteAt(n.pte, p) /\ B1 = PdeAt(n.pde, p) /\ D1 = DirAt(p)'
    OBVIOUS
  <1>7. PICK H, G, U : /\ H = { va \in Mapped(e) : pte[e][va].pp = p }
                       /\ G = { d \in Dirs : pde[e][d] = p }
                       /\ U = { d \in Tables(e) : pde[e][d] = p }
    OBVIOUS
  <1>8. A1 = { y \in A : y[1] # e }
    <2>1. ASSUME NEW y \in Envs \X UserVas, y[1] # e PROVE n.pte[y[1]][y[2]] = m.pte[y[1]][y[2]]
      BY <1>3, <2>1
    <2>2. ASSUME NEW y \in Envs \X UserVas, y[1] = e PROVE n.pte[y[1]][y[2]].pp # p
      BY <1>1, <1>4, <2>2
    <2> QED
      BY <1>5, <1>6, <2>1, <2>2 DEF PteAt
  <1>9. B1 = { y \in B : y[1] # e }
    <2>1. ASSUME NEW y \in Envs \X Dirs, y[1] # e PROVE n.pde[y[1]][y[2]] = m.pde[y[1]][y[2]]
      BY <1>3, <2>1
    <2>2. ASSUME NEW y \in Envs \X Dirs, y[1] = e PROVE n.pde[y[1]][y[2]] # p
      BY <1>1, <1>3, <2>2
    <2> QED
      BY <1>5, <1>6, <2>1, <2>2 DEF PdeAt
  <1>10. H = { v \in UserVas : <<e, v>> \in A }
    <2>1. ASSUME NEW v \in UserVas, m.pte[e][v].pp = p PROVE v \in Mapped(e)
      <3>1. m.pde[e][v[1]] # NoPage
        BY <1>1, <2>1 DEF TablesBack
      <3> QED
        BY <1>1, <1>2, <2>1, <3>1 DEF Mapped, Tables, UserVas
    <2>2. \A v \in UserVas : <<e, v>> \in A <=> m.pte[e][v].pp = p
      BY <1>1, <1>5 DEF PteAt
    <2>3. Mapped(e) \subseteq UserVas
      BY DEF Mapped
    <2> QED
      BY <1>2, <1>7, <2>1, <2>2, <2>3
  <1>11. G = { d \in Dirs : <<e, d>> \in B }
    <2>1. \A d \in Dirs : <<e, d>> \in B <=> m.pde[e][d] = p
      BY <1>1, <1>5 DEF PdeAt
    <2> QED
      BY <1>2, <1>7, <2>1
  <1>12. /\ Cardinality(A) = Cardinality(A1) + Cardinality(H)
         /\ Cardinality(A1) \in Nat /\ Cardinality(H) \in Nat
    <2>1. A \subseteq Envs \X UserVas /\ IsFiniteSet(A)
      BY <1>5, AtFinite DEF PteAt
    <2>2. Split(A, e, A1, H)
      BY <1>8, <1>10, <2>1 DEF Split
    <2> QED
      BY <2>1, <2>2, SplitCount
  <1>13. /\ Cardinality(B) = Cardinality(B1) + Cardinality(G)
         /\ Cardinality(B1) \in Nat /\ Cardinality(G) \in Nat
    <2>1. B \subseteq Envs \X Dirs /\ IsFiniteSet(B)
      BY <1>5, AtFinite DEF PdeAt
    <2>2. Split(B, e, B1, G)
      BY <1>9, <1>11, <2>1 DEF Split
    <2> QED
      BY <2>1, <2>2, SplitCount
  <1>14. /\ Cardinality(D) = Cardinality(D1) + (IF env_pgdir[e] = p THEN 1 ELSE 0)
         /\ Cardinality(D) \in Nat /\ Cardinality(D1) \in Nat
    <2>1. env_pgdir \in [Envs -> Pages \cup {NoPage}]
      BY DEF TlbInv, EnvTypes
    <2>2. D1 \subseteq Envs /\ D \ {e} = D1 \ {e} /\ e \notin D1 /\ (e \in D <=> env_pgdir[e] = p)
      BY <1>1, <1>5, <1>6, <2>1 DEF DirAt
    <2>3. IsFiniteSet(D) /\ IsFiniteSet(D1)
      BY <1>5, <2>2, AtFinite, FS_Subset, PmapAssumption
    <2>4. Cardinality(D1) + (IF e \in D THEN 1 ELSE 0) = Cardinality(D) + (IF e \in D1 THEN 1 ELSE 0)
      BY <2>2, <2>3, MoveElement
    <2>5. Cardinality(D) \in Nat /\ Cardinality(D1) \in Nat
      BY <2>3, FS_CardinalityType
    <2> QED
      BY <2>2, <2>4, <2>5
  <1>15. Held(e, p) = Cardinality(H) + Cardinality(U) + (IF env_pgdir[e] = p THEN 1 ELSE 0)
    BY <1>7 DEF Held
  <1>16. PICK l, k : /\ l \in Nat /\ l = IF p \in orphans THEN 1 ELSE 0
                     /\ k \in Nat /\ k = IF p \in orphans' THEN 1 ELSE 0
    OBVIOUS
  <1>17. Refs(m, p) = Cardinality(A) + Cardinality(B) + Cardinality(D) + l
    BY <1>5, <1>16 DEF Refs
  <1>18. Refs(Mem, p)' = Cardinality(A1) + Cardinality(B1) + Cardinality(D1) + k
    <2>1. PteAt(Mem.pte, p)' = A1
      BY <1>6 DEF PteAt
    <2>2. PdeAt(Mem.pde, p)' = B1
      BY <1>6 DEF PdeAt
    <2> QED
      BY <1>6, <1>16, <2>1, <2>2 DEF Refs
  <1>19. Cardinality(G) + l = Cardinality(U) + k /\ Cardinality(U) \in Nat
    <2>1. U = { d \in UserDirs : pde[e][d] = p }
      BY <1>1, <1>7 DEF Tables
    <2>2. p \in orphans' <=> p \in orphans \/ \E d \in High : pde[e][d] = p
      BY <1>1
    <2>3. CASE \E d \in High : pde[e][d] = p
      <3>1. PICK d \in High : pde[e][d] = p
        BY <2>3
      <3>2. d \in Dirs /\ d \notin UserDirs
        BY <3>1, HighApart, DirFacts
      <3>3. \A c \in Dirs : pde[e][c] = p => c = d
        BY <1>1, <1>2, <3>1, <3>2 DEF Apart
      <3>4. G = {d} /\ U = {}
        BY <1>7, <2>1, <3>1, <3>2, <3>3, DirFacts
      <3>5. Cardinality(G) = 1 /\ Cardinality(U) = 0
        BY <3>4, FS_Singleton, FS_EmptySet
      <3>6. p \notin orphans
        BY <1>1, <1>2, <3>1, <3>2 DEF Apart, NoDir
      <3> QED
        BY <1>16, <2>2, <3>1, <3>5, <3>6
    <2>4. CASE ~\E d \in High : pde[e][d] = p
      <3>1. G = U
        BY <1>7, <2>1, <2>4 DEF Dirs
      <3>2. l = k
        BY <1>16, <2>2, <2>4
      <3> QED
        BY <1>13, <3>1, <3>2
    <2> QED
      BY <2>3, <2>4
  <1> QED
    BY <1>12, <1>13, <1>14, <1>15, <1>16, <1>17, <1>18, <1>19

\* env_free gives up as many references to each page as the env has pointers to it.
LEMMA FreeRefInv ==
    ASSUME RefInv, TlbInv', NEW e \in Envs, env_free(e)
    PROVE  RefInv'
  <1>1. /\ e \in Live /\ env_pgdir' = [env_pgdir EXCEPT ![e] = NoPage]
        /\ orphans' = orphans \cup ({ pde[e][d] : d \in High } \ {NoPage})
        /\ UNCHANGED <<env_asid, lost>>
    BY DEF env_free
  <1>2. PICK m : m = Mem
    OBVIOUS
  <1>3. TlbInv /\ m \in MemRec /\ Counted(m, lost) /\ Apart(m)
    BY <1>2 DEF RefInv, TlbInv, TlbGood
  <1>4. PICK n : Freed(m, n, e) /\ Becomes(n)
    BY <1>2, <1>3, FreeFields
  <1>5. n \in MemRec
    BY <1>4 DEF Freed
  <1>6. /\ Mem'.ref = n.ref /\ Mem'.free = n.free /\ Mem'.pde = n.pde /\ Mem'.pte = n.pte
    BY <1>4, <1>5, BecomesFields
  <1>7. ASSUME NEW p \in Pages
        PROVE  /\ Refs(Mem, p)' + Held(e, p) = m.ref[p] /\ Held(e, p) \in Nat
               /\ Refs(Mem, p)' \in Nat /\ m.ref[p] \in Nat
    <2>1. /\ Refs(Mem, p)' + Held(e, p) = Refs(m, p)
          /\ Held(e, p) \in Nat /\ Refs(Mem, p)' \in Nat
      BY <1>1, <1>2, <1>3, <1>4, <1>6, RefsFree
    <2>2. Refs(m, p) = m.ref[p] /\ m.ref[p] \in 0..(REFS - 1)
      BY <1>3 DEF Counted, MemRec
    <2> QED
      BY <2>1, <2>2, PmapAssumption
  <1>8. /\ n.ref = [p \in Pages |-> IF m.ref[p] < Held(e, p) THEN 0 ELSE m.ref[p] - Held(e, p)]
        /\ n.free = m.free \cup { p \in Pages : m.ref[p] \in 1..Held(e, p) }
        /\ (\A p \in Pages : Held(e, p) <= m.ref[p]) => n.bad = m.bad
    BY <1>4 DEF Freed
  <1>9. \A p \in Pages : n.ref[p] = Refs(Mem, p)' /\ n.ref[p] + Held(e, p) = m.ref[p]
    BY <1>7, <1>8
  <1>10. n.free = { p \in Pages : n.ref[p] = 0 } \ lost
    <2>1. m.free = { p \in Pages : m.ref[p] = 0 } \ lost /\ \A p \in lost : m.ref[p] = 0
      BY <1>3 DEF Counted
    <2>2. ASSUME NEW p \in Pages
          PROVE  p \in n.free <=> n.ref[p] = 0 /\ p \notin lost
      <3>1. p \in n.free <=> p \in m.free \/ m.ref[p] \in 1..Held(e, p)
        BY <1>8
      <3>2. p \in m.free <=> m.ref[p] = 0 /\ p \notin lost
        BY <2>1
      <3> QED
        BY <1>7, <1>9, <2>1, <3>1, <3>2
    <2>3. n.free \subseteq Pages
      BY <1>5 DEF MemRec
    <2> QED
      BY <2>2, <2>3
  <1>11. n.bad = FALSE /\ panic' # "assert"
    <2>1. n.bad = m.bad
      BY <1>7, <1>8
    <2> QED
      BY <1>3, <1>4, <2>1 DEF Counted, Becomes, RefInv
  <1>12. Counted(Mem, lost)'
    <2>1. lost \subseteq Pages /\ \A p \in lost : n.ref[p] = 0
      BY <1>3, <1>7, <1>9 DEF Counted
    <2>2. Mem'.bad = FALSE
      BY DEF Mem
    <2> QED
      BY <1>1, <1>6, <1>9, <1>10, <2>1, <2>2 DEF Counted
  <1>13. Apart(Mem)'
    <2>1. env_pgdir \in [Envs -> Pages \cup {NoPage}] /\ e \in Envs
      BY <1>3 DEF TlbInv, EnvTypes
    <2>2. \A f \in Envs : env_pgdir'[f] = env_pgdir[f] \/ env_pgdir'[f] = NoPage
      BY <1>1, <2>1
    <2>3. \A f \in Envs : \A d \in Dirs : n.pde[f][d] = m.pde[f][d] \/ n.pde[f][d] = NoPage
      BY <1>3, <1>4 DEF Freed, MemRec
    <2>4. ASSUME NEW f \in Envs, NEW va \in UserVas, n.pte[f][va].pp # NoPage PROVE n.pte[f][va] = m.pte[f][va]
      BY <1>3, <1>4, <2>4 DEF Freed, MemRec, Invalid
    <2>5. \A p : p # NoPage /\ NoTable(m, p) => NoTable(Mem, p)'
      <3>1. \A p : NoDir(m, p) => p \notin { pde[e][d] : d \in High }
        BY <1>2, <2>1, MemFacts, DirFacts DEF NoDir
      <3>2. \A p : p # NoPage /\ NoDir(m, p) => NoDir(Mem, p)'
        BY <1>6, <2>2, <2>3 DEF NoDir
      <3> QED
        BY <1>1, <3>1, <3>2 DEF NoTable
    <2>6. \A f \in Envs : \A va \in UserVas : n.pte[f][va].pp # NoPage => NoTable(Mem, n.pte[f][va].pp)'
      <3> SUFFICES ASSUME NEW f \in Envs, NEW va \in UserVas, n.pte[f][va].pp # NoPage
                   PROVE  NoTable(Mem, n.pte[f][va].pp)'
        OBVIOUS
      <3>1. n.pte[f][va] = m.pte[f][va]
        BY <2>4
      <3>2. NoTable(m, m.pte[f][va].pp)
        BY <1>3, <3>1 DEF Apart
      <3> QED
        BY <2>5, <3>1, <3>2
    <2>7. \A f, g \in Envs : \A d, c \in Dirs :
             n.pde[f][d] # NoPage /\ n.pde[f][d] = n.pde[g][c] => f = g /\ d = c
      BY <1>3, <2>3 DEF Apart
    <2>8. \A f, g \in Envs : env_pgdir'[f] # NoPage /\ env_pgdir'[f] = env_pgdir'[g] => f = g
      BY <1>3, <2>2 DEF Apart
    <2>9. \A f, g \in Envs : \A d \in Dirs : n.pde[f][d] # NoPage => n.pde[f][d] # env_pgdir'[g]
      BY <1>3, <2>2, <2>3 DEF Apart
    <2>10. ASSUME NEW p \in orphans' PROVE NoDir(Mem, p)'
      <3>0. p # NoPage
        BY <1>1, <1>3, <2>10, PmapAssumption DEF TlbInv, EnvTypes
      <3>1. CASE NoDir(m, p)
        BY <1>6, <2>2, <2>3, <3>0, <3>1 DEF NoDir
      <3>2. CASE ~NoDir(m, p)
        <4>1. PICK d \in Dirs : m.pde[e][d] = p
          BY <1>1, <1>2, <1>3, <2>10, <3>2, MemFacts, DirFacts DEF Apart
        <4>2. \A f \in Envs : env_pgdir[f] # p
          BY <1>3, <2>1, <3>0, <4>1 DEF Apart
        <4>3. \A f \in Envs : \A c \in Dirs : m.pde[f][c] = p => f = e
          BY <1>3, <2>1, <3>0, <4>1 DEF Apart
        <4>4. \A c \in Dirs : n.pde[e][c] = NoPage
          BY <1>3, <1>4, <2>1 DEF Freed, MemRec
        <4> QED
          BY <1>6, <2>2, <2>3, <3>0, <4>2, <4>3, <4>4 DEF NoDir
      <3> QED
        BY <3>1, <3>2
    <2> QED
      BY <1>6, <2>6, <2>7, <2>8, <2>9, <2>10 DEF Apart
  <1> QED
    BY <1>11, <1>12, <1>13 DEF RefInv

\* The refill counts the page and the table it gives.
LEMMA RefillRefInv ==
    ASSUME RefInv, FewRefs', NEW e \in Envs, NEW va \in Vas, do_tlb_refill(e, va)
    PROVE  RefInv'
  <1>1. e \in Live /\ UNCHANGED <<env_pgdir, env_asid, lost, orphans>>
    BY DEF do_tlb_refill
  <1>2. PICK k : k = Mem
    OBVIOUS
  <1>3. RefsGood(k, lost)
    BY <1>2 DEF RefInv, TlbInv, RefsGood
  <1>4. PICK m : m = tlb_invalidate(k, e, va)
    OBVIOUS
  <1>5. RefsGood(m, lost)
    BY <1>3, <1>4, RefsGoodFlush
  <1>6. /\ env_pgdir \in [Envs -> Pages \cup {NoPage}] /\ env_asid \in [Envs -> ASIDs]
        /\ TlbInv /\ panic # "assert"
    BY DEF RefInv, TlbInv, EnvTypes
  <1>7. CASE panic' = "no_mem" /\ UNCHANGED mem
    <2>1. Mem' = Mem
      BY <1>7 DEF mem, Mem
    <2>2. TlbInv'
      BY <1>6, RefillTlbInv
    <2>3. \A p : Refs(Mem, p)' = Refs(k, p)
      BY <1>1, <1>2, <2>1, RefsNext
    <2>4. Mem' = k /\ Counted(k, lost) /\ Apart(k)
      BY <1>2, <1>3, <2>1 DEF RefsGood
    <2>5. Counted(Mem, lost)'
      BY <1>1, <2>3, <2>4 DEF Counted
    <2>6. Apart(Mem)'
      BY <1>1, <2>4 DEF Apart, NoTable, NoDir
    <2> QED
      BY <1>7, <2>2, <2>5, <2>6 DEF RefInv
  <1>8. ASSUME NEW n, RefsGood(n, lost), NEW w \in tlbwr(n, Entry(n, e, va)), Becomes(w)
        PROVE  RefInv'
    <2>1. RefsGood(w, lost)
      BY <1>1, <1>6, <1>8, RefsGoodWritten
    <2>2. RefsGood(w, lost')
      BY <1>1, <2>1
    <2> QED
      BY <1>1, <1>8, <2>2, PlainRefInv
  <1>9. CASE \E w \in tlbwr(m, Entry(m, e, va)) : Becomes(w)
    BY <1>5, <1>8, <1>9
  <1>10. CASE /\ Lookup(m, e, va).pp = NoPage
              /\ \E r \in passive_alloc(m, e, va) :
                   r.ok /\ \E w \in tlbwr(r.m, Entry(r.m, e, va)) : Becomes(w)
    <2>1. PICK r \in passive_alloc(m, e, va) :
                   r.ok /\ \E w \in tlbwr(r.m, Entry(r.m, e, va)) : Becomes(w)
      BY <1>10
    <2>2. PICK n : n = r.m
      OBVIOUS
    <2>3. PICK w \in tlbwr(n, Entry(n, e, va)) : Becomes(w)
      BY <2>1, <2>2
    <2>4. TlbGood(n)
      BY <1>1, <1>5, <1>10, <2>1, <2>2, TlbGoodPassive DEF RefsGood
    <2>5. Written(n, w, Entry(n, e, va))
      BY <1>1, <1>6, <2>3, <2>4, TlbGoodWritten
    <2>6. w \in MemRec /\ w.pte = n.pte /\ w.pde = n.pde
      BY <2>5 DEF Written
    <2>7. \A p \in Pages : Refs(w, p) < REFS
      BY <1>1, <2>3, <2>6, FewNext
    <2>8. \A p \in Pages : Refs(r.m, p) < REFS
      BY <2>2, <2>6, <2>7, RefsSame
    <2>9. RefsGood(r.m, lost)
      BY <1>1, <1>5, <1>10, <2>1, <2>8, RefsGoodPassive
    <2>10. RefsGood(n, lost)
      BY <2>2, <2>9
    <2> QED
      BY <1>8, <2>3, <2>10
  <1>11. \/ panic' = "no_mem" /\ UNCHANGED mem
         \/ \E w \in tlbwr(m, Entry(m, e, va)) : Becomes(w)
         \/ /\ Lookup(m, e, va).pp = NoPage
            /\ \E r \in passive_alloc(m, e, va) :
                 r.ok /\ \E w \in tlbwr(r.m, Entry(r.m, e, va)) : Becomes(w)
    <2>1. PICK o : /\ o = IF Lookup(m, e, va).pp # NoPage THEN {[ok |-> TRUE, m |-> m]}
                                                          ELSE passive_alloc(m, e, va)
                   /\ \/ \E r \in o : /\ r.ok
                                      /\ \E w \in tlbwr(r.m, Entry(r.m, e, va)) : Becomes(w)
                      \/ panic' = "no_mem" /\ UNCHANGED mem
      BY <1>2, <1>4, Zenon DEF do_tlb_refill
    <2>2. CASE Lookup(m, e, va).pp # NoPage
      <3>1. o = {[ok |-> TRUE, m |-> m]}
        BY <2>1, <2>2
      <3>2. \A r \in o : r.m = m
        BY <3>1
      <3> QED
        BY <2>1, <2>2, <3>2
    <2>3. CASE Lookup(m, e, va).pp = NoPage
      BY <2>1, <2>3
    <2> QED
      BY <2>2, <2>3
  <1> QED
    BY <1>7, <1>9, <1>10, <1>11

\* The boot state.
LEMMA InitRefInv == Init => RefInv
  <1> SUFFICES ASSUME Init PROVE RefInv
    OBVIOUS
  <1>1. TlbInv
    BY InitTlbInv
  <1>2. PICK m : m = Mem
    OBVIOUS
  <1>3. /\ m.ref = [p \in Pages |-> 0] /\ m.free = Pages /\ m.bad = FALSE
        /\ m.pde = [e \in Envs |-> [d \in Dirs |-> NoPage]]
        /\ m.pte = [e \in Envs |-> [va \in UserVas |-> Invalid]]
        /\ env_pgdir = [e \in Envs |-> NoPage] /\ lost = {} /\ orphans = {}
    BY <1>2, MemFacts DEF Init
  <1>4. ASSUME NEW p \in Pages PROVE Refs(m, p) = 0
    <2>1. PteAt(m.pte, p) = {} /\ PdeAt(m.pde, p) = {} /\ DirAt(p) = {}
      BY <1>3, PmapAssumption DEF PteAt, PdeAt, DirAt, Invalid
    <2>2. Cardinality(PteAt(m.pte, p)) = 0 /\ Cardinality(PdeAt(m.pde, p)) = 0 /\ Cardinality(DirAt(p)) = 0
      BY <2>1, FS_EmptySet
    <2> QED
      BY <1>3, <2>2 DEF Refs
  <1>5. Counted(m, lost)
    BY <1>3, <1>4 DEF Counted
  <1>6. Apart(m)
    BY <1>3 DEF Apart, Invalid
  <1>7. panic # "assert"
    BY DEF Init
  <1> QED
    BY <1>1, <1>2, <1>5, <1>6, <1>7 DEF RefInv

\* Every step keeps the invariant, as long as no count wraps around.
THEOREM NextRefInv == RefInv /\ FewRefs' /\ [Next]_vars => RefInv'
  <1> SUFFICES ASSUME RefInv, FewRefs', [Next]_vars PROVE RefInv'
    OBVIOUS
  <1>1. PICK k : k = Mem
    OBVIOUS
  <1>2. RefsGood(k, lost) /\ TlbGood(k) /\ k \in MemRec /\ TablesBack(k) /\ k.free = page_free_list
    BY <1>1, MemFacts DEF RefInv, TlbInv, RefsGood, TlbGood
  <1>3. TlbInv /\ TlbInv'
    BY NextTlbInv DEF RefInv
  <1>4. ASSUME NEW e \in Envs, env_alloc(e) PROVE RefInv'
    BY <1>3, <1>4, AllocRefInv
  <1>5. ASSUME NEW e \in Envs, env_free(e) PROVE RefInv'
    BY <1>3, <1>5, FreeRefInv
  <1>6. ASSUME NEW e \in Envs, NEW va \in UserVas, NEW d \in BOOLEAN, sys_mem_alloc(e, va, d)
        PROVE  RefInv'
    <2>1. /\ e \in Live /\ UNCHANGED <<env_pgdir, env_asid, orphans>>
          /\ \E p \in page_free_list : \E r \in page_insert(page_alloc(k, p), e, p, va, d) :
               Becomes(r.m) /\ lost' = IF r.ok THEN lost ELSE lost \cup {p}
      BY <1>1, <1>6 DEF sys_mem_alloc
    <2>2. PICK p \in k.free : \E r \in page_insert(page_alloc(k, p), e, p, va, d) :
               Becomes(r.m) /\ lost' = IF r.ok THEN lost ELSE lost \cup {p}
      BY <1>2, <2>1
    <2>3. PICK a : a = page_alloc(k, p)
      OBVIOUS
    <2>4. PICK r \in page_insert(a, e, p, va, d) :
               Becomes(r.m) /\ lost' = IF r.ok THEN lost ELSE lost \cup {p}
      BY <2>2, <2>3
    <2>5. RefsGood(a, lost \cup {p}) /\ p \in Pages /\ p \notin lost /\ p \notin a.free /\ NoTable(a, p)
      BY <1>2, <2>3, RefsGoodAlloc
    <2>6. TlbGood(r.m)
      BY <2>1, <2>4, <2>5, TlbGoodInsert DEF RefsGood
    <2>7. Refs(r.m, p) < REFS
      BY <2>1, <2>4, <2>5, <2>6, FewNext DEF TlbGood
    <2>8. RefsGood(r.m, IF r.ok THEN (lost \cup {p}) \ {p} ELSE lost \cup {p})
      BY <2>1, <2>4, <2>5, <2>7, RefsGoodInsert
    <2>9. RefsGood(r.m, lost')
      <3>1. (lost \cup {p}) \ {p} = lost
        BY <2>5
      <3> QED
        BY <2>4, <2>8, <3>1
    <2>10. PICK n : n = r.m
      OBVIOUS
    <2> QED
      BY <2>1, <2>4, <2>9, <2>10, PlainRefInv
  <1>7. ASSUME NEW e \in Envs, NEW f \in Envs, NEW va \in UserVas, NEW vb \in UserVas, NEW d \in BOOLEAN,
               sys_mem_map(e, va, f, vb, d)
        PROVE  RefInv'
    <2>1. PICK p : p = Lookup(k, e, va).pp
      OBVIOUS
    <2>2. /\ f \in Live /\ p # NoPage /\ UNCHANGED <<env_pgdir, env_asid, lost, orphans>>
          /\ \E r \in page_insert(k, f, p, vb, d) : Becomes(r.m)
      BY <1>1, <1>7, <2>1 DEF sys_mem_map
    <2>3. PICK r \in page_insert(k, f, p, vb, d) : Becomes(r.m)
      BY <2>2
    <2>4. p \in Pages /\ k.pte[e][va].pp = p
      BY <1>2, <2>1, <2>2, LookupUser
    <2>5. NoTable(k, p)
      BY <1>2, <2>2, <2>4 DEF RefsGood, Apart
    <2>6. Refs(k, p) > 0
      BY <2>4, PointedAt
    <2>7. p \notin k.free /\ p \notin lost
      BY <1>2, <2>4, <2>6 DEF RefsGood, Counted
    <2>8. TlbGood(r.m)
      BY <1>2, <2>2, <2>3, <2>4, TlbGoodInsert
    <2>9. Refs(r.m, p) < REFS
      BY <2>2, <2>3, <2>4, <2>8, FewNext DEF TlbGood
    <2>10. RefsGood(r.m, IF r.ok THEN lost \ {p} ELSE lost)
      BY <1>2, <2>2, <2>3, <2>4, <2>5, <2>7, <2>9, RefsGoodInsert
    <2>11. RefsGood(r.m, lost')
      <3>1. lost \ {p} = lost
        BY <2>7
      <3> QED
        BY <2>2, <2>10, <3>1
    <2>12. PICK n : n = r.m
      OBVIOUS
    <2> QED
      BY <2>2, <2>3, <2>11, <2>12, PlainRefInv
  <1>8. ASSUME NEW e \in Envs, NEW va \in UserVas, sys_mem_unmap(e, va) PROVE RefInv'
    <2>1. /\ e \in Live /\ UNCHANGED <<env_pgdir, env_asid, lost, orphans>>
          /\ Lookup(k, e, va).pp # NoPage /\ Becomes(page_remove(k, e, va))
      BY <1>1, <1>8 DEF sys_mem_unmap
    <2>2. PICK n : n = page_remove(k, e, va)
      OBVIOUS
    <2>3. PICK p : p = k.pte[e][va].pp /\ p \in Pages
      BY <1>2, <2>1, LookupUser
    <2>4. RefsGood(n, lost)
      BY <1>2, <2>1, <2>2, <2>3, RefsGoodRemove
    <2>5. RefsGood(n, lost')
      BY <2>1, <2>4
    <2> QED
      BY <2>1, <2>2, <2>5, PlainRefInv
  <1>9. ASSUME NEW e \in Envs, NEW va \in Vas, do_tlb_refill(e, va) PROVE RefInv'
    BY <1>9, RefillRefInv
  <1>10. CASE UNCHANGED vars
    <2>1. Mem' = Mem /\ UNCHANGED <<env_pgdir, env_asid, lost, orphans, panic>>
      BY <1>10 DEF vars, mem, Mem
    <2>2. \A p : Refs(Mem, p)' = Refs(k, p)
      BY <1>1, <2>1, RefsNext
    <2>3. Mem' = k /\ Counted(k, lost) /\ Apart(k)
      BY <1>1, <1>2, <2>1 DEF RefsGood
    <2>4. Counted(Mem, lost)'
      BY <2>1, <2>2, <2>3 DEF Counted
    <2>5. Apart(Mem)'
      BY <2>1, <2>3 DEF Apart, NoTable, NoDir
    <2> QED
      BY <1>3, <2>1, <2>4, <2>5 DEF RefInv
  <1> QED
    BY <1>4, <1>5, <1>6, <1>7, <1>8, <1>9, <1>10 DEF Next

\* Counts, free list and kinds are right in every reachable state, as long as no
\* page has REFS pointers.
THEOREM SpecRefInv == Spec /\ []FewRefs => []RefInv
  <1> QED
    BY InitRefInv, NextRefInv, PTL DEF Spec

\* Reference counting is exact until a page has 2^16 pointers: no page is freed while
\* a pte, a directory or an env names it, none leaks but on the two error paths and
\* with the tables above UVPT, which env_free keeps, and the assertion of page_decref
\* holds.
THEOREM CountsAreExact == Spec /\ []FewRefs => []PagesExact
  <1>1. RefInv => PagesExact
    <2> SUFFICES ASSUME RefInv PROVE PagesExact
      OBVIOUS
    <2>1. \A p \in Pages : Mem.ref[p] = Pointers(p) + (IF p \in orphans THEN 1 ELSE 0)
      BY RefsPointers DEF RefInv, Counted, RefsArePointers
    <2>2. Mem.free = { p \in Pages : Mem.ref[p] = 0 } \ lost
      BY DEF RefInv, Counted
    <2> QED
      BY <2>1, <2>2, MemFacts DEF PagesExact, RefInv
  <1> QED
    BY <1>1, SpecRefInv, PTL

\* Until then, too, a directory or page table is never mapped as data nor shared by
\* two envs.
THEOREM KindsStayApart == Spec /\ []FewRefs => []KindsApart
  <1>1. RefInv => KindsApart
    <2> SUFFICES ASSUME RefInv PROVE KindsApart
      OBVIOUS
    <2>1. PICK m : m = Mem
      OBVIOUS
    <2>2. m.pte = pte /\ m.pde = pde /\ Apart(m)
      BY <2>1, MemFacts DEF RefInv
    <2>3. \A e \in Live : e \in Envs /\ env_pgdir[e] # NoPage
      BY DEF Live
    <2>4. ASSUME NEW p \in orphans PROVE Pointers(p) = 0
      <3>1. p # NoPage
        BY <2>4, PmapAssumption DEF RefInv, TlbInv, EnvTypes
      <3>2. /\ PteAt(pte, p) = {}
            /\ PdeAt(pde, p) = {} /\ DirAt(p) = {}
        <4>1. \A x \in Envs \X UserVas : pte[x[1]][x[2]].pp # p
          BY <2>2, <2>4, <3>1 DEF Apart, NoTable
        <4>2. (\A x \in Envs \X Dirs : pde[x[1]][x[2]] # p) /\ \A e \in Envs : env_pgdir[e] # p
          BY <2>2, <2>4 DEF Apart, NoDir
        <4> QED
          BY <4>1, <4>2 DEF PteAt, PdeAt, DirAt
      <3>3. Cardinality(PteAt(pte, p)) = 0 /\ Cardinality(PdeAt(pde, p)) = 0 /\ Cardinality(DirAt(p)) = 0
        BY <3>2, FS_EmptySet
      <3>4. Pointers(p) = Cardinality(PteAt(pte, p)) + Cardinality(PdeAt(pde, p)) + Cardinality(DirAt(p))
        BY DEF Pointers, PteAt, PdeAt, DirAt
      <3> QED
        BY <3>3, <3>4
    <2> QED
      BY <2>2, <2>3, <2>4 DEF KindsApart, Apart, NoTable, NoDir
  <1> QED
    BY <1>1, SpecRefInv, PTL

\* With fewer places for pointers than pp_ref has values, no count can wrap.
Places == Cardinality(Envs \X UserVas) + Cardinality(Envs \X Dirs) + Cardinality(Envs)

\* Each place holds one pointer.
LEMMA PlacesBound == ASSUME Places + 1 < REFS PROVE FewRefs
  <1> SUFFICES ASSUME NEW p \in Pages
               PROVE  Pointers(p) + (IF p \in orphans THEN 1 ELSE 0) < REFS
    BY DEF FewRefs
  <1>1. PICK A, B, D : A = PteAt(pte, p) /\ B = PdeAt(pde, p) /\ D = DirAt(p)
    OBVIOUS
  <1>2. Pointers(p) = Cardinality(A) + Cardinality(B) + Cardinality(D)
    BY <1>1 DEF Pointers, PteAt, PdeAt, DirAt
  <1>3. A \subseteq Envs \X UserVas /\ B \subseteq Envs \X Dirs /\ D \subseteq Envs
    BY <1>1 DEF PteAt, PdeAt, DirAt
  <1>4. Cardinality(A) <= Cardinality(Envs \X UserVas) /\ Cardinality(B) <= Cardinality(Envs \X Dirs)
    BY <1>3, PlacesFinite, FS_Subset
  <1>5. Cardinality(D) <= Cardinality(Envs)
    BY <1>3, PmapAssumption, FS_Subset
  <1>6. /\ Cardinality(A) \in Nat /\ Cardinality(B) \in Nat /\ Cardinality(D) \in Nat
        /\ Cardinality(Envs \X UserVas) \in Nat /\ Cardinality(Envs \X Dirs) \in Nat /\ Cardinality(Envs) \in Nat
    BY <1>1, AtFinite, PlacesFinite, PmapAssumption, FS_CardinalityType
  <1> QED
    BY <1>2, <1>4, <1>5, <1>6, PmapAssumption DEF Places

\* A kernel with fewer places for pointers than pp_ref has values needs no further
\* assumption.  The configurations that are model-checked are such kernels.
COROLLARY ExactWhenFewPlaces == ASSUME Places + 1 < REFS PROVE Spec => [](PagesExact /\ KindsApart)
  <1>1. FewRefs
    BY PlacesBound
  <1> QED
    BY <1>1, CountsAreExact, KindsStayApart, PTL
==============================================================================
