---------------------------- MODULE FsServProofs ----------------------------
(***************************************************************************)
(* First the invariants of the file system, for disks, directories and     *)
(* files of any size.  Then clients and server: for any number of clients, *)
(* descriptors and calls, over any disk, the requests, answers and         *)
(* descriptors fit together, the open file table keeps the file of a       *)
(* descriptor, the file system keeps its invariants, and the pages behind  *)
(* a descriptor are the blocks of its file.                                *)
(***************************************************************************)
EXTENDS FsServ, MinLemmas, FiniteSetTheorems

\* The blocks a file can lie in or point to, the pointers, the places of a
\* struct File, and the contents of a block.
Blocks == {Super} \cup Data
Ptrs == {0} \cup Data
FileIds == Blocks \X Slots
Contents == [kind : {"zero"}] \cup [kind : {"data"}]
              \cup [kind : {"dir"}, files : [Slots -> FileType]]
              \cup [kind : {"ind"}, ptrs : [0..(NINDIRECT - 1) -> Ptrs]]

\* A cache that has not read a free block.
Caches == [blk : [Blocks -> Contents], free : SUBSET Data, dirty : SUBSET Blocks,
           written : SUBSET ({Super, Bitmap} \cup Data), panic : {"none", "truncate", "stale"}]

\* The places for a pointer: <<b, j, n>> is pointer n of slot j of block b read
\* as a directory, or pointer n of block b read as an indirect block.
Indirect == -1
Places == (Blocks \X Slots \X (0..NDIRECT)) \cup (Blocks \X {Indirect} \X (0..(NINDIRECT - 1)))

\* Pointer n of a file, and the pointer at a place.
PtrOf(file, n) == IF n = NDIRECT THEN file.indirect ELSE file.direct[n]
At(m, p) == IF p[2] = Indirect THEN AsInd(m.blk[p[1]])[p[3]] ELSE PtrOf(AsDir(m.blk[p[1]])[p[2]], p[3])

\* Nobody points to b.
Loose(m, b) == \A p \in Places : At(m, p) # b

\* No block has two owners or an owner and a mark as free.
OneOwner(m) == \A p, q \in Places : At(m, p) # 0 /\ At(m, p) = At(m, q) => p = q
Owned(m) == OneOwner(m) /\ \A b \in m.free : Loose(m, b)
Good(m) == m \in Caches /\ Owned(m)

-----------------------------------------------------------------------------
(***************************************************************************)
(* The contents of a block.                                                *)
(***************************************************************************)

\* Sizes and numbers.
LEMMA Numbers ==
    /\ NDIRECT \in Nat /\ NDIRECT > 0 /\ NINDIRECT \in Nat /\ NDIRECT < NINDIRECT
    /\ FILE2BLK \in Nat /\ FILE2BLK > 0
    /\ Data \subseteq Nat \ {0} /\ Blocks \subseteq Nat \ {0} /\ Data \subseteq Blocks /\ Super \in Blocks
    /\ Slots \subseteq Nat /\ 0 \in Slots /\ 0 \in Ptrs /\ Data \subseteq Ptrs
    /\ Indirect \notin Slots /\ Null \notin FileIds /\ Root \in FileIds
  BY FsAssumption DEF Data, Blocks, Slots, Super, Ptrs, Indirect, Null, FileIds, Root

\* An empty slot is a file.
LEMMA EmptyFileType == EmptyFile \in FileType /\ \A n \in 0..NDIRECT : PtrOf(EmptyFile, n) = 0
  BY Numbers DEF EmptyFile, FileType, Ptrs, PtrOf

\* A block read as a directory or as an indirect block, whatever it holds.
LEMMA ReadsTyped ==
    ASSUME NEW c \in Contents
    PROVE  AsDir(c) \in [Slots -> FileType] /\ AsInd(c) \in [0..(NINDIRECT - 1) -> Ptrs]
  <1>1. CASE c \in [kind : {"dir"}, files : [Slots -> FileType]]
    BY <1>1, Numbers DEF AsDir, AsInd, NoPtrs
  <1>2. CASE c \in [kind : {"ind"}, ptrs : [0..(NINDIRECT - 1) -> Ptrs]]
    BY <1>2, EmptyFileType DEF AsDir, AsInd
  <1>3. CASE c \in [kind : {"zero"}] \cup [kind : {"data"}]
    BY <1>3, EmptyFileType, Numbers DEF AsDir, AsInd, NoPtrs
  <1> QED
    BY <1>1, <1>2, <1>3 DEF Contents

\* A directory block holds no pointers of an indirect block, and the other way round.
LEMMA DirBlockReads ==
    ASSUME NEW files \in [Slots -> FileType]
    PROVE  /\ DirBlock(files) \in Contents /\ AsDir(DirBlock(files)) = files
           /\ AsInd(DirBlock(files)) = NoPtrs
  BY DEF DirBlock, Contents, AsDir, AsInd

\* An indirect block reads back as the pointers written into it, and as no file.
LEMMA IndBlockReads ==
    ASSUME NEW ptrs \in [0..(NINDIRECT - 1) -> Ptrs]
    PROVE  /\ IndBlock(ptrs) \in Contents /\ AsInd(IndBlock(ptrs)) = ptrs
           /\ AsDir(IndBlock(ptrs)) = [j \in Slots |-> EmptyFile]
  <1>1. CASE ptrs = NoPtrs
    BY <1>1 DEF IndBlock, Contents, AsDir, AsInd, Zero
  <1>2. CASE ptrs # NoPtrs
    BY <1>2 DEF IndBlock, Contents, AsDir, AsInd
  <1> QED
    BY <1>1, <1>2

-----------------------------------------------------------------------------
(***************************************************************************)
(* Changing the cache.                                                     *)
(***************************************************************************)

\* The fields of a cache.
LEMMA CacheFields ==
    ASSUME NEW m \in Caches
    PROVE  /\ m.blk \in [Blocks -> Contents] /\ m.free \subseteq Data /\ m.dirty \subseteq Blocks
           /\ m.written \subseteq {Super, Bitmap} \cup Data /\ m.panic \in {"none", "truncate", "stale"}
  BY DEF Caches

\* A file that the cache holds.
LEMMA FileTyped ==
    ASSUME NEW m \in Caches, NEW f \in FileIds
    PROVE  /\ f[1] \in Blocks /\ f[2] \in Slots /\ AsDir(m.blk[f[1]]) \in [Slots -> FileType]
           /\ File(m, f) \in FileType
           /\ File(m, f).size \in 0..(NINDIRECT + 1) /\ File(m, f).indirect \in Ptrs
           /\ File(m, f).direct \in [0..(NDIRECT - 1) -> Ptrs]
           /\ File(m, f).dir \in {Null} \cup FileIds /\ File(m, f).isdir \in BOOLEAN
  <1>1. f[1] \in Blocks /\ f[2] \in Slots
    BY DEF FileIds
  <1>2. AsDir(m.blk[f[1]]) \in [Slots -> FileType]
    BY <1>1, CacheFields, ReadsTyped
  <1>3. File(m, f) \in FileType
    BY <1>1, <1>2 DEF File
  <1> QED
    BY <1>1, <1>2, <1>3 DEF FileType, Ptrs, FileIds, Blocks

\* What a place holds.
LEMMA AtTyped ==
    ASSUME NEW m \in Caches, NEW p \in Places
    PROVE  At(m, p) \in Ptrs
  <1>1. CASE p \in Blocks \X Slots \X (0..NDIRECT)
    <2>1. p[1] \in Blocks /\ p[2] \in Slots /\ p[3] \in 0..NDIRECT /\ p[2] # Indirect
      BY <1>1, Numbers
    <2>2. AsDir(m.blk[p[1]])[p[2]] \in FileType
      BY <2>1, CacheFields, ReadsTyped
    <2>3. PtrOf(AsDir(m.blk[p[1]])[p[2]], p[3]) \in Ptrs
      BY <2>1, <2>2, Numbers DEF PtrOf, FileType, Ptrs
    <2> QED
      BY <2>1, <2>3 DEF At
  <1>2. CASE p \in Blocks \X {Indirect} \X (0..(NINDIRECT - 1))
    <2>1. p[1] \in Blocks /\ p[2] = Indirect /\ p[3] \in 0..(NINDIRECT - 1)
      BY <1>2
    <2>2. AsInd(m.blk[p[1]]) \in [0..(NINDIRECT - 1) -> Ptrs]
      BY <2>1, CacheFields, ReadsTyped
    <2> QED
      BY <2>1, <2>2 DEF At
  <1> QED
    BY <1>1, <1>2 DEF Places

\* n is the cache m but for the contents of blocks.
Retyped(m, n) == /\ n \in Caches /\ n.free = m.free /\ n.panic = m.panic
                 /\ n.dirty = m.dirty /\ n.written = m.written

\* A place keeps what it holds or is cleared.
Kept(m, n, p) == At(n, p) = 0 \/ At(n, p) = At(m, p)

\* The contents of one block change.
Rewritten(m, b, c) == [m EXCEPT !.blk[b] = c]

\* Changing the contents of one block keeps the cache typed and the other blocks.
LEMMA SetBlk ==
    ASSUME NEW m \in Caches, NEW b \in Blocks, NEW c \in Contents, NEW n, n = Rewritten(m, b, c)
    PROVE  /\ Retyped(m, n)
           /\ n.blk[b] = c /\ \A a \in Blocks \ {b} : n.blk[a] = m.blk[a]
  <1>1. m.blk \in [Blocks -> Contents]
    BY CacheFields
  <1>2. [m.blk EXCEPT ![b] = c] \in [Blocks -> Contents]
    BY <1>1
  <1>3. n = [m EXCEPT !.blk = [m.blk EXCEPT ![b] = c]]
    BY <1>1 DEF Caches, Rewritten
  <1>4. n.blk = [m.blk EXCEPT ![b] = c]
    BY <1>3 DEF Caches
  <1> QED
    BY <1>1, <1>2, <1>3, <1>4 DEF Caches, Retyped

\* *f = new changes the pointers of f; the other files of the block stay, and
\* what the block held as an indirect block is gone.
LEMMA PutFile ==
    ASSUME NEW m \in Caches, NEW f \in FileIds, NEW new \in FileType, NEW n, n = Put(m, f, new)
    PROVE  /\ Retyped(m, n) /\ File(n, f) = new
           /\ \A g \in FileIds \ {f} : File(n, g) = File(m, g)
           /\ \A p \in Places : IF p[1] = f[1] /\ p[2] = f[2] THEN At(n, p) = PtrOf(new, p[3])
                                ELSE Kept(m, n, p)
  <1> DEFINE files == [AsDir(m.blk[f[1]]) EXCEPT ![f[2]] = new]
  <1>1. f[1] \in Blocks /\ f[2] \in Slots /\ AsDir(m.blk[f[1]]) \in [Slots -> FileType]
    BY FileTyped
  <1>2. files \in [Slots -> FileType] /\ files[f[2]] = new
        /\ \A j \in Slots \ {f[2]} : files[j] = AsDir(m.blk[f[1]])[j]
    BY <1>1
  <1>3. n = Rewritten(m, f[1], DirBlock(files))
    BY DEF Put, Rewritten
  <1> HIDE DEF files
  <1>4. /\ DirBlock(files) \in Contents /\ AsDir(DirBlock(files)) = files /\ AsInd(DirBlock(files)) = NoPtrs
    BY <1>2, DirBlockReads
  <1>5. /\ Retyped(m, n) /\ n.blk[f[1]] = DirBlock(files) /\ \A a \in Blocks \ {f[1]} : n.blk[a] = m.blk[a]
    BY <1>1, <1>3, <1>4, SetBlk
  <1>6. File(n, f) = new
    BY <1>2, <1>4, <1>5 DEF File
  <1>7. ASSUME NEW g \in FileIds \ {f} PROVE File(n, g) = File(m, g)
    <2>1. g[1] \in Blocks /\ g[2] \in Slots /\ (g[1] = f[1] => g[2] # f[2])
      BY <1>7 DEF FileIds
    <2> QED
      BY <1>2, <1>4, <1>5, <2>1 DEF File
  <1>8. ASSUME NEW p \in Places
        PROVE  IF p[1] = f[1] /\ p[2] = f[2] THEN At(n, p) = PtrOf(new, p[3]) ELSE Kept(m, n, p)
    <2>1. p[1] \in Blocks /\ (p[2] \in Slots \/ (p[2] = Indirect /\ p[3] \in 0..(NINDIRECT - 1)))
      BY DEF Places
    <2>2. CASE p[1] # f[1]
      <3>1. n.blk[p[1]] = m.blk[p[1]]
        BY <1>5, <2>1, <2>2
      <3>2. At(n, p) = At(m, p)
        BY <3>1, Zenon DEF At
      <3> QED
        BY <2>2, <3>2 DEF Kept
    <2>3. CASE p[1] = f[1] /\ p[2] \in Slots
      <3>1. At(n, p) = PtrOf(files[p[2]], p[3]) /\ At(m, p) = PtrOf(AsDir(m.blk[p[1]])[p[2]], p[3])
        BY <1>4, <1>5, <2>3, Numbers DEF At
      <3>2. p[2] # f[2] => At(n, p) = At(m, p)
        BY <1>2, <2>3, <3>1
      <3>3. p[2] = f[2] => At(n, p) = PtrOf(new, p[3])
        BY <1>2, <2>3, <3>1
      <3> QED
        BY <2>3, <3>2, <3>3 DEF Kept
    <2>4. CASE p[1] = f[1] /\ p[2] = Indirect /\ p[3] \in 0..(NINDIRECT - 1)
      <3>1. At(n, p) = NoPtrs[p[3]]
        BY <1>4, <1>5, <2>4 DEF At
      <3> QED
        BY <1>1, <2>4, <3>1, Numbers DEF NoPtrs, Kept
    <2> QED
      BY <2>1, <2>2, <2>3, <2>4
  <1> QED
    BY <1>5, <1>6, <1>7, <1>8

\* No file grows.
NoGrowth(m, n) == \A g \in FileIds : File(n, g).size <= File(m, g).size

\* One place gets the value v, the others keep theirs or are cleared.
SetsPlace(m, n, p0, v) == p0 \in Places /\ At(n, p0) = v /\ \A p \in Places \ {p0} : Kept(m, n, p)

\* *f = new without a change of its pointers but one.
LEMMA PutPointer ==
    ASSUME NEW m \in Caches, NEW f \in FileIds, NEW k \in 0..NDIRECT, NEW new \in FileType,
           new.size <= File(m, f).size,
           \A i \in (0..NDIRECT) \ {k} : PtrOf(new, i) = PtrOf(File(m, f), i)
    PROVE  /\ Retyped(m, Put(m, f, new)) /\ NoGrowth(m, Put(m, f, new))
           /\ SetsPlace(m, Put(m, f, new), <<f[1], f[2], k>>, PtrOf(new, k))
           /\ At(m, <<f[1], f[2], k>>) = PtrOf(File(m, f), k)
  <1> DEFINE p0 == <<f[1], f[2], k>>
  <1>1. PICK n : n = Put(m, f, new)
    OBVIOUS
  <1>2. /\ Retyped(m, n) /\ File(n, f) = new
        /\ \A g \in FileIds \ {f} : File(n, g) = File(m, g)
        /\ \A p \in Places : IF p[1] = f[1] /\ p[2] = f[2] THEN At(n, p) = PtrOf(new, p[3])
                             ELSE Kept(m, n, p)
    BY <1>1, PutFile
  <1>3. f[1] \in Blocks /\ f[2] \in Slots /\ f[2] # Indirect
    BY Numbers DEF FileIds
  <1>4. p0 \in Places
    BY <1>3 DEF Places
  <1>5. p0[1] = f[1] /\ p0[2] = f[2] /\ p0[3] = k
    OBVIOUS
  <1>6. NoGrowth(m, n)
    <2> SUFFICES ASSUME NEW g \in FileIds PROVE File(n, g).size <= File(m, g).size
      BY DEF NoGrowth
    <2>1. CASE g = f
      BY <1>2, <2>1
    <2>2. CASE g # f
      BY <1>2, <2>2, FileTyped
    <2> QED
      BY <2>1, <2>2
  <1>7. At(n, p0) = PtrOf(new, k)
    BY <1>2, <1>4, <1>5
  <1>8. ASSUME NEW p \in Places \ {p0} PROVE Kept(m, n, p)
    <2>1. CASE p[1] = f[1] /\ p[2] = f[2]
      <3>1. p[3] \in (0..NDIRECT) \ {k} /\ p[2] # Indirect
        BY <1>3, <1>8, <2>1 DEF Places
      <3>2. At(n, p) = PtrOf(File(m, f), p[3])
        BY <1>2, <2>1, <3>1
      <3>3. At(m, p) = PtrOf(File(m, f), p[3])
        BY <2>1, <3>1 DEF At, File
      <3> QED
        BY <3>2, <3>3 DEF Kept
    <2>2. CASE ~(p[1] = f[1] /\ p[2] = f[2])
      BY <1>2, <2>2
    <2> QED
      BY <2>1, <2>2
  <1>9. At(m, p0) = PtrOf(File(m, f), k)
    BY <1>3, <1>5 DEF At, File
  <1> HIDE DEF p0
  <1>10. SetsPlace(m, n, p0, PtrOf(new, k))
    BY <1>4, <1>7, <1>8 DEF SetsPlace
  <1> QED
    BY <1>1, <1>2, <1>6, <1>9, <1>10 DEF p0

\* The pointer to block k of f has a place, which SetPtr sets.
HasPtr(m, f, k) == k \in 0..(NINDIRECT - 1) /\ (k < NDIRECT \/ File(m, f).indirect # 0)

\* SetPtr writes exactly the place that Ptr reads.
LEMMA SetPtrPlace ==
    ASSUME NEW m \in Caches, NEW f \in FileIds, NEW k, HasPtr(m, f, k), NEW v \in Ptrs
    PROVE  /\ Retyped(m, SetPtr(m, f, k, v)) /\ NoGrowth(m, SetPtr(m, f, k, v))
           /\ \E p \in Places : SetsPlace(m, SetPtr(m, f, k, v), p, v) /\ At(m, p) = Ptr(m, f, k)
  <1>1. File(m, f) \in FileType /\ File(m, f).size \in Nat /\ k \in Nat
    BY FileTyped, Numbers DEF HasPtr
  <1>2. CASE k < NDIRECT
    <2>1. PICK new : new = [File(m, f) EXCEPT !.direct[k] = v]
      OBVIOUS
    <2>2. new \in FileType /\ new.size = File(m, f).size /\ new.direct[k] = v /\ new.indirect = File(m, f).indirect
          /\ \A i \in (0..(NDIRECT - 1)) \ {k} : new.direct[i] = File(m, f).direct[i]
      <3>1. k \in 0..(NDIRECT - 1)
        BY <1>1, <1>2, Numbers
      <3>2. new = [File(m, f) EXCEPT !.direct = [File(m, f).direct EXCEPT ![k] = v]]
        BY <1>1, <2>1 DEF FileType
      <3>3. PICK d : d = [File(m, f).direct EXCEPT ![k] = v]
        OBVIOUS
      <3>4. d \in [0..(NDIRECT - 1) -> Ptrs] /\ d[k] = v
            /\ \A i \in (0..(NDIRECT - 1)) \ {k} : d[i] = File(m, f).direct[i]
        BY <3>1, <3>3, FileTyped
      <3>5. new = [File(m, f) EXCEPT !.direct = d]
        BY <3>2, <3>3
      <3> QED
        BY <1>1, <3>4, <3>5 DEF FileType, Ptrs
    <2>3. PtrOf(new, k) = v /\ PtrOf(File(m, f), k) = Ptr(m, f, k)
      BY <1>1, <1>2, <2>2, Numbers DEF PtrOf, Ptr
    <2>4. \A i \in (0..NDIRECT) \ {k} : PtrOf(new, i) = PtrOf(File(m, f), i)
      BY <2>2, Numbers DEF PtrOf
    <2>5. k \in 0..NDIRECT /\ SetPtr(m, f, k, v) = Put(m, f, new)
      BY <1>1, <1>2, <2>1, Numbers DEF SetPtr
    <2>6. /\ Retyped(m, Put(m, f, new)) /\ NoGrowth(m, Put(m, f, new))
          /\ SetsPlace(m, Put(m, f, new), <<f[1], f[2], k>>, v)
          /\ At(m, <<f[1], f[2], k>>) = Ptr(m, f, k)
      BY <1>1, <2>2, <2>3, <2>4, <2>5, PutPointer
    <2> QED
      BY <2>5, <2>6 DEF SetsPlace
  <1>3. CASE ~(k < NDIRECT)
    <2> DEFINE b == File(m, f).indirect
               ptrs == [AsInd(m.blk[b]) EXCEPT ![k] = v]
               p0 == <<b, Indirect, k>>
    <2>1. b \in Data /\ b \in Blocks /\ k \in 0..(NINDIRECT - 1)
      BY <1>3, FileTyped, Numbers DEF HasPtr, Ptrs
    <2>2. AsInd(m.blk[b]) \in [0..(NINDIRECT - 1) -> Ptrs]
      BY <2>1, CacheFields, ReadsTyped
    <2>3. ptrs \in [0..(NINDIRECT - 1) -> Ptrs] /\ ptrs[k] = v
          /\ \A i \in (0..(NINDIRECT - 1)) \ {k} : ptrs[i] = AsInd(m.blk[b])[i]
      BY <2>1, <2>2
    <2>4. PICK n : n = SetPtr(m, f, k, v)
      OBVIOUS
    <2>5. n = Rewritten(m, b, IndBlock(ptrs))
      BY <1>3, <2>4 DEF SetPtr, Rewritten
    <2>6. Ptr(m, f, k) = AsInd(m.blk[b])[k]
      BY <1>3 DEF Ptr
    <2> HIDE DEF ptrs, b
    <2>7. /\ IndBlock(ptrs) \in Contents /\ AsInd(IndBlock(ptrs)) = ptrs
          /\ AsDir(IndBlock(ptrs)) = [j \in Slots |-> EmptyFile]
      BY <2>3, IndBlockReads
    <2>8. /\ Retyped(m, n) /\ n.blk[b] = IndBlock(ptrs) /\ \A a \in Blocks \ {b} : n.blk[a] = m.blk[a]
      BY <2>1, <2>5, <2>7, SetBlk
    <2>9. NoGrowth(m, n)
      <3> SUFFICES ASSUME NEW g \in FileIds PROVE File(n, g).size <= File(m, g).size
        BY DEF NoGrowth
      <3>1. g[1] \in Blocks /\ g[2] \in Slots /\ File(m, g).size \in Nat
        BY FileTyped, Numbers
      <3>2. CASE g[1] = b
        <4>1. File(n, g) = EmptyFile
          BY <2>7, <2>8, <3>1, <3>2 DEF File
        <4> QED
          BY <3>1, <4>1 DEF EmptyFile
      <3>3. CASE g[1] # b
        <4>1. n.blk[g[1]] = m.blk[g[1]]
          BY <2>8, <3>1, <3>3
        <4> QED
          BY <3>1, <4>1 DEF File
      <3> QED
        BY <3>2, <3>3
    <2>10. p0 \in Places /\ p0[1] = b /\ p0[2] = Indirect /\ p0[3] = k
      BY <2>1 DEF Places
    <2>11. At(n, p0) = v /\ At(m, p0) = Ptr(m, f, k)
      BY <2>3, <2>6, <2>7, <2>8, <2>10 DEF At
    <2>12. ASSUME NEW p \in Places \ {p0} PROVE Kept(m, n, p)
      <3>1. p[1] \in Blocks
        BY DEF Places
      <3>2. CASE p[1] # b
        <4>1. n.blk[p[1]] = m.blk[p[1]]
          BY <2>8, <3>1, <3>2
        <4>2. At(n, p) = At(m, p)
          BY <4>1, Zenon DEF At
        <4> QED
          BY <4>2 DEF Kept
      <3>3. CASE p[1] = b /\ p \in Blocks \X Slots \X (0..NDIRECT)
        <4>1. p[2] \in Slots /\ p[2] # Indirect /\ p[3] \in 0..NDIRECT
          BY <3>3, Numbers
        <4>2. At(n, p) = PtrOf(EmptyFile, p[3])
          BY <2>7, <2>8, <3>3, <4>1 DEF At
        <4> QED
          BY <4>1, <4>2, EmptyFileType DEF Kept
      <3>4. CASE p[1] = b /\ p \in Blocks \X {Indirect} \X (0..(NINDIRECT - 1))
        <4>1. p[2] = Indirect /\ p[3] \in (0..(NINDIRECT - 1)) \ {k}
          BY <2>12, <3>4
        <4>2. At(n, p) = At(m, p)
          <5>1. At(n, p) = ptrs[p[3]]
            BY <2>7, <2>8, <3>4, <4>1 DEF At
          <5>2. At(m, p) = AsInd(m.blk[b])[p[3]]
            BY <3>4, <4>1 DEF At
          <5> QED
            BY <2>3, <4>1, <5>1, <5>2
        <4> QED
          BY <4>2 DEF Kept
      <3> QED
        BY <3>1, <3>2, <3>3, <3>4 DEF Places
    <2> HIDE DEF p0
    <2>13. SetsPlace(m, n, p0, v)
      BY <2>10, <2>11, <2>12 DEF SetsPlace
    <2> QED
      BY <2>4, <2>8, <2>9, <2>10, <2>11, <2>13
  <1> QED
    BY <1>2, <1>3

-----------------------------------------------------------------------------
(***************************************************************************)
(* Owners.                                                                 *)
(***************************************************************************)

\* Block b has just been allocated: it is in use and has no owner.
Fresh(m, b) == b \in Data /\ b \notin m.free /\ Loose(m, b)

\* Places are only cleared.
LEMMA OwnersDropped ==
    ASSUME NEW m, Owned(m), NEW n, n.free \subseteq m.free, \A p \in Places : Kept(m, n, p), 0 \notin m.free
    PROVE  Owned(n)
  BY DEF Owned, OneOwner, Loose, Kept

\* A fresh block gets an owner.
LEMMA OwnerAdded ==
    ASSUME NEW m, Owned(m), NEW n, n.free = m.free, NEW v, Fresh(m, v), NEW p0, SetsPlace(m, n, p0, v),
           0 \notin m.free
    PROVE  Owned(n)
  <1>1. ASSUME NEW p \in Places, NEW q \in Places, At(n, p) # 0, At(n, p) = At(n, q) PROVE p = q
    <2>1. CASE p = p0 \/ q = p0
      BY <1>1, <2>1 DEF SetsPlace, Kept, Fresh, Loose
    <2>2. CASE p # p0 /\ q # p0
      BY <1>1, <2>2 DEF SetsPlace, Kept, Owned, OneOwner
    <2> QED
      BY <2>1, <2>2
  <1>2. ASSUME NEW b \in n.free, NEW p \in Places PROVE At(n, p) # b
    <2>1. CASE p = p0
      BY <1>2, <2>1 DEF SetsPlace, Fresh
    <2>2. CASE p # p0
      BY <1>2, <2>2 DEF SetsPlace, Kept, Owned, Loose
    <2> QED
      BY <2>1, <2>2
  <1> QED
    BY <1>1, <1>2 DEF Owned, OneOwner, Loose

\* A block is freed and its owner's pointer cleared.
LEMMA OwnerFreed ==
    ASSUME NEW m, Owned(m), NEW n, NEW p0, SetsPlace(m, n, p0, 0), At(m, p0) # 0,
           n.free = m.free \cup {At(m, p0)}, 0 \notin m.free
    PROVE  Owned(n)
  <1>1. ASSUME NEW p \in Places, NEW q \in Places, At(n, p) # 0, At(n, p) = At(n, q) PROVE p = q
    BY <1>1 DEF SetsPlace, Kept, Owned, OneOwner
  <1>2. ASSUME NEW b \in n.free, NEW p \in Places PROVE At(n, p) # b
    <2>1. CASE p = p0
      BY <1>2, <2>1 DEF SetsPlace
    <2>2. CASE p # p0
      BY <1>2, <2>2 DEF SetsPlace, Kept, Owned, OneOwner, Loose
    <2> QED
      BY <2>1, <2>2
  <1> QED
    BY <1>1, <1>2 DEF Owned, OneOwner, Loose

\* Places and files depend on the contents of blocks only.
LEMMA SameContents ==
    ASSUME NEW m, NEW n, n.blk = m.blk
    PROVE  /\ \A p : At(n, p) = At(m, p)
           /\ \A f : File(n, f) = File(m, f)
           /\ \A f, k : Ptr(n, f, k) = Ptr(m, f, k)
  BY DEF At, File, Ptr

\* The zero block is never free.
LEMMA ZeroNotFree == ASSUME NEW m \in Caches PROVE 0 \notin m.free
  BY CacheFields, Numbers

-----------------------------------------------------------------------------
(***************************************************************************)
(* What routines return.                                                   *)
(***************************************************************************)
\* The error codes, and the values that routines return.
Codes == {"ok", "NO_DISK", "INVAL", "NOT_FOUND", "scan", "FILE_EXISTS"}
Results == [r : Codes, m : Caches, b : Ptrs, file : {Null} \cup FileIds, dir : {Null} \cup FileIds]

\* A routine that was called with the cache m returns x.
Returns(m, x) == x \in Results /\ Owned(x.m) /\ NoGrowth(m, x.m)

\* The fields of a returned value.
LEMMA ResultFields ==
    ASSUME NEW x \in Results
    PROVE  /\ x.r \in Codes /\ x.m \in Caches /\ x.b \in Ptrs
           /\ x.file \in {Null} \cup FileIds /\ x.dir \in {Null} \cup FileIds
  BY DEF Results

\* What Ok and Err return.
LEMMA OkErr ==
    ASSUME NEW m \in Caches, NEW why \in Codes
    PROVE  /\ Ok(m) \in Results /\ Ok(m).r = "ok" /\ Ok(m).m = m /\ Ok(m).b = 0
           /\ Err(m, why) \in Results /\ Err(m, why).r = why /\ Err(m, why).m = m
  BY Numbers DEF Ok, Err, Results, Codes

\* No file grows where the contents stay, nor in two steps.
LEMMA GrowthFacts ==
    /\ \A m \in Caches : \A n : n.blk = m.blk => NoGrowth(m, n)
    /\ \A k \in Caches, m \in Caches, n \in Caches : NoGrowth(k, m) /\ NoGrowth(m, n) => NoGrowth(k, n)
  <1>1. ASSUME NEW m \in Caches, NEW n, n.blk = m.blk PROVE NoGrowth(m, n)
    <2> SUFFICES ASSUME NEW g \in FileIds PROVE File(n, g).size <= File(m, g).size
      BY DEF NoGrowth
    <2>1. File(n, g) = File(m, g) /\ File(m, g).size \in 0..(NINDIRECT + 1)
      BY <1>1, SameContents, FileTyped
    <2> QED
      BY <2>1
  <1>2. ASSUME NEW k \in Caches, NEW m \in Caches, NEW n \in Caches, NoGrowth(k, m), NoGrowth(m, n)
        PROVE  NoGrowth(k, n)
    <2> SUFFICES ASSUME NEW g \in FileIds PROVE File(n, g).size <= File(k, g).size
      BY DEF NoGrowth
    <2>1. File(n, g).size \in 0..(NINDIRECT + 1) /\ File(m, g).size \in 0..(NINDIRECT + 1)
          /\ File(k, g).size \in 0..(NINDIRECT + 1)
      BY FileTyped
    <2>2. File(n, g).size <= File(m, g).size /\ File(m, g).size <= File(k, g).size
      BY <1>2 DEF NoGrowth
    <2> QED
      BY <2>1, <2>2
  <1> QED
    BY <1>1, <1>2

\* alloc_block takes a block that was free.
LEMMA AllocBlock ==
    ASSUME NEW m, Good(m), NEW x, x = alloc_block(m)
    PROVE  /\ Returns(m, x) /\ x.r \in {"ok", "NO_DISK"} /\ x.m.blk = m.blk
           /\ x.r = "ok" => Fresh(x.m, x.b)
  <1>1. m \in Caches /\ Owned(m) /\ m.free \subseteq Data /\ m.free \subseteq Nat
    BY CacheFields, Numbers DEF Good
  <1>2. CASE m.free = {}
    <2>1. x = Err(m, "NO_DISK")
      BY <1>2 DEF alloc_block
    <2>2. x \in Results /\ x.r = "NO_DISK" /\ x.m = m
      BY <1>1, <2>1, OkErr DEF Codes
    <2> QED
      BY <1>1, <2>2, GrowthFacts DEF Returns
  <1>3. CASE m.free # {}
    <2>1. PICK b : b = Min(m.free)
      OBVIOUS
    <2>2. b \in m.free
      BY <1>1, <1>3, <2>1, MinIsMember
    <2>3. PICK n : n = write_block([m EXCEPT !.free = @ \ {Min(@)}], Bitmap)
      OBVIOUS
    <2>4. n = [m EXCEPT !.free = m.free \ {b}, !.written = m.written \cup {Bitmap}]
      BY <1>1, <2>1, <2>3 DEF write_block, Caches
    <2>5. n \in Caches /\ n.blk = m.blk /\ n.free = m.free \ {b}
      BY <1>1, <2>4 DEF Caches
    <2>6. x = [Ok(n) EXCEPT !.b = b]
      BY <1>3, <2>1, <2>3 DEF alloc_block
    <2>7. x \in Results /\ x.r = "ok" /\ x.m = n /\ x.b = b
      BY <1>1, <2>2, <2>5, <2>6, Numbers DEF Ok, Results, Codes
    <2>8. \A p \in Places : At(n, p) = At(m, p)
      BY <2>5, SameContents
    <2>9. Fresh(n, b)
      BY <1>1, <2>2, <2>5, <2>8 DEF Fresh, Loose, Owned
    <2>10. Owned(n)
      BY <1>1, <2>5, <2>8, ZeroNotFree, OwnersDropped DEF Kept
    <2>11. NoGrowth(m, n)
      BY <1>1, <2>5, GrowthFacts
    <2> QED
      BY <2>5, <2>7, <2>9, <2>10, <2>11 DEF Returns
  <1> QED
    BY <1>2, <1>3

\* A new indirect block is linked.
LEMMA IndirectLinked ==
    ASSUME NEW m, Good(m), NEW f \in FileIds, NEW b, Fresh(m, b),
           NEW n, n = Put(m, f, [File(m, f) EXCEPT !.indirect = b])
    PROVE  Good(n) /\ NoGrowth(m, n) /\ File(n, f).indirect = b /\ n.free = m.free
  <1>1. m \in Caches /\ Owned(m) /\ b \in Ptrs
    BY Numbers DEF Good, Fresh
  <1>2. PICK new : new = [File(m, f) EXCEPT !.indirect = b]
    OBVIOUS
  <1>3. new \in FileType /\ new.size = File(m, f).size /\ new.direct = File(m, f).direct /\ new.indirect = b
    <2>1. PICK old : old = File(m, f)
      OBVIOUS
    <2>2. old \in FileType /\ new = [old EXCEPT !.indirect = b]
      BY <1>1, <1>2, <2>1, FileTyped
    <2>3. new \in FileType /\ new.size = old.size /\ new.direct = old.direct /\ new.indirect = b
      BY <1>1, <2>2 DEF FileType, Ptrs
    <2> QED
      BY <2>1, <2>3
  <1>4. new.size <= File(m, f).size
    BY <1>1, <1>3, FileTyped
  <1>5. PtrOf(new, NDIRECT) = b /\ \A i \in (0..NDIRECT) \ {NDIRECT} : PtrOf(new, i) = PtrOf(File(m, f), i)
    BY <1>3 DEF PtrOf
  <1>6. NDIRECT \in 0..NDIRECT /\ n = Put(m, f, new)
    BY <1>2, Numbers
  <1>7. Retyped(m, n) /\ NoGrowth(m, n) /\ SetsPlace(m, n, <<f[1], f[2], NDIRECT>>, b)
    BY <1>1, <1>3, <1>4, <1>5, <1>6, PutPointer
  <1>8. Owned(n)
    BY <1>1, <1>7, OwnerAdded, ZeroNotFree DEF Retyped
  <1>9. File(n, f) = new
    BY <1>1, <1>3, <1>6, PutFile
  <1> QED
    BY <1>3, <1>7, <1>8, <1>9 DEF Good, Retyped

\* A new block is linked.
LEMMA BlockLinked ==
    ASSUME NEW m, Good(m), NEW f \in FileIds, NEW k, HasPtr(m, f, k), NEW b, Fresh(m, b),
           NEW n, n = SetPtr(m, f, k, b)
    PROVE  Good(n) /\ NoGrowth(m, n) /\ n.free = m.free
  <1>1. m \in Caches /\ Owned(m) /\ b \in Ptrs
    BY Numbers DEF Good, Fresh
  <1>2. Retyped(m, n) /\ NoGrowth(m, n) /\ \E p \in Places : SetsPlace(m, n, p, b)
    BY <1>1, SetPtrPlace
  <1>3. Owned(n)
    BY <1>1, <1>2, OwnerAdded, ZeroNotFree DEF Retyped
  <1> QED
    BY <1>2, <1>3 DEF Good, Retyped

\* The indirect block of a file is in use.
LEMMA IndirectInUse ==
    ASSUME NEW m, Good(m), NEW f \in FileIds
    PROVE  File(m, f).indirect \notin m.free
  <1>1. f[1] \in Blocks /\ f[2] \in Slots /\ f[2] # Indirect /\ m \in Caches
    BY Numbers DEF FileIds, Good
  <1>2. PICK p : p = <<f[1], f[2], NDIRECT>>
    OBVIOUS
  <1>3. p \in Places /\ p[1] = f[1] /\ p[2] = f[2] /\ p[3] = NDIRECT
    BY <1>1, <1>2, Numbers DEF Places
  <1>4. At(m, p) = File(m, f).indirect
    BY <1>1, <1>3 DEF At, PtrOf, File
  <1> QED
    BY <1>3, <1>4 DEF Good, Owned, Loose

\* read_block of a block in use.
LEMMA ReadInUse ==
    ASSUME NEW m, NEW b, b \notin m.free
    PROVE  read_block(m, b) = m
  BY DEF read_block

\* file_block_walk finds the place of the pointer.
LEMMA FileBlockWalk ==
    ASSUME NEW m, Good(m), NEW f \in FileIds, NEW n \in Nat, NEW alloc \in BOOLEAN,
           NEW x, x = file_block_walk(m, f, n, alloc)
    PROVE  Returns(m, x) /\ x.r # "scan" /\ (x.r = "ok" => HasPtr(x.m, f, n)) /\ (~alloc => x.m = m)
  <1>1. m \in Caches /\ Owned(m) /\ NoGrowth(m, m)
    BY GrowthFacts DEF Good
  <1>2. CASE n < NDIRECT
    <2>1. ~(n >= NINDIRECT) /\ n \notin NDIRECT..(NINDIRECT - 1)
      BY <1>2, Numbers
    <2>2. x = Ok(m)
      BY <1>2, <2>1 DEF file_block_walk
    <2>3. HasPtr(m, f, n)
      BY <1>2, Numbers DEF HasPtr
    <2> QED
      BY <1>1, <2>2, <2>3, OkErr DEF Returns, Codes
  <1>3. CASE n >= NINDIRECT
    <2>1. ~(n < NDIRECT)
      BY <1>3, Numbers
    <2>2. x = Err(m, "INVAL")
      BY <1>3, <2>1, Numbers DEF file_block_walk
    <2> QED
      BY <1>1, <2>2, OkErr DEF Returns, Codes
  <1>4. CASE n \in NDIRECT..(NINDIRECT - 1)
    <2>1. ~(n < NDIRECT) /\ ~(n >= NINDIRECT) /\ n \in 0..(NINDIRECT - 1)
      BY <1>4, Numbers
    <2>2. x = IF File(m, f).indirect # 0 THEN Ok(read_block(m, File(m, f).indirect))
              ELSE IF ~alloc THEN Err(m, "NOT_FOUND")
              ELSE Then(alloc_block(m), LAMBDA y : Ok(Put(y.m, f, [File(y.m, f) EXCEPT !.indirect = y.b])))
      BY <1>4, <2>1 DEF file_block_walk
    <2>3. CASE File(m, f).indirect # 0
      <3>1. x = Ok(m)
        BY <2>2, <2>3, IndirectInUse, ReadInUse
      <3>2. HasPtr(m, f, n)
        BY <2>1, <2>3 DEF HasPtr
      <3> QED
        BY <1>1, <3>1, <3>2, OkErr DEF Returns, Codes
    <2>4. CASE File(m, f).indirect = 0 /\ ~alloc
      <3>1. x = Err(m, "NOT_FOUND")
        BY <2>2, <2>4
      <3> QED
        BY <1>1, <3>1, OkErr DEF Returns, Codes
    <2>5. CASE File(m, f).indirect = 0 /\ alloc
      <3>1. PICK y : y = alloc_block(m)
        OBVIOUS
      <3>2. Returns(m, y) /\ y.r \in {"ok", "NO_DISK"} /\ y.m.blk = m.blk /\ (y.r = "ok" => Fresh(y.m, y.b))
        BY <3>1, AllocBlock
      <3>3. CASE y.r # "ok"
        <4>1. x = y
          BY <2>2, <2>5, <3>1, <3>3 DEF Then
        <4> QED
          BY <2>5, <3>2, <3>3, <4>1
      <3>4. CASE y.r = "ok"
        <4>1. PICK k : k = Put(y.m, f, [File(y.m, f) EXCEPT !.indirect = y.b])
          OBVIOUS
        <4>2. x = Ok(k)
          BY <2>2, <2>5, <3>1, <3>4, <4>1 DEF Then
        <4>3. Good(y.m) /\ y.m \in Caches
          BY <3>2, ResultFields DEF Returns, Good
        <4>4. Good(k) /\ NoGrowth(y.m, k) /\ File(k, f).indirect = y.b
          BY <3>2, <3>4, <4>1, <4>3, IndirectLinked
        <4>5. HasPtr(k, f, n)
          BY <2>1, <3>2, <3>4, <4>4, Numbers DEF HasPtr, Fresh
        <4>6. NoGrowth(m, k) /\ k \in Caches
          BY <1>1, <3>2, <4>3, <4>4, GrowthFacts DEF Returns, Good
        <4>7. x \in Results /\ x.r = "ok" /\ x.m = k
          BY <4>2, <4>6, OkErr DEF Codes
        <4> QED
          BY <2>5, <4>4, <4>5, <4>6, <4>7 DEF Returns, Good
      <3> QED
        BY <3>3, <3>4
    <2> QED
      BY <2>3, <2>4, <2>5
  <1> QED
    BY <1>2, <1>3, <1>4, Numbers

\* A result with another cache.
LEMMA WithCache ==
    ASSUME NEW x \in Results, NEW n \in Caches, NEW y, y = [x EXCEPT !.m = n]
    PROVE  y \in Results /\ y.m = n /\ y.r = x.r /\ y.b = x.b /\ y.file = x.file /\ y.dir = x.dir
  BY DEF Results

\* What routines called one after the other return.
LEMMA ReturnsThen ==
    ASSUME NEW m \in Caches, NEW n, NEW x, NoGrowth(m, n), n \in Caches, Returns(n, x)
    PROVE  Returns(m, x)
  BY GrowthFacts, ResultFields DEF Returns

\* Where a pointer points to is in use.
LEMMA PtrInUse ==
    ASSUME NEW m, Good(m), NEW f \in FileIds, NEW n, HasPtr(m, f, n)
    PROVE  Ptr(m, f, n) \in Ptrs /\ Ptr(m, f, n) \notin m.free
  <1>1. m \in Caches /\ 0 \in Ptrs
    BY Numbers DEF Good
  <1>2. PICK p \in Places : At(m, p) = Ptr(m, f, n)
    BY <1>1, SetPtrPlace
  <1> QED
    BY <1>1, <1>2, AtTyped DEF Good, Owned, Loose

\* The block behind a pointer, or a new one.
LEMMA MapAtReturns ==
    ASSUME NEW m, Good(m), NEW f \in FileIds, NEW n, HasPtr(m, f, n), NEW alloc \in BOOLEAN,
           NEW x, x = MapAt(m, f, n, alloc, Ptr(m, f, n))
    PROVE  Returns(m, x) /\ x.r # "scan" /\ (x.r = "ok" => x.b \in Data \ x.m.free) /\ (~alloc => x.m = m)
  <1>1. m \in Caches /\ Owned(m) /\ NoGrowth(m, m)
    BY GrowthFacts DEF Good
  <1>2. CASE Ptr(m, f, n) # 0
    <2>1. x = [Ok(m) EXCEPT !.b = Ptr(m, f, n)]
      BY <1>2 DEF MapAt
    <2>2. Ptr(m, f, n) \in Data \ m.free
      BY <1>2, PtrInUse DEF Ptrs
    <2>3. x \in Results /\ x.r = "ok" /\ x.m = m /\ x.b = Ptr(m, f, n)
      BY <1>1, <2>1, <2>2, Numbers DEF Ok, Results, Codes
    <2> QED
      BY <1>1, <2>2, <2>3 DEF Returns
  <1>3. CASE Ptr(m, f, n) = 0 /\ ~alloc
    <2>1. x = Err(m, "NOT_FOUND")
      BY <1>3 DEF MapAt
    <2> QED
      BY <1>1, <2>1, OkErr DEF Returns, Codes
  <1>4. CASE Ptr(m, f, n) = 0 /\ alloc
    <2>1. PICK y : y = alloc_block(m)
      OBVIOUS
    <2>2. x = Then(y, LAMBDA z : [z EXCEPT !.m = SetPtr(@, f, n, z.b)])
      BY <1>4, <2>1 DEF MapAt
    <2>3. Returns(m, y) /\ y.r \in {"ok", "NO_DISK"} /\ y.m.blk = m.blk /\ (y.r = "ok" => Fresh(y.m, y.b))
      BY <2>1, AllocBlock
    <2>4. y \in Results /\ Good(y.m) /\ NoGrowth(m, y.m) /\ y.m \in Caches
      BY <2>3, ResultFields DEF Returns, Good
    <2>5. CASE y.r # "ok"
      <3>1. x = y
        BY <2>2, <2>5 DEF Then
      <3> QED
        BY <1>4, <2>3, <2>5, <3>1
    <2>6. CASE y.r = "ok"
      <3>1. PICK k : k = SetPtr(y.m, f, n, y.b)
        OBVIOUS
      <3>2. x = [y EXCEPT !.m = k]
        BY <2>2, <2>4, <2>6, <3>1 DEF Then, Results
      <3>3. HasPtr(y.m, f, n)
        BY <2>3, SameContents DEF HasPtr
      <3>4. Good(k) /\ NoGrowth(y.m, k) /\ k.free = y.m.free
        BY <2>3, <2>4, <2>6, <3>1, <3>3, BlockLinked
      <3>5. k \in Caches /\ NoGrowth(m, k)
        BY <1>1, <2>4, <3>4, GrowthFacts DEF Good
      <3>6. x \in Results /\ x.m = k /\ x.r = "ok" /\ x.b = y.b
        BY <2>4, <2>6, <3>2, <3>5, WithCache
      <3>7. x.b \in Data \ k.free
        BY <2>3, <2>6, <3>4, <3>6 DEF Fresh
      <3> QED
        BY <1>4, <3>4, <3>5, <3>6, <3>7 DEF Returns, Good
    <2> QED
      BY <2>5, <2>6
  <1> QED
    BY <1>2, <1>3, <1>4

\* file_map_block finds a block of the file that is in use.
LEMMA FileMapBlock ==
    ASSUME NEW m, Good(m), NEW f \in FileIds, NEW n \in Nat, NEW alloc \in BOOLEAN,
           NEW x, x = file_map_block(m, f, n, alloc)
    PROVE  /\ Returns(m, x) /\ x.r # "scan" /\ (~alloc => x.m = m)
           /\ x.r = "ok" => n < NINDIRECT /\ x.b \in Data \ x.m.free
  <1>1. m \in Caches
    BY DEF Good
  <1>2. PICK y : y = file_block_walk(m, f, n, alloc)
    OBVIOUS
  <1>3. Returns(m, y) /\ y.r # "scan" /\ (y.r = "ok" => HasPtr(y.m, f, n)) /\ (~alloc => y.m = m)
    BY <1>2, FileBlockWalk
  <1>4. y \in Results /\ Good(y.m) /\ NoGrowth(m, y.m) /\ y.m \in Caches
    BY <1>3, ResultFields DEF Returns, Good
  <1>5. x = IF y.r = "ok" THEN MapAt(y.m, f, n, alloc, Ptr(y.m, f, n)) ELSE y
    BY <1>2 DEF file_map_block, Then
  <1>6. CASE y.r # "ok"
    BY <1>3, <1>5, <1>6
  <1>7. CASE y.r = "ok"
    <2>1. x = MapAt(y.m, f, n, alloc, Ptr(y.m, f, n)) /\ HasPtr(y.m, f, n)
      BY <1>3, <1>5, <1>7
    <2>2. Returns(y.m, x) /\ x.r # "scan" /\ (x.r = "ok" => x.b \in Data \ x.m.free) /\ (~alloc => x.m = y.m)
      BY <1>4, <2>1, MapAtReturns
    <2>3. Returns(m, x)
      BY <1>1, <1>4, <2>2, ReturnsThen
    <2>4. n < NINDIRECT
      BY <2>1, Numbers DEF HasPtr
    <2> QED
      BY <1>3, <2>2, <2>3, <2>4
  <1> QED
    BY <1>6, <1>7

\* file_get_block reads a block of the file, which is in use.
LEMMA FileGetBlock ==
    ASSUME NEW m, Good(m), NEW f \in FileIds, NEW n \in Nat, NEW x, x = file_get_block(m, f, n)
    PROVE  /\ Returns(m, x) /\ x.r # "scan"
           /\ x.r = "ok" => n < NINDIRECT /\ x.b \in Data \ x.m.free
  <1>1. PICK y : y = file_map_block(m, f, n, TRUE)
    OBVIOUS
  <1>2. Returns(m, y) /\ y.r # "scan" /\ (y.r = "ok" => n < NINDIRECT /\ y.b \in Data \ y.m.free)
    <2>1. PICK alloc \in BOOLEAN : alloc = TRUE
      OBVIOUS
    <2>2. y = file_map_block(m, f, n, alloc)
      BY <1>1, <2>1, Zenon
    <2> QED
      BY <2>2, FileMapBlock
  <1>3. x = IF y.r = "ok" THEN [y EXCEPT !.m = read_block(@, y.b)] ELSE y
    BY <1>1 DEF file_get_block, Then
  <1>4. CASE y.r = "ok"
    <2>1. read_block(y.m, y.b) = y.m
      BY <1>2, <1>4, ReadInUse
    <2>2. x = y
      BY <1>2, <1>3, <1>4, <2>1 DEF Returns, Results
    <2> QED
      BY <1>2, <2>2
  <1>5. CASE y.r # "ok"
    BY <1>2, <1>3, <1>5
  <1> QED
    BY <1>4, <1>5

-----------------------------------------------------------------------------
(***************************************************************************)
(* Directories.                                                            *)
(***************************************************************************)

\* A search has found a file, which is in a data block.
Entry == Data \X Slots
Searches(m, x) == Returns(m, x) /\ (x.r = "ok" => x.file \in Entry)

\* A file found by a search is a file.
LEMMA EntryIsFile == Entry \subseteq FileIds
  BY Numbers DEF Entry, FileIds

\* The search of one directory block returns a file of it or goes on.
LEMMA InBlockReturns ==
    ASSUME NEW m, NEW y, Returns(m, y), y.r = "ok", y.b \in Data, NEW name, NEW x, x = InBlock(y, name)
    PROVE  Searches(m, x) /\ x.m = y.m /\ x.r \in {"ok", "scan"} /\ (x.r = "ok" => x.file[1] = y.b)
  <1> DEFINE hits == { j \in Slots : File(y.m, <<y.b, j>>).name = name }
  <1>1. y \in Results
    BY DEF Returns
  <1>2. CASE hits = {}
    <2>1. x = [y EXCEPT !.r = "scan"]
      BY <1>2 DEF InBlock
    <2>2. x \in Results /\ x.r = "scan" /\ x.m = y.m
      BY <1>1, <2>1 DEF Results, Codes
    <2> QED
      BY <2>2 DEF Returns, Searches
  <1>3. CASE hits # {}
    <2>1. PICK f : f = <<y.b, Min(hits)>>
      OBVIOUS
    <2>2. hits \subseteq Slots /\ hits \subseteq Nat
      BY Numbers
    <2>3. f \in Entry
      BY <1>3, <2>1, <2>2, MinIsMember DEF Entry
    <2>4. x = [y EXCEPT !.file = f]
      BY <1>3, <2>1 DEF InBlock
    <2>5. x \in Results /\ x.r = "ok" /\ x.m = y.m /\ x.file = f
      BY <1>1, <2>3, <2>4, EntryIsFile DEF Results
    <2> QED
      BY <2>1, <2>3, <2>5 DEF Returns, Searches
  <1> QED
    BY <1>2, <1>3

\* One block of a search.
LEMMA ScanStepReturns ==
    ASSUME NEW m \in Caches, NEW y, Searches(m, y), NEW dir \in FileIds, NEW n \in Nat, NEW name,
           NEW x, x = ScanStep(y, dir, n, name)
    PROVE  Searches(m, x) /\ (x.r = "scan" => n < NINDIRECT)
  <1>1. y \in Results /\ Good(y.m) /\ y.m \in Caches /\ NoGrowth(m, y.m)
    BY ResultFields DEF Searches, Returns, Good
  <1>2. CASE y.r # "scan"
    BY <1>2 DEF ScanStep
  <1>3. CASE y.r = "scan"
    <2>1. PICK z : z = file_get_block(y.m, dir, n)
      OBVIOUS
    <2>2. Returns(y.m, z) /\ z.r # "scan" /\ (z.r = "ok" => n < NINDIRECT /\ z.b \in Data)
      BY <1>1, <2>1, FileGetBlock
    <2>3. Returns(m, z)
      BY <1>1, <2>2, ReturnsThen
    <2>4. x = IF z.r = "ok" THEN InBlock(z, name) ELSE z
      BY <1>3, <2>1 DEF ScanStep, Then
    <2>5. CASE z.r = "ok"
      BY <2>2, <2>3, <2>4, <2>5, InBlockReturns
    <2>6. CASE z.r # "ok"
      BY <2>2, <2>3, <2>4, <2>6 DEF Searches
    <2> QED
      BY <2>5, <2>6
  <1> QED
    BY <1>2, <1>3

\* The rounds of the search of a directory.
LEMMA ScanRun ==
    ASSUME NEW m, Good(m), NEW dir \in FileIds, NEW name, NEW x, x = Scan(m, dir, name)
    PROVE  \E g \in [0..File(m, dir).size -> { y \in Results : Searches(m, y) }] :
              /\ g[0] = Err(m, "scan") /\ g[File(m, dir).size] = x
              /\ \A i \in 1..File(m, dir).size : g[i] = ScanStep(g[i - 1], dir, i - 1, name)
  <1> DEFINE S == { y \in Results : Searches(m, y) }
             n == File(m, dir).size
             round == [p \in S \X (1..n) |-> ScanStep(p[1], dir, p[2] - 1, name)]
             Loop(g) == g = [i \in 0..n |-> IF i = 0 THEN Err(m, "scan") ELSE ScanStep(g[i - 1], dir, i - 1, name)]
  <1>1. m \in Caches /\ n \in Nat /\ Owned(m) /\ NoGrowth(m, m)
    BY FileTyped, Numbers, GrowthFacts DEF Good
  <1>2. Err(m, "scan") \in S
    BY <1>1, OkErr DEF Searches, Returns, Codes
  <1>3. ASSUME NEW y \in S, NEW i \in 1..n
        PROVE  ScanStep(y, dir, i - 1, name) \in S
    <2>1. i - 1 \in Nat /\ Searches(m, y)
      BY <1>1
    <2>2. PICK z : z = ScanStep(y, dir, i - 1, name)
      OBVIOUS
    <2>3. Searches(m, z)
      BY <1>1, <2>1, <2>2, ScanStepReturns
    <2> QED
      BY <2>2, <2>3 DEF Searches, Returns
  <1>4. round \in [S \X (1..n) -> S]
    BY <1>3
  <1>5. \A y \in S, i \in 1..n : round[<<y, i>>] = ScanStep(y, dir, i - 1, name)
    OBVIOUS
  <1> HIDE DEF S, n, round
  <1>6. PICK g \in [0..n -> S] : g[0] = Err(m, "scan") /\ \A i \in 1..n : g[i] = round[<<g[i - 1], i>>]
    <2>1. PICK base : base = Err(m, "scan")
      OBVIOUS
    <2>2. base \in S /\ n \in Nat
      BY <1>1, <1>2, <2>1
    <2>3. PICK g : Loops(g, S, n, base, round)
      BY <1>4, <2>2, LoopRuns
    <2> QED
      BY <2>1, <2>3 DEF Loops
  <1>7. \A i \in 1..n : g[i] = ScanStep(g[i - 1], dir, i - 1, name)
    <2> SUFFICES ASSUME NEW i \in 1..n PROVE g[i] = ScanStep(g[i - 1], dir, i - 1, name)
      OBVIOUS
    <2>1. i - 1 \in 0..n
      BY <1>1
    <2>2. g[i - 1] \in S
      BY <1>6, <2>1
    <2> QED
      BY <1>5, <1>6, <2>2
  <1>8. Loop(g)
    BY <1>1, <1>6, <1>7
  <1>9. ASSUME NEW h, Loop(h) PROVE h = g
    <2>1. DOMAIN h = 0..n /\ h = [i \in 0..n |-> h[i]] /\ h[0] = Err(m, "scan")
          /\ \A i \in 1..n : h[i] = ScanStep(h[i - 1], dir, i - 1, name)
      BY <1>1, <1>9
    <2> HIDE DEF Loop
    <2>2. DOMAIN g = 0..n /\ g = [i \in 0..n |-> g[i]]
      BY <1>6
    <2>3. \A i \in 1..n : h[i - 1] = g[i - 1] => h[i] = g[i]
      BY <1>7, <2>1
    <2> QED
      BY <1>1, <1>6, <2>1, <2>2, <2>3, LoopUnique
  <1>10. PICK after : after = CHOOSE h : Loop(h)
    OBVIOUS
  <1>11. after = g
    <2> HIDE DEF Loop
    <2> QED
      BY <1>8, <1>9, <1>10
  <1>12. x = after[n]
    BY <1>10 DEF Scan, n
  <1> QED
    BY <1>6, <1>7, <1>11, <1>12 DEF S, n

\* The search of a directory.
LEMMA ScanReturns ==
    ASSUME NEW m, Good(m), NEW dir \in FileIds, NEW name, NEW x, x = Scan(m, dir, name)
    PROVE  Searches(m, x) /\ (x.r = "scan" => File(m, dir).size <= NINDIRECT)
  <1>1. PICK n : n = File(m, dir).size
    OBVIOUS
  <1>2. PICK g \in [0..n -> { y \in Results : Searches(m, y) }] :
              /\ g[0] = Err(m, "scan") /\ g[n] = x
              /\ \A i \in 1..n : g[i] = ScanStep(g[i - 1], dir, i - 1, name)
    BY <1>1, ScanRun
  <1>3. m \in Caches /\ n \in Nat
    BY <1>1, FileTyped, Numbers DEF Good
  <1>4. Searches(m, x)
    BY <1>2, <1>3
  <1>5. ASSUME x.r = "scan" PROVE n <= NINDIRECT
    <2>1. CASE n = 0
      BY <2>1, Numbers
    <2>2. CASE n # 0
      <3>1. n \in 1..n /\ n - 1 \in 0..n /\ n - 1 \in Nat
        BY <1>3, <2>2
      <3>2. Searches(m, g[n - 1]) /\ x = ScanStep(g[n - 1], dir, n - 1, name)
        BY <1>2, <3>1
      <3>3. PICK y, k : y = g[n - 1] /\ k = n - 1
        OBVIOUS
      <3>4. k < NINDIRECT
        BY <1>3, <1>5, <3>1, <3>2, <3>3, ScanStepReturns
      <3> QED
        BY <1>3, <3>3, <3>4, Numbers
    <2> QED
      BY <2>1, <2>2
  <1> QED
    BY <1>1, <1>4, <1>5

\* What a routine returns keeps the invariant.
Sound(x) == x \in Results /\ Owned(x.m)

\* A routine that keeps the invariant from m returns a good cache.
LEMMA SoundFacts ==
    /\ \A m, x : Returns(m, x) => Sound(x)
    /\ \A x : Sound(x) => Good(x.m) /\ x.m \in Caches /\ x \in Results
  BY ResultFields DEF Returns, Sound, Good

\* *f = new with the same pointers.
LEMMA PutSamePtrs ==
    ASSUME NEW m, Good(m), NEW f \in FileIds, NEW new \in FileType,
           \A i \in 0..NDIRECT : PtrOf(new, i) = PtrOf(File(m, f), i), NEW n, n = Put(m, f, new)
    PROVE  /\ Good(n) /\ Retyped(m, n) /\ File(n, f) = new
           /\ new.size <= File(m, f).size => NoGrowth(m, n)
  <1>1. m \in Caches /\ Owned(m) /\ f[1] \in Blocks /\ f[2] \in Slots
    BY DEF Good, FileIds
  <1>2. /\ Retyped(m, n) /\ File(n, f) = new
        /\ \A g \in FileIds \ {f} : File(n, g) = File(m, g)
        /\ \A p \in Places : IF p[1] = f[1] /\ p[2] = f[2] THEN At(n, p) = PtrOf(new, p[3])
                             ELSE Kept(m, n, p)
    BY <1>1, PutFile
  <1>3. ASSUME NEW p \in Places PROVE Kept(m, n, p)
    <2>1. CASE p[1] = f[1] /\ p[2] = f[2]
      <3>1. p[3] \in 0..NDIRECT /\ p[2] # Indirect
        BY <1>1, <2>1, Numbers DEF Places
      <3>2. At(m, p) = PtrOf(File(m, f), p[3])
        BY <2>1, <3>1 DEF At, File
      <3> QED
        BY <1>2, <2>1, <3>1, <3>2 DEF Kept
    <2>2. CASE ~(p[1] = f[1] /\ p[2] = f[2])
      BY <1>2, <2>2
    <2> QED
      BY <2>1, <2>2
  <1>4. Owned(n)
    BY <1>1, <1>2, <1>3, OwnersDropped, ZeroNotFree DEF Retyped
  <1>5. ASSUME new.size <= File(m, f).size PROVE NoGrowth(m, n)
    <2> SUFFICES ASSUME NEW g \in FileIds PROVE File(n, g).size <= File(m, g).size
      BY DEF NoGrowth
    <2>1. CASE g = f
      BY <1>2, <1>5, <2>1
    <2>2. CASE g # f
      BY <1>1, <1>2, <2>2, FileTyped
    <2> QED
      BY <2>1, <2>2
  <1> QED
    BY <1>2, <1>4, <1>5 DEF Good, Retyped

\* Changes of a file that keep its pointers.
LEMMA SamePtrs ==
    ASSUME NEW old \in FileType
    PROVE  /\ \A d \in {Null} \cup FileIds :
                /\ [old EXCEPT !.dir = d] \in FileType /\ [old EXCEPT !.dir = d].size = old.size
                /\ \A i \in 0..NDIRECT : PtrOf([old EXCEPT !.dir = d], i) = PtrOf(old, i)
           /\ \A s \in 0..(NINDIRECT + 1) :
                /\ [old EXCEPT !.size = s] \in FileType /\ [old EXCEPT !.size = s].size = s
                /\ \A i \in 0..NDIRECT : PtrOf([old EXCEPT !.size = s], i) = PtrOf(old, i)
           /\ \A name \in Names \cup {NoName} :
                /\ [old EXCEPT !.name = name] \in FileType
                /\ \A i \in 0..NDIRECT : PtrOf([old EXCEPT !.name = name], i) = PtrOf(old, i)
           /\ \A b \in BOOLEAN :
                /\ [old EXCEPT !.isdir = b] \in FileType
                /\ \A i \in 0..NDIRECT : PtrOf([old EXCEPT !.isdir = b], i) = PtrOf(old, i)
  BY DEF FileType, PtrOf, FileIds, Blocks

\* dir_lookup notes the directory in the file that it finds.
LEMMA LookedUpReturns ==
    ASSUME NEW m \in Caches, NEW y, Searches(m, y), NEW dir \in FileIds, NEW x, x = LookedUp(y, dir)
    PROVE  Searches(m, x) /\ x.r # "scan"
  <1>1. y \in Results /\ Good(y.m) /\ y.m \in Caches /\ NoGrowth(m, y.m)
    BY ResultFields DEF Searches, Returns, Good
  <1>2. CASE y.r = "ok"
    <2>1. y.file \in Entry /\ y.file \in FileIds
      BY <1>2, EntryIsFile DEF Searches
    <2>2. PICK old : old = File(y.m, y.file)
      OBVIOUS
    <2>3. PICK new : new = [old EXCEPT !.dir = dir]
      OBVIOUS
    <2>4. old \in FileType /\ old.size \in Nat
      BY <1>1, <2>1, <2>2, FileTyped, Numbers
    <2>5. new \in FileType /\ new.size <= old.size /\ \A i \in 0..NDIRECT : PtrOf(new, i) = PtrOf(old, i)
      BY <2>3, <2>4, SamePtrs
    <2>6. PICK n : n = Put(y.m, y.file, new)
      OBVIOUS
    <2>7. Good(n) /\ NoGrowth(y.m, n)
      BY <1>1, <2>1, <2>2, <2>5, <2>6, PutSamePtrs
    <2>8. x = [y EXCEPT !.m = n]
      <3>1. y.r # "scan"
        BY <1>2
      <3> QED
        BY <1>1, <1>2, <2>2, <2>3, <2>6, <3>1 DEF LookedUp, Results
    <2>9. x \in Results /\ x.m = n /\ x.r = "ok" /\ x.file = y.file
      BY <1>1, <1>2, <2>7, <2>8, WithCache DEF Good
    <2>10. NoGrowth(m, n)
      BY <1>1, <2>7, GrowthFacts DEF Good
    <2> QED
      BY <2>1, <2>7, <2>9, <2>10 DEF Searches, Returns, Good
  <1>3. CASE y.r = "scan"
    <2>1. x = [y EXCEPT !.r = "NOT_FOUND"]
      <3>1. y.r # "ok"
        BY <1>3
      <3> QED
        BY <1>3, <3>1 DEF LookedUp
    <2>2. x \in Results /\ x.r = "NOT_FOUND" /\ x.m = y.m
      BY <1>1, <2>1 DEF Results, Codes
    <2> QED
      BY <2>2 DEF Searches, Returns
  <1>4. CASE y.r # "ok" /\ y.r # "scan"
    <2>1. x = y
      BY <1>4 DEF LookedUp
    <2> QED
      BY <1>4, <2>1
  <1> QED
    BY <1>2, <1>3, <1>4

\* dir_lookup keeps the invariant and finds a file, however many blocks it scans.
LEMMA DirLookupReturns ==
    ASSUME NEW m, Good(m), NEW dir \in FileIds, NEW name, NEW x, x = dir_lookup(m, dir, name)
    PROVE  Searches(m, x) /\ x.r # "scan"
  <1>1. PICK y : y = Scan(m, dir, name)
    OBVIOUS
  <1>2. Searches(m, y) /\ m \in Caches
    BY <1>1, ScanReturns DEF Good
  <1> QED
    BY <1>1, <1>2, LookedUpReturns DEF dir_lookup

\* Finds(x): x keeps the invariant and has found a file of a directory.
Finds(x) == Sound(x) /\ (x.r = "ok" => x.file \in Entry)

\* The first file of a new block.
LEMMA NewSlotFinds ==
    ASSUME NEW m, Good(m), NEW dir \in FileIds, NEW n \in 0..NINDIRECT, NEW x, x = NewSlot(m, dir, n)
    PROVE  Finds(x)
  <1>1. m \in Caches /\ n \in Nat /\ n + 1 \in 0..(NINDIRECT + 1)
    BY Numbers DEF Good
  <1>2. PICK new : new = [File(m, dir) EXCEPT !.size = n + 1]
    OBVIOUS
  <1>3. new \in FileType /\ \A i \in 0..NDIRECT : PtrOf(new, i) = PtrOf(File(m, dir), i)
    <2>1. PICK old \in FileType : old = File(m, dir)
      BY <1>1, FileTyped
    <2>2. PICK s \in 0..(NINDIRECT + 1) : s = n + 1
      BY <1>1
    <2>3. new = [old EXCEPT !.size = s]
      BY <1>2, <2>1, <2>2
    <2> QED
      BY <2>1, <2>3, SamePtrs
  <1>4. PICK k : k = Put(m, dir, new)
    OBVIOUS
  <1>5. Good(k) /\ k \in Caches
    BY <1>3, <1>4, PutSamePtrs DEF Good
  <1>6. PICK y : y = file_get_block(k, dir, n)
    OBVIOUS
  <1>7. Returns(k, y) /\ (y.r = "ok" => y.b \in Data)
    BY <1>1, <1>5, <1>6, FileGetBlock
  <1>8. x = IF y.r = "ok" THEN [y EXCEPT !.file = <<y.b, 0>>] ELSE y
    BY <1>2, <1>4, <1>6 DEF NewSlot, SetSize, Then
  <1>9. CASE y.r = "ok"
    <2>1. PICK f : f = <<y.b, 0>>
      OBVIOUS
    <2>2. f \in Entry /\ f \in FileIds
      BY <1>7, <1>9, <2>1, EntryIsFile, Numbers DEF Entry
    <2>3. x = [y EXCEPT !.file = f]
      BY <1>8, <1>9, <2>1
    <2>4. x \in Results /\ x.m = y.m /\ x.file = f
      BY <1>7, <2>2, <2>3 DEF Returns, Results
    <2> QED
      BY <1>7, <2>2, <2>4 DEF Returns, Finds, Sound
  <1>10. CASE y.r # "ok"
    BY <1>7, <1>8, <1>10 DEF Returns, Finds, Sound
  <1> QED
    BY <1>9, <1>10

\* A free slot of a directory.
LEMMA DirAllocFileFinds ==
    ASSUME NEW m, Good(m), NEW dir \in FileIds, NEW x, x = dir_alloc_file(m, dir)
    PROVE  Finds(x)
  <1>1. PICK y : y = Scan(m, dir, NoName)
    OBVIOUS
  <1>2. m \in Caches /\ Searches(m, y) /\ (y.r = "scan" => File(m, dir).size <= NINDIRECT)
    BY <1>1, ScanReturns DEF Good
  <1>3. Good(y.m) /\ y.m \in Caches /\ NoGrowth(m, y.m) /\ Finds(y)
    BY <1>2, SoundFacts DEF Searches, Returns, Good, Finds
  <1>4. x = IF y.r = "scan" THEN NewSlot(y.m, dir, File(y.m, dir).size) ELSE y
    BY <1>1 DEF dir_alloc_file, SlotFor
  <1>5. CASE y.r = "scan"
    <2>1. File(y.m, dir).size <= File(m, dir).size /\ File(m, dir).size <= NINDIRECT
      BY <1>2, <1>3, <1>5 DEF NoGrowth
    <2>2. File(y.m, dir).size \in Nat /\ File(m, dir).size \in Nat
      BY <1>2, <1>3, FileTyped, Numbers
    <2>3. PICK n : n = File(y.m, dir).size
      OBVIOUS
    <2>4. n \in 0..NINDIRECT
      BY <2>1, <2>2, <2>3, Numbers
    <2>5. x = NewSlot(y.m, dir, n)
      BY <1>4, <1>5, <2>3
    <2> QED
      BY <1>3, <2>4, <2>5, NewSlotFinds
  <1>6. CASE y.r # "scan"
    BY <1>3, <1>4, <1>6
  <1> QED
    BY <1>5, <1>6

\* One name of a path.
Walks(x) == Sound(x) /\ (x.r = "ok" => x.file \in FileIds)

\* A step of walk_path keeps the invariant and finds a file.
LEMMA WalkStepFinds ==
    ASSUME NEW y, Walks(y), NEW name, NEW x, x = WalkStep(y, name)
    PROVE  Finds(x)
  <1>1. y \in Results /\ Good(y.m) /\ y.m \in Caches
    BY SoundFacts DEF Walks
  <1>2. CASE y.r # "ok"
    <2>1. x = [y EXCEPT !.dir = Null]
      BY <1>2 DEF WalkStep
    <2>2. x \in Results /\ x.m = y.m /\ x.r = y.r
      BY <1>1, <2>1 DEF Results
    <2> QED
      BY <1>2, <2>2 DEF Walks, Finds, Sound
  <1>3. CASE y.r = "ok" /\ ~File(y.m, y.file).isdir
    <2>1. x = Err(y.m, "NOT_FOUND")
      BY <1>3 DEF WalkStep
    <2>2. x \in Results /\ x.m = y.m /\ x.r = "NOT_FOUND"
      BY <1>1, <2>1, OkErr DEF Codes
    <2> QED
      BY <2>2 DEF Walks, Finds, Sound
  <1>4. CASE y.r = "ok" /\ File(y.m, y.file).isdir
    <2>1. PICK z : z = dir_lookup(y.m, y.file, name)
      OBVIOUS
    <2>2. y.file \in FileIds
      BY <1>4 DEF Walks
    <2>3. Searches(y.m, z)
      BY <1>1, <2>1, <2>2, DirLookupReturns
    <2>4. PICK d : d = IF z.r \in {"ok", "NOT_FOUND"} THEN y.file ELSE Null
      OBVIOUS
    <2>5. x = [z EXCEPT !.dir = d]
      BY <1>4, <2>1, <2>4 DEF WalkStep, InDir
    <2>6. x \in Results /\ x.m = z.m /\ x.r = z.r /\ x.file = z.file
      BY <2>2, <2>3, <2>4, <2>5 DEF Searches, Returns, Results
    <2> QED
      BY <2>3, <2>6 DEF Searches, Returns, Finds, Sound
  <1> QED
    BY <1>2, <1>3, <1>4

\* The rounds of walk_path.
LEMMA WalkRun ==
    ASSUME NEW m, Good(m), NEW path \in Paths, NEW x, x = walk_path(m, path)
    PROVE  \E g \in [0..Len(path) -> { y \in Results : Walks(y) }] :
              /\ g[0] = [Ok(m) EXCEPT !.file = Root] /\ g[Len(path)] = x
              /\ \A i \in 1..Len(path) : g[i] = WalkStep(g[i - 1], path[i])
  <1> DEFINE S == { y \in Results : Walks(y) }
             n == Len(path)
             start == [Ok(m) EXCEPT !.file = Root]
             round == [p \in S \X (1..n) |-> WalkStep(p[1], path[p[2]])]
             Loop(g) == g = [i \in 0..n |-> IF i = 0 THEN start ELSE WalkStep(g[i - 1], path[i])]
  <1>1. m \in Caches /\ n \in Nat /\ n > 0 /\ Owned(m)
    BY FsAssumption DEF Good
  <1>2. start \in S
    <2>1. start \in Results /\ start.m = m /\ start.file = Root
      BY <1>1, Numbers DEF Ok, Results, Codes
    <2> QED
      BY <1>1, <2>1, Numbers DEF Walks, Sound
  <1>3. ASSUME NEW y \in S, NEW name PROVE Finds(WalkStep(y, name)) /\ WalkStep(y, name) \in S
    <2>1. PICK z : z = WalkStep(y, name)
      OBVIOUS
    <2>2. Finds(z)
      BY <2>1, WalkStepFinds
    <2> QED
      BY <2>1, <2>2, EntryIsFile DEF Finds, Sound, Walks
  <1>4. round \in [S \X (1..n) -> S]
    BY <1>3
  <1>5. \A y \in S, i \in 1..n : round[<<y, i>>] = WalkStep(y, path[i])
    OBVIOUS
  <1> HIDE DEF S, n, round, start
  <1>6. PICK g : Loops(g, S, n, start, round)
    BY <1>1, <1>2, <1>4, LoopRuns
  <1>7. ASSUME NEW i \in 1..n PROVE g[i] = WalkStep(g[i - 1], path[i]) /\ g[i - 1] \in S
    <2>1. i - 1 \in 0..n
      BY <1>1
    <2>2. g[i - 1] \in S
      BY <1>6, <2>1 DEF Loops
    <2> QED
      BY <1>5, <1>6, <2>2 DEF Loops
  <1>8. Loop(g)
    BY <1>1, <1>6, <1>7 DEF Loops
  <1>9. ASSUME NEW h, Loop(h) PROVE h = g
    <2>1. DOMAIN h = 0..n /\ h = [i \in 0..n |-> h[i]] /\ h[0] = start
          /\ \A i \in 1..n : h[i] = WalkStep(h[i - 1], path[i])
      BY <1>1, <1>9
    <2> HIDE DEF Loop
    <2>2. DOMAIN g = 0..n /\ g = [i \in 0..n |-> g[i]] /\ g[0] = start
      BY <1>6 DEF Loops
    <2>3. \A i \in 1..n : h[i - 1] = g[i - 1] => h[i] = g[i]
      BY <1>7, <2>1
    <2> QED
      BY <1>1, <2>1, <2>2, <2>3, LoopUnique
  <1>10. PICK after : after = CHOOSE h : Loop(h)
    OBVIOUS
  <1>11. after = g
    <2> HIDE DEF Loop
    <2> QED
      BY <1>8, <1>9, <1>10
  <1>12. x = after[n]
    BY <1>10 DEF walk_path, n, start
  <1> QED
    BY <1>6, <1>7, <1>11, <1>12 DEF S, n, start, Loops

\* A path that is not empty ends at a file of a directory.
LEMMA WalkPathFinds ==
    ASSUME NEW m, Good(m), NEW path \in Paths, NEW x, x = walk_path(m, path)
    PROVE  Finds(x)
  <1>1. PICK n : n = Len(path)
    OBVIOUS
  <1>2. PICK g \in [0..n -> { y \in Results : Walks(y) }] :
              /\ g[0] = [Ok(m) EXCEPT !.file = Root] /\ g[n] = x
              /\ \A i \in 1..n : g[i] = WalkStep(g[i - 1], path[i])
    BY <1>1, WalkRun
  <1>3. n \in 1..n /\ n - 1 \in 0..n
    BY <1>1, FsAssumption
  <1> QED
    BY <1>2, <1>3, WalkStepFinds

\* A new file gets the last name of the path.
LEMMA FileCreateFinds ==
    ASSUME NEW m, Good(m), NEW path \in Paths, NEW x, x = file_create(m, path)
    PROVE  Finds(x)
  <1>1. PICK y : y = walk_path(m, path)
    OBVIOUS
  <1>2. Finds(y)
    BY <1>1, WalkPathFinds
  <1>3. y \in Results /\ Good(y.m)
    BY <1>2, SoundFacts DEF Finds
  <1>4. PICK name : name = path[Len(path)]
    OBVIOUS
  <1>5. name \in Names
    <2>1. path \in Seq(Names) /\ path # <<>>
      BY FsAssumption
    <2> QED
      BY <1>4, <2>1
  <1>6. x = CreateAt(y, name)
    BY <1>1, <1>4 DEF file_create
  <1>7. CASE y.r = "ok"
    <2>1. x = [y EXCEPT !.r = "FILE_EXISTS"]
      BY <1>6, <1>7 DEF CreateAt
    <2>2. x \in Results /\ x.m = y.m /\ x.r = "FILE_EXISTS"
      BY <1>3, <2>1 DEF Results, Codes
    <2> QED
      BY <1>2, <2>2 DEF Finds, Sound
  <1>8. CASE y.r # "ok" /\ (y.r # "NOT_FOUND" \/ y.dir = Null)
    BY <1>2, <1>6, <1>8 DEF CreateAt
  <1>9. CASE y.r = "NOT_FOUND" /\ y.dir # Null
    <2>1. PICK z : z = dir_alloc_file(y.m, y.dir)
      OBVIOUS
    <2>2. y.dir \in FileIds
      BY <1>3, <1>9, ResultFields
    <2>3. Finds(z)
      BY <1>3, <2>1, <2>2, DirAllocFileFinds
    <2>4. z \in Results /\ Good(z.m) /\ z.m \in Caches
      BY <2>3, SoundFacts DEF Finds
    <2>5. x = Named(z, name)
      <3>1. y.r # "ok"
        BY <1>9
      <3> QED
        BY <1>6, <1>9, <2>1, <3>1 DEF CreateAt
    <2>6. CASE z.r # "ok"
      <3>1. x = [z EXCEPT !.r = "NOT_FOUND"]
        BY <2>5, <2>6 DEF Named
      <3>2. x \in Results /\ x.m = z.m /\ x.r = "NOT_FOUND"
        BY <2>4, <3>1 DEF Results, Codes
      <3> QED
        BY <2>3, <3>2 DEF Finds, Sound
    <2>7. CASE z.r = "ok"
      <3>1. z.file \in Entry /\ z.file \in FileIds
        BY <2>3, <2>7, EntryIsFile DEF Finds
      <3>2. PICK old \in FileType : old = File(z.m, z.file)
        BY <2>4, <3>1, FileTyped
      <3>3. PICK new : new = [old EXCEPT !.name = name]
        OBVIOUS
      <3>4. new \in FileType /\ \A i \in 0..NDIRECT : PtrOf(new, i) = PtrOf(old, i)
        BY <1>5, <3>3, SamePtrs
      <3>5. PICK n : n = Put(z.m, z.file, new)
        OBVIOUS
      <3>6. Good(n)
        BY <2>4, <3>1, <3>2, <3>4, <3>5, PutSamePtrs
      <3>7. x = [z EXCEPT !.m = n]
        BY <2>4, <2>5, <2>7, <3>2, <3>3, <3>5 DEF Named, Results
      <3>8. x \in Results /\ x.m = n /\ x.file = z.file
        BY <2>4, <3>6, <3>7, WithCache DEF Good
      <3> QED
        BY <3>1, <3>6, <3>8 DEF Finds, Sound, Good
    <2> QED
      BY <2>6, <2>7
  <1> QED
    BY <1>7, <1>8, <1>9

-----------------------------------------------------------------------------
(***************************************************************************)
(* Sizes.                                                                  *)
(***************************************************************************)

\* Another reason to stop, and more blocks on their way to disk.
LEMMA OtherFields ==
    ASSUME NEW m, Good(m)
    PROVE  /\ Good([m EXCEPT !.panic = "truncate"])
           /\ \A W \in SUBSET ({Super, Bitmap} \cup Data) : Good([m EXCEPT !.written = @ \cup W])
           /\ \A b \in Blocks : Good(dirty_block(m, b))
  <1>1. m \in Caches
    BY DEF Good
  <1>2. ASSUME NEW n \in Caches, n.blk = m.blk, n.free = m.free PROVE Good(n)
    <2>1. \A p \in Places : At(n, p) = At(m, p)
      BY <1>2, SameContents
    <2> QED
      BY <1>2, <2>1 DEF Good, Owned, OneOwner, Loose
  <1>3. Good([m EXCEPT !.panic = "truncate"])
    <2>1. PICK n : n = [m EXCEPT !.panic = "truncate"]
      OBVIOUS
    <2>2. n \in Caches /\ n.blk = m.blk /\ n.free = m.free
      BY <1>1, <2>1 DEF Caches
    <2> QED
      BY <1>2, <2>1, <2>2
  <1>4. ASSUME NEW W \in SUBSET ({Super, Bitmap} \cup Data) PROVE Good([m EXCEPT !.written = @ \cup W])
    <2>1. PICK n : n = [m EXCEPT !.written = @ \cup W]
      OBVIOUS
    <2>2. n \in Caches /\ n.blk = m.blk /\ n.free = m.free
      BY <1>1, <2>1 DEF Caches
    <2> QED
      BY <1>2, <2>1, <2>2
  <1>5. ASSUME NEW b \in Blocks PROVE Good(dirty_block(m, b))
    <2>1. PICK n : n = dirty_block(m, b)
      OBVIOUS
    <2>2. n \in Caches /\ n.blk = m.blk /\ n.free = m.free
      BY <1>1, <2>1 DEF Caches, dirty_block
    <2> QED
      BY <1>2, <2>1, <2>2
  <1> QED
    BY <1>3, <1>4, <1>5

\* What the pointers of a file name are blocks.
LEMMA BlocksOfAreData ==
    ASSUME NEW m, Good(m), NEW f \in FileIds
    PROVE  BlocksOf(m, f) \subseteq Data
  <1> SUFFICES ASSUME NEW n \in Mapped(m, f) PROVE Ptr(m, f, n) \in Data
    BY DEF BlocksOf
  <1>1. m \in Caches /\ File(m, f).size \in Nat
    BY FileTyped, Numbers DEF Good
  <1>2. n \in Nat /\ Ptr(m, f, n) # 0 /\ (n < NDIRECT \/ (n < NINDIRECT /\ File(m, f).indirect # 0))
    BY <1>1 DEF Mapped
  <1>3. HasPtr(m, f, n)
    BY <1>2, Numbers DEF HasPtr
  <1> QED
    BY <1>2, <1>3, PtrInUse DEF Ptrs

\* Writing a file to disk reads no block that is free.
LEMMA FileFlushGood ==
    ASSUME NEW m, Good(m), NEW f \in FileIds, NEW n, n = file_flush(m, f)
    PROVE  /\ Good(n) /\ n.blk = m.blk /\ n.panic = m.panic /\ n.dirty = m.dirty
           /\ n.written = m.written \cup (BlocksOf(m, f) \cap m.dirty)
  <1>1. PICK k : k = Flushed(m, f)
    OBVIOUS
  <1>2. PICK W \in SUBSET ({Super, Bitmap} \cup Data) : W = BlocksOf(m, f) \cap m.dirty
    BY BlocksOfAreData
  <1>3. k = [m EXCEPT !.written = @ \cup W]
    BY <1>1, <1>2 DEF Flushed
  <1>4. /\ Good(k) /\ k.blk = m.blk /\ k.free = m.free /\ k.panic = m.panic /\ k.dirty = m.dirty
        /\ k.written = m.written \cup W
    <2>1. Good(k)
      BY <1>3, OtherFields
    <2> QED
      BY <1>3, <2>1 DEF Good, Caches
  <1>5. read_block(k, File(m, f).indirect) = k
    BY <1>4, IndirectInUse, ReadInUse
  <1>6. n = k
    BY <1>1, <1>5 DEF file_flush
  <1> QED
    BY <1>2, <1>4, <1>6

\* A block is marked free while its owner still points to it.
LEMMA FreeBlockFields ==
    ASSUME NEW m \in Caches, NEW b \in Data, NEW k, k = free_block(m, b)
    PROVE  k \in Caches /\ k.blk = m.blk /\ k.free = m.free \cup {b}
  <1>1. k = [m EXCEPT !.free = @ \cup {b}]
    BY Numbers DEF free_block
  <1> QED
    BY <1>1 DEF Caches

\* A pointer is cleared in the step that frees its block.
LEMMA PointerFreed ==
    ASSUME NEW m, Good(m), NEW k \in Caches, k.blk = m.blk, NEW p0, k.free = m.free \cup {At(m, p0)},
           At(m, p0) # 0, NEW n, Retyped(k, n), SetsPlace(k, n, p0, 0)
    PROVE  Good(n)
  <1>1. m \in Caches /\ \A p \in Places : At(k, p) = At(m, p)
    BY SameContents DEF Good
  <1>2. SetsPlace(m, n, p0, 0)
    BY <1>1 DEF SetsPlace, Kept
  <1>3. n.free = m.free \cup {At(m, p0)} /\ n \in Caches
    BY DEF Retyped
  <1> QED
    BY <1>1, <1>2, <1>3, OwnerFreed, ZeroNotFree DEF Good

\* file_clear_block keeps the invariant: the freed block loses its one owner.
LEMMA FileClearBlockSound ==
    ASSUME NEW m, Good(m), NEW f \in FileIds, NEW n \in Nat, NEW x, x = file_clear_block(m, f, n)
    PROVE  Sound(x)
  <1>1. PICK y : y = file_block_walk(m, f, n, FALSE)
    OBVIOUS
  <1>2. Returns(m, y) /\ (y.r = "ok" => HasPtr(y.m, f, n)) /\ y.m = m
    <2>1. PICK alloc \in BOOLEAN : alloc = FALSE
      OBVIOUS
    <2>2. y = file_block_walk(m, f, n, alloc) /\ ~alloc
      BY <1>1, <2>1, Zenon
    <2> QED
      BY <2>2, FileBlockWalk
  <1>3. y \in Results /\ Sound(y) /\ m \in Caches
    BY <1>2, SoundFacts DEF Returns, Good
  <1>4. x = IF y.r = "ok"
            THEN IF Ptr(y.m, f, n) = 0 THEN y ELSE [y EXCEPT !.m = SetPtr(free_block(@, Ptr(@, f, n)), f, n, 0)]
            ELSE y
    BY <1>1 DEF file_clear_block, Then
  <1>5. CASE y.r # "ok" \/ Ptr(m, f, n) = 0
    BY <1>2, <1>3, <1>4, <1>5
  <1>6. CASE y.r = "ok" /\ Ptr(m, f, n) # 0
    <2>1. PICK b : b = Ptr(m, f, n)
      OBVIOUS
    <2>2. HasPtr(m, f, n) /\ b \in Data
      BY <1>2, <1>6, <2>1, PtrInUse DEF Ptrs
    <2>3. PICK k : k = free_block(m, b)
      OBVIOUS
    <2>4. k \in Caches /\ k.blk = m.blk /\ k.free = m.free \cup {b}
      BY <1>3, <2>2, <2>3, FreeBlockFields
    <2>5. HasPtr(k, f, n) /\ Ptr(k, f, n) = b
      BY <2>1, <2>2, <2>4, SameContents DEF HasPtr
    <2>6. PICK j : j = SetPtr(k, f, n, 0)
      OBVIOUS
    <2>7. Retyped(k, j) /\ \E p \in Places : SetsPlace(k, j, p, 0) /\ At(k, p) = b
      BY <2>4, <2>5, <2>6, SetPtrPlace, Numbers
    <2>8. PICK p \in Places : SetsPlace(k, j, p, 0) /\ At(m, p) = b
      BY <2>4, <2>7, SameContents
    <2>9. Good(j)
      BY <2>2, <2>4, <2>7, <2>8, PointerFreed, Numbers
    <2>10. x = [y EXCEPT !.m = j]
      BY <1>2, <1>3, <1>4, <1>6, <2>1, <2>3, <2>6 DEF Results
    <2>11. x \in Results /\ x.m = j
      BY <1>3, <2>9, <2>10, WithCache DEF Good
    <2> QED
      BY <2>9, <2>11 DEF Sound, Good
  <1> QED
    BY <1>5, <1>6

\* Freeing the indirect block of a file keeps the invariant.
LEMMA FreeIndirectGood ==
    ASSUME NEW m, Good(m), NEW f \in FileIds, NEW n, n = FreeIndirect(m, f)
    PROVE  Good(n)
  <1>1. m \in Caches /\ f[1] \in Blocks /\ f[2] \in Slots /\ f[2] # Indirect /\ NDIRECT \in 0..NDIRECT
    BY Numbers DEF Good, FileIds
  <1>2. PICK old \in FileType : old = File(m, f)
    BY <1>1, FileTyped
  <1>3. CASE old.indirect = 0
    BY <1>2, <1>3 DEF FreeIndirect
  <1>4. CASE old.indirect # 0
    <2>1. PICK b : b = old.indirect
      OBVIOUS
    <2>2. b \in Data
      BY <1>1, <1>2, <1>4, <2>1, FileTyped DEF Ptrs
    <2>3. PICK k : k = free_block(m, b)
      OBVIOUS
    <2>4. k \in Caches /\ k.blk = m.blk /\ k.free = m.free \cup {b}
      BY <1>1, <2>2, <2>3, FreeBlockFields
    <2>5. PICK new : new = [old EXCEPT !.indirect = 0]
      OBVIOUS
    <2>6. new \in FileType /\ new.size = old.size /\ new.direct = old.direct /\ new.indirect = 0
      BY <2>5 DEF FileType
    <2>7. n = Put(k, f, new)
      BY <1>2, <1>4, <2>1, <2>3, <2>5 DEF FreeIndirect
    <2>8. File(k, f) = old /\ old.size \in Nat
      BY <1>1, <1>2, <2>4, SameContents, FileTyped, Numbers
    <2>9. PtrOf(new, NDIRECT) = 0 /\ PtrOf(old, NDIRECT) = b
          /\ \A i \in (0..NDIRECT) \ {NDIRECT} : PtrOf(new, i) = PtrOf(old, i)
      BY <2>1, <2>6 DEF PtrOf
    <2>10. new.size <= File(k, f).size
      BY <2>6, <2>8
    <2>11. PICK p : p = <<f[1], f[2], NDIRECT>>
      OBVIOUS
    <2>12. Retyped(k, n) /\ SetsPlace(k, n, p, 0) /\ At(k, p) = b
      BY <1>1, <2>4, <2>6, <2>7, <2>8, <2>9, <2>10, <2>11, PutPointer
    <2>13. At(m, p) = b
      BY <2>4, <2>12, SameContents
    <2> QED
      BY <2>2, <2>4, <2>12, <2>13, PointerFreed, Numbers
  <1> QED
    BY <1>3, <1>4

\* One block of a truncation.
LEMMA ClearStepGood ==
    ASSUME NEW m, Good(m), NEW f \in FileIds, NEW n \in Nat
    PROVE  Good(ClearStep(m, f, n))
  <1>1. PICK x : x = file_clear_block(m, f, n)
    OBVIOUS
  <1>2. Good(x.m)
    BY <1>1, FileClearBlockSound, SoundFacts
  <1>3. Good(Cleared(x))
    BY <1>2, OtherFields DEF Cleared
  <1> QED
    BY <1>1, <1>3 DEF ClearStep

\* The rounds of a truncation.
LEMMA ClearRun ==
    ASSUME NEW m, Good(m), NEW f \in FileIds, NEW new \in Nat, new <= File(m, f).size
    PROVE  \E g \in [0..(File(m, f).size - new) -> { k \in Caches : Good(k) }] :
              /\ g[0] = m /\ g[File(m, f).size - new] = ClearFrom(m, f, new)
              /\ \A i \in 1..(File(m, f).size - new) : g[i] = ClearStep(g[i - 1], f, new + i - 1)
  <1> DEFINE S == { k \in Caches : Good(k) }
             n == File(m, f).size - new
             round == [p \in S \X (1..n) |-> ClearStep(p[1], f, new + p[2] - 1)]
             Loop(g) == g = [i \in 0..n |-> IF i = 0 THEN m ELSE ClearStep(g[i - 1], f, new + i - 1)]
  <1>1. m \in S /\ n \in Nat
    BY FileTyped, Numbers DEF Good
  <1>2. ASSUME NEW k \in S, NEW i \in 1..n PROVE ClearStep(k, f, new + i - 1) \in S
    <2>1. new + i - 1 \in Nat
      BY <1>1
    <2>2. PICK j : j = new + i - 1
      OBVIOUS
    <2>3. Good(ClearStep(k, f, j))
      BY <2>1, <2>2, ClearStepGood
    <2> QED
      BY <2>2, <2>3 DEF Good
  <1>3. round \in [S \X (1..n) -> S]
    BY <1>2
  <1>4. \A k \in S, i \in 1..n : round[<<k, i>>] = ClearStep(k, f, new + i - 1)
    OBVIOUS
  <1> HIDE DEF S, n, round
  <1>5. PICK g : Loops(g, S, n, m, round)
    BY <1>1, <1>3, LoopRuns
  <1>6. ASSUME NEW i \in 1..n PROVE g[i] = ClearStep(g[i - 1], f, new + i - 1)
    <2>1. i - 1 \in 0..n
      BY <1>1
    <2>2. g[i - 1] \in S
      BY <1>5, <2>1 DEF Loops
    <2> QED
      BY <1>4, <1>5, <2>2 DEF Loops
  <1>7. Loop(g)
    BY <1>1, <1>5, <1>6 DEF Loops
  <1>8. ASSUME NEW h, Loop(h) PROVE h = g
    <2>1. DOMAIN h = 0..n /\ h = [i \in 0..n |-> h[i]] /\ h[0] = m
          /\ \A i \in 1..n : h[i] = ClearStep(h[i - 1], f, new + i - 1)
      <3>1. DOMAIN h = 0..n /\ h = [i \in 0..n |-> h[i]]
        BY <1>8
      <3>2. \A i \in 0..n : h[i] = IF i = 0 THEN m ELSE ClearStep(h[i - 1], f, new + i - 1)
        BY <1>8
      <3>3. 0 \in 0..n /\ \A i \in 1..n : i \in 0..n /\ i # 0
        BY <1>1
      <3> HIDE DEF Loop
      <3> QED
        BY <3>1, <3>2, <3>3
    <2> HIDE DEF Loop
    <2>2. DOMAIN g = 0..n /\ g = [i \in 0..n |-> g[i]] /\ g[0] = m
      BY <1>5 DEF Loops
    <2>3. \A i \in 1..n : h[i - 1] = g[i - 1] => h[i] = g[i]
      BY <1>6, <2>1
    <2> QED
      BY <1>1, <2>1, <2>2, <2>3, LoopUnique
  <1>9. PICK after : after = CHOOSE h : Loop(h)
    OBVIOUS
  <1>10. after = g
    <2> HIDE DEF Loop
    <2> QED
      BY <1>7, <1>8, <1>9
  <1>11. ClearFrom(m, f, new) = after[n]
    BY <1>9 DEF ClearFrom, n
  <1> QED
    BY <1>5, <1>6, <1>10, <1>11 DEF S, n, Loops

\* The blocks from the new size on are freed one by one.
LEMMA ClearFromGood ==
    ASSUME NEW m, Good(m), NEW f \in FileIds, NEW new \in Nat, new <= File(m, f).size
    PROVE  Good(ClearFrom(m, f, new))
  <1>1. File(m, f).size \in Nat
    BY FileTyped, Numbers DEF Good
  <1>2. File(m, f).size - new \in 0..(File(m, f).size - new)
    BY <1>1
  <1> QED
    BY <1>2, ClearRun

\* The size of a file changes.
LEMMA SetSizeGood ==
    ASSUME NEW m, Good(m), NEW f \in FileIds, NEW n \in 0..(NINDIRECT + 1)
    PROVE  Good(SetSize(m, f, n))
  <1>1. PICK old \in FileType : old = File(m, f)
    BY FileTyped DEF Good
  <1>2. PICK new : new = [old EXCEPT !.size = n]
    OBVIOUS
  <1>3. new \in FileType /\ \A i \in 0..NDIRECT : PtrOf(new, i) = PtrOf(old, i)
    BY <1>2, SamePtrs
  <1>4. PICK k : k = Put(m, f, new)
    OBVIOUS
  <1>5. Good(k)
    BY <1>1, <1>3, <1>4, PutSamePtrs
  <1> QED
    BY <1>1, <1>2, <1>4, <1>5 DEF SetSize

\* file_truncate keeps the invariant.
LEMMA FileTruncateGood ==
    ASSUME NEW m, Good(m), NEW f \in FileIds, NEW new \in 0..(NINDIRECT + 1), new <= File(m, f).size
    PROVE  Good(file_truncate(m, f, new))
  <1>1. PICK k : k = ClearFrom(m, f, new)
    OBVIOUS
  <1>2. Good(k)
    BY <1>1, ClearFromGood, Numbers
  <1>3. PICK j : j = IF new <= NDIRECT THEN FreeIndirect(k, f) ELSE k
    OBVIOUS
  <1>4. Good(j)
    BY <1>2, <1>3, FreeIndirectGood
  <1>5. file_truncate(m, f, new) = IF k.panic # "none" THEN k ELSE SetSize(j, f, new)
    BY <1>1, <1>3 DEF file_truncate, Shrunk
  <1> QED
    BY <1>2, <1>4, <1>5, SetSizeGood

\* Flushing the directory of a file keeps the invariant.
LEMMA FlushDirGood ==
    ASSUME NEW m, Good(m), NEW f \in FileIds
    PROVE  Good(FlushDir(m, f))
  <1>1. CASE m.panic # "none" \/ File(m, f).dir = Null
    BY <1>1 DEF FlushDir
  <1>2. CASE ~(m.panic # "none" \/ File(m, f).dir = Null)
    <2>1. PICK d : d = File(m, f).dir
      OBVIOUS
    <2>2. d \in FileIds
      BY <1>2, <2>1, FileTyped DEF Good
    <2>3. PICK n : n = file_flush(m, d)
      OBVIOUS
    <2>4. Good(n)
      BY <2>2, <2>3, FileFlushGood
    <2> QED
      BY <1>2, <2>1, <2>3, <2>4 DEF FlushDir
  <1> QED
    BY <1>1, <1>2

\* file_set_size keeps the invariant.
LEMMA FileSetSizeGood ==
    ASSUME NEW m, Good(m), NEW f \in FileIds, NEW new \in 0..(NINDIRECT + 1)
    PROVE  Good(file_set_size(m, f, new))
  <1>1. File(m, f).size \in Nat
    BY FileTyped, Numbers DEF Good
  <1>2. PICK k : k = IF File(m, f).size > new THEN file_truncate(m, f, new) ELSE SetSize(m, f, new)
    OBVIOUS
  <1>3. Good(k)
    BY <1>1, <1>2, FileTruncateGood, SetSizeGood
  <1> QED
    BY <1>2, <1>3, FlushDirGood DEF file_set_size

\* file_close keeps the invariant.
LEMMA FileCloseGood ==
    ASSUME NEW m, Good(m), NEW f \in FileIds
    PROVE  Good(file_close(m, f))
  <1>1. PICK k : k = file_flush(m, f)
    OBVIOUS
  <1>2. Good(k)
    BY <1>1, FileFlushGood
  <1>3. Good(MarkEntry(k, f))
    <2>1. f[1] \in Blocks
      BY DEF FileIds
    <2> QED
      BY <1>2, <2>1, OtherFields DEF MarkEntry
  <1> QED
    BY <1>1, <1>3, FlushDirGood DEF file_close

\* file_remove keeps the invariant.
LEMMA FileRemoveSound ==
    ASSUME NEW m, Good(m), NEW path \in Paths, NEW x, x = file_remove(m, path)
    PROVE  Sound(x)
  <1>1. PICK y : y = walk_path(m, path)
    OBVIOUS
  <1>2. Finds(y)
    BY <1>1, WalkPathFinds
  <1>3. y \in Results /\ Good(y.m) /\ Sound(y)
    BY <1>2, SoundFacts DEF Finds
  <1>4. x = IF y.r = "ok" THEN [y EXCEPT !.m = Unnamed(file_truncate(@, y.file, 0), y.file)] ELSE y
    BY <1>1 DEF file_remove, Then
  <1>5. CASE y.r # "ok"
    BY <1>3, <1>4, <1>5
  <1>6. CASE y.r = "ok"
    <2>1. y.file \in FileIds
      BY <1>2, <1>6, EntryIsFile DEF Finds
    <2>2. PICK k : k = file_truncate(y.m, y.file, 0)
      OBVIOUS
    <2>3. Good(k)
      <3>1. 0 \in 0..(NINDIRECT + 1) /\ 0 <= File(y.m, y.file).size
        BY <1>3, <2>1, FileTyped, Numbers DEF Good
      <3>2. PICK z : z = 0
        OBVIOUS
      <3> QED
        BY <1>3, <2>1, <2>2, <3>1, FileTruncateGood
    <2>4. PICK old \in FileType : old = File(k, y.file)
      BY <2>1, <2>3, FileTyped DEF Good
    <2>5. PICK new : new = [old EXCEPT !.name = NoName]
      OBVIOUS
    <2>6. new \in FileType /\ \A i \in 0..NDIRECT : PtrOf(new, i) = PtrOf(old, i)
      BY <2>5, SamePtrs
    <2>7. PICK n : n = Put(k, y.file, new)
      OBVIOUS
    <2>8. Good(n)
      BY <2>1, <2>3, <2>4, <2>6, <2>7, PutSamePtrs
    <2>9. PICK j : j = Unnamed(k, y.file)
      OBVIOUS
    <2>10. Good(j)
      BY <2>1, <2>3, <2>4, <2>5, <2>7, <2>8, <2>9, FlushDirGood DEF Unnamed
    <2>11. x = [y EXCEPT !.m = j]
      BY <1>3, <1>4, <1>6, <2>2, <2>9 DEF Results
    <2>12. x \in Results /\ x.m = j
      BY <1>3, <2>10, <2>11, WithCache DEF Good
    <2> QED
      BY <2>10, <2>12 DEF Sound, Good
  <1> QED
    BY <1>5, <1>6

\* file_dirty keeps the invariant.
LEMMA FileDirtyGood ==
    ASSUME NEW m, Good(m), NEW f \in FileIds, NEW n \in Nat, NEW x, x = file_dirty(m, f, n)
    PROVE  Good(x.m) /\ x.r \in Codes
  <1>1. PICK y : y = file_map_block(m, f, n, FALSE)
    OBVIOUS
  <1>2. Returns(m, y) /\ (y.r = "ok" => y.b \in Data)
    <2>1. PICK alloc \in BOOLEAN : alloc = FALSE
      OBVIOUS
    <2>2. y = file_map_block(m, f, n, alloc)
      BY <1>1, <2>1, Zenon
    <2> QED
      BY <2>2, FileMapBlock
  <1>3. y \in Results /\ Good(y.m)
    BY <1>2, SoundFacts
  <1>4. x = IF y.r = "ok" THEN [y EXCEPT !.m = dirty_block(@, y.b)] ELSE y
    BY <1>1 DEF file_dirty, Then
  <1>5. CASE y.r = "ok"
    <2>1. x.m = dirty_block(y.m, y.b) /\ x.r \in Codes
      BY <1>3, <1>4, <1>5 DEF Results
    <2>2. y.b \in Blocks
      BY <1>2, <1>5, Numbers
    <2> QED
      BY <1>3, <2>1, <2>2, OtherFields
  <1>6. CASE y.r # "ok"
    BY <1>3, <1>4, <1>6, ResultFields
  <1> QED
    BY <1>5, <1>6

-----------------------------------------------------------------------------
(***************************************************************************)
(* The state of the server.                                                *)
(***************************************************************************)

\* The inductive invariant: the cache is typed and its blocks have one owner.
IInv ==
    /\ Good(Cache)
    /\ o_file \in [Opened -> {Null} \cup Entry]
    /\ written \subseteq {Super, Bitmap} \cup Data
    /\ requests \in 0..MaxRequests

\* What was written to disk is not part of the ownership.
LEMMA WrittenAside ==
    ASSUME NEW m, Good(m), NEW n, n.blk = m.blk, n \in Caches, n.free = m.free
    PROVE  Good(n)
  <1>1. \A p : At(n, p) = At(m, p)
    BY SameContents
  <1> QED
    BY <1>1 DEF Good, Owned, OneOwner, Loose

\* A handler whose routines return a sound cache keeps the invariant.
LEMMA BecomesGood ==
    ASSUME IInv, Serving, NEW m, Good(m), Becomes(m), o_file' \in [Opened -> {Null} \cup Entry]
    PROVE  IInv'
  <1>1. m \in Caches
    BY DEF Good
  <1>2. PICK n : n = [blk |-> m.blk, free |-> m.free, dirty |-> m.dirty, written |-> {},
                      panic |-> IF m.panic = "none" /\ Uncleared(m) THEN "stale" ELSE m.panic]
    OBVIOUS
  <1>3. n \in Caches /\ n.blk = m.blk /\ n.free = m.free
    BY <1>1, <1>2 DEF Caches
  <1>4. Good(n)
    BY <1>3, WrittenAside
  <1>5. Cache' = n
    BY <1>2 DEF Cache, Becomes
  <1>6. Good(Cache')
    BY <1>4, <1>5
  <1>7. written' \subseteq {Super, Bitmap} \cup Data
    BY <1>1 DEF Becomes, Caches
  <1>8. requests' \in 0..MaxRequests
    BY FsAssumption DEF IInv, Serving, Becomes
  <1> QED
    BY <1>6, <1>7, <1>8 DEF IInv, Opened

\* The cache when a request arrives.
LEMMA ServingFacts ==
    ASSUME IInv, NEW i \in Opened, o_file[i] # Null
    PROVE  Good(Cache) /\ o_file[i] \in Entry /\ o_file[i] \in FileIds /\ Cache \in Caches
  BY EntryIsFile DEF IInv, Good

\* A formatted disk: the root points to its first block, and the block points
\* to used blocks only, once to each.
LEMMA FormattedGood ==
    ASSUME NEW first \in Contents, NEW used \in SUBSET (Data \ {3}), Formatted(first, used),
           NEW m, m = Cache,
           \A p \in Places : p[1] = 3 => At(m, p) \in {0} \cup used,
           \A p, q \in Places : p[1] = 3 /\ q[1] = 3 /\ At(m, p) # 0 /\ At(m, p) = At(m, q) => p = q
    PROVE  IInv
  <1> DEFINE root == [EmptyFile EXCEPT !.size = 1, !.isdir = TRUE, !.direct[0] = 3]
             files == [j \in Slots |-> IF j = 0 THEN root ELSE EmptyFile]
             p0 == <<Super, 0, 0>>
  <1>1. 3 \in Data /\ Super \notin Data /\ 0 \notin Data /\ NDIRECT > 0
    BY FsAssumption DEF Data, Super
  <1>2. root \in FileType /\ \A n \in 0..NDIRECT : PtrOf(root, n) = IF n = 0 THEN 3 ELSE 0
    <2>1. PICK d : d = [EmptyFile.direct EXCEPT ![0] = 3]
      OBVIOUS
    <2>2. d \in [0..(NDIRECT - 1) -> Ptrs] /\ \A n \in 0..(NDIRECT - 1) : d[n] = IF n = 0 THEN 3 ELSE 0
      BY <1>1, <2>1, Numbers DEF EmptyFile, Ptrs
    <2>3. root \in FileType /\ root.direct = d /\ root.indirect = 0
      <3>1. PICK e \in FileType : e = EmptyFile
        BY EmptyFileType
      <3>2. root = [e EXCEPT !.size = 1, !.isdir = TRUE, !.direct = [e.direct EXCEPT ![0] = 3]]
        BY <3>1, Numbers DEF FileType
      <3>3. root = [e EXCEPT !.size = 1, !.isdir = TRUE, !.direct = d]
        BY <2>1, <3>1, <3>2
      <3>4. 1 \in 0..(NINDIRECT + 1)
        BY Numbers
      <3>5. root \in FileType
        BY <2>2, <3>3, <3>4 DEF FileType, Ptrs
      <3>6. root.direct = d /\ root.indirect = e.indirect
        BY <3>3 DEF FileType
      <3>7. e.indirect = 0
        BY <3>1 DEF EmptyFile
      <3> QED
        BY <3>5, <3>6, <3>7
    <2> HIDE DEF root
    <2> QED
      BY <1>1, <2>2, <2>3, Numbers DEF PtrOf
  <1> HIDE DEF root
  <1>3. files \in [Slots -> FileType] /\ files[0] = root /\ \A j \in Slots \ {0} : files[j] = EmptyFile
    BY <1>2, EmptyFileType, Numbers
  <1> HIDE DEF files
  <1>4. DirBlock(files) \in Contents /\ AsDir(DirBlock(files)) = files /\ AsInd(DirBlock(files)) = NoPtrs
    BY <1>3, DirBlockReads
  <1>5. blk = [b \in Blocks |-> CASE b = Super -> DirBlock(files) [] b = 3 -> first [] b \in Data \ {3} -> Zero]
    BY DEF Formatted, files, root, Blocks
  <1>6. blk \in [Blocks -> Contents] /\ blk[Super] = DirBlock(files) /\ \A b \in Data \ {3} : blk[b] = Zero
    <2>1. Zero \in Contents
      BY DEF Zero, Contents
    <2>2. ASSUME NEW b \in Blocks
          PROVE  blk[b] = IF b = Super THEN DirBlock(files) ELSE IF b = 3 THEN first ELSE Zero
      <3>1. CASE b = Super
        BY <1>1, <1>5, <3>1
      <3>2. CASE b = 3
        BY <1>1, <1>5, <3>2
      <3>3. CASE b \in Data \ {3}
        BY <1>1, <1>5, <3>3
      <3> QED
        BY <1>1, <2>2, <3>1, <3>2, <3>3 DEF Blocks
    <2>3. blk \in [Blocks -> {blk[b] : b \in Blocks}]
      BY <1>5
    <2> QED
      BY <1>1, <1>4, <2>1, <2>2, <2>3 DEF Blocks
  <1>7. free = Data \ ({3} \cup used) /\ dirty = {} /\ written = {} /\ panic = "none" /\ requests = 0
        /\ o_file = [i \in 1..MAXOPEN |-> Null]
    BY DEF Formatted
  <1>8. m.blk = blk /\ m.free = free /\ m \in Caches
    BY <1>6, <1>7 DEF Cache, Caches
  <1>9. ASSUME NEW p \in Places, p[1] # 3 PROVE At(m, p) = IF p = p0 THEN 3 ELSE 0
    <2>1. CASE p[2] = Indirect
      <3>1. p[1] \in Blocks /\ p[3] \in 0..(NINDIRECT - 1) /\ p # p0
        BY <2>1, Numbers DEF Places
      <3>2. AsInd(blk[p[1]]) = NoPtrs
        BY <1>4, <1>6, <1>9, <3>1 DEF Blocks, AsInd, Zero
      <3>3. At(m, p) = NoPtrs[p[3]]
        BY <1>8, <2>1, <3>2 DEF At
      <3> QED
        BY <3>1, <3>3 DEF NoPtrs
    <2>2. CASE p[2] # Indirect
      <3>1. p[1] \in Blocks /\ p[2] \in Slots /\ p[3] \in 0..NDIRECT /\ p = <<p[1], p[2], p[3]>>
        BY <2>2 DEF Places
      <3>2. At(m, p) = PtrOf(AsDir(blk[p[1]])[p[2]], p[3])
        BY <1>8, <2>2 DEF At
      <3>3. CASE p[1] \in Data
        <4>1. AsDir(blk[p[1]]) = [j \in Slots |-> EmptyFile]
          BY <1>6, <1>9, <3>3 DEF AsDir, Zero
        <4> QED
          BY <1>1, <3>1, <3>2, <3>3, <4>1, EmptyFileType
      <3>4. CASE p[1] = Super /\ p[2] = 0
        BY <1>2, <1>3, <1>4, <1>6, <3>1, <3>2, <3>4
      <3>5. CASE p[1] = Super /\ p[2] # 0
        BY <1>3, <1>4, <1>6, <3>1, <3>2, <3>5, EmptyFileType
      <3> QED
        BY <3>1, <3>3, <3>4, <3>5 DEF Blocks
    <2> QED
      BY <2>1, <2>2
  <1>10. OneOwner(m)
    <2> SUFFICES ASSUME NEW p \in Places, NEW q \in Places, At(m, p) # 0, At(m, p) = At(m, q) PROVE p = q
      BY DEF OneOwner
    <2>1. CASE p[1] = 3 /\ q[1] = 3
      BY <2>1
    <2>2. CASE p[1] # 3 /\ q[1] # 3
      BY <1>9, <2>2
    <2>3. CASE p[1] = 3 /\ q[1] # 3
      <3>1. At(m, p) \in {0} \cup used /\ At(m, q) \in {0, 3}
        BY <1>9, <2>3
      <3> QED
        BY <3>1
    <2>4. CASE p[1] # 3 /\ q[1] = 3
      <3>1. At(m, q) \in {0} \cup used /\ At(m, p) \in {0, 3}
        BY <1>9, <2>4
      <3> QED
        BY <3>1
    <2> QED
      BY <2>1, <2>2, <2>3, <2>4
  <1>11. ASSUME NEW b \in m.free, NEW p \in Places PROVE At(m, p) # b
    <2>1. b # 0 /\ b # 3 /\ b \notin used
      BY <1>1, <1>7, <1>8
    <2> QED
      BY <1>9, <2>1
  <1>12. Owned(m)
    BY <1>10, <1>11 DEF Owned, Loose
  <1> QED
    BY <1>7, <1>8, <1>12, FsAssumption DEF IInv, Good, Opened

\* The first block of a formatted disk.
LEMMA FirstBlock ==
    ASSUME NEW first, NEW used, Formatted(first, used)
    PROVE  blk[3] = first
  <1>1. 3 \in Data /\ 3 # Super /\ 3 \notin Data \ {3}
    BY FsAssumption DEF Data, Super
  <1> QED
    BY <1>1 DEF Formatted

\* The disk of Init: the root is empty.
LEMMA InitGood == ASSUME Init PROVE IInv
  <1>1. PICK m : m = Cache
    OBVIOUS
  <1>2. Formatted(Zero, {}) /\ Zero \in Contents /\ m.blk = blk
    BY <1>1 DEF Init, Zero, Contents, Cache
  <1>3. blk[3] = Zero
    BY <1>2, FirstBlock
  <1>4. AsDir(Zero) = [j \in Slots |-> EmptyFile] /\ AsInd(Zero) = NoPtrs
    BY DEF AsDir, AsInd, Zero
  <1>5. ASSUME NEW p \in Places, p[1] = 3 PROVE At(m, p) = 0
    <2>1. CASE p[2] = Indirect
      <3>1. At(m, p) = NoPtrs[p[3]] /\ p[3] \in 0..(NINDIRECT - 1)
        BY <1>2, <1>3, <1>4, <1>5, <2>1, Numbers DEF At, Places
      <3> QED
        BY <3>1 DEF NoPtrs
    <2>2. CASE p[2] # Indirect
      <3>1. p[2] \in Slots /\ p[3] \in 0..NDIRECT /\ At(m, p) = PtrOf(AsDir(Zero)[p[2]], p[3])
        BY <1>2, <1>3, <1>5, <2>2 DEF At, Places
      <3> QED
        BY <1>4, <3>1, EmptyFileType
    <2> QED
      BY <2>1, <2>2
  <1> QED
    BY <1>1, <1>2, <1>5, FormattedGood

\* A block written by a client loses its pointers.
LEMMA WrittenGood ==
    ASSUME NEW m, Good(m), NEW b \in Data
    PROVE  Good(Rewritten(m, b, Written))
  <1>1. m \in Caches /\ Owned(m) /\ b \in Blocks /\ Written \in Contents
    BY Numbers DEF Good, Written, Contents
  <1>2. PICK n : n = Rewritten(m, b, Written)
    OBVIOUS
  <1>3. Retyped(m, n) /\ n.blk[b] = Written /\ \A a \in Blocks \ {b} : n.blk[a] = m.blk[a]
    BY <1>1, <1>2, SetBlk
  <1>4. ASSUME NEW p \in Places PROVE Kept(m, n, p)
    <2>1. CASE p[1] # b
      <3>1. n.blk[p[1]] = m.blk[p[1]]
        BY <1>3, <2>1 DEF Places
      <3>2. At(n, p) = At(m, p)
        BY <3>1, Zenon DEF At
      <3> QED
        BY <3>2 DEF Kept
    <2>2. CASE p[1] = b
      <3>1. AsDir(Written) = [j \in Slots |-> EmptyFile] /\ AsInd(Written) = NoPtrs
        BY DEF AsDir, AsInd, Written
      <3>2. CASE p[2] = Indirect
        <4>1. p[3] \in 0..(NINDIRECT - 1) /\ At(n, p) = NoPtrs[p[3]]
          BY <1>3, <2>2, <3>1, <3>2, Numbers DEF At, Places
        <4> QED
          BY <4>1 DEF Kept, NoPtrs
      <3>3. CASE p[2] # Indirect
        <4>1. p[2] \in Slots /\ p[3] \in 0..NDIRECT /\ At(n, p) = PtrOf(AsDir(Written)[p[2]], p[3])
          BY <1>3, <2>2, <3>3 DEF At, Places
        <4> QED
          BY <3>1, <4>1, EmptyFileType DEF Kept
      <3> QED
        BY <3>2, <3>3
    <2> QED
      BY <2>1, <2>2
  <1>5. n.free \subseteq m.free /\ n \in Caches
    BY <1>3 DEF Retyped
  <1>6. Owned(n)
    BY <1>1, <1>4, <1>5, ZeroNotFree, OwnersDropped
  <1> QED
    BY <1>2, <1>5, <1>6 DEF Good

\* A store to a block of the data area, whoever makes it.
LEMMA StoreGood ==
    ASSUME Good(Cache), NEW b \in Data, blk' = [blk EXCEPT ![b] = Written],
           free' = free, dirty' = dirty, panic' = panic
    PROVE  Good(Cache')
  <1>1. PICK new : new = [blk EXCEPT ![b] = Written]
    OBVIOUS
  <1>2. Cache' = [blk |-> new, free |-> free, dirty |-> dirty, written |-> {}, panic |-> panic]
    BY <1>1 DEF Cache
  <1>3. Rewritten(Cache, b, Written) = [Cache EXCEPT !.blk = [Cache.blk EXCEPT ![b] = Written]]
    BY DEF Rewritten, Caches, Good
  <1>4. Cache.blk = blk
    BY DEF Cache
  <1>5. Rewritten(Cache, b, Written) = [Cache EXCEPT !.blk = new]
    BY <1>1, <1>3, <1>4
  <1>6. [Cache EXCEPT !.blk = new] = [blk |-> new, free |-> free, dirty |-> dirty, written |-> {}, panic |-> panic]
    BY DEF Cache
  <1>7. Good(Rewritten(Cache, b, Written))
    BY WrittenGood
  <1> QED
    BY <1>2, <1>5, <1>6, <1>7

-----------------------------------------------------------------------------
(***************************************************************************)
(* The handlers.                                                           *)
(***************************************************************************)

\* The file that serve_open goes on with.
LEMMA OpeningFinds ==
    ASSUME Good(Cache), NEW path \in Paths, NEW c \in BOOLEAN,
           NEW x, x = Opening(IF c THEN file_create(Cache, path) ELSE Ok(Cache), path)
    PROVE  Finds(x)
  <1>1. Cache \in Caches
    BY DEF Good
  <1>2. PICK y : y = IF c THEN file_create(Cache, path) ELSE Ok(Cache)
    OBVIOUS
  <1>3. Sound(y)
    <2>1. CASE c
      BY <1>1, <1>2, <2>1, FileCreateFinds DEF Finds
    <2>2. CASE ~c
      <3>1. "ok" \in Codes
        BY DEF Codes
      <3>2. y = Ok(Cache)
        BY <1>2, <2>2
      <3>3. y \in Results /\ y.m = Cache
        BY <1>1, <3>1, <3>2, OkErr
      <3> QED
        BY <1>1, <3>3 DEF Sound, Good
    <2> QED
      BY <2>1, <2>2
  <1>4. x = Opening(y, path)
    BY <1>2
  <1>5. CASE y.r \in {"ok", "FILE_EXISTS"}
    <2>1. Good(y.m) /\ x = walk_path(y.m, path)
      BY <1>3, <1>4, <1>5, SoundFacts DEF Opening
    <2> QED
      BY <2>1, WalkPathFinds
  <1>6. CASE y.r \notin {"ok", "FILE_EXISTS"}
    BY <1>3, <1>4, <1>6 DEF Opening, Finds
  <1> QED
    BY <1>5, <1>6

\* serve_open: the file is created if asked, found, and truncated if asked.
LEMMA OpenStep ==
    ASSUME IInv, NEW i \in Opened, NEW path \in Paths, NEW c \in BOOLEAN, NEW t \in BOOLEAN,
           serve_open(i, path, c, t)
    PROVE  IInv'
  <1>1. Serving /\ Good(Cache)
    BY DEF serve_open, IInv
  <1>2. PICK x : x = Opening(IF c THEN file_create(Cache, path) ELSE Ok(Cache), path)
    OBVIOUS
  <1>3. Sound(x) /\ (x.r = "ok" => x.file \in Entry)
    BY <1>1, <1>2, OpeningFinds DEF Finds
  <1>4. OpenAs(i, x, t)
    BY <1>2 DEF serve_open
  <1>5. Good(x.m) /\ o_file \in [Opened -> {Null} \cup Entry]
    BY <1>3, SoundFacts DEF IInv
  <1>6. CASE x.r = "ok"
    <2>1. x.file \in Entry /\ x.file \in FileIds
      BY <1>3, <1>6, EntryIsFile
    <2>2. PICK n : n = IF t THEN file_set_size(x.m, x.file, 0) ELSE x.m
      OBVIOUS
    <2>3. Good(n)
      BY <1>5, <2>1, <2>2, FileSetSizeGood, Numbers
    <2>4. Becomes(n) /\ o_file' = [o_file EXCEPT ![i] = x.file]
      BY <1>4, <1>6, <2>2 DEF OpenAs
    <2>5. o_file' \in [Opened -> {Null} \cup Entry]
      BY <1>5, <2>1, <2>4
    <2> QED
      BY <1>1, <2>3, <2>4, <2>5, BecomesGood
  <1>7. CASE x.r # "ok"
    BY <1>1, <1>4, <1>5, <1>7, BecomesGood DEF OpenAs
  <1> QED
    BY <1>6, <1>7

\* serve_create: the new entry is a file or a directory.
LEMMA CreateStep ==
    ASSUME IInv, NEW path \in Paths, NEW isdir \in BOOLEAN, serve_create(path, isdir)
    PROVE  IInv'
  <1>1. Serving /\ Good(Cache) /\ o_file' = o_file
    BY DEF serve_create, IInv
  <1>2. PICK x : x = file_create(Cache, path)
    OBVIOUS
  <1>3. Finds(x) /\ x \in Results /\ Good(x.m) /\ x.m \in Caches
    BY <1>1, <1>2, FileCreateFinds, SoundFacts DEF Finds
  <1>4. PICK y : y = IF x.r = "ok"
                     THEN [x EXCEPT !.m = Put(@, x.file, [File(@, x.file) EXCEPT !.isdir = isdir])] ELSE x
    OBVIOUS
  <1>5. Becomes(y.m)
    BY <1>2, <1>4 DEF serve_create, Then
  <1>6. Good(y.m)
    <2>1. CASE x.r = "ok"
      <3>1. x.file \in FileIds
        BY <1>3, <2>1, EntryIsFile DEF Finds
      <3>2. PICK new : new = [File(x.m, x.file) EXCEPT !.isdir = isdir]
        OBVIOUS
      <3>3. new \in FileType /\ \A k \in 0..NDIRECT : PtrOf(new, k) = PtrOf(File(x.m, x.file), k)
        BY <1>3, <3>1, <3>2, FileTyped, SamePtrs
      <3>4. y = [x EXCEPT !.m = Put(x.m, x.file, new)]
        BY <1>3, <1>4, <2>1, <3>2 DEF Results
      <3>5. y.m = Put(x.m, x.file, new)
        BY <1>3, <3>4 DEF Results
      <3> QED
        BY <1>3, <3>1, <3>3, <3>5, PutSamePtrs
    <2>2. CASE x.r # "ok"
      BY <1>3, <1>4, <2>2
    <2> QED
      BY <2>1, <2>2
  <1> QED
    BY <1>1, <1>5, <1>6, BecomesGood DEF IInv

\* A client's store to a page it has mapped.
LEMMA ClientStep ==
    ASSUME IInv, NEW i \in Opened, NEW n \in 0..(NINDIRECT - 1), ClientWrite(i, n)
    PROVE  IInv'
  <1>1. /\ Serving /\ o_file[i] # Null /\ n \in Mapped(Cache, o_file[i])
        /\ blk' = [blk EXCEPT ![Ptr(Cache, o_file[i], n)] = Written]
        /\ written' = {} /\ requests' = requests + 1
        /\ free' = free /\ dirty' = dirty /\ panic' = panic /\ o_file' = o_file
    BY DEF ClientWrite
  <1>2. Good(Cache) /\ o_file[i] \in FileIds /\ Cache \in Caches
    BY <1>1, ServingFacts
  <1>3. PICK b : b = Ptr(Cache, o_file[i], n)
    OBVIOUS
  <1>4. b \in Data
    BY <1>1, <1>2, <1>3, BlocksOfAreData DEF BlocksOf
  <1>5. Good(Cache')
    BY <1>1, <1>2, <1>3, <1>4, StoreGood
  <1>6. requests' \in 0..MaxRequests
    BY <1>1, FsAssumption DEF IInv, Serving
  <1> QED
    BY <1>1, <1>5, <1>6 DEF IInv, Opened

\* serve_map.
LEMMA MapStep ==
    ASSUME IInv, NEW i \in Opened, NEW n \in Nat, serve_map(i, n)
    PROVE  IInv'
  <1>1. Serving /\ o_file[i] # Null /\ Becomes(file_get_block(Cache, o_file[i], n).m) /\ o_file' = o_file
    BY DEF serve_map
  <1>2. Good(Cache) /\ o_file[i] \in FileIds
    BY <1>1, ServingFacts
  <1>3. Returns(Cache, file_get_block(Cache, o_file[i], n))
    BY <1>2, FileGetBlock
  <1>4. Good(file_get_block(Cache, o_file[i], n).m)
    BY <1>3, SoundFacts
  <1> QED
    BY <1>1, <1>4, BecomesGood DEF IInv

\* serve_set_size.
LEMMA SetSizeStep ==
    ASSUME IInv, NEW i \in Opened, NEW new \in 0..(NINDIRECT + 1), serve_set_size(i, new)
    PROVE  IInv'
  <1>1. Serving /\ o_file[i] # Null /\ Becomes(file_set_size(Cache, o_file[i], new)) /\ o_file' = o_file
    BY DEF serve_set_size
  <1>2. Good(Cache) /\ o_file[i] \in FileIds
    BY <1>1, ServingFacts
  <1>3. Good(file_set_size(Cache, o_file[i], new))
    BY <1>2, FileSetSizeGood
  <1> QED
    BY <1>1, <1>3, BecomesGood DEF IInv

\* serve_close.
LEMMA CloseStep ==
    ASSUME IInv, NEW i \in Opened, serve_close(i)
    PROVE  IInv'
  <1>1. Serving /\ o_file[i] # Null /\ Becomes(file_close(Cache, o_file[i])) /\ o_file' = o_file
    BY DEF serve_close
  <1>2. Good(Cache) /\ o_file[i] \in FileIds
    BY <1>1, ServingFacts
  <1>3. Good(file_close(Cache, o_file[i]))
    BY <1>2, FileCloseGood
  <1> QED
    BY <1>1, <1>3, BecomesGood DEF IInv

\* serve_remove.
LEMMA RemoveStep ==
    ASSUME IInv, NEW path \in Paths, serve_remove(path)
    PROVE  IInv'
  <1>1. Serving /\ Becomes(file_remove(Cache, path).m) /\ o_file' = o_file /\ Good(Cache)
    BY DEF serve_remove, IInv
  <1>2. Good(file_remove(Cache, path).m)
    BY <1>1, FileRemoveSound, SoundFacts
  <1> QED
    BY <1>1, <1>2, BecomesGood DEF IInv

\* serve_dirty.
LEMMA DirtyStep ==
    ASSUME IInv, NEW i \in Opened, NEW n \in Nat, serve_dirty(i, n)
    PROVE  IInv'
  <1>1. Serving /\ o_file[i] # Null /\ Becomes(file_dirty(Cache, o_file[i], n).m) /\ o_file' = o_file
    BY DEF serve_dirty
  <1>2. Good(Cache) /\ o_file[i] \in FileIds
    BY <1>1, ServingFacts
  <1>3. Good(file_dirty(Cache, o_file[i], n).m)
    BY <1>2, FileDirtyGood
  <1> QED
    BY <1>1, <1>3, BecomesGood DEF IInv

\* serve_sync.
LEMMA SyncStep ==
    ASSUME IInv, serve_sync
    PROVE  IInv'
  <1>1. Serving /\ Becomes(fs_sync(Cache)) /\ o_file' = o_file /\ Good(Cache)
    BY DEF serve_sync, IInv
  <1>2. PICK W \in SUBSET ({Super, Bitmap} \cup Data) : W = Cache.dirty
    BY <1>1, CacheFields DEF Good, Blocks
  <1>3. fs_sync(Cache) = [Cache EXCEPT !.written = @ \cup W]
    BY <1>2 DEF fs_sync
  <1>4. Good(fs_sync(Cache))
    BY <1>1, <1>3, OtherFields
  <1> QED
    BY <1>1, <1>4, BecomesGood DEF IInv

\* A step of somebody else.
LEMMA SameState == ASSUME IInv, UNCHANGED vars PROVE IInv'
  <1>1. Cache' = Cache /\ o_file' = o_file /\ written' = written /\ requests' = requests
    BY DEF vars, Cache
  <1> QED
    BY <1>1 DEF IInv, Opened

\* Every step keeps the invariant.
LEMMA StepGood == IInv /\ [Next]_vars => IInv'
  <1> SUFFICES ASSUME IInv, [Next]_vars PROVE IInv'
    OBVIOUS
  <1>1. ASSUME NEW i \in Opened, NEW path \in Paths, NEW c \in BOOLEAN, NEW t \in BOOLEAN,
               serve_open(i, path, c, t)
        PROVE  IInv'
    BY <1>1, OpenStep
  <1>2. ASSUME NEW i \in Opened, NEW n \in 0..(NINDIRECT - 1), serve_map(i, n) PROVE IInv'
    BY <1>2, MapStep, Numbers
  <1>3. ASSUME NEW i \in Opened, NEW new \in 0..NINDIRECT, serve_set_size(i, new) PROVE IInv'
    BY <1>3, SetSizeStep, Numbers
  <1>4. ASSUME NEW i \in Opened, serve_close(i) PROVE IInv'
    BY <1>4, CloseStep
  <1>5. ASSUME NEW path \in Paths, serve_remove(path) PROVE IInv'
    BY <1>5, RemoveStep
  <1>6. ASSUME NEW i \in Opened, NEW n \in 0..(NINDIRECT - 1), serve_dirty(i, n) PROVE IInv'
    BY <1>6, DirtyStep, Numbers
  <1>7. ASSUME serve_sync PROVE IInv'
    BY <1>7, SyncStep
  <1>8. ASSUME NEW path \in Paths, NEW d \in BOOLEAN, serve_create(path, d) PROVE IInv'
    BY <1>8, CreateStep
  <1>9. ASSUME NEW i \in Opened, NEW n \in 0..(NINDIRECT - 1), ClientWrite(i, n) PROVE IInv'
    BY <1>9, ClientStep
  <1>10. CASE UNCHANGED vars
    BY <1>10, SameState
  <1> QED
    BY <1>1, <1>2, <1>3, <1>4, <1>5, <1>6, <1>7, <1>8, <1>9, <1>10 DEF Next

-----------------------------------------------------------------------------
(***************************************************************************)
(* What the invariant says of the pointers the cache holds.                *)
(***************************************************************************)

\* The place of a pointer that InUse lists.
PlaceOf(p) == IF blk[p[1][1]].kind = "ind" THEN <<p[1][1], Indirect, p[2]>> ELSE <<p[1][1], p[1][2], p[2]>>

\* Every pointer in use lies at a place.
LEMMA PlacesOfPointers ==
    ASSUME IInv, NEW p \in InUse(Cache)
    PROVE  /\ PlaceOf(p) \in Places /\ At(Cache, PlaceOf(p)) = p[3]
           /\ p = <<p[1], p[2], p[3]>> /\ p[1] = <<p[1][1], p[1][2]>>
           /\ blk[p[1][1]].kind \in {"dir", "ind"} /\ (blk[p[1][1]].kind = "ind" => p[1][2] = 0)
           /\ p[3] # 0 /\ p[2] = PlaceOf(p)[3]
  <1>1. Cache \in Caches /\ Cache.blk = blk /\ DOMAIN blk = Blocks /\ blk \in [Blocks -> Contents]
    <2>1. Cache \in Caches /\ Cache.blk = blk
      BY DEF IInv, Good, Cache
    <2> QED
      BY <2>1, CacheFields
  <1>2. p \in Pointers(Cache) /\ p[3] # 0
    BY DEF InUse
  <1>3. Files(Cache) \subseteq FileIds /\ \A f \in Files(Cache) : blk[f[1]].kind = "dir"
    BY <1>1 DEF Files, FileIds
  <1>4. CASE \E f \in Files(Cache), n \in 0..(NDIRECT - 1) : p = <<f, n, File(Cache, f).direct[n]>>
    <2>1. PICK f \in Files(Cache), n \in 0..(NDIRECT - 1) : p = <<f, n, File(Cache, f).direct[n]>>
      BY <1>4
    <2>2. f \in FileIds /\ f[1] \in Blocks /\ f[2] \in Slots /\ f = <<f[1], f[2]>> /\ blk[f[1]].kind = "dir"
          /\ n \in 0..NDIRECT /\ n # NDIRECT
      BY <1>3, Numbers DEF FileIds
    <2>3. PlaceOf(p) = <<f[1], f[2], n>> /\ f[2] # Indirect
      BY <2>1, <2>2, Numbers DEF PlaceOf
    <2>4. At(Cache, PlaceOf(p)) = File(Cache, f).direct[n]
      BY <2>2, <2>3 DEF At, File, PtrOf
    <2>5. PlaceOf(p) \in Places
      BY <2>2, <2>3 DEF Places
    <2> QED
      BY <1>2, <2>1, <2>2, <2>3, <2>4, <2>5
  <1>5. CASE \E f \in Files(Cache) : p = <<f, NDIRECT, File(Cache, f).indirect>>
    <2>1. PICK f \in Files(Cache) : p = <<f, NDIRECT, File(Cache, f).indirect>>
      BY <1>5
    <2>2. f \in FileIds /\ f[1] \in Blocks /\ f[2] \in Slots /\ f = <<f[1], f[2]>> /\ blk[f[1]].kind = "dir"
          /\ NDIRECT \in 0..NDIRECT
      BY <1>3, Numbers DEF FileIds
    <2>3. PlaceOf(p) = <<f[1], f[2], NDIRECT>> /\ f[2] # Indirect
      BY <2>1, <2>2, Numbers DEF PlaceOf
    <2>4. At(Cache, PlaceOf(p)) = File(Cache, f).indirect
      BY <2>2, <2>3 DEF At, File, PtrOf
    <2>5. PlaceOf(p) \in Places
      BY <2>2, <2>3 DEF Places
    <2> QED
      BY <1>2, <2>1, <2>2, <2>3, <2>4, <2>5
  <1>6. CASE \E b \in { c \in DOMAIN blk : blk[c].kind = "ind" }, n \in 0..(NINDIRECT - 1) :
                p = <<<<b, 0>>, n, AsInd(blk[b])[n]>>
    <2>1. PICK b \in { c \in DOMAIN blk : blk[c].kind = "ind" }, n \in 0..(NINDIRECT - 1) :
                p = <<<<b, 0>>, n, AsInd(blk[b])[n]>>
      BY <1>6
    <2>2. b \in Blocks /\ blk[b].kind = "ind"
      BY <1>1
    <2>3. PlaceOf(p) = <<b, Indirect, n>>
      BY <2>1, <2>2 DEF PlaceOf
    <2>4. At(Cache, PlaceOf(p)) = AsInd(blk[b])[n]
      BY <1>1, <2>3 DEF At
    <2>5. PlaceOf(p) \in Places
      BY <2>2, <2>3 DEF Places
    <2> QED
      BY <1>2, <2>1, <2>2, <2>3, <2>4, <2>5
  <1> QED
    BY <1>1, <1>2, <1>4, <1>5, <1>6 DEF Pointers

\* A block has one owner.
LEMMA InvOwned == IInv => BlocksOwned
  <1> SUFFICES ASSUME IInv PROVE BlocksOwned
    OBVIOUS
  <1>1. Cache \in Caches /\ OneOwner(Cache) /\ (\A b \in free : Loose(Cache, b))
    BY DEF IInv, Good, Owned, Cache
  <1>2. ASSUME NEW p \in InUse(Cache), NEW q \in InUse(Cache), p[3] = q[3] PROVE p = q
    <2>1. PlaceOf(p) \in Places /\ PlaceOf(q) \in Places
          /\ At(Cache, PlaceOf(p)) # 0 /\ At(Cache, PlaceOf(p)) = At(Cache, PlaceOf(q))
      BY <1>2, PlacesOfPointers
    <2>2. PlaceOf(p) = PlaceOf(q)
      BY <1>1, <2>1, Zenon DEF OneOwner
    <2>3. /\ p = <<p[1], p[2], p[3]>> /\ p[1] = <<p[1][1], p[1][2]>> /\ p[2] = PlaceOf(p)[3]
          /\ blk[p[1][1]].kind = "ind" => p[1][2] = 0
      BY PlacesOfPointers
    <2>4. /\ q = <<q[1], q[2], q[3]>> /\ q[1] = <<q[1][1], q[1][2]>> /\ q[2] = PlaceOf(q)[3]
          /\ blk[q[1][1]].kind = "ind" => q[1][2] = 0
      BY PlacesOfPointers
    <2>5. p[1][1] = PlaceOf(p)[1] /\ q[1][1] = PlaceOf(q)[1]
      BY DEF PlaceOf
    <2>6. p[1][1] = q[1][1] /\ p[2] = q[2]
      BY <2>2, <2>3, <2>4, <2>5
    <2>7. p[1][2] = q[1][2]
      <3>1. CASE blk[p[1][1]].kind = "ind"
        BY <2>3, <2>4, <2>6, <3>1
      <3>2. CASE blk[p[1][1]].kind # "ind"
        <4>1. PlaceOf(p)[2] = p[1][2] /\ PlaceOf(q)[2] = q[1][2]
          BY <2>6, <3>2 DEF PlaceOf
        <4> QED
          BY <2>2, <4>1
      <3> QED
        BY <3>1, <3>2
    <2> QED
      BY <1>2, <2>3, <2>4, <2>6, <2>7
  <1>3. ASSUME NEW p \in InUse(Cache) PROVE p[3] \in Data \ free
    <2>1. PlaceOf(p) \in Places /\ At(Cache, PlaceOf(p)) = p[3] /\ p[3] # 0
      BY PlacesOfPointers
    <2>2. p[3] \in Ptrs
      BY <1>1, <2>1, AtTyped
    <2>3. p[3] \notin free
      BY <1>1, <2>1 DEF Loose
    <2> QED
      BY <2>1, <2>2, <2>3 DEF Ptrs
  <1> QED
    BY <1>2, <1>3 DEF BlocksOwned

\* The cache is typed.
LEMMA InvTyped == IInv => TypeOK /\ NeverReadsFree
  <1> SUFFICES ASSUME IInv PROVE TypeOK /\ NeverReadsFree
    OBVIOUS
  <1>1. /\ blk \in [Blocks -> Contents] /\ free \subseteq Data /\ dirty \subseteq Blocks
        /\ panic \in {"none", "truncate", "stale"}
    BY DEF IInv, Good, Caches, Cache
  <1>2. ASSUME NEW b \in DOMAIN blk
        PROVE  CASE blk[b].kind = "dir" -> \A j \in Slots : blk[b].files[j] \in FileType
                 [] blk[b].kind = "ind" -> \A n \in DOMAIN NoPtrs : blk[b].ptrs[n] \in {0} \cup Data
                 [] OTHER -> blk[b] \in {Zero, Written}
    <2>1. blk[b] \in Contents
      BY <1>1
    <2>2. CASE blk[b] \in [kind : {"dir"}, files : [Slots -> FileType]]
      BY <2>2
    <2>3. CASE blk[b] \in [kind : {"ind"}, ptrs : [0..(NINDIRECT - 1) -> Ptrs]]
      BY <2>3 DEF NoPtrs, Ptrs
    <2>4. CASE blk[b] \in [kind : {"zero"}] \cup [kind : {"data"}]
      BY <2>4 DEF Zero, Written
    <2> QED
      BY <2>1, <2>2, <2>3, <2>4 DEF Contents
  <1>3. \A i \in 1..MAXOPEN : o_file[i] \in {Null} \cup (Data \X Slots)
    BY DEF IInv, Opened, Entry
  <1>4. TypeOK
    BY <1>1, <1>2, <1>3 DEF TypeOK, IInv, Blocks
  <1> QED
    BY <1>1, <1>4 DEF NeverReadsFree

\* The invariant is inductive.
THEOREM Inductive == Spec => []IInv
  <1>1. Init => IInv
    BY InitGood
  <1> QED
    BY <1>1, StepGood, PTL DEF Spec

\* TypeOK: the contents of the blocks are typed as long as the server is Intact.
THEOREM Typed == Spec => []TypeOK
  BY Inductive, InvTyped, PTL

\* BlocksOwned: no request, in whatever order and on a disk however full, gives
\* a block two owners, an owner and a mark as free, or a number outside the
\* data area, as long as the server is Intact: until a block with other bytes
\* in it, which alloc_block does not clear, becomes a directory or an indirect
\* block.
THEOREM BlocksHaveOneOwner == Spec => []BlocksOwned
  BY Inductive, InvOwned, PTL

\* NeverReadsFree: the panic of read_block is not reached before the server
\* ceases to be Intact.
THEOREM FreeNeverRead == Spec => []NeverReadsFree
  BY Inductive, InvTyped, PTL

-----------------------------------------------------------------------------
(***************************************************************************)
(* What serve_close writes.                                                *)
(***************************************************************************)

\* The blocks of a file depend on the contents of the cache only.
LEMMA SameBlocks ==
    ASSUME NEW m, NEW n, n.blk = m.blk, NEW f
    PROVE  Mapped(n, f) = Mapped(m, f) /\ BlocksOf(n, f) = BlocksOf(m, f)
  <1>1. File(n, f) = File(m, f) /\ \A k : Ptr(n, f, k) = Ptr(m, f, k)
    BY SameContents
  <1>2. Mapped(n, f) = Mapped(m, f)
    BY <1>1 DEF Mapped
  <1> QED
    BY <1>1, <1>2 DEF BlocksOf

\* What file_close leaves written.
LEMMA FileCloseWrites ==
    ASSUME NEW m, Good(m), m.panic = "none", NEW f \in FileIds, File(m, f).dir # Null,
           Holds(m, File(m, f).dir, f[1]), NEW n, n = file_close(m, f)
    PROVE  {f[1]} \cup (BlocksOf(m, f) \cap m.dirty) \subseteq n.written
  <1> DEFINE dir == File(m, f).dir
  <1>1. PICK k : k = file_flush(m, f)
    OBVIOUS
  <1>2. /\ Good(k) /\ k.blk = m.blk /\ k.panic = m.panic /\ k.dirty = m.dirty
        /\ k.written = m.written \cup (BlocksOf(m, f) \cap m.dirty)
    BY <1>1, FileFlushGood
  <1>3. m \in Caches /\ k \in Caches /\ f[1] \in Blocks /\ dir \in FileIds
    BY <1>2, FileTyped DEF Good
  <1>4. Holds(k, dir, f[1]) /\ File(k, f) = File(m, f)
    <2>1. \A d : File(k, d) = File(m, d)
      BY <1>2, SameContents
    <2>2. \A d, i : Ptr(k, d, i) = Ptr(m, d, i)
      BY <1>2, SameContents
    <2>3. Mapped(k, dir) = Mapped(m, dir)
      BY <1>2, SameBlocks
    <2> QED
      BY <2>1, <2>2, <2>3 DEF Holds
  <1>5. PICK j : j = dirty_block(k, f[1])
    OBVIOUS
  <1>6. Good(j) /\ j.blk = m.blk /\ j.panic = "none" /\ j.written = k.written /\ f[1] \in j.dirty
    <2>1. Good(j)
      BY <1>2, <1>3, <1>5, OtherFields
    <2> QED
      BY <1>2, <1>3, <1>5, <2>1 DEF dirty_block, Caches
  <1>7. MarkEntry(k, f) = j
    BY <1>4, <1>5 DEF MarkEntry
  <1>8. File(j, f) = File(m, f)
    BY <1>6, SameContents
  <1>9. n = file_flush(j, dir)
    BY <1>1, <1>6, <1>7, <1>8 DEF file_close, FlushDir
  <1>10. n.written = j.written \cup (BlocksOf(j, dir) \cap j.dirty)
    BY <1>3, <1>6, <1>9, FileFlushGood
  <1>11. f[1] \in BlocksOf(j, dir)
    <2>1. f[1] \in BlocksOf(m, dir)
      BY DEF Holds, BlocksOf
    <2> QED
      BY <1>6, <2>1, SameBlocks
  <1> QED
    BY <1>2, <1>6, <1>10, <1>11

\* CloseWrites: a close leaves the entry of the file and the blocks that were
\* marked dirty on the disk.
THEOREM CloseReachesDisk == Spec => CloseWrites
  <1>1. ASSUME IInv, NEW i \in Opened, serve_close(i), File(Cache, o_file[i]).dir # Null,
               Holds(Cache, File(Cache, o_file[i]).dir, o_file[i][1])
        PROVE  {o_file[i][1]} \cup (BlocksOf(Cache, o_file[i]) \cap dirty) \subseteq written'
    <2>1. PICK n : n = file_close(Cache, o_file[i])
      OBVIOUS
    <2>2. Serving /\ o_file[i] # Null /\ written' = n.written
      BY <1>1, <2>1 DEF serve_close, Becomes
    <2>3. Good(Cache) /\ o_file[i] \in FileIds
      BY <1>1, <2>2, ServingFacts
    <2>4. Cache.panic = "none" /\ Cache.dirty = dirty
      BY <2>2 DEF Serving, Cache
    <2>5. {o_file[i][1]} \cup (BlocksOf(Cache, o_file[i]) \cap Cache.dirty) \subseteq n.written
      BY <1>1, <2>1, <2>3, <2>4, FileCloseWrites
    <2> QED
      BY <2>2, <2>4, <2>5
  <1>2. IInv /\ [Next]_vars
          => [\A i \in Opened :
               LET f == o_file[i]
                   dir == File(Cache, f).dir
               IN  serve_close(i) /\ dir # Null /\ Holds(Cache, dir, f[1])
                     => {f[1]} \cup (BlocksOf(Cache, f) \cap dirty) \subseteq written']_vars
    BY <1>1
  <1> QED
    BY <1>2, Inductive, PTL DEF Spec, CloseWrites

-----------------------------------------------------------------------------
(***************************************************************************)
(* Clients and server                                                      *)
(***************************************************************************)

\* The sizes of a file, the codes of an answer, and the calls of a client.
FileSizes == 0..(NINDIRECT + 1)
Replies == Codes \cup {"MAX_OPEN"}
Ops == {"idle", "open", "create", "remove", "sync", "close", "ftruncate", "write"}

\* The requests that name an entry by the client's descriptor, and those that
\* name a path.
FdSteps == {"map", "set_size", "restore", "dirty", "close"}
PathSteps == {"open", "create", "remove"}

\* The calls a client can be in.
CallShapes == [op : Ops, at : {"start", "sync"} \cup FdSteps \cup PathSteps, d : Fds, n : Nat,
               size : FileSizes, old : FileSizes, path : Paths \cup {<<>>},
               creat : BOOLEAN, trunc : BOOLEAN]
Calls == { k \in CallShapes : /\ k.at \in PathSteps => k.path \in Paths
                              /\ k.op = "write" => k.size \in 1..NINDIRECT }

\* The shapes of the descriptors, the mapped pages and the answer.
FdTables == [Clients -> [Fds -> {0} \cup Entries]]
PageTables == [Clients -> [Fds -> [Pages -> Ptrs]]]
AnswerType == [to : Clients \cup {NoClient}, r : Replies, entry : {0} \cup Entries, block : Ptrs]

\* The types of the variables, with the calls and their arguments related.
Types ==
    /\ fd \in FdTables /\ page \in PageTables
    /\ f_size \in [Entries -> FileSizes]
    /\ call \in [Clients -> Calls]
    /\ ipc \in [Clients -> {"none", "send", "wait", "done"}]
    /\ reply \in [Clients -> Replies]
    /\ server \in AnswerType
    /\ loose \subseteq Entries

\* A client waits for the server exactly when the server is answering it, and
\* has no request exactly when it is in no call.
Waits == /\ \A c \in Clients : ipc[c] = "wait" <=> server.to = c
         /\ \A c \in Clients : call[c].op = "idle" <=> ipc[c] = "none"

\* Descriptors, and the answer that will make one, name opened files.
Opens == /\ \A c \in Clients, d \in Fds : fd[c][d] # 0 => o_file[fd[c][d]] # Null
         /\ server.to # NoClient /\ server.entry # 0 => o_file[server.entry] # Null

\* An open that succeeded has an entry, which is then at the descriptor; the
\* requests after it find the descriptor there.
HasFd ==
    /\ server.to # NoClient /\ server.r = "ok" => (call[server.to].at = "open" => server.entry # 0)
    /\ \A c \in Clients : ipc[c] = "done" /\ call[c].at = "open" /\ reply[c] = "ok" => fd[c][call[c].d] # 0
    /\ \A c \in Clients : call[c].at \in FdSteps => fd[c][call[c].d] # 0

\* The inductive invariant.
SInv == IInv /\ Types /\ Waits /\ Opens /\ HasFd

-----------------------------------------------------------------------------
\* Constants.
LEMMA ServNumbers ==
    /\ NoClient \notin Clients /\ Fds \subseteq Nat /\ 0 \in Fds /\ 0..(MAXFD - 2) \subseteq Fds
    /\ Sizes \subseteq FileSizes /\ 0 \in FileSizes /\ Entries = Opened /\ Entries \subseteq Nat \ {0}
    /\ NINDIRECT \in Nat /\ NINDIRECT > 0 /\ Pages = 0..(NINDIRECT - 1) /\ 1..NINDIRECT \subseteq FileSizes
  BY FsServAssumption, FsAssumption DEF Fds, FileSizes, Entries, Opened, Pages

\* No call.
LEMMA NoCallType == NoCall \in Calls /\ NoCall.op = "idle" /\ NoCall.at \notin FdSteps
  BY ServNumbers DEF NoCall, Calls, CallShapes, Ops, FdSteps, PathSteps

\* An update at two indices.
LEMMA SetNested ==
    ASSUME NEW A, NEW B, NEW C, NEW f \in [A -> [B -> C]], NEW a \in A, NEW b \in B, NEW v \in C,
           NEW g, g = [f EXCEPT ![a][b] = v]
    PROVE  /\ g \in [A -> [B -> C]] /\ g[a][b] = v
           /\ \A x \in A \ {a} : g[x] = f[x]
           /\ \A y \in B \ {b} : g[a][y] = f[a][y]
  OBVIOUS

\* A step of a client between two requests: it starts a call, goes on with the
\* next request or returns.  It may give up its own descriptors.
LEMMA ClientGoesOn ==
    ASSUME SInv, IInv', NEW c \in Clients, ipc[c] \in {"none", "done"}, NEW k \in Calls,
           NEW s \in {"send", "none"}, k.op = "idle" <=> s = "none",
           call' = [call EXCEPT ![c] = k], ipc' = [ipc EXCEPT ![c] = s],
           o_file' = o_file, reply' = reply, server' = server,
           f_size' \in [Entries -> FileSizes], fd' \in FdTables, page' \in PageTables, loose' \subseteq Entries,
           \A e \in Clients \ {c} : fd'[e] = fd[e],
           \A d \in Fds : fd'[c][d] \in {0, fd[c][d]},
           k.at \in FdSteps => fd'[c][k.d] # 0
    PROVE  SInv'
  <1>1. Types /\ Waits /\ Opens /\ HasFd
    BY DEF SInv
  <1>2. call'[c] = k /\ ipc'[c] = s /\ \A e \in Clients \ {c} : call'[e] = call[e] /\ ipc'[e] = ipc[e]
    BY <1>1 DEF Types
  <1>3. server.to # c
    BY <1>1 DEF Waits
  <1>4. Types'
    BY <1>1 DEF Types
  <1>5. Waits'
    BY <1>1, <1>2, <1>3 DEF Waits
  <1>6. Opens'
    BY <1>1 DEF Opens
  <1>7. HasFd'
    <2>1. server'.to # NoClient /\ server'.r = "ok" => (call'[server'.to].at = "open" => server'.entry # 0)
      <3>1. server.to # NoClient => server.to \in Clients \ {c}
        BY <1>1, <1>3 DEF Types, AnswerType
      <3> QED
        BY <1>1, <1>2, <3>1 DEF HasFd
    <2>2. ASSUME NEW e \in Clients, ipc'[e] = "done", call'[e].at = "open", reply'[e] = "ok"
          PROVE  fd'[e][call'[e].d] # 0
      BY <1>1, <1>2, <2>2 DEF HasFd
    <2>3. ASSUME NEW e \in Clients, call'[e].at \in FdSteps PROVE fd'[e][call'[e].d] # 0
      BY <1>1, <1>2, <2>3 DEF HasFd
    <2> QED
      BY <2>1, <2>2, <2>3 DEF HasFd
  <1> QED
    BY <1>4, <1>5, <1>6, <1>7 DEF SInv

\* The server takes a request and starts to answer it.
LEMMA ServerAnswers ==
    ASSUME SInv, IInv', NEW c \in Clients, ipc[c] = "send", server.to = NoClient,
           NEW r \in Replies, NEW i \in {0} \cup Entries, NEW b \in Ptrs, Answers(c, r, i, b),
           f_size' \in [Entries -> FileSizes], loose' \subseteq Entries,
           \A e \in Entries : o_file[e] # Null => o_file'[e] # Null,
           i # 0 => o_file'[i] # Null,
           call[c].at = "open" /\ r = "ok" => i # 0
    PROVE  SInv'
  <1>1. Types /\ Waits /\ Opens /\ HasFd
    BY DEF SInv
  <1>2. /\ server' = [to |-> c, r |-> r, entry |-> i, block |-> b] /\ ipc' = [ipc EXCEPT ![c] = "wait"]
        /\ fd' = fd /\ page' = page /\ call' = call /\ reply' = reply
    BY DEF Answers
  <1>3. server'.to = c /\ server'.r = r /\ server'.entry = i /\ server'.block = b /\ server' \in AnswerType
    BY <1>2 DEF AnswerType
  <1>4. ipc'[c] = "wait" /\ \A e \in Clients \ {c} : ipc'[e] = ipc[e]
    BY <1>1, <1>2 DEF Types
  <1>5. Types'
    BY <1>1, <1>2, <1>3 DEF Types
  <1>6. Waits'
    <2>1. ASSUME NEW e \in Clients PROVE ipc'[e] = "wait" <=> server'.to = e
      BY <1>1, <1>3, <1>4, ServNumbers DEF Waits
    <2>2. ASSUME NEW e \in Clients PROVE call'[e].op = "idle" <=> ipc'[e] = "none"
      BY <1>1, <1>2, <1>4 DEF Waits
    <2> QED
      BY <2>1, <2>2 DEF Waits
  <1>7. Opens'
    <2>1. ASSUME NEW e \in Clients, NEW d \in Fds, fd'[e][d] # 0 PROVE o_file'[fd'[e][d]] # Null
      <3>1. fd[e][d] \in Entries
        BY <1>1, <1>2, <2>1 DEF Types, FdTables
      <3> QED
        BY <1>1, <1>2, <2>1, <3>1 DEF Opens
    <2> QED
      BY <1>3, <2>1 DEF Opens
  <1>8. HasFd'
    <2>1. server'.to # NoClient /\ server'.r = "ok" => (call'[server'.to].at = "open" => server'.entry # 0)
      BY <1>2, <1>3
    <2>2. ASSUME NEW e \in Clients, ipc'[e] = "done", call'[e].at = "open", reply'[e] = "ok"
          PROVE  fd'[e][call'[e].d] # 0
      BY <1>1, <1>2, <1>4, <2>2 DEF HasFd
    <2> QED
      BY <1>1, <1>2, <2>1, <2>2 DEF HasFd
  <1> QED
    BY <1>5, <1>6, <1>7, <1>8 DEF SInv

-----------------------------------------------------------------------------
(***************************************************************************)
(* The handlers.                                                           *)
(***************************************************************************)

\* What holds when the server takes a request.
LEMMA Requested ==
    ASSUME SInv, NEW c \in Clients, NEW at, Requests(c, at)
    PROVE  /\ ipc[c] = "send" /\ server.to = NoClient /\ Serving /\ call[c].at = at
           /\ call[c] \in Calls /\ call[c].n \in Nat /\ call[c].size \in FileSizes /\ call[c].old \in FileSizes
           /\ call[c].creat \in BOOLEAN /\ call[c].trunc \in BOOLEAN
           /\ at \in PathSteps => call[c].path \in Paths
           /\ IInv /\ o_file \in [Opened -> {Null} \cup Entry] /\ f_size \in [Entries -> FileSizes]
           /\ loose \subseteq Entries /\ Good(Cache)
  <1>1. call[c] \in Calls
    BY DEF SInv, Types
  <1> QED
    BY <1>1 DEF Requests, Calls, CallShapes, SInv, Types, IInv

\* The entry of a request about a descriptor.
LEMMA EntryOf ==
    ASSUME SInv, NEW c \in Clients, open_lookup(fd[c][call[c].d])
    PROVE  fd[c][call[c].d] \in Opened /\ fd[c][call[c].d] \in Entries /\ o_file[fd[c][call[c].d]] # Null
  <1>1. call[c].d \in Fds
    BY DEF SInv, Types, Calls, CallShapes
  <1>2. fd[c][call[c].d] \in {0} \cup Entries
    BY <1>1 DEF SInv, Types, FdTables
  <1> QED
    BY <1>1, <1>2, ServNumbers DEF open_lookup, SInv, Opens

\* An answer that opens no file.
LEMMA PlainAnswer ==
    ASSUME SInv, IInv', NEW c \in Clients, ipc[c] = "send", server.to = NoClient, call[c].at # "open",
           NEW r \in Replies, NEW b \in Ptrs, Answers(c, r, 0, b), o_file' = o_file,
           f_size' = f_size, loose' \subseteq Entries
    PROVE  SInv'
  <1>1. f_size' \in [Entries -> FileSizes]
    BY DEF SInv, Types
  <1>2. PICK i \in {0} \cup Entries : i = 0
    OBVIOUS
  <1> QED
    BY <1>1, <1>2, ServerAnswers

\* The answer to a request about a descriptor that is not open.
LEMMA InvalidAnswer ==
    ASSUME SInv, NEW c \in Clients, NEW at, Requests(c, at), at # "open", Invalid(c)
    PROVE  SInv'
  <1>1. Answers(c, "INVAL", 0, 0) /\ UNCHANGED vars /\ f_size' = f_size /\ loose' = loose /\ o_file' = o_file
    BY DEF Invalid, vars
  <1>2. IInv'
    BY <1>1, Requested, SameState
  <1>3. PICK r \in Replies, b \in Ptrs : r = "INVAL" /\ b = 0
    BY DEF Replies, Codes, Ptrs
  <1>4. Answers(c, r, 0, b)
    BY <1>1, <1>3
  <1> QED
    BY <1>1, <1>2, <1>4, Requested, PlainAnswer

\* The step of serve_map keeps SInv.
LEMMA ServeMapStep == ASSUME SInv, NEW c \in Clients, ServeMap(c) PROVE SInv'
  <1> DEFINE i == fd[c][call[c].d]
  <1>1. Requests(c, "map")
    BY DEF ServeMap
  <1>2. CASE ~open_lookup(i)
    BY <1>1, <1>2, InvalidAnswer DEF ServeMap, OfEntry
  <1>3. CASE open_lookup(i)
    <2>1. i \in Opened /\ o_file[i] # Null
      BY <1>3, EntryOf
    <2>2. PICK x : x = file_get_block(Cache, o_file[i], call[c].n)
      OBVIOUS
    <2>3. /\ serve_map(i, call[c].n) /\ Answers(c, x.r, 0, IF x.r = "ok" THEN x.b ELSE 0)
          /\ f_size' = f_size /\ loose' = loose
      BY <1>3, <2>2 DEF ServeMap, OfEntry
    <2>4. IInv' /\ o_file' = o_file
      BY <1>1, <2>1, <2>3, Requested, MapStep DEF serve_map
    <2>5. o_file[i] \in FileIds
      BY <1>1, <2>1, Requested, ServingFacts
    <2>6. Returns(Cache, x)
      BY <1>1, <2>2, <2>5, Requested, FileGetBlock
    <2>7. x.r \in Replies /\ x.b \in Ptrs /\ 0 \in Ptrs
      BY <2>6, ResultFields, Numbers DEF Returns, Replies
    <2>8. PICK b \in Ptrs : b = IF x.r = "ok" THEN x.b ELSE 0
      BY <2>7
    <2>9. Answers(c, x.r, 0, b)
      BY <2>3, <2>8
    <2> QED
      BY <1>1, <2>3, <2>4, <2>7, <2>9, Requested, PlainAnswer
  <1> QED
    BY <1>2, <1>3

\* The step of serve_set_size keeps SInv.
LEMMA ServeSetSizeStep == ASSUME SInv, NEW c \in Clients, ServeSetSize(c) PROVE SInv'
  <1> DEFINE i == fd[c][call[c].d]
  <1>1. PICK at \in {"set_size", "restore"} :
          /\ Requests(c, at)
          /\ IF open_lookup(i)
             THEN \E new \in {IF at = "set_size" THEN call[c].size ELSE call[c].old} :
                     /\ serve_set_size(i, new)
                     /\ loose' = loose
                          \cup (IF File(Cache, o_file[i]).size > new THEN Aliases(i, o_file[i]) ELSE {})
                          \cup (IF Cardinality(Holders(i)) > 1 THEN {i} ELSE {})
                     /\ Answers(c, "ok", 0, 0) /\ f_size' = f_size
             ELSE Invalid(c)
    BY DEF ServeSetSize, OfEntry
  <1>2. CASE ~open_lookup(i)
    BY <1>1, <1>2, InvalidAnswer
  <1>3. CASE open_lookup(i)
    <2>1. i \in Opened /\ i \in Entries /\ o_file[i] # Null
      BY <1>3, EntryOf
    <2>2. PICK new : /\ new = IF at = "set_size" THEN call[c].size ELSE call[c].old
                     /\ serve_set_size(i, new)
                     /\ loose' = loose
                          \cup (IF File(Cache, o_file[i]).size > new THEN Aliases(i, o_file[i]) ELSE {})
                          \cup (IF Cardinality(Holders(i)) > 1 THEN {i} ELSE {})
                     /\ Answers(c, "ok", 0, 0) /\ f_size' = f_size
      BY <1>1, <1>3
    <2>3. new \in 0..(NINDIRECT + 1)
      BY <1>1, <2>2, Requested DEF FileSizes
    <2>4. IInv' /\ o_file' = o_file
      BY <1>1, <2>1, <2>2, <2>3, Requested, SetSizeStep DEF serve_set_size
    <2>5. loose' \subseteq Entries
      BY <1>1, <2>1, <2>2, Requested DEF Aliases
    <2>6. PICK r \in Replies, b \in Ptrs : r = "ok" /\ b = 0
      BY DEF Replies, Codes, Ptrs
    <2>7. Answers(c, r, 0, b)
      BY <2>2, <2>6
    <2> QED
      BY <1>1, <2>2, <2>4, <2>5, <2>7, Requested, PlainAnswer
  <1> QED
    BY <1>2, <1>3

\* The step of serve_dirty keeps SInv.
LEMMA ServeDirtyStep == ASSUME SInv, NEW c \in Clients, ServeDirty(c) PROVE SInv'
  <1> DEFINE i == fd[c][call[c].d]
  <1>1. Requests(c, "dirty")
    BY DEF ServeDirty
  <1>2. CASE ~open_lookup(i)
    BY <1>1, <1>2, InvalidAnswer DEF ServeDirty, OfEntry
  <1>3. CASE open_lookup(i)
    <2>1. i \in Opened /\ o_file[i] # Null
      BY <1>3, EntryOf
    <2>2. PICK x : x = file_dirty(Cache, o_file[i], call[c].n)
      OBVIOUS
    <2>3. serve_dirty(i, call[c].n) /\ Answers(c, x.r, 0, 0) /\ f_size' = f_size /\ loose' = loose
      BY <1>3, <2>2 DEF ServeDirty, OfEntry
    <2>4. IInv' /\ o_file' = o_file
      BY <1>1, <2>1, <2>3, Requested, DirtyStep DEF serve_dirty
    <2>5. o_file[i] \in FileIds
      BY <1>1, <2>1, Requested, ServingFacts
    <2>6. x.r \in Replies
      BY <1>1, <2>2, <2>5, Requested, FileDirtyGood DEF Replies
    <2>7. PICK b \in Ptrs : b = 0
      BY DEF Ptrs
    <2>8. Answers(c, x.r, 0, b)
      BY <2>3, <2>7
    <2> QED
      BY <1>1, <2>3, <2>4, <2>6, <2>8, Requested, PlainAnswer
  <1> QED
    BY <1>2, <1>3

\* The step of serve_close keeps SInv.
LEMMA ServeCloseStep == ASSUME SInv, NEW c \in Clients, ServeClose(c) PROVE SInv'
  <1> DEFINE i == fd[c][call[c].d]
  <1>1. Requests(c, "close")
    BY DEF ServeClose
  <1>2. CASE ~open_lookup(i)
    BY <1>1, <1>2, InvalidAnswer DEF ServeClose, OfEntry
  <1>3. CASE open_lookup(i)
    <2>1. i \in Opened /\ o_file[i] # Null
      BY <1>3, EntryOf
    <2>2. serve_close(i) /\ Answers(c, "ok", 0, 0) /\ f_size' = f_size /\ loose' = loose
      BY <1>3 DEF ServeClose, OfEntry
    <2>3. IInv' /\ o_file' = o_file
      BY <1>1, <2>1, <2>2, Requested, CloseStep DEF serve_close
    <2>4. PICK r \in Replies, b \in Ptrs : r = "ok" /\ b = 0
      BY DEF Replies, Codes, Ptrs
    <2>5. Answers(c, r, 0, b)
      BY <2>2, <2>4
    <2> QED
      BY <1>1, <2>2, <2>3, <2>5, Requested, PlainAnswer
  <1> QED
    BY <1>2, <1>3

\* The step of serve_remove keeps SInv.
LEMMA ServeRemoveStep == ASSUME SInv, NEW c \in Clients, ServeRemove(c) PROVE SInv'
  <1>1. Requests(c, "remove")
    BY DEF ServeRemove
  <1>2. PICK x : x = file_remove(Cache, call[c].path)
    OBVIOUS
  <1>3. /\ serve_remove(call[c].path) /\ Answers(c, x.r, 0, 0) /\ f_size' = f_size
        /\ loose' = loose \cup IF x.r = "ok" THEN Aliases(0, x.file) ELSE {}
    BY <1>2 DEF ServeRemove
  <1>4. call[c].path \in Paths
    BY <1>1, Requested DEF PathSteps
  <1>5. IInv' /\ o_file' = o_file
    BY <1>1, <1>3, <1>4, Requested, RemoveStep DEF serve_remove
  <1>6. Sound(x)
    BY <1>1, <1>2, <1>4, Requested, FileRemoveSound
  <1>7. x.r \in Replies /\ loose' \subseteq Entries
    BY <1>1, <1>3, <1>6, Requested, ResultFields DEF Sound, Replies, Aliases
  <1>8. PICK b \in Ptrs : b = 0
    BY DEF Ptrs
  <1>9. Answers(c, x.r, 0, b)
    BY <1>3, <1>8
  <1> QED
    BY <1>1, <1>3, <1>5, <1>7, <1>9, Requested, PlainAnswer

\* The step of serve_create keeps SInv.
LEMMA ServeCreateStep == ASSUME SInv, NEW c \in Clients, ServeCreate(c) PROVE SInv'
  <1>1. Requests(c, "create")
    BY DEF ServeCreate
  <1>2. PICK x : x = file_create(Cache, call[c].path)
    OBVIOUS
  <1>3. serve_create(call[c].path, FALSE) /\ Answers(c, x.r, 0, 0) /\ f_size' = f_size /\ loose' = loose
    BY <1>2 DEF ServeCreate
  <1>4. call[c].path \in Paths
    BY <1>1, Requested DEF PathSteps
  <1>5. IInv' /\ o_file' = o_file
    <2>1. PICK d \in BOOLEAN : d = FALSE
      OBVIOUS
    <2>2. serve_create(call[c].path, d)
      BY <1>3, <2>1
    <2> QED
      BY <1>1, <1>4, <2>2, Requested, CreateStep DEF serve_create
  <1>6. x.r \in Replies
    BY <1>1, <1>2, <1>4, Requested, FileCreateFinds, ResultFields DEF Finds, Sound, Replies
  <1>7. PICK b \in Ptrs : b = 0
    BY DEF Ptrs
  <1>8. Answers(c, x.r, 0, b)
    BY <1>3, <1>7
  <1> QED
    BY <1>1, <1>3, <1>5, <1>6, <1>8, Requested, PlainAnswer

\* The step of serve_sync keeps SInv.
LEMMA ServeSyncStep == ASSUME SInv, NEW c \in Clients, ServeSync(c) PROVE SInv'
  <1>1. Requests(c, "sync") /\ serve_sync /\ Answers(c, "ok", 0, 0) /\ f_size' = f_size /\ loose' = loose
    BY DEF ServeSync
  <1>2. IInv' /\ o_file' = o_file
    BY <1>1, Requested, SyncStep DEF serve_sync
  <1>3. PICK r \in Replies, b \in Ptrs : r = "ok" /\ b = 0
    BY DEF Replies, Codes, Ptrs
  <1>4. Answers(c, r, 0, b)
    BY <1>1, <1>3
  <1> QED
    BY <1>1, <1>2, <1>4, Requested, PlainAnswer

\* serve_open takes the first entry that nobody has.
LEMMA ServeOpenStep == ASSUME SInv, NEW c \in Clients, ServeOpen(c) PROVE SInv'
  <1>1. Requests(c, "open")
    BY DEF ServeOpen
  <1>2. call[c].path \in Paths
    BY <1>1, Requested DEF PathSteps
  <1>3. CASE open_alloc = {}
    <2>1. Answers(c, "MAX_OPEN", 0, 0) /\ UNCHANGED vars /\ f_size' = f_size /\ loose' = loose
      BY <1>3 DEF ServeOpen
    <2>2. IInv' /\ o_file' = o_file
      BY <1>1, <2>1, Requested, SameState DEF vars
    <2>3. PICK r \in Replies, i \in {0} \cup Entries, b \in Ptrs : r = "MAX_OPEN" /\ i = 0 /\ b = 0 /\ r # "ok"
      BY DEF Replies, Ptrs
    <2>4. Answers(c, r, i, b)
      BY <2>1, <2>3
    <2>5. f_size' \in [Entries -> FileSizes] /\ loose' \subseteq Entries
      BY <1>1, <2>1, Requested
    <2> QED
      BY <1>1, <2>2, <2>3, <2>4, <2>5, Requested, ServerAnswers
  <1>4. CASE open_alloc # {}
    <2>1. PICK i, x : /\ i = Min(open_alloc)
                      /\ x = Opening(IF call[c].creat THEN file_create(Cache, call[c].path)
                                     ELSE Ok(Cache), call[c].path)
                      /\ OpenAs(i, x, call[c].trunc)
                      /\ f_size' = [f_size EXCEPT ![i] = IF x.r # "ok" \/ call[c].trunc THEN 0
                                                         ELSE File(x.m, x.file).size]
                      /\ loose' = (loose \ {i}) \cup
                                    IF x.r = "ok" /\ call[c].trunc THEN Aliases(i, x.file) ELSE {}
                      /\ Answers(c, x.r, FdPage(i, x), 0)
      BY <1>4 DEF ServeOpen
    <2>2. i \in open_alloc /\ i \in Entries /\ i \in Opened
      <3>1. open_alloc \subseteq Entries /\ open_alloc \subseteq Nat
        BY ServNumbers DEF open_alloc
      <3> QED
        BY <1>4, <2>1, <3>1, MinIsMember, ServNumbers
    <2>3. Sound(x) /\ (x.r = "ok" => x.file \in Entry)
      BY <1>1, <1>2, <2>1, Requested, OpeningFinds DEF Finds
    <2>4. IInv'
      <3>1. serve_open(i, call[c].path, call[c].creat, call[c].trunc)
        BY <1>1, <2>1, Requested DEF serve_open
      <3> QED
        BY <1>1, <1>2, <2>2, <3>1, Requested, OpenStep
    <2>5. /\ \A e \in Entries : o_file[e] # Null => o_file'[e] # Null
          /\ x.r = "ok" => o_file'[i] # Null
      <3>1. o_file \in [Opened -> {Null} \cup Entry]
        BY <1>1, Requested
      <3>2. CASE x.r = "ok"
        <4>1. o_file' = [o_file EXCEPT ![i] = x.file] /\ x.file # Null
          BY <2>1, <2>3, <3>2, EntryIsFile, Numbers DEF OpenAs
        <4> QED
          BY <2>2, <3>1, <4>1, ServNumbers
      <3>3. CASE x.r # "ok"
        BY <2>1, <3>3 DEF OpenAs
      <3> QED
        BY <3>2, <3>3
    <2>6. f_size' \in [Entries -> FileSizes]
      <3>1. x.r = "ok" => File(x.m, x.file).size \in FileSizes
        BY <2>3, SoundFacts, EntryIsFile, FileTyped DEF FileSizes
      <3>2. PICK s : s = IF x.r # "ok" \/ call[c].trunc THEN 0 ELSE File(x.m, x.file).size
        OBVIOUS
      <3>3. s \in FileSizes
        BY <3>1, <3>2, ServNumbers
      <3>4. f_size' = [f_size EXCEPT ![i] = s]
        BY <2>1, <3>2
      <3> QED
        BY <1>1, <3>3, <3>4, Requested
    <2>7. loose' \subseteq Entries
      BY <1>1, <2>1, Requested DEF Aliases
    <2>8. PICK j \in {0} \cup Entries, b \in Ptrs : j = FdPage(i, x) /\ b = 0
      BY <2>2 DEF FdPage, Ptrs
    <2>9. x.r \in Replies
      BY <2>3, ResultFields DEF Sound, Replies
    <2>10. Answers(c, x.r, j, b)
      BY <2>1, <2>8
    <2>11. (j # 0 => o_file'[j] # Null) /\ (x.r = "ok" => j # 0)
      <3>1. i # 0
        BY <2>2, ServNumbers
      <3> QED
        BY <2>5, <2>8, <3>1 DEF FdPage
    <2> QED
      BY <1>1, <2>4, <2>5, <2>6, <2>7, <2>9, <2>10, <2>11, Requested, ServerAnswers
  <1> QED
    BY <1>3, <1>4

\* The answer arrives.
LEMMA AnswerStep == ASSUME SInv, Answer PROVE SInv'
  <1>1. Types /\ Waits /\ Opens /\ HasFd /\ IInv
    BY DEF SInv
  <1>2. PICK c \in Clients : c = server.to
    BY <1>1 DEF Answer, Types, AnswerType
  <1>3. /\ fd' = IF server.entry = 0 THEN fd ELSE [fd EXCEPT ![c][call[c].d] = server.entry]
        /\ page' = IF server.block = 0 THEN page
                   ELSE [page EXCEPT ![c][call[c].d][call[c].n] = server.block]
        /\ reply' = [reply EXCEPT ![c] = server.r]
        /\ ipc' = [ipc EXCEPT ![c] = "done"]
        /\ server' = Receiving /\ UNCHANGED vars /\ o_file' = o_file
        /\ f_size' = f_size /\ call' = call /\ loose' = loose /\ server.to # NoClient
    BY <1>2 DEF Answer, vars
  <1>4. IInv'
    BY <1>1, <1>3, SameState
  <1>5. /\ server.entry \in {0} \cup Entries /\ server.block \in Ptrs /\ server.r \in Replies
        /\ server' \in AnswerType /\ server'.to = NoClient /\ server'.entry = 0
    <2>1. Receiving \in AnswerType
      BY DEF Receiving, AnswerType, Replies, Codes, Ptrs
    <2> QED
      BY <1>1, <1>3, <2>1 DEF Types, AnswerType, Receiving
  <1>6. call[c] \in Calls /\ call[c].d \in Fds
    BY <1>1 DEF Types, Calls, CallShapes
  <1>7. /\ ipc'[c] = "done" /\ reply'[c] = server.r
        /\ \A e \in Clients \ {c} : ipc'[e] = ipc[e] /\ reply'[e] = reply[e]
    BY <1>1, <1>3 DEF Types
  <1>8. /\ fd' \in FdTables /\ \A e \in Clients \ {c} : fd'[e] = fd[e]
        /\ \A d \in Fds \ {call[c].d} : fd'[c][d] = fd[c][d]
        /\ fd'[c][call[c].d] = IF server.entry = 0 THEN fd[c][call[c].d] ELSE server.entry
    <2>1. CASE server.entry = 0
      BY <1>1, <1>3, <2>1 DEF Types
    <2>2. CASE server.entry # 0
      <3>1. fd \in [Clients -> [Fds -> {0} \cup Entries]] /\ fd' = [fd EXCEPT ![c][call[c].d] = server.entry]
        BY <1>1, <1>3, <2>2 DEF Types, FdTables
      <3> QED
        BY <1>5, <1>6, <2>2, <3>1, SetNested DEF FdTables
    <2> QED
      BY <2>1, <2>2
  <1>9. page' \in PageTables
    <2>1. CASE server.block = 0
      BY <1>1, <1>3, <2>1 DEF Types
    <2>2. CASE server.block # 0
      <3>1. page \in [Clients -> [Fds -> [Pages -> Ptrs]]]
        BY <1>1 DEF Types, PageTables
      <3>2. PICK h : h = [page[c][call[c].d] EXCEPT ![call[c].n] = server.block]
        OBVIOUS
      <3>3. h \in [Pages -> Ptrs]
        BY <1>5, <1>6, <3>1, <3>2
      <3>4. page' = [page EXCEPT ![c][call[c].d] = h]
        BY <1>3, <2>2, <3>2
      <3> QED
        BY <1>6, <3>1, <3>3, <3>4, SetNested DEF PageTables
    <2> QED
      BY <2>1, <2>2
  <1>10. Types'
    BY <1>1, <1>3, <1>5, <1>8, <1>9 DEF Types
  <1>11. Waits'
    <2>1. ASSUME NEW e \in Clients PROVE ipc'[e] # "wait" /\ server'.to # e
      BY <1>1, <1>2, <1>5, <1>7, ServNumbers DEF Waits
    <2>2. ASSUME NEW e \in Clients PROVE call'[e].op = "idle" <=> ipc'[e] = "none"
      <3>1. ipc[c] = "wait"
        BY <1>1, <1>2 DEF Waits
      <3> QED
        BY <1>1, <1>3, <1>7, <3>1 DEF Waits
    <2> QED
      BY <2>1, <2>2 DEF Waits
  <1>12. Opens'
    <2>1. ASSUME NEW e \in Clients, NEW d \in Fds, fd'[e][d] # 0 PROVE o_file'[fd'[e][d]] # Null
      <3>1. fd'[e][d] = fd[e][d] \/ (fd'[e][d] = server.entry /\ server.entry # 0)
        BY <1>8
      <3> QED
        BY <1>1, <1>3, <2>1, <3>1 DEF Opens
    <2> QED
      BY <1>5, <2>1 DEF Opens
  <1>13. HasFd'
    <2>1. ASSUME NEW e \in Clients, ipc'[e] = "done", call'[e].at = "open", reply'[e] = "ok"
          PROVE  fd'[e][call'[e].d] # 0
      <3>1. CASE e = c
        BY <1>1, <1>2, <1>3, <1>7, <1>8, <2>1, <3>1 DEF HasFd
      <3>2. CASE e # c
        BY <1>1, <1>3, <1>7, <1>8, <2>1, <3>2 DEF HasFd
      <3> QED
        BY <3>1, <3>2
    <2>2. ASSUME NEW e \in Clients, call'[e].at \in FdSteps PROVE fd'[e][call'[e].d] # 0
      <3>1. CASE e = c
        BY <1>1, <1>3, <1>8, <2>2, <3>1 DEF HasFd
      <3>2. CASE e # c
        BY <1>1, <1>3, <1>8, <2>2, <3>2 DEF HasFd
      <3> QED
        BY <3>1, <3>2
    <2> QED
      BY <1>5, <2>1, <2>2 DEF HasFd
  <1> QED
    BY <1>4, <1>10, <1>11, <1>12, <1>13 DEF SInv

-----------------------------------------------------------------------------
(***************************************************************************)
(* The library calls.                                                      *)
(***************************************************************************)

\* What holds when a client goes on after an answer.
LEMMA AnsweredFacts ==
    ASSUME SInv, NEW c \in Clients, NEW at, NEW ok, Answered(c, at, ok)
    PROVE  /\ ipc[c] \in {"none", "done"} /\ call[c].at = at /\ (reply[c] = "ok") = ok
           /\ o_file' = o_file /\ f_size' = f_size /\ reply' = reply /\ server' = server
           /\ f_size' \in [Entries -> FileSizes]
           /\ free' = free /\ dirty' = dirty /\ written' = written /\ panic' = panic /\ requests' = requests
           /\ call[c] \in Calls /\ call[c] \in CallShapes /\ call[c].d \in Fds /\ call[c].op # "idle"
           /\ fd \in FdTables /\ page \in PageTables /\ loose \subseteq Entries
           /\ at \in FdSteps => fd[c][call[c].d] # 0
           /\ at = "open" /\ ok => fd[c][call[c].d] # 0
  <1>1. call[c] \in Calls /\ ipc[c] = "done"
    BY DEF SInv, Types, Answered
  <1> QED
    BY <1>1 DEF SInv, Types, Answered, Calls, CallShapes, Waits, HasFd

\* The data of a file changes, or nothing of the file system does.
LEMMA StoredGood ==
    ASSUME IInv, NEW b \in Ptrs, blk' = Stored(b), free' = free, dirty' = dirty, written' = written,
           panic' = panic, o_file' = o_file, requests' = requests
    PROVE  IInv'
  <1>1. CASE b = 0
    BY <1>1, SameState DEF Stored, vars
  <1>2. CASE b # 0
    <2>1. b \in Data /\ blk' = [blk EXCEPT ![b] = Written]
      BY <1>2 DEF Stored, Ptrs
    <2>2. Good(Cache')
      BY <2>1, StoreGood DEF IInv
    <2> QED
      BY <2>2 DEF IInv, Opened
  <1> QED
    BY <1>1, <1>2

\* The next request.
LEMMA AskGood ==
    ASSUME SInv, NEW c \in Clients, NEW was, NEW ok, Answered(c, was, ok), NEW at \in FdSteps \cup {"create"},
           NEW n \in Nat, Ask(c, at, n), blk' = blk, fd' = fd, page' = page, loose' \subseteq Entries,
           at \in FdSteps => fd[c][call[c].d] # 0,
           at = "create" => call[c].path \in Paths
    PROVE  SInv'
  <1>1. PICK k : k = [call[c] EXCEPT !.at = at, !.n = n]
    OBVIOUS
  <1>2. k \in CallShapes /\ k.at = at /\ k.op = call[c].op /\ k.path = call[c].path /\ k.size = call[c].size
        /\ k.d = call[c].d
    <2>1. PICK old \in CallShapes : old = call[c]
      BY AnsweredFacts
    <2>2. at \in {"start", "sync"} \cup FdSteps \cup PathSteps
      BY DEF PathSteps
    <2> QED
      BY <1>1, <2>1, <2>2 DEF CallShapes
  <1>3. k \in Calls
    <2>1. k.at \in PathSteps => k.path \in Paths
      BY <1>2 DEF PathSteps, FdSteps
    <2>2. k.op = "write" => k.size \in 1..NINDIRECT
      BY <1>2, AnsweredFacts DEF Calls
    <2> QED
      BY <1>2, <2>1, <2>2 DEF Calls
  <1>4. call' = [call EXCEPT ![c] = k] /\ ipc' = [ipc EXCEPT ![c] = "send"]
    <2>1. call \in [Clients -> Calls]
      BY DEF SInv, Types
    <2> QED
      BY <1>1, <2>1 DEF Ask
  <1>5. IInv'
    BY AnsweredFacts, SameState DEF SInv, vars
  <1>6. PICK s \in {"send", "none"} : s = "send"
    OBVIOUS
  <1>7. ipc' = [ipc EXCEPT ![c] = s] /\ (k.op = "idle" <=> s = "none")
    BY <1>2, <1>4, <1>6, AnsweredFacts
  <1>8. \A d \in Fds : fd'[c][d] \in {0, fd[c][d]}
    OBVIOUS
  <1>9. k.at \in FdSteps => fd'[c][k.d] # 0
    BY <1>2
  <1> QED
    BY <1>3, <1>4, <1>5, <1>7, <1>8, <1>9, AnsweredFacts, ClientGoesOn

\* A call returns.
LEMMA ReturnGood ==
    ASSUME SInv, NEW c \in Clients, NEW was, NEW ok, Answered(c, was, ok), Return(c), IInv',
           fd' \in FdTables, page' \in PageTables, loose' \subseteq Entries,
           \A e \in Clients \ {c} : fd'[e] = fd[e],
           \A d \in Fds : fd'[c][d] \in {0, fd[c][d]}
    PROVE  SInv'
  <1>1. PICK s \in {"send", "none"} : s = "none"
    OBVIOUS
  <1>2. PICK k \in Calls : k = NoCall
    BY NoCallType
  <1>3. call' = [call EXCEPT ![c] = k] /\ ipc' = [ipc EXCEPT ![c] = s]
    BY <1>1, <1>2 DEF Return
  <1>4. (k.op = "idle" <=> s = "none") /\ k.at \notin FdSteps
    BY <1>1, <1>2, NoCallType
  <1> QED
    BY <1>3, <1>4, AnsweredFacts, ClientGoesOn

\* A call returns and leaves blocks, descriptors and pages as they are.
LEMMA ReturnPlain ==
    ASSUME SInv, NEW c \in Clients, NEW was, NEW ok, Answered(c, was, ok), Return(c),
           blk' = blk, fd' = fd, page' = page, loose' \subseteq Entries
    PROVE  SInv'
  <1>1. IInv'
    BY AnsweredFacts, SameState DEF SInv, vars
  <1> QED
    BY <1>1, AnsweredFacts, ReturnGood

\* The entry of a call that failed or shared.
LEMMA LoosensTyped ==
    ASSUME SInv, NEW c \in Clients, fd[c][call[c].d] # 0, Loosens(c)
    PROVE  loose' \subseteq Entries /\ blk' = blk /\ fd' = fd /\ page' = page
  <1>1. call[c].d \in Fds
    BY DEF SInv, Types, Calls, CallShapes
  <1>2. fd[c][call[c].d] \in Entries
    BY <1>1 DEF SInv, Types, FdTables
  <1> QED
    BY <1>2 DEF Loosens, SInv, Types

\* Unmapped pages.
LEMMA UnmapTyped ==
    ASSUME SInv, NEW c \in Clients, NEW d \in Fds, NEW first, NEW last, Unmap(c, d, first, last)
    PROVE  page' \in PageTables
  <1>1. page \in [Clients -> [Fds -> [Pages -> Ptrs]]]
    BY DEF SInv, Types, PageTables
  <1>2. PICK h : h = [n \in Pages |-> IF n \in first..last THEN 0 ELSE page[c][d][n]]
    OBVIOUS
  <1>3. h \in [Pages -> Ptrs]
    BY <1>1, <1>2 DEF Ptrs
  <1>4. page' = [page EXCEPT ![c][d] = h]
    BY <1>2 DEF Unmap
  <1> QED
    BY <1>1, <1>3, <1>4, SetNested DEF PageTables

\* A descriptor given up.
LEMMA ClosedTyped ==
    ASSUME SInv, NEW c \in Clients, NEW d \in Fds, fd' = [fd EXCEPT ![c][d] = 0]
    PROVE  /\ fd' \in FdTables /\ \A e \in Clients \ {c} : fd'[e] = fd[e]
           /\ \A a \in Fds : fd'[c][a] \in {0, fd[c][a]}
  <1>1. fd \in [Clients -> [Fds -> {0} \cup Entries]]
    BY DEF SInv, Types, FdTables
  <1>2. fd' \in [Clients -> [Fds -> {0} \cup Entries]] /\ fd'[c][d] = 0
        /\ (\A e \in Clients \ {c} : fd'[e] = fd[e]) /\ \A a \in Fds \ {d} : fd'[c][a] = fd[c][a]
    BY <1>1, SetNested
  <1> QED
    BY <1>2 DEF FdTables

\* A client that goes on in open keeps SInv.
LEMMA OpenContinuesStep == ASSUME SInv, NEW c \in Clients, OpenContinues(c) PROVE SInv'
  <1>1. CASE /\ Answered(c, "open", TRUE) /\ call[c].op = "open" /\ Keeps
             /\ \E size \in {f_size[fd[c][call[c].d]]} :
                  IF size = 0 THEN Return(c)
                  ELSE /\ call' = [call EXCEPT ![c].at = "map", ![c].size = size]
                       /\ ipc' = [ipc EXCEPT ![c] = "send"]
    <2>1. PICK ok \in BOOLEAN : ok = TRUE
      OBVIOUS
    <2>2. Answered(c, "open", ok)
      BY <1>1, <2>1
    <2>3. fd' = fd /\ page' = page /\ blk' = blk /\ loose' = loose
      BY <1>1 DEF Keeps
    <2>4. fd[c][call[c].d] # 0 /\ call[c].d \in Fds /\ fd \in FdTables /\ loose \subseteq Entries
      BY <2>1, <2>2, AnsweredFacts
    <2>5. PICK size : /\ size = f_size[fd[c][call[c].d]]
                      /\ IF size = 0 THEN Return(c)
                         ELSE /\ call' = [call EXCEPT ![c].at = "map", ![c].size = size]
                              /\ ipc' = [ipc EXCEPT ![c] = "send"]
      BY <1>1
    <2>6. CASE size = 0
      BY <2>2, <2>3, <2>4, <2>5, <2>6, ReturnPlain
    <2>7. CASE size # 0
      <3>1. size \in FileSizes
        <4>1. fd[c][call[c].d] \in Entries
          BY <2>4 DEF FdTables
        <4> QED
          BY <2>5, <4>1 DEF SInv, Types
      <3>2. PICK old \in CallShapes : old = call[c] /\ old.op = "open"
        BY <1>1, <2>2, AnsweredFacts
      <3>3. PICK k : k = [old EXCEPT !.at = "map", !.size = size]
        OBVIOUS
      <3>4. k \in CallShapes /\ k.op = "open" /\ k.at = "map" /\ k.d = call[c].d
        BY <3>1, <3>2, <3>3 DEF CallShapes, FdSteps
      <3>5. k \in Calls
        BY <3>4 DEF Calls, PathSteps
      <3>6. call' = [call EXCEPT ![c] = k]
        <4>1. call \in [Clients -> Calls]
          BY DEF SInv, Types
        <4> QED
          BY <2>5, <2>7, <3>2, <3>3, <4>1
      <3>7. PICK s \in {"send", "none"} : s = "send"
        OBVIOUS
      <3>8. ipc' = [ipc EXCEPT ![c] = s] /\ (k.op = "idle" <=> s = "none")
        BY <2>5, <2>7, <3>4, <3>7
      <3>9. IInv'
        BY <2>2, <2>3, AnsweredFacts, SameState DEF SInv, vars
      <3>10. \A d \in Fds : fd'[c][d] \in {0, fd[c][d]}
        BY <2>3
      <3>11. fd'[c][k.d] # 0
        BY <2>3, <2>4, <3>4
      <3> QED
        BY <2>2, <2>3, <3>5, <3>6, <3>8, <3>9, <3>10, <3>11, AnsweredFacts, ClientGoesOn
    <2> QED
      BY <2>6, <2>7
  <1>2. CASE Answered(c, "open", TRUE) /\ call[c].op = "create" /\ Loosens(c) /\ Return(c)
    <2>1. PICK ok \in BOOLEAN : ok = TRUE
      OBVIOUS
    <2>2. Answered(c, "open", ok) /\ fd[c][call[c].d] # 0
      BY <1>2, <2>1, AnsweredFacts
    <2> QED
      BY <1>2, <2>2, LoosensTyped, ReturnPlain
  <1>3. CASE Answered(c, "open", FALSE) /\ call[c].op = "open" /\ Keeps /\ Return(c)
    <2>1. PICK ok \in BOOLEAN : ok = FALSE
      OBVIOUS
    <2>2. Answered(c, "open", ok)
      BY <1>3, <2>1
    <2>3. fd' = fd /\ page' = page /\ blk' = blk /\ loose' \subseteq Entries
      BY <1>3, <2>2, AnsweredFacts DEF Keeps
    <2> QED
      BY <1>3, <2>2, <2>3, ReturnPlain
  <1>4. CASE Answered(c, "open", FALSE) /\ call[c].op = "create" /\ Keeps /\ Ask(c, "create", 0)
    <2>1. PICK ok \in BOOLEAN, at \in FdSteps \cup {"create"}, n \in Nat : ok = FALSE /\ at = "create" /\ n = 0
      OBVIOUS
    <2>2. Answered(c, "open", ok) /\ Ask(c, at, n) /\ at \notin FdSteps
      BY <1>4, <2>1 DEF FdSteps
    <2>3. fd' = fd /\ page' = page /\ blk' = blk /\ loose' \subseteq Entries
      BY <1>4, <2>2, AnsweredFacts DEF Keeps
    <2>4. call[c].path \in Paths
      BY <2>2, AnsweredFacts DEF Calls, PathSteps
    <2> QED
      BY <2>2, <2>3, <2>4, AskGood
  <1> QED
    BY <1>1, <1>2, <1>3, <1>4 DEF OpenContinues

\* A call goes on with the next request for a descriptor.
LEMMA AskFd ==
    ASSUME SInv, NEW c \in Clients, NEW was \in FdSteps, NEW ok, Answered(c, was, ok), NEW at \in FdSteps,
           NEW n \in Nat, Ask(c, at, n), Keeps \/ Loosens(c)
    PROVE  SInv'
  <1>1. fd[c][call[c].d] # 0 /\ loose \subseteq Entries
    BY AnsweredFacts
  <1>2. blk' = blk /\ fd' = fd /\ page' = page /\ loose' \subseteq Entries
    BY <1>1, LoosensTyped DEF Keeps
  <1>3. at # "create"
    BY DEF FdSteps
  <1> QED
    BY <1>1, <1>2, <1>3, AskGood

\* A call on a descriptor returns.
LEMMA ReturnFd ==
    ASSUME SInv, NEW c \in Clients, NEW was \in FdSteps, NEW ok, Answered(c, was, ok), Return(c),
           Keeps \/ Loosens(c)
    PROVE  SInv'
  <1>1. fd[c][call[c].d] # 0 /\ loose \subseteq Entries
    BY AnsweredFacts
  <1>2. blk' = blk /\ fd' = fd /\ page' = page /\ loose' \subseteq Entries
    BY <1>1, LoosensTyped DEF Keeps
  <1> QED
    BY <1>2, ReturnPlain

\* A client that goes on after a map request keeps SInv.
LEMMA MapContinuesStep == ASSUME SInv, NEW c \in Clients, MapContinues(c) PROVE SInv'
  <1>1. PICK was \in FdSteps, rest \in FdSteps, yes \in BOOLEAN, no \in BOOLEAN :
          was = "map" /\ rest = "restore" /\ yes = TRUE /\ no = FALSE
    BY DEF FdSteps
  <1>2. CASE /\ Answered(c, "map", TRUE)
             /\ IF call[c].n + 1 < call[c].size THEN Ask(c, "map", call[c].n + 1) /\ Keeps
                                                ELSE Complete(c)
    <2>1. Answered(c, was, yes)
      BY <1>1, <1>2
    <2>2. call[c] \in Calls /\ call[c].n + 1 \in Nat /\ call[c].d \in Fds /\ page \in PageTables
      BY <2>1, AnsweredFacts DEF CallShapes
    <2>3. CASE call[c].n + 1 < call[c].size
      <3>1. Ask(c, was, call[c].n + 1) /\ Keeps
        BY <1>1, <1>2, <2>3
      <3> QED
        BY <2>1, <2>2, <3>1, AskFd
    <2>4. CASE ~(call[c].n + 1 < call[c].size)
      <3>1. Complete(c)
        BY <1>2, <2>4
      <3>2. Return(c) /\ fd' = fd /\ page' = page /\ loose' \subseteq Entries
        BY <2>1, <3>1, AnsweredFacts DEF Complete
      <3>3. IInv'
        <4>1. CASE call[c].op = "write"
          <5>1. PICK b : b = page[c][call[c].d][call[c].size - 1]
            OBVIOUS
          <5>2. call[c].size - 1 \in Pages
            BY <2>2, <4>1, ServNumbers DEF Calls
          <5>3. b \in Ptrs
            BY <2>2, <5>1, <5>2 DEF PageTables
          <5>4. blk' = Stored(b)
            BY <3>1, <4>1, <5>1 DEF Complete
          <5> QED
            BY <2>1, <5>3, <5>4, AnsweredFacts, StoredGood DEF SInv
        <4>2. CASE call[c].op # "write"
          BY <2>1, <3>1, <4>2, AnsweredFacts, SameState DEF SInv, vars, Complete
        <4> QED
          BY <4>1, <4>2
      <3>4. fd' \in FdTables /\ page' \in PageTables /\ (\A e \in Clients \ {c} : fd'[e] = fd[e])
            /\ \A d \in Fds : fd'[c][d] \in {0, fd[c][d]}
        BY <2>1, <3>2, AnsweredFacts
      <3> QED
        BY <2>1, <3>2, <3>3, <3>4, ReturnGood
    <2> QED
      BY <2>3, <2>4
  <1>3. CASE Answered(c, "map", FALSE) /\ call[c].op = "open" /\ Loosens(c) /\ Return(c)
    BY <1>1, <1>3, ReturnFd
  <1>4. CASE Answered(c, "map", FALSE) /\ call[c].op # "open" /\ Loosens(c) /\ Ask(c, "restore", 0)
    <2>1. PICK n \in Nat : n = 0
      OBVIOUS
    <2>2. Answered(c, was, no) /\ Ask(c, rest, n) /\ Loosens(c)
      BY <1>1, <1>4, <2>1
    <2> QED
      BY <2>2, AskFd
  <1> QED
    BY <1>2, <1>3, <1>4 DEF MapContinues

\* A client that goes on after a set_size request keeps SInv.
LEMMA SetSizeContinuesStep == ASSUME SInv, NEW c \in Clients, SetSizeContinues(c) PROVE SInv'
  <1>1. PICK was \in FdSteps, at \in FdSteps : was = "set_size" /\ at = "map"
    BY DEF FdSteps
  <1>2. PICK ok \in BOOLEAN :
          /\ Answered(c, was, ok)
          /\ IF ~ok THEN Loosens(c) /\ Return(c)
             ELSE IF call[c].size > FirstNew(call[c].old)
             THEN Ask(c, at, FirstNew(call[c].old)) /\ Keeps
             ELSE /\ Unmap(c, call[c].d, call[c].size, call[c].old - 1)
                  /\ Return(c) /\ blk' = blk /\ fd' = fd /\ loose' = loose
    BY <1>1 DEF SetSizeContinues
  <1>3. CASE ~ok
    BY <1>2, <1>3, ReturnFd
  <1>4. CASE ok /\ call[c].size > FirstNew(call[c].old)
    <2>1. FirstNew(call[c].old) \in Nat
      BY <1>2, AnsweredFacts DEF FirstNew, CallShapes, FileSizes
    <2> QED
      BY <1>2, <1>4, <2>1, AskFd
  <1>5. CASE ok /\ ~(call[c].size > FirstNew(call[c].old))
    <2>1. /\ Unmap(c, call[c].d, call[c].size, call[c].old - 1)
          /\ Return(c) /\ blk' = blk /\ fd' = fd /\ loose' = loose
      BY <1>2, <1>5
    <2>2. page' \in PageTables /\ fd' \in FdTables /\ loose' \subseteq Entries
      BY <1>2, <2>1, AnsweredFacts, UnmapTyped
    <2>3. IInv'
      BY <1>2, <2>1, AnsweredFacts, SameState DEF SInv, vars
    <2>4. (\A e \in Clients \ {c} : fd'[e] = fd[e]) /\ \A d \in Fds : fd'[c][d] \in {0, fd[c][d]}
      BY <2>1
    <2> QED
      BY <1>2, <2>1, <2>2, <2>3, <2>4, ReturnGood
  <1> QED
    BY <1>3, <1>4, <1>5

\* A client that goes on after restoring a size keeps SInv.
LEMMA RestoreContinuesStep == ASSUME SInv, NEW c \in Clients, RestoreContinues(c) PROVE SInv'
  <1>1. PICK was \in FdSteps : was = "restore"
    BY DEF FdSteps
  <1>2. PICK ok \in BOOLEAN : Answered(c, was, ok) /\ Keeps /\ Return(c)
    BY <1>1 DEF RestoreContinues
  <1> QED
    BY <1>2, ReturnFd

\* A client that goes on after a dirty request keeps SInv.
LEMMA DirtyContinuesStep == ASSUME SInv, NEW c \in Clients, DirtyContinues(c) PROVE SInv'
  <1>1. PICK was \in FdSteps, last \in FdSteps, yes \in BOOLEAN, no \in BOOLEAN :
          was = "dirty" /\ last = "close" /\ yes = TRUE /\ no = FALSE
    BY DEF FdSteps
  <1>2. CASE /\ Answered(c, "dirty", TRUE) /\ Keeps
             /\ IF call[c].n + 1 < call[c].size THEN Ask(c, "dirty", call[c].n + 1)
                                                ELSE Ask(c, "close", 0)
    <2>1. Answered(c, was, yes) /\ Keeps
      BY <1>1, <1>2
    <2>2. call[c].n + 1 \in Nat
      BY <2>1, AnsweredFacts DEF CallShapes
    <2>3. CASE call[c].n + 1 < call[c].size
      <3>1. Ask(c, was, call[c].n + 1)
        BY <1>1, <1>2, <2>3
      <3> QED
        BY <2>1, <2>2, <3>1, AskFd
    <2>4. CASE ~(call[c].n + 1 < call[c].size)
      <3>1. PICK n \in Nat : n = 0
        OBVIOUS
      <3>2. Ask(c, last, n)
        BY <1>1, <1>2, <2>4, <3>1
      <3> QED
        BY <2>1, <3>2, AskFd
    <2> QED
      BY <2>3, <2>4
  <1>3. CASE /\ Answered(c, "dirty", FALSE) /\ Return(c)
             /\ fd' = [fd EXCEPT ![c][call[c].d] = 0]
             /\ UNCHANGED <<blk, page, loose>>
    <2>1. Answered(c, was, no) /\ Return(c) /\ blk' = blk /\ page' = page /\ loose' = loose
          /\ fd' = [fd EXCEPT ![c][call[c].d] = 0]
      BY <1>1, <1>3
    <2>2. call[c].d \in Fds /\ page' \in PageTables /\ loose' \subseteq Entries
      BY <2>1, AnsweredFacts
    <2>3. IInv'
      BY <2>1, AnsweredFacts, SameState DEF SInv, vars
    <2> QED
      BY <2>1, <2>2, <2>3, ClosedTyped, ReturnGood
  <1> QED
    BY <1>2, <1>3 DEF DirtyContinues

\* A client that goes on after a close request keeps SInv.
LEMMA CloseContinuesStep == ASSUME SInv, NEW c \in Clients, CloseContinues(c) PROVE SInv'
  <1>1. PICK was \in FdSteps : was = "close"
    BY DEF FdSteps
  <1>2. PICK ok \in BOOLEAN :
          /\ Answered(c, was, ok) /\ Return(c)
          /\ fd' = [fd EXCEPT ![c][call[c].d] = 0]
          /\ IF ok THEN Unmap(c, call[c].d, 0, call[c].size - 1) ELSE page' = page
          /\ blk' = blk /\ loose' = loose
    BY <1>1 DEF CloseContinues
  <1>3. call[c].d \in Fds /\ loose' \subseteq Entries
    BY <1>2, AnsweredFacts
  <1>4. page' \in PageTables
    BY <1>2, <1>3, AnsweredFacts, UnmapTyped
  <1>5. IInv'
    BY <1>2, AnsweredFacts, SameState DEF SInv, vars
  <1> QED
    BY <1>2, <1>3, <1>4, <1>5, ClosedTyped, ReturnGood

\* A client that goes on after a request by path keeps SInv.
LEMMA PathContinuesStep == ASSUME SInv, NEW c \in Clients, PathContinues(c) PROVE SInv'
  <1>1. PICK at \in {"remove", "create", "sync"}, ok \in BOOLEAN : Answered(c, at, ok) /\ Keeps /\ Return(c)
    BY DEF PathContinues
  <1>2. blk' = blk /\ fd' = fd /\ page' = page /\ loose' \subseteq Entries
    BY <1>1, AnsweredFacts DEF Keeps
  <1> QED
    BY <1>1, <1>2, ReturnPlain

\* A library call starts.
LEMMA StartGood ==
    ASSUME SInv, NEW c \in Clients, Starts(c), NEW k \in Calls, k.op # "idle", Started(c, k),
           f_size' \in [Entries -> FileSizes], loose' = loose,
           k.at \in FdSteps => fd[c][k.d] # 0
    PROVE  SInv'
  <1>1. ipc[c] \in {"none", "done"} /\ fd \in FdTables /\ page \in PageTables /\ loose \subseteq Entries
    BY DEF Starts, SInv, Types, Waits
  <1>2. /\ call' = [call EXCEPT ![c] = k] /\ ipc' = [ipc EXCEPT ![c] = "send"]
        /\ UNCHANGED vars /\ o_file' = o_file /\ fd' = fd /\ page' = page /\ reply' = reply /\ server' = server
    BY DEF Started, vars
  <1>3. IInv'
    BY <1>2, SameState DEF SInv
  <1>4. PICK s \in {"send", "none"} : s = "send"
    OBVIOUS
  <1>5. ipc' = [ipc EXCEPT ![c] = s] /\ (k.op = "idle" <=> s = "none")
    BY <1>2, <1>4
  <1>6. \A d \in Fds : fd'[c][d] \in {0, fd[c][d]}
    BY <1>2
  <1> QED
    BY <1>1, <1>2, <1>3, <1>5, <1>6, ClientGoesOn

\* A call that is not a write, built from no call.
LEMMA NoCallFields ==
    \E z \in CallShapes : z = NoCall /\ z.op = "idle" /\ z.at = "start" /\ z.path = <<>> /\ z.d = 0
  BY NoCallType DEF Calls, NoCall

\* A call of open keeps SInv.
LEMMA OpenCallStep ==
    ASSUME SInv, NEW c \in Clients, NEW op \in {"open", "create"}, NEW path \in Paths,
           NEW creat \in BOOLEAN, NEW trunc \in BOOLEAN, Open(c, op, path, creat, trunc)
    PROVE  SInv'
  <1>1. PICK d : d = Min(fd_alloc(c))
    OBVIOUS
  <1>2. d \in Fds
    <2>1. fd_alloc(c) \subseteq Fds /\ fd_alloc(c) \subseteq Nat /\ fd_alloc(c) # {}
      BY ServNumbers DEF fd_alloc, Open
    <2> QED
      BY <1>1, <2>1, MinIsMember
  <1>3. PICK z \in CallShapes : z = NoCall
    BY NoCallFields
  <1>4. PICK k : k = [z EXCEPT !.op = op, !.at = "open", !.d = d, !.path = path, !.creat = creat, !.trunc = trunc]
    OBVIOUS
  <1>5. k \in Calls /\ k.op # "idle" /\ k.at \notin FdSteps
    <2>1. k \in CallShapes /\ k.op = op /\ k.at = "open" /\ k.path = path
      BY <1>2, <1>4 DEF CallShapes, Ops, PathSteps
    <2> QED
      BY <2>1 DEF Calls, FdSteps
  <1>6. Starts(c) /\ Started(c, k) /\ f_size' = f_size /\ loose' = loose
    BY <1>1, <1>3, <1>4 DEF Open
  <1>7. f_size' \in [Entries -> FileSizes]
    BY <1>6 DEF SInv, Types
  <1> QED
    BY <1>5, <1>6, <1>7, StartGood

\* A call of remove keeps SInv.
LEMMA RemoveCallStep == ASSUME SInv, NEW c \in Clients, NEW path \in Paths, RemoveFile(c, path) PROVE SInv'
  <1>1. PICK z \in CallShapes : z = NoCall
    BY NoCallFields
  <1>2. PICK k : k = [z EXCEPT !.op = "remove", !.at = "remove", !.path = path]
    OBVIOUS
  <1>3. k \in Calls /\ k.op # "idle" /\ k.at \notin FdSteps
    <2>1. k \in CallShapes /\ k.op = "remove" /\ k.at = "remove" /\ k.path = path
      BY <1>2 DEF CallShapes, Ops, PathSteps
    <2> QED
      BY <2>1 DEF Calls, FdSteps
  <1>4. Starts(c) /\ Started(c, k) /\ f_size' = f_size /\ loose' = loose
    BY <1>1, <1>2 DEF RemoveFile
  <1>5. f_size' \in [Entries -> FileSizes]
    BY <1>4 DEF SInv, Types
  <1> QED
    BY <1>3, <1>4, <1>5, StartGood

\* A call of sync keeps SInv.
LEMMA SyncCallStep == ASSUME SInv, NEW c \in Clients, Sync(c) PROVE SInv'
  <1>1. PICK z \in CallShapes : z = NoCall
    BY NoCallFields
  <1>2. PICK k : k = [z EXCEPT !.op = "sync", !.at = "sync"]
    OBVIOUS
  <1>3. k \in Calls /\ k.op # "idle" /\ k.at \notin FdSteps
    <2>1. k \in CallShapes /\ k.op = "sync" /\ k.at = "sync"
      BY <1>2 DEF CallShapes, Ops
    <2> QED
      BY <2>1 DEF Calls, FdSteps, PathSteps
  <1>4. Starts(c) /\ Started(c, k) /\ f_size' = f_size /\ loose' = loose
    BY <1>1, <1>2 DEF Sync
  <1>5. f_size' \in [Entries -> FileSizes]
    BY <1>4 DEF SInv, Types
  <1> QED
    BY <1>3, <1>4, <1>5, StartGood

\* The size in an open descriptor.
LEMMA SizeOfFd ==
    ASSUME SInv, NEW c \in Clients, NEW d \in Fds, fd[c][d] # 0
    PROVE  fd[c][d] \in Entries /\ f_size[fd[c][d]] \in FileSizes
  <1>1. fd[c][d] \in Entries
    BY DEF SInv, Types, FdTables
  <1> QED
    BY <1>1 DEF SInv, Types

\* A call of close keeps SInv.
LEMMA CloseCallStep == ASSUME SInv, NEW c \in Clients, NEW d \in Fds, Close(c, d) PROVE SInv'
  <1>1. PICK size : size = f_size[fd[c][d]]
    OBVIOUS
  <1>2. fd[c][d] # 0 /\ size \in FileSizes
    BY <1>1, SizeOfFd DEF Close
  <1>3. PICK at \in {"dirty", "close"} : at = IF size > 0 THEN "dirty" ELSE "close"
    OBVIOUS
  <1>4. PICK z \in CallShapes : z = NoCall
    BY NoCallFields
  <1>5. PICK k : k = [z EXCEPT !.op = "close", !.d = d, !.size = size, !.at = at]
    OBVIOUS
  <1>6. k \in Calls /\ k.op # "idle" /\ k.d = d
    <2>1. k \in CallShapes /\ k.op = "close" /\ k.at = at /\ k.d = d
      BY <1>2, <1>5 DEF CallShapes, Ops, FdSteps
    <2> QED
      BY <2>1 DEF Calls, PathSteps
  <1>7. Starts(c) /\ Started(c, k) /\ f_size' = f_size /\ loose' = loose
    BY <1>1, <1>3, <1>4, <1>5 DEF Close
  <1>8. f_size' \in [Entries -> FileSizes]
    BY <1>7 DEF SInv, Types
  <1> QED
    BY <1>2, <1>6, <1>7, <1>8, StartGood

\* ftruncate, or a write past the end.
LEMMA ResizeStep ==
    ASSUME SInv, NEW c \in Clients, NEW op \in {"ftruncate", "write"}, NEW d \in Fds, NEW size \in FileSizes,
           op = "write" => size \in 1..NINDIRECT,
           Starts(c), fd[c][d] # 0, Resize(c, op, d, size)
    PROVE  SInv'
  <1>1. PICK old \in FileSizes : old = f_size[fd[c][d]]
    BY SizeOfFd
  <1>2. PICK z \in CallShapes : z = NoCall
    BY NoCallFields
  <1>3. PICK k : k = [z EXCEPT !.op = op, !.at = "set_size", !.d = d, !.size = size, !.old = old]
    OBVIOUS
  <1>4. k \in Calls /\ k.op # "idle" /\ k.d = d
    <2>1. k \in CallShapes /\ k.op = op /\ k.at = "set_size" /\ k.d = d /\ k.size = size
      BY <1>3 DEF CallShapes, Ops, FdSteps
    <2> QED
      BY <2>1 DEF Calls, PathSteps
  <1>5. Started(c, k) /\ f_size' = [f_size EXCEPT ![fd[c][d]] = size] /\ loose' = loose
    BY <1>1, <1>2, <1>3 DEF Resize
  <1>6. f_size' \in [Entries -> FileSizes]
    BY <1>5 DEF SInv, Types
  <1> QED
    BY <1>4, <1>5, <1>6, StartGood

\* The invariant speaks of these variables only.
LEMMA SameServ ==
    ASSUME SInv, IInv', o_file' = o_file,
           UNCHANGED <<fd, page, f_size, call, ipc, reply, server, loose>>
    PROVE  SInv'
  <1>1. Types /\ Waits /\ Opens /\ HasFd
    BY DEF SInv
  <1>2. Types' /\ Waits'
    BY <1>1 DEF Types, Waits
  <1>3. Opens' /\ HasFd'
    BY <1>1 DEF Opens, HasFd
  <1> QED
    BY <1>2, <1>3 DEF SInv

\* A call of write keeps SInv.
LEMMA WriteStep ==
    ASSUME SInv, NEW c \in Clients, NEW d \in Fds, NEW size \in Sizes \ {0}, Write(c, d, size - 1)
    PROVE  SInv'
  <1>1. size \in 1..NINDIRECT /\ size \in FileSizes /\ size - 1 \in Pages /\ (size - 1) + 1 = size
    BY FsServAssumption, ServNumbers
  <1>2. CASE size - 1 < f_size[fd[c][d]]
    <2>1. PICK b \in Ptrs : b = page[c][d][size - 1]
      BY <1>1 DEF SInv, Types, PageTables
    <2>2. /\ blk' = Stored(b)
          /\ UNCHANGED <<free, dirty, written, panic, o_file, requests,
                         fd, page, f_size, call, ipc, reply, server, loose>>
      BY <1>2, <2>1 DEF Write
    <2>3. IInv'
      BY <2>2, StoredGood DEF SInv
    <2> QED
      BY <2>2, <2>3, SameServ
  <1>3. CASE ~(size - 1 < f_size[fd[c][d]])
    <2>1. PICK op \in {"ftruncate", "write"} : op = "write"
      OBVIOUS
    <2>2. Starts(c) /\ fd[c][d] # 0 /\ Resize(c, op, d, size)
      BY <1>1, <1>3, <2>1 DEF Write
    <2> QED
      BY <1>1, <2>2, ResizeStep
  <1> QED
    BY <1>2, <1>3

\* Passing a descriptor on to another client keeps SInv.
LEMMA ShareStep ==
    ASSUME SInv, NEW c \in Clients, NEW child \in Clients \ {c}, Share(c, child)
    PROVE  SInv'
  <1>1. Types /\ Waits /\ Opens /\ HasFd /\ IInv
    BY DEF SInv
  <1>2. /\ call[child].op = "idle" /\ (\A d \in Fds : fd[child][d] = 0)
        /\ fd' = [fd EXCEPT ![child] = fd[c]] /\ page' = [page EXCEPT ![child] = page[c]]
        /\ UNCHANGED vars /\ o_file' = o_file /\ f_size' = f_size /\ call' = call /\ ipc' = ipc
        /\ reply' = reply /\ server' = server /\ loose' = loose
    BY DEF Share, vars
  <1>3. IInv'
    BY <1>1, <1>2, SameState
  <1>4. fd'[child] = fd[c] /\ \A e \in Clients \ {child} : fd'[e] = fd[e]
    BY <1>1, <1>2 DEF Types, FdTables
  <1>5. Types'
    <2>1. fd' \in FdTables
      BY <1>1, <1>2 DEF Types, FdTables
    <2>2. page' \in PageTables
      BY <1>1, <1>2 DEF Types, PageTables
    <2> QED
      BY <1>1, <1>2, <2>1, <2>2 DEF Types
  <1>6. Waits'
    BY <1>1, <1>2 DEF Waits
  <1>7. Opens'
    BY <1>1, <1>2, <1>4 DEF Opens
  <1>8. HasFd'
    <2>1. ipc[child] = "none" /\ call[child].at \notin FdSteps
      BY <1>1, <1>2 DEF Waits, HasFd, Types, Calls, CallShapes
    <2>2. ASSUME NEW e \in Clients, ipc[e] = "done", call[e].at = "open", reply[e] = "ok"
          PROVE  fd'[e][call[e].d] # 0
      BY <1>1, <1>4, <2>1, <2>2 DEF HasFd
    <2>3. ASSUME NEW e \in Clients, call[e].at \in FdSteps PROVE fd'[e][call[e].d] # 0
      BY <1>1, <1>4, <2>1, <2>3 DEF HasFd
    <2> QED
      BY <1>1, <1>2, <2>2, <2>3 DEF HasFd
  <1> QED
    BY <1>3, <1>5, <1>6, <1>7, <1>8 DEF SInv

-----------------------------------------------------------------------------
(***************************************************************************)
(* The specification.                                                      *)
(***************************************************************************)

\* The disk holds a file of one block.
LEMMA ServDisk == ASSUME ServInit PROVE IInv
  <1> DEFINE file == [EmptyFile EXCEPT !.name = CHOOSE name \in Names : TRUE, !.size = 1, !.direct[0] = 4]
             files == [j \in Slots |-> IF j = 0 THEN file ELSE EmptyFile]
             p0 == <<3, 0, 0>>
  <1>1. 4 \in Data \ {3} /\ 3 \in Data /\ {4} \in SUBSET (Data \ {3}) /\ NDIRECT > 0 /\ 4 # 0
    BY FsAssumption, FsServAssumption DEF Data
  <1>2. file \in FileType /\ \A n \in 0..NDIRECT : PtrOf(file, n) = IF n = 0 THEN 4 ELSE 0
    <2>1. PICK e \in FileType : e = EmptyFile
      BY EmptyFileType
    <2>2. PICK d : d = [e.direct EXCEPT ![0] = 4]
      OBVIOUS
    <2>3. PICK name \in Names : name = CHOOSE x \in Names : TRUE
      BY FsServAssumption
    <2>4. d \in [0..(NDIRECT - 1) -> Ptrs] /\ \A n \in 0..(NDIRECT - 1) : d[n] = IF n = 0 THEN 4 ELSE 0
      BY <1>1, <2>1, <2>2, Numbers DEF EmptyFile, Ptrs
    <2>5. file = [e EXCEPT !.name = name, !.size = 1, !.direct = d]
      BY <2>1, <2>2, <2>3, Numbers DEF FileType
    <2> HIDE DEF file
    <2>6. 1 \in 0..(NINDIRECT + 1)
      BY Numbers
    <2>7. file \in FileType
      BY <2>4, <2>5, <2>6 DEF FileType, Ptrs
    <2>8. file.direct = d /\ file.indirect = e.indirect
      BY <2>5 DEF FileType
    <2>9. e.indirect = 0
      BY <2>1 DEF EmptyFile
    <2> QED
      BY <1>1, <2>4, <2>7, <2>8, <2>9, Numbers DEF PtrOf
  <1> HIDE DEF file
  <1>3. files \in [Slots -> FileType] /\ files[0] = file /\ \A j \in Slots \ {0} : files[j] = EmptyFile
    BY <1>2, EmptyFileType, Numbers
  <1>4. Formatted(DirBlock(files), {4})
    BY DEF ServInit, files, file
  <1> HIDE DEF files
  <1>5. DirBlock(files) \in Contents /\ AsDir(DirBlock(files)) = files /\ AsInd(DirBlock(files)) = NoPtrs
    BY <1>3, DirBlockReads
  <1>6. PICK m : m = Cache
    OBVIOUS
  <1>7. m.blk[3] = DirBlock(files)
    BY <1>4, <1>6, FirstBlock DEF Cache
  <1>8. ASSUME NEW p \in Places, p[1] = 3 PROVE At(m, p) = IF p = p0 THEN 4 ELSE 0
    <2>1. CASE p[2] = Indirect
      <3>1. p[3] \in 0..(NINDIRECT - 1) /\ p # p0
        BY <2>1, Numbers DEF Places
      <3>2. At(m, p) = NoPtrs[p[3]]
        BY <1>5, <1>7, <1>8, <2>1 DEF At
      <3> QED
        BY <3>1, <3>2 DEF NoPtrs
    <2>2. CASE p[2] # Indirect
      <3>1. p[2] \in Slots /\ p[3] \in 0..NDIRECT /\ p = <<3, p[2], p[3]>>
        BY <1>8, <2>2 DEF Places
      <3>2. At(m, p) = PtrOf(files[p[2]], p[3])
        BY <1>5, <1>7, <1>8, <2>2 DEF At
      <3>3. CASE p[2] = 0
        BY <1>2, <1>3, <3>1, <3>2, <3>3
      <3>4. CASE p[2] # 0
        BY <1>3, <3>1, <3>2, <3>4, EmptyFileType
      <3> QED
        BY <3>3, <3>4
    <2> QED
      BY <2>1, <2>2
  <1>9. \A p \in Places : p[1] = 3 => At(m, p) \in {0} \cup {4}
    BY <1>8
  <1>10. \A p, q \in Places : p[1] = 3 /\ q[1] = 3 /\ At(m, p) # 0 /\ At(m, p) = At(m, q) => p = q
    BY <1>1, <1>8
  <1> QED
    BY <1>1, <1>4, <1>5, <1>6, <1>9, <1>10, FormattedGood

\* The boot state satisfies SInv.
LEMMA ServInitGood == ServInit => SInv
  <1> SUFFICES ASSUME ServInit PROVE SInv
    OBVIOUS
  <1>1. IInv
    BY ServDisk
  <1>2. Receiving \in AnswerType /\ Receiving.to = NoClient
    BY DEF Receiving, AnswerType, Replies, Codes, Ptrs
  <1>3. NoPages \in [Pages -> Ptrs]
    BY DEF NoPages, Ptrs
  <1>4. "ok" \in Replies
    BY DEF Replies, Codes
  <1>5. Types
    BY <1>2, <1>3, <1>4, NoCallType, ServNumbers DEF ServInit, Types, FdTables, PageTables
  <1>6. Waits
    BY <1>2, NoCallType, ServNumbers DEF ServInit, Waits
  <1>7. Opens
    BY <1>2 DEF ServInit, Opens
  <1>8. HasFd
    BY <1>2, NoCallType DEF ServInit, HasFd
  <1> QED
    BY <1>1, <1>5, <1>6, <1>7, <1>8 DEF SInv

\* Every step of a client or of the server keeps the invariant.
LEMMA ServStep == SInv /\ [ServNext]_servVars => SInv'
  <1> SUFFICES ASSUME SInv, [ServNext]_servVars PROVE SInv'
    OBVIOUS
  <1>1. CASE Answer
    BY <1>1, AnswerStep
  <1>2. ASSUME NEW c \in Clients, Handle(c) PROVE SInv'
    BY <1>2, ServeOpenStep, ServeMapStep, ServeSetSizeStep, ServeDirtyStep, ServeCloseStep,
       ServeRemoveStep, ServeCreateStep, ServeSyncStep DEF Handle
  <1>3. ASSUME NEW c \in Clients, Continue(c) PROVE SInv'
    BY <1>3, OpenContinuesStep, MapContinuesStep, SetSizeContinuesStep, RestoreContinuesStep,
       DirtyContinuesStep, CloseContinuesStep, PathContinuesStep DEF Continue
  <1>4. ASSUME NEW c \in Clients, Begin(c) PROVE SInv'
    <2>1. ASSUME NEW path \in Paths, NEW creat \in BOOLEAN, NEW trunc \in BOOLEAN,
                 Open(c, "open", path, creat, trunc)
          PROVE  SInv'
      <3>1. PICK op \in {"open", "create"} : op = "open"
        OBVIOUS
      <3> QED
        BY <2>1, <3>1, OpenCallStep
    <2>2. ASSUME NEW path \in Paths, Open(c, "create", path, FALSE, FALSE) PROVE SInv'
      <3>1. PICK op \in {"open", "create"}, no \in BOOLEAN : op = "create" /\ no = FALSE
        OBVIOUS
      <3>2. Open(c, op, path, no, no)
        BY <2>2, <3>1
      <3> QED
        BY <3>2, OpenCallStep
    <2>3. ASSUME NEW path \in Paths, RemoveFile(c, path) PROVE SInv'
      BY <2>3, RemoveCallStep
    <2>4. CASE Sync(c)
      BY <2>4, SyncCallStep
    <2>5. ASSUME NEW d \in Fds, Close(c, d) PROVE SInv'
      BY <2>5, CloseCallStep
    <2>6. ASSUME NEW d \in Fds, NEW size \in Sizes, Resize(c, "ftruncate", d, size) PROVE SInv'
      <3>1. PICK op \in {"ftruncate", "write"} : op = "ftruncate"
        OBVIOUS
      <3>2. Starts(c) /\ fd[c][d] # 0 /\ Resize(c, op, d, size)
        BY <2>6, <3>1 DEF Resize
      <3> QED
        BY <3>1, <3>2, ServNumbers, ResizeStep
    <2>7. ASSUME NEW d \in Fds, NEW size \in Sizes \ {0}, Write(c, d, size - 1) PROVE SInv'
      BY <2>7, WriteStep
    <2>8. ASSUME NEW child \in Clients \ {c}, Share(c, child) PROVE SInv'
      BY <2>8, ShareStep
    <2> QED
      BY <1>4, <2>1, <2>2, <2>3, <2>4, <2>5, <2>6, <2>7, <2>8 DEF Begin
  <1>5. CASE UNCHANGED servVars
    <2>1. UNCHANGED vars /\ o_file' = o_file /\ UNCHANGED <<fd, page, f_size, call, ipc, reply, server, loose>>
      BY <1>5 DEF servVars, local, vars
    <2>2. IInv'
      BY <2>1, SameState DEF SInv
    <2> QED
      BY <2>1, <2>2, SameServ
  <1> QED
    BY <1>1, <1>2, <1>3, <1>4, <1>5 DEF ServNext

\* The invariant holds whatever the clients call and whoever is served first.
THEOREM ServInductive == ServSpec => []SInv
  BY ServInitGood, ServStep, PTL DEF ServSpec

\* ServTypeOK: requests, answers and descriptors fit together.
THEOREM ServTyped == ServSpec => []ServTypeOK
  <1>1. SInv => ServTypeOK
    BY DEF SInv, Types, Waits, Opens, ServTypeOK, FdTables, PageTables, FileSizes, Ptrs
  <1> QED
    BY <1>1, ServInductive, PTL

\* Served by a server with clients, the file system keeps its invariants, as
\* long as it is Intact.
THEOREM ServBlocksOwned == ServSpec => [](TypeOK /\ BlocksOwned /\ NeverReadsFree)
  <1>1. SInv => TypeOK /\ BlocksOwned /\ NeverReadsFree
    BY InvTyped, InvOwned DEF SInv
  <1> QED
    BY <1>1, ServInductive, PTL

\* The file behind an entry changes only in serve_open, and then for an entry
\* that nobody has.
LEMMA EntryStep ==
    ASSUME SInv, [ServNext]_servVars, NEW i \in Entries, Holders(i) # {}
    PROVE  o_file'[i] = o_file[i]
  <1>1. CASE Answer
    BY <1>1 DEF Answer, vars
  <1>2. ASSUME NEW c \in Clients, ServeOpen(c) PROVE o_file'[i] = o_file[i]
    <2>1. CASE open_alloc = {}
      BY <1>2, <2>1 DEF ServeOpen, vars
    <2>2. CASE open_alloc # {}
      <3>1. PICK j, x : j = Min(open_alloc) /\ OpenAs(j, x, call[c].trunc)
        BY <1>2, <2>2 DEF ServeOpen
      <3>2. j \in open_alloc
        <4>1. open_alloc \subseteq Nat
          BY ServNumbers DEF open_alloc
        <4> QED
          BY <2>2, <3>1, <4>1, MinIsMember
      <3>3. j # i
        BY <3>2 DEF open_alloc
      <3>4. o_file \in [Entries -> {Null} \cup Entry]
        BY ServNumbers DEF SInv, IInv
      <3> QED
        BY <3>1, <3>3, <3>4 DEF OpenAs
    <2> QED
      BY <2>1, <2>2
  <1>3. ASSUME NEW c \in Clients, Handle(c), ~ServeOpen(c) PROVE o_file' = o_file
    <2>1. CASE ServeMap(c)
      BY <2>1 DEF ServeMap, OfEntry, Invalid, vars, serve_map
    <2>2. CASE ServeSetSize(c)
      BY <2>2 DEF ServeSetSize, OfEntry, Invalid, vars, serve_set_size
    <2>3. CASE ServeDirty(c)
      BY <2>3 DEF ServeDirty, OfEntry, Invalid, vars, serve_dirty
    <2>4. CASE ServeClose(c)
      BY <2>4 DEF ServeClose, OfEntry, Invalid, vars, serve_close
    <2>5. CASE ServeRemove(c) \/ ServeCreate(c) \/ ServeSync(c)
      BY <2>5 DEF ServeRemove, ServeCreate, ServeSync, serve_remove, serve_create, serve_sync
    <2> QED
      BY <1>3, <2>1, <2>2, <2>3, <2>4, <2>5 DEF Handle
  <1>4. ASSUME NEW c \in Clients, Continue(c) PROVE o_file' = o_file
    BY <1>4 DEF Continue, OpenContinues, MapContinues, SetSizeContinues, RestoreContinues,
       DirtyContinues, CloseContinues, PathContinues, Answered
  <1>5. ASSUME NEW c \in Clients, Begin(c) PROVE o_file' = o_file
    BY <1>5 DEF Begin, Open, RemoveFile, Sync, Close, Resize, Write, Share, Started, vars
  <1>6. CASE UNCHANGED servVars
    BY <1>6 DEF servVars, vars
  <1> QED
    BY <1>1, <1>2, <1>3, <1>4, <1>5, <1>6 DEF ServNext

\* EntryKept: an entry keeps its file while any client has a descriptor of it.
THEOREM EntriesKept == ServSpec => EntryKept
  <1>1. SInv /\ [ServNext]_servVars
          => [\A i \in Entries : Holders(i) # {} /\ Holders(i)' # {} => o_file'[i] = o_file[i]]_servVars
    BY EntryStep
  <1> QED
    BY <1>1, ServInductive, PTL DEF ServSpec, EntryKept

-----------------------------------------------------------------------------
(***************************************************************************)
(* What the routines of the file system do to a file they are not called   *)
(* for, and to the readability of files.                                   *)
(***************************************************************************)
\* n still has what m had of f: the size, and the pointers that were set.
Covers(m, n, f) ==
    /\ File(m, f).size <= File(n, f).size
    /\ \A k \in 0..(NINDIRECT - 1) :
         HasPtr(m, f, k) /\ Ptr(m, f, k) # 0 => HasPtr(n, f, k) /\ Ptr(n, f, k) = Ptr(m, f, k)

\* Whatever is an indirect block can be read as one.
Clean(m) == \A g \in FileIds : File(m, g).indirect # 0 =>
                m.blk[File(m, g).indirect].kind \in {"ind", "zero"}

\* b is no file's indirect block.
NoInd(m, b) == \A g \in FileIds : File(m, g).indirect # b

\* The block of f has become an indirect block, and stays one as long as no
\* block is freed.
Lost(m, f) == /\ m.blk[f[1]].kind # "dir"
              /\ \E g \in FileIds : g[1] \notin m.free /\ File(m, g).indirect = f[1]

\* What routines that free nothing do to files.
Evolves(m, n) ==
    /\ n.free \subseteq m.free
    /\ \A f \in FileIds : (Covers(m, n, f) \/ Lost(n, f)) /\ (Lost(m, f) => Lost(n, f))
    /\ \A b \in Blocks : b \notin m.free /\ NoInd(m, b) => NoInd(n, b)

\* Where the contents stay, everything stays.
LEMMA SameBlk ==
    ASSUME NEW m \in Caches, NEW n \in Caches, n.blk = m.blk
    PROVE  /\ \A f \in FileIds : Covers(m, n, f)
           /\ Clean(m) => Clean(n)
           /\ \A b : NoInd(m, b) => NoInd(n, b)
           /\ n.free \subseteq m.free => Evolves(m, n)
  <1>1. /\ \A f : File(n, f) = File(m, f)
        /\ \A f, k : Ptr(n, f, k) = Ptr(m, f, k)
    BY SameContents
  <1>2. \A f \in FileIds : Covers(m, n, f)
    <2> SUFFICES ASSUME NEW f \in FileIds PROVE Covers(m, n, f)
      OBVIOUS
    <2>1. File(m, f).size \in 0..(NINDIRECT + 1)
      BY FileTyped
    <2> QED
      BY <1>1, <2>1 DEF Covers, HasPtr
  <1>3. \A b : NoInd(m, b) => NoInd(n, b)
    BY <1>1 DEF NoInd
  <1>4. n.free \subseteq m.free => \A f \in FileIds : Lost(m, f) => Lost(n, f)
    BY <1>1 DEF Lost
  <1>5. Clean(m) => Clean(n)
    BY <1>1 DEF Clean
  <1> QED
    BY <1>2, <1>3, <1>4, <1>5 DEF Evolves

\* Covering is transitive.
LEMMA CoversTrans ==
    ASSUME NEW l \in Caches, NEW m \in Caches, NEW n \in Caches, NEW f \in FileIds, Covers(l, m, f), Covers(m, n, f)
    PROVE  Covers(l, n, f)
  <1>1. File(l, f).size \in Nat /\ File(m, f).size \in Nat /\ File(n, f).size \in Nat
    BY FileTyped, Numbers
  <1>2. File(l, f).size <= File(n, f).size
    BY <1>1 DEF Covers
  <1> QED
    BY <1>2 DEF Covers

\* Two routines one after the other.
LEMMA EvolvesTrans ==
    ASSUME NEW l \in Caches, NEW m \in Caches, NEW n \in Caches, Evolves(l, m), Evolves(m, n)
    PROVE  Evolves(l, n)
  <1>1. n.free \subseteq l.free
    BY DEF Evolves
  <1>2. ASSUME NEW f \in FileIds PROVE (Covers(l, n, f) \/ Lost(n, f)) /\ (Lost(l, f) => Lost(n, f))
    BY CoversTrans DEF Evolves
  <1>3. \A b \in Blocks : b \notin l.free /\ NoInd(l, b) => NoInd(n, b)
    BY DEF Evolves
  <1> QED
    BY <1>1, <1>2, <1>3 DEF Evolves

\* *f = new makes the block of f a directory block and leaves the others.
LEMMA PutBlk ==
    ASSUME NEW m \in Caches, NEW f \in FileIds, NEW new \in FileType, NEW n, n = Put(m, f, new)
    PROVE  /\ n \in Caches /\ n.free = m.free
           /\ n.blk[f[1]].kind = "dir" /\ \A a \in Blocks \ {f[1]} : n.blk[a] = m.blk[a]
           /\ File(n, f) = new /\ \A g \in FileIds \ {f} : File(n, g) = File(m, g)
  <1> DEFINE files == [AsDir(m.blk[f[1]]) EXCEPT ![f[2]] = new]
  <1>1. f[1] \in Blocks /\ f[2] \in Slots /\ AsDir(m.blk[f[1]]) \in [Slots -> FileType]
    BY FileTyped
  <1>2. files \in [Slots -> FileType]
    BY <1>1
  <1>3. n = Rewritten(m, f[1], DirBlock(files))
    BY DEF Put, Rewritten
  <1> HIDE DEF files
  <1>4. DirBlock(files) \in Contents /\ DirBlock(files).kind = "dir"
    BY <1>2, DirBlockReads DEF DirBlock
  <1>5. n.blk[f[1]] = DirBlock(files) /\ \A a \in Blocks \ {f[1]} : n.blk[a] = m.blk[a]
    BY <1>1, <1>3, <1>4, SetBlk
  <1>6. Retyped(m, n) /\ File(n, f) = new /\ \A g \in FileIds \ {f} : File(n, g) = File(m, g)
    BY PutFile
  <1> QED
    BY <1>4, <1>5, <1>6 DEF Retyped

\* A file grows or gets pointers that it did not have.
Grows(old, new) ==
    /\ old.size <= new.size
    /\ \A k \in 0..(NDIRECT - 1) : old.direct[k] # 0 => new.direct[k] = old.direct[k]
    /\ old.indirect # 0 => new.indirect = old.indirect

\* *f = new, where f only grows, in a block that is no indirect block.
LEMMA PutGrows ==
    ASSUME NEW m \in Caches, NEW f \in FileIds, NoInd(m, f[1]), NEW new \in FileType, Grows(File(m, f), new),
           NEW n, n = Put(m, f, new)
    PROVE  /\ n \in Caches /\ n.free = m.free
           /\ \A g \in FileIds : Covers(m, n, g)
           /\ \A g \in FileIds : Lost(m, g) => Lost(n, g)
           /\ \A b : NoInd(m, b) /\ new.indirect # b => NoInd(n, b)
           /\ Clean(m) /\ new.indirect = File(m, f).indirect => Clean(n)
  <1>1. /\ n \in Caches /\ n.free = m.free
        /\ n.blk[f[1]].kind = "dir" /\ \A a \in Blocks \ {f[1]} : n.blk[a] = m.blk[a]
        /\ File(n, f) = new /\ \A g \in FileIds \ {f} : File(n, g) = File(m, g)
    BY PutBlk
  <1>2. ASSUME NEW g \in FileIds, File(m, g).indirect # 0
        PROVE  File(n, g).indirect = File(m, g).indirect
               /\ n.blk[File(m, g).indirect] = m.blk[File(m, g).indirect]
    <2>1. File(m, g).indirect \in Blocks \ {f[1]}
      BY <1>2, FileTyped, Numbers DEF NoInd, Ptrs
    <2>2. File(n, g).indirect = File(m, g).indirect
      BY <1>1, <1>2 DEF Grows
    <2> QED
      BY <1>1, <2>1, <2>2
  <1>3. ASSUME NEW g \in FileIds PROVE Covers(m, n, g)
    <2>1. File(m, g).size <= File(n, g).size
      <3>1. File(m, g).size \in Nat
        BY FileTyped, Numbers
      <3> QED
        BY <1>1, <3>1 DEF Grows
    <2>2. ASSUME NEW k \in 0..(NINDIRECT - 1), HasPtr(m, g, k), Ptr(m, g, k) # 0
          PROVE  HasPtr(n, g, k) /\ Ptr(n, g, k) = Ptr(m, g, k)
      <3>1. CASE k < NDIRECT
        <4>1. k \in 0..(NDIRECT - 1)
          BY <3>1, Numbers
        <4>2. File(n, g).direct[k] = File(m, g).direct[k]
          BY <1>1, <2>2, <3>1, <4>1 DEF Grows, Ptr
        <4> QED
          BY <3>1, <4>2 DEF HasPtr, Ptr
      <3>2. CASE ~(k < NDIRECT)
        <4>1. File(m, g).indirect # 0
          BY <2>2, <3>2 DEF HasPtr
        <4> QED
          BY <1>2, <3>2, <4>1 DEF HasPtr, Ptr
      <3> QED
        BY <3>1, <3>2
    <2> QED
      BY <2>1, <2>2 DEF Covers
  <1>4. ASSUME NEW g \in FileIds, Lost(m, g) PROVE Lost(n, g)
    <2>1. PICK h \in FileIds : h[1] \notin m.free /\ File(m, h).indirect = g[1]
      BY <1>4 DEF Lost
    <2>2. g[1] \in Blocks /\ g[1] # 0
      BY FileTyped, Numbers
    <2>3. File(n, h).indirect = g[1] /\ n.blk[g[1]] = m.blk[g[1]]
      BY <1>2, <2>1, <2>2
    <2> QED
      BY <1>1, <1>4, <2>1, <2>3 DEF Lost
  <1>5. ASSUME NEW b, NoInd(m, b), new.indirect # b PROVE NoInd(n, b)
    BY <1>1, <1>5 DEF NoInd
  <1>6. ASSUME Clean(m), new.indirect = File(m, f).indirect PROVE Clean(n)
    <2> SUFFICES ASSUME NEW g \in FileIds, File(n, g).indirect # 0
                 PROVE  n.blk[File(n, g).indirect].kind \in {"ind", "zero"}
      BY DEF Clean
    <2>1. File(m, g).indirect = File(n, g).indirect
      BY <1>1, <1>6
    <2> QED
      BY <1>2, <1>6, <2>1 DEF Clean
  <1> QED
    BY <1>1, <1>3, <1>4, <1>5, <1>6

\* A pointer in the indirect block of f is set.
LEMMA SetInd ==
    ASSUME NEW m \in Caches, NEW f \in FileIds, NEW k \in NDIRECT..(NINDIRECT - 1), NEW v \in Ptrs,
           NEW b, b = File(m, f).indirect, b # 0, NEW n, n = SetPtr(m, f, k, v)
    PROVE  /\ b \in Blocks /\ n \in Caches /\ n.free = m.free /\ n.blk[b].kind \in {"ind", "zero"}
           /\ \A a \in Blocks \ {b} : n.blk[a] = m.blk[a]
           /\ AsInd(n.blk[b])[k] = v
           /\ \A i \in (0..(NINDIRECT - 1)) \ {k} : AsInd(n.blk[b])[i] = AsInd(m.blk[b])[i]
           /\ \A g \in FileIds : IF g[1] = b THEN File(n, g) = EmptyFile ELSE File(n, g) = File(m, g)
  <1>1. b \in Blocks /\ k \in Nat /\ ~(k < NDIRECT) /\ k \in 0..(NINDIRECT - 1)
    <2>1. File(m, f).indirect \in Ptrs
      BY FileTyped
    <2>2. b \in Blocks
      BY <2>1, Numbers DEF Ptrs
    <2> QED
      BY <2>2, Numbers
  <1>2. PICK ptrs : ptrs = [AsInd(m.blk[b]) EXCEPT ![k] = v]
    OBVIOUS
  <1>3. AsInd(m.blk[b]) \in [0..(NINDIRECT - 1) -> Ptrs]
    BY <1>1, CacheFields, ReadsTyped
  <1>4. ptrs \in [0..(NINDIRECT - 1) -> Ptrs] /\ ptrs[k] = v
        /\ \A i \in (0..(NINDIRECT - 1)) \ {k} : ptrs[i] = AsInd(m.blk[b])[i]
    BY <1>1, <1>2, <1>3
  <1>5. n = Rewritten(m, b, IndBlock(ptrs))
    BY <1>1, <1>2 DEF SetPtr, Rewritten
  <1>6. /\ IndBlock(ptrs) \in Contents /\ AsInd(IndBlock(ptrs)) = ptrs
        /\ AsDir(IndBlock(ptrs)) = [j \in Slots |-> EmptyFile]
        /\ IndBlock(ptrs).kind \in {"ind", "zero"}
    BY <1>4, IndBlockReads DEF IndBlock, Zero
  <1>7. Retyped(m, n) /\ n.blk[b] = IndBlock(ptrs) /\ \A a \in Blocks \ {b} : n.blk[a] = m.blk[a]
    BY <1>1, <1>5, <1>6, SetBlk
  <1>8. ASSUME NEW g \in FileIds
        PROVE  IF g[1] = b THEN File(n, g) = EmptyFile ELSE File(n, g) = File(m, g)
    <2>1. g[1] \in Blocks /\ g[2] \in Slots
      BY DEF FileIds
    <2> QED
      BY <1>6, <1>7, <2>1 DEF File
  <1> QED
    BY <1>1, <1>4, <1>6, <1>7, <1>8 DEF Retyped

\* A pointer that was 0 is set in an indirect block.
LEMMA SetIndGrows ==
    ASSUME NEW m \in Caches, Clean(m), NEW f \in FileIds, NEW k \in NDIRECT..(NINDIRECT - 1), NEW v \in Ptrs,
           File(m, f).indirect # 0, Ptr(m, f, k) = 0, NEW n, n = SetPtr(m, f, k, v)
    PROVE  /\ n \in Caches /\ Clean(n) /\ Evolves(m, n)
           /\ \A g \in FileIds : Covers(m, n, g)
           /\ HasPtr(n, f, k) /\ Ptr(n, f, k) = v
  <1>1. PICK b : b = File(m, f).indirect
    OBVIOUS
  <1>2. /\ b \in Blocks /\ n \in Caches /\ n.free = m.free /\ n.blk[b].kind \in {"ind", "zero"}
        /\ \A a \in Blocks \ {b} : n.blk[a] = m.blk[a]
        /\ AsInd(n.blk[b])[k] = v
        /\ \A i \in (0..(NINDIRECT - 1)) \ {k} : AsInd(n.blk[b])[i] = AsInd(m.blk[b])[i]
        /\ \A g \in FileIds : IF g[1] = b THEN File(n, g) = EmptyFile ELSE File(n, g) = File(m, g)
    BY <1>1, SetInd
  <1>3. m.blk[b].kind \in {"ind", "zero"}
    BY <1>1 DEF Clean
  <1>4. ASSUME NEW g \in FileIds PROVE File(n, g) = File(m, g)
    <2>1. CASE g[1] = b
      <3>1. g[2] \in Slots
        BY DEF FileIds
      <3>2. AsDir(m.blk[b]) = [j \in Slots |-> EmptyFile]
        BY <1>3 DEF AsDir
      <3>3. File(m, g) = EmptyFile
        BY <2>1, <3>1, <3>2 DEF File
      <3> QED
        BY <1>2, <2>1, <3>3
    <2>2. CASE g[1] # b
      BY <1>2, <2>2
    <2> QED
      BY <2>1, <2>2
  <1>5. k \in 0..(NINDIRECT - 1) /\ k \in Nat /\ ~(k < NDIRECT)
    BY Numbers
  <1>6. ASSUME NEW g \in FileIds PROVE Covers(m, n, g)
    <2>1. File(m, g).size <= File(n, g).size
      <3>1. File(m, g).size \in Nat
        BY FileTyped, Numbers
      <3> QED
        BY <1>4, <3>1
    <2>2. ASSUME NEW i \in 0..(NINDIRECT - 1), HasPtr(m, g, i), Ptr(m, g, i) # 0
          PROVE  HasPtr(n, g, i) /\ Ptr(n, g, i) = Ptr(m, g, i)
      <3>1. HasPtr(n, g, i)
        BY <1>4, <2>2 DEF HasPtr
      <3>2. CASE i < NDIRECT
        BY <1>4, <3>1, <3>2 DEF Ptr
      <3>3. CASE ~(i < NDIRECT) /\ File(m, g).indirect = b
        <4>1. i # k
          BY <1>1, <1>5, <2>2, <3>3 DEF Ptr
        <4>2. AsInd(n.blk[b])[i] = AsInd(m.blk[b])[i]
          BY <1>2, <4>1
        <4> QED
          BY <1>4, <3>1, <3>3, <4>2 DEF Ptr
      <3>4. CASE ~(i < NDIRECT) /\ File(m, g).indirect # b
        <4>1. File(m, g).indirect \in Blocks \ {b}
          <5>1. File(m, g).indirect \in Ptrs /\ File(m, g).indirect # 0
            BY <2>2, <3>4, FileTyped DEF HasPtr
          <5> QED
            BY <3>4, <5>1, Numbers DEF Ptrs
        <4>2. n.blk[File(m, g).indirect] = m.blk[File(m, g).indirect]
          BY <1>2, <4>1
        <4> QED
          BY <1>4, <3>1, <3>4, <4>2 DEF Ptr
      <3> QED
        BY <3>2, <3>3, <3>4
    <2> QED
      BY <2>1, <2>2 DEF Covers
  <1>7. \A a \in Blocks : m.blk[a].kind \in {"ind", "zero"} => n.blk[a].kind \in {"ind", "zero"}
    BY <1>2
  <1>8. Clean(n)
    <2> SUFFICES ASSUME NEW g \in FileIds, File(n, g).indirect # 0
                 PROVE  n.blk[File(n, g).indirect].kind \in {"ind", "zero"}
      BY DEF Clean
    <2>1. File(m, g).indirect = File(n, g).indirect /\ File(m, g).indirect \in Ptrs
      BY <1>4, FileTyped
    <2>2. File(m, g).indirect \in Blocks
      BY <2>1, Numbers DEF Ptrs
    <2> QED
      BY <1>7, <2>1, <2>2 DEF Clean
  <1>9. Evolves(m, n)
    <2>1. ASSUME NEW g \in FileIds, Lost(m, g) PROVE Lost(n, g)
      <3>1. g[1] \in Blocks
        BY DEF FileIds
      <3>2. n.blk[g[1]].kind # "dir"
        BY <1>2, <2>1, <3>1 DEF Lost
      <3> QED
        BY <1>2, <1>4, <2>1, <3>2 DEF Lost
    <2>2. \A a \in Blocks : NoInd(m, a) => NoInd(n, a)
      BY <1>4 DEF NoInd
    <2> QED
      BY <1>2, <1>6, <2>1, <2>2 DEF Evolves
  <1>10. HasPtr(n, f, k) /\ Ptr(n, f, k) = v
    BY <1>1, <1>2, <1>4, <1>5 DEF HasPtr, Ptr
  <1> QED
    BY <1>2, <1>6, <1>8, <1>9, <1>10

\* Where a pointer of a file points to is no indirect block.
LEMMA PtrNotInd ==
    ASSUME NEW m, Good(m), NEW f \in FileIds, NEW k, HasPtr(m, f, k), Ptr(m, f, k) # 0
    PROVE  NoInd(m, Ptr(m, f, k))
  <1> SUFFICES ASSUME NEW g \in FileIds, File(m, g).indirect = Ptr(m, f, k) PROVE FALSE
    BY DEF NoInd
  <1>1. f[1] \in Blocks /\ f[2] \in Slots /\ f[2] # Indirect /\ g[1] \in Blocks /\ g[2] \in Slots /\ g[2] # Indirect
    BY Numbers DEF FileIds
  <1>2. m \in Caches /\ k \in 0..(NINDIRECT - 1) /\ k \in Nat
    BY Numbers DEF Good, HasPtr
  <1>3. PICK p, q : q = <<g[1], g[2], NDIRECT>>
                    /\ p = IF k < NDIRECT THEN <<f[1], f[2], k>> ELSE <<File(m, f).indirect, Indirect, k>>
    OBVIOUS
  <1>4. q \in Places /\ At(m, q) = File(m, g).indirect
    <2>1. q \in Places /\ q[1] = g[1] /\ q[2] = g[2] /\ q[3] = NDIRECT
      BY <1>1, <1>3, Numbers DEF Places
    <2> QED
      BY <1>1, <2>1 DEF At, PtrOf, File
  <1>5. p \in Places /\ At(m, p) = Ptr(m, f, k) /\ p # q
    <2>1. CASE k < NDIRECT
      <3>1. p \in Places /\ p[1] = f[1] /\ p[2] = f[2] /\ p[3] = k /\ k # NDIRECT
        BY <1>1, <1>2, <1>3, <2>1, Numbers DEF Places
      <3>2. At(m, p) = Ptr(m, f, k)
        BY <1>1, <2>1, <3>1 DEF At, PtrOf, File, Ptr
      <3> QED
        BY <1>3, <3>1, <3>2
    <2>2. CASE ~(k < NDIRECT)
      <3>1. File(m, f).indirect \in Blocks
        <4>1. File(m, f).indirect \in Ptrs /\ File(m, f).indirect # 0
          BY <1>2, <2>2, FileTyped DEF HasPtr
        <4> QED
          BY <4>1, Numbers DEF Ptrs
      <3>2. p \in Places /\ p[1] = File(m, f).indirect /\ p[2] = Indirect /\ p[3] = k
        BY <1>2, <1>3, <2>2, <3>1 DEF Places
      <3>3. At(m, p) = Ptr(m, f, k)
        BY <2>2, <3>2 DEF At, Ptr
      <3> QED
        BY <1>1, <1>3, <3>2, <3>3
    <2> QED
      BY <2>1, <2>2
  <1> QED
    BY <1>4, <1>5 DEF Good, Owned, OneOwner

\* alloc_block takes a free block.
LEMMA AllocFree ==
    ASSUME NEW m, Good(m), NEW x, x = alloc_block(m)
    PROVE  x.m.free \subseteq m.free /\ (x.r = "ok" => x.b \in m.free)
  <1>1. m \in Caches /\ m.free \subseteq Nat
    BY CacheFields, Numbers DEF Good
  <1>2. CASE m.free = {}
    BY <1>2 DEF alloc_block, Err, Ok
  <1>3. CASE m.free # {}
    <2>1. PICK b : b = Min(m.free)
      OBVIOUS
    <2>2. b \in m.free
      BY <1>1, <1>3, <2>1, MinIsMember
    <2>3. PICK n : n = [m EXCEPT !.free = @ \ {b}]
      OBVIOUS
    <2>4. PICK k : k = write_block(n, Bitmap)
      OBVIOUS
    <2>5. n.free = m.free \ {b} /\ k.free = n.free
      BY <1>1, <2>3, <2>4 DEF Caches, write_block
    <2>6. x = [Ok(k) EXCEPT !.b = b]
      BY <1>3, <2>1, <2>3, <2>4 DEF alloc_block
    <2>7. x.m = k /\ x.b = b
      BY <2>6 DEF Ok
    <2> QED
      BY <2>2, <2>5, <2>7
  <1> QED
    BY <1>2, <1>3

\* A direct pointer that was 0 is set.
LEMMA SetDirectGrows ==
    ASSUME NEW m \in Caches, NEW f \in FileIds, NoInd(m, f[1]), NEW k \in 0..(NDIRECT - 1), NEW v \in Ptrs,
           Ptr(m, f, k) = 0, NEW n, n = SetPtr(m, f, k, v)
    PROVE  /\ n \in Caches /\ (Clean(m) => Clean(n)) /\ Evolves(m, n)
           /\ \A g \in FileIds : Covers(m, n, g)
           /\ HasPtr(n, f, k) /\ Ptr(n, f, k) = v
  <1>1. PICK old \in FileType : old = File(m, f)
    BY FileTyped
  <1>2. PICK d : d = [old.direct EXCEPT ![k] = v]
    OBVIOUS
  <1>3. PICK new : new = [old EXCEPT !.direct = d]
    OBVIOUS
  <1>4. d \in [0..(NDIRECT - 1) -> Ptrs] /\ d[k] = v /\ \A i \in (0..(NDIRECT - 1)) \ {k} : d[i] = old.direct[i]
    BY <1>1, <1>2, FileTyped
  <1>5. new \in FileType /\ new.size = old.size /\ new.direct = d /\ new.indirect = old.indirect
    BY <1>3, <1>4 DEF FileType, Ptrs
  <1>6. k < NDIRECT /\ k \in 0..(NINDIRECT - 1) /\ old.direct[k] = 0
    BY <1>1, Numbers DEF Ptr
  <1>7. n = Put(m, f, new)
    <2>1. new = [old EXCEPT !.direct[k] = v]
      BY <1>1, <1>2, <1>3 DEF FileType
    <2> QED
      BY <1>1, <1>6, <2>1 DEF SetPtr
  <1>8. Grows(old, new)
    <2>1. old.size <= new.size
      BY <1>1, <1>5, FileTyped
    <2> QED
      BY <1>4, <1>5, <1>6, <2>1 DEF Grows
  <1>9. /\ n \in Caches /\ n.free = m.free /\ \A g \in FileIds : Covers(m, n, g)
        /\ \A g \in FileIds : Lost(m, g) => Lost(n, g)
        /\ \A b : NoInd(m, b) /\ new.indirect # b => NoInd(n, b)
        /\ Clean(m) => Clean(n)
    BY <1>1, <1>5, <1>7, <1>8, PutGrows
  <1>10. \A b : NoInd(m, b) => NoInd(n, b)
    BY <1>1, <1>5, <1>9 DEF NoInd
  <1>11. File(n, f) = new
    BY <1>5, <1>7, PutBlk
  <1> QED
    BY <1>4, <1>5, <1>6, <1>9, <1>10, <1>11 DEF Evolves, HasPtr, Ptr

\* The block of a pointer that has its place, or a new one.
LEMMA MapAtGrows ==
    ASSUME NEW m, Good(m), Clean(m), NEW f \in FileIds, NoInd(m, f[1]), NEW k, HasPtr(m, f, k),
           NEW x, x = MapAt(m, f, k, TRUE, Ptr(m, f, k))
    PROVE  /\ x.m \in Caches /\ Clean(x.m) /\ Evolves(m, x.m)
           /\ \A g \in FileIds : Covers(m, x.m, g)
           /\ x.r = "ok" => HasPtr(x.m, f, k) /\ Ptr(x.m, f, k) = x.b
  <1>1. m \in Caches /\ k \in 0..(NINDIRECT - 1) /\ (k \in 0..(NDIRECT - 1) \/ k \in NDIRECT..(NINDIRECT - 1))
    BY Numbers DEF Good, HasPtr
  <1>2. CASE Ptr(m, f, k) # 0
    <2>1. x = [Ok(m) EXCEPT !.b = Ptr(m, f, k)]
      BY <1>2 DEF MapAt
    <2>2. x.m = m /\ x.b = Ptr(m, f, k)
      BY <2>1 DEF Ok
    <2> QED
      BY <1>1, <2>2, SameBlk
  <1>3. CASE Ptr(m, f, k) = 0
    <2>1. PICK y : y = alloc_block(m)
      OBVIOUS
    <2>2. x = IF y.r = "ok" THEN [y EXCEPT !.m = SetPtr(y.m, f, k, y.b)] ELSE y
      <3>1. x = Then(y, LAMBDA z : [z EXCEPT !.m = SetPtr(@, f, k, z.b)])
        BY <1>3, <2>1 DEF MapAt
      <3>2. y \in Results
        BY <2>1, AllocBlock DEF Returns
      <3> QED
        BY <3>1, <3>2 DEF Then, Results
    <2>3. y \in Results /\ y.m \in Caches /\ y.m.blk = m.blk /\ y.m.free \subseteq m.free
      BY <2>1, AllocBlock, AllocFree, ResultFields DEF Returns
    <2>4. Clean(y.m) /\ Evolves(m, y.m) /\ (\A g \in FileIds : Covers(m, y.m, g)) /\ NoInd(y.m, f[1])
      BY <1>1, <2>3, SameBlk
    <2>5. CASE y.r # "ok"
      BY <2>2, <2>3, <2>4, <2>5
    <2>6. CASE y.r = "ok"
      <3>1. PICK n : n = SetPtr(y.m, f, k, y.b)
        OBVIOUS
      <3>2. HasPtr(y.m, f, k) /\ Ptr(y.m, f, k) = 0
        BY <1>3, <2>3, SameContents DEF HasPtr
      <3>3. y.b \in Ptrs
        BY <2>3, ResultFields
      <3>4. /\ n \in Caches /\ Clean(n) /\ Evolves(y.m, n) /\ \A g \in FileIds : Covers(y.m, n, g)
            /\ HasPtr(n, f, k) /\ Ptr(n, f, k) = y.b
        <4>1. CASE k \in 0..(NDIRECT - 1)
          BY <2>3, <2>4, <3>1, <3>2, <3>3, <4>1, SetDirectGrows
        <4>2. CASE k \in NDIRECT..(NINDIRECT - 1)
          <5>1. File(y.m, f).indirect # 0
            BY <3>2, <4>2, Numbers DEF HasPtr
          <5> QED
            BY <2>3, <2>4, <3>1, <3>2, <3>3, <4>2, <5>1, SetIndGrows
        <4> QED
          BY <1>1, <4>1, <4>2
      <3>5. Evolves(m, n) /\ \A g \in FileIds : Covers(m, n, g)
        BY <1>1, <2>3, <2>4, <3>4, EvolvesTrans, CoversTrans
      <3>6. x.m = n /\ x.b = y.b
        BY <2>2, <2>3, <2>6, <3>1, <3>4, WithCache
      <3> QED
        BY <3>4, <3>5, <3>6
    <2> QED
      BY <2>5, <2>6
  <1> QED
    BY <1>2, <1>3

\* A new indirect block is linked to f.
LEMMA LinkGrows ==
    ASSUME NEW m, Good(m), NEW f \in FileIds, NoInd(m, f[1]), File(m, f).indirect = 0, NEW b, Fresh(m, b),
           NEW n, n = Put(m, f, [File(m, f) EXCEPT !.indirect = b])
    PROVE  /\ n \in Caches /\ n.free = m.free /\ File(n, f).indirect = b
           /\ \A g \in FileIds \ {f} : File(n, g) = File(m, g)
           /\ File(n, f).size = File(m, f).size /\ File(n, f).direct = File(m, f).direct
           /\ n.blk[f[1]].kind = "dir" /\ \A a \in Blocks \ {f[1]} : n.blk[a] = m.blk[a]
           /\ \A g \in FileIds : Covers(m, n, g)
           /\ \A g \in FileIds : Lost(m, g) => Lost(n, g)
           /\ \A a : NoInd(m, a) /\ a # b => NoInd(n, a)
  <1>1. m \in Caches /\ b \in Data
    BY DEF Good, Fresh
  <1>2. PICK old \in FileType : old = File(m, f)
    BY <1>1, FileTyped
  <1>3. PICK new : new = [old EXCEPT !.indirect = b]
    OBVIOUS
  <1>4. new \in FileType /\ new.size = old.size /\ new.direct = old.direct /\ new.indirect = b
    BY <1>1, <1>2, <1>3 DEF FileType, Ptrs
  <1>5. n = Put(m, f, new)
    BY <1>2, <1>3
  <1>6. Grows(old, new)
    <2>1. old.size <= new.size
      BY <1>1, <1>2, <1>4, FileTyped
    <2> QED
      BY <1>2, <1>4, <2>1 DEF Grows
  <1>7. Grows(File(m, f), new)
    BY <1>2, <1>6
  <1>8. PICK l : l = Put(m, f, new)
    OBVIOUS
  <1>9. /\ l \in Caches /\ l.free = m.free
        /\ \A g \in FileIds : Covers(m, l, g)
        /\ \A g \in FileIds : Lost(m, g) => Lost(l, g)
        /\ \A a : NoInd(m, a) /\ new.indirect # a => NoInd(l, a)
    BY <1>1, <1>4, <1>7, <1>8, PutGrows
  <1>10. /\ l.blk[f[1]].kind = "dir" /\ \A a \in Blocks \ {f[1]} : l.blk[a] = m.blk[a]
         /\ File(l, f) = new /\ \A g \in FileIds \ {f} : File(l, g) = File(m, g)
    BY <1>1, <1>4, <1>8, PutBlk
  <1>11. n = l
    BY <1>5, <1>8
  <1> QED
    BY <1>2, <1>4, <1>9, <1>10, <1>11

\* A pointer is set in the indirect block b that f has just got.  The files
\* that b held when it was a directory block are lost.
LEMMA LinkedSetGrows ==
    ASSUME NEW l \in Caches, Clean(l), NEW m, Good(m), m.blk = l.blk, m.free \subseteq l.free,
           NEW f \in FileIds, NoInd(m, f[1]), File(m, f).indirect = 0, NEW b, Fresh(m, b), b \in l.free,
           NEW j, j = Put(m, f, [File(m, f) EXCEPT !.indirect = b]),
           NEW k \in NDIRECT..(NINDIRECT - 1), Ptr(j, f, k) = 0,
           NEW q \in Caches, q.blk = j.blk, q.free \subseteq j.free, NEW v \in Ptrs, NEW n, n = SetPtr(q, f, k, v)
    PROVE  /\ n \in Caches /\ Clean(n) /\ n.free \subseteq l.free
           /\ \A g \in FileIds : Covers(l, n, g) \/ n.blk[g[1]].kind # "dir"
           /\ f[1] \notin l.free => Evolves(l, n)
           /\ (HasPtr(n, f, k) /\ Ptr(n, f, k) = v) \/ (f[1] \in l.free /\ n.blk[f[1]].kind # "dir")
  <1>1. m \in Caches /\ b \in Data /\ b \in Blocks /\ b # 0 /\ NoInd(m, b) /\ f[1] \in Blocks
    <2>1. m \in Caches /\ b \in Data /\ b \in Blocks /\ b # 0
      BY Numbers DEF Good, Fresh
    <2>2. ASSUME NEW g \in FileIds PROVE File(m, g).indirect # b
      <3>1. g[1] \in Blocks /\ g[2] \in Slots /\ g[2] # Indirect
        BY Numbers DEF FileIds
      <3>2. PICK p : p = <<g[1], g[2], NDIRECT>>
        OBVIOUS
      <3>3. p \in Places /\ p[1] = g[1] /\ p[2] = g[2] /\ p[3] = NDIRECT
        BY <3>1, <3>2, Numbers DEF Places
      <3>4. At(m, p) = File(m, g).indirect
        BY <3>1, <3>3 DEF At, PtrOf, File
      <3> QED
        BY <3>3, <3>4 DEF Fresh, Loose
    <2> QED
      BY <2>1, <2>2 DEF NoInd, FileIds
  <1>2. /\ \A g : File(m, g) = File(l, g)
        /\ \A g \in FileIds : Covers(l, m, g)
        /\ Clean(m)
    BY <1>1, SameContents, SameBlk
  <1>3. /\ j \in Caches /\ j.free = m.free /\ File(j, f).indirect = b
        /\ \A g \in FileIds \ {f} : File(j, g) = File(m, g)
        /\ \A a \in Blocks \ {f[1]} : j.blk[a] = m.blk[a]
        /\ \A g \in FileIds : Covers(m, j, g)
        /\ \A a : NoInd(m, a) /\ a # b => NoInd(j, a)
    BY LinkGrows
  <1>4. \A g : File(q, g) = File(j, g)
    BY SameContents
  <1>5. File(q, f).indirect = b
    BY <1>3, <1>4
  <1>6. /\ n \in Caches /\ n.free = q.free /\ n.blk[b].kind \in {"ind", "zero"}
        /\ \A a \in Blocks \ {b} : n.blk[a] = q.blk[a]
        /\ AsInd(n.blk[b])[k] = v
        /\ \A i \in (0..(NINDIRECT - 1)) \ {k} : AsInd(n.blk[b])[i] = AsInd(q.blk[b])[i]
        /\ \A g \in FileIds : IF g[1] = b THEN File(n, g) = EmptyFile ELSE File(n, g) = File(q, g)
    BY <1>1, <1>5, SetInd
  <1>7. n.free \subseteq l.free
    BY <1>3, <1>6
  <1>8. k \in 0..(NINDIRECT - 1) /\ k \in Nat /\ ~(k < NDIRECT)
    BY Numbers
  <1>9. ASSUME NEW g \in FileIds, g # f, File(n, g).indirect # 0
        PROVE  /\ g[1] # b /\ File(n, g) = File(m, g) /\ File(m, g).indirect \in Blocks \ {b, f[1]}
               /\ n.blk[File(m, g).indirect] = m.blk[File(m, g).indirect]
    <2>1. g[1] # b
      BY <1>6, <1>9 DEF EmptyFile
    <2>2. File(n, g) = File(m, g)
      BY <1>3, <1>4, <1>6, <1>9, <2>1
    <2>3. File(m, g).indirect \in Ptrs
      BY <1>1, FileTyped
    <2>4. File(m, g).indirect \in Blocks \ {b, f[1]}
      BY <1>1, <1>9, <2>2, <2>3, Numbers DEF Ptrs, NoInd
    <2> QED
      BY <1>3, <1>6, <2>1, <2>2, <2>4
  <1>10. Clean(n)
    <2> SUFFICES ASSUME NEW g \in FileIds, File(n, g).indirect # 0
                 PROVE  n.blk[File(n, g).indirect].kind \in {"ind", "zero"}
      BY DEF Clean
    <2>1. CASE g = f
      <3>1. File(n, f).indirect = b
        BY <1>4, <1>5, <1>6, <2>1 DEF EmptyFile
      <3> QED
        BY <1>6, <2>1, <3>1
    <2>2. CASE g # f
      BY <1>2, <1>9, <2>2 DEF Clean
    <2> QED
      BY <2>1, <2>2
  <1>11. ASSUME NEW g \in FileIds, g[1] # b PROVE Covers(l, n, g)
    <2>1. File(n, g) = File(j, g)
      BY <1>4, <1>6, <1>11
    <2>2. Covers(j, n, g)
      <3>1. File(j, g).size <= File(n, g).size
        <4>1. File(j, g).size \in Nat
          BY <1>3, FileTyped, Numbers
        <4> QED
          BY <2>1, <4>1
      <3>2. ASSUME NEW i \in 0..(NINDIRECT - 1), HasPtr(j, g, i), Ptr(j, g, i) # 0
            PROVE  HasPtr(n, g, i) /\ Ptr(n, g, i) = Ptr(j, g, i)
        <4>1. HasPtr(n, g, i)
          BY <2>1, <3>2 DEF HasPtr
        <4>2. CASE i < NDIRECT
          BY <2>1, <4>1, <4>2 DEF Ptr
        <4>3. CASE ~(i < NDIRECT) /\ g = f
          <5>1. i # k
            BY <3>2, <4>3
          <5>2. AsInd(n.blk[b])[i] = AsInd(j.blk[b])[i]
            BY <1>6, <5>1
          <5> QED
            BY <1>3, <2>1, <4>1, <4>3, <5>2 DEF Ptr
        <4>4. CASE ~(i < NDIRECT) /\ g # f
          <5>1. File(n, g).indirect # 0
            BY <2>1, <3>2, <4>4 DEF HasPtr
          <5>2. n.blk[File(m, g).indirect] = m.blk[File(m, g).indirect] /\ File(n, g) = File(m, g)
                /\ File(m, g).indirect \in Blocks \ {b, f[1]}
            BY <1>9, <4>4, <5>1
          <5>3. j.blk[File(m, g).indirect] = m.blk[File(m, g).indirect]
            BY <1>3, <5>2
          <5> QED
            BY <2>1, <4>1, <4>4, <5>2, <5>3 DEF Ptr
        <4> QED
          BY <4>2, <4>3, <4>4
      <3> QED
        BY <3>1, <3>2 DEF Covers
    <2> QED
      BY <1>1, <1>2, <1>3, <1>6, <2>2, CoversTrans
  <1>12. \A g \in FileIds : Covers(l, n, g) \/ n.blk[g[1]].kind # "dir"
    BY <1>6, <1>11
  <1>13. (HasPtr(n, f, k) /\ Ptr(n, f, k) = v) \/ (f[1] \in l.free /\ n.blk[f[1]].kind # "dir")
    <2>1. CASE f[1] = b
      BY <1>6, <2>1
    <2>2. CASE f[1] # b
      <3>1. File(n, f).indirect = b
        BY <1>4, <1>5, <1>6, <2>2
      <3> QED
        BY <1>1, <1>6, <1>8, <3>1 DEF HasPtr, Ptr
    <2> QED
      BY <2>1, <2>2
  <1>14. ASSUME f[1] \notin l.free PROVE Evolves(l, n)
    <2>1. f[1] # b
      BY <1>14
    <2>2. File(n, f).indirect = b /\ f[1] \notin n.free
      BY <1>4, <1>5, <1>6, <1>7, <1>14, <2>1
    <2>3. ASSUME NEW g \in FileIds PROVE Covers(l, n, g) \/ Lost(n, g)
      BY <1>6, <1>11, <2>2 DEF Lost
    <2>4. ASSUME NEW g \in FileIds, Lost(l, g) PROVE Lost(n, g)
      <3>1. PICK h \in FileIds : h[1] \notin l.free /\ File(l, h).indirect = g[1]
        BY <2>4 DEF Lost
      <3>2. h[1] # b /\ h # f /\ g[1] # f[1] /\ g[1] \in Blocks /\ g[1] # 0
        <4>1. g[1] \in Blocks /\ g[1] # 0
          BY Numbers DEF FileIds
        <4>2. File(m, h).indirect = g[1]
          BY <1>2, <3>1
        <4> QED
          BY <3>1, <4>1, <4>2 DEF NoInd
      <3>3. File(n, h) = File(l, h)
        BY <1>2, <1>3, <1>4, <1>6, <3>2
      <3>4. n.blk[g[1]].kind # "dir"
        BY <1>3, <1>6, <2>4, <3>2 DEF Lost
      <3> QED
        BY <1>7, <3>1, <3>3, <3>4 DEF Lost
    <2>5. ASSUME NEW a \in Blocks, a \notin l.free, NoInd(l, a) PROVE NoInd(n, a)
      <3>1. NoInd(j, a)
        BY <1>2, <1>3, <2>5 DEF NoInd
      <3>2. a # 0
        BY Numbers
      <3> QED
        BY <1>4, <1>6, <3>1, <3>2 DEF NoInd, EmptyFile
    <2> QED
      BY <1>7, <2>3, <2>4, <2>5 DEF Evolves
  <1> QED
    BY <1>6, <1>7, <1>10, <1>12, <1>13, <1>14

\* What a routine that finds or makes block k of f, called with the cache l,
\* does to files.  Only a directory that is itself in a free block can be lost.
BlockFound(l, f, k, x) ==
    /\ x.m \in Caches /\ x.m.free \subseteq l.free
    /\ x.r # "NO_DISK" => Clean(x.m)
    /\ \A g \in FileIds : Covers(l, x.m, g) \/ x.m.blk[g[1]].kind # "dir"
    /\ f[1] \notin l.free => Evolves(l, x.m)
    /\ x.r = "ok" => (HasPtr(x.m, f, k) /\ Ptr(x.m, f, k) = x.b) \/ (f[1] \in l.free /\ x.m.blk[f[1]].kind # "dir")

\* The first block behind a new indirect block.
LEMMA LinkedFound ==
    ASSUME NEW l \in Caches, Clean(l), NEW m, Good(m), m.blk = l.blk, m.free \subseteq l.free,
           NEW f \in FileIds, NoInd(l, f[1]), File(l, f).indirect = 0, NEW b, Fresh(m, b), b \in l.free,
           NEW j, j = Put(m, f, [File(m, f) EXCEPT !.indirect = b]),
           NEW k \in NDIRECT..(NINDIRECT - 1), NEW x, x = MapAt(j, f, k, TRUE, Ptr(j, f, k))
    PROVE  BlockFound(l, f, k, x)
  <1>1. m \in Caches /\ b \in Blocks /\ b # 0 /\ k \in 0..(NINDIRECT - 1) /\ ~(k < NDIRECT)
    BY Numbers DEF Good, Fresh
  <1>2. /\ \A g : File(m, g) = File(l, g)
        /\ Evolves(l, m) /\ (\A g \in FileIds : Covers(l, m, g)) /\ Clean(m) /\ NoInd(m, f[1])
    BY <1>1, SameContents, SameBlk
  <1>3. File(m, f).indirect = 0
    BY <1>2
  <1>4. /\ j \in Caches /\ j.free = m.free /\ File(j, f).indirect = b
        /\ \A g \in FileIds \ {f} : File(j, g) = File(m, g)
        /\ j.blk[f[1]].kind = "dir" /\ \A a \in Blocks \ {f[1]} : j.blk[a] = m.blk[a]
        /\ \A g \in FileIds : Covers(m, j, g)
        /\ \A g \in FileIds : Lost(m, g) => Lost(j, g)
        /\ \A a : NoInd(m, a) /\ a # b => NoInd(j, a)
    BY <1>2, <1>3, LinkGrows
  <1>5. Good(j)
    BY IndirectLinked
  <1>6. \A g \in FileIds : Covers(l, j, g)
    BY <1>1, <1>2, <1>4, CoversTrans
  <1>7. Evolves(l, j)
    <2>1. ASSUME NEW g \in FileIds, Lost(l, g) PROVE Lost(j, g)
      BY <1>2, <1>4, <2>1 DEF Evolves
    <2>2. ASSUME NEW a \in Blocks, a \notin l.free, NoInd(l, a) PROVE NoInd(j, a)
      BY <1>2, <1>4, <2>2 DEF Evolves
    <2> QED
      BY <1>4, <1>6, <2>1, <2>2 DEF Evolves
  <1>8. HasPtr(j, f, k)
    BY <1>1, <1>4 DEF HasPtr
  <1>9. CASE Ptr(j, f, k) # 0
    <2>1. x = [Ok(j) EXCEPT !.b = Ptr(j, f, k)]
      BY <1>9 DEF MapAt
    <2>2. x.m = j /\ x.b = Ptr(j, f, k)
      BY <2>1 DEF Ok
    <2>3. j.blk[b].kind = "ind"
      <3>1. AsInd(j.blk[b])[k] # 0
        BY <1>1, <1>4, <1>9 DEF Ptr
      <3> QED
        BY <1>1, <3>1 DEF AsInd, NoPtrs
    <2>4. Clean(j)
      <3> SUFFICES ASSUME NEW g \in FileIds, File(j, g).indirect # 0
                   PROVE  j.blk[File(j, g).indirect].kind \in {"ind", "zero"}
        BY DEF Clean
      <3>1. CASE g = f
        BY <1>4, <2>3, <3>1
      <3>2. CASE g # f
        <4>1. File(m, g) = File(j, g) /\ File(m, g).indirect \in Ptrs
          BY <1>1, <1>4, <3>2, FileTyped
        <4>2. File(m, g).indirect \in Blocks \ {f[1]}
          BY <1>2, <4>1, Numbers DEF Ptrs, NoInd
        <4> QED
          BY <1>2, <1>4, <4>1, <4>2 DEF Clean
      <3> QED
        BY <3>1, <3>2
    <2> QED
      BY <1>4, <1>6, <1>7, <1>8, <2>2, <2>4 DEF BlockFound
  <1>10. CASE Ptr(j, f, k) = 0
    <2>1. PICK y : y = alloc_block(j)
      OBVIOUS
    <2>2. y \in Results /\ y.m \in Caches /\ y.m.blk = j.blk /\ y.m.free \subseteq j.free /\ y.r \in {"ok", "NO_DISK"}
      BY <1>5, <2>1, AllocBlock, AllocFree, ResultFields DEF Returns
    <2>3. x = IF y.r = "ok" THEN [y EXCEPT !.m = SetPtr(y.m, f, k, y.b)] ELSE y
      <3>1. x = Then(y, LAMBDA z : [z EXCEPT !.m = SetPtr(@, f, k, z.b)])
        BY <1>10, <2>1 DEF MapAt
      <3> QED
        BY <2>2, <3>1 DEF Then, Results
    <2>4. CASE y.r # "ok"
      <3>1. /\ \A g \in FileIds : Covers(j, y.m, g)
            /\ Evolves(j, y.m)
        BY <1>4, <2>2, SameBlk
      <3>2. Evolves(l, y.m) /\ \A g \in FileIds : Covers(l, y.m, g)
        BY <1>4, <1>6, <1>7, <2>2, <3>1, EvolvesTrans, CoversTrans
      <3>3. y.m.free \subseteq l.free
        BY <1>4, <2>2
      <3> QED
        BY <2>2, <2>3, <2>4, <3>2, <3>3 DEF BlockFound
    <2>5. CASE y.r = "ok"
      <3>1. PICK v \in Ptrs : v = y.b
        BY <2>2, ResultFields
      <3>2. PICK n : n = SetPtr(y.m, f, k, v)
        OBVIOUS
      <3>3. /\ n \in Caches /\ Clean(n) /\ n.free \subseteq l.free
            /\ \A g \in FileIds : Covers(l, n, g) \/ n.blk[g[1]].kind # "dir"
            /\ f[1] \notin l.free => Evolves(l, n)
            /\ (HasPtr(n, f, k) /\ Ptr(n, f, k) = v) \/ (f[1] \in l.free /\ n.blk[f[1]].kind # "dir")
        BY <1>2, <1>3, <1>10, <2>2, <3>2, LinkedSetGrows
      <3>4. x = [y EXCEPT !.m = n]
        BY <2>3, <2>5, <3>1, <3>2
      <3>5. PICK p \in Caches : p = n
        BY <3>3
      <3>6. PICK w : w = [y EXCEPT !.m = p]
        OBVIOUS
      <3>7. w.m = p /\ w.b = y.b
        BY <2>2, <3>6, WithCache
      <3>8. x = w
        BY <3>4, <3>5, <3>6
      <3> QED
        BY <3>1, <3>3, <3>5, <3>7, <3>8 DEF BlockFound
    <2> QED
      BY <2>4, <2>5
  <1> QED
    BY <1>9, <1>10

\* file_map_block that may allocate.
LEMMA MapBlockFound ==
    ASSUME NEW m, Good(m), Clean(m), NEW f \in FileIds, NoInd(m, f[1]), NEW k \in Nat,
           NEW x, x = file_map_block(m, f, k, TRUE)
    PROVE  BlockFound(m, f, k, x)
  <1>1. m \in Caches
    BY DEF Good
  <1>2. PICK y : y = file_block_walk(m, f, k, TRUE)
    OBVIOUS
  <1>3. x = IF y.r = "ok" THEN MapAt(y.m, f, k, TRUE, Ptr(y.m, f, k)) ELSE y
    BY <1>2 DEF file_map_block, Then
  <1>4. ASSUME y = Ok(m), HasPtr(m, f, k) PROVE BlockFound(m, f, k, x)
    <2>1. x = MapAt(m, f, k, TRUE, Ptr(m, f, k))
      BY <1>3, <1>4 DEF Ok
    <2>2. PICK z : z = MapAt(m, f, k, TRUE, Ptr(m, f, k))
      OBVIOUS
    <2>3. /\ z.m \in Caches /\ Clean(z.m) /\ Evolves(m, z.m)
          /\ \A g \in FileIds : Covers(m, z.m, g)
          /\ z.r = "ok" => HasPtr(z.m, f, k) /\ Ptr(z.m, f, k) = z.b
      BY <1>4, <2>2, MapAtGrows
    <2>4. x = z
      BY <2>1, <2>2
    <2> QED
      BY <2>3, <2>4 DEF BlockFound, Evolves
  <1>5. CASE k < NDIRECT
    <2>1. ~(k >= NINDIRECT) /\ k \notin NDIRECT..(NINDIRECT - 1)
      BY <1>5, Numbers
    <2>2. y = Ok(m)
      BY <1>2, <1>5, <2>1 DEF file_block_walk
    <2>3. HasPtr(m, f, k)
      BY <1>5, Numbers DEF HasPtr
    <2> QED
      BY <1>4, <2>2, <2>3
  <1>6. CASE k >= NINDIRECT
    <2>1. ~(k < NDIRECT)
      BY <1>6, Numbers
    <2>2. y = Err(m, "INVAL")
      BY <1>2, <1>6, <2>1, Numbers DEF file_block_walk
    <2>3. x.m = m /\ x.r = "INVAL"
      BY <1>3, <2>2 DEF Err, Ok
    <2> QED
      BY <1>1, <2>3, SameBlk DEF BlockFound
  <1>7. CASE k \in NDIRECT..(NINDIRECT - 1)
    <2>1. ~(k < NDIRECT) /\ ~(k >= NINDIRECT) /\ k \in 0..(NINDIRECT - 1)
      BY <1>7, Numbers
    <2>2. y = IF File(m, f).indirect # 0 THEN Ok(read_block(m, File(m, f).indirect))
              ELSE Then(alloc_block(m), LAMBDA z : Ok(Put(z.m, f, [File(z.m, f) EXCEPT !.indirect = z.b])))
      BY <1>2, <1>7, <2>1 DEF file_block_walk
    <2>3. CASE File(m, f).indirect # 0
      <3>1. y = Ok(m)
        BY <2>2, <2>3, IndirectInUse, ReadInUse
      <3>2. HasPtr(m, f, k)
        BY <2>1, <2>3 DEF HasPtr
      <3> QED
        BY <1>4, <3>1, <3>2
    <2>4. CASE File(m, f).indirect = 0
      <3>1. PICK z : z = alloc_block(m)
        OBVIOUS
      <3>2. Returns(m, z) /\ z.r \in {"ok", "NO_DISK"} /\ z.m.blk = m.blk /\ (z.r = "ok" => Fresh(z.m, z.b))
            /\ z.m.free \subseteq m.free /\ (z.r = "ok" => z.b \in m.free)
        BY <3>1, AllocBlock, AllocFree
      <3>3. Good(z.m) /\ z.m \in Caches
        BY <3>2, ResultFields DEF Returns, Good
      <3>4. CASE z.r # "ok"
        <4>1. x = z
          BY <1>3, <2>2, <2>4, <3>1, <3>4 DEF Then
        <4>2. Evolves(m, z.m) /\ \A g \in FileIds : Covers(m, z.m, g)
          BY <1>1, <3>2, <3>3, SameBlk
        <4> QED
          BY <3>2, <3>3, <3>4, <4>1, <4>2 DEF BlockFound
      <3>5. CASE z.r = "ok"
        <4>1. PICK j : j = Put(z.m, f, [File(z.m, f) EXCEPT !.indirect = z.b])
          OBVIOUS
        <4>2. y = Ok(j)
          BY <2>2, <2>4, <3>1, <3>5, <4>1 DEF Then
        <4>3. x = MapAt(j, f, k, TRUE, Ptr(j, f, k))
          BY <1>3, <4>2 DEF Ok
        <4> QED
          BY <1>1, <1>7, <2>4, <3>2, <3>3, <3>5, <4>1, <4>3, LinkedFound
      <3> QED
        BY <3>4, <3>5
    <2> QED
      BY <2>3, <2>4
  <1>8. k < NDIRECT \/ k >= NINDIRECT \/ k \in NDIRECT..(NINDIRECT - 1)
    BY Numbers
  <1> QED
    BY <1>5, <1>6, <1>7, <1>8

\* file_get_block, which reads the block.
LEMMA GetBlockFound ==
    ASSUME NEW m, Good(m), Clean(m), NEW f \in FileIds, NoInd(m, f[1]), NEW k \in Nat,
           NEW x, x = file_get_block(m, f, k)
    PROVE  BlockFound(m, f, k, x)
  <1>1. PICK y : y = file_map_block(m, f, k, TRUE)
    OBVIOUS
  <1>2. BlockFound(m, f, k, y)
    BY <1>1, MapBlockFound
  <1>3. Returns(m, y) /\ (y.r = "ok" => y.b \in Data \ y.m.free)
    <2>1. PICK alloc \in BOOLEAN : alloc = TRUE
      OBVIOUS
    <2>2. y = file_map_block(m, f, k, alloc)
      BY <1>1, <2>1, Zenon
    <2> QED
      BY <2>2, FileMapBlock
  <1>4. x = IF y.r = "ok" THEN [y EXCEPT !.m = read_block(@, y.b)] ELSE y
    BY <1>1 DEF file_get_block, Then
  <1>5. x = y
    <2>1. y.r = "ok" => read_block(y.m, y.b) = y.m
      BY <1>3, ReadInUse
    <2> QED
      BY <1>3, <1>4, <2>1 DEF Returns, Results
  <1> QED
    BY <1>2, <1>5

\* The blocks of a directory that is not in a free block.
Steady(m, f) == f[1] \notin m.free /\ NoInd(m, f[1])
LEMMA DirBlockFound ==
    ASSUME NEW m, Good(m), Clean(m), NEW dir \in FileIds, Steady(m, dir), NEW k \in Nat,
           NEW x, x = file_get_block(m, dir, k)
    PROVE  /\ Evolves(m, x.m) /\ (x.r # "NO_DISK" => Clean(x.m)) /\ Steady(x.m, dir)
           /\ x.r = "ok" => NoInd(x.m, x.b)
  <1>1. BlockFound(m, dir, k, x)
    BY GetBlockFound DEF Steady
  <1>2. Returns(m, x) /\ (x.r = "ok" => x.b \in Data \ x.m.free)
    BY FileGetBlock
  <1>3. Good(x.m)
    BY <1>2, SoundFacts
  <1>4. Evolves(m, x.m)
    BY <1>1 DEF BlockFound, Steady
  <1>5. dir[1] \in Blocks
    BY DEF FileIds
  <1>6. Steady(x.m, dir)
    BY <1>4, <1>5 DEF Steady, Evolves
  <1>7. ASSUME x.r = "ok" PROVE NoInd(x.m, x.b)
    <2>1. HasPtr(x.m, dir, k) /\ Ptr(x.m, dir, k) = x.b /\ x.b # 0
      BY <1>1, <1>2, <1>7, Numbers DEF BlockFound, Steady
    <2> QED
      BY <1>3, <2>1, PtrNotInd
  <1> QED
    BY <1>1, <1>4, <1>6, <1>7 DEF BlockFound

\* *f = new, where the pointers of f stay and its size does not shrink.
LEMMA GentlePut ==
    ASSUME NEW m \in Caches, NEW f \in FileIds, NoInd(m, f[1]), NEW new \in FileType,
           File(m, f).size <= new.size, \A i \in 0..NDIRECT : PtrOf(new, i) = PtrOf(File(m, f), i),
           NEW n, n = Put(m, f, new)
    PROVE  /\ n \in Caches /\ n.free = m.free /\ Evolves(m, n) /\ (Clean(m) => Clean(n))
           /\ \A b : NoInd(m, b) => NoInd(n, b)
           /\ \A g \in FileIds : Covers(m, n, g)
           /\ n.blk[f[1]].kind = "dir" /\ \A a \in Blocks \ {f[1]} : n.blk[a] = m.blk[a]
           /\ File(n, f) = new
  <1>1. new.indirect = File(m, f).indirect
    <2>1. NDIRECT \in 0..NDIRECT
      BY Numbers
    <2> QED
      BY <2>1 DEF PtrOf
  <1>2. ASSUME NEW k \in 0..(NDIRECT - 1) PROVE new.direct[k] = File(m, f).direct[k]
    <2>1. k \in 0..NDIRECT /\ k # NDIRECT
      BY Numbers
    <2> QED
      BY <2>1 DEF PtrOf
  <1>3. Grows(File(m, f), new)
    BY <1>1, <1>2 DEF Grows
  <1>4. /\ n \in Caches /\ n.free = m.free
        /\ \A g \in FileIds : Covers(m, n, g)
        /\ \A g \in FileIds : Lost(m, g) => Lost(n, g)
        /\ \A b : NoInd(m, b) /\ new.indirect # b => NoInd(n, b)
        /\ Clean(m) => Clean(n)
    BY <1>1, <1>3, PutGrows
  <1>5. \A b : NoInd(m, b) => NoInd(n, b)
    BY <1>1, <1>4 DEF NoInd
  <1>6. Evolves(m, n)
    BY <1>4, <1>5 DEF Evolves
  <1> QED
    BY <1>4, <1>5, <1>6, PutBlk

\* What the routines that look for a file, called with m, do to files.
Looks(m, x) == /\ Evolves(m, x.m) /\ (x.r # "NO_DISK" => Clean(x.m))
               /\ x.r = "ok" => Steady(x.m, x.file)

\* One block of a search.
LEMMA ScanStepLooks ==
    ASSUME NEW m \in Caches, NEW y, Searches(m, y), Looks(m, y), NEW dir \in FileIds, Steady(y.m, dir),
           NEW n \in Nat, NEW name, NEW x, x = ScanStep(y, dir, n, name)
    PROVE  Looks(m, x) /\ Steady(x.m, dir)
  <1>1. Good(y.m) /\ y.m \in Caches
    BY SoundFacts DEF Searches
  <1>2. CASE y.r # "scan"
    BY <1>2 DEF ScanStep
  <1>3. CASE y.r = "scan"
    <2>1. PICK z : z = file_get_block(y.m, dir, n)
      OBVIOUS
    <2>2. Returns(y.m, z) /\ z.r # "scan" /\ (z.r = "ok" => z.b \in Data \ z.m.free) /\ z.m \in Caches
      BY <1>1, <2>1, FileGetBlock, SoundFacts
    <2>3. Evolves(y.m, z.m) /\ (z.r # "NO_DISK" => Clean(z.m)) /\ Steady(z.m, dir) /\ (z.r = "ok" => NoInd(z.m, z.b))
      BY <1>1, <1>3, <2>1, DirBlockFound DEF Looks
    <2>4. Evolves(m, z.m)
      BY <1>1, <2>2, <2>3, EvolvesTrans DEF Looks
    <2>5. x = IF z.r = "ok" THEN InBlock(z, name) ELSE z
      BY <1>3, <2>1 DEF ScanStep, Then
    <2>6. CASE z.r = "ok"
      <3>1. x.m = z.m /\ (x.r = "ok" => x.file[1] = z.b) /\ x.r \in {"ok", "scan"}
        BY <2>2, <2>5, <2>6, InBlockReturns
      <3> QED
        BY <2>2, <2>3, <2>4, <2>6, <3>1 DEF Looks, Steady
    <2>7. CASE z.r # "ok"
      BY <2>3, <2>4, <2>5, <2>7 DEF Looks
    <2> QED
      BY <2>6, <2>7
  <1> QED
    BY <1>2, <1>3

\* The search of a directory.
LEMMA ScanLooks ==
    ASSUME NEW m, Good(m), Clean(m), NEW dir \in FileIds, Steady(m, dir), NEW name, NEW x, x = Scan(m, dir, name)
    PROVE  Looks(m, x) /\ Steady(x.m, dir)
  <1> DEFINE S == { y \in Results : Searches(m, y) /\ Looks(m, y) /\ Steady(y.m, dir) }
  <1>1. PICK n : n = File(m, dir).size
    OBVIOUS
  <1>2. PICK g \in [0..n -> { y \in Results : Searches(m, y) }] :
              /\ g[0] = Err(m, "scan") /\ g[n] = x
              /\ \A i \in 1..n : g[i] = ScanStep(g[i - 1], dir, i - 1, name)
    BY <1>1, ScanRun
  <1>3. m \in Caches /\ n \in Nat /\ n \in 0..n
    BY <1>1, FileTyped, Numbers DEF Good
  <1>4. g[0] \in S
    <2>1. g[0].m = m /\ g[0].r = "scan"
      BY <1>2 DEF Err, Ok
    <2>2. g[0] \in Results /\ Searches(m, g[0])
      BY <1>2, <1>3
    <2> QED
      BY <1>3, <2>1, <2>2, SameBlk DEF Looks
  <1>5. ASSUME NEW i \in 1..n, g[i - 1] \in S PROVE g[i] \in S
    <2>1. PICK y, k : y = g[i - 1] /\ k = i - 1
      OBVIOUS
    <2>2. k \in Nat /\ i \in 0..n
      BY <1>3, <2>1
    <2>3. g[i] = ScanStep(y, dir, k, name)
      BY <1>2, <2>1
    <2>4. Looks(m, g[i]) /\ Steady(g[i].m, dir)
      BY <1>3, <1>5, <2>1, <2>2, <2>3, ScanStepLooks
    <2> QED
      BY <1>2, <2>2, <2>4
  <1> HIDE DEF S
  <1>6. x \in S
    BY <1>2, <1>3, <1>4, <1>5, LoopStays
  <1> QED
    BY <1>6 DEF S

\* dir_lookup notes the directory in the file that it finds.
LEMMA DirLookupLooks ==
    ASSUME NEW m, Good(m), Clean(m), NEW dir \in FileIds, Steady(m, dir), NEW name, NEW x, x = dir_lookup(m, dir, name)
    PROVE  Looks(m, x) /\ Steady(x.m, dir) /\ (x.r = "ok" => x.m.blk[x.file[1]].kind = "dir")
  <1>1. PICK y : y = Scan(m, dir, name)
    OBVIOUS
  <1>2. Searches(m, y) /\ Looks(m, y) /\ Steady(y.m, dir) /\ y \in Results /\ y.m \in Caches /\ m \in Caches
    BY <1>1, ScanReturns, ScanLooks, SoundFacts DEF Searches, Good
  <1>3. x = LookedUp(y, dir)
    BY <1>1 DEF dir_lookup
  <1>4. CASE y.r = "ok"
    <2>1. PICK f \in FileIds : f = y.file
      BY <1>2, <1>4, EntryIsFile DEF Searches
    <2>2. PICK old \in FileType : old = File(y.m, f)
      BY <1>2, FileTyped
    <2>3. PICK new : new = [old EXCEPT !.dir = dir]
      OBVIOUS
    <2>4. new \in FileType /\ new.size = old.size /\ \A i \in 0..NDIRECT : PtrOf(new, i) = PtrOf(old, i)
      BY <2>3, SamePtrs
    <2>5. old.size <= new.size
      <3>1. old.size \in Nat
        BY <1>2, <2>2, FileTyped, Numbers
      <3> QED
        BY <2>4, <3>1
    <2>6. PICK n : n = Put(y.m, f, new)
      OBVIOUS
    <2>7. NoInd(y.m, f[1]) /\ f[1] \notin y.m.free /\ Clean(y.m)
      BY <1>2, <1>4, <2>1 DEF Looks, Steady
    <2>8. /\ n \in Caches /\ n.free = y.m.free /\ Evolves(y.m, n) /\ Clean(n)
          /\ \A b : NoInd(y.m, b) => NoInd(n, b)
          /\ n.blk[f[1]].kind = "dir"
      BY <1>2, <2>2, <2>4, <2>5, <2>6, <2>7, GentlePut
    <2>9. x = [y EXCEPT !.m = n]
      <3>1. y.r # "scan"
        BY <1>4
      <3> QED
        BY <1>2, <1>3, <1>4, <2>1, <2>2, <2>3, <2>6, <3>1 DEF LookedUp, Results
    <2>10. x.m = n /\ x.r = "ok" /\ x.file = f
      <3>1. PICK p \in Caches : p = n
        BY <2>8
      <3>2. PICK w : w = [y EXCEPT !.m = p]
        OBVIOUS
      <3>3. w.m = p /\ w.r = "ok" /\ w.file = f
        BY <1>2, <1>4, <2>1, <3>2, WithCache
      <3>4. x = w
        BY <2>9, <3>1, <3>2
      <3> QED
        BY <3>1, <3>3, <3>4
    <2>11. Evolves(m, n)
      BY <1>2, <2>8, EvolvesTrans DEF Looks
    <2> QED
      BY <1>2, <2>7, <2>8, <2>10, <2>11 DEF Looks, Steady
  <1>5. CASE y.r = "scan"
    <2>1. x = [y EXCEPT !.r = "NOT_FOUND"]
      <3>1. y.r # "ok"
        BY <1>5
      <3> QED
        BY <1>3, <1>5, <3>1 DEF LookedUp
    <2>2. x.r = "NOT_FOUND" /\ x.m = y.m
      BY <1>2, <2>1 DEF Results, Codes
    <2> QED
      BY <1>2, <1>5, <2>2 DEF Looks
  <1>6. CASE y.r # "ok" /\ y.r # "scan"
    BY <1>2, <1>3, <1>6 DEF LookedUp
  <1> QED
    BY <1>4, <1>5, <1>6

\* The size of a file grows.
LEMMA GrownSize ==
    ASSUME NEW m, Good(m), NEW f \in FileIds, NoInd(m, f[1]), NEW s \in 0..(NINDIRECT + 1), File(m, f).size <= s,
           NEW n, n = SetSize(m, f, s)
    PROVE  /\ Good(n) /\ n.free = m.free /\ Evolves(m, n) /\ (Clean(m) => Clean(n))
           /\ \A b : NoInd(m, b) => NoInd(n, b)
           /\ \A g \in FileIds : Covers(m, n, g)
           /\ File(n, f).size = s
  <1>1. m \in Caches
    BY DEF Good
  <1>2. PICK old \in FileType : old = File(m, f)
    BY <1>1, FileTyped
  <1>3. PICK new : new = [old EXCEPT !.size = s]
    OBVIOUS
  <1>4. new \in FileType /\ new.size = s /\ \A i \in 0..NDIRECT : PtrOf(new, i) = PtrOf(old, i)
    BY <1>3, SamePtrs
  <1>5. PICK k : k = Put(m, f, new)
    OBVIOUS
  <1>6. k = n
    BY <1>2, <1>3, <1>5 DEF SetSize
  <1>7. /\ k.free = m.free /\ Evolves(m, k) /\ (Clean(m) => Clean(k))
        /\ \A b : NoInd(m, b) => NoInd(k, b)
        /\ \A g \in FileIds : Covers(m, k, g)
        /\ File(k, f) = new
    BY <1>1, <1>2, <1>4, <1>5, GentlePut
  <1>8. Good(k)
    BY <1>2, <1>4, <1>5, PutSamePtrs
  <1> QED
    BY <1>4, <1>6, <1>7, <1>8

\* The first file of a new block of a directory.
LEMMA NewSlotLooks ==
    ASSUME NEW m, Good(m), Clean(m), NEW dir \in FileIds, Steady(m, dir), NEW n \in 0..NINDIRECT,
           n = File(m, dir).size, NEW x, x = NewSlot(m, dir, n)
    PROVE  Looks(m, x)
  <1>1. m \in Caches /\ n \in Nat
    BY Numbers DEF Good
  <1>2. PICK s \in 0..(NINDIRECT + 1) : s = n + 1
    BY <1>1, Numbers
  <1>3. PICK k : k = SetSize(m, dir, s)
    OBVIOUS
  <1>4. n <= s
    BY <1>1, <1>2
  <1>5. /\ Good(k) /\ k.free = m.free /\ Evolves(m, k) /\ Clean(k)
        /\ \A b : NoInd(m, b) => NoInd(k, b)
    BY <1>3, <1>4, GrownSize DEF Steady
  <1>6. Steady(k, dir) /\ k \in Caches
    BY <1>5 DEF Steady, Good
  <1>7. PICK y : y = file_get_block(k, dir, n)
    OBVIOUS
  <1>8. Returns(k, y) /\ (y.r = "ok" => y.b \in Data \ y.m.free) /\ y.m \in Caches /\ y \in Results
    BY <1>1, <1>5, <1>7, FileGetBlock, SoundFacts
  <1>9. Evolves(k, y.m) /\ (y.r # "NO_DISK" => Clean(y.m)) /\ (y.r = "ok" => NoInd(y.m, y.b))
    BY <1>1, <1>5, <1>6, <1>7, DirBlockFound
  <1>10. Evolves(m, y.m)
    BY <1>1, <1>5, <1>6, <1>8, <1>9, EvolvesTrans
  <1>11. x = IF y.r = "ok" THEN [y EXCEPT !.file = <<y.b, 0>>] ELSE y
    BY <1>2, <1>3, <1>7 DEF NewSlot, Then
  <1>12. x.m = y.m /\ x.r = y.r /\ (y.r = "ok" => x.file[1] = y.b)
    BY <1>8, <1>11 DEF Results
  <1> QED
    BY <1>8, <1>9, <1>10, <1>12 DEF Looks, Steady

\* A free slot of a directory.
LEMMA DirAllocFileLooks ==
    ASSUME NEW m, Good(m), Clean(m), NEW dir \in FileIds, Steady(m, dir), NEW x, x = dir_alloc_file(m, dir)
    PROVE  Looks(m, x)
  <1>1. PICK y : y = Scan(m, dir, NoName)
    OBVIOUS
  <1>2. m \in Caches /\ Searches(m, y) /\ (y.r = "scan" => File(m, dir).size <= NINDIRECT)
    BY <1>1, ScanReturns DEF Good
  <1>3. Good(y.m) /\ y.m \in Caches /\ NoGrowth(m, y.m) /\ Looks(m, y) /\ Steady(y.m, dir)
    BY <1>1, <1>2, ScanLooks, SoundFacts DEF Searches, Returns
  <1>4. x = IF y.r = "scan" THEN NewSlot(y.m, dir, File(y.m, dir).size) ELSE y
    BY <1>1 DEF dir_alloc_file, SlotFor
  <1>5. CASE y.r = "scan"
    <2>1. PICK n : n = File(y.m, dir).size
      OBVIOUS
    <2>2. n \in 0..NINDIRECT
      <3>1. n \in Nat /\ File(m, dir).size \in Nat
        BY <1>2, <1>3, <2>1, FileTyped, Numbers
      <3>2. n <= File(m, dir).size
        BY <1>3, <2>1 DEF NoGrowth
      <3> QED
        BY <1>2, <1>5, <3>1, <3>2, Numbers
    <2>3. Clean(y.m)
      BY <1>3, <1>5 DEF Looks
    <2>4. Looks(y.m, x)
      BY <1>3, <1>4, <1>5, <2>1, <2>2, <2>3, NewSlotLooks
    <2>5. Finds(x)
      BY <1>3, <1>4, <1>5, <2>1, <2>2, NewSlotFinds
    <2>6. x.m \in Caches
      BY <2>5, SoundFacts DEF Finds
    <2> QED
      BY <1>2, <1>3, <2>4, <2>6, EvolvesTrans DEF Looks
  <1>6. CASE y.r # "scan"
    BY <1>3, <1>4, <1>6
  <1> QED
    BY <1>5, <1>6

\* What walk_path does to files: the file, and the directory in which it could
\* be created, are not in a block that is free or an indirect block.
Leads(m, x) == /\ Looks(m, x)
               /\ x.r = "NOT_FOUND" /\ x.dir # Null => Steady(x.m, x.dir)

\* One name of a path.
LEMMA WalkStepLeads ==
    ASSUME NEW m \in Caches, NEW y, Walks(y), Leads(m, y), NEW name, NEW x, x = WalkStep(y, name)
    PROVE  Leads(m, x) /\ (x.r = "ok" => x.m.blk[x.file[1]].kind = "dir")
  <1>1. y \in Results /\ Good(y.m) /\ y.m \in Caches /\ Looks(m, y)
    BY SoundFacts DEF Walks, Leads
  <1>2. CASE y.r # "ok"
    <2>1. x = [y EXCEPT !.dir = Null]
      BY <1>2 DEF WalkStep
    <2>2. x.m = y.m /\ x.r = y.r /\ x.dir = Null
      BY <1>1, <2>1 DEF Results
    <2> QED
      BY <1>1, <1>2, <2>2 DEF Looks, Leads
  <1>3. CASE y.r = "ok" /\ ~File(y.m, y.file).isdir
    <2>1. x = Err(y.m, "NOT_FOUND")
      BY <1>3 DEF WalkStep
    <2>2. x.m = y.m /\ x.r = "NOT_FOUND" /\ x.dir = Null
      BY <2>1 DEF Err, Ok
    <2> QED
      BY <1>1, <1>3, <2>2 DEF Looks, Leads
  <1>4. CASE y.r = "ok" /\ File(y.m, y.file).isdir
    <2>1. PICK z : z = dir_lookup(y.m, y.file, name)
      OBVIOUS
    <2>2. y.file \in FileIds /\ Steady(y.m, y.file) /\ Clean(y.m)
      BY <1>1, <1>4 DEF Walks, Looks
    <2>3. Looks(y.m, z) /\ Steady(z.m, y.file) /\ (z.r = "ok" => z.m.blk[z.file[1]].kind = "dir")
      BY <1>1, <2>1, <2>2, DirLookupLooks
    <2>4. z \in Results /\ z.m \in Caches
      BY <1>1, <2>1, <2>2, DirLookupReturns, SoundFacts DEF Searches
    <2>5. PICK d : d = IF z.r \in {"ok", "NOT_FOUND"} THEN y.file ELSE Null
      OBVIOUS
    <2>6. x = [z EXCEPT !.dir = d]
      BY <1>4, <2>1, <2>5 DEF WalkStep, InDir
    <2>7. x.m = z.m /\ x.r = z.r /\ x.file = z.file /\ x.dir = d
      BY <2>4, <2>6 DEF Results
    <2>8. Evolves(m, z.m)
      BY <1>1, <2>3, <2>4, EvolvesTrans DEF Looks
    <2> QED
      BY <2>3, <2>5, <2>7, <2>8 DEF Looks, Leads
  <1> QED
    BY <1>2, <1>3, <1>4

\* The root is in the super block, which is never free and no indirect block.
LEMMA RootSteady == ASSUME NEW m \in Caches PROVE Steady(m, Root)
  <1>1. Super \notin m.free
    BY CacheFields DEF Super, Data
  <1>2. NoInd(m, Super)
    <2>1. Super \notin Ptrs
      BY DEF Super, Ptrs, Data
    <2> QED
      BY <2>1, FileTyped DEF NoInd
  <1> QED
    BY <1>1, <1>2 DEF Steady, Root

\* A path from the root.
LEMMA WalkPathLeads ==
    ASSUME NEW m, Good(m), Clean(m), NEW path \in Paths, NEW x, x = walk_path(m, path)
    PROVE  Leads(m, x) /\ (x.r = "ok" => x.m.blk[x.file[1]].kind = "dir")
  <1> DEFINE S == { y \in Results : Walks(y) /\ Leads(m, y) }
  <1>1. PICK n : n = Len(path)
    OBVIOUS
  <1>2. PICK g \in [0..n -> { y \in Results : Walks(y) }] :
              /\ g[0] = [Ok(m) EXCEPT !.file = Root] /\ g[n] = x
              /\ \A i \in 1..n : g[i] = WalkStep(g[i - 1], path[i])
    BY <1>1, WalkRun
  <1>3. m \in Caches /\ n \in Nat /\ n \in 1..n /\ n - 1 \in 0..n /\ 0 \in 0..n
    BY <1>1, FsAssumption DEF Good
  <1>4. g[0] \in S
    <2>1. g[0].m = m /\ g[0].r = "ok" /\ g[0].file = Root
      BY <1>2 DEF Ok
    <2>2. g[0] \in Results /\ Walks(g[0])
      BY <1>2, <1>3
    <2> QED
      BY <1>3, <2>1, <2>2, SameBlk, RootSteady DEF Looks, Leads
  <1>5. ASSUME NEW i \in 1..n, g[i - 1] \in S PROVE g[i] \in S
    <2>1. PICK y : y = g[i - 1]
      OBVIOUS
    <2>2. i \in 0..n /\ g[i] = WalkStep(y, path[i])
      BY <1>2, <1>3, <2>1
    <2>3. Leads(m, g[i])
      BY <1>3, <1>5, <2>1, <2>2, WalkStepLeads
    <2> QED
      BY <1>2, <2>2, <2>3
  <1> HIDE DEF S
  <1>6. g[n - 1] \in S
    BY <1>3, <1>4, <1>5, LoopStays
  <1>7. x = WalkStep(g[n - 1], path[n])
    BY <1>2, <1>3
  <1> QED
    BY <1>3, <1>6, <1>7, WalkStepLeads DEF S

\* What file_create and the search after it do to files.
Makes(m, x) == /\ Evolves(m, x.m) /\ (x.r \in {"ok", "FILE_EXISTS"} => Clean(x.m))
               /\ x.r = "ok" => Steady(x.m, x.file)

\* A new file gets the last name of the path.
LEMMA FileCreateMakes ==
    ASSUME NEW m, Good(m), Clean(m), NEW path \in Paths, NEW x, x = file_create(m, path)
    PROVE  Makes(m, x)
  <1>1. PICK y : y = walk_path(m, path)
    OBVIOUS
  <1>2. Finds(y) /\ Leads(m, y) /\ m \in Caches
    BY <1>1, WalkPathFinds, WalkPathLeads DEF Good
  <1>3. y \in Results /\ Good(y.m) /\ y.m \in Caches
    BY <1>2, SoundFacts DEF Finds
  <1>4. PICK name : name = path[Len(path)]
    OBVIOUS
  <1>5. name \in Names
    <2>1. path \in Seq(Names) /\ path # <<>>
      BY FsAssumption
    <2> QED
      BY <1>4, <2>1
  <1>6. x = CreateAt(y, name)
    BY <1>1, <1>4 DEF file_create
  <1>7. CASE y.r = "ok"
    <2>1. x = [y EXCEPT !.r = "FILE_EXISTS"]
      BY <1>6, <1>7 DEF CreateAt
    <2>2. x.m = y.m /\ x.r = "FILE_EXISTS"
      BY <1>3, <2>1 DEF Results, Codes
    <2> QED
      BY <1>2, <1>7, <2>2 DEF Makes, Leads, Looks
  <1>8. CASE y.r # "ok" /\ (y.r # "NOT_FOUND" \/ y.dir = Null)
    <2>1. x = y
      BY <1>6, <1>8 DEF CreateAt
    <2> QED
      BY <1>2, <1>8, <2>1 DEF Makes, Leads, Looks
  <1>9. CASE y.r = "NOT_FOUND" /\ y.dir # Null
    <2>1. PICK z : z = dir_alloc_file(y.m, y.dir)
      OBVIOUS
    <2>2. y.dir \in FileIds /\ Steady(y.m, y.dir) /\ Clean(y.m)
      BY <1>2, <1>3, <1>9, ResultFields DEF Leads, Looks
    <2>3. Finds(z) /\ Looks(y.m, z)
      BY <1>3, <2>1, <2>2, DirAllocFileFinds, DirAllocFileLooks
    <2>4. z \in Results /\ Good(z.m) /\ z.m \in Caches
      BY <2>3, SoundFacts DEF Finds
    <2>5. Evolves(m, z.m)
      BY <1>2, <1>3, <2>3, <2>4, EvolvesTrans DEF Leads, Looks
    <2>6. x = Named(z, name)
      <3>1. y.r # "ok"
        BY <1>9
      <3> QED
        BY <1>6, <1>9, <2>1, <3>1 DEF CreateAt
    <2>7. CASE z.r # "ok"
      <3>1. x = [z EXCEPT !.r = "NOT_FOUND"]
        BY <2>6, <2>7 DEF Named
      <3>2. x.m = z.m /\ x.r = "NOT_FOUND"
        BY <2>4, <3>1 DEF Results, Codes
      <3> QED
        BY <2>5, <3>2 DEF Makes
    <2>8. CASE z.r = "ok"
      <3>1. PICK f \in FileIds : f = z.file
        BY <2>3, <2>8, EntryIsFile DEF Finds
      <3>2. PICK old \in FileType : old = File(z.m, f)
        BY <2>4, <3>1, FileTyped
      <3>3. PICK new : new = [old EXCEPT !.name = name]
        OBVIOUS
      <3>4. new \in FileType /\ \A i \in 0..NDIRECT : PtrOf(new, i) = PtrOf(old, i)
        BY <1>5, <3>3, SamePtrs
      <3>5. old.size <= new.size
        <4>1. old.size \in Nat
          BY <2>4, <3>1, <3>2, FileTyped, Numbers
        <4>2. new.size = old.size
          BY <3>2, <3>3 DEF FileType
        <4> QED
          BY <4>1, <4>2
      <3>6. PICK n : n = Put(z.m, f, new)
        OBVIOUS
      <3>7. Steady(z.m, f) /\ Clean(z.m)
        BY <2>3, <2>8, <3>1 DEF Looks
      <3>8. /\ n \in Caches /\ n.free = z.m.free /\ Evolves(z.m, n) /\ Clean(n)
            /\ \A b : NoInd(z.m, b) => NoInd(n, b)
        BY <2>4, <3>2, <3>4, <3>5, <3>6, <3>7, GentlePut DEF Steady
      <3>9. x.m = n /\ x.r = "ok" /\ x.file = f
        <4>1. x = [z EXCEPT !.m = n]
          BY <2>4, <2>6, <2>8, <3>1, <3>2, <3>3, <3>6 DEF Named, Results
        <4>2. PICK p \in Caches : p = n
          BY <3>8
        <4>3. PICK w : w = [z EXCEPT !.m = p]
          OBVIOUS
        <4>4. w.m = p /\ w.r = "ok" /\ w.file = f
          BY <2>4, <2>8, <3>1, <4>3, WithCache
        <4>5. x = w
          BY <4>1, <4>2, <4>3
        <4> QED
          BY <4>2, <4>4, <4>5
      <3>10. Evolves(m, n)
        BY <1>2, <2>4, <2>5, <3>8, EvolvesTrans
      <3> QED
        BY <3>7, <3>8, <3>9, <3>10 DEF Makes, Steady
    <2> QED
      BY <2>7, <2>8
  <1> QED
    BY <1>7, <1>8, <1>9

\* serve_open: the file is created if asked, and found.
LEMMA OpeningMakes ==
    ASSUME NEW m, Good(m), Clean(m), NEW path \in Paths, NEW c \in BOOLEAN,
           NEW x, x = Opening(IF c THEN file_create(m, path) ELSE Ok(m), path)
    PROVE  Makes(m, x) /\ (x.r = "ok" => x.m.blk[x.file[1]].kind = "dir")
  <1>1. m \in Caches
    BY DEF Good
  <1>2. PICK y : y = IF c THEN file_create(m, path) ELSE Ok(m)
    OBVIOUS
  <1>3. Good(y.m) /\ y.m \in Caches /\ Evolves(m, y.m) /\ (y.r \in {"ok", "FILE_EXISTS"} => Clean(y.m))
    <2>1. CASE c
      BY <1>2, <2>1, FileCreateFinds, FileCreateMakes, SoundFacts DEF Finds, Makes
    <2>2. CASE ~c
      <3>1. y.m = m
        BY <1>2, <2>2 DEF Ok
      <3> QED
        BY <1>1, <3>1, SameBlk
    <2> QED
      BY <2>1, <2>2
  <1>4. x = Opening(y, path)
    BY <1>2
  <1>5. CASE y.r \in {"ok", "FILE_EXISTS"}
    <2>1. x = walk_path(y.m, path)
      BY <1>4, <1>5 DEF Opening
    <2>2. Leads(y.m, x) /\ (x.r = "ok" => x.m.blk[x.file[1]].kind = "dir") /\ x.m \in Caches
      BY <1>3, <1>5, <2>1, WalkPathLeads, WalkPathFinds, SoundFacts DEF Finds
    <2>3. Evolves(m, x.m)
      BY <1>1, <1>3, <2>2, EvolvesTrans DEF Leads, Looks
    <2>4. x.r \in {"ok", "FILE_EXISTS"} => x.r # "NO_DISK"
      OBVIOUS
    <2> QED
      BY <2>2, <2>3, <2>4 DEF Makes, Leads, Looks
  <1>6. CASE y.r \notin {"ok", "FILE_EXISTS"}
    <2>1. x = y
      BY <1>4, <1>6 DEF Opening
    <2> QED
      BY <1>3, <1>6, <2>1 DEF Makes
  <1> QED
    BY <1>5, <1>6

\* What cutting f to `new' blocks leaves of files: all of the others, and of f
\* what is below `new'.
Cut(m, n, f, new) ==
    /\ Clean(n) /\ NoInd(n, f[1])
    /\ \A g \in FileIds \ {f} : Covers(m, n, g)
    /\ \A a \in Blocks \ {f[1]} : m.blk[a].kind # "dir" => n.blk[a].kind # "dir"
    /\ new <= File(n, f).size
    /\ \A k \in 0..(NINDIRECT - 1) : k < new /\ HasPtr(m, f, k) /\ Ptr(m, f, k) # 0
                                       => HasPtr(n, f, k) /\ Ptr(n, f, k) = Ptr(m, f, k)

\* Where the contents stay, nothing is cut.
LEMMA SameCut ==
    ASSUME NEW m \in Caches, Clean(m), NEW f \in FileIds, NoInd(m, f[1]), NEW new \in Nat, new <= File(m, f).size,
           NEW n \in Caches, n.blk = m.blk
    PROVE  Cut(m, n, f, new)
  <1>1. Clean(n) /\ NoInd(n, f[1]) /\ (\A g \in FileIds : Covers(m, n, g)) /\ File(n, f) = File(m, f)
    BY SameBlk, SameContents
  <1>2. \A k \in 0..(NINDIRECT - 1) : HasPtr(m, f, k) /\ Ptr(m, f, k) # 0
                                        => HasPtr(n, f, k) /\ Ptr(n, f, k) = Ptr(m, f, k)
    BY <1>1 DEF Covers
  <1> QED
    BY <1>1, <1>2 DEF Cut

\* Two cuts one after the other.
LEMMA CutTrans ==
    ASSUME NEW l \in Caches, NEW m \in Caches, NEW n \in Caches, NEW f \in FileIds, NEW new \in Nat,
           Cut(l, m, f, new), Cut(m, n, f, new)
    PROVE  Cut(l, n, f, new)
  <1>1. \A g \in FileIds \ {f} : Covers(l, n, g)
    BY CoversTrans DEF Cut
  <1>2. \A k \in 0..(NINDIRECT - 1) : k < new /\ HasPtr(l, f, k) /\ Ptr(l, f, k) # 0
                                        => HasPtr(n, f, k) /\ Ptr(n, f, k) = Ptr(l, f, k)
    BY DEF Cut
  <1> QED
    BY <1>1, <1>2 DEF Cut

\* *f = file, where the pointers of f below `new' stay.
LEMMA PutCuts ==
    ASSUME NEW m \in Caches, Clean(m), NEW f \in FileIds, NoInd(m, f[1]), NEW new \in Nat, NEW file \in FileType,
           new <= file.size, file.indirect \in {0, File(m, f).indirect},
           new > NDIRECT => file.indirect = File(m, f).indirect,
           \A k \in 0..(NDIRECT - 1) : k < new => file.direct[k] = File(m, f).direct[k],
           NEW n, n = Put(m, f, file)
    PROVE  Cut(m, n, f, new)
  <1>1. /\ n \in Caches
        /\ n.blk[f[1]].kind = "dir" /\ \A a \in Blocks \ {f[1]} : n.blk[a] = m.blk[a]
        /\ File(n, f) = file /\ \A g \in FileIds \ {f} : File(n, g) = File(m, g)
    BY PutBlk
  <1>2. ASSUME NEW g \in FileIds, File(m, g).indirect # 0
        PROVE  n.blk[File(m, g).indirect] = m.blk[File(m, g).indirect]
    <2>1. File(m, g).indirect \in Blocks \ {f[1]}
      BY <1>2, FileTyped, Numbers DEF NoInd, Ptrs
    <2> QED
      BY <1>1, <2>1
  <1>3. ASSUME NEW g \in FileIds PROVE File(n, g).indirect \in {0, File(m, g).indirect}
    BY <1>1
  <1>4. NoInd(n, f[1])
    <2>1. f[1] # 0
      BY FileTyped, Numbers
    <2> QED
      BY <1>3, <2>1 DEF NoInd
  <1>5. Clean(n)
    BY <1>2, <1>3 DEF Clean
  <1>6. ASSUME NEW g \in FileIds, NEW k \in 0..(NINDIRECT - 1), HasPtr(m, g, k), Ptr(m, g, k) # 0,
               File(n, g).indirect = File(m, g).indirect \/ k < NDIRECT,
               k < NDIRECT => File(n, g).direct[k] = File(m, g).direct[k]
        PROVE  HasPtr(n, g, k) /\ Ptr(n, g, k) = Ptr(m, g, k)
    <2>1. CASE k < NDIRECT
      BY <1>6, <2>1 DEF HasPtr, Ptr
    <2>2. CASE ~(k < NDIRECT)
      <3>1. File(m, g).indirect # 0
        BY <1>6, <2>2 DEF HasPtr
      <3> QED
        BY <1>2, <1>6, <2>2, <3>1 DEF HasPtr, Ptr
    <2> QED
      BY <2>1, <2>2
  <1>7. ASSUME NEW g \in FileIds \ {f} PROVE Covers(m, n, g)
    <2>1. File(m, g).size \in Nat /\ File(n, g) = File(m, g)
      BY <1>1, FileTyped, Numbers
    <2> QED
      BY <1>6, <2>1 DEF Covers
  <1>8. ASSUME NEW k \in 0..(NINDIRECT - 1), k < new, HasPtr(m, f, k), Ptr(m, f, k) # 0
        PROVE  HasPtr(n, f, k) /\ Ptr(n, f, k) = Ptr(m, f, k)
    <2>1. File(n, f).indirect = File(m, f).indirect \/ k < NDIRECT
      BY <1>1, <1>8, Numbers
    <2>2. k < NDIRECT => k \in 0..(NDIRECT - 1)
      BY Numbers
    <2> QED
      BY <1>1, <1>6, <1>8, <2>1, <2>2
  <1> QED
    BY <1>1, <1>4, <1>5, <1>7, <1>8 DEF Cut

\* Two files never have the same indirect block.
LEMMA SameIndirect ==
    ASSUME NEW m, OneOwner(m), NEW f \in FileIds, NEW g \in FileIds,
           File(m, f).indirect # 0, File(m, g).indirect = File(m, f).indirect
    PROVE  g = f
  <1>1. f[1] \in Blocks /\ f[2] \in Slots /\ g[1] \in Blocks /\ g[2] \in Slots
        /\ f[2] # Indirect /\ g[2] # Indirect /\ f = <<f[1], f[2]>> /\ g = <<g[1], g[2]>>
    BY Numbers DEF FileIds
  <1>2. PICK p, q : p = <<f[1], f[2], NDIRECT>> /\ q = <<g[1], g[2], NDIRECT>>
    OBVIOUS
  <1>3. /\ p \in Places /\ p[1] = f[1] /\ p[2] = f[2] /\ p[3] = NDIRECT
        /\ q \in Places /\ q[1] = g[1] /\ q[2] = g[2] /\ q[3] = NDIRECT
    BY <1>1, <1>2, Numbers DEF Places
  <1>4. At(m, p) = File(m, f).indirect /\ At(m, q) = File(m, g).indirect
    BY <1>1, <1>3 DEF At, PtrOf, File
  <1>5. p = q
    BY <1>3, <1>4 DEF OneOwner
  <1> QED
    BY <1>1, <1>3, <1>5

\* A pointer in the indirect block of f is cleared.
LEMMA ClearIndCuts ==
    ASSUME NEW m \in Caches, OneOwner(m), Clean(m), NEW f \in FileIds, NoInd(m, f[1]),
            NEW new \in Nat, new <= File(m, f).size,
           NEW k \in NDIRECT..(NINDIRECT - 1), new <= k, File(m, f).indirect # 0, NEW n, n = SetPtr(m, f, k, 0)
    PROVE  Cut(m, n, f, new)
  <1>1. PICK b : b = File(m, f).indirect
    OBVIOUS
  <1>2. 0 \in Ptrs
    BY Numbers
  <1>3. /\ b \in Blocks /\ n \in Caches /\ n.blk[b].kind \in {"ind", "zero"}
        /\ \A a \in Blocks \ {b} : n.blk[a] = m.blk[a]
        /\ \A i \in (0..(NINDIRECT - 1)) \ {k} : AsInd(n.blk[b])[i] = AsInd(m.blk[b])[i]
        /\ \A g \in FileIds : IF g[1] = b THEN File(n, g) = EmptyFile ELSE File(n, g) = File(m, g)
    <2>1. PICK v \in Ptrs : v = 0
      BY <1>2
    <2>2. n = SetPtr(m, f, k, v)
      BY <2>1
    <2> QED
      BY <1>1, <1>2, <2>2, SetInd
  <1>4. m.blk[b].kind \in {"ind", "zero"}
    BY <1>1 DEF Clean
  <1>5. ASSUME NEW g \in FileIds PROVE File(n, g) = File(m, g)
    <2>1. CASE g[1] = b
      <3>1. g[2] \in Slots
        BY DEF FileIds
      <3>2. AsDir(m.blk[b]) = [j \in Slots |-> EmptyFile]
        BY <1>4 DEF AsDir
      <3>3. File(m, g) = EmptyFile
        BY <2>1, <3>1, <3>2 DEF File
      <3> QED
        BY <1>3, <2>1, <3>3
    <2>2. CASE g[1] # b
      BY <1>3, <2>2
    <2> QED
      BY <2>1, <2>2
  <1>6. k \in 0..(NINDIRECT - 1) /\ k \in Nat
    BY Numbers
  <1>7. ASSUME NEW g \in FileIds, NEW i \in 0..(NINDIRECT - 1), g # f \/ i # k, HasPtr(m, g, i), Ptr(m, g, i) # 0
        PROVE  HasPtr(n, g, i) /\ Ptr(n, g, i) = Ptr(m, g, i)
    <2>1. HasPtr(n, g, i)
      BY <1>5, <1>7 DEF HasPtr
    <2>2. CASE i < NDIRECT
      BY <1>5, <2>1, <2>2 DEF Ptr
    <2>3. CASE ~(i < NDIRECT) /\ File(m, g).indirect = b
      <3>1. g = f
        BY <1>1, <2>3, SameIndirect
      <3>2. AsInd(n.blk[b])[i] = AsInd(m.blk[b])[i]
        BY <1>3, <1>7, <3>1
      <3> QED
        BY <1>5, <2>1, <2>3, <3>2 DEF Ptr
    <2>4. CASE ~(i < NDIRECT) /\ File(m, g).indirect # b
      <3>1. File(m, g).indirect \in Ptrs /\ File(m, g).indirect # 0
        BY <1>2, <1>7, <2>4, FileTyped DEF HasPtr
      <3>2. File(m, g).indirect \in Blocks \ {b}
        BY <2>4, <3>1, Numbers DEF Ptrs
      <3>3. n.blk[File(m, g).indirect] = m.blk[File(m, g).indirect]
        BY <1>3, <3>2
      <3> QED
        BY <1>5, <2>1, <2>4, <3>3 DEF Ptr
    <2> QED
      BY <2>2, <2>3, <2>4
  <1>8. ASSUME NEW g \in FileIds \ {f} PROVE Covers(m, n, g)
    <2>1. File(m, g).size \in Nat /\ File(n, g) = File(m, g)
      BY <1>2, <1>5, FileTyped, Numbers
    <2> QED
      BY <1>7, <2>1 DEF Covers
  <1>9. ASSUME NEW i \in 0..(NINDIRECT - 1), i < new, HasPtr(m, f, i), Ptr(m, f, i) # 0
        PROVE  HasPtr(n, f, i) /\ Ptr(n, f, i) = Ptr(m, f, i)
    <2>1. i # k
      BY <1>6, <1>9
    <2> QED
      BY <1>7, <1>9, <2>1
  <1>10. Clean(n)
    <2> SUFFICES ASSUME NEW g \in FileIds, File(n, g).indirect # 0
                 PROVE  n.blk[File(n, g).indirect].kind \in {"ind", "zero"}
      BY DEF Clean
    <2>1. File(m, g).indirect = File(n, g).indirect /\ File(m, g).indirect \in Ptrs
      BY <1>2, <1>5, FileTyped
    <2>2. File(m, g).indirect \in Blocks
      BY <2>1, Numbers DEF Ptrs
    <2> QED
      BY <1>3, <2>1, <2>2 DEF Clean
  <1>11. NoInd(n, f[1])
    BY <1>5 DEF NoInd
  <1>12. \A a \in Blocks : m.blk[a].kind # "dir" => n.blk[a].kind # "dir"
    BY <1>3
  <1> QED
    BY <1>5, <1>8, <1>9, <1>10, <1>11, <1>12 DEF Cut

\* A pointer of f is cleared.
LEMMA ClearPtrCuts ==
    ASSUME NEW m \in Caches, OneOwner(m), Clean(m), NEW f \in FileIds, NoInd(m, f[1]), NEW new \in Nat,
           new <= File(m, f).size, NEW k, HasPtr(m, f, k), new <= k, NEW n, n = SetPtr(m, f, k, 0)
    PROVE  Cut(m, n, f, new)
  <1>1. k \in 0..(NINDIRECT - 1) /\ k \in Nat
    BY Numbers DEF HasPtr
  <1>2. CASE k < NDIRECT
    <2>1. PICK old \in FileType : old = File(m, f)
      BY FileTyped
    <2>2. PICK file : file = [old EXCEPT !.direct[k] = 0]
      OBVIOUS
    <2>3. k \in 0..(NDIRECT - 1)
      BY <1>1, <1>2, Numbers
    <2>4. /\ file \in FileType /\ file.size = old.size /\ file.indirect = old.indirect
          /\ \A i \in 0..(NDIRECT - 1) : i # k => file.direct[i] = old.direct[i]
      BY <2>2, <2>3 DEF FileType
    <2>5. n = Put(m, f, file)
      BY <1>2, <2>1, <2>2 DEF SetPtr
    <2>6. \A i \in 0..(NDIRECT - 1) : i < new => file.direct[i] = old.direct[i]
      BY <1>1, <2>4, Numbers
    <2> QED
      BY <2>1, <2>4, <2>5, <2>6, PutCuts
  <1>3. CASE ~(k < NDIRECT)
    <2>1. k \in NDIRECT..(NINDIRECT - 1) /\ File(m, f).indirect # 0
      BY <1>1, <1>3, Numbers DEF HasPtr
    <2> QED
      BY <2>1, ClearIndCuts
  <1> QED
    BY <1>2, <1>3

\* file_clear_block.
LEMMA ClearBlockCuts ==
    ASSUME NEW m, Good(m), Clean(m), NEW f \in FileIds, NoInd(m, f[1]), NEW new \in Nat, new <= File(m, f).size,
           NEW k \in Nat, new <= k, NEW x, x = file_clear_block(m, f, k)
    PROVE  Cut(m, x.m, f, new)
  <1>1. PICK y : y = file_block_walk(m, f, k, FALSE)
    OBVIOUS
  <1>2. Returns(m, y) /\ (y.r = "ok" => HasPtr(y.m, f, k)) /\ y.m = m
    <2>1. PICK alloc \in BOOLEAN : alloc = FALSE
      OBVIOUS
    <2>2. y = file_block_walk(m, f, k, alloc) /\ ~alloc
      BY <1>1, <2>1, Zenon
    <2> QED
      BY <2>2, FileBlockWalk
  <1>3. y \in Results /\ m \in Caches
    BY <1>2 DEF Returns, Good
  <1>4. x = IF y.r = "ok"
            THEN IF Ptr(y.m, f, k) = 0 THEN y ELSE [y EXCEPT !.m = SetPtr(free_block(@, Ptr(@, f, k)), f, k, 0)]
            ELSE y
    BY <1>1 DEF file_clear_block, Then
  <1>5. CASE y.r # "ok" \/ Ptr(m, f, k) = 0
    <2>1. x.m = m
      BY <1>2, <1>4, <1>5
    <2> QED
      BY <1>3, <2>1, SameCut
  <1>6. CASE y.r = "ok" /\ Ptr(m, f, k) # 0
    <2>1. PICK b : b = Ptr(m, f, k)
      OBVIOUS
    <2>2. HasPtr(m, f, k) /\ b \in Data
      BY <1>2, <1>6, <2>1, PtrInUse DEF Ptrs
    <2>3. PICK j : j = free_block(m, b)
      OBVIOUS
    <2>4. j \in Caches /\ j.blk = m.blk
      BY <1>3, <2>2, <2>3, FreeBlockFields
    <2>5. HasPtr(j, f, k) /\ OneOwner(j) /\ Clean(j) /\ NoInd(j, f[1]) /\ new <= File(j, f).size
      <3>1. OneOwner(m)
        BY DEF Good, Owned
      <3>2. \A p : At(j, p) = At(m, p)
        BY <2>4, SameContents
      <3>3. OneOwner(j)
        BY <3>1, <3>2 DEF OneOwner
      <3> QED
        BY <1>3, <2>2, <2>4, <3>3, SameContents, SameBlk DEF HasPtr
    <2>6. PICK n : n = SetPtr(j, f, k, 0)
      OBVIOUS
    <2>7. n \in Caches
      BY <2>4, <2>5, <2>6, SetPtrPlace, Numbers DEF Retyped
    <2>8. Cut(j, n, f, new)
      BY <2>4, <2>5, <2>6, ClearPtrCuts
    <2>9. Cut(m, n, f, new)
      BY <1>3, <2>4, <2>7, <2>8, SameCut, CutTrans
    <2>10. x.m = n
      BY <1>2, <1>3, <1>4, <1>6, <2>1, <2>3, <2>6 DEF Results
    <2> QED
      BY <2>9, <2>10
  <1> QED
    BY <1>5, <1>6

\* One block of a truncation.
LEMMA ClearStepCuts ==
    ASSUME NEW m, Good(m), Clean(m), NEW f \in FileIds, NoInd(m, f[1]), NEW new \in Nat, new <= File(m, f).size,
           NEW k \in Nat, new <= k, NEW n, n = ClearStep(m, f, k)
    PROVE  Cut(m, n, f, new)
  <1>1. m \in Caches
    BY DEF Good
  <1>2. PICK x : x = file_clear_block(m, f, k)
    OBVIOUS
  <1>3. Cut(m, x.m, f, new) /\ Good(x.m) /\ x.m \in Caches
    BY <1>2, ClearBlockCuts, FileClearBlockSound, SoundFacts
  <1>4. PICK y : y = [x.m EXCEPT !.panic = "truncate"]
    OBVIOUS
  <1>5. y \in Caches /\ y.blk = x.m.blk
    BY <1>3, <1>4, OtherFields DEF Good, Caches
  <1>6. Cut(x.m, y, f, new)
    BY <1>3, <1>5, SameCut DEF Cut
  <1>7. Cut(m, y, f, new)
    BY <1>1, <1>3, <1>5, <1>6, CutTrans
  <1>8. n \in {m, x.m, y}
    BY <1>2, <1>4 DEF ClearStep, Cleared
  <1> QED
    BY <1>1, <1>3, <1>7, <1>8, SameCut

\* The blocks from the new size on are freed one by one.
LEMMA ClearFromCuts ==
    ASSUME NEW m, Good(m), Clean(m), NEW f \in FileIds, NoInd(m, f[1]), NEW new \in Nat, new <= File(m, f).size,
           NEW l, l = ClearFrom(m, f, new)
    PROVE  Cut(m, l, f, new)
  <1> DEFINE S == { k \in Caches : Good(k) /\ Cut(m, k, f, new) }
  <1>1. PICK n : n = File(m, f).size - new
    OBVIOUS
  <1>2. PICK g \in [0..n -> { k \in Caches : Good(k) }] :
              /\ g[0] = m /\ g[n] = ClearFrom(m, f, new)
              /\ \A i \in 1..n : g[i] = ClearStep(g[i - 1], f, new + i - 1)
    BY <1>1, ClearRun
  <1>3. m \in Caches /\ n \in Nat /\ n \in 0..n
    BY <1>1, FileTyped, Numbers DEF Good
  <1>4. g[0] \in S
    BY <1>2, <1>3, SameCut
  <1>5. ASSUME NEW i \in 1..n, g[i - 1] \in S PROVE g[i] \in S
    <2>1. PICK k, a : k = new + i - 1 /\ a = g[i - 1]
      OBVIOUS
    <2>2. k \in Nat /\ new <= k /\ i \in 0..n
      BY <1>3, <2>1
    <2>3. g[i] = ClearStep(a, f, k)
      BY <1>2, <2>1
    <2>4. a \in Caches /\ Good(a) /\ Cut(m, a, f, new)
      BY <1>5, <2>1
    <2>5. Clean(a) /\ NoInd(a, f[1]) /\ new <= File(a, f).size
      BY <2>4 DEF Cut
    <2>6. PICK z : z = g[i]
      OBVIOUS
    <2>7. z \in Caches /\ Good(z)
      BY <1>2, <2>2, <2>6
    <2>8. Cut(a, z, f, new)
      BY <2>2, <2>3, <2>4, <2>5, <2>6, ClearStepCuts
    <2> QED
      BY <1>3, <2>4, <2>6, <2>7, <2>8, CutTrans
  <1> HIDE DEF S
  <1>6. g[n] \in S
    BY <1>3, <1>4, <1>5, LoopStays
  <1> QED
    BY <1>2, <1>6 DEF S

\* The indirect block goes when no block needs it any more.
LEMMA FreeIndirectCuts ==
    ASSUME NEW m, Good(m), Clean(m), NEW f \in FileIds, NoInd(m, f[1]), NEW new \in Nat, new <= File(m, f).size,
           new <= NDIRECT, NEW n, n = FreeIndirect(m, f)
    PROVE  Cut(m, n, f, new)
  <1>1. m \in Caches
    BY DEF Good
  <1>2. PICK old \in FileType : old = File(m, f)
    BY <1>1, FileTyped
  <1>3. CASE old.indirect = 0
    BY <1>1, <1>2, <1>3, SameCut DEF FreeIndirect
  <1>4. CASE old.indirect # 0
    <2>1. PICK b : b = old.indirect
      OBVIOUS
    <2>2. b \in Data
      BY <1>1, <1>2, <1>4, <2>1, FileTyped DEF Ptrs
    <2>3. PICK k : k = free_block(m, b)
      OBVIOUS
    <2>4. k \in Caches /\ k.blk = m.blk
      BY <1>1, <2>2, <2>3, FreeBlockFields
    <2>5. PICK file : file = [old EXCEPT !.indirect = 0]
      OBVIOUS
    <2>6. file \in FileType /\ file.size = old.size /\ file.direct = old.direct /\ file.indirect = 0
      BY <2>5 DEF FileType
    <2>7. n = Put(k, f, file)
      BY <1>2, <1>4, <2>1, <2>3, <2>5 DEF FreeIndirect
    <2>8. File(k, f) = old /\ Clean(k) /\ NoInd(k, f[1]) /\ n \in Caches
      <3>1. File(k, f) = old /\ Clean(k) /\ NoInd(k, f[1])
        BY <1>1, <1>2, <2>4, SameContents, SameBlk
      <3> QED
        BY <2>4, <2>6, <2>7, <3>1, PutBlk
    <2>9. ~(new > NDIRECT)
      BY Numbers
    <2>10. Cut(k, n, f, new)
      BY <1>2, <2>4, <2>6, <2>7, <2>8, <2>9, PutCuts
    <2> QED
      BY <1>1, <2>4, <2>8, <2>10, SameCut, CutTrans
  <1> QED
    BY <1>3, <1>4

\* The size of f changes.
LEMMA SetSizeCuts ==
    ASSUME NEW m, Good(m), Clean(m), NEW f \in FileIds, NoInd(m, f[1]), NEW new \in 0..(NINDIRECT + 1),
           NEW n, n = SetSize(m, f, new)
    PROVE  Cut(m, n, f, new)
  <1>1. m \in Caches /\ new \in Nat
    BY Numbers DEF Good
  <1>2. PICK old \in FileType : old = File(m, f)
    BY <1>1, FileTyped
  <1>3. PICK file : file = [old EXCEPT !.size = new]
    OBVIOUS
  <1>4. /\ file \in FileType /\ file.size = new /\ file.indirect = old.indirect /\ file.direct = old.direct
    BY <1>3 DEF FileType
  <1>5. n = Put(m, f, file)
    BY <1>2, <1>3 DEF SetSize
  <1>6. new <= file.size
    BY <1>1, <1>4
  <1> QED
    BY <1>1, <1>2, <1>4, <1>5, <1>6, PutCuts

\* file_truncate.
LEMMA TruncateCuts ==
    ASSUME NEW m, Good(m), Clean(m), NEW f \in FileIds, NoInd(m, f[1]), NEW new \in 0..(NINDIRECT + 1),
           new <= File(m, f).size, NEW n, n = file_truncate(m, f, new)
    PROVE  Cut(m, n, f, new)
  <1>1. m \in Caches /\ new \in Nat
    BY Numbers DEF Good
  <1>2. PICK k : k = ClearFrom(m, f, new)
    OBVIOUS
  <1>3. Good(k) /\ k \in Caches /\ Cut(m, k, f, new)
    BY <1>1, <1>2, ClearFromGood, ClearFromCuts DEF Good
  <1>4. PICK j : j = IF new <= NDIRECT THEN FreeIndirect(k, f) ELSE k
    OBVIOUS
  <1>5. Good(j) /\ j \in Caches /\ Cut(m, j, f, new)
    <2>1. CASE new <= NDIRECT
      <3>1. j = FreeIndirect(k, f)
        BY <1>4, <2>1
      <3>2. Good(j) /\ j \in Caches
        BY <1>3, <3>1, FreeIndirectGood DEF Good
      <3>3. Cut(k, j, f, new)
        BY <1>1, <1>3, <2>1, <3>1, FreeIndirectCuts DEF Cut
      <3> QED
        BY <1>1, <1>3, <3>2, <3>3, CutTrans
    <2>2. CASE ~(new <= NDIRECT)
      BY <1>3, <1>4, <2>2
    <2> QED
      BY <2>1, <2>2
  <1>6. PICK s : s = SetSize(j, f, new)
    OBVIOUS
  <1>7. s \in Caches /\ Cut(m, s, f, new)
    <2>1. s \in Caches
      BY <1>5, <1>6, SetSizeGood DEF Good
    <2>2. Cut(j, s, f, new)
      BY <1>5, <1>6, SetSizeCuts DEF Cut
    <2> QED
      BY <1>1, <1>5, <2>1, <2>2, CutTrans
  <1>8. n = IF k.panic # "none" THEN k ELSE s
    BY <1>2, <1>4, <1>6 DEF file_truncate, Shrunk
  <1> QED
    BY <1>3, <1>7, <1>8

\* Flushing a directory changes no contents.
LEMMA FlushDirSame ==
    ASSUME NEW m, Good(m), NEW f \in FileIds, NEW n, n = FlushDir(m, f)
    PROVE  n.blk = m.blk /\ n \in Caches
  <1>1. n \in Caches
    BY FlushDirGood DEF Good
  <1>2. CASE m.panic # "none" \/ File(m, f).dir = Null
    BY <1>1, <1>2 DEF FlushDir
  <1>3. CASE ~(m.panic # "none" \/ File(m, f).dir = Null)
    <2>1. PICK d \in FileIds : d = File(m, f).dir
      BY <1>3, FileTyped DEF Good
    <2>2. n = file_flush(m, d)
      BY <1>3, <2>1 DEF FlushDir
    <2> QED
      BY <1>1, <2>2, FileFlushGood
  <1> QED
    BY <1>2, <1>3

\* file_set_size cuts the file, or makes it longer.
LEMMA FileSetSizeCuts ==
    ASSUME NEW m, Good(m), Clean(m), NEW f \in FileIds, NoInd(m, f[1]), NEW new \in 0..(NINDIRECT + 1),
           NEW n, n = file_set_size(m, f, new)
    PROVE  Cut(m, n, f, new) /\ (File(m, f).size <= new => Covers(m, n, f)) /\ n \in Caches
  <1>1. m \in Caches /\ new \in Nat /\ File(m, f).size \in Nat
    BY FileTyped, Numbers DEF Good
  <1>2. PICK k : k = IF File(m, f).size > new THEN file_truncate(m, f, new) ELSE SetSize(m, f, new)
    OBVIOUS
  <1>3. Good(k) /\ k \in Caches /\ Cut(m, k, f, new) /\ (File(m, f).size <= new => Covers(m, k, f))
    <2>1. CASE File(m, f).size > new
      <3>1. new <= File(m, f).size /\ ~(File(m, f).size <= new)
        BY <1>1, <2>1
      <3>2. k = file_truncate(m, f, new)
        BY <1>2, <2>1
      <3> QED
        BY <3>1, <3>2, FileTruncateGood, TruncateCuts DEF Good
    <2>2. CASE ~(File(m, f).size > new)
      <3>1. File(m, f).size <= new
        BY <1>1, <2>2
      <3>2. k = SetSize(m, f, new)
        BY <1>2, <2>2
      <3> QED
        BY <3>1, <3>2, GrownSize, SetSizeCuts DEF Good
    <2> QED
      BY <2>1, <2>2
  <1>4. n = FlushDir(k, f)
    BY <1>2 DEF file_set_size
  <1>5. n.blk = k.blk /\ n \in Caches
    BY <1>3, <1>4, FlushDirSame
  <1>6. Cut(k, n, f, new) /\ Covers(k, n, f)
    BY <1>1, <1>3, <1>5, SameCut, SameBlk DEF Cut
  <1> QED
    BY <1>1, <1>3, <1>5, <1>6, CutTrans, CoversTrans

\* Closing, and marking a block dirty, change no contents.
LEMMA CloseSame ==
    ASSUME NEW m, Good(m), NEW f \in FileIds
    PROVE  file_close(m, f).blk = m.blk
  <1>1. PICK k : k = file_flush(m, f)
    OBVIOUS
  <1>2. Good(k) /\ k.blk = m.blk
    BY <1>1, FileFlushGood
  <1>3. PICK j : j = MarkEntry(k, f)
    OBVIOUS
  <1>4. Good(j) /\ j.blk = k.blk
    <2>1. f[1] \in Blocks
      BY DEF FileIds
    <2>2. k \in Caches
      BY <1>2 DEF Good
    <2>3. dirty_block(k, f[1]).blk = k.blk
      BY <2>2 DEF dirty_block, Caches
    <2> QED
      BY <1>2, <1>3, <2>1, <2>3, OtherFields DEF MarkEntry
  <1>5. file_close(m, f) = FlushDir(j, f)
    BY <1>1, <1>3 DEF file_close
  <1> QED
    BY <1>2, <1>4, <1>5, FlushDirSame

LEMMA DirtySame ==
    ASSUME NEW m, Good(m), NEW f \in FileIds, NEW n \in Nat
    PROVE  file_dirty(m, f, n).m.blk = m.blk
  <1>1. PICK y : y = file_map_block(m, f, n, FALSE)
    OBVIOUS
  <1>2. Returns(m, y) /\ y.m = m
    <2>1. PICK alloc \in BOOLEAN : alloc = FALSE
      OBVIOUS
    <2>2. y = file_map_block(m, f, n, alloc) /\ ~alloc
      BY <1>1, <2>1, Zenon
    <2> QED
      BY <2>2, FileMapBlock
  <1>3. y \in Results /\ m \in Caches
    BY <1>2 DEF Returns, Good
  <1>4. PICK x : x = file_dirty(m, f, n)
    OBVIOUS
  <1>5. x = IF y.r = "ok" THEN [y EXCEPT !.m = dirty_block(@, y.b)] ELSE y
    BY <1>1, <1>4 DEF file_dirty, Then
  <1>6. dirty_block(m, y.b).blk = m.blk
    BY <1>3 DEF dirty_block, Caches
  <1>7. x.m \in {m, dirty_block(m, y.b)}
    BY <1>2, <1>3, <1>5 DEF Results
  <1> QED
    BY <1>4, <1>6, <1>7

-----------------------------------------------------------------------------
\* The files outside S are spared: nothing that n leaves readable as a
\* directory block lost anything.
Spares(m, n, S) == \A f \in FileIds \ S : Covers(m, n, f) \/ n.blk[f[1]].kind # "dir"

\* A routine that frees nothing spares all files, and a cut after it all but one.
LEMMA SparedFiles ==
    ASSUME NEW l \in Caches, NEW m \in Caches, Evolves(l, m)
    PROVE  /\ \A S : Spares(l, m, S)
           /\ \A n \in Caches : \A f \in FileIds : \A new \in Nat :
                 NoInd(m, f[1]) /\ Cut(m, n, f, new) => Spares(l, n, {f})
  <1>1. \A S : Spares(l, m, S)
    BY DEF Evolves, Lost, Spares
  <1>2. ASSUME NEW n \in Caches, NEW f \in FileIds, NEW new \in Nat, NoInd(m, f[1]), Cut(m, n, f, new)
        PROVE  Spares(l, n, {f})
    <2> SUFFICES ASSUME NEW g \in FileIds \ {f} PROVE Covers(l, n, g) \/ n.blk[g[1]].kind # "dir"
      BY DEF Spares
    <2>1. CASE Covers(l, m, g)
      BY <1>2, <2>1, CoversTrans DEF Cut
    <2>2. CASE Lost(m, g)
      <3>1. g[1] \in Blocks \ {f[1]} /\ m.blk[g[1]].kind # "dir"
        BY <1>2, <2>2 DEF Lost, NoInd, FileIds
      <3> QED
        BY <1>2, <3>1 DEF Cut
    <2> QED
      BY <2>1, <2>2 DEF Evolves
  <1> QED
    BY <1>1, <1>2

\* file_remove spares the files other than the one it removes.
LEMMA FileRemoveSpares ==
    ASSUME NEW m, Good(m), Clean(m), NEW path \in Paths, NEW x, x = file_remove(m, path)
    PROVE  Spares(m, x.m, IF x.r = "ok" THEN {x.file} ELSE {})
  <1>1. PICK y : y = walk_path(m, path)
    OBVIOUS
  <1>2. Finds(y) /\ Leads(m, y) /\ m \in Caches
    BY <1>1, WalkPathFinds, WalkPathLeads DEF Good
  <1>3. y \in Results /\ Good(y.m) /\ y.m \in Caches
    BY <1>2, SoundFacts DEF Finds
  <1>4. x = IF y.r = "ok" THEN [y EXCEPT !.m = Unnamed(file_truncate(@, y.file, 0), y.file)] ELSE y
    BY <1>1 DEF file_remove, Then
  <1>5. CASE y.r # "ok"
    BY <1>2, <1>3, <1>4, <1>5, SparedFiles DEF Leads, Looks
  <1>6. CASE y.r = "ok"
    <2>1. PICK f \in FileIds : f = y.file
      BY <1>2, <1>6, EntryIsFile DEF Finds
    <2>2. Clean(y.m) /\ NoInd(y.m, f[1])
      BY <1>2, <1>6, <2>1 DEF Leads, Looks, Steady
    <2>3. PICK z \in 0..(NINDIRECT + 1) : z = 0
      BY Numbers
    <2>4. PICK k : k = file_truncate(y.m, f, z)
      OBVIOUS
    <2>5. Good(k) /\ k \in Caches /\ Cut(y.m, k, f, z) /\ z \in Nat
      <3>1. z <= File(y.m, f).size
        BY <1>3, <2>3, FileTyped, Numbers
      <3> QED
        BY <1>3, <2>2, <2>3, <2>4, <3>1, FileTruncateGood, TruncateCuts DEF Good
    <2>6. PICK old \in FileType : old = File(k, f)
      BY <2>5, FileTyped
    <2>7. PICK new : new = [old EXCEPT !.name = NoName]
      OBVIOUS
    <2>8. /\ new \in FileType /\ \A i \in 0..NDIRECT : PtrOf(new, i) = PtrOf(old, i)
          /\ new.size = old.size /\ new.direct = old.direct /\ new.indirect = old.indirect
      <3>1. new.size = old.size /\ new.direct = old.direct /\ new.indirect = old.indirect
        BY <2>6, <2>7 DEF FileType
      <3> QED
        BY <2>7, <3>1, SamePtrs
    <2>9. PICK n : n = Put(k, f, new)
      OBVIOUS
    <2>10. Good(n) /\ n \in Caches
      BY <2>5, <2>6, <2>8, <2>9, PutSamePtrs DEF Good
    <2>11. Cut(k, n, f, z)
      <3>1. z <= new.size
        BY <2>5, <2>6, <2>8 DEF Cut
      <3> QED
        BY <2>5, <2>6, <2>8, <2>9, <3>1, PutCuts DEF Cut
    <2>12. PICK j : j = Unnamed(k, f)
      OBVIOUS
    <2>13. j \in Caches /\ Cut(y.m, j, f, z)
      <3>1. Cut(y.m, n, f, z)
        BY <1>3, <2>5, <2>10, <2>11, CutTrans
      <3>2. j = k \/ j = FlushDir(n, f)
        BY <2>6, <2>7, <2>9, <2>12 DEF Unnamed
      <3>3. CASE j = k
        BY <2>5, <3>3
      <3>4. CASE j = FlushDir(n, f)
        <4>1. j.blk = n.blk /\ j \in Caches
          BY <2>10, <3>4, FlushDirSame
        <4>2. Cut(n, j, f, z)
          BY <2>5, <2>10, <3>1, <4>1, SameCut DEF Cut
        <4> QED
          BY <1>3, <2>5, <2>10, <3>1, <4>1, <4>2, CutTrans
      <3> QED
        BY <3>2, <3>3, <3>4
    <2>14. x.m = j /\ x.file = f /\ x.r = "ok"
      BY <1>3, <1>4, <1>6, <2>1, <2>3, <2>4, <2>12 DEF Results
    <2>15. Spares(m, j, {f})
      BY <1>2, <1>3, <2>2, <2>5, <2>13, SparedFiles DEF Leads, Looks
    <2> QED
      BY <2>14, <2>15
  <1> QED
    BY <1>5, <1>6

-----------------------------------------------------------------------------
(***************************************************************************)
(* PagesOfFile.  Blocks 0 to k - 1 of f are allocated and `pages' are      *)
(* their pages:                                                            *)
(***************************************************************************)
Backs(m, pages, f, k) ==
    /\ k <= File(m, f).size
    /\ \A n \in 0..(k - 1) : HasPtr(m, f, n) /\ pages[n] # 0 /\ pages[n] = Ptr(m, f, n)

\* f is unreadable: its block is no directory block, or its indirect block not one.
Broken(m, f) == \/ m.blk[f[1]].kind # "dir"
                \/ File(m, f).indirect # 0 /\ m.blk[File(m, f).indirect].kind \notin {"ind", "zero"}

\* Pages keep their blocks when the file keeps what it has.
LEMMA CoversBacks ==
    ASSUME NEW m \in Caches, NEW n \in Caches, NEW f \in FileIds, Covers(m, n, f)
    PROVE  /\ File(m, f).size \in Nat /\ File(n, f).size \in Nat /\ File(m, f).size <= File(n, f).size
           /\ \A pages : \A k \in Nat : Backs(m, pages, f, k) => Backs(n, pages, f, k)
  <1>1. File(m, f).size \in Nat /\ File(n, f).size \in Nat /\ File(m, f).size <= File(n, f).size
    BY FileTyped, Numbers DEF Covers
  <1>2. ASSUME NEW pages, NEW k \in Nat, Backs(m, pages, f, k) PROVE Backs(n, pages, f, k)
    <2>1. k <= File(n, f).size
      BY <1>1, <1>2 DEF Backs
    <2>2. ASSUME NEW i \in 0..(k - 1) PROVE HasPtr(n, f, i) /\ pages[i] # 0 /\ pages[i] = Ptr(n, f, i)
      <3>1. HasPtr(m, f, i) /\ pages[i] # 0 /\ pages[i] = Ptr(m, f, i) /\ i \in 0..(NINDIRECT - 1)
        BY <1>2 DEF Backs, HasPtr
      <3> QED
        BY <3>1 DEF Covers
    <2> QED
      BY <2>1, <2>2 DEF Backs
  <1> QED
    BY <1>1, <1>2

\* A store to a page leaves a file as it is or makes it unreadable.
LEMMA StoreKeeps ==
    ASSUME NEW m \in Caches, NEW b \in Data, NEW n, n = Rewritten(m, b, Written), NEW f \in FileIds
    PROVE  (Broken(m, f) => Broken(n, f)) /\ (Covers(m, n, f) \/ Broken(n, f))
  <1>1. Written \in Contents /\ Written.kind = "data" /\ b \in Blocks
    BY Numbers DEF Written, Contents
  <1>2. n \in Caches /\ n.blk[b] = Written /\ \A a \in Blocks \ {b} : n.blk[a] = m.blk[a]
    BY <1>1, SetBlk DEF Retyped
  <1>3. f[1] \in Blocks /\ File(m, f).indirect \in Ptrs /\ File(m, f).size \in Nat
    BY FileTyped, Numbers
  <1>4. CASE f[1] = b
    BY <1>1, <1>2, <1>4 DEF Broken
  <1>5. CASE f[1] # b
    <2>1. n.blk[f[1]] = m.blk[f[1]] /\ File(n, f) = File(m, f)
      BY <1>2, <1>3, <1>5 DEF File
    <2>2. CASE File(m, f).indirect = b
      <3>1. b # 0
        BY <1>1, Numbers
      <3> QED
        BY <1>1, <1>2, <2>1, <2>2, <3>1 DEF Broken
    <2>3. CASE File(m, f).indirect # b
      <3>1. File(m, f).indirect # 0 => n.blk[File(m, f).indirect] = m.blk[File(m, f).indirect]
        <4>1. File(m, f).indirect # 0 => File(m, f).indirect \in Blocks
          BY <1>3, Numbers DEF Ptrs
        <4> QED
          BY <1>2, <2>3, <4>1
      <3>2. \A k : HasPtr(m, f, k) => HasPtr(n, f, k) /\ Ptr(n, f, k) = Ptr(m, f, k)
        BY <2>1, <3>1 DEF HasPtr, Ptr
      <3>3. Covers(m, n, f)
        BY <1>3, <2>1, <3>2 DEF Covers
      <3> QED
        BY <2>1, <3>1, <3>3 DEF Broken
    <2> QED
      BY <2>2, <2>3
  <1> QED
    BY <1>4, <1>5

\* What a step does to a file.
Carried(f) == Covers(Cache, Cache', f) \/ Broken(Cache', f)

\* A handler that spares a file.
LEMMA Becoming ==
    ASSUME IInv, IInv', NEW m \in Caches, blk' = m.blk, NEW S, Spares(Cache, m, S)
    PROVE  \A f \in FileIds \ S : Carried(f)
  <1>1. PICK n : n = Cache'
    OBVIOUS
  <1>2. PICK l : l = Cache
    OBVIOUS
  <1>3. n \in Caches /\ l \in Caches
    BY <1>1, <1>2 DEF IInv, Good
  <1>4. n.blk = m.blk
    BY <1>1 DEF Cache
  <1>5. ASSUME NEW f \in FileIds \ S PROVE Covers(l, n, f) \/ Broken(n, f)
    <2>1. CASE Covers(l, m, f)
      BY <1>3, <1>4, <2>1, SameBlk, CoversTrans
    <2>2. CASE m.blk[f[1]].kind # "dir"
      BY <1>4, <2>2 DEF Broken
    <2> QED
      BY <1>2, <2>1, <2>2 DEF Spares
  <1> QED
    BY <1>1, <1>2, <1>5 DEF Carried

\* A step that changes no contents.
LEMMA BlkStays ==
    ASSUME IInv, IInv', blk' = blk
    PROVE  \A f \in FileIds : Carried(f) /\ (Broken(Cache, f) => Broken(Cache', f))
  <1>1. PICK n : n = Cache'
    OBVIOUS
  <1>2. PICK l : l = Cache
    OBVIOUS
  <1>3. n \in Caches /\ l \in Caches
    BY <1>1, <1>2 DEF IInv, Good
  <1>4. n.blk = l.blk
    BY <1>1, <1>2 DEF Cache
  <1>5. \A f \in FileIds : Covers(l, n, f) /\ File(n, f) = File(l, f)
    BY <1>3, <1>4, SameBlk, SameContents
  <1>6. \A f \in FileIds : Broken(l, f) => Broken(n, f)
    BY <1>4, <1>5 DEF Broken
  <1> QED
    BY <1>1, <1>2, <1>5, <1>6 DEF Carried

\* A client's store.
LEMMA StoreCarried ==
    ASSUME IInv, NEW b \in Ptrs, blk' = Stored(b), free' = free, dirty' = dirty, panic' = panic, IInv'
    PROVE  \A f \in FileIds : Carried(f) /\ (Broken(Cache, f) => Broken(Cache', f))
  <1>1. CASE b = 0
    BY <1>1, BlkStays DEF Stored
  <1>2. CASE b # 0
    <2>1. b \in Data /\ blk' = [blk EXCEPT ![b] = Written]
      BY <1>2 DEF Ptrs, Stored
    <2>2. PICK l : l = Cache
      OBVIOUS
    <2>3. PICK n : n = Cache'
      OBVIOUS
    <2>4. l \in Caches
      BY <2>2 DEF IInv, Good
    <2>5. n = Rewritten(l, b, Written)
      BY <2>1, <2>2, <2>3 DEF Cache, Rewritten
    <2> QED
      BY <2>1, <2>2, <2>3, <2>4, <2>5, StoreKeeps DEF Carried
  <1> QED
    BY <1>1, <1>2

\* While the server serves, every opened file can be read.
LEMMA ServingClean ==
    ASSUME IInv, ~Corrupt
    PROVE  /\ Clean(Cache)
           /\ \A i \in Opened : o_file[i] # Null =>
                o_file[i] \in FileIds /\ NoInd(Cache, o_file[i][1]) /\ ~Broken(Cache, o_file[i])
  <1>1. PICK l : l = Cache
    OBVIOUS
  <1>2. l \in Caches /\ l.blk = blk /\ DOMAIN blk = Blocks
    <2>1. l \in Caches /\ l.blk = blk
      BY <1>1 DEF IInv, Good, Cache
    <2> QED
      BY <2>1, CacheFields
  <1>3. ASSUME NEW f \in FileIds, blk[f[1]].kind = "dir", File(l, f).indirect # 0
        PROVE  blk[File(l, f).indirect].kind \in {"ind", "zero"}
    <2>1. f \in Files(l)
      BY <1>2, <1>3 DEF Files, FileIds
    <2> QED
      BY <1>1, <1>3, <2>1 DEF Corrupt
  <1>4. ASSUME NEW f \in FileIds, File(l, f).indirect # 0 PROVE blk[f[1]].kind = "dir"
    <2>1. f[2] \in Slots
      BY DEF FileIds
    <2> QED
      BY <1>2, <1>4, <2>1 DEF File, AsDir, EmptyFile
  <1>5. Clean(l)
    BY <1>2, <1>3, <1>4 DEF Clean
  <1>6. ASSUME NEW i \in Opened, o_file[i] # Null
        PROVE  o_file[i] \in FileIds /\ NoInd(l, o_file[i][1]) /\ ~Broken(l, o_file[i])
    <2>1. o_file[i] \in FileIds
      BY <1>6, ServingFacts
    <2>2. blk[o_file[i][1]].kind = "dir"
      BY <1>6 DEF Corrupt, Opened
    <2>3. o_file[i][1] # 0
      BY <2>1, Numbers DEF FileIds
    <2> QED
      BY <1>2, <1>3, <1>5, <2>1, <2>2, <2>3 DEF Clean, NoInd, Broken
  <1> QED
    BY <1>1, <1>5, <1>6

-----------------------------------------------------------------------------
(***************************************************************************)
(* The inductive invariant.  What is known of the pages of an entry        *)
(* depends on the calls that are going on with it: one that maps its pages *)
(* is alone with the entry and has mapped the first Done(c) of them, and   *)
(* one that has asked for another size, but was not heard yet, leaves the  *)
(* pages of the old size.                                                  *)
(***************************************************************************)
Of(c) == fd[c][call[c].d]
Asks(c, i) == call[c].at = "set_size" /\ ipc[c] = "send" /\ Of(c) = i
Maps(c, i) ==
    /\ Of(c) = i
    /\ \/ call[c].at = "map"
       \/ call[c].at = "set_size" /\ ipc[c] # "send"
       \/ call[c].at = "open" /\ ipc[c] = "done" /\ reply[c] = "ok"
Done(c) == IF call[c].at = "open" THEN 0
           ELSE IF call[c].at = "set_size" THEN (IF call[c].old < call[c].size THEN call[c].old ELSE call[c].size)
           ELSE IF ipc[c] = "done" /\ reply[c] = "ok" THEN call[c].n + 1 ELSE call[c].n
FileSize(i) == File(Cache, o_file[i]).size
AllBack(i, k) == \A h \in Holders(i) : Backs(Cache, page[h[1]][h[2]], o_file[i], k)
Mapping(c, i) == /\ Holders(i) = {<<c, call[c].d>>} /\ f_size[i] <= FileSize(i)
                 /\ call[c].at # "open" => f_size[i] = call[c].size
                 /\ AllBack(i, Done(c))
Asking(c, i) == f_size[i] = call[c].size /\ AllBack(i, call[c].old)
EntryGood(i) ==
    /\ \A c \in Clients : Maps(c, i) => Mapping(c, i)
    /\ \A c \in Clients : Asks(c, i) /\ (\A e \in Clients : Asks(e, i) => e = c) => Asking(c, i)
    /\ (\A c \in Clients : ~Asks(c, i) /\ ~Maps(c, i)) => AllBack(i, f_size[i])
Entered == \A i \in Entries : Holders(i) # {} /\ i \notin loose => Broken(Cache, o_file[i]) \/ EntryGood(i)
Pending ==
    /\ server.entry # 0 =>
         /\ server.to # NoClient /\ server.r = "ok" /\ call[server.to].at = "open" /\ Holders(server.entry) = {}
         /\ Broken(Cache, o_file[server.entry]) \/ f_size[server.entry] <= FileSize(server.entry)
    /\ server.block # 0 => server.to # NoClient /\ call[server.to].at = "map"
    /\ server.to # NoClient /\ call[server.to].at = "map" /\ server.r = "ok" /\ Of(server.to) \notin loose =>
        \/ Broken(Cache, o_file[Of(server.to)])
        \/ /\ HasPtr(Cache, o_file[Of(server.to)], call[server.to].n)
           /\ server.block # 0 /\ server.block = Ptr(Cache, o_file[Of(server.to)], call[server.to].n)
Shapes == \A c \in Clients : /\ call[c].op = "idle" => call[c].at = "start"
                             /\ call[c].at = "open" => call[c].n = 0
                             /\ call[c].at = "map" => call[c].n < call[c].size
                             /\ call[c].at = "restore" => Of(c) \in loose
PInv == Entered /\ Pending /\ Shapes

\* What EntryGood says of client e does not change.
SameFor(e, i) == /\ Maps(e, i)' <=> Maps(e, i)
                 /\ Asks(e, i)' <=> Asks(e, i)
                 /\ Maps(e, i) \/ Asks(e, i) => call'[e] = call[e]
                 /\ Maps(e, i) => Done(e)' = Done(e)

\* An entry of which no step of a call is heard stays good, whatever happens
\* to the pages and calls of others.
LEMMA EntryFrame ==
    ASSUME SInv, SInv', NEW i \in Entries, EntryGood(i), f_size'[i] = f_size[i], o_file'[i] = o_file[i],
           o_file[i] \in FileIds, Covers(Cache, Cache', o_file[i]),
           Holders(i)' = Holders(i) \/ \A e \in Clients : ~Maps(e, i),
           \A h \in Holders(i)' : \E g \in Holders(i) : page'[h[1]][h[2]] = page[g[1]][g[2]],
           \A e \in Clients : SameFor(e, i)
    PROVE  EntryGood(i)'
  <1>1. PICK l, n, f : l = Cache /\ n = Cache' /\ f = o_file[i]
    OBVIOUS
  <1>2. l \in Caches /\ n \in Caches /\ f \in FileIds /\ Covers(l, n, f)
    BY <1>1 DEF SInv, IInv, Good
  <1>3. /\ File(l, f).size \in Nat /\ File(n, f).size \in Nat /\ File(l, f).size <= File(n, f).size
        /\ \A pages : \A k \in Nat : Backs(l, pages, f, k) => Backs(n, pages, f, k)
    BY <1>2, CoversBacks
  <1>4. f_size[i] \in Nat /\ \A e \in Clients : call[e] \in CallShapes
    BY ServNumbers DEF SInv, Types, FileSizes, Calls
  <1>5. ASSUME NEW k \in Nat, AllBack(i, k) PROVE AllBack(i, k)'
    <2>1. \A h \in Holders(i) : Backs(l, page[h[1]][h[2]], f, k)
      BY <1>1, <1>5 DEF AllBack
    <2>2. \A h \in Holders(i)' : Backs(n, page'[h[1]][h[2]], f, k)
      BY <1>3, <2>1
    <2> QED
      BY <1>1, <2>2 DEF AllBack
  <1>6. ASSUME NEW c \in Clients, Maps(c, i)' PROVE Mapping(c, i)'
    <2>1. Maps(c, i) /\ call'[c] = call[c] /\ Done(c)' = Done(c)
      BY <1>6 DEF SameFor
    <2>2. Mapping(c, i) /\ Holders(i)' = Holders(i)
      BY <2>1 DEF EntryGood
    <2>3. Done(c) \in Nat
      BY <1>4, Numbers DEF Done, CallShapes, FileSizes
    <2>4. AllBack(i, Done(c))'
      <3>1. PICK k \in Nat : k = Done(c)
        BY <2>3
      <3>2. AllBack(i, k)'
        BY <1>5, <2>2, <3>1 DEF Mapping
      <3> QED
        BY <2>1, <3>1, <3>2 DEF AllBack
    <2>5. f_size'[i] <= FileSize(i)'
      BY <1>1, <1>3, <1>4, <2>2 DEF Mapping, FileSize
    <2> QED
      BY <2>1, <2>2, <2>4, <2>5 DEF Mapping
  <1>7. ASSUME NEW c \in Clients, Asks(c, i)', \A e \in Clients : Asks(e, i)' => e = c PROVE Asking(c, i)'
    <2>1. Asks(c, i) /\ call'[c] = call[c]
      BY <1>7 DEF SameFor
    <2>2. Asking(c, i)
      BY <1>7, <2>1 DEF EntryGood, SameFor
    <2>3. PICK k \in Nat : k = call[c].old
      BY <1>4, Numbers DEF CallShapes, FileSizes
    <2>4. AllBack(i, k)'
      BY <1>5, <2>2, <2>3 DEF Asking
    <2> QED
      BY <2>1, <2>2, <2>3, <2>4 DEF Asking, AllBack
  <1>8. ASSUME \A c \in Clients : ~Asks(c, i)' /\ ~Maps(c, i)' PROVE AllBack(i, f_size[i])'
    <2>1. \A c \in Clients : ~Asks(c, i) /\ ~Maps(c, i)
      BY <1>8 DEF SameFor
    <2>2. AllBack(i, f_size[i])
      BY <2>1 DEF EntryGood
    <2>3. PICK k \in Nat : k = f_size[i]
      BY <1>4
    <2>4. AllBack(i, k)'
      BY <1>5, <2>2, <2>3
    <2> QED
      BY <2>3, <2>4 DEF AllBack
  <1> QED
    BY <1>6, <1>7, <1>8 DEF EntryGood

\* A client that stays in its request, or whose request the server takes.
LEMMA SameClient ==
    ASSUME NEW e \in Clients, NEW i, call'[e] = call[e], reply'[e] = reply[e], Of(e)' = Of(e),
           \/ ipc'[e] = ipc[e]
           \/ ipc[e] = "send" /\ ipc'[e] = "wait" /\ (call[e].at = "set_size" => Of(e) # i)
    PROVE  SameFor(e, i)
  BY DEF SameFor, Maps, Asks, Done

\* A client that is in no state that EntryGood speaks of.
Silent(e, i) == ~Maps(e, i) /\ ~Asks(e, i)
LEMMA SilentClient ==
    ASSUME NEW e \in Clients, NEW i, Silent(e, i), Silent(e, i)'
    PROVE  SameFor(e, i)
  BY DEF SameFor, Silent

\* Only the holder of an entry is in a call with it.
LEMMA OnlyHolder ==
    ASSUME SInv, NEW i \in Entries, NEW e \in Clients, Of(e) = i
    PROVE  <<e, call[e].d>> \in Holders(i)
  BY DEF SInv, Types, Calls, CallShapes, Holders, Of

\* What the server does to an entry whose size it was not asked to change.
LEMMA AnswerKeeps ==
    ASSUME SInv, SInv', Entered, ~Corrupt, NEW c \in Clients, ipc[c] = "send",
           NEW r, NEW j, NEW b, Answers(c, r, j, b),
           NEW i \in Entries, Holders(i) # {}, i \notin loose,
           f_size'[i] = f_size[i], o_file'[i] = o_file[i], Carried(o_file[i]),
           call[c].at = "set_size" => Of(c) # i
    PROVE  Broken(Cache', o_file'[i]) \/ EntryGood(i)'
  <1>1. PICK h \in Holders(i) : TRUE
    OBVIOUS
  <1>2. o_file[i] # Null /\ i \in Opened
    BY <1>1, ServNumbers DEF Holders, SInv, Opens
  <1>3. o_file[i] \in FileIds /\ ~Broken(Cache, o_file[i])
    BY <1>2, ServingClean DEF SInv
  <1>4. EntryGood(i)
    BY <1>3 DEF Entered
  <1>5. CASE Broken(Cache', o_file[i])
    BY <1>5
  <1>6. CASE Covers(Cache, Cache', o_file[i])
    <2>1. fd' = fd /\ page' = page /\ call' = call /\ reply' = reply /\ ipc' = [ipc EXCEPT ![c] = "wait"]
      BY DEF Answers
    <2>2. Holders(i)' = Holders(i)
      BY <2>1 DEF Holders
    <2>3. ipc'[c] = "wait" /\ \A e \in Clients \ {c} : ipc'[e] = ipc[e]
      BY <2>1 DEF SInv, Types
    <2>4. \A e \in Clients : SameFor(e, i)
      BY <2>1, <2>3, SameClient DEF Of
    <2>5. \A g \in Holders(i)' : \E k \in Holders(i) : page'[g[1]][g[2]] = page[k[1]][k[2]]
      BY <2>1, <2>2
    <2> QED
      BY <1>3, <1>4, <1>6, <2>2, <2>4, <2>5, EntryFrame
  <1> QED
    BY <1>5, <1>6 DEF Carried

\* An answer without a page leaves nothing pending.
LEMMA NothingPending ==
    ASSUME NEW c \in Clients, NEW r, Answers(c, r, 0, 0), call[c].at # "map"
    PROVE  Pending'
  BY DEF Answers, Pending

\* An answer keeps the shapes of calls when the entries that are held and
\* loose stay loose.
LEMMA AnswerShapes ==
    ASSUME SInv, Shapes, NEW c \in Clients, NEW r, NEW j, NEW b, Answers(c, r, j, b),
           \A i \in Entries : Holders(i) # {} /\ i \in loose => i \in loose'
    PROVE  Shapes'
  <1>1. fd' = fd /\ call' = call
    BY DEF Answers
  <1>2. ASSUME NEW e \in Clients, call[e].at = "restore" PROVE Of(e) \in loose'
    <2>1. call[e].d \in Fds /\ Of(e) # 0 /\ Of(e) \in loose
      BY <1>2 DEF SInv, Types, Calls, CallShapes, HasFd, FdSteps, Of, Shapes
    <2>2. Of(e) \in Entries
      BY <2>1 DEF SInv, Types
    <2>3. Holders(Of(e)) # {}
      BY <2>2, OnlyHolder
    <2> QED
      BY <2>1, <2>2, <2>3
  <1>3. ASSUME NEW e \in Clients
        PROVE  /\ call'[e].op = "idle" => call'[e].at = "start"
               /\ call'[e].at = "open" => call'[e].n = 0
               /\ call'[e].at = "map" => call'[e].n < call'[e].size
               /\ call'[e].at = "restore" => Of(e)' \in loose'
    BY <1>1, <1>2 DEF Shapes, Of
  <1> QED
    BY <1>3 DEF Shapes

\* The server takes a request that changes no size and opens nothing.
LEMMA Served ==
    ASSUME SInv, SInv', PInv, ~Corrupt, NEW c \in Clients, ipc[c] = "send",
           call[c].at = "set_size" => Of(c) \notin Entries,
           NEW r, NEW b, Answers(c, r, 0, b), f_size' = f_size, o_file' = o_file,
           loose \subseteq loose', \A i \in Entries \ loose' : o_file[i] # Null => Carried(o_file[i])
    PROVE  Entered' /\ Shapes'
  <1>1. Shapes'
    BY AnswerShapes DEF PInv
  <1>2. ASSUME NEW i \in Entries, Holders(i)' # {}, i \notin loose' PROVE Broken(Cache', o_file'[i]) \/ EntryGood(i)'
    <2>1. Holders(i) # {} /\ i \notin loose
      BY <1>2 DEF Answers, Holders
    <2>2. PICK h \in Holders(i) : TRUE
      BY <2>1
    <2>3. o_file[i] # Null
      BY <2>2, ServNumbers DEF Holders, SInv, Opens
    <2> QED
      BY <1>2, <2>1, <2>3, AnswerKeeps DEF PInv
  <1> QED
    BY <1>1, <1>2 DEF Entered

\* A request about a descriptor finds it: HasFd.
LEMMA FindsEntry ==
    ASSUME SInv, NEW c \in Clients, call[c].at \in FdSteps
    PROVE  open_lookup(Of(c)) /\ Of(c) \in Entries /\ <<c, call[c].d>> \in Holders(Of(c)) /\ o_file[Of(c)] # Null
  <1>1. Of(c) # 0 /\ call[c].d \in Fds
    <2>1. HasFd /\ call[c] \in Calls
      BY DEF SInv, Types
    <2> QED
      BY <2>1 DEF HasFd, Of, Calls, CallShapes
  <1>2. Of(c) \in Entries
    BY <1>1 DEF Of, SInv, Types, FdTables
  <1>3. <<c, call[c].d>> \in Holders(Of(c))
    BY <1>2, OnlyHolder
  <1>4. open_lookup(Of(c))
    BY <1>1, <1>3 DEF open_lookup
  <1> QED
    BY <1>2, <1>3, <1>4, EntryOf DEF Of

\* The server serves.
LEMMA ServesClean ==
    ASSUME SInv, NEW c \in Clients, NEW at, Requests(c, at)
    PROVE  /\ ~Corrupt /\ IInv /\ Good(Cache) /\ Cache \in Caches /\ Clean(Cache)
           /\ \A i \in Opened : o_file[i] # Null => o_file[i] \in FileIds /\ NoInd(Cache, o_file[i][1])
                                                    /\ ~Broken(Cache, o_file[i])
  <1>1. ~Corrupt /\ IInv /\ Good(Cache)
    BY Requested DEF Serving
  <1> QED
    BY <1>1, ServingClean DEF Good

\* A handler that spares the files of the entries that are not loose.
LEMMA Sparing ==
    ASSUME SInv, SInv', NEW c \in Clients, NEW at, Requests(c, at),
           NEW m \in Caches, blk' = m.blk, NEW S, Spares(Cache, m, S)
    PROVE  \A i \in Opened : o_file[i] # Null /\ o_file[i] \notin S => Carried(o_file[i])
  <1>1. IInv /\ IInv'
    BY DEF SInv
  <1>2. \A f \in FileIds \ S : Carried(f)
    BY <1>1, Becoming
  <1> QED
    BY <1>2, ServesClean

\* A handler that changes no contents.
LEMMA Untouched ==
    ASSUME SInv, SInv', NEW c \in Clients, NEW at, Requests(c, at), blk' = blk
    PROVE  \A i \in Opened : o_file[i] # Null => Carried(o_file[i])
  <1>1. IInv /\ IInv'
    BY DEF SInv
  <1> QED
    BY <1>1, BlkStays, ServesClean

\* Marking dirty, closing and syncing.
LEMMA ServeDirtyPages == ASSUME SInv, SInv', PInv, NEW c \in Clients, ServeDirty(c) PROVE PInv'
  <1>1. Requests(c, "dirty")
    BY DEF ServeDirty
  <1>2. call[c].at = "dirty" /\ ipc[c] = "send" /\ ~Corrupt /\ Good(Cache) /\ call[c].n \in Nat
    BY <1>1, Requested, ServesClean
  <1>3. PICK i : i = Of(c)
    OBVIOUS
  <1>4. open_lookup(i) /\ i \in Opened /\ o_file[i] \in FileIds
    BY <1>1, <1>2, <1>3, FindsEntry, ServesClean, ServNumbers DEF FdSteps
  <1>5. PICK x : x = file_dirty(Cache, o_file[i], call[c].n)
    OBVIOUS
  <1>6. serve_dirty(i, call[c].n) /\ Answers(c, x.r, 0, 0) /\ f_size' = f_size /\ loose' = loose
    BY <1>3, <1>4, <1>5 DEF ServeDirty, OfEntry, Of
  <1>7. blk' = blk /\ o_file' = o_file
    <2>1. x.m.blk = Cache.blk
      BY <1>2, <1>4, <1>5, DirtySame
    <2> QED
      BY <1>5, <1>6, <2>1 DEF serve_dirty, Becomes, Cache
  <1>8. \A e \in Entries : o_file[e] # Null => Carried(o_file[e])
    BY <1>1, <1>7, Untouched, ServNumbers
  <1>9. Entered' /\ Shapes'
    BY <1>2, <1>6, <1>7, <1>8, Served
  <1>10. Pending'
    BY <1>2, <1>6, NothingPending
  <1> QED
    BY <1>9, <1>10 DEF PInv

LEMMA ServeClosePages == ASSUME SInv, SInv', PInv, NEW c \in Clients, ServeClose(c) PROVE PInv'
  <1>1. Requests(c, "close")
    BY DEF ServeClose
  <1>2. call[c].at = "close" /\ ipc[c] = "send" /\ ~Corrupt /\ Good(Cache)
    BY <1>1, Requested, ServesClean
  <1>3. PICK i : i = Of(c)
    OBVIOUS
  <1>4. open_lookup(i) /\ i \in Opened /\ o_file[i] \in FileIds
    BY <1>1, <1>2, <1>3, FindsEntry, ServesClean, ServNumbers DEF FdSteps
  <1>5. serve_close(i) /\ Answers(c, "ok", 0, 0) /\ f_size' = f_size /\ loose' = loose
    BY <1>3, <1>4 DEF ServeClose, OfEntry, Of
  <1>6. blk' = blk /\ o_file' = o_file
    <2>1. file_close(Cache, o_file[i]).blk = Cache.blk
      BY <1>2, <1>4, CloseSame
    <2> QED
      BY <1>5, <2>1 DEF serve_close, Becomes, Cache
  <1>7. \A e \in Entries : o_file[e] # Null => Carried(o_file[e])
    BY <1>1, <1>6, Untouched, ServNumbers
  <1>8. Entered' /\ Shapes'
    BY <1>2, <1>5, <1>6, <1>7, Served
  <1>9. Pending'
    BY <1>2, <1>5, NothingPending
  <1> QED
    BY <1>8, <1>9 DEF PInv

LEMMA ServeSyncPages == ASSUME SInv, SInv', PInv, NEW c \in Clients, ServeSync(c) PROVE PInv'
  <1>1. Requests(c, "sync") /\ serve_sync /\ Answers(c, "ok", 0, 0) /\ f_size' = f_size /\ loose' = loose
    BY DEF ServeSync
  <1>2. call[c].at = "sync" /\ ipc[c] = "send" /\ ~Corrupt
    BY <1>1, Requested, ServesClean
  <1>3. blk' = blk /\ o_file' = o_file
    BY <1>1 DEF serve_sync, Becomes, fs_sync, Cache
  <1>4. \A e \in Entries : o_file[e] # Null => Carried(o_file[e])
    BY <1>1, <1>3, Untouched, ServNumbers
  <1>5. Entered' /\ Shapes'
    BY <1>1, <1>2, <1>3, <1>4, Served
  <1>6. Pending'
    BY <1>1, <1>2, NothingPending
  <1> QED
    BY <1>5, <1>6 DEF PInv

\* A removed file makes the entries that have it loose.
LEMMA ServeRemovePages == ASSUME SInv, SInv', PInv, NEW c \in Clients, ServeRemove(c) PROVE PInv'
  <1>1. Requests(c, "remove")
    BY DEF ServeRemove
  <1>2. call[c].at = "remove" /\ ipc[c] = "send" /\ ~Corrupt /\ Good(Cache) /\ Clean(Cache) /\ call[c].path \in Paths
    BY <1>1, Requested, ServesClean DEF PathSteps
  <1>3. PICK x : x = file_remove(Cache, call[c].path)
    OBVIOUS
  <1>4. /\ serve_remove(call[c].path) /\ Answers(c, x.r, 0, 0) /\ f_size' = f_size
        /\ loose' = loose \cup IF x.r = "ok" THEN Aliases(0, x.file) ELSE {}
    BY <1>3 DEF ServeRemove
  <1>5. blk' = x.m.blk /\ o_file' = o_file
    BY <1>3, <1>4 DEF serve_remove, Becomes
  <1>6. x.m \in Caches
    BY <1>2, <1>3, FileRemoveSound, SoundFacts
  <1>7. PICK S : S = IF x.r = "ok" THEN {x.file} ELSE {}
    OBVIOUS
  <1>8. Spares(Cache, x.m, S)
    BY <1>2, <1>3, <1>7, FileRemoveSpares
  <1>9. PICK m \in Caches : m = x.m
    BY <1>6
  <1>10. \A i \in Opened : o_file[i] # Null /\ o_file[i] \notin S => Carried(o_file[i])
    BY <1>1, <1>5, <1>8, <1>9, Sparing
  <1>11. ASSUME NEW i \in Entries \ loose', o_file[i] # Null PROVE Carried(o_file[i])
    <2>1. o_file[i] \notin S
      <3>1. i # 0 /\ i \in Entries \ {0}
        BY ServNumbers
      <3> QED
        BY <1>4, <1>7, <1>11, <3>1 DEF Aliases
    <2> QED
      BY <1>10, <1>11, <2>1, ServNumbers
  <1>12. Entered' /\ Shapes'
    BY <1>2, <1>4, <1>5, <1>11, Served
  <1>13. Pending'
    BY <1>2, <1>4, NothingPending
  <1> QED
    BY <1>12, <1>13 DEF PInv

\* A new file takes nothing from another.
LEMMA ServeCreatePages == ASSUME SInv, SInv', PInv, NEW c \in Clients, ServeCreate(c) PROVE PInv'
  <1>1. Requests(c, "create")
    BY DEF ServeCreate
  <1>2. /\ call[c].at = "create" /\ ipc[c] = "send" /\ ~Corrupt /\ Good(Cache) /\ Clean(Cache)
        /\ Cache \in Caches /\ call[c].path \in Paths
    BY <1>1, Requested, ServesClean DEF PathSteps
  <1>3. PICK x : x = file_create(Cache, call[c].path)
    OBVIOUS
  <1>4. serve_create(call[c].path, FALSE) /\ Answers(c, x.r, 0, 0) /\ f_size' = f_size /\ loose' = loose
    BY <1>3 DEF ServeCreate
  <1>5. Finds(x) /\ Makes(Cache, x) /\ x \in Results /\ Good(x.m) /\ x.m \in Caches
    BY <1>2, <1>3, FileCreateFinds, FileCreateMakes, SoundFacts DEF Finds
  <1>6. PICK y : y = IF x.r = "ok"
                     THEN [x EXCEPT !.m = Put(@, x.file, [File(@, x.file) EXCEPT !.isdir = FALSE])] ELSE x
    OBVIOUS
  <1>7. Becomes(y.m) /\ o_file' = o_file
    BY <1>3, <1>4, <1>6 DEF serve_create, Then
  <1>8. y.m \in Caches /\ Evolves(Cache, y.m)
    <2>1. CASE x.r = "ok"
      <3>1. PICK f \in FileIds : f = x.file
        BY <1>5, <2>1, EntryIsFile DEF Finds
      <3>2. PICK old \in FileType : old = File(x.m, f)
        BY <1>5, <3>1, FileTyped
      <3>3. PICK new : new = [old EXCEPT !.isdir = FALSE]
        OBVIOUS
      <3>4. new \in FileType /\ (\A k \in 0..NDIRECT : PtrOf(new, k) = PtrOf(old, k)) /\ new.size = old.size
        <4>1. PICK no \in BOOLEAN : no = FALSE
          OBVIOUS
        <4>2. new = [old EXCEPT !.isdir = no]
          BY <3>3, <4>1
        <4>3. new.size = old.size
          BY <4>2 DEF FileType
        <4> QED
          BY <4>2, <4>3, SamePtrs
      <3>5. old.size <= new.size
        BY <1>5, <3>1, <3>2, <3>4, FileTyped, Numbers
      <3>6. PICK n : n = Put(x.m, f, new)
        OBVIOUS
      <3>7. NoInd(x.m, f[1])
        BY <1>5, <2>1, <3>1 DEF Makes, Steady
      <3>8. n \in Caches /\ Evolves(x.m, n)
        BY <1>5, <3>2, <3>4, <3>5, <3>6, <3>7, GentlePut
      <3>9. Evolves(Cache, n)
        BY <1>2, <1>5, <3>8, EvolvesTrans DEF Makes
      <3>10. y = [x EXCEPT !.m = n]
        BY <1>5, <1>6, <2>1, <3>1, <3>2, <3>3, <3>6 DEF Results
      <3>11. y.m = n
        BY <1>5, <3>10 DEF Results
      <3> QED
        BY <3>8, <3>9, <3>11
    <2>2. CASE x.r # "ok"
      BY <1>5, <1>6, <2>2 DEF Makes
    <2> QED
      BY <2>1, <2>2
  <1>9. PICK m \in Caches : m = y.m
    BY <1>8
  <1>10. Spares(Cache, m, {}) /\ blk' = m.blk
    BY <1>2, <1>7, <1>8, <1>9, SparedFiles DEF Becomes
  <1>11. \A i \in Entries : o_file[i] # Null => Carried(o_file[i])
    BY <1>1, <1>9, <1>10, Sparing, ServNumbers
  <1>12. Entered' /\ Shapes'
    BY <1>2, <1>4, <1>7, <1>11, Served
  <1>13. Pending'
    BY <1>2, <1>4, NothingPending
  <1> QED
    BY <1>12, <1>13 DEF PInv

\* A mapped block is the block of the file.
LEMMA ServeMapPages == ASSUME SInv, SInv', PInv, NEW c \in Clients, ServeMap(c) PROVE PInv'
  <1>1. Requests(c, "map")
    BY DEF ServeMap
  <1>2. /\ call[c].at = "map" /\ ipc[c] = "send" /\ ~Corrupt /\ Good(Cache) /\ Clean(Cache) /\ Cache \in Caches
        /\ call[c].n \in Nat
    BY <1>1, Requested, ServesClean
  <1>3. PICK i : i = Of(c)
    OBVIOUS
  <1>4. open_lookup(i) /\ i \in Opened /\ o_file[i] # Null
    BY <1>1, <1>2, <1>3, FindsEntry, ServNumbers DEF FdSteps
  <1>5. PICK f \in FileIds : f = o_file[i] /\ NoInd(Cache, f[1])
    BY <1>1, <1>4, ServesClean
  <1>6. PICK x : x = file_get_block(Cache, f, call[c].n)
    OBVIOUS
  <1>7. /\ Becomes(x.m) /\ o_file' = o_file /\ Answers(c, x.r, 0, IF x.r = "ok" THEN x.b ELSE 0)
        /\ f_size' = f_size /\ loose' = loose
    BY <1>3, <1>4, <1>5, <1>6 DEF ServeMap, OfEntry, Of, serve_map
  <1>8. BlockFound(Cache, f, call[c].n, x)
    BY <1>2, <1>5, <1>6, GetBlockFound
  <1>9. PICK m \in Caches : m = x.m
    BY <1>8 DEF BlockFound
  <1>10. Spares(Cache, m, {}) /\ blk' = m.blk
    BY <1>7, <1>8, <1>9 DEF BlockFound, Spares, Becomes
  <1>11. \A e \in Entries : o_file[e] # Null => Carried(o_file[e])
    BY <1>1, <1>9, <1>10, Sparing, ServNumbers
  <1>12. PICK b : b = IF x.r = "ok" THEN x.b ELSE 0
    OBVIOUS
  <1>13. Answers(c, x.r, 0, b)
    BY <1>7, <1>12
  <1>14. Entered' /\ Shapes'
    BY <1>2, <1>7, <1>11, <1>13, Served
  <1>15. /\ server'.to = c /\ server'.r = x.r /\ server'.entry = 0 /\ server'.block = b
         /\ fd' = fd /\ call' = call
    BY <1>13 DEF Answers
  <1>16. ASSUME x.r = "ok"
         PROVE  Broken(Cache', f) \/ (HasPtr(Cache', f, call[c].n) /\ b # 0 /\ b = Ptr(Cache', f, call[c].n))
    <2>1. PICK n : n = Cache'
      OBVIOUS
    <2>2. n \in Caches /\ n.blk = m.blk
      BY <1>10, <2>1 DEF SInv, IInv, Good, Cache
    <2>3. x.b \in Data
      BY <1>2, <1>5, <1>6, <1>16, FileGetBlock
    <2>4. CASE HasPtr(m, f, call[c].n) /\ Ptr(m, f, call[c].n) = x.b
      <3>1. x.b # 0
        BY <2>3, Numbers
      <3>2. HasPtr(n, f, call[c].n) /\ Ptr(n, f, call[c].n) = x.b
        BY <2>2, <2>4, SameContents DEF HasPtr
      <3> QED
        BY <1>12, <1>16, <2>1, <3>1, <3>2
    <2>5. CASE m.blk[f[1]].kind # "dir"
      BY <2>1, <2>2, <2>5 DEF Broken
    <2> QED
      BY <1>8, <1>9, <1>16, <2>4, <2>5 DEF BlockFound
  <1>17. Pending'
    <2>1. o_file'[Of(c)'] = f
      BY <1>3, <1>5, <1>7, <1>15 DEF Of
    <2>2. server'.entry = 0 /\ call'[server'.to].at = "map" /\ server'.to # NoClient
      BY <1>2, <1>15, ServNumbers
    <2>3. server'.to = c /\ o_file'[fd'[server'.to][call'[server'.to].d]] = f /\ call'[server'.to].n = call[c].n
      BY <1>15, <2>1 DEF Of
    <2>4. PICK g : g = o_file'[fd'[server'.to][call'[server'.to].d]]
      OBVIOUS
    <2>5. server'.r = "ok" =>
            \/ Broken(Cache', g)
            \/ /\ HasPtr(Cache', g, call'[server'.to].n)
               /\ server'.block # 0 /\ server'.block = Ptr(Cache', g, call'[server'.to].n)
      BY <1>15, <1>16, <2>3, <2>4
    <2>6. g = o_file'[Of(server.to)']
      BY <2>4 DEF Of
    <2>7. server'.block # 0 => server'.to # NoClient /\ call'[server'.to].at = "map"
      BY <2>2
    <2> QED
      BY <2>2, <2>5, <2>6, <2>7 DEF Pending
  <1> QED
    BY <1>14, <1>17 DEF PInv

\* A file that is opened is readable, and has the size that its Filefd page
\* says; the files of the entries that somebody has are spared, or, if it is
\* the same file and the open truncates it, the entries are loose.
LEMMA ServeOpenPages == ASSUME SInv, SInv', PInv, NEW c \in Clients, ServeOpen(c) PROVE PInv'
  <1>1. Requests(c, "open")
    BY DEF ServeOpen
  <1>2. /\ call[c].at = "open" /\ ipc[c] = "send" /\ ~Corrupt /\ Good(Cache) /\ Clean(Cache) /\ Cache \in Caches
        /\ call[c].path \in Paths /\ call[c].creat \in BOOLEAN /\ call[c].trunc \in BOOLEAN
    BY <1>1, Requested, ServesClean DEF PathSteps
  <1>3. CASE open_alloc = {}
    <2>1. Answers(c, "MAX_OPEN", 0, 0) /\ UNCHANGED vars /\ f_size' = f_size /\ loose' = loose
      BY <1>3 DEF ServeOpen
    <2>2. blk' = blk /\ o_file' = o_file
      BY <2>1 DEF vars
    <2>3. \A e \in Entries : o_file[e] # Null => Carried(o_file[e])
      BY <1>1, <2>2, Untouched, ServNumbers
    <2>4. Entered' /\ Shapes'
      BY <1>2, <2>1, <2>2, <2>3, Served
    <2>5. Pending'
      BY <1>2, <2>1, NothingPending
    <2> QED
      BY <2>4, <2>5 DEF PInv
  <1>4. CASE open_alloc # {}
    <2>1. PICK i, x : /\ i = Min(open_alloc)
                      /\ x = Opening(IF call[c].creat THEN file_create(Cache, call[c].path)
                                     ELSE Ok(Cache), call[c].path)
                      /\ OpenAs(i, x, call[c].trunc)
                      /\ f_size' = [f_size EXCEPT ![i] = IF x.r # "ok" \/ call[c].trunc THEN 0
                                                         ELSE File(x.m, x.file).size]
                      /\ loose' = (loose \ {i}) \cup
                                    IF x.r = "ok" /\ call[c].trunc THEN Aliases(i, x.file) ELSE {}
                      /\ Answers(c, x.r, FdPage(i, x), 0)
      BY <1>4 DEF ServeOpen
    <2>2. i \in Entries /\ Holders(i) = {}
      <3>1. open_alloc \subseteq Entries /\ open_alloc \subseteq Nat
        BY ServNumbers DEF open_alloc
      <3>2. i \in open_alloc
        BY <1>4, <2>1, <3>1, MinIsMember
      <3> QED
        BY <3>2 DEF open_alloc
    <2>3. /\ Finds(x) /\ Good(x.m) /\ x.m \in Caches /\ Makes(Cache, x)
          /\ x.r = "ok" => x.m.blk[x.file[1]].kind = "dir" /\ x.file \in FileIds
      BY <1>2, <2>1, OpeningFinds, OpeningMakes, SoundFacts, EntryIsFile DEF Finds
    <2>4. PICK m : m = IF x.r = "ok" /\ call[c].trunc THEN file_set_size(x.m, x.file, 0) ELSE x.m
      OBVIOUS
    <2>5. PICK S : S = IF x.r = "ok" /\ call[c].trunc THEN {x.file} ELSE {}
      OBVIOUS
    <2>6. m \in Caches /\ Spares(Cache, m, S)
      <3>1. CASE x.r = "ok" /\ call[c].trunc
        <4>1. PICK f \in FileIds, new \in 0..(NINDIRECT + 1) : f = x.file /\ new = 0
          BY <2>3, <3>1, Numbers
        <4>2. Clean(x.m) /\ NoInd(x.m, f[1])
          BY <2>3, <3>1, <4>1 DEF Makes, Steady
        <4>3. m = file_set_size(x.m, f, new)
          BY <2>4, <3>1, <4>1
        <4>4. Cut(x.m, m, f, new) /\ m \in Caches /\ new \in Nat
          BY <2>3, <4>1, <4>2, <4>3, FileSetSizeCuts
        <4>5. Spares(Cache, m, {f})
          BY <1>2, <2>3, <4>2, <4>4, SparedFiles DEF Makes
        <4> QED
          BY <2>5, <3>1, <4>1, <4>4, <4>5
      <3>2. CASE ~(x.r = "ok" /\ call[c].trunc)
        BY <1>2, <2>3, <2>4, <3>2, SparedFiles DEF Makes
      <3> QED
        BY <3>1, <3>2
    <2>7. blk' = m.blk /\ o_file' = IF x.r = "ok" THEN [o_file EXCEPT ![i] = x.file] ELSE o_file
      BY <2>1, <2>4 DEF OpenAs, Becomes
    <2>8. \A e \in Opened : o_file[e] # Null /\ o_file[e] \notin S => Carried(o_file[e])
      BY <1>1, <2>6, <2>7, Sparing
    <2>9. f_size \in [Entries -> FileSizes] /\ o_file \in [Entries -> {Null} \cup Entry]
      BY <1>1, Requested, ServNumbers
    <2>10. ASSUME NEW e \in Entries, Holders(e) # {}, e \notin loose'
           PROVE  Broken(Cache', o_file'[e]) \/ EntryGood(e)'
      <3>1. e # i /\ f_size'[e] = f_size[e] /\ o_file'[e] = o_file[e]
        BY <2>1, <2>2, <2>7, <2>9, <2>10
      <3>2. e \notin loose
        BY <2>1, <2>10, <3>1
      <3>3. PICK h \in Holders(e) : TRUE
        BY <2>10
      <3>4. o_file[e] # Null
        BY <3>3, ServNumbers DEF Holders, SInv, Opens
      <3>5. o_file[e] \notin S
        BY <2>1, <2>5, <2>10, <3>1, <3>4 DEF Aliases
      <3>6. Carried(o_file[e])
        BY <2>8, <3>4, <3>5, ServNumbers
      <3>7. call[c].at # "set_size"
        BY <1>2
      <3> QED
        BY <1>2, <2>1, <2>10, <3>1, <3>2, <3>6, <3>7, AnswerKeeps DEF PInv
    <2>11. \A e \in Entries : Holders(e) = Holders(e)'
      BY <2>1 DEF Answers, Holders
    <2>12. Entered'
      BY <2>10, <2>11 DEF Entered
    <2>13. Shapes'
      <3>1. \A e \in Entries : Holders(e) # {} /\ e \in loose => e \in loose'
        BY <2>1, <2>2
      <3> QED
        BY <2>1, <3>1, AnswerShapes DEF PInv
    <2>14. Pending'
      <3>1. /\ server'.to = c /\ server'.r = x.r /\ server'.entry = FdPage(i, x) /\ server'.block = 0
            /\ call' = call
        BY <2>1 DEF Answers
      <3>2. c # NoClient
        BY ServNumbers
      <3>3. ASSUME x.r = "ok" PROVE Holders(i)' = {} /\ f_size'[i] <= FileSize(i)'
        <4>1. o_file'[i] = x.file
          BY <2>2, <2>7, <2>9, <3>3
        <4>2. PICK n : n = Cache'
          OBVIOUS
        <4>3. n \in Caches /\ n.blk = m.blk
          BY <2>7, <4>2 DEF SInv, IInv, Good, Cache
        <4>4. File(n, x.file) = File(m, x.file)
          BY <4>3, SameContents
        <4>5. File(m, x.file).size \in Nat
          BY <2>3, <2>6, <3>3, FileTyped, Numbers
        <4>6. f_size'[i] <= File(m, x.file).size
          <5>1. CASE call[c].trunc
            BY <2>1, <2>2, <2>9, <4>5, <5>1
          <5>2. CASE ~call[c].trunc
            <6>1. f_size'[i] = File(x.m, x.file).size /\ m = x.m
              BY <2>1, <2>2, <2>4, <2>9, <3>3, <5>2
            <6> QED
              BY <4>5, <6>1
          <5> QED
            BY <5>1, <5>2
        <4> QED
          BY <2>2, <2>11, <4>1, <4>2, <4>4, <4>6 DEF FileSize
      <3>4. CASE x.r = "ok"
        BY <1>2, <3>1, <3>2, <3>3, <3>4 DEF Pending, FdPage
      <3>5. CASE x.r # "ok"
        BY <1>2, <3>1, <3>2, <3>5 DEF Pending, FdPage
      <3> QED
        BY <3>4, <3>5
    <2> QED
      BY <2>12, <2>13, <2>14 DEF PInv
  <1> QED
    BY <1>3, <1>4

\* A single holder.
LEMMA SingleHolder ==
    ASSUME NEW i, NEW h \in Holders(i), ~(Cardinality(Holders(i)) > 1)
    PROVE  Holders(i) = {h}
  <1>1. IsFiniteSet(Fds)
    BY FS_Interval, FsServAssumption DEF Fds
  <1>2. IsFiniteSet(Clients \X Fds)
    BY <1>1, FS_Product, FsServAssumption
  <1>3. Holders(i) \subseteq Clients \X Fds
    BY DEF Holders
  <1>4. IsFiniteSet(Holders(i))
    BY <1>2, <1>3, FS_Subset
  <1>5. Cardinality(Holders(i)) \in Nat /\ Cardinality({h}) = 1 /\ {h} \in SUBSET Holders(i)
    BY <1>4, FS_CardinalityType, FS_Singleton
  <1>6. Cardinality({h}) <= Cardinality(Holders(i))
    BY <1>4, <1>5, FS_Subset
  <1>7. Cardinality(Holders(i)) = Cardinality({h})
    BY <1>5, <1>6
  <1> QED
    BY <1>4, <1>5, <1>7, FS_Subset

\* The pages below the cut stay.
LEMMA CutBacks ==
    ASSUME NEW m \in Caches, NEW n \in Caches, NEW f \in FileIds, NEW new \in Nat, Cut(m, n, f, new),
           NEW k \in Nat, k <= new, NEW pages, Backs(m, pages, f, k)
    PROVE  Backs(n, pages, f, k)
  <1>1. File(n, f).size \in Nat
    BY FileTyped, Numbers
  <1>2. k <= File(n, f).size
    BY <1>1 DEF Cut
  <1>3. ASSUME NEW j \in 0..(k - 1) PROVE HasPtr(n, f, j) /\ pages[j] # 0 /\ pages[j] = Ptr(n, f, j)
    <2>1. HasPtr(m, f, j) /\ pages[j] # 0 /\ pages[j] = Ptr(m, f, j) /\ j \in 0..(NINDIRECT - 1) /\ j < new
      BY <1>3 DEF Backs, HasPtr
    <2> QED
      BY <2>1 DEF Cut
  <1> QED
    BY <1>2, <1>3 DEF Backs

\* A client that asked alone for another size has the pages of the smaller one.
LEMMA Resized ==
    ASSUME SInv, SInv', NEW c \in Clients, NEW i \in Entries, ipc[c] = "send", call[c].at = "set_size",
           Of(c) = i, EntryGood(i), Holders(i) = {<<c, call[c].d>>},
           NEW r, NEW j, NEW b, Answers(c, r, j, b),
           f_size' = f_size, o_file' = o_file, o_file[i] \in FileIds,
           NEW m \in Caches, blk' = m.blk, Cut(Cache, m, o_file[i], call[c].size)
    PROVE  EntryGood(i)'
  <1>1. PICK l, n, f : l = Cache /\ n = Cache' /\ f = o_file[i]
    OBVIOUS
  <1>2. l \in Caches /\ n \in Caches /\ n.blk = m.blk /\ f \in FileIds /\ Cut(l, m, f, call[c].size)
    BY <1>1 DEF SInv, IInv, Good, Cache
  <1>3. call[c] \in CallShapes /\ call[c].old \in Nat /\ call[c].size \in Nat
    BY Numbers DEF SInv, Types, Calls, CallShapes, FileSizes
  <1>4. fd' = fd /\ page' = page /\ call' = call /\ ipc'[c] = "wait"
    BY DEF Answers, SInv, Types
  <1>5. Holders(i)' = {<<c, call[c].d>>} /\ Of(c)' = i
    BY <1>4 DEF Holders, Of
  <1>6. \A e \in Clients : Of(e)' = i => e = c
    <2>1. ASSUME NEW e \in Clients, Of(e)' = i PROVE e = c
      <3>1. Of(e) = i
        BY <1>4, <2>1 DEF Of
      <3>2. <<e, call[e].d>> \in Holders(i)
        BY <3>1, OnlyHolder
      <3> QED
        BY <3>2
    <2> QED
      BY <2>1
  <1>7. f_size[i] = call[c].size /\ \A h \in Holders(i) : Backs(l, page[h[1]][h[2]], f, call[c].old)
    <2>1. Asks(c, i)
      BY DEF Asks
    <2>2. \A e \in Clients : Asks(e, i) => e = c
      BY <1>4, <1>6 DEF Asks, Of
    <2> QED
      BY <1>1, <2>1, <2>2 DEF EntryGood, Asking, AllBack
  <1>8. PICK k \in Nat : k = IF call[c].old < call[c].size THEN call[c].old ELSE call[c].size
    BY <1>3
  <1>9. \A h \in Holders(i) : Backs(n, page[h[1]][h[2]], f, k)
    <2>1. ASSUME NEW h \in Holders(i) PROVE Backs(n, page[h[1]][h[2]], f, k)
      <3>1. PICK pages : pages = page[h[1]][h[2]]
        OBVIOUS
      <3>2. Backs(l, pages, f, call[c].old)
        BY <1>7, <3>1
      <3>3. k <= call[c].old /\ k <= call[c].size
        BY <1>3, <1>8
      <3>4. Backs(l, pages, f, k)
        <4>1. File(l, f).size \in Nat
          BY <1>2, FileTyped, Numbers
        <4>2. 0..(k - 1) \subseteq 0..(call[c].old - 1)
          BY <1>3, <3>3
        <4> QED
          BY <1>3, <3>2, <3>3, <4>1, <4>2 DEF Backs
      <3>5. Backs(m, pages, f, k)
        BY <1>2, <1>3, <3>3, <3>4, CutBacks
      <3>6. Backs(n, pages, f, k)
        BY <1>2, <3>5, SameBlk, CoversBacks
      <3> QED
        BY <3>1, <3>6
    <2> QED
      BY <2>1
  <1>10. call[c].size <= File(n, f).size
    BY <1>2, SameContents DEF Cut
  <1>11. Mapping(c, i)'
    <2>1. Done(c)' = k
      BY <1>4, <1>8 DEF Done
    <2>2. AllBack(i, Done(c))'
      BY <1>1, <1>4, <1>5, <1>9, <2>1 DEF AllBack
    <2> QED
      BY <1>1, <1>4, <1>5, <1>7, <1>10, <2>2 DEF Mapping, FileSize
  <1>12. \A e \in Clients : ~Asks(e, i)'
    BY <1>4, <1>6 DEF Asks
  <1>13. Maps(c, i)'
    BY <1>4, <1>5 DEF Maps
  <1>14. \A e \in Clients : Maps(e, i)' => e = c
    BY <1>6 DEF Maps
  <1> QED
    BY <1>11, <1>12, <1>13, <1>14 DEF EntryGood

\* The file of the client's entry is cut, or grows; the entries of the same
\* file are loose if it is cut.
LEMMA ServeSetSizePages == ASSUME SInv, SInv', PInv, NEW c \in Clients, ServeSetSize(c) PROVE PInv'
  <1>1. PICK at \in {"set_size", "restore"} :
          /\ Requests(c, at)
          /\ IF open_lookup(Of(c))
             THEN \E new \in {IF at = "set_size" THEN call[c].size ELSE call[c].old} :
                     /\ serve_set_size(Of(c), new)
                     /\ loose' = loose
                          \cup (IF File(Cache, o_file[Of(c)]).size > new THEN Aliases(Of(c), o_file[Of(c)]) ELSE {})
                          \cup (IF Cardinality(Holders(Of(c))) > 1 THEN {Of(c)} ELSE {})
                     /\ Answers(c, "ok", 0, 0) /\ f_size' = f_size
             ELSE Invalid(c)
    BY DEF ServeSetSize, OfEntry, Of
  <1>2. /\ call[c].at = at /\ ipc[c] = "send" /\ ~Corrupt /\ Good(Cache) /\ Clean(Cache) /\ Cache \in Caches
        /\ call[c].size \in FileSizes /\ call[c].old \in FileSizes
    BY <1>1, Requested, ServesClean
  <1>3. PICK i : i = Of(c)
    OBVIOUS
  <1>4. open_lookup(i) /\ i \in Opened /\ i \in Entries /\ o_file[i] # Null /\ <<c, call[c].d>> \in Holders(i)
    BY <1>1, <1>2, <1>3, FindsEntry, ServNumbers DEF FdSteps
  <1>5. PICK f \in FileIds : f = o_file[i] /\ NoInd(Cache, f[1]) /\ ~Broken(Cache, f)
    BY <1>1, <1>4, ServesClean
  <1>6. PICK new \in 0..(NINDIRECT + 1) : new = IF at = "set_size" THEN call[c].size ELSE call[c].old
    BY <1>2 DEF FileSizes
  <1>7. PICK m : m = file_set_size(Cache, f, new)
    OBVIOUS
  <1>8. /\ Becomes(m) /\ o_file' = o_file /\ Answers(c, "ok", 0, 0) /\ f_size' = f_size
        /\ loose' = loose \cup (IF File(Cache, f).size > new THEN Aliases(i, f) ELSE {})
                          \cup (IF Cardinality(Holders(i)) > 1 THEN {i} ELSE {})
    BY <1>1, <1>3, <1>4, <1>5, <1>6, <1>7 DEF serve_set_size
  <1>9. m \in Caches /\ Cut(Cache, m, f, new) /\ (File(Cache, f).size <= new => Covers(Cache, m, f)) /\ blk' = m.blk
    BY <1>2, <1>5, <1>7, <1>8, FileSetSizeCuts DEF Becomes
  <1>10. PICK S : S = IF File(Cache, f).size > new THEN {f} ELSE {}
    OBVIOUS
  <1>11. Spares(Cache, m, S)
    <2>1. File(Cache, f).size \in Nat
      BY <1>2, FileTyped, Numbers
    <2>2. ASSUME NEW g \in FileIds \ S PROVE Covers(Cache, m, g)
      BY <1>9, <1>10, <2>1, <2>2 DEF Cut
    <2> QED
      BY <2>2 DEF Spares
  <1>12. \A e \in Opened : o_file[e] # Null /\ o_file[e] \notin S => Carried(o_file[e])
    BY <1>1, <1>9, <1>11, Sparing
  <1>13. ASSUME NEW e \in Entries, Holders(e) # {}, e \notin loose'
         PROVE  Broken(Cache', o_file'[e]) \/ EntryGood(e)'
    <2>1. e \notin loose
      BY <1>8, <1>13
    <2>2. CASE e # i
      <3>1. PICK h \in Holders(e) : TRUE
        BY <1>13
      <3>2. o_file[e] # Null
        BY <3>1, ServNumbers DEF Holders, SInv, Opens
      <3>3. o_file[e] \notin S
        BY <1>8, <1>10, <1>13, <2>2, <3>2 DEF Aliases
      <3>4. Carried(o_file[e])
        BY <1>12, <3>2, <3>3, ServNumbers
      <3> QED
        BY <1>2, <1>3, <1>8, <1>13, <2>1, <2>2, <3>4, AnswerKeeps DEF PInv
    <2>3. CASE e = i
      <3>1. at = "set_size"
        BY <1>1, <1>2, <1>3, <2>1, <2>3 DEF PInv, Shapes
      <3>2. Holders(i) = {<<c, call[c].d>>}
        BY <1>4, <1>8, <1>13, <2>3, SingleHolder
      <3>3. EntryGood(i)
        BY <1>4, <1>5, <1>13, <2>1, <2>3 DEF PInv, Entered
      <3>4. Cut(Cache, m, o_file[i], call[c].size) /\ o_file[i] \in FileIds
        BY <1>5, <1>6, <1>9, <3>1
      <3> QED
        BY <1>2, <1>3, <1>4, <1>8, <1>9, <2>3, <3>1, <3>2, <3>3, <3>4, Resized
    <2> QED
      BY <2>2, <2>3
  <1>14. \A e \in Entries : Holders(e) = Holders(e)'
    BY <1>8 DEF Answers, Holders
  <1>15. Entered'
    BY <1>13, <1>14 DEF Entered
  <1>16. Shapes'
    <2>1. \A e \in Entries : Holders(e) # {} /\ e \in loose => e \in loose'
      BY <1>8
    <2> QED
      BY <1>8, <2>1, AnswerShapes DEF PInv
  <1>17. Pending'
    BY <1>2, <1>8, NothingPending
  <1> QED
    BY <1>15, <1>16, <1>17 DEF PInv

-----------------------------------------------------------------------------
\* What the answer changes at its client.
Delivered(c) ==
    /\ c \in Clients /\ ipc[c] = "wait" /\ call[c] \in CallShapes
    /\ server' = Receiving /\ blk' = blk /\ o_file' = o_file /\ f_size' = f_size /\ call' = call
    /\ loose' = loose
    /\ ipc'[c] = "done" /\ reply'[c] = server.r
    /\ \A e \in Clients \ {c} : ipc'[e] = ipc[e] /\ reply'[e] = reply[e] /\ fd'[e] = fd[e] /\ page'[e] = page[e]
    /\ \A d \in Fds \ {call[c].d} : fd'[c][d] = fd[c][d] /\ page'[c][d] = page[c][d]
    /\ fd'[c][call[c].d] = IF server.entry = 0 THEN fd[c][call[c].d] ELSE server.entry
    /\ page'[c][call[c].d] = IF server.block = 0 THEN page[c][call[c].d]
                             ELSE [page[c][call[c].d] EXCEPT ![call[c].n] = server.block]

LEMMA AnswerChanges == ASSUME SInv, Answer, NEW c, c = server.to PROVE Delivered(c)
  <1>1. Types /\ Waits
    BY DEF SInv
  <1>2. c \in Clients
    BY <1>1 DEF Answer, Types, AnswerType
  <1>3. /\ fd' = IF server.entry = 0 THEN fd ELSE [fd EXCEPT ![c][call[c].d] = server.entry]
        /\ page' = IF server.block = 0 THEN page
                   ELSE [page EXCEPT ![c][call[c].d][call[c].n] = server.block]
        /\ reply' = [reply EXCEPT ![c] = server.r]
        /\ ipc' = [ipc EXCEPT ![c] = "done"]
        /\ server' = Receiving /\ blk' = blk /\ o_file' = o_file
        /\ f_size' = f_size /\ call' = call /\ loose' = loose
    BY DEF Answer, vars
  <1>4. call[c] \in CallShapes /\ call[c].d \in Fds
    BY <1>1, <1>2 DEF Types, Calls, CallShapes
  <1>5. fd \in [Clients -> [Fds -> {0} \cup Entries]] /\ page \in [Clients -> [Fds -> [Pages -> Ptrs]]]
    BY <1>1 DEF Types, FdTables, PageTables
  <1>6. /\ \A e \in Clients \ {c} : fd'[e] = fd[e]
        /\ \A d \in Fds \ {call[c].d} : fd'[c][d] = fd[c][d]
        /\ fd'[c][call[c].d] = IF server.entry = 0 THEN fd[c][call[c].d] ELSE server.entry
    <2>1. CASE server.entry = 0
      BY <1>3, <2>1
    <2>2. CASE server.entry # 0
      <3>1. server.entry \in {0} \cup Entries
        BY <1>1 DEF Types, AnswerType
      <3>2. fd' = [fd EXCEPT ![c][call[c].d] = server.entry]
        BY <1>3, <2>2
      <3> QED
        BY <1>2, <1>4, <1>5, <2>2, <3>1, <3>2, SetNested
    <2> QED
      BY <2>1, <2>2
  <1>7. /\ \A e \in Clients \ {c} : page'[e] = page[e]
        /\ \A d \in Fds \ {call[c].d} : page'[c][d] = page[c][d]
        /\ page'[c][call[c].d] = IF server.block = 0 THEN page[c][call[c].d]
                                 ELSE [page[c][call[c].d] EXCEPT ![call[c].n] = server.block]
    <2>1. CASE server.block = 0
      BY <1>3, <2>1
    <2>2. CASE server.block # 0
      <3>1. PICK h : h = [page[c][call[c].d] EXCEPT ![call[c].n] = server.block]
        OBVIOUS
      <3>2. server.block \in Ptrs
        BY <1>1 DEF Types, AnswerType
      <3>3. h \in [Pages -> Ptrs]
        BY <1>2, <1>4, <1>5, <3>1, <3>2
      <3>4. page' = [page EXCEPT ![c][call[c].d] = h]
        BY <1>3, <2>2, <3>1
      <3> QED
        BY <1>2, <1>4, <1>5, <2>2, <3>1, <3>3, <3>4, SetNested
    <2> QED
      BY <2>1, <2>2
  <1>8. ipc[c] = "wait"
    BY <1>1, <1>2 DEF Waits
  <1>9. ipc'[c] = "done" /\ reply'[c] = server.r /\ \A e \in Clients \ {c} : ipc'[e] = ipc[e] /\ reply'[e] = reply[e]
    BY <1>1, <1>2, <1>3 DEF Types
  <1> QED
    BY <1>2, <1>3, <1>4, <1>6, <1>7, <1>8, <1>9 DEF Delivered

\* Nothing is heard of an entry that the answer is not about.
LEMMA AnswerElsewhere ==
    ASSUME SInv, SInv', PInv, Answer, NEW c, c = server.to, NEW i \in Entries, i # server.entry,
           call[c].at = "map" => Of(c) # i, Holders(i)' # {}, i \notin loose,
           ~Broken(Cache, o_file[i])
    PROVE  EntryGood(i)' \/ Broken(Cache', o_file[i])
  <1>0. Delivered(c)
    BY AnswerChanges
  <1>1. PICK h \in Clients \X Fds : fd'[h[1]][h[2]] = i
    BY DEF Holders
  <1>2. fd[h[1]][h[2]] = i
    BY <1>0, <1>1 DEF Delivered
  <1>3. EntryGood(i) /\ o_file[i] # Null
    BY <1>1, <1>2, ServNumbers DEF PInv, Entered, Holders, SInv, Opens
  <1>4. o_file'[i] \in FileIds /\ o_file'[i] = o_file[i] /\ o_file[i] \in FileIds
    BY <1>0, <1>3, ServNumbers, EntryIsFile DEF Delivered, SInv, IInv
  <1>5. Carried(o_file[i])
    BY <1>0, <1>4, BlkStays DEF Delivered, SInv
  <1>6. ASSUME NEW g \in Holders(i)' PROVE g \in Holders(i) /\ page'[g[1]][g[2]] = page[g[1]][g[2]]
    <2>1. g \in Clients \X Fds /\ fd'[g[1]][g[2]] = i
      BY <1>6 DEF Holders
    <2>2. fd[g[1]][g[2]] = i
      BY <1>0, <2>1 DEF Delivered
    <2>3. page'[g[1]][g[2]] = page[g[1]][g[2]]
      <3>1. CASE g[1] # c \/ g[2] # call[c].d
        <4>1. g[1] \in Clients /\ g[2] \in Fds
          BY <2>1
        <4>2. CASE g[1] # c
          BY <1>0, <4>1, <4>2 DEF Delivered
        <4>3. CASE g[1] = c
          BY <1>0, <3>1, <4>1, <4>3 DEF Delivered
        <4> QED
          BY <4>2, <4>3
      <3>2. CASE g[1] = c /\ g[2] = call[c].d
        <4>1. server.block = 0
          BY <2>2, <3>2 DEF PInv, Pending, Of
        <4> QED
          BY <1>0, <3>2, <4>1 DEF Delivered
      <3> QED
        BY <3>1, <3>2
    <2> QED
      BY <2>1, <2>2, <2>3 DEF Holders
  <1>7. ASSUME NEW e \in Clients PROVE SameFor(e, i)
    <2>1. CASE e # c
      <3>1. call'[e] = call[e] /\ reply'[e] = reply[e] /\ Of(e)' = Of(e) /\ ipc'[e] = ipc[e]
        BY <1>0, <2>1 DEF Delivered, Of
      <3> QED
        BY <3>1, SameClient
    <2>2. CASE e = c /\ server.entry # 0
      <3>1. call[c].at = "open" /\ Of(c)' # i /\ ipc[c] = "wait"
        BY <1>0, <2>2 DEF Delivered, PInv, Pending, Of
      <3> QED
        BY <1>0, <2>2, <3>1 DEF Delivered, SameFor, Maps, Asks
    <2>3. CASE e = c /\ server.entry = 0
      <3>1. Of(c)' = Of(c) /\ call'[c] = call[c] /\ ipc[c] = "wait" /\ ipc'[c] = "done" /\ reply'[c] = server.r
        BY <1>0, <2>3 DEF Delivered, Of
      <3>2. call[c].at = "open" => server.r # "ok"
        BY <2>3 DEF SInv, HasFd, Answer
      <3> QED
        BY <2>3, <3>1, <3>2 DEF SameFor, Maps, Asks, Done
    <2> QED
      BY <2>1, <2>2, <2>3
  <1>8. Holders(i)' = Holders(i) \/ \A e \in Clients : ~Maps(e, i)
    <2> SUFFICES ASSUME NEW g \in Holders(i), g \notin Holders(i)', NEW e \in Clients, Maps(e, i) PROVE FALSE
      BY <1>6
    <2>1. g \in Clients \X Fds /\ fd[g[1]][g[2]] = i /\ fd'[g[1]][g[2]] # i
      BY DEF Holders
    <2>2. g[1] = c /\ server.entry # 0
      <3>1. g[1] \in Clients /\ g[2] \in Fds
        BY <2>1
      <3>2. g[1] = c
        BY <1>0, <2>1, <3>1 DEF Delivered
      <3>3. g[2] = call[c].d
        BY <1>0, <2>1, <3>1, <3>2 DEF Delivered
      <3> QED
        BY <1>0, <2>1, <3>2, <3>3 DEF Delivered
    <2>3. Holders(i) = {<<e, call[e].d>>}
      BY <1>3 DEF EntryGood, Mapping
    <2>4. e = c
      BY <2>2, <2>3
    <2>5. call[c].at = "open" /\ ipc[c] = "wait"
      BY <1>0, <2>2 DEF Delivered, PInv, Pending
    <2> QED
      BY <2>4, <2>5 DEF Maps
  <1>9. f_size'[i] = f_size[i]
    BY <1>0 DEF Delivered
  <1>10. CASE Covers(Cache, Cache', o_file[i])
    BY <1>3, <1>4, <1>6, <1>7, <1>8, <1>9, <1>10, EntryFrame
  <1> QED
    BY <1>5, <1>10 DEF Carried

\* The entry that serve_open opened: nothing of it is mapped yet.
LEMMA AnswerOpens ==
    ASSUME SInv, SInv', PInv, Answer, NEW c, c = server.to, NEW i \in Entries, i = server.entry,
           ~Broken(Cache, o_file[i])
    PROVE  EntryGood(i)' \/ Broken(Cache', o_file[i])
  <1>0. Delivered(c)
    BY AnswerChanges
  <1>1. i = server.entry /\ i # 0
    BY ServNumbers
  <1>2. c \in Clients /\ call[c].d \in Fds
    BY <1>0 DEF Delivered, CallShapes
  <1>3. call[c].at = "open" /\ server.r = "ok" /\ Holders(i) = {} /\ f_size[i] <= FileSize(i)
    BY <1>1 DEF PInv, Pending
  <1>4. o_file[i] \in FileIds /\ o_file'[i] = o_file[i]
    BY <1>0, <1>1, <1>2, ServNumbers, EntryIsFile DEF Delivered, SInv, IInv, Opens, Answer
  <1>5. PICK l, n, f : l = Cache /\ n = Cache' /\ f = o_file[i]
    OBVIOUS
  <1>6. l \in Caches /\ n \in Caches /\ f \in FileIds /\ n.blk = l.blk
    BY <1>0, <1>4, <1>5 DEF Delivered, SInv, IInv, Good, Cache
  <1>7. \A h \in Clients \X Fds : fd'[h[1]][h[2]] = i => h = <<c, call[c].d>>
    <2>1. ASSUME NEW h \in Clients \X Fds, fd'[h[1]][h[2]] = i PROVE h = <<c, call[c].d>>
      <3>1. fd[h[1]][h[2]] # i /\ h[1] \in Clients /\ h[2] \in Fds
        BY <1>3 DEF Holders
      <3>2. h[1] = c
        BY <1>0, <2>1, <3>1 DEF Delivered
      <3>3. h[2] = call[c].d
        BY <1>0, <2>1, <3>1, <3>2 DEF Delivered
      <3> QED
        BY <3>2, <3>3
    <2> QED
      BY <2>1
  <1>8. fd'[c][call[c].d] = i /\ call' = call /\ f_size' = f_size
    BY <1>0, <1>1 DEF Delivered
  <1>9. Holders(i)' = {<<c, call[c].d>>}
    <2>1. <<c, call[c].d>> \in Clients \X Fds
      BY <1>0, <1>2 DEF Delivered
    <2> QED
      BY <1>7, <1>8, <2>1 DEF Holders
  <1>10. \A e \in Clients : Of(e)' = i => e = c
    <2>1. ASSUME NEW e \in Clients, Of(e)' = i PROVE e = c
      <3>1. call[e].d \in Fds
        BY DEF SInv, Types, Calls, CallShapes
      <3>2. PICK h \in Clients \X Fds : h = <<e, call[e].d>>
        BY <3>1
      <3>3. h = <<c, call[c].d>>
        BY <1>7, <1>8, <2>1, <3>2 DEF Of
      <3> QED
        BY <3>2, <3>3
    <2> QED
      BY <2>1
  <1>11. Maps(c, i)'
    BY <1>0, <1>3, <1>8 DEF Delivered, Maps, Of
  <1>12. Mapping(c, i)'
    <2>1. Done(c)' = 0
      BY <1>3, <1>8 DEF Done
    <2>2. File(n, f) = File(l, f) /\ File(n, f).size \in Nat
      BY <1>6, SameContents, FileTyped, Numbers
    <2>3. AllBack(i, Done(c))'
      BY <1>4, <1>5, <2>1, <2>2 DEF AllBack, Backs
    <2>4. f_size'[i] <= FileSize(i)'
      BY <1>3, <1>4, <1>5, <1>8, <2>2 DEF FileSize
    <2> QED
      BY <1>3, <1>8, <1>9, <2>3, <2>4 DEF Mapping
  <1>13. \A e \in Clients : ~Asks(e, i)'
    BY <1>3, <1>8, <1>10 DEF Asks
  <1>14. \A e \in Clients : Maps(e, i)' => e = c
    BY <1>10 DEF Maps
  <1> QED
    BY <1>2, <1>11, <1>12, <1>13, <1>14 DEF EntryGood

\* The entry whose next page is mapped.
LEMMA AnswerMaps ==
    ASSUME SInv, SInv', PInv, Answer, NEW c, c = server.to, server.entry = 0, call[c].at = "map",
           NEW i \in Entries, Of(c) = i, i \notin loose, ~Broken(Cache, o_file[i])
    PROVE  EntryGood(i)' \/ Broken(Cache', o_file[i])
  <1>0. Delivered(c)
    BY AnswerChanges
  <1>1. call[c].d \in Fds /\ call[c].n \in Nat /\ c \in Clients /\ call[c].size \in Nat
    BY <1>0, Numbers DEF Delivered, CallShapes, FileSizes
  <1>2. <<c, call[c].d>> \in Holders(i)
    BY <1>1, OnlyHolder
  <1>3. EntryGood(i) /\ Maps(c, i)
    BY <1>2 DEF PInv, Entered, Maps
  <1>4. Holders(i) = {<<c, call[c].d>>} /\ f_size[i] <= FileSize(i) /\ f_size[i] = call[c].size
        /\ AllBack(i, Done(c))
    BY <1>1, <1>3 DEF EntryGood, Mapping
  <1>5. fd' = fd /\ call' = call /\ f_size' = f_size /\ o_file' = o_file /\ ipc'[c] = "done" /\ reply'[c] = server.r
        /\ ipc[c] = "wait"
    BY <1>0 DEF Delivered, Answer
  <1>6. Holders(i)' = {<<c, call[c].d>>} /\ Of(c)' = i
    BY <1>4, <1>5 DEF Holders, Of
  <1>7. \A e \in Clients : Of(e)' = i => e = c
    <2>1. ASSUME NEW e \in Clients, Of(e)' = i PROVE e = c
      <3>1. Of(e) = i
        BY <1>5, <2>1 DEF Of
      <3>2. <<e, call[e].d>> \in Holders(i)
        BY <3>1, OnlyHolder
      <3> QED
        BY <1>4, <3>2
    <2> QED
      BY <2>1
  <1>8. o_file[i] \in FileIds
    BY <1>1, <1>2, ServNumbers, EntryIsFile DEF Holders, SInv, IInv, Opens
  <1>9. PICK l, n, f : l = Cache /\ n = Cache' /\ f = o_file[i]
    OBVIOUS
  <1>10. l \in Caches /\ n \in Caches /\ f \in FileIds /\ n.blk = l.blk
    BY <1>0, <1>8, <1>9 DEF Delivered, SInv, IInv, Good, Cache
  <1>11. PICK old, new : old = page[c][call[c].d] /\ new = page'[c][call[c].d]
    OBVIOUS
  <1>12. Backs(l, old, f, call[c].n)
    <2>1. Done(c) = call[c].n
      BY <1>3, <1>5 DEF Done
    <2> QED
      BY <1>4, <1>9, <1>11, <2>1 DEF AllBack
  <1>13. old \in [Pages -> Ptrs] /\ new = IF server.block = 0 THEN old ELSE [old EXCEPT ![call[c].n] = server.block]
    BY <1>0, <1>1, <1>11 DEF Delivered, SInv, Types, PageTables
  <1>14. \A k \in 0..(call[c].n - 1) : k \in Pages => new[k] = old[k]
    BY <1>1, <1>13
  <1>15. File(l, f).size \in Nat /\ f_size[i] \in Nat
    BY <1>10, FileTyped, Numbers DEF SInv, Types, FileSizes
  <1>16. call[c].n < call[c].size /\ call[c].n + 1 <= File(l, f).size
    <2>1. call[c].n < call[c].size
      BY <1>1 DEF PInv, Shapes
    <2> QED
      BY <1>1, <1>4, <1>9, <1>15, <2>1 DEF FileSize
  <1>17. Backs(l, new, f, call[c].n)
    BY <1>12, <1>14, ServNumbers DEF Backs, HasPtr
  <1>18. ASSUME server.r = "ok" PROVE Backs(l, new, f, call[c].n + 1)
    <2>1. HasPtr(l, f, call[c].n) /\ server.block # 0 /\ server.block = Ptr(l, f, call[c].n)
      BY <1>9, <1>18 DEF PInv, Pending, Answer
    <2>2. call[c].n \in Pages
      BY <2>1, ServNumbers DEF HasPtr
    <2>3. new[call[c].n] = server.block
      BY <1>13, <2>1, <2>2
    <2>4. \A k \in 0..((call[c].n + 1) - 1) : k \in 0..(call[c].n - 1) \/ k = call[c].n
      BY <1>1
    <2> QED
      BY <1>16, <1>17, <2>1, <2>3, <2>4 DEF Backs
  <1>19. Mapping(c, i)'
    <2>1. PICK k : k = Done(c)'
      OBVIOUS
    <2>2. k \in Nat /\ Backs(l, new, f, k)
      BY <1>1, <1>5, <1>17, <1>18, <2>1 DEF Done
    <2>3. Backs(n, new, f, k)
      BY <1>10, <2>2, SameBlk, CoversBacks
    <2>4. AllBack(i, Done(c))'
      BY <1>5, <1>6, <1>9, <1>11, <2>1, <2>3 DEF AllBack
    <2>5. f_size'[i] <= FileSize(i)'
      BY <1>4, <1>5, <1>9, <1>10, SameContents DEF FileSize
    <2> QED
      BY <1>4, <1>5, <1>6, <2>4, <2>5 DEF Mapping
  <1>20. Maps(c, i)'
    BY <1>5, <1>6 DEF Maps
  <1>21. \A e \in Clients : ~Asks(e, i)'
    BY <1>5, <1>7 DEF Asks
  <1>22. \A e \in Clients : Maps(e, i)' => e = c
    BY <1>7 DEF Maps
  <1> QED
    BY <1>1, <1>19, <1>20, <1>21, <1>22 DEF EntryGood

\* The answer arrives.
LEMMA AnswerPages == ASSUME SInv, SInv', PInv, Answer PROVE PInv'
  <1>1. PICK c : c = server.to
    OBVIOUS
  <1>2. Delivered(c)
    BY <1>1, AnswerChanges
  <1>3. o_file' = o_file /\ call' = call /\ loose' = loose /\ c \in Clients
    BY <1>2 DEF Delivered
  <1>4. ASSUME NEW i \in Entries, Holders(i)' # {}, i \notin loose'
        PROVE  Broken(Cache', o_file'[i]) \/ EntryGood(i)'
    <2>1. CASE Broken(Cache, o_file[i])
      <3>1. PICK h \in Clients \X Fds : fd'[h[1]][h[2]] = i
        BY <1>4 DEF Holders
      <3>2. o_file[i] # Null
        BY <1>3, <3>1, ServNumbers DEF SInv, Opens
      <3>3. o_file[i] \in FileIds
        BY <3>2, ServNumbers, EntryIsFile DEF SInv, IInv
      <3> QED
        BY <1>2, <1>3, <2>1, <3>3, BlkStays DEF Delivered, SInv
    <2>2. CASE ~Broken(Cache, o_file[i]) /\ i = server.entry
      BY <1>1, <1>3, <2>2, AnswerOpens
    <2>3. CASE ~Broken(Cache, o_file[i]) /\ i # server.entry /\ (call[c].at = "map" => Of(c) # i)
      BY <1>1, <1>3, <1>4, <2>3, AnswerElsewhere
    <2>4. CASE ~Broken(Cache, o_file[i]) /\ call[c].at = "map" /\ Of(c) = i
      <3>1. server.entry = 0
        BY <1>1, <2>4 DEF PInv, Pending
      <3> QED
        BY <1>1, <1>3, <1>4, <2>4, <3>1, AnswerMaps
    <2> QED
      BY <2>1, <2>2, <2>3, <2>4
  <1>5. Pending'
    <2>1. server'.to = NoClient /\ server'.entry = 0 /\ server'.block = 0
      BY <1>2 DEF Delivered, Receiving
    <2> QED
      BY <2>1 DEF Pending
  <1>6. ASSUME NEW e \in Clients, call[e].at = "restore" PROVE Of(e)' = Of(e)
    <2>1. CASE e = c
      <3>1. server.entry = 0
        BY <1>1, <1>6, <2>1 DEF PInv, Pending
      <3> QED
        BY <1>2, <1>3, <2>1, <3>1 DEF Delivered, Of
    <2>2. CASE e # c
      BY <1>2, <2>2 DEF Delivered, Of
    <2> QED
      BY <2>1, <2>2
  <1>7. Shapes'
    <2>1. ASSUME NEW e \in Clients
          PROVE  /\ call'[e].op = "idle" => call'[e].at = "start"
                 /\ call'[e].at = "open" => call'[e].n = 0
                 /\ call'[e].at = "map" => call'[e].n < call'[e].size
                 /\ call'[e].at = "restore" => Of(e)' \in loose'
      BY <1>3, <1>6 DEF PInv, Shapes
    <2> QED
      BY <2>1 DEF Shapes
  <1> QED
    BY <1>4, <1>5, <1>7 DEF PInv, Entered

-----------------------------------------------------------------------------
\* A step of client c: the calls of others, the server and the entries stay,
\* and no file loses anything but readability.
Acts(c) ==
    /\ c \in Clients /\ ipc[c] # "wait"
    /\ server' = server /\ o_file' = o_file /\ reply' = reply /\ loose \subseteq loose'
    /\ \A e \in Clients \ {c} : call'[e] = call[e] /\ ipc'[e] = ipc[e]
    /\ \A f \in FileIds : Carried(f) /\ (Broken(Cache, f) => Broken(Cache', f))

\* The other clients in a call keep the descriptor of the call.
FdsStay(c) == \A e \in Clients \ {c} : call[e].at # "start" => fd'[e][call[e].d] = fd[e][call[e].d]

\* What Shapes says of client c.
Shaped(c) == /\ call[c].op = "idle" => call[c].at = "start"
             /\ call[c].at = "open" => call[c].n = 0
             /\ call[c].at = "map" => call[c].n < call[c].size
             /\ call[c].at = "restore" => Of(c) \in loose

\* The invariant after a step of a client, entry by entry.
LEMMA ActsHold ==
    ASSUME SInv, SInv', PInv, NEW c, Acts(c), FdsStay(c), Shaped(c)',
           \A i \in Entries : Holders(i) = {} => Holders(i)' = {} /\ f_size'[i] = f_size[i],
           \A i \in Entries \ loose' :
              EntryGood(i) /\ Holders(i)' # {} /\ o_file[i] \in FileIds /\ Covers(Cache, Cache', o_file[i])
                 => EntryGood(i)'
    PROVE  PInv'
  <1>1. ASSUME NEW i \in Entries, Holders(i)' # {}, i \notin loose'
        PROVE  Broken(Cache', o_file'[i]) \/ EntryGood(i)'
    <2>1. Holders(i) # {} /\ i \notin loose /\ o_file'[i] = o_file[i]
      BY <1>1 DEF Acts
    <2>2. PICK h \in Holders(i) : TRUE
      BY <2>1
    <2>3. o_file[i] \in FileIds
      <3>1. o_file[i] # Null
        <4>1. h[1] \in Clients /\ h[2] \in Fds /\ fd[h[1]][h[2]] = i /\ i # 0
          BY <2>2, ServNumbers DEF Holders
        <4>2. Opens
          BY DEF SInv
        <4> QED
          BY <4>1, <4>2 DEF Opens
      <3> QED
        BY <3>1, ServNumbers, EntryIsFile DEF SInv, IInv
    <2>4. CASE Broken(Cache, o_file[i])
      BY <2>1, <2>3, <2>4 DEF Acts
    <2>5. CASE EntryGood(i)
      <3>1. Carried(o_file[i])
        BY <2>3 DEF Acts
      <3> QED
        BY <1>1, <2>1, <2>3, <2>5, <3>1 DEF Carried
    <2> QED
      BY <2>1, <2>4, <2>5 DEF PInv, Entered
  <1>2. server' = server /\ o_file' = o_file /\ loose \subseteq loose'
    BY DEF Acts
  <1>3. ASSUME server.to # NoClient
        PROVE  server.to \in Clients /\ call'[server.to] = call[server.to]
               /\ (call[server.to].at # "start" => Of(server.to)' = Of(server.to))
    <2>1. PICK e \in Clients : e = server.to /\ ipc[e] = "wait"
      BY <1>3 DEF SInv, Types, Waits, AnswerType
    <2>2. e # c
      BY <2>1 DEF Acts
    <2>3. call'[e] = call[e] /\ (call[e].at # "start" => Of(e)' = Of(e))
      BY <2>2 DEF Acts, FdsStay, Of
    <2> QED
      BY <1>2, <2>1, <2>3 DEF Of
  <1>4. Pending'
    <2>1. ASSUME server.entry # 0
          PROVE  /\ server.to # NoClient /\ server.r = "ok" /\ call'[server.to].at = "open"
                 /\ Holders(server.entry)' = {}
                 /\ Broken(Cache', o_file[server.entry]) \/ f_size'[server.entry] <= FileSize(server.entry)'
      <3>1. PICK i \in Entries : i = server.entry
        BY <2>1 DEF SInv, Types, AnswerType
      <3>2. /\ server.to # NoClient /\ server.r = "ok" /\ call[server.to].at = "open" /\ Holders(i) = {}
            /\ Broken(Cache, o_file[i]) \/ f_size[i] <= FileSize(i)
        BY <2>1, <3>1 DEF PInv, Pending
      <3>3. Holders(i)' = {} /\ f_size'[i] = f_size[i]
        BY <3>2
      <3>4. o_file[i] \in FileIds
        BY <3>1, <3>2, <2>1, ServNumbers, EntryIsFile DEF SInv, IInv, Opens
      <3>5. CASE Broken(Cache, o_file[i])
        <4>1. Broken(Cache', o_file[i])
          BY <3>4, <3>5 DEF Acts
        <4> QED
          BY <1>2, <1>3, <3>1, <3>2, <3>3, <4>1 DEF Holders
      <3>6. CASE f_size[i] <= FileSize(i)
        <4>1. PICK l, n, f : l = Cache /\ n = Cache' /\ f = o_file[i]
          OBVIOUS
        <4>2. l \in Caches /\ n \in Caches /\ f \in FileIds
          BY <3>4, <4>1 DEF SInv, IInv, Good
        <4>3. Covers(l, n, f) \/ Broken(n, f)
          BY <4>1, <4>2 DEF Acts, Carried
        <4>4. Covers(l, n, f) => f_size[i] <= File(n, f).size
          <5>1. Covers(l, n, f) =>
                  File(l, f).size <= File(n, f).size /\ File(l, f).size \in Nat /\ File(n, f).size \in Nat
            BY <4>2, CoversBacks
          <5>2. f_size[i] \in Nat
            BY Numbers DEF SInv, Types, FileSizes
          <5> QED
            BY <3>6, <4>1, <5>1, <5>2 DEF FileSize
        <4>5. FileSize(server.entry)' = File(n, f).size
          BY <1>2, <3>1, <4>1 DEF FileSize
        <4> QED
          BY <1>2, <1>3, <3>1, <3>2, <3>3, <4>1, <4>3, <4>4, <4>5 DEF Holders
      <3> QED
        BY <3>2, <3>5, <3>6
    <2>2. server.block # 0 => server.to # NoClient /\ call'[server.to].at = "map"
      BY <1>3 DEF PInv, Pending
    <2>3. ASSUME server.to # NoClient, call[server.to].at = "map", server.r = "ok", Of(server.to)' \notin loose'
          PROVE  \/ Broken(Cache', o_file[Of(server.to)])
                 \/ /\ HasPtr(Cache', o_file[Of(server.to)], call[server.to].n)
                    /\ server.block # 0
                    /\ server.block = Ptr(Cache', o_file[Of(server.to)], call[server.to].n)
      <3>1. Of(server.to)' = Of(server.to) /\ Of(server.to) \notin loose
        BY <1>2, <1>3, <2>3
      <3>2. Of(server.to) \in Entries /\ o_file[Of(server.to)] # Null
        BY <1>3, <2>3, FindsEntry DEF FdSteps
      <3>3. PICK f \in FileIds : f = o_file[Of(server.to)]
        BY <3>2, ServNumbers, EntryIsFile DEF SInv, IInv
      <3>4. \/ Broken(Cache, f)
            \/ /\ HasPtr(Cache, f, call[server.to].n)
               /\ server.block # 0 /\ server.block = Ptr(Cache, f, call[server.to].n)
        BY <2>3, <3>1, <3>3 DEF PInv, Pending
      <3>5. (Covers(Cache, Cache', f) \/ Broken(Cache', f)) /\ (Broken(Cache, f) => Broken(Cache', f))
        BY DEF Acts, Carried
      <3> QED
        BY <3>3, <3>4, <3>5 DEF Covers, HasPtr
    <2> QED
      BY <1>2, <1>3, <2>1, <2>2, <2>3 DEF Pending
  <1>5. Shapes'
    <2>1. ASSUME NEW e \in Clients PROVE Shaped(e)'
      <3>1. CASE e = c
        BY <3>1
      <3>2. CASE e # c
        <4>1. call'[e] = call[e] /\ (call[e].at # "start" => Of(e)' = Of(e))
          BY <3>2 DEF Acts, FdsStay, Of
        <4> QED
          BY <1>2, <4>1 DEF PInv, Shapes, Shaped
      <3> QED
        BY <3>1, <3>2
    <2> QED
      BY <2>1 DEF Shapes, Shaped
  <1> QED
    BY <1>1, <1>4, <1>5 DEF PInv, Entered

\* What a step of c does not touch stays good.
LEMMA ActsKeep ==
    ASSUME SInv, SInv', NEW c, Acts(c), FdsStay(c), NEW i \in Entries, EntryGood(i),
           f_size'[i] = f_size[i], o_file[i] \in FileIds, Covers(Cache, Cache', o_file[i]),
           SameFor(c, i), \A e \in Clients \ {c} : call[e].at = "start" => SameFor(e, i),
           Holders(i)' = Holders(i) \/ \A e \in Clients : ~Maps(e, i),
           \A h \in Holders(i)' : \E g \in Holders(i) : page'[h[1]][h[2]] = page[g[1]][g[2]]
    PROVE  EntryGood(i)'
  <1>1. o_file'[i] = o_file[i]
    BY DEF Acts
  <1>2. ASSUME NEW e \in Clients PROVE SameFor(e, i)
    <2>1. CASE e # c /\ call[e].at # "start"
      <3>1. call'[e] = call[e] /\ reply'[e] = reply[e] /\ ipc'[e] = ipc[e] /\ Of(e)' = Of(e)
        BY <2>1 DEF Acts, FdsStay, Of
      <3> QED
        BY <3>1, SameClient
    <2> QED
      BY <2>1
  <1> QED
    BY <1>1, <1>2, EntryFrame

\* A client at the start of a call is silent.
LEMMA IdleSame ==
    ASSUME NEW c, Acts(c), NEW e \in Clients \ {c}, call[e].at = "start", NEW i
    PROVE  SameFor(e, i)
  BY DEF Acts, SameFor, Maps, Asks

\* A step of c that changes no descriptor, page or size.
LEMMA PlainMove ==
    ASSUME SInv, SInv', PInv, NEW c, Acts(c), fd' = fd, page' = page, f_size' = f_size, Shaped(c)',
           \A i \in Entries \ loose' :
              \/ SameFor(c, i)
              \/ EntryGood(i) /\ o_file[i] \in FileIds /\ Covers(Cache, Cache', o_file[i]) => EntryGood(i)'
    PROVE  PInv'
  <1>1. FdsStay(c) /\ \A i : Holders(i)' = Holders(i)
    BY DEF FdsStay, Holders
  <1>2. ASSUME NEW i \in Entries \ loose', EntryGood(i), o_file[i] \in FileIds, Covers(Cache, Cache', o_file[i])
        PROVE  EntryGood(i)'
    <2>1. CASE SameFor(c, i)
      <3>1. \A h \in Holders(i)' : \E g \in Holders(i) : page'[h[1]][h[2]] = page[g[1]][g[2]]
        BY <1>1
      <3>2. \A e \in Clients \ {c} : call[e].at = "start" => SameFor(e, i)
        BY IdleSame
      <3> QED
        BY <1>1, <1>2, <2>1, <3>1, <3>2, ActsKeep
    <2> QED
      BY <1>2, <2>1
  <1> QED
    BY <1>1, <1>2, ActsHold

\* The entry of a client that maps its pages: the first k pages are mapped.
LEMMA MapsOn ==
    ASSUME SInv, SInv', NEW c, Acts(c), NEW i \in Entries, Maps(c, i), EntryGood(i),
           o_file[i] \in FileIds, Covers(Cache, Cache', o_file[i]),
           fd' = fd, f_size' = f_size,
           NEW k \in Nat, k <= Done(c),
           \A n \in Pages : n < k => page'[c][call[c].d][n] = page[c][call[c].d][n],
           \/ /\ call'[c].d = call[c].d /\ Maps(c, i)' /\ Done(c)' = k
              /\ call'[c].at # "open" /\ call'[c].size = f_size[i]
           \/ Silent(c, i)' /\ k = f_size[i]
    PROVE  EntryGood(i)'
  <1>1. PICK l, n, f : l = Cache /\ n = Cache' /\ f = o_file[i]
    OBVIOUS
  <1>2. l \in Caches /\ n \in Caches /\ f \in FileIds /\ Covers(l, n, f)
    BY <1>1 DEF SInv, IInv, Good
  <1>3. c \in Clients /\ o_file' = o_file
    BY DEF Acts
  <1>4. Holders(i) = {<<c, call[c].d>>} /\ f_size[i] <= FileSize(i) /\ AllBack(i, Done(c))
    BY <1>3 DEF EntryGood, Mapping
  <1>5. Holders(i)' = {<<c, call[c].d>>}
    BY <1>4 DEF Holders
  <1>6. ASSUME NEW e \in Clients, e # c PROVE ~Maps(e, i)' /\ ~Asks(e, i)'
    <2>1. Of(e)' # i
      <3>1. call'[e] = call[e]
        BY <1>6 DEF Acts
      <3>2. Of(e) # i
        BY <1>4, <1>6, OnlyHolder
      <3> QED
        BY <3>1, <3>2 DEF Of
    <2> QED
      BY <2>1 DEF Maps, Asks
  <1>7. PICK old, new : old = page[c][call[c].d] /\ new = page'[c][call[c].d]
    OBVIOUS
  <1>8. call[c] \in CallShapes /\ f_size[i] \in Nat
    BY <1>3, ServNumbers DEF SInv, Types, Calls, FileSizes
  <1>9. Done(c) \in Nat
    BY <1>8, Numbers DEF Done, CallShapes, FileSizes
  <1>10. Backs(l, old, f, Done(c))
    BY <1>1, <1>4, <1>7 DEF AllBack
  <1>11. Backs(l, new, f, k)
    <2>1. File(l, f).size \in Nat
      BY <1>2, FileTyped, Numbers
    <2>2. k <= File(l, f).size
      BY <1>9, <1>10, <2>1 DEF Backs
    <2>3. ASSUME NEW j \in 0..(k - 1) PROVE HasPtr(l, f, j) /\ new[j] # 0 /\ new[j] = Ptr(l, f, j)
      <3>1. j \in 0..(Done(c) - 1) /\ j < k
        BY <1>9
      <3>2. HasPtr(l, f, j) /\ old[j] # 0 /\ old[j] = Ptr(l, f, j)
        BY <1>10, <3>1 DEF Backs
      <3>3. j \in Pages
        BY <3>2, ServNumbers DEF HasPtr
      <3> QED
        BY <1>7, <3>1, <3>2, <3>3
    <2> QED
      BY <2>2, <2>3 DEF Backs
  <1>12. Backs(n, new, f, k)
    BY <1>2, <1>11, CoversBacks
  <1>13. AllBack(i, k)'
    <2>1. PICK h : h = <<c, call[c].d>>
      OBVIOUS
    <2>2. Holders(i)' = {h} /\ page'[h[1]][h[2]] = new
      BY <1>5, <1>7, <2>1
    <2>3. \A g \in Holders(i)' : Backs(n, page'[g[1]][g[2]], f, k)
      BY <1>12, <2>2
    <2> QED
      BY <1>1, <1>3, <2>3 DEF AllBack
  <1>14. CASE /\ call'[c].d = call[c].d /\ Maps(c, i)' /\ Done(c)' = k
              /\ call'[c].at # "open" /\ call'[c].size = f_size[i]
    <2>1. File(l, f).size <= File(n, f).size /\ File(l, f).size \in Nat /\ File(n, f).size \in Nat
      BY <1>2, CoversBacks
    <2>2. f_size'[i] <= FileSize(i)'
      BY <1>1, <1>3, <1>4, <1>8, <2>1 DEF FileSize
    <2>3. AllBack(i, Done(c))'
      BY <1>13, <1>14 DEF AllBack
    <2>4. Mapping(c, i)'
      BY <1>5, <1>14, <2>2, <2>3 DEF Mapping
    <2>5. ~Asks(c, i)'
      BY <1>14 DEF Maps, Asks
    <2> QED
      BY <1>3, <1>6, <1>14, <2>4, <2>5 DEF EntryGood
  <1>15. CASE Silent(c, i)' /\ k = f_size[i]
    <2>1. ~Maps(c, i)' /\ ~Asks(c, i)'
      BY <1>15 DEF Silent
    <2>2. AllBack(i, f_size[i])'
      <3>1. f_size'[i] = k
        BY <1>15
      <3> QED
        BY <1>13, <3>1 DEF AllBack
    <2> QED
      BY <1>6, <2>1, <2>2 DEF EntryGood
  <1> QED
    BY <1>14, <1>15

\* A client that returns, and one that goes on with another request.
LEMMA ReturnMoves ==
    ASSUME SInv, NEW c \in Clients, Return(c)
    PROVE  /\ call'[c].at = "start" /\ ipc'[c] = "none" /\ Shaped(c)' /\ \A i : Silent(c, i)'
           /\ \A e \in Clients \ {c} : call'[e] = call[e] /\ ipc'[e] = ipc[e]
  <1>1. /\ call'[c] = NoCall /\ ipc'[c] = "none"
        /\ \A e \in Clients \ {c} : call'[e] = call[e] /\ ipc'[e] = ipc[e]
    BY DEF Return, SInv, Types
  <1>2. call'[c].at = "start"
    BY <1>1 DEF NoCall
  <1>3. Shaped(c)' /\ \A i : Silent(c, i)'
    BY <1>2 DEF Shaped, Silent, Maps, Asks
  <1> QED
    BY <1>1, <1>2, <1>3

LEMMA AskMoves ==
    ASSUME SInv, NEW c \in Clients, NEW at, NEW n, Ask(c, at, n)
    PROVE  /\ call'[c].at = at /\ call'[c].n = n /\ ipc'[c] = "send"
           /\ call'[c].d = call[c].d /\ call'[c].size = call[c].size /\ call'[c].op = call[c].op
           /\ \A e \in Clients \ {c} : call'[e] = call[e] /\ ipc'[e] = ipc[e]
  <1>1. call \in [Clients -> CallShapes] /\ ipc \in [Clients -> {"none", "send", "wait", "done"}]
    BY DEF SInv, Types, Calls
  <1>2. PICK old \in CallShapes : old = call[c]
    BY <1>1
  <1>3. PICK k : k = [old EXCEPT !.at = at, !.n = n]
    OBVIOUS
  <1>4. k.at = at /\ k.n = n /\ k.d = old.d /\ k.size = old.size /\ k.op = old.op
    BY <1>2, <1>3 DEF CallShapes
  <1>5. call' = [call EXCEPT ![c] = k] /\ ipc' = [ipc EXCEPT ![c] = "send"]
    BY <1>1, <1>2, <1>3 DEF Ask
  <1> QED
    BY <1>1, <1>2, <1>4, <1>5

\* A client that goes on after an answer acts.
LEMMA AnsweredActs ==
    ASSUME SInv, SInv', NEW c \in Clients, NEW at, NEW ok, Answered(c, at, ok),
           \A e \in Clients \ {c} : call'[e] = call[e] /\ ipc'[e] = ipc[e],
           loose \subseteq loose', NEW b \in Ptrs, blk' = blk \/ blk' = Stored(b)
    PROVE  Acts(c)
  <1>1. ipc[c] # "wait" /\ o_file' = o_file /\ reply' = reply /\ server' = server
        /\ free' = free /\ dirty' = dirty /\ panic' = panic
    BY AnsweredFacts
  <1>2. IInv /\ IInv'
    BY DEF SInv
  <1>3. \A f \in FileIds : Carried(f) /\ (Broken(Cache, f) => Broken(Cache', f))
    <2>1. CASE blk' = blk
      BY <1>2, <2>1, BlkStays
    <2>2. CASE blk' = Stored(b)
      BY <1>1, <1>2, <2>2, StoreCarried
    <2> QED
      BY <2>1, <2>2
  <1> QED
    BY <1>1, <1>3 DEF Acts

\* The client is silent, or its entry becomes loose.
LEMMA QuietMove ==
    ASSUME SInv, SInv', PInv, NEW c \in Clients, NEW at, NEW ok \in BOOLEAN, Answered(c, at, ok),
           blk' = blk, fd' = fd, page' = page, loose \subseteq loose',
           \A e \in Clients \ {c} : call'[e] = call[e] /\ ipc'[e] = ipc[e],
           Shaped(c)', \A i : Silent(c, i)',
           (at \notin {"map", "set_size"} /\ (at = "open" => ~ok)) \/ Of(c) \in loose'
    PROVE  PInv'
  <1>1. PICK b \in Ptrs : b = 0
    BY DEF Ptrs
  <1>2. Acts(c) /\ f_size' = f_size
    BY AnsweredActs, AnsweredFacts
  <1>3. ASSUME NEW i \in Entries \ loose' PROVE SameFor(c, i)
    <2>1. Silent(c, i)
      <3>1. ipc[c] = "done" /\ call[c].at = at /\ (reply[c] = "ok") = ok
        BY DEF Answered
      <3> QED
        BY <1>3, <3>1 DEF Silent, Maps, Asks
    <2> QED
      BY <2>1, SilentClient
  <1> QED
    BY <1>2, <1>3, PlainMove

LEMMA RestoreContinuesPages == ASSUME SInv, SInv', PInv, NEW c \in Clients, RestoreContinues(c) PROVE PInv'
  <1>1. PICK ok \in BOOLEAN : Answered(c, "restore", ok) /\ Keeps /\ Return(c)
    BY DEF RestoreContinues
  <1> QED
    BY <1>1, ReturnMoves, QuietMove DEF Keeps

LEMMA PathContinuesPages == ASSUME SInv, SInv', PInv, NEW c \in Clients, PathContinues(c) PROVE PInv'
  <1>1. PICK at \in {"remove", "create", "sync"}, ok \in BOOLEAN : Answered(c, at, ok) /\ Keeps /\ Return(c)
    BY DEF PathContinues
  <1> QED
    BY <1>1, ReturnMoves, QuietMove DEF Keeps

\* The entry of a client that maps its pages; the others are not touched.
LEMMA MapsOnMove ==
    ASSUME SInv, SInv', PInv, NEW c \in Clients, NEW at, NEW ok \in BOOLEAN, Answered(c, at, ok),
           at \in {"map", "set_size"} \/ (at = "open" /\ ok),
           NEW b \in Ptrs, blk' = blk \/ blk' = Stored(b), fd' = fd, page' = page, loose \subseteq loose',
           \A e \in Clients \ {c} : call'[e] = call[e] /\ ipc'[e] = ipc[e],
           Shaped(c)', call'[c].at # "start" => call'[c].d = call[c].d,
           NEW k \in Nat,
           Of(c) \notin loose' /\ Mapping(c, Of(c)) =>
              /\ k <= Done(c)
              /\ \/ /\ call'[c].at = "map" /\ ipc'[c] = "send" /\ call'[c].n = k
                    /\ call'[c].size = f_size[Of(c)]
                 \/ call'[c].at = "start" /\ k = f_size[Of(c)]
    PROVE  PInv'
  <1>1. Acts(c) /\ f_size' = f_size
    BY AnsweredActs, AnsweredFacts
  <1>2. ipc[c] = "done" /\ call[c].at = at /\ (reply[c] = "ok") = ok
    BY DEF Answered
  <1>3. PICK i : i = Of(c)
    OBVIOUS
  <1>4. Maps(c, i)
    BY <1>2, <1>3 DEF Maps
  <1>5. ASSUME NEW e \in Entries, e # i PROVE SameFor(c, e)
    <2>1. Of(c)' # e \/ call'[c].at = "start"
      BY <1>3, <1>5 DEF Of
    <2>2. Silent(c, e) /\ Silent(c, e)'
      BY <1>3, <1>5, <2>1 DEF Silent, Maps, Asks
    <2> QED
      BY <2>2, SilentClient
  <1>6. ASSUME i \in Entries \ loose', EntryGood(i), o_file[i] \in FileIds, Covers(Cache, Cache', o_file[i])
        PROVE  EntryGood(i)'
    <2>1. Mapping(c, i)
      BY <1>4, <1>6 DEF EntryGood
    <2>2. /\ k <= Done(c)
          /\ \/ /\ call'[c].at = "map" /\ ipc'[c] = "send" /\ call'[c].n = k /\ call'[c].size = f_size[i]
             \/ call'[c].at = "start" /\ k = f_size[i]
      BY <1>3, <1>6, <2>1
    <2>3. CASE call'[c].at = "map" /\ ipc'[c] = "send" /\ call'[c].n = k /\ call'[c].size = f_size[i]
      <3>1. call'[c].d = call[c].d /\ Maps(c, i)' /\ Done(c)' = k /\ call'[c].at # "open"
        BY <1>3, <2>3 DEF Maps, Done, Of
      <3> QED
        BY <1>1, <1>4, <1>6, <2>2, <2>3, <3>1, MapsOn
    <2>4. CASE call'[c].at = "start" /\ k = f_size[i]
      <3>1. Silent(c, i)'
        BY <2>4 DEF Silent, Maps, Asks
      <3> QED
        BY <1>1, <1>4, <1>6, <2>2, <2>4, <3>1, MapsOn
    <2> QED
      BY <2>2, <2>3, <2>4
  <1>7. \A e \in Entries \ loose' :
          \/ SameFor(c, e)
          \/ EntryGood(e) /\ o_file[e] \in FileIds /\ Covers(Cache, Cache', o_file[e]) => EntryGood(e)'
    <2>1. ASSUME NEW e \in Entries \ loose'
          PROVE  \/ SameFor(c, e)
                 \/ EntryGood(e) /\ o_file[e] \in FileIds /\ Covers(Cache, Cache', o_file[e]) => EntryGood(e)'
      <3>1. CASE e = i
        BY <1>6, <2>1, <3>1
      <3>2. CASE e # i
        BY <1>5, <3>2
      <3> QED
        BY <3>1, <3>2
    <2> QED
      BY <2>1
  <1> QED
    BY <1>1, <1>7, PlainMove

LEMMA OpenContinuesPages == ASSUME SInv, SInv', PInv, NEW c \in Clients, OpenContinues(c) PROVE PInv'
  <1>1. PICK yes \in BOOLEAN, no \in BOOLEAN, b \in Ptrs : yes = TRUE /\ no = FALSE /\ b = 0
    BY DEF Ptrs
  <1>2. CASE /\ Answered(c, "open", TRUE) /\ call[c].op = "open" /\ Keeps
             /\ \E size \in {f_size[fd[c][call[c].d]]} :
                  IF size = 0 THEN Return(c)
                  ELSE /\ call' = [call EXCEPT ![c].at = "map", ![c].size = size]
                       /\ ipc' = [ipc EXCEPT ![c] = "send"]
    <2>1. Answered(c, "open", yes) /\ blk' = blk /\ fd' = fd /\ page' = page /\ loose' = loose
      BY <1>1, <1>2 DEF Keeps
    <2>2. call[c].at = "open" /\ call[c].n = 0 /\ Of(c) # 0 /\ call[c].d \in Fds
      BY <1>1, <2>1, AnsweredFacts DEF PInv, Shapes, Of
    <2>3. Of(c) \in Entries /\ f_size[Of(c)] \in Nat
      BY <2>2, SizeOfFd, Numbers DEF Of, FileSizes
    <2>4. PICK k \in Nat : k = 0
      OBVIOUS
    <2>5. k <= Done(c)
      BY <2>2, <2>4 DEF Done
    <2>6. CASE f_size[Of(c)] = 0
      <3>1. Return(c)
        BY <1>2, <2>6 DEF Of
      <3>2. call'[c].at = "start" /\ k = f_size[Of(c)]
        BY <2>4, <2>6, <3>1, ReturnMoves
      <3> QED
        BY <1>1, <2>1, <2>5, <3>1, <3>2, ReturnMoves, MapsOnMove
    <2>7. CASE f_size[Of(c)] # 0
      <3>1. call' = [call EXCEPT ![c].at = "map", ![c].size = f_size[Of(c)]] /\ ipc' = [ipc EXCEPT ![c] = "send"]
        BY <1>2, <2>7 DEF Of
      <3>2. call \in [Clients -> CallShapes] /\ ipc \in [Clients -> {"none", "send", "wait", "done"}]
        BY DEF SInv, Types, Calls
      <3>3. PICK old \in CallShapes : old = call[c]
        BY <3>2
      <3>4. PICK new : new = [old EXCEPT !.at = "map", !.size = f_size[Of(c)]]
        OBVIOUS
      <3>5. new.at = "map" /\ new.n = old.n /\ new.d = old.d /\ new.size = f_size[Of(c)] /\ new.op = old.op
        BY <3>3, <3>4 DEF CallShapes
      <3>6. call' = [call EXCEPT ![c] = new]
        BY <3>1, <3>2, <3>3, <3>4
      <3>7. /\ call'[c] = new /\ ipc'[c] = "send"
            /\ \A e \in Clients \ {c} : call'[e] = call[e] /\ ipc'[e] = ipc[e]
        BY <3>1, <3>2, <3>6
      <3>8. Shaped(c)'
        <4>1. old.op # "idle" /\ new.n < new.size
          BY <1>2, <2>2, <2>3, <2>7, <3>3, <3>5
        <4> QED
          BY <3>5, <3>7, <4>1 DEF Shaped
      <3>9. call'[c].at = "map" /\ call'[c].n = k /\ call'[c].size = f_size[Of(c)] /\ call'[c].d = call[c].d
        BY <2>2, <2>4, <3>3, <3>5, <3>7
      <3> QED
        BY <1>1, <2>1, <2>5, <3>7, <3>8, <3>9, MapsOnMove
    <2> QED
      BY <2>6, <2>7
  <1>3. CASE Answered(c, "open", TRUE) /\ call[c].op = "create" /\ Loosens(c) /\ Return(c)
    BY <1>1, <1>3, ReturnMoves, QuietMove DEF Loosens, Of
  <1>4. CASE Answered(c, "open", FALSE) /\ call[c].op = "open" /\ Keeps /\ Return(c)
    BY <1>1, <1>4, ReturnMoves, QuietMove DEF Keeps
  <1>5. CASE Answered(c, "open", FALSE) /\ call[c].op = "create" /\ Keeps /\ Ask(c, "create", 0)
    <2>1. Answered(c, "open", no) /\ blk' = blk /\ fd' = fd /\ page' = page /\ loose' = loose
      BY <1>1, <1>5 DEF Keeps
    <2>2. call'[c].at = "create" /\ call'[c].op = "create"
          /\ \A e \in Clients \ {c} : call'[e] = call[e] /\ ipc'[e] = ipc[e]
      BY <1>5, AskMoves
    <2>3. Shaped(c)' /\ \A i : Silent(c, i)'
      BY <2>2 DEF Shaped, Silent, Maps, Asks
    <2> QED
      BY <1>1, <2>1, <2>2, <2>3, QuietMove
  <1> QED
    BY <1>2, <1>3, <1>4, <1>5 DEF OpenContinues

LEMMA MapContinuesPages == ASSUME SInv, SInv', PInv, NEW c \in Clients, MapContinues(c) PROVE PInv'
  <1>1. PICK yes \in BOOLEAN, no \in BOOLEAN, z \in Ptrs : yes = TRUE /\ no = FALSE /\ z = 0
    BY DEF Ptrs
  <1>2. CASE /\ Answered(c, "map", TRUE)
             /\ IF call[c].n + 1 < call[c].size THEN Ask(c, "map", call[c].n + 1) /\ Keeps
                                                ELSE Complete(c)
    <2>1. Answered(c, "map", yes)
      BY <1>1, <1>2
    <2>2. call[c].at = "map" /\ ipc[c] = "done" /\ reply[c] = "ok"
      BY <1>2 DEF Answered
    <2>3. /\ call[c].n \in Nat /\ call[c].size \in Nat /\ call[c].n < call[c].size
          /\ call[c].op # "idle" /\ call[c] \in Calls
          /\ call[c].d \in Fds
      BY <2>1, <2>2, AnsweredFacts, Numbers DEF PInv, Shapes, CallShapes, FileSizes
    <2>4. PICK k \in Nat : k = call[c].n + 1
      BY <2>3
    <2>5. k <= Done(c) /\ Done(c) = k
      BY <2>2, <2>4 DEF Done
    <2>6. Mapping(c, Of(c)) => f_size[Of(c)] = call[c].size
      BY <2>2 DEF Mapping
    <2>7. CASE k < call[c].size
      <3>1. Ask(c, "map", k) /\ blk' = blk /\ fd' = fd /\ page' = page /\ loose' = loose
        BY <1>2, <2>4, <2>7 DEF Keeps
      <3>2. /\ call'[c].at = "map" /\ call'[c].n = k /\ ipc'[c] = "send" /\ call'[c].d = call[c].d
            /\ call'[c].size = call[c].size /\ call'[c].op = call[c].op
            /\ \A e \in Clients \ {c} : call'[e] = call[e] /\ ipc'[e] = ipc[e]
        BY <3>1, AskMoves
      <3>3. Shaped(c)'
        BY <2>3, <2>7, <3>2 DEF Shaped
      <3> QED
        BY <1>1, <2>1, <2>5, <2>6, <3>1, <3>2, <3>3, MapsOnMove
    <2>8. CASE ~(k < call[c].size)
      <3>1. Complete(c)
        BY <1>2, <2>4, <2>8
      <3>2. Return(c) /\ fd' = fd /\ page' = page /\ loose' = loose
        BY <3>1 DEF Complete
      <3>3. k = call[c].size
        BY <2>3, <2>4, <2>8
      <3>4. PICK b \in Ptrs : blk' = blk \/ blk' = Stored(b)
        <4>1. CASE call[c].op = "write"
          <5>1. call[c].size - 1 \in Pages
            BY <2>3, <4>1, ServNumbers DEF Calls
          <5>2. page[c][call[c].d][call[c].size - 1] \in Ptrs
            BY <2>3, <5>1 DEF SInv, Types, PageTables
          <5> QED
            BY <3>1, <4>1, <5>2 DEF Complete
        <4>2. CASE call[c].op # "write"
          BY <1>1, <3>1, <4>2 DEF Complete
        <4> QED
          BY <4>1, <4>2
      <3>5. /\ call'[c].at = "start" /\ Shaped(c)'
            /\ \A e \in Clients \ {c} : call'[e] = call[e] /\ ipc'[e] = ipc[e]
        BY <3>2, ReturnMoves
      <3> QED
        BY <1>1, <2>1, <2>5, <2>6, <3>2, <3>3, <3>4, <3>5, MapsOnMove
    <2> QED
      BY <2>7, <2>8
  <1>3. CASE Answered(c, "map", FALSE) /\ call[c].op = "open" /\ Loosens(c) /\ Return(c)
    BY <1>1, <1>3, ReturnMoves, QuietMove DEF Loosens, Of
  <1>4. CASE Answered(c, "map", FALSE) /\ call[c].op # "open" /\ Loosens(c) /\ Ask(c, "restore", 0)
    <2>1. /\ Answered(c, "map", no) /\ blk' = blk /\ fd' = fd /\ page' = page /\ loose \subseteq loose'
          /\ Of(c) \in loose'
      BY <1>1, <1>4 DEF Loosens, Of
    <2>2. /\ call'[c].at = "restore" /\ call'[c].op = call[c].op /\ call'[c].d = call[c].d
          /\ \A e \in Clients \ {c} : call'[e] = call[e] /\ ipc'[e] = ipc[e]
      BY <1>4, AskMoves
    <2>3. call[c].op # "idle"
      BY <2>1, AnsweredFacts
    <2>4. Shaped(c)' /\ \A i : Silent(c, i)'
      BY <2>1, <2>2, <2>3 DEF Shaped, Silent, Maps, Asks, Of
    <2> QED
      BY <1>1, <2>1, <2>2, <2>4, QuietMove
  <1> QED
    BY <1>2, <1>3, <1>4 DEF MapContinues

\* Pages past the new size are unmapped.
LEMMA UnmapPages ==
    ASSUME SInv, NEW c \in Clients, NEW d \in Fds, NEW first, NEW last, Unmap(c, d, first, last)
    PROVE  /\ \A n \in Pages : n \notin first..last => page'[c][d][n] = page[c][d][n]
           /\ \A e \in Clients, x \in Fds : e # c \/ x # d => page'[e][x] = page[e][x]
  <1>1. page \in [Clients -> [Fds -> [Pages -> Ptrs]]]
    BY DEF SInv, Types, PageTables
  <1>2. PICK old \in [Pages -> Ptrs] : old = page[c][d]
    BY <1>1
  <1>3. PICK new : new = [n \in Pages |-> IF n \in first..last THEN 0 ELSE old[n]]
    OBVIOUS
  <1>4. new \in [Pages -> Ptrs]
    BY <1>2, <1>3 DEF Ptrs
  <1>5. page' = [page EXCEPT ![c][d] = new]
    BY <1>1, <1>2, <1>3 DEF Unmap
  <1>6. /\ page'[c][d] = new /\ (\A x \in Clients \ {c} : page'[x] = page[x])
        /\ \A y \in Fds \ {d} : page'[c][y] = page[c][y]
    BY <1>1, <1>4, <1>5, SetNested
  <1>7. \A n \in Pages : n \notin first..last => new[n] = old[n]
    BY <1>3
  <1>8. ASSUME NEW e \in Clients, NEW x \in Fds, e # c \/ x # d PROVE page'[e][x] = page[e][x]
    <2>1. CASE e # c
      BY <1>6, <2>1
    <2>2. CASE e = c
      BY <1>6, <1>8, <2>2
    <2> QED
      BY <2>1, <2>2
  <1> QED
    BY <1>2, <1>6, <1>7, <1>8

LEMMA SetSizeContinuesPages == ASSUME SInv, SInv', PInv, NEW c \in Clients, SetSizeContinues(c) PROVE PInv'
  <1>1. PICK z \in Ptrs : z = 0
    BY DEF Ptrs
  <1>2. PICK ok \in BOOLEAN :
          /\ Answered(c, "set_size", ok)
          /\ IF ~ok THEN Loosens(c) /\ Return(c)
             ELSE IF call[c].size > FirstNew(call[c].old)
             THEN Ask(c, "map", FirstNew(call[c].old)) /\ Keeps
             ELSE /\ Unmap(c, call[c].d, call[c].size, call[c].old - 1)
                  /\ Return(c) /\ blk' = blk /\ fd' = fd /\ loose' = loose
    BY DEF SetSizeContinues
  <1>3. call[c].at = "set_size" /\ ipc[c] = "done" /\ (reply[c] = "ok") = ok
    BY <1>2 DEF Answered
  <1>4. /\ call[c] \in CallShapes /\ call[c].d \in Fds /\ call[c].size \in Nat
        /\ call[c].old \in Nat /\ call[c].op # "idle"
        /\ f_size' = f_size
    BY <1>2, AnsweredFacts, Numbers DEF CallShapes, FileSizes
  <1>5. Done(c) = IF call[c].old < call[c].size THEN call[c].old ELSE call[c].size
    BY <1>3 DEF Done
  <1>6. CASE ~ok
    BY <1>1, <1>2, <1>6, ReturnMoves, QuietMove DEF Loosens, Of
  <1>7. CASE ok /\ call[c].size > FirstNew(call[c].old)
    <2>1. Ask(c, "map", call[c].old) /\ blk' = blk /\ fd' = fd /\ page' = page /\ loose' = loose
      BY <1>2, <1>7 DEF FirstNew, Keeps
    <2>2. /\ call'[c].at = "map" /\ call'[c].n = call[c].old /\ ipc'[c] = "send" /\ call'[c].d = call[c].d
          /\ call'[c].size = call[c].size /\ call'[c].op = call[c].op
          /\ \A e \in Clients \ {c} : call'[e] = call[e] /\ ipc'[e] = ipc[e]
      BY <2>1, AskMoves
    <2>3. Shaped(c)'
      BY <1>4, <1>7, <2>2 DEF Shaped, FirstNew
    <2>4. Mapping(c, Of(c)) => f_size[Of(c)] = call[c].size
      BY <1>3 DEF Mapping
    <2>5. PICK k \in Nat : k = call[c].old
      BY <1>4
    <2>6. k <= Done(c)
      BY <1>4, <1>5, <1>7, <2>5 DEF FirstNew
    <2> QED
      BY <1>1, <1>2, <2>1, <2>2, <2>3, <2>4, <2>5, <2>6, MapsOnMove
  <1>8. CASE ok /\ ~(call[c].size > FirstNew(call[c].old))
    <2>1. Unmap(c, call[c].d, call[c].size, call[c].old - 1) /\ Return(c) /\ blk' = blk /\ fd' = fd /\ loose' = loose
      BY <1>2, <1>8
    <2>2. /\ call'[c].at = "start" /\ Shaped(c)' /\ (\A i : Silent(c, i)')
          /\ \A e \in Clients \ {c} : call'[e] = call[e] /\ ipc'[e] = ipc[e]
      BY <2>1, ReturnMoves
    <2>3. Acts(c)
      BY <1>1, <1>2, <2>1, <2>2, AnsweredActs
    <2>4. /\ \A n \in Pages : n < call[c].size => page'[c][call[c].d][n] = page[c][call[c].d][n]
          /\ \A e \in Clients, x \in Fds : e # c \/ x # call[c].d => page'[e][x] = page[e][x]
      <3>1. \A n \in Pages : n < call[c].size => n \notin call[c].size..(call[c].old - 1)
        BY <1>4, ServNumbers
      <3> QED
        BY <1>4, <2>1, <3>1, UnmapPages
    <2>5. PICK i : i = Of(c)
      OBVIOUS
    <2>6. FdsStay(c) /\ \A e : Holders(e)' = Holders(e)
      BY <2>1 DEF FdsStay, Holders
    <2>7. ASSUME NEW e \in Entries \ loose', EntryGood(e), o_file[e] \in FileIds, Covers(Cache, Cache', o_file[e])
          PROVE  EntryGood(e)'
      <3>1. CASE e = i
        <4>1. Maps(c, e)
          BY <1>3, <2>5, <3>1 DEF Maps
        <4>2. f_size[e] = call[c].size
          BY <1>3, <2>7, <4>1 DEF EntryGood, Mapping
        <4>3. PICK k \in Nat : k = call[c].size
          BY <1>4
        <4>4. k <= Done(c)
          BY <1>4, <1>5, <1>8, <4>3 DEF FirstNew
        <4> QED
          BY <1>4, <2>1, <2>2, <2>3, <2>4, <2>7, <4>1, <4>2, <4>3, <4>4, MapsOn
      <3>2. CASE e # i
        <4>1. SameFor(c, e)
          <5>1. Silent(c, e)
            BY <2>5, <3>2 DEF Silent, Maps, Asks
          <5> QED
            BY <2>2, <5>1, SilentClient
        <4>2. ASSUME NEW h \in Holders(e)' PROVE h \in Holders(e) /\ page'[h[1]][h[2]] = page[h[1]][h[2]]
          <5>1. h \in Holders(e) /\ h[1] \in Clients /\ h[2] \in Fds /\ fd[h[1]][h[2]] = e
            BY <2>6, <4>2 DEF Holders
          <5>2. h[1] # c \/ h[2] # call[c].d
            BY <2>5, <3>2, <5>1 DEF Of
          <5> QED
            BY <2>4, <5>1, <5>2
        <4>3. \A x \in Clients \ {c} : call[x].at = "start" => SameFor(x, e)
          BY <2>3, IdleSame
        <4> QED
          BY <1>4, <2>3, <2>6, <2>7, <4>1, <4>2, <4>3, ActsKeep
      <3> QED
        BY <3>1, <3>2
    <2> QED
      BY <1>4, <2>2, <2>3, <2>6, <2>7, ActsHold
  <1> QED
    BY <1>6, <1>7, <1>8

\* A client that closes its descriptor.
LEMMA GivesUp ==
    ASSUME SInv, SInv', PInv, NEW c \in Clients, NEW at \in {"dirty", "close"}, NEW ok, Answered(c, at, ok),
           Return(c), blk' = blk, loose' = loose, fd' = [fd EXCEPT ![c][call[c].d] = 0],
           \A e \in Clients, x \in Fds : e # c \/ x # call[c].d => page'[e][x] = page[e][x]
    PROVE  PInv'
  <1>1. PICK z \in Ptrs : z = 0
    BY DEF Ptrs
  <1>2. /\ Shaped(c)' /\ (\A i : Silent(c, i)')
        /\ \A e \in Clients \ {c} : call'[e] = call[e] /\ ipc'[e] = ipc[e]
    BY ReturnMoves
  <1>3. Acts(c) /\ f_size' = f_size /\ call[c].d \in Fds
    BY <1>1, <1>2, AnsweredActs, AnsweredFacts
  <1>4. /\ \A e \in Clients \ {c} : fd'[e] = fd[e]
        /\ \A d \in Fds \ {call[c].d} : fd'[c][d] = fd[c][d]
        /\ fd'[c][call[c].d] = 0
    <2>1. fd \in [Clients -> [Fds -> {0} \cup Entries]]
      BY DEF SInv, Types, FdTables
    <2>2. PICK v \in {0} \cup Entries : v = 0
      OBVIOUS
    <2>3. fd' = [fd EXCEPT ![c][call[c].d] = v]
      BY <2>2
    <2> QED
      BY <1>3, <2>1, <2>2, <2>3, SetNested
  <1>5. FdsStay(c)
    BY <1>4 DEF FdsStay
  <1>6. ASSUME NEW i \in Entries, NEW h \in Holders(i)'
        PROVE  h \in Holders(i) /\ page'[h[1]][h[2]] = page[h[1]][h[2]]
    <2>1. h \in Clients \X Fds /\ h[1] \in Clients /\ h[2] \in Fds /\ fd'[h[1]][h[2]] = i /\ i # 0
      BY <1>6, ServNumbers DEF Holders
    <2>2. h[1] # c \/ h[2] # call[c].d
      BY <1>4, <2>1
    <2>3. fd[h[1]][h[2]] = i
      BY <1>4, <2>1, <2>2
    <2> QED
      BY <2>1, <2>2, <2>3 DEF Holders
  <1>7. ASSUME NEW i \in Entries, EntryGood(i), o_file[i] \in FileIds, Covers(Cache, Cache', o_file[i])
        PROVE  EntryGood(i)'
    <2>1. Silent(c, i)
      BY DEF Answered, Silent, Maps, Asks
    <2>2. SameFor(c, i)
      BY <1>2, <2>1, SilentClient
    <2>3. ASSUME NEW e \in Clients, Maps(e, i) PROVE Holders(i)' = Holders(i)
      <3>1. Holders(i) = {<<e, call[e].d>>} /\ e # c
        BY <1>7, <2>1, <2>3 DEF EntryGood, Mapping, Silent
      <3>0. <<e, call[e].d>> \in Holders(i)
        BY <3>1
      <3>2. fd[e][call[e].d] = i /\ call[e].d \in Fds
        <4>1. \A h \in Holders(i) : h \in Clients \X Fds /\ fd[h[1]][h[2]] = i
          BY DEF Holders
        <4> QED
          BY <3>0, <4>1
      <3>3. <<e, call[e].d>> \in Holders(i)'
        BY <1>4, <3>1, <3>2 DEF Holders
      <3> QED
        BY <1>6, <3>1, <3>3
    <2>4. \A e \in Clients \ {c} : call[e].at = "start" => SameFor(e, i)
      BY <1>3, IdleSame
    <2> QED
      BY <1>3, <1>5, <1>6, <1>7, <2>2, <2>3, <2>4, ActsKeep
  <1>8. \A i \in Entries : Holders(i) = {} => Holders(i)' = {}
    BY <1>6
  <1> QED
    BY <1>2, <1>3, <1>5, <1>7, <1>8, ActsHold

LEMMA DirtyContinuesPages == ASSUME SInv, SInv', PInv, NEW c \in Clients, DirtyContinues(c) PROVE PInv'
  <1>1. PICK yes \in BOOLEAN, was \in {"dirty", "close"} : yes = TRUE /\ was = "dirty"
    OBVIOUS
  <1>2. CASE /\ Answered(c, "dirty", TRUE) /\ Keeps
             /\ IF call[c].n + 1 < call[c].size THEN Ask(c, "dirty", call[c].n + 1)
                                                ELSE Ask(c, "close", 0)
    <2>1. Answered(c, "dirty", yes) /\ blk' = blk /\ fd' = fd /\ page' = page /\ loose' = loose
      BY <1>1, <1>2 DEF Keeps
    <2>2. PICK at, n : at \in {"dirty", "close"} /\ Ask(c, at, n)
      BY <1>2
    <2>3. /\ call'[c].at = at /\ call'[c].op = call[c].op /\ call[c].op # "idle"
          /\ \A e \in Clients \ {c} : call'[e] = call[e] /\ ipc'[e] = ipc[e]
      BY <2>1, <2>2, AskMoves, AnsweredFacts
    <2>4. Shaped(c)' /\ \A i : Silent(c, i)'
      BY <2>2, <2>3 DEF Shaped, Silent, Maps, Asks
    <2> QED
      BY <2>1, <2>3, <2>4, QuietMove
  <1>3. CASE /\ Answered(c, "dirty", FALSE) /\ Return(c)
             /\ fd' = [fd EXCEPT ![c][call[c].d] = 0]
             /\ UNCHANGED <<blk, page, loose>>
    <2>1. PICK no : no = FALSE
      OBVIOUS
    <2>2. Answered(c, was, no) /\ Return(c) /\ blk' = blk /\ page' = page /\ loose' = loose
          /\ fd' = [fd EXCEPT ![c][call[c].d] = 0]
      BY <1>1, <1>3, <2>1
    <2> QED
      BY <2>2, GivesUp
  <1> QED
    BY <1>2, <1>3 DEF DirtyContinues

LEMMA CloseContinuesPages == ASSUME SInv, SInv', PInv, NEW c \in Clients, CloseContinues(c) PROVE PInv'
  <1>1. PICK was \in {"dirty", "close"} : was = "close"
    OBVIOUS
  <1>2. PICK ok \in BOOLEAN :
          /\ Answered(c, was, ok) /\ Return(c)
          /\ fd' = [fd EXCEPT ![c][call[c].d] = 0]
          /\ IF ok THEN Unmap(c, call[c].d, 0, call[c].size - 1) ELSE page' = page
          /\ blk' = blk /\ loose' = loose
    BY <1>1 DEF CloseContinues
  <1>3. call[c].d \in Fds
    BY <1>2, AnsweredFacts
  <1>4. \A e \in Clients, x \in Fds : e # c \/ x # call[c].d => page'[e][x] = page[e][x]
    BY <1>2, <1>3, UnmapPages
  <1> QED
    BY <1>2, <1>4, GivesUp

-----------------------------------------------------------------------------
\* A call that starts changes nothing but the state of its client.
LEMMA StartActs ==
    ASSUME SInv, SInv', PInv, NEW c \in Clients, Starts(c), NEW k, Started(c, k), loose' = loose
    PROVE  /\ Acts(c) /\ FdsStay(c) /\ fd' = fd /\ page' = page /\ call'[c] = k /\ ipc'[c] = "send"
           /\ call[c].at = "start" /\ \A i : Silent(c, i) /\ Holders(i)' = Holders(i)
  <1>1. /\ call'[c] = k /\ ipc'[c] = "send"
        /\ \A e \in Clients \ {c} : call'[e] = call[e] /\ ipc'[e] = ipc[e]
    BY DEF Started, SInv, Types
  <1>2. /\ blk' = blk /\ o_file' = o_file /\ fd' = fd /\ page' = page /\ reply' = reply /\ server' = server
    BY DEF Started, vars
  <1>3. ipc[c] = "none" /\ call[c].at = "start"
    BY DEF Starts, SInv, Waits, PInv, Shapes
  <1>4. \A f \in FileIds : Carried(f) /\ (Broken(Cache, f) => Broken(Cache', f))
    BY <1>2, BlkStays DEF SInv
  <1>5. Acts(c)
    BY <1>1, <1>2, <1>3, <1>4 DEF Acts
  <1>6. FdsStay(c) /\ \A i : Silent(c, i) /\ Holders(i)' = Holders(i)
    BY <1>2, <1>3 DEF FdsStay, Silent, Maps, Asks, Holders
  <1> QED
    BY <1>1, <1>2, <1>3, <1>5, <1>6

\* A call that resizes nothing.
LEMMA StartPages ==
    ASSUME SInv, SInv', PInv, NEW c \in Clients, Starts(c), NEW k, Started(c, k), loose' = loose, f_size' = f_size,
           k.op # "idle", k.at \in {"open", "remove", "sync", "dirty", "close"}, k.n = 0
    PROVE  PInv'
  <1>1. /\ Acts(c) /\ fd' = fd /\ page' = page /\ call'[c] = k /\ ipc'[c] = "send" /\ \A i : Silent(c, i)
    BY StartActs
  <1>2. Shaped(c)' /\ \A i : Silent(c, i)'
    BY <1>1 DEF Shaped, Silent, Maps, Asks
  <1>3. \A i : SameFor(c, i)
    BY <1>1, <1>2, SilentClient
  <1> QED
    BY <1>1, <1>2, <1>3, PlainMove

LEMMA OpenPages ==
    ASSUME SInv, SInv', PInv, NEW c \in Clients, NEW op \in {"open", "create"}, NEW path, NEW creat, NEW trunc,
           Open(c, op, path, creat, trunc)
    PROVE  PInv'
  <1>1. PICK z \in CallShapes : z = NoCall /\ z.n = 0
    BY NoCallFields DEF NoCall
  <1>2. PICK k : k = [z EXCEPT !.op = op, !.at = "open", !.d = Min(fd_alloc(c)),
                               !.path = path, !.creat = creat, !.trunc = trunc]
    OBVIOUS
  <1>3. k.op = op /\ k.at = "open" /\ k.n = 0
    BY <1>1, <1>2 DEF CallShapes
  <1>4. Starts(c) /\ Started(c, k) /\ f_size' = f_size /\ loose' = loose
    BY <1>1, <1>2 DEF Open
  <1> QED
    BY <1>3, <1>4, StartPages

LEMMA RemovePages == ASSUME SInv, SInv', PInv, NEW c \in Clients, NEW path, RemoveFile(c, path) PROVE PInv'
  <1>1. PICK z \in CallShapes : z = NoCall /\ z.n = 0
    BY NoCallFields DEF NoCall
  <1>2. PICK k : k = [z EXCEPT !.op = "remove", !.at = "remove", !.path = path]
    OBVIOUS
  <1>3. k.op = "remove" /\ k.at = "remove" /\ k.n = 0
    BY <1>1, <1>2 DEF CallShapes
  <1>4. Starts(c) /\ Started(c, k) /\ f_size' = f_size /\ loose' = loose
    BY <1>1, <1>2 DEF RemoveFile
  <1> QED
    BY <1>3, <1>4, StartPages

LEMMA SyncPages == ASSUME SInv, SInv', PInv, NEW c \in Clients, Sync(c) PROVE PInv'
  <1>1. PICK z \in CallShapes : z = NoCall /\ z.n = 0
    BY NoCallFields DEF NoCall
  <1>2. PICK k : k = [z EXCEPT !.op = "sync", !.at = "sync"]
    OBVIOUS
  <1>3. k.op = "sync" /\ k.at = "sync" /\ k.n = 0
    BY <1>1, <1>2 DEF CallShapes
  <1>4. Starts(c) /\ Started(c, k) /\ f_size' = f_size /\ loose' = loose
    BY <1>1, <1>2 DEF Sync
  <1> QED
    BY <1>3, <1>4, StartPages

LEMMA ClosePages == ASSUME SInv, SInv', PInv, NEW c \in Clients, NEW d \in Fds, Close(c, d) PROVE PInv'
  <1>1. PICK z \in CallShapes : z = NoCall /\ z.n = 0
    BY NoCallFields DEF NoCall
  <1>2. PICK at \in {"dirty", "close"} : at = IF f_size[fd[c][d]] > 0 THEN "dirty" ELSE "close"
    OBVIOUS
  <1>3. PICK k : k = [z EXCEPT !.op = "close", !.d = d, !.size = f_size[fd[c][d]], !.at = at]
    OBVIOUS
  <1>4. k.op = "close" /\ k.at = at /\ k.n = 0
    BY <1>1, <1>3 DEF CallShapes
  <1>5. Starts(c) /\ Started(c, k) /\ f_size' = f_size /\ loose' = loose
    BY <1>1, <1>2, <1>3 DEF Close
  <1> QED
    BY <1>4, <1>5, StartPages

\* The entry of a client that is in no call is mapped by no one.
LEMMA NobodyMaps ==
    ASSUME NEW c \in Clients, NEW i \in Entries, NEW d \in Fds, fd[c][d] = i, call[c].at = "start", EntryGood(i)
    PROVE  \A e \in Clients : ~Maps(e, i)
  <1>1. <<c, d>> \in Holders(i)
    BY DEF Holders
  <1>2. ASSUME NEW e \in Clients, Maps(e, i) PROVE FALSE
    <2>1. Holders(i) = {<<e, call[e].d>>}
      BY <1>2 DEF EntryGood, Mapping
    <2>2. e = c
      BY <1>1, <2>1
    <2> QED
      BY <1>2, <2>2 DEF Maps
  <1> QED
    BY <1>2

\* A client asks for another size.
LEMMA ResizePages ==
    ASSUME SInv, SInv', PInv, NEW c \in Clients, NEW op \in {"ftruncate", "write"}, NEW d \in Fds,
           NEW size \in Nat, Resize(c, op, d, size)
    PROVE  PInv'
  <1>1. PICK z \in CallShapes : z = NoCall /\ z.n = 0
    BY NoCallFields DEF NoCall
  <1>2. PICK i \in Entries : fd[c][d] = i
    BY DEF Resize, SInv, Types, FdTables
  <1>3. PICK old \in Nat : f_size[i] = old
    BY ServNumbers DEF SInv, Types, FileSizes
  <1>4. PICK k : k = [z EXCEPT !.op = op, !.at = "set_size", !.d = d, !.size = size, !.old = old]
    OBVIOUS
  <1>5. k.op = op /\ k.at = "set_size" /\ k.d = d /\ k.size = size /\ k.old = old
    BY <1>1, <1>4 DEF CallShapes
  <1>6. Starts(c) /\ Started(c, k) /\ f_size' = [f_size EXCEPT ![i] = size] /\ loose' = loose
    BY <1>1, <1>2, <1>3, <1>4 DEF Resize
  <1>7. /\ Acts(c) /\ FdsStay(c) /\ fd' = fd /\ page' = page /\ call'[c] = k /\ ipc'[c] = "send"
        /\ call[c].at = "start" /\ \A j : Silent(c, j) /\ Holders(j)' = Holders(j)
    BY <1>6, StartActs
  <1>8. f_size'[i] = size /\ \A j \in Entries \ {i} : f_size'[j] = f_size[j]
    BY <1>6 DEF SInv, Types
  <1>9. Shaped(c)' /\ Of(c)' = i
    BY <1>2, <1>5, <1>7 DEF Shaped, Of
  <1>10. Holders(i) # {}
    <2>1. <<c, d>> \in Holders(i)
      BY <1>2 DEF Holders
    <2> QED
      BY <2>1
  <1>11. ASSUME NEW j \in Entries \ {i}, EntryGood(j), o_file[j] \in FileIds, Covers(Cache, Cache', o_file[j])
         PROVE  EntryGood(j)'
    <2>1. SameFor(c, j)
      BY <1>7, <1>9, <1>11, SilentClient DEF Silent, Maps, Asks
    <2>2. \A e \in Clients \ {c} : call[e].at = "start" => SameFor(e, j)
      BY <1>7, IdleSame
    <2>3. Holders(j)' = Holders(j) /\ \A h \in Holders(j)' : \E g \in Holders(j) : page'[h[1]][h[2]] = page[g[1]][g[2]]
      BY <1>7
    <2> QED
      BY <1>7, <1>8, <1>11, <2>1, <2>2, <2>3, ActsKeep
  <1>12. ASSUME EntryGood(i), o_file[i] \in FileIds, Covers(Cache, Cache', o_file[i])
         PROVE  EntryGood(i)'
    <2>1. \A e \in Clients : ~Maps(e, i)
      BY <1>2, <1>7, <1>12, NobodyMaps
    <2>2. ASSUME NEW e \in Clients PROVE ~Maps(e, i)' /\ (e # c => (Asks(e, i)' <=> Asks(e, i)))
      <3>1. CASE e = c
        BY <1>5, <1>7, <3>1 DEF Maps
      <3>2. CASE e # c
        BY <1>7, <2>1, <3>2 DEF Maps, Asks, Of, Acts
      <3> QED
        BY <3>1, <3>2
    <2>3. Asks(c, i)'
      BY <1>5, <1>7, <1>9 DEF Asks
    <2>4. ASSUME NEW e \in Clients, Asks(e, i)', \A g \in Clients : Asks(g, i)' => g = e PROVE Asking(e, i)'
      <3>1. e = c /\ \A g \in Clients : ~Asks(g, i)
        BY <1>7, <2>2, <2>3, <2>4 DEF Silent
      <3>2. AllBack(i, old)
        BY <1>3, <1>12, <2>1, <3>1 DEF EntryGood
      <3>3. \A h \in Holders(i) : Backs(Cache', page[h[1]][h[2]], o_file[i], old)
        <4>1. PICK l \in Caches : l = Cache
          BY DEF SInv, IInv, Good
        <4>2. PICK n \in Caches : n = Cache'
          BY DEF SInv, IInv, Good
        <4> QED
          BY <1>12, <3>2, <4>1, <4>2, CoversBacks DEF AllBack
      <3>4. AllBack(i, old)'
        BY <1>7, <3>3 DEF AllBack, Acts
      <3>5. call'[e].size = size /\ call'[e].old = old
        BY <1>5, <1>7, <3>1
      <3> QED
        BY <1>8, <3>4, <3>5 DEF Asking
    <2> QED
      BY <2>2, <2>3, <2>4 DEF EntryGood
  <1>13. \A j \in Entries : Holders(j) = {} => Holders(j)' = {} /\ f_size'[j] = f_size[j]
    BY <1>7, <1>8, <1>10
  <1> QED
    BY <1>7, <1>9, <1>11, <1>12, <1>13, ActsHold

LEMMA WritePages ==
    ASSUME SInv, SInv', PInv, NEW c \in Clients, NEW d \in Fds, NEW size \in Sizes \ {0}, Write(c, d, size - 1)
    PROVE  PInv'
  <1>1. PICK i \in Entries : fd[c][d] = i
    BY DEF Write, SInv, Types, FdTables
  <1>2. size \in 1..NINDIRECT
    BY ServNumbers, FsServAssumption
  <1>3. CASE size - 1 < f_size[i]
    <2>1. PICK b \in Ptrs : b = page[c][d][size - 1]
      BY <1>2, ServNumbers DEF SInv, Types, PageTables
    <2>2. /\ blk' = Stored(b) /\ free' = free /\ dirty' = dirty /\ panic' = panic /\ o_file' = o_file
          /\ fd' = fd /\ page' = page /\ f_size' = f_size /\ call' = call /\ ipc' = ipc
          /\ reply' = reply /\ server' = server /\ loose' = loose
      BY <1>1, <1>3, <2>1 DEF Write
    <2>3. \A f \in FileIds : Carried(f) /\ (Broken(Cache, f) => Broken(Cache', f))
      BY <2>2, StoreCarried DEF SInv
    <2>4. ipc[c] # "wait"
      BY DEF Write, Starts, SInv, Waits
    <2>5. Acts(c)
      BY <2>2, <2>3, <2>4 DEF Acts
    <2>6. Shaped(c)'
      BY <2>2 DEF PInv, Shapes, Shaped, Of
    <2>7. \A j : SameFor(c, j)
      BY <2>2, SameClient DEF Of
    <2> QED
      BY <2>2, <2>5, <2>6, <2>7, PlainMove
  <1>4. CASE ~(size - 1 < f_size[i])
    <2>1. PICK op \in {"ftruncate", "write"} : op = "write"
      OBVIOUS
    <2>2. Resize(c, op, d, size)
      <3>1. (size - 1) + 1 = size
        BY <1>2
      <3>2. Resize(c, op, d, (size - 1) + 1)
        BY <1>1, <1>4, <2>1 DEF Write
      <3> QED
        BY <3>1, <3>2
    <2> QED
      BY <1>2, <2>2, ResizePages
  <1> QED
    BY <1>3, <1>4

\* A fork: the child has the descriptors and pages of the parent.
LEMMA SharePages ==
    ASSUME SInv, SInv', PInv, NEW c \in Clients, NEW child \in Clients \ {c}, Share(c, child)
    PROVE  PInv'
  <1>1. /\ UNCHANGED <<blk, free, dirty, panic, o_file>>
        /\ f_size' = f_size /\ call' = call /\ ipc' = ipc /\ reply' = reply /\ server' = server /\ loose' = loose
    BY DEF Share, vars
  <1>2. /\ fd'[child] = fd[c] /\ page'[child] = page[c]
        /\ \A e \in Clients \ {child} : fd'[e] = fd[e] /\ page'[e] = page[e]
    BY DEF Share, SInv, Types, FdTables, PageTables
  <1>3. ipc[c] = "none" /\ call[c].at = "start" /\ call[child].at = "start"
    BY DEF Share, Starts, SInv, Waits, PInv, Shapes
  <1>4. \A f \in FileIds : Carried(f) /\ (Broken(Cache, f) => Broken(Cache', f))
    BY <1>1, BlkStays DEF SInv
  <1>5. Acts(c)
    BY <1>1, <1>3, <1>4 DEF Acts
  <1>6. FdsStay(c)
    BY <1>2, <1>3 DEF FdsStay
  <1>7. Shaped(c)' /\ \A i : Silent(c, i) /\ Silent(c, i)'
    BY <1>1, <1>3 DEF Shaped, Silent, Maps, Asks
  <1>8. ASSUME NEW i \in Entries, NEW h \in Holders(i)'
        PROVE  \E g \in Holders(i) : page'[h[1]][h[2]] = page[g[1]][g[2]]
    <2>1. h \in Clients \X Fds /\ h[1] \in Clients /\ h[2] \in Fds /\ fd'[h[1]][h[2]] = i /\ h = <<h[1], h[2]>>
      BY <1>8 DEF Holders
    <2>2. CASE h[1] = child
      <3>1. <<c, h[2]>> \in Holders(i) /\ page'[h[1]][h[2]] = page[c][h[2]]
        BY <1>2, <2>1, <2>2 DEF Holders
      <3> QED
        BY <3>1
    <2>3. CASE h[1] # child
      <3>1. h \in Holders(i) /\ page'[h[1]][h[2]] = page[h[1]][h[2]]
        BY <1>2, <2>1, <2>3 DEF Holders
      <3> QED
        BY <3>1
    <2> QED
      BY <2>2, <2>3
  <1>9. ASSUME NEW i \in Entries, \A d \in Fds : fd[c][d] # i PROVE Holders(i)' = Holders(i)
    <2>1. \A d \in Fds : fd[child][d] # i
      BY ServNumbers DEF Share
    <2>2. ASSUME NEW h \in Clients \X Fds PROVE fd'[h[1]][h[2]] = i <=> fd[h[1]][h[2]] = i
      <3>1. h[1] \in Clients /\ h[2] \in Fds
        OBVIOUS
      <3> QED
        BY <1>2, <1>9, <2>1, <3>1
    <2> QED
      BY <2>2 DEF Holders
  <1>10. ASSUME NEW i \in Entries, EntryGood(i), o_file[i] \in FileIds, Covers(Cache, Cache', o_file[i])
         PROVE  EntryGood(i)'
    <2>1. SameFor(c, i)
      BY <1>7, SilentClient
    <2>2. Holders(i)' = Holders(i) \/ \A e \in Clients : ~Maps(e, i)
      BY <1>3, <1>9, <1>10, NobodyMaps
    <2>3. \A e \in Clients \ {c} : call[e].at = "start" => SameFor(e, i)
      BY <1>5, IdleSame
    <2> QED
      BY <1>1, <1>5, <1>6, <1>8, <1>10, <2>1, <2>2, <2>3, ActsKeep
  <1>11. \A i \in Entries : Holders(i) = {} => Holders(i)' = {} /\ f_size'[i] = f_size[i]
    BY <1>1, <1>8
  <1> QED
    BY <1>5, <1>6, <1>7, <1>10, <1>11, ActsHold

-----------------------------------------------------------------------------
\* At first nobody has a descriptor and no call is going on.
LEMMA PagesInit == ASSUME ServInit PROVE PInv
  <1>1. /\ \A c \in Clients, d \in Fds : fd[c][d] = 0
        /\ \A c \in Clients : call[c] = NoCall
        /\ server = Receiving
    BY DEF ServInit
  <1>2. \A i \in Entries : Holders(i) = {}
    BY <1>1, ServNumbers DEF Holders
  <1>3. Pending
    BY <1>1 DEF Pending, Receiving
  <1>4. Shapes
    BY <1>1 DEF Shapes, NoCall
  <1> QED
    BY <1>2, <1>3, <1>4 DEF PInv, Entered

LEMMA PagesStutter == ASSUME PInv, UNCHANGED servVars PROVE PInv'
  <1>1. /\ Cache' = Cache /\ o_file' = o_file /\ fd' = fd /\ page' = page /\ f_size' = f_size
        /\ call' = call /\ ipc' = ipc /\ reply' = reply /\ server' = server /\ loose' = loose
    BY DEF servVars, local, vars, Cache
  <1>2. /\ \A i : Holders(i)' = Holders(i) /\ FileSize(i)' = FileSize(i)
        /\ \A e : Of(e)' = Of(e) /\ Done(e)' = Done(e)
        /\ \A e, i : (Maps(e, i)' <=> Maps(e, i)) /\ (Asks(e, i)' <=> Asks(e, i))
    BY <1>1 DEF Holders, FileSize, Of, Done, Maps, Asks
  <1>3. \A i, k : AllBack(i, k) => AllBack(i, k)'
    BY <1>1, <1>2 DEF AllBack
  <1>4. \A e, i : /\ Mapping(e, i) => Mapping(e, i)'
                  /\ Asking(e, i) => Asking(e, i)'
    BY <1>1, <1>2, <1>3 DEF Mapping, Asking
  <1>5. \A i : EntryGood(i) => EntryGood(i)'
    BY <1>1, <1>2, <1>3, <1>4 DEF EntryGood
  <1>6. Entered'
    BY <1>1, <1>2, <1>5 DEF PInv, Entered
  <1>7. Pending'
    BY <1>1, <1>2 DEF PInv, Pending
  <1>8. Shapes'
    BY <1>1, <1>2 DEF PInv, Shapes
  <1> QED
    BY <1>6, <1>7, <1>8 DEF PInv

\* Every step of a client or of the server keeps the invariant.
LEMMA PagesStep == SInv /\ SInv' /\ PInv /\ [ServNext]_servVars => PInv'
  <1> SUFFICES ASSUME SInv, SInv', PInv, [ServNext]_servVars PROVE PInv'
    OBVIOUS
  <1>1. CASE Answer
    BY <1>1, AnswerPages
  <1>2. ASSUME NEW c \in Clients, Handle(c) PROVE PInv'
    BY <1>2, ServeOpenPages, ServeMapPages, ServeSetSizePages, ServeDirtyPages, ServeClosePages,
       ServeRemovePages, ServeCreatePages, ServeSyncPages DEF Handle
  <1>3. ASSUME NEW c \in Clients, Continue(c) PROVE PInv'
    BY <1>3, OpenContinuesPages, MapContinuesPages, SetSizeContinuesPages, RestoreContinuesPages,
       DirtyContinuesPages, CloseContinuesPages, PathContinuesPages DEF Continue
  <1>4. ASSUME NEW c \in Clients, Begin(c) PROVE PInv'
    <2>1. ASSUME NEW path, NEW creat, NEW trunc, Open(c, "open", path, creat, trunc) PROVE PInv'
      <3>1. PICK op \in {"open", "create"} : op = "open"
        OBVIOUS
      <3> QED
        BY <2>1, <3>1, OpenPages
    <2>2. ASSUME NEW path, Open(c, "create", path, FALSE, FALSE) PROVE PInv'
      <3>1. PICK op \in {"open", "create"}, no \in BOOLEAN : op = "create" /\ no = FALSE
        OBVIOUS
      <3>2. Open(c, op, path, no, no)
        BY <2>2, <3>1
      <3> QED
        BY <3>2, OpenPages
    <2>3. ASSUME NEW path, RemoveFile(c, path) PROVE PInv'
      BY <2>3, RemovePages
    <2>4. CASE Sync(c)
      BY <2>4, SyncPages
    <2>5. ASSUME NEW d \in Fds, Close(c, d) PROVE PInv'
      BY <2>5, ClosePages
    <2>6. ASSUME NEW d \in Fds, NEW size \in Sizes, Resize(c, "ftruncate", d, size) PROVE PInv'
      <3>1. PICK op \in {"ftruncate", "write"} : op = "ftruncate"
        OBVIOUS
      <3>2. Resize(c, op, d, size) /\ size \in Nat
        BY <2>6, <3>1, ServNumbers DEF FileSizes
      <3> QED
        BY <3>2, ResizePages
    <2>7. ASSUME NEW d \in Fds, NEW size \in Sizes \ {0}, Write(c, d, size - 1) PROVE PInv'
      BY <2>7, WritePages
    <2>8. ASSUME NEW child \in Clients \ {c}, Share(c, child) PROVE PInv'
      BY <2>8, SharePages
    <2> QED
      BY <1>4, <2>1, <2>2, <2>3, <2>4, <2>5, <2>6, <2>7, <2>8 DEF Begin
  <1>5. CASE UNCHANGED servVars
    BY <1>5, PagesStutter
  <1> QED
    BY <1>1, <1>2, <1>3, <1>4, <1>5 DEF ServNext

\* What the invariant says of an entry that no call is going on with.
LEMMA QuietPages == ASSUME SInv, PInv PROVE PagesOfFile
  <1> SUFFICES ASSUME NEW c \in Clients, NEW d \in Fds, NEW i, i = fd[c][d],
                      i # 0, i \notin loose, Quiet(i), Intact
               PROVE  /\ f_size[i] <= File(Cache, o_file[i]).size
                      /\ \A n \in 0..(f_size[i] - 1) : page[c][d][n] = Ptr(Cache, o_file[i], n)
    BY DEF PagesOfFile
  <1>1. i \in Entries /\ o_file[i] # Null
    BY DEF SInv, Types, FdTables, Opens
  <1>2. ~Broken(Cache, o_file[i])
    BY <1>1, ServingClean, ServNumbers DEF SInv, Intact
  <1>3. <<c, d>> \in Holders(i)
    BY DEF Holders
  <1>4. EntryGood(i)
    BY <1>1, <1>2, <1>3 DEF PInv, Entered
  <1>5. \A e \in Clients : ~Asks(e, i) /\ ~Maps(e, i)
    BY DEF Quiet, Asks, Maps, Of, PInv, Shapes
  <1>6. Backs(Cache, page[c][d], o_file[i], f_size[i])
    <2>1. AllBack(i, f_size[i])
      BY <1>4, <1>5 DEF EntryGood
    <2> QED
      BY <1>3, <2>1 DEF AllBack
  <1> QED
    BY <1>6 DEF Backs

\* PagesOfFile: the pages that a client reads and writes through a descriptor
\* are the blocks of its file, all of them up to the size in the descriptor,
\* in whatever order the requests and answers of all clients come: as long as
\* the server is Intact and the entry is not loose.  It is loose once another
\* descriptor made the file shorter or removed it, a call on the entry failed,
\* or it was resized while more than one client had it.
THEOREM PagesAreOfFile == ServSpec => []PagesOfFile
  <1>1. ServInit => PInv
    BY PagesInit
  <1>2. SInv /\ SInv' /\ PInv /\ [ServNext]_servVars => PInv'
    BY PagesStep
  <1>3. ServSpec => []PInv
    BY <1>1, <1>2, ServInductive, PTL DEF ServSpec
  <1>4. SInv /\ PInv => PagesOfFile
    BY QuietPages
  <1> QED
    BY <1>3, <1>4, ServInductive, PTL
====
