------------------------------ MODULE FsFormat ------------------------------
(***************************************************************************)
(* How tools/fsformat.c lays out a disk: the given files and directories   *)
(* are written one after the other, blocks are taken in order, and the     *)
(* bitmap is written last.  The image is what fs.c then reads.             *)
(*                                                                         *)
(* A tree is a sequence, and names and paths are places in it.  An entry   *)
(* is [file |-> the number of its blocks] or [dir |-> a tree].  A block of *)
(* a file holds its path and which block of the file it is.  The image   *)
(* m is a cache of module Fs with nextbno, the next block to use.          *)
(* The tool never compares nextbno with its NBLOCK: images here fit.       *)
(***************************************************************************)
EXTENDS Fs

CONSTANTS IMAGE_BLOCKS,  \* NBLOCK of the tool
          MaxEntries     \* bound of the model on the entries of a tree

ASSUME FormatAssumption ==
    /\ IMAGE_BLOCKS \in Nat /\ IMAGE_BLOCKS > 3 /\ MaxEntries \in Nat
    /\ MaxEntries <= FILE2BLK * NINDIRECT

\* Boot block, super block and bitmap; the root has no block yet.
init_disk ==
    [blk |-> [b \in {Super} \cup 3..(IMAGE_BLOCKS - 1) |->
                IF b = Super
                THEN DirBlock([j \in Slots |-> [EmptyFile EXCEPT !.isdir = (j = 0)]])
                ELSE Zero],
     free |-> {}, dirty |-> {}, written |-> {}, panic |-> "none", nextbno |-> 3]

\* Block m.nextbno is taken.
next_block(m) == [m EXCEPT !.nextbno = @ + 1]

WithIndirect(m, f) ==
    IF File(m, f).indirect # 0 THEN m
    ELSE next_block(Put(m, f, [File(m, f) EXCEPT !.indirect = m.nextbno]))

\* Mutant of save_block_link: the indirect block is filled from its first place.
save_block_link_FromZero(m, f, nblk, bno) ==
    IF nblk < NDIRECT THEN SetPtr(m, f, nblk, bno)
    ELSE LET x == WithIndirect(m, f)
         IN  [x EXCEPT !.blk[File(x, f).indirect] =
                IndBlock([AsInd(@) EXCEPT ![nblk - NDIRECT] = bno])]

save_block_link(m, f, nblk, bno) ==
    SetPtr(IF nblk < NDIRECT THEN m ELSE WithIndirect(m, f), f, nblk, bno)

\* A block for the entries of a directory, at the end of it.
make_link_block(m, dirf, nblk) ==
    SetSize(save_block_link(next_block(m), dirf, nblk, m.nextbno), dirf, nblk + 1)

\* The first unused File of a directory, or that of a new block.
Unused(m, dirf) ==
    { k \in 0..(File(m, dirf).size * FILE2BLK - 1) :
        File(m, <<Ptr(m, dirf, k \div FILE2BLK), k % FILE2BLK>>).name = NoName }
create_file(m, dirf) ==
    IF Unused(m, dirf) # {}
    THEN LET k == Min(Unused(m, dirf))
         IN  [Ok(m) EXCEPT !.file = <<Ptr(m, dirf, k \div FILE2BLK), k % FILE2BLK>>]
    ELSE [Ok(make_link_block(m, dirf, File(m, dirf).size)) EXCEPT !.file = <<m.nextbno, 0>>]

\* The name an entry has in its directory.
Name(path) == ToString(Last(path))

Content(path, n) == [kind |-> "data", path |-> path, n |-> n]

\* Data is read into the next block before the block is taken and linked.
write_block_of(m, f, path, n) ==
    save_block_link(next_block([m EXCEPT !.blk[m.nextbno] = Content(path, n)]), f, n, m.nextbno)

write_file(m, dirf, path, size) ==
    LET target == create_file(m, dirf)
        named == Put(target.m, target.file,
                     [File(target.m, target.file) EXCEPT !.name = Name(path), !.size = size,
                                                         !.isdir = FALSE])
    IN  FoldLeft(LAMBDA x, k : write_block_of(x, target.file, path, k - 1), named, [k \in 1..size |-> k])

\* The entries of a tree, the directory dirf being at this path.
RECURSIVE write_entries(_, _, _, _)
write_directory(m, dirf, path, tree) ==
    LET pdir == create_file(m, dirf)
    IN  write_entries(Put(pdir.m, pdir.file,
                          [File(pdir.m, pdir.file) EXCEPT !.name = Name(path), !.isdir = TRUE]),
                      pdir.file, path, tree)
write_entries(m, dirf, path, tree) ==
    FoldLeft(LAMBDA x, k :
               IF "dir" \in DOMAIN tree[k]
               THEN write_directory(x, dirf, Append(path, k), tree[k].dir)
               ELSE write_file(x, dirf, Append(path, k), tree[k].file),
             m, [k \in DOMAIN tree |-> k])

\* Every block that was taken is marked used.
flush_bitmap(m) == [m EXCEPT !.free = m.nextbno..(IMAGE_BLOCKS - 1)]

Image(tree) == flush_bitmap(write_entries(init_disk, Root, <<>>, tree))

-----------------------------------------------------------------------------
EmptyTree == <<>>
FileSizes == { [file |-> n] : n \in 0..NINDIRECT }
Flat(k) == SeqOf(FileSizes \cup {[dir |-> EmptyTree]}, k)
Trees == Flat(MaxEntries) \cup SeqOf(FileSizes \cup { [dir |-> t] : t \in Flat(MaxEntries - 1) }, 2)

\* The paths of a tree whose directories are nested no deeper than these.
At(tree, path) == IF Len(path) = 1 THEN tree[path[1]] ELSE tree[path[1]].dir[path[2]]
PathsOf(tree) ==
    { <<k>> : k \in DOMAIN tree }
      \cup UNION { { <<k, n>> : n \in DOMAIN tree[k].dir } :
                     k \in { d \in DOMAIN tree : "dir" \in DOMAIN tree[d] } }

\* fs.c finds this entry under its path: a file with its size and the right
\* contents in every block, or a directory.
Found(m, path, entry) ==
    LET x == walk_path(m, [k \in DOMAIN path |-> ToString(path[k])])
    IN  /\ x.r = "ok" /\ x.m.panic = "none"
        /\ File(m, x.file).isdir = ("dir" \in DOMAIN entry)
        /\ "file" \in DOMAIN entry =>
             /\ File(m, x.file).size = entry.file /\ Mapped(m, x.file) = 0..(entry.file - 1)
             /\ \A n \in Mapped(m, x.file) : m.blk[Ptr(m, x.file, n)] = Content(path, n)

Sound(tree) ==
    LET m == Image(tree)
    IN  /\ \A path \in PathsOf(tree) : Found(m, path, At(tree, path))
        /\ Cardinality({ f \in Files(m) : File(m, f).name # NoName }) = Cardinality(PathsOf(tree))
        /\ \A p, q \in InUse(m) : p[3] = q[3] => p = q
        /\ { p[3] : p \in InUse(m) } = 3..(IMAGE_BLOCKS - 1) \ m.free
=============================================================================
