--------------------------------- MODULE Fs ---------------------------------
(***************************************************************************)
(* The file system server: blocks, bitmap, files and directories (fs/fs.c) *)
(* and the request handlers of fs/serv.c.  The server handles one request  *)
(* at a time, so a handler is one step; its routines transform a record m  *)
(* of the block cache one after the other.                                 *)
(*                                                                         *)
(* A struct File lies in a directory block: <<b, j>> is slot j of block b, *)
(* and the root is slot 0 of block 1.  The cache never drops a page and    *)
(* alloc_block does not clear one, so a block keeps its contents when it   *)
(* is freed and allocated again.  A page never cached before comes zeroed. *)
(* When a block that holds bytes of a file becomes a directory or indirect *)
(* block, the code takes the old bytes for names, sizes and block numbers: *)
(* what it does from then on depends on them, and the model stops, with    *)
(* panic = "stale".                                                        *)
(*                                                                         *)
(* Sizes are in blocks.  Left out: running out of memory, file contents    *)
(* beyond "written by a client", the open file table (a request names any  *)
(* opened file), the copy of the File in the client's Filefd page, stores  *)
(* of a client to a page whose block its file has lost.                    *)
(***************************************************************************)
EXTENDS Integers, Sequences, FiniteSets, FiniteSetsExt, SequencesExt

CONSTANTS NBLOCKS,    \* s_nblocks: 0 boot, 1 super block, 2 bitmap, then data
          FILE2BLK,   \* struct Files in a block
          NDIRECT,    \* direct pointers of a File
          NINDIRECT,  \* blocks of the largest file
          Names,      \* file names
          NoName,     \* f_name[0] = '\0'
          Paths,      \* the paths of requests: sequences of names
          MAXOPEN,    \* files open at once
          MaxRequests \* bound of the model on the steps of a behaviour

ASSUME FsAssumption ==
    /\ NBLOCKS \in Nat /\ NBLOCKS > 3
    /\ FILE2BLK \in Nat \ {0} /\ NDIRECT \in Nat \ {0}
    /\ NINDIRECT \in Nat /\ NINDIRECT > NDIRECT
    /\ NoName \notin Names
    /\ Paths \subseteq Seq(Names) \ {<<>>}
    /\ MAXOPEN \in Nat \ {0} /\ MaxRequests \in Nat

Super == 1
Bitmap == 2
Data == 3..(NBLOCKS - 1)
Slots == 0..(FILE2BLK - 1)
Root == <<Super, 0>>
Null == <<0, 0>>

VARIABLES blk,      \* contents of the super block and of the data blocks
          free,     \* blocks marked free in the bitmap
          dirty,    \* blocks whose page has PTE_DIRTY
          written,  \* blocks the last request wrote to disk
          o_file,   \* the File of each open file, Null if not opened yet
          panic,    \* why the server stopped, or "none"; "stale" is where
                    \* only the model stops
          requests  \* steps taken

vars == <<blk, free, dirty, written, panic, o_file, requests>>

\* Contents of a block.
EmptyFile == [name |-> NoName, size |-> 0, isdir |-> FALSE,
              direct |-> [n \in 0..(NDIRECT - 1) |-> 0], indirect |-> 0, dir |-> Null]
NoPtrs    == [n \in 0..(NINDIRECT - 1) |-> 0]
Zero      == [kind |-> "zero"]
Written   == [kind |-> "data"]
DirBlock(files) == [kind |-> "dir", files |-> files]
IndBlock(ptrs)  == IF ptrs = NoPtrs THEN Zero ELSE [kind |-> "ind", ptrs |-> ptrs]

\* A block read as a directory block, or as an indirect block.  A request in
\* which a block of another kind but "zero" is read so does not leave the
\* server Intact (below).
AsDir(c) == IF c.kind = "dir" THEN c.files ELSE [j \in Slots |-> EmptyFile]
AsInd(c) == IF c.kind = "ind" THEN c.ptrs ELSE NoPtrs

-----------------------------------------------------------------------------
(***************************************************************************)
(* Blocks                                                                  *)
(***************************************************************************)

\* The cache when a request arrives.
Cache == [blk |-> blk, free |-> free, dirty |-> dirty, written |-> {}, panic |-> panic]

File(m, f) == AsDir(m.blk[f[1]])[f[2]]

\* *f = new.
Put(m, f, new) == [m EXCEPT !.blk[f[1]] = DirBlock([AsDir(@) EXCEPT ![f[2]] = new])]

write_block(m, b) == [m EXCEPT !.written = @ \cup {b}]

free_block(m, b) == IF b = 0 THEN m ELSE [m EXCEPT !.free = @ \cup {b}]

\* What a routine returns: a result r, the cache m, a block and Files.  Then
\* goes on with Op unless x is an error.
Ok(m) == [r |-> "ok", m |-> m, b |-> 0, file |-> Null, dir |-> Null]
Err(m, why) == [Ok(m) EXCEPT !.r = why]
Then(x, Op(_)) == IF x.r = "ok" THEN Op(x) ELSE x

\* Mutant of alloc_block: the block stays marked free.
alloc_block_Unmarked(m) ==
    IF m.free = {} THEN Err(m, "NO_DISK")
    ELSE [Ok(write_block(m, Bitmap)) EXCEPT !.b = Min(m.free)]

\* The first free block, with the bitmap written to disk.
alloc_block(m) ==
    IF m.free = {} THEN Err(m, "NO_DISK")
    ELSE [Ok(write_block([m EXCEPT !.free = @ \ {Min(@)}], Bitmap)) EXCEPT !.b = Min(m.free)]

\* read_block panics on a free block.
read_block(m, b) == IF b \in m.free THEN [m EXCEPT !.panic = "read_free"] ELSE m

\* The pointer to block n of f, once file_block_walk has found it.
Ptr(m, f, n) == IF n < NDIRECT THEN File(m, f).direct[n]
                ELSE AsInd(m.blk[File(m, f).indirect])[n]

SetPtr(m, f, n, b) ==
    IF n < NDIRECT THEN Put(m, f, [File(m, f) EXCEPT !.direct[n] = b])
    ELSE [m EXCEPT !.blk[File(m, f).indirect] = IndBlock([AsInd(@) EXCEPT ![n] = b])]

file_block_walk(m, f, n, alloc) ==
    CASE n < NDIRECT -> Ok(m)
      [] n >= NINDIRECT -> Err(m, "INVAL")
      [] n \in NDIRECT..(NINDIRECT - 1) ->
           IF File(m, f).indirect # 0 THEN Ok(read_block(m, File(m, f).indirect))
           ELSE IF ~alloc THEN Err(m, "NOT_FOUND")
           ELSE Then(alloc_block(m),
                     LAMBDA x : Ok(Put(x.m, f, [File(x.m, f) EXCEPT !.indirect = x.b])))

MapAt(m, f, n, alloc, ptr) ==
    IF ptr # 0 THEN [Ok(m) EXCEPT !.b = ptr]
    ELSE IF ~alloc THEN Err(m, "NOT_FOUND")
    ELSE Then(alloc_block(m), LAMBDA x : [x EXCEPT !.m = SetPtr(@, f, n, x.b)])

file_map_block(m, f, n, alloc) ==
    Then(file_block_walk(m, f, n, alloc),
         LAMBDA x : MapAt(x.m, f, n, alloc, Ptr(x.m, f, n)))

\* Mutant of file_clear_block: the pointer stays.
file_clear_block_Dangles(m, f, n) ==
    Then(file_block_walk(m, f, n, FALSE),
         LAMBDA x : [x EXCEPT !.m = free_block(@, Ptr(@, f, n))])

file_clear_block(m, f, n) ==
    Then(file_block_walk(m, f, n, FALSE),
         LAMBDA x : IF Ptr(x.m, f, n) = 0 THEN x
                    ELSE [x EXCEPT !.m = SetPtr(free_block(@, Ptr(@, f, n)), f, n, 0)])

file_get_block(m, f, n) ==
    Then(file_map_block(m, f, n, TRUE), LAMBDA x : [x EXCEPT !.m = read_block(@, x.b)])

\* The indices below the size of f for which file_map_block finds a block
\* without allocating, and these blocks.
Mapped(m, f) == { n \in 0..(File(m, f).size - 1) :
                    /\ n < NDIRECT \/ (n < NINDIRECT /\ File(m, f).indirect # 0)
                    /\ Ptr(m, f, n) # 0 }
BlocksOf(m, f) == { Ptr(m, f, n) : n \in Mapped(m, f) }

\* The blocks of f that are dirty are written.  Looking beyond the direct
\* pointers reads the indirect block.
Flushed(m, f) == [m EXCEPT !.written = @ \cup (BlocksOf(m, f) \cap m.dirty)]
file_flush(m, f) ==
    IF File(m, f).size > NDIRECT /\ File(m, f).indirect # 0
    THEN read_block(Flushed(m, f), File(m, f).indirect)
    ELSE Flushed(m, f)

fs_sync(m) == [m EXCEPT !.written = @ \cup m.dirty]

dirty_block(m, b) == [m EXCEPT !.dirty = @ \cup {b}]

file_dirty(m, f, n) ==
    Then(file_map_block(m, f, n, FALSE), LAMBDA x : [x EXCEPT !.m = dirty_block(@, x.b)])

-----------------------------------------------------------------------------
(***************************************************************************)
(* Directories                                                             *)
(***************************************************************************)

\* The slots of block x.b with this name; "scan" when there is none.
InBlock(x, name) ==
    LET hits == { j \in Slots : File(x.m, <<x.b, j>>).name = name }
    IN  IF hits = {} THEN [x EXCEPT !.r = "scan"] ELSE [x EXCEPT !.file = <<x.b, Min(hits)>>]

\* The blocks of dir are searched for a name; a missing block is allocated.
ScanStep(x, dir, n, name) ==
    IF x.r # "scan" THEN x
    ELSE Then(file_get_block(x.m, dir, n), LAMBDA y : InBlock(y, name))
Scan(m, dir, name) ==
    LET nblock == File(m, dir).size
        after[i \in 0..nblock] == IF i = 0 THEN Err(m, "scan")
                                  ELSE ScanStep(after[i - 1], dir, i - 1, name)
    IN  after[nblock]

LookedUp(x, dir) ==
    CASE x.r = "ok" -> [x EXCEPT !.m = Put(@, x.file, [File(@, x.file) EXCEPT !.dir = dir])]
      [] x.r = "scan" -> [x EXCEPT !.r = "NOT_FOUND"]
      [] OTHER -> x

dir_lookup(m, dir, name) == LookedUp(Scan(m, dir, name), dir)

SetSize(m, f, n) == Put(m, f, [File(m, f) EXCEPT !.size = n])

\* Slot 0 of a new block; the size grows before the block is there.
NewSlot(m, dir, n) ==
    Then(file_get_block(SetSize(m, dir, n + 1), dir, n),
         LAMBDA x : [x EXCEPT !.file = <<x.b, 0>>])

\* A free slot, or a new one.
SlotFor(x, dir) == IF x.r = "scan" THEN NewSlot(x.m, dir, File(x.m, dir).size) ELSE x

dir_alloc_file(m, dir) == SlotFor(Scan(m, dir, NoName), dir)

\* One name of a path.  The result has dir set when the path is missing only
\* in its last name.
InDir(x, dir) == [x EXCEPT !.dir = IF x.r \in {"ok", "NOT_FOUND"} THEN dir ELSE Null]
WalkStep(x, name) ==
    IF x.r # "ok" THEN [x EXCEPT !.dir = Null]
    ELSE IF ~File(x.m, x.file).isdir THEN Err(x.m, "NOT_FOUND")
    ELSE InDir(dir_lookup(x.m, x.file, name), x.file)

\* Mutant of walk_path: the directory is returned for the file.
walk_path_Parent(m, path) ==
    Then(FoldLeft(WalkStep, [Ok(m) EXCEPT !.file = Root], path),
         LAMBDA x : [x EXCEPT !.file = x.dir])

walk_path(m, path) ==
    LET after[i \in 0..Len(path)] == IF i = 0 THEN [Ok(m) EXCEPT !.file = Root]
                                     ELSE WalkStep(after[i - 1], path[i])
    IN  after[Len(path)]

\* file_create gives the slot a name and leaves its other fields as they are.
Named(x, name) ==
    IF x.r # "ok" THEN [x EXCEPT !.r = "NOT_FOUND"]
    ELSE [x EXCEPT !.m = Put(@, x.file, [File(@, x.file) EXCEPT !.name = name])]

CreateAt(x, name) ==
    IF x.r = "ok" THEN [x EXCEPT !.r = "FILE_EXISTS"]
    ELSE IF x.r # "NOT_FOUND" \/ x.dir = Null THEN x
    ELSE Named(dir_alloc_file(x.m, x.dir), name)

file_create(m, path) == CreateAt(walk_path(m, path), path[Len(path)])

\* A block that file_clear_block cannot reach is a panic.
Cleared(x) == IF x.r = "ok" THEN x.m ELSE [x.m EXCEPT !.panic = "truncate"]
ClearStep(m, f, n) == IF m.panic # "none" THEN m ELSE Cleared(file_clear_block(m, f, n))
ClearFrom(m, f, new) ==
    LET old == File(m, f).size
        after[k \in 0..(old - new)] == IF k = 0 THEN m
                                       ELSE ClearStep(after[k - 1], f, new + k - 1)
    IN  after[old - new]

FreeIndirect(m, f) ==
    IF File(m, f).indirect = 0 THEN m
    ELSE Put(free_block(m, File(m, f).indirect), f, [File(m, f) EXCEPT !.indirect = 0])

Shrunk(m, f, new) ==
    IF m.panic # "none" THEN m
    ELSE SetSize(IF new <= NDIRECT THEN FreeIndirect(m, f) ELSE m, f, new)

file_truncate(m, f, new) == Shrunk(ClearFrom(m, f, new), f, new)

\* f->f_dir is flushed if it is set.
FlushDir(m, f) ==
    IF m.panic # "none" \/ File(m, f).dir = Null THEN m ELSE file_flush(m, File(m, f).dir)

file_set_size(m, f, new) ==
    FlushDir(IF File(m, f).size > new THEN file_truncate(m, f, new) ELSE SetSize(m, f, new), f)

\* Mutant of file_close: the block of the entry is not marked.
file_close_Unmarked(m, f) == FlushDir(file_flush(m, f), f)

\* The directory's blocks are read up to the one that holds f, which is
\* marked dirty so that flushing the directory writes it; the search ends at
\* a block that is missing.
Holds(m, dir, b) ==
    \E n \in Mapped(m, dir) : Ptr(m, dir, n) = b /\ 0..n \subseteq Mapped(m, dir)
MarkEntry(m, f) ==
    IF File(m, f).dir # Null /\ Holds(m, File(m, f).dir, f[1]) THEN dirty_block(m, f[1]) ELSE m

file_close(m, f) == FlushDir(MarkEntry(file_flush(m, f), f), f)

Unnamed(m, f) ==
    IF m.panic # "none" THEN m
    ELSE FlushDir(Put(m, f, [File(m, f) EXCEPT !.name = NoName]), f)

file_remove(m, path) ==
    Then(walk_path(m, path),
         LAMBDA x : [x EXCEPT !.m = Unnamed(file_truncate(@, x.file, 0), x.file)])

-----------------------------------------------------------------------------
(***************************************************************************)
(* Requests                                                                *)
(***************************************************************************)

\* The blocks some File or indirect block of the cache points to.
Files(m) == { f \in (DOMAIN m.blk) \X Slots : m.blk[f[1]].kind = "dir" }
Pointers(m) ==
    { <<f, n, File(m, f).direct[n]>> : f \in Files(m), n \in 0..(NDIRECT - 1) }
      \cup { <<f, NDIRECT, File(m, f).indirect>> : f \in Files(m) }
      \cup { <<<<b, 0>>, n, AsInd(m.blk[b])[n]>> :
               b \in { c \in DOMAIN m.blk : m.blk[c].kind = "ind" }, n \in 0..(NINDIRECT - 1) }
InUse(m) == { p \in Pointers(m) : p[3] # 0 }

\* Metadata would be read from a block that last held something else: one that
\* was reused and only linked so far, or one a client has written to since.
\* The last are the blocks of an open file and of its f_dir.
Corrupt ==
    \/ \E f \in Files(Cache) : LET file == File(Cache, f)
                        IN  \/ file.indirect # 0 /\ blk[file.indirect].kind \notin {"ind", "zero"}
                            \/ file.isdir /\ \E b \in BlocksOf(Cache, f) :
                                                 blk[b].kind \notin {"dir", "zero"}
    \/ \E i \in 1..MAXOPEN :
         /\ o_file[i] # Null
         /\ \/ blk[o_file[i][1]].kind # "dir"
            \/ LET dir == File(Cache, o_file[i]).dir
               IN  dir # Null /\ blk[dir[1]].kind # "dir"

\* A block became a directory or an indirect block in this request, and was
\* used as one, without being cleared: it held something else before.
Uncleared(m) == \E b \in Data : /\ m.blk[b].kind \in {"dir", "ind"}
                                /\ blk[b].kind \notin {"zero", m.blk[b].kind}

\* No metadata was, or would be, read from bytes that are none.
Intact == panic # "stale" /\ ~Corrupt

Serving == panic = "none" /\ ~Corrupt /\ requests < MaxRequests

Becomes(m) ==
    /\ blk' = m.blk /\ free' = m.free /\ dirty' = m.dirty /\ written' = m.written
    /\ panic' = IF m.panic = "none" /\ Uncleared(m) THEN "stale" ELSE m.panic
    /\ requests' = requests + 1

\* Any entry of opentab may be the one that is free.
Opening(c, path) == IF c.r \in {"ok", "FILE_EXISTS"} THEN walk_path(c.m, path) ELSE c
OpenAs(i, x, trunc) ==
    IF x.r = "ok"
    THEN /\ Becomes(IF trunc THEN file_set_size(x.m, x.file, 0) ELSE x.m)
         /\ o_file' = [o_file EXCEPT ![i] = x.file]
    ELSE Becomes(x.m) /\ UNCHANGED o_file

serve_open(i, path, creat, trunc) ==
    /\ Serving
    /\ OpenAs(i, Opening(IF creat THEN file_create(Cache, path) ELSE Ok(Cache), path), trunc)

serve_map(i, n) ==
    /\ Serving /\ o_file[i] # Null
    /\ Becomes(file_get_block(Cache, o_file[i], n).m)
    /\ UNCHANGED o_file

serve_set_size(i, new) ==
    /\ Serving /\ o_file[i] # Null
    /\ Becomes(file_set_size(Cache, o_file[i], new))
    /\ UNCHANGED o_file

serve_close(i) ==
    /\ Serving /\ o_file[i] # Null
    /\ Becomes(file_close(Cache, o_file[i]))
    /\ UNCHANGED o_file

serve_remove(path) ==
    /\ Serving
    /\ Becomes(file_remove(Cache, path).m)
    /\ UNCHANGED o_file

serve_dirty(i, n) ==
    /\ Serving /\ o_file[i] # Null
    /\ Becomes(file_dirty(Cache, o_file[i], n).m)
    /\ UNCHANGED o_file

serve_sync ==
    /\ Serving
    /\ Becomes(fs_sync(Cache))
    /\ UNCHANGED o_file

serve_create(path, isdir) ==
    /\ Serving
    /\ Becomes(Then(file_create(Cache, path),
                    LAMBDA x : [x EXCEPT !.m = Put(@, x.file, [File(@, x.file) EXCEPT !.isdir = isdir])]).m)
    /\ UNCHANGED o_file

\* A client stores to a page of its file that it has mapped.
ClientWrite(i, n) ==
    /\ Serving /\ o_file[i] # Null
    /\ ~File(Cache, o_file[i]).isdir /\ n \in Mapped(Cache, o_file[i])
    /\ blk' = [blk EXCEPT ![Ptr(Cache, o_file[i], n)] = Written]
    /\ written' = {} /\ requests' = requests + 1
    /\ UNCHANGED <<free, dirty, panic, o_file>>

-----------------------------------------------------------------------------
\* A formatted disk: the root directory has one block, with the given files.
Formatted(files, used) ==
    /\ blk = [b \in {Super} \cup Data |->
                CASE b = Super -> DirBlock([j \in Slots |->
                        IF j = 0 THEN [EmptyFile EXCEPT !.size = 1, !.isdir = TRUE, !.direct[0] = 3]
                        ELSE EmptyFile])
                  [] b = 3 -> files
                  [] b \in Data \ {3} -> Zero]
    /\ free = Data \ ({3} \cup used)
    /\ dirty = {} /\ written = {}
    /\ o_file = [i \in 1..MAXOPEN |-> Null]
    /\ panic = "none"
    /\ requests = 0

Init == Formatted(Zero, {})

Opened == 1..MAXOPEN

Next ==
    \/ \E i \in Opened, path \in Paths, c, t \in BOOLEAN : serve_open(i, path, c, t)
    \/ \E i \in Opened, n \in 0..(NINDIRECT - 1) : serve_map(i, n)
    \/ \E i \in Opened, new \in 0..NINDIRECT : serve_set_size(i, new)
    \/ \E i \in Opened : serve_close(i)
    \/ \E path \in Paths : serve_remove(path)
    \/ \E i \in Opened, n \in 0..(NINDIRECT - 1) : serve_dirty(i, n)
    \/ serve_sync
    \/ \E path \in Paths, d \in BOOLEAN : serve_create(path, d)
    \/ \E i \in Opened, n \in 0..(NINDIRECT - 1) : ClientWrite(i, n)

Spec == Init /\ [][Next]_vars

-----------------------------------------------------------------------------
(***************************************************************************)
(* Properties                                                              *)
(***************************************************************************)

FileType == [name : Names \cup {NoName}, size : 0..(NINDIRECT + 1), isdir : BOOLEAN,
             direct : [0..(NDIRECT - 1) -> {0} \cup Data], indirect : {0} \cup Data,
             dir : {Null} \cup (({Super} \cup Data) \X Slots)]

\* The blocks, the bitmap and the open files are well formed, as far as the
\* model goes.
TypeOK ==
    /\ Intact => \A b \in DOMAIN blk :
         CASE blk[b].kind = "dir" -> \A j \in Slots : blk[b].files[j] \in FileType
           [] blk[b].kind = "ind" -> \A n \in DOMAIN NoPtrs : blk[b].ptrs[n] \in {0} \cup Data
           [] OTHER -> blk[b] \in {Zero, Written}
    /\ free \subseteq Data /\ dirty \subseteq {Super} \cup Data
    /\ written \subseteq {Super, Bitmap} \cup Data
    /\ \A i \in 1..MAXOPEN : o_file[i] \in {Null} \cup (Data \X Slots)
    /\ panic \in {"none", "read_free", "truncate", "stale"}
    /\ requests \in 0..MaxRequests

\* No block belongs to two files, or to a file and the free list, and no
\* pointer leaves the data area: whatever is created, extended, truncated and
\* removed in whatever order, a full disk in the middle of an operation and
\* directory blocks that become directory blocks again, with the old Files in
\* them, included.  Not so once a block with bytes of a file, or with metadata
\* of the other kind, has become a directory or an indirect block: its bytes
\* may then name any block.
BlocksOwned ==
    Intact => /\ \A p, q \in InUse(Cache) : p[3] = q[3] => p = q
              /\ \A p \in InUse(Cache) : p[3] \in Data \ free

\* read_block never meets a free block, which would stop the server, before a
\* request takes a block that was not cleared for metadata.
NeverReadsFree == panic # "read_free"

\* serve_close writes the directory entry of the file to disk, and those of
\* its blocks that were marked dirty, as long as its directory is still the
\* one the entry is in: the search reaches the entry's block without meeting
\* a hole, which a directory truncated and extended as a file may have.
CloseWrites ==
    [][\A i \in Opened :
        LET f == o_file[i]
            dir == File(Cache, f).dir
        IN  serve_close(i) /\ dir # Null /\ Holds(Cache, dir, f[1])
              => {f[1]} \cup (BlocksOf(Cache, f) \cap dirty) \subseteq written']_vars
=============================================================================
