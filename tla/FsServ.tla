------------------------------- MODULE FsServ -------------------------------
(***************************************************************************)
(* Clients of the file system: the open file table of fs/serv.c above the  *)
(* files of Fs, the requests of user/lib/fsipc.c, and the library calls of *)
(* user/lib/file.c and fd.c that send them.                                *)
(*                                                                         *)
(* A client sends a request and waits.  The server, which takes one        *)
(* request at a time, handles it and answers: the answer carries a result  *)
(* and may map one page into the client, the Filefd page of an entry of    *)
(* opentab or the cache page of a block.  A Filefd page is shared by the   *)
(* server and everybody who has the descriptor, so f_size, the size the    *)
(* library believes in, is one value per entry.  The size of the file      *)
(* itself is the server's.                                                 *)
(*                                                                         *)
(* Left out: modes and offsets of a descriptor (a write names its block),  *)
(* dup, directories other than the root, out of memory, a client that dies *)
(* in the middle of a call.                                                *)
(***************************************************************************)
EXTENDS Fs

CONSTANTS Clients, NoClient,
          MAXFD,       \* descriptors of a client
          Sizes,       \* sizes that ftruncate is asked for
          MaxCalls     \* bound of the model on library calls

ASSUME FsServAssumption ==
    /\ NoClient \notin Clients /\ IsFiniteSet(Clients)
    /\ MAXFD \in Nat /\ MAXFD > 1
    /\ Sizes \subseteq 0..NINDIRECT
    /\ MaxCalls \in Nat
    /\ Names # {} /\ NBLOCKS > 4   \* the disk holds one file

VARIABLES fd,       \* fd[c][d]: the entry whose Filefd page c has at d, or 0
          page,     \* page[c][d][n]: the block whose page c has at page n of d's data, or 0
          f_size,   \* f_file.f_size in the Filefd page of each entry
          call,     \* the library call each client is in
          ipc,      \* its request: "none", "send", "wait" or "done"
          reply,    \* the result of the last answer
          server,   \* the answer the server is sending; to = NoClient if it is receiving
          ncalls,   \* calls made
          loose     \* entries whose pages may differ from the file (see below)

local == <<fd, page, f_size, call, ipc, reply, server, ncalls, loose>>
servVars == <<vars, local>>

Entries == 1..MAXOPEN
Fds == 0..(MAXFD - 1)
Pages == 0..(NINDIRECT - 1)
NoPages == [n \in Pages |-> 0]

NoCall == [op |-> "idle", at |-> "start", d |-> 0, n |-> 0, size |-> 0, old |-> 0,
           path |-> <<>>, creat |-> FALSE, trunc |-> FALSE]
Receiving == [to |-> NoClient, r |-> "ok", entry |-> 0, block |-> 0]

Holders(i) == { h \in Clients \X Fds : fd[h[1]][h[2]] = i }

\* Mutant of open_alloc: an entry that one client has is taken for free.
open_alloc_Shared == { i \in Entries : Cardinality(Holders(i)) <= 1 }

\* The entries that only the server maps, pageref 0 or 1; the first is taken.
open_alloc == { i \in Entries : Holders(i) = {} }

\* pageref(o->o_ff) > 1.  The client named in the request is not looked at.
open_lookup(i) == i # 0 /\ Holders(i) # {}

-----------------------------------------------------------------------------
(***************************************************************************)
(* fsipc: a request and its answer                                         *)
(***************************************************************************)

\* The client goes on with the request `at' for block n.
Ask(c, at, n) ==
    /\ call' = [call EXCEPT ![c].at = at, ![c].n = n]
    /\ ipc' = [ipc EXCEPT ![c] = "send"]

Return(c) ==
    /\ call' = [call EXCEPT ![c] = NoCall]
    /\ ipc' = [ipc EXCEPT ![c] = "none"]

Requests(c, at) ==
    /\ ipc[c] = "send" /\ call[c].at = at
    /\ server.to = NoClient /\ Serving

Answers(c, r, i, b) ==
    /\ server' = [to |-> c, r |-> r, entry |-> i, block |-> b]
    /\ ipc' = [ipc EXCEPT ![c] = "wait"]
    /\ UNCHANGED <<fd, page, call, reply, ncalls>>

\* The other entries for the same file.
Aliases(i, f) == { j \in Entries \ {i} : f # Null /\ o_file[j] = f }

\* Mutant of serve_open: the answer maps the page even if the open failed.
FdPage_Always(i, x) == i

\* The entry whose Filefd page the answer maps, 0 for none.
FdPage(i, x) == IF x.r = "ok" THEN i ELSE 0

ServeOpen(c) ==
    /\ Requests(c, "open")
    /\ IF open_alloc = {}
       THEN Answers(c, "MAX_OPEN", 0, 0) /\ UNCHANGED <<vars, f_size, loose>>
       ELSE \E i \in {Min(open_alloc)} :
            \E x \in {Opening(IF call[c].creat THEN file_create(Cache, call[c].path)
                              ELSE Ok(Cache), call[c].path)} :
              /\ OpenAs(i, x, call[c].trunc)
              /\ f_size' = [f_size EXCEPT ![i] = IF x.r # "ok" \/ call[c].trunc THEN 0
                                                 ELSE File(x.m, x.file).size]
              /\ loose' = (loose \ {i}) \cup
                            IF x.r = "ok" /\ call[c].trunc THEN Aliases(i, x.file) ELSE {}
              /\ Answers(c, x.r, FdPage(i, x), 0)

\* A request about the entry of the client's descriptor: INVAL if it is not open.
Invalid(c) ==
    /\ Answers(c, "INVAL", 0, 0)
    /\ UNCHANGED <<vars, f_size, loose>>
OfEntry(c, Handle(_)) ==
    IF open_lookup(fd[c][call[c].d]) THEN Handle(fd[c][call[c].d]) ELSE Invalid(c)

ServeMap(c) ==
    /\ Requests(c, "map")
    /\ OfEntry(c, LAMBDA i :
         \E x \in {file_get_block(Cache, o_file[i], call[c].n)} :
           /\ serve_map(i, call[c].n)
           /\ Answers(c, x.r, 0, IF x.r = "ok" THEN x.b ELSE 0)
           /\ UNCHANGED <<f_size, loose>>)

\* ftruncate asks for the new size, and for the old one again if it fails.
ServeSetSize(c) ==
    \E at \in {"set_size", "restore"} :
    /\ Requests(c, at)
    /\ OfEntry(c, LAMBDA i :
         \E new \in {IF at = "set_size" THEN call[c].size ELSE call[c].old} :
           /\ serve_set_size(i, new)
           /\ loose' = loose
                \cup (IF File(Cache, o_file[i]).size > new THEN Aliases(i, o_file[i]) ELSE {})
                \cup (IF Cardinality(Holders(i)) > 1 THEN {i} ELSE {})
           /\ Answers(c, "ok", 0, 0)
           /\ UNCHANGED f_size)

ServeDirty(c) ==
    /\ Requests(c, "dirty")
    /\ OfEntry(c, LAMBDA i :
         /\ serve_dirty(i, call[c].n)
         /\ Answers(c, file_dirty(Cache, o_file[i], call[c].n).r, 0, 0)
         /\ UNCHANGED <<f_size, loose>>)

ServeClose(c) ==
    /\ Requests(c, "close")
    /\ OfEntry(c, LAMBDA i : /\ serve_close(i)
                             /\ Answers(c, "ok", 0, 0)
                             /\ UNCHANGED <<f_size, loose>>)

ServeRemove(c) ==
    /\ Requests(c, "remove")
    /\ \E x \in {file_remove(Cache, call[c].path)} :
         /\ serve_remove(call[c].path)
         /\ loose' = loose \cup IF x.r = "ok" THEN Aliases(0, x.file) ELSE {}
         /\ Answers(c, x.r, 0, 0)
    /\ UNCHANGED f_size

ServeCreate(c) ==
    /\ Requests(c, "create")
    /\ serve_create(call[c].path, FALSE)
    /\ Answers(c, file_create(Cache, call[c].path).r, 0, 0)
    /\ UNCHANGED <<f_size, loose>>

\* Mutant of serve_sync: no answer.
ServeSync_Silent(c) ==
    /\ Requests(c, "sync")
    /\ serve_sync
    /\ ipc' = [ipc EXCEPT ![c] = "wait"]
    /\ UNCHANGED <<fd, page, f_size, call, reply, server, ncalls, loose>>

ServeSync(c) ==
    /\ Requests(c, "sync")
    /\ serve_sync
    /\ Answers(c, "ok", 0, 0)
    /\ UNCHANGED <<f_size, loose>>

\* ipc_send of the server maps the page of the answer into the client and
\* ipc_recv returns there; the server unmaps the request and receives again.
Answer ==
    /\ server.to # NoClient
    /\ LET c == server.to
       IN  /\ fd' = IF server.entry = 0 THEN fd ELSE [fd EXCEPT ![c][call[c].d] = server.entry]
           /\ page' = IF server.block = 0 THEN page
                      ELSE [page EXCEPT ![c][call[c].d][call[c].n] = server.block]
           /\ reply' = [reply EXCEPT ![c] = server.r]
           /\ ipc' = [ipc EXCEPT ![c] = "done"]
    /\ server' = Receiving
    /\ UNCHANGED <<vars, f_size, call, ncalls, loose>>

-----------------------------------------------------------------------------
(***************************************************************************)
(* The library calls                                                       *)
(***************************************************************************)

Starts(c) == call[c].op = "idle" /\ ncalls < MaxCalls
Started(c, new) ==
    /\ call' = [call EXCEPT ![c] = new]
    /\ ipc' = [ipc EXCEPT ![c] = "send"]
    /\ ncalls' = ncalls + 1
    /\ UNCHANGED <<vars, fd, page, reply, server>>

\* The first descriptor that is not mapped; the last one is never given.
fd_alloc(c) == { d \in 0..(MAXFD - 2) : fd[c][d] = 0 }

\* open, and create, which opens the file first to see whether it exists.
Open(c, op, path, creat, trunc) ==
    /\ Starts(c) /\ fd_alloc(c) # {}
    /\ Started(c, [NoCall EXCEPT !.op = op, !.at = "open", !.d = Min(fd_alloc(c)),
                                 !.path = path, !.creat = creat, !.trunc = trunc])
    /\ UNCHANGED <<f_size, loose>>

RemoveFile(c, path) ==
    /\ Starts(c)
    /\ Started(c, [NoCall EXCEPT !.op = "remove", !.at = "remove", !.path = path])
    /\ UNCHANGED <<f_size, loose>>

Sync(c) ==
    /\ Starts(c)
    /\ Started(c, [NoCall EXCEPT !.op = "sync", !.at = "sync"])
    /\ UNCHANGED <<f_size, loose>>

\* file_close first marks every page of the file dirty.
Close(c, d) ==
    /\ Starts(c) /\ fd[c][d] # 0
    /\ \E size \in {f_size[fd[c][d]]} :
         Started(c, [NoCall EXCEPT !.op = "close", !.d = d, !.size = size,
                                   !.at = IF size > 0 THEN "dirty" ELSE "close"])
    /\ UNCHANGED <<f_size, loose>>

\* The size in the descriptor changes before the server is asked.
Resize(c, op, d, size) ==
    /\ Starts(c) /\ fd[c][d] # 0
    /\ f_size' = [f_size EXCEPT ![fd[c][d]] = size]
    /\ Started(c, [NoCall EXCEPT !.op = op, !.at = "set_size", !.d = d, !.size = size,
                                 !.old = f_size[fd[c][d]]])
    /\ UNCHANGED loose

\* A store to page n of a descriptor.  Where no page is mapped the fault
\* handler of the kernel gives the client a page of its own.
Stored(b) == IF b = 0 THEN blk ELSE [blk EXCEPT ![b] = Written]

\* file_write to block n: the file grows first if the block is past its end.
Write(c, d, n) ==
    /\ Starts(c) /\ fd[c][d] # 0
    /\ IF n < f_size[fd[c][d]]
       THEN /\ blk' = Stored(page[c][d][n])
            /\ ncalls' = ncalls + 1
            /\ UNCHANGED <<free, dirty, written, panic, o_file, requests,
                           fd, page, f_size, call, ipc, reply, server, loose>>
       ELSE Resize(c, "write", d, n + 1)

\* A forked child takes the place of a client without descriptors: the pages
\* of descriptors and their data are PTE_LIBRARY.
Share(c, child) ==
    /\ Starts(c) /\ \E d \in Fds : fd[c][d] # 0
    /\ call[child].op = "idle" /\ \A d \in Fds : fd[child][d] = 0
    /\ fd' = [fd EXCEPT ![child] = fd[c]]
    /\ page' = [page EXCEPT ![child] = page[c]]
    /\ ncalls' = ncalls + 1
    /\ UNCHANGED <<vars, f_size, call, ipc, reply, server, loose>>

\* The client goes on after the answer to request `at'.
Answered(c, at, ok) ==
    /\ ipc[c] = "done" /\ call[c].at = at /\ (reply[c] = "ok") = ok
    /\ UNCHANGED <<free, dirty, written, panic, o_file, requests, f_size, reply, server, ncalls>>
Keeps == UNCHANGED <<blk, fd, page, loose>>
Loosens(c) ==
    /\ loose' = loose \cup {fd[c][call[c].d]}
    /\ UNCHANGED <<blk, fd, page>>

\* A file that is not empty is mapped page by page.  create keeps the
\* descriptor of a file that exists, and makes one that does not.
OpenContinues(c) ==
    \/ /\ Answered(c, "open", TRUE) /\ call[c].op = "open" /\ Keeps
       /\ \E size \in {f_size[fd[c][call[c].d]]} :
            IF size = 0 THEN Return(c)
            ELSE /\ call' = [call EXCEPT ![c].at = "map", ![c].size = size]
                 /\ ipc' = [ipc EXCEPT ![c] = "send"]
    \/ Answered(c, "open", TRUE) /\ call[c].op = "create" /\ Loosens(c) /\ Return(c)
    \/ Answered(c, "open", FALSE) /\ call[c].op = "open" /\ Keeps /\ Return(c)
    \/ Answered(c, "open", FALSE) /\ call[c].op = "create" /\ Keeps /\ Ask(c, "create", 0)

\* The rest of the call once every page is mapped.
Complete(c) ==
    /\ Return(c)
    /\ IF call[c].op = "write" THEN blk' = Stored(page[c][call[c].d][call[c].size - 1])
                               ELSE UNCHANGED blk
    /\ UNCHANGED <<fd, page, loose>>

\* open returns an error and leaves the descriptor; ftruncate asks for the
\* old size and leaves the new one in the descriptor.
MapContinues(c) ==
    \/ /\ Answered(c, "map", TRUE)
       /\ IF call[c].n + 1 < call[c].size THEN Ask(c, "map", call[c].n + 1) /\ Keeps
                                          ELSE Complete(c)
    \/ Answered(c, "map", FALSE) /\ call[c].op = "open" /\ Loosens(c) /\ Return(c)
    \/ Answered(c, "map", FALSE) /\ call[c].op # "open" /\ Loosens(c) /\ Ask(c, "restore", 0)

\* The pages of d from the first one on are unmapped, up to the last.
Unmap(c, d, first, last) ==
    page' = [page EXCEPT ![c][d] = [n \in Pages |-> IF n \in first..last THEN 0 ELSE @[n]]]

\* Mutant of ftruncate: one page too few is mapped.
FirstNew_Next(old) == old + 1

\* The first page that a file of the old size lacks.
FirstNew(old) == old

SetSizeContinues(c) ==
    \E ok \in BOOLEAN :
      /\ Answered(c, "set_size", ok)
      /\ IF ~ok THEN Loosens(c) /\ Return(c)
         ELSE IF call[c].size > FirstNew(call[c].old)
         THEN Ask(c, "map", FirstNew(call[c].old)) /\ Keeps
         ELSE /\ Unmap(c, call[c].d, call[c].size, call[c].old - 1)
              /\ Return(c) /\ UNCHANGED <<blk, fd, loose>>

RestoreContinues(c) ==
    \E ok \in BOOLEAN : Answered(c, "restore", ok) /\ Keeps /\ Return(c)

\* close unmaps the descriptor whatever file_close returned.
DirtyContinues(c) ==
    \/ /\ Answered(c, "dirty", TRUE) /\ Keeps
       /\ IF call[c].n + 1 < call[c].size THEN Ask(c, "dirty", call[c].n + 1)
                                          ELSE Ask(c, "close", 0)
    \/ /\ Answered(c, "dirty", FALSE) /\ Return(c)
       /\ fd' = [fd EXCEPT ![c][call[c].d] = 0]
       /\ UNCHANGED <<blk, page, loose>>

CloseContinues(c) ==
    \E ok \in BOOLEAN :
      /\ Answered(c, "close", ok) /\ Return(c)
      /\ fd' = [fd EXCEPT ![c][call[c].d] = 0]
      /\ IF ok THEN Unmap(c, call[c].d, 0, call[c].size - 1) ELSE UNCHANGED page
      /\ UNCHANGED <<blk, loose>>

PathContinues(c) ==
    \E at \in {"remove", "create", "sync"}, ok \in BOOLEAN :
        Answered(c, at, ok) /\ Keeps /\ Return(c)

-----------------------------------------------------------------------------
\* The disk holds one file of one block.
ServInit ==
    /\ Formatted(DirBlock([j \in Slots |->
                    IF j = 0 THEN [EmptyFile EXCEPT !.name = CHOOSE name \in Names : TRUE,
                                                    !.size = 1, !.direct[0] = 4]
                    ELSE EmptyFile]), {4})
    /\ fd = [c \in Clients |-> [d \in Fds |-> 0]]
    /\ page = [c \in Clients |-> [d \in Fds |-> NoPages]]
    /\ f_size = [i \in Entries |-> 0]
    /\ call = [c \in Clients |-> NoCall]
    /\ ipc = [c \in Clients |-> "none"]
    /\ reply = [c \in Clients |-> "ok"]
    /\ server = Receiving
    /\ ncalls = 0
    /\ loose = {}

Handle(c) == \/ ServeOpen(c) \/ ServeMap(c) \/ ServeSetSize(c) \/ ServeDirty(c)
             \/ ServeClose(c) \/ ServeRemove(c) \/ ServeCreate(c) \/ ServeSync(c)

Continue(c) == \/ OpenContinues(c) \/ MapContinues(c) \/ SetSizeContinues(c) \/ RestoreContinues(c)
               \/ DirtyContinues(c) \/ CloseContinues(c) \/ PathContinues(c)

Begin(c) ==
    \/ \E path \in Paths, creat, trunc \in BOOLEAN : Open(c, "open", path, creat, trunc)
    \/ \E path \in Paths : Open(c, "create", path, FALSE, FALSE)
    \/ \E path \in Paths : RemoveFile(c, path)
    \/ Sync(c)
    \/ \E d \in Fds : Close(c, d)
    \/ \E d \in Fds, size \in Sizes : Resize(c, "ftruncate", d, size)
    \/ \E d \in Fds, size \in Sizes \ {0} : Write(c, d, size - 1)
    \/ \E child \in Clients \ {c} : Share(c, child)

ServNext == Answer \/ \E c \in Clients : Handle(c) \/ Continue(c) \/ Begin(c)

\* An env that can go on is runnable, and the scheduler lets some runnable env
\* run.  Nothing is assumed of who gets the server, nor that a client calls.
\* This is WF_servVars(Proceed) with its ENABLED written out.
Proceed == Answer \/ \E c \in Clients : Handle(c) \/ Continue(c)
CanProceed == \/ server.to # NoClient
              \/ \E c \in Clients : ipc[c] = "done" \/ (ipc[c] = "send" /\ Serving)
ServSpec ==
    /\ ServInit /\ [][ServNext]_servVars
    /\ []<>~CanProceed \/ []<><<Proceed>>_servVars

-----------------------------------------------------------------------------
(***************************************************************************)
(* Properties                                                              *)
(***************************************************************************)

\* Descriptors, requests and answers fit together: a client waits for the
\* server exactly when the server is answering it, a descriptor names an
\* opened file, and no descriptor is left over at the place of another.
ServTypeOK ==
    /\ fd \in [Clients -> [Fds -> {0} \cup Entries]]
    /\ page \in [Clients -> [Fds -> [Pages -> {0} \cup Data]]]
    /\ f_size \in [Entries -> 0..(NINDIRECT + 1)]
    /\ \A c \in Clients : ipc[c] = "wait" <=> server.to = c
    /\ \A c \in Clients : call[c].op = "idle" <=> ipc[c] = "none"
    /\ \A c \in Clients, d \in Fds : fd[c][d] # 0 => o_file[fd[c][d]] # Null
    /\ loose \subseteq Entries

\* While any client has a descriptor, the entry of the server behind it keeps
\* its file: entries are freed by counting mappings of the Filefd page only,
\* whatever opens, forks, failed calls and closes come between.
EntryKept ==
    [][\A i \in Entries : Holders(i) # {} /\ Holders(i)' # {} => o_file'[i] = o_file[i]]_servVars

\* No call is going on with a descriptor of entry i.
Quiet(i) == \A c \in Clients : call[c].op # "idle" => fd[c][call[c].d] # i

\* The pages a client reads and writes through a descriptor are the blocks of
\* its file, all of them up to the size in the descriptor, and the file is at
\* least that long: over every order of the calls of all clients, as long as
\* no other descriptor made the file shorter or removed it, no call on the
\* entry failed, and it was not resized while more than one client had it.
PagesOfFile ==
    \A c \in Clients, d \in Fds :
      LET i == fd[c][d]
      IN  i # 0 /\ i \notin loose /\ Quiet(i) /\ Intact =>
            /\ f_size[i] <= File(Cache, o_file[i]).size
            /\ \A n \in 0..(f_size[i] - 1) : page[c][d][n] = Ptr(Cache, o_file[i], n)

\* Every library call returns, unless the server has stopped.
CallsReturn ==
    \A c \in Clients :
      (call[c].op # "idle") ~> (call[c].op = "idle" \/ panic # "none" \/ Corrupt)
=============================================================================
