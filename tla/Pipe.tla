-------------------------------- MODULE Pipe --------------------------------
(***************************************************************************)
(* A pipe between envs (user/lib/pipe.c) under preemption: the ring buffer *)
(* in a shared page, the test for a closed pipe that compares page         *)
(* reference counts, and every library operation that maps or unmaps an    *)
(* end of the pipe (dup and close of user/lib/fd.c, fork, exit).           *)
(*                                                                         *)
(* One CPU: cur executes, and the clock may interrupt between any two      *)
(* steps.  A step is one system call or one access to a shared page.  The  *)
(* reference counts are the numbers of mappings (kern/pmap.c keeps pp_ref  *)
(* so).  One pipe exists, and at most one env reads and one writes at a    *)
(* time: pipe_read and pipe_write take no lock, so their callers must not  *)
(* overlap with their own kind.                                            *)
(***************************************************************************)
EXTENDS Integers, Sequences, FiniteSets

CONSTANTS N,           \* envs are 1..N; env 1 creates the pipe
          NFD,         \* file descriptors of an env (MAXFD)
          PIPE_SIZE,   \* bytes in the ring
          WORD,        \* size of the range of p_rpos and p_wpos (2^32)
          MaxBytes,    \* bound on the bytes written
          MaxCall,     \* bound on the n of one read or write
          MaxDup,      \* bound on the dups and polls of one env
          MinSlice,    \* steps a dispatched env surely gets (TIMER_INTERVAL)
          CopyOrders   \* orders in which the build updates position and byte

ASSUME PipeAssumption ==
    /\ N \in Nat \ {0} /\ NFD \in Nat \ {0, 1} /\ PIPE_SIZE \in Nat \ {0}
    /\ WORD \in Nat /\ WORD % PIPE_SIZE = 0 /\ WORD > PIPE_SIZE
    /\ MaxBytes \in Nat /\ MaxCall \in Nat /\ MaxDup \in Nat /\ MinSlice \in Nat
    /\ CopyOrders \in SUBSET {"byte_first", "pos_first"} /\ CopyOrders # {}

Envs == 1..N
Fds == 0..(NFD - 1)

VARIABLES fdpage,   \* [Envs -> [Fds -> {"none", "r", "w"}]]: the Fd page mapped
          data,     \* [Envs -> SUBSET Fds]: where the Pipe page is mapped
          p_rpos, p_wpos, p_buf,
          pc, loc,  \* control point and locals of each env
          cur,      \* the env on the CPU
          rerun,    \* [Envs -> BOOLEAN]: env_runs has changed since it was saved
          slice,    \* steps since the last dispatch, up to MinSlice
          used,     \* [Envs -> Nat]: dups and polls so far
          sent,     \* number of bytes written so far; the k-th byte is k
          got       \* the bytes read so far

ring  == <<p_rpos, p_wpos, p_buf, sent, got>>
maps  == <<fdpage, data>>
sched == <<cur, rerun, slice>>
vars  == <<maps, ring, pc, loc, sched, used>>

Idle == [op |-> "none", fd |-> 0, n |-> 0, i |-> 0, fd_ref |-> 0, pipe_ref |-> 0,
         aux |-> 0, order |-> "byte_first"]

Saved == {"fd_ref", "pipe_ref", "compare"}

Runnable == { e \in Envs : pc[e] \notin {"unborn", "embryo", "dead"} }

\* pp_ref of the Fd page of an end and of the Pipe page.
FdRef(end)  == Cardinality({ x \in Envs \X Fds : fdpage[x[1]][x[2]] = end })
PipeRef     == Cardinality({ x \in Envs \X Fds : x[2] \in data[x[1]] })
OtherEnd(e) == IF e = "r" THEN "w" ELSE "r"

-----------------------------------------------------------------------------
(***************************************************************************)
(* The processor.                                                          *)
(***************************************************************************)

\* env_run(e) counts a run of e, whoever ran before.
Dispatch(e) == /\ e \in Runnable'
               /\ cur' = e
               /\ rerun' = [rerun EXCEPT ![e] = pc'[e] \in Saved]
               /\ slice' = 0

Clock(e) == /\ slice = MinSlice
            /\ UNCHANGED <<maps, ring, pc, loc, used>>
            /\ Dispatch(e)

\* cur takes one step without leaving the CPU.
Stay == /\ slice' = IF slice < MinSlice THEN slice + 1 ELSE slice
        /\ UNCHANGED <<cur, rerun>>

At(point) == pc[cur] = point
GoTo(point) == pc' = [pc EXCEPT ![cur] = point]
Local(new) == loc' = [loc EXCEPT ![cur] = new]
Return == GoTo("user") /\ Local(Idle)

\* The program computes on its own; it may do so for ever.
Compute == /\ At("user")
           /\ slice < MinSlice
           /\ Stay
           /\ UNCHANGED <<maps, ring, pc, loc, used>>

-----------------------------------------------------------------------------
(***************************************************************************)
(* pipe_read and pipe_write                                                *)
(***************************************************************************)

Enter(op, point, fd, n) ==
    /\ At("user")
    /\ Local([Idle EXCEPT !.op = op, !.fd = fd, !.n = n])
    /\ GoTo(point)
    /\ Stay
    /\ UNCHANGED <<maps, ring>>

\* read and write refuse an end opened the other way.
StartRead(fd, n) ==
    /\ fdpage[cur][fd] = "r"
    /\ \A e \in Envs : loc[e].op # "read"
    /\ Enter("read", "read", fd, n) /\ UNCHANGED used

StartWrite(fd, n) ==
    /\ fdpage[cur][fd] = "w"
    /\ \A e \in Envs : loc[e].op # "write"
    /\ sent + n <= MaxBytes
    /\ Enter("write", "write", fd, n) /\ UNCHANGED used

Empty == p_rpos >= p_wpos

\* Mutant of Full: the writer takes one byte more than the ring holds.
Full_OffByOne == (p_wpos - p_rpos) % WORD > PIPE_SIZE

Full == (p_wpos - p_rpos) % WORD >= PIPE_SIZE

\* The loop heads of pipe_read and pipe_write.
ReadLoop ==
    LET l == loc[cur]
    IN  /\ At("read")
        /\ \/ /\ l.i >= l.n \/ (Empty /\ l.i > 0)
              /\ Return
           \/ /\ l.i < l.n /\ Empty /\ l.i = 0
              /\ GoTo("runs") /\ UNCHANGED loc
           \/ /\ l.i < l.n /\ ~Empty
              /\ \E o \in CopyOrders : Local([l EXCEPT !.order = o])
              /\ GoTo("rfirst")
        /\ Stay
        /\ UNCHANGED <<maps, ring, used>>

\* Mutant of WriteLoop: a full ring is never tested for being closed.
WriteLoop_NoTest ==
    LET l == loc[cur]
    IN  /\ At("write")
        /\ \/ l.i >= l.n /\ Return
           \/ l.i < l.n /\ Full /\ GoTo("yield") /\ UNCHANGED loc
           \/ l.i < l.n /\ ~Full /\ GoTo("wfirst") /\ UNCHANGED loc
        /\ Stay
        /\ UNCHANGED <<maps, ring, used>>

WriteLoop ==
    LET l == loc[cur]
    IN  /\ At("write")
        /\ \/ /\ l.i >= l.n
              /\ Return
           \/ /\ l.i < l.n /\ Full
              /\ GoTo("runs") /\ UNCHANGED loc
           \/ /\ l.i < l.n /\ ~Full
              /\ \E o \in CopyOrders : Local([l EXCEPT !.order = o])
              /\ GoTo("wfirst")
        /\ Stay
        /\ UNCHANGED <<maps, ring, used>>

\* rbuf[i++] = p->p_buf[(p->p_rpos++) % PIPE_SIZE]: C leaves open whether the
\* byte is loaded before or after the new position is stored.
ReadFirst ==
    LET l == loc[cur]
    IN  /\ At("rfirst")
        /\ \/ /\ l.order = "byte_first"
              /\ Local([l EXCEPT !.aux = p_buf[p_rpos % PIPE_SIZE]])
              /\ UNCHANGED p_rpos
           \/ /\ l.order = "pos_first"
              /\ p_rpos' = (p_rpos + 1) % WORD
              /\ UNCHANGED loc
        /\ GoTo("rsecond")
        /\ Stay
        /\ UNCHANGED <<maps, p_wpos, p_buf, sent, got, used>>

ReadSecond ==
    LET l == loc[cur]
        old == (p_rpos - 1) % WORD
    IN  /\ At("rsecond")
        /\ \/ /\ l.order = "byte_first"
              /\ p_rpos' = (p_rpos + 1) % WORD
              /\ got' = Append(got, l.aux)
           \/ /\ l.order = "pos_first"
              /\ got' = Append(got, p_buf[old % PIPE_SIZE])
              /\ UNCHANGED p_rpos
        /\ Local([l EXCEPT !.i = @ + 1, !.aux = 0, !.order = "byte_first"])
        /\ GoTo("read")
        /\ Stay
        /\ UNCHANGED <<maps, p_wpos, p_buf, sent, used>>

\* p->p_buf[(p->p_wpos++) % PIPE_SIZE] = wbuf[i++]
WriteFirst ==
    LET l == loc[cur]
    IN  /\ At("wfirst")
        /\ \/ /\ l.order = "byte_first"
              /\ p_buf' = [p_buf EXCEPT ![p_wpos % PIPE_SIZE] = sent + 1]
              /\ UNCHANGED p_wpos
           \/ /\ l.order = "pos_first"
              /\ p_wpos' = (p_wpos + 1) % WORD
              /\ UNCHANGED p_buf
        /\ GoTo("wsecond")
        /\ Stay
        /\ UNCHANGED <<maps, p_rpos, sent, got, loc, used>>

WriteSecond ==
    LET l == loc[cur]
        old == (p_wpos - 1) % WORD
    IN  /\ At("wsecond")
        /\ \/ /\ l.order = "byte_first"
              /\ p_wpos' = (p_wpos + 1) % WORD
              /\ UNCHANGED p_buf
           \/ /\ l.order = "pos_first"
              /\ p_buf' = [p_buf EXCEPT ![old % PIPE_SIZE] = sent + 1]
              /\ UNCHANGED p_wpos
        /\ sent' = sent + 1
        /\ Local([l EXCEPT !.i = @ + 1, !.order = "byte_first"])
        /\ GoTo("write")
        /\ Stay
        /\ UNCHANGED <<maps, p_rpos, got, used>>

-----------------------------------------------------------------------------
(***************************************************************************)
(* _pipe_is_closed, called by pipe_read, pipe_write and pipe_is_closed     *)
(***************************************************************************)

StartPoll(fd) ==
    /\ fdpage[cur][fd] # "none"
    /\ used[cur] < MaxDup
    /\ Enter("poll", "runs", fd, 0)
    /\ used' = [used EXCEPT ![cur] = @ + 1]

SaveRuns == /\ At("runs")
            /\ rerun' = [rerun EXCEPT ![cur] = FALSE]
            /\ slice' = IF slice < MinSlice THEN slice + 1 ELSE slice
            /\ GoTo("fd_ref")
            /\ UNCHANGED <<maps, ring, loc, cur, used>>

ReadFdRef == /\ At("fd_ref")
             /\ Local([loc[cur] EXCEPT !.fd_ref = FdRef(fdpage[cur][loc[cur].fd])])
             /\ GoTo("pipe_ref")
             /\ Stay
             /\ UNCHANGED <<maps, ring, used>>

ReadPipeRef == /\ At("pipe_ref")
               /\ Local([loc[cur] EXCEPT !.pipe_ref = PipeRef])
               /\ GoTo("compare")
               /\ Stay
               /\ UNCHANGED <<maps, ring, used>>

\* Mutant of Retry: the two counts are used even if another env ran between.
Retry_Never(e) == FALSE

Retry(e) == rerun[e]

\* The two counts are dead.
Forget(l) == [l EXCEPT !.fd_ref = 0, !.pipe_ref = 0]

\* Closed ends the call; open makes a reader or writer yield.
Compare ==
    LET l == loc[cur]
    IN  /\ At("compare")
        /\ \/ /\ Retry(cur)
              /\ GoTo("runs") /\ Local(Forget(l))
           \/ /\ ~Retry(cur)
              /\ l.fd_ref = l.pipe_ref \/ l.op = "poll"
              /\ Return
           \/ /\ ~Retry(cur)
              /\ l.fd_ref # l.pipe_ref /\ l.op # "poll"
              /\ GoTo("yield") /\ Local(Forget(l))
        /\ Stay
        /\ UNCHANGED <<maps, ring, used>>

\* syscall_yield hands over to another env if there is one.
Yield(e) == /\ At("yield")
            /\ e = cur => Runnable = {cur}
            /\ pc' = [pc EXCEPT ![cur] = loc[cur].op]
            /\ Dispatch(e)
            /\ UNCHANGED <<maps, ring, loc, used>>

-----------------------------------------------------------------------------
(***************************************************************************)
(* Operations on the ends of the pipe.                                     *)
(***************************************************************************)

StartClose(fd) == /\ fdpage[cur][fd] # "none"
                  /\ Enter("close", "close_fd", fd, 0)
                  /\ UNCHANGED used

\* Back in dup after its close of newfd, or in the program.
AfterClose == IF loc[cur].op = "dup" THEN GoTo("dup") /\ UNCHANGED loc ELSE Return

\* pipe_close unmaps the Fd page, then the Pipe page.  fd_close then unmaps
\* the Fd page again, which changes nothing.
CloseFd ==
    /\ At("close_fd")
    /\ fdpage' = [fdpage EXCEPT ![cur][loc[cur].fd] = "none"]
    /\ GoTo("close_data")
    /\ Stay
    /\ UNCHANGED <<data, ring, loc, used>>

\* Mutant of CloseData: the Pipe page stays mapped.
CloseData_Leaks ==
    /\ At("close_data")
    /\ AfterClose
    /\ Stay
    /\ UNCHANGED <<maps, ring, used>>

CloseData ==
    /\ At("close_data")
    /\ data' = [data EXCEPT ![cur] = @ \ {loc[cur].fd}]
    /\ fdpage' = [fdpage EXCEPT ![cur][loc[cur].fd] = "none"]
    /\ AfterClose
    /\ Stay
    /\ UNCHANGED <<ring, used>>

\* dup(old, new) closes new if it is open, maps the data, then the Fd page.
\* The locals are fd = new and aux = old.
StartDup(old, new) ==
    /\ At("user")
    /\ fdpage[cur][old] # "none" /\ old # new
    /\ used[cur] < MaxDup
    /\ used' = [used EXCEPT ![cur] = @ + 1]
    /\ Local([Idle EXCEPT !.op = "dup", !.fd = new, !.aux = old])
    /\ GoTo(IF fdpage[cur][new] # "none" THEN "close_fd" ELSE "dup")
    /\ Stay
    /\ UNCHANGED <<maps, ring>>

DupData ==
    /\ At("dup")
    /\ data' = [data EXCEPT ![cur] = @ \cup {loc[cur].fd}]
    /\ GoTo("dup_fd")
    /\ Stay
    /\ UNCHANGED <<fdpage, ring, loc, used>>

DupFd ==
    /\ At("dup_fd")
    /\ fdpage' = [fdpage EXCEPT ![cur][loc[cur].fd] = fdpage[cur][loc[cur].aux]]
    /\ Return
    /\ Stay
    /\ UNCHANGED <<data, ring, used>>

\* fork: exofork, then duppage in the order of addresses, all Fd pages before
\* all data pages, then the child is started.  The local aux is the child.
StartFork(child) ==
    /\ At("user")
    /\ pc[child] = "unborn" /\ \A e \in Envs : pc[e] = "unborn" => child <= e
    /\ loc' = [loc EXCEPT ![cur] = [Idle EXCEPT !.op = "fork", !.aux = child]]
    /\ pc' = [pc EXCEPT ![cur] = "fork", ![child] = "embryo"]
    /\ Stay
    /\ UNCHANGED <<maps, ring, used>>

\* Pages still to be mapped in child: Fd page f is number f, data page f NFD + f.
ToCopy(child) ==
    { f \in Fds : fdpage[cur][f] # fdpage[child][f] }
      \cup { NFD + f : f \in data[cur] \ data[child] }

Duppage ==
    LET child == loc[cur].aux
        next == CHOOSE p \in ToCopy(child) : \A q \in ToCopy(child) : p <= q
    IN  /\ At("fork")
        /\ ToCopy(child) # {}
        /\ \/ /\ next < NFD
              /\ fdpage' = [fdpage EXCEPT ![child][next] = fdpage[cur][next]]
              /\ UNCHANGED data
           \/ /\ next >= NFD
              /\ data' = [data EXCEPT ![child] = @ \cup {next - NFD}]
              /\ UNCHANGED fdpage
        /\ Stay
        /\ UNCHANGED <<ring, pc, loc, used>>

StartChild ==
    LET child == loc[cur].aux
    IN  /\ At("fork")
        /\ ToCopy(child) = {}
        /\ pc' = [pc EXCEPT ![cur] = "user", ![child] = "user"]
        /\ Local(Idle)
        /\ Stay
        /\ UNCHANGED <<maps, ring, used>>

\* exit, after close_all has closed every descriptor.
Exit(e) ==
    /\ At("user")
    /\ \A f \in Fds : fdpage[cur][f] = "none"
    /\ GoTo("dead")
    /\ Dispatch(e)
    /\ UNCHANGED <<maps, ring, loc, used>>

-----------------------------------------------------------------------------
\* Env 1 returns from pipe() with the read end at 0 and the write end at 1.
Init ==
    /\ fdpage = [e \in Envs |-> [f \in Fds |-> IF e = 1 /\ f = 0 THEN "r"
                                             ELSE IF e = 1 /\ f = 1 THEN "w" ELSE "none"]]
    /\ data = [e \in Envs |-> IF e = 1 THEN {0, 1} ELSE {}]
    /\ p_rpos = 0 /\ p_wpos = 0
    /\ p_buf = [b \in 0..(PIPE_SIZE - 1) |-> 0]
    /\ pc = [e \in Envs |-> IF e = 1 THEN "user" ELSE "unborn"]
    /\ loc = [e \in Envs |-> Idle]
    /\ cur = 1
    /\ rerun = [e \in Envs |-> FALSE]
    /\ slice = 0
    /\ used = [e \in Envs |-> 0]
    /\ sent = 0
    /\ got = <<>>

\* What a program may start, and the steps of what it has started.
Call ==
    \/ \E f \in Fds, n \in 1..MaxCall : StartRead(f, n)
    \/ \E f \in Fds, n \in 1..MaxCall : StartWrite(f, n)
    \/ \E f \in Fds : StartPoll(f)
    \/ \E f \in Fds : StartClose(f)
    \/ \E f, g \in Fds : StartDup(f, g)
    \/ \E e \in Envs : StartFork(e)
    \/ \E e \in Envs : Exit(e)

Progress ==
    \/ ReadLoop \/ ReadFirst \/ ReadSecond
    \/ WriteLoop \/ WriteFirst \/ WriteSecond
    \/ SaveRuns \/ ReadFdRef \/ ReadPipeRef \/ Compare
    \/ CloseFd \/ CloseData \/ DupData \/ DupFd
    \/ Duppage \/ StartChild
    \/ Compute

Switch(e) == Clock(e) \/ Yield(e)

Next == Call \/ Progress \/ \E e \in Envs : Switch(e)

Spec == Init /\ [][Next]_vars

\* The processor does not stop, and round robin serves every env.
FairSpec == /\ Spec
            /\ WF_vars(Progress)
            /\ \A e \in Envs : SF_vars(Switch(e))

-----------------------------------------------------------------------------
(***************************************************************************)
(* Properties                                                              *)
(***************************************************************************)

\* Env e is about to report that the pipe is closed.
SaysClosed(e) == /\ cur = e /\ pc[e] = "compare" /\ ~Retry(e)
                 /\ loc[e].fd_ref = loc[e].pipe_ref

\* The Fd pages that children were given before the Pipe page behind them:
\* fork copies all Fd pages first (fork.c:136).
HalfForked == { x \in Envs \X Fds : /\ pc[x[1]] = "embryo"
                                    /\ fdpage[x[1]][x[2]] # "none" /\ x[2] \notin data[x[1]] }

\* _pipe_is_closed takes an open pipe for a closed one in the window of a fork
\* only, and there misses no more open ends than the fork has half copied:
\* with no fork half way it never does, however the envs dup, close, exit and
\* fork meanwhile.
NoFalseClosed ==
    \A e \in Envs : SaysClosed(e) => FdRef(OtherEnd(fdpage[e][loc[e].fd])) <= Cardinality(HalfForked)

\* pipe.c:125: pipe_read returns 0 only if nothing has been written since the
\* last read.
EofMeansDrained ==
    [][loc[cur].op = "read" /\ loc'[cur].op = "none" /\ loc[cur].i = 0 => sent = Len(got)]_vars

\* The clock has struck between the two halves of a copy that stores the position
\* first: the other side sees the position without the byte.
Half(e) == pc[e] \in {"rsecond", "wsecond"} /\ loc[e].order = "pos_first"
Torn == \E e \in Envs \ {cur} : Half(e)

\* What the pipe implements: the bytes written and not yet read, in the order of
\* the ring.
Contents == [k \in 1..(sent - Len(got)) |-> p_buf[(Len(got) + k - 1) % PIPE_SIZE]]

\* The pipe is a FIFO channel of capacity PIPE_SIZE: nothing is lost,
\* duplicated, reordered or overwritten, while no copy is Torn.  The run takes
\* copies that handle the byte first; the theorem takes both.
Abstract == INSTANCE Channel WITH Capacity <- PIPE_SIZE, in <- sent, out <- got, chan <- Contents
ImplementsChannel == Abstract!Spec

\* A reader leaves pipe_read once the last writer is gone, or data is there.
ReaderReleased ==
    \A e \in Envs : (loc[e].op = "read" /\ (FdRef("w") = 0 \/ p_rpos < p_wpos))
                      ~> (loc[e].op # "read")

\* A writer leaves pipe_write once the last reader is gone.
WriterReleased ==
    \A e \in Envs : (loc[e].op = "write" /\ FdRef("r") = 0) ~> (loc[e].op # "write")
=============================================================================
