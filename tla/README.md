# MOS: models, checks and proofs

MOS is a small operating system for MIPS: a microkernel with software-refilled
TLB, preemptive scheduling and synchronous IPC, a file system that runs as a user
process, and a user library with copy-on-write `fork`, pipes and a shell.  This
directory holds TLA+ modules translated from its source, the TLC configurations
that check them, and TLAPS proofs.  Paths below are relative to
`src/MOS-lab6-shell/`.

## 1. Inventory

| Part | State | Operations | Module |
|---|---|---|---|
| Envs and scheduler (`kern/env.c`, `kern/sched.c`, `include/queue.h`) | env table, `env_free_list`, `asid_bitmap`, `env_sched_list`, `curenv`, the slice count | create, free, destroy, run, schedule, yield, the clock | `TailQ`, `EnvSched`, `RunQueue` |
| Kernel IPC (`kern/syscall_all.c`) | `env_ipc_recving`, the receiver's status | `sys_ipc_recv`, `sys_ipc_try_send` | `EnvSched` |
| Memory (`kern/pmap.c`, `kern/tlbex.c`, `kern/tlb_asm.S`) | `pp_ref`, free list, directories, tables, TLB | alloc, map, unmap, refill, passive allocation, teardown | `Pmap` |
| fork (`user/lib/fork.c`, `do_tlb_mod`) | PTE_COW, PTE_D, PTE_LIBRARY, the fault handler | `fork`, `duppage`, `cow_entry` | `Cow` |
| Pipes and descriptors (`user/lib/pipe.c`, `fd.c`, `pageref.c`) | ring in a shared page, mappings of both ends | read, write, close, dup, the closed test | `Pipe`, `Channel` |
| File system (`fs/fs.c`, `fs/serv.c`) | bitmap, blocks, `struct File`, dirty pages, open files | open, create, map, resize, close, remove, dirty, sync | `Fs` |
| Shell variables (`kern/env.c`, `kern/syscall_all.c`) | `envvars`, `sid`, `shellid` | declare, unset, new shell | `ShellVar` |
| File client protocol (`user/lib/fsipc.c`, `file.c`, `fd.c`, `ipc.c`, the open table of `fs/serv.c`) | open table by page reference count, descriptors, mapped pages, requests and answers | open, create, write, ftruncate, close, remove, sync, fork of a client | `FsServ` |
| Shell (`user/sh.c`), wait and exit (`user/lib/wait.c`, `libos.c`, `sys_wait`, `sys_exit`) | the tree of envs of a line, their descriptors, `env_exit_value` | parse, fork, pipe, spawn, wait, exit, capture | `Shell` |
| Line editor and history (`user/sh.c`) | line, cursor, terminal row, `hisBuf`, `/.mos_history` | keys, recall, `init_history` | `LineEdit` |
| Starting a program (`user/lib/file.c`, `lib/elfloader.c`, `user/lib/spawn.c`) | | `parse_rpath`, `elf_load_seg`, `init_stack` | `Launch` |
| Disk image tool (`tools/fsformat.c`) | the image, `nextbno` | `write_file`, `write_directory`, links, bitmap | `FsFormat` |
| Console (`user/lib/console.c`, `sys_cgetc`, `kern/machine.c`) | a key that is awaited | poll, echo | in `EnvSched` and `LineEdit` |
| Commands, IDE, printing, boot code, other tools | | | not modelled, section 8 |

How the parts interact.  Every user operation ends in system calls, each of which
the kernel runs with interrupts off; the clock strikes only in user mode.  So the
kernel parts interleave handler by handler, and the library parts (`fork`, pipes)
interleave system call by system call and access by access to shared pages.  The
memory part supplies the page tables that `fork` manipulates and the reference
counts that the pipe's closed test compares.  File requests reach the server as
IPC messages, one at a time; a client shares the page of its open file with the
server and with whoever it forks.  A line of the shell becomes a tree of envs that
share pipes and wait for each other.

What is hard here, and to what the properties are aimed: a queue with intrusive
links that several handlers edit under assumptions about an env's status; ASIDs
reused while the TLB holds old entries; reference counts over shared pages with
failures half way through an allocation; unlocked shared memory under preemption
(the ring and the closed test); a `fork` that copies page by page while the parent
keeps storing to its stack; a file system that leaves old contents in reused
blocks and fails with operations half done; an open table that counts mappings
to know what is free, under clients that map pages by a size others change; a
tree of shells in which a wait, a closed pipe end or a value passed up by `exit` can
be missing, while slots are reused; and counted columns, lengths and block numbers
that two pieces of code must compute alike (`LineEdit`, `Launch`, `FsFormat`).  `PROJECT.json` lists each hazard at
its line.

## 2. Modules

**`TailQ`** is `TAILQ_*` of `queue.h` with the links themselves: a queue is a record
of `first`, `last` and the `next`/`prev` field of every element, where a `prev`
field names the pointer that points to the element.  A store through a null or
stale link is visible (`trap`).  `Represents(q, s)` says that the links of `q` are
exactly those of the sequence `s`.

**`EnvSched`** has one action per handler: `sys_yield`, `sys_exofork`,
`sys_env_destroy`, `sys_set_env_status`, `sys_ipc_recv`, `sys_ipc_try_send`,
`handle_int`, and the two steps of start-up.  A handler that calls `schedule`
includes it.  `sys_cgetc` without a key sets `polling`: the kernel loops with interrupts
off, and no action but the key (`scancharc`) is enabled.  The user program is any sequence of system calls with any arguments,
with two obligations the handlers leave to callers and the library meets:
`DestroysLinked` (an env that is destroyed is runnable) and `StartsIdle` (an env made
runnable is not waiting for a message).  **`RunQueue`** is what the scheduler
promises, a FIFO of runnable envs whose head runs; `EnvSched` implements it with
the sequence read off the links.

**`Pmap`** transforms a record of the memory state through the routines of `pmap.c`
inside each handler.  The window of the page tables (`UVPT`) has a page for every entry of the
directory, those above UVPT included (`High`): no user page lies there, but a read of
their window page makes `passive_alloc` create a table, which `env_free` leaves
behind.  Pages that the code takes and never gives back are kept in `lost` (`sys_mem_alloc`)
and `orphans` (directories of envs that got no ASID, tables above UVPT), so that
`PagesExact` accounts for every page.
`env_free` is stated by the total effect of its loop: the ptes and entries it clears
(`Mapped`, `Tables`), the TLB pairs it flushes (`Flushed`), and how often it calls
`page_decref` for each page (`Held`, `page_decrefs`).  The loop visits each pte once and
the order of the calls does not show, so this is the loop without a recursion.

**`Cow`** gives `fork`, `duppage` and `cow_entry` one step per system call.  A store
during `fork` goes to the stack page, which `fork` itself is making copy-on-write.

**`Pipe`** has a step for every access to shared memory and every system call of
`pipe_read`, `pipe_write`, `_pipe_is_closed`, `pipe_close`, `close`, `dup`, `fork` and
`exit`, with one processor and a clock that may strike before any of them.  The C
code leaves the order of the two stores `p_buf[...] = ...` and `p_wpos++` to the
compiler, so each copy picks an order from `CopyOrders`.  **`Channel`** is the FIFO
channel that the pipe promises to be.

**`Fs`** follows `fs.c` routine by routine; each returns the changed cache and a
result, and a request handler of `serv.c` is one step.  Blocks keep their contents
when they are freed and reused, as the page cache of the server does: a directory block
that becomes a directory block again shows its old entries.  What a block with bytes of a
file names when it becomes a directory or an indirect block is not known; the request
that takes it ends in `panic` = `"stale"` (`Uncleared`) and the model stops there, or before
the next request if a client wrote into a block that is metadata by then (`Corrupt`).
`Intact` says that neither has happened, and the properties about blocks speak of
`Intact` states.  The loops over
a path, a directory and the blocks of a file are recursive functions of the number of
rounds (`walk_path`, `Scan`, `ClearFrom`), one operator per round.

**`FsServ`** EXTENDS `Fs`: a handler of the server is an action of `Fs` with its
table entry and its answer, and a library call of a client is a chain of requests.
`ipc` of a client goes from `send` (waiting to be received) to `wait` (being handled), to
`done` (answered).  `call` holds the locals of the call, `at` the request it is at.
`open_alloc` and `open_lookup` count the holders of a Filefd page, as `pageref` does.
`loose` names the entries whose pages the code lets differ from the file: another
descriptor shortened or removed the file, a call on the entry failed, or it was
resized while two clients had it.

**`Shell`** gives every env of a line a place in `parsecmd`, `runcmd`,
`executeCommandAndCaptureOutput`, `wait` or a program, and one step per system call that
others can see.  `next` and `flag` are the static variables `next_run` and `flag` of
`parsecmd`.  `wait` and `sys_wait` are separate steps that look at a slot, which others may
have taken in between.  Programs are told apart by what they do: `source` writes;
`filter` copies, as `cat` does: it takes what is in its pipe, writes all of that, waiting when
the pipe behind it is full, and reads again until the end; `fails` ends with 1; `missing`
cannot be started.

**`LineEdit`**, **`Launch`** and **`FsFormat`** are pure: operators from states to states,
checked against a declarative meaning over all small inputs.  `LineEdit` keeps the line
and the terminal row in one record, so that a key's effect on both can be compared, with what `cons_read`
echoes before `readline` has the key;
`Launch` computes the memory that a segment and the arguments end up in; `FsFormat` makes
a cache of module `Fs` from a tree, which the routines of `Fs` then read.

**`ShellVar`** is the kernel's array of variables; a shell starts in two system
calls, and other shells run in between.

`MCEnvSched`, `MCPmap`, `MCFs`, `MCFsServ` and `MCShell` give values to constants that a
`.cfg` cannot express.  `MCFs` also brings in `FsFormat`, and `MCShell` brings in `LineEdit` and
`Launch`: each has a variable `input`, whose initial value is `"none"` and the system runs, or
one input of the pure modules and the system stands still while the property about that
input is looked at (`MCSpec`).

The proofs are in `EnvSchedProofs` (with those about `TailQ` and `RunQueue`), `PmapProofs`,
`CowProofs`, `PipeProofs`, `ShellVarProofs`, `FsServProofs` (first about `Fs`, then about
clients and server) and `ShellProofs`, each named after the module it is about.  `MinLemmas` has facts that several of them use: the least element
of a set, which stands for "the first free slot" and "the first match", and the runs of a
loop of any number of rounds.

## 3. Runs

| Run | Instance | Shows |
|---|---|---|
| `EnvSched` | 4 slots, 3 ASIDs, 4 ids, two boot envs | queue, free list and ASIDs exact; a waiting receiver is blocked; the kernel stops only when nothing can run; implements `RunQueue`; no runnable env starves, provided every `sys_cgetc` gets its key |
| `EnvSchedSpawnError` | 3 slots, with the error path of `spawn` | `SchedListExact` fails: `env_free` unlinks an env that is not linked |
| `Pipe` | 2 envs, 3 descriptors, both store orders | a closed test misses no more open ends than a fork has half copied, and none without such a fork |
| `PipeLive` | 2 envs, ring of 2, 3 bytes, byte stored first, fair | implements `Channel`; blocked readers and writers are released |
| `PipeEof` | 2 envs, 2 descriptors, one byte | `EofMeansDrained` fails: a reader gets end of file with a byte in the ring |
| `Pmap` | 5 pages, 3 env slots, 2 ASIDs, 2x2 virtual pages, a directory entry above UVPT | reference counts and free list exact, lost pages accounted for; TLB agrees with page tables but for empty tables above UVPT; page kinds kept apart |
| `Cow` | 2 slots, 3 virtual pages, 6 pages | isolation, the child's copy, every fault handled |
| `Fs` | 4 data blocks, 2 entries per block, 1 direct and 1 indirect block per file, 7 requests; all trees of up to 4 entries for `ImageSound` | while `Intact`: one owner per block, no read of a free block; close writes the entry; images of `fsformat` are read back whole, and their bitmap is exact |
| `FsServ` | 2 clients, 2 entries, 2 descriptors each, 4 calls, 3 data blocks | an entry keeps its file while a client has it; a client's pages are the blocks of its file; every call returns |
| `Shell` | 8 slots, 3 pipes that hold one write, 17 lines; all small inputs of the pure modules | the shell is alone at the prompt, lists run what they mean, every line ends; paths, segments, argument stacks, edits and history |
| `ShellAnd` | same | `AndRuns` fails: a value is lost when its slot is reused before `sys_wait` |
| `ShellVar` | 3 shells, 1 name, 2 values, 3 slots | shells do not see each other's changes; read-only variables stay |

Why the bounds are enough for the questions asked.

* `EnvSched`: four slots hold a parent, a child, a receiver and a free slot at once;
  three ASIDs make `asid_alloc` fail while a slot is free; ids run out after each
  slot has been reused at least once on some path.  The proofs cover every size.
* `Pipe`: a third descriptor lets a `dup` and a `close` overlap a closed test; one byte
  is enough, the closed test does not read the ring.  `PipeLive` writes one byte
  more than the ring holds, so it wraps and fills.
* `Pmap`: five pages are the fewest that let two envs share a page (two directories,
  two tables, the page); one TLB entry suffices because an entry never changes
  another and a refill only adds valid halves; two ASIDs for three slots make
  reuse and exhaustion happen.  `REFS` = 32 is more than the places for a pointer that
  the instance has, so no count wraps (`FewRefs`, section 5).  The proofs cover every
  size.
* `Cow`: two slots, reused, give generations of children of children; six pages
  let memory run out in the handler.  Three simultaneous sharers of a page are
  beyond this instance; the proofs cover any number.
* `Fs`: with four data blocks a file with an indirect block and another file fill
  the disk.  Directories are nested one deep.  Runs end after `MaxRequests` = 7.
* `FsServ`: four calls let one client open, resize and close while the other opens
  the same file or gets the descriptor by fork; the third data block makes a
  resize to two blocks fail when the other file holds one.  `MAX_OPEN` is not
  reached within four calls.  The proofs cover any number of calls, clients and entries.
* `Shell`: the lines cover every symbol alone, lists in pipelines, pipelines in
  lists, a pipeline of three, redirections and a captured command; eight slots are one
  more than the largest tree needs, so that slots are both reused and free.  One
  line suffices: `AloneAtPrompt` says that the next one starts from the same state.
* Pure modules: every offset and both sizes of a segment over more than two pages, the segments whose
  first page is mapped twice included;
  stacks of up to three arguments around the size of a page; every text of up to
  four characters with every place of the cursor; histories of up to four lines, from
  before and after the start; trees with files on both sides of the direct pointers
  and directories of two blocks.

## 4. Fairness

`EnvSched` assumes weak fairness of start-up and, as `ClockStrikes`, that the clock keeps
interrupting: if it could make a difference again and again, steps that end in `env_run` come
again and again, the clock or a system call that gives up the CPU (`EnvRuns`).  `env_pop_tf`
sets the timer back on every return through it (`RESET_KCLOCK`, `env_asm.S:12`), so a program
that yields in time is never interrupted; one that does not is, because an interrupt that falls
into a handler stays pending until user mode goes on.  User mode is not reached while `sys_cgetc`
polls, "blocking all envs" as its comment says (`syscall_all.c:453`), and nothing is
assumed of keys: `NoStarvation` has the premise `KeysComeUp`, that no call polls for ever.
Nothing else is assumed of user programs.  `NoStarvation` then follows from the rotation
of the queue.

`PipeLive` assumes that the env on the processor keeps taking steps (weak fairness of
`Progress`) and that round robin dispatches every env again and again (strong
fairness of a switch to each env, which `NoStarvation` of `EnvSched` supports), with
at least `MinSlice` steps between two strikes of the clock: `TIMER_INTERVAL` is far
longer than one round of the closed test.  Without it the test, which starts over
when it was interrupted, might be interrupted for ever.

`FsServ` assumes that while something can go on - an answer, a request the server can
take, a client that was answered - something does: some runnable env runs, which the
scheduler guarantees.  Nothing is assumed of which one, nor that a client calls.  The
formula is weak fairness of `Proceed` with `ENABLED` written out as `CanProceed`.

`Shell` assumes weak fairness of the steps of every env (round robin runs each of
them), not that a user types a line.

## 5. Proofs

`EnvSchedProofs` has three parts.  The first is about `TailQ`, what the macros do to a
well-formed queue: `InsertTailAppends`, `InsertHeadPrepends`, `RemoveTakesOut`, and
`RemoveTwice` on the links an element keeps after it was removed.  Elements are
arbitrary, queues of any length.

The second proves for every number of slots, ASIDs and boot envs
(`EnvAssumption`) that `TypeOK`, `SchedListExact`, `FreeListExact`, `ReceiverBlocked`,
`AsidExact`, `StopsOnlyIdle` and `CurenvRunnable` hold in every reachable state.  None of
them is inductive alone: the list stays exact in `sys_ipc_try_send` because a waiting
receiver is not runnable (`ReceiverBlocked`); `schedule` takes `curenv` out because
`curenv` is in the list (`CurenvRunnable`, `SchedListExact`); a slot taken from the free
list is not in the queue (`FreeListExact`); slices stay non-negative because
priorities are positive (`PriPositive`).  So the inductive invariant `IInv` is their
conjunction.  `ScheduleKeeps`, `AllocKeeps`, `FreeKeeps` and `StatusKeeps` show what
each shared routine does to half of it, and `NextIInv` puts them together action by
action.

The third proves `RefinesRunQueue`: every handler is a step of the FIFO of
runnable envs or leaves it alone.  The mapping reads the order off the links from the
front; `SeqIsOrder` shows that on a list that represents a sequence this is the
sequence, because the runnable envs are as many as its elements.  The invariant adds to
`IInv` that nothing runs before start-up is over (`BootFirst`), which the first step of
`RunQueue` needs.

`CowProofs` proves for any number of envs, pages and virtual pages that every fault finds
a handler and a copy-on-write page (`FaultsAreHandled`), that what an env reads in a
private page changes by its own store only (`IsolatedHolds`), and that a started child
has its parent's pages with the same data (`ChildCopiesHolds`).  `IInv` adds to
`TypeOK` and `FaultsHandled` where a `fork` and a `cow_entry` stand (`ForksGood`,
`FaultsGood`), who has set its handler (`HandlerSet`), and who may share a page.
A page that some env can write has no other user (`WritableAlone`), with two exceptions
that are the windows of the code: before the last call of `cow_entry` the new page is
mapped at `UCOW` and at its place, and a child has a page that its parent can still
write until `duppage` takes the right away.  A page at `UCOW` is used
by nobody else until it is mapped at its place (`CopyAlone`).  Shared pages are shared
alike by all (`LibraryAlike`).

`PipeProofs` proves two results for any number of envs, descriptors and copies.
*When an open pipe is taken for closed* (`NoFalseClosedHolds`): a mapped descriptor has its
ring page in the same env, except in a child that `fork` is still filling (`AllBacked`,
`ForksGood`), so the descriptors of both ends are at most as many as the mappings of the
ring and the descriptors half copied (`HalfForked`).  Equal counts of one end and the ring
leave at most the latter for the other end: none, when no fork is between the two pages.  A test that saw no
switch has counts of one moment (`CountsFresh`), and where a call stands is in
`CallsGood`.  *The pipe is a FIFO channel* (`RefinesChannel`), of any size and with
positions that wrap at the width of an `int`, whichever of position and byte a build
handles first, as long as the clock does not strike between a position that was stored
first and its byte (`[]~Torn`).  A build that handles the byte first has no such moment, and
`ByteFirstChannel` proves the refinement for it without the hypothesis; `PipeLive` runs this
build.  The ring invariant says that the slots from `Len(got)` to `sent` hold the bytes sent
and not yet received, with the position one ahead in the middle of a copy that stores it
first (`RingHolds`, `Mid`), that one copy per direction is in progress (`OneOfAKind`), and how
far each has got (`CopyGood`).  It uses that the range of the positions is a
multiple of `PIPE_SIZE`; with another size the bytes would be lost at the wrap.

`PmapProofs` has two layers.  The TLB: `TlbInv` says that every valid half of an entry is a
pte of the live env with that ASID, or shows a table above UVPT that its env left
behind (`Outlives`), that live envs have different ASIDs, and that ptes
exist only in tables that exist; `TypeCorrect` and `TlbIsCoherent` follow without a
hypothesis.  The counts: `RefInv` adds that `pp_ref` is the number of pointers to a
page, one more for an orphan, and the free list holds the pages with none (`Counted`), and that pages in use as
directory, table and data differ (`Apart`).  `pp_ref` has 16 bits, so
`CountsAreExact` and `KindsStayApart` assume that no page ever has 2^16 pointers
(`FewRefs`, the limit named in section 7); `ExactWhenFewPlaces` proves them without it
for a kernel with fewer places for a pointer than `pp_ref` has values.

`ShellVarProofs` proves that nothing one shell does changes what another reads
(`ShellsApartHolds`) and that read-only variables stay (`ReadOnlyStaysHolds`), for any
number of shells and names.  `IInv` is `TypeOK` with `IdsDistinct`: a shell id belongs to
one process, also between the two system calls in which a shell starts.

The first part of `FsServProofs` is about a disk, directories and files of any size.  `Good` says of a cache that
it is typed and that no block has two owners or an owner and a mark as free (`Owned`).  An
owner is a place: a pointer of a slot of a block read as a directory, or a pointer of
a block read as an indirect block, whatever the block is used for.  So `Owned` also says
what a directory block will own when it is reused with its old entries.  The pointers of a
block with bytes of a file are unknown: the properties speak of `Intact` states, which end
with the first request that reads such a block as metadata (`Uncleared`, `Corrupt`).  A step
that leaves the server `Intact` has read only typed blocks, so it keeps `Good`.  One lemma per routine of `fs.c` shows that it keeps `Good`: `alloc_block`
yields a block without owners, `SetPtrPlace` gives it its one owner, and a routine that
frees a block clears the pointer in the same request.  For the loops,
`LoopRuns` and `LoopUnique` say that the recursive function exists and is the only one,
and a cache that is good before a round is good after it (`DirLookupReturns`,
`FileTruncateGood`).  `Inductive` gives `Typed`, `BlocksHaveOneOwner` and `FreeNeverRead`.

`CloseReachesDisk` proves `CloseWrites`: closing a file writes its blocks that were marked
and the block of its entry.  `file_close` looks for that block among the blocks of the
directory and stops at the first it cannot map (`fs.c:790`), so the property speaks of
entries that this search reaches (`Holds`).  A directory that a client has truncated
like a file and made to grow again can have a hole before the entry's block, and then the
entry is not marked.  The instance of section 3 is too small for it: it takes two
open files and one entry per block.

The second part proves, for any number of clients, descriptors and calls, that requests,
answers and descriptors fit together (`ServTyped`), that the file system keeps its
invariants when requests come from clients (`ServBlocksOwned`), and that an entry of the
open table keeps its file while a client has a descriptor of it (`EntriesKept`).  `SInv` is
the invariant of the first part with the types of calls and answers (`Types`), that a client waits
exactly while the server handles its request (`Waits`), that descriptors and answers name
opened files (`Opens`), and that a call which has opened its file has a descriptor of it
(`HasFd`).  `EntriesKept` then is a fact about one step: only `open_alloc` gives an entry
another file, and it takes one that nobody holds.

The third part proves `PagesAreOfFile`: what a client reads and writes through a descriptor
are the blocks of its file (`PagesOfFile`).  The property speaks of entries that no call
is going on with; `PInv` says what holds in between.  A call that maps pages, after an open or
a growth, is alone with its entry and has mapped the first `Done` of them (`Mapping`); one
that has asked for another size and was not heard yet leaves the pages of the old size
(`Asking`); otherwise every holder has all pages up to `f_size` (`EntryGood`).  The page that the
server is about to map is the block the client asked for (`Pending`).  What the server does for
others in the meantime leaves the size and the pointers of a file (`Covers`), because a block has
one owner: what is cleared for one file is no other file's.  The exception is a file whose entry
lies in a block that is now used for something else (`Broken`).  `PInv` says nothing of it: the
server handles no request in such a state (`Corrupt`), and the steps that clients can still take
leave the file broken.  `Spares` and `Cut` are the lemmas for removal and shrinking, and
`ActsHold` carries `PInv` over any step of one client.

`ShellProofs` proves that types are correct (`Typed`), that the shell is alone when it
prompts (`ShellAlone`) and that a list of commands runs what its operators mean (`ListsRun`),
for any number of envs, pipes and lines.  `TypeInv` says what an env
keeps in its variables and that whoever waits, waits for an env that was there.  It does not
follow that it is there still: `wait` looks at a slot that another env may have
taken.  What makes the shell wait for everybody is `Tree`: of every set of envs without the
shell, one is waited for, or has yet to be waited for, by an env outside the set.  An env that
waits for no one has ended all its children, so a shell that waits for no one is alone.  `Tree`
is kept only if no env forgets a child: `TextOK` says of what an env has still to read
that the left side of a `|` has a command, which is waited for (`Fed`), and that a
pipeline does not end in `cd`, after which `runcmd` would return to the prompt.  `MainOK`
says when the shell itself has the descriptors of the console.  The theorem assumes that lines are
`Sensible` (`SensibleLines`); section 7 says what the code does with other lines.

`ListsRun` needs to know who runs what while a plain list is at work.  `Chain` follows it from
the shell to the env of the line, from there to the child that runs one command (`Command`),
and to its program (`Executes`).  `Worker` says how far the env of the line is: after
k tokens it has read a command, skips one, waits for one or is done, and what has run so far
is what the first k tokens mean (`Upto`).  That nobody else changes what has run follows from
`Tree`: the shell waits, so every other env lives below the env of the line (`OwnLine`,
`ChildLine`).  That no second shell takes a line is `TameInv`, which needs that every operator has
a command before it (`WholeLines`): after a line like `; cd` a second shell prompts beside the first.
The meaning of a list is a recursive function; `MeantSteps` takes its equations from
`LoopRuns` and `LoopUnique`.

Every theorem is about the specification of a module (`Spec`, `ServSpec`) and the
assumptions on its constants (`EnvAssumption`, `PmapAssumption`, ...; `FsServAssumption` asks
for a name, a disk that holds one file and finitely many clients), with `[]~Torn` (or
`CopyOrders = {"byte_first"}`), `FewRefs`, `SensibleLines` and `WholeLines` the only additional
hypotheses; what a property itself excludes (`HalfForked`, `Outlives`, `Intact`, `loose`) is in the
comment above it.  The inductive invariants were first checked by TLC on the instances of
section 3.

## 6. What is only model-checked

* Liveness: `NoStarvation`, `ReaderReleased`, `WriterReleased`, `CallsReturn` and `LineEnds`.
  Temporal proofs need `ENABLED`, which is out of the prover's reach.
* `ImageSound` of `FsFormat`, and the properties of `LineEdit` and `Launch`: trees of
  directories, the text that a sequence of keys makes and the memory that a segment ends up
  in are computed by folds and recursion.  The library's induction rules cannot be
  instantiated; the proofs above take a least counterexample instead (`MinLemmas`), which
  serves for a loop that keeps a property but would have to be done anew for every
  recursive definition here.

## 7. Findings and known limits of the code

Each violation run has its finding in `PROJECT.json`: the unlinking of an env that is
not queued in the error path of `spawn`; end of file before the last byte; the value of
a command lost between `wait` and `sys_wait`.

Seen while modelling, not runs:

* `sys_set_env_status` (`syscall_all.c:310`) on an env that waits for a message inserts it
  in the queue, and the later message inserts it again.
* `sys_cgetc` (`syscall_all.c:453`) polls with interrupts off: while one env waits for a key no
  other env runs.  `NoStarvation` has the premise `KeysComeUp`.
* Between copying an `Fd` page and the pipe's data page, `fork` makes an open pipe look
  closed; `NoFalseClosed` bounds the open ends that are missed by those half copied
  (`HalfForked`).
* `p_rpos >= p_wpos` as the test for an empty ring is wrong after `p_wpos` wraps.
* `pp_ref` is 16 bits wide; 65536 mappings of one page free it.  `FewRefs` excludes this.
* `sys_mem_alloc` loses its page when the page table cannot be allocated, and
  `env_alloc` its directory when ASIDs run out.
* A read of the window above UVPT (`0x7fe00000` to `ULIM`) makes `passive_alloc` create a page
  table (`tlbex.c:18-42`) that `env_free` neither gives back nor flushes: its loop stops at
  `PDX(UTOP)` (`env.c:494`), though the comment above it says "Free env e and all memory it
  uses."  The page is lost, and the next env with the ASID may read it, which is empty, through
  the old TLB entry (`orphans`, `Outlives`).
* A file created in a reused slot keeps the slot's size, type and blocks
  (`file_create` sets the name only); removing a directory that is not empty leaks
  its files, and the next directory to get the block shows them again.
* `alloc_block` does not clear (`fs.c:234`).  A block that last held bytes of a file becomes a
  directory block (`fs.c:563`) or an indirect block (`fs.c:384`) with these bytes as names,
  sizes and block numbers, in the request that takes it.  Block numbers are arbitrary words
  from there on, so two files may share blocks and `read_block` may panic; the model ends
  with that request (`panic` = `"stale"`), and the properties about blocks end with `Intact`.
* Root growth, indirect blocks and new entries are not marked dirty, so `fs_sync` does
  not write them.
* `varnum` is not compared with `MAX_VAR_NUM`; a new shell copies the shared variables of
  every shell, not those of its parent only (`env.c:54`, `shell-challenge.md:590`).
* `pipe.c:156` and `pipe.c:198` are one expression each, and C leaves open whether the position
  or the byte is handled first.  If it is the position and the clock strikes in between, a
  reader takes the byte that was there before; `Torn` marks these states, `RefinesChannel` excludes
  them, and `PipeLive` runs the other order.
* `file_close` does not write the entry of a file behind a hole of its directory
  (`fs.c:790`, `CloseReachesDisk` in section 5).
* `file_truncate` panics on a file whose size needs an indirect block that was never
  allocated (`fs.c:715`).

The file server and its clients:

* `ftruncate` on a full disk restores the size on the server and leaves the larger one
  in the descriptor (`file.c:300-316`); another client's truncate or remove leaves
  stale pages mapped; a descriptor shared by fork that one client grows lacks
  pages in the other.
* `create` of a file that exists, and `open` when a page cannot be mapped, leave a
  descriptor open (`file.c:94`, `file.c:133`).
* `open_lookup` does not look at the client (`serv.c:103`); `fd_alloc` never hands out the
  last descriptor (`fd.c:38`); a request without a page, or with an unknown number, gets no
  answer (`serv.c:385`).
* A client that dies before the answer stops the server: `ipc_send` asserts success
  (`ipc.c:17`).

The shell:

* `;` after a list that has stopped is skipped with the rest (`sh.c:128`); `&& cd` runs in a
  child, `cd ; x` leaves the child as a second shell that prompts, and `... ; cd ; x` makes
  the shell itself exit.  `Sensible` and `PlainList` exclude these lines.
* A right side of `|` with an empty left side is not waited for.  Lists inside
  backquotes write to the console from their second command on.
* `(child = syscall_exofork()) < 0` compares an unsigned value (`spawn.c:142`).
* Ctrl-U with text behind the cursor leaves the terminal's cursor at the end of the
  line (`sh.c:550`).  `cons_read` echoes control characters (`console.c:55`): the echo of Ctrl-H
  moves the cursor left before `readline` prints, so the line shows one column off, at
  its beginning over the prompt; that of Ctrl-K moves a row down.  `LineShown` looks at the
  text only after these three keys.
* `curLine` is 0 when a shell starts, so the arrow up does nothing until a line has been
  entered; `curIn` is not initialised, so the arrow down shows garbage if the arrow up
  was not used; an edit of an older line is lost.
* Lengths in `hisBuf` are stale once another shell has appended to the file; `readPast`
  reads up to the line's offset into 1024 bytes; `/.mos_history` keeps every line though
  `shell-challenge.md:909` wants at most 20.
* `parse_rpath` takes a name that begins with a dot for `.` or `..`, and leaves dots after a
  name alone, though `shell-challenge.md:146` lets relative paths contain `.` and `..` without saying where;
  `PathsResolve` is about dots at the beginning.

Programs and images:

* A segment that starts inside a page that its file part does not fill has that
  page mapped twice (`elfloader.c:46` and `54`): the second mapping hides the bytes of the
  file, and the last page may be missing.  `SegmentLoaded` says exactly for which segments;
  linked programs have none.
* `args[argc]` points at the end of the last string, not 0 (`spawn.c:57`).
* `fsformat` never compares `nextbno` with `NBLOCK`.

## 8. Not modelled

The commands and the printing and string libraries (text without shared state); the
device registers behind the console and the IDE driver (programmed input and output); trap frames, boot code and
system call decoding (registers); ELF headers and build tools (copying).  In the
modelled parts: file contents and offsets, running out of memory in the file server and
the shell, what the disk holds after a restart, clients that die inside a call,
page contents in `Pmap`, lines longer than the buffer and script input in the shell.

The order of requests of one `FsServ` client with directories below the root, the hand-over
by `sys_yield`, and that only relatives destroy an env are modelled and are in no property.

## 9. Plan

1. An abstract file system (a map from paths to files) and `Fs` as its implementation
   on sequences without block reuse.
2. `FsServ` with a client that dies between two messages and a server that survives it, if
   the code comes to handle that.
