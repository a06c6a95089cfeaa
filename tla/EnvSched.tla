------------------------------ MODULE EnvSched ------------------------------
(***************************************************************************)
(* Environments and their scheduling: the env table, the free list, the    *)
(* ASID bitmap, env_sched_list and every kernel path that touches them     *)
(* (kern/env.c, kern/sched.c, the env and IPC handlers of                  *)
(* kern/syscall_all.c, the clock interrupt).                               *)
(*                                                                         *)
(* The kernel runs with interrupts off, so one handler is one step, and    *)
(* the step includes the call of schedule that ends it.  Between steps     *)
(* curenv executes user code, and its next trap is any system call with    *)
(* any arguments, or the clock.  A handler that returns an error before it *)
(* writes anything is a stuttering step.                                   *)
(*                                                                         *)
(* Left out: trap frames, r_path and shellid (data), env_runs (module      *)
(* Pipe), address spaces and the page of an IPC message (module Pmap).     *)
(***************************************************************************)
EXTENDS Integers, TailQ

CONSTANTS NENV,      \* number of env slots
          NASID,     \* number of address space identifiers
          BootPri,   \* priorities of the envs mips_init creates, in order
          MaxId      \* bound on the number of env ids handed out

Envs == 0..(NENV - 1)

ASSUME EnvAssumption ==
    /\ NENV \in Nat /\ NASID \in Nat /\ MaxId \in Nat
    /\ Elems = Envs
    /\ BootPri \in Seq(Nat \ {0})
    /\ Len(BootPri) > 0
    /\ Len(BootPri) <= NENV /\ Len(BootPri) <= NASID /\ Len(BootPri) <= MaxId

VARIABLES env_status,      \* [Envs -> Status]
          env_id,          \* [Envs -> EnvIds]
          env_parent_id,   \* [Envs -> EnvIds]
          env_asid,        \* [Envs -> ASIDs]
          env_pri,         \* [Envs -> Nat]
          env_ipc_recving, \* [Envs -> BOOLEAN]
          env_free_list,   \* sequence of slots, head first
          asid_bitmap,     \* set of ASIDs in use
          mkenvid_i,       \* the static counter of mkenvid
          env_sched_list,  \* a queue of TailQ
          curenv,          \* running slot or NULL
          count,           \* the static slice counter of schedule
          created,         \* number of envs created by mips_init so far
          polling,         \* sys_cgetc loops in the kernel until a key is hit
          panic            \* why the kernel stopped, or "none"

table == <<env_id, env_parent_id, env_asid, env_pri, mkenvid_i>>
cpu   == <<env_sched_list, curenv, count, panic>>
vars  == <<env_status, table, env_ipc_recving, env_free_list, asid_bitmap, cpu, created, polling>>

ENV_FREE == "ENV_FREE"
ENV_RUNNABLE == "ENV_RUNNABLE"
ENV_NOT_RUNNABLE == "ENV_NOT_RUNNABLE"
Status == {ENV_FREE, ENV_RUNNABLE, ENV_NOT_RUNNABLE}

ASIDs == 0..(NASID - 1)

\* An env id is the mkenvid counter next to the slot number.  Id 0 of the C
\* code, "the caller", is written curenv's own id.
EnvIds == (0..MaxId) \X Envs
NoParent == <<0, 0>>
ENVX(id) == id[2]

Panics == {"none", "no_runnable", "not_runnable", "null_store"}

-----------------------------------------------------------------------------
(***************************************************************************)
(* kern/sched.c                                                            *)
(***************************************************************************)

\* The kernel stops; curenv is prev.
Panic(why, prev) == panic' = why /\ curenv' = prev /\ UNCHANGED count

\* env_run(e) after prev: its assertion stops the kernel.
env_run(e, prev, slices, st) ==
    IF st[e] = ENV_RUNNABLE
    THEN curenv' = e /\ count' = slices /\ panic' = "none"
    ELSE Panic("not_runnable", prev)

\* Mutant of Requeue: the env that can still run is not put back.
Requeue_Forgets(q, e, st) == IF e = NULL THEN q ELSE TAILQ_REMOVE(q, e)

\* curenv goes to the tail of the list when it can still run.
Requeue(q, e, st) ==
    IF e = NULL THEN q
    ELSE IF st[e] = ENV_RUNNABLE THEN TAILQ_INSERT_TAIL(TAILQ_REMOVE(q, e), e)
    ELSE TAILQ_REMOVE(q, e)

\* Mutants of schedule: the first slice is not counted; an env whose slices are
\* used up gets new ones without going to the tail of the list.
schedule_ExtraSlice(yield, q, e, st) ==
    LET r == Requeue(q, e, st)
    IN  IF ~yield /\ count > 0 /\ e # NULL /\ st[e] = ENV_RUNNABLE
        THEN env_sched_list' = q /\ env_run(e, e, count - 1, st)
        ELSE /\ env_sched_list' = r
             /\ IF TAILQ_EMPTY(r) THEN Panic("no_runnable", e)
                ELSE env_run(TAILQ_FIRST(r), e, env_pri[TAILQ_FIRST(r)], st)
schedule_NoTurn(yield, q, e, st) ==
    LET r == Requeue(q, e, st)
    IN  IF ~yield /\ e # NULL /\ st[e] = ENV_RUNNABLE
        THEN env_sched_list' = q /\ env_run(e, e, IF count > 0 THEN count - 1 ELSE env_pri[e] - 1, st)
        ELSE /\ env_sched_list' = r
             /\ IF TAILQ_EMPTY(r) THEN Panic("no_runnable", e)
                ELSE env_run(TAILQ_FIRST(r), e, env_pri[TAILQ_FIRST(r)] - 1, st)

\* schedule(yield) called with list q, previous env e and statuses st.
schedule(yield, q, e, st) ==
    IF ~yield /\ count > 0 /\ e # NULL /\ st[e] = ENV_RUNNABLE
    THEN /\ env_sched_list' = q
         /\ env_run(e, e, count - 1, st)
    ELSE LET r == Requeue(q, e, st)
             h == TAILQ_FIRST(r)
         IN  /\ env_sched_list' = r
             /\ CASE r.trap # "none" -> Panic(r.trap, e)
                  [] r.trap = "none" /\ TAILQ_EMPTY(r) -> Panic("no_runnable", e)
                  [] OTHER -> env_run(h, e, env_pri[h] - 1, st)

\* The handler returns to curenv; the list has become q.
Return(q) ==
    /\ env_sched_list' = q
    /\ panic' = q.trap
    /\ UNCHANGED <<curenv, count>>

-----------------------------------------------------------------------------
(***************************************************************************)
(* kern/env.c                                                              *)
(***************************************************************************)

\* Mutant of FreeAsids: the scan of the bitmap runs one bit too far.
FreeAsids_TooFar == (0..NASID) \ asid_bitmap

\* asid_alloc takes the lowest clear bit.
FreeAsids == ASIDs \ asid_bitmap
asid_alloc == CHOOSE a \in FreeAsids : \A b \in FreeAsids : a <= b

\* The env that envid names, or NULL for -E_BAD_ENV.
envid2env(id, checkperm) ==
    LET e == ENVX(id)
        family == {env_id[e], env_parent_id[e]}
    IN  IF /\ env_status[e] # ENV_FREE
           /\ env_id[e] = id
           /\ checkperm => env_id[curenv] \in family
        THEN e ELSE NULL

\* env_alloc(parent) succeeds with slot e.  env_setup_vm is module Pmap's.
env_alloc(e, parent) ==
    /\ env_free_list # <<>> /\ e = Head(env_free_list)
    /\ FreeAsids # {}
    /\ mkenvid_i < MaxId
    /\ mkenvid_i' = mkenvid_i + 1
    /\ env_id' = [env_id EXCEPT ![e] = <<mkenvid_i + 1, e>>]
    /\ env_parent_id' = [env_parent_id EXCEPT ![e] = parent]
    /\ env_asid' = [env_asid EXCEPT ![e] = asid_alloc]
    /\ asid_bitmap' = asid_bitmap \cup {asid_alloc}
    /\ env_free_list' = Tail(env_free_list)

\* env_alloc(parent) runs out of ASIDs: the slot stays on the free list with
\* a new id.
env_alloc_no_asid(parent) ==
    /\ env_free_list # <<>>
    /\ FreeAsids = {}
    /\ mkenvid_i < MaxId
    /\ mkenvid_i' = mkenvid_i + 1
    /\ env_id' = [env_id EXCEPT ![Head(env_free_list)] = <<mkenvid_i + 1, Head(env_free_list)>>]
    /\ env_parent_id' = [env_parent_id EXCEPT ![Head(env_free_list)] = parent]

\* env_create of mips_init.
env_create ==
    LET pri == BootPri[created + 1]
    IN  \E e \in Envs :
          /\ env_alloc(e, NoParent)
          /\ env_pri' = [env_pri EXCEPT ![e] = pri]
          /\ env_status' = [env_status EXCEPT ![e] = ENV_RUNNABLE]
          /\ env_sched_list' = TAILQ_INSERT_HEAD(env_sched_list, e)
          /\ UNCHANGED <<env_ipc_recving, curenv, count, panic>>

\* Mutants of env_free: the slot, or the ASID, is not given back.
env_free_LosesSlot(e) ==
    /\ asid_bitmap' = asid_bitmap \ {env_asid[e]}
    /\ env_status' = [env_status EXCEPT ![e] = ENV_FREE]
    /\ UNCHANGED env_free_list
env_free_LosesAsid(e) ==
    /\ env_status' = [env_status EXCEPT ![e] = ENV_FREE]
    /\ env_free_list' = <<e>> \o env_free_list
    /\ UNCHANGED asid_bitmap

\* env_free(e): the last statement unlinks e whether or not it is linked.
env_free(e) ==
    /\ asid_bitmap' = asid_bitmap \ {env_asid[e]}
    /\ env_status' = [env_status EXCEPT ![e] = ENV_FREE]
    /\ env_free_list' = <<e>> \o env_free_list

env_destroy(e) ==
    LET q == TAILQ_REMOVE(env_sched_list, e)
    IN  /\ env_free(e)
        /\ IF curenv = e /\ q.trap = "none"
           THEN schedule(TRUE, q, NULL, [env_status EXCEPT ![e] = ENV_FREE])
           ELSE Return(q)

-----------------------------------------------------------------------------
(***************************************************************************)
(* Start-up (init/init.c) and the clock (kern/genex.S, handle_int).        *)
(***************************************************************************)

MipsInitCreate ==
    /\ panic = "none" /\ created < Len(BootPri)
    /\ created' = created + 1
    /\ env_create
    /\ UNCHANGED polling

MipsInitSchedule ==
    /\ panic = "none" /\ created = Len(BootPri) /\ curenv = NULL
    /\ schedule(FALSE, env_sched_list, curenv, env_status)
    /\ UNCHANGED <<env_status, table, env_ipc_recving, env_free_list, asid_bitmap, created, polling>>

\* curenv has the CPU; it runs in user mode and traps.
Running == panic = "none" /\ curenv # NULL
UserMode == Running /\ ~polling

handle_int ==
    /\ UserMode
    /\ schedule(FALSE, env_sched_list, curenv, env_status)
    /\ UNCHANGED <<env_status, table, env_ipc_recving, env_free_list, asid_bitmap, created, polling>>

-----------------------------------------------------------------------------
(***************************************************************************)
(* kern/syscall_all.c                                                      *)
(***************************************************************************)

sys_yield ==
    /\ UserMode
    /\ schedule(TRUE, env_sched_list, curenv, env_status)
    /\ UNCHANGED <<env_status, table, env_ipc_recving, env_free_list, asid_bitmap, created, polling>>

sys_exofork ==
    /\ UserMode
    /\ \E e \in Envs :
         /\ env_alloc(e, env_id[curenv])
         /\ env_status' = [env_status EXCEPT ![e] = ENV_NOT_RUNNABLE]
         /\ env_pri' = [env_pri EXCEPT ![e] = env_pri[curenv]]
    /\ UNCHANGED <<env_ipc_recving, cpu, created, polling>>

sys_exofork_no_asid ==
    /\ UserMode
    /\ env_alloc_no_asid(env_id[curenv])
    /\ UNCHANGED <<env_status, env_asid, env_pri, env_ipc_recving, env_free_list,
                   asid_bitmap, cpu, created, polling>>

sys_env_destroy(id) ==
    LET e == envid2env(id, TRUE)
    IN  /\ UserMode
        /\ e # NULL
        /\ env_destroy(e)
        /\ UNCHANGED <<table, env_ipc_recving, created, polling>>

\* Mutant of sys_set_env_status: a runnable env is linked again.
sys_set_env_status_Relinks(id, status) ==
    LET e == envid2env(id, TRUE)
        q == IF status = ENV_RUNNABLE THEN TAILQ_INSERT_TAIL(env_sched_list, e)
             ELSE IF env_status[e] # status THEN TAILQ_REMOVE(env_sched_list, e)
             ELSE env_sched_list
    IN  /\ UserMode
        /\ e # NULL
        /\ env_status' = [env_status EXCEPT ![e] = status]
        /\ IF e = curenv THEN schedule(TRUE, q, curenv, env_status') ELSE Return(q)
        /\ UNCHANGED <<table, env_ipc_recving, env_free_list, asid_bitmap, created, polling>>

sys_set_env_status(id, status) ==
    LET e == envid2env(id, TRUE)
        old == env_status[e]
        q == CASE status = ENV_NOT_RUNNABLE /\ old # status -> TAILQ_REMOVE(env_sched_list, e)
               [] status = ENV_RUNNABLE /\ old # status -> TAILQ_INSERT_TAIL(env_sched_list, e)
               [] OTHER -> env_sched_list
    IN  /\ UserMode
        /\ e # NULL
        /\ env_status' = [env_status EXCEPT ![e] = status]
        /\ IF e = curenv /\ q.trap = "none"
           THEN schedule(TRUE, q, curenv, env_status')
           ELSE Return(q)
        /\ UNCHANGED <<table, env_ipc_recving, env_free_list, asid_bitmap, created, polling>>

\* curenv is unlinked here and once more by schedule.
sys_ipc_recv ==
    LET q == TAILQ_REMOVE(env_sched_list, curenv)
    IN  /\ UserMode
        /\ env_ipc_recving' = [env_ipc_recving EXCEPT ![curenv] = TRUE]
        /\ env_status' = [env_status EXCEPT ![curenv] = ENV_NOT_RUNNABLE]
        /\ IF q.trap = "none" THEN schedule(TRUE, q, curenv, env_status') ELSE Return(q)
        /\ UNCHANGED <<table, env_free_list, asid_bitmap, created, polling>>

\* Mutants of sys_ipc_try_send: recving stays set; the receiver jumps the queue.
sys_ipc_try_send_StaysOpen(id) ==
    LET e == envid2env(id, FALSE)
    IN  /\ UserMode
        /\ e # NULL
        /\ env_ipc_recving[e]
        /\ env_status' = [env_status EXCEPT ![e] = ENV_RUNNABLE]
        /\ Return(TAILQ_INSERT_TAIL(env_sched_list, e))
        /\ UNCHANGED <<table, env_ipc_recving, env_free_list, asid_bitmap, created, polling>>
sys_ipc_try_send_Jumps(id) ==
    LET e == envid2env(id, FALSE)
    IN  /\ UserMode
        /\ e # NULL
        /\ env_ipc_recving[e]
        /\ env_ipc_recving' = [env_ipc_recving EXCEPT ![e] = FALSE]
        /\ env_status' = [env_status EXCEPT ![e] = ENV_RUNNABLE]
        /\ Return(TAILQ_INSERT_HEAD(env_sched_list, e))
        /\ UNCHANGED <<table, env_free_list, asid_bitmap, created, polling>>

\* The receiver is woken before srcva is looked up, so the outcome for the
\* scheduler is the same when that lookup or the mapping then fails.
sys_ipc_try_send(id) ==
    LET e == envid2env(id, FALSE)
    IN  /\ UserMode
        /\ e # NULL
        /\ env_ipc_recving[e]
        /\ env_ipc_recving' = [env_ipc_recving EXCEPT ![e] = FALSE]
        /\ env_status' = [env_status EXCEPT ![e] = ENV_RUNNABLE]
        /\ Return(TAILQ_INSERT_TAIL(env_sched_list, e))
        /\ UNCHANGED <<table, env_free_list, asid_bitmap, created, polling>>

\* sys_cgetc finds no key and loops with interrupts off: no env runs and the
\* clock waits.  (With a key there it returns at once.)
sys_cgetc ==
    /\ UserMode
    /\ polling' = TRUE
    /\ UNCHANGED <<env_status, table, env_ipc_recving, env_free_list, asid_bitmap, cpu, created>>

\* A key is hit: sys_cgetc returns it to curenv.
scancharc ==
    /\ Running /\ polling
    /\ polling' = FALSE
    /\ UNCHANGED <<env_status, table, env_ipc_recving, env_free_list, asid_bitmap, cpu, created>>

-----------------------------------------------------------------------------
(***************************************************************************)
(* The obligations the two handlers leave to their callers.  fork, spawn   *)
(* and exit of user/lib meet them: they start a child that has never run,  *)
(* and destroy themselves.  The one caller that does not is the error path *)
(* of spawn, see SpecSpawnError.                                           *)
(***************************************************************************)

DestroysLinked(id) == env_status[ENVX(id)] = ENV_RUNNABLE
StartsIdle(id, status) == status = ENV_RUNNABLE => ~env_ipc_recving[ENVX(id)]

Init ==
    /\ env_status = [e \in Envs |-> ENV_FREE]
    /\ env_id = [e \in Envs |-> NoParent]
    /\ env_parent_id = [e \in Envs |-> NoParent]
    /\ env_asid = [e \in Envs |-> 0]
    /\ env_pri = [e \in Envs |-> 0]
    /\ env_ipc_recving = [e \in Envs |-> FALSE]
    /\ env_free_list = [i \in 1..NENV |-> i - 1]
    /\ asid_bitmap = {}
    /\ mkenvid_i = 0
    /\ env_sched_list = TAILQ_INIT
    /\ curenv = NULL
    /\ count = 0
    /\ created = 0
    /\ polling = FALSE
    /\ panic = "none"

Destroy == \E id \in EnvIds : DestroysLinked(id) /\ sys_env_destroy(id)
SetStatus == \E id \in EnvIds, status \in {ENV_RUNNABLE, ENV_NOT_RUNNABLE} :
                 StartsIdle(id, status) /\ sys_set_env_status(id, status)
TrySend == \E id \in EnvIds : sys_ipc_try_send(id)

Next ==
    \/ MipsInitCreate
    \/ MipsInitSchedule
    \/ handle_int
    \/ sys_yield
    \/ sys_exofork
    \/ sys_exofork_no_asid
    \/ Destroy
    \/ SetStatus
    \/ sys_ipc_recv
    \/ TrySend
    \/ sys_cgetc
    \/ scancharc

Spec == Init /\ [][Next]_vars

\* The steps of user mode that end in env_run: the clock, and the system
\* calls that give up the CPU.
EnvRuns ==
    /\ UserMode
    /\ \/ handle_int
       \/ sys_yield
       \/ sys_ipc_recv
       \/ Destroy /\ env_status'[curenv] = ENV_FREE
       \/ \E status \in {ENV_RUNNABLE, ENV_NOT_RUNNABLE} :
             StartsIdle(env_id[curenv], status) /\ sys_set_env_status(env_id[curenv], status)

\* The clock keeps interrupting.  env_pop_tf sets the timer back
\* (env_asm.S:12), so the clock strikes only when no other step of EnvRuns came
\* first; and an interrupt that falls into a handler stays pending until user
\* mode goes on, so it is enough that user mode is reached again and again.
\* Hence: if the clock could make a difference again and again, steps of
\* EnvRuns come again and again.  Programs need not do any of them.
ClockStrikes == []<>(ENABLED <<handle_int>>_vars) => []<><<EnvRuns>>_vars

\* Start-up runs to its end.  Nothing says that a key is ever hit: scancharc has
\* no fairness.
FairSpec == Spec /\ WF_vars(MipsInitCreate) /\ WF_vars(MipsInitSchedule) /\ ClockStrikes

\* spawn's error path destroys the child it has not started (spawn.c).
SpawnError == \E id \in EnvIds : /\ env_status[ENVX(id)] = ENV_NOT_RUNNABLE
                                 /\ ~env_ipc_recving[ENVX(id)]
                                 /\ sys_env_destroy(id)
SpecSpawnError == Init /\ [][Next \/ SpawnError]_vars

-----------------------------------------------------------------------------
(***************************************************************************)
(* Properties                                                              *)
(***************************************************************************)

Runnable == { e \in Envs : env_status[e] = ENV_RUNNABLE }

\* Every variable stays in its range; env_asid never leaves the bitmap
\* asid_alloc scans, and the queue links never point outside envs.
TypeOK ==
    /\ env_status \in [Envs -> Status]
    /\ env_id \in [Envs -> EnvIds]
    /\ env_parent_id \in [Envs -> EnvIds]
    /\ env_asid \in [Envs -> ASIDs]
    /\ env_pri \in [Envs -> Nat]
    /\ env_ipc_recving \in [Envs -> BOOLEAN]
    /\ env_free_list \in Seq(Envs)
    /\ asid_bitmap \in SUBSET ASIDs
    /\ mkenvid_i \in 0..MaxId
    /\ env_sched_list \in Queues
    /\ curenv \in Envs \cup {NULL}
    /\ count \in Int
    /\ created \in 0..Len(BootPri)
    /\ polling \in BOOLEAN
    /\ panic \in Panics

\* kern/env.c:14: an env is in env_sched_list iff its status is RUNNABLE.
\* The links form one well-formed queue that holds every runnable env once
\* and no other env, after every interleaving of fork, exit, IPC, suspension
\* and preemption.
SchedListExact ==
    \E s \in Orders : Represents(env_sched_list, s) /\ Members(s) = Runnable

\* env_free_list holds every free slot exactly once, so env_alloc can neither
\* hand out a live env nor lose a slot.
FreeListExact ==
    /\ Members(env_free_list) = { e \in Envs : env_status[e] = ENV_FREE }
    /\ \A i, j \in DOMAIN env_free_list : env_free_list[i] = env_free_list[j] => i = j

\* An env with env_ipc_recving set is blocked: sys_ipc_try_send inserts it in
\* env_sched_list without looking at its status.
ReceiverBlocked == \A e \in Envs : env_ipc_recving[e] => env_status[e] = ENV_NOT_RUNNABLE

\* asid_bitmap marks the ASIDs of the live envs, and no two of them share
\* one: a TLB entry never serves another address space.
AsidExact ==
    LET live == { e \in Envs : env_status[e] # ENV_FREE }
    IN  /\ asid_bitmap = { env_asid[e] : e \in live }
        /\ \A e, f \in live : env_asid[e] = env_asid[f] => e = f

\* The kernel stops only when no env can run: the assertion of env_run never
\* fails, no list operation stores through a null pointer, and a runnable
\* env is always found.
StopsOnlyIdle ==
    /\ panic \in {"none", "no_runnable"}
    /\ panic = "no_runnable" => Runnable = {}

\* While curenv has the CPU, in user mode or inside sys_cgetc, it is runnable
\* and has been given at most its priority in slices.
CurenvRunnable ==
    Running => /\ env_status[curenv] = ENV_RUNNABLE
                /\ count \in 0..(env_pri[curenv] - 1)

\* The kernel does not poll for a key forever.  "XXX: kernel does busy waiting
\* here, blocking all envs" (syscall_all.c:453): when no key is hit again, an
\* env inside sys_cgetc starves all the others.
KeysComeUp == []<>~polling

\* Round robin: provided every sys_cgetc gets its key in the end, a runnable
\* env runs, unless it is suspended or destroyed first or the kernel stops,
\* however often the others read keys, yield, block or fork.
NoStarvation ==
    KeysComeUp =>
        \A e \in Envs : (env_status[e] = ENV_RUNNABLE)
                          ~> (curenv = e \/ env_status[e] # ENV_RUNNABLE \/ panic # "none")

\* The queue the links stand for: the runnable envs in the order of the links
\* (SchedListExact says that following them meets each once).
SchedSeq ==
    LET n == Cardinality(Runnable)
        nth[k \in 1..n] == IF k = 1 THEN TAILQ_FIRST(env_sched_list)
                           ELSE env_sched_list.next[nth[k - 1]]
    IN  [k \in 1..n |-> nth[k]]

\* The scheduler implements RunQueue: whatever the handlers do to the links,
\* the CPU always goes to the head of one FIFO of the runnable envs.
Abstract == INSTANCE RunQueue WITH runq <- SchedSeq, running <- curenv, Idle <- NULL
ImplementsRunQueue == Abstract!Spec
=============================================================================
