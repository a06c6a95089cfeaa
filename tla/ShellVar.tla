------------------------------- MODULE ShellVar -------------------------------
(***************************************************************************)
(* The environment variables of shells, kept by the kernel in one array    *)
(* (kern/env.c, kern/syscall_all.c).  A process belongs to the shell of    *)
(* its shellid, which fork and spawn copy; a process that runs sh takes an *)
(* id of its own and then copies the shared variables (user/sh.c).  Every  *)
(* system call is one step; processes interleave between them.             *)
(***************************************************************************)
EXTENDS Integers, Sequences, FiniteSets, SequencesExt

CONSTANTS NSHELL,       \* processes that run sh
          Names,
          Values,
          MAX_VAR_NUM   \* slots of envvars; no behaviour of the model needs more

ASSUME ShellVarAssumption == NSHELL \in Nat \ {0} /\ MAX_VAR_NUM \in Nat

VARIABLES envvars,  \* the slots below varnum
          sid,      \* the last shell id given out
          shellid,  \* of each process
          at        \* where the process is: "none", "alloc", "extend", "up"

vars == <<envvars, sid, shellid, at>>

Procs == 1..NSHELL
NoVar == [name |-> "", value |-> "", shell_id |-> 0, read_only |-> FALSE,
          valid |-> FALSE, share |-> FALSE]

\* Mutant of is_allow: variables of every shell match.
is_allow_All(p, i) == TRUE

is_allow(p, i) == envvars[i].shell_id = shellid[p]

\* check_var without create: the first slot that matches, or 0.
check_var(p, name) ==
    SelectInSeq([i \in 1..Len(envvars) |-> i],
                LAMBDA i : envvars[i].valid /\ envvars[i].name = name /\ is_allow(p, i))

\* What get_value gives process p: the slot, NoVar when there is none.
get_value(p, name) == LET i == check_var(p, name) IN IF i = 0 THEN NoVar ELSE envvars[i]

-----------------------------------------------------------------------------
\* An existing variable that is read only stays; otherwise the slot found, or
\* a new one, is filled.  The code does not test for a full array: MAX_VAR_NUM
\* is a bound of the model.
sys_declare_shell_var(p, name, value, share, rdonly) ==
    LET i == check_var(p, name)
        var == [name |-> name, value |-> value, shell_id |-> shellid[p],
                read_only |-> rdonly, valid |-> TRUE, share |-> share]
    IN  /\ at[p] = "up"
        /\ IF i = 0
           THEN Len(envvars) < MAX_VAR_NUM /\ envvars' = Append(envvars, var)
           ELSE ~envvars[i].read_only /\ envvars' = [envvars EXCEPT ![i] = var]
        /\ UNCHANGED <<sid, shellid, at>>

\* Mutant of sys_unset_shell_var: read_only is not looked at.
sys_unset_shell_var_Forced(p, name) ==
    LET i == check_var(p, name)
    IN  /\ at[p] = "up" /\ i # 0
        /\ envvars' = [envvars EXCEPT ![i].valid = FALSE]
        /\ UNCHANGED <<sid, shellid, at>>

sys_unset_shell_var(p, name) ==
    LET i == check_var(p, name)
    IN  /\ at[p] = "up" /\ i # 0 /\ ~envvars[i].read_only
        /\ envvars' = [envvars EXCEPT ![i].valid = FALSE]
        /\ UNCHANGED <<sid, shellid, at>>

\* A shell runs the command sh: the new process has its shellid.
Spawn(p, q) ==
    /\ at[p] = "up" /\ at[q] = "none"
    /\ at' = [at EXCEPT ![q] = "alloc"]
    /\ shellid' = [shellid EXCEPT ![q] = shellid[p]]
    /\ UNCHANGED <<envvars, sid>>

sys_shellid_alloc(p) ==
    /\ at[p] = "alloc"
    /\ sid' = sid + 1
    /\ shellid' = [shellid EXCEPT ![p] = sid + 1]
    /\ at' = [at EXCEPT ![p] = "extend"]
    /\ UNCHANGED envvars

\* Every valid shared variable is copied, in order, whatever shell it belongs
\* to.
extend_share_vars(p) ==
    LET shared == { i \in 1..Len(envvars) : envvars[i].valid /\ envvars[i].share }
        n == Cardinality(shared)
    IN  /\ Len(envvars) + n <= MAX_VAR_NUM
        /\ \E f \in [1..n -> shared] :
             /\ \A j, k \in 1..n : j < k => f[j] < f[k]
             /\ envvars' = envvars \o [k \in 1..n |-> [envvars[f[k]] EXCEPT !.shell_id = shellid[p]]]

sys_extend_vars(p) ==
    /\ at[p] = "extend"
    /\ extend_share_vars(p)
    /\ at' = [at EXCEPT ![p] = "up"]
    /\ UNCHANGED <<sid, shellid>>

-----------------------------------------------------------------------------
\* The first shell starts by itself.
Init ==
    /\ envvars = <<>>
    /\ sid = 1
    /\ shellid = [p \in Procs |-> 0]
    /\ at = [p \in Procs |-> IF p = 1 THEN "alloc" ELSE "none"]

Next ==
    \/ \E p \in Procs, name \in Names, value \in Values, share, rdonly \in BOOLEAN :
         sys_declare_shell_var(p, name, value, share, rdonly)
    \/ \E p \in Procs, name \in Names : sys_unset_shell_var(p, name)
    \/ \E p, q \in Procs : Spawn(p, q)
    \/ \E p \in Procs : sys_shellid_alloc(p) \/ sys_extend_vars(p)

Spec == Init /\ [][Next]_vars

-----------------------------------------------------------------------------
(***************************************************************************)
(* Properties                                                              *)
(***************************************************************************)

\* shell-challenge.md:590: what a shell does to its variables is invisible to
\* every other shell, parent and children included.  What a shell that is up
\* reads for a name changes only by its own declare or unset.
ShellsApart ==
    [][\A p \in Procs, name \in Names :
        at[p] = "up" /\ get_value(p, name)' # get_value(p, name)
          => \/ sys_unset_shell_var(p, name)
             \/ \E value \in Values, share, rdonly \in BOOLEAN :
                  sys_declare_shell_var(p, name, value, share, rdonly)]_vars

\* shell-challenge.md:565: a read-only variable can neither be declared again
\* nor unset; once a shell that is up reads one, it reads it for ever.
ReadOnlyStays ==
    [][\A p \in Procs, name \in Names :
        at[p] = "up" /\ get_value(p, name).read_only => get_value(p, name)' = get_value(p, name)]_vars
=============================================================================
