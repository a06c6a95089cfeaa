---------------------------- MODULE ShellVarProofs ----------------------------
(***************************************************************************)
(* The variables of shells: the properties of ShellVar, proved for every   *)
(* number of shells, names, values and slots.                              *)
(***************************************************************************)
EXTENDS ShellVar, MinLemmas, FiniteSetTheorems, TLAPS

VarRec == [name : Names, value : Values, shell_id : Nat, read_only : BOOLEAN,
           valid : BOOLEAN, share : BOOLEAN]

TypeOK ==
    /\ envvars \in Seq(VarRec)
    /\ sid \in Nat
    /\ shellid \in [Procs -> Nat]
    /\ at \in [Procs -> {"none", "alloc", "extend", "up"}]

\* A process that has allocated its shell id shares it with no other that has.
HasId(p) == at[p] \in {"extend", "up"}
IdsDistinct ==
    /\ \A p \in Procs : shellid[p] <= sid
    /\ \A p, q \in Procs : HasId(p) /\ HasId(q) /\ shellid[p] = shellid[q] => p = q

IInv == TypeOK /\ IdsDistinct

\* The slots that check_var stops at for process p.
Matches(p, name) ==
    { i \in 1..Len(envvars) : envvars[i].valid /\ envvars[i].name = name /\ envvars[i].shell_id = shellid[p] }
First(I) == IF I # {} THEN Min(I) ELSE 0

-----------------------------------------------------------------------------
\* check_var stops at the first slot that matches; 0 stands for its -1.
LEMMA CheckVarFirst ==
    ASSUME envvars \in Seq(VarRec), NEW p, NEW name
    PROVE  check_var(p, name) = First(Matches(p, name))
  <1> DEFINE ids == [i \in 1..Len(envvars) |-> i]
  <1>1. Len(ids) = Len(envvars) /\ \A i \in 1..Len(envvars) : ids[i] = i
    OBVIOUS
  <1> QED
    BY <1>1 DEF check_var, SelectInSeq, First, Matches, is_allow

\* The same of the state after a step.
LEMMA CheckVarFirstNext ==
    ASSUME (envvars \in Seq(VarRec))', NEW p, NEW name
    PROVE  check_var(p, name)' = First(Matches(p, name)')
  <1> DEFINE ids == [i \in 1..Len(envvars') |-> i]
  <1>1. Len(ids) = Len(envvars') /\ \A i \in 1..Len(envvars') : ids[i] = i
    OBVIOUS
  <1> QED
    BY <1>1 DEF check_var, SelectInSeq, First, Matches, is_allow

\* The first of a set of slots is one of them, and 0 only if there is none.
LEMMA FirstMatch ==
    ASSUME NEW I, I \subseteq Nat \ {0}
    PROVE  /\ First(I) \in Nat /\ (First(I) # 0 => First(I) \in I)
           /\ First(I) = 0 <=> I = {}
  BY MinIsMember DEF First

\* So check_var(p, name) is 0, or a slot that p matches.
LEMMA CheckVarSlot ==
    ASSUME TypeOK, NEW p, NEW name
    PROVE  /\ check_var(p, name) \in Nat
           /\ check_var(p, name) # 0 => check_var(p, name) \in Matches(p, name)
           /\ check_var(p, name) = 0 <=> Matches(p, name) = {}
  <1>1. Matches(p, name) \subseteq Nat \ {0}
    BY DEF Matches
  <1> QED
    BY <1>1, CheckVarFirst, FirstMatch DEF TypeOK

\* What a process reads is the same when the slots it matches are, and what is
\* in them.
LEMMA GetKept ==
    ASSUME TypeOK, TypeOK', NEW p, NEW name,
           Matches(p, name)' = Matches(p, name),
           \A i \in Matches(p, name) : envvars'[i] = envvars[i]
    PROVE  get_value(p, name)' = get_value(p, name)
  <1>1. check_var(p, name)' = check_var(p, name)
    BY CheckVarFirst, CheckVarFirstNext DEF TypeOK
  <1> QED
    BY <1>1, CheckVarSlot DEF get_value

-----------------------------------------------------------------------------
(***************************************************************************)
(* The slots written by each operation.                                    *)
(***************************************************************************)

\* declare writes one slot: a new one at the end, or one that the process
\* matches for that name and that is not read only.
LEMMA DeclareWrites ==
    ASSUME TypeOK, NEW p \in Procs, NEW name \in Names, NEW value \in Values,
           NEW share \in BOOLEAN, NEW rdonly \in BOOLEAN,
           sys_declare_shell_var(p, name, value, share, rdonly)
    PROVE  \E j \in 1..(Len(envvars) + 1), var \in VarRec :
             /\ var.name = name /\ var.shell_id = shellid[p]
             /\ \/ j = Len(envvars) + 1 /\ Matches(p, name) = {} /\ envvars' = Append(envvars, var)
                \/ /\ j \in Matches(p, name) /\ j = check_var(p, name) /\ ~envvars[j].read_only
                   /\ envvars' = [envvars EXCEPT ![j] = var]
  <1> DEFINE i == check_var(p, name)
             var == [name |-> name, value |-> value, shell_id |-> shellid[p],
                     read_only |-> rdonly, valid |-> TRUE, share |-> share]
  <1>1. var \in VarRec /\ var.name = name /\ var.shell_id = shellid[p]
    BY DEF TypeOK, VarRec
  <1>2. Len(envvars) \in Nat
    BY DEF TypeOK
  <1>3. CASE i = 0
    <2>1. envvars' = Append(envvars, var) /\ Matches(p, name) = {}
      BY <1>3, CheckVarSlot DEF sys_declare_shell_var
    <2> HIDE DEF i, var
    <2> QED
      BY <1>1, <1>2, <2>1
  <1>4. CASE i # 0
    <2>1. /\ envvars' = [envvars EXCEPT ![i] = var] /\ ~envvars[i].read_only
          /\ i \in Matches(p, name) /\ i = check_var(p, name)
      BY <1>4, CheckVarSlot DEF sys_declare_shell_var
    <2>2. i \in 1..(Len(envvars) + 1)
      BY <1>2, <2>1 DEF Matches
    <2> HIDE DEF i, var
    <2> QED
      BY <1>1, <2>1, <2>2
  <1> QED
    BY <1>3, <1>4

\* unset clears one slot that the process matches and that is not read only.
LEMMA UnsetWrites ==
    ASSUME TypeOK, NEW p \in Procs, NEW name \in Names, sys_unset_shell_var(p, name)
    PROVE  \E j \in Matches(p, name), var \in VarRec :
             /\ j = check_var(p, name) /\ ~envvars[j].read_only
             /\ var.name = name /\ var.shell_id = shellid[p]
             /\ envvars' = [envvars EXCEPT ![j] = var]
  <1> DEFINE i == check_var(p, name)
             var == [envvars[i] EXCEPT !.valid = FALSE]
  <1>1. /\ i \in Matches(p, name) /\ ~envvars[i].read_only
        /\ envvars' = [envvars EXCEPT ![i] = var]
    BY CheckVarSlot DEF sys_unset_shell_var
  <1>2. envvars[i] \in VarRec /\ envvars[i].name = name /\ envvars[i].shell_id = shellid[p]
    BY <1>1 DEF TypeOK, Matches
  <1> HIDE DEF i
  <1>3. var \in VarRec /\ var.name = name /\ var.shell_id = shellid[p]
    BY <1>2 DEF VarRec
  <1> HIDE DEF var
  <1> QED
    BY <1>1, <1>3 DEF i

\* A new shell appends variables of its own.
LEMMA ExtendAppends ==
    ASSUME TypeOK, NEW p \in Procs, extend_share_vars(p)
    PROVE  \E new \in Seq(VarRec) :
             /\ envvars' = envvars \o new
             /\ \A k \in 1..Len(new) : new[k].shell_id = shellid[p]
  <1> DEFINE shared == { i \in 1..Len(envvars) : envvars[i].valid /\ envvars[i].share }
             n == Cardinality(shared)
  <1>1. n \in Nat
    <2>1. IsFiniteSet(1..Len(envvars))
      BY FS_Interval DEF TypeOK
    <2>2. IsFiniteSet(shared)
      BY <2>1, FS_Subset
    <2> QED
      BY <2>2, FS_CardinalityType
  <1>2. PICK f \in [1..n -> shared] :
          envvars' = envvars \o [k \in 1..n |-> [envvars[f[k]] EXCEPT !.shell_id = shellid[p]]]
    BY DEF extend_share_vars
  <1> DEFINE copy(k) == [envvars[f[k]] EXCEPT !.shell_id = shellid[p]]
             new == [k \in 1..n |-> copy(k)]
  <1>3. ASSUME NEW k \in 1..n
        PROVE  copy(k) \in VarRec /\ copy(k).shell_id = shellid[p]
    <2>1. f[k] \in 1..Len(envvars)
      BY <1>2
    <2>2. envvars[f[k]] \in VarRec /\ shellid[p] \in Nat
      BY <2>1 DEF TypeOK
    <2> QED
      BY <2>2 DEF VarRec
  <1>4. envvars' = envvars \o new
    BY <1>2
  <1> HIDE DEF n, copy
  <1>5. new \in [1..n -> VarRec] /\ \A k \in 1..n : new[k].shell_id = shellid[p]
    BY <1>1, <1>3
  <1> HIDE DEF new
  <1>6. new \in Seq(VarRec) /\ Len(new) = n
    BY <1>1, <1>5
  <1> HIDE DEF new
  <1> QED
    BY <1>4, <1>5, <1>6
-----------------------------------------------------------------------------
(***************************************************************************)
(* The invariant.                                                          *)
(***************************************************************************)

\* The empty list of variables and the shell's first id satisfy the invariant.
THEOREM InitIInv == Init => IInv
  BY ShellVarAssumption DEF Init, IInv, TypeOK, IdsDistinct, HasId, Procs

\* One slot of a list written with a value of the same kind.
LEMMA ReplaceOne ==
    ASSUME NEW S, NEW s \in Seq(S), NEW j \in 1..Len(s), NEW v \in S
    PROVE  [s EXCEPT ![j] = v] \in Seq(S)
  OBVIOUS

\* A step that writes variables only keeps the invariant if it keeps their type.
LEMMA VarStep ==
    ASSUME IInv, envvars' \in Seq(VarRec), UNCHANGED <<sid, shellid, at>>
    PROVE  IInv'
  BY DEF IInv, TypeOK, IdsDistinct, HasId

\* Ids stay distinct: a shell id is used by the processes that were forked from
\* the shell only until they allocate their own.
THEOREM NextIInv == IInv /\ [Next]_vars => IInv'
  <1> SUFFICES ASSUME IInv, [Next]_vars PROVE IInv'
    OBVIOUS
  <1> USE DEF IInv
  <1>1. CASE UNCHANGED vars
    BY <1>1 DEF vars, TypeOK, IdsDistinct, HasId
  <1>2. ASSUME NEW p \in Procs, NEW name \in Names, NEW value \in Values,
               NEW share \in BOOLEAN, NEW rdonly \in BOOLEAN,
               sys_declare_shell_var(p, name, value, share, rdonly)
        PROVE  IInv'
    <2>1. envvars' \in Seq(VarRec)
      <3>1. PICK j \in 1..(Len(envvars) + 1), var \in VarRec :
              \/ envvars' = Append(envvars, var)
              \/ j \in Matches(p, name) /\ envvars' = [envvars EXCEPT ![j] = var]
        BY <1>2, DeclareWrites
      <3>2. envvars \in Seq(VarRec)
        BY DEF TypeOK
      <3>3. CASE envvars' = Append(envvars, var)
        BY <3>2, <3>3
      <3>4. CASE j \in Matches(p, name) /\ envvars' = [envvars EXCEPT ![j] = var]
        <4>1. j \in 1..Len(envvars)
          BY <3>4 DEF Matches
        <4> QED
          BY <3>2, <3>4, <4>1, ReplaceOne
      <3> QED
        BY <3>1, <3>3, <3>4
    <2> QED
      BY <1>2, <2>1, VarStep DEF sys_declare_shell_var
  <1>3. ASSUME NEW p \in Procs, NEW name \in Names, sys_unset_shell_var(p, name) PROVE IInv'
    <2>1. envvars' \in Seq(VarRec)
      BY <1>3, UnsetWrites DEF TypeOK, Matches
    <2> QED
      BY <1>3, <2>1, VarStep DEF sys_unset_shell_var
  <1>4. ASSUME NEW p \in Procs, NEW q \in Procs, Spawn(p, q) PROVE IInv'
    BY <1>4 DEF Spawn, TypeOK, IdsDistinct, HasId
  <1>5. ASSUME NEW p \in Procs, sys_shellid_alloc(p) PROVE IInv'
    <2>1. TypeOK'
      BY <1>5 DEF sys_shellid_alloc, TypeOK
    <2>2. \A q \in Procs : q # p => shellid'[q] = shellid[q] /\ at'[q] = at[q] /\ shellid'[q] < sid + 1
      BY <1>5 DEF sys_shellid_alloc, TypeOK, IdsDistinct
    <2>3. shellid'[p] = sid + 1 /\ sid' = sid + 1
      BY <1>5 DEF sys_shellid_alloc, TypeOK
    <2>4. \A q \in Procs : shellid'[q] <= sid' /\ (q # p => shellid'[q] # shellid'[p])
      BY <2>1, <2>2, <2>3 DEF TypeOK
    <2>5. \A q \in Procs : q # p => (HasId(q)' <=> HasId(q))
      BY <2>2 DEF HasId
    <2> QED
      BY <2>1, <2>2, <2>4, <2>5 DEF IdsDistinct
  <1>6. ASSUME NEW p \in Procs, sys_extend_vars(p) PROVE IInv'
    <2>1. PICK new \in Seq(VarRec) : envvars' = envvars \o new
      BY <1>6, ExtendAppends DEF sys_extend_vars
    <2>2. envvars' \in Seq(VarRec)
      BY <2>1 DEF TypeOK
    <2> QED
      BY <1>6, <2>2 DEF sys_extend_vars, TypeOK, IdsDistinct, HasId
  <1> QED
    BY <1>1, <1>2, <1>3, <1>4, <1>5, <1>6 DEF Next

\* A shell id belongs to one process that has allocated it.
THEOREM SpecIInv == Spec => []IInv
  BY InitIInv, NextIInv, PTL DEF Spec

-----------------------------------------------------------------------------
(***************************************************************************)
(* What a process reads.                                                   *)
(***************************************************************************)

\* A write to a slot that is no match of the process, before or after it.
LEMMA OtherSlot ==
    ASSUME TypeOK, TypeOK', shellid' = shellid, NEW q, NEW name,
           NEW j \in 1..Len(envvars), NEW var \in VarRec, envvars' = [envvars EXCEPT ![j] = var],
           j \notin Matches(q, name), var.name # name \/ var.shell_id # shellid[q]
    PROVE  get_value(q, name)' = get_value(q, name)
  <1>1. /\ Len(envvars') = Len(envvars) /\ envvars'[j] = var
        /\ \A i \in 1..Len(envvars) : i # j => envvars'[i] = envvars[i]
    BY DEF TypeOK
  <1>2. Matches(q, name)' = Matches(q, name)
    BY <1>1 DEF Matches
  <1>3. \A i \in Matches(q, name) : envvars'[i] = envvars[i]
    BY <1>1 DEF Matches
  <1> QED
    BY <1>2, <1>3, GetKept

\* Slots appended that are no match of the process.
LEMMA OtherAppended ==
    ASSUME TypeOK, TypeOK', shellid' = shellid, NEW q, NEW name,
           NEW new \in Seq(VarRec), envvars' = envvars \o new,
           \A k \in 1..Len(new) : new[k].name # name \/ new[k].shell_id # shellid[q]
    PROVE  get_value(q, name)' = get_value(q, name)
  <1>1. /\ Len(envvars') = Len(envvars) + Len(new) /\ Len(envvars) \in Nat /\ Len(new) \in Nat
        /\ \A i \in 1..Len(envvars) : envvars'[i] = envvars[i]
        /\ \A i \in 1..Len(envvars') : i > Len(envvars) =>
              i - Len(envvars) \in 1..Len(new) /\ envvars'[i] = new[i - Len(envvars)]
    BY DEF TypeOK
  <1>2. Matches(q, name)' = Matches(q, name)
    BY <1>1 DEF Matches
  <1>3. \A i \in Matches(q, name) : envvars'[i] = envvars[i]
    BY <1>1 DEF Matches
  <1> QED
    BY <1>2, <1>3, GetKept
\* A step that is not the process's own declare or unset of the name changes
\* nothing that it reads for it.
LEMMA OthersKeep ==
    ASSUME IInv, IInv', [Next]_vars, NEW q \in Procs, NEW name \in Names, at[q] = "up",
           ~ sys_unset_shell_var(q, name),
           ~ \E value \in Values, share, rdonly \in BOOLEAN :
               sys_declare_shell_var(q, name, value, share, rdonly)
    PROVE  get_value(q, name)' = get_value(q, name)
  <1> USE DEF IInv
  <1>1. CASE UNCHANGED vars
    BY <1>1, GetKept DEF vars, Matches
  <1>2. ASSUME NEW p \in Procs, NEW n \in Names, NEW value \in Values,
               NEW share \in BOOLEAN, NEW rdonly \in BOOLEAN,
               sys_declare_shell_var(p, n, value, share, rdonly)
        PROVE  get_value(q, name)' = get_value(q, name)
    <2>1. p # q \/ n # name
      BY <1>2
    <2>2. at[p] = "up" /\ UNCHANGED <<sid, shellid, at>>
      BY <1>2 DEF sys_declare_shell_var
    <2>3. n # name \/ shellid[p] # shellid[q]
      BY <2>1, <2>2 DEF IdsDistinct, HasId
    <2>4. PICK j \in 1..(Len(envvars) + 1), var \in VarRec :
             /\ var.name = n /\ var.shell_id = shellid[p]
             /\ \/ envvars' = Append(envvars, var)
                \/ j \in Matches(p, n) /\ envvars' = [envvars EXCEPT ![j] = var]
      BY <1>2, DeclareWrites
    <2>5. CASE envvars' = Append(envvars, var)
      <3> DEFINE new == <<var>>
      <3>1. new \in Seq(VarRec) /\ envvars' = envvars \o new
        BY <2>5 DEF TypeOK
      <3>2. \A k \in 1..Len(new) : new[k].name # name \/ new[k].shell_id # shellid[q]
        BY <2>3, <2>4
      <3> HIDE DEF new
      <3> QED
        BY <2>2, <3>1, <3>2, OtherAppended
    <2>6. CASE j \in Matches(p, n) /\ envvars' = [envvars EXCEPT ![j] = var]
      <3>1. j \in 1..Len(envvars) /\ j \notin Matches(q, name)
        BY <2>3, <2>6 DEF Matches
      <3>2. var.name # name \/ var.shell_id # shellid[q]
        BY <2>3, <2>4
      <3> QED
        BY <2>2, <2>6, <3>1, <3>2, OtherSlot
    <2> QED
      BY <2>4, <2>5, <2>6
  <1>3. ASSUME NEW p \in Procs, NEW n \in Names, sys_unset_shell_var(p, n)
        PROVE  get_value(q, name)' = get_value(q, name)
    <2>1. p # q \/ n # name
      BY <1>3
    <2>2. at[p] = "up" /\ UNCHANGED <<sid, shellid, at>>
      BY <1>3 DEF sys_unset_shell_var
    <2>3. n # name \/ shellid[p] # shellid[q]
      BY <2>1, <2>2 DEF IdsDistinct, HasId
    <2>4. PICK j \in Matches(p, n), var \in VarRec :
             /\ var.name = n /\ var.shell_id = shellid[p]
             /\ envvars' = [envvars EXCEPT ![j] = var]
      BY <1>3, UnsetWrites
    <2>5. j \in 1..Len(envvars) /\ j \notin Matches(q, name)
      BY <2>3, <2>4 DEF Matches
    <2>6. var.name # name \/ var.shell_id # shellid[q]
      BY <2>3, <2>4
    <2> QED
      BY <2>2, <2>4, <2>5, <2>6, OtherSlot
  <1>4. ASSUME NEW p \in Procs, NEW r \in Procs, Spawn(p, r) \/ sys_shellid_alloc(r)
        PROVE  get_value(q, name)' = get_value(q, name)
    <2>1. r # q /\ envvars' = envvars
      BY <1>4 DEF Spawn, sys_shellid_alloc
    <2>2. shellid'[q] = shellid[q]
      BY <1>4, <2>1 DEF Spawn, sys_shellid_alloc, TypeOK
    <2>3. Matches(q, name)' = Matches(q, name)
      BY <2>1, <2>2 DEF Matches
    <2> QED
      BY <2>1, <2>3, GetKept
  <1>5. ASSUME NEW p \in Procs, sys_extend_vars(p)
        PROVE  get_value(q, name)' = get_value(q, name)
    <2>1. at[p] = "extend" /\ shellid' = shellid
      BY <1>5 DEF sys_extend_vars
    <2>2. shellid[p] # shellid[q]
      BY <2>1 DEF IdsDistinct, HasId
    <2>3. PICK new \in Seq(VarRec) :
             envvars' = envvars \o new /\ \A k \in 1..Len(new) : new[k].shell_id = shellid[p]
      BY <1>5, ExtendAppends DEF sys_extend_vars
    <2>4. \A k \in 1..Len(new) : new[k].name # name \/ new[k].shell_id # shellid[q]
      BY <2>2, <2>3
    <2> QED
      BY <2>1, <2>3, <2>4, OtherAppended
  <1> QED
    BY <1>1, <1>2, <1>3, <1>4, <1>5 DEF Next

-----------------------------------------------------------------------------
Apart ==
    \A p \in Procs, name \in Names :
        at[p] = "up" /\ get_value(p, name)' # get_value(p, name)
          => \/ sys_unset_shell_var(p, name)
             \/ \E value \in Values, share, rdonly \in BOOLEAN :
                  sys_declare_shell_var(p, name, value, share, rdonly)

\* shell-challenge.md:590, for every number of shells: nothing that one shell
\* does, its start with the copies of shared variables included, changes what
\* another reads.
THEOREM ShellsApartHolds == Spec => ShellsApart
  <1>1. IInv /\ IInv' /\ [Next]_vars => [Apart]_vars
    BY OthersKeep DEF Apart
  <1>2. [][Apart]_vars => ShellsApart
    BY DEF Apart, ShellsApart
  <1> QED
    BY <1>1, <1>2, SpecIInv, PTL DEF Spec

Stays ==
    \A p \in Procs, name \in Names :
        at[p] = "up" /\ get_value(p, name).read_only => get_value(p, name)' = get_value(p, name)

\* shell-challenge.md:565: no declare and no unset, of the shell itself or of
\* another, changes a read-only variable that a shell reads.
THEOREM ReadOnlyStaysHolds == Spec => ReadOnlyStays
  <1>1. ASSUME IInv, IInv', [Next]_vars, NEW p \in Procs, NEW name \in Names,
               at[p] = "up", get_value(p, name).read_only
        PROVE  get_value(p, name)' = get_value(p, name)
    <2> DEFINE i == check_var(p, name)
    <2>1. i # 0 /\ envvars[i].read_only
      BY <1>1 DEF get_value, NoVar
    <2>2. ~ sys_unset_shell_var(p, name)
      BY <2>1 DEF sys_unset_shell_var
    <2>3. ~ \E value \in Values, share, rdonly \in BOOLEAN :
              sys_declare_shell_var(p, name, value, share, rdonly)
      BY <2>1 DEF sys_declare_shell_var
    <2> QED
      BY <1>1, <2>2, <2>3, OthersKeep
  <1>2. IInv /\ IInv' /\ [Next]_vars => [Stays]_vars
    BY <1>1 DEF Stays
  <1>3. [][Stays]_vars => ReadOnlyStays
    BY DEF Stays, ReadOnlyStays
  <1> QED
    BY <1>2, <1>3, SpecIInv, PTL DEF Spec
=============================================================================
