---------------------------- MODULE ShellProofs ----------------------------
(***************************************************************************)
(* The shell and the envs of its lines: types, that the shell is alone     *)
(* when it prompts, and that lists run what they mean, for every number of *)
(* envs, pipes and lines.                                                  *)
(***************************************************************************)
EXTENDS Shell, MinLemmas, FiniteSetTheorems, SequenceTheorems, TLAPS

\* Where an env can be, what it can wait for and where runcmd can return to.
Places == {"free", "prompt", "line", "quote", "captured", "capture", "capturing", "splice",
           "parse", "right", "left", "runcmd", "spawned", "program", "wait", "reap", "exit", "dying"}
ListOps == {";", "a", "o"}
Reasons == ListOps \cup {"line", "command", "right", "capture"}
Homes == {"shell", "capture", "line"}

\* An env as fork returns it: a slot and a use of the slot.
Refs == (0..NENV) \X Nat
Procs == [at : Places, tokens : Seq(STRING), argv : Seq(STRING), next : BOOLEAN, flag : Int,
          child : Refs, after : Reasons, right : Refs, home : Homes, cd : BOOLEAN, r : Int]
Ends4 == [0..3 -> EndType]
LineType == [quote : Seq(STRING), tokens : Seq(STRING)]

\* c is another env than p, which was there once.
Good(p, c) == c[1] \in Envs \ {p} /\ c[2] \in 1..env_id[c[1]]

\* What an env keeps in its variables and descriptors.
NoRightAt == {"line", "quote", "captured", "parse", "right"}
ProcOK(p, n, e) ==
    /\ n \in Procs /\ e \in Ends4
    /\ n.at \in {"free", "dying"} => e = NoEnds
    /\ n.at \in {"wait", "reap", "capture", "capturing"} => Good(p, n.child)
    /\ n.at = "spawned" => n.child = NoEnv \/ Good(p, n.child)
    /\ n.right = NoEnv \/ Good(p, n.right)
    /\ n.at \in NoRightAt \/ (n.at \in {"wait", "reap"} /\ n.after \in ListOps) => n.right = NoEnv

\* The free list holds the free slots, once each.
FreeOK ==
    /\ free \in Seq(Envs)
    /\ \A i, j \in 1..Len(free) : free[i] = free[j] => i = j
    /\ \A p \in Envs : At(p, "free") <=> \E i \in 1..Len(free) : free[i] = p

GlobalOK ==
    /\ DOMAIN proc = Envs /\ proc = [p \in Envs |-> proc[p]]
    /\ DOMAIN ends = Envs /\ ends = [p \in Envs |-> ends[p]]
    /\ env_id \in [Envs -> Nat] /\ env_exit_value \in [Envs -> Int]
    /\ data \in [0..NPIPES -> 0..PIPE_SIZE]
    /\ line \in LineType /\ nlines \in 0..MaxLines

TypeInv == GlobalOK /\ FreeOK /\ \A p \in Envs : ProcOK(p, proc[p], ends[p])

-----------------------------------------------------------------------------
\* The env n has to wait for c, or waits for it.
RightAt(n) == n.at \in {"left", "runcmd", "spawned"} \/ (n.at \in {"wait", "reap"} /\ n.after = "command")
Owns(n, c) ==
    \/ n.child = c /\ n.at \in {"spawned", "capture", "capturing", "wait"}
    \/ n.right = c /\ RightAt(n)
Current(s) == <<s, env_id[s]>>
Living == { p \in Envs : ~At(p, "free") }

\* The envs form a tree under the shell: of every set of others, one is waited
\* for by an env outside of the set.
Tree ==
    \A S \in SUBSET (Living \ {Main}) :
      S # {} => \E s \in S, p \in Living \ S : Owns(proc[p], Current(s))

\* The operators that have a command on their left in every line, a "|" at least.
WholeLines == \A l \in Lines : Fed(Breaks, l.quote, FALSE) /\ Fed(Breaks, l.tokens, FALSE)
Needs == IF WholeLines THEN Breaks ELSE {"|"}

\* What is left of a sensible line.
Whole(tokens) == Sensible(tokens) /\ Fed(Needs, tokens, FALSE)
CdLast(tokens) == \A i \in 1..Len(tokens) : tokens[i] = "cd" => i = Len(tokens)
TextOK(n) ==
    /\ n.at \in {"line", "captured"} => Whole(n.tokens)
    /\ n.at \in {"line", "captured", "quote"} => n.argv = <<>>
    /\ n.at = "right" \/ (n.at \in {"wait", "reap"} /\ n.after \in ListOps) =>
         CdLast(n.tokens) /\ Fed(Needs, n.tokens, FALSE)
    /\ n.at = "parse" =>
         /\ CdLast(n.tokens) /\ Fed(Needs, n.tokens, n.argv # <<>> \/ ~n.next)
         /\ n.argv # <<>> /\ n.tokens # <<>> => Head(n.argv) # "cd"
    /\ n.at \in {"left", "runcmd"} /\ n.right # NoEnv => n.argv # <<>> /\ Head(n.argv) # "cd"

\* The shell parses a line itself only for a cd that ends it: its descriptors
\* are those of the console, unless a ";" will restore them.
Std(e) == e[0] = Console /\ e[1] = Console
Shut(e) == e[2] = Closed /\ e[3] = Closed
AfterSemi(tokens) == Len(tokens) >= 2 /\ tokens[Len(tokens) - 1] = ";"
CdTail(tokens) ==
    /\ \A i \in 1..Len(tokens) : tokens[i] # "#"
    /\ tokens # <<>> => tokens[Len(tokens)] = "cd"
    /\ Len(tokens) >= 2 => AfterSemi(tokens)
MainOK(n, e) ==
    /\ n.home = "shell"
    /\ n.at \notin {"captured", "right"}
    /\ n.at \in {"prompt", "line", "quote", "splice"} => Std(e) /\ Shut(e)
    /\ n.at \in {"wait", "reap"} /\ n.after \in {"line", "capture"} => Std(e) /\ Shut(e)
    /\ n.at \in {"wait", "reap"} /\ n.after \in ListOps => Shut(e) /\ CdTail(n.tokens)
    /\ n.at = "capture" => Std(e)
    /\ n.at = "capturing" => Std(e) /\ e[3] = Closed
    /\ n.at = "parse" => Shut(e) /\ CdTail(n.tokens) /\ (Std(e) \/ (n.next /\ AfterSemi(n.tokens)))
    /\ n.at = "runcmd" => n.right # NoEnv \/ (Std(e) /\ Shut(e))
    /\ n.at = "left" => n.right # NoEnv

SensibleLine(l) == Whole(l.quote) /\ Whole(l.tokens)
SensibleLines ==
    /\ \A v \in DOMAIN Vars : Vars[v] # "cd"
    /\ \A l \in Lines : Sensible(l.quote) /\ Sensible(l.tokens)

AloneInv ==
    /\ SensibleLine(line)
    /\ \A p \in Envs : TextOK(proc[p])
    /\ MainOK(proc[Main], ends[Main])
    /\ Tree

-----------------------------------------------------------------------------
(***************************************************************************)
(* Lemmas about lines                                                      *)
(***************************************************************************)

\* The rest of a sequence.
LEMMA TailSeq ==
    ASSUME NEW S, NEW t \in Seq(S), t # <<>>
    PROVE  /\ Tail(t) \in Seq(S) /\ Head(t) = t[1] /\ t[1] \in S
           /\ Len(t) \in Nat /\ Len(t) >= 1 /\ Len(Tail(t)) = Len(t) - 1
           /\ \A i \in 1..(Len(t) - 1) : Tail(t)[i] = t[i + 1]
  OBVIOUS

\* A sequence is empty if its length is 0.
LEMMA EmptyLen ==
    ASSUME NEW S, NEW t \in Seq(S)
    PROVE  (t = <<>> <=> Len(t) = 0) /\ Len(t) \in Nat
  BY EmptySeq

\* A name for the rest of a sequence.
LEMMA TailOf ==
    ASSUME NEW S, NEW t \in Seq(S), t # <<>>
    PROVE  \E u \in Seq(S) : /\ u = Tail(t) /\ Len(u) = Len(t) - 1 /\ Len(t) - 1 \in Nat
                              /\ \A i \in 1..(Len(t) - 1) : u[i] = t[i + 1]
  <1>1. Tail(t) \in Seq(S)
    OBVIOUS
  <1>2. Len(Tail(t)) = Len(t) - 1 /\ Len(t) - 1 \in Nat
    OBVIOUS
  <1>3. \A i \in 1..(Len(t) - 1) : Tail(t)[i] = t[i + 1]
    OBVIOUS
  <1> QED
    BY <1>1, <1>2, <1>3, Zenon

\* A command may have begun before.
LEMMA FedMore ==
    ASSUME NEW t, NEW b \in BOOLEAN, Fed(Needs, t, FALSE)
    PROVE  Fed(Needs, t, b)
  BY DEF Fed

\* After a token that ends a command a new one has to begin.
LEMMA FedBreak ==
    ASSUME NEW W, NEW t \in Seq(W), t # <<>>, NEW b \in BOOLEAN, Fed(Needs, t, b), t[1] \in Breaks
    PROVE  Fed(Needs, Tail(t), FALSE)
  <1> DEFINE u == Tail(t)
  <1>1. /\ u \in Seq(W) /\ Len(u) = Len(t) - 1 /\ Len(t) \in Nat /\ Len(u) \in Nat
        /\ \A i \in 1..Len(u) : u[i] = t[i + 1]
    BY TailSeq
  <1> SUFFICES ASSUME NEW k \in 1..Len(u), u[k] \in Needs
               PROVE  \E i \in 1..(k - 1) : IsCommand(u, i) /\ \A j \in i..(k - 1) : u[j] \notin Breaks
    BY DEF Fed
  <1> HIDE DEF u
  <1>2. k + 1 \in 1..Len(t) /\ t[k + 1] \in Needs /\ 1 \in 1..k
    BY <1>1
  <1>3. ~(b /\ \A j \in 1..((k + 1) - 1) : t[j] \notin Breaks)
    BY <1>2
  <1>4. PICK i \in 1..((k + 1) - 1) : IsCommand(t, i) /\ \A j \in i..((k + 1) - 1) : t[j] \notin Breaks
    BY <1>2, <1>3 DEF Fed
  <1>5. i # 1 /\ i - 1 \in 1..(k - 1) /\ i \in i..((k + 1) - 1)
    BY <1>4
  <1>6. u[i - 1] = t[i]
    BY <1>1, <1>5
  <1>7. i - 1 # 1 => u[(i - 1) - 1] = t[i - 1]
    <2>1. i - 1 # 1 => (i - 1) - 1 \in 1..Len(u) /\ ((i - 1) - 1) + 1 = i - 1
      BY <1>1, <1>5
    <2> QED
      BY <1>1, <2>1
  <1>8. IsCommand(u, i - 1)
    BY <1>4, <1>5, <1>6, <1>7 DEF IsCommand
  <1>9. \A j \in (i - 1)..(k - 1) : u[j] \notin Breaks
    <2> SUFFICES ASSUME NEW j \in (i - 1)..(k - 1) PROVE u[j] \notin Breaks
      OBVIOUS
    <2>1. j \in 1..Len(u) /\ j + 1 \in i..((k + 1) - 1)
      BY <1>1, <1>5
    <2> QED
      BY <1>1, <1>4, <2>1
  <1> QED
    BY <1>5, <1>8, <1>9

\* Whatever token is read, a command may have begun then.
LEMMA FedTail ==
    ASSUME NEW W, NEW t \in Seq(W), t # <<>>, NEW b \in BOOLEAN, Fed(Needs, t, b)
    PROVE  Fed(Needs, Tail(t), TRUE)
  <1> DEFINE u == Tail(t)
  <1>1. /\ u \in Seq(W) /\ Len(u) = Len(t) - 1 /\ Len(t) \in Nat /\ Len(u) \in Nat
        /\ \A i \in 1..Len(u) : u[i] = t[i + 1]
    BY TailSeq
  <1> SUFFICES ASSUME NEW k \in 1..Len(u), u[k] \in Needs, \E j \in 1..(k - 1) : u[j] \in Breaks
               PROVE  \E i \in 1..(k - 1) : IsCommand(u, i) /\ \A j \in i..(k - 1) : u[j] \notin Breaks
    BY DEF Fed
  <1> HIDE DEF u
  <1>2. PICK m \in 1..(k - 1) : u[m] \in Breaks
    OBVIOUS
  <1>3. k + 1 \in 1..Len(t) /\ t[k + 1] \in Needs /\ m + 1 \in 1..((k + 1) - 1) /\ t[m + 1] \in Breaks
    <2>1. k + 1 \in 1..Len(t) /\ m + 1 \in 1..((k + 1) - 1) /\ m \in 1..Len(u)
      BY <1>1, <1>2
    <2>2. t[k + 1] = u[k] /\ t[m + 1] = u[m]
      BY <1>1, <2>1
    <2> QED
      BY <1>2, <2>1, <2>2
  <1>4. PICK i \in 1..((k + 1) - 1) : IsCommand(t, i) /\ \A j \in i..((k + 1) - 1) : t[j] \notin Breaks
    BY <1>3 DEF Fed
  <1>5. ~(m + 1 \in i..((k + 1) - 1))
    BY <1>3, <1>4
  <1>6. i # 1 /\ i - 1 \in 1..(k - 1) /\ i - 1 # 1
    BY <1>2, <1>3, <1>5
  <1>7. u[i - 1] = t[i] /\ u[(i - 1) - 1] = t[i - 1]
    <2>1. (i - 1) - 1 \in 1..Len(u) /\ ((i - 1) - 1) + 1 = i - 1 /\ i - 1 \in 1..Len(u) /\ (i - 1) + 1 = i
      BY <1>1, <1>6
    <2> QED
      BY <1>1, <2>1
  <1>8. IsCommand(u, i - 1)
    BY <1>4, <1>6, <1>7 DEF IsCommand
  <1>9. \A j \in (i - 1)..(k - 1) : u[j] \notin Breaks
    <2> SUFFICES ASSUME NEW j \in (i - 1)..(k - 1) PROVE u[j] \notin Breaks
      OBVIOUS
    <2>1. j \in 1..Len(u) /\ j + 1 \in i..((k + 1) - 1)
      BY <1>1, <1>6
    <2> QED
      BY <1>1, <1>4, <2>1
  <1> QED
    BY <1>6, <1>8, <1>9

\* A file name is no command.
LEMMA FedRedirect ==
    ASSUME NEW W, NEW t \in Seq(W), Len(t) >= 2, NEW b \in BOOLEAN, Fed(Needs, t, b),
           t[1] \in {"<", ">"}, t[2] \notin Symbols
    PROVE  Fed(Needs, Tail(Tail(t)), b)
  <1> DEFINE u == Tail(Tail(t))
  <1>1. /\ u \in Seq(W) /\ Len(u) = Len(t) - 2 /\ Len(t) \in Nat /\ Len(u) \in Nat
        /\ \A i \in 1..Len(u) : u[i] = t[i + 2]
    <2>0. t # <<>> /\ Len(t) \in Nat
      BY EmptyLen
    <2>1. PICK v \in Seq(W) : v = Tail(t) /\ Len(v) = Len(t) - 1 /\ \A i \in 1..(Len(t) - 1) : v[i] = t[i + 1]
      BY <2>0, TailOf
    <2>1a. PICK n \in Nat : n = Len(t)
      BY <2>0
    <2>1b. n >= 2 /\ Len(v) = n - 1
      BY <2>1, <2>1a
    <2>1c. Len(v) # 0
      BY <2>1b
    <2>2. v # <<>>
      BY <2>1c, EmptyLen
    <2>3. Tail(v) \in Seq(W) /\ Len(Tail(v)) = Len(v) - 1 /\ \A i \in 1..(Len(v) - 1) : Tail(v)[i] = v[i + 1]
      BY <2>1, <2>2, TailSeq
    <2>4. \A i \in 1..(Len(v) - 1) : i + 1 \in 1..(Len(t) - 1) /\ (i + 1) + 1 = i + 2
      BY <2>0, <2>1
    <2>5. \A i \in 1..Len(Tail(v)) : Tail(v)[i] = t[i + 2]
      BY <2>0, <2>1, <2>3, <2>4
    <2>6. Len(Tail(v)) = Len(t) - 2 /\ Len(Tail(v)) \in Nat
      BY <2>0, <2>1, <2>3
    <2> QED
      BY <2>0, <2>1, <2>3, <2>5, <2>6
  <1> SUFFICES ASSUME NEW k \in 1..Len(u), u[k] \in Needs,
                      ~(b /\ \A j \in 1..(k - 1) : u[j] \notin Breaks)
               PROVE  \E i \in 1..(k - 1) : IsCommand(u, i) /\ \A j \in i..(k - 1) : u[j] \notin Breaks
    BY DEF Fed
  <1> HIDE DEF u
  <1>2. k + 2 \in 1..Len(t) /\ t[k + 2] \in Needs
    BY <1>1
  <1>3. ~(b /\ \A j \in 1..((k + 2) - 1) : t[j] \notin Breaks)
    <2> SUFFICES ASSUME b PROVE \E j \in 1..((k + 2) - 1) : t[j] \in Breaks
      OBVIOUS
    <2>1. PICK m \in 1..(k - 1) : u[m] \in Breaks
      OBVIOUS
    <2>2. m + 2 \in 1..((k + 2) - 1) /\ m \in 1..Len(u) /\ t[m + 2] = u[m]
      BY <1>1, <2>1
    <2> QED
      BY <2>1, <2>2
  <1>4. PICK i \in 1..((k + 2) - 1) : IsCommand(t, i) /\ \A j \in i..((k + 2) - 1) : t[j] \notin Breaks
    BY <1>2, <1>3 DEF Fed
  <1>5. i # 1 /\ i # 2
    <2>1. t[1] \in Symbols
      BY DEF Symbols
    <2>2. t[i] \notin Symbols /\ (i = 1 \/ t[i - 1] \notin {"<", ">"})
      BY <1>4 DEF IsCommand
    <2>3. i # 1
      BY <2>1, <2>2
    <2>4. i = 2 => t[i - 1] = t[1]
      OBVIOUS
    <2> QED
      BY <2>2, <2>3, <2>4
  <1>6. i - 2 \in 1..(k - 1) /\ i - 2 \in 1..Len(u) /\ (i - 2) + 2 = i
    BY <1>1, <1>5
  <1>7. u[i - 2] = t[i] /\ (i - 2 # 1 => u[(i - 2) - 1] = t[i - 1])
    <2>1. i - 2 # 1 => (i - 2) - 1 \in 1..Len(u) /\ ((i - 2) - 1) + 2 = i - 1
      BY <1>1, <1>6
    <2> QED
      BY <1>1, <1>6, <2>1
  <1>8. IsCommand(u, i - 2)
    BY <1>4, <1>5, <1>7 DEF IsCommand
  <1>9. \A j \in (i - 2)..(k - 1) : u[j] \notin Breaks
    <2> SUFFICES ASSUME NEW j \in (i - 2)..(k - 1) PROVE u[j] \notin Breaks
      OBVIOUS
    <2>1. j \in 1..Len(u) /\ j + 2 \in i..((k + 2) - 1)
      BY <1>1, <1>6
    <2> QED
      BY <1>1, <1>4, <2>1
  <1> QED
    BY <1>6, <1>8, <1>9

\* cd stays the last token.
LEMMA CdLastTail ==
    ASSUME NEW W, NEW t \in Seq(W), t # <<>>, CdLast(t)
    PROVE  CdLast(Tail(t)) /\ (Tail(t) # <<>> => t[1] # "cd")
  <1>1. PICK u \in Seq(W) : u = Tail(t) /\ Len(u) = Len(t) - 1 /\ \A i \in 1..(Len(t) - 1) : u[i] = t[i + 1]
    BY TailOf
  <1>2. Len(t) \in Nat /\ Len(t) >= 1
    BY EmptyLen
  <1>3. CdLast(u)
    <2> SUFFICES ASSUME NEW i \in 1..Len(u), u[i] = "cd" PROVE i = Len(u)
      BY DEF CdLast
    <2>1. i \in 1..(Len(t) - 1) /\ i + 1 \in 1..Len(t) /\ t[i + 1] = "cd"
      BY <1>1, <1>2
    <2>2. i + 1 = Len(t)
      BY <2>1 DEF CdLast
    <2>3. PICK n \in Nat : n = Len(t)
      BY <1>2
    <2>4. i + 1 = n /\ Len(u) = n - 1
      BY <1>1, <2>2, <2>3
    <2> QED
      BY <2>3, <2>4
  <1>4. u # <<>> => Len(u) # 0
    BY EmptyLen
  <1>5. u # <<>> => t[1] # "cd"
    <2> SUFFICES ASSUME u # <<>>, t[1] = "cd" PROVE FALSE
      OBVIOUS
    <2>1. Len(t) # 1 /\ 1 \in 1..Len(t)
      BY <1>1, <1>2, <1>4
    <2> QED
      BY <2>1 DEF CdLast
  <1> QED
    BY <1>1, <1>3, <1>5

\* What is left of a line with cd.
LEMMA CdTailTail ==
    ASSUME NEW W, NEW t \in Seq(W), t # <<>>, CdTail(t)
    PROVE  /\ CdTail(Tail(t))
           /\ t[1] # "cd" => Tail(t) # <<>>
           /\ AfterSemi(t) /\ (Len(t) >= 3 \/ t[1] # ";") => AfterSemi(Tail(t))
  <1>1. PICK u \in Seq(W) : u = Tail(t) /\ Len(u) = Len(t) - 1 /\ \A i \in 1..(Len(t) - 1) : u[i] = t[i + 1]
    BY TailOf
  <1>2. Len(t) \in Nat /\ Len(t) >= 1
    BY EmptyLen
  <1>3. u = <<>> => Len(u) = 0
    BY EmptyLen
  <1>3a. u # <<>> => Len(u) # 0
    BY EmptyLen
  <1>n. PICK n \in Nat : n = Len(t) /\ Len(u) = n - 1
    BY <1>1, <1>2
  <1>s. AfterSemi(t) <=> n >= 2 /\ t[n - 1] = ";"
    BY <1>n DEF AfterSemi
  <1>4. Len(t) >= 3 /\ AfterSemi(t) => AfterSemi(u)
    <2>1. n >= 3 => Len(u) >= 2 /\ Len(u) - 1 = n - 2 /\ n - 2 \in 1..(n - 1) /\ (n - 2) + 1 = n - 1
      BY <1>n
    <2>2. n >= 3 => u[n - 2] = t[n - 1]
      BY <1>1, <1>n, <2>1
    <2> QED
      BY <1>n, <1>s, <2>1, <2>2 DEF AfterSemi
  <1>5. AfterSemi(t) /\ t[1] # ";" => Len(t) >= 3
    <2>1. n >= 2 /\ ~(n >= 3) => n - 1 = 1
      OBVIOUS
    <2> QED
      BY <1>n, <1>s, <2>1
  <1>6. CdTail(u)
    <2>1. \A i \in 1..Len(u) : u[i] # "#"
      BY <1>1, <1>2 DEF CdTail
    <2>2. u # <<>> => u[Len(u)] = "cd"
      <3> SUFFICES ASSUME u # <<>> PROVE u[Len(u)] = "cd"
        OBVIOUS
      <3>1. Len(u) \in 1..(Len(t) - 1) /\ Len(u) + 1 = Len(t)
        BY <1>1, <1>2, <1>3a
      <3>2. t[Len(t)] = "cd"
        BY DEF CdTail
      <3> QED
        BY <1>1, <3>1, <3>2
    <2>3. Len(u) >= 2 => AfterSemi(u)
      <3>1. Len(u) >= 2 => Len(t) >= 3 /\ Len(t) >= 2
        BY <1>1, <1>2
      <3> QED
        BY <1>4, <3>1 DEF CdTail
    <2> QED
      BY <2>1, <2>2, <2>3 DEF CdTail
  <1>7. t[1] # "cd" => u # <<>>
    <2>1. u = <<>> => Len(t) = 1
      BY <1>1, <1>2, <1>3
    <2> QED
      BY <2>1 DEF CdTail
  <1> QED
    BY <1>1, <1>4, <1>5, <1>6, <1>7

-----------------------------------------------------------------------------
(***************************************************************************)
(* The two shapes of a step                                                *)
(***************************************************************************)

\* Env p becomes n with the ends e; nobody is made and nobody ends.
Local(p, n, e) ==
    /\ proc' = [proc EXCEPT ![p] = n] /\ ends' = [ends EXCEPT ![p] = e]
    /\ env_id' = env_id /\ free' = free

\* Env p becomes n and makes m in the slot s; both have the ends e.
Forked(p, n, e, s, m) ==
    /\ proc' = [proc EXCEPT ![p] = n, ![s] = m] /\ ends' = [ends EXCEPT ![p] = e, ![s] = e]
    /\ env_id' = [env_id EXCEPT ![s] = @ + 1]
    /\ free # <<>> /\ s = Head(free) /\ free' = Tail(free)

\* The rest of the state after a step.
GlobalNext ==
    /\ env_exit_value' \in [Envs -> Int] /\ data' \in [0..NPIPES -> 0..PIPE_SIZE]
    /\ line' \in LineType /\ nlines' \in 0..MaxLines

\* What has to be shown of each action.
StepOK == TypeInv' /\ (SensibleLines /\ AloneInv => AloneInv')

\* What p owns of the living it owns as n.
Keeps(p, n) == \A s \in Living : Owns(proc[p], Current(s)) => Owns(n, Current(s))

\* References stay good, as slots are only used more often.
LEMMA ProcKept ==
    ASSUME NEW p, NEW n, NEW e, ProcOK(p, n, e), env_id \in [Envs -> Nat], env_id' \in [Envs -> Nat],
           \A s \in Envs : env_id[s] <= env_id'[s]
    PROVE  ProcOK(p, n, e)'
  <1>1. \A c : Good(p, c) => Good(p, c)'
    BY DEF Good
  <1> QED
    BY <1>1 DEF ProcOK

\* A step of one env keeps the types.
LEMMA LocalType ==
    ASSUME TypeInv, NEW p \in Envs, NEW n, NEW e, Local(p, n, e), GlobalNext,
           ProcOK(p, n, e), n.at # "free", ~At(p, "free")
    PROVE  TypeInv'
  <1>1. /\ proc' = [q \in Envs |-> proc'[q]] /\ ends' = [q \in Envs |-> ends'[q]]
        /\ DOMAIN proc' = Envs /\ DOMAIN ends' = Envs
        /\ proc'[p] = n /\ ends'[p] = e
        /\ \A q \in Envs : q # p => proc'[q] = proc[q] /\ ends'[q] = ends[q]
    BY DEF TypeInv, GlobalOK, Local
  <1>2. env_id' = env_id /\ free' = free /\ env_id \in [Envs -> Nat]
    BY DEF Local, TypeInv, GlobalOK
  <1>3. GlobalOK'
    BY <1>1, <1>2 DEF GlobalOK, GlobalNext
  <1>4. \A q \in Envs : At(q, "free")' <=> At(q, "free")
    BY <1>1 DEF At
  <1>5. FreeOK'
    BY <1>2, <1>4 DEF FreeOK, TypeInv
  <1>6. \A q \in Envs : ProcOK(q, proc[q], ends[q])
    BY DEF TypeInv
  <1>7. \A q \in Envs : \A m, f : ProcOK(q, m, f) => ProcOK(q, m, f)'
    <2> SUFFICES ASSUME NEW q \in Envs, NEW m, NEW f, ProcOK(q, m, f) PROVE ProcOK(q, m, f)'
      OBVIOUS
    <2>1. \A s \in Envs : env_id[s] <= env_id'[s]
      BY <1>2
    <2> QED
      BY <1>2, <2>1, ProcKept
  <1>8. \A q \in Envs : ProcOK(q, proc[q], ends[q])'
    <2> SUFFICES ASSUME NEW q \in Envs PROVE ProcOK(q, proc[q], ends[q])'
      OBVIOUS
    <2>1. CASE q = p
      BY <1>1, <1>7, <2>1
    <2>2. CASE q # p
      BY <1>1, <1>6, <1>7, <2>2
    <2> QED
      BY <2>1, <2>2
  <1> QED
    BY <1>3, <1>5, <1>8 DEF TypeInv

\* If the others that live keep what they own, and nobody is made, the tree
\* stays one.
LEMMA LocalTree ==
    ASSUME TypeInv, Tree, NEW p \in Envs, NEW n, NEW e, Local(p, n, e), n.at # "free", ~At(p, "free"),
           Keeps(p, n)
    PROVE  Tree'
  <1>1. /\ proc'[p] = n /\ \A q \in Envs : q # p => proc'[q] = proc[q]
    BY DEF TypeInv, GlobalOK, Local
  <1>2. \A s \in Envs : Current(s)' = Current(s)
    BY DEF Local, Current
  <1>3. Living' = Living
    BY <1>1 DEF Living, At
  <1> SUFFICES ASSUME NEW S \in SUBSET (Living \ {Main}), S # {}
               PROVE  \E s \in S, q \in Living \ S : Owns(proc'[q], Current(s))
    <2>1. \A s \in Envs : \A n2 : Owns(n2, Current(s))' <=> Owns(n2, Current(s)')
      BY DEF Owns, RightAt
    <2> QED
      BY <1>2, <1>3 DEF Tree, Living
  <1>4. PICK s \in S, q \in Living \ S : Owns(proc[q], Current(s))
    BY DEF Tree
  <1>5. Owns(proc'[q], Current(s))
    <2>1. CASE q = p
      BY <1>1, <1>4, <2>1 DEF Keeps
    <2>2. CASE q # p
      BY <1>1, <1>4, <2>2 DEF Living
    <2> QED
      BY <2>1, <2>2
  <1> QED
    BY <1>5

\* A step of one env.
LEMMA LocalStep ==
    ASSUME TypeInv, NEW p \in Envs, NEW n, NEW e, Local(p, n, e), GlobalNext,
           ProcOK(p, n, e), n.at # "free", ~At(p, "free"),
           SensibleLines /\ AloneInv => /\ SensibleLine(line') /\ TextOK(n) /\ Keeps(p, n)
                                        /\ (p = Main => MainOK(n, e))
    PROVE  StepOK
  <1>1. TypeInv'
    BY LocalType
  <1>2. ASSUME SensibleLines, AloneInv PROVE AloneInv'
    <2>1. Tree'
      BY <1>2, LocalTree DEF AloneInv
    <2>2. SensibleLine(line)'
      BY <1>2 DEF SensibleLine, Sensible, CdLast, Fed
    <2>3. /\ proc'[p] = n /\ ends'[p] = e
          /\ \A q \in Envs : q # p => proc'[q] = proc[q] /\ ends'[q] = ends[q]
      BY DEF TypeInv, GlobalOK, Local
    <2>4. \A q \in Envs : TextOK(proc[q])'
      <3>1. \A q \in Envs : TextOK(proc'[q])
        BY <1>2, <2>3 DEF AloneInv
      <3> QED
        BY <3>1 DEF TextOK
    <2>5. MainOK(proc[Main], ends[Main])'
      <3>1. MainOK(proc'[Main], ends'[Main])
        BY <1>2, <2>3, ShellAssumption DEF AloneInv, Main, Envs
      <3> QED
        BY <3>1 DEF MainOK
    <2> QED
      BY <2>1, <2>2, <2>4, <2>5 DEF AloneInv
  <1> QED
    BY <1>1, <1>2 DEF StepOK

\* The head of the free list is a free slot, and its tail holds the others.
LEMMA FreeHead ==
    ASSUME TypeInv, free # <<>>
    PROVE  /\ Head(free) \in Envs /\ At(Head(free), "free")
           /\ Tail(free) \in Seq(Envs)
           /\ \A i, j \in 1..Len(Tail(free)) : Tail(free)[i] = Tail(free)[j] => i = j
           /\ \A q \in Envs : (\E i \in 1..Len(Tail(free)) : Tail(free)[i] = q) <=> At(q, "free") /\ q # Head(free)
  <1>1. FreeOK /\ free \in Seq(Envs)
    BY DEF TypeInv, FreeOK
  <1>2. PICK t \in Seq(Envs) : /\ t = Tail(free) /\ Len(t) = Len(free) - 1 /\ Len(free) - 1 \in Nat
                               /\ \A i \in 1..(Len(free) - 1) : t[i] = free[i + 1]
    BY <1>1, TailOf
  <1>3. PICK n \in Nat : n = Len(free) /\ n >= 1 /\ Len(t) = n - 1 /\ \A i \in 1..(n - 1) : t[i] = free[i + 1]
    <2>1. Len(free) \in Nat /\ Len(free) >= 1
      BY <1>1, TailSeq
    <2> QED
      BY <1>2, <2>1
  <1>4. Head(free) = free[1] /\ free[1] \in Envs
    BY <1>1, TailSeq
  <1>5. At(free[1], "free")
    BY <1>1, <1>3, <1>4 DEF FreeOK
  <1>6. \A i, j \in 1..n : free[i] = free[j] => i = j
    BY <1>1, <1>3 DEF FreeOK
  <1>7. \A i, j \in 1..(n - 1) : t[i] = t[j] => i = j
    <2> SUFFICES ASSUME NEW i \in 1..(n - 1), NEW j \in 1..(n - 1), t[i] = t[j] PROVE i = j
      OBVIOUS
    <2>1. i + 1 \in 1..n /\ j + 1 \in 1..n /\ free[i + 1] = free[j + 1]
      BY <1>3
    <2> QED
      BY <1>6, <2>1
  <1>8. ASSUME NEW q \in Envs
        PROVE  (\E i \in 1..(n - 1) : t[i] = q) <=> At(q, "free") /\ q # free[1]
    <2>1. ASSUME NEW i \in 1..(n - 1), t[i] = q PROVE At(q, "free") /\ q # free[1]
      <3>1. i + 1 \in 1..n /\ free[i + 1] = q /\ i + 1 # 1 /\ 1 \in 1..n
        BY <1>3, <2>1
      <3>2. q # free[1]
        BY <1>6, <3>1
      <3>3. At(q, "free")
        BY <1>1, <1>3, <3>1 DEF FreeOK
      <3> QED
        BY <3>2, <3>3
    <2>2. ASSUME At(q, "free"), q # free[1] PROVE \E i \in 1..(n - 1) : t[i] = q
      <3>1. PICK i \in 1..n : free[i] = q
        BY <1>1, <1>3, <2>2 DEF FreeOK
      <3>2. i # 1
        BY <2>2, <3>1
      <3>3. i - 1 \in 1..(n - 1) /\ (i - 1) + 1 = i
        BY <3>2
      <3> QED
        BY <1>3, <3>1, <3>3
    <2> QED
      BY <2>1, <2>2
  <1> QED
    BY <1>2, <1>3, <1>4, <1>5, <1>7, <1>8

\* What a fork does to each env.
LEMMA ForkedEnvs ==
    ASSUME TypeInv, NEW p \in Envs, NEW n, NEW e, NEW s, NEW m, Forked(p, n, e, s, m), ~At(p, "free")
    PROVE  /\ s \in Envs \ {p} /\ At(s, "free")
           /\ proc' = [q \in Envs |-> proc'[q]] /\ ends' = [q \in Envs |-> ends'[q]]
           /\ DOMAIN proc' = Envs /\ DOMAIN ends' = Envs
           /\ proc'[p] = n /\ ends'[p] = e /\ proc'[s] = m /\ ends'[s] = e
           /\ \A q \in Envs \ {p, s} : proc'[q] = proc[q] /\ ends'[q] = ends[q]
           /\ env_id' \in [Envs -> Nat] /\ env_id'[s] = env_id[s] + 1 /\ env_id[s] \in Nat
           /\ \A q \in Envs \ {s} : env_id'[q] = env_id[q]
  <1>1. s \in Envs /\ At(s, "free")
    BY FreeHead DEF Forked
  <1>2. s # p
    BY <1>1
  <1>3. GlobalOK
    BY DEF TypeInv
  <1>4. /\ env_id' \in [Envs -> Nat] /\ env_id'[s] = env_id[s] + 1 /\ env_id[s] \in Nat
        /\ \A q \in Envs \ {s} : env_id'[q] = env_id[q]
    BY <1>1, <1>3 DEF GlobalOK, Forked
  <1>5. /\ proc' = [q \in Envs |-> proc'[q]] /\ DOMAIN proc' = Envs /\ proc'[p] = n /\ proc'[s] = m
        /\ \A q \in Envs \ {p, s} : proc'[q] = proc[q]
    BY <1>1, <1>2, <1>3 DEF GlobalOK, Forked
  <1>6. /\ ends' = [q \in Envs |-> ends'[q]] /\ DOMAIN ends' = Envs /\ ends'[p] = e /\ ends'[s] = e
        /\ \A q \in Envs \ {p, s} : ends'[q] = ends[q]
    BY <1>1, <1>2, <1>3 DEF GlobalOK, Forked
  <1> QED
    BY <1>1, <1>2, <1>4, <1>5, <1>6

\* A fork keeps the types.
LEMMA ForkType ==
    ASSUME TypeInv, NEW p \in Envs, NEW n, NEW e, NEW s, NEW m, Forked(p, n, e, s, m), ~At(p, "free"),
           GlobalNext, n.at # "free", m.at # "free", ProcOK(p, n, e)', ProcOK(s, m, e)'
    PROVE  TypeInv'
  <1>1. /\ s \in Envs \ {p} /\ At(s, "free")
        /\ proc' = [q \in Envs |-> proc'[q]] /\ ends' = [q \in Envs |-> ends'[q]]
        /\ DOMAIN proc' = Envs /\ DOMAIN ends' = Envs
        /\ proc'[p] = n /\ ends'[p] = e /\ proc'[s] = m /\ ends'[s] = e
        /\ \A q \in Envs \ {p, s} : proc'[q] = proc[q] /\ ends'[q] = ends[q]
    BY ForkedEnvs
  <1>2. /\ env_id' \in [Envs -> Nat] /\ env_id'[s] = env_id[s] + 1 /\ env_id[s] \in Nat
        /\ \A q \in Envs \ {s} : env_id'[q] = env_id[q]
    BY ForkedEnvs
  <1>3. GlobalOK'
    BY <1>1, <1>2 DEF GlobalOK, GlobalNext
  <1>4. \A q \in Envs : At(q, "free")' <=> At(q, "free") /\ q # s
    BY <1>1 DEF At
  <1>5. FreeOK'
    <2>1. free # <<>> /\ s = Head(free) /\ free' = Tail(free)
      BY DEF Forked
    <2>2. /\ free' \in Seq(Envs)
          /\ \A i, j \in 1..Len(free') : free'[i] = free'[j] => i = j
          /\ \A q \in Envs : (\E i \in 1..Len(free') : free'[i] = q) <=> At(q, "free") /\ q # s
      BY <2>1, FreeHead
    <2> QED
      BY <1>4, <2>2 DEF FreeOK
  <1>6. env_id \in [Envs -> Nat] /\ \A q \in Envs : env_id[q] <= env_id'[q]
    <2>1. env_id \in [Envs -> Nat]
      BY DEF TypeInv, GlobalOK
    <2> QED
      BY <1>1, <1>2, <2>1
  <1>7. \A q \in Envs : ProcOK(q, proc[q], ends[q])'
    <2> SUFFICES ASSUME NEW q \in Envs PROVE ProcOK(q, proc[q], ends[q])'
      OBVIOUS
    <2>1. CASE q \in {p, s}
      BY <1>1, <2>1
    <2>2. CASE q \notin {p, s}
      <3>1. ProcOK(q, proc[q], ends[q])
        BY DEF TypeInv
      <3>2. PICK m2, f : m2 = proc[q] /\ f = ends[q]
        OBVIOUS
      <3>3. ProcOK(q, m2, f)'
        BY <1>2, <1>6, <3>1, <3>2, ProcKept
      <3>4. proc'[q] = m2 /\ ends'[q] = f
        BY <1>1, <2>2, <3>2
      <3> QED
        BY <3>3, <3>4
    <2> QED
      BY <2>1, <2>2
  <1> QED
    BY <1>3, <1>5, <1>7 DEF TypeInv

\* The new env is waited for by the one that made it.
LEMMA ForkTree ==
    ASSUME TypeInv, Tree, NEW p \in Envs, NEW n, NEW e, NEW s, NEW m, Forked(p, n, e, s, m), ~At(p, "free"),
           n.at # "free", m.at # "free", Keeps(p, n), Owns(n, <<s, env_id[s] + 1>>)
    PROVE  Tree'
  <1>1. /\ s \in Envs \ {p} /\ At(s, "free") /\ proc'[p] = n /\ proc'[s] = m
        /\ \A q \in Envs \ {p, s} : proc'[q] = proc[q]
        /\ env_id'[s] = env_id[s] + 1 /\ \A q \in Envs \ {s} : env_id'[q] = env_id[q]
    BY ForkedEnvs
  <1>2. /\ Living' = Living \cup {s} /\ s \notin Living /\ p \in Living
    BY <1>1 DEF Living, At
  <1>3. /\ \A q \in Envs \ {s} : Current(q)' = Current(q)
        /\ Current(s)' = <<s, env_id[s] + 1>>
    BY <1>1 DEF Current
  <1> SUFFICES ASSUME NEW S \in SUBSET ((Living \cup {s}) \ {Main}), S # {}
               PROVE  \E x \in S, q \in (Living \cup {s}) \ S : Owns(proc'[q], Current(x)')
    <2>1. \A x \in Envs : \A n2 : Owns(n2, Current(x))' <=> Owns(n2, Current(x)')
      BY DEF Owns, RightAt
    <2> QED
      BY <1>2, <2>1 DEF Tree, Living
  <1>4. CASE S \subseteq {s}
    BY <1>1, <1>2, <1>3, <1>4
  <1>5. CASE ~(S \subseteq {s})
    <2>1. PICK R : R = S \ {s} /\ R # {} /\ R \in SUBSET (Living \ {Main})
      BY <1>5
    <2>2. PICK x \in R, q \in Living \ R : Owns(proc[q], Current(x))
      BY <2>1 DEF Tree
    <2>3. x \in S /\ x \in Living /\ x # s /\ q # s /\ q \in (Living \cup {s}) \ S /\ q \in Envs /\ x \in Envs
      BY <1>2, <2>1, <2>2 DEF Living
    <2>4. Current(x)' = Current(x)
      BY <1>3, <2>3
    <2>5. Owns(proc'[q], Current(x))
      <3>1. CASE q = p
        BY <1>1, <2>2, <2>3, <3>1 DEF Keeps
      <3>2. CASE q # p
        BY <1>1, <2>2, <2>3, <3>2
      <3> QED
        BY <3>1, <3>2
    <2> QED
      BY <2>3, <2>4, <2>5
  <1> QED
    BY <1>4, <1>5

\* If the shell has ended, every env has; so a new env is never the shell.
LEMMA MainStays ==
    ASSUME TypeInv, Tree, NEW p \in Envs, ~At(p, "free")
    PROVE  ~At(Main, "free")
  <1> SUFFICES ASSUME At(Main, "free") PROVE FALSE
    OBVIOUS
  <1>1. p \in Living /\ Main \notin Living
    BY DEF Living
  <1>2. PICK s \in Living, q \in Living \ Living : TRUE
    <2>1. Living \in SUBSET (Living \ {Main}) /\ Living # {}
      BY <1>1
    <2> QED
      BY <2>1 DEF Tree
  <1> QED
    BY <1>2

\* A fork.
LEMMA ForkStep ==
    ASSUME TypeInv, NEW p \in Envs, NEW n, NEW e, NEW s, NEW m, Forked(p, n, e, s, m), ~At(p, "free"),
           GlobalNext, n.at # "free", m.at # "free", ProcOK(p, n, e)', ProcOK(s, m, e)',
           SensibleLines /\ AloneInv =>
             /\ SensibleLine(line') /\ TextOK(n) /\ TextOK(m) /\ Keeps(p, n) /\ Owns(n, <<s, env_id[s] + 1>>)
             /\ (p = Main => MainOK(n, e))
    PROVE  StepOK
  <1>1. TypeInv'
    BY ForkType
  <1>2. ASSUME SensibleLines, AloneInv PROVE AloneInv'
    <2>1. Tree'
      BY <1>2, ForkTree DEF AloneInv
    <2>2. SensibleLine(line)'
      BY <1>2 DEF SensibleLine, Sensible, CdLast, Fed
    <2>3. /\ s \in Envs \ {p} /\ At(s, "free")
          /\ proc'[p] = n /\ ends'[p] = e /\ proc'[s] = m /\ ends'[s] = e
          /\ \A q \in Envs \ {p, s} : proc'[q] = proc[q] /\ ends'[q] = ends[q]
      BY ForkedEnvs
    <2>4. \A q \in Envs : TextOK(proc[q])'
      <3>1. \A q \in Envs : TextOK(proc'[q])
        BY <1>2, <2>3 DEF AloneInv
      <3> QED
        BY <3>1 DEF TextOK
    <2>5. MainOK(proc[Main], ends[Main])'
      <3>1. Main # s
        BY <1>2, <2>3, MainStays DEF AloneInv
      <3>2. Main \in Envs
        BY ShellAssumption DEF Main, Envs
      <3>3. MainOK(proc'[Main], ends'[Main])
        BY <1>2, <2>3, <3>1, <3>2 DEF AloneInv
      <3> QED
        BY <3>3 DEF MainOK
    <2> QED
      BY <2>1, <2>2, <2>4, <2>5 DEF AloneInv
  <1> QED
    BY <1>1, <1>2 DEF StepOK

\* The references of an env are good after a fork, the new one of its parent
\* as well.
LEMMA ForkGood ==
    ASSUME TypeInv, NEW p \in Envs, NEW n, NEW e, NEW s, NEW m, Forked(p, n, e, s, m), ~At(p, "free"),
           NEW c0, c0 = <<s, env_id[s] + 1>>
    PROVE  /\ Good(p, c0)' /\ c0 \in Refs /\ c0 # NoEnv
           /\ \A c : Good(p, c) => Good(p, c)'
  <1>1. /\ s \in Envs \ {p} /\ At(s, "free")
        /\ env_id' \in [Envs -> Nat] /\ env_id'[s] = env_id[s] + 1 /\ env_id[s] \in Nat
        /\ \A q \in Envs \ {s} : env_id'[q] = env_id[q]
    BY ForkedEnvs
  <1>2. env_id \in [Envs -> Nat]
    BY DEF TypeInv, GlobalOK
  <1>3. Good(p, c0)'
    <2>1. c0[1] = s /\ c0[2] = env_id[s] + 1
      OBVIOUS
    <2>2. env_id[s] + 1 \in 1..env_id'[s]
      BY <1>1
    <2>3. c0[1] \in Envs \ {p} /\ c0[2] \in 1..env_id'[c0[1]]
      BY <1>1, <2>1, <2>2
    <2> QED
      BY <2>3 DEF Good
  <1>4. c0 \in Refs /\ c0 # NoEnv
    BY <1>1, ShellAssumption DEF Refs, NoEnv, Envs
  <1>5. ASSUME NEW c, Good(p, c) PROVE Good(p, c)'
    <2>1. c[1] \in Envs \ {p} /\ c[2] \in 1..env_id[c[1]]
      BY <1>5 DEF Good
    <2>2. env_id'[c[1]] \in Nat /\ env_id[c[1]] \in Nat /\ env_id[c[1]] <= env_id'[c[1]]
      BY <1>1, <1>2, <2>1
    <2>3. c[2] \in 1..env_id'[c[1]]
      BY <2>1, <2>2
    <2> QED
      BY <2>1, <2>3 DEF Good
  <1> QED
    BY <1>3, <1>4, <1>5

-----------------------------------------------------------------------------
(***************************************************************************)
(* Each action: parsecmd                                                   *)
(***************************************************************************)

\* The types of what an env keeps.
LEMMA Here ==
    ASSUME TypeInv, NEW p \in Envs
    PROVE  /\ proc[p] \in Procs /\ ends[p] \in Ends4 /\ ProcOK(p, proc[p], ends[p])
           /\ proc[p].tokens \in Seq(STRING) /\ proc[p].argv \in Seq(STRING)
  BY DEF TypeInv, ProcOK, Procs

\* A step that changes only proc.
LEMMA GoesLocal ==
    ASSUME TypeInv, NEW p \in Envs, NEW n, Goes(p, n)
    PROVE  Local(p, n, ends[p]) /\ GlobalNext /\ line' = line
  <1>1. ends' = [ends EXCEPT ![p] = ends[p]]
    BY DEF Goes, TypeInv, GlobalOK
  <1> QED
    BY <1>1 DEF Goes, Same, Local, GlobalNext, TypeInv, GlobalOK

\* An env that owns none may become anything.
LEMMA IdleKeeps ==
    ASSUME NEW p \in Envs, NEW n, proc[p].at \notin {"spawned", "capture", "capturing", "wait"},
           ~RightAt(proc[p]) \/ proc[p].right = NoEnv
    PROVE  Keeps(p, n)
  <1>1. \A s \in Envs : Current(s) # NoEnv
    BY DEF Current, NoEnv, Envs
  <1> QED
    BY <1>1 DEF Keeps, Owns, Living

\* Where an env owns none.
LEMMA ParseIdle ==
    ASSUME NEW p \in Envs, NEW n, proc[p].at \in {"parse", "right", "line", "quote", "captured", "prompt", "splice", "program", "exit"}
    PROVE  Keeps(p, n)
  BY IdleKeeps DEF RightAt

\* ParseEnd.
LEMMA ParseEndStep ==
    ASSUME TypeInv, NEW p \in Envs, ParseEnd(p)
    PROVE  StepOK
  <1>1. PICK o \in Procs : o = proc[p] /\ ProcOK(p, o, ends[p]) /\ o.at = "parse" /\ o.tokens = <<>>
    BY Here DEF ParseEnd, At
  <1>2. PICK n \in Procs : n = [o EXCEPT !.next = TRUE, !.flag = 0, !.at = "runcmd"]
    <2>1. "runcmd" \in Places /\ TRUE \in BOOLEAN /\ 0 \in Int
      BY DEF Places
    <2>2. [o EXCEPT !.next = TRUE, !.flag = 0, !.at = "runcmd"] \in Procs
      BY <1>1, <2>1 DEF Procs
    <2> QED
      BY <2>2
  <1>3. n.at = "runcmd" /\ n.right = o.right /\ n.argv = o.argv /\ n.home = o.home
    BY <1>1, <1>2 DEF Procs
  <1>4. Local(p, n, ends[p]) /\ GlobalNext /\ line' = line
    BY <1>1, <1>2, GoesLocal DEF ParseEnd
  <1>5. o.right = NoEnv
    BY <1>1 DEF ProcOK, NoRightAt
  <1>6. ProcOK(p, n, ends[p])
    BY <1>1, <1>3, <1>5, Here DEF ProcOK, NoRightAt
  <1>7. ASSUME SensibleLines, AloneInv
        PROVE  TextOK(n) /\ Keeps(p, n) /\ (p = Main => MainOK(n, ends[p]))
    <2>1. TextOK(n)
      BY <1>3, <1>5 DEF TextOK
    <2>2. Keeps(p, n)
      BY <1>1, ParseIdle
    <2>3. ASSUME p = Main PROVE MainOK(n, ends[p])
      <3>1. MainOK(o, ends[p])
        BY <1>1, <1>7, <2>3 DEF AloneInv
      <3>2. ~AfterSemi(o.tokens)
        BY <1>1, EmptySeq DEF AfterSemi
      <3> QED
        BY <1>1, <1>3, <3>1, <3>2 DEF MainOK
    <2> QED
      BY <2>1, <2>2, <2>3
  <1> QED
    BY <1>1, <1>3, <1>4, <1>6, <1>7, LocalStep DEF At, AloneInv

\* A word that is read is the command if none was read before.
LEMMA AppendHead ==
    ASSUME NEW S, NEW s \in Seq(S), NEW x \in S
    PROVE  /\ Append(s, x) \in Seq(S) /\ Append(s, x) # <<>>
           /\ Head(Append(s, x)) = IF s = <<>> THEN x ELSE Head(s)
  <1>1. Append(s, x) \in Seq(S) /\ Len(Append(s, x)) = Len(s) + 1 /\ Len(s) \in Nat
    OBVIOUS
  <1>2. Len(Append(s, x)) # 0
    BY <1>1
  <1>3. Append(s, x) # <<>>
    BY <1>1, <1>2, EmptyLen
  <1>4. Head(Append(s, x)) = Append(s, x)[1]
    BY <1>1, <1>3, TailSeq
  <1>5. CASE s = <<>>
    BY <1>4, <1>5
  <1>6. CASE s # <<>>
    <2>1. Len(s) # 0 /\ Head(s) = s[1]
      BY <1>6, EmptyLen, TailSeq
    <2>2. 1 \in 1..Len(s)
      BY <1>1, <2>1
    <2>3. Append(s, x)[1] = s[1]
      BY <2>2
    <2> QED
      BY <1>4, <1>6, <2>1, <2>3
  <1> QED
    BY <1>1, <1>3, <1>5, <1>6

\* ParseSkip.
LEMMA ParseSkipStep ==
    ASSUME TypeInv, NEW p \in Envs, ParseSkip(p)
    PROVE  StepOK
  <1>1. PICK o \in Procs : o = proc[p] /\ ProcOK(p, o, ends[p]) /\ o.at = "parse" /\ o.tokens # <<>> /\ o.next = FALSE
    BY Here DEF ParseSkip, At, Procs
  <1>2. PICK b \in BOOLEAN : b = Resumes(Token(p), proc[p].flag)
    BY DEF Resumes
  <1>3. Tail(o.tokens) \in Seq(STRING) /\ o.tokens \in Seq(STRING) /\ Head(o.tokens) = o.tokens[1]
    <2>1. o.tokens \in Seq(STRING)
      BY <1>1 DEF Procs
    <2> QED
      BY <1>1, <2>1, TailSeq
  <1>4. PICK n \in Procs : n = [o EXCEPT !.tokens = Tail(@), !.next = b]
    <2>1. [o EXCEPT !.tokens = Tail(@), !.next = b] \in Procs
      BY <1>1, <1>3 DEF Procs
    <2> QED
      BY <2>1
  <1>5. /\ n.at = "parse" /\ n.right = o.right /\ n.argv = o.argv /\ n.home = o.home
        /\ n.tokens = Tail(o.tokens) /\ n.next = b
    BY <1>1, <1>4 DEF Procs
  <1>6. n = [Rest(p) EXCEPT !.next = Resumes(Token(p), proc[p].flag)]
    BY <1>1, <1>2, <1>4 DEF Rest, Procs
  <1>7. Local(p, n, ends[p]) /\ GlobalNext /\ line' = line
    BY <1>6, GoesLocal DEF ParseSkip
  <1>8. ProcOK(p, n, ends[p])
    BY <1>1, <1>5, Here DEF ProcOK, NoRightAt
  <1>9. ASSUME SensibleLines, AloneInv
        PROVE  TextOK(n) /\ Keeps(p, n) /\ (p = Main => MainOK(n, ends[p]))
    <2>1. TextOK(o)
      BY <1>1, <1>9 DEF AloneInv
    <2>2. CdLast(o.tokens) /\ Fed(Needs, o.tokens, TRUE) /\ (o.argv # <<>> => Head(o.argv) # "cd")
      BY <1>1, <2>1 DEF TextOK
    <2>3. CdLast(Tail(o.tokens)) /\ Fed(Needs, Tail(o.tokens), TRUE)
      BY <1>1, <1>3, <2>2, CdLastTail, FedTail
    <2>4. b => Fed(Needs, Tail(o.tokens), o.argv # <<>> \/ ~b)
      <3>1. b => o.tokens[1] \in Breaks
        BY <1>1, <1>2, <1>3 DEF Resumes, Token, Breaks
      <3>2. b => Fed(Needs, Tail(o.tokens), FALSE)
        BY <1>1, <1>3, <2>2, <3>1, FedBreak
      <3> QED
        BY <3>2, FedMore
    <2>5. ~b => Fed(Needs, Tail(o.tokens), o.argv # <<>> \/ ~b)
      <3>1. ~b => (o.argv # <<>> \/ ~b) = TRUE
        OBVIOUS
      <3> QED
        BY <2>3, <3>1
    <2>6. TextOK(n)
      BY <1>5, <2>2, <2>3, <2>4, <2>5 DEF TextOK
    <2>7. Keeps(p, n)
      BY <1>1, ParseIdle
    <2>8. ASSUME p = Main PROVE MainOK(n, ends[p])
      <3>1. MainOK(o, ends[p])
        BY <1>1, <1>9, <2>8 DEF AloneInv
      <3>2. CdTail(o.tokens) /\ Shut(ends[p]) /\ Std(ends[p]) /\ o.home = "shell"
        BY <1>1, <3>1 DEF MainOK
      <3>3. CdTail(Tail(o.tokens))
        BY <1>1, <1>3, <3>2, CdTailTail
      <3> QED
        BY <1>5, <3>2, <3>3 DEF MainOK
    <2> QED
      BY <2>6, <2>7, <2>8
  <1> QED
    BY <1>1, <1>5, <1>7, <1>8, <1>9, LocalStep DEF At, AloneInv

\* ParseComment.
LEMMA ParseCommentStep ==
    ASSUME TypeInv, NEW p \in Envs, ParseComment(p)
    PROVE  StepOK
  <1>1. PICK o \in Procs : o = proc[p] /\ ProcOK(p, o, ends[p]) /\ o.at = "parse" /\ o.tokens # <<>> /\ Head(o.tokens) = "#"
    BY Here DEF ParseComment, Reads, Parsing, Token, At
  <1>2. PICK n \in Procs : n = [o EXCEPT !.at = "runcmd"]
    <2>1. "runcmd" \in Places
      BY DEF Places
    <2>2. [o EXCEPT !.at = "runcmd"] \in Procs
      BY <1>1, <2>1 DEF Procs
    <2> QED
      BY <2>2
  <1>3. n.at = "runcmd" /\ n.right = o.right /\ n.argv = o.argv /\ n.home = o.home
    BY <1>1, <1>2 DEF Procs
  <1>4. Local(p, n, ends[p]) /\ GlobalNext /\ line' = line
    BY <1>1, <1>2, GoesLocal DEF ParseComment
  <1>5. o.right = NoEnv
    BY <1>1 DEF ProcOK, NoRightAt
  <1>6. ProcOK(p, n, ends[p])
    BY <1>1, <1>3, <1>5, Here DEF ProcOK, NoRightAt
  <1>7. ASSUME SensibleLines, AloneInv
        PROVE  TextOK(n) /\ Keeps(p, n) /\ (p = Main => MainOK(n, ends[p]))
    <2>1. TextOK(n)
      BY <1>3, <1>5 DEF TextOK
    <2>2. Keeps(p, n)
      BY <1>1, ParseIdle
    <2>3. p # Main
      <3> SUFFICES ASSUME p = Main PROVE FALSE
        OBVIOUS
      <3>1. MainOK(o, ends[p])
        BY <1>1, <1>7 DEF AloneInv
      <3>2. CdTail(o.tokens)
        BY <1>1, <3>1 DEF MainOK
      <3>3. o.tokens \in Seq(STRING)
        BY <1>1 DEF Procs
      <3>4. o.tokens[1] = "#" /\ 1 \in 1..Len(o.tokens)
        BY <1>1, <3>3, TailSeq
      <3> QED
        BY <3>2, <3>4 DEF CdTail
    <2> QED
      BY <2>1, <2>2, <2>3
  <1> QED
    BY <1>1, <1>3, <1>4, <1>6, <1>7, LocalStep DEF At, AloneInv

\* What reading a word as part of the command leaves.
LEMMA WordText ==
    ASSUME NEW o \in Procs, TextOK(o), o.at = "parse", o.tokens # <<>>, NEW n \in Procs, NEW w \in STRING,
           n.at = "parse", n.argv = Append(o.argv, w), w = "cd" => n.tokens = <<>>,
           CdLast(n.tokens), Fed(Needs, n.tokens, TRUE)
    PROVE  TextOK(n)
  <1>1. o.argv \in Seq(STRING)
    BY DEF Procs
  <1>2. n.argv # <<>> /\ Head(n.argv) = IF o.argv = <<>> THEN w ELSE Head(o.argv)
    BY <1>1, AppendHead
  <1>3. (n.argv # <<>> \/ ~n.next) = TRUE
    BY <1>2
  <1>4. n.tokens # <<>> => Head(n.argv) # "cd"
    BY <1>2 DEF TextOK
  <1> QED
    BY <1>2, <1>3, <1>4 DEF TextOK

\* ParseWord.
LEMMA ParseWordStep ==
    ASSUME TypeInv, NEW p \in Envs, ParseWord(p)
    PROVE  StepOK
  <1>1. PICK o \in Procs : /\ o = proc[p] /\ ProcOK(p, o, ends[p]) /\ o.at = "parse" /\ o.tokens # <<>>
                           /\ o.next /\ Head(o.tokens) \notin Symbols
    BY Here DEF ParseWord, Parsing, Token, At
  <1>2. /\ Tail(o.tokens) \in Seq(STRING) /\ o.tokens \in Seq(STRING) /\ o.argv \in Seq(STRING)
        /\ Head(o.tokens) = o.tokens[1] /\ Head(o.tokens) \in STRING
    <2>1. o.tokens \in Seq(STRING) /\ o.argv \in Seq(STRING)
      BY <1>1 DEF Procs
    <2> QED
      BY <1>1, <2>1, TailSeq
  <1>3. PICK n \in Procs : n = [o EXCEPT !.tokens = Tail(@), !.argv = Append(@, Head(o.tokens))]
    <2>1. Append(o.argv, Head(o.tokens)) \in Seq(STRING)
      BY <1>2
    <2>2. [o EXCEPT !.tokens = Tail(@), !.argv = Append(@, Head(o.tokens))] \in Procs
      BY <1>1, <1>2, <2>1 DEF Procs
    <2> QED
      BY <2>2
  <1>4. /\ n.at = "parse" /\ n.right = o.right /\ n.argv = Append(o.argv, Head(o.tokens)) /\ n.home = o.home
        /\ n.tokens = Tail(o.tokens) /\ n.next = o.next
    BY <1>1, <1>3 DEF Procs
  <1>5. n = [Rest(p) EXCEPT !.argv = Append(@, Token(p))]
    BY <1>1, <1>3 DEF Rest, Procs, Token
  <1>6. Local(p, n, ends[p]) /\ GlobalNext /\ line' = line
    BY <1>5, GoesLocal DEF ParseWord
  <1>7. ProcOK(p, n, ends[p])
    BY <1>1, <1>4, Here DEF ProcOK, NoRightAt
  <1>8. ASSUME SensibleLines, AloneInv
        PROVE  TextOK(n) /\ Keeps(p, n) /\ (p = Main => MainOK(n, ends[p]))
    <2>1. TextOK(o)
      BY <1>1, <1>8 DEF AloneInv
    <2>2. PICK b \in BOOLEAN : b = (o.argv # <<>> \/ ~o.next)
      OBVIOUS
    <2>3. CdLast(o.tokens) /\ Fed(Needs, o.tokens, b)
      BY <1>1, <2>1, <2>2 DEF TextOK
    <2>4. CdLast(Tail(o.tokens)) /\ Fed(Needs, Tail(o.tokens), TRUE) /\ (Tail(o.tokens) # <<>> => Head(o.tokens) # "cd")
      BY <1>1, <1>2, <2>3, CdLastTail, FedTail
    <2>5. TextOK(n)
      BY <1>1, <1>2, <1>4, <2>1, <2>4, WordText
    <2>6. Keeps(p, n)
      BY <1>1, ParseIdle
    <2>7. ASSUME p = Main PROVE MainOK(n, ends[p])
      <3>1. MainOK(o, ends[p])
        BY <1>1, <1>8, <2>7 DEF AloneInv
      <3>2. CdTail(o.tokens) /\ Shut(ends[p]) /\ (Std(ends[p]) \/ AfterSemi(o.tokens)) /\ o.home = "shell"
        BY <1>1, <3>1 DEF MainOK
      <3>3. o.tokens[1] # ";"
        BY <1>1, <1>2 DEF Symbols
      <3>4. CdTail(Tail(o.tokens)) /\ (AfterSemi(o.tokens) => AfterSemi(Tail(o.tokens)))
        BY <1>1, <1>2, <3>2, <3>3, CdTailTail
      <3> QED
        BY <1>1, <1>4, <3>2, <3>4 DEF MainOK
    <2> QED
      BY <2>5, <2>6, <2>7
  <1> QED
    BY <1>1, <1>4, <1>6, <1>7, <1>8, LocalStep DEF At, AloneInv

\* An env that owns none may exit.
LEMMA ExitStep ==
    ASSUME TypeInv, NEW p \in Envs, NEW o \in Procs, o = proc[p], o.at # "free",
           SensibleLines /\ AloneInv => \A m : Keeps(p, m),
           NEW n \in Procs, n.at = "exit", n.right = o.right, n.home = o.home,
           Local(p, n, ends[p]), GlobalNext, line' = line
    PROVE  StepOK
  <1>1. ProcOK(p, o, ends[p])
    BY Here
  <1>2. ProcOK(p, n, ends[p])
    BY <1>1, Here DEF ProcOK, NoRightAt
  <1>3. ASSUME SensibleLines, AloneInv
        PROVE  TextOK(n) /\ Keeps(p, n) /\ (p = Main => MainOK(n, ends[p]))
    <2>1. TextOK(n)
      BY DEF TextOK
    <2>2. p = Main => o.home = "shell"
      BY <1>3 DEF AloneInv, MainOK
    <2>3. p = Main => MainOK(n, ends[p])
      BY <2>2 DEF MainOK
    <2> QED
      BY <1>3, <2>1, <2>3
  <1> QED
    BY <1>2, <1>3, LocalStep DEF At, AloneInv

\* An env that exits after a token was read.
ExitAfter(o, v, k) == [o EXCEPT !.tokens = v, !.at = "exit", !.r = k]

\* What such an env keeps.
LEMMA ExitRecord ==
    ASSUME NEW o \in Procs, NEW v \in Seq(STRING), NEW k \in Int
    PROVE  /\ ExitAfter(o, v, k) \in Procs /\ ExitAfter(o, v, k).at = "exit"
           /\ ExitAfter(o, v, k).right = o.right /\ ExitAfter(o, v, k).home = o.home
  <1>1. "exit" \in Places
    BY DEF Places
  <1>2. PICK n : n = ExitAfter(o, v, k)
    OBVIOUS
  <1>3. n \in Procs
    BY <1>1, <1>2 DEF Procs, ExitAfter
  <1>4. n.at = "exit" /\ n.right = o.right /\ n.home = o.home
    BY <1>2 DEF Procs, ExitAfter
  <1> QED
    BY <1>2, <1>3, <1>4

\* The tokens behind the first and the second.
LEMMA SecondToken ==
    ASSUME NEW t \in Seq(STRING), Len(t) >= 2
    PROVE  \E v \in Seq(STRING) : /\ v = Tail(t) /\ v # <<>> /\ v[1] = t[2] /\ Tail(v) \in Seq(STRING)
                                  /\ Tail(v) = Tail(Tail(t))
  <1>1. PICK k \in Nat : k = Len(t) /\ k >= 2
    BY EmptyLen
  <1>2. t # <<>>
    BY <1>1, EmptyLen
  <1>3. PICK v \in Seq(STRING) : /\ v = Tail(t) /\ Len(v) = Len(t) - 1
                                 /\ \A i \in 1..(Len(t) - 1) : v[i] = t[i + 1]
    BY <1>2, TailOf
  <1>4. Len(v) = k - 1 /\ 1 \in 1..(k - 1) /\ k - 1 # 0
    BY <1>1, <1>3
  <1>5. v # <<>> /\ v[1] = t[1 + 1]
    BY <1>1, <1>3, <1>4, EmptyLen
  <1>6. Tail(v) \in Seq(STRING)
    BY <1>5, TailSeq
  <1>7. Tail(v) = Tail(Tail(t))
    BY <1>3
  <1>8. v[1] = t[2]
    BY <1>5
  <1> QED
    BY <1>3, <1>5, <1>6, <1>7, <1>8, Zenon

\* ParseVar: exit(1), or the word that the variable stands for.
LEMMA ParseVarStep ==
    ASSUME TypeInv, NEW p \in Envs, ParseVar(p)
    PROVE  StepOK
  <1>1. PICK o \in Procs : /\ o = proc[p] /\ ProcOK(p, o, ends[p]) /\ o.at = "parse" /\ o.tokens # <<>>
                           /\ o.next /\ Head(o.tokens) = "$"
    BY Here DEF ParseVar, Reads, Parsing, Token, At
  <1>2. /\ Tail(o.tokens) \in Seq(STRING) /\ o.tokens \in Seq(STRING) /\ o.argv \in Seq(STRING)
        /\ Head(o.tokens) = o.tokens[1] /\ Head(o.tokens) \in STRING
    <2>1. o.tokens \in Seq(STRING) /\ o.argv \in Seq(STRING)
      BY <1>1 DEF Procs
    <2> QED
      BY <1>1, <2>1, TailSeq
  <1> DEFINE Set == WordFollows(p) /\ proc[p].tokens[2] \in DOMAIN Vars
  <1>3. CASE ~Set
    <2>1. PICK v \in Seq(STRING) : v = Tail(o.tokens)
      BY <1>2
    <2>2. PICK n \in Procs : n = ExitAfter(o, v, 1) /\ n.at = "exit" /\ n.right = o.right /\ n.home = o.home
      BY ExitRecord
    <2>3. n = Exits(Rest(p), 1)
      BY <1>1, <2>1, <2>2 DEF Rest, Procs, Exits, ExitAfter
    <2>4. Local(p, n, ends[p]) /\ GlobalNext /\ line' = line
      BY <1>3, <2>3, GoesLocal DEF ParseVar
    <2>5. \A m : Keeps(p, m)
      BY <1>1, ParseIdle
    <2> QED
      BY <1>1, <2>2, <2>4, <2>5, ExitStep
  <1>4. CASE Set
    <2>1. Len(o.tokens) >= 2 /\ o.tokens[2] \notin Symbols /\ o.tokens[2] \in DOMAIN Vars
      BY <1>1, <1>4 DEF WordFollows
    <2>2. PICK w \in STRING : w = Vars[o.tokens[2]]
      BY <2>1, ShellAssumption
    <2>3. PICK t \in Seq(STRING) : t = o.tokens /\ Len(t) >= 2
      BY <1>2, <2>1
    <2>4. PICK v \in Seq(STRING) : /\ v = Tail(t) /\ v # <<>> /\ v[1] = t[2] /\ Tail(v) \in Seq(STRING)
                                   /\ Tail(v) = Tail(Tail(t))
      BY <2>3, SecondToken
    <2>5. v = Tail(o.tokens) /\ v[1] = o.tokens[2] /\ v # <<>> /\ Tail(v) \in Seq(STRING)
      BY <2>3, <2>4
    <2>6. PICK n \in Procs : n = [o EXCEPT !.tokens = Tail(v), !.argv = Append(@, w)]
      <3>1. Append(o.argv, w) \in Seq(STRING)
        BY <1>2, <2>2
      <3>2. [o EXCEPT !.tokens = Tail(v), !.argv = Append(@, w)] \in Procs
        BY <1>1, <2>5, <3>1 DEF Procs
      <3> QED
        BY <3>2
    <2>7. /\ n.at = "parse" /\ n.right = o.right /\ n.argv = Append(o.argv, w) /\ n.home = o.home
          /\ n.tokens = Tail(v) /\ n.next = o.next
      BY <1>1, <2>6 DEF Procs
    <2>8. n = [Rest2(p) EXCEPT !.argv = Append(@, Vars[proc[p].tokens[2]])]
      BY <1>1, <2>2, <2>5, <2>6 DEF Rest2, Procs
    <2>9. Local(p, n, ends[p]) /\ GlobalNext /\ line' = line
      BY <1>4, <2>8, GoesLocal DEF ParseVar
    <2>10. ProcOK(p, n, ends[p])
      BY <1>1, <2>7, Here DEF ProcOK, NoRightAt
    <2>11. ASSUME SensibleLines, AloneInv
           PROVE  TextOK(n) /\ Keeps(p, n) /\ (p = Main => MainOK(n, ends[p]))
      <3>1. TextOK(o)
        BY <1>1, <2>11 DEF AloneInv
      <3>2. PICK b \in BOOLEAN : b = (o.argv # <<>> \/ ~o.next)
        OBVIOUS
      <3>3. CdLast(o.tokens) /\ Fed(Needs, o.tokens, b)
        BY <1>1, <3>1, <3>2 DEF TextOK
      <3>4. CdLast(v) /\ Fed(Needs, v, TRUE)
        BY <1>1, <1>2, <2>5, <3>3, CdLastTail, FedTail
      <3>5. CdLast(Tail(v)) /\ Fed(Needs, Tail(v), TRUE)
        BY <2>5, <3>4, CdLastTail, FedTail
      <3>6. w # "cd"
        BY <2>1, <2>2, <2>11 DEF AloneInv, SensibleLine, Whole, Sensible
      <3>7. TextOK(n)
        BY <1>1, <2>2, <2>7, <3>1, <3>5, <3>6, WordText
      <3>8. Keeps(p, n)
        BY <1>1, ParseIdle
      <3>9. ASSUME p = Main PROVE MainOK(n, ends[p])
        <4>1. MainOK(o, ends[p])
          BY <1>1, <2>11, <3>9 DEF AloneInv
        <4>2. CdTail(o.tokens) /\ Shut(ends[p]) /\ (Std(ends[p]) \/ AfterSemi(o.tokens)) /\ o.home = "shell"
          BY <1>1, <4>1 DEF MainOK
        <4>3. o.tokens[1] # ";" /\ v[1] # ";"
          BY <1>1, <1>2, <2>1, <2>5 DEF Symbols
        <4>4. CdTail(v) /\ (AfterSemi(o.tokens) => AfterSemi(v))
          BY <1>1, <1>2, <2>5, <4>2, <4>3, CdTailTail
        <4>5. CdTail(Tail(v)) /\ (AfterSemi(v) => AfterSemi(Tail(v)))
          BY <2>5, <4>3, <4>4, CdTailTail
        <4> QED
          BY <1>1, <2>7, <4>2, <4>4, <4>5 DEF MainOK
      <3> QED
        BY <3>7, <3>8, <3>9
    <2> QED
      BY <1>1, <2>7, <2>9, <2>10, <2>11, LocalStep DEF At, AloneInv
  <1> QED
    BY <1>3, <1>4

\* What an end can be.
LEMMA EndTypes ==
    Console \in EndType /\ File \in EndType /\ Closed \in EndType /\ NoEnds \in Ends4
  <1>1. Console \in EndType /\ File \in EndType /\ Closed \in EndType
    BY DEF EndType
  <1> QED
    BY <1>1 DEF NoEnds, Ends4

\* A step that changes proc and the ends of one env.
LEMMA EndsLocal ==
    ASSUME TypeInv, NEW p \in Envs, NEW n, NEW e, proc' = [proc EXCEPT ![p] = n], ends' = [ends EXCEPT ![p] = e],
           UNCHANGED data, Same
    PROVE  Local(p, n, e) /\ GlobalNext /\ line' = line
  BY DEF Same, Local, GlobalNext, TypeInv, GlobalOK

\* ParseRedirect: exit(1), or a file in the place of descriptor 0 or 1.
LEMMA ParseRedirectStep ==
    ASSUME TypeInv, NEW p \in Envs, ParseRedirect(p)
    PROVE  StepOK
  <1>0. PICK token \in {"<", ">"}, found \in BOOLEAN :
      /\ Reads(p, token)
      /\ IF WordFollows(p) /\ found
         THEN /\ proc' = [proc EXCEPT ![p] = Rest2(p)]
              /\ ends' = [ends EXCEPT ![p][IF token = "<" THEN 0 ELSE 1] = File]
         ELSE proc' = [proc EXCEPT ![p] = Exits(Rest(p), 1)] /\ UNCHANGED ends
      /\ UNCHANGED data /\ Same
    BY DEF ParseRedirect
  <1>1. PICK o \in Procs : /\ o = proc[p] /\ ProcOK(p, o, ends[p]) /\ o.at = "parse" /\ o.tokens # <<>>
                           /\ o.next /\ Head(o.tokens) = token
    BY <1>0, Here DEF Reads, Parsing, Token, At
  <1>2. /\ Tail(o.tokens) \in Seq(STRING) /\ o.tokens \in Seq(STRING) /\ o.argv \in Seq(STRING)
        /\ Head(o.tokens) = o.tokens[1] /\ Head(o.tokens) \in STRING
    <2>1. o.tokens \in Seq(STRING) /\ o.argv \in Seq(STRING)
      BY <1>1 DEF Procs
    <2> QED
      BY <1>1, <2>1, TailSeq
  <1>3. CASE ~(WordFollows(p) /\ found)
    <2>1. PICK v \in Seq(STRING) : v = Tail(o.tokens)
      BY <1>2
    <2>2. PICK n \in Procs : n = ExitAfter(o, v, 1) /\ n.at = "exit" /\ n.right = o.right /\ n.home = o.home
      BY ExitRecord
    <2>3. n = Exits(Rest(p), 1)
      BY <1>1, <2>1, <2>2 DEF Rest, Procs, Exits, ExitAfter
    <2>4. Goes(p, n)
      BY <1>0, <1>3, <2>3 DEF Goes
    <2>5. Local(p, n, ends[p]) /\ GlobalNext /\ line' = line
      BY <2>4, GoesLocal
    <2>6. \A m : Keeps(p, m)
      BY <1>1, ParseIdle
    <2> QED
      BY <1>1, <2>2, <2>5, <2>6, ExitStep
  <1>4. CASE WordFollows(p) /\ found
    <2>1. Len(o.tokens) >= 2 /\ o.tokens[2] \notin Symbols
      BY <1>1, <1>4 DEF WordFollows
    <2>3. PICK t \in Seq(STRING) : t = o.tokens /\ Len(t) >= 2
      BY <1>2, <2>1
    <2>4. PICK v \in Seq(STRING) : /\ v = Tail(t) /\ v # <<>> /\ v[1] = t[2] /\ Tail(v) \in Seq(STRING)
                                   /\ Tail(v) = Tail(Tail(t))
      BY <2>3, SecondToken
    <2>5. v = Tail(o.tokens) /\ v[1] = o.tokens[2] /\ v # <<>> /\ Tail(v) \in Seq(STRING)
      BY <2>3, <2>4
    <2>6. PICK n \in Procs : n = [o EXCEPT !.tokens = Tail(v)]
      <3>1. [o EXCEPT !.tokens = Tail(v)] \in Procs
        BY <1>1, <2>5 DEF Procs
      <3> QED
        BY <3>1
    <2>7. /\ n.at = "parse" /\ n.right = o.right /\ n.argv = o.argv /\ n.home = o.home
          /\ n.tokens = Tail(v) /\ n.next = o.next
      BY <1>1, <2>6 DEF Procs
    <2>8. n = Rest2(p)
      BY <1>1, <2>5, <2>6 DEF Rest2
    <2>9. PICK d \in {0, 1} : d = IF token = "<" THEN 0 ELSE 1
      OBVIOUS
    <2>10. PICK e \in Ends4 : e = [ends[p] EXCEPT ![d] = File]
      <3>1. [ends[p] EXCEPT ![d] = File] \in Ends4
        BY Here, EndTypes DEF Ends4
      <3> QED
        BY <3>1
    <2>11. ends' = [ends EXCEPT ![p] = e]
      BY <1>0, <1>4, <2>9, <2>10
    <2>12. Local(p, n, e) /\ GlobalNext /\ line' = line
      BY <1>0, <1>4, <2>8, <2>11, EndsLocal
    <2>13. ProcOK(p, n, e)
      BY <1>1, <2>7, <2>10, Here DEF ProcOK, NoRightAt
    <2>14. ASSUME SensibleLines, AloneInv
           PROVE  TextOK(n) /\ Keeps(p, n) /\ (p = Main => MainOK(n, e))
      <3>1. TextOK(o)
        BY <1>1, <2>14 DEF AloneInv
      <3>2. PICK b \in BOOLEAN : b = (o.argv # <<>> \/ ~o.next)
        OBVIOUS
      <3>3. CdLast(o.tokens) /\ Fed(Needs, o.tokens, b)
        BY <1>1, <3>1, <3>2 DEF TextOK
      <3>4. CdLast(v) /\ Fed(Needs, Tail(v), b)
        BY <1>1, <1>2, <2>1, <2>5, <3>3, CdLastTail, FedRedirect
      <3>5. CdLast(Tail(v))
        BY <2>5, <3>4, CdLastTail
      <3>6. TextOK(n)
        BY <1>1, <2>7, <3>1, <3>2, <3>4, <3>5 DEF TextOK
      <3>7. Keeps(p, n)
        BY <1>1, ParseIdle
      <3>8. ASSUME p = Main PROVE MainOK(n, e)
        <4>1. MainOK(o, ends[p])
          BY <1>1, <2>14, <3>8 DEF AloneInv
        <4>2. CdTail(o.tokens) /\ Shut(ends[p]) /\ o.home = "shell"
          BY <1>1, <4>1 DEF MainOK
        <4>3. o.tokens[1] # ";" /\ v[1] # ";" /\ o.tokens[1] # "cd"
          BY <1>1, <1>2, <2>1, <2>5 DEF Symbols
        <4>4. CdTail(v) /\ (AfterSemi(o.tokens) => AfterSemi(v))
          BY <1>1, <1>2, <2>5, <4>2, <4>3, CdTailTail
        <4>5. CdTail(Tail(v)) /\ (AfterSemi(v) => AfterSemi(Tail(v)))
          BY <2>5, <4>3, <4>4, CdTailTail
        <4>6. AfterSemi(o.tokens)
          BY <2>1, <4>2 DEF CdTail
        <4>7. Shut(e)
          BY <2>9, <2>10, <4>2, Here DEF Shut, Ends4
        <4> QED
          BY <1>1, <2>7, <4>2, <4>4, <4>5, <4>6, <4>7 DEF MainOK
      <3> QED
        BY <3>6, <3>7, <3>8
    <2> QED
      BY <1>1, <2>7, <2>12, <2>13, <2>14, LocalStep DEF At, AloneInv
  <1> QED
    BY <1>3, <1>4

\* What wait returns is a number.
LEMMA WaitType ==
    ASSUME TypeInv, NEW c, c[1] \in Envs
    PROVE  sys_wait(c) \in Int
  BY DEF sys_wait, TypeInv, GlobalOK

\* An env in the list ops' wait and reap waits for an env.
LEMMA ReapGood ==
    ASSUME TypeInv, NEW p \in Envs, proc[p].at \in {"wait", "reap"}
    PROVE  proc[p].child[1] \in Envs \ {p} /\ sys_wait(proc[p].child) \in Int
  <1>1. Good(p, proc[p].child)
    BY Here DEF ProcOK
  <1>2. proc[p].child[1] \in Envs \ {p}
    BY <1>1 DEF Good
  <1> QED
    BY <1>2, WaitType


\* ReapList: the result decides, and the console is back.
LEMMA ReapListStep ==
    ASSUME TypeInv, NEW p \in Envs, ReapList(p)
    PROVE  StepOK
  <1>1. PICK o \in Procs : o = proc[p] /\ ProcOK(p, o, ends[p]) /\ o.at = "reap" /\ o.after \in ListOps
    BY Here DEF ReapList, At, ListOps
  <1>2. PICK r \in Int : r = sys_wait(proc[p].child)
    BY <1>1, ReapGood
  <1>3. PICK f \in Int : f = IF o.after = ";" THEN o.flag ELSE r
    BY <1>1 DEF Procs
  <1>4. PICK b \in BOOLEAN : b = CASE o.after = ";" -> o.next [] o.after = "a" -> r = 0 [] o.after = "o" -> r # 0
    BY <1>1 DEF Procs, ListOps
  <1>5. PICK n \in Procs : n = [o EXCEPT !.at = "parse", !.argv = <<>>, !.flag = f, !.next = b]
    <2>1. "parse" \in Places /\ <<>> \in Seq(STRING)
      BY DEF Places
    <2>2. [o EXCEPT !.at = "parse", !.argv = <<>>, !.flag = f, !.next = b] \in Procs
      BY <1>1, <2>1 DEF Procs
    <2> QED
      BY <2>2
  <1>6. /\ n.at = "parse" /\ n.right = o.right /\ n.argv = <<>> /\ n.home = o.home
        /\ n.tokens = o.tokens /\ n.next = b
    BY <1>1, <1>5 DEF Procs
  <1>7. PICK e \in Ends4 : e = [ends[p] EXCEPT ![0] = Console, ![1] = Console]
    <2>1. [ends[p] EXCEPT ![0] = Console, ![1] = Console] \in Ends4
      BY Here, EndTypes DEF Ends4
    <2> QED
      BY <2>1
  <1>8. e[0] = Console /\ e[1] = Console /\ e[2] = ends[p][2] /\ e[3] = ends[p][3]
    BY <1>7, Here DEF Ends4
  <1>9. DOMAIN proc = Envs /\ proc = [q \in Envs |-> proc[q]] /\ DOMAIN ends = Envs /\ ends = [q \in Envs |-> ends[q]]
    BY DEF TypeInv, GlobalOK
  <1>10. proc' = [proc EXCEPT ![p] = n]
    <2>1. proc' = [proc EXCEPT ![p].at = "parse", ![p].argv = <<>>, ![p].flag = f, ![p].next = b]
      BY <1>1, <1>2, <1>3, <1>4 DEF ReapList
    <2> QED
      BY <1>1, <1>5, <1>9, <2>1
  <1>11. ends' = [ends EXCEPT ![p] = e]
    <2>1. ends' = [ends EXCEPT ![p][0] = Console, ![p][1] = Console]
      BY DEF ReapList
    <2> QED
      BY <1>7, <1>9, <2>1
  <1>12. Local(p, n, e) /\ GlobalNext /\ line' = line
    BY <1>10, <1>11, EndsLocal DEF ReapList
  <1>13. o.right = NoEnv
    BY <1>1 DEF ProcOK
  <1>14. ProcOK(p, n, e)
    BY <1>1, <1>6, <1>13 DEF ProcOK, NoRightAt
  <1>15. ASSUME SensibleLines, AloneInv
         PROVE  TextOK(n) /\ Keeps(p, n) /\ (p = Main => MainOK(n, e))
    <2>1. TextOK(o)
      BY <1>1, <1>15 DEF AloneInv
    <2>2. CdLast(o.tokens) /\ Fed(Needs, o.tokens, FALSE)
      BY <1>1, <2>1 DEF TextOK
    <2>3. Fed(Needs, o.tokens, ~b)
      BY <2>2, FedMore
    <2>4. (n.argv # <<>> \/ ~n.next) = ~b
      BY <1>6
    <2>5. TextOK(n)
      BY <1>6, <2>2, <2>3, <2>4 DEF TextOK
    <2>6. Keeps(p, n)
      BY <1>1, <1>13, IdleKeeps
    <2>7. ASSUME p = Main PROVE MainOK(n, e)
      <3>1. MainOK(o, ends[p])
        BY <1>1, <1>15, <2>7 DEF AloneInv
      <3>2. CdTail(o.tokens) /\ Shut(ends[p]) /\ o.home = "shell"
        BY <1>1, <3>1 DEF MainOK
      <3> QED
        BY <1>6, <1>8, <3>2 DEF MainOK, Std, Shut
    <2> QED
      BY <2>5, <2>6, <2>7
  <1> QED
    BY <1>1, <1>6, <1>12, <1>14, <1>15, LocalStep DEF At, AloneInv

\* PipeRight: the child reads the rest of the line, and the pipe.
LEMMA PipeRightStep ==
    ASSUME TypeInv, NEW p \in Envs, PipeRight(p)
    PROVE  StepOK
  <1>1. PICK o \in Procs : o = proc[p] /\ ProcOK(p, o, ends[p]) /\ o.at = "right"
    BY Here DEF PipeRight, At
  <1>2. PICK n \in Procs : n = [o EXCEPT !.at = "parse", !.argv = <<>>]
    <2>1. "parse" \in Places /\ <<>> \in Seq(STRING)
      BY DEF Places
    <2>2. [o EXCEPT !.at = "parse", !.argv = <<>>] \in Procs
      BY <1>1, <2>1 DEF Procs
    <2> QED
      BY <2>2
  <1>3. /\ n.at = "parse" /\ n.right = o.right /\ n.argv = <<>> /\ n.home = o.home
        /\ n.tokens = o.tokens /\ n.next = o.next /\ n.next \in BOOLEAN
    BY <1>1, <1>2 DEF Procs
  <1>4. PICK e \in Ends4 : e = Reading(ends[p])
    <2>1. Reading(ends[p]) \in Ends4
      BY Here, EndTypes DEF Ends4, Reading
    <2> QED
      BY <2>1
  <1>5. DOMAIN proc = Envs /\ proc = [q \in Envs |-> proc[q]] /\ DOMAIN ends = Envs /\ ends = [q \in Envs |-> ends[q]]
    BY DEF TypeInv, GlobalOK
  <1>6. proc' = [proc EXCEPT ![p] = n]
    <2>1. proc' = [proc EXCEPT ![p].at = "parse", ![p].argv = <<>>]
      BY DEF PipeRight
    <2> QED
      BY <1>1, <1>2, <1>5, <2>1
  <1>7. ends' = [ends EXCEPT ![p] = e]
    BY <1>4 DEF PipeRight
  <1>8. Local(p, n, e) /\ GlobalNext /\ line' = line
    BY <1>6, <1>7, EndsLocal DEF PipeRight
  <1>9. ProcOK(p, n, e)
    BY <1>1, <1>3 DEF ProcOK, NoRightAt
  <1>10. ASSUME SensibleLines, AloneInv
         PROVE  TextOK(n) /\ Keeps(p, n) /\ p # Main
    <2>1. TextOK(o)
      BY <1>1, <1>10 DEF AloneInv
    <2>2. CdLast(o.tokens) /\ Fed(Needs, o.tokens, FALSE)
      BY <1>1, <2>1 DEF TextOK
    <2>3. PICK b \in BOOLEAN : b = (n.argv # <<>> \/ ~n.next)
      OBVIOUS
    <2>4. Fed(Needs, n.tokens, b)
      BY <1>3, <2>2, FedMore
    <2>5. TextOK(n)
      BY <1>3, <2>2, <2>3, <2>4 DEF TextOK
    <2>6. Keeps(p, n)
      BY <1>1, ParseIdle
    <2>7. p # Main
      BY <1>1, <1>10 DEF AloneInv, MainOK
    <2> QED
      BY <2>5, <2>6, <2>7
  <1> QED
    BY <1>1, <1>3, <1>8, <1>9, <1>10, LocalStep DEF At, AloneInv

\* PipeLeft: the parent runs what is on the left.
LEMMA PipeLeftStep ==
    ASSUME TypeInv, NEW p \in Envs, PipeLeft(p)
    PROVE  StepOK
  <1>1. PICK o \in Procs : o = proc[p] /\ ProcOK(p, o, ends[p]) /\ o.at = "left"
    BY Here DEF PipeLeft, At
  <1>2. PICK n \in Procs : n = [o EXCEPT !.at = "runcmd"]
    <2>1. "runcmd" \in Places
      BY DEF Places
    <2>2. [o EXCEPT !.at = "runcmd"] \in Procs
      BY <1>1, <2>1 DEF Procs
    <2> QED
      BY <2>2
  <1>3. n.at = "runcmd" /\ n.right = o.right /\ n.argv = o.argv /\ n.home = o.home /\ n.child = o.child
    BY <1>1, <1>2 DEF Procs
  <1>4. PICK e \in Ends4 : e = Writing(ends[p])
    <2>1. Writing(ends[p]) \in Ends4
      BY Here, EndTypes DEF Ends4, Writing
    <2> QED
      BY <2>1
  <1>5. DOMAIN proc = Envs /\ proc = [q \in Envs |-> proc[q]] /\ DOMAIN ends = Envs /\ ends = [q \in Envs |-> ends[q]]
    BY DEF TypeInv, GlobalOK
  <1>6. proc' = [proc EXCEPT ![p] = n]
    BY <1>1, <1>2, <1>5 DEF PipeLeft
  <1>7. ends' = [ends EXCEPT ![p] = e]
    BY <1>4 DEF PipeLeft
  <1>8. Local(p, n, e) /\ GlobalNext /\ line' = line
    BY <1>6, <1>7, EndsLocal DEF PipeLeft
  <1>9. ProcOK(p, n, e)
    BY <1>1, <1>3 DEF ProcOK, NoRightAt
  <1>10. ASSUME SensibleLines, AloneInv
         PROVE  TextOK(n) /\ Keeps(p, n) /\ (p = Main => MainOK(n, e))
    <2>1. TextOK(o)
      BY <1>1, <1>10 DEF AloneInv
    <2>2. TextOK(n)
      BY <1>1, <1>3, <2>1 DEF TextOK
    <2>3. Keeps(p, n)
      BY <1>1, <1>3 DEF Keeps, Owns, RightAt
    <2>4. ASSUME p = Main PROVE MainOK(n, e)
      <3>1. MainOK(o, ends[p])
        BY <1>1, <1>10, <2>4 DEF AloneInv
      <3>2. o.right # NoEnv /\ o.home = "shell"
        BY <1>1, <3>1 DEF MainOK
      <3> QED
        BY <1>3, <3>2 DEF MainOK
    <2> QED
      BY <2>2, <2>3, <2>4
  <1> QED
    BY <1>1, <1>3, <1>8, <1>9, <1>10, LocalStep DEF At, AloneInv

\* A new pipe has two ends of its own.
LEMMA PipeMade ==
    ASSUME TypeInv, NEW p \in Envs, UnusedPipes # {}
    PROVE  /\ Min(UnusedPipes) \in 1..NPIPES
           /\ [ends[p] EXCEPT ![2] = <<Min(UnusedPipes), "r">>, ![3] = <<Min(UnusedPipes), "w">>] \in Ends4
           /\ [data EXCEPT ![Min(UnusedPipes)] = 0] \in [0..NPIPES -> 0..PIPE_SIZE]
  <1>1. UnusedPipes \subseteq 1..NPIPES /\ UnusedPipes \subseteq Nat
    BY ShellAssumption DEF UnusedPipes
  <1>2. PICK q \in 1..NPIPES : q = Min(UnusedPipes)
    BY <1>1, MinIsMember
  <1>3. <<q, "r">> \in EndType /\ <<q, "w">> \in EndType
    BY DEF EndType
  <1>4. [ends[p] EXCEPT ![2] = <<q, "r">>, ![3] = <<q, "w">>] \in Ends4
    BY <1>3, Here DEF Ends4
  <1>5. data \in [0..NPIPES -> 0..PIPE_SIZE] /\ 0 \in 0..PIPE_SIZE
    BY ShellAssumption DEF TypeInv, GlobalOK
  <1> QED
    BY <1>2, <1>4, <1>5

\* ParseList: the child runs what was read, the parent waits and goes on.
LEMMA ParseListStep ==
    ASSUME TypeInv, NEW p \in Envs, ParseList(p)
    PROVE  StepOK
  <1>1. PICK op \in ListOps :
          /\ Reads(p, op)
          /\ Fork(p, ends[p], LAMBDA c : Waits(Rest(p), c, op), [Rest(p) EXCEPT !.at = "runcmd"])
          /\ UNCHANGED <<data, line, ran>>
    BY DEF ParseList, ListOps
  <1>2. PICK o \in Procs : /\ o = proc[p] /\ ProcOK(p, o, ends[p]) /\ o.at = "parse" /\ o.tokens # <<>>
                           /\ o.next /\ Head(o.tokens) = op
    BY <1>1, Here DEF Reads, Parsing, Token, At
  <1>3. PICK t \in Seq(STRING) : t = Tail(o.tokens)
    <2>1. o.tokens \in Seq(STRING)
      BY <1>2 DEF Procs
    <2> QED
      BY <1>2, <2>1, TailSeq
  <1>4. PICK s, c : s = Head(free) /\ c = <<s, env_id[s] + 1>>
    OBVIOUS
  <1>5. PICK n : n = [o EXCEPT !.tokens = t, !.at = "wait", !.child = c, !.after = op]
    OBVIOUS
  <1>6. PICK m : m = [o EXCEPT !.tokens = t, !.at = "runcmd"]
    OBVIOUS
  <1>7. PICK e : e = ends[p]
    OBVIOUS
  <1>8. n = Waits(Rest(p), c, op) /\ m = [Rest(p) EXCEPT !.at = "runcmd"]
    BY <1>2, <1>3, <1>5, <1>6 DEF Waits, Rest, Procs
  <1>9. Forked(p, n, e, s, m) /\ UNCHANGED <<env_exit_value, nlines, data, line>>
    BY <1>1, <1>4, <1>7, <1>8 DEF Forked, Fork
  <1>10. GlobalNext
    BY <1>9 DEF GlobalNext, TypeInv, GlobalOK
  <1>11. ~At(p, "free")
    BY <1>2 DEF At
  <1>12. Good(p, c)' /\ c \in Refs /\ s \in Envs
    BY <1>4, <1>9, <1>11, ForkGood, ForkedEnvs
  <1>13. /\ n \in Procs /\ n.at = "wait" /\ n.child = c /\ n.after = op /\ n.tokens = t /\ n.right = o.right
         /\ n.home = o.home
    <2>1. "wait" \in Places /\ op \in Reasons
      BY DEF Places, Reasons
    <2> QED
      BY <1>2, <1>5, <1>12, <2>1 DEF Procs
  <1>14. m \in Procs /\ m.at = "runcmd" /\ m.right = o.right
    <2>1. "runcmd" \in Places
      BY DEF Places
    <2> QED
      BY <1>2, <1>6, <2>1 DEF Procs
  <1>15. o.right = NoEnv /\ e \in Ends4
    BY <1>2, <1>7, Here DEF ProcOK, NoRightAt
  <1>16. ProcOK(p, n, e)'
    BY <1>12, <1>13, <1>15 DEF ProcOK
  <1>17. ProcOK(s, m, e)'
    BY <1>14, <1>15 DEF ProcOK, NoRightAt
  <1>18. ASSUME SensibleLines, AloneInv
         PROVE  /\ TextOK(n) /\ TextOK(m) /\ Keeps(p, n) /\ Owns(n, <<s, env_id[s] + 1>>)
                /\ (p = Main => MainOK(n, e))
    <2>1. TextOK(o)
      BY <1>2, <1>18 DEF AloneInv
    <2>2. PICK b \in BOOLEAN : b = (o.argv # <<>> \/ ~o.next)
      OBVIOUS
    <2>3. CdLast(o.tokens) /\ Fed(Needs, o.tokens, b) /\ o.tokens \in Seq(STRING)
      BY <1>2, <2>1, <2>2 DEF TextOK, Procs
    <2>4. o.tokens[1] = op /\ op \in Breaks
      BY <1>2, <2>3, TailSeq DEF ListOps, Breaks
    <2>5. CdLast(t) /\ Fed(Needs, t, FALSE)
      BY <1>2, <1>3, <2>3, <2>4, CdLastTail, FedBreak
    <2>6. TextOK(n)
      BY <1>13, <2>5 DEF TextOK
    <2>7. TextOK(m)
      BY <1>14, <1>15 DEF TextOK
    <2>8. Keeps(p, n)
      BY <1>2, ParseIdle
    <2>9. Owns(n, <<s, env_id[s] + 1>>)
      BY <1>4, <1>13 DEF Owns
    <2>10. ASSUME p = Main PROVE MainOK(n, e)
      <3>1. MainOK(o, e)
        BY <1>2, <1>7, <1>18, <2>10 DEF AloneInv
      <3>2. CdTail(o.tokens) /\ Shut(e) /\ o.home = "shell"
        BY <1>2, <3>1 DEF MainOK
      <3>3. CdTail(t)
        BY <1>2, <1>3, <2>3, <3>2, CdTailTail
      <3>4. op \notin {"line", "capture"}
        BY DEF ListOps
      <3> QED
        BY <1>13, <3>2, <3>3, <3>4 DEF MainOK
    <2> QED
      BY <2>6, <2>7, <2>8, <2>9, <2>10
  <1>19. AloneInv => SensibleLine(line')
    BY <1>9 DEF AloneInv
  <1>20. n.at # "free" /\ m.at # "free"
    BY <1>13, <1>14
  <1> QED
    BY <1>9, <1>10, <1>11, <1>16, <1>17, <1>18, <1>19, <1>20, ForkStep

\* ParsePipe: the child reads on, the parent runs what was read.
LEMMA ParsePipeStep ==
    ASSUME TypeInv, NEW p \in Envs, ParsePipe(p)
    PROVE  StepOK
  <1>0. PICK q : q = Min(UnusedPipes)
    OBVIOUS
  <1>1. PICK e : e = [ends[p] EXCEPT ![2] = <<q, "r">>, ![3] = <<q, "w">>]
    OBVIOUS
  <1>2. /\ Reads(p, "|") /\ UnusedPipes # {} /\ data' = [data EXCEPT ![q] = 0]
        /\ Fork(p, e, LAMBDA c : [Rest(p) EXCEPT !.at = "left", !.right = c],
                [Rest(p) EXCEPT !.at = "right", !.right = NoEnv])
        /\ UNCHANGED <<line, ran>>
    BY <1>0, <1>1 DEF ParsePipe, WithPipe
  <1>3. PICK o \in Procs : /\ o = proc[p] /\ ProcOK(p, o, ends[p]) /\ o.at = "parse" /\ o.tokens # <<>>
                           /\ o.next /\ Head(o.tokens) = "|"
    BY <1>2, Here DEF Reads, Parsing, Token, At
  <1>4. PICK t \in Seq(STRING) : t = Tail(o.tokens)
    <2>1. o.tokens \in Seq(STRING)
      BY <1>3 DEF Procs
    <2> QED
      BY <1>3, <2>1, TailSeq
  <1>5. PICK s, c : s = Head(free) /\ c = <<s, env_id[s] + 1>>
    OBVIOUS
  <1>6. PICK n : n = [o EXCEPT !.tokens = t, !.at = "left", !.right = c]
    OBVIOUS
  <1>7. PICK m : m = [o EXCEPT !.tokens = t, !.at = "right", !.right = NoEnv]
    OBVIOUS
  <1>8. n = [Rest(p) EXCEPT !.at = "left", !.right = c] /\ m = [Rest(p) EXCEPT !.at = "right", !.right = NoEnv]
    BY <1>3, <1>4, <1>6, <1>7 DEF Rest, Procs
  <1>9. Forked(p, n, e, s, m) /\ UNCHANGED <<env_exit_value, nlines, line>>
    BY <1>2, <1>5, <1>8 DEF Forked, Fork
  <1>10. GlobalNext /\ e \in Ends4
    BY <1>0, <1>1, <1>2, <1>9, PipeMade DEF GlobalNext, TypeInv, GlobalOK
  <1>11. ~At(p, "free")
    BY <1>3 DEF At
  <1>12. Good(p, c)' /\ c \in Refs /\ c # NoEnv /\ s \in Envs
    BY <1>5, <1>9, <1>11, ForkGood, ForkedEnvs
  <1>13. n \in Procs /\ n.at = "left" /\ n.right = c /\ n.home = o.home /\ n.argv = o.argv
    <2>1. "left" \in Places
      BY DEF Places
    <2> QED
      BY <1>3, <1>6, <1>12, <2>1 DEF Procs
  <1>14. m \in Procs /\ m.at = "right" /\ m.right = NoEnv /\ m.tokens = t
    <2>1. "right" \in Places /\ NoEnv \in Refs
      BY ShellAssumption DEF Places, NoEnv, Refs
    <2> QED
      BY <1>3, <1>7, <2>1 DEF Procs
  <1>15. ProcOK(p, n, e)'
    BY <1>10, <1>12, <1>13 DEF ProcOK, NoRightAt
  <1>16. ProcOK(s, m, e)'
    BY <1>10, <1>14 DEF ProcOK, NoRightAt
  <1>17. ASSUME SensibleLines, AloneInv
         PROVE  /\ TextOK(n) /\ TextOK(m) /\ Keeps(p, n) /\ Owns(n, <<s, env_id[s] + 1>>)
                /\ (p = Main => MainOK(n, e))
    <2>1. TextOK(o)
      BY <1>3, <1>17 DEF AloneInv
    <2>2. PICK b \in BOOLEAN : b = (o.argv # <<>> \/ ~o.next)
      OBVIOUS
    <2>3. CdLast(o.tokens) /\ Fed(Needs, o.tokens, b) /\ o.tokens \in Seq(STRING)
      BY <1>3, <2>1, <2>2 DEF TextOK, Procs
    <2>4. o.tokens[1] = "|" /\ "|" \in Breaks /\ 1 \in 1..Len(o.tokens)
      BY <1>3, <2>3, TailSeq DEF Breaks
    <2>5. CdLast(t) /\ Fed(Needs, t, FALSE)
      BY <1>3, <1>4, <2>3, <2>4, CdLastTail, FedBreak
    <2>6. b
      <3>1. 1..(1 - 1) = {}
        OBVIOUS
      <3> QED
        BY <2>3, <2>4, <3>1 DEF Fed, Needs, Breaks
    <2>7. o.argv # <<>> /\ Head(o.argv) # "cd"
      BY <1>3, <2>1, <2>2, <2>6 DEF TextOK
    <2>8. TextOK(n)
      BY <1>13, <2>7 DEF TextOK
    <2>9. TextOK(m)
      BY <1>14, <2>5 DEF TextOK
    <2>10. Keeps(p, n)
      BY <1>3, ParseIdle
    <2>11. Owns(n, <<s, env_id[s] + 1>>)
      BY <1>5, <1>13 DEF Owns, RightAt
    <2>12. ASSUME p = Main PROVE MainOK(n, e)
      <3>1. MainOK(o, ends[p])
        BY <1>3, <1>17, <2>12 DEF AloneInv
      <3>2. o.home = "shell"
        BY <1>3, <3>1 DEF MainOK
      <3> QED
        BY <1>12, <1>13, <3>2 DEF MainOK
    <2> QED
      BY <2>8, <2>9, <2>10, <2>11, <2>12
  <1>18. AloneInv => SensibleLine(line')
    BY <1>9 DEF AloneInv
  <1>19. n.at # "free" /\ m.at # "free"
    BY <1>13, <1>14
  <1> QED
    BY <1>9, <1>10, <1>11, <1>15, <1>16, <1>17, <1>18, <1>19, ForkStep

-----------------------------------------------------------------------------
(***************************************************************************)
(* Each action: runcmd and the programs                                    *)
(***************************************************************************)

\* n has what o has, but for where it is and whom it waits for.
Moves(n, o) ==
    /\ n.tokens = o.tokens /\ n.argv = o.argv /\ n.next = o.next /\ n.right = o.right /\ n.home = o.home

\* An env that goes elsewhere.
LEMMA MovedRecord ==
    ASSUME NEW o \in Procs, NEW a \in Places
    PROVE  \E n \in Procs : n = [o EXCEPT !.at = a] /\ n.at = a /\ n.child = o.child /\ n.after = o.after /\ Moves(n, o)
  <1>1. PICK n : n = [o EXCEPT !.at = a]
    OBVIOUS
  <1>2. n \in Procs
    BY <1>1 DEF Procs
  <1>3. n.at = a /\ n.child = o.child /\ n.after = o.after /\ Moves(n, o)
    BY <1>1 DEF Procs, Moves
  <1> QED
    BY <1>1, <1>2, <1>3

\* An env that waits.
LEMMA WaitsRecord ==
    ASSUME NEW o \in Procs, NEW c \in Refs, NEW why \in Reasons
    PROVE  \E n \in Procs : n = Waits(o, c, why) /\ n.at = "wait" /\ n.child = c /\ n.after = why /\ Moves(n, o)
  <1>1. PICK n : n = [o EXCEPT !.at = "wait", !.child = c, !.after = why]
    OBVIOUS
  <1>2. n \in Procs
    <2>1. "wait" \in Places
      BY DEF Places
    <2> QED
      BY <1>1, <2>1 DEF Procs
  <1>3. n.at = "wait" /\ n.child = c /\ n.after = why /\ Moves(n, o)
    BY <1>1 DEF Procs, Moves
  <1>4. n = Waits(o, c, why)
    BY <1>1 DEF Waits
  <1> QED
    BY <1>2, <1>3, <1>4

\* An env that exits.
LEMMA ExitsRecord ==
    ASSUME NEW o \in Procs, NEW k \in Int
    PROVE  \E n \in Procs : n = Exits(o, k) /\ n.at = "exit" /\ Moves(n, o)
  <1>1. PICK n : n = [o EXCEPT !.at = "exit", !.r = k]
    OBVIOUS
  <1>2. n \in Procs
    <2>1. "exit" \in Places
      BY DEF Places
    <2> QED
      BY <1>1, <2>1 DEF Procs
  <1>3. n.at = "exit" /\ Moves(n, o)
    BY <1>1 DEF Procs, Moves
  <1>4. n = Exits(o, k)
    BY <1>1 DEF Exits
  <1> QED
    BY <1>2, <1>3, <1>4

\* Where runcmd returns to.
LEMMA ReturnedRecord ==
    ASSUME NEW o \in Procs
    PROVE  \E n \in Procs : /\ n = Returned(o) /\ n.at \in {"prompt", "splice", "exit"} /\ Moves(n, o)
                            /\ o.home = "shell" => n.at = "prompt"
  <1>1. o.home \in {"shell", "capture", "line"}
    BY DEF Procs, Homes
  <1>2. CASE o.home = "shell"
    <2>1. PICK n \in Procs : n = [o EXCEPT !.at = "prompt"] /\ n.at = "prompt" /\ Moves(n, o)
      BY MovedRecord DEF Places
    <2>2. n = Returned(o)
      BY <1>2, <2>1 DEF Returned
    <2> QED
      BY <2>1, <2>2
  <1>3. CASE o.home = "capture"
    <2>1. PICK n \in Procs : n = [o EXCEPT !.at = "splice"] /\ n.at = "splice" /\ Moves(n, o)
      BY MovedRecord DEF Places
    <2>2. n = Returned(o)
      BY <1>3, <2>1 DEF Returned
    <2> QED
      BY <1>3, <2>1, <2>2
  <1>4. CASE o.home = "line"
    <2>1. PICK n \in Procs : n = Exits(o, 0) /\ n.at = "exit" /\ Moves(n, o)
      BY ExitsRecord
    <2>2. n = Returned(o)
      BY <1>4, <2>1 DEF Returned
    <2> QED
      BY <1>4, <2>1, <2>2
  <1> QED
    BY <1>1, <1>2, <1>3, <1>4

\* An env that owns none goes back to where runcmd was called.
LEMMA ReturnStep ==
    ASSUME TypeInv, NEW p \in Envs, NEW o \in Procs, o = proc[p], o.at = "runcmd",
           SensibleLines /\ AloneInv => o.right = NoEnv,
           NEW n \in Procs, n.at \in {"prompt", "splice", "exit"}, Moves(n, o), o.home = "shell" => n.at = "prompt",
           Local(p, n, ends[p]), GlobalNext, line' = line
    PROVE  StepOK
  <1>1. ProcOK(p, o, ends[p])
    BY Here
  <1>2. ProcOK(p, n, ends[p])
    BY <1>1, Here DEF ProcOK, NoRightAt, Moves
  <1>3. ASSUME SensibleLines, AloneInv
        PROVE  TextOK(n) /\ Keeps(p, n) /\ (p = Main => MainOK(n, ends[p]))
    <2>1. TextOK(n)
      BY DEF TextOK
    <2>2. Keeps(p, n)
      BY <1>3, IdleKeeps
    <2>3. ASSUME p = Main PROVE MainOK(n, ends[p])
      <3>1. MainOK(o, ends[p])
        BY <1>3, <2>3 DEF AloneInv
      <3>2. o.home = "shell" /\ Std(ends[p]) /\ Shut(ends[p])
        BY <1>3, <3>1 DEF MainOK
      <3>3. n.home = "shell" /\ n.at = "prompt"
        BY <3>2 DEF Moves
      <3> QED
        BY <3>2, <3>3 DEF MainOK
    <2> QED
      BY <2>1, <2>2, <2>3
  <1> QED
    BY <1>2, <1>3, LocalStep DEF At, AloneInv

\* RunNothing.
LEMMA RunNothingStep ==
    ASSUME TypeInv, NEW p \in Envs, RunNothing(p)
    PROVE  StepOK
  <1>1. PICK o \in Procs : o = proc[p] /\ o.at = "runcmd" /\ o.argv = <<>>
    BY Here DEF RunNothing, At
  <1>2. PICK n \in Procs : /\ n = Returned(o) /\ n.at \in {"prompt", "splice", "exit"} /\ Moves(n, o)
                           /\ o.home = "shell" => n.at = "prompt"
    BY ReturnedRecord
  <1>3. Local(p, n, ends[p]) /\ GlobalNext /\ line' = line
    BY <1>1, <1>2, GoesLocal DEF RunNothing
  <1>4. AloneInv => o.right = NoEnv
    BY <1>1 DEF AloneInv, TextOK
  <1> QED
    BY <1>1, <1>2, <1>3, <1>4, ReturnStep

\* RunCd.
LEMMA RunCdStep ==
    ASSUME TypeInv, NEW p \in Envs, RunCd(p)
    PROVE  StepOK
  <1>1. PICK found \in BOOLEAN : proc' = [proc EXCEPT ![p] = [Returned(proc[p]) EXCEPT !.cd = @ \/ found]]
    BY DEF RunCd
  <1>2. PICK o \in Procs : o = proc[p] /\ o.at = "runcmd" /\ o.argv # <<>> /\ Head(o.argv) = "cd"
    BY Here DEF RunCd, At
  <1>3. PICK m \in Procs : /\ m = Returned(o) /\ m.at \in {"prompt", "splice", "exit"} /\ Moves(m, o)
                           /\ o.home = "shell" => m.at = "prompt"
    BY ReturnedRecord
  <1>4. PICK n : n = [Returned(o) EXCEPT !.cd = @ \/ found]
    OBVIOUS
  <1>5. n \in Procs
    <2>1. (m.cd \/ found) \in BOOLEAN
      OBVIOUS
    <2>2. n = [m EXCEPT !.cd = @ \/ found]
      BY <1>3, <1>4
    <2> QED
      BY <1>3, <2>1, <2>2 DEF Procs
  <1>6. n.at = m.at /\ Moves(n, o)
    <2>1. n = [m EXCEPT !.cd = @ \/ found]
      BY <1>3, <1>4
    <2>2. n.at = m.at /\ Moves(n, m)
      BY <2>1 DEF Moves, Procs
    <2> QED
      BY <1>3, <2>2 DEF Moves
  <1>7. proc' = [proc EXCEPT ![p] = n]
    BY <1>1, <1>2, <1>4
  <1>8. ends' = [ends EXCEPT ![p] = ends[p]] /\ ends' = ends
    BY DEF RunCd, TypeInv, GlobalOK
  <1>9. Local(p, n, ends[p]) /\ GlobalNext /\ line' = line
    BY <1>7, <1>8 DEF RunCd, Local, GlobalNext, TypeInv, GlobalOK
  <1>10. AloneInv => o.right = NoEnv
    BY <1>2 DEF AloneInv, TextOK
  <1> QED
    BY <1>2, <1>3, <1>5, <1>6, <1>9, <1>10, ReturnStep

\* The record of an env that is used for the first time.
LEMMA NoProcType ==
    NoProc \in Procs /\ NoEnv \in Refs
  <1>1. NoEnv \in Refs
    BY ShellAssumption DEF NoEnv, Refs
  <1>2. "free" \in Places /\ "line" \in Reasons /\ "shell" \in Homes /\ <<>> \in Seq(STRING)
    BY DEF Places, Reasons, Homes
  <1> QED
    BY <1>1, <1>2 DEF NoProc, Procs

\* RunSpawn: the program takes the descriptors along.
LEMMA RunSpawnStep ==
    ASSUME TypeInv, NEW p \in Envs, RunSpawn(p)
    PROVE  StepOK
  <1>1. PICK o \in Procs : o = proc[p] /\ ProcOK(p, o, ends[p]) /\ o.at = "runcmd"
    BY Here DEF RunSpawn, At
  <1>2. PICK s, c : s = Head(free) /\ c = <<s, env_id[s] + 1>>
    OBVIOUS
  <1>3. PICK n : n = [o EXCEPT !.at = "spawned", !.child = c]
    OBVIOUS
  <1>4. PICK m : m = [NoProc EXCEPT !.at = "program", !.argv = o.argv]
    OBVIOUS
  <1>5. PICK e : e = ends[p]
    OBVIOUS
  <1>6. Forked(p, n, e, s, m) /\ UNCHANGED <<env_exit_value, nlines, data, line>>
    BY <1>1, <1>2, <1>3, <1>4, <1>5 DEF RunSpawn, Forked, Fork
  <1>7. GlobalNext
    BY <1>6 DEF GlobalNext, TypeInv, GlobalOK
  <1>8. ~At(p, "free")
    BY <1>1 DEF At
  <1>9. Good(p, c)' /\ c \in Refs /\ s \in Envs /\ (Good(p, o.right) => Good(p, o.right)')
    BY <1>2, <1>6, <1>8, ForkGood, ForkedEnvs
  <1>10. n \in Procs /\ n.at = "spawned" /\ n.child = c /\ n.right = o.right /\ n.home = o.home
    <2>1. "spawned" \in Places
      BY DEF Places
    <2> QED
      BY <1>1, <1>3, <1>9, <2>1 DEF Procs
  <1>11. m \in Procs /\ m.at = "program" /\ m.right = NoEnv
    <2>1. "program" \in Places /\ o.argv \in Seq(STRING)
      BY <1>1 DEF Places, Procs
    <2>2. m \in Procs
      BY <1>4, <2>1, NoProcType DEF Procs
    <2> QED
      BY <1>4, <2>2 DEF NoProc
  <1>12. e \in Ends4
    BY <1>5, Here
  <1>13. ProcOK(p, n, e)'
    <2>1. o.right = NoEnv \/ Good(p, o.right)'
      BY <1>1, <1>9 DEF ProcOK
    <2>2. n.right = NoEnv \/ Good(p, n.right)'
      BY <1>10, <2>1
    <2> QED
      BY <1>9, <1>10, <1>12, <2>2 DEF ProcOK, NoRightAt
  <1>14. ProcOK(s, m, e)'
    BY <1>11, <1>12 DEF ProcOK, NoRightAt
  <1>15. ASSUME SensibleLines, AloneInv
         PROVE  /\ TextOK(n) /\ TextOK(m) /\ Keeps(p, n) /\ Owns(n, <<s, env_id[s] + 1>>)
                /\ (p = Main => MainOK(n, e))
    <2>1. TextOK(n) /\ TextOK(m)
      BY <1>10, <1>11 DEF TextOK
    <2>2. Keeps(p, n)
      BY <1>1, <1>10 DEF Keeps, Owns, RightAt
    <2>3. Owns(n, <<s, env_id[s] + 1>>)
      BY <1>2, <1>10 DEF Owns
    <2>4. ASSUME p = Main PROVE MainOK(n, e)
      <3>1. o.home = "shell"
        BY <1>1, <1>15, <2>4 DEF AloneInv, MainOK
      <3> QED
        BY <1>10, <3>1 DEF MainOK
    <2> QED
      BY <2>1, <2>2, <2>3, <2>4
  <1>16. AloneInv => SensibleLine(line')
    BY <1>6 DEF AloneInv
  <1>17. n.at # "free" /\ m.at # "free"
    BY <1>10, <1>11
  <1> QED
    BY <1>6, <1>7, <1>8, <1>13, <1>14, <1>15, <1>16, <1>17, ForkStep

\* RunMissing: there is nothing to wait for.
LEMMA RunMissingStep ==
    ASSUME TypeInv, NEW p \in Envs, RunMissing(p)
    PROVE  StepOK
  <1>1. PICK o \in Procs : o = proc[p] /\ ProcOK(p, o, ends[p]) /\ o.at = "runcmd"
    BY Here DEF RunMissing, At
  <1>2. PICK n \in Procs : /\ n = [o EXCEPT !.at = "spawned", !.child = NoEnv]
                           /\ n.at = "spawned" /\ n.child = NoEnv /\ Moves(n, o)
    <2>1. PICK n : n = [o EXCEPT !.at = "spawned", !.child = NoEnv]
      OBVIOUS
    <2>2. "spawned" \in Places
      BY DEF Places
    <2>3. n \in Procs
      BY <1>1, <2>1, <2>2, NoProcType DEF Procs
    <2>4. n.at = "spawned" /\ n.child = NoEnv /\ Moves(n, o)
      BY <1>1, <2>1 DEF Procs, Moves
    <2> QED
      BY <2>1, <2>3, <2>4
  <1>3. proc' = [proc EXCEPT ![p] = n]
    <2>1. proc' = [proc EXCEPT ![p].at = "spawned", ![p].child = NoEnv]
      BY DEF RunMissing
    <2>2. proc = [q \in Envs |-> proc[q]] /\ DOMAIN proc = Envs
      BY DEF TypeInv, GlobalOK
    <2> QED
      BY <1>1, <1>2, <2>1, <2>2
  <1>4. ends' = [ends EXCEPT ![p] = ends[p]] /\ ends' = ends
    BY DEF RunMissing, TypeInv, GlobalOK
  <1>5. Local(p, n, ends[p]) /\ GlobalNext /\ line' = line
    BY <1>3, <1>4 DEF RunMissing, Local, GlobalNext, TypeInv, GlobalOK
  <1>6. ProcOK(p, n, ends[p])
    BY <1>1, <1>2, Here DEF ProcOK, NoRightAt, Moves
  <1>7. ASSUME SensibleLines, AloneInv
        PROVE  TextOK(n) /\ Keeps(p, n) /\ (p = Main => MainOK(n, ends[p]))
    <2>1. TextOK(n)
      BY <1>2 DEF TextOK
    <2>2. Keeps(p, n)
      BY <1>1, <1>2 DEF Keeps, Owns, RightAt, Moves
    <2>3. p = Main => o.home = "shell"
      BY <1>1, <1>7 DEF AloneInv, MainOK
    <2>4. p = Main => MainOK(n, ends[p])
      BY <1>2, <2>3 DEF MainOK, Moves
    <2> QED
      BY <2>1, <2>2, <2>4
  <1> QED
    BY <1>1, <1>2, <1>5, <1>6, <1>7, LocalStep DEF At, AloneInv

\* An env waits for somebody, or exits.
LEMMA WaitStep ==
    ASSUME TypeInv, NEW p \in Envs, NEW o \in Procs, o = proc[p], o.at \notin {"free", "dying"},
           NEW n \in Procs, Moves(n, o), NEW e \in Ends4,
           \/ n.at = "exit"
           \/ n.at = "wait" /\ n.after \in {"command", "right"} /\ Good(p, n.child),
           SensibleLines /\ AloneInv => Keeps(p, n),
           Local(p, n, e), GlobalNext, line' = line
    PROVE  StepOK
  <1>1. ProcOK(p, o, ends[p])
    BY Here
  <1>2. n.after \in {"command", "right"} => n.after \notin ListOps /\ n.after \notin {"line", "capture"}
    BY DEF ListOps
  <1>3. ProcOK(p, n, e)
    BY <1>1, <1>2 DEF ProcOK, NoRightAt, Moves
  <1>4. ASSUME SensibleLines, AloneInv
        PROVE  TextOK(n) /\ Keeps(p, n) /\ (p = Main => MainOK(n, e))
    <2>1. TextOK(n)
      BY <1>2 DEF TextOK
    <2>2. p = Main => o.home = "shell"
      BY <1>4 DEF AloneInv, MainOK
    <2>3. p = Main => MainOK(n, e)
      BY <1>2, <2>2 DEF MainOK, Moves
    <2> QED
      BY <1>4, <2>1, <2>3
  <1> QED
    BY <1>3, <1>4, LocalStep DEF At, AloneInv

\* After its command an env exits, or waits for the rest of the pipeline.
LEMMA AfterRecord ==
    ASSUME TypeInv, NEW p \in Envs, NEW o \in Procs, NEW m \in Procs, Moves(m, o),
           o.right = NoEnv \/ Good(p, o.right)
    PROVE  \E n \in Procs : /\ n = AfterCommand(m) /\ Moves(n, o)
                            /\ \/ n.at = "exit" /\ o.right = NoEnv
                               \/ n.at = "wait" /\ n.after = "right" /\ Good(p, n.child) /\ n.child = o.right
  <1>1. m.right = o.right /\ m.right \in Refs /\ m.r \in Int
    BY DEF Moves, Procs
  <1>2. CASE o.right = NoEnv
    <2>1. PICK n \in Procs : n = Exits(m, m.r) /\ n.at = "exit" /\ Moves(n, m)
      BY <1>1, ExitsRecord
    <2>2. n = AfterCommand(m) /\ Moves(n, o)
      BY <1>1, <1>2, <2>1 DEF AfterCommand, Moves
    <2> QED
      BY <1>2, <2>1, <2>2
  <1>3. CASE o.right # NoEnv
    <2>0. "right" \in Reasons
      BY DEF Reasons
    <2>1. PICK n \in Procs : /\ n = Waits(m, m.right, "right") /\ n.at = "wait" /\ n.child = m.right
                             /\ n.after = "right" /\ Moves(n, m)
      BY <1>1, <2>0, WaitsRecord
    <2>2. n = AfterCommand(m) /\ Moves(n, o)
      BY <1>1, <1>3, <2>1 DEF AfterCommand, Moves
    <2> QED
      BY <1>1, <1>3, <2>1, <2>2
  <1> QED
    BY <1>2, <1>3

\* A result.
LEMMA ResultRecord ==
    ASSUME NEW o \in Procs, NEW k \in Int
    PROVE  \E m \in Procs : m = [o EXCEPT !.r = k] /\ Moves(m, o)
  <1>1. PICK m : m = [o EXCEPT !.r = k]
    OBVIOUS
  <1>2. m \in Procs /\ Moves(m, o)
    BY <1>1 DEF Procs, Moves
  <1> QED
    BY <1>1, <1>2

\* RunCloses: all descriptors are closed before the env waits.
LEMMA RunClosesStep ==
    ASSUME TypeInv, NEW p \in Envs, RunCloses(p)
    PROVE  StepOK
  <1>1. PICK o \in Procs : o = proc[p] /\ ProcOK(p, o, ends[p]) /\ o.at = "spawned"
    BY Here DEF RunCloses, At
  <1>2. PICK e \in Ends4 : e = NoEnds
    BY EndTypes
  <1>3. ends' = [ends EXCEPT ![p] = e]
    BY <1>2 DEF RunCloses
  <1>4. proc' = [proc EXCEPT ![p] = IF o.child = NoEnv THEN AfterCommand([o EXCEPT !.r = 1])
                                   ELSE Waits(o, o.child, "command")]
    BY <1>1 DEF RunCloses
  <1>5. \A s \in Envs : Current(s) # NoEnv
    BY DEF Current, NoEnv, Envs
  <1>6. CASE o.child = NoEnv
    <2>1. PICK m \in Procs : m = [o EXCEPT !.r = 1] /\ Moves(m, o)
      BY ResultRecord
    <2>2. o.right = NoEnv \/ Good(p, o.right)
      BY <1>1 DEF ProcOK
    <2>3. PICK n \in Procs : /\ n = AfterCommand(m) /\ Moves(n, o)
                             /\ \/ n.at = "exit" /\ o.right = NoEnv
                                \/ n.at = "wait" /\ n.after = "right" /\ Good(p, n.child) /\ n.child = o.right
      BY <2>1, <2>2, AfterRecord
    <2>4. proc' = [proc EXCEPT ![p] = n]
      BY <1>4, <1>6, <2>1, <2>3
    <2>5. Local(p, n, e) /\ GlobalNext /\ line' = line
      BY <1>3, <2>4, EndsLocal DEF RunCloses
    <2>6. Keeps(p, n)
      BY <1>1, <1>5, <1>6, <2>3 DEF Keeps, Owns, RightAt, Living
    <2> QED
      BY <1>1, <2>3, <2>5, <2>6, WaitStep
  <1>7. CASE o.child # NoEnv
    <2>1. o.child \in Refs /\ "command" \in Reasons
      BY DEF Procs, Reasons
    <2>2. PICK n \in Procs : /\ n = Waits(o, o.child, "command") /\ n.at = "wait" /\ n.child = o.child
                             /\ n.after = "command" /\ Moves(n, o)
      BY <2>1, WaitsRecord
    <2>3. proc' = [proc EXCEPT ![p] = n]
      BY <1>4, <1>7, <2>2
    <2>4. Local(p, n, e) /\ GlobalNext /\ line' = line
      BY <1>3, <2>3, EndsLocal DEF RunCloses
    <2>5. Keeps(p, n)
      BY <1>1, <2>2 DEF Keeps, Owns, RightAt, Moves
    <2>6. Good(p, n.child)
      BY <1>1, <1>7, <2>2 DEF ProcOK
    <2> QED
      BY <1>1, <2>2, <2>4, <2>5, <2>6, WaitStep
  <1> QED
    BY <1>6, <1>7

\* ReapCommand.
LEMMA ReapCommandStep ==
    ASSUME TypeInv, NEW p \in Envs, ReapCommand(p)
    PROVE  StepOK
  <1>1. PICK o \in Procs : o = proc[p] /\ ProcOK(p, o, ends[p]) /\ o.at = "reap" /\ o.after = "command"
    BY Here DEF ReapCommand, At
  <1>2. PICK r \in Int : r = sys_wait(proc[p].child)
    BY <1>1, ReapGood
  <1>3. PICK m \in Procs : m = [o EXCEPT !.r = r] /\ Moves(m, o)
    BY ResultRecord
  <1>4. o.right = NoEnv \/ Good(p, o.right)
    BY <1>1 DEF ProcOK
  <1>5. PICK n \in Procs : /\ n = AfterCommand(m) /\ Moves(n, o)
                           /\ \/ n.at = "exit" /\ o.right = NoEnv
                              \/ n.at = "wait" /\ n.after = "right" /\ Good(p, n.child) /\ n.child = o.right
    BY <1>3, <1>4, AfterRecord
  <1>6. Goes(p, n)
    BY <1>1, <1>2, <1>3, <1>5 DEF ReapCommand
  <1>7. Local(p, n, ends[p]) /\ GlobalNext /\ line' = line
    BY <1>6, GoesLocal
  <1>8. \A s \in Envs : Current(s) # NoEnv
    BY DEF Current, NoEnv, Envs
  <1>9. Keeps(p, n)
    BY <1>1, <1>5, <1>8 DEF Keeps, Owns, RightAt, Living
  <1> QED
    BY <1>1, <1>5, <1>7, <1>9, Here, WaitStep

\* An env that has reaped another than its command owns none.
LEMMA ReapIdle ==
    ASSUME NEW p \in Envs, NEW n, proc[p].at = "reap", proc[p].after # "command"
    PROVE  Keeps(p, n)
  BY IdleKeeps DEF RightAt

\* ReapRight.
LEMMA ReapRightStep ==
    ASSUME TypeInv, NEW p \in Envs, ReapRight(p)
    PROVE  StepOK
  <1>1. PICK o \in Procs : o = proc[p] /\ o.at = "reap" /\ o.after = "right"
    BY Here DEF ReapRight, At
  <1>2. PICK n \in Procs : n = Exits(o, o.r) /\ n.at = "exit" /\ Moves(n, o)
    <2>1. o.r \in Int
      BY DEF Procs
    <2> QED
      BY <2>1, ExitsRecord
  <1>3. Local(p, n, ends[p]) /\ GlobalNext /\ line' = line
    BY <1>1, <1>2, GoesLocal DEF ReapRight
  <1>4. \A m : Keeps(p, m)
    BY <1>1, ReapIdle
  <1> QED
    BY <1>1, <1>2, <1>3, <1>4, ExitStep DEF Moves

\* The pipe behind a descriptor, or none.
LEMMA PipeOf ==
    ASSUME TypeInv, NEW p \in Envs, NEW k \in 0..3
    PROVE  ends[p][k][1] \in 0..NPIPES /\ data[ends[p][k][1]] \in 0..PIPE_SIZE
  <1>1. ends[p][k] \in EndType
    BY Here DEF Ends4
  <1>2. ends[p][k][1] \in 0..NPIPES
    BY <1>1, ShellAssumption DEF EndType, Console, File, Closed
  <1> QED
    BY <1>2 DEF TypeInv, GlobalOK

\* A step of a program that has not ended, or of an env that reads a pipe.
LEMMA StaysStep ==
    ASSUME TypeInv, NEW p \in Envs, NEW o \in Procs, o = proc[p], o.at # "free",
           NEW n \in Procs, n.at = o.at, n.child = o.child, n.after = o.after, Moves(n, o),
           Local(p, n, ends[p]), GlobalNext, line' = line
    PROVE  StepOK
  <1>1. ProcOK(p, o, ends[p])
    BY Here
  <1>2. ProcOK(p, n, ends[p])
    BY <1>1, Here DEF ProcOK, NoRightAt, Moves
  <1>3. ASSUME SensibleLines, AloneInv
        PROVE  TextOK(n) /\ Keeps(p, n) /\ (p = Main => MainOK(n, ends[p]))
    <2>1. TextOK(n)
      <3>1. TextOK(o)
        BY <1>3 DEF AloneInv
      <3> QED
        BY <3>1 DEF TextOK, Moves
    <2>2. Keeps(p, n)
      BY DEF Keeps, Owns, RightAt, Moves
    <2>3. ASSUME p = Main PROVE MainOK(n, ends[p])
      <3>1. MainOK(o, ends[p])
        BY <1>3, <2>3 DEF AloneInv
      <3> QED
        BY <3>1 DEF MainOK, Moves
    <2> QED
      BY <2>1, <2>2, <2>3
  <1> QED
    BY <1>2, <1>3, LocalStep DEF At, AloneInv

\* ProgramWrites: there is room in the pipe.
LEMMA ProgramWritesStep ==
    ASSUME TypeInv, NEW p \in Envs, ProgramWrites(p)
    PROVE  StepOK
  <1>1. PICK o \in Procs : o = proc[p] /\ o.at = "program"
    BY Here DEF ProgramWrites, At
  <1>2. PICK q \in 0..NPIPES : q = ends[p][1][1] /\ data[q] \in 0..PIPE_SIZE
    BY PipeOf
  <1>3. ends' = [ends EXCEPT ![p] = ends[p]] /\ ends' = ends
    BY DEF ProgramWrites, TypeInv, GlobalOK
  <1>4. data' \in [0..NPIPES -> 0..PIPE_SIZE]
    <2>1. data \in [0..NPIPES -> 0..PIPE_SIZE]
      BY DEF TypeInv, GlobalOK
    <2>2. q = 0 \/ Readers(q) = {} \/ data[q] < PIPE_SIZE
      BY <1>2 DEF ProgramWrites
    <2>3. data' = IF q = 0 \/ Readers(q) = {} THEN data ELSE [data EXCEPT ![q] = @ + 1]
      BY <1>2 DEF ProgramWrites
    <2>4. CASE q = 0 \/ Readers(q) = {}
      BY <2>1, <2>3, <2>4
    <2>5. CASE ~(q = 0 \/ Readers(q) = {})
      <3>1. data[q] + 1 \in 0..PIPE_SIZE
        BY <1>2, <2>2, <2>5, ShellAssumption
      <3> QED
        BY <2>1, <2>3, <2>5, <3>1
    <2> QED
      BY <2>4, <2>5
  <1>5. GlobalNext /\ line' = line
    BY <1>4 DEF ProgramWrites, Same, GlobalNext, TypeInv, GlobalOK
  <1>6. env_id' = env_id /\ free' = free
    BY DEF ProgramWrites, Same
  <1>7. proc' = [proc EXCEPT ![p] = IF o.flag = PIPE_SIZE THEN Exits(o, 0) ELSE [o EXCEPT !.flag = @ + 1]]
    BY <1>1 DEF ProgramWrites
  <1>8. CASE o.flag = PIPE_SIZE
    <2>1. PICK n \in Procs : n = Exits(o, 0) /\ n.at = "exit" /\ Moves(n, o)
      BY ExitsRecord
    <2>2. Local(p, n, ends[p])
      BY <1>3, <1>6, <1>7, <1>8, <2>1 DEF Local
    <2>3. \A m : Keeps(p, m)
      BY <1>1, ParseIdle
    <2> QED
      BY <1>1, <1>5, <2>1, <2>2, <2>3, ExitStep DEF Moves
  <1>9. CASE o.flag # PIPE_SIZE
    <2>1. PICK n : n = [o EXCEPT !.flag = @ + 1]
      OBVIOUS
    <2>2. n \in Procs /\ n.at = o.at /\ n.child = o.child /\ n.after = o.after /\ Moves(n, o)
      BY <2>1 DEF Procs, Moves
    <2>3. Local(p, n, ends[p])
      BY <1>3, <1>6, <1>7, <1>9, <2>1 DEF Local
    <2> QED
      BY <1>1, <1>5, <2>2, <2>3, StaysStep
  <1> QED
    BY <1>8, <1>9

\* One write less in a pipe.
LEMMA TakesData ==
    ASSUME TypeInv, NEW p \in Envs, NEW k \in 0..3, data[ends[p][k][1]] > 0
    PROVE  [data EXCEPT ![ends[p][k][1]] = @ - 1] \in [0..NPIPES -> 0..PIPE_SIZE]
  <1>1. PICK q \in 0..NPIPES : q = ends[p][k][1] /\ data[q] \in 0..PIPE_SIZE
    BY PipeOf
  <1>2. data[q] - 1 \in 0..PIPE_SIZE
    BY <1>1, ShellAssumption
  <1>3. data \in [0..NPIPES -> 0..PIPE_SIZE]
    BY DEF TypeInv, GlobalOK
  <1>4. [data EXCEPT ![q] = @ - 1] \in [0..NPIPES -> 0..PIPE_SIZE]
    BY <1>2, <1>3
  <1> QED
    BY <1>1, <1>4

\* A step that leaves the envs alone.
LEMMA QuietStep ==
    ASSUME TypeInv, NEW p \in Envs, ~At(p, "free"), UNCHANGED <<proc, ends>>, Same,
           data' \in [0..NPIPES -> 0..PIPE_SIZE]
    PROVE  StepOK
  <1>1. PICK o \in Procs : o = proc[p] /\ o.at # "free"
    BY Here DEF At
  <1>2. Local(p, o, ends[p])
    BY <1>1 DEF Local, Same, TypeInv, GlobalOK
  <1>3. GlobalNext /\ line' = line
    BY DEF Same, GlobalNext, TypeInv, GlobalOK
  <1> QED
    BY <1>1, <1>2, <1>3, StaysStep DEF Moves

\* A program ends.
LEMMA ProgramEnds ==
    ASSUME TypeInv, NEW p \in Envs, At(p, "program"), NEW k \in Int, Goes(p, Exits(proc[p], k))
    PROVE  StepOK
  <1>1. PICK o \in Procs : o = proc[p] /\ o.at = "program"
    BY Here DEF At
  <1>2. PICK n \in Procs : n = Exits(o, k) /\ n.at = "exit" /\ Moves(n, o)
    BY ExitsRecord
  <1>3. Local(p, n, ends[p]) /\ GlobalNext /\ line' = line
    BY <1>1, <1>2, GoesLocal
  <1>4. \A m : Keeps(p, m)
    BY <1>1, ParseIdle
  <1> QED
    BY <1>1, <1>2, <1>3, <1>4, ExitStep DEF Moves

\* A filter goes on, with other counts.
LEMMA FilterStays ==
    ASSUME TypeInv, NEW p \in Envs, At(p, "program"), NEW f \in Int, NEW k \in Int,
           proc' = [proc EXCEPT ![p].flag = f, ![p].r = k], UNCHANGED ends, Same,
           data' \in [0..NPIPES -> 0..PIPE_SIZE]
    PROVE  StepOK
  <1>1. PICK o \in Procs : o = proc[p] /\ o.at = "program"
    BY Here DEF At
  <1>2. PICK n : n = [o EXCEPT !.flag = f, !.r = k]
    OBVIOUS
  <1>3. n \in Procs /\ n.at = o.at /\ n.child = o.child /\ n.after = o.after /\ Moves(n, o)
    BY <1>2 DEF Procs, Moves
  <1>4. Local(p, n, ends[p])
    BY <1>1, <1>2 DEF Local, Same, TypeInv, GlobalOK
  <1>5. GlobalNext /\ line' = line
    BY DEF Same, GlobalNext, TypeInv, GlobalOK
  <1> QED
    BY <1>1, <1>3, <1>4, <1>5, StaysStep

\* What a filter has counted.
LEMMA Counts ==
    ASSUME TypeInv, NEW p \in Envs
    PROVE  /\ proc[p].flag \in Int /\ proc[p].r \in Int
  BY Here DEF Procs

\* One count changes.
LEMMA OneCount ==
    ASSUME TypeInv, NEW p \in Envs, NEW k \in Int
    PROVE  /\ [proc EXCEPT ![p].r = k] = [proc EXCEPT ![p].flag = proc[p].flag, ![p].r = k]
           /\ [proc EXCEPT ![p].flag = k] = [proc EXCEPT ![p].flag = k, ![p].r = proc[p].r]
  <1>1. PICK o \in Procs : o = proc[p]
    BY Here
  <1>2. /\ [o EXCEPT !.r = k] = [o EXCEPT !.flag = o.flag, !.r = k]
        /\ [o EXCEPT !.flag = k] = [o EXCEPT !.flag = k, !.r = o.r]
    BY DEF Procs
  <1> QED
    BY <1>1, <1>2

\* ProgramReads: something is read, a buffer is full, or the input ends.
LEMMA ProgramReadsStep ==
    ASSUME TypeInv, NEW p \in Envs, ProgramReads(p)
    PROVE  StepOK
  <1>1. PICK q, r, f : q = ends[p][0][1] /\ r = proc[p].r /\ f = proc[p].flag /\ f = 0 /\ r \in Int
    BY Counts DEF ProgramReads
  <1>2. ends' = ends /\ Same /\ At(p, "program") /\ data \in [0..NPIPES -> 0..PIPE_SIZE]
    BY DEF ProgramReads, TypeInv, GlobalOK
  <1>3. CASE q # 0 /\ data[q] > 0 /\ data' = [data EXCEPT ![q] = @ - 1] /\ proc' = [proc EXCEPT ![p].r = @ + 1]
    <2>1. data' \in [0..NPIPES -> 0..PIPE_SIZE]
      BY <1>1, <1>3, TakesData
    <2>2. PICK k \in Int : k = r + 1
      BY <1>1
    <2>3. proc' = [proc EXCEPT ![p].r = k]
      BY <1>1, <1>3, <2>2 DEF TypeInv, GlobalOK
    <2>4. proc' = [proc EXCEPT ![p].flag = proc[p].flag, ![p].r = k] /\ proc[p].flag \in Int
      BY <2>2, <2>3, OneCount, Counts
    <2> QED
      BY <1>2, <2>1, <2>2, <2>4, FilterStays
  <1>4. CASE proc' = [proc EXCEPT ![p].flag = r, ![p].r = 0] /\ UNCHANGED data
    <2>1. data' \in [0..NPIPES -> 0..PIPE_SIZE] /\ 0 \in Int /\ UNCHANGED ends
      BY <1>2, <1>4
    <2> QED
      BY <1>1, <1>2, <1>4, <2>1, FilterStays
  <1>5. CASE (\E n \in 0..(PIPE_SIZE + 1) : proc' = [proc EXCEPT ![p].flag = n, ![p].r = -1]) /\ UNCHANGED data
    <2>1. PICK n \in 0..(PIPE_SIZE + 1) : proc' = [proc EXCEPT ![p].flag = n, ![p].r = -1]
      BY <1>5
    <2>2. n \in Int /\ -1 \in Int
      OBVIOUS
    <2> QED
      BY <1>2, <1>5, <2>1, <2>2, FilterStays
  <1>6. CASE proc' = [proc EXCEPT ![p] = Exits(@, 0)] /\ UNCHANGED data
    <2>1. Goes(p, Exits(proc[p], 0))
      BY <1>2, <1>6 DEF Goes
    <2> QED
      BY <1>2, <2>1, ProgramEnds
  <1> QED
    BY <1>1, <1>3, <1>4, <1>5, <1>6 DEF ProgramReads

\* ProgramCopies: a write, or one that falls short.
LEMMA ProgramCopiesStep ==
    ASSUME TypeInv, NEW p \in Envs, ProgramCopies(p)
    PROVE  StepOK
  <1>1. PICK q \in 0..NPIPES : q = ends[p][1][1] /\ data[q] \in 0..PIPE_SIZE
    BY PipeOf
  <1>2. ends' = ends /\ Same /\ At(p, "program") /\ data \in [0..NPIPES -> 0..PIPE_SIZE]
    BY DEF ProgramCopies, TypeInv, GlobalOK
  <1>3. PICK r, f : r = proc[p].r /\ f = proc[p].flag /\ r \in Int /\ f \in Int
    BY Counts
  <1>4. CASE /\ q = 0 \/ data[q] < PIPE_SIZE
             /\ data' = IF q = 0 THEN data ELSE [data EXCEPT ![q] = @ + 1]
             /\ proc' = [proc EXCEPT ![p].flag = @ - 1]
    <2>1. data' \in [0..NPIPES -> 0..PIPE_SIZE]
      <3>1. CASE q = 0
        BY <1>2, <1>4, <3>1
      <3>2. CASE q # 0
        <4>1. data[q] + 1 \in 0..PIPE_SIZE
          BY <1>1, <1>4, <3>2, ShellAssumption
        <4> QED
          BY <1>2, <1>4, <3>2, <4>1
      <3> QED
        BY <3>1, <3>2
    <2>2. PICK k \in Int : k = f - 1
      BY <1>3
    <2>3. proc' = [proc EXCEPT ![p].flag = k]
      BY <1>3, <1>4, <2>2 DEF TypeInv, GlobalOK
    <2>4. proc' = [proc EXCEPT ![p].flag = k, ![p].r = r]
      BY <1>3, <2>3, OneCount
    <2> QED
      BY <1>2, <1>3, <2>1, <2>4, FilterStays
  <1>5. CASE proc' = [proc EXCEPT ![p] = Exits(@, 1)] /\ UNCHANGED data
    <2>1. Goes(p, Exits(proc[p], 1))
      BY <1>2, <1>5 DEF Goes
    <2> QED
      BY <1>2, <2>1, ProgramEnds
  <1> QED
    BY <1>1, <1>4, <1>5 DEF ProgramCopies

\* ProgramFails.
LEMMA ProgramFailsStep ==
    ASSUME TypeInv, NEW p \in Envs, ProgramFails(p)
    PROVE  StepOK
  <1>1. PICK o \in Procs : o = proc[p] /\ o.at = "program"
    BY Here DEF ProgramFails, At
  <1>2. PICK n \in Procs : n = Exits(o, 1) /\ n.at = "exit" /\ Moves(n, o)
    BY ExitsRecord
  <1>3. Local(p, n, ends[p]) /\ GlobalNext /\ line' = line
    BY <1>1, <1>2, GoesLocal DEF ProgramFails
  <1>4. \A m : Keeps(p, m)
    BY <1>1, ParseIdle
  <1> QED
    BY <1>1, <1>2, <1>3, <1>4, ExitStep DEF Moves

-----------------------------------------------------------------------------
(***************************************************************************)
(* Each action: commands in backquotes, and main                           *)
(***************************************************************************)

\* CaptureForks: the child has no more to do than the command.
LEMMA CaptureForksStep ==
    ASSUME TypeInv, NEW p \in Envs, CaptureForks(p)
    PROVE  StepOK
  <1>0. PICK q : q = Min(UnusedPipes)
    OBVIOUS
  <1>1. PICK e : e = [ends[p] EXCEPT ![2] = <<q, "r">>, ![3] = <<q, "w">>]
    OBVIOUS
  <1>2. /\ At(p, "quote") /\ UnusedPipes # {} /\ data' = [data EXCEPT ![q] = 0]
        /\ Fork(p, e, LAMBDA c : [proc[p] EXCEPT !.at = "capture", !.child = c],
                [proc[p] EXCEPT !.at = "captured", !.tokens = line.quote, !.home = "capture"])
        /\ UNCHANGED <<line, ran>>
    BY <1>0, <1>1 DEF CaptureForks, WithPipe
  <1>3. PICK o \in Procs : o = proc[p] /\ ProcOK(p, o, ends[p]) /\ o.at = "quote"
    BY <1>2, Here DEF At
  <1>4. PICK t \in Seq(STRING) : t = line.quote
    BY DEF TypeInv, GlobalOK, LineType
  <1>5. PICK s, c : s = Head(free) /\ c = <<s, env_id[s] + 1>>
    OBVIOUS
  <1>6. PICK n : n = [o EXCEPT !.at = "capture", !.child = c]
    OBVIOUS
  <1>7. PICK m : m = [o EXCEPT !.at = "captured", !.tokens = t, !.home = "capture"]
    OBVIOUS
  <1>8. Forked(p, n, e, s, m) /\ UNCHANGED <<env_exit_value, nlines, line>>
    BY <1>2, <1>3, <1>4, <1>5, <1>6, <1>7 DEF Forked, Fork
  <1>9. GlobalNext /\ e \in Ends4
    BY <1>0, <1>1, <1>2, <1>8, PipeMade DEF GlobalNext, TypeInv, GlobalOK
  <1>10. ~At(p, "free")
    BY <1>3 DEF At
  <1>11. Good(p, c)' /\ c \in Refs /\ s \in Envs
    BY <1>5, <1>8, <1>10, ForkGood, ForkedEnvs
  <1>12. o.right = NoEnv
    BY <1>3 DEF ProcOK, NoRightAt
  <1>13. n \in Procs /\ n.at = "capture" /\ n.child = c /\ n.right = o.right /\ n.home = o.home
    <2>1. "capture" \in Places
      BY DEF Places
    <2> QED
      BY <1>3, <1>6, <1>11, <2>1 DEF Procs
  <1>14. m \in Procs /\ m.at = "captured" /\ m.right = o.right /\ m.tokens = t /\ m.argv = o.argv
    <2>1. "captured" \in Places /\ "capture" \in Homes
      BY DEF Places, Homes
    <2> QED
      BY <1>3, <1>7, <2>1 DEF Procs
  <1>15. ProcOK(p, n, e)'
    BY <1>9, <1>11, <1>12, <1>13 DEF ProcOK, NoRightAt
  <1>16. ProcOK(s, m, e)'
    BY <1>9, <1>12, <1>14 DEF ProcOK, NoRightAt
  <1>17. ASSUME SensibleLines, AloneInv
         PROVE  /\ TextOK(n) /\ TextOK(m) /\ Keeps(p, n) /\ Owns(n, <<s, env_id[s] + 1>>)
                /\ (p = Main => MainOK(n, e))
    <2>1. TextOK(n)
      BY <1>13 DEF TextOK
    <2>2. TextOK(m)
      <3>1. o.argv = <<>>
        BY <1>3, <1>17 DEF AloneInv, TextOK
      <3>2. Whole(t)
        BY <1>4, <1>17 DEF AloneInv, SensibleLine
      <3> QED
        BY <1>14, <3>1, <3>2 DEF TextOK
    <2>3. Keeps(p, n)
      BY <1>3, ParseIdle
    <2>4. Owns(n, <<s, env_id[s] + 1>>)
      BY <1>5, <1>13 DEF Owns
    <2>5. ASSUME p = Main PROVE MainOK(n, e)
      <3>1. MainOK(o, ends[p])
        BY <1>3, <1>17, <2>5 DEF AloneInv
      <3>2. o.home = "shell" /\ Std(ends[p])
        BY <1>3, <3>1 DEF MainOK
      <3>3. Std(e)
        BY <1>1, <3>2, Here DEF Std, Ends4
      <3> QED
        BY <1>13, <3>2, <3>3 DEF MainOK
    <2> QED
      BY <2>1, <2>2, <2>3, <2>4, <2>5
  <1>18. AloneInv => SensibleLine(line')
    BY <1>8 DEF AloneInv
  <1>19. n.at # "free" /\ m.at # "free"
    BY <1>13, <1>14
  <1> QED
    BY <1>8, <1>9, <1>10, <1>15, <1>16, <1>17, <1>18, <1>19, ForkStep

\* An env goes elsewhere with other ends.
LEMMA MovedLocal ==
    ASSUME TypeInv, NEW p \in Envs, NEW o, o = proc[p], NEW a, NEW n, n = [o EXCEPT !.at = a], NEW e,
           proc' = [proc EXCEPT ![p].at = a], ends' = [ends EXCEPT ![p] = e], UNCHANGED data, Same
    PROVE  Local(p, n, e) /\ GlobalNext /\ line' = line
  <1>1. DOMAIN proc = Envs /\ proc = [q \in Envs |-> proc[q]]
    BY DEF TypeInv, GlobalOK
  <1>2. proc' = [proc EXCEPT ![p] = n]
    BY <1>1
  <1> QED
    BY <1>2, EndsLocal

\* A sensible line, before any of it is read.
LEMMA SensibleStart ==
    ASSUME NEW t, Whole(t), NEW b \in BOOLEAN
    PROVE  CdLast(t) /\ Fed(Needs, t, b)
  BY FedMore DEF Whole, Sensible, CdLast

\* Every line that is read is sensible, and one without operators is.
LEMMA LineWhole ==
    ASSUME SensibleLines, NEW l \in Lines
    PROVE  SensibleLine(l)
  BY DEF SensibleLines, SensibleLine, Whole, Needs, WholeLines, Sensible

\* CapturedStarts: the child writes into the pipe.
LEMMA CapturedStartsStep ==
    ASSUME TypeInv, NEW p \in Envs, CapturedStarts(p)
    PROVE  StepOK
  <1>1. PICK o \in Procs : o = proc[p] /\ ProcOK(p, o, ends[p]) /\ o.at = "captured"
    BY Here DEF CapturedStarts, At
  <1>2. PICK n \in Procs : n = [o EXCEPT !.at = "parse"] /\ n.at = "parse" /\ Moves(n, o)
    BY MovedRecord DEF Places
  <1>3. PICK e \in Ends4 : e = Writing(ends[p])
    <2>1. Writing(ends[p]) \in Ends4
      BY Here, EndTypes DEF Ends4, Writing
    <2> QED
      BY <2>1
  <1>4. ends' = [ends EXCEPT ![p] = e]
    BY <1>3 DEF CapturedStarts
  <1>5. Local(p, n, e) /\ GlobalNext /\ line' = line
    BY <1>1, <1>2, <1>4, MovedLocal DEF CapturedStarts
  <1>6. ProcOK(p, n, e)
    BY <1>1, <1>2 DEF ProcOK, NoRightAt, Moves
  <1>7. ASSUME SensibleLines, AloneInv
        PROVE  TextOK(n) /\ Keeps(p, n) /\ p # Main
    <2>1. TextOK(o)
      BY <1>1, <1>7 DEF AloneInv
    <2>2. Whole(o.tokens) /\ o.argv = <<>>
      BY <1>1, <2>1 DEF TextOK
    <2>3. PICK b \in BOOLEAN : b = (n.argv # <<>> \/ ~n.next)
      OBVIOUS
    <2>4. CdLast(n.tokens) /\ Fed(Needs, n.tokens, b)
      BY <1>2, <2>2, SensibleStart DEF Moves
    <2>5. TextOK(n)
      BY <1>2, <2>2, <2>3, <2>4 DEF TextOK, Moves
    <2>6. Keeps(p, n)
      BY <1>1, ParseIdle
    <2>7. p # Main
      BY <1>1, <1>7 DEF AloneInv, MainOK
    <2> QED
      BY <2>5, <2>6, <2>7
  <1> QED
    BY <1>1, <1>2, <1>5, <1>6, <1>7, LocalStep DEF At, AloneInv

\* CaptureStarts: the write end is the child's.
LEMMA CaptureStartsStep ==
    ASSUME TypeInv, NEW p \in Envs, CaptureStarts(p)
    PROVE  StepOK
  <1>1. PICK o \in Procs : o = proc[p] /\ ProcOK(p, o, ends[p]) /\ o.at = "capture"
    BY Here DEF CaptureStarts, At
  <1>2. PICK n \in Procs : n = [o EXCEPT !.at = "capturing"] /\ n.at = "capturing" /\ n.child = o.child /\ Moves(n, o)
    BY MovedRecord DEF Places
  <1>3. PICK e \in Ends4 : e = [ends[p] EXCEPT ![3] = Closed]
    <2>1. [ends[p] EXCEPT ![3] = Closed] \in Ends4
      BY Here, EndTypes DEF Ends4
    <2> QED
      BY <2>1
  <1>4. ends' = [ends EXCEPT ![p] = e]
    BY <1>3 DEF CaptureStarts, TypeInv, GlobalOK
  <1>5. Local(p, n, e) /\ GlobalNext /\ line' = line
    <2>1. proc' = [proc EXCEPT ![p].at = "capturing"] /\ UNCHANGED data /\ Same
      BY DEF CaptureStarts
    <2> QED
      BY <1>1, <1>2, <1>4, <2>1, MovedLocal
  <1>6. ProcOK(p, n, e)
    BY <1>1, <1>2 DEF ProcOK, NoRightAt, Moves
  <1>7. ASSUME SensibleLines, AloneInv
        PROVE  TextOK(n) /\ Keeps(p, n) /\ (p = Main => MainOK(n, e))
    <2>1. TextOK(n)
      BY <1>2 DEF TextOK
    <2>2. Keeps(p, n)
      BY <1>1, <1>2 DEF Keeps, Owns, RightAt
    <2>3. ASSUME p = Main PROVE MainOK(n, e)
      <3>1. MainOK(o, ends[p])
        BY <1>1, <1>7, <2>3 DEF AloneInv
      <3>2. o.home = "shell" /\ Std(ends[p])
        BY <1>1, <3>1 DEF MainOK
      <3>3. Std(e) /\ e[3] = Closed
        BY <1>3, <3>2, Here DEF Std, Ends4
      <3> QED
        BY <1>2, <3>2, <3>3 DEF MainOK, Moves
    <2> QED
      BY <2>1, <2>2, <2>3
  <1> QED
    BY <1>1, <1>2, <1>5, <1>6, <1>7, LocalStep DEF At, AloneInv

\* CaptureReads.
LEMMA CaptureReadsStep ==
    ASSUME TypeInv, NEW p \in Envs, CaptureReads(p)
    PROVE  StepOK
  <1>1. data' \in [0..NPIPES -> 0..PIPE_SIZE]
    <2>1. data[ends[p][2][1]] > 0 /\ data' = [data EXCEPT ![ends[p][2][1]] = @ - 1]
      BY DEF CaptureReads
    <2> QED
      BY <2>1, TakesData
  <1>2. ~At(p, "free")
    BY DEF CaptureReads, At
  <1> QED
    BY <1>1, <1>2, QuietStep DEF CaptureReads

\* CaptureEnds: the read end is closed before the child is waited for.
LEMMA CaptureEndsStep ==
    ASSUME TypeInv, NEW p \in Envs, CaptureEnds(p)
    PROVE  StepOK
  <1>1. PICK o \in Procs : o = proc[p] /\ ProcOK(p, o, ends[p]) /\ o.at = "capturing"
    BY Here DEF CaptureEnds, At
  <1>2. PICK n \in Procs : /\ n = Waits(o, o.child, "capture") /\ n.at = "wait" /\ n.child = o.child
                           /\ n.after = "capture" /\ Moves(n, o)
    <2>1. o.child \in Refs /\ "capture" \in Reasons
      BY DEF Procs, Reasons
    <2> QED
      BY <2>1, WaitsRecord
  <1>3. PICK e \in Ends4 : e = [ends[p] EXCEPT ![2] = Closed]
    <2>1. [ends[p] EXCEPT ![2] = Closed] \in Ends4
      BY Here, EndTypes DEF Ends4
    <2> QED
      BY <2>1
  <1>4. ends' = [ends EXCEPT ![p] = e]
    BY <1>3 DEF CaptureEnds, TypeInv, GlobalOK
  <1>5. proc' = [proc EXCEPT ![p] = n]
    BY <1>1, <1>2 DEF CaptureEnds
  <1>6. Local(p, n, e) /\ GlobalNext /\ line' = line
    BY <1>4, <1>5, EndsLocal DEF CaptureEnds
  <1>7. "capture" \notin ListOps
    BY DEF ListOps
  <1>8. ProcOK(p, n, e)
    BY <1>1, <1>2, <1>7 DEF ProcOK, NoRightAt, Moves
  <1>9. ASSUME SensibleLines, AloneInv
        PROVE  TextOK(n) /\ Keeps(p, n) /\ (p = Main => MainOK(n, e))
    <2>1. TextOK(n)
      BY <1>2, <1>7 DEF TextOK
    <2>2. Keeps(p, n)
      BY <1>1, <1>2 DEF Keeps, Owns, RightAt
    <2>3. ASSUME p = Main PROVE MainOK(n, e)
      <3>1. MainOK(o, ends[p])
        BY <1>1, <1>9, <2>3 DEF AloneInv
      <3>2. o.home = "shell" /\ Std(ends[p]) /\ ends[p][3] = Closed
        BY <1>1, <3>1 DEF MainOK
      <3>3. Std(e) /\ Shut(e)
        BY <1>3, <3>2, Here DEF Std, Shut, Ends4
      <3> QED
        BY <1>2, <1>7, <3>2, <3>3 DEF MainOK, Moves
    <2> QED
      BY <2>1, <2>2, <2>3
  <1> QED
    BY <1>1, <1>2, <1>6, <1>8, <1>9, LocalStep DEF At, AloneInv

\* ReapCapture.
LEMMA ReapCaptureStep ==
    ASSUME TypeInv, NEW p \in Envs, ReapCapture(p)
    PROVE  StepOK
  <1>1. PICK o \in Procs : o = proc[p] /\ ProcOK(p, o, ends[p]) /\ o.at = "reap" /\ o.after = "capture"
    BY Here DEF ReapCapture, At
  <1>2. PICK n \in Procs : n = [o EXCEPT !.at = "splice"] /\ n.at = "splice" /\ Moves(n, o)
    BY MovedRecord DEF Places
  <1>3. Local(p, n, ends[p]) /\ GlobalNext /\ line' = line
    BY <1>1, <1>2, GoesLocal DEF ReapCapture
  <1>4. ProcOK(p, n, ends[p])
    BY <1>1, <1>2 DEF ProcOK, NoRightAt, Moves
  <1>5. ASSUME SensibleLines, AloneInv
        PROVE  TextOK(n) /\ Keeps(p, n) /\ (p = Main => MainOK(n, ends[p]))
    <2>1. TextOK(n)
      BY <1>2 DEF TextOK
    <2>2. Keeps(p, n)
      BY <1>1, ReapIdle
    <2>3. ASSUME p = Main PROVE MainOK(n, ends[p])
      <3>1. MainOK(o, ends[p])
        BY <1>1, <1>5, <2>3 DEF AloneInv
      <3>2. o.home = "shell" /\ Std(ends[p]) /\ Shut(ends[p])
        BY <1>1, <3>1 DEF MainOK
      <3> QED
        BY <1>2, <3>2 DEF MainOK, Moves
    <2> QED
      BY <2>1, <2>2, <2>3
  <1> QED
    BY <1>1, <1>2, <1>3, <1>4, <1>5, LocalStep DEF At, AloneInv

\* A line begins.
Begun(o, t, a, h) == [o EXCEPT !.tokens = t, !.argv = <<>>, !.right = NoEnv, !.at = a, !.home = h]

\* What an env keeps then.
LEMMA LineRecord ==
    ASSUME NEW o \in Procs, NEW t \in Seq(STRING), NEW a \in Places, NEW h \in Homes
    PROVE  \E n \in Procs : /\ n = Begun(o, t, a, h)
                            /\ n.tokens = t /\ n.argv = <<>> /\ n.right = NoEnv /\ n.at = a /\ n.home = h
  <1>1. PICK n : n = Begun(o, t, a, h)
    OBVIOUS
  <1>2. n \in Procs
    <2>1. <<>> \in Seq(STRING) /\ NoEnv \in Refs
      BY NoProcType
    <2> QED
      BY <1>1, <2>1 DEF Procs, Begun
  <1>3. n.tokens = t /\ n.argv = <<>> /\ n.right = NoEnv /\ n.at = a /\ n.home = h
    BY <1>1 DEF Procs, Begun
  <1> QED
    BY <1>1, <1>2, <1>3

\* An env that owns none takes the line l.
LEMMA LineStep ==
    ASSUME TypeInv, NEW p \in Envs, NEW o \in Procs, o = proc[p], o.at \in {"prompt", "splice"},
           NEW l \in Lines, NEW n \in Procs, n.at \in {"line", "quote"}, n.tokens = l.tokens, n.argv = <<>>,
           n.right = NoEnv, n.home \in {o.home, "shell"},
           proc' = [proc EXCEPT ![p] = n], ends' = ends, env_id' = env_id, free' = free,
           env_exit_value' = env_exit_value, data' = data, line' = l, nlines' \in 0..MaxLines
    PROVE  StepOK
  <1>1. ends' = [ends EXCEPT ![p] = ends[p]]
    BY DEF TypeInv, GlobalOK
  <1>2. Local(p, n, ends[p])
    BY <1>1 DEF Local
  <1>3. GlobalNext
    <2>1. l \in LineType
      BY ShellAssumption DEF LineType
    <2> QED
      BY <2>1 DEF GlobalNext, TypeInv, GlobalOK
  <1>4. ProcOK(p, n, ends[p])
    BY Here DEF ProcOK
  <1>5. ASSUME SensibleLines, AloneInv
        PROVE  /\ SensibleLine(line') /\ TextOK(n) /\ Keeps(p, n) /\ (p = Main => MainOK(n, ends[p]))
    <2>1. SensibleLine(line') /\ Whole(n.tokens)
      BY <1>5, LineWhole DEF SensibleLine
    <2>2. TextOK(n)
      BY <2>1 DEF TextOK
    <2>3. Keeps(p, n)
      BY ParseIdle
    <2>4. ASSUME p = Main PROVE MainOK(n, ends[p])
      <3>1. MainOK(o, ends[p])
        BY <1>5, <2>4 DEF AloneInv
      <3>2. o.home = "shell" /\ Std(ends[p]) /\ Shut(ends[p])
        BY <3>1 DEF MainOK
      <3>3. n.home = "shell"
        BY <3>2
      <3> QED
        BY <3>2, <3>3 DEF MainOK
    <2> QED
      BY <2>1, <2>2, <2>3, <2>4
  <1> QED
    BY <1>2, <1>3, <1>4, <1>5, LocalStep DEF At

\* Splice.
LEMMA SpliceStep ==
    ASSUME TypeInv, NEW p \in Envs, NEW l \in Lines, Splice(p, l)
    PROVE  StepOK
  <1>1. PICK o \in Procs : o = proc[p] /\ o.at = "splice"
    BY Here DEF Splice, At
  <1>2. PICK t \in Seq(STRING) : t = l.tokens
    BY ShellAssumption
  <1>3. PICK n \in Procs : /\ n = Begun(o, t, "line", "shell")
                           /\ n.tokens = t /\ n.argv = <<>> /\ n.right = NoEnv /\ n.at = "line" /\ n.home = "shell"
    <2>1. "line" \in Places /\ "shell" \in Homes
      BY DEF Places, Homes
    <2> QED
      BY <2>1, LineRecord
  <1>4. proc' = [proc EXCEPT ![p] = n]
    <2>1. proc' = [proc EXCEPT ![p].tokens = t, ![p].argv = <<>>, ![p].right = NoEnv,
                               ![p].at = "line", ![p].home = "shell"]
      BY <1>2 DEF Splice
    <2>2. proc = [q \in Envs |-> proc[q]] /\ DOMAIN proc = Envs
      BY DEF TypeInv, GlobalOK
    <2> QED
      BY <1>1, <1>3, <2>1, <2>2 DEF Begun
  <1>5. nlines' \in 0..MaxLines
    BY DEF Splice, TypeInv, GlobalOK
  <1>6. /\ ends' = ends /\ env_id' = env_id /\ free' = free
        /\ env_exit_value' = env_exit_value /\ data' = data /\ line' = l
    BY DEF Splice
  <1>7. n.at \in {"line", "quote"} /\ n.tokens = l.tokens /\ n.home \in {o.home, "shell"} /\ o.at \in {"prompt", "splice"}
    BY <1>1, <1>2, <1>3
  <1> QED
    BY <1>1, <1>3, <1>4, <1>5, <1>6, <1>7, LineStep

\* Prompt.
LEMMA PromptStep ==
    ASSUME TypeInv, NEW p \in Envs, NEW l \in Lines, Prompt(p, l)
    PROVE  StepOK
  <1>1. PICK o \in Procs : o = proc[p] /\ o.at = "prompt"
    BY Here DEF Prompt, At
  <1>2. PICK t \in Seq(STRING) : t = l.tokens
    BY ShellAssumption
  <1>3. PICK a \in {"line", "quote"} : a = IF l.quote = <<>> THEN "line" ELSE "quote"
    OBVIOUS
  <1>4. PICK n \in Procs : /\ n = Begun(o, t, a, o.home) /\ n.tokens = t
                           /\ n.argv = <<>> /\ n.right = NoEnv /\ n.at = a /\ n.home = o.home
    <2>1. a \in Places /\ o.home \in Homes
      BY DEF Places, Procs
    <2> QED
      BY <2>1, LineRecord
  <1>5. proc' = [proc EXCEPT ![p] = n]
    <2>1. proc' = [proc EXCEPT ![p].tokens = t, ![p].argv = <<>>, ![p].right = NoEnv, ![p].at = a]
      BY <1>2, <1>3 DEF Prompt
    <2>2. proc = [q \in Envs |-> proc[q]] /\ DOMAIN proc = Envs
      BY DEF TypeInv, GlobalOK
    <2>3. n = [o EXCEPT !.tokens = t, !.argv = <<>>, !.right = NoEnv, !.at = a]
      BY <1>4 DEF Procs, Begun
    <2> QED
      BY <1>1, <2>1, <2>2, <2>3
  <1>6. nlines' \in 0..MaxLines
    <2>1. nlines \in 0..MaxLines /\ nlines < MaxLines /\ nlines' = nlines + 1
      BY DEF Prompt, TypeInv, GlobalOK
    <2> QED
      BY <2>1, ShellAssumption
  <1>7. /\ ends' = ends /\ env_id' = env_id /\ free' = free
        /\ env_exit_value' = env_exit_value /\ data' = data /\ line' = l
    BY DEF Prompt
  <1>8. n.at \in {"line", "quote"} /\ n.tokens = l.tokens /\ n.home \in {o.home, "shell"} /\ o.at \in {"prompt", "splice"}
    BY <1>1, <1>2, <1>3, <1>4
  <1> QED
    BY <1>1, <1>4, <1>5, <1>6, <1>7, <1>8, LineStep

\* A sensible line with cd that the shell parses itself.
LEMMA CdLine ==
    ASSUME NEW t \in Seq(STRING), Sensible(t), parseCD(t)
    PROVE  CdTail(t)
  <1>1. PICK k \in Nat : k = Len(t)
    BY EmptyLen
  <1>2. PICK i \in 1..k : t[i] = "cd" /\ (i = 1 \/ t[i - 1] = ";")
    BY <1>1 DEF parseCD
  <1>3. i = k
    BY <1>1, <1>2 DEF Sensible
  <1>0. DOMAIN t = 1..k
    BY <1>1
  <1>4. "cd" \in ToSet(t)
    BY <1>0, <1>2 DEF ToSet
  <1>5. \A j \in 1..k : t[j] # "#"
    <2>1. "#" \notin ToSet(t)
      BY <1>4 DEF Sensible
    <2> QED
      BY <1>0, <2>1 DEF ToSet
  <1>6. t[k] = "cd"
    BY <1>2, <1>3
  <1>7. k >= 2 => t[k - 1] = ";"
    <2>1. i = 1 \/ t[k - 1] = ";"
      BY <1>2, <1>3, Zenon
    <2>2. k >= 2 => i # 1
      BY <1>3
    <2> QED
      BY <2>1, <2>2, Zenon
  <1> QED
    BY <1>1, <1>5, <1>6, <1>7 DEF CdTail, AfterSemi

\* MainSelf: a comment, a line with cd, or exit.
LEMMA MainSelfStep ==
    ASSUME TypeInv, NEW p \in Envs, MainSelf(p)
    PROVE  StepOK
  <1>1. PICK o \in Procs : o = proc[p] /\ ProcOK(p, o, ends[p]) /\ o.at = "line"
    BY Here DEF MainSelf, At
  <1>2. \A m : Keeps(p, m)
    BY <1>1, ParseIdle
  <1>3. CASE Goes(p, [proc[p] EXCEPT !.at = "prompt"])
    <2>1. PICK n \in Procs : n = [o EXCEPT !.at = "prompt"] /\ n.at = "prompt" /\ Moves(n, o)
      BY MovedRecord DEF Places
    <2>2. Local(p, n, ends[p]) /\ GlobalNext /\ line' = line
      BY <1>1, <1>3, <2>1, GoesLocal
    <2>3. ProcOK(p, n, ends[p])
      BY <1>1, <2>1 DEF ProcOK, NoRightAt, Moves
    <2>4. ASSUME SensibleLines, AloneInv
          PROVE  TextOK(n) /\ Keeps(p, n) /\ (p = Main => MainOK(n, ends[p]))
      <3>1. TextOK(n)
        BY <2>1 DEF TextOK
      <3>2. ASSUME p = Main PROVE MainOK(n, ends[p])
        <4>1. MainOK(o, ends[p])
          BY <1>1, <2>4, <3>2 DEF AloneInv
        <4> QED
          BY <1>1, <2>1, <4>1 DEF MainOK, Moves
      <3> QED
        BY <1>2, <3>1, <3>2
    <2> QED
      BY <1>1, <2>1, <2>2, <2>3, <2>4, LocalStep DEF At, AloneInv
  <1>4. CASE parseCD(proc[p].tokens) /\ Goes(p, [proc[p] EXCEPT !.at = "parse"])
    <2>1. PICK n \in Procs : n = [o EXCEPT !.at = "parse"] /\ n.at = "parse" /\ Moves(n, o)
      BY MovedRecord DEF Places
    <2>2. Local(p, n, ends[p]) /\ GlobalNext /\ line' = line
      BY <1>1, <1>4, <2>1, GoesLocal
    <2>3. ProcOK(p, n, ends[p])
      BY <1>1, <2>1 DEF ProcOK, NoRightAt, Moves
    <2>4. ASSUME SensibleLines, AloneInv
          PROVE  TextOK(n) /\ Keeps(p, n) /\ (p = Main => MainOK(n, ends[p]))
      <3>1. TextOK(o)
        BY <1>1, <2>4 DEF AloneInv
      <3>2. Whole(o.tokens) /\ o.argv = <<>> /\ o.tokens \in Seq(STRING)
        BY <1>1, <3>1 DEF TextOK, Procs
      <3>3. PICK b \in BOOLEAN : b = (n.argv # <<>> \/ ~n.next)
        OBVIOUS
      <3>4. CdLast(n.tokens) /\ Fed(Needs, n.tokens, b)
        BY <2>1, <3>2, SensibleStart DEF Moves
      <3>5. TextOK(n)
        BY <2>1, <3>2, <3>3, <3>4 DEF TextOK, Moves
      <3>6. ASSUME p = Main PROVE MainOK(n, ends[p])
        <4>1. MainOK(o, ends[p])
          BY <1>1, <2>4, <3>6 DEF AloneInv
        <4>2. CdTail(o.tokens)
          BY <1>1, <1>4, <3>2, CdLine DEF Whole
        <4> QED
          BY <1>1, <2>1, <4>1, <4>2 DEF MainOK, Moves
      <3> QED
        BY <1>2, <3>5, <3>6
    <2> QED
      BY <1>1, <2>1, <2>2, <2>3, <2>4, LocalStep DEF At, AloneInv
  <1>5. CASE Goes(p, Exits(proc[p], 0))
    <2>1. PICK n \in Procs : n = Exits(o, 0) /\ n.at = "exit" /\ Moves(n, o)
      BY ExitsRecord
    <2>2. Local(p, n, ends[p]) /\ GlobalNext /\ line' = line
      BY <1>1, <1>5, <2>1, GoesLocal
    <2> QED
      BY <1>1, <1>2, <2>1, <2>2, ExitStep DEF Moves
  <1> QED
    BY <1>3, <1>4, <1>5 DEF MainSelf

\* MainForks: the child runs the line.
LEMMA MainForksStep ==
    ASSUME TypeInv, NEW p \in Envs, MainForks(p)
    PROVE  StepOK
  <1>1. PICK o \in Procs : o = proc[p] /\ ProcOK(p, o, ends[p]) /\ o.at = "line"
    BY Here DEF MainForks, At
  <1>2. PICK s, c : s = Head(free) /\ c = <<s, env_id[s] + 1>>
    OBVIOUS
  <1>3. PICK n : n = [o EXCEPT !.at = "wait", !.child = c, !.after = "line"]
    OBVIOUS
  <1>4. PICK m : m = [o EXCEPT !.at = "parse", !.home = "line"]
    OBVIOUS
  <1>5. PICK e : e = ends[p]
    OBVIOUS
  <1>6. n = Waits(o, c, "line")
    BY <1>3 DEF Waits
  <1>7. Forked(p, n, e, s, m) /\ UNCHANGED <<env_exit_value, nlines, data, line>>
    BY <1>1, <1>2, <1>4, <1>5, <1>6 DEF MainForks, Forked, Fork
  <1>8. GlobalNext /\ e \in Ends4
    BY <1>5, <1>7, Here DEF GlobalNext, TypeInv, GlobalOK
  <1>9. ~At(p, "free")
    BY <1>1 DEF At
  <1>10. Good(p, c)' /\ c \in Refs /\ s \in Envs
    BY <1>2, <1>7, <1>9, ForkGood, ForkedEnvs
  <1>11. n \in Procs /\ n.at = "wait" /\ n.child = c /\ n.after = "line" /\ n.right = o.right /\ n.home = o.home
    <2>1. "wait" \in Places /\ "line" \in Reasons
      BY DEF Places, Reasons
    <2> QED
      BY <1>1, <1>3, <1>10, <2>1 DEF Procs
  <1>12. m \in Procs /\ m.at = "parse" /\ m.right = o.right /\ m.tokens = o.tokens /\ m.argv = o.argv /\ m.next \in BOOLEAN
    <2>1. "parse" \in Places /\ "line" \in Homes
      BY DEF Places, Homes
    <2> QED
      BY <1>1, <1>4, <2>1 DEF Procs
  <1>13. o.right = NoEnv /\ "line" \notin ListOps
    BY <1>1 DEF ProcOK, NoRightAt, ListOps
  <1>14. ProcOK(p, n, e)'
    BY <1>8, <1>10, <1>11, <1>13 DEF ProcOK
  <1>15. ProcOK(s, m, e)'
    BY <1>8, <1>12, <1>13 DEF ProcOK, NoRightAt
  <1>16. ASSUME SensibleLines, AloneInv
         PROVE  /\ TextOK(n) /\ TextOK(m) /\ Keeps(p, n) /\ Owns(n, <<s, env_id[s] + 1>>)
                /\ (p = Main => MainOK(n, e))
    <2>1. TextOK(o)
      BY <1>1, <1>16 DEF AloneInv
    <2>2. TextOK(n)
      BY <1>11, <1>13 DEF TextOK
    <2>3. TextOK(m)
      <3>1. Whole(o.tokens) /\ o.argv = <<>>
        BY <1>1, <2>1 DEF TextOK
      <3>2. PICK b \in BOOLEAN : b = (m.argv # <<>> \/ ~m.next)
        OBVIOUS
      <3>3. CdLast(m.tokens) /\ Fed(Needs, m.tokens, b)
        BY <1>12, <3>1, SensibleStart
      <3> QED
        BY <1>12, <3>1, <3>2, <3>3 DEF TextOK
    <2>4. Keeps(p, n)
      BY <1>1, ParseIdle
    <2>5. Owns(n, <<s, env_id[s] + 1>>)
      BY <1>2, <1>11 DEF Owns
    <2>6. ASSUME p = Main PROVE MainOK(n, e)
      <3>1. MainOK(o, e)
        BY <1>1, <1>5, <1>16, <2>6 DEF AloneInv
      <3> QED
        BY <1>1, <1>11, <1>13, <3>1 DEF MainOK
    <2> QED
      BY <2>2, <2>3, <2>4, <2>5, <2>6
  <1>17. AloneInv => SensibleLine(line')
    BY <1>7 DEF AloneInv
  <1>18. n.at # "free" /\ m.at # "free"
    BY <1>11, <1>12
  <1> QED
    BY <1>7, <1>8, <1>9, <1>14, <1>15, <1>16, <1>17, <1>18, ForkStep

\* ReapLine.
LEMMA ReapLineStep ==
    ASSUME TypeInv, NEW p \in Envs, ReapLine(p)
    PROVE  StepOK
  <1>1. PICK o \in Procs : o = proc[p] /\ ProcOK(p, o, ends[p]) /\ o.at = "reap" /\ o.after = "line"
    BY Here DEF ReapLine, At
  <1>2. PICK n \in Procs : n = [o EXCEPT !.at = "prompt"] /\ n.at = "prompt" /\ Moves(n, o)
    BY MovedRecord DEF Places
  <1>3. Local(p, n, ends[p]) /\ GlobalNext /\ line' = line
    BY <1>1, <1>2, GoesLocal DEF ReapLine
  <1>4. ProcOK(p, n, ends[p])
    BY <1>1, <1>2 DEF ProcOK, NoRightAt, Moves
  <1>5. ASSUME SensibleLines, AloneInv
        PROVE  TextOK(n) /\ Keeps(p, n) /\ (p = Main => MainOK(n, ends[p]))
    <2>1. TextOK(n)
      BY <1>2 DEF TextOK
    <2>2. Keeps(p, n)
      BY <1>1, ReapIdle
    <2>3. ASSUME p = Main PROVE MainOK(n, ends[p])
      <3>1. MainOK(o, ends[p])
        BY <1>1, <1>5, <2>3 DEF AloneInv
      <3>2. o.home = "shell" /\ Std(ends[p]) /\ Shut(ends[p])
        BY <1>1, <3>1 DEF MainOK
      <3> QED
        BY <1>2, <3>2 DEF MainOK, Moves
    <2> QED
      BY <2>1, <2>2, <2>3
  <1> QED
    BY <1>1, <1>2, <1>3, <1>4, <1>5, LocalStep DEF At, AloneInv

\* WaitPoll: the env that was waited for is not there any more.
LEMMA WaitPollStep ==
    ASSUME TypeInv, NEW p \in Envs, WaitPoll(p)
    PROVE  StepOK
  <1>1. PICK o \in Procs : o = proc[p] /\ ProcOK(p, o, ends[p]) /\ o.at = "wait"
    BY Here DEF WaitPoll, At
  <1>2. PICK n \in Procs : /\ n = [o EXCEPT !.at = "reap"] /\ n.at = "reap" /\ n.child = o.child
                           /\ n.after = o.after /\ Moves(n, o)
    BY MovedRecord DEF Places
  <1>3. Local(p, n, ends[p]) /\ GlobalNext /\ line' = line
    BY <1>1, <1>2, GoesLocal DEF WaitPoll
  <1>4. ProcOK(p, n, ends[p])
    BY <1>1, <1>2 DEF ProcOK, NoRightAt, Moves
  <1>5. \A s \in Living : o.child # Current(s)
    <2>1. env_id[o.child[1]] # o.child[2] \/ At(o.child[1], "free")
      BY <1>1 DEF WaitPoll
    <2> QED
      BY <2>1 DEF Current, Living
  <1>6. ASSUME SensibleLines, AloneInv
        PROVE  TextOK(n) /\ Keeps(p, n) /\ (p = Main => MainOK(n, ends[p]))
    <2>1. TextOK(n)
      <3>1. TextOK(o)
        BY <1>1, <1>6 DEF AloneInv
      <3> QED
        BY <1>1, <1>2, <3>1 DEF TextOK, Moves
    <2>2. Keeps(p, n)
      BY <1>1, <1>2, <1>5 DEF Keeps, Owns, RightAt, Moves
    <2>3. ASSUME p = Main PROVE MainOK(n, ends[p])
      <3>1. MainOK(o, ends[p])
        BY <1>1, <1>6, <2>3 DEF AloneInv
      <3> QED
        BY <1>1, <1>2, <3>1 DEF MainOK, Moves
    <2> QED
      BY <2>1, <2>2, <2>3
  <1> QED
    BY <1>1, <1>2, <1>3, <1>4, <1>6, LocalStep DEF At, AloneInv

\* ExitCloses.
LEMMA ExitClosesStep ==
    ASSUME TypeInv, NEW p \in Envs, ExitCloses(p)
    PROVE  StepOK
  <1>1. PICK o \in Procs : o = proc[p] /\ ProcOK(p, o, ends[p]) /\ o.at = "exit"
    BY Here DEF ExitCloses, At
  <1>2. PICK n \in Procs : n = [o EXCEPT !.at = "dying"] /\ n.at = "dying" /\ Moves(n, o)
    BY MovedRecord DEF Places
  <1>3. PICK e \in Ends4 : e = NoEnds
    BY EndTypes
  <1>4. Local(p, n, e) /\ GlobalNext /\ line' = line
    <2>1. proc' = [proc EXCEPT ![p].at = "dying"] /\ ends' = [ends EXCEPT ![p] = e] /\ UNCHANGED data /\ Same
      BY <1>3 DEF ExitCloses
    <2> QED
      BY <1>1, <1>2, <2>1, MovedLocal
  <1>5. ProcOK(p, n, e)
    BY <1>1, <1>2, <1>3 DEF ProcOK, NoRightAt, Moves
  <1>6. ASSUME SensibleLines, AloneInv
        PROVE  TextOK(n) /\ Keeps(p, n) /\ (p = Main => MainOK(n, e))
    <2>1. TextOK(n)
      BY <1>2 DEF TextOK
    <2>2. Keeps(p, n)
      BY <1>1, ParseIdle
    <2>3. ASSUME p = Main PROVE MainOK(n, e)
      <3>1. o.home = "shell"
        BY <1>1, <1>6, <2>3 DEF AloneInv, MainOK
      <3> QED
        BY <1>2, <3>1 DEF MainOK, Moves
    <2> QED
      BY <2>1, <2>2, <2>3
  <1> QED
    BY <1>1, <1>2, <1>4, <1>5, <1>6, LocalStep DEF At, AloneInv

\* The list f holds the slots of S, once each.
Names(f, S) ==
    /\ f \in Seq(Envs)
    /\ \A i, j \in 1..Len(f) : f[i] = f[j] => i = j
    /\ \A q \in Envs : (\E i \in 1..Len(f) : f[i] = q) <=> q \in S

\* A slot goes back to the head of the free list.
LEMMA FreePush ==
    ASSUME FreeOK, NEW p \in Envs, ~At(p, "free"), NEW f, f = <<p>> \o free
    PROVE  Names(f, { q \in Envs : At(q, "free") \/ q = p })
  <1>1. PICK k \in Nat : k = Len(free) /\ free \in Seq(Envs)
    BY EmptyLen DEF FreeOK
  <1>2. f \in Seq(Envs) /\ Len(f) = k + 1 /\ f[1] = p /\ \A i \in 1..k : f[i + 1] = free[i]
    BY <1>1
  <1>3. \A i \in 1..k : free[i] # p
    BY <1>1 DEF FreeOK
  <1>4. \A i, j \in 1..k : free[i] = free[j] => i = j
    BY <1>1 DEF FreeOK
  <1>5. \A i \in 1..(k + 1) : i = 1 \/ (i - 1 \in 1..k /\ f[i] = free[i - 1])
    <2> SUFFICES ASSUME NEW i \in 1..(k + 1), i # 1 PROVE i - 1 \in 1..k /\ f[i] = free[i - 1]
      OBVIOUS
    <2>1. i - 1 \in 1..k /\ (i - 1) + 1 = i
      BY <1>1
    <2> QED
      BY <1>2, <2>1
  <1>6. ASSUME NEW i \in 1..(k + 1), NEW j \in 1..(k + 1), f[i] = f[j]
        PROVE  i = j
    <2>1. i = 1 => j = 1
      BY <1>2, <1>3, <1>5, <1>6
    <2>2. j = 1 => i = 1
      BY <1>2, <1>3, <1>5, <1>6
    <2>3. i # 1 /\ j # 1 => i - 1 = j - 1
      BY <1>4, <1>5, <1>6
    <2> QED
      BY <1>6, <2>1, <2>2, <2>3
  <1>7. ASSUME NEW q \in Envs
        PROVE  (\E i \in 1..(k + 1) : f[i] = q) <=> At(q, "free") \/ q = p
    <2>1. ASSUME NEW i \in 1..(k + 1), f[i] = q PROVE At(q, "free") \/ q = p
      <3>1. i # 1 => At(q, "free")
        BY <1>1, <1>5, <2>1 DEF FreeOK
      <3> QED
        BY <1>2, <2>1, <3>1
    <2>2. ASSUME At(q, "free") PROVE \E i \in 1..(k + 1) : f[i] = q
      <3>1. PICK i \in 1..k : free[i] = q
        BY <1>1, <2>2 DEF FreeOK
      <3>2. i + 1 \in 1..(k + 1)
        BY <1>1
      <3> QED
        BY <1>2, <3>1, <3>2
    <2>3. q = p => \E i \in 1..(k + 1) : f[i] = q
      <3>1. 1 \in 1..(k + 1)
        BY <1>1
      <3> QED
        BY <1>2, <3>1
    <2> QED
      BY <2>1, <2>2, <2>3
  <1> QED
    BY <1>2, <1>6, <1>7 DEF Names

\* sys_exit: nobody the env could have left behind is alive.
LEMMA SysExitStep ==
    ASSUME TypeInv, NEW p \in Envs, sys_exit(p)
    PROVE  StepOK
  <1>1. PICK o \in Procs : o = proc[p] /\ ProcOK(p, o, ends[p]) /\ o.at = "dying"
    BY Here DEF sys_exit, At
  <1>2. PICK n \in Procs : n = NoProc
    BY NoProcType
  <1>3. n.at = "free" /\ n.right = NoEnv /\ n.home = "shell"
    BY <1>2 DEF NoProc
  <1>4. proc' = [proc EXCEPT ![p] = n] /\ UNCHANGED <<ends, env_id, data, line, nlines>> /\ free' = <<p>> \o free
    BY <1>2 DEF sys_exit
  <1>5. /\ proc' = [q \in Envs |-> proc'[q]] /\ DOMAIN proc' = Envs
        /\ proc'[p] = n /\ \A q \in Envs : q # p => proc'[q] = proc[q]
    BY <1>4 DEF TypeInv, GlobalOK
  <1>6. GlobalOK'
    <2>1. proc[p].r \in Int
      BY <1>1 DEF Procs
    <2>2. env_exit_value' \in [Envs -> Int]
      BY <2>1 DEF sys_exit, TypeInv, GlobalOK
    <2> QED
      BY <1>4, <1>5, <2>2 DEF TypeInv, GlobalOK
  <1>7. ~At(p, "free")
    BY <1>1 DEF At
  <1>8. \A q \in Envs : At(q, "free")' <=> At(q, "free") \/ q = p
    BY <1>3, <1>5 DEF At
  <1>9. FreeOK'
    <2>1. FreeOK
      BY DEF TypeInv
    <2>2. PICK f : f = <<p>> \o free
      OBVIOUS
    <2>3. Names(f, { q \in Envs : At(q, "free") \/ q = p })
      BY <1>7, <2>1, <2>2, FreePush
    <2>4. free' = f
      BY <1>4, <2>2
    <2> QED
      BY <1>8, <2>3, <2>4 DEF FreeOK, Names
  <1>10. \A q \in Envs : ProcOK(q, proc'[q], ends[q])
    <2>1. ends[p] = NoEnds /\ ends[p] \in Ends4
      BY <1>1 DEF ProcOK
    <2>2. ProcOK(p, n, ends[p])
      BY <1>3, <2>1 DEF ProcOK, NoRightAt
    <2> QED
      BY <1>5, <2>2 DEF TypeInv
  <1>11. \A q \in Envs : ProcOK(q, proc[q], ends[q])'
    BY <1>4, <1>10 DEF ProcOK, Good
  <1>12. TypeInv'
    BY <1>6, <1>9, <1>11 DEF TypeInv
  <1>13. ASSUME SensibleLines, AloneInv PROVE AloneInv'
    <2>1. SensibleLine(line)'
      BY <1>4, <1>13 DEF AloneInv, SensibleLine, Sensible, CdLast, Fed
    <2>2. \A q \in Envs : TextOK(proc[q])'
      <3>1. TextOK(n)
        BY <1>3 DEF TextOK
      <3>2. \A q \in Envs : TextOK(proc'[q])
        BY <1>5, <1>13, <3>1 DEF AloneInv
      <3> QED
        BY <3>2 DEF TextOK
    <2>3. MainOK(proc[Main], ends[Main])'
      <3>1. MainOK(n, ends[Main])
        BY <1>3 DEF MainOK
      <3>2. MainOK(proc'[Main], ends[Main])
        BY <1>5, <1>13, <3>1, ShellAssumption DEF AloneInv, Main, Envs
      <3> QED
        BY <1>4, <3>2 DEF MainOK
    <2>4. Tree'
      <3>1. Living' = Living \ {p}
        BY <1>8 DEF Living
      <3>2. \A x \in Envs : Current(x)' = Current(x)
        BY <1>4 DEF Current
      <3> SUFFICES ASSUME NEW S \in SUBSET ((Living \ {p}) \ {Main}), S # {}
                   PROVE  \E x \in S, q \in (Living \ {p}) \ S : Owns(proc'[q], Current(x))
        <4>1. \A x \in Envs : \A n2 : Owns(n2, Current(x))' <=> Owns(n2, Current(x)')
          BY DEF Owns, RightAt
        <4> QED
          BY <3>1, <3>2, <4>1 DEF Tree, Living
      <3>3. PICK x \in S, q \in Living \ S : Owns(proc[q], Current(x))
        BY <1>13 DEF AloneInv, Tree
      <3>4. q # p
        BY <1>1, <3>3 DEF Owns, RightAt
      <3>5. proc'[q] = proc[q]
        BY <1>5, <3>3, <3>4 DEF Living
      <3> QED
        BY <3>3, <3>4, <3>5
    <2> QED
      BY <2>1, <2>2, <2>3, <2>4 DEF AloneInv
  <1> QED
    BY <1>12, <1>13 DEF StepOK

-----------------------------------------------------------------------------
(***************************************************************************)
(* The theorems                                                            *)
(***************************************************************************)

\* The free list at the start.
LEMMA InitFree ==
    ASSUME NEW f, f = [i \in 1..(NENV - 1) |-> i + 1]
    PROVE  Names(f, Envs \ {Main})
  <1>1. PICK k \in Nat : k = NENV - 1 /\ Envs = 1..(k + 1)
    BY ShellAssumption DEF Envs
  <1>2. f = [i \in 1..k |-> i + 1]
    BY <1>1
  <1>3. f \in [1..k -> Envs]
    BY <1>1, <1>2
  <1>4. f \in Seq(Envs) /\ Len(f) = k
    BY <1>1, <1>3
  <1>5. \A i, j \in 1..k : f[i] = f[j] => i = j
    BY <1>1, <1>2
  <1>6. \A q \in Envs : (\E i \in 1..k : f[i] = q) <=> q # Main
    <2> SUFFICES ASSUME NEW q \in Envs PROVE (\E i \in 1..k : f[i] = q) <=> q # Main
      OBVIOUS
    <2>1. ASSUME q # Main PROVE \E i \in 1..k : f[i] = q
      <3>1. q - 1 \in 1..k /\ (q - 1) + 1 = q
        BY <1>1, <2>1 DEF Main
      <3> QED
        BY <1>2, <3>1
    <2>2. ASSUME NEW i \in 1..k, f[i] = q PROVE q # Main
      BY <1>1, <1>2, <2>2 DEF Main
    <2> QED
      BY <2>1, <2>2
  <1> QED
    BY <1>4, <1>5, <1>6 DEF Names

\* The shell at the start.
LEMMA InitMain ==
    \E n \in Procs : n = [NoProc EXCEPT !.at = "prompt"] /\ n.at = "prompt" /\ n.right = NoEnv /\ n.home = "shell"
  <1>1. PICK n : n = [NoProc EXCEPT !.at = "prompt"]
    OBVIOUS
  <1>2. NoProc \in Procs /\ "prompt" \in Places
    BY NoProcType DEF Places
  <1>3. n \in Procs /\ n.at = "prompt" /\ n.right = NoProc.right /\ n.home = NoProc.home
    BY <1>1, <1>2 DEF Procs
  <1>4. NoProc.right = NoEnv /\ NoProc.home = "shell"
    BY DEF NoProc
  <1> QED
    BY <1>1, <1>3, <1>4

\* The ends of the shell at the start.
LEMMA InitEnds ==
    \E e \in Ends4 : e = [NoEnds EXCEPT ![0] = Console, ![1] = Console] /\ Std(e) /\ Shut(e)
  <1>1. PICK e : e = [NoEnds EXCEPT ![0] = Console, ![1] = Console]
    OBVIOUS
  <1>2. e \in Ends4
    BY <1>1, EndTypes DEF Ends4
  <1>3. Std(e) /\ Shut(e)
    BY <1>1 DEF Std, Shut, NoEnds
  <1> QED
    BY <1>1, <1>2, <1>3

\* The first state.
LEMMA InitInv ==
    ASSUME Init
    PROVE  TypeInv /\ (SensibleLines => AloneInv)
  <1>1. PICK n \in Procs : n = [NoProc EXCEPT !.at = "prompt"] /\ n.at = "prompt" /\ n.right = NoEnv /\ n.home = "shell"
    BY InitMain
  <1>2. PICK e \in Ends4 : e = [NoEnds EXCEPT ![0] = Console, ![1] = Console] /\ Std(e) /\ Shut(e)
    BY InitEnds
  <1>3. PICK m \in Procs : m = NoProc /\ m.at = "free" /\ m.right = NoEnv
    BY NoProcType DEF NoProc
  <1>4. Main \in Envs
    BY ShellAssumption DEF Main, Envs
  <1>5. /\ proc = [p \in Envs |-> IF p = Main THEN n ELSE m] /\ ends = [p \in Envs |-> IF p = Main THEN e ELSE NoEnds]
    BY <1>1, <1>2, <1>3 DEF Init
  <1>6. /\ DOMAIN proc = Envs /\ proc = [p \in Envs |-> proc[p]]
        /\ DOMAIN ends = Envs /\ ends = [p \in Envs |-> ends[p]]
        /\ proc[Main] = n /\ ends[Main] = e
        /\ \A p \in Envs : p # Main => proc[p] = m /\ ends[p] = NoEnds
    BY <1>4, <1>5
  <1>7. GlobalOK
    <2>1. env_id \in [Envs -> Nat] /\ env_exit_value \in [Envs -> Int]
      BY DEF Init
    <2>2. data \in [0..NPIPES -> 0..PIPE_SIZE] /\ nlines \in 0..MaxLines
      BY ShellAssumption DEF Init
    <2>3. line \in LineType
      BY DEF Init, LineType
    <2> QED
      BY <1>6, <2>1, <2>2, <2>3 DEF GlobalOK
  <1>8. \A q \in Envs : At(q, "free") <=> q # Main
    BY <1>1, <1>3, <1>6 DEF At
  <1>9. FreeOK
    <2>1. PICK f : f = [i \in 1..(NENV - 1) |-> i + 1]
      OBVIOUS
    <2>2. Names(f, Envs \ {Main})
      BY <2>1, InitFree
    <2>3. free = f
      BY <2>1 DEF Init
    <2> QED
      BY <1>8, <2>2, <2>3 DEF FreeOK, Names
  <1>10. \A p \in Envs : ProcOK(p, proc[p], ends[p])
    <2>1. ProcOK(Main, n, e)
      BY <1>1, <1>2 DEF ProcOK, NoRightAt
    <2>2. \A p \in Envs : ProcOK(p, m, NoEnds)
      BY <1>3, EndTypes DEF ProcOK, NoRightAt
    <2> QED
      BY <1>6, <2>1, <2>2
  <1>11. ASSUME SensibleLines PROVE AloneInv
    <2>1. SensibleLine(line)
      <3>1. PICK t : t = <<>>
        OBVIOUS
      <3>2. line.quote = t /\ line.tokens = t
        BY <3>1 DEF Init
      <3>3. 1..Len(t) = {} /\ "cd" \notin ToSet(t)
        BY <3>1 DEF ToSet
      <3>4. Sensible(t)
        BY <1>11, <3>3 DEF Sensible, SensibleLines, Fed
      <3>5. Fed(Needs, t, FALSE)
        BY <3>3 DEF Fed
      <3> QED
        BY <3>2, <3>4, <3>5 DEF SensibleLine, Whole
    <2>2. \A p \in Envs : TextOK(proc[p])
      <3>1. TextOK(n) /\ TextOK(m)
        BY <1>1, <1>3 DEF TextOK
      <3> QED
        BY <1>6, <3>1
    <2>3. MainOK(proc[Main], ends[Main])
      <3>1. MainOK(n, e)
        BY <1>1, <1>2 DEF MainOK
      <3> QED
        BY <1>6, <3>1
    <2>4. Tree
      <3>1. Living \ {Main} = {}
        BY <1>8 DEF Living
      <3> QED
        BY <3>1 DEF Tree
    <2> QED
      BY <2>1, <2>2, <2>3, <2>4 DEF AloneInv
  <1> QED
    BY <1>7, <1>9, <1>10, <1>11 DEF TypeInv

\* A step of an env.
LEMMA EnvStep ==
    ASSUME TypeInv, NEW p \in Envs, Step(p)
    PROVE  StepOK
  <1>1. CASE Parse(p)
    BY <1>1, ParseEndStep, ParseSkipStep, ParseCommentStep, ParseWordStep, ParseVarStep, ParseListStep,
       ReapListStep, ParseRedirectStep, ParsePipeStep, PipeRightStep, PipeLeftStep DEF Parse
  <1>2. CASE Run(p)
    BY <1>2, RunNothingStep, RunCdStep, RunSpawnStep, RunMissingStep, RunClosesStep, ReapCommandStep,
       ReapRightStep DEF Run
  <1>3. CASE Program(p)
    BY <1>3, ProgramWritesStep, ProgramReadsStep, ProgramCopiesStep, ProgramFailsStep DEF Program
  <1>4. CASE Capture(p)
    BY <1>4, CaptureForksStep, CapturedStartsStep, CaptureStartsStep, CaptureReadsStep, CaptureEndsStep,
       ReapCaptureStep, SpliceStep DEF Capture
  <1>5. CASE MainStep(p)
    BY <1>5, MainSelfStep, MainForksStep, ReapLineStep DEF MainStep
  <1>6. CASE Ends(p)
    BY <1>6, WaitPollStep, ExitClosesStep, SysExitStep DEF Ends
  <1> QED
    BY <1>1, <1>2, <1>3, <1>4, <1>5, <1>6 DEF Step

\* A step that changes nothing.
LEMMA StutterStep ==
    ASSUME TypeInv, UNCHANGED vars
    PROVE  StepOK
  <1>1. TypeInv'
    BY DEF vars, TypeInv, GlobalOK, FreeOK, ProcOK, Good, At
  <1>2. ASSUME AloneInv PROVE AloneInv'
    <2>1. proc' = proc /\ ends' = ends /\ env_id' = env_id /\ line' = line
      BY DEF vars
    <2>2. SensibleLine(line)'
      BY <1>2, <2>1 DEF AloneInv, SensibleLine, Sensible, Fed
    <2>3. \A p \in Envs : TextOK(proc[p])'
      BY <1>2, <2>1 DEF AloneInv, TextOK
    <2>4. MainOK(proc[Main], ends[Main])'
      BY <1>2, <2>1 DEF AloneInv, MainOK
    <2>5. Tree'
      <3>1. Living' = Living /\ \A x \in Envs : Current(x)' = Current(x)
        BY <2>1 DEF Living, Current, At
      <3>2. \A x \in Envs : \A n : Owns(n, Current(x))' <=> Owns(n, Current(x)')
        BY DEF Owns, RightAt
      <3> QED
        BY <1>2, <2>1, <3>1, <3>2 DEF AloneInv, Tree, Living
    <2> QED
      BY <2>2, <2>3, <2>4, <2>5 DEF AloneInv
  <1> QED
    BY <1>1, <1>2 DEF StepOK

\* Every step.
LEMMA NextStep ==
    ASSUME TypeInv, [Next]_vars
    PROVE  StepOK
  BY EnvStep, PromptStep, StutterStep DEF Next

\* TypeInv is inductive.
THEOREM Inductive == Spec => []TypeInv
  <1>1. Init => TypeInv
    BY InitInv
  <1>2. TypeInv /\ [Next]_vars => TypeInv'
    BY NextStep DEF StepOK
  <1> QED
    BY <1>1, <1>2, PTL DEF Spec

\* The number of slots in the free list is the number of its members.
LEMMA FreeLength ==
    ASSUME FreeOK
    PROVE  ToSet(free) = { p \in Envs : At(p, "free") } /\ Cardinality(ToSet(free)) = Len(free)
  <1>1. Len(free) \in Nat /\ DOMAIN free = 1..Len(free) /\ free \in Seq(Envs)
    BY EmptyLen DEF FreeOK
  <1>2. ToSet(free) = { p \in Envs : At(p, "free") }
    BY <1>1 DEF ToSet, FreeOK
  <1>3. free \in Bijection(1..Len(free), ToSet(free))
    BY <1>1 DEF FreeOK, ToSet, Bijection, Injection, Surjection, IsInjective
  <1>4. IsFiniteSet(1..Len(free)) /\ Cardinality(1..Len(free)) = Len(free)
    BY <1>1, FS_Interval
  <1> QED
    BY <1>2, <1>3, <1>4, FS_Bijection DEF ExistsBijection

\* The types, and what goes with them: the free list holds the free slots,
\* once each, a free slot has no descriptors, and whoever waits, waits for an
\* env that was there.
THEOREM Typed == Spec => []TypeOK
  <1>1. TypeInv => TypeOK
    <2> SUFFICES ASSUME TypeInv PROVE TypeOK
      OBVIOUS
    <2>1. ToSet(free) = { p \in Envs : At(p, "free") } /\ Cardinality(ToSet(free)) = Len(free)
      BY FreeLength DEF TypeInv
    <2>2. ends \in [Envs -> [0..3 -> EndType]]
      BY Here DEF TypeInv, GlobalOK, Ends4
    <2>3. \A p \in Envs : At(p, "free") => ends[p] = NoEnds
      BY DEF TypeInv, ProcOK, At
    <2>4. \A p \in Envs : At(p, "wait") => Good(p, proc[p].child)
      BY DEF TypeInv, ProcOK, At
    <2>5. data \in [0..NPIPES -> 0..PIPE_SIZE] /\ nlines \in 0..MaxLines
      BY DEF TypeInv, GlobalOK
    <2> QED
      BY <2>1, <2>2, <2>3, <2>4, <2>5 DEF TypeOK, Good
  <1> QED
    BY <1>1, Inductive, PTL

\* When the shell prompts it is alone, and has nothing but its console:
\* whatever the lines, as long as they are sensible, and in whatever order the
\* envs of a line end.
LEMMA AloneThen ==
    ASSUME TypeInv, AloneInv
    PROVE  AloneAtPrompt
  <1> SUFFICES ASSUME At(Main, "prompt")
               PROVE  /\ \A p \in Envs \ {Main} : At(p, "free")
                      /\ ends[Main] = [NoEnds EXCEPT ![0] = Console, ![1] = Console]
    BY DEF AloneAtPrompt
  <1>1. Main \in Envs /\ proc[Main].at = "prompt"
    BY ShellAssumption DEF Main, Envs, At
  <1>2. Living \ {Main} = {}
    <2> SUFFICES ASSUME Living \ {Main} # {} PROVE FALSE
      OBVIOUS
    <2>1. PICK s \in Living \ {Main}, q \in Living \ (Living \ {Main}) : Owns(proc[q], Current(s))
      BY DEF AloneInv, Tree
    <2>2. Owns(proc[Main], Current(s))
      BY <2>1
    <2> QED
      BY <1>1, <2>2 DEF Owns, RightAt
  <1>3. Std(ends[Main]) /\ Shut(ends[Main])
    BY <1>1 DEF AloneInv, MainOK
  <1>4. ends[Main] = [NoEnds EXCEPT ![0] = Console, ![1] = Console]
    <2>1. ends[Main] \in Ends4
      BY <1>1, Here
    <2> QED
      BY <1>3, <2>1 DEF Std, Shut, Ends4, NoEnds
  <1> QED
    BY <1>2, <1>4 DEF Living

\* AloneAtPrompt, for every number of envs, pipes, lines and writes.
THEOREM ShellAlone ==
    ASSUME SensibleLines
    PROVE  Spec => []AloneAtPrompt
  <1>1. Init => TypeInv /\ AloneInv
    BY InitInv
  <1>2. TypeInv /\ AloneInv /\ [Next]_vars => TypeInv' /\ AloneInv'
    BY NextStep DEF StepOK
  <1>3. TypeInv /\ AloneInv => AloneAtPrompt
    BY AloneThen
  <1> QED
    BY <1>1, <1>2, <1>3, PTL DEF Spec

-----------------------------------------------------------------------------
(***************************************************************************)
(* Lists of commands                                                       *)
(***************************************************************************)

\* The shell prompts, or has a line in hand that leads to the next prompt.
Listing(n) ==
    \/ n.at \in {"prompt", "line", "parse"}
    \/ n.at = "runcmd" /\ n.right = NoEnv
    \/ n.at \in {"wait", "reap"} /\ n.after \in ListOps \cup {"line"}

\* An env that ends without reading a line.
Tame(n) ==
    \/ n.at \in {"program", "spawned", "exit", "dying"}
    \/ n.at \in {"wait", "reap"} /\ n.after \in {"command", "right"}
    \/ n.at = "runcmd" /\ n.argv # <<>> /\ Head(n.argv) # "cd"
    \/ n.home = "line" /\ n.at \in {"parse", "right", "left", "runcmd"}
    \/ n.home = "line" /\ n.at \in {"wait", "reap"} /\ n.after \in ListOps

\* Nobody but the shell reads a line while it has one in hand.
TameInv == Listing(proc[Main]) => \A p \in Living \ {Main} : Tame(proc[p])

\* The env c is there, or has ended with the value r and its slot is unused.
Alive(c) == ~At(c[1], "free") /\ env_id[c[1]] = c[2]
Ended(c, r) == At(c[1], "free") /\ env_id[c[1]] = c[2] /\ env_exit_value[c[1]] = r

\* q executes a program.
Executes(q, word) ==
    \/ At(q, "program") /\ proc[q].argv # <<>> /\ Head(proc[q].argv) = word
    \/ proc[q].at \in {"exit", "dying"} /\ proc[q].r = Result(word)
Spawned(c, word) == (Alive(c) /\ Executes(c[1], word)) \/ Ended(c, Result(word))

\* d runs a command, in runcmd and behind it; before ran before it.
Command(d, word, before) ==
    /\ proc[d].right = NoEnv
    /\ \/ /\ At(d, "runcmd") /\ proc[d].argv # <<>> /\ Head(proc[d].argv) = word
          /\ ran = before
       \/ /\ ran = Append(before, word)
          /\ \/ At(d, "spawned") /\ proc[d].child = NoEnv /\ Result(word) = 1
             \/ At(d, "spawned") /\ proc[d].child # NoEnv /\ Spawned(proc[d].child, word)
             \/ At(d, "wait") /\ proc[d].after = "command" /\ Spawned(proc[d].child, word)
             \/ At(d, "reap") /\ proc[d].after = "command" /\ Ended(proc[d].child, Result(word))
             \/ proc[d].at \in {"exit", "dying"} /\ proc[d].r = Result(word)

\* The env c runs a command or has run it.
Runs(c, word, before) ==
    \/ Alive(c) /\ Command(c[1], word, before)
    \/ Ended(c, Result(word)) /\ ran = Append(before, word)

\* What the first k tokens of a line mean, and whether the last is an operator.
Upto(t, k) == Meant(t)[k]
Op(t, k) == t[k] \in ListOps

\* n has read the first k tokens of the line t.
Rests(n, t, k) ==
    /\ Len(n.tokens) = Len(t) - k
    /\ \A i \in 1..(Len(t) - k) : n.tokens[i] = t[k + i]

\* Where n can be then, if the commands x have run: before a command, behind
\* one, where it skips, and at the end of the line.
Fresh(n, t, k, x) ==
    /\ n.at = "parse" /\ n.next /\ n.argv = <<>>
    /\ k = 0 \/ Op(t, k)
    /\ Upto(t, k).runs /\ x = Upto(t, k).ran
HasRead(n, t, k, x) ==
    /\ n.at = "parse" /\ n.next /\ n.argv # <<>>
    /\ k # 0 /\ ~Op(t, k) /\ Head(n.argv) = t[k]
    /\ Upto(t, k - 1).runs /\ x = Upto(t, k - 1).ran
Skips(n, t, k, x) ==
    /\ n.at = "parse" /\ ~n.next /\ n.argv = <<>>
    /\ \E i \in 1..k : t[i] \in {"a", "o"}
    /\ ~Upto(t, k).runs /\ n.flag = Upto(t, k).r /\ x = Upto(t, k).ran
Parses(n, t, k, x) == Rests(n, t, k) /\ (Fresh(n, t, k, x) \/ HasRead(n, t, k, x) \/ Skips(n, t, k, x))
Nothing(n, t, k, x) == k = Len(t) /\ n.at = "runcmd" /\ n.argv = <<>> /\ x = Upto(t, k).ran
Leaves(n, t, k, x) == k = Len(t) /\ n.at \in {"exit", "dying"} /\ x = Upto(t, k).ran

\* It waits for the child that runs a command, or runs the last one itself.
Listed(n, t, k) ==
    /\ n.next /\ n.after \in ListOps /\ k >= 2 /\ ~Op(t, k - 1) /\ n.after = t[k]
    /\ Upto(t, k - 2).runs /\ Rests(n, t, k)
Lists(n, t, k) ==
    /\ Listed(n, t, k)
    /\ \/ n.at = "wait" /\ Runs(n.child, t[k - 1], Upto(t, k - 2).ran)
       \/ /\ n.at = "reap" /\ Ended(n.child, Result(t[k - 1]))
          /\ ran = Append(Upto(t, k - 2).ran, t[k - 1])
LastWord(t, k) == k = Len(t) /\ k # 0 /\ ~Op(t, k) /\ Upto(t, k - 1).runs
Final(w, t, k) == LastWord(t, k) /\ Command(w, t[k], Upto(t, k - 1).ran)

\* w runs the line t.
Works(w, t, k) ==
    \/ Parses(proc[w], t, k, ran) \/ Lists(proc[w], t, k) \/ Final(w, t, k)
    \/ Nothing(proc[w], t, k, ran) \/ Leaves(proc[w], t, k, ran)
Worker(w, t) ==
    /\ proc[w].right = NoEnv
    /\ \E k \in 0..Len(t) : Works(w, t, k)

\* The shell and its line t.
Chain(t) ==
    \/ At(Main, "prompt") /\ ran = Meaning(t)
    \/ At(Main, "line") /\ proc[Main].tokens = t /\ proc[Main].next /\ ran = <<>>
    \/ /\ At(Main, "wait") /\ proc[Main].after = "line"
       /\ \/ LET c == proc[Main].child IN Alive(c) /\ proc[c[1]].home = "line" /\ Worker(c[1], t)
          \/ ~Alive(proc[Main].child) /\ ran = Meaning(t)
    \/ At(Main, "reap") /\ proc[Main].after = "line" /\ ran = Meaning(t)
    \/ Worker(Main, t)
ListInv == Listing(proc[Main]) /\ PlainList(line.tokens) => Chain(line.tokens)

\* The shell skips tokens only inside of a line.
NextInv == proc[Main].next \/ At(Main, "parse")

-----------------------------------------------------------------------------
(***************************************************************************)
(* What each action does to the env that takes it                          *)
(***************************************************************************)

\* Only p changes, and becomes n.
Only(p, n) ==
    /\ proc'[p] = n /\ \A x \in Envs \ {p} : proc'[x] = proc[x]
    /\ env_id' = env_id /\ env_exit_value' = env_exit_value /\ line' = line

\* p becomes n and makes m in the slot s.
Makes(p, n, s, m) ==
    /\ s \in Envs \ {p} /\ At(s, "free") /\ proc'[p] = n /\ proc'[s] = m
    /\ \A x \in Envs \ {p, s} : proc'[x] = proc[x]
    /\ env_id'[s] = env_id[s] + 1 /\ \A x \in Envs \ {s} : env_id'[x] = env_id[x]
    /\ line' = line

\* n has what o has, but for what is left of the line and where it is.
Alike(n, o) == n.argv = o.argv /\ n.next = o.next /\ n.right = o.right /\ n.home = o.home

\* A step of p that changes nothing but proc[p] among the envs.
LEMMA OnlyIf ==
    ASSUME TypeInv, NEW p \in Envs, NEW n, proc' = [proc EXCEPT ![p] = n],
           UNCHANGED <<env_id, env_exit_value, line>>
    PROVE  Only(p, n)
  BY DEF Only, TypeInv, GlobalOK

\* A step that changes proc[p] only.
LEMMA OnlyGoes ==
    ASSUME TypeInv, NEW p \in Envs, NEW n, Goes(p, n)
    PROVE  Only(p, n) /\ ran' = ran
  BY OnlyIf DEF Goes, Same

\* A fork.
LEMMA ForkMakes ==
    ASSUME TypeInv, NEW p \in Envs, NEW n, NEW e, NEW s, NEW m, Forked(p, n, e, s, m), ~At(p, "free"),
           line' = line
    PROVE  Makes(p, n, s, m)
  BY ForkedEnvs DEF Makes

\* ParseEnd: the command that was read is run.
LEMMA ParseEndDoes ==
    ASSUME TypeInv, NEW p \in Envs, ParseEnd(p)
    PROVE  \E n \in Procs :
             /\ Only(p, n) /\ ran' = ran /\ At(p, "parse") /\ proc[p].tokens = <<>>
             /\ n.at = "runcmd" /\ n.next
             /\ n.argv = proc[p].argv /\ n.right = proc[p].right /\ n.home = proc[p].home
  <1>1. PICK o \in Procs : o = proc[p]
    BY Here
  <1>2. PICK n : n = [o EXCEPT !.next = TRUE, !.flag = 0, !.at = "runcmd"]
    OBVIOUS
  <1>3. Goes(p, n)
    BY <1>1, <1>2 DEF ParseEnd
  <1>4. n \in Procs /\ n.at = "runcmd" /\ n.next /\ n.argv = o.argv /\ n.right = o.right /\ n.home = o.home
    <2>1. "runcmd" \in Places /\ TRUE \in BOOLEAN /\ 0 \in Int
      BY DEF Places
    <2>2. [o EXCEPT !.next = TRUE, !.flag = 0, !.at = "runcmd"] \in Procs
      BY <2>1 DEF Procs
    <2>3. n.next = TRUE
      BY <1>2 DEF Procs
    <2>4. n.at = "runcmd" /\ n.argv = o.argv /\ n.right = o.right /\ n.home = o.home
      BY <1>2 DEF Procs
    <2> QED
      BY <1>2, <2>2, <2>3, <2>4
  <1> QED
    BY <1>1, <1>3, <1>4, OnlyGoes DEF ParseEnd

\* ParseSkip: one token less.
LEMMA ParseSkipDoes ==
    ASSUME TypeInv, NEW p \in Envs, ParseSkip(p)
    PROVE  \E n \in Procs :
             /\ Only(p, n) /\ ran' = ran /\ At(p, "parse") /\ proc[p].tokens # <<>> /\ ~proc[p].next
             /\ n.at = "parse" /\ n.tokens = Tail(proc[p].tokens) /\ n.flag = proc[p].flag
             /\ n.next = Resumes(Head(proc[p].tokens), proc[p].flag)
             /\ n.argv = proc[p].argv /\ n.right = proc[p].right /\ n.home = proc[p].home
  <1>1. PICK o \in Procs : o = proc[p] /\ o.at = "parse" /\ o.tokens # <<>> /\ ~o.next
    BY Here DEF ParseSkip, At
  <1>2. PICK t \in Seq(STRING) : t = Tail(o.tokens)
    BY <1>1, Here, TailOf
  <1>3. PICK b \in BOOLEAN : b = Resumes(Head(o.tokens), o.flag)
    BY DEF Resumes
  <1>4. PICK n : n = [o EXCEPT !.tokens = t, !.next = b]
    OBVIOUS
  <1>5. Goes(p, n)
    <2>1. n = [Rest(p) EXCEPT !.next = Resumes(Token(p), proc[p].flag)]
      BY <1>1, <1>2, <1>3, <1>4 DEF Rest, Token, Procs
    <2> QED
      BY <2>1 DEF ParseSkip
  <1>6. n \in Procs /\ n.at = "parse" /\ n.tokens = t /\ n.flag = o.flag /\ n.next = b
    BY <1>1, <1>2, <1>3, <1>4 DEF Procs
  <1>7. n.argv = o.argv /\ n.right = o.right /\ n.home = o.home
    BY <1>4 DEF Procs
  <1>8. Only(p, n) /\ ran' = ran
    BY <1>5, OnlyGoes
  <1> QED
    BY <1>1, <1>2, <1>3, <1>6, <1>7, <1>8 DEF At

\* ParseComment: the rest of the line is left.
LEMMA ParseCommentDoes ==
    ASSUME TypeInv, NEW p \in Envs, ParseComment(p)
    PROVE  \E n \in Procs :
             /\ Only(p, n) /\ ran' = ran /\ Reads(p, "#") /\ proc[p].next
             /\ n.at = "runcmd" /\ Alike(n, proc[p])
  <1>1. PICK o \in Procs : o = proc[p]
    BY Here
  <1>2. PICK n \in Procs : n = [o EXCEPT !.at = "runcmd"] /\ n.at = "runcmd" /\ Moves(n, o)
    BY MovedRecord DEF Places
  <1>3. Goes(p, n)
    BY <1>1, <1>2 DEF ParseComment
  <1> QED
    BY <1>1, <1>2, <1>3, OnlyGoes DEF ParseComment, Reads, Parsing, Moves, Alike

\* ParseWord: the token is a word of the command.
LEMMA ParseWordDoes ==
    ASSUME TypeInv, NEW p \in Envs, ParseWord(p)
    PROVE  \E n \in Procs :
             /\ Only(p, n) /\ ran' = ran /\ Parsing(p) /\ Head(proc[p].tokens) \notin Symbols
             /\ n.at = "parse" /\ n.tokens = Tail(proc[p].tokens)
             /\ n.argv = Append(proc[p].argv, Head(proc[p].tokens))
             /\ n.next = proc[p].next /\ n.right = proc[p].right /\ n.home = proc[p].home
  <1>1. PICK o \in Procs : o = proc[p] /\ o.at = "parse" /\ o.tokens # <<>>
    BY Here DEF ParseWord, Parsing, At
  <1>2. PICK t \in Seq(STRING) : t = Tail(o.tokens)
    BY <1>1, Here, TailOf
  <1>3. PICK a \in Seq(STRING) : a = Append(o.argv, Head(o.tokens))
    <2>1. o.argv \in Seq(STRING) /\ o.tokens \in Seq(STRING)
      BY DEF Procs
    <2>2. Head(o.tokens) \in STRING
      BY <1>1, <2>1, TailSeq
    <2>3. Append(o.argv, Head(o.tokens)) \in Seq(STRING)
      BY <2>1, <2>2
    <2> QED
      BY <2>3
  <1>4. PICK n : n = [o EXCEPT !.tokens = t, !.argv = a]
    OBVIOUS
  <1>5. Goes(p, n)
    <2>1. n = [Rest(p) EXCEPT !.argv = Append(@, Token(p))]
      BY <1>1, <1>2, <1>3, <1>4 DEF Rest, Token, Procs
    <2> QED
      BY <2>1 DEF ParseWord
  <1>6. n \in Procs /\ n.at = "parse" /\ n.tokens = t /\ n.argv = a
    BY <1>1, <1>2, <1>3, <1>4 DEF Procs
  <1>7. n.next = o.next /\ n.right = o.right /\ n.home = o.home
    BY <1>4 DEF Procs
  <1>8. Only(p, n) /\ ran' = ran
    BY <1>5, OnlyGoes
  <1> QED
    BY <1>1, <1>2, <1>3, <1>6, <1>7, <1>8 DEF ParseWord, Token

\* ParseVar: the value of a variable is a word, and a name without one ends
\* the env.
LEMMA ParseVarDoes ==
    ASSUME TypeInv, NEW p \in Envs, ParseVar(p)
    PROVE  \E n :
             /\ Only(p, n) /\ ran' = ran /\ Reads(p, "$")
             /\ n.at \in {"parse", "exit"} /\ n.next = proc[p].next /\ n.home = proc[p].home
  <1>1. PICK o \in Procs : o = proc[p] /\ o.at = "parse"
    BY Here DEF ParseVar, Reads, Parsing, At
  <1>2. PICK n : n = IF WordFollows(p) /\ proc[p].tokens[2] \in DOMAIN Vars
                     THEN [Rest2(p) EXCEPT !.argv = Append(@, Vars[proc[p].tokens[2]])]
                     ELSE Exits(Rest(p), 1)
    OBVIOUS
  <1>3. Goes(p, n) /\ Reads(p, "$")
    BY <1>2 DEF ParseVar
  <1>4. PICK u : u = [o EXCEPT !.tokens = Tail(Tail(@))]
    OBVIOUS
  <1>5. u.at = "parse" /\ u.next = o.next /\ u.home = o.home /\ u = Rest2(p)
    BY <1>1, <1>4 DEF Procs, Rest2
  <1>6. PICK v : v = [u EXCEPT !.argv = Append(@, Vars[proc[p].tokens[2]])]
    OBVIOUS
  <1>7. v.at = "parse" /\ v.next = o.next /\ v.home = o.home
    BY <1>1, <1>4, <1>5, <1>6 DEF Procs
  <1>8. PICK t : t = [o EXCEPT !.tokens = Tail(@)]
    OBVIOUS
  <1>9. t.next = o.next /\ t.home = o.home /\ t = Rest(p)
    BY <1>1, <1>8 DEF Procs, Rest
  <1>10. PICK x : x = [t EXCEPT !.at = "exit", !.r = 1]
    OBVIOUS
  <1>11. x.at = "exit" /\ x.next = o.next /\ x.home = o.home
    BY <1>1, <1>8, <1>9, <1>10 DEF Procs
  <1>12. n = v \/ n = x
    BY <1>2, <1>5, <1>6, <1>9, <1>10 DEF Exits
  <1>13. n.at \in {"parse", "exit"} /\ n.next = o.next /\ n.home = o.home
    BY <1>7, <1>11, <1>12
  <1> QED
    BY <1>1, <1>3, <1>13, OnlyGoes

\* ParseRedirect: the same with a file.
LEMMA ParseRedirectDoes ==
    ASSUME TypeInv, NEW p \in Envs, ParseRedirect(p)
    PROVE  \E n :
             /\ Only(p, n) /\ ran' = ran /\ (Reads(p, "<") \/ Reads(p, ">"))
             /\ n.at \in {"parse", "exit"} /\ n.next = proc[p].next /\ n.home = proc[p].home
  <1>1. PICK token \in {"<", ">"}, found \in BOOLEAN :
          /\ Reads(p, token)
          /\ \/ proc' = [proc EXCEPT ![p] = Rest2(p)]
             \/ proc' = [proc EXCEPT ![p] = Exits(Rest(p), 1)]
          /\ Same
    BY DEF ParseRedirect
  <1>2. PICK o \in Procs : o = proc[p] /\ o.at = "parse"
    BY <1>1, Here DEF Reads, Parsing, At
  <1>3. PICK u : u = [o EXCEPT !.tokens = Tail(Tail(@))]
    OBVIOUS
  <1>4. u.at = "parse" /\ u.next = o.next /\ u.home = o.home /\ u = Rest2(p)
    BY <1>2, <1>3 DEF Procs, Rest2
  <1>5. PICK t : t = [o EXCEPT !.tokens = Tail(@)]
    OBVIOUS
  <1>6. t.next = o.next /\ t.home = o.home /\ t = Rest(p)
    BY <1>2, <1>5 DEF Procs, Rest
  <1>7. PICK x : x = [t EXCEPT !.at = "exit", !.r = 1]
    OBVIOUS
  <1>8. x.at = "exit" /\ x.next = o.next /\ x.home = o.home
    BY <1>2, <1>5, <1>6, <1>7 DEF Procs
  <1>9. PICK n : proc' = [proc EXCEPT ![p] = n] /\ (n = u \/ n = x)
    BY <1>1, <1>4, <1>6, <1>7 DEF Exits
  <1>10. Only(p, n) /\ ran' = ran
    BY <1>1, <1>9, OnlyIf DEF Same
  <1>11. n.at \in {"parse", "exit"} /\ n.next = o.next /\ n.home = o.home
    BY <1>4, <1>8, <1>9
  <1> QED
    BY <1>1, <1>2, <1>10, <1>11

\* ParseList: a child runs what was read so far.
LEMMA ParseListDoes ==
    ASSUME TypeInv, NEW p \in Envs, ParseList(p)
    PROVE  \E op \in ListOps : \E n, s, m :
             /\ Reads(p, op) /\ Makes(p, n, s, m) /\ ran' = ran
             /\ n.at = "wait" /\ n.after = op /\ n.child = <<s, env_id[s] + 1>>
             /\ n.tokens = Tail(proc[p].tokens)
             /\ n.next = proc[p].next /\ n.right = proc[p].right /\ n.home = proc[p].home
             /\ m.at = "runcmd" /\ Alike(m, proc[p])
  <1>1. PICK op \in ListOps :
          /\ Reads(p, op)
          /\ Fork(p, ends[p], LAMBDA c : Waits(Rest(p), c, op), [Rest(p) EXCEPT !.at = "runcmd"])
          /\ UNCHANGED <<data, line, ran>>
    BY DEF ParseList, ListOps
  <1>2. PICK o \in Procs : o = proc[p] /\ o.at = "parse"
    BY <1>1, Here DEF Reads, Parsing, At
  <1>3. PICK t : t = Tail(o.tokens)
    OBVIOUS
  <1>4. PICK s, c : s = Head(free) /\ c = <<s, env_id[s] + 1>>
    OBVIOUS
  <1>5. PICK n : n = [o EXCEPT !.tokens = t, !.at = "wait", !.child = c, !.after = op]
    OBVIOUS
  <1>6. PICK m : m = [o EXCEPT !.tokens = t, !.at = "runcmd"]
    OBVIOUS
  <1>7. n = Waits(Rest(p), c, op) /\ m = [Rest(p) EXCEPT !.at = "runcmd"]
    BY <1>2, <1>3, <1>5, <1>6 DEF Waits, Rest, Procs
  <1>8. Forked(p, n, ends[p], s, m)
    BY <1>1, <1>4, <1>7 DEF Forked, Fork
  <1>9. Makes(p, n, s, m)
    BY <1>1, <1>2, <1>8, ForkMakes DEF At
  <1>10. /\ n.at = "wait" /\ n.after = op /\ n.child = c /\ n.tokens = t
         /\ n.next = o.next /\ n.right = o.right /\ n.home = o.home
    BY <1>5 DEF Procs
  <1>11. m.at = "runcmd" /\ Alike(m, o)
    BY <1>6 DEF Procs, Alike
  <1> QED
    BY <1>1, <1>2, <1>3, <1>4, <1>9, <1>10, <1>11

\* ReapList: the value of the child decides about the next command.
LEMMA ReapListDoes ==
    ASSUME TypeInv, NEW p \in Envs, ReapList(p)
    PROVE  \E n :
             /\ Only(p, n) /\ ran' = ran /\ At(p, "reap") /\ proc[p].after \in ListOps
             /\ n.at = "parse" /\ n.argv = <<>> /\ n.tokens = proc[p].tokens
             /\ n.right = proc[p].right /\ n.home = proc[p].home
             /\ proc[p].after = ";" => n.next = proc[p].next
             /\ proc[p].after = "a" => n.flag = sys_wait(proc[p].child) /\ n.next = (n.flag = 0)
             /\ proc[p].after = "o" => n.flag = sys_wait(proc[p].child) /\ n.next = (n.flag # 0)
  <1>1. PICK o \in Procs : o = proc[p]
    BY Here
  <1>2. PICK r : r = sys_wait(o.child)
    OBVIOUS
  <1>3. PICK a : a = <<>>
    OBVIOUS
  <1>4. PICK f, b : /\ f = (IF o.after = ";" THEN o.flag ELSE r)
                    /\ b = CASE o.after = ";" -> o.next [] o.after = "a" -> r = 0 [] o.after = "o" -> r # 0
    OBVIOUS
  <1>5. PICK n : n = [o EXCEPT !.at = "parse", !.argv = a, !.flag = f, !.next = b]
    OBVIOUS
  <1>6. proc' = [proc EXCEPT ![p] = n]
    BY <1>1, <1>2, <1>3, <1>4, <1>5 DEF ReapList
  <1>7. Only(p, n) /\ ran' = ran
    BY <1>6, OnlyIf DEF ReapList, Same
  <1>8. n.at = "parse" /\ n.argv = a /\ n.tokens = o.tokens /\ n.right = o.right /\ n.home = o.home
    BY <1>5 DEF Procs
  <1>9. n.flag = f /\ n.next = b
    BY <1>5 DEF Procs
  <1>10. o.after \in ListOps /\ At(p, "reap")
    BY <1>1 DEF ReapList, ListOps
  <1>11. o.after = ";" => b = o.next
    BY <1>4
  <1>12. o.after = "a" => f = r /\ b = (r = 0)
    BY <1>4
  <1>13. o.after = "o" => f = r /\ b = (r # 0)
    BY <1>4
  <1> QED
    BY <1>1, <1>2, <1>3, <1>7, <1>8, <1>9, <1>10, <1>11, <1>12, <1>13

\* ParsePipe: a child reads on, the env runs what was read.
LEMMA ParsePipeDoes ==
    ASSUME TypeInv, NEW p \in Envs, ParsePipe(p)
    PROVE  \E n, s, m :
             /\ Reads(p, "|") /\ Makes(p, n, s, m) /\ ran' = ran
             /\ n.at = "left" /\ n.right = <<s, env_id[s] + 1>>
             /\ n.next = proc[p].next /\ n.home = proc[p].home
             /\ m.at = "right" /\ m.home = proc[p].home
  <1>1. PICK q : q = Min(UnusedPipes)
    OBVIOUS
  <1>2. PICK e : e = [ends[p] EXCEPT ![2] = <<q, "r">>, ![3] = <<q, "w">>]
    OBVIOUS
  <1>3. /\ Reads(p, "|")
        /\ Fork(p, e, LAMBDA c : [Rest(p) EXCEPT !.at = "left", !.right = c],
                [Rest(p) EXCEPT !.at = "right", !.right = NoEnv])
        /\ UNCHANGED <<line, ran>>
    BY <1>1, <1>2 DEF ParsePipe, WithPipe
  <1>4. PICK o \in Procs : o = proc[p] /\ o.at = "parse"
    BY <1>3, Here DEF Reads, Parsing, At
  <1>5. PICK t : t = Tail(o.tokens)
    OBVIOUS
  <1>6. PICK s, c : s = Head(free) /\ c = <<s, env_id[s] + 1>>
    OBVIOUS
  <1>7. PICK n : n = [o EXCEPT !.tokens = t, !.at = "left", !.right = c]
    OBVIOUS
  <1>8. PICK m : m = [o EXCEPT !.tokens = t, !.at = "right", !.right = NoEnv]
    OBVIOUS
  <1>9. n = [Rest(p) EXCEPT !.at = "left", !.right = c] /\ m = [Rest(p) EXCEPT !.at = "right", !.right = NoEnv]
    BY <1>4, <1>5, <1>7, <1>8 DEF Rest, Procs
  <1>10. Forked(p, n, e, s, m)
    BY <1>3, <1>6, <1>9 DEF Forked, Fork
  <1>11. Makes(p, n, s, m)
    BY <1>3, <1>4, <1>10, ForkMakes DEF At
  <1>12. n.at = "left" /\ n.right = c /\ n.next = o.next /\ n.home = o.home
    BY <1>7 DEF Procs
  <1>13. m.at = "right" /\ m.home = o.home
    BY <1>8 DEF Procs
  <1> QED
    BY <1>3, <1>4, <1>6, <1>11, <1>12, <1>13

\* PipeRight: the right side reads on.
LEMMA PipeRightDoes ==
    ASSUME TypeInv, NEW p \in Envs, PipeRight(p)
    PROVE  \E n : /\ Only(p, n) /\ ran' = ran /\ At(p, "right")
                  /\ n.at = "parse" /\ n.next = proc[p].next /\ n.home = proc[p].home
  <1>1. PICK o \in Procs : o = proc[p]
    BY Here
  <1>2. PICK n : n = [o EXCEPT !.at = "parse", !.argv = <<>>]
    OBVIOUS
  <1>3. proc' = [proc EXCEPT ![p] = n]
    BY <1>1, <1>2 DEF PipeRight
  <1>4. n.at = "parse" /\ n.next = o.next /\ n.home = o.home
    BY <1>2 DEF Procs
  <1> QED
    BY <1>1, <1>3, <1>4, OnlyIf DEF PipeRight, Same

\* PipeLeft: the left side runs its command.
LEMMA PipeLeftDoes ==
    ASSUME TypeInv, NEW p \in Envs, PipeLeft(p)
    PROVE  \E n : /\ Only(p, n) /\ ran' = ran /\ At(p, "left")
                  /\ n.at = "runcmd" /\ Alike(n, proc[p])
  <1>1. PICK o \in Procs : o = proc[p]
    BY Here
  <1>2. PICK n \in Procs : n = [o EXCEPT !.at = "runcmd"] /\ n.at = "runcmd" /\ Moves(n, o)
    BY MovedRecord DEF Places
  <1>3. proc' = [proc EXCEPT ![p] = n]
    BY <1>1, <1>2 DEF PipeLeft
  <1> QED
    BY <1>1, <1>2, <1>3, OnlyIf DEF PipeLeft, Same, Moves, Alike

\* Where runcmd returns to, in its three homes.
LEMMA Returns ==
    ASSUME NEW o \in Procs
    PROVE  \E n \in Procs :
             /\ n = Returned(o) /\ n.next = o.next /\ n.right = o.right /\ n.home = o.home
             /\ n.at \in {"prompt", "splice", "exit"}
             /\ o.home = "shell" => n.at = "prompt"
             /\ o.home = "line" => n.at = "exit" /\ n.r = 0
  <1>1. PICK n \in Procs : /\ n = Returned(o) /\ n.at \in {"prompt", "splice", "exit"} /\ Moves(n, o)
                           /\ o.home = "shell" => n.at = "prompt"
    BY ReturnedRecord
  <1>2. ASSUME o.home = "line" PROVE n.at = "exit" /\ n.r = 0
    <2>1. PICK m \in Procs : m = Exits(o, 0)
      BY ExitsRecord
    <2>2. m.at = "exit" /\ m.r = 0
      BY <2>1 DEF Procs, Exits
    <2>3. m = Returned(o)
      BY <1>2, <2>1 DEF Returned
    <2> QED
      BY <1>1, <2>2, <2>3, Zenon
  <1>3. n.next = o.next /\ n.right = o.right /\ n.home = o.home
    BY <1>1, Zenon DEF Moves
  <1> QED
    BY <1>1, <1>2, <1>3, Zenon

\* RunNothing: back to where runcmd was called.
LEMMA RunNothingDoes ==
    ASSUME TypeInv, NEW p \in Envs, RunNothing(p)
    PROVE  \E n :
             /\ Only(p, n) /\ ran' = ran /\ At(p, "runcmd") /\ proc[p].argv = <<>>
             /\ n.next = proc[p].next /\ n.right = proc[p].right /\ n.home = proc[p].home
             /\ n.at \in {"prompt", "splice", "exit"}
             /\ proc[p].home = "shell" => n.at = "prompt"
             /\ proc[p].home = "line" => n.at = "exit" /\ n.r = 0
  <1>1. PICK o \in Procs : o = proc[p]
    BY Here
  <1>2. PICK n \in Procs :
             /\ n = Returned(o) /\ n.next = o.next /\ n.right = o.right /\ n.home = o.home
             /\ n.at \in {"prompt", "splice", "exit"}
             /\ o.home = "shell" => n.at = "prompt"
             /\ o.home = "line" => n.at = "exit" /\ n.r = 0
    BY Returns
  <1>3. Goes(p, n) /\ At(p, "runcmd") /\ o.argv = <<>>
    BY <1>1, <1>2 DEF RunNothing
  <1> QED
    BY <1>1, <1>2, <1>3, OnlyGoes

\* RunCd: as well, after cd has been run.
LEMMA RunCdDoes ==
    ASSUME TypeInv, NEW p \in Envs, RunCd(p)
    PROVE  \E n :
             /\ Only(p, n) /\ ran' = Append(ran, "cd")
             /\ At(p, "runcmd") /\ proc[p].argv # <<>> /\ Head(proc[p].argv) = "cd"
             /\ n.next = proc[p].next /\ n.right = proc[p].right /\ n.home = proc[p].home
             /\ n.at \in {"prompt", "splice", "exit"}
             /\ proc[p].home = "shell" => n.at = "prompt"
             /\ proc[p].home = "line" => n.at = "exit" /\ n.r = 0
  <1>1. PICK o \in Procs : o = proc[p]
    BY Here
  <1>2. PICK u \in Procs :
             /\ u = Returned(o) /\ u.next = o.next /\ u.right = o.right /\ u.home = o.home
             /\ u.at \in {"prompt", "splice", "exit"}
             /\ o.home = "shell" => u.at = "prompt"
             /\ o.home = "line" => u.at = "exit" /\ u.r = 0
    BY Returns
  <1>3. PICK found \in BOOLEAN : proc' = [proc EXCEPT ![p] = [u EXCEPT !.cd = @ \/ found]]
    BY <1>1, <1>2 DEF RunCd
  <1>4. PICK n : n = [u EXCEPT !.cd = @ \/ found]
    OBVIOUS
  <1>5. n.next = u.next /\ n.right = u.right /\ n.home = u.home /\ n.at = u.at /\ n.r = u.r
    BY <1>4 DEF Procs
  <1>6. Only(p, n)
    BY <1>3, <1>4, OnlyIf DEF RunCd
  <1>7. At(p, "runcmd") /\ o.argv # <<>> /\ Head(o.argv) = "cd" /\ ran' = Append(ran, "cd")
    BY <1>1 DEF RunCd
  <1> QED
    BY <1>1, <1>2, <1>5, <1>6, <1>7

\* RunSpawn: a child is the program.
LEMMA RunSpawnDoes ==
    ASSUME TypeInv, NEW p \in Envs, RunSpawn(p)
    PROVE  \E n, s, m :
             /\ Makes(p, n, s, m) /\ ran' = Append(ran, Head(proc[p].argv))
             /\ At(p, "runcmd") /\ proc[p].argv # <<>> /\ Head(proc[p].argv) \in Programs
             /\ n.at = "spawned" /\ n.child = <<s, env_id[s] + 1>> /\ Alike(n, proc[p])
             /\ m.at = "program" /\ m.argv = proc[p].argv /\ m.next = TRUE
  <1>1. PICK o \in Procs : o = proc[p] /\ o.at = "runcmd"
    BY Here DEF RunSpawn, At
  <1>2. PICK s, c : s = Head(free) /\ c = <<s, env_id[s] + 1>>
    OBVIOUS
  <1>3. PICK n : n = [o EXCEPT !.at = "spawned", !.child = c]
    OBVIOUS
  <1>4. PICK m : m = [NoProc EXCEPT !.at = "program", !.argv = o.argv]
    OBVIOUS
  <1>5. Forked(p, n, ends[p], s, m) /\ line' = line
    BY <1>1, <1>2, <1>3, <1>4 DEF RunSpawn, Forked, Fork
  <1>6. Makes(p, n, s, m)
    BY <1>1, <1>5, ForkMakes DEF At
  <1>7. n.at = "spawned" /\ n.child = c /\ Alike(n, o)
    BY <1>3 DEF Procs, Alike
  <1>8. m.at = "program" /\ m.argv = o.argv /\ m.next = TRUE
    BY <1>4 DEF NoProc
  <1>9. /\ At(p, "runcmd") /\ o.argv # <<>> /\ Head(o.argv) \in Programs
        /\ ran' = Append(ran, Head(o.argv))
    BY <1>1 DEF RunSpawn
  <1> QED
    BY <1>1, <1>2, <1>6, <1>7, <1>8, <1>9

\* RunMissing: nothing is started.
LEMMA RunMissingDoes ==
    ASSUME TypeInv, NEW p \in Envs, RunMissing(p)
    PROVE  \E n :
             /\ Only(p, n) /\ ran' = Append(ran, Head(proc[p].argv))
             /\ At(p, "runcmd") /\ proc[p].argv # <<>> /\ Head(proc[p].argv) \notin Programs \cup {"cd"}
             /\ n.at = "spawned" /\ n.child = NoEnv /\ Alike(n, proc[p])
  <1>1. PICK o \in Procs : o = proc[p]
    BY Here
  <1>2. PICK n : n = [o EXCEPT !.at = "spawned", !.child = NoEnv]
    OBVIOUS
  <1>3. proc' = [proc EXCEPT ![p] = n]
    BY <1>1, <1>2 DEF RunMissing
  <1>4. n.at = "spawned" /\ n.child = NoEnv /\ Alike(n, o)
    BY <1>2 DEF Procs, Alike
  <1>5. Only(p, n)
    BY <1>3, OnlyIf DEF RunMissing
  <1>6. /\ At(p, "runcmd") /\ o.argv # <<>> /\ Head(o.argv) \notin Programs \cup {"cd"}
        /\ ran' = Append(ran, Head(o.argv))
    BY <1>1 DEF RunMissing
  <1> QED
    BY <1>1, <1>4, <1>5, <1>6

\* RunCloses: the env waits for its program, or has none.
LEMMA RunClosesDoes ==
    ASSUME TypeInv, NEW p \in Envs, RunCloses(p)
    PROVE  \E n :
             /\ Only(p, n) /\ ran' = ran /\ At(p, "spawned")
             /\ n.next = proc[p].next /\ n.right = proc[p].right /\ n.home = proc[p].home
             /\ \/ /\ proc[p].child # NoEnv /\ n.at = "wait" /\ n.after = "command" /\ n.child = proc[p].child
                \/ proc[p].child = NoEnv /\ proc[p].right = NoEnv /\ n.at = "exit" /\ n.r = 1
                \/ proc[p].child = NoEnv /\ proc[p].right # NoEnv /\ n.at = "wait" /\ n.after = "right"
  <1>1. PICK o \in Procs : o = proc[p]
    BY Here
  <1>2. PICK u : u = [o EXCEPT !.r = 1]
    OBVIOUS
  <1>3. u.next = o.next /\ u.right = o.right /\ u.home = o.home
    BY <1>2 DEF Procs
  <1>4. PICK v : v = [o EXCEPT !.at = "wait", !.child = o.child, !.after = "command"]
    OBVIOUS
  <1>5. /\ v.next = o.next /\ v.right = o.right /\ v.home = o.home
        /\ v.at = "wait" /\ v.after = "command" /\ v.child = o.child
    BY <1>4 DEF Procs
  <1>6. PICK x : x = [u EXCEPT !.at = "exit", !.r = u.r]
    OBVIOUS
  <1>7. x.next = o.next /\ x.right = o.right /\ x.home = o.home /\ x.at = "exit" /\ x.r = 1
    BY <1>2, <1>6 DEF Procs
  <1>8. PICK y : y = [u EXCEPT !.at = "wait", !.child = u.right, !.after = "right"]
    OBVIOUS
  <1>9. y.next = o.next /\ y.right = o.right /\ y.home = o.home /\ y.at = "wait" /\ y.after = "right"
    BY <1>2, <1>8 DEF Procs
  <1>10. AfterCommand(u) = IF o.right = NoEnv THEN x ELSE y
    BY <1>3, <1>6, <1>8 DEF AfterCommand, Exits, Waits
  <1>11. proc' = [proc EXCEPT ![p] = IF o.child = NoEnv THEN AfterCommand(u) ELSE v]
    BY <1>1, <1>2, <1>4 DEF RunCloses, Waits
  <1>12. PICK n : n = IF o.child = NoEnv THEN AfterCommand(u) ELSE v
    OBVIOUS
  <1>13. Only(p, n) /\ ran' = ran
    BY <1>11, <1>12, OnlyIf DEF RunCloses, Same
  <1>14. n = IF o.child = NoEnv THEN (IF o.right = NoEnv THEN x ELSE y) ELSE v
    BY <1>10, <1>12
  <1>15. At(p, "spawned")
    BY DEF RunCloses
  <1>16. CASE o.child # NoEnv
    BY <1>1, <1>5, <1>13, <1>14, <1>15, <1>16
  <1>17. CASE o.child = NoEnv /\ o.right = NoEnv
    BY <1>1, <1>7, <1>13, <1>14, <1>15, <1>17
  <1>18. CASE o.child = NoEnv /\ o.right # NoEnv
    BY <1>1, <1>9, <1>13, <1>14, <1>15, <1>18
  <1> QED
    BY <1>16, <1>17, <1>18

\* ReapCommand: the value of the program is the value of the env.
LEMMA ReapCommandDoes ==
    ASSUME TypeInv, NEW p \in Envs, ReapCommand(p)
    PROVE  \E n :
             /\ Only(p, n) /\ ran' = ran /\ At(p, "reap") /\ proc[p].after = "command"
             /\ n.next = proc[p].next /\ n.right = proc[p].right /\ n.home = proc[p].home
             /\ \/ proc[p].right = NoEnv /\ n.at = "exit" /\ n.r = sys_wait(proc[p].child)
                \/ proc[p].right # NoEnv /\ n.at = "wait" /\ n.after = "right"
  <1>1. PICK o \in Procs : o = proc[p]
    BY Here
  <1>2. PICK k : k = sys_wait(o.child)
    OBVIOUS
  <1>3. PICK u : u = [o EXCEPT !.r = k]
    OBVIOUS
  <1>4. u.right = o.right
    BY <1>3 DEF Procs
  <1>5. PICK x : x = [u EXCEPT !.at = "exit", !.r = u.r]
    OBVIOUS
  <1>6. x.next = o.next /\ x.right = o.right /\ x.home = o.home /\ x.at = "exit" /\ x.r = k
    BY <1>3, <1>5 DEF Procs
  <1>7. PICK y : y = [u EXCEPT !.at = "wait", !.child = u.right, !.after = "right"]
    OBVIOUS
  <1>8. y.next = o.next /\ y.right = o.right /\ y.home = o.home /\ y.at = "wait" /\ y.after = "right"
    BY <1>3, <1>7 DEF Procs
  <1>9. PICK n : n = AfterCommand(u)
    OBVIOUS
  <1>10. n = IF o.right = NoEnv THEN x ELSE y
    BY <1>4, <1>5, <1>7, <1>9 DEF AfterCommand, Exits, Waits
  <1>11. Goes(p, n) /\ At(p, "reap") /\ o.after = "command"
    BY <1>1, <1>2, <1>3, <1>9 DEF ReapCommand
  <1>12. Only(p, n) /\ ran' = ran
    BY <1>11, OnlyGoes
  <1>13. CASE o.right = NoEnv
    BY <1>1, <1>2, <1>6, <1>10, <1>11, <1>12, <1>13
  <1>14. CASE o.right # NoEnv
    BY <1>1, <1>8, <1>10, <1>11, <1>12, <1>14
  <1> QED
    BY <1>13, <1>14

\* ReapRight: a pipeline has the value of its left side.
LEMMA ReapRightDoes ==
    ASSUME TypeInv, NEW p \in Envs, ReapRight(p)
    PROVE  \E n : /\ Only(p, n) /\ ran' = ran /\ At(p, "reap") /\ proc[p].after = "right"
                  /\ n.at = "exit" /\ n.next = proc[p].next
  <1>1. PICK o \in Procs : o = proc[p]
    BY Here
  <1>2. PICK n : n = [o EXCEPT !.at = "exit", !.r = o.r]
    OBVIOUS
  <1>3. Goes(p, n)
    BY <1>1, <1>2 DEF ReapRight, Exits
  <1>4. n.at = "exit" /\ n.next = o.next
    BY <1>2 DEF Procs
  <1> QED
    BY <1>1, <1>3, <1>4, OnlyGoes DEF ReapRight

\* A program goes on or exits with its value; with another if it writes to a
\* pipe.
LEMMA ProgramDoes ==
    ASSUME TypeInv, NEW p \in Envs, Program(p)
    PROVE  \E n : /\ Only(p, n) /\ ran' = ran /\ At(p, "program") /\ n.next = proc[p].next
                  /\ \/ n.at = "program" /\ n.argv = proc[p].argv
                     \/ n.at = "exit" /\ (n.r = Result(Head(proc[p].argv)) \/ ends[p][1][1] # 0)
  <1>1. PICK o \in Procs : o = proc[p]
    BY Here
  <1>2. PICK x : x = [o EXCEPT !.at = "exit", !.r = 0]
    OBVIOUS
  <1>3. x.at = "exit" /\ x.r = 0 /\ x.next = o.next /\ x = Exits(o, 0)
    BY <1>2 DEF Procs, Exits
  <1>4. CASE ProgramWrites(p)
    <2>1. At(p, "program") /\ Head(o.argv) = "source" /\ Same
      BY <1>1, <1>4 DEF ProgramWrites
    <2>2. PICK y : y = [o EXCEPT !.flag = o.flag + 1]
      OBVIOUS
    <2>3. y.at = o.at /\ y.argv = o.argv /\ y.next = o.next
      BY <2>2 DEF Procs
    <2>4. PICK n : n = IF o.flag = PIPE_SIZE THEN x ELSE y
      OBVIOUS
    <2>5. proc' = [proc EXCEPT ![p] = n]
      BY <1>1, <1>3, <1>4, <2>2, <2>4 DEF ProgramWrites
    <2>6. Only(p, n) /\ ran' = ran
      BY <2>1, <2>5, OnlyIf DEF Same
    <2>7. Result(Head(o.argv)) = 0
      BY <2>1 DEF Result
    <2>8. o.at = "program"
      BY <1>1, <2>1 DEF At
    <2>9. CASE n = x
      BY <1>1, <1>3, <2>1, <2>6, <2>7, <2>9
    <2>10. CASE n = y
      BY <1>1, <2>1, <2>3, <2>6, <2>8, <2>10
    <2> QED
      BY <2>4, <2>9, <2>10
  <1>5. ASSUME NEW f, NEW k, proc' = [proc EXCEPT ![p].flag = f, ![p].r = k], Same, At(p, "program")
        PROVE  \E n : /\ Only(p, n) /\ ran' = ran /\ n.next = proc[p].next
                      /\ n.at = "program" /\ n.argv = proc[p].argv
    <2>1. PICK n : n = [o EXCEPT !.flag = f, !.r = k]
      OBVIOUS
    <2>2. n.at = o.at /\ n.argv = o.argv /\ n.next = o.next
      BY <2>1 DEF Procs
    <2>3. proc' = [proc EXCEPT ![p] = n]
      BY <1>1, <1>5, <2>1 DEF TypeInv, GlobalOK
    <2>4. Only(p, n) /\ ran' = ran /\ o.at = "program"
      BY <1>1, <1>5, <2>3, OnlyIf DEF Same, At
    <2> QED
      BY <1>1, <2>2, <2>4
  <1>7. CASE ProgramReads(p)
    <2>1. At(p, "program") /\ Head(o.argv) = "filter" /\ Same
      BY <1>1, <1>7 DEF ProgramReads
    <2>2. Result(Head(o.argv)) = 0 /\ o.at = "program"
      BY <1>1, <2>1 DEF Result, At
    <2>3. CASE proc' = [proc EXCEPT ![p].r = @ + 1]
      <3>1. PICK k, n : k = o.r + 1 /\ n = [o EXCEPT !.r = k]
        OBVIOUS
      <3>2. n.at = o.at /\ n.argv = o.argv /\ n.next = o.next
        BY <3>1 DEF Procs
      <3>3. proc' = [proc EXCEPT ![p] = n]
        BY <1>1, <2>3, <3>1
      <3>4. Only(p, n) /\ ran' = ran
        BY <2>1, <3>3, OnlyIf DEF Same
      <3> QED
        BY <1>1, <2>1, <2>2, <3>2, <3>4
    <2>4. CASE \E f, k : proc' = [proc EXCEPT ![p].flag = f, ![p].r = k]
      BY <1>1, <1>5, <2>1, <2>4
    <2>5. CASE proc' = [proc EXCEPT ![p] = x]
      <3>1. Only(p, x) /\ ran' = ran
        BY <2>1, <2>5, OnlyIf DEF Same
      <3> QED
        BY <1>1, <1>3, <2>1, <2>2, <3>1
    <2>6. \/ proc' = [proc EXCEPT ![p].r = @ + 1]
          \/ proc' = [proc EXCEPT ![p].flag = o.r, ![p].r = 0]
          \/ \E n \in 0..(PIPE_SIZE + 1) : proc' = [proc EXCEPT ![p].flag = n, ![p].r = -1]
          \/ proc' = [proc EXCEPT ![p] = x]
      BY <1>1, <1>3, <1>7 DEF ProgramReads
    <2> QED
      BY <2>3, <2>4, <2>5, <2>6
  <1>8. CASE ProgramCopies(p)
    <2>1. At(p, "program") /\ Same
      BY <1>1, <1>8 DEF ProgramCopies
    <2>2. o.at = "program"
      BY <1>1, <2>1 DEF At
    <2>3. CASE proc' = [proc EXCEPT ![p].flag = @ - 1]
      <3>1. PICK k, n : k = o.flag - 1 /\ n = [o EXCEPT !.flag = k]
        OBVIOUS
      <3>2. n.at = o.at /\ n.argv = o.argv /\ n.next = o.next
        BY <3>1 DEF Procs
      <3>3. proc' = [proc EXCEPT ![p] = n]
        BY <1>1, <2>3, <3>1
      <3>4. Only(p, n) /\ ran' = ran
        BY <2>1, <3>3, OnlyIf DEF Same
      <3> QED
        BY <1>1, <2>1, <2>2, <3>2, <3>4
    <2>4. CASE ends[p][1][1] # 0 /\ proc' = [proc EXCEPT ![p] = Exits(o, 1)]
      <3>1. PICK n : n = [o EXCEPT !.at = "exit", !.r = 1]
        OBVIOUS
      <3>2. n.at = "exit" /\ n.next = o.next
        BY <3>1 DEF Procs
      <3>3. Only(p, n) /\ ran' = ran
        BY <2>1, <2>4, <3>1, OnlyIf DEF Same, Exits
      <3> QED
        BY <1>1, <2>1, <2>4, <3>2, <3>3
    <2> QED
      BY <1>1, <1>8, <2>3, <2>4 DEF ProgramCopies
  <1>6. CASE ProgramFails(p)
    <2>1. PICK n : n = [o EXCEPT !.at = "exit", !.r = 1]
      OBVIOUS
    <2>2. n.at = "exit" /\ n.r = 1 /\ n.next = o.next
      BY <2>1 DEF Procs
    <2>3. Goes(p, n) /\ At(p, "program") /\ Head(o.argv) = "fails"
      BY <1>1, <1>6, <2>1 DEF ProgramFails, Exits
    <2>4. Result(Head(o.argv)) = 1
      BY <2>3 DEF Result
    <2> QED
      BY <1>1, <2>2, <2>3, <2>4, OnlyGoes
  <1> QED
    BY <1>4, <1>6, <1>7, <1>8 DEF Program

\* WaitPoll: the env it waited for has ended.
LEMMA WaitPollDoes ==
    ASSUME TypeInv, NEW p \in Envs, WaitPoll(p)
    PROVE  \E n :
             /\ Only(p, n) /\ ran' = ran /\ At(p, "wait") /\ ~Alive(proc[p].child)
             /\ n.at = "reap" /\ n.after = proc[p].after /\ n.child = proc[p].child
             /\ n.tokens = proc[p].tokens /\ Alike(n, proc[p])
  <1>1. PICK o \in Procs : o = proc[p]
    BY Here
  <1>2. PICK n \in Procs : /\ n = [o EXCEPT !.at = "reap"] /\ n.at = "reap" /\ Moves(n, o)
                           /\ n.child = o.child /\ n.after = o.after
    BY MovedRecord DEF Places
  <1>3. Goes(p, n)
    BY <1>1, <1>2 DEF WaitPoll
  <1>4. At(p, "wait") /\ ~Alive(o.child)
    BY <1>1 DEF WaitPoll, Alive
  <1> QED
    BY <1>1, <1>2, <1>3, <1>4, OnlyGoes DEF Moves, Alike

\* ExitCloses: only descriptors change.
LEMMA ExitClosesDoes ==
    ASSUME TypeInv, NEW p \in Envs, ExitCloses(p)
    PROVE  \E n : /\ Only(p, n) /\ ran' = ran /\ At(p, "exit")
                  /\ n.at = "dying" /\ n.r = proc[p].r /\ n.next = proc[p].next
                  /\ n.right = proc[p].right /\ n.home = proc[p].home
  <1>1. PICK o \in Procs : o = proc[p]
    BY Here
  <1>2. PICK n : n = [o EXCEPT !.at = "dying"]
    OBVIOUS
  <1>3. proc' = [proc EXCEPT ![p] = n]
    BY <1>1, <1>2 DEF ExitCloses
  <1>4. /\ n.at = "dying" /\ n.r = o.r /\ n.next = o.next
        /\ n.right = o.right /\ n.home = o.home
    BY <1>2 DEF Procs
  <1> QED
    BY <1>1, <1>3, <1>4, OnlyIf DEF ExitCloses, Same

\* sys_exit: the slot is free and keeps the value.
LEMMA SysExitDoes ==
    ASSUME TypeInv, NEW p \in Envs, sys_exit(p)
    PROVE  /\ At(p, "dying") /\ proc'[p] = NoProc /\ NoProc.at = "free" /\ NoProc.next = TRUE
           /\ \A x \in Envs \ {p} : proc'[x] = proc[x]
           /\ env_id' = env_id /\ line' = line /\ ran' = ran
           /\ env_exit_value'[p] = proc[p].r
  BY DEF sys_exit, TypeInv, GlobalOK, NoProc

\* The envs other than p that are there stay as they are.
Others(p) == \A x \in Envs \ {p} : ~At(x, "free") => proc'[x] = proc[x] /\ env_id'[x] = env_id[x]

\* Steps that leave the other envs alone.
LEMMA OthersStay ==
    ASSUME NEW p \in Envs
    PROVE  /\ \A n : Only(p, n) => Others(p)
           /\ \A n, s, m : Makes(p, n, s, m) => Others(p)
  BY DEF Only, Makes, Others

\* Capture: the env with a command in backquotes, up to the line that replaces
\* it, and the start of the child.
LEMMA CaptureDoes ==
    ASSUME TypeInv, NEW p \in Envs, Capture(p), ~(\E l \in Lines : Splice(p, l))
    PROVE  \E n : /\ Others(p) /\ proc'[p] = n /\ n.next = proc[p].next
                  /\ \/ proc[p].at \in {"quote", "capture", "capturing"}
                     \/ At(p, "captured")
                     \/ At(p, "reap") /\ proc[p].after = "capture"
                  /\ \/ n.at \in {"capture", "capturing", "splice"}
                     \/ n.at = "wait" /\ n.after = "capture"
                     \/ At(p, "captured") /\ n.at = "parse"
  <1>1. PICK o \in Procs : o = proc[p]
    BY Here
  <1>2. CASE CaptureForks(p)
    <2>1. PICK e : e = [ends[p] EXCEPT ![2] = <<Min(UnusedPipes), "r">>, ![3] = <<Min(UnusedPipes), "w">>]
      OBVIOUS
    <2>2. PICK s, c : s = Head(free) /\ c = <<s, env_id[s] + 1>>
      OBVIOUS
    <2>3. PICK n : n = [o EXCEPT !.at = "capture", !.child = c]
      OBVIOUS
    <2>4. PICK m : m = [o EXCEPT !.at = "captured", !.tokens = line.quote, !.home = "capture"]
      OBVIOUS
    <2>5. Forked(p, n, e, s, m) /\ line' = line
      BY <1>1, <1>2, <2>1, <2>2, <2>3, <2>4 DEF CaptureForks, WithPipe, Forked, Fork
    <2>6. At(p, "quote") /\ ~At(p, "free")
      BY <1>2 DEF CaptureForks, At
    <2>7. Makes(p, n, s, m)
      BY <2>5, <2>6, ForkMakes
    <2>8. n.at = "capture" /\ n.next = o.next
      BY <2>3 DEF Procs
    <2>9. Others(p) /\ proc'[p] = n
      BY <2>7, OthersStay DEF Makes
    <2> QED
      BY <1>1, <2>6, <2>8, <2>9 DEF At
  <1>3. ASSUME NEW n, proc' = [proc EXCEPT ![p] = n], Same
        PROVE  Others(p) /\ proc'[p] = n
    <2>1. Only(p, n)
      BY <1>3, OnlyIf DEF Same
    <2> QED
      BY <2>1, OthersStay DEF Only
  <1>4. CASE CapturedStarts(p)
    <2>1. PICK n : n = [o EXCEPT !.at = "parse"]
      OBVIOUS
    <2>2. n.at = "parse" /\ n.next = o.next
      BY <2>1 DEF Procs
    <2>3. proc' = [proc EXCEPT ![p] = n] /\ At(p, "captured") /\ Same
      BY <1>1, <1>4, <2>1 DEF CapturedStarts
    <2> QED
      BY <1>1, <1>3, <2>2, <2>3
  <1>5. CASE CaptureStarts(p)
    <2>1. PICK n : n = [o EXCEPT !.at = "capturing"]
      OBVIOUS
    <2>2. n.at = "capturing" /\ n.next = o.next
      BY <2>1 DEF Procs
    <2>3. proc' = [proc EXCEPT ![p] = n] /\ At(p, "capture") /\ Same
      BY <1>1, <1>5, <2>1 DEF CaptureStarts
    <2> QED
      BY <1>1, <1>3, <2>2, <2>3 DEF At
  <1>6. CASE CaptureReads(p)
    <2>1. At(p, "capturing") /\ proc' = proc /\ Same
      BY <1>6 DEF CaptureReads
    <2>2. proc' = [proc EXCEPT ![p] = o]
      BY <1>1, <2>1 DEF TypeInv, GlobalOK
    <2>3. o.at = "capturing"
      BY <1>1, <2>1 DEF At
    <2> QED
      BY <1>1, <1>3, <2>1, <2>2, <2>3
  <1>7. CASE CaptureEnds(p)
    <2>1. PICK n : n = [o EXCEPT !.at = "wait", !.child = o.child, !.after = "capture"]
      OBVIOUS
    <2>2. n.at = "wait" /\ n.after = "capture" /\ n.next = o.next
      BY <2>1 DEF Procs
    <2>3. proc' = [proc EXCEPT ![p] = n] /\ At(p, "capturing") /\ Same
      BY <1>1, <1>7, <2>1 DEF CaptureEnds, Waits
    <2> QED
      BY <1>1, <1>3, <2>2, <2>3 DEF At
  <1>8. CASE ReapCapture(p)
    <2>1. PICK n : n = [o EXCEPT !.at = "splice"]
      OBVIOUS
    <2>2. n.at = "splice" /\ n.next = o.next
      BY <2>1 DEF Procs
    <2>3. Goes(p, n) /\ At(p, "reap") /\ o.after = "capture"
      BY <1>1, <1>8, <2>1 DEF ReapCapture
    <2>4. proc' = [proc EXCEPT ![p] = n] /\ Same
      BY <2>3 DEF Goes
    <2> QED
      BY <1>1, <1>3, <2>2, <2>3, <2>4
  <1> QED
    BY <1>2, <1>4, <1>5, <1>6, <1>7, <1>8 DEF Capture

\* A line is taken in hand: from the user, or with the output of a command.
Takes(p, n, l) ==
    /\ proc'[p] = n /\ Others(p) /\ line' = l /\ ran' = <<>>
    /\ n.tokens = l.tokens /\ n.right = NoEnv /\ n.next = proc[p].next

\* Prompt: the line is run, or the command in backquotes before it.
LEMMA PromptDoes ==
    ASSUME TypeInv, NEW p \in Envs, NEW l \in Lines, Prompt(p, l)
    PROVE  \E n : Takes(p, n, l) /\ At(p, "prompt") /\ n.at \in {"line", "quote"}
  <1>1. PICK o \in Procs : o = proc[p]
    BY Here
  <1>2. PICK a, t, w : a = <<>> /\ t = l.tokens /\ w = (IF l.quote = <<>> THEN "line" ELSE "quote")
    OBVIOUS
  <1>3. PICK n : n = [o EXCEPT !.tokens = t, !.argv = a, !.right = NoEnv, !.at = w]
    OBVIOUS
  <1>4. proc' = [proc EXCEPT ![p] = n]
    BY <1>1, <1>2, <1>3 DEF Prompt
  <1>5. n.tokens = t /\ n.right = NoEnv /\ n.at = w /\ n.next = o.next
    BY <1>3 DEF Procs
  <1>6. /\ At(p, "prompt") /\ line' = l /\ ran' = <<>> /\ env_id' = env_id
    BY DEF Prompt
  <1>7. proc'[p] = n /\ Others(p)
    BY <1>4, <1>6 DEF Others, TypeInv, GlobalOK
  <1> QED
    BY <1>1, <1>2, <1>5, <1>6, <1>7 DEF Takes

\* Splice: the line is run.
LEMMA SpliceDoes ==
    ASSUME TypeInv, NEW p \in Envs, NEW l \in Lines, Splice(p, l)
    PROVE  \E n : Takes(p, n, l) /\ At(p, "splice") /\ n.at = "line"
  <1>1. PICK o \in Procs : o = proc[p]
    BY Here
  <1>2. PICK a, t : a = <<>> /\ t = l.tokens
    OBVIOUS
  <1>3. PICK n : n = [o EXCEPT !.tokens = t, !.argv = a, !.right = NoEnv, !.at = "line", !.home = "shell"]
    OBVIOUS
  <1>4. proc' = [proc EXCEPT ![p] = n]
    BY <1>1, <1>2, <1>3 DEF Splice
  <1>5. n.tokens = t /\ n.right = NoEnv /\ n.at = "line" /\ n.next = o.next
    BY <1>3 DEF Procs
  <1>6. /\ At(p, "splice") /\ line' = l /\ ran' = <<>> /\ env_id' = env_id
    BY DEF Splice
  <1>7. proc'[p] = n /\ Others(p)
    BY <1>4, <1>6 DEF Others, TypeInv, GlobalOK
  <1> QED
    BY <1>1, <1>2, <1>5, <1>6, <1>7 DEF Takes

\* MainSelf: a comment, a line with cd, or exit.
LEMMA MainSelfDoes ==
    ASSUME TypeInv, NEW p \in Envs, MainSelf(p)
    PROVE  \E n : /\ Only(p, n) /\ ran' = ran /\ At(p, "line")
                  /\ n.tokens = proc[p].tokens /\ Alike(n, proc[p])
                  /\ \/ n.at = "prompt" /\ IsComment(proc[p].tokens)
                     \/ n.at = "parse" /\ parseCD(proc[p].tokens)
                     \/ n.at = "exit"
  <1>1. PICK o \in Procs : o = proc[p]
    BY Here
  <1>2. ASSUME NEW a \in Places
        PROVE  \E n \in Procs : n = [o EXCEPT !.at = a] /\ n.at = a /\ n.tokens = o.tokens /\ Alike(n, o)
    BY MovedRecord DEF Moves, Alike
  <1>3. At(p, "line")
    BY DEF MainSelf
  <1>4. CASE IsComment(o.tokens) /\ Goes(p, [o EXCEPT !.at = "prompt"])
    <2>1. "prompt" \in Places
      BY DEF Places
    <2> QED
      BY <1>1, <1>2, <1>3, <1>4, <2>1, OnlyGoes
  <1>5. CASE parseCD(o.tokens) /\ Goes(p, [o EXCEPT !.at = "parse"])
    <2>1. "parse" \in Places
      BY DEF Places
    <2> QED
      BY <1>1, <1>2, <1>3, <1>5, <2>1, OnlyGoes
  <1>6. CASE Goes(p, Exits(o, 0))
    <2>1. PICK n \in Procs : n = Exits(o, 0) /\ n.at = "exit" /\ Moves(n, o)
      BY ExitsRecord
    <2>2. n.tokens = o.tokens /\ Alike(n, o)
      BY <2>1 DEF Moves, Alike
    <2> QED
      BY <1>1, <1>3, <1>6, <2>1, <2>2, OnlyGoes
  <1> QED
    BY <1>1, <1>4, <1>5, <1>6 DEF MainSelf

\* MainForks: a child runs the line.
LEMMA MainForksDoes ==
    ASSUME TypeInv, NEW p \in Envs, MainForks(p)
    PROVE  \E n, s, m :
             /\ Makes(p, n, s, m) /\ ran' = ran /\ At(p, "line")
             /\ n.at = "wait" /\ n.after = "line" /\ n.child = <<s, env_id[s] + 1>> /\ n.next = proc[p].next
             /\ m.at = "parse" /\ m.home = "line" /\ m.tokens = proc[p].tokens
             /\ m.argv = proc[p].argv /\ m.next = proc[p].next /\ m.right = proc[p].right
  <1>1. PICK o \in Procs : o = proc[p] /\ o.at = "line"
    BY Here DEF MainForks, At
  <1>2. PICK s, c : s = Head(free) /\ c = <<s, env_id[s] + 1>>
    OBVIOUS
  <1>3. PICK n : n = [o EXCEPT !.at = "wait", !.child = c, !.after = "line"]
    OBVIOUS
  <1>4. PICK m : m = [o EXCEPT !.at = "parse", !.home = "line"]
    OBVIOUS
  <1>5. Forked(p, n, ends[p], s, m) /\ line' = line /\ ran' = ran /\ At(p, "line")
    BY <1>1, <1>2, <1>3, <1>4 DEF MainForks, Forked, Fork, Waits
  <1>6. Makes(p, n, s, m)
    BY <1>1, <1>5, ForkMakes DEF At
  <1>7. n.at = "wait" /\ n.after = "line" /\ n.child = c /\ n.next = o.next
    BY <1>3 DEF Procs
  <1>8. /\ m.at = "parse" /\ m.home = "line" /\ m.tokens = o.tokens /\ m.argv = o.argv
        /\ m.next = o.next /\ m.right = o.right
    BY <1>4 DEF Procs
  <1> QED
    BY <1>1, <1>2, <1>5, <1>6, <1>7, <1>8

\* ReapLine: the shell prompts.
LEMMA ReapLineDoes ==
    ASSUME TypeInv, NEW p \in Envs, ReapLine(p)
    PROVE  \E n : /\ Only(p, n) /\ ran' = ran /\ At(p, "reap") /\ proc[p].after = "line"
                  /\ n.at = "prompt" /\ n.next = proc[p].next
  <1>1. PICK o \in Procs : o = proc[p]
    BY Here
  <1>2. PICK n : n = [o EXCEPT !.at = "prompt"]
    OBVIOUS
  <1>3. Goes(p, n) /\ At(p, "reap") /\ o.after = "line"
    BY <1>1, <1>2 DEF ReapLine
  <1>4. n.at = "prompt" /\ n.next = o.next
    BY <1>2 DEF Procs
  <1> QED
    BY <1>1, <1>3, <1>4, OnlyGoes

-----------------------------------------------------------------------------
(***************************************************************************)
(* Who may read a line                                                     *)
(***************************************************************************)

\* Every step leaves the other envs alone, and tokens are skipped only inside
\* of a line.
LEMMA StepFrame ==
    ASSUME TypeInv, NEW p \in Envs, Step(p)
    PROVE  Others(p) /\ (proc[p].next \/ At(p, "parse") => proc'[p].next \/ proc'[p].at = "parse")
  <1>1. CASE ParseEnd(p)
    BY <1>1, ParseEndDoes, OthersStay DEF Only, At
  <1>2. CASE ParseSkip(p)
    BY <1>2, ParseSkipDoes, OthersStay DEF Only, At
  <1>3. CASE ParseComment(p)
    BY <1>3, ParseCommentDoes, OthersStay DEF Only, Alike, At
  <1>4. CASE ParseWord(p)
    <2>1. PICK n : Only(p, n) /\ n.at = "parse"
      BY <1>4, ParseWordDoes
    <2>2. Others(p) /\ proc'[p] = n
      BY <2>1, OthersStay DEF Only
    <2> QED
      BY <2>1, <2>2 DEF At
  <1>5. CASE ParseVar(p)
    <2>1. PICK n : Only(p, n) /\ n.next = proc[p].next /\ Reads(p, "$")
      BY <1>5, ParseVarDoes
    <2>2. Others(p) /\ proc'[p] = n
      BY <2>1, OthersStay DEF Only
    <2> QED
      BY <2>1, <2>2 DEF Reads, Parsing
  <1>6. CASE ParseList(p)
    <2>1. PICK n, s, m : Makes(p, n, s, m) /\ n.next = proc[p].next /\ proc[p].next
      BY <1>6, ParseListDoes DEF Reads, Parsing
    <2>2. Others(p) /\ proc'[p] = n
      BY <2>1, OthersStay DEF Makes
    <2> QED
      BY <2>1, <2>2
  <1>7. CASE ReapList(p)
    <2>1. PICK n : Only(p, n) /\ n.at = "parse"
      BY <1>7, ReapListDoes
    <2>2. Others(p) /\ proc'[p] = n
      BY <2>1, OthersStay DEF Only
    <2> QED
      BY <2>1, <2>2 DEF At
  <1>8. CASE ParseRedirect(p)
    <2>1. PICK n : Only(p, n) /\ n.next = proc[p].next /\ (Reads(p, "<") \/ Reads(p, ">"))
      BY <1>8, ParseRedirectDoes
    <2>2. Others(p) /\ proc'[p] = n
      BY <2>1, OthersStay DEF Only
    <2> QED
      BY <2>1, <2>2 DEF Reads, Parsing
  <1>9. CASE ParsePipe(p)
    <2>1. PICK n, s, m : Makes(p, n, s, m) /\ n.next = proc[p].next /\ proc[p].next
      BY <1>9, ParsePipeDoes DEF Reads, Parsing
    <2>2. Others(p) /\ proc'[p] = n
      BY <2>1, OthersStay DEF Makes
    <2> QED
      BY <2>1, <2>2
  <1>10. CASE PipeRight(p)
    BY <1>10, PipeRightDoes, OthersStay DEF Only, At
  <1>11. CASE PipeLeft(p)
    BY <1>11, PipeLeftDoes, OthersStay DEF Only, Alike, At
  <1>12. CASE RunNothing(p)
    BY <1>12, RunNothingDoes, OthersStay DEF Only, At
  <1>13. CASE RunCd(p)
    <2>1. PICK n : Only(p, n) /\ n.next = proc[p].next /\ At(p, "runcmd")
      BY <1>13, RunCdDoes
    <2>2. Others(p) /\ proc'[p] = n
      BY <2>1, OthersStay DEF Only
    <2> QED
      BY <2>1, <2>2 DEF At
  <1>14. CASE RunSpawn(p)
    <2>1. PICK n, s, m : Makes(p, n, s, m) /\ Alike(n, proc[p]) /\ At(p, "runcmd")
      BY <1>14, RunSpawnDoes
    <2>2. Others(p) /\ proc'[p] = n
      BY <2>1, OthersStay DEF Makes
    <2> QED
      BY <2>1, <2>2 DEF Alike, At
  <1>15. CASE RunMissing(p)
    BY <1>15, RunMissingDoes, OthersStay DEF Only, Alike, At
  <1>16. CASE RunCloses(p)
    BY <1>16, RunClosesDoes, OthersStay DEF Only, At
  <1>17. CASE ReapCommand(p)
    BY <1>17, ReapCommandDoes, OthersStay DEF Only, At
  <1>18. CASE ReapRight(p)
    BY <1>18, ReapRightDoes, OthersStay DEF Only, At
  <1>19. CASE Program(p)
    BY <1>19, ProgramDoes, OthersStay DEF Only, At
  <1>20. CASE MainSelf(p)
    BY <1>20, MainSelfDoes, OthersStay DEF Only, Alike, At
  <1>21. CASE MainForks(p)
    BY <1>21, MainForksDoes, OthersStay DEF Makes, At
  <1>22. CASE ReapLine(p)
    BY <1>22, ReapLineDoes, OthersStay DEF Only, At
  <1>23. CASE WaitPoll(p)
    BY <1>23, WaitPollDoes, OthersStay DEF Only, Alike, At
  <1>24. CASE ExitCloses(p)
    BY <1>24, ExitClosesDoes, OthersStay DEF Only, At
  <1>25. CASE sys_exit(p)
    <2>1. /\ proc'[p] = NoProc /\ NoProc.next = TRUE /\ \A x \in Envs \ {p} : proc'[x] = proc[x]
          /\ env_id' = env_id
      BY <1>25, SysExitDoes
    <2> QED
      BY <2>1 DEF Others
  <1>26. CASE \E l \in Lines : Splice(p, l)
    BY <1>26, SpliceDoes DEF Takes, At
  <1>27. CASE Capture(p) /\ ~(\E l \in Lines : Splice(p, l))
    BY <1>27, CaptureDoes DEF At
  <1> QED
    BY <1>1, <1>2, <1>3, <1>4, <1>5, <1>6, <1>7, <1>8, <1>9, <1>10, <1>11, <1>12, <1>13, <1>14, <1>15, <1>16,
       <1>17, <1>18, <1>19, <1>20, <1>21, <1>22, <1>23, <1>24, <1>25, <1>26, <1>27
    DEF Step, Parse, Run, MainStep, Ends

\* While the shell has nobody to wait for, it is alone.
LEMMA AloneWhen ==
    ASSUME TypeInv, AloneInv,
           \/ proc[Main].at \in {"prompt", "line", "splice", "parse"}
           \/ At(Main, "runcmd") /\ proc[Main].right = NoEnv
           \/ At(Main, "reap") /\ proc[Main].after \in ListOps \cup {"line"}
    PROVE  Main \in Envs /\ \A x \in Envs \ {Main} : At(x, "free")
  <1>1. Main \in Envs
    BY ShellAssumption DEF Main, Envs
  <1>2. \A s \in Envs : Current(s) # NoEnv
    BY DEF Current, NoEnv, Envs
  <1>3. \A s \in Envs : ~Owns(proc[Main], Current(s))
    BY <1>2 DEF Owns, RightAt, At, ListOps
  <1>4. Living \ {Main} = {}
    <2> SUFFICES ASSUME Living \ {Main} # {} PROVE FALSE
      OBVIOUS
    <2>1. PICK s \in Living \ {Main}, q \in Living \ (Living \ {Main}) : Owns(proc[q], Current(s))
      BY DEF AloneInv, Tree
    <2> QED
      BY <1>3, <2>1 DEF Living
  <1> QED
    BY <1>1, <1>4 DEF Living

\* A line that an env reads has a command before each operator.
LEMMA OperatorFed ==
    ASSUME TypeInv, AloneInv, WholeLines, NEW p \in Envs, NEW op \in ListOps, Reads(p, op)
    PROVE  proc[p].argv # <<>> /\ Head(proc[p].argv) # "cd"
  <1>1. PICK o \in Procs : o = proc[p] /\ o.at = "parse" /\ o.tokens # <<>> /\ o.next /\ Head(o.tokens) = op
    BY Here DEF Reads, Parsing, Token, At
  <1>2. TextOK(o)
    BY <1>1 DEF AloneInv
  <1>3. PICK b \in BOOLEAN : b = (o.argv # <<>> \/ ~o.next)
    OBVIOUS
  <1>4. Fed(Needs, o.tokens, b) /\ o.tokens \in Seq(STRING)
    BY <1>1, <1>2, <1>3 DEF TextOK, Procs
  <1>5. o.tokens[1] \in Needs /\ 1 \in 1..Len(o.tokens) /\ 1..(1 - 1) = {}
    <2>1. o.tokens[1] = op /\ 1 \in 1..Len(o.tokens)
      BY <1>1, <1>4, TailSeq
    <2>2. op \in Needs
      BY DEF ListOps, Needs, Breaks
    <2> QED
      BY <2>1, <2>2
  <1>6. b
    BY <1>4, <1>5 DEF Fed
  <1> QED
    BY <1>1, <1>2, <1>3, <1>6 DEF TextOK

\* A step of a tame env: it stays tame, or ends, and makes only tame envs.
TameStep(p) ==
    /\ Others(p) /\ line' = line /\ (proc'[p].at = "free" \/ Tame(proc'[p]))
    /\ \A x \in Envs \ {p} : At(x, "free") => proc'[x].at = "free" \/ Tame(proc'[x])

\* One that makes nobody.
LEMMA TameOnly ==
    ASSUME NEW p \in Envs, NEW n, Only(p, n), Tame(n)
    PROVE  TameStep(p)
  BY OthersStay DEF Only, TameStep, At

\* One that makes an env.
LEMMA TameMakes ==
    ASSUME NEW p \in Envs, NEW n, NEW s, NEW m, Makes(p, n, s, m), Tame(n), Tame(m)
    PROVE  TameStep(p)
  BY OthersStay DEF Makes, TameStep, At

\* Each step of a tame env.
LEMMA TameSteps ==
    ASSUME TypeInv, AloneInv, WholeLines, NEW p \in Envs, Step(p), Tame(proc[p])
    PROVE  TameStep(p)
  <1>1. CASE ParseEnd(p)
    <2>1. PICK n : Only(p, n) /\ Tame(n)
      BY <1>1, ParseEndDoes DEF Tame, At
    <2> QED
      BY <2>1, TameOnly
  <1>2. CASE ParseSkip(p)
    <2>1. PICK n : Only(p, n) /\ Tame(n)
      BY <1>2, ParseSkipDoes DEF Tame, At
    <2> QED
      BY <2>1, TameOnly
  <1>3. CASE ParseComment(p)
    <2>1. PICK n : Only(p, n) /\ Tame(n)
      BY <1>3, ParseCommentDoes DEF Tame, At, Alike, Reads, Parsing
    <2> QED
      BY <2>1, TameOnly
  <1>4. CASE ParseWord(p)
    <2>1. PICK n : Only(p, n) /\ Tame(n)
      BY <1>4, ParseWordDoes DEF Tame, At, Reads, Parsing
    <2> QED
      BY <2>1, TameOnly
  <1>5. CASE ParseVar(p)
    <2>1. PICK n : Only(p, n) /\ Tame(n)
      BY <1>5, ParseVarDoes DEF Tame, At, Reads, Parsing
    <2> QED
      BY <2>1, TameOnly
  <1>6. CASE ParseRedirect(p)
    <2>1. PICK n : Only(p, n) /\ Tame(n)
      BY <1>6, ParseRedirectDoes DEF Tame, At, Reads, Parsing
    <2> QED
      BY <2>1, TameOnly
  <1>7. CASE PipeRight(p)
    <2>1. PICK n : Only(p, n) /\ Tame(n)
      BY <1>7, PipeRightDoes DEF Tame, At
    <2> QED
      BY <2>1, TameOnly
  <1>8. CASE PipeLeft(p)
    <2>1. PICK n : Only(p, n) /\ Tame(n)
      BY <1>8, PipeLeftDoes DEF Tame, At, Alike
    <2> QED
      BY <2>1, TameOnly
  <1>9. CASE ReapList(p)
    <2>1. PICK n : /\ Only(p, n) /\ n.at = "parse" /\ n.home = proc[p].home
                   /\ At(p, "reap") /\ proc[p].after \in ListOps
      BY <1>9, ReapListDoes
    <2>2. proc[p].home = "line"
      BY <2>1 DEF Tame, At, ListOps
    <2>3. Tame(n)
      BY <2>1, <2>2 DEF Tame
    <2> QED
      BY <2>1, <2>3, TameOnly
  <1>10. CASE RunNothing(p)
    <2>1. PICK n : Only(p, n) /\ Tame(n)
      BY <1>10, RunNothingDoes DEF Tame, At
    <2> QED
      BY <2>1, TameOnly
  <1>11. CASE RunCd(p)
    <2>1. PICK n : Only(p, n) /\ Tame(n)
      BY <1>11, RunCdDoes DEF Tame, At
    <2> QED
      BY <2>1, TameOnly
  <1>12. CASE RunMissing(p)
    <2>1. PICK n : Only(p, n) /\ Tame(n)
      BY <1>12, RunMissingDoes DEF Tame, At, Alike
    <2> QED
      BY <2>1, TameOnly
  <1>13. CASE RunCloses(p)
    <2>1. PICK n : Only(p, n) /\ Tame(n)
      BY <1>13, RunClosesDoes DEF Tame, At
    <2> QED
      BY <2>1, TameOnly
  <1>14. CASE ReapCommand(p)
    <2>1. PICK n : Only(p, n) /\ Tame(n)
      BY <1>14, ReapCommandDoes DEF Tame, At
    <2> QED
      BY <2>1, TameOnly
  <1>15. CASE ReapRight(p)
    <2>1. PICK n : Only(p, n) /\ Tame(n)
      BY <1>15, ReapRightDoes DEF Tame, At
    <2> QED
      BY <2>1, TameOnly
  <1>16. CASE Program(p)
    <2>1. PICK n : Only(p, n) /\ Tame(n)
      BY <1>16, ProgramDoes DEF Tame, At
    <2> QED
      BY <2>1, TameOnly
  <1>17. CASE WaitPoll(p)
    <2>1. PICK n : /\ Only(p, n) /\ n.at = "reap" /\ n.after = proc[p].after /\ n.home = proc[p].home
                   /\ At(p, "wait")
      BY <1>17, WaitPollDoes DEF Alike
    <2>2. Tame(n)
      BY <2>1 DEF Tame, At
    <2> QED
      BY <2>1, <2>2, TameOnly
  <1>18. CASE ExitCloses(p)
    <2>1. PICK n : Only(p, n) /\ Tame(n)
      BY <1>18, ExitClosesDoes DEF Tame, At
    <2> QED
      BY <2>1, TameOnly
  <1>19. CASE ParseList(p)
    <2>1. PICK op \in ListOps : \E n, s, m :
             /\ Reads(p, op) /\ Makes(p, n, s, m)
             /\ n.at = "wait" /\ n.after = op /\ n.home = proc[p].home
             /\ m.at = "runcmd" /\ Alike(m, proc[p])
      BY <1>19, ParseListDoes
    <2>2. PICK n, s, m :
             /\ Reads(p, op) /\ Makes(p, n, s, m)
             /\ n.at = "wait" /\ n.after = op /\ n.home = proc[p].home
             /\ m.at = "runcmd" /\ Alike(m, proc[p])
      BY <2>1
    <2>3. proc[p].home = "line"
      BY <2>2 DEF Tame, Reads, Parsing, At
    <2> QED
      BY <2>2, <2>3, TameMakes DEF Tame, Alike
  <1>20. CASE ParsePipe(p)
    <2>1. PICK n, s, m : Makes(p, n, s, m) /\ Tame(n) /\ Tame(m)
      BY <1>20, ParsePipeDoes DEF Tame, Reads, Parsing, At
    <2> QED
      BY <2>1, TameMakes
  <1>21. CASE RunSpawn(p)
    <2>1. PICK n, s, m : Makes(p, n, s, m) /\ Tame(n) /\ Tame(m)
      BY <1>21, RunSpawnDoes DEF Tame
    <2> QED
      BY <2>1, TameMakes
  <1>22. CASE sys_exit(p)
    <2>1. /\ proc'[p] = NoProc /\ NoProc.at = "free" /\ \A x \in Envs \ {p} : proc'[x] = proc[x]
          /\ env_id' = env_id /\ line' = line
      BY <1>22, SysExitDoes
    <2> QED
      BY <2>1 DEF TameStep, Others, At
  <1>23. CASE \E l \in Lines : Splice(p, l)
    BY <1>23, SpliceDoes DEF Tame, At
  <1>24. CASE Capture(p) /\ ~(\E l \in Lines : Splice(p, l))
    BY <1>24, CaptureDoes DEF Tame, At, ListOps
  <1>25. CASE MainSelf(p)
    BY <1>25, MainSelfDoes DEF Tame, At
  <1>26. CASE MainForks(p)
    BY <1>26, MainForksDoes DEF Tame, At
  <1>27. CASE ReapLine(p)
    BY <1>27, ReapLineDoes DEF Tame, At, ListOps
  <1> QED
    BY <1>1, <1>2, <1>3, <1>4, <1>5, <1>6, <1>7, <1>8, <1>9, <1>10, <1>11, <1>12, <1>13, <1>14, <1>15, <1>16,
       <1>17, <1>18, <1>19, <1>20, <1>21, <1>22, <1>23, <1>24, <1>25, <1>26, <1>27
    DEF Step, Parse, Run, MainStep, Ends

\* Only the shell reads lines while it has one in hand.
LEMMA TameKept ==
    ASSUME TypeInv, AloneInv, WholeLines, TameInv, NEW p \in Envs, ~At(p, "free"),
           Step(p) \/ (\E l \in Lines : Prompt(p, l))
    PROVE  TameInv'
  <1>1. Main \in Envs /\ ~At(Main, "free")
    BY ShellAssumption, MainStays DEF Main, Envs, AloneInv
  <1>2. Others(p)
    BY StepFrame, PromptDoes DEF Takes
  <1>3. CASE p # Main
    <2> SUFFICES ASSUME Listing(proc'[Main]), NEW x \in Envs \ {Main}, proc'[x].at # "free"
                 PROVE  Tame(proc'[x])
      BY DEF TameInv, Living, At
    <2>1. proc'[Main] = proc[Main]
      BY <1>1, <1>2, <1>3 DEF Others
    <2>2. \A q \in Envs \ {Main} : ~At(q, "free") => Tame(proc[q])
      BY <2>1 DEF TameInv, Living
    <2>3. Tame(proc[p])
      BY <1>3, <2>2
    <2>4. Step(p)
      BY <2>3, PromptDoes DEF Tame, At
    <2>5. TameStep(p)
      BY <2>3, <2>4, TameSteps
    <2> QED
      BY <2>2, <2>5 DEF TameStep, Others
  <1>4. CASE p = Main
    <2> SUFFICES ASSUME Listing(proc'[Main]), NEW x \in Envs \ {Main}, proc'[x].at # "free"
                 PROVE  Tame(proc'[x])
      BY DEF TameInv, Living, At
    <2>1. MainOK(proc[Main], ends[Main]) /\ TextOK(proc[Main])
      BY <1>1 DEF AloneInv
    <2>2. ASSUME \A q \in Envs \ {Main} : At(q, "free"), NEW n, Only(Main, n) PROVE FALSE
      BY <2>2 DEF Only, At
    <2>3. ASSUME \A q \in Envs \ {Main} : At(q, "free"), NEW n, NEW s, NEW m, Makes(Main, n, s, m), Tame(m)
          PROVE  Tame(proc'[x])
      BY <2>3 DEF Makes, At
    <2>4. CASE ParseEnd(Main) \/ ParseSkip(Main) \/ ParseComment(Main) \/ ParseWord(Main) \/ ParseVar(Main) \/ ParseRedirect(Main)
      <3>1. \E n : Only(Main, n) /\ At(Main, "parse")
        <4>1. CASE ParseEnd(Main)
          BY <1>1, <4>1, ParseEndDoes
        <4>2. CASE ParseSkip(Main)
          BY <1>1, <4>2, ParseSkipDoes
        <4>3. CASE ParseComment(Main)
          BY <1>1, <4>3, ParseCommentDoes DEF Reads, Parsing
        <4>4. CASE ParseWord(Main)
          BY <1>1, <4>4, ParseWordDoes DEF Parsing
        <4>5. CASE ParseVar(Main)
          BY <1>1, <4>5, ParseVarDoes DEF Reads, Parsing
        <4>6. CASE ParseRedirect(Main)
          BY <1>1, <4>6, ParseRedirectDoes DEF Reads, Parsing
        <4> QED
          BY <2>4, <4>1, <4>2, <4>3, <4>4, <4>5, <4>6
      <3> QED
        BY <2>2, <3>1, AloneWhen DEF At
    <2>5. CASE ParseList(Main)
      <3>0. PICK op \in ListOps : \E n, s, m :
              Reads(Main, op) /\ Makes(Main, n, s, m) /\ m.at = "runcmd" /\ Alike(m, proc[Main])
        BY <1>1, <2>5, ParseListDoes
      <3>1. PICK n, s, m :
              Reads(Main, op) /\ Makes(Main, n, s, m) /\ m.at = "runcmd" /\ Alike(m, proc[Main])
        BY <3>0
      <3>2. m.argv # <<>> /\ Head(m.argv) # "cd"
        BY <1>1, <3>1, OperatorFed DEF Alike
      <3>3. Tame(m) /\ At(Main, "parse")
        BY <3>1, <3>2 DEF Tame, Reads, Parsing
      <3> QED
        BY <2>3, <3>1, <3>3, AloneWhen DEF At
    <2>6. CASE ReapList(Main)
      <3>1. \E n : Only(Main, n) /\ At(Main, "reap") /\ proc[Main].after \in ListOps
        <4>1. PICK n : Only(Main, n) /\ ran' = ran /\ At(Main, "reap") /\ proc[Main].after \in ListOps
          BY <1>1, <2>6, ReapListDoes
        <4> QED
          BY <4>1
      <3> QED
        BY <2>2, <3>1, AloneWhen
    <2>7. CASE RunNothing(Main) \/ RunCd(Main)
      <3>1. \E n : Only(Main, n) /\ At(Main, "runcmd") /\ (proc[Main].argv = <<>> \/ Head(proc[Main].argv) = "cd")
        BY <1>1, <2>7, RunNothingDoes, RunCdDoes
      <3>2. proc[Main].right = NoEnv
        BY <2>1, <3>1 DEF TextOK, At
      <3> QED
        BY <2>2, <3>1, <3>2, AloneWhen
    <2>8. CASE MainSelf(Main) \/ ReapLine(Main)
      <3>1. \E n : Only(Main, n) /\ (At(Main, "line") \/ (At(Main, "reap") /\ proc[Main].after = "line"))
        BY <1>1, <2>8, MainSelfDoes, ReapLineDoes
      <3> QED
        BY <2>2, <3>1, AloneWhen DEF At
    <2>9. CASE MainForks(Main)
      <3>1. PICK n, s, m : Makes(Main, n, s, m) /\ At(Main, "line") /\ m.at = "parse" /\ m.home = "line"
        BY <1>1, <2>9, MainForksDoes
      <3>2. Tame(m)
        BY <3>1 DEF Tame
      <3> QED
        BY <2>3, <3>1, <3>2, AloneWhen DEF At
    <2>10. CASE WaitPoll(Main)
      <3>1. PICK n : Only(Main, n) /\ At(Main, "wait") /\ n.at = "reap" /\ n.after = proc[Main].after
        BY <1>1, <2>10, WaitPollDoes
      <3>2. proc[Main].after \in ListOps \cup {"line"}
        BY <1>1, <3>1 DEF Only, Listing
      <3>3. Listing(proc[Main])
        BY <3>1, <3>2 DEF Listing, At
      <3>4. proc'[x] = proc[x]
        BY <3>1 DEF Only
      <3> QED
        BY <3>3, <3>4 DEF TameInv, Living, At
    <2>11. CASE \E l \in Lines : Splice(Main, l) \/ Prompt(Main, l)
      <3>1. proc[Main].at \in {"prompt", "splice"}
        BY <2>11 DEF Splice, Prompt, At
      <3>2. proc' = [proc EXCEPT ![Main] = proc'[Main]]
        BY <1>1, <2>11 DEF Splice, Prompt, TypeInv, GlobalOK
      <3>3. proc'[x] = proc[x]
        BY <3>2 DEF TypeInv, GlobalOK
      <3> QED
        BY <3>1, <3>3, AloneWhen DEF At
    <2>12. CASE Capture(Main) /\ ~(\E l \in Lines : Splice(Main, l))
      <3>1. ~At(Main, "captured")
        BY <2>1 DEF MainOK, At
      <3>2. \/ proc'[Main].at \in {"capture", "capturing", "splice"}
            \/ proc'[Main].at = "wait" /\ proc'[Main].after = "capture"
        BY <1>1, <2>12, <3>1, CaptureDoes
      <3>3. PICK n : n = proc'[Main]
        OBVIOUS
      <3>4. ~Listing(n)
        BY <3>2, <3>3 DEF Listing, ListOps
      <3> QED
        BY <3>3, <3>4
    <2>13. CASE ParsePipe(Main)
      <3>1. \E n, s, m : Makes(Main, n, s, m) /\ n.at = "left"
        BY <1>1, <2>13, ParsePipeDoes
      <3> QED
        BY <3>1 DEF Makes, Listing
    <2>14. CASE PipeLeft(Main)
      <3>1. PICK n : Only(Main, n) /\ At(Main, "left") /\ n.at = "runcmd" /\ n.right = proc[Main].right
        BY <1>1, <2>14, PipeLeftDoes DEF Alike
      <3> QED
        BY <2>1, <3>1 DEF Only, Listing, MainOK, At
    <2>15. CASE RunSpawn(Main)
      <3>1. \E n, s, m : Makes(Main, n, s, m) /\ n.at = "spawned"
        BY <1>1, <2>15, RunSpawnDoes
      <3> QED
        BY <3>1 DEF Makes, Listing
    <2>16. CASE RunMissing(Main) \/ RunCloses(Main) \/ ReapCommand(Main) \/ ReapRight(Main) \/ ExitCloses(Main)
      <3>1. \E n : /\ Only(Main, n)
                   /\ n.at \in {"spawned", "exit", "dying"} \/ (n.at = "wait" /\ n.after \in {"command", "right"})
        <4>1. CASE RunMissing(Main)
          BY <1>1, <4>1, RunMissingDoes
        <4>2. CASE RunCloses(Main)
          BY <1>1, <4>2, RunClosesDoes
        <4>3. CASE ReapCommand(Main)
          BY <1>1, <4>3, ReapCommandDoes
        <4>4. CASE ReapRight(Main)
          BY <1>1, <4>4, ReapRightDoes
        <4>5. CASE ExitCloses(Main)
          BY <1>1, <4>5, ExitClosesDoes
        <4> QED
          BY <2>16, <4>1, <4>2, <4>3, <4>4, <4>5
      <3>2. PICK n : /\ Only(Main, n)
                     /\ n.at \in {"spawned", "exit", "dying"} \/ (n.at = "wait" /\ n.after \in {"command", "right"})
        BY <3>1
      <3>3. ~Listing(n)
        BY <3>2 DEF Listing, ListOps
      <3> QED
        BY <3>2, <3>3 DEF Only
    <2>17. CASE Program(Main)
      <3>1. \E n : Only(Main, n) /\ n.at \in {"program", "exit"}
        BY <1>1, <2>17, ProgramDoes
      <3> QED
        BY <3>1 DEF Only, Listing
    <2>18. CASE sys_exit(Main)
      <3>1. proc'[Main].at = "free"
        BY <1>1, <2>18, SysExitDoes
      <3> QED
        BY <3>1 DEF Listing
    <2>19. CASE PipeRight(Main)
      BY <1>1, <2>1, <2>19, PipeRightDoes DEF MainOK, At
    <2> QED
      BY <1>4, <2>4, <2>5, <2>6, <2>7, <2>8, <2>9, <2>10, <2>11, <2>12, <2>13, <2>14, <2>15, <2>16, <2>17, <2>18, <2>19
      DEF Step, Parse, Run, MainStep, Ends
  <1> QED
    BY <1>3, <1>4


-----------------------------------------------------------------------------
(***************************************************************************)
(* What a line means                                                       *)
(***************************************************************************)

Meanings == [ran : Seq(STRING), runs : BOOLEAN, r : {0, 1}]

\* n is the meaning m with one token more.
Adds(m, token, n) ==
    /\ token \in ListOps => n.ran = m.ran /\ n.r = m.r
    /\ token = ";" => n.runs
    /\ token = "a" => n.runs = (m.r = 0)
    /\ token = "o" => n.runs = (m.r # 0)
    /\ token \notin ListOps /\ m.runs => n.ran = Append(m.ran, token) /\ n.r = Result(token) /\ n.runs
    /\ token \notin ListOps /\ ~m.runs => n = m

\* What After adds, field by field.
LEMMA AfterFields ==
    ASSUME NEW m \in Meanings, NEW token \in STRING
    PROVE  After(m, token) \in Meanings /\ Adds(m, token, After(m, token))
  <1>0. PICK n : n = After(m, token)
    OBVIOUS
  <1>1. CASE token \in ListOps
    <2>1. PICK b \in BOOLEAN : /\ token = ";" => b
                               /\ token = "a" => b = (m.r = 0)
                               /\ token = "o" => b = (m.r # 0)
                               /\ n = [m EXCEPT !.runs = b]
      BY <1>0, <1>1 DEF After, ListOps
    <2>2. n \in Meanings /\ n.runs = b /\ n.ran = m.ran /\ n.r = m.r
      BY <2>1 DEF Meanings
    <2> QED
      BY <1>0, <1>1, <2>1, <2>2 DEF Adds
  <1>2. CASE token \notin ListOps /\ m.runs
    <2>1. PICK a : a = Append(m.ran, token)
      OBVIOUS
    <2>2. a \in Seq(STRING)
      <3>1. m.ran \in Seq(STRING)
        BY DEF Meanings
      <3>2. Append(m.ran, token) \in Seq(STRING)
        BY <3>1
      <3> QED
        BY <2>1, <3>2
    <2>3. PICK r \in {0, 1} : r = Result(token)
      BY DEF Result
    <2>4. n = [m EXCEPT !.ran = a, !.r = r]
      BY <1>0, <1>2, <2>1, <2>3 DEF After, ListOps
    <2>5. n \in Meanings /\ n.ran = a /\ n.r = r /\ n.runs = m.runs
      BY <2>2, <2>4 DEF Meanings
    <2> QED
      BY <1>0, <1>2, <2>1, <2>3, <2>5 DEF Adds, ListOps
  <1>3. CASE token \notin ListOps /\ ~m.runs
    <2>1. n = m
      BY <1>0, <1>3 DEF After, ListOps
    <2> QED
      BY <1>0, <1>3, <2>1 DEF Adds, ListOps
  <1> QED
    BY <1>1, <1>2, <1>3

\* Meant is the run of After over the tokens.
LEMMA MeantSteps ==
    ASSUME NEW t \in Seq(STRING)
    PROVE  /\ Upto(t, 0) = Begin
           /\ \A k \in 0..Len(t) : Upto(t, k) \in Meanings
           /\ \A k \in 1..Len(t) : Upto(t, k) = After(Upto(t, k - 1), t[k])
  <1> DEFINE n == Len(t)
             round == [p \in Meanings \X (1..n) |-> After(p[1], t[p[2]])]
             Loop(g) == g = [k \in 0..n |-> IF k = 0 THEN Begin ELSE After(g[k - 1], t[k])]
  <1>1. n \in Nat /\ \A k \in 1..n : t[k] \in STRING
    OBVIOUS
  <1>2. Begin \in Meanings
    <2>1. <<>> \in Seq(STRING)
      BY EmptySeq
    <2> QED
      BY <2>1 DEF Begin, Meanings
  <1>3. \A m \in Meanings : \A k \in 1..n : After(m, t[k]) \in Meanings
    BY <1>1, AfterFields
  <1>4. round \in [Meanings \X (1..n) -> Meanings]
    BY <1>3
  <1>5. \A m \in Meanings : \A k \in 1..n : round[<<m, k>>] = After(m, t[k])
    OBVIOUS
  <1> HIDE DEF n, round
  <1>6. PICK g \in [0..n -> Meanings] : g[0] = Begin /\ \A k \in 1..n : g[k] = round[<<g[k - 1], k>>]
    <2>1. PICK base : base = Begin
      OBVIOUS
    <2>2. PICK g : Loops(g, Meanings, n, base, round)
      BY <1>1, <1>2, <1>4, <2>1, LoopRuns
    <2> QED
      BY <2>1, <2>2 DEF Loops
  <1>7. \A k \in 1..n : g[k] = After(g[k - 1], t[k])
    <2> SUFFICES ASSUME NEW k \in 1..n PROVE g[k] = After(g[k - 1], t[k])
      OBVIOUS
    <2>1. k - 1 \in 0..n
      BY <1>1
    <2>2. g[k - 1] \in Meanings
      BY <1>6, <2>1
    <2> QED
      BY <1>5, <1>6, <2>2
  <1>8. Loop(g)
    BY <1>1, <1>6, <1>7
  <1>9. ASSUME NEW h, Loop(h) PROVE h = g
    <2>1. DOMAIN h = 0..n /\ h = [k \in 0..n |-> h[k]] /\ h[0] = Begin
      <3>1. 0 \in 0..n
        BY <1>1
      <3> QED
        BY <1>9, <3>1
    <2>4. \A k \in 1..n : h[k] = After(h[k - 1], t[k])
      <3> SUFFICES ASSUME NEW k \in 1..n PROVE h[k] = After(h[k - 1], t[k])
        OBVIOUS
      <3>1. k \in 0..n /\ k # 0
        BY <1>1
      <3> QED
        BY <1>9, <3>1
    <2> HIDE DEF Loop
    <2>2. DOMAIN g = 0..n /\ g = [k \in 0..n |-> g[k]]
      BY <1>6
    <2>3. \A k \in 1..n : h[k - 1] = g[k - 1] => h[k] = g[k]
      BY <1>7, <2>4
    <2> QED
      BY <1>1, <1>6, <2>1, <2>2, <2>3, LoopUnique
  <1>10. PICK m : m = CHOOSE h : Loop(h)
    OBVIOUS
  <1>11. m = g
    <2> HIDE DEF Loop
    <2> QED
      BY <1>8, <1>9, <1>10
  <1>12. Meant(t) = m
    BY <1>10 DEF Meant, n
  <1> QED
    BY <1>6, <1>7, <1>11, <1>12 DEF Upto, n

\* What the line t means after one token more.
LEMMA NextWord ==
    ASSUME NEW t \in Seq(STRING), NEW k \in 1..Len(t)
    PROVE  /\ k - 1 \in 0..Len(t) /\ Upto(t, k) \in Meanings /\ Upto(t, k - 1) \in Meanings
           /\ Adds(Upto(t, k - 1), t[k], Upto(t, k))
  <1>1. k - 1 \in 0..Len(t) /\ t[k] \in STRING /\ k \in 0..Len(t)
    OBVIOUS
  <1>2. Upto(t, k - 1) \in Meanings /\ Upto(t, k) \in Meanings /\ Upto(t, k) = After(Upto(t, k - 1), t[k])
    BY <1>1, MeantSteps
  <1> QED
    BY <1>1, <1>2, AfterFields

\* Tokens are read one by one.
LEMMA ReadsOn ==
    ASSUME NEW t \in Seq(STRING), NEW k \in 0..Len(t), NEW o \in Procs, Rests(o, t, k)
    PROVE  /\ o.tokens = <<>> => k = Len(t)
           /\ o.tokens # <<>> =>
                /\ k + 1 \in 1..Len(t) /\ k + 1 \in 0..Len(t) /\ (k + 1) - 1 = k /\ Head(o.tokens) = t[k + 1]
                /\ \A n : n.tokens = Tail(o.tokens) => Rests(n, t, k + 1)
  <1>1. o.tokens \in Seq(STRING)
    BY DEF Procs
  <1>2. PICK x \in Seq(STRING), l \in Nat, e \in Nat : x = o.tokens /\ l = Len(t) /\ e = Len(x)
    BY <1>1
  <1>3. e = l - k /\ \A i \in 1..(l - k) : x[i] = t[k + i]
    BY <1>2 DEF Rests
  <1>4. CASE x = <<>>
    <2>1. e = 0
      BY <1>2, <1>4, EmptyLen
    <2>2. k \in 0..l
      BY <1>2
    <2>3. k = l
      BY <1>3, <2>1, <2>2
    <2> QED
      BY <1>2, <1>4, <2>3
  <1>5. CASE x # <<>>
    <2>1. e >= 1 /\ Head(x) = x[1]
      BY <1>2, <1>5, TailSeq
    <2>2. PICK u \in Seq(STRING) : u = Tail(x) /\ Len(u) = e - 1 /\ \A i \in 1..(e - 1) : u[i] = x[i + 1]
      <3>1. PICK u \in Seq(STRING) : u = Tail(x) /\ Len(u) = Len(x) - 1 /\ \A i \in 1..(Len(x) - 1) : u[i] = x[i + 1]
        BY <1>5, TailOf
      <3> QED
        BY <1>2, <3>1
    <2>6. k \in 0..l
      BY <1>2
    <2>3. k + 1 \in 1..l /\ k + 1 \in 0..l /\ (k + 1) - 1 = k /\ Head(x) = t[k + 1]
      <3>1. 1 \in 1..(l - k)
        BY <1>3, <2>1, <2>6
      <3> QED
        BY <1>3, <2>1, <2>6, <3>1
    <2>4. \A i \in 1..(l - (k + 1)) : u[i] = t[(k + 1) + i]
      <3> SUFFICES ASSUME NEW i \in 1..(l - (k + 1)) PROVE u[i] = t[(k + 1) + i]
        OBVIOUS
      <3>1. i \in 1..(e - 1) /\ i + 1 \in 1..(l - k) /\ k + (i + 1) = (k + 1) + i
        BY <1>3, <2>6
      <3> QED
        BY <1>3, <2>2, <3>1
    <2>5. Len(u) = l - (k + 1)
      BY <1>3, <2>2, <2>6
    <2> QED
      BY <1>2, <1>5, <2>2, <2>3, <2>4, <2>5 DEF Rests
  <1> QED
    BY <1>2, <1>4, <1>5

\* The words of a list.
LEMMA PlainWords ==
    ASSUME NEW t \in Seq(STRING), PlainList(t)
    PROVE  /\ \A k \in 1..Len(t) : Op(t, k) \/ t[k] \notin Symbols
           /\ \A k \in 1..Len(t) : k = 1 \/ Op(t, k - 1) => t[k] \notin Symbols
           /\ \A k \in 1..Len(t) : k # 1 /\ ~Op(t, k - 1) => Op(t, k)
           /\ \A i, j \in 1..Len(t) : i < j /\ t[j] = ";" => t[i] \notin {"a", "o"}
           /\ \A k \in 1..Len(t) : t[k] = "cd" => k = Len(t)
  <1>1. PICK l \in Nat : l = Len(t)
    OBVIOUS
  <1>2. \A k \in 1..l : k # 1 => k - 1 \in 1..(l - 1) /\ (k - 1) + 1 = k
    OBVIOUS
  <1>3. \A k \in 1..l : Op(t, k) \/ t[k] \notin Symbols
    BY <1>1 DEF PlainList, Op, ListOps
  <1>4. ASSUME NEW k \in 1..l, k # 1
        PROVE  (Op(t, k - 1) => t[k] \notin Symbols) /\ (~Op(t, k - 1) => Op(t, k))
    <2>1. t[k - 1] \in {";", "a", "o"} <=> t[k] \notin Symbols
      BY <1>1, <1>2, <1>4 DEF PlainList
    <2> QED
      BY <1>3, <1>4, <2>1 DEF Op, ListOps
  <1>5. l >= 1 => t # <<>>
    BY <1>1, EmptyLen
  <1>6. \A k \in 1..l : k = 1 => t[k] \notin Symbols
    <2>1. t # <<>> => t[1] \notin Symbols
      BY DEF PlainList
    <2> QED
      BY <1>5, <2>1
  <1>7. \A i, j \in 1..Len(t) : i < j /\ t[j] = ";" => t[i] \notin {"a", "o"}
    BY DEF PlainList
  <1>8. \A k \in 1..Len(t) : t[k] = "cd" => k = Len(t)
    BY DEF PlainList, Sensible
  <1> QED
    BY <1>1, <1>3, <1>4, <1>6, <1>7, <1>8

-----------------------------------------------------------------------------
(***************************************************************************)
(* No pipes in a list                                                      *)
(***************************************************************************)

\* Where an env will write to a pipe, or make others do so, and a text without
\* a pipe.
Wet == {"quote", "captured", "left", "right"}
NoBar(t) == \A i \in 1..Len(t) : t[i] # "|"

\* p writes to no pipe and cannot come to it.
Dry(p) ==
    /\ ends[p][1][1] = 0
    /\ ~At(p, "free") => proc[p].at \notin Wet /\ NoBar(proc[p].tokens)
AllDry == \A x \in Envs : Dry(x)

\* While the shell has a list in hand nobody writes to a pipe: no write of a
\* filter falls short.
DryInv == Listing(proc[Main]) /\ PlainList(line.tokens) => AllDry

\* The rest of a text without a pipe.
LEMMA NoBarTail ==
    ASSUME NEW t \in Seq(STRING), NoBar(t)
    PROVE  /\ t # <<>> => NoBar(Tail(t))
           /\ Len(t) >= 2 => NoBar(Tail(Tail(t)))
  <1>1. ASSUME NEW u \in Seq(STRING), NoBar(u), u # <<>> PROVE NoBar(Tail(u))
    <2>1. Len(Tail(u)) = Len(u) - 1 /\ \A i \in 1..(Len(u) - 1) : Tail(u)[i] = u[i + 1]
      BY <1>1, TailSeq
    <2>2. Len(u) \in Nat /\ \A i \in 1..(Len(u) - 1) : i + 1 \in 1..Len(u)
      OBVIOUS
    <2> QED
      BY <1>1, <2>1, <2>2 DEF NoBar
  <1>2. CASE t # <<>>
    <2>1. PICK u \in Seq(STRING) : u = Tail(t) /\ Len(u) = Len(t) - 1
      BY <1>2, TailSeq
    <2>2. NoBar(u)
      BY <1>1, <1>2, <2>1
    <2>3. Len(t) >= 2 => u # <<>>
      <3>1. u = <<>> => Len(u) = 0
        OBVIOUS
      <3> QED
        BY <2>1, <3>1
    <2> QED
      BY <1>1, <2>1, <2>2, <2>3
  <1>3. CASE t = <<>>
    <2>1. Len(t) = 0
      BY <1>3
    <2> QED
      BY <1>3, <2>1
  <1> QED
    BY <1>2, <1>3

\* A step that changes one env.
LEMMA DryOne ==
    ASSUME TypeInv, AllDry, NEW p \in Envs, NEW n, NEW e,
           proc' = [proc EXCEPT ![p] = n], ends' = [ends EXCEPT ![p] = e],
           e[1][1] = 0, n.at \notin Wet, NoBar(n.tokens)
    PROVE  AllDry'
  <1> SUFFICES ASSUME NEW x \in Envs PROVE Dry(x)'
    BY DEF AllDry
  <1>1. CASE x = p
    BY <1>1 DEF Dry, At, TypeInv, GlobalOK
  <1>2. CASE x # p
    <2>1. proc'[x] = proc[x] /\ ends'[x] = ends[x] /\ Dry(x)
      BY <1>2 DEF AllDry, TypeInv, GlobalOK
    <2> QED
      BY <2>1 DEF Dry, At
  <1> QED
    BY <1>1, <1>2

\* The same, with the descriptors as they were.
LEMMA DryGoes ==
    ASSUME TypeInv, AllDry, NEW p \in Envs, NEW n, proc' = [proc EXCEPT ![p] = n], UNCHANGED ends,
           n.at \notin Wet, NoBar(n.tokens)
    PROVE  AllDry'
  <1>1. ends' = [ends EXCEPT ![p] = ends[p]]
    BY DEF TypeInv, GlobalOK
  <1>2. ends[p][1][1] = 0
    BY DEF AllDry, Dry
  <1> QED
    BY <1>1, <1>2, DryOne

\* A fork.
LEMMA DryFork ==
    ASSUME TypeInv, AllDry, NEW p \in Envs, ~At(p, "free"), NEW n, NEW s, NEW m,
           Forked(p, n, ends[p], s, m),
           n.at \notin Wet, NoBar(n.tokens), m.at \notin Wet, NoBar(m.tokens)
    PROVE  AllDry'
  <1> SUFFICES ASSUME NEW x \in Envs PROVE Dry(x)'
    BY DEF AllDry
  <1>1. /\ s \in Envs \ {p}
        /\ proc'[p] = n /\ ends'[p] = ends[p] /\ proc'[s] = m /\ ends'[s] = ends[p]
        /\ \A q \in Envs \ {p, s} : proc'[q] = proc[q] /\ ends'[q] = ends[q]
    BY ForkedEnvs
  <1>2. ends[p][1][1] = 0 /\ Dry(x)
    BY DEF AllDry, Dry
  <1>3. CASE x = p
    BY <1>1, <1>2, <1>3 DEF Dry, At
  <1>4. CASE x = s
    BY <1>1, <1>2, <1>4 DEF Dry, At
  <1>5. CASE x \notin {p, s}
    BY <1>1, <1>2, <1>5 DEF Dry, At
  <1> QED
    BY <1>3, <1>4, <1>5

\* A step of parsecmd.
LEMMA DryParse ==
    ASSUME TypeInv, AllDry, NEW p \in Envs, ~At(p, "free"), Parse(p)
    PROVE  AllDry'
  <1>1. PICK o \in Procs : o = proc[p] /\ NoBar(o.tokens) /\ o.at \notin Wet /\ ends[p][1][1] = 0
    BY Here DEF AllDry, Dry, At
  <1>2. o.tokens \in Seq(STRING) /\ ends[p] \in Ends4
    BY <1>1, Here
  <1>3. PICK t, u : t = Tail(o.tokens) /\ u = Tail(Tail(o.tokens))
    OBVIOUS
  <1>4. (o.tokens # <<>> => NoBar(t)) /\ (Len(o.tokens) >= 2 => NoBar(u))
    BY <1>1, <1>2, <1>3, NoBarTail
  <1>5. CASE ParseEnd(p)
    <2>1. PICK n : n = [o EXCEPT !.next = TRUE, !.flag = 0, !.at = "runcmd"]
      OBVIOUS
    <2>2. n.at = "runcmd" /\ n.tokens = o.tokens
      BY <2>1 DEF Procs
    <2>3. proc' = [proc EXCEPT ![p] = n] /\ UNCHANGED ends
      BY <1>1, <1>5, <2>1 DEF ParseEnd, Goes
    <2> QED
      BY <1>1, <2>2, <2>3, DryGoes DEF Wet
  <1>6. CASE ParseSkip(p)
    <2>1. PICK b, n : b = Resumes(Token(p), proc[p].flag) /\ n = [o EXCEPT !.tokens = t, !.next = b]
      OBVIOUS
    <2>2. n.at = o.at /\ n.tokens = t
      BY <2>1 DEF Procs
    <2>3. proc' = [proc EXCEPT ![p] = n] /\ UNCHANGED ends /\ o.tokens # <<>>
      BY <1>1, <1>3, <1>6, <2>1 DEF ParseSkip, Goes, Rest
    <2> QED
      BY <1>1, <1>4, <2>2, <2>3, DryGoes
  <1>7. CASE ParseComment(p)
    <2>1. PICK n : n = [o EXCEPT !.at = "runcmd"]
      OBVIOUS
    <2>2. n.at = "runcmd" /\ n.tokens = o.tokens
      BY <2>1 DEF Procs
    <2>3. proc' = [proc EXCEPT ![p] = n] /\ UNCHANGED ends
      BY <1>1, <1>7, <2>1 DEF ParseComment, Goes
    <2> QED
      BY <1>1, <2>2, <2>3, DryGoes DEF Wet
  <1>8. CASE ParseWord(p)
    <2>1. PICK a, n : a = Append(o.argv, Token(p)) /\ n = [o EXCEPT !.tokens = t, !.argv = a]
      OBVIOUS
    <2>2. n.at = o.at /\ n.tokens = t
      BY <2>1 DEF Procs
    <2>3. [Rest(p) EXCEPT !.argv = Append(@, Token(p))] = n
      BY <1>1, <1>3, <2>1 DEF Rest, Procs
    <2>4. proc' = [proc EXCEPT ![p] = n] /\ UNCHANGED ends /\ o.tokens # <<>>
      BY <1>1, <1>8, <2>3 DEF ParseWord, Parsing, Goes
    <2> QED
      BY <1>1, <1>4, <2>2, <2>4, DryGoes
  <1>9. PICK x : x = Exits(Rest(p), 1)
    OBVIOUS
  <1>10. x.at = "exit" /\ x.tokens = t
    <2>1. PICK r : r = [o EXCEPT !.tokens = t]
      OBVIOUS
    <2>2. r = Rest(p) /\ r.tokens = t
      BY <1>1, <1>3, <2>1 DEF Rest, Procs
    <2>3. PICK y : y = [r EXCEPT !.at = "exit", !.r = 1]
      OBVIOUS
    <2>4. y.at = "exit" /\ y.tokens = t
      BY <2>1, <2>2, <2>3 DEF Procs
    <2> QED
      BY <1>9, <2>2, <2>3, <2>4 DEF Exits
  <1>11. CASE ParseVar(p)
    <2>1. PICK a, n : a = Append(o.argv, Vars[o.tokens[2]]) /\ n = [o EXCEPT !.tokens = u, !.argv = a]
      OBVIOUS
    <2>2. n.at = o.at /\ n.tokens = u
      BY <2>1 DEF Procs
    <2>3. [Rest2(p) EXCEPT !.argv = Append(@, Vars[proc[p].tokens[2]])] = n
      BY <1>1, <1>3, <2>1 DEF Rest2, Procs
    <2>4. PICK y : y = IF WordFollows(p) /\ proc[p].tokens[2] \in DOMAIN Vars THEN n ELSE x
      OBVIOUS
    <2>5. proc' = [proc EXCEPT ![p] = y] /\ UNCHANGED ends /\ o.tokens # <<>>
      BY <1>1, <1>9, <1>11, <2>3, <2>4 DEF ParseVar, Reads, Parsing, Goes
    <2>6. WordFollows(p) => Len(o.tokens) >= 2
      BY <1>1 DEF WordFollows
    <2>7. y.at \notin Wet /\ NoBar(y.tokens)
      BY <1>1, <1>4, <1>10, <2>2, <2>4, <2>5, <2>6 DEF Wet
    <2> QED
      BY <2>5, <2>7, DryGoes
  <1>12. CASE ParseList(p)
    <2>1. PICK op \in {";", "a", "o"} :
            /\ Reads(p, op)
            /\ Fork(p, ends[p], LAMBDA c : Waits(Rest(p), c, op), [Rest(p) EXCEPT !.at = "runcmd"])
      BY <1>12 DEF ParseList
    <2>2. PICK s, c : s = Head(free) /\ c = <<s, env_id[s] + 1>>
      OBVIOUS
    <2>3. PICK n : n = [o EXCEPT !.tokens = t, !.at = "wait", !.child = c, !.after = op]
      OBVIOUS
    <2>4. PICK m : m = [o EXCEPT !.tokens = t, !.at = "runcmd"]
      OBVIOUS
    <2>5. n = Waits(Rest(p), c, op) /\ m = [Rest(p) EXCEPT !.at = "runcmd"]
      BY <1>1, <1>3, <2>3, <2>4 DEF Waits, Rest, Procs
    <2>6. Forked(p, n, ends[p], s, m)
      BY <2>1, <2>2, <2>5 DEF Forked, Fork
    <2>7. n.at = "wait" /\ n.tokens = t /\ m.at = "runcmd" /\ m.tokens = t
      BY <2>3, <2>4 DEF Procs
    <2>8. o.tokens # <<>> /\ ~At(p, "free")
      BY <1>1, <2>1 DEF Reads, Parsing, At
    <2> QED
      BY <1>4, <2>6, <2>7, <2>8, DryFork DEF Wet
  <1>13. CASE ReapList(p)
    <2>1. PICK f, b : /\ f = (IF o.after = ";" THEN o.flag ELSE sys_wait(o.child))
                      /\ b = CASE o.after = ";" -> o.next [] o.after = "a" -> sys_wait(o.child) = 0
                               [] o.after = "o" -> sys_wait(o.child) # 0
      OBVIOUS
    <2>2. PICK a, n : a = <<>> /\ n = [o EXCEPT !.at = "parse", !.argv = a, !.flag = f, !.next = b]
      OBVIOUS
    <2>3. n.at = "parse" /\ n.tokens = o.tokens
      BY <2>2 DEF Procs
    <2>4. proc' = [proc EXCEPT ![p] = n]
      BY <1>1, <1>13, <2>1, <2>2 DEF ReapList
    <2>5. PICK e : e = [ends[p] EXCEPT ![0] = Console, ![1] = Console]
      OBVIOUS
    <2>6. e[1][1] = 0
      BY <1>2, <2>5 DEF Ends4, Console
    <2>7. ends' = [ends EXCEPT ![p] = e]
      BY <1>2, <1>13, <2>5 DEF ReapList, TypeInv, GlobalOK, Ends4
    <2> QED
      BY <1>1, <2>3, <2>4, <2>6, <2>7, DryOne DEF Wet
  <1>14. CASE ParseRedirect(p)
    <2>1. PICK token \in {"<", ">"}, found \in BOOLEAN :
            /\ Reads(p, token)
            /\ IF WordFollows(p) /\ found
               THEN /\ proc' = [proc EXCEPT ![p] = Rest2(p)]
                    /\ ends' = [ends EXCEPT ![p][IF token = "<" THEN 0 ELSE 1] = File]
               ELSE proc' = [proc EXCEPT ![p] = Exits(Rest(p), 1)] /\ UNCHANGED ends
      BY <1>14 DEF ParseRedirect
    <2>2. o.tokens # <<>> /\ (WordFollows(p) => Len(o.tokens) >= 2)
      BY <1>1, <2>1 DEF Reads, Parsing, WordFollows
    <2>3. CASE WordFollows(p) /\ found
      <3>1. PICK n : n = [o EXCEPT !.tokens = u]
        OBVIOUS
      <3>2. n.at = o.at /\ n.tokens = u /\ n = Rest2(p)
        BY <1>1, <1>3, <3>1 DEF Procs, Rest2
      <3>3. PICK k, e : k = (IF token = "<" THEN 0 ELSE 1) /\ e = [ends[p] EXCEPT ![k] = File]
        OBVIOUS
      <3>4. e[1][1] = 0
        BY <1>1, <1>2, <3>3 DEF Ends4, File
      <3>5. ends' = [ends EXCEPT ![p] = e] /\ proc' = [proc EXCEPT ![p] = n]
        BY <2>1, <2>3, <3>2, <3>3
      <3> QED
        BY <1>1, <1>4, <2>2, <2>3, <3>2, <3>4, <3>5, DryOne
    <2>4. CASE ~(WordFollows(p) /\ found)
      BY <1>4, <1>9, <1>10, <2>1, <2>2, <2>4, DryGoes DEF Wet
    <2> QED
      BY <2>3, <2>4
  <1>15. CASE ParsePipe(p)
    <2>1. o.tokens # <<>> /\ Head(o.tokens) = "|"
      BY <1>1, <1>15 DEF ParsePipe, Reads, Parsing, Token
    <2>2. o.tokens[1] = "|" /\ 1 \in 1..Len(o.tokens)
      BY <1>2, <2>1, TailSeq
    <2> QED
      BY <1>1, <2>2 DEF NoBar
  <1>16. CASE PipeRight(p) \/ PipeLeft(p)
    BY <1>1, <1>16 DEF PipeRight, PipeLeft, At, Wet
  <1> QED
    BY <1>5, <1>6, <1>7, <1>8, <1>11, <1>12, <1>13, <1>14, <1>15, <1>16 DEF Parse

\* What a command leads to, and an exit.
LEMMA DryRecords ==
    ASSUME NEW o \in Procs, NEW k
    PROVE  /\ AfterCommand([o EXCEPT !.r = k]).at \in {"wait", "exit"}
           /\ AfterCommand([o EXCEPT !.r = k]).tokens = o.tokens
           /\ Exits(o, k).at = "exit" /\ Exits(o, k).tokens = o.tokens
  <1>1. PICK u : u = [o EXCEPT !.r = k]
    OBVIOUS
  <1>2. PICK x : x = [u EXCEPT !.at = "exit", !.r = u.r]
    OBVIOUS
  <1>3. PICK y : y = [u EXCEPT !.at = "wait", !.child = u.right, !.after = "right"]
    OBVIOUS
  <1>4. PICK z : z = [o EXCEPT !.at = "exit", !.r = k]
    OBVIOUS
  <1>5. x.at = "exit" /\ x.tokens = o.tokens /\ y.at = "wait" /\ y.tokens = o.tokens
    BY <1>1, <1>2, <1>3 DEF Procs
  <1>6. z.at = "exit" /\ z.tokens = o.tokens
    BY <1>4 DEF Procs
  <1>7. AfterCommand(u) = IF u.right = NoEnv THEN x ELSE y
    BY <1>2, <1>3 DEF AfterCommand, Exits, Waits
  <1> QED
    BY <1>1, <1>4, <1>5, <1>6, <1>7 DEF Exits

\* A step of runcmd.
LEMMA DryRun ==
    ASSUME TypeInv, AllDry, NEW p \in Envs, ~At(p, "free"), Run(p)
    PROVE  AllDry'
  <1>1. PICK o \in Procs : o = proc[p] /\ NoBar(o.tokens) /\ o.at \notin Wet /\ ends[p][1][1] = 0
    BY Here DEF AllDry, Dry, At
  <1>2. CASE RunNothing(p)
    <2>1. PICK n \in Procs : n = Returned(o) /\ n.at \in {"prompt", "splice", "exit"} /\ Moves(n, o)
      BY ReturnedRecord
    <2>2. proc' = [proc EXCEPT ![p] = n] /\ UNCHANGED ends
      BY <1>1, <1>2, <2>1 DEF RunNothing, Goes
    <2> QED
      BY <1>1, <2>1, <2>2, DryGoes DEF Wet, Moves
  <1>3. CASE RunCd(p)
    <2>1. PICK u \in Procs : u = Returned(o) /\ u.at \in {"prompt", "splice", "exit"} /\ Moves(u, o)
      BY ReturnedRecord
    <2>2. PICK found \in BOOLEAN : proc' = [proc EXCEPT ![p] = [u EXCEPT !.cd = @ \/ found]]
      BY <1>1, <1>3, <2>1 DEF RunCd
    <2>3. PICK n : n = [u EXCEPT !.cd = @ \/ found]
      OBVIOUS
    <2>4. n.at = u.at /\ n.tokens = u.tokens
      BY <2>3 DEF Procs
    <2>5. proc' = [proc EXCEPT ![p] = n] /\ UNCHANGED ends
      BY <1>3, <2>2, <2>3 DEF RunCd
    <2> QED
      BY <1>1, <2>1, <2>4, <2>5, DryGoes DEF Wet, Moves
  <1>4. CASE RunSpawn(p)
    <2>1. PICK s, c : s = Head(free) /\ c = <<s, env_id[s] + 1>>
      OBVIOUS
    <2>2. PICK n : n = [o EXCEPT !.at = "spawned", !.child = c]
      OBVIOUS
    <2>3. PICK m : m = [NoProc EXCEPT !.at = "program", !.argv = o.argv]
      OBVIOUS
    <2>4. Forked(p, n, ends[p], s, m)
      BY <1>1, <1>4, <2>1, <2>2, <2>3 DEF RunSpawn, Forked, Fork
    <2>5. n.at = "spawned" /\ n.tokens = o.tokens
      BY <2>2 DEF Procs
    <2>6. m.at = "program" /\ m.tokens = <<>>
      BY <2>3 DEF NoProc
    <2>7. NoBar(m.tokens)
      BY <2>6, EmptySeq DEF NoBar
    <2>8. ~At(p, "free")
      BY <1>4 DEF RunSpawn, At
    <2> QED
      BY <1>1, <2>4, <2>5, <2>6, <2>7, <2>8, DryFork DEF Wet
  <1>5. CASE RunMissing(p)
    <2>1. PICK n : n = [o EXCEPT !.at = "spawned", !.child = NoEnv]
      OBVIOUS
    <2>2. n.at = "spawned" /\ n.tokens = o.tokens
      BY <2>1 DEF Procs
    <2>3. proc' = [proc EXCEPT ![p] = n] /\ UNCHANGED ends
      BY <1>1, <1>5, <2>1 DEF RunMissing
    <2> QED
      BY <1>1, <2>2, <2>3, DryGoes DEF Wet
  <1>6. CASE RunCloses(p)
    <2>1. PICK w : w = [o EXCEPT !.at = "wait", !.child = o.child, !.after = "command"]
      OBVIOUS
    <2>2. w.at = "wait" /\ w.tokens = o.tokens
      BY <2>1 DEF Procs
    <2>3. PICK n : n = IF o.child = NoEnv THEN AfterCommand([o EXCEPT !.r = 1]) ELSE w
      OBVIOUS
    <2>4. n.at \in {"wait", "exit"} /\ n.tokens = o.tokens
      BY <2>2, <2>3, DryRecords
    <2>5. proc' = [proc EXCEPT ![p] = n] /\ ends' = [ends EXCEPT ![p] = NoEnds]
      BY <1>1, <1>6, <2>1, <2>3 DEF RunCloses, Waits
    <2>6. NoEnds[1][1] = 0
      BY DEF NoEnds, Closed
    <2> QED
      BY <1>1, <2>4, <2>5, <2>6, DryOne DEF Wet
  <1>7. CASE ReapCommand(p)
    <2>1. PICK k, n : k = sys_wait(o.child) /\ n = AfterCommand([o EXCEPT !.r = k])
      OBVIOUS
    <2>2. n.at \in {"wait", "exit"} /\ n.tokens = o.tokens
      BY <2>1, DryRecords
    <2>3. proc' = [proc EXCEPT ![p] = n] /\ UNCHANGED ends
      BY <1>1, <1>7, <2>1 DEF ReapCommand, Goes
    <2> QED
      BY <1>1, <2>2, <2>3, DryGoes DEF Wet
  <1>8. CASE ReapRight(p)
    <2>1. PICK n : n = Exits(o, o.r)
      OBVIOUS
    <2>2. proc' = [proc EXCEPT ![p] = n] /\ UNCHANGED ends
      BY <1>1, <1>8, <2>1 DEF ReapRight, Goes
    <2> QED
      BY <1>1, <2>1, <2>2, DryRecords, DryGoes DEF Wet
  <1> QED
    BY <1>2, <1>3, <1>4, <1>5, <1>6, <1>7, <1>8 DEF Run

\* A step of a program.
LEMMA DryProgram ==
    ASSUME TypeInv, AllDry, NEW p \in Envs, ~At(p, "free"), Program(p)
    PROVE  AllDry'
  <1>1. PICK o \in Procs : o = proc[p] /\ NoBar(o.tokens) /\ o.at \notin Wet /\ ends[p][1][1] = 0
    BY Here DEF AllDry, Dry, At
  <1>2. UNCHANGED ends
    BY DEF Program, ProgramWrites, ProgramReads, ProgramCopies, ProgramFails, Goes
  <1>3. ASSUME NEW k, proc' = [proc EXCEPT ![p] = Exits(o, k)] PROVE AllDry'
    <2>1. PICK n : n = Exits(o, k)
      OBVIOUS
    <2> QED
      BY <1>1, <1>2, <1>3, <2>1, DryRecords, DryGoes DEF Wet
  <1>4. ASSUME NEW k, proc' = [proc EXCEPT ![p].flag = k] PROVE AllDry'
    <2>1. PICK n : n = [o EXCEPT !.flag = k]
      OBVIOUS
    <2>2. n.at = o.at /\ n.tokens = o.tokens
      BY <2>1 DEF Procs
    <2>3. proc' = [proc EXCEPT ![p] = n]
      BY <1>1, <1>4, <2>1
    <2> QED
      BY <1>1, <1>2, <2>2, <2>3, DryGoes
  <1>5. ASSUME NEW f, NEW k, proc' = [proc EXCEPT ![p].flag = f, ![p].r = k] PROVE AllDry'
    <2>1. PICK n : n = [o EXCEPT !.flag = f, !.r = k]
      OBVIOUS
    <2>2. n.at = o.at /\ n.tokens = o.tokens
      BY <2>1 DEF Procs
    <2>3. proc' = [proc EXCEPT ![p] = n]
      BY <1>1, <1>5, <2>1 DEF TypeInv, GlobalOK
    <2> QED
      BY <1>1, <1>2, <2>2, <2>3, DryGoes
  <1>6. CASE ProgramWrites(p)
    <2>1. \/ proc' = [proc EXCEPT ![p] = Exits(o, 0)]
          \/ proc' = [proc EXCEPT ![p] = [o EXCEPT !.flag = o.flag + 1]]
      BY <1>1, <1>6 DEF ProgramWrites
    <2>2. PICK k : k = o.flag + 1
      OBVIOUS
    <2>3. proc' = [proc EXCEPT ![p] = Exits(o, 0)] \/ proc' = [proc EXCEPT ![p].flag = k]
      BY <1>1, <2>1, <2>2
    <2> QED
      BY <1>3, <1>4, <2>3
  <1>7. CASE ProgramReads(p)
    <2>1. PICK r : r = o.r
      OBVIOUS
    <2>2. CASE proc' = [proc EXCEPT ![p].r = @ + 1]
      <3>1. PICK k, n : k = o.r + 1 /\ n = [o EXCEPT !.r = k]
        OBVIOUS
      <3>2. n.at = o.at /\ n.tokens = o.tokens
        BY <3>1 DEF Procs
      <3>3. proc' = [proc EXCEPT ![p] = n]
        BY <1>1, <2>2, <3>1
      <3> QED
        BY <1>1, <1>2, <3>2, <3>3, DryGoes
    <2>3. CASE proc' = [proc EXCEPT ![p].flag = r, ![p].r = 0]
      BY <1>5, <2>3
    <2>4. CASE \E n \in 0..(PIPE_SIZE + 1) : proc' = [proc EXCEPT ![p].flag = n, ![p].r = -1]
      <3>1. PICK f, k : k = -1 /\ proc' = [proc EXCEPT ![p].flag = f, ![p].r = k]
        BY <2>4
      <3> QED
        BY <1>5, <3>1
    <2>5. CASE proc' = [proc EXCEPT ![p] = Exits(o, 0)]
      BY <1>3, <2>5
    <2> QED
      BY <1>1, <1>7, <2>1, <2>2, <2>3, <2>4, <2>5 DEF ProgramReads
  <1>8. CASE ProgramCopies(p)
    <2>1. PICK k : k = o.flag - 1
      OBVIOUS
    <2>2. proc' = [proc EXCEPT ![p].flag = k] \/ proc' = [proc EXCEPT ![p] = Exits(o, 1)]
      BY <1>1, <1>8, <2>1 DEF ProgramCopies
    <2> QED
      BY <1>3, <1>4, <2>2
  <1>9. CASE ProgramFails(p)
    BY <1>1, <1>3, <1>9 DEF ProgramFails, Goes
  <1> QED
    BY <1>6, <1>7, <1>8, <1>9 DEF Program

\* A step of the shell with a line, or of an env with a command in backquotes.
LEMMA DryMain ==
    ASSUME TypeInv, AllDry, NEW p \in Envs, ~At(p, "free"),
           MainStep(p) \/ (Capture(p) /\ ~(\E l \in Lines : Splice(p, l)))
    PROVE  AllDry'
  <1>1. PICK o \in Procs : o = proc[p] /\ NoBar(o.tokens) /\ o.at \notin Wet /\ ends[p][1][1] = 0
    BY Here DEF AllDry, Dry, At
  <1>2. ends[p] \in Ends4
    BY Here
  <1>3. ASSUME NEW a, proc' = [proc EXCEPT ![p].at = a] \/ proc' = [proc EXCEPT ![p] = [o EXCEPT !.at = a]],
               UNCHANGED ends, a \notin Wet
        PROVE  AllDry'
    <2>1. PICK n : n = [o EXCEPT !.at = a]
      OBVIOUS
    <2>2. n.at = a /\ n.tokens = o.tokens
      BY <2>1 DEF Procs
    <2>3. proc' = [proc EXCEPT ![p] = n]
      BY <1>1, <1>3, <2>1
    <2> QED
      BY <1>1, <1>3, <2>2, <2>3, DryGoes
  <1>4. CASE MainSelf(p)
    <2>1. CASE \/ Goes(p, [proc[p] EXCEPT !.at = "prompt"]) \/ Goes(p, [proc[p] EXCEPT !.at = "parse"])
      BY <1>1, <1>3, <2>1 DEF Goes, Wet
    <2>2. CASE Goes(p, Exits(proc[p], 0))
      <3>1. PICK n : n = Exits(o, 0)
        OBVIOUS
      <3> QED
        BY <1>1, <2>2, <3>1, DryRecords, DryGoes DEF Goes, Wet
    <2> QED
      BY <1>4, <2>1, <2>2 DEF MainSelf
  <1>5. CASE MainForks(p)
    <2>1. PICK s, c : s = Head(free) /\ c = <<s, env_id[s] + 1>>
      OBVIOUS
    <2>2. PICK n : n = [o EXCEPT !.at = "wait", !.child = c, !.after = "line"]
      OBVIOUS
    <2>3. PICK m : m = [o EXCEPT !.at = "parse", !.home = "line"]
      OBVIOUS
    <2>4. Forked(p, n, ends[p], s, m)
      BY <1>1, <1>5, <2>1, <2>2, <2>3 DEF MainForks, Forked, Fork, Waits
    <2>5. n.at = "wait" /\ n.tokens = o.tokens /\ m.at = "parse" /\ m.tokens = o.tokens
      BY <2>2, <2>3 DEF Procs
    <2>6. ~At(p, "free")
      BY <1>5 DEF MainForks, At
    <2> QED
      BY <1>1, <2>4, <2>5, <2>6, DryFork DEF Wet
  <1>6. CASE ReapLine(p) \/ ReapCapture(p)
    BY <1>1, <1>3, <1>6 DEF ReapLine, ReapCapture, Goes, Wet
  <1>7. CASE CaptureForks(p) \/ CapturedStarts(p)
    BY <1>1, <1>7 DEF CaptureForks, CapturedStarts, At, Wet
  <1>8. CASE CaptureStarts(p)
    <2>1. PICK n, e : n = [o EXCEPT !.at = "capturing"] /\ e = [ends[p] EXCEPT ![3] = Closed]
      OBVIOUS
    <2>2. n.at = "capturing" /\ n.tokens = o.tokens
      BY <2>1 DEF Procs
    <2>3. e[1][1] = 0
      BY <1>1, <1>2, <2>1 DEF Ends4
    <2>4. proc' = [proc EXCEPT ![p] = n] /\ ends' = [ends EXCEPT ![p] = e]
      BY <1>1, <1>8, <2>1 DEF CaptureStarts
    <2> QED
      BY <1>1, <2>2, <2>3, <2>4, DryOne DEF Wet
  <1>9. CASE CaptureReads(p)
    BY <1>9 DEF CaptureReads, AllDry, Dry, At
  <1>10. CASE CaptureEnds(p)
    <2>1. PICK n, e : /\ n = [o EXCEPT !.at = "wait", !.child = o.child, !.after = "capture"]
                      /\ e = [ends[p] EXCEPT ![2] = Closed]
      OBVIOUS
    <2>2. n.at = "wait" /\ n.tokens = o.tokens
      BY <2>1 DEF Procs
    <2>3. e[1][1] = 0
      BY <1>1, <1>2, <2>1 DEF Ends4
    <2>4. proc' = [proc EXCEPT ![p] = n] /\ ends' = [ends EXCEPT ![p] = e]
      BY <1>1, <1>10, <2>1 DEF CaptureEnds, Waits
    <2> QED
      BY <1>1, <2>2, <2>3, <2>4, DryOne DEF Wet
  <1> QED
    BY <1>4, <1>5, <1>6, <1>7, <1>8, <1>9, <1>10 DEF MainStep, Capture

\* A step of an env that ends, or waits for one.
LEMMA DryEnds ==
    ASSUME TypeInv, AllDry, NEW p \in Envs, ~At(p, "free"), Ends(p)
    PROVE  AllDry'
  <1>1. PICK o \in Procs : o = proc[p] /\ NoBar(o.tokens) /\ o.at \notin Wet /\ ends[p][1][1] = 0
    BY Here DEF AllDry, Dry, At
  <1>2. CASE WaitPoll(p)
    <2>1. PICK n : n = [o EXCEPT !.at = "reap"]
      OBVIOUS
    <2>2. n.at = "reap" /\ n.tokens = o.tokens
      BY <2>1 DEF Procs
    <2>3. proc' = [proc EXCEPT ![p] = n] /\ UNCHANGED ends
      BY <1>1, <1>2, <2>1 DEF WaitPoll, Goes
    <2> QED
      BY <1>1, <2>2, <2>3, DryGoes DEF Wet
  <1>3. CASE ExitCloses(p)
    <2>1. PICK n : n = [o EXCEPT !.at = "dying"]
      OBVIOUS
    <2>2. n.at = "dying" /\ n.tokens = o.tokens
      BY <2>1 DEF Procs
    <2>3. proc' = [proc EXCEPT ![p] = n] /\ ends' = [ends EXCEPT ![p] = NoEnds] /\ NoEnds[1][1] = 0
      BY <1>1, <1>3, <2>1 DEF ExitCloses, NoEnds, Closed
    <2> QED
      BY <1>1, <2>2, <2>3, DryOne DEF Wet
  <1>4. CASE sys_exit(p)
    <2>1. NoProc.at = "free" /\ NoProc.tokens = <<>>
      BY DEF NoProc
    <2>2. NoBar(NoProc.tokens)
      BY <2>1, EmptySeq DEF NoBar
    <2>3. proc' = [proc EXCEPT ![p] = NoProc] /\ UNCHANGED ends
      BY <1>4 DEF sys_exit
    <2> QED
      BY <2>1, <2>2, <2>3, DryGoes DEF Wet
  <1> QED
    BY <1>2, <1>3, <1>4 DEF Ends

\* A step of an env, but for the reading of a line.
LEMMA DryStep ==
    ASSUME TypeInv, AllDry, NEW p \in Envs, ~At(p, "free"), Step(p), ~(\E l \in Lines : Splice(p, l))
    PROVE  AllDry'
  BY DryParse, DryRun, DryProgram, DryMain, DryEnds DEF Step

-----------------------------------------------------------------------------
(***************************************************************************)
(* A command and its program                                               *)
(***************************************************************************)

\* What an env can do where it is.
LEMMA StepsAt ==
    ASSUME NEW p \in Envs, Step(p)
    PROVE  /\ At(p, "parse") => \/ ParseEnd(p) \/ ParseSkip(p) \/ ParseComment(p) \/ ParseWord(p)
                                \/ ParseVar(p) \/ ParseList(p) \/ ParseRedirect(p) \/ ParsePipe(p)
           /\ At(p, "runcmd") => RunNothing(p) \/ RunCd(p) \/ RunSpawn(p) \/ RunMissing(p)
           /\ At(p, "spawned") => RunCloses(p)
           /\ At(p, "left") => PipeLeft(p)
           /\ At(p, "right") => PipeRight(p)
           /\ proc[p].at \in {"quote", "captured", "capture", "capturing", "splice"} => Capture(p)
           /\ At(p, "program") => Program(p)
           /\ At(p, "wait") => WaitPoll(p)
           /\ At(p, "reap") => \/ proc[p].after \in ListOps /\ ReapList(p)
                               \/ proc[p].after = "command" /\ ReapCommand(p)
                               \/ proc[p].after = "right" /\ ReapRight(p)
                               \/ proc[p].after = "capture" /\ Capture(p)
                               \/ proc[p].after = "line" /\ ReapLine(p)
           /\ At(p, "exit") => ExitCloses(p)
           /\ At(p, "dying") => sys_exit(p)
           /\ At(p, "line") => MainSelf(p) \/ MainForks(p)
           /\ ~At(p, "prompt") /\ ~At(p, "free")
  <1>1. CASE Parse(p)
    BY <1>1 DEF Parse, ParseEnd, ParseSkip, ParseComment, ParseWord, ParseVar, ParseList, ReapList, ParseRedirect,
                ParsePipe, PipeRight, PipeLeft, Reads, Parsing, At, ListOps
  <1>2. CASE Run(p)
    BY <1>2 DEF Run, RunNothing, RunCd, RunSpawn, RunMissing, RunCloses, ReapCommand, ReapRight, At
  <1>3. CASE Program(p)
    BY <1>3 DEF Program, ProgramWrites, ProgramReads, ProgramCopies, ProgramFails, At
  <1>4. CASE Capture(p)
    BY <1>4 DEF Capture, CaptureForks, CapturedStarts, CaptureStarts, CaptureReads, CaptureEnds, ReapCapture, Splice, At
  <1>5. CASE MainStep(p)
    BY <1>5 DEF MainStep, MainSelf, MainForks, ReapLine, At
  <1>6. CASE Ends(p)
    BY <1>6 DEF Ends, WaitPoll, ExitCloses, sys_exit, At
  <1> QED
    BY <1>1, <1>2, <1>3, <1>4, <1>5, <1>6 DEF Step

\* A step of an env that runs a program.
LEMMA ExecuteStep ==
    ASSUME TypeInv, AllDry, NEW q \in Envs, NEW word, Executes(q, word), Step(q)
    PROVE  /\ \/ Executes(q, word)' /\ proc'[q].at # "free"
              \/ proc'[q].at = "free" /\ env_exit_value'[q] = Result(word)
           /\ env_id' = env_id /\ ran' = ran /\ line' = line
           /\ \A x \in Envs \ {q} : proc'[x] = proc[x]
  <1>1. CASE At(q, "program")
    <2>1. Program(q)
      BY <1>1, StepsAt
    <2>2. PICK n : /\ Only(q, n) /\ ran' = ran
                   /\ \/ n.at = "program" /\ n.argv = proc[q].argv
                      \/ n.at = "exit" /\ n.r = Result(Head(proc[q].argv))
      BY <2>1, ProgramDoes DEF AllDry, Dry
    <2>3. proc[q].argv # <<>> /\ Head(proc[q].argv) = word
      BY <1>1 DEF Executes, At
    <2> QED
      BY <2>2, <2>3 DEF Only, Executes, At
  <1>2. CASE At(q, "exit")
    <2>1. ExitCloses(q) /\ proc[q].r = Result(word)
      BY <1>2, StepsAt DEF Executes, At
    <2>2. PICK n : Only(q, n) /\ ran' = ran /\ n.at = "dying" /\ n.r = proc[q].r
      BY <2>1, ExitClosesDoes
    <2> QED
      BY <2>1, <2>2 DEF Only, Executes, At
  <1>3. CASE At(q, "dying")
    <2>1. sys_exit(q) /\ proc[q].r = Result(word)
      BY <1>3, StepsAt DEF Executes, At
    <2>2. /\ proc'[q].at = "free" /\ \A x \in Envs \ {q} : proc'[x] = proc[x]
          /\ env_id' = env_id /\ line' = line /\ ran' = ran
          /\ env_exit_value'[q] = proc[q].r
      BY <2>1, SysExitDoes
    <2> QED
      BY <2>1, <2>2
  <1> QED
    BY <1>1, <1>2, <1>3 DEF Executes, At

\* A child that is not there any more has ended with its value, if it ran a
\* command, and the wait hands it on.
LEMMA WaitValue ==
    ASSUME NEW c, NEW word, Spawned(c, word), ~Alive(c)
    PROVE  Ended(c, Result(word)) /\ sys_wait(c) = Result(word)
  BY DEF Spawned, Ended, sys_wait

\* A step of an env that runs a command.
CommandGoal(d, word, before) ==
    /\ \/ Command(d, word, before)' /\ proc'[d].at # "free" /\ proc'[d].home = proc[d].home
       \/ proc'[d].at = "free" /\ env_exit_value'[d] = Result(word) /\ ran' = Append(before, word)
       \/ word = "cd" /\ proc[d].home = "shell" /\ proc'[d].at = "prompt" /\ ran' = Append(before, word)
    /\ env_id'[d] = env_id[d] /\ line' = line

\* The command goes on, hands its value on, or the shell itself has run it.
LEMMA CommandStep ==
    ASSUME TypeInv, NEW d \in Envs, NEW word, NEW before, Command(d, word, before), Step(d),
           word = "cd" => proc[d].home \in {"line", "shell"}
    PROVE  CommandGoal(d, word, before)
  <1>1. proc[d].right = NoEnv /\ ~At(d, "free")
    BY DEF Command, At
  <1>2. ASSUME NEW n, Only(d, n) PROVE proc'[d] = n /\ env_id'[d] = env_id[d] /\ line' = line
    BY <1>2 DEF Only
  <1>3. CASE At(d, "runcmd")
    <2>1. proc[d].argv # <<>> /\ Head(proc[d].argv) = word /\ ran = before
      BY <1>3 DEF Command, At
    <2>2. RunNothing(d) \/ RunCd(d) \/ RunSpawn(d) \/ RunMissing(d)
      BY <1>3, StepsAt
    <2>3. ~RunNothing(d)
      BY <2>1 DEF RunNothing
    <2>4. CASE RunCd(d)
      <3>1. PICK n :
              /\ Only(d, n) /\ ran' = Append(ran, "cd") /\ word = "cd"
              /\ n.right = proc[d].right /\ n.home = proc[d].home
              /\ proc[d].home = "shell" => n.at = "prompt"
              /\ proc[d].home = "line" => n.at = "exit" /\ n.r = 0
        BY <2>1, <2>4, RunCdDoes
      <3>2. ran' = Append(before, word) /\ Result(word) = 0
        BY <2>1, <3>1 DEF Result
      <3>3. CASE proc[d].home = "shell"
        BY <1>2, <3>1, <3>2, <3>3 DEF CommandGoal
      <3>4. CASE proc[d].home = "line"
        <4>1. proc'[d].at = "exit" /\ proc'[d].r = Result(word) /\ proc'[d].right = NoEnv /\ proc'[d].home = proc[d].home
          BY <1>1, <1>2, <3>1, <3>2, <3>4
        <4>2. Command(d, word, before)'
          BY <3>2, <4>1 DEF Command
        <4> QED
          BY <1>2, <3>1, <4>1, <4>2 DEF CommandGoal
      <3> QED
        BY <3>1, <3>3, <3>4
    <2>5. CASE RunSpawn(d)
      <3>1. PICK n, s, m :
              /\ Makes(d, n, s, m) /\ ran' = Append(ran, Head(proc[d].argv))
              /\ n.at = "spawned" /\ n.child = <<s, env_id[s] + 1>> /\ Alike(n, proc[d])
              /\ m.at = "program" /\ m.argv = proc[d].argv
        BY <2>5, RunSpawnDoes
      <3>2. /\ proc'[d] = n /\ proc'[s] = m /\ s \in Envs /\ s # d /\ line' = line
            /\ env_id'[s] = env_id[s] + 1 /\ env_id'[d] = env_id[d]
        BY <3>1 DEF Makes
      <3>3. Spawned(n.child, word)'
        BY <2>1, <3>1, <3>2 DEF Spawned, Alive, Executes, At
      <3>4. n.child # NoEnv
        BY <3>1, <3>2 DEF NoEnv, Envs
      <3>5. Command(d, word, before)'
        BY <1>1, <2>1, <3>1, <3>2, <3>3, <3>4 DEF Command, Alike, At
      <3> QED
        BY <3>1, <3>2, <3>5 DEF CommandGoal, Alike
    <2>6. CASE RunMissing(d)
      <3>1. PICK n :
              /\ Only(d, n) /\ ran' = Append(ran, Head(proc[d].argv))
              /\ Head(proc[d].argv) \notin Programs \cup {"cd"}
              /\ n.at = "spawned" /\ n.child = NoEnv /\ Alike(n, proc[d])
        BY <2>6, RunMissingDoes
      <3>2. Result(word) = 1
        BY <2>1, <3>1 DEF Result, Programs
      <3>3. Command(d, word, before)'
        BY <1>1, <1>2, <2>1, <3>1, <3>2 DEF Command, Alike, At
      <3> QED
        BY <1>2, <3>1, <3>3 DEF CommandGoal, Alike
    <2> QED
      BY <2>2, <2>3, <2>4, <2>5, <2>6
  <1>4. CASE At(d, "spawned")
    <2>1. RunCloses(d)
      BY <1>4, StepsAt
    <2>2. PICK n :
            /\ Only(d, n) /\ ran' = ran /\ n.right = NoEnv /\ n.home = proc[d].home
            /\ \/ proc[d].child # NoEnv /\ n.at = "wait" /\ n.after = "command" /\ n.child = proc[d].child
               \/ proc[d].child = NoEnv /\ n.at = "exit" /\ n.r = 1
      BY <1>1, <2>1, RunClosesDoes
    <2>3. CASE proc[d].child # NoEnv
      <3>1. PICK c : c = proc[d].child
        OBVIOUS
      <3>2. Spawned(c, word) /\ Good(d, c) /\ ran = Append(before, word)
        BY <1>4, <2>3, <3>1 DEF Command, TypeInv, ProcOK, At
      <3>3. c[1] \in Envs /\ c[1] # d /\ proc'[c[1]] = proc[c[1]] /\ env_id' = env_id /\ env_exit_value' = env_exit_value
        BY <2>2, <3>2 DEF Only, Good
      <3>4. Spawned(c, word)'
        BY <3>2, <3>3 DEF Spawned, Alive, Ended, Executes, At
      <3>5. Command(d, word, before)'
        BY <1>2, <2>2, <2>3, <3>1, <3>2, <3>4 DEF Command, At
      <3> QED
        BY <1>2, <2>2, <2>3, <3>5 DEF CommandGoal
    <2>4. CASE proc[d].child = NoEnv
      <3>1. Result(word) = 1 /\ ran = Append(before, word)
        BY <1>4, <2>4 DEF Command, At
      <3>2. Command(d, word, before)'
        BY <1>2, <2>2, <2>4, <3>1 DEF Command, At
      <3> QED
        BY <1>2, <2>2, <2>4, <3>2 DEF CommandGoal
    <2> QED
      BY <2>3, <2>4
  <1>5. CASE At(d, "wait")
    <2>1. WaitPoll(d)
      BY <1>5, StepsAt
    <2>2. PICK n :
            /\ Only(d, n) /\ ran' = ran /\ ~Alive(proc[d].child)
            /\ n.at = "reap" /\ n.after = proc[d].after /\ n.child = proc[d].child /\ Alike(n, proc[d])
      BY <2>1, WaitPollDoes
    <2>3. PICK c : c = proc[d].child
      OBVIOUS
    <2>4. Spawned(c, word) /\ Good(d, c) /\ ran = Append(before, word) /\ proc[d].after = "command"
      BY <1>5, <2>3 DEF Command, TypeInv, ProcOK, At
    <2>5. Ended(c, Result(word))
      BY <2>2, <2>3, <2>4, WaitValue
    <2>6. c[1] \in Envs /\ c[1] # d /\ proc'[c[1]] = proc[c[1]] /\ env_id' = env_id /\ env_exit_value' = env_exit_value
      BY <2>2, <2>4 DEF Only, Good
    <2>7. Ended(c, Result(word))'
      BY <2>5, <2>6 DEF Ended, At
    <2>8. Command(d, word, before)'
      BY <1>1, <1>2, <2>2, <2>3, <2>4, <2>7 DEF Command, Alike, At
    <2> QED
      BY <1>2, <2>2, <2>8 DEF CommandGoal, Alike
  <1>6. CASE At(d, "reap")
    <2>1. Ended(proc[d].child, Result(word)) /\ ran = Append(before, word) /\ proc[d].after = "command"
      BY <1>6 DEF Command, At
    <2>2. ReapCommand(d)
      BY <1>6, <2>1, StepsAt DEF ListOps
    <2>3. PICK n :
            /\ Only(d, n) /\ ran' = ran /\ n.right = NoEnv /\ n.home = proc[d].home
            /\ n.at = "exit" /\ n.r = sys_wait(proc[d].child)
      BY <1>1, <2>2, ReapCommandDoes
    <2>4. n.r = Result(word)
      BY <2>1, <2>3 DEF Ended, sys_wait
    <2>5. Command(d, word, before)'
      BY <1>2, <2>1, <2>3, <2>4 DEF Command
    <2> QED
      BY <1>2, <2>3, <2>5 DEF CommandGoal
  <1>7. CASE At(d, "exit")
    <2>1. ExitCloses(d) /\ proc[d].r = Result(word) /\ ran = Append(before, word)
      BY <1>7, StepsAt DEF Command, At
    <2>2. PICK n : /\ Only(d, n) /\ ran' = ran /\ n.at = "dying" /\ n.r = proc[d].r
                   /\ n.right = proc[d].right /\ n.home = proc[d].home
      BY <2>1, ExitClosesDoes
    <2>3. Command(d, word, before)'
      BY <1>1, <1>2, <2>1, <2>2 DEF Command
    <2> QED
      BY <1>2, <2>2, <2>3 DEF CommandGoal
  <1>8. CASE At(d, "dying")
    <2>1. sys_exit(d) /\ proc[d].r = Result(word) /\ ran = Append(before, word)
      BY <1>8, StepsAt DEF Command, At
    <2>2. /\ proc'[d].at = "free" /\ env_id' = env_id /\ line' = line /\ ran' = ran
          /\ env_exit_value'[d] = proc[d].r
      BY <2>1, SysExitDoes
    <2> QED
      BY <2>1, <2>2 DEF CommandGoal
  <1> QED
    BY <1>3, <1>4, <1>5, <1>6, <1>7, <1>8 DEF Command, At

\* Whom the env of a command waits for: its program.
LEMMA CommandKid ==
    ASSUME NEW d \in Envs, NEW word, NEW before, Command(d, word, before),
           NEW s \in Living, Owns(proc[d], Current(s))
    PROVE  /\ proc[d].child = Current(s) /\ Executes(s, word) /\ ran = Append(before, word)
           /\ At(d, "spawned") \/ (At(d, "wait") /\ proc[d].after = "command")
  <1>1. Current(s)[1] = s /\ Current(s) # NoEnv /\ ~At(s, "free") /\ s \in Envs
    BY DEF Current, NoEnv, Living, Envs
  <1>2. proc[d].right = NoEnv
    BY DEF Command
  <1>3. proc[d].child = Current(s) /\ proc[d].at \in {"spawned", "wait", "capture", "capturing"}
    BY <1>1, <1>2 DEF Owns
  <1>4. /\ At(d, "spawned") \/ (At(d, "wait") /\ proc[d].after = "command")
        /\ ran = Append(before, word) /\ Spawned(Current(s), word)
    BY <1>1, <1>3 DEF Command, At
  <1>5. Executes(s, word)
    BY <1>1, <1>4 DEF Spawned, Ended
  <1> QED
    BY <1>3, <1>4, <1>5

\* A program waits for nobody.
LEMMA NoKids ==
    ASSUME NEW q \in Envs, NEW word, Executes(q, word), NEW c
    PROVE  ~Owns(proc[q], c)
  BY DEF Executes, Owns, RightAt, At

\* A step of the program of a command.
LEMMA KidStep ==
    ASSUME TypeInv, AllDry, NEW d \in Envs, NEW word, NEW before, Command(d, word, before),
           NEW s \in Living, Owns(proc[d], Current(s)), Step(s)
    PROVE  /\ Command(d, word, before)' /\ proc'[d] = proc[d] /\ proc'[d].at # "free"
           /\ env_id' = env_id /\ line' = line /\ ran' = ran
           /\ \A x \in Envs \ {s} : proc'[x] = proc[x]
  <1>1. /\ proc[d].child = Current(s) /\ Executes(s, word) /\ ran = Append(before, word)
        /\ At(d, "spawned") \/ (At(d, "wait") /\ proc[d].after = "command")
    BY CommandKid
  <1>2. s \in Envs /\ s # d /\ Current(s) # NoEnv
    BY <1>1 DEF Living, Executes, At, Current, NoEnv, Envs
  <1>3. /\ \/ Executes(s, word)' /\ proc'[s].at # "free"
           \/ proc'[s].at = "free" /\ env_exit_value'[s] = Result(word)
        /\ env_id' = env_id /\ ran' = ran /\ line' = line
        /\ \A x \in Envs \ {s} : proc'[x] = proc[x]
    BY <1>1, <1>2, ExecuteStep
  <1>4. PICK c : c = Current(s) /\ c[1] = s /\ c[2] = env_id[s]
    BY DEF Current
  <1>5. Spawned(c, word)'
    BY <1>3, <1>4 DEF Spawned, Alive, Ended, At
  <1>6. proc'[d] = proc[d] /\ proc[d].right = NoEnv
    BY <1>2, <1>3 DEF Command
  <1>7. Command(d, word, before)'
    BY <1>1, <1>2, <1>3, <1>4, <1>5, <1>6 DEF Command, At
  <1> QED
    BY <1>1, <1>3, <1>6, <1>7 DEF At

\* A step of an env that runs a command, or of its program.
LEMMA RunsStep ==
    ASSUME TypeInv, AllDry, NEW c, c[1] \in Envs, Alive(c), NEW word, word # "cd", NEW before, Runs(c, word, before),
           NEW p \in Living, Step(p), p = c[1] \/ Owns(proc[c[1]], Current(p))
    PROVE  Runs(c, word, before)' /\ line' = line
  <1>1. PICK d \in Envs : d = c[1] /\ Command(d, word, before) /\ env_id[d] = c[2]
    BY DEF Runs, Alive, Ended
  <1>2. CASE p = d
    <2>1. CommandGoal(d, word, before)
      BY <1>1, <1>2, CommandStep
    <2> QED
      BY <1>1, <2>1 DEF CommandGoal, Runs, Alive, Ended, At
  <1>3. CASE p # d
    <2>1. Owns(proc[d], Current(p))
      BY <1>1, <1>3
    <2>2. Command(d, word, before)' /\ proc'[d].at # "free" /\ env_id' = env_id /\ line' = line
      BY <1>1, <2>1, KidStep
    <2> QED
      BY <1>1, <2>2 DEF Runs, Alive, At
  <1> QED
    BY <1>2, <1>3

-----------------------------------------------------------------------------
(***************************************************************************)
(* An env that runs a list                                                 *)
(***************************************************************************)

\* A step that leads on in the line t, or to its end.
WorkGoal(w, t) ==
    /\ \/ Worker(w, t)' /\ proc'[w].at # "free" /\ proc'[w].home = proc[w].home
       \/ proc'[w].at = "free" /\ ran' = Upto(t, Len(t)).ran
       \/ proc[w].home = "shell" /\ proc'[w].at = "prompt" /\ ran' = Upto(t, Len(t)).ran
    /\ env_id'[w] = env_id[w] /\ line' = line

\* It reads on, or is at the end of the line.
LEMMA WorksOn ==
    ASSUME NEW w \in Envs, NEW n, Only(w, n), NEW t, NEW k \in 0..Len(t),
           n.right = NoEnv, n.home = proc[w].home,
           Parses(n, t, k, ran') \/ Nothing(n, t, k, ran') \/ Leaves(n, t, k, ran')
    PROVE  WorkGoal(w, t)
  <1>1. proc'[w] = n /\ env_id' = env_id /\ line' = line
    BY DEF Only
  <1>2. n.at # "free"
    BY DEF Parses, Fresh, HasRead, Skips, Nothing, Leaves
  <1>3. Works(w, t, k)'
    BY <1>1 DEF Works
  <1>4. Worker(w, t)'
    BY <1>1, <1>3 DEF Worker
  <1> QED
    BY <1>1, <1>2, <1>4 DEF WorkGoal

\* It runs a command as its last.
LEMMA WorksLast ==
    ASSUME NEW w \in Envs, NEW t, NEW k \in 0..Len(t), LastWord(t, k),
           Command(w, t[k], Upto(t, k - 1).ran)', proc'[w].at # "free",
           proc'[w].home = proc[w].home, env_id'[w] = env_id[w], line' = line
    PROVE  WorkGoal(w, t)
  <1>1. Final(w, t, k)'
    BY DEF Final
  <1>2. proc'[w].right = NoEnv
    BY DEF Command
  <1>3. Worker(w, t)'
    BY <1>1, <1>2 DEF Worker, Works
  <1> QED
    BY <1>3 DEF WorkGoal

\* It waits for a child, or is done with it.
LEMMA WorksList ==
    ASSUME NEW w \in Envs, NEW t, NEW k \in 0..Len(t), NEW n, proc'[w] = n, Listed(n, t, k),
           \/ n.at = "wait" /\ Runs(n.child, t[k - 1], Upto(t, k - 2).ran)'
           \/ /\ n.at = "reap" /\ Ended(n.child, Result(t[k - 1]))'
              /\ ran' = Append(Upto(t, k - 2).ran, t[k - 1]),
           n.right = NoEnv, n.home = proc[w].home, env_id'[w] = env_id[w], line' = line
    PROVE  WorkGoal(w, t)
  <1>1. Lists(proc[w], t, k)'
    BY DEF Lists
  <1>2. Worker(w, t)'
    BY <1>1 DEF Worker, Works
  <1> QED
    BY <1>2 DEF WorkGoal

\* A step before a command: it is read, or the line ends.
LEMMA FreshStep ==
    ASSUME TypeInv, NEW t \in Seq(STRING), PlainList(t), NEW k \in 0..Len(t), NEW w \in Envs,
           proc[w].right = NoEnv, Rests(proc[w], t, k), Fresh(proc[w], t, k, ran), Step(w)
    PROVE  WorkGoal(w, t)
  <1>1. PICK o \in Procs : o = proc[w]
    BY Here
  <1>2. o.at = "parse" /\ o.next /\ o.argv = <<>> /\ At(w, "parse")
    BY <1>1 DEF Fresh, At
  <1>3. /\ o.tokens = <<>> => k = Len(t)
        /\ o.tokens # <<>> =>
             /\ k + 1 \in 1..Len(t) /\ k + 1 \in 0..Len(t) /\ (k + 1) - 1 = k /\ Head(o.tokens) = t[k + 1]
             /\ \A n : n.tokens = Tail(o.tokens) => Rests(n, t, k + 1)
    BY <1>1, ReadsOn
  <1>4. o.tokens # <<>> => Head(o.tokens) \notin Symbols
    <2> SUFFICES ASSUME o.tokens # <<>> PROVE t[k + 1] \notin Symbols
      BY <1>3
    <2>1. k + 1 = 1 \/ Op(t, (k + 1) - 1)
      BY <1>1, <1>3 DEF Fresh
    <2> QED
      BY <1>3, <2>1, PlainWords
  <1>5. ~ParseSkip(w)
    BY <1>1, <1>2 DEF ParseSkip
  <1>6. ASSUME NEW token \in Symbols PROVE ~Reads(w, token)
    BY <1>1, <1>4 DEF Reads, Parsing, Token
  <1>7. ParseEnd(w) \/ ParseWord(w)
    <2>1. ~ParseComment(w)
      BY <1>6 DEF ParseComment, Symbols
    <2>2. ~ParseVar(w)
      BY <1>6 DEF ParseVar, Symbols
    <2>3. ~ParseList(w)
      BY <1>6 DEF ParseList, Symbols
    <2>4. ~ParseRedirect(w)
      BY <1>6 DEF ParseRedirect, Symbols
    <2>5. ~ParsePipe(w)
      BY <1>6 DEF ParsePipe, Symbols
    <2> QED
      BY <1>2, <1>5, <2>1, <2>2, <2>3, <2>4, <2>5, StepsAt
  <1>8. CASE ParseEnd(w)
    <2>1. PICK n : /\ Only(w, n) /\ ran' = ran /\ o.tokens = <<>>
                   /\ n.at = "runcmd" /\ n.argv = <<>> /\ n.right = NoEnv /\ n.home = proc[w].home
      BY <1>1, <1>2, <1>8, ParseEndDoes
    <2>2. Nothing(n, t, k, ran')
      BY <1>3, <2>1 DEF Nothing, Fresh
    <2> QED
      BY <2>1, <2>2, WorksOn
  <1>9. CASE ParseWord(w)
    <2>1. PICK n : /\ Only(w, n) /\ ran' = ran /\ Parsing(w)
                   /\ n.at = "parse" /\ n.tokens = Tail(o.tokens)
                   /\ n.argv = Append(o.argv, Head(o.tokens))
                   /\ n.next = o.next /\ n.right = NoEnv /\ n.home = proc[w].home
      BY <1>1, <1>9, ParseWordDoes
    <2>2. o.tokens # <<>>
      BY <1>1, <2>1 DEF Parsing
    <2>3. n.argv # <<>> /\ Head(n.argv) = t[k + 1]
      <3>0. PICK j \in 1..Len(t) : j = k + 1
        BY <1>3, <2>2
      <3>1. PICK word \in STRING : word = t[k + 1]
        <4>1. t[j] \in STRING
          OBVIOUS
        <4> QED
          BY <3>0, <4>1
      <3>2. Append(<<>>, word) # <<>> /\ Head(Append(<<>>, word)) = word
        OBVIOUS
      <3> QED
        BY <1>2, <1>3, <2>1, <2>2, <3>1, <3>2
    <2>4. k + 1 # 0 /\ ~Op(t, k + 1)
      <3>1. k + 1 # 0
        OBVIOUS
      <3>2. t[k + 1] \notin Symbols
        BY <1>3, <1>4, <2>2
      <3> QED
        BY <3>1, <3>2 DEF Op, ListOps, Symbols
    <2>5. HasRead(n, t, k + 1, ran')
      BY <1>2, <1>3, <2>1, <2>2, <2>3, <2>4 DEF HasRead, Fresh
    <2>6. Parses(n, t, k + 1, ran')
      BY <1>3, <2>1, <2>2, <2>5 DEF Parses
    <2> QED
      BY <1>3, <2>1, <2>2, <2>6, WorksOn
  <1> QED
    BY <1>7, <1>8, <1>9

\* A step behind a command: a child runs it if an operator follows.
LEMMA HasReadStep ==
    ASSUME TypeInv, NEW t \in Seq(STRING), PlainList(t), NEW k \in 0..Len(t), NEW w \in Envs,
           proc[w].right = NoEnv, Rests(proc[w], t, k), HasRead(proc[w], t, k, ran), Step(w)
    PROVE  WorkGoal(w, t)
  <1>1. PICK o \in Procs : o = proc[w]
    BY Here
  <1>2. o.at = "parse" /\ o.next /\ o.argv # <<>> /\ Head(o.argv) = t[k] /\ At(w, "parse") /\ k # 0 /\ ~Op(t, k)
    BY <1>1 DEF HasRead, At
  <1>3. /\ o.tokens = <<>> => k = Len(t)
        /\ o.tokens # <<>> =>
             /\ k + 1 \in 1..Len(t) /\ k + 1 \in 0..Len(t) /\ (k + 1) - 1 = k /\ Head(o.tokens) = t[k + 1]
             /\ \A n : n.tokens = Tail(o.tokens) => Rests(n, t, k + 1)
    BY <1>1, ReadsOn
  <1>4. o.tokens # <<>> => Head(o.tokens) \in ListOps
    <2> SUFFICES ASSUME o.tokens # <<>> PROVE Op(t, k + 1)
      BY <1>3 DEF Op
    <2>1. k + 1 # 1 /\ ~Op(t, (k + 1) - 1)
      BY <1>2, <1>3
    <2> QED
      BY <1>3, <2>1, PlainWords
  <1>5. ~ParseSkip(w)
    BY <1>1, <1>2 DEF ParseSkip
  <1>6. ASSUME NEW token, token \notin ListOps PROVE ~Reads(w, token)
    BY <1>1, <1>4, <1>6 DEF Reads, Parsing, Token
  <1>7. ParseEnd(w) \/ ParseList(w)
    <2>1. ~ParseComment(w)
      BY <1>6 DEF ParseComment, ListOps
    <2>2. ~ParseVar(w)
      BY <1>6 DEF ParseVar, ListOps
    <2>3. ~ParseWord(w)
      BY <1>1, <1>4 DEF ParseWord, Parsing, Token, ListOps, Symbols
    <2>4. ~ParseRedirect(w)
      BY <1>6 DEF ParseRedirect, ListOps
    <2>5. ~ParsePipe(w)
      BY <1>6 DEF ParsePipe, ListOps
    <2> QED
      BY <1>2, <1>5, <2>1, <2>2, <2>3, <2>4, <2>5, StepsAt
  <1>8. CASE ParseEnd(w)
    <2>1. PICK n : /\ Only(w, n) /\ ran' = ran /\ o.tokens = <<>>
                   /\ n.at = "runcmd" /\ n.argv = o.argv /\ n.right = NoEnv /\ n.home = proc[w].home
      BY <1>1, <1>8, ParseEndDoes
    <2>2. proc'[w] = n /\ env_id' = env_id /\ line' = line
      BY <2>1 DEF Only
    <2>3. LastWord(t, k) /\ ran = Upto(t, k - 1).ran
      BY <1>2, <1>3, <2>1 DEF LastWord, HasRead
    <2>4. Command(w, t[k], Upto(t, k - 1).ran)'
      BY <1>2, <2>1, <2>2, <2>3 DEF Command, At
    <2> QED
      BY <2>1, <2>2, <2>3, <2>4, WorksLast
  <1>9. CASE ParseList(w)
    <2>1. PICK op \in ListOps : \E n, s, m :
            /\ Reads(w, op) /\ Makes(w, n, s, m) /\ ran' = ran
            /\ n.at = "wait" /\ n.after = op /\ n.child = <<s, env_id[s] + 1>>
            /\ n.tokens = Tail(o.tokens)
            /\ n.next = o.next /\ n.right = NoEnv /\ n.home = proc[w].home
            /\ m.at = "runcmd" /\ Alike(m, o)
      BY <1>1, <1>9, ParseListDoes
    <2>2. PICK n, s, m :
            /\ Reads(w, op) /\ Makes(w, n, s, m) /\ ran' = ran
            /\ n.at = "wait" /\ n.after = op /\ n.child = <<s, env_id[s] + 1>>
            /\ n.tokens = Tail(o.tokens)
            /\ n.next = o.next /\ n.right = NoEnv /\ n.home = proc[w].home
            /\ m.at = "runcmd" /\ Alike(m, o)
      BY <2>1
    <2>3. /\ proc'[w] = n /\ proc'[s] = m /\ s \in Envs /\ s # w /\ line' = line
          /\ env_id'[s] = env_id[s] + 1 /\ env_id'[w] = env_id[w]
      BY <2>2 DEF Makes
    <2>4. o.tokens # <<>> /\ op = t[k + 1]
      BY <1>1, <1>3, <2>2 DEF Reads, Parsing, Token
    <2>5. (k + 1) - 2 = k - 1 /\ k + 1 >= 2
      BY <1>2
    <2>6. Upto(t, k - 1).runs /\ ran = Upto(t, k - 1).ran
      BY DEF HasRead
    <2>7. Listed(n, t, k + 1)
      BY <1>2, <1>3, <2>2, <2>4, <2>5, <2>6 DEF Listed
    <2>8. Runs(n.child, t[k], Upto(t, k - 1).ran)'
      <3>1. m.right = NoEnv /\ m.argv = o.argv
        BY <1>1, <2>2 DEF Alike
      <3>0. PICK c : c = <<s, env_id[s] + 1>>
        OBVIOUS
      <3>2. c = <<s, env_id[s] + 1>> /\ c[1] = s /\ c[2] = env_id[s] + 1
        BY <3>0
      <3>3. Command(s, t[k], Upto(t, k - 1).ran)'
        BY <1>2, <2>2, <2>3, <2>6, <3>1 DEF Command, At
      <3>4. Runs(c, t[k], Upto(t, k - 1).ran)'
        BY <2>2, <2>3, <3>2, <3>3 DEF Runs, Alive, At
      <3> QED
        BY <2>2, <3>2, <3>4
    <2> QED
      BY <1>3, <2>2, <2>3, <2>4, <2>5, <2>7, <2>8, WorksList
  <1> QED
    BY <1>7, <1>8, <1>9

\* A step where it skips.
LEMMA SkipsStep ==
    ASSUME TypeInv, NEW t \in Seq(STRING), PlainList(t), NEW k \in 0..Len(t), NEW w \in Envs,
           proc[w].right = NoEnv, Rests(proc[w], t, k), Skips(proc[w], t, k, ran), Step(w)
    PROVE  WorkGoal(w, t)
  <1>1. PICK o \in Procs : o = proc[w]
    BY Here
  <1>2. o.at = "parse" /\ ~o.next /\ o.argv = <<>> /\ At(w, "parse")
    BY <1>1 DEF Skips, At
  <1>3. /\ o.tokens = <<>> => k = Len(t)
        /\ o.tokens # <<>> =>
             /\ k + 1 \in 1..Len(t) /\ k + 1 \in 0..Len(t) /\ (k + 1) - 1 = k /\ Head(o.tokens) = t[k + 1]
             /\ \A n : n.tokens = Tail(o.tokens) => Rests(n, t, k + 1)
    BY <1>1, ReadsOn
  <1>4. ParseEnd(w) \/ ParseSkip(w)
    BY <1>1, <1>2, StepsAt
    DEF ParseComment, ParseWord, ParseVar, ParseList, ParseRedirect, ParsePipe, Reads, Parsing
  <1>5. CASE ParseEnd(w)
    <2>1. PICK n : /\ Only(w, n) /\ ran' = ran /\ o.tokens = <<>>
                   /\ n.at = "runcmd" /\ n.argv = <<>> /\ n.right = NoEnv /\ n.home = proc[w].home
      BY <1>1, <1>2, <1>5, ParseEndDoes
    <2>2. Nothing(n, t, k, ran')
      BY <1>3, <2>1 DEF Nothing, Skips
    <2> QED
      BY <2>1, <2>2, WorksOn
  <1>6. CASE ParseSkip(w)
    <2>1. PICK n : /\ Only(w, n) /\ ran' = ran /\ o.tokens # <<>>
                   /\ n.at = "parse" /\ n.tokens = Tail(o.tokens) /\ n.flag = o.flag
                   /\ n.next = Resumes(Head(o.tokens), o.flag)
                   /\ n.argv = <<>> /\ n.right = NoEnv /\ n.home = proc[w].home
      BY <1>1, <1>2, <1>6, ParseSkipDoes
    <2>2. k + 1 \in 1..Len(t) /\ k + 1 \in 0..Len(t) /\ (k + 1) - 1 = k /\ Head(o.tokens) = t[k + 1] /\ Rests(n, t, k + 1)
      BY <1>3, <2>1
    <2>3. PICK m \in Meanings, u \in Meanings : m = Upto(t, k) /\ u = Upto(t, k + 1) /\ Adds(m, t[k + 1], u)
      BY <2>2, NextWord
    <2>4. ~m.runs /\ n.flag = m.r /\ ran = m.ran /\ m.r \in {0, 1} /\ u.runs \in BOOLEAN
      BY <1>1, <2>1, <2>3 DEF Skips, Meanings
    <2>5. t[k + 1] # ";"
      <3>1. PICK i \in 1..k : t[i] \in {"a", "o"}
        BY DEF Skips
      <3>2. i \in 1..Len(t) /\ i < k + 1
        OBVIOUS
      <3> QED
        BY <2>2, <3>1, <3>2, PlainWords
    <2>6. u.ran = m.ran /\ u.r = m.r
      BY <2>3, <2>4 DEF Adds
    <2>7. n.next <=> u.runs
      <3>1. PICK token, b : token = t[k + 1] /\ b = u.runs
        OBVIOUS
      <3>2. CASE token = "a"
        <4>1. b = (m.r = 0)
          BY <2>3, <3>1, <3>2 DEF Adds
        <4>2. n.next = (o.flag = 0) /\ o.flag = m.r
          BY <2>1, <2>2, <2>4, <3>1, <3>2 DEF Resumes
        <4> QED
          BY <3>1, <4>1, <4>2
      <3>3. CASE token = "o"
        <4>1. b = (m.r # 0)
          BY <2>3, <3>1, <3>3 DEF Adds
        <4>2. n.next = (o.flag = 1) /\ o.flag = m.r
          BY <2>1, <2>2, <2>4, <3>1, <3>3 DEF Resumes
        <4> QED
          BY <2>4, <3>1, <4>1, <4>2
      <3>4. CASE token \notin ListOps
        <4>1. u = m
          BY <2>3, <2>4, <3>1, <3>4 DEF Adds
        <4>2. ~n.next
          BY <2>1, <2>2, <3>1, <3>4 DEF Resumes, ListOps
        <4> QED
          BY <2>4, <4>1, <4>2
      <3> QED
        BY <2>5, <3>1, <3>2, <3>3, <3>4 DEF ListOps
    <2>8. n.next => Op(t, k + 1)
      BY <2>1, <2>2 DEF Resumes, Op, ListOps
    <2>9. \E i \in 1..(k + 1) : t[i] \in {"a", "o"}
      <3>1. PICK i \in 1..k : t[i] \in {"a", "o"}
        BY DEF Skips
      <3>2. i \in 1..(k + 1)
        OBVIOUS
      <3> QED
        BY <3>1, <3>2
    <2>10. Fresh(n, t, k + 1, ran') \/ Skips(n, t, k + 1, ran')
      BY <2>1, <2>3, <2>4, <2>6, <2>7, <2>8, <2>9 DEF Fresh, Skips
    <2>11. Parses(n, t, k + 1, ran')
      BY <2>2, <2>10 DEF Parses
    <2> QED
      BY <2>1, <2>2, <2>11, WorksOn
  <1> QED
    BY <1>4, <1>5, <1>6

\* A step where it waits for the child, or goes on with its value.
LEMMA ListsStep ==
    ASSUME TypeInv, NEW t \in Seq(STRING), PlainList(t), NEW k \in 0..Len(t), NEW w \in Envs,
           proc[w].right = NoEnv, Lists(proc[w], t, k), Step(w)
    PROVE  WorkGoal(w, t)
  <1>1. PICK o \in Procs : o = proc[w]
    BY Here
  <1>2. Listed(o, t, k) /\ o.next /\ o.after \in ListOps /\ k >= 2 /\ o.after = t[k] /\ ~Op(t, k - 1)
    BY <1>1 DEF Lists, Listed
  <1>3. CASE At(w, "wait")
    <2>1. WaitPoll(w) /\ o.at = "wait"
      BY <1>1, <1>3, StepsAt DEF At
    <2>2. PICK n :
            /\ Only(w, n) /\ ran' = ran /\ ~Alive(o.child)
            /\ n.at = "reap" /\ n.after = o.after /\ n.child = o.child
            /\ n.tokens = o.tokens /\ Alike(n, o)
      BY <1>1, <2>1, WaitPollDoes
    <2>3. PICK c : c = o.child
      OBVIOUS
    <2>4. Runs(c, t[k - 1], Upto(t, k - 2).ran) /\ Good(w, c)
      BY <1>1, <2>1, <2>3 DEF Lists, TypeInv, ProcOK
    <2>5. Ended(c, Result(t[k - 1])) /\ ran = Append(Upto(t, k - 2).ran, t[k - 1])
      BY <2>2, <2>3, <2>4 DEF Runs
    <2>6. /\ c[1] \in Envs /\ c[1] # w /\ proc'[c[1]] = proc[c[1]] /\ proc'[w] = n
          /\ env_id' = env_id /\ env_exit_value' = env_exit_value /\ line' = line
      BY <2>2, <2>4 DEF Only, Good
    <2>7. Ended(c, Result(t[k - 1]))'
      BY <2>5, <2>6 DEF Ended, At
    <2>8. Listed(n, t, k) /\ n.right = NoEnv /\ n.home = proc[w].home
      BY <1>1, <1>2, <2>2 DEF Listed, Rests, Alike
    <2> QED
      BY <2>2, <2>3, <2>5, <2>6, <2>7, <2>8, WorksList
  <1>4. CASE At(w, "reap")
    <2>1. o.at = "reap" /\ Ended(o.child, Result(t[k - 1])) /\ ran = Append(Upto(t, k - 2).ran, t[k - 1])
      BY <1>1, <1>4 DEF Lists, At
    <2>2. ReapList(w)
      BY <1>1, <1>2, <1>4, StepsAt DEF ListOps
    <2>3. PICK n :
            /\ Only(w, n) /\ ran' = ran
            /\ n.at = "parse" /\ n.argv = <<>> /\ n.tokens = o.tokens
            /\ n.right = o.right /\ n.home = o.home
            /\ o.after = ";" => n.next = o.next
            /\ o.after = "a" => n.flag = sys_wait(o.child) /\ n.next = (n.flag = 0)
            /\ o.after = "o" => n.flag = sys_wait(o.child) /\ n.next = (n.flag # 0)
      BY <1>1, <2>2, ReapListDoes
    <2>4. sys_wait(o.child) = Result(t[k - 1])
      BY <2>1 DEF Ended, sys_wait
    <2>5. k \in 1..Len(t) /\ k - 1 \in 1..Len(t) /\ (k - 1) - 1 = k - 2
      BY <1>2
    <2>6. PICK m, u : m = Upto(t, k - 1) /\ u = Upto(t, k)
      OBVIOUS
    <2>7. m.ran = ran /\ m.r = Result(t[k - 1])
      <3>1. Adds(Upto(t, k - 2), t[k - 1], m)
        BY <2>5, <2>6, NextWord
      <3>2. Upto(t, k - 2).runs /\ t[k - 1] \notin ListOps
        BY <1>2 DEF Listed, Op
      <3> QED
        BY <2>1, <3>1, <3>2 DEF Adds
    <2>8. Adds(m, t[k], u) /\ u \in Meanings
      BY <2>5, <2>6, NextWord
    <2>9. u.ran = ran /\ u.r = m.r
      BY <1>2, <2>7, <2>8 DEF Adds
    <2>10. Op(t, k) /\ Rests(n, t, k)
      BY <1>2, <2>3 DEF Op, Listed, Rests
    <2>11. CASE n.next /\ u.runs
      <3>1. Fresh(n, t, k, ran')
        BY <2>3, <2>6, <2>9, <2>10, <2>11 DEF Fresh
      <3>2. Parses(n, t, k, ran')
        BY <2>10, <3>1 DEF Parses
      <3> QED
        BY <1>1, <2>3, <3>2, WorksOn
    <2>12. CASE ~n.next /\ ~u.runs /\ n.flag = u.r /\ t[k] \in {"a", "o"}
      <3>1. \E i \in 1..k : t[i] \in {"a", "o"}
        BY <2>5, <2>12
      <3>2. Skips(n, t, k, ran')
        BY <2>3, <2>6, <2>9, <2>12, <3>1 DEF Skips
      <3>3. Parses(n, t, k, ran')
        BY <2>10, <3>2 DEF Parses
      <3> QED
        BY <1>1, <2>3, <3>3, WorksOn
    <2>13. CASE t[k] = ";"
      <3>1. u.runs /\ n.next
        BY <1>2, <2>3, <2>8, <2>13 DEF Adds
      <3> QED
        BY <2>11, <3>1
    <2>14. CASE t[k] = "a"
      <3>1. n.flag = m.r /\ n.next = (m.r = 0) /\ u.runs = (m.r = 0)
        BY <1>2, <2>3, <2>4, <2>7, <2>8, <2>14 DEF Adds
      <3> QED
        BY <2>9, <2>11, <2>12, <2>14, <3>1
    <2>15. CASE t[k] = "o"
      <3>1. n.flag = m.r /\ n.next = (m.r # 0) /\ u.runs = (m.r # 0)
        BY <1>2, <2>3, <2>4, <2>7, <2>8, <2>15 DEF Adds
      <3> QED
        BY <2>9, <2>11, <2>12, <2>15, <3>1
    <2> QED
      BY <1>2, <2>13, <2>14, <2>15 DEF ListOps
  <1> QED
    BY <1>1, <1>3, <1>4 DEF Lists, At

\* A step of the last command.
LEMMA FinalStep ==
    ASSUME TypeInv, NEW t \in Seq(STRING), NEW k \in 0..Len(t), NEW w \in Envs,
           proc[w].home \in {"line", "shell"}, Final(w, t, k), Step(w)
    PROVE  WorkGoal(w, t)
  <1>1. LastWord(t, k) /\ Command(w, t[k], Upto(t, k - 1).ran)
    BY DEF Final
  <1>2. PICK word, before : word = t[k] /\ before = Upto(t, k - 1).ran
    OBVIOUS
  <1>3. CommandGoal(w, word, before)
    BY <1>1, <1>2, CommandStep
  <1>4. Append(before, word) = Upto(t, Len(t)).ran
    <2>1. k \in 1..Len(t) /\ k = Len(t) /\ t[k] \notin ListOps /\ Upto(t, k - 1).runs
      BY <1>1 DEF LastWord, Op
    <2>2. Adds(Upto(t, k - 1), t[k], Upto(t, k))
      BY <2>1, NextWord
    <2> QED
      BY <1>2, <2>1, <2>2 DEF Adds
  <1>5. CASE Command(w, word, before)' /\ proc'[w].at # "free" /\ proc'[w].home = proc[w].home
    BY <1>1, <1>2, <1>3, <1>5, WorksLast DEF CommandGoal
  <1> QED
    BY <1>3, <1>4, <1>5 DEF CommandGoal, WorkGoal

\* A step at the end of the line.
LEMMA NothingStep ==
    ASSUME TypeInv, NEW t \in Seq(STRING), NEW k \in 0..Len(t), NEW w \in Envs, proc[w].right = NoEnv,
           proc[w].home \in {"line", "shell"}, Nothing(proc[w], t, k, ran), Step(w)
    PROVE  WorkGoal(w, t)
  <1>1. At(w, "runcmd") /\ proc[w].argv = <<>> /\ k = Len(t) /\ ran = Upto(t, k).ran
    BY DEF Nothing, At
  <1>2. RunNothing(w)
    BY <1>1, StepsAt DEF RunCd, RunSpawn, RunMissing
  <1>3. PICK n :
          /\ Only(w, n) /\ ran' = ran /\ n.right = proc[w].right /\ n.home = proc[w].home
          /\ proc[w].home = "shell" => n.at = "prompt"
          /\ proc[w].home = "line" => n.at = "exit"
    BY <1>2, RunNothingDoes
  <1>4. CASE proc[w].home = "shell"
    BY <1>1, <1>3, <1>4 DEF Only, WorkGoal
  <1>5. CASE proc[w].home = "line"
    <2>1. Leaves(n, t, k, ran')
      BY <1>1, <1>3, <1>5 DEF Leaves
    <2> QED
      BY <1>3, <2>1, WorksOn
  <1> QED
    BY <1>4, <1>5

\* A step behind the end of the line.
LEMMA LeavesStep ==
    ASSUME TypeInv, NEW t \in Seq(STRING), NEW k \in 0..Len(t), NEW w \in Envs, proc[w].right = NoEnv,
           Leaves(proc[w], t, k, ran), Step(w)
    PROVE  WorkGoal(w, t)
  <1>1. k = Len(t) /\ ran = Upto(t, k).ran
    BY DEF Leaves
  <1>2. CASE At(w, "exit")
    <2>1. PICK n : /\ Only(w, n) /\ ran' = ran /\ n.at = "dying"
                   /\ n.right = proc[w].right /\ n.home = proc[w].home
      BY <1>2, StepsAt, ExitClosesDoes
    <2>2. Leaves(n, t, k, ran')
      BY <1>1, <2>1 DEF Leaves
    <2> QED
      BY <2>1, <2>2, WorksOn
  <1>3. CASE At(w, "dying")
    <2>1. proc'[w].at = "free" /\ env_id' = env_id /\ line' = line /\ ran' = ran
      BY <1>3, StepsAt, SysExitDoes
    <2> QED
      BY <1>1, <2>1 DEF WorkGoal
  <1> QED
    BY <1>2, <1>3 DEF Leaves, At

\* A step of an env that runs a line.
LEMMA WorkStep ==
    ASSUME TypeInv, NEW t \in Seq(STRING), PlainList(t), NEW w \in Envs, Worker(w, t),
           proc[w].home \in {"line", "shell"}, Step(w)
    PROVE  WorkGoal(w, t)
  <1>1. PICK k \in 0..Len(t) : Works(w, t, k)
    BY DEF Worker
  <1>2. proc[w].right = NoEnv
    BY DEF Worker
  <1> QED
    BY <1>1, <1>2, FreshStep, HasReadStep, SkipsStep, ListsStep, FinalStep, NothingStep, LeavesStep
    DEF Works, Parses

\* The child of an env that runs a line runs a command; or it is the program of
\* the last command.
LEMMA WorkerKid ==
    ASSUME NEW t, NEW w \in Envs, Worker(w, t), NEW s \in Living, Owns(proc[w], Current(s))
    PROVE  \E k \in 0..Len(t) :
             \/ /\ Lists(proc[w], t, k) /\ At(w, "wait") /\ proc[w].child = Current(s)
                /\ Runs(Current(s), t[k - 1], Upto(t, k - 2).ran)
             \/ Final(w, t, k)
  <1>1. PICK k \in 0..Len(t) : Works(w, t, k)
    BY DEF Worker
  <1>2. proc[w].right = NoEnv /\ Current(s) # NoEnv
    BY DEF Worker, Current, NoEnv, Living, Envs
  <1>3. ~Parses(proc[w], t, k, ran)
    BY <1>2 DEF Parses, Fresh, HasRead, Skips, Owns
  <1>4. ~Nothing(proc[w], t, k, ran) /\ ~Leaves(proc[w], t, k, ran)
    BY <1>2 DEF Nothing, Leaves, Owns
  <1>5. CASE Lists(proc[w], t, k)
    BY <1>2, <1>5 DEF Lists, Owns, At
  <1> QED
    BY <1>1, <1>3, <1>4, <1>5 DEF Works

\* A step of an env that runs a line, of its child, or of the child's child.
LEMMA LineRuns ==
    ASSUME TypeInv, AllDry, NEW t \in Seq(STRING), PlainList(t), NEW w \in Envs, Worker(w, t),
           proc[w].home \in {"line", "shell"}, NEW p \in Living, Step(p),
           \/ p = w
           \/ Owns(proc[w], Current(p))
           \/ \E s \in Living : Owns(proc[w], Current(s)) /\ Owns(proc[s], Current(p))
    PROVE  WorkGoal(w, t)
  <1>1. CASE p = w
    BY <1>1, WorkStep
  <1>2. CASE p # w
    <2>1. PICK s \in Living : Owns(proc[w], Current(s)) /\ (p = s \/ Owns(proc[s], Current(p)))
      BY <1>2
    <2>2. PICK k \in 0..Len(t) :
            \/ /\ Lists(proc[w], t, k) /\ At(w, "wait") /\ proc[w].child = Current(s)
               /\ Runs(Current(s), t[k - 1], Upto(t, k - 2).ran)
            \/ Final(w, t, k)
      BY <2>1, WorkerKid
    <2>3. p \in Envs /\ s \in Envs /\ Others(p) /\ proc[w].right = NoEnv
      BY StepFrame DEF Living, Worker
    <2>4. CASE Final(w, t, k)
      <3>1. Command(w, t[k], Upto(t, k - 1).ran) /\ LastWord(t, k)
        BY <2>4 DEF Final
      <3>2. Executes(s, t[k])
        BY <2>1, <3>1, CommandKid
      <3>3. p = s
        BY <2>1, <2>3, <3>2, NoKids
      <3>4. /\ Command(w, t[k], Upto(t, k - 1).ran)' /\ proc'[w] = proc[w] /\ proc'[w].at # "free"
            /\ env_id' = env_id /\ line' = line
        BY <2>1, <3>1, <3>3, KidStep
      <3> QED
        BY <3>1, <3>4, WorksLast
    <2>5. CASE /\ Lists(proc[w], t, k) /\ At(w, "wait") /\ proc[w].child = Current(s)
               /\ Runs(Current(s), t[k - 1], Upto(t, k - 2).ran)
      <3>0. PICK c : c = Current(s)
        OBVIOUS
      <3>1. c = Current(s) /\ c[1] = s /\ c[2] = env_id[s]
        BY <3>0 DEF Current
      <3>2. Alive(c)
        BY <3>1 DEF Alive, Living
      <3>3. t[k - 1] # "cd" /\ Listed(proc[w], t, k)
        <4>1. k >= 2 /\ Listed(proc[w], t, k)
          BY <2>5 DEF Lists, Listed
        <4>2. k - 1 \in 1..Len(t) /\ k - 1 # Len(t)
          BY <4>1
        <4> QED
          BY <4>1, <4>2, PlainWords
      <3>4. Runs(c, t[k - 1], Upto(t, k - 2).ran)' /\ line' = line
        BY <2>1, <2>3, <2>5, <3>1, <3>2, <3>3, RunsStep
      <3>5. proc'[w] = proc[w] /\ env_id'[w] = env_id[w]
        BY <1>2, <2>3, <2>5 DEF Others, At
      <3>6. proc[w].at = "wait"
        BY <2>5 DEF At
      <3> QED
        BY <2>3, <2>5, <3>1, <3>3, <3>4, <3>5, <3>6, WorksList
    <2> QED
      BY <2>2, <2>4, <2>5
  <1> QED
    BY <1>1, <1>2

-----------------------------------------------------------------------------
(***************************************************************************)
(* The shell and its line                                                  *)
(***************************************************************************)

\* Below an env that runs a line there are two envs at most.
LEMMA TwoDeep ==
    ASSUME NEW t, NEW w \in Envs, Worker(w, t), NEW s \in Living, Owns(proc[w], Current(s)),
           NEW q \in Living, Owns(proc[s], Current(q)), NEW c
    PROVE  ~Owns(proc[q], c)
  <1>1. PICK k \in 0..Len(t) :
          \/ Runs(Current(s), t[k - 1], Upto(t, k - 2).ran)
          \/ Final(w, t, k)
    BY WorkerKid
  <1>2. s \in Envs /\ q \in Envs /\ ~At(s, "free")
    BY DEF Living
  <1>3. CASE Runs(Current(s), t[k - 1], Upto(t, k - 2).ran)
    <2>1. PICK word, before : word = t[k - 1] /\ before = Upto(t, k - 2).ran
      OBVIOUS
    <2>2. Current(s)[1] = s
      BY DEF Current
    <2>3. Command(s, word, before)
      BY <1>2, <1>3, <2>1, <2>2 DEF Runs, Ended
    <2>4. Executes(q, word)
      BY <1>2, <2>3, CommandKid
    <2> QED
      BY <1>2, <2>4, NoKids
  <1>4. CASE Final(w, t, k)
    <2>1. Executes(s, t[k])
      BY <1>4, CommandKid DEF Final
    <2> QED
      BY <1>2, <2>1, NoKids
  <1> QED
    BY <1>1, <1>3, <1>4

\* A set of envs that has the shell and whoever one of them waits for has all.
LEMMA ClosedIsAll ==
    ASSUME AloneInv, NEW X \in SUBSET Living, Main \in X,
           \A p \in X : \A s \in Living : Owns(proc[p], Current(s)) => s \in X
    PROVE  X = Living
  <1> SUFFICES ASSUME Living \ X # {} PROVE FALSE
    OBVIOUS
  <1>1. Living \ X \in SUBSET (Living \ {Main})
    OBVIOUS
  <1>2. PICK s \in Living \ X, p \in Living \ (Living \ X) : Owns(proc[p], Current(s))
    BY <1>1 DEF AloneInv, Tree
  <1> QED
    BY <1>2

\* The envs of a line that the shell runs itself.
LEMMA OwnLine ==
    ASSUME AloneInv, NEW t, Main \in Living, Worker(Main, t), NEW p \in Living
    PROVE  \/ p = Main
           \/ Owns(proc[Main], Current(p))
           \/ \E s \in Living : Owns(proc[Main], Current(s)) /\ Owns(proc[s], Current(p))
  <1> DEFINE X == { x \in Living : \/ x = Main
                                   \/ Owns(proc[Main], Current(x))
                                   \/ \E s \in Living : Owns(proc[Main], Current(s)) /\ Owns(proc[s], Current(x)) }
  <1>1. ASSUME NEW x \in X, NEW s \in Living, Owns(proc[x], Current(s)) PROVE s \in X
    <2>1. CASE x = Main
      BY <1>1, <2>1
    <2>2. CASE Owns(proc[Main], Current(x))
      BY <1>1, <2>2
    <2>3. CASE \E y \in Living : Owns(proc[Main], Current(y)) /\ Owns(proc[y], Current(x))
      BY <1>1, <2>3, TwoDeep DEF Living
    <2> QED
      BY <1>1, <2>1, <2>2, <2>3
  <1>2. X \in SUBSET Living /\ Main \in X
    OBVIOUS
  <1> HIDE DEF X
  <1>3. X = Living
    BY <1>1, <1>2, ClosedIsAll
  <1> QED
    BY <1>3 DEF X

\* The envs of a line that a child of the shell runs.
LEMMA ChildLine ==
    ASSUME AloneInv, NEW t, Main \in Living, At(Main, "wait"), proc[Main].after = "line",
           NEW p \in Living, p # Main,
           LET c == proc[Main].child IN Alive(c) => c[1] \in Envs /\ Worker(c[1], t)
    PROVE  \E w \in Living :
             /\ proc[Main].child = Current(w)
             /\ \/ p = w
                \/ Owns(proc[w], Current(p))
                \/ \E s \in Living : Owns(proc[w], Current(s)) /\ Owns(proc[s], Current(p))
  <1> DEFINE Below(x) ==
               \E w \in Living :
                 /\ proc[Main].child = Current(w)
                 /\ \/ x = w
                    \/ Owns(proc[w], Current(x))
                    \/ \E s \in Living : Owns(proc[w], Current(s)) /\ Owns(proc[s], Current(x))
             X == { x \in Living : x = Main \/ Below(x) }
  <1>1. \A w \in Living : proc[Main].child = Current(w) => w \in Envs /\ Worker(w, t)
    BY DEF Living, Current, Alive
  <1>2. \A s \in Living : Owns(proc[Main], Current(s)) => proc[Main].child = Current(s)
    BY DEF Owns, RightAt, At
  <1>3. ASSUME NEW x \in X, NEW s \in Living, Owns(proc[x], Current(s)) PROVE s \in X
    <2>1. CASE x = Main
      BY <1>2, <1>3, <2>1
    <2>2. CASE Below(x)
      <3>1. PICK w \in Living :
              /\ proc[Main].child = Current(w)
              /\ \/ x = w
                 \/ Owns(proc[w], Current(x))
                 \/ \E y \in Living : Owns(proc[w], Current(y)) /\ Owns(proc[y], Current(x))
        BY <2>2
      <3>2. w \in Envs /\ Worker(w, t)
        BY <1>1, <3>1
      <3>3. ~(\E y \in Living : Owns(proc[w], Current(y)) /\ Owns(proc[y], Current(x)))
        BY <1>3, <3>2, TwoDeep
      <3> QED
        BY <1>3, <3>1, <3>3
    <2> QED
      BY <1>3, <2>1, <2>2
  <1>4. X \in SUBSET Living /\ Main \in X
    OBVIOUS
  <1> HIDE DEF X
  <1>5. X = Living
    BY <1>3, <1>4, ClosedIsAll
  <1> QED
    BY <1>5 DEF X

\* No step but the reading of a line changes the line.
LEMMA LineStays ==
    ASSUME NEW p \in Envs, Step(p), ~(\E l \in Lines : Splice(p, l))
    PROVE  line' = line
  <1>1. CASE Parse(p)
    BY <1>1 DEF Parse, ParseEnd, ParseSkip, ParseComment, ParseWord, ParseVar, ParseList, ReapList, ParseRedirect,
                ParsePipe, PipeRight, PipeLeft, Goes, Same
  <1>2. CASE Run(p)
    BY <1>2 DEF Run, RunNothing, RunCd, RunSpawn, RunMissing, RunCloses, ReapCommand, ReapRight, Goes, Same
  <1>3. CASE Program(p)
    BY <1>3 DEF Program, ProgramWrites, ProgramReads, ProgramCopies, ProgramFails, Goes, Same
  <1>4. CASE Capture(p)
    BY <1>4 DEF Capture, CaptureForks, CapturedStarts, CaptureStarts, CaptureReads, CaptureEnds, ReapCapture, Goes, Same
  <1>5. CASE MainStep(p)
    BY <1>5 DEF MainStep, MainSelf, MainForks, ReapLine, Goes, Same
  <1>6. CASE Ends(p)
    BY <1>6 DEF Ends, WaitPoll, ExitCloses, sys_exit, Goes, Same
  <1> QED
    BY <1>1, <1>2, <1>3, <1>4, <1>5, <1>6 DEF Step

\* The shell takes a line in hand only by reading it.
LEMMA Entered ==
    ASSUME TypeInv, AloneInv, Main \in Envs, Step(Main), ~(\E l \in Lines : Splice(Main, l)),
           Listing(proc'[Main])
    PROVE  Listing(proc[Main])
  <1>1. PICK o \in Procs : o = proc[Main]
    BY Here
  <1>2. MainOK(o, ends[Main]) /\ TextOK(o)
    BY <1>1 DEF AloneInv
  <1>3. \A n : n.at \in {"spawned", "exit", "dying", "free", "program", "capture", "capturing", "splice"} => ~Listing(n)
    BY DEF Listing
  <1>4. \A n : n.at = "wait" /\ n.after \in {"command", "right", "capture"} => ~Listing(n)
    BY DEF Listing, ListOps
  <1>5. CASE At(Main, "runcmd") /\ o.right # NoEnv
    <2>1. o.argv # <<>> /\ Head(o.argv) # "cd"
      BY <1>1, <1>2, <1>5 DEF TextOK, At
    <2>2. RunSpawn(Main) \/ RunMissing(Main)
      BY <1>1, <1>5, <2>1, StepsAt DEF RunNothing, RunCd
    <2>3. proc'[Main].at = "spawned"
      <3>1. CASE RunSpawn(Main)
        <4>1. PICK n, s, m : Makes(Main, n, s, m) /\ n.at = "spawned"
          BY <3>1, RunSpawnDoes
        <4> QED
          BY <4>1 DEF Makes
      <3>2. CASE RunMissing(Main)
        <4>1. PICK n : Only(Main, n) /\ n.at = "spawned"
          BY <3>2, RunMissingDoes
        <4> QED
          BY <4>1 DEF Only
      <3> QED
        BY <2>2, <3>1, <3>2
    <2> QED
      BY <1>3, <2>3
  <1>6. CASE At(Main, "spawned")
    <2>1. PICK n : /\ Only(Main, n)
                   /\ n.at = "exit" \/ (n.at = "wait" /\ n.after \in {"command", "right"})
      BY <1>6, StepsAt, RunClosesDoes
    <2> QED
      BY <1>3, <1>4, <2>1 DEF Only
  <1>7. CASE At(Main, "left")
    <2>1. PICK n : Only(Main, n) /\ n.at = "runcmd" /\ n.right = o.right
      BY <1>1, <1>7, StepsAt, PipeLeftDoes DEF Alike
    <2>2. o.right # NoEnv
      BY <1>1, <1>2, <1>7 DEF MainOK, At
    <2> QED
      BY <2>1, <2>2 DEF Only, Listing
  <1>8. CASE At(Main, "program")
    <2>1. PICK n : Only(Main, n) /\ n.at \in {"program", "exit"}
      BY <1>8, StepsAt, ProgramDoes
    <2> QED
      BY <1>3, <2>1 DEF Only
  <1>9. CASE o.at \in {"quote", "capture", "capturing", "splice"} \/ (At(Main, "reap") /\ o.after = "capture")
    <2>1. Capture(Main)
      BY <1>1, <1>9, StepsAt DEF ListOps
    <2>2. ~At(Main, "captured")
      BY <1>1, <1>2 DEF MainOK, At
    <2>3. PICK n : /\ proc'[Main] = n
                   /\ n.at \in {"capture", "capturing", "splice"} \/ (n.at = "wait" /\ n.after = "capture")
      BY <2>1, <2>2, CaptureDoes
    <2> QED
      BY <1>3, <1>4, <2>3
  <1>10. CASE At(Main, "wait")
    <2>1. PICK n : Only(Main, n) /\ n.at = "reap" /\ n.after = o.after
      BY <1>1, <1>10, StepsAt, WaitPollDoes
    <2> QED
      BY <1>1, <1>10, <2>1 DEF Only, Listing, At
  <1>11. CASE At(Main, "reap") /\ o.after \in {"command", "right"}
    <2>1. ReapCommand(Main) \/ ReapRight(Main)
      BY <1>1, <1>11, StepsAt DEF ListOps
    <2>2. PICK n : Only(Main, n) /\ (n.at = "exit" \/ (n.at = "wait" /\ n.after = "right"))
      BY <2>1, ReapCommandDoes, ReapRightDoes
    <2> QED
      BY <1>3, <1>4, <2>2 DEF Only
  <1>12. CASE At(Main, "exit")
    <2>1. PICK n : Only(Main, n) /\ n.at = "dying"
      BY <1>12, StepsAt, ExitClosesDoes
    <2> QED
      BY <1>3, <2>1 DEF Only
  <1>13. CASE At(Main, "dying")
    <2>1. proc'[Main].at = "free"
      BY <1>13, StepsAt, SysExitDoes
    <2> QED
      BY <1>3, <2>1
  <1>14. ~At(Main, "free") /\ o.at \notin {"captured", "right"}
    BY <1>1, <1>2, StepsAt DEF MainOK
  <1>15. o.at \in Places /\ o.after \in Reasons
    BY DEF Procs
  <1> QED
    BY <1>1, <1>5, <1>6, <1>7, <1>8, <1>9, <1>10, <1>11, <1>12, <1>13, <1>14, <1>15
    DEF Listing, Places, Reasons, ListOps, At

\* What a whole line means, and the empty part of it.
LEMMA WholeMeaning ==
    ASSUME NEW t \in Seq(STRING)
    PROVE  /\ Meaning(t) = Upto(t, Len(t)).ran
           /\ Upto(t, 0).runs /\ Upto(t, 0).ran = <<>>
  BY MeantSteps DEF Meaning, Upto, Begin

\* An env that starts with the line t.
LEMMA WorkStarts ==
    ASSUME NEW t \in Seq(STRING), NEW n, n.at = "parse", n.next, n.argv = <<>>, n.tokens = t
    PROVE  0 \in 0..Len(t) /\ Parses(n, t, 0, <<>>)
  <1>1. Len(t) \in Nat /\ Len(t) - 0 = Len(t) /\ \A i \in 1..Len(t) : 0 + i = i
    OBVIOUS
  <1>2. Rests(n, t, 0)
    BY <1>1 DEF Rests
  <1>3. Fresh(n, t, 0, <<>>)
    BY WholeMeaning DEF Fresh
  <1> QED
    BY <1>1, <1>2, <1>3 DEF Parses

\* What a step of a worker leaves, seen from the shell.
LEMMA WorkGoalChain ==
    ASSUME TypeInv, NEW t \in Seq(STRING), Main \in Envs, WorkGoal(Main, t), Listing(proc'[Main])
    PROVE  Chain(t)'
  <1>1. proc'[Main].at # "free"
    BY DEF Listing
  <1>2. Meaning(t) = Upto(t, Len(t)).ran
    BY WholeMeaning
  <1>3. CASE Worker(Main, t)'
    BY <1>3 DEF Chain
  <1>4. CASE proc'[Main].at = "prompt" /\ ran' = Meaning(t)
    BY <1>4 DEF Chain, At
  <1> QED
    BY <1>1, <1>2, <1>3, <1>4 DEF WorkGoal

\* A step of the shell that goes on with a line.
LEMMA MainKeeps ==
    ASSUME TypeInv, AloneInv, NEW t \in Seq(STRING), PlainList(t), NextInv, Main \in Envs,
           Step(Main), ~(\E l \in Lines : Splice(Main, l)), Chain(t), Listing(proc'[Main])
    PROVE  Chain(t)'
  <1>1. PICK o \in Procs : o = proc[Main]
    BY Here
  <1>2. MainOK(o, ends[Main]) /\ TextOK(o) /\ ProcOK(Main, o, ends[Main])
    BY <1>1 DEF AloneInv, TypeInv
  <1>3. ~At(Main, "prompt")
    BY StepsAt
  <1>4. CASE At(Main, "line") /\ o.tokens = t /\ o.next /\ ran = <<>>
    <2>1. o.argv = <<>> /\ o.right = NoEnv
      BY <1>1, <1>2, <1>4 DEF TextOK, ProcOK, NoRightAt, At
    <2>2. CASE MainSelf(Main)
      <3>1. PICK n : /\ Only(Main, n) /\ ran' = ran /\ n.tokens = o.tokens /\ Alike(n, o)
                     /\ \/ n.at = "prompt" /\ IsComment(o.tokens)
                        \/ n.at = "parse" \/ n.at = "exit"
        BY <1>1, <2>2, MainSelfDoes
      <3>2. n.at = "parse"
        <4>1. n.at # "exit"
          BY <3>1 DEF Only, Listing
        <4>2. ~IsComment(t)
          <5> SUFFICES ASSUME IsComment(t) PROVE FALSE
            OBVIOUS
          <5>1. t # <<>> /\ Head(t) = "#"
            BY DEF IsComment
          <5>2. Head(t) = t[1]
            BY <5>1, TailSeq
          <5>3. t[1] \notin Symbols
            BY <5>1 DEF PlainList
          <5> QED
            BY <5>1, <5>2, <5>3 DEF Symbols
        <4> QED
          BY <1>4, <3>1, <4>1, <4>2
      <3>3. 0 \in 0..Len(t) /\ Parses(n, t, 0, ran')
        BY <1>4, <2>1, <3>1, <3>2, WorkStarts DEF Alike
      <3>4. proc'[Main] = n /\ n.right = NoEnv
        BY <2>1, <3>1 DEF Only, Alike
      <3>5. Worker(Main, t)'
        BY <3>3, <3>4 DEF Worker, Works
      <3> QED
        BY <3>5 DEF Chain
    <2>3. CASE MainForks(Main)
      <3>1. PICK n, s, m :
              /\ Makes(Main, n, s, m) /\ ran' = ran
              /\ n.at = "wait" /\ n.after = "line" /\ n.child = <<s, env_id[s] + 1>>
              /\ m.at = "parse" /\ m.home = "line" /\ m.tokens = o.tokens
              /\ m.argv = o.argv /\ m.next = o.next /\ m.right = o.right
        <4>1. \E n, s, m :
                /\ Makes(Main, n, s, m) /\ ran' = ran /\ At(Main, "line")
                /\ n.at = "wait" /\ n.after = "line" /\ n.child = <<s, env_id[s] + 1>> /\ n.next = proc[Main].next
                /\ m.at = "parse" /\ m.home = "line" /\ m.tokens = proc[Main].tokens
                /\ m.argv = proc[Main].argv /\ m.next = proc[Main].next /\ m.right = proc[Main].right
          BY <2>3, MainForksDoes
        <4> QED
          BY <1>1, <4>1
      <3>2. /\ proc'[Main] = n /\ proc'[s] = m /\ env_id'[s] = env_id[s] + 1
        BY <3>1 DEF Makes
      <3>3. 0 \in 0..Len(t) /\ Parses(m, t, 0, ran')
        BY <1>4, <2>1, <3>1, WorkStarts
      <3>4. Worker(s, t)'
        BY <2>1, <3>1, <3>2, <3>3 DEF Worker, Works
      <3>5. PICK c : c = <<s, env_id[s] + 1>>
        OBVIOUS
      <3>6. c[1] = s /\ Alive(c)' /\ proc'[c[1]].home = "line"
        BY <3>1, <3>2, <3>5 DEF Alive, At
      <3>7. proc'[Main].child = c /\ At(Main, "wait")' /\ proc'[Main].after = "line"
        BY <3>1, <3>2, <3>5 DEF At
      <3> QED
        BY <3>4, <3>6, <3>7 DEF Chain
    <2> QED
      BY <1>4, <2>2, <2>3, StepsAt
  <1>5. CASE /\ At(Main, "wait") /\ o.after = "line"
             /\ \/ LET c == o.child IN Alive(c) /\ proc[c[1]].home = "line" /\ Worker(c[1], t)
                \/ ~Alive(o.child) /\ ran = Meaning(t)
    <2>1. PICK n : /\ Only(Main, n) /\ ran' = ran /\ ~Alive(o.child)
                   /\ n.at = "reap" /\ n.after = o.after
      BY <1>1, <1>5, StepsAt, WaitPollDoes
    <2>2. ran = Meaning(t)
      BY <1>5, <2>1
    <2> QED
      BY <1>5, <2>1, <2>2 DEF Only, Chain, At
  <1>6. CASE At(Main, "reap") /\ o.after = "line" /\ ran = Meaning(t)
    <2>1. ReapLine(Main)
      BY <1>1, <1>6, StepsAt DEF ListOps
    <2>2. PICK n : Only(Main, n) /\ ran' = ran /\ n.at = "prompt"
      BY <2>1, ReapLineDoes
    <2> QED
      BY <1>6, <2>2 DEF Only, Chain, At
  <1>7. CASE Worker(Main, t)
    <2>1. proc[Main].home \in {"line", "shell"}
      BY <1>1, <1>2 DEF MainOK
    <2> QED
      BY <1>7, <2>1, WorkStep, WorkGoalChain
  <1> QED
    BY <1>1, <1>3, <1>4, <1>5, <1>6, <1>7 DEF Chain

\* A step of another env of the line.
LEMMA OtherKeeps ==
    ASSUME TypeInv, AloneInv, AllDry, NEW t \in Seq(STRING), PlainList(t), Main \in Envs, ~At(Main, "free"),
           NEW p \in Envs, p # Main, ~At(p, "free"), Step(p), Chain(t), Listing(proc[Main])
    PROVE  Chain(t)'
  <1>1. Others(p) /\ proc'[Main] = proc[Main] /\ env_id'[Main] = env_id[Main]
    BY StepFrame DEF Others
  <1>2. p \in Living /\ Main \in Living
    BY DEF Living
  <1>3. ~At(Main, "prompt") /\ ~At(Main, "line") /\ ~(At(Main, "reap") /\ proc[Main].after = "line")
    BY AloneWhen DEF At
  <1>4. CASE Worker(Main, t)
    <2>1. proc[Main].home \in {"line", "shell"}
      BY DEF AloneInv, MainOK
    <2>2. WorkGoal(Main, t)
      BY <1>2, <1>4, <2>1, OwnLine, LineRuns
    <2> QED
      BY <1>1, <2>2, WorkGoalChain
  <1>5. CASE At(Main, "wait") /\ proc[Main].after = "line"
    <2>1. PICK c : c = proc[Main].child
      OBVIOUS
    <2>2. Good(Main, c)
      BY <1>5, <2>1 DEF TypeInv, ProcOK, At
    <2>3. CASE Alive(c) /\ proc[c[1]].home = "line" /\ Worker(c[1], t)
      <3>1. PICK w \in Living :
              /\ c = Current(w)
              /\ \/ p = w
                 \/ Owns(proc[w], Current(p))
                 \/ \E s \in Living : Owns(proc[w], Current(s)) /\ Owns(proc[s], Current(p))
        BY <1>2, <1>5, <2>1, <2>2, <2>3, ChildLine DEF Good
      <3>2. c[1] = w /\ w \in Envs /\ c[2] = env_id[w]
        BY <3>1 DEF Current, Living
      <3>3. Worker(w, t) /\ proc[w].home = "line"
        BY <2>3, <3>2
      <3>4. WorkGoal(w, t)
        BY <1>2, <3>1, <3>2, <3>3, LineRuns
      <3>5. At(Main, "wait")' /\ proc'[Main].after = "line" /\ proc'[Main].child = c
        BY <1>1, <1>5, <2>1 DEF At
      <3>6. CASE Worker(w, t)' /\ proc'[w].at # "free" /\ proc'[w].home = "line"
        <4>1. Alive(c)' /\ Worker(c[1], t)' /\ proc'[c[1]].home = "line"
          BY <3>2, <3>4, <3>6 DEF Alive, At, WorkGoal
        <4> QED
          BY <3>5, <4>1 DEF Chain
      <3>7. CASE proc'[w].at = "free" /\ ran' = Upto(t, Len(t)).ran
        <4>1. ~Alive(c)' /\ ran' = Meaning(t)
          BY <3>2, <3>7, WholeMeaning DEF Alive, At
        <4> QED
          BY <3>5, <4>1 DEF Chain
      <3> QED
        BY <3>3, <3>4, <3>6, <3>7 DEF WorkGoal
    <2>4. CASE ~Alive(c)
      <3>1. \A w \in Living : proc[Main].child # Current(w)
        BY <2>1, <2>4 DEF Alive, Current, Living
      <3> QED
        BY <1>2, <1>5, <2>1, <2>4, <3>1, ChildLine
    <2> QED
      BY <1>3, <1>5, <2>1, <2>3, <2>4
      DEF Chain, Worker, Works, Parses, Fresh, HasRead, Skips, Lists, Listed, Final, Command, Nothing, Leaves,
         At, ListOps
  <1> QED
    BY <1>3, <1>4, <1>5 DEF Chain

\* What is known of the envs while the shell has a line in hand, together.
AllInv == TypeInv /\ AloneInv /\ TameInv /\ DryInv /\ ListInv /\ NextInv

\* A step of an env.
LEMMA ListStep ==
    ASSUME WholeLines, AllInv, TypeInv', NEW p \in Envs, ~At(p, "free"),
           Step(p) \/ (\E l \in Lines : Prompt(p, l))
    PROVE  (TameInv /\ DryInv /\ ListInv /\ NextInv)'
  <1>1. Main \in Envs /\ ~At(Main, "free")
    BY ShellAssumption, MainStays DEF Main, Envs, AllInv, AloneInv
  <1>2. TypeInv /\ AloneInv /\ TameInv /\ DryInv /\ ListInv /\ NextInv
    BY DEF AllInv
  <1>3. TameInv'
    BY <1>2, TameKept
  <1>4. Others(p)
    BY <1>2, StepFrame, PromptDoes DEF Takes
  <1>5. NextInv'
    <2>1. CASE p # Main
      BY <1>1, <1>2, <1>4, <2>1 DEF NextInv, Others, At
    <2>2. CASE p = Main /\ Step(Main)
      BY <1>1, <1>2, <2>2, StepFrame DEF NextInv, At
    <2>3. CASE p = Main /\ \E l \in Lines : Prompt(Main, l)
      <3>1. PICK l \in Lines : Prompt(Main, l)
        BY <2>3
      <3>2. PICK n : Takes(Main, n, l) /\ At(Main, "prompt")
        BY <1>1, <1>2, <3>1, PromptDoes
      <3> QED
        BY <1>2, <3>2 DEF NextInv, Takes, At
    <2> QED
      BY <2>1, <2>2, <2>3
  <1>6. ListInv'
    <2> SUFFICES ASSUME Listing(proc'[Main]), PlainList(line'.tokens) PROVE Chain(line.tokens)'
      BY DEF ListInv
    <2>1. PICK t \in Seq(STRING) : t = line.tokens
      BY <1>2 DEF TypeInv, GlobalOK, LineType
    <2>2. CASE p # Main
      <3>1. proc'[Main] = proc[Main]
        BY <1>1, <1>4, <2>2 DEF Others
      <3>2. Listing(proc[Main])
        BY <3>1
      <3>3. Tame(proc[p])
        BY <1>2, <2>2, <3>2 DEF TameInv, Living
      <3>4. Step(p)
        BY <1>2, <3>3, PromptDoes DEF Tame, At
      <3>5. line' = line
        BY <1>2, <3>3, <3>4, TameSteps DEF TameStep
      <3>6. PlainList(t) /\ Chain(t) /\ AllDry
        BY <1>2, <2>1, <3>2, <3>5 DEF ListInv, DryInv
      <3>7. Chain(t)'
        BY <1>1, <1>2, <2>2, <3>2, <3>4, <3>6, OtherKeeps
      <3> QED
        BY <2>1, <3>5, <3>7
    <2>3. CASE p = Main /\ \E l \in Lines : Prompt(Main, l) \/ Splice(Main, l)
      <3>1. PICK l \in Lines : Prompt(Main, l) \/ Splice(Main, l)
        BY <2>3
      <3>2. PICK n : Takes(Main, n, l) /\ proc[Main].at \in {"prompt", "splice"} /\ n.at \in {"line", "quote"}
        BY <1>1, <1>2, <3>1, PromptDoes, SpliceDoes DEF At
      <3>3. proc[Main].next
        BY <1>2, <3>2 DEF NextInv, At
      <3>4. proc'[Main] = n /\ n.tokens = l.tokens /\ n.next /\ ran' = <<>> /\ line' = l
        BY <3>2, <3>3 DEF Takes
      <3>5. n.at = "line"
        BY <3>2, <3>4 DEF Listing
      <3> QED
        BY <3>4, <3>5 DEF Chain, At
    <2>4. CASE p = Main /\ Step(Main) /\ ~(\E l \in Lines : Splice(Main, l))
      <3>1. line' = line
        BY <1>1, <2>4, LineStays
      <3>2. Listing(proc[Main])
        BY <1>1, <1>2, <2>4, Entered
      <3>3. PlainList(t) /\ Chain(t)
        BY <1>2, <2>1, <3>1, <3>2 DEF ListInv
      <3>4. Chain(t)'
        BY <1>1, <1>2, <2>4, <3>3, MainKeeps
      <3> QED
        BY <2>1, <3>1, <3>4
    <2> QED
      BY <2>2, <2>3, <2>4
  <1>7. DryInv'
    <2> SUFFICES ASSUME Listing(proc'[Main]), PlainList(line'.tokens) PROVE AllDry'
      BY DEF DryInv
    <2>1. CASE \E l \in Lines : Prompt(p, l) \/ Splice(p, l)
      <3>1. p = Main
        <4> SUFFICES ASSUME p # Main PROVE FALSE
          OBVIOUS
        <4>1. proc'[Main] = proc[Main]
          BY <1>1, <1>4 DEF Others
        <4>2. Tame(proc[p])
          BY <1>2, <4>1 DEF TameInv, Living
        <4> QED
          BY <2>1, <4>2 DEF Tame, Prompt, Splice, At
      <3>2. PICK l \in Lines : Prompt(Main, l) \/ Splice(Main, l)
        BY <2>1, <3>1
      <3>3. PICK n : Takes(Main, n, l) /\ n.at \in {"line", "quote"}
        BY <1>1, <1>2, <3>2, PromptDoes, SpliceDoes
      <3>4. proc'[Main] = n /\ n.tokens = l.tokens /\ line' = l
        BY <3>3 DEF Takes
      <3>5. n.at = "line"
        BY <3>3, <3>4 DEF Listing
      <3>6. NoBar(n.tokens)
        <4>1. PICK t : t = l.tokens /\ PlainList(t)
          BY <3>4
        <4>2. \A i \in 1..Len(t) : t[i] \in {";", "a", "o"} \/ t[i] \notin Symbols
          BY <4>1 DEF PlainList
        <4>3. \A i \in 1..Len(t) : t[i] # "|"
          BY <4>2 DEF Symbols
        <4> QED
          BY <3>4, <4>1, <4>3 DEF NoBar
      <3>7. MainOK(proc[Main], ends[Main]) /\ ends' = ends /\ proc[Main].at \in {"prompt", "splice"}
        BY <1>2, <3>2 DEF AloneInv, Prompt, Splice, At
      <3>8. ends'[Main][1][1] = 0
        BY <3>7 DEF MainOK, Std, Console
      <3>9. Dry(Main)'
        BY <3>4, <3>5, <3>6, <3>8 DEF Dry, Wet, At
      <3>10. ASSUME NEW x \in Envs \ {Main} PROVE Dry(x)'
        <4>1. At(x, "free")
          BY <1>2, <3>7, AloneWhen
        <4>2. proc'[x] = proc[x]
          <5>1. PICK m : proc' = [proc EXCEPT ![Main] = m]
            <6>1. PICK y : y = [proc[Main] EXCEPT !.tokens = l.tokens, !.argv = <<>>, !.right = NoEnv,
                                  !.at = IF l.quote = <<>> THEN "line" ELSE "quote"]
              OBVIOUS
            <6>2. PICK z : z = [proc[Main] EXCEPT !.tokens = l.tokens, !.argv = <<>>, !.right = NoEnv,
                                  !.at = "line", !.home = "shell"]
              OBVIOUS
            <6>3. proc' = [proc EXCEPT ![Main] = y] \/ proc' = [proc EXCEPT ![Main] = z]
              BY <3>2, <6>1, <6>2 DEF Prompt, Splice
            <6> QED
              BY <6>3
          <5> QED
            BY <1>1, <1>2, <5>1 DEF TypeInv, GlobalOK
        <4>3. ends[x] = NoEnds
          BY <1>2, <4>1 DEF TypeInv, ProcOK, At
        <4>4. ends[x][1][1] = 0
          BY <4>3 DEF NoEnds, Closed
        <4> QED
          BY <3>7, <4>1, <4>2, <4>4 DEF Dry, At
      <3> QED
        BY <3>9, <3>10 DEF AllDry
    <2>2. CASE Step(p) /\ ~(\E l \in Lines : Splice(p, l))
      <3>1. line' = line
        BY <2>2, LineStays
      <3>2. Listing(proc[Main])
        <4>1. CASE p # Main
          BY <1>1, <1>4, <4>1 DEF Others
        <4>2. CASE p = Main
          BY <1>1, <1>2, <2>2, <4>2, Entered
        <4> QED
          BY <4>1, <4>2
      <3>3. AllDry
        BY <1>2, <3>1, <3>2 DEF DryInv
      <3> QED
        BY <1>2, <2>2, <3>3, DryStep
    <2> QED
      BY <2>1, <2>2
  <1> QED
    BY <1>3, <1>5, <1>6, <1>7

\* A list runs exactly the commands it means, in order, for every number of
\* envs and lines of any length: the values of commands reach the env that
\* decides about the next one.
THEOREM ListsRun ==
    ASSUME SensibleLines, WholeLines
    PROVE  Spec => []ListRuns
  <1>1. Init => AllInv
    <2> SUFFICES ASSUME Init PROVE AllInv
      OBVIOUS
    <2>1. TypeInv /\ AloneInv
      BY InitInv
    <2>2. Main \in Envs
      BY ShellAssumption DEF Main, Envs
    <2>3. PICK n : n = [NoProc EXCEPT !.at = "prompt"]
      OBVIOUS
    <2>4. n.at = "prompt" /\ n.next /\ NoProc.at = "free"
      BY <2>3 DEF NoProc
    <2>5. proc[Main] = n /\ \A x \in Envs \ {Main} : proc[x] = NoProc
      BY <2>2, <2>3 DEF Init
    <2>6. TameInv
      BY <2>4, <2>5 DEF TameInv, Living, At
    <2>9. DryInv
      <3>1. \A x \in Envs : ends[x][1][1] = 0
        BY DEF Init, Std, Console, NoEnds, Closed
      <3>2. n.tokens = <<>>
        BY <2>3 DEF NoProc
      <3>3. NoBar(n.tokens)
        BY <3>2, EmptySeq DEF NoBar
      <3> QED
        BY <2>4, <2>5, <3>1, <3>3 DEF DryInv, AllDry, Dry, Wet, At, NoProc
    <2>7. NextInv
      BY <2>4, <2>5 DEF NextInv
    <2>8. ListInv
      <3>1. PICK t : t = line.tokens
        OBVIOUS
      <3>2. t = <<>> /\ ran = <<>>
        BY <3>1 DEF Init
      <3>3. t \in Seq(STRING) /\ Len(t) = 0
        BY <3>2, EmptySeq
      <3>4. Meaning(t) = <<>>
        BY <3>3, WholeMeaning
      <3>5. Chain(t)
        BY <2>4, <2>5, <3>2, <3>4 DEF Chain, At
      <3> QED
        BY <3>1, <3>5 DEF ListInv
    <2> QED
      BY <2>1, <2>6, <2>7, <2>8, <2>9 DEF AllInv
  <1>2. AllInv /\ [Next]_vars => AllInv'
    <2> SUFFICES ASSUME AllInv, [Next]_vars PROVE AllInv'
      OBVIOUS
    <2>1. TypeInv' /\ AloneInv'
      BY NextStep DEF StepOK, AllInv
    <2>2. CASE UNCHANGED vars
      <3>1. /\ proc' = proc /\ env_id' = env_id /\ env_exit_value' = env_exit_value
            /\ line' = line /\ ran' = ran
        BY <2>2 DEF vars
      <3>2. TameInv' /\ NextInv'
        BY <3>1 DEF AllInv, TameInv, NextInv, Living, At
      <3>3. \A w, t : Worker(w, t)' <=> Worker(w, t)
        BY <3>1 DEF Worker, Works, Lists, Final, Runs, Command, Spawned, Executes, Alive, Ended, At
      <3>4. Chain(line.tokens)' <=> Chain(line.tokens)
        BY <3>1, <3>3 DEF Chain, Alive, At
      <3>5. ListInv'
        BY <3>1, <3>4 DEF AllInv, ListInv
      <3>6. DryInv'
        BY <2>2 DEF AllInv, DryInv, AllDry, Dry, Listing, At, vars
      <3> QED
        BY <2>1, <3>2, <3>5, <3>6 DEF AllInv
    <2>3. CASE Next
      <3>1. PICK p \in Envs : Step(p) \/ (\E l \in Lines : Prompt(p, l))
        BY <2>3 DEF Next
      <3>2. ~At(p, "free")
        BY <3>1, StepsAt DEF Prompt, At
      <3> QED
        BY <2>1, <3>1, <3>2, ListStep DEF AllInv
    <2> QED
      BY <2>2, <2>3
  <1>3. AllInv => ListRuns
    <2> SUFFICES ASSUME AllInv, At(Main, "prompt"), PlainList(line.tokens) PROVE ran = Meaning(line.tokens)
      BY DEF ListRuns
    <2>1. Chain(line.tokens)
      BY DEF AllInv, ListInv, Listing, At
    <2>2. ~Worker(Main, line.tokens)
      BY DEF Worker, Works, Parses, Fresh, HasRead, Skips, Lists, Final, Command, Nothing, Leaves, At
    <2> QED
      BY <2>1, <2>2 DEF Chain, At
  <1> QED
    BY <1>1, <1>2, <1>3, PTL DEF Spec
=============================================================================
