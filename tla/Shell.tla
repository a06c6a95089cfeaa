------------------------------- MODULE Shell -------------------------------
(***************************************************************************)
(* The shell user/sh.c: how a line becomes a tree of envs that fork, share *)
(* pipe ends, wait for one another and exit; with wait and exit of         *)
(* user/lib and sys_wait and sys_exit of the kernel, and spawn as far as   *)
(* the tree sees it.                                                       *)
(*                                                                         *)
(* A line is a sequence of tokens: words, ";", "a" (&&), "o" (||), "|",    *)
(* "<", ">", "$" and "#", and perhaps a command in backquotes before them. *)
(* Programs are told apart by what they do with descriptors 0 and 1 and by *)
(* their exit value.  An env is a slot of envs[] and the number of times   *)
(* the slot has been used, which makes its env_id.                         *)
(*                                                                         *)
(* Pipe ends are counted exactly (module Pipe has their race with the      *)
(* clock).  Left out: characters of a line, arguments, running out of envs *)
(* and pages, the history file.                                            *)
(***************************************************************************)
EXTENDS Integers, Sequences, FiniteSets, FiniteSetsExt, SequencesExt

CONSTANTS NENV,       \* env slots; the shell is slot 1
          NPIPES,     \* pipes there can be at once
          PIPE_SIZE,  \* writes a pipe holds
          Lines,      \* lines a user may type: [quote : tokens, tokens : tokens]
          Vars,       \* the variables that are set, and the word each stands for
          MaxLines    \* bound of the model on the lines read

ASSUME ShellAssumption ==
    /\ NENV \in Nat \ {0} /\ NPIPES \in Nat \ {0} /\ PIPE_SIZE \in Nat \ {0}
    /\ MaxLines \in Nat
    /\ Lines \subseteq [quote : Seq(STRING), tokens : Seq(STRING)]
    /\ Vars \in [DOMAIN Vars -> STRING]

Envs == 1..NENV
Main == 1

VARIABLES proc,    \* what the env in each slot is doing
          ends,    \* its descriptors: 0, 1, and the two of a new pipe, 2 and 3
          env_id,  \* how often each slot has been used
          free,    \* env_free_list
          env_exit_value,
          data,    \* writes each pipe holds; pipe 0 is none
          line,    \* the line that was read last
          ran,     \* the commands run since, in order
          nlines   \* lines read

vars == <<proc, ends, env_id, free, env_exit_value, data, line, ran, nlines>>

NoEnv == <<0, 0>>
Console == <<0, "cons">>
File == <<0, "file">>
Closed == <<0, "closed">>
NoEnds == [k \in 0..3 |-> Closed]

\* tokens and argv of parsecmd; next and flag: its static variables next_run
\* and flag; child, after: whom the env waits for and for what; right: the env
\* of the rest of a pipeline; home: where runcmd returns to; cd: the working
\* directory has been changed; r: a result.
NoProc == [at |-> "free", tokens |-> <<>>, argv |-> <<>>, next |-> TRUE, flag |-> 0,
           child |-> NoEnv, after |-> "line", right |-> NoEnv, home |-> "shell",
           cd |-> FALSE, r |-> 0]

Holding(end) == { p \in Envs : \E k \in 0..3 : ends[p][k] = end }
Writers(pipe) == Holding(<<pipe, "w">>)
Readers(pipe) == Holding(<<pipe, "r">>)
UnusedPipes == { q \in 1..NPIPES : Writers(q) = {} /\ Readers(q) = {} }

-----------------------------------------------------------------------------
(***************************************************************************)
(* Steps that several routines take                                        *)
(***************************************************************************)

At(p, where) == proc[p].at = where
Same == UNCHANGED <<env_id, free, env_exit_value, line, ran, nlines>>

\* Only env p does something.
Goes(p, new) == /\ proc' = [proc EXCEPT ![p] = new]
                /\ UNCHANGED <<ends, data>> /\ Same

\* fork, exofork: a slot from the head of env_free_list.  Parent and child
\* have the ends e.
Fork(p, e, Parent(_), child) ==
    /\ free # <<>>
    /\ LET s == Head(free)
       IN  /\ proc' = [proc EXCEPT ![p] = Parent(<<s, env_id[s] + 1>>), ![s] = child]
           /\ ends' = [ends EXCEPT ![p] = e, ![s] = e]
           /\ env_id' = [env_id EXCEPT ![s] = @ + 1]
    /\ free' = Tail(free)
    /\ UNCHANGED <<env_exit_value, nlines>>

\* The ends of p after pipe(p), with the new pipe empty.
WithPipe(p, Then(_)) ==
    /\ UnusedPipes # {}
    /\ \E q \in {Min(UnusedPipes)} :
      /\ data' = [data EXCEPT ![q] = 0]
      /\ Then([ends[p] EXCEPT ![2] = <<q, "r">>, ![3] = <<q, "w">>])

Waits(new, child, after) == [new EXCEPT !.at = "wait", !.child = child, !.after = after]
Exits(new, r) == [new EXCEPT !.at = "exit", !.r = r]

\* wait polls the slot until its env_id changes or it is free.
WaitPoll(p) ==
    /\ At(p, "wait")
    /\ LET s == proc[p].child[1]
       IN  env_id[s] # proc[p].child[2] \/ At(s, "free")
    /\ Goes(p, [proc[p] EXCEPT !.at = "reap"])

\* sys_wait looks at the slot again: it may have been taken by another env,
\* which may have ended as well.
sys_wait(child) == IF At(child[1], "free") THEN env_exit_value[child[1]] ELSE -1

\* Where runcmd returns to, with no command or after cd.
Returned(new) ==
    CASE new.home = "shell"   -> [new EXCEPT !.at = "prompt"]
      [] new.home = "capture" -> [new EXCEPT !.at = "splice"]
      [] new.home = "line"    -> Exits(new, 0)

\* exit: close_all, then sys_exit and env_destroy.
ExitCloses(p) ==
    /\ At(p, "exit")
    /\ proc' = [proc EXCEPT ![p].at = "dying"]
    /\ ends' = [ends EXCEPT ![p] = NoEnds]
    /\ UNCHANGED data /\ Same

\* Mutant of sys_exit: the slot is not linked into env_free_list.
sys_exit_LosesSlot(p) ==
    /\ At(p, "dying")
    /\ proc' = [proc EXCEPT ![p] = NoProc]
    /\ env_exit_value' = [env_exit_value EXCEPT ![p] = proc[p].r]
    /\ UNCHANGED <<ends, env_id, free, data, line, ran, nlines>>

sys_exit(p) ==
    /\ At(p, "dying")
    /\ proc' = [proc EXCEPT ![p] = NoProc]
    /\ env_exit_value' = [env_exit_value EXCEPT ![p] = proc[p].r]
    /\ free' = <<p>> \o free
    /\ UNCHANGED <<ends, env_id, data, line, ran, nlines>>

-----------------------------------------------------------------------------
(***************************************************************************)
(* parsecmd                                                                *)
(***************************************************************************)

Token(p) == Head(proc[p].tokens)
Rest(p) == [proc[p] EXCEPT !.tokens = Tail(@)]
Symbols == {";", "a", "o", "|", "<", ">", "$", "#"}
Parsing(p) == At(p, "parse") /\ proc[p].tokens # <<>> /\ proc[p].next
Reads(p, token) == Parsing(p) /\ Token(p) = token
WordFollows(p) == Len(proc[p].tokens) >= 2 /\ proc[p].tokens[2] \notin Symbols
Rest2(p) == [proc[p] EXCEPT !.tokens = Tail(Tail(@))]

ParseEnd(p) ==
    /\ At(p, "parse") /\ proc[p].tokens = <<>>
    /\ Goes(p, [proc[p] EXCEPT !.next = TRUE, !.flag = 0, !.at = "runcmd"])

\* Mutant of Resumes: || does not look at the result.
Resumes_Always(token, flag) == token \in {"a", "o"} /\ (token = "a" => flag = 0)

\* Tokens are skipped up to the && or || that the last result asks for.
Resumes(token, flag) == (token = "a" /\ flag = 0) \/ (token = "o" /\ flag = 1)

ParseSkip(p) ==
    /\ At(p, "parse") /\ proc[p].tokens # <<>> /\ ~proc[p].next
    /\ Goes(p, [Rest(p) EXCEPT !.next = Resumes(Token(p), proc[p].flag)])

ParseComment(p) == Reads(p, "#") /\ Goes(p, [proc[p] EXCEPT !.at = "runcmd"])

ParseWord(p) ==
    /\ Parsing(p) /\ Token(p) \notin Symbols
    /\ Goes(p, [Rest(p) EXCEPT !.argv = Append(@, Token(p))])

ParseVar(p) ==
    /\ Reads(p, "$")
    /\ Goes(p, IF WordFollows(p) /\ proc[p].tokens[2] \in DOMAIN Vars
               THEN [Rest2(p) EXCEPT !.argv = Append(@, Vars[proc[p].tokens[2]])]
               ELSE Exits(Rest(p), 1))

\* A forked child runs what was read so far; the parent waits for it and goes
\* on with the rest of the line.
ParseList(p) ==
    \E op \in {";", "a", "o"} :
      /\ Reads(p, op)
      /\ Fork(p, ends[p], LAMBDA c : Waits(Rest(p), c, op),
              [Rest(p) EXCEPT !.at = "runcmd"])
      /\ UNCHANGED <<data, line, ran>>

\* The descriptors of the console again.
ReapList(p) ==
    /\ At(p, "reap") /\ proc[p].after \in {";", "a", "o"}
    /\ LET op == proc[p].after
           r == sys_wait(proc[p].child)
       IN  proc' = [proc EXCEPT ![p].at = "parse", ![p].argv = <<>>,
                                ![p].flag = IF op = ";" THEN @ ELSE r,
                                ![p].next = CASE op = ";" -> @ [] op = "a" -> r = 0 [] op = "o" -> r # 0]
    /\ ends' = [ends EXCEPT ![p][0] = Console, ![p][1] = Console]
    /\ UNCHANGED data /\ Same

\* < and >: the file is opened and takes the place of descriptor 0 or 1.
ParseRedirect(p) ==
    \E token \in {"<", ">"}, found \in BOOLEAN :
      /\ Reads(p, token)
      /\ IF WordFollows(p) /\ found
         THEN /\ proc' = [proc EXCEPT ![p] = Rest2(p)]
              /\ ends' = [ends EXCEPT ![p][IF token = "<" THEN 0 ELSE 1] = File]
         ELSE proc' = [proc EXCEPT ![p] = Exits(Rest(p), 1)] /\ UNCHANGED ends
      /\ UNCHANGED data /\ Same

ParsePipe(p) ==
    /\ Reads(p, "|")
    /\ WithPipe(p, LAMBDA e :
         Fork(p, e, LAMBDA c : [Rest(p) EXCEPT !.at = "left", !.right = c],
              [Rest(p) EXCEPT !.at = "right", !.right = NoEnv]))
    /\ UNCHANGED <<line, ran>>

\* Mutant of Reading: the right side keeps the write end.
Reading_KeepsWrite(e) == [e EXCEPT ![0] = e[2], ![2] = Closed]

\* dup and close of the two sides of a pipe.
Reading(e) == [e EXCEPT ![0] = e[2], ![2] = Closed, ![3] = Closed]
Writing(e) == [e EXCEPT ![1] = e[3], ![2] = Closed, ![3] = Closed]

PipeRight(p) ==
    /\ At(p, "right")
    /\ proc' = [proc EXCEPT ![p].at = "parse", ![p].argv = <<>>]
    /\ ends' = [ends EXCEPT ![p] = Reading(@)]
    /\ UNCHANGED data /\ Same

PipeLeft(p) ==
    /\ At(p, "left")
    /\ proc' = [proc EXCEPT ![p].at = "runcmd"]
    /\ ends' = [ends EXCEPT ![p] = Writing(@)]
    /\ UNCHANGED data /\ Same

-----------------------------------------------------------------------------
(***************************************************************************)
(* runcmd and the programs                                                 *)
(***************************************************************************)

Programs == {"source", "filter", "fails"}

RunNothing(p) ==
    /\ At(p, "runcmd") /\ proc[p].argv = <<>>
    /\ Goes(p, Returned(proc[p]))

\* useCD: the directory may not be there.
RunCd(p) ==
    /\ At(p, "runcmd") /\ proc[p].argv # <<>> /\ Head(proc[p].argv) = "cd"
    /\ \E found \in BOOLEAN :
         proc' = [proc EXCEPT ![p] = [Returned(proc[p]) EXCEPT !.cd = @ \/ found]]
    /\ ran' = Append(ran, "cd")
    /\ UNCHANGED <<ends, env_id, free, env_exit_value, data, line, nlines>>

\* spawn: the new env shares the pages of all descriptors.
RunSpawn(p) ==
    /\ At(p, "runcmd") /\ proc[p].argv # <<>> /\ Head(proc[p].argv) \in Programs
    /\ Fork(p, ends[p], LAMBDA c : [proc[p] EXCEPT !.at = "spawned", !.child = c],
            [NoProc EXCEPT !.at = "program", !.argv = proc[p].argv])
    /\ ran' = Append(ran, Head(proc[p].argv))
    /\ UNCHANGED <<data, line>>

\* Neither the name nor the name with ".b" can be spawned.
RunMissing(p) ==
    /\ At(p, "runcmd") /\ proc[p].argv # <<>> /\ Head(proc[p].argv) \notin Programs \cup {"cd"}
    /\ proc' = [proc EXCEPT ![p].at = "spawned", ![p].child = NoEnv]
    /\ ran' = Append(ran, Head(proc[p].argv))
    /\ UNCHANGED <<ends, env_id, free, env_exit_value, data, line, nlines>>

\* Mutant of AfterCommand: the rest of the pipeline is not waited for.
AfterCommand_NoRight(new) == Exits(new, new.r)

AfterCommand(new) == IF new.right = NoEnv THEN Exits(new, new.r) ELSE Waits(new, new.right, "right")

\* close_all, before waiting.
RunCloses(p) ==
    /\ At(p, "spawned")
    /\ ends' = [ends EXCEPT ![p] = NoEnds]
    /\ proc' = [proc EXCEPT ![p] = IF @.child = NoEnv THEN AfterCommand([@ EXCEPT !.r = 1])
                                   ELSE Waits(@, @.child, "command")]
    /\ UNCHANGED data /\ Same

ReapCommand(p) ==
    /\ At(p, "reap") /\ proc[p].after = "command"
    /\ Goes(p, AfterCommand([proc[p] EXCEPT !.r = sys_wait(proc[p].child)]))

ReapRight(p) ==
    /\ At(p, "reap") /\ proc[p].after = "right"
    /\ Goes(p, Exits(proc[p], proc[p].r))

\* A source writes and exits with 0.
ProgramWrites(p) ==
    /\ At(p, "program") /\ Head(proc[p].argv) = "source"
    /\ LET q == ends[p][1][1]
       IN  /\ q = 0 \/ Readers(q) = {} \/ data[q] < PIPE_SIZE
           /\ data' = IF q = 0 \/ Readers(q) = {} THEN data ELSE [data EXCEPT ![q] = @ + 1]
           /\ proc' = [proc EXCEPT ![p] = IF @.flag = PIPE_SIZE THEN Exits(@, 0)
                                          ELSE [proc[p] EXCEPT !.flag = @ + 1]]
    /\ UNCHANGED ends /\ Same

\* A filter copies its input: it reads until its pipe is empty, has r, writes
\* all of that, of which flag is left, and reads again.  Of a file or the
\* console it gets up to PIPE_SIZE + 1 writes at once, and then the end (-1).
\* At the end it exits with 0.
ProgramReads(p) ==
    /\ At(p, "program") /\ Head(proc[p].argv) = "filter" /\ proc[p].flag = 0
    /\ LET q == ends[p][0][1]
           r == proc[p].r
       IN  \/ /\ q # 0 /\ data[q] > 0
              /\ data' = [data EXCEPT ![q] = @ - 1]
              /\ proc' = [proc EXCEPT ![p].r = @ + 1]
           \/ /\ q # 0 /\ data[q] = 0 /\ r > 0
              /\ proc' = [proc EXCEPT ![p].flag = r, ![p].r = 0] /\ UNCHANGED data
           \/ /\ q = 0 /\ r = 0
              /\ \E n \in 0..(PIPE_SIZE + 1) : proc' = [proc EXCEPT ![p].flag = n, ![p].r = -1]
              /\ UNCHANGED data
           \/ /\ IF q = 0 THEN r = -1 ELSE r = 0 /\ data[q] = 0 /\ Writers(q) = {}
              /\ proc' = [proc EXCEPT ![p] = Exits(@, 0)] /\ UNCHANGED data
    /\ UNCHANGED ends /\ Same

\* A write into a full pipe that nobody reads falls short, and the filter
\* panics, which is an exit with 1.
ProgramCopies(p) ==
    /\ At(p, "program") /\ Head(proc[p].argv) = "filter" /\ proc[p].flag > 0
    /\ LET q == ends[p][1][1]
       IN  \/ /\ q = 0 \/ data[q] < PIPE_SIZE
              /\ data' = IF q = 0 THEN data ELSE [data EXCEPT ![q] = @ + 1]
              /\ proc' = [proc EXCEPT ![p].flag = @ - 1]
           \/ /\ q # 0 /\ data[q] = PIPE_SIZE /\ Readers(q) = {}
              /\ proc' = [proc EXCEPT ![p] = Exits(@, 1)] /\ UNCHANGED data
    /\ UNCHANGED ends /\ Same

ProgramFails(p) ==
    /\ At(p, "program") /\ Head(proc[p].argv) = "fails"
    /\ Goes(p, Exits(proc[p], 1))

-----------------------------------------------------------------------------
(***************************************************************************)
(* main, and commands in backquotes                                        *)
(***************************************************************************)

\* parseCD: cd is the first word, or the first after a ";".
parseCD(tokens) ==
    { i \in 1..Len(tokens) : tokens[i] = "cd" /\ (i = 1 \/ tokens[i - 1] = ";") } # {}

\* A line is read.
Prompt(p, l) ==
    /\ At(p, "prompt") /\ nlines < MaxLines
    /\ proc' = [proc EXCEPT ![p].tokens = l.tokens, ![p].argv = <<>>, ![p].right = NoEnv,
                            ![p].at = IF l.quote = <<>> THEN "line" ELSE "quote"]
    /\ line' = l /\ ran' = <<>> /\ nlines' = nlines + 1
    /\ UNCHANGED <<ends, env_id, free, env_exit_value, data>>

\* executeCommandAndCaptureOutput: a child runs the command into a pipe.
CaptureForks(p) ==
    /\ At(p, "quote")
    /\ WithPipe(p, LAMBDA e :
         Fork(p, e, LAMBDA c : [proc[p] EXCEPT !.at = "capture", !.child = c],
              [proc[p] EXCEPT !.at = "captured", !.tokens = line.quote, !.home = "capture"]))
    /\ UNCHANGED <<line, ran>>

CapturedStarts(p) ==
    /\ At(p, "captured")
    /\ proc' = [proc EXCEPT ![p].at = "parse"]
    /\ ends' = [ends EXCEPT ![p] = Writing(@)]
    /\ UNCHANGED data /\ Same

CaptureStarts(p) ==
    /\ At(p, "capture")
    /\ proc' = [proc EXCEPT ![p].at = "capturing"]
    /\ ends' = [ends EXCEPT ![p][3] = Closed]
    /\ UNCHANGED data /\ Same

\* The output is read up to its end, or as far as there is room for it.
CaptureReads(p) ==
    /\ At(p, "capturing") /\ data[ends[p][2][1]] > 0
    /\ data' = [data EXCEPT ![ends[p][2][1]] = @ - 1]
    /\ UNCHANGED <<proc, ends>> /\ Same

CaptureEnds(p) ==
    /\ At(p, "capturing")
    /\ LET q == ends[p][2][1] IN data[q] > 0 \/ Writers(q) = {}
    /\ proc' = [proc EXCEPT ![p] = Waits(@, @.child, "capture")]
    /\ ends' = [ends EXCEPT ![p][2] = Closed]
    /\ UNCHANGED data /\ Same

ReapCapture(p) ==
    /\ At(p, "reap") /\ proc[p].after = "capture"
    /\ Goes(p, [proc[p] EXCEPT !.at = "splice"])

\* The output takes the place of the command.  It is not terminated, so what
\* is left on the stack follows it: the line may become any line.
Splice(p, l) ==
    /\ At(p, "splice") /\ l.quote = <<>>
    /\ proc' = [proc EXCEPT ![p].tokens = l.tokens, ![p].argv = <<>>, ![p].right = NoEnv,
                            ![p].at = "line", ![p].home = "shell"]
    /\ line' = l /\ ran' = <<>>
    /\ UNCHANGED <<ends, env_id, free, env_exit_value, data, nlines>>

IsComment(tokens) == tokens # <<>> /\ Head(tokens) = "#"

\* A comment; a line with cd, which the shell runs itself; or exit.
MainSelf(p) ==
    /\ At(p, "line")
    /\ LET tokens == proc[p].tokens
       IN  \/ IsComment(tokens) /\ Goes(p, [proc[p] EXCEPT !.at = "prompt"])
           \/ ~IsComment(tokens) /\ parseCD(tokens) /\ Goes(p, [proc[p] EXCEPT !.at = "parse"])
           \/ tokens = <<"exit">> /\ Goes(p, Exits(proc[p], 0))

MainForks(p) ==
    /\ At(p, "line") /\ proc[p].tokens # <<"exit">>
    /\ ~IsComment(proc[p].tokens) /\ ~parseCD(proc[p].tokens)
    /\ Fork(p, ends[p], LAMBDA c : Waits(proc[p], c, "line"),
            [proc[p] EXCEPT !.at = "parse", !.home = "line"])
    /\ UNCHANGED <<data, line, ran>>

ReapLine(p) ==
    /\ At(p, "reap") /\ proc[p].after = "line"
    /\ Goes(p, [proc[p] EXCEPT !.at = "prompt"])

-----------------------------------------------------------------------------
Init ==
    /\ proc = [p \in Envs |-> IF p = Main THEN [NoProc EXCEPT !.at = "prompt"] ELSE NoProc]
    /\ ends = [p \in Envs |-> IF p = Main THEN [NoEnds EXCEPT ![0] = Console, ![1] = Console] ELSE NoEnds]
    /\ env_id = [p \in Envs |-> 0]
    /\ free = [i \in 1..(NENV - 1) |-> i + 1]
    /\ env_exit_value = [p \in Envs |-> 0]
    /\ data = [q \in 0..NPIPES |-> 0]
    /\ line = [quote |-> <<>>, tokens |-> <<>>]
    /\ ran = <<>> /\ nlines = 0

Parse(p) == \/ ParseEnd(p) \/ ParseSkip(p) \/ ParseComment(p) \/ ParseWord(p) \/ ParseVar(p)
            \/ ParseList(p) \/ ReapList(p) \/ ParseRedirect(p) \/ ParsePipe(p)
            \/ PipeRight(p) \/ PipeLeft(p)
Run(p) == \/ RunNothing(p) \/ RunCd(p) \/ RunSpawn(p) \/ RunMissing(p) \/ RunCloses(p)
          \/ ReapCommand(p) \/ ReapRight(p)
Program(p) == ProgramWrites(p) \/ ProgramReads(p) \/ ProgramCopies(p) \/ ProgramFails(p)
Capture(p) == \/ CaptureForks(p) \/ CapturedStarts(p) \/ CaptureStarts(p) \/ CaptureReads(p)
              \/ CaptureEnds(p) \/ ReapCapture(p) \/ \E l \in Lines : Splice(p, l)
MainStep(p) == MainSelf(p) \/ MainForks(p) \/ ReapLine(p)
Ends(p) == WaitPoll(p) \/ ExitCloses(p) \/ sys_exit(p)

Step(p) == Parse(p) \/ Run(p) \/ Program(p) \/ Capture(p) \/ MainStep(p) \/ Ends(p)

Next == \E p \in Envs : Step(p) \/ \E l \in Lines : Prompt(p, l)

\* Every runnable env runs again and again; a user need not type a line.
Spec == Init /\ [][Next]_vars /\ \A p \in Envs : WF_vars(Step(p))

-----------------------------------------------------------------------------
(***************************************************************************)
(* Properties                                                              *)
(***************************************************************************)

EndType == {Console, File, Closed} \cup ((1..NPIPES) \X {"r", "w"})

\* The free list holds the free slots, once each; a free slot has no
\* descriptors; whoever waits, waits for an env that was there.
TypeOK ==
    /\ ToSet(free) = { p \in Envs : At(p, "free") } /\ Cardinality(ToSet(free)) = Len(free)
    /\ ends \in [Envs -> [0..3 -> EndType]]
    /\ \A p \in Envs : At(p, "free") => ends[p] = NoEnds
    /\ \A p \in Envs : At(p, "wait") =>
         /\ proc[p].child[1] \in Envs \ {p}
         /\ proc[p].child[2] \in 1..env_id[proc[p].child[1]]
    /\ data \in [0..NPIPES -> 0..PIPE_SIZE]
    /\ nlines \in 0..MaxLines

\* Each of the operators ops has a command on its left: a word that is no file
\* name, with nothing between them that ends a command.  A command has been
\* read before the tokens if begun.
Breaks == {";", "a", "o", "|"}
IsCommand(tokens, i) == tokens[i] \notin Symbols /\ (i = 1 \/ tokens[i - 1] \notin {"<", ">"})
Fed(ops, tokens, begun) ==
    \A k \in 1..Len(tokens) : tokens[k] \in ops =>
      \/ begun /\ \A j \in 1..(k - 1) : tokens[j] \notin Breaks
      \/ \E i \in 1..(k - 1) : IsCommand(tokens, i) /\ \A j \in i..(k - 1) : tokens[j] \notin Breaks

\* The lines these properties are about: cd comes last, is nothing a variable
\* stands for, and has no comment before it; and every "|" has a command on its
\* left.
Sensible(tokens) ==
    /\ \A i \in 1..Len(tokens) : tokens[i] = "cd" => i = Len(tokens)
    /\ "cd" \in ToSet(tokens) => "#" \notin ToSet(tokens)
    /\ \A v \in DOMAIN Vars : Vars[v] # "cd"
    /\ Fed({"|"}, tokens, FALSE)

\* When the shell prompts again every env of the line has ended, and with it
\* every descriptor of its pipes: whatever order the sides of a pipeline, the
\* children of a list and the programs end in, and whichever slots are reused
\* while others still wait for them.
AloneAtPrompt ==
    At(Main, "prompt") /\ Sensible(line.tokens) =>
      /\ \A p \in Envs \ {Main} : At(p, "free")
      /\ ends[Main] = [NoEnds EXCEPT ![0] = Console, ![1] = Console]

\* What a list without pipelines means: the commands that run, given by the
\* results of those before them.
Result(command) == IF command \in {"source", "filter", "cd"} THEN 0 ELSE 1
Begin == [ran |-> <<>>, runs |-> TRUE, r |-> 0]
After(m, token) ==
    CASE token = ";" -> [m EXCEPT !.runs = TRUE]
      [] token = "a" -> [m EXCEPT !.runs = (m.r = 0)]
      [] token = "o" -> [m EXCEPT !.runs = (m.r # 0)]
      [] OTHER -> IF m.runs THEN [m EXCEPT !.ran = Append(m.ran, token), !.r = Result(token)] ELSE m
Meant(tokens) ==
    LET m[k \in 0..Len(tokens)] == IF k = 0 THEN Begin ELSE After(m[k - 1], tokens[k]) IN m
Meaning(tokens) == Meant(tokens)[Len(tokens)].ran

\* Commands and operators ";", && and || in turn, first a command; and no ";"
\* after a list that may have stopped: parsecmd skips it with the rest of the
\* line.
PlainList(tokens) ==
    /\ \A i \in 1..Len(tokens) : tokens[i] \in {";", "a", "o"} \/ tokens[i] \notin Symbols
    /\ tokens # <<>> => tokens[1] \notin Symbols
    /\ \A i \in 1..(Len(tokens) - 1) : tokens[i] \in {";", "a", "o"} <=> tokens[i + 1] \notin Symbols
    /\ \A i, j \in 1..Len(tokens) : i < j /\ tokens[j] = ";" => tokens[i] \notin {"a", "o"}
    /\ Sensible(tokens)

\* A list runs exactly the commands it means, in order: each env hands the
\* value of the last command it ran through exit, its slot and wait to the
\* env that decides about the next one.
ListRuns ==
    At(Main, "prompt") /\ PlainList(line.tokens) => ran = Meaning(line.tokens)

\* shell-challenge.md:1017: the command after && runs if the one before it
\* returned 0.
AndRuns ==
    At(Main, "prompt") =>
      \A i \in 2..(Len(line.tokens) - 1) :
        /\ line.tokens[i] = "a" /\ line.tokens[i - 1] = "source"
        /\ line.tokens[i - 1] \in ToSet(ran)
        => line.tokens[i + 1] \in ToSet(ran)

\* The shell prompts again after every line, unless it was told to exit: what
\* is written and the end of input travel down every pipeline, whose middle
\* sides wait for a full pipe to be read as well as for an empty one to be
\* written, and nobody waits for an env that cannot end.
LineEnds ==
    (~At(Main, "prompt") /\ Sensible(line.tokens)) ~>
      (At(Main, "prompt") \/ At(Main, "free") \/ ~Sensible(line.tokens))
=============================================================================
