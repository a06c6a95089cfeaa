------------------------------ MODULE MCShell ------------------------------
(* An instance of Shell: lists, pipelines and both together.  Every input of
   the line editor and of the pure parts of starting a program is an initial
   state of its own, in which the shell does nothing. *)
EXTENDS Shell, Launch, LineEdit

VARIABLE input  \* an input of LineEdit or Launch, or "none" if the shell runs

L(tokens) == [quote |-> <<>>, tokens |-> tokens]

MCLines == {
    L(<<"source", "a", "missing", "o", "fails", "o", "source">>),
    L(<<"fails", "a", "source", "a", "source", "o", "source">>),
    L(<<"source", "o", "fails", "o", "fails", "a", "source">>),
    L(<<"missing", "a", "source", ";", "source">>),
    L(<<"source", ";", "cd">>),
    L(<<"source", "|", "filter", "|", "filter">>),
    L(<<"source", "|", "fails", "a", "source">>),
    L(<<"$", "v", "|", "filter", ";", "source", "#", "x">>),
    L(<<"source", "<", "x", ">", "x", ";", "$", "u">>),
    L(<<"fails", "|", "source", "a", "filter">>),
    L(<<"missing", "|", "filter">>),
    L(<<"filter", "|", "fails">>),
    L(<<"source", ";", "source", "|", "filter">>),
    L(<<"cd">>),
    L(<<"#", "x">>),
    L(<<"exit">>),
    [quote |-> <<"source", ";", "fails">>, tokens |-> <<>>] }
MCCommands == {<<>>, <<"x">>, <<"x", " ">>}
MCVars == [name \in {"v"} |-> "source"]

Inputs == [kind : {"none"}] \cup PathInputs \cup SegmentInputs \cup StackInputs
            \cup EditInputs \cup HistoryInputs

MCInit == Init /\ input \in Inputs
MCNext == input.kind = "none" /\ Next /\ UNCHANGED input
MCSpec == /\ MCInit /\ [][MCNext]_<<vars, input>>
          /\ input.kind = "none" => \A p \in Envs : WF_vars(Step(p))

\* A relative path that begins with any number of "." and ".." means, from
\* every working directory, the absolute path these lead to, with the names
\* that follow (parse_rpath).
PathsResolve == input.kind = "path" => Resolves(input)

\* For every address and both sizes: after a segment is loaded its bytes hold
\* the file, then zeros up to the size in memory, on exactly the pages they
\* need, unless the segment starts within a page that its file part does not
\* fill; that page is mapped twice, and then the bytes of the file are lost, or
\* without any the last page may be missing (elf_load_seg).
SegmentLoaded ==
    input.kind = "segment" => (Loaded(input) <=> (MappedTwice(input) => NothingLost(input)))

\* A stack that is accepted lies within its page: argc and argv, the array and
\* the strings follow one another without overlap, every pointer leads to its
\* own string, and a program whose arguments fit with their words is started
\* (init_stack).
StackBuilt == input.kind = "stack" => Built(input)

\* Whatever the line and wherever the cursor, every key leaves the text its
\* meaning gives.  After every key but Ctrl-K, Ctrl-U and Ctrl-H the terminal,
\* which got only echoes, codes and reprinted parts, shows that text with its
\* cursor where the next character would go; after Ctrl-U at the end of the
\* line it does too (readline with cons_read).
LineShown == input.kind = "edit" => Edited(input)

\* Once a line has been entered, arrow up n times shows the n-th last line of
\* the history, those from before the shell started included and the first
\* one if there are fewer, whatever draft stood there; as many times down
\* brings the draft back (readline, readPast, init_history).
HistoryRecalled == input.kind = "history" => Recalled(input)
=============================================================================
