------------------------------ MODULE LineEdit ------------------------------
(***************************************************************************)
(* The line editor of the shell: readline, readPast and init_history of    *)
(* user/sh.c.  A key changes the line, the cursor and the terminal row; the *)
(* arrows up and down put a line of /.mos_history in its place, found by   *)
(* the lengths the shell keeps in hisBuf.                                  *)
(*                                                                         *)
(* An editor is a record: text is buf up to its 0, so len is Len(text); i  *)
(* is the cursor; curIn the draft kept while older lines are shown; hisBuf *)
(* and curLine as in the code, hisCount is Len(hisBuf); file the contents  *)
(* of /.mos_history; row and col the terminal behind the prompt.  The      *)
(* terminal does what ANSI terminals do, on the last row of the screen,    *)
(* with the codes readline prints and with the keys themselves, which      *)
(* cons_read echoes before readline has them (user/lib/console.c:55):      *)
(* Ctrl-H moves the cursor, Ctrl-K is a vertical tab, and Ctrl-A, E, U, W  *)
(* and the delete key do nothing.                                          *)
(***************************************************************************)
EXTENDS Integers, Sequences, SequencesExt, FiniteSets, FiniteSetsExt

CONSTANTS Chars,    \* characters that can be typed, with the blank
          MaxText,  \* bound of the model on the length of an edited line
          Commands  \* lines of the history

ASSUME LineAssumption ==
    /\ " " \in Chars /\ "\n" \notin Chars /\ MaxText \in Nat
    /\ Commands \subseteq Seq(Chars)

-----------------------------------------------------------------------------
(***************************************************************************)
(* The terminal                                                            *)
(***************************************************************************)

\* The character in a column; a row is blank behind its end.
Cell(row, c) == IF c < Len(row) THEN row[c + 1] ELSE " "

Puts(e, s) ==
    [e EXCEPT !.row = [k \in 1..Max({Len(@), e.col + Len(s)}) |->
                          IF k - e.col \in 1..Len(s) THEN s[k - e.col] ELSE Cell(@, k - 1)],
              !.col = @ + Len(s)]

\* "\033[nD" and "\033[nC"; a count of 0 means 1.
Back(e, n) == [e EXCEPT !.col = @ - Max({n, 1})]
Ahead(e, n) == [e EXCEPT !.col = @ + Max({n, 1})]

\* A vertical tab goes a row down, which on the last row is a new one.
DownARow(e) == [e EXCEPT !.row = <<>>]

\* The line shown is the text, with the cursor where it is.
Shows(e) ==
    /\ \A c \in 0..(Max({Len(e.row), Len(e.text)}) - 1) : Cell(e.row, c) = Cell(e.text, c)
    /\ e.col = e.i

-----------------------------------------------------------------------------
(***************************************************************************)
(* Editing                                                                 *)
(***************************************************************************)

Blanks(n) == [k \in 1..n |-> " "]
Upto(s, n) == SubSeq(s, 1, Min({n, Len(s)}))
From(s, n) == SubSeq(s, n + 1, Len(s))

\* The text without what lies between two places, the cursor at the first.
Without(e, from, to) == [e EXCEPT !.text = Upto(@, from) \o From(@, to), !.i = from]

CtrlA(e) == IF e.i > 0 THEN [Back(e, e.i) EXCEPT !.i = 0] ELSE e

CtrlE(e) == IF e.i < Len(e.text) THEN [Ahead(e, Len(e.text) - e.i) EXCEPT !.i = Len(e.text)] ELSE e

CtrlK(e) ==
    LET echoed == DownARow(e)
        deleted == Len(e.text) - e.i
    IN  IF e.i < Len(e.text)
        THEN Back(Puts(Without(echoed, e.i, Len(e.text)), Blanks(deleted)), deleted)
        ELSE echoed

\* The row is reprinted from its beginning, but the way back is that over the
\* blanks only.
CtrlU(e) ==
    IF e.i > 0
    THEN LET new == Without(e, 0, e.i)
         IN  Back(Puts(Puts(Back(new, e.i), new.text), Blanks(e.i)), e.i)
    ELSE e

\* Where the word in front of place i begins: blanks are skipped first.
SkipBlanks(text, i) == Max({ k \in 0..i : k = 0 \/ text[k] # " " })
WordStart(text, i) == Max({ k \in 0..SkipBlanks(text, i) : k = 0 \/ text[k] = " " })

\* Mutant of CtrlW: the way back forgets the text behind the cursor.
CtrlW_Short(e) ==
    IF e.i > 0
    THEN LET new == Without(e, WordStart(e.text, e.i), e.i)
             toDel == e.i - new.i
         IN  Back(Puts(Puts(Back(new, e.i), new.text), Blanks(toDel)), toDel)
    ELSE e

CtrlW(e) ==
    IF e.i > 0
    THEN LET new == Without(e, WordStart(e.text, e.i), e.i)
             toDel == e.i - new.i
             toBack == Len(new.text) - new.i
         IN  Back(Puts(Puts(Back(new, e.i), new.text), Blanks(toDel)), toBack + toDel)
    ELSE e

\* The key for 0x7f, whose echo shows nothing.
Delete(e) ==
    IF e.i > 0
    THEN LET new == Without(e, e.i - 1, e.i)
         IN  Back(Puts(Back(new, e.i), new.text \o <<" ">>), Len(new.text) - new.i + 1)
    ELSE e

\* The key for '\b', whose echo has moved the cursor, at the beginning into the
\* prompt.  The same is printed, so that the line is shown a column too far
\* left.
CtrlH(e) == Delete(Back(e, 1))

\* The terminal has echoed the arrow, and is set back at an end of the line.
ArrowLeft(e) ==
    LET echoed == Back(e, 1) IN IF e.i > 0 THEN [echoed EXCEPT !.i = @ - 1] ELSE Ahead(echoed, 1)
ArrowRight(e) ==
    LET echoed == Ahead(e, 1)
    IN  IF e.i < Len(e.text) THEN [echoed EXCEPT !.i = @ + 1] ELSE Back(echoed, 1)

\* A character, which the terminal has echoed over what stood there.
Type(e, c) ==
    LET new == [Puts(e, <<c>>) EXCEPT !.text = Upto(@, e.i) \o <<c>> \o From(@, e.i), !.i = @ + 1]
        shown == Puts(Back(new, new.i), new.text)
        r == Len(new.text) - new.i
    IN  IF r # 0 THEN Back(shown, r) ELSE shown

-----------------------------------------------------------------------------
(***************************************************************************)
(* History                                                                 *)
(***************************************************************************)

\* Mutant of readPast: the newlines are not counted.
readPast_NoNewlines(e, target) ==
    LET spot == FoldLeft(+, 0, Upto(e.hisBuf, target))
    IN  SubSeq(e.file, spot + 1, spot + e.hisBuf[target + 1])

\* Line target of the file, counted from 0.
readPast(e, target) ==
    LET spot == FoldLeft(LAMBDA n, len : n + len + 1, 0, Upto(e.hisBuf, target))
    IN  SubSeq(e.file, spot + 1, spot + e.hisBuf[target + 1])

\* The row is wiped, then shows another text.
Wiped(e) ==
    LET home == IF e.i # 0 THEN Back(e, e.i) ELSE e
        blank == Puts(home, Blanks(Len(e.text)))
    IN  IF e.text # <<>> THEN Back(blank, Len(e.text)) ELSE blank
Replaced(e, text) == [Puts(Wiped(e), text) EXCEPT !.text = text, !.i = Len(text)]

\* The draft is kept when the newest line is left.
Kept(e) == [e EXCEPT !.curIn = IF e.curLine = Len(e.hisBuf) THEN e.text ELSE @]

ArrowUp(e) ==
    IF e.curLine = 0 THEN e
    ELSE [Replaced(Kept(e), readPast(e, e.curLine - 1)) EXCEPT !.curLine = @ - 1]

ArrowDown(e) ==
    IF e.curLine + 1 < Len(e.hisBuf)
    THEN [Replaced(e, readPast(e, e.curLine + 1)) EXCEPT !.curLine = @ + 1]
    ELSE [Replaced(e, e.curIn) EXCEPT !.curLine = Len(e.hisBuf)]

\* A new prompt, on an empty row.  curIn is not initialised.
NewPrompt(e, garbage) == [e EXCEPT !.text = <<>>, !.i = 0, !.curIn = garbage, !.row = <<>>, !.col = 0]

\* The line goes to the end of the file and its length into hisBuf.
Enter(e) ==
    LET hisBuf == Append(e.hisBuf, Len(e.text))
    IN  [e EXCEPT !.file = @ \o e.text \o <<"\n">>, !.hisBuf = hisBuf, !.curLine = Len(hisBuf)]

\* The length of every line of the file.
init_history(file) ==
    LET newlines == SetToSortSeq({ k \in 1..Len(file) : file[k] = "\n" }, <)
    IN  [k \in 1..Len(newlines) |-> newlines[k] - 1 - IF k = 1 THEN 0 ELSE newlines[k - 1]]

\* A shell that starts with this history; curLine is 0 until a line is entered.
Started(file) ==
    [text |-> <<>>, i |-> 0, curIn |-> <<>>, hisBuf |-> init_history(file), curLine |-> 0,
     file |-> file, row |-> <<>>, col |-> 0]

-----------------------------------------------------------------------------
(***************************************************************************)
(* What a key means                                                        *)
(***************************************************************************)

NoBlank(s) == \A k \in DOMAIN s : s[k] # " "

\* The text in front of the cursor without its last word and the blanks
\* behind that.
LastWordOff(left, keep) ==
    \E word, gap \in 0..Len(left) :
      LET behind == From(left, Len(keep))
      IN  /\ IsPrefix(keep, left) /\ behind = Upto(behind, word) \o Blanks(gap)
          /\ word + gap = Len(behind) /\ NoBlank(Upto(behind, word))
          /\ keep # <<>> => word > 0 /\ Last(keep) = " "

\* The text has these parts in front of the cursor and behind it.
HasText(e, left, right) == e.text = left \o right /\ e.i = Len(left)
ShowsText(e, left, right) == HasText(e, left, right) /\ Shows(e)

Editing(text, i) == [Started(<<>>) EXCEPT !.text = text, !.i = i, !.row = text, !.col = i]

\* A line with a place of the cursor, and what each key should leave: the text
\* its meaning gives, shown.  Of three keys only the text is looked at: Ctrl-U
\* in front of other text shows the cursor behind that text though it is at the
\* beginning (sh.c:550); the echo of Ctrl-H puts the line, and that of Ctrl-K
\* the row, in the wrong place (console.c:55).
EditInputs ==
    { x \in [kind : {"edit"}, text : SeqOf(Chars, MaxText), i : 0..MaxText] : x.i <= Len(x.text) }

Edited(x) ==
    LET e == Editing(x.text, x.i)
        left == Upto(x.text, x.i)
        right == From(x.text, x.i)
    IN  /\ ShowsText(CtrlA(e), <<>>, x.text) /\ ShowsText(CtrlE(e), x.text, <<>>)
        /\ HasText(CtrlK(e), left, <<>>)
        /\ HasText(CtrlU(e), <<>>, right) /\ (right = <<>> => Shows(CtrlU(e)))
        /\ \E n \in 0..x.i : /\ LastWordOff(left, Upto(left, n))
                             /\ ShowsText(CtrlW(e), Upto(left, n), right)
        /\ ShowsText(Delete(e), Upto(left, x.i - 1), right)
        /\ HasText(CtrlH(e), Upto(left, x.i - 1), right)
        /\ ShowsText(ArrowLeft(e), Upto(left, x.i - 1), From(x.text, Max({x.i - 1, 0})))
        /\ ShowsText(ArrowRight(e), Upto(x.text, x.i + 1), From(x.text, x.i + 1))
        /\ \A c \in Chars : ShowsText(Type(e, c), Append(left, c), right)

Times(Op(_), e, n) == FoldLeft(LAMBDA x, k : Op(x), e, [k \in 1..n |-> k])
TypeAll(e, text) == FoldLeft(Type, e, text)
FileOf(lines) == FlattenSeq([k \in DOMAIN lines |-> Append(lines[k], "\n")])

\* A shell that finds the old lines in the file and is then given the new ones;
\* a draft is typed and the cursor moved back, then the arrow up pressed n times.
HistoryInputs ==
    { x \in [kind : {"history"}, old : SeqOf(Commands, 2), new : SeqOf(Commands, 2), draft : Commands,
             back : 0..MaxText, garbage : Commands, n : 1..4] :
        x.new # <<>> /\ x.back <= Len(x.draft) /\ x.n <= Len(x.old) + Len(x.new) }

AfterLines(x) ==
    Times(ArrowLeft,
          TypeAll(FoldLeft(LAMBDA e, text : NewPrompt(Enter(TypeAll(e, text)), x.garbage),
                           Started(FileOf(x.old)), x.new),
                  x.draft),
          x.back)

\* The n-th last line is shown, the first one if there are fewer, and as many
\* times down brings the draft back.
Recalled(x) ==
    LET lines == x.old \o x.new
        up == Times(ArrowUp, AfterLines(x), x.n)
    IN  /\ ShowsText(up, lines[Len(lines) - x.n + 1], <<>>)
        /\ ShowsText(Times(ArrowUp, up, Len(lines)), lines[1], <<>>)
        /\ ShowsText(Times(ArrowDown, up, x.n), x.draft, <<>>)
=============================================================================
