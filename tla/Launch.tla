------------------------------- MODULE Launch -------------------------------
(***************************************************************************)
(* The pure parts of starting a program: the path of a relative name       *)
(* (parse_rpath of user/lib/file.c), the pages of a segment                *)
(* (lib/elfloader.c with the mappers of kern/env.c and user/lib/spawn.c)   *)
(* and the first stack page (init_stack of user/lib/spawn.c).              *)
(*                                                                         *)
(* Text is a sequence of characters, memory a function from addresses to   *)
(* bytes; a byte is named by its place in the file, and 0 is a zero byte.  *)
(***************************************************************************)
EXTENDS Integers, Sequences, SequencesExt, FiniteSets, FiniteSetsExt

CONSTANTS PAGE_SIZE,  \* bytes of a page, a multiple of a word
          WORD,       \* bytes of a pointer
          MaxSegment, \* bound of the model on addresses and sizes of segments
          MaxArg      \* bound of the model on the length of an argument

ASSUME LaunchAssumption ==
    /\ WORD \in Nat \ {0} /\ PAGE_SIZE \in Nat \ {0} /\ PAGE_SIZE % WORD = 0
    /\ MaxSegment \in Nat /\ MaxArg \in Nat

Least(a, b) == IF a < b THEN a ELSE b
ROUND(a, n) == ((a + n - 1) \div n) * n
ROUNDDOWN(a, n) == (a \div n) * n

-----------------------------------------------------------------------------
(***************************************************************************)
(* parse_rpath                                                             *)
(***************************************************************************)

\* Mutant of Up: the root loses its slash.
Up_Empty(path) ==
    IF Len(path) <= 1 THEN path
    ELSE SubSeq(path, 1, Max({ i \in 1..(Len(path) - 1) : path[i] = "/" }) - 1)

\* The path without its last name; "/" stays.
Slash(path) == Max({ i \in 1..(Len(path) - 1) : path[i] = "/" })
Up(path) == IF Len(path) <= 1 THEN path
            ELSE SubSeq(path, 1, IF Slash(path) = 1 THEN 1 ELSE Slash(path) - 1)

Join(path, rest) ==
    path \o (IF rest # <<>> /\ Last(path) # "/" THEN <<"/">> ELSE <<>>) \o rest

\* Characters of old that a "." or ".." takes, with the one behind it.
Taken(old, n) == IF Len(old) = n THEN n ELSE n + 1

\* One leading "." or ".." of x.old; nothing if there is none.
Dots(x) ==
    IF x.old = <<>> \/ Head(x.old) # "." THEN x
    ELSE IF Len(x.old) > 1 /\ x.old[2] = "."
    THEN [path |-> Up(x.path), old |-> SubSeq(x.old, Taken(x.old, 2) + 1, Len(x.old))]
    ELSE [x EXCEPT !.old = SubSeq(@, Taken(@, 1) + 1, Len(@))]

parse_rpath(old, cwd) ==
    IF Head(old) = "/" THEN old
    ELSE LET x == FoldLeft(LAMBDA y, c : Dots(y), [path |-> cwd, old |-> old], old)
         IN  Join(x.path, x.old)

\* The text of a path of these names, absolute or relative.
RelativeText(names) ==
    FoldLeft(LAMBDA text, name : IF text = <<>> THEN name ELSE text \o <<"/">> \o name, <<>>, names)
AbsoluteText(names) == <<"/">> \o RelativeText(names)

\* Where "." and ".." lead from a directory.
Walk(names, dots) ==
    FoldLeft(LAMBDA at, dot : IF dot = <<".", ".">> /\ at # <<>> THEN Front(at) ELSE at, names, dots)

\* A path: a working directory, dots, and names behind them.  A name may not
\* begin with a dot and "." or ".." not follow a name, which parse_rpath takes
\* differently (file.c:37, 71).
PathInputs ==
    { x \in [kind : {"path"}, cwd : SeqOf({<<"a">>, <<"b", "c">>}, 2),
             dots : SeqOf({<<".">>, <<".", ".">>}, 3), names : SeqOf({<<"a">>, <<"b", ".">>}, 2)] :
        x.dots \o x.names # <<>> }

Resolves(x) ==
    parse_rpath(RelativeText(x.dots \o x.names), AbsoluteText(x.cwd)) =
      AbsoluteText(Walk(x.cwd, x.dots) \o x.names)

-----------------------------------------------------------------------------
(***************************************************************************)
(* elf_load_seg                                                            *)
(***************************************************************************)

\* The page of va becomes a new one: zeros, and len bytes of the file from
\* src on at the offset.  A src of -1 is NULL.
map_page(mem, va, offset, src, len) ==
    LET base == ROUNDDOWN(va, PAGE_SIZE)
    IN  [addr \in DOMAIN mem \cup base..(base + PAGE_SIZE - 1) |->
            IF addr \notin base..(base + PAGE_SIZE - 1) THEN mem[addr]
            ELSE IF src >= 0 /\ addr - base - offset \in 0..(len - 1)
            THEN src + addr - base - offset + 1 ELSE 0]

\* Mutant of Content: the last page is left out if the file ends in it.
Content_WholePages(i, bin_size) == { k \in i..(bin_size - PAGE_SIZE) : (k - i) % PAGE_SIZE = 0 }

\* Where the pages of the first loop start, and those of the second.
Content(i, bin_size) == { k \in i..(bin_size - 1) : (k - i) % PAGE_SIZE = 0 }
Zeros(i, bin_size, sgsize) ==
    LET past == i + PAGE_SIZE * Cardinality(Content(i, bin_size))
    IN  { k \in past..(sgsize - 1) : (k - past) % PAGE_SIZE = 0 }

InOrder(S) == SetToSortSeq(S, <)

elf_load_seg(va, bin_size, sgsize) ==
    LET offset == va - ROUNDDOWN(va, PAGE_SIZE)
        head == Least(bin_size, PAGE_SIZE - offset)
        i == IF offset = 0 THEN 0 ELSE head
        first == IF offset = 0 THEN <<>> ELSE map_page(<<>>, va, offset, 0, head)
        content == FoldLeft(LAMBDA mem, k : map_page(mem, va + k, 0, k, Least(bin_size - k, PAGE_SIZE)),
                            first, InOrder(Content(i, bin_size)))
    IN  FoldLeft(LAMBDA mem, k : map_page(mem, va + k, 0, -1, 0),
                 content, InOrder(Zeros(i, bin_size, sgsize)))

\* A segment: its address, its size in memory, and how much of it is file.
SegmentInputs ==
    { x \in [kind : {"segment"}, va : 0..MaxSegment, sgsize : 0..MaxSegment, bin_size : 0..MaxSegment] :
        x.bin_size <= x.sgsize }

\* The first page is mapped twice: the segment starts within it, the file part
\* does not fill it, and the second loop begins where that part ends
\* (elfloader.c:46, 54).  The second mapping is all zeros, and the pages behind
\* it are counted from there.
MappedTwice(x) ==
    LET offset == x.va % PAGE_SIZE
    IN  offset # 0 /\ x.bin_size < Least(PAGE_SIZE - offset, x.sgsize)

\* Nothing is lost by that only if there are no bytes of the file, and the
\* pages counted from va reach the last one.
NothingLost(x) ==
    x.bin_size = 0 /\ (x.va % PAGE_SIZE) + ((x.sgsize - 1) % PAGE_SIZE) < PAGE_SIZE

\* The bytes of the file, then zeros, on the pages these need and that of va.
Loaded(x) ==
    LET mem == elf_load_seg(x.va, x.bin_size, x.sgsize)
        bytes == 0..(x.sgsize - 1)
    IN  /\ \A k \in bytes : /\ x.va + k \in DOMAIN mem
                            /\ mem[x.va + k] = IF k < x.bin_size THEN k + 1 ELSE 0
        /\ \A addr \in DOMAIN mem :
             \E k \in bytes \cup {0} : ROUNDDOWN(addr, PAGE_SIZE) = ROUNDDOWN(x.va + k, PAGE_SIZE)

-----------------------------------------------------------------------------
(***************************************************************************)
(* init_stack                                                              *)
(***************************************************************************)

Total(lens) == FoldLeft(+, 0, lens)

\* Mutant of Fits: argc and argv are forgotten.
Fits_ArgsOnly(lens) ==
    ROUND(Total(lens) + Len(lens), WORD) + WORD * (Len(lens) + 1) <= PAGE_SIZE

Fits(lens) == ROUND(Total(lens) + Len(lens), WORD) + WORD * (Len(lens) + 3) <= PAGE_SIZE

\* The stack page, by offset: strings lists where each string starts, args
\* where the array starts and what each of its words points to, sp where argc
\* lies, with argv in the word above it.  The word behind the last argument
\* points to the last string's end.
init_stack(lens) ==
    LET argc == Len(lens)
        tot == Total(lens) + argc
        strings == PAGE_SIZE - tot
        args == PAGE_SIZE - ROUND(tot, WORD) - WORD * (argc + 1)
        start == [k \in 1..(argc + 1) |-> strings + Total(SubSeq(lens, 1, k - 1)) + k - 1]
    IN  [strings |-> strings, args |-> args,
         words |-> [start EXCEPT ![argc + 1] = @ - 1],
         argv |-> args, argc |-> argc, sp |-> args - 2 * WORD]

\* The lengths of the arguments of a program.
StackInputs == [kind : {"stack"}, lens : SeqOf(0..MaxArg, 3)]

Built(x) ==
    LET s == init_stack(x.lens)
        argc == Len(x.lens)
    IN  /\ Fits(x.lens) =>
             /\ 0 <= s.sp /\ s.sp % WORD = 0 /\ s.sp + 2 * WORD = s.args
             /\ s.args + WORD * (argc + 1) <= s.strings
             /\ \A k \in 1..argc : s.words[k] >= s.strings /\ s.words[k] + x.lens[k] < PAGE_SIZE
             /\ \A k \in 1..(argc - 1) : s.words[k] + x.lens[k] < s.words[k + 1]
        /\ Total(x.lens) + argc + WORD * (argc + 4) <= PAGE_SIZE => Fits(x.lens)
=============================================================================
