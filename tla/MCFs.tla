-------------------------------- MODULE MCFs --------------------------------
(* An instance of Fs: two names, and the paths /a, /b and /a/b.  Every tree
   that fsformat is given is an initial state of its own, in which the server
   does nothing. *)
EXTENDS FsFormat

VARIABLE input  \* a tree, or "none" if the server runs

MCPaths == {<<"a">>, <<"b">>, <<"a", "b">>}

Inputs == [kind : {"none"}] \cup [kind : {"tree"}, tree : Trees]

MCInit == Init /\ input \in Inputs
MCNext == input.kind = "none" /\ Next /\ UNCHANGED input
MCSpec == MCInit /\ [][MCNext]_<<vars, input>>

\* Of the image fsformat makes of a tree, whatever files and directories that
\* has: the server finds each of them under its path, with its contents, and
\* nothing else; no block has two owners, and the bitmap marks exactly the
\* blocks that have one.
ImageSound == input.kind = "tree" => Sound(input.tree)
=============================================================================
