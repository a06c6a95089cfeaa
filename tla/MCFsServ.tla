------------------------------ MODULE MCFsServ ------------------------------
(* An instance of FsServ: two files of the root directory. *)
EXTENDS FsServ

MCPaths == {<<"a">>, <<"b">>}
=============================================================================
