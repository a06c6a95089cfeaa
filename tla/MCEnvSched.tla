----------------------------- MODULE MCEnvSched -----------------------------
(* Instances of EnvSched for TLC. *)
EXTENDS EnvSched

MCBootPri == <<1, 2>>
=============================================================================
