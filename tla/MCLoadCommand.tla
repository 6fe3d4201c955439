----------------------------- MODULE MCLoadCommand -----------------------------
(***************************************************************************)
(* Instances of LoadCommand: two connections, with and without progress.   *)
(***************************************************************************)
EXTENDS LoadCommand

CONSTANTS a1, a2

MCActors == {a1, a2}
===============================================================================
