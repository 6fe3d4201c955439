----------------------------- MODULE MCLoadEngine -----------------------------
(***************************************************************************)
(* Instances of LoadEngine: two connections share a handful of indexes.    *)
(***************************************************************************)
EXTENDS LoadEngine

CONSTANTS a1, a2

MCActors == {a1, a2}
===============================================================================
