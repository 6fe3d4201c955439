--------------------------------- MODULE LeftOut ---------------------------------
(***************************************************************************)
(* The value of an option or a part of a file that is left out: None in    *)
(* the code.                                                               *)
(***************************************************************************)
CONSTANT NotGiven
===============================================================================
