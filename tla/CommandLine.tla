------------------------------ MODULE CommandLine ------------------------------
(***************************************************************************)
(* One `wiresurge` process (crates/cli/src/lib.rs dispatch): it is run on  *)
(* a file, RunFile, or loads a server, LoadPlan, and the other of the two  *)
(* never begins.  The commands that only read or write the workspace are   *)
(* in RequestStore.                                                        *)
(***************************************************************************)
EXTENDS RunFile, LoadPlan

\* The command line the parser has accepted is of one of the two.
CliInit ==
    \/ FileInit /\ PlanOf(NotGiven, "idle")
    \/ PlanInit /\ FileOf(NotGiven, "idle")

CliNext ==
    \/ FileNext /\ UNCHANGED planVars
    \/ PlanNext /\ UNCHANGED fileVars

CliSpec == CliInit /\ [][CliNext]_<<fileVars, planVars>>
===============================================================================
