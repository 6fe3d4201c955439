------------------------------ MODULE WorkBudget ------------------------------
(***************************************************************************)
(* What a load run promises of the work it hands out (docs/load-engine.md, *)
(* "Ownership And Scheduling"): one budget of query indexes is shared by   *)
(* all connections and not multiplied by their number, no index is issued  *)
(* twice or before its slot of the rate cap, a refusal is final, and once  *)
(* the run is stopped nobody asks for work again, so each connection       *)
(* issues one more at most.                                                *)
(*                                                                         *)
(* This is the specification the LoadEngine is shown to implement.         *)
(***************************************************************************)
EXTENDS Naturals

CONSTANTS
    Actors,         \* the connections
    Indexes,        \* the indexes of the budget, possibly without a last one
    Paced           \* whether a rate cap gives every index its slot

VARIABLES
    issued,         \* the indexes issued so far
    asking,         \* the connections waiting for the next index
    refused,        \* those that were told there is no more
    stopped,        \* the run is cancelled
    now             \* the current slot

vars == <<issued, asking, refused, stopped, now>>

Init ==
    /\ issued = {}
    /\ asking = {}
    /\ refused = {}
    /\ stopped = FALSE
    /\ now = 0

Ask(a) ==
    /\ ~stopped
    /\ a \notin asking \cup refused
    /\ asking' = asking \cup {a}
    /\ UNCHANGED <<issued, refused, stopped, now>>

Issue(a, i) ==
    /\ a \in asking
    /\ i \in Indexes \ issued
    /\ Paced => i <= now
    /\ issued' = issued \cup {i}
    /\ asking' = asking \ {a}
    /\ UNCHANGED <<refused, stopped, now>>

Refuse(a) ==
    /\ a \in asking
    /\ asking' = asking \ {a}
    /\ refused' = refused \cup {a}
    /\ UNCHANGED <<issued, stopped, now>>

Stop == ~stopped /\ stopped' = TRUE /\ UNCHANGED <<issued, asking, refused, now>>

Tick == now' = now + 1 /\ UNCHANGED <<issued, asking, refused, stopped>>

\* (The index is looked for among those issued after the step, since a budget
\* without a last index cannot be enumerated.)
Next ==
    \/ \E a \in Actors : Ask(a) \/ Refuse(a)
    \/ \E a \in Actors, i \in issued' : Issue(a, i)
    \/ Stop
    \/ Tick

Spec == Init /\ [][Next]_vars
===============================================================================
