------------------------------ MODULE Connection ------------------------------
(***************************************************************************)
(* What one connection of the load generator promises the actor that       *)
(* drives it (trait Connection, crates/dns/src/transport/mod.rs): every    *)
(* exchange that is begun is answered with exactly one result, at most     *)
(* Window exchanges are open at once, and the result tells the truth about *)
(* the connection: ConnectionClosed is reported only of a connection that  *)
(* takes no more queries, Timeout only of one that may still answer.       *)
(*                                                                         *)
(* This is the specification the Correlator, and with it Do53 and DoT, and *)
(* DohConn are shown to implement.                                         *)
(***************************************************************************)
EXTENDS FiniteSets, Naturals

CONSTANTS
    Exchanges,      \* the calls of Connection::exchange
    Window          \* how many of them the actor keeps open at once

\* Ok(DnsResponse), Err(Protocol), Err(Timeout), Err(ConnectionClosed) of a
\* connection that went away while the call waited, and the error of a query
\* that could not be handed to the transport at all, or that was lost alone.
Outcomes == {"response", "protocol", "timeout", "closed", "unsent"}

VARIABLES
    state,          \* of each exchange: "idle", "open" or its outcome
    closing,        \* it takes no more queries
    shut            \* the reading side has ended

vars == <<state, closing, shut>>

Init ==
    /\ state = [q \in Exchanges |-> "idle"]
    /\ closing = FALSE
    /\ shut = FALSE

Open == {q \in Exchanges : state[q] = "open"}

Begin(q) ==
    /\ state[q] = "idle"
    /\ Cardinality(Open) < Window
    /\ state' = [state EXCEPT ![q] = "open"]
    /\ UNCHANGED <<closing, shut>>

End(q, outcome) ==
    /\ state[q] = "open"
    /\ outcome = "timeout" => ~shut
    /\ outcome = "closed" => closing
    /\ state' = [state EXCEPT ![q] = outcome]
    /\ UNCHANGED <<closing, shut>>

GoAway ==
    /\ ~closing
    /\ closing' = TRUE
    /\ UNCHANGED <<state, shut>>

Shut ==
    /\ ~shut
    /\ closing' = TRUE
    /\ shut' = TRUE
    /\ UNCHANGED state

Next ==
    \/ \E q \in Exchanges : Begin(q)
    \/ \E q \in Exchanges, outcome \in Outcomes : End(q, outcome)
    \/ GoAway
    \/ Shut

Spec == Init /\ [][Next]_vars
===============================================================================
