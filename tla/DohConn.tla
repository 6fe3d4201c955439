-------------------------------- MODULE DohConn --------------------------------
(***************************************************************************)
(* DohConn of crates/dns/src/transport/doh.rs over H2Sender of crates/http/ *)
(* src/h2.rs: every exchange rides a stream of its own, a driver task owns *)
(* the connection, and one timer covers the exchange from the hand-over to *)
(* the end of the body.                                                    *)
(*                                                                         *)
(* hyper and the peer are the environment: the driver opens streams as the *)
(* peer allows, learns of a GOAWAY, or is gone.                            *)
(***************************************************************************)
EXTENDS StreamSetup, FiniteSets

CONSTANTS
    Exchanges,      \* the calls of exchange
    TooLong,        \* those whose GET URI would exceed what http::Uri takes
    Window,         \* how many the actor keeps open
    MaxStreams,     \* the peer's MAX_CONCURRENT_STREAMS
    BodyLimit       \* max_response_bytes, in pieces of a body

ASSUME DohAssumption ==
    /\ IsFiniteSet(Exchanges) /\ TooLong \subseteq Exchanges
    /\ Window \in Nat \ {0} /\ MaxStreams \in Nat \ {0} /\ BodyLimit \in Nat

VARIABLES
    phase,      \* of each exchange
    ok2xx,      \* the status of its response
    body,       \* pieces of the body that have been read
    ended,      \* the body is complete
    driver,     \* the task behind H2Sender: "alive", "goaway", "gone"
    outcome     \* what exchange returned

exchange == <<phase, ok2xx, body, ended, outcome>>
dohVars == <<setup, exchange, driver>>

Phases == {"idle", "begun", "queued", "sent", "head", "done"}
Outcomes == {"response", "protocol", "timeout", "closed", "io"}

DohTypeOK ==
    /\ SetupTypeOK
    /\ phase \in [Exchanges -> Phases]
    /\ ok2xx \in [Exchanges -> BOOLEAN]
    /\ body \in [Exchanges -> 0..BodyLimit]
    /\ ended \in [Exchanges -> BOOLEAN]
    /\ driver \in {"alive", "goaway", "gone"}
    /\ outcome \in [Exchanges -> Outcomes \cup {"none"}]

DohInit ==
    /\ SetupInit
    /\ phase = [q \in Exchanges |-> "idle"]
    /\ ok2xx = [q \in Exchanges |-> FALSE]
    /\ body = [q \in Exchanges |-> 0]
    /\ ended = [q \in Exchanges |-> FALSE]
    /\ driver = "alive"
    /\ outcome = [q \in Exchanges |-> "none"]

Live == {q \in Exchanges : phase[q] \notin {"idle", "done"}}
Streams == {q \in Exchanges : phase[q] \in {"sent", "head"}}

To(q, p) == phase' = [phase EXCEPT ![q] = p]
Return(q, o) == To(q, "done") /\ outcome' = [outcome EXCEPT ![q] = o]

-------------------------------------------------------------------------------
(* exchange and H2Sender::send.                                              *)

Begin(q) ==
    /\ stage = "open"
    /\ phase[q] = "idle"
    /\ Cardinality(Live) < Window
    /\ To(q, "begun")
    /\ UNCHANGED <<setup, ok2xx, body, ended, outcome, driver>>

\* assemble; then the request goes to the driver, which takes none after a GOAWAY.
Assemble(q) ==
    /\ phase[q] = "begun"
    /\ IF q \in TooLong THEN Return(q, "protocol")
       ELSE IF driver # "alive" THEN Return(q, "closed")
       ELSE To(q, "queued") /\ UNCHANGED outcome
    /\ UNCHANGED <<setup, ok2xx, body, ended, driver>>

\* The status is looked at when the body has been read, then the DNS message: its
\* header and its question may be what they should be or not.
ReadResponse(q) ==
    /\ phase[q] = "head" /\ ended[q]
    /\ \E o \in (IF ok2xx[q] THEN {"response", "protocol"} ELSE {"protocol"}) : Return(q, o)
    /\ UNCHANGED <<setup, ok2xx, body, ended, driver>>

\* Limited: one piece too many.
BodyTooLarge(q) ==
    /\ phase[q] = "head" /\ ~ended[q] /\ body[q] = BodyLimit /\ driver # "gone"
    /\ Return(q, "protocol")
    /\ UNCHANGED <<setup, ok2xx, body, ended, driver>>

\* ... the timer looks at nothing else.
TimerElapses_AnyDriver(q) ==
    /\ phase[q] \in {"queued", "sent", "head"} /\ ~ended[q]
    /\ Return(q, "timeout")
    /\ UNCHANGED <<setup, ok2xx, body, ended, driver>>

\* ... only the wait for the response is under the timer.
TimerElapses_HeadOnly(q) ==
    /\ phase[q] \in {"queued", "sent"} /\ driver # "gone"
    /\ Return(q, "timeout")
    /\ UNCHANGED <<setup, ok2xx, body, ended, driver>>

\* timeout() polls the exchange first: a body that is complete, and the errors of a
\* driver that is gone, come before the timer.
TimerElapses(q) ==
    /\ phase[q] \in {"queued", "sent", "head"} /\ ~ended[q] /\ driver # "gone"
    /\ Return(q, "timeout")
    /\ UNCHANGED <<setup, ok2xx, body, ended, driver>>

\* map_hyper: closed, cancelled and timed out connections are ConnectionClosed, a
\* reset stream or a socket error is Io.
SendFails(q) ==
    /\ phase[q] \in {"queued", "sent"}
    /\ \/ driver # "alive" /\ Return(q, "closed")
       \/ (phase[q] = "sent" \/ driver # "alive") /\ Return(q, "io")
    /\ UNCHANGED <<setup, ok2xx, body, ended, driver>>

\* An error in the middle of the body is Io, even if the connection has gone.
BodyFails(q) ==
    /\ phase[q] = "head" /\ ~ended[q]
    /\ Return(q, "io")
    /\ UNCHANGED <<setup, ok2xx, body, ended, driver>>

-------------------------------------------------------------------------------
(* The driver and the peer.                                                  *)

OpenStream(q) ==
    /\ phase[q] = "queued" /\ driver = "alive"
    /\ Cardinality(Streams) < MaxStreams
    /\ To(q, "sent")
    /\ UNCHANGED <<setup, ok2xx, body, ended, outcome, driver>>

Headers(q) ==
    /\ phase[q] = "sent" /\ driver # "gone"
    /\ To(q, "head")
    /\ ok2xx' \in {[ok2xx EXCEPT ![q] = b] : b \in BOOLEAN}
    /\ UNCHANGED <<setup, body, ended, outcome, driver>>

Data(q) ==
    /\ phase[q] = "head" /\ ~ended[q] /\ driver # "gone"
    /\ \/ body[q] < BodyLimit /\ body' = [body EXCEPT ![q] = @ + 1] /\ UNCHANGED ended
       \/ ended' = [ended EXCEPT ![q] = TRUE] /\ UNCHANGED body
    /\ UNCHANGED <<setup, phase, ok2xx, outcome, driver>>

\* GOAWAY: is_closed says so, open streams may still be answered.
GoAway ==
    /\ stage = "open" /\ driver = "alive"
    /\ driver' = "goaway"
    /\ UNCHANGED <<setup, exchange>>

\* The socket fails, a keep-alive ping is not answered, the peer is done.
DriverExits ==
    /\ stage = "open" /\ driver # "gone"
    /\ driver' = "gone"
    /\ UNCHANGED <<setup, exchange>>

-------------------------------------------------------------------------------
\* What the exchange comes to without the peer: its timer, and the errors of a driver
\* that has gone.
Proceeds(q) ==
    \/ Assemble(q) \/ ReadResponse(q) \/ TimerElapses(q)
    \/ driver = "gone" /\ (SendFails(q) \/ BodyFails(q))

DohNext ==
    \/ SetupNext /\ UNCHANGED <<exchange, driver>>
    \/ \E q \in Exchanges :
         \/ Begin(q) \/ Assemble(q) \/ ReadResponse(q) \/ TimerElapses(q)
         \/ SendFails(q) \/ BodyFails(q)
         \/ OpenStream(q) \/ Headers(q) \/ Data(q) \/ BodyTooLarge(q)
    \/ GoAway \/ DriverExits

DohSpec == DohInit /\ [][DohNext]_dohVars

\* Timers elapse and tasks are polled; nothing is assumed of the peer.
FairDohSpec == DohSpec /\ \A q \in Exchanges : WF_dohVars(Proceeds(q))

-------------------------------------------------------------------------------
(* Properties.                                                               *)

\* Every exchange ends, whatever the peer does: the one timer covers the wait for a
\* stream, the response and its body.
DohExchangesEnd == []<>(Live = {})

\* A DoH connection is a Connection: "closed" is said once a GOAWAY or the end of the
\* driver is known, "timeout" not when nothing can be answered any more; errors of
\* one stream count with those of a query that was not sent.
State(q) ==
    CASE phase[q] = "idle" -> "idle"
      [] phase[q] = "done" -> IF outcome[q] = "io" THEN "unsent" ELSE outcome[q]
      [] OTHER -> "open"

DohState == [q \in Exchanges |-> State(q)]

DohConnection == INSTANCE Connection WITH
                     state <- DohState,
                     closing <- driver # "alive",
                     shut <- driver = "gone"

DohConnSpec == DohConnection!Spec
===============================================================================
