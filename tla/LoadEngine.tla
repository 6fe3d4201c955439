------------------------------ MODULE LoadEngine ------------------------------
(***************************************************************************)
(* The load engine, crates/engine/src/load.rs: one actor per connection    *)
(* (run_actor), all of them taking query indexes from one shared counter   *)
(* (WorkSource::next), a signal that cancels the run, and the run that     *)
(* ends when every actor has (run_load_with_progress).                     *)
(*                                                                         *)
(* An actor is one task: it does one thing at a time, and what it does     *)
(* between two looks at shared state (the counter, the cancellation token, *)
(* the connection) is one step.  The queries it has pushed advance only    *)
(* while it polls them, that is while it is selecting or in its grace      *)
(* period.  Of a connection the module keeps what trait Connection says:   *)
(* exchanges end with a result, in any order, and it may close for good.   *)
(*                                                                         *)
(* Time is counted in slots of the rate cap (1 / qps).                     *)
(***************************************************************************)
EXTENDS Integers, FiniteSets

CONSTANTS
    Actors,         \* the connections, -c
    InFlight,       \* an actor's window: min(caps, in_flight), at least 1
    Count,          \* queries to issue, or None
    Paced,          \* whether there is a rate cap (a RateGate)
    Budget,         \* slots before the deadline, or None; paced runs without a
                    \* deadline have those of MAX_RUN_SECS
    ReportsClosed,  \* is_closed of the transport: DoH looks, the others say false
    Horizon,        \* bound: the clock stops here, past the deadline
    None

ASSUME LoadAssumption ==
    /\ InFlight \in Nat \ {0}
    /\ Paced \in BOOLEAN /\ ReportsClosed \in BOOLEAN
    /\ Count \in Nat \cup {None} /\ Budget \in Nat \cup {None} /\ None \notin Nat
    /\ IF Paced THEN Budget # None ELSE Count # None \/ Budget # None
    /\ Horizon \in Nat /\ (Budget # None => Budget <= Horizon)

VARIABLES
    seq,            \* the shared counter: the next index
    cancelled,      \* the cancellation token
    clock,          \* the current slot
    pc,             \* where each actor is
    noMoreWork,     \* next() has returned None
    slot,           \* the index an actor waits for at the rate gate
    dead,           \* its connection is permanently unusable
    queued,         \* its queries pushed and not yet polled: not sent
    flight,         \* its queries polled and not finished
    recorder,       \* its counters
    issued,         \* not in the code: the indexes of the queries it pushed
    late,           \* not in the code: how many of them after its connection closed
    result          \* of the run

work == <<queued, flight, recorder, issued, late>>
vars == <<seq, cancelled, clock, pc, noMoreWork, slot, dead, queued, flight,
          recorder, issued, late, result>>

\* LoadRecorder; "unanswered" stands for timeouts and errors, which differ by name.
Counters == {"sent", "received", "unanswered", "conn_errors"}

\* The counters record() knows of a query's result.
Results == Counters \ {"sent"}

LoadTypeOK ==
    /\ seq \in Nat
    /\ cancelled \in BOOLEAN
    /\ clock \in 0..Horizon
    /\ pc \in [Actors -> {"connecting", "filling", "taking", "gated", "selecting",
                          "grace", "draining", "done", "failed"}]
    /\ noMoreWork \in [Actors -> BOOLEAN]
    /\ slot \in [Actors -> Nat]
    /\ dead \in [Actors -> BOOLEAN]
    /\ queued \in [Actors -> SUBSET Nat]
    /\ flight \in [Actors -> SUBSET Nat]
    /\ \A a \in Actors : Cardinality(queued[a] \cup flight[a]) <= InFlight
    /\ recorder \in [Actors -> [Counters -> Nat]]
    /\ issued \in [Actors -> SUBSET Nat]
    /\ late \in [Actors -> Nat]
    /\ result \in {"running", "cancelled", "completed"}

Init ==
    /\ seq = 0
    /\ cancelled = FALSE
    /\ clock = 0
    /\ pc = [a \in Actors |-> "connecting"]
    /\ noMoreWork = [a \in Actors |-> FALSE]
    /\ slot = [a \in Actors |-> 0]
    /\ dead = [a \in Actors |-> FALSE]
    /\ queued = [a \in Actors |-> {}]
    /\ flight = [a \in Actors |-> {}]
    /\ recorder = [a \in Actors |-> [c \in Counters |-> 0]]
    /\ issued = [a \in Actors |-> {}]
    /\ late = [a \in Actors |-> 0]
    /\ result = "running"

Open(a) == queued[a] \cup flight[a]
IsClosed(a) == ReportsClosed /\ dead[a]
Goto(a, l) == pc' = [pc EXCEPT ![a] = l]

-------------------------------------------------------------------------------
(* run_actor: connecting.  The select is biased towards the cancellation.    *)

Connected(a) ==
    /\ pc[a] = "connecting"
    /\ ~cancelled
    /\ Goto(a, "filling")
    /\ UNCHANGED <<seq, cancelled, clock, noMoreWork, slot, dead, work, result>>

\* Cancelled, refused or timed out: one connection error, and the actor is over.
ConnectFails(a) ==
    /\ pc[a] = "connecting"
    /\ Goto(a, "failed")
    /\ recorder' = [recorder EXCEPT ![a]["conn_errors"] = @ + 1]
    /\ UNCHANGED <<seq, cancelled, clock, noMoreWork, slot, dead, queued, flight,
                   issued, late, result>>

-------------------------------------------------------------------------------
(* run_actor: filling the window.                                            *)

\* Slips the properties are checked against are named <Definition>_<slip> and
\* stand before the definition they alter; nothing else uses them.

\* ... the window is not looked at.
MayFill_NoWindow(a) == ~cancelled /\ ~IsClosed(a) /\ ~noMoreWork[a]

\* ... nor whether the connection has closed.
MayFill_IgnoreClosed(a) ==
    Cardinality(Open(a)) < InFlight /\ ~cancelled /\ ~noMoreWork[a]

\* The condition of the fill loop.
MayFill(a) ==
    Cardinality(Open(a)) < InFlight /\ ~cancelled /\ ~IsClosed(a) /\ ~noMoreWork[a]

Ask(a) ==
    /\ pc[a] = "filling"
    /\ MayFill(a)
    /\ Goto(a, "taking")
    /\ UNCHANGED <<seq, cancelled, clock, noMoreWork, slot, dead, work, result>>

\* ... only a cancelled actor, or one whose connection closed, may stop.
Finished_ForgetsNoMoreWork(a) == Open(a) = {} /\ (cancelled \/ IsClosed(a))

\* Nothing in flight and nothing to come.
Finished(a) == Open(a) = {} /\ (noMoreWork[a] \/ cancelled \/ IsClosed(a))

\* With the window empty and none of the three, the loop starts again.
StopFilling(a) ==
    /\ pc[a] = "filling"
    /\ ~MayFill(a)
    /\ IF Finished(a) THEN Goto(a, "draining")
       ELSE IF Open(a) = {} THEN UNCHANGED pc
       ELSE Goto(a, "selecting")
    /\ UNCHANGED <<seq, cancelled, clock, noMoreWork, slot, dead, work, result>>

\* next() returns Some: on_sent, and the exchange is pushed, unpolled.
Push(a, i) ==
    /\ queued' = [queued EXCEPT ![a] = @ \cup {i}]
    /\ recorder' = [recorder EXCEPT ![a]["sent"] = @ + 1]
    /\ issued' = [issued EXCEPT ![a] = @ \cup {i}]
    /\ late' = [late EXCEPT ![a] = @ + (IF dead[a] THEN 1 ELSE 0)]
    /\ Goto(a, "filling")
    /\ UNCHANGED <<flight, noMoreWork>>

\* next() returns None, for good.
Refused(a) ==
    /\ noMoreWork' = [noMoreWork EXCEPT ![a] = TRUE]
    /\ Goto(a, "filling")
    /\ UNCHANGED work

-------------------------------------------------------------------------------
(* WorkSource::next.                                                         *)

\* The counter after seq.fetch_add(1).
FetchAdd == seq + 1

\* ... the last index of the count is refused.
OverCount_OneShort(i) == Count # None /\ i + 1 >= Count

\* The tests that need no wait: the count, then the slot or the deadline.
OverCount(i) == Count # None /\ i >= Count

OverBudget(i) ==
    IF Paced THEN i >= Budget ELSE Budget # None /\ clock >= Budget

Take(a) ==
    /\ pc[a] = "taking"
    /\ seq' = FetchAdd
    /\ \/ /\ OverCount(seq) \/ OverBudget(seq)
          /\ Refused(a)
          /\ UNCHANGED slot
       \/ /\ ~OverCount(seq) /\ ~OverBudget(seq) /\ ~Paced
          /\ Push(a, seq)
          /\ UNCHANGED slot
       \/ /\ ~OverCount(seq) /\ ~OverBudget(seq) /\ Paced
          /\ slot' = [slot EXCEPT ![a] = seq]
          /\ Goto(a, "gated")
          /\ UNCHANGED <<noMoreWork, work>>
    /\ UNCHANGED <<cancelled, clock, dead, result>>

\* ... the query of a connection that closed meanwhile is thrown away.
PassGate_DropWhenDead(a) ==
    /\ pc[a] = "gated"
    /\ \/ clock >= slot[a] /\ ~cancelled /\ ~dead[a] /\ Push(a, slot[a])
       \/ (cancelled \/ dead[a]) /\ Refused(a)
    /\ UNCHANGED <<seq, cancelled, clock, slot, dead, result>>

\* ... nobody waits for the slot.
PassGate_NoWait(a) ==
    /\ pc[a] = "gated"
    /\ \/ ~cancelled /\ Push(a, slot[a])
       \/ cancelled /\ Refused(a)
    /\ UNCHANGED <<seq, cancelled, clock, slot, dead, result>>

\* gate.wait: the slot comes or the run is cancelled, which is then looked at.
\* The index of a cancelled wait is lost.
PassGate(a) ==
    /\ pc[a] = "gated"
    /\ \/ clock >= slot[a] /\ ~cancelled /\ Push(a, slot[a])
       \/ cancelled /\ Refused(a)
    /\ UNCHANGED <<seq, cancelled, clock, slot, dead, result>>

-------------------------------------------------------------------------------
(* run_actor: the select, the grace period, the drain.                       *)

\* The first poll of a query: on a live connection it goes out.
Poll(a, i) ==
    /\ pc[a] \in {"selecting", "grace"}
    /\ i \in queued[a]
    /\ ~dead[a]
    /\ queued' = [queued EXCEPT ![a] = @ \ {i}]
    /\ flight' = [flight EXCEPT ![a] = @ \cup {i}]
    /\ UNCHANGED <<seq, cancelled, clock, pc, noMoreWork, slot, dead, recorder,
                   issued, late, result>>

\* What an exchange may return: ConnectionClosed only once the connection is
\* closed, and of a query first polled after that only an error.
Returns(a, i) ==
    IF i \in queued[a] THEN IF dead[a] THEN Results \ {"received"} ELSE {}
    ELSE IF dead[a] THEN Results ELSE Results \ {"conn_errors"}

\* ... a closed connection is reported once, not for every query it takes along.
Record_ClosedNotCounted(a, r) ==
    recorder' = IF r = "conn_errors" THEN recorder
                ELSE [recorder EXCEPT ![a][r] = @ + 1]

Record(a, r) == recorder' = [recorder EXCEPT ![a][r] = @ + 1]

\* A query finishes; during the grace period the actor keeps waiting for more.
Collect(a, i, r) ==
    /\ pc[a] \in {"selecting", "grace"}
    /\ i \in Open(a)
    /\ r \in Returns(a, i)
    /\ Record(a, r)
    /\ queued' = [queued EXCEPT ![a] = @ \ {i}]
    /\ flight' = [flight EXCEPT ![a] = @ \ {i}]
    /\ Goto(a, IF pc[a] = "selecting" THEN "filling" ELSE "grace")
    /\ UNCHANGED <<seq, cancelled, clock, noMoreWork, slot, dead, issued, late, result>>

SeeCancel(a) ==
    /\ pc[a] = "selecting"
    /\ cancelled
    /\ Goto(a, "grace")
    /\ UNCHANGED <<seq, cancelled, clock, noMoreWork, slot, dead, work, result>>

\* ... all in-flight queries are awaited.
GraceEnds_AwaitAll(a) ==
    /\ pc[a] = "grace"
    /\ Open(a) = {}
    /\ Goto(a, "draining")
    /\ UNCHANGED <<seq, cancelled, clock, noMoreWork, slot, dead, work, result>>

\* No query is left, or CANCEL_GRACE is over.
GraceEnds(a) ==
    /\ pc[a] = "grace"
    /\ Goto(a, "draining")
    /\ UNCHANGED <<seq, cancelled, clock, noMoreWork, slot, dead, work, result>>

\* conn.drain is bounded by the grace too and nothing polls the queries left:
\* they are dropped with the actor, uncounted.
Drain(a) ==
    /\ pc[a] = "draining"
    /\ Goto(a, "done")
    /\ queued' = [queued EXCEPT ![a] = {}]
    /\ flight' = [flight EXCEPT ![a] = {}]
    /\ UNCHANGED <<seq, cancelled, clock, noMoreWork, slot, dead, recorder,
                   issued, late, result>>

-------------------------------------------------------------------------------
(* The run and its environment.                                              *)

\* Ctrl-C or SIGTERM, until the run has returned.
Signal ==
    /\ ~cancelled
    /\ result = "running"
    /\ cancelled' = TRUE
    /\ UNCHANGED <<seq, clock, pc, noMoreWork, slot, dead, work, result>>

\* GOAWAY, EOF, a socket error.
ConnectionCloses(a) ==
    /\ pc[a] \notin {"connecting", "done", "failed"}
    /\ ~dead[a]
    /\ dead' = [dead EXCEPT ![a] = TRUE]
    /\ UNCHANGED <<seq, cancelled, clock, pc, noMoreWork, slot, work, result>>

Tick ==
    /\ clock < Horizon
    /\ clock' = clock + 1
    /\ UNCHANGED <<seq, cancelled, pc, noMoreWork, slot, dead, work, result>>

Joined == \A a \in Actors : pc[a] \in {"done", "failed"}

\* run_load returns once it has joined every actor.
RunReturns ==
    /\ result = "running"
    /\ Joined
    /\ result' = IF cancelled THEN "cancelled" ELSE "completed"
    /\ UNCHANGED <<seq, cancelled, clock, pc, noMoreWork, slot, dead, work>>

-------------------------------------------------------------------------------
Collects(a) == \E i \in Open(a), r \in Results : Collect(a, i, r)

\* What the actor does by itself, the answers to its queries apart.
Advances(a) ==
    \/ Connected(a) \/ ConnectFails(a)
    \/ Ask(a) \/ StopFilling(a) \/ Take(a) \/ PassGate(a)
    \/ \E i \in queued[a] : Poll(a, i)
    \/ SeeCancel(a) \/ GraceEnds(a) \/ Drain(a)

Next ==
    \/ \E a \in Actors : Advances(a) \/ Collects(a) \/ ConnectionCloses(a)
    \/ Signal
    \/ Tick
    \/ RunReturns

Spec == Init /\ [][Next]_vars

\* The runtime polls every actor that can go on: connecting, the gate, the grace
\* and the drain are all bounded by timers.  That queries end is not assumed.
Fairness ==
    /\ \A a \in Actors : WF_vars(Advances(a))
    /\ WF_vars(Tick)
    /\ WF_vars(RunReturns)

FairSpec == Spec /\ Fairness

-------------------------------------------------------------------------------
(* Properties.                                                               *)

AllIssued == UNION {issued[a] : a \in Actors}

\* How many indexes the count and the slots leave.
Limit ==
    IF Count = None THEN Budget
    ELSE IF ~Paced \/ Count <= Budget THEN Count ELSE Budget

\* Whether they leave a last one: a run that only its deadline bounds, with no
\* rate cap to give an index its slot, has as many as it gets to before then.
Bounded == Count # None \/ Paced

\* The indexes of the budget.
Indexes == IF Bounded THEN 0..(Limit - 1) ELSE Nat

\* One budget for all connections, every index issued once and not before its
\* slot, no work asked for after a refusal or the signal: seq.fetch_add, the tests of next()
\* and the guards of the fill loop together implement WorkBudget.
Work == INSTANCE WorkBudget WITH
            issued <- AllIssued,
            asking <- {a \in Actors : pc[a] \in {"taking", "gated"}},
            refused <- {a \in Actors : noMoreWork[a]},
            stopped <- cancelled,
            now <- clock

WorkSpec == Work!Spec

\* The counters of a connection add up: what it sent was answered, timed out or
\* failed, or is still open; only a signal makes queries disappear uncounted.
\* (A connection error is either the failed connect or that of a query.)
Ended(a) ==
    recorder[a]["received"] + recorder[a]["unanswered"] + recorder[a]["conn_errors"]

Accounted ==
    \A a \in Actors :
        /\ recorder[a]["sent"] = Cardinality(issued[a])
        /\ pc[a] \notin {"failed", "done"} =>
               recorder[a]["sent"] = Ended(a) + Cardinality(Open(a))
        /\ pc[a] = "done" => Ended(a) <= recorder[a]["sent"]
        /\ pc[a] = "done" /\ ~cancelled => recorder[a]["sent"] = Ended(a)

\* A run that completes with a connection still usable has issued its whole
\* budget: no index is lost with a connection that fails or closes, which would
\* leave the count short.  Without a rate cap it may also have met its deadline,
\* and must have when nothing else bounds it.
BudgetUsed ==
    result = "completed" /\ (\E a \in Actors : pc[a] = "done" /\ ~dead[a]) =>
        \/ Bounded /\ AllIssued = Indexes
        \/ ~Paced /\ Budget # None /\ clock >= Budget

\* A connection that closes stops receiving work, but for the query its actor
\* was asking for: it does not eat the budget of the healthy ones.
ClosedStopsFeeding == \A a \in Actors : late[a] <= 1

\* A signal ends the run, even if no query is ever answered.
CancelEndsRun == cancelled ~> result # "running"

\* If queries end, so does the run, with or without a signal.
RunEnds == (\A a \in Actors : WF_vars(Collects(a))) => <>(result # "running")

\* next() returns None once the "deadline passed", "so actors stop requesting work
\* exactly at the deadline": who asks after it is not admitted.
StopsAtDeadline ==
    [][\A a \in Actors :
          Budget # None /\ clock >= Budget /\ pc[a] = "taking" /\ pc'[a] # "taking"
              => noMoreWork'[a]]_vars

\* The rate gate "schedules index n at start + n / qps": a query whose slot has
\* come is not held back unsent while its actor waits for a later slot.
SentWhenScheduled ==
    \A a \in Actors : pc[a] = "gated" => \A i \in queued[a] : slot[a] <= i
===============================================================================
