------------------------------ MODULE LoadCommand ------------------------------
(***************************************************************************)
(* `wiresurge load` around the engine: the slots the actors publish their  *)
(* counters in, the sampler that adds them up on a watch channel for the   *)
(* renderer to print, the join of the actors with those that panicked, and *)
(* the exit code (crates/engine/src/load.rs, crates/cli/src/lib.rs         *)
(* load_command).                                                          *)
(*                                                                         *)
(* LoadEngine's Signal is the signal arm of drive_with_signal: its select  *)
(* is not biased, so a run that has ended may still be cancelled by a      *)
(* signal that came in the same instant, and its RunReturns is the end of  *)
(* run_load_with_progress.                                                 *)
(***************************************************************************)
EXTENDS LoadEngine, FiniteSetsExt

CONSTANT MaxFaults      \* bound: actors that may panic or lose their connection

ASSUME FaultAssumption == MaxFaults \in Nat /\ IsFiniteSet(Actors)

VARIABLES
    goodput,    \* of each actor's answers, those with NOERROR
    panicked,   \* actors whose task has panicked
    published,  \* the worker slots
    sampler,    \* the sampler task; "none" without progress
    unread,     \* slots it has not read for the sample it is taking
    draft,      \* the sample so far
    abort,      \* the run has aborted it
    channel,    \* the last value sent on the watch channel
    exit        \* the exit code

progress == <<published, sampler, unread, draft, abort, channel>>
commandVars == <<vars, goodput, panicked, progress, exit>>

Nothing == [sent |-> 0, ended |-> 0, in_flight |-> 0]
Frame(totals, last) == [totals |-> totals, final |-> last]
NoFrame == Frame(Nothing, FALSE)
Totals == [sent : Nat, ended : Nat, in_flight : Nat]
Frames == [totals : Totals, final : BOOLEAN]

CommandTypeOK ==
    /\ LoadTypeOK
    /\ goodput \in [Actors -> Nat]
    /\ panicked \in SUBSET Actors
    /\ published \in [Actors -> Totals]
    /\ sampler \in {"none", "waiting", "reading", "stopped"}
    /\ unread \in SUBSET Actors
    /\ draft \in Totals
    /\ abort \in BOOLEAN
    /\ channel \in Frames
    /\ exit \in {"none", "0", "1", "signal"}

CommandInit ==
    /\ Init
    /\ goodput = [a \in Actors |-> 0]
    /\ panicked = {}
    /\ published = [a \in Actors |-> Nothing]
    /\ sampler \in {"none", "waiting"}
    /\ unread = {}
    /\ draft = Nothing
    /\ abort = FALSE
    /\ channel = NoFrame
    /\ exit = "none"

Sum(f) == MapThenSumSet(LAMBDA a : f[a], Actors)

\* What an actor's recorder says, with the queries it keeps open.
Reading(rec, open) ==
    [sent |-> rec["sent"],
     ended |-> rec["received"] + rec["unanswered"] + rec["conn_errors"],
     in_flight |-> open]

Plus(s, t) == [k \in DOMAIN s |-> s[k] + t[k]]

-------------------------------------------------------------------------------
(* The actors and their slots.                                               *)

\* ... the counters of the tick before.
Publish_StaleCounters(a, reading) ==
    published' = IF sampler = "none" THEN published
                 ELSE [published EXCEPT ![a].in_flight = reading.in_flight]

Publish(a, reading) ==
    published' = IF sampler = "none" THEN published ELSE [published EXCEPT ![a] = reading]

\* Its interval ticks while the actor selects.
PublishTick(a) ==
    /\ pc[a] = "selecting" /\ sampler # "none"
    /\ Publish(a, Reading(recorder[a], Cardinality(Open(a))))
    /\ UNCHANGED <<vars, goodput, panicked, sampler, unread, draft, abort, channel, exit>>

ActorEnds(a) ==
    /\ ConnectFails(a) \/ Drain(a)
    /\ Publish(a, Reading(recorder'[a], 0))
    /\ UNCHANGED <<goodput, panicked, sampler, unread, draft, abort, channel, exit>>

\* Any other step of an actor or its environment.
ActorGoesOn(a) ==
    /\ \/ Connected(a) \/ Ask(a) \/ StopFilling(a) \/ Take(a) \/ PassGate(a)
       \/ \E i \in queued[a] : Poll(a, i)
       \/ SeeCancel(a) \/ GraceEnds(a)
    /\ UNCHANGED <<goodput, panicked, progress, exit>>

CollectOne(a) ==
    /\ \E i \in Open(a), r \in Results :
         /\ Collect(a, i, r)
         /\ \/ UNCHANGED goodput
            \/ r = "received" /\ goodput' = [goodput EXCEPT ![a] = @ + 1]
    /\ UNCHANGED <<panicked, progress, exit>>

FaultLeft == Cardinality(panicked) + Cardinality({a \in Actors : dead[a]}) < MaxFaults

\* A panic takes the recorder along: the join counts one connection error instead.
Panics(a) ==
    /\ FaultLeft
    /\ pc[a] \notin {"done", "failed"}
    /\ Goto(a, "failed")
    /\ panicked' = panicked \cup {a}
    /\ recorder' = [recorder EXCEPT ![a] = [c \in Counters |-> IF c = "conn_errors" THEN 1 ELSE 0]]
    /\ goodput' = [goodput EXCEPT ![a] = 0]
    /\ queued' = [queued EXCEPT ![a] = {}]
    /\ flight' = [flight EXCEPT ![a] = {}]
    /\ UNCHANGED <<seq, cancelled, clock, noMoreWork, slot, dead, issued, late, result,
                   progress, exit>>

Environment ==
    /\ Signal \/ Tick \/ (FaultLeft /\ \E a \in Actors : ConnectionCloses(a))
    /\ UNCHANGED <<goodput, panicked, progress, exit>>

-------------------------------------------------------------------------------
(* sample_progress.  Its only awaits are at the head of the loop: an abort   *)
(* does not interrupt a sample.  The slots are locked one by one, in order.   *)

StartSample ==
    /\ sampler = "waiting" /\ ~abort /\ result = "running"
    /\ sampler' = "reading"
    /\ unread' = Actors
    /\ draft' = Nothing
    /\ UNCHANGED <<vars, goodput, panicked, published, abort, channel, exit>>

ReadSlot ==
    /\ sampler = "reading" /\ unread # {}
    /\ LET a == CHOOSE a \in unread : TRUE
       IN  /\ draft' = Plus(draft, published[a])
           /\ unread' = unread \ {a}
    /\ UNCHANGED <<vars, goodput, panicked, published, sampler, abort, channel, exit>>

SendSample ==
    /\ sampler = "reading" /\ unread = {}
    /\ channel' = Frame(draft, FALSE)
    /\ sampler' = "waiting"
    /\ draft' = Nothing
    /\ UNCHANGED <<vars, goodput, panicked, published, unread, abort, exit>>

SamplerStops ==
    /\ sampler = "waiting" /\ (cancelled \/ abort)
    /\ sampler' = "stopped"
    /\ UNCHANGED <<vars, goodput, panicked, published, unread, draft, abort, channel, exit>>

-------------------------------------------------------------------------------
(* The end of run_load_with_progress, and the exit code.                     *)

AbortSampler ==
    /\ Joined /\ sampler # "none" /\ ~abort
    /\ abort' = TRUE
    /\ UNCHANGED <<vars, goodput, panicked, published, sampler, unread, draft, channel,
                   exit>>

\* ... the aborted task is not awaited.
SamplerGone_NotAwaited == sampler = "none" \/ abort

SamplerGone == sampler \in {"none", "stopped"}

FinalTotals ==
    LET f == [a \in Actors |-> Reading(recorder[a], 0)] IN
    [k \in DOMAIN Nothing |-> Sum([a \in Actors |-> f[a][k]])]

RunEndsHere ==
    /\ SamplerGone
    /\ RunReturns
    /\ IF sampler = "none" THEN UNCHANGED channel
       ELSE channel' = Frame(FinalTotals, TRUE)
    /\ UNCHANGED <<goodput, panicked, published, sampler, unread, draft, abort, exit>>

Aggregate(c) == Sum([a \in Actors |-> recorder[a][c]])

\* ... a run that sent nothing is a success.
ExitCode_OnlySent ==
    IF cancelled THEN "signal"
    ELSE IF Sum(goodput) = 0 /\ Aggregate("sent") > 0 THEN "1" ELSE "0"

ExitCode ==
    IF cancelled THEN "signal"
    ELSE IF /\ Sum(goodput) = 0
            /\ Aggregate("sent") > 0 \/ (Aggregate("conn_errors") > 0 /\ Count # 0)
    THEN "1" ELSE "0"

Exits ==
    /\ result # "running" /\ exit = "none"
    /\ exit' = ExitCode
    /\ UNCHANGED <<vars, goodput, panicked, progress>>

-------------------------------------------------------------------------------
SamplerStep == ReadSlot \/ SendSample \/ SamplerStops

CommandNext ==
    \/ \E a \in Actors :
         \/ ActorGoesOn(a) \/ ActorEnds(a) \/ CollectOne(a)
         \/ Panics(a) \/ PublishTick(a)
    \/ Environment
    \/ StartSample \/ SamplerStep
    \/ AbortSampler \/ RunEndsHere \/ Exits

CommandSpec == CommandInit /\ [][CommandNext]_commandVars

\* The runtime runs every task that can go on; that queries are answered, and that
\* a sample is due, is not assumed.
CommandFairness ==
    /\ \A a \in Actors : WF_commandVars(ActorGoesOn(a) \/ ActorEnds(a))
    /\ WF_commandVars(SamplerStep)
    /\ WF_commandVars(AbortSampler \/ RunEndsHere \/ Exits)

FairCommandSpec == CommandSpec /\ CommandFairness

-------------------------------------------------------------------------------
(* Properties.                                                               *)

\* Nothing follows the final frame on the channel: the sampler, which may be in
\* the middle of a sample when the run aborts it, has stopped before.
FinalLast == result # "running" /\ sampler # "none" => channel.final

Failed == {a \in Actors \ panicked : pc[a] = "failed"}

\* The numbers of a sample add up, whenever its slots were read: what was sent has
\* ended or is in flight.  A connection that failed counts one error for no query,
\* and after a signal queries are dropped.
SamplesAddUp ==
    ~cancelled /\ ~channel.final =>
        LET t == channel.totals IN
        t.sent <= t.ended + t.in_flight /\ t.ended + t.in_flight <= t.sent + Cardinality(Failed)

\* The exit code tells the truth: the signal's if and only if the run was cancelled;
\* 0 only with an answer a recorder still has, or if nothing was tried and nothing
\* failed; 1 only if no recorder has such an answer.
ExitTruthful ==
    exit # "none" =>
        /\ exit = "signal" <=> cancelled
        /\ exit = "1" => \A a \in Actors : goodput[a] = 0
        /\ exit = "0" /\ Count # 0 =>
               \/ \E a \in Actors : goodput[a] > 0
               \/ Failed \cup panicked = {} /\ AllIssued = {}

\* A signal ends the command, with its progress, even if no query is ever answered
\* and an actor panics.
CommandEnds == cancelled ~> exit # "none"
===============================================================================
