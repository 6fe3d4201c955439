--------------------------- MODULE LoadCommandProofs ---------------------------
(***************************************************************************)
(* Proofs about LoadCommand, for any number of connections, any window,    *)
(* count, rate and deadline, and any number of panics: the samples the     *)
(* renderer prints add up, the final one is the last, and the exit code    *)
(* tells the truth.                                                        *)
(***************************************************************************)
EXTENDS LoadCommand, LoadEngineProofs, Induction

-------------------------------------------------------------------------------
(* The final frame.                                                          *)

\* When the run has returned no sampler is left that could write after it.
FinalInv ==
    result # "running" =>
        /\ sampler \in {"none", "stopped"}
        /\ sampler # "none" => channel.final

LEMMA FinalInvStep == FinalInv /\ [CommandNext]_commandVars => FinalInv'
<1> SUFFICES ASSUME FinalInv, [CommandNext]_commandVars PROVE FinalInv'
  OBVIOUS
<1>1. ASSUME UNCHANGED <<result, sampler, channel>> PROVE FinalInv'
  BY <1>1 DEF FinalInv
<1>2. ASSUME NEW a \in Actors, Advances(a) \/ Collects(a) PROVE UNCHANGED result
  BY <1>2 DEF Advances, Collects, Connected, ConnectFails, Ask, StopFilling, Take, PassGate,
              Poll, SeeCancel, GraceEnds, Drain, Collect
<1>3. ASSUME NEW a \in Actors,
             ActorGoesOn(a) \/ ActorEnds(a) \/ CollectOne(a) \/ Panics(a) \/ PublishTick(a)
      PROVE  FinalInv'
  <2>1. UNCHANGED result
    BY <1>2, <1>3 DEF ActorGoesOn, ActorEnds, CollectOne, Panics, PublishTick, Advances,
                      Collects, vars
  <2>2. UNCHANGED <<sampler, channel>>
    BY <1>3 DEF ActorGoesOn, ActorEnds, CollectOne, Panics, PublishTick, progress
  <2> QED BY <1>1, <2>1, <2>2
<1>4. CASE Environment
  BY <1>1, <1>4 DEF Environment, Signal, Tick, ConnectionCloses, progress
<1>5. CASE StartSample \/ ReadSlot \/ SendSample \/ SamplerStops
  BY <1>5 DEF StartSample, ReadSlot, SendSample, SamplerStops, FinalInv, vars
<1>6. CASE AbortSampler \/ Exits
  BY <1>1, <1>6 DEF AbortSampler, Exits, vars, progress
<1>7. CASE RunEndsHere
  BY <1>7 DEF RunEndsHere, SamplerGone, Frame, FinalInv
<1>8. CASE UNCHANGED commandVars
  BY <1>1, <1>8 DEF commandVars, vars, progress
<1> QED BY <1>3, <1>4, <1>5, <1>6, <1>7, <1>8 DEF CommandNext, SamplerStep

\* The last frame on the channel is the final one: the sampler, which an abort does
\* not interrupt, has stopped before the run sends it.
THEOREM FinalIsLast == CommandSpec => []FinalLast
<1>1. CommandInit => FinalInv
  BY DEF CommandInit, Init, FinalInv
<1>2. FinalInv => FinalLast
  BY DEF FinalInv, FinalLast
<1> QED BY <1>1, <1>2, FinalInvStep, PTL DEF CommandSpec

-------------------------------------------------------------------------------
(* The engine, with actors that panic.                                       *)

\* Who has not panicked is balanced, as in the engine alone.
EngineInv ==
    /\ BudgetInv /\ Shaped
    /\ panicked \subseteq Actors
    /\ \A a \in panicked : pc[a] = "failed"
    /\ \A a \in Actors \ panicked : Balanced(a)

\* A step of an actor, whose task therefore has not panicked.
LEMMA ActorStepEngine ==
    ASSUME EngineInv, NEW a \in Actors, Advances(a) \/ Collects(a), UNCHANGED panicked
    PROVE  EngineInv' /\ a \notin panicked /\ OnlyOf(a)
<1>1. pc[a] # "failed"
  BY DEF Advances, Collects, Connected, ConnectFails, Ask, StopFilling, Take, PassGate,
         Poll, SeeCancel, GraceEnds, Drain, Collect
<1>2. a \notin panicked
  BY <1>1 DEF EngineInv
<1>3. Balanced(a)' /\ OnlyOf(a)
  BY <1>2, ActorBalances DEF EngineInv
<1>4. BudgetInv'
  BY BudgetInvStep DEF EngineInv, Next
<1>5. \A b \in Actors \ panicked' : Balanced(b)'
  BY <1>3, OthersBalanced DEF EngineInv, OnlyOf
<1>6. \A b \in panicked' : pc'[b] = "failed"
  BY <1>2, <1>3 DEF EngineInv, OnlyOf
<1> QED BY <1>2, <1>3, <1>4, <1>5, <1>6 DEF EngineInv, OnlyOf

LEMMA EngineInvStep == EngineInv /\ [CommandNext]_commandVars => EngineInv'
<1> SUFFICES ASSUME EngineInv, [CommandNext]_commandVars PROVE EngineInv'
  OBVIOUS
<1>1. ASSUME NEW a \in Actors, ActorGoesOn(a) \/ ActorEnds(a) \/ CollectOne(a) PROVE EngineInv'
  BY <1>1, ActorStepEngine DEF ActorGoesOn, ActorEnds, CollectOne, Advances, Collects
<1>2. ASSUME NEW a \in Actors, Panics(a) PROVE EngineInv'
  <2>0. /\ BudgetInv /\ Shaped /\ DOMAIN pc = Actors /\ seq \in Nat
        /\ \A b \in Actors \ panicked : Balanced(b)
    BY DEF EngineInv, BudgetInv, BudgetTypeOK
  <2>1. BudgetInv'
    <3>1. Moves(a, "failed")
      BY <1>2, <2>0 DEF Panics, Goto, Moves
    <3> QED BY <2>0, <3>1, MovesInv
  <2>2. Shaped'
    BY <1>2, <2>0 DEF Panics, Shaped
  <2>3. \A b \in Actors \ {a} :
           /\ pc'[b] = pc[b] /\ queued'[b] = queued[b] /\ flight'[b] = flight[b]
           /\ recorder'[b] = recorder[b] /\ issued'[b] = issued[b]
    BY <1>2, <2>0 DEF Panics, Goto, Shaped
  <2>4. \A b \in Actors \ panicked' : Balanced(b)'
    BY <1>2, <2>0, <2>3, OthersBalanced DEF Panics
  <2>5. panicked' = panicked \cup {a} /\ pc'[a] = "failed"
    BY <1>2, <2>0 DEF Panics, Goto
  <2> QED BY <2>1, <2>2, <2>3, <2>4, <2>5 DEF EngineInv
<1>3. ASSUME UNCHANGED <<work, pc, panicked>>, cancelled => cancelled', [Next]_vars
      PROVE  EngineInv'
  <2>1. BudgetInv'
    BY <1>3, BudgetInvStep DEF EngineInv
  <2>2. UNCHANGED <<pc, queued, flight, recorder, issued>>
    BY <1>3 DEF work
  <2>3. \A b \in Actors \ panicked' : Balanced(b)'
    BY <1>3, <2>2, OthersBalanced DEF EngineInv
  <2>4. Shaped'
    BY <2>2 DEF Shaped, EngineInv
  <2> QED BY <1>3, <2>1, <2>3, <2>4 DEF EngineInv
<1>4. CASE Environment
  BY <1>3, <1>4 DEF Environment, Signal, Tick, ConnectionCloses, Next
<1>5. CASE RunEndsHere
  BY <1>3, <1>5 DEF RunEndsHere, RunReturns, Next
<1>6. CASE UNCHANGED <<vars, panicked>>
  <2>1. UNCHANGED <<work, pc, panicked, cancelled>>
    BY <1>6 DEF vars, work
  <2> QED BY <1>3, <1>6, <2>1
<1>7. ASSUME NEW a \in Actors, PublishTick(a) PROVE UNCHANGED <<vars, panicked>>
  BY <1>7 DEF PublishTick
<1>8. CASE \/ StartSample \/ ReadSlot \/ SendSample \/ SamplerStops \/ AbortSampler \/ Exits
           \/ UNCHANGED commandVars
  BY <1>6, <1>8 DEF StartSample, ReadSlot, SendSample, SamplerStops, AbortSampler, Exits,
                    commandVars
<1> QED BY <1>1, <1>2, <1>4, <1>5, <1>6, <1>7, <1>8 DEF CommandNext, SamplerStep

LEMMA EngineInvInit == CommandInit => EngineInv
<1> SUFFICES ASSUME CommandInit PROVE EngineInv
  OBVIOUS
<1>1. AccountInv
  BY AccountInvInit DEF CommandInit
<1> QED BY <1>1, AccountByActor DEF CommandInit, EngineInv

-------------------------------------------------------------------------------
(* The samples.                                                              *)

\* What a total may be off by: at most one error for each of n failed connects.
AddsUp(t, n) == t.sent <= t.ended + t.in_flight /\ t.ended + t.in_flight <= t.sent + n

\* A slot adds up, whenever its actor wrote it last; a sample does, over the slots
\* it has read; and so does what is on the channel.
SampleInv ==
    /\ unread \subseteq Actors
    /\ published \in [Actors -> Totals]
    /\ draft \in Totals
    /\ ~channel.final => channel.totals \in Totals
    /\ ~cancelled =>
          /\ \A a \in Actors : AddsUp(published[a], IF a \in Failed THEN 1 ELSE 0)
          /\ sampler = "reading" => AddsUp(draft, Cardinality(Failed \ unread))
          /\ ~channel.final => AddsUp(channel.totals, Cardinality(Failed))

LEMMA FailedFinite ==
    ASSUME NEW S, S \subseteq Actors
    PROVE  IsFiniteSet(S) /\ Cardinality(S) \in Nat
BY FaultAssumption, FS_Subset, FS_CardinalityType

\* Later failures only leave more room.
LEMMA AddsUpMonotone ==
    ASSUME NEW t \in Totals, NEW m \in Nat, NEW n \in Nat, m <= n, AddsUp(t, m)
    PROVE  AddsUp(t, n)
BY DEF AddsUp, Totals

LEMMA MoreFailed ==
    ASSUME NEW S, NEW T, S \subseteq T, T \subseteq Actors
    PROVE  Cardinality(S) \in Nat /\ Cardinality(T) \in Nat /\ Cardinality(S) <= Cardinality(T)
BY FailedFinite, FS_Subset

\* A step that leaves the sampler alone, and after which the slots add up.
LEMMA OthersSample ==
    ASSUME SampleInv, UNCHANGED <<draft, sampler, unread, channel>>,
           published' \in [Actors -> Totals],
           cancelled => cancelled', Failed \subseteq Failed',
           ~cancelled' => \A a \in Actors :
               AddsUp(published'[a], IF a \in Failed' THEN 1 ELSE 0)
    PROVE  SampleInv'
<1>1. Failed' \subseteq Actors
  BY DEF Failed
<1>2. /\ Cardinality(Failed) \in Nat /\ Cardinality(Failed') \in Nat
      /\ Cardinality(Failed) <= Cardinality(Failed')
  BY <1>1, MoreFailed
<1>3. /\ Cardinality(Failed \ unread) \in Nat /\ Cardinality(Failed' \ unread) \in Nat
      /\ Cardinality(Failed \ unread) <= Cardinality(Failed' \ unread)
  BY <1>1, MoreFailed
<1>4. ASSUME ~cancelled', sampler = "reading" PROVE AddsUp(draft, Cardinality(Failed' \ unread))
  BY <1>3, <1>4, AddsUpMonotone DEF SampleInv
<1>5. ASSUME ~cancelled', ~channel.final PROVE AddsUp(channel.totals, Cardinality(Failed'))
  BY <1>2, <1>5, AddsUpMonotone DEF SampleInv
<1> QED BY <1>4, <1>5 DEF SampleInv

\* A slot keeps adding up when more connects fail.
LEMMA SlotsKeep ==
    ASSUME SampleInv, Failed \subseteq Failed', NEW a \in Actors, ~cancelled
    PROVE  AddsUp(published[a], IF a \in Failed' THEN 1 ELSE 0)
BY AddsUpMonotone DEF SampleInv

\* A step in which one actor may write its slot.
LEMMA PublishSample ==
    ASSUME SampleInv, UNCHANGED <<draft, sampler, unread, channel, cancelled>>,
           Failed \subseteq Failed', NEW a \in Actors, NEW t \in Totals, Publish(a, t),
           ~cancelled => AddsUp(t, IF a \in Failed' THEN 1 ELSE 0)
    PROVE  SampleInv'
<1>1. published' \in [Actors -> Totals]
  BY DEF Publish, SampleInv
<1>2. \A b \in Actors : published'[b] = published[b] \/ (b = a /\ published'[b] = t)
  BY DEF Publish, SampleInv
<1>3. ~cancelled' => \A b \in Actors :
          AddsUp(published'[b], IF b \in Failed' THEN 1 ELSE 0)
  BY <1>2, SlotsKeep
<1> QED BY <1>1, <1>3, OthersSample

\* What an actor's counters and open queries say when they are published.
LEMMA ReadingAddsUp ==
    ASSUME NEW rec \in [Counters -> Nat], NEW open \in Nat, NEW n \in Nat,
           rec["sent"] + n =
               rec["received"] + rec["unanswered"] + rec["conn_errors"] + open
    PROVE  Reading(rec, open) \in Totals /\ AddsUp(Reading(rec, open), n)
BY DEF Reading, Totals, AddsUp, Counters

\* The steps of an actor.
LEMMA ActorSample ==
    ASSUME SampleInv, EngineInv, NEW a \in Actors,
           ActorGoesOn(a) \/ ActorEnds(a) \/ CollectOne(a) \/ Panics(a) \/ PublishTick(a)
    PROVE  SampleInv'
<1>0. /\ DOMAIN pc = Actors /\ Shaped
      /\ \A b \in Actors \ panicked : Balanced(b)
  BY DEF EngineInv, BudgetInv, BudgetTypeOK
<1>1. CASE ActorGoesOn(a) \/ CollectOne(a)
  <2>1. a \notin panicked /\ OnlyOf(a)
    BY <1>1, ActorStepEngine DEF ActorGoesOn, CollectOne, Advances, Collects
  <2>2. pc[a] # "failed" /\ UNCHANGED <<panicked, progress>>
    BY <1>1 DEF ActorGoesOn, CollectOne, Connected, Ask, StopFilling, Take, PassGate,
                Poll, SeeCancel, GraceEnds, Collect
  <2>3. Failed \subseteq Failed' /\ UNCHANGED cancelled
    BY <2>1, <2>2 DEF Failed, OnlyOf
  <2>4. UNCHANGED <<published, draft, sampler, unread, channel>>
    BY <2>2 DEF progress
  <2>5. ~cancelled' => \A b \in Actors :
            AddsUp(published'[b], IF b \in Failed' THEN 1 ELSE 0)
    BY <2>3, <2>4, SlotsKeep
  <2> QED BY <2>3, <2>4, <2>5, OthersSample DEF SampleInv
<1>2. CASE ActorEnds(a)
  <2>1. a \notin panicked /\ OnlyOf(a)
    BY <1>2, ActorStepEngine DEF ActorEnds, Advances
  <2>2. /\ UNCHANGED <<panicked, draft, sampler, unread, channel, cancelled>>
        /\ Publish(a, Reading(recorder'[a], 0))
    BY <1>2 DEF ActorEnds, ConnectFails, Drain
  <2>3. pc[a] # "failed"
    BY <1>2 DEF ActorEnds, ConnectFails, Drain
  <2>4. Failed \subseteq Failed'
    BY <2>1, <2>2, <2>3 DEF Failed, OnlyOf
  <2>5. Balanced(a)
    BY <1>0, <2>1
  <2>6. recorder[a] \in [Counters -> Nat]
    BY <2>5 DEF Balanced
  <2>7. Cardinality({}) = 0
    BY FS_EmptySet
  <2>8. CASE ConnectFails(a)
    <3>1. recorder'[a] = [recorder[a] EXCEPT !["conn_errors"] = @ + 1]
      BY <1>0, <2>8 DEF ConnectFails, Shaped
    <3>2. recorder[a]["sent"] = Ended(a)
      <4>1. pc[a] = "connecting"
        BY <2>8 DEF ConnectFails
      <4>2. Open(a) = {} /\ recorder[a]["sent"] = Ended(a) + Cardinality(Open(a))
        BY <2>5, <4>1 DEF Balanced
      <4>3. Ended(a) \in Nat
        BY <2>6 DEF Ended, Counters
      <4> QED BY <2>7, <4>2, <4>3
    <3>3. /\ recorder'[a] \in [Counters -> Nat]
          /\ recorder'[a]["sent"] + 1 =
               recorder'[a]["received"] + recorder'[a]["unanswered"]
                   + recorder'[a]["conn_errors"] + 0
      BY <2>6, <3>1, <3>2 DEF Counters, Ended
    <3>4. /\ Reading(recorder'[a], 0) \in Totals
          /\ AddsUp(Reading(recorder'[a], 0), 1)
      BY <3>3, ReadingAddsUp
    <3>5. a \in Failed'
      BY <1>0, <2>1, <2>2, <2>8 DEF ConnectFails, Goto, Failed
    <3> QED BY <2>2, <2>4, <3>4, <3>5, PublishSample
  <2>9. CASE Drain(a)
    <3>1. recorder'[a] = recorder[a] /\ pc[a] = "draining"
      BY <2>9 DEF Drain
    <3>2. Ended(a) \in Nat /\ Ended(a) = recorder[a]["received"] + recorder[a]["unanswered"]
              + recorder[a]["conn_errors"]
      BY <2>6 DEF Ended, Counters
    <3>3. /\ Reading(recorder'[a], 0) \in Totals
      BY <2>6, <3>1 DEF Reading, Totals, Counters
    <3>4. ASSUME ~cancelled PROVE AddsUp(Reading(recorder'[a], 0), 0)
      <4>1. Open(a) = {} /\ recorder[a]["sent"] = Ended(a) + Cardinality(Open(a))
        BY <2>5, <3>1, <3>4 DEF Balanced
      <4>2. recorder[a]["sent"] + 0 =
               recorder[a]["received"] + recorder[a]["unanswered"]
                   + recorder[a]["conn_errors"] + 0
        BY <2>6, <2>7, <3>2, <4>1
      <4> QED BY <2>6, <3>1, <4>2, ReadingAddsUp
    <3>5. ~cancelled => AddsUp(Reading(recorder'[a], 0), IF a \in Failed' THEN 1 ELSE 0)
      BY <3>3, <3>4, AddsUpMonotone
    <3> QED BY <2>2, <2>4, <3>3, <3>5, PublishSample
  <2> QED BY <1>2, <2>8, <2>9 DEF ActorEnds
<1>3. CASE PublishTick(a)
  <2>1. /\ UNCHANGED <<vars, panicked, draft, sampler, unread, channel>>
        /\ pc[a] = "selecting"
        /\ Publish(a, Reading(recorder[a], Cardinality(Open(a))))
    BY <1>3 DEF PublishTick
  <2>2. UNCHANGED <<cancelled, pc>>
    BY <2>1 DEF vars
  <2>3. Failed' = Failed
    BY <2>1, <2>2 DEF Failed
  <2>4. Balanced(a)
    BY <1>0, <2>1 DEF EngineInv
  <2>5. recorder[a] \in [Counters -> Nat] /\ Cardinality(Open(a)) \in Nat
    <3>1. IsFiniteSet(Open(a))
      BY <2>4, FS_Subset DEF Balanced
    <3> QED BY <2>4, <3>1, FS_CardinalityType DEF Balanced
  <2>6. recorder[a]["sent"] + 0 =
           recorder[a]["received"] + recorder[a]["unanswered"]
               + recorder[a]["conn_errors"] + Cardinality(Open(a))
    BY <2>1, <2>4, <2>5 DEF Balanced, Ended, Counters
  <2>7. /\ Reading(recorder[a], Cardinality(Open(a))) \in Totals
        /\ AddsUp(Reading(recorder[a], Cardinality(Open(a))), 0)
    BY <2>5, <2>6, ReadingAddsUp
  <2>8. AddsUp(Reading(recorder[a], Cardinality(Open(a))), IF a \in Failed' THEN 1 ELSE 0)
    BY <2>7, AddsUpMonotone
  <2> QED BY <2>1, <2>2, <2>3, <2>7, <2>8, PublishSample
<1>4. CASE Panics(a)
  <2>1. UNCHANGED <<published, draft, sampler, unread, channel, cancelled>>
    BY <1>4 DEF Panics, progress
  <2>2. Failed \subseteq Failed'
    BY <1>0, <1>4 DEF Panics, Goto, Failed
  <2>3. ~cancelled' => \A b \in Actors :
            AddsUp(published'[b], IF b \in Failed' THEN 1 ELSE 0)
    BY <2>1, <2>2, SlotsKeep
  <2> QED BY <2>1, <2>2, <2>3, OthersSample DEF SampleInv
<1> QED BY <1>1, <1>2, <1>3, <1>4

\* Reading a slot of a failed connect leaves room for its error.
LEMMA SlotRead ==
    ASSUME NEW F, F \subseteq Actors, NEW U, NEW a \in U
    PROVE  Cardinality(F \ (U \ {a})) =
               Cardinality(F \ U) + (IF a \in F THEN 1 ELSE 0)
<1> DEFINE R == F \ U
<1>1. IsFiniteSet(R) /\ Cardinality(R) \in Nat
  BY FailedFinite
<1>2. CASE a \in F
  <2>1. F \ (U \ {a}) = R \cup {a} /\ a \notin R
    BY <1>2
  <2>2. Cardinality(R \cup {a}) = Cardinality(R) + 1
    BY <1>1, <2>1, FS_AddElement
  <2> HIDE DEF R
  <2> SUFFICES Cardinality(F \ (U \ {a})) = Cardinality(R) + 1
    BY <1>2 DEF R
  <2> QED BY <2>1, <2>2, Zenon
<1>3. CASE a \notin F
  <2>1. F \ (U \ {a}) = R
    BY <1>3
  <2> QED BY <1>1, <1>3, <2>1
<1> QED BY <1>2, <1>3

\* The steps of the sampler: it adds a slot to its sample, or sends the sample.
LEMMA SamplerSample ==
    ASSUME SampleInv, StartSample \/ ReadSlot \/ SendSample \/ SamplerStops
    PROVE  SampleInv'
<1>0. CASE UNCHANGED <<vars, panicked, published>>
  <2>0. Failed' = Failed /\ UNCHANGED <<cancelled, published>> /\ Failed \subseteq Actors
    BY <1>0 DEF Failed, vars
  <2>1. CASE StartSample
    <3>1. /\ draft' = Nothing /\ unread' = Actors /\ UNCHANGED channel
      BY <2>1 DEF StartSample
    <3>2. Failed' \ unread' = {} /\ Cardinality({}) = 0
      BY <2>0, <3>1, FS_EmptySet
    <3>3. Nothing \in Totals /\ AddsUp(Nothing, 0)
      BY DEF Nothing, Totals, AddsUp
    <3> QED BY <2>0, <3>1, <3>2, <3>3 DEF SampleInv
  <2>2. CASE ReadSlot
    <3>1. sampler = "reading" /\ unread # {} /\ UNCHANGED <<sampler, channel>>
      BY <2>2 DEF ReadSlot
    <3>2. PICK a \in unread : /\ draft' = Plus(draft, published[a])
                              /\ unread' = unread \ {a}
      BY <2>2, <3>1 DEF ReadSlot
    <3>3. CASE a \in Actors
      <4>1. published[a] \in Totals /\ draft \in Totals
        BY <3>3 DEF SampleInv
      <4>2. /\ draft'.sent = draft.sent + published[a].sent
            /\ draft'.ended = draft.ended + published[a].ended
            /\ draft'.in_flight = draft.in_flight + published[a].in_flight
            /\ draft' \in Totals
        BY <3>2, <4>1 DEF Plus, Totals
      <4>3. Cardinality(Failed \ (unread \ {a})) =
               Cardinality(Failed \ unread) + (IF a \in Failed THEN 1 ELSE 0)
        BY <2>0, SlotRead
      <4>4. Cardinality(Failed \ unread) \in Nat
        BY <2>0, FailedFinite
      <4>5. ASSUME ~cancelled PROVE AddsUp(draft', Cardinality(Failed \ (unread \ {a})))
        <5>1. /\ AddsUp(draft, Cardinality(Failed \ unread))
              /\ AddsUp(published[a], IF a \in Failed THEN 1 ELSE 0)
          BY <3>1, <3>3, <4>5 DEF SampleInv
        <5> DEFINE m == Cardinality(Failed \ unread)
                   n == IF a \in Failed THEN 1 ELSE 0
                   k == Cardinality(Failed \ (unread \ {a}))
        <5>2. m \in Nat /\ n \in Nat /\ AddsUp(draft, m) /\ AddsUp(published[a], n) /\ k = m + n
          BY <4>3, <4>4, <5>1
        <5> SUFFICES AddsUp(draft', k)
          OBVIOUS
        <5> HIDE DEF m, n, k
        <5> QED BY <4>1, <4>2, <5>2 DEF AddsUp, Totals
      <4>6. Failed' \ unread' = Failed \ (unread \ {a}) /\ unread' \subseteq Actors
        BY <2>0, <3>2 DEF SampleInv
      <4>7. ~cancelled => AddsUp(draft', Cardinality(Failed' \ unread'))
        BY <4>5, <4>6
      <4> QED BY <2>0, <3>1, <4>2, <4>6, <4>7 DEF SampleInv
    <3>4. unread \subseteq Actors => a \in Actors
      BY <3>2
    <3> QED BY <3>3, <3>4 DEF SampleInv
  <2>3. CASE SendSample
    <3>1. /\ sampler = "reading" /\ unread = {} /\ sampler' = "waiting"
          /\ channel'.totals = draft /\ draft' = Nothing
      BY <2>3 DEF SendSample, Frame
    <3>2. Failed \ unread = Failed
      BY <3>1
    <3>3. Nothing \in Totals
      BY DEF Nothing, Totals
    <3>4. draft \in Totals /\ (~cancelled => AddsUp(draft, Cardinality(Failed)))
      BY <3>1, <3>2 DEF SampleInv
    <3>5. channel'.totals \in Totals /\ (~cancelled => AddsUp(channel'.totals, Cardinality(Failed)))
      BY <3>1, <3>4
    <3>6. sampler' # "reading" /\ unread' = unread
      BY <2>3, <3>1 DEF SendSample
    <3> QED BY <2>0, <3>1, <3>3, <3>5, <3>6 DEF SampleInv
  <2>4. CASE SamplerStops
    BY <2>0, <2>4 DEF SamplerStops, SampleInv
  <2> QED BY <2>1, <2>2, <2>3, <2>4
<1> QED BY <1>0 DEF StartSample, ReadSlot, SendSample, SamplerStops

LEMMA SampleInvStep == SampleInv /\ EngineInv /\ [CommandNext]_commandVars => SampleInv'
<1> SUFFICES ASSUME SampleInv, EngineInv, [CommandNext]_commandVars PROVE SampleInv'
  OBVIOUS
<1>1. ASSUME NEW a \in Actors,
             ActorGoesOn(a) \/ ActorEnds(a) \/ CollectOne(a) \/ Panics(a) \/ PublishTick(a)
      PROVE  SampleInv'
  BY <1>1, ActorSample
<1>2. CASE StartSample \/ SamplerStep
  BY <1>2, SamplerSample DEF SamplerStep
<1>3. ASSUME UNCHANGED <<pc, panicked, published, draft, sampler, unread, channel>>,
             cancelled => cancelled'
      PROVE  SampleInv'
  <2>1. Failed' = Failed
    BY <1>3 DEF Failed
  <2>2. ~cancelled' => \A b \in Actors :
            AddsUp(published'[b], IF b \in Failed' THEN 1 ELSE 0)
    BY <1>3, <2>1, SlotsKeep
  <2> QED BY <1>3, <2>1, <2>2, OthersSample DEF SampleInv
<1>4. CASE Environment
  BY <1>3, <1>4 DEF Environment, Signal, Tick, ConnectionCloses, progress
<1>5. CASE AbortSampler \/ Exits \/ UNCHANGED commandVars
  BY <1>3, <1>5 DEF AbortSampler, Exits, commandVars, vars, progress
<1>6. CASE RunEndsHere
  <2>1. /\ UNCHANGED <<pc, panicked, published, draft, sampler, unread, cancelled>>
        /\ UNCHANGED channel \/ channel'.final
    BY <1>6 DEF RunEndsHere, RunReturns, Frame
  <2>2. Failed' = Failed
    BY <2>1 DEF Failed
  <2>3. CASE UNCHANGED channel
    BY <1>3, <2>1, <2>3
  <2>4. CASE channel'.final
    BY <2>1, <2>2, <2>4 DEF SampleInv
  <2> QED BY <2>1, <2>3, <2>4
<1> QED BY <1>1, <1>2, <1>4, <1>5, <1>6 DEF CommandNext

LEMMA SampleInvInit == CommandInit => SampleInv
<1> SUFFICES ASSUME CommandInit PROVE SampleInv
  OBVIOUS
<1>1. Nothing \in Totals /\ AddsUp(Nothing, 0)
  BY DEF Nothing, Totals, AddsUp
<1>2. Failed = {} /\ Cardinality({}) = 0
  BY FS_EmptySet DEF CommandInit, Init, Failed
<1> QED BY <1>1, <1>2 DEF CommandInit, SampleInv, NoFrame, Frame

\* Whenever its slots were read, and whoever failed or panicked meanwhile, what a
\* sample says was sent has ended or is in flight, but for one error of each failed
\* connect.
THEOREM SamplesAlwaysAddUp == CommandSpec => []SamplesAddUp
<1>1. SampleInv => SamplesAddUp
  BY DEF SampleInv, SamplesAddUp, AddsUp
<1> QED BY <1>1, EngineInvInit, EngineInvStep, SampleInvInit, SampleInvStep, PTL
        DEF CommandSpec
-------------------------------------------------------------------------------
(* Sums over the actors.                                                     *)

\* What the recursion over the sets of actors comes to, for naturals: a natural,
\* and 0 only if every summand is.
LEMMA SumOfNats ==
    ASSUME NEW f \in [Actors -> Nat]
    PROVE  Sum(f) \in Nat /\ (Sum(f) = 0 <=> \A a \in Actors : f[a] = 0)
<1> DEFINE D == SUBSET Actors
           Picked(s) == CHOOSE x \in s : TRUE
           Body(g, s) == IF s = {} THEN 0 ELSE f[Picked(s)] + g[s \ {Picked(s)}]
           iter == CHOOSE g : g = [s \in D |-> Body(g, s)]
           size == [s \in D |-> Cardinality(s)]
           H == [s \in D |-> [g \in [D -> Nat] |-> Body(g, s)]]
<1>1. Sum(f) = iter[Actors]
  BY DEF Sum, MapThenSumSet, MapThenFoldSet
<1>2. ASSUME NEW s \in D
      PROVE  IsFiniteSet(s) /\ Cardinality(s) \in Nat /\ Cardinality(s) < Cardinality(Actors) + 1
  BY FaultAssumption, FS_Subset, FS_CardinalityType
<1>3. ASSUME NEW s \in D, s # {}
      PROVE  /\ Picked(s) \in s /\ s \ {Picked(s)} \in D
             /\ Cardinality(s \ {Picked(s)}) < Cardinality(s)
  <2>1. Picked(s) \in s
    BY <1>3
  <2> HIDE DEF Picked
  <2> QED BY <1>2, <2>1, FS_RemoveElement
<1>4. ASSUME NEW s \in D, NEW g \in [D -> Nat] PROVE Body(g, s) \in Nat
  <2>1. CASE s = {}
    BY <2>1
  <2>2. CASE s # {}
    <3> DEFINE x == Picked(s)
    <3>1. f[x] \in Nat /\ s \ {x} \in D
      BY <1>3, <2>2
    <3>2. g[s \ {x}] \in Nat
      <4> HIDE DEF D, x
      <4> QED BY <3>1
    <3>3. Body(g, s) = f[x] + g[s \ {x}]
      BY <2>2
    <3> HIDE DEF Body, x
    <3> QED BY <3>1, <3>2, <3>3
  <2> QED BY <2>1, <2>2
<1>5. \E g : g = [s \in D |-> Body(g, s)]
  <2>1. size \in [D -> Nat]
    BY <1>2
  <2>2. H \in [D -> [[D -> Nat] -> Nat]]
    <3> HIDE DEF Body
    <3> QED BY <1>4
  <2>3. ASSUME NEW s \in D, NEW g \in [D -> Nat], NEW h \in [D -> Nat],
               \A t \in D : size[t] < size[s] => g[t] = h[t]
        PROVE  H[s][g] = H[s][h]
    <3> HIDE DEF Picked
    <3> QED BY <1>3, <2>3
  <2>5. Recursive(D, Nat, size, H)
    <3> HIDE DEF D, H, size
    <3> QED BY <2>1, <2>2, <2>3, 0 \in Nat DEF Recursive
  <2>6. PICK g \in [D -> Nat] : Solves(g, D, H)
    BY <2>5, RecursionSolved
  <2>7. \A s \in D : g[s] = Body(g, s)
    BY <2>6 DEF Solves
  <2> HIDE DEF Body, D
  <2> QED BY <2>7
<1>6. iter = [s \in D |-> Body(iter, s)]
  <2> HIDE DEF Body, D
  <2> QED BY <1>5
<1>7. ASSUME NEW s \in D PROVE iter[s] = Body(iter, s)
  <2> HIDE DEF Body, iter, D
  <2> QED BY <1>6
<1> DEFINE Right(s) == iter[s] \in Nat /\ (iter[s] = 0 <=> \A a \in s : f[a] = 0)
           S == {s \in D : Right(s)}
<1>8. ASSUME NEW s \in D, \A t \in D : size[t] < size[s] => t \in S PROVE s \in S
  <2> HIDE DEF iter, Picked
  <2>1. CASE s = {}
    <3>1. iter[s] = 0
      BY <1>7, <2>1
    <3> QED BY <2>1, <3>1
  <2>2. CASE s # {}
    <3> DEFINE x == Picked(s)
    <3>0. x \in s /\ s \ {x} \in D /\ Cardinality(s \ {x}) < Cardinality(s)
      BY <1>3, <2>2
    <3>1. x \in s /\ s \ {x} \in S /\ f[x] \in Nat
      <4>1. size[s \ {x}] < size[s]
        <5> HIDE DEF x
        <5> QED BY <3>0
      <4>2. s \ {x} \in S
        <5> HIDE DEF S, size, D, x
        <5> QED BY <1>8, <3>0, <4>1
      <4>3. f[x] \in Nat
        BY <3>0
      <4> QED BY <3>0, <4>2, <4>3
    <3>2. iter[s] = f[x] + iter[s \ {x}]
      BY <1>7, <2>2
    <3> HIDE DEF x
    <3>3. iter[s] \in Nat /\ (iter[s] = 0 <=> f[x] = 0 /\ iter[s \ {x}] = 0)
      BY <3>1, <3>2
    <3>4. (\A a \in s : f[a] = 0) <=> f[x] = 0 /\ \A a \in s \ {x} : f[a] = 0
      BY <3>1
    <3> QED BY <3>1, <3>3, <3>4
  <2> QED BY <2>1, <2>2
<1>9. size \in [D -> Nat]
  BY <1>2
<1>10. D \subseteq S
  <2> HIDE DEF D, S, size
  <2> QED BY <1>8, <1>9, ByMeasure
<1>11. Actors \in S
  <2> HIDE DEF S
  <2> QED BY <1>10
<1> QED BY <1>1, <1>11

-------------------------------------------------------------------------------
(* The types of the command.                                                 *)

\* The types of what the command adds to the engine.
AddedTyped ==
    /\ goodput \in [Actors -> Nat]
    /\ panicked \in SUBSET Actors
    /\ published \in [Actors -> Totals]
    /\ sampler \in {"none", "waiting", "reading", "stopped"}
    /\ unread \in SUBSET Actors
    /\ draft \in Totals
    /\ abort \in BOOLEAN
    /\ channel \in Frames
    /\ exit \in {"none", "0", "1", "signal"}

CommandTyped == Typed /\ Windows /\ AddedTyped

LEMMA CommandTypedImplies == CommandTyped => CommandTypeOK
BY TypedWindows DEF CommandTyped, AddedTyped, CommandTypeOK

LEMMA ReadingTyped ==
    ASSUME NEW rec \in [Counters -> Nat], NEW open \in Nat
    PROVE  Reading(rec, open) \in Totals
BY DEF Reading, Totals, Counters

LEMMA FrameTyped ==
    ASSUME NEW t \in Totals, NEW last \in BOOLEAN
    PROVE  Frame(t, last) \in Frames
BY DEF Frame, Frames

LEMMA PublishTyped ==
    ASSUME AddedTyped, NEW a \in Actors, NEW t \in Totals, Publish(a, t)
    PROVE  published' \in [Actors -> Totals]
BY DEF Publish, AddedTyped

LEMMA FinalTotalsTyped == Typed => FinalTotals \in Totals
<1> SUFFICES ASSUME Typed PROVE FinalTotals \in Totals
  OBVIOUS
<1> DEFINE f == [a \in Actors |-> Reading(recorder[a], 0)]
           Column(k) == [a \in Actors |-> f[a][k]]
<1>1. \A a \in Actors : f[a] \in Totals
  BY ReadingTyped DEF Typed
<1>2. /\ Column("sent") \in [Actors -> Nat]
      /\ Column("ended") \in [Actors -> Nat]
      /\ Column("in_flight") \in [Actors -> Nat]
  <2> HIDE DEF f
  <2> QED BY <1>1 DEF Totals
<1>3. FinalTotals = [k \in {"sent", "ended", "in_flight"} |-> Sum(Column(k))]
  BY DEF FinalTotals, Nothing
<1> HIDE DEF Column
<1>4. Sum(Column("sent")) \in Nat /\ Sum(Column("ended")) \in Nat /\ Sum(Column("in_flight")) \in Nat
  BY <1>2, SumOfNats
<1> QED BY <1>3, <1>4 DEF Totals

LEMMA PanicTyped ==
    ASSUME CommandTyped, NEW a \in Actors, Panics(a)
    PROVE  CommandTyped'
<1> USE DEF CommandTyped, AddedTyped
<1>0. DOMAIN pc = Actors /\ DOMAIN queued = Actors /\ DOMAIN flight = Actors
  BY DEF Typed
<1>1. recorder' \in [Actors -> [Counters -> Nat]]
  BY DEF Panics, Typed
<1>2. Typed'
  BY <1>1 DEF Panics, Goto, Typed
<1>3. Windows'
  <2>1. Open(a)' = {} /\ pc'[a] = "failed"
    BY <1>0 DEF Panics, Goto, Open
  <2>2. Window(a)'
    BY <2>1, WindowSteps DEF Windows, Window
  <2>3. \A b \in Actors \ {a} : pc'[b] = pc[b] /\ queued'[b] = queued[b] /\ flight'[b] = flight[b]
    BY <1>0 DEF Panics, Goto
  <2> QED BY <2>2, <2>3, OneWindow
<1> QED BY <1>2, <1>3 DEF Panics, progress

LEMMA CommandTypedStep == CommandTyped /\ [CommandNext]_commandVars => CommandTyped'
<1> SUFFICES ASSUME CommandTyped, [CommandNext]_commandVars PROVE CommandTyped'
  OBVIOUS
<1>0. Typed /\ Windows /\ AddedTyped
  BY DEF CommandTyped
<1>1. ASSUME [Next]_vars, AddedTyped' PROVE CommandTyped'
  BY <1>0, <1>1, TypedStep, WindowsStep DEF CommandTyped
<1>2. ASSUME NEW a \in Actors, ActorGoesOn(a) PROVE CommandTyped'
  <2>1. AddedTyped'
    BY <1>0, <1>2 DEF ActorGoesOn, progress, AddedTyped
  <2> QED BY <1>1, <1>2, <2>1 DEF ActorGoesOn, Next, Advances
<1>3. ASSUME NEW a \in Actors, ActorEnds(a) PROVE CommandTyped'
  <2>1. Next
    BY <1>3 DEF ActorEnds, Next, Advances
  <2>2. recorder'[a] \in [Counters -> Nat]
    BY <1>0, <2>1, TypedStep DEF Typed
  <2>3. published' \in [Actors -> Totals]
    BY <1>0, <1>3, <2>2, ReadingTyped, PublishTyped DEF ActorEnds
  <2>4. AddedTyped'
    BY <1>0, <1>3, <2>3 DEF ActorEnds, AddedTyped
  <2> QED BY <1>1, <2>1, <2>4
<1>4. ASSUME NEW a \in Actors, CollectOne(a) PROVE CommandTyped'
  <2>1. Next
    BY <1>4 DEF CollectOne, Next, Collects
  <2>2. AddedTyped'
    BY <1>0, <1>4 DEF CollectOne, progress, AddedTyped
  <2> QED BY <1>1, <2>1, <2>2
<1>5. ASSUME NEW a \in Actors, PublishTick(a) PROVE CommandTyped'
  <2>1. Cardinality(Open(a)) \in Nat
    BY <1>0, FS_CardinalityType DEF Windows, Window
  <2>2. published' \in [Actors -> Totals]
    BY <1>0, <1>5, <2>1, ReadingTyped, PublishTyped DEF PublishTick, Typed
  <2>3. AddedTyped'
    BY <1>0, <1>5, <2>2 DEF PublishTick, AddedTyped
  <2> QED BY <1>1, <1>5, <2>3 DEF PublishTick
<1>6. CASE Environment
  <2>1. AddedTyped'
    BY <1>0, <1>6 DEF Environment, progress, AddedTyped
  <2> QED BY <1>1, <1>6, <2>1 DEF Environment, Next
<1>7. CASE ReadSlot
  <2>1. PICK a \in Actors : draft' = Plus(draft, published[a])
    BY <1>0, <1>7 DEF ReadSlot, AddedTyped
  <2>2. published[a] \in Totals /\ draft \in Totals
    BY <1>0 DEF AddedTyped
  <2>3. draft' \in Totals
    BY <2>1, <2>2 DEF Plus, Totals
  <2>4. AddedTyped'
    BY <1>0, <1>7, <2>3 DEF ReadSlot, AddedTyped
  <2> QED BY <1>1, <1>7, <2>4 DEF ReadSlot
<1>8. CASE StartSample \/ SendSample \/ SamplerStops
  <2>1. Nothing \in Totals
    BY DEF Nothing, Totals
  <2>2. Frame(draft, FALSE) \in Frames
    BY <1>0, FrameTyped DEF AddedTyped
  <2>3. AddedTyped'
    BY <1>0, <1>8, <2>1, <2>2 DEF StartSample, SendSample, SamplerStops, AddedTyped
  <2> QED BY <1>1, <1>8, <2>3 DEF StartSample, SendSample, SamplerStops
<1>9. CASE AbortSampler \/ Exits \/ UNCHANGED commandVars
  <2>1. AddedTyped'
    BY <1>0, <1>9 DEF AbortSampler, Exits, ExitCode, commandVars, progress, AddedTyped
  <2> QED BY <1>1, <1>9, <2>1 DEF AbortSampler, Exits, commandVars
<1>10. CASE RunEndsHere
  <2>1. Frame(FinalTotals, TRUE) \in Frames
    BY <1>0, FinalTotalsTyped, FrameTyped
  <2>2. AddedTyped'
    BY <1>0, <1>10, <2>1 DEF RunEndsHere, AddedTyped
  <2> QED BY <1>1, <1>10, <2>2 DEF RunEndsHere, Next
<1> QED BY <1>2, <1>3, <1>4, <1>5, <1>6, <1>7, <1>8, <1>9, <1>10, PanicTyped
        DEF CommandNext, SamplerStep

LEMMA CommandTypedInit == CommandInit => CommandTyped
<1> SUFFICES ASSUME CommandInit PROVE CommandTyped
  OBVIOUS
<1>1. Nothing \in Totals
  BY DEF Nothing, Totals
<1>2. NoFrame \in Frames
  BY <1>1, FrameTyped DEF NoFrame
<1>3. goodput \in [Actors -> Nat] /\ published \in [Actors -> Totals]
  BY <1>1 DEF CommandInit
<1>4. /\ panicked = {} /\ unread = {} /\ draft = Nothing /\ abort = FALSE
      /\ channel = NoFrame /\ exit = "none" /\ sampler \in {"none", "waiting"}
  BY DEF CommandInit
<1>5. AddedTyped
  BY <1>1, <1>2, <1>3, <1>4 DEF AddedTyped
<1> QED BY <1>5, TypesInit DEF CommandInit, CommandTyped

\* The types of the command, for any number of connections.
THEOREM CommandTypes == CommandSpec => []CommandTypeOK
BY CommandTypedInit, CommandTypedStep, CommandTypedImplies, PTL DEF CommandSpec
-------------------------------------------------------------------------------
(* The exit code.                                                            *)

\* Who has failed has an error in its recorder, or in that of the join; a run that
\* has returned has joined its actors, so that nothing the exit code was made of
\* changes afterwards.
ExitInv ==
    /\ \A a \in Actors : pc[a] = "failed" => recorder[a]["conn_errors"] >= 1
    /\ result # "running" => Joined
    /\ exit # "none" => result # "running" /\ exit = ExitCode

LEMMA ExitStays ==
    ASSUME ExitInv, UNCHANGED <<pc, recorder, goodput, result, exit, cancelled>>
    PROVE  ExitInv'
<1>1. ExitCode' = ExitCode
  BY DEF ExitCode, Aggregate
<1>2. Joined' = Joined
  BY DEF Joined
<1> QED BY <1>1, <1>2 DEF ExitInv

\* A step of an actor that is not over: the run has not returned.
LEMMA ExitBefore ==
    ASSUME ExitInv, NEW a \in Actors, pc[a] \notin {"done", "failed"},
           UNCHANGED <<result, exit>>,
           \A b \in Actors : pc'[b] = "failed" =>
               \/ pc[b] = "failed" /\ recorder'[b] = recorder[b]
               \/ recorder'[b]["conn_errors"] >= 1
    PROVE  ExitInv'
<1>1. ~Joined
  BY DEF Joined
<1> QED BY <1>1 DEF ExitInv

LEMMA ExitInvStep == CommandTyped /\ ExitInv /\ [CommandNext]_commandVars => ExitInv'
<1> SUFFICES ASSUME CommandTyped, ExitInv, [CommandNext]_commandVars PROVE ExitInv'
  OBVIOUS
<1>0. /\ DOMAIN pc = Actors /\ DOMAIN recorder = Actors
      /\ recorder \in [Actors -> [Counters -> Nat]]
  BY DEF CommandTyped, Typed
<1>1. ASSUME NEW a \in Actors, ActorGoesOn(a) PROVE ExitInv'
  <2>1. pc[a] \notin {"done", "failed"} /\ UNCHANGED <<result, exit>>
    BY <1>1 DEF ActorGoesOn, Connected, Ask, StopFilling, Take, PassGate, Poll, SeeCancel,
                GraceEnds, progress
  <2>2. \A b \in Actors : pc'[b] = "failed" => pc[b] = "failed" /\ b # a
    BY <1>0, <1>1 DEF ActorGoesOn, Connected, Ask, StopFilling, Take, PassGate, Poll, Push,
                      Refused, SeeCancel, GraceEnds, Goto
  <2>3. \A b \in Actors \ {a} : recorder'[b] = recorder[b]
    BY <1>0, <1>1 DEF ActorGoesOn, Connected, Ask, StopFilling, Take, PassGate, Poll, Push,
                      Refused, SeeCancel, GraceEnds, work
  <2> QED BY <2>1, <2>2, <2>3, ExitBefore
<1>2. ASSUME NEW a \in Actors, ActorEnds(a) PROVE ExitInv'
  <2>1. pc[a] \notin {"done", "failed"} /\ UNCHANGED <<result, exit>>
    BY <1>2 DEF ActorEnds, ConnectFails, Drain
  <2>2. CASE Drain(a)
    <3>1. \A b \in Actors : pc'[b] = "failed" => pc[b] = "failed" /\ recorder'[b] = recorder[b]
      BY <1>0, <2>2 DEF Drain, Goto
    <3> QED BY <2>1, <3>1, ExitBefore
  <2>3. CASE ConnectFails(a)
    <3>1. \A b \in Actors \ {a} : pc'[b] = pc[b] /\ recorder'[b] = recorder[b]
      BY <1>0, <2>3 DEF ConnectFails, Goto
    <3>2. recorder'[a]["conn_errors"] >= 1
      BY <1>0, <2>3 DEF ConnectFails, Counters
    <3> QED BY <2>1, <3>1, <3>2, ExitBefore
  <2> QED BY <1>2, <2>2, <2>3 DEF ActorEnds
<1>3. ASSUME NEW a \in Actors, CollectOne(a) PROVE ExitInv'
  <2>1. pc[a] \notin {"done", "failed"} /\ UNCHANGED <<result, exit>>
    BY <1>3 DEF CollectOne, Collect, progress
  <2>2. \A b \in Actors : pc'[b] = "failed" => pc[b] = "failed" /\ recorder'[b] = recorder[b]
    BY <1>0, <1>3 DEF CollectOne, Collect, Goto, Record
  <2> QED BY <2>1, <2>2, ExitBefore
<1>4. ASSUME NEW a \in Actors, Panics(a) PROVE ExitInv'
  <2>1. pc[a] \notin {"done", "failed"} /\ UNCHANGED <<result, exit>>
    BY <1>4 DEF Panics
  <2>2. \A b \in Actors \ {a} : pc'[b] = pc[b] /\ recorder'[b] = recorder[b]
    BY <1>0, <1>4 DEF Panics, Goto
  <2>3. recorder'[a]["conn_errors"] >= 1
    BY <1>0, <1>4 DEF Panics, Counters
  <2> QED BY <2>1, <2>2, <2>3, ExitBefore
<1>5. CASE Environment
  <2>1. CASE Signal
    <3>1. result = "running" /\ UNCHANGED <<pc, recorder, result, exit>>
      BY <1>5, <2>1 DEF Environment, Signal, work, progress
    <3> QED BY <3>1 DEF ExitInv
  <2>2. CASE Tick \/ \E a \in Actors : ConnectionCloses(a)
    <3>1. UNCHANGED <<pc, recorder, goodput, result, exit, cancelled>>
      BY <1>5, <2>2 DEF Environment, Tick, ConnectionCloses, work
    <3> QED BY <3>1, ExitStays
  <2> QED BY <1>5, <2>1, <2>2 DEF Environment
<1>6. CASE RunEndsHere
  <2>1. /\ result = "running" /\ Joined /\ result' # "running"
        /\ UNCHANGED <<pc, recorder, exit>>
    BY <1>6 DEF RunEndsHere, RunReturns, work
  <2>2. Joined'
    BY <2>1 DEF Joined
  <2> QED BY <2>1, <2>2 DEF ExitInv
<1>7. CASE Exits
  <2>1. /\ result # "running" /\ exit' = ExitCode
        /\ UNCHANGED <<pc, recorder, goodput, result, cancelled>>
    BY <1>7 DEF Exits, vars
  <2>2. ExitCode' = ExitCode
    BY <2>1 DEF ExitCode, Aggregate
  <2>3. Joined' = Joined
    BY <2>1 DEF Joined
  <2> QED BY <2>1, <2>2, <2>3 DEF ExitInv
<1>8. CASE \/ StartSample \/ ReadSlot \/ SendSample \/ SamplerStops \/ AbortSampler
           \/ UNCHANGED commandVars \/ \E a \in Actors : PublishTick(a)
  <2>1. UNCHANGED <<pc, recorder, goodput, result, exit, cancelled>>
    BY <1>8 DEF StartSample, ReadSlot, SendSample, SamplerStops, AbortSampler, PublishTick,
                commandVars, vars
  <2> QED BY <2>1, ExitStays
<1> QED BY <1>1, <1>2, <1>3, <1>4, <1>5, <1>6, <1>7, <1>8 DEF CommandNext, SamplerStep

LEMMA ExitInvInit == CommandInit => ExitInv
BY DEF CommandInit, Init, ExitInv

\* What an actor without a panic has issued it has sent.
LEMMA SentNothing ==
    ASSUME EngineInv, NEW a \in Actors \ panicked, recorder[a]["sent"] = 0
    PROVE  issued[a] = {}
<1>1. IsFiniteSet(issued[a]) /\ Cardinality(issued[a]) = 0
  BY DEF EngineInv, Balanced
<1> QED BY <1>1, FS_EmptySet

LEMMA ExitInvImplies == EngineInv /\ CommandTyped /\ ExitInv => ExitTruthful
<1> SUFFICES ASSUME EngineInv, CommandTyped, ExitInv, exit # "none" PROVE ExitTruthful
  BY DEF ExitTruthful
<1> DEFINE Column(c) == [a \in Actors |-> recorder[a][c]]
<1>1. exit = ExitCode
  BY DEF ExitInv
<1>2. /\ goodput \in [Actors -> Nat]
      /\ Column("sent") \in [Actors -> Nat] /\ Column("conn_errors") \in [Actors -> Nat]
  BY DEF CommandTyped, AddedTyped, Typed, Counters
<1>3. Sum(goodput) \in Nat /\ (Sum(goodput) = 0 <=> \A a \in Actors : goodput[a] = 0)
  BY <1>2, SumOfNats
<1>4. /\ Aggregate("sent") \in Nat
      /\ Aggregate("sent") = 0 <=> \A a \in Actors : recorder[a]["sent"] = 0
  <2>1. \A a \in Actors : Column("sent")[a] = recorder[a]["sent"]
    OBVIOUS
  <2>2. Aggregate("sent") = Sum(Column("sent"))
    BY DEF Aggregate
  <2> HIDE DEF Column
  <2> QED BY <1>2, <2>1, <2>2, SumOfNats
<1>5. /\ Aggregate("conn_errors") \in Nat
      /\ Aggregate("conn_errors") = 0 <=> \A a \in Actors : recorder[a]["conn_errors"] = 0
  <2>1. \A a \in Actors : Column("conn_errors")[a] = recorder[a]["conn_errors"]
    OBVIOUS
  <2>2. Aggregate("conn_errors") = Sum(Column("conn_errors"))
    BY DEF Aggregate
  <2> HIDE DEF Column
  <2> QED BY <1>2, <2>1, <2>2, SumOfNats
<1>6. exit = "signal" <=> cancelled
  BY <1>1 DEF ExitCode
<1>7. exit = "1" => \A a \in Actors : goodput[a] = 0
  BY <1>1, <1>3 DEF ExitCode
<1>8. ASSUME exit = "0", Count # 0, ~\E a \in Actors : goodput[a] > 0
      PROVE  Failed \cup panicked = {} /\ AllIssued = {}
  <2>1. Sum(goodput) = 0
    BY <1>2, <1>3, <1>8
  <2>2. Aggregate("sent") = 0 /\ Aggregate("conn_errors") = 0
    BY <1>1, <1>4, <1>5, <1>8, <2>1 DEF ExitCode
  <2>3. \A a \in Actors : pc[a] # "failed"
    BY <1>5, <2>2 DEF ExitInv
  <2>4. Failed \cup panicked = {}
    BY <2>3 DEF Failed, EngineInv
  <2>5. \A a \in Actors : issued[a] = {}
    BY <1>4, <2>2, <2>4, SentNothing
  <2> QED BY <2>4, <2>5 DEF AllIssued
<1> QED BY <1>6, <1>7, <1>8 DEF ExitTruthful

\* The exit code tells the truth, for any number of connections, failures and
\* panics: the signal's is that of a cancelled run, 1 means that no answer is left,
\* and 0 that one is or that nothing was tried.
THEOREM ExitTellsTheTruth == CommandSpec => []ExitTruthful
BY EngineInvInit, EngineInvStep, CommandTypedInit, CommandTypedStep, ExitInvInit, ExitInvStep,
   ExitInvImplies, PTL DEF CommandSpec
===============================================================================
