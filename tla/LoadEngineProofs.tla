--------------------------- MODULE LoadEngineProofs ---------------------------
(***************************************************************************)
(* Proofs about LoadEngine, for any number of connections, any window,     *)
(* count, rate and deadline: the engine implements the WorkBudget, so the  *)
(* budget is shared, no index is issued twice, none before its slot, and   *)
(* nobody asks for work once the run is cancelled; its counters add up, a  *)
(* completed run has used its budget, and a connection that reports its    *)
(* closing gets at most the one query being asked for.                     *)
(***************************************************************************)
EXTENDS LoadEngine, FiniteSetTheorems, TLAPS

\* The part of the state that decides who gets which index, and its types.
BudgetTypeOK ==
    /\ seq \in Nat
    /\ clock \in Nat
    /\ DOMAIN pc = Actors
    /\ DOMAIN noMoreWork = Actors
    /\ slot \in [Actors -> Nat]
    /\ issued \in [Actors -> SUBSET Nat]

\* Every index that has left the counter is issued, lost, or waited for by one
\* actor: those at the gate hold indexes of the budget that differ from each
\* other and from all that was issued, and the counter is ahead of them all.
ClaimsDisjoint ==
    /\ \A a \in Actors : pc[a] = "gated" => Paced /\ slot[a] \in Indexes /\ slot[a] < seq
    /\ \A a, b \in Actors :
          pc[a] = "gated" /\ pc[b] = "gated" /\ slot[a] = slot[b] => a = b
    /\ \A a, b \in Actors : pc[a] = "gated" => slot[a] \notin issued[b]
    /\ \A a \in Actors, i \in Nat : i \in issued[a] => i < seq

\* With a rate cap, only slots that have come are issued.
SlotsHaveCome == Paced => \A a \in Actors, i \in Nat : i \in issued[a] => i <= clock

BudgetInv == BudgetTypeOK /\ ClaimsDisjoint /\ SlotsHaveCome

Asking == {a \in Actors : pc[a] \in {"taking", "gated"}}
NoMore == {a \in Actors : noMoreWork[a]}
BudgetView == <<AllIssued, Asking, NoMore, cancelled, clock>>

-------------------------------------------------------------------------------
\* The tests of next() admit exactly the indexes of the budget.
LEMMA AdmittedIsBudgeted ==
    ASSUME NEW i \in Nat, ~OverCount(i), ~OverBudget(i)
    PROVE  i \in Indexes
<1>1. CASE Paced
  BY <1>1, LoadAssumption DEF OverCount, OverBudget, Indexes, Bounded, Limit
<1>2. CASE ~Paced
  BY <1>2, LoadAssumption DEF OverCount, OverBudget, Indexes, Bounded, Limit
<1> QED BY <1>1, <1>2

\* What a push adds to the issued indexes.
LEMMA PushEffect ==
    ASSUME BudgetTypeOK, NEW a \in Actors, NEW i \in Nat, Push(a, i)
    PROVE  /\ issued' \in [Actors -> SUBSET Nat]
           /\ \A b \in Actors : issued'[b] = IF b = a THEN issued[a] \cup {i} ELSE issued[b]
           /\ AllIssued' = AllIssued \cup {i}
           /\ DOMAIN pc' = Actors
           /\ \A b \in Actors : pc'[b] = IF b = a THEN "filling" ELSE pc[b]
           /\ UNCHANGED noMoreWork
<1>1. /\ issued' = [issued EXCEPT ![a] = @ \cup {i}] /\ pc' = [pc EXCEPT ![a] = "filling"]
      /\ UNCHANGED noMoreWork
  BY DEF Push, Goto
<1>2. \A b \in Actors : issued'[b] = IF b = a THEN issued[a] \cup {i} ELSE issued[b]
  BY <1>1 DEF BudgetTypeOK
<1>3. issued' \in [Actors -> SUBSET Nat]
  BY <1>1 DEF BudgetTypeOK
<1>4. AllIssued' = AllIssued \cup {i}
  BY <1>2 DEF AllIssued
<1> QED BY <1>1, <1>2, <1>3, <1>4 DEF BudgetTypeOK

\* A step that moves one actor, to where it claims no index, and issues nothing.
Moves(a, l) ==
    /\ pc' = [pc EXCEPT ![a] = l]
    /\ UNCHANGED <<slot, issued, clock>>
    /\ DOMAIN noMoreWork' = DOMAIN noMoreWork
    /\ seq' \in Nat /\ seq <= seq'

LEMMA MovesInv ==
    ASSUME BudgetInv, NEW a \in Actors, NEW l, l # "gated", Moves(a, l)
    PROVE  BudgetInv'
<1>1. DOMAIN pc' = Actors /\ \A b \in Actors : pc'[b] = IF b = a THEN l ELSE pc[b]
  BY DEF Moves, BudgetInv, BudgetTypeOK
<1>2. BudgetTypeOK'
  BY <1>1 DEF Moves, BudgetInv, BudgetTypeOK
<1>3. ClaimsDisjoint'
  BY <1>1, LoadAssumption DEF Moves, BudgetInv, BudgetTypeOK, ClaimsDisjoint, Indexes, Bounded, Limit
<1>4. SlotsHaveCome'
  BY DEF Moves, BudgetInv, SlotsHaveCome
<1> QED BY <1>2, <1>3, <1>4 DEF BudgetInv

\* The first half of next(): the index is lost, issued, or taken to the gate.
LEMMA TakeInv ==
    ASSUME BudgetInv, NEW a \in Actors, Take(a)
    PROVE  BudgetInv'
<1>0. seq \in Nat /\ seq' = seq + 1 /\ pc[a] = "taking" /\ clock' = clock
  BY DEF Take, FetchAdd, BudgetInv, BudgetTypeOK
<1>1. CASE Refused(a) /\ UNCHANGED slot
  <2>1. Moves(a, "filling")
    BY <1>0, <1>1 DEF Moves, Refused, Goto, work
  <2> QED BY <2>1, MovesInv
<1>2. CASE ~OverCount(seq) /\ ~OverBudget(seq) /\ ~Paced /\ Push(a, seq) /\ UNCHANGED slot
  <2>1. /\ issued' \in [Actors -> SUBSET Nat]
        /\ \A b \in Actors : issued'[b] = IF b = a THEN issued[a] \cup {seq} ELSE issued[b]
        /\ DOMAIN pc' = Actors
        /\ \A b \in Actors : pc'[b] = IF b = a THEN "filling" ELSE pc[b]
        /\ UNCHANGED noMoreWork
    BY <1>0, <1>2, PushEffect DEF BudgetInv
  <2>2. BudgetTypeOK'
    BY <1>0, <1>2, <2>1 DEF BudgetInv, BudgetTypeOK
  <2>3. ClaimsDisjoint'
    BY <1>0, <1>2, <2>1 DEF BudgetInv, BudgetTypeOK, ClaimsDisjoint
  <2>4. SlotsHaveCome'
    BY <1>2 DEF SlotsHaveCome
  <2> QED BY <2>2, <2>3, <2>4 DEF BudgetInv
<1>3. CASE /\ ~OverCount(seq) /\ ~OverBudget(seq) /\ Paced
           /\ slot' = [slot EXCEPT ![a] = seq]
           /\ Goto(a, "gated")
           /\ UNCHANGED <<noMoreWork, work>>
  <2>1. seq \in Indexes
    BY <1>0, <1>3, AdmittedIsBudgeted
  <2>2. /\ DOMAIN pc' = Actors
        /\ \A b \in Actors : pc'[b] = IF b = a THEN "gated" ELSE pc[b]
        /\ slot' \in [Actors -> Nat]
        /\ \A b \in Actors : slot'[b] = IF b = a THEN seq ELSE slot[b]
        /\ UNCHANGED <<issued, noMoreWork>>
    BY <1>0, <1>3 DEF Goto, work, BudgetInv, BudgetTypeOK
  <2>3. BudgetTypeOK'
    BY <1>0, <2>2 DEF BudgetInv, BudgetTypeOK
  <2>4. Paced' = Paced /\ Indexes' = Indexes
    BY DEF Indexes, Bounded, Limit
  <2>5. \A b \in Actors : pc'[b] = "gated" => Paced /\ slot'[b] \in Indexes /\ slot'[b] < seq'
    BY <1>0, <1>3, <2>1, <2>2, <2>4 DEF BudgetInv, BudgetTypeOK, ClaimsDisjoint
  <2>6. \A b, c \in Actors :
           pc'[b] = "gated" /\ pc'[c] = "gated" /\ slot'[b] = slot'[c] => b = c
    BY <1>0, <2>2 DEF BudgetInv, BudgetTypeOK, ClaimsDisjoint
  <2>7. \A b, c \in Actors : pc'[b] = "gated" => slot'[b] \notin issued'[c]
    BY <1>0, <2>2 DEF BudgetInv, BudgetTypeOK, ClaimsDisjoint
  <2>8. \A b \in Actors, i \in Nat : i \in issued'[b] => i < seq'
    BY <1>0, <2>2 DEF BudgetInv, BudgetTypeOK, ClaimsDisjoint
  <2>9. ClaimsDisjoint'
    BY <2>4, <2>5, <2>6, <2>7, <2>8 DEF ClaimsDisjoint
  <2>10. SlotsHaveCome'
    BY <1>0, <2>2 DEF BudgetInv, SlotsHaveCome
  <2> QED BY <2>3, <2>9, <2>10 DEF BudgetInv
<1> QED BY <1>1, <1>2, <1>3 DEF Take

\* The second half: the index waited for is issued, or lost to the signal.
LEMMA PassGateInv ==
    ASSUME BudgetInv, NEW a \in Actors, PassGate(a)
    PROVE  BudgetInv'
<1>0. pc[a] = "gated" /\ seq' = seq /\ clock' = clock /\ slot' = slot /\ seq \in Nat
  BY DEF PassGate, BudgetInv, BudgetTypeOK
<1>1. CASE clock >= slot[a] /\ ~cancelled /\ Push(a, slot[a])
  <2>0. slot[a] \in Nat /\ clock \in Nat
    BY DEF BudgetInv, BudgetTypeOK
  <2>1. /\ issued' \in [Actors -> SUBSET Nat]
        /\ \A b \in Actors : issued'[b] = IF b = a THEN issued[a] \cup {slot[a]} ELSE issued[b]
        /\ DOMAIN pc' = Actors
        /\ \A b \in Actors : pc'[b] = IF b = a THEN "filling" ELSE pc[b]
        /\ UNCHANGED noMoreWork
    BY <1>1, <2>0, PushEffect DEF BudgetInv
  <2>2. BudgetTypeOK'
    BY <1>0, <2>1 DEF BudgetInv, BudgetTypeOK
  <2>3. Indexes' = Indexes
    BY DEF Indexes, Bounded, Limit
  <2>4. ClaimsDisjoint'
    BY <1>0, <2>1, <2>3 DEF BudgetInv, BudgetTypeOK, ClaimsDisjoint
  <2>5. SlotsHaveCome'
    BY <1>0, <1>1, <2>0, <2>1 DEF BudgetInv, SlotsHaveCome
  <2> QED BY <2>2, <2>4, <2>5 DEF BudgetInv
<1>2. CASE cancelled /\ Refused(a)
  <2>1. Moves(a, "filling")
    BY <1>0, <1>2 DEF Moves, Refused, Goto, work
  <2> QED BY <2>1, MovesInv
<1> QED BY <1>1, <1>2 DEF PassGate

\* Every other step of an actor moves it, or leaves it where it is.
Quiet == UNCHANGED <<seq, clock, pc, noMoreWork, slot, issued>>

LEMMA QuietInv ==
    ASSUME BudgetInv, Quiet
    PROVE  BudgetInv'
BY DEF Quiet, BudgetInv, BudgetTypeOK, ClaimsDisjoint, SlotsHaveCome, Indexes, Bounded, Limit

\* Where the steps other than Take and PassGate take an actor.
LEMMA OtherSteps ==
    ASSUME BudgetInv, NEW a \in Actors,
           \/ Connected(a) \/ ConnectFails(a) \/ StopFilling(a)
           \/ \E i \in queued[a] : Poll(a, i)
           \/ SeeCancel(a) \/ GraceEnds(a) \/ Drain(a) \/ Collects(a)
    PROVE  /\ Quiet \/ \E l \in {"filling", "selecting", "draining", "grace", "done", "failed"} :
                          Moves(a, l)
           /\ pc[a] \notin {"taking", "gated"}
           /\ UNCHANGED <<cancelled, clock, noMoreWork, issued>>
<1>0. seq \in Nat /\ seq <= seq
  BY DEF BudgetInv, BudgetTypeOK
<1>1. CASE Connected(a)
  BY <1>0, <1>1 DEF Connected, Goto, work, Moves
<1>2. CASE ConnectFails(a)
  BY <1>0, <1>2 DEF ConnectFails, Goto, Moves
<1>3. CASE StopFilling(a)
  BY <1>0, <1>3 DEF StopFilling, Goto, work, Moves, Quiet
<1>4. CASE \E i \in queued[a] : Poll(a, i)
  BY <1>4 DEF Poll, Quiet
<1>5. CASE SeeCancel(a)
  BY <1>0, <1>5 DEF SeeCancel, Goto, work, Moves
<1>6. CASE GraceEnds(a)
  BY <1>0, <1>6 DEF GraceEnds, Goto, work, Moves
<1>7. CASE Drain(a)
  BY <1>0, <1>7 DEF Drain, Goto, Moves
<1>8. CASE Collects(a)
  BY <1>0, <1>8 DEF Collects, Collect, Goto, Moves
<1> QED BY <1>1, <1>2, <1>3, <1>4, <1>5, <1>6, <1>7, <1>8

\* The invariant is inductive.
LEMMA BudgetInvStep == BudgetInv /\ [Next]_vars => BudgetInv'
<1> SUFFICES ASSUME BudgetInv, [Next]_vars PROVE BudgetInv'
  OBVIOUS
<1>0. seq \in Nat /\ clock \in Nat
  BY DEF BudgetInv, BudgetTypeOK
<1>1. ASSUME NEW a \in Actors, Take(a) PROVE BudgetInv'
  BY <1>1, TakeInv
<1>2. ASSUME NEW a \in Actors, PassGate(a) PROVE BudgetInv'
  BY <1>2, PassGateInv
<1>3. ASSUME NEW a \in Actors, Ask(a) PROVE BudgetInv'
  <2>1. Moves(a, "taking")
    BY <1>0, <1>3 DEF Ask, Goto, work, Moves
  <2> QED BY <2>1, MovesInv
<1>4. ASSUME NEW a \in Actors,
             \/ Connected(a) \/ ConnectFails(a) \/ StopFilling(a)
             \/ \E i \in queued[a] : Poll(a, i)
             \/ SeeCancel(a) \/ GraceEnds(a) \/ Drain(a) \/ Collects(a)
      PROVE  BudgetInv'
  BY <1>4, OtherSteps, MovesInv, QuietInv
<1>5. ASSUME NEW a \in Actors, ConnectionCloses(a) PROVE BudgetInv'
  BY <1>5, QuietInv DEF ConnectionCloses, work, Quiet
<1>6. CASE Signal \/ RunReturns \/ UNCHANGED vars
  BY <1>6, QuietInv DEF Signal, RunReturns, work, vars, Quiet
<1>7. CASE Tick
  BY <1>0, <1>7 DEF Tick, work, BudgetInv, BudgetTypeOK, ClaimsDisjoint, SlotsHaveCome,
                    Indexes, Bounded, Limit
<1> QED BY <1>1, <1>2, <1>3, <1>4, <1>5, <1>6, <1>7 DEF Next, Advances

\* Nothing is claimed before the run starts.
LEMMA BudgetInvInit == Init => BudgetInv
BY LoadAssumption DEF Init, BudgetInv, BudgetTypeOK, ClaimsDisjoint, SlotsHaveCome

-------------------------------------------------------------------------------
(* The theorems.                                                             *)

\* The inductive invariant holds of every behaviour.
THEOREM BudgetInvariance == Spec => []BudgetInv
BY BudgetInvInit, BudgetInvStep, PTL DEF Spec

\* Every step of the engine is a step of the work budget, or changes nothing there.
LEMMA WorkStep == BudgetInv /\ [Next]_vars => [Work!Next]_(Work!vars)
<1> SUFFICES ASSUME BudgetInv, [Next]_vars
             PROVE  [Work!Next]_BudgetView
  BY DEF Work!vars, BudgetView, Asking, NoMore
<1>0. BudgetTypeOK
  BY DEF BudgetInv
<1> USE DEF Asking, NoMore, BudgetView
<1>1. ASSUME NEW a \in Actors, Take(a) PROVE [Work!Next]_BudgetView
  <2>0. seq \in Nat /\ pc[a] = "taking" /\ UNCHANGED <<cancelled, clock>>
    BY <1>0, <1>1 DEF Take, BudgetTypeOK
  <2>1. CASE Refused(a)
    <3>1. AllIssued' = AllIssued /\ Asking' = Asking \ {a} /\ NoMore' = NoMore \cup {a}
      BY <1>0, <2>0, <2>1 DEF Refused, Goto, work, AllIssued, BudgetTypeOK
    <3> QED BY <2>0, <3>1 DEF Work!Next, Work!Refuse
  <2>2. CASE ~OverCount(seq) /\ ~OverBudget(seq) /\ ~Paced /\ Push(a, seq)
    <3>1. AllIssued' = AllIssued \cup {seq}
      BY <1>0, <2>0, <2>2, PushEffect
    <3>2. /\ \A b \in Actors : pc'[b] = IF b = a THEN "filling" ELSE pc[b]
          /\ UNCHANGED noMoreWork
      BY <1>0, <2>0, <2>2, PushEffect
    <3>3. Asking' = Asking \ {a} /\ NoMore' = NoMore
      BY <3>2
    <3>4. AllIssued' = AllIssued \cup {seq} /\ Asking' = Asking \ {a} /\ NoMore' = NoMore
      BY <3>1, <3>3
    <3>5. seq \in Indexes /\ seq \notin AllIssued
      BY <1>0, <2>0, <2>2, AdmittedIsBudgeted DEF AllIssued, BudgetInv, BudgetTypeOK, ClaimsDisjoint
    <3> QED BY <2>0, <2>2, <3>4, <3>5 DEF Work!Next, Work!Issue
  <2>3. CASE Goto(a, "gated") /\ UNCHANGED <<noMoreWork, work>>
    <3>1. AllIssued' = AllIssued /\ Asking' = Asking /\ NoMore' = NoMore
      BY <1>0, <2>0, <2>3 DEF Goto, work, AllIssued, BudgetTypeOK
    <3> QED BY <2>0, <3>1
  <2> QED BY <1>1, <2>1, <2>2, <2>3 DEF Take
<1>2. ASSUME NEW a \in Actors, PassGate(a)
      PROVE  [Work!Next]_BudgetView
  <2>0. slot[a] \in Nat /\ clock \in Nat /\ pc[a] = "gated" /\ UNCHANGED <<cancelled, clock>>
    BY <1>0, <1>2 DEF PassGate, BudgetTypeOK
  <2>1. CASE Refused(a)
    <3>1. AllIssued' = AllIssued /\ Asking' = Asking \ {a} /\ NoMore' = NoMore \cup {a}
      BY <1>0, <2>0, <2>1 DEF Refused, Goto, work, AllIssued, BudgetTypeOK
    <3> QED BY <2>0, <3>1 DEF Work!Next, Work!Refuse
  <2>2. CASE clock >= slot[a] /\ Push(a, slot[a])
    <3>1. AllIssued' = AllIssued \cup {slot[a]}
      BY <1>0, <2>0, <2>2, PushEffect
    <3>2. /\ \A b \in Actors : pc'[b] = IF b = a THEN "filling" ELSE pc[b]
          /\ UNCHANGED noMoreWork
      BY <1>0, <2>0, <2>2, PushEffect
    <3>3. Asking' = Asking \ {a} /\ NoMore' = NoMore
      BY <3>2
    <3>4. AllIssued' = AllIssued \cup {slot[a]} /\ Asking' = Asking \ {a} /\ NoMore' = NoMore
      BY <3>1, <3>3
    <3>5. slot[a] \in Indexes /\ slot[a] \notin AllIssued
      BY <2>0 DEF AllIssued, BudgetInv, ClaimsDisjoint
    <3> QED BY <2>0, <2>2, <3>4, <3>5 DEF Work!Next, Work!Issue
  <2> QED BY <1>2, <2>1, <2>2 DEF PassGate
<1>3. ASSUME NEW a \in Actors, Ask(a) PROVE [Work!Next]_BudgetView
  <2>1. /\ AllIssued' = AllIssued /\ Asking' = Asking \cup {a} /\ NoMore' = NoMore
        /\ a \notin Asking \cup NoMore /\ ~cancelled /\ UNCHANGED <<cancelled, clock>>
    BY <1>0, <1>3 DEF Ask, MayFill, Goto, work, AllIssued, BudgetTypeOK
  <2> QED BY <2>1 DEF Work!Next, Work!Ask
<1>4. ASSUME NEW a \in Actors,
             \/ Connected(a) \/ ConnectFails(a) \/ StopFilling(a)
             \/ \E i \in queued[a] : Poll(a, i)
             \/ SeeCancel(a) \/ GraceEnds(a) \/ Drain(a) \/ Collects(a)
      PROVE  [Work!Next]_BudgetView
  <2>1. /\ Quiet \/ \E l \in {"filling", "selecting", "draining", "grace", "done", "failed"} :
                       Moves(a, l)
        /\ pc[a] \notin {"taking", "gated"}
        /\ UNCHANGED <<cancelled, clock, noMoreWork, issued>>
    BY <1>4, OtherSteps
  <2>2. Asking' = Asking /\ NoMore' = NoMore
    BY <1>0, <2>1 DEF Quiet, Moves, BudgetTypeOK
  <2>3. AllIssued' = AllIssued
    BY <2>1 DEF AllIssued
  <2> QED BY <2>1, <2>2, <2>3
<1>5. CASE RunReturns \/ (\E a \in Actors : ConnectionCloses(a)) \/ UNCHANGED vars
  BY <1>5 DEF RunReturns, ConnectionCloses, work, vars, AllIssued
<1>6. CASE Signal
  <2>1. /\ AllIssued' = AllIssued /\ Asking' = Asking /\ NoMore' = NoMore
        /\ ~cancelled /\ cancelled' = TRUE /\ UNCHANGED clock
    BY <1>6 DEF Signal, work, AllIssued
  <2> QED BY <2>1 DEF Work!Next, Work!Stop
<1>7. CASE Tick
  <2>1. AllIssued' = AllIssued /\ Asking' = Asking /\ NoMore' = NoMore /\ cancelled' = cancelled /\ clock' = clock + 1
    BY <1>7 DEF Tick, work, AllIssued
  <2> QED BY <2>1 DEF Work!Next, Work!Tick
<1> QED BY <1>1, <1>2, <1>3, <1>4, <1>5, <1>6, <1>7 DEF Next, Advances

\* The engine implements the work budget: whatever the connections do and however
\* their actors interleave, one budget is shared and nothing is issued twice, too
\* early, beyond the limit, or to an actor that asked after the signal.
THEOREM ImplementsWorkBudget == Spec => WorkSpec
<1>1. Init => Work!Init
  BY DEF Init, Work!Init, AllIssued
<1>2. BudgetInv /\ [Next]_vars => [Work!Next]_(Work!vars)
  BY WorkStep
<1> QED BY <1>1, <1>2, BudgetInvariance, PTL DEF Spec, WorkSpec, Work!Spec

-------------------------------------------------------------------------------
(* A closed connection stops receiving work.                                 *)

\* While its connection is up an actor pushes nothing late, and it asks for work
\* only while it is up: at most the query it is asking for comes late.
FeedInv ==
    /\ DOMAIN pc = Actors
    /\ late \in [Actors -> Nat] /\ dead \in [Actors -> BOOLEAN]
    /\ \A a \in Actors :
          /\ late[a] <= 1
          /\ ~dead[a] => late[a] = 0
          /\ pc[a] \in {"taking", "gated"} => late[a] = 0

\* A step that moves one actor and pushes nothing: it takes it to next() only
\* with its connection up.
Hands(a, l) ==
    /\ pc' = [pc EXCEPT ![a] = l]
    /\ UNCHANGED <<late, dead>>
    /\ l \in {"taking", "gated"} => ~dead[a] \/ pc[a] \in {"taking", "gated"}

LEMMA HandsFeed ==
    ASSUME FeedInv, NEW a \in Actors, NEW l, Hands(a, l)
    PROVE  FeedInv'
BY DEF FeedInv, Hands

LEMMA PushFeed ==
    ASSUME FeedInv, NEW a \in Actors, NEW i, Push(a, i),
           pc[a] \in {"taking", "gated"}, UNCHANGED dead
    PROVE  FeedInv'
<1>1. late' = [late EXCEPT ![a] = @ + (IF dead[a] THEN 1 ELSE 0)]
  BY DEF Push
<1>2. pc' = [pc EXCEPT ![a] = "filling"]
  BY DEF Push, Goto
<1>3. late[a] = 0 /\ late[a] \in Nat
  BY DEF FeedInv
<1>4. \A b \in Actors : late'[b] = IF b = a THEN (IF dead[a] THEN 1 ELSE 0) ELSE late[b]
  BY <1>1, <1>3 DEF FeedInv
<1>5. late' \in [Actors -> Nat]
  BY <1>1, <1>3 DEF FeedInv
<1>6. DOMAIN pc' = Actors /\ \A b \in Actors : pc'[b] = IF b = a THEN "filling" ELSE pc[b]
  BY <1>2 DEF FeedInv
<1>7. \A b \in Actors :
         late'[b] <= 1 /\ (~dead[b] => late'[b] = 0)
         /\ (pc'[b] \in {"taking", "gated"} => late'[b] = 0)
  BY <1>4, <1>6 DEF FeedInv
<1> QED BY <1>5, <1>6, <1>7 DEF FeedInv

LEMMA FeedInvStep == ReportsClosed /\ FeedInv /\ [Next]_vars => FeedInv'
<1> SUFFICES ASSUME ReportsClosed, FeedInv, [Next]_vars PROVE FeedInv'
  OBVIOUS
<1>1. ASSUME NEW a \in Actors, Connected(a) PROVE FeedInv'
  <2>1. Hands(a, "filling")
    BY <1>1 DEF Connected, Goto, work, Hands
  <2> QED BY <2>1, HandsFeed
<1>2. ASSUME NEW a \in Actors, ConnectFails(a) PROVE FeedInv'
  <2>1. Hands(a, "failed")
    BY <1>2 DEF ConnectFails, Goto, Hands
  <2> QED BY <2>1, HandsFeed
<1>3. ASSUME NEW a \in Actors, Ask(a) PROVE FeedInv'
  <2>1. Hands(a, "taking")
    BY <1>3 DEF Ask, MayFill, IsClosed, Goto, work, Hands
  <2> QED BY <2>1, HandsFeed
<1>4. ASSUME NEW a \in Actors, StopFilling(a) PROVE FeedInv'
  <2>1. UNCHANGED <<late, dead>>
    BY <1>4 DEF StopFilling, work
  <2>2. CASE UNCHANGED pc
    BY <2>1, <2>2 DEF FeedInv
  <2>3. CASE \E l \in {"draining", "selecting"} : Hands(a, l)
    BY <2>3, HandsFeed
  <2> QED BY <1>4, <2>1, <2>2, <2>3 DEF StopFilling, Goto, Hands
<1>5. ASSUME NEW a \in Actors, Take(a) PROVE FeedInv'
  <2>0. pc[a] = "taking" /\ UNCHANGED dead
    BY <1>5 DEF Take
  <2>1. CASE Push(a, seq)
    BY <2>0, <2>1, PushFeed
  <2>2. CASE Refused(a)
    <3>1. Hands(a, "filling")
      BY <2>0, <2>2 DEF Refused, Goto, work, Hands
    <3> QED BY <3>1, HandsFeed
  <2>3. CASE Goto(a, "gated") /\ UNCHANGED work
    <3>1. Hands(a, "gated")
      BY <2>0, <2>3 DEF Goto, work, Hands
    <3> QED BY <3>1, HandsFeed
  <2> QED BY <1>5, <2>1, <2>2, <2>3 DEF Take
<1>6. ASSUME NEW a \in Actors, PassGate(a) PROVE FeedInv'
  <2>0. pc[a] = "gated" /\ UNCHANGED dead
    BY <1>6 DEF PassGate
  <2>1. CASE Push(a, slot[a])
    BY <2>0, <2>1, PushFeed
  <2>2. CASE Refused(a)
    <3>1. Hands(a, "filling")
      BY <2>0, <2>2 DEF Refused, Goto, work, Hands
    <3> QED BY <3>1, HandsFeed
  <2> QED BY <1>6, <2>1, <2>2 DEF PassGate
<1>7. ASSUME NEW a \in Actors, \E i \in queued[a] : Poll(a, i) PROVE FeedInv'
  BY <1>7 DEF Poll, FeedInv
<1>8. ASSUME NEW a \in Actors, SeeCancel(a) PROVE FeedInv'
  <2>1. Hands(a, "grace")
    BY <1>8 DEF SeeCancel, Goto, work, Hands
  <2> QED BY <2>1, HandsFeed
<1>9. ASSUME NEW a \in Actors, GraceEnds(a) PROVE FeedInv'
  <2>1. Hands(a, "draining")
    BY <1>9 DEF GraceEnds, Goto, work, Hands
  <2> QED BY <2>1, HandsFeed
<1>10. ASSUME NEW a \in Actors, Drain(a) PROVE FeedInv'
  <2>1. Hands(a, "done")
    BY <1>10 DEF Drain, Goto, Hands
  <2> QED BY <2>1, HandsFeed
<1>11. ASSUME NEW a \in Actors, Collects(a) PROVE FeedInv'
  <2>1. \E l \in {"filling", "grace"} : Hands(a, l)
    BY <1>11 DEF Collects, Collect, Goto, Hands
  <2> QED BY <2>1, HandsFeed
<1>12. ASSUME NEW a \in Actors, ConnectionCloses(a) PROVE FeedInv'
  BY <1>12 DEF ConnectionCloses, work, FeedInv
<1>13. CASE Signal \/ Tick \/ RunReturns \/ UNCHANGED vars
  BY <1>13 DEF Signal, Tick, RunReturns, work, vars, FeedInv
<1> QED BY <1>1, <1>2, <1>3, <1>4, <1>5, <1>6, <1>7, <1>8, <1>9, <1>10, <1>11,
           <1>12, <1>13 DEF Next, Advances

\* On connections that report their closing, a closed one is given at most the
\* query its actor was already asking next() for.
THEOREM ClosedAreNotFed == ReportsClosed => (Spec => []ClosedStopsFeeding)
<1> SUFFICES ASSUME ReportsClosed PROVE Spec => []ClosedStopsFeeding
  OBVIOUS
<1>1. Init => FeedInv
  BY DEF Init, FeedInv
<1>2. FeedInv /\ [Next]_vars => FeedInv'
  BY FeedInvStep
<1>3. FeedInv => ClosedStopsFeeding
  BY DEF FeedInv, ClosedStopsFeeding
<1> QED BY <1>1, <1>2, <1>3, PTL DEF Spec

-------------------------------------------------------------------------------
(* A completed run has used its budget.                                      *)

\* An unpaced run has met its deadline.
DeadlineMet == ~Paced /\ Budget # None /\ clock >= Budget

\* The indexes waited for at the gate.
AtGate == {slot[a] : a \in {b \in Actors : pc[b] = "gated"}}

\* Unless the run was cancelled or met its deadline, an index of the budget that
\* has left the counter is issued or waited for.
NothingLost ==
    ~cancelled /\ ~DeadlineMet =>
        \A i \in Indexes : i < seq => i \in AllIssued \cup AtGate

\* Who was refused work saw the counter at the end of the budget.
RefusedAtEnd ==
    ~cancelled /\ ~DeadlineMet =>
        \A a \in Actors : noMoreWork[a] => \A i \in Indexes : i < seq

\* An actor gives up for want of work, or because its connection closed.
EndsForAReason ==
    /\ \A a \in Actors : pc[a] = "grace" => cancelled
    /\ ~cancelled => \A a \in Actors :
           pc[a] \in {"draining", "done"} => noMoreWork[a] \/ dead[a]

\* The run has returned when its actors had, and knows whether it was cancelled.
ResultTrue ==
    /\ result # "running" => Joined
    /\ result = "completed" => ~cancelled

UsedInv ==
    /\ BudgetInv
    /\ noMoreWork \in [Actors -> BOOLEAN] /\ dead \in [Actors -> BOOLEAN]
    /\ AllIssued \subseteq Indexes
    /\ NothingLost /\ RefusedAtEnd /\ EndsForAReason /\ ResultTrue

\* What the proof needs of a step that takes no index: it moves at most one actor.
Keeps == UNCHANGED <<seq, cancelled, clock, noMoreWork, slot, dead, issued, result>>

\* Such a step of an actor that is not at the gate, and not over.
LEMMA KeepsUsed ==
    ASSUME UsedInv, BudgetInv', NEW a \in Actors, NEW l, Keeps,
           pc' = [pc EXCEPT ![a] = l],
           pc[a] \notin {"gated", "done", "failed"}, l # "gated",
           l = "grace" => cancelled,
           l \in {"draining", "done"} => noMoreWork[a] \/ dead[a] \/ cancelled
    PROVE  UsedInv'
<1>1. \A b \in Actors : pc'[b] = IF b = a THEN l ELSE pc[b]
  BY DEF UsedInv, BudgetInv, BudgetTypeOK
<1>2. AtGate' = AtGate /\ AllIssued' = AllIssued /\ Indexes' = Indexes
      /\ DeadlineMet' = DeadlineMet
  BY <1>1 DEF AtGate, AllIssued, Keeps, Indexes, Bounded, Limit, DeadlineMet
<1>3. NothingLost' /\ RefusedAtEnd'
  BY <1>2 DEF UsedInv, NothingLost, RefusedAtEnd, Keeps
<1>4. EndsForAReason'
  BY <1>1 DEF UsedInv, EndsForAReason, Keeps
<1>5. ResultTrue'
  BY <1>1 DEF UsedInv, ResultTrue, Joined, Keeps
<1> QED BY <1>2, <1>3, <1>4, <1>5 DEF UsedInv, Keeps

\* A step that leaves alone all that UsedInv speaks of.
LEMMA SameUsed ==
    ASSUME UsedInv, BudgetInv', Keeps, UNCHANGED pc
    PROVE  UsedInv'
BY DEF UsedInv, Keeps, AllIssued, AtGate, NothingLost, RefusedAtEnd, EndsForAReason,
       ResultTrue, Joined, Indexes, Bounded, Limit, DeadlineMet

\* next() refuses only at the end of the budget, or past the deadline.
LEMMA RefusedMeans ==
    ASSUME BudgetInv, OverCount(seq) \/ OverBudget(seq)
    PROVE  DeadlineMet \/ \A j \in Indexes : j < seq
<1>1. seq \in Nat /\ clock \in Nat
  BY DEF BudgetInv, BudgetTypeOK
<1>2. CASE Paced
  BY <1>1, <1>2, LoadAssumption DEF OverCount, OverBudget, Indexes, Bounded, Limit
<1>3. CASE ~Paced
  BY <1>1, <1>3, LoadAssumption DEF OverCount, OverBudget, Indexes, Bounded, Limit, DeadlineMet
<1> QED BY <1>2, <1>3

\* The first half of next().
LEMMA TakeUsed ==
    ASSUME UsedInv, BudgetInv', NEW a \in Actors, Take(a)
    PROVE  UsedInv'
<1>0. /\ seq \in Nat /\ seq' = seq + 1 /\ pc[a] = "taking"
      /\ BudgetInv
      /\ UNCHANGED <<cancelled, clock, dead, result>>
  BY DEF Take, FetchAdd, UsedInv, BudgetInv, BudgetTypeOK
<1>1. Indexes' = Indexes /\ DeadlineMet' = DeadlineMet
  BY <1>0 DEF Indexes, Bounded, Limit, DeadlineMet
<1>2. Indexes \subseteq Int
  BY DEF Indexes, Bounded
<1>3. result = "running" /\ ResultTrue'
  BY <1>0 DEF UsedInv, ResultTrue, Joined
<1>4. CASE (OverCount(seq) \/ OverBudget(seq)) /\ Refused(a) /\ UNCHANGED slot
  <2>1. DeadlineMet \/ \A j \in Indexes : j < seq
    BY <1>0, <1>4, RefusedMeans
  <2>2. /\ \A b \in Actors : pc'[b] = IF b = a THEN "filling" ELSE pc[b]
        /\ \A b \in Actors : noMoreWork'[b] = IF b = a THEN TRUE ELSE noMoreWork[b]
        /\ noMoreWork' \in [Actors -> BOOLEAN]
        /\ UNCHANGED <<issued, slot>>
    BY <1>0, <1>4 DEF Refused, Goto, work, UsedInv, BudgetInv, BudgetTypeOK
  <2>3. AllIssued' = AllIssued /\ AtGate' = AtGate
    BY <1>0, <2>2 DEF AllIssued, AtGate
  <2>4. NothingLost'
    BY <1>0, <1>1, <1>2, <2>1, <2>3 DEF UsedInv, NothingLost
  <2>5. RefusedAtEnd'
    BY <1>0, <1>1, <1>2, <2>1, <2>2 DEF UsedInv, RefusedAtEnd
  <2>6. EndsForAReason'
    BY <1>0, <2>2 DEF UsedInv, EndsForAReason
  <2> QED BY <1>0, <1>1, <1>3, <2>2, <2>3, <2>4, <2>5, <2>6 DEF UsedInv
<1>5. CASE ~OverCount(seq) /\ ~OverBudget(seq) /\ Push(a, seq) /\ UNCHANGED slot
  <2>1. /\ AllIssued' = AllIssued \cup {seq}
        /\ \A b \in Actors : pc'[b] = IF b = a THEN "filling" ELSE pc[b]
        /\ UNCHANGED noMoreWork
    BY <1>0, <1>5, PushEffect DEF BudgetInv
  <2>2. AtGate' = AtGate
    BY <1>0, <1>5, <2>1 DEF AtGate
  <2>3. AllIssued' \subseteq Indexes'
    BY <1>0, <1>1, <1>5, <2>1, AdmittedIsBudgeted DEF UsedInv
  <2>4. NothingLost'
    BY <1>0, <1>1, <1>2, <2>1, <2>2 DEF UsedInv, NothingLost
  <2>5. RefusedAtEnd'
    BY <1>0, <1>1, <1>2, <2>1 DEF UsedInv, RefusedAtEnd
  <2>6. EndsForAReason'
    BY <1>0, <2>1 DEF UsedInv, EndsForAReason
  <2> QED BY <1>0, <1>3, <2>1, <2>3, <2>4, <2>5, <2>6 DEF UsedInv
<1>6. CASE /\ slot' = [slot EXCEPT ![a] = seq]
           /\ Goto(a, "gated")
           /\ UNCHANGED <<noMoreWork, work>>
  <2>1. /\ \A b \in Actors : pc'[b] = IF b = a THEN "gated" ELSE pc[b]
        /\ \A b \in Actors : slot'[b] = IF b = a THEN seq ELSE slot[b]
        /\ UNCHANGED <<issued, noMoreWork>>
    BY <1>0, <1>6 DEF Goto, work, BudgetInv, BudgetTypeOK
  <2>2. AllIssued' = AllIssued
    BY <2>1 DEF AllIssued
  <2>3. AtGate' = AtGate \cup {seq}
    BY <1>0, <2>1 DEF AtGate
  <2>4. NothingLost'
    BY <1>0, <1>1, <1>2, <2>2, <2>3 DEF UsedInv, NothingLost
  <2>5. RefusedAtEnd'
    BY <1>0, <1>1, <1>2, <2>1 DEF UsedInv, RefusedAtEnd
  <2>6. EndsForAReason'
    BY <1>0, <2>1 DEF UsedInv, EndsForAReason
  <2> QED BY <1>0, <1>1, <1>3, <2>1, <2>2, <2>4, <2>5, <2>6 DEF UsedInv
<1> QED BY <1>4, <1>5, <1>6 DEF Take

\* The second half: the index waited for is issued, or lost to a cancelled run.
LEMMA PassGateUsed ==
    ASSUME UsedInv, BudgetInv', NEW a \in Actors, PassGate(a)
    PROVE  UsedInv'
<1>0. /\ pc[a] = "gated" /\ slot[a] \in Nat /\ slot[a] \in Indexes
      /\ BudgetInv
      /\ UNCHANGED <<seq, cancelled, clock, slot, dead, result>>
  BY DEF PassGate, UsedInv, BudgetInv, BudgetTypeOK, ClaimsDisjoint
<1>1. Indexes' = Indexes /\ DeadlineMet' = DeadlineMet
  BY <1>0 DEF Indexes, Bounded, Limit, DeadlineMet
<1>2. result = "running" /\ ResultTrue'
  BY <1>0 DEF UsedInv, ResultTrue, Joined
<1>3. CASE Push(a, slot[a])
  <2>1. /\ AllIssued' = AllIssued \cup {slot[a]}
        /\ \A b \in Actors : pc'[b] = IF b = a THEN "filling" ELSE pc[b]
        /\ UNCHANGED noMoreWork
    BY <1>0, <1>3, PushEffect DEF BudgetInv
  <2>2. AtGate \subseteq AtGate' \cup {slot[a]}
    BY <1>0, <2>1 DEF AtGate
  <2>3. NothingLost'
    BY <1>0, <1>1, <2>1, <2>2 DEF UsedInv, NothingLost
  <2>4. RefusedAtEnd'
    BY <1>0, <1>1, <2>1 DEF UsedInv, RefusedAtEnd
  <2>5. EndsForAReason'
    BY <1>0, <2>1 DEF UsedInv, EndsForAReason
  <2> QED BY <1>0, <1>1, <1>2, <2>1, <2>3, <2>4, <2>5 DEF UsedInv
<1>4. CASE cancelled /\ Refused(a)
  <2>1. /\ \A b \in Actors : pc'[b] = IF b = a THEN "filling" ELSE pc[b]
        /\ noMoreWork' \in [Actors -> BOOLEAN]
        /\ UNCHANGED issued
    BY <1>0, <1>4 DEF Refused, Goto, work, UsedInv, BudgetInv, BudgetTypeOK
  <2>2. NothingLost' /\ RefusedAtEnd'
    BY <1>0, <1>4 DEF NothingLost, RefusedAtEnd
  <2>3. EndsForAReason'
    BY <1>0, <1>4, <2>1 DEF UsedInv, EndsForAReason
  <2>4. AllIssued' = AllIssued
    BY <2>1 DEF AllIssued
  <2> QED BY <1>0, <1>1, <1>2, <2>1, <2>2, <2>3, <2>4 DEF UsedInv
<1> QED BY <1>3, <1>4 DEF PassGate

LEMMA UsedInvStep == UsedInv /\ [Next]_vars => UsedInv'
<1> SUFFICES ASSUME UsedInv, [Next]_vars PROVE UsedInv'
  OBVIOUS
<1>0. BudgetInv'
  BY BudgetInvStep DEF UsedInv
<1>1. ASSUME NEW a \in Actors, Connected(a) PROVE UsedInv'
  <2>1. Keeps /\ pc[a] = "connecting" /\ pc' = [pc EXCEPT ![a] = "filling"]
    BY <1>1 DEF Connected, Goto, work, Keeps
  <2> QED BY <1>0, <2>1, KeepsUsed
<1>2. ASSUME NEW a \in Actors, ConnectFails(a) PROVE UsedInv'
  <2>1. Keeps /\ pc[a] = "connecting" /\ pc' = [pc EXCEPT ![a] = "failed"]
    BY <1>2 DEF ConnectFails, Goto, Keeps
  <2> QED BY <1>0, <2>1, KeepsUsed
<1>3. ASSUME NEW a \in Actors, Ask(a) PROVE UsedInv'
  <2>1. Keeps /\ pc[a] = "filling" /\ pc' = [pc EXCEPT ![a] = "taking"]
    BY <1>3 DEF Ask, Goto, work, Keeps
  <2> QED BY <1>0, <2>1, KeepsUsed
<1>4. ASSUME NEW a \in Actors, StopFilling(a) PROVE UsedInv'
  <2>1. Keeps /\ pc[a] = "filling"
    BY <1>4 DEF StopFilling, work, Keeps
  <2>2. CASE UNCHANGED pc
    BY <1>0, <2>1, <2>2, SameUsed
  <2>3. CASE Finished(a) /\ pc' = [pc EXCEPT ![a] = "draining"]
    <3>1. noMoreWork[a] \/ dead[a] \/ cancelled
      BY <2>3 DEF Finished, IsClosed
    <3> QED BY <1>0, <2>1, <2>3, <3>1, KeepsUsed
  <2>4. CASE pc' = [pc EXCEPT ![a] = "selecting"]
    BY <1>0, <2>1, <2>4, KeepsUsed
  <2> QED BY <1>4, <2>2, <2>3, <2>4 DEF StopFilling, Goto
<1>5. ASSUME NEW a \in Actors, Take(a) PROVE UsedInv'
  BY <1>0, <1>5, TakeUsed
<1>6. ASSUME NEW a \in Actors, PassGate(a) PROVE UsedInv'
  BY <1>0, <1>6, PassGateUsed
<1>7. ASSUME NEW a \in Actors, \E i \in queued[a] : Poll(a, i) PROVE UsedInv'
  <2>1. Keeps /\ UNCHANGED pc
    BY <1>7 DEF Poll, Keeps
  <2> QED BY <1>0, <2>1, SameUsed
<1>8. ASSUME NEW a \in Actors, SeeCancel(a) PROVE UsedInv'
  <2>1. Keeps /\ pc[a] = "selecting" /\ cancelled /\ pc' = [pc EXCEPT ![a] = "grace"]
    BY <1>8 DEF SeeCancel, Goto, work, Keeps
  <2> QED BY <1>0, <2>1, KeepsUsed
<1>9. ASSUME NEW a \in Actors, GraceEnds(a) PROVE UsedInv'
  <2>1. Keeps /\ pc[a] = "grace" /\ pc' = [pc EXCEPT ![a] = "draining"]
    BY <1>9 DEF GraceEnds, Goto, work, Keeps
  <2>2. cancelled
    BY <2>1 DEF UsedInv, EndsForAReason
  <2> QED BY <1>0, <2>1, <2>2, KeepsUsed
<1>10. ASSUME NEW a \in Actors, Drain(a) PROVE UsedInv'
  <2>1. Keeps /\ pc[a] = "draining" /\ pc' = [pc EXCEPT ![a] = "done"]
    BY <1>10 DEF Drain, Goto, Keeps
  <2>2. noMoreWork[a] \/ dead[a] \/ cancelled
    BY <2>1 DEF UsedInv, EndsForAReason
  <2> QED BY <1>0, <2>1, <2>2, KeepsUsed
<1>11. ASSUME NEW a \in Actors, NEW i, NEW r, Collect(a, i, r) PROVE UsedInv'
  <2>1. CASE pc[a] = "selecting"
    <3>1. Keeps /\ pc' = [pc EXCEPT ![a] = "filling"]
      BY <1>11, <2>1 DEF Collect, Goto, Keeps
    <3> QED BY <1>0, <2>1, <3>1, KeepsUsed
  <2>2. CASE pc[a] = "grace"
    <3>1. Keeps /\ pc' = [pc EXCEPT ![a] = "grace"]
      BY <1>11, <2>2 DEF Collect, Goto, Keeps
    <3>2. cancelled
      BY <2>2 DEF UsedInv, EndsForAReason
    <3> QED BY <1>0, <2>2, <3>1, <3>2, KeepsUsed
  <2> QED BY <1>11, <2>1, <2>2 DEF Collect
<1>12. ASSUME NEW a \in Actors, ConnectionCloses(a) PROVE UsedInv'
  <2>1. UNCHANGED <<seq, cancelled, clock, pc, noMoreWork, slot, issued, result>>
    BY <1>12 DEF ConnectionCloses, work
  <2>2. dead' \in [Actors -> BOOLEAN] /\ \A b \in Actors : dead[b] => dead'[b]
    BY <1>12 DEF ConnectionCloses, UsedInv
  <2>3. /\ AllIssued' = AllIssued /\ AtGate' = AtGate /\ Indexes' = Indexes
        /\ DeadlineMet' = DeadlineMet /\ Joined' = Joined
    BY <2>1 DEF AllIssued, AtGate, Indexes, Bounded, Limit, DeadlineMet, Joined
  <2>4. NothingLost' /\ RefusedAtEnd' /\ ResultTrue'
    BY <2>1, <2>3 DEF UsedInv, NothingLost, RefusedAtEnd, ResultTrue
  <2>5. EndsForAReason'
    BY <2>1, <2>2 DEF UsedInv, EndsForAReason
  <2> QED BY <1>0, <2>1, <2>2, <2>3, <2>4, <2>5 DEF UsedInv
<1>13. CASE Signal
  <2>1. /\ cancelled' /\ result = "running"
        /\ UNCHANGED <<seq, clock, pc, noMoreWork, slot, dead, issued, result>>
    BY <1>13 DEF Signal, work
  <2>2. AllIssued' = AllIssued /\ Indexes' = Indexes
    BY <2>1 DEF AllIssued, Indexes, Bounded, Limit
  <2> QED BY <1>0, <2>1, <2>2 DEF UsedInv, NothingLost, RefusedAtEnd, EndsForAReason, ResultTrue
<1>14. CASE Tick
  <2>1. /\ clock' = clock + 1 /\ clock \in Nat
        /\ UNCHANGED <<seq, cancelled, pc, noMoreWork, slot, dead, issued, result>>
    BY <1>14 DEF Tick, work, UsedInv, BudgetInv, BudgetTypeOK
  <2>2. DeadlineMet => DeadlineMet'
    BY <2>1, LoadAssumption DEF DeadlineMet
  <2>3. /\ AllIssued' = AllIssued /\ AtGate' = AtGate /\ Indexes' = Indexes
        /\ Joined' = Joined
    BY <2>1 DEF AllIssued, AtGate, Indexes, Bounded, Limit, Joined
  <2>4. NothingLost' /\ RefusedAtEnd'
    BY <2>1, <2>2, <2>3 DEF UsedInv, NothingLost, RefusedAtEnd
  <2> QED BY <1>0, <2>1, <2>3, <2>4 DEF UsedInv, EndsForAReason, ResultTrue
<1>15. CASE RunReturns
  <2>1. /\ Joined /\ UNCHANGED <<seq, cancelled, clock, pc, noMoreWork, slot, dead, issued>>
        /\ result' = IF cancelled THEN "cancelled" ELSE "completed"
    BY <1>15 DEF RunReturns, work
  <2>2. /\ AllIssued' = AllIssued /\ AtGate' = AtGate /\ Indexes' = Indexes
        /\ DeadlineMet' = DeadlineMet /\ Joined' = Joined
    BY <2>1 DEF AllIssued, AtGate, Indexes, Bounded, Limit, DeadlineMet, Joined
  <2>3. ResultTrue'
    BY <2>1, <2>2 DEF ResultTrue
  <2> QED BY <1>0, <2>1, <2>2, <2>3 DEF UsedInv, NothingLost, RefusedAtEnd, EndsForAReason
<1>16. CASE UNCHANGED vars
  <2>1. Keeps /\ UNCHANGED pc
    BY <1>16 DEF vars, Keeps
  <2> QED BY <1>0, <2>1, SameUsed
<1> QED BY <1>1, <1>2, <1>3, <1>4, <1>5, <1>6, <1>7, <1>8, <1>9, <1>10, <1>11, <1>12,
           <1>13, <1>14, <1>15, <1>16 DEF Next, Advances, Collects

LEMMA UsedInvInit == Init => UsedInv
<1> SUFFICES ASSUME Init PROVE UsedInv
  OBVIOUS
<1>1. BudgetInv
  BY BudgetInvInit
<1>2. AllIssued = {}
  BY DEF Init, AllIssued
<1>3. NothingLost
  BY DEF Init, NothingLost, Indexes
<1>4. RefusedAtEnd /\ EndsForAReason /\ ResultTrue
  BY DEF Init, RefusedAtEnd, EndsForAReason, ResultTrue
<1> QED BY <1>1, <1>2, <1>3, <1>4 DEF Init, UsedInv

\* What a connection that was usable to the end says of the whole budget.
LEMMA UsedInvImplies == UsedInv => BudgetUsed
<1> SUFFICES ASSUME UsedInv, result = "completed", ~DeadlineMet,
                    NEW a \in Actors, pc[a] = "done", ~dead[a]
             PROVE  Bounded /\ AllIssued = Indexes
  BY DEF BudgetUsed, DeadlineMet
<1>1. ~cancelled /\ Joined
  BY DEF UsedInv, ResultTrue
<1>2. noMoreWork[a]
  BY <1>1 DEF UsedInv, EndsForAReason
<1>3. \A i \in Indexes : i < seq
  BY <1>1, <1>2 DEF UsedInv, RefusedAtEnd
<1>4. AtGate = {}
  BY <1>1 DEF Joined, AtGate
<1>5. Indexes \subseteq AllIssued
  BY <1>1, <1>3, <1>4 DEF UsedInv, NothingLost
<1>6. seq \in Nat /\ seq \notin Indexes
  BY <1>3 DEF UsedInv, BudgetInv, BudgetTypeOK
<1>7. Bounded
  BY <1>6 DEF Indexes
<1> QED BY <1>5, <1>7 DEF UsedInv

\* A run that completes with a connection still usable has issued every index of
\* its budget, whatever became of the other connections.
THEOREM BudgetIsUsed == Spec => []BudgetUsed
BY UsedInvInit, UsedInvStep, UsedInvImplies, PTL DEF Spec

-------------------------------------------------------------------------------
(* The counters of a connection add up.                                      *)

CountersTyped == recorder \in [Actors -> [Counters -> Nat]]

\* The open queries of an actor are among those it pushed, each once.
OpenAreIssued ==
    /\ queued \in [Actors -> SUBSET Nat] /\ flight \in [Actors -> SUBSET Nat]
    /\ \A a \in Actors : IsFiniteSet(issued[a]) /\ Open(a) \subseteq issued[a]

\* An actor that connects has nothing open, and only a cancelled one drains its
\* connection with queries still open.
DrainsEmpty ==
    /\ \A a \in Actors : pc[a] = "connecting" => Open(a) = {}
    /\ \A a \in Actors : pc[a] = "grace" => cancelled
    /\ \A a \in Actors : pc[a] = "draining" /\ ~cancelled => Open(a) = {}

AccountInv == BudgetInv /\ CountersTyped /\ OpenAreIssued /\ DrainsEmpty /\ Accounted

\* What the invariant says of one actor.
Balanced(a) ==
    /\ queued[a] \subseteq Nat /\ flight[a] \subseteq Nat
    /\ recorder[a] \in [Counters -> Nat]
    /\ IsFiniteSet(issued[a]) /\ Open(a) \subseteq issued[a]
    /\ pc[a] = "connecting" => Open(a) = {}
    /\ pc[a] = "grace" => cancelled
    /\ pc[a] = "draining" /\ ~cancelled => Open(a) = {}
    /\ recorder[a]["sent"] = Cardinality(issued[a])
    /\ pc[a] \notin {"failed", "done"} =>
           recorder[a]["sent"] = Ended(a) + Cardinality(Open(a))
    /\ pc[a] = "done" => Ended(a) <= recorder[a]["sent"]
    /\ pc[a] = "done" /\ ~cancelled => recorder[a]["sent"] = Ended(a)

Shaped ==
    /\ DOMAIN queued = Actors /\ DOMAIN flight = Actors /\ DOMAIN recorder = Actors
    /\ queued = [a \in Actors |-> queued[a]]
    /\ flight = [a \in Actors |-> flight[a]]
    /\ recorder = [a \in Actors |-> recorder[a]]

LEMMA AccountByActor ==
    AccountInv => BudgetInv /\ Shaped /\ \A a \in Actors : Balanced(a)
<1>1. AccountInv => Shaped
  BY DEF AccountInv, CountersTyped, OpenAreIssued, Shaped
<1>2. AccountInv => \A a \in Actors : Balanced(a)
  BY DEF AccountInv, CountersTyped, OpenAreIssued, DrainsEmpty, Accounted, Balanced
<1> QED BY <1>1, <1>2 DEF AccountInv

LEMMA BalancedAdds ==
    ASSUME BudgetInv', Shaped', \A a \in Actors : Balanced(a)'
    PROVE  AccountInv'
<1>1. CountersTyped'
  BY DEF Shaped, CountersTyped, Balanced
<1>2. OpenAreIssued'
  BY DEF Shaped, OpenAreIssued, Balanced
<1>3. DrainsEmpty' /\ Accounted'
  BY DEF DrainsEmpty, Accounted, Balanced
<1> QED BY <1>1, <1>2, <1>3 DEF AccountInv

\* An actor whose queries and counters a step leaves alone, and whose place it
\* does not change, stays balanced: the run can only become cancelled.
LEMMA OthersBalanced ==
    ASSUME NEW b \in Actors, Balanced(b), cancelled => cancelled',
           pc'[b] = pc[b], queued'[b] = queued[b], flight'[b] = flight[b],
           recorder'[b] = recorder[b], issued'[b] = issued[b]
    PROVE  Balanced(b)'
BY DEF Balanced, Open, Ended

\* Sets with an element more and an element less.
LEMMA CardinalityOfOpen ==
    ASSUME NEW S, IsFiniteSet(S), NEW T \in SUBSET S, NEW x
    PROVE  /\ IsFiniteSet(T) /\ Cardinality(T) \in Nat
           /\ IsFiniteSet(S \cup {x})
           /\ x \notin S => /\ Cardinality(S \cup {x}) = Cardinality(S) + 1
                            /\ Cardinality(T \cup {x}) = Cardinality(T) + 1
           /\ x \in T => Cardinality(T \ {x}) = Cardinality(T) - 1
<1>1. IsFiniteSet(T)
  BY FS_Subset
<1> QED BY <1>1, FS_CardinalityType, FS_AddElement, FS_RemoveElement

\* A step that changes the queries, the counters and the place of one actor only.
OnlyOf(a) ==
    /\ Shaped'
    /\ \A b \in Actors \ {a} :
          /\ pc'[b] = pc[b] /\ queued'[b] = queued[b] /\ flight'[b] = flight[b]
          /\ recorder'[b] = recorder[b] /\ issued'[b] = issued[b]
    /\ UNCHANGED cancelled

\* A step that only moves an actor that is not over, to l.
OnlyMoves(a, l) ==
    /\ pc' = [pc EXCEPT ![a] = l]
    /\ UNCHANGED <<work, cancelled>>
    /\ pc[a] \notin {"failed", "done"}
    /\ l \notin {"connecting", "failed", "done"}
    /\ l = "grace" => cancelled
    /\ l = "draining" => cancelled \/ Open(a) = {}

LEMMA MoveBalances ==
    ASSUME BudgetInv, Shaped, NEW a \in Actors, Balanced(a), NEW l, OnlyMoves(a, l)
    PROVE  Balanced(a)' /\ OnlyOf(a)
<1>1. pc'[a] = l
  BY DEF BudgetInv, BudgetTypeOK, OnlyMoves
<1>2. UNCHANGED <<queued, flight, recorder, issued, cancelled>>
  BY DEF work, OnlyMoves
<1>3. Balanced(a)'
  BY <1>1, <1>2 DEF Balanced, Open, Ended, OnlyMoves
<1>4. OnlyOf(a)
  BY <1>2 DEF OnlyOf, OnlyMoves, Shaped, BudgetInv, BudgetTypeOK
<1> QED BY <1>3, <1>4

\* A turn of the loop that changes nothing.
LEMMA SameBalances ==
    ASSUME BudgetInv, Shaped, NEW a \in Actors, Balanced(a), UNCHANGED <<work, pc, cancelled>>
    PROVE  Balanced(a)' /\ OnlyOf(a)
<1>1. UNCHANGED <<queued, flight, recorder, issued>>
  BY DEF work
<1>2. Balanced(a)'
  BY <1>1 DEF Balanced, Open, Ended
<1>3. OnlyOf(a)
  BY <1>1 DEF OnlyOf, Shaped
<1> QED BY <1>2, <1>3

\* A push adds one query to the sent, the issued and the open.
LEMMA PushBalances ==
    ASSUME BudgetInv, Shaped, NEW a \in Actors, Balanced(a), NEW i \in Nat, Push(a, i),
           pc[a] \notin {"failed", "done"}, i \notin issued[a], UNCHANGED cancelled
    PROVE  Balanced(a)' /\ OnlyOf(a)
<1>0. Balanced(a) /\ Shaped /\ DOMAIN issued = Actors /\ DOMAIN pc = Actors
  BY DEF BudgetInv, BudgetTypeOK
<1>1. /\ queued'[a] = queued[a] \cup {i} /\ flight'[a] = flight[a]
      /\ issued'[a] = issued[a] \cup {i} /\ pc'[a] = "filling"
  BY <1>0 DEF Push, Goto, Shaped
<1>2. recorder'[a] = [recorder[a] EXCEPT !["sent"] = @ + 1]
  BY <1>0 DEF Push, Shaped
<1>3. /\ recorder'[a] \in [Counters -> Nat]
      /\ recorder'[a]["sent"] = recorder[a]["sent"] + 1
      /\ Ended(a)' = Ended(a) /\ Ended(a) \in Nat
  BY <1>0, <1>2 DEF Balanced, Counters, Ended
<1>4. Open(a)' = Open(a) \cup {i}
  BY <1>1 DEF Open
<1>5. /\ IsFiniteSet(issued'[a])
      /\ Cardinality(issued'[a]) = Cardinality(issued[a]) + 1
      /\ Cardinality(Open(a)') = Cardinality(Open(a)) + 1
      /\ Cardinality(Open(a)) \in Nat
  <2>1. IsFiniteSet(issued[a]) /\ Open(a) \in SUBSET issued[a]
    BY <1>0 DEF Balanced
  <2>2. /\ Cardinality(Open(a)) \in Nat
        /\ IsFiniteSet(issued[a] \cup {i})
        /\ Cardinality(issued[a] \cup {i}) = Cardinality(issued[a]) + 1
        /\ Cardinality(Open(a) \cup {i}) = Cardinality(Open(a)) + 1
    BY <2>1, CardinalityOfOpen
  <2> QED BY <1>1, <1>4, <2>2
<1>6. Balanced(a)'
  <2>1. Open(a)' \subseteq issued'[a] /\ queued'[a] \subseteq Nat /\ flight'[a] \subseteq Nat
    BY <1>0, <1>1, <1>4 DEF Balanced
  <2>2. recorder'[a]["sent"] = Cardinality(issued'[a])
    BY <1>0, <1>3, <1>5 DEF Balanced
  <2>3. recorder'[a]["sent"] = Ended(a)' + Cardinality(Open(a)')
    BY <1>0, <1>3, <1>5 DEF Balanced
  <2> QED BY <1>1, <1>3, <1>5, <2>1, <2>2, <2>3 DEF Balanced
<1>7. OnlyOf(a)
  <2>1. Shaped'
    BY <1>0 DEF Push, Shaped
  <2> QED BY <1>0, <2>1 DEF Push, Goto, OnlyOf
<1> QED BY <1>6, <1>7

\* A result takes one query from the open ones to one of the counters.
LEMMA CollectBalances ==
    ASSUME BudgetInv, Shaped, NEW a \in Actors, Balanced(a), NEW i, NEW r, Collect(a, i, r)
    PROVE  Balanced(a)' /\ OnlyOf(a)
<1>0. /\ Balanced(a) /\ Shaped /\ DOMAIN pc = Actors
      /\ i \in Open(a) /\ r \in Results /\ UNCHANGED <<cancelled, issued>>
      /\ pc[a] \in {"selecting", "grace"}
  <2>1. r \in Results
    BY DEF Collect, Returns, Results, Counters
  <2> QED BY <2>1 DEF Collect, BudgetInv, BudgetTypeOK
<1>1. /\ queued'[a] = queued[a] \ {i} /\ flight'[a] = flight[a] \ {i}
      /\ pc'[a] = IF pc[a] = "selecting" THEN "filling" ELSE "grace"
  BY <1>0 DEF Collect, Goto, Shaped
<1>2. recorder'[a] = [recorder[a] EXCEPT ![r] = @ + 1]
  BY <1>0 DEF Collect, Record, Shaped
<1>3. /\ recorder'[a] \in [Counters -> Nat]
      /\ recorder'[a]["sent"] = recorder[a]["sent"]
      /\ Ended(a)' = Ended(a) + 1
      /\ Ended(a) \in Nat
  BY <1>0, <1>2 DEF Balanced, Counters, Results, Ended
<1>4. Open(a)' = Open(a) \ {i}
  BY <1>1 DEF Open
<1>5. Cardinality(Open(a)') = Cardinality(Open(a)) - 1 /\ Cardinality(Open(a)) \in Nat
  <2>1. IsFiniteSet(issued[a]) /\ Open(a) \in SUBSET issued[a]
    BY <1>0 DEF Balanced
  <2>2. /\ Cardinality(Open(a)) \in Nat
        /\ Cardinality(Open(a) \ {i}) = Cardinality(Open(a)) - 1
    BY <1>0, <2>1, CardinalityOfOpen
  <2> QED BY <1>4, <2>2
<1>6. Balanced(a)'
  <2>1. Open(a)' \subseteq issued'[a] /\ queued'[a] \subseteq Nat /\ flight'[a] \subseteq Nat
    BY <1>0, <1>1, <1>4 DEF Balanced
  <2>2. recorder'[a]["sent"] = Ended(a)' + Cardinality(Open(a)')
    BY <1>0, <1>3, <1>5 DEF Balanced
  <2> QED BY <1>0, <1>1, <1>3, <2>1, <2>2 DEF Balanced
<1>7. OnlyOf(a)
  <2>1. Shaped'
    BY <1>0 DEF Collect, Record, Shaped
  <2> QED BY <1>0, <2>1 DEF Collect, Record, Goto, OnlyOf
<1> QED BY <1>6, <1>7

\* A first poll takes a query from one set of open ones to the other.
LEMMA PollBalances ==
    ASSUME BudgetInv, Shaped, NEW a \in Actors, Balanced(a), NEW i, Poll(a, i)
    PROVE  Balanced(a)' /\ OnlyOf(a)
<1>0. /\ Balanced(a) /\ Shaped
      /\ UNCHANGED <<cancelled, issued, pc, recorder>> /\ i \in queued[a]
  BY DEF Poll
<1>1. queued'[a] = queued[a] \ {i} /\ flight'[a] = flight[a] \cup {i}
  BY <1>0 DEF Poll, Shaped
<1>2. Open(a)' = Open(a)
  BY <1>0, <1>1 DEF Open
<1>3. Ended(a)' = Ended(a)
  BY <1>0 DEF Ended
<1>4. Balanced(a)'
  BY <1>0, <1>1, <1>2, <1>3 DEF Balanced
<1>5. OnlyOf(a)
  <2>1. Shaped'
    BY <1>0 DEF Poll, Shaped
  <2> QED BY <1>0, <2>1 DEF Poll, OnlyOf
<1> QED BY <1>4, <1>5

\* The queries left open vanish with the actor, only if the run was cancelled.
LEMMA DrainBalances ==
    ASSUME BudgetInv, Shaped, NEW a \in Actors, Balanced(a), Drain(a)
    PROVE  Balanced(a)' /\ OnlyOf(a)
<1>0. /\ Balanced(a) /\ Shaped /\ DOMAIN pc = Actors
      /\ UNCHANGED <<cancelled, issued, recorder>> /\ pc[a] = "draining"
  BY DEF Drain, BudgetInv, BudgetTypeOK
<1>1. queued'[a] = {} /\ flight'[a] = {} /\ pc'[a] = "done"
  BY <1>0 DEF Drain, Goto, Shaped
<1>2. Open(a)' = {} /\ Ended(a)' = Ended(a)
  BY <1>0, <1>1 DEF Open, Ended
<1>3. Cardinality(Open(a)) \in Nat /\ (Open(a) = {} => Cardinality(Open(a)) = 0)
  <2>1. IsFiniteSet(Open(a))
    BY <1>0, FS_Subset DEF Balanced
  <2> QED BY <2>1, FS_CardinalityType, FS_EmptySet
<1>4. Ended(a) \in Nat
  BY <1>0 DEF Balanced, Counters, Ended
<1>5. /\ Ended(a) <= recorder[a]["sent"]
      /\ ~cancelled => recorder[a]["sent"] = Ended(a)
  BY <1>0, <1>3, <1>4 DEF Balanced
<1>6. Balanced(a)'
  BY <1>0, <1>1, <1>2, <1>5 DEF Balanced
<1>7. OnlyOf(a)
  <2>1. Shaped'
    BY <1>0 DEF Drain, Shaped
  <2> QED BY <1>0, <2>1 DEF Drain, Goto, OnlyOf
<1> QED BY <1>6, <1>7

\* A failed connect is one connection error, of no query.
LEMMA ConnectFailsBalances ==
    ASSUME BudgetInv, Shaped, NEW a \in Actors, Balanced(a), ConnectFails(a)
    PROVE  Balanced(a)' /\ OnlyOf(a)
<1>0. /\ Balanced(a) /\ Shaped /\ DOMAIN pc = Actors
      /\ UNCHANGED <<cancelled, issued, queued, flight>>
  BY DEF ConnectFails, BudgetInv, BudgetTypeOK
<1>1. pc'[a] = "failed"
  BY <1>0 DEF ConnectFails, Goto
<1>2. recorder'[a] = [recorder[a] EXCEPT !["conn_errors"] = @ + 1]
  BY <1>0 DEF ConnectFails, Shaped
<1>3. /\ recorder'[a] \in [Counters -> Nat]
      /\ recorder'[a]["sent"] = recorder[a]["sent"]
  BY <1>0, <1>2 DEF Balanced, Counters
<1>4. Open(a)' = Open(a)
  BY <1>0 DEF Open
<1>5. Balanced(a)'
  BY <1>0, <1>1, <1>3, <1>4 DEF Balanced
<1>6. OnlyOf(a)
  <2>1. Shaped'
    BY <1>0 DEF ConnectFails, Shaped
  <2> QED BY <1>0, <2>1 DEF ConnectFails, Goto, OnlyOf
<1> QED BY <1>5, <1>6

\* Every step of an actor, the answers to its queries among them.
LEMMA ActorBalances ==
    ASSUME BudgetInv, Shaped, NEW a \in Actors, Balanced(a), Advances(a) \/ Collects(a)
    PROVE  Balanced(a)' /\ OnlyOf(a)
<1>1. CASE Connected(a)
  <2>1. OnlyMoves(a, "filling")
    BY <1>1 DEF Connected, Goto, OnlyMoves
  <2> QED BY <2>1, MoveBalances
<1>2. CASE ConnectFails(a)
  BY <1>2, ConnectFailsBalances
<1>3. CASE Ask(a)
  <2>1. OnlyMoves(a, "taking")
    BY <1>3 DEF Ask, Goto, OnlyMoves
  <2> QED BY <2>1, MoveBalances
<1>4. CASE StopFilling(a)
  <2>1. UNCHANGED <<work, cancelled>> /\ pc[a] = "filling"
    BY <1>4 DEF StopFilling
  <2>2. CASE UNCHANGED pc
    BY <2>1, <2>2, SameBalances
  <2>3. CASE Finished(a) /\ pc' = [pc EXCEPT ![a] = "draining"]
    <3>1. OnlyMoves(a, "draining")
      BY <2>1, <2>3 DEF Finished, OnlyMoves
    <3> QED BY <3>1, MoveBalances
  <2>4. CASE pc' = [pc EXCEPT ![a] = "selecting"]
    <3>1. OnlyMoves(a, "selecting")
      BY <2>1, <2>4 DEF OnlyMoves
    <3> QED BY <3>1, MoveBalances
  <2> QED BY <1>4, <2>2, <2>3, <2>4 DEF StopFilling, Goto
<1>5. CASE Take(a)
  <2>0. pc[a] = "taking" /\ UNCHANGED cancelled
    BY <1>5 DEF Take
  <2>1. CASE Push(a, seq)
    <3>1. seq \in Nat /\ seq \notin issued[a]
      BY DEF BudgetInv, BudgetTypeOK, ClaimsDisjoint
    <3> QED BY <2>0, <2>1, <3>1, PushBalances
  <2>2. CASE Refused(a)
    <3>1. OnlyMoves(a, "filling")
      BY <2>0, <2>2 DEF Refused, Goto, OnlyMoves
    <3> QED BY <3>1, MoveBalances
  <2>3. CASE Goto(a, "gated") /\ UNCHANGED work
    <3>1. OnlyMoves(a, "gated")
      BY <2>0, <2>3 DEF Goto, OnlyMoves
    <3> QED BY <3>1, MoveBalances
  <2> QED BY <1>5, <2>1, <2>2, <2>3 DEF Take
<1>6. CASE PassGate(a)
  <2>0. pc[a] = "gated" /\ UNCHANGED cancelled
    BY <1>6 DEF PassGate
  <2>1. CASE Push(a, slot[a])
    <3>1. slot[a] \in Nat /\ slot[a] \notin issued[a]
      BY <2>0 DEF BudgetInv, BudgetTypeOK, ClaimsDisjoint
    <3> QED BY <2>0, <2>1, <3>1, PushBalances
  <2>2. CASE Refused(a)
    <3>1. OnlyMoves(a, "filling")
      BY <2>0, <2>2 DEF Refused, Goto, OnlyMoves
    <3> QED BY <3>1, MoveBalances
  <2> QED BY <1>6, <2>1, <2>2 DEF PassGate
<1>7. CASE \E i \in queued[a] : Poll(a, i)
  BY <1>7, PollBalances
<1>8. CASE SeeCancel(a)
  <2>1. OnlyMoves(a, "grace")
    BY <1>8 DEF SeeCancel, Goto, OnlyMoves
  <2> QED BY <2>1, MoveBalances
<1>9. CASE GraceEnds(a)
  <2>1. OnlyMoves(a, "draining")
    BY <1>9 DEF GraceEnds, Goto, OnlyMoves, Balanced
  <2> QED BY <2>1, MoveBalances
<1>10. CASE Drain(a)
  BY <1>10, DrainBalances
<1>11. CASE Collects(a)
  BY <1>11, CollectBalances DEF Collects
<1> QED BY <1>1, <1>2, <1>3, <1>4, <1>5, <1>6, <1>7, <1>8, <1>9, <1>10, <1>11 DEF Advances

LEMMA AccountInvStep == AccountInv /\ [Next]_vars => AccountInv'
<1> SUFFICES ASSUME AccountInv, [Next]_vars PROVE AccountInv'
  OBVIOUS
<1>0. BudgetInv' /\ BudgetInv /\ Shaped /\ \A b \in Actors : Balanced(b)
  BY AccountByActor, BudgetInvStep
<1>1. ASSUME NEW a \in Actors, Advances(a) \/ Collects(a) PROVE AccountInv'
  <2>1. Balanced(a)' /\ OnlyOf(a)
    BY <1>0, <1>1, ActorBalances
  <2>2. \A b \in Actors : Balanced(b)'
    BY <1>0, <2>1, OthersBalanced DEF OnlyOf
  <2> QED BY <1>0, <2>1, <2>2, BalancedAdds DEF OnlyOf
<1>2. ASSUME UNCHANGED <<work, pc>>, cancelled => cancelled' PROVE AccountInv'
  <2>1. UNCHANGED <<pc, queued, flight, recorder, issued>>
    BY <1>2 DEF work
  <2>2. \A b \in Actors : Balanced(b)'
    BY <1>0, <1>2, <2>1, OthersBalanced
  <2>3. Shaped'
    BY <1>0, <2>1 DEF Shaped
  <2> QED BY <1>0, <2>2, <2>3, BalancedAdds
<1>3. ASSUME NEW a \in Actors, ConnectionCloses(a) PROVE AccountInv'
  BY <1>2, <1>3 DEF ConnectionCloses
<1>4. CASE Signal \/ Tick \/ RunReturns
  BY <1>2, <1>4 DEF Signal, Tick, RunReturns
<1>5. CASE UNCHANGED vars
  BY <1>2, <1>5 DEF vars, work
<1> QED BY <1>1, <1>3, <1>4, <1>5 DEF Next

LEMMA AccountInvInit == Init => AccountInv
<1> SUFFICES ASSUME Init PROVE AccountInv
  OBVIOUS
<1>1. BudgetInv
  BY BudgetInvInit
<1>2. CountersTyped /\ DrainsEmpty
  BY DEF Init, CountersTyped, DrainsEmpty, Open
<1>3. \A a \in Actors : Open(a) = {} /\ issued[a] = {} /\ pc[a] = "connecting"
  BY DEF Init, Open
<1>4. IsFiniteSet({}) /\ Cardinality({}) = 0
  BY FS_EmptySet
<1>5. OpenAreIssued
  BY <1>3, <1>4 DEF Init, OpenAreIssued
<1>6. \A a \in Actors : recorder[a]["sent"] = 0 /\ Ended(a) = 0
  BY DEF Init, Ended, Counters
<1>7. Accounted
  BY <1>3, <1>4, <1>6 DEF Accounted
<1> QED BY <1>1, <1>2, <1>5, <1>7 DEF AccountInv

\* Every query a connection sent is counted once as answered, timed out or failed,
\* or is still open; only a cancelled run leaves queries uncounted.
THEOREM QueriesAccounted == Spec => []Accounted
<1>1. AccountInv => Accounted
  BY DEF AccountInv
<1> QED BY <1>1, AccountInvInit, AccountInvStep, PTL DEF Spec
-------------------------------------------------------------------------------
(* The types, and the window.                                                *)

\* An actor asks for one query at a time, and only while its window has room.
Window(a) ==
    /\ IsFiniteSet(Open(a)) /\ Cardinality(Open(a)) <= InFlight
    /\ pc[a] \in {"taking", "gated"} => Cardinality(Open(a)) < InFlight

Windows == \A a \in Actors : Window(a)

\* The type invariant without its bound on the window.
Typed ==
    /\ seq \in Nat
    /\ cancelled \in BOOLEAN
    /\ clock \in 0..Horizon
    /\ pc \in [Actors -> {"connecting", "filling", "taking", "gated", "selecting",
                          "grace", "draining", "done", "failed"}]
    /\ noMoreWork \in [Actors -> BOOLEAN]
    /\ slot \in [Actors -> Nat]
    /\ dead \in [Actors -> BOOLEAN]
    /\ queued \in [Actors -> SUBSET Nat]
    /\ flight \in [Actors -> SUBSET Nat]
    /\ recorder \in [Actors -> [Counters -> Nat]]
    /\ issued \in [Actors -> SUBSET Nat]
    /\ late \in [Actors -> Nat]
    /\ result \in {"running", "cancelled", "completed"}

LEMMA TypedWindows == Typed /\ Windows => LoadTypeOK
BY DEF Typed, Windows, Window, Open, LoadTypeOK

LEMMA TypedPush ==
    ASSUME Typed, NEW a \in Actors, NEW i \in Nat, Push(a, i), seq' \in Nat,
           UNCHANGED <<cancelled, clock, slot, dead, result>>
    PROVE  Typed'
<1>1. recorder' \in [Actors -> [Counters -> Nat]]
  BY DEF Push, Typed, Counters
<1>2. late' \in [Actors -> Nat]
  <2>1. late[a] + (IF dead[a] THEN 1 ELSE 0) \in Nat
    BY DEF Typed
  <2> QED BY <2>1 DEF Push, Typed
<1>3. queued' \in [Actors -> SUBSET Nat] /\ issued' \in [Actors -> SUBSET Nat]
  BY DEF Push, Typed
<1> QED BY <1>1, <1>2, <1>3 DEF Push, Goto, Typed

\* Any step keeps the types.
LEMMA TypedStep == Typed /\ [Next]_vars => Typed'
<1> SUFFICES ASSUME Typed, [Next]_vars PROVE Typed'
  OBVIOUS
<1> USE DEF Typed
<1>1. ASSUME NEW a \in Actors, Connected(a) \/ Ask(a) \/ StopFilling(a) \/ SeeCancel(a) \/ GraceEnds(a)
      PROVE  Typed'
  BY <1>1 DEF Connected, Ask, StopFilling, SeeCancel, GraceEnds, Goto, work
<1>2. ASSUME NEW a \in Actors, ConnectFails(a) PROVE Typed'
  <2>1. recorder' \in [Actors -> [Counters -> Nat]]
    BY <1>2 DEF ConnectFails, Counters
  <2> QED BY <1>2, <2>1 DEF ConnectFails, Goto
<1>3. ASSUME NEW a \in Actors, Take(a) PROVE Typed'
  <2>0. seq' \in Nat /\ UNCHANGED <<cancelled, clock, dead, result>>
    BY <1>3 DEF Take, FetchAdd
  <2>1. CASE Push(a, seq) /\ UNCHANGED slot
    BY <2>0, <2>1, TypedPush
  <2>2. CASE Refused(a) /\ UNCHANGED slot
    BY <2>0, <2>2 DEF Refused, Goto, work
  <2>3. CASE slot' = [slot EXCEPT ![a] = seq] /\ Goto(a, "gated") /\ UNCHANGED <<noMoreWork, work>>
    BY <2>0, <2>3 DEF Goto, work
  <2> QED BY <1>3, <2>1, <2>2, <2>3 DEF Take
<1>4. ASSUME NEW a \in Actors, PassGate(a) PROVE Typed'
  <2>0. seq' \in Nat /\ UNCHANGED <<cancelled, clock, slot, dead, result>> /\ slot[a] \in Nat
    BY <1>4 DEF PassGate
  <2>1. CASE Push(a, slot[a])
    BY <2>0, <2>1, TypedPush
  <2>2. CASE Refused(a)
    BY <2>0, <2>2 DEF Refused, Goto, work
  <2> QED BY <1>4, <2>1, <2>2 DEF PassGate
<1>5. ASSUME NEW a \in Actors, NEW i \in queued[a], Poll(a, i) PROVE Typed'
  BY <1>5 DEF Poll
<1>6. ASSUME NEW a \in Actors, Drain(a) PROVE Typed'
  BY <1>6 DEF Drain, Goto
<1>7. ASSUME NEW a \in Actors, NEW i \in Open(a), NEW r \in Results, Collect(a, i, r) PROVE Typed'
  <2>1. recorder' \in [Actors -> [Counters -> Nat]]
    BY <1>7 DEF Collect, Record, Results, Counters
  <2> QED BY <1>7, <2>1 DEF Collect, Goto
<1>8. ASSUME NEW a \in Actors, ConnectionCloses(a) PROVE Typed'
  BY <1>8 DEF ConnectionCloses, work
<1>9. CASE Signal \/ RunReturns \/ UNCHANGED vars
  BY <1>9 DEF Signal, RunReturns, work, vars
<1>10. CASE Tick
  <2>1. clock' \in 0..Horizon
    BY <1>10, LoadAssumption DEF Tick
  <2> QED BY <1>10, <2>1 DEF Tick, work
<1> QED BY <1>1, <1>2, <1>3, <1>4, <1>5, <1>6, <1>7, <1>8, <1>9, <1>10
        DEF Next, Advances, Collects

\* A window without its query, with another, and with none.
LEMMA WindowSteps ==
    ASSUME NEW S, IsFiniteSet(S), NEW i
    PROVE  /\ IsFiniteSet(S \cup {i}) /\ IsFiniteSet(S \ {i})
           /\ Cardinality(S) < InFlight => Cardinality(S \cup {i}) <= InFlight
           /\ Cardinality(S) <= InFlight => Cardinality(S \ {i}) <= InFlight
           /\ IsFiniteSet({}) /\ Cardinality({}) <= InFlight
<1>1. Cardinality(S) \in Nat /\ Cardinality({}) = 0 /\ IsFiniteSet({})
  BY FS_CardinalityType, FS_EmptySet
<1>2. /\ IsFiniteSet(S \cup {i})
      /\ Cardinality(S \cup {i}) \in {Cardinality(S), Cardinality(S) + 1}
  BY FS_AddElement
<1>3. /\ IsFiniteSet(S \ {i})
      /\ Cardinality(S \ {i}) \in {Cardinality(S), Cardinality(S) - 1}
  BY FS_RemoveElement
<1>4. Cardinality(S \cup {i}) \in Nat /\ Cardinality(S \ {i}) \in Nat
  BY <1>2, <1>3, FS_CardinalityType
<1> QED BY <1>1, <1>2, <1>3, <1>4, LoadAssumption

\* A step that touches the window of one actor.
LEMMA OneWindow ==
    ASSUME Windows, NEW a \in Actors, Window(a)',
           \A b \in Actors \ {a} :
               pc'[b] = pc[b] /\ queued'[b] = queued[b] /\ flight'[b] = flight[b]
    PROVE  Windows'
BY DEF Windows, Window, Open

LEMMA WindowsStep == Typed /\ Windows /\ [Next]_vars => Windows'
<1> SUFFICES ASSUME Typed, Windows, [Next]_vars PROVE Windows'
  OBVIOUS
<1>0. DOMAIN pc = Actors /\ DOMAIN queued = Actors /\ DOMAIN flight = Actors
  BY DEF Typed
<1>1. ASSUME UNCHANGED <<pc, queued, flight>> PROVE Windows'
  BY <1>1 DEF Windows, Window, Open
<1>2. ASSUME NEW a \in Actors, NEW l, pc' = [pc EXCEPT ![a] = l], UNCHANGED <<queued, flight>>,
             l \in {"taking", "gated"} => Cardinality(Open(a)) < InFlight
      PROVE  Windows'
  <2>1. Open(a)' = Open(a) /\ pc'[a] = l
    BY <1>0, <1>2 DEF Open
  <2>2. Window(a)'
    BY <1>2, <2>1 DEF Windows, Window
  <2> QED BY <1>0, <1>2, <2>2, OneWindow
<1>3. ASSUME NEW a \in Actors, NEW i, Push(a, i), pc[a] \in {"taking", "gated"} PROVE Windows'
  <2>1. Open(a)' = Open(a) \cup {i} /\ pc'[a] = "filling"
    BY <1>0, <1>3 DEF Push, Goto, Open
  <2>2. IsFiniteSet(Open(a)) /\ Cardinality(Open(a)) < InFlight
    BY <1>3 DEF Windows, Window
  <2>3. Window(a)'
    BY <2>1, <2>2, WindowSteps DEF Window
  <2>4. \A b \in Actors \ {a} : pc'[b] = pc[b] /\ queued'[b] = queued[b] /\ flight'[b] = flight[b]
    BY <1>0, <1>3 DEF Push, Goto
  <2> QED BY <2>3, <2>4, OneWindow
<1>4. ASSUME NEW a \in Actors, Take(a) PROVE Windows'
  <2>0. pc[a] = "taking"
    BY <1>4 DEF Take
  <2>1. CASE Refused(a)
    BY <1>2, <2>1 DEF Refused, Goto, work
  <2>2. CASE Goto(a, "gated") /\ UNCHANGED work
    BY <1>2, <2>0, <2>2 DEF Goto, work, Windows, Window
  <2> QED BY <1>3, <1>4, <2>0, <2>1, <2>2 DEF Take
<1>5. ASSUME NEW a \in Actors, PassGate(a) PROVE Windows'
  <2>1. CASE Refused(a)
    BY <1>2, <2>1 DEF Refused, Goto, work
  <2> QED BY <1>3, <1>5, <2>1 DEF PassGate
<1>6. ASSUME NEW a \in Actors, Connected(a) \/ Ask(a) \/ StopFilling(a) \/ SeeCancel(a) \/ GraceEnds(a)
      PROVE  Windows'
  <2>1. CASE Ask(a)
    BY <1>2, <2>1 DEF Ask, MayFill, Goto, work
  <2>2. CASE Connected(a)
    BY <1>2, <2>2 DEF Connected, Goto, work
  <2>3. CASE StopFilling(a)
    BY <1>1, <1>2, <2>3 DEF StopFilling, Goto, work
  <2>4. CASE SeeCancel(a) \/ GraceEnds(a)
    BY <1>2, <2>4 DEF SeeCancel, GraceEnds, Goto, work
  <2> QED BY <1>6, <2>1, <2>2, <2>3, <2>4
<1>7. ASSUME NEW a \in Actors, ConnectFails(a) PROVE Windows'
  BY <1>2, <1>7 DEF ConnectFails, Goto
<1>8. ASSUME NEW a \in Actors, NEW i \in queued[a], Poll(a, i) PROVE Windows'
  <2>1. Open(a)' = Open(a) /\ pc'[a] = pc[a] /\ pc[a] \notin {"taking", "gated"}
    BY <1>0, <1>8 DEF Poll, Open
  <2>2. Window(a)'
    BY <2>1 DEF Windows, Window
  <2>3. \A b \in Actors \ {a} : pc'[b] = pc[b] /\ queued'[b] = queued[b] /\ flight'[b] = flight[b]
    BY <1>0, <1>8 DEF Poll
  <2> QED BY <2>2, <2>3, OneWindow
<1>9. ASSUME NEW a \in Actors, Drain(a) PROVE Windows'
  <2>1. Open(a)' = {} /\ pc'[a] = "done"
    BY <1>0, <1>9 DEF Drain, Goto, Open
  <2>2. Window(a)'
    BY <2>1, WindowSteps DEF Windows, Window
  <2>3. \A b \in Actors \ {a} : pc'[b] = pc[b] /\ queued'[b] = queued[b] /\ flight'[b] = flight[b]
    BY <1>0, <1>9 DEF Drain, Goto
  <2> QED BY <2>2, <2>3, OneWindow
<1>10. ASSUME NEW a \in Actors, NEW i \in Open(a), NEW r \in Results, Collect(a, i, r) PROVE Windows'
  <2>1. Open(a)' = Open(a) \ {i} /\ pc'[a] \in {"filling", "grace"}
    BY <1>0, <1>10 DEF Collect, Goto, Open
  <2>2. Window(a)'
    BY <2>1, WindowSteps DEF Windows, Window
  <2>3. \A b \in Actors \ {a} : pc'[b] = pc[b] /\ queued'[b] = queued[b] /\ flight'[b] = flight[b]
    BY <1>0, <1>10 DEF Collect, Goto
  <2> QED BY <2>2, <2>3, OneWindow
<1>11. ASSUME NEW a \in Actors, ConnectionCloses(a) PROVE Windows'
  BY <1>1, <1>11 DEF ConnectionCloses, work
<1>12. CASE Signal \/ Tick \/ RunReturns \/ UNCHANGED vars
  BY <1>1, <1>12 DEF Signal, Tick, RunReturns, work, vars
<1> QED BY <1>4, <1>5, <1>6, <1>7, <1>8, <1>9, <1>10, <1>11, <1>12 DEF Next, Advances, Collects

LEMMA TypesInit == Init => Typed /\ Windows
<1> SUFFICES ASSUME Init PROVE Typed /\ Windows
  OBVIOUS
<1>1. IsFiniteSet({}) /\ Cardinality({}) <= InFlight
  BY WindowSteps, FS_EmptySet
<1>2. recorder \in [Actors -> [Counters -> Nat]]
  BY DEF Init
<1>3. clock \in 0..Horizon
  BY LoadAssumption DEF Init
<1>4. Typed
  BY <1>2, <1>3 DEF Init, Typed
<1>5. \A a \in Actors : Open(a) = {} /\ pc[a] = "connecting"
  BY DEF Init, Open
<1> QED BY <1>1, <1>4, <1>5 DEF Windows, Window

\* The types of the engine, with no more queries open than the window of a
\* connection holds.
THEOREM LoadTyped == Spec => []LoadTypeOK
BY TypesInit, TypedStep, WindowsStep, TypedWindows, PTL DEF Spec
===============================================================================
