--------------------------- MODULE CorrelatorProofs ---------------------------
(***************************************************************************)
(* Proofs about the correlator, for any set of exchanges, any number of    *)
(* transaction ids and any window that fits it; and about FramedConn, for  *)
(* any capacity of its channel: the stream transport is one the correlator *)
(* is made for, so that all that is proved of Correlator holds of Do53-TCP *)
(* and DoT, and no frame is lost between the caller and the peer while the *)
(* writer lives.                                                           *)
(***************************************************************************)
EXTENDS FramedConn, FiniteSetTheorems, SequenceTheorems, TLAPS

\* A Notify exists only once the exchange it is named after has registered: the
\* name of an idle exchange is a fresh one.
HandlesMade ==
    /\ \A q \in Live : pc[handle[q]] # "idle"
    /\ \A k \in 1..Len(free) : pc[free[k]] # "idle"

\* What the steps of the correlator preserve together.
Inv == TypeOK /\ SlotOwnership /\ NotifyExclusive /\ HandlesMade

-------------------------------------------------------------------------------
(* The free list as a stack.                                                 *)

\* Popping returns an element and leaves the others where they were.
LEMMA PopStack ==
    ASSUME NEW S, NEW s \in Seq(S), s # <<>>
    PROVE  /\ Last(s) \in S
           /\ Last(s) = s[Len(s)]
           /\ Len(s) \in Nat \ {0}
           /\ Front(s) \in Seq(S)
           /\ Len(Front(s)) = Len(s) - 1
           /\ \A k \in 1..(Len(s) - 1) : Front(s)[k] = s[k]
<1>1. Len(s) \in Nat \ {0}
  OBVIOUS
<1>2. s[Len(s)] \in S
  BY <1>1
<1> DEFINE n == Len(s) - 1
<1>3. n \in Nat /\ \A k \in 1..n : s[k] \in S
  BY <1>1
<1>4. /\ SubSeq(s, 1, n) \in Seq(S)
      /\ Len(SubSeq(s, 1, n)) = IF 1 <= n THEN n - 1 + 1 ELSE 0
      /\ \A k \in 1..(n - 1 + 1) : SubSeq(s, 1, n)[k] = s[1 + k - 1]
  <2> HIDE DEF n
  <2> QED BY <1>3, SubSeqProperties, 1 \in Int, n \in Int
<1>5. /\ SubSeq(s, 1, n) \in Seq(S)
      /\ Len(SubSeq(s, 1, n)) = n
      /\ \A k \in 1..n : SubSeq(s, 1, n)[k] = s[k]
  <2> HIDE DEF n
  <2>1. n - 1 + 1 = n /\ (~(1 <= n) => n = 0) /\ \A k \in 1..n : 1 + k - 1 = k
    BY <1>3
  <2> QED BY <1>4, <2>1
<1> QED BY <1>1, <1>2, <1>5 DEF Front, Last

\* Pushing adds one element on top.
LEMMA PushStack ==
    ASSUME NEW S, NEW s \in Seq(S), NEW e \in S
    PROVE  /\ Append(s, e) \in Seq(S)
           /\ Len(Append(s, e)) = Len(s) + 1
           /\ \A k \in 1..Len(s) : Append(s, e)[k] = s[k]
           /\ Append(s, e)[Len(s) + 1] = e
OBVIOUS

-------------------------------------------------------------------------------
(* Type correctness.                                                         *)

\* What a slot of the pending map holds.
LEMMA SlotFields ==
    ASSUME NEW slot \in Slot
    PROVE  /\ slot.notify \in Exchanges
           /\ slot.question \in Questions
           /\ slot.response \in Responses
           /\ slot.answers \in Exchanges
           /\ slot.early \in BOOLEAN
BY DEF Slot

\* An exchange that finishes finds its slot, so what it recycles is a Notify.
LEMMA FinishType ==
    ASSUME TypeOK, SlotOwnership, NEW q \in Live, NEW r \in Outcomes, Finish(q, r)
    PROVE  /\ pending' \in [Ids -> Slot \cup {NoSlot}]
           /\ free' \in Seq(Exchanges)
           /\ outcome' \in [Exchanges -> Outcomes \cup {"none"}]
           /\ pc' \in [Exchanges -> {"idle", "sending", "parked", "woken", "expired", "done"}]
<1>1. q \in Exchanges /\ id[q] \in Ids
  BY DEF TypeOK, Live
<1>2. pending[id[q]] \in Slot
  BY <1>1 DEF TypeOK, SlotOwnership, Registered
<1>3. pending[id[q]].notify \in Exchanges
  BY <1>2, SlotFields
<1> QED BY <1>1, <1>3, PushStack DEF TypeOK, Finish
-------------------------------------------------------------------------------
(* Each kind of step preserves Inv.                                          *)

\* An exchange that ends gives up its id, and its Notify joins the free list.
LEMMA FinishEffect ==
    ASSUME Inv, NEW q \in Live, NEW r, Finish(q, r)
    PROVE  /\ q \in Exchanges /\ id[q] \in Ids
           /\ UNCHANGED <<closed, counter, permit, notifying, id, handle>>
           /\ pc' = [pc EXCEPT ![q] = "done"]
           /\ Live' = Live \ {q}
           /\ Len(free) \in Nat
           /\ Len(free') = Len(free) + 1
           /\ \A k \in 1..Len(free) : free'[k] = free[k]
           /\ free'[Len(free) + 1] = handle[q]
           /\ pending'[id[q]] = NoSlot
           /\ \A i \in Ids : i # id[q] => pending'[i] = pending[i]
           /\ \A p \in Live' : p \in Live /\ p # q /\ id[p] \in Ids /\ id[p] # id[q]
<1> USE DEF Inv
<1>1. q \in Exchanges /\ id[q] \in Ids
  BY DEF TypeOK, Live
<1>2. free' = Append(free, handle[q]) /\ handle[q] \in Exchanges /\ free \in Seq(Exchanges)
  BY <1>1 DEF Finish, SlotOwnership, TypeOK
<1>3. Live' = Live \ {q}
  BY DEF Finish, Live, TypeOK
<1>4. \A p \in Live' : p \in Live /\ p # q /\ id[p] \in Ids /\ id[p] # id[q]
  BY <1>3 DEF SlotOwnership, TypeOK, Live
<1> QED BY <1>1, <1>2, <1>3, <1>4, PushStack DEF Finish, TypeOK

\* Every way out of an exchange (reply, close, timeout, cancel) keeps the invariant.
LEMMA FinishInv ==
    ASSUME Inv, NEW q \in Live, NEW r \in Outcomes, Finish(q, r),
           answer' \in [Exchanges -> Exchanges]
    PROVE  Inv'
<1> USE DEF Inv
<1>1. TypeOK'
  BY FinishType DEF Finish, TypeOK
<1>2. /\ q \in Exchanges /\ id[q] \in Ids /\ id' = id /\ handle' = handle
      /\ Live' = Live \ {q}
      /\ Len(free) \in Nat
      /\ Len(free') = Len(free) + 1
      /\ \A k \in 1..Len(free) : free'[k] = free[k]
      /\ free'[Len(free) + 1] = handle[q]
      /\ pending'[id[q]] = NoSlot
      /\ \A i \in Ids : i # id[q] => pending'[i] = pending[i]
      /\ \A p \in Live' : p \in Live /\ p # q /\ id[p] \in Ids /\ id[p] # id[q]
  BY FinishEffect
<1>3. SlotOwnership'
  <2>1. \A i \in Ids : Registered(i)' => \E p \in Live' : id'[p] = i
    <3> SUFFICES ASSUME NEW i \in Ids, Registered(i)'
                 PROVE  \E p \in Live' : id'[p] = i
      OBVIOUS
    <3>1. i # id[q] /\ Registered(i)
      BY <1>2 DEF Registered
    <3>2. PICK p \in Live : id[p] = i
      BY <3>1 DEF SlotOwnership
    <3> QED BY <3>1, <3>2, <1>2
  <2>2. \A p \in Live' : /\ Registered(id[p])'
                         /\ pending'[id[p]].notify = handle[p]
                         /\ pending'[id[p]].question = QuestionOf[p]
    BY <1>2 DEF SlotOwnership, Registered
  <2> QED BY <2>1, <2>2, <1>2 DEF SlotOwnership, Registered
<1>4. \A k \in 1..Len(free') : k \in 1..Len(free) \/ k = Len(free) + 1
  BY <1>2
<1>5. NotifyExclusive'
  <2>1. \A p \in Live' : handle[p] # handle[q]
    BY <1>2 DEF NotifyExclusive
  <2>2. \A k \in 1..Len(free) : free[k] # handle[q]
    BY DEF NotifyExclusive
  <2> QED BY <1>2, <1>4, <2>1, <2>2 DEF NotifyExclusive
<1>6. HandlesMade'
  <2>1. \A p \in Exchanges : pc'[p] = "idle" <=> pc[p] = "idle"
    BY <1>2 DEF Finish, Live, TypeOK
  <2>2. \A p \in Live : handle[p] \in Exchanges
    BY DEF Live, TypeOK
  <2>3. \A k \in 1..Len(free) : free[k] \in Exchanges
    BY DEF TypeOK
  <2> QED BY <1>2, <1>4, <2>1, <2>2, <2>3 DEF HandlesMade
<1> QED BY <1>1, <1>3, <1>5, <1>6

\* What a registration of q does that probes n ids in vain: it takes an id i no
\* open exchange has, and a Notify that is fresh or leaves the free list.
Registration(q, n, i, notify) ==
    /\ i = (counter + n) % IdSpace
    /\ counter' = counter + n + 1
    /\ ~Registered(i)
    /\ pc[q] = "idle" /\ pc' = [pc EXCEPT ![q] = "sending"]
    /\ UNCHANGED <<closed, permit, notifying, outcome, answer>>
    /\ Live' = Live \cup {q} /\ q \notin Live
    /\ Cardinality(Live) < Window
    /\ notify = q \/ pc[notify] # "idle"
    /\ \A p \in Live : handle[p] # notify
    /\ free' \in Seq(Exchanges)
    /\ Len(free') \in Nat /\ Len(free) \in Nat
    /\ Len(free') = IF Len(free) = 0 THEN 0 ELSE Len(free) - 1
    /\ \A k \in 1..Len(free') : free'[k] = free[k] /\ free[k] # notify
    /\ id' = [id EXCEPT ![q] = i]
    /\ handle' = [handle EXCEPT ![q] = notify]
    /\ pending' \in [Ids -> Slot \cup {NoSlot}]
    /\ pending'[i] \in Slot
    /\ pending'[i].notify = notify
    /\ pending'[i].question = QuestionOf[q]
    /\ pending'[i].response = "none"
    /\ pending'[i].answers = q
    /\ pending'[i].early = ~closed
    /\ \A j \in Ids : j # i => pending'[j] = pending[j]
    /\ \A p \in Live : p \in Exchanges /\ p # q /\ id[p] \in Ids /\ id[p] # i

\* What register() does, with the id and the Notify it picks named.
LEMMA RegisterEffect ==
    ASSUME Inv, NEW q \in Exchanges, Register(q)
    PROVE  \E n \in 0..(IdSpace - 1), i \in Ids, notify \in Exchanges :
              Registration(q, n, i, notify)
<1> USE DEF Inv
<1> DEFINE notify == FreshOrRecycled(q)
           slot == [notify |-> notify, question |-> QuestionOf[q],
                    response |-> "none", answers |-> q, early |-> ~closed]
<1>1. PICK n \in 0..(IdSpace - 1), i \in Ids :
        /\ i = (counter + n) % IdSpace
        /\ ~Registered(i)
        /\ counter' = counter + n + 1
        /\ free' = PopFree
        /\ pending' = [pending EXCEPT ![i] = slot]
        /\ id' = [id EXCEPT ![q] = i]
        /\ handle' = [handle EXCEPT ![q] = notify]
  BY DEF Register, Probe, Advance
<1>2. /\ pc[q] = "idle"
      /\ pc' = [pc EXCEPT ![q] = "sending"]
      /\ Cardinality(Live) < Window
      /\ UNCHANGED <<closed, permit, notifying, outcome, answer>>
  BY DEF Register
<1>3. /\ notify \in Exchanges
      /\ notify = q \/ pc[notify] # "idle"
      /\ \A p \in Live : handle[p] # notify
      /\ free' \in Seq(Exchanges)
      /\ Len(free') \in Nat /\ Len(free) \in Nat
      /\ Len(free') = IF Len(free) = 0 THEN 0 ELSE Len(free) - 1
      /\ \A k \in 1..Len(free') : free'[k] = free[k] /\ free[k] # notify
  <2>1. CASE free = <<>>
    <3>1. notify = q /\ free' = free /\ Len(free) = 0
      BY <1>1, <2>1 DEF FreshOrRecycled, PopFree
    <3> QED BY <1>2, <3>1 DEF TypeOK, HandlesMade
  <2>2. CASE free # <<>>
    <3>1. notify = Last(free) /\ free' = Front(free)
      BY <1>1, <2>2 DEF FreshOrRecycled, PopFree
    <3>2. free \in Seq(Exchanges)
      BY DEF TypeOK
    <3>3. /\ notify \in Exchanges
          /\ notify = free[Len(free)]
          /\ Len(free) \in Nat \ {0}
          /\ free' \in Seq(Exchanges)
          /\ Len(free') = Len(free) - 1
          /\ \A k \in 1..(Len(free) - 1) : free'[k] = free[k]
      BY <2>2, <3>1, <3>2, PopStack
    <3> HIDE DEF notify
    <3>4. pc[notify] # "idle" /\ \A p \in Live : handle[p] # notify
      BY <3>3 DEF HandlesMade, NotifyExclusive
    <3>5. \A k \in 1..(Len(free) - 1) : free[k] # notify
      BY <3>3 DEF NotifyExclusive
    <3> QED BY <3>3, <3>4, <3>5
  <2> QED BY <2>1, <2>2
<1> HIDE DEF notify
<1>4. slot \in Slot
  BY <1>3, CorrelatorAssumption DEF Slot, Responses, TypeOK
<1>5. Live' = Live \cup {q} /\ q \notin Live
  BY <1>2 DEF Live, TypeOK
<1>6. \A p \in Live : p \in Exchanges /\ p # q /\ id[p] \in Ids /\ id[p] # i
  BY <1>1, <1>5 DEF SlotOwnership, TypeOK, Live
<1> HIDE DEF slot
<1>7. /\ pending' \in [Ids -> Slot \cup {NoSlot}]
      /\ pending'[i] = slot
      /\ \A j \in Ids : j # i => pending'[j] = pending[j]
  BY <1>1, <1>4 DEF TypeOK
<1>8. Live' = Live \cup {q} /\ (\A p \in Live : p \in Exchanges /\ p # q /\ id[p] \in Ids /\ id[p] # i)
  BY <1>5, <1>6
<1>9. notify \in Exchanges
  BY <1>3
<1> USE <1>9
<1> WITNESS n \in 0..(IdSpace - 1), i \in Ids, notify \in Exchanges
<1> QED BY <1>1, <1>2, <1>3, <1>4, <1>5, <1>7, <1>8 DEF slot, Registration

\* register() gives out an id and a Notify that no open exchange has.
LEMMA RegisterInv ==
    ASSUME Inv, NEW q \in Exchanges, Register(q)
    PROVE  Inv'
<1> USE DEF Inv
<1>1. PICK n \in 0..(IdSpace - 1), i \in Ids, notify \in Exchanges :
        Registration(q, n, i, notify)
  BY RegisterEffect
<1> USE <1>1 DEF Registration
<1>2. /\ \A p \in Live : id'[p] = id[p] /\ handle'[p] = handle[p]
      /\ id'[q] = i /\ handle'[q] = notify
      /\ pending'[i] # NoSlot
  BY <1>1, CorrelatorAssumption DEF TypeOK
<1>3. TypeOK'
  <2>1. counter' \in Nat
    BY <1>1, CorrelatorAssumption DEF TypeOK
  <2> QED BY <1>1, <2>1 DEF TypeOK
<1>4. SlotOwnership'
  <2>1. \A j \in Ids : Registered(j)' => \E p \in Live' : id'[p] = j
    <3> SUFFICES ASSUME NEW j \in Ids, Registered(j)'
                 PROVE  \E p \in Live' : id'[p] = j
      OBVIOUS
    <3>1. CASE j = i
      BY <3>1, <1>1, <1>2
    <3>2. CASE j # i
      <4>1. Registered(j)
        BY <3>2, <1>1 DEF Registered
      <4> QED BY <4>1, <1>1, <1>2 DEF SlotOwnership
    <3> QED BY <3>1, <3>2
  <2>2. \A p \in Live' : /\ pending'[id'[p]] # NoSlot
                         /\ pending'[id'[p]].notify = handle'[p]
                         /\ pending'[id'[p]].question = QuestionOf[p]
    <3> SUFFICES ASSUME NEW p \in Live'
                 PROVE  /\ pending'[id'[p]] # NoSlot
                        /\ pending'[id'[p]].notify = handle'[p]
                        /\ pending'[id'[p]].question = QuestionOf[p]
      OBVIOUS
    <3>1. CASE p = q
      BY <3>1, <1>2
    <3>2. CASE p \in Live
      <4>1. pending'[id'[p]] = pending[id[p]] /\ handle'[p] = handle[p]
        <5>1. id[p] \in Ids /\ id[p] # i /\ id'[p] = id[p] /\ handle'[p] = handle[p]
          BY <3>2, <1>2
        <5> QED BY <5>1
      <4> QED BY <3>2, <4>1 DEF SlotOwnership, Registered
    <3> QED BY <3>1, <3>2
  <2>3. \A p, r \in Live' : id'[p] = id'[r] => p = r
    BY <1>1, <1>2 DEF SlotOwnership
  <2> QED BY <2>1, <2>2, <2>3 DEF SlotOwnership, Registered
<1>5. \A k \in 1..Len(free') : k \in 1..Len(free)
  BY <1>1
<1>6. NotifyExclusive'
  <2>1. \A p, r \in Live' : handle'[p] = handle'[r] => p = r
    BY <1>2 DEF NotifyExclusive
  <2>2. \A p \in Live', k \in 1..Len(free') : free'[k] # handle'[p]
    <3> SUFFICES ASSUME NEW p \in Live', NEW k \in 1..Len(free')
                 PROVE  free'[k] # handle'[p]
      OBVIOUS
    <3>1. free'[k] = free[k] /\ free[k] # notify /\ k \in 1..Len(free)
      BY <1>5
    <3> QED BY <1>2, <3>1 DEF NotifyExclusive
  <2>3. \A j, k \in 1..Len(free') : free'[j] = free'[k] => j = k
    BY <1>5 DEF NotifyExclusive
  <2> QED BY <2>1, <2>2, <2>3 DEF NotifyExclusive
<1>7. HandlesMade'
  <2>1. \A p \in Exchanges : p = q \/ pc[p] # "idle" => pc'[p] # "idle"
    BY <1>1 DEF TypeOK
  <2>2. \A p \in Live : handle[p] \in Exchanges
    BY DEF Live, TypeOK
  <2>3. \A k \in 1..Len(free') : free[k] \in Exchanges /\ pc[free[k]] # "idle"
    BY <1>5 DEF TypeOK, HandlesMade
  <2>4. pc'[notify] # "idle"
    BY <1>1, <2>1
  <2>5. \A p \in Live' : pc'[handle'[p]] # "idle"
    <3> SUFFICES ASSUME NEW p \in Live'
                 PROVE  pc'[handle'[p]] # "idle"
      OBVIOUS
    <3>1. CASE p = q
      BY <3>1, <1>2, <2>4
    <3>2. CASE p \in Live
      <4>1. handle'[p] = handle[p] /\ pc[handle[p]] # "idle"
        BY <3>2, <1>2 DEF HandlesMade
      <4> QED BY <4>1, <3>2, <2>1, <2>2
    <3> QED BY <3>1, <3>2, <1>1
  <2>6. \A k \in 1..Len(free') : pc'[free'[k]] # "idle"
    <3> SUFFICES ASSUME NEW k \in 1..Len(free')
                 PROVE  pc'[free'[k]] # "idle"
      OBVIOUS
    <3>1. free'[k] = free[k]
      BY <1>1
    <3> QED BY <3>1, <2>1, <2>3
  <2> QED BY <2>5, <2>6 DEF HandlesMade
<1> QED BY <1>3, <1>4, <1>6, <1>7

\* A step that leaves the table, the handles and who is open alone.
LEMMA QuietInv ==
    ASSUME Inv, TypeOK', UNCHANGED <<free, id, handle, pending>>,
           \A q \in Exchanges : /\ pc'[q] = "idle" <=> pc[q] = "idle"
                                /\ pc'[q] = "done" <=> pc[q] = "done"
    PROVE  Inv'
<1>1. Live' = Live
  BY DEF Live
<1>2. SlotOwnership' /\ NotifyExclusive'
  BY <1>1 DEF Inv, SlotOwnership, NotifyExclusive, Registered
<1>3. HandlesMade'
  BY <1>1 DEF Inv, HandlesMade, TypeOK, Live
<1> QED BY <1>2, <1>3 DEF Inv

\* What a reply does to the table: the response of one slot.
LEMMA CompleteTable ==
    ASSUME TypeOK, NEW q \in Exchanges, NEW question \in Questions, Complete(q, question),
           NEW i, i = id[q]
    PROVE  /\ i \in Ids /\ pending[i] \in Slot
           /\ pending'[i] \in Slot
           /\ pending'[i].notify = pending[i].notify
           /\ pending'[i].question = pending[i].question
           /\ pending'[i].early = pending[i].early
           /\ pending'[i].answers = q
           /\ \A j \in Ids : j # i => pending'[j] = pending[j]
           /\ pending' \in [Ids -> Slot \cup {NoSlot}]
           /\ notifying' = {pending[i].notify}
           /\ notifying = {}
           /\ ~closed
           /\ pc[q] # "idle"
           /\ UNCHANGED <<free, closed, counter, permit, callers>>
<1>1. i \in Ids /\ pending[i] \in Slot
  BY DEF Complete, TypeOK, Registered
<1>2. PICK r \in Responses :
        pending' = [pending EXCEPT ![i] = [pending[i] EXCEPT !.response = r, !.answers = q]]
  <2>1. pending' = [pending EXCEPT ![i] = [pending[i] EXCEPT
                !.response = IF question = pending[i].question THEN "response" ELSE "protocol",
                !.answers = q]]
    BY DEF Complete
  <2> QED BY <2>1 DEF Responses
<1>3. [pending[i] EXCEPT !.response = r, !.answers = q] \in Slot
  BY <1>1 DEF Slot
<1>4. pending'[i] = [pending[i] EXCEPT !.response = r, !.answers = q]
  BY <1>1, <1>2 DEF TypeOK
<1>5. /\ pending'[i].notify = pending[i].notify
      /\ pending'[i].question = pending[i].question
      /\ pending'[i].early = pending[i].early
      /\ pending'[i].answers = q
  BY <1>1, <1>4 DEF Slot
<1>6. /\ pending' \in [Ids -> Slot \cup {NoSlot}]
      /\ \A j \in Ids : j # i => pending'[j] = pending[j]
  BY <1>1, <1>2, <1>3 DEF TypeOK
<1>7. /\ notifying' = {pending[i].notify}
      /\ notifying = {}
      /\ ~closed
      /\ pc[q] # "idle"
      /\ UNCHANGED <<free, closed, counter, permit, callers>>
  BY DEF Complete, Woken
<1> QED BY <1>1, <1>3, <1>4, <1>5, <1>6, <1>7

\* A reply changes one slot's response, whoever owns the slot by now.
LEMMA CompleteInv ==
    ASSUME Inv, NEW q \in Exchanges, NEW question \in Questions, Complete(q, question)
    PROVE  Inv'
<1> DEFINE i == id[q]
<1>1. TypeOK /\ SlotOwnership /\ NotifyExclusive /\ HandlesMade
  BY DEF Inv
<1>2. /\ i \in Ids /\ pending[i] \in Slot
      /\ pending'[i] \in Slot
      /\ pending'[i].notify = pending[i].notify
      /\ pending'[i].question = pending[i].question
      /\ \A j \in Ids : j # i => pending'[j] = pending[j]
      /\ pending' \in [Ids -> Slot \cup {NoSlot}]
      /\ notifying' = {pending[i].notify}
      /\ UNCHANGED <<free, closed, counter, permit, callers>>
  BY <1>1, CompleteTable
<1>3. TypeOK'
  BY <1>1, <1>2, SlotFields DEF TypeOK, callers
<1>4. Live' = Live /\ id' = id /\ handle' = handle /\ pc' = pc /\ free' = free
  BY <1>2 DEF Live, callers
<1>5. \A j \in Ids : pending'[j] # NoSlot <=> pending[j] # NoSlot
  BY <1>2, CorrelatorAssumption
<1>6. \A p \in Live : id[p] \in Ids
  BY <1>1 DEF TypeOK, Live
<1>7. SlotOwnership'
  BY <1>1, <1>2, <1>4, <1>5, <1>6 DEF SlotOwnership, Registered
<1>8. NotifyExclusive' /\ HandlesMade'
  BY <1>1, <1>4 DEF NotifyExclusive, HandlesMade
<1> QED BY <1>3, <1>7, <1>8 DEF Inv

\* A new correlator has no slots and no open exchange.
LEMMA InvInit == Init => Inv
<1> SUFFICES ASSUME Init PROVE Inv
  OBVIOUS
<1>1. Live = {} /\ Len(free) = 0
  BY DEF Init, Live
<1>2. TypeOK
  <2>1. 0 \in Ids
    BY CorrelatorAssumption DEF Ids
  <2>2. free \in Seq(Exchanges)
    BY DEF Init
  <2> QED BY <2>1, <2>2 DEF Init, TypeOK
<1>3. \A i \in Ids : ~Registered(i)
  BY DEF Init, Registered
<1> QED BY <1>1, <1>2, <1>3 DEF Inv, SlotOwnership, NotifyExclusive, HandlesMade

\* The invariant is inductive: one step per action of the callers and the reader.
LEMMA InvStep == Inv /\ [Next]_vars => Inv'
<1> SUFFICES ASSUME Inv, [Next]_vars PROVE Inv'
  OBVIOUS
<1>0. TypeOK /\ SlotOwnership
  BY DEF Inv
<1>1. ASSUME NEW q \in Exchanges, Register(q) PROVE Inv'
  BY <1>1, RegisterInv
<1>2. ASSUME NEW q \in Exchanges, Transmit(q) PROVE Inv'
  <2>1. TypeOK'
    BY <1>0, <1>2 DEF TypeOK, Transmit, table
  <2> QED BY <1>0, <1>2, <2>1, QuietInv DEF TypeOK, Transmit, table
<1>3. ASSUME NEW q \in Exchanges, Cancel(q) PROVE Inv'
  <2>1. q \in Live /\ Finish(q, "unsent") /\ "unsent" \in Outcomes
    BY <1>3 DEF Cancel, Live, Outcomes
  <2> QED BY <1>0, <1>3, <2>1, FinishInv DEF Cancel, TypeOK
<1>4. ASSUME NEW q \in Exchanges, Wake(q) PROVE Inv'
  <2>1. TypeOK'
    BY <1>0, <1>4 DEF TypeOK, Wake, table
  <2> QED BY <1>0, <1>4, <2>1, QuietInv DEF TypeOK, Wake, table
<1>5. ASSUME NEW q \in Exchanges, Expire(q) PROVE Inv'
  <2>1. TypeOK'
    BY <1>0, <1>5 DEF TypeOK, Expire, table
  <2> QED BY <1>0, <1>5, <2>1, QuietInv DEF TypeOK, Expire, table
<1>6. ASSUME NEW q \in Exchanges, TakeReply(q) PROVE Inv'
  <2>1. q \in Live
    BY <1>6 DEF TakeReply, Polled, Live
  <2>2. pending[id[q]] \in Slot
    BY <1>0, <2>1 DEF TypeOK, SlotOwnership, Registered, Live
  <2>3. pending[id[q]].response \in Outcomes /\ pending[id[q]].answers \in Exchanges
    BY <1>6, <2>2, SlotFields DEF TakeReply, Responses, Outcomes
  <2>4. answer' \in [Exchanges -> Exchanges]
    BY <1>0, <1>6, <2>3 DEF TakeReply, TypeOK
  <2> QED BY <1>6, <2>1, <2>3, <2>4, FinishInv DEF TakeReply
<1>7. ASSUME NEW q \in Exchanges, ReturnClosed(q) PROVE Inv'
  <2>1. q \in Live /\ Finish(q, "closed") /\ "closed" \in Outcomes
    BY <1>7 DEF ReturnClosed, Polled, Live, Outcomes
  <2> QED BY <1>0, <1>7, <2>1, FinishInv DEF ReturnClosed, TypeOK
<1>8. ASSUME NEW q \in Exchanges, ReturnTimeout(q) PROVE Inv'
  <2>1. q \in Live /\ Finish(q, "timeout") /\ "timeout" \in Outcomes
    BY <1>8 DEF ReturnTimeout, Live, Outcomes
  <2> QED BY <1>0, <1>8, <2>1, FinishInv DEF ReturnTimeout, TypeOK
<1>9. ASSUME NEW q \in Exchanges, Repark(q) PROVE Inv'
  <2>1. TypeOK'
    BY <1>0, <1>9 DEF TypeOK, Repark, table
  <2> QED BY <1>0, <1>9, <2>1, QuietInv DEF TypeOK, Repark, table
<1>10. ASSUME NEW q \in Exchanges, NEW question \in Questions, Complete(q, question)
       PROVE  Inv'
  BY <1>10, CompleteInv
<1>11. ASSUME NEW n \in Exchanges, NotifyOne(n) PROVE Inv'
  <2>1. TypeOK'
    BY <1>0, <1>11 DEF TypeOK, NotifyOne, table, callers
  <2> QED BY <1>11, <2>1, QuietInv DEF NotifyOne, table, callers
<1>12. CASE Close
  <2>1. notifying' \subseteq Exchanges
    BY <1>0, <1>12, SlotFields DEF Close, TypeOK, Registered
  <2>2. TypeOK'
    BY <1>0, <1>12, <2>1 DEF TypeOK, Close, callers
  <2> QED BY <1>12, <2>2, QuietInv DEF Close, callers
<1>13. CASE UNCHANGED vars
  <2>1. TypeOK'
    BY <1>0, <1>13 DEF TypeOK, vars
  <2> QED BY <1>13, <2>1, QuietInv DEF vars
<1> QED BY <1>1, <1>2, <1>3, <1>4, <1>5, <1>6, <1>7, <1>8, <1>9, <1>10, <1>11, <1>12, <1>13
        DEF Next, Caller, Await, AfterPoll, Reader

-------------------------------------------------------------------------------
(* The theorems.                                                             *)

\* The inductive invariant holds of every behaviour.
THEOREM Invariance == Spec => []Inv
BY InvInit, InvStep, PTL DEF Spec

\* The variables keep their types.
THEOREM TypeCorrect == Spec => []TypeOK
<1>1. Inv => TypeOK
  BY DEF Inv
<1> QED BY <1>1, Invariance, PTL

\* The table of pending slots and the open exchanges always agree (the
\* .expect of await_response holds, ids are unique, no slot leaks).
THEOREM SlotsOwned == Spec => []SlotOwnership
<1>1. Inv => SlotOwnership
  BY DEF Inv
<1> QED BY <1>1, Invariance, PTL

\* No Notify is ever shared by two waiters, or both in use and recycled.
THEOREM NotifiesExclusive == Spec => []NotifyExclusive
<1>1. Inv => NotifyExclusive
  BY DEF Inv
<1> QED BY <1>1, Invariance, PTL
-------------------------------------------------------------------------------
(* No wake-up is lost.                                                       *)

\* The exchange p need not park for long: its slot holds a reply, or the
\* connection has closed over it.
Settled(p) == pending[id[p]].response # "none" \/ (closed /\ pending[id[p]].early)

\* NoLostWakeup in terms of Settled.
LEMMA NoLostWakeupAlt ==
    NoLostWakeup <=>
        \A p \in Exchanges : pc[p] \in {"sending", "parked"} /\ Settled(p)
                                => handle[p] \in permit \cup notifying
BY DEF NoLostWakeup, Settled

\* No step settles a waiting exchange without a wake-up to come, and none takes
\* the wake-up of a settled one but its own poll.
LEMMA NoLostWakeupStep ==
    ASSUME Inv, NoLostWakeup, [Next]_vars
    PROVE  NoLostWakeup'
<1> SUFFICES ASSUME NEW p \in Exchanges, pc'[p] \in {"sending", "parked"}, Settled(p)'
             PROVE  handle'[p] \in permit' \cup notifying'
  BY DEF NoLostWakeup, Settled
<1>0. TypeOK /\ SlotOwnership /\ NotifyExclusive
  BY DEF Inv
<1>a. \A r \in Exchanges : pc[r] \in {"sending", "parked"} /\ Settled(r)
                              => handle[r] \in permit \cup notifying
  BY NoLostWakeupAlt
<1>b. ASSUME pc[p] \in {"sending", "parked"}, Settled(p), handle'[p] = handle[p],
             permit \cup notifying \subseteq permit' \cup notifying'
      PROVE  handle'[p] \in permit' \cup notifying'
  BY <1>a, <1>b
<1>1. ASSUME NEW q \in Exchanges, Register(q) PROVE handle'[p] \in permit' \cup notifying'
  <2>1. PICK n \in 0..(IdSpace - 1), i \in Ids, notify \in Exchanges :
          Registration(q, n, i, notify)
    BY <1>1, RegisterEffect
  <2> USE <2>1 DEF Registration
  <2>2. p # q
    BY <1>0 DEF Settled, TypeOK
  <2>3. pc'[p] = pc[p] /\ id'[p] = id[p] /\ handle'[p] = handle[p]
    BY <1>0, <2>2 DEF TypeOK
  <2>4. p \in Live
    BY <2>3 DEF Live
  <2>5. pending'[id'[p]] = pending[id[p]] /\ closed' = closed
    BY <2>3, <2>4
  <2> QED BY <1>b, <2>3, <2>5 DEF Settled
<1>2. ASSUME NEW q \in Live, NEW r, Finish(q, r)
      PROVE  handle'[p] \in permit' \cup notifying'
  <2>1. /\ pc' = [pc EXCEPT ![q] = "done"]
        /\ UNCHANGED <<closed, permit, notifying, id, handle>>
        /\ \A i \in Ids : i # id[q] => pending'[i] = pending[i]
        /\ \A s \in Live' : s \in Live /\ s # q /\ id[s] \in Ids /\ id[s] # id[q]
    BY <1>2, FinishEffect
  <2>2. p \in Live'
    BY DEF Live
  <2>3. p # q /\ pc'[p] = pc[p] /\ pending'[id[p]] = pending[id[p]]
    BY <1>0, <2>1, <2>2 DEF TypeOK
  <2> QED BY <1>b, <2>1, <2>3 DEF Settled
<1>3. ASSUME NEW q \in Exchanges, Transmit(q) PROVE handle'[p] \in permit' \cup notifying'
  <2>1. pc[p] \in {"sending", "parked"}
    BY <1>0, <1>3 DEF Transmit, TypeOK
  <2> QED BY <1>3, <2>1, <1>b DEF Transmit, Settled, table
<1>4. ASSUME NEW q \in Exchanges, Wake(q) PROVE handle'[p] \in permit' \cup notifying'
  <2>1. p # q /\ pc'[p] = pc[p] /\ q \in Live /\ p \in Live
    BY <1>0, <1>4 DEF Wake, TypeOK, Live
  <2>2. handle[p] # handle[q]
    BY <1>0, <2>1 DEF NotifyExclusive
  <2>3. Settled(p)
    BY <1>4 DEF Wake, Settled, table
  <2> QED BY <1>4, <1>a, <2>1, <2>2, <2>3 DEF Wake
<1>5. ASSUME NEW q \in Exchanges, Expire(q) PROVE handle'[p] \in permit' \cup notifying'
  <2>1. pc[p] \in {"sending", "parked"}
    BY <1>0, <1>5 DEF Expire, TypeOK
  <2> QED BY <1>5, <2>1, <1>b DEF Expire, Settled, table
<1>6. ASSUME NEW q \in Exchanges, Repark(q) PROVE handle'[p] \in permit' \cup notifying'
  <2>1. Settled(p) /\ ~Settled(q)
    BY <1>6 DEF Repark, Settled, table
  <2>2. pc[p] \in {"sending", "parked"}
    BY <1>0, <1>6, <2>1 DEF Repark, TypeOK
  <2> QED BY <1>6, <2>1, <2>2, <1>b DEF Repark, table
<1>7. ASSUME NEW q \in Exchanges, NEW question \in Questions, Complete(q, question)
      PROVE  handle'[p] \in permit' \cup notifying'
  <2> DEFINE i == id[q]
  <2>1. /\ i \in Ids
        /\ \A j \in Ids : j # i => pending'[j] = pending[j]
        /\ notifying' = {pending[i].notify}
        /\ notifying = {}
        /\ UNCHANGED <<free, closed, counter, permit, callers>>
    BY <1>0, <1>7, CompleteTable
  <2>2. pc' = pc /\ id' = id /\ handle' = handle /\ closed' = closed /\ permit' = permit
    BY <2>1 DEF callers
  <2>3. p \in Live /\ id[p] \in Ids
    BY <1>0, <2>2 DEF Live, TypeOK
  <2>4. CASE id[p] = i
    BY <1>0, <2>1, <2>2, <2>3, <2>4 DEF SlotOwnership
  <2>5. CASE id[p] # i
    BY <1>b, <2>1, <2>2, <2>3, <2>5 DEF Settled
  <2> QED BY <2>4, <2>5
<1>8. ASSUME NEW n \in Exchanges, NotifyOne(n) PROVE handle'[p] \in permit' \cup notifying'
  BY <1>8, <1>b DEF NotifyOne, table, callers, Settled
<1>9. CASE Close
  <2>1. p \in Live /\ handle' = handle
    BY <1>9 DEF Close, callers, Live
  <2>2. id[p] \in Ids /\ Registered(id[p]) /\ pending[id[p]].notify = handle[p]
    BY <1>0, <2>1 DEF SlotOwnership, TypeOK, Live
  <2> QED BY <1>9, <2>1, <2>2 DEF Close
<1>10. CASE UNCHANGED vars
  BY <1>10, <1>b DEF vars, Settled
<1>11. ASSUME NEW q \in Exchanges,
              Cancel(q) \/ TakeReply(q) \/ ReturnClosed(q) \/ ReturnTimeout(q)
       PROVE  handle'[p] \in permit' \cup notifying'
  <2>1. q \in Live /\ \E r : Finish(q, r)
    BY <1>11 DEF Cancel, TakeReply, ReturnClosed, ReturnTimeout, Polled, Live
  <2> QED BY <2>1, <1>2
<1> QED BY <1>1, <1>3, <1>4, <1>5, <1>6, <1>7, <1>8, <1>9, <1>10, <1>11
        DEF Next, Caller, Await, AfterPoll, Reader

\* A caller never waits out its timer while its reply, or the news that the
\* connection closed over it, is there to be had.
THEOREM WakeupsKept == Spec => []NoLostWakeup
<1>1. Init => NoLostWakeup
  BY DEF Init, NoLostWakeup
<1>2. Inv /\ NoLostWakeup /\ [Next]_vars => NoLostWakeup'
  BY NoLostWakeupStep
<1> QED BY <1>1, <1>2, Invariance, PTL DEF Spec
-------------------------------------------------------------------------------
(* The free list stays within the window.                                    *)

PoolInv == IsFiniteSet(Live) /\ PoolBounded

\* register() takes from the free list before it makes a Notify, and Finish gives
\* back what it had.
LEMMA PoolStep ==
    ASSUME Inv, PoolInv, [Next]_vars
    PROVE  PoolInv'
<1>0. /\ TypeOK /\ Len(free) \in Nat
      /\ IsFiniteSet(Live) /\ Cardinality(Live) \in Nat
      /\ Len(free) + Cardinality(Live) <= Window
      /\ Window \in Nat
  BY FS_CardinalityType, CorrelatorAssumption DEF Inv, PoolInv, PoolBounded, TypeOK
<1>1. ASSUME NEW q \in Exchanges, Register(q) PROVE PoolInv'
  <2>1. PICK n \in 0..(IdSpace - 1), i \in Ids, notify \in Exchanges :
          Registration(q, n, i, notify)
    BY <1>1, RegisterEffect
  <2>2. IsFiniteSet(Live') /\ Cardinality(Live') = Cardinality(Live) + 1
    BY <1>0, <2>1, FS_AddElement DEF Registration
  <2> QED BY <1>0, <2>1, <2>2 DEF PoolInv, PoolBounded, Registration
<1>2. ASSUME NEW q \in Live, NEW r, Finish(q, r) PROVE PoolInv'
  <2>1. Live' = Live \ {q} /\ Len(free') = Len(free) + 1
    BY <1>2, FinishEffect
  <2>2. IsFiniteSet(Live') /\ Cardinality(Live') = Cardinality(Live) - 1
    BY <1>0, <2>1, FS_RemoveElement
  <2> QED BY <1>0, <2>1, <2>2 DEF PoolInv, PoolBounded
<1>3. ASSUME free' = free, Live' = Live PROVE PoolInv'
  BY <1>0, <1>3 DEF PoolInv, PoolBounded
<1>4. ASSUME NEW q \in Exchanges, Transmit(q) \/ Wake(q) \/ Expire(q) \/ Repark(q)
      PROVE  PoolInv'
  <2>1. free' = free /\ Live' = Live
    BY <1>0, <1>4 DEF Transmit, Wake, Expire, Repark, table, Live, TypeOK
  <2> QED BY <1>3, <2>1
<1>5. ASSUME NEW q \in Exchanges,
             Cancel(q) \/ TakeReply(q) \/ ReturnClosed(q) \/ ReturnTimeout(q)
      PROVE  PoolInv'
  <2>1. q \in Live /\ \E r : Finish(q, r)
    BY <1>5 DEF Cancel, TakeReply, ReturnClosed, ReturnTimeout, Polled, Live
  <2> QED BY <2>1, <1>2
<1>6. ASSUME Reader \/ UNCHANGED vars PROVE PoolInv'
  <2>1. free' = free /\ pc' = pc
    BY <1>6 DEF Reader, Complete, NotifyOne, Close, callers, table, vars
  <2> QED BY <1>3, <2>1 DEF Live
<1> QED BY <1>1, <1>4, <1>5, <1>6 DEF Next, Caller, Await, AfterPoll

\* Recycling keeps at most Window Notify handles, in use and free together.
THEOREM PoolStaysBounded == Spec => []PoolBounded
<1>1. Init => PoolInv
  <2> SUFFICES ASSUME Init PROVE PoolInv
    OBVIOUS
  <2>1. Live = {} /\ Len(free) = 0
    BY DEF Init, Live
  <2> QED BY <2>1, FS_EmptySet, CorrelatorAssumption DEF PoolInv, PoolBounded
<1>2. Inv /\ PoolInv /\ [Next]_vars => PoolInv'
  BY PoolStep
<1>3. PoolInv => PoolBounded
  BY DEF PoolInv
<1> QED BY <1>1, <1>2, <1>3, Invariance, PTL DEF Spec

-------------------------------------------------------------------------------
(* Before the ids wrap around, replies reach the exchange they answer.       *)

Started == {q \in Exchanges : pc[q] # "idle"}

\* Until the wrap, ids are handed out in order and never twice, so a message
\* with the id of an exchange can only meet that exchange's slot.
OwnReplies ==
    counter <= IdSpace =>
        /\ \A q \in Started : id[q] < counter
        /\ \A p, q \in Started : id[p] = id[q] => p = q
        /\ \A q \in Live : pending[id[q]].answers = q
        /\ \A q \in Exchanges : outcome[q] \in {"response", "protocol"} => answer[q] = q

\* While ids are given out for the first time, a reply sent to an id meets the
\* slot of the exchange that sent the query or no slot.
LEMMA OwnRepliesStep ==
    ASSUME Inv, OwnReplies, [Next]_vars
    PROVE  OwnReplies'
<1> SUFFICES ASSUME counter' <= IdSpace PROVE OwnReplies'
  BY DEF OwnReplies
<1>0. TypeOK /\ SlotOwnership
  BY DEF Inv
<1>a. /\ \A q \in Exchanges : q \in Live => q \in Started
      /\ \A q \in Started : id[q] \in Ids /\ id[q] \in Int
      /\ counter \in Nat /\ IdSpace \in Nat \ {0}
  BY <1>0, CorrelatorAssumption DEF Live, Started, TypeOK, Ids
<1>1. ASSUME NEW q \in Exchanges, Register(q) PROVE OwnReplies'
  <2>1. PICK n \in 0..(IdSpace - 1), i \in Ids, notify \in Exchanges :
          Registration(q, n, i, notify)
    BY <1>1, RegisterEffect
  <2>2. counter' = counter + n + 1 /\ counter + n < IdSpace /\ i = counter + n
    BY <1>a, <2>1 DEF Registration
  <2>3. /\ \A p \in Started : id[p] < counter
        /\ \A p, r \in Started : id[p] = id[r] => p = r
        /\ \A p \in Live : pending[id[p]].answers = p
        /\ \A p \in Exchanges : outcome[p] \in {"response", "protocol"} => answer[p] = p
    BY <1>a, <2>2 DEF OwnReplies
  <2>4. /\ Started' = Started \cup {q} /\ q \notin Started
        /\ \A p \in Started : id'[p] = id[p]
        /\ id'[q] = i
    BY <1>0, <2>1 DEF Registration, Started, TypeOK
  <2>5. \A p \in Started' : id'[p] < counter'
    BY <1>a, <2>2, <2>3, <2>4
  <2>6. \A p, r \in Started' : id'[p] = id'[r] => p = r
    BY <1>a, <2>2, <2>3, <2>4
  <2>7. \A p \in Live' : pending'[id'[p]].answers = p
    <3> SUFFICES ASSUME NEW p \in Live' PROVE pending'[id'[p]].answers = p
      OBVIOUS
    <3>1. CASE p = q
      BY <3>1, <2>1, <2>4 DEF Registration
    <3>2. CASE p # q
      <4>1. p \in Live /\ id[p] \in Ids /\ id[p] # i /\ id'[p] = id[p]
        BY <3>2, <1>a, <2>1, <2>4 DEF Registration
      <4> QED BY <4>1, <2>1, <2>3 DEF Registration
    <3> QED BY <3>1, <3>2
  <2>8. outcome' = outcome /\ answer' = answer
    BY <2>1 DEF Registration
  <2> QED BY <2>3, <2>5, <2>6, <2>7, <2>8 DEF OwnReplies
<1>b. ASSUME counter' = counter
      PROVE  /\ \A q \in Started : id[q] < counter
             /\ \A p, q \in Started : id[p] = id[q] => p = q
             /\ \A q \in Live : pending[id[q]].answers = q
             /\ \A q \in Exchanges : outcome[q] \in {"response", "protocol"} => answer[q] = q
  BY <1>b DEF OwnReplies
<1>2. ASSUME NEW q \in Live, NEW r, Finish(q, r),
             outcome'[q] \in {"response", "protocol"} => answer'[q] = q,
             \A p \in Exchanges : p # q => answer'[p] = answer[p]
      PROVE  OwnReplies'
  <2>1. /\ q \in Exchanges /\ counter' = counter /\ id' = id
        /\ pc' = [pc EXCEPT ![q] = "done"]
        /\ \A i \in Ids : i # id[q] => pending'[i] = pending[i]
        /\ \A p \in Live' : p \in Live /\ p # q /\ id[p] \in Ids /\ id[p] # id[q]
    BY <1>2, FinishEffect
  <2>2. Started' = Started
    BY <1>0, <2>1 DEF Started, Live, TypeOK
  <2>3. \A p \in Exchanges : p # q => outcome'[p] = outcome[p]
    BY <1>0, <1>2 DEF Finish, TypeOK
  <2> QED BY <1>2, <1>b, <2>1, <2>2, <2>3 DEF OwnReplies
<1>3. ASSUME NEW q \in Exchanges, TakeReply(q) PROVE OwnReplies'
  <2>1. q \in Live /\ Finish(q, pending[id[q]].response)
    BY <1>3 DEF TakeReply, Polled, Live
  <2>2. counter' = counter
    BY <2>1 DEF Finish
  <2>3. answer' = [answer EXCEPT ![q] = q]
    BY <1>3, <1>b, <2>1, <2>2 DEF TakeReply
  <2>4. answer'[q] = q /\ \A p \in Exchanges : p # q => answer'[p] = answer[p]
    BY <1>0, <2>3 DEF TypeOK
  <2> QED BY <1>2, <2>1, <2>4
<1>4. ASSUME NEW q \in Exchanges, NEW r \in {"unsent", "closed", "timeout"},
             q \in Live, Finish(q, r), answer' = answer
      PROVE  OwnReplies'
  <2>1. outcome'[q] = r
    BY <1>0, <1>4 DEF Finish, TypeOK
  <2> QED BY <1>2, <1>4, <2>1
<1>5. ASSUME NEW q \in Exchanges, Cancel(q) \/ ReturnClosed(q) \/ ReturnTimeout(q)
      PROVE  OwnReplies'
  BY <1>4, <1>5 DEF Cancel, ReturnClosed, ReturnTimeout, Polled, Live
<1>6. ASSUME NEW q \in Exchanges, NEW question \in Questions, Complete(q, question)
      PROVE  OwnReplies'
  <2> DEFINE i == id[q]
  <2>1. /\ i \in Ids
        /\ pending'[i].answers = q
        /\ \A j \in Ids : j # i => pending'[j] = pending[j]
        /\ pc[q] # "idle"
        /\ UNCHANGED <<free, closed, counter, permit, callers>>
    BY <1>0, <1>6, CompleteTable
  <2>2. pc' = pc /\ id' = id /\ outcome' = outcome /\ answer' = answer /\ counter' = counter
    BY <2>1 DEF callers
  <2>3. Live' = Live /\ Started' = Started /\ q \in Started
    BY <2>1, <2>2 DEF Live, Started
  <2>4. \A p \in Live : pending'[id[p]].answers = p
    <3> SUFFICES ASSUME NEW p \in Live PROVE pending'[id[p]].answers = p
      OBVIOUS
    <3>1. p \in Started /\ id[p] \in Ids
      BY <1>a DEF Live
    <3>2. CASE id[p] = i
      BY <1>b, <2>1, <2>2, <2>3, <3>1, <3>2
    <3>3. CASE id[p] # i
      BY <1>b, <2>1, <2>2, <3>1, <3>3
    <3> QED BY <3>2, <3>3
  <2> QED BY <1>b, <2>2, <2>3, <2>4 DEF OwnReplies
<1>7. ASSUME UNCHANGED <<pending, counter, id, outcome, answer>>, Live' = Live,
             Started' = Started
      PROVE  OwnReplies'
  BY <1>7, <1>b DEF OwnReplies
<1>8. ASSUME NEW q \in Exchanges, Transmit(q) \/ Wake(q) \/ Expire(q) \/ Repark(q)
      PROVE  OwnReplies'
  <2>1. Live' = Live /\ Started' = Started
    BY <1>0, <1>8 DEF Transmit, Wake, Expire, Repark, Live, Started, TypeOK
  <2> QED BY <1>7, <1>8, <2>1 DEF Transmit, Wake, Expire, Repark, table
<1>9. ASSUME (\E n \in Exchanges : NotifyOne(n)) \/ Close \/ UNCHANGED vars
      PROVE  OwnReplies'
  <2>1. pc' = pc /\ UNCHANGED <<pending, counter, id, outcome, answer>>
    BY <1>9 DEF NotifyOne, Close, callers, table, vars
  <2> QED BY <1>7, <2>1 DEF Live, Started
<1> QED BY <1>1, <1>3, <1>5, <1>6, <1>8, <1>9 DEF Next, Caller, Await, AfterPoll, Reader

\* Until 2^16 ids have been used, no late, repeated or misdirected message is
\* ever taken for the answer to another query.
THEOREM RepliesAreOwn == Spec => []DeliveredOwnReply
<1>1. Init => OwnReplies
  BY DEF Init, OwnReplies, Started, Live
<1>2. Inv /\ OwnReplies /\ [Next]_vars => OwnReplies'
  BY OwnRepliesStep
<1>3. OwnReplies => DeliveredOwnReply
  BY DEF OwnReplies, DeliveredOwnReply
<1> QED BY <1>1, <1>2, <1>3, Invariance, PTL DEF Spec
-------------------------------------------------------------------------------
(* A reply that has come is not thrown away.                                 *)

\* An exchange that ends with a reply in its slot ends with that reply: the ways
\* out for a timeout and a closed connection look at the slot first, and no one
\* else ends it.
LEMMA ReplyStep ==
    ASSUME TypeOK, [Next]_vars, NEW q \in Exchanges,
           Polled(q), pending[id[q]].response # "none", pc'[q] = "done"
    PROVE  outcome'[q] = pending[id[q]].response
<1>0. pc[q] # "done" /\ DOMAIN pc = Exchanges /\ DOMAIN outcome = Exchanges
  BY DEF Polled, TypeOK
<1>1. ASSUME NEW p \in Exchanges, NEW r, Finish(p, r)
      PROVE  p = q /\ outcome'[q] = r
  BY <1>0, <1>1 DEF Finish
<1>2. ASSUME NEW p \in Exchanges, Cancel(p) \/ ReturnClosed(p) \/ ReturnTimeout(p)
      PROVE  FALSE
  BY <1>1, <1>2 DEF Cancel, ReturnClosed, ReturnTimeout, Polled
<1>3. ASSUME NEW p \in Exchanges, TakeReply(p)
      PROVE  outcome'[q] = pending[id[q]].response
  BY <1>1, <1>3 DEF TakeReply
<1>4. ASSUME NEW p \in Exchanges,
             Register(p) \/ Transmit(p) \/ Wake(p) \/ Expire(p) \/ Repark(p)
      PROVE  pc'[q] # "done"
  BY <1>0, <1>4 DEF Register, Transmit, Wake, Expire, Repark
<1>5. ASSUME Reader \/ UNCHANGED vars
      PROVE  pc'[q] # "done"
  BY <1>0, <1>5 DEF Reader, Complete, NotifyOne, Close, callers, vars
<1> QED BY <1>2, <1>3, <1>4, <1>5 DEF Next, Caller, Await, AfterPoll

\* Whatever the timer and the reader do meanwhile, a reply that is in the slot when
\* its caller looks is what the caller gets.
THEOREM RepliesAreKept == Spec => ReplyNeverDiscarded
<1>1. TypeOK /\ [Next]_vars =>
         [\A q \in Exchanges :
             (Polled(q) /\ pending[id[q]].response # "none" /\ pc'[q] = "done")
                 => outcome'[q] = pending[id[q]].response]_vars
  BY ReplyStep
<1> QED BY <1>1, TypeCorrect, PTL DEF Spec, ReplyNeverDiscarded

-------------------------------------------------------------------------------
(* The correlator implements the abstract connection.                        *)

\* The abstract connection's open exchanges are the correlator's live ones.
LEMMA OpenIsLive == TypeOK => Conn!Open = Live
BY DEF TypeOK, Conn!Open, ConnState, Live, Outcomes

\* Every step is a Begin, an End, a Shut or a stutter of the abstract connection.
LEMMA ConnStep ==
    ASSUME Inv, [Next]_vars
    PROVE  [Conn!Next]_(Conn!vars)
<1> USE DEF Conn!Next, Conn!vars
<1>0. TypeOK
  BY DEF Inv
<1>1. ASSUME NEW q \in Exchanges, Register(q) PROVE Conn!Begin(q)
  <2>1. /\ pc[q] = "idle" /\ pc' = [pc EXCEPT ![q] = "sending"]
        /\ Cardinality(Live) < Window
        /\ UNCHANGED <<closed, outcome>>
    BY <1>1 DEF Register
  <2>2. ConnState[q] = "idle" /\ ConnState' = [ConnState EXCEPT ![q] = "open"]
    BY <1>0, <2>1 DEF ConnState, TypeOK
  <2> QED BY <1>0, <2>1, <2>2, OpenIsLive DEF Conn!Begin, Cardinality, Conn!Cardinality
<1>2. ASSUME NEW q \in Live, NEW r \in Outcomes, Finish(q, r),
             r = "timeout" => ~closed, r = "closed" => closed
      PROVE  Conn!Next
  <2>1. ConnState[q] = "open" /\ ConnState' = [ConnState EXCEPT ![q] = r]
    BY <1>0, <1>2 DEF ConnState, TypeOK, Live, Finish
  <2>2. Conn!End(q, r) /\ q \in Exchanges /\ r \in Conn!Outcomes
    BY <1>2, <2>1 DEF Conn!End, Conn!Outcomes, Outcomes, Finish, Live
  <2> QED BY <2>2
<1>3. ASSUME NEW q \in Exchanges, TakeReply(q) PROVE Conn!Next
  <2>1. q \in Live /\ Finish(q, pending[id[q]].response)
    BY <1>3 DEF TakeReply, Polled, Live
  <2>2. pending[id[q]] \in Slot
    BY <1>0, <2>1 DEF Inv, TypeOK, SlotOwnership, Registered, Live
  <2>3. pending[id[q]].response \in {"response", "protocol"}
    BY <1>3, <2>2, SlotFields DEF TakeReply, Responses
  <2> QED BY <1>2, <2>1, <2>3 DEF Outcomes
<1>4. ASSUME NEW q \in Exchanges, Cancel(q) \/ ReturnClosed(q) \/ ReturnTimeout(q)
      PROVE  Conn!Next
  BY <1>2, <1>4 DEF Cancel, ReturnClosed, ReturnTimeout, Polled, Live, Outcomes
<1>5. ASSUME UNCHANGED <<closed, outcome>>,
             \A q \in Exchanges : /\ pc'[q] = "idle" <=> pc[q] = "idle"
                                  /\ pc'[q] = "done" <=> pc[q] = "done"
      PROVE  UNCHANGED Conn!vars
  BY <1>5 DEF ConnState
<1>6. ASSUME NEW q \in Exchanges, Transmit(q) \/ Wake(q) \/ Expire(q) \/ Repark(q)
      PROVE  UNCHANGED Conn!vars
  <2>1. \A p \in Exchanges : /\ pc'[p] = "idle" <=> pc[p] = "idle"
                             /\ pc'[p] = "done" <=> pc[p] = "done"
    BY <1>0, <1>6 DEF Transmit, Wake, Expire, Repark, TypeOK
  <2> QED BY <1>5, <1>6, <2>1 DEF Transmit, Wake, Expire, Repark, table
<1>7. CASE Close
  BY <1>7 DEF Close, callers, ConnState, Conn!Shut
<1>8. ASSUME \/ \E q \in Exchanges, question \in Questions : Complete(q, question)
             \/ \E n \in Exchanges : NotifyOne(n)
             \/ UNCHANGED vars
      PROVE  UNCHANGED Conn!vars
  BY <1>5, <1>8 DEF Complete, NotifyOne, callers, table, vars
<1> QED BY <1>1, <1>3, <1>4, <1>6, <1>7, <1>8 DEF Next, Caller, Await, AfterPoll, Reader

\* The correlator implements the abstract connection.
THEOREM ImplementsConnection == Spec => ConnSpec
<1>1. Init => Conn!Init
  BY DEF Init, Conn!Init, ConnState
<1>2. Inv /\ [Next]_vars => [Conn!Next]_(Conn!vars)
  BY ConnStep
<1> QED BY <1>1, <1>2, Invariance, PTL DEF Spec, ConnSpec, Conn!Spec

-------------------------------------------------------------------------------
(* FramedConn.                                                               *)

\* Every step of the stream transport is a step of Correlator, or changes nothing
\* of it.
LEMMA FramedStepCorrelates == [FramedNext]_framedVars => [Next]_vars
<1> SUFFICES ASSUME [FramedNext]_framedVars PROVE [Next]_vars
  OBVIOUS
<1>1. ASSUME NEW q \in Exchanges, FramedCaller(q) PROVE Next
  BY <1>1 DEF FramedCaller, RegisterFrame, Send, SendRefused, AwaitResponse, Next, Caller
<1>2. CASE Writer
  BY <1>2 DEF Writer, WriterReceives, WriteFrame, Flush, WriteFails, WriterExits
<1>3. CASE FramedReader
  BY <1>3 DEF FramedReader, Receive, ReaderNotifies, ReaderEnds, Next, Reader
<1>4. CASE PeerStalls \/ UNCHANGED framedVars
  BY <1>4 DEF PeerStalls, framedVars
<1> QED BY <1>1, <1>2, <1>3, <1>4 DEF FramedNext

\* FramedConn implements Correlator (framed.rs: exchange, write_loop, read_loop).
THEOREM FramedImplementsCorrelator == FramedSpec => CorrelatorSpec
<1>1. FramedInit => Init
  BY DEF FramedInit
<1> QED BY <1>1, FramedStepCorrelates, PTL DEF FramedSpec, CorrelatorSpec, Spec

\* So Do53-TCP and DoT keep the promises of Connection.
THEOREM FramedImplementsConnection == FramedSpec => ConnSpec
BY FramedImplementsCorrelator, ImplementsConnection, PTL DEF CorrelatorSpec

-------------------------------------------------------------------------------
StreamTypes ==
    /\ channel \in Seq(Exchanges) /\ Len(channel) <= Capacity
    /\ writer \in {"receiving", "writing", "flushing", "shutting", "gone"}
    /\ held \in Exchanges
    /\ buffered \subseteq Exchanges
    /\ sent \subseteq Exchanges
    /\ stalled \in BOOLEAN

Handed == {"parked", "woken", "expired"}
InChannel(q) == \E k \in 1..Len(channel) : channel[k] = q

\* FrameKept, of every query that has been handed over and has not ended: it may wake
\* or expire and park again.
HandedKept ==
    \A q \in Exchanges :
        pc[q] \in Handed /\ writer \notin {"shutting", "gone"} =>
            q \in sent \cup buffered \/ InChannel(q) \/ (writer = "writing" /\ held = q)

\* A channel that is taken from, and one that is added to.
LEMMA ChannelHead ==
    ASSUME StreamTypes, channel # <<>>
    PROVE  /\ Head(channel) \in Exchanges
           /\ Tail(channel) \in Seq(Exchanges)
           /\ Len(Tail(channel)) = Len(channel) - 1
           /\ \A q : InChannel(q) =>
                q = Head(channel) \/ \E k \in 1..Len(Tail(channel)) : Tail(channel)[k] = q
<1>1. Len(channel) \in Nat \ {0} /\ channel \in Seq(Exchanges)
  BY DEF StreamTypes
<1>2. /\ Head(channel) \in Exchanges /\ Head(channel) = channel[1]
      /\ Tail(channel) \in Seq(Exchanges) /\ Len(Tail(channel)) = Len(channel) - 1
      /\ \A k \in 1..(Len(channel) - 1) : Tail(channel)[k] = channel[k + 1]
  BY <1>1
<1>3. ASSUME NEW k \in 1..Len(channel), k # 1
      PROVE  k - 1 \in 1..Len(Tail(channel)) /\ Tail(channel)[k - 1] = channel[k]
  BY <1>1, <1>2, <1>3
<1> QED BY <1>2, <1>3 DEF InChannel

LEMMA ChannelAppend ==
    ASSUME StreamTypes, NEW q \in Exchanges, Len(channel) < Capacity,
           channel' = Append(channel, q)
    PROVE  /\ channel' \in Seq(Exchanges) /\ Len(channel') <= Capacity
           /\ InChannel(q)'
           /\ \A p : InChannel(p) => InChannel(p)'
<1>1. Len(channel) \in Nat /\ channel \in Seq(Exchanges)
  BY DEF StreamTypes
<1>2. /\ channel' \in Seq(Exchanges) /\ Len(channel') = Len(channel) + 1
      /\ channel'[Len(channel) + 1] = q
      /\ \A k \in 1..Len(channel) : channel'[k] = channel[k]
  BY <1>1
<1>3. Len(channel') <= Capacity
  BY <1>1, <1>2, CapacityAssumption
<1> QED BY <1>1, <1>2, <1>3 DEF InChannel

LEMMA StreamStep ==
    ASSUME TypeOK, StreamTypes, HandedKept, [FramedNext]_framedVars
    PROVE  StreamTypes' /\ HandedKept'
<1>1. CASE UNCHANGED stream /\ \A q \in Exchanges : pc'[q] \in Handed => pc[q] \in Handed
  BY <1>1 DEF stream, StreamTypes, HandedKept, InChannel
<1>2. ASSUME NEW q \in Exchanges, RegisterFrame(q) \/ AwaitResponse(q)
      PROVE  StreamTypes' /\ HandedKept'
  <2>1. UNCHANGED stream
    BY <1>2 DEF RegisterFrame, AwaitResponse
  <2>2. \A p \in Exchanges : pc'[p] \in Handed => pc[p] \in Handed
    BY <1>2 DEF RegisterFrame, AwaitResponse, Register, Await, Wake, Expire, AfterPoll,
       TakeReply, ReturnClosed, ReturnTimeout, Repark, Polled, Finish, Handed, TypeOK
  <2> QED BY <1>1, <2>1, <2>2
<1>3. ASSUME NEW q \in Exchanges, SendRefused(q) PROVE StreamTypes' /\ HandedKept'
  BY <1>3 DEF SendRefused, stream, StreamTypes, HandedKept
<1>4. ASSUME NEW q \in Exchanges, Send(q) PROVE StreamTypes' /\ HandedKept'
  <2>1. /\ pc' = [pc EXCEPT ![q] = "parked"] /\ channel' = Append(channel, q)
        /\ Len(channel) < Capacity /\ UNCHANGED <<writer, held, buffered, sent, stalled>>
    BY <1>4 DEF Send, Transmit
  <2>2. \A p \in Exchanges : pc'[p] = IF p = q THEN "parked" ELSE pc[p]
    BY <2>1 DEF TypeOK
  <2>3. InChannel(q)' /\ \A p : InChannel(p) => InChannel(p)'
    BY <2>1, ChannelAppend
  <2>4. StreamTypes'
    BY <2>1, ChannelAppend DEF StreamTypes
  <2>5. HandedKept'
    BY <2>1, <2>2, <2>3 DEF HandedKept
  <2> QED BY <2>4, <2>5
<1>5. CASE WriterReceives
  <2>1. /\ channel # <<>> /\ held' = Head(channel) /\ channel' = Tail(channel)
        /\ writer' = "writing" /\ writer = "receiving"
        /\ UNCHANGED <<pc, buffered, sent, stalled>>
    BY <1>5 DEF WriterReceives, vars
  <2>2. StreamTypes'
    BY <2>1, ChannelHead, CapacityAssumption DEF StreamTypes
  <2>3. \A p : InChannel(p) => p = held' \/ InChannel(p)'
    BY <2>1, ChannelHead DEF InChannel
  <2> QED BY <2>1, <2>2, <2>3 DEF HandedKept
<1>6. CASE WriteFrame
  <2>1. /\ writer = "writing" /\ UNCHANGED <<pc, stalled>>
        /\ buffered' \subseteq Exchanges /\ sent' \subseteq Exchanges
        /\ sent \cup buffered \cup {held} \subseteq sent' \cup buffered'
    BY <1>6 DEF WriteFrame, vars, StreamTypes
  <2>2. CASE channel = <<>> /\ writer' = "flushing" /\ UNCHANGED <<channel, held>>
    BY <2>1, <2>2 DEF StreamTypes, HandedKept, InChannel
  <2>3. CASE /\ channel # <<>> /\ held' = Head(channel) /\ channel' = Tail(channel)
             /\ UNCHANGED writer
    <3>1. StreamTypes'
      BY <2>1, <2>3, ChannelHead, CapacityAssumption DEF StreamTypes
    <3>2. \A p : InChannel(p) => p = held' \/ InChannel(p)'
      BY <2>3, ChannelHead DEF InChannel
    <3> QED BY <2>1, <2>3, <3>1, <3>2 DEF HandedKept
  <2> QED BY <1>6, <2>2, <2>3 DEF WriteFrame, AfterWrite
<1>7. CASE Flush
  BY <1>7 DEF Flush, vars, StreamTypes, HandedKept, InChannel
<1>8. CASE WriteFails
  BY <1>8 DEF WriteFails, vars, StreamTypes, HandedKept
<1>9. CASE WriterExits
  <2>1. channel' \in Seq(Exchanges) /\ Len(channel') <= Capacity
    BY <1>9, CapacityAssumption DEF WriterExits
  <2> QED BY <1>9, <2>1 DEF WriterExits, vars, StreamTypes, HandedKept
<1>10. CASE FramedReader
  BY <1>1, <1>10
  DEF FramedReader, Receive, ReaderNotifies, ReaderEnds, Complete, NotifyOne, Close, callers
<1>11. CASE PeerStalls
  BY <1>11 DEF PeerStalls, vars, StreamTypes, HandedKept, InChannel
<1>12. CASE UNCHANGED framedVars
  BY <1>1, <1>12 DEF framedVars, vars
<1> QED
  BY <1>2, <1>3, <1>4, <1>5, <1>6, <1>7, <1>8, <1>9, <1>10, <1>11, <1>12
  DEF FramedNext, FramedCaller, Writer

LEMMA FramedTypes == FramedSpec => []TypeOK
BY FramedImplementsCorrelator, TypeCorrect, PTL DEF CorrelatorSpec

LEMMA StreamInvariance == FramedSpec => [](StreamTypes /\ HandedKept)
<1>1. FramedInit => StreamTypes /\ HandedKept
  <2> SUFFICES ASSUME FramedInit PROVE StreamTypes /\ HandedKept
    OBVIOUS
  <2>1. channel \in Seq(Exchanges) /\ Len(channel) <= Capacity
    BY CapacityAssumption DEF FramedInit
  <2> QED BY <2>1 DEF FramedInit, Init, StreamTypes, HandedKept, Handed
<1> QED BY <1>1, FramedTypes, StreamStep, PTL DEF FramedSpec

\* The channel stays within its capacity, and the rest within its types.
THEOREM FramedTyped == FramedSpec => []FramedTypeOK
<1>1. TypeOK /\ StreamTypes => FramedTypeOK
  BY DEF StreamTypes, FramedTypeOK
<1> QED BY <1>1, FramedTypes, StreamInvariance, PTL

\* No frame is lost on its way from exchange() to the peer while the writer lives:
\* write_loop takes every frame it dequeues to the socket or to the buffer.
THEOREM FramesStayKept == FramedSpec => []FrameKept
<1>1. HandedKept => FrameKept
  BY DEF HandedKept, FrameKept, Handed, InChannel
<1> QED BY <1>1, StreamInvariance, PTL
===============================================================================
