------------------------------ MODULE Correlator ------------------------------
(***************************************************************************)
(* The correlator of crates/dns/src/transport/framed.rs, which UDP, TCP    *)
(* and DoT connections share: it gives each query a 16-bit transaction id, *)
(* parks the caller on a recycled Notify, and lets the one reader task     *)
(* deliver replies by id.                                                  *)
(*                                                                         *)
(* The callers (polled by one actor) and the reader run on different       *)
(* threads.  What happens under the state's mutex is one step; what the    *)
(* code does outside it (waking a Notify after unlocking, the poll that    *)
(* notices a permit or an elapsed timer before locking) is a step of its   *)
(* own.  The module is the composition of the correlator with the most     *)
(* general transport: a send succeeds or fails, and the peer may answer    *)
(* any query it has been sent, late, repeatedly, never, or with another    *)
(* question.  UdpConn (do53.rs) is this module as it stands; FramedConn    *)
(* refines the transport.                                                  *)
(***************************************************************************)
EXTENDS Integers, FiniteSets, SequencesExt

CONSTANTS
    Exchanges,      \* the calls of Connection::exchange
    Questions,      \* the question sections they may carry
    QuestionOf,     \* the question each of them asks
    IdSpace,        \* number of transaction ids: 2^16 in the code
    Window,         \* exchanges the actor keeps open at once: min(caps, in_flight)
    NoSlot          \* an id with no entry in the pending map

Ids == 0..(IdSpace - 1)

\* What complete() leaves in a slot, "none" before it.
Responses == {"none", "response", "protocol"}

\* Not in the code: `answers`, the exchange whose query the stored reply
\* answers, and `early`, whether the slot was made before the connection closed.
\* A Notify is named after the exchange whose registration made it.
Slot == [notify: Exchanges, question: Questions, response: Responses,
         answers: Exchanges, early: BOOLEAN]

ASSUME CorrelatorAssumption ==
    /\ IdSpace \in Nat \ {0}
    /\ Window \in 1..IdSpace
    /\ QuestionOf \in [Exchanges -> Questions]
    /\ NoSlot \notin Slot

Outcomes == {"response", "protocol", "timeout", "closed", "unsent"}

VARIABLES
    \* under the mutex
    pending,        \* transaction id -> Slot or NoSlot
    free,           \* recycled Notify handles, a stack
    closed,         \* the reader has ended
    counter,        \* next id to try
    \* the Notify handles
    permit,         \* handles that hold a wake-up permit
    \* the reader
    notifying,      \* handles the reader is about to call notify_one on
    \* the callers
    pc,             \* where each exchange is
    id,             \* its transaction id, once registered
    handle,         \* the Notify it parks on, once registered
    outcome,        \* its result, "none" before that
    answer          \* not in the code: the exchange the delivered reply answers

table == <<pending, free, closed, counter>>
callers == <<pc, id, handle, outcome, answer>>
vars == <<pending, free, closed, counter, permit, notifying, pc, id, handle,
          outcome, answer>>

TypeOK ==
    /\ pending \in [Ids -> Slot \cup {NoSlot}]
    /\ free \in Seq(Exchanges)
    /\ closed \in BOOLEAN
    /\ counter \in Nat
    /\ permit \subseteq Exchanges
    /\ notifying \subseteq Exchanges
    /\ pc \in [Exchanges -> {"idle", "sending", "parked", "woken", "expired", "done"}]
    /\ id \in [Exchanges -> Ids]
    /\ handle \in [Exchanges -> Exchanges]
    /\ outcome \in [Exchanges -> Outcomes \cup {"none"}]
    /\ answer \in [Exchanges -> Exchanges]

Init ==
    /\ pending = [i \in Ids |-> NoSlot]
    /\ free = <<>>
    /\ closed = FALSE
    /\ counter = 0
    /\ permit = {}
    /\ notifying = {}
    /\ pc = [q \in Exchanges |-> "idle"]
    /\ id = [q \in Exchanges |-> 0]
    /\ handle = [q \in Exchanges |-> q]
    /\ outcome = [q \in Exchanges |-> "none"]
    /\ answer = [q \in Exchanges |-> q]

Live == {q \in Exchanges : pc[q] \notin {"idle", "done"}}
Registered(i) == pending[i] # NoSlot

-------------------------------------------------------------------------------
(* The caller: register, hand the query to the transport, await_response.    *)

\* The linear probe: i is the first id at or after the counter that is not
\* pending, n ids further on.
Probe(n, i) ==
    /\ i = (counter + n) % IdSpace
    /\ ~Registered(i)
    /\ \A m \in 0..(n - 1) : Registered((counter + m) % IdSpace)

\* Slips the properties are checked against are named <Definition>_<slip> and
\* stand before the definition they alter; nothing else uses them.

\* ... the counter moves on only past ids in use.
Advance_OnlyPastPending(n) == counter + n

\* The counter after a registration that probed n ids in vain.
Advance(n) == counter + n + 1

\* ... the free list is looked at, not popped.
PopFree_Peek == free

\* ... the handle is taken from the other end.
FreshOrRecycled_Oldest(q) == IF free = <<>> THEN q ELSE Head(free)

\* The Notify of a new slot, and the free list without it.
FreshOrRecycled(q) == IF free = <<>> THEN q ELSE Last(free)
PopFree == IF free = <<>> THEN free ELSE Front(free)

Register(q) ==
    /\ pc[q] = "idle"
    /\ Cardinality(Live) < Window
    /\ \E n \in 0..(IdSpace - 1), i \in Ids :
          LET notify == FreshOrRecycled(q) IN
          /\ Probe(n, i)
          /\ counter' = Advance(n)
          /\ free' = PopFree
          /\ pending' = [pending EXCEPT ![i] =
                 [notify |-> notify, question |-> QuestionOf[q],
                  response |-> "none", answers |-> q, early |-> ~closed]]
          /\ id' = [id EXCEPT ![q] = i]
          /\ handle' = [handle EXCEPT ![q] = notify]
    /\ pc' = [pc EXCEPT ![q] = "sending"]
    /\ UNCHANGED <<closed, permit, notifying, outcome, answer>>

\* The transport took the query: the caller goes on to park.
Transmit(q) ==
    /\ pc[q] = "sending"
    /\ pc' = [pc EXCEPT ![q] = "parked"]
    /\ UNCHANGED <<table, permit, notifying, id, handle, outcome, answer>>

\* Every way out of an exchange recycles its slot under the same lock.
Finish(q, result) ==
    /\ pending' = [pending EXCEPT ![id[q]] = NoSlot]
    /\ free' = Append(free, pending[id[q]].notify)
    /\ outcome' = [outcome EXCEPT ![q] = result]
    /\ pc' = [pc EXCEPT ![q] = "done"]
    /\ UNCHANGED <<closed, counter, permit, notifying, id, handle>>

\* ... a result no caller knows.
Cancel_UnknownResult(q) ==
    /\ pc[q] = "sending"
    /\ Finish(q, "cancelled")
    /\ UNCHANGED answer

\* The transport refused it: cancel(id).
Cancel(q) ==
    /\ pc[q] = "sending"
    /\ Finish(q, "unsent")
    /\ UNCHANGED answer

\* The poll of timeout(remaining, notified()) that finds a permit ...
Wake(q) ==
    /\ pc[q] = "parked"
    /\ handle[q] \in permit
    /\ permit' = permit \ {handle[q]}
    /\ pc' = [pc EXCEPT ![q] = "woken"]
    /\ UNCHANGED <<table, notifying, id, handle, outcome, answer>>

\* ... and the one that finds the time up.  A permit that arrives between the
\* two checks of that poll stays with the Notify.
Expire(q) ==
    /\ pc[q] = "parked"
    /\ pc' = [pc EXCEPT ![q] = "expired"]
    /\ UNCHANGED <<table, permit, notifying, id, handle, outcome, answer>>

Polled(q) == pc[q] \in {"woken", "expired"}

TakeReply(q) ==
    /\ Polled(q)
    /\ pending[id[q]].response # "none"
    /\ Finish(q, pending[id[q]].response)
    /\ answer' = [answer EXCEPT ![q] = pending[id[q]].answers]

\* ... the closed flag is looked at before the slot.
ReturnClosed_BeforeReply(q) ==
    /\ Polled(q)
    /\ closed
    /\ Finish(q, "closed")
    /\ UNCHANGED answer

ReturnClosed(q) ==
    /\ Polled(q)
    /\ pending[id[q]].response = "none"
    /\ closed
    /\ Finish(q, "closed")
    /\ UNCHANGED answer

\* ... the slot stays in the table after a timeout.
ReturnTimeout_KeepSlot(q) ==
    /\ pc[q] = "expired"
    /\ pending[id[q]].response = "none"
    /\ ~closed
    /\ outcome' = [outcome EXCEPT ![q] = "timeout"]
    /\ pc' = [pc EXCEPT ![q] = "done"]
    /\ UNCHANGED <<table, permit, notifying, id, handle, answer>>

\* ... the timer is looked at before the closed flag.
ReturnTimeout_BeforeClosed(q) ==
    /\ pc[q] = "expired"
    /\ pending[id[q]].response = "none"
    /\ Finish(q, "timeout")
    /\ UNCHANGED answer

ReturnTimeout(q) ==
    /\ pc[q] = "expired"
    /\ pending[id[q]].response = "none"
    /\ ~closed
    /\ Finish(q, "timeout")
    /\ UNCHANGED answer

\* ... the loop goes round whether or not the time is up.
Repark_IgnoreTimer(q) ==
    /\ Polled(q)
    /\ pending[id[q]].response = "none"
    /\ ~closed
    /\ pc' = [pc EXCEPT ![q] = "parked"]
    /\ UNCHANGED <<table, permit, notifying, id, handle, outcome, answer>>

\* A permit left in a recycled Notify: nothing in the slot, park again.
Repark(q) ==
    /\ pc[q] = "woken"
    /\ pending[id[q]].response = "none"
    /\ ~closed
    /\ pc' = [pc EXCEPT ![q] = "parked"]
    /\ UNCHANGED <<table, permit, notifying, id, handle, outcome, answer>>

AfterPoll(q) == TakeReply(q) \/ ReturnClosed(q) \/ ReturnTimeout(q) \/ Repark(q)

-------------------------------------------------------------------------------
(* The reader task.                                                          *)

\* ... returns early on a question mismatch, the waiter not woken.
Woken_OnMatchOnly(i, question) ==
    IF question = pending[i].question THEN {pending[i].notify} ELSE {}

\* The handles complete() is about to notify.
Woken(i, question) == {pending[i].notify}

\* A well-formed message arrives that answers the query of exchange q, with
\* the question the peer chose to echo.  Whoever now owns that id gets it.
\* Messages with an unparseable header or an id that is not pending change
\* nothing.
Complete(q, question) ==
    LET i == id[q] IN
    /\ ~closed
    /\ notifying = {}
    /\ pc[q] # "idle"
    /\ Registered(i)
    /\ pending' = [pending EXCEPT
          ![i].response = IF question = pending[i].question THEN "response" ELSE "protocol",
          ![i].answers = q]
    /\ notifying' = Woken(i, question)
    /\ UNCHANGED <<free, closed, counter, permit, callers>>

\* notify_one, after the lock is released.
NotifyOne(n) ==
    /\ n \in notifying
    /\ notifying' = notifying \ {n}
    /\ permit' = permit \cup {n}
    /\ UNCHANGED <<table, callers>>

\* EOF or a read error: mark the connection closed, then wake every waiter.
Close ==
    /\ ~closed
    /\ notifying = {}
    /\ closed' = TRUE
    /\ notifying' = {pending[i].notify : i \in {j \in Ids : Registered(j)}}
    /\ UNCHANGED <<pending, free, counter, permit, callers>>

-------------------------------------------------------------------------------
Await(q) == Wake(q) \/ Expire(q) \/ AfterPoll(q)
Caller(q) == Register(q) \/ Transmit(q) \/ Cancel(q) \/ Await(q)

Reader ==
    \/ \E q \in Exchanges, question \in Questions : Complete(q, question)
    \/ \E n \in Exchanges : NotifyOne(n)
    \/ Close

Next == (\E q \in Exchanges : Caller(q)) \/ Reader

Spec == Init /\ [][Next]_vars

\* The runtime polls every task that can make progress, and timers elapse.
\* Nothing is assumed of the peer.
Fairness ==
    /\ \A q \in Exchanges :
          /\ WF_vars(Transmit(q) \/ Cancel(q))
          /\ WF_vars(Wake(q))
          /\ WF_vars(Expire(q))
          /\ WF_vars(AfterPoll(q))
    /\ \A n \in Exchanges : WF_vars(NotifyOne(n))

FairSpec == Spec /\ Fairness

-------------------------------------------------------------------------------
(* Properties.                                                               *)

\* The pending map holds exactly the slots of the open exchanges, one each, and
\* a slot carries its owner's Notify and question: the .expect("slot stays
\* registered until its waiter removes it") of await_response never fires, no
\* id is given to two open queries, and no slot leaks.
SlotOwnership ==
    /\ \A i \in Ids : Registered(i) => \E q \in Live : id[q] = i
    /\ \A q \in Live :
          /\ Registered(id[q])
          /\ pending[id[q]].notify = handle[q]
          /\ pending[id[q]].question = QuestionOf[q]
    /\ \A p, q \in Live : id[p] = id[q] => p = q

\* A Notify serves one open exchange or lies in the free list once, never both:
\* notify_one wakes a single waiter, so two waiters on one Notify would starve.
NotifyExclusive ==
    /\ \A p, q \in Live : handle[p] = handle[q] => p = q
    /\ \A q \in Live, k \in 1..Len(free) : free[k] # handle[q]
    /\ \A j, k \in 1..Len(free) : free[j] = free[k] => j = k

\* However recycled permits, timeouts and notify_one interleave, a caller that
\* is parked or about to park need not wait for its timer once its slot holds a
\* reply, nor once the connection has closed over it: a permit is waiting, or a
\* notify_one of the reader is still to come.
NoLostWakeup ==
    \A q \in Exchanges :
        /\ pc[q] \in {"sending", "parked"}
        /\ LET slot == pending[id[q]] IN
              slot.response # "none" \/ (closed /\ slot.early)
        => handle[q] \in permit \cup notifying

\* Until the 16-bit ids wrap around, the reply an exchange returns answers its
\* own query, however late or often the peer answers the earlier ones.
DeliveredOwnReply ==
    counter <= IdSpace =>
        \A q \in Exchanges : outcome[q] \in {"response", "protocol"} => answer[q] = q

\* The free list "grows only during ramp-up": handles in use and recycled ones
\* together never exceed the in-flight window.
PoolBounded == Len(free) + Cardinality(Live) <= Window

\* A reply that is in the slot when its caller looks is the caller's result,
\* even if the timer has elapsed or the connection closed meanwhile.
ReplyNeverDiscarded ==
    [][\A q \in Exchanges :
          (Polled(q) /\ pending[id[q]].response # "none" /\ pc'[q] = "done")
              => outcome'[q] = pending[id[q]].response]_vars

\* Every exchange ends: spurious wake-ups by recycled permits do not keep it
\* from its deadline, nor does a connection that closed before it registered.
\* (An exchange is made once, so the connection stays busy only if one hangs.)
ExchangesEnd == []<>(Live = {})

\* The correlator implements the abstract connection: one true result for each
\* exchange, and "timeout" only of a connection that is still open.
ConnState ==
    [q \in Exchanges |->
        IF pc[q] = "idle" THEN "idle" ELSE IF pc[q] = "done" THEN outcome[q] ELSE "open"]

Conn == INSTANCE Connection WITH state <- ConnState, closing <- closed, shut <- closed

ConnSpec == Conn!Spec
===============================================================================
