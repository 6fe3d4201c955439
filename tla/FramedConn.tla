------------------------------ MODULE FramedConn ------------------------------
(***************************************************************************)
(* FramedConn of crates/dns/src/transport/framed.rs, the stream transport  *)
(* of Do53-TCP and DoT: exchange() hands its frame to a bounded channel, a *)
(* writer task moves frames from the channel to the socket, the correlator *)
(* and its reader task do the rest.  The module extends Correlator with    *)
(* the channel, the writer task and the peer's end of the socket, and      *)
(* refines it.                                                             *)
(***************************************************************************)
EXTENDS Correlator

CONSTANT Capacity       \* of the channel: max_in_flight, at least 1

\* The actor's window is min(max_in_flight, in_flight).
ASSUME CapacityAssumption == Capacity \in Nat \ {0} /\ Window <= Capacity

VARIABLES
    channel,        \* frames handed over and not yet taken by the writer
    writer,         \* what the writer task is doing
    held,           \* the frame it is writing, when it is writing one
    buffered,       \* frames written and not flushed (rustls keeps them)
    sent,           \* frames the peer has received
    stalled         \* the peer has stopped reading: writes no longer complete

stream == <<channel, writer, held, buffered, sent, stalled>>
framedVars == <<vars, stream>>

FramedTypeOK ==
    /\ TypeOK
    /\ channel \in Seq(Exchanges) /\ Len(channel) <= Capacity
    /\ writer \in {"receiving", "writing", "flushing", "shutting", "gone"}
    /\ held \in Exchanges
    /\ buffered \subseteq Exchanges
    /\ sent \subseteq Exchanges
    /\ stalled \in BOOLEAN

FramedInit ==
    /\ Init
    /\ channel = <<>>
    /\ writer = "receiving"
    /\ held \in Exchanges          \* means nothing until a frame is received
    /\ buffered = {}
    /\ sent = {}
    /\ stalled = FALSE

-------------------------------------------------------------------------------
(* exchange().                                                               *)

\* The id is patched into the frame's copy of the message.
RegisterFrame(q) == Register(q) /\ UNCHANGED stream

\* ... try_send, its Full error ignored.
Send_DropWhenFull(q) ==
    /\ Transmit(q)
    /\ writer # "gone"
    /\ channel' = IF Len(channel) < Capacity THEN Append(channel, q) ELSE channel
    /\ UNCHANGED <<writer, held, buffered, sent, stalled>>

\* writer.send(frame).await waits for room in the channel, with no time limit.
Send(q) ==
    /\ Transmit(q)
    /\ writer # "gone"
    /\ Len(channel) < Capacity
    /\ channel' = Append(channel, q)
    /\ UNCHANGED <<writer, held, buffered, sent, stalled>>

\* ... the caller gets its error, the slot stays.
SendRefused_KeepSlot(q) ==
    /\ pc[q] = "sending"
    /\ writer = "gone"
    /\ pc' = [pc EXCEPT ![q] = "done"]
    /\ outcome' = [outcome EXCEPT ![q] = "unsent"]
    /\ UNCHANGED <<table, permit, notifying, id, handle, answer, stream>>

\* Once the writer has dropped its end of the channel: cancel, and the
\* ConnectionClosed of a query that was never sent, which is "unsent" here.
SendRefused(q) == writer = "gone" /\ Cancel(q) /\ UNCHANGED stream

AwaitResponse(q) == Await(q) /\ UNCHANGED stream

-------------------------------------------------------------------------------
(* The writer task.                                                          *)

WriterReceives ==
    /\ writer = "receiving"
    /\ channel # <<>>
    /\ held' = Head(channel)
    /\ channel' = Tail(channel)
    /\ writer' = "writing"
    /\ UNCHANGED <<vars, buffered, sent, stalled>>

\* ... no flush at the end of a burst.
AfterWrite_NoFlush == "receiving"

\* Nothing more queued: flush.
AfterWrite == "flushing"

\* write_all, then try_recv: a frame already queued is written before the flush.
\* The buffering writer may push what it holds to the socket at any write.
WriteFrame ==
    /\ writer = "writing"
    /\ ~stalled
    /\ \/ /\ buffered' = buffered \cup {held}
          /\ UNCHANGED sent
       \/ /\ buffered' = {}
          /\ sent' = sent \cup buffered \cup {held}
    /\ IF channel = <<>>
       THEN writer' = AfterWrite /\ UNCHANGED <<channel, held>>
       ELSE held' = Head(channel) /\ channel' = Tail(channel) /\ UNCHANGED writer
    /\ UNCHANGED <<vars, stalled>>

Flush ==
    /\ writer = "flushing"
    /\ ~stalled
    /\ sent' = sent \cup buffered
    /\ buffered' = {}
    /\ writer' = "receiving"
    /\ UNCHANGED <<vars, channel, held, stalled>>

\* A write or flush error ends the loop ...
WriteFails ==
    /\ writer \in {"writing", "flushing"}
    /\ writer' = "shutting"
    /\ UNCHANGED <<vars, channel, held, buffered, sent, stalled>>

\* ... the task ends, its receiver is kept alive elsewhere.
WriterExits_KeepReceiver ==
    /\ writer = "shutting"
    /\ UNCHANGED framedVars

\* ... and the receiver, with the frames still queued, goes after the shutdown.
WriterExits ==
    /\ writer = "shutting"
    /\ writer' = "gone"
    /\ channel' = <<>>
    /\ UNCHANGED <<vars, held, buffered, sent, stalled>>

-------------------------------------------------------------------------------
(* The peer and the reader task.                                             *)

\* The peer answers only what has reached it.
Receive(q, question) == q \in sent /\ Complete(q, question) /\ UNCHANGED stream

ReaderNotifies(n) == NotifyOne(n) /\ UNCHANGED stream
ReaderEnds == Close /\ UNCHANGED stream

PeerStalls ==
    /\ ~stalled
    /\ stalled' = TRUE
    /\ UNCHANGED <<vars, channel, writer, held, buffered, sent>>

-------------------------------------------------------------------------------
FramedCaller(q) ==
    RegisterFrame(q) \/ Send(q) \/ SendRefused(q) \/ AwaitResponse(q)

Writer == WriterReceives \/ WriteFrame \/ Flush \/ WriteFails \/ WriterExits

FramedReader ==
    \/ \E q \in Exchanges, question \in Questions : Receive(q, question)
    \/ \E n \in Exchanges : ReaderNotifies(n)
    \/ ReaderEnds

FramedNext ==
    \/ \E q \in Exchanges : FramedCaller(q)
    \/ Writer
    \/ FramedReader
    \/ PeerStalls

\* Tasks that can make progress are polled and timers elapse.  The channel hands
\* out room first come, first served, so a waiting sender is not passed over for
\* ever.  The peer need not answer, and a stalled peer lets no write complete.
FramedFairness ==
    /\ \A q \in Exchanges :
          /\ SF_framedVars(Send(q))
          /\ WF_framedVars(SendRefused(q))
          /\ WF_framedVars(Wake(q) /\ UNCHANGED stream)
          /\ WF_framedVars(Expire(q) /\ UNCHANGED stream)
          /\ WF_framedVars(AfterPoll(q) /\ UNCHANGED stream)
    /\ \A n \in Exchanges : WF_framedVars(ReaderNotifies(n))
    /\ WF_framedVars(WriterReceives)
    /\ WF_framedVars(WriteFrame)
    /\ WF_framedVars(Flush)
    /\ WF_framedVars(~stalled /\ WriterExits)

FramedSpec == FramedInit /\ [][FramedNext]_framedVars /\ FramedFairness

-------------------------------------------------------------------------------
(* Properties.                                                               *)

\* The stream transport is a transport the correlator is made for: all that
\* holds of Correlator holds here.
CorrelatorSpec == Spec

\* While the writer lives, the frame of a query that is waiting for its answer
\* is in the channel, in the writer's hands, in its buffer or at the peer.
FrameKept ==
    \A q \in Exchanges :
        pc[q] = "parked" /\ writer \notin {"shutting", "gone"} =>
            \/ q \in sent \cup buffered
            \/ \E k \in 1..Len(channel) : channel[k] = q
            \/ writer = "writing" /\ held = q

\* The last frames of a burst do not stay in the writer's buffer until the next
\* write (the reason write_loop flushes when the channel runs empty).
BurstFlushed ==
    [](buffered # {} => <>(buffered = {} \/ stalled \/ writer \in {"shutting", "gone"}))

\* As long as the peer reads, every query ends, whatever else the peer does.
ExchangesEndUnlessStalled == []<>(Live = {} \/ stalled)

\* The promise of the per-query timeout: every query ends.  A query that waits
\* for room in the channel is not under the timeout, so a stalled peer breaks it.
PerQueryTimeout == []<>(Live = {})
===============================================================================
