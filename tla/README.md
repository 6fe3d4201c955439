# WireSurge in TLA+

WireSurge is a command-line DNS load generator and HTTP request runner. This
directory holds TLA+ specifications of it, the TLC configurations that check
them, and TLAPS proofs. `PROJECT.json` lists the runs,
the source lines every definition stands for, the hazards and the theorems.

- [Parts of the system](#parts-of-the-system)
- [Modules](#modules)
- [Runs and bounds](#runs-and-bounds)
- [Where code and documents disagree](#where-code-and-documents-disagree)
- [Fairness](#fairness)
- [Proofs](#proofs)
- [What is not modelled](#what-is-not-modelled)
- [Plan](#plan)

## Parts of the system

A load run has one *actor* (a Tokio task) per connection. All actors take query
indexes from one shared `WorkSource`; each drives one `Connection`; a
*correlator* under the UDP, TCP and DoT connections matches replies to callers.
`wiresurge load` makes the plan before and the progress, the totals and the exit
code around them. `wiresurge run` sends one HTTP request from a file of templates
and leaves a record and reports; the `request` commands keep a workspace of
requests on disk, which any number of processes share.

| Part (`src/crates/...`) | State it keeps | Operations | Hard because | Correct when |
|---|---|---|---|---|
| Correlator, `dns/src/transport/framed.rs` | pending map id → slot, free list of `Notify`, `closed`, 32-bit counter | `register`, `cancel`, `complete`, `await_response`, `close` | caller and reader are on different threads, `notify_one` is called outside the lock, handles and ids are reused, replies are late, repeated or wrong | one slot per open query, no lost wake-up, replies reach their own query, every exchange ends |
| UDP connection, `dns/src/transport/do53.rs` | socket, correlator | `exchange`, reader task | one receive error ends the reader | as the correlator |
| Framed connection (TCP, DoT), `framed.rs` | bounded channel, writer task, correlator | `exchange`, `write_loop`, `read_loop` | back-pressure, a buffering TLS writer, two tasks that die separately | frames are not lost while the writer lives, bursts are flushed |
| DoH connection, `dns/src/transport/doh.rs`, `http/src/h2.rs` | HTTP/2 sender | `exchange`, `is_closed` | closes under its users | as `Connection` |
| Load engine, `engine/src/load.rs` | shared counter, cancellation token, one recorder per actor | `WorkSource::next`, `RateGate::wait`, `run_actor`, `run_load_with_progress` | shared budget, waits inside loops, a signal at any time, connections closing | one budget, no index twice or early, queries accounted for, the run ends |
| Load command, `cli/src/lib.rs` | signal code | `drive_with_signal`, exit code | a signal races completion | truthful exit codes |
| Live progress, `load.rs`, `metrics/src/lib.rs` | worker slots, watch channel | `publish_slot`, `sample_progress`, final snapshot | sampler and run end concurrently | the last snapshot is the final one, samples add up |
| Recorder, `metrics/src/hist.rs` | counters, rcode buckets, histogram | `on_*`, `merge` | — | totals add up |
| HTTP run, `engine/src/lib.rs` | runner record, reports | one cancellable request | many exits, partial writes | terminal record on every path |
| Storage, `storage/src/lib.rs` | files | create, update, delete, list | several processes, crashes | no torn request, no id created twice |
| Corpus, `corpus/src/` | row index | sequential, random, Feistel selection | bit widths | permutation |
| DNS messages, `dns/src/lib.rs` | — | `build_query`, header, rcode, question | lengths that come from the message | a cut or foreign message is no answer |
| Scenarios, `core/src/` | cursor of the expansion, uuid counter | checks, `expand`, assertions, masking | escapes, numbers of three types, overlapping secrets | a template means one thing, verdicts are true, secrets stay hidden |
| Stream set-up, `transport/src/` | the stream | TCP, PROXY header, TLS, ALPN | order of what is written, failures between | the preamble is first |

An actor calls `next`, then `exchange`; the exchange registers with the
correlator, hands bytes to the socket or to the writer task, and parks; the
reader task completes slots and wakes; the actor records the result; `main` joins
the actors. The signal handler only sets the cancellation token.

## Modules

| Module | Models | Role |
|---|---|---|
| `Connection` | `trait Connection` | abstract: one true result per exchange, at most `Window` open |
| `Correlator` | the correlator, its reader, any transport; UDP as it stands | implements `Connection` |
| `FramedConn` | extends `Correlator` by channel, writer task and peer | implements `Correlator` |
| `StreamSetup` | TCP, PROXY header, TLS, ALPN, HTTP/2 preface | extended by `DohConn` |
| `DohConn` | exchanges over HTTP/2 streams, the driver task | implements `Connection` |
| `WorkBudget` | what the work source promises | abstract: one shared budget, indexes once and in their slot, no asking after a refusal or a stop |
| `LoadEngine` | actors, work source, signal, join | implements `WorkBudget` |
| `LoadCommand` | extends `LoadEngine` by panics, progress, final frame, exit code | `wiresurge load` around the engine |
| `RequestStore` | the files of stored requests under several processes | extended by `HttpRun` |
| `HttpRun` | `wiresurge run`: record, send, signal, report | composed with `RequestStore` |
| `RunFile` | from a file of templates to the output of a run | a pipeline over data |
| `LoadPlan` | from options to plan, corpus, queries, replies | a pipeline over data |
| `CommandLine` | the two pipelines as one process | composition |
| `LeftOut` | `None` of an option | shared constant |
| `MCCorrelator`, `MCFramedConn`, `MCDohConn`, `MCLoadEngine`, `MCLoadCommand`, `MCHttpRun`, `MCCommandLine` | | small instances for TLC |
| `CorrelatorProofs` (with `FramedConn`), `DohConnProofs`, `LoadEngineProofs`, `LoadCommandProofs`, `HttpRunProofs` (with `RequestStore`), `RunFileProofs`, `CommandLineProofs` (with `LoadPlan`) | | theorems |
| `Induction` | | induction over finite sets, numbers and measures, for the proofs |

Definitions named `Definition_Slip` (`Cancel_UnknownResult`, ...) are plausible
mistakes in `Definition`. No specification uses them: replacing the definition by
its slip makes TLC report the property it is meant to violate, which shows that
the property depends on the code.

### Correlator

`pending`, `free`, `closed` and `counter` are the fields of `CorrelatorState` and
`Correlator`. What the code does under the mutex is one action; what it does
outside is an action of its own, because others can run in between:

| Action | Code |
|---|---|
| `Register` | `register`: the probe from `counter`, the `Notify` popped or made, the slot |
| `Transmit`, `Cancel` | the send succeeds, or fails and the slot is cancelled |
| `Wake`, `Expire` | the poll of `timeout(remaining, notified())` finds a permit, or the time up |
| `TakeReply`, `ReturnClosed`, `ReturnTimeout`, `Repark` | the critical section after it, one per way out |
| `Complete` | `complete` up to the unlock: the slot's response is set |
| `NotifyOne` | `notify_one` after the unlock, for a reply or for each waiter of `close` |
| `Close` | `close` up to the unlock |

A `Notify` is named after the exchange whose registration made it. `answers`,
`answer` and `early` are history: which query a reply answers, and whether a slot
is older than the close. Messages are abstracted to the query they answer and
the question they echo. Unparseable messages, and messages with an id that is not
pending, change nothing in the code and are no steps here. `counter` is not cut
to 32 bits; the 16-bit cut is `% IdSpace`.

Properties: `SlotOwnership` (the `.expect` of `await_response` cannot fire),
`NotifyExclusive`, `NoLostWakeup`, `DeliveredOwnReply`, `PoolBounded`,
`ReplyNeverDiscarded`, `ExchangesEnd` and the refinement `ConnSpec`.
`DeliveredOwnReply` is claimed only until the ids wrap. After that the code cannot
tell a late answer to an old query from the answer to a new one with the same id
and question: the guarantee ends there, and the property says so.

### FramedConn

Adds the bounded channel (`channel`), the writer task (`writer`, `held`), what a
buffering writer has not pushed to the socket (`buffered`), what has reached the
peer (`sent`), and whether the peer still reads (`stalled`). The peer answers only
what has reached it. The `ConnectionClosed` of a query that could not be handed to the writer
(`SendRefused`) is "unsent", as "closed" is only said once the reader has closed too. `WriteFrame` is `write_all` together with the `try_recv` that
follows it. `CorrelatorSpec` says that every property of `Correlator` that is not a
liveness property holds here; liveness is checked again, as
`ExchangesEndUnlessStalled`.

### LoadEngine

Each actor has a program counter `pc`:

| `pc` | Code |
|---|---|
| `connecting` | the select on cancellation, timeout and connect |
| `filling` | the condition of the fill loop (`MayFill`) |
| `taking` | in `next()`, before `fetch_add` |
| `gated` | in `RateGate::wait` |
| `selecting` | the select over cancellation and `inflight.next()` |
| `grace` | the inner loop after a cancellation |
| `draining` | `conn.drain` |

`queued` are the futures pushed and not yet polled: their queries have not been
sent. `flight` are those polled. Both advance only in `selecting` and `grace`,
because that is where the code polls them; a wait at the gate polls nothing.
Time is a counter of rate-cap slots (`clock`), so slot `i` comes at `clock = i`. The
actor re-reads the cancellation token and `is_closed` where the code does; in
particular not between the check of the loop and `fetch_add`. The tick arm of the
select only publishes progress and is left out, as is what the slots show.

`recorder` keeps the counters of `LoadRecorder`, with `timeouts` and `errors` in
one. `issued` and `late` are history: the indexes of the queries an actor pushed,
and how many of them after its connection closed. `Indexes` are those that count and
slot budget leave; a run that its duration alone bounds has no last one (`Bounded`).

Properties: `WorkSpec` (the refinement), `Accounted`, `BudgetUsed`,
`ClosedStopsFeeding` (for transports that report their closing), `CancelEndsRun`,
`RunEnds`.

### LoadCommand

A panic (`Panics`) drops the actor's queries and its recorder; what the join puts
in place of it is one connection error. `published` are the worker slots. An actor
writes its slot on the tick of its select and at its end, and the sampler reads
them one by one (`ReadSlot`), so a sample mixes moments. The abort of the sampler takes
effect only at an await, which the loop has only at its head: `AbortSampler` and
`SamplerStops` are steps of their own, and the final frame waits for the second.
`Signal` of `LoadEngine` is the signal arm of `drive_with_signal`.

Properties: `FinalLast`, `SamplesAddUp`, `ExitTruthful`, `CommandEnds`.

### StreamSetup and DohConn

`StreamSetup` has one action per thing `DohTransport::connect` does, in its order
(the template and the TLS configuration are looked at before the socket, the
server name only after it), and keeps of the bytes only what kind they are
(`wire`). `DohConn` adds the exchanges: `begun` is before `assemble`, `queued`
handed to hyper, `sent` on a stream, `head` in the body. hyper and the peer are the
environment: they open streams within the peer's limit, send headers and pieces of
a body, say GOAWAY, or are gone. `TimerElapses` is the one timer of the exchange.
It is polled after the exchange itself: a complete body, or the error of a
driver that has gone, wins over it.

Properties: `PreambleFirst`, `DohConnSpec` (it is a `Connection`: "closed" is said
only when a GOAWAY or the end of the driver is known, "timeout" never once the
driver has gone), `DohExchangesEnd`.

### RequestStore and HttpRun

Files are inodes behind paths: an open file keeps its inode and its offset when
the path is renamed or removed. Each system call is a step, a document is one or two
pieces long and each piece known by its writer, so that torn and mixed files are
visible. `create_request` writes in place (`OpenNew`, `Write`); `update_request`
checks, truncates and fills `<id>.yaml.tmp`, renames, and reads back (`CheckUpdate`,
`OpenTemp`, `Write`, `Rename`, `Reload`); delete checks and removes; list reads the
directory and then every file. `Dies` is a kill, or a failing call, between any two
steps. `mixed` and `makers` are history: the ids whose temporary file two updates had
open, and the processes that have brought a request into being since it was last
deleted, an update that had found it before among them.

`HttpRun` puts runs beside these processes: load and expand, the active record, the
send under the signal handler, the terminal record, then the report's five files.
Each of those files is truncated and filled in two steps, and either may fail.
Stamps are the milliseconds of `generate_id`, of which two runs may share one.

Properties: `OnlyCreatesTear`, `CreatedOnce`, `RunnerTerminal`, `VerdictsAgree`,
`ListedReportComplete`.

### RunFile, LoadPlan and CommandLine

These are the sequential parts, where values and not interleavings are the
hazard; their state is the cursor of the code's own loops. In `RunFile` a text is a
sequence of tokens (backslash, opener, closer, word); `expand` is its loop, one
iteration a step (`EscapedOpener`, `EscapedBackslash`, `Reference`, `Literal`), and
the property compares it with `Meaning`, which reads a template from opener to
opener instead. The method is put in upper case after it. Assertions resolve a path to a value and compare numbers as the
code does, by their JSON type.

`shown` is what the command prints, part by part: each with the text it was made of
(`whole`) and the text that is shown. The url, the values of headers and the bodies go
through `redact_value` (`Redacted`), the message of a failed assertion through
`mask_secret_values` besides, after its values have been written as JSON (`Json`), and the
message of an error through `redact_error` (`Fail`). The name, the method, the names of
headers, the path of an error and the message of a refused argument are shown as they
are, as in the code. The id, status, reason, warnings and times, and the words and selector
around what a message quotes, are left out: no template is expanded into them and the
target sends none of their text.

`Masked` replaces the secrets one after another. Three
things about their text are outside of what the model can say: the mask is one token that
is no part of a word, so no secret is a piece of "[redacted]"; a word is not taken apart,
so secrets overlap by whole words; and the longer of two secrets is the one of more words,
in whichever form (a token counts as a byte does), while the code sorts by bytes of the
plain form.

`LoadPlan` takes a command through its checks in their order, each with its exit
code, makes the plan of every option (`Config`), indexes the corpus byte by byte, encodes the queries, selects rows (the
Feistel walk is one iteration a step, over `mixing` functions that are constants) and
reads replies as cells: labels, root, pointers, and the fixed parts of questions and
records, with rdata as many cells as the record says. A name may end in a pointer
after any labels, as the wire format allows. The type and class of a question are one cell;
the query carries the code of its type, and replies are for the type that was asked.

Properties: `ExpandedExactly`, `VerdictTruthful`, `SecretsMasked`, `NoSecretWhole`;
`EachLineInTurn`, `HeaderTrue`, `OptionsHonoured`.

`OptionsHonoured` compares every option of a command that runs with the target, the
queries and the plan. Three options are not heeded beside others, and the property says
which: `--port` beside a server with a port of its own (cli/src/lib.rs:316-318), `--name`
beside `--corpus` (436-438), and `--seed` unless rows are sampled. Its mode `permute` is
reached through the library only.

The two about secrets are about the parts of the output that are masked (`MaskedParts`);
of a request's parts that are shown as they are, `RequestHidesSecrets` says what a comment
promises and the run `shown_method` refutes. They complement each other. `NoSecretWhole`
says that no secret is in such a part from end to end. `SecretsMasked` says what the part
is instead: its text with masks cut into it, each in the place of a secret, so that every
place of a secret meets a cut at least as wide (a text with a marker is hidden
altogether). A longer secret is thus masked from end to end when a shorter one is its
beginning, which is what the order of the replacements is for. Of two secrets that
cross (one ends in what the other begins with) one alone can be masked whole, since the
code masks one after another; the rest of the other stays, and the property allows just that.

## Runs and bounds

| Run | Instance | Shows | Distinct states |
|---|---|---|---|
| `correlator` | 3 exchanges, two asking the same question, 2 ids, window 2 | all `Correlator` properties | 593,396 |
| `framed` | 3 exchanges, 3 ids, window 1, channel of 1 | frames are kept, bursts flushed, exchanges end, `Correlator` implemented | 80,220 |
| `doh` | 3 exchanges, one too long for a URI, window 2, 1 stream, bodies of 1 piece, every target and peer | all `DohConn` properties | 39,484 |
| `load_paced` | 2 connections that report their closing, window 2, 3 slots | all `LoadEngine` properties | 633,164 |
| `load_command` | 2 actors, window 1, count 2, one panic or lost connection, with and without progress | all `LoadCommand` properties, and that the count is used up | 928,021 |
| `workspace` | three `request` commands; two and a run of the stored request; two runs with one report directory; one id, one kill or failing call | all `RequestStore` and `HttpRun` properties | 810,822 |
| `inputs` | templates of up to six tokens, corpora of up to five bytes, options around each limit, replies cut anywhere | all `RunFile` and `LoadPlan` properties | 166,402 |
| `framed_stall`, `load_closed`, `load_deadline`, `load_schedule`, `shown_method` | small instances of the same modules | the disagreements below | |

*Correlator.* Two ids for three exchanges make the ids wrap, so a slot is reused
while the replies to its first owner are still on their way. A window of two is
what it takes for two waiters to mix up their handles. Three exchanges let a handle
be recycled while the other is still in use.

*FramedConn.* With a window and channel of one, a query that times out leaves its
frame in the channel and the next finds it full: this is the case that a larger
window reaches only with more exchanges.

*DohConn.* A window of two over one stream leaves an exchange waiting for a stream
while the other is in its body; the third begins after a GOAWAY or the driver's end.

*LoadEngine.* Three slots and a window of two let an actor fill its window, wait
at the gate with one query pushed, and compete for the last index. The clock
stops at `Horizon`, the deadline, after which only "past the deadline" matters.
The unpaced run with a count is that of `load_command`. A run that its duration alone
bounds has a counter without a limit; no run has it, and the theorems cover it.

*LoadCommand.* Two actors are what a sample needs to mix two moments, and one fault
what a run needs to end with an actor that answered and one that did not. The window
is one: `LoadEngine` has the larger ones. `BudgetUsed` is checked here besides, for a count
without a rate cap and beside panics: no index is lost with an actor, since without a
gate there is no wait between the counter and the request. (With a rate cap an actor that
panics at the gate takes its index along; the theorem is about `LoadEngine`, without panics.)

*RequestStore, HttpRun.* Three commands on one id are a creator and a deleter with
a second creator, or two updates with a third process that watches. Of three
writers one has a document of one piece, so that a longer document can show through
a shorter one. `Teams` bounds which processes are at work beside one another.

*CommandLine.* Six tokens hold two backslashes, a reference with a key that is not
one word, and something behind it. The limits (`MaxRows`, `MaxQps`, ...) are scaled
down with the relations between them kept, numbers stand for those about 2^53 and
2^63 (`FloatMax`, `IntMax`), and eight names are enough for a Feistel network with
an odd number of bits and a walk that leaves the range. The secrets of `Elsewhere` are in
a method, in what errors quote, and in a value that JSON writes otherwise.

Deadlock checking is off in every configuration: exchanges, work and commands are
finite, so each instance stops when they are done. Liveness properties say what must
have happened by then.

## Where code and documents disagree

1. **`framed_stall`** — `--timeout-ms` is documented as the "Per-query timeout."
   (README.md:118). `FramedConn::exchange` waits for room in the writer's channel
   (framed.rs:302) before the timer starts. When the peer stops reading, such an
   exchange never ends (`PerQueryTimeout`), and neither does an uncancelled run.
2. **`load_closed`** — docs/load-engine.md:65: "a connection that closes during a
   run stops receiving new work". Only DoH implements `is_closed`; UDP, TCP and
   DoT connections that have closed go on taking indexes of the shared count. The
   comment at mod.rs:61-62 that these "cannot hot-spin" overlooks that
   `FramedConn` fails at once when its writer task has gone.
3. **`load_deadline`** — ADR 0002, rule 1: `next()` returns `None` once the
   "deadline passed", "so actors stop requesting work exactly at the deadline".
   With a rate cap the code compares the slot with the deadline and never the
   clock (load.rs:271-280): an actor that is late is given slots it missed, after
   the deadline.
4. **`load_schedule`** — docs/load-engine.md:49: "The rate gate schedules index `n`
   at `start + n / qps`". The fill loop waits at the gate for the next slot
   without polling the exchanges it has pushed (load.rs:345-364), so with a
   window above one a query is not sent in its slot but when the window is full.
5. **`shown_method`** — engine/src/lib.rs:22-24: "Secret values injected into the
   request via templating. Masked wherever the request is serialized". The method is a
   template too (core/src/scenario.rs:476), and the request that is printed has it as
   it is (core/src/lib.rs:177).

Disagreements that no run is listed for, and which the models keep as they are:

- ADR 0003, rule 1, has a run succeed "only if at least one query was sent and at
  least one response was received". A run whose deadline passes while it connects
  sends nothing, counts no error and exits with 0 (cli/src/lib.rs:665).
  `ExitTruthful` states what does hold.
- storage/src/lib.rs:260-261: "a crash mid-write leaves the previous content
  intact". Two updates of one request share `<id>.yaml.tmp`. If one truncates it
  and dies while the other is about to rename it, the request is torn. This is the
  case `mixed` of `OnlyCreatesTear`; for one update at a time the comment is right.
- ADR 0003, rule 3: "A record in a non-terminal state after the process would exit
  is a bug." When the signal handler cannot be installed (cli/src/lib.rs:1119) the
  run is dropped where it stands, its record active. `RunnerTerminal` states the
  paths on which the rule holds.
- A signal that arrives as a run completes makes the exit code the signal's although
  record and report say "passed".
- A response of status 400 or more without an `expect` leaves an unhealthy record and
  exits with 0.
- Most refusals of options exit with 1 where the table of ADR 0003 has 2.
- An error in the middle of an HTTP/2 body is reported as that of one query even when
  the whole connection has gone; `map_hyper` (h2.rs:178) sorts the same errors
  before the body as fatal for the connection.
- core/src/scenario.rs:352-355: a secret "echoed in the body cannot leak through a
  `body_eq` failure message". The value is masked after it has been written as JSON (line
  381), and a secret with a quote, a backslash or a control character in it is another
  text there. `Json` keeps it so, and `NoSecretWhole` is about the secret as it is.
- A panicked actor's counts are missing from the final frame.
- Two runs in one millisecond share an id; two that share a report directory mix
  their files.
- A template cannot produce a backslash followed by a literal opener.

## Fairness

Weak fairness of an action says that a task which can go on is polled, or that an
armed timer elapses; Tokio does both.

- `Correlator`: weak fairness of each caller's steps, per exchange, and of every
  pending `notify_one`. None for replies or the close: the peer may stay silent.
- `FramedConn`: also weak fairness of the writer's steps, which are disabled while
  the peer is stalled, and strong fairness of `Send`: Tokio's channel hands out
  room first come, first served, so a sender that finds room again and again is
  served.
- `DohConn`: weak fairness, per exchange, of `Proceeds`: what the exchange comes to
  without the peer, which is its timer and the errors of a driver that has gone.
- `LoadEngine`: weak fairness of what each actor does by itself, of the clock and
  of the join. That queries end is not assumed; `RunEnds` has it as its premise,
  which `ExchangesEnd` and `DohExchangesEnd` justify for UDP and DoH, and for TCP and
  DoT `ExchangesEndUnlessStalled` with the exception of the first disagreement
  above. `CancelEndsRun` needs no such premise.
- `LoadCommand`: weak fairness of each actor's own steps, of a sample that has been
  started, of the sampler's end, and of the end of the run. That queries are answered
  and that a sample is ever due are not assumed.
- `RequestStore`, `HttpRun`, `CommandLine`: none; nothing is said of what they
  must do in the end.

## Proofs

`tlapm` checks every module; the theorems hold for every value of the constants
that satisfies the assumption of its module (`CorrelatorAssumption`,
`CapacityAssumption`, `DohAssumption`,
`LoadAssumption`, `FaultAssumption`, `StoreAssumption`, `RunAssumption`,
`FileAssumption`, `PlanAssumption`). The last two say what serde, clap and the wire
format make of their input: texts are texts, numbers are numbers, a name ends at the
root or at a pointer, a server means to send messages, and the uuids of a
file differ. None of them says anything of what the code is to find out.

**Induction.** The library's induction theorems have an operator for parameter, which
the provers cannot instantiate. `Induction` states them of sets instead: a set of
numbers that has 0 and each successor of its members has all (`NatIsAll`), among
subsets of a finite set one is smallest (`SmallestSubset`). `RecursionSolved` derives from it that a
function defined by recursion along a measure satisfies its equation, which is what
the loops of `RunFile` and `LoadPlan` and the folds of the community modules need.

**CorrelatorProofs.** The inductive invariant is

    Inv == TypeOK /\ SlotOwnership /\ NotifyExclusive /\ HandlesMade

`SlotOwnership` needs the types, since `Finish` recycles what it finds in the
slot. `NotifyExclusive` needs `SlotOwnership` (the recycled handle is the caller's
own) and `HandlesMade`: a handle in use or recycled was made by an exchange that
has started, so that a handle made by a new exchange is really new. From `Inv`
follow, each by one more induction,

- `NoLostWakeup`: a permit or a pending `notify_one` is there for each settled
  waiter; only its own poll consumes it, because no one else has its handle;
- `PoolBounded`, from the fact that a handle is made only when the free list is
  empty, and the finiteness of `Live`;
- `DeliveredOwnReply`, strengthened to `OwnReplies`: until the wrap, started
  exchanges have different ids below the counter, so a reply meets the slot of its
  own query or none;
- `ReplyNeverDiscarded`, an action property: who leaves with something else than
  the reply found none in its own slot;
- `ImplementsConnection`: every step is a `Begin`, `End`, `GoAway`, `Shut` or a stutter
  of `Connection` under the mapping `ConnState`, and the initial states agree.

Every step of the stream transport is a step of `Correlator`
or leaves its variables alone, so `CorrelatorSpec` holds and with it all of the
above, `Connection` included. `FrameKept` is strengthened by where a frame may be in
each state of the writer.

**DohConnProofs.** `WireFollowsStage` says for each stage of the set-up exactly what
has been written; `PreambleFirst` follows from it. For the refinement, `ExchangeInv`
adds that an outcome is there exactly when an exchange is done.

**LoadEngineProofs.** `WorkSpec` is proved from `BudgetInv`: the indexes that
actors wait for at the gate lie in the budget, differ from each other and from
everything issued, and the counter is ahead of all of them (`ClaimsDisjoint`); the
moment planned for each issued request has come (`SlotsHaveCome`). The
refinement alone is not inductive: an issue step needs to know that the index the
actor took some steps earlier has not been issued since.

Three more inductions go with `BudgetInv`. `ClosedStopsFeeding`
needs that an actor asks for work only while its connection is up (`FeedInv`).
`BudgetUsed` needs that every index that has left the counter is issued or waited
for at the gate (`NothingLost`), that who was refused saw the counter at the end
(`RefusedAtEnd`), and that an actor gives up for one of three reasons
(`EndsForAReason`). `Accounted` needs `Balanced(a)`: an actor's recorder and its open
queries, which are among those it issued, add up in every state of its loop.

**LoadCommandProofs.** Who has not panicked is balanced as in the engine alone
(`EngineInv`), so what it publishes adds up; a sample adds up over the slots it has
read (`SampleInv`), by induction over `ReadSlot`. A failed connect is one error
too many, so the bound counts those among the slots already read. `FinalLast` needs
that a run returns only when its sampler has stopped. `CommandTypes` and
`ExitTellsTheTruth` need the sum over the actors for every finite set of them
(`SumOfNats`: it is zero only if every part is), and `ExitInv`: a failed actor has an
error in its recorder or in that of the join, and the code was made of totals that can
no longer change.

**HttpRunProofs.** Of the store: an inode is at one path at most, that of the request its
process has named (`Owned`); what a process has written is the beginning of its
document (`Offsets`, `CreatesAlone`), and an update that no other was mixed with has
the temporary file to itself (`UpdatesAlone`): together they give `OnlyCreatesTear`.
`CreationInv` adds to `CreatedOnce` that a request that is not there has been made by
nobody since its delete, so that who makes it is the only one.

Runs leave the variables of `RequestStore` alone (`HttpSpec`
implements `StoreSpec`), so its theorems hold beside them. `RunInv` says for each
step of one run what its outcome, record, exit code and report can be, and `DiskInv`
which files of the report are there while no other run writes to its directory.

**RunFileProofs.** `VerdictIsTruthful` is about two readings of a `body:` path, that of
`lower_path` (escape each name, join them, and let serde take the pointer apart again)
and the direct one: they meet because unescaping undoes escaping for every
name, shown along its length. `VerdictInv` carries file and reply to the verdict.
`TemplatesExpandExactly` compares the loop of `expand` with `Meaning`, which reads a
template from opener to opener. The invariant (`ExpandInv`) says that what has been
written and what the rest of the template means from the cursor on are together what
the whole of it means, up to the joining of adjacent literals (`Norm`); one lemma per
iteration of the loop says that it leaves this sum alone. The uuids used so
far are at most the tokens behind the cursor, so that none is used twice.
`RunsComeToAnEnd` needs that invariant too: with the cursor inside of the template every
iteration moves it to the right, so each step lowers a triple of naturals (phases, fields,
tokens to go) in the order of dictionaries.

`NoSecretIsShown` is about `String::replace`. What is left of a text after a replacement
has a part without the mask in it only where the text itself had that part and the secret
did not begin (`ReplacedLeaves`, from the end of the text to its beginning). So the secret is gone, and no
replacement puts together what was not there before (`ReplacedHas`): once a secret has
been masked, in both its forms, it stays so however many follow (`MaskedLacks`, by
induction over the secrets). The message of a failed assertion is masked twice, which
is once more of the same. That all of them have their turn needs that the sort has
them all (`SecretsInOrder`), and that none is empty (`SecretInv`: the run of a file
with such a pair has been refused before).

`SecretsAreMasked` is about places. A text under masking is at any time the text of the
run with some cuts in it (`Separate`: places of secrets, apart from one another), and a place that no cut touches is where it was,
shifted by what the cuts before it have taken (`WholeThere`). One replacement
finds its secret only in such places, for the mask is in no secret it is about, so its
cuts are apart from those that are there (`ReplacesThere`) and every place of the secret
meets a cut once it is done: one that was there before or one of its own (`ReplacedCovers`). A cut
that was there before is of a secret masked before, so it is at least as wide
(`SecretsInOrder`), and later replacements only add cuts (`MaskedCovers`, by induction over the
secrets). `Treated` says how a part of the output can have been made of its
text, for outputs and errors alike (`StepShows`); a text masked a second time has no place
of a secret left in it and stays as it is (`MaskedAgain`), so `TreatedShows` goes from one
text to all that a run shows.

**CommandLineProofs.** Four results, and that the process has all invariants of both pipelines
(`ProcessIsTruthful`, as a step of one pipeline leaves the other's variables alone).

- `OptionsAreHonoured`: `OptionsInv` remembers which checks a command has passed at
  each stage, and that the plan is that of its options once it is made; from the two follows
  that every option given has its place.
- `EachLineHasItsTurn`: the rows are the lines by induction over the scan of
  `index_rows` (`RowsAreLines`). `Xor` is injective in each argument and stays below a
  power of two, a round of the network is therefore injective, and so is the network
  on the numbers of `2 * HalfBits` bits, which hold every row number
  (`FeistelPermutes`). The cycle walk from `i` is the smallest set that is closed under
  going on; two walks that end at one row began at one number (`WalksApart`).
  So each row comes to one number below `n`, and by counting to exactly one
  (`AllRowsComeUp`). `TurnInv` says that after `x` queries a row has been asked as often
  as its number has come up. It needs that a walk under way is that of the next index.
- `WalksEnd`: the `loop` of `permute_index` ends. A walk that began below `n` does not come
  back to a number it has left (`WalkNeverReturns`: the first number it met a second time
  would have two before it, and the network is injective), so each iteration
  has fewer of the finitely many numbers ahead of it.
- `RepliesAreRead`: of an encoded message it is known where each part lies
  (`FlattenedParts`), a name that has arrived is skipped to its end and one that is cut is
  not (`SkipsName`), so after each question and record the reader is at its end, with the
  extension of the last OPT record so far, or has failed because the cells run out
  (`ReadUpto`, `ExtendedTrue`). The question is compared as far as the first root
  cell, which lies in the question's name or, if that ends in a pointer, behind a cell
  that is no label (`QuestionTrue`). `HeaderInv` carries reply and query to the reader.

Only model-checked:

- the liveness properties, which are about fairness, and which TLAPS does not handle. Of
  two loops it is proved that each step lowers a measure (`RunsComeToAnEnd`, `WalksEnd`):
  what is missing to termination is only that the process goes on.

Every invariant of the runs that pass, and every action property, is a theorem, but for
`BudgetUsed` beside panics.

`RunTypeOK`, the types of `HttpRun` and `RequestStore`, is proved (`RunTyped`) and no run
checks it besides.

## What is not modelled

- Bytes: framing, DNS wire format beyond the cells of `LoadPlan`, TLS records and
  certificates, JSON and text output.
- Poisoned mutexes.
- Latencies, the histogram, and the rcode buckets but NOERROR.
- A failing signal handler of `wiresurge load` (that of `run` is in `HttpRun`), and
  the wording of the live renderer.
- Redirects, decoding and body limits of the HTTP/1 client: one request and one
  answer or error is what the rest of the code sees of them.
- `init` of a workspace, and the commands that only list or print; the grammar and
  the help of the command line.
- `RandomPermute` of the corpus crate, which `load` never selects.
- The plugin manifest, a type without behaviour.

PROJECT.json gives the status of each component and the reason.

## Plan

Everything the first plan listed has been written, and every safety property is proved. What is left, in the order of what it would add:

1. A composition of `LoadEngine` with `Correlator` in which the exchanges of an
   actor are those of its connection, in place of the premise of `RunEnds`.
2. The latency histogram and the rcode buckets: merging, saturation, and the
   quantiles of a snapshot against a reference.
3. `DohConn` under one actor with reconnects of several connections.
4. `init` of a workspace beside processes that already use it.
