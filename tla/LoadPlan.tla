-------------------------------- MODULE LoadPlan --------------------------------
(***************************************************************************)
(* What `wiresurge load` does before and around its engine: its options    *)
(* become a plan or are refused (crates/cli/src/lib.rs build_load_config,  *)
(* crates/engine/src/load.rs ValidatedLoadPlan), the rows of its corpus    *)
(* are indexed and selected (crates/corpus), each is encoded once, and the *)
(* replies are read (crates/dns/src/lib.rs).                               *)
(*                                                                         *)
(* LoadEngine has the actors that issue the indexes; here they come in     *)
(* order.  A file is a sequence of bytes, of which a name is one.  A       *)
(* message is a sequence of cells: labels, the root, pointers, and the     *)
(* fixed parts of questions and records; rdata is as many cells as the     *)
(* record says.                                                            *)
(***************************************************************************)
EXTENDS Integers, SequencesExt, LeftOut

CONSTANTS
    Commands,      \* the options the command may be given
    Answers(_),    \* replies to the query for a name, as their server meant them
    Mixed(_, _, _),\* round_function of the corpus: half, seed and round
    Splitmix(_),
    TypeCode,      \* the code of each type of query that parse_qtype knows
    MaxConcurrency, MaxInFlight, MaxQps, MaxAggregate, MaxBytes, WireLength,
    MaxRows, MaxDuration, MaxTimeout,
    MaxFile,       \* the file size up to which offsets fit 32 bits
    MaxIssued      \* bound: queries of a run

VARIABLES
    args,
    stage,
    code,     \* the exit code; -1 while there is none
    rows,     \* byte ranges of the corpus
    plan,     \* LoadConfig, but for its corpus
    wires,    \* the prebuilt queries
    index,    \* the next index of the work source
    value,    \* of permute_index: the index on its walk, -1 outside of it
    asked,    \* how often each row has been selected
    answer,   \* the reply as it arrives
    reading   \* what the client makes of it: its rcode, Malformed or Mismatch

\* An option of clap's, and what url::Url and IpAddr make of theirs.
IsOption(o) == o = NotGiven \/ o \in STRING
IsAddress(ip) == ip \in {NotGiven, "v4", "v6", "mapped", "bad"}

IsCommand(a) ==
    /\ a.protocol \in STRING /\ a.insecure \in BOOLEAN /\ a.relaxed \in BOOLEAN
    /\ IsOption(a.sni) /\ IsOption(a.method) /\ a.params \in Seq(STRING)
    /\ a.url # NotGiven => a.url.host \in STRING /\ a.url.query \in Seq(STRING)
    /\ IsAddress(a.source) /\ IsAddress(a.destination) /\ a.port \in Nat
    /\ a.mode \in {"sequential", "replace", "permute"} /\ a.seed \in Nat
    /\ a.name \in STRING /\ (a.corpus = NotGiven \/ a.corpus \in Seq(STRING))

\* The file that names are taken from: of --name it is that name alone.
File(a) == IF a.corpus = NotGiven THEN <<a.name>> ELSE a.corpus

\* A name ends at the root or goes on at a pointer; a record is its name, whether it
\* is an OPT record, its extended rcode if so, and the length of its rdata.
IsName(name) ==
    /\ name \in Seq(STRING) /\ name # <<>>
    /\ \A i \in 1..Len(name) : name[i] \in {"root", "pointer"} <=> i = Len(name)
IsMessage(m) ==
    /\ m.rcode \in Nat /\ m.questions \in Seq(Seq(STRING))
    /\ m.records \in Seq([name : Seq(STRING), opt : BOOLEAN, ext : Nat, rdata : Nat])
    /\ \A i \in 1..Len(m.questions) : IsName(m.questions[i])
    /\ \A i \in 1..Len(m.records) : IsName(m.records[i].name)

\* None is no value, round_function has one wherever it is asked for, and servers
\* mean to send messages.
ASSUME PlanAssumption ==
    /\ NotGiven \notin Int /\ NotGiven \notin STRING /\ MaxRows \in Nat
    /\ NotGiven \notin [alpn : STRING, insecure : BOOLEAN, relaxed : BOOLEAN, sni : STRING \cup {NotGiven}]
    /\ NotGiven \notin [base : STRING, query : Seq(STRING), method : STRING \cup {"post"}]
    /\ NotGiven \notin [source : {"v4", "v6", "bad"}, destination : {"v4", "v6", "bad"}]
    /\ \A a \in Commands :
         /\ IsCommand(a)
         /\ \A half \in 0..MaxRows, round \in 0..3 : Mixed(half, a.seed, round) \in Nat
         /\ \A first, end \in 1..(Len(File(a)) + 1) :
              \A m \in Answers(SubSeq(File(a), first, end - 1)) : IsMessage(m)

planVars == <<args, stage, code, rows, plan, wires, index, value, asked, answer, reading>>

Stop(c) ==
    /\ stage' = "done" /\ code' = c
    /\ UNCHANGED <<args, rows, plan, wires, index, value, asked, answer, reading>>

-------------------------------------------------------------------------------
(* Options.  A check is [when, code]: what it refuses, and how the command   *)
(* then exits, 2 if the error is marked as rejected.                         *)

Check(when, c) == [when |-> when, code |-> c]

IsDoh == args.protocol = "doh"
IsTls == args.protocol \in {"dot", "doh"}
Given(option) == args[option] # NotGiven

\* An IPv4 address written as an IPv6 one is taken for what it is.
Canonical(ip) == IF ip = "mapped" THEN "v4" ELSE ip

\* resolve_addr: a literal, with a port or without, or the first address of a name;
\* server is [ip, port, named], its ip what the literal or the resolver says.
Address ==
    [ip   |-> IF args.server.named THEN args.server.ip ELSE Canonical(args.server.ip),
     port |-> IF args.server.port = NotGiven THEN args.port ELSE args.server.port]

\* build_proxy_header, parse_proxy_addr: both or none, and of one family.
ProxyRefused ==
    \/ Given("source") # Given("destination")
    \/ /\ Given("source") /\ Given("destination")
       /\ \/ "bad" \in {args.source, args.destination}
          \/ Canonical(args.source) # Canonical(args.destination)

\* parse_edns_options
EdnsRefused == \E o \in ToSet(args.edns) : ~o.valid

\* build_doh_target: a parameter without a key, or for the one that carries the query.
UrlRefused ==
    \/ ~Given("url")
    \/ Given("url") /\ (args.url.scheme # "https" \/ args.url.userinfo)
    \/ Given("method") /\ args.method \notin {"get", "post"}
    \/ \E p \in ToSet(args.params) : p \in {"", "dns"}

\* ... the gate of --url was forgotten.
OptionChecks_NoUrlGate ==
    << Check(~IsTls /\ (Given("sni") \/ args.relaxed \/ args.insecure), 1),
       Check(Given("method") /\ ~IsDoh, 1),
       Check(Given("duration") /\ Given("count"), 1),
       Check(args.params # <<>> /\ ~IsDoh, 1),
       Check(EdnsRefused \/ ProxyRefused \/ (IsDoh /\ UrlRefused), 1) >>

\* build_load_config, up to the corpus, in its order.
OptionChecks ==
    << Check(args.server.ip = NotGiven, 1),
       Check(args.protocol \notin {"udp", "tcp", "dot", "doh"}, 1),
       Check(~IsTls /\ (Given("sni") \/ args.relaxed \/ args.insecure), 1),
       Check(Given("url") /\ ~IsDoh, 1),
       Check(Given("method") /\ ~IsDoh, 1),
       Check(Given("duration") /\ Given("count"), 1),
       Check(Given("duration") /\ args.duration \notin 1..MaxDuration, 2),
       Check(Given("qps") /\ args.qps <= 0, 2),
       Check(args.params # <<>> /\ ~IsDoh, 1),
       Check(EdnsRefused \/ ProxyRefused \/ (IsDoh /\ UrlRefused), 1) >>

\* build_doh_target: the host of the URL is the name to expect, unless one was given.
Tls ==
    IF ~IsTls THEN NotGiven
    ELSE [alpn |-> args.protocol, insecure |-> args.insecure, relaxed |-> args.relaxed,
          sni |-> IF IsDoh /\ ~Given("sni") THEN args.url.host ELSE args.sni]
Http ==
    IF ~IsDoh THEN NotGiven
    ELSE [base |-> args.url.host, query |-> args.url.query \o args.params,
          method |-> IF Given("method") THEN args.method ELSE "post"]
Proxy ==
    IF ~Given("source") THEN NotGiven
    ELSE [source |-> Canonical(args.source), destination |-> Canonical(args.destination)]

Target == [address |-> Address, tls |-> Tls, http |-> Http, proxy |-> Proxy]

\* The end of build_load_config.
Config ==
    [proto |-> args.protocol, target |-> Target, qtype |-> TypeCode[args.qtype],
     concurrency |-> args.concurrency, inFlight |-> args.inFlight, timeout |-> args.timeout,
     qps |-> args.qps, duration |-> args.duration, count |-> args.count,
     mode |-> args.mode, seed |-> args.seed, edns |-> args.edns]

\* ValidatedLoadPlan::new and ResourceBudget::check.
Planned(field) == plan[field] # NotGiven
PlanChecks ==
    LET total == plan.concurrency * plan.inFlight IN
    << Check(plan.concurrency \notin 1..MaxConcurrency, 2),
       Check(plan.inFlight \notin 1..MaxInFlight, 2),
       Check(Planned("qps") /\ plan.qps \notin 1..MaxQps, 2),
       Check(Planned("duration") /\ plan.duration \notin 1..MaxDuration, 2),
       Check(~Planned("duration") /\ ~Planned("count"), 2),
       Check(plan.timeout \notin 1..MaxTimeout, 2),
       Check(total > MaxAggregate, 2),
       Check(total * WireLength > MaxBytes, 2),
       Check(Len(rows) > MaxRows, 2) >>

\* The first check that refuses decides.
Passes(checks) == \A i \in 1..Len(checks) : ~checks[i].when
Refusal(checks) == checks[Min({i \in 1..Len(checks) : checks[i].when})].code

Configure ==
    /\ stage = "options"
    /\ IF Passes(OptionChecks)
       THEN stage' = "corpus" /\ UNCHANGED <<args, code, rows, plan, wires, index, value, asked, answer, reading>>
       ELSE Stop(Refusal(OptionChecks))

-------------------------------------------------------------------------------
(* The corpus.                                                               *)

\* push_row: the row from start to end, without a final CR, unless it is empty or
\* not UTF-8.
Row(bytes, start, end) ==
    LET stripped == IF end > start /\ bytes[end - 1] = "CR" THEN end - 1 ELSE end
    IN  IF stripped > start /\ \A i \in start..(stripped - 1) : bytes[i] # "invalid"
        THEN <<[start |-> start, end |-> stripped]>> ELSE <<>>

\* index_rows: each line feed ends a row, and so does the end of the file.  After n
\* bytes:
Indexed(bytes) ==
    LET scan[n \in 0..Len(bytes)] ==
            IF n = 0 THEN [rows |-> <<>>, start |-> 1]
            ELSE LET s == scan[n - 1] IN
                 IF bytes[n] = "LF"
                 THEN [rows |-> s.rows \o Row(bytes, s.start, n), start |-> n + 1]
                 ELSE s
    IN  scan
IndexRows(bytes) ==
    LET scan == Indexed(bytes)[Len(bytes)]
    IN  scan.rows \o Row(bytes, scan.start, Len(bytes) + 1)

Bytes == File(args)
Name(row) == SubSeq(Bytes, row.start, row.end - 1)

\* A corpus from a file is refused if it is too long or has no row; then the type of
\* the queries is looked up.
LoadCorpus ==
    /\ stage = "corpus"
    /\ IF args.qtype \notin DOMAIN TypeCode \/ (Given("corpus") /\ (Len(Bytes) > MaxFile \/ IndexRows(Bytes) = <<>>))
       THEN Stop(1)
       ELSE /\ rows' = IF Given("corpus") THEN IndexRows(Bytes)
                       ELSE <<[start |-> 1, end |-> Len(Bytes) + 1]>>
            /\ asked' = [r \in 1..Len(rows') |-> 0]
            /\ plan' = Config
            /\ stage' = "validate"
            /\ UNCHANGED <<args, code, wires, index, value, answer, reading>>

ValidatePlan ==
    /\ stage = "validate"
    /\ IF Passes(PlanChecks)
       THEN stage' = "encode" /\ UNCHANGED <<args, code, rows, plan, wires, index, value, asked, answer, reading>>
       ELSE Stop(Refusal(PlanChecks))

\* build_query.  The encoder leaves the OPT record out when the message would be too
\* long (external), which is then an error.
Encodable(name) ==
    /\ name # <<"?">>
    /\ plan.edns # <<>> => Len(name) + Len(plan.edns) <= WireLength

\* The type and class of a question are one cell; replies are for the type asked.
Question(name) == name \o <<"root", "A IN">>

Encode ==
    /\ stage = "encode"
    /\ IF \A i \in 1..Len(rows) : Encodable(Name(rows[i]))
       THEN /\ wires' = [i \in 1..Len(rows) |-> [question |-> Question(Name(rows[i])),
                                               qtype |-> plan.qtype, opt |-> plan.edns]]
            /\ stage' = "run"
            /\ UNCHANGED <<args, code, rows, plan, index, value, asked, answer, reading>>
       ELSE Stop(1)

-------------------------------------------------------------------------------
(* select_index and permute_index.                                           *)

TwoTo[n \in Nat] == IF n = 0 THEN 1 ELSE 2 * TwoTo[n - 1]

\* ^ of two numbers, from their last bits on.
Xor[a \in Nat] == [b \in Nat |->
    IF a = 0 THEN b ELSE 2 * Xor[a \div 2][b \div 2] + ((a + b) % 2)]

Bits(n) == CHOOSE b \in 0..n : TwoTo[b] >= n /\ (b = 0 \/ TwoTo[b - 1] < n)

\* ... rounded down: an odd number of bits loses one.
HalfBits_Floor(n) == Max({1, Bits(n) \div 2})

\* Half of the bits of the largest row number, rounded up, at least one.
HalfBits(n) == Max({1, (Bits(n) + 1) \div 2})

Round(s, round, size) ==
    [left  |-> s.right,
     right |-> Xor[s.left][Xor[Mixed(s.right, plan.seed, round)][round] % size]]

\* The rounds of permute_index.
Feistel(input, half) ==
    LET size  == TwoTo[half]
        first == [left |-> (input \div size) % size, right |-> input % size]
        last  == Round(Round(Round(Round(first, 0, size), 1, size), 2, size), 3, size)
    IN  last.left * size + last.right

Selects(row) ==
    /\ asked' = [asked EXCEPT ![row] = @ + 1]
    /\ index' = index + 1
    /\ value' = -1
    /\ UNCHANGED <<args, stage, code, rows, plan, wires, answer, reading>>

Issuing == stage = "run" /\ index < MaxIssued

SelectNext ==
    /\ Issuing /\ value = -1
    /\ CASE plan.mode = "sequential" -> Selects((index % Len(rows)) + 1)
         [] plan.mode = "replace" -> Selects((Splitmix(Xor[index][plan.seed]) % Len(rows)) + 1)
         [] plan.mode = "permute" ->
              IF Len(rows) = 1 THEN Selects(1)
              ELSE /\ value' = index % Len(rows)
                   /\ UNCHANGED <<args, stage, code, rows, plan, wires, index, asked, answer, reading>>

\* An iteration of the cycle walk.
Walk ==
    /\ Issuing /\ value # -1
    /\ LET v == Feistel(value, HalfBits(Len(rows)))
       IN  IF v < Len(rows) THEN Selects(v + 1)
           ELSE /\ value' = v
                /\ UNCHANGED <<args, stage, code, rows, plan, wires, index, asked, answer, reading>>

-------------------------------------------------------------------------------
(* Reading a reply.  answer is [meant, cells]: what its server put in, with   *)
(* the flags and counts of the header, and the cells that have come.         *)

\* External: the wire format.  OPT is a record like others, its extended rcode in the
\* fixed part.
NameCells(name) ==
    [i \in 1..Len(name) |->
        [kind |-> IF name[i] \in {"root", "pointer"} THEN name[i] ELSE "label", is |-> name[i]]]
QuestionCells(q) == NameCells(q) \o <<[kind |-> "fixed", is |-> "A IN"]>>
RecordCells(r) ==
    NameCells(r.name) \o <<[kind |-> "record", opt |-> r.opt, ext |-> r.ext, rdata |-> r.rdata]>>
        \o [i \in 1..r.rdata |-> [kind |-> "root", is |-> "rdata"]]
Encoding(m) ==
    FlattenSeq([i \in 1..Len(m.questions) |-> QuestionCells(m.questions[i])])
    \o FlattenSeq([i \in 1..Len(m.records) |-> RecordCells(m.records[i])])

Cell(i) == IF i \in 1..Len(answer.cells) THEN answer.cells[i] ELSE [kind |-> "none"]

\* skip_name: the position after the name, 0 for a malformed one.
SkipName(start) ==
    LET end == Min({p \in start..(Len(answer.cells) + 1) : Cell(p).kind # "label"})
    IN  IF start <= Len(answer.cells) /\ Cell(end).kind \in {"root", "pointer"} THEN end + 1 ELSE 0

\* ... to the fixed part of the next record, as if there were no rdata.
AfterRecord_NoRdata(p) == p + 1

\* Past the fixed part of a record, and its rdata.
AfterRecord(p) == p + 1 + Cell(p).rdata

\* opt_extended_rcode: the questions, then the records of all three sections; the
\* last OPT record counts.  Bad is a malformed body.
Bad == [pos |-> 0, ext |-> 0]
AfterQuestion(s) ==
    LET p == IF s.pos = 0 THEN 0 ELSE SkipName(s.pos)
    IN  IF p = 0 \/ p > Len(answer.cells) THEN Bad ELSE [pos |-> p + 1, ext |-> s.ext]
OneRecord(s) ==
    LET p == IF s.pos = 0 THEN 0 ELSE SkipName(s.pos)
    IN  IF p = 0 \/ Cell(p).kind # "record" \/ AfterRecord(p) > Len(answer.cells) + 1 THEN Bad
        ELSE [pos |-> AfterRecord(p), ext |-> IF Cell(p).opt THEN Cell(p).ext ELSE s.ext]

Extended ==
    LET questions[k \in 0..Len(answer.meant.questions)] ==
            IF k = 0 THEN [pos |-> 1, ext |-> 0] ELSE AfterQuestion(questions[k - 1])
        records[k \in 0..Len(answer.meant.records)] ==
            IF k = 0 THEN questions[Len(answer.meant.questions)] ELSE OneRecord(records[k - 1])
    IN  records[Len(answer.meant.records)]

Malformed == -1
Mismatch == -2

\* parse_response_header; DoH expects no id.
Header ==
    IF (~IsDoh /\ answer.meant.id # 0) \/ ~answer.meant.response \/ ~answer.meant.query \/ Extended.pos = 0
    THEN Malformed
    ELSE answer.meant.rcode + 16 * Extended.ext

\* question_range and question_matches_response: one question, its name not
\* compressed, the same bytes as the query's.
QuestionMatches ==
    LET ends == {i \in 1..Len(answer.cells) : Cell(i).kind = "root"}
        end  == Min(ends)
    IN  /\ Len(answer.meant.questions) = 1
        /\ ends # {} /\ \A i \in 1..(end - 1) : Cell(i).kind = "label"
        /\ end + 1 <= Len(answer.cells)
        /\ [i \in 1..(end + 1) |-> Cell(i).is] = wires[1].question

Reply ==
    /\ stage = "run" /\ index > 0 /\ answer = NotGiven
    /\ \E m \in Answers(Name(rows[1])) : \E n \in 0..Len(Encoding(m)) :
           answer' = [meant |-> m, cells |-> SubSeq(Encoding(m), 1, n)]
    /\ stage' = "read"
    /\ UNCHANGED <<args, code, rows, plan, wires, index, value, asked, reading>>

Read ==
    /\ stage = "read"
    /\ reading' = IF Header = Malformed THEN Malformed
                  ELSE IF QuestionMatches THEN Header ELSE Mismatch
    /\ stage' = "done" /\ code' = 0
    /\ UNCHANGED <<args, rows, plan, wires, index, value, asked, answer>>

-------------------------------------------------------------------------------
\* The options of a command, before anything has been made of them.
PlanOf(options, first) ==
    /\ args = options
    /\ stage = first /\ code = -1
    /\ rows = <<>> /\ plan = NotGiven /\ wires = <<>>
    /\ index = 0 /\ value = -1 /\ asked = <<>>
    /\ answer = NotGiven /\ reading = NotGiven

PlanInit == \E options \in Commands : PlanOf(options, "options")

PlanNext ==
    \/ Configure \/ LoadCorpus \/ ValidatePlan \/ Encode
    \/ SelectNext \/ Walk \/ Reply \/ Read

PlanSpec == PlanInit /\ [][PlanNext]_planVars

-------------------------------------------------------------------------------
(* Properties.                                                               *)

\* The lines of a file with a name in them, as ranges without line ends.
LineSpans(bytes) ==
    {p \in (1..Len(bytes)) \X (2..(Len(bytes) + 1)) :
        /\ p[1] < p[2] /\ bytes[p[1]] # "LF"
        /\ p[1] = 1 \/ bytes[p[1] - 1] = "LF"
        /\ p[2] = Len(bytes) + 1 \/ bytes[p[2]] = "LF"
        /\ \A i \in p[1]..(p[2] - 1) : bytes[i] \notin {"LF", "invalid"}
        /\ ~(p[2] = p[1] + 1 /\ bytes[p[1]] = "CR")}
Lines(bytes) ==
    {[start |-> p[1], end |-> IF bytes[p[2] - 1] = "CR" THEN p[2] - 1 ELSE p[2]] :
        p \in LineSpans(bytes)}

\* Every line with a name is a row, in order; and as long as rows are not sampled,
\* queries come to each of them in turn: none is asked a second time before all were.
EachLineInTurn ==
    /\ rows # <<>> /\ Given("corpus") =>
         /\ ToSet(rows) = Lines(Bytes)
         /\ \A i, j \in 1..Len(rows) : i < j => rows[i].end < rows[j].start
    /\ \A r, s \in DOMAIN asked : args.mode # "replace" => asked[r] <= asked[s] + 1

\* The rcode of a reply is put together from its header and the last OPT record in
\* it, wherever that is; a reply that ends early, or is none, or asks anything but
\* the query's question alone, is never taken for an answer, and every other one is.
HeaderTrue ==
    LET m       == answer.meant
        opts    == {i \in 1..Len(m.records) : m.records[i].opt}
        ext     == IF opts = {} THEN 0 ELSE m.records[Max(opts)].ext
        whole   == Len(answer.cells) = Len(Encoding(m))
        aReply  == m.response /\ m.query /\ (IsDoh \/ m.id = 0)
        same    == m.questions = <<Name(rows[1]) \o <<"root">>>>
    IN  reading # NotGiven =>
            reading = IF ~whole \/ ~aReply THEN Malformed ELSE IF ~same THEN Mismatch
                      ELSE m.rcode + 16 * ext

\* What the options of a command that runs ask for, it does: each is in the target,
\* in every query, or in what the engine is given, and one condition ends the run.
\* Those of TLS, HTTP and PROXY are in the target or were refused, never dropped.
\* Three are not heeded beside others, as the code has it: --port beside a server
\* with a port of its own, --name beside --corpus, --seed unless rows are sampled.
OptionsHonoured ==
    stage \in {"run", "read"} =>
        LET tls == plan.target.tls
            http == plan.target.http
        IN  /\ Given("sni") => tls # NotGiven /\ tls.sni = args.sni
            /\ args.insecure \/ args.relaxed =>
                 tls # NotGiven /\ tls.insecure = args.insecure /\ tls.relaxed = args.relaxed
            /\ Given("url") => http # NotGiven /\ http.base = args.url.host
                               /\ http.query = args.url.query \o args.params
            /\ args.params # <<>> => http # NotGiven
            /\ Given("method") => http # NotGiven /\ http.method = args.method
            /\ (Given("source") \/ Given("destination")) =>
                 /\ plan.target.proxy # NotGiven
                 /\ plan.target.proxy.source = plan.target.proxy.destination
                 /\ plan.target.proxy.source \in {"v4", "v6"}
            /\ plan.target.address.port =
                 IF args.server.port # NotGiven THEN args.server.port ELSE args.port
            /\ ~args.server.named => plan.target.address.ip # "mapped"
            /\ ~Given("corpus") => \A i \in 1..Len(wires) : wires[i].question = Question(<<args.name>>)
            /\ \A i \in 1..Len(wires) :
                 wires[i].opt = args.edns /\ wires[i].qtype = TypeCode[args.qtype]
            /\ \A o \in {"concurrency", "inFlight", "timeout", "qps", "mode", "seed"} : plan[o] = args[o]
            /\ \E o \in {"duration", "count"} :
                 Given(o) /\ \A q \in {"duration", "count"} : plan[q] = IF q = o THEN args[o] ELSE NotGiven
===============================================================================
