--------------------------- MODULE CommandLineProofs ---------------------------
(***************************************************************************)
(* What a `wiresurge` process does with its arguments is what they ask     *)
(* for, whatever the options, the corpus, the file and the replies are:    *)
(* theorems about LoadPlan, and with those of RunFileProofs about          *)
(* CommandLine.                                                            *)
(***************************************************************************)
EXTENDS CommandLine, RunFileProofs

PlanStart == PlanInit \/ PlanOf(NotGiven, "idle")

-------------------------------------------------------------------------------
(* Options.                                                                  *)

\* Past its checks a command is in the plan as it is, and --name alone is its corpus;
\* past those of the plan it ends after a time or a count, and its row count is a
\* small number; the queries are then those of its rows, of the type and with the
\* EDNS options of the plan.
Queries ==
    [i \in 1..Len(rows) |->
        [question |-> Question(Name(rows[i])), qtype |-> plan.qtype, opt |-> plan.edns]]

OptionsInv ==
    /\ stage \in {"idle", "options", "corpus", "validate", "encode", "run", "read", "done"}
    /\ stage # "idle" => args \in Commands
    /\ stage \notin {"idle", "options", "done"} => Passes(OptionChecks)
    /\ stage \in {"validate", "encode", "run", "read"} =>
         plan = Config /\ (~Given("corpus") => rows = <<[start |-> 1, end |-> Len(Bytes) + 1]>>)
    /\ stage \in {"encode", "run", "read"} => Passes(PlanChecks)
    /\ stage \in {"run", "read"} => wires = Queries

LEMMA OptionsStart == PlanStart => OptionsInv
BY DEF PlanStart, PlanInit, PlanOf, OptionsInv

LEMMA PlanMode ==
    ASSUME OptionsInv, stage \in {"encode", "run", "read"}
    PROVE  /\ plan.mode = args.mode /\ plan.seed = args.seed
           /\ plan.mode \in {"sequential", "replace", "permute"}
<1>1. args \in Commands /\ plan = Config
  BY DEF OptionsInv
<1>2. Config.mode = args.mode /\ Config.seed = args.seed
  BY DEF Config
<1> QED BY <1>1, <1>2, PlanAssumption DEF IsCommand

\* Selecting rows changes no more than which, how often and how far.
LEMMA SelectEffect ==
    ASSUME OptionsInv, SelectNext \/ Walk
    PROVE  /\ stage = "run" /\ index < MaxIssued
           /\ UNCHANGED <<args, stage, code, rows, plan, wires, answer, reading>>
<1> DEFINE Same == UNCHANGED <<args, stage, code, rows, plan, wires, answer, reading>>
<1>1. ASSUME NEW r, Selects(r) PROVE Same
  BY <1>1 DEF Selects
<1>2. stage = "run" /\ index < MaxIssued
  BY DEF SelectNext, Walk, Issuing
<1>3. plan.mode \in {"sequential", "replace", "permute"}
  BY <1>2, PlanMode
<1>4. CASE SelectNext
  <2>1. \/ \E r : Selects(r)
        \/ UNCHANGED <<args, stage, code, rows, plan, wires, index, asked, answer, reading>>
    BY <1>3, <1>4 DEF SelectNext
  <2> QED BY <1>1, <1>2, <2>1
<1>5. CASE Walk
  <2>1. \/ \E r : Selects(r)
        \/ UNCHANGED <<args, stage, code, rows, plan, wires, index, asked, answer, reading>>
    BY <1>5 DEF Walk
  <2> QED BY <1>1, <1>2, <2>1
<1> QED BY <1>4, <1>5

LEMMA OptionsStep == ASSUME OptionsInv, [PlanNext]_planVars PROVE OptionsInv'
<1>2. UNCHANGED args
  <2>1. SelectNext \/ Walk => UNCHANGED args
    BY SelectEffect
  <2> QED BY <2>1 DEF PlanNext, Configure, LoadCorpus, ValidatePlan, Encode, Reply, Read, Stop, planVars
<1>3. UNCHANGED <<Target, OptionChecks, Given("corpus"), Bytes>>
  BY <1>2 DEF Target, Address, Tls, Http, Proxy, IsDoh, IsTls, Given, OptionChecks, Check,
              EdnsRefused, ProxyRefused, UrlRefused, Bytes, File
<1>31. UNCHANGED Config
  <2> HIDE DEF Target
  <2> QED BY <1>2, <1>3 DEF Config
<1>4. UNCHANGED <<rows, plan>> => UNCHANGED <<PlanChecks, Queries>>
  BY <1>3 DEF PlanChecks, Planned, Queries, Name
<1> HIDE DEF OptionChecks, Config, PlanChecks, Queries, Given, Bytes
<1>5. CASE UNCHANGED planVars
  <2>1. UNCHANGED <<PlanChecks, Queries, stage, args, plan, wires, rows>>
    BY <1>4, <1>5 DEF planVars
  <2> QED BY <1>3, <1>31, <2>1 DEF OptionsInv, Passes
<1>6. CASE stage # "idle" /\ \E c : Stop(c)
  BY <1>2, <1>6 DEF Stop, OptionsInv
<1>7. CASE Configure
  BY <1>2, <1>3, <1>6, <1>7 DEF Configure, OptionsInv, Passes
<1>8. CASE LoadCorpus
  <2>1. CASE stage' = "validate"
    <3>1. stage = "corpus" /\ plan' = Config
          /\ (~Given("corpus") => rows' = <<[start |-> 1, end |-> Len(Bytes) + 1]>>)
      BY <1>8, <2>1 DEF LoadCorpus, Stop
    <3> QED BY <1>2, <1>3, <1>31, <2>1, <3>1 DEF OptionsInv, Passes
  <2> QED BY <1>6, <1>8, <2>1 DEF LoadCorpus
<1>9. CASE ValidatePlan
  BY <1>2, <1>3, <1>31, <1>4, <1>6, <1>9 DEF ValidatePlan, OptionsInv, Passes
<1>10. CASE Encode
  <2>1. CASE stage' = "run"
    <3>1. wires' = Queries
      BY <1>10, <2>1 DEF Encode, Stop, Queries
    <3>2. UNCHANGED <<plan, rows>> /\ stage = "encode"
      BY <1>10, <2>1 DEF Encode, Stop
    <3> QED BY <1>2, <1>3, <1>31, <1>4, <2>1, <3>1, <3>2 DEF OptionsInv, Passes
  <2> QED BY <1>6, <1>10, <2>1 DEF Encode
<1>11. CASE SelectNext \/ Walk \/ Reply
  <2>1. UNCHANGED <<plan, wires, rows>> /\ stage = "run" /\ stage' \in {"run", "read"}
    BY <1>11, SelectEffect DEF Reply
  <2> QED BY <1>2, <1>3, <1>31, <1>4, <2>1 DEF OptionsInv, Passes
<1>12. CASE Read
  BY <1>2, <1>12 DEF Read, OptionsInv
<1> QED BY <1>5, <1>6, <1>7, <1>8, <1>9, <1>10, <1>11, <1>12 DEF PlanNext

\* What the plan and the queries keep of a command that has passed its checks.
LEMMA OptionsKept == ASSUME OptionsInv, stage \in {"run", "read"} PROVE OptionsHonoured
<1> DEFINE a == args
<1>1. a \in Commands /\ Passes(OptionChecks) /\ Passes(PlanChecks)
      /\ plan = Config /\ wires = Queries
      /\ (~Given("corpus") => rows = <<[start |-> 1, end |-> Len(Bytes) + 1]>>)
  BY DEF OptionsInv
<1>2. IsCommand(a)
  BY <1>1, PlanAssumption
<1>3. /\ ~(~IsTls /\ (Given("sni") \/ a.relaxed \/ a.insecure))
      /\ ~(Given("url") /\ ~IsDoh) /\ ~(Given("method") /\ ~IsDoh)
      /\ ~(Given("duration") /\ Given("count"))
      /\ ~(a.params # <<>> /\ ~IsDoh)
      /\ ~ProxyRefused /\ ~(IsDoh /\ UrlRefused)
  <2>1. Len(OptionChecks) = 10
    BY DEF OptionChecks
  <2>2. ~OptionChecks[3].when /\ ~OptionChecks[4].when /\ ~OptionChecks[5].when
        /\ ~OptionChecks[6].when /\ ~OptionChecks[9].when /\ ~OptionChecks[10].when
    <3> HIDE DEF OptionChecks
    <3> QED BY <1>1, <2>1 DEF Passes
  <2> HIDE DEF IsTls, Given, IsDoh, ProxyRefused, UrlRefused
  <2> QED BY <2>2 DEF OptionChecks, Check
<1>4. Given("duration") \/ Given("count")
  <2>1. Len(PlanChecks) = 9
    BY DEF PlanChecks
  <2>2. ~PlanChecks[5].when
    <3> HIDE DEF PlanChecks
    <3> QED BY <1>1, <2>1 DEF Passes
  <2>3. ~(plan.duration = NotGiven /\ plan.count = NotGiven)
    BY <2>2 DEF PlanChecks, Check, Planned
  <2>4. plan.duration = a.duration /\ plan.count = a.count
    <3> HIDE DEF Target
    <3> QED BY <1>1 DEF Config
  <2> QED BY <2>3, <2>4 DEF Given
<1>5. plan.target = Target /\ plan.duration = a.duration /\ plan.count = a.count
  <2> HIDE DEF Target
  <2> QED BY <1>1 DEF Config
<1>51. \A o \in {"concurrency", "inFlight", "timeout", "qps", "mode", "seed"} : plan[o] = a[o]
  <2> HIDE DEF Target
  <2>1. /\ plan["concurrency"] = a["concurrency"] /\ plan["inFlight"] = a["inFlight"]
        /\ plan["timeout"] = a["timeout"] /\ plan["qps"] = a["qps"]
        /\ plan["mode"] = a["mode"] /\ plan["seed"] = a["seed"]
    BY <1>1 DEF Config
  <2> QED BY <2>1
<1>52. \A i \in 1..Len(wires) : wires[i].opt = a.edns /\ wires[i].qtype = TypeCode[a.qtype]
  <2>1. plan.edns = a.edns /\ plan.qtype = TypeCode[a.qtype]
    <3> HIDE DEF Target
    <3> QED BY <1>1 DEF Config
  <2>2. Len(Queries) = Len(rows) /\ DOMAIN Queries = 1..Len(rows)
    BY LenProperties DEF Queries
  <2> QED BY <1>1, <2>1, <2>2 DEF Queries
<1>53. ~Given("corpus") => \A i \in 1..Len(wires) : wires[i].question = Question(<<a.name>>)
  <2> SUFFICES ASSUME ~Given("corpus"), NEW i \in 1..Len(wires)
               PROVE  wires[i].question = Question(<<a.name>>)
    OBVIOUS
  <2> HIDE DEF Given
  <2>1. Bytes = <<a.name>> /\ Len(Bytes) = 1
    BY DEF Bytes, File, Given
  <2>2. rows = <<[start |-> 1, end |-> 2]>>
    BY <1>1, <2>1
  <2>3. Len(rows) = 1 /\ rows[1].start = 1 /\ rows[1].end = 2
    BY <2>2
  <2>4. i = 1 /\ wires[1].question = Question(Name(rows[1]))
    <3>1. i \in 1..1
      <4>1. Len(Queries) = Len(rows)
        BY <2>3 DEF Queries
      <4> QED BY <1>1, <2>3, <4>1
    <3>2. Queries[1].question = Question(Name(rows[1]))
      BY <2>3 DEF Queries
    <3> QED BY <1>1, <3>1, <3>2
  <2>5. Name(rows[1]) = <<a.name>>
    <3>1. Name(rows[1]) = SubSeq(<<a.name>>, 1, 1)
      BY <2>1, <2>3 DEF Name
    <3>2. \A n : SubSeq(<<n>>, 1, 1) = <<n>>
      <4> TAKE n
      <4> DEFINE t == SubSeq(<<n>>, 1, 1)
      <4>1. <<n>> \in Seq({n}) /\ 1 \in 1..2
        OBVIOUS
      <4>2. t \in Seq({n}) /\ Len(t) = 1 /\ t[1] = n
        BY <4>1, SubSeqProperties
      <4> HIDE DEF t
      <4>3. t = <<n>>
        BY <4>2
      <4> QED BY <4>3 DEF t
    <3> QED BY <3>1, <3>2
  <2> QED BY <2>4, <2>5
<1>6. Target.tls = Tls /\ Target.http = Http /\ Target.proxy = Proxy /\ Target.address = Address
  BY DEF Target
<1>7. IsTls => Tls # NotGiven /\ Tls.insecure = a.insecure /\ Tls.relaxed = a.relaxed
               /\ (Given("sni") => Tls.sni = a.sni)
  <2> SUFFICES ASSUME IsTls
               PROVE  Tls # NotGiven /\ Tls.insecure = a.insecure /\ Tls.relaxed = a.relaxed
                      /\ (Given("sni") => Tls.sni = a.sni)
    OBVIOUS
  <2>1. IsDoh => Given("url")
    BY <1>3 DEF UrlRefused
  <2>2. Tls \in [alpn : STRING, insecure : BOOLEAN, relaxed : BOOLEAN, sni : STRING \cup {NotGiven}]
    BY <1>2, <2>1 DEF Tls, IsCommand, IsOption, Given
  <2>3. Tls # NotGiven
    <3> HIDE DEF Tls
    <3> QED BY <2>2, PlanAssumption
  <2> QED BY <2>3 DEF Tls
<1>8. IsDoh => /\ Http # NotGiven /\ (Given("method") => Http.method = a.method)
               /\ Http.base = a.url.host /\ Http.query = a.url.query \o a.params
  <2> SUFFICES ASSUME IsDoh
               PROVE  /\ Http # NotGiven /\ (Given("method") => Http.method = a.method)
                      /\ Http.base = a.url.host /\ Http.query = a.url.query \o a.params
    OBVIOUS
  <2>1. Given("url")
    BY <1>3 DEF UrlRefused
  <2>2. a.url.host \in STRING /\ a.url.query \in Seq(STRING) /\ a.params \in Seq(STRING)
        /\ (a.method = NotGiven \/ a.method \in STRING)
    BY <1>2, <2>1 DEF IsCommand, IsOption, Given
  <2>3. a.url.query \o a.params \in Seq(STRING)
    BY <2>2, ConcatProperties
  <2>4. Http \in [base : STRING, query : Seq(STRING), method : STRING \cup {"post"}]
    BY <2>2, <2>3 DEF Http, Given
  <2>5. Http # NotGiven
    <3> HIDE DEF Http
    <3> QED BY <2>4, PlanAssumption
  <2> QED BY <2>5 DEF Http
<1>9. Given("source") \/ Given("destination") =>
        /\ Proxy # NotGiven /\ Proxy.source = Proxy.destination /\ Proxy.source \in {"v4", "v6"}
  <2> SUFFICES ASSUME Given("source") \/ Given("destination")
               PROVE  /\ Proxy # NotGiven /\ Proxy.source = Proxy.destination
                      /\ Proxy.source \in {"v4", "v6"}
    OBVIOUS
  <2>1. /\ a.source \in {"v4", "v6", "mapped"} /\ a.destination \in {"v4", "v6", "mapped"}
        /\ Given("source")
        /\ Canonical(a.source) = Canonical(a.destination)
    BY <1>2, <1>3 DEF ProxyRefused, Given, IsCommand, IsAddress
  <2>2. Proxy \in [source : {"v4", "v6", "bad"}, destination : {"v4", "v6", "bad"}]
        /\ Proxy.source = Proxy.destination /\ Proxy.source \in {"v4", "v6"}
    BY <2>1 DEF Proxy, Canonical
  <2> HIDE DEF Proxy
  <2> QED BY <2>2, PlanAssumption
<1>10. /\ Address.port = IF a.server.port # NotGiven THEN a.server.port ELSE a.port
       /\ ~a.server.named => Address.ip # "mapped"
  BY <1>2, PlanAssumption DEF Address, Canonical, IsCommand
<1>11. \E o \in {"duration", "count"} :
          Given(o) /\ \A q \in {"duration", "count"} : plan[q] = IF q = o THEN a[o] ELSE NotGiven
  <2>1. plan["duration"] = a["duration"] /\ plan["count"] = a["count"]
    BY <1>5
  <2>2. CASE Given("duration")
    <3>1. a["count"] = NotGiven
      BY <1>3, <2>2 DEF Given
    <3> QED BY <2>1, <2>2, <3>1
  <2>3. CASE Given("count")
    <3>1. a["duration"] = NotGiven
      BY <1>3, <2>3 DEF Given
    <3> QED BY <2>1, <2>3, <3>1
  <2> QED BY <1>4, <2>2, <2>3
<1>12. IsDoh => IsTls
  BY DEF IsDoh, IsTls
<1>13. Given("source") \/ Given("destination") =>
        /\ plan.target.proxy # NotGiven
        /\ plan.target.proxy.source = plan.target.proxy.destination
        /\ plan.target.proxy.source \in {"v4", "v6"}
  <2> HIDE DEF Given, Proxy
  <2> QED BY <1>5, <1>6, <1>9
<1>14. plan.target.tls = Tls /\ plan.target.http = Http /\ plan.target.address = Address
  BY <1>5, <1>6
<1> HIDE DEF Given, Tls, Http, Proxy, Address, IsTls, IsDoh
<1> QED BY <1>3, <1>51, <1>52, <1>53, <1>7, <1>8, <1>10, <1>11, <1>12, <1>13, <1>14 DEF OptionsHonoured

LEMMA OptionsInvariance == PlanStart /\ [][PlanNext]_planVars => []OptionsInv
BY OptionsStart, OptionsStep, PTL

\* A load command that runs does what its options ask for: each is in its target, in
\* every query or in what the engine is given, and one condition ends it
\* (build_load_config, build_query), whatever the options are; but for the port beside
\* a server with one, the name beside a corpus and the seed of rows in order.
THEOREM OptionsAreHonoured == PlanStart /\ [][PlanNext]_planVars => []OptionsHonoured
<1>1. OptionsInv => OptionsHonoured
  BY OptionsKept DEF OptionsHonoured
<1> QED BY <1>1, OptionsInvariance, PTL

-------------------------------------------------------------------------------
(* The corpus: index_rows finds the lines of the file that have a name.      *)

RowType == [start : Int, end : Int]

LEMMA CharsDiffer == "CR" # "LF" /\ "CR" # "invalid" /\ "LF" # "invalid"
OBVIOUS

\* The row of a line.
RowOf(bytes, p) == [start |-> p[1], end |-> IF bytes[p[2] - 1] = "CR" THEN p[2] - 1 ELSE p[2]]

LEMMA LinesAre == ASSUME NEW bytes PROVE Lines(bytes) = {RowOf(bytes, p) : p \in LineSpans(bytes)}
BY DEF Lines, RowOf

\* The scan stands at s, at the beginning of a line whose end is not before e.
AtLine(bytes, s, e) ==
    /\ s \in 1..(Len(bytes) + 1) /\ e \in s..(Len(bytes) + 1)
    /\ s = 1 \/ bytes[s - 1] = "LF"
    /\ \A i \in s..(e - 1) : bytes[i] # "LF"

\* push_row at the end of a line adds the line if it is one with a name.
LEMMA RowAtEnd ==
    ASSUME NEW bytes \in Seq(STRING), NEW s, NEW e, AtLine(bytes, s, e),
           e = Len(bytes) + 1 \/ bytes[e] = "LF"
    PROVE  /\ Row(bytes, s, e) \in Seq(RowType)
           /\ Len(Row(bytes, s, e)) \in {0, 1}
           /\ ToSet(Row(bytes, s, e)) = {RowOf(bytes, p) : p \in {q \in LineSpans(bytes) : q[2] = e}}
           /\ \A i \in 1..Len(Row(bytes, s, e)) :
                 Row(bytes, s, e)[i].start = s /\ Row(bytes, s, e)[i].end <= e
<1> DEFINE N == Len(bytes)
           stripped == IF e > s /\ bytes[e - 1] = "CR" THEN e - 1 ELSE e
           P == {q \in LineSpans(bytes) : q[2] = e}
           row == [start |-> s, end |-> stripped]
<1>0. N \in Nat /\ s \in Int /\ e \in Int /\ s >= 1 /\ s <= e /\ e <= N + 1
  <2>1. N \in Nat
    BY LenProperties
  <2> QED BY <2>1 DEF AtLine
<1>1. ASSUME NEW p \in P PROVE p = <<s, e>> /\ p \in LineSpans(bytes)
  <2>1. /\ p \in (1..N) \X (2..(N + 1)) /\ p[2] = e /\ p[1] < e
        /\ p[1] = 1 \/ bytes[p[1] - 1] = "LF"
        /\ \A i \in p[1]..(e - 1) : bytes[i] # "LF"
    BY DEF LineSpans
  <2> DEFINE f == p[1]
  <2>2. f \in 1..N /\ p = <<f, e>>
    BY <2>1
  <2>3. ~(f < s)
    <3> SUFFICES ASSUME f < s PROVE FALSE
      OBVIOUS
    <3>1. s - 1 \in f..(e - 1) /\ bytes[s - 1] = "LF"
      BY <1>0, <2>2 DEF AtLine
    <3> QED BY <2>1, <3>1
  <2>4. ~(f > s)
    <3> SUFFICES ASSUME f > s PROVE FALSE
      OBVIOUS
    <3>1. f - 1 \in s..(e - 1) /\ bytes[f - 1] = "LF"
      BY <1>0, <2>1, <2>2
    <3> QED BY <3>1 DEF AtLine
  <2>5. f = s
    BY <1>0, <2>2, <2>3, <2>4
  <2> QED BY <2>2, <2>5
<1>2. <<s, e>> \in LineSpans(bytes) <=>
        /\ s < e /\ \A i \in s..(e - 1) : bytes[i] # "invalid"
        /\ ~(e = s + 1 /\ bytes[s] = "CR")
  <2> DEFINE p == <<s, e>>
  <2>1. p[1] = s /\ p[2] = e
    OBVIOUS
  <2>2. p[1] = 1 \/ bytes[p[1] - 1] = "LF"
    BY DEF AtLine
  <2>3. \A i \in s..(e - 1) : bytes[i] # "LF"
    BY DEF AtLine
  <2>4. s < e => s \in s..(e - 1) /\ p \in (1..N) \X (2..(N + 1)) /\ bytes[s] # "LF"
    <3>1. s < e => s \in s..(e - 1) /\ p \in (1..N) \X (2..(N + 1))
      BY <1>0
    <3> QED BY <2>3, <3>1
  <2>5. p \in LineSpans(bytes) <=>
           /\ p \in (1..N) \X (2..(N + 1))
           /\ s < e /\ bytes[s] # "LF"
           /\ \A i \in s..(e - 1) : bytes[i] \notin {"LF", "invalid"}
           /\ ~(e = s + 1 /\ bytes[s] = "CR")
    <3> HIDE DEF p, N
    <3> QED BY <2>1, <2>2 DEF LineSpans, N
  <2>6. (\A i \in s..(e - 1) : bytes[i] \notin {"LF", "invalid"})
          <=> \A i \in s..(e - 1) : bytes[i] # "invalid"
    BY <2>3
  <2> HIDE DEF p, N
  <2> QED BY <2>4, <2>5, <2>6 DEF p
<1>3. <<s, e>> \in LineSpans(bytes) <=>
        stripped > s /\ \A i \in s..(stripped - 1) : bytes[i] # "invalid"
  <2>1. CASE e > s /\ bytes[e - 1] = "CR"
    <3>1. stripped = e - 1 /\ e - 1 \in s..(e - 1) /\ (e # s + 1 <=> stripped > s)
      BY <1>0, <2>1
    <3>2. (\A i \in s..(e - 1) : bytes[i] # "invalid") <=> \A i \in s..(stripped - 1) : bytes[i] # "invalid"
      <4>1. \A i \in s..(e - 1) : i = e - 1 \/ i \in s..(stripped - 1)
        BY <1>0, <3>1
      <4>2. \A i \in s..(stripped - 1) : i \in s..(e - 1)
        BY <1>0, <3>1
      <4> HIDE DEF stripped
      <4> QED BY <2>1, <4>1, <4>2, CharsDiffer
    <3>3. e = s + 1 => bytes[s] = "CR"
      <4> SUFFICES ASSUME e = s + 1 PROVE bytes[s] = "CR"
        OBVIOUS
      <4>1. e - 1 = s
        BY <1>0
      <4> QED BY <2>1, <4>1
    <3>4. s < e
      BY <2>1, <1>0
    <3> HIDE DEF stripped
    <3> QED BY <1>2, <3>1, <3>2, <3>3, <3>4
  <2>2. CASE ~(e > s /\ bytes[e - 1] = "CR")
    <3>1. stripped = e /\ (stripped > s <=> s < e)
      BY <1>0, <2>2
    <3>2. s < e /\ e = s + 1 => bytes[s] # "CR"
      <4> SUFFICES ASSUME e = s + 1 PROVE bytes[s] # "CR"
        OBVIOUS
      <4>1. e - 1 = s /\ e > s
        BY <1>0
      <4> QED BY <2>2, <4>1
    <3> HIDE DEF stripped
    <3> QED BY <1>2, <3>1, <3>2
  <2> QED BY <2>1, <2>2
<1>4. stripped \in Int /\ stripped <= e
  BY <1>0
<1>5. Row(bytes, s, e) = IF <<s, e>> \in LineSpans(bytes) THEN <<row>> ELSE <<>>
  <2>1. Row(bytes, s, e) = IF stripped > s /\ \A i \in s..(stripped - 1) : bytes[i] # "invalid"
                           THEN <<row>> ELSE <<>>
    BY DEF Row
  <2> HIDE DEF stripped, row
  <2> QED BY <1>3, <2>1
<1>6. row \in RowType
  BY <1>0, <1>4 DEF RowType
<1>7. CASE <<s, e>> \in LineSpans(bytes)
  <2>1. P = {<<s, e>>}
    <3>1. <<s, e>> \in P
      BY <1>7
    <3> HIDE DEF P
    <3> QED BY <1>1, <3>1
  <2>2. RowOf(bytes, <<s, e>>) = row
    <3>1. s < e
      BY <1>2, <1>7
    <3>2. stripped = IF bytes[e - 1] = "CR" THEN e - 1 ELSE e
      BY <1>0, <3>1
    <3> HIDE DEF stripped
    <3> QED BY <3>2 DEF RowOf
  <2>3. {RowOf(bytes, p) : p \in P} = {row}
    <3> HIDE DEF P, row
    <3> QED BY <2>1, <2>2
  <2>4. Row(bytes, s, e) = <<row>>
    <3> HIDE DEF row
    <3> QED BY <1>5, <1>7
  <2>5. row.start = s /\ row.end = stripped
    OBVIOUS
  <2> HIDE DEF row, P, stripped
  <2>6. <<row>> \in Seq(RowType) /\ Len(<<row>>) = 1 /\ ToSet(<<row>>) = {row}
    BY <1>6 DEF ToSet
  <2>7. \A i \in 1..Len(<<row>>) : <<row>>[i].start = s /\ <<row>>[i].end <= e
    BY <2>5, <2>6, <1>4
  <2> QED BY <2>3, <2>4, <2>6, <2>7 DEF P
<1>8. CASE <<s, e>> \notin LineSpans(bytes)
  <2>1. P = {}
    <3> HIDE DEF P
    <3> QED BY <1>1, <1>8
  <2>2. Row(bytes, s, e) = <<>>
    BY <1>5, <1>8
  <2> HIDE DEF P
  <2>3. ToSet(<<>>) = {} /\ <<>> \in Seq(RowType) /\ Len(<<>>) = 0
    BY EmptySeq DEF ToSet
  <2> QED BY <2>1, <2>2, <2>3 DEF P
<1> QED BY <1>7, <1>8

\* What a byte does to the scan.
Scanned(bytes, n, s) ==
    IF bytes[n] = "LF"
    THEN [rows |-> s.rows \o Row(bytes, s.start, n), start |-> n + 1]
    ELSE s

ScanType == [rows : Seq(RowType), start : Nat]

LEMMA RowTyped == ASSUME NEW bytes, NEW s \in Nat, NEW e \in Nat PROVE Row(bytes, s, e) \in Seq(RowType)
<1> DEFINE stripped == IF e > s /\ bytes[e - 1] = "CR" THEN e - 1 ELSE e
           row == [start |-> s, end |-> stripped]
<1>1. row \in RowType
  BY DEF RowType
<1>2. Row(bytes, s, e) \in {<<row>>, <<>>}
  BY DEF Row
<1> HIDE DEF row
<1>3. <<row>> \in Seq(RowType) /\ <<>> \in Seq(RowType)
  BY <1>1, EmptySeq
<1> QED BY <1>2, <1>3

LEMMA ScanTyped ==
    ASSUME NEW bytes, NEW n \in Nat, NEW s \in ScanType
    PROVE  Scanned(bytes, n, s) \in ScanType
<1>1. s.rows \in Seq(RowType) /\ s.start \in Nat
  BY DEF ScanType
<1>2. s.rows \o Row(bytes, s.start, n) \in Seq(RowType)
  BY <1>1, RowTyped, ConcatProperties
<1> QED BY <1>2 DEF Scanned, ScanType

\* The scan of index_rows exists, and goes from byte to byte.
LEMMA IndexedSteps ==
    ASSUME NEW bytes \in Seq(STRING)
    PROVE  /\ Indexed(bytes)[0] = [rows |-> <<>>, start |-> 1]
           /\ \A n \in 1..Len(bytes) : Indexed(bytes)[n] = Scanned(bytes, n, Indexed(bytes)[n - 1])
<1> DEFINE N == Len(bytes)
           D == 0..N
           V == ScanType
           c == [rows |-> <<>>, start |-> 1]
           Body(g, n) == IF n = 0 THEN c ELSE Scanned(bytes, n, g[n - 1])
           G == [n \in 1..N |-> [s \in V |-> Scanned(bytes, n, s)]]
           scan == CHOOSE g : g = [n \in D |-> Body(g, n)]
<1>0. N \in Nat
  BY LenProperties
<1>1. Indexed(bytes) = scan
  BY DEF Indexed, Scanned
<1>2. c \in V
  BY EmptySeq DEF ScanType
<1>3. G \in [1..N -> [V -> V]]
  <2>1. \A n \in 1..N : n \in Nat
    BY <1>0
  <2> HIDE DEF V
  <2>2. \A n \in 1..N : \A s \in V : Scanned(bytes, n, s) \in V
    BY <2>1, ScanTyped DEF V
  <2> QED BY <2>2
<1>4. PICK g \in [D -> V] : g[0] = c /\ \A n \in 1..N : g[n] = G[n][g[n - 1]]
  <2> HIDE DEF G, c, V, N, D
  <2>0. Stepwise(N, V, c, G)
    BY <1>0, <1>2, <1>3 DEF Stepwise
  <2>1. \E g \in [0..N -> V] : g[0] = c /\ \A n \in 1..N : g[n] = G[n][g[n - 1]]
    BY <2>0, Iterated
  <2> QED BY <2>1 DEF D
<1>5. \A n \in D : (n # 0 => n \in 1..N /\ n - 1 \in D)
  BY <1>0
<1>6. \A n \in 1..N : G[n][g[n - 1]] = Scanned(bytes, n, g[n - 1])
  <2>1. \A n \in 1..N : g[n - 1] \in V
    BY <1>0, <1>4
  <2> HIDE DEF V
  <2> QED BY <2>1
<1>7. \A n \in D : g[n] = Body(g, n)
  <2> HIDE DEF V, D, N, G, c
  <2> QED BY <1>4, <1>5, <1>6
<1>8. g = [n \in D |-> Body(g, n)]
  <2> HIDE DEF Body, D, V
  <2> QED BY <1>4, <1>7
<1>9. scan = [n \in D |-> Body(scan, n)]
  <2> HIDE DEF Body, D
  <2> QED BY <1>8
<1>10. \A n \in D : scan[n] = Body(scan, n)
  <2> HIDE DEF Body, D, scan
  <2> QED BY <1>9
<1>11. 0 \in D /\ \A n \in 1..N : n \in D /\ n # 0
  BY <1>0
<1> HIDE DEF scan, D, c, N
<1>12. scan[0] = c /\ \A n \in 1..N : scan[n] = Scanned(bytes, n, scan[n - 1])
  BY <1>10, <1>11
<1> QED BY <1>1, <1>12 DEF c, N

\* Rows in the order of the file, all before position e.
RowsInOrder(rs, e) ==
    /\ \A i \in 1..Len(rs) : rs[i].end < e
    /\ \A i, j \in 1..Len(rs) : i < j => rs[i].end < rs[j].start

\* After n bytes the rows are those of the lines that have ended.
ScanTrue(bytes, n) ==
    LET s == Indexed(bytes)[n] IN
    /\ s \in ScanType
    /\ AtLine(bytes, s.start, n + 1)
    /\ ToSet(s.rows) = {RowOf(bytes, p) : p \in {q \in LineSpans(bytes) : q[2] <= n}}
    /\ RowsInOrder(s.rows, s.start)

LEMMA ToSetConcat ==
    ASSUME NEW S, NEW s \in Seq(S), NEW t \in Seq(S)
    PROVE  ToSet(s \o t) = ToSet(s) \cup ToSet(t)
<1> DEFINE m == Len(s)
           n == Len(t)
           u == s \o t
<1>0. /\ m \in Nat /\ n \in Nat /\ u \in Seq(S) /\ Len(u) = m + n
      /\ \A i \in 1..(m + n) : u[i] = IF i <= m THEN s[i] ELSE t[i - m]
  BY LenProperties, ConcatProperties
<1>1. ToSet(s) = {s[i] : i \in 1..m} /\ ToSet(t) = {t[i] : i \in 1..n} /\ ToSet(u) = {u[i] : i \in 1..(m + n)}
  <2>1. DOMAIN s = 1..m /\ DOMAIN t = 1..n /\ DOMAIN u = 1..(m + n)
    <3> HIDE DEF u
    <3> QED BY <1>0, LenProperties
  <2> HIDE DEF u, m, n
  <2> QED BY <2>1 DEF ToSet
<1> HIDE DEF u, m, n
<1>2. ASSUME NEW i \in 1..m PROVE i \in 1..(m + n) /\ u[i] = s[i]
  <2>1. i \in 1..(m + n) /\ i <= m
    BY <1>0
  <2> QED BY <1>0, <2>1
<1>3. ASSUME NEW i \in 1..n PROVE m + i \in 1..(m + n) /\ u[m + i] = t[i]
  <2>1. m + i \in 1..(m + n) /\ ~(m + i <= m) /\ (m + i) - m = i
    BY <1>0
  <2> QED BY <1>0, <2>1
<1>4. ASSUME NEW i \in 1..(m + n) PROVE (i \in 1..m /\ u[i] = s[i]) \/ (i - m \in 1..n /\ u[i] = t[i - m])
  <2>1. i \in 1..m \/ (~(i <= m) /\ i - m \in 1..n)
    BY <1>0
  <2>2. i \in 1..m => i <= m
    BY <1>0
  <2> QED BY <1>0, <2>1, <2>2
<1>5. ToSet(u) \subseteq ToSet(s) \cup ToSet(t)
  BY <1>1, <1>4
<1>6. ToSet(s) \subseteq ToSet(u)
  BY <1>1, <1>2
<1>7. ToSet(t) \subseteq ToSet(u)
  BY <1>1, <1>3
<1> QED BY <1>5, <1>6, <1>7 DEF u

\* A row after others that end before it.
LEMMA OrderConcat ==
    ASSUME NEW rs \in Seq(RowType), NEW t \in Seq(RowType), NEW b \in Int, NEW e \in Int, b <= e,
           RowsInOrder(rs, b), Len(t) \in {0, 1},
           \A i \in 1..Len(t) : t[i].start = b /\ t[i].end < e
    PROVE  RowsInOrder(rs \o t, e)
<1> DEFINE m == Len(rs)
           u == rs \o t
<1>0. /\ m \in Nat /\ u \in Seq(RowType) /\ Len(u) = m + Len(t)
      /\ \A i \in 1..(m + Len(t)) : u[i] = IF i <= m THEN rs[i] ELSE t[i - m]
  BY LenProperties, ConcatProperties
<1>1. \A i \in 1..m : rs[i].end \in Int /\ rs[i].start \in Int /\ rs[i].end < b
  <2>1. \A i \in 1..m : rs[i] \in RowType
    BY ElementOfSeq
  <2> QED BY <2>1 DEF RowsInOrder, RowType
<1>2. CASE Len(t) = 0
  <2>1. Len(u) = m /\ \A i \in 1..m : u[i] = rs[i]
    BY <1>0, <1>2
  <2> HIDE DEF u
  <2>2. \A i \in 1..Len(u) : u[i].end < e
    BY <1>1, <2>1
  <2>3. \A i, j \in 1..Len(u) : i < j => u[i].end < u[j].start
    BY <2>1 DEF RowsInOrder
  <2> QED BY <2>2, <2>3 DEF RowsInOrder, u
<1>3. CASE Len(t) = 1
  <2> DEFINE r == t[1]
  <2>1. 1 \in 1..Len(t) /\ r \in RowType /\ r.start = b /\ r.end < e
    <3>1. 1 \in 1..Len(t)
      BY <1>3
    <3> QED BY <3>1, ElementOfSeq
  <2>2. Len(u) = m + 1 /\ u[m + 1] = r /\ \A i \in 1..m : u[i] = rs[i]
    <3>1. m + 1 \in 1..(m + Len(t)) /\ ~(m + 1 <= m) /\ (m + 1) - m = 1
      BY <1>0, <1>3
    <3>2. \A i \in 1..m : i \in 1..(m + Len(t)) /\ i <= m
      BY <1>0, <1>3
    <3> QED BY <1>0, <1>3, <3>1, <3>2
  <2>3. \A i \in 1..Len(u) : i \in 1..m \/ i = m + 1
    BY <1>0, <2>2
  <2> HIDE DEF u, r
  <2>4. \A i \in 1..Len(u) : u[i].end < e
    <3> SUFFICES ASSUME NEW i \in 1..Len(u) PROVE u[i].end < e
      OBVIOUS
    <3>1. CASE i \in 1..m
      <4>1. u[i].end = rs[i].end /\ rs[i].end < b /\ rs[i].end \in Int
        BY <1>1, <2>2, <3>1
      <4> QED BY <4>1
    <3>2. CASE i = m + 1
      BY <2>1, <2>2, <3>2
    <3> QED BY <2>3, <3>1, <3>2
  <2>5. \A i, j \in 1..Len(u) : i < j => u[i].end < u[j].start
    <3> SUFFICES ASSUME NEW i \in 1..Len(u), NEW j \in 1..Len(u), i < j PROVE u[i].end < u[j].start
      OBVIOUS
    <3>1. i \in 1..m
      BY <1>0, <2>2
    <3>2. CASE j \in 1..m
      BY <2>2, <3>1, <3>2 DEF RowsInOrder
    <3>3. CASE j = m + 1
      BY <1>1, <2>1, <2>2, <3>1, <3>3
    <3> QED BY <2>3, <3>2, <3>3
  <2> QED BY <2>4, <2>5 DEF RowsInOrder, u
<1> QED BY <1>2, <1>3

\* What has been added at a line's end: rows of the lines up to there, in order.
LEMMA LineAdded ==
    ASSUME NEW bytes \in Seq(STRING), NEW rs \in Seq(RowType), NEW s, NEW e, AtLine(bytes, s, e),
           e = Len(bytes) + 1 \/ bytes[e] = "LF",
           ToSet(rs) = {RowOf(bytes, p) : p \in {q \in LineSpans(bytes) : q[2] <= e - 1}},
           RowsInOrder(rs, s)
    PROVE  /\ rs \o Row(bytes, s, e) \in Seq(RowType)
           /\ ToSet(rs \o Row(bytes, s, e))
                 = {RowOf(bytes, p) : p \in {q \in LineSpans(bytes) : q[2] <= e}}
           /\ RowsInOrder(rs \o Row(bytes, s, e), e + 1)
<1> DEFINE t == Row(bytes, s, e)
<1>0. s \in Int /\ e \in Int /\ s <= e + 1
  <2>1. Len(bytes) \in Nat
    BY LenProperties
  <2> QED BY <2>1 DEF AtLine
<1>1. /\ t \in Seq(RowType) /\ Len(t) \in {0, 1}
      /\ ToSet(t) = {RowOf(bytes, p) : p \in {q \in LineSpans(bytes) : q[2] = e}}
      /\ \A i \in 1..Len(t) : t[i].start = s /\ t[i].end <= e
  BY RowAtEnd
<1> HIDE DEF t
<1>2. rs \o t \in Seq(RowType) /\ ToSet(rs \o t) = ToSet(rs) \cup ToSet(t)
  BY <1>1, ConcatProperties, ToSetConcat
<1>3. \A i \in 1..Len(t) : t[i].start = s /\ t[i].end < e + 1
  <2> SUFFICES ASSUME NEW i \in 1..Len(t) PROVE t[i].start = s /\ t[i].end < e + 1
    OBVIOUS
  <2>1. t[i] \in RowType /\ t[i].end <= e /\ t[i].start = s
    BY <1>1, ElementOfSeq
  <2>2. t[i].end \in Int
    BY <2>1 DEF RowType
  <2> QED BY <1>0, <2>1, <2>2
<1>4. RowsInOrder(rs \o t, e + 1)
  <2>1. e + 1 \in Int
    BY <1>0
  <2> QED BY <1>0, <1>1, <1>3, <2>1, OrderConcat
<1>5. \A q \in LineSpans(bytes) : q[2] <= e <=> (q[2] <= e - 1 \/ q[2] = e)
  <2>1. \A q \in LineSpans(bytes) : q[2] \in Int
    <3>1. Len(bytes) \in Nat
      BY LenProperties
    <3> QED BY <3>1 DEF LineSpans
  <2> QED BY <1>0, <2>1
<1>6. {RowOf(bytes, p) : p \in {q \in LineSpans(bytes) : q[2] <= e}}
        = {RowOf(bytes, p) : p \in {q \in LineSpans(bytes) : q[2] <= e - 1}}
          \cup {RowOf(bytes, p) : p \in {q \in LineSpans(bytes) : q[2] = e}}
  BY <1>5
<1> QED BY <1>1, <1>2, <1>4, <1>6 DEF t

LEMMA ScanStart == ASSUME NEW bytes \in Seq(STRING) PROVE ScanTrue(bytes, 0)
<1> DEFINE s == Indexed(bytes)[0]
<1>1. s = [rows |-> <<>>, start |-> 1]
  BY IndexedSteps
<1>2. s.rows = <<>> /\ s.start = 1
  BY <1>1
<1>3. s \in ScanType
  BY <1>1, EmptySeq DEF ScanType
<1>4. Len(bytes) \in Nat
  BY LenProperties
<1>5. AtLine(bytes, 1, 0 + 1)
  BY <1>4 DEF AtLine
<1>6. {q \in LineSpans(bytes) : q[2] <= 0} = {}
  BY <1>4 DEF LineSpans
<1>7. ToSet(<<>>) = {} /\ Len(<<>>) = 0
  BY DEF ToSet
<1>8. RowsInOrder(<<>>, 1)
  BY <1>7 DEF RowsInOrder
<1> HIDE DEF s
<1>9. ToSet(s.rows) = {RowOf(bytes, p) : p \in {q \in LineSpans(bytes) : q[2] <= 0}}
  BY <1>2, <1>6, <1>7
<1> QED BY <1>2, <1>3, <1>5, <1>8, <1>9 DEF ScanTrue, s

LEMMA ScanStep ==
    ASSUME NEW bytes \in Seq(STRING), NEW n \in 1..Len(bytes), ScanTrue(bytes, n - 1)
    PROVE  ScanTrue(bytes, n)
<1> DEFINE s == Indexed(bytes)[n - 1]
           t == Indexed(bytes)[n]
           b == s.start
           rs == s.rows
           N == Len(bytes)
<1>0. N \in Nat /\ n \in Nat /\ n - 1 \in Nat /\ (n - 1) + 1 = n /\ n <= N
  <2>1. N \in Nat
    BY LenProperties
  <2> QED BY <2>1
<1>1. t = Scanned(bytes, n, s)
  BY IndexedSteps
<1>2. /\ s \in ScanType /\ AtLine(bytes, b, n) /\ RowsInOrder(rs, b)
      /\ ToSet(rs) = {RowOf(bytes, p) : p \in {q \in LineSpans(bytes) : q[2] <= n - 1}}
  <2>1. AtLine(bytes, b, (n - 1) + 1)
    BY DEF ScanTrue
  <2>2. AtLine(bytes, b, n)
    BY <1>0, <2>1
  <2> QED BY <2>2 DEF ScanTrue
<1>3. rs \in Seq(RowType) /\ b \in Nat
  BY <1>2 DEF ScanType
<1>4. t \in ScanType
  BY <1>0, <1>1, <1>2, ScanTyped
<1>5. CASE bytes[n] = "LF"
  <2>1. t.rows = rs \o Row(bytes, b, n) /\ t.start = n + 1
    <3>1. t = [rows |-> rs \o Row(bytes, b, n), start |-> n + 1]
      <4> HIDE DEF t
      <4> QED BY <1>1, <1>5 DEF Scanned
    <3> HIDE DEF t, rs, b
    <3> QED BY <3>1
  <2>2. /\ ToSet(rs \o Row(bytes, b, n))
              = {RowOf(bytes, p) : p \in {q \in LineSpans(bytes) : q[2] <= n}}
        /\ RowsInOrder(rs \o Row(bytes, b, n), n + 1)
    <3> HIDE DEF rs, b
    <3> QED BY <1>2, <1>3, <1>5, LineAdded
  <2>3. AtLine(bytes, n + 1, n + 1)
    <3>1. (n + 1) - 1 = n
      BY <1>0
    <3>2. \A i \in (n + 1)..((n + 1) - 1) : bytes[i] # "LF"
      BY <1>0
    <3>3. bytes[(n + 1) - 1] = "LF"
      BY <1>5, <3>1
    <3> QED BY <1>0, <3>2, <3>3 DEF AtLine
  <2> HIDE DEF t, rs, b
  <2> QED BY <1>4, <2>1, <2>2, <2>3 DEF ScanTrue, t
<1>6. CASE bytes[n] # "LF"
  <2>1. t = s
    BY <1>1, <1>6 DEF Scanned
  <2>2. AtLine(bytes, b, n + 1)
    <3>1. \A i \in b..((n + 1) - 1) : i = n \/ i \in b..(n - 1)
      BY <1>0, <1>3
    <3>2. n + 1 \in b..(N + 1)
      BY <1>0, <1>2, <1>3 DEF AtLine
    <3> HIDE DEF b
    <3> QED BY <1>2, <1>6, <3>1, <3>2 DEF AtLine
  <2>3. \A q \in LineSpans(bytes) : q[2] <= n <=> q[2] <= n - 1
    <3> SUFFICES ASSUME NEW q \in LineSpans(bytes) PROVE q[2] # n
      BY <1>0 DEF LineSpans
    <3>1. q[2] = N + 1 \/ bytes[q[2]] = "LF"
      BY DEF LineSpans
    <3>2. n # N + 1
      BY <1>0
    <3> QED BY <1>6, <3>1, <3>2
  <2>4. {q \in LineSpans(bytes) : q[2] <= n} = {q \in LineSpans(bytes) : q[2] <= n - 1}
    BY <2>3
  <2>5. ToSet(rs) = {RowOf(bytes, p) : p \in {q \in LineSpans(bytes) : q[2] <= n}}
    BY <1>2, <2>4
  <2>6. t.start = b /\ t.rows = rs
    BY <2>1
  <2> HIDE DEF t, rs, b
  <2> QED BY <1>2, <1>4, <2>2, <2>5, <2>6 DEF ScanTrue, t
<1> QED BY <1>5, <1>6

\* index_rows finds the lines with a name in them, in order.
LEMMA RowsAreLines ==
    ASSUME NEW bytes \in Seq(STRING)
    PROVE  /\ ToSet(IndexRows(bytes)) = Lines(bytes)
           /\ IndexRows(bytes) \in Seq(RowType)
           /\ RowsInOrder(IndexRows(bytes), Len(bytes) + 2)
<1> DEFINE N == Len(bytes)
           s == Indexed(bytes)[N]
           e == N + 1
<1>0. N \in Nat
  BY LenProperties
<1> DEFINE S == {n \in Nat : n <= N => ScanTrue(bytes, n)}
<1>1. 0 \in S
  BY ScanStart
<1>2. ASSUME NEW n \in Nat, n \in S PROVE n + 1 \in S
  <2> SUFFICES ASSUME n + 1 <= N PROVE ScanTrue(bytes, n + 1)
    OBVIOUS
  <2>1. n <= N /\ n + 1 \in 1..Len(bytes) /\ (n + 1) - 1 = n
    BY <1>0
  <2>2. ScanTrue(bytes, (n + 1) - 1)
    BY <1>2, <2>1
  <2> QED BY <2>1, <2>2, ScanStep
<1>3. N \in S
  <2> HIDE DEF S
  <2> QED BY <1>0, <1>1, <1>2, NatIsAll
<1>4. ScanTrue(bytes, N)
  BY <1>0, <1>3
<1>5. /\ s \in ScanType /\ AtLine(bytes, s.start, e)
      /\ ToSet(s.rows) = {RowOf(bytes, p) : p \in {q \in LineSpans(bytes) : q[2] <= N}}
      /\ RowsInOrder(s.rows, s.start)
  BY <1>4 DEF ScanTrue
<1>6. s.rows \in Seq(RowType)
  BY <1>5 DEF ScanType
<1>7. e - 1 = N /\ e + 1 = N + 2
  BY <1>0
<1>8. IndexRows(bytes) = s.rows \o Row(bytes, s.start, e)
  BY DEF IndexRows
<1>9. /\ IndexRows(bytes) \in Seq(RowType)
      /\ ToSet(IndexRows(bytes)) = {RowOf(bytes, p) : p \in {q \in LineSpans(bytes) : q[2] <= e}}
      /\ RowsInOrder(IndexRows(bytes), e + 1)
  <2>1. ToSet(s.rows) = {RowOf(bytes, p) : p \in {q \in LineSpans(bytes) : q[2] <= e - 1}}
    BY <1>5, <1>7
  <2>2. e = Len(bytes) + 1
    OBVIOUS
  <2> HIDE DEF s, e
  <2> QED BY <1>5, <1>6, <1>8, <2>1, <2>2, LineAdded
<1>10. {q \in LineSpans(bytes) : q[2] <= e} = LineSpans(bytes)
  BY <1>0 DEF LineSpans
<1> HIDE DEF e, s
<1> QED BY <1>7, <1>9, <1>10, LinesAre DEF N

-------------------------------------------------------------------------------
(* permute_index: powers of two, ^, and the network made of them.            *)

LEMMA TwoToSteps ==
    /\ TwoTo \in [Nat -> Nat]
    /\ TwoTo[0] = 1
    /\ \A n \in Nat : TwoTo[n + 1] = 2 * TwoTo[n]
<1> DEFINE Body(g, n) == IF n = 0 THEN 1 ELSE 2 * g[n - 1]
           m == [n \in Nat |-> n]
           H == [n \in Nat |-> [g \in [Nat -> Nat] |-> Body(g, n)]]
           f == CHOOSE g : g = [n \in Nat |-> Body(g, n)]
<1>1. \A n \in Nat : n # 0 => n - 1 \in Nat /\ n - 1 < n
  OBVIOUS
<1>2. ASSUME NEW n \in Nat, NEW g \in [Nat -> Nat] PROVE Body(g, n) \in Nat
  <2>1. n # 0 => g[n - 1] \in Nat
    BY <1>1
  <2> QED BY <2>1
<1>3. H \in [Nat -> [[Nat -> Nat] -> Nat]]
  <2> HIDE DEF Body
  <2> QED BY <1>2
<1>4. ASSUME NEW n \in Nat, NEW g \in [Nat -> Nat], NEW h \in [Nat -> Nat],
             \A k \in Nat : m[k] < m[n] => g[k] = h[k]
      PROVE  H[n][g] = H[n][h]
  <2>1. n # 0 => g[n - 1] = h[n - 1]
    BY <1>1, <1>4
  <2> QED BY <2>1
<1>5. PICK g \in [Nat -> Nat] : Solves(g, Nat, H)
  <2>1. m \in [Nat -> Nat] /\ 0 \in Nat
    OBVIOUS
  <2> HIDE DEF m, H
  <2>2. Recursive(Nat, Nat, m, H)
    BY <1>3, <1>4, <2>1 DEF Recursive
  <2> QED BY <2>2, RecursionSolved
<1>6. g = [n \in Nat |-> Body(g, n)]
  <2> HIDE DEF Body
  <2>1. \A n \in Nat : g[n] = Body(g, n)
    BY <1>5 DEF Solves
  <2> QED BY <1>5, <2>1
<1>7. TwoTo = f
  BY DEF TwoTo
<1>8. f = [n \in Nat |-> Body(f, n)]
  <2> HIDE DEF Body
  <2> QED BY <1>6
<1>9. \A n \in Nat : f[n] = Body(f, n)
  <2> HIDE DEF Body, f
  <2> QED BY <1>8
<1> HIDE DEF f
<1>10. f[0] = 1
  BY <1>9
<1>11. \A n \in Nat : f[n + 1] = 2 * f[n]
  <2> SUFFICES ASSUME NEW n \in Nat PROVE f[n + 1] = 2 * f[n]
    OBVIOUS
  <2>1. n + 1 \in Nat /\ n + 1 # 0 /\ (n + 1) - 1 = n
    OBVIOUS
  <2>2. f[n + 1] = Body(f, n + 1)
    BY <1>9, <2>1
  <2> QED BY <2>1, <2>2
<1> DEFINE S == {n \in Nat : f[n] \in Nat}
<1>12. 0 \in S /\ \A n \in Nat : n \in S => n + 1 \in S
  BY <1>10, <1>11
<1>13. Nat \subseteq S
  <2> HIDE DEF S
  <2> QED BY <1>12, NatIsAll
<1>14. f \in [Nat -> Nat]
  <2> HIDE DEF Body
  <2> QED BY <1>8, <1>13
<1> QED BY <1>7, <1>10, <1>11, <1>14

LEMMA TwoToGrows ==
    \A n \in Nat : TwoTo[n] \in Nat /\ TwoTo[n] > n /\ TwoTo[n] < TwoTo[n + 1]
<1> DEFINE S == {n \in Nat : TwoTo[n] > n}
<1>0. \A n \in Nat : TwoTo[n] \in Nat
  BY TwoToSteps
<1>1. 0 \in S
  BY TwoToSteps
<1>2. ASSUME NEW n \in Nat, n \in S PROVE n + 1 \in S
  BY <1>0, <1>2, TwoToSteps
<1>3. Nat \subseteq S
  <2> HIDE DEF S
  <2> QED BY <1>1, <1>2, NatIsAll
<1> QED BY <1>0, <1>3, TwoToSteps

LEMMA TwoToMonotone == \A m, n \in Nat : m <= n => TwoTo[m] <= TwoTo[n]
<1> SUFFICES ASSUME NEW m \in Nat PROVE \A n \in Nat : m <= n => TwoTo[m] <= TwoTo[n]
  OBVIOUS
<1> DEFINE S == {n \in Nat : m <= n => TwoTo[m] <= TwoTo[n]}
<1>1. 0 \in S
  BY TwoToGrows
<1>2. ASSUME NEW n \in Nat, n \in S PROVE n + 1 \in S
  <2>1. TwoTo[m] \in Nat /\ TwoTo[n] \in Nat /\ TwoTo[n + 1] \in Nat /\ TwoTo[n] < TwoTo[n + 1]
    BY TwoToGrows
  <2>2. CASE m = n + 1
    BY <2>1, <2>2
  <2>3. CASE m <= n
    BY <1>2, <2>1, <2>3
  <2> QED BY <2>2, <2>3
<1>3. Nat \subseteq S
  <2> HIDE DEF S
  <2> QED BY <1>1, <1>2, NatIsAll
<1> QED BY <1>3

LEMMA DoubleProduct == \A x, y \in Nat : 2 * (x * y) = x * (2 * y) /\ x * 1 = x /\ x * y \in Nat
OBVIOUS

LEMMA TwoToSum == \A m, n \in Nat : TwoTo[m + n] = TwoTo[m] * TwoTo[n]
<1> SUFFICES ASSUME NEW m \in Nat PROVE \A n \in Nat : TwoTo[m + n] = TwoTo[m] * TwoTo[n]
  OBVIOUS
<1> DEFINE S == {n \in Nat : TwoTo[m + n] = TwoTo[m] * TwoTo[n]}
<1>0. TwoTo[m] \in Nat
  BY TwoToSteps
<1>1. 0 \in S
  <2>1. m + 0 = m /\ TwoTo[0] = 1 /\ TwoTo[m] * 1 = TwoTo[m]
    BY <1>0, TwoToSteps, DoubleProduct
  <2> QED BY <2>1
<1>2. ASSUME NEW n \in Nat, n \in S PROVE n + 1 \in S
  <2>1. m + (n + 1) = (m + n) + 1 /\ m + n \in Nat
    OBVIOUS
  <2>2. TwoTo[m + (n + 1)] = 2 * TwoTo[m + n] /\ TwoTo[n + 1] = 2 * TwoTo[n] /\ TwoTo[n] \in Nat
    BY <2>1, TwoToSteps
  <2>3. TwoTo[m + n] = TwoTo[m] * TwoTo[n]
    BY <1>2
  <2>4. 2 * (TwoTo[m] * TwoTo[n]) = TwoTo[m] * (2 * TwoTo[n])
    BY <1>0, <2>2, DoubleProduct
  <2> QED BY <2>2, <2>3, <2>4
<1>3. Nat \subseteq S
  <2> HIDE DEF S
  <2> QED BY <1>1, <1>2, NatIsAll
<1> QED BY <1>3

\* ^ and its last bit.
LEMMA Halves ==
    \A a \in Nat : a \div 2 \in Nat /\ (a # 0 => a \div 2 < a) /\ a % 2 \in {0, 1}
                   /\ a = 2 * (a \div 2) + (a % 2)
OBVIOUS

LEMMA XorSolved ==
    /\ Xor \in [Nat -> [Nat -> Nat]]
    /\ \A a, b \in Nat : Xor[a][b] = IF a = 0 THEN b ELSE 2 * Xor[a \div 2][b \div 2] + ((a + b) % 2)
<1> DEFINE V == [Nat -> Nat]
           Value(g, a, b) == IF a = 0 THEN b ELSE 2 * g[a \div 2][b \div 2] + ((a + b) % 2)
           Body(g, a) == [b \in Nat |-> Value(g, a, b)]
           m == [a \in Nat |-> a]
           H == [a \in Nat |-> [g \in [Nat -> V] |-> Body(g, a)]]
           f == CHOOSE g : g = [a \in Nat |-> Body(g, a)]
<1>1. ASSUME NEW a \in Nat, NEW g \in [Nat -> V] PROVE Body(g, a) \in V
  <2>1. ASSUME NEW b \in Nat PROVE Value(g, a, b) \in Nat
    <3>1. a \div 2 \in Nat /\ b \div 2 \in Nat /\ (a + b) % 2 \in Nat
      BY Halves
    <3>2. g[a \div 2][b \div 2] \in Nat
      BY <3>1
    <3> DEFINE q == g[a \div 2][b \div 2]
               r == (a + b) % 2
    <3>3. Value(g, a, b) = IF a = 0 THEN b ELSE 2 * q + r
      OBVIOUS
    <3> HIDE DEF Value, q, r
    <3>4. q \in Nat /\ r \in Nat
      BY <3>1, <3>2 DEF q, r
    <3> QED BY <3>3, <3>4
  <2> HIDE DEF Value
  <2> QED BY <2>1
<1>2. H \in [Nat -> [[Nat -> V] -> V]]
  <2> HIDE DEF Body, V
  <2> QED BY <1>1
<1>3. ASSUME NEW a \in Nat, NEW g \in [Nat -> V], NEW h \in [Nat -> V],
             \A k \in Nat : m[k] < m[a] => g[k] = h[k]
      PROVE  H[a][g] = H[a][h]
  <2>1. a # 0 => g[a \div 2] = h[a \div 2]
    BY <1>3, Halves
  <2>2. \A b \in Nat : Value(g, a, b) = Value(h, a, b)
    BY <2>1
  <2>3. Body(g, a) = Body(h, a)
    <3> HIDE DEF Value
    <3> QED BY <2>2
  <2> HIDE DEF Body, V
  <2> QED BY <2>3
<1>4. PICK g \in [Nat -> V] : Solves(g, Nat, H)
  <2>1. m \in [Nat -> Nat] /\ V # {}
    <3>1. [b \in Nat |-> 0] \in V
      OBVIOUS
    <3> QED BY <3>1
  <2> HIDE DEF m, H, V
  <2>2. Recursive(Nat, V, m, H)
    BY <1>2, <1>3, <2>1 DEF Recursive
  <2> QED BY <2>2, RecursionSolved
<1>5. g = [a \in Nat |-> Body(g, a)]
  <2> HIDE DEF Body, V
  <2>1. \A a \in Nat : g[a] = Body(g, a)
    BY <1>4 DEF Solves
  <2> QED BY <1>4, <2>1
<1>6. Xor = f
  BY DEF Xor
<1>7. f = [a \in Nat |-> Body(f, a)]
  <2> HIDE DEF Body
  <2> QED BY <1>5
<1>8. \A a \in Nat : f[a] = Body(f, a)
  <2> HIDE DEF Body, f
  <2> QED BY <1>7
<1> HIDE DEF f
<1>9. \A a, b \in Nat : f[a][b] = Value(f, a, b)
  <2> HIDE DEF Value
  <2> QED BY <1>8
<1> DEFINE S == {a \in Nat : f[a] \in V}
<1>10. ASSUME NEW a \in Nat, \A k \in Nat : m[k] < m[a] => k \in S PROVE a \in S
  <2>1. ASSUME NEW b \in Nat PROVE Value(f, a, b) \in Nat
    <3>1. a \div 2 \in Nat /\ b \div 2 \in Nat /\ (a + b) % 2 \in Nat
      BY Halves
    <3>2. a # 0 => f[a \div 2] \in V
      BY <1>10, <3>1, Halves
    <3>3. a # 0 => f[a \div 2][b \div 2] \in Nat
      BY <3>1, <3>2
    <3> DEFINE q == f[a \div 2][b \div 2]
               r == (a + b) % 2
    <3>4. Value(f, a, b) = IF a = 0 THEN b ELSE 2 * q + r
      OBVIOUS
    <3> HIDE DEF Value, q, r
    <3>5. (a # 0 => q \in Nat) /\ r \in Nat
      BY <3>1, <3>3 DEF q, r
    <3>6. CASE a = 0
      BY <3>4, <3>6
    <3>7. CASE a # 0
      <4>1. Value(f, a, b) = 2 * q + r
        BY <3>4, <3>7
      <4>2. 2 * q + r \in Nat
        <5>1. q \in Nat /\ r \in Nat
          BY <3>5, <3>7
        <5> QED BY <5>1
      <4> QED BY <4>1, <4>2
    <3> QED BY <3>6, <3>7
  <2>2. Body(f, a) \in V
    <3> HIDE DEF Value
    <3> QED BY <2>1
  <2> HIDE DEF Body, V
  <2> QED BY <1>8, <2>2
<1>11. Nat \subseteq S
  <2>1. m \in [Nat -> Nat]
    OBVIOUS
  <2> HIDE DEF m, S
  <2> QED BY <1>10, <2>1, ByMeasure
<1>12. f \in [Nat -> V]
  <2> HIDE DEF Body, V
  <2> QED BY <1>7, <1>11
<1> QED BY <1>6, <1>9, <1>12

LEMMA XorStep ==
    \A a, b \in Nat :
        /\ Xor[a][b] \in Nat
        /\ Xor[a][b] = 2 * Xor[a \div 2][b \div 2] + ((a + b) % 2)
<1> SUFFICES ASSUME NEW a \in Nat, NEW b \in Nat
             PROVE  /\ Xor[a][b] \in Nat
                    /\ Xor[a][b] = 2 * Xor[a \div 2][b \div 2] + ((a + b) % 2)
  OBVIOUS
<1>1. Xor[a][b] \in Nat
  BY XorSolved
<1>2. CASE a = 0
  <2>1. a \div 2 = 0 /\ b \div 2 \in Nat /\ a + b = b
    BY <1>2, Halves
  <2>2. Xor[0][b] = b /\ Xor[0][b \div 2] = b \div 2
    BY <2>1, XorSolved
  <2>3. b = 2 * (b \div 2) + (b % 2)
    BY Halves
  <2> QED BY <1>1, <1>2, <2>1, <2>2, <2>3
<1>3. CASE a # 0
  BY <1>1, <1>3, XorSolved
<1> QED BY <1>2, <1>3

LEMMA BelowDouble ==
    \A a, t \in Nat : a < 2 * t => a \div 2 < t
OBVIOUS

\* ^ of numbers of so many bits is one of so many bits.
LEMMA XorBelow ==
    \A h \in Nat : \A a, b \in 0..(TwoTo[h] - 1) : Xor[a][b] \in 0..(TwoTo[h] - 1)
<1> DEFINE S == {h \in Nat : \A a, b \in Nat : a < TwoTo[h] /\ b < TwoTo[h] => Xor[a][b] < TwoTo[h]}
<1>1. 0 \in S
  <2> SUFFICES ASSUME NEW a \in Nat, NEW b \in Nat, a < TwoTo[0], b < TwoTo[0]
               PROVE  Xor[a][b] < TwoTo[0]
    OBVIOUS
  <2>1. a = 0 /\ b = 0 /\ TwoTo[0] = 1
    BY TwoToSteps
  <2> QED BY <2>1, XorSolved
<1>2. ASSUME NEW h \in Nat, h \in S PROVE h + 1 \in S
  <2> SUFFICES ASSUME NEW a \in Nat, NEW b \in Nat, a < TwoTo[h + 1], b < TwoTo[h + 1]
               PROVE  Xor[a][b] < TwoTo[h + 1]
    OBVIOUS
  <2> DEFINE t == TwoTo[h]
             x == Xor[a \div 2][b \div 2]
  <2>1. t \in Nat /\ TwoTo[h + 1] = 2 * t
    BY TwoToSteps
  <2>2. a \div 2 \in Nat /\ b \div 2 \in Nat /\ a \div 2 < t /\ b \div 2 < t
    BY <2>1, Halves, BelowDouble
  <2>3. x < t /\ x \in Nat
    BY <1>2, <2>2, XorStep
  <2>4. Xor[a][b] = 2 * x + ((a + b) % 2) /\ (a + b) % 2 \in {0, 1}
    <3>1. (a + b) % 2 \in {0, 1}
      <4>1. a + b \in Nat
        OBVIOUS
      <4> QED BY <4>1, Halves
    <3> QED BY <3>1, XorStep
  <2> HIDE DEF t, x
  <2> QED BY <2>1, <2>3, <2>4
<1>3. Nat \subseteq S
  <2> HIDE DEF S
  <2> QED BY <1>1, <1>2, NatIsAll
<1> SUFFICES ASSUME NEW h \in Nat, NEW a \in 0..(TwoTo[h] - 1), NEW b \in 0..(TwoTo[h] - 1)
             PROVE  Xor[a][b] \in 0..(TwoTo[h] - 1)
  OBVIOUS
<1>4. TwoTo[h] \in Nat /\ a \in Nat /\ b \in Nat /\ a < TwoTo[h] /\ b < TwoTo[h]
  BY TwoToSteps
<1>5. Xor[a][b] < TwoTo[h] /\ Xor[a][b] \in Nat
  BY <1>3, <1>4, XorStep
<1> QED BY <1>4, <1>5

LEMMA SameBits ==
    \A a, b, c \in Nat : (a + c) % 2 = (b + c) % 2 => a % 2 = b % 2
OBVIOUS

LEMMA SameDouble ==
    \A x, y \in Nat : \A d, e \in {0, 1} : 2 * x + d = 2 * y + e => x = y /\ d = e
OBVIOUS

\* Different numbers stay different under ^ with the same third.
LEMMA XorInjective ==
    \A a, b, c \in Nat : Xor[a][c] = Xor[b][c] => a = b
<1> DEFINE S == {h \in Nat : \A a, b, c \in Nat :
                    a < TwoTo[h] /\ b < TwoTo[h] /\ Xor[a][c] = Xor[b][c] => a = b}
<1>1. 0 \in S
  BY TwoToSteps
<1>2. ASSUME NEW h \in Nat, h \in S PROVE h + 1 \in S
  <2> SUFFICES ASSUME NEW a \in Nat, NEW b \in Nat, NEW c \in Nat,
                      a < TwoTo[h + 1], b < TwoTo[h + 1], Xor[a][c] = Xor[b][c]
               PROVE  a = b
    OBVIOUS
  <2> DEFINE x == Xor[a \div 2][c \div 2]
             y == Xor[b \div 2][c \div 2]
  <2>1. TwoTo[h] \in Nat /\ TwoTo[h + 1] = 2 * TwoTo[h]
    BY TwoToSteps
  <2>2. a \div 2 \in Nat /\ b \div 2 \in Nat /\ c \div 2 \in Nat
        /\ a \div 2 < TwoTo[h] /\ b \div 2 < TwoTo[h]
    BY <2>1, Halves, BelowDouble
  <2>3. x \in Nat /\ y \in Nat
    BY <2>2, XorStep
  <2>4. 2 * x + ((a + c) % 2) = 2 * y + ((b + c) % 2)
    <3>1. Xor[a][c] = 2 * x + ((a + c) % 2) /\ Xor[b][c] = 2 * y + ((b + c) % 2)
      BY XorStep
    <3> HIDE DEF x, y
    <3> QED BY <3>1
  <2>5. (a + c) % 2 \in {0, 1} /\ (b + c) % 2 \in {0, 1}
    <3>1. a + c \in Nat /\ b + c \in Nat
      OBVIOUS
    <3> QED BY <3>1, Halves
  <2>6. x = y /\ (a + c) % 2 = (b + c) % 2
    <3> HIDE DEF x, y
    <3> QED BY <2>3, <2>4, <2>5, SameDouble
  <2>7. a \div 2 = b \div 2 /\ a % 2 = b % 2
    BY <1>2, <2>2, <2>6, SameBits
  <2> QED BY <2>7, Halves
<1>3. Nat \subseteq S
  <2> HIDE DEF S
  <2> QED BY <1>1, <1>2, NatIsAll
<1> SUFFICES ASSUME NEW a \in Nat, NEW b \in Nat, NEW c \in Nat, Xor[a][c] = Xor[b][c] PROVE a = b
  OBVIOUS
<1>4. a + b \in Nat /\ TwoTo[a + b] \in Nat /\ TwoTo[a + b] > a + b
  BY TwoToGrows
<1>5. a < TwoTo[a + b] /\ b < TwoTo[a + b]
  BY <1>4
<1> QED BY <1>3, <1>4, <1>5

-------------------------------------------------------------------------------
\* The bits of a row number: as few as count to n.
LEMMA BitsAre ==
    ASSUME NEW n \in Nat
    PROVE  /\ Bits(n) \in Nat /\ TwoTo[Bits(n)] >= n
           /\ Bits(n) = 0 \/ (Bits(n) - 1 \in Nat /\ TwoTo[Bits(n) - 1] < n)
<1> DEFINE S == {b \in Nat : TwoTo[b] >= n}
           Fit(b) == TwoTo[b] >= n /\ (b = 0 \/ TwoTo[b - 1] < n)
<1>1. n \in S
  BY TwoToGrows
<1>2. PICK b \in S : \A c \in S : b <= c
  <2>1. S \subseteq Nat /\ S # {}
    BY <1>1
  <2> HIDE DEF S
  <2> QED BY <2>1, SmallestNat
<1>3. b \in 0..n
  BY <1>1, <1>2
<1>4. b # 0 => TwoTo[b - 1] < n
  <2> SUFFICES ASSUME b # 0 PROVE TwoTo[b - 1] < n
    OBVIOUS
  <2>1. b - 1 \in Nat /\ ~(b <= b - 1)
    BY <1>2
  <2>2. b - 1 \notin S
    <3> HIDE DEF S
    <3> QED BY <1>2, <2>1
  <2>3. TwoTo[b - 1] \in Nat
    BY <2>1, TwoToSteps
  <2> QED BY <2>1, <2>2, <2>3
<1>5. Fit(b)
  BY <1>2, <1>4
<1>6. Bits(n) = CHOOSE k \in 0..n : Fit(k)
  BY DEF Bits
<1>7. Bits(n) \in 0..n /\ Fit(Bits(n))
  <2> HIDE DEF Fit
  <2> QED BY <1>3, <1>5, <1>6
<1> QED BY <1>7

LEMMA LargerOfTwo == ASSUME NEW k \in Nat PROVE Max({1, k}) \in {1, k} /\ Max({1, k}) >= 1 /\ Max({1, k}) >= k
<1>1. \E x \in {1, k} : \A y \in {1, k} : x >= y
  <2>1. CASE k >= 1
    BY <2>1
  <2>2. CASE k < 1
    BY <2>2
  <2> QED BY <2>1, <2>2
<1> QED BY <1>1 DEF Max

\* Half of the bits, rounded up: two halves count to n, one half not beyond.
LEMMA HalfBitsAre ==
    ASSUME NEW n \in Nat, n >= 2
    PROVE  /\ HalfBits(n) \in Nat
           /\ TwoTo[HalfBits(n)] \in 1..n
           /\ TwoTo[HalfBits(n)] * TwoTo[HalfBits(n)] >= n
<1> DEFINE b == Bits(n)
           k == (b + 1) \div 2
           h == HalfBits(n)
<1>1. b \in Nat /\ TwoTo[b] >= n /\ (b = 0 \/ (b - 1 \in Nat /\ TwoTo[b - 1] < n))
  BY BitsAre
<1>2. h = Max({1, k})
  BY DEF HalfBits
<1> HIDE DEF b
<1>3. k \in Nat /\ 2 * k >= b /\ 2 * k <= b + 1
  BY <1>1
<1> HIDE DEF k
<1>4. h \in {1, k} /\ h >= 1 /\ h >= k
  BY <1>2, <1>3, LargerOfTwo
<1>5. h \in Nat /\ h + h >= b
  BY <1>1, <1>3, <1>4
<1>6. TwoTo[h] \in Nat /\ TwoTo[h] >= 1
  BY <1>5, TwoToGrows
<1>7. TwoTo[h] <= n
  <2>1. CASE h = 1
    <3>1. TwoTo[0 + 1] = 2 * TwoTo[0] /\ TwoTo[0] = 1 /\ 0 + 1 = 1
      BY TwoToSteps
    <3> QED BY <2>1, <3>1
  <2>2. CASE h # 1
    <3>1. b # 0 /\ h <= b - 1
      BY <1>1, <1>3, <1>4, <1>5, <2>2
    <3>2. b - 1 \in Nat /\ TwoTo[h] <= TwoTo[b - 1] /\ TwoTo[b - 1] < n
      BY <1>1, <1>5, <3>1, TwoToMonotone
    <3>3. TwoTo[b - 1] \in Nat
      BY <3>2, TwoToSteps
    <3> QED BY <1>6, <3>2, <3>3
  <2> QED BY <2>1, <2>2
<1>8. TwoTo[h] * TwoTo[h] >= n
  <2>1. TwoTo[h + h] = TwoTo[h] * TwoTo[h]
    BY <1>5, TwoToSum
  <2>2. h + h \in Nat /\ TwoTo[b] <= TwoTo[h + h]
    BY <1>1, <1>5, TwoToMonotone
  <2>3. TwoTo[b] \in Nat /\ TwoTo[h + h] \in Nat
    BY <1>1, <2>2, TwoToSteps
  <2>4. TwoTo[h + h] >= n
    BY <1>1, <2>2, <2>3
  <2> QED BY <2>1, <2>4
<1> HIDE DEF h
<1> QED BY <1>5, <1>6, <1>7, <1>8 DEF h

-------------------------------------------------------------------------------
\* round_function is asked about halves of a row number only.
Mixes(n) == \A half \in 0..n, round \in 0..3 : Mixed(half, plan.seed, round) \in Nat

\* Both halves of a number below size * size.
Halved(size) == [left : 0..(size - 1), right : 0..(size - 1)]

\* A number below n is its own remainder.
LEMMA RemainderOfSmall == \A n \in Nat : \A i \in 0..(n - 1) : i % n = i
OBVIOUS

LEMMA RemainderBelow == \A a \in Nat : \A k \in Nat : k >= 1 => a % k \in 0..(k - 1)
OBVIOUS

\* A round keeps halves apart.
LEMMA RoundInjective ==
    ASSUME NEW n \in Nat, Mixes(n), NEW h \in Nat, TwoTo[h] \in 1..n, NEW round \in 0..3,
           NEW s \in Halved(TwoTo[h])
    PROVE  /\ Round(s, round, TwoTo[h]) \in Halved(TwoTo[h])
           /\ \A t \in Halved(TwoTo[h]) : Round(s, round, TwoTo[h]) = Round(t, round, TwoTo[h]) => s = t
<1> DEFINE size == TwoTo[h]
           Key(right) == Xor[Mixed(right, plan.seed, round)][round] % size
<1>0. size \in Nat /\ size >= 1 /\ size <= n
  BY TwoToSteps
<1>1. ASSUME NEW t \in Halved(size)
      PROVE  /\ t.left \in 0..(size - 1) /\ t.right \in 0..(size - 1)
             /\ t.left \in Nat /\ t.right \in Nat
             /\ Key(t.right) \in 0..(size - 1)
             /\ Round(t, round, size) = [left |-> t.right, right |-> Xor[t.left][Key(t.right)]]
  <2>1. t.left \in 0..(size - 1) /\ t.right \in 0..(size - 1)
    BY DEF Halved
  <2>2. t.right \in 0..n /\ t.left \in Nat /\ t.right \in Nat /\ round \in Nat
    BY <1>0, <2>1
  <2>3. Mixed(t.right, plan.seed, round) \in Nat
    BY <2>2 DEF Mixes
  <2>4. Xor[Mixed(t.right, plan.seed, round)][round] \in Nat
    BY <2>2, <2>3, XorStep
  <2> DEFINE x == Xor[Mixed(t.right, plan.seed, round)][round]
  <2>5. x % size \in 0..(size - 1)
    <3> HIDE DEF x, size
    <3> QED BY <1>0, <2>4, RemainderBelow DEF x
  <2>6. Round(t, round, size) = [left |-> t.right, right |-> Xor[t.left][Key(t.right)]]
    BY DEF Round
  <2> QED BY <2>1, <2>2, <2>5, <2>6
<1>2. ASSUME NEW t \in Halved(size)
      PROVE  Xor[t.left][Key(t.right)] \in 0..(size - 1)
  <2> HIDE DEF Key
  <2> QED BY <1>1, XorBelow
<1> HIDE DEF Key
<1>3. Round(s, round, size) \in Halved(size)
  <2> DEFINE x == Xor[s.left][Key(s.right)]
  <2>1. s \in Halved(size)
    OBVIOUS
  <2>2. /\ s.right \in 0..(size - 1) /\ x \in 0..(size - 1)
        /\ Round(s, round, size) = [left |-> s.right, right |-> x]
    BY <1>1, <1>2, <2>1
  <2> HIDE DEF size, x
  <2> QED BY <2>2 DEF Halved
<1>4. ASSUME NEW t \in Halved(size), Round(s, round, size) = Round(t, round, size) PROVE s = t
  <2>1. /\ [left |-> s.right, right |-> Xor[s.left][Key(s.right)]]
             = [left |-> t.right, right |-> Xor[t.left][Key(t.right)]]
        /\ s \in Halved(size)
    BY <1>1, <1>4
  <2>2. s.right = t.right /\ Xor[s.left][Key(s.right)] = Xor[t.left][Key(t.right)]
    BY <2>1
  <2>3. s.left \in Nat /\ t.left \in Nat /\ Key(s.right) \in Nat
    BY <1>0, <1>1, <2>1
  <2>4. s.left = t.left
    BY <2>2, <2>3, XorInjective
  <2> QED BY <2>1, <2>2, <2>4 DEF Halved
<1> QED BY <1>3, <1>4

LEMMA ProductGrows == \A a, b, k \in Nat : a <= b => a * k <= b * k
OBVIOUS

LEMMA SplitNumber ==
    ASSUME NEW k \in Nat, k >= 1, NEW v \in 0..(k * k - 1)
    PROVE  /\ v \div k \in 0..(k - 1) /\ v % k \in 0..(k - 1) /\ (v \div k) % k = v \div k
           /\ v = k * (v \div k) + (v % k)
<1> DEFINE q == v \div k
           r == v % k
<1>1. q \in Nat /\ r \in 0..(k - 1) /\ v = k * q + r /\ v \in Nat
  OBVIOUS
<1>2. v < k * k
  OBVIOUS
<1> HIDE DEF q, r
<1>3. q < k
  <2> SUFFICES ASSUME k <= q PROVE FALSE
    BY <1>1
  <2>1. k * k <= q * k
    BY <1>1, ProductGrows
  <2>2. q * k = k * q /\ q * k \in Nat /\ k * k \in Nat
    BY <1>1
  <2> QED BY <1>1, <1>2, <2>1, <2>2
<1>4. \A x \in 0..(k - 1) : x % k = x
  OBVIOUS
<1>5. q \in 0..(k - 1) /\ q % k = q
  BY <1>1, <1>3, <1>4
<1> QED BY <1>1, <1>5 DEF q, r

LEMMA JoinNumber ==
    ASSUME NEW k \in Nat, k >= 1, NEW l \in 0..(k - 1), NEW r \in 0..(k - 1)
    PROVE  /\ l * k + r \in 0..(k * k - 1)
           /\ (l * k + r) \div k = l /\ (l * k + r) % k = r
<1>1. l \in Nat /\ r \in Nat /\ l + 1 \in Nat /\ l + 1 <= k
  OBVIOUS
<1>2. (l + 1) * k <= k * k
  BY <1>1, ProductGrows
<1>3. (l + 1) * k = l * k + k
  BY <1>1
<1> QED BY <1>1, <1>2, <1>3

\* permute_index's network takes the numbers of so many bits to each other, no two to
\* the same.
LEMMA FeistelPermutes ==
    ASSUME NEW n \in Nat, Mixes(n), NEW h \in Nat, TwoTo[h] \in 1..n,
           NEW v \in 0..(TwoTo[h] * TwoTo[h] - 1)
    PROVE  /\ Feistel(v, h) \in 0..(TwoTo[h] * TwoTo[h] - 1)
           /\ \A w \in 0..(TwoTo[h] * TwoTo[h] - 1) : Feistel(v, h) = Feistel(w, h) => v = w
<1> DEFINE size == TwoTo[h]
           D == 0..(size * size - 1)
           R0(u) == [left |-> (u \div size) % size, right |-> u % size]
           R1(u) == Round(R0(u), 0, size)
           R2(u) == Round(R1(u), 1, size)
           R3(u) == Round(R2(u), 2, size)
           R4(u) == Round(R3(u), 3, size)
           P == Halved(size)
<1>0. size \in Nat /\ size >= 1 /\ 0 \in 0..3 /\ 1 \in 0..3 /\ 2 \in 0..3 /\ 3 \in 0..3
  BY TwoToSteps
<1>1. \A u : Feistel(u, h) = R4(u).left * size + R4(u).right
  BY DEF Feistel
<1>2. ASSUME NEW u \in D PROVE R0(u) \in P /\ R0(u).left = u \div size /\ R0(u).right = u % size
                               /\ u = size * (u \div size) + (u % size)
  <2> DEFINE q == u \div size
             r == u % size
  <2>1. q \in 0..(size - 1) /\ r \in 0..(size - 1) /\ q % size = q /\ u = size * q + r
    <3> HIDE DEF size
    <3> QED BY <1>0, SplitNumber
  <2>2. R0(u) = [left |-> q % size, right |-> r]
    OBVIOUS
  <2> HIDE DEF size, q, r, R0
  <2>3. R0(u) \in P /\ R0(u).left = q /\ R0(u).right = r
    BY <2>1, <2>2 DEF Halved
  <2> QED BY <2>1, <2>3 DEF q, r
<1>3. ASSUME NEW i \in 0..3, NEW s \in P PROVE Round(s, i, size) \in P
  BY <1>3, RoundInjective
<1>4. ASSUME NEW i \in 0..3, NEW s \in P, NEW t \in P, Round(s, i, size) = Round(t, i, size) PROVE s = t
  BY <1>4, RoundInjective
<1> HIDE DEF P, size, R0
<1>5. ASSUME NEW u \in D PROVE R1(u) \in P /\ R2(u) \in P /\ R3(u) \in P /\ R4(u) \in P
  <2>1. R1(u) \in P
    BY <1>0, <1>2, <1>3
  <2> HIDE DEF R1
  <2>2. R2(u) \in P
    BY <1>0, <2>1, <1>3
  <2> HIDE DEF R2
  <2>3. R3(u) \in P
    BY <1>0, <2>2, <1>3
  <2> HIDE DEF R3
  <2>4. R4(u) \in P
    BY <1>0, <2>3, <1>3
  <2> QED BY <2>1, <2>2, <2>3, <2>4
<1>6. ASSUME NEW u \in D, NEW w \in D, R4(u) = R4(w) PROVE u = w
  <2>1. R3(u) = R3(w)
    <3> HIDE DEF R3
    <3> QED BY <1>0, <1>4, <1>5, <1>6
  <2>2. R2(u) = R2(w)
    <3> HIDE DEF R2
    <3> QED BY <1>0, <1>4, <1>5, <2>1
  <2>3. R1(u) = R1(w)
    <3> HIDE DEF R1
    <3> QED BY <1>0, <1>4, <1>5, <2>2
  <2>4. R0(u) = R0(w)
    BY <1>0, <1>2, <1>4, <2>3
  <2>5. u \div size = w \div size /\ u % size = w % size
    BY <1>2, <2>4
  <2> QED BY <1>2, <2>5
<1>7. ASSUME NEW s \in P
      PROVE  /\ s.left * size + s.right \in D
             /\ s = [left |-> (s.left * size + s.right) \div size,
                     right |-> (s.left * size + s.right) % size]
  <2>1. s.left \in 0..(size - 1) /\ s.right \in 0..(size - 1) /\ s = [left |-> s.left, right |-> s.right]
    BY DEF P, Halved
  <2> QED BY <1>0, <2>1, JoinNumber
<1> HIDE DEF R4
<1>8. \A u \in D : Feistel(u, h) \in D
  BY <1>1, <1>5, <1>7
<1>9. ASSUME NEW u \in D, NEW w \in D, Feistel(u, h) = Feistel(w, h) PROVE u = w
  <2>1. R4(u) \in P /\ R4(w) \in P
    BY <1>5
  <2>2. R4(u).left * size + R4(u).right = R4(w).left * size + R4(w).right
    BY <1>1, <1>9
  <2>3. R4(u) = R4(w)
    BY <1>7, <2>1, <2>2
  <2> QED BY <1>6, <2>3
<1>10. D = 0..(TwoTo[h] * TwoTo[h] - 1)
  BY DEF size
<1> HIDE DEF D
<1> QED BY <1>8, <1>9, <1>10

-------------------------------------------------------------------------------
(* The cycle walk: from i, again and again through a permutation of D, until *)
(* it comes to a number below n.                                             *)

\* Sets that hold i and, with a number, the next one if that is not below n.
Closed(F, D, n, i) ==
    {C \in SUBSET D : i \in C /\ \A u \in C : F[u] >= n => F[u] \in C}

Walked(F, D, n, i) == {v \in D : \A C \in Closed(F, D, n, i) : v \in C}

Permutes(F, D, n) ==
    /\ n \in Nat /\ D \subseteq Nat /\ 0..(n - 1) \subseteq D
    /\ F \in [D -> D]
    /\ \A u, v \in D : F[u] = F[v] => u = v

LEMMA WalkedSteps ==
    ASSUME NEW F, NEW D, NEW n, Permutes(F, D, n), NEW i \in D
    PROVE  /\ i \in Walked(F, D, n, i) /\ Walked(F, D, n, i) \subseteq D
           /\ \A u \in Walked(F, D, n, i) : F[u] >= n => F[u] \in Walked(F, D, n, i)
           /\ \A C \in SUBSET D : i \in C /\ (\A u \in C : F[u] >= n => F[u] \in C)
                 => Walked(F, D, n, i) \subseteq C
<1>1. F \in [D -> D]
  BY DEF Permutes
<1> QED BY <1>1 DEF Walked, Closed

\* Each number on a walk but its first has one before it, and is not below n.
LEMMA WalkedBefore ==
    ASSUME NEW F, NEW D, NEW n, Permutes(F, D, n), NEW i \in D, NEW v \in Walked(F, D, n, i), v # i
    PROVE  v >= n /\ \E u \in Walked(F, D, n, i) : F[u] = v
<1> DEFINE W == Walked(F, D, n, i)
           C == {i} \cup {x \in W : x >= n /\ \E u \in W : F[u] = x}
<1>1. i \in W /\ W \subseteq D /\ \A u \in W : F[u] >= n => F[u] \in W
  BY WalkedSteps
<1> HIDE DEF W
<1>2. C \subseteq D /\ i \in C /\ C \subseteq W
  BY <1>1
<1>3. \A u \in C : F[u] >= n => F[u] \in C
  BY <1>1, <1>2
<1> HIDE DEF C
<1>4. W \subseteq C
  BY <1>2, <1>3, WalkedSteps DEF W
<1>5. v \in C
  BY <1>4 DEF W
<1> QED BY <1>5 DEF C, W

\* Walks from different numbers below n do not meet.
LEMMA WalksApart ==
    ASSUME NEW F, NEW D, NEW n, Permutes(F, D, n),
           NEW i \in 0..(n - 1), NEW j \in 0..(n - 1), i # j
    PROVE  Walked(F, D, n, i) \cap Walked(F, D, n, j) = {}
<1> DEFINE Wi == Walked(F, D, n, i)
           Wj == Walked(F, D, n, j)
           C == Wi \ Wj
<1>0. i \in D /\ j \in D /\ ~(i >= n) /\ ~(j >= n)
  BY DEF Permutes
<1>1. i \in Wi /\ Wi \subseteq D /\ \A u \in Wi : F[u] >= n => F[u] \in Wi
  BY <1>0, WalkedSteps
<1>2. Wj \subseteq D /\ \A v \in Wj : v # j => v >= n /\ \E u \in Wj : F[u] = v
  BY <1>0, WalkedSteps, WalkedBefore
<1>3. \A u, v \in D : F[u] = F[v] => u = v
  BY DEF Permutes
<1>4. \A C2 \in SUBSET D : i \in C2 /\ (\A u \in C2 : F[u] >= n => F[u] \in C2) => Wi \subseteq C2
  BY <1>0, WalkedSteps
<1> HIDE DEF Wi, Wj
<1>5. i \in C
  BY <1>0, <1>1, <1>2
<1>6. ASSUME NEW u \in C, F[u] >= n PROVE F[u] \in C
  <2>1. F[u] \in Wi
    BY <1>1, <1>6
  <2>2. F[u] \notin Wj
    <3> SUFFICES ASSUME F[u] \in Wj PROVE FALSE
      OBVIOUS
    <3>1. F[u] # j
      BY <1>0, <1>6
    <3>2. PICK w \in Wj : F[w] = F[u]
      BY <1>2, <3>1
    <3>3. w = u
      BY <1>1, <1>2, <1>3, <3>2
    <3> QED BY <3>3
  <2> QED BY <2>1, <2>2
<1>7. C \in SUBSET D
  BY <1>1
<1>8. Wi \subseteq C
  <2> HIDE DEF C
  <2> QED BY <1>4, <1>5, <1>6, <1>7
<1> QED BY <1>8 DEF Wi, Wj

\* A walk comes below n in one place only.
LEMMA WalkEndsOnce ==
    ASSUME NEW F, NEW D, NEW n, Permutes(F, D, n), NEW i \in D,
           NEW u \in Walked(F, D, n, i), NEW v \in Walked(F, D, n, i), ~(F[u] >= n), ~(F[v] >= n)
    PROVE  u = v
<1> DEFINE W(x) == Walked(F, D, n, x)
           C == {x \in D : u \in W(x)}
<1>0. u \in D /\ v \in D /\ F \in [D -> D]
  BY WalkedSteps DEF Permutes
<1>1. i \in C
  OBVIOUS
<1>2. ASSUME NEW x \in C, F[x] >= n PROVE F[x] \in C
  <2> DEFINE y == F[x]
             E == {x} \cup W(y)
  <2>1. x \in D /\ y \in D /\ u \in W(x) /\ u # x
    BY <1>0, <1>2
  <2>2. y \in W(y) /\ W(y) \subseteq D /\ \A z \in W(y) : F[z] >= n => F[z] \in W(y)
    BY <2>1, WalkedSteps
  <2>3. E \in SUBSET D /\ x \in E /\ \A z \in E : F[z] >= n => F[z] \in E
    <3> HIDE DEF W
    <3> QED BY <2>1, <2>2
  <2>4. W(x) \subseteq E
    <3> HIDE DEF E
    <3> QED BY <2>1, <2>3, WalkedSteps
  <2>5. u \in W(y)
    <3> HIDE DEF W
    <3> QED BY <2>1, <2>4
  <2> QED BY <2>1, <2>5
<1>3. C \in SUBSET D
  OBVIOUS
<1>4. W(i) \subseteq C
  <2> HIDE DEF C
  <2> QED BY <1>1, <1>2, <1>3, WalkedSteps
<1>5. u \in W(v)
  <2> HIDE DEF W
  <2> QED BY <1>4 DEF W
<1>6. W(v) \subseteq {v}
  <2>1. {v} \in SUBSET D /\ v \in {v} /\ \A z \in {v} : F[z] >= n => F[z] \in {v}
    BY <1>0
  <2> QED BY <1>0, <2>1, WalkedSteps
<1> HIDE DEF W
<1> QED BY <1>5, <1>6

\* A walk that began below n does not come back to a number it has left.
LEMMA WalkNeverReturns ==
    ASSUME NEW F, NEW D, NEW n, Permutes(F, D, n), NEW i \in 0..(n - 1),
           NEW v \in Walked(F, D, n, i), F[v] >= n
    PROVE  Walked(F, D, n, F[v]) \subseteq Walked(F, D, n, v) \ {v}
<1> DEFINE y == F[v]
           W(x) == Walked(F, D, n, x)
           C == W(i) \ W(y)
<1>0. /\ F \in [D -> D] /\ \A u, w \in D : F[u] = F[w] => u = w
      /\ i \in D /\ ~(i >= n)
  BY DEF Permutes
<1>1. v \in D /\ y \in D /\ y >= n
  BY <1>0, WalkedSteps
<1>2. /\ i \in W(i) /\ W(i) \subseteq D /\ \A u \in W(i) : F[u] >= n => F[u] \in W(i)
      /\ \A B \in SUBSET D : i \in B /\ (\A u \in B : F[u] >= n => F[u] \in B) => W(i) \subseteq B
  BY <1>0, WalkedSteps
<1>3. /\ y \in W(y) /\ W(y) \subseteq D
      /\ \A B \in SUBSET D : y \in B /\ (\A u \in B : F[u] >= n => F[u] \in B) => W(y) \subseteq B
  BY <1>1, WalkedSteps
<1>4. \A z \in W(y) : z >= n /\ (z # y => \E u \in W(y) : F[u] = z)
  BY <1>1, WalkedBefore
<1>5. v \in W(v) /\ W(v) \subseteq D /\ \A u \in W(v) : F[u] >= n => F[u] \in W(v)
  BY <1>1, WalkedSteps
<1>6. v \in W(i)
  OBVIOUS
<1> HIDE DEF W
<1>7. W(y) \subseteq W(v)
  <2>1. y \in W(v)
    BY <1>1, <1>5
  <2> QED BY <1>3, <1>5, <2>1
<1>8. v \notin W(y)
  <2> SUFFICES ASSUME v \in W(y) PROVE FALSE
    OBVIOUS
  <2>1. i \in C
    BY <1>0, <1>2, <1>4
  <2>2. ASSUME NEW u \in C, F[u] >= n PROVE F[u] \in C
    <3>1. u \in D /\ F[u] \in W(i)
      BY <1>2, <2>2
    <3>2. F[u] \notin W(y)
      <4> SUFFICES ASSUME F[u] \in W(y) PROVE FALSE
        OBVIOUS
      <4>1. \E w \in W(y) : F[w] = F[u]
        BY <1>4
      <4> QED BY <1>0, <1>3, <3>1, <4>1
    <3> QED BY <3>1, <3>2
  <2>3. C \in SUBSET D
    BY <1>2
  <2>4. W(i) \subseteq C
    <3> HIDE DEF C
    <3> QED BY <1>2, <2>1, <2>2, <2>3
  <2> QED BY <1>6, <2>4
<1> QED BY <1>7, <1>8 DEF W

-------------------------------------------------------------------------------
(* Turns: which row comes to which number, and how often after x queries.    *)

Turns(i, x, n) == (x \div n) + (IF i < x % n THEN 1 ELSE 0)

LEMMA NextQuotient ==
    ASSUME NEW n \in Nat, n >= 1, NEW x \in Nat
    PROVE  /\ x \div n \in Nat /\ x % n \in 0..(n - 1)
           /\ (x % n) + 1 < n => ((x + 1) \div n) = (x \div n) /\ ((x + 1) % n) = (x % n) + 1
           /\ (x % n) + 1 = n => (x + 1) \div n = (x \div n) + 1 /\ (x + 1) % n = 0
<1> DEFINE q == x \div n
           r == x % n
<1>1. q \in Nat /\ r \in 0..(n - 1) /\ x = n * q + r
  OBVIOUS
<1> HIDE DEF q, r
<1>2. ASSUME r + 1 < n PROVE (x + 1) \div n = q /\ (x + 1) % n = r + 1
  <2>1. x + 1 = n * q + (r + 1) /\ r + 1 \in 0..(n - 1)
    BY <1>1, <1>2
  <2>2. \A l \in Nat : \A k \in 0..(n - 1) : (n * l + k) \div n = l /\ (n * l + k) % n = k
    OBVIOUS
  <2> QED BY <1>1, <2>1, <2>2
<1>3. ASSUME r + 1 = n PROVE (x + 1) \div n = q + 1 /\ (x + 1) % n = 0
  <2>1. n * (q + 1) = n * q + n
    BY <1>1
  <2>2. x + 1 = n * (q + 1) + 0 /\ 0 \in 0..(n - 1) /\ q + 1 \in Nat
    BY <1>1, <1>3, <2>1
  <2>3. \A l \in Nat : \A k \in 0..(n - 1) : (n * l + k) \div n = l /\ (n * l + k) % n = k
    OBVIOUS
  <2> QED BY <2>2, <2>3
<1> QED BY <1>1, <1>2, <1>3 DEF q, r

LEMMA TurnsNext ==
    ASSUME NEW n \in Nat, n >= 1, NEW x \in Nat, NEW i \in 0..(n - 1)
    PROVE  /\ Turns(i, x, n) \in Nat
           /\ Turns(i, x + 1, n) = IF i = x % n THEN Turns(i, x, n) + 1 ELSE Turns(i, x, n)
<1> DEFINE q == x \div n
           r == x % n
           q1 == (x + 1) \div n
           r1 == (x + 1) % n
<1>1. /\ q \in Nat /\ r \in 0..(n - 1)
      /\ r + 1 < n => q1 = q /\ r1 = r + 1
      /\ r + 1 = n => q1 = q + 1 /\ r1 = 0
  BY NextQuotient
<1>2. Turns(i, x, n) = q + (IF i < r THEN 1 ELSE 0) /\ Turns(i, x + 1, n) = q1 + (IF i < r1 THEN 1 ELSE 0)
  BY DEF Turns
<1> HIDE DEF q, r, q1, r1
<1>3. CASE r + 1 < n
  BY <1>1, <1>2, <1>3 DEF r
<1>4. CASE r + 1 = n
  BY <1>1, <1>2, <1>4 DEF r
<1> QED BY <1>1, <1>3, <1>4

LEMMA TurnsStart == ASSUME NEW n \in Nat, n >= 1, NEW i \in 0..(n - 1) PROVE Turns(i, 0, n) = 0
<1>1. 0 \div n = 0 /\ 0 % n = 0
  OBVIOUS
<1> QED BY <1>1 DEF Turns

\* After the same number of queries no turn is two ahead of another; before everybody
\* has had one, nobody has had two.
LEMMA TurnsEven ==
    ASSUME NEW n \in Nat, n >= 1, NEW x \in Nat, NEW i \in 0..(n - 1), NEW j \in 0..(n - 1)
    PROVE  /\ Turns(i, x, n) <= Turns(j, x, n) + 1
           /\ x <= n => Turns(i, x, n) <= 1
<1> DEFINE q == x \div n
           r == x % n
<1>1. q \in Nat /\ r \in Nat
  BY NextQuotient
<1>2. x < n => q = 0
  OBVIOUS
<1>3. x = n => q = 1 /\ r = 0
  OBVIOUS
<1>4. Turns(i, x, n) = q + (IF i < r THEN 1 ELSE 0) /\ Turns(j, x, n) = q + (IF j < r THEN 1 ELSE 0)
  BY DEF Turns
<1> HIDE DEF q, r
<1>5. i \in Nat
  OBVIOUS
<1> QED BY <1>1, <1>2, <1>3, <1>4, <1>5

\* T says which row, of n, comes to which number below n: one to one.
OneToOne(T, n) ==
    /\ T \subseteq (0..(n - 1)) \X (1..n)
    /\ \A p, q \in T : p[1] = q[1] <=> p[2] = q[2]

\* What x queries leave: the rows of the numbers up to x are known, and each has had
\* its turns.
InTurn(T, n, count, x) ==
    /\ n \in Nat /\ n >= 1 /\ x \in Nat /\ OneToOne(T, n)
    /\ count \in [1..n -> Nat]
    /\ \A i \in 0..(n - 1) : i < x => \E r \in 1..n : <<i, r>> \in T
    /\ \A p \in T : count[p[2]] = Turns(p[1], x, n)
    /\ \A r \in 1..n : (\A p \in T : p[2] # r) => count[r] = 0

LEMMA InTurnStart ==
    ASSUME NEW n \in Nat, n >= 1, NEW T, OneToOne(T, n), NEW count \in [1..n -> Nat],
           \A r \in 1..n : count[r] = 0
    PROVE  InTurn(T, n, count, 0)
<1>1. \A p \in T : p[1] \in 0..(n - 1) /\ p[2] \in 1..n
  BY DEF OneToOne
<1>2. \A p \in T : count[p[2]] = Turns(p[1], 0, n)
  BY <1>1, TurnsStart
<1>3. \A i \in 0..(n - 1) : ~(i < 0)
  OBVIOUS
<1> QED BY <1>2, <1>3 DEF InTurn

LEMMA InTurnNext ==
    ASSUME NEW T, NEW n, NEW count, NEW x, InTurn(T, n, count, x), NEW r, <<x % n, r>> \in T
    PROVE  /\ r \in 1..n
           /\ InTurn(T, n, [count EXCEPT ![r] = @ + 1], x + 1)
<1> DEFINE c == [count EXCEPT ![r] = @ + 1]
           t == x % n
<1>0. n \in Nat /\ n >= 1 /\ x \in Nat /\ OneToOne(T, n) /\ count \in [1..n -> Nat]
  BY DEF InTurn
<1>1. r \in 1..n /\ t \in 0..(n - 1)
  BY <1>0 DEF OneToOne
<1>2. c \in [1..n -> Nat] /\ c[r] = count[r] + 1 /\ \A s \in 1..n : s # r => c[s] = count[s]
  BY <1>0, <1>1
<1>3. ASSUME NEW p \in T PROVE c[p[2]] = Turns(p[1], x + 1, n)
  <2> DEFINE i == p[1]
             s == p[2]
  <2>1. i \in 0..(n - 1) /\ s \in 1..n
    BY <1>0 DEF OneToOne
  <2>2. i = t <=> s = r
    <3> DEFINE q == <<t, r>>
    <3>1. q \in T /\ q[1] = t /\ q[2] = r
      OBVIOUS
    <3> HIDE DEF q
    <3> QED BY <1>0, <3>1 DEF OneToOne
  <2>3. count[s] = Turns(i, x, n)
    BY DEF InTurn
  <2>4. /\ Turns(i, x, n) \in Nat
        /\ Turns(i, x + 1, n) = IF i = t THEN Turns(i, x, n) + 1 ELSE Turns(i, x, n)
    BY <1>0, <2>1, TurnsNext
  <2> HIDE DEF i, s, t, c
  <2>5. c[s] = Turns(i, x + 1, n)
    BY <1>2, <2>1, <2>2, <2>3, <2>4
  <2> QED BY <2>5 DEF i, s
<1>4. ASSUME NEW s \in 1..n, \A p \in T : p[2] # s PROVE c[s] = 0
  <2>1. s # r
    <3> DEFINE q == <<t, r>>
    <3>1. q \in T /\ q[2] = r
      OBVIOUS
    <3> HIDE DEF q
    <3> QED BY <1>4, <3>1
  <2>2. count[s] = 0
    BY <1>4 DEF InTurn
  <2> HIDE DEF c
  <2> QED BY <1>2, <2>1, <2>2
<1>5. ASSUME NEW i \in 0..(n - 1), i < x + 1 PROVE \E s \in 1..n : <<i, s>> \in T
  <2>1. CASE i < x
    BY <2>1 DEF InTurn
  <2>2. CASE i = x
    <3>1. x % n = i
      BY <1>0, <2>2, RemainderOfSmall
    <3> QED BY <1>1, <3>1
  <2> QED BY <1>0, <1>5, <2>1, <2>2
<1>6. x + 1 \in Nat
  BY <1>0
<1> HIDE DEF c
<1>7. InTurn(T, n, c, x + 1)
  BY <1>0, <1>2, <1>3, <1>4, <1>5, <1>6 DEF InTurn
<1> QED BY <1>1, <1>7 DEF c

\* When every number has its row, every row has its number: there are as many.
LEMMA AllRowsComeUp ==
    ASSUME NEW T, NEW n \in Nat, OneToOne(T, n),
           \A i \in 0..(n - 1) : \E r \in 1..n : <<i, r>> \in T,
           NEW r \in 1..n
    PROVE  \E i \in 0..(n - 1) : <<i, r>> \in T
<1> DEFINE A == 0..(n - 1)
           B == 1..n
           g == [i \in A |-> CHOOSE s \in B : <<i, s>> \in T]
<1>1. \A i \in A : g[i] \in B /\ <<i, g[i]>> \in T
  OBVIOUS
<1>2. \A i, j \in A : \A s \in B : <<i, s>> \in T /\ <<j, s>> \in T => i = j
  <2> SUFFICES ASSUME NEW i, NEW j, NEW s, <<i, s>> \in T, <<j, s>> \in T PROVE i = j
    OBVIOUS
  <2> DEFINE p == <<i, s>>
             q == <<j, s>>
  <2>1. p \in T /\ q \in T /\ p[2] = s /\ q[2] = s /\ p[1] = i /\ q[1] = j
    OBVIOUS
  <2> HIDE DEF p, q
  <2> QED BY <2>1 DEF OneToOne
<1>3. g \in [A -> B]
  <2>1. \A i \in A : (CHOOSE s \in B : <<i, s>> \in T) \in B
    OBVIOUS
  <2> HIDE DEF A, B
  <2> QED BY <2>1
<1>4. IsFiniteSet(B) /\ Cardinality(A) = n /\ Cardinality(B) = n
  <2>1. Cardinality(0..(n - 1)) = n
    <3>1. Cardinality(0..(n - 1)) = IF 0 > n - 1 THEN 0 ELSE (n - 1) - 0 + 1
      BY FS_Interval
    <3> QED BY <3>1
  <2>2. IsFiniteSet(1..n) /\ Cardinality(1..n) = n
    <3>1. IsFiniteSet(1..n) /\ Cardinality(1..n) = IF 1 > n THEN 0 ELSE n - 1 + 1
      BY FS_Interval
    <3> QED BY <3>1
  <2> QED BY <2>1, <2>2
<1> HIDE DEF g, A, B
<1>5. g \in Injection(A, B)
  <2>1. \A i, j \in A : g[i] = g[j] => i = j
    BY <1>1, <1>2
  <2>2. DOMAIN g = A
    BY <1>3
  <2> QED BY <1>3, <2>1, <2>2 DEF Injection, IsInjective
<1>6. g \in Surjection(A, B)
  BY <1>4, <1>5, FS_Injection
<1>7. PICK i \in A : g[i] = r
  BY <1>6 DEF Surjection, B
<1> QED BY <1>1, <1>7 DEF A

\* So no row is two turns ahead of another.
LEMMA InTurnEven ==
    ASSUME NEW T, NEW n, NEW count, NEW x, InTurn(T, n, count, x), NEW r \in 1..n, NEW s \in 1..n
    PROVE  count[r] <= count[s] + 1
<1>0. n \in Nat /\ n >= 1 /\ x \in Nat /\ OneToOne(T, n) /\ count \in [1..n -> Nat]
  BY DEF InTurn
<1>1. \A k \in 1..n : count[k] \in Nat
  BY <1>0
<1>2. ASSUME NEW k \in 1..n, NEW i \in 0..(n - 1), <<i, k>> \in T PROVE count[k] = Turns(i, x, n)
  <2> DEFINE p == <<i, k>>
  <2>1. p \in T /\ p[1] = i /\ p[2] = k
    BY <1>2
  <2> HIDE DEF p
  <2> QED BY <2>1 DEF InTurn
<1>3. CASE x <= n
  <2>1. count[r] <= 1
    <3>1. CASE \E i \in 0..(n - 1) : <<i, r>> \in T
      <4>1. PICK i \in 0..(n - 1) : <<i, r>> \in T
        BY <3>1
      <4>2. count[r] = Turns(i, x, n) /\ Turns(i, x, n) <= 1
        BY <1>0, <1>2, <1>3, <4>1, TurnsEven
      <4> QED BY <4>2
    <3>2. CASE ~\E i \in 0..(n - 1) : <<i, r>> \in T
      <4>1. ASSUME NEW p \in T PROVE p[2] # r
        <5>1. p = <<p[1], p[2]>> /\ p[1] \in 0..(n - 1)
          BY <1>0 DEF OneToOne
        <5> QED BY <3>2, <5>1
      <4>2. count[r] = 0
        BY <4>1 DEF InTurn
      <4> QED BY <4>2
    <3> QED BY <3>1, <3>2
  <2>2. count[r] \in Nat /\ count[s] \in Nat
    BY <1>1
  <2> QED BY <2>1, <2>2
<1>4. CASE x > n
  <2>1. \A i \in 0..(n - 1) : \E k \in 1..n : <<i, k>> \in T
    <3>1. \A i \in 0..(n - 1) : i < x
      BY <1>0, <1>4
    <3> QED BY <3>1 DEF InTurn
  <2>2. PICK i \in 0..(n - 1) : <<i, r>> \in T
    BY <1>0, <2>1, AllRowsComeUp
  <2>3. PICK j \in 0..(n - 1) : <<j, s>> \in T
    BY <1>0, <2>1, AllRowsComeUp
  <2>4. count[r] = Turns(i, x, n) /\ count[s] = Turns(j, x, n)
    BY <1>2, <2>2, <2>3
  <2>5. Turns(i, x, n) <= Turns(j, x, n) + 1
    BY <1>0, TurnsEven
  <2> QED BY <2>4, <2>5
<1> QED BY <1>0, <1>3, <1>4

-------------------------------------------------------------------------------
(* The rows of a load, and the numbers they come to.                         *)

CorpusRows ==
    IF Given("corpus") THEN IndexRows(Bytes) ELSE <<[start |-> 1, end |-> Len(Bytes) + 1]>>

Numbers(n) == 0..(TwoTo[HalfBits(n)] * TwoTo[HalfBits(n)] - 1)
Network(n) == [v \in Numbers(n) |-> Feistel(v, HalfBits(n))]
Permuted(n) == args.mode = "permute" /\ n # 1
OnWalk(n, i) == Walked(Network(n), Numbers(n), n, i)

\* Which row comes to a number below n: the first on its walk, or the row itself.
TakesRow(n) ==
    IF Permuted(n)
    THEN {p \in (0..(n - 1)) \X (1..n) : \E v \in OnWalk(n, p[1]) : Network(n)[v] + 1 = p[2]}
    ELSE {p \in (0..(n - 1)) \X (1..n) : p[2] = p[1] + 1}

LEMMA NetworkPermutes ==
    ASSUME NEW n \in Nat, n >= 2, Mixes(n)
    PROVE  Permutes(Network(n), Numbers(n), n)
<1> DEFINE h == HalfBits(n)
           D == 0..(TwoTo[h] * TwoTo[h] - 1)
           F == [v \in D |-> Feistel(v, h)]
<1>0. h \in Nat /\ TwoTo[h] \in 1..n /\ TwoTo[h] * TwoTo[h] >= n
  BY HalfBitsAre
<1>1. D = Numbers(n) /\ F = Network(n)
  BY DEF Numbers, Network
<1> HIDE DEF h
<1>2. TwoTo[h] * TwoTo[h] \in Nat
  <2>1. TwoTo[h] \in Nat
    BY <1>0
  <2> QED BY <2>1, DoubleProduct
<1>3. D \subseteq Nat /\ 0..(n - 1) \subseteq D
  <2> DEFINE m == TwoTo[h] * TwoTo[h]
  <2>1. m \in Nat /\ m >= n
    BY <1>0, <1>2
  <2> HIDE DEF m
  <2>2. 0..(m - 1) \subseteq Nat /\ 0..(n - 1) \subseteq 0..(m - 1)
    BY <2>1
  <2> QED BY <2>2 DEF m
<1>4. \A u \in D : Feistel(u, h) \in D /\ \A v \in D : Feistel(u, h) = Feistel(v, h) => u = v
  BY <1>0, FeistelPermutes
<1> HIDE DEF D
<1>5. F \in [D -> D] /\ \A u, v \in D : F[u] = F[v] => u = v
  BY <1>4
<1> HIDE DEF F
<1> QED BY <1>1, <1>3, <1>5 DEF Permutes

LEMMA TakesOneToOne ==
    ASSUME NEW n \in Nat, n >= 1, Mixes(n)
    PROVE  OneToOne(TakesRow(n), n)
<1> DEFINE T == TakesRow(n)
<1>1. T \subseteq (0..(n - 1)) \X (1..n)
  BY DEF TakesRow
<1>2. CASE ~Permuted(n)
  <2>1. \A p \in T : p[1] \in Int /\ p[2] = p[1] + 1
    BY <1>2 DEF TakesRow
  <2> HIDE DEF T
  <2>2. \A p, q \in T : p[1] = q[1] <=> p[2] = q[2]
    <3> SUFFICES ASSUME NEW p \in T, NEW q \in T PROVE p[1] = q[1] <=> p[2] = q[2]
      OBVIOUS
    <3>1. p[1] \in Int /\ q[1] \in Int /\ p[2] = p[1] + 1 /\ q[2] = q[1] + 1
      BY <2>1
    <3> QED BY <3>1
  <2> QED BY <1>1, <2>2 DEF OneToOne, T
<1>3. CASE Permuted(n)
  <2> DEFINE F == Network(n)
             D == Numbers(n)
  <2>0. Permutes(F, D, n)
    <3>1. n >= 2
      BY <1>3 DEF Permuted
    <3> QED BY <3>1, NetworkPermutes
  <2>1. ASSUME NEW p \in T
        PROVE  /\ p[1] \in 0..(n - 1) /\ p[2] \in 1..n
               /\ \E v \in Walked(F, D, n, p[1]) : F[v] + 1 = p[2]
    BY <1>3 DEF TakesRow, OnWalk
  <2> HIDE DEF F, D, T
  <2>2. D \subseteq Nat /\ F \in [D -> D] /\ \A u, v \in D : F[u] = F[v] => u = v
    BY <2>0 DEF Permutes
  <2>3. \A i \in 0..(n - 1) : i \in D
    BY <2>0 DEF Permutes
  <2>4. ASSUME NEW p \in T, NEW q \in T PROVE p[1] = q[1] <=> p[2] = q[2]
    <3> DEFINE i == p[1]
               j == q[1]
    <3>1. i \in 0..(n - 1) /\ j \in 0..(n - 1) /\ p[2] \in 1..n /\ q[2] \in 1..n
      BY <2>1
    <3>2. PICK u \in Walked(F, D, n, i) : F[u] + 1 = p[2]
      BY <2>1
    <3>3. PICK v \in Walked(F, D, n, j) : F[v] + 1 = q[2]
      BY <2>1
    <3>4. u \in D /\ v \in D
      BY <2>0, <2>3, <3>1, WalkedSteps
    <3>5. F[u] \in Nat /\ F[v] \in Nat
      BY <2>2, <3>4
    <3> HIDE DEF i, j
    <3>6. ASSUME i = j PROVE p[2] = q[2]
      <4>1. ~(F[u] >= n) /\ ~(F[v] >= n)
        BY <3>1, <3>2, <3>3, <3>5
      <4>2. v \in Walked(F, D, n, i)
        BY <3>6
      <4>3. u = v
        BY <2>0, <2>3, <3>1, <4>1, <4>2, WalkEndsOnce
      <4> QED BY <3>2, <3>3, <4>3
    <3>7. ASSUME p[2] = q[2] PROVE i = j
      <4>1. F[u] = F[v]
        BY <3>2, <3>3, <3>5, <3>7
      <4>2. u = v
        BY <2>2, <3>4, <4>1
      <4>3. u \in Walked(F, D, n, i) \cap Walked(F, D, n, j)
        BY <4>2
      <4> QED BY <2>0, <3>1, <4>3, WalksApart
    <3> QED BY <3>6, <3>7 DEF i, j
  <2> QED BY <1>1, <2>4 DEF OneToOne, T
<1> QED BY <1>2, <1>3

\* All of it depends on the seed and the mode alone.
LEMMA TakesConstant ==
    ASSUME UNCHANGED <<args, plan>>, NEW n
    PROVE  /\ UNCHANGED <<TakesRow(n), Permuted(n), Mixes(n)>>
           /\ \A i : UNCHANGED OnWalk(n, i)
<1>1. \A s, round, size : UNCHANGED Round(s, round, size)
  BY DEF Round
<1>2. \A v, h : UNCHANGED Feistel(v, h)
  BY <1>1 DEF Feistel
<1>3. UNCHANGED Network(n)
  BY <1>2 DEF Network
<1>4. \A i : UNCHANGED OnWalk(n, i)
  BY <1>3 DEF OnWalk
<1>5. UNCHANGED <<Permuted(n), Mixes(n)>>
  BY DEF Permuted, Mixes
<1>6. UNCHANGED TakesRow(n)
  <2> DEFINE Hit(p) == \E v \in OnWalk(n, p[1]) : Network(n)[v] + 1 = p[2]
  <2>1. \A p : Hit(p)' <=> Hit(p)
    <3> SUFFICES ASSUME NEW CONSTANT p PROVE Hit(p)' <=> Hit(p)
      OBVIOUS
    <3>1. UNCHANGED OnWalk(n, p[1])
      BY <1>4
    <3> QED BY <1>3, <3>1
  <2>2. TakesRow(n) = IF Permuted(n) THEN {p \in (0..(n - 1)) \X (1..n) : Hit(p)}
                      ELSE {p \in (0..(n - 1)) \X (1..n) : p[2] = p[1] + 1}
    BY DEF TakesRow
  <2>3. TakesRow(n)' = IF Permuted(n)' THEN {p \in (0..(n - 1)) \X (1..n) : Hit(p)'}
                       ELSE {p \in (0..(n - 1)) \X (1..n) : p[2] = p[1] + 1}
    BY DEF TakesRow
  <2> HIDE DEF Hit
  <2> QED BY <1>5, <2>1, <2>2, <2>3
<1> QED BY <1>4, <1>5, <1>6

\* The rows are those of the corpus; they are known as soon as it has been read.
RowsInv ==
    /\ stage \in {"idle", "options", "corpus"} => rows = <<>>
    /\ stage \in {"validate", "encode", "run", "read"} => rows # <<>>
    /\ rows # <<>> => args \in Commands /\ rows = CorpusRows
    /\ DOMAIN asked = 1..Len(rows)

\* Queries come to the rows in turn; a walk that is under way is that of the number
\* of the next query.
Turned(n) ==
    /\ Mixes(n) /\ InTurn(TakesRow(n), n, asked, index)
    /\ value # -1 => Permuted(n) /\ value \in OnWalk(n, index % n)

TurnInv ==
    /\ index \in Nat
    /\ stage \notin {"run", "read", "done"} => index = 0 /\ value = -1
    /\ rows # <<>> /\ index = 0 => asked = [r \in 1..Len(rows) |-> 0]
    /\ (stage = "run" \/ index # 0) /\ args.mode # "replace" => Turned(Len(rows))

LEMMA CorpusRowsTyped ==
    ASSUME args \in Commands
    PROVE  /\ CorpusRows \in Seq(RowType)
           /\ Given("corpus") => /\ ToSet(CorpusRows) = Lines(Bytes)
                                 /\ RowsInOrder(CorpusRows, Len(Bytes) + 2)
<1>1. args.corpus = NotGiven \/ args.corpus \in Seq(STRING)
  BY PlanAssumption DEF IsCommand
<1>2. CASE Given("corpus")
  <2>1. Bytes \in Seq(STRING)
    BY <1>1, <1>2 DEF Bytes, File, Given
  <2>2. CorpusRows = IndexRows(Bytes)
    BY <1>2 DEF CorpusRows
  <2> QED BY <2>1, <2>2, RowsAreLines
<1>3. CASE ~Given("corpus")
  <2>1. CorpusRows = <<[start |-> 1, end |-> Len(Bytes) + 1]>> /\ Bytes = <<args.name>>
    BY <1>3 DEF CorpusRows, Bytes, File, Given
  <2>2. Len(Bytes) = 1
    BY <2>1
  <2>3. [start |-> 1, end |-> Len(Bytes) + 1] \in RowType
    BY <2>2 DEF RowType
  <2> DEFINE row == [start |-> 1, end |-> Len(Bytes) + 1]
  <2> HIDE DEF row
  <2>4. <<row>> \in Seq(RowType)
    BY <2>3 DEF row
  <2> QED BY <1>3, <2>1, <2>4 DEF row
<1> QED BY <1>2, <1>3

LEMMA ArgsKept == ASSUME OptionsInv, [PlanNext]_planVars PROVE UNCHANGED args
<1>1. SelectNext \/ Walk => UNCHANGED args
  BY SelectEffect
<1> QED BY <1>1 DEF PlanNext, Configure, LoadCorpus, ValidatePlan, Encode, Reply, Read, Stop, planVars

\* A step of the work source selects a row, or goes on with a walk.
LEMMA RowChosen ==
    ASSUME OptionsInv, SelectNext \/ Walk
    PROVE  \/ \E r : Selects(r)
           \/ UNCHANGED <<args, stage, code, rows, plan, wires, index, asked, answer, reading>>
<1>1. stage = "run"
  BY SelectEffect
<1>2. plan.mode \in {"sequential", "replace", "permute"}
  BY <1>1, PlanMode
<1>3. CASE SelectNext
  BY <1>2, <1>3 DEF SelectNext
<1>4. CASE Walk
  BY <1>4 DEF Walk
<1> QED BY <1>3, <1>4

LEMMA RowsStart == PlanStart => RowsInv /\ TurnInv
<1> SUFFICES ASSUME PlanStart PROVE RowsInv /\ TurnInv
  OBVIOUS
<1>1. rows = <<>> /\ asked = <<>> /\ index = 0 /\ value = -1 /\ stage \in {"idle", "options"}
  BY DEF PlanStart, PlanInit, PlanOf
<1>2. DOMAIN asked = {} /\ Len(rows) = 0
  BY <1>1
<1> QED BY <1>1, <1>2 DEF RowsInv, TurnInv

LEMMA RowsStep == ASSUME OptionsInv, RowsInv, [PlanNext]_planVars PROVE RowsInv'
<1>1. UNCHANGED args
  BY ArgsKept
<1>2. UNCHANGED <<CorpusRows, Given("corpus"), Bytes>>
  BY <1>1 DEF CorpusRows, Given, Bytes, File
<1> HIDE DEF CorpusRows
<1>3. CASE UNCHANGED <<rows, asked>> /\ (stage' = stage \/ stage' = "done"
             \/ (stage \in {"validate", "encode", "run"} /\ stage' \in {"encode", "run", "read"})
             \/ (stage = "options" /\ stage' = "corpus"))
  BY <1>1, <1>2, <1>3 DEF RowsInv
<1>4. CASE LoadCorpus
  <2>1. CASE stage' = "validate"
    <3>1. /\ stage = "corpus" /\ rows' = CorpusRows
          /\ Given("corpus") => IndexRows(Bytes) # <<>>
          /\ asked' = [r \in 1..Len(rows') |-> 0]
      BY <1>4, <2>1 DEF LoadCorpus, Stop, CorpusRows
    <3>2. rows' # <<>>
      <4>1. CASE Given("corpus")
        BY <3>1, <4>1 DEF CorpusRows
      <4>2. CASE ~Given("corpus")
        BY <3>1, <4>2 DEF CorpusRows
      <4> QED BY <4>1, <4>2
    <3>3. args \in Commands
      BY <3>1 DEF OptionsInv
    <3> QED BY <1>1, <1>2, <2>1, <3>1, <3>2, <3>3 DEF RowsInv
  <2>2. CASE stage' # "validate"
    BY <1>3, <1>4, <2>2 DEF LoadCorpus, Stop
  <2> QED BY <2>1, <2>2
<1>5. CASE SelectNext \/ Walk
  <2>1. UNCHANGED <<rows, stage>> /\ stage = "run"
    BY <1>5, SelectEffect
  <2>2. asked' = asked \/ \E r : asked' = [asked EXCEPT ![r] = @ + 1]
    BY <1>5, RowChosen DEF Selects
  <2>3. DOMAIN asked' = DOMAIN asked
    BY <2>2
  <2> QED BY <1>1, <1>2, <2>1, <2>3 DEF RowsInv
<1>6. CASE Configure
  BY <1>3, <1>6 DEF Configure, Stop
<1>7. CASE ValidatePlan
  BY <1>3, <1>7 DEF ValidatePlan, Stop
<1>8. CASE Encode
  BY <1>3, <1>8 DEF Encode, Stop
<1>9. CASE Reply
  BY <1>3, <1>9 DEF Reply
<1>10. CASE Read
  BY <1>3, <1>10 DEF Read
<1>11. CASE UNCHANGED planVars
  BY <1>3, <1>11 DEF planVars
<1> QED BY <1>4, <1>5, <1>6, <1>7, <1>8, <1>9, <1>10, <1>11 DEF PlanNext

\* The round function has a value for the rows of a corpus that has been admitted.
LEMMA MixesAdmitted ==
    ASSUME OptionsInv, RowsInv, stage \in {"encode", "run"}
    PROVE  Len(rows) \in Nat /\ Len(rows) >= 1 /\ Mixes(Len(rows))
<1>1. args \in Commands /\ Passes(PlanChecks)
  BY DEF OptionsInv
<1>2. rows \in Seq(RowType) /\ rows # <<>>
  BY <1>1, CorpusRowsTyped DEF RowsInv
<1>3. Len(rows) \in Nat /\ Len(rows) >= 1
  BY <1>2, EmptySeq
<1>4. ~(Len(rows) > MaxRows)
  <2>1. Len(PlanChecks) = 9
    BY DEF PlanChecks
  <2>2. ~PlanChecks[9].when
    <3> HIDE DEF PlanChecks
    <3> QED BY <1>1, <2>1 DEF Passes
  <2> QED BY <2>2 DEF PlanChecks, Check
<1>5. \A k \in 0..Len(rows) : k \in 0..MaxRows
  BY <1>3, <1>4, PlanAssumption
<1>6. \A half \in 0..MaxRows, round \in 0..3 : Mixed(half, plan.seed, round) \in Nat
  BY <1>1, PlanMode, PlanAssumption
<1> QED BY <1>3, <1>5, <1>6 DEF Mixes

\* When the rows are encoded nobody has had a turn.
LEMMA TurnedFirst ==
    ASSUME OptionsInv, RowsInv, TurnInv, stage = "encode"
    PROVE  Turned(Len(rows))
<1> PICK n : n = Len(rows)
  OBVIOUS
<1>1. n \in Nat /\ n >= 1 /\ Mixes(n)
  BY MixesAdmitted
<1>2. index = 0 /\ value = -1 /\ asked = [r \in 1..n |-> 0]
  BY DEF TurnInv, RowsInv
<1>3. asked \in [1..n -> Nat] /\ \A r \in 1..n : asked[r] = 0
  BY <1>2
<1>4. OneToOne(TakesRow(n), n)
  BY <1>1, TakesOneToOne
<1>5. InTurn(TakesRow(n), n, asked, 0)
  BY <1>1, <1>3, <1>4, InTurnStart
<1> QED BY <1>1, <1>2, <1>5 DEF Turned

\* A row is selected: it is that of the number of this query.
LEMMA TurnedNext ==
    ASSUME NEW n, Turned(n), NEW r, Selects(r), <<index % n, r>> \in TakesRow(n)
    PROVE  Turned(n)'
<1>1. UNCHANGED <<args, plan>> /\ asked' = [asked EXCEPT ![r] = @ + 1] /\ index' = index + 1 /\ value' = -1
  BY DEF Selects
<1>2. UNCHANGED <<TakesRow(n), Mixes(n)>>
  BY <1>1, TakesConstant
<1>3. InTurn(TakesRow(n), n, [asked EXCEPT ![r] = @ + 1], index + 1)
  BY InTurnNext DEF Turned
<1> QED BY <1>1, <1>2, <1>3 DEF Turned

\* A walk begins, or goes on.
LEMMA TurnedWalk ==
    ASSUME NEW n, Turned(n), UNCHANGED <<args, plan, index, asked>>,
           Permuted(n), value' \in OnWalk(n, index % n)
    PROVE  Turned(n)'
<1>1. UNCHANGED <<TakesRow(n), Mixes(n), Permuted(n)>> /\ \A i : UNCHANGED OnWalk(n, i)
  BY TakesConstant
<1> PICK i : i = index % n
  OBVIOUS
<1>2. UNCHANGED OnWalk(n, i)
  BY <1>1
<1> QED BY <1>1, <1>2 DEF Turned

LEMMA SelectTurns ==
    ASSUME OptionsInv, RowsInv, TurnInv, SelectNext \/ Walk, args.mode # "replace",
           NEW n, n = Len(rows)
    PROVE  Turned(n)'
<1>1. stage = "run"
  BY SelectEffect
<1>2. n \in Nat /\ n >= 1 /\ Mixes(n)
  BY <1>1, MixesAdmitted
<1>3. Turned(n)
  BY <1>1 DEF TurnInv
<1>4. index \in Nat
  BY DEF TurnInv
<1> DEFINE i == index % n
<1>5. i \in 0..(n - 1)
  BY <1>2, <1>4, RemainderBelow
<1>6. args.mode \in {"sequential", "permute"} /\ plan.mode = args.mode
  BY <1>1, PlanMode
<1>7. ~Permuted(n) => <<i, i + 1>> \in TakesRow(n)
  <2> SUFFICES ASSUME ~Permuted(n) PROVE <<i, i + 1>> \in TakesRow(n)
    OBVIOUS
  <2>1. i + 1 \in 1..n
    BY <1>2, <1>5
  <2> DEFINE p == <<i, i + 1>>
  <2>2. p \in (0..(n - 1)) \X (1..n) /\ p[2] = p[1] + 1
    <3> HIDE DEF i
    <3> QED BY <1>5, <2>1
  <2> HIDE DEF p
  <2>3. p \in TakesRow(n)
    BY <2>2 DEF TakesRow
  <2> QED BY <2>3 DEF p
<1>8. CASE ~Permuted(n) /\ SelectNext
  <2>1. Selects(i + 1)
    <3>1. CASE args.mode = "sequential"
      BY <1>6, <1>8, <3>1 DEF SelectNext
    <3>2. CASE args.mode = "permute"
      <4>1. n = 1
        BY <1>8, <3>2 DEF Permuted
      <4>i. i = 0 /\ i + 1 = 1
        <5> HIDE DEF i
        <5> QED BY <1>5, <4>1
      <4>2. Selects(1)
        BY <1>6, <1>8, <3>2, <4>1 DEF SelectNext
      <4> HIDE DEF i
      <4> QED BY <4>i, <4>2
    <3> QED BY <1>6, <3>1, <3>2
  <2>2. <<index % n, i + 1>> \in TakesRow(n)
    BY <1>7, <1>8
  <2> HIDE DEF i
  <2> QED BY <1>3, <2>1, <2>2, TurnedNext
<1>9. CASE Permuted(n)
  <2> DEFINE F == Network(n)
             D == Numbers(n)
  <2>0. args.mode = "permute" /\ n # 1 /\ n >= 2
    BY <1>2, <1>9 DEF Permuted
  <2>1. Permutes(F, D, n)
    BY <1>2, <2>0, NetworkPermutes
  <2>2. i \in D
    BY <1>5, <2>1 DEF Permutes
  <2>3. /\ i \in OnWalk(n, i) /\ OnWalk(n, i) \subseteq D
        /\ \A u \in OnWalk(n, i) : F[u] >= n => F[u] \in OnWalk(n, i)
    <3> HIDE DEF F, D, i
    <3>1. OnWalk(n, i) = Walked(F, D, n, i)
      BY DEF OnWalk, F, D
    <3> QED BY <2>1, <2>2, <3>1, WalkedSteps
  <2>4. CASE SelectNext
    <3>1. value' = i /\ UNCHANGED <<args, plan, index, asked>>
      BY <1>6, <2>0, <2>4 DEF SelectNext
    <3>2. value' \in OnWalk(n, index % n)
      BY <2>3, <3>1
    <3> HIDE DEF i
    <3> QED BY <1>3, <1>9, <3>1, <3>2, TurnedWalk
  <2>5. CASE Walk
    <3> DEFINE v == Feistel(value, HalfBits(n))
    <3>1. value # -1 /\ (IF v < n THEN Selects(v + 1)
                         ELSE value' = v /\ UNCHANGED <<args, plan, index, asked>>)
      BY <2>5 DEF Walk
    <3>2. value \in OnWalk(n, i)
      BY <1>3, <3>1 DEF Turned
    <3>3. value \in D /\ v = F[value]
      BY <2>3, <3>2 DEF Network
    <3>4. v \in Nat
      <4> HIDE DEF F, D, v
      <4> QED BY <2>1, <3>3 DEF Permutes
    <3>5. CASE v < n
      <4> DEFINE p == <<i, v + 1>>
      <4>1. p \in (0..(n - 1)) \X (1..n) /\ p[1] = i /\ p[2] = v + 1
        <5> HIDE DEF i, v
        <5> QED BY <1>2, <1>5, <3>4, <3>5
      <4>2. \E u \in OnWalk(n, p[1]) : F[u] + 1 = p[2]
        <5> HIDE DEF p, v, F, i
        <5> QED BY <3>2, <3>3, <4>1
      <4>3. p \in TakesRow(n)
        <5> HIDE DEF p
        <5> QED BY <1>9, <4>1, <4>2 DEF TakesRow
      <4>4. Selects(v + 1) /\ <<index % n, v + 1>> \in TakesRow(n)
        BY <3>1, <3>5, <4>3
      <4> HIDE DEF v
      <4> QED BY <1>3, <4>4, TurnedNext
    <3>6. CASE ~(v < n)
      <4>1. F[value] >= n
        <5> HIDE DEF F, v
        <5> QED BY <1>2, <3>3, <3>4, <3>6
      <4>2. v \in OnWalk(n, i)
        <5> HIDE DEF F, v, i, D
        <5> QED BY <2>3, <3>2, <3>3, <4>1
      <4>3. value' \in OnWalk(n, index % n) /\ UNCHANGED <<args, plan, index, asked>>
        BY <3>1, <3>6, <4>2
      <4> QED BY <1>3, <1>9, <4>3, TurnedWalk
    <3> QED BY <3>5, <3>6
  <2> QED BY <2>4, <2>5
<1>10. CASE ~Permuted(n) /\ Walk
  BY <1>3, <1>10 DEF Turned, Walk
<1> QED BY <1>8, <1>9, <1>10

LEMMA TurnStep == ASSUME OptionsInv, RowsInv, TurnInv, [PlanNext]_planVars PROVE TurnInv'
<1>0. UNCHANGED args
  BY ArgsKept
<1> PICK n : n = Len(rows)
  OBVIOUS
<1>1. CASE /\ UNCHANGED <<rows, plan, asked, index, value>>
           /\ stage' = "run" => stage = "run"
           /\ stage' \notin {"run", "read", "done"} => stage \notin {"run", "read", "done"}
  <2>1. UNCHANGED <<TakesRow(n), Mixes(n), Permuted(n)>> /\ \A i : UNCHANGED OnWalk(n, i)
    BY <1>0, <1>1, TakesConstant
  <2> PICK i : i = index % n
    OBVIOUS
  <2>2. UNCHANGED OnWalk(n, i)
    BY <2>1
  <2>3. Turned(n) => Turned(n)'
    BY <1>1, <2>1, <2>2 DEF Turned
  <2>4. Len(rows') = n
    BY <1>1
  <2> HIDE DEF Turned
  <2> QED BY <1>0, <1>1, <2>3, <2>4 DEF TurnInv
<1>2. CASE Configure
  BY <1>1, <1>2 DEF Configure, Stop
<1>3. CASE LoadCorpus
  <2>1. CASE stage' = "validate"
    <3>1. stage = "corpus" /\ UNCHANGED <<index, value>> /\ asked' = [r \in 1..Len(rows') |-> 0]
      BY <1>3, <2>1 DEF LoadCorpus, Stop
    <3>2. index = 0 /\ value = -1
      BY <3>1 DEF TurnInv
    <3> QED BY <2>1, <3>1, <3>2 DEF TurnInv
  <2>2. CASE stage' # "validate"
    BY <1>1, <1>3, <2>2 DEF LoadCorpus, Stop
  <2> QED BY <2>1, <2>2
<1>4. CASE ValidatePlan
  BY <1>1, <1>4 DEF ValidatePlan, Stop
<1>5. CASE Encode
  <2>1. CASE stage' = "run"
    <3>1. stage = "encode" /\ UNCHANGED <<rows, plan, asked, index, value>>
      BY <1>5, <2>1 DEF Encode, Stop
    <3>2. Turned(n)
      BY <3>1, TurnedFirst
    <3>3. UNCHANGED <<TakesRow(n), Mixes(n)>>
      BY <1>0, <3>1, TakesConstant
    <3>4. index = 0 /\ value = -1
      BY <3>1 DEF TurnInv
    <3>5. Turned(n)'
      BY <3>1, <3>2, <3>3, <3>4 DEF Turned
    <3>6. Len(rows') = n
      BY <3>1
    <3> HIDE DEF Turned
    <3> QED BY <2>1, <3>1, <3>4, <3>5, <3>6 DEF TurnInv
  <2>2. CASE stage' # "run"
    BY <1>1, <1>5, <2>2 DEF Encode, Stop
  <2> QED BY <2>1, <2>2
<1>6. CASE SelectNext \/ Walk
  <2>1. UNCHANGED <<rows, stage>> /\ stage = "run"
    BY <1>6, SelectEffect
  <2>2. index' = index + 1 \/ UNCHANGED <<index, asked>>
    BY <1>6, RowChosen DEF Selects
  <2>3. args.mode # "replace" => Turned(n)'
    BY <1>6, SelectTurns
  <2>4. index' \in Nat /\ (index' # 0 \/ (UNCHANGED asked /\ index = 0))
    BY <2>2 DEF TurnInv
  <2>5. Len(rows') = n
    BY <2>1
  <2> HIDE DEF Turned
  <2> QED BY <1>0, <2>1, <2>3, <2>4, <2>5 DEF TurnInv
<1>7. CASE Reply
  BY <1>1, <1>7 DEF Reply
<1>8. CASE Read
  BY <1>1, <1>8 DEF Read
<1>9. CASE UNCHANGED planVars
  BY <1>1, <1>9 DEF planVars
<1> QED BY <1>2, <1>3, <1>4, <1>5, <1>6, <1>7, <1>8, <1>9 DEF PlanNext

LEMMA TurnImplies == ASSUME RowsInv, TurnInv PROVE EachLineInTurn
<1>1. ASSUME rows # <<>>, Given("corpus")
      PROVE  /\ ToSet(rows) = Lines(Bytes)
             /\ \A i, j \in 1..Len(rows) : i < j => rows[i].end < rows[j].start
  <2>1. rows = CorpusRows /\ args \in Commands
    BY <1>1 DEF RowsInv
  <2> QED BY <1>1, <2>1, CorpusRowsTyped DEF RowsInOrder
<1>2. ASSUME NEW r \in DOMAIN asked, NEW s \in DOMAIN asked, args.mode # "replace"
      PROVE  asked[r] <= asked[s] + 1
  <2> PICK n : n = Len(rows)
    OBVIOUS
  <2>1. r \in 1..n /\ s \in 1..n
    BY DEF RowsInv
  <2>2. CASE index = 0
    <3>1. rows # <<>>
      <4> SUFFICES ASSUME rows = <<>> PROVE FALSE
        OBVIOUS
      <4>1. n = 0
        OBVIOUS
      <4> QED BY <2>1, <4>1
    <3>2. asked = [k \in 1..n |-> 0]
      BY <2>2, <3>1 DEF TurnInv
    <3>3. asked[r] = 0 /\ asked[s] = 0
      BY <2>1, <3>2
    <3> QED BY <3>3
  <2>3. CASE index # 0
    <3>1. InTurn(TakesRow(n), n, asked, index)
      BY <1>2, <2>3 DEF TurnInv, Turned
    <3> QED BY <2>1, <3>1, InTurnEven
  <2> QED BY <2>2, <2>3
<1> QED BY <1>1, <1>2 DEF EachLineInTurn

LEMMA RowsInvariance == PlanStart /\ [][PlanNext]_planVars => []RowsInv
BY RowsStart, RowsStep, OptionsInvariance, PTL

\* Each line of the corpus with a name is a row, in order (index_rows, push_row), and
\* unless rows are sampled none is queried a second time before all were: in sequence,
\* or in the order of permute_index, whatever the seed and its round function are.
THEOREM EachLineHasItsTurn == PlanStart /\ [][PlanNext]_planVars => []EachLineInTurn
<1>1. PlanStart => TurnInv
  BY RowsStart
<1>2. OptionsInv /\ RowsInv /\ TurnInv /\ [PlanNext]_planVars => TurnInv'
  BY TurnStep
<1>3. RowsInv /\ TurnInv => EachLineInTurn
  BY TurnImplies
<1> QED BY <1>1, <1>2, <1>3, OptionsInvariance, RowsInvariance, PTL

\* The numbers that a walk under way, from where it is, has yet to try.
Ahead == IF value = -1 THEN {} ELSE OnWalk(Len(rows), value)

\* Nothing but a permutation is walked.
WalkInv == value # -1 => args.mode = "permute"

LEMMA WalkInvStep == ASSUME OptionsInv, WalkInv, [PlanNext]_planVars PROVE WalkInv'
<1>1. UNCHANGED args
  BY ArgsKept
<1>2. CASE SelectNext \/ Walk
  <2>1. UNCHANGED stage /\ stage = "run"
    BY <1>2, SelectEffect
  <2>2. CASE \E r : Selects(r)
    BY <2>2 DEF Selects, WalkInv
  <2>3. CASE SelectNext /\ ~\E r : Selects(r)
    <3>1. plan.mode \in {"sequential", "replace", "permute"} /\ plan.mode = args.mode
      BY <2>1, PlanMode
    <3>2. args.mode = "permute"
      BY <2>3, <3>1 DEF SelectNext
    <3> QED BY <1>1, <2>1, <3>2 DEF WalkInv
  <2>4. CASE Walk
    BY <1>1, <2>1, <2>4 DEF Walk, WalkInv
  <2> QED BY <1>2, <2>2, <2>3, <2>4
<1>3. CASE Configure \/ LoadCorpus \/ ValidatePlan \/ Encode
  BY <1>1, <1>3 DEF WalkInv, Configure, LoadCorpus, ValidatePlan, Encode, Stop
<1>4. CASE Reply \/ Read \/ UNCHANGED planVars
  BY <1>4 DEF WalkInv, Reply, Read, planVars
<1> QED BY <1>2, <1>3, <1>4 DEF PlanNext

\* Where a walk is: among the numbers of the network, on that of a number below n.
LEMMA WalkAt ==
    ASSUME OptionsInv, RowsInv, TurnInv, WalkInv, value # -1, stage = "run", NEW n, n = Len(rows)
    PROVE  /\ Permutes(Network(n), Numbers(n), n) /\ n \in Nat /\ n >= 2
           /\ \E i \in 0..(n - 1) : value \in OnWalk(n, i)
<1>1. n \in Nat /\ n >= 1 /\ Mixes(n)
  BY MixesAdmitted
<1>2. Turned(n)
  BY DEF TurnInv, WalkInv
<1>3. n # 1 /\ value \in OnWalk(n, index % n)
  BY <1>2 DEF Turned, Permuted
<1>4. n >= 2
  BY <1>1, <1>3
<1>5. index % n \in 0..(n - 1)
  BY <1>1, RemainderBelow DEF TurnInv
<1> QED BY <1>1, <1>3, <1>4, <1>5, NetworkPermutes

LEMMA AheadFinite ==
    ASSUME OptionsInv, RowsInv, TurnInv, WalkInv, stage = "run", NEW n, n = Len(rows)
    PROVE  IsFiniteSet(Ahead) /\ Ahead \subseteq Numbers(n)
<1>1. CASE value = -1
  BY <1>1, FS_EmptySet DEF Ahead
<1>2. CASE value # -1
  <2>1. Ahead \subseteq Numbers(n)
    BY <1>2 DEF Ahead, OnWalk, Walked
  <2>2. n \in Nat /\ n >= 2
    BY <1>2, WalkAt
  <2>3. TwoTo[HalfBits(n)] \in Nat
    <3>1. TwoTo[HalfBits(n)] \in 1..n
      BY <2>2, HalfBitsAre
    <3> QED BY <2>2, <3>1
  <2> DEFINE size == TwoTo[HalfBits(n)]
  <2>4. Numbers(n) = 0..(size * size - 1)
    BY DEF Numbers
  <2>5. size * size - 1 \in Int
    <3> HIDE DEF size
    <3> QED BY <2>3 DEF size
  <2>6. IsFiniteSet(Numbers(n))
    <3> HIDE DEF size
    <3> QED BY <2>4, <2>5, FS_Interval
  <2> QED BY <2>1, <2>6, FS_Subset
<1> QED BY <1>1, <1>2

LEMMA WalkShortens ==
    ASSUME OptionsInv, RowsInv, TurnInv, WalkInv, Walk
    PROVE  Cardinality(Ahead') < Cardinality(Ahead)
<1> PICK n : n = Len(rows)
  OBVIOUS
<1> DEFINE F == Network(n)
           D == Numbers(n)
           v == Feistel(value, HalfBits(n))
<1>1. /\ stage = "run" /\ value # -1
      /\ IF v < n THEN Selects(v + 1) ELSE value' = v /\ UNCHANGED <<args, plan, rows>>
  BY DEF Walk, Issuing
<1>2. Permutes(F, D, n) /\ n \in Nat
  BY <1>1, WalkAt
<1>3. PICK i \in 0..(n - 1) : value \in Walked(F, D, n, i)
  BY <1>1, WalkAt DEF OnWalk
<1>4. i \in D /\ F \in [D -> D] /\ D \subseteq Nat
  BY <1>2 DEF Permutes
<1>5. value \in D
  BY <1>2, <1>3, <1>4, WalkedSteps
<1>6. v = F[value] /\ v \in D /\ v \in Nat
  <2>1. v = F[value]
    BY <1>5 DEF F, Network
  <2> HIDE DEF v, F, D
  <2> QED BY <1>4, <1>5, <2>1
<1>7. Ahead = Walked(F, D, n, value)
  BY <1>1 DEF Ahead, OnWalk
<1>8. value \in Ahead
  BY <1>2, <1>5, <1>7, WalkedSteps
<1>9. IsFiniteSet(Ahead)
  BY <1>1, AheadFinite
<1> HIDE DEF F, D, v
<1>10. Ahead' \subseteq Ahead \ {value}
  <2>1. CASE v < n
    <3>1. value' = -1
      BY <1>1, <2>1 DEF Selects
    <3> QED BY <3>1 DEF Ahead
  <2>2. CASE ~(v < n)
    <3>1. value' = v /\ UNCHANGED <<args, plan, rows>>
      BY <1>1, <2>2
    <3>2. v # -1 /\ v >= n
      BY <1>2, <1>6, <2>2
    <3>3. PICK k : k = v
      OBVIOUS
    <3>4. UNCHANGED OnWalk(n, k)
      BY <3>1, TakesConstant
    <3>5. value' = k /\ Len(rows)' = n
      BY <3>1, <3>3
    <3>6. Ahead' = OnWalk(n, k)
      BY <3>1, <3>2, <3>4, <3>5 DEF Ahead
    <3>7. OnWalk(n, k) = Walked(F, D, n, F[value])
      BY <1>6, <3>3 DEF OnWalk, F, D
    <3>8. Walked(F, D, n, F[value]) \subseteq Walked(F, D, n, value) \ {value}
      BY <1>2, <1>3, <1>6, <3>2, WalkNeverReturns
    <3> QED BY <1>7, <3>6, <3>7, <3>8
  <2> QED BY <2>1, <2>2
<1> PICK A, B : A = Ahead /\ B = Ahead'
  OBVIOUS
<1>11. B \in SUBSET A /\ B # A /\ IsFiniteSet(A)
  BY <1>8, <1>9, <1>10
<1>12. Cardinality(B) <= Cardinality(A) /\ Cardinality(B) # Cardinality(A) /\ IsFiniteSet(B)
  BY <1>11, FS_Subset
<1>13. Cardinality(A) \in Nat /\ Cardinality(B) \in Nat
  BY <1>11, <1>12, FS_CardinalityType
<1>14. Cardinality(B) < Cardinality(A)
  BY <1>12, <1>13
<1> QED BY <1>14

\* The cycle walk of permute_index ends for every corpus, seed and round function: no
\* iteration comes back to a number it has left, so that each leaves it fewer of the
\* finitely many numbers of the network, until it selects a row.
THEOREM WalksEnd ==
    PlanStart /\ [][PlanNext]_planVars =>
        /\ [](stage = "run" => IsFiniteSet(Ahead) /\ Ahead \subseteq Numbers(Len(rows)))
        /\ [][Walk => Cardinality(Ahead') < Cardinality(Ahead)]_planVars
<1>1. PlanStart => TurnInv /\ WalkInv
  BY RowsStart DEF PlanStart, PlanInit, PlanOf, WalkInv
<1>2. OptionsInv /\ RowsInv /\ TurnInv /\ [PlanNext]_planVars => TurnInv'
  BY TurnStep
<1>3. OptionsInv /\ WalkInv /\ [PlanNext]_planVars => WalkInv'
  BY WalkInvStep
<1>4. OptionsInv /\ RowsInv /\ TurnInv /\ WalkInv
        => (stage = "run" => IsFiniteSet(Ahead) /\ Ahead \subseteq Numbers(Len(rows)))
  BY AheadFinite
<1>5. OptionsInv /\ RowsInv /\ TurnInv /\ WalkInv /\ [PlanNext]_planVars
        => [Walk => Cardinality(Ahead') < Cardinality(Ahead)]_planVars
  BY WalkShortens
<1> QED BY <1>1, <1>2, <1>3, <1>4, <1>5, OptionsInvariance, RowsInvariance, PTL

-------------------------------------------------------------------------------
(* Replies: a message, encoded, cut anywhere and read.                       *)

\* The parts of a flattened sequence lie in it one after the other.
PartsAt(ss, offset) ==
    /\ offset \in [0..Len(ss) -> Nat]
    /\ offset[0] = 0 /\ offset[Len(ss)] = Len(FlattenSeq(ss))
    /\ \A k \in 1..Len(ss) :
         /\ offset[k] = offset[k - 1] + Len(ss[k]) /\ offset[k] <= offset[Len(ss)]
         /\ \A j \in 1..Len(ss[k]) : FlattenSeq(ss)[offset[k - 1] + j] = ss[k][j]

LEMMA FlattenedStepwise ==
    ASSUME NEW S, NEW ss \in Seq(Seq(S))
    PROVE  \E f \in [0..Len(ss) -> Seq(S)] :
              /\ f[0] = <<>> /\ f[Len(ss)] = FlattenSeq(ss)
              /\ \A k \in 1..Len(ss) : f[k] = f[k - 1] \o ss[k]
<1> DEFINE N == Len(ss)
<1>0. N \in Nat /\ \A k \in 1..N : ss[k] \in Seq(S)
  BY LenProperties, ElementOfSeq
<1>1. CASE ss = <<>>
  <2>1. N = 0 /\ FlattenSeq(ss) = <<>>
    BY <1>1, EmptySeq DEF FlattenSeq
  <2> DEFINE f == [k \in 0..N |-> <<>>]
  <2>2. f \in [0..N -> Seq(S)] /\ f[0] = <<>> /\ f[N] = <<>> /\ 1..N = {}
    BY <2>1, EmptySeq
  <2> HIDE DEF f
  <2> QED BY <2>1, <2>2
<1>2. CASE ss # <<>>
  <2>1. PICK fl \in [1..N -> Seq(S)] :
            /\ FlattenSeq(ss) = fl[N]
            /\ \A k \in 1..N : fl[k] = IF k = 1 THEN ss[k] ELSE fl[k - 1] \o ss[k]
    BY <1>2, FlattenSteps
  <2> DEFINE f == [k \in 0..N |-> IF k = 0 THEN <<>> ELSE fl[k]]
  <2>2. \A k \in 0..N : k # 0 => k \in 1..N
    BY <1>0
  <2>3. f \in [0..N -> Seq(S)]
    BY <2>2, EmptySeq
  <2>4. N # 0 /\ 0 \in 0..N /\ N \in 0..N
    BY <1>0, <1>2, EmptySeq
  <2>5. ASSUME NEW k \in 1..N PROVE f[k] = f[k - 1] \o ss[k]
    <3>1. k \in 0..N /\ k # 0 /\ k - 1 \in 0..N
      BY <1>0
    <3>2. CASE k = 1
      <4>1. f[k] = ss[k]
        BY <2>1, <3>1, <3>2
      <4>2. f[k - 1] = <<>>
        BY <2>4, <3>2
      <4> HIDE DEF f
      <4> QED BY <1>0, <4>1, <4>2, ConcatEmptySeq
    <3>3. CASE k # 1
      <4>1. k - 1 # 0
        BY <3>1, <3>3
      <4>2. f[k] = fl[k] /\ f[k - 1] = fl[k - 1]
        BY <3>1, <4>1
      <4> HIDE DEF f
      <4> QED BY <2>1, <3>3, <4>2
    <3> QED BY <3>2, <3>3
  <2>6. f[0] = <<>> /\ f[N] = FlattenSeq(ss)
    BY <2>1, <2>4
  <2> HIDE DEF f
  <2> QED BY <2>3, <2>5, <2>6
<1> QED BY <1>1, <1>2

LEMMA FlattenedParts ==
    ASSUME NEW S, NEW ss \in Seq(Seq(S))
    PROVE  FlattenSeq(ss) \in Seq(S) /\ \E offset : PartsAt(ss, offset)
<1> DEFINE N == Len(ss)
<1>0. N \in Nat /\ \A k \in 1..N : ss[k] \in Seq(S) /\ Len(ss[k]) \in Nat
  <2>1. N \in Nat /\ \A k \in 1..N : ss[k] \in Seq(S)
    BY LenProperties, ElementOfSeq
  <2> HIDE DEF N
  <2> QED BY <2>1, LenProperties
<1>1. PICK f \in [0..N -> Seq(S)] :
          /\ f[0] = <<>> /\ f[N] = FlattenSeq(ss)
          /\ \A k \in 1..N : f[k] = f[k - 1] \o ss[k]
  BY FlattenedStepwise
<1> HIDE DEF N
<1> DEFINE offset == [k \in 0..N |-> Len(f[k])]
           Laid(n, k) == /\ offset[k] <= offset[n]
                         /\ \A j \in 1..Len(ss[k]) : f[n][offset[k - 1] + j] = ss[k][j]
           T == {n \in Nat : n <= N => \A k \in 1..n : Laid(n, k)}
<1>2. \A k \in 0..N : f[k] \in Seq(S) /\ offset[k] = Len(f[k]) /\ offset[k] \in Nat
  BY <1>1, LenProperties
<1>3. offset \in [0..N -> Nat]
  BY <1>2
<1> HIDE DEF offset
<1>4. ASSUME NEW n \in 0..N, n + 1 <= N
      PROVE  /\ n + 1 \in 1..N /\ offset[n + 1] = offset[n] + Len(ss[n + 1])
             /\ offset[n] \in Nat /\ offset[n + 1] \in Nat /\ offset[n] <= offset[n + 1]
             /\ \A i \in 1..offset[n] : f[n + 1][i] = f[n][i]
             /\ \A j \in 1..Len(ss[n + 1]) : f[n + 1][offset[n] + j] = ss[n + 1][j]
  <2>1. n + 1 \in 1..N /\ (n + 1) - 1 = n /\ n + 1 \in 0..N
    BY <1>0, <1>4
  <2>2. f[n + 1] = f[n] \o ss[n + 1] /\ f[n] \in Seq(S) /\ ss[n + 1] \in Seq(S)
    BY <1>0, <1>1, <1>2, <2>1
  <2> DEFINE a == f[n]  b == ss[n + 1]  c == f[n + 1]
  <2>3. offset[n] = Len(a) /\ offset[n + 1] = Len(c) /\ Len(a) \in Nat /\ Len(b) \in Nat
    BY <1>0, <1>2, <2>1
  <2>4. c = a \o b /\ a \in Seq(S) /\ b \in Seq(S)
    BY <2>2
  <2> HIDE DEF a, b, c
  <2>5. /\ Len(c) = Len(a) + Len(b)
        /\ \A i \in 1..(Len(a) + Len(b)) : c[i] = IF i <= Len(a) THEN a[i] ELSE b[i - Len(a)]
    BY <2>4, ConcatProperties
  <2>6. \A i \in 1..Len(a) : c[i] = a[i]
    BY <2>3, <2>5
  <2>7. ASSUME NEW j \in 1..Len(b) PROVE c[Len(a) + j] = b[j]
    <3>1. Len(a) + j \in 1..(Len(a) + Len(b)) /\ ~(Len(a) + j <= Len(a)) /\ (Len(a) + j) - Len(a) = j
      BY <2>3
    <3> QED BY <2>5, <3>1
  <2>8. offset[n] \in Nat /\ offset[n + 1] \in Nat /\ offset[n + 1] = offset[n] + Len(b) /\ offset[n] <= offset[n + 1]
    BY <2>3, <2>5
  <2> QED BY <2>1, <2>3, <2>6, <2>7, <2>8 DEF a, b, c
<1>5. ASSUME NEW n \in Nat, n \in T PROVE n + 1 \in T
  <2> SUFFICES ASSUME n + 1 <= N, NEW k \in 1..(n + 1) PROVE Laid(n + 1, k)
    OBVIOUS
  <2>1. n \in 0..N
    BY <1>0
  <2>2. CASE k \in 1..n
    <3>1. Laid(n, k)
      BY <1>0, <1>5, <2>2
    <3>2. k \in 1..N /\ k \in 0..N /\ k - 1 \in 0..N
      BY <1>0, <2>2
    <3>3. offset[k] <= offset[n] /\ offset[n] <= offset[n + 1] /\ offset[k] \in Nat /\ offset[n] \in Nat /\ offset[n + 1] \in Nat
      BY <1>2, <1>4, <2>1, <3>1, <3>2
    <3>4. offset[k] = offset[k - 1] + Len(ss[k]) /\ offset[k - 1] \in Nat /\ Len(ss[k]) \in Nat
      <4>1. (k - 1) + 1 = k /\ (k - 1) + 1 <= N
        BY <3>2, <1>0
      <4> QED BY <1>0, <1>4, <3>2, <4>1
    <3>5. ASSUME NEW j \in 1..Len(ss[k]) PROVE f[n + 1][offset[k - 1] + j] = ss[k][j]
      <4>1. offset[k - 1] + j \in 1..offset[n]
        <5> DEFINE from == offset[k - 1]
                   long == Len(ss[k])
                   last == offset[n]
        <5>1. from \in Nat /\ long \in Nat /\ last \in Nat /\ from + long <= last
          BY <3>3, <3>4
        <5>2. j \in 1..long
          OBVIOUS
        <5> HIDE DEF from, long, last
        <5>3. from + j \in 1..last
          BY <5>1, <5>2
        <5> QED BY <5>3 DEF from, last
      <4>2. f[n + 1][offset[k - 1] + j] = f[n][offset[k - 1] + j]
        <5>1. \A i \in 1..offset[n] : f[n + 1][i] = f[n][i]
          BY <1>4, <2>1, <1>5
        <5> DEFINE i == offset[k - 1] + j
        <5>2. i \in 1..offset[n]
          BY <4>1
        <5> HIDE DEF i
        <5>3. f[n + 1][i] = f[n][i]
          BY <5>1, <5>2
        <5> QED BY <5>3 DEF i
      <4> QED BY <3>1, <4>2
    <3>6. offset[k] <= offset[n + 1]
      BY <3>3
    <3> QED BY <3>5, <3>6
  <2>3. CASE k = n + 1
    <3>1. offset[k] <= offset[n + 1] /\ k - 1 = n
      BY <1>4, <2>1, <2>3
    <3>2. \A j \in 1..Len(ss[k]) : f[n + 1][offset[n] + j] = ss[k][j]
      BY <1>4, <2>1, <2>3
    <3> QED BY <3>1, <3>2
  <2> QED BY <2>2, <2>3
<1>6. N \in T
  <2>1. 0 \in T
    OBVIOUS
  <2> HIDE DEF T
  <2>2. Nat \subseteq T
    BY <1>5, <2>1, NatIsAll
  <2> QED BY <1>0, <2>2
<1>7. \A k \in 1..N : Laid(N, k)
  BY <1>0, <1>6
<1>8. \A k \in 1..N : offset[k] = offset[k - 1] + Len(ss[k])
  <2> SUFFICES ASSUME NEW k \in 1..N PROVE offset[k] = offset[k - 1] + Len(ss[k])
    OBVIOUS
  <2>1. k - 1 \in 0..N /\ (k - 1) + 1 = k /\ (k - 1) + 1 <= N
    BY <1>0
  <2> QED BY <1>4, <2>1
<1>9. offset[0] = 0 /\ offset[N] = Len(FlattenSeq(ss)) /\ f[N] = FlattenSeq(ss) /\ FlattenSeq(ss) \in Seq(S)
  <2>1. 0 \in 0..N /\ N \in 0..N
    BY <1>0
  <2>2. Len(f[0]) = 0
    BY <1>1, EmptySeq
  <2> QED BY <1>1, <1>2, <2>1, <2>2
<1>10. PartsAt(ss, offset)
  BY <1>3, <1>7, <1>8, <1>9 DEF PartsAt, N
<1> QED BY <1>9, <1>10

CellType ==
    [kind : {"root", "pointer", "label", "fixed"}, is : STRING \cup {"A IN", "rdata"}]
    \cup [kind : {"record"}, opt : BOOLEAN, ext : Nat, rdata : Nat]

\* The kind of a cell is read from the fields of either sort, and of none.
LEMMA KindsDiffer ==
    /\ "root" # "pointer" /\ "root" # "label" /\ "root" # "record" /\ "root" # "none"
    /\ "root" # "fixed" /\ "pointer" # "label" /\ "pointer" # "record" /\ "pointer" # "none"
    /\ "pointer" # "fixed" /\ "label" # "record" /\ "label" # "none" /\ "label" # "fixed"
    /\ "record" # "none" /\ "record" # "fixed" /\ "fixed" # "none"
OBVIOUS

\* How many cells of the reply have come.
Came == Len(answer.cells)

LEMMA CellsTyped ==
    ASSUME answer.cells \in Seq(CellType)
    PROVE  /\ Came \in Nat
           /\ \A i \in 1..Came : Cell(i) = answer.cells[i] /\ Cell(i) \in CellType
           /\ \A i : i \notin 1..Came => Cell(i).kind = "none"
           /\ \A i : Cell(i).kind = "record" =>
                i \in 1..Came /\ Cell(i).opt \in BOOLEAN /\ Cell(i).ext \in Nat /\ Cell(i).rdata \in Nat
<1>1. Came \in Nat /\ \A i \in 1..Came : answer.cells[i] \in CellType
  BY LenProperties, ElementOfSeq DEF Came
<1>2. \A i \in 1..Came : Cell(i) = answer.cells[i] /\ Cell(i) \in CellType
  BY <1>1 DEF Cell, Came
<1>3. \A i : i \notin 1..Came => Cell(i) = [kind |-> "none"]
  BY DEF Cell, Came
<1>4. ASSUME NEW c \in CellType, c.kind = "record"
      PROVE  c.opt \in BOOLEAN /\ c.ext \in Nat /\ c.rdata \in Nat
  BY <1>4, KindsDiffer DEF CellType
<1>5. ASSUME NEW i, Cell(i).kind = "record"
      PROVE  i \in 1..Came /\ Cell(i).opt \in BOOLEAN /\ Cell(i).ext \in Nat /\ Cell(i).rdata \in Nat
  <2>1. i \in 1..Came
    BY <1>3, <1>5, KindsDiffer
  <2> QED BY <1>2, <1>4, <1>5, <2>1
<1> QED BY <1>1, <1>2, <1>3, <1>5

\* What has come after position a is what there is of cells.
Comes(cells, a) == \A j \in 1..Len(cells) : a + j <= Came => Cell(a + j) = cells[j]

LEMMA NameCellsAre ==
    ASSUME NEW name, IsName(name)
    PROVE  /\ NameCells(name) \in Seq(CellType) /\ Len(NameCells(name)) = Len(name)
           /\ Len(name) \in Nat /\ Len(name) >= 1
           /\ \A j \in 1..Len(name) : /\ NameCells(name)[j].is = name[j]
                                      /\ j < Len(name) => NameCells(name)[j].kind = "label"
                                      /\ NameCells(name)[j].kind \in {"root", "pointer"} <=> j = Len(name)
                                      /\ NameCells(name)[j].kind = "root" <=> name[j] = "root"
<1>1. Len(name) \in Nat /\ Len(name) >= 1 /\ \A j \in 1..Len(name) : name[j] \in STRING
  <2>1. name \in Seq(STRING) /\ name # <<>>
    BY DEF IsName
  <2>2. Len(name) \in Nat /\ \A j \in 1..Len(name) : name[j] \in STRING
    BY <2>1, LenProperties, ElementOfSeq
  <2>3. Len(name) # 0
    BY <2>1, EmptySeq
  <2> QED BY <2>2, <2>3
<1> DEFINE n == Len(name)
           e(j) == [kind |-> IF name[j] \in {"root", "pointer"} THEN name[j] ELSE "label", is |-> name[j]]
<1>2. ASSUME NEW j \in 1..n PROVE e(j) \in CellType
  BY <1>1 DEF CellType
<1>3. NameCells(name) = [j \in 1..n |-> e(j)]
  BY DEF NameCells
<1>4. NameCells(name) \in Seq(CellType)
  <2> HIDE DEF e, n
  <2>1. [j \in 1..n |-> e(j)] \in Seq(CellType)
    BY <1>1, <1>2, IsASeq DEF n
  <2> QED BY <1>3, <2>1
<1>5. Len(NameCells(name)) = n
  <2>1. DOMAIN NameCells(name) = 1..n
    BY <1>3
  <2>2. DOMAIN NameCells(name) = 1..Len(NameCells(name)) /\ Len(NameCells(name)) \in Nat
    BY <1>4, LenProperties
  <2> QED BY <1>1, <2>1, <2>2
<1>6. ASSUME NEW j \in 1..n
      PROVE  /\ NameCells(name)[j].is = name[j]
             /\ j < n => NameCells(name)[j].kind = "label"
             /\ NameCells(name)[j].kind \in {"root", "pointer"} <=> j = n
             /\ NameCells(name)[j].kind = "root" <=> name[j] = "root"
  <2>1. /\ NameCells(name)[j].is = name[j]
        /\ NameCells(name)[j].kind = IF name[j] \in {"root", "pointer"} THEN name[j] ELSE "label"
    BY <1>3
  <2>2. name[j] \in {"root", "pointer"} <=> j = n
    BY DEF IsName
  <2>3. j < n => j # n
    BY <1>1
  <2> QED BY <2>1, <2>2, <2>3, KindsDiffer
<1> QED BY <1>1, <1>4, <1>5, <1>6

LEMMA SkipsTyped ==
    ASSUME answer.cells \in Seq(CellType), NEW start \in Nat
    PROVE  SkipName(start) \in Nat
<1> DEFINE S == {p \in start..(Came + 1) : Cell(p).kind # "label"}
<1>0. Came \in Nat /\ Cell(Came + 1).kind = "none"
  <2>1. Came \in Nat
    BY CellsTyped
  <2>2. Came + 1 \notin 1..Came
    BY <2>1
  <2> QED BY <2>1, <2>2, CellsTyped
<1>1. SkipName(start) = IF start <= Came /\ Cell(Min(S)).kind \in {"root", "pointer"} THEN Min(S) + 1 ELSE 0
  BY DEF SkipName, Came
<1>2. CASE start <= Came
  <2>1. Came + 1 \in S /\ S \subseteq Nat
    BY <1>0, <1>2, KindsDiffer
  <2>2. Min(S) \in Nat
    <3> HIDE DEF S
    <3> QED BY <2>1, MinIsLeast
  <2> HIDE DEF S
  <2> QED BY <1>1, <2>2
<1>3. CASE ~(start <= Came)
  <2> HIDE DEF S
  <2> QED BY <1>1, <1>3
<1> QED BY <1>2, <1>3

\* skip_name finds the end of a name that has come, and none of another.
LEMMA SkipsName ==
    ASSUME answer.cells \in Seq(CellType), NEW a \in Nat, NEW name, IsName(name),
           Comes(NameCells(name), a)
    PROVE  SkipName(a + 1) = IF a + Len(name) <= Came THEN a + Len(name) + 1 ELSE 0
<1> DEFINE start == a + 1
           n == Len(name)
           S == {p \in start..(Came + 1) : Cell(p).kind # "label"}
<1>0. Came \in Nat /\ Cell(Came + 1).kind = "none"
  <2>1. Came \in Nat
    BY CellsTyped
  <2>2. Came + 1 \notin 1..Came
    BY <2>1
  <2> QED BY <2>1, <2>2, CellsTyped
<1>1. SkipName(start) = IF start <= Came /\ Cell(Min(S)).kind \in {"root", "pointer"} THEN Min(S) + 1 ELSE 0
  BY DEF SkipName, Came
<1>2. n \in Nat /\ n >= 1 /\ Len(NameCells(name)) = n
  BY NameCellsAre
<1>3. ASSUME NEW j \in 1..n, a + j <= Came
      PROVE  /\ j < n => Cell(a + j).kind = "label"
             /\ Cell(a + j).kind \in {"root", "pointer"} <=> j = n
  <2>1. Cell(a + j) = NameCells(name)[j]
    BY <1>2, <1>3 DEF Comes
  <2> QED BY <2>1, NameCellsAre
<1>4. ASSUME NEW e \in S, \A p \in start..(e - 1) : Cell(p).kind = "label" PROVE Min(S) = e
  <2>1. S \subseteq Nat
    BY <1>0
  <2>2. \A p \in S : e <= p
    BY <1>0, <1>4
  <2> HIDE DEF S
  <2>3. Min(S) \in S /\ Min(S) <= e
    BY <1>4, <2>1, MinIsLeast
  <2>4. e <= Min(S) /\ e \in Nat /\ Min(S) \in Nat
    BY <1>4, <2>1, <2>2, <2>3
  <2> QED BY <2>3, <2>4
<1>5. CASE a + n <= Came
  <2>1. Cell(a + n).kind \in {"root", "pointer"}
    BY <1>2, <1>3, <1>5
  <2>2. a + n \in S
    BY <1>0, <1>2, <1>5, <2>1, KindsDiffer
  <2>3. ASSUME NEW p \in start..((a + n) - 1) PROVE Cell(p).kind = "label"
    <3>1. p - a \in 1..n /\ p - a < n /\ a + (p - a) = p /\ a + (p - a) <= Came
      BY <1>0, <1>2, <1>5
    <3>2. Cell(a + (p - a)).kind = "label"
      BY <1>3, <3>1
    <3> QED BY <3>1, <3>2
  <2> HIDE DEF S
  <2>4. Min(S) = a + n
    BY <1>4, <2>2, <2>3
  <2>5. start <= Came
    BY <1>0, <1>2, <1>5
  <2> QED BY <1>1, <1>5, <2>1, <2>4, <2>5
<1>6. CASE ~(a + n <= Came) /\ start <= Came
  <2>1. Came + 1 \in S
    BY <1>0, <1>6, KindsDiffer
  <2>2. ASSUME NEW p \in start..((Came + 1) - 1) PROVE Cell(p).kind = "label"
    <3>1. p - a \in 1..n /\ p - a < n /\ a + (p - a) = p /\ a + (p - a) <= Came
      BY <1>0, <1>2, <1>6
    <3>2. Cell(a + (p - a)).kind = "label"
      BY <1>3, <3>1
    <3> QED BY <3>1, <3>2
  <2> HIDE DEF S
  <2>3. Min(S) = Came + 1
    BY <1>4, <2>1, <2>2
  <2> QED BY <1>0, <1>1, <1>6, <2>3, KindsDiffer
<1>7. CASE ~(start <= Came)
  <2>1. ~(a + n <= Came)
    BY <1>0, <1>2, <1>7
  <2> HIDE DEF S
  <2> QED BY <1>1, <1>7, <2>1
<1> QED BY <1>5, <1>6, <1>7

RecordType == [name : Seq(STRING), opt : BOOLEAN, ext : Nat, rdata : Nat]
FixedCell == [kind |-> "fixed", is |-> "A IN"]
RecordCell(r) == [kind |-> "record", opt |-> r.opt, ext |-> r.ext, rdata |-> r.rdata]

LEMMA FixedCellTyped == FixedCell \in CellType /\ FixedCell.is = "A IN" /\ FixedCell.kind = "fixed"
BY DEF FixedCell, CellType

LEMMA RecordCellTyped ==
    ASSUME NEW r \in RecordType
    PROVE  /\ RecordCell(r) \in CellType /\ RecordCell(r).kind = "record"
           /\ RecordCell(r).opt = r.opt /\ RecordCell(r).ext = r.ext /\ RecordCell(r).rdata = r.rdata
BY DEF RecordCell, CellType, RecordType

LEMMA OneMore ==
    ASSUME NEW S, NEW s \in Seq(S), NEW e \in S
    PROVE  /\ s \o <<e>> \in Seq(S) /\ Len(s \o <<e>>) = Len(s) + 1
           /\ \A j \in 1..Len(s) : (s \o <<e>>)[j] = s[j]
           /\ (s \o <<e>>)[Len(s) + 1] = e
<1>1. <<e>> \in Seq(S) /\ Len(<<e>>) = 1 /\ Len(s) \in Nat
  BY LenProperties
<1> DEFINE t == <<e>>
<1>2. t[1] = e
  OBVIOUS
<1> HIDE DEF t
<1>3. /\ s \o t \in Seq(S) /\ Len(s \o t) = Len(s) + Len(t)
      /\ \A i \in 1..(Len(s) + Len(t)) : (s \o t)[i] = IF i <= Len(s) THEN s[i] ELSE t[i - Len(s)]
  BY <1>1, ConcatProperties DEF t
<1>4. Len(t) = 1
  BY <1>1 DEF t
<1>5. \A j \in 1..Len(s) : j \in 1..(Len(s) + 1) /\ j <= Len(s)
  BY <1>1
<1>6. Len(s) + 1 \in 1..(Len(s) + 1) /\ ~(Len(s) + 1 <= Len(s)) /\ (Len(s) + 1) - Len(s) = 1
  BY <1>1
<1>7. \A j \in 1..Len(s) : (s \o t)[j] = s[j]
  BY <1>3, <1>4, <1>5
<1>8. (s \o t)[Len(s) + 1] = e
  BY <1>2, <1>3, <1>4, <1>6
<1> QED BY <1>3, <1>4, <1>7, <1>8 DEF t

LEMMA QuestionCellsAre ==
    ASSUME NEW q, IsName(q)
    PROVE  /\ QuestionCells(q) \in Seq(CellType) /\ Len(QuestionCells(q)) = Len(q) + 1
           /\ \A j \in 1..Len(q) : QuestionCells(q)[j] = NameCells(q)[j]
           /\ QuestionCells(q)[Len(q) + 1] = FixedCell
<1>1. QuestionCells(q) = NameCells(q) \o <<FixedCell>>
  BY DEF QuestionCells, FixedCell
<1>2. NameCells(q) \in Seq(CellType) /\ Len(NameCells(q)) = Len(q)
  BY NameCellsAre
<1> DEFINE s == NameCells(q)
           e == FixedCell
<1>3. s \in Seq(CellType) /\ e \in CellType
  BY <1>2, FixedCellTyped
<1> HIDE DEF s, e
<1>4. /\ s \o <<e>> \in Seq(CellType) /\ Len(s \o <<e>>) = Len(s) + 1
      /\ \A j \in 1..Len(s) : (s \o <<e>>)[j] = s[j]
      /\ (s \o <<e>>)[Len(s) + 1] = e
  BY <1>3, OneMore
<1> QED BY <1>1, <1>2, <1>4 DEF s, e

LEMMA RecordCellsAre ==
    ASSUME NEW r \in RecordType, IsName(r.name)
    PROVE  /\ RecordCells(r) \in Seq(CellType) /\ Len(RecordCells(r)) = Len(r.name) + 1 + r.rdata
           /\ \A j \in 1..Len(r.name) : RecordCells(r)[j] = NameCells(r.name)[j]
           /\ RecordCells(r)[Len(r.name) + 1] = RecordCell(r)
<1> DEFINE n == Len(r.name)
           head == NameCells(r.name) \o <<RecordCell(r)>>
           data == [i \in 1..r.rdata |-> [kind |-> "root", is |-> "rdata"]]
<1>1. RecordCells(r) = head \o data
  BY DEF RecordCells, RecordCell
<1>2. NameCells(r.name) \in Seq(CellType) /\ Len(NameCells(r.name)) = n /\ n \in Nat
  BY NameCellsAre
<1>3. r.rdata \in Nat
  BY DEF RecordType
<1>4. data \in Seq(CellType) /\ Len(data) = r.rdata
  <2>1. [kind |-> "root", is |-> "rdata"] \in CellType
    BY DEF CellType
  <2> QED BY <1>3, <2>1
<1> HIDE DEF data
<1>5. /\ head \in Seq(CellType) /\ Len(head) = n + 1
      /\ \A j \in 1..n : head[j] = NameCells(r.name)[j]
      /\ head[n + 1] = RecordCell(r)
  <2> DEFINE s == NameCells(r.name)
             e == RecordCell(r)
  <2>1. s \in Seq(CellType) /\ e \in CellType
    BY <1>2, RecordCellTyped
  <2> HIDE DEF s, e
  <2>2. /\ s \o <<e>> \in Seq(CellType) /\ Len(s \o <<e>>) = Len(s) + 1
        /\ \A j \in 1..Len(s) : (s \o <<e>>)[j] = s[j]
        /\ (s \o <<e>>)[Len(s) + 1] = e
    BY <2>1, OneMore
  <2> QED BY <1>2, <2>2 DEF s, e
<1> HIDE DEF head, n
<1>6. /\ head \o data \in Seq(CellType) /\ Len(head \o data) = n + 1 + r.rdata
      /\ \A i \in 1..(n + 1 + r.rdata) : i <= n + 1 => (head \o data)[i] = head[i]
  <2>1. /\ head \o data \in Seq(CellType) /\ Len(head \o data) = Len(head) + Len(data)
        /\ \A i \in 1..(Len(head) + Len(data)) :
              (head \o data)[i] = IF i <= Len(head) THEN head[i] ELSE data[i - Len(head)]
    BY <1>4, <1>5, ConcatProperties
  <2>2. Len(head) + Len(data) = n + 1 + r.rdata
    BY <1>2, <1>3, <1>4, <1>5
  <2> QED BY <1>5, <2>1, <2>2
<1>7. \A j \in 1..n : j \in 1..(n + 1 + r.rdata) /\ j <= n + 1
  BY <1>2, <1>3
<1>8. n + 1 \in 1..(n + 1 + r.rdata) /\ n + 1 <= n + 1
  BY <1>2, <1>3
<1>9. \A j \in 1..n : (head \o data)[j] = NameCells(r.name)[j]
  BY <1>5, <1>6, <1>7
<1> QED BY <1>1, <1>5, <1>6, <1>8, <1>9 DEF n

\* Where reading is, and what it makes of what has come up to position a.
ReadState == [pos : Nat, ext : Nat]
ReadUpto(a, e) == IF a <= Came THEN [pos |-> a + 1, ext |-> e] ELSE Bad

LEMMA ReadTyped ==
    ASSUME answer.cells \in Seq(CellType), NEW s \in ReadState
    PROVE  AfterQuestion(s) \in ReadState /\ OneRecord(s) \in ReadState
<1>1. s.pos \in Nat /\ s.ext \in Nat /\ Bad \in ReadState
  BY DEF ReadState, Bad
<1> DEFINE p == IF s.pos = 0 THEN 0 ELSE SkipName(s.pos)
<1>2. p \in Nat
  BY <1>1, SkipsTyped
<1>3. AfterQuestion(s) = IF p = 0 \/ p > Came THEN Bad ELSE [pos |-> p + 1, ext |-> s.ext]
  BY DEF AfterQuestion, Came
<1>4. OneRecord(s) = IF p = 0 \/ Cell(p).kind # "record" \/ AfterRecord(p) > Came + 1 THEN Bad
                     ELSE [pos |-> AfterRecord(p), ext |-> IF Cell(p).opt THEN Cell(p).ext ELSE s.ext]
  BY DEF OneRecord, Came
<1> HIDE DEF p
<1>5. AfterQuestion(s) \in ReadState
  <2>1. [pos |-> p + 1, ext |-> s.ext] \in ReadState
    BY <1>1, <1>2 DEF ReadState
  <2> QED BY <1>1, <1>3, <2>1
<1>6. CASE Cell(p).kind = "record"
  <2>1. Cell(p).ext \in Nat /\ Cell(p).rdata \in Nat
    BY <1>6, CellsTyped
  <2>2. AfterRecord(p) \in Nat
    BY <1>2, <2>1 DEF AfterRecord
  <2>3. [pos |-> AfterRecord(p), ext |-> IF Cell(p).opt THEN Cell(p).ext ELSE s.ext] \in ReadState
    BY <1>1, <2>1, <2>2 DEF ReadState
  <2> QED BY <1>1, <1>4, <1>5, <2>3
<1>7. CASE Cell(p).kind # "record"
  BY <1>1, <1>4, <1>5, <1>7
<1> QED BY <1>6, <1>7

LEMMA QuestionRead ==
    ASSUME answer.cells \in Seq(CellType), NEW a \in Nat, NEW q, IsName(q), Comes(QuestionCells(q), a)
    PROVE  AfterQuestion(ReadUpto(a, 0)) = ReadUpto(a + Len(QuestionCells(q)), 0)
<1> DEFINE n == Len(q)
<1>0. Came \in Nat /\ n \in Nat /\ n >= 1 /\ Len(NameCells(q)) = n /\ Len(QuestionCells(q)) = n + 1
  BY CellsTyped, NameCellsAre, QuestionCellsAre
<1>1. Comes(NameCells(q), a)
  <2> HIDE DEF n
  <2> SUFFICES ASSUME NEW j \in 1..n, a + j <= Came PROVE Cell(a + j) = NameCells(q)[j]
    BY <1>0 DEF Comes
  <2>1. j \in 1..(n + 1)
    BY <1>0
  <2> QED BY <1>0, <2>1, QuestionCellsAre DEF Comes, n
<1>2. SkipName(a + 1) = IF a + n <= Came THEN a + n + 1 ELSE 0
  BY <1>1, SkipsName
<1> HIDE DEF n
<1>3. CASE a <= Came
  <2>1. ReadUpto(a, 0).pos = a + 1 /\ ReadUpto(a, 0).ext = 0 /\ a + 1 # 0
    BY <1>3 DEF ReadUpto
  <2> DEFINE p == SkipName(a + 1)
  <2>2. AfterQuestion(ReadUpto(a, 0)) = IF p = 0 \/ p > Came THEN Bad ELSE [pos |-> p + 1, ext |-> 0]
    BY <2>1 DEF AfterQuestion, Came
  <2>3. p = IF a + n <= Came THEN a + n + 1 ELSE 0
    BY <1>2
  <2> HIDE DEF p
  <2>4. CASE a + (n + 1) <= Came
    <3>1. p = a + n + 1 /\ p # 0 /\ ~(p > Came) /\ p = a + (n + 1)
      BY <1>0, <2>3, <2>4
    <3> QED BY <1>0, <2>2, <2>4, <3>1 DEF ReadUpto
  <2>5. CASE ~(a + (n + 1) <= Came)
    <3>1. p = 0 \/ p > Came
      BY <1>0, <2>3, <2>5
    <3> QED BY <1>0, <2>2, <2>5, <3>1 DEF ReadUpto
  <2> QED BY <2>4, <2>5
<1>4. CASE ~(a <= Came)
  <2>1. ~(a + (n + 1) <= Came)
    BY <1>0, <1>4
  <2>2. AfterQuestion(Bad) = Bad
    BY DEF AfterQuestion, Bad
  <2> QED BY <1>0, <1>4, <2>1, <2>2 DEF ReadUpto
<1> QED BY <1>3, <1>4

LEMMA RecordRead ==
    ASSUME answer.cells \in Seq(CellType), NEW a \in Nat, NEW r \in RecordType, IsName(r.name),
           Comes(RecordCells(r), a), NEW e
    PROVE  OneRecord(ReadUpto(a, e)) = ReadUpto(a + Len(RecordCells(r)), IF r.opt THEN r.ext ELSE e)
<1> DEFINE n == Len(r.name)
           d == r.rdata
           size == n + 1 + d
           x == IF r.opt THEN r.ext ELSE e
<1>0. /\ Came \in Nat /\ n \in Nat /\ n >= 1 /\ d \in Nat /\ Len(NameCells(r.name)) = n
      /\ Len(RecordCells(r)) = size
  BY CellsTyped, NameCellsAre, RecordCellsAre DEF RecordType
<1>1. Comes(NameCells(r.name), a)
  <2> HIDE DEF n, size
  <2> SUFFICES ASSUME NEW j \in 1..n, a + j <= Came PROVE Cell(a + j) = NameCells(r.name)[j]
    BY <1>0 DEF Comes
  <2>1. j \in 1..size
    BY <1>0 DEF size
  <2> QED BY <1>0, <2>1, RecordCellsAre DEF Comes, n
<1>2. SkipName(a + 1) = IF a + n <= Came THEN a + n + 1 ELSE 0
  BY <1>1, SkipsName
<1>3. a + n + 1 <= Came => Cell(a + n + 1) = RecordCell(r)
  <2>1. n + 1 \in 1..size /\ a + (n + 1) = a + n + 1
    BY <1>0
  <2> QED BY <1>0, <2>1, RecordCellsAre DEF Comes
<1>4. Cell(a + n + 1).kind = "record" <=> a + n + 1 <= Came
  <2>1. CASE a + n + 1 <= Came
    BY <1>3, <2>1, RecordCellTyped
  <2>2. CASE ~(a + n + 1 <= Came)
    <3>1. a + n + 1 \notin 1..Came
      BY <1>0, <2>2
    <3> QED BY <2>2, <3>1, CellsTyped, KindsDiffer
  <2> QED BY <2>1, <2>2
<1> DEFINE p == SkipName(a + 1)
<1>5. CASE a <= Came
  <2>1. ReadUpto(a, e).pos = a + 1 /\ ReadUpto(a, e).ext = e /\ a + 1 # 0
    BY <1>5 DEF ReadUpto
  <2>2. OneRecord(ReadUpto(a, e)) =
           IF p = 0 \/ Cell(p).kind # "record" \/ AfterRecord(p) > Came + 1 THEN Bad
           ELSE [pos |-> AfterRecord(p), ext |-> IF Cell(p).opt THEN Cell(p).ext ELSE e]
    BY <2>1 DEF OneRecord, Came
  <2>3. CASE a + n + 1 <= Came
    <3>1. p = a + n + 1 /\ p # 0
      <4> HIDE DEF n
      <4> QED BY <1>0, <1>2, <2>3
    <3>2. Cell(p) = RecordCell(r) /\ Cell(p).kind = "record"
      BY <1>3, <1>4, <2>3, <3>1
    <3>3. Cell(p).opt = r.opt /\ Cell(p).ext = r.ext /\ Cell(p).rdata = d
      BY <3>2, RecordCellTyped
    <3>4. AfterRecord(p) = (a + size) + 1
      <4>1. AfterRecord(p) = p + 1 + d
        BY <3>3 DEF AfterRecord
      <4> HIDE DEF p, n, d
      <4> QED BY <1>0, <3>1, <4>1
    <3>5. OneRecord(ReadUpto(a, e)) =
             IF AfterRecord(p) > Came + 1 THEN Bad ELSE [pos |-> AfterRecord(p), ext |-> x]
      BY <2>2, <3>1, <3>2, <3>3
    <3>6. AfterRecord(p) > Came + 1 <=> ~(a + size <= Came)
      <4>1. size \in Nat
        BY <1>0
      <4> HIDE DEF size, p
      <4> QED BY <1>0, <3>4, <4>1
    <3> HIDE DEF size, p, x
    <3>7. OneRecord(ReadUpto(a, e)) = ReadUpto(a + size, x)
      BY <3>4, <3>5, <3>6 DEF ReadUpto
    <3> QED BY <1>0, <3>7 DEF x
  <2>4. CASE ~(a + n + 1 <= Came)
    <3>1. p = 0 \/ p = a + n + 1
      BY <1>2
    <3>2. p = 0 \/ Cell(p).kind # "record"
      BY <1>4, <2>4, <3>1
    <3>3. ~(a + size <= Came)
      <4> HIDE DEF n, d
      <4> QED BY <1>0, <2>4
    <3>4. OneRecord(ReadUpto(a, e)) = Bad
      BY <2>2, <3>2
    <3> HIDE DEF size, p
    <3> QED BY <1>0, <3>3, <3>4 DEF ReadUpto
  <2> QED BY <2>3, <2>4
<1>6. CASE ~(a <= Came)
  <2>1. ~(a + size <= Came)
    <3> HIDE DEF n, d
    <3> QED BY <1>0, <1>6
  <2>2. OneRecord(Bad) = Bad
    BY DEF OneRecord, Bad
  <2> HIDE DEF size
  <2> QED BY <1>0, <1>6, <2>1, <2>2 DEF ReadUpto
<1> QED BY <1>5, <1>6

\* The two loops of opt_extended_rcode.
LEMMA ExtendedSteps ==
    ASSUME answer.cells \in Seq(CellType), NEW K \in Nat, NEW R \in Nat,
           K = Len(answer.meant.questions), R = Len(answer.meant.records)
    PROVE  \E qs \in [0..K -> ReadState], rs \in [0..R -> ReadState] :
              /\ qs[0] = [pos |-> 1, ext |-> 0] /\ rs[0] = qs[K] /\ Extended = rs[R]
              /\ \A k \in 1..K : qs[k] = AfterQuestion(qs[k - 1])
              /\ \A k \in 1..R : rs[k] = OneRecord(rs[k - 1])
<1> DEFINE first == [pos |-> 1, ext |-> 0]
           QBody(g, k) == IF k = 0 THEN first ELSE AfterQuestion(g[k - 1])
           questions == CHOOSE g : g = [k \in 0..Len(answer.meant.questions) |-> QBody(g, k)]
           RBody(g, k) == IF k = 0 THEN questions[Len(answer.meant.questions)] ELSE OneRecord(g[k - 1])
           records == CHOOSE g : g = [k \in 0..Len(answer.meant.records) |-> RBody(g, k)]
<1>1. Extended = records[Len(answer.meant.records)]
  BY DEF Extended
<1>2. /\ questions \in [0..K -> ReadState] /\ questions[0] = first
      /\ \A k \in 1..K : questions[k] = AfterQuestion(questions[k - 1])
  <2> DEFINE V == ReadState
             G == [k \in 1..K |-> [s \in V |-> AfterQuestion(s)]]
             D == 0..Len(answer.meant.questions)
  <2>0. D = 0..K /\ \A k \in 0..K : k # 0 => k \in 1..K /\ k - 1 \in 0..K
    OBVIOUS
  <2>1. first \in V
    BY DEF ReadState
  <2>2. \A s \in V : AfterQuestion(s) \in V
    BY ReadTyped
  <2> HIDE DEF V, first, D
  <2>3. G \in [1..K -> [V -> V]]
    BY <2>2
  <2>4. PICK g \in [0..K -> V] : g[0] = first /\ \A k \in 1..K : g[k] = G[k][g[k - 1]]
    <3> HIDE DEF G
    <3>1. Stepwise(K, V, first, G)
      BY <2>1, <2>3 DEF Stepwise
    <3> QED BY <3>1, Iterated
  <2>5. ASSUME NEW k \in 0..K PROVE g[k] = QBody(g, k)
    <3>1. CASE k # 0
      <4>1. k \in 1..K /\ g[k - 1] \in V
        BY <2>0, <2>4, <3>1
      <4>2. G[k][g[k - 1]] = AfterQuestion(g[k - 1])
        BY <4>1
      <4> HIDE DEF G
      <4> QED BY <2>4, <3>1, <4>1, <4>2
    <3>2. CASE k = 0
      BY <2>4, <3>2
    <3> QED BY <3>1, <3>2
  <2> HIDE DEF QBody, G
  <2>6. g = [k \in D |-> QBody(g, k)]
    BY <2>0, <2>4, <2>5
  <2>7. questions = [k \in D |-> QBody(questions, k)]
    BY <2>6 DEF D
  <2> HIDE DEF questions
  <2>8. \A k \in 0..K : questions[k] = QBody(questions, k)
    BY <2>0, <2>7
  <2>9. questions[0] = first /\ \A k \in 1..K : questions[k] = AfterQuestion(questions[k - 1])
    <3>1. 0 \in 0..K /\ \A k \in 1..K : k \in 0..K /\ k # 0
      OBVIOUS
    <3> QED BY <2>8, <3>1 DEF QBody
  <2>10. \A k \in Nat : k \in 0..K => questions[k] \in V
    <3> DEFINE T == {k \in Nat : k \in 0..K => questions[k] \in V}
    <3>1. 0 \in T
      BY <2>1, <2>9
    <3>2. ASSUME NEW k \in Nat, k \in T PROVE k + 1 \in T
      <4> SUFFICES ASSUME k + 1 \in 0..K PROVE questions[k + 1] \in V
        OBVIOUS
      <4>1. k \in 0..K /\ k + 1 \in 1..K /\ (k + 1) - 1 = k
        BY <3>2
      <4>2. questions[k + 1] = AfterQuestion(questions[k])
        BY <2>9, <4>1
      <4> QED BY <2>2, <3>2, <4>1, <4>2
    <3> HIDE DEF T
    <3>3. Nat \subseteq T
      BY <3>1, <3>2, NatIsAll
    <3> QED BY <3>3 DEF T
  <2>11. questions \in [0..K -> V]
    <3>1. \A k \in 0..K : questions[k] \in V
      BY <2>10
    <3>2. questions = [k \in 0..K |-> questions[k]]
      BY <2>0, <2>7, <2>8
    <3> QED BY <3>1, <3>2
  <2> QED BY <2>9, <2>11 DEF V
<1> HIDE DEF questions, QBody
<1>3. /\ records \in [0..R -> ReadState] /\ records[0] = questions[K]
      /\ \A k \in 1..R : records[k] = OneRecord(records[k - 1])
  <2> DEFINE V == ReadState
             G == [k \in 1..R |-> [s \in V |-> OneRecord(s)]]
             D == 0..Len(answer.meant.records)
             c == questions[Len(answer.meant.questions)]
  <2>0. D = 0..R /\ c = questions[K] /\ \A k \in 0..R : k # 0 => k \in 1..R /\ k - 1 \in 0..R
    OBVIOUS
  <2>1. c \in V
    BY <1>2, <2>0
  <2>2. \A s \in V : OneRecord(s) \in V
    BY ReadTyped
  <2> HIDE DEF V, c, D
  <2>3. G \in [1..R -> [V -> V]]
    BY <2>2
  <2>4. PICK g \in [0..R -> V] : g[0] = c /\ \A k \in 1..R : g[k] = G[k][g[k - 1]]
    <3> HIDE DEF G
    <3>1. Stepwise(R, V, c, G)
      BY <2>1, <2>3 DEF Stepwise
    <3> QED BY <3>1, Iterated
  <2>5. ASSUME NEW k \in 0..R PROVE g[k] = RBody(g, k)
    <3>1. CASE k # 0
      <4>1. k \in 1..R /\ g[k - 1] \in V
        BY <2>0, <2>4, <3>1
      <4>2. G[k][g[k - 1]] = OneRecord(g[k - 1])
        BY <4>1
      <4> HIDE DEF G
      <4> QED BY <2>4, <3>1, <4>1, <4>2
    <3>2. CASE k = 0
      BY <2>4, <3>2 DEF c
    <3> QED BY <3>1, <3>2
  <2> HIDE DEF RBody, G
  <2>6. g = [k \in D |-> RBody(g, k)]
    BY <2>0, <2>4, <2>5
  <2>7. records = [k \in D |-> RBody(records, k)]
    BY <2>6 DEF D
  <2> HIDE DEF records
  <2>8. \A k \in 0..R : records[k] = RBody(records, k)
    BY <2>0, <2>7
  <2>9. records[0] = c /\ \A k \in 1..R : records[k] = OneRecord(records[k - 1])
    <3>1. 0 \in 0..R /\ \A k \in 1..R : k \in 0..R /\ k # 0
      OBVIOUS
    <3> QED BY <2>8, <3>1 DEF RBody, c
  <2>10. \A k \in Nat : k \in 0..R => records[k] \in V
    <3> DEFINE T == {k \in Nat : k \in 0..R => records[k] \in V}
    <3>1. 0 \in T
      BY <2>1, <2>9
    <3>2. ASSUME NEW k \in Nat, k \in T PROVE k + 1 \in T
      <4> SUFFICES ASSUME k + 1 \in 0..R PROVE records[k + 1] \in V
        OBVIOUS
      <4>1. k \in 0..R /\ k + 1 \in 1..R /\ (k + 1) - 1 = k
        BY <3>2
      <4>2. records[k + 1] = OneRecord(records[k])
        BY <2>9, <4>1
      <4> QED BY <2>2, <3>2, <4>1, <4>2
    <3> HIDE DEF T
    <3>3. Nat \subseteq T
      BY <3>1, <3>2, NatIsAll
    <3> QED BY <3>3 DEF T
  <2>11. records \in [0..R -> V]
    <3>1. \A k \in 0..R : records[k] \in V
      BY <2>10
    <3>2. records = [k \in 0..R |-> records[k]]
      BY <2>0, <2>7, <2>8
    <3> QED BY <3>1, <3>2
  <2> QED BY <2>0, <2>9, <2>11 DEF V
<1>4. Extended = records[R]
  BY <1>1
<1> HIDE DEF records
<1> QED BY <1>2, <1>3, <1>4

\* The extended rcode of the last OPT record among the first k records.
OptsUpto(m, k) == {i \in 1..k : m.records[i].opt}
ExtUpto(m, k) == IF OptsUpto(m, k) = {} THEN 0 ELSE m.records[Max(OptsUpto(m, k))].ext

LEMMA ExtNext ==
    ASSUME NEW m, NEW k \in Nat, k >= 1
    PROVE  ExtUpto(m, k) = IF m.records[k].opt THEN m.records[k].ext ELSE ExtUpto(m, k - 1)
<1> DEFINE S == OptsUpto(m, k)
<1>1. CASE m.records[k].opt
  <2>1. S \subseteq 0..k /\ k \in S
    BY <1>1 DEF OptsUpto
  <2>2. \A i \in S : i <= k /\ i \in Int
    BY <2>1
  <2> HIDE DEF S
  <2>3. Max(S) \in S /\ \A i \in S : i <= Max(S)
    BY <2>1, MaxIsGreatest
  <2>4. Max(S) <= k /\ Max(S) \in Int /\ k <= Max(S)
    BY <2>1, <2>2, <2>3
  <2>5. Max(S) = k
    <3> DEFINE x == Max(S)
    <3>1. x <= k /\ x \in Int /\ k <= x
      BY <2>4
    <3> HIDE DEF x
    <3>2. x = k
      BY <3>1
    <3> QED BY <3>2 DEF x
  <2> QED BY <1>1, <2>1, <2>5 DEF ExtUpto, S
<1>2. CASE ~m.records[k].opt
  <2>1. S = OptsUpto(m, k - 1)
    BY <1>2 DEF OptsUpto
  <2> QED BY <1>2, <2>1 DEF ExtUpto
<1> QED BY <1>1, <1>2

\* A message and the cells of it that have come.
Arrived(m, n) ==
    /\ IsMessage(m) /\ n \in 0..Len(Encoding(m))
    /\ answer = [meant |-> m, cells |-> SubSeq(Encoding(m), 1, n)]

QuestionParts(m) == [i \in 1..Len(m.questions) |-> QuestionCells(m.questions[i])]
RecordParts(m) == [i \in 1..Len(m.records) |-> RecordCells(m.records[i])]

LEMMA MessageParts ==
    ASSUME NEW m, IsMessage(m)
    PROVE  /\ Len(m.questions) \in Nat /\ Len(m.records) \in Nat
           /\ QuestionParts(m) \in Seq(Seq(CellType)) /\ Len(QuestionParts(m)) = Len(m.questions)
           /\ RecordParts(m) \in Seq(Seq(CellType)) /\ Len(RecordParts(m)) = Len(m.records)
           /\ \A k \in 1..Len(m.questions) : QuestionParts(m)[k] = QuestionCells(m.questions[k])
           /\ \A k \in 1..Len(m.records) : /\ RecordParts(m)[k] = RecordCells(m.records[k])
                                           /\ m.records[k] \in RecordType
<1> DEFINE K == Len(m.questions)
           R == Len(m.records)
<1>1. /\ K \in Nat /\ R \in Nat
      /\ \A k \in 1..K : IsName(m.questions[k])
      /\ \A k \in 1..R : m.records[k] \in RecordType /\ IsName(m.records[k].name)
  <2>1. /\ m.questions \in Seq(Seq(STRING)) /\ m.records \in Seq(RecordType)
        /\ \A k \in 1..K : IsName(m.questions[k])
        /\ \A k \in 1..R : IsName(m.records[k].name)
    BY DEF IsMessage, RecordType
  <2>2. K \in Nat /\ R \in Nat /\ \A k \in 1..R : m.records[k] \in RecordType
    BY <2>1, LenProperties, ElementOfSeq
  <2> QED BY <2>1, <2>2
<1>2. \A k \in 1..K : QuestionCells(m.questions[k]) \in Seq(CellType)
  BY <1>1, QuestionCellsAre
<1>3. \A k \in 1..R : RecordCells(m.records[k]) \in Seq(CellType)
  BY <1>1, RecordCellsAre
<1> DEFINE V == Seq(CellType)
           a(k) == QuestionCells(m.questions[k])
           b(k) == RecordCells(m.records[k])
<1>4. QuestionParts(m) = [k \in 1..K |-> a(k)] /\ RecordParts(m) = [k \in 1..R |-> b(k)]
  BY DEF QuestionParts, RecordParts
<1>5. (\A k \in 1..K : a(k) \in V) /\ (\A k \in 1..R : b(k) \in V)
  BY <1>2, <1>3
<1> HIDE DEF K, R, V, a, b
<1>6. QuestionParts(m) \in Seq(V) /\ Len(QuestionParts(m)) = K
  <2>1. [k \in 1..K |-> a(k)] \in Seq(V)
    BY <1>1, <1>5, IsASeq
  <2>2. DOMAIN QuestionParts(m) = 1..K
    BY <1>4
  <2> QED BY <1>1, <1>4, <2>1, <2>2, LenProperties
<1>7. RecordParts(m) \in Seq(V) /\ Len(RecordParts(m)) = R
  <2>1. [k \in 1..R |-> b(k)] \in Seq(V)
    BY <1>1, <1>5, IsASeq
  <2>2. DOMAIN RecordParts(m) = 1..R
    BY <1>4
  <2> QED BY <1>1, <1>4, <2>1, <2>2, LenProperties
<1>8. (\A k \in 1..K : QuestionParts(m)[k] = a(k)) /\ (\A k \in 1..R : RecordParts(m)[k] = b(k))
  BY <1>4
<1> QED BY <1>1, <1>6, <1>7, <1>8 DEF K, R, V, a, b

LEMMA ArrivedCells ==
    ASSUME NEW m, NEW n, Arrived(m, n)
    PROVE  /\ Encoding(m) \in Seq(CellType) /\ Len(Encoding(m)) \in Nat
           /\ answer.cells \in Seq(CellType) /\ Came = n /\ n \in 0..Len(Encoding(m))
           /\ \A i \in 1..n : Cell(i) = Encoding(m)[i]
           /\ answer.meant = m /\ IsMessage(m)
           /\ Encoding(m) = FlattenSeq(QuestionParts(m)) \o FlattenSeq(RecordParts(m))
           /\ FlattenSeq(QuestionParts(m)) \in Seq(CellType)
           /\ FlattenSeq(RecordParts(m)) \in Seq(CellType)
<1> DEFINE E == Encoding(m)
<1>1. IsMessage(m) /\ n \in 0..Len(E) /\ answer.meant = m /\ answer.cells = SubSeq(E, 1, n)
  BY DEF Arrived
<1>2. E = FlattenSeq(QuestionParts(m)) \o FlattenSeq(RecordParts(m))
  BY DEF Encoding, QuestionParts, RecordParts
<1>3. FlattenSeq(QuestionParts(m)) \in Seq(CellType) /\ FlattenSeq(RecordParts(m)) \in Seq(CellType)
  BY <1>1, MessageParts, FlattenedParts
<1>4. E \in Seq(CellType)
  BY <1>2, <1>3, ConcatProperties
<1> HIDE DEF E
<1>5. Len(E) \in Nat /\ \A i \in 1..Len(E) : E[i] \in CellType
  BY <1>4, LenProperties, ElementOfSeq
<1>6. n \in Int /\ 1 \in Int /\ n \in Nat /\ \A i \in 1..n : E[i] \in CellType
  BY <1>1, <1>5
<1> DEFINE c == SubSeq(E, 1, n)
<1>7. c \in Seq(CellType) /\ Len(c) = n /\ \A i \in 1..n : c[i] = E[i]
  <2>1. /\ c \in Seq(CellType) /\ Len(c) = IF 1 <= n THEN n - 1 + 1 ELSE 0
        /\ \A i \in 1..(n - 1 + 1) : c[i] = E[1 + i - 1]
    BY <1>6, SubSeqProperties
  <2> HIDE DEF c
  <2>2. \A i \in 1..n : i \in 1..(n - 1 + 1) /\ 1 + i - 1 = i
    BY <1>6
  <2> QED BY <1>6, <2>1, <2>2
<1> HIDE DEF c
<1>8. answer.cells = c
  BY <1>1 DEF c
<1>9. \A i \in 1..n : Cell(i) = E[i]
  BY <1>7, <1>8 DEF Cell
<1> QED BY <1>1, <1>2, <1>3, <1>4, <1>5, <1>7, <1>8, <1>9 DEF Came, E

\* The parts ss lie in the encoding of m behind position B.
LieIn(m, ss, offset, B) ==
    /\ ss \in Seq(Seq(CellType)) /\ PartsAt(ss, offset) /\ B \in Nat
    /\ \A i \in 1..Len(FlattenSeq(ss)) : Encoding(m)[B + i] = FlattenSeq(ss)[i]

LEMMA PartsCome ==
    ASSUME NEW m, NEW n, Arrived(m, n), NEW ss, NEW offset, NEW B, LieIn(m, ss, offset, B)
    PROVE  \A k \in 1..Len(ss) : /\ offset[k - 1] \in Nat /\ offset[k] = offset[k - 1] + Len(ss[k])
                                 /\ Comes(ss[k], B + offset[k - 1])
<1> SUFFICES ASSUME NEW k \in 1..Len(ss)
             PROVE  /\ offset[k - 1] \in Nat /\ offset[k] = offset[k - 1] + Len(ss[k])
                    /\ Comes(ss[k], B + offset[k - 1])
  OBVIOUS
<1>0. /\ ss \in Seq(Seq(CellType)) /\ PartsAt(ss, offset) /\ B \in Nat
      /\ \A i \in 1..Len(FlattenSeq(ss)) : Encoding(m)[B + i] = FlattenSeq(ss)[i]
  BY DEF LieIn
<1> DEFINE N == Len(ss)
           L == Len(ss[k])
           s == offset[k - 1]
<1>1. N \in Nat /\ L \in Nat
  <2>1. N \in Nat /\ ss[k] \in Seq(CellType)
    BY <1>0, LenProperties, ElementOfSeq
  <2> QED BY <2>1, LenProperties
<1>2. k - 1 \in 0..N /\ k \in 0..N /\ N \in 0..N
  BY <1>1
<1>3. s \in Nat /\ offset[k] \in Nat /\ offset[N] \in Nat /\ offset[N] = Len(FlattenSeq(ss))
  BY <1>0, <1>2 DEF PartsAt
<1>4. offset[k] = s + L /\ offset[k] <= offset[N] /\ \A j \in 1..L : FlattenSeq(ss)[s + j] = ss[k][j]
  BY <1>0 DEF PartsAt
<1>5. Came = n /\ n \in Nat /\ \A i \in 1..n : Cell(i) = Encoding(m)[i]
  <2>1. Came = n /\ n \in 0..Len(Encoding(m)) /\ Len(Encoding(m)) \in Nat
        /\ \A i \in 1..n : Cell(i) = Encoding(m)[i]
    BY ArrivedCells
  <2> QED BY <2>1
<1>6. ASSUME NEW j \in 1..L, (B + s) + j <= Came PROVE Cell((B + s) + j) = ss[k][j]
  <2> HIDE DEF N, L, s
  <2>1. s + j \in 1..offset[N] /\ (B + s) + j = B + (s + j) /\ (B + s) + j \in 1..n
    BY <1>0, <1>1, <1>3, <1>4, <1>5, <1>6
  <2>2. Encoding(m)[B + (s + j)] = FlattenSeq(ss)[s + j]
    BY <1>0, <1>3, <2>1
  <2>3. Cell((B + s) + j) = Encoding(m)[B + (s + j)]
    BY <1>5, <2>1
  <2> QED BY <1>4, <2>2, <2>3
<1> QED BY <1>3, <1>4, <1>6 DEF Comes

\* Of a whole message opt_extended_rcode finds the last OPT record, and of any other
\* that its body is malformed.
LEMMA ExtendedTrue ==
    ASSUME NEW m, NEW n, Arrived(m, n)
    PROVE  Extended = IF n = Len(Encoding(m))
                      THEN [pos |-> n + 1, ext |-> ExtUpto(m, Len(m.records))] ELSE Bad
<1> DEFINE E == Encoding(m)
           qp == QuestionParts(m)
           rp == RecordParts(m)
           Q == FlattenSeq(qp)
           P == FlattenSeq(rp)
           B == Len(Q)
           K == Len(m.questions)
           R == Len(m.records)
<1>1. /\ answer.cells \in Seq(CellType) /\ Came = n /\ n \in 0..Len(E) /\ Len(E) \in Nat
      /\ answer.meant = m /\ IsMessage(m)
      /\ E = Q \o P /\ Q \in Seq(CellType) /\ P \in Seq(CellType)
  BY ArrivedCells
<1>2. /\ K \in Nat /\ R \in Nat
      /\ qp \in Seq(Seq(CellType)) /\ Len(qp) = K
      /\ rp \in Seq(Seq(CellType)) /\ Len(rp) = R
      /\ \A k \in 1..K : qp[k] = QuestionCells(m.questions[k]) /\ IsName(m.questions[k])
      /\ \A k \in 1..R : /\ rp[k] = RecordCells(m.records[k])
                         /\ m.records[k] \in RecordType /\ IsName(m.records[k].name)
  BY <1>1, MessageParts DEF IsMessage
<1>3. PICK aq : PartsAt(qp, aq)
  BY <1>2, FlattenedParts
<1>4. PICK ar : PartsAt(rp, ar)
  BY <1>2, FlattenedParts
<1> HIDE DEF qp, rp, K, R
<1>5. /\ B \in Nat /\ Len(P) \in Nat /\ Len(E) = B + Len(P)
      /\ \A i \in 1..B : E[i] = Q[i]
      /\ \A i \in 1..Len(P) : E[B + i] = P[i]
  <2> HIDE DEF E, Q, P
  <2>1. /\ Len(Q) \in Nat /\ Len(P) \in Nat /\ Len(E) = Len(Q) + Len(P)
        /\ \A i \in 1..(Len(Q) + Len(P)) : E[i] = IF i <= Len(Q) THEN Q[i] ELSE P[i - Len(Q)]
    BY <1>1, ConcatProperties, LenProperties
  <2>2. \A i \in 1..B : i \in 1..(Len(Q) + Len(P)) /\ i <= Len(Q)
    BY <2>1
  <2>3. \A i \in 1..Len(P) : B + i \in 1..(Len(Q) + Len(P)) /\ ~(B + i <= Len(Q)) /\ (B + i) - Len(Q) = i
    BY <2>1
  <2>4. ASSUME NEW i \in 1..Len(P) PROVE E[B + i] = P[i]
    <3>1. E[B + i] = P[(B + i) - Len(Q)]
      BY <2>1, <2>3
    <3> QED BY <2>3, <3>1
  <2> QED BY <2>1, <2>2, <2>4
<1>6. PICK qs \in [0..K -> ReadState], rs \in [0..R -> ReadState] :
          /\ qs[0] = [pos |-> 1, ext |-> 0] /\ rs[0] = qs[K] /\ Extended = rs[R]
          /\ \A k \in 1..K : qs[k] = AfterQuestion(qs[k - 1])
          /\ \A k \in 1..R : rs[k] = OneRecord(rs[k - 1])
  <2>1. K = Len(answer.meant.questions) /\ R = Len(answer.meant.records)
    BY <1>1 DEF K, R
  <2> QED BY <1>1, <1>2, <2>1, ExtendedSteps
<1> HIDE DEF E
<1>7. aq[0] = 0 /\ aq[K] = B /\ ar[0] = 0 /\ ar[R] = Len(P)
  BY <1>2, <1>3, <1>4 DEF PartsAt
<1>8. ASSUME NEW k \in 1..K, qs[k - 1] = ReadUpto(aq[k - 1], 0) PROVE qs[k] = ReadUpto(aq[k], 0)
  <2>1. \A i \in 1..Len(FlattenSeq(qp)) : Encoding(m)[0 + i] = FlattenSeq(qp)[i]
    BY <1>5 DEF E
  <2>2. /\ aq[k - 1] \in Nat /\ aq[k] = aq[k - 1] + Len(qp[k])
        /\ Comes(qp[k], 0 + aq[k - 1])
    <3>1. LieIn(m, qp, aq, 0)
      BY <1>2, <1>3, <2>1 DEF LieIn
    <3> QED BY <1>2, <3>1, PartsCome
  <2>3. 0 + aq[k - 1] = aq[k - 1]
    BY <2>2
  <2> DEFINE q == m.questions[k]
             a == aq[k - 1]
  <2>4. IsName(q) /\ a \in Nat /\ Comes(QuestionCells(q), a) /\ aq[k] = a + Len(QuestionCells(q))
    BY <1>2, <2>2, <2>3
  <2> HIDE DEF q, a
  <2>5. AfterQuestion(ReadUpto(a, 0)) = ReadUpto(a + Len(QuestionCells(q)), 0)
    BY <1>1, <2>4, QuestionRead
  <2> QED BY <1>6, <1>8, <2>4, <2>5 DEF a
<1>9. ASSUME NEW k \in 1..R, rs[k - 1] = ReadUpto(B + ar[k - 1], ExtUpto(m, k - 1))
      PROVE  rs[k] = ReadUpto(B + ar[k], ExtUpto(m, k))
  <2>1. \A i \in 1..Len(FlattenSeq(rp)) : Encoding(m)[B + i] = FlattenSeq(rp)[i]
    BY <1>5 DEF E
  <2>2. /\ ar[k - 1] \in Nat /\ ar[k] = ar[k - 1] + Len(rp[k])
        /\ Comes(rp[k], B + ar[k - 1])
    <3>1. LieIn(m, rp, ar, B)
      BY <1>2, <1>4, <1>5, <2>1 DEF LieIn
    <3> HIDE DEF B
    <3> QED BY <1>2, <3>1, PartsCome
  <2> DEFINE r == m.records[k]
             s == ar[k - 1]
             a == B + s
             e == ExtUpto(m, k - 1)
             l == Len(RecordCells(r))
  <2>3. r \in RecordType /\ IsName(r.name) /\ a \in Nat /\ Comes(RecordCells(r), a) /\ ar[k] = s + l
    <3>1. r \in RecordType /\ IsName(r.name) /\ rp[k] = RecordCells(r)
      BY <1>2
    <3>2. a \in Nat
      <4> HIDE DEF B
      <4> QED BY <1>5, <2>2
    <3> HIDE DEF r, B
    <3> QED BY <2>2, <3>1, <3>2
  <2>4. l \in Nat
    BY <2>3, RecordCellsAre, LenProperties
  <2> HIDE DEF r, l
  <2>5. ExtUpto(m, k) = IF r.opt THEN r.ext ELSE e
    BY <1>2, ExtNext DEF r
  <2> HIDE DEF e
  <2>6. OneRecord(ReadUpto(a, e)) = ReadUpto(a + l, IF r.opt THEN r.ext ELSE e)
    <3> HIDE DEF a
    <3> QED BY <1>1, <2>3, RecordRead DEF l
  <2>7. a + l = B + ar[k]
    <3> HIDE DEF Q, P, s
    <3> QED BY <1>5, <2>2, <2>3, <2>4 DEF s
  <2> QED BY <1>6, <1>9, <2>5, <2>6, <2>7 DEF e
<1>10. qs[K] = ReadUpto(B, 0)
  <2> DEFINE T == {k \in Nat : k \in 0..K => qs[k] = ReadUpto(aq[k], 0)}
  <2>1. 0 \in T
    BY <1>1, <1>6, <1>7 DEF ReadUpto
  <2>2. ASSUME NEW k \in Nat, k \in T PROVE k + 1 \in T
    <3> SUFFICES ASSUME k + 1 \in 0..K PROVE qs[k + 1] = ReadUpto(aq[k + 1], 0)
      OBVIOUS
    <3>1. k + 1 \in 1..K /\ (k + 1) - 1 = k /\ k \in 0..K
      <4>1. K \in Nat
        BY <1>2
      <4> HIDE DEF T
      <4> QED BY <4>1
    <3> QED BY <1>8, <2>2, <3>1
  <2> HIDE DEF T
  <2>3. Nat \subseteq T
    BY <2>1, <2>2, NatIsAll
  <2>4. K \in T
    BY <1>2, <2>3
  <2> QED BY <1>2, <1>7, <2>4 DEF T
<1>11. rs[R] = ReadUpto(B + Len(P), ExtUpto(m, R))
  <2> DEFINE T == {k \in Nat : k \in 0..R => rs[k] = ReadUpto(B + ar[k], ExtUpto(m, k))}
  <2>1. 0 \in T
    <3>1. OptsUpto(m, 0) = {}
      BY DEF OptsUpto
    <3>2. ExtUpto(m, 0) = 0 /\ B + ar[0] = B
      BY <1>5, <1>7, <3>1 DEF ExtUpto
    <3> QED BY <1>6, <1>10, <3>2
  <2>2. ASSUME NEW k \in Nat, k \in T PROVE k + 1 \in T
    <3> SUFFICES ASSUME k + 1 \in 0..R PROVE rs[k + 1] = ReadUpto(B + ar[k + 1], ExtUpto(m, k + 1))
      OBVIOUS
    <3>1. k + 1 \in 1..R /\ (k + 1) - 1 = k /\ k \in 0..R
      <4>1. R \in Nat
        BY <1>2
      <4> HIDE DEF T
      <4> QED BY <4>1
    <3>2. rs[k] = ReadUpto(B + ar[k], ExtUpto(m, k))
      BY <2>2, <3>1
    <3>3. rs[(k + 1) - 1] = ReadUpto(B + ar[(k + 1) - 1], ExtUpto(m, (k + 1) - 1))
      BY <3>1, <3>2
    <3> HIDE DEF T
    <3> QED BY <1>9, <3>1, <3>3
  <2> HIDE DEF T
  <2>3. Nat \subseteq T
    BY <2>1, <2>2, NatIsAll
  <2>4. R \in T
    BY <1>2, <2>3
  <2>5. R \in 0..R
    BY <1>2
  <2>6. rs[R] = ReadUpto(B + ar[R], ExtUpto(m, R))
    BY <2>4, <2>5 DEF T
  <2> QED BY <1>7, <2>6
<1>12. Extended = ReadUpto(Len(E), ExtUpto(m, R))
  BY <1>5, <1>6, <1>11
<1>13. Len(E) <= Came <=> n = Len(E)
  <2> DEFINE l == Len(E)
  <2>1. l \in Nat /\ n \in 0..l /\ Came = n
    BY <1>1
  <2> HIDE DEF l
  <2>2. l <= Came <=> n = l
    BY <2>1
  <2> QED BY <2>2 DEF l
<1> QED BY <1>1, <1>12, <1>13 DEF ReadUpto, E, R

LEMMA NamesDiffer == "root" # "pointer"
OBVIOUS

\* The cells F of a question are those of q.
Spells(F, q) ==
    /\ F = [j \in 1..(Len(q) + 1) |-> F[j]]
    /\ \A j \in 1..Len(q) : F[j] = q[j]
    /\ F[Len(q) + 1] = "A IN"

\* The names of a question and of a query are the same if their cells are.
LEMMA SameName ==
    ASSUME NEW q, IsName(q), NEW name \in Seq(STRING), NEW F, Spells(F, q)
    PROVE  F = Question(name) <=> q = name \o <<"root">>
<1> DEFINE S == STRING \cup {"root", "A IN"}
           L == Len(q)
           N == Len(name)
           V == name \o <<"root">>
           W == name \o <<"root", "A IN">>
<1>1. q \in Seq(S) /\ L \in Nat /\ L >= 1
  BY NameCellsAre, SeqMonotonic DEF IsName
<1>2. name \in Seq(S) /\ N \in Nat
  BY SeqMonotonic, LenProperties
<1>3. /\ V \in Seq(S) /\ Len(V) = N + 1
      /\ \A j \in 1..N : V[j] = name[j]
      /\ V[N + 1] = "root"
  <2> DEFINE r == "root"
  <2>1. r \in S
    OBVIOUS
  <2> HIDE DEF r, S
  <2>2. /\ name \o <<r>> \in Seq(S) /\ Len(name \o <<r>>) = Len(name) + 1
        /\ \A j \in 1..Len(name) : (name \o <<r>>)[j] = name[j]
        /\ (name \o <<r>>)[Len(name) + 1] = r
    BY <1>2, <2>1, OneMore
  <2> QED BY <2>2 DEF r
<1>4. /\ W \in Seq(S) /\ Len(W) = N + 2 /\ W = Question(name)
      /\ \A j \in 1..N : W[j] = name[j]
      /\ W[N + 1] = "root" /\ W[N + 2] = "A IN"
  <2> DEFINE t == <<"root", "A IN">>
  <2>1. t \in Seq(S) /\ Len(t) = 2 /\ t[1] = "root" /\ t[2] = "A IN"
    <3> DEFINE x == "root"
               y == "A IN"
    <3>1. x \in S /\ y \in S
      OBVIOUS
    <3> HIDE DEF x, y, S
    <3>2. <<x, y>> \in Seq(S) /\ Len(<<x, y>>) = 2 /\ <<x, y>>[1] = x /\ <<x, y>>[2] = y
      BY <3>1
    <3> QED BY <3>2 DEF x, y
  <2>2. W = name \o t /\ W = Question(name)
    BY DEF Question
  <2> HIDE DEF t, W, S
  <2>3. /\ W \in Seq(S) /\ Len(W) = N + Len(t)
        /\ \A i \in 1..(N + Len(t)) : W[i] = IF i <= N THEN name[i] ELSE t[i - N]
    <3>1. name \in Seq(S) /\ t \in Seq(S)
      BY <1>2, <2>1
    <3>2. /\ name \o t \in Seq(S) /\ Len(name \o t) = Len(name) + Len(t)
          /\ \A i \in 1..(Len(name) + Len(t)) :
                (name \o t)[i] = IF i <= Len(name) THEN name[i] ELSE t[i - Len(name)]
      BY <3>1, ConcatProperties
    <3> QED BY <2>2, <3>2
  <2> HIDE DEF N
  <2>4. \A j \in 1..N : j \in 1..(N + 2) /\ j <= N
    BY <1>2
  <2>5. /\ N + 1 \in 1..(N + 2) /\ ~(N + 1 <= N) /\ (N + 1) - N = 1
        /\ N + 2 \in 1..(N + 2) /\ ~(N + 2 <= N) /\ (N + 2) - N = 2
    BY <1>2
  <2>6. \A j \in 1..N : W[j] = name[j]
    BY <2>1, <2>3, <2>4
  <2>7. W[N + 1] = "root" /\ W[N + 2] = "A IN"
    BY <2>1, <2>3, <2>5
  <2> QED BY <2>1, <2>2, <2>3, <2>6, <2>7
<1> HIDE DEF V, W, S
<1>0. /\ F = [j \in 1..(L + 1) |-> F[j]]
      /\ \A j \in 1..L : F[j] = q[j]
      /\ F[L + 1] = "A IN"
  BY DEF Spells
<1>5. ASSUME F = W PROVE q = V
  <2>1. DOMAIN F = 1..(L + 1) /\ DOMAIN W = 1..(N + 2)
    BY <1>0, <1>4, LenProperties
  <2>2. L = N + 1
    <3> HIDE DEF L, N
    <3>1. 1..(L + 1) = 1..(N + 2)
      BY <1>5, <2>1
    <3>2. L + 1 \in 1..(L + 1) /\ N + 2 \in 1..(N + 2)
      BY <1>1, <1>2
    <3>3. L + 1 \in 1..(N + 2) /\ N + 2 \in 1..(L + 1)
      BY <3>1, <3>2
    <3>4. L + 1 <= N + 2 /\ N + 2 <= L + 1
      BY <1>1, <1>2, <3>3
    <3> QED BY <1>1, <1>2, <3>4
  <2>3. ASSUME NEW j \in 1..L PROVE q[j] = V[j]
    <3>1. q[j] = W[j]
      BY <1>0, <1>5
    <3>2. j \in 1..N \/ j = N + 1
      <4> HIDE DEF L, N
      <4> QED BY <1>2, <2>2
    <3> QED BY <1>3, <1>4, <3>1, <3>2
  <2> QED BY <1>1, <1>3, <2>2, <2>3, SeqEqual
<1>6. ASSUME q = V PROVE F = W
  <2>1. L = N + 1
    BY <1>3, <1>6
  <2>2. W = [j \in 1..(L + 1) |-> W[j]]
    <3> HIDE DEF L, N
    <3>1. W \in [1..Len(W) -> S]
      BY <1>4, LenProperties
    <3>2. Len(W) = L + 1
      <4>1. N + 2 = L + 1
        BY <1>2, <2>1
      <4> QED BY <1>4, <4>1
    <3>3. W \in [1..(L + 1) -> S]
      BY <3>1, <3>2
    <3> QED BY <3>3
  <2>3. ASSUME NEW j \in 1..(L + 1) PROVE F[j] = W[j]
    <3>1. CASE j \in 1..L
      <4>1. F[j] = V[j]
        BY <1>0, <1>6, <3>1
      <4>2. j \in 1..N \/ j = N + 1
        <5> HIDE DEF L, N
        <5> QED BY <1>2, <2>1, <3>1
      <4> QED BY <1>3, <1>4, <4>1, <4>2
    <3>2. CASE j = L + 1
      <4>1. L + 1 = N + 2
        <5> HIDE DEF L, N
        <5> QED BY <1>2, <2>1
      <4> QED BY <1>0, <1>4, <3>2, <4>1
    <3>3. j \in 1..L \/ j = L + 1
      <4> HIDE DEF L
      <4> QED BY <1>1
    <3> QED BY <3>1, <3>2, <3>3
  <2> HIDE DEF L
  <2> QED BY <1>0, <2>2, <2>3
<1> QED BY <1>4, <1>5, <1>6 DEF V

\* Of a whole message with one question the cells of that come first.
LEMMA QuestionComes ==
    ASSUME NEW m, NEW n, Arrived(m, n), n = Len(Encoding(m)), Len(m.questions) = 1
    PROVE  LET q == m.questions[1] IN
           /\ IsName(q) /\ Came \in Nat /\ Len(q) + 1 <= Came
           /\ \A j \in 1..Len(q) : Cell(j) = NameCells(q)[j]
           /\ Cell(Len(q) + 1) = FixedCell
<1> DEFINE q == m.questions[1]
           ss == QuestionParts(m)
           Q == FlattenSeq(ss)
           P == FlattenSeq(RecordParts(m))
<1>1. /\ answer.cells \in Seq(CellType) /\ Came = n /\ n \in Nat /\ IsMessage(m)
      /\ Encoding(m) = Q \o P /\ Q \in Seq(CellType) /\ P \in Seq(CellType)
  BY ArrivedCells
<1>2. ss \in Seq(Seq(CellType)) /\ Len(ss) = 1 /\ ss[1] = QuestionCells(q) /\ IsName(q)
  <2>1. 1 \in 1..Len(m.questions)
    BY SMT
  <2>2. IsName(q)
    BY <1>1, <2>1 DEF IsMessage
  <2>3. ss[1] = QuestionCells(q)
    BY <1>1, <2>1, MessageParts
  <2>4. ss \in Seq(Seq(CellType)) /\ Len(ss) = Len(m.questions)
    BY <1>1, MessageParts
  <2> QED BY <2>2, <2>3, <2>4
<1>3. Len(QuestionCells(q)) = Len(q) + 1 /\ Len(q) \in Nat
  BY <1>2, QuestionCellsAre, NameCellsAre
<1>4. PICK offset : PartsAt(ss, offset)
  BY <1>2, FlattenedParts
<1> HIDE DEF ss, q
<1>5. /\ Len(Q) \in Nat /\ Len(P) \in Nat /\ Len(Encoding(m)) = Len(Q) + Len(P)
      /\ \A i \in 1..Len(Q) : Encoding(m)[i] = Q[i]
  <2> HIDE DEF Q, P
  <2>1. /\ Len(Q) \in Nat /\ Len(P) \in Nat /\ Len(Q \o P) = Len(Q) + Len(P)
        /\ \A i \in 1..(Len(Q) + Len(P)) : (Q \o P)[i] = IF i <= Len(Q) THEN Q[i] ELSE P[i - Len(Q)]
    BY <1>1, ConcatProperties, LenProperties
  <2>2. \A i \in 1..Len(Q) : i \in 1..(Len(Q) + Len(P)) /\ i <= Len(Q)
    BY <2>1
  <2> QED BY <1>1, <2>1, <2>2
<1>6. LieIn(m, ss, offset, 0)
  <2>1. \A i \in 1..Len(Q) : 0 + i = i
    BY <1>5
  <2> QED BY <1>2, <1>4, <1>5, <2>1 DEF LieIn
<1>7. offset[0] = 0 /\ offset[1] = offset[0] + Len(ss[1]) /\ offset[1] = Len(Q) /\ Comes(ss[1], 0)
  <2>1. 1 \in 1..Len(ss) /\ 1 - 1 = 0
    BY <1>2
  <2>2. offset[0] = 0 /\ offset[1] = Len(Q)
    BY <1>2, <1>4 DEF PartsAt
  <2>3. offset[1] = offset[0] + Len(ss[1]) /\ Comes(ss[1], 0 + offset[0])
    <3>1. offset[1 - 1] \in Nat /\ offset[1] = offset[1 - 1] + Len(ss[1]) /\ Comes(ss[1], 0 + offset[1 - 1])
      BY <1>6, <2>1, PartsCome
    <3> QED BY <2>1, <3>1
  <2> QED BY <2>2, <2>3
<1>8. Len(q) + 1 <= Came
  <2>1. Len(Q) = Len(q) + 1
    BY <1>2, <1>3, <1>7
  <2> HIDE DEF Q, P
  <2> QED BY <1>1, <1>5, <2>1
<1>9. ASSUME NEW j \in 1..(Len(q) + 1) PROVE Cell(j) = QuestionCells(q)[j]
  <2>1. 0 + j = j /\ j <= Came
    BY <1>1, <1>3, <1>8
  <2> QED BY <1>2, <1>3, <1>7, <2>1 DEF Comes
<1>10. \A j \in 1..Len(q) : j \in 1..(Len(q) + 1)
  BY <1>3
<1>11. Len(q) + 1 \in 1..(Len(q) + 1)
  BY <1>3
<1>12. /\ \A j \in 1..Len(q) : Cell(j) = NameCells(q)[j]
       /\ Cell(Len(q) + 1) = FixedCell
  BY <1>2, <1>9, <1>10, <1>11, QuestionCellsAre
<1> QED BY <1>1, <1>2, <1>8, <1>12 DEF q

\* question_matches_response: the question is that of the query, and the only one.
LEMMA QuestionTrue ==
    ASSUME NEW m, NEW n, Arrived(m, n), n = Len(Encoding(m)),
           NEW name \in Seq(STRING), wires[1].question = Question(name)
    PROVE  QuestionMatches <=> m.questions = <<name \o <<"root">>>>
<1> DEFINE same == name \o <<"root">>
           ends == {i \in 1..Came : Cell(i).kind = "root"}
           end == Min(ends)
           F == [i \in 1..(end + 1) |-> Cell(i).is]
<1>1. answer.meant = m /\ IsMessage(m)
  BY ArrivedCells
<1>2. QuestionMatches <=> /\ Len(m.questions) = 1
                          /\ ends # {} /\ \A i \in 1..(end - 1) : Cell(i).kind = "label"
                          /\ end + 1 <= Came
                          /\ F = Question(name)
  BY <1>1 DEF QuestionMatches, Came
<1>3. m.questions = <<same>> <=> Len(m.questions) = 1 /\ m.questions[1] = same
  <2> DEFINE qs == m.questions
  <2>1. qs \in Seq(Seq(STRING))
    BY <1>1 DEF IsMessage
  <2> HIDE DEF qs, same
  <2>2. Len(qs) = 1 => qs = <<qs[1]>>
    BY <2>1
  <2>3. Len(<<same>>) = 1 /\ <<same>>[1] = same
    OBVIOUS
  <2>4. qs = <<same>> <=> Len(qs) = 1 /\ qs[1] = same
    BY <2>2, <2>3
  <2> QED BY <2>4 DEF qs, same
<1>4. CASE Len(m.questions) # 1
  <2> HIDE DEF same
  <2> QED BY <1>2, <1>3, <1>4 DEF same
<1>5. CASE Len(m.questions) = 1
  <2> DEFINE q == m.questions[1]
             L == Len(q)
  <2>1. /\ IsName(q) /\ Came \in Nat /\ L + 1 <= Came
        /\ \A j \in 1..L : Cell(j) = NameCells(q)[j]
        /\ Cell(L + 1) = FixedCell
    BY <1>5, QuestionComes
  <2>2. /\ L \in Nat /\ L >= 1 /\ q[L] \in {"root", "pointer"}
        /\ \A j \in 1..L : /\ Cell(j).is = q[j]
                           /\ j < L => Cell(j).kind = "label"
                           /\ Cell(j).kind \in {"root", "pointer"} <=> j = L
                           /\ Cell(j).kind = "root" <=> q[j] = "root"
    <3>1. L \in Nat /\ L >= 1
      BY <2>1, NameCellsAre
    <3>2. q[L] \in {"root", "pointer"}
      BY <2>1, <3>1 DEF IsName
    <3> QED BY <2>1, <3>1, <3>2, NameCellsAre
  <2>3. L \in 1..L /\ ends \subseteq Nat
    BY <2>2
  <2> HIDE DEF q
  <2>4. ASSUME ends # {} PROVE end \in ends /\ L <= end
    <3>1. end \in ends
      <4> HIDE DEF ends
      <4> QED BY <2>3, <2>4, MinIsLeast
    <3>2. Cell(end).kind = "root" /\ end \in Nat /\ end >= 1
      BY <2>1, <3>1
    <3> HIDE DEF end, L
    <3>3. ~(end < L)
      <4> SUFFICES ASSUME end < L PROVE FALSE
        OBVIOUS
      <4>1. end \in 1..L
        BY <2>2, <3>2
      <4> QED BY <2>2, <3>2, <4>1, KindsDiffer
    <3> QED BY <2>2, <3>1, <3>2, <3>3
  <2>5. CASE q[L] = "root"
    <3>1. L \in ends
      <4>1. L \in 1..Came
        <5> HIDE DEF L
        <5> QED BY <2>1, <2>2
      <4> QED BY <2>2, <2>3, <2>5, <4>1
    <3>2. end = L
      <4>1. end <= L
        <5> HIDE DEF ends
        <5> QED BY <2>3, <3>1, MinIsLeast
      <4>2. L <= end /\ end \in Nat
        BY <2>3, <2>4, <3>1
      <4> HIDE DEF end, L
      <4> QED BY <2>2, <4>1, <4>2
    <3>3. \A i \in 1..(end - 1) : Cell(i).kind = "label"
      <4> HIDE DEF end, L
      <4> QED BY <2>2, <3>2
    <3>4. Spells(F, q)
      <4>1. L + 1 \in 1..(L + 1) /\ \A j \in 1..L : j \in 1..(L + 1)
        <5> HIDE DEF L
        <5> QED BY <2>2
      <4> HIDE DEF end
      <4>2. F = [j \in 1..(L + 1) |-> Cell(j).is]
        BY <3>2
      <4> HIDE DEF F
      <4>3. F = [j \in 1..(L + 1) |-> F[j]]
        BY <4>2
      <4>4. \A j \in 1..L : F[j] = q[j]
        BY <2>2, <4>1, <4>2
      <4>5. F[L + 1] = "A IN"
        BY <2>1, <4>1, <4>2, FixedCellTyped
      <4> QED BY <4>3, <4>4, <4>5 DEF Spells
    <3>5. F = Question(name) <=> q = same
      <4> HIDE DEF F
      <4> QED BY <2>1, <3>4, SameName
    <3>6. end + 1 <= Came /\ ends # {}
      BY <2>1, <3>1, <3>2
    <3> HIDE DEF F, end, ends, same
    <3> QED BY <1>2, <1>3, <1>5, <3>3, <3>5, <3>6 DEF q, same
  <2>6. CASE q[L] = "pointer"
    <3>1. Cell(L).kind = "pointer"
      BY <2>2, <2>3, <2>6, NamesDiffer
    <3>2. ASSUME ends # {} PROVE ~(\A i \in 1..(end - 1) : Cell(i).kind = "label")
      <4>1. end # L /\ L <= end /\ end \in Nat
        <5>1. end \in ends /\ L <= end
          BY <2>4, <3>2
        <5>2. Cell(end).kind = "root" /\ end \in Nat
          BY <2>3, <5>1
        <5> HIDE DEF end
        <5> QED BY <3>1, <5>1, <5>2, KindsDiffer
      <4>2. L \in 1..(end - 1)
        <5> HIDE DEF end, L
        <5> QED BY <2>2, <4>1
      <4> QED BY <3>1, <4>2, KindsDiffer
    <3>3. q # same
      <4> SUFFICES ASSUME q = same PROVE FALSE
        OBVIOUS
      <4> DEFINE r == "root"
      <4>1. same = name \o <<r>> /\ name \in Seq(STRING \cup {r}) /\ r \in STRING \cup {r}
        BY SeqMonotonic
      <4> HIDE DEF r, same
      <4>2. Len(same) = Len(name) + 1 /\ same[Len(name) + 1] = r
        BY <4>1, OneMore
      <4>3. same[Len(same)] = r
        BY <4>2
      <4> QED BY <2>6, <4>3, NamesDiffer DEF r
    <3> HIDE DEF F, end, ends, same
    <3> QED BY <1>2, <1>3, <1>5, <3>2, <3>3 DEF q, same
  <2> QED BY <2>2, <2>5, <2>6
<1> QED BY <1>4, <1>5


\* What the last OPT record of a message adds to its rcode.
LEMMA ExtIsANumber ==
    ASSUME NEW m, IsMessage(m)
    PROVE  /\ ExtUpto(m, Len(m.records)) \in Nat
           /\ ExtUpto(m, Len(m.records)) =
                LET opts == {i \in 1..Len(m.records) : m.records[i].opt}
                IN  IF opts = {} THEN 0 ELSE m.records[Max(opts)].ext
<1> DEFINE S == OptsUpto(m, Len(m.records))
<1>1. Len(m.records) \in Nat /\ \A k \in 1..Len(m.records) : m.records[k] \in RecordType
  BY MessageParts
<1>2. S \subseteq 1..Len(m.records) /\ S \subseteq 0..Len(m.records)
  BY <1>1 DEF OptsUpto
<1>3. ASSUME S # {} PROVE m.records[Max(S)].ext \in Nat
  <2>1. Max(S) \in S
    <3> HIDE DEF S
    <3> QED BY <1>1, <1>2, <1>3, MaxIsGreatest
  <2>2. m.records[Max(S)] \in RecordType
    BY <1>1, <1>2, <2>1
  <2> QED BY <2>2 DEF RecordType
<1>4. ExtUpto(m, Len(m.records)) = IF S = {} THEN 0 ELSE m.records[Max(S)].ext
  BY DEF ExtUpto
<1>5. ExtUpto(m, Len(m.records)) \in Nat
  <2> HIDE DEF S
  <2> QED BY <1>3, <1>4
<1> QED BY <1>4, <1>5 DEF OptsUpto

\* What parse_response_header and question_matches_response should make of a reply.
AsMeant(m, n, name) ==
    IF n # Len(Encoding(m)) \/ ~(m.response /\ m.query /\ (IsDoh \/ m.id = 0)) THEN Malformed
    ELSE IF m.questions # <<name \o <<"root">>>> THEN Mismatch
    ELSE m.rcode + 16 * ExtUpto(m, Len(m.records))

LEMMA ReadTrue ==
    ASSUME NEW m, NEW n, Arrived(m, n),
           NEW name \in Seq(STRING), wires[1].question = Question(name)
    PROVE  (IF Header = Malformed THEN Malformed ELSE IF QuestionMatches THEN Header ELSE Mismatch)
             = AsMeant(m, n, name)
<1> DEFINE ext == ExtUpto(m, Len(m.records))
           whole == n = Len(Encoding(m))
           aReply == m.response /\ m.query /\ (IsDoh \/ m.id = 0)
<1>1. answer.meant = m /\ IsMessage(m) /\ n \in Nat
  BY ArrivedCells
<1>2. ext \in Nat /\ m.rcode \in Nat
  BY <1>1, ExtIsANumber DEF IsMessage
<1>3. Extended = IF whole THEN [pos |-> n + 1, ext |-> ext] ELSE Bad
  BY ExtendedTrue
<1>4. Extended.pos = 0 <=> ~whole
  BY <1>1, <1>3 DEF Bad
<1>5. whole => Extended.ext = ext
  BY <1>3
<1> HIDE DEF ext, whole
<1>6. Header = IF ~aReply \/ ~whole THEN Malformed ELSE m.rcode + 16 * Extended.ext
  BY <1>1, <1>4 DEF Header
<1>7. CASE ~aReply \/ ~whole
  BY <1>6, <1>7 DEF AsMeant, whole
<1>8. CASE aReply /\ whole
  <2>1. Header = m.rcode + 16 * ext
    BY <1>5, <1>6, <1>8
  <2>2. m.rcode + 16 * ext # Malformed
    BY <1>2 DEF Malformed
  <2>3. QuestionMatches <=> m.questions = <<name \o <<"root">>>>
    BY <1>8, QuestionTrue DEF whole
  <2> QED BY <1>8, <2>1, <2>2, <2>3 DEF AsMeant, whole, ext
<1> QED BY <1>7, <1>8

\* The query for a row is a name, and what is answered to it a message.
LEMMA RepliesAreMessages ==
    ASSUME RowsInv, rows # <<>>
    PROVE  /\ Name(rows[1]) \in Seq(STRING)
           /\ \A m \in Answers(Name(rows[1])) : IsMessage(m)
<1> DEFINE B == Bytes
           s == rows[1].start
           e == rows[1].end
<1>1. args \in Commands /\ rows = CorpusRows
  BY DEF RowsInv
<1>2. B \in Seq(STRING) /\ B = File(args)
  <2>1. IsCommand(args)
    BY <1>1, PlanAssumption
  <2>2. args.name \in STRING /\ (args.corpus = NotGiven \/ args.corpus \in Seq(STRING))
    BY <2>1 DEF IsCommand
  <2> DEFINE name == args.name
  <2>3. <<name>> \in Seq(STRING)
    <3> HIDE DEF name
    <3> QED BY <2>2 DEF name
  <2>4. B = File(args) /\ File(args) = IF args.corpus = NotGiven THEN <<name>> ELSE args.corpus
    BY DEF Bytes, File
  <2> HIDE DEF B, name
  <2> QED BY <2>2, <2>3, <2>4
<1> HIDE DEF B
<1>3. Len(B) \in Nat /\ \A i \in 1..Len(B) : B[i] \in STRING
  BY <1>2, LenProperties, ElementOfSeq
<1>4. s \in 1..(Len(B) + 1) /\ e \in 1..(Len(B) + 1)
  <2>1. CASE Given("corpus")
    <3>1. ToSet(rows) = Lines(Bytes) /\ rows \in Seq(RowType)
      BY <1>1, <2>1, CorpusRowsTyped
    <3>2. 1 \in 1..Len(rows)
      BY <3>1, EmptySeq
    <3>3. rows[1] \in Lines(Bytes)
      BY <3>1, <3>2 DEF ToSet
    <3>4. PICK p \in LineSpans(Bytes) : rows[1] = RowOf(Bytes, p)
      BY <3>3, LinesAre
    <3>5. p[1] \in 1..Len(B) /\ p[2] \in 2..(Len(B) + 1)
      BY <3>4 DEF LineSpans, B
    <3>6. s = p[1] /\ (e = p[2] \/ e = p[2] - 1)
      BY <3>4 DEF RowOf
    <3> HIDE DEF s, e
    <3> QED BY <1>3, <3>5, <3>6
  <2>2. CASE ~Given("corpus")
    <3>1. rows = <<[start |-> 1, end |-> Len(Bytes) + 1]>>
      BY <1>1, <2>2 DEF CorpusRows
    <3>2. s = 1 /\ e = Len(B) + 1
      BY <3>1 DEF B
    <3> HIDE DEF s, e
    <3> QED BY <1>3, <3>2
  <2> QED BY <2>1, <2>2
<1>5. Name(rows[1]) = SubSeq(B, s, e - 1)
  BY DEF Name, B
<1> HIDE DEF s, e
<1>6. SubSeq(B, s, e - 1) \in Seq(STRING)
  <2>1. s \in Int /\ e - 1 \in Int /\ \A i \in s..(e - 1) : i \in 1..Len(B)
    BY <1>3, <1>4
  <2> DEFINE x == e - 1
  <2>2. s \in Int /\ x \in Int /\ \A i \in s..x : B[i] \in STRING
    BY <1>3, <2>1
  <2> HIDE DEF x
  <2>3. SubSeq(B, s, x) \in Seq(STRING)
    BY <2>2, SubSeqProperties
  <2> QED BY <2>3 DEF x
<1>7. \A m \in Answers(SubSeq(B, s, e - 1)) : IsMessage(m)
  BY <1>1, <1>2, <1>4, PlanAssumption
<1> QED BY <1>5, <1>6, <1>7

\* While replies may come, the query of the first row has the name of that row in it;
\* one that is read is some of what was sent; and once it has been read the run is over.
HeaderInv ==
    /\ stage \in {"run", "read"} => wires[1].question = Question(Name(rows[1]))
    /\ stage = "read" => \E m \in Answers(Name(rows[1])) : \E n \in 0..Len(Encoding(m)) :
                             answer = [meant |-> m, cells |-> SubSeq(Encoding(m), 1, n)]
    /\ reading # NotGiven => stage = "done"
    /\ HeaderTrue

LEMMA HeaderStart == PlanStart => HeaderInv
BY DEF PlanStart, PlanInit, PlanOf, HeaderInv, HeaderTrue

LEMMA ReadReadsTrue == ASSUME RowsInv, HeaderInv, Read PROVE HeaderTrue'
<1> DEFINE name == Name(rows[1])
<1>1. /\ stage = "read" /\ UNCHANGED <<args, rows, answer>>
      /\ reading' = IF Header = Malformed THEN Malformed
                    ELSE IF QuestionMatches THEN Header ELSE Mismatch
  BY DEF Read
<1>2. rows # <<>>
  BY <1>1 DEF RowsInv
<1>3. name \in Seq(STRING) /\ \A m \in Answers(name) : IsMessage(m)
  BY <1>2, RepliesAreMessages
<1>4. wires[1].question = Question(name)
  BY <1>1 DEF HeaderInv
<1>5. PICK m \in Answers(name) : \E n \in 0..Len(Encoding(m)) :
          answer = [meant |-> m, cells |-> SubSeq(Encoding(m), 1, n)]
  BY <1>1 DEF HeaderInv
<1>6. PICK n \in 0..Len(Encoding(m)) : answer = [meant |-> m, cells |-> SubSeq(Encoding(m), 1, n)]
  BY <1>5
<1>7. Arrived(m, n)
  BY <1>3, <1>5, <1>6 DEF Arrived
<1> HIDE DEF name
<1>8. reading' = AsMeant(m, n, name)
  BY <1>1, <1>3, <1>4, <1>7, ReadTrue
<1>9. answer.meant = m /\ Len(answer.cells) = n /\ IsMessage(m)
  BY <1>7, ArrivedCells DEF Came
<1>10. ExtUpto(m, Len(m.records)) =
         LET opts == {i \in 1..Len(m.records) : m.records[i].opt}
         IN  IF opts = {} THEN 0 ELSE m.records[Max(opts)].ext
  BY <1>9, ExtIsANumber
<1>11. IsDoh' = IsDoh /\ Name(rows[1])' = name /\ answer' = answer
  BY <1>1 DEF IsDoh, name, Name, Bytes, File
<1> QED BY <1>8, <1>9, <1>10, <1>11 DEF HeaderTrue, AsMeant

LEMMA HeaderStep == ASSUME OptionsInv, RowsInv, HeaderInv, [PlanNext]_planVars PROVE HeaderInv'
<1>1. UNCHANGED args
  BY ArgsKept
<1>2. ASSUME reading' = NotGiven PROVE HeaderTrue' /\ (reading' # NotGiven => stage' = "done")
  BY <1>2 DEF HeaderTrue
<1>3. ASSUME stage # "done" PROVE reading = NotGiven
  BY <1>3 DEF HeaderInv
<1>4. CASE stage' \notin {"run", "read"} /\ stage # "done" /\ reading' = reading
  BY <1>2, <1>3, <1>4 DEF HeaderInv
<1>5. CASE stage = "run" /\ UNCHANGED <<rows, stage, wires, reading>>
  <2>1. Name(rows[1])' = Name(rows[1])
    BY <1>1, <1>5 DEF Name, Bytes, File
  <2> QED BY <1>2, <1>3, <1>5, <2>1 DEF HeaderInv
<1>6. CASE Configure
  BY <1>4, <1>6 DEF Configure, Stop
<1>7. CASE LoadCorpus
  BY <1>4, <1>7 DEF LoadCorpus, Stop
<1>8. CASE ValidatePlan
  BY <1>4, <1>8 DEF ValidatePlan, Stop
<1>9. CASE Encode
  <2>1. CASE stage' = "run"
    <3>1. wires' = Queries /\ UNCHANGED <<rows, reading>> /\ stage = "encode"
      BY <1>9, <2>1 DEF Encode, Stop, Queries
    <3>2. 1 \in 1..Len(rows)
      <4>1. rows \in Seq(RowType) /\ rows # <<>>
        BY <3>1, CorpusRowsTyped DEF RowsInv
      <4> QED BY <4>1, EmptySeq
    <3>3. wires'[1].question = Question(Name(rows[1]))
      BY <3>1, <3>2 DEF Queries
    <3>4. Name(rows[1])' = Name(rows[1])
      BY <1>1, <3>1 DEF Name, Bytes, File
    <3> QED BY <1>2, <1>3, <2>1, <3>1, <3>3, <3>4 DEF HeaderInv, Question
  <2>2. CASE stage' # "run"
    BY <1>4, <1>9, <2>2 DEF Encode, Stop
  <2> QED BY <2>1, <2>2
<1>10. CASE SelectNext \/ Walk
  BY <1>5, <1>10, SelectEffect
<1>11. CASE Reply
  <2>1. /\ stage = "run" /\ stage' = "read" /\ UNCHANGED <<rows, wires, reading>>
        /\ \E m \in Answers(Name(rows[1])) : \E n \in 0..Len(Encoding(m)) :
              answer' = [meant |-> m, cells |-> SubSeq(Encoding(m), 1, n)]
    BY <1>11 DEF Reply
  <2>2. Name(rows[1])' = Name(rows[1])
    BY <1>1, <2>1 DEF Name, Bytes, File
  <2> QED BY <1>2, <1>3, <2>1, <2>2 DEF HeaderInv
<1>12. CASE Read
  <2>1. HeaderTrue'
    BY <1>12, ReadReadsTrue
  <2> QED BY <1>12, <2>1 DEF HeaderInv, Read
<1>13. CASE UNCHANGED planVars
  BY <1>13 DEF planVars, HeaderInv, HeaderTrue, Name, Bytes, File, IsDoh
<1> QED BY <1>6, <1>7, <1>8, <1>9, <1>10, <1>11, <1>12, <1>13 DEF PlanNext

\* What opt_extended_rcode, parse_response_header and question_matches_response make of
\* a reply is what its server meant by it, wherever it breaks off and whatever is in it.
THEOREM RepliesAreRead == PlanStart /\ [][PlanNext]_planVars => []HeaderTrue
<1>1. PlanStart => HeaderInv
  BY HeaderStart
<1>2. OptionsInv /\ RowsInv /\ HeaderInv /\ [PlanNext]_planVars => HeaderInv'
  BY HeaderStep
<1>3. HeaderInv => HeaderTrue
  BY DEF HeaderInv
<1> QED BY <1>1, <1>2, <1>3, OptionsInvariance, RowsInvariance, PTL

-------------------------------------------------------------------------------
(* One process.                                                              *)

\* A process of which the other half never begins behaves as that of its file, or of
\* its load options, does alone.
LEMMA OneOfTheTwo ==
    CliSpec => (FileStart /\ [][FileNext]_fileVars) /\ (PlanStart /\ [][PlanNext]_planVars)
<1>1. CliInit => FileStart /\ PlanStart
  BY DEF CliInit, FileStart, PlanStart
<1>2. [CliNext]_<<fileVars, planVars>> => [FileNext]_fileVars /\ [PlanNext]_planVars
  BY DEF CliNext
<1> QED BY <1>1, <1>2, PTL DEF CliSpec

\* `wiresurge run` on any file says of the response what its assertion says, expands
\* every template as the file means it, shows no secret whole and masks nothing else;
\* `wiresurge load` honours its options, queries the lines of its corpus in their turn,
\* and reads replies as they were meant.
THEOREM ProcessIsTruthful ==
    CliSpec => []( /\ VerdictTruthful /\ ExpandedExactly /\ NoSecretWhole /\ SecretsMasked
                   /\ OptionsHonoured /\ EachLineInTurn /\ HeaderTrue )
BY OneOfTheTwo, VerdictIsTruthful, TemplatesExpandExactly, NoSecretIsShown, SecretsAreMasked,
   OptionsAreHonoured, EachLineHasItsTurn, RepliesAreRead, PTL
===============================================================================
