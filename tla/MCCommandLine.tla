----------------------------- MODULE MCCommandLine -----------------------------
(***************************************************************************)
(* Instances of CommandLine: files and options, each set about one step of *)
(* the two pipelines and around every limit.                               *)
(***************************************************************************)
EXTENDS CommandLine

-------------------------------------------------------------------------------
(* Files of `run`.                                                           *)

Plain == [unknown |-> <<>>, name |-> <<"n">>, given |-> {"id", "name", "url"}, idValid |-> TRUE,
          method |-> <<"GET">>, url |-> <<"http://", "h">>, header |-> "X-A", value |-> <<"w">>,
          body |-> <<"w">>, vars |-> ("vars.k" :> <<"v">>) @@ ("vars.m" :> <<Opener, "vars.k">>),
          expect |-> NotGiven]
Bare == [vars |-> <<>>, secrets |-> <<>>, file |-> Plain]

SeqsUpTo(S, n) == UNION {[1..k -> S] : k \in 0..n}

Templates ==
    {[Bare EXCEPT !.file.body = t] :
        t \in SeqsUpTo({Backslash, Opener, Closer, "vars.k", "w"}, 5)
              \cup {<<Backslash>> \o t : t \in SeqsUpTo({Backslash, Opener, Closer, "vars.k"}, 5)}}
    \cup {[Bare EXCEPT !.file.body = t, !.file.value = <<Opener, "uuid", Closer>>] :
        t \in SeqsUpTo({Backslash, Opener, Closer, "uuid"}, 4) \cup {<<Opener, "uuid", Closer, Opener, "uuid", Closer>>}}

KeyValue(n, v) == [name |-> n, value |-> v]
Short == KeyValue("secrets.a", <<"p">>)
Long  == KeyValue("secrets.b", <<"p", "q">>)
Tailed == KeyValue("secrets.a", <<"q">>)
Across == KeyValue("secrets.a", <<"q", "p">>)
Ref(k) == <<Opener, k, Closer>>

Secret ==
    {[Bare EXCEPT !.secrets = s, !.vars = v,
                  !.file.url = @ \o Ref("secrets.a"), !.file.body = b, !.file.value = Ref("secrets.b"),
                  !.file.expect = e] :
        s \in {<<Short, Long>>, <<Long, Short>>, <<Tailed, Long>>, <<Across, Long>>, <<Short>>, <<Short, Short>>, <<KeyValue("", <<"p">>)>>,
               <<KeyValue("secrets.a", <<>>)>>},
        v \in {<<>>, <<KeyValue("vars.k", <<"x">>)>>, <<KeyValue("vars.k", <<>>), KeyValue("vars.k", <<>>)>>},
        b \in {Ref("secrets.b") \o <<"w">> \o Ref("secrets.a"), <<"token">> \o Ref("vars.k"), Ref("vars.m")},
        e \in {NotGiven, [unknown |-> <<>>, status |-> NotGiven,
                 bodyEq |-> [path |-> [from |-> "header", name |-> "X-E"], value |-> [is |-> "text", text |-> <<"w">>]]]}}

Num(k, n) == [is |-> k, n |-> n]
Numbers == {Num("int", n) : n \in {-1, 4, 5, 8, 9}} \cup {Num("float", n) : n \in {4, 8}}
BodyPath(p, s) == [from |-> "body", isPointer |-> p, segments |-> s]

Paths ==
    {[from |-> "status"], [from |-> "header", name |-> "X-E"], [from |-> "header", name |-> ""],
     BodyPath(FALSE, <<>>), BodyPath(FALSE, <<<<"a", "/">>>>), BodyPath(FALSE, <<<<"~", "1">>>>),
     BodyPath(TRUE, <<<<"a", "~", "1">>>>), BodyPath(FALSE, <<<<"a", "/">>, <<"~", "1">>>>)}

Asserted ==
    {[Bare EXCEPT !.file.unknown = u, !.file.expect = [unknown |-> x, status |-> s, bodyEq |-> b]] :
        u \in {<<>>, <<"w">>}, x \in {<<>>, <<"w">>}, s \in {NotGiven, {}, {200}, {200, 404}},
        b \in {NotGiven} \cup {[path |-> p, value |-> v] : p \in Paths, v \in Numbers \cup {Num("int", 200), [is |-> "text", text |-> <<"w">>]}}}

Broken ==
    {[Bare EXCEPT !.file = f] : f \in
        {[Plain EXCEPT !.given = @ \ {g}] : g \in {"id", "name", "url"}}
        \cup {[Plain EXCEPT !.idValid = FALSE], [Plain EXCEPT !.url = <<"w">>],
              [Plain EXCEPT !.name = <<>>],
              [Plain EXCEPT !.method = <<"9">>], [Plain EXCEPT !.method = <<"get">>],
              [Plain EXCEPT !.header = "Cookie"], [Plain EXCEPT !.header = "X-Token"]}}

\* Secrets in a method and a header's name, in what errors quote, and in a value that a
\* failed assertion quotes.
Elsewhere ==
    {[Bare EXCEPT !.secrets = <<KeyValue("secrets.a", <<w>>)>>, !.file.method = Ref("secrets.a")] :
        w \in {"K", "get", "9"}}
    \cup {[Bare EXCEPT !.secrets = <<Short>>, !.file.body = Ref("p")]}
    \cup {[Bare EXCEPT !.secrets = <<Short>>, !.file.unknown = <<"p">>]}
    \cup {[Bare EXCEPT !.secrets = <<KeyValue("secrets.a", <<"x-a">>)>>]}
    \cup {[Bare EXCEPT !.secrets = s, !.file.body = Ref("secrets.a"),
                       !.file.expect = [unknown |-> <<>>, status |-> NotGiven,
                            bodyEq |-> [path |-> BodyPath(FALSE, <<<<"e">>>>), value |-> Num("int", 4)]]] :
            s \in {<<KeyValue("secrets.a", <<"p", Quote>>)>>, <<KeyValue("secrets.a", <<"5">>)>>}}

MCInputs == Templates \cup Secret \cup Asserted \cup Broken \cup Elsewhere

Answer(s, h, raw, b) == [status |-> s, headers |-> h, raw |-> raw, body |-> b]
NoHeaders == [h \in {} |-> <<>>]

MCReplies(i) ==
    IF i \in Elsewhere
    THEN {Answer(200, [h \in {"p"} |-> <<"w">>], Json(v), [p \in {<<<<"e">>>>} |-> v]) :
            v \in {[is |-> "text", text |-> <<"w", "p", Quote>>], Num("int", 5)}}
    ELSE IF i.secrets # <<>>
    THEN {Answer(200, [h \in {"x-e", "cookie"} |-> t], t, NotJson) :
            t \in {<<"w", "p", "q", "w">>, <<"p", "q%">>, <<"p", "q", "p", "q">>, <<"p", "q", "p">>, <<"q%", "p">>, <<"token", "w">>}}
    ELSE IF i.file.expect # NotGiven
    THEN {Answer(s, h, <<"w">>, b) :
            s \in {200, 500}, h \in {NoHeaders, [x \in {"x-e"} |-> <<"w">>]},
            b \in {NotJson} \cup {[p \in {<<<<"a", "/">>>>} |-> v] : v \in Numbers}
                  \cup {[p \in {<<<<"~", "1">>>>} |-> Num("int", 5)],
                        [p \in {<<<<"a", "/">>, <<"~", "1">>>>} |-> Num("int", 9)]}}
    ELSE {Answer(200, NoHeaders, <<"w">>, NotJson)}

MCUuids == <<"u1", "u2", "u3", "u4", "u5", "u6", "u7", "u8",
             "u9", "u10", "u11", "u12", "u13", "u14", "u15", "u16">>
MCLower == ("X-E" :> "x-e") @@ ("X-A" :> "x-a") @@ ("Cookie" :> "cookie") @@ ("X-Token" :> "x-token")
MCUpper == "get" :> "GET"
MCJsonEscape == Quote :> <<Backslash, Quote>>
MCSerialized(v) == <<IF v.is = "float" THEN "4.0" ELSE IF v.n = 5 THEN "5" ELSE "n">>
MCPercent == [w \in {"q"} |-> "q%"]

-------------------------------------------------------------------------------
(* Options of `load`.                                                        *)

Server(i, p, n) == [ip |-> i, port |-> p, named |-> n]

Base == [server |-> Server("v4", NotGiven, FALSE), port |-> 53,
         protocol |-> "udp", sni |-> NotGiven, relaxed |-> FALSE, insecure |-> FALSE,
         url |-> NotGiven, method |-> NotGiven, params |-> <<>>, duration |-> NotGiven, count |-> 4,
         qps |-> NotGiven, edns |-> <<>>, source |-> NotGiven, destination |-> NotGiven,
         corpus |-> NotGiven, name |-> "a", qtype |-> "A", concurrency |-> 1, inFlight |-> 1,
         timeout |-> 1, mode |-> "sequential", seed |-> 5]

Url(s, u) == [scheme |-> s, userinfo |-> u, host |-> "h", query |-> <<"q">>]
Opt(v) == [code |-> 3, valid |-> v]

Options ==
    {[Base EXCEPT !.protocol = p, !.sni = s, !.insecure = i, !.url = u, !.method = m, !.params = k,
                  !.edns = e] :
        p \in {"udp", "dot", "doh", "quic"}, s \in {NotGiven, "sni"}, i \in BOOLEAN,
        u \in {NotGiven, Url("https", FALSE), Url("http", FALSE), Url("https", TRUE)},
        m \in {NotGiven, "get", "put"}, k \in {<<>>, <<"x">>, <<"dns">>}, e \in {<<>>, <<Opt(TRUE), Opt(TRUE)>>}}
    \cup {[Base EXCEPT !.duration = d, !.count = c, !.qps = q, !.source = s, !.destination = t] :
        d \in {NotGiven, 0, 1, 9}, c \in {NotGiven, 0, 4}, q \in {NotGiven, 0, 1, 9},
        s \in {NotGiven, "v4", "mapped", "v6", "bad"}, t \in {NotGiven, "v4"}}
    \cup {[Base EXCEPT !.concurrency = c, !.inFlight = n] : c \in 0..5, n \in 0..5}
    \cup {[Base EXCEPT !.server = Server(i, p, n)] :
            i \in {NotGiven, "v4", "mapped", "v6"}, p \in {NotGiven, 853}, n \in BOOLEAN}
    \cup {[Base EXCEPT !.qtype = t] : t \in {"A", "MX", "?"}}
    \cup {
          [Base EXCEPT !.timeout = 0], [Base EXCEPT !.name = "?"],
          [Base EXCEPT !.name = "q"], [Base EXCEPT !.name = "q", !.protocol = "doh", !.url = Url("https", FALSE)], [Base EXCEPT !.edns = <<Opt(FALSE)>>],
          [Base EXCEPT !.edns = [i \in 1..9 |-> Opt(TRUE)]]}

\* All files of up to five bytes, and files of n names.
Corpora == UNION {[1..k -> {"a", "CR", "LF", "invalid"}] : k \in 0..5}
Named(n) == [i \in 1..(2 * n) |-> IF i % 2 = 1 THEN "a" ELSE "LF"]

MCCommands ==
    Options
    \cup {[Base EXCEPT !.corpus = c] : c \in Corpora}
    \cup {[Base EXCEPT !.corpus = Named(n), !.mode = m, !.seed = s] :
            n \in {1, 2, 3, 4, 5, 7, 8, 9}, m \in {"replace", "permute", "sequential"}, s \in {1, 6}}

Labels(n) == n \o <<"root">>
Rec(n, o, e, k) == [name |-> n, opt |-> o, ext |-> e, rdata |-> k]

\* Replies are read for the query q only: they do not depend on the other options.
MCAnswers(name) ==
    IF name # <<"q">> THEN {} ELSE
    {[id |-> i, response |-> r, query |-> TRUE, rcode |-> 3, questions |-> q, records |-> a] :
        i \in {0, 7}, r \in BOOLEAN,
        q \in {<<>>, <<Labels(name)>>, <<Labels(<<"b">>)>>, <<<<"pointer">>>>, <<Labels(name), Labels(name)>>},
        a \in {<<>>, <<Rec(<<"pointer">>, FALSE, 0, 2), Rec(<<"root">>, TRUE, 1, 1)>>,
               <<Rec(<<"root">>, TRUE, 1, 0), Rec(<<"b", "root">>, FALSE, 0, 1), Rec(<<"root">>, TRUE, 2, 0)>>,
               <<Rec(<<"b", "pointer">>, FALSE, 0, 3)>>}}
    \cup {[id |-> 0, response |-> TRUE, query |-> FALSE, rcode |-> 0, questions |-> <<Labels(name)>>, records |-> <<>>]}

MCMixed(x, seed, round) == (x * x + 3 * x + seed * (round + 1)) % 17
MCTypeCode == ("A" :> 1) @@ ("MX" :> 15)
MCSplitmix(x) == (7 * x + 3) % 11
===============================================================================
