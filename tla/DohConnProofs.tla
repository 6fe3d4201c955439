---------------------------- MODULE DohConnProofs ----------------------------
(***************************************************************************)
(* Proofs about DohConn, for any number of exchanges, any window, any      *)
(* number of streams and any limit on a body: the PROXY header comes first *)
(* on the wire and HTTP/2 is spoken only where it was negotiated, and the  *)
(* connection keeps the promises of Connection.                            *)
(***************************************************************************)
EXTENDS DohConn, SequenceTheorems, TLAPS

\* What has been written: the second of the two behind a PROXY header, the first
\* where none is asked for.  Nothing is written for addresses of two families.
Written(plain, proxied) ==
    \/ target.proxy = "none" /\ wire = plain
    \/ target.proxy = "same" /\ wire = proxied

\* The wire, by how far connect has come.
WireFollowsStage ==
    /\ stage \in {"template", "tls_config", "tcp", "proxy"} => wire = <<>>
    /\ stage = "proxy" => target.proxy # "none"
    /\ stage = "flush" => target.proxy = "same" /\ wire = <<"proxy">>
    /\ stage \in {"server_name", "handshake"} => Written(<<>>, <<"proxy">>)
    /\ stage \in {"alpn", "h2"} => Written(<<"hello">>, <<"proxy", "hello">>)
    /\ stage = "open" =>
          Written(<<"hello", "preface">>, <<"proxy", "hello", "preface">>)
    /\ stage \in {"h2", "open"} => AlpnAccepted
    /\ stage = "failed" =>
          \/ wire = <<>>
          \/ Written(<<>>, <<"proxy">>)
          \/ Written(<<"hello">>, <<"proxy", "hello">>)

SetupInv == SetupTypeOK /\ WireFollowsStage

\* Append to what may have been written.
LEMMA AppendToTwo ==
    ASSUME NEW S, NEW a \in S, NEW b \in S, NEW c \in S
    PROVE  /\ Append(<<>>, a) = <<a>>
           /\ Append(<<a>>, b) = <<a, b>>
           /\ Append(<<a, b>>, c) = <<a, b, c>>
<1>1. Append(<<>>, a) = <<a>>
  BY EmptySeq, AppendIsConcat, ConcatEmptySeq
<1>2. Append(<<a>>, b) = <<a, b>>
  <2>1. <<a>> \in Seq(S) /\ Len(<<a>>) = 1
    OBVIOUS
  <2>2. <<a, b>> \in Seq(S) /\ Len(<<a, b>>) = 2
    OBVIOUS
  <2>3. Append(<<a>>, b) \in Seq(S) /\ Len(Append(<<a>>, b)) = 2
    BY <2>1, AppendProperties
  <2>4. ASSUME NEW k \in 1..2 PROVE Append(<<a>>, b)[k] = <<a, b>>[k]
    <3>1. CASE k = 1
      BY <2>1, <3>1, AppendProperties
    <3>2. CASE k = 2
      BY <2>1, <3>2, AppendProperties
    <3> QED BY <3>1, <3>2
  <2> QED BY <2>2, <2>3, <2>4, SeqEqual
<1>3. Append(<<a, b>>, c) = <<a, b, c>>
  <2>1. <<a, b>> \in Seq(S) /\ Len(<<a, b>>) = 2
    OBVIOUS
  <2>2. <<a, b, c>> \in Seq(S) /\ Len(<<a, b, c>>) = 3
    OBVIOUS
  <2>3. Append(<<a, b>>, c) \in Seq(S) /\ Len(Append(<<a, b>>, c)) = 3
    BY <2>1, AppendProperties
  <2>4. ASSUME NEW k \in 1..3 PROVE Append(<<a, b>>, c)[k] = <<a, b, c>>[k]
    <3>1. CASE k = 1
      BY <2>1, <3>1, AppendProperties
    <3>2. CASE k = 2
      BY <2>1, <3>2, AppendProperties
    <3>3. CASE k = 3
      BY <2>1, <3>3, AppendProperties
    <3> QED BY <3>1, <3>2, <3>3
  <2> QED BY <2>2, <2>3, <2>4, SeqEqual
<1> QED BY <1>1, <1>2, <1>3

LEMMA Appends ==
    /\ Append(<<>>, "proxy") = <<"proxy">>
    /\ Append(<<>>, "hello") = <<"hello">>
    /\ Append(<<"proxy">>, "hello") = <<"proxy", "hello">>
    /\ Append(<<"hello">>, "preface") = <<"hello", "preface">>
    /\ Append(<<"proxy", "hello">>, "preface") = <<"proxy", "hello", "preface">>
<1> DEFINE S == {"proxy", "hello", "preface"}
<1>1. "proxy" \in S /\ "hello" \in S /\ "preface" \in S
  OBVIOUS
<1>2. /\ Append(<<>>, "proxy") = <<"proxy">>
      /\ Append(<<"proxy">>, "hello") = <<"proxy", "hello">>
      /\ Append(<<"proxy", "hello">>, "preface") = <<"proxy", "hello", "preface">>
  BY <1>1, AppendToTwo, ZenonT(30)
<1>3. /\ Append(<<>>, "hello") = <<"hello">>
      /\ Append(<<"hello">>, "preface") = <<"hello", "preface">>
  BY <1>1, AppendToTwo, ZenonT(30)
<1> QED BY <1>2, <1>3

\* SetupInv holds when a connection is asked for ...
LEMMA SetupInitInv == SetupInit => SetupInv
BY DEF SetupInit, SetupInv, SetupTypeOK, WireFollowsStage, Written

\* ... after a check, ...
LEMMA CheckInv ==
    ASSUME SetupInv, NEW from, NEW to, NEW ok \in BOOLEAN, Check(from, to, ok),
           to \in {"template", "tls_config", "tcp", "proxy", "flush", "server_name",
                   "handshake", "alpn", "h2", "open", "failed"},
           from # "open",
           ok => WireFollowsStage'
    PROVE  SetupInv'
<1>1. SetupTypeOK'
  BY DEF SetupInv, SetupTypeOK, Check
<1>2. CASE ok
  BY <1>1, <1>2 DEF SetupInv
<1>3. CASE ~ok
  <2>1. stage' = "failed" /\ wire' = wire /\ target' = target /\ stage # "open"
    BY <1>3 DEF Check
  <2>2. \/ wire = <<>>
        \/ Written(<<>>, <<"proxy">>)
        \/ Written(<<"hello">>, <<"proxy", "hello">>)
    BY <2>1 DEF SetupInv, SetupTypeOK, WireFollowsStage, Written
  <2> QED BY <1>1, <2>1, <2>2 DEF SetupInv, WireFollowsStage, Written
<1> QED BY <1>2, <1>3

\* ... and after every step of connect.
LEMMA SetupStepInv == ASSUME SetupInv, SetupNext PROVE SetupInv'
<1>0. target \in Targets /\ target.template \in BOOLEAN /\ target.tls \in BOOLEAN
      /\ target.sni \in BOOLEAN /\ target.proxy \in {"none", "same", "mixed"}
  BY DEF SetupInv, SetupTypeOK, Targets
<1>1. CASE ParseTemplate
  <2>1. target.template => WireFollowsStage'
    BY <1>1 DEF ParseTemplate, Check, SetupInv, WireFollowsStage, Written
  <2> QED BY <1>0, <1>1, <2>1, CheckInv DEF ParseTemplate
<1>2. CASE FindTlsConfig
  <2>1. target.tls => WireFollowsStage'
    BY <1>2 DEF FindTlsConfig, Check, SetupInv, WireFollowsStage, Written
  <2> QED BY <1>0, <1>2, <2>1, CheckInv DEF FindTlsConfig
<1>3. CASE ConnectTcp
  <2>1. WireFollowsStage'
    BY <1>0, <1>3 DEF ConnectTcp, Check, SetupInv, WireFollowsStage, Written
  <2> QED BY <1>0, <1>3, <2>1, CheckInv DEF ConnectTcp
<1>4. CASE WriteProxy
  <2>1. CASE Encodes(target.proxy)
    <3>1. stage' = "flush" /\ wire' = <<"proxy">> /\ target' = target /\ alpn' = alpn
          /\ target.proxy = "same"
      BY <1>4, <2>1, Appends DEF WriteProxy, Encodes, SetupInv, WireFollowsStage
    <3>2. wire' \in Seq({"proxy", "hello", "preface"})
      BY <3>1
    <3> QED BY <3>1, <3>2 DEF SetupInv, SetupTypeOK, WireFollowsStage, Written
  <2>2. CASE ~Encodes(target.proxy)
    BY <1>4, <2>2 DEF WriteProxy, SetupInv, SetupTypeOK, WireFollowsStage, Written
  <2> QED BY <2>1, <2>2
<1>5. CASE FlushProxy
  <2>1. WireFollowsStage'
    BY <1>5 DEF FlushProxy, Check, SetupInv, WireFollowsStage, Written
  <2> QED BY <1>0, <1>5, <2>1, CheckInv DEF FlushProxy
<1>6. CASE ServerName
  <2>1. target.sni => WireFollowsStage'
    BY <1>6 DEF ServerName, Check, SetupInv, WireFollowsStage, Written
  <2> QED BY <1>0, <1>6, <2>1, CheckInv DEF ServerName
<1>7. CASE Handshake
  <2>1. stage' = "alpn" /\ target' = target /\ alpn' \in {"own", "other", "none"}
        /\ wire' = Append(wire, "hello")
    BY <1>7 DEF Handshake
  <2>2. Written(<<"hello">>, <<"proxy", "hello">>)'
    BY <1>7, <2>1, Appends DEF Handshake, SetupInv, WireFollowsStage, Written
  <2>3. wire' \in Seq({"proxy", "hello", "preface"})
    BY <2>1 DEF SetupInv, SetupTypeOK
  <2> QED BY <2>1, <2>2, <2>3 DEF SetupInv, SetupTypeOK, WireFollowsStage
<1>8. CASE CheckAlpn
  <2>1. AlpnAccepted => WireFollowsStage'
    BY <1>8 DEF CheckAlpn, Check, SetupInv, WireFollowsStage, Written, AlpnAccepted
  <2>2. AlpnAccepted \in BOOLEAN
    BY <1>0 DEF AlpnAccepted, Targets
  <2> QED BY <1>8, <2>1, <2>2, CheckInv DEF CheckAlpn
<1>9. CASE HandshakeH2
  <2>1. stage' = "open" /\ target' = target /\ alpn' = alpn
        /\ wire' = Append(wire, "preface")
    BY <1>9 DEF HandshakeH2
  <2>2. Written(<<"hello", "preface">>, <<"proxy", "hello", "preface">>)'
    BY <1>9, <2>1, Appends DEF HandshakeH2, SetupInv, WireFollowsStage, Written
  <2>3. wire' \in Seq({"proxy", "hello", "preface"})
    BY <2>1 DEF SetupInv, SetupTypeOK
  <2>4. AlpnAccepted'
    BY <1>9, <2>1 DEF HandshakeH2, SetupInv, WireFollowsStage, AlpnAccepted
  <2> QED BY <2>1, <2>2, <2>3, <2>4 DEF SetupInv, SetupTypeOK, WireFollowsStage
<1>10. CASE SetupFails
  BY <1>10 DEF SetupFails, SetupInv, SetupTypeOK, WireFollowsStage, Written
<1> QED BY <1>1, <1>2, <1>3, <1>4, <1>5, <1>6, <1>7, <1>8, <1>9, <1>10 DEF SetupNext

\* The invariant says what PreambleFirst asks for.
LEMMA SetupInvImplies == SetupInv => PreambleFirst
<1> SUFFICES ASSUME SetupInv PROVE PreambleFirst
  OBVIOUS
<1> DEFINE said(x) == \E k \in DOMAIN wire : wire[k] = x
<1>1. target.proxy \in {"none", "same", "mixed"}
  BY DEF SetupInv, SetupTypeOK, Targets
<1>2. \/ wire = <<>>
      \/ Written(<<>>, <<"proxy">>)
      \/ Written(<<"hello">>, <<"proxy", "hello">>)
      \/ Written(<<"hello", "preface">>, <<"proxy", "hello", "preface">>) /\ AlpnAccepted
  BY DEF SetupInv, SetupTypeOK, WireFollowsStage, Written
<1>3. CASE wire = <<>>
  BY <1>3 DEF PreambleFirst
<1>4. CASE wire = <<"proxy">> /\ target.proxy = "same"
  BY <1>4 DEF PreambleFirst
<1>5. CASE wire = <<"hello">> /\ target.proxy = "none"
  BY <1>5 DEF PreambleFirst
<1>6. CASE wire = <<"proxy", "hello">> /\ target.proxy = "same"
  BY <1>6 DEF PreambleFirst
<1>7. CASE wire = <<"hello", "preface">> /\ target.proxy = "none" /\ AlpnAccepted
  BY <1>7 DEF PreambleFirst, AlpnAccepted
<1>8. CASE wire = <<"proxy", "hello", "preface">> /\ target.proxy = "same" /\ AlpnAccepted
  BY <1>8 DEF PreambleFirst, AlpnAccepted
<1> QED BY <1>2, <1>3, <1>4, <1>5, <1>6, <1>7, <1>8 DEF Written

-------------------------------------------------------------------------------
\* The steps after the setup keep what it has done.
LEMMA ExchangeKeepsSetup ==
    ASSUME DohNext PROVE SetupNext \/ UNCHANGED setup
<1>1. ASSUME NEW q \in Exchanges,
             \/ Begin(q) \/ Assemble(q) \/ ReadResponse(q) \/ TimerElapses(q)
             \/ SendFails(q) \/ BodyFails(q)
             \/ OpenStream(q) \/ Headers(q) \/ Data(q) \/ BodyTooLarge(q)
      PROVE  UNCHANGED setup
  BY <1>1 DEF Begin, Assemble, ReadResponse, TimerElapses, SendFails, BodyFails,
              OpenStream, Headers, Data, BodyTooLarge
<1>2. GoAway \/ DriverExits => UNCHANGED setup
  BY DEF GoAway, DriverExits
<1> QED BY <1>1, <1>2 DEF DohNext

LEMMA SetupInvAlways == DohSpec => []SetupInv
<1>1. DohInit => SetupInv
  BY SetupInitInv DEF DohInit
<1>2. SetupInv /\ [DohNext]_dohVars => SetupInv'
  <2> SUFFICES ASSUME SetupInv, [DohNext]_dohVars PROVE SetupInv'
    OBVIOUS
  <2>1. SetupNext \/ UNCHANGED setup
    BY ExchangeKeepsSetup DEF dohVars
  <2>2. CASE UNCHANGED setup
    BY <2>2 DEF setup, SetupInv, SetupTypeOK, WireFollowsStage, Written, AlpnAccepted
  <2> QED BY <2>1, <2>2, SetupStepInv
<1> QED BY <1>1, <1>2, PTL DEF DohSpec

\* The PROXY header is first on the wire, alone or followed by TLS; addresses of two
\* families let nothing out; HTTP/2 follows an accepted ALPN only (connect_tcp,
\* connect_tls and check_alpn of crates/transport).
THEOREM DohPreambleFirst == DohSpec => []PreambleFirst
BY SetupInvAlways, SetupInvImplies, PTL

-------------------------------------------------------------------------------
\* What the refinement needs of the exchanges, beside their types: one that is done
\* has an outcome, and one that is not has none.
OutcomeWhenDone ==
    \A q \in Exchanges : phase[q] = "done" <=> outcome[q] # "none"

ExchangeTypeOK ==
    /\ phase \in [Exchanges -> Phases]
    /\ ok2xx \in [Exchanges -> BOOLEAN]
    /\ body \in [Exchanges -> 0..BodyLimit]
    /\ ended \in [Exchanges -> BOOLEAN]
    /\ driver \in {"alive", "goaway", "gone"}
    /\ outcome \in [Exchanges -> Outcomes \cup {"none"}]

ExchangeInv == ExchangeTypeOK /\ OutcomeWhenDone

\* An exchange that goes on, and one that returns.
LEMMA ToInv ==
    ASSUME ExchangeInv, NEW q \in Exchanges, NEW p \in Phases \ {"done"},
           phase[q] # "done", To(q, p), UNCHANGED outcome
    PROVE  phase' \in [Exchanges -> Phases] /\ OutcomeWhenDone'
BY DEF ExchangeInv, ExchangeTypeOK, OutcomeWhenDone, To

LEMMA ReturnInv ==
    ASSUME ExchangeInv, NEW q \in Exchanges, NEW o \in Outcomes, Return(q, o)
    PROVE  /\ phase' \in [Exchanges -> Phases]
           /\ outcome' \in [Exchanges -> Outcomes \cup {"none"}]
           /\ OutcomeWhenDone'
<1>1. o # "none"
  BY DEF Outcomes
<1> QED BY <1>1 DEF ExchangeInv, ExchangeTypeOK, OutcomeWhenDone, Return, To, Phases

\* The steps that end an exchange, with what they return.
LEMMA EndsReturn ==
    ASSUME NEW q \in Exchanges,
           ReadResponse(q) \/ TimerElapses(q) \/ SendFails(q) \/ BodyFails(q) \/ BodyTooLarge(q)
    PROVE  /\ \E o \in Outcomes :
                 /\ Return(q, o)
                 /\ o = "timeout" => driver # "gone"
                 /\ o = "closed" => driver # "alive"
           /\ phase[q] \notin {"idle", "done"}
           /\ UNCHANGED <<ok2xx, body, ended, driver>>
<1>1. CASE ReadResponse(q)
  BY <1>1 DEF ReadResponse, Outcomes
<1>2. CASE TimerElapses(q)
  BY <1>2 DEF TimerElapses, Outcomes
<1>3. CASE SendFails(q)
  BY <1>3 DEF SendFails, Outcomes
<1>4. CASE BodyFails(q)
  BY <1>4 DEF BodyFails, Outcomes
<1>5. CASE BodyTooLarge(q)
  BY <1>5 DEF BodyTooLarge, Outcomes
<1> QED BY <1>1, <1>2, <1>3, <1>4, <1>5

LEMMA ExchangeStepInv ==
    ASSUME ExchangeInv, [DohNext]_dohVars PROVE ExchangeInv'
<1>1. CASE UNCHANGED <<exchange, driver>>
  BY <1>1 DEF exchange, ExchangeInv, ExchangeTypeOK, OutcomeWhenDone
<1>2. ASSUME NEW q \in Exchanges,
             ReadResponse(q) \/ TimerElapses(q) \/ SendFails(q) \/ BodyFails(q)
             \/ BodyTooLarge(q)
      PROVE  ExchangeInv'
  BY <1>2, EndsReturn, ReturnInv DEF ExchangeInv, ExchangeTypeOK
<1>3. ASSUME NEW q \in Exchanges, Begin(q) PROVE ExchangeInv'
  BY <1>3, ToInv DEF Begin, Phases, ExchangeInv, ExchangeTypeOK
<1>4. ASSUME NEW q \in Exchanges, Assemble(q) PROVE ExchangeInv'
  <2>1. UNCHANGED <<ok2xx, body, ended, driver>> /\ phase[q] = "begun"
    BY <1>4 DEF Assemble
  <2>2. CASE Return(q, "protocol") \/ Return(q, "closed")
    BY <2>1, <2>2, ReturnInv DEF Outcomes, ExchangeInv, ExchangeTypeOK
  <2>3. CASE To(q, "queued") /\ UNCHANGED outcome
    BY <2>1, <2>3, ToInv DEF Phases, ExchangeInv, ExchangeTypeOK
  <2> QED BY <1>4, <2>2, <2>3 DEF Assemble
<1>5. ASSUME NEW q \in Exchanges, OpenStream(q) PROVE ExchangeInv'
  BY <1>5, ToInv DEF OpenStream, Phases, ExchangeInv, ExchangeTypeOK
<1>6. ASSUME NEW q \in Exchanges, Headers(q) PROVE ExchangeInv'
  <2>1. phase' \in [Exchanges -> Phases] /\ OutcomeWhenDone'
    BY <1>6, ToInv DEF Headers, Phases
  <2>2. ok2xx' \in [Exchanges -> BOOLEAN]
    BY <1>6 DEF Headers, ExchangeInv, ExchangeTypeOK
  <2> QED BY <1>6, <2>1, <2>2 DEF Headers, ExchangeInv, ExchangeTypeOK
<1>7. ASSUME NEW q \in Exchanges, Data(q) PROVE ExchangeInv'
  <2>1. UNCHANGED <<phase, ok2xx, outcome, driver>>
    BY <1>7 DEF Data
  <2>2. body[q] \in 0..BodyLimit /\ BodyLimit \in Nat
    BY DohAssumption DEF ExchangeInv, ExchangeTypeOK
  <2>3. body' \in [Exchanges -> 0..BodyLimit]
    <3>1. CASE body[q] < BodyLimit /\ body' = [body EXCEPT ![q] = @ + 1]
      <4>1. body[q] + 1 \in 0..BodyLimit
        BY <2>2, <3>1
      <4> QED BY <3>1, <4>1 DEF ExchangeInv, ExchangeTypeOK
    <3>2. CASE UNCHANGED body
      BY <3>2 DEF ExchangeInv, ExchangeTypeOK
    <3> QED BY <1>7, <3>1, <3>2 DEF Data
  <2>4. ended' \in [Exchanges -> BOOLEAN]
    BY <1>7 DEF Data, ExchangeInv, ExchangeTypeOK
  <2> QED BY <2>1, <2>3, <2>4 DEF ExchangeInv, ExchangeTypeOK, OutcomeWhenDone
<1>8. CASE GoAway \/ DriverExits
  BY <1>8 DEF GoAway, DriverExits, exchange, ExchangeInv, ExchangeTypeOK, OutcomeWhenDone
<1> QED
  BY <1>1, <1>2, <1>3, <1>4, <1>5, <1>6, <1>7, <1>8 DEF DohNext, dohVars

LEMMA ExchangeInvAlways == DohSpec => []ExchangeInv
<1>1. DohInit => ExchangeInv
  BY DohAssumption DEF DohInit, ExchangeInv, ExchangeTypeOK, OutcomeWhenDone, Phases, Outcomes
<1>2. ExchangeInv /\ [DohNext]_dohVars => ExchangeInv'
  BY ExchangeStepInv
<1> QED BY <1>1, <1>2, PTL DEF DohSpec

\* The variables of DohConn keep their types.
THEOREM DohTyped == DohSpec => []DohTypeOK
<1>1. SetupInv /\ ExchangeInv => DohTypeOK
  BY DEF SetupInv, ExchangeInv, ExchangeTypeOK, DohTypeOK
<1> QED BY <1>1, SetupInvAlways, ExchangeInvAlways, PTL

-------------------------------------------------------------------------------
\* DohState, by the phase of an exchange.
LEMMA StateOf ==
    ASSUME ExchangeInv, NEW q \in Exchanges
    PROVE  /\ State(q) = "idle" <=> phase[q] = "idle"
           /\ State(q) = "open" <=> q \in Live
           /\ phase[q] = "done" =>
                State(q) = IF outcome[q] = "io" THEN "unsent" ELSE outcome[q]
<1>1. phase[q] = "done" => outcome[q] \in Outcomes
  BY DEF ExchangeInv, ExchangeTypeOK, OutcomeWhenDone, Outcomes
<1> QED BY <1>1 DEF State, Live, Outcomes

LEMMA OpenIsLive == ExchangeInv => DohConnection!Open = Live
BY StateOf DEF DohConnection!Open, DohState, Live

\* A step that leaves every exchange where the Connection sees it.
LEMMA SameState ==
    ASSUME ExchangeInv, ExchangeInv', UNCHANGED outcome,
           \A q \in Exchanges :
              \/ phase'[q] = phase[q]
              \/ phase[q] \notin {"idle", "done"} /\ phase'[q] \notin {"idle", "done"}
    PROVE  DohState' = DohState
<1>1. ASSUME NEW q \in Exchanges PROVE State(q)' = State(q)
  BY <1>1 DEF State
<1> QED BY <1>1 DEF DohState

\* Every step of DohConn is a step of the Connection, or invisible to it.
LEMMA DohStepRefines ==
    ASSUME ExchangeInv, ExchangeInv', [DohNext]_dohVars
    PROVE  [DohConnection!Next]_(DohConnection!vars)
<1> USE DEF DohConnection!Next, DohConnection!vars
<1>1. CASE UNCHANGED <<exchange, driver>>
  BY <1>1, SameState DEF exchange
<1>2. ASSUME NEW q \in Exchanges, NEW o \in Outcomes, Return(q, o),
             o = "timeout" => driver # "gone", o = "closed" => driver # "alive",
             phase[q] \notin {"idle", "done"}, UNCHANGED driver
      PROVE  DohConnection!Next
  <2> DEFINE r == IF o = "io" THEN "unsent" ELSE o
  <2>1. r \in DohConnection!Outcomes
    BY DEF DohConnection!Outcomes, Outcomes
  <2>2. phase' = [phase EXCEPT ![q] = "done"] /\ outcome' = [outcome EXCEPT ![q] = o]
    BY <1>2 DEF Return, To
  <2>3. phase'[q] = "done" /\ outcome'[q] = o
        /\ \A p \in Exchanges \ {q} : phase'[p] = phase[p] /\ outcome'[p] = outcome[p]
    BY <2>2 DEF ExchangeInv, ExchangeTypeOK
  <2>4. State(q)' = r
    BY <2>3 DEF State
  <2>5. ASSUME NEW p \in Exchanges \ {q} PROVE State(p)' = State(p)
    BY <2>3, <2>5 DEF State
  <2>6. DohState' = [DohState EXCEPT ![q] = r]
    BY <2>4, <2>5 DEF DohState
  <2>7. DohState[q] = "open"
    BY <1>2, StateOf DEF DohState, Live
  <2>8. DohConnection!End(q, r)
    BY <1>2, <2>6, <2>7 DEF DohConnection!End
  <2> QED BY <2>1, <2>8
<1>3. ASSUME NEW q \in Exchanges,
             ReadResponse(q) \/ TimerElapses(q) \/ SendFails(q) \/ BodyFails(q)
             \/ BodyTooLarge(q)
      PROVE  DohConnection!Next
  BY <1>2, <1>3, EndsReturn
<1>4. ASSUME NEW q \in Exchanges, Begin(q) PROVE DohConnection!Next
  <2>1. phase' = [phase EXCEPT ![q] = "begun"] /\ UNCHANGED <<outcome, driver>>
        /\ phase[q] = "idle" /\ Cardinality(Live) < Window
    BY <1>4 DEF Begin, To
  <2>2. phase'[q] = "begun" /\ \A p \in Exchanges \ {q} : phase'[p] = phase[p]
    BY <2>1 DEF ExchangeInv, ExchangeTypeOK
  <2>3. State(q)' = "open"
    BY <2>2 DEF State
  <2>4. ASSUME NEW p \in Exchanges \ {q} PROVE State(p)' = State(p)
    BY <2>1, <2>2, <2>4 DEF State
  <2>5. DohState' = [DohState EXCEPT ![q] = "open"]
    BY <2>3, <2>4 DEF DohState
  <2>6. DohState[q] = "idle"
    BY <2>1, StateOf DEF DohState
  <2>7. DohConnection!Begin(q)
    BY <2>1, <2>5, <2>6, OpenIsLive DEF DohConnection!Begin, Cardinality,
       DohConnection!Cardinality
  <2> QED BY <2>7
<1>5. ASSUME NEW q \in Exchanges, Assemble(q)
      PROVE  DohConnection!Next \/ (DohState' = DohState /\ driver' = driver)
  <2>1. CASE Return(q, "protocol")
    BY <1>2, <1>5, <2>1 DEF Assemble, Outcomes
  <2>2. CASE Return(q, "closed") /\ driver # "alive"
    BY <1>2, <1>5, <2>2 DEF Assemble, Outcomes
  <2>3. CASE To(q, "queued") /\ UNCHANGED outcome
    BY <1>5, <2>3, SameState DEF Assemble, To, ExchangeInv, ExchangeTypeOK
  <2> QED BY <1>5, <2>1, <2>2, <2>3 DEF Assemble
<1>6. ASSUME NEW q \in Exchanges, OpenStream(q) \/ Headers(q) \/ Data(q)
      PROVE  DohState' = DohState /\ driver' = driver
  BY <1>6, SameState DEF OpenStream, Headers, Data, To, ExchangeInv, ExchangeTypeOK
<1>7. CASE GoAway
  <2>1. driver = "alive" /\ driver' = "goaway" /\ DohState' = DohState
    BY <1>7, SameState DEF GoAway, exchange
  <2> QED BY <2>1 DEF DohConnection!GoAway
<1>8. CASE DriverExits
  <2>1. driver # "gone" /\ driver' = "gone" /\ DohState' = DohState
    BY <1>8, SameState DEF DriverExits, exchange
  <2> QED BY <2>1 DEF DohConnection!Shut
<1> QED
  BY <1>1, <1>3, <1>4, <1>5, <1>6, <1>7, <1>8 DEF DohNext, dohVars

\* DohConn is a Connection: every exchange has one result, no more than the window
\* are open, and the result tells the truth (DohConn::exchange, H2Sender::send and
\* map_hyper).
THEOREM DohImplementsConnection == DohSpec => DohConnSpec
<1>1. DohInit => DohConnection!Init
  <2> SUFFICES ASSUME DohInit PROVE DohConnection!Init
    OBVIOUS
  <2>1. \A q \in Exchanges : State(q) = "idle"
    BY DEF DohInit, State
  <2> QED BY <2>1 DEF DohInit, DohConnection!Init, DohState
<1>2. ExchangeInv /\ ExchangeInv' /\ [DohNext]_dohVars
        => [DohConnection!Next]_(DohConnection!vars)
  BY DohStepRefines
<1> QED
  BY <1>1, <1>2, ExchangeInvAlways, PTL DEF DohSpec, DohConnSpec, DohConnection!Spec
==============================================================================
