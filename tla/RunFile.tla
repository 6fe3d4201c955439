-------------------------------- MODULE RunFile --------------------------------
(***************************************************************************)
(* From the file of `wiresurge run` to what the command shows: the pairs   *)
(* of --var and --secret, the checks of the file, the expansion of its     *)
(* templates, the request, the verdict of `expect` and the masking of      *)
(* secrets (crates/core/src/scenario.rs, crates/core/src/lib.rs,           *)
(* crates/http/src/lib.rs, crates/cli/src/lib.rs).                         *)
(*                                                                         *)
(* A text is a sequence of tokens: a backslash, an opener, a closer, or a  *)
(* word.  A word between an opener and a closer is a key; the namespace is *)
(* part of it, and blanks around it are left out.  A reply's body is a     *)
(* function from the paths it has to values, or NotJson.  HttpRun has the  *)
(* records, signals and failures around the same send.                     *)
(***************************************************************************)
EXTENDS Integers, SequencesExt, LeftOut

CONSTANTS
    Inputs,      \* the arguments and the file of a run
    Replies(_),  \* what a server may answer to the run of an input
    Uuids,       \* the values {{uuid}} takes in one scope, in order
    Lower,       \* of a header's name
    Upper,       \* of a word that to_ascii_uppercase changes
    Percent,     \* of a word that query_percent_encode changes
    JsonEscape,  \* of a word that a JSON string has otherwise
    Serialized(_), \* a JSON value that is no text, as serde_json writes it
    Letters,     \* words of uppercase ASCII letters
    Schemes,     \* words that begin an http or https URL
    Marked,      \* words that hold a marker: token, secret, password, ...
    Sensitive,   \* headers whose values are never shown
    NotJson,
    IntMax,      \* the largest number as_i64 reads; as_u64 reads those above
    FloatMax     \* the integers up to here have an f64 of their own

VARIABLES
    input,    \* [vars, secrets, file]
    phase,
    todo,     \* fields still to be expanded, in order
    at,       \* of expand: index
    out,      \* of expand
    uuids,    \* uuid_counter of the scope
    request,  \* the fields that are expanded
    reply,
    verdict,  \* AssertionOutcome; "error" when the command ends with one
    shown     \* the parts of the command's output: [part, whole, text], whole unmasked

fileVars == <<input, phase, todo, at, out, uuids, request, reply, verdict, shown>>

Backslash == "\\"
Opener == "{{"
Closer == "}}"
Quote == "\""
Mask == "[redacted]"

file == input.file

Fields == <<"method", "url", "value", "body">>

\* What --var and --secret give: a name and a text.
Pair == [name : STRING, value : Seq(STRING)]

\* Texts are words, none of which is a value that {{uuid}} still has to take; names
\* have a namespace; a body: path and a JSON value are what serde makes of them.
IsText(t) == t \in Seq(STRING) /\ \A i \in 1..Len(t) : ~Contains(Uuids, t[i])
IsValue(v) ==
    /\ "n" \in DOMAIN v => v.n \in Int /\ v.is \in {"int", "float"}
    /\ IF v.is = "text" THEN v.text \in Seq(STRING) ELSE Serialized(v) \in Seq(STRING)
IsPath(path) ==
    /\ path.from \in {"status", "header", "body"}
    /\ path.from = "body" /\ ~path.isPointer => path.segments \in Seq(Seq(STRING))
IsReply(r) ==
    /\ IsValue([is |-> "int", n |-> r.status]) /\ r.raw \in Seq(STRING)
    /\ \A h \in DOMAIN r.headers : r.headers[h] \in Seq(STRING)
    /\ r.body # NotJson => \A p \in DOMAIN r.body : IsValue(r.body[p])

IsInput(i) ==
    /\ i.vars \in Seq(Pair) /\ i.secrets \in Seq(Pair)
    /\ \A f \in ToSet(Fields) : IsText(i.file[f])
    /\ i.file.name \in Seq(STRING) /\ i.file.unknown \in Seq(STRING)
    /\ \A n \in DOMAIN i.file.vars : n # "uuid" /\ IsText(i.file.vars[n])
    /\ \A p \in ToSet(i.vars) \cup ToSet(i.secrets) : p.name # "uuid" /\ IsText(p.value)
    /\ i.file.expect # NotGiven =>
         /\ i.file.expect.unknown \in Seq(STRING)
         /\ i.file.expect.bodyEq # NotGiven =>
              IsPath(i.file.expect.bodyEq.path) /\ IsValue(i.file.expect.bodyEq.value)

\* Uuids differ, and there are as many as a file can ask for.
ASSUME FileAssumption ==
    /\ IntMax \in Nat /\ FloatMax \in Nat /\ NotGiven \notin STRING
    /\ Uuids \in Seq(STRING) /\ IsInjective(Uuids)
    /\ \A w \in DOMAIN JsonEscape : JsonEscape[w] \in Seq(STRING)
    /\ \A i \in Inputs :
         /\ IsInput(i)
         /\ Len(i.file.method) + Len(i.file.url) + Len(i.file.value) + Len(i.file.body) <= Len(Uuids)
         /\ \A r \in Replies(i) : IsReply(r)

-------------------------------------------------------------------------------
(* Secrets, and what masks them.                                             *)

ValueOf(pairs) == [n \in {p.name : p \in ToSet(pairs)} |->
                       (CHOOSE p \in ToSet(pairs) : p.name = n).value]
Secrets == ValueOf(input.secrets)

\* String::replace, from the left.
Replaced(text, secret) ==
    LET from[i \in 1..(Len(text) + 1)] ==
            IF i > Len(text) THEN <<>>
            ELSE IF IsPrefix(secret, SubSeq(text, i, Len(text)))
            THEN <<Mask>> \o from[i + Len(secret)]
            ELSE <<text[i]>> \o from[i + 1]
    IN  from[1]

Encoded(secret) == [i \in 1..Len(secret) |->
    IF secret[i] \in DOMAIN Percent THEN Percent[secret[i]] ELSE secret[i]]

SecretValues == {Secrets[n] : n \in DOMAIN Secrets}

\* ... shortest first.
InOrder_ShortestFirst ==
    CHOOSE s \in SetToSeqs(SecretValues) :
        \A i, j \in 1..Cardinality(SecretValues) : i < j => Len(s[i]) <= Len(s[j])

\* Longest first.
InOrder ==
    CHOOSE s \in SetToSeqs(SecretValues) :
        \A i, j \in 1..Cardinality(SecretValues) : i < j => Len(s[i]) >= Len(s[j])

\* ... only as it is.
MaskedOnce_PlainOnly(text, secret) == Replaced(text, secret)

\* Each as it is and as a URL's query has it.
MaskedOnce(text, secret) == Replaced(Replaced(text, secret), Encoded(secret))

\* mask_secret_values
Masked(text) ==
    LET masked[k \in 0..Len(InOrder)] ==
            IF k = 0 THEN text ELSE MaskedOnce(masked[k - 1], InOrder[k])
    IN  masked[Len(InOrder)]

\* redact_value: all of a text with a marker is hidden.
Redacted(text) == IF ToSet(text) \cap Marked # {} THEN <<Mask>> ELSE Masked(text)

\* A part of the output, which was the whole text before it was masked.
Part(part, whole, text) == [part |-> part, whole |-> whole, text |-> text]
AsItIs(part, text) == Part(part, text, text)

End(output) ==
    /\ phase' = "done" /\ verdict' = "error"
    /\ shown' = output
    /\ UNCHANGED <<input, todo, at, out, uuids, request, reply>>

\* An error on its way out: redact_error masks its message, not its path.
Fail(path, quoted) ==
    End({AsItIs("path", path), Part("message", quoted, Masked(quoted))})

-------------------------------------------------------------------------------
(* Arguments and file.                                                       *)

\* parse_kv_pairs: pairs have a name, names differ, and a secret has a value.
Refused(pairs, flag) ==
    {i \in 1..Len(pairs) :
        \/ pairs[i].name = ""
        \/ flag = "secret" /\ pairs[i].value = <<>>
        \/ \E j \in 1..(i - 1) : pairs[j].name = pairs[i].name}
PairsRefused(pairs, flag) == Refused(pairs, flag) # {}

\* The first pair that is refused is named, before there is anything to mask.
RefuseArgument ==
    LET pair == IF PairsRefused(input.vars, "var") THEN input.vars[Min(Refused(input.vars, "var"))]
                ELSE input.secrets[Min(Refused(input.secrets, "secret"))]
    IN  End({AsItIs("argument", <<pair.name>>)})

\* header and body need what follows the colon.
PathRefused(path) ==
    \/ path.from = "header" /\ path.name = ""
    \/ path.from = "body" /\ path.segments = <<>>

ExpectRefused(expect) ==
    \/ expect.unknown # <<>>
    \/ expect.status = {}
    \/ expect.bodyEq # NotGiven /\ PathRefused(expect.bodyEq.path)
    \/ expect.status = NotGiven /\ expect.bodyEq = NotGiven

FileRefused ==
    \/ file.unknown # <<>>
    \/ {"id", "name", "url"} \ file.given # {}
    \/ ~file.idValid
    \/ file.expect # NotGiven /\ ExpectRefused(file.expect)

\* Errors quote the name of a field that nobody knows, and nothing else of the file.
UnknownField ==
    IF file.unknown # <<>> \/ {"id", "name", "url"} \ file.given # {} \/ ~file.idValid \/ file.expect = NotGiven
    THEN file.unknown ELSE file.expect.unknown

Prepare ==
    /\ phase = "prepare"
    /\ IF PairsRefused(input.vars, "var") \/ PairsRefused(input.secrets, "secret") THEN RefuseArgument
       ELSE IF FileRefused THEN Fail(UnknownField, UnknownField)
       ELSE /\ phase' = "expand"
            /\ UNCHANGED <<input, todo, at, out, uuids, request, reply, verdict, shown>>

-------------------------------------------------------------------------------
(* expand: one iteration of its loop at a time.                              *)

\* Variables of the command line take the place of the file's.
Over(f, g) == [n \in DOMAIN f \cup DOMAIN g |-> IF n \in DOMAIN f THEN f[n] ELSE g[n]]
Scope == Over(Over(ValueOf(input.vars), file.vars), Secrets)

Text == file[todo[1]]
Rest == SubSeq(Text, at, Len(Text))
Starts(what) == todo # <<>> /\ phase = "expand" /\ IsPrefix(what, Rest)

Emit(words, upTo) ==
    /\ out' = out \o words
    /\ at' = upTo
    /\ UNCHANGED <<input, phase, todo, request, reply, verdict, shown>>

EscapedOpener ==
    /\ Starts(<<Backslash, Opener>>)
    /\ Emit(<<Opener>>, at + 2)
    /\ UNCHANGED uuids

EscapedBackslash ==
    /\ Starts(<<Backslash, Backslash, Opener>>)
    /\ Emit(<<Backslash>>, at + 2)
    /\ UNCHANGED uuids

\* The key reaches to the first closer, whatever is in it.
Reference ==
    /\ Starts(<<Opener>>)
    /\ LET closers == {i \in (at + 1)..Len(Text) : Text[i] = Closer}
           end     == CHOOSE i \in closers : \A j \in closers : i <= j
           key     == SubSeq(Text, at + 1, end - 1)
       IN  IF closers = {} THEN Fail(<<>>, <<>>)
           ELSE IF Len(key) # 1 THEN Fail(key, key)
           ELSE IF key[1] = "uuid"
           THEN Emit(<<Uuids[uuids + 1]>>, end + 1) /\ uuids' = uuids + 1
           ELSE IF key[1] \in DOMAIN Scope
           THEN Emit(Scope[key[1]], end + 1) /\ UNCHANGED uuids
           ELSE Fail(key, key)

\* Where the run of literal tokens from here ends: before an opener ...
LiteralEnd_OpenerOnly ==
    CHOOSE i \in (at + 1)..(Len(Text) + 1) :
        /\ i > Len(Text) \/ Text[i] = Opener
        /\ \A j \in (at + 1)..(i - 1) : Text[j] # Opener

\* ... or a backslash, which may begin an escape.
LiteralEnd ==
    CHOOSE i \in (at + 1)..(Len(Text) + 1) :
        /\ i > Len(Text) \/ Text[i] \in {Opener, Backslash}
        /\ \A j \in (at + 1)..(i - 1) : Text[j] \notin {Opener, Backslash}

Literal ==
    /\ Starts(<<>>) /\ Rest # <<>>
    /\ \A special \in {<<Opener>>, <<Backslash, Opener>>, <<Backslash, Backslash, Opener>>} :
           ~Starts(special)
    /\ Emit(SubSeq(Text, at, LiteralEnd - 1), LiteralEnd)
    /\ UNCHANGED uuids

FieldDone ==
    /\ Starts(<<>>) /\ Rest = <<>>
    /\ request' = [request EXCEPT ![todo[1]] = out]
    /\ todo' = Tail(todo)
    /\ at' = 1 /\ out' = <<>>
    /\ UNCHANGED <<input, phase, uuids, reply, verdict, shown>>

-------------------------------------------------------------------------------
(* The request, its answer and the verdict.                                  *)

\* The method is in upper case from its expansion on.
Method == [i \in 1..Len(request.method) |->
    IF request.method[i] \in DOMAIN Upper THEN Upper[request.method[i]] ELSE request.method[i]]

\* The names of headers are in lower case.
HeaderName == Lower[file.header]

\* RequestSpec::validate, after the expansion.  The error quotes nothing.
Validate ==
    /\ phase = "expand" /\ todo = <<>>
    /\ IF file.name # <<>> /\ request.url # <<>> /\ request.url[1] \in Schemes
          /\ Method # <<>> /\ ToSet(Method) \subseteq Letters
       THEN /\ phase' = "send"
            /\ UNCHANGED <<input, todo, at, out, uuids, request, reply, verdict, shown>>
       ELSE Fail(<<>>, <<>>)

Respond ==
    /\ phase = "send"
    /\ reply' \in Replies(input)
    /\ phase' = "evaluate"
    /\ UNCHANGED <<input, todo, at, out, uuids, request, verdict, shown>>

\* The errors of HttpClient::send quote nothing; one about a header is at its name.
SendFails ==
    /\ phase = "send"
    /\ \E path \in {<<>>, <<HeaderName>>} : Fail(path, <<>>)

\* RFC 6901 writes ~ and / of a member's name as ~0 and ~1: one `replace` each, the
\* tilde first.
Escaped(segment) ==
    FlattenSeq([i \in 1..Len(segment) |->
        CASE segment[i] = "~" -> <<"~", "0">> [] segment[i] = "/" -> <<"~", "1">>
          [] OTHER -> <<segment[i]>>])

\* The segments of the pointer a body: path is lowered to.
Pointer(path) ==
    IF path.isPointer THEN path.segments
    ELSE [i \in 1..Len(path.segments) |-> Escaped(path.segments[i])]

\* serde_json's Value::pointer.
Unescaped(segment) ==
    LET Ch(i) == IF i \in 1..Len(segment) THEN segment[i] ELSE ""
    IN  FlattenSeq([i \in 1..Len(segment) |->
            CASE Ch(i) = "~" /\ Ch(i + 1) = "1" -> <<"/">>
              [] Ch(i) = "1" /\ Ch(i - 1) = "~" -> <<>>
              [] Ch(i) = "0" /\ Ch(i - 1) = "~" -> <<>>
              [] OTHER -> <<Ch(i)>>])

\* Selector::resolve_value: the values there are, one or none.
Selected(path) ==
    CASE path.from = "status" -> {[is |-> "int", n |-> reply.status]}
      [] path.from = "header" ->
            {[is |-> "text", text |-> reply.headers[h]] :
                h \in {Lower[path.name]} \cap DOMAIN reply.headers}
      [] path.from = "body" ->
            IF reply.body = NotJson THEN {}
            ELSE {reply.body[p] : p \in DOMAIN reply.body \cap
                     {[i \in 1..Len(path.segments) |-> Unescaped(Pointer(path)[i])]}}

AsFloat(n) == IF n <= FloatMax THEN n ELSE n - (n % 2)

\* ... every number through f64.
ValuesMatch_FloatBridge(a, b) ==
    IF "n" \in DOMAIN a /\ "n" \in DOMAIN b THEN AsFloat(a.n) = AsFloat(b.n)
    ELSE a = b

\* values_match: two integers of one 64-bit type as they are, other numbers as f64.
ValuesMatch(a, b) ==
    IF "n" \in DOMAIN a /\ "n" \in DOMAIN b
    THEN IF a.is = "int" /\ b.is = "int"
            /\ ((a.n <= IntMax /\ b.n <= IntMax) \/ (a.n >= 0 /\ b.n >= 0))
         THEN a.n = b.n
         ELSE AsFloat(a.n) = AsFloat(b.n)
    ELSE a = b

Holds(expect) ==
    /\ expect.status # NotGiven => reply.status \in expect.status
    /\ expect.bodyEq # NotGiven =>
         \E v \in Selected(expect.bodyEq.path) : ValuesMatch(v, expect.bodyEq.value)

-------------------------------------------------------------------------------
(* What is shown.                                                            *)

\* serde_json's to_string.
JsonText(text) == FlattenSeq([i \in 1..Len(text) |->
    IF text[i] \in DOMAIN JsonEscape THEN JsonEscape[text[i]] ELSE <<text[i]>>])
Json(v) == IF v.is = "text" THEN <<Quote>> \o JsonText(v.text) \o <<Quote>> ELSE Serialized(v)

\* A body_eq that fails, of a status that held.
EqFails ==
    /\ file.expect # NotGiven /\ file.expect.bodyEq # NotGiven
    /\ file.expect.status # NotGiven => reply.status \in file.expect.status
    /\ ~\E v \in Selected(file.expect.bodyEq.path) : ValuesMatch(v, file.expect.bodyEq.value)

\* The values its message quotes: what it expects, and what there is instead, if anything.
Expected == IF EqFails THEN {file.expect.bodyEq.value} ELSE {}
Quoted   == IF EqFails THEN Selected(file.expect.bodyEq.path) ELSE {}

\* RequestSpec's redacted_output: the name, the method and the names of headers are
\* shown as they are.
ShownRequest ==
    {AsItIs("name", file.name), AsItIs("method", Method), AsItIs("header", <<HeaderName>>),
     Part("url", request.url, Redacted(request.url)),
     Part("value", request.value, IF HeaderName \in Sensitive \cup Marked THEN <<Mask>>
                                  ELSE Redacted(request.value)),
     Part("body", request.body, Redacted(request.body))}

\* HttpResponse's redacted_output.
ShownReply ==
    {Part("reply's body", reply.raw, Redacted(reply.raw))}
    \cup {AsItIs("reply's header", <<h>>) : h \in DOMAIN reply.headers}
    \cup {Part("reply's value", reply.headers[h],
                IF h \in Sensitive THEN <<Mask>> ELSE Redacted(reply.headers[h])) :
             h \in DOMAIN reply.headers}

\* evaluate redacts the value in its message, evaluate_expect masks all of that.
ShownFailure ==
    {Part("message", Json(v), Masked(Json(v))) : v \in Expected}
    \cup {Part("message", Json(v), Masked(Redacted(Json(v)))) : v \in Quoted}

Output == ShownRequest \cup ShownReply \cup ShownFailure

Evaluate ==
    /\ phase = "evaluate"
    /\ phase' = "done"
    /\ verdict' = IF file.expect = NotGiven THEN "not_evaluated"
                  ELSE IF Holds(file.expect) THEN "passed" ELSE "failed"
    /\ shown' = Output
    /\ UNCHANGED <<input, todo, at, out, uuids, request, reply>>

-------------------------------------------------------------------------------
FileOf(given, first) ==
    /\ input = given
    /\ phase = first
    /\ todo = Fields
    /\ at = 1 /\ out = <<>> /\ uuids = 0
    /\ request = [f \in ToSet(Fields) |-> <<>>]
    /\ reply = NotGiven
    /\ verdict = "none"
    /\ shown = {}

FileInit == \E given \in Inputs : FileOf(given, "prepare")

FileNext ==
    \/ Prepare
    \/ EscapedOpener \/ EscapedBackslash \/ Reference \/ Literal \/ FieldDone
    \/ Validate \/ Respond \/ SendFails \/ Evaluate

FileSpec == FileInit /\ [][FileNext]_fileVars

-------------------------------------------------------------------------------
(* Properties.                                                               *)

\* What a template means, read from opener to opener: n backslashes before one make
\* an escape of n = 1, and otherwise the last of them disappears; every other token
\* stands for itself, and a value is not read again.  NotGiven where it has no meaning.
Meaning(text) ==
    LET openers(s) == {i \in s..Len(text) : text[i] = Opener}
        m[s \in 1..(Len(text) + 1)] ==
            IF openers(s) = {} THEN SubSeq(text, s, Len(text))
            ELSE LET p == Min(openers(s))
                     b == Max({k \in 0..(p - s) : \A j \in (p - k)..(p - 1) : text[j] = Backslash})
                     before  == SubSeq(text, s, p - 1 - b)
                     closers == {i \in p..Len(text) : text[i] = Closer}
                     key     == SubSeq(text, p + 1, Min(closers) - 1)
                     value   == IF key \in {<<k>> : k \in DOMAIN Scope} THEN Scope[key[1]]
                                ELSE IF key = <<"uuid">> THEN key ELSE <<NotGiven>>
                 IN  IF b = 1 THEN before \o <<Opener>> \o m[p + 1]
                     ELSE before \o SubSeq(text, p - b + 1, p - 1)
                          \o (IF closers = {} THEN <<NotGiven>> ELSE value \o m[Min(closers) + 1])
    IN  m[1]

\* A field is expanded to what its template means, or the command ends with an error
\* because it means nothing; no two {{uuid}} of a run, in whatever fields, are alike.
ExpandedExactly ==
    /\ \A f \in DOMAIN request :
         /\ ~Contains(todo, f) =>
               [i \in DOMAIN request[f] |->
                   IF Contains(Uuids, request[f][i]) THEN "uuid" ELSE request[f][i]] = Meaning(file[f])
         /\ \A g \in DOMAIN request : \A i \in DOMAIN request[f] : \A j \in DOMAIN request[g] :
               Contains(Uuids, request[f][i]) /\ request[g][j] = request[f][i] => f = g /\ i = j
    /\ verdict = "error" /\ todo # <<>> /\ todo # Fields =>
         Contains(Meaning(file[todo[1]]), NotGiven)

\* The values an `expect` of the file is about, by the names it is written with.
Meant(path) ==
    IF path.from = "body" /\ ~path.isPointer
    THEN {reply.body[p] : p \in {q \in {path.segments} : reply.body # NotJson /\ q \in DOMAIN reply.body}}
    ELSE Selected(path)

\* Numbers of the same value are equal; an integer beside an f64 is one for the code
\* if its own f64 is equal too, but two integers are never rounded.
Equal(a, b) == IF "n" \in DOMAIN a /\ "n" \in DOMAIN b THEN a.n = b.n ELSE a = b
Alike(a, b) ==
    \/ Equal(a, b)
    \/ "n" \in DOMAIN a /\ "n" \in DOMAIN b /\ "float" \in {a.is, b.is} /\ AsFloat(a.n) = AsFloat(b.n)

\* A passed assertion is one that was written, whole, and holds of the response; a
\* failed one does not hold; a run with an `expect` the parser dropped would be green.
VerdictTruthful ==
    LET Status == file.expect.status = NotGiven \/ reply.status \in file.expect.status
        Body(eq(_, _)) == file.expect.bodyEq = NotGiven
            \/ \E v \in Meant(file.expect.bodyEq.path) : eq(v, file.expect.bodyEq.value)
    IN  /\ verdict = "passed" => file.unknown = <<>> /\ file.expect.unknown = <<>> /\ Status /\ Body(Alike)
        /\ verdict = "failed" => ~(Status /\ Body(Equal))
        /\ verdict = "not_evaluated" => file.expect = NotGiven

\* The parts of the output that the code masks; the others are shown as they are.
MaskedParts == {"url", "value", "body", "reply's body", "reply's value", "message"}
MaskedShown == {s \in shown : s.part \in MaskedParts}

\* What a secret may look like in a text, and where: its first and its last token.
Forms == UNION {{Secrets[n], Encoded(Secrets[n])} : n \in DOMAIN Secrets}
Places(text) == {o \in (DOMAIN text) \X (DOMAIN text) : SubSeq(text, o[1], o[2]) \in Forms}
Apart(o, c) == o[2] < c[1] \/ c[2] < o[1]
Width(o) == o[2] - o[1]

\* A text with one mask for each of some places, and otherwise as it is.
Cut(text, cuts) ==
    LET from[i \in 1..(Len(text) + 1)] ==
            IF i > Len(text) THEN <<>>
            ELSE IF \E c \in cuts : c[1] = i
            THEN <<Mask>> \o from[(CHOOSE c \in cuts : c[1] = i)[2] + 1]
            ELSE <<text[i]>> \o from[i + 1]
    IN  from[1]

\* What is shown of a text has masks in the place of secrets, is the text otherwise,
\* and has no secret left in it: where one is, another that begins or ends in it may be
\* masked in its stead, but only one as long.  A secret that no other cuts across is
\* masked from end to end.
MaskedThus(whole, text) ==
    \E cuts \in SUBSET Places(whole) :
        /\ text = Cut(whole, cuts)
        /\ \A c, d \in cuts : c # d => Apart(c, d)
        /\ \A o \in Places(whole) : \E c \in cuts : ~Apart(o, c) /\ Width(o) <= Width(c)

\* Every part that is masked is its text with its secrets masked and nothing else: no
\* part of a secret stays, even if another is the beginning of it and the target sends it
\* back as it was in the URL, unless one as long that cuts across it is masked instead.
\* (Masks may make up a secret that has a mask in it.)  The method, names and the path
\* of an error are not among these.
SecretsMasked ==
    \A s \in MaskedShown :
        \/ \E form \in Forms : Mask \in ToSet(form)
        \/ s.text = <<Mask>>
        \/ MaskedThus(s.whole, s.text)

\* Whatever the texts and however secrets overlap, none is in any part that is masked
\* from end to end, neither as it is nor as a URL has it: url, header values and bodies,
\* and the messages of errors and failed assertions.  (One with the mask in it would be.)
NoSecretWhole ==
    \A s \in MaskedShown : \A n \in DOMAIN Secrets :
        \A secret \in {Secrets[n], Encoded(Secrets[n])} :
            Mask \in ToSet(secret) \/ secret \notin SubSeqs(s.text)

\* crates/engine/src/lib.rs:22: secrets are masked wherever the request is serialized.
\* The code shows the expanded method as it is.
RequestHidesSecrets ==
    \A s \in shown : s.part \in {"url", "method", "header", "value", "body"} =>
        \A n \in DOMAIN Secrets : Mask \in ToSet(Secrets[n]) \/ Secrets[n] \notin SubSeqs(s.text)
===============================================================================
