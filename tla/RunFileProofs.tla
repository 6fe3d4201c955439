----------------------------- MODULE RunFileProofs -----------------------------
(***************************************************************************)
(* What `wiresurge run` says of a response is true and has no secret in    *)
(* it, whatever the file and the response are: theorems about RunFile.     *)
(***************************************************************************)
EXTENDS RunFile, Induction, SequenceTheorems

-------------------------------------------------------------------------------
(* Sequences: FlattenSeq is what it is meant to be, one sequence after       *)
(* another, and what is shown of it by adding an element at a time.          *)

\* Of three texts it does not matter which two are joined first.
Regroups(a, b, c) == (a \o b) \o c = a \o (b \o c)

\* Joining texts over one alphabet is associative.
LEMMA TextsRegroup ==
    ASSUME NEW V, NEW a \in Seq(V), NEW b \in Seq(V), NEW c \in Seq(V)
    PROVE  Regroups(a, b, c)
BY ConcatAssociative DEF Regroups

\* The equation of `flatten` in FlattenSeq.
LEMMA FlattenSteps ==
    ASSUME NEW V, NEW s \in Seq(Seq(V)), s # <<>>
    PROVE  \E fl \in [1..Len(s) -> Seq(V)] :
              /\ FlattenSeq(s) = fl[Len(s)]
              /\ \A i \in 1..Len(s) : fl[i] = IF i = 1 THEN s[i] ELSE fl[i - 1] \o s[i]
<1> DEFINE D == 1..Len(s)
           Body(g, i) == IF i = 1 THEN s[i] ELSE g[i - 1] \o s[i]
           flatten == CHOOSE g : g = [i \in D |-> Body(g, i)]
           size == [i \in D |-> i]
           H == [i \in D |-> [g \in [D -> Seq(V)] |-> Body(g, i)]]
<1>1. Len(s) \in Nat /\ Len(s) # 0
  BY LenProperties, EmptySeq
<1>2. FlattenSeq(s) = flatten[Len(s)]
  BY <1>1 DEF FlattenSeq
<1>3. ASSUME NEW i \in D, NEW g \in [D -> Seq(V)] PROVE Body(g, i) \in Seq(V)
  <2>1. s[i] \in Seq(V)
    BY ElementOfSeq
  <2>2. CASE i = 1
    BY <2>1, <2>2
  <2>3. CASE i # 1
    <3>1. i - 1 \in D
      BY <1>1, <2>3
    <3>2. g[i - 1] \in Seq(V)
      BY <3>1
    <3>3. g[i - 1] \o s[i] \in Seq(V)
      BY <2>1, <3>2, ConcatProperties
    <3> QED BY <2>3, <3>3
  <2> QED BY <2>2, <2>3
<1>4. \E g \in [D -> Seq(V)] : \A i \in D : g[i] = Body(g, i)
  <2>1. size \in [D -> Nat]
    BY <1>1
  <2>2. H \in [D -> [[D -> Seq(V)] -> Seq(V)]]
    <3> HIDE DEF Body
    <3> QED BY <1>3
  <2>3. ASSUME NEW i \in D, NEW g \in [D -> Seq(V)], NEW h \in [D -> Seq(V)],
               \A j \in D : size[j] < size[i] => g[j] = h[j]
        PROVE  H[i][g] = H[i][h]
    <3>1. i # 1 => i - 1 \in D /\ size[i - 1] < size[i]
      BY <1>1
    <3>2. Body(g, i) = Body(h, i)
      BY <2>3, <3>1
    <3> HIDE DEF Body
    <3> QED BY <3>2
  <2>4. Recursive(D, Seq(V), size, H)
    <3>1. Seq(V) # {}
      BY EmptySeq
    <3> HIDE DEF D, H, size
    <3> QED BY <2>1, <2>2, <2>3, <3>1 DEF Recursive
  <2>5. PICK g \in [D -> Seq(V)] : Solves(g, D, H)
    BY <2>4, RecursionSolved
  <2>6. \A i \in D : g[i] = Body(g, i)
    BY <2>5 DEF Solves
  <2> HIDE DEF Body, D
  <2> QED BY <2>6
<1>5. flatten = [i \in D |-> Body(flatten, i)]
  <2> HIDE DEF Body, D
  <2>1. PICK g \in [D -> Seq(V)] : \A i \in D : g[i] = Body(g, i)
    BY <1>4
  <2>2. g = [i \in D |-> Body(g, i)]
    BY <2>1
  <2> QED BY <2>2
<1>6. ASSUME NEW i \in D PROVE flatten[i] = Body(flatten, i)
  <2> HIDE DEF Body, flatten, D
  <2> QED BY <1>5
<1> DEFINE Good == {i \in Nat : i \in D => flatten[i] \in Seq(V)}
<1>7. Nat \subseteq Good
  <2>1. 0 \in Good
    OBVIOUS
  <2>2. ASSUME NEW i \in Nat, i \in Good PROVE i + 1 \in Good
    <3> SUFFICES ASSUME i + 1 \in D PROVE flatten[i + 1] \in Seq(V)
      OBVIOUS
    <3>1. s[i + 1] \in Seq(V)
      BY ElementOfSeq
    <3>2. CASE i = 0
      <4>1. flatten[i + 1] = s[i + 1]
        <5> HIDE DEF flatten
        <5> QED BY <1>6, <3>2
      <4> QED BY <3>1, <4>1
    <3>3. CASE i # 0
      <4>1. i \in D /\ i + 1 # 1 /\ (i + 1) - 1 = i
        BY <1>1, <3>3
      <4>2. flatten[i + 1] = flatten[i] \o s[i + 1] /\ flatten[i] \in Seq(V)
        <5> HIDE DEF flatten, D
        <5> QED BY <1>6, <2>2, <4>1
      <4> HIDE DEF flatten
      <4> QED BY <3>1, <4>2, ConcatProperties
    <3> QED BY <3>2, <3>3
  <2> HIDE DEF Good
  <2> QED BY <2>1, <2>2, NatIsAll
<1>8. flatten \in [D -> Seq(V)]
  <2>1. \A i \in D : i \in Nat
    BY <1>1
  <2> HIDE DEF Body, flatten, D
  <2> QED BY <1>5, <1>7, <2>1
<1> HIDE DEF flatten
<1> QED BY <1>2, <1>6, <1>8

LEMMA FlattenAppend ==
    ASSUME NEW V, NEW s \in Seq(Seq(V)), NEW e \in Seq(V)
    PROVE  /\ FlattenSeq(s) \in Seq(V)
           /\ FlattenSeq(Append(s, e)) = FlattenSeq(s) \o e
<1> DEFINE t == Append(s, e)
<1>1. /\ t \in Seq(Seq(V)) /\ t # <<>> /\ Len(t) = Len(s) + 1 /\ Len(s) \in Nat
      /\ t[Len(s) + 1] = e /\ \A i \in 1..Len(s) : t[i] = s[i]
  BY AppendProperties, LenProperties
<1> HIDE DEF t
<1>1a. t \in Seq(Seq(V)) /\ t # <<>>
  BY <1>1
<1>2. PICK ft \in [1..Len(t) -> Seq(V)] :
             /\ FlattenSeq(t) = ft[Len(t)]
             /\ \A i \in 1..Len(t) : ft[i] = IF i = 1 THEN t[i] ELSE ft[i - 1] \o t[i]
  BY <1>1a, FlattenSteps
<1>3a. ft[1] = t[1]
  BY <1>1, <1>2
<1>3b. ASSUME NEW i \in Nat, i # 0, i + 1 \in 1..Len(t) PROVE ft[i + 1] = ft[i] \o t[i + 1]
  <2>1. i + 1 # 1 /\ (i + 1) - 1 = i
    BY <1>3b
  <2>2. ft[i + 1] = IF i + 1 = 1 THEN t[i + 1] ELSE ft[(i + 1) - 1] \o t[i + 1]
    BY <1>2, <1>3b
  <2> QED BY <2>1, <2>2
<1>3. CASE s = <<>>
  <2>1. Len(s) = 0 /\ FlattenSeq(s) = <<>>
    BY <1>3, EmptySeq DEF FlattenSeq
  <2>2. ft[1] = e
    BY <1>1, <1>2, <2>1
  <2> QED BY <1>1, <1>2, <2>1, <2>2, EmptySeq, ConcatEmptySeq DEF t
<1>4. CASE s # <<>>
  <2>1. PICK fs \in [1..Len(s) -> Seq(V)] :
               /\ FlattenSeq(s) = fs[Len(s)]
               /\ \A i \in 1..Len(s) : fs[i] = IF i = 1 THEN s[i] ELSE fs[i - 1] \o s[i]
    BY <1>4, FlattenSteps
  <2>1a. fs[1] = s[1]
    <3>1. 1 \in 1..Len(s)
      BY <1>1, <1>4, EmptySeq
    <3> QED BY <2>1, <3>1
  <2>1b. ASSUME NEW i \in Nat, i # 0, i + 1 \in 1..Len(s) PROVE fs[i + 1] = fs[i] \o s[i + 1]
    <3>1. i + 1 # 1 /\ (i + 1) - 1 = i
      BY <2>1b
    <3>2. fs[i + 1] = IF i + 1 = 1 THEN s[i + 1] ELSE fs[(i + 1) - 1] \o s[i + 1]
      BY <2>1, <2>1b
    <3> QED BY <3>1, <3>2
  <2>2. Len(s) \in 1..Len(s)
    BY <1>1, <1>4, EmptySeq
  <2> DEFINE Same == {i \in Nat : i \in 1..Len(s) => ft[i] = fs[i]}
  <2>3. Nat \subseteq Same
    <3>1. 0 \in Same
      OBVIOUS
    <3>2. ASSUME NEW i \in Nat, i \in Same PROVE i + 1 \in Same
      <4> SUFFICES ASSUME i + 1 \in 1..Len(s) PROVE ft[i + 1] = fs[i + 1]
        OBVIOUS
      <4>1. t[i + 1] = s[i + 1] /\ i + 1 \in 1..Len(t)
        BY <1>1
      <4>2. CASE i = 0
        <5>1. ft[i + 1] = t[i + 1] /\ fs[i + 1] = s[i + 1]
          BY <1>3a, <2>1a, <4>1, <4>2
        <5> QED BY <4>1, <5>1
      <4>3. CASE i # 0
        <5>1. i \in 1..Len(s) /\ ft[i] = fs[i]
          BY <1>1, <3>2, <4>3
        <5>2. ft[i + 1] = ft[i] \o t[i + 1]
          BY <1>3b, <4>1, <4>3
        <5>3. fs[i + 1] = fs[i] \o s[i + 1]
          BY <2>1b, <4>3
        <5> QED BY <4>1, <5>1, <5>2, <5>3
      <4> QED BY <4>2, <4>3
    <3> HIDE DEF Same
    <3> QED BY <3>1, <3>2, NatIsAll
  <2>4. ft[Len(s)] = fs[Len(s)]
    BY <1>1, <2>2, <2>3
  <2>5. ft[Len(s) + 1] = ft[Len(s)] \o t[Len(s) + 1]
    <3>1. Len(s) \in Nat /\ Len(s) # 0 /\ Len(s) + 1 \in 1..Len(t)
      BY <1>1, <2>2
    <3> QED BY <1>3b, <3>1
  <2> QED BY <1>1, <1>2, <2>1, <2>2, <2>4, <2>5 DEF t
<1> QED BY <1>3, <1>4

\* What holds of the empty sequence, and of a longer one if of the shorter, holds of all.
LEMMA SeqIsAll ==
    ASSUME NEW V, NEW S, <<>> \in S, \A s \in Seq(V), c \in V : s \in S => Append(s, c) \in S
    PROVE  Seq(V) \subseteq S
<1> DEFINE N == {n \in Nat : \A s \in Seq(V) : Len(s) = n => s \in S}
<1>1. 0 \in N
  BY EmptySeq
<1>2. ASSUME NEW n \in Nat, n \in N PROVE n + 1 \in N
  <2> SUFFICES ASSUME NEW s \in Seq(V), Len(s) = n + 1 PROVE s \in S
    OBVIOUS
  <2> DEFINE f == SubSeq(s, 1, n)
             c == s[n + 1]
  <2>1. c \in V /\ \A i \in 1..n : s[i] \in V
    BY <1>2, ElementOfSeq
  <2>2. f \in Seq(V) /\ Len(f) = n
    <3>1. 1 \in Int /\ n \in Int
      BY <1>2
    <3> QED BY <1>2, <2>1, <3>1, SubSeqProperties
  <2>3. s = Append(f, c)
    <3>1. n + 1 \in 1..Len(s) /\ 1 \in 1..Len(s) /\ n + 1 \in 1..Len(s) /\ (n + 1) - 1 = n
      BY <1>2
    <3>2. SubSeq(s, 1, n + 1) = SubSeq(s, 1, (n + 1) - 1) \o <<s[n + 1]>>
      BY <3>1, SubSeqRecursiveSecond
    <3>3. SubSeq(s, 1, n + 1) = s
      BY SubSeqFull
    <3>4. Append(f, c) = f \o <<c>>
      BY <2>1, <2>2, AppendIsConcat
    <3> QED BY <3>1, <3>2, <3>3, <3>4
  <2>4. f \in S
    BY <1>2, <2>2
  <2> HIDE DEF f, c
  <2> QED BY <2>1, <2>2, <2>3, <2>4
<1> HIDE DEF N
<1>3. Nat \subseteq N
  BY <1>1, <1>2, NatIsAll
<1> QED BY <1>3, LenProperties DEF N

-------------------------------------------------------------------------------
(* The names of a body: path reach the members they are written for.         *)

EscapeOf(c) == CASE c = "~" -> <<"~", "0">> [] c = "/" -> <<"~", "1">> [] OTHER -> <<c>>

EscapeTokens == {"~", "/", "0", "1"}

LEMMA EscapedAppend ==
    ASSUME NEW V, EscapeTokens \subseteq V, NEW s \in Seq(V), NEW c \in V
    PROVE  /\ Escaped(s) \in Seq(V)
           /\ Escaped(Append(s, c)) = Escaped(s) \o EscapeOf(c)
<1> DEFINE Pieces(t) == [i \in 1..Len(t) |-> EscapeOf(t[i])]
<1>1. \A t : Escaped(t) = FlattenSeq(Pieces(t))
  BY DEF Escaped, EscapeOf
<1>2. ASSUME NEW x \in V PROVE EscapeOf(x) \in Seq(V)
  BY <1>2 DEF EscapeOf, EscapeTokens
<1>3. /\ Append(s, c) \in Seq(V) /\ Len(Append(s, c)) = Len(s) + 1 /\ Len(s) \in Nat
      /\ Append(s, c)[Len(s) + 1] = c /\ \A i \in 1..Len(s) : s[i] \in V /\ Append(s, c)[i] = s[i]
  BY AppendProperties, LenProperties, ElementOfSeq
<1>4. Pieces(s) \in Seq(Seq(V))
  <2>1. \A i \in 1..Len(s) : EscapeOf(s[i]) \in Seq(V)
    BY <1>2, <1>3
  <2> QED BY <1>3, <2>1, IsASeq
<1>5. Pieces(Append(s, c)) = Append(Pieces(s), EscapeOf(c))
  <2> DEFINE l == Pieces(Append(s, c))
             r == Append(Pieces(s), EscapeOf(c))
  <2>1. Len(Pieces(s)) = Len(s)
    BY <1>3, <1>4, LenProperties
  <2>2. EscapeOf(c) \in Seq(V)
    BY <1>2
  <2>3. r \in Seq(Seq(V)) /\ Len(r) = Len(s) + 1
    <3> HIDE DEF Pieces
    <3> QED BY <1>4, <2>1, <2>2, AppendProperties
  <2>4. l \in [1..(Len(s) + 1) -> Seq(V)]
    <3>1. ASSUME NEW i \in 1..(Len(s) + 1) PROVE EscapeOf(Append(s, c)[i]) \in Seq(V)
      <4>1. Append(s, c)[i] \in V
        BY <1>3
      <4> QED BY <1>2, <4>1
    <3> QED BY <1>3, <3>1
  <2>5. ASSUME NEW i \in 1..(Len(s) + 1) PROVE l[i] = r[i]
    <3>1. CASE i \in 1..Len(s)
      <4>1. r[i] = Pieces(s)[i]
        <5> HIDE DEF Pieces
        <5> QED BY <1>4, <2>1, <2>2, <3>1, AppendProperties
      <4> QED BY <1>3, <3>1, <4>1
    <3>2. CASE i = Len(s) + 1
      <4>1. r[i] = EscapeOf(c)
        <5> HIDE DEF Pieces
        <5> QED BY <1>4, <2>1, <2>2, <3>2, AppendProperties
      <4>2. l[i] = EscapeOf(c)
        BY <1>3, <3>2
      <4> HIDE DEF l, r
      <4> QED BY <4>1, <4>2
    <3> QED BY <1>3, <3>1, <3>2
  <2>6. r \in [1..(Len(s) + 1) -> Seq(V)]
    <3> HIDE DEF r
    <3> QED BY <2>3, LenProperties
  <2> HIDE DEF l, r
  <2> QED BY <2>4, <2>5, <2>6
<1>6. EscapeOf(c) \in Seq(V)
  BY <1>2
<1> HIDE DEF Pieces
<1> QED BY <1>1, <1>4, <1>5, <1>6, FlattenAppend

CharAt(t, i) == IF i \in 1..Len(t) THEN t[i] ELSE ""
UnescapeOf(t, i) ==
    CASE CharAt(t, i) = "~" /\ CharAt(t, i + 1) = "1" -> <<"/">>
      [] CharAt(t, i) = "1" /\ CharAt(t, i - 1) = "~" -> <<>>
      [] CharAt(t, i) = "0" /\ CharAt(t, i - 1) = "~" -> <<>>
      [] OTHER -> <<CharAt(t, i)>>
Unescapes(t) == [i \in 1..Len(t) |-> UnescapeOf(t, i)]

LEMMA UnescapedIs == \A t : Unescaped(t) = FlattenSeq(Unescapes(t))
BY DEF Unescaped, Unescapes, UnescapeOf, CharAt

LEMMA UnescapesTyped ==
    ASSUME NEW V, EscapeTokens \subseteq V, NEW t \in Seq(V)
    PROVE  /\ Unescapes(t) \in Seq(Seq(V)) /\ Len(Unescapes(t)) = Len(t)
           /\ Unescapes(t) \in [1..Len(t) -> Seq(V)]
<1>1. Len(t) \in Nat /\ \A i \in 1..Len(t) : t[i] \in V
  BY LenProperties, ElementOfSeq
<1>2. ASSUME NEW i \in 1..Len(t) PROVE UnescapeOf(t, i) \in Seq(V)
  <2>1. <<CharAt(t, i)>> \in Seq(V) /\ <<"/">> \in Seq(V) /\ <<>> \in Seq(V)
    BY <1>1 DEF CharAt, EscapeTokens
  <2> HIDE DEF CharAt
  <2> QED BY <2>1 DEF UnescapeOf
<1>3. Unescapes(t) \in Seq(Seq(V))
  BY <1>1, <1>2, IsASeq DEF Unescapes
<1>4. Unescapes(t) \in [1..Len(t) -> Seq(V)]
  BY <1>2 DEF Unescapes
<1>5. Len(Unescapes(t)) = Len(t)
  <2>1. DOMAIN Unescapes(t) = 1..Len(t)
    BY DEF Unescapes
  <2>2. DOMAIN Unescapes(t) = 1..Len(Unescapes(t)) /\ Len(Unescapes(t)) \in Nat
    BY <1>3, LenProperties
  <2> QED BY <1>1, <2>1, <2>2
<1> QED BY <1>3, <1>4, <1>5

EndsPlain(e) == e # <<>> => e[Len(e)] # "~"

\* A piece more behind a text that does not end in a tilde is read by itself.
LEMMA UnescapesPlain ==
    ASSUME NEW V, EscapeTokens \subseteq V, NEW e \in Seq(V), NEW c \in V,
           EndsPlain(e), c \notin {"~", "/"}
    PROVE  Unescapes(Append(e, c)) = Append(Unescapes(e), <<c>>)
<1> DEFINE t == Append(e, c)
           n == Len(e)
<1>1. /\ t \in Seq(V) /\ Len(t) = n + 1 /\ n \in Nat
      /\ t[n + 1] = c /\ \A i \in 1..n : t[i] = e[i]
  BY AppendProperties, LenProperties
<1>2. n # 0 => e[n] # "~"
  BY EmptySeq DEF EndsPlain
<1> HIDE DEF t, n
<1>2a. /\ \A j \in 1..n : CharAt(t, j) = e[j] /\ CharAt(e, j) = e[j]
       /\ CharAt(t, n + 1) = c
       /\ \A j \in Int : j < 1 => CharAt(t, j) = "" /\ CharAt(e, j) = ""
  <2>1. ASSUME NEW j \in 1..n PROVE CharAt(t, j) = e[j] /\ CharAt(e, j) = e[j]
    <3>1. j \in 1..Len(t) /\ j \in 1..Len(e)
      BY <1>1 DEF n
    <3> QED BY <1>1, <3>1 DEF CharAt
  <2>2. CharAt(t, n + 1) = c
    <3>1. n + 1 \in 1..Len(t)
      BY <1>1
    <3> QED BY <1>1, <3>1 DEF CharAt
  <2>3. ASSUME NEW j \in Int, j < 1 PROVE CharAt(t, j) = "" /\ CharAt(e, j) = ""
    <3>1. j \notin 1..Len(t) /\ j \notin 1..Len(e)
      BY <2>3
    <3> QED BY <3>1 DEF CharAt
  <2> QED BY <2>1, <2>2, <2>3
<1>3. ASSUME NEW i \in 1..n PROVE UnescapeOf(t, i) = UnescapeOf(e, i)
  <2>1. CharAt(t, i) = CharAt(e, i) /\ CharAt(t, i - 1) = CharAt(e, i - 1)
    <3>1. i - 1 \in 1..n \/ (i - 1 \in Int /\ i - 1 < 1)
      BY <1>1
    <3> QED BY <1>2a, <3>1
  <2>2. CASE i = n
    <3>1. CharAt(e, i) = e[i]
      BY <1>2a
    <3>2. e[i] # "~"
      BY <1>1, <1>2, <2>2
    <3> QED BY <2>1, <3>1, <3>2 DEF UnescapeOf
  <2>3. CASE i # n
    <3>1. i + 1 \in 1..n
      BY <1>1, <2>3
    <3>2. CharAt(t, i + 1) = CharAt(e, i + 1)
      BY <1>2a, <3>1
    <3> QED BY <2>1, <3>2 DEF UnescapeOf
  <2> QED BY <2>2, <2>3
<1>4. UnescapeOf(t, n + 1) = <<c>>
  <2>1. CharAt(t, n + 1) = c
    BY <1>2a
  <2>2. CharAt(t, (n + 1) - 1) # "~"
    <3>1. (n + 1) - 1 = n
      BY <1>1
    <3>2. CASE n = 0
      <4>1. CharAt(t, n) = ""
        <5>1. n \in Int /\ n < 1
          BY <3>2
        <5> QED BY <1>2a, <5>1
      <4> QED BY <3>1, <4>1
    <3>3. CASE n # 0
      <4>1. n \in 1..n
        BY <1>1, <3>3
      <4>2. CharAt(t, n) = e[n] /\ e[n] # "~"
        BY <1>2, <1>2a, <3>3, <4>1
      <4> QED BY <3>1, <4>2
    <3> QED BY <3>2, <3>3
  <2> QED BY <2>1, <2>2 DEF UnescapeOf
<1> DEFINE u == Unescapes(e)
           r == Append(u, <<c>>)
<1>5. u \in Seq(Seq(V)) /\ Len(u) = n /\ \A i \in 1..n : u[i] = UnescapeOf(e, i)
  BY UnescapesTyped DEF Unescapes, n
<1>6. /\ Unescapes(t) \in [1..(n + 1) -> Seq(V)]
      /\ \A i \in 1..(n + 1) : Unescapes(t)[i] = UnescapeOf(t, i)
  BY <1>1, UnescapesTyped DEF Unescapes
<1>7. <<c>> \in Seq(V)
  OBVIOUS
<1> HIDE DEF u
<1>8. /\ r \in Seq(Seq(V)) /\ Len(r) = n + 1 /\ r[n + 1] = <<c>>
      /\ \A i \in 1..n : r[i] = u[i]
  BY <1>5, <1>7, AppendProperties
<1> HIDE DEF r
<1>9. r \in [1..(n + 1) -> Seq(V)]
  BY <1>8, LenProperties
<1>10. ASSUME NEW i \in 1..(n + 1) PROVE Unescapes(t)[i] = r[i]
  <2>1. i \in 1..n \/ i = n + 1
    BY <1>1
  <2>2. Unescapes(t)[i] = UnescapeOf(t, i)
    BY <1>6
  <2> QED BY <1>3, <1>4, <1>5, <1>8, <2>1, <2>2
<1>11. Unescapes(t) = r
  <2> DEFINE l == Unescapes(t)
  <2>1. l \in [1..(n + 1) -> Seq(V)]
    BY <1>6
  <2>2. \A i \in 1..(n + 1) : l[i] = r[i]
    BY <1>10
  <2>3. n \in Nat
    BY <1>1
  <2> HIDE DEF l
  <2>4. l = r
    BY <1>9, <2>1, <2>2, <2>3
  <2> QED BY <2>4 DEF l
<1> QED BY <1>11 DEF t, r, u

\* An escape behind such a text is read as the one token it stands for.
LEMMA UnescapesEscape ==
    ASSUME NEW V, EscapeTokens \subseteq V, NEW e \in Seq(V), EndsPlain(e), NEW d \in {"0", "1"}
    PROVE  Unescapes(Append(Append(e, "~"), d))
              = Append(Append(Unescapes(e), IF d = "0" THEN <<"~">> ELSE <<"/">>), <<>>)
<1> DEFINE b == Append(e, "~")
           t == Append(b, d)
           n == Len(e)
           p == IF d = "0" THEN <<"~">> ELSE <<"/">>
<1>0. "~" \in V /\ d \in V /\ p \in Seq(V) /\ <<>> \in Seq(V)
  BY DEF EscapeTokens
<1>1. n \in Nat /\ b \in Seq(V) /\ Len(b) = n + 1 /\ b[n + 1] = "~" /\ \A i \in 1..n : b[i] = e[i]
  BY <1>0, AppendProperties, LenProperties
<1> HIDE DEF b
<1>2. t \in Seq(V) /\ Len(t) = Len(b) + 1 /\ t[Len(b) + 1] = d /\ \A i \in 1..Len(b) : t[i] = b[i]
  BY <1>0, <1>1, AppendProperties
<1> HIDE DEF t, n, p
<1>3. /\ t \in Seq(V) /\ Len(t) = n + 2 /\ t[n + 1] = "~" /\ t[n + 2] = d
      /\ \A i \in 1..n : t[i] = e[i]
  <2>1. n + 1 \in 1..Len(b) /\ Len(b) + 1 = n + 2 /\ \A i \in 1..n : i \in 1..Len(b)
    BY <1>1
  <2> QED BY <1>1, <1>2, <2>1
<1>4. /\ \A j \in 1..n : CharAt(t, j) = e[j] /\ CharAt(e, j) = e[j]
      /\ CharAt(t, n + 1) = "~" /\ CharAt(t, n + 2) = d
      /\ \A j \in Int : j < 1 => CharAt(t, j) = "" /\ CharAt(e, j) = ""
  <2>1. ASSUME NEW j \in 1..n PROVE CharAt(t, j) = e[j] /\ CharAt(e, j) = e[j]
    <3>1. j \in 1..Len(t) /\ j \in 1..Len(e)
      BY <1>1, <1>3 DEF n
    <3> QED BY <1>3, <3>1 DEF CharAt
  <2>2. CharAt(t, n + 1) = "~" /\ CharAt(t, n + 2) = d
    <3>1. n + 1 \in 1..Len(t) /\ n + 2 \in 1..Len(t)
      BY <1>1, <1>3
    <3> QED BY <1>3, <3>1 DEF CharAt
  <2>3. ASSUME NEW j \in Int, j < 1 PROVE CharAt(t, j) = "" /\ CharAt(e, j) = ""
    <3>1. j \notin 1..Len(t) /\ j \notin 1..Len(e)
      BY <2>3
    <3> QED BY <3>1 DEF CharAt
  <2> QED BY <2>1, <2>2, <2>3
<1>5. n # 0 => e[n] # "~"
  BY EmptySeq DEF EndsPlain, n
<1>6. ASSUME NEW i \in 1..n PROVE UnescapeOf(t, i) = UnescapeOf(e, i)
  <2>1. CharAt(t, i) = CharAt(e, i) /\ CharAt(t, i - 1) = CharAt(e, i - 1)
    <3>1. i - 1 \in 1..n \/ (i - 1 \in Int /\ i - 1 < 1)
      BY <1>1
    <3> QED BY <1>4, <3>1
  <2>2. CASE i = n
    <3>1. CharAt(e, i) = e[i]
      BY <1>4
    <3>2. e[i] # "~"
      BY <1>1, <1>5, <2>2
    <3> QED BY <2>1, <3>1, <3>2 DEF UnescapeOf
  <2>3. CASE i # n
    <3>1. i + 1 \in 1..n
      BY <1>1, <2>3
    <3>2. CharAt(t, i + 1) = CharAt(e, i + 1)
      BY <1>4, <3>1
    <3> QED BY <2>1, <3>2 DEF UnescapeOf
  <2> QED BY <2>2, <2>3
<1>7. UnescapeOf(t, n + 1) = p /\ UnescapeOf(t, n + 2) = <<>>
  <2>1. (n + 1) + 1 = n + 2 /\ (n + 2) - 1 = n + 1
    BY <1>1
  <2>2. d \in {"0", "1"}
    OBVIOUS
  <2> QED BY <1>4, <2>1, <2>2 DEF UnescapeOf, p
<1> DEFINE u == Unescapes(e)
           q == Append(u, p)
           r == Append(q, <<>>)
           l == Unescapes(t)
<1>8. u \in Seq(Seq(V)) /\ Len(u) = n /\ \A i \in 1..n : u[i] = UnescapeOf(e, i)
  BY UnescapesTyped DEF Unescapes, n
<1>9. l \in Seq(Seq(V)) /\ Len(l) = n + 2 /\ \A i \in 1..(n + 2) : l[i] = UnescapeOf(t, i)
  BY <1>3, UnescapesTyped DEF Unescapes
<1> HIDE DEF u, l
<1>10. q \in Seq(Seq(V)) /\ Len(q) = n + 1 /\ q[n + 1] = p /\ \A i \in 1..n : q[i] = u[i]
  BY <1>0, <1>8, AppendProperties
<1> HIDE DEF q
<1>11. r \in Seq(Seq(V)) /\ Len(r) = Len(q) + 1 /\ r[Len(q) + 1] = <<>> /\ \A i \in 1..Len(q) : r[i] = q[i]
  BY <1>0, <1>10, AppendProperties
<1> HIDE DEF r
<1>12. ASSUME NEW i \in 1..Len(l) PROVE l[i] = r[i]
  <2>1. i \in 1..n \/ i = n + 1 \/ i = n + 2
    BY <1>1, <1>9
  <2>2. l[i] = UnescapeOf(t, i)
    BY <1>9
  <2>3. CASE i \in 1..n
    <3>1. i \in 1..Len(q)
      BY <1>1, <1>10, <2>3
    <3> QED BY <1>6, <1>8, <1>10, <1>11, <2>2, <2>3, <3>1
  <2>4. CASE i = n + 1
    <3>1. i \in 1..Len(q)
      BY <1>1, <1>10, <2>4
    <3> QED BY <1>7, <1>10, <1>11, <2>2, <2>4, <3>1
  <2>5. CASE i = n + 2
    <3>1. Len(q) + 1 = i
      BY <1>1, <1>10, <2>5
    <3> QED BY <1>7, <1>11, <2>2, <2>5, <3>1
  <2> QED BY <2>1, <2>3, <2>4, <2>5
<1>13. l = r
  <2>1. Len(l) = Len(r)
    BY <1>1, <1>9, <1>10, <1>11
  <2> QED BY <1>9, <1>11, <1>12, <2>1, SeqEqual
<1> QED BY <1>13 DEF b, t, p, u, q, r, l

LEMMA RoundTrip ==
    ASSUME NEW V, EscapeTokens \subseteq V, NEW s \in Seq(V)
    PROVE  Unescaped(Escaped(s)) = s
<1> DEFINE S == {w \in Seq(V) : EndsPlain(Escaped(w)) /\ Unescaped(Escaped(w)) = w}
<1>1. <<>> \in S
  <2>1. Escaped(<<>>) = <<>> /\ Unescaped(<<>>) = <<>>
    BY DEF Escaped, Unescaped, FlattenSeq
  <2> QED BY <2>1 DEF EndsPlain
<1>2. ASSUME NEW w \in Seq(V), NEW c \in V, w \in S PROVE Append(w, c) \in S
  <2> DEFINE e == Escaped(w)
             g == Escaped(Append(w, c))
  <2>1. e \in Seq(V) /\ EndsPlain(e) /\ Unescaped(e) = w /\ g = e \o EscapeOf(c)
    BY <1>2, EscapedAppend
  <2>2. Append(w, c) \in Seq(V) /\ Append(w, c) = w \o <<c>>
    BY AppendProperties, AppendIsConcat
  <2> HIDE DEF e, g
  <2>3. Unescapes(e) \in Seq(Seq(V)) /\ Unescaped(e) = FlattenSeq(Unescapes(e))
    BY <2>1, UnescapesTyped, UnescapedIs
  <2>4. CASE c \notin {"~", "/"}
    <3>1. g = Append(e, c)
      BY <2>1, <2>4, AppendIsConcat DEF EscapeOf
    <3>2. Unescapes(g) = Append(Unescapes(e), <<c>>)
      BY <2>1, <2>4, <3>1, UnescapesPlain
    <3>3. <<c>> \in Seq(V)
      OBVIOUS
    <3>4. Unescaped(g) = w \o <<c>>
      BY <2>1, <2>3, <3>2, <3>3, FlattenAppend, UnescapedIs
    <3>5. EndsPlain(g)
      <4>1. Len(g) = Len(e) + 1 /\ g[Len(e) + 1] = c
        BY <2>1, <3>1, AppendProperties
      <4> QED BY <2>4, <4>1 DEF EndsPlain
    <3> QED BY <2>2, <3>4, <3>5 DEF g
  <2>5. CASE c \in {"~", "/"}
    <3> DEFINE d == IF c = "~" THEN "0" ELSE "1"
               b == Append(e, "~")
    <3>0. d \in {"0", "1"} /\ d \in V /\ "~" \in V /\ <<c>> \in Seq(V) /\ <<>> \in Seq(V)
      BY DEF EscapeTokens
    <3>1. b \in Seq(V) /\ b = e \o <<"~">> /\ Len(b) = Len(e) + 1
      BY <2>1, <3>0, AppendProperties, AppendIsConcat
    <3>2. g = Append(b, d)
      <4>1. EscapeOf(c) = <<"~">> \o <<d>>
        BY <2>5 DEF EscapeOf
      <4>2. <<"~">> \in Seq(V) /\ <<d>> \in Seq(V)
        BY <3>0
      <4>3. e \o (<<"~">> \o <<d>>) = (e \o <<"~">>) \o <<d>>
        BY <2>1, <4>2, TextsRegroup DEF Regroups
      <4> HIDE DEF b, d
      <4>4. Append(b, d) = b \o <<d>>
        BY <3>0, <3>1, AppendIsConcat
      <4> QED BY <2>1, <3>1, <4>1, <4>3, <4>4
    <3>3. Unescapes(g) = Append(Append(Unescapes(e), IF d = "0" THEN <<"~">> ELSE <<"/">>), <<>>)
      <4> HIDE DEF d
      <4> QED BY <2>1, <3>0, <3>2, UnescapesEscape
    <3>4. (IF d = "0" THEN <<"~">> ELSE <<"/">>) = <<c>>
      BY <2>5
    <3>5. EndsPlain(g)
      <4>1. g[Len(b) + 1] = d /\ Len(g) = Len(b) + 1
        <5> HIDE DEF b, d
        <5> QED BY <3>0, <3>1, <3>2, AppendProperties
      <4> HIDE DEF b
      <4> QED BY <4>1 DEF EndsPlain
    <3> HIDE DEF d, b
    <3> DEFINE q == Append(Unescapes(e), <<c>>)
    <3>6. Unescapes(g) = Append(q, <<>>)
      BY <3>3, <3>4
    <3>7. q \in Seq(Seq(V)) /\ FlattenSeq(q) = w \o <<c>> /\ FlattenSeq(q) \in Seq(V)
      BY <2>1, <2>3, <3>0, FlattenAppend, AppendProperties
    <3> HIDE DEF q
    <3>8. FlattenSeq(Append(q, <<>>)) = FlattenSeq(q) \o <<>>
      BY <3>0, <3>7, FlattenAppend
    <3>9. Unescaped(g) = w \o <<c>>
      BY <3>6, <3>7, <3>8, UnescapedIs, ConcatEmptySeq
    <3> QED BY <2>2, <3>5, <3>9 DEF g
  <2> QED BY <2>4, <2>5
<1> HIDE DEF S
<1>3. Seq(V) \subseteq S
  BY <1>1, <1>2, SeqIsAll
<1> QED BY <1>3 DEF S

-------------------------------------------------------------------------------
(* The verdict.                                                              *)

\* Two numbers the code takes for equal are alike, and it takes equal ones for equal.
LEMMA MatchIsAlike ==
    ASSUME NEW a, NEW b, IsValue(a), IsValue(b)
    PROVE  (Equal(a, b) => ValuesMatch(a, b)) /\ (ValuesMatch(a, b) => Alike(a, b))
<1>0. IntMax \in Nat /\ FloatMax \in Nat
  BY FileAssumption
<1> DEFINE numbers == "n" \in DOMAIN a /\ "n" \in DOMAIN b
<1>1. CASE ~numbers
  BY <1>1 DEF Equal, ValuesMatch, Alike
<1>2. CASE numbers
  <2>1. a.n \in Int /\ b.n \in Int /\ a.is \in {"int", "float"} /\ b.is \in {"int", "float"}
    BY <1>2 DEF IsValue
  <2>2. Equal(a, b) => ValuesMatch(a, b)
    BY <1>2 DEF Equal, ValuesMatch
  <2>3. ASSUME ValuesMatch(a, b), ~Equal(a, b) PROVE Alike(a, b)
    <3> DEFINE exact == /\ a.is = "int" /\ b.is = "int"
                        /\ (a.n <= IntMax /\ b.n <= IntMax) \/ (a.n >= 0 /\ b.n >= 0)
    <3>1. a.n # b.n
      BY <1>2, <2>3 DEF Equal
    <3>2. ~exact /\ AsFloat(a.n) = AsFloat(b.n)
      BY <1>2, <2>3, <3>1 DEF ValuesMatch
    <3>3. "float" \in {a.is, b.is}
      <4> SUFFICES ASSUME a.is = "int", b.is = "int" PROVE FALSE
        BY <2>1
      <4> DEFINE x == a.n
                 y == b.n
      <4>1. x \in Int /\ y \in Int /\ ~((x <= IntMax /\ y <= IntMax) \/ (x >= 0 /\ y >= 0))
        BY <2>1, <3>2
      <4>2. AsFloat(x) = AsFloat(y)
        BY <3>2
      <4> HIDE DEF x, y
      <4> QED BY <1>0, <4>1, <4>2 DEF AsFloat
    <3> QED BY <1>2, <3>2, <3>3 DEF Alike
  <2> QED BY <2>2, <2>3 DEF Alike
<1> QED BY <1>1, <1>2

\* The code looks a body: path up by a pointer and finds what the path was written for.
LEMMA SelectsWhatIsMeant ==
    ASSUME NEW path, IsPath(path)
    PROVE  Selected(path) = Meant(path)
<1>1. CASE path.from = "body" /\ ~path.isPointer
  <2> DEFINE segments == path.segments
             found == [i \in 1..Len(segments) |-> Unescaped(Pointer(path)[i])]
             V == STRING \cup EscapeTokens
  <2>1. segments \in Seq(Seq(V))
    <3>1. segments \in Seq(Seq(STRING))
      BY <1>1 DEF IsPath
    <3>2. Seq(STRING) \subseteq Seq(V)
      BY SeqMonotonic
    <3> HIDE DEF segments, V
    <3> QED BY <3>1, <3>2, SeqMonotonic
  <2>2. Pointer(path) = [i \in 1..Len(segments) |-> Escaped(segments[i])]
    BY <1>1 DEF Pointer
  <2>3. EscapeTokens \subseteq V
    OBVIOUS
  <2>4. ASSUME NEW i \in 1..Len(segments) PROVE Unescaped(Pointer(path)[i]) = segments[i]
    <3>1. segments[i] \in Seq(V)
      <4> HIDE DEF segments, V
      <4> QED BY <2>1, ElementOfSeq
    <3>2. Unescaped(Escaped(segments[i])) = segments[i]
      <4> HIDE DEF segments, V
      <4> QED BY <2>3, <3>1, RoundTrip
    <3>3. Pointer(path)[i] = Escaped(segments[i])
      <4> HIDE DEF segments
      <4> QED BY <2>2
    <3> QED BY <3>2, <3>3
  <2>5. found = segments
    <3>1. found = [i \in 1..Len(segments) |-> segments[i]]
      <4> HIDE DEF segments
      <4> QED BY <2>4
    <3>2. segments = [i \in 1..Len(segments) |-> segments[i]]
      <4> HIDE DEF segments, V
      <4>1. DOMAIN segments = 1..Len(segments) /\ segments \in [1..Len(segments) -> Seq(V)]
        BY <2>1, LenProperties
      <4> QED BY <4>1
    <3> QED BY <3>1, <3>2
  <2>6. Selected(path) = IF reply.body = NotJson THEN {}
                         ELSE {reply.body[p] : p \in DOMAIN reply.body \cap {found}}
    BY <1>1 DEF Selected
  <2>7. Meant(path) = {reply.body[p] : p \in {q \in {segments} : reply.body # NotJson /\ q \in DOMAIN reply.body}}
    BY <1>1 DEF Meant
  <2> HIDE DEF segments, found
  <2>8. CASE reply.body = NotJson
    BY <2>6, <2>7, <2>8
  <2>9. CASE reply.body # NotJson
    <3>1. DOMAIN reply.body \cap {found} = {q \in {segments} : reply.body # NotJson /\ q \in DOMAIN reply.body}
      BY <2>5, <2>9
    <3> QED BY <2>6, <2>7, <2>9, <3>1
  <2> QED BY <2>8, <2>9
<1>2. CASE ~(path.from = "body" /\ ~path.isPointer)
  BY <1>2 DEF Meant
<1> QED BY <1>1, <1>2

\* What is found in a reply are values of JSON.
LEMMA SelectedValues ==
    ASSUME NEW path, IsPath(path), IsReply(reply), NEW v \in Selected(path)
    PROVE  IsValue(v)
<1>1. path.from \in {"status", "header", "body"}
  BY DEF IsPath
<1>2. CASE path.from = "status"
  <2>1. v = [is |-> "int", n |-> reply.status]
    BY <1>2 DEF Selected
  <2> QED BY <2>1 DEF IsReply
<1>3. CASE path.from = "header"
  <2>1. PICK h \in DOMAIN reply.headers : v = [is |-> "text", text |-> reply.headers[h]]
    BY <1>3 DEF Selected
  <2>2. DOMAIN v = {"is", "text"} /\ v.is = "text" /\ v.text = reply.headers[h]
    BY <2>1
  <2>3. "n" \notin {"is", "text"}
    OBVIOUS
  <2>4. v.text \in Seq(STRING)
    BY <2>2 DEF IsReply
  <2> QED BY <2>2, <2>3, <2>4 DEF IsValue
<1>4. CASE path.from = "body"
  <2>1. Selected(path) =
            IF reply.body = NotJson THEN {}
            ELSE {reply.body[p] : p \in DOMAIN reply.body \cap
                     {[i \in 1..Len(path.segments) |-> Unescaped(Pointer(path)[i])]}}
    BY <1>4 DEF Selected
  <2>2. reply.body # NotJson /\ \E p \in DOMAIN reply.body : v = reply.body[p]
    BY <2>1
  <2> QED BY <2>2 DEF IsReply
<1> QED BY <1>1, <1>2, <1>3, <1>4

\* An error ends the run, whatever its message; a step that has none goes on.
Ends ==
    /\ phase' = "done" /\ verdict' = "error"
    /\ UNCHANGED <<input, todo, at, out, uuids, request, reply>>

LEMMA ErrorsEnd ==
    /\ RefuseArgument => Ends
    /\ \A path, quoted : Fail(path, quoted) => Ends
BY DEF RefuseArgument, Fail, End, Ends

LEMMA PrepareGoesOn ==
    ASSUME Prepare
    PROVE  /\ phase = "prepare"
           /\ \/ Ends
              \/ /\ phase' = "expand" /\ ~PairsRefused(input.secrets, "secret") /\ ~FileRefused
                 /\ UNCHANGED <<input, todo, at, out, uuids, request, reply, verdict, shown>>
BY ErrorsEnd DEF Prepare

LEMMA ValidateGoesOn ==
    ASSUME Validate
    PROVE  /\ phase = "expand" /\ todo = <<>>
           /\ \/ Ends
              \/ /\ phase' = "send"
                 /\ UNCHANGED <<input, todo, at, out, uuids, request, reply, verdict, shown>>
BY ErrorsEnd DEF Validate

LEMMA SendFailsEnds == SendFails => phase = "send" /\ Ends
BY ErrorsEnd DEF SendFails

LEMMA ReferenceGoesOn ==
    ASSUME Reference
    PROVE  LET closers == {i \in (at + 1)..Len(Text) : Text[i] = Closer}
               end     == CHOOSE i \in closers : \A j \in closers : i <= j
               key     == SubSeq(Text, at + 1, end - 1)
           IN  /\ Starts(<<Opener>>)
               /\ IF closers = {} \/ Len(key) # 1 THEN Ends
                  ELSE IF key[1] = "uuid"
                  THEN Emit(<<Uuids[uuids + 1]>>, end + 1) /\ uuids' = uuids + 1
                  ELSE IF key[1] \in DOMAIN Scope
                  THEN Emit(Scope[key[1]], end + 1) /\ UNCHANGED uuids
                  ELSE Ends
BY ErrorsEnd DEF Reference

\* The file and the reply a verdict is about have passed their checks, and it is the
\* one that `expect` has for them.
VerdictInv ==
    /\ phase \in {"idle", "prepare", "expand", "send", "evaluate", "done"}
    /\ verdict \in {"none", "error", "passed", "failed", "not_evaluated"}
    /\ phase # "done" => verdict = "none"
    /\ phase \in {"prepare", "expand", "send", "evaluate"} => input \in Inputs
    /\ phase \in {"expand", "send", "evaluate"} => ~FileRefused
    /\ phase = "evaluate" => reply \in Replies(input)
    /\ verdict \in {"passed", "failed", "not_evaluated"} =>
         /\ input \in Inputs /\ reply \in Replies(input) /\ ~FileRefused
         /\ (verdict = "not_evaluated" <=> file.expect = NotGiven)
         /\ verdict # "not_evaluated" => (verdict = "passed" <=> Holds(file.expect))

\* The pipeline of a file, with one to run or, under `load`, with none.
FileStart == FileInit \/ FileOf(NotGiven, "idle")

LEMMA VerdictInit == FileStart => VerdictInv
BY DEF FileStart, FileInit, FileOf, VerdictInv

LEMMA VerdictStep == VerdictInv /\ [FileNext]_fileVars => VerdictInv'
<1> SUFFICES ASSUME VerdictInv, [FileNext]_fileVars PROVE VerdictInv'
  OBVIOUS
<1>1. ASSUME Ends, phase # "done" PROVE VerdictInv'
  BY <1>1 DEF Ends, VerdictInv
<1>2. ASSUME phase' = phase, phase = "expand", UNCHANGED <<input, reply, verdict>> PROVE VerdictInv'
  BY <1>2 DEF VerdictInv, FileRefused, file
<1>3. CASE Prepare
  <2>1. CASE Ends
    BY <1>1, <1>3, <2>1, PrepareGoesOn
  <2>2. CASE ~Ends
    <3>1. phase' = "expand" /\ UNCHANGED <<input, reply, verdict>> /\ ~FileRefused /\ phase = "prepare"
      BY <1>3, <2>2, PrepareGoesOn
    <3> QED BY <3>1 DEF VerdictInv, FileRefused, file
  <2> QED BY <2>1, <2>2
<1>4. CASE EscapedOpener \/ EscapedBackslash \/ Literal
  BY <1>2, <1>4 DEF EscapedOpener, EscapedBackslash, Literal, Starts, Emit
<1>5. CASE Reference
  <2>1. phase = "expand" /\ (Ends \/ (phase' = phase /\ UNCHANGED <<input, reply, verdict>>))
    BY <1>5, ReferenceGoesOn DEF Starts, Emit
  <2> QED BY <1>1, <1>2, <2>1
<1>6. CASE FieldDone
  BY <1>2, <1>6 DEF FieldDone, Starts
<1>7. CASE Validate
  <2>1. phase = "expand" /\ (Ends \/ (phase' = "send" /\ UNCHANGED <<input, reply, verdict>>))
    BY <1>7, ValidateGoesOn
  <2>2. CASE Ends
    BY <1>1, <2>1, <2>2
  <2>3. CASE ~Ends
    BY <2>1, <2>3 DEF VerdictInv, FileRefused, file
  <2> QED BY <2>2, <2>3
<1>8. CASE Respond
  BY <1>8 DEF Respond, VerdictInv, FileRefused, file
<1>9. CASE SendFails
  BY <1>1, <1>9, SendFailsEnds
<1>10. CASE Evaluate
  <2>1. /\ phase = "evaluate" /\ phase' = "done" /\ UNCHANGED <<input, reply>>
        /\ verdict' = IF file.expect = NotGiven THEN "not_evaluated"
                      ELSE IF Holds(file.expect) THEN "passed" ELSE "failed"
    BY <1>10 DEF Evaluate
  <2>2. input \in Inputs /\ reply \in Replies(input) /\ ~FileRefused
    BY <2>1 DEF VerdictInv
  <2>3. UNCHANGED <<file, FileRefused>> /\ Holds(file.expect)' = Holds(file.expect)
    BY <2>1 DEF file, FileRefused, Holds, Selected
  <2>4. verdict' = "not_evaluated" <=> file.expect = NotGiven
    BY <2>1
  <2>5. verdict' # "not_evaluated" => (verdict' = "passed" <=> Holds(file.expect))
    BY <2>1
  <2>6. verdict' \in {"passed", "failed", "not_evaluated"}
    BY <2>1
  <2> HIDE DEF file
  <2> QED BY <2>1, <2>2, <2>3, <2>4, <2>5, <2>6 DEF VerdictInv
<1>11. CASE UNCHANGED fileVars
  <2>1. UNCHANGED <<input, phase, reply, verdict>>
    BY <1>11 DEF fileVars
  <2>2. UNCHANGED <<file, FileRefused>> /\ Holds(file.expect)' = Holds(file.expect)
    BY <2>1 DEF file, FileRefused, Holds, Selected
  <2> HIDE DEF file
  <2> QED BY <2>1, <2>2 DEF VerdictInv
<1> QED BY <1>3, <1>4, <1>5, <1>6, <1>7, <1>8, <1>9, <1>10, <1>11 DEF FileNext

LEMMA VerdictInvImplies == VerdictInv => VerdictTruthful
<1> SUFFICES ASSUME VerdictInv, verdict \in {"passed", "failed", "not_evaluated"} PROVE VerdictTruthful
  BY DEF VerdictInv, VerdictTruthful
<1> DEFINE expect == file.expect
           eq == expect.bodyEq
           Found == \E v \in Selected(eq.path) : ValuesMatch(v, eq.value)
<1>1. /\ IsReply(reply) /\ input \in Inputs /\ ~FileRefused
      /\ expect # NotGiven /\ eq # NotGiven => IsPath(eq.path) /\ IsValue(eq.value)
  BY FileAssumption DEF VerdictInv, IsInput, file
<1>2. /\ verdict = "not_evaluated" <=> expect = NotGiven
      /\ verdict # "not_evaluated" => (verdict = "passed" <=> Holds(expect))
  BY DEF VerdictInv
<1>3. file.unknown = <<>> /\ (expect # NotGiven => expect.unknown = <<>>)
  BY <1>1 DEF FileRefused, ExpectRefused
<1> HIDE DEF expect, eq
<1>4. CASE verdict = "not_evaluated"
  BY <1>2, <1>4 DEF VerdictTruthful, expect
<1>5. CASE verdict # "not_evaluated"
  <2>1. expect # NotGiven
    BY <1>2, <1>5
  <2>2. Holds(expect) <=> /\ expect.status # NotGiven => reply.status \in expect.status
                          /\ eq # NotGiven => Found
    BY DEF Holds, eq
  <2>3. ASSUME eq # NotGiven
        PROVE  /\ Found => \E v \in Meant(eq.path) : Alike(v, eq.value)
               /\ (\E v \in Meant(eq.path) : Equal(v, eq.value)) => Found
    <3>1. IsPath(eq.path) /\ IsValue(eq.value)
      BY <1>1, <2>1, <2>3
    <3>2. Selected(eq.path) = Meant(eq.path)
      BY <3>1, SelectsWhatIsMeant
    <3>3. \A v \in Selected(eq.path) : IsValue(v)
      BY <1>1, <3>1, SelectedValues
    <3> QED BY <3>1, <3>2, <3>3, MatchIsAlike
  <2> HIDE DEF Found
  <2>4. verdict = "passed" => /\ file.unknown = <<>> /\ expect.unknown = <<>>
                              /\ expect.status = NotGiven \/ reply.status \in expect.status
                              /\ eq = NotGiven \/ \E v \in Meant(eq.path) : Alike(v, eq.value)
    BY <1>2, <1>3, <2>1, <2>2, <2>3
  <2>5. verdict = "failed" => ~ /\ expect.status = NotGiven \/ reply.status \in expect.status
                                /\ eq = NotGiven \/ \E v \in Meant(eq.path) : Equal(v, eq.value)
    BY <1>2, <2>2, <2>3
  <2> QED BY <1>5, <2>4, <2>5 DEF VerdictTruthful, expect, eq
<1> QED BY <1>4, <1>5

\* A verdict is true of the response: crates/core/src/scenario.rs evaluates an
\* assertion of the file, whole, and by its meaning, whatever paths and values it has.
THEOREM VerdictIsTruthful == FileStart /\ [][FileNext]_fileVars => []VerdictTruthful
BY VerdictInit, VerdictStep, VerdictInvImplies, PTL

-------------------------------------------------------------------------------
(* What a template means, from each of its positions on.                     *)

LEMMA MinIsLeast ==
    ASSUME NEW S, S \subseteq Nat, S # {}
    PROVE  Min(S) \in S /\ \A k \in S : Min(S) <= k
<1>1. \E n \in S : \A k \in S : n <= k
  BY SmallestNat
<1> QED BY <1>1 DEF Min

LEMMA MaxIsGreatest ==
    ASSUME NEW n \in Nat, NEW S, S \subseteq 0..n, S # {}
    PROVE  Max(S) \in S /\ \A k \in S : k <= Max(S)
<1> DEFINE T == {n - k : k \in S}
<1>0. \A k \in S : k \in Int /\ n - k \in Nat
  OBVIOUS
<1>1. T \subseteq Nat /\ T # {}
  BY <1>0
<1>2. PICK t \in T : \A k \in T : t <= k
  <2> HIDE DEF T
  <2> QED BY <1>1, SmallestNat
<1>3. PICK s \in S : t = n - s
  BY <1>2
<1>4. ASSUME NEW k \in S PROVE k <= s
  <2>1. n - k \in T
    OBVIOUS
  <2>2. n - s <= n - k
    <3> HIDE DEF T
    <3> QED BY <1>2, <1>3, <2>1
  <2>3. k \in Int /\ s \in Int
    OBVIOUS
  <2> QED BY <2>2, <2>3
<1> QED BY <1>4 DEF Max

OpenersFrom(text, s) == {i \in s..Len(text) : text[i] = Opener}
NextOpener(text, s) == Min(OpenersFrom(text, s))
\* How many backslashes, from s on, are right before that opener.
Backslashes(text, s) ==
    Max({k \in 0..(NextOpener(text, s) - s) :
            \A j \in (NextOpener(text, s) - k)..(NextOpener(text, s) - 1) : text[j] = Backslash})
ClosersFrom(text, p) == {i \in p..Len(text) : text[i] = Closer}
ReferenceEnd(text, p) == Min(ClosersFrom(text, p))
KeyAt(text, p) == SubSeq(text, p + 1, ReferenceEnd(text, p) - 1)
ValueAt(scope, text, p) ==
    IF KeyAt(text, p) \in {<<k>> : k \in DOMAIN scope} THEN scope[KeyAt(text, p)[1]]
    ELSE IF KeyAt(text, p) = <<"uuid">> THEN KeyAt(text, p) ELSE <<NotGiven>>

\* From the opener at p on.
ReferenceFrom(scope, text, m, p) ==
    IF ClosersFrom(text, p) = {} THEN <<NotGiven>>
    ELSE ValueAt(scope, text, p) \o m[ReferenceEnd(text, p) + 1]

\* The meaning from s on, where m has that of later positions.
MeansFrom(scope, text, m, s) ==
    IF OpenersFrom(text, s) = {} THEN SubSeq(text, s, Len(text))
    ELSE IF Backslashes(text, s) = 1
    THEN SubSeq(text, s, NextOpener(text, s) - 1 - Backslashes(text, s)) \o <<Opener>>
            \o m[NextOpener(text, s) + 1]
    ELSE SubSeq(text, s, NextOpener(text, s) - 1 - Backslashes(text, s))
            \o SubSeq(text, NextOpener(text, s) - Backslashes(text, s) + 1, NextOpener(text, s) - 1)
            \o ReferenceFrom(scope, text, m, NextOpener(text, s))

MeaningIn(scope, text) ==
    LET m[s \in 1..(Len(text) + 1)] == MeansFrom(scope, text, m, s) IN m

LEMMA MeaningIs == ASSUME NEW text PROVE Meaning(text) = MeaningIn(Scope, text)[1]
BY DEF Meaning, MeaningIn, MeansFrom, ReferenceFrom, OpenersFrom, NextOpener, Backslashes, ClosersFrom,
       ReferenceEnd, KeyAt, ValueAt

LEMMA NextOpenerIs ==
    ASSUME NEW text, Len(text) \in Nat, NEW s \in 1..(Len(text) + 1), NEW p \in s..Len(text),
           text[p] = Opener, \A j \in s..(p - 1) : text[j] # Opener
    PROVE  OpenersFrom(text, s) # {} /\ NextOpener(text, s) = p
<1> DEFINE S == OpenersFrom(text, s)
<1>1. p \in S /\ \A k \in S : p <= k
  BY DEF OpenersFrom
<1>2. S \subseteq Nat
  BY DEF OpenersFrom
<1>3. Min(S) \in S /\ Min(S) <= p
  <2> HIDE DEF S
  <2> QED BY <1>1, <1>2, MinIsLeast
<1>4. Min(S) = p
  <2>1. Min(S) \in Nat /\ p \in Nat /\ p <= Min(S)
    <3> HIDE DEF S
    <3> QED BY <1>1, <1>2, <1>3
  <2> QED BY <1>3, <2>1
<1> QED BY <1>1, <1>4 DEF NextOpener

LEMMA NextOpenerFound ==
    ASSUME NEW text, Len(text) \in Nat, NEW s \in 1..(Len(text) + 1), OpenersFrom(text, s) # {}
    PROVE  /\ NextOpener(text, s) \in s..Len(text) /\ text[NextOpener(text, s)] = Opener
           /\ \A j \in s..(NextOpener(text, s) - 1) : text[j] # Opener
<1> DEFINE S == OpenersFrom(text, s)
           p == NextOpener(text, s)
<1>1. S \subseteq Nat
  BY DEF OpenersFrom
<1>2. p \in S /\ \A k \in S : p <= k
  <2> HIDE DEF S
  <2> QED BY <1>1, MinIsLeast DEF NextOpener, S
<1>3. p \in s..Len(text) /\ text[p] = Opener
  BY <1>2 DEF OpenersFrom
<1>4. ASSUME NEW j \in s..(p - 1), text[j] = Opener PROVE FALSE
  <2>1. j \in s..Len(text) /\ j < p
    BY <1>3
  <2>2. j \in S
    BY <1>4, <2>1 DEF OpenersFrom
  <2>3. p <= j
    BY <1>2, <2>2
  <2> QED BY <1>3, <2>1, <2>3
<1> QED BY <1>3, <1>4

LEMMA BackslashesFound ==
    ASSUME NEW text, Len(text) \in Nat, NEW s \in 1..(Len(text) + 1), OpenersFrom(text, s) # {},
           NEW p, p = NextOpener(text, s), NEW b, b = Backslashes(text, s)
    PROVE  /\ b \in 0..(p - s) /\ \A j \in (p - b)..(p - 1) : text[j] = Backslash
           /\ b < p - s => text[p - b - 1] # Backslash
<1> DEFINE S == {k \in 0..(p - s) : \A j \in (p - k)..(p - 1) : text[j] = Backslash}
           n == p - s
<1>1. p \in s..Len(text) /\ n \in Nat /\ p \in Int /\ s \in Int
  BY NextOpenerFound
<1>2. 0 \in S
  BY <1>1
<1>3. b \in S /\ \A k \in S : k <= b
  <2>1. S \subseteq 0..n /\ S # {}
    BY <1>2
  <2>2. b = Max(S)
    BY DEF Backslashes
  <2> HIDE DEF S, n
  <2> QED BY <1>1, <2>1, <2>2, MaxIsGreatest
<1>4. ASSUME b < p - s, text[p - b - 1] = Backslash PROVE FALSE
  <2>1. b \in Int /\ b >= 0
    BY <1>3
  <2>2. b + 1 \in 0..(p - s)
    BY <1>1, <1>4, <2>1
  <2>3. ASSUME NEW j \in (p - (b + 1))..(p - 1) PROVE text[j] = Backslash
    <3>0. p \in Int /\ b \in Int /\ j \in (p - (b + 1))..(p - 1)
      BY <1>1, <2>1, <2>3
    <3>1. CASE j < p - b
      <4>1. j = p - b - 1
        <5>1. p - (b + 1) <= j /\ j \in Int
          BY <3>0
        <5> QED BY <3>0, <3>1, <5>1
      <4> QED BY <1>4, <4>1
    <3>2. CASE ~(j < p - b)
      <4>1. j \in (p - b)..(p - 1)
        <5>1. j <= p - 1 /\ j \in Int
          BY <3>0
        <5> QED BY <3>0, <3>2, <5>1
      <4> QED BY <1>3, <4>1
    <3> QED BY <3>1, <3>2
  <2>4. b + 1 \in S
    BY <2>2, <2>3
  <2>5. b + 1 <= b
    BY <1>3, <2>4
  <2> QED BY <2>1, <2>5
<1> QED BY <1>3, <1>4

LEMMA BackslashesIs ==
    ASSUME NEW text, Len(text) \in Nat, NEW s \in 1..(Len(text) + 1), OpenersFrom(text, s) # {},
           NEW p, p = NextOpener(text, s), NEW b \in 0..(p - s),
           \A j \in (p - b)..(p - 1) : text[j] = Backslash,
           b < p - s => text[p - b - 1] # Backslash
    PROVE  Backslashes(text, s) = b
<1> DEFINE c == Backslashes(text, s)
<1>1. /\ c \in 0..(p - s) /\ \A j \in (p - c)..(p - 1) : text[j] = Backslash
      /\ c < p - s => text[p - c - 1] # Backslash
  BY BackslashesFound
<1>2. p \in Int /\ s \in Int
  BY NextOpenerFound
<1> HIDE DEF c
<1>3. ASSUME c < b PROVE FALSE
  <2>1. c < p - s /\ p - c - 1 \in (p - b)..(p - 1)
    BY <1>1, <1>2, <1>3
  <2> QED BY <1>1, <2>1
<1>4. ASSUME b < c PROVE FALSE
  <2>1. b < p - s /\ p - b - 1 \in (p - c)..(p - 1)
    BY <1>1, <1>2, <1>4
  <2> QED BY <1>1, <2>1
<1>5. b = c
  BY <1>1, <1>2, <1>3, <1>4
<1> QED BY <1>5 DEF c

LEMMA ReferenceEndFound ==
    ASSUME NEW text, Len(text) \in Nat, NEW p \in 1..Len(text), ClosersFrom(text, p) # {}
    PROVE  /\ ReferenceEnd(text, p) \in p..Len(text) /\ text[ReferenceEnd(text, p)] = Closer
           /\ \A j \in p..(ReferenceEnd(text, p) - 1) : text[j] # Closer
<1> DEFINE S == ClosersFrom(text, p)
           e == ReferenceEnd(text, p)
<1>1. S \subseteq Nat
  BY DEF ClosersFrom
<1>2. e \in S /\ \A k \in S : e <= k
  <2> HIDE DEF S
  <2> QED BY <1>1, MinIsLeast DEF ReferenceEnd, S
<1>3. e \in p..Len(text) /\ text[e] = Closer
  BY <1>2 DEF ClosersFrom
<1>4. ASSUME NEW j \in p..(e - 1), text[j] = Closer PROVE FALSE
  <2>1. j \in p..Len(text) /\ j < e
    BY <1>3
  <2>2. j \in S
    BY <1>4, <2>1 DEF ClosersFrom
  <2>3. e <= j
    BY <1>2, <2>2
  <2> QED BY <1>3, <2>1, <2>3
<1> QED BY <1>3, <1>4

\* W is a set of words for a text and the values of its names.
Fits(scope, text, W) ==
    /\ text \in Seq(W) /\ {NotGiven, "uuid", Opener, Backslash} \subseteq W
    /\ \A k \in DOMAIN scope : scope[k] \in Seq(W)

LEMMA ValueTyped ==
    ASSUME NEW W, NEW scope, NEW text, Fits(scope, text, W), NEW p
    PROVE  ValueAt(scope, text, p) \in Seq(W)
<1> DEFINE key == KeyAt(text, p)
<1>0. NotGiven \in W /\ "uuid" \in W
  BY DEF Fits
<1>1. CASE key \in {<<k>> : k \in DOMAIN scope}
  <2>1. PICK k \in DOMAIN scope : key = <<k>>
    BY <1>1
  <2>2. key[1] = k /\ scope[k] \in Seq(W)
    BY <2>1 DEF Fits
  <2> QED BY <1>1, <2>2 DEF ValueAt
<1>2. CASE key \notin {<<k>> : k \in DOMAIN scope} /\ key = <<"uuid">>
  <2>1. ValueAt(scope, text, p) = <<"uuid">>
    BY <1>2 DEF ValueAt
  <2> QED BY <1>0, <2>1
<1>3. CASE key \notin {<<k>> : k \in DOMAIN scope} /\ key # <<"uuid">>
  <2>1. ValueAt(scope, text, p) = <<NotGiven>>
    BY <1>3 DEF ValueAt
  <2> QED BY <1>0, <2>1
<1> QED BY <1>1, <1>2, <1>3

LEMMA PartTyped ==
    ASSUME NEW W, NEW text \in Seq(W), NEW i \in 1..(Len(text) + 1), NEW j \in 0..Len(text)
    PROVE  /\ SubSeq(text, i, j) \in Seq(W)
           /\ Len(SubSeq(text, i, j)) = IF i <= j THEN j - i + 1 ELSE 0
           /\ \A k \in 1..(j - i + 1) : SubSeq(text, i, j)[k] = text[i + k - 1]
<1>1. i \in Int /\ j \in Int /\ \A k \in i..j : text[k] \in W
  BY ElementOfSeq, LenProperties
<1> QED BY <1>1, SubSeqProperties

LEMMA ReferenceTyped ==
    ASSUME NEW W, NEW scope, NEW text, Fits(scope, text, W), NEW p \in 1..Len(text),
           NEW s \in 1..p, NEW m
    PROVE  /\ m \in [1..(Len(text) + 1) -> Seq(W)] => ReferenceFrom(scope, text, m, p) \in Seq(W)
           /\ \A n : (\A t \in 1..(Len(text) + 1) : s < t => m[t] = n[t])
                   => ReferenceFrom(scope, text, m, p) = ReferenceFrom(scope, text, n, p)
<1> DEFINE D == 1..(Len(text) + 1)
           R(n) == ReferenceFrom(scope, text, n, p)
           e == ReferenceEnd(text, p)
           v == ValueAt(scope, text, p)
<1>0. Len(text) \in Nat /\ NotGiven \in W
  BY LenProperties DEF Fits
<1>1. CASE ClosersFrom(text, p) = {}
  <2>1. \A n : R(n) = <<NotGiven>>
    BY <1>1 DEF ReferenceFrom
  <2>2. <<NotGiven>> \in Seq(W)
    BY <1>0
  <2> HIDE DEF R
  <2>3. (m \in [D -> Seq(W)] => R(m) \in Seq(W)) /\ \A n : R(m) = R(n)
    BY <2>1, <2>2
  <2> QED BY <2>3 DEF R
<1>2. CASE ClosersFrom(text, p) # {}
  <2>1. e \in p..Len(text)
    BY <1>0, <1>2, ReferenceEndFound
  <2>2. v \in Seq(W)
    BY ValueTyped
  <2>3. \A n : R(n) = v \o n[e + 1]
    BY <1>2 DEF ReferenceFrom
  <2> HIDE DEF e, v, R
  <2>4. e + 1 \in D /\ s < e + 1
    BY <1>0, <2>1
  <2>5. m \in [D -> Seq(W)] => m[e + 1] \in Seq(W)
    BY <2>4
  <2>6. m \in [D -> Seq(W)] => R(m) \in Seq(W)
    BY <2>2, <2>3, <2>5, ConcatProperties
  <2>7. \A n : (\A t \in D : s < t => m[t] = n[t]) => R(m) = R(n)
    BY <2>3, <2>4
  <2> QED BY <2>6, <2>7 DEF R
<1> QED BY <1>1, <1>2

\* The meaning at s is a text, and that of later positions decides it.
LEMMA MeansTyped ==
    ASSUME NEW W, NEW scope, NEW text, Fits(scope, text, W), NEW s \in 1..(Len(text) + 1),
           NEW m
    PROVE  /\ m \in [1..(Len(text) + 1) -> Seq(W)] => MeansFrom(scope, text, m, s) \in Seq(W)
           /\ \A n : (\A t \in 1..(Len(text) + 1) : s < t => m[t] = n[t])
                   => MeansFrom(scope, text, m, s) = MeansFrom(scope, text, n, s)
<1> DEFINE D == 1..(Len(text) + 1)
           p == NextOpener(text, s)
           b == Backslashes(text, s)
           R(n) == ReferenceFrom(scope, text, n, p)
           before == SubSeq(text, s, p - 1 - b)
           between == SubSeq(text, p - b + 1, p - 1)
<1>0. text \in Seq(W) /\ Len(text) \in Nat /\ Opener \in W /\ NotGiven \in W
  BY LenProperties DEF Fits
<1>1. CASE OpenersFrom(text, s) = {}
  <2>1. SubSeq(text, s, Len(text)) \in Seq(W)
    <3>1. Len(text) \in 0..Len(text)
      BY <1>0
    <3> QED BY <1>0, <3>1, PartTyped
  <2> QED BY <1>1, <2>1 DEF MeansFrom
<1>2. CASE OpenersFrom(text, s) # {}
  <2>1. /\ p \in s..Len(text) /\ text[p] = Opener
        /\ b \in 0..(p - s) /\ p \in Int /\ s \in Int /\ s >= 1 /\ b \in Int
    BY <1>0, <1>2, NextOpenerFound, BackslashesFound
  <2>2. p \in 1..Len(text) /\ p + 1 \in D /\ s < p + 1
    BY <1>0, <2>1
  <2> HIDE DEF p, b
  <2>3. before \in Seq(W) /\ (b # 1 => between \in Seq(W))
    <3>1. s \in 1..(Len(text) + 1) /\ p - 1 - b \in 0..Len(text)
      BY <1>0, <2>1
    <3>2. p - b + 1 \in 1..(Len(text) + 1) /\ p - 1 \in 0..Len(text)
      BY <1>0, <2>1
    <3> QED BY <1>0, <3>1, <3>2, PartTyped
  <2>4. /\ m \in [D -> Seq(W)] => R(m) \in Seq(W)
        /\ \A n : (\A t \in D : s < t => m[t] = n[t]) => R(m) = R(n)
    <3>1. p \in 1..Len(text) /\ s \in 1..p
      BY <2>1, <2>2
    <3> HIDE DEF before, between
    <3>2. Fits(scope, text, W)
      OBVIOUS
    <3>3. \A q \in 1..Len(text) : \A t \in 1..q :
             /\ m \in [D -> Seq(W)] => ReferenceFrom(scope, text, m, q) \in Seq(W)
             /\ \A n : (\A u \in D : t < u => m[u] = n[u])
                   => ReferenceFrom(scope, text, m, q) = ReferenceFrom(scope, text, n, q)
      BY <3>2, ReferenceTyped
    <3> QED BY <3>1, <3>3
  <2> HIDE DEF before, between, R
  <2>5. \A n : MeansFrom(scope, text, n, s) =
            IF b = 1 THEN before \o <<Opener>> \o n[p + 1]
            ELSE before \o between \o R(n)
    BY <1>2 DEF MeansFrom, p, b, R, before, between
  <2>6. ASSUME m \in [D -> Seq(W)] PROVE MeansFrom(scope, text, m, s) \in Seq(W)
    <3>1. CASE b = 1
      <4>1. <<Opener>> \in Seq(W) /\ m[p + 1] \in Seq(W)
        BY <1>0, <2>2, <2>6
      <4>2. before \o <<Opener>> \o m[p + 1] \in Seq(W)
        BY <2>3, <4>1, ConcatProperties
      <4> QED BY <2>5, <3>1, <4>2
    <3>2. CASE b # 1
      <4>1. before \o between \in Seq(W)
        BY <2>3, <3>2, ConcatProperties
      <4>2. before \o between \o R(m) \in Seq(W)
        BY <2>4, <2>6, <4>1, ConcatProperties
      <4> QED BY <2>5, <3>2, <4>2
    <3> QED BY <3>1, <3>2
  <2>7. ASSUME NEW n, \A t \in D : s < t => m[t] = n[t]
        PROVE  MeansFrom(scope, text, m, s) = MeansFrom(scope, text, n, s)
    <3>1. m[p + 1] = n[p + 1] /\ R(m) = R(n)
      BY <2>2, <2>4, <2>7
    <3> QED BY <2>5, <3>1
  <2> QED BY <2>6, <2>7
<1> QED BY <1>1, <1>2

\* There is such a meaning of each position.
LEMMA MeaningSteps ==
    ASSUME NEW W, NEW scope, NEW text, Fits(scope, text, W)
    PROVE  /\ MeaningIn(scope, text) \in [1..(Len(text) + 1) -> Seq(W)]
           /\ \A s \in 1..(Len(text) + 1) :
                MeaningIn(scope, text)[s] = MeansFrom(scope, text, MeaningIn(scope, text), s)
<1> DEFINE D == 1..(Len(text) + 1)
           V == Seq(W)
           Body(g, s) == MeansFrom(scope, text, g, s)
           m == CHOOSE g : g = [s \in D |-> Body(g, s)]
           size == [s \in D |-> Len(text) + 1 - s]
           H == [s \in D |-> [g \in [D -> V] |-> Body(g, s)]]
<1>0. Len(text) \in Nat
  BY LenProperties DEF Fits
<1>1. MeaningIn(scope, text) = m
  BY DEF MeaningIn
<1>2. \E g \in [D -> V] : \A s \in D : g[s] = Body(g, s)
  <2>1. size \in [D -> Nat]
    BY <1>0
  <2>2. H \in [D -> [[D -> V] -> V]]
    <3>1. ASSUME NEW s \in D, NEW g \in [D -> V] PROVE Body(g, s) \in V
      BY MeansTyped
    <3> HIDE DEF Body, D, V
    <3> QED BY <3>1
  <2>3. ASSUME NEW s \in D, NEW g \in [D -> V], NEW h \in [D -> V],
               \A t \in D : size[t] < size[s] => g[t] = h[t]
        PROVE  H[s][g] = H[s][h]
    <3>1. \A t \in D : s < t => g[t] = h[t]
      <4> SUFFICES ASSUME NEW t \in D, s < t PROVE size[t] < size[s]
        BY <2>3
      <4> QED BY <1>0
    <3>2. Body(g, s) = Body(h, s)
      BY <3>1, MeansTyped
    <3> HIDE DEF Body, D, V
    <3> QED BY <3>2
  <2>4. Recursive(D, V, size, H)
    <3>1. <<>> \in V
      BY EmptySeq
    <3> HIDE DEF D, V, H, size
    <3> QED BY <2>1, <2>2, <2>3, <3>1 DEF Recursive
  <2>5. PICK g \in [D -> V] : Solves(g, D, H)
    <3> HIDE DEF D, V, H, size
    <3> QED BY <2>4, RecursionSolved
  <2>6. \A s \in D : g[s] = Body(g, s)
    <3> HIDE DEF Body, D, V
    <3> QED BY <2>5 DEF Solves
  <2> HIDE DEF Body, D, V
  <2> QED BY <2>6
<1>3. m = [s \in D |-> Body(m, s)]
  <2> HIDE DEF Body, D, V
  <2>1. PICK g \in [D -> V] : \A s \in D : g[s] = Body(g, s)
    BY <1>2
  <2>2. g = [s \in D |-> Body(g, s)]
    BY <2>1
  <2> QED BY <2>2
<1>4. ASSUME NEW s \in D PROVE m[s] = Body(m, s)
  <2> HIDE DEF Body, D, m
  <2> QED BY <1>3
<1> DEFINE T == {s \in D : m[s] \in V}
<1>5. D \subseteq T
  <2>1. size \in [D -> Nat]
    BY <1>0
  <2>2. ASSUME NEW s \in D, \A t \in D : size[t] < size[s] => t \in T PROVE s \in T
    <3>1. \A t \in D : s < t => m[t] \in V
      <4> SUFFICES ASSUME NEW t \in D, s < t PROVE size[t] < size[s]
        BY <2>2
      <4> QED BY <1>0
    <3> DEFINE g == [t \in D |-> IF s < t THEN m[t] ELSE <<>>]
    <3>2. g \in [D -> V]
      <4>1. <<>> \in V
        BY EmptySeq
      <4> HIDE DEF m, D, V
      <4> QED BY <3>1, <4>1
    <3>3. Body(m, s) = Body(g, s)
      <4>1. \A t \in D : s < t => m[t] = g[t]
        <5> HIDE DEF m, D
        <5> QED OBVIOUS
      <4> HIDE DEF g, m
      <4> QED BY <4>1, MeansTyped
    <3>4. Body(g, s) \in V
      <4> HIDE DEF g
      <4> QED BY <3>2, MeansTyped
    <3> HIDE DEF Body, m
    <3> QED BY <1>4, <3>3, <3>4
  <2> HIDE DEF T, D, size
  <2> QED BY <2>1, <2>2, ByMeasure
<1>6. m \in [D -> V]
  <2> HIDE DEF Body, D, V, m
  <2> QED BY <1>3, <1>5
<1> HIDE DEF m
<1> QED BY <1>1, <1>4, <1>6

\* m is the meaning of each position of a text.
Reads(m, scope, text, W) ==
    /\ Fits(scope, text, W)
    /\ m \in [1..(Len(text) + 1) -> Seq(W)]
    /\ \A s \in 1..(Len(text) + 1) : m[s] = MeansFrom(scope, text, m, s)

LEMMA MeansEnd ==
    ASSUME NEW W, NEW scope, NEW text, NEW m, Reads(m, scope, text, W)
    PROVE  m[Len(text) + 1] = <<>>
<1>1. Len(text) \in Nat
  BY LenProperties DEF Reads, Fits
<1>2. OpenersFrom(text, Len(text) + 1) = {}
  BY <1>1 DEF OpenersFrom
<1>3. m[Len(text) + 1] = SubSeq(text, Len(text) + 1, Len(text))
  <2>1. Len(text) + 1 \in 1..(Len(text) + 1)
    BY <1>1
  <2> QED BY <1>2, <2>1 DEF Reads, MeansFrom
<1> QED BY <1>1, <1>3, SubSeqEmpty

\* An opener is one of a reference.
LEMMA MeansReference ==
    ASSUME NEW W, NEW scope, NEW text, NEW m, Reads(m, scope, text, W),
           NEW s \in 1..Len(text), text[s] = Opener
    PROVE  m[s] = ReferenceFrom(scope, text, m, s) /\ m[s] \in Seq(W)
<1>1. Len(text) \in Nat /\ s \in 1..(Len(text) + 1) /\ s \in Int
  BY LenProperties DEF Reads, Fits
<1>2. OpenersFrom(text, s) # {} /\ NextOpener(text, s) = s
  <2>1. s \in s..Len(text) /\ \A j \in s..(s - 1) : text[j] # Opener
    BY <1>1
  <2> QED BY <1>1, <2>1, NextOpenerIs
<1>3. Backslashes(text, s) = 0
  <2>1. Backslashes(text, s) \in 0..(s - s)
    BY <1>1, <1>2, BackslashesFound
  <2> QED BY <1>1, <2>1
<1>4. m[s] \in Seq(W) /\ m[s] = MeansFrom(scope, text, m, s)
  BY <1>1 DEF Reads
<1> DEFINE R == ReferenceFrom(scope, text, m, s)
<1>5. MeansFrom(scope, text, m, s) = SubSeq(text, s, s - 1 - 0) \o SubSeq(text, s - 0 + 1, s - 1) \o R
  BY <1>2, <1>3 DEF MeansFrom
<1>6. SubSeq(text, s, s - 1 - 0) = <<>> /\ SubSeq(text, s - 0 + 1, s - 1) = <<>>
  <2>1. /\ s - 1 - 0 \in Int /\ s - 1 - 0 < s /\ s - 0 + 1 \in Int
        /\ s - 1 \in Int /\ s - 1 < s - 0 + 1
    BY <1>1
  <2> QED BY <1>1, <2>1, SubSeqEmpty
<1>7. R \in Seq(W)
  <2>1. s \in 1..s /\ Fits(scope, text, W) /\ m \in [1..(Len(text) + 1) -> Seq(W)]
    BY <1>1 DEF Reads
  <2> QED BY <2>1, ReferenceTyped
<1> HIDE DEF R
<1>8. <<>> \o <<>> \o R = R
  <2>1. <<>> \o <<>> = <<>>
    BY EmptySeq, ConcatEmptySeq
  <2> QED BY <1>7, <2>1, ConcatEmptySeq
<1>9. m[s] = R
  BY <1>4, <1>5, <1>6, <1>8
<1> QED BY <1>4, <1>9 DEF R

LEMMA TokensDiffer == Backslash # Opener /\ Closer # Opener /\ Closer # Backslash
BY DEF Backslash, Opener, Closer

\* One backslash before an opener makes it a word.
LEMMA MeansEscape ==
    ASSUME NEW W, NEW scope, NEW text, NEW m, Reads(m, scope, text, W),
           NEW s \in 1..Len(text), s + 1 \in 1..Len(text), text[s] = Backslash, text[s + 1] = Opener
    PROVE  m[s] = <<Opener>> \o m[s + 2]
<1>1. Len(text) \in Nat /\ s \in 1..(Len(text) + 1) /\ s \in Int /\ Backslash # Opener
  BY LenProperties, TokensDiffer DEF Reads, Fits
<1>2. OpenersFrom(text, s) # {} /\ NextOpener(text, s) = s + 1
  <2>1. s + 1 \in s..Len(text)
    BY <1>1
  <2>2. ASSUME NEW j \in s..((s + 1) - 1) PROVE text[j] # Opener
    <3>1. j = s
      BY <1>1
    <3> QED BY <1>1, <3>1
  <2> QED BY <1>1, <2>1, <2>2, NextOpenerIs
<1>3. Backslashes(text, s) = 1
  <2> DEFINE p == s + 1
  <2>1. p = NextOpener(text, s) /\ 1 \in 0..(p - s) /\ ~(1 < p - s)
    BY <1>1, <1>2
  <2>2. ASSUME NEW j \in (p - 1)..(p - 1) PROVE text[j] = Backslash
    <3>1. j = s
      BY <1>1
    <3> QED BY <3>1
  <2> HIDE DEF p
  <2> QED BY <1>1, <1>2, <2>1, <2>2, BackslashesIs
<1>4. m[s] = MeansFrom(scope, text, m, s)
  BY <1>1 DEF Reads
<1>5. MeansFrom(scope, text, m, s) = SubSeq(text, s, (s + 1) - 1 - 1) \o <<Opener>> \o m[(s + 1) + 1]
  BY <1>2, <1>3 DEF MeansFrom
<1>6. SubSeq(text, s, (s + 1) - 1 - 1) = <<>>
  <2>1. (s + 1) - 1 - 1 \in Int /\ (s + 1) - 1 - 1 < s
    BY <1>1
  <2> QED BY <1>1, <2>1, SubSeqEmpty
<1>7. <<>> \o <<Opener>> = <<Opener>>
  <2>1. <<Opener>> \in Seq({Opener})
    OBVIOUS
  <2> QED BY <2>1, ConcatEmptySeq
<1>8. (s + 1) + 1 = s + 2
  BY <1>1
<1> QED BY <1>4, <1>5, <1>6, <1>7, <1>8

\* Two make one, and the opener begins a reference.
LEMMA MeansBackslash ==
    ASSUME NEW W, NEW scope, NEW text, NEW m, Reads(m, scope, text, W),
           NEW s \in 1..Len(text), s + 2 \in 1..Len(text),
           text[s] = Backslash, text[s + 1] = Backslash, text[s + 2] = Opener
    PROVE  m[s] = <<Backslash>> \o m[s + 2]
<1> DEFINE p == s + 2
<1>1. /\ Len(text) \in Nat /\ s \in 1..(Len(text) + 1) /\ s \in Int /\ p \in Int /\ Backslash # Opener
      /\ p - s = 2 /\ p - 1 = s + 1 /\ p - 2 = s
  BY LenProperties, TokensDiffer DEF Reads, Fits
<1>2. OpenersFrom(text, s) # {} /\ NextOpener(text, s) = p
  <2>1. p \in s..Len(text)
    BY <1>1
  <2>2. ASSUME NEW j \in s..(p - 1) PROVE text[j] # Opener
    <3>1. j = s \/ j = s + 1
      BY <1>1
    <3> QED BY <1>1, <3>1
  <2> HIDE DEF p
  <2>3. text[p] = Opener
    BY DEF p
  <2> QED BY <1>1, <2>1, <2>2, <2>3, NextOpenerIs
<1>3. Backslashes(text, s) = 2
  <2>1. p = NextOpener(text, s) /\ 2 \in 0..(p - s) /\ ~(2 < p - s)
    BY <1>1, <1>2
  <2>2. ASSUME NEW j \in (p - 2)..(p - 1) PROVE text[j] = Backslash
    <3>1. j = s \/ j = s + 1
      BY <1>1
    <3> QED BY <3>1
  <2> HIDE DEF p
  <2> QED BY <1>1, <1>2, <2>1, <2>2, BackslashesIs
<1> DEFINE R == ReferenceFrom(scope, text, m, p)
<1>4. m[p] = R /\ R \in Seq(W) /\ Backslash \in W
  <2>1. text[p] = Opener /\ p \in 1..Len(text)
    OBVIOUS
  <2> HIDE DEF p
  <2>2. m[p] = R /\ m[p] \in Seq(W)
    BY <2>1, MeansReference
  <2>3. Backslash \in W
    BY DEF Reads, Fits
  <2> HIDE DEF R
  <2> QED BY <2>2, <2>3
<1>5. m[s] = SubSeq(text, s, p - 1 - 2) \o SubSeq(text, p - 2 + 1, p - 1) \o R
  <2>1. m[s] = MeansFrom(scope, text, m, s)
    BY <1>1 DEF Reads
  <2> HIDE DEF p
  <2>2. MeansFrom(scope, text, m, s) = SubSeq(text, s, p - 1 - 2) \o SubSeq(text, p - 2 + 1, p - 1) \o R
    BY <1>1, <1>2, <1>3 DEF MeansFrom
  <2> QED BY <2>1, <2>2
<1> HIDE DEF R
<1>6. SubSeq(text, s, p - 1 - 2) = <<>>
  <2>1. p - 1 - 2 \in Int /\ p - 1 - 2 < s
    BY <1>1
  <2> HIDE DEF p
  <2> QED BY <1>1, <2>1, SubSeqEmpty
<1>7. SubSeq(text, p - 2 + 1, p - 1) = <<Backslash>>
  <2> DEFINE q == SubSeq(text, p - 2 + 1, p - 1)
             r == <<Backslash>>
  <2>1. p - 2 + 1 = s + 1 /\ p - 1 = s + 1
    BY <1>1
  <2>2. s + 1 \in Int /\ \A i \in (s + 1)..(s + 1) : text[i] \in W
    <3>1. \A i \in (s + 1)..(s + 1) : i = s + 1
      BY <1>1
    <3> QED BY <1>1, <1>4, <3>1
  <2> DEFINE t == SubSeq(text, s + 1, s + 1)
  <2>3. t \in Seq(W) /\ Len(t) = 1 /\ t[1] = text[s + 1]
    <3>1. /\ SubSeq(text, s + 1, s + 1) \in Seq(W)
          /\ Len(SubSeq(text, s + 1, s + 1)) = IF s + 1 <= s + 1 THEN (s + 1) - (s + 1) + 1 ELSE 0
          /\ \A i \in 1..((s + 1) - (s + 1) + 1) :
                SubSeq(text, s + 1, s + 1)[i] = text[(s + 1) + i - 1]
      BY <2>2, SubSeqProperties
    <3>2. (s + 1) - (s + 1) + 1 = 1 /\ s + 1 <= s + 1 /\ (s + 1) + 1 - 1 = s + 1 /\ 1 \in 1..1
      BY <1>1
    <3> HIDE DEF t
    <3>3. Len(t) = 1
      BY <3>1, <3>2 DEF t
    <3> QED BY <3>1, <3>2, <3>3 DEF t
  <2>4. t = <<text[s + 1]>>
    <3> HIDE DEF t
    <3> QED BY <2>3
  <2> QED BY <2>1, <2>4
<1>8. <<>> \o <<Backslash>> = <<Backslash>>
  <2>1. <<Backslash>> \in Seq({Backslash})
    OBVIOUS
  <2> QED BY <2>1, ConcatEmptySeq
<1> QED BY <1>4, <1>5, <1>6, <1>7, <1>8

\* Where none of these begins, the word stands for itself.
SpecialAt(text, s) ==
    \/ text[s] = Opener
    \/ s + 1 <= Len(text) /\ text[s] = Backslash /\ text[s + 1] = Opener
    \/ s + 2 <= Len(text) /\ text[s] = Backslash /\ text[s + 1] = Backslash /\ text[s + 2] = Opener

LEMMA FirstOfPart ==
    ASSUME NEW W, NEW text \in Seq(W), NEW i \in 1..Len(text), NEW j \in i..Len(text)
    PROVE  /\ SubSeq(text, i, j) = <<text[i]>> \o SubSeq(text, i + 1, j)
           /\ SubSeq(text, i + 1, j) \in Seq(W) /\ <<text[i]>> \in Seq(W)
<1>1. Len(text) \in Nat /\ text[i] \in W
  BY LenProperties, ElementOfSeq
<1>2. i + 1 \in 1..(Len(text) + 1) /\ j \in 0..Len(text)
  BY <1>1
<1>3. SubSeq(text, i + 1, j) \in Seq(W)
  BY <1>2, PartTyped
<1> QED BY <1>1, <1>3, SubSeqRecursiveFirst

LEMMA MeansLiteral ==
    ASSUME NEW W, NEW scope, NEW text, NEW m, Reads(m, scope, text, W),
           NEW s \in 1..Len(text), ~SpecialAt(text, s)
    PROVE  m[s] = <<text[s]>> \o m[s + 1]
<1> DEFINE p == NextOpener(text, s)
           b == Backslashes(text, s)
           t == s + 1
           word == <<text[s]>>
<1>1. /\ text \in Seq(W) /\ Len(text) \in Nat /\ s \in Int /\ t \in Int
      /\ s \in 1..(Len(text) + 1) /\ t \in 1..(Len(text) + 1) /\ Opener \in W
  BY LenProperties DEF Reads, Fits
<1>2. m[s] = MeansFrom(scope, text, m, s) /\ m[t] = MeansFrom(scope, text, m, t) /\ m[t] \in Seq(W)
  BY <1>1 DEF Reads
<1>3. word \in Seq(W)
  <2>1. text[s] \in W
    BY <1>1, ElementOfSeq
  <2> QED BY <2>1
<1>4. CASE OpenersFrom(text, s) = {}
  <2>1. OpenersFrom(text, t) = {}
    BY <1>1, <1>4 DEF OpenersFrom
  <2>2. Len(text) \in s..Len(text)
    BY <1>1
  <2>3. SubSeq(text, s, Len(text)) = word \o SubSeq(text, t, Len(text))
    BY <1>1, <2>2, FirstOfPart
  <2>4. m[s] = SubSeq(text, s, Len(text))
    BY <1>2, <1>4 DEF MeansFrom
  <2>5. m[t] = SubSeq(text, t, Len(text))
    <3> HIDE DEF t
    <3> QED BY <1>2, <2>1 DEF MeansFrom
  <2> HIDE DEF word, t
  <2>6. m[s] = word \o m[t]
    BY <2>3, <2>4, <2>5
  <2> QED BY <2>6 DEF word, t
<1>5. CASE OpenersFrom(text, s) # {}
  <2>1. /\ p \in s..Len(text) /\ p \in Int /\ text[p] = Opener
        /\ \A j \in s..(p - 1) : text[j] # Opener
        /\ b \in 0..(p - s) /\ b \in Int /\ \A j \in (p - b)..(p - 1) : text[j] = Backslash
        /\ b < p - s => text[p - b - 1] # Backslash
    BY <1>1, <1>5, NextOpenerFound, BackslashesFound
  <2>2. p # s /\ p \in t..Len(text)
    BY <1>1, <2>1 DEF SpecialAt
  <2> HIDE DEF p, b
  <2>3. OpenersFrom(text, t) # {} /\ NextOpener(text, t) = p
    <3>1. \A j \in t..(p - 1) : text[j] # Opener
      BY <1>1, <2>1
    <3> HIDE DEF t
    <3> QED BY <1>1, <2>1, <2>2, <3>1, NextOpenerIs
  <2> DEFINE R == ReferenceFrom(scope, text, m, p)
             before == SubSeq(text, t, p - 1 - b)
  <2>4. R \in Seq(W)
    <3>1. p \in 1..Len(text) /\ p \in 1..p
      BY <1>1, <2>1
    <3> QED BY <3>1, ReferenceTyped DEF Reads
  <2>5. CASE b < p - s
    <3>1. Backslashes(text, t) = b
      <4>1. b \in 0..(p - t) /\ (b < p - t => text[p - b - 1] # Backslash)
        BY <1>1, <2>1, <2>5
      <4> HIDE DEF t
      <4> QED BY <1>1, <2>1, <2>3, <4>1, BackslashesIs
    <3>2. p - 1 - b \in s..Len(text)
      BY <1>1, <2>1, <2>5
    <3>3. SubSeq(text, s, p - 1 - b) = word \o before /\ before \in Seq(W)
      BY <1>1, <3>2, FirstOfPart
    <3> HIDE DEF word, t, before
    <3>4. CASE b = 1
      <4>1. p + 1 \in 1..(Len(text) + 1)
        BY <1>1, <2>1
      <4>2. m[p + 1] \in Seq(W) /\ <<Opener>> \in Seq(W)
        BY <1>1, <4>1 DEF Reads
      <4>3. m[s] = (word \o before) \o <<Opener>> \o m[p + 1]
        BY <1>2, <1>5, <2>1, <3>3, <3>4 DEF MeansFrom, p, b
      <4>4. m[t] = before \o <<Opener>> \o m[p + 1]
        BY <1>2, <2>1, <2>3, <3>1, <3>4 DEF MeansFrom, before
      <4>5. (word \o before) \o <<Opener>> \o m[p + 1] = word \o (before \o <<Opener>> \o m[p + 1])
        <5> DEFINE o == <<Opener>>
                   later == m[p + 1]
        <5>1. before \in Seq(W) /\ o \in Seq(W) /\ later \in Seq(W)
          BY <3>3, <4>2
        <5> HIDE DEF o, later, before
        <5> HIDE DEF word
        <5>2. (word \o before) \o o = word \o (before \o o)
          BY <1>3, <5>1, TextsRegroup DEF Regroups
        <5>3. before \o o \in Seq(W)
          BY <5>1, ConcatProperties
        <5>4. (word \o (before \o o)) \o later = word \o ((before \o o) \o later)
          <6>1. Regroups(word, before \o o, later)
            BY <1>3, <5>1, <5>3, TextsRegroup
          <6> QED BY <6>1 DEF Regroups
        <5>5. (word \o before) \o o \o later = word \o (before \o o \o later)
          BY <5>2, <5>4
        <5> QED BY <5>5 DEF o, later
      <4> QED BY <4>3, <4>4, <4>5 DEF word, t
    <3>5. CASE b # 1
      <4> DEFINE between == SubSeq(text, p - b + 1, p - 1)
      <4>1. between \in Seq(W)
        <5>1. p - b + 1 \in 1..(Len(text) + 1) /\ p - 1 \in 0..Len(text)
          BY <1>1, <2>1, <3>5
        <5> QED BY <1>1, <5>1, PartTyped
      <4>2. m[s] = (word \o before) \o between \o R
        BY <1>2, <1>5, <2>1, <3>3, <3>5 DEF MeansFrom, p, b
      <4>3. m[t] = before \o between \o R
        BY <1>2, <2>1, <2>3, <3>1, <3>5 DEF MeansFrom, before
      <4> HIDE DEF between, R
      <4>4. (word \o before) \o between \o R = word \o (before \o between \o R)
        <5>1. before \in Seq(W)
          BY <3>3
        <5> HIDE DEF before
        <5>2. (word \o before) \o between = word \o (before \o between)
          BY <1>3, <4>1, <5>1, TextsRegroup DEF Regroups
        <5>3. before \o between \in Seq(W)
          BY <4>1, <5>1, ConcatProperties
        <5>4. (word \o (before \o between)) \o R = word \o ((before \o between) \o R)
          <6>1. Regroups(word, before \o between, R)
            BY <1>3, <2>4, <5>3, TextsRegroup
          <6> QED BY <6>1 DEF Regroups
        <5> QED BY <5>2, <5>4
      <4> QED BY <4>2, <4>3, <4>4 DEF word, t
    <3> QED BY <3>4, <3>5
  <2>6. CASE ~(b < p - s)
    <3>0. b = p - s
      BY <1>1, <2>1, <2>6
    <3>1. p >= s + 3
      <4>1. CASE p = s + 1
        <5>1. s \in (p - b)..(p - 1)
          BY <1>1, <2>1, <3>0, <4>1
        <5>2. text[s] = Backslash /\ text[s + 1] = Opener /\ s + 1 <= Len(text)
          BY <1>1, <2>1, <4>1, <5>1
        <5> QED BY <5>2 DEF SpecialAt
      <4>2. CASE p = s + 2
        <5>1. s \in (p - b)..(p - 1) /\ s + 1 \in (p - b)..(p - 1)
          BY <1>1, <2>1, <3>0, <4>2
        <5>2. text[s] = Backslash /\ text[s + 1] = Backslash /\ text[s + 2] = Opener /\ s + 2 <= Len(text)
          BY <1>1, <2>1, <4>2, <5>1
        <5> QED BY <5>2 DEF SpecialAt
      <4> QED BY <1>1, <2>1, <2>2, <4>1, <4>2
    <3> DEFINE c == b - 1
    <3>2. c = p - t /\ c \in Int /\ c \in 0..(p - t) /\ c # 1 /\ b # 1
      BY <1>1, <2>1, <3>0, <3>1
    <3>3. Backslashes(text, t) = c
      <4>1. \A j \in (p - c)..(p - 1) : text[j] = Backslash
        BY <1>1, <2>1, <3>0
      <4>2. ~(c < p - t)
        BY <1>1, <2>1, <3>2
      <4> HIDE DEF t, c
      <4> QED BY <1>1, <2>1, <2>3, <3>2, <4>1, <4>2, BackslashesIs
    <3> DEFINE later == SubSeq(text, p - c + 1, p - 1)
    <3>4. SubSeq(text, p - b + 1, p - 1) = word \o later /\ later \in Seq(W)
      <4>1. t \in 1..Len(text) /\ p - 1 \in t..Len(text) /\ p - b + 1 = t /\ p - c + 1 = t + 1
        BY <1>1, <2>1, <3>0, <3>1
      <4>2. text[t] = text[s]
        <5>1. s \in (p - b)..(p - 1) /\ t \in (p - b)..(p - 1)
          BY <1>1, <2>1, <3>0, <3>1
        <5> QED BY <2>1, <5>1
      <4> HIDE DEF t
      <4>3. SubSeq(text, t, p - 1) = <<text[t]>> \o SubSeq(text, t + 1, p - 1) /\ SubSeq(text, t + 1, p - 1) \in Seq(W)
        BY <1>1, <4>1, FirstOfPart
      <4> HIDE DEF c
      <4> QED BY <4>1, <4>2, <4>3
    <3>5. SubSeq(text, s, p - 1 - b) = <<>> /\ SubSeq(text, t, p - 1 - c) = <<>>
      <4>1. p - 1 - b \in Int /\ p - 1 - b < s /\ p - 1 - c \in Int /\ p - 1 - c < t
        BY <1>1, <2>1, <3>0
      <4> HIDE DEF c, t
      <4> QED BY <1>1, <4>1, SubSeqEmpty
    <3> HIDE DEF word, later, R, c, t
    <3>6. m[s] = <<>> \o (word \o later) \o R
      BY <1>2, <1>5, <2>1, <3>2, <3>4, <3>5 DEF MeansFrom, p, b, R
    <3>7. m[t] = <<>> \o later \o R
      BY <1>2, <2>1, <2>3, <3>2, <3>3, <3>5 DEF MeansFrom, later, R
    <3>8. <<>> \o (word \o later) \o R = word \o (<<>> \o later \o R)
      <4>1. <<>> \o (word \o later) = word \o later /\ <<>> \o later = later
        BY <1>3, <3>4, ConcatProperties, ConcatEmptySeq
      <4>2. (word \o later) \o R = word \o (later \o R)
        BY <1>3, <2>4, <3>4, TextsRegroup DEF Regroups
      <4> QED BY <4>1, <4>2
    <3> QED BY <3>6, <3>7, <3>8 DEF word, t
  <2> QED BY <2>5, <2>6
<1> QED BY <1>4, <1>5

\* A run of words before the next opener or backslash.
LEMMA MeansLiterals ==
    ASSUME NEW W, NEW scope, NEW text, NEW m, Reads(m, scope, text, W),
           NEW s \in 1..Len(text), ~SpecialAt(text, s), NEW e \in (s + 1)..(Len(text) + 1),
           \A j \in (s + 1)..(e - 1) : text[j] \notin {Opener, Backslash}
    PROVE  m[s] = SubSeq(text, s, e - 1) \o m[e]
<1>1. /\ text \in Seq(W) /\ Len(text) \in Nat /\ s \in Int /\ s >= 1
      /\ \A i \in 1..(Len(text) + 1) : m[i] \in Seq(W)
  BY LenProperties DEF Reads, Fits
<1> DEFINE N == {n \in Nat : s + 1 + n <= e => m[s] = SubSeq(text, s, s + n) \o m[s + 1 + n]}
<1>2. 0 \in N
  <2>1. m[s] = <<text[s]>> \o m[s + 1]
    BY MeansLiteral
  <2>2. SubSeq(text, s, s) = <<text[s]>> \o SubSeq(text, s + 1, s) /\ <<text[s]>> \in Seq(W)
    <3>1. s \in s..Len(text)
      BY <1>1
    <3> QED BY <1>1, <3>1, FirstOfPart
  <2>3. SubSeq(text, s + 1, s) = <<>>
    BY <1>1, SubSeqEmpty
  <2>4. SubSeq(text, s, s) = <<text[s]>>
    BY <2>2, <2>3, ConcatEmptySeq
  <2>5. s + 0 = s /\ s + 1 + 0 = s + 1
    BY <1>1
  <2> QED BY <2>1, <2>4, <2>5
<1>3. ASSUME NEW n \in Nat, n \in N PROVE n + 1 \in N
  <2>1. ASSUME s + 1 + (n + 1) <= e
        PROVE  m[s] = SubSeq(text, s, s + (n + 1)) \o m[s + 1 + (n + 1)]
    <3> DEFINE k == s + 1 + n
               part == SubSeq(text, s, s + n)
               word == <<text[k]>>
    <3>1. /\ k \in 1..Len(text) /\ k \in (s + 1)..(e - 1) /\ k + 1 \in 1..(Len(text) + 1)
          /\ s + n \in 0..Len(text) /\ s + (n + 1) = k /\ s + 1 + (n + 1) = k + 1 /\ k - 1 = s + n
          /\ s + 1 + n <= e /\ k \in s..Len(text) /\ s \in 1..(Len(text) + 1)
      BY <1>1, <2>1
    <3>2. m[s] = part \o m[k]
      BY <1>3, <3>1
    <3> HIDE DEF k
    <3>3. m[k] = word \o m[k + 1]
      <4>1. ~SpecialAt(text, k)
        BY <3>1 DEF SpecialAt
      <4> QED BY <3>1, <4>1, MeansLiteral
    <3>4. SubSeq(text, s, k) = SubSeq(text, s, k - 1) \o word
      BY <1>1, <3>1, SubSeqRecursiveSecond
    <3>5. part \in Seq(W) /\ word \in Seq(W) /\ m[k + 1] \in Seq(W)
      <4>1. part \in Seq(W)
        BY <1>1, <3>1, PartTyped
      <4>2. text[k] \in W
        BY <1>1, <3>1, ElementOfSeq
      <4> QED BY <1>1, <3>1, <4>1, <4>2
    <3>6. m[s] = part \o (word \o m[k + 1])
      BY <3>2, <3>3
    <3>7. SubSeq(text, s, k) = part \o word
      BY <3>1, <3>4
    <3> DEFINE later == m[k + 1]
    <3>8. later \in Seq(W)
      BY <3>5
    <3>9. part \o (word \o later) = (part \o word) \o later
      <4> HIDE DEF part, word, later
      <4>1. Regroups(part, word, later)
        BY <3>5, <3>8, TextsRegroup
      <4> QED BY <4>1 DEF Regroups
    <3> QED BY <3>1, <3>6, <3>7, <3>9
  <2>2. n + 1 \in Nat
    OBVIOUS
  <2> QED BY <2>1, <2>2
<1> HIDE DEF N
<1>4. Nat \subseteq N
  BY <1>2, <1>3, NatIsAll
<1> DEFINE n == e - (s + 1)
<1>5. n \in Nat /\ s + 1 + n = e /\ s + n = e - 1
  BY <1>1
<1> HIDE DEF n
<1>6. n \in N
  BY <1>4, <1>5
<1>7. s + 1 + n <= e => m[s] = SubSeq(text, s, s + n) \o m[s + 1 + n]
  BY <1>6 DEF N
<1>8. s + 1 + n <= e
  BY <1>1, <1>5
<1> QED BY <1>5, <1>7, <1>8

-------------------------------------------------------------------------------
(* Values of {{uuid}} in a text.                                             *)

\* A text with "uuid" in their place.
Norm(t) == [i \in DOMAIN t |-> IF Contains(Uuids, t[i]) THEN "uuid" ELSE t[i]]

LEMMA NormTyped ==
    ASSUME NEW W, "uuid" \in W, NEW t \in Seq(W)
    PROVE  /\ Norm(t) \in Seq(W) /\ Len(Norm(t)) = Len(t)
           /\ \A i \in 1..Len(t) : Norm(t)[i] = IF Contains(Uuids, t[i]) THEN "uuid" ELSE t[i]
<1>1. Len(t) \in Nat /\ DOMAIN t = 1..Len(t) /\ \A i \in 1..Len(t) : t[i] \in W
  BY LenProperties, ElementOfSeq
<1>2. Norm(t) = [i \in 1..Len(t) |-> IF Contains(Uuids, t[i]) THEN "uuid" ELSE t[i]]
  BY <1>1 DEF Norm
<1>3. \A i \in 1..Len(t) : (IF Contains(Uuids, t[i]) THEN "uuid" ELSE t[i]) \in W
  BY <1>1
<1>4. Norm(t) \in Seq(W)
  BY <1>1, <1>2, <1>3, IsASeq
<1>5. Len(Norm(t)) = Len(t)
  <2>1. DOMAIN Norm(t) = 1..Len(t)
    BY <1>2
  <2>2. DOMAIN Norm(t) = 1..Len(Norm(t)) /\ Len(Norm(t)) \in Nat
    BY <1>4, LenProperties
  <2> QED BY <1>1, <2>1, <2>2
<1> QED BY <1>2, <1>4, <1>5

LEMMA NormConcat ==
    ASSUME NEW W, "uuid" \in W, NEW s \in Seq(W), NEW t \in Seq(W)
    PROVE  Norm(s \o t) = Norm(s) \o Norm(t)
<1> DEFINE l == Norm(s \o t)
           r == Norm(s) \o Norm(t)
           u == s \o t
<1>1. /\ u \in Seq(W) /\ Len(u) = Len(s) + Len(t)
      /\ \A i \in 1..(Len(s) + Len(t)) : u[i] = IF i <= Len(s) THEN s[i] ELSE t[i - Len(s)]
  BY ConcatProperties
<1>2. Len(s) \in Nat /\ Len(t) \in Nat
  BY LenProperties
<1>3. /\ l \in Seq(W) /\ Len(l) = Len(u)
      /\ \A i \in 1..Len(u) : l[i] = IF Contains(Uuids, u[i]) THEN "uuid" ELSE u[i]
  BY <1>1, NormTyped
<1>4. /\ Norm(s) \in Seq(W) /\ Len(Norm(s)) = Len(s)
      /\ \A i \in 1..Len(s) : Norm(s)[i] = IF Contains(Uuids, s[i]) THEN "uuid" ELSE s[i]
  BY NormTyped
<1>5. /\ Norm(t) \in Seq(W) /\ Len(Norm(t)) = Len(t)
      /\ \A i \in 1..Len(t) : Norm(t)[i] = IF Contains(Uuids, t[i]) THEN "uuid" ELSE t[i]
  BY NormTyped
<1>6. /\ r \in Seq(W) /\ Len(r) = Len(s) + Len(t)
      /\ \A i \in 1..(Len(s) + Len(t)) : r[i] = IF i <= Len(s) THEN Norm(s)[i] ELSE Norm(t)[i - Len(s)]
  <2> DEFINE a == Norm(s)
             b == Norm(t)
  <2>1. a \in Seq(W) /\ b \in Seq(W) /\ Len(a) = Len(s) /\ Len(b) = Len(t)
    BY <1>4, <1>5
  <2> HIDE DEF a, b
  <2>2. /\ a \o b \in Seq(W) /\ Len(a \o b) = Len(a) + Len(b)
        /\ \A i \in 1..(Len(a) + Len(b)) : (a \o b)[i] = IF i <= Len(a) THEN a[i] ELSE b[i - Len(a)]
    BY <2>1, ConcatProperties
  <2> QED BY <2>1, <2>2 DEF a, b
<1> HIDE DEF l, r, u
<1>7. ASSUME NEW i \in 1..Len(l) PROVE l[i] = r[i]
  <2>1. i \in 1..(Len(s) + Len(t)) /\ i \in 1..Len(u) /\ i \in Int
    BY <1>1, <1>2, <1>3
  <2>2. CASE i <= Len(s)
    <3>1. i \in 1..Len(s)
      BY <1>2, <2>1, <2>2
    <3>2. u[i] = s[i] /\ r[i] = Norm(s)[i]
      BY <1>1, <1>6, <2>1, <2>2
    <3> QED BY <1>3, <1>4, <2>1, <3>1, <3>2
  <2>3. CASE ~(i <= Len(s))
    <3>1. i - Len(s) \in 1..Len(t)
      BY <1>2, <2>1, <2>3
    <3>2. u[i] = t[i - Len(s)] /\ r[i] = Norm(t)[i - Len(s)]
      BY <1>1, <1>6, <2>1, <2>3
    <3> QED BY <1>3, <1>5, <2>1, <3>1, <3>2
  <2> QED BY <2>2, <2>3
<1>8. l = r
  <2>1. Len(l) = Len(r)
    BY <1>1, <1>3, <1>6
  <2> QED BY <1>3, <1>6, <1>7, <2>1, SeqEqual
<1> QED BY <1>8 DEF l, r, u

\* No value of {{uuid}} is in it.
Plain(t) == \A i \in 1..Len(t) : ~Contains(Uuids, t[i])

LEMMA NormPlain ==
    ASSUME NEW W, "uuid" \in W, NEW t \in Seq(W), Plain(t)
    PROVE  Norm(t) = t
<1>1. /\ Norm(t) \in Seq(W) /\ Len(Norm(t)) = Len(t)
      /\ \A i \in 1..Len(t) : Norm(t)[i] = IF Contains(Uuids, t[i]) THEN "uuid" ELSE t[i]
  BY NormTyped
<1>2. \A i \in 1..Len(t) : Norm(t)[i] = t[i]
  BY <1>1 DEF Plain
<1> QED BY <1>1, <1>2, SeqEqual

-------------------------------------------------------------------------------
(* A file's fields and names.                                                *)

\* The words of texts, of what they mean and of what is written.
Words == STRING \cup {NotGiven, "uuid", Opener, Backslash}

ScopeIn(i) == Over(Over(ValueOf(i.vars), i.file.vars), ValueOf(i.secrets))
MeaningOf(i, f) == MeaningIn(ScopeIn(i), i.file[f])

LEMMA FieldNames == ToSet(Fields) = {"method", "url", "value", "body"}
<1>1. /\ Len(Fields) = 4 /\ Fields[1] = "method" /\ Fields[2] = "url" /\ Fields[3] = "value"
      /\ Fields[4] = "body" /\ DOMAIN Fields = 1..4
  BY DEF Fields
<1>2. 1..4 = {1, 2, 3, 4}
  OBVIOUS
<1> QED BY <1>1, <1>2 DEF ToSet

LEMMA PairsTyped ==
    ASSUME NEW pairs, \A p \in ToSet(pairs) : p.name # "uuid" /\ IsText(p.value)
    PROVE  \A k \in DOMAIN ValueOf(pairs) : k # "uuid" /\ IsText(ValueOf(pairs)[k])
<1> SUFFICES ASSUME NEW k \in DOMAIN ValueOf(pairs)
             PROVE  k # "uuid" /\ IsText(ValueOf(pairs)[k])
  OBVIOUS
<1>1. PICK p \in ToSet(pairs) : p.name = k
  BY DEF ValueOf
<1> DEFINE q == CHOOSE r \in ToSet(pairs) : r.name = k
<1>2. q \in ToSet(pairs)
  BY <1>1
<1>3. ValueOf(pairs)[k] = q.value
  BY DEF ValueOf
<1> HIDE DEF q
<1> QED BY <1>1, <1>2, <1>3

LEMMA ScopeTyped ==
    ASSUME NEW i \in Inputs
    PROVE  \A k \in DOMAIN ScopeIn(i) : k # "uuid" /\ IsText(ScopeIn(i)[k])
<1> DEFINE a == ValueOf(i.vars)
           b == i.file.vars
           c == ValueOf(i.secrets)
           Good(h) == \A k \in DOMAIN h : k # "uuid" /\ IsText(h[k])
<1>1. IsInput(i)
  BY FileAssumption
<1>2. Good(a) /\ Good(c)
  <2>1. \A p \in ToSet(i.vars) : p.name # "uuid" /\ IsText(p.value)
    BY <1>1 DEF IsInput
  <2>2. \A p \in ToSet(i.secrets) : p.name # "uuid" /\ IsText(p.value)
    BY <1>1 DEF IsInput
  <2> QED BY <2>1, <2>2, PairsTyped
<1>3. Good(b)
  BY <1>1 DEF IsInput
<1>4. ASSUME NEW g, NEW h, Good(g), Good(h) PROVE Good(Over(g, h))
  BY <1>4 DEF Over
<1> HIDE DEF a, b, c, Good
<1>5. Good(Over(Over(a, b), c))
  BY <1>2, <1>3, <1>4
<1> QED BY <1>5 DEF a, b, c, Good, ScopeIn

\* Texts of a file and values of its names are words, none a value of {{uuid}}.
LEMMA TextsPlain ==
    ASSUME NEW t, IsText(t)
    PROVE  t \in Seq(Words) /\ Plain(t)
<1>1. Seq(STRING) \subseteq Seq(Words)
  BY SeqMonotonic DEF Words
<1> QED BY <1>1 DEF IsText, Plain

LEMMA FieldReads ==
    ASSUME NEW i \in Inputs, NEW f \in ToSet(Fields)
    PROVE  /\ Reads(MeaningOf(i, f), ScopeIn(i), i.file[f], Words)
           /\ IsText(i.file[f]) /\ i.file[f] \in Seq(Words) /\ Plain(i.file[f])
<1>1. IsText(i.file[f])
  BY FileAssumption DEF IsInput
<1>2. i.file[f] \in Seq(Words) /\ Plain(i.file[f])
  BY <1>1, TextsPlain
<1>3. Fits(ScopeIn(i), i.file[f], Words)
  <2>1. \A k \in DOMAIN ScopeIn(i) : ScopeIn(i)[k] \in Seq(Words)
    BY ScopeTyped, TextsPlain
  <2>2. {NotGiven, "uuid", Opener, Backslash} \subseteq Words
    BY DEF Words
  <2> QED BY <1>2, <2>1, <2>2 DEF Fits
<1>4. Reads(MeaningOf(i, f), ScopeIn(i), i.file[f], Words)
  <2> DEFINE text == i.file[f]
             scope == ScopeIn(i)
  <2>1. Fits(scope, text, Words)
    BY <1>3
  <2> HIDE DEF text, scope
  <2>2. Reads(MeaningIn(scope, text), scope, text, Words)
    BY <2>1, MeaningSteps DEF Reads
  <2> QED BY <2>2 DEF MeaningOf, text, scope
<1> QED BY <1>1, <1>2, <1>4

LEMMA ScopeIs == Scope = ScopeIn(input)
BY DEF Scope, ScopeIn, Secrets, file

LEMMA FieldMeans == \A f : Meaning(file[f]) = MeaningOf(input, f)[1]
<1>1. \A f : Meaning(file[f]) = MeaningIn(Scope, file[f])[1]
  BY MeaningIs
<1> QED BY <1>1, ScopeIs DEF MeaningOf, file

\* Fields are expanded in their order.
FieldTails == {Fields, <<"url", "value", "body">>, <<"value", "body">>, <<"body">>, <<>>}

LEMMA Pending ==
    ASSUME NEW fields \in FieldTails, fields # <<>>
    PROVE  /\ fields[1] \in ToSet(Fields) /\ Tail(fields) \in FieldTails /\ Tail(fields) # Fields
           /\ Contains(fields, fields[1]) /\ ~Contains(Tail(fields), fields[1])
           /\ \A f \in ToSet(Fields) \ {fields[1]} : Contains(Tail(fields), f) <=> Contains(fields, f)
           /\ Tail(fields) # <<>> => /\ Tail(fields)[1] \in ToSet(Fields) \ {fields[1]}
                                     /\ Contains(Tail(fields), Tail(fields)[1])
<1> DEFINE F == {"method", "url", "value", "body"}
           Facts(s) ==
              /\ s[1] \in F /\ Tail(s) \in FieldTails /\ Tail(s) # Fields
              /\ Contains(s, s[1]) /\ ~Contains(Tail(s), s[1])
              /\ \A f \in F \ {s[1]} : Contains(Tail(s), f) <=> Contains(s, f)
              /\ Tail(s) # <<>> => Tail(s)[1] \in F \ {s[1]} /\ Contains(Tail(s), Tail(s)[1])
<1>0. ~\E f : Contains(<<>>, f)
  BY DEF Contains
<1>1. \A f : Contains(<<"body">>, f) <=> f = "body"
  BY DEF Contains
<1>2. \A f : Contains(<<"value", "body">>, f) <=> f \in {"value", "body"}
  BY DEF Contains
<1>3. \A f : Contains(<<"url", "value", "body">>, f) <=> f \in {"url", "value", "body"}
  BY DEF Contains
<1>4. \A f : Contains(<<"method", "url", "value", "body">>, f) <=> f \in F
  BY DEF Contains
<1>5. Facts(<<"body">>)
  BY <1>0, <1>1 DEF FieldTails, Fields
<1>6. Facts(<<"value", "body">>)
  BY <1>1, <1>2 DEF FieldTails, Fields
<1>7. Facts(<<"url", "value", "body">>)
  BY <1>2, <1>3 DEF FieldTails, Fields
<1>8. Facts(<<"method", "url", "value", "body">>)
  BY <1>3, <1>4 DEF FieldTails, Fields
<1>9. fields \in {<<"method", "url", "value", "body">>, <<"url", "value", "body">>, <<"value", "body">>, <<"body">>}
  BY DEF FieldTails, Fields
<1> HIDE DEF Facts
<1>10. Facts(fields)
  BY <1>5, <1>6, <1>7, <1>8, <1>9
<1> QED BY <1>10, FieldNames DEF Facts

-------------------------------------------------------------------------------
(* The expansion.                                                            *)

LEMMA ConcatRegroups ==
    ASSUME NEW W, NEW a \in Seq(W), NEW b \in Seq(W), NEW c \in Seq(W), NEW d, d = b \o c
    PROVE  (a \o b) \o c = a \o d
BY ConcatAssociative

\* Where a step writes `words`, what is still to be read means what it meant.
LEMMA WritesOn ==
    ASSUME NEW done \in Seq(Words), NEW words \in Seq(Words), NEW then \in Seq(Words)
    PROVE  Norm(done \o words) \o then = Norm(done) \o (Norm(words) \o then)
<1>0. "uuid" \in Words
  BY DEF Words
<1>1. done \o words \in Seq(Words) /\ Norm(done \o words) = Norm(done) \o Norm(words)
  BY <1>0, NormConcat, ConcatProperties
<1>2. Norm(done) \in Seq(Words) /\ Norm(words) \in Seq(Words)
  BY <1>0, NormTyped
<1>3. (Norm(done) \o Norm(words)) \o then = Norm(done) \o (Norm(words) \o then)
  BY <1>2, ConcatRegroups
<1> QED BY <1>1, <1>3

\* The values of {{uuid}} that are written are of the first n, and each is there once.
FreshIn(written, n) ==
    /\ \A f \in ToSet(Fields) : \A i \in 1..Len(written[f]) : \A k \in 1..Len(Uuids) :
         written[f][i] = Uuids[k] => k <= n
    /\ \A f \in ToSet(Fields), g \in ToSet(Fields) :
         \A i \in 1..Len(written[f]), j \in 1..Len(written[g]) :
           Contains(Uuids, written[f][i]) /\ written[f][i] = written[g][j] => f = g /\ i = j

LEMMA FreshAppend ==
    ASSUME NEW written \in [ToSet(Fields) -> Seq(Words)], NEW n \in Nat, FreshIn(written, n),
           NEW f \in ToSet(Fields), NEW word \in Words, NEW words \in Seq(Words)
    PROVE  /\ Plain(words) => FreshIn([written EXCEPT ![f] = written[f] \o words], n)
           /\ n + 1 \in 1..Len(Uuids) /\ word = Uuids[n + 1]
                => FreshIn([written EXCEPT ![f] = written[f] \o <<word>>], n + 1)
<1> DEFINE F == ToSet(Fields)
           after(t) == [written EXCEPT ![f] = written[f] \o t]
<1>0. \A g \in F, h \in F : \A i \in 1..Len(written[g]), j \in 1..Len(written[h]) :
          Contains(Uuids, written[g][i]) /\ written[g][i] = written[h][j] => g = h /\ i = j
  BY DEF FreshIn
<1>1. ASSUME NEW t \in Seq(Words)
      PROVE  /\ \A g \in F : Len(written[g]) \in Nat /\ Len(after(t)[g]) \in Nat
             /\ \A g \in F \ {f} : after(t)[g] = written[g]
             /\ Len(after(t)[f]) = Len(written[f]) + Len(t) /\ Len(t) \in Nat
             /\ \A i \in 1..Len(after(t)[f]) :
                  IF i <= Len(written[f]) THEN after(t)[f][i] = written[f][i]
                  ELSE i - Len(written[f]) \in 1..Len(t) /\ after(t)[f][i] = t[i - Len(written[f])]
  <2>1. /\ after(t)[f] = written[f] \o t /\ \A g \in F \ {f} : after(t)[g] = written[g]
    OBVIOUS
  <2> DEFINE a == written[f]
             b == after(t)[f]
  <2>2. a \in Seq(Words) /\ b = a \o t
    BY <2>1
  <2>3. \A g \in F : Len(written[g]) \in Nat
    <3>1. ASSUME NEW g \in F PROVE Len(written[g]) \in Nat
      <4> DEFINE w == written[g]
      <4>1. w \in Seq(Words)
        OBVIOUS
      <4> HIDE DEF w
      <4>2. Len(w) \in Nat
        BY <4>1, LenProperties
      <4> QED BY <4>2 DEF w
    <3> QED BY <3>1
  <2> HIDE DEF a, b
  <2>4. /\ b \in Seq(Words) /\ Len(b) = Len(a) + Len(t)
        /\ \A i \in 1..(Len(a) + Len(t)) : b[i] = IF i <= Len(a) THEN a[i] ELSE t[i - Len(a)]
    BY <2>2, ConcatProperties
  <2>5. Len(a) \in Nat /\ Len(t) \in Nat
    BY <2>2, LenProperties
  <2>6. \A i \in 1..Len(b) : IF i <= Len(a) THEN b[i] = a[i]
                             ELSE i - Len(a) \in 1..Len(t) /\ b[i] = t[i - Len(a)]
    BY <2>4, <2>5
  <2>7. \A g \in F : Len(after(t)[g]) \in Nat
    <3>1. Len(b) \in Nat
      BY <2>4, <2>5
    <3> QED BY <2>1, <2>3, <3>1 DEF b
  <2> QED BY <2>1, <2>3, <2>4, <2>5, <2>6, <2>7 DEF a, b
<1>2. ASSUME Plain(words) PROVE FreshIn(after(words), n)
  <2> DEFINE later == after(words)
  <2>0. /\ \A g \in F : Len(written[g]) \in Nat /\ Len(later[g]) \in Nat
        /\ \A g \in F \ {f} : later[g] = written[g]
        /\ Len(later[f]) = Len(written[f]) + Len(words) /\ Len(words) \in Nat
        /\ \A i \in 1..Len(later[f]) :
             IF i <= Len(written[f]) THEN later[f][i] = written[f][i]
             ELSE i - Len(written[f]) \in 1..Len(words) /\ later[f][i] = words[i - Len(written[f])]
    BY <1>1
  <2> HIDE DEF later, F
  <2>1. ASSUME NEW g \in F, NEW i \in 1..Len(later[g]), Contains(Uuids, later[g][i])
        PROVE  i \in 1..Len(written[g]) /\ later[g][i] = written[g][i]
    <3>1. CASE g = f /\ i <= Len(written[f])
      BY <2>0, <3>1
    <3>2. CASE g = f /\ ~(i <= Len(written[f]))
      <4>1. later[f][i] = words[i - Len(written[f])] /\ i - Len(written[f]) \in 1..Len(words)
        BY <2>0, <3>2
      <4> QED BY <1>2, <2>1, <3>2, <4>1 DEF Plain
    <3>3. CASE g # f
      BY <2>0, <3>3
    <3> QED BY <3>1, <3>2, <3>3
  <2>2. ASSUME NEW g \in F, NEW i \in 1..Len(later[g]), NEW k \in 1..Len(Uuids), later[g][i] = Uuids[k]
        PROVE  k <= n
    <3>1. Contains(Uuids, later[g][i])
      BY <2>2 DEF Contains
    <3>2. i \in 1..Len(written[g]) /\ written[g][i] = Uuids[k]
      BY <2>1, <2>2, <3>1
    <3> QED BY <3>2 DEF FreshIn, F
  <2>3. ASSUME NEW g \in F, NEW h \in F, NEW i \in 1..Len(later[g]), NEW j \in 1..Len(later[h]),
               Contains(Uuids, later[g][i]), later[g][i] = later[h][j]
        PROVE  g = h /\ i = j
    <3>1. i \in 1..Len(written[g]) /\ later[g][i] = written[g][i]
      BY <2>1, <2>3
    <3>2. j \in 1..Len(written[h]) /\ later[h][j] = written[h][j]
      BY <2>1, <2>3
    <3>3. Contains(Uuids, written[g][i]) /\ written[g][i] = written[h][j]
      BY <2>3, <3>1, <3>2
    <3> QED BY <1>0, <3>1, <3>2, <3>3
  <2>4. FreshIn(later, n)
    BY <2>2, <2>3 DEF FreshIn, F
  <2> QED BY <2>4 DEF later
<1>3. ASSUME n + 1 \in 1..Len(Uuids), word = Uuids[n + 1] PROVE FreshIn(after(<<word>>), n + 1)
  <2> DEFINE later == after(<<word>>)
  <2>0. /\ \A g \in F : Len(written[g]) \in Nat /\ Len(later[g]) \in Nat
        /\ \A g \in F \ {f} : later[g] = written[g]
        /\ Len(later[f]) = Len(written[f]) + 1
        /\ \A i \in 1..Len(later[f]) :
             IF i <= Len(written[f]) THEN later[f][i] = written[f][i]
             ELSE i = Len(written[f]) + 1 /\ later[f][i] = word
    <3> DEFINE t == <<word>>
    <3>1. t \in Seq(Words) /\ Len(t) = 1 /\ t[1] = word
      OBVIOUS
    <3> HIDE DEF t
    <3>2. /\ \A g \in F : Len(written[g]) \in Nat /\ Len(after(t)[g]) \in Nat
          /\ \A g \in F \ {f} : after(t)[g] = written[g]
          /\ Len(after(t)[f]) = Len(written[f]) + Len(t) /\ Len(t) \in Nat
          /\ \A i \in 1..Len(after(t)[f]) :
               IF i <= Len(written[f]) THEN after(t)[f][i] = written[f][i]
               ELSE i - Len(written[f]) \in 1..Len(t) /\ after(t)[f][i] = t[i - Len(written[f])]
      BY <1>1, <3>1
    <3>3. later = after(t)
      BY DEF t
    <3> HIDE DEF later, after, F
    <3>4. f \in F
      BY DEF F
    <3>5. ASSUME NEW i \in 1..Len(later[f]), ~(i <= Len(written[f]))
          PROVE  i = Len(written[f]) + 1 /\ later[f][i] = word
      <4>1. i - Len(written[f]) \in 1..1 /\ later[f][i] = t[i - Len(written[f])]
        BY <3>1, <3>2, <3>3, <3>5
      <4>2. i - Len(written[f]) = 1 /\ Len(written[f]) \in Nat /\ i \in Int
        BY <3>2, <3>4, <4>1
      <4> QED BY <3>1, <4>1, <4>2
    <3> QED BY <3>1, <3>2, <3>3, <3>5
  <2> HIDE DEF later, F
  <2>1. ASSUME NEW g \in F, NEW i \in 1..Len(later[g])
        PROVE  \/ i \in 1..Len(written[g]) /\ later[g][i] = written[g][i]
               \/ g = f /\ i = Len(written[f]) + 1 /\ later[g][i] = word
    <3>1. CASE g = f /\ i <= Len(written[f])
      BY <2>0, <3>1
    <3>2. CASE g = f /\ ~(i <= Len(written[f]))
      BY <2>0, <3>2
    <3>3. CASE g # f
      BY <2>0, <3>3
    <3> QED BY <3>1, <3>2, <3>3
  <2>2. \A k \in 1..Len(Uuids) : word = Uuids[k] => k = n + 1
    <3>1. DOMAIN Uuids = 1..Len(Uuids)
      BY FileAssumption, LenProperties
    <3> QED BY <1>3, <3>1, FileAssumption DEF IsInjective
  <2>3. ASSUME NEW g \in F, NEW i \in 1..Len(written[g]) PROVE written[g][i] # word
    <3> SUFFICES ASSUME written[g][i] = word PROVE FALSE
      OBVIOUS
    <3>1. n + 1 <= n
      BY <1>3 DEF FreshIn, F
    <3> QED BY <3>1
  <2>4. ASSUME NEW g \in F, NEW i \in 1..Len(later[g]), NEW k \in 1..Len(Uuids), later[g][i] = Uuids[k]
        PROVE  k <= n + 1
    <3>1. CASE i \in 1..Len(written[g]) /\ later[g][i] = written[g][i]
      <4>1. k <= n
        BY <2>4, <3>1 DEF FreshIn, F
      <4> QED BY <4>1
    <3>2. CASE later[g][i] = word
      <4>1. k = n + 1
        BY <2>2, <2>4, <3>2
      <4> QED BY <4>1
    <3> QED BY <2>1, <3>1, <3>2
  <2>5. ASSUME NEW g \in F, NEW h \in F, NEW i \in 1..Len(later[g]), NEW j \in 1..Len(later[h]),
               Contains(Uuids, later[g][i]), later[g][i] = later[h][j]
        PROVE  g = h /\ i = j
    <3>1. CASE later[g][i] = word
      <4>1. g = f /\ i = Len(written[f]) + 1
        BY <2>1, <2>3, <3>1
      <4>2. h = f /\ j = Len(written[f]) + 1
        BY <2>1, <2>3, <2>5, <3>1
      <4> QED BY <4>1, <4>2
    <3>2. CASE later[g][i] # word
      <4>1. /\ i \in 1..Len(written[g]) /\ later[g][i] = written[g][i]
            /\ j \in 1..Len(written[h]) /\ later[h][j] = written[h][j]
        BY <2>1, <2>5, <3>2
      <4>2. Contains(Uuids, written[g][i]) /\ written[g][i] = written[h][j]
        BY <2>5, <4>1
      <4> QED BY <1>0, <4>1, <4>2
    <3> QED BY <3>1, <3>2
  <2>6. FreshIn(later, n + 1)
    BY <2>4, <2>5 DEF FreshIn, F
  <2> QED BY <2>6 DEF later
<1> QED BY <1>2, <1>3

\* Each {{uuid}} takes a word of the file at least, so there is a value for the next.
Size(i, fields, f) == IF Contains(fields, f) THEN 0 ELSE Len(i.file[f])
Behind(i, fields) ==
    Size(i, fields, "method") + Size(i, fields, "url") + Size(i, fields, "value") + Size(i, fields, "body")

\* Fields as they are with the one that is being written.
Written == IF todo = <<>> THEN request ELSE [request EXCEPT ![todo[1]] = out]

\* What is written of the field at hand and what the rest of its template means are
\* together what the template means.
ExpandInv ==
    /\ phase \in {"idle", "prepare", "expand", "send", "evaluate", "done"}
    /\ todo \in FieldTails /\ at \in Nat /\ uuids \in Nat /\ out \in Seq(Words)
    /\ request \in [ToSet(Fields) -> Seq(Words)]
    /\ phase \in {"idle", "prepare"} => todo = Fields /\ out = <<>> /\ at = 1 /\ uuids = 0
    /\ phase \in {"send", "evaluate"} => todo = <<>>
    /\ phase # "idle" => input \in Inputs
    /\ phase # "done" => verdict # "error"
    /\ \A f \in ToSet(Fields) :
         IF Contains(todo, f) THEN request[f] = <<>>
         ELSE Norm(request[f]) = MeaningOf(input, f)[1]
    /\ phase = "expand" /\ todo # <<>> =>
         /\ at \in 1..(Len(Text) + 1)
         /\ Norm(out) \o MeaningOf(input, todo[1])[at] = MeaningOf(input, todo[1])[1]
         /\ uuids <= Behind(input, todo) + at - 1
    /\ verdict = "error" /\ todo # <<>> /\ todo # Fields =>
         Contains(MeaningOf(input, todo[1])[1], NotGiven)
    /\ FreshIn(Written, uuids)

LEMMA ExpandInit == FileStart => ExpandInv
<1> SUFFICES ASSUME FileStart PROVE ExpandInv
  OBVIOUS
<1>1. /\ (phase = "prepare" /\ input \in Inputs) \/ phase = "idle"
      /\ todo = Fields /\ at = 1 /\ out = <<>> /\ uuids = 0 /\ verdict = "none"
      /\ request = [f \in ToSet(Fields) |-> <<>>]
  BY DEF FileStart, FileInit, FileOf
<1>2. Fields \in FieldTails /\ Fields # <<>> /\ <<>> \in Seq(Words)
  BY DEF FieldTails, Fields
<1>3. \A f \in ToSet(Fields) : Contains(Fields, f)
  BY FieldNames DEF Contains, Fields
<1>4. FreshIn(Written, uuids)
  <2>1. \A f \in ToSet(Fields) : Written[f] = <<>>
    BY <1>1 DEF Written
  <2> HIDE DEF Written
  <2>2. \A f \in ToSet(Fields) : Len(Written[f]) = 0
    BY <2>1
  <2> QED BY <2>2 DEF FreshIn
<1>5. request \in [ToSet(Fields) -> Seq(Words)]
  BY <1>1, <1>2
<1> QED BY <1>1, <1>2, <1>3, <1>4, <1>5 DEF ExpandInv

\* A step that leaves the expansion alone.
LEMMA ExpandAlone ==
    ASSUME ExpandInv, UNCHANGED <<input, todo, at, out, uuids, request>>,
           phase' \in {"idle", "prepare", "expand", "send", "evaluate", "done"},
           phase' = phase \/ (phase' \notin {"idle", "prepare", "expand"} /\ phase # "idle"),
           phase' \in {"send", "evaluate"} => todo = <<>>,
           phase' # "done" => verdict' # "error",
           verdict' = "error" /\ todo # <<>> /\ todo # Fields => Contains(MeaningOf(input, todo[1])[1], NotGiven)
    PROVE  ExpandInv'
<1>1. UNCHANGED <<Text, Written>>
  BY DEF Text, Written, file
<1>2. FreshIn(Written, uuids)' <=> FreshIn(Written, uuids)
  BY <1>1 DEF FreshIn
<1> HIDE DEF Text, Written
<1>3. /\ phase' \in {"idle", "prepare", "expand", "send", "evaluate", "done"}
      /\ phase' \in {"idle", "prepare"} => phase' = phase
      /\ phase' # "idle" => phase # "idle"
      /\ phase' = "expand" => phase = "expand"
  OBVIOUS
<1>4. UNCHANGED <<input, todo, at, out, uuids, request>>
  OBVIOUS
<1> QED BY <1>1, <1>2, <1>3, <1>4 DEF ExpandInv

\* What an iteration of the loop writes is what the words it reads mean.
LEMMA EmitKeeps ==
    ASSUME ExpandInv, phase = "expand", todo # <<>>, NEW words \in Seq(Words),
           NEW upTo \in (at + 1)..(Len(Text) + 1), Emit(words, upTo),
           MeaningOf(input, todo[1])[at] = Norm(words) \o MeaningOf(input, todo[1])[upTo],
           \/ Plain(words) /\ uuids' = uuids
           \/ uuids + 1 \in 1..Len(Uuids) /\ words = <<Uuids[uuids + 1]>> /\ uuids' = uuids + 1
    PROVE  ExpandInv'
<1> DEFINE f == todo[1]
           M == MeaningOf(input, f)
<1>1. /\ out' = out \o words /\ at' = upTo /\ UNCHANGED <<input, phase, todo, request, verdict>>
      /\ UNCHANGED Text
  BY DEF Emit, Text, file
<1>2. /\ at \in 1..(Len(Text) + 1) /\ Norm(out) \o M[at] = M[1] /\ uuids \in Nat /\ at \in Nat
      /\ uuids <= Behind(input, todo) + at - 1
  BY DEF ExpandInv
<1>3. input \in Inputs /\ todo \in FieldTails /\ out \in Seq(Words) /\ request \in [ToSet(Fields) -> Seq(Words)]
  BY DEF ExpandInv
<1>4. f \in ToSet(Fields) /\ Contains(todo, f)
  BY <1>3, Pending
<1>5. Text = input.file[f] /\ Len(Text) \in Nat /\ M \in [1..(Len(Text) + 1) -> Seq(Words)]
  <2>1. Reads(M, ScopeIn(input), input.file[f], Words) /\ input.file[f] \in Seq(Words)
    BY <1>3, <1>4, FieldReads
  <2>2. Text = input.file[f]
    BY DEF Text, file
  <2> HIDE DEF Text, M
  <2> QED BY <2>1, <2>2, LenProperties DEF Reads
<1>6. out' \in Seq(Words) /\ Norm(out') \o M[at'] = M[1]
  <2> DEFINE now == M[at]
             then == M[upTo]
  <2>1. now = Norm(words) \o then
    OBVIOUS
  <2>2. then \in Seq(Words)
    <3>1. upTo \in 1..(Len(Text) + 1)
      BY <1>2, <1>5
    <3> HIDE DEF M, Text
    <3> QED BY <1>5, <3>1
  <2> HIDE DEF now, then
  <2>3. Norm(out \o words) \o then = Norm(out) \o now
    BY <1>3, <2>1, <2>2, WritesOn
  <2>4. out \o words \in Seq(Words)
    BY <1>3, ConcatProperties
  <2> QED BY <1>1, <1>2, <2>3, <2>4 DEF now, then
<1>7. at' \in 1..(Len(Text) + 1) /\ at' \in Nat /\ at' >= at + 1
  <2> HIDE DEF Text
  <2> QED BY <1>1, <1>2, <1>5
<1>8. uuids' \in Nat /\ uuids' <= uuids + 1
  BY <1>2
<1>9. Behind(input, todo) \in Nat
  <2>1. ASSUME NEW g \in ToSet(Fields) PROVE Size(input, todo, g) \in Nat
    <3>1. input.file[g] \in Seq(Words)
      BY <1>3, FieldReads
    <3>2. Len(input.file[g]) \in Nat
      BY <3>1, LenProperties
    <3> QED BY <3>2 DEF Size
  <2> QED BY <2>1, FieldNames DEF Behind
<1>10. uuids' <= Behind(input, todo) + at' - 1
  <2> DEFINE x == Behind(input, todo)
  <2>1. x \in Nat /\ uuids <= x + at - 1
    BY <1>2, <1>9
  <2> HIDE DEF x
  <2> DEFINE u == uuids'
             upTo1 == at'
  <2>2. /\ x \in Nat /\ uuids \in Nat /\ at \in Nat /\ u \in Nat /\ upTo1 \in Nat
        /\ uuids <= x + at - 1 /\ u <= uuids + 1 /\ at + 1 <= upTo1
    BY <1>2, <1>7, <1>8, <2>1
  <2> HIDE DEF u, upTo1
  <2>3. u <= x + upTo1 - 1
    BY <2>2
  <2> QED BY <2>3 DEF x, u, upTo1
<1>11. FreshIn(Written, uuids)'
  <2> DEFINE w == Written
  <2>1. w \in [ToSet(Fields) -> Seq(Words)] /\ w[f] = out
    BY <1>3, <1>4 DEF Written
  <2>2. Written' = [w EXCEPT ![f] = w[f] \o words]
    BY <1>1, <1>3, <1>4 DEF Written
  <2>3. FreshIn(w, uuids)
    BY DEF ExpandInv
  <2> HIDE DEF w, f
  <2>4. FreshIn([w EXCEPT ![f] = w[f] \o words], uuids')
    <3>1. CASE Plain(words) /\ uuids' = uuids
      <4>0. "uuid" \in Words
        BY DEF Words
      <4> QED BY <1>2, <1>4, <2>1, <2>3, <3>1, <4>0, FreshAppend
    <3>2. CASE uuids + 1 \in 1..Len(Uuids) /\ words = <<Uuids[uuids + 1]>> /\ uuids' = uuids + 1
      <4> DEFINE word == Uuids[uuids + 1]
      <4>1. word \in Words
        BY <3>2, FileAssumption, ElementOfSeq DEF Words
      <4>2. words = <<word>> /\ uuids + 1 \in 1..Len(Uuids) /\ word = Uuids[uuids + 1]
        BY <3>2
      <4> HIDE DEF word
      <4>3. FreshIn([w EXCEPT ![f] = w[f] \o <<word>>], uuids + 1)
        BY <1>2, <1>4, <2>1, <2>3, <4>1, <4>2, FreshAppend
      <4> QED BY <3>2, <4>2, <4>3
    <3> QED BY <3>1, <3>2
  <2>5. FreshIn(Written', uuids')
    BY <2>2, <2>4
  <2>6. FreshIn(Written, uuids)' <=> FreshIn(Written', uuids')
    BY DEF FreshIn
  <2> QED BY <2>5, <2>6
<1> HIDE DEF M, Written, Text
<1>12. MeaningOf(input, todo[1])' = M /\ Behind(input, todo)' = Behind(input, todo)
  BY <1>1 DEF M
<1>13. phase' = "expand" /\ verdict' # "error" /\ input' \in Inputs /\ todo' \in FieldTails
  BY <1>1, <1>3 DEF ExpandInv
<1>14. \A g \in ToSet(Fields) :
         IF Contains(todo', g) THEN request'[g] = <<>>
         ELSE Norm(request'[g]) = MeaningOf(input', g)[1]
  BY <1>1 DEF ExpandInv
<1>15. request' \in [ToSet(Fields) -> Seq(Words)]
  BY <1>1, <1>3
<1> QED BY <1>1, <1>6, <1>7, <1>8, <1>10, <1>11, <1>12, <1>13, <1>14, <1>15 DEF ExpandInv, M

LEMMA PrefixIs ==
    ASSUME NEW V, NEW W, NEW s \in Seq(V), NEW t \in Seq(W)
    PROVE  IsPrefix(s, t) <=> Len(s) <= Len(t) /\ \A i \in 1..Len(s) : s[i] = t[i]
<1>0. Len(s) \in Nat /\ Len(t) \in Nat
  BY LenProperties
<1>1. CASE Len(s) <= Len(t)
  <2> DEFINE a == SubSeq(s, 1, Len(s))
             b == SubSeq(t, 1, Len(s))
  <2>1. 1 \in 1..(Len(s) + 1) /\ Len(s) \in 0..Len(s) /\ 1 \in 1..(Len(t) + 1) /\ Len(s) \in 0..Len(t)
    BY <1>0, <1>1
  <2>2. a \in Seq(V) /\ Len(a) = Len(s) /\ \A i \in 1..Len(s) : a[i] = s[i]
    <3>1. /\ SubSeq(s, 1, Len(s)) \in Seq(V)
          /\ Len(SubSeq(s, 1, Len(s))) = IF 1 <= Len(s) THEN Len(s) - 1 + 1 ELSE 0
          /\ \A k \in 1..(Len(s) - 1 + 1) : SubSeq(s, 1, Len(s))[k] = s[1 + k - 1]
      BY <2>1, PartTyped
    <3> HIDE DEF a
    <3> QED BY <1>0, <3>1 DEF a
  <2>3. b \in Seq(W) /\ Len(b) = Len(s) /\ \A i \in 1..Len(s) : b[i] = t[i]
    <3>1. /\ SubSeq(t, 1, Len(s)) \in Seq(W)
          /\ Len(SubSeq(t, 1, Len(s))) = IF 1 <= Len(s) THEN Len(s) - 1 + 1 ELSE 0
          /\ \A k \in 1..(Len(s) - 1 + 1) : SubSeq(t, 1, Len(s))[k] = t[1 + k - 1]
      BY <2>1, PartTyped
    <3> HIDE DEF b
    <3> QED BY <1>0, <3>1 DEF b
  <2> HIDE DEF a, b
  <2>4. a = b <=> \A i \in 1..Len(s) : s[i] = t[i]
    <3>1. ASSUME \A i \in 1..Len(s) : s[i] = t[i] PROVE a = b
      BY <2>2, <2>3, <3>1, SeqEqual
    <3>2. ASSUME a = b PROVE \A i \in 1..Len(s) : s[i] = t[i]
      BY <2>2, <2>3, <3>2
    <3> QED BY <3>1, <3>2
  <2> QED BY <1>1, <2>4 DEF IsPrefix, a, b
<1>2. CASE ~(Len(s) <= Len(t))
  BY <1>2 DEF IsPrefix
<1> QED BY <1>1, <1>2

\* What begins at a place of a text.
LEMMA BeginsAt ==
    ASSUME NEW W, NEW text \in Seq(W), NEW a \in 1..(Len(text) + 1), NEW x, NEW y, NEW z
    PROVE  LET rest == SubSeq(text, a, Len(text)) IN
           /\ rest # <<>> <=> a <= Len(text)
           /\ IsPrefix(<<x>>, rest) <=> a <= Len(text) /\ text[a] = x
           /\ IsPrefix(<<x, y>>, rest) <=> a + 1 <= Len(text) /\ text[a] = x /\ text[a + 1] = y
           /\ IsPrefix(<<x, y, z>>, rest)
                <=> a + 2 <= Len(text) /\ text[a] = x /\ text[a + 1] = y /\ text[a + 2] = z
<1> DEFINE rest == SubSeq(text, a, Len(text))
           l == Len(text)
           V == {x, y, z}
<1>0. l \in Nat /\ a \in Int /\ 1 <= a /\ a <= l + 1
  <2>1. l \in Nat
    BY LenProperties
  <2> QED BY <2>1
<1>1. rest \in Seq(W) /\ Len(rest) = l - a + 1 /\ \A k \in 1..(l - a + 1) : rest[k] = text[a + k - 1]
  <2>1. l \in 0..Len(text)
    BY <1>0
  <2>2. /\ SubSeq(text, a, l) \in Seq(W)
        /\ Len(SubSeq(text, a, l)) = IF a <= l THEN l - a + 1 ELSE 0
        /\ \A k \in 1..(l - a + 1) : SubSeq(text, a, l)[k] = text[a + k - 1]
    BY <2>1, PartTyped
  <2> HIDE DEF l
  <2> QED BY <1>0, <2>2 DEF l
<1> HIDE DEF rest, l
<1>2. rest # <<>> <=> a <= l
  <2>1. rest = <<>> <=> Len(rest) = 0
    BY <1>1, EmptySeq
  <2> QED BY <1>0, <1>1, <2>1
<1>3. ASSUME NEW s \in Seq(V)
      PROVE  IsPrefix(s, rest) <=> Len(s) <= l - a + 1 /\ \A i \in 1..Len(s) : s[i] = rest[i]
  <2> HIDE DEF V
  <2> QED BY <1>1, PrefixIs
<1>4. IsPrefix(<<x>>, rest) <=> a <= l /\ text[a] = x
  <2> DEFINE s == <<x>>
  <2>1. s \in Seq(V) /\ Len(s) = 1 /\ s[1] = x
    OBVIOUS
  <2> HIDE DEF s, V
  <2>2. IsPrefix(s, rest) <=> 1 <= l - a + 1 /\ \A i \in 1..1 : s[i] = rest[i]
    BY <1>3, <2>1
  <2>3. a <= l => rest[1] = text[a]
    BY <1>0, <1>1
  <2>4. IsPrefix(s, rest) <=> a <= l /\ text[a] = x
    BY <1>0, <2>1, <2>2, <2>3
  <2> QED BY <2>4 DEF s
<1>5. IsPrefix(<<x, y>>, rest) <=> a + 1 <= l /\ text[a] = x /\ text[a + 1] = y
  <2> DEFINE s == <<x, y>>
  <2>1. s \in Seq(V) /\ Len(s) = 2 /\ s[1] = x /\ s[2] = y
    OBVIOUS
  <2> HIDE DEF s, V
  <2>2. IsPrefix(s, rest) <=> 2 <= l - a + 1 /\ \A i \in 1..2 : s[i] = rest[i]
    BY <1>3, <2>1
  <2>3. a + 1 <= l => rest[1] = text[a] /\ rest[2] = text[a + 1]
    BY <1>0, <1>1
  <2>4. IsPrefix(s, rest) <=> a + 1 <= l /\ text[a] = x /\ text[a + 1] = y
    BY <1>0, <2>1, <2>2, <2>3
  <2> QED BY <2>4 DEF s
<1>6. IsPrefix(<<x, y, z>>, rest)
        <=> a + 2 <= l /\ text[a] = x /\ text[a + 1] = y /\ text[a + 2] = z
  <2> DEFINE s == <<x, y, z>>
  <2>1. s \in Seq(V) /\ Len(s) = 3 /\ s[1] = x /\ s[2] = y /\ s[3] = z
    OBVIOUS
  <2> HIDE DEF s, V
  <2>2. IsPrefix(s, rest) <=> 3 <= l - a + 1 /\ \A i \in 1..3 : s[i] = rest[i]
    BY <1>3, <2>1
  <2>3. a + 2 <= l => rest[1] = text[a] /\ rest[2] = text[a + 1] /\ rest[3] = text[a + 2]
    BY <1>0, <1>1
  <2>4. IsPrefix(s, rest) <=> a + 2 <= l /\ text[a] = x /\ text[a + 1] = y /\ text[a + 2] = z
    BY <1>0, <2>1, <2>2, <2>3
  <2> QED BY <2>4 DEF s
<1> QED BY <1>2, <1>4, <1>5, <1>6 DEF rest, l

\* The iteration of the loop, at a place of a field.
Expanding ==
    /\ phase = "expand" /\ todo # <<>>
    /\ input \in Inputs /\ todo[1] \in ToSet(Fields)
    /\ Reads(MeaningOf(input, todo[1]), ScopeIn(input), Text, Words)
    /\ Text \in Seq(Words) /\ Plain(Text)
    /\ at \in 1..(Len(Text) + 1) /\ Len(Text) \in Nat

LEMMA StartsExpanding == ASSUME ExpandInv, NEW what, Starts(what) PROVE Expanding
<1>1. phase = "expand" /\ todo # <<>>
  BY DEF Starts
<1>2. input \in Inputs /\ todo \in FieldTails /\ at \in 1..(Len(Text) + 1)
  BY <1>1 DEF ExpandInv
<1>3. todo[1] \in ToSet(Fields)
  BY <1>1, <1>2, Pending
<1>4. /\ Reads(MeaningOf(input, todo[1]), ScopeIn(input), Text, Words)
      /\ Text \in Seq(Words) /\ Plain(Text)
  BY <1>2, <1>3, FieldReads DEF Text, file
<1> HIDE DEF Text
<1> QED BY <1>1, <1>2, <1>3, <1>4, LenProperties DEF Expanding

\* A word that stands for itself.
LEMMA WordsPlain ==
    ASSUME NEW word \in Words, ~Contains(Uuids, word)
    PROVE  <<word>> \in Seq(Words) /\ Plain(<<word>>) /\ Norm(<<word>>) = <<word>>
<1> DEFINE t == <<word>>
<1>1. t \in Seq(Words) /\ Len(t) = 1 /\ t[1] = word /\ "uuid" \in Words
  BY DEF Words
<1> HIDE DEF t
<1>2. Plain(t)
  BY <1>1 DEF Plain
<1>3. Norm(t) = t
  BY <1>1, <1>2, NormPlain
<1> QED BY <1>1, <1>2, <1>3 DEF t

LEMMA EscapedOpenerKeeps == ExpandInv /\ EscapedOpener => ExpandInv'
<1> SUFFICES ASSUME ExpandInv, EscapedOpener PROVE ExpandInv'
  OBVIOUS
<1> DEFINE M == MeaningOf(input, todo[1])
           words == <<Opener>>
<1>1. Starts(<<Backslash, Opener>>) /\ Emit(words, at + 2) /\ uuids' = uuids
  BY DEF EscapedOpener
<1>2. Expanding
  BY <1>1, StartsExpanding
<1>3. /\ phase = "expand" /\ todo # <<>> /\ Reads(M, ScopeIn(input), Text, Words)
      /\ Text \in Seq(Words) /\ Plain(Text) /\ at \in 1..(Len(Text) + 1) /\ Len(Text) \in Nat
  BY <1>2 DEF Expanding
<1>4. at + 1 <= Len(Text) /\ Text[at] = Backslash /\ Text[at + 1] = Opener
  BY <1>1, <1>3, BeginsAt DEF Starts, Rest
<1> HIDE DEF M, words, Text
<1>5. at \in 1..Len(Text) /\ at + 1 \in 1..Len(Text) /\ at + 2 \in (at + 1)..(Len(Text) + 1)
  BY <1>3, <1>4
<1>6. M[at] = <<Opener>> \o M[at + 2]
  BY <1>3, <1>4, <1>5, MeansEscape
<1>7. words \in Seq(Words) /\ Plain(words) /\ Norm(words) = words
  <2>1. ~Contains(Uuids, Opener) /\ Opener \in Words
    BY <1>3, <1>4, <1>5 DEF Plain, Words
  <2> QED BY <2>1, WordsPlain DEF words
<1>8. M[at] = Norm(words) \o M[at + 2]
  BY <1>6, <1>7 DEF words
<1> QED BY <1>1, <1>3, <1>5, <1>7, <1>8, EmitKeeps DEF M

LEMMA EscapedBackslashKeeps == ExpandInv /\ EscapedBackslash => ExpandInv'
<1> SUFFICES ASSUME ExpandInv, EscapedBackslash PROVE ExpandInv'
  OBVIOUS
<1> DEFINE M == MeaningOf(input, todo[1])
           words == <<Backslash>>
<1>1. Starts(<<Backslash, Backslash, Opener>>) /\ Emit(words, at + 2) /\ uuids' = uuids
  BY DEF EscapedBackslash
<1>2. Expanding
  BY <1>1, StartsExpanding
<1>3. /\ phase = "expand" /\ todo # <<>> /\ Reads(M, ScopeIn(input), Text, Words)
      /\ Text \in Seq(Words) /\ Plain(Text) /\ at \in 1..(Len(Text) + 1) /\ Len(Text) \in Nat
  BY <1>2 DEF Expanding
<1>4. at + 2 <= Len(Text) /\ Text[at] = Backslash /\ Text[at + 1] = Backslash /\ Text[at + 2] = Opener
  BY <1>1, <1>3, BeginsAt DEF Starts, Rest
<1> HIDE DEF M, words, Text
<1>5. at \in 1..Len(Text) /\ at + 2 \in 1..Len(Text) /\ at + 2 \in (at + 1)..(Len(Text) + 1)
  BY <1>3, <1>4
<1>6. M[at] = <<Backslash>> \o M[at + 2]
  BY <1>3, <1>4, <1>5, MeansBackslash
<1>7. words \in Seq(Words) /\ Plain(words) /\ Norm(words) = words
  <2>1. ~Contains(Uuids, Backslash) /\ Backslash \in Words
    BY <1>3, <1>4, <1>5 DEF Plain, Words
  <2> QED BY <2>1, WordsPlain DEF words
<1>8. M[at] = Norm(words) \o M[at + 2]
  BY <1>6, <1>7 DEF words
<1> QED BY <1>1, <1>3, <1>5, <1>7, <1>8, EmitKeeps DEF M

LEMMA LiteralEndIs ==
    ASSUME Expanding, at <= Len(Text)
    PROVE  /\ LiteralEnd \in (at + 1)..(Len(Text) + 1)
           /\ \A j \in (at + 1)..(LiteralEnd - 1) : Text[j] \notin {Opener, Backslash}
<1> DEFINE Stop(i) == i > Len(Text) \/ Text[i] \in {Opener, Backslash}
           S == {i \in (at + 1)..(Len(Text) + 1) : Stop(i)}
           Stops(i) == Stop(i) /\ \A j \in (at + 1)..(i - 1) : Text[j] \notin {Opener, Backslash}
<1>1. at \in Nat /\ Len(Text) \in Nat
  BY DEF Expanding
<1>2. Len(Text) + 1 \in S /\ S \subseteq Nat
  BY <1>1
<1>3. PICK i \in S : \A j \in S : i <= j
  <2> HIDE DEF S
  <2> QED BY <1>2, SmallestNat
<1>4. Stops(i)
  <2>1. ASSUME NEW j \in (at + 1)..(i - 1), Text[j] \in {Opener, Backslash} PROVE FALSE
    <3>1. j \in S /\ j < i
      BY <1>1, <2>1
    <3>2. i <= j /\ i \in Int /\ j \in Int
      BY <1>3, <3>1
    <3> QED BY <3>1, <3>2
  <2> QED BY <2>1
<1>5. LiteralEnd = CHOOSE k \in (at + 1)..(Len(Text) + 1) : Stops(k)
  BY DEF LiteralEnd
<1>6. i \in (at + 1)..(Len(Text) + 1)
  OBVIOUS
<1> DEFINE D == (at + 1)..(Len(Text) + 1)
<1>7. LiteralEnd \in D /\ Stops(LiteralEnd)
  <2>1. \E k \in D : Stops(k)
    BY <1>4, <1>6
  <2>2. LiteralEnd = CHOOSE k \in D : Stops(k)
    BY <1>5
  <2> HIDE DEF D, Stops
  <2> QED BY <2>1, <2>2
<1> HIDE DEF Text
<1> QED BY <1>7

LEMMA LiteralKeeps == ExpandInv /\ Literal => ExpandInv'
<1> SUFFICES ASSUME ExpandInv, Literal PROVE ExpandInv'
  OBVIOUS
<1> DEFINE M == MeaningOf(input, todo[1])
           e == LiteralEnd
           words == SubSeq(Text, at, e - 1)
<1>1. /\ Starts(<<>>) /\ Rest # <<>> /\ Emit(words, e) /\ uuids' = uuids
      /\ ~Starts(<<Opener>>) /\ ~Starts(<<Backslash, Opener>>) /\ ~Starts(<<Backslash, Backslash, Opener>>)
  BY DEF Literal
<1>2. Expanding
  BY <1>1, StartsExpanding
<1>3. /\ phase = "expand" /\ todo # <<>> /\ Reads(M, ScopeIn(input), Text, Words)
      /\ Text \in Seq(Words) /\ Plain(Text) /\ at \in 1..(Len(Text) + 1) /\ Len(Text) \in Nat
  BY <1>2 DEF Expanding
<1>4. at <= Len(Text) /\ ~SpecialAt(Text, at)
  <2>1. /\ ~IsPrefix(<<Opener>>, Rest) /\ ~IsPrefix(<<Backslash, Opener>>, Rest)
        /\ ~IsPrefix(<<Backslash, Backslash, Opener>>, Rest)
    BY <1>1, <1>3 DEF Starts
  <2>2. /\ Rest # <<>> <=> at <= Len(Text)
        /\ IsPrefix(<<Opener>>, Rest) <=> at <= Len(Text) /\ Text[at] = Opener
    BY <1>3, BeginsAt DEF Rest
  <2>3. IsPrefix(<<Backslash, Opener>>, Rest)
          <=> at + 1 <= Len(Text) /\ Text[at] = Backslash /\ Text[at + 1] = Opener
    BY <1>3, BeginsAt DEF Rest
  <2>4. IsPrefix(<<Backslash, Backslash, Opener>>, Rest)
          <=> at + 2 <= Len(Text) /\ Text[at] = Backslash /\ Text[at + 1] = Backslash /\ Text[at + 2] = Opener
    BY <1>3, BeginsAt DEF Rest
  <2> HIDE DEF Text
  <2> QED BY <1>1, <2>1, <2>2, <2>3, <2>4 DEF SpecialAt
<1>5. /\ e \in (at + 1)..(Len(Text) + 1)
      /\ \A j \in (at + 1)..(e - 1) : Text[j] \notin {Opener, Backslash}
  BY <1>2, <1>4, LiteralEndIs
<1> HIDE DEF M, Text, e
<1>6. at \in 1..Len(Text)
  BY <1>3, <1>4
<1>7. M[at] = words \o M[e]
  BY <1>3, <1>4, <1>5, <1>6, MeansLiterals
<1>8. words \in Seq(Words) /\ Plain(words)
  <2>1. at \in 1..(Len(Text) + 1) /\ e - 1 \in 0..Len(Text) /\ at <= e - 1
    BY <1>3, <1>5, <1>6
  <2>2. /\ words \in Seq(Words) /\ Len(words) = IF at <= e - 1 THEN (e - 1) - at + 1 ELSE 0
        /\ \A k \in 1..((e - 1) - at + 1) : words[k] = Text[at + k - 1]
    BY <1>3, <2>1, PartTyped
  <2> HIDE DEF words
  <2>3. ASSUME NEW k \in 1..Len(words) PROVE ~Contains(Uuids, words[k])
    <3>1. k \in 1..((e - 1) - at + 1) /\ at + k - 1 \in 1..Len(Text)
      BY <1>3, <1>5, <1>6, <2>1, <2>2
    <3> QED BY <1>3, <2>2, <3>1 DEF Plain
  <2> QED BY <2>2, <2>3 DEF Plain
<1>9. Norm(words) = words
  <2>1. "uuid" \in Words
    BY DEF Words
  <2> HIDE DEF words
  <2> QED BY <1>8, <2>1, NormPlain
<1> HIDE DEF words
<1>10. M[at] = Norm(words) \o M[e]
  BY <1>7, <1>9
<1> QED BY <1>1, <1>3, <1>5, <1>8, <1>10, EmitKeeps DEF M

\* A template that ends in a word without a meaning has none.
LEMMA NoMeaning ==
    ASSUME NEW a \in Seq(Words), NEW b \in Seq(Words), Contains(b, NotGiven)
    PROVE  Contains(a \o b, NotGiven)
<1>1. PICK i \in 1..Len(b) : b[i] = NotGiven
  BY DEF Contains
<1>2. Len(a) \in Nat /\ Len(b) \in Nat
  BY LenProperties
<1>3. /\ Len(a \o b) = Len(a) + Len(b)
      /\ \A k \in 1..(Len(a) + Len(b)) : (a \o b)[k] = IF k <= Len(a) THEN a[k] ELSE b[k - Len(a)]
  BY ConcatProperties
<1> DEFINE k == Len(a) + i
<1>4. k \in 1..(Len(a) + Len(b)) /\ ~(k <= Len(a)) /\ k - Len(a) = i
  BY <1>2
<1>5. (a \o b)[k] = NotGiven /\ k \in 1..Len(a \o b)
  <2> HIDE DEF k
  <2> QED BY <1>1, <1>3, <1>4
<1> QED BY <1>5 DEF Contains

\* A reference that fails is one without a meaning.
LEMMA ReferenceFails ==
    ASSUME ExpandInv, Expanding, Ends, Contains(MeaningOf(input, todo[1])[at], NotGiven)
    PROVE  ExpandInv'
<1> DEFINE M == MeaningOf(input, todo[1])
<1>1. phase = "expand" /\ todo # <<>> /\ at \in 1..(Len(Text) + 1)
  BY DEF Expanding
<1>2. Norm(out) \o M[at] = M[1] /\ out \in Seq(Words)
  BY <1>1 DEF ExpandInv
<1>3. M[at] \in Seq(Words)
  BY <1>1 DEF Expanding, Reads
<1>4. Norm(out) \in Seq(Words)
  <2>1. "uuid" \in Words
    BY DEF Words
  <2> QED BY <1>2, <2>1, NormTyped
<1>5. Contains(M[1], NotGiven)
  <2> DEFINE a == Norm(out)
             b == M[at]
  <2>1. a \in Seq(Words) /\ b \in Seq(Words) /\ Contains(b, NotGiven) /\ a \o b = M[1]
    BY <1>2, <1>3, <1>4
  <2> HIDE DEF a, b, M
  <2>2. Contains(a \o b, NotGiven)
    BY <2>1, NoMeaning
  <2> QED BY <2>1, <2>2
<1>6. phase' = "done" /\ verdict' = "error" /\ UNCHANGED <<input, todo, at, out, uuids, request>>
  BY DEF Ends
<1> QED BY <1>1, <1>5, <1>6, ExpandAlone

LEMMA ReferenceKeeps == ExpandInv /\ Reference => ExpandInv'
<1> SUFFICES ASSUME ExpandInv, Reference PROVE ExpandInv'
  OBVIOUS
<1> DEFINE M == MeaningOf(input, todo[1])
           scope == ScopeIn(input)
           closers == {i \in (at + 1)..Len(Text) : Text[i] = Closer}
           end == CHOOSE i \in closers : \A j \in closers : i <= j
           key == SubSeq(Text, at + 1, end - 1)
<1>1. /\ Starts(<<Opener>>)
      /\ IF closers = {} \/ Len(key) # 1 THEN Ends
         ELSE IF key[1] = "uuid"
         THEN Emit(<<Uuids[uuids + 1]>>, end + 1) /\ uuids' = uuids + 1
         ELSE IF key[1] \in DOMAIN scope
         THEN Emit(scope[key[1]], end + 1) /\ UNCHANGED uuids
         ELSE Ends
  BY ScopeIs, ReferenceGoesOn
<1>2. Expanding
  BY <1>1, StartsExpanding
<1>3. /\ phase = "expand" /\ todo # <<>> /\ Reads(M, scope, Text, Words)
      /\ Text \in Seq(Words) /\ Plain(Text) /\ at \in 1..(Len(Text) + 1) /\ Len(Text) \in Nat
      /\ input \in Inputs /\ todo[1] \in ToSet(Fields)
  BY <1>2 DEF Expanding
<1>4. at \in 1..Len(Text) /\ Text[at] = Opener
  <2>1. at <= Len(Text) /\ Text[at] = Opener
    BY <1>1, <1>3, BeginsAt DEF Starts, Rest
  <2> QED BY <1>3, <2>1
<1>5. M[at] = ReferenceFrom(scope, Text, M, at) /\ M[at] \in Seq(Words)
  <2> HIDE DEF M, scope, Text
  <2> QED BY <1>3, <1>4, MeansReference
<1>6. ClosersFrom(Text, at) = closers
  <2>1. \A i \in at..Len(Text) : Text[i] = Closer => i \in (at + 1)..Len(Text)
    BY <1>3, <1>4, TokensDiffer
  <2>2. \A i \in (at + 1)..Len(Text) : i \in at..Len(Text)
    BY <1>3
  <2> HIDE DEF Text
  <2> QED BY <2>1, <2>2 DEF ClosersFrom
<1>7. end = ReferenceEnd(Text, at) /\ key = KeyAt(Text, at)
  BY <1>6 DEF ReferenceEnd, KeyAt, Min
<1> HIDE DEF M, scope, closers, end, key
<1> DEFINE value == ValueAt(scope, Text, at)
<1>8. CASE closers = {}
  <2>1. M[at] = <<NotGiven>>
    BY <1>5, <1>6, <1>8 DEF ReferenceFrom
  <2>2. Contains(M[at], NotGiven)
    BY <2>1 DEF Contains
  <2> QED BY <1>1, <1>2, <1>8, <2>2, ReferenceFails DEF M
<1>9. CASE closers # {}
  <2>1. end \in (at + 1)..Len(Text)
    <3>1. end \in at..Len(Text) /\ Text[end] = Closer
      <4> HIDE DEF Text
      <4> QED BY <1>3, <1>4, <1>6, <1>7, <1>9, ReferenceEndFound
    <3> HIDE DEF Text
    <3> QED BY <1>3, <1>4, <3>1, TokensDiffer
  <2>2. end + 1 \in (at + 1)..(Len(Text) + 1) /\ end + 1 \in 1..(Len(Text) + 1)
    <3> HIDE DEF Text
    <3> QED BY <1>3, <1>4, <2>1
  <2>3. M[at] = value \o M[end + 1] /\ M[end + 1] \in Seq(Words)
    <3>1. M[at] = value \o M[end + 1]
      BY <1>5, <1>6, <1>7, <1>9 DEF ReferenceFrom
    <3> QED BY <1>3, <2>2, <3>1 DEF Reads
  <2>4. value = IF key \in {<<k>> : k \in DOMAIN scope} THEN scope[key[1]]
                ELSE IF key = <<"uuid">> THEN key ELSE <<NotGiven>>
    BY <1>7 DEF ValueAt
  <2>5. key \in Seq(Words)
    <3>1. at + 1 \in 1..(Len(Text) + 1) /\ end - 1 \in 0..Len(Text)
      <4> HIDE DEF Text
      <4> QED BY <1>3, <1>4, <2>1
    <3> QED BY <1>3, <3>1, PartTyped DEF key
  <2>6. /\ Len(key) = 1 => key = <<key[1]>>
        /\ \A k : Len(<<k>>) = 1
    BY <2>5
  <2>7. \A k \in DOMAIN scope : k # "uuid" /\ IsText(scope[k])
    BY <1>3, ScopeTyped DEF scope
  <2> HIDE DEF value, Text
  <2>8. CASE Ends
    <3>1. value = <<NotGiven>>
      <4>1. Len(key) # 1 \/ (key[1] # "uuid" /\ key[1] \notin DOMAIN scope)
        <5>1. SUFFICES ASSUME Len(key) = 1, key[1] = "uuid" \/ key[1] \in DOMAIN scope PROVE FALSE
          OBVIOUS
        <5>2. \E w, u : Emit(w, u)
          BY <1>1, <1>9, <5>1
        <5>3. phase' = phase
          BY <5>2 DEF Emit
        <5> QED BY <1>3, <2>8, <5>3 DEF Ends
      <4>2. \A k : key = <<k>> => Len(key) = 1 /\ key[1] = k
        BY <2>6
      <4> QED BY <2>4, <4>1, <4>2
    <3>2. Contains(M[at], NotGiven)
      <4> DEFINE later == M[end + 1]
      <4>1. <<NotGiven>> \in Seq({NotGiven}) /\ M[at] = <<NotGiven>> \o later /\ later \in Seq(Words) /\ NotGiven \in Words
        BY <2>3, <3>1 DEF Words
      <4> HIDE DEF later
      <4> DEFINE t == <<NotGiven>>
      <4>2. t \in Seq(Words) /\ Len(t) = 1 /\ t[1] = NotGiven
        BY <4>1
      <4> HIDE DEF t
      <4>3. /\ Len(t \o later) = Len(t) + Len(later)
            /\ \A k \in 1..(Len(t) + Len(later)) : (t \o later)[k] = IF k <= Len(t) THEN t[k] ELSE later[k - Len(t)]
        BY <4>1, <4>2, ConcatProperties
      <4>4. Len(later) \in Nat
        BY <4>1, LenProperties
      <4>5. 1 \in 1..Len(t \o later) /\ (t \o later)[1] = NotGiven
        BY <4>2, <4>3, <4>4
      <4> QED BY <4>1, <4>5 DEF Contains, t
    <3> QED BY <1>2, <2>8, <3>2, ReferenceFails DEF M
  <2>9. CASE ~Ends /\ key[1] = "uuid"
    <3> DEFINE word == Uuids[uuids + 1]
    <3>1. Len(key) = 1 /\ Emit(<<word>>, end + 1) /\ uuids' = uuids + 1
      BY <1>1, <1>9, <2>9
    <3>2. key = <<"uuid">> /\ value = <<"uuid">>
      <4>1. key = <<"uuid">>
        BY <2>6, <2>9, <3>1
      <4>2. key \notin {<<k>> : k \in DOMAIN scope}
        BY <2>7, <2>9
      <4> QED BY <2>4, <4>1, <4>2
    <3>3. uuids + 1 \in 1..Len(Uuids)
      <4> DEFINE L(f) == Len(input.file[f])
      <4>1. uuids \in Nat /\ uuids <= Behind(input, todo) + at - 1
        BY <1>3 DEF ExpandInv
      <4>2. Len(Uuids) \in Nat
        BY FileAssumption, LenProperties
      <4>3. /\ \A f \in ToSet(Fields) : L(f) \in Nat
            /\ L("method") + L("url") + L("value") + L("body") <= Len(Uuids)
        <5>1. ASSUME NEW f \in ToSet(Fields) PROVE L(f) \in Nat
          <6>1. input.file[f] \in Seq(Words)
            BY <1>3, FieldReads
          <6> QED BY <6>1, LenProperties
        <5> QED BY <1>3, <5>1, FileAssumption
      <4>4. L(todo[1]) = Len(Text) /\ Contains(todo, todo[1])
        <5>1. todo \in FieldTails
          BY DEF ExpandInv
        <5> QED BY <1>3, <5>1, Pending DEF Text, file
      <4>5. Behind(input, todo) + Len(Text) <= Len(Uuids)
        <5> HIDE DEF L
        <5>1. \A f : Size(input, todo, f) = IF Contains(todo, f) THEN 0 ELSE L(f)
          BY DEF Size, L
        <5>2. todo[1] \in {"method", "url", "value", "body"}
          BY <1>3, FieldNames
        <5>3. \A f \in {"method", "url", "value", "body"} : L(f) \in Nat
          BY <4>3, FieldNames
        <5> DEFINE s(f) == Size(input, todo, f)
        <5>4. \A f \in {"method", "url", "value", "body"} : s(f) \in Nat /\ s(f) <= L(f)
          BY <5>1, <5>3
        <5>5. s(todo[1]) = 0
          BY <4>4, <5>1
        <5>6. s("method") + s("url") + s("value") + s("body") + L(todo[1])
                <= L("method") + L("url") + L("value") + L("body")
          <6> HIDE DEF s
          <6>1. CASE todo[1] = "method"
            BY <5>3, <5>4, <5>5, <6>1
          <6>2. CASE todo[1] = "url"
            BY <5>3, <5>4, <5>5, <6>2
          <6>3. CASE todo[1] = "value"
            BY <5>3, <5>4, <5>5, <6>3
          <6>4. CASE todo[1] = "body"
            BY <5>3, <5>4, <5>5, <6>4
          <6> QED BY <5>2, <6>1, <6>2, <6>3, <6>4
        <5>7. Behind(input, todo) = s("method") + s("url") + s("value") + s("body")
          BY DEF Behind
        <5>8. L(todo[1]) \in Nat /\ Behind(input, todo) \in Nat
          BY <5>2, <5>3, <5>4, <5>7
        <5> HIDE DEF s
        <5>9. L("method") + L("url") + L("value") + L("body") \in Nat
          BY <5>3
        <5> QED BY <4>2, <4>3, <4>4, <5>6, <5>7, <5>8, <5>9
      <4>6. Behind(input, todo) \in Nat
        <5>1. \A f \in ToSet(Fields) : Size(input, todo, f) \in Nat
          BY <4>3 DEF Size
        <5> QED BY <5>1, FieldNames DEF Behind
      <4> DEFINE b == Behind(input, todo)
      <4> HIDE DEF b
      <4>7. b \in Nat /\ uuids <= b + at - 1 /\ b + Len(Text) <= Len(Uuids)
        BY <4>1, <4>5, <4>6 DEF b
      <4> QED BY <1>3, <1>4, <4>1, <4>2, <4>7
    <3>4. word \in Words /\ <<word>> \in Seq(Words)
      <4>1. word \in STRING
        BY <3>3, FileAssumption, ElementOfSeq
      <4> HIDE DEF word
      <4>2. word \in Words
        BY <4>1 DEF Words
      <4> QED BY <4>2
    <3>5. Norm(<<word>>) = <<"uuid">>
      <4> DEFINE t == <<word>>
      <4>1. Contains(Uuids, word)
        BY <3>3 DEF Contains
      <4> HIDE DEF word
      <4>2. t \in Seq(Words) /\ Len(t) = 1 /\ t[1] = word /\ "uuid" \in Words
        BY <3>4 DEF Words
      <4> HIDE DEF t
      <4>3. /\ Norm(t) \in Seq(Words) /\ Len(Norm(t)) = 1
            /\ \A i \in 1..1 : Norm(t)[i] = IF Contains(Uuids, t[i]) THEN "uuid" ELSE t[i]
        BY <4>2, NormTyped
      <4>4. Norm(t)[1] = "uuid"
        BY <4>1, <4>2, <4>3
      <4> DEFINE n == Norm(t)
      <4>5. n \in Seq(Words) /\ Len(n) = 1 /\ n[1] = "uuid"
        BY <4>3, <4>4
      <4> HIDE DEF n
      <4>6. n = <<"uuid">>
        BY <4>5
      <4> QED BY <4>6 DEF n, t
    <3>6. M[at] = Norm(<<word>>) \o M[end + 1]
      BY <2>3, <3>2, <3>5
    <3> DEFINE words == <<word>>
    <3>7. words = <<Uuids[uuids + 1]>>
      OBVIOUS
    <3> QED BY <1>3, <2>2, <3>1, <3>3, <3>4, <3>6, <3>7, EmitKeeps DEF M
  <2>10. CASE ~Ends /\ key[1] # "uuid"
    <3> DEFINE k == key[1]
               words == scope[k]
    <3>1. Len(key) = 1 /\ k \in DOMAIN scope /\ Emit(words, end + 1) /\ uuids' = uuids
      BY <1>1, <1>9, <2>10
    <3>2. value = words
      <4>1. key = <<k>>
        BY <2>6, <3>1
      <4> HIDE DEF k
      <4>2. key \in {<<j>> : j \in DOMAIN scope}
        BY <3>1, <4>1
      <4> QED BY <2>4, <4>2 DEF k
    <3> HIDE DEF k
    <3>3. IsText(words)
      BY <2>7, <3>1
    <3> HIDE DEF words
    <3>4. words \in Seq(Words) /\ Plain(words)
      BY <3>3, TextsPlain
    <3>5. Norm(words) = words
      <4>1. "uuid" \in Words
        BY DEF Words
      <4> QED BY <3>4, <4>1, NormPlain
    <3>6. M[at] = Norm(words) \o M[end + 1]
      BY <2>3, <3>2, <3>5
    <3> QED BY <1>3, <2>2, <3>1, <3>4, <3>6, EmitKeeps DEF M
  <2> QED BY <2>8, <2>9, <2>10
<1> QED BY <1>8, <1>9

\* The meaning of a field that has been read to its end is what is written of it, and
\* of the next one everything is still to be read.
LEMMA FieldDoneKeeps == ExpandInv /\ FieldDone => ExpandInv'
<1> SUFFICES ASSUME ExpandInv, FieldDone PROVE ExpandInv'
  OBVIOUS
<1> DEFINE f == todo[1]
           M == MeaningOf(input, f)
           next == Tail(todo)
<1>1. /\ Starts(<<>>) /\ Rest = <<>> /\ request' = [request EXCEPT ![f] = out] /\ todo' = next
      /\ at' = 1 /\ out' = <<>> /\ UNCHANGED <<input, phase, uuids, verdict>>
  BY DEF FieldDone
<1>2. Expanding
  BY <1>1, StartsExpanding
<1>3. /\ phase = "expand" /\ todo # <<>> /\ Reads(M, ScopeIn(input), Text, Words)
      /\ Text \in Seq(Words) /\ at \in 1..(Len(Text) + 1) /\ Len(Text) \in Nat
      /\ input \in Inputs /\ f \in ToSet(Fields)
  BY <1>2 DEF Expanding
<1>4. /\ todo \in FieldTails /\ out \in Seq(Words) /\ request \in [ToSet(Fields) -> Seq(Words)] /\ uuids \in Nat
      /\ Norm(out) \o M[at] = M[1] /\ uuids <= Behind(input, todo) + at - 1
  BY <1>3 DEF ExpandInv
<1>5. /\ next \in FieldTails /\ next # Fields /\ Contains(todo, f) /\ ~Contains(next, f)
      /\ \A g \in ToSet(Fields) \ {f} : Contains(next, g) <=> Contains(todo, g)
      /\ next # <<>> => next[1] \in ToSet(Fields) \ {f} /\ Contains(next, next[1])
  BY <1>3, <1>4, Pending
<1>6. at = Len(Text) + 1
  <2>1. ~(at <= Len(Text))
    BY <1>1, <1>3, BeginsAt DEF Rest
  <2> HIDE DEF Text
  <2> QED BY <1>3, <2>1
<1>7. Norm(out) = M[1]
  <2>1. M[at] = <<>>
    <3> HIDE DEF M, Text
    <3> QED BY <1>3, <1>6, MeansEnd
  <2>2. Norm(out) \in Seq(Words)
    <3>1. "uuid" \in Words
      BY DEF Words
    <3> QED BY <1>4, <3>1, NormTyped
  <2> HIDE DEF M
  <2>3. Norm(out) \o <<>> = Norm(out)
    BY <2>2, ConcatEmptySeq
  <2> QED BY <1>4, <2>1, <2>3
<1>8. \A g \in ToSet(Fields) :
        IF Contains(todo', g) THEN request'[g] = <<>>
        ELSE Norm(request'[g]) = MeaningOf(input', g)[1]
  <2>1. SUFFICES ASSUME NEW g \in ToSet(Fields)
                 PROVE  IF Contains(next, g) THEN request'[g] = <<>>
                        ELSE Norm(request'[g]) = MeaningOf(input, g)[1]
    BY <1>1
  <2>2. CASE g = f
    BY <1>1, <1>3, <1>4, <1>5, <1>7, <2>2
  <2>3. CASE g # f
    <3>1. request'[g] = request[g]
      BY <1>1, <1>4, <2>3
    <3>2. Contains(next, g) <=> Contains(todo, g)
      BY <1>5, <2>3
    <3> QED BY <3>1, <3>2 DEF ExpandInv
  <2> QED BY <2>2, <2>3
<1>9. ASSUME next # <<>>
      PROVE  /\ (at \in 1..(Len(Text) + 1))'
             /\ Norm(out') \o MeaningOf(input', todo'[1])[at'] = MeaningOf(input', todo'[1])[1]
  <2> DEFINE g == next[1]
             N == MeaningOf(input, g)
  <2>1. Reads(N, ScopeIn(input), input.file[g], Words) /\ input.file[g] \in Seq(Words)
    BY <1>3, <1>5, <1>9, FieldReads
  <2>2. Text' = input.file[g] /\ todo'[1] = g
    BY <1>1 DEF Text, file
  <2>3. Len(input.file[g]) \in Nat
    BY <2>1, LenProperties
  <2>4. 1 \in 1..(Len(input.file[g]) + 1)
    BY <2>3
  <2>5. N[1] \in Seq(Words)
    BY <2>1, <2>4 DEF Reads
  <2>6. Norm(<<>>) = <<>>
    <3>1. <<>> \in Seq(Words) /\ Plain(<<>>) /\ "uuid" \in Words
      BY DEF Plain, Words
    <3> QED BY <3>1, NormPlain
  <2> HIDE DEF N
  <2>7. Norm(<<>>) \o N[1] = N[1]
    BY <2>5, <2>6, ConcatEmptySeq
  <2>8. (at \in 1..(Len(Text) + 1))'
    BY <1>1, <2>2, <2>4
  <2>9. Norm(out') \o MeaningOf(input', todo'[1])[at'] = MeaningOf(input', todo'[1])[1]
    BY <1>1, <2>2, <2>7 DEF N
  <2> QED BY <2>8, <2>9
<1>10. Behind(input, next) = Behind(input, todo) + Len(Text) /\ Behind(input, todo) \in Nat
  <2> DEFINE L(g) == Len(input.file[g])
             s(g) == Size(input, todo, g)
             t(g) == Size(input, next, g)
             F == {"method", "url", "value", "body"}
  <2>1. \A g \in F : L(g) \in Nat
    <3>1. ASSUME NEW g \in F PROVE L(g) \in Nat
      <4>1. input.file[g] \in Seq(Words)
        BY <1>3, FieldReads, FieldNames
      <4> QED BY <4>1, LenProperties
    <3> QED BY <3>1
  <2>2. f \in F /\ L(f) = Len(Text) /\ s(f) = 0 /\ t(f) = L(f)
    BY <1>3, <1>5, FieldNames DEF Size, Text, file
  <2>3. \A g \in F \ {f} : t(g) = s(g)
    BY <1>5, FieldNames DEF Size
  <2>4. \A g \in F : s(g) \in Nat /\ t(g) \in Nat
    BY <2>1 DEF Size
  <2>5. /\ Behind(input, todo) = s("method") + s("url") + s("value") + s("body")
        /\ Behind(input, next) = t("method") + t("url") + t("value") + t("body")
    BY DEF Behind
  <2> HIDE DEF L, s, t, f, next
  <2>6. t("method") + t("url") + t("value") + t("body") = s("method") + s("url") + s("value") + s("body") + L(f)
    <3>1. CASE f = "method"
      <4>1. t("url") = s("url") /\ t("value") = s("value") /\ t("body") = s("body")
        BY <2>3, <3>1
      <4>2. s("method") = 0 /\ t("method") = L(f) /\ L(f) \in Nat
        BY <2>1, <2>2, <3>1
      <4> QED BY <2>4, <4>1, <4>2
    <3>2. CASE f = "url"
      <4>1. t("method") = s("method") /\ t("value") = s("value") /\ t("body") = s("body")
        BY <2>3, <3>2
      <4>2. s("url") = 0 /\ t("url") = L(f) /\ L(f) \in Nat
        BY <2>1, <2>2, <3>2
      <4> QED BY <2>4, <4>1, <4>2
    <3>3. CASE f = "value"
      <4>1. t("method") = s("method") /\ t("url") = s("url") /\ t("body") = s("body")
        BY <2>3, <3>3
      <4>2. s("value") = 0 /\ t("value") = L(f) /\ L(f) \in Nat
        BY <2>1, <2>2, <3>3
      <4> QED BY <2>4, <4>1, <4>2
    <3>4. CASE f = "body"
      <4>1. t("method") = s("method") /\ t("url") = s("url") /\ t("value") = s("value")
        BY <2>3, <3>4
      <4>2. s("body") = 0 /\ t("body") = L(f) /\ L(f) \in Nat
        BY <2>1, <2>2, <3>4
      <4> QED BY <2>4, <4>1, <4>2
    <3> QED BY <2>2, <3>1, <3>2, <3>3, <3>4
  <2>7. s("method") + s("url") + s("value") + s("body") \in Nat
    BY <2>4
  <2> QED BY <2>2, <2>5, <2>6, <2>7
<1>11. uuids' <= Behind(input', todo') + at' - 1
  <2> DEFINE b == Behind(input, todo)
             c == Behind(input, next)
  <2>1. b \in Nat /\ c = b + Len(Text) /\ uuids <= b + at - 1
    BY <1>4, <1>10
  <2> HIDE DEF b, c, Text
  <2>2. uuids <= c + 1 - 1
    BY <1>3, <1>4, <1>6, <2>1
  <2> QED BY <1>1, <2>2 DEF c
<1>12. FreshIn(Written, uuids)'
  <2> DEFINE w == Written
  <2>1. w = [request EXCEPT ![f] = out]
    BY <1>3 DEF Written
  <2>2. Written' = w
    <3>1. CASE next = <<>>
      BY <1>1, <2>1, <3>1 DEF Written
    <3>2. CASE next # <<>>
      <4> DEFINE g == next[1]
      <4>1. Written' = [request' EXCEPT ![g] = <<>>]
        BY <1>1, <3>2 DEF Written
      <4>2. g \in ToSet(Fields) /\ request'[g] = <<>>
        BY <1>1, <1>5, <1>8, <3>2
      <4>3. request' \in [ToSet(Fields) -> Seq(Words)]
        BY <1>1, <1>4
      <4> HIDE DEF g
      <4>4. [request' EXCEPT ![g] = <<>>] = request'
        BY <4>2, <4>3
      <4> QED BY <1>1, <2>1, <4>1, <4>4
    <3> QED BY <3>1, <3>2
  <2>3. FreshIn(w, uuids)
    BY DEF ExpandInv
  <2> HIDE DEF w
  <2>4. FreshIn(Written', uuids')
    BY <1>1, <2>2, <2>3
  <2>5. FreshIn(Written, uuids)' <=> FreshIn(Written', uuids')
    BY DEF FreshIn
  <2> QED BY <2>4, <2>5
<1>13. request' \in [ToSet(Fields) -> Seq(Words)] /\ out' \in Seq(Words) /\ at' \in Nat /\ uuids' \in Nat
  <2> DEFINE r == request'
  <2>1. r = [request EXCEPT ![f] = out]
    BY <1>1
  <2> HIDE DEF r, f, M, next
  <2>2. r \in [ToSet(Fields) -> Seq(Words)]
    BY <1>4, <2>1
  <2>3. <<>> \in Seq(Words)
    OBVIOUS
  <2> QED BY <1>1, <1>4, <2>2, <2>3 DEF r
<1>14. phase' = "expand" /\ input' \in Inputs /\ verdict' # "error" /\ todo' \in FieldTails /\ todo' = next
  BY <1>1, <1>3, <1>5 DEF ExpandInv
<1> HIDE DEF M, next, f, Text, Written
<1>15. phase' = "expand" /\ todo' # <<>> =>
         /\ (at \in 1..(Len(Text) + 1))'
         /\ Norm(out') \o MeaningOf(input', todo'[1])[at'] = MeaningOf(input', todo'[1])[1]
         /\ uuids' <= Behind(input', todo') + at' - 1
  BY <1>9, <1>11, <1>14
<1> QED BY <1>8, <1>12, <1>13, <1>14, <1>15 DEF ExpandInv

LEMMA ExpandStep == ExpandInv /\ [FileNext]_fileVars => ExpandInv'
<1> SUFFICES ASSUME ExpandInv, [FileNext]_fileVars PROVE ExpandInv'
  OBVIOUS
<1>1. ASSUME Ends, phase \in {"prepare", "expand", "send"}, phase # "prepare" => todo = <<>> PROVE ExpandInv'
  <2>1. phase' = "done" /\ UNCHANGED <<input, todo, at, out, uuids, request>>
    BY <1>1 DEF Ends
  <2>2. phase = "prepare" => todo = Fields
    BY DEF ExpandInv
  <2> QED BY <1>1, <2>1, <2>2, ExpandAlone
<1>2. CASE Prepare
  <2>1. CASE Ends
    BY <1>1, <1>2, <2>1, PrepareGoesOn
  <2>2. CASE ~Ends
    <3>1. phase = "prepare" /\ phase' = "expand" /\ UNCHANGED <<input, todo, at, out, uuids, request, verdict>>
      BY <1>2, <2>2, PrepareGoesOn
    <3>2. todo = Fields /\ out = <<>> /\ at = 1 /\ uuids = 0 /\ input \in Inputs /\ verdict # "error"
      BY <3>1 DEF ExpandInv
    <3> DEFINE f == todo[1]
               M == MeaningOf(input, f)
    <3>3. f \in ToSet(Fields) /\ todo # <<>>
      BY <3>2, FieldNames DEF Fields
    <3>4. Text' = input.file[f] /\ Len(input.file[f]) \in Nat /\ M[1] \in Seq(Words)
      <4>1. Reads(M, ScopeIn(input), input.file[f], Words) /\ input.file[f] \in Seq(Words)
        BY <3>2, <3>3, FieldReads
      <4>2. Len(input.file[f]) \in Nat
        BY <4>1, LenProperties
      <4>3. 1 \in 1..(Len(input.file[f]) + 1)
        BY <4>2
      <4>4. Text' = input.file[f]
        BY <3>1 DEF Text, file
      <4> QED BY <4>1, <4>2, <4>3, <4>4 DEF Reads
    <3>5. (at \in 1..(Len(Text) + 1))'
      <4>1. at' = 1
        BY <3>1, <3>2
      <4> QED BY <3>4, <4>1
    <3>6. Norm(<<>>) \o M[1] = M[1]
      <4>1. <<>> \in Seq(Words) /\ Plain(<<>>) /\ "uuid" \in Words
        BY DEF Plain, Words
      <4>2. Norm(<<>>) = <<>>
        BY <4>1, NormPlain
      <4> HIDE DEF M
      <4> QED BY <3>4, <4>2, ConcatEmptySeq
    <3>7. Behind(input, todo) \in Nat
      <4>1. \A g \in ToSet(Fields) : Contains(Fields, g)
        BY FieldNames DEF Contains, Fields
      <4>2. \A g \in ToSet(Fields) : Size(input, todo, g) = 0
        BY <3>2, <4>1 DEF Size
      <4> QED BY <4>2, FieldNames DEF Behind
    <3>8. FreshIn(Written, uuids)'
      <4>1. UNCHANGED Written
        BY <3>1 DEF Written
      <4> HIDE DEF Written
      <4>2. FreshIn(Written, uuids)
        BY DEF ExpandInv
      <4> QED BY <3>1, <4>1, <4>2 DEF FreshIn
    <3> HIDE DEF M, Text, Written
    <3>9. uuids' <= Behind(input', todo') + at' - 1
      <4> DEFINE b == Behind(input, todo)
      <4>1. b \in Nat
        BY <3>7
      <4> HIDE DEF b
      <4>2. 0 <= b + 1 - 1
        BY <4>1
      <4> QED BY <3>1, <3>2, <4>2 DEF b
    <3>10. Norm(out') \o MeaningOf(input', todo'[1])[at'] = MeaningOf(input', todo'[1])[1]
      BY <3>1, <3>2, <3>6 DEF M
    <3>11. /\ todo' \in FieldTails /\ at' \in Nat /\ uuids' \in Nat /\ out' \in Seq(Words)
           /\ request' \in [ToSet(Fields) -> Seq(Words)]
           /\ \A g \in ToSet(Fields) :
                IF Contains(todo', g) THEN request'[g] = <<>>
                ELSE Norm(request'[g]) = MeaningOf(input', g)[1]
      BY <3>1 DEF ExpandInv
    <3>12. phase' = "expand" /\ input' \in Inputs /\ verdict' # "error"
      BY <3>1, <3>2
    <3> QED BY <3>5, <3>8, <3>9, <3>10, <3>11, <3>12 DEF ExpandInv
  <2> QED BY <2>1, <2>2
<1>3. CASE Validate
  <2>1. phase = "expand" /\ todo = <<>>
    BY <1>3, ValidateGoesOn
  <2>2. CASE Ends
    BY <1>1, <2>1, <2>2
  <2>3. CASE ~Ends
    <3>1. phase' = "send" /\ UNCHANGED <<input, todo, at, out, uuids, request, verdict>>
      BY <1>3, <2>3, ValidateGoesOn
    <3>2. verdict' # "error"
      BY <2>1, <3>1 DEF ExpandInv
    <3> QED BY <2>1, <3>1, <3>2, ExpandAlone
  <2> QED BY <2>2, <2>3
<1>4. CASE Respond
  <2>1. phase = "send" /\ phase' = "evaluate" /\ UNCHANGED <<input, todo, at, out, uuids, request, verdict>>
    BY <1>4 DEF Respond
  <2>2. todo = <<>> /\ verdict' # "error"
    BY <2>1 DEF ExpandInv
  <2> QED BY <2>1, <2>2, ExpandAlone
<1>5. CASE SendFails
  <2>1. phase = "send" /\ todo = <<>>
    BY <1>5, SendFailsEnds DEF ExpandInv
  <2> QED BY <1>1, <1>5, <2>1, SendFailsEnds
<1>6. CASE Evaluate
  <2>1. /\ phase = "evaluate" /\ phase' = "done" /\ UNCHANGED <<input, todo, at, out, uuids, request>>
        /\ verdict' # "error"
    BY <1>6 DEF Evaluate
  <2>2. todo = <<>>
    BY <2>1 DEF ExpandInv
  <2> QED BY <2>1, <2>2, ExpandAlone
<1>7. CASE UNCHANGED fileVars
  <2>1. UNCHANGED <<input, phase, todo, at, out, uuids, request, verdict>>
    BY <1>7 DEF fileVars
  <2>2. /\ phase \in {"idle", "prepare", "expand", "send", "evaluate", "done"}
        /\ phase \in {"send", "evaluate"} => todo = <<>>
        /\ phase # "done" => verdict # "error"
        /\ verdict = "error" /\ todo # <<>> /\ todo # Fields => Contains(MeaningOf(input, todo[1])[1], NotGiven)
    BY DEF ExpandInv
  <2> QED BY <2>1, <2>2, ExpandAlone
<1> QED BY <1>2, <1>3, <1>4, <1>5, <1>6, <1>7, EscapedOpenerKeeps, EscapedBackslashKeeps, ReferenceKeeps,
           LiteralKeeps, FieldDoneKeeps DEF FileNext

LEMMA ExpandInvImplies == ExpandInv => ExpandedExactly
<1> SUFFICES ASSUME ExpandInv PROVE ExpandedExactly
  OBVIOUS
<1>1. /\ request \in [ToSet(Fields) -> Seq(Words)] /\ todo \in FieldTails /\ FreshIn(Written, uuids)
      /\ \A f \in ToSet(Fields) :
           IF Contains(todo, f) THEN request[f] = <<>>
           ELSE Norm(request[f]) = MeaningOf(input, f)[1]
      /\ verdict = "error" /\ todo # <<>> /\ todo # Fields =>
           Contains(MeaningOf(input, todo[1])[1], NotGiven)
  BY DEF ExpandInv
<1>2. DOMAIN request = ToSet(Fields)
  BY <1>1
<1>3. ASSUME NEW f \in DOMAIN request
      PROVE  /\ request[f] \in Seq(Words) /\ DOMAIN request[f] = 1..Len(request[f])
             /\ request[f] = <<>> \/ request[f] = Written[f]
  <2>1. request[f] \in Seq(Words)
    BY <1>1, <1>2
  <2>2. request[f] = <<>> \/ request[f] = Written[f]
    <3>1. CASE todo = <<>> \/ f # todo[1]
      BY <1>1, <1>2, <3>1 DEF Written
    <3>2. CASE todo # <<>> /\ f = todo[1]
      <4>1. Contains(todo, f)
        BY <1>1, <3>2, Pending
      <4> QED BY <1>1, <1>2, <4>1
    <3> QED BY <3>1, <3>2
  <2> QED BY <2>1, <2>2, LenProperties
<1>4. ASSUME NEW f \in DOMAIN request, NEW g \in DOMAIN request,
             NEW i \in DOMAIN request[f], NEW j \in DOMAIN request[g],
             Contains(Uuids, request[f][i]), request[g][j] = request[f][i]
      PROVE  f = g /\ i = j
  <2>1. i \in 1..Len(request[f]) /\ j \in 1..Len(request[g])
    BY <1>3
  <2>2. request[f] # <<>> /\ request[g] # <<>>
    BY <2>1
  <2>3. request[f] = Written[f] /\ request[g] = Written[g]
    BY <1>3, <2>2
  <2> HIDE DEF Written
  <2>4. i \in 1..Len(Written[f]) /\ j \in 1..Len(Written[g]) /\ Contains(Uuids, Written[f][i]) /\ Written[f][i] = Written[g][j]
    BY <1>4, <2>1, <2>3
  <2> QED BY <1>1, <1>2, <2>4 DEF FreshIn
<1>5. ASSUME NEW f \in DOMAIN request, ~Contains(todo, f) PROVE Norm(request[f]) = Meaning(file[f])
  BY <1>1, <1>2, <1>5, FieldMeans
<1>6. verdict = "error" /\ todo # <<>> /\ todo # Fields => Contains(Meaning(file[todo[1]]), NotGiven)
  BY <1>1, FieldMeans
<1> QED BY <1>4, <1>5, <1>6 DEF ExpandedExactly, Norm

\* A field is expanded to what its template means, every {{uuid}} of a run is another,
\* and an expansion that fails is of a template without a meaning, whatever fields a
\* file has: `expand` of crates/core/src/scenario.rs, with one scope for all of them.
THEOREM TemplatesExpandExactly == FileStart /\ [][FileNext]_fileVars => []ExpandedExactly
BY ExpandInit, ExpandStep, ExpandInvImplies, PTL

-------------------------------------------------------------------------------
(* The end of a run.                                                         *)

\* What is left of a run: of its phases, of the fields to expand, and of the tokens of
\* the field's template.
ToGo ==
    <<CASE phase \in {"idle", "prepare"} -> 4 [] phase = "expand" -> 3 [] phase = "send" -> 2
        [] phase = "evaluate" -> 1 [] OTHER -> 0,
      Len(todo),
      IF phase = "expand" /\ todo # <<>> THEN Len(Text) + 1 - at ELSE 0>>

\* In the order of dictionaries, in which nothing goes down forever.
Less(m, n) ==
    \/ m[1] < n[1]
    \/ m[1] = n[1] /\ m[2] < n[2]
    \/ m[1] = n[1] /\ m[2] = n[2] /\ m[3] < n[3]

LEMMA ToGoTyped == ASSUME ExpandInv PROVE ToGo \in Nat \X Nat \X Nat
<1>1. Len(todo) \in Nat
  BY DEF ExpandInv, FieldTails, Fields
<1>2. CASE phase = "expand" /\ todo # <<>>
  <2>1. at \in 1..(Len(Text) + 1)
    BY <1>2 DEF ExpandInv
  <2> QED BY <1>1, <1>2, <2>1 DEF ToGo
<1>3. CASE ~(phase = "expand" /\ todo # <<>>)
  <2> HIDE DEF Text
  <2> QED BY <1>1, <1>3 DEF ToGo
<1> QED BY <1>2, <1>3

\* An iteration of the loop of expand ends the run, or goes on further right.
LEMMA LoopAdvances ==
    ASSUME ExpandInv, EscapedOpener \/ EscapedBackslash \/ Reference \/ Literal
    PROVE  Expanding /\ (phase' = "done" \/ (UNCHANGED <<input, phase, todo>> /\ at' > at))
<1>1. CASE EscapedOpener \/ EscapedBackslash
  <2>1. Expanding
    BY <1>1, StartsExpanding DEF EscapedOpener, EscapedBackslash
  <2>2. at \in Nat /\ at' = at + 2 /\ UNCHANGED <<input, phase, todo>>
    BY <1>1 DEF EscapedOpener, EscapedBackslash, Emit, ExpandInv
  <2> QED BY <2>1, <2>2
<1>2. CASE Literal
  <2>1. Expanding
    BY <1>2, StartsExpanding DEF Literal
  <2>2. at <= Len(Text)
    <3>1. Rest # <<>>
      BY <1>2 DEF Literal
    <3> QED BY <2>1, <3>1, BeginsAt DEF Rest, Expanding
  <2>3. LiteralEnd \in (at + 1)..(Len(Text) + 1)
    BY <2>1, <2>2, LiteralEndIs
  <2>4. at' = LiteralEnd /\ UNCHANGED <<input, phase, todo>>
    BY <1>2 DEF Literal, Emit
  <2>5. at \in Nat /\ Len(Text) \in Nat
    BY <2>1 DEF Expanding
  <2> HIDE DEF Text, LiteralEnd
  <2> QED BY <2>1, <2>3, <2>4, <2>5
<1>3. CASE Reference
  <2> DEFINE closers == {i \in (at + 1)..Len(Text) : Text[i] = Closer}
             end == CHOOSE i \in closers : \A j \in closers : i <= j
  <2>1. Expanding
    BY <1>3, StartsExpanding DEF Reference
  <2>2. at \in Nat /\ Len(Text) \in Nat
    BY <2>1 DEF Expanding
  <2>3. \/ Ends
        \/ closers # {} /\ at' = end + 1 /\ UNCHANGED <<input, phase, todo>>
    BY <1>3, ReferenceGoesOn DEF Emit
  <2>4. CASE Ends
    BY <2>1, <2>4 DEF Ends
  <2>5. CASE closers # {} /\ at' = end + 1 /\ UNCHANGED <<input, phase, todo>>
    <3>1. closers \in SUBSET Nat
      BY <2>2
    <3>2. end \in closers
      <4> HIDE DEF closers
      <4> QED BY <2>5, <3>1, MinIsLeast DEF Min
    <3>3. end >= at + 1 /\ end \in Nat
      <4> HIDE DEF end
      <4> QED BY <2>2, <3>2
    <3> HIDE DEF end, closers, Text
    <3> QED BY <2>1, <2>2, <2>5, <3>3
  <2> QED BY <2>3, <2>4, <2>5
<1> QED BY <1>1, <1>2, <1>3

LEMMA StepLowers == ASSUME ExpandInv, FileNext, ExpandInv' PROVE Less(ToGo', ToGo)
<1>1. CASE phase # "done" /\ phase' = "done"
  BY <1>1 DEF ToGo, Less, ExpandInv
<1>2. CASE Prepare \/ Validate \/ Respond \/ SendFails \/ Evaluate
  BY <1>2, PrepareGoesOn, ValidateGoesOn, SendFailsEnds DEF Respond, Evaluate, Ends, ToGo, Less
<1>3. CASE FieldDone
  <2>1. phase = "expand" /\ phase' = "expand" /\ todo # <<>> /\ todo' = Tail(todo)
    BY <1>3 DEF FieldDone, Starts
  <2>2. Len(todo') < Len(todo)
    BY <2>1 DEF ExpandInv, FieldTails, Fields
  <2>3. ToGo[1] = 3 /\ ToGo'[1] = 3 /\ ToGo[2] = Len(todo) /\ ToGo'[2] = Len(todo')
    BY <2>1 DEF ToGo
  <2> QED BY <2>2, <2>3 DEF Less
<1>4. CASE EscapedOpener \/ EscapedBackslash \/ Reference \/ Literal
  <2>1. Expanding /\ (phase' = "done" \/ (UNCHANGED <<input, phase, todo>> /\ at' > at))
    BY <1>4, LoopAdvances
  <2>2. phase = "expand" /\ todo # <<>> /\ at \in 1..(Len(Text) + 1) /\ Len(Text) \in Nat
    BY <2>1 DEF Expanding
  <2>3. CASE phase' # "done"
    <3>1. UNCHANGED <<phase, todo, Text>> /\ at' > at /\ at' \in Nat
      BY <2>1, <2>3 DEF Text, file, ExpandInv
    <3>2. /\ ToGo[1] = ToGo'[1] /\ ToGo[2] = ToGo'[2]
          /\ ToGo[3] = Len(Text) + 1 - at /\ ToGo'[3] = Len(Text) + 1 - at'
      BY <2>2, <3>1 DEF ToGo
    <3>3. Len(Text) + 1 - at' < Len(Text) + 1 - at
      <4> HIDE DEF Text
      <4> QED BY <2>2, <3>1
    <3> HIDE DEF ToGo, Text
    <3> QED BY <3>2, <3>3 DEF Less
  <2> QED BY <1>1, <2>2, <2>3
<1> QED BY <1>2, <1>3, <1>4 DEF FileNext

\* `wiresurge run` gets from any file to its end: every iteration of the loop of expand
\* goes on in the template, whatever escapes and references it has and wherever they are
\* cut off, and every other step leaves fewer fields or phases.
THEOREM RunsComeToAnEnd ==
    FileStart /\ [][FileNext]_fileVars =>
        [](ToGo \in Nat \X Nat \X Nat) /\ [][FileNext => Less(ToGo', ToGo)]_fileVars
<1>1. ExpandInv => ToGo \in Nat \X Nat \X Nat
  BY ToGoTyped
<1>2. ExpandInv /\ ExpandInv' /\ [FileNext]_fileVars => [FileNext => Less(ToGo', ToGo)]_fileVars
  BY StepLowers
<1> QED BY <1>1, <1>2, ExpandInit, ExpandStep, PTL

-------------------------------------------------------------------------------
(* Secrets: what String::replace leaves of a text, and what is left of it     *)
(* when all secrets have been masked.                                        *)

\* A part is at a place of a text; a text has it somewhere.
IsAt(text, i, part) ==
    /\ i + Len(part) - 1 <= Len(text)
    /\ \A j \in 1..Len(part) : text[i + j - 1] = part[j]
Has(text, part) == \E i \in 1..Len(text) : IsAt(text, i, part)

LEMMA PrefixAt ==
    ASSUME NEW V, NEW text \in Seq(V), NEW part \in Seq(V), NEW i \in 1..Len(text)
    PROVE  IsPrefix(part, SubSeq(text, i, Len(text))) <=> IsAt(text, i, part)
<1> DEFINE N == Len(text)
           L == Len(part)
           rest == SubSeq(text, i, N)
<1>1. N \in Nat /\ L \in Nat /\ i \in Nat /\ i >= 1 /\ i <= N
  BY LenProperties
<1>2. rest \in Seq(V) /\ Len(rest) = N - i + 1 /\ \A k \in 1..(N - i + 1) : rest[k] = text[i + k - 1]
  <2>1. i \in 1..(N + 1) /\ N \in 0..N
    BY <1>1
  <2> HIDE DEF rest
  <2>2. rest \in Seq(V) /\ Len(rest) = (IF i <= N THEN N - i + 1 ELSE 0)
        /\ \A k \in 1..(N - i + 1) : rest[k] = text[i + k - 1]
    BY <2>1, PartTyped DEF rest
  <2> QED BY <1>1, <2>2
<1> HIDE DEF rest
<1>3. IsPrefix(part, rest) <=> L <= Len(rest) /\ \A j \in 1..L : part[j] = rest[j]
  <2>1. part \in Seq(V) /\ rest \in Seq(V)
    BY <1>2
  <2> QED BY <2>1, PrefixIs
<1>4. L <= Len(rest) <=> i + L - 1 <= N
  <2> HIDE DEF L, N
  <2> QED BY <1>1, <1>2
<1>5. ASSUME L <= Len(rest), NEW j \in 1..L PROVE rest[j] = text[i + j - 1]
  <2>1. j \in 1..(N - i + 1)
    <3> HIDE DEF L, N
    <3> QED BY <1>1, <1>2, <1>5
  <2> QED BY <1>2, <2>1
<1> QED BY <1>3, <1>4, <1>5 DEF IsAt, rest

\* Contiguous parts are what SubSeqs has.
LEMMA PartsAre ==
    ASSUME NEW V, NEW text \in Seq(V), NEW part \in SubSeqs(text), part # <<>>
    PROVE  Has(text, part)
<1> DEFINE N == Len(text)
<1>1. N \in Nat
  BY LenProperties
<1>2. PICK a \in 0..N, b \in 0..N : part = SubSeq(text, a + 1, b)
  BY DEF SubSeqs
<1> DEFINE i == a + 1
<1>3. i \in 1..(N + 1) /\ b \in 0..N /\ i \in Nat
  BY <1>1, <1>2
<1>4. part = SubSeq(text, i, b)
  BY <1>2
<1> HIDE DEF i
<1>5. /\ part \in Seq(V) /\ Len(part) = IF i <= b THEN b - i + 1 ELSE 0
      /\ \A k \in 1..(b - i + 1) : part[k] = text[i + k - 1]
  BY <1>3, <1>4, PartTyped
<1>6. Len(part) # 0
  BY <1>5, EmptySeq
<1>7. Len(part) = b - i + 1 /\ i <= b
  BY <1>5, <1>6
<1>8. i \in 1..N /\ i + Len(part) - 1 <= N
  <2> HIDE DEF N
  <2> QED BY <1>1, <1>2, <1>3, <1>7
<1> QED BY <1>5, <1>7, <1>8 DEF Has, IsAt

\* The equation of `from` in Replaced.
LEMMA ReplacedSteps ==
    ASSUME NEW V, Mask \in V, NEW text \in Seq(V), NEW secret \in Seq(V), secret # <<>>
    PROVE  \E f \in [1..(Len(text) + 1) -> Seq(V)] :
             /\ Replaced(text, secret) = f[1]
             /\ f[Len(text) + 1] = <<>>
             /\ \A i \in 1..Len(text) :
                  f[i] = IF IsAt(text, i, secret) THEN <<Mask>> \o f[i + Len(secret)]
                         ELSE <<text[i]>> \o f[i + 1]
<1> DEFINE N == Len(text)
           L == Len(secret)
           D == 1..(N + 1)
           Is(i) == IsPrefix(secret, SubSeq(text, i, N))
           Body(g, i) == IF i > N THEN <<>>
                         ELSE IF Is(i) THEN <<Mask>> \o g[i + L] ELSE <<text[i]>> \o g[i + 1]
           from == CHOOSE g : g = [i \in D |-> Body(g, i)]
           m == [i \in D |-> N + 1 - i]
           H == [i \in D |-> [g \in [D -> Seq(V)] |-> Body(g, i)]]
<1>1. N \in Nat /\ L \in Nat /\ L >= 1
  BY LenProperties, EmptySeq
<1>2. Replaced(text, secret) = from[1]
  BY DEF Replaced
<1>3. ASSUME NEW i \in D, ~(i > N)
      PROVE  /\ i \in 1..N /\ i + 1 \in D /\ m[i + 1] < m[i]
             /\ Is(i) <=> IsAt(text, i, secret)
             /\ Is(i) => i + L \in D /\ m[i + L] < m[i]
  <2>1. i \in 1..N
    <3> HIDE DEF N
    <3> QED BY <1>1, <1>3
  <2>2. Is(i) <=> IsAt(text, i, secret)
    BY <2>1, PrefixAt
  <2>3. IsAt(text, i, secret) => i + L - 1 <= N
    BY DEF IsAt
  <2> HIDE DEF Is, N, L
  <2> QED BY <1>1, <2>1, <2>2, <2>3
<1>4. \A i \in 1..N : text[i] \in V
  BY ElementOfSeq
<1>5. \A x \in V : \A s \in Seq(V) : <<x>> \o s \in Seq(V)
  <2> TAKE x \in V
  <2> TAKE s \in Seq(V)
  <2>1. <<x>> \in Seq(V)
    OBVIOUS
  <2> QED BY <2>1, ConcatProperties
<1>6. ASSUME NEW i \in D, NEW g \in [D -> Seq(V)] PROVE Body(g, i) \in Seq(V)
  <2>1. CASE i > N
    BY <2>1
  <2>2. CASE ~(i > N) /\ Is(i)
    <3>1. g[i + L] \in Seq(V)
      BY <1>3, <2>2
    <3> QED BY <1>5, <2>2, <3>1
  <2>3. CASE ~(i > N) /\ ~Is(i)
    <3>1. g[i + 1] \in Seq(V) /\ text[i] \in V
      BY <1>3, <1>4, <2>3
    <3> QED BY <1>5, <2>3, <3>1
  <2> QED BY <2>1, <2>2, <2>3
<1>7. \E g \in [D -> Seq(V)] : \A i \in D : g[i] = Body(g, i)
  <2>1. m \in [D -> Nat]
    <3> HIDE DEF N
    <3> QED BY <1>1
  <2>2. H \in [D -> [[D -> Seq(V)] -> Seq(V)]]
    <3> HIDE DEF Body
    <3> QED BY <1>6
  <2>3. ASSUME NEW i \in D, NEW g \in [D -> Seq(V)], NEW h \in [D -> Seq(V)],
               \A j \in D : m[j] < m[i] => g[j] = h[j]
        PROVE  H[i][g] = H[i][h]
    <3>1. ~(i > N) => g[i + 1] = h[i + 1] /\ (Is(i) => g[i + L] = h[i + L])
      BY <1>3, <2>3
    <3>2. Body(g, i) = Body(h, i)
      BY <3>1
    <3> HIDE DEF Body
    <3> QED BY <3>2
  <2>4. Recursive(D, Seq(V), m, H)
    <3>1. Seq(V) # {}
      BY EmptySeq
    <3> HIDE DEF D, H, m
    <3> QED BY <2>1, <2>2, <2>3, <3>1 DEF Recursive
  <2>5. PICK g \in [D -> Seq(V)] : Solves(g, D, H)
    BY <2>4, RecursionSolved
  <2>6. \A i \in D : g[i] = Body(g, i)
    BY <2>5 DEF Solves
  <2> HIDE DEF Body, D
  <2> QED BY <2>6
<1>8. from = [i \in D |-> Body(from, i)]
  <2> HIDE DEF Body, D
  <2>1. PICK g \in [D -> Seq(V)] : \A i \in D : g[i] = Body(g, i)
    BY <1>7
  <2>2. g = [i \in D |-> Body(g, i)]
    BY <2>1
  <2> QED BY <2>2
<1>9. ASSUME NEW i \in D PROVE from[i] = Body(from, i)
  <2> HIDE DEF Body, from, D
  <2> QED BY <1>8
<1> HIDE DEF from
<1>10. ASSUME NEW i \in D PROVE from[i] \in Seq(V)
  <2> DEFINE S == {j \in D : from[j] \in Seq(V)}
  <2>1. ASSUME NEW j \in D, \A k \in D : m[k] < m[j] => k \in S PROVE j \in S
    <3>1. CASE j > N
      <4>1. from[j] = <<>> /\ <<>> \in Seq(V)
        BY <1>9, <3>1, EmptySeq
      <4> QED BY <4>1
    <3>2. CASE ~(j > N) /\ Is(j)
      <4>1. from[j] = <<Mask>> \o from[j + L] /\ from[j + L] \in Seq(V)
        BY <1>3, <1>9, <2>1, <3>2
      <4> QED BY <1>5, <4>1
    <3>3. CASE ~(j > N) /\ ~Is(j)
      <4>1. from[j] = <<text[j]>> \o from[j + 1] /\ from[j + 1] \in Seq(V) /\ text[j] \in V
        BY <1>3, <1>4, <1>9, <2>1, <3>3
      <4> QED BY <1>5, <4>1
    <3> QED BY <3>1, <3>2, <3>3
  <2>2. m \in [D -> Nat]
    <3> HIDE DEF N
    <3> QED BY <1>1
  <2> HIDE DEF S, D, m
  <2>3. D \subseteq S
    BY <2>1, <2>2, ByMeasure
  <2> QED BY <2>3 DEF S
<1>11. from \in [D -> Seq(V)]
  <2> HIDE DEF Body, D
  <2> QED BY <1>8, <1>10
<1>12. N + 1 \in D /\ N + 1 > N /\ \A i \in 1..N : i \in D /\ ~(i > N)
  <2> HIDE DEF N
  <2> QED BY <1>1
<1>13. from[N + 1] = <<>>
  <2> HIDE DEF N
  <2> QED BY <1>9, <1>12
<1>14. ASSUME NEW i \in 1..N
       PROVE  from[i] = IF IsAt(text, i, secret) THEN <<Mask>> \o from[i + L] ELSE <<text[i]>> \o from[i + 1]
  <2>1. from[i] = Body(from, i) /\ ~(i > N) /\ (Is(i) <=> IsAt(text, i, secret))
    BY <1>3, <1>9, <1>12
  <2> HIDE DEF Is
  <2> QED BY <2>1
<1> QED BY <1>2, <1>11, <1>13, <1>14

\* A part that the mask is not in.
MaskFree(part) == \A j \in 1..Len(part) : part[j] # Mask

\* Where a part is when a token is put before a text.
Prepended(x, s, w) ==
    \A k \in 1..(Len(s) + 1) : IsAt(<<x>> \o s, k, w) =>
        IF k = 1 THEN w[1] = x /\ (Tail(w) # <<>> => IsAt(s, 1, Tail(w)) /\ Len(s) # 0)
        ELSE IsAt(s, k - 1, w)

LEMMA AtConcat ==
    ASSUME NEW V, NEW x \in V, NEW s \in Seq(V), NEW w \in Seq(V), w # <<>>
    PROVE  Prepended(x, s, w)
<1> DEFINE N == Len(s)
           L == Len(w)
           c == <<x>> \o s
           t == Tail(w)
<1>1. N \in Nat /\ L \in Nat /\ L >= 1
  BY LenProperties, EmptySeq
<1>2. Len(c) = N + 1 /\ c[1] = x /\ \A k \in 1..N : c[k + 1] = s[k]
  <2>1. <<x>> \in Seq(V) /\ Len(<<x>>) = 1 /\ <<x>>[1] = x
    OBVIOUS
  <2>2. Len(c) = 1 + N /\ \A i \in 1..(1 + N) : c[i] = IF i <= 1 THEN <<x>>[i] ELSE s[i - 1]
    BY <2>1, ConcatProperties
  <2> HIDE DEF c
  <2>3. c[1] = x
    BY <1>1, <2>1, <2>2
  <2>4. ASSUME NEW k \in 1..N PROVE c[k + 1] = s[k]
    <3>1. k + 1 \in 1..(1 + N) /\ ~(k + 1 <= 1) /\ (k + 1) - 1 = k
      BY <1>1
    <3> QED BY <2>2, <3>1
  <2> QED BY <1>1, <2>2, <2>3, <2>4
<1>3. Len(t) = L - 1 /\ \A i \in 1..(L - 1) : t[i] = w[i + 1]
  <2>1. /\ Tail(w) \in Seq(V) /\ Len(Tail(w)) = Len(w) - 1
        /\ \A i \in 1..Len(Tail(w)) : Tail(w)[i] = w[i + 1]
    BY HeadTailProperties
  <2> QED BY <2>1
<1> HIDE DEF c, t, N, L
<1>4. ASSUME NEW k \in 2..(N + 1), IsAt(c, k, w) PROVE IsAt(s, k - 1, w)
  <2>1. k + L - 1 <= N + 1 /\ \A j \in 1..L : c[k + j - 1] = w[j]
    BY <1>2, <1>4 DEF IsAt, L
  <2>2. (k - 1) + L - 1 <= N
    BY <1>1, <2>1
  <2>3. ASSUME NEW j \in 1..L PROVE s[(k - 1) + j - 1] = w[j]
    <3>1. (k - 1) + j - 1 \in 1..N /\ ((k - 1) + j - 1) + 1 = k + j - 1
      BY <1>1, <2>1
    <3> QED BY <1>2, <2>1, <3>1
  <2> QED BY <2>2, <2>3 DEF IsAt, N, L
<1>5. ASSUME IsAt(c, 1, w) PROVE w[1] = x /\ (t # <<>> => IsAt(s, 1, t) /\ N # 0)
  <2>1. 1 + L - 1 <= N + 1 /\ \A j \in 1..L : c[1 + j - 1] = w[j]
    BY <1>2, <1>5 DEF IsAt, L
  <2>2. w[1] = x
    <3>1. 1 \in 1..L /\ 1 + 1 - 1 = 1
      BY <1>1
    <3>2. c[1 + 1 - 1] = w[1]
      BY <2>1, <3>1
    <3> QED BY <1>2, <3>2
  <2>3. 1 + Len(t) - 1 <= N
    BY <1>1, <1>3, <2>1
  <2>4. ASSUME NEW j \in 1..Len(t) PROVE s[1 + j - 1] = t[j]
    <3>1. j \in 1..(L - 1) /\ j + 1 \in 1..L /\ 1 + (j + 1) - 1 = j + 1 /\ 1 + j - 1 = j /\ j \in 1..N
      BY <1>1, <1>3, <2>1
    <3>2. c[j + 1] = w[j + 1] /\ t[j] = w[j + 1] /\ c[j + 1] = s[j]
      BY <1>2, <1>3, <2>1, <3>1
    <3> QED BY <3>1, <3>2
  <2>5. t # <<>> => N # 0
    <3> SUFFICES ASSUME N = 0 PROVE t = <<>>
      OBVIOUS
    <3>1. Len(t) = 0 /\ t \in Seq(V)
      <4>1. Len(t) = 0
        BY <1>1, <1>3, <2>3
      <4>2. t \in Seq(V)
        BY HeadTailProperties DEF t
      <4> QED BY <4>1, <4>2
    <3> QED BY <3>1, EmptySeq
  <2> QED BY <2>2, <2>3, <2>4, <2>5 DEF IsAt, N
<1>6. ASSUME NEW k \in 1..(N + 1), IsAt(c, k, w)
      PROVE  IF k = 1 THEN w[1] = x /\ (t # <<>> => IsAt(s, 1, t) /\ N # 0) ELSE IsAt(s, k - 1, w)
  <2>1. k # 1 => k \in 2..(N + 1)
    BY <1>1
  <2> QED BY <1>4, <1>5, <1>6, <2>1
<1> QED BY <1>6 DEF c, t, N, Prepended

\* A part is where its first token is before the rest of it.
LEMMA AtExtends ==
    ASSUME NEW V, NEW text \in Seq(V), NEW i \in 1..Len(text), NEW w \in Seq(V), w # <<>>, w[1] = text[i],
           Tail(w) # <<>> => IsAt(text, i + 1, Tail(w))
    PROVE  IsAt(text, i, w)
<1> DEFINE N == Len(text)
           L == Len(w)
           t == Tail(w)
<1>1. N \in Nat /\ L \in Nat /\ L >= 1
  BY LenProperties, EmptySeq
<1>2. t \in Seq(V) /\ Len(t) = L - 1 /\ \A k \in 1..(L - 1) : t[k] = w[k + 1]
  <2>1. /\ Tail(w) \in Seq(V) /\ Len(Tail(w)) = Len(w) - 1
        /\ \A k \in 1..Len(Tail(w)) : Tail(w)[k] = w[k + 1]
    BY HeadTailProperties
  <2> QED BY <2>1
<1>3. t # <<>> => i + 1 + Len(t) - 1 <= N /\ \A j \in 1..Len(t) : text[i + 1 + j - 1] = t[j]
  BY DEF IsAt
<1>4. i \in 1..N
  OBVIOUS
<1> HIDE DEF N, L, t
<1>5. CASE L = 1
  <2>1. i + L - 1 <= N
    BY <1>1, <1>4, <1>5
  <2>2. ASSUME NEW j \in 1..L PROVE text[i + j - 1] = w[j]
    <3>1. j = 1 /\ i + j - 1 = i
      BY <1>4, <1>5
    <3> QED BY <3>1
  <2> QED BY <2>1, <2>2 DEF IsAt, N, L
<1>6. CASE L # 1
  <2>1. t # <<>>
    BY <1>1, <1>2, <1>6, EmptySeq
  <2>2. i + L - 1 <= N
    BY <1>1, <1>2, <1>3, <1>4, <2>1
  <2>3. ASSUME NEW j \in 1..L PROVE text[i + j - 1] = w[j]
    <3>1. CASE j = 1
      <4>1. i + j - 1 = i
        BY <1>4, <3>1
      <4> QED BY <3>1, <4>1
    <3>2. CASE j # 1
      <4>1. j - 1 \in 1..(L - 1) /\ (j - 1) + 1 = j /\ i + 1 + (j - 1) - 1 = i + j - 1
        BY <1>1, <1>4, <3>2
      <4>2. text[i + 1 + (j - 1) - 1] = t[j - 1] /\ t[j - 1] = w[(j - 1) + 1]
        BY <1>2, <1>3, <2>1, <4>1
      <4> QED BY <4>1, <4>2
    <3> QED BY <3>1, <3>2
  <2> QED BY <2>2, <2>3 DEF IsAt, N, L
<1> QED BY <1>5, <1>6

\* A mask-free part of what is left was in the text, where no secret begins.
LeftFrom(text, secret, i, left, part) ==
    \A k \in 1..Len(left) : IsAt(left, k, part) =>
        \E o \in i..Len(text) : IsAt(text, o, part) /\ ~IsAt(text, o, secret) /\ (k = 1 => o = i)

LEMMA ReplacedLeaves ==
    ASSUME NEW V, Mask \in V, NEW text \in Seq(V), NEW secret \in Seq(V), secret # <<>>
    PROVE  /\ Replaced(text, secret) \in Seq(V)
           /\ \A w \in Seq(V) : w # <<>> /\ MaskFree(w) => LeftFrom(text, secret, 1, Replaced(text, secret), w)
<1> DEFINE N == Len(text)
           L == Len(secret)
           D == 1..(N + 1)
           m == [i \in D |-> N + 1 - i]
<1>1. N \in Nat /\ L \in Nat /\ L >= 1
  BY LenProperties, EmptySeq
<1>2. PICK f \in [D -> Seq(V)] :
        /\ Replaced(text, secret) = f[1]
        /\ f[N + 1] = <<>>
        /\ \A i \in 1..N : f[i] = IF IsAt(text, i, secret) THEN <<Mask>> \o f[i + L]
                                  ELSE <<text[i]>> \o f[i + 1]
  BY ReplacedSteps
<1> DEFINE Left(i) == \A w \in Seq(V) : w # <<>> /\ MaskFree(w) => LeftFrom(text, secret, i, f[i], w)
           S == {i \in D : Left(i)}
<1>3. ASSUME NEW i \in D, \A k \in D : m[k] < m[i] => k \in S PROVE i \in S
  <2>1. CASE i = N + 1
    <3>1. Len(f[i]) = 0
      BY <1>2, <2>1
    <3>2. Left(i)
      BY <3>1 DEF LeftFrom
    <3> QED BY <3>2
  <2>2. CASE i # N + 1
    <3>1. i \in 1..N /\ i + 1 \in D /\ m[i + 1] < m[i]
      <4> HIDE DEF N
      <4> QED BY <1>1, <2>2
    <3>2. Left(i + 1)
      BY <1>3, <3>1
    <3>3. CASE IsAt(text, i, secret)
      <4>1. i + L \in D /\ m[i + L] < m[i]
        <5>1. i + L - 1 <= N
          BY <3>3 DEF IsAt
        <5> HIDE DEF N, L
        <5> QED BY <1>1, <3>1, <5>1
      <4>2. Left(i + L) /\ f[i + L] \in Seq(V)
        BY <1>2, <1>3, <4>1
      <4>3. f[i] = <<Mask>> \o f[i + L]
        BY <1>2, <3>1, <3>3
      <4>4. Len(f[i]) = 1 + Len(f[i + L]) /\ Len(f[i + L]) \in Nat
        <5>1. <<Mask>> \in Seq(V) /\ Len(<<Mask>>) = 1
          OBVIOUS
        <5>2. Len(<<Mask>> \o f[i + L]) = 1 + Len(f[i + L])
          BY <4>2, <5>1, ConcatProperties
        <5>3. Len(f[i + L]) \in Nat
          BY <4>2, LenProperties
        <5> QED BY <4>3, <5>2, <5>3
      <4>5. ASSUME NEW w \in Seq(V), w # <<>>, MaskFree(w), NEW k \in 1..Len(f[i]), IsAt(f[i], k, w)
            PROVE  \E o \in i..N : IsAt(text, o, w) /\ ~IsAt(text, o, secret) /\ (k = 1 => o = i)
        <5>0. IF k = 1 THEN w[1] = Mask /\ (Tail(w) # <<>> => IsAt(f[i + L], 1, Tail(w)) /\ Len(f[i + L]) # 0)
              ELSE IsAt(f[i + L], k - 1, w)
          <6>1. Mask \in V /\ f[i + L] \in Seq(V)
            BY <4>2
          <6>2. Prepended(Mask, f[i + L], w)
            BY <4>5, <6>1, AtConcat
          <6>3. k \in 1..(Len(f[i + L]) + 1)
            BY <4>4
          <6>4. IsAt(<<Mask>> \o f[i + L], k, w)
            BY <4>3, <4>5
          <6> QED BY <6>2, <6>3, <6>4 DEF Prepended
        <5>1. k # 1
          <6> SUFFICES ASSUME k = 1 PROVE FALSE
            OBVIOUS
          <6>1. w[1] = Mask
            BY <5>0
          <6>2. 1 \in 1..Len(w)
            BY <4>5, LenProperties, EmptySeq
          <6> QED BY <4>5, <6>1, <6>2 DEF MaskFree
        <5>2. k \in 2..(Len(f[i + L]) + 1) /\ k - 1 \in 1..Len(f[i + L])
          BY <4>4, <5>1
        <5>3. IsAt(f[i + L], k - 1, w)
          BY <5>0, <5>1
        <5>4. LeftFrom(text, secret, i + L, f[i + L], w)
          BY <4>2, <4>5
        <5>5. PICK o \in (i + L)..N : IsAt(text, o, w) /\ ~IsAt(text, o, secret)
          BY <5>2, <5>3, <5>4 DEF LeftFrom
        <5>6. o \in i..N
          <6> HIDE DEF N, L
          <6> QED BY <1>1, <3>1
        <5> QED BY <5>1, <5>5, <5>6
      <4>6. Left(i)
        BY <4>5 DEF LeftFrom
      <4> QED BY <4>6
    <3>4. CASE ~IsAt(text, i, secret)
      <4>2. f[i + 1] \in Seq(V) /\ text[i] \in V
        BY <1>2, <3>1, ElementOfSeq
      <4>3. f[i] = <<text[i]>> \o f[i + 1]
        BY <1>2, <3>1, <3>4
      <4>4. Len(f[i]) = 1 + Len(f[i + 1]) /\ Len(f[i + 1]) \in Nat
        <5>1. <<text[i]>> \in Seq(V) /\ Len(<<text[i]>>) = 1
          BY <4>2
        <5>2. Len(<<text[i]>> \o f[i + 1]) = 1 + Len(f[i + 1])
          BY <4>2, <5>1, ConcatProperties
        <5>3. Len(f[i + 1]) \in Nat
          BY <4>2, LenProperties
        <5> QED BY <4>3, <5>2, <5>3
      <4>5. ASSUME NEW w \in Seq(V), w # <<>>, MaskFree(w), NEW k \in 1..Len(f[i]), IsAt(f[i], k, w)
            PROVE  \E o \in i..N : IsAt(text, o, w) /\ ~IsAt(text, o, secret) /\ (k = 1 => o = i)
        <5>0. IF k = 1 THEN w[1] = text[i] /\ (Tail(w) # <<>> => IsAt(f[i + 1], 1, Tail(w)) /\ Len(f[i + 1]) # 0)
              ELSE IsAt(f[i + 1], k - 1, w)
          <6>1. text[i] \in V /\ f[i + 1] \in Seq(V)
            BY <4>2
          <6>2. Prepended(text[i], f[i + 1], w)
            BY <4>5, <6>1, AtConcat
          <6>3. k \in 1..(Len(f[i + 1]) + 1)
            BY <4>4
          <6>4. IsAt(<<text[i]>> \o f[i + 1], k, w)
            BY <4>3, <4>5
          <6> QED BY <6>2, <6>3, <6>4 DEF Prepended
        <5>1. CASE k = 1
          <6>1. w[1] = text[i] /\ (Tail(w) # <<>> => IsAt(f[i + 1], 1, Tail(w)) /\ Len(f[i + 1]) # 0)
            BY <5>0, <5>1
          <6>2. Tail(w) # <<>> => IsAt(text, i + 1, Tail(w))
            <7> SUFFICES ASSUME Tail(w) # <<>> PROVE IsAt(text, i + 1, Tail(w))
              OBVIOUS
            <7>1. /\ Tail(w) \in Seq(V) /\ Len(Tail(w)) = Len(w) - 1 /\ Len(w) \in Nat
                  /\ \A j \in 1..Len(Tail(w)) : Tail(w)[j] = w[j + 1]
              BY <4>5, HeadTailProperties, LenProperties
            <7>2. MaskFree(Tail(w))
              <8> SUFFICES ASSUME NEW j \in 1..Len(Tail(w)) PROVE Tail(w)[j] # Mask
                BY DEF MaskFree
              <8>1. j + 1 \in 1..Len(w) /\ Tail(w)[j] = w[j + 1]
                BY <7>1
              <8> QED BY <4>5, <8>1 DEF MaskFree
            <7>3. LeftFrom(text, secret, i + 1, f[i + 1], Tail(w))
              BY <3>2, <7>1, <7>2
            <7>4. 1 \in 1..Len(f[i + 1])
              BY <4>4, <6>1
            <7>5. PICK o \in (i + 1)..N : IsAt(text, o, Tail(w)) /\ (1 = 1 => o = i + 1)
              BY <6>1, <7>3, <7>4 DEF LeftFrom
            <7> QED BY <7>5
          <6>3. IsAt(text, i, w)
            BY <3>1, <4>5, <6>1, <6>2, AtExtends
          <6>4. i \in i..N
            BY <3>1
          <6> QED BY <3>4, <6>3, <6>4
        <5>2. CASE k # 1
          <6>1. k \in 2..(Len(f[i + 1]) + 1) /\ k - 1 \in 1..Len(f[i + 1])
            BY <4>4, <5>2
          <6>2. IsAt(f[i + 1], k - 1, w)
            BY <5>0, <5>2
          <6>3. LeftFrom(text, secret, i + 1, f[i + 1], w)
            BY <3>2, <4>5
          <6>4. PICK o \in (i + 1)..N : IsAt(text, o, w) /\ ~IsAt(text, o, secret)
            BY <6>1, <6>2, <6>3 DEF LeftFrom
          <6>5. o \in i..N
            <7> HIDE DEF N
            <7> QED BY <1>1, <3>1
          <6> QED BY <5>2, <6>4, <6>5
        <5> QED BY <5>1, <5>2
      <4>6. Left(i)
        BY <4>5 DEF LeftFrom
      <4> QED BY <4>6
    <3> QED BY <3>3, <3>4
  <2> QED BY <2>1, <2>2
<1>4. m \in [D -> Nat]
  <2> HIDE DEF N
  <2> QED BY <1>1
<1>5. 1 \in D
  <2> HIDE DEF N
  <2> QED BY <1>1
<1>6. D \subseteq S
  <2> HIDE DEF S, D, m
  <2> QED BY <1>3, <1>4, ByMeasure
<1>7. Left(1) /\ f[1] \in Seq(V)
  BY <1>2, <1>5, <1>6
<1> QED BY <1>2, <1>7

\* Once a secret is replaced the text has it no more, nor anything it did not have.
LEMMA ReplacedHas ==
    ASSUME NEW V, Mask \in V, NEW text \in Seq(V), NEW secret \in Seq(V), secret # <<>>
    PROVE  /\ Replaced(text, secret) \in Seq(V)
           /\ MaskFree(secret) => ~Has(Replaced(text, secret), secret)
           /\ \A w \in Seq(V) : w # <<>> /\ MaskFree(w) /\ ~Has(text, w) => ~Has(Replaced(text, secret), w)
<1> DEFINE R == Replaced(text, secret)
<1>1. R \in Seq(V) /\ \A w \in Seq(V) : w # <<>> /\ MaskFree(w) => LeftFrom(text, secret, 1, R, w)
  BY ReplacedLeaves
<1> HIDE DEF R
<1>2. ASSUME NEW w \in Seq(V), w # <<>>, MaskFree(w), Has(R, w)
      PROVE  \E o \in 1..Len(text) : IsAt(text, o, w) /\ ~IsAt(text, o, secret)
  BY <1>1, <1>2 DEF Has, LeftFrom
<1> QED BY <1>1, <1>2 DEF Has, R

\* The values of a function on a finite set.
LEMMA ImageFinite ==
    ASSUME NEW S, IsFiniteSet(S), NEW f, DOMAIN f = S, f = [x \in S |-> f[x]]
    PROVE  IsFiniteSet({f[x] : x \in S})
<1> DEFINE T == {f[x] : x \in S}
<1>1. f \in [S -> T]
  OBVIOUS
<1>2. \A t \in T : \E x \in S : f[x] = t
  OBVIOUS
<1> HIDE DEF T
<1>3. f \in Surjection(S, T)
  BY <1>1, <1>2 DEF Surjection
<1>4. IsFiniteSet(T)
  BY <1>3, FS_Surjection
<1> QED BY <1>4 DEF T

\* The members of a finite set, each once, the longest first.
Descending(s, S, m) ==
    /\ s \in SetToSeqs(S)
    /\ \A i, j \in 1..Cardinality(S) : i < j => m[s[i]] >= m[s[j]]

LEMMA OrderExists ==
    ASSUME NEW S, IsFiniteSet(S), NEW m \in [S -> Nat]
    PROVE  \E s : Descending(s, S, m)
<1> DEFINE Bad == {T \in SUBSET S : ~\E s : Descending(s, T, m)}
<1> SUFFICES ASSUME Bad # {} PROVE FALSE
  OBVIOUS
<1>1. PICK T \in Bad : \A U \in Bad : U \subseteq T => U = T
  <2>1. Bad \subseteq SUBSET S
    OBVIOUS
  <2> HIDE DEF Bad
  <2> QED BY <2>1, SmallestSubset
<1>2. T \subseteq S /\ ~\E s : Descending(s, T, m)
  BY <1>1
<1>3. IsFiniteSet(T) /\ \A x \in T : m[x] \in Nat
  BY <1>2, FS_Subset
<1> DEFINE n == Cardinality(T)
<1>4. T # {}
  <2> SUFFICES ASSUME T = {} PROVE FALSE
    OBVIOUS
  <2>1. 1..n = {}
    BY FS_EmptySet
  <2> DEFINE s == [i \in 1..n |-> i]
  <2>2. s \in [1..n -> T] /\ \A i, j \in 1..n : FALSE
    BY <2>1
  <2> HIDE DEF s
  <2>3. Descending(s, T, m)
    BY <2>2 DEF Descending, SetToSeqs
  <2> QED BY <1>2, <2>3
<1>5. PICK x \in T : \A y \in T : m[x] <= m[y]
  <2> DEFINE M == {m[y] : y \in T}
  <2>1. M \subseteq Nat /\ M # {}
    BY <1>3, <1>4
  <2> HIDE DEF M
  <2>2. PICK k \in M : \A l \in M : k <= l
    BY <2>1, SmallestNat
  <2> QED BY <2>2 DEF M
<1> DEFINE U == T \ {x}
<1>6. IsFiniteSet(U) /\ Cardinality(U) = n - 1 /\ n \in Nat /\ Cardinality(U) \in Nat
  BY <1>3, FS_RemoveElement, FS_CardinalityType
<1>7. PICK t : Descending(t, U, m)
  BY <1>1, <1>2
<1> DEFINE s == [i \in 1..n |-> IF i < n THEN t[i] ELSE x]
<1>8. /\ t \in [1..(n - 1) -> U]
      /\ \A i, j \in 1..(n - 1) : i # j => t[i] # t[j]
      /\ \A i, j \in 1..(n - 1) : i < j => m[t[i]] >= m[t[j]]
  BY <1>6, <1>7 DEF Descending, SetToSeqs
<1> HIDE DEF n, Bad
<1>9. ASSUME NEW i \in 1..n PROVE IF i < n THEN i \in 1..(n - 1) /\ s[i] = t[i] /\ s[i] \in U ELSE i = n /\ s[i] = x
  BY <1>6, <1>8
<1> HIDE DEF s
<1>10. \A i \in 1..n : s[i] \in T
  BY <1>9
<1>11. ASSUME NEW i \in 1..n, NEW j \in 1..n, i # j PROVE s[i] # s[j]
  <2>1. CASE i < n /\ j < n
    BY <1>8, <1>9, <1>11, <2>1
  <2>2. CASE ~(i < n /\ j < n)
    BY <1>9, <1>11, <2>2
  <2> QED BY <2>1, <2>2
<1>12. ASSUME NEW i \in 1..n, NEW j \in 1..n, i < j PROVE m[s[i]] >= m[s[j]]
  <2>1. CASE j < n
    <3>1. i < n
      BY <1>6, <1>12, <2>1
    <3> QED BY <1>8, <1>9, <1>12, <2>1, <3>1
  <2>2. CASE ~(j < n)
    <3>1. s[j] = x /\ s[i] \in T
      BY <1>9, <1>10, <2>2
    <3>2. m[x] <= m[s[i]] /\ m[x] \in Nat /\ m[s[i]] \in Nat
      BY <1>3, <1>5, <3>1
    <3> QED BY <3>1, <3>2
  <2> QED BY <2>1, <2>2
<1>13. s \in [1..n -> T]
  <2>1. s = [i \in 1..n |-> s[i]]
    BY DEF s
  <2> QED BY <1>10, <2>1
<1>14. Descending(s, T, m)
  BY <1>11, <1>12, <1>13 DEF Descending, SetToSeqs, n
<1> QED BY <1>2, <1>14

\* The secrets of a run, in the order in which they are masked.
LEMMA SecretsInOrder ==
    ASSUME NEW V, input.secrets \in Seq(Pair), \A n \in DOMAIN Secrets : Secrets[n] \in Seq(V) /\ Secrets[n] # <<>>
    PROVE  /\ Len(InOrder) \in Nat
           /\ \A k \in 1..Len(InOrder) : InOrder[k] \in Seq(V) /\ InOrder[k] # <<>>
           /\ \A k \in 1..Len(InOrder) : InOrder[k] \in SecretValues
           /\ \A n \in DOMAIN Secrets : \E k \in 1..Len(InOrder) : InOrder[k] = Secrets[n]
           /\ \A i, j \in 1..Len(InOrder) : i < j => Len(InOrder[i]) >= Len(InOrder[j])
<1> DEFINE S == SecretValues
           n == Cardinality(S)
           m == [s \in S |-> Len(s)]
<1>1. \A s \in S : s \in Seq(V) /\ s # <<>> /\ Len(s) \in Nat
  BY LenProperties DEF SecretValues
<1>2. IsFiniteSet(S)
  <2> DEFINE I == 1..Len(input.secrets)
             N == {input.secrets[i].name : i \in I}
             f == [i \in I |-> input.secrets[i].name]
             g == [k \in N |-> Secrets[k]]
  <2>1. Len(input.secrets) \in Nat /\ DOMAIN input.secrets = I
    BY LenProperties
  <2>2. IsFiniteSet(I)
    BY <2>1, FS_Interval
  <2>3. DOMAIN Secrets = N
    BY <2>1 DEF Secrets, ValueOf, ToSet
  <2>4. IsFiniteSet(N)
    <3>1. IsFiniteSet({f[i] : i \in I})
      <4>1. f = [i \in I |-> f[i]] /\ DOMAIN f = I
        OBVIOUS
      <4> HIDE DEF f, I
      <4> QED BY <2>2, <4>1, ImageFinite
    <3>2. {f[i] : i \in I} = N
      OBVIOUS
    <3> QED BY <3>1, <3>2
  <2> HIDE DEF N
  <2>5. IsFiniteSet({g[k] : k \in N})
    <3>1. g = [k \in N |-> g[k]] /\ DOMAIN g = N
      OBVIOUS
    <3> HIDE DEF g
    <3> QED BY <2>4, <3>1, ImageFinite
  <2>6. {g[k] : k \in N} = S
    BY <2>3 DEF SecretValues
  <2> QED BY <2>5, <2>6
<1>3. \E s : Descending(s, S, m)
  <2>1. m \in [S -> Nat]
    BY <1>1
  <2> HIDE DEF S, m
  <2> QED BY <1>2, <2>1, OrderExists
<1>4. \E s \in SetToSeqs(S) : \A i, j \in 1..n : i < j => Len(s[i]) >= Len(s[j])
  <2>1. PICK s : Descending(s, S, m)
    BY <1>3
  <2>2. s \in [1..n -> S]
    BY <2>1 DEF Descending, SetToSeqs
  <2>3. ASSUME NEW i \in 1..n, NEW j \in 1..n, i < j PROVE Len(s[i]) >= Len(s[j])
    <3>1. m[s[i]] >= m[s[j]] /\ s[i] \in S /\ s[j] \in S
      BY <2>1, <2>2, <2>3 DEF Descending
    <3> HIDE DEF S
    <3> QED BY <3>1
  <2> QED BY <2>1, <2>3 DEF Descending
<1>5. InOrder \in SetToSeqs(S) /\ \A i, j \in 1..n : i < j => Len(InOrder[i]) >= Len(InOrder[j])
  <2> HIDE DEF n
  <2> QED BY <1>4 DEF InOrder, n
<1>6. n \in Nat
  BY <1>2, FS_CardinalityType
<1>7. InOrder \in [1..n -> S] /\ \A i, j \in 1..n : i # j => InOrder[i] # InOrder[j]
  BY <1>5 DEF SetToSeqs
<1>8. InOrder \in Injection(1..n, S)
  <2> HIDE DEF n, S
  <2> QED BY <1>7 DEF Injection, IsInjective
<1>9. Cardinality(1..n) = Cardinality(S)
  <2>1. Cardinality(1..n) = IF 1 > n THEN 0 ELSE n - 1 + 1
    <3>1. n \in Int /\ 1 \in Int
      BY <1>6
    <3> HIDE DEF n
    <3> QED BY <3>1, FS_Interval
  <2>2. (IF 1 > n THEN 0 ELSE n - 1 + 1) = n
    <3> HIDE DEF n
    <3> QED BY <1>6
  <2> QED BY <2>1, <2>2
<1>10. InOrder \in Surjection(1..n, S)
  <2> HIDE DEF S
  <2> QED BY <1>2, <1>8, <1>9, FS_Injection
<1>11. \A s \in S : \E k \in 1..n : InOrder[k] = s
  <2> HIDE DEF n, S
  <2> QED BY <1>10 DEF Surjection
<1>12. Len(InOrder) = n
  <2>1. InOrder \in Seq(S)
    <3> HIDE DEF n, S
    <3> QED BY <1>6, <1>7
  <2> HIDE DEF n, S
  <2> QED BY <1>6, <1>7, <2>1, LenProperties
<1>13. \A k \in DOMAIN Secrets : Secrets[k] \in S
  BY DEF SecretValues
<1> HIDE DEF n
<1>14. \A k \in 1..n : InOrder[k] \in S /\ InOrder[k] \in Seq(V) /\ InOrder[k] # <<>>
  <2> HIDE DEF S
  <2> QED BY <1>1, <1>7
<1>15. \A k \in DOMAIN Secrets : \E i \in 1..n : InOrder[i] = Secrets[k]
  <2> HIDE DEF S
  <2> QED BY <1>11, <1>13
<1> QED BY <1>5, <1>6, <1>12, <1>14, <1>15

\* What texts of an output are made of.
Tokens == Words \cup {Mask, Quote} \cup {Percent[w] : w \in DOMAIN Percent}

LEMMA EncodedTyped ==
    ASSUME NEW secret \in Seq(Tokens), secret # <<>>
    PROVE  Encoded(secret) \in Seq(Tokens) /\ Encoded(secret) # <<>> /\ Len(Encoded(secret)) = Len(secret)
<1> DEFINE N == Len(secret)
<1>1. N \in Nat /\ N # 0
  BY LenProperties, EmptySeq
<1>2. \A i \in 1..N : secret[i] \in Tokens
  BY ElementOfSeq
<1>3. \A i \in 1..N : (IF secret[i] \in DOMAIN Percent THEN Percent[secret[i]] ELSE secret[i]) \in Tokens
  BY <1>2 DEF Tokens
<1>4. Encoded(secret) = [i \in 1..N |-> IF secret[i] \in DOMAIN Percent THEN Percent[secret[i]] ELSE secret[i]]
  BY DEF Encoded
<1> HIDE DEF N
<1>5. Encoded(secret) \in [1..N -> Tokens]
  BY <1>3, <1>4
<1>6. Encoded(secret) \in Seq(Tokens)
  BY <1>1, <1>5
<1>7. Len(Encoded(secret)) = N
  BY <1>1, <1>5, <1>6, LenProperties
<1> QED BY <1>1, <1>6, <1>7, EmptySeq DEF N

\* A text that a secret is not in, neither as it is nor encoded.
Lacks(text, secret) ==
    \A w \in {secret, Encoded(secret)} : MaskFree(w) => ~Has(text, w)

LEMMA MaskedOnceLacks ==
    ASSUME NEW text \in Seq(Tokens), NEW secret \in Seq(Tokens), secret # <<>>
    PROVE  /\ MaskedOnce(text, secret) \in Seq(Tokens)
           /\ Lacks(MaskedOnce(text, secret), secret)
           /\ \A s \in Seq(Tokens) : s # <<>> /\ Lacks(text, s) => Lacks(MaskedOnce(text, secret), s)
<1> DEFINE e == Encoded(secret)
           a == Replaced(text, secret)
           b == Replaced(a, e)
           Parts == {w \in Seq(Tokens) : w # <<>> /\ MaskFree(w)}
<1>0. Mask \in Tokens
  BY DEF Tokens
<1>1. e \in Seq(Tokens) /\ e # <<>>
  BY EncodedTyped
<1> HIDE DEF e
<1>2. /\ a \in Seq(Tokens) /\ (MaskFree(secret) => ~Has(a, secret))
      /\ \A w \in Parts : ~Has(text, w) => ~Has(a, w)
  BY <1>0, ReplacedHas
<1> HIDE DEF a
<1>3. /\ b \in Seq(Tokens) /\ (MaskFree(e) => ~Has(b, e))
      /\ \A w \in Parts : ~Has(a, w) => ~Has(b, w)
  BY <1>0, <1>1, <1>2, ReplacedHas
<1>4. MaskedOnce(text, secret) = b
  BY DEF MaskedOnce, a, e
<1> HIDE DEF b
<1>5. Lacks(b, secret)
  <2>1. MaskFree(secret) => secret \in Parts
    OBVIOUS
  <2>2. MaskFree(secret) => ~Has(b, secret)
    BY <1>2, <1>3, <2>1
  <2> QED BY <1>3, <2>2 DEF Lacks, e
<1>6. ASSUME NEW s \in Seq(Tokens), s # <<>>, Lacks(text, s) PROVE Lacks(b, s)
  <2> SUFFICES ASSUME NEW w \in {s, Encoded(s)}, MaskFree(w) PROVE ~Has(b, w)
    BY DEF Lacks
  <2>1. w \in Parts
    <3>1. Encoded(s) \in Seq(Tokens) /\ Encoded(s) # <<>>
      BY <1>6, EncodedTyped
    <3> QED BY <1>6, <3>1
  <2>2. ~Has(text, w)
    BY <1>6 DEF Lacks
  <2> HIDE DEF Parts
  <2> QED BY <1>2, <1>3, <2>1, <2>2
<1> QED BY <1>3, <1>4, <1>5, <1>6

\* Secrets of texts, none empty.
SecretsGiven ==
    /\ input.secrets \in Seq(Pair)
    /\ \A n \in DOMAIN Secrets : Secrets[n] \in Seq(Tokens) /\ Secrets[n] # <<>>

\* The equation of `masked` in Masked.
LEMMA MaskedSteps ==
    ASSUME SecretsGiven, NEW text \in Seq(Tokens)
    PROVE  \E masked \in [0..Len(InOrder) -> Seq(Tokens)] :
             /\ Masked(text) = masked[Len(InOrder)]
             /\ masked[0] = text
             /\ \A k \in 1..Len(InOrder) : masked[k] = MaskedOnce(masked[k - 1], InOrder[k])
<1> DEFINE K == Len(InOrder)
           D == 0..K
           V == Seq(Tokens)
           Body(g, k) == IF k = 0 THEN text ELSE MaskedOnce(g[k - 1], InOrder[k])
           masked == CHOOSE g : g = [k \in D |-> Body(g, k)]
           m == [k \in D |-> k]
           H == [k \in D |-> [g \in [D -> V] |-> Body(g, k)]]
<1>1. /\ K \in Nat
      /\ \A k \in 1..K : InOrder[k] \in V /\ InOrder[k] # <<>>
      /\ \A n \in DOMAIN Secrets : \E k \in 1..K : InOrder[k] = Secrets[n]
  BY SecretsInOrder DEF SecretsGiven
<1>2. Masked(text) = masked[K]
  BY DEF Masked
<1>3. ASSUME NEW k \in D, k # 0 PROVE k \in 1..K /\ k - 1 \in D /\ k - 1 < k
  <2> HIDE DEF K
  <2> QED BY <1>1, <1>3
<1>4. ASSUME NEW k \in D, NEW g \in [D -> V] PROVE Body(g, k) \in V
  <2>1. CASE k = 0
    BY <2>1
  <2>2. CASE k # 0
    <3>1. g[k - 1] \in V /\ InOrder[k] \in V /\ InOrder[k] # <<>>
      BY <1>1, <1>3, <2>2
    <3>2. MaskedOnce(g[k - 1], InOrder[k]) \in V
      BY <3>1, MaskedOnceLacks
    <3> QED BY <2>2, <3>2
  <2> QED BY <2>1, <2>2
<1>5. \E g \in [D -> V] : \A k \in D : g[k] = Body(g, k)
  <2>1. m \in [D -> Nat]
    <3> HIDE DEF K
    <3> QED BY <1>1
  <2>2. H \in [D -> [[D -> V] -> V]]
    <3> HIDE DEF Body, V, D
    <3> QED BY <1>4
  <2>3. ASSUME NEW k \in D, NEW g \in [D -> V], NEW h \in [D -> V],
               \A j \in D : m[j] < m[k] => g[j] = h[j]
        PROVE  H[k][g] = H[k][h]
    <3>1. k # 0 => g[k - 1] = h[k - 1]
      BY <1>3, <2>3
    <3>2. Body(g, k) = Body(h, k)
      BY <3>1
    <3> HIDE DEF Body, V
    <3> QED BY <3>2
  <2>4. Recursive(D, V, m, H)
    <3>1. V # {}
      BY EmptySeq
    <3> HIDE DEF D, H, m, V
    <3> QED BY <2>1, <2>2, <2>3, <3>1 DEF Recursive
  <2>5. PICK g \in [D -> V] : Solves(g, D, H)
    <3> HIDE DEF V, D, H
    <3> QED BY <2>4, RecursionSolved
  <2>6. \A k \in D : g[k] = Body(g, k)
    <3> HIDE DEF V, D, Body
    <3> QED BY <2>5 DEF Solves
  <2> HIDE DEF Body, D, V
  <2> QED BY <2>6
<1>6. masked = [k \in D |-> Body(masked, k)]
  <2> HIDE DEF Body, D, V
  <2>1. PICK g \in [D -> V] : \A k \in D : g[k] = Body(g, k)
    BY <1>5
  <2>2. g = [k \in D |-> Body(g, k)]
    BY <2>1
  <2> QED BY <2>2
<1>7. ASSUME NEW k \in D PROVE masked[k] = Body(masked, k)
  <2> HIDE DEF Body, masked, D
  <2> QED BY <1>6
<1> HIDE DEF masked
<1>8. 0 \in D /\ \A k \in 1..K : k \in D /\ k # 0
  <2> HIDE DEF K
  <2> QED BY <1>1
<1>9. masked[0] = text /\ \A k \in 1..K : masked[k] = MaskedOnce(masked[k - 1], InOrder[k])
  <2> HIDE DEF D
  <2> QED BY <1>7, <1>8
<1>10. masked \in [D -> V]
  <2> DEFINE S == {k \in Nat : k \in D => masked[k] \in V}
  <2>1. 0 \in S
    BY <1>9
  <2>2. ASSUME NEW k \in Nat, k \in S PROVE k + 1 \in S
    <3> SUFFICES ASSUME k + 1 \in D PROVE masked[k + 1] \in V
      OBVIOUS
    <3>1. k \in D /\ k + 1 \in 1..K /\ (k + 1) - 1 = k
      <4> HIDE DEF K
      <4> QED BY <1>1
    <3>2. masked[k] \in V /\ InOrder[k + 1] \in V /\ InOrder[k + 1] # <<>>
      BY <1>1, <2>2, <3>1
    <3>3. masked[k + 1] = MaskedOnce(masked[k], InOrder[k + 1])
      BY <1>9, <3>1
    <3> QED BY <3>2, <3>3, MaskedOnceLacks
  <2>3. D \subseteq Nat
    <3> HIDE DEF K
    <3> QED BY <1>1
  <2> HIDE DEF S, V
  <2>4. Nat \subseteq S
    BY <2>1, <2>2, NatIsAll
  <2>5. \A k \in D : masked[k] \in V
    BY <2>3, <2>4 DEF S
  <2> HIDE DEF D, Body
  <2> QED BY <1>6, <2>5
<1> QED BY <1>2, <1>9, <1>10

LEMMA MaskedLacks ==
    ASSUME SecretsGiven, NEW text \in Seq(Tokens)
    PROVE  Masked(text) \in Seq(Tokens) /\ \A n \in DOMAIN Secrets : Lacks(Masked(text), Secrets[n])
<1> DEFINE K == Len(InOrder)
           D == 0..K
           V == Seq(Tokens)
<1>1. /\ K \in Nat
      /\ \A k \in 1..K : InOrder[k] \in V /\ InOrder[k] # <<>>
      /\ \A n \in DOMAIN Secrets : \E k \in 1..K : InOrder[k] = Secrets[n]
  BY SecretsInOrder DEF SecretsGiven
<1>2. PICK masked \in [D -> V] :
        /\ Masked(text) = masked[K]
        /\ masked[0] = text
        /\ \A k \in 1..K : masked[k] = MaskedOnce(masked[k - 1], InOrder[k])
  BY MaskedSteps
<1> DEFINE Done(k) == masked[k] \in V /\ \A j \in 1..k : Lacks(masked[k], InOrder[j])
           S == {k \in Nat : k \in D => Done(k)}
<1>8. 0 \in S
  <2>1. \A j \in 1..0 : FALSE
    OBVIOUS
  <2> QED BY <1>2, <2>1
<1>9. ASSUME NEW k \in Nat, k \in S PROVE k + 1 \in S
  <2> SUFFICES ASSUME k + 1 \in D PROVE Done(k + 1)
    OBVIOUS
  <2>1. k \in D /\ k + 1 \in 1..K /\ (k + 1) - 1 = k
    <3> HIDE DEF K
    <3> QED BY <1>1
  <2>2. masked[k + 1] = MaskedOnce(masked[k], InOrder[k + 1])
    BY <1>2, <2>1
  <2>3. masked[k] \in V /\ \A j \in 1..k : Lacks(masked[k], InOrder[j])
    BY <1>9, <2>1
  <2>4. InOrder[k + 1] \in V /\ InOrder[k + 1] # <<>>
    BY <1>1, <2>1
  <2>5. /\ masked[k + 1] \in V /\ Lacks(masked[k + 1], InOrder[k + 1])
        /\ \A s \in V : s # <<>> /\ Lacks(masked[k], s) => Lacks(masked[k + 1], s)
    BY <2>2, <2>3, <2>4, MaskedOnceLacks
  <2>6. ASSUME NEW j \in 1..(k + 1) PROVE Lacks(masked[k + 1], InOrder[j])
    <3>1. CASE j = k + 1
      BY <2>5, <3>1
    <3>2. CASE j # k + 1
      <4>1. j \in 1..k /\ j \in 1..K
        <5>1. K \in Nat /\ k + 1 \in 1..K /\ k \in Nat /\ j \in 1..(k + 1)
          BY <1>1, <2>1
        <5> HIDE DEF K, D, S
        <5> QED BY <3>2, <5>1
      <4> HIDE DEF V, K
      <4> QED BY <1>1, <2>3, <2>5, <4>1
    <3> QED BY <3>1, <3>2
  <2> QED BY <2>5, <2>6
<1>10. K \in S
  <2> HIDE DEF S
  <2> QED BY <1>1, <1>8, <1>9, NatIsAll
<1>11. Done(K)
  <2>1. K \in D
    <3> HIDE DEF K
    <3> QED BY <1>1
  <2> QED BY <1>10, <2>1
<1> HIDE DEF K
<1> QED BY <1>1, <1>2, <1>11

LEMMA GivenSecrets ==
    ASSUME input \in Inputs, ~PairsRefused(input.secrets, "secret")
    PROVE  SecretsGiven
<1> DEFINE pairs == input.secrets
<1>1. IsInput(input)
  BY FileAssumption
<1>2. /\ pairs \in Seq(Pair)
      /\ \A p \in ToSet(pairs) : IsText(p.value)
  BY <1>1 DEF IsInput
<1>3. DOMAIN pairs = 1..Len(pairs)
  BY <1>2, LenProperties
<1>4. ASSUME NEW n \in DOMAIN Secrets PROVE Secrets[n] \in Seq(Tokens) /\ Secrets[n] # <<>>
  <2> DEFINE p == CHOOSE q \in ToSet(pairs) : q.name = n
  <2>1. \E q \in ToSet(pairs) : q.name = n
    BY <1>4 DEF Secrets, ValueOf
  <2>2. p \in ToSet(pairs)
    BY <2>1
  <2>3. Secrets[n] = p.value
    BY <1>4 DEF Secrets, ValueOf
  <2> HIDE DEF p
  <2>4. PICK i \in 1..Len(pairs) : p = pairs[i]
    BY <1>3, <2>2 DEF ToSet
  <2>5. p.value # <<>>
    BY <2>4 DEF PairsRefused, Refused
  <2>6. p.value \in Seq(STRING)
    BY <1>2, <2>2 DEF IsText
  <2>7. Seq(STRING) \subseteq Seq(Tokens)
    BY SeqMonotonic DEF Tokens, Words
  <2> QED BY <2>3, <2>5, <2>6, <2>7
<1> QED BY <1>2, <1>4 DEF SecretsGiven

\* What a secret has in common with a text of the output is that the mask is in it.
Hidden(text) ==
    \A n \in DOMAIN Secrets : \A secret \in {Secrets[n], Encoded(Secrets[n])} :
        Mask \in ToSet(secret) \/ secret \notin SubSeqs(text)

LEMMA MaskHides ==
    ASSUME SecretsGiven
    PROVE  Hidden(<<Mask>>)
<1> SUFFICES ASSUME NEW n \in DOMAIN Secrets, NEW secret \in {Secrets[n], Encoded(Secrets[n])},
                    secret \in SubSeqs(<<Mask>>)
             PROVE  Mask \in ToSet(secret)
  BY DEF Hidden
<1>1. secret \in Seq(Tokens) /\ secret # <<>>
  BY EncodedTyped DEF SecretsGiven
<1>2. <<Mask>> \in Seq(Tokens) /\ Len(<<Mask>>) = 1 /\ <<Mask>>[1] = Mask
  BY DEF Tokens
<1>3. Has(<<Mask>>, secret)
  BY <1>1, <1>2, PartsAre
<1>4. PICK i \in 1..1 : IsAt(<<Mask>>, i, secret)
  BY <1>2, <1>3 DEF Has
<1>5. Len(secret) \in Nat /\ Len(secret) # 0 /\ DOMAIN secret = 1..Len(secret)
  BY <1>1, LenProperties, EmptySeq
<1>6. 1 \in 1..Len(secret) /\ i + 1 - 1 = 1 /\ i = 1
  BY <1>5
<1>7. <<Mask>>[i + 1 - 1] = secret[1]
  BY <1>4, <1>6 DEF IsAt
<1>8. secret[1] = Mask
  BY <1>2, <1>6, <1>7
<1> QED BY <1>5, <1>6, <1>8 DEF ToSet

LEMMA MaskedHides ==
    ASSUME SecretsGiven, NEW text \in Seq(Tokens)
    PROVE  Masked(text) \in Seq(Tokens) /\ Hidden(Masked(text))
<1>1. Masked(text) \in Seq(Tokens) /\ \A n \in DOMAIN Secrets : Lacks(Masked(text), Secrets[n])
  BY MaskedLacks
<1>2. ASSUME NEW n \in DOMAIN Secrets, NEW secret \in {Secrets[n], Encoded(Secrets[n])},
             secret \in SubSeqs(Masked(text))
      PROVE  Mask \in ToSet(secret)
  <2>1. secret \in Seq(Tokens) /\ secret # <<>>
    BY EncodedTyped DEF SecretsGiven
  <2>2. Has(Masked(text), secret)
    BY <1>1, <1>2, <2>1, PartsAre
  <2>3. ~MaskFree(secret)
    BY <1>1, <2>2 DEF Lacks
  <2>4. DOMAIN secret = 1..Len(secret)
    BY <2>1, LenProperties
  <2> QED BY <2>3, <2>4 DEF MaskFree, ToSet
<1> QED BY <1>1, <1>2 DEF Hidden

\* A value is a text of tokens when it has been written as JSON.
LEMMA JsonTyped ==
    ASSUME NEW v, IsValue(v)
    PROVE  Json(v) \in Seq(Tokens)
<1>1. STRING \subseteq Tokens /\ Seq(STRING) \subseteq Seq(Tokens)
  BY SeqMonotonic DEF Tokens, Words
<1>2. CASE v.is = "text"
  <2> DEFINE t == v.text
             Piece(i) == IF t[i] \in DOMAIN JsonEscape THEN JsonEscape[t[i]] ELSE <<t[i]>>
             s == [i \in 1..Len(t) |-> Piece(i)]
  <2>1. t \in Seq(STRING)
    BY <1>2 DEF IsValue
  <2> HIDE DEF t
  <2>2. Len(t) \in Nat /\ \A i \in 1..Len(t) : t[i] \in STRING
    BY <2>1, LenProperties, ElementOfSeq
  <2>3. ASSUME NEW i \in 1..Len(t) PROVE Piece(i) \in Seq(STRING)
    <3>1. CASE t[i] \in DOMAIN JsonEscape
      BY <3>1, FileAssumption
    <3>2. CASE t[i] \notin DOMAIN JsonEscape
      BY <2>2, <3>2
    <3> QED BY <3>1, <3>2
  <2>4. JsonText(t) = FlattenSeq(s)
    BY DEF JsonText
  <2>5. s \in Seq(Seq(STRING))
    <3> HIDE DEF Piece
    <3> QED BY <2>2, <2>3, IsASeq
  <2> HIDE DEF s
  <2>6. JsonText(t) \in Seq(STRING)
    <3>1. <<>> \in Seq(STRING)
      BY EmptySeq
    <3>2. FlattenSeq(s) \in Seq(STRING)
      BY <2>5, <3>1, FlattenAppend
    <3> HIDE DEF t
    <3> QED BY <2>4, <3>2
  <2>7. <<Quote>> \in Seq(Tokens)
    BY DEF Tokens
  <2>8. Json(v) = <<Quote>> \o JsonText(t) \o <<Quote>>
    BY <1>2 DEF Json, t
  <2> DEFINE q == <<Quote>>
             j == JsonText(t)
  <2>9. q \in Seq(Tokens) /\ j \in Seq(Tokens)
    BY <1>1, <2>6, <2>7
  <2> HIDE DEF q, j
  <2>10. (q \o j) \in Seq(Tokens)
    BY <2>9, ConcatProperties
  <2>11. (q \o j) \o q \in Seq(Tokens)
    BY <2>9, <2>10, ConcatProperties
  <2> QED BY <1>1, <2>8, <2>11 DEF q, j
<1>3. CASE v.is # "text"
  BY <1>1, <1>3 DEF IsValue, Json
<1> QED BY <1>2, <1>3

LEMMA PartIs ==
    \A part, whole, text :
        /\ Part(part, whole, text).part = part /\ Part(part, whole, text).whole = whole
        /\ Part(part, whole, text).text = text
BY DEF Part

\* What is shown as it is.
LEMMA NotMasked ==
    ASSUME NEW s, NEW t,
           \/ s = AsItIs("name", t) \/ s = AsItIs("method", t) \/ s = AsItIs("header", t)
           \/ s = AsItIs("reply's header", t) \/ s = AsItIs("path", t) \/ s = AsItIs("argument", t)
    PROVE  s.part \notin MaskedParts
<1>1. \E part \in {"name", "method", "header", "reply's header", "path", "argument"} : s = Part(part, t, t)
  BY DEF AsItIs
<1>2. PICK part \in {"name", "method", "header", "reply's header", "path", "argument"} : s = Part(part, t, t)
  BY <1>1
<1>3. s.part = part
  BY <1>2, PartIs
<1> QED BY <1>2, <1>3 DEF MaskedParts

\* A part of the output that is masked: all of its text hidden, or its secrets, by
\* redact_value, by mask_secret_values, or by one after the other.
Treated(s) ==
    /\ s.whole \in Seq(Tokens)
    /\ s.text \in {<<Mask>>, Masked(s.whole), Masked(<<Mask>>), Masked(Masked(s.whole))}

LEMMA TreatedHides ==
    ASSUME SecretsGiven, NEW s, Treated(s)
    PROVE  Hidden(s.text)
<1>1. <<Mask>> \in Seq(Tokens)
  BY DEF Tokens
<1>2. Hidden(<<Mask>>) /\ Hidden(Masked(<<Mask>>))
  BY <1>1, MaskHides, MaskedHides
<1>3. s.whole \in Seq(Tokens)
  BY DEF Treated
<1>4. Masked(s.whole) \in Seq(Tokens) /\ Hidden(Masked(s.whole))
  BY <1>3, MaskedHides
<1>5. Hidden(Masked(Masked(s.whole)))
  BY <1>4, MaskedHides
<1> QED BY <1>2, <1>4, <1>5 DEF Treated

LEMMA RedactedIs ==
    \A text : Redacted(text) \in {<<Mask>>, Masked(text)}
BY DEF Redacted

\* The output of a run that has come to its response.
LEMMA OutputIs ==
    ASSUME VerdictInv, ExpandInv, phase = "evaluate", NEW s \in Output, s.part \in MaskedParts
    PROVE  Treated(s)
<1>1. /\ input \in Inputs /\ reply \in Replies(input)
      /\ request \in [ToSet(Fields) -> Seq(Words)]
  BY DEF VerdictInv, ExpandInv
<1>2. IsInput(input) /\ IsReply(reply)
  BY <1>1, FileAssumption
<1>3. Seq(STRING) \subseteq Seq(Tokens) /\ Seq(Words) \subseteq Seq(Tokens)
  BY SeqMonotonic DEF Tokens, Words
<1>4. request.url \in Seq(Tokens) /\ request.body \in Seq(Tokens) /\ request.value \in Seq(Tokens)
  BY <1>1, <1>3, FieldNames
<1>5. reply.raw \in Seq(Tokens) /\ \A h \in DOMAIN reply.headers : reply.headers[h] \in Seq(Tokens)
  BY <1>2, <1>3 DEF IsReply
<1>6. CASE s \in ShownRequest
  <2>1. \/ s = AsItIs("name", file.name) \/ s = AsItIs("method", Method) \/ s = AsItIs("header", <<HeaderName>>)
        \/ s = Part("url", request.url, Redacted(request.url))
        \/ s = Part("value", request.value, <<Mask>>) \/ s = Part("value", request.value, Redacted(request.value))
        \/ s = Part("body", request.body, Redacted(request.body))
    BY <1>6 DEF ShownRequest
  <2>2. \A t : s # AsItIs("name", t) /\ s # AsItIs("method", t) /\ s # AsItIs("header", t)
    BY NotMasked
  <2>3. PICK t \in Seq(Tokens) : \E part : s = Part(part, t, <<Mask>>) \/ s = Part(part, t, Redacted(t))
    BY <1>4, <2>1, <2>2
  <2>4. s.whole = t /\ s.text \in {<<Mask>>, Redacted(t)}
    BY <2>3, PartIs
  <2> QED BY <2>3, <2>4, RedactedIs DEF Treated
<1>7. CASE s \in ShownReply
  <2>1. \/ s = Part("reply's body", reply.raw, Redacted(reply.raw))
        \/ \E h \in DOMAIN reply.headers :
             \/ s = AsItIs("reply's header", <<h>>)
             \/ s = Part("reply's value", reply.headers[h], <<Mask>>)
             \/ s = Part("reply's value", reply.headers[h], Redacted(reply.headers[h]))
    BY <1>7 DEF ShownReply
  <2>2. \A t : s # AsItIs("reply's header", t)
    BY NotMasked
  <2>3. PICK t \in Seq(Tokens) : \E part : s = Part(part, t, <<Mask>>) \/ s = Part(part, t, Redacted(t))
    BY <1>5, <2>1, <2>2
  <2>4. s.whole = t /\ s.text \in {<<Mask>>, Redacted(t)}
    BY <2>3, PartIs
  <2> QED BY <2>3, <2>4, RedactedIs DEF Treated
<1>8. CASE s \in ShownFailure
  <2>1. PICK v \in Expected \cup Quoted :
          s = Part("message", Json(v), Masked(Json(v))) \/ s = Part("message", Json(v), Masked(Redacted(Json(v))))
    BY <1>8 DEF ShownFailure
  <2>2. /\ file.expect # NotGiven /\ file.expect.bodyEq # NotGiven
        /\ v = file.expect.bodyEq.value \/ v \in Selected(file.expect.bodyEq.path)
    BY <2>1 DEF Expected, Quoted, EqFails
  <2>3. IsPath(file.expect.bodyEq.path) /\ IsValue(file.expect.bodyEq.value)
    BY <1>2, <2>2 DEF IsInput, file
  <2>4. Json(v) \in Seq(Tokens)
    BY <1>2, <2>2, <2>3, SelectedValues, JsonTyped
  <2>5. s.whole = Json(v) /\ s.text \in {Masked(Json(v)), Masked(Redacted(Json(v)))}
    BY <2>1, PartIs
  <2> QED BY <2>4, <2>5, RedactedIs DEF Treated
<1> QED BY <1>6, <1>7, <1>8 DEF Output

\* The output of a run that ends with an error.
LEMMA FailShows ==
    ASSUME NEW path, NEW quoted \in Seq(Tokens), Fail(path, quoted)
    PROVE  \A s \in shown' : s.part \in MaskedParts => Treated(s)
<1> SUFFICES ASSUME NEW s \in shown', s.part \in MaskedParts PROVE Treated(s)
  OBVIOUS
<1>1. s = AsItIs("path", path) \/ s = Part("message", quoted, Masked(quoted))
  BY DEF Fail, End
<1>2. s = Part("message", quoted, Masked(quoted))
  BY <1>1, NotMasked
<1>3. s.whole = quoted /\ s.text = Masked(quoted)
  BY <1>2, PartIs
<1> QED BY <1>3 DEF Treated

LEMMA RefuseShows ==
    ASSUME RefuseArgument
    PROVE  \A s \in shown' : s.part \notin MaskedParts
<1> SUFFICES ASSUME NEW s \in shown' PROVE s.part \notin MaskedParts
  OBVIOUS
<1>1. \E t : s = AsItIs("argument", t)
  BY DEF RefuseArgument, End
<1> QED BY <1>1, NotMasked

\* From the moment the arguments are accepted every secret has a value, and nothing
\* is shown until the run has come to its end.
SecretInv ==
    /\ phase \in {"idle", "prepare", "expand", "send", "evaluate", "done"}
    /\ phase # "done" => shown = {}
    /\ phase \in {"expand", "send", "evaluate"} => ~PairsRefused(input.secrets, "secret")

LEMMA SecretInit == FileStart => SecretInv
BY DEF FileStart, FileInit, FileOf, SecretInv

\* A step that shows something is the last one, and masks it.
LEMMA StepShows ==
    ASSUME VerdictInv, ExpandInv, SecretInv, FileNext
    PROVE  /\ phase # "done" /\ UNCHANGED input
           /\ \/ UNCHANGED shown /\ phase' # "done" /\ phase' \in {"expand", "send", "evaluate"}
                 /\ ~PairsRefused(input.secrets, "secret")
              \/ phase' = "done" /\ \A s \in shown' : s.part \in MaskedParts => SecretsGiven /\ Treated(s)
<1> DEFINE Shows == phase' = "done" /\ \A s \in shown' : s.part \in MaskedParts => SecretsGiven /\ Treated(s)
           GoesOn == /\ UNCHANGED shown /\ phase' # "done" /\ phase' \in {"expand", "send", "evaluate"}
                     /\ ~PairsRefused(input.secrets, "secret")
<1>1. Seq(STRING) \subseteq Seq(Tokens) /\ Seq(Words) \subseteq Seq(Tokens) /\ <<>> \in Seq(Tokens)
  BY SeqMonotonic, EmptySeq DEF Tokens, Words
<1>2. ASSUME input \in Inputs, ~PairsRefused(input.secrets, "secret"),
             NEW path, NEW quoted \in Seq(Tokens), Fail(path, quoted)
      PROVE  Shows /\ UNCHANGED input
  <2>1. SecretsGiven
    BY <1>2, GivenSecrets
  <2>2. Ends
    BY <1>2, ErrorsEnd
  <2>3. \A s \in shown' : s.part \in MaskedParts => Treated(s)
    BY <1>2, FailShows
  <2> QED BY <2>1, <2>2, <2>3 DEF Ends
<1>3. phase \in {"prepare", "expand", "send", "evaluate"} => input \in Inputs
  BY DEF VerdictInv
<1>4. phase \in {"expand", "send", "evaluate"} => ~PairsRefused(input.secrets, "secret")
  BY DEF SecretInv
<1> SUFFICES phase # "done" /\ UNCHANGED input /\ (GoesOn \/ Shows)
  OBVIOUS
<1>5. CASE Prepare
  <2>1. phase = "prepare" /\ input \in Inputs
    BY <1>3, <1>5 DEF Prepare
  <2>2. CASE PairsRefused(input.vars, "var") \/ PairsRefused(input.secrets, "secret")
    <3>1. RefuseArgument
      BY <1>5, <2>2 DEF Prepare
    <3>2. Ends
      BY <3>1, ErrorsEnd
    <3> QED BY <2>1, <3>1, <3>2, RefuseShows DEF Ends
  <2>3. CASE ~(PairsRefused(input.vars, "var") \/ PairsRefused(input.secrets, "secret")) /\ FileRefused
    <3>1. Fail(UnknownField, UnknownField)
      BY <1>5, <2>3 DEF Prepare
    <3>2. UnknownField \in Seq(STRING)
      <4>1. IsInput(input)
        BY <2>1, FileAssumption
      <4>2. UnknownField = input.file.unknown \/ (input.file.expect # NotGiven /\ UnknownField = input.file.expect.unknown)
        BY DEF UnknownField, file
      <4> QED BY <4>1, <4>2 DEF IsInput
    <3>3. UnknownField \in Seq(Tokens)
      BY <1>1, <3>2
    <3> HIDE DEF Shows
    <3> QED BY <1>2, <2>1, <2>3, <3>1, <3>3
  <2>4. CASE ~(PairsRefused(input.vars, "var") \/ PairsRefused(input.secrets, "secret")) /\ ~FileRefused
    <3>1. phase' = "expand" /\ UNCHANGED <<input, shown>>
      BY <1>5, <2>4 DEF Prepare
    <3> QED BY <2>1, <2>4, <3>1
  <2> QED BY <2>2, <2>3, <2>4
<1>6. CASE EscapedOpener \/ EscapedBackslash \/ Literal
  <2>1. phase = "expand" /\ phase' = "expand" /\ UNCHANGED <<input, shown>>
    BY <1>6 DEF EscapedOpener, EscapedBackslash, Literal, Starts, Emit
  <2> QED BY <1>4, <2>1
<1>7. CASE Reference
  <2>1. phase = "expand" /\ input \in Inputs /\ ~PairsRefused(input.secrets, "secret")
    BY <1>3, <1>4, <1>7 DEF Reference, Starts
  <2>2. CASE phase' = "expand" /\ UNCHANGED <<input, shown>>
    BY <2>1, <2>2
  <2>3. CASE \E path, quoted \in Seq(Tokens) : Fail(path, quoted)
    <3> HIDE DEF Shows
    <3> QED BY <1>2, <2>1, <2>3
  <2>4. (phase' = "expand" /\ UNCHANGED <<input, shown>>) \/ \E path, quoted \in Seq(Tokens) : Fail(path, quoted)
    <3> DEFINE closers == {i \in (at + 1)..Len(Text) : Text[i] = Closer}
               end == CHOOSE i \in closers : \A j \in closers : i <= j
               key == SubSeq(Text, at + 1, end - 1)
    <3>1. \/ \E words, upTo : Emit(words, upTo)
          \/ Fail(<<>>, <<>>)
          \/ closers # {} /\ Fail(key, key)
      BY <1>7 DEF Reference
    <3>2. ASSUME NEW words, NEW upTo, Emit(words, upTo) PROVE phase' = "expand" /\ UNCHANGED <<input, shown>>
      BY <2>1, <3>2 DEF Emit
    <3>3. ASSUME closers # {} PROVE key \in Seq(Tokens)
      <4>1. Expanding
        BY <1>7, StartsExpanding DEF Reference
      <4>2. Text \in Seq(Words) /\ at \in 1..(Len(Text) + 1) /\ Len(Text) \in Nat
        BY <4>1 DEF Expanding
      <4> HIDE DEF Text
      <4>3. closers \in SUBSET Nat
        BY <4>2
      <4>4. end \in closers
        <5> HIDE DEF closers
        <5> QED BY <3>3, <4>3, MinIsLeast DEF Min
      <4>5. at + 1 \in 1..(Len(Text) + 1) /\ end - 1 \in 0..Len(Text)
        <5> HIDE DEF end
        <5>1. end \in (at + 1)..Len(Text)
          BY <4>4
        <5> QED BY <4>2, <5>1
      <4>6. key \in Seq(Words)
        <5> HIDE DEF end
        <5> QED BY <4>2, <4>5, PartTyped
      <4> QED BY <1>1, <4>6
    <3> HIDE DEF key, closers
    <3> QED BY <1>1, <3>1, <3>2, <3>3
  <2> QED BY <2>2, <2>3, <2>4
<1>8. CASE FieldDone
  <2>1. phase = "expand" /\ phase' = "expand" /\ UNCHANGED <<input, shown>>
    BY <1>8 DEF FieldDone, Starts
  <2> QED BY <1>4, <2>1
<1>9. CASE Validate
  <2>1. phase = "expand"
    BY <1>9 DEF Validate
  <2>2. (phase' = "send" /\ UNCHANGED <<input, shown>>) \/ Fail(<<>>, <<>>)
    BY <1>9 DEF Validate
  <2>3. CASE Fail(<<>>, <<>>)
    <3> HIDE DEF Shows
    <3> QED BY <1>1, <1>2, <1>3, <1>4, <2>1, <2>3
  <2>4. CASE phase' = "send" /\ UNCHANGED <<input, shown>>
    BY <1>4, <2>1, <2>4
  <2> QED BY <2>2, <2>3, <2>4
<1>10. CASE Respond
  <2>1. phase = "send" /\ phase' = "evaluate" /\ UNCHANGED <<input, shown>>
    BY <1>10 DEF Respond
  <2> QED BY <1>4, <2>1
<1>11. CASE SendFails
  <2>1. phase = "send"
    BY <1>11 DEF SendFails
  <2>2. PICK path : Fail(path, <<>>)
    BY <1>11 DEF SendFails
  <2> HIDE DEF Shows
  <2> QED BY <1>1, <1>2, <1>3, <1>4, <2>1, <2>2
<1>12. CASE Evaluate
  <2>1. phase = "evaluate" /\ phase' = "done" /\ shown' = Output /\ UNCHANGED input
    BY <1>12 DEF Evaluate
  <2>2. SecretsGiven
    BY <1>3, <1>4, <2>1, GivenSecrets
  <2>3. \A s \in Output : s.part \in MaskedParts => Treated(s)
    BY <2>1, OutputIs
  <2> QED BY <2>1, <2>2, <2>3
<1> HIDE DEF Shows, GoesOn
<1> QED BY <1>5, <1>6, <1>7, <1>8, <1>9, <1>10, <1>11, <1>12 DEF FileNext

LEMMA SecretStep == VerdictInv /\ ExpandInv /\ SecretInv /\ [FileNext]_fileVars => SecretInv'
<1> SUFFICES ASSUME VerdictInv, ExpandInv, SecretInv, [FileNext]_fileVars PROVE SecretInv'
  OBVIOUS
<1>1. ASSUME UNCHANGED input PROVE PairsRefused(input.secrets, "secret")' = PairsRefused(input.secrets, "secret")
  BY <1>1 DEF PairsRefused, Refused
<1>2. CASE FileNext
  BY <1>1, <1>2, StepShows DEF SecretInv
<1>3. CASE UNCHANGED fileVars
  <2>1. UNCHANGED <<input, phase, shown>>
    BY <1>3 DEF fileVars
  <2> QED BY <1>1, <2>1 DEF SecretInv
<1> QED BY <1>2, <1>3

LEMMA HiddenStep ==
    VerdictInv /\ ExpandInv /\ SecretInv /\ NoSecretWhole /\ [FileNext]_fileVars => NoSecretWhole'
<1> SUFFICES ASSUME VerdictInv, ExpandInv, SecretInv, NoSecretWhole, [FileNext]_fileVars PROVE NoSecretWhole'
  OBVIOUS
<1>1. NoSecretWhole <=> \A s \in shown : s.part \in MaskedParts => Hidden(s.text)
  BY DEF NoSecretWhole, Hidden, MaskedShown
<1>2. NoSecretWhole' <=> \A s \in shown' : s.part \in MaskedParts => Hidden(s.text)'
  BY DEF NoSecretWhole, Hidden, MaskedShown
<1>3. ASSUME UNCHANGED input, NEW text PROVE Hidden(text)' <=> Hidden(text)
  BY <1>3 DEF Hidden, Secrets, Encoded
<1>4. CASE UNCHANGED <<input, shown>>
  <2>1. \A s \in shown : s.part \in MaskedParts => Hidden(s.text)
    BY <1>1
  <2> QED BY <1>2, <1>3, <1>4, <2>1
<1>5. CASE UNCHANGED input /\ \A s \in shown' : s.part \in MaskedParts => SecretsGiven /\ Treated(s)
  <2>1. ASSUME NEW s \in shown', s.part \in MaskedParts PROVE Hidden(s.text)
    BY <1>5, <2>1, TreatedHides
  <2> QED BY <1>2, <1>3, <1>5, <2>1
<1>6. CASE FileNext
  BY <1>4, <1>5, <1>6, StepShows
<1> QED BY <1>4, <1>6 DEF fileVars

\* No part of the output that the command masks has a secret in it from end to end:
\* redact_output, redact_error and mask_secret_values, for any number of secrets,
\* whichever overlap or are parts of one another, whatever the target sends back and
\* whatever an error quotes of the file.  The method, names and paths are not masked.
THEOREM NoSecretIsShown == FileStart /\ [][FileNext]_fileVars => []NoSecretWhole
<1>1. FileStart => NoSecretWhole
  BY DEF FileStart, FileInit, FileOf, NoSecretWhole, MaskedShown
<1> QED BY <1>1, VerdictInit, VerdictStep, ExpandInit, ExpandStep, SecretInit, SecretStep, HiddenStep, PTL

-------------------------------------------------------------------------------
(* What masking leaves: a text of the output, token by token, against the text   *)
(* it was made of.                                                            *)

LEMMA ConcatAt ==
    ASSUME NEW V, NEW a \in Seq(V), NEW b \in Seq(V)
    PROVE  /\ a \o b \in Seq(V) /\ Len(a \o b) = Len(a) + Len(b)
           /\ \A k \in 1..Len(a) : (a \o b)[k] = a[k]
           /\ \A k \in 1..Len(b) : (a \o b)[Len(a) + k] = b[k]
<1> DEFINE c == a \o b
           M == Len(a)
           N == Len(b)
<1>1. M \in Nat /\ N \in Nat
  BY LenProperties
<1>2. /\ c \in Seq(V) /\ Len(c) = M + N
      /\ \A i \in 1..(M + N) : c[i] = IF i <= M THEN a[i] ELSE b[i - M]
  BY ConcatProperties
<1> HIDE DEF c, M, N
<1>3. \A k \in 1..M : c[k] = a[k]
  BY <1>1, <1>2
<1>4. ASSUME NEW k \in 1..N PROVE c[M + k] = b[k]
  <2>1. M + k \in 1..(M + N) /\ ~(M + k <= M) /\ (M + k) - M = k
    BY <1>1
  <2> QED BY <1>2, <2>1
<1> QED BY <1>2, <1>3, <1>4 DEF c, M, N

\* A part stays where it is when something is put before the text.
LEMMA AtShifts ==
    ASSUME NEW V, NEW pre \in Seq(V), NEW s \in Seq(V), NEW part \in Seq(V), part # <<>>, NEW k \in 1..Len(s)
    PROVE  IsAt(pre \o s, Len(pre) + k, part) <=> IsAt(s, k, part)
<1> DEFINE c == pre \o s
           M == Len(pre)
           N == Len(s)
           L == Len(part)
<1>1. M \in Nat /\ N \in Nat /\ L \in Nat /\ L >= 1 /\ k \in 1..N
  BY LenProperties, EmptySeq
<1>2. Len(c) = M + N /\ \A i \in 1..N : c[M + i] = s[i]
  BY ConcatAt
<1> HIDE DEF c, M, N, L
<1>3. M + k + L - 1 <= M + N <=> k + L - 1 <= N
  BY <1>1
<1>4. ASSUME k + L - 1 <= N, NEW j \in 1..L PROVE c[M + k + j - 1] = s[k + j - 1]
  <2>1. k + j - 1 \in 1..N /\ M + (k + j - 1) = M + k + j - 1
    BY <1>1, <1>4
  <2> QED BY <1>2, <2>1
<1>5. ASSUME k + L - 1 <= N
      PROVE  (\A j \in 1..L : c[M + k + j - 1] = part[j]) <=> (\A j \in 1..L : s[k + j - 1] = part[j])
  BY <1>4, <1>5
<1> QED BY <1>2, <1>3, <1>5 DEF IsAt, c, M, N, L

\* The values of `from` in Replaced.
Replaces(f, V, text, secret) ==
    /\ f \in [1..(Len(text) + 1) -> Seq(V)]
    /\ f[Len(text) + 1] = <<>>
    /\ \A i \in 1..Len(text) :
         f[i] = IF IsAt(text, i, secret) THEN <<Mask>> \o f[i + Len(secret)]
                ELSE <<text[i]>> \o f[i + 1]

LEMMA ReplacedFrom ==
    ASSUME NEW V, Mask \in V, NEW text \in Seq(V), NEW secret \in Seq(V), secret # <<>>
    PROVE  \E f : Replaces(f, V, text, secret) /\ Replaced(text, secret) = f[1]
BY ReplacedSteps DEF Replaces

\* What is made of the end of a text does not depend on what is before it.
LEMMA ReplacedShifts ==
    ASSUME NEW V, Mask \in V, NEW pre \in Seq(V), NEW s \in Seq(V), NEW secret \in Seq(V), secret # <<>>,
           NEW f, NEW g, Replaces(f, V, pre \o s, secret), Replaces(g, V, s, secret)
    PROVE  \A k \in 1..(Len(s) + 1) : f[Len(pre) + k] = g[k]
<1> DEFINE c == pre \o s
           M == Len(pre)
           N == Len(s)
           L == Len(secret)
           D == 1..(N + 1)
           m == [k \in D |-> N + 1 - k]
           S == {k \in D : f[M + k] = g[k]}
<1>1. M \in Nat /\ N \in Nat /\ L \in Nat /\ L >= 1
  BY LenProperties, EmptySeq
<1>2. Len(c) = M + N /\ \A k \in 1..N : c[M + k] = s[k]
  BY ConcatAt
<1>3. /\ f[Len(c) + 1] = <<>>
      /\ \A i \in 1..Len(c) : f[i] = IF IsAt(c, i, secret) THEN <<Mask>> \o f[i + L] ELSE <<c[i]>> \o f[i + 1]
  BY DEF Replaces
<1>4. /\ g[N + 1] = <<>>
      /\ \A i \in 1..N : g[i] = IF IsAt(s, i, secret) THEN <<Mask>> \o g[i + L] ELSE <<s[i]>> \o g[i + 1]
  BY DEF Replaces
<1>5. \A k \in 1..N : IsAt(c, M + k, secret) <=> IsAt(s, k, secret)
  BY AtShifts
<1>6. \A k \in 1..N : IsAt(s, k, secret) => k + L - 1 <= N
  BY DEF IsAt
<1> HIDE DEF c, M, N, L
<1>7. ASSUME NEW k \in D, \A j \in D : m[j] < m[k] => j \in S PROVE k \in S
  <2>1. CASE k = N + 1
    <3>1. M + k = Len(c) + 1
      BY <1>1, <1>2, <2>1
    <3> QED BY <1>3, <1>4, <2>1, <3>1
  <2>2. CASE k # N + 1
    <3>1. k \in 1..N /\ M + k \in 1..Len(c) /\ k + 1 \in D /\ m[k + 1] < m[k] /\ (M + k) + 1 = M + (k + 1)
          /\ (M + k) + L = M + (k + L)
      BY <1>1, <1>2, <2>2
    <3>2. f[M + (k + 1)] = g[k + 1] /\ c[M + k] = s[k]
      BY <1>2, <1>7, <3>1
    <3>3. CASE IsAt(s, k, secret)
      <4>1. k + L - 1 <= N
        BY <1>6, <3>1, <3>3
      <4>2. k + L \in D /\ m[k + L] < m[k]
        BY <1>1, <3>1, <4>1
      <4>3. f[M + (k + L)] = g[k + L]
        BY <1>7, <4>2
      <4>4. IsAt(c, M + k, secret)
        BY <1>5, <3>1, <3>3
      <4>5. f[M + k] = <<Mask>> \o f[M + (k + L)]
        BY <1>3, <3>1, <4>4
      <4>6. g[k] = <<Mask>> \o g[k + L]
        BY <1>4, <3>1, <3>3
      <4> QED BY <4>3, <4>5, <4>6
    <3>4. CASE ~IsAt(s, k, secret)
      <4>4. ~IsAt(c, M + k, secret)
        BY <1>5, <3>1, <3>4
      <4>5. f[M + k] = <<c[M + k]>> \o f[M + (k + 1)]
        BY <1>3, <3>1, <4>4
      <4>6. g[k] = <<s[k]>> \o g[k + 1]
        BY <1>4, <3>1, <3>4
      <4> QED BY <3>2, <4>5, <4>6
    <3> QED BY <3>3, <3>4
  <2> QED BY <2>1, <2>2
<1>8. m \in [D -> Nat]
  BY <1>1
<1> HIDE DEF S, D, m
<1>9. D \subseteq S
  BY <1>7, <1>8, ByMeasure
<1> QED BY <1>9 DEF S, D, M, N

\* A part at the beginning of a text and what follows it.
LEMMA BeginsWith ==
    ASSUME NEW V, NEW text \in Seq(V), NEW part \in Seq(V), part # <<>>
    PROVE  IsAt(text, 1, part) <=> \E rest \in Seq(V) : text = part \o rest
<1> DEFINE N == Len(text)
           L == Len(part)
<1>1. N \in Nat /\ L \in Nat /\ L >= 1
  BY LenProperties, EmptySeq
<1>2. ASSUME NEW rest \in Seq(V), text = part \o rest PROVE IsAt(text, 1, part)
  <2>1. N = L + Len(rest) /\ \A k \in 1..L : text[k] = part[k]
    BY <1>2, ConcatAt
  <2>2. Len(rest) \in Nat
    BY LenProperties
  <2> HIDE DEF N, L
  <2>3. 1 + L - 1 <= N
    BY <1>1, <2>1, <2>2
  <2>4. ASSUME NEW j \in 1..L PROVE text[1 + j - 1] = part[j]
    <3>1. 1 + j - 1 = j
      BY <1>1
    <3> QED BY <2>1, <3>1
  <2> QED BY <2>3, <2>4 DEF IsAt, N, L
<1>3. ASSUME IsAt(text, 1, part) PROVE \E rest \in Seq(V) : text = part \o rest
  <2>1. 1 + L - 1 <= N /\ \A j \in 1..L : text[1 + j - 1] = part[j]
    BY <1>3 DEF IsAt
  <2>2. L <= N /\ \A j \in 1..L : text[j] = part[j]
    <3> HIDE DEF N, L
    <3>1. \A j \in 1..L : 1 + j - 1 = j
      BY <1>1
    <3> QED BY <1>1, <2>1, <3>1
  <2> DEFINE rest == SubSeq(text, L + 1, N)
  <2>3. L + 1 \in 1..(N + 1) /\ N \in 0..N
    <3> HIDE DEF N, L
    <3> QED BY <1>1, <2>2
  <2>4. /\ rest \in Seq(V) /\ Len(rest) = IF L + 1 <= N THEN N - (L + 1) + 1 ELSE 0
        /\ \A k \in 1..(N - (L + 1) + 1) : rest[k] = text[(L + 1) + k - 1]
    BY <2>3, PartTyped
  <2> HIDE DEF rest
  <2> DEFINE c == part \o rest
  <2>5. /\ c \in Seq(V) /\ Len(c) = L + Len(rest) /\ \A k \in 1..L : c[k] = part[k]
        /\ \A k \in 1..Len(rest) : c[L + k] = rest[k]
    BY <2>4, ConcatAt
  <2> HIDE DEF c, L, N
  <2>6. Len(rest) = N - L /\ Len(c) = N
    BY <1>1, <2>2, <2>4, <2>5
  <2>7. ASSUME NEW i \in 1..N PROVE text[i] = c[i]
    <3>1. CASE i <= L
      BY <1>1, <2>2, <2>5, <3>1
    <3>2. CASE ~(i <= L)
      <4>1. i - L \in 1..(N - (L + 1) + 1) /\ i - L \in 1..Len(rest) /\ L + (i - L) = i /\ (L + 1) + (i - L) - 1 = i
        BY <1>1, <2>6, <3>2
      <4>2. c[L + (i - L)] = rest[i - L] /\ rest[i - L] = text[(L + 1) + (i - L) - 1]
        BY <2>4, <2>5, <4>1
      <4> QED BY <4>1, <4>2
    <3> QED BY <3>1, <3>2
  <2>8. text = c
    BY <2>5, <2>6, <2>7, SeqEqual DEF N
  <2> QED BY <2>4, <2>8 DEF c
<1> QED BY <1>2, <1>3

\* What String::replace makes of a text, from its beginning on.
LEMMA ReplacedBegins ==
    ASSUME NEW V, Mask \in V, NEW secret \in Seq(V), secret # <<>>,
           NEW pre \in Seq(V), pre # <<>>, NEW s \in Seq(V)
    PROVE  \E f : /\ Replaced(pre \o s, secret) = f[1]
                  /\ f[1] = IF IsAt(pre \o s, 1, secret) THEN <<Mask>> \o f[1 + Len(secret)]
                            ELSE <<pre[1]>> \o f[1 + 1]
                  /\ f[Len(pre) + 1] = Replaced(s, secret)
<1> DEFINE c == pre \o s
<1>1. c \in Seq(V) /\ Len(c) = Len(pre) + Len(s) /\ \A k \in 1..Len(pre) : c[k] = pre[k]
  BY ConcatAt
<1>2. Len(pre) \in Nat /\ Len(pre) >= 1 /\ Len(s) \in Nat
  BY LenProperties, EmptySeq
<1>3. PICK f : Replaces(f, V, c, secret) /\ Replaced(c, secret) = f[1]
  <2>1. c \in Seq(V)
    BY <1>1
  <2> HIDE DEF c
  <2> QED BY <2>1, ReplacedFrom
<1>4. PICK g : Replaces(g, V, s, secret) /\ Replaced(s, secret) = g[1]
  BY ReplacedFrom
<1>5. \A k \in 1..(Len(s) + 1) : f[Len(pre) + k] = g[k]
  BY <1>3, <1>4, ReplacedShifts
<1>6. 1 \in 1..(Len(s) + 1) /\ 1 \in 1..Len(pre) /\ 1 \in 1..Len(c)
  BY <1>1, <1>2
<1>7. f[Len(pre) + 1] = g[1] /\ c[1] = pre[1]
  BY <1>1, <1>5, <1>6
<1>8. f[1] = IF IsAt(c, 1, secret) THEN <<Mask>> \o f[1 + Len(secret)] ELSE <<c[1]>> \o f[1 + 1]
  BY <1>3, <1>6 DEF Replaces
<1> QED BY <1>3, <1>4, <1>7, <1>8

LEMMA ReplacedOn ==
    ASSUME NEW V, Mask \in V, NEW secret \in Seq(V), secret # <<>>
    PROVE  /\ Replaced(<<>>, secret) = <<>>
           /\ \A rest \in Seq(V) : Replaced(secret \o rest, secret) = <<Mask>> \o Replaced(rest, secret)
<1> DEFINE L == Len(secret)
<1>1. L \in Nat /\ L >= 1
  BY LenProperties, EmptySeq
<1>2. Replaced(<<>>, secret) = <<>>
  <2>1. <<>> \in Seq(V) /\ Len(<<>>) = 0
    BY EmptySeq
  <2>2. PICK f : Replaces(f, V, <<>>, secret) /\ Replaced(<<>>, secret) = f[1]
    BY <2>1, ReplacedFrom
  <2>3. f[Len(<<>>) + 1] = <<>>
    BY <2>2 DEF Replaces
  <2> QED BY <2>1, <2>2, <2>3
<1>3. ASSUME NEW rest \in Seq(V)
      PROVE  Replaced(secret \o rest, secret) = <<Mask>> \o Replaced(rest, secret)
  <2>1. IsAt(secret \o rest, 1, secret)
    <3>1. secret \o rest \in Seq(V)
      BY ConcatAt
    <3> QED BY <3>1, BeginsWith
  <2>2. PICK f : /\ Replaced(secret \o rest, secret) = f[1]
                 /\ f[1] = IF IsAt(secret \o rest, 1, secret) THEN <<Mask>> \o f[1 + L]
                           ELSE <<secret[1]>> \o f[1 + 1]
                 /\ f[L + 1] = Replaced(rest, secret)
    BY ReplacedBegins
  <2>3. 1 + L = L + 1
    BY <1>1
  <2> QED BY <2>1, <2>2, <2>3
<1> QED BY <1>2, <1>3

LEMMA ReplacedKeeps ==
    ASSUME NEW V, Mask \in V, NEW secret \in Seq(V), secret # <<>>,
           NEW x \in V, NEW s \in Seq(V), \A rest \in Seq(V) : <<x>> \o s # secret \o rest
    PROVE  Replaced(<<x>> \o s, secret) = <<x>> \o Replaced(s, secret)
<1>1. <<x>> \in Seq(V) /\ <<x>> # <<>> /\ Len(<<x>>) = 1 /\ <<x>>[1] = x
  OBVIOUS
<1>2. <<x>> \o s \in Seq(V)
  BY <1>1, ConcatAt
<1>3. ~IsAt(<<x>> \o s, 1, secret)
  BY <1>2, BeginsWith
<1> DEFINE p == <<x>>
<1>4. p \in Seq(V) /\ p # <<>> /\ Len(p) = 1 /\ p[1] = x /\ ~IsAt(p \o s, 1, secret)
  BY <1>1, <1>3
<1> HIDE DEF p
<1>5. PICK f : /\ Replaced(p \o s, secret) = f[1]
               /\ f[1] = IF IsAt(p \o s, 1, secret) THEN <<Mask>> \o f[1 + Len(secret)]
                         ELSE <<p[1]>> \o f[1 + 1]
               /\ f[Len(p) + 1] = Replaced(s, secret)
  BY <1>4, ReplacedBegins
<1>6. Replaced(p \o s, secret) = <<x>> \o Replaced(s, secret)
  BY <1>4, <1>5
<1> QED BY <1>6 DEF p

\* Places that are apart, in a text of n tokens.
Pieces(n) == {o \in (1..n) \X (1..n) : o[1] <= o[2]}
Separate(cuts, n) ==
    /\ cuts \subseteq Pieces(n)
    /\ \A c, d \in cuts : c # d => Apart(c, d)

LEMMA PieceTyped ==
    ASSUME NEW n \in Nat, NEW c \in Pieces(n)
    PROVE  c[1] \in 1..n /\ c[2] \in 1..n /\ c[1] <= c[2] /\ c = <<c[1], c[2]>>
BY DEF Pieces

\* Two of them that begin alike are the same.
LEMMA SeparateBegin ==
    ASSUME NEW n \in Nat, NEW C, Separate(C, n), NEW c \in C, NEW d \in C, c[1] = d[1]
    PROVE  c = d
<1> SUFFICES ASSUME Apart(c, d) PROVE FALSE
  BY DEF Separate
<1>1. c[1] \in 1..n /\ c[2] \in 1..n /\ c[1] <= c[2] /\ d[1] \in 1..n /\ d[2] \in 1..n /\ d[1] <= d[2]
  BY PieceTyped DEF Separate
<1> QED BY <1>1 DEF Apart

\* The values of `from` in Cut.
Cuts(f, V, text, C) ==
    /\ f \in [1..(Len(text) + 1) -> Seq(V)]
    /\ f[Len(text) + 1] = <<>>
    /\ \A c \in C : f[c[1]] = <<Mask>> \o f[c[2] + 1]
    /\ \A i \in 1..Len(text) : (\A c \in C : c[1] # i) => f[i] = <<text[i]>> \o f[i + 1]

LEMMA CutFrom ==
    ASSUME NEW V, Mask \in V, NEW text \in Seq(V), NEW C, Separate(C, Len(text))
    PROVE  \E f : Cuts(f, V, text, C) /\ Cut(text, C) = f[1]
<1> DEFINE N == Len(text)
           D == 1..(N + 1)
           Is(i) == \E c \in C : c[1] = i
           At(i) == CHOOSE c \in C : c[1] = i
           Body(g, i) == IF i > N THEN <<>>
                         ELSE IF Is(i) THEN <<Mask>> \o g[At(i)[2] + 1] ELSE <<text[i]>> \o g[i + 1]
           from == CHOOSE g : g = [i \in D |-> Body(g, i)]
           m == [i \in D |-> N + 1 - i]
           H == [i \in D |-> [g \in [D -> Seq(V)] |-> Body(g, i)]]
<1>1. N \in Nat
  BY LenProperties
<1>2. Cut(text, C) = from[1]
  BY DEF Cut
<1>3. ASSUME NEW i \in D, ~(i > N)
      PROVE  /\ i \in 1..N /\ i + 1 \in D /\ m[i + 1] < m[i]
             /\ Is(i) => At(i)[2] + 1 \in D /\ m[At(i)[2] + 1] < m[i]
  <2>1. Is(i) => At(i) \in C /\ At(i)[1] = i
    OBVIOUS
  <2> HIDE DEF At
  <2>2. Is(i) => At(i)[2] \in 1..N /\ i <= At(i)[2]
    BY <1>1, <2>1, PieceTyped DEF Separate
  <2> HIDE DEF Is, N
  <2> QED BY <1>1, <1>3, <2>2
<1>4. \A i \in 1..N : text[i] \in V
  BY ElementOfSeq
<1>5. \A x \in V : \A s \in Seq(V) : <<x>> \o s \in Seq(V)
  <2> TAKE x \in V
  <2> TAKE s \in Seq(V)
  <2>1. <<x>> \in Seq(V)
    OBVIOUS
  <2> QED BY <2>1, ConcatProperties
<1> HIDE DEF Is, At
<1>6. ASSUME NEW i \in D, NEW g \in [D -> Seq(V)] PROVE Body(g, i) \in Seq(V)
  <2>1. CASE i > N
    BY <2>1
  <2>2. CASE ~(i > N) /\ Is(i)
    <3>1. g[At(i)[2] + 1] \in Seq(V)
      BY <1>3, <2>2
    <3> QED BY <1>5, <2>2, <3>1
  <2>3. CASE ~(i > N) /\ ~Is(i)
    <3>1. g[i + 1] \in Seq(V) /\ text[i] \in V
      BY <1>3, <1>4, <2>3
    <3> QED BY <1>5, <2>3, <3>1
  <2> QED BY <2>1, <2>2, <2>3
<1>7. \E g \in [D -> Seq(V)] : \A i \in D : g[i] = Body(g, i)
  <2>1. m \in [D -> Nat]
    <3> HIDE DEF N
    <3> QED BY <1>1
  <2>2. H \in [D -> [[D -> Seq(V)] -> Seq(V)]]
    <3> HIDE DEF Body
    <3> QED BY <1>6
  <2>3. ASSUME NEW i \in D, NEW g \in [D -> Seq(V)], NEW h \in [D -> Seq(V)],
               \A j \in D : m[j] < m[i] => g[j] = h[j]
        PROVE  H[i][g] = H[i][h]
    <3>1. ~(i > N) => g[i + 1] = h[i + 1] /\ (Is(i) => g[At(i)[2] + 1] = h[At(i)[2] + 1])
      BY <1>3, <2>3
    <3>2. Body(g, i) = Body(h, i)
      BY <3>1
    <3> HIDE DEF Body
    <3> QED BY <3>2
  <2>4. Recursive(D, Seq(V), m, H)
    <3>1. Seq(V) # {}
      BY EmptySeq
    <3> HIDE DEF D, H, m
    <3> QED BY <2>1, <2>2, <2>3, <3>1 DEF Recursive
  <2>5. PICK g \in [D -> Seq(V)] : Solves(g, D, H)
    BY <2>4, RecursionSolved
  <2>6. \A i \in D : g[i] = Body(g, i)
    BY <2>5 DEF Solves
  <2> HIDE DEF Body, D
  <2> QED BY <2>6
<1>8. from = [i \in D |-> Body(from, i)]
  <2> HIDE DEF Body, D
  <2>1. PICK g \in [D -> Seq(V)] : \A i \in D : g[i] = Body(g, i)
    BY <1>7
  <2>2. g = [i \in D |-> Body(g, i)]
    BY <2>1
  <2> QED BY <2>2
<1>9. ASSUME NEW i \in D PROVE from[i] = Body(from, i)
  <2> HIDE DEF Body, from, D
  <2> QED BY <1>8
<1> HIDE DEF from
<1>10. ASSUME NEW i \in D PROVE from[i] \in Seq(V)
  <2> DEFINE S == {j \in D : from[j] \in Seq(V)}
  <2>1. ASSUME NEW j \in D, \A k \in D : m[k] < m[j] => k \in S PROVE j \in S
    <3>1. CASE j > N
      <4>1. from[j] = <<>> /\ <<>> \in Seq(V)
        BY <1>9, <3>1, EmptySeq
      <4> QED BY <4>1
    <3>2. CASE ~(j > N) /\ Is(j)
      <4>1. from[j] = <<Mask>> \o from[At(j)[2] + 1] /\ from[At(j)[2] + 1] \in Seq(V)
        BY <1>3, <1>9, <2>1, <3>2
      <4> QED BY <1>5, <4>1
    <3>3. CASE ~(j > N) /\ ~Is(j)
      <4>1. from[j] = <<text[j]>> \o from[j + 1] /\ from[j + 1] \in Seq(V) /\ text[j] \in V
        BY <1>3, <1>4, <1>9, <2>1, <3>3
      <4> QED BY <1>5, <4>1
    <3> QED BY <3>1, <3>2, <3>3
  <2>2. m \in [D -> Nat]
    <3> HIDE DEF N
    <3> QED BY <1>1
  <2> HIDE DEF S, D, m
  <2>3. D \subseteq S
    BY <2>1, <2>2, ByMeasure
  <2> QED BY <2>3 DEF S
<1>11. from \in [D -> Seq(V)]
  <2> HIDE DEF Body, D
  <2> QED BY <1>8, <1>10
<1>12. N + 1 \in D /\ N + 1 > N /\ \A i \in 1..N : i \in D /\ ~(i > N)
  <2> HIDE DEF N
  <2> QED BY <1>1
<1>13. from[N + 1] = <<>>
  <2> HIDE DEF N
  <2> QED BY <1>9, <1>12
<1>14. ASSUME NEW c \in C PROVE from[c[1]] = <<Mask>> \o from[c[2] + 1]
  <2>1. c[1] \in 1..N
    BY <1>1, PieceTyped DEF Separate
  <2>2. Is(c[1]) /\ At(c[1]) \in C /\ At(c[1])[1] = c[1]
    BY DEF Is, At
  <2>3. At(c[1]) = c
    BY <1>1, <2>2, SeparateBegin
  <2>4. from[c[1]] = Body(from, c[1]) /\ ~(c[1] > N)
    BY <1>9, <1>12, <2>1
  <2> QED BY <2>2, <2>3, <2>4
<1>15. ASSUME NEW i \in 1..N, \A c \in C : c[1] # i PROVE from[i] = <<text[i]>> \o from[i + 1]
  <2>1. from[i] = Body(from, i) /\ ~(i > N) /\ ~Is(i)
    BY <1>9, <1>12, <1>15 DEF Is
  <2> QED BY <2>1
<1> QED BY <1>2, <1>11, <1>13, <1>14, <1>15 DEF Cuts

\* Cuts that begin before a place make no difference to what is from there on.
LEMMA CutsAgree ==
    ASSUME NEW V, NEW text \in Seq(V), NEW C, Separate(C, Len(text)), NEW B, Separate(B, Len(text)),
           NEW f, Cuts(f, V, text, C), NEW g, Cuts(g, V, text, B), NEW i \in 1..(Len(text) + 1),
           \A c \in C \cup B : c[1] >= i => c \in C \cap B
    PROVE  f[i] = g[i]
<1> DEFINE N == Len(text)
           D == i..(N + 1)
           m == [k \in D |-> N + 1 - k]
           S == {k \in D : f[k] = g[k]}
<1>1. N \in Nat /\ i \in 1..(N + 1)
  BY LenProperties
<1>2. ASSUME NEW k \in D, \A j \in D : m[j] < m[k] => j \in S PROVE k \in S
  <2>1. CASE k = N + 1
    BY <2>1 DEF Cuts
  <2>2. CASE k # N + 1
    <3>1. k \in 1..N /\ k + 1 \in D /\ m[k + 1] < m[k] /\ k >= i
      <4> HIDE DEF N
      <4> QED BY <1>1, <2>2
    <3>2. CASE \E c \in C \cup B : c[1] = k
      <4>1. PICK c \in C \cap B : c[1] = k
        BY <3>1, <3>2
      <4>2. c[2] \in 1..N /\ k <= c[2]
        BY <1>1, <4>1, PieceTyped DEF Separate
      <4>3. c[2] + 1 \in D /\ m[c[2] + 1] < m[k]
        <5> DEFINE b == c[2]
        <5>1. b \in 1..N /\ k <= b
          BY <4>2
        <5> HIDE DEF N, b
        <5>2. b + 1 \in D /\ m[b + 1] < m[k]
          BY <1>1, <5>1
        <5> QED BY <5>2 DEF b
      <4>4. f[c[2] + 1] = g[c[2] + 1]
        BY <1>2, <4>3
      <4> QED BY <4>1, <4>4 DEF Cuts
    <3>3. CASE ~\E c \in C \cup B : c[1] = k
      <4>1. f[k + 1] = g[k + 1]
        BY <1>2, <3>1
      <4>2. f[k] = <<text[k]>> \o f[k + 1]
        BY <3>1, <3>3 DEF Cuts
      <4>3. g[k] = <<text[k]>> \o g[k + 1]
        BY <3>1, <3>3 DEF Cuts
      <4> QED BY <4>1, <4>2, <4>3
    <3> QED BY <3>2, <3>3
  <2> QED BY <2>1, <2>2
<1>3. m \in [D -> Nat] /\ i \in D
  <2> HIDE DEF N
  <2> QED BY <1>1
<1> HIDE DEF S, D, m
<1>4. m \in [D -> Nat]
  BY <1>3
<1>5. D \subseteq S
  BY <1>2, <1>4, ByMeasure
<1> QED BY <1>3, <1>5 DEF S

LEMMA FirstAndRest ==
    ASSUME NEW V, NEW w \in Seq(V), w # <<>>
    PROVE  /\ w[1] \in V /\ Tail(w) \in Seq(V) /\ Len(Tail(w)) = Len(w) - 1
           /\ w = <<w[1]>> \o Tail(w)
           /\ MaskFree(w) => w[1] # Mask /\ MaskFree(Tail(w))
<1> DEFINE L == Len(w)
           t == Tail(w)
           a == <<w[1]>>
           c == a \o t
<1>1. L \in Nat /\ L >= 1
  BY LenProperties, EmptySeq
<1>2. 1 \in 1..L
  BY <1>1
<1>3. w[1] \in V
  BY <1>2, ElementOfSeq
<1>4. t \in Seq(V) /\ Len(t) = L - 1 /\ \A i \in 1..(L - 1) : t[i] = w[i + 1]
  <2>1. /\ Tail(w) \in Seq(V) /\ Len(Tail(w)) = Len(w) - 1
        /\ \A i \in 1..Len(Tail(w)) : Tail(w)[i] = w[i + 1]
    BY HeadTailProperties
  <2> QED BY <2>1
<1>5. a \in Seq(V) /\ Len(a) = 1 /\ a[1] = w[1]
  BY <1>3
<1> HIDE DEF a, t
<1>6. /\ c \in Seq(V) /\ Len(c) = 1 + (L - 1)
      /\ c[1] = a[1] /\ \A j \in 1..(L - 1) : c[1 + j] = t[j]
  <2>1. /\ a \o t \in Seq(V) /\ Len(a \o t) = Len(a) + Len(t)
        /\ \A k \in 1..Len(a) : (a \o t)[k] = a[k]
        /\ \A k \in 1..Len(t) : (a \o t)[Len(a) + k] = t[k]
    <3>1. a \in Seq(V) /\ t \in Seq(V)
      BY <1>4, <1>5
    <3> QED BY <3>1, ConcatAt
  <2>2. 1 \in 1..Len(a)
    BY <1>5
  <2> HIDE DEF L
  <2> QED BY <1>4, <1>5, <2>1, <2>2
<1> HIDE DEF c
<1>7. ASSUME NEW i \in 1..L PROVE w[i] = c[i]
  <2> HIDE DEF L
  <2>1. CASE i = 1
    BY <1>5, <1>6, <2>1
  <2>2. CASE i # 1
    <3>1. i - 1 \in 1..(L - 1) /\ 1 + (i - 1) = i /\ (i - 1) + 1 = i /\ 1 \in 1..1
      BY <1>1, <2>2
    <3>2. c[1 + (i - 1)] = t[i - 1]
      BY <1>6, <3>1
    <3>3. t[i - 1] = w[(i - 1) + 1]
      BY <1>4, <3>1
    <3> QED BY <3>1, <3>2, <3>3
  <2> QED BY <2>1, <2>2
<1>8. Len(w) = Len(c)
  BY <1>1, <1>6
<1>9. w = c
  BY <1>6, <1>7, <1>8, SeqEqual
<1>10. ASSUME MaskFree(w) PROVE w[1] # Mask /\ MaskFree(t)
  <2>1. \A j \in 1..L : w[j] # Mask
    BY <1>10 DEF MaskFree
  <2>2. w[1] # Mask
    BY <1>2, <2>1
  <2>3. ASSUME NEW j \in 1..(L - 1) PROVE t[j] # Mask
    <3>1. j + 1 \in 1..L
      <4> HIDE DEF L
      <4> QED BY <1>1
    <3> QED BY <1>4, <2>1, <3>1
  <2> QED BY <1>4, <2>2, <2>3 DEF MaskFree
<1>11. w = <<w[1]>> \o Tail(w)
  BY <1>9 DEF a, c, t
<1>12. Tail(w) \in Seq(V) /\ Len(Tail(w)) = Len(w) - 1
  BY <1>4 DEF t
<1>13. MaskFree(w) => w[1] # Mask /\ MaskFree(Tail(w))
  BY <1>10 DEF t
<1> QED BY <1>3, <1>11, <1>12, <1>13

LEMMA FirstsAgree ==
    ASSUME NEW V, NEW x \in V, NEW y \in V, NEW s \in Seq(V), NEW t \in Seq(V), <<x>> \o s = <<y>> \o t
    PROVE  x = y /\ s = t
<1> DEFINE a == <<x>>
           b == <<y>>
<1>1. a \in Seq(V) /\ Len(a) = 1 /\ a[1] = x /\ b \in Seq(V) /\ Len(b) = 1 /\ b[1] = y /\ a \o s = b \o t
  OBVIOUS
<1> HIDE DEF a, b
<1>2. /\ \A k \in 1..Len(a) : (a \o s)[k] = a[k]
      /\ \A k \in 1..Len(b) : (b \o t)[k] = b[k]
  <2>1. a \in Seq(V) /\ b \in Seq(V)
    BY <1>1
  <2>2. \A k \in 1..Len(a) : (a \o s)[k] = a[k]
    BY <2>1, ConcatAt
  <2>3. \A k \in 1..Len(b) : (b \o t)[k] = b[k]
    BY <2>1, ConcatAt
  <2> QED BY <2>2, <2>3
<1>3. x = y
  <2>1. 1 \in 1..Len(a) /\ 1 \in 1..Len(b)
    BY <1>1
  <2>2. (a \o s)[1] = a[1] /\ (b \o t)[1] = b[1]
    BY <1>2, <2>1
  <2> QED BY <1>1, <2>2
<1>4. a = b
  BY <1>3 DEF a, b
<1>5. a \o s = a \o t
  BY <1>1, <1>4
<1> QED BY <1>1, <1>3, <1>5, ConcatSimplifications

\* No cut is in the tokens from i to j.
Free(C, i, j) == \A c \in C : c[2] < i \/ j < c[1]

\* A cut that is not in front of i begins there or after it.
LEMMA FreeHere ==
    ASSUME NEW n \in Nat, NEW C, Separate(C, n), NEW i \in 1..n, Free(C, i, i - 1), \A c \in C : c[1] # i
    PROVE  Free(C, i + 1, i)
<1> SUFFICES ASSUME NEW c \in C PROVE c[2] < i + 1 \/ i < c[1]
  BY DEF Free
<1>1. c[1] \in 1..n /\ c[2] \in 1..n /\ (c[2] < i \/ i - 1 < c[1]) /\ c[1] # i
  BY PieceTyped DEF Separate, Free
<1> QED BY <1>1

LEMMA FreeAfter ==
    ASSUME NEW n \in Nat, NEW C, Separate(C, n), NEW i \in 1..(n + 1), NEW k \in Nat, i + k <= n + 1,
           Free(C, i, i + k - 1)
    PROVE  Free(C, i, i - 1) /\ Free(C, i + k, (i + k) - 1)
<1> SUFFICES ASSUME NEW c \in C PROVE (c[2] < i \/ i - 1 < c[1]) /\ (c[2] < i + k \/ (i + k) - 1 < c[1])
  BY DEF Free
<1>1. c[1] \in 1..n /\ c[2] \in 1..n /\ (c[2] < i \/ i + k - 1 < c[1])
  BY PieceTyped DEF Separate, Free
<1> QED BY <1>1

\* A mask-free part at the beginning of what is shown from a place on is of the text.
KeptAt(f, V, text, C, i) ==
    \A w \in Seq(V) : \A rest \in Seq(V) :
        MaskFree(w) /\ f[i] = w \o rest /\ Free(C, i, i - 1) =>
            /\ i + Len(w) <= Len(text) + 1
            /\ IsAt(text, i, w) /\ Free(C, i, i + Len(w) - 1) /\ f[i + Len(w)] = rest

LEMMA KeptThere ==
    ASSUME NEW V, Mask \in V, NEW text \in Seq(V), NEW C, Separate(C, Len(text)), NEW f, Cuts(f, V, text, C),
           NEW i \in 1..(Len(text) + 1)
    PROVE  KeptAt(f, V, text, C, i)
<1> DEFINE N == Len(text)
           D == 1..(N + 1)
           m == [k \in D |-> N + 1 - k]
           S == {k \in D : KeptAt(f, V, text, C, k)}
<1>1. N \in Nat
  BY LenProperties
<1>2. ASSUME NEW k \in D, \A j \in D : m[j] < m[k] => j \in S PROVE k \in S
  <2> SUFFICES ASSUME NEW w \in Seq(V), NEW rest \in Seq(V), MaskFree(w), f[k] = w \o rest, Free(C, k, k - 1)
               PROVE  /\ k + Len(w) <= N + 1
                      /\ IsAt(text, k, w) /\ Free(C, k, k + Len(w) - 1) /\ f[k + Len(w)] = rest
    BY DEF KeptAt
  <2>0. k \in 1..(N + 1)
    OBVIOUS
  <2>1. CASE w = <<>>
    <3>1. Len(w) = 0 /\ f[k] = rest
      BY <2>1, EmptySeq, ConcatEmptySeq
    <3>2. k + Len(w) = k /\ k + Len(w) - 1 = k - 1 /\ k + Len(w) - 1 <= N /\ \A j \in 1..Len(w) : FALSE
      <4> HIDE DEF N
      <4> QED BY <1>1, <2>0, <3>1
    <3>3. IsAt(text, k, w)
      BY <3>2 DEF IsAt
    <3> QED BY <1>1, <3>1, <3>2, <3>3
  <2>2. CASE w # <<>>
    <3> DEFINE t == Tail(w)
    <3>1. /\ w[1] \in V /\ t \in Seq(V) /\ Len(t) = Len(w) - 1 /\ w = <<w[1]>> \o t
          /\ w[1] # Mask /\ MaskFree(t)
      BY <2>2, FirstAndRest
    <3> HIDE DEF t
    <3>2. Len(w) \in Nat /\ Len(w) >= 1 /\ Len(t) \in Nat
      BY <2>2, <3>1, LenProperties, EmptySeq
    <3>3. w \o rest = <<w[1]>> \o (t \o rest) /\ t \o rest \in Seq(V)
      <4> DEFINE a == <<w[1]>>
      <4>1. a \in Seq(V) /\ w = a \o t
        BY <3>1
      <4> HIDE DEF a
      <4>2. (a \o t) \o rest = a \o (t \o rest) /\ t \o rest \in Seq(V)
        <5>1. a \in Seq(V) /\ t \in Seq(V)
          BY <3>1, <4>1
        <5>2. Regroups(a, t, rest)
          BY <5>1, TextsRegroup
        <5>3. t \o rest \in Seq(V)
          BY <5>1, ConcatProperties
        <5> QED BY <5>2, <5>3 DEF Regroups
      <4>3. w \o rest = a \o (t \o rest)
        BY <4>1, <4>2
      <4> QED BY <4>2, <4>3 DEF a
    <3>4. k # N + 1
      <4> SUFFICES ASSUME k = N + 1 PROVE FALSE
        OBVIOUS
      <4>1. f[k] = <<>>
        BY DEF Cuts
      <4>2. w \o rest = <<>>
        BY <4>1
      <4>3. Len(w \o rest) = Len(w) + Len(rest) /\ Len(rest) \in Nat
        BY ConcatProperties, LenProperties
      <4>4. Len(w \o rest) = 0
        BY <4>2, EmptySeq
      <4> QED BY <3>2, <4>3, <4>4
    <3>5. k \in 1..N /\ k + 1 \in D /\ m[k + 1] < m[k] /\ k + 1 \in 1..(N + 1)
      <4> HIDE DEF N
      <4> QED BY <1>1, <2>0, <3>4
    <3>6. ASSUME NEW c \in C PROVE c[1] # k
      <4> SUFFICES ASSUME c[1] = k PROVE FALSE
        OBVIOUS
      <4>1. f[k] = <<Mask>> \o f[c[2] + 1]
        BY DEF Cuts
      <4>2. c[2] \in 1..N
        BY <1>1, PieceTyped DEF Separate
      <4>3. c[2] + 1 \in D
        <5> DEFINE b == c[2]
        <5>1. b \in 1..N
          BY <4>2
        <5> HIDE DEF b, N
        <5>2. b + 1 \in D
          BY <1>1, <5>1
        <5> QED BY <5>2 DEF b
      <4>4. f[c[2] + 1] \in Seq(V)
        BY <4>3 DEF Cuts
      <4>5. Mask = w[1]
        BY <3>1, <3>3, <4>1, <4>4, FirstsAgree
      <4> QED BY <3>1, <4>5
    <3>7. f[k] = <<text[k]>> \o f[k + 1] /\ f[k + 1] \in Seq(V) /\ text[k] \in V
      BY <3>5, <3>6, ElementOfSeq DEF Cuts
    <3>8. text[k] = w[1] /\ f[k + 1] = t \o rest
      <4> DEFINE u == t \o rest
                 x == text[k]
                 y == w[1]
                 s == f[k + 1]
      <4>1. x \in V /\ y \in V /\ u \in Seq(V) /\ s \in Seq(V)
        BY <3>1, <3>3, <3>7
      <4>2. <<x>> \o s = <<y>> \o u
        BY <3>3, <3>7
      <4> HIDE DEF u, x, y, s
      <4>3. x = y /\ s = u
        BY <4>1, <4>2, FirstsAgree
      <4> QED BY <4>3 DEF u, x, y, s
    <3>9. Free(C, k + 1, k)
      BY <1>1, <3>5, <3>6, FreeHere
    <3>10. /\ k + 1 + Len(t) <= N + 1
           /\ IsAt(text, k + 1, t) /\ Free(C, k + 1, k + 1 + Len(t) - 1) /\ f[k + 1 + Len(t)] = rest
      <4>1. KeptAt(f, V, text, C, k + 1)
        BY <1>2, <3>5
      <4>2. (k + 1) - 1 = k
        BY <3>5
      <4> QED BY <3>1, <3>8, <3>9, <4>1, <4>2 DEF KeptAt
    <3>11. k + 1 + Len(t) = k + Len(w)
      BY <3>1, <3>2, <3>5
    <3>12. IsAt(text, k, w)
      <4>1. k \in 1..Len(text) /\ w[1] = text[k] /\ (Tail(w) # <<>> => IsAt(text, k + 1, Tail(w)))
        BY <3>5, <3>8, <3>10 DEF t
      <4> QED BY <2>2, <4>1, AtExtends
    <3>13. Free(C, k, k + Len(w) - 1)
      <4> SUFFICES ASSUME NEW c \in C PROVE c[2] < k \/ k + Len(w) - 1 < c[1]
        BY DEF Free
      <4>1. c[2] < k \/ k - 1 < c[1]
        BY DEF Free
      <4>2. c[2] < k + 1 \/ k + Len(w) - 1 < c[1]
        <5>1. c[2] < k + 1 \/ k + 1 + Len(t) - 1 < c[1]
          BY <3>10 DEF Free
        <5> DEFINE e == k + 1 + Len(t)
        <5>2. e = k + Len(w) /\ (c[2] < k + 1 \/ e - 1 < c[1])
          BY <3>11, <5>1
        <5> HIDE DEF e
        <5> QED BY <5>2
      <4>3. c[1] # k /\ c[1] \in 1..N /\ c[2] \in 1..N /\ c[1] <= c[2]
        BY <1>1, <3>6, PieceTyped DEF Separate
      <4>4. k \in Int /\ Len(w) \in Int /\ c[1] \in Int /\ c[2] \in Int
        BY <1>1, <3>2, <3>5, <4>3
      <4> DEFINE from == c[1]
                 to == c[2]
                 last == k + Len(w) - 1
      <4>5. from \in Int /\ to \in Int /\ last \in Int /\ k \in Int
        BY <4>4
      <4>6. (to < k \/ k - 1 < from) /\ (to < k + 1 \/ last < from) /\ from # k /\ from <= to
        BY <4>1, <4>2, <4>3
      <4> HIDE DEF from, to, last
      <4>7. to < k \/ last < from
        BY <4>5, <4>6
      <4> QED BY <4>7 DEF from, to, last
    <3> QED BY <3>10, <3>11, <3>12, <3>13
  <2> QED BY <2>1, <2>2
<1>3. m \in [D -> Nat] /\ i \in D
  <2>1. i \in 1..(N + 1)
    OBVIOUS
  <2> HIDE DEF N
  <2> QED BY <1>1, <2>1
<1> HIDE DEF S, D, m
<1>4. D \subseteq S
  <2>1. \A s \in D : (\A j \in D : m[j] < m[s] => j \in S) => s \in S
    BY <1>2
  <2>2. m \in [D -> Nat]
    BY <1>3
  <2> QED BY <2>1, <2>2, ByMeasure
<1> QED BY <1>3, <1>4 DEF S

LEMMA AtTail ==
    ASSUME NEW V, NEW text \in Seq(V), NEW i \in Nat, i >= 1, NEW w \in Seq(V), w # <<>>, IsAt(text, i, w)
    PROVE  i \in 1..Len(text) /\ text[i] = w[1] /\ IsAt(text, i + 1, Tail(w))
<1> DEFINE N == Len(text)
           L == Len(w)
           t == Tail(w)
<1>1. N \in Nat /\ L \in Nat /\ L >= 1
  BY LenProperties, EmptySeq
<1>2. Len(t) = L - 1 /\ \A k \in 1..(L - 1) : t[k] = w[k + 1]
  <2>1. /\ Tail(w) \in Seq(V) /\ Len(Tail(w)) = Len(w) - 1
        /\ \A k \in 1..Len(Tail(w)) : Tail(w)[k] = w[k + 1]
    BY HeadTailProperties
  <2> QED BY <2>1
<1>3. i + L - 1 <= N /\ \A j \in 1..L : text[i + j - 1] = w[j]
  BY DEF IsAt
<1> HIDE DEF N, L, t
<1>4. i \in 1..N /\ 1 \in 1..L /\ i + 1 - 1 = i
  BY <1>1, <1>3
<1>5. text[i] = w[1]
  BY <1>3, <1>4
<1>6. i + 1 + (L - 1) - 1 <= N
  BY <1>1, <1>3
<1>7. ASSUME NEW j \in 1..(L - 1) PROVE text[i + 1 + j - 1] = t[j]
  <2>1. j + 1 \in 1..L /\ i + (j + 1) - 1 = i + 1 + j - 1
    BY <1>1
  <2>2. text[i + (j + 1) - 1] = w[j + 1]
    BY <1>3, <2>1
  <2> QED BY <1>2, <2>1, <2>2
<1> QED BY <1>2, <1>4, <1>5, <1>6, <1>7 DEF IsAt, N, t

\* A part of the text that no cut is in begins what is shown from its place on.
WholeAt(f, V, text, C, i) ==
    \A w \in Seq(V) : IsAt(text, i, w) /\ Free(C, i, i + Len(w) - 1) =>
        \E rest \in Seq(V) : f[i] = w \o rest

LEMMA WholeThere ==
    ASSUME NEW V, NEW text \in Seq(V), NEW C, Separate(C, Len(text)), NEW f, Cuts(f, V, text, C),
           NEW i \in 1..(Len(text) + 1)
    PROVE  WholeAt(f, V, text, C, i)
<1> DEFINE N == Len(text)
           D == 1..(N + 1)
           m == [k \in D |-> N + 1 - k]
           S == {k \in D : WholeAt(f, V, text, C, k)}
<1>1. N \in Nat
  BY LenProperties
<1>2. ASSUME NEW k \in D, \A j \in D : m[j] < m[k] => j \in S PROVE k \in S
  <2> SUFFICES ASSUME NEW w \in Seq(V), IsAt(text, k, w), Free(C, k, k + Len(w) - 1)
               PROVE  \E rest \in Seq(V) : f[k] = w \o rest
    BY DEF WholeAt
  <2>0. k \in 1..(N + 1) /\ f[k] \in Seq(V)
    BY DEF Cuts
  <2>1. CASE w = <<>>
    <3>1. <<>> \o f[k] = f[k]
      BY <2>0, ConcatEmptySeq
    <3> QED BY <2>0, <2>1, <3>1
  <2>2. CASE w # <<>>
    <3> DEFINE t == Tail(w)
               a == <<w[1]>>
    <3>1. w[1] \in V /\ t \in Seq(V) /\ Len(t) = Len(w) - 1 /\ w = a \o t /\ a \in Seq(V)
      BY <2>2, FirstAndRest
    <3>2. Len(w) \in Nat /\ Len(w) >= 1
      BY <2>2, LenProperties, EmptySeq
    <3>3. k \in 1..N /\ text[k] = w[1] /\ IsAt(text, k + 1, t)
      <4>1. k \in Nat /\ k >= 1
        <5> HIDE DEF N
        <5> QED BY <1>1, <2>0
      <4> QED BY <2>2, <4>1, AtTail
    <3> HIDE DEF t
    <3>4. k + 1 \in D /\ m[k + 1] < m[k] /\ k \in Nat
      <4> HIDE DEF N
      <4> QED BY <1>1, <3>3
    <3>5. ASSUME NEW c \in C
          PROVE  c[1] # k /\ (c[2] < k + 1 \/ k + 1 + Len(t) - 1 < c[1])
      <4>1. c[2] < k \/ k + Len(w) - 1 < c[1]
        BY DEF Free
      <4>2. c[1] \in 1..N /\ c[2] \in 1..N /\ c[1] <= c[2]
        BY <1>1, PieceTyped DEF Separate
      <4>3. Len(t) = Len(w) - 1
        BY <3>1
      <4> HIDE DEF N
      <4> QED BY <1>1, <3>2, <3>4, <4>1, <4>2, <4>3
    <3>6. f[k] = a \o f[k + 1]
      BY <3>3, <3>5 DEF Cuts
    <3>7. Free(C, k + 1, k + 1 + Len(t) - 1)
      BY <3>5 DEF Free
    <3>8. PICK rest \in Seq(V) : f[k + 1] = t \o rest
      BY <1>2, <3>1, <3>3, <3>4, <3>7 DEF WholeAt
    <3> HIDE DEF a
    <3>9. (a \o t) \o rest = a \o (t \o rest)
      <4>1. a \in Seq(V) /\ t \in Seq(V)
        BY <3>1
      <4>2. rest \in Seq(V)
        BY <3>8
      <4> QED BY <4>1, <4>2, ConcatRegroups
    <3>10. f[k] = w \o rest
      BY <3>1, <3>6, <3>8, <3>9
    <3> QED BY <3>10
  <2> QED BY <2>1, <2>2
<1>3. m \in [D -> Nat] /\ i \in D
  <2>1. i \in 1..(N + 1)
    OBVIOUS
  <2> HIDE DEF N
  <2> QED BY <1>1, <2>1
<1> HIDE DEF S, D, m
<1>4. D \subseteq S
  <2>1. \A s \in D : (\A j \in D : m[j] < m[s] => j \in S) => s \in S
    BY <1>2
  <2>2. m \in [D -> Nat]
    BY <1>3
  <2> QED BY <2>1, <2>2, ByMeasure
<1> QED BY <1>3, <1>4 DEF S

\* What replacing a secret does to what is shown from a place on: some of the
\* secret's places, apart from the cuts there are, are cut too, and none is left
\* that no cut is in.
Of(secret, text, i) ==
    {o \in Pieces(Len(text)) : i <= o[1] /\ o[2] = o[1] + Len(secret) - 1 /\ IsAt(text, o[1], secret)}

Replacing(E, C, V, text, secret, f, i) ==
    /\ E \subseteq Of(secret, text, i)
    /\ Separate(C \cup E, Len(text))
    /\ \A g : Cuts(g, V, text, C \cup E) => g[i] = Replaced(f[i], secret)
    /\ \A a \in i..Len(text) : IsAt(text, a, secret) => ~Free(C \cup E, a, a + Len(secret) - 1)

ReplacesAt(C, V, text, secret, f, i) ==
    Free(C, i, i - 1) => \E E : Replacing(E, C, V, text, secret, f, i)

\* The place of the secret at i, if that is where it is cut, and those after it.
LEMMA ReplacesMatch ==
    ASSUME NEW V, Mask \in V, NEW text \in Seq(V), NEW C, Separate(C, Len(text)), NEW f, Cuts(f, V, text, C),
           NEW secret \in Seq(V), secret # <<>>, MaskFree(secret),
           NEW i \in 1..Len(text), Free(C, i, i - 1), NEW rest \in Seq(V), f[i] = secret \o rest,
           i + Len(secret) \in 1..(Len(text) + 1) => ReplacesAt(C, V, text, secret, f, i + Len(secret))
    PROVE  ReplacesAt(C, V, text, secret, f, i)
<1> DEFINE N == Len(text)
           L == Len(secret)
           j == i + L
           o == <<i, j - 1>>
<1>1. N \in Nat /\ L \in Nat /\ L >= 1 /\ i \in 1..N
  BY LenProperties, EmptySeq
<1>2. j <= N + 1 /\ IsAt(text, i, secret) /\ Free(C, i, j - 1) /\ f[j] = rest
  <2>1. i \in 1..(N + 1)
    <3> HIDE DEF N
    <3> QED BY <1>1
  <2>2. KeptAt(f, V, text, C, i)
    BY <2>1, KeptThere
  <2>3. /\ i + Len(secret) <= Len(text) + 1
        /\ IsAt(text, i, secret) /\ Free(C, i, i + Len(secret) - 1) /\ f[i + Len(secret)] = rest
    <3>1. MaskFree(secret) /\ f[i] = secret \o rest /\ Free(C, i, i - 1)
      OBVIOUS
    <3> QED BY <2>2, <3>1 DEF KeptAt
  <2> QED BY <2>3
<1>3. j \in 1..(N + 1) /\ j \in Nat /\ i < j
  <2> HIDE DEF N, L
  <2> QED BY <1>1, <1>2
<1>4. Free(C, j, j - 1)
  <2>1. i \in 1..(N + 1) /\ i + L <= N + 1
    <3> HIDE DEF N, L
    <3> QED BY <1>1, <1>2
  <2>2. N \in Nat /\ L \in Nat /\ Separate(C, N) /\ Free(C, i, i + L - 1)
    BY <1>1, <1>2
  <2> HIDE DEF N, L
  <2> QED BY <2>1, <2>2, FreeAfter
<1>5. PICK E : Replacing(E, C, V, text, secret, f, j)
  BY <1>3, <1>4 DEF ReplacesAt
<1> DEFINE F == E \cup {o}
<1>6. o \in Pieces(N) /\ o[1] = i /\ o[2] = j - 1
  <2>1. j - 1 \in 1..N /\ i <= j - 1
    <3> HIDE DEF N, L
    <3> QED BY <1>1, <1>3
  <2> QED BY <1>1, <2>1 DEF Pieces
<1> HIDE DEF o
<1>7. ASSUME NEW e \in E PROVE e \in Pieces(N) /\ j <= e[1] /\ e \in Of(secret, text, i)
  <2>1. e \in Of(secret, text, j)
    BY <1>5 DEF Replacing
  <2>2. e \in Pieces(N) /\ j <= e[1]
    BY <2>1 DEF Of
  <2>3. e[1] \in 1..N
    BY <1>1, <2>2, PieceTyped
  <2>4. i <= e[1]
    <3> HIDE DEF N, j
    <3> QED BY <1>1, <1>3, <2>2, <2>3
  <2> QED BY <2>1, <2>2, <2>4 DEF Of
<1>8. F \subseteq Of(secret, text, i)
  <2>1. o \in Of(secret, text, i)
    <3>1. i <= o[1] /\ o[2] = o[1] + L - 1 /\ IsAt(text, o[1], secret)
      BY <1>1, <1>2, <1>6
    <3> QED BY <1>6, <3>1 DEF Of
  <2> QED BY <1>7, <2>1
<1>9. ASSUME NEW c \in C \cup E PROVE Apart(o, c) /\ Apart(c, o)
  <2>1. CASE c \in C
    <3>1. c[2] < i \/ j - 1 < c[1]
      BY <1>2, <2>1 DEF Free
    <3> QED BY <1>6, <3>1 DEF Apart
  <2>2. CASE c \in E
    <3>1. j <= c[1] /\ c[1] \in 1..N
      BY <1>1, <1>7, <2>2, PieceTyped
    <3>2. j - 1 < c[1]
      <4> HIDE DEF j, N
      <4> QED BY <1>1, <1>3, <3>1
    <3> QED BY <1>6, <3>2 DEF Apart
  <2> QED BY <2>1, <2>2
<1>10. Separate(C \cup E, N)
  BY <1>5 DEF Replacing
<1>11. Separate(C \cup F, N)
  <2>1. C \cup F \subseteq Pieces(N)
    BY <1>6, <1>10 DEF Separate
  <2>2. ASSUME NEW c \in C \cup F, NEW d \in C \cup F, c # d PROVE Apart(c, d)
    BY <1>9, <1>10, <2>2 DEF Separate
  <2> QED BY <2>1, <2>2 DEF Separate
<1>12. ASSUME NEW g, Cuts(g, V, text, C \cup F) PROVE g[i] = Replaced(f[i], secret)
  <2>1. PICK h : Cuts(h, V, text, C \cup E)
    BY <1>10, CutFrom
  <2>2. ASSUME NEW c \in (C \cup F) \cup (C \cup E), c[1] >= j PROVE c \in (C \cup F) \cap (C \cup E)
    <3>1. c # o
      <4> SUFFICES ASSUME i >= j PROVE FALSE
        BY <1>6, <2>2
      <4> HIDE DEF j
      <4> QED BY <1>1, <1>3
    <3> QED BY <3>1
  <2>3. g[j] = h[j]
    <3> DEFINE A == C \cup F
               B == C \cup E
    <3>1. /\ Separate(A, Len(text)) /\ Separate(B, Len(text)) /\ Cuts(g, V, text, A) /\ Cuts(h, V, text, B)
          /\ \A c \in A \cup B : c[1] >= j => c \in A \cap B
      BY <1>10, <1>11, <1>12, <2>1, <2>2
    <3>2. j \in 1..(Len(text) + 1)
      BY <1>3
    <3> HIDE DEF A, B, F, j
    <3> QED BY <3>1, <3>2, CutsAgree
  <2>4. h[j] = Replaced(f[j], secret)
    BY <1>5, <2>1 DEF Replacing
  <2>5. (j - 1) + 1 = j
    <3> HIDE DEF j
    <3> QED BY <1>3
  <2>6. g[o[1]] = <<Mask>> \o g[o[2] + 1]
    BY <1>12 DEF Cuts
  <2>7. g[i] = <<Mask>> \o g[j]
    BY <1>6, <2>5, <2>6
  <2>8. Replaced(secret \o rest, secret) = <<Mask>> \o Replaced(rest, secret)
    BY ReplacedOn
  <2> QED BY <1>2, <2>3, <2>4, <2>7, <2>8
<1>13. ASSUME NEW a \in i..N, IsAt(text, a, secret) PROVE ~Free(C \cup F, a, a + L - 1)
  <2>1. CASE a \in j..N
    <3>1. ~Free(C \cup E, a, a + L - 1)
      BY <1>5, <1>13, <2>1 DEF Replacing
    <3> QED BY <3>1 DEF Free
  <2>2. CASE a \notin j..N
    <3>1. a <= j - 1 /\ i <= a + L - 1
      <4>1. a \in i..N /\ a \notin j..N
        BY <2>2
      <4> HIDE DEF N, L, j
      <4> QED BY <1>1, <1>3, <4>1
    <3>2. ~(o[2] < a) /\ ~(a + L - 1 < o[1])
      <4>1. a \in i..N
        OBVIOUS
      <4> HIDE DEF N, L, j
      <4> QED BY <1>1, <1>3, <1>6, <3>1, <4>1
    <3> QED BY <3>2 DEF Free
  <2> QED BY <2>1, <2>2
<1>14. Replacing(F, C, V, text, secret, f, i)
  <2> HIDE DEF F
  <2> QED BY <1>8, <1>11, <1>12, <1>13 DEF Replacing
<1> QED BY <1>14 DEF ReplacesAt

\* What a replacement does after a token it leaves.
LEMMA ReplacesNext ==
    ASSUME NEW V, Mask \in V, NEW text \in Seq(V), NEW C, Separate(C, Len(text)), NEW f, Cuts(f, V, text, C),
           NEW secret \in Seq(V), secret # <<>>,
           NEW i \in 1..Len(text), \A c \in C : c[1] # i, Free(C, i, i - 1),
           \A rest \in Seq(V) : f[i] # secret \o rest,
           ReplacesAt(C, V, text, secret, f, i + 1)
    PROVE  ReplacesAt(C, V, text, secret, f, i)
<1> DEFINE N == Len(text)
           L == Len(secret)
<1>1. N \in Nat /\ L \in Nat /\ L >= 1 /\ i \in 1..N
  BY LenProperties, EmptySeq
<1>2. f[i] = <<text[i]>> \o f[i + 1] /\ text[i] \in V /\ f[i + 1] \in Seq(V)
  <2>1. i + 1 \in 1..(N + 1)
    <3> HIDE DEF N
    <3> QED BY <1>1
  <2> QED BY <2>1, ElementOfSeq DEF Cuts
<1>3. Free(C, i + 1, i)
  BY <1>1, FreeHere
<1>4. PICK E : Replacing(E, C, V, text, secret, f, i + 1)
  <2>1. (i + 1) - 1 = i
    BY <1>1
  <2> QED BY <1>3, <2>1 DEF ReplacesAt
<1>5. ASSUME NEW e \in E PROVE e \in Of(secret, text, i) /\ e[1] # i
  <2>1. e \in Of(secret, text, i + 1)
    BY <1>4 DEF Replacing
  <2>2. e \in Pieces(N) /\ i + 1 <= e[1]
    BY <2>1 DEF Of
  <2>3. e[1] \in 1..N
    BY <1>1, <2>2, PieceTyped
  <2>4. i <= e[1] /\ e[1] # i
    <3> HIDE DEF N
    <3> QED BY <1>1, <2>2, <2>3
  <2> QED BY <2>1, <2>4 DEF Of
<1>6. ASSUME NEW g, Cuts(g, V, text, C \cup E) PROVE g[i] = Replaced(f[i], secret)
  <2>1. \A c \in C \cup E : c[1] # i
    BY <1>5
  <2>2. g[i] = <<text[i]>> \o g[i + 1]
    BY <1>6, <2>1 DEF Cuts
  <2>3. g[i + 1] = Replaced(f[i + 1], secret)
    BY <1>4, <1>6 DEF Replacing
  <2> DEFINE x == text[i]
             s == f[i + 1]
  <2>4. x \in V /\ s \in Seq(V) /\ \A rest \in Seq(V) : <<x>> \o s # secret \o rest
    BY <1>2
  <2> HIDE DEF x, s
  <2>5. Replaced(<<x>> \o s, secret) = <<x>> \o Replaced(s, secret)
    BY <2>4, ReplacedKeeps
  <2> QED BY <1>2, <2>2, <2>3, <2>5 DEF x, s
<1>7. ASSUME NEW a \in i..N, IsAt(text, a, secret) PROVE ~Free(C \cup E, a, a + L - 1)
  <2>1. CASE a = i
    <3> SUFFICES ASSUME Free(C \cup E, i, i + L - 1) PROVE FALSE
      BY <2>1
    <3>1. Free(C, i, i + L - 1)
      BY DEF Free
    <3>2. i \in 1..(N + 1)
      <4> HIDE DEF N
      <4> QED BY <1>1
    <3>3. WholeAt(f, V, text, C, i)
      BY <3>2, WholeThere
    <3> QED BY <1>7, <2>1, <3>1, <3>3 DEF WholeAt
  <2>2. CASE a # i
    <3>1. a \in (i + 1)..N
      <4> HIDE DEF N
      <4> QED BY <1>1, <2>2
    <3> QED BY <1>4, <1>7, <3>1 DEF Replacing
  <2> QED BY <2>1, <2>2
<1>8. E \subseteq Of(secret, text, i) /\ Separate(C \cup E, N)
  BY <1>4, <1>5 DEF Replacing
<1>9. Replacing(E, C, V, text, secret, f, i)
  BY <1>6, <1>7, <1>8 DEF Replacing
<1> QED BY <1>9 DEF ReplacesAt

\* What a replacement does after a mask that is there already.
LEMMA ReplacesMask ==
    ASSUME NEW V, Mask \in V, NEW text \in Seq(V), NEW C, Separate(C, Len(text)), NEW f, Cuts(f, V, text, C),
           NEW secret \in Seq(V), secret # <<>>, MaskFree(secret),
           NEW c \in C, ReplacesAt(C, V, text, secret, f, c[2] + 1)
    PROVE  ReplacesAt(C, V, text, secret, f, c[1])
<1> DEFINE N == Len(text)
           L == Len(secret)
           i == c[1]
           j == c[2] + 1
<1>1. N \in Nat /\ L \in Nat /\ L >= 1
  BY LenProperties, EmptySeq
<1>2. c[1] \in 1..N /\ c[2] \in 1..N /\ c[1] <= c[2]
  BY <1>1, PieceTyped DEF Separate
<1>3. i \in 1..N /\ j \in 1..(N + 1) /\ i < j /\ j - 1 = c[2]
  <2> DEFINE a == c[1]
             b == c[2]
  <2>1. a \in 1..N /\ b \in 1..N /\ a <= b
    BY <1>2
  <2> HIDE DEF a, b, N
  <2>2. a \in 1..N /\ b + 1 \in 1..(N + 1) /\ a < b + 1 /\ (b + 1) - 1 = b
    BY <1>1, <2>1
  <2> QED BY <2>2 DEF a, b
<1>4. f[i] = <<Mask>> \o f[j] /\ f[j] \in Seq(V)
  BY <1>3 DEF Cuts
<1> HIDE DEF i, j
<1>5. Free(C, j, j - 1)
  <2> SUFFICES ASSUME NEW d \in C PROVE d[2] < j \/ j - 1 < d[1]
    BY DEF Free
  <2>1. CASE d = c
    <3>1. j - 1 = d[2] /\ j \in Nat
      BY <1>1, <1>3, <2>1
    <3> HIDE DEF N
    <3> QED BY <1>1, <1>2, <1>3, <2>1, <3>1
  <2>2. CASE d # c
    <3>1. Apart(c, d)
      BY <2>2 DEF Separate
    <3>2. d[1] \in 1..N /\ d[2] \in 1..N /\ d[1] <= d[2]
      BY <1>1, PieceTyped DEF Separate
    <3> HIDE DEF N
    <3> QED BY <1>1, <1>2, <1>3, <3>1, <3>2 DEF Apart
  <2> QED BY <2>1, <2>2
<1>6. PICK E : Replacing(E, C, V, text, secret, f, j)
  <2>1. ReplacesAt(C, V, text, secret, f, j)
    BY DEF j
  <2> QED BY <1>5, <2>1 DEF ReplacesAt
<1>7. ASSUME NEW e \in E PROVE e \in Of(secret, text, i)
  <2>1. e \in Of(secret, text, j)
    BY <1>6 DEF Replacing
  <2>2. e \in Pieces(N) /\ j <= e[1]
    BY <2>1 DEF Of
  <2>3. e[1] \in 1..N
    BY <1>1, <2>2, PieceTyped
  <2>4. i <= e[1]
    <3> HIDE DEF N
    <3> QED BY <1>1, <1>3, <2>2, <2>3
  <2> QED BY <2>1, <2>4 DEF Of
<1>8. ASSUME NEW g, Cuts(g, V, text, C \cup E) PROVE g[i] = Replaced(f[i], secret)
  <2>1. g[i] = <<Mask>> \o g[j]
    BY <1>8 DEF Cuts, i, j
  <2>2. g[j] = Replaced(f[j], secret)
    BY <1>6, <1>8 DEF Replacing
  <2> DEFINE s == f[j]
  <2>3. s \in Seq(V)
    BY <1>4
  <2>4. ASSUME NEW rest \in Seq(V) PROVE <<Mask>> \o s # secret \o rest
    <3> SUFFICES ASSUME <<Mask>> \o s = secret \o rest PROVE FALSE
      OBVIOUS
    <3> DEFINE t == Tail(secret)
               a == <<secret[1]>>
               y == secret[1]
    <3>1. y \in V /\ t \in Seq(V) /\ secret = a \o t /\ a \in Seq(V) /\ y # Mask
      BY FirstAndRest
    <3> HIDE DEF t
    <3>2. (a \o t) \o rest = a \o (t \o rest)
      <4> HIDE DEF a
      <4>1. a \in Seq(V) /\ t \in Seq(V)
        BY <3>1
      <4>2. Regroups(a, t, rest)
        BY <4>1, TextsRegroup
      <4> QED BY <4>2 DEF Regroups
    <3> DEFINE u == t \o rest
    <3>3. u \in Seq(V)
      <4>1. t \in Seq(V)
        BY <3>1
      <4> QED BY <4>1, ConcatProperties
    <3>4. <<Mask>> \o s = a \o u
      <4> HIDE DEF a, s
      <4> QED BY <3>1, <3>2
    <3>5. <<Mask>> \o s = <<y>> \o u /\ y \in V
      BY <3>1, <3>4
    <3> HIDE DEF u, s, y
    <3>6. Mask = y
      BY <2>3, <3>3, <3>5, FirstsAgree
    <3> QED BY <3>1, <3>6
  <2> HIDE DEF s
  <2>5. Replaced(<<Mask>> \o s, secret) = <<Mask>> \o Replaced(s, secret)
    BY <2>3, <2>4, ReplacedKeeps
  <2> QED BY <1>4, <2>1, <2>2, <2>5 DEF s
<1>9. ASSUME NEW a \in i..N, IsAt(text, a, secret) PROVE ~Free(C \cup E, a, a + L - 1)
  <2>1. CASE a \in j..N
    BY <1>6, <1>9, <2>1 DEF Replacing
  <2>2. CASE a \notin j..N
    <3>1. a \in i..N
      OBVIOUS
    <3>2. i = c[1] /\ j - 1 = c[2]
      BY <1>3 DEF i
    <3>3. ~(c[2] < a) /\ ~(a + L - 1 < c[1])
      <4>1. a <= j - 1 /\ i <= a + L - 1 /\ a \in Int
        <5> HIDE DEF N, L
        <5> QED BY <1>1, <1>3, <2>2, <3>1
      <4> HIDE DEF N, L
      <4> QED BY <1>1, <1>3, <3>2, <4>1
    <3> QED BY <3>3 DEF Free
  <2> QED BY <2>1, <2>2
<1>10. E \subseteq Of(secret, text, i) /\ Separate(C \cup E, N)
  BY <1>6, <1>7 DEF Replacing
<1>11. Replacing(E, C, V, text, secret, f, i)
  BY <1>8, <1>9, <1>10 DEF Replacing
<1>12. ReplacesAt(C, V, text, secret, f, i)
  BY <1>11 DEF ReplacesAt
<1> QED BY <1>12 DEF i

LEMMA ReplacesThere ==
    ASSUME NEW V, Mask \in V, NEW text \in Seq(V), NEW C, Separate(C, Len(text)), NEW f, Cuts(f, V, text, C),
           NEW secret \in Seq(V), secret # <<>>, MaskFree(secret)
    PROVE  \A i \in 1..(Len(text) + 1) : ReplacesAt(C, V, text, secret, f, i)
<1> DEFINE N == Len(text)
           D == 1..(N + 1)
           m == [k \in D |-> N + 1 - k]
           S == {k \in D : ReplacesAt(C, V, text, secret, f, k)}
<1>1. N \in Nat
  BY LenProperties
<1>2. ASSUME NEW k \in D, \A j \in D : m[j] < m[k] => j \in S PROVE k \in S
  <2>1. CASE k = N + 1
    <3>1. \A a \in k..N : FALSE
      <4> HIDE DEF N
      <4> QED BY <1>1, <2>1
    <3>2. C \cup {} = C
      OBVIOUS
    <3>3. f[k] = <<>> /\ Replaced(<<>>, secret) = <<>> /\ \A g : Cuts(g, V, text, C) => g[k] = <<>>
      BY <2>1, ReplacedOn DEF Cuts
    <3>4. Replacing({}, C, V, text, secret, f, k)
      BY <3>1, <3>2, <3>3 DEF Replacing
    <3> QED BY <3>4 DEF ReplacesAt
  <2>2. CASE k # N + 1 /\ \E c \in C : c[1] = k
    <3>1. PICK c \in C : c[1] = k
      BY <2>2
    <3>2. c[2] \in 1..N /\ k <= c[2]
      BY <1>1, <3>1, PieceTyped DEF Separate
    <3>3. c[2] + 1 \in D /\ m[c[2] + 1] < m[k]
      <4> DEFINE b == c[2]
      <4>1. b \in 1..N /\ k <= b
        BY <3>2
      <4> HIDE DEF b, N
      <4>2. b + 1 \in D /\ m[b + 1] < m[k]
        BY <1>1, <4>1
      <4> QED BY <4>2 DEF b
    <3>4. ReplacesAt(C, V, text, secret, f, c[2] + 1)
      BY <1>2, <3>3
    <3>5. ReplacesAt(C, V, text, secret, f, c[1])
      BY <3>1, <3>4, ReplacesMask
    <3> QED BY <3>1, <3>5
  <2>3. CASE k # N + 1 /\ ~\E c \in C : c[1] = k
    <3>0. k \in 1..N
      <4> HIDE DEF N
      <4> QED BY <1>1, <2>3
    <3> SUFFICES ASSUME Free(C, k, k - 1) PROVE ReplacesAt(C, V, text, secret, f, k)
      BY DEF ReplacesAt
    <3>1. CASE \E rest \in Seq(V) : f[k] = secret \o rest
      <4>1. PICK rest \in Seq(V) : f[k] = secret \o rest
        BY <3>1
      <4>2. k + Len(secret) \in D => ReplacesAt(C, V, text, secret, f, k + Len(secret))
        <5>1. Len(secret) \in Nat /\ Len(secret) >= 1
          BY LenProperties, EmptySeq
        <5>2. k + Len(secret) \in D => m[k + Len(secret)] < m[k]
          <6> HIDE DEF N
          <6> QED BY <1>1, <3>0, <5>1
        <5> QED BY <1>2, <5>2
      <4>3. rest \in Seq(V)
        BY <4>1
      <4> QED BY <3>0, <4>1, <4>2, <4>3, ReplacesMatch
    <3>2. CASE ~\E rest \in Seq(V) : f[k] = secret \o rest
      <4>1. k + 1 \in D /\ m[k + 1] < m[k]
        <5> HIDE DEF N
        <5> QED BY <1>1, <3>0
      <4>2. ReplacesAt(C, V, text, secret, f, k + 1)
        BY <1>2, <4>1
      <4> QED BY <2>3, <3>0, <3>2, <4>2, ReplacesNext
    <3> QED BY <3>1, <3>2
  <2> QED BY <2>1, <2>2, <2>3
<1>3. m \in [D -> Nat]
  <2> HIDE DEF N
  <2> QED BY <1>1
<1> HIDE DEF S, D, m
<1>4. D \subseteq S
  <2>1. \A s \in D : (\A j \in D : m[j] < m[s] => j \in S) => s \in S
    BY <1>2
  <2> QED BY <1>3, <2>1, ByMeasure
<1> QED BY <1>4 DEF S, D, N

\* With no cut a text is as it was.
LEMMA Uncut ==
    ASSUME NEW V, Mask \in V, NEW text \in Seq(V)
    PROVE  Separate({}, Len(text)) /\ Cut(text, {}) = text
<1> DEFINE N == Len(text)
           D == 1..(N + 1)
           m == [k \in D |-> N + 1 - k]
<1>1. N \in Nat
  BY LenProperties
<1>2. Separate({}, N)
  BY DEF Separate
<1>3. PICK f : Cuts(f, V, text, {}) /\ Cut(text, {}) = f[1]
  BY <1>2, CutFrom
<1> DEFINE S == {k \in D : f[k] = SubSeq(text, k, N)}
<1>4. ASSUME NEW k \in D, \A j \in D : m[j] < m[k] => j \in S PROVE k \in S
  <2>1. CASE k = N + 1
    <3>1. f[k] = <<>>
      BY <1>3, <2>1 DEF Cuts
    <3>2. k \in Int /\ N \in Int /\ N < k
      <4> HIDE DEF N
      <4> QED BY <1>1, <2>1
    <3>3. SubSeq(text, k, N) = <<>>
      <4> HIDE DEF N
      <4> QED BY <3>2, SubSeqEmpty
    <3> QED BY <3>1, <3>3
  <2>2. CASE k # N + 1
    <3>1. k \in 1..N /\ N \in k..N /\ k + 1 \in D /\ m[k + 1] < m[k]
      <4> HIDE DEF N
      <4> QED BY <1>1, <2>2
    <3>2. f[k + 1] = SubSeq(text, k + 1, N)
      BY <1>4, <3>1
    <3>3. f[k] = <<text[k]>> \o f[k + 1]
      BY <1>3, <3>1 DEF Cuts
    <3>4. SubSeq(text, k, N) = <<text[k]>> \o SubSeq(text, k + 1, N)
      BY <3>1, SubSeqRecursiveFirst
    <3> QED BY <3>2, <3>3, <3>4
  <2> QED BY <2>1, <2>2
<1>5. m \in [D -> Nat] /\ 1 \in D
  <2> HIDE DEF N
  <2> QED BY <1>1
<1> HIDE DEF S, D, m
<1>6. D \subseteq S
  <2>1. \A s \in D : (\A j \in D : m[j] < m[s] => j \in S) => s \in S
    BY <1>4
  <2>2. m \in [D -> Nat]
    BY <1>5
  <2> QED BY <2>1, <2>2, ByMeasure
<1>7. f[1] = SubSeq(text, 1, N)
  BY <1>5, <1>6 DEF S
<1> QED BY <1>2, <1>3, <1>7, SubSeqFull

\* Cuts at places of secrets, each of them of no less than n tokens.
Covers(C, text, n) ==
    /\ Separate(C, Len(text))
    /\ C \subseteq Places(text)
    /\ \A c \in C : n - 1 <= Width(c)

\* Wherever a text has a form of a secret, a cut as long is in it.
Met(C, text, form) ==
    \A a \in 1..Len(text) : IsAt(text, a, form) =>
        \E c \in C : ~Apart(<<a, a + Len(form) - 1>>, c) /\ Len(form) - 1 <= Width(c)

LEMMA ReplacedCovers ==
    ASSUME NEW V, Mask \in V, NEW text \in Seq(V), NEW C, NEW form \in Seq(V), form \in Forms, form # <<>>,
           MaskFree(form), Covers(C, text, Len(form))
    PROVE  \E E : /\ C \subseteq E /\ Covers(E, text, Len(form)) /\ Met(E, text, form)
                  /\ Cut(text, E) = Replaced(Cut(text, C), form)
<1> DEFINE N == Len(text)
           L == Len(form)
<1>1. N \in Nat /\ L \in Nat /\ L >= 1 /\ DOMAIN text = 1..N
  BY LenProperties, EmptySeq
<1>2. Separate(C, N)
  BY DEF Covers
<1>3. PICK f : Cuts(f, V, text, C) /\ Cut(text, C) = f[1]
  BY <1>2, CutFrom
<1>4. 1 \in 1..(N + 1) /\ 1 - 1 = 0
  <2> HIDE DEF N
  <2> QED BY <1>1
<1>5. Free(C, 1, 1 - 1)
  <2> SUFFICES ASSUME NEW c \in C PROVE 0 < c[1]
    BY <1>4 DEF Free
  <2>1. c[1] \in 1..N
    BY <1>1, <1>2, PieceTyped DEF Separate
  <2> HIDE DEF N
  <2> QED BY <2>1
<1>6. PICK E : Replacing(E, C, V, text, form, f, 1)
  <2>1. \A i \in 1..(N + 1) : ReplacesAt(C, V, text, form, f, i)
    BY <1>2, <1>3, ReplacesThere
  <2>2. ReplacesAt(C, V, text, form, f, 1)
    BY <1>4, <2>1
  <2> QED BY <1>5, <2>2 DEF ReplacesAt
<1> DEFINE F == C \cup E
<1>7. Separate(F, N)
  BY <1>6 DEF Replacing
<1>8. ASSUME NEW e \in E PROVE e \in Places(text) /\ L - 1 <= Width(e)
  <2>1. e \in Pieces(N) /\ e[2] = e[1] + L - 1 /\ IsAt(text, e[1], form)
    BY <1>6 DEF Replacing, Of
  <2>2. e[1] \in 1..N /\ e[2] \in 1..N /\ e[1] <= e[2] /\ e \in (1..N) \X (1..N)
    BY <1>1, <2>1, PieceTyped DEF Pieces
  <2> DEFINE a == e[1]
             b == e[2]
             s == SubSeq(text, a, b)
  <2>3. a \in 1..N /\ b \in 1..N /\ a <= b /\ b = a + L - 1 /\ a \in 1..(N + 1) /\ b \in 0..N
    <3>1. a \in 1..N /\ b \in 1..N /\ a <= b /\ b = a + L - 1
      BY <2>1, <2>2
    <3> HIDE DEF a, b, N, L
    <3> QED BY <1>1, <3>1
  <2> HIDE DEF a, b
  <2>4. s \in Seq(V) /\ Len(s) = (IF a <= b THEN b - a + 1 ELSE 0) /\ \A k \in 1..(b - a + 1) : s[k] = text[a + k - 1]
    BY <2>3, PartTyped
  <2>5. b - a + 1 = L
    <3> HIDE DEF N, L
    <3> QED BY <1>1, <2>3
  <2>6. \A k \in 1..L : text[a + k - 1] = form[k]
    BY <2>1 DEF IsAt, a
  <2>7. s = form
    <3>1. Len(s) = L /\ \A k \in 1..L : s[k] = form[k]
      BY <2>3, <2>4, <2>5, <2>6
    <3> HIDE DEF s
    <3> QED BY <2>4, <3>1, SeqEqual
  <2>8. e \in Places(text)
    BY <1>1, <2>2, <2>7 DEF Places, a, b
  <2>9. Width(e) = L - 1
    <3>1. b - a = L - 1
      <4> HIDE DEF N, L
      <4> QED BY <1>1, <2>3
    <3> QED BY <3>1 DEF Width, a, b
  <2>10. L - 1 <= L - 1
    <3> HIDE DEF L
    <3> QED BY <1>1
  <2> QED BY <2>8, <2>9, <2>10
<1>9. Covers(F, text, L)
  BY <1>7, <1>8 DEF Covers
<1>10. Met(F, text, form)
  <2> SUFFICES ASSUME NEW a \in 1..N, IsAt(text, a, form)
               PROVE  \E c \in F : ~Apart(<<a, a + L - 1>>, c) /\ L - 1 <= Width(c)
    BY DEF Met
  <2>1. ~Free(F, a, a + L - 1)
    BY <1>6 DEF Replacing
  <2>2. PICK c \in F : ~(c[2] < a) /\ ~(a + L - 1 < c[1])
    BY <2>1 DEF Free
  <2>3. ~Apart(<<a, a + L - 1>>, c)
    BY <2>2 DEF Apart
  <2>4. L - 1 <= Width(c)
    BY <1>9, <2>2 DEF Covers
  <2> QED BY <2>2, <2>3, <2>4
<1>11. Cut(text, F) = Replaced(Cut(text, C), form)
  <2>1. PICK g : Cuts(g, V, text, F) /\ Cut(text, F) = g[1]
    BY <1>7, CutFrom
  <2>2. g[1] = Replaced(f[1], form)
    BY <1>6, <2>1 DEF Replacing
  <2> QED BY <1>3, <2>1, <2>2
<1> HIDE DEF F
<1>12. C \subseteq F
  BY DEF F
<1> QED BY <1>9, <1>10, <1>11, <1>12

\* A secret and then what a URL has of it.
LEMMA MaskedOnceCovers ==
    ASSUME NEW text \in Seq(Tokens), NEW C, NEW secret \in Seq(Tokens), secret # <<>>,
           {secret, Encoded(secret)} \subseteq Forms, MaskFree(secret), MaskFree(Encoded(secret)),
           Covers(C, text, Len(secret))
    PROVE  \E E : /\ C \subseteq E /\ Covers(E, text, Len(secret))
                  /\ Met(E, text, secret) /\ Met(E, text, Encoded(secret))
                  /\ Cut(text, E) = MaskedOnce(Cut(text, C), secret)
<1>1. Mask \in Tokens
  BY DEF Tokens
<1>2. PICK A : /\ C \subseteq A /\ Covers(A, text, Len(secret)) /\ Met(A, text, secret)
               /\ Cut(text, A) = Replaced(Cut(text, C), secret)
  BY <1>1, ReplacedCovers
<1> DEFINE e == Encoded(secret)
<1>3. e \in Seq(Tokens) /\ e # <<>> /\ Len(e) = Len(secret)
  BY EncodedTyped
<1>4. e \in Forms /\ MaskFree(e)
  OBVIOUS
<1> HIDE DEF e
<1>5. Covers(A, text, Len(e))
  BY <1>2, <1>3
<1>6. PICK E : /\ A \subseteq E /\ Covers(E, text, Len(e)) /\ Met(E, text, e)
               /\ Cut(text, E) = Replaced(Cut(text, A), e)
  BY <1>1, <1>3, <1>4, <1>5, ReplacedCovers
<1>7. Met(E, text, secret)
  BY <1>2, <1>6 DEF Met
<1>8. Cut(text, E) = MaskedOnce(Cut(text, C), secret)
  BY <1>2, <1>6 DEF MaskedOnce, e
<1>9. C \subseteq E /\ Covers(E, text, Len(secret))
  BY <1>2, <1>3, <1>6
<1> QED BY <1>6, <1>7, <1>8, <1>9 DEF e

\* Where a text has a form of a secret.
LEMMA PlaceIs ==
    ASSUME NEW V, NEW text \in Seq(V), NEW o \in Places(text), <<>> \notin Forms
    PROVE  /\ SubSeq(text, o[1], o[2]) \in Forms
           /\ o = <<o[1], o[2]>> /\ o[1] \in 1..Len(text) /\ o[2] = o[1] + Len(SubSeq(text, o[1], o[2])) - 1
           /\ IsAt(text, o[1], SubSeq(text, o[1], o[2]))
<1> DEFINE N == Len(text)
           a == o[1]
           b == o[2]
           s == SubSeq(text, a, b)
<1>1. N \in Nat /\ DOMAIN text = 1..N
  BY LenProperties
<1>2. o \in (1..N) \X (1..N) /\ s \in Forms
  BY <1>1 DEF Places
<1>3. a \in 1..N /\ b \in 1..N /\ o = <<a, b>>
  BY <1>2
<1> HIDE DEF a, b
<1>4. a \in 1..(N + 1) /\ b \in 0..N
  <2> HIDE DEF N
  <2> QED BY <1>1, <1>3
<1>5. s \in Seq(V) /\ Len(s) = (IF a <= b THEN b - a + 1 ELSE 0) /\ \A k \in 1..(b - a + 1) : s[k] = text[a + k - 1]
  BY <1>4, PartTyped
<1>6. s # <<>>
  BY <1>2
<1>7. Len(s) # 0
  BY <1>5, <1>6, EmptySeq
<1>8. Len(s) = b - a + 1 /\ a <= b
  BY <1>5, <1>7
<1> HIDE DEF s
<1>9. b = a + Len(s) - 1 /\ a + Len(s) - 1 <= N
  <2> HIDE DEF N
  <2> QED BY <1>1, <1>3, <1>8
<1>10. IsAt(text, a, s)
  <2>1. \A k \in 1..Len(s) : text[a + k - 1] = s[k]
    BY <1>5, <1>8
  <2> QED BY <1>9, <2>1 DEF IsAt
<1>11. s \in Forms
  BY <1>2
<1> QED BY <1>3, <1>9, <1>10, <1>11 DEF s, a, b

\* All secrets one after another, the longest first: what has been cut by then is at
\* least as long as what is still to come.
LEMMA MaskedCovers ==
    ASSUME SecretsGiven, \A form \in Forms : MaskFree(form), NEW text \in Seq(Tokens)
    PROVE  MaskedThus(text, Masked(text))
<1> DEFINE K == Len(InOrder)
           D == 0..K
           V == Seq(Tokens)
<1>1. /\ K \in Nat
      /\ \A k \in 1..K : InOrder[k] \in V /\ InOrder[k] # <<>> /\ InOrder[k] \in SecretValues
      /\ \A n \in DOMAIN Secrets : \E k \in 1..K : InOrder[k] = Secrets[n]
      /\ \A i, j \in 1..K : i < j => Len(InOrder[i]) >= Len(InOrder[j])
  BY SecretsInOrder DEF SecretsGiven
<1>2. PICK masked \in [D -> V] :
        /\ Masked(text) = masked[K]
        /\ masked[0] = text
        /\ \A k \in 1..K : masked[k] = MaskedOnce(masked[k - 1], InOrder[k])
  BY MaskedSteps
<1>3. ASSUME NEW k \in 1..K
      PROVE  {InOrder[k], Encoded(InOrder[k])} \subseteq Forms /\ Len(InOrder[k]) \in Nat
  <2>1. PICK n \in DOMAIN Secrets : InOrder[k] = Secrets[n]
    BY <1>1 DEF SecretValues
  <2>2. Len(InOrder[k]) \in Nat
    BY <1>1, LenProperties
  <2> QED BY <2>1, <2>2 DEF Forms
<1> DEFINE Wide(C, k) == \A c \in C : \A j \in (k + 1)..K : Len(InOrder[j]) - 1 <= Width(c)
           Hit(C, k) == \A j \in 1..k : Met(C, text, InOrder[j]) /\ Met(C, text, Encoded(InOrder[j]))
           Done(k) == \E C : /\ Separate(C, Len(text)) /\ C \subseteq Places(text) /\ Wide(C, k) /\ Hit(C, k)
                             /\ masked[k] = Cut(text, C)
           S == {k \in Nat : k \in D => Done(k)}
<1>4. 0 \in S
  <2>1. \A j \in 1..0 : FALSE
    OBVIOUS
  <2>2. Separate({}, Len(text)) /\ Cut(text, {}) = text
    <3>1. Mask \in Tokens
      BY DEF Tokens
    <3> QED BY <3>1, Uncut
  <2> QED BY <1>2, <2>1, <2>2
<1>5. ASSUME NEW k \in Nat, k \in S PROVE k + 1 \in S
  <2> SUFFICES ASSUME k + 1 \in D PROVE Done(k + 1)
    OBVIOUS
  <2>1. k \in D /\ k + 1 \in 1..K /\ (k + 1) - 1 = k /\ k + 1 \in (k + 1)..K
    <3> HIDE DEF K
    <3> QED BY <1>1
  <2>2. PICK C : /\ Separate(C, Len(text)) /\ C \subseteq Places(text) /\ Wide(C, k) /\ Hit(C, k)
                 /\ masked[k] = Cut(text, C)
    <3> HIDE DEF D, Done
    <3>1. Done(k)
      BY <1>5, <2>1
    <3> QED BY <3>1 DEF Done
  <2> DEFINE s == InOrder[k + 1]
  <2>3. s \in V /\ s # <<>> /\ {s, Encoded(s)} \subseteq Forms /\ Len(s) \in Nat
    BY <1>1, <1>3, <2>1
  <2>4. MaskFree(s) /\ MaskFree(Encoded(s))
    BY <2>3
  <2>5. Covers(C, text, Len(s))
    BY <2>1, <2>2 DEF Covers
  <2>6. masked[k + 1] = MaskedOnce(masked[k], s)
    BY <1>2, <2>1
  <2> HIDE DEF s
  <2>7. PICK E : /\ C \subseteq E /\ Covers(E, text, Len(s))
                 /\ Met(E, text, s) /\ Met(E, text, Encoded(s))
                 /\ Cut(text, E) = MaskedOnce(Cut(text, C), s)
    BY <2>3, <2>4, <2>5, MaskedOnceCovers
  <2>8. Wide(E, k + 1)
    <3> SUFFICES ASSUME NEW c \in E, NEW j \in (k + 1 + 1)..K PROVE Len(InOrder[j]) - 1 <= Width(c)
      OBVIOUS
    <3>1. j \in 1..K /\ k + 1 < j
      <4>1. K \in Nat /\ k \in Nat
        BY <1>1
      <4> HIDE DEF K, D, S
      <4> QED BY <4>1
    <3>2. Len(s) >= Len(InOrder[j]) /\ Len(InOrder[j]) \in Nat
      BY <1>1, <1>3, <2>1, <3>1 DEF s
    <3>3. Len(s) - 1 <= Width(c)
      BY <2>7 DEF Covers
    <3>4. Width(c) \in Int
      <4>1. c \in Pieces(Len(text)) /\ Len(text) \in Nat
        BY <2>7, LenProperties DEF Covers, Separate
      <4>2. c[1] \in 1..Len(text) /\ c[2] \in 1..Len(text)
        BY <4>1, PieceTyped
      <4> QED BY <4>1, <4>2 DEF Width
    <3>5. Len(s) \in Nat
      BY <2>3
    <3> QED BY <3>2, <3>3, <3>4, <3>5
  <2>9. Hit(E, k + 1)
    <3> SUFFICES ASSUME NEW j \in 1..(k + 1) PROVE Met(E, text, InOrder[j]) /\ Met(E, text, Encoded(InOrder[j]))
      OBVIOUS
    <3>1. CASE j = k + 1
      BY <2>7, <3>1 DEF s
    <3>2. CASE j # k + 1
      <4>1. j \in 1..k
        <5>1. k \in Nat
          OBVIOUS
        <5> HIDE DEF K, D, S
        <5> QED BY <3>2, <5>1
      <4>2. Met(C, text, InOrder[j]) /\ Met(C, text, Encoded(InOrder[j]))
        BY <2>2, <4>1
      <4>3. ASSUME NEW w, Met(C, text, w) PROVE Met(E, text, w)
        BY <2>7, <4>3 DEF Met
      <4> QED BY <4>2, <4>3
    <3> QED BY <3>1, <3>2
  <2>10. Separate(E, Len(text)) /\ E \subseteq Places(text) /\ masked[k + 1] = Cut(text, E)
    BY <2>2, <2>6, <2>7 DEF Covers
  <2> HIDE DEF Wide, Hit
  <2> QED BY <2>8, <2>9, <2>10
<1>6. Done(K)
  <2>1. K \in D
    <3> HIDE DEF K
    <3> QED BY <1>1
  <2>2. K \in S
    <3> HIDE DEF S
    <3> QED BY <1>1, <1>4, <1>5, NatIsAll
  <2> HIDE DEF Done, D, K
  <2> QED BY <2>1, <2>2
<1>7. PICK C : /\ Separate(C, Len(text)) /\ C \subseteq Places(text) /\ Hit(C, K) /\ masked[K] = Cut(text, C)
  BY <1>6
<1>8. <<>> \notin Forms
  BY EncodedTyped DEF Forms, SecretsGiven
<1>9. ASSUME NEW o \in Places(text) PROVE \E c \in C : ~Apart(o, c) /\ Width(o) <= Width(c)
  <2> DEFINE a == o[1]
             s == SubSeq(text, o[1], o[2])
  <2>1. s \in Forms /\ o = <<a, o[2]>> /\ a \in 1..Len(text) /\ o[2] = a + Len(s) - 1 /\ IsAt(text, a, s)
    BY <1>8, PlaceIs
  <2>2. \E k \in 1..K : s = InOrder[k] \/ s = Encoded(InOrder[k])
    <3>1. PICK n \in DOMAIN Secrets : s \in {Secrets[n], Encoded(Secrets[n])}
      BY <2>1 DEF Forms
    <3> HIDE DEF s
    <3> QED BY <1>1, <3>1
  <2> HIDE DEF s, K, a
  <2>3. Met(C, text, s)
    BY <1>7, <2>2
  <2>4. PICK c \in C : ~Apart(<<a, a + Len(s) - 1>>, c) /\ Len(s) - 1 <= Width(c)
    BY <2>1, <2>3 DEF Met
  <2>5. o = <<a, a + Len(s) - 1>>
    BY <2>1
  <2>6. Width(o) = Len(s) - 1
    <3>1. Width(o) = (a + Len(s) - 1) - a
      BY <2>1 DEF Width, a
    <3>2. a \in Int /\ Len(s) \in Int
      <4>1. s \in Seq(Tokens)
        BY <2>1, EncodedTyped DEF Forms, SecretsGiven
      <4> QED BY <2>1, <4>1, LenProperties
    <3> QED BY <3>1, <3>2
  <2>7. ~Apart(o, c) /\ Width(o) <= Width(c)
    BY <2>4, <2>5, <2>6
  <2> QED BY <2>7
<1>10. \A c, d \in C : c # d => Apart(c, d)
  BY <1>7 DEF Separate
<1> QED BY <1>2, <1>7, <1>9, <1>10 DEF MaskedThus

\* A text without secrets is masked to itself.
LEMMA MaskedAgain ==
    ASSUME SecretsGiven, \A form \in Forms : MaskFree(form), NEW text \in Seq(Tokens), Hidden(text)
    PROVE  Masked(text) = text
<1>1. PICK cuts \in SUBSET Places(text) : Masked(text) = Cut(text, cuts)
  BY MaskedCovers DEF MaskedThus
<1>2. <<>> \notin Forms
  BY EncodedTyped DEF Forms, SecretsGiven
<1>3. ASSUME NEW o \in Places(text) PROVE FALSE
  <2> DEFINE s == SubSeq(text, o[1], o[2])
  <2>1. s \in Forms /\ o[1] \in 1..Len(text) /\ o[2] = o[1] + Len(s) - 1 /\ IsAt(text, o[1], s)
    BY <1>2, <1>3, PlaceIs
  <2>2. s \in SubSeqs(text)
    <3>1. o[1] \in Nat /\ o[1] # 0 /\ Len(text) \in Nat /\ DOMAIN text = 1..Len(text)
      BY <2>1, LenProperties
    <3>2. o[2] \in 1..Len(text)
      BY <1>3, <3>1 DEF Places
    <3>3. o[1] - 1 \in 0..Len(text) /\ o[2] \in 0..Len(text) /\ (o[1] - 1) + 1 = o[1]
      BY <2>1, <3>1, <3>2
    <3> DEFINE a == o[1] - 1
               b == o[2]
    <3>4. s = SubSeq(text, a + 1, b) /\ a \in 0..Len(text) /\ b \in 0..Len(text)
      BY <3>3
    <3> HIDE DEF s, a, b
    <3> QED BY <3>4 DEF SubSeqs
  <2>3. Mask \notin ToSet(s)
    <3>1. s \in Seq(Tokens)
      BY <2>1, EncodedTyped DEF Forms, SecretsGiven
    <3>2. MaskFree(s) /\ DOMAIN s = 1..Len(s)
      BY <2>1, <3>1, LenProperties
    <3> HIDE DEF s
    <3> QED BY <3>2 DEF MaskFree, ToSet
  <2>4. PICK n \in DOMAIN Secrets : s \in {Secrets[n], Encoded(Secrets[n])}
    BY <2>1 DEF Forms
  <2> HIDE DEF s
  <2> QED BY <2>2, <2>3, <2>4 DEF Hidden
<1>4. cuts = {}
  BY <1>1, <1>3
<1>5. Mask \in Tokens
  BY DEF Tokens
<1> QED BY <1>1, <1>4, <1>5, Uncut

\* What the command shows of a text it masks, if no secret has the mask in it.
Shows(s) ==
    \/ \E form \in Forms : Mask \in ToSet(form)
    \/ s.text = <<Mask>>
    \/ MaskedThus(s.whole, s.text)

LEMMA TreatedShows ==
    ASSUME SecretsGiven, NEW s, Treated(s)
    PROVE  Shows(s)
<1> SUFFICES ASSUME \A form \in Forms : Mask \notin ToSet(form) PROVE s.text = <<Mask>> \/ MaskedThus(s.whole, s.text)
  BY DEF Shows
<1>1. ASSUME NEW form \in Forms PROVE MaskFree(form)
  <2>1. form \in Seq(Tokens)
    BY EncodedTyped DEF Forms, SecretsGiven
  <2>2. DOMAIN form = 1..Len(form)
    BY <2>1, LenProperties
  <2> QED BY <2>2 DEF MaskFree, ToSet
<1>2. s.whole \in Seq(Tokens) /\ <<Mask>> \in Seq(Tokens)
  BY DEF Treated, Tokens
<1>3. MaskedThus(s.whole, Masked(s.whole))
  BY <1>1, <1>2, MaskedCovers
<1>4. Masked(<<Mask>>) = <<Mask>>
  BY <1>1, <1>2, MaskHides, MaskedAgain
<1>5. Masked(Masked(s.whole)) = Masked(s.whole)
  BY <1>1, <1>2, MaskedHides, MaskedAgain
<1> QED BY <1>3, <1>4, <1>5 DEF Treated

LEMMA MaskedStep ==
    VerdictInv /\ ExpandInv /\ SecretInv /\ SecretsMasked /\ [FileNext]_fileVars => SecretsMasked'
<1> SUFFICES ASSUME VerdictInv, ExpandInv, SecretInv, SecretsMasked, [FileNext]_fileVars PROVE SecretsMasked'
  OBVIOUS
<1>1. SecretsMasked <=> \A s \in shown : s.part \in MaskedParts => Shows(s)
  BY DEF SecretsMasked, Shows, MaskedShown
<1>2. SecretsMasked' <=> \A s \in shown' : s.part \in MaskedParts => Shows(s)'
  BY DEF SecretsMasked, Shows, MaskedShown
<1>3. ASSUME UNCHANGED input, NEW s PROVE Shows(s)' <=> Shows(s)
  <2>1. Forms' = Forms
    BY <1>3 DEF Forms, Secrets, Encoded
  <2>2. ASSUME NEW whole, NEW text PROVE MaskedThus(whole, text)' <=> MaskedThus(whole, text)
    <3>1. Places(whole)' = Places(whole)
      BY <2>1 DEF Places
    <3> QED BY <3>1 DEF MaskedThus, Cut, Apart, Width
  <2> QED BY <2>1, <2>2 DEF Shows
<1>4. CASE UNCHANGED <<input, shown>>
  <2>1. \A s \in shown : s.part \in MaskedParts => Shows(s)
    BY <1>1
  <2> QED BY <1>2, <1>3, <1>4, <2>1
<1>5. CASE UNCHANGED input /\ \A s \in shown' : s.part \in MaskedParts => SecretsGiven /\ Treated(s)
  <2>1. ASSUME NEW s \in shown', s.part \in MaskedParts PROVE Shows(s)
    BY <1>5, <2>1, TreatedShows
  <2> QED BY <1>2, <1>3, <1>5, <2>1
<1>6. CASE FileNext
  BY <1>4, <1>5, <1>6, StepShows
<1> QED BY <1>4, <1>6 DEF fileVars

\* Every part of the output that the command masks is its text with masks in the place
\* of secrets and nothing else hidden, and no secret that another does not cut across is
\* left in part: mask_secret_values and redact_value of crates/core/src/lib.rs, for texts
\* and secrets of any length, in any number, whichever overlap.  The method, names and
\* paths are not masked.
THEOREM SecretsAreMasked == FileStart /\ [][FileNext]_fileVars => []SecretsMasked
<1>1. FileStart => SecretsMasked
  BY DEF FileStart, FileInit, FileOf, SecretsMasked, MaskedShown
<1> QED BY <1>1, VerdictInit, VerdictStep, ExpandInit, ExpandStep, SecretInit, SecretStep, MaskedStep, PTL

===============================================================================
