---------------------------- MODULE HttpRunProofs ----------------------------
(***************************************************************************)
(* Proofs about RequestStore and HttpRun, for any number of processes,     *)
(* requests, runs, report directories, stamps, crashes and failures: a     *)
(* stored request is torn by nothing but a create that has not ended and   *)
(* two updates that overlap, an id is created once, and both stay so with  *)
(* runs at work; the record, the exit code and the report of a run agree.  *)
(***************************************************************************)
EXTENDS HttpRun, TLAPS

-------------------------------------------------------------------------------
(* RequestStore.                                                             *)


\* Where a process that updates is, once it has opened the temporary file.
Updates == {"replace", "rename"}
Opened == Updates \cup {"reload", "done", "dead"}
Creates == {"create", "abandoned"}

\* The first k pieces of a document.
Prefix(w, k) == [j \in Pieces |-> IF j <= k THEN w ELSE Blank]

\* An inode is at one path at most, that of the request its process has named; what
\* a process that updates has open was made by an update of the same request.
Owned ==
    /\ \A i \in Ids : request[i] \in Ids => request[i] = i
    /\ \A i \in Ids : request[i] \in Clients =>
          target[request[i]] = i /\ pc[request[i]] \in Opened \cup Creates
    /\ \A i \in Ids : temp[i] # NoFile =>
          /\ temp[i] \in Clients /\ temp[i] # request[i]
          /\ target[temp[i]] = i /\ pc[temp[i]] \in Opened
    /\ \A p \in Clients : pc[p] \in Updates =>
          file[p] \in Clients /\ target[file[p]] = target[p] /\ pc[file[p]] \in Opened

\* How much a process has written of its document.
Offsets ==
    \A p \in Clients :
       /\ pc[p] \in {"start", "open"} => offset[p] = 0
       /\ pc[p] = "start" => content[p] = Empty
       /\ pc[p] \in {"create", "replace"} => offset[p] < Length(p)
       /\ pc[p] = "rename" => offset[p] = Length(p)

\* A create has its inode to itself.
CreatesAlone ==
    \A p \in Clients : pc[p] = "create" =>
       file[p] = p /\ content[p] = Prefix(p, offset[p])

\* An update has the temporary file to itself, unless updates were mixed.
UpdatesAlone ==
    \A p \in Clients : pc[p] \in Updates /\ target[p] \notin mixed =>
       /\ temp[target[p]] = file[p]
       /\ content[file[p]] = Prefix(p, offset[p])
       /\ \A q \in Clients \ {p} : pc[q] \in Updates => file[q] # file[p]

StoreInv ==
    StoreTypeOK /\ Owned /\ Offsets /\ CreatesAlone /\ UpdatesAlone /\ OnlyCreatesTear

-------------------------------------------------------------------------------
LEMMA Lengths ==
    ASSUME NEW w
    PROVE  /\ Length(w) \in 1..2
           /\ Prefix(w, Length(w)) = Document(w)
           /\ Prefix(w, 0) = Empty
BY DEF Length, Prefix, Document, Empty, Pieces

LEMMA Inode ==
    ASSUME NEW n \in Inodes
    PROVE  n # NoFile /\ (n \in Clients \/ n \in Ids) /\ ~(n \in Clients /\ n \in Ids)
BY StoreAssumption DEF Inodes

\* The invariant holds before any process has run.
LEMMA StoreInitInv == StoreInit => StoreInv
<1> SUFFICES ASSUME StoreInit PROVE StoreInv
  OBVIOUS
<1>1. \A n \in Ids : content[n] = Document(n)
  BY DEF StoreInit, Inodes
<1>2. \A p \in Clients : content[p] = Empty
  BY StoreAssumption DEF StoreInit, Inodes
<1>3. \A n \in Inodes : Document(n) \in [Pieces -> Inodes \cup {Blank}]
                        /\ Empty \in [Pieces -> Inodes \cup {Blank}]
  BY DEF Document, Empty
<1>4. content \in [Inodes -> [Pieces -> Inodes \cup {Blank}]]
  BY <1>3 DEF StoreInit
<1>5. StoreTypeOK
  BY <1>4 DEF StoreInit, StoreTypeOK, Inodes, Answers
<1>6. Owned
  BY StoreAssumption DEF StoreInit, Owned, Inodes, Updates
<1>7. Offsets
  BY <1>2 DEF StoreInit, Offsets
<1>8. CreatesAlone /\ UpdatesAlone
  BY DEF StoreInit, CreatesAlone, UpdatesAlone, Updates
<1>9. OnlyCreatesTear
  BY <1>1 DEF StoreInit, OnlyCreatesTear, Whole, Inodes
<1> QED BY <1>5, <1>6, <1>7, <1>8, <1>9 DEF StoreInv

\* A step that touches no file and opens none.
Quiet(p, l) ==
    /\ pc' = [pc EXCEPT ![p] = l]
    /\ l \in {"open", "reload", "remove", "list", "done", "abandoned", "dead"}
    /\ l = "open" => pc[p] = "start"
    /\ pc[p] \in Opened => l \in Opened
    /\ pc[p] = "create" <=> l = "abandoned"
    /\ pc[p] # "abandoned"
    /\ UNCHANGED <<files, target, file, offset, mixed>>

LEMMA QuietInv ==
    ASSUME StoreInv, NEW p \in Clients, NEW l, Quiet(p, l),
           answer' \in [Clients -> Answers \cup {"none"}],
           toList' \in [Clients -> SUBSET Ids],
           makers' \in [Ids -> SUBSET Clients]
    PROVE  StoreInv'
<1>1. \A q \in Clients : pc'[q] = IF q = p THEN l ELSE pc[q]
  BY DEF Quiet, StoreInv, StoreTypeOK
<1>2. UNCHANGED <<request, temp, content, target, file, offset, mixed>>
  BY DEF Quiet, files
<1>3. StoreTypeOK'
  BY <1>2 DEF Quiet, StoreInv, StoreTypeOK
<1>4. Owned'
  BY <1>1, <1>2 DEF Quiet, StoreInv, Owned, Opened, Updates, Creates
<1>5. Offsets'
  BY <1>1, <1>2 DEF Quiet, StoreInv, Offsets, Length
<1>6. CreatesAlone'
  BY <1>1, <1>2 DEF Quiet, StoreInv, CreatesAlone
<1>7. UpdatesAlone'
  BY <1>1, <1>2 DEF Quiet, StoreInv, UpdatesAlone, Updates
<1>8. OnlyCreatesTear'
  BY <1>1, <1>2 DEF Quiet, StoreInv, OnlyCreatesTear, Whole
<1> QED BY <1>3, <1>4, <1>5, <1>6, <1>7, <1>8 DEF StoreInv

\* The actions that are quiet, or are so in one branch.
LEMMA AnswerTyped ==
    ASSUME StoreTypeOK, NEW p \in Clients, NEW a \in Answers, Answer(p, a)
    PROVE  /\ pc' = [pc EXCEPT ![p] = "done"]
           /\ answer' \in [Clients -> Answers \cup {"none"}]
BY DEF StoreTypeOK, Answer, Goto

LEMMA QuietSteps ==
    ASSUME StoreInv, NEW p \in Clients,
           \/ CheckUpdate(p) \/ Reload(p) \/ CheckDelete(p) \/ ReadDir(p)
           \/ ReadListed(p) \/ Dies(p)
    PROVE  StoreInv'
<1>0. StoreTypeOK /\ pc[p] \in {"start", "create", "replace", "open", "rename", "reload",
                           "remove", "list", "done", "abandoned", "dead"}
  BY DEF StoreInv, StoreTypeOK
<1> USE DEF Answers, Opened, Updates
<1>1. ASSUME NEW a \in Answers, Answer(p, a), pc[p] \in {"start", "reload", "list"},
             UNCHANGED <<files, target, file, offset, mixed, makers>>,
             toList' \in [Clients -> SUBSET Ids]
      PROVE  StoreInv'
  <2>1. Quiet(p, "done")
    BY <1>0, <1>1, AnswerTyped DEF Quiet
  <2> QED BY <1>0, <1>1, <2>1, AnswerTyped, QuietInv DEF StoreTypeOK
<1>2. ASSUME NEW l, Quiet(p, l), UNCHANGED <<answer, makers>>,
             toList' \in [Clients -> SUBSET Ids]
      PROVE  StoreInv'
  BY <1>0, <1>2, QuietInv DEF StoreTypeOK
<1>3. CASE CheckUpdate(p)
  <2>1. CASE Answer(p, "not_found")
    BY <1>0, <1>1, <1>3, <2>1 DEF CheckUpdate, StoreTypeOK
  <2>2. CASE Goto(p, "open") /\ UNCHANGED answer
    <3>1. Quiet(p, "open")
      BY <1>3, <2>2 DEF CheckUpdate, Goto, Quiet
    <3> QED BY <1>0, <1>2, <1>3, <2>2, <3>1 DEF CheckUpdate, StoreTypeOK
  <2> QED BY <1>3, <2>1, <2>2 DEF CheckUpdate
<1>4. CASE Reload(p)
  BY <1>0, <1>1, <1>4 DEF Reload, StoreTypeOK
<1>5. CASE CheckDelete(p)
  <2>1. CASE Answer(p, "not_found")
    BY <1>0, <1>1, <1>5, <2>1 DEF CheckDelete, StoreTypeOK
  <2>2. CASE Goto(p, "remove") /\ UNCHANGED answer
    <3>1. Quiet(p, "remove")
      BY <1>5, <2>2 DEF CheckDelete, Goto, Quiet
    <3> QED BY <1>0, <1>2, <1>5, <2>2, <3>1 DEF CheckDelete, StoreTypeOK
  <2> QED BY <1>5, <2>1, <2>2 DEF CheckDelete
<1>6. CASE ReadDir(p)
  <2>1. Quiet(p, "list")
    BY <1>6 DEF ReadDir, Goto, Quiet
  <2> QED BY <1>0, <1>2, <1>6, <2>1 DEF ReadDir, StoreTypeOK
<1>7. CASE ReadListed(p)
  <2>1. pc[p] = "list" /\ UNCHANGED <<files, target, file, offset, mixed, makers>>
    BY <1>7 DEF ReadListed
  <2>2. CASE (Answer(p, "listed") \/ Answer(p, "error")) /\ UNCHANGED toList
    BY <1>0, <1>1, <2>1, <2>2 DEF StoreTypeOK
  <2>3. CASE \E i \in Ids : /\ toList' = [toList EXCEPT ![p] = @ \ {i}]
                            /\ UNCHANGED <<pc, answer>>
    <3>1. toList' \in [Clients -> SUBSET Ids]
      BY <1>0, <2>3 DEF StoreTypeOK
    <3>2. Quiet(p, "list")
      BY <1>0, <2>1, <2>3 DEF Quiet, StoreTypeOK
    <3> QED BY <1>2, <2>1, <2>3, <3>1, <3>2
  <2>4. toList[p] \subseteq Ids
    BY <1>0 DEF StoreTypeOK
  <2> QED BY <1>7, <2>2, <2>3, <2>4 DEF ReadListed
<1>8. CASE Dies(p)
  <2> DEFINE l == IF pc[p] = "create" THEN "abandoned" ELSE "dead"
  <2>1. Quiet(p, l)
    BY <1>8 DEF Dies, Goto, Quiet
  <2> QED BY <1>0, <1>2, <1>8, <2>1 DEF Dies, StoreTypeOK
<1> QED BY <1>3, <1>4, <1>5, <1>6, <1>7, <1>8

\* A create that finds no file: it alone has the inode.
LEMMA OpenNewInv ==
    ASSUME StoreInv, NEW p \in Clients, OpenNew(p) PROVE StoreInv'
<1> DEFINE i == target[p]
<1>0. StoreTypeOK /\ i \in Ids /\ pc[p] = "start" /\ p \in Inodes
  BY DEF StoreInv, StoreTypeOK, OpenNew, Inodes
<1>1. CASE Taken(i)
  <2>1. Answer(p, "exists") /\ UNCHANGED <<files, file, target, offset, toList, mixed, makers>>
    BY <1>1 DEF OpenNew
  <2>2. "exists" \in Answers
    BY DEF Answers
  <2>3. Quiet(p, "done")
    BY <1>0, <2>1, <2>2, AnswerTyped DEF Quiet, Opened, Updates
  <2> QED BY <1>0, <2>1, <2>2, <2>3, AnswerTyped, QuietInv DEF StoreTypeOK
<1>2. CASE ~Taken(i)
  <2>1. /\ request[i] = NoFile
        /\ request' = [request EXCEPT ![i] = p]
        /\ file' = [file EXCEPT ![p] = p]
        /\ pc' = [pc EXCEPT ![p] = "create"]
        /\ makers' = [makers EXCEPT ![i] = @ \cup {p}]
        /\ UNCHANGED <<temp, content, answer, target, offset, toList, mixed>>
    BY <1>2 DEF OpenNew, Taken, Goto
  <2>2. /\ \A j \in Ids : request'[j] = IF j = i THEN p ELSE request[j]
        /\ \A q \in Clients : /\ file'[q] = IF q = p THEN p ELSE file[q]
                              /\ pc'[q] = IF q = p THEN "create" ELSE pc[q]
    BY <1>0, <2>1 DEF StoreTypeOK
  <2>3. StoreTypeOK'
    BY <1>0, <2>1 DEF StoreTypeOK
  <2>4. \A j \in Ids : temp[j] # p
    BY <1>0, StoreAssumption DEF StoreInv, Owned, Opened, Updates, Inodes
  <2>5. Owned'
    <3>1. \A j \in Ids : request'[j] \in Ids => request'[j] = j
      BY <2>2, StoreAssumption DEF StoreInv, Owned
    <3>2. \A j \in Ids : request'[j] \in Clients =>
             target[request'[j]] = j /\ pc'[request'[j]] \in Opened \cup Creates
      BY <1>0, <2>2 DEF StoreInv, Owned, Opened, Updates, Creates
    <3>3. \A j \in Ids : temp[j] # NoFile =>
             /\ temp[j] \in Clients /\ temp[j] # request'[j]
             /\ target[temp[j]] = j /\ pc'[temp[j]] \in Opened
      BY <1>0, <2>2, <2>4 DEF StoreInv, Owned
    <3>4. \A q \in Clients : pc'[q] \in Updates =>
             file'[q] \in Clients /\ target[file'[q]] = target[q] /\ pc'[file'[q]] \in Opened
      BY <1>0, <2>2 DEF StoreInv, Owned, Updates, Opened
    <3> QED BY <2>1, <3>1, <3>2, <3>3, <3>4 DEF Owned
  <2>6. Offsets'
    BY <1>0, <2>1, <2>2, Lengths DEF StoreInv, Offsets, Length
  <2>7. CreatesAlone'
    BY <1>0, <2>1, <2>2, Lengths DEF StoreInv, CreatesAlone, Offsets
  <2>8. UpdatesAlone'
    BY <1>0, <2>1, <2>2 DEF StoreInv, UpdatesAlone, Updates
  <2>9. OnlyCreatesTear'
    <3>1. ASSUME NEW j \in Ids, request[j] # NoFile, j \notin mixed
          PROVE  \/ Whole(request[j])'
                 \/ request'[j] \in Clients /\ pc'[request'[j]] \in {"create", "abandoned"}
      <4>1. j # i /\ request'[j] = request[j]
        BY <2>1, <2>2, <3>1
      <4>2. CASE Whole(request[j])
        BY <2>1, <4>1, <4>2 DEF Whole, Document, Length
      <4>3. CASE request[j] \in Clients /\ pc[request[j]] \in {"create", "abandoned"}
        BY <2>2, <4>1, <4>3
      <4> QED BY <3>1, <4>2, <4>3 DEF StoreInv, OnlyCreatesTear
    <3>2. request'[i] = p /\ pc'[p] = "create"
      BY <1>0, <2>2
    <3>3. \A j \in Ids \ {i} : request'[j] = request[j]
      BY <2>2
    <3> QED BY <2>1, <3>1, <3>2, <3>3 DEF OnlyCreatesTear
  <2> QED BY <2>3, <2>5, <2>6, <2>7, <2>8, <2>9 DEF StoreInv
<1> QED BY <1>1, <1>2

\* What a write changes.
LEMMA WriteEffect ==
    ASSUME StoreInv, NEW p \in Clients, Write(p)
    PROVE  /\ pc[p] \in {"create", "replace"} /\ offset[p] \in 0..1
           /\ UNCHANGED <<request, temp, target, file, toList, mixed, makers>>
           /\ \A q \in Clients : offset'[q] = IF q = p THEN offset[p] + 1 ELSE offset[q]
           /\ offset' \in [Clients -> 0..2]
           /\ content' \in [Inodes -> [Pieces -> Inodes \cup {Blank}]]
           /\ \A n \in Inodes \ {file[p]} : content'[n] = content[n]
           /\ content[file[p]] = Prefix(p, offset[p])
                => content'[file[p]] = Prefix(p, offset[p] + 1)
           /\ answer' \in [Clients -> Answers \cup {"none"}]
<1>0. StoreTypeOK /\ pc[p] \in {"create", "replace"}
  BY DEF StoreInv, Write
<1>1. offset[p] \in 0..1
  BY <1>0, Lengths DEF StoreInv, StoreTypeOK, Offsets
<1>2. offset' = [offset EXCEPT ![p] = @ + 1]
      /\ content' = [content EXCEPT ![file[p]][offset[p] + 1] = p]
      /\ UNCHANGED <<request, temp, target, file, toList, mixed, makers>>
  BY DEF Write
<1>3. offset' \in [Clients -> 0..2]
      /\ \A q \in Clients : offset'[q] = IF q = p THEN offset[p] + 1 ELSE offset[q]
  BY <1>0, <1>1, <1>2 DEF StoreTypeOK
<1>4. file[p] \in Inodes /\ p \in Inodes /\ offset[p] + 1 \in Pieces
  BY <1>0, <1>1 DEF StoreTypeOK, Inodes, Pieces
<1> DEFINE new == [content[file[p]] EXCEPT ![offset[p] + 1] = p]
<1>5. content' = [content EXCEPT ![file[p]] = new]
  BY <1>2
<1>6. content[file[p]] \in [Pieces -> Inodes \cup {Blank}]
  BY <1>0, <1>4 DEF StoreTypeOK
<1>7. new \in [Pieces -> Inodes \cup {Blank}]
  BY <1>4, <1>6
<1>8. content[file[p]] = Prefix(p, offset[p]) => new = Prefix(p, offset[p] + 1)
  BY <1>1 DEF Prefix, Pieces
<1>9. answer' \in [Clients -> Answers \cup {"none"}]
  BY <1>0 DEF Write, Answer, Answers, StoreTypeOK
<1> HIDE DEF new
<1>10. content' \in [Inodes -> [Pieces -> Inodes \cup {Blank}]]
       /\ content'[file[p]] = new
       /\ \A n \in Inodes \ {file[p]} : content'[n] = content[n]
  BY <1>0, <1>4, <1>5, <1>7 DEF StoreTypeOK
<1> QED BY <1>0, <1>1, <1>2, <1>3, <1>8, <1>9, <1>10

\* The inode a process writes is open in no other, and is not the file of a request,
\* unless updates were mixed, or the process creates that request.
LEMMA WriteInv ==
    ASSUME StoreInv, NEW p \in Clients, Write(p) PROVE StoreInv'
<1> DEFINE l == IF offset[p] + 1 < Length(p) THEN pc[p]
                ELSE IF pc[p] = "create" THEN "done" ELSE "rename"
<1>0. StoreTypeOK /\ target[p] \in Ids /\ file[p] \in Inodes /\ p \in Inodes
  BY DEF StoreInv, StoreTypeOK, Inodes
<1>1. /\ pc[p] \in {"create", "replace"} /\ offset[p] \in 0..1
      /\ UNCHANGED <<request, temp, target, file, toList, mixed, makers>>
      /\ \A q \in Clients : offset'[q] = IF q = p THEN offset[p] + 1 ELSE offset[q]
      /\ \A n \in Inodes \ {file[p]} : content'[n] = content[n]
      /\ content[file[p]] = Prefix(p, offset[p])
           => content'[file[p]] = Prefix(p, offset[p] + 1)
  BY WriteEffect
<1>2. pc' = [pc EXCEPT ![p] = l]
  BY <1>0, <1>1 DEF Write, Answer, Goto, StoreTypeOK
<1>3. /\ \A q \in Clients : pc'[q] = IF q = p THEN l ELSE pc[q]
      /\ l \in {"create", "replace", "rename", "done"}
  BY <1>0, <1>1, <1>2 DEF StoreTypeOK
<1>4. StoreTypeOK'
  BY <1>0, <1>1, <1>2, <1>3, WriteEffect DEF StoreTypeOK
<1>5. Length(p) \in 1..2 /\ offset[p] < Length(p)
  BY <1>0, <1>1, Lengths DEF StoreInv, Offsets
<1>6. /\ offset[p] + 1 < Length(p) => l = pc[p]
      /\ ~(offset[p] + 1 < Length(p)) => offset[p] + 1 = Length(p)
                            /\ (pc[p] = "create" => l = "done")
                            /\ (pc[p] = "replace" => l = "rename")
  BY <1>1, <1>5
<1> HIDE DEF l
<1>7. /\ pc[p] = "create" => file[p] = p
      /\ pc[p] = "replace" => file[p] \in Clients /\ target[file[p]] = target[p]
                              /\ pc[file[p]] \in Opened
  BY DEF StoreInv, CreatesAlone, Owned, Updates
<1>8. Owned'
  BY <1>0, <1>1, <1>3, <1>6 DEF StoreInv, Owned, Opened, Updates, Creates
<1>9. \A q \in Clients : pc[q] = "start" => q # file[p]
  BY <1>1, <1>7 DEF Opened, Updates
<1>10. Offsets'
  <2>1. \A q \in Clients : pc'[q] = "start" => content'[q] = Empty
    BY <1>1, <1>3, <1>9 DEF StoreInv, Offsets, Inodes
  <2>2. \A q \in Clients \ {p} :
           /\ pc'[q] \in {"start", "open"} => offset'[q] = 0
           /\ pc'[q] \in {"create", "replace"} => offset'[q] < Length(q)
           /\ pc'[q] = "rename" => offset'[q] = Length(q)
    BY <1>1, <1>3 DEF StoreInv, Offsets
  <2>3. /\ pc'[p] \in {"start", "open"} => offset'[p] = 0
        /\ pc'[p] \in {"create", "replace"} => offset'[p] < Length(p)
        /\ pc'[p] = "rename" => offset'[p] = Length(p)
    BY <1>1, <1>3, <1>5, <1>6
  <2>4. \A q : Length(q)' = Length(q)
    BY DEF Length
  <2> QED BY <2>1, <2>2, <2>3, <2>4 DEF Offsets
<1>11. CreatesAlone'
  <2>1. ASSUME NEW q \in Clients, pc'[q] = "create"
        PROVE  file'[q] = q /\ content'[q] = Prefix(q, offset'[q])
    <3>1. pc[q] = "create" /\ file[q] = q /\ content[q] = Prefix(q, offset[q])
      BY <1>1, <1>3, <1>6, <2>1 DEF StoreInv, CreatesAlone
    <3>2. CASE q = p
      BY <1>1, <3>1, <3>2
    <3>3. CASE q # p
      <4>1. q # file[p]
        BY <1>1, <1>7, <3>1, <3>3 DEF Opened, Updates
      <4> QED BY <1>1, <3>1, <3>3, <4>1 DEF Inodes
    <3> QED BY <3>2, <3>3
  <2> QED BY <2>1 DEF CreatesAlone, Prefix
<1>12. UpdatesAlone'
  <2>1. ASSUME NEW q \in Clients, pc'[q] \in Updates, target[q] \notin mixed
        PROVE  /\ temp[target[q]] = file[q]
               /\ content'[file[q]] = Prefix(q, offset'[q])
               /\ \A r \in Clients \ {q} : pc'[r] \in Updates => file[r] # file[q]
    <3>1. pc[q] \in Updates /\ (q = p => pc[p] = "replace")
      BY <1>1, <1>3, <1>6, <2>1 DEF Updates
    <3>2. \A r \in Clients : pc'[r] \in Updates => pc[r] \in Updates
      BY <1>1, <1>3, <1>6 DEF Updates
    <3>3. /\ temp[target[q]] = file[q]
          /\ content[file[q]] = Prefix(q, offset[q])
          /\ \A r \in Clients \ {q} : pc[r] \in Updates => file[r] # file[q]
      BY <2>1, <3>1 DEF StoreInv, UpdatesAlone
    <3>4. CASE q = p
      BY <1>1, <3>2, <3>3, <3>4
    <3>5. CASE q # p
      <4>1. file[p] # file[q]
        <5>1. CASE pc[p] = "replace"
          BY <3>3, <3>5, <5>1 DEF Updates
        <5>2. CASE pc[p] = "create"
          BY <1>7, <3>1, <5>2 DEF StoreInv, Owned, Opened, Updates
        <5> QED BY <1>1, <5>1, <5>2
      <4>2. file[q] \in Inodes
        BY <1>0 DEF StoreTypeOK
      <4> QED BY <1>1, <3>2, <3>3, <3>5, <4>1, <4>2
    <3> QED BY <3>4, <3>5
  <2> QED BY <1>1, <2>1 DEF UpdatesAlone, Prefix
<1>13. OnlyCreatesTear'
  <2>1. ASSUME NEW i \in Ids, request[i] # NoFile, i \notin mixed
        PROVE  \/ Whole(request[i])'
               \/ request[i] \in Clients /\ pc'[request[i]] \in {"create", "abandoned"}
    <3>1. request[i] \in Inodes
      BY <1>0, <2>1 DEF StoreTypeOK
    <3>2. CASE request[i] # file[p]
      <4>1. content'[request[i]] = content[request[i]]
        BY <1>1, <3>1, <3>2
      <4>2. request[i] \in Clients => request[i] # p \/ pc[p] = "replace"
        BY <1>1, <1>7, <3>2
      <4>3. CASE Whole(request[i])
        BY <1>1, <4>1, <4>3 DEF Whole, Document, Length
      <4>4. CASE request[i] \in Clients /\ pc[request[i]] \in {"create", "abandoned"}
        BY <1>1, <1>3, <4>2, <4>4
      <4> QED BY <2>1, <4>3, <4>4 DEF StoreInv, OnlyCreatesTear
    <3>3. CASE request[i] = file[p] /\ pc[p] = "create"
      <4>1. file[p] = p /\ content'[p] = Prefix(p, offset[p] + 1)
        BY <1>1, <3>3 DEF StoreInv, CreatesAlone
      <4>2. CASE offset[p] + 1 < Length(p)
        BY <1>3, <1>6, <3>3, <4>1, <4>2
      <4>3. CASE ~(offset[p] + 1 < Length(p))
        <5>1. content'[p] = Document(p)
          BY <1>6, <4>1, <4>3, Lengths
        <5> QED BY <1>0, <1>1, <3>3, <4>1, <5>1 DEF Whole, Document, Length
      <4> QED BY <4>2, <4>3
    <3>4. CASE request[i] = file[p] /\ pc[p] = "replace"
      <4>1. i = target[p]
        BY <1>7, <3>4 DEF StoreInv, Owned
      <4>2. temp[i] = file[p]
        BY <2>1, <3>4, <4>1 DEF StoreInv, UpdatesAlone, Updates
      <4> QED BY <2>1, <3>4, <4>2 DEF StoreInv, Owned
    <3> QED BY <1>1, <3>2, <3>3, <3>4
  <2> QED BY <1>1, <2>1 DEF OnlyCreatesTear
<1> QED BY <1>4, <1>8, <1>10, <1>11, <1>12, <1>13 DEF StoreInv

\* An update that opens the temporary file empties it, which nobody else has open,
\* unless updates are mixed from now on.
LEMMA OpenTempInv ==
    ASSUME StoreInv, NEW p \in Clients, OpenTemp(p) PROVE StoreInv'
<1> DEFINE i == target[p]
           n == IF temp[i] = NoFile THEN p ELSE temp[i]
<1>0. StoreTypeOK /\ i \in Ids /\ pc[p] = "open" /\ p \in Inodes
  BY DEF StoreInv, StoreTypeOK, OpenTemp, Inodes
<1>1. /\ temp' = [temp EXCEPT ![i] = n]
      /\ file' = [file EXCEPT ![p] = n]
      /\ content' = [content EXCEPT ![n] = Empty]
      /\ mixed' = IF \E q \in Clients : Updating(q, n) THEN mixed \cup {i} ELSE mixed
      /\ pc' = [pc EXCEPT ![p] = "replace"]
      /\ UNCHANGED <<request, target, offset, answer, toList, makers>>
  BY DEF OpenTemp, Truncated, Goto
<1>2. /\ n \in Clients /\ n \in Inodes /\ target[n] = i /\ pc[n] \in Opened \cup {"open"}
      /\ pc[n] = "open" => n = p
  BY <1>0 DEF StoreInv, Owned, Inodes, Opened, Updates
<1>3. n # request[i]
  BY <1>0 DEF StoreInv, Owned, Opened, Updates, Creates
<1>4. \A j \in Ids : request[j] # n
  BY <1>2, <1>3, StoreAssumption DEF StoreInv, Owned
<1>5. temp[i] # NoFile => n = temp[i]
  OBVIOUS
<1> HIDE DEF n
<1>6. /\ \A j \in Ids : temp'[j] = IF j = i THEN n ELSE temp[j]
      /\ \A q \in Clients : /\ file'[q] = IF q = p THEN n ELSE file[q]
                            /\ pc'[q] = IF q = p THEN "replace" ELSE pc[q]
      /\ \A m \in Inodes : content'[m] = IF m = n THEN Empty ELSE content[m]
  BY <1>0, <1>1, <1>2 DEF StoreTypeOK
<1>7. StoreTypeOK'
  <2>1. Empty \in [Pieces -> Inodes \cup {Blank}]
    BY DEF Empty
  <2>2. content' \in [Inodes -> [Pieces -> Inodes \cup {Blank}]]
    BY <1>0, <1>1, <1>2, <2>1 DEF StoreTypeOK
  <2>3. mixed' \in SUBSET Ids
    BY <1>0, <1>1 DEF StoreTypeOK
  <2> QED BY <1>0, <1>1, <1>2, <2>2, <2>3 DEF StoreTypeOK
<1>8. Owned'
  <2>1. \A m \in Clients : pc[m] \in Opened => pc'[m] \in Opened
    BY <1>6 DEF Opened, Updates
  <2>2. pc'[n] \in Opened
    BY <1>2, <1>6 DEF Opened, Updates
  <2>3. \A j \in Ids : request[j] \in Ids => request[j] = j
    BY DEF StoreInv, Owned
  <2>4. \A j \in Ids : request[j] \in Clients =>
           target[request[j]] = j /\ pc'[request[j]] \in Opened \cup Creates
    BY <1>0, <1>6, <2>1 DEF StoreInv, Owned, Creates, Opened, Updates
  <2>5. \A j \in Ids : temp'[j] # NoFile =>
           /\ temp'[j] \in Clients /\ temp'[j] # request[j]
           /\ target[temp'[j]] = j /\ pc'[temp'[j]] \in Opened
    BY <1>2, <1>3, <1>6, <2>1, <2>2 DEF StoreInv, Owned
  <2>6. \A q \in Clients : pc'[q] \in Updates =>
           file'[q] \in Clients /\ target[file'[q]] = target[q] /\ pc'[file'[q]] \in Opened
    BY <1>2, <1>6, <2>1, <2>2 DEF StoreInv, Owned
  <2> QED BY <1>1, <2>3, <2>4, <2>5, <2>6 DEF Owned
<1>9. Offsets'
  <2>1. \A q \in Clients : pc[q] = "start" => q # n
    BY <1>2 DEF Opened, Updates
  <2>2. \A q \in Clients : pc'[q] = "start" => content'[q] = Empty
    BY <1>6, <2>1 DEF StoreInv, Offsets, Inodes
  <2>3. offset[p] = 0 /\ Length(p) \in 1..2
    BY <1>0, Lengths DEF StoreInv, Offsets
  <2>4. \A q \in Clients :
           /\ pc'[q] \in {"start", "open"} => offset[q] = 0
           /\ pc'[q] \in {"create", "replace"} => offset[q] < Length(q)
           /\ pc'[q] = "rename" => offset[q] = Length(q)
    BY <1>6, <2>3 DEF StoreInv, Offsets
  <2>5. \A q : Length(q)' = Length(q)
    BY DEF Length
  <2> QED BY <1>1, <2>2, <2>4, <2>5 DEF Offsets
<1>10. CreatesAlone'
  <2>1. ASSUME NEW q \in Clients, pc'[q] = "create"
        PROVE  file'[q] = q /\ content'[q] = Prefix(q, offset[q])
    <3>1. q # p /\ pc[q] = "create" /\ q # n
      BY <1>2, <1>6, <2>1 DEF Opened, Updates
    <3> QED BY <1>6, <3>1 DEF StoreInv, CreatesAlone, Inodes
  <2> QED BY <1>1, <2>1 DEF CreatesAlone, Prefix
<1>11. mixed \subseteq mixed' /\ (i \notin mixed' => \A q \in Clients : ~Updating(q, n))
  BY <1>1
<1>12. UpdatesAlone'
  <2>1. ASSUME NEW q \in Clients, pc'[q] \in Updates, target[q] \notin mixed'
        PROVE  /\ temp'[target[q]] = file'[q]
               /\ content'[file'[q]] = Prefix(q, offset[q])
               /\ \A r \in Clients \ {q} : pc'[r] \in Updates => file'[r] # file'[q]
    <3>1. CASE q = p
      <4>1. temp'[target[q]] = n /\ file'[q] = n /\ content'[n] = Empty
        BY <1>0, <1>2, <1>6, <3>1
      <4>2. offset[q] = 0 /\ Prefix(q, 0) = Empty
        BY <1>0, <3>1, Lengths DEF StoreInv, Offsets
      <4>3. \A r \in Clients \ {q} : pc'[r] \in Updates => file'[r] # n
        BY <1>6, <1>11, <2>1, <3>1 DEF Updating, Updates
      <4> QED BY <4>1, <4>2, <4>3
    <3>2. CASE q # p
      <4>1. /\ pc[q] \in Updates /\ file'[q] = file[q] /\ target[q] \notin mixed
            /\ temp[target[q]] = file[q] /\ content[file[q]] = Prefix(q, offset[q])
            /\ \A r \in Clients \ {q} : pc[r] \in Updates => file[r] # file[q]
            /\ file[q] \in Clients /\ target[file[q]] = target[q]
        BY <1>6, <1>11, <2>1, <3>2 DEF StoreInv, UpdatesAlone, Owned
      <4>2. file[q] # NoFile
        BY <4>1, StoreAssumption DEF Inodes
      <4>3. target[q] # i
        <5>1. ASSUME target[q] = i PROVE FALSE
          <6>1. n = file[q]
            BY <1>5, <4>1, <4>2, <5>1
          <6> QED BY <1>11, <2>1, <4>1, <5>1, <6>1 DEF Updating, Updates
        <5> QED BY <5>1
      <4>4. file[q] # n
        BY <1>2, <4>1, <4>3
      <4>5. target[q] \in Ids /\ file[q] \in Inodes
        BY <1>0 DEF StoreTypeOK
      <4> QED BY <1>6, <4>1, <4>3, <4>4, <4>5
    <3> QED BY <3>1, <3>2
  <2> QED BY <1>1, <2>1 DEF UpdatesAlone, Prefix
<1>13. OnlyCreatesTear'
  <2>1. ASSUME NEW j \in Ids, request[j] # NoFile, j \notin mixed'
        PROVE  \/ Whole(request[j])'
               \/ request[j] \in Clients /\ pc'[request[j]] \in {"create", "abandoned"}
    <3>1. content'[request[j]] = content[request[j]]
      BY <1>0, <1>4, <1>6, <2>1 DEF StoreTypeOK
    <3>2. CASE Whole(request[j])
      BY <1>1, <3>1, <3>2 DEF Whole, Document, Length
    <3>3. CASE request[j] \in Clients /\ pc[request[j]] \in {"create", "abandoned"}
      BY <1>0, <1>6, <3>3
    <3> QED BY <1>11, <2>1, <3>2, <3>3 DEF StoreInv, OnlyCreatesTear
  <2> QED BY <1>1, <2>1 DEF OnlyCreatesTear
<1> QED BY <1>7, <1>8, <1>9, <1>10, <1>12, <1>13 DEF StoreInv

\* The rename moves a whole document, unless updates were mixed.
LEMMA RenameInv ==
    ASSUME StoreInv, NEW p \in Clients, Rename(p) PROVE StoreInv'
<1> DEFINE i == target[p]
<1>0. StoreTypeOK /\ i \in Ids /\ pc[p] = "rename" /\ p \in Inodes
  BY DEF StoreInv, StoreTypeOK, Rename, Inodes
<1>1. CASE temp[i] = NoFile
  <2>1. Answer(p, "error") /\ UNCHANGED <<files, file, target, offset, toList, mixed, makers>>
    BY <1>1 DEF Rename
  <2>2. "error" \in Answers
    BY DEF Answers
  <2>3. Quiet(p, "done")
    BY <1>0, <2>1, <2>2, AnswerTyped DEF Quiet, Opened, Updates
  <2> QED BY <1>0, <2>1, <2>2, <2>3, AnswerTyped, QuietInv DEF StoreTypeOK
<1>2. CASE temp[i] # NoFile
  <2>1. /\ request' = [request EXCEPT ![i] = temp[i]]
        /\ temp' = [temp EXCEPT ![i] = NoFile]
        /\ pc' = [pc EXCEPT ![p] = "reload"]
        /\ makers' \in {makers, [makers EXCEPT ![i] = @ \cup {p}]}
        /\ UNCHANGED <<content, answer, target, file, offset, toList, mixed>>
    BY <1>2 DEF Rename, Goto
  <2>2. /\ \A j \in Ids : /\ request'[j] = IF j = i THEN temp[i] ELSE request[j]
                          /\ temp'[j] = IF j = i THEN NoFile ELSE temp[j]
        /\ \A q \in Clients : pc'[q] = IF q = p THEN "reload" ELSE pc[q]
    BY <1>0, <2>1 DEF StoreTypeOK
  <2>3. StoreTypeOK'
    <3>1. temp[i] \in Inodes
      BY <1>0, <1>2 DEF StoreTypeOK
    <3> QED BY <1>0, <2>1, <3>1 DEF StoreTypeOK
  <2>4. /\ temp[i] \in Clients /\ target[temp[i]] = i /\ pc[temp[i]] \in Opened
        /\ temp[i] \notin Ids
    BY <1>0, <1>2, StoreAssumption DEF StoreInv, Owned
  <2>5. Owned'
    <3>1. \A m \in Clients : /\ pc[m] \in Opened => pc'[m] \in Opened
                             /\ pc[m] \in Creates => pc'[m] \in Creates
      BY <1>0, <2>2 DEF Opened, Updates, Creates
    <3>2. \A j \in Ids : request'[j] \in Ids => request'[j] = j
      BY <2>2, <2>4 DEF StoreInv, Owned
    <3>3. \A j \in Ids : request'[j] \in Clients =>
             target[request'[j]] = j /\ pc'[request'[j]] \in Opened \cup Creates
      BY <2>2, <2>4, <3>1 DEF StoreInv, Owned
    <3>4. \A j \in Ids : temp'[j] # NoFile =>
             /\ temp'[j] \in Clients /\ temp'[j] # request'[j]
             /\ target[temp'[j]] = j /\ pc'[temp'[j]] \in Opened
      BY <2>2, <3>1 DEF StoreInv, Owned
    <3>5. \A q \in Clients : pc'[q] \in Updates =>
             file[q] \in Clients /\ target[file[q]] = target[q] /\ pc'[file[q]] \in Opened
      BY <2>2, <3>1 DEF StoreInv, Owned, Updates
    <3> QED BY <2>1, <3>2, <3>3, <3>4, <3>5 DEF Owned
  <2>6. Offsets'
    BY <2>1, <2>2 DEF StoreInv, Offsets, Length
  <2>7. CreatesAlone'
    BY <2>1, <2>2 DEF StoreInv, CreatesAlone, Prefix
  <2>8. UpdatesAlone'
    <3>1. ASSUME NEW q \in Clients, pc'[q] \in Updates, target[q] \notin mixed
          PROVE  /\ temp'[target[q]] = file[q]
                 /\ content[file[q]] = Prefix(q, offset[q])
                 /\ \A r \in Clients \ {q} : pc'[r] \in Updates => file[r] # file[q]
      <4>1. /\ q # p /\ pc[q] \in Updates
            /\ temp[target[q]] = file[q] /\ content[file[q]] = Prefix(q, offset[q])
            /\ \A r \in Clients \ {q} : pc[r] \in Updates => file[r] # file[q]
        BY <2>2, <3>1 DEF StoreInv, UpdatesAlone, Updates
      <4>2. target[q] # i
        <5>1. ASSUME target[q] = i PROVE FALSE
          <6>1. temp[i] = file[p]
            BY <1>0, <3>1, <5>1 DEF StoreInv, UpdatesAlone, Updates
          <6> QED BY <1>0, <4>1, <5>1, <6>1 DEF Updates
        <5> QED BY <5>1
      <4>3. target[q] \in Ids
        BY <1>0 DEF StoreTypeOK
      <4> QED BY <2>2, <4>1, <4>2, <4>3 DEF Updates
    <3> QED BY <2>1, <3>1 DEF UpdatesAlone, Prefix
  <2>9. OnlyCreatesTear'
    <3>1. ASSUME NEW j \in Ids, request'[j] # NoFile, j \notin mixed
          PROVE  \/ \E w \in Inodes : content[request'[j]] = Document(w)
                 \/ request'[j] \in Clients /\ pc'[request'[j]] \in {"create", "abandoned"}
      <4>1. CASE j = i
        <5>1. temp[i] = file[p] /\ content[file[p]] = Prefix(p, offset[p])
          BY <1>0, <3>1, <4>1 DEF StoreInv, UpdatesAlone, Updates
        <5>2. offset[p] = Length(p)
          BY <1>0 DEF StoreInv, Offsets
        <5> QED BY <1>0, <2>2, <4>1, <5>1, <5>2, Lengths
      <4>2. CASE j # i
        BY <1>0, <2>2, <3>1, <4>2 DEF StoreInv, OnlyCreatesTear, Whole
      <4> QED BY <4>1, <4>2
    <3> QED BY <2>1, <3>1 DEF OnlyCreatesTear, Whole, Document, Length
  <2> QED BY <2>3, <2>5, <2>6, <2>7, <2>8, <2>9 DEF StoreInv
<1> QED BY <1>1, <1>2

LEMMA RemoveInv ==
    ASSUME StoreInv, NEW p \in Clients, Remove(p) PROVE StoreInv'
<1> DEFINE i == target[p]
<1>0. StoreTypeOK /\ i \in Ids /\ pc[p] = "remove"
  BY DEF StoreInv, StoreTypeOK, Remove
<1>1. "error" \in Answers /\ "deleted" \in Answers
  BY DEF Answers
<1>2. CASE request[i] = NoFile
  <2>1. Answer(p, "error")
        /\ UNCHANGED <<request, temp, content, file, target, offset, toList, mixed, makers>>
    BY <1>2 DEF Remove
  <2>2. Quiet(p, "done")
    BY <1>0, <1>1, <2>1, AnswerTyped DEF Quiet, files, Opened, Updates
  <2> QED BY <1>0, <1>1, <2>1, <2>2, AnswerTyped, QuietInv DEF StoreTypeOK
<1>3. CASE request[i] # NoFile
  <2>1. /\ request' = [request EXCEPT ![i] = NoFile]
        /\ Answer(p, "deleted") /\ makers' = [makers EXCEPT ![i] = {}]
        /\ UNCHANGED <<temp, content, target, file, offset, toList, mixed>>
    BY <1>3 DEF Remove
  <2>2. /\ \A j \in Ids : request'[j] = IF j = i THEN NoFile ELSE request[j]
        /\ \A q \in Clients : pc'[q] = IF q = p THEN "done" ELSE pc[q]
    BY <1>0, <1>1, <2>1, AnswerTyped DEF StoreTypeOK
  <2>3. StoreTypeOK'
    <3>1. answer' \in [Clients -> Answers \cup {"none"}] /\ pc' = [pc EXCEPT ![p] = "done"]
      BY <1>0, <1>1, <2>1, AnswerTyped
    <3> QED BY <1>0, <2>1, <3>1 DEF StoreTypeOK
  <2>4. Owned'
    <3>1. NoFile \notin Ids /\ NoFile \notin Clients
      BY StoreAssumption DEF Inodes
    <3> QED BY <1>0, <2>1, <2>2, <3>1 DEF StoreInv, Owned, Opened, Updates, Creates
  <2>5. Offsets' /\ CreatesAlone' /\ UpdatesAlone'
    BY <2>1, <2>2 DEF StoreInv, Offsets, CreatesAlone, UpdatesAlone, Updates, Length, Prefix
  <2>6. OnlyCreatesTear'
    <3>1. ASSUME NEW j \in Ids, request'[j] # NoFile, j \notin mixed
          PROVE  \/ \E w \in Inodes : content[request'[j]] = Document(w)
                 \/ request'[j] \in Clients /\ pc'[request'[j]] \in {"create", "abandoned"}
      BY <1>0, <2>2, <3>1 DEF StoreInv, OnlyCreatesTear, Whole
    <3> QED BY <2>1, <3>1 DEF OnlyCreatesTear, Whole, Document, Length
  <2> QED BY <2>3, <2>4, <2>5, <2>6 DEF StoreInv
<1> QED BY <1>2, <1>3

LEMMA StoreInvariance == StoreSpec => []StoreInv
<1>1. ASSUME StoreInv, StoreNext PROVE StoreInv'
  <2> PICK p \in Clients : StoreStep(p)
    BY <1>1 DEF StoreNext
  <2> QED
    BY <1>1, OpenNewInv, WriteInv, OpenTempInv, RenameInv, RemoveInv, QuietSteps DEF StoreStep
<1>2. StoreInv /\ UNCHANGED storeVars => StoreInv'
  BY DEF storeVars, files, process, StoreInv, StoreTypeOK, Owned, Offsets, CreatesAlone,
         UpdatesAlone, OnlyCreatesTear, Whole, Document, Length, Prefix
<1> QED BY <1>1, <1>2, StoreInitInv, PTL DEF StoreSpec

\* The store keeps its types.
THEOREM StoreTyped == StoreSpec => []StoreTypeOK
BY StoreInvariance, PTL DEF StoreInv

\* A stored request is a whole document but for a create that has not ended and
\* updates that overlap: "a crash mid-write leaves the previous content intact"
\* (atomic_write, crates/storage/src/lib.rs), however often and wherever processes die.
THEOREM RequestsAreWhole == StoreSpec => []OnlyCreatesTear
BY StoreInvariance, PTL DEF StoreInv

-------------------------------------------------------------------------------
\* A request that is not there was made by nobody since its delete; of one that is,
\* there is one maker at most.
CreationInv == CreatedOnce /\ \A i \in Ids : request[i] = NoFile => makers[i] = {}

\* A step that makes and deletes nothing keeps it.
LEMMA CreationKept ==
    ASSUME CreationInv, UNCHANGED makers,
           \A i \in Ids : request[i] # NoFile => request'[i] # NoFile
    PROVE  CreationInv'
BY DEF CreationInv, CreatedOnce

\* Nor does one that makes a request where there was none.
LEMMA CreationMakes ==
    ASSUME StoreTypeOK, CreationInv, NEW i \in Ids, NEW p \in Clients, NEW n, n # NoFile,
           request[i] = NoFile,
           request' = [request EXCEPT ![i] = n],
           makers' = [makers EXCEPT ![i] = @ \cup {p}]
    PROVE  CreationInv'
<1>1. makers[i] = {} /\ makers'[i] = {p} /\ request'[i] = n
  BY DEF CreationInv, StoreTypeOK
<1>2. \A j \in Ids \ {i} : makers'[j] = makers[j] /\ request'[j] = request[j]
  BY DEF StoreTypeOK
<1> QED BY <1>1, <1>2 DEF CreationInv, CreatedOnce

LEMMA CreationStep ==
    ASSUME StoreInv, CreationInv, NEW p \in Clients, StoreStep(p)
    PROVE  CreationInv'
<1>0. StoreTypeOK /\ target[p] \in Ids
  BY DEF StoreInv, StoreTypeOK
<1>1. ASSUME UNCHANGED <<request, makers>> PROVE CreationInv'
  BY <1>1 DEF CreationInv, CreatedOnce
<1>2. CASE OpenNew(p)
  <2>1. CASE Taken(target[p])
    BY <1>1, <1>2, <2>1 DEF OpenNew, files
  <2>2. CASE ~Taken(target[p])
    <3>1. /\ request[target[p]] = NoFile
          /\ request' = [request EXCEPT ![target[p]] = p]
          /\ makers' = [makers EXCEPT ![target[p]] = @ \cup {p}]
      BY <1>2, <2>2 DEF OpenNew, Taken
    <3>2. p # NoFile
      BY StoreAssumption DEF Inodes
    <3> QED BY <1>0, <3>1, <3>2, CreationMakes
  <2> QED BY <2>1, <2>2
<1>3. CASE Rename(p)
  <2> DEFINE i == target[p]
  <2>1. CASE temp[i] = NoFile
    BY <1>1, <1>3, <2>1 DEF Rename, files
  <2>2. CASE temp[i] # NoFile /\ request[i] = NoFile
    BY <1>0, <1>3, <2>2, CreationMakes DEF Rename
  <2>3. CASE temp[i] # NoFile /\ request[i] # NoFile
    <3>1. UNCHANGED makers /\ request' = [request EXCEPT ![i] = temp[i]]
      BY <1>3, <2>3 DEF Rename
    <3>2. \A j \in Ids : request[j] # NoFile => request'[j] # NoFile
      BY <1>0, <2>3, <3>1 DEF StoreTypeOK
    <3> QED BY <3>1, <3>2, CreationKept
  <2> QED BY <2>1, <2>2, <2>3
<1>4. CASE Remove(p)
  <2> DEFINE i == target[p]
  <2>1. CASE request[i] = NoFile
    BY <1>1, <1>4, <2>1 DEF Remove
  <2>2. CASE request[i] # NoFile
    <3>1. /\ request' = [request EXCEPT ![i] = NoFile]
          /\ makers' = [makers EXCEPT ![i] = {}]
      BY <1>4, <2>2 DEF Remove
    <3>2. /\ \A j \in Ids \ {i} : makers'[j] = makers[j] /\ request'[j] = request[j]
          /\ makers'[i] = {}
      BY <1>0, <3>1 DEF StoreTypeOK
    <3> QED BY <3>2 DEF CreationInv, CreatedOnce
  <2> QED BY <2>1, <2>2
<1>5. CASE \/ Write(p) \/ OpenTemp(p) \/ CheckUpdate(p) \/ Reload(p) \/ CheckDelete(p)
           \/ ReadDir(p) \/ ReadListed(p) \/ Dies(p)
  <2>1. UNCHANGED <<request, makers>>
    BY <1>5 DEF Write, OpenTemp, CheckUpdate, Reload, CheckDelete, ReadDir, ReadListed, Dies,
       files
  <2> QED BY <1>1, <2>1
<1> QED BY <1>2, <1>3, <1>4, <1>5 DEF StoreStep

\* Between two deletes of an id one process alone brings its request into being: two
\* creates do not both succeed (create_new in create_request), nor does a create after
\* an update has brought a deleted request back.
THEOREM IdsAreCreatedOnce == StoreSpec => []CreatedOnce
<1>1. StoreInit => CreationInv
  BY DEF StoreInit, CreationInv, CreatedOnce
<1>2. ASSUME StoreInv, CreationInv, [StoreNext]_storeVars PROVE CreationInv'
  <2>1. CASE UNCHANGED storeVars
    BY <1>2, <2>1 DEF storeVars, files, CreationInv, CreatedOnce
  <2>2. CASE StoreNext
    BY <1>2, <2>2, CreationStep DEF StoreNext
  <2> QED BY <1>2, <2>1, <2>2
<1>3. CreationInv => CreatedOnce
  BY DEF CreationInv
<1> QED BY <1>1, <1>2, <1>3, StoreInvariance, PTL DEF StoreSpec

-------------------------------------------------------------------------------
(* HttpRun.                                                                  *)


\* A run only reads stored requests: with runs at work the store still behaves as
\* RequestStore says.
LEMMA HttpKeepsStore == HttpSpec => StoreSpec
<1>1. HttpInit => StoreInit
  BY DEF HttpInit
<1>2. [HttpNext]_httpVars => [StoreNext]_storeVars
  BY DEF HttpNext, httpVars, StoreNext
<1> QED BY <1>1, <1>2, PTL DEF HttpSpec, StoreSpec

\* With runs at work, too, a stored request is torn by an unfinished create or by
\* overlapping updates only (atomic_write, crates/storage/src/lib.rs).
THEOREM RequestsStayWhole == HttpSpec => []OnlyCreatesTear
BY HttpKeepsStore, RequestsAreWhole, PTL

\* With runs at work, too, an id is created once (create_new in create_request).
THEOREM IdsStayCreatedOnce == HttpSpec => []CreatedOnce
BY HttpKeepsStore, IdsAreCreatedOnce, PTL

-------------------------------------------------------------------------------
(* What one run has come to.                                                 *)

\* The terminal record of a run, from its outcome and its assertions.
FinalRecord(r) ==
    IF outcome[r] \in {"failed", "cancelled"} THEN outcome[r]
    ELSE IF Success(r) THEN "idle" ELSE "unhealthy"

Ended == {"exited", "killed"}

\* The outcome and the assertions, by how far the run is.
Answered(r) ==
    /\ signalled[r] => step[r] \in {"send", "final", "report"} \cup Ended
    /\ outcome[r] \notin {"ok", "refused"} => ~unmet[r]
    /\ outcome[r] = "cancelled" => signalled[r]
    /\ step[r] \in {"load", "active", "send"} => outcome[r] = "none"
    /\ step[r] = "final" => outcome[r] # "none"
    /\ step[r] = "report" => outcome[r] \in {"ok", "refused"}

\* The record is terminal from the end of "final" on, and says what FinalRecord does.
Recorded(r) ==
    /\ step[r] = "load" => runner[r] = "none"
    /\ step[r] = "report" => runner[r] \in Terminal
    /\ runner[r] \in Terminal =>
          /\ runner[r] = FinalRecord(r) /\ outcome[r] # "none"
          /\ step[r] \in {"report"} \cup Ended

\* The exit code: 0 and 1 are of runs with a terminal record, and an undisturbed run
\* has one, or has none at all.
ExitKnown(r) ==
    /\ step[r] # "exited" => exit[r] = "none"
    /\ step[r] = "exited" =>
          \/ /\ exit[r] = (IF unmet[r] THEN "1" ELSE "0")
             /\ ~signalled[r] /\ outcome[r] \notin {"failed", "cancelled"}
             /\ runner[r] \in Terminal
          \/ exit[r] = "error" /\ ~signalled[r]
          \/ exit[r] = "signal" /\ signalled[r]
    /\ step[r] = "exited" /\ r \notin disturbed =>
          runner[r] \in Terminal \/ (runner[r] = "none" /\ exit[r] = "error")

\* The report is written one file after the other.
Reporting(r) ==
    /\ step[r] \notin {"report"} \cup Ended => artifact[r] = 0
    /\ artifact[r] > 0 => DirOf[r] \in Dirs /\ reportId[r] \in Stamps
    /\ step[r] = "report" =>
          /\ DirOf[r] \in Dirs /\ reportId[r] \in Stamps
          /\ open[r] => artifact[r] > 0
          /\ artifact[r] = 5 => open[r]

RunTypes ==
    /\ step \in [Runs -> {"load", "active", "send", "final", "report", "exited", "killed"}]
    /\ open \in [Runs -> BOOLEAN]
    /\ signalled \in [Runs -> BOOLEAN]
    /\ outcome \in [Runs -> {"none", "dry", "ok", "refused", "failed", "cancelled"}]
    /\ unmet \in [Runs -> BOOLEAN]
    /\ runner \in [Runs -> {"none", "torn", "active"} \cup Terminal]
    /\ reportId \in [Runs -> Stamps \cup {"none"}]
    /\ artifact \in [Runs -> 0..5]
    /\ disk \in [Places -> Runs \cup {Absent, Torn}]
    /\ exit \in [Runs -> {"none", "0", "1", "error", "signal"}]
    /\ disturbed \in SUBSET Runs

OneRun(r) == Answered(r) /\ Recorded(r) /\ ExitKnown(r) /\ Reporting(r)

RunInv == RunTypes /\ \A r \in Runs : OneRun(r)

\* A run changes nothing of another, but files of reports.
Others(r) ==
    \A q \in Runs \ {r} :
       /\ step'[q] = step[q] /\ open'[q] = open[q] /\ signalled'[q] = signalled[q]
       /\ outcome'[q] = outcome[q] /\ unmet'[q] = unmet[q] /\ runner'[q] = runner[q]
       /\ reportId'[q] = reportId[q] /\ artifact'[q] = artifact[q] /\ exit'[q] = exit[q]
       /\ q \in disturbed' <=> q \in disturbed

LEMMA OthersKept ==
    ASSUME RunInv, NEW r \in Runs, Others(r), RunTypes', OneRun(r)'
    PROVE  RunInv'
<1>1. ASSUME NEW q \in Runs \ {r} PROVE OneRun(q)'
  <2>1. OneRun(q)
    BY <1>1 DEF RunInv
  <2>2. Answered(q)' /\ Recorded(q)'
    BY <1>1, <2>1 DEF OneRun, Others, Answered, Recorded, FinalRecord, Success
  <2>3. ExitKnown(q)' /\ Reporting(q)'
    BY <1>1, <2>1 DEF OneRun, Others, ExitKnown, Reporting
  <2> QED BY <2>2, <2>3 DEF OneRun
<1> QED BY <1>1 DEF RunInv

\* How a run ends.
LEMMA ExitsEffect ==
    ASSUME RunTypes, NEW r \in Runs, NEW code \in {"0", "1", "error"}, Exits(r, code)
    PROVE  /\ step' \in [Runs -> {"load", "active", "send", "final", "report", "exited",
                                  "killed"}]
           /\ exit' \in [Runs -> {"none", "0", "1", "error", "signal"}]
           /\ step'[r] = "exited" /\ exit'[r] = IF signalled[r] THEN "signal" ELSE code
           /\ \A q \in Runs \ {r} : step'[q] = step[q] /\ exit'[q] = exit[q]
BY DEF RunTypes, Exits

-------------------------------------------------------------------------------
LEMMA LoadInv == ASSUME RunInv, NEW r \in Runs, Load(r) PROVE RunInv'
<1>0. RunTypes /\ OneRun(r) /\ step[r] = "load"
      /\ UNCHANGED <<open, signalled, unmet, runner, reportId, artifact, disk, disturbed>>
  BY DEF RunInv, Load
<1>1. /\ runner[r] = "none" /\ ~signalled[r] /\ ~unmet[r] /\ artifact[r] = 0
      /\ outcome[r] = "none" /\ exit[r] = "none"
  BY <1>0 DEF OneRun, Answered, Recorded, ExitKnown, Reporting, Ended, RunTypes
<1>2. CASE Exits(r, "error") /\ UNCHANGED outcome
  <2>1. RunTypes' /\ Others(r)
    BY <1>0, <1>2, ExitsEffect DEF RunTypes, Others
  <2>2. OneRun(r)'
    BY <1>0, <1>1, <1>2, ExitsEffect
    DEF OneRun, Answered, Recorded, ExitKnown, Reporting, Ended, Terminal
  <2> QED BY <2>1, <2>2, OthersKept
<1>3. CASE step' = [step EXCEPT ![r] = "active"] /\ UNCHANGED <<outcome, exit>>
  <2>1. RunTypes' /\ Others(r) /\ step'[r] = "active"
    BY <1>0, <1>3 DEF RunTypes, Others
  <2>2. OneRun(r)'
    BY <1>0, <1>1, <1>3, <2>1
    DEF OneRun, Answered, Recorded, ExitKnown, Reporting, Ended, Terminal
  <2> QED BY <2>1, <2>2, OthersKept
<1>4. CASE /\ step' = [step EXCEPT ![r] = "final"]
           /\ outcome' = [outcome EXCEPT ![r] = "dry"] /\ UNCHANGED exit
  <2>1. RunTypes' /\ Others(r) /\ step'[r] = "final" /\ outcome'[r] = "dry"
    BY <1>0, <1>4 DEF RunTypes, Others
  <2>2. OneRun(r)'
    BY <1>0, <1>1, <1>4, <2>1
    DEF OneRun, Answered, Recorded, ExitKnown, Reporting, Ended, Terminal
  <2> QED BY <2>1, <2>2, OthersKept
<1> QED BY <1>2, <1>3, <1>4 DEF Load

\* The ways out of the send.
LEMMA SendInv ==
    ASSUME RunInv, NEW r \in Runs,
           Respond(r) \/ SendFails(r) \/ CancelSend(r)
    PROVE  RunInv'
<1>0. RunTypes /\ OneRun(r) /\ step[r] = "send"
  BY DEF RunInv, Respond, SendFails, CancelSend
<1>1. UNCHANGED <<open, signalled, runner, reportId, artifact, disk, exit, disturbed>>
      /\ step' = [step EXCEPT ![r] = "final"]
  BY DEF Respond, SendFails, CancelSend
<1>2. PICK o \in {"ok", "refused", "failed", "cancelled"} :
         /\ outcome' = [outcome EXCEPT ![r] = o]
         /\ o = "cancelled" => signalled[r]
         /\ \/ o \in {"ok", "refused"} /\ \E a \in BOOLEAN : unmet' = [unmet EXCEPT ![r] = a]
            \/ UNCHANGED unmet
  BY DEF Respond, SendFails, CancelSend
<1>3. RunTypes' /\ Others(r)
  BY <1>0, <1>1, <1>2 DEF RunTypes, Others
<1>4. /\ step'[r] = "final" /\ outcome'[r] = o
      /\ unmet'[r] => o \in {"ok", "refused"} \/ unmet[r]
      /\ ~unmet[r] /\ artifact[r] = 0 /\ exit[r] = "none" /\ runner[r] \notin Terminal
  BY <1>0, <1>1, <1>2
  DEF RunTypes, OneRun, Answered, Reporting, Recorded, ExitKnown, Ended
<1>5. OneRun(r)'
  BY <1>0, <1>1, <1>2, <1>3, <1>4
  DEF OneRun, Answered, Recorded, ExitKnown, Reporting, Ended, RunTypes
<1> QED BY <1>3, <1>5, OthersKept

LEMMA SignalInv == ASSUME RunInv, NEW r \in Runs, Signal(r) PROVE RunInv'
<1>0. RunTypes /\ OneRun(r) /\ step[r] = "send"
      /\ UNCHANGED <<step, open, outcome, unmet, runner, reportId, artifact, disk, exit,
                     disturbed>>
  BY DEF RunInv, Signal
<1>1. RunTypes' /\ Others(r)
  BY <1>0 DEF RunTypes, Others, Signal
<1>2. OneRun(r)'
  BY <1>0 DEF OneRun, Answered, Recorded, FinalRecord, Success, ExitKnown, Reporting
<1> QED BY <1>1, <1>2, OthersKept

\* The process ends where it is, and the run counts as disturbed.
LEMMA DisturbedInv ==
    ASSUME RunInv, NEW r \in Runs, SignalLost(r) \/ WriteFails(r) PROVE RunInv'
<1>0. /\ RunTypes /\ OneRun(r) /\ Exits(r, "error") /\ disturbed' = disturbed \cup {r}
      /\ UNCHANGED <<open, signalled, outcome, unmet, runner, reportId, artifact, disk>>
      /\ step[r] \notin Ended
  BY DEF RunInv, SignalLost, WriteFails, Ended
<1>1. RunTypes' /\ Others(r)
  BY <1>0, ExitsEffect DEF RunTypes, Others
<1>2. step'[r] = "exited" /\ exit'[r] = IF signalled[r] THEN "signal" ELSE "error"
  BY <1>0, ExitsEffect
<1>3. OneRun(r)'
  BY <1>0, <1>2
  DEF OneRun, Answered, Recorded, FinalRecord, Success, ExitKnown, Reporting, Ended
<1> QED BY <1>1, <1>3, OthersKept

LEMMA KilledInv == ASSUME RunInv, NEW r \in Runs, Killed(r) PROVE RunInv'
<1>0. /\ RunTypes /\ OneRun(r) /\ step' = [step EXCEPT ![r] = "killed"]
      /\ step[r] \notin Ended
      /\ UNCHANGED <<open, signalled, outcome, unmet, runner, reportId, artifact, disk, exit,
                     disturbed>>
  BY DEF RunInv, Killed, Ended
<1>1. RunTypes' /\ Others(r) /\ step'[r] = "killed"
  BY <1>0 DEF RunTypes, Others
<1>2. OneRun(r)'
  BY <1>0, <1>1
  DEF OneRun, Answered, Recorded, FinalRecord, Success, ExitKnown, Reporting, Ended
<1> QED BY <1>1, <1>2, OthersKept

LEMMA TruncateRecordInv == ASSUME RunInv, NEW r \in Runs, TruncateRecord(r) PROVE RunInv'
<1>0. /\ RunTypes /\ OneRun(r) /\ step[r] \in {"active", "final"}
      /\ open' = [open EXCEPT ![r] = TRUE] /\ runner' = [runner EXCEPT ![r] = "torn"]
      /\ UNCHANGED <<step, signalled, outcome, unmet, reportId, artifact, disk, exit,
                     disturbed>>
  BY DEF RunInv, TruncateRecord
<1>1. RunTypes' /\ Others(r) /\ runner'[r] = "torn"
  BY <1>0 DEF RunTypes, Others
<1>2. OneRun(r)'
  BY <1>0, <1>1 DEF OneRun, Answered, Recorded, ExitKnown, Reporting, Ended, Terminal
<1> QED BY <1>1, <1>2, OthersKept

\* The record is there; after the final one the run ends or goes on to its report.
LEMMA FillRecordInv == ASSUME RunInv, NEW r \in Runs, FillRecord(r) PROVE RunInv'
<1>0. /\ RunTypes /\ OneRun(r) /\ step[r] \in {"active", "final"}
      /\ open' = [open EXCEPT ![r] = FALSE] /\ runner' = [runner EXCEPT ![r] = Record(r)]
      /\ UNCHANGED <<signalled, outcome, unmet, artifact, disk, disturbed>>
  BY DEF RunInv, FillRecord
<1>1. artifact[r] = 0 /\ exit[r] = "none"
  BY <1>0 DEF OneRun, Reporting, ExitKnown, Ended
<1>2. CASE step[r] = "active"
  <2>1. step' = [step EXCEPT ![r] = "send"] /\ UNCHANGED <<reportId, exit>>
        /\ Record(r) = "active"
    BY <1>2 DEF FillRecord, Record
  <2>2. RunTypes' /\ Others(r) /\ step'[r] = "send" /\ runner'[r] = "active"
    BY <1>0, <2>1 DEF RunTypes, Others
  <2>3. OneRun(r)'
    BY <1>0, <1>1, <1>2, <2>1, <2>2
    DEF OneRun, Answered, Recorded, ExitKnown, Reporting, Ended, Terminal
  <2> QED BY <2>2, <2>3, OthersKept
<1>3. CASE step[r] = "final"
  <2>1. AfterFinal(r) /\ Record(r) = FinalRecord(r) /\ FinalRecord(r) \in Terminal
    BY <1>0, <1>3 DEF FillRecord, Record, FinalRecord, Terminal
  <2>2. /\ runner'[r] = FinalRecord(r) /\ open'[r] = FALSE
        /\ \A q \in Runs \ {r} : runner'[q] = runner[q] /\ open'[q] = open[q]
        /\ runner' \in [Runs -> {"none", "torn", "active"} \cup Terminal]
        /\ open' \in [Runs -> BOOLEAN]
    BY <1>0, <2>1 DEF RunTypes
  <2>2a. /\ signalled' \in [Runs -> BOOLEAN] /\ unmet' \in [Runs -> BOOLEAN]
         /\ outcome' \in [Runs -> {"none", "dry", "ok", "refused", "failed", "cancelled"}]
         /\ reportId \in [Runs -> Stamps \cup {"none"}]
         /\ artifact' \in [Runs -> 0..5]
         /\ disk' \in [Places -> Runs \cup {Absent, Torn}]
         /\ exit \in [Runs -> {"none", "0", "1", "error", "signal"}]
         /\ disturbed' \in SUBSET Runs
    BY <1>0 DEF RunTypes
  <2>3. FinalRecord(r)' = FinalRecord(r)
    BY <1>0 DEF FinalRecord, Success
  <2>4. outcome[r] # "none" /\ (outcome[r] \in {"failed", "cancelled"} => ~unmet[r])
        /\ (outcome[r] = "cancelled" => signalled[r])
        /\ (outcome[r] \notin {"ok", "refused"} => ~unmet[r])
    BY <1>0, <1>3 DEF OneRun, Answered
  <2>5. ASSUME NEW code \in {"0", "1", "error"}, Exits(r, code), UNCHANGED reportId,
               code # "error" =>
                  /\ code = (IF unmet[r] THEN "1" ELSE "0")
                  /\ outcome[r] \notin {"failed", "cancelled"}
        PROVE  RunInv'
    <3>0. RunTypes'
      <4>1. /\ step' \in [Runs -> {"load", "active", "send", "final", "report", "exited",
                                   "killed"}]
            /\ exit' \in [Runs -> {"none", "0", "1", "error", "signal"}]
        BY <1>0, <2>5, ExitsEffect
      <4> QED BY <2>2, <2>2a, <2>5, <4>1 DEF RunTypes
    <3>1. Others(r)
      BY <1>0, <2>2, <2>5, ExitsEffect DEF Others
    <3>2. step'[r] = "exited" /\ exit'[r] = IF signalled[r] THEN "signal" ELSE code
      BY <1>0, <2>5, ExitsEffect
    <3>3. Answered(r)' /\ Recorded(r)' /\ Reporting(r)'
      BY <1>0, <1>1, <2>1, <2>2, <2>3, <2>4, <3>2 DEF Answered, Recorded, Reporting, Ended
    <3>4. ExitKnown(r)'
      BY <1>0, <2>1, <2>2, <2>5, <3>2 DEF ExitKnown
    <3> QED BY <3>0, <3>1, <3>3, <3>4, OthersKept DEF OneRun
  <2>6. CASE outcome[r] \in {"failed", "cancelled"}
    BY <2>1, <2>5, <2>6 DEF AfterFinal
  <2>7. CASE /\ outcome[r] \notin {"failed", "cancelled"}
             /\ outcome[r] = "dry" \/ DirOf[r] = NoDir
    BY <2>1, <2>5, <2>7 DEF AfterFinal
  <2>8. CASE /\ outcome[r] \notin {"failed", "cancelled"}
             /\ ~(outcome[r] = "dry" \/ DirOf[r] = NoDir)
    <3>1. PICK s \in Stamps : reportId' = [reportId EXCEPT ![r] = s]
      BY <2>1, <2>8 DEF AfterFinal
    <3>2. step' = [step EXCEPT ![r] = "report"] /\ UNCHANGED exit
      BY <2>1, <2>8 DEF AfterFinal
    <3>3. /\ step'[r] = "report" /\ reportId'[r] = s
          /\ step' \in [Runs -> {"load", "active", "send", "final", "report", "exited",
                                 "killed"}]
          /\ reportId' \in [Runs -> Stamps \cup {"none"}]
          /\ \A q \in Runs \ {r} : step'[q] = step[q] /\ reportId'[q] = reportId[q]
      BY <1>0, <3>1, <3>2 DEF RunTypes
    <3>3a. RunTypes'
      BY <2>2, <2>2a, <3>2, <3>3 DEF RunTypes
    <3>3b. Others(r)
      BY <1>0, <2>2, <3>2, <3>3 DEF Others
    <3>4. DirOf[r] \in Dirs
      BY <2>8, RunAssumption
    <3>5. outcome[r] \in {"ok", "refused"}
      BY <1>0, <2>4, <2>8 DEF RunTypes
    <3>6. Answered(r)' /\ Recorded(r)'
      BY <1>0, <2>1, <2>2, <2>3, <2>4, <3>3, <3>5 DEF Answered, Recorded, Ended
    <3>7. ExitKnown(r)' /\ Reporting(r)'
      BY <1>0, <1>1, <2>2, <3>2, <3>3, <3>4 DEF ExitKnown, Reporting, Ended
    <3> QED BY <3>3a, <3>3b, <3>6, <3>7, OthersKept DEF OneRun
  <2> QED BY <2>6, <2>7, <2>8
<1> QED BY <1>0, <1>2, <1>3

\* The places of the files of a report are all different, and all on the disk.
LEMMA Places5 ==
    ASSUME NEW r \in Runs, DirOf[r] \in Dirs, reportId[r] \in Stamps
    PROVE  /\ Place(r, 1) = <<DirOf[r], "summary">>
           /\ Place(r, 2) = <<DirOf[r], "details">>
           /\ Place(r, 3) = <<DirOf[r], "index">>
           /\ Place(r, 4) = <<reportId[r], "json">>
           /\ Place(r, 5) = <<reportId[r], "path">>
           /\ \A k \in 1..5 : Place(r, k) \in Places
<1>1. /\ Place(r, 1) = <<DirOf[r], "summary">> /\ Place(r, 2) = <<DirOf[r], "details">>
      /\ Place(r, 3) = <<DirOf[r], "index">> /\ Place(r, 4) = <<reportId[r], "json">>
      /\ Place(r, 5) = <<reportId[r], "path">>
  BY DEF Place
<1>2. \A k \in 1..5 : k = 1 \/ k = 2 \/ k = 3 \/ k = 4 \/ k = 5
  OBVIOUS
<1>3. /\ Place(r, 1) \in Places /\ Place(r, 2) \in Places /\ Place(r, 3) \in Places
      /\ Place(r, 4) \in Places /\ Place(r, 5) \in Places
  BY <1>1 DEF Places, Parts
<1> QED BY <1>1, <1>2, <1>3

LEMMA TruncateArtifactInv ==
    ASSUME RunInv, NEW r \in Runs, TruncateArtifact(r) PROVE RunInv'
<1>0. /\ RunTypes /\ OneRun(r) /\ step[r] = "report" /\ ~open[r]
      /\ open' = [open EXCEPT ![r] = TRUE] /\ artifact' = [artifact EXCEPT ![r] = @ + 1]
      /\ disk' = [disk EXCEPT ![Place(r, artifact[r] + 1)] = Torn]
      /\ UNCHANGED <<step, signalled, outcome, unmet, runner, reportId, exit, disturbed>>
  BY DEF RunInv, TruncateArtifact
<1>1. artifact[r] \in 0..4
  BY <1>0 DEF RunTypes, OneRun, Reporting
<1>2. disk' \in [Places -> Runs \cup {Absent, Torn}]
  BY <1>0 DEF RunTypes
<1>3. open'[r] = TRUE /\ artifact'[r] = artifact[r] + 1
      /\ open' \in [Runs -> BOOLEAN] /\ artifact' \in [Runs -> 0..5]
      /\ \A q \in Runs \ {r} : open'[q] = open[q] /\ artifact'[q] = artifact[q]
  BY <1>0, <1>1 DEF RunTypes
<1>4. RunTypes' /\ Others(r)
  BY <1>0, <1>2, <1>3 DEF RunTypes, Others
<1>5. Answered(r)' /\ Recorded(r)' /\ ExitKnown(r)'
  BY <1>0 DEF OneRun, Answered, Recorded, FinalRecord, Success, ExitKnown
<1>6. Reporting(r)'
  BY <1>0, <1>1, <1>3 DEF OneRun, Reporting
<1> QED BY <1>4, <1>5, <1>6, OthersKept DEF OneRun

LEMMA FillArtifactInv ==
    ASSUME RunInv, NEW r \in Runs, FillArtifact(r) PROVE RunInv'
<1>0. /\ RunTypes /\ OneRun(r) /\ step[r] = "report" /\ open[r]
      /\ open' = [open EXCEPT ![r] = FALSE]
      /\ UNCHANGED <<signalled, outcome, unmet, runner, reportId, artifact, disturbed>>
      /\ \E c \in {r, Torn} : disk' = [disk EXCEPT ![Place(r, artifact[r])] = c]
  BY DEF RunInv, FillArtifact
<1>1. disk' \in [Places -> Runs \cup {Absent, Torn}]
  <2>1. disk \in [Places -> Runs \cup {Absent, Torn}]
    BY <1>0 DEF RunTypes
  <2>2. PICK c \in {r, Torn} : disk' = [disk EXCEPT ![Place(r, artifact[r])] = c]
    BY <1>0
  <2> QED BY <2>1, <2>2
<1>2. open'[r] = FALSE /\ open' \in [Runs -> BOOLEAN]
      /\ \A q \in Runs \ {r} : open'[q] = open[q]
  BY <1>0 DEF RunTypes
<1>3. /\ outcome[r] \in {"ok", "refused"} /\ runner[r] \in Terminal
      /\ runner[r] = FinalRecord(r) /\ exit[r] = "none"
  BY <1>0 DEF OneRun, Answered, Recorded, ExitKnown
<1>4. CASE artifact[r] = 5
  <2>1. Exits(r, IF unmet[r] THEN "1" ELSE "0")
    BY <1>4 DEF FillArtifact
  <2>2. /\ step'[r] = "exited"
        /\ exit'[r] = IF signalled[r] THEN "signal" ELSE (IF unmet[r] THEN "1" ELSE "0")
        /\ \A q \in Runs \ {r} : step'[q] = step[q] /\ exit'[q] = exit[q]
        /\ step' \in [Runs -> {"load", "active", "send", "final", "report", "exited",
                               "killed"}]
        /\ exit' \in [Runs -> {"none", "0", "1", "error", "signal"}]
    <3> DEFINE code == IF unmet[r] THEN "1" ELSE "0"
    <3>1. code \in {"0", "1", "error"} /\ Exits(r, code)
      BY <2>1
    <3> HIDE DEF code
    <3>2. /\ step'[r] = "exited" /\ exit'[r] = IF signalled[r] THEN "signal" ELSE code
          /\ \A q \in Runs \ {r} : step'[q] = step[q] /\ exit'[q] = exit[q]
          /\ step' \in [Runs -> {"load", "active", "send", "final", "report", "exited",
                                 "killed"}]
          /\ exit' \in [Runs -> {"none", "0", "1", "error", "signal"}]
      BY <1>0, <3>1, ExitsEffect
    <3> QED BY <3>2 DEF code
  <2>3. RunTypes' /\ Others(r)
    BY <1>0, <1>1, <1>2, <2>2 DEF RunTypes, Others
  <2>4. Answered(r)' /\ Recorded(r)' /\ Reporting(r)'
    BY <1>0, <1>3, <2>2
    DEF OneRun, Answered, Recorded, FinalRecord, Success, Reporting, Ended
  <2>5. ExitKnown(r)'
    BY <1>0, <1>3, <2>2 DEF ExitKnown
  <2> QED BY <2>3, <2>4, <2>5, OthersKept DEF OneRun
<1>5. CASE artifact[r] # 5
  <2>1. UNCHANGED <<step, exit>>
    BY <1>5 DEF FillArtifact
  <2>2. RunTypes' /\ Others(r)
    BY <1>0, <1>1, <1>2, <2>1 DEF RunTypes, Others
  <2>3. Answered(r)' /\ Recorded(r)' /\ ExitKnown(r)'
    BY <1>0, <2>1 DEF OneRun, Answered, Recorded, FinalRecord, Success, ExitKnown
  <2>4. Reporting(r)'
    BY <1>0, <1>2, <1>5, <2>1 DEF OneRun, Reporting
  <2> QED BY <2>2, <2>3, <2>4, OthersKept DEF OneRun
<1> QED BY <1>4, <1>5

\* Every step keeps RunInv.
LEMMA RunStepInv == ASSUME RunInv, [HttpNext]_httpVars PROVE RunInv'
<1>1. CASE UNCHANGED runVars
  <2>1. RunTypes'
    BY <1>1 DEF runVars, RunInv, RunTypes
  <2>2. \A r \in Runs : OneRun(r)'
    BY <1>1 DEF runVars, RunInv, OneRun, Answered, Recorded, FinalRecord, Success, ExitKnown,
                Reporting
  <2> QED BY <2>1, <2>2 DEF RunInv
<1>2. ASSUME NEW r \in Runs, RunStep(r) PROVE RunInv'
  BY <1>2, LoadInv, SendInv, SignalInv, DisturbedInv, KilledInv, TruncateRecordInv,
     FillRecordInv, TruncateArtifactInv, FillArtifactInv DEF RunStep
<1> QED BY <1>1, <1>2 DEF HttpNext, httpVars

LEMMA RunInvAlways == HttpSpec => []RunInv
<1>1. HttpInit => RunInv
  <2> SUFFICES ASSUME HttpInit PROVE RunInv
    OBVIOUS
  <2>1. RunTypes
    BY DEF HttpInit, RunTypes
  <2>2. \A r \in Runs : OneRun(r)
    BY DEF HttpInit, OneRun, Answered, Recorded, ExitKnown, Reporting, Terminal, Ended
  <2> QED BY <2>1, <2>2 DEF RunInv
<1> QED BY <1>1, RunStepInv, PTL DEF HttpSpec

\* The variables of a run, and of the store beside it, keep their types.
THEOREM RunTyped == HttpSpec => []RunTypeOK
<1>1. HttpInit => team \in Teams
  BY DEF HttpInit
<1>2. team \in Teams /\ [HttpNext]_httpVars => (team \in Teams)'
  BY DEF HttpNext, httpVars, runVars
<1>3. StoreTypeOK /\ RunInv /\ team \in Teams => RunTypeOK
  BY DEF RunInv, RunTypes, RunTypeOK
<1> QED BY <1>1, <1>2, <1>3, HttpKeepsStore, StoreTyped, RunInvAlways, PTL DEF HttpSpec

\* A run that has exited leaves a terminal record, or none at all with an error, but
\* for failed writes and a lost signal handler (run_command, finalize_failed).
THEOREM RecordsAreTerminal == HttpSpec => []RunnerTerminal
<1>1. RunInv => RunnerTerminal
  BY DEF RunInv, OneRun, ExitKnown, RunnerTerminal
<1> QED BY <1>1, RunInvAlways, PTL

\* Exit code, record and assertions of a run agree (run_command, main).
THEOREM RunVerdictsAgree == HttpSpec => []VerdictsAgree
<1>1. ASSUME RunInv, NEW r \in Runs
      PROVE  /\ exit[r] = "1" => runner[r] = "unhealthy"
             /\ exit[r] = "0" => runner[r] = "idle"
                                 \/ (runner[r] = "unhealthy" /\ outcome[r] = "refused")
             /\ runner[r] = "cancelled" /\ step[r] = "exited" => exit[r] = "signal"
  <2>1. OneRun(r) /\ RunTypes
    BY <1>1 DEF RunInv
  <2>2. exit[r] \in {"0", "1"} =>
           /\ exit[r] = (IF unmet[r] THEN "1" ELSE "0")
           /\ outcome[r] \notin {"failed", "cancelled"}
           /\ runner[r] = IF Success(r) THEN "idle" ELSE "unhealthy"
    BY <2>1 DEF OneRun, ExitKnown, Recorded, FinalRecord
  <2>3. exit[r] = "1" => runner[r] = "unhealthy"
    BY <2>1, <2>2 DEF OneRun, Answered, Success
  <2>4. exit[r] = "0" => runner[r] = "idle"
                         \/ (runner[r] = "unhealthy" /\ outcome[r] = "refused")
    <3>1. runner[r] \in Terminal => outcome[r] # "none"
      BY <2>1 DEF OneRun, Recorded
    <3>2. outcome[r] \in {"none", "dry", "ok", "refused", "failed", "cancelled"}
      BY <2>1 DEF RunTypes
    <3>3. exit[r] = "0" => ~unmet[r] /\ runner[r] \in {"idle", "unhealthy"}
      BY <2>2
    <3> QED BY <2>2, <3>1, <3>2, <3>3 DEF Success, Terminal
  <2>5. runner[r] = "cancelled" /\ step[r] = "exited" => exit[r] = "signal"
    <3>1. runner[r] = "cancelled" => outcome[r] = "cancelled"
      BY <2>1 DEF OneRun, Recorded, FinalRecord, Terminal
    <3> QED BY <2>1, <3>1 DEF OneRun, ExitKnown, Answered
  <2> QED BY <2>3, <2>4, <2>5
<1>2. RunInv => VerdictsAgree
  BY <1>1 DEF VerdictsAgree
<1> QED BY <1>2, RunInvAlways, PTL

-------------------------------------------------------------------------------
(* The files of a report.                                                    *)

\* Nobody else has begun a report in the directory of r.
Solitary(r) == \A q \in Runs \ {r} : DirOf[q] = DirOf[r] => artifact[q] = 0

\* A run in the list has got as far as the list; the files of a solitary report are
\* its own when they are written, and empty while they are.
DiskInv ==
    /\ \A r \in Runs, s \in Stamps : disk[<<s, "json">>] = r => artifact[r] >= 4
    /\ \A r \in Runs, k \in 1..3 :
          Solitary(r) /\ (k < artifact[r] \/ (k = artifact[r] /\ ~open[r]))
              => disk[Place(r, k)] = r
    /\ \A r \in Runs, k \in 1..3 :
          Solitary(r) /\ k = artifact[r] /\ open[r] => disk[Place(r, k)] = Torn

\* The first three places are in the directory.
LEMMA PlaceInDir ==
    ASSUME NEW r \in Runs
    PROVE  /\ Place(r, 1) = <<DirOf[r], "summary">>
           /\ Place(r, 2) = <<DirOf[r], "details">>
           /\ Place(r, 3) = <<DirOf[r], "index">>
BY DEF Place

\* Two places, of one run or of runs with different directories.
LEMMA PlacesApart ==
    ASSUME NEW q \in Runs, NEW r \in Runs, DirOf[r] \in Dirs, reportId[r] \in Stamps,
           NEW k \in 1..3, NEW j \in 1..5,
           q # r => DirOf[q] # DirOf[r],
           q = r => k # j
    PROVE  Place(q, k) # Place(r, j)
<1>1. \/ k = 1 /\ Place(q, k) = <<DirOf[q], "summary">>
      \/ k = 2 /\ Place(q, k) = <<DirOf[q], "details">>
      \/ k = 3 /\ Place(q, k) = <<DirOf[q], "index">>
  BY PlaceInDir
<1>2. \/ j = 1 /\ Place(r, j) = <<DirOf[r], "summary">>
      \/ j = 2 /\ Place(r, j) = <<DirOf[r], "details">>
      \/ j = 3 /\ Place(r, j) = <<DirOf[r], "index">>
      \/ j = 4 /\ Place(r, j) = <<reportId[r], "json">>
      \/ j = 5 /\ Place(r, j) = <<reportId[r], "path">>
  BY Places5
<1>3. \A a, b, c, d : <<a, b>> = <<c, d>> => a = c /\ b = d
  OBVIOUS
<1> QED BY <1>1, <1>2, <1>3

\* The list is not in a directory.
LEMMA ListApart ==
    ASSUME NEW r \in Runs, DirOf[r] \in Dirs, reportId[r] \in Stamps, NEW s \in Stamps,
           NEW j \in 1..5, Place(r, j) = <<s, "json">>
    PROVE  j = 4
<1>1. \/ j = 1 /\ Place(r, j) = <<DirOf[r], "summary">>
      \/ j = 2 /\ Place(r, j) = <<DirOf[r], "details">>
      \/ j = 3 /\ Place(r, j) = <<DirOf[r], "index">>
      \/ j = 4 /\ Place(r, j) = <<reportId[r], "json">>
      \/ j = 5 /\ Place(r, j) = <<reportId[r], "path">>
  BY Places5
<1>2. \A a, b, c, d : <<a, b>> = <<c, d>> => a = c /\ b = d
  OBVIOUS
<1> QED BY <1>1, <1>2

\* The directory of a run does not change.
LEMMA PlaceConstant ==
    ASSUME NEW r \in Runs, NEW k \in 1..3 PROVE Place(r, k)' = Place(r, k)
BY DEF Place

\* Steps that are not of a report.
LEMMA DiskKept ==
    ASSUME DiskInv, RunTypes, UNCHANGED <<disk, artifact>>,
           \A r \in Runs : artifact[r] > 0 => open'[r] = open[r]
    PROVE  DiskInv'
<1>1. \A r \in Runs : Solitary(r)' => Solitary(r)
  BY DEF Solitary
<1>2. \A r \in Runs : artifact[r] \in 0..5
  BY DEF RunTypes
<1> QED BY <1>1, <1>2, PlaceConstant DEF DiskInv

\* What TruncateArtifact and FillArtifact share: r writes the file j of its report.
LEMMA DiskWritten ==
    ASSUME DiskInv, RunInv, NEW r \in Runs, NEW j \in 1..5, NEW c \in {r, Torn},
           DirOf[r] \in Dirs, reportId[r] \in Stamps,
           disk' = [disk EXCEPT ![Place(r, j)] = c],
           artifact'[r] = j, j \in {artifact[r], artifact[r] + 1},
           \A q \in Runs \ {r} : artifact'[q] = artifact[q] /\ open'[q] = open[q],
           j <= 3 /\ Solitary(r) /\ ~open'[r] => c = r,
           open'[r] => c = Torn,
           j = artifact[r] + 1 => ~open[r]
    PROVE  DiskInv'
<1>0. RunTypes /\ artifact[r] \in 0..5
  BY DEF RunInv, RunTypes
<1>1. Place(r, j) \in Places /\ disk'[Place(r, j)] = c
      /\ \A x \in Places \ {Place(r, j)} : disk'[x] = disk[x]
  BY <1>0, Places5 DEF RunTypes
<1>2. \A q \in Runs : Solitary(q)' => Solitary(q) /\ (q # r => DirOf[q] # DirOf[r])
  BY <1>0 DEF Solitary
<1>3. ASSUME NEW q \in Runs, NEW k \in 1..3, artifact'[q] > 0,
             q # r => DirOf[q] # DirOf[r], q = r => k # j
      PROVE  disk'[Place(q, k)] = disk[Place(q, k)]
  <2>1. DirOf[q] \in Dirs
    BY <1>3 DEF RunInv, OneRun, Reporting
  <2>2. Place(q, k) # Place(r, j)
    BY <1>3, PlacesApart
  <2>3. Place(q, k) \in Places
    <3>1. k = 1 \/ k = 2 \/ k = 3
      OBVIOUS
    <3> QED BY <2>1, <3>1, PlaceInDir DEF Places, Parts
  <2> QED BY <1>1, <2>2, <2>3
<1>4. ASSUME NEW q \in Runs, NEW s \in Stamps, disk'[<<s, "json">>] = q
      PROVE  artifact'[q] >= 4
  <2>0. <<s, "json">> \in Places
    BY DEF Places
  <2>1. CASE <<s, "json">> = Place(r, j)
    <3>1. j = 4 /\ c = q
      BY <1>1, <1>4, <2>1, ListApart
    <3>2. q = r
      BY <3>1, RunAssumption
    <3> QED BY <3>1, <3>2
  <2>2. CASE <<s, "json">> # Place(r, j)
    <3>1. artifact[q] >= 4
      BY <1>1, <1>4, <2>0, <2>2 DEF DiskInv
    <3> QED BY <1>0, <3>1
  <2> QED BY <2>1, <2>2
<1>5. ASSUME NEW q \in Runs, NEW k \in 1..3, Solitary(q)',
             k < artifact'[q] \/ (k = artifact'[q] /\ ~open'[q])
      PROVE  disk'[Place(q, k)] = q
  <2>0. artifact'[q] \in Nat /\ artifact'[q] > 0
    BY <1>0, <1>5 DEF RunTypes
  <2>1. CASE q = r /\ k = j
    BY <1>1, <1>2, <1>5, <2>1
  <2>2. CASE ~(q = r /\ k = j)
    <3>1. disk'[Place(q, k)] = disk[Place(q, k)]
      BY <1>2, <1>3, <1>5, <2>0, <2>2
    <3>2. k < artifact[q] \/ (k = artifact[q] /\ ~open[q])
      BY <1>0, <1>5, <2>2
    <3> QED BY <1>2, <1>5, <3>1, <3>2 DEF DiskInv
  <2> QED BY <2>1, <2>2
<1>6. ASSUME NEW q \in Runs, NEW k \in 1..3, Solitary(q)', k = artifact'[q], open'[q]
      PROVE  disk'[Place(q, k)] = Torn
  <2>1. CASE q = r
    BY <1>1, <1>6, <2>1
  <2>2. CASE q # r
    <3>1. disk'[Place(q, k)] = disk[Place(q, k)]
      BY <1>2, <1>3, <1>6, <2>2
    <3> QED BY <1>2, <1>6, <2>2, <3>1 DEF DiskInv
  <2> QED BY <2>1, <2>2
<1> QED BY <1>4, <1>5, <1>6, PlaceConstant DEF DiskInv

LEMMA DiskStep ==
    ASSUME RunInv, DiskInv, [HttpNext]_httpVars PROVE DiskInv'
<1>0. RunTypes
  BY DEF RunInv
<1>1. CASE UNCHANGED runVars
  BY <1>0, <1>1, DiskKept DEF runVars
<1>2. ASSUME NEW r \in Runs, TruncateArtifact(r) PROVE DiskInv'
  <2>1. OneRun(r) /\ step[r] = "report" /\ ~open[r] /\ artifact[r] \in 0..4
    BY <1>0, <1>2 DEF RunInv, RunTypes, OneRun, Reporting, TruncateArtifact
  <2> DEFINE j == artifact[r] + 1
  <2>2. /\ j \in 1..5 /\ DirOf[r] \in Dirs /\ reportId[r] \in Stamps
        /\ disk' = [disk EXCEPT ![Place(r, j)] = Torn]
        /\ artifact'[r] = j /\ open'[r]
        /\ \A q \in Runs \ {r} : artifact'[q] = artifact[q] /\ open'[q] = open[q]
    BY <1>0, <1>2, <2>1 DEF RunTypes, OneRun, Reporting, TruncateArtifact
  <2> QED BY <2>1, <2>2, DiskWritten
<1>3. ASSUME NEW r \in Runs, FillArtifact(r) PROVE DiskInv'
  <2>1. OneRun(r) /\ step[r] = "report" /\ open[r] /\ artifact[r] \in 0..5
    BY <1>0, <1>3 DEF RunInv, RunTypes, FillArtifact
  <2> DEFINE j == artifact[r]
  <2>2. PICK c \in {r, Torn} :
           /\ disk' = [disk EXCEPT ![Place(r, j)] = c]
           /\ disk[Place(r, j)] = Torn => c = r
    BY <1>3 DEF FillArtifact
  <2>3. /\ j \in 1..5 /\ DirOf[r] \in Dirs /\ reportId[r] \in Stamps
        /\ artifact'[r] = j /\ ~open'[r]
        /\ \A q \in Runs \ {r} : artifact'[q] = artifact[q] /\ open'[q] = open[q]
    BY <1>0, <1>3, <2>1 DEF RunTypes, OneRun, Reporting, FillArtifact
  <2>4. j <= 3 /\ Solitary(r) => c = r
    BY <2>1, <2>2, <2>3 DEF DiskInv
  <2>5. j # artifact[r] + 1 /\ j \in {artifact[r], artifact[r] + 1}
    BY <2>1
  <2> HIDE DEF j
  <2> QED BY <2>2, <2>3, <2>4, <2>5, DiskWritten
<1>4. ASSUME NEW r \in Runs, TruncateRecord(r) \/ FillRecord(r) PROVE DiskInv'
  <2>1. UNCHANGED <<disk, artifact>> /\ artifact[r] = 0
    BY <1>4 DEF TruncateRecord, FillRecord, RunInv, OneRun, Reporting, Ended
  <2>2. \A q \in Runs \ {r} : open'[q] = open[q]
    BY <1>0, <1>4 DEF TruncateRecord, FillRecord, RunTypes
  <2> QED BY <1>0, <2>1, <2>2, DiskKept
<1>5. ASSUME NEW r \in Runs,
             \/ Load(r) \/ Respond(r) \/ SendFails(r) \/ Signal(r) \/ CancelSend(r)
             \/ SignalLost(r) \/ WriteFails(r) \/ Killed(r)
      PROVE  DiskInv'
  <2>1. UNCHANGED <<disk, artifact, open>>
    BY <1>5 DEF Load, Respond, SendFails, Signal, CancelSend, SignalLost, WriteFails, Killed
  <2> QED BY <1>0, <2>1, DiskKept
<1> QED BY <1>1, <1>2, <1>3, <1>4, <1>5 DEF HttpNext, httpVars, RunStep

\* A report that `report list` shows is in its directory, all of it, wherever the run
\* was interrupted, unless another run used the directory (write_report).
THEOREM ReportsAreComplete == HttpSpec => []ListedReportComplete
<1>1. HttpInit => DiskInv
  <2> SUFFICES ASSUME HttpInit PROVE DiskInv
    OBVIOUS
  <2>1. \A s \in Stamps : <<s, "json">> \in Places
    BY DEF Places
  <2>2. \A s \in Stamps : disk[<<s, "json">>] = Absent
    BY <2>1 DEF HttpInit
  <2> QED BY <2>2, RunAssumption DEF HttpInit, DiskInv
<1>2. RunInv /\ DiskInv => ListedReportComplete
  <2> SUFFICES ASSUME RunInv, DiskInv, NEW r \in Runs, reportId[r] # "none",
                      disk[<<reportId[r], "json">>] = r, Solitary(r), NEW f \in Parts
               PROVE  disk[<<DirOf[r], f>>] = r
    BY DEF ListedReportComplete, Solitary
  <2>1. reportId[r] \in Stamps /\ artifact[r] \in 0..5
    BY DEF RunInv, RunTypes
  <2>2. artifact[r] >= 4
    BY <2>1 DEF DiskInv
  <2>3. disk[Place(r, 1)] = r /\ disk[Place(r, 2)] = r /\ disk[Place(r, 3)] = r
    BY <2>1, <2>2 DEF DiskInv
  <2> QED BY <2>3, PlaceInDir DEF Parts
<1> QED BY <1>1, <1>2, DiskStep, RunInvAlways, PTL DEF HttpSpec
=============================================================================
