----------------------------- MODULE RequestStore -----------------------------
(***************************************************************************)
(* Stored requests, crates/storage/src/lib.rs: WorkspaceStore over one     *)
(* file per request, used by any number of short-lived CLI processes at    *)
(* once (`wiresurge request create | update | delete | list`).             *)
(*                                                                         *)
(* Files are what a file system makes of them: a path leads to an inode,   *)
(* an open file keeps its inode and its offset whatever happens to the     *)
(* path, rename moves the path.  A document is written in one or two       *)
(* pieces, each known by the process it comes from.  A system call is one  *)
(* step; between two of them other processes run, or this one dies.        *)
(***************************************************************************)
EXTENDS Naturals, FiniteSets

CONSTANTS
    Clients,    \* processes with one command each
    Ids,        \* request ids
    Short,      \* writers whose document is one piece long, not two
    NoFile,     \* no such path
    Blank,      \* a piece that is not written
    MaxCrashes  \* how many processes may end in the middle

\* An inode is named after the process that creates it, or after the request it
\* held before any of them.
Inodes == Clients \cup Ids

ASSUME StoreAssumption ==
    /\ Clients \cap Ids = {}
    /\ NoFile \notin Inodes /\ Blank \notin Inodes
    /\ Short \subseteq Inodes
    /\ MaxCrashes \in Nat

Pieces == 1..2
Length(w) == IF w \in Short THEN 1 ELSE 2
Document(w) == [k \in Pieces |-> IF k <= Length(w) THEN w ELSE Blank]
Empty == [k \in Pieces |-> Blank]

VARIABLES
    request,    \* <id>.yaml
    temp,       \* <id>.yaml.tmp
    content,    \* of each inode
    pc,         \* the call each process is about to make
    target,     \* the id its command names
    file,       \* the inode it has open
    offset,     \* pieces it has written
    answer,     \* what its command came to
    toList,     \* requests that `list` has found and not read
    mixed,      \* not in the code: ids whose temporary file two updates had open
    makers      \* not in the code: the processes that have brought the request
                \* of an id into being since it was last deleted

files == <<request, temp, content>>
process == <<pc, target, file, offset, answer, toList>>
storeVars == <<files, process, mixed, makers>>

Answers == {"created", "exists", "updated", "deleted", "listed", "not_found", "error"}

StoreTypeOK ==
    /\ request \in [Ids -> Inodes \cup {NoFile}]
    /\ temp \in [Ids -> Inodes \cup {NoFile}]
    /\ content \in [Inodes -> [Pieces -> Inodes \cup {Blank}]]
    /\ pc \in [Clients -> {"start", "create", "replace", "open", "rename", "reload",
                           "remove", "list", "done", "abandoned", "dead"}]
    /\ target \in [Clients -> Ids]
    /\ file \in [Clients -> Inodes]
    /\ offset \in [Clients -> 0..2]
    /\ answer \in [Clients -> Answers \cup {"none"}]
    /\ toList \in [Clients -> SUBSET Ids]
    /\ mixed \in SUBSET Ids
    /\ makers \in [Ids -> SUBSET Clients]

StoreInit ==
    /\ request \in [Ids -> Inodes \cup {NoFile}]
    /\ \A i \in Ids : request[i] \in {i, NoFile}
    /\ temp = [i \in Ids |-> NoFile]
    /\ content = [n \in Inodes |-> IF n \in Ids THEN Document(n) ELSE Empty]
    /\ pc = [p \in Clients |-> "start"]
    /\ target \in [Clients -> Ids]
    /\ file = [p \in Clients |-> p]
    /\ offset = [p \in Clients |-> 0]
    /\ answer = [p \in Clients |-> "none"]
    /\ toList = [p \in Clients |-> {}]
    /\ mixed = {}
    /\ makers = [i \in Ids |-> {}]

Whole(n) == \E w \in Inodes : content[n] = Document(w)

\* What from_yaml may say of a file: a whole document is read, an empty one
\* refused; a beginning, or a mixture, may pass for a document or not.
Parses(n) ==
    IF Whole(n) THEN {TRUE}
    ELSE IF content[n] = Empty THEN {FALSE} ELSE BOOLEAN

Goto(p, l) == pc' = [pc EXCEPT ![p] = l]
Answer(p, a) == Goto(p, "done") /\ answer' = [answer EXCEPT ![p] = a]

-------------------------------------------------------------------------------
(* create_request: atomic_write with create_new.                             *)

\* ... the file is looked for, then created: two creators may both find nothing.
Taken_NotExclusive(i) == FALSE

\* open(O_CREAT | O_EXCL) fails on a path that exists.
Taken(i) == request[i] # NoFile

OpenNew(p) ==
    /\ pc[p] = "start"
    /\ LET i == target[p] IN
         IF Taken(i)
         THEN Answer(p, "exists") /\ UNCHANGED <<files, file, makers>>
         ELSE /\ request' = [request EXCEPT ![i] = p]
              /\ makers' = [makers EXCEPT ![i] = @ \cup {p}]
              /\ file' = [file EXCEPT ![p] = p]
              /\ Goto(p, "create")
              /\ UNCHANGED <<temp, content, answer>>
    /\ UNCHANGED <<target, offset, toList, mixed>>

\* One write(2) of write_all.  A created request is written in place, and its
\* last piece is the end of the command.
Write(p) ==
    /\ pc[p] \in {"create", "replace"}
    /\ offset' = [offset EXCEPT ![p] = @ + 1]
    /\ content' = [content EXCEPT ![file[p]][offset[p] + 1] = p]
    /\ IF offset[p] + 1 < Length(p) THEN UNCHANGED <<pc, answer>>
       ELSE IF pc[p] = "create" THEN Answer(p, "created")
       ELSE Goto(p, "rename") /\ UNCHANGED answer
    /\ UNCHANGED <<request, temp, target, file, toList, mixed, makers>>

-------------------------------------------------------------------------------
(* update_request: the temporary file beside the request, then the rename.   *)

CheckUpdate(p) ==
    /\ pc[p] = "start"
    /\ IF request[target[p]] = NoFile
       THEN Answer(p, "not_found")
       ELSE Goto(p, "open") /\ UNCHANGED answer
    /\ UNCHANGED <<files, target, file, offset, toList, mixed, makers>>

\* Whether an update has the file n open and is not done with it.
Updating(p, n) == pc[p] \in {"replace", "rename"} /\ file[p] = n

\* ... what a dead process left in the temporary file stays.
Truncated_Keep(c) == c

\* File::create empties the file it finds.
Truncated(c) == Empty

OpenTemp(p) ==
    /\ pc[p] = "open"
    /\ LET i == target[p]
           n == IF temp[i] = NoFile THEN p ELSE temp[i] IN
         /\ temp' = [temp EXCEPT ![i] = n]
         /\ file' = [file EXCEPT ![p] = n]
         /\ content' = [content EXCEPT ![n] = Truncated(@)]
         /\ mixed' = IF \E q \in Clients : Updating(q, n) THEN mixed \cup {i} ELSE mixed
    /\ Goto(p, "replace")
    /\ UNCHANGED <<request, target, offset, answer, toList, makers>>

\* The rename moves what the path leads to now; another update may have moved it.
\* It brings back a request that was deleted since the update found it.
Rename(p) ==
    /\ pc[p] = "rename"
    /\ LET i == target[p] IN
         IF temp[i] = NoFile
         THEN Answer(p, "error") /\ UNCHANGED <<files, makers>>
         ELSE /\ request' = [request EXCEPT ![i] = temp[i]]
              /\ makers' = IF request[i] # NoFile THEN makers
                           ELSE [makers EXCEPT ![i] = @ \cup {p}]
              /\ temp' = [temp EXCEPT ![i] = NoFile]
              /\ Goto(p, "reload")
              /\ UNCHANGED <<content, answer>>
    /\ UNCHANGED <<target, file, offset, toList, mixed>>

\* `request update` prints what it reads back.
Reload(p) ==
    /\ pc[p] = "reload"
    /\ LET n == request[target[p]] IN
         IF n = NoFile THEN Answer(p, "not_found")
         ELSE \E ok \in Parses(n) : Answer(p, IF ok THEN "updated" ELSE "error")
    /\ UNCHANGED <<files, target, file, offset, toList, mixed, makers>>

-------------------------------------------------------------------------------
(* delete_request and list_requests.                                         *)

CheckDelete(p) ==
    /\ pc[p] = "start"
    /\ IF request[target[p]] = NoFile
       THEN Answer(p, "not_found")
       ELSE Goto(p, "remove") /\ UNCHANGED answer
    /\ UNCHANGED <<files, target, file, offset, toList, mixed, makers>>

Remove(p) ==
    /\ pc[p] = "remove"
    /\ LET i == target[p] IN
         IF request[i] = NoFile
         THEN Answer(p, "error") /\ UNCHANGED <<request, makers>>
         ELSE /\ request' = [request EXCEPT ![i] = NoFile]
              /\ makers' = [makers EXCEPT ![i] = {}]
              /\ Answer(p, "deleted")
    /\ UNCHANGED <<temp, content, target, file, offset, toList, mixed>>

\* read_dir: temporary files have another extension and are passed over.
ReadDir(p) ==
    /\ pc[p] = "start"
    /\ toList' = [toList EXCEPT ![p] = {i \in Ids : request[i] # NoFile}]
    /\ Goto(p, "list")
    /\ UNCHANGED <<files, target, file, offset, answer, mixed, makers>>

\* One file that has gone or does not parse, and there is no list.
ReadListed(p) ==
    /\ pc[p] = "list"
    /\ \/ toList[p] = {} /\ Answer(p, "listed") /\ UNCHANGED toList
       \/ \E i \in toList[p] :
            \E ok \in (IF request[i] = NoFile THEN {FALSE} ELSE Parses(request[i])) :
                IF ok THEN /\ toList' = [toList EXCEPT ![p] = @ \ {i}]
                           /\ UNCHANGED <<pc, answer>>
                ELSE Answer(p, "error") /\ UNCHANGED toList
    /\ UNCHANGED <<files, target, file, offset, mixed, makers>>

-------------------------------------------------------------------------------
Crashed == {p \in Clients : pc[p] \in {"abandoned", "dead"}}

\* The process is killed, or a call fails and the command ends: either way the
\* files stay as they are.
Dies(p) ==
    /\ Cardinality(Crashed) < MaxCrashes
    /\ pc[p] \notin {"start", "done", "abandoned", "dead"}
    /\ Goto(p, IF pc[p] = "create" THEN "abandoned" ELSE "dead")
    /\ UNCHANGED <<files, target, file, offset, answer, toList, mixed, makers>>

StoreStep(p) ==
    \/ OpenNew(p) \/ Write(p)
    \/ CheckUpdate(p) \/ OpenTemp(p) \/ Rename(p) \/ Reload(p)
    \/ CheckDelete(p) \/ Remove(p)
    \/ ReadDir(p) \/ ReadListed(p)
    \/ Dies(p)

StoreNext == \E p \in Clients : StoreStep(p)

StoreSpec == StoreInit /\ [][StoreNext]_storeVars

-------------------------------------------------------------------------------
(* Properties.                                                               *)

\* The file of a request is a whole document, unless its create has not written
\* it all (and may never, if it died), or two updates had the same temporary file
\* open.  So a crash of an update "leaves the previous content intact", and so
\* does a stale temporary file; overlapping updates are not protected.
OnlyCreatesTear ==
    \A i \in Ids :
        \/ request[i] = NoFile
        \/ Whole(request[i])
        \/ i \in mixed
        \/ request[i] \in Clients /\ pc[request[i]] \in {"create", "abandoned"}

\* Between two deletes a request comes into being once: by one create, or by one
\* update that had found it before the delete.  Of two creates that both succeed,
\* then, the later came after a delete of what the earlier had made, and a create
\* never takes over a request that an update has brought back.
CreatedOnce == \A i \in Ids : \A p, q \in makers[i] : p = q
===============================================================================
