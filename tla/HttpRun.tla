-------------------------------- MODULE HttpRun --------------------------------
(***************************************************************************)
(* `wiresurge run`: one HTTP request of a stored or given file, sent under *)
(* a signal handler, with a runner record before and after it and, on      *)
(* demand, a report (crates/cli/src/lib.rs run_command, crates/engine/src/ *)
(* lib.rs, WorkspaceStore::write_runner_snapshot and write_report).        *)
(*                                                                         *)
(* Runs are processes of their own, at work beside the `request` commands  *)
(* of RequestStore.  All their writes are fs::write: the file is           *)
(* truncated, then filled, and either call may fail or be the last one of  *)
(* the process.  Only the send is awaited, so only there can a run notice  *)
(* a signal.                                                               *)
(***************************************************************************)
EXTENDS RequestStore

CONSTANTS
    Runs,       \* processes of `wiresurge run`
    Dirs,       \* values of --report
    DirOf,      \* of each run; NoDir without --report
    NoDir,
    SourceOf,   \* the stored request each runs; NoFile for a file of the caller's
    Stamps,     \* of generate_id: the time of day in milliseconds
    Absent,     \* no such file
    Torn,       \* a file that is empty, or holds parts of two writes
    Teams       \* which processes may be at work beside one another

ASSUME RunAssumption ==
    /\ DirOf \in [Runs -> Dirs \cup {NoDir}]
    /\ NoDir \notin Dirs
    /\ SourceOf \in [Runs -> Ids \cup {NoFile}]
    /\ Absent \notin Runs /\ Torn \notin Runs \cup {Absent}
    /\ Dirs \cap Stamps = {}
    /\ Teams \subseteq SUBSET (Clients \cup Runs)

VARIABLES
    step,       \* what the run does next
    open,       \* the file it is writing is truncated and not filled
    signalled,  \* the handler has cancelled the run
    outcome,    \* of the send; "dry" without one
    unmet,      \* an `expect` was evaluated and failed
    runner,     \* runners/local-<pid>.json
    reportId,   \* the stamp in the id of its report
    artifact,   \* the file of the report it is writing, 0 before the first
    disk,       \* the run each file of a report is from
    exit,       \* the exit code
    team,       \* not in the code: the processes there are
    disturbed   \* not in the code: runs that a failed write or the loss of the
                \* signal handler has ended

runVars == <<step, open, signalled, outcome, unmet, runner,
             reportId, artifact, disk, exit, disturbed, team>>
httpVars == <<storeVars, runVars>>

Parts == {"summary", "details", "index"}
Places == (Dirs \X Parts) \cup (Stamps \X {"json", "path"})
Terminal == {"idle", "unhealthy", "cancelled", "failed"}

\* The types of records, reports and runs.
RunTypeOK ==
    /\ StoreTypeOK
    /\ step \in [Runs -> {"load", "active", "send", "final", "report", "exited", "killed"}]
    /\ open \in [Runs -> BOOLEAN]
    /\ signalled \in [Runs -> BOOLEAN]
    /\ outcome \in [Runs -> {"none", "dry", "ok", "refused", "failed", "cancelled"}]
    /\ unmet \in [Runs -> BOOLEAN]
    /\ runner \in [Runs -> {"none", "torn", "active"} \cup Terminal]
    /\ reportId \in [Runs -> Stamps \cup {"none"}]
    /\ artifact \in [Runs -> 0..5]
    /\ disk \in [Places -> Runs \cup {Absent, Torn}]
    /\ exit \in [Runs -> {"none", "0", "1", "error", "signal"}]
    /\ disturbed \in SUBSET Runs
    /\ team \in Teams

HttpInit ==
    /\ StoreInit
    /\ step = [r \in Runs |-> "load"]
    /\ open = [r \in Runs |-> FALSE]
    /\ signalled = [r \in Runs |-> FALSE]
    /\ outcome = [r \in Runs |-> "none"]
    /\ unmet = [r \in Runs |-> FALSE]
    /\ runner = [r \in Runs |-> "none"]
    /\ reportId = [r \in Runs |-> "none"]
    /\ artifact = [r \in Runs |-> 0]
    /\ disk = [x \in Places |-> Absent]
    /\ exit = [r \in Runs |-> "none"]
    /\ disturbed = {}
    /\ team \in Teams

\* The process ends; once the handler has cancelled the run its code is the
\* signal's, whatever the run came to.
Exits(r, code) ==
    /\ step' = [step EXCEPT ![r] = "exited"]
    /\ exit' = [exit EXCEPT ![r] = IF signalled[r] THEN "signal" ELSE code]

-------------------------------------------------------------------------------
(* Loading and expanding the specification of the run.                       *)

Readable(i) == i # NoFile => request[i] # NoFile /\ TRUE \in Parses(request[i])

\* A caller's file is readable or not; templates may also fail to expand.
Load(r) ==
    /\ step[r] = "load"
    /\ \/ /\ Readable(SourceOf[r])
          /\ \/ step' = [step EXCEPT ![r] = "active"] /\ UNCHANGED outcome
             \/ /\ step' = [step EXCEPT ![r] = "final"]
                /\ outcome' = [outcome EXCEPT ![r] = "dry"]
          /\ UNCHANGED exit
       \/ Exits(r, "error") /\ UNCHANGED outcome
    /\ UNCHANGED <<open, signalled, unmet, runner, reportId,
                   artifact, disk, disturbed>>

-------------------------------------------------------------------------------
(* The send, and what may come instead of an answer.                         *)

Respond(r) ==
    /\ step[r] = "send"
    /\ outcome' \in {[outcome EXCEPT ![r] = o] : o \in {"ok", "refused"}}
    /\ unmet' \in {[unmet EXCEPT ![r] = a] : a \in BOOLEAN}
    /\ step' = [step EXCEPT ![r] = "final"]
    /\ UNCHANGED <<open, signalled, runner, reportId, artifact, disk, exit,
                   disturbed>>

SendFails(r) ==
    /\ step[r] = "send"
    /\ outcome' = [outcome EXCEPT ![r] = "failed"]
    /\ step' = [step EXCEPT ![r] = "final"]
    /\ UNCHANGED <<open, signalled, unmet, runner, reportId, artifact, disk,
                   exit, disturbed>>

Signal(r) ==
    /\ step[r] = "send"
    /\ signalled' = [signalled EXCEPT ![r] = TRUE]
    /\ UNCHANGED <<step, open, outcome, unmet, runner, reportId, artifact,
                   disk, exit, disturbed>>

\* The select of send_request_inner is not biased: an answer that is there too may
\* be taken instead, and the run then goes on to its end.
CancelSend(r) ==
    /\ step[r] = "send" /\ signalled[r]
    /\ outcome' = [outcome EXCEPT ![r] = "cancelled"]
    /\ step' = [step EXCEPT ![r] = "final"]
    /\ UNCHANGED <<open, signalled, unmet, runner, reportId, artifact, disk,
                   exit, disturbed>>

\* `signal_code?`: the handler cannot be installed; the command ends with that
\* error and the execution is dropped where it stands.
SignalLost(r) ==
    /\ step[r] \in {"load", "send"} /\ ~signalled[r]
    /\ Exits(r, "error")
    /\ disturbed' = disturbed \cup {r}
    /\ UNCHANGED <<open, signalled, outcome, unmet, runner, reportId,
                   artifact, disk>>

-------------------------------------------------------------------------------
(* Runner records.                                                           *)

\* ... the verdict of the transport alone.
Success_StatusOnly(r) == outcome[r] \in {"dry", "ok"}

Success(r) == outcome[r] = "dry" \/ (outcome[r] = "ok" /\ ~unmet[r])

\* ... a cancelled run leaves the record of its start.
Record_CancelKeepsActive(r) ==
    CASE step[r] = "active" \/ outcome[r] = "cancelled" -> "active"
      [] outcome[r] = "failed" -> "failed"
      [] OTHER -> IF Success(r) THEN "idle" ELSE "unhealthy"

\* The snapshot to be written: RunnerStats::local, then finish_with_latency,
\* finalize_failed or the cancelled copy.
Record(r) ==
    CASE step[r] = "active" -> "active"
      [] step[r] = "final" /\ outcome[r] \in {"failed", "cancelled"} -> outcome[r]
      [] OTHER -> IF Success(r) THEN "idle" ELSE "unhealthy"

\* Where the run goes when its final record is there.
AfterFinal(r) ==
    IF outcome[r] \in {"failed", "cancelled"}
    THEN Exits(r, "error") /\ UNCHANGED reportId
    ELSE IF outcome[r] = "dry" \/ DirOf[r] = NoDir
    THEN Exits(r, IF unmet[r] THEN "1" ELSE "0") /\ UNCHANGED reportId
    ELSE /\ step' = [step EXCEPT ![r] = "report"]
         /\ reportId' \in {[reportId EXCEPT ![r] = s] : s \in Stamps}
         /\ UNCHANGED exit

TruncateRecord(r) ==
    /\ step[r] \in {"active", "final"} /\ ~open[r]
    /\ open' = [open EXCEPT ![r] = TRUE]
    /\ runner' = [runner EXCEPT ![r] = "torn"]
    /\ UNCHANGED <<step, signalled, outcome, unmet, reportId, artifact, disk,
                   exit, disturbed>>

FillRecord(r) ==
    /\ step[r] \in {"active", "final"} /\ open[r]
    /\ open' = [open EXCEPT ![r] = FALSE]
    /\ runner' = [runner EXCEPT ![r] = Record(r)]
    /\ IF step[r] = "active"
       THEN step' = [step EXCEPT ![r] = "send"] /\ UNCHANGED <<reportId, exit>>
       ELSE AfterFinal(r)
    /\ UNCHANGED <<signalled, outcome, unmet, artifact, disk, disturbed>>

-------------------------------------------------------------------------------
(* The report: three files in its directory, then two that list it.          *)

\* ... the list first.
Place_ListFirst(r, k) ==
    CASE k = 1 -> <<reportId[r], "json">> [] k = 2 -> <<reportId[r], "path">>
      [] k = 3 -> <<DirOf[r], "summary">> [] k = 4 -> <<DirOf[r], "details">>
      [] k = 5 -> <<DirOf[r], "index">>

Place(r, k) ==
    CASE k = 1 -> <<DirOf[r], "summary">> [] k = 2 -> <<DirOf[r], "details">>
      [] k = 3 -> <<DirOf[r], "index">>
      [] k = 4 -> <<reportId[r], "json">> [] k = 5 -> <<reportId[r], "path">>

TruncateArtifact(r) ==
    /\ step[r] = "report" /\ ~open[r]
    /\ open' = [open EXCEPT ![r] = TRUE]
    /\ artifact' = [artifact EXCEPT ![r] = @ + 1]
    /\ disk' = [disk EXCEPT ![Place(r, artifact[r] + 1)] = Torn]
    /\ UNCHANGED <<step, signalled, outcome, unmet, runner, reportId, exit,
                   disturbed>>

\* Another run that has filled the file since it was truncated may leave its tail.
FillArtifact(r) ==
    /\ step[r] = "report" /\ open[r]
    /\ open' = [open EXCEPT ![r] = FALSE]
    /\ LET x == Place(r, artifact[r]) IN
         \E c \in (IF disk[x] = Torn THEN {r} ELSE {r, Torn}) : disk' = [disk EXCEPT ![x] = c]
    /\ IF artifact[r] = 5 THEN Exits(r, IF unmet[r] THEN "1" ELSE "0")
       ELSE UNCHANGED <<step, exit>>
    /\ UNCHANGED <<signalled, outcome, unmet, runner, reportId, artifact,
                   disturbed>>

-------------------------------------------------------------------------------
MayCrash ==
    Cardinality(Crashed) + Cardinality({r \in Runs : step[r] = "killed" \/ r \in disturbed})
        < MaxCrashes

\* A call that opens or fills a file fails.  Every such error ends the command; the
\* one on the record of a failed send is dropped for the error of the send.
WriteFails(r) ==
    /\ MayCrash
    /\ step[r] \in {"active", "final", "report"}
    /\ Exits(r, "error")
    /\ disturbed' = disturbed \cup {r}
    /\ UNCHANGED <<open, signalled, outcome, unmet, runner, reportId,
                   artifact, disk>>

\* SIGKILL, or a signal before the handler is there.
Killed(r) ==
    /\ MayCrash
    /\ step[r] \notin {"exited", "killed"}
    /\ step' = [step EXCEPT ![r] = "killed"]
    /\ UNCHANGED <<open, signalled, outcome, unmet, runner, reportId,
                   artifact, disk, exit, disturbed>>

RunStep(r) ==
    \/ Load(r) \/ Respond(r) \/ SendFails(r) \/ Signal(r) \/ CancelSend(r) \/ SignalLost(r)
    \/ TruncateRecord(r) \/ FillRecord(r)
    \/ TruncateArtifact(r) \/ FillArtifact(r)
    \/ WriteFails(r) \/ Killed(r)

HttpNext ==
    \/ (\E p \in Clients \cap team : StoreStep(p)) /\ UNCHANGED runVars
    \/ (\E r \in Runs \cap team : RunStep(r)) /\ UNCHANGED <<storeVars, team>>

HttpSpec == HttpInit /\ [][HttpNext]_httpVars

-------------------------------------------------------------------------------
(* Properties.                                                               *)

\* "Runner records reach a terminal state on every path": a run that has exited
\* leaves none only if it never started, and otherwise a terminal one.  A kill, a
\* failed write and the loss of the signal handler are not among the paths that keep
\* this.
RunnerTerminal ==
    \A r \in Runs \ disturbed :
        step[r] = "exited" =>
            \/ runner[r] \in Terminal
            \/ runner[r] = "none" /\ exit[r] = "error"

\* The exit code, the record and the report tell one story: 1 is a failed
\* assertion, and then the record is unhealthy; an ordinary exit is never of a run
\* recorded as cancelled or failed.
VerdictsAgree ==
    \A r \in Runs :
        /\ exit[r] = "1" => runner[r] = "unhealthy"
        /\ exit[r] = "0" => runner[r] = "idle" \/ (runner[r] = "unhealthy" /\ outcome[r] = "refused")
        /\ runner[r] = "cancelled" /\ step[r] = "exited" => exit[r] = "signal"

\* A listed report is in its directory, all three files of it, whatever interrupts
\* the run: unless another run writes its report into the same directory.
ListedReportComplete ==
    \A r \in Runs :
        /\ reportId[r] # "none" /\ disk[<<reportId[r], "json">>] = r
        /\ \A q \in Runs \ {r} : DirOf[q] = DirOf[r] => artifact[q] = 0
        => \A f \in Parts : disk[<<DirOf[r], f>>] = r
===============================================================================
