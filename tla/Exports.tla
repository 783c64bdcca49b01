------------------------------ MODULE Exports -------------------------------
(***************************************************************************)
(* Regulator exports: a job is created by the API and run by a Runner,     *)
(* which lists the matching rows, walks the chain over them, signs the     *)
(* root and anchors it, writes the artifact under Object Lock and updates  *)
(* the job.  Each of these is a call of its own, and two instances may run *)
(* one job.  Composed with the ingest, the anchor job and the sweep of     *)
(* module Sweep, which share the index and the anchors.                    *)
(***************************************************************************)
EXTENDS Sweep, ObjectLock

CONSTANTS
    Jobs,       \* ids of export jobs
    Runners,    \* goroutines that run jobs
    Filters,    \* queries: [valid, from, to, fields]
    Retentions  \* retention_days of the requests

ASSUME ExportAssumption ==
    /\ \A f \in Filters : f.valid \in BOOLEAN /\ f.from \in Nat /\ f.to \in Nat
    /\ Retentions \subseteq Int

VARIABLES
    jobs,       \* export_jobs: id -> its row
    artifacts,  \* the export objects of the bucket: id -> content, locked, and
                \* ended: history, the key was without protection at some time
    runner      \* each runner: where it stands in RunJob

exportVars == <<jobs, artifacts, runner>>
allVars == <<vars, exportVars>>

NoRun(r) == [pc |-> "idle", job |-> CHOOSE j \in Jobs : TRUE, cursor |-> NoCursor,
             list |-> << >>, root |-> ZeroHash, anchor |-> FALSE, present |-> {}]

ExportInit ==
    /\ Init
    /\ jobs = [j \in {} |-> {}]
    /\ artifacts = [j \in {} |-> {}]
    /\ runner = [r \in Runners |-> NoRun(r)]

Query(r) == jobs[runner[r].job].query

DefaultDays == 2555

(* POST /v1/exports.  A retention that is no positive number, and only     *)
(* that, is replaced.                                                      *)
CreateJob(j, f, n) ==
    /\ j \notin DOMAIN jobs
    /\ jobs' = [k \in DOMAIN jobs \cup {j} |->
          IF k = j THEN [status |-> "PENDING", query |-> f,
                         days |-> IF n <= 0 THEN DefaultDays ELSE n,
                         rows |-> 0, ref |-> FALSE, root |-> NilHash, anchor |-> FALSE]
                   ELSE jobs[k]]
    /\ UNCHANGED <<vars, artifacts, runner>>

(* A runner is handed a pending job. *)
TakeJob(r, j) ==
    /\ runner[r].pc = "idle"
    /\ j \in DOMAIN jobs
    /\ jobs[j].status = "PENDING"
    /\ runner' = [runner EXCEPT ![r] =
          [NoRun(r) EXCEPT !.job = j, !.pc = IF jobs[j].query.valid THEN "list" ELSE "fail",
                           !.present = {i \in DOMAIN index : Matches(index, i, jobs[j].query)}]]
    /\ UNCHANGED <<vars, jobs, artifacts>>

ExportPage(r) ==
    /\ runner[r].pc = "list"
    /\ runner' = [runner EXCEPT
          ![r].list = @ \o Page(index, Query(r), runner[r].cursor, PageLimit),
          ![r].cursor = NextCursor(backend, index, Query(r), runner[r].cursor, PageLimit),
          ![r].pc = IF Continues(Query(r), runner[r].cursor) THEN "list" ELSE "sign"]
    /\ UNCHANGED <<vars, jobs, artifacts>>

ExportListFails(r) ==
    /\ runner[r].pc = "list"
    /\ Fault
    /\ runner' = [runner EXCEPT ![r].pc = "fail"]
    /\ UNCHANGED <<logVars, sweepVars, jobs, artifacts>>

(* The root of the rows listed; the genesis value when the walk fails. *)
ExportRoot(list) ==
    LET walk == VerifyChain(list) IN IF walk.status = "ok" THEN walk.root ELSE ZeroHash

Anchored(r, root) ==
    \E at \in Stamps(IF runner[r].list = << >> THEN 1 ELSE runner[r].list[Len(runner[r].list)].row.ts) :
        anchors' = anchors \cup {[last |-> 0, root |-> root, at |-> at]}

(* The root is signed and inserted as an anchor that names no event, which *)
(* Postgres refuses: the empty string is no UUID.  The error is ignored.   *)
ExportSign(r) ==
    /\ runner[r].pc = "sign"
    /\ LET root == ExportRoot(runner[r].list) IN
          /\ IF backend = "postgres" THEN UNCHANGED anchors ELSE Anchored(r, root)
          /\ runner' = [runner EXCEPT ![r].root = root, ![r].pc = "put",
                                      ![r].anchor = backend # "postgres"]
    /\ UNCHANGED <<backend, index, alterations, faults, sweepVars, jobs, artifacts>>

(* Sign fails, or InsertAnchor does, before or after it took effect; the   *)
(* export goes on without an anchor.                                       *)
ExportSignFails(r) ==
    /\ runner[r].pc = "sign"
    /\ Fault
    /\ LET root == ExportRoot(runner[r].list) IN
          /\ \/ UNCHANGED anchors
             \/ backend # "postgres" /\ Anchored(r, root)
          /\ runner' = [runner EXCEPT ![r].root = root, ![r].pc = "put"]
    /\ UNCHANGED <<backend, index, alterations, sweepVars, jobs, artifacts>>

Protected(j) == j \in DOMAIN artifacts /\ artifacts[j].locked

(* The object Put leaves under the key.  A retention too long for a        *)
(* Duration does not lock it at all.                                       *)
Artifact(r) ==
    LET j == runner[r].job
        locked == Locks(jobs[j].days, FALSE)
    IN  [rows |-> runner[r].list, root |-> runner[r].root, present |-> runner[r].present,
         locked |-> locked,
         ended |-> ~locked \/ (j \in DOMAIN artifacts /\ artifacts[j].ended)]

StoreArtifact(r) ==
    artifacts' = [j \in DOMAIN artifacts \cup {runner[r].job} |->
                     IF j = runner[r].job THEN Artifact(r) ELSE artifacts[j]]

(* Mutant of ExportPut: a refused put is taken for a stored artifact. *)
ExportPutIgnored(r) ==
    /\ runner[r].pc = "put"
    /\ IF Protected(runner[r].job) THEN UNCHANGED artifacts ELSE StoreArtifact(r)
    /\ runner' = [runner EXCEPT ![r].pc = "complete"]
    /\ UNCHANGED <<vars, jobs>>

(* The artifact is written, unless the key holds one under retention; one  *)
(* that is not, or no longer, is overwritten.                              *)
ExportPut(r) ==
    /\ runner[r].pc = "put"
    /\ \/ /\ ~Protected(runner[r].job)
          /\ StoreArtifact(r)
          /\ runner' = [runner EXCEPT ![r].pc = "complete"]
       \/ /\ Protected(runner[r].job)
          /\ runner' = [runner EXCEPT ![r].pc = "fail"]
          /\ UNCHANGED artifacts
    /\ UNCHANGED <<vars, jobs>>

ExportPutFails(r) ==
    /\ runner[r].pc = "put"
    /\ Fault
    /\ \/ UNCHANGED artifacts
       \/ ~Protected(runner[r].job) /\ StoreArtifact(r)
    /\ runner' = [runner EXCEPT ![r].pc = "fail"]
    /\ UNCHANGED <<logVars, sweepVars, jobs>>

(* Time passes the retention of an artifact. *)
ArtifactRetentionEnds(j) ==
    /\ Protected(j)
    /\ artifacts' = [artifacts EXCEPT ![j].locked = FALSE, ![j].ended = TRUE]
    /\ UNCHANGED <<vars, jobs, runner>>

(* UpdateJob writes the fields of the result, not those of the request.    *)
(* Postgres refuses an empty anchor id, for the same reason as above.      *)
UpdateJob(j, result) ==
    IF backend = "postgres" /\ ~result.anchor THEN UNCHANGED jobs
    ELSE jobs' = [jobs EXCEPT ![j] = [result EXCEPT !.query = jobs[j].query, !.days = jobs[j].days]]

EndJob(r) == runner' = [runner EXCEPT ![r] = NoRun(r)]

ExportComplete(r) ==
    /\ runner[r].pc = "complete"
    /\ UpdateJob(runner[r].job, [status |-> "COMPLETE", query |-> {}, days |-> 0,
                                 rows |-> Len(runner[r].list), ref |-> TRUE,
                                 root |-> runner[r].root, anchor |-> runner[r].anchor])
    /\ EndJob(r)
    /\ UNCHANGED <<vars, artifacts>>

ExportFail(r) ==
    /\ runner[r].pc = "fail"
    /\ UpdateJob(runner[r].job, [status |-> "FAILED", query |-> {}, days |-> 0,
                                 rows |-> 0, ref |-> FALSE,
                                 root |-> NilHash, anchor |-> FALSE])
    /\ EndJob(r)
    /\ UNCHANGED <<vars, artifacts>>

(* The process dies, the context is cancelled or UpdateJob fails: the job  *)
(* stays as it is.                                                         *)
ExportAbandoned(r) ==
    /\ runner[r].pc # "idle"
    /\ Fault
    /\ EndJob(r)
    /\ UNCHANGED <<logVars, sweepVars, jobs, artifacts>>

ExportStep(r) ==
    \/ ExportPage(r) \/ ExportListFails(r) \/ ExportSign(r) \/ ExportSignFails(r)
    \/ ExportPut(r) \/ ExportPutFails(r) \/ ExportComplete(r) \/ ExportFail(r)
    \/ ExportAbandoned(r)

ExportNext ==
    \/ SweepNext /\ UNCHANGED exportVars
    \/ \E j \in Jobs, f \in Filters, n \in Retentions : CreateJob(j, f, n)
    \/ \E j \in Jobs : ArtifactRetentionEnds(j)
    \/ \E r \in Runners : ExportStep(r) \/ \E j \in Jobs : TakeJob(r, j)

ExportSpec == ExportInit /\ [][ExportNext]_allVars

-----------------------------------------------------------------------------
(* A complete job has its artifact in the bucket and describes it, row     *)
(* count and chain root, although two runners may have worked on it, as    *)
(* long as the key was never without protection (after that a second       *)
(* artifact may replace the one described); and the anchor the job names   *)
(* was inserted.                                                           *)
CompleteMatchesArtifact ==
    \A j \in DOMAIN jobs : jobs[j].status = "COMPLETE" =>
        /\ j \in DOMAIN artifacts
        /\ ~artifacts[j].ended =>
              jobs[j].rows = Len(artifacts[j].rows) /\ jobs[j].root = artifacts[j].root
        /\ jobs[j].anchor => \E a \in anchors : a.last = 0 /\ a.root = jobs[j].root

(* An artifact over all fields holds every row of its window that was      *)
(* there when the job was taken, and on an untampered log in order its     *)
(* root is the hash of its last row.                                       *)
ArtifactProves(j) ==
    LET rows == artifacts[j].rows IN
    /\ artifacts[j].present \subseteq {rows[k].id : k \in DOMAIN rows}
    /\ alterations = {} /\ Linked(index) /\ rows # << >> =>
          artifacts[j].root = rows[Len(rows)].row.thisHash

ArtifactsProve ==
    \A j \in DOMAIN artifacts : jobs[j].query.fields = AnyFields => ArtifactProves(j)

(* The same of every artifact, filtered ones included. *)
FilteredArtifactsProve == \A j \in DOMAIN artifacts : ArtifactProves(j)
=============================================================================
