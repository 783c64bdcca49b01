------------------------------- MODULE Sweep --------------------------------
(***************************************************************************)
(* chain.Sweep, the integrity sweep of the admin endpoint: it lists the    *)
(* rows of a window page by page, walks the chain over them and compares   *)
(* the anchors of the window with the rows they name.  Meanwhile events    *)
(* are ingested and anchored, and a stored row may be altered behind the   *)
(* service's back.  Ingest and anchoring are one step each here: what      *)
(* their own steps add to the index is the subject of AuditLog.            *)
(***************************************************************************)
EXTENDS Listing

CONSTANTS
    Events,          \* what may be ingested: [id, ts, fields]
    Windows,         \* windows swept: [from, to]
    Now,             \* the latest time anchors are stamped with
    PageLimit,       \* rows per page: 1000
    Backends,        \* implementations of the stores: "memory", "postgres"
    MaxAlterations,  \* bound: rows altered
    MaxAnchors,      \* bound: anchors inserted by the anchor job
    MaxSweeps,       \* bound: sweeps that run to their report
    MaxFaults        \* bound: failed calls

ASSUME SweepAssumption ==
    /\ \A e \in Events : e.id \in Nat \ {0} /\ e.ts \in 1..Now /\ e.fields # "altered"
    /\ \A d, e \in Events : d.id = e.id => d = e
    /\ \A win \in Windows : win.from \in Nat /\ win.to \in Nat
    /\ Now \in Nat /\ PageLimit \in Nat \ {0}
    /\ Backends \subseteq {"memory", "postgres"} /\ Backends # {}
    /\ {MaxAlterations, MaxAnchors, MaxSweeps, MaxFaults} \subseteq Nat

VARIABLES
    backend,      \* the implementation this process was built with
    index,        \* audit_events
    anchors,      \* chain_anchors: [last, root, at]; last = 0: none
    alterations,  \* history: the rows altered, [id, kind, last]
    faults,       \* faults so far
    sweep,        \* the sweep in progress, and of its history: unlisted,
                  \* failed (calls about anchors), present, altered, exposed
    report,       \* the report of the last one that finished
    sweeps        \* reports so far

logVars == <<backend, index, anchors, alterations>>
sweepVars == <<sweep, report, sweeps>>
vars == <<logVars, faults, sweepVars>>

NoReport == [status |-> "none"]

Idle == [pc |-> "idle", window |-> [from |-> 0, to |-> 0, fields |-> AnyFields],
         cursor |-> NoCursor, list |-> << >>, todo |-> {}, mismatched |-> {},
         failed |-> {}, unlisted |-> FALSE, present |-> {}, altered |-> {}, exposed |-> {}]

Fault == faults < MaxFaults /\ faults' = faults + 1

(* AnchoredAt is never set by the callers: memory stamps the time of the   *)
(* insert, Postgres stores the zero time it is given.                      *)
Stamps(ts) == IF backend = "postgres" THEN {0} ELSE ts..Now

-----------------------------------------------------------------------------
Init ==
    /\ backend \in Backends
    /\ index = EmptyIndex
    /\ anchors = {}
    /\ alterations = {}
    /\ faults = 0
    /\ sweep = Idle
    /\ report = NoReport
    /\ sweeps = 0

(* One event goes through the pipeline undisturbed: its row links to the   *)
(* head, whether or not the head is listed before it.                      *)
IngestEvent(e) ==
    LET prev == IF DOMAIN index = {} THEN ZeroHash ELSE index[ChainHead(index)].thisHash
        hash == HashPayload("plain")
    IN  /\ e.id \notin DOMAIN index
        /\ index' = Insert(index, e.id,
              [ts |-> e.ts, fields |-> e.fields, payloadHash |-> hash, prevHash |-> prev,
               thisHash |-> CanonicalHash(e.id, e.ts, e.fields, hash, prev)])
        /\ UNCHANGED <<backend, anchors, alterations, faults, sweepVars>>

(* The anchor job signs the head; the anchored flags are left out here.    *)
AnchorHead ==
    /\ DOMAIN index # {}
    /\ Cardinality({a \in anchors : a.last # 0}) < MaxAnchors
    /\ LET h == ChainHead(index) IN
          \E at \in Stamps(index[h].ts) :
              anchors' = anchors \cup {[last |-> h, root |-> index[h].thisHash, at |-> at]}
    /\ UNCHANGED <<backend, index, alterations, faults, sweepVars>>

(* What TamperForTest does in the tests, to one row: "changed" and         *)
(* "replaced" leave this_hash wrong; "severed" and "rewritten" compute it  *)
(* anew after changing prev_hash or another field.                         *)
Altered(i, kind) ==
    LET row == index[i]
        new == [row EXCEPT !.fields = IF kind \in {"changed", "rewritten"} THEN "altered" ELSE @,
                           !.prevHash = IF kind = "severed" THEN <<"severed">> ELSE @]
    IN  [new EXCEPT !.thisHash =
            CASE kind = "replaced" -> <<"replaced">>
              [] kind = "changed" -> row.thisHash
              [] OTHER -> EventHash(i, new)]

Alter(i, kind) ==
    /\ Cardinality(alterations) < MaxAlterations
    /\ i \in DOMAIN index
    /\ index' = [index EXCEPT ![i] = Altered(i, kind)]
    /\ alterations' = alterations \cup {[id |-> i, kind |-> kind, last |-> IsHead(index, i)]}
    /\ UNCHANGED <<backend, anchors, faults, sweepVars>>

-----------------------------------------------------------------------------
(* The sweep. *)

StartSweep(win) ==
    /\ sweep.pc = "idle"
    /\ sweeps < MaxSweeps
    /\ LET f == [from |-> win.from, to |-> win.to, fields |-> AnyFields] IN
          sweep' = [Idle EXCEPT !.pc = "list", !.window = f,
                                !.present = {i \in DOMAIN index : Matches(index, i, f)},
                                !.altered = alterations,
                                !.exposed = {a \in anchors : a.last \in DOMAIN index
                                                /\ index[a.last].thisHash # a.root}]
    /\ UNCHANGED <<logVars, faults, report, sweeps>>

(* Where a reader of pages goes next: on when the page had rows and gave a *)
(* cursor.                                                                 *)
Continues(f, c) ==
    NextCursor(backend, index, f, c, PageLimit) # NoCursor

SweepPage ==
    /\ sweep.pc = "list"
    /\ sweep' = [sweep EXCEPT
          !.list = @ \o Page(index, sweep.window, sweep.cursor, PageLimit),
          !.cursor = NextCursor(backend, index, sweep.window, sweep.cursor, PageLimit),
          !.pc = IF Continues(sweep.window, sweep.cursor) THEN "list" ELSE "anchors"]
    /\ UNCHANGED <<logVars, faults, report, sweeps>>

(* List fails, or the request is cancelled: no report. *)
SweepFails ==
    /\ sweep.pc = "list"
    /\ Fault
    /\ sweep' = Idle
    /\ UNCHANGED <<logVars, report, sweeps>>

(* Mutant of InAnchorWindow: the end of the window is not in it. *)
EndExcluded(a) == a.at >= sweep.window.from /\ (sweep.window.to # 0 => a.at < sweep.window.to)

(* ListAnchors of the window, both ends included.  An error is ignored:    *)
(* the report then says no anchor was checked.                             *)
InAnchorWindow(a) == a.at >= sweep.window.from /\ (sweep.window.to # 0 => a.at <= sweep.window.to)

SweepListAnchors ==
    /\ sweep.pc = "anchors"
    /\ \/ /\ sweep' = [sweep EXCEPT !.pc = "get", !.todo = {a \in anchors : InAnchorWindow(a)}]
          /\ UNCHANGED faults
       \/ /\ Fault
          /\ sweep' = [sweep EXCEPT !.pc = "get", !.unlisted = TRUE]
    /\ UNCHANGED <<logVars, report, sweeps>>

(* Whether the row an anchor names has the hash that was signed. *)
Mismatch(a) == a.last \notin DOMAIN index \/ index[a.last].thisHash # a.root

(* Get of that row.  A failed call counts as a mismatch. *)
SweepGet(a) ==
    /\ sweep.pc = "get"
    /\ a \in sweep.todo
    /\ \/ /\ sweep' = [sweep EXCEPT !.todo = @ \ {a},
                           !.mismatched = IF Mismatch(a) THEN @ \cup {a} ELSE @]
          /\ UNCHANGED faults
       \/ /\ Fault
          /\ sweep' = [sweep EXCEPT !.todo = @ \ {a}, !.mismatched = @ \cup {a},
                                    !.failed = @ \cup {a}]
    /\ UNCHANGED <<logVars, report, sweeps>>

SweepReport ==
    /\ sweep.pc = "get"
    /\ sweep.todo = {}
    /\ LET walk == VerifyChain(sweep.list) IN
          report' = [status |-> walk.status, position |-> walk.position, root |-> walk.root,
                     walked |-> sweep.list, mismatched |-> sweep.mismatched,
                     failed |-> sweep.failed, unlisted |-> sweep.unlisted,
                     window |-> sweep.window, present |-> sweep.present,
                     altered |-> sweep.altered, exposed |-> sweep.exposed]
    /\ sweep' = Idle
    /\ sweeps' = sweeps + 1
    /\ UNCHANGED <<logVars, faults>>

Environment ==
    \/ \E e \in Events : IngestEvent(e)
    \/ AnchorHead
    \/ \E e \in Events, kind \in {"changed", "replaced", "severed", "rewritten"} : Alter(e.id, kind)

SweepStep ==
    \/ \E win \in Windows : StartSweep(win)
    \/ SweepPage \/ SweepFails \/ SweepListAnchors \/ SweepReport
    \/ \E a \in anchors : SweepGet(a)

SweepNext == Environment \/ SweepStep

SweepSpec == Init /\ [][SweepNext]_vars

-----------------------------------------------------------------------------
Finished == report # NoReport

(* A log of which no row was altered raises no alarm.  A sweep finds its   *)
(* rows in order, in every window and across every page boundary, although *)
(* events arrive while it is walked, provided they are linked in listing   *)
(* order (an event may come late).  And it reports no anchor but those of  *)
(* exports, which name no row, and those whose own Get failed.             *)
NoFalseAlarm ==
    Finished /\ alterations = {} =>
        /\ Linked(index) => report.status = "ok"
        /\ \A a \in report.mismatched : a.last = 0 \/ a \in report.failed

(* Row i was altered in one way at most; a second one could undo it.       *)
Once(i) == \A a, b \in alterations : a.id = i /\ b.id = i => a = b

(* What an ok report may have missed of a row altered before the sweep: a  *)
(* hash computed anew, when nothing in the window tells.  A severed row    *)
(* must be the first of the window; a following row tells unless it was    *)
(* ingested after the alteration or lies beyond the window.                *)
Undetectable(a, walked) ==
    /\ a.kind \in {"severed", "rewritten"}
    /\ a.kind = "severed" => walked[1].id = a.id
    /\ a.last \/ walked[Len(walked)].id = a.id

(* An ok report vouches for every row of its window that was there and had *)
(* been altered when the sweep began, but for the cases above.             *)
FindsAlterations ==
    Finished /\ report.status = "ok" =>
        \A a \in report.altered :
            a.id \in report.present /\ Once(a.id) => Undetectable(a, report.walked)

(* Where the walk cannot tell, anchors do: one stored before the sweep     *)
(* whose row no longer has the hash that was signed is reported, in any    *)
(* window it falls into, whichever Gets fail.  Not when the anchors could  *)
(* not be listed; and on Postgres, where they have no time, only a sweep   *)
(* from the beginning sees them.                                           *)
AnchorsTell ==
    Finished /\ ~report.unlisted =>
        \A a \in report.exposed :
            LET win == report.window IN
            /\ Once(a.last)
            /\ backend = "memory" => win.from <= a.at /\ win.to \in {0} \cup a.at..Now
            /\ backend = "postgres" => win.from = 0
            => a \in report.mismatched

(* A sweep walks every row of the window that was there when it began,     *)
(* each once and in listing order, whatever is ingested between its pages  *)
(* and whichever implementation cuts the pages.                            *)
WalksWindow ==
    Finished =>
        /\ report.present \subseteq {report.walked[k].id : k \in DOMAIN report.walked}
        /\ \A k, l \in DOMAIN report.walked : k < l =>
              LET x == report.walked[k]
                  y == report.walked[l]
              IN  x.id # y.id /\ NotLater(x.row.ts, x.id, y.row.ts, y.id)
        /\ \A k \in DOMAIN report.walked : InWindow(report.walked[k].row.ts, report.window)

(* The verify endpoint does not vouch for an altered row, even where its   *)
(* one page of earlier rows stops short of the predecessor: only a row     *)
(* rewritten with its hash computed anew passes, and then the endpoint     *)
(* refuses every row it takes to follow that one.                          *)
EndpointTells ==
    \A a \in alterations : Once(a.id) =>
        /\ a.kind # "rewritten" => EndpointVerdict(index, a.id, PageLimit) # "ok"
        /\ a.kind = "rewritten" /\ ~a.last =>
              \A i \in DOMAIN index \ {a.id} :
                  PrecedingHash(index, i, PageLimit) = index[a.id].thisHash =>
                      EndpointVerdict(index, i, PageLimit) # "ok"

(* Which rows of an unaltered log, linked in order, the endpoint refuses:  *)
(* those with a row of the same timestamp listed before them, and those    *)
(* with more earlier rows than fit its page.  Exactly the others are ok.   *)
EndpointExact ==
    alterations = {} /\ Linked(index) =>
        \A i \in DOMAIN index :
            LET listedBefore == {j \in DOMAIN index \ {i} : RowNotLater(index, j, i)}
                earlier == {j \in DOMAIN index : index[j].ts < index[i].ts}
            IN  EndpointVerdict(index, i, PageLimit) = "ok" <=>
                    listedBefore = earlier /\ Cardinality(earlier) <= PageLimit

(* The endpoint finds every row of an untampered log ok. *)
EndpointAccepts ==
    Linked(index) => \A i \in DOMAIN index : EndpointVerdict(index, i, PageLimit) = "ok"
=============================================================================
