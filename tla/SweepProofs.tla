---------------------------- MODULE SweepProofs -----------------------------
(***************************************************************************)
(* Theorems about Sweep and Exports: what a reader of pages sees while     *)
(* events are ingested, and what its report or artifact may say.           *)
(***************************************************************************)
EXTENDS Exports, ListingProofs

-----------------------------------------------------------------------------
(* The log: rows keep their times; what was never altered is as computed,  *)
(* and the anchors of the anchor job name rows with the hash they signed.  *)

IsRow(row) ==
    row = [ts |-> row.ts, fields |-> row.fields, payloadHash |-> row.payloadHash,
           prevHash |-> row.prevHash, thisHash |-> row.thisHash]

RowInv == Sorted(index) /\ \A i \in DOMAIN index : IsRow(index[i])

TrueInv ==
    alterations = {} =>
        /\ HashesRight(index) /\ KnownLinks(index)
        /\ \A a \in anchors : a.last # 0 => ~Mismatch(a)

LogInv == RowInv /\ TrueInv

LogMoves == MovesOn(index, alterations, index', alterations')

(* The sweep. *)

IsWindow(f) == f.from \in Nat /\ f.to \in Nat /\ f.fields = AnyFields

StateInv ==
    /\ DOMAIN sweep = DOMAIN Idle
    /\ sweep.pc \in {"idle", "list", "anchors", "get"}
    /\ IsWindow(sweep.window)

WalkInv ==
    /\ sweep.pc = "list" =>
          Reading(index, sweep.window, sweep.cursor, sweep.list, sweep.present)
    /\ sweep.pc \in {"anchors", "get"} =>
          Read(index, sweep.window, sweep.list, sweep.present)
    /\ sweep.pc # "idle" => Unbroken(index, alterations, sweep.window, sweep.list)

(* Only export anchors, which name no row, mismatch, and those not got.    *)
GetInv ==
    /\ sweep.todo \subseteq anchors
    /\ alterations = {} => \A a \in sweep.mismatched : a.last = 0 \/ a \in sweep.failed

ReportInv ==
    Finished =>
        /\ Read(index, report.window, report.walked, report.present)
        /\ report.window.fields = AnyFields
        /\ alterations = {} /\ Linked(index) => report.status = "ok"
        /\ alterations = {} => \A a \in report.mismatched : a.last = 0 \/ a \in report.failed

SweepInv == LogInv /\ StateInv /\ WalkInv /\ GetInv /\ ReportInv

-----------------------------------------------------------------------------
(* The steps of the log.                                                   *)

LEMMA Stays ==
    ASSUME NEW idx, NEW alt
    PROVE  MovesOn(idx, alt, idx, alt)
BY DEF MovesOn, Grows

LEMMA IngestLog ==
    ASSUME SweepAssumption, LogInv, NEW e \in Events, IngestEvent(e)
    PROVE  LogInv' /\ LogMoves
<1>. DEFINE prev == IF DOMAIN index = {} THEN ZeroHash ELSE index[ChainHead(index)].thisHash
            hash == HashPayload("plain")
            row == [ts |-> e.ts, fields |-> e.fields, payloadHash |-> hash, prevHash |-> prev,
                    thisHash |-> CanonicalHash(e.id, e.ts, e.fields, hash, prev)]
<1>1. /\ e.id \notin DOMAIN index /\ index' = Insert(index, e.id, row)
      /\ UNCHANGED <<anchors, alterations, faults>>
  BY DEF IngestEvent
<1>2. /\ row.ts = e.ts /\ row.prevHash = prev /\ EventHash(e.id, row) = row.thisHash
      /\ IsRow(row)
  BY DEF EventHash, IsRow
<1>3. e.id \in Nat /\ row.ts \in Nat \ {0}
  BY <1>2 DEF SweepAssumption
<1>. HIDE DEF row
<1>4. Sorted(index') /\ Grows(index, index')
  BY <1>1, <1>3, InsertGrows DEF LogInv, RowInv
<1>5. ASSUME alterations = {}
      PROVE  /\ HashesRight(index') /\ KnownLinks(index')
             /\ Linked(index') => Linked(index)
             /\ \A list : Intact(index, list) => Intact(index', list)
  BY <1>1, <1>2, <1>3, <1>5, InsertLinks DEF LogInv, RowInv, TrueInv
<1>6. DOMAIN index' = DOMAIN index \cup {e.id}
  BY <1>1 DEF Insert
<1>7. \A i \in DOMAIN index' : index'[i] = IF i \in DOMAIN index THEN index[i] ELSE row
  BY <1>1 DEF Insert
<1>8. RowInv'
  BY <1>2, <1>4, <1>6, <1>7 DEF LogInv, RowInv
<1>9. TrueInv'
  BY <1>1, <1>5, <1>6, <1>7 DEF LogInv, TrueInv, Mismatch
<1>10. LogMoves
  BY <1>1, <1>4, <1>5 DEF LogMoves, MovesOn
<1>. QED  BY <1>1, <1>8, <1>9, <1>10 DEF LogInv

LEMMA AnchorLog ==
    ASSUME LogInv, AnchorHead
    PROVE  LogInv' /\ LogMoves
<1>. DEFINE h == ChainHead(index)
<1>1. /\ DOMAIN index # {} /\ UNCHANGED <<index, alterations, faults>>
      /\ \A a \in anchors' : a \in anchors \/ (a.last = h /\ a.root = index[h].thisHash)
  BY DEF AnchorHead
<1>2. h \in DOMAIN index
  BY <1>1, HeadExists DEF LogInv, RowInv, IsHead
<1>. HIDE DEF h
<1>3. TrueInv'
  <2>1. ASSUME alterations = {}, NEW a \in anchors', a.last # 0 PROVE ~Mismatch(a)
    <3>1. CASE a \in anchors
      BY <2>1, <3>1 DEF LogInv, TrueInv
    <3>2. CASE a.last = h /\ a.root = index[h].thisHash
      BY <1>2, <3>2 DEF Mismatch
    <3>. QED  BY <1>1, <2>1, <3>1, <3>2
  <2>. QED  BY <1>1, <2>1 DEF LogInv, TrueInv, Mismatch
<1>. QED  BY <1>1, <1>3, Stays DEF LogInv, RowInv, LogMoves

(* The row that an alteration writes. *)
LEMMA AlteredRow ==
    ASSUME NEW i, NEW kind, IsRow(index[i])
    PROVE  LET row == index[i]
               new == Altered(i, kind)
           IN  /\ IsRow(new) /\ new.ts = row.ts /\ new.payloadHash = row.payloadHash
               /\ new.fields = IF kind \in {"changed", "rewritten"} THEN "altered" ELSE row.fields
               /\ new.prevHash = IF kind = "severed" THEN <<"severed">> ELSE row.prevHash
               /\ new.thisHash = IF kind = "replaced" THEN <<"replaced">>
                                 ELSE IF kind = "changed" THEN row.thisHash ELSE EventHash(i, new)
<1>. DEFINE row == index[i]
            fields == IF kind \in {"changed", "rewritten"} THEN "altered" ELSE row.fields
            prev == IF kind = "severed" THEN <<"severed">> ELSE row.prevHash
            mid == [row EXCEPT !.fields = fields, !.prevHash = prev]
            hash == IF kind = "replaced" THEN <<"replaced">>
                    ELSE IF kind = "changed" THEN row.thisHash ELSE EventHash(i, mid)
            new == Altered(i, kind)
<1>1. new = [mid EXCEPT !.thisHash = hash]
  BY DEF Altered
<1>. HIDE DEF new, fields, prev
<1>2. mid = [ts |-> row.ts, fields |-> fields, payloadHash |-> row.payloadHash,
             prevHash |-> prev, thisHash |-> row.thisHash]
  <2>. DEFINE one == [row EXCEPT !.fields = fields]
  <2>1. mid = [one EXCEPT !.prevHash = prev]
    OBVIOUS
  <2>2. one = [ts |-> row.ts, fields |-> fields, payloadHash |-> row.payloadHash,
               prevHash |-> row.prevHash, thisHash |-> row.thisHash]
    BY DEF IsRow
  <2>. HIDE DEF one, mid, row
  <2>. QED  BY <2>1, <2>2
<1>. HIDE DEF mid, hash
<1>3. new = [ts |-> row.ts, fields |-> fields, payloadHash |-> row.payloadHash,
             prevHash |-> prev, thisHash |-> hash]
  BY <1>1, <1>2
<1>4. EventHash(i, mid) = EventHash(i, new)
  BY <1>2, <1>3 DEF EventHash
<1>. HIDE DEF row
<1>5. /\ IsRow(new) /\ new.ts = row.ts /\ new.payloadHash = row.payloadHash
      /\ new.fields = fields /\ new.prevHash = prev /\ new.thisHash = hash
  BY <1>3 DEF IsRow
<1>. QED  BY <1>4, <1>5 DEF row, fields, prev, hash, new

LEMMA AlterLog ==
    ASSUME LogInv, NEW i, NEW kind, Alter(i, kind)
    PROVE  LogInv' /\ LogMoves
<1>1. /\ i \in DOMAIN index /\ index' = [index EXCEPT ![i] = Altered(i, kind)]
      /\ alterations' # {} /\ UNCHANGED <<anchors, faults>>
  BY DEF Alter
<1>2. IsRow(Altered(i, kind)) /\ Altered(i, kind).ts = index[i].ts
  BY <1>1, AlteredRow DEF LogInv, RowInv
<1>3. DOMAIN index' = DOMAIN index
  BY <1>1
<1>4. \A j \in DOMAIN index : index'[j] = IF j = i THEN Altered(i, kind) ELSE index[j]
  BY <1>1
<1>5. \A j \in DOMAIN index : IsRow(index'[j]) /\ index'[j].ts = index[j].ts
  BY <1>2, <1>4 DEF LogInv, RowInv
<1>. QED  BY <1>1, <1>3, <1>5 DEF LogInv, RowInv, TrueInv, LogMoves, MovesOn, Grows, Sorted

(* Every step leaves the log so and moves it on. *)
LEMMA LogSteps ==
    ASSUME SweepAssumption, LogInv, [SweepNext]_vars
    PROVE  /\ LogInv' /\ LogMoves /\ anchors \subseteq anchors'
           /\ UNCHANGED sweepVars \/ UNCHANGED logVars
<1>1. CASE \E e \in Events : IngestEvent(e)
  <2>1. PICK e \in Events : IngestEvent(e)
    BY <1>1
  <2>2. LogInv' /\ LogMoves
    BY <2>1, IngestLog
  <2>. QED  BY <2>1, <2>2 DEF IngestEvent
<1>2. CASE AnchorHead
  <2>1. LogInv' /\ LogMoves
    BY <1>2, AnchorLog
  <2>. QED  BY <1>2, <2>1 DEF AnchorHead
<1>3. CASE \E e \in Events, kind \in {"changed", "replaced", "severed", "rewritten"} : Alter(e.id, kind)
  <2>1. PICK i, kind : Alter(i, kind)
    BY <1>3
  <2>2. LogInv' /\ LogMoves
    BY <2>1, AlterLog
  <2>. QED  BY <2>1, <2>2 DEF Alter
<1>4. CASE SweepStep \/ UNCHANGED vars
  <2>1. UNCHANGED logVars
    BY <1>4 DEF SweepStep, StartSweep, SweepPage, SweepFails, SweepListAnchors, SweepGet,
                SweepReport, vars
  <2>2. LogInv'
    BY <2>1 DEF LogInv, RowInv, TrueInv, Mismatch, logVars
  <2>3. LogMoves
    BY <2>1, Stays DEF LogMoves, logVars
  <2>. QED  BY <2>1, <2>2, <2>3 DEF logVars
<1>. QED  BY <1>1, <1>2, <1>3, <1>4 DEF SweepNext, Environment

-----------------------------------------------------------------------------
(* The sweep while the log moves on.                                       *)

LEMMA SweepKept ==
    ASSUME SweepInv, LogInv', LogMoves, anchors \subseteq anchors', UNCHANGED sweepVars
    PROVE  SweepInv'
<1>1. UNCHANGED <<sweep, report>>
  BY DEF sweepVars
<1>2. Grows(index, index')
  BY DEF LogMoves, MovesOn
<1>3. alterations' = {} => alterations = {} /\ (Linked(index') => Linked(index))
  BY DEF LogMoves, MovesOn
<1>4. StateInv'
  BY <1>1 DEF SweepInv, StateInv
<1>5. WalkInv'
  <2>1. sweep.pc = "list" => Reading(index', sweep.window, sweep.cursor, sweep.list, sweep.present)
    BY <1>2, ReadingGrows DEF SweepInv, WalkInv
  <2>2. sweep.pc \in {"anchors", "get"} => Read(index', sweep.window, sweep.list, sweep.present)
    BY <1>2, ReadGrows DEF SweepInv, WalkInv
  <2>3. sweep.pc # "idle" => Unbroken(index', alterations', sweep.window, sweep.list)
    BY UnbrokenMoves DEF SweepInv, WalkInv, LogMoves
  <2>. QED  BY <1>1, <2>1, <2>2, <2>3 DEF WalkInv
<1>6. GetInv'
  BY <1>1, <1>3 DEF SweepInv, GetInv
<1>7. ReportInv'
  <2>1. Finished => Read(index', report.window, report.walked, report.present)
    BY <1>2, ReadGrows DEF SweepInv, ReportInv
  <2>. QED  BY <1>1, <1>3, <2>1 DEF SweepInv, ReportInv, Finished
<1>. QED  BY <1>4, <1>5, <1>6, <1>7 DEF SweepInv

LEMMA StartKeeps ==
    ASSUME SweepAssumption, SweepInv, NEW win \in Windows, StartSweep(win), LogInv'
    PROVE  SweepInv'
<1>. DEFINE f == [from |-> win.from, to |-> win.to, fields |-> AnyFields]
            present == {i \in DOMAIN index : Matches(index, i, f)}
<1>1. /\ DOMAIN sweep' = DOMAIN Idle
      /\ sweep'.pc = "list" /\ sweep'.window = f /\ sweep'.cursor = NoCursor
      /\ sweep'.list = << >> /\ sweep'.present = present
      /\ sweep'.todo = {} /\ sweep'.mismatched = {}
      /\ UNCHANGED <<index, anchors, alterations, report>>
  BY DEF StartSweep, Idle, logVars
<1>2. IsWindow(f)
  BY DEF SweepAssumption, IsWindow
<1>. HIDE DEF f
<1>3. Reading(index, f, NoCursor, << >>, present)
  BY ReadingStarts DEF SweepInv, LogInv, RowInv
<1>4. Unbroken(index, alterations, f, << >>)
  BY UnbrokenStarts
<1>. HIDE DEF present
<1>5. StateInv' /\ WalkInv' /\ GetInv'
  BY <1>1, <1>2, <1>3, <1>4 DEF StateInv, WalkInv, GetInv
<1>6. ReportInv'
  BY <1>1 DEF SweepInv, ReportInv, Finished
<1>. QED  BY <1>5, <1>6 DEF SweepInv

LEMMA PageKeeps ==
    ASSUME SweepAssumption, SweepInv, SweepPage, LogInv'
    PROVE  SweepInv'
<1>. DEFINE more == sweep.list \o Page(index, sweep.window, sweep.cursor, PageLimit)
            d == NextCursor(backend, index, sweep.window, sweep.cursor, PageLimit)
<1>1. /\ sweep.pc = "list"
      /\ DOMAIN sweep' = DOMAIN Idle
      /\ sweep'.pc = (IF d # NoCursor THEN "list" ELSE "anchors")
      /\ sweep'.list = more /\ sweep'.cursor = d
      /\ sweep'.window = sweep.window /\ sweep'.present = sweep.present
      /\ sweep'.todo = sweep.todo /\ sweep'.mismatched = sweep.mismatched
      /\ sweep'.failed = sweep.failed
      /\ UNCHANGED <<index, anchors, alterations, report>>
  BY DEF SweepPage, Continues, logVars, SweepInv, StateInv, Idle
<1>2. IsWindow(sweep.window)
  BY DEF SweepInv, StateInv
<1>3. PageLimit \in Nat \ {0}
  BY DEF SweepAssumption
<1>4. Reading(index, sweep.window, sweep.cursor, sweep.list, sweep.present)
  BY <1>1 DEF SweepInv, WalkInv
<1>5. IF d # NoCursor THEN Reading(index, sweep.window, d, more, sweep.present)
                      ELSE Read(index, sweep.window, more, sweep.present)
  BY <1>3, <1>4, ReadingPage DEF SweepInv, LogInv, RowInv
<1>6. Unbroken(index, alterations, sweep.window, more)
  BY <1>1, <1>2, <1>3, <1>4, UnbrokenPage DEF SweepInv, LogInv, RowInv, TrueInv, WalkInv, IsWindow
<1>. HIDE DEF more, d
<1>7. StateInv' /\ WalkInv' /\ GetInv'
  BY <1>1, <1>2, <1>5, <1>6 DEF SweepInv, StateInv, WalkInv, GetInv
<1>8. ReportInv'
  BY <1>1 DEF SweepInv, ReportInv, Finished
<1>. QED  BY <1>7, <1>8 DEF SweepInv

(* A window without bounds is one: what the idle sweep holds. *)
LEMMA FailsKeeps ==
    ASSUME SweepInv, SweepFails, LogInv'
    PROVE  SweepInv'
<1>1. sweep' = Idle /\ UNCHANGED <<index, anchors, alterations, report>>
  BY DEF SweepFails, logVars
<1>2. StateInv' /\ WalkInv' /\ GetInv'
  BY <1>1 DEF StateInv, WalkInv, GetInv, Idle, IsWindow
<1>3. ReportInv'
  BY <1>1 DEF SweepInv, ReportInv, Finished
<1>. QED  BY <1>2, <1>3 DEF SweepInv

LEMMA ListAnchorsKeeps ==
    ASSUME SweepInv, SweepListAnchors, LogInv'
    PROVE  SweepInv'
<1>1. /\ sweep.pc = "anchors" /\ sweep'.pc = "get"
      /\ DOMAIN sweep' = DOMAIN Idle
      /\ sweep'.list = sweep.list /\ sweep'.cursor = sweep.cursor
      /\ sweep'.window = sweep.window /\ sweep'.present = sweep.present
      /\ sweep'.todo \subseteq anchors /\ sweep'.mismatched = sweep.mismatched
      /\ sweep'.failed = sweep.failed
      /\ UNCHANGED <<index, anchors, alterations, report>>
  <2>1. DOMAIN sweep = DOMAIN Idle /\ sweep.todo \subseteq anchors
    BY DEF SweepInv, StateInv, GetInv
  <2>2. sweep.pc = "anchors" /\ UNCHANGED <<index, anchors, alterations, report>>
    BY DEF SweepListAnchors, logVars
  <2>3. CASE sweep' = [sweep EXCEPT !.pc = "get", !.todo = {a \in anchors : InAnchorWindow(a)}]
    BY <2>1, <2>2, <2>3 DEF Idle
  <2>4. CASE sweep' = [sweep EXCEPT !.pc = "get", !.unlisted = TRUE]
    BY <2>1, <2>2, <2>4 DEF Idle
  <2>. QED  BY <2>3, <2>4 DEF SweepListAnchors
<1>2. StateInv' /\ WalkInv' /\ GetInv'
  BY <1>1 DEF SweepInv, StateInv, WalkInv, GetInv
<1>3. ReportInv'
  BY <1>1 DEF SweepInv, ReportInv, Finished
<1>. QED  BY <1>2, <1>3 DEF SweepInv

LEMMA GetKeeps ==
    ASSUME SweepInv, NEW a \in anchors, SweepGet(a), LogInv'
    PROVE  SweepInv'
<1>1. /\ sweep.pc = "get" /\ sweep'.pc = "get"
      /\ DOMAIN sweep' = DOMAIN Idle
      /\ sweep'.list = sweep.list /\ sweep'.cursor = sweep.cursor
      /\ sweep'.window = sweep.window /\ sweep'.present = sweep.present
      /\ sweep'.todo \subseteq sweep.todo /\ sweep.failed \subseteq sweep'.failed
      /\ UNCHANGED <<index, anchors, alterations, report>>
      /\ \A b \in sweep'.mismatched :
            b \in sweep.mismatched \/ (b = a /\ (Mismatch(a) \/ a \in sweep'.failed))
  <2>. DEFINE M == IF Mismatch(a) THEN sweep.mismatched \cup {a} ELSE sweep.mismatched
  <2>1. DOMAIN sweep = DOMAIN Idle
    BY DEF SweepInv, StateInv
  <2>2. sweep.pc = "get" /\ UNCHANGED <<index, anchors, alterations, report>>
    BY DEF SweepGet, logVars
  <2>3. \A b \in M : b \in sweep.mismatched \/ (b = a /\ Mismatch(a))
    OBVIOUS
  <2>4. \/ sweep' = [sweep EXCEPT !.todo = @ \ {a}, !.mismatched = M]
        \/ sweep' = [sweep EXCEPT !.todo = @ \ {a}, !.mismatched = @ \cup {a},
                                  !.failed = @ \cup {a}]
    BY DEF SweepGet
  <2>. HIDE DEF M
  <2>5. CASE sweep' = [sweep EXCEPT !.todo = @ \ {a}, !.mismatched = M]
    BY <2>1, <2>2, <2>3, <2>5 DEF Idle
  <2>6. CASE sweep' = [sweep EXCEPT !.todo = @ \ {a}, !.mismatched = @ \cup {a},
                                    !.failed = @ \cup {a}]
    BY <2>1, <2>2, <2>6 DEF Idle
  <2>. QED  BY <2>4, <2>5, <2>6
<1>2. ASSUME alterations = {}, NEW b \in sweep'.mismatched PROVE b.last = 0 \/ b \in sweep'.failed
  BY <1>1, <1>2 DEF SweepInv, GetInv, LogInv, TrueInv
<1>3. StateInv' /\ WalkInv' /\ GetInv'
  BY <1>1, <1>2 DEF SweepInv, StateInv, WalkInv, GetInv
<1>4. ReportInv'
  BY <1>1 DEF SweepInv, ReportInv, Finished
<1>. QED  BY <1>3, <1>4 DEF SweepInv

LEMMA ReportKeeps ==
    ASSUME SweepInv, SweepReport, LogInv'
    PROVE  SweepInv'
<1>. DEFINE walk == VerifyChain(sweep.list)
<1>1. /\ sweep.pc = "get" /\ sweep' = Idle
      /\ report' = [status |-> walk.status, position |-> walk.position, root |-> walk.root,
                    walked |-> sweep.list, mismatched |-> sweep.mismatched,
                    failed |-> sweep.failed, unlisted |-> sweep.unlisted,
                    window |-> sweep.window, present |-> sweep.present,
                    altered |-> sweep.altered, exposed |-> sweep.exposed]
      /\ UNCHANGED <<index, anchors, alterations>>
  BY DEF SweepReport, logVars
<1>2. /\ report'.status = walk.status /\ report'.walked = sweep.list
      /\ report'.mismatched = sweep.mismatched /\ report'.window = sweep.window
      /\ report'.present = sweep.present /\ report'.failed = sweep.failed
  BY <1>1
<1>3. Read(index, sweep.window, sweep.list, sweep.present)
  BY <1>1 DEF SweepInv, WalkInv
<1>4. ASSUME alterations = {}, Linked(index) PROVE walk.status = "ok"
  <2>1. IsList(sweep.list) /\ sweep.window.fields = AnyFields
    BY <1>3 DEF Read, SweepInv, StateInv, IsWindow
  <2>2. Unbroken(index, {}, sweep.window, sweep.list)
    BY <1>1, <1>4 DEF SweepInv, WalkInv
  <2>3. HashesRight(index)
    BY <1>4 DEF SweepInv, LogInv, TrueInv
  <2>. QED  BY <1>4, <2>1, <2>2, <2>3, UnbrokenIsOk
<1>. HIDE DEF walk
<1>5. ReportInv'
  BY <1>1, <1>2, <1>3, <1>4 DEF SweepInv, StateInv, IsWindow, GetInv, ReportInv
<1>6. StateInv' /\ WalkInv' /\ GetInv'
  BY <1>1 DEF StateInv, WalkInv, GetInv, Idle, IsWindow
<1>. QED  BY <1>5, <1>6 DEF SweepInv

LEMMA SweepStarts == Init => SweepInv
<1>. SUFFICES ASSUME Init PROVE SweepInv
  OBVIOUS
<1>1. DOMAIN index = {} /\ anchors = {} /\ sweep = Idle /\ report = NoReport
  BY DEF Init, EmptyIndex
<1>2. Sorted(index)
  BY <1>1, FS_EmptySet DEF Sorted
<1>3. LogInv
  BY <1>1, <1>2 DEF LogInv, RowInv, TrueInv, HashesRight, KnownLinks
<1>4. StateInv /\ WalkInv /\ GetInv /\ ReportInv
  BY <1>1 DEF StateInv, WalkInv, GetInv, ReportInv, Idle, IsWindow, Finished
<1>. QED  BY <1>3, <1>4 DEF SweepInv

LEMMA SweepSteps ==
    ASSUME SweepAssumption, SweepInv, [SweepNext]_vars
    PROVE  SweepInv'
<1>1. LogInv' /\ LogMoves /\ anchors \subseteq anchors'
  BY LogSteps DEF SweepInv
<1>2. CASE Environment \/ UNCHANGED vars
  <2>1. UNCHANGED sweepVars
    BY <1>2 DEF Environment, IngestEvent, AnchorHead, Alter, vars
  <2>. QED  BY <1>1, <2>1, SweepKept
<1>3. CASE SweepStep
  BY <1>1, <1>3, StartKeeps, PageKeeps, FailsKeeps, ListAnchorsKeeps, GetKeeps, ReportKeeps
     DEF SweepStep
<1>. QED  BY <1>2, <1>3 DEF SweepNext

(* The inductive invariant behind the first three results: what a sweep    *)
(* has read of a growing log stays right between its pages.                *)
THEOREM SweepInvariant == SweepSpec => []SweepInv
<1>1. Init => SweepInv
  BY SweepStarts
<1>2. SweepInv /\ [SweepNext]_vars => SweepInv'
  BY SweepAssumption, SweepSteps
<1>. QED  BY <1>1, <1>2, PTL DEF SweepSpec

-----------------------------------------------------------------------------
(* What the report and the endpoint may say.                               *)

LEMMA ReportWalks == ReportInv => WalksWindow
<1>. SUFFICES ASSUME ReportInv, Finished PROVE WalksWindow
  BY DEF WalksWindow
<1>. DEFINE list == report.walked
<1>1. /\ Read(index, report.window, list, report.present) /\ DOMAIN list = 1..Len(list)
      /\ report.window.fields = AnyFields
  BY DEF ReportInv, Read, IsList
<1>2. report.present \subseteq {list[k].id : k \in DOMAIN list}
  <2>. HIDE DEF list
  <2>. QED  BY <1>1 DEF Read, IdsOf
<1>3. \A k, l \in DOMAIN list : k < l =>
         list[k].id # list[l].id /\ NotLater(list[k].row.ts, list[k].id, list[l].row.ts, list[l].id)
  BY <1>1 DEF Read, InOrder
<1>4. \A k \in DOMAIN list : InWindow(list[k].row.ts, report.window)
  BY <1>1 DEF Read, RowsOf
<1>. QED  BY <1>2, <1>3, <1>4 DEF WalksWindow

LEMMA ReportTrue == ReportInv => NoFalseAlarm
BY DEF ReportInv, NoFalseAlarm

(* A report lists every row of its window that was there when the sweep    *)
(* began, each once and in listing order, for any number of pages and      *)
(* whatever Sweep, IngestEvent and the rest of SweepNext interleave.       *)
THEOREM WalksWindowHolds == SweepSpec => []WalksWindow
BY ReportWalks, SweepInvariant, PTL DEF SweepInv

(* While no row is altered no anchor is reported but those of exports and  *)
(* those whose Get failed, and as long as the rows are linked in listing   *)
(* order every report says ok: chain.Sweep raises no other false alarm.    *)
THEOREM NoFalseAlarmHolds == SweepSpec => []NoFalseAlarm
BY ReportTrue, SweepInvariant, PTL DEF SweepInv

-----------------------------------------------------------------------------
(* Alterations.  A hash tells whose it is: it is a tuple of five that      *)
(* begins with the id, or what an alteration put in its place.             *)

HashOf(hash, i) == Len(hash) = 5 /\ hash[1] = i

Untouched(i) == \A a \in alterations : a.id # i

Recomputed == {"severed", "rewritten"}

(* A row links to a row that is there, and to its hash of today unless     *)
(* that row was altered.                                                   *)
LinkKnown(idx, alt, hash) ==
    \/ hash \in {ZeroHash, <<"severed">>, <<"replaced">>}
    \/ \E j \in DOMAIN idx :
          HashOf(hash, j) /\ ((\A a \in alt : a.id # j) => hash = idx[j].thisHash)

HashKnown(id, row) == row.thisHash = <<"replaced">> \/ HashOf(row.thisHash, id)

AsIngested(id, row) ==
    row.thisHash = EventHash(id, row) /\ row.fields # "altered" /\ row.prevHash # <<"severed">>

HashInv ==
    \A i \in DOMAIN index :
        /\ i # 0 /\ HashKnown(i, index[i]) /\ LinkKnown(index, alterations, index[i].prevHash)
        /\ Untouched(i) => AsIngested(i, index[i])

(* What an alteration left in a row that was altered in one way only.      *)
AlteredAs(kind, id, row) ==
    /\ kind \in {"changed", "rewritten"} => row.fields = "altered"
    /\ kind = "replaced" => row.thisHash = <<"replaced">>
    /\ kind = "severed" => row.prevHash = <<"severed">>
    /\ kind = "changed" => EventHash(id, row) # row.thisHash
    /\ kind \in Recomputed => row.thisHash = EventHash(id, row)

(* A hash computed anew, of a row that was not the head: nothing links to it. *)
Orphaned(i) ==
    ~IsHead(index, i) /\ \A j \in DOMAIN index : index[j].prevHash # index[i].thisHash

AlteredInv ==
    \A a \in alterations :
        /\ a = [id |-> a.id, kind |-> a.kind, last |-> a.last]
        /\ a.id \in DOMAIN index /\ a.kind \in {"changed", "replaced"} \cup Recomputed
        /\ Once(a.id) => AlteredAs(a.kind, a.id, index[a.id])
        /\ Once(a.id) /\ a.kind \in Recomputed /\ ~a.last => Orphaned(a.id)

AnchorInv ==
    /\ backend \in {"memory", "postgres"}
    /\ \A a \in anchors :
          /\ a.last \in DOMAIN index /\ a.at \in Nat /\ (backend = "postgres" => a.at = 0)
          /\ Untouched(a.last) => index[a.last].thisHash = a.root

TraceInv == HashInv /\ AlteredInv /\ AnchorInv

(* The list of a sweep: rows altered before it began are listed as they    *)
(* are, and nothing listed links to an orphaned hash.                      *)
ListedInv ==
    sweep.pc # "idle" =>
        /\ sweep.altered \subseteq alterations
        /\ \A k \in 1..Len(sweep.list) : HashKnown(sweep.list[k].id, sweep.list[k].row)
        /\ \A a \in sweep.altered : Once(a.id) =>
              /\ \A k \in 1..Len(sweep.list) :
                    sweep.list[k].id = a.id => sweep.list[k].row = index[a.id]
              /\ a.kind \in Recomputed /\ ~a.last =>
                    \A k \in 1..Len(sweep.list) :
                        sweep.list[k].row.prevHash # index[a.id].thisHash

ExposedInv ==
    /\ sweep.pc # "idle" =>
          /\ sweep.exposed \subseteq anchors
          /\ \A a \in sweep.exposed :
                /\ \E b \in sweep.altered : b.id = a.last
                /\ Once(a.last) => index[a.last].thisHash # a.root
    /\ sweep.pc = "get" /\ ~sweep.unlisted =>
          \A a \in sweep.exposed :
              Once(a.last) /\ InAnchorWindow(a) => a \in sweep.todo \cup sweep.mismatched

TamperInv ==
    /\ HashInv /\ AlteredInv /\ AnchorInv /\ ListedInv /\ ExposedInv
    /\ FindsAlterations /\ AnchorsTell

(* What the readers see of a step: rows altered in one way stay. *)
TraceMoves ==
    /\ anchors \subseteq anchors' /\ alterations \subseteq alterations' /\ backend' = backend
    /\ DOMAIN index \subseteq DOMAIN index'
    /\ \A a \in alterations : Once(a.id)' => index'[a.id] = index[a.id]

LEMMA HashesTell ==
    ASSUME NEW id, NEW row
    PROVE  /\ HashOf(EventHash(id, row), id)
           /\ \A i : HashOf(<<"replaced">>, i) = FALSE /\ HashOf(<<"severed">>, i) = FALSE
                     /\ HashOf(ZeroHash, i) = FALSE /\ HashOf(NilHash, i) = FALSE
           /\ HashKnown(id, row) => row.thisHash # <<"severed">> /\ row.thisHash # NilHash
                                    /\ row.thisHash # ZeroHash
BY DEF HashOf, HashKnown, EventHash, CanonicalHash, ZeroHash, NilHash

LEMMA IngestTrace ==
    ASSUME SweepAssumption, LogInv, TraceInv, NEW e \in Events, IngestEvent(e)
    PROVE  TraceInv' /\ TraceMoves
<1>. DEFINE prev == IF DOMAIN index = {} THEN ZeroHash ELSE index[ChainHead(index)].thisHash
            hash == HashPayload("plain")
            row == [ts |-> e.ts, fields |-> e.fields, payloadHash |-> hash, prevHash |-> prev,
                    thisHash |-> CanonicalHash(e.id, e.ts, e.fields, hash, prev)]
            h == ChainHead(index)
<1>1. /\ e.id \notin DOMAIN index /\ index' = Insert(index, e.id, row)
      /\ UNCHANGED <<backend, anchors, alterations>>
  BY DEF IngestEvent
<1>2. DOMAIN index' = DOMAIN index \cup {e.id} /\ index'[e.id] = row
  BY <1>1 DEF Insert
<1>3. \A j \in DOMAIN index : j # e.id /\ index'[j] = index[j]
  BY <1>1 DEF Insert
<1>4. /\ row.prevHash = prev /\ row.thisHash = EventHash(e.id, row) /\ row.fields # "altered"
  BY DEF EventHash, SweepAssumption
<1>. HIDE DEF row
<1>5. DOMAIN index # {} => IsHead(index, h)
  BY HeadExists DEF LogInv, RowInv
<1>6. prev = ZeroHash \/ (h \in DOMAIN index /\ prev = index[h].thisHash)
  BY <1>5 DEF IsHead
<1>7. DOMAIN index # {} => h \in DOMAIN index /\ prev = index[h].thisHash
  BY <1>5 DEF IsHead
<1>. HIDE DEF prev, h
<1>8. LinkKnown(index, alterations, prev)
  <2>1. CASE prev = ZeroHash
    BY <2>1 DEF LinkKnown
  <2>2. CASE h \in DOMAIN index /\ prev = index[h].thisHash
    BY <2>2 DEF LinkKnown, TraceInv, HashInv, HashKnown
  <2>. QED  BY <1>6, <2>1, <2>2
<1>9. prev # <<"severed">>
  <2>1. CASE prev = ZeroHash
    BY <2>1 DEF ZeroHash
  <2>2. CASE h \in DOMAIN index /\ prev = index[h].thisHash
    BY <2>2, HashesTell DEF TraceInv, HashInv
  <2>. QED  BY <1>6, <2>1, <2>2
<1>10. \A i : Untouched(i)' <=> Untouched(i)
  BY <1>1 DEF Untouched
<1>11. \A x : LinkKnown(index, alterations, x) => LinkKnown(index', alterations, x)
  BY <1>2, <1>3 DEF LinkKnown
<1>12. HashInv'
  <2>1. ASSUME NEW i \in DOMAIN index
        PROVE  /\ i # 0 /\ HashKnown(i, index'[i]) /\ LinkKnown(index', alterations, index'[i].prevHash)
               /\ Untouched(i) => AsIngested(i, index'[i])
    BY <1>3, <1>11 DEF TraceInv, HashInv
  <2>2. /\ e.id # 0 /\ HashKnown(e.id, row) /\ LinkKnown(index', alterations, row.prevHash)
        /\ AsIngested(e.id, row)
    <3>1. HashKnown(e.id, row)
      BY <1>4, HashesTell DEF HashKnown
    <3>. QED  BY <1>4, <1>8, <1>9, <1>11, <3>1 DEF AsIngested, SweepAssumption
  <2>. QED  BY <1>1, <1>2, <1>10, <2>1, <2>2 DEF HashInv
<1>13. AlteredInv'
  <2>. SUFFICES ASSUME NEW a \in alterations
                PROVE  /\ a = [id |-> a.id, kind |-> a.kind, last |-> a.last]
                       /\ a.id \in DOMAIN index' /\ a.kind \in {"changed", "replaced"} \cup Recomputed
                       /\ Once(a.id) => AlteredAs(a.kind, a.id, index'[a.id])
                       /\ Once(a.id) /\ a.kind \in Recomputed /\ ~a.last => Orphaned(a.id)'
    BY <1>1 DEF AlteredInv, Once
  <2>1. /\ a = [id |-> a.id, kind |-> a.kind, last |-> a.last]
        /\ a.id \in DOMAIN index /\ a.kind \in {"changed", "replaced"} \cup Recomputed
        /\ Once(a.id) => AlteredAs(a.kind, a.id, index[a.id])
        /\ Once(a.id) /\ a.kind \in Recomputed /\ ~a.last => Orphaned(a.id)
    BY DEF TraceInv, AlteredInv
  <2>2. ASSUME Once(a.id), a.kind \in Recomputed, ~a.last PROVE Orphaned(a.id)'
    <3>. DEFINE i == a.id
    <3>1. i \in DOMAIN index /\ ~IsHead(index, i) /\ \A j \in DOMAIN index : index[j].prevHash # index[i].thisHash
      BY <2>1, <2>2 DEF Orphaned
    <3>2. ~IsHead(index', i)
      BY <1>2, <1>3, <3>1 DEF IsHead, RowNotLater
    <3>3. HashOf(index[i].thisHash, i)
      <4>1. index[i].thisHash = EventHash(i, index[i])
        BY <2>1, <2>2 DEF AlteredAs
      <4>. QED  BY <4>1, HashesTell
    <3>4. h \in DOMAIN index /\ prev = index[h].thisHash /\ h # i
      BY <1>5, <1>7, <3>1
    <3>5. index[h].thisHash = <<"replaced">> \/ HashOf(index[h].thisHash, h)
      BY <3>4 DEF TraceInv, HashInv, HashKnown
    <3>6. row.prevHash # index[i].thisHash
      BY <1>4, <3>3, <3>4, <3>5, HashesTell DEF HashOf
    <3>. QED  BY <1>2, <1>3, <3>1, <3>2, <3>6 DEF Orphaned
  <2>. QED  BY <1>2, <1>3, <2>1, <2>2
<1>14. AnchorInv'
  BY <1>1, <1>2, <1>3, <1>10 DEF TraceInv, AnchorInv
<1>15. TraceMoves
  <2>1. \A a \in alterations : a.id \in DOMAIN index
    BY DEF TraceInv, AlteredInv
  <2>. QED  BY <1>1, <1>2, <1>3, <2>1 DEF TraceMoves
<1>. QED  BY <1>12, <1>13, <1>14, <1>15 DEF TraceInv

LEMMA AnchorTrace ==
    ASSUME SweepAssumption, LogInv, TraceInv, AnchorHead
    PROVE  TraceInv' /\ TraceMoves
<1>. DEFINE h == ChainHead(index)
<1>1. DOMAIN index # {} /\ UNCHANGED <<backend, index, alterations>>
  BY DEF AnchorHead
<1>2. PICK at \in Stamps(index[h].ts) :
          anchors' = anchors \cup {[last |-> h, root |-> index[h].thisHash, at |-> at]}
  BY DEF AnchorHead
<1>3. h \in DOMAIN index /\ index[h].ts \in Nat
  BY <1>1, HeadExists DEF LogInv, RowInv, IsHead, Sorted
<1>4. at \in Nat /\ (backend = "postgres" => at = 0)
  BY <1>3 DEF Stamps, SweepAssumption
<1>. HIDE DEF h
<1>5. \A a \in anchors' : a \in anchors \/ (a.last = h /\ a.root = index[h].thisHash /\ a.at = at)
  BY <1>2
<1>6. AnchorInv'
  BY <1>1, <1>3, <1>4, <1>5 DEF TraceInv, AnchorInv, Untouched
<1>7. HashInv' /\ AlteredInv'
  BY <1>1 DEF TraceInv, HashInv, AlteredInv, Orphaned, LinkKnown, Untouched, Once
<1>8. TraceMoves
  BY <1>1, <1>2 DEF TraceMoves
<1>. QED  BY <1>6, <1>7, <1>8 DEF TraceInv

LEMMA AlterTrace ==
    ASSUME LogInv, TraceInv, NEW i, NEW kind \in {"changed", "replaced", "severed", "rewritten"},
           Alter(i, kind)
    PROVE  TraceInv' /\ TraceMoves
<1>. DEFINE row == index[i]
            new == Altered(i, kind)
            b == [id |-> i, kind |-> kind, last |-> IsHead(index, i)]
<1>1. /\ i \in DOMAIN index /\ index' = [index EXCEPT ![i] = new]
      /\ alterations' = alterations \cup {b} /\ UNCHANGED <<backend, anchors>>
  BY DEF Alter
<1>2. /\ IsRow(row) /\ IsRow(new) /\ new.ts = row.ts /\ new.payloadHash = row.payloadHash
      /\ new.fields = IF kind \in {"changed", "rewritten"} THEN "altered" ELSE row.fields
      /\ new.prevHash = IF kind = "severed" THEN <<"severed">> ELSE row.prevHash
      /\ new.thisHash = IF kind = "replaced" THEN <<"replaced">>
                        ELSE IF kind = "changed" THEN row.thisHash ELSE EventHash(i, new)
  BY <1>1, AlteredRow DEF LogInv, RowInv
<1>3. b.id = i /\ b.kind = kind /\ b.last = IsHead(index, i)
  OBVIOUS
<1>. HIDE DEF new, b
<1>4. /\ DOMAIN index' = DOMAIN index /\ index'[i] = new
      /\ \A j \in DOMAIN index : j # i => index'[j] = index[j]
  BY <1>1
<1>5. \A j : Once(j)' => Once(j)
  BY <1>1 DEF Once
<1>6. \A a \in alterations : a.id = i /\ Once(i)' => a = b
  BY <1>1, <1>3 DEF Once
<1>7. ASSUME NEW a \in alterations, a.id = i, Once(i)' PROVE new = row
  <2>1. AlteredAs(kind, i, row)
    BY <1>3, <1>5, <1>6, <1>7 DEF TraceInv, AlteredInv
  <2>2. /\ new.fields = row.fields /\ new.prevHash = row.prevHash
    BY <1>2, <2>1 DEF AlteredAs
  <2>3. EventHash(i, new) = EventHash(i, row)
    BY <1>2, <2>2 DEF EventHash
  <2>4. new.thisHash = row.thisHash
    BY <1>2, <2>1, <2>3 DEF AlteredAs, Recomputed
  <2>. QED  BY <1>2, <2>2, <2>4 DEF IsRow
<1>8. TraceMoves
  <2>1. ASSUME NEW a \in alterations, Once(a.id)' PROVE index'[a.id] = index[a.id]
    <3>1. a.id \in DOMAIN index
      BY DEF TraceInv, AlteredInv
    <3>. QED  BY <1>4, <1>7, <2>1, <3>1
  <2>. QED  BY <1>1, <1>4, <2>1 DEF TraceMoves
<1>9. HashKnown(i, new) /\ new.prevHash \in {row.prevHash, <<"severed">>}
  BY <1>1, <1>2, HashesTell DEF TraceInv, HashInv, HashKnown
<1>10. \A j : Untouched(j)' <=> Untouched(j) /\ j # i
  BY <1>1, <1>3 DEF Untouched
<1>11. HashInv'
  <2>1. ASSUME NEW x, LinkKnown(index, alterations, x) PROVE LinkKnown(index', alterations', x)
    <3>1. ASSUME NEW j \in DOMAIN index, HashOf(x, j),
                 (\A a \in alterations : a.id # j) => x = index[j].thisHash
          PROVE  HashOf(x, j) /\ ((\A a \in alterations' : a.id # j) => x = index'[j].thisHash)
      BY <1>1, <1>3, <1>4, <3>1
    <3>. QED  BY <1>4, <2>1, <3>1 DEF LinkKnown
  <2>2. LinkKnown(index', alterations', <<"severed">>)
    BY DEF LinkKnown
  <2>3. ASSUME NEW j \in DOMAIN index
        PROVE  /\ j # 0 /\ HashKnown(j, index'[j])
               /\ LinkKnown(index', alterations', index'[j].prevHash)
               /\ Untouched(j)' => AsIngested(j, index'[j])
    <3>1. /\ j # 0 /\ HashKnown(j, index[j]) /\ LinkKnown(index, alterations, index[j].prevHash)
          /\ Untouched(j) => AsIngested(j, index[j])
      BY DEF TraceInv, HashInv
    <3>2. CASE j = i
      BY <1>4, <1>9, <1>10, <2>1, <2>2, <3>1, <3>2
    <3>3. CASE j # i
      BY <1>4, <1>10, <2>1, <3>1, <3>3
    <3>. QED  BY <3>2, <3>3
  <2>. QED  BY <1>4, <2>3 DEF HashInv
<1>12. AnchorInv'
  BY <1>1, <1>4, <1>10 DEF TraceInv, AnchorInv
<1>13. ASSUME Untouched(i) PROVE AlteredAs(kind, i, new)
  <2>1. AsIngested(i, row)
    BY <1>1, <1>13 DEF TraceInv, HashInv
  <2>2. kind = "changed" => EventHash(i, new) # new.thisHash
    BY <1>2, <2>1 DEF AsIngested, EventHash, CanonicalHash
  <2>. QED  BY <1>2, <2>2 DEF AlteredAs, Recomputed
<1>14. ASSUME Untouched(i), kind \in Recomputed, NEW j \in DOMAIN index
       PROVE  index[j].prevHash # new.thisHash
  <2>1. AsIngested(i, row)
    BY <1>1, <1>14 DEF TraceInv, HashInv
  <2>2. new.thisHash = EventHash(i, new) /\ HashOf(new.thisHash, i)
    BY <1>2, <1>14, HashesTell DEF Recomputed
  <2>3. new.thisHash # row.thisHash
    <3>1. new.fields # row.fields \/ new.prevHash # row.prevHash
      BY <1>2, <1>14, <2>1 DEF AsIngested, Recomputed
    <3>. QED  BY <2>1, <2>2, <3>1 DEF AsIngested, EventHash, CanonicalHash
  <2>4. LinkKnown(index, alterations, index[j].prevHash)
    BY DEF TraceInv, HashInv
  <2>5. CASE index[j].prevHash \in {ZeroHash, <<"severed">>, <<"replaced">>}
    BY <2>2, <2>5, HashesTell
  <2>6. CASE \E k \in DOMAIN index : HashOf(index[j].prevHash, k)
              /\ ((\A a \in alterations : a.id # k) => index[j].prevHash = index[k].thisHash)
    BY <1>14, <2>2, <2>3, <2>6 DEF HashOf, Untouched
  <2>. QED  BY <2>4, <2>5, <2>6 DEF LinkKnown
<1>15. \A j : IsHead(index', j) <=> IsHead(index, j)
  BY <1>2, <1>4 DEF IsHead, RowNotLater
<1>16. ASSUME NEW x, HashOf(x, i) \/ \E k : HashOf(x, k),
              \A j \in DOMAIN index : index[j].prevHash # x
       PROVE  \A j \in DOMAIN index : index'[j].prevHash # x
  <2>1. x # <<"severed">>
    BY <1>16, HashesTell
  <2>. QED  BY <1>4, <1>9, <1>16, <2>1
<1>17. ASSUME NEW a \in alterations', Once(a.id)'
       PROVE  /\ AlteredAs(a.kind, a.id, index'[a.id])
              /\ a.kind \in Recomputed /\ ~a.last => Orphaned(a.id)'
  <2>1. CASE a \in alterations
    <3>1. /\ a.id \in DOMAIN index /\ AlteredAs(a.kind, a.id, index[a.id])
          /\ a.kind \in Recomputed /\ ~a.last => Orphaned(a.id)
      BY <1>5, <1>17, <2>1 DEF TraceInv, AlteredInv
    <3>2. index'[a.id] = index[a.id]
      BY <1>8, <1>17, <2>1 DEF TraceMoves
    <3>3. ASSUME a.kind \in Recomputed, ~a.last PROVE Orphaned(a.id)'
      <4>1. HashOf(index[a.id].thisHash, a.id)
        <5>1. index[a.id].thisHash = EventHash(a.id, index[a.id])
          BY <3>1, <3>3 DEF AlteredAs
        <5>. QED  BY <5>1, HashesTell
      <4>2. ~IsHead(index, a.id) /\ \A j \in DOMAIN index : index[j].prevHash # index[a.id].thisHash
        BY <3>1, <3>3 DEF Orphaned
      <4>3. \A j \in DOMAIN index : index'[j].prevHash # index[a.id].thisHash
        BY <1>16, <4>1, <4>2
      <4>. QED  BY <1>4, <1>15, <3>2, <4>2, <4>3 DEF Orphaned
    <3>. QED  BY <3>1, <3>2, <3>3
  <2>2. CASE a = b /\ b \notin alterations
    <3>1. Untouched(i) /\ a.id = i /\ a.kind = kind /\ a.last = IsHead(index, i)
      BY <1>3, <1>6, <1>17, <2>2 DEF Untouched
    <3>2. ASSUME kind \in Recomputed, ~IsHead(index, i) PROVE Orphaned(i)'
      <4>1. HashOf(new.thisHash, i)
        BY <1>2, <3>2, HashesTell DEF Recomputed
      <4>2. \A j \in DOMAIN index : index[j].prevHash # new.thisHash
        BY <1>14, <3>1, <3>2
      <4>3. \A j \in DOMAIN index : index'[j].prevHash # new.thisHash
        BY <1>16, <4>1, <4>2
      <4>. QED  BY <1>4, <1>15, <3>2, <4>3 DEF Orphaned
    <3>. QED  BY <1>4, <1>13, <3>1, <3>2
  <2>. QED  BY <1>1, <2>1, <2>2
<1>18. AlteredInv'
  <2>1. ASSUME NEW a \in alterations'
        PROVE  /\ a = [id |-> a.id, kind |-> a.kind, last |-> a.last]
               /\ a.id \in DOMAIN index /\ a.kind \in {"changed", "replaced"} \cup Recomputed
    <3>1. CASE a \in alterations
      BY <3>1 DEF TraceInv, AlteredInv
    <3>2. CASE a = b
      BY <1>1, <3>2 DEF b, Recomputed
    <3>. QED  BY <1>1, <3>1, <3>2
  <2>. QED  BY <1>4, <1>17, <2>1 DEF AlteredInv
<1>. QED  BY <1>8, <1>11, <1>12, <1>18 DEF TraceInv

LEMMA TraceSteps ==
    ASSUME SweepAssumption, LogInv, TraceInv, [SweepNext]_vars
    PROVE  TraceInv' /\ TraceMoves
<1>1. CASE \E e \in Events : IngestEvent(e)
  BY <1>1, IngestTrace
<1>2. CASE AnchorHead
  BY <1>2, AnchorTrace
<1>3. CASE \E e \in Events, kind \in {"changed", "replaced", "severed", "rewritten"} : Alter(e.id, kind)
  BY <1>3, AlterTrace
<1>4. CASE SweepStep \/ UNCHANGED vars
  <2>1. UNCHANGED <<backend, index, anchors, alterations>>
    BY <1>4 DEF SweepStep, StartSweep, SweepPage, SweepFails, SweepListAnchors, SweepGet,
                SweepReport, vars, logVars
  <2>2. HashInv' /\ AnchorInv'
    BY <2>1 DEF TraceInv, HashInv, AnchorInv, Untouched
  <2>3. AlteredInv'
    BY <2>1 DEF TraceInv, AlteredInv, Orphaned, Once
  <2>. QED  BY <2>1, <2>2, <2>3 DEF TraceInv, TraceMoves
<1>. QED  BY <1>1, <1>2, <1>3, <1>4 DEF SweepNext, Environment

(* The log moves on while a sweep is under way or its report is there. *)
LEMMA TamperKept ==
    ASSUME TamperInv, TraceInv', TraceMoves, UNCHANGED sweepVars
    PROVE  TamperInv'
<1>1. UNCHANGED <<sweep, report>>
  BY DEF sweepVars
<1>2. \A i : Once(i)' => Once(i)
  BY DEF TraceMoves, Once
<1>3. \A a \in alterations : Once(a.id)' => index'[a.id] = index[a.id]
  BY DEF TraceMoves
<1>4. ListedInv'
  <2>1. sweep.pc # "idle" => sweep.altered \subseteq alterations'
    BY DEF TamperInv, ListedInv, TraceMoves
  <2>2. ASSUME sweep.pc # "idle", NEW a \in sweep.altered, Once(a.id)'
        PROVE  /\ \A k \in 1..Len(sweep.list) :
                     sweep.list[k].id = a.id => sweep.list[k].row = index'[a.id]
               /\ a.kind \in Recomputed /\ ~a.last =>
                     \A k \in 1..Len(sweep.list) : sweep.list[k].row.prevHash # index'[a.id].thisHash
    <3>1. a \in alterations /\ Once(a.id)
      BY <1>2, <2>2 DEF TamperInv, ListedInv
    <3>2. index'[a.id] = index[a.id]
      BY <1>3, <2>2, <3>1
    <3>. QED  BY <2>2, <3>1, <3>2 DEF TamperInv, ListedInv
  <2>. QED  BY <1>1, <2>1, <2>2 DEF TamperInv, ListedInv
<1>5. ExposedInv'
  <2>1. ASSUME sweep.pc # "idle", NEW a \in sweep.exposed, Once(a.last)'
        PROVE  index'[a.last].thisHash # a.root
    <3>1. PICK b \in sweep.altered : b.id = a.last
      BY <2>1 DEF TamperInv, ExposedInv
    <3>2. b \in alterations
      BY <2>1 DEF TamperInv, ListedInv
    <3>3. Once(a.last) /\ index'[a.last] = index[a.last]
      BY <1>2, <1>3, <2>1, <3>1, <3>2
    <3>. QED  BY <2>1, <3>3 DEF TamperInv, ExposedInv
  <2>2. sweep.pc # "idle" => /\ sweep.exposed \subseteq anchors'
                             /\ \A a \in sweep.exposed : \E b \in sweep.altered : b.id = a.last
    BY DEF TamperInv, ExposedInv, TraceMoves
  <2>3. sweep.pc = "get" /\ ~sweep.unlisted =>
            \A a \in sweep.exposed :
                Once(a.last)' /\ InAnchorWindow(a) => a \in sweep.todo \cup sweep.mismatched
    BY <1>2 DEF TamperInv, ExposedInv
  <2>4. \A a : InAnchorWindow(a)' <=> InAnchorWindow(a)
    BY <1>1 DEF InAnchorWindow
  <2>. QED  BY <1>1, <2>1, <2>2, <2>3, <2>4 DEF ExposedInv
<1>6. FindsAlterations'
  BY <1>1, <1>2 DEF TamperInv, FindsAlterations, Finished
<1>7. AnchorsTell'
  BY <1>1, <1>2 DEF TamperInv, AnchorsTell, Finished, TraceMoves
<1>. QED  BY <1>4, <1>5, <1>6, <1>7 DEF TamperInv, TraceInv

(* Within the sweep the log and the report stay. *)
LEMMA ReportStays ==
    ASSUME TamperInv, UNCHANGED <<logVars, report>>
    PROVE  FindsAlterations' /\ AnchorsTell'
BY DEF TamperInv, FindsAlterations, AnchorsTell, Finished, Once, logVars

LEMMA StartTampers ==
    ASSUME TamperInv, NEW win \in Windows, StartSweep(win)
    PROVE  ListedInv' /\ ExposedInv' /\ FindsAlterations' /\ AnchorsTell'
<1>1. /\ sweep'.pc = "list" /\ sweep'.list = << >> /\ sweep'.altered = alterations
      /\ sweep'.exposed = {a \in anchors : a.last \in DOMAIN index
                                              /\ index[a.last].thisHash # a.root}
      /\ UNCHANGED <<logVars, report>> /\ UNCHANGED <<index, anchors, alterations>>
  BY DEF StartSweep, Idle, logVars
<1>2. ListedInv'
  BY <1>1 DEF ListedInv
<1>3. \A a \in sweep'.exposed : \E b \in alterations : b.id = a.last
  BY <1>1 DEF TamperInv, AnchorInv, Untouched
<1>4. ExposedInv'
  BY <1>1, <1>3 DEF ExposedInv
<1>. QED  BY <1>1, <1>2, <1>4, ReportStays

LEMMA PageTampers ==
    ASSUME SweepAssumption, SweepInv, TamperInv, SweepPage
    PROVE  ListedInv' /\ ExposedInv' /\ FindsAlterations' /\ AnchorsTell'
<1>. DEFINE more == sweep.list \o Page(index, sweep.window, sweep.cursor, PageLimit)
<1>1. /\ sweep.pc = "list" /\ sweep'.list = more /\ sweep'.pc \in {"list", "anchors"}
      /\ sweep'.altered = sweep.altered /\ sweep'.exposed = sweep.exposed
      /\ UNCHANGED <<logVars, report>> /\ UNCHANGED <<index, anchors, alterations>>
  BY DEF SweepPage, logVars, SweepInv, StateInv, Idle
<1>2. Continued(index, sweep.list, more)
  <2>1. Sorted(index) /\ IsList(sweep.list) /\ PageLimit \in Nat \ {0}
    BY <1>1 DEF SweepInv, LogInv, RowInv, WalkInv, Reading, SweepAssumption
  <2>. QED  BY <2>1, PageContinues
<1>. HIDE DEF more
<1>3. ASSUME NEW k \in 1..Len(more) PROVE HashKnown(more[k].id, more[k].row)
  BY <1>1, <1>2 DEF Continued, TamperInv, TraceInv, ListedInv, HashInv
<1>4. ASSUME NEW a \in sweep.altered, Once(a.id), NEW k \in 1..Len(more)
      PROVE  /\ more[k].id = a.id => more[k].row = index[a.id]
             /\ a.kind \in Recomputed /\ ~a.last => more[k].row.prevHash # index[a.id].thisHash
  <2>1. a \in alterations
    BY <1>1 DEF TamperInv, ListedInv
  <2>2. CASE k \in 1..Len(sweep.list) /\ more[k] = sweep.list[k]
    BY <1>1, <1>4, <2>2 DEF TamperInv, ListedInv
  <2>3. CASE more[k].id \in DOMAIN index /\ more[k].row = index[more[k].id]
    BY <1>4, <2>1, <2>3 DEF TamperInv, AlteredInv, Orphaned
  <2>. QED  BY <1>2, <2>2, <2>3 DEF Continued
<1>5. ListedInv'
  <2>1. sweep.altered \subseteq alterations
    BY <1>1 DEF TamperInv, ListedInv
  <2>. QED  BY <1>1, <1>3, <1>4, <2>1 DEF ListedInv, Once
<1>6. ExposedInv'
  BY <1>1 DEF TamperInv, ExposedInv, Once
<1>. QED  BY <1>1, <1>5, <1>6, ReportStays

LEMMA FailsTampers ==
    ASSUME SweepInv, TamperInv, SweepFails
    PROVE  ListedInv' /\ ExposedInv' /\ FindsAlterations' /\ AnchorsTell'
<1>1. sweep'.pc = "idle" /\ UNCHANGED <<logVars, report>>
  BY DEF SweepFails, Idle
<1>2. ListedInv' /\ ExposedInv'
  BY <1>1 DEF ListedInv, ExposedInv
<1>. QED  BY <1>1, <1>2, ReportStays

LEMMA ListAnchorsTampers ==
    ASSUME SweepInv, TamperInv, SweepListAnchors
    PROVE  ListedInv' /\ ExposedInv' /\ FindsAlterations' /\ AnchorsTell'
<1>1. /\ sweep.pc = "anchors" /\ sweep'.pc = "get" /\ sweep'.list = sweep.list
      /\ sweep'.altered = sweep.altered /\ sweep'.exposed = sweep.exposed
      /\ sweep'.window = sweep.window /\ sweep'.mismatched = sweep.mismatched
      /\ UNCHANGED <<logVars, report>> /\ UNCHANGED <<index, anchors, alterations>>
      /\ sweep'.unlisted \/ sweep'.todo = {a \in anchors : InAnchorWindow(a)}
  <2>1. DOMAIN sweep = DOMAIN Idle
    BY DEF SweepInv, StateInv
  <2>2. /\ sweep.pc = "anchors" /\ UNCHANGED <<logVars, report>>
        /\ UNCHANGED <<index, anchors, alterations>>
    BY DEF SweepListAnchors, logVars
  <2>3. CASE sweep' = [sweep EXCEPT !.pc = "get", !.todo = {a \in anchors : InAnchorWindow(a)}]
    BY <2>1, <2>2, <2>3 DEF Idle
  <2>4. CASE sweep' = [sweep EXCEPT !.pc = "get", !.unlisted = TRUE]
    BY <2>1, <2>2, <2>4 DEF Idle
  <2>. QED  BY <2>3, <2>4 DEF SweepListAnchors
<1>2. ListedInv'
  BY <1>1 DEF TamperInv, ListedInv, Once
<1>3. \A a : InAnchorWindow(a)' <=> InAnchorWindow(a)
  BY <1>1 DEF InAnchorWindow
<1>4. ExposedInv'
  BY <1>1, <1>3 DEF TamperInv, ExposedInv, Once
<1>. QED  BY <1>1, <1>2, <1>4, ReportStays

LEMMA GetTampers ==
    ASSUME SweepInv, TamperInv, NEW x \in anchors, SweepGet(x)
    PROVE  ListedInv' /\ ExposedInv' /\ FindsAlterations' /\ AnchorsTell'
<1>1. /\ sweep.pc = "get" /\ sweep'.pc = "get" /\ sweep'.list = sweep.list
      /\ sweep'.altered = sweep.altered /\ sweep'.exposed = sweep.exposed
      /\ sweep'.window = sweep.window /\ sweep'.todo = sweep.todo \ {x}
      /\ sweep.mismatched \subseteq sweep'.mismatched
      /\ Mismatch(x) => x \in sweep'.mismatched
      /\ sweep'.unlisted = sweep.unlisted
      /\ UNCHANGED <<logVars, report>> /\ UNCHANGED <<index, anchors, alterations>>
  <2>1. DOMAIN sweep = DOMAIN Idle
    BY DEF SweepInv, StateInv
  <2>2. /\ sweep.pc = "get" /\ UNCHANGED <<logVars, report>>
        /\ UNCHANGED <<index, anchors, alterations>>
    BY DEF SweepGet, logVars
  <2>. DEFINE both == sweep.mismatched \cup {x}
              seen == IF Mismatch(x) THEN both ELSE sweep.mismatched
  <2>3. /\ sweep.mismatched \subseteq both /\ x \in both
        /\ sweep.mismatched \subseteq seen /\ (Mismatch(x) => x \in seen)
    OBVIOUS
  <2>4. \/ sweep' = [sweep EXCEPT !.todo = @ \ {x}, !.mismatched = seen]
        \/ sweep' = [sweep EXCEPT !.todo = @ \ {x}, !.mismatched = both, !.failed = @ \cup {x}]
    BY DEF SweepGet
  <2>. HIDE DEF seen, both
  <2>5. CASE sweep' = [sweep EXCEPT !.todo = @ \ {x}, !.mismatched = seen]
    BY <2>1, <2>2, <2>3, <2>5 DEF Idle
  <2>6. CASE sweep' = [sweep EXCEPT !.todo = @ \ {x}, !.mismatched = both, !.failed = @ \cup {x}]
    BY <2>1, <2>2, <2>3, <2>6 DEF Idle
  <2>. QED  BY <2>4, <2>5, <2>6
<1>2. ListedInv'
  BY <1>1 DEF TamperInv, ListedInv, Once
<1>3. \A a : InAnchorWindow(a)' <=> InAnchorWindow(a)
  BY <1>1 DEF InAnchorWindow
<1>4. ASSUME NEW a \in sweep.exposed, Once(a.last), InAnchorWindow(a), ~sweep.unlisted
      PROVE  a \in sweep'.todo \cup sweep'.mismatched
  <2>1. a \in sweep.todo \cup sweep.mismatched /\ index[a.last].thisHash # a.root
    BY <1>1, <1>4 DEF TamperInv, ExposedInv
  <2>. QED  BY <1>1, <2>1 DEF Mismatch
<1>5. ExposedInv'
  BY <1>1, <1>3, <1>4 DEF TamperInv, ExposedInv, Once
<1>. QED  BY <1>1, <1>2, <1>5, ReportStays

(* What an ok walk of the list tells about a row altered before the sweep: *)
(* its hash was computed anew, a severed row is the first, and no row      *)
(* follows one that is linked to.                                          *)
LEMMA WalkTells ==
    ASSUME SweepInv, TamperInv, sweep.pc = "get", VerifyChain(sweep.list).status = "ok",
           NEW a \in sweep.altered, a.id \in sweep.present, Once(a.id)
    PROVE  Undetectable(a, sweep.list)
<1>. DEFINE list == sweep.list
            row == index[a.id]
<1>1. IsList(list) /\ sweep.present \subseteq IdsOf(list) /\ Len(list) \in Nat
  BY DEF SweepInv, WalkInv, StateInv, IsWindow, Read, IsList
<1>2. PICK k \in 1..Len(list) : list[k].id = a.id
  BY <1>1 DEF IdsOf
<1>3. /\ a \in alterations /\ list[k].row = row
      /\ a.kind \in Recomputed /\ ~a.last =>
            \A l \in 1..Len(list) : list[l].row.prevHash # row.thisHash
      /\ \A l \in 1..Len(list) : HashKnown(list[l].id, list[l].row)
  BY <1>2 DEF TamperInv, ListedInv
<1>4. a.kind \in {"changed", "replaced"} \cup Recomputed /\ AlteredAs(a.kind, a.id, row)
  BY <1>3 DEF TamperInv, AlteredInv
<1>5. \A l \in 1..Len(list) :
          VerifyRow(list[l].id, list[l].row,
                    IF l = 1 THEN NilHash ELSE list[l - 1].row.thisHash) = "ok"
  BY <1>1, WalkVerdict
<1>. HIDE DEF list, row
<1>6. \A l \in 1..Len(list) : EventHash(list[l].id, list[l].row) = list[l].row.thisHash
  BY <1>5 DEF VerifyRow
<1>7. ASSUME NEW l \in 2..Len(list) PROVE list[l].row.prevHash = list[l - 1].row.thisHash
  <2>1. l \in 1..Len(list) /\ l # 1 /\ l - 1 \in 1..Len(list)
    BY <1>1
  <2>2. list[l - 1].row.thisHash # NilHash
    BY <1>3, <2>1, HashesTell
  <2>. QED  BY <1>5, <2>1, <2>2 DEF VerifyRow
<1>8. EventHash(a.id, row) = row.thisHash /\ HashOf(row.thisHash, a.id)
  BY <1>2, <1>3, <1>6, HashesTell
<1>9. a.kind \in Recomputed
  BY <1>4, <1>8, HashesTell DEF AlteredAs
<1>10. ASSUME a.kind = "severed" PROVE list[1].id = a.id
  <2>1. row.prevHash = <<"severed">>
    BY <1>4, <1>10 DEF AlteredAs
  <2>2. CASE k = 1
    BY <1>2, <2>2
  <2>3. CASE k # 1
    <3>1. k \in 2..Len(list) /\ k - 1 \in 1..Len(list)
      BY <1>1, <1>2, <2>3
    <3>2. list[k - 1].row.thisHash = <<"severed">>
      BY <1>3, <1>7, <2>1, <3>1
    <3>. QED  BY <1>3, <3>1, <3>2, HashesTell
  <2>. QED  BY <2>2, <2>3
<1>11. ASSUME ~a.last PROVE list[Len(list)].id = a.id
  <2>1. CASE k = Len(list)
    BY <1>2, <2>1
  <2>2. CASE k # Len(list)
    <3>1. k + 1 \in 2..Len(list) /\ k + 1 \in 1..Len(list) /\ (k + 1) - 1 = k
      BY <1>1, <1>2, <2>2
    <3>2. list[k + 1].row.prevHash = row.thisHash
      BY <1>3, <1>7, <3>1
    <3>. QED  BY <1>3, <1>9, <1>11, <3>1, <3>2
  <2>. QED  BY <2>1, <2>2
<1>12. a.last \/ ~a.last
  OBVIOUS
<1>. QED  BY <1>9, <1>10, <1>11, <1>12 DEF Undetectable, Recomputed, list

LEMMA ReportTampers ==
    ASSUME SweepAssumption, SweepInv, TamperInv, SweepReport
    PROVE  ListedInv' /\ ExposedInv' /\ FindsAlterations' /\ AnchorsTell'
<1>. DEFINE walk == VerifyChain(sweep.list)
<1>1. /\ sweep.pc = "get" /\ sweep.todo = {} /\ sweep'.pc = "idle"
      /\ report' = [status |-> walk.status, position |-> walk.position, root |-> walk.root,
                    walked |-> sweep.list, mismatched |-> sweep.mismatched,
                    failed |-> sweep.failed, unlisted |-> sweep.unlisted,
                    window |-> sweep.window, present |-> sweep.present,
                    altered |-> sweep.altered, exposed |-> sweep.exposed]
      /\ UNCHANGED <<backend, index, anchors, alterations>>
  BY DEF SweepReport, logVars, Idle
<1>. HIDE DEF walk
<1>2. /\ report'.status = walk.status /\ report'.walked = sweep.list
      /\ report'.mismatched = sweep.mismatched /\ report'.window = sweep.window
      /\ report'.present = sweep.present /\ report'.altered = sweep.altered
      /\ report'.exposed = sweep.exposed /\ report'.unlisted = sweep.unlisted
  BY <1>1
<1>3. ListedInv' /\ ExposedInv'
  BY <1>1 DEF ListedInv, ExposedInv
<1>4. FindsAlterations'
  <2>1. ASSUME walk.status = "ok", NEW a \in sweep.altered, a.id \in sweep.present, Once(a.id)
        PROVE  Undetectable(a, sweep.list)
    BY <1>1, <2>1, WalkTells DEF walk
  <2>2. \A i : Once(i)' <=> Once(i)
    BY <1>1 DEF Once
  <2>. QED  BY <1>2, <2>1, <2>2 DEF FindsAlterations, Undetectable
<1>5. AnchorsTell'
  <2>1. ASSUME ~sweep.unlisted, NEW a \in sweep.exposed, Once(a.last),
               backend = "memory" => /\ sweep.window.from <= a.at
                                     /\ sweep.window.to \in {0} \cup a.at..Now,
               backend = "postgres" => sweep.window.from = 0
        PROVE  a \in sweep.mismatched
    <3>1. a \in anchors
      BY <1>1, <2>1 DEF TamperInv, ExposedInv
    <3>2. backend \in {"memory", "postgres"} /\ a.at \in Nat /\ (backend = "postgres" => a.at = 0)
      BY <3>1 DEF TamperInv, AnchorInv
    <3>3. sweep.window.from \in Nat /\ sweep.window.to \in Nat /\ Now \in Nat
      BY DEF SweepInv, StateInv, IsWindow, SweepAssumption
    <3>4. InAnchorWindow(a)
      BY <2>1, <3>2, <3>3 DEF InAnchorWindow
    <3>. QED  BY <1>1, <2>1, <3>4 DEF TamperInv, ExposedInv
  <2>2. \A i : Once(i)' <=> Once(i)
    BY <1>1 DEF Once
  <2>. QED  BY <1>1, <1>2, <2>1, <2>2 DEF AnchorsTell
<1>. QED  BY <1>3, <1>4, <1>5

LEMMA TamperStarts == Init => TamperInv
<1>. SUFFICES ASSUME Init PROVE TamperInv
  OBVIOUS
<1>1. /\ DOMAIN index = {} /\ anchors = {} /\ alterations = {} /\ report = NoReport
      /\ sweep.pc = "idle" /\ backend \in Backends
  BY DEF Init, EmptyIndex, Idle
<1>2. backend \in {"memory", "postgres"}
  BY <1>1, SweepAssumption DEF SweepAssumption
<1>. QED  BY <1>1, <1>2 DEF TamperInv, HashInv, AlteredInv, AnchorInv, ListedInv, ExposedInv,
                            FindsAlterations, AnchorsTell, Finished

LEMMA TamperSteps ==
    ASSUME SweepAssumption, SweepInv, TamperInv, [SweepNext]_vars
    PROVE  TamperInv'
<1>1. LogInv /\ TraceInv
  BY DEF SweepInv, TamperInv, TraceInv
<1>2. TraceInv' /\ TraceMoves
  BY <1>1, TraceSteps
<1>3. CASE Environment \/ UNCHANGED vars
  <2>1. UNCHANGED sweepVars
    BY <1>3 DEF Environment, IngestEvent, AnchorHead, Alter, vars
  <2>. QED  BY <1>2, <2>1, TamperKept
<1>4. CASE SweepStep
  <2>1. ListedInv' /\ ExposedInv' /\ FindsAlterations' /\ AnchorsTell'
    BY <1>4, StartTampers, PageTampers, FailsTampers, ListAnchorsTampers, GetTampers,
       ReportTampers DEF SweepStep
  <2>. QED  BY <1>2, <2>1 DEF TamperInv, TraceInv
<1>. QED  BY <1>3, <1>4 DEF SweepNext

(* The one behind the two results on alterations: which hashes a row may   *)
(* hold or link to, and what alterations leave behind.                     *)
THEOREM TamperInvariant == SweepSpec => []TamperInv
<1>1. Init => SweepInv /\ TamperInv
  BY SweepStarts, TamperStarts
<1>2. SweepInv /\ TamperInv /\ [SweepNext]_vars => (SweepInv /\ TamperInv)'
  BY SweepAssumption, SweepSteps, TamperSteps
<1>. QED  BY <1>1, <1>2, PTL DEF SweepSpec

(* The tamper evidence: an ok report vouches for every row of its window   *)
(* that was altered, in one way, before the sweep began, except where the  *)
(* hash was computed anew and nothing in the window is linked to it.       *)
THEOREM FindsAlterationsHolds == SweepSpec => []FindsAlterations
BY TamperInvariant, PTL DEF TamperInv

(* And where the walk cannot tell, the anchors do: those stored before the *)
(* sweep whose row lost the hash that was signed are reported.             *)
THEOREM AnchorsTellHolds == SweepSpec => []AnchorsTell
BY TamperInvariant, PTL DEF TamperInv

-----------------------------------------------------------------------------
(* The verify endpoint.                                                    *)

(* What it takes for the hash before row i is that of a row, or genesis. *)
LEMMA PrecedingKnown ==
    ASSUME SweepAssumption, LogInv, HashInv, NEW i \in DOMAIN index
    PROVE  /\ PrecedingHash(index, i, PageLimit) # NilHash
           /\ PrecedingHash(index, i, PageLimit) # <<"severed">>
<1>. DEFINE hash == PrecedingHash(index, i, PageLimit)
<1>1. hash = ZeroHash \/ \E q \in DOMAIN index : hash = index[q].thisHash
  <2>1. Sorted(index) /\ PageLimit \in Nat \ {0}
    BY DEF LogInv, RowInv, SweepAssumption
  <2>2. PICK earlier : earlier = {j \in DOMAIN index : index[j].ts < index[i].ts}
    OBVIOUS
  <2>. QED  BY <2>1, <2>2, EarlierPage
<1>2. CASE hash = ZeroHash
  BY <1>2 DEF ZeroHash, NilHash
<1>3. CASE \E q \in DOMAIN index : hash = index[q].thisHash
  BY <1>3, HashesTell DEF HashInv
<1>. QED  BY <1>1, <1>2, <1>3

LEMMA EndpointRefuses == SweepAssumption /\ LogInv /\ HashInv /\ AlteredInv => EndpointTells
<1>. SUFFICES ASSUME SweepAssumption, LogInv, HashInv, AlteredInv,
                     NEW a \in alterations, Once(a.id)
              PROVE  /\ a.kind # "rewritten" => EndpointVerdict(index, a.id, PageLimit) # "ok"
                     /\ a.kind = "rewritten" /\ ~a.last =>
                           \A i \in DOMAIN index \ {a.id} :
                               PrecedingHash(index, i, PageLimit) = index[a.id].thisHash =>
                                   EndpointVerdict(index, i, PageLimit) # "ok"
  BY DEF EndpointTells
<1>. DEFINE row == index[a.id]
<1>1. /\ a.id \in DOMAIN index /\ a.kind \in {"changed", "replaced"} \cup Recomputed
      /\ AlteredAs(a.kind, a.id, row)
      /\ a.kind \in Recomputed /\ ~a.last => Orphaned(a.id)
  BY DEF AlteredInv
<1>2. ASSUME a.kind # "rewritten" PROVE EndpointVerdict(index, a.id, PageLimit) # "ok"
  <2>1. CASE a.kind = "severed"
    <3>1. row.prevHash = <<"severed">>
      BY <1>1, <2>1 DEF AlteredAs
    <3>. QED  BY <1>1, <3>1, PrecedingKnown DEF EndpointVerdict, VerifyEvent, VerifyRow
  <2>2. CASE a.kind \in {"changed", "replaced"}
    <3>1. HashOf(EventHash(a.id, row), a.id) /\ HashOf(<<"replaced">>, a.id) = FALSE
      BY HashesTell
    <3>2. EventHash(a.id, row) # row.thisHash
      BY <1>1, <2>2, <3>1 DEF AlteredAs
    <3>. QED  BY <3>2 DEF EndpointVerdict, VerifyEvent, VerifyRow
  <2>. QED  BY <1>1, <1>2, <2>1, <2>2 DEF Recomputed
<1>3. ASSUME a.kind = "rewritten", ~a.last, NEW i \in DOMAIN index \ {a.id},
             PrecedingHash(index, i, PageLimit) = row.thisHash
      PROVE  EndpointVerdict(index, i, PageLimit) # "ok"
  <2>1. index[i].prevHash # row.thisHash
    BY <1>1, <1>3 DEF Orphaned, Recomputed
  <2>2. row.thisHash # NilHash
    BY <1>3, PrecedingKnown
  <2>. QED  BY <1>3, <2>1, <2>2 DEF EndpointVerdict, VerifyEvent, VerifyRow
<1>. QED  BY <1>2, <1>3

LEMMA EndpointFits == SweepAssumption /\ LogInv /\ HashInv => EndpointExact
<1>. SUFFICES ASSUME SweepAssumption, LogInv, HashInv, alterations = {}, Linked(index),
                     NEW i \in DOMAIN index, NEW listedBefore, NEW earlier,
                     listedBefore = {j \in DOMAIN index \ {i} : RowNotLater(index, j, i)},
                     earlier = {j \in DOMAIN index : index[j].ts < index[i].ts}
              PROVE  EndpointVerdict(index, i, PageLimit) = "ok" <=>
                        listedBefore = earlier /\ Cardinality(earlier) <= PageLimit
  BY DEF EndpointExact
<1>. DEFINE hash == PrecedingHash(index, i, PageLimit)
            fits == Cardinality(earlier) <= PageLimit
<1>1. Sorted(index) /\ Placed(index) /\ PageLimit \in Nat \ {0}
  BY SortedPlaced DEF LogInv, RowInv, SweepAssumption
<1>2. /\ earlier = {} => hash = ZeroHash
      /\ earlier # {} =>
            \E q \in earlier : /\ hash = index[q].thisHash
                               /\ fits <=> \A j \in earlier : RowNotLater(index, j, q)
  BY <1>1, EarlierPage
<1>3. earlier \subseteq listedBefore /\ listedBefore \subseteq DOMAIN index
  BY <1>1 DEF Placed, RowNotLater, NotLater
<1>4. \A j \in DOMAIN index : HashOf(index[j].thisHash, j)
  BY HashesTell DEF HashInv, Untouched, AsIngested
<1>5. EndpointVerdict(index, i, PageLimit) = VerifyEvent(index, i, hash)
  BY DEF EndpointVerdict
<1>. HIDE DEF hash, fits
<1>6. CASE IsFirst(index, i)
  <2>1. listedBefore = {} /\ earlier = {}
    BY <1>1, <1>3, <1>6, TotalOrder DEF IsFirst
  <2>2. fits
    <3>1. Cardinality(earlier) = 0
      BY <2>1, FS_EmptySet
    <3>. QED  BY <1>1, <3>1 DEF fits
  <2>3. VerifyEvent(index, i, ZeroHash) = "ok"
    BY <1>6 DEF Linked
  <2>. QED  BY <1>2, <1>5, <2>1, <2>2, <2>3 DEF fits
<1>7. CASE ~IsFirst(index, i)
  <2>1. PICK p \in DOMAIN index : IsPredecessor(index, p, i)
    BY <1>1, <1>7, PredecessorExists
  <2>2. p \in listedBefore /\ \A j \in listedBefore : RowNotLater(index, j, p)
    BY <2>1 DEF IsPredecessor
  <2>3. VerifyEvent(index, i, index[p].thisHash) = "ok"
    BY <2>1 DEF Linked
  <2>4. index[i].prevHash = index[p].thisHash
    BY <1>4, <2>3, HashesTell DEF VerifyEvent, VerifyRow
  <2>5. ASSUME hash # index[p].thisHash PROVE VerifyEvent(index, i, hash) # "ok"
    <3>1. hash # NilHash
      BY PrecedingKnown DEF hash
    <3>. QED  BY <2>4, <2>5, <3>1 DEF VerifyEvent, VerifyRow
  <2>6. hash = index[p].thisHash <=> listedBefore = earlier /\ fits
    <3>1. CASE earlier = {}
      <4>1. hash # index[p].thisHash
        BY <1>2, <1>4, <3>1, HashesTell
      <4>. QED  BY <2>2, <3>1, <4>1
    <3>2. CASE earlier # {}
      <4>1. PICK q \in earlier : /\ hash = index[q].thisHash
                                 /\ fits <=> \A j \in earlier : RowNotLater(index, j, q)
        BY <1>2, <3>2
      <4>2. hash = index[p].thisHash <=> q = p
        BY <1>3, <1>4, <4>1 DEF HashOf
      <4>3. ASSUME q = p PROVE listedBefore = earlier /\ fits
        <5>1. \A j \in listedBefore : j \in earlier
          BY <1>1, <1>3, <2>2, <4>3 DEF Placed, RowNotLater, NotLater
        <5>. QED  BY <1>3, <2>2, <4>1, <4>3, <5>1
      <4>4. ASSUME listedBefore = earlier, fits PROVE q = p
        BY <1>1, <1>3, <2>2, <4>1, <4>4, TotalOrder
      <4>. QED  BY <4>2, <4>3, <4>4
    <3>. QED  BY <3>1, <3>2
  <2>. QED  BY <1>5, <2>3, <2>5, <2>6 DEF fits
<1>. QED  BY <1>6, <1>7

(* The verify endpoint vouches for no row that was altered in one way,     *)
(* unless its hash was computed anew: then it refuses every row it takes   *)
(* to follow that one.  For any page limit and any growth of the log.      *)
THEOREM EndpointTellsHolds == SweepSpec => []EndpointTells
BY EndpointRefuses, SweepAssumption, SweepInvariant, TamperInvariant, PTL DEF SweepInv, TamperInv

(* On an unaltered log linked in listing order the endpoint finds ok       *)
(* exactly the rows before which no row of the same timestamp is listed    *)
(* and no more rows than fit its page: the others it refuses wrongly.      *)
THEOREM EndpointExactHolds == SweepSpec => []EndpointExact
BY EndpointFits, SweepAssumption, SweepInvariant, TamperInvariant, PTL DEF SweepInv, TamperInv

-----------------------------------------------------------------------------
(* Exports: the list of a runner is that of its job's query, an artifact   *)
(* is what the runner that wrote it had, and stays.                        *)

RootRight(f, list, root) ==
    alterations = {} /\ Linked(index) /\ f.fields = AnyFields /\ list # << >> =>
        root = list[Len(list)].row.thisHash

AnchorStored(root) == \E a \in anchors : a.last = 0 /\ a.root = root

Walking == {"list", "sign", "put", "complete"}

RunInv(r) ==
    LET run == runner[r] IN
    /\ DOMAIN run = {"pc", "job", "cursor", "list", "root", "anchor", "present"}
    /\ run.pc \in {"idle", "fail"} \cup Walking
    /\ run.pc # "idle" => run.job \in DOMAIN jobs
    /\ run.pc = "list" => Reading(index, Query(r), run.cursor, run.list, run.present)
    /\ run.pc \in {"sign", "put", "complete"} => Read(index, Query(r), run.list, run.present)
    /\ run.pc \in Walking => Unbroken(index, alterations, Query(r), run.list)
    /\ run.pc \in {"put", "complete"} => RootRight(Query(r), run.list, run.root)
    /\ run.pc \in {"list", "sign"} => run.anchor = FALSE
    /\ run.pc \in {"put", "complete"} /\ run.anchor => AnchorStored(run.root)
    /\ run.pc = "complete" => /\ run.job \in DOMAIN artifacts
                              /\ ~artifacts[run.job].ended =>
                                    /\ artifacts[run.job].rows = run.list
                                    /\ artifacts[run.job].root = run.root

JobFields == {"status", "query", "days", "rows", "ref", "root", "anchor"}

JobInv ==
    \A j \in DOMAIN jobs :
        /\ DOMAIN jobs[j] = JobFields
        /\ jobs[j].query.from \in Nat /\ jobs[j].query.to \in Nat

ArtifactInv ==
    /\ DOMAIN artifacts \subseteq DOMAIN jobs
    /\ \A j \in DOMAIN artifacts :
          /\ DOMAIN artifacts[j] = {"rows", "root", "present", "locked", "ended"}
          /\ artifacts[j].locked \/ artifacts[j].ended
          /\ Read(index, jobs[j].query, artifacts[j].rows, artifacts[j].present)
          /\ RootRight(jobs[j].query, artifacts[j].rows, artifacts[j].root)

StoreInv == JobInv /\ ArtifactInv /\ CompleteMatchesArtifact

ExportInv ==
    SweepInv /\ StoreInv /\ DOMAIN runner = Runners /\ \A r \in Runners : RunInv(r)

(* A step of the log and of the stores, seen by those who do not take it. *)
ServiceMoves ==
    /\ LogMoves /\ anchors \subseteq anchors'
    /\ DOMAIN jobs \subseteq DOMAIN jobs'
    /\ \A j \in DOMAIN jobs : jobs'[j].query = jobs[j].query
    /\ DOMAIN artifacts \subseteq DOMAIN artifacts'
    /\ \A j \in DOMAIN artifacts : artifacts'[j].ended \/ artifacts'[j] = artifacts[j]

LEMMA RunKept ==
    ASSUME ServiceMoves, NEW r \in Runners, RunInv(r), runner'[r] = runner[r]
    PROVE  RunInv(r)'
<1>. DEFINE run == runner[r]
            f == Query(r)
<1>1. run.pc # "idle" => run.job \in DOMAIN jobs' /\ Query(r)' = f
  BY DEF RunInv, ServiceMoves, Query
<1>2. Grows(index, index')
  BY DEF ServiceMoves, LogMoves, MovesOn
<1>3. alterations' = {} => alterations = {} /\ (Linked(index') => Linked(index))
  BY DEF ServiceMoves, LogMoves, MovesOn
<1>. HIDE DEF f
<1>4. run.pc = "list" => Reading(index', f, run.cursor, run.list, run.present)
  BY <1>2, ReadingGrows DEF RunInv, f
<1>5. run.pc \in {"sign", "put", "complete"} => Read(index', f, run.list, run.present)
  BY <1>2, ReadGrows DEF RunInv, f
<1>6. run.pc \in Walking => Unbroken(index', alterations', f, run.list)
  BY UnbrokenMoves DEF RunInv, ServiceMoves, LogMoves, f
<1>7. RootRight(f, run.list, run.root) =>
        (alterations' = {} /\ Linked(index') /\ f.fields = AnyFields /\ run.list # << >> =>
            run.root = run.list[Len(run.list)].row.thisHash)
  BY <1>3 DEF RootRight
<1>8. run.pc \in {"put", "complete"} =>
        (alterations' = {} /\ Linked(index') /\ f.fields = AnyFields /\ run.list # << >> =>
            run.root = run.list[Len(run.list)].row.thisHash)
  BY <1>7 DEF RunInv, f
<1>9. AnchorStored(run.root) => \E a \in anchors' : a.last = 0 /\ a.root = run.root
  BY DEF ServiceMoves, AnchorStored
<1>10. run.pc = "complete" => /\ run.job \in DOMAIN artifacts'
                              /\ ~artifacts'[run.job].ended =>
                                    /\ artifacts'[run.job].rows = run.list
                                    /\ artifacts'[run.job].root = run.root
  BY DEF RunInv, ServiceMoves
<1>. HIDE DEF run
<1>11. runner'[r] = run
  BY DEF run
<1>12. /\ DOMAIN run = {"pc", "job", "cursor", "list", "root", "anchor", "present"}
       /\ run.pc \in {"idle", "fail"} \cup Walking
       /\ run.pc \in {"list", "sign"} => run.anchor = FALSE
       /\ run.pc \in {"put", "complete"} /\ run.anchor => AnchorStored(run.root)
  BY DEF RunInv, run
<1>. QED  BY <1>1, <1>4, <1>5, <1>6, <1>8, <1>9, <1>10, <1>11, <1>12
          DEF RunInv, RootRight, AnchorStored, Walking

(* What the stores hold stays right while the log moves on. *)
LEMMA StoresKept ==
    ASSUME StoreInv, ServiceMoves, UNCHANGED <<jobs, artifacts>>
    PROVE  StoreInv'
<1>1. JobInv'
  BY DEF StoreInv, JobInv
<1>2. ArtifactInv'
  <2>1. Grows(index, index')
    BY DEF ServiceMoves, LogMoves, MovesOn
  <2>2. alterations' = {} => alterations = {} /\ (Linked(index') => Linked(index))
    BY DEF ServiceMoves, LogMoves, MovesOn
  <2>3. ASSUME NEW j \in DOMAIN artifacts
        PROVE  Read(index', jobs[j].query, artifacts[j].rows, artifacts[j].present)
    BY <2>1, ReadGrows DEF StoreInv, ArtifactInv
  <2>. QED  BY <2>2, <2>3 DEF StoreInv, ArtifactInv, RootRight
<1>3. CompleteMatchesArtifact'
  BY DEF StoreInv, CompleteMatchesArtifact, ServiceMoves
<1>. QED  BY <1>1, <1>2, <1>3 DEF StoreInv

(* One runner moves, the others see the log and the stores move. *)
LEMMA OthersKept ==
    ASSUME ExportInv, SweepInv', StoreInv', ServiceMoves, NEW r \in Runners,
           DOMAIN runner' = Runners, \A q \in Runners \ {r} : runner'[q] = runner[q], RunInv(r)'
    PROVE  ExportInv'
<1>1. \A q \in Runners \ {r} : RunInv(q)'
  BY RunKept DEF ExportInv
<1>. QED  BY <1>1 DEF ExportInv

(* The log as a runner leaves it: it only inserts anchors naming no row.   *)
LEMMA RunnerLog ==
    ASSUME SweepInv, UNCHANGED <<index, alterations, sweepVars>>, anchors \subseteq anchors',
           \A a \in anchors' : a \in anchors \/ a.last = 0
    PROVE  SweepInv' /\ LogMoves
<1>1. LogMoves
  BY Stays DEF LogMoves
<1>2. LogInv'
  BY DEF SweepInv, LogInv, RowInv, TrueInv, Mismatch
<1>. QED  BY <1>1, <1>2, SweepKept

LEMMA RunFields ==
    ASSUME ExportInv, NEW r \in Runners
    PROVE  /\ DOMAIN runner = Runners /\ RunInv(r) /\ SweepInv /\ StoreInv
           /\ DOMAIN runner[r] = {"pc", "job", "cursor", "list", "root", "anchor", "present"}
           /\ runner[r].pc # "idle" =>
                 Query(r).from \in Nat /\ Query(r).to \in Nat
BY DEF ExportInv, RunInv, StoreInv, JobInv, Query

LEMMA ExportPageKeeps ==
    ASSUME SweepAssumption, ExportInv, NEW r \in Runners, ExportPage(r)
    PROVE  ExportInv'
<1>. DEFINE run == runner[r]
            f == Query(r)
            more == run.list \o Page(index, f, run.cursor, PageLimit)
            d == NextCursor(backend, index, f, run.cursor, PageLimit)
<1>1. /\ run.pc = "list" /\ UNCHANGED <<vars, jobs, artifacts>>
      /\ runner' = [runner EXCEPT ![r].list = more, ![r].cursor = d,
                                  ![r].pc = IF d # NoCursor THEN "list" ELSE "sign"]
  BY DEF ExportPage, Continues
<1>. HIDE DEF more, d, f
<1>2. DOMAIN runner' = Runners /\ \A q \in Runners \ {r} : runner'[q] = runner[q]
  BY <1>1, RunFields
<1>3. /\ runner'[r].list = more /\ runner'[r].cursor = d
      /\ runner'[r].pc = (IF d # NoCursor THEN "list" ELSE "sign")
      /\ DOMAIN runner'[r] = DOMAIN run /\ runner'[r].job = run.job
      /\ runner'[r].anchor = run.anchor /\ runner'[r].present = run.present
  BY <1>1, RunFields
<1>4. SweepInv' /\ LogMoves
  BY <1>1, RunnerLog, RunFields DEF vars, logVars
<1>5. ServiceMoves /\ StoreInv'
  BY <1>1, <1>4, StoresKept, RunFields DEF vars, logVars, ServiceMoves
<1>6. Query(r)' = f
  BY <1>1, <1>3 DEF Query, f
<1>7. PageLimit \in Nat \ {0} /\ Sorted(index) /\ (alterations = {} => HashesRight(index))
  BY RunFields DEF SweepAssumption, SweepInv, LogInv, RowInv, TrueInv
<1>8. /\ Reading(index, f, run.cursor, run.list, run.present)
      /\ Unbroken(index, alterations, f, run.list) /\ f.from \in Nat /\ f.to \in Nat
  BY <1>1, RunFields DEF RunInv, Walking, f
<1>9. IF d # NoCursor THEN Reading(index, f, d, more, run.present)
                      ELSE Read(index, f, more, run.present)
  BY <1>7, <1>8, ReadingPage DEF d, more
<1>10. Unbroken(index, alterations, f, more)
  BY <1>7, <1>8, UnbrokenPage DEF more
<1>11. run.job \in DOMAIN jobs /\ run.anchor = FALSE
  BY <1>1, RunFields DEF RunInv
<1>12. DOMAIN run = {"pc", "job", "cursor", "list", "root", "anchor", "present"}
  BY RunFields
<1>. HIDE DEF run
<1>13. UNCHANGED <<index, alterations, jobs>>
  BY <1>1 DEF vars, logVars
<1>14. RunInv(r)'
  BY <1>3, <1>6, <1>9, <1>10, <1>11, <1>12, <1>13 DEF RunInv, Walking
<1>. QED  BY <1>2, <1>4, <1>5, <1>14, OthersKept

(* The job is failed or given up, or its artifact is not there: what a     *)
(* runner has then is of no consequence.                                   *)
LEMMA RunStops ==
    ASSUME ExportInv, NEW r \in Runners, SweepInv', StoreInv', ServiceMoves,
           \/ runner' = [runner EXCEPT ![r] = NoRun(r)]
           \/ runner[r].pc # "idle" /\ runner' = [runner EXCEPT ![r].pc = "fail"]
    PROVE  ExportInv'
<1>1. DOMAIN runner' = Runners /\ \A q \in Runners \ {r} : runner'[q] = runner[q]
  BY RunFields
<1>2. CASE runner' = [runner EXCEPT ![r] = NoRun(r)]
  <2>1. runner'[r] = NoRun(r)
    BY <1>2, RunFields
  <2>2. /\ DOMAIN runner'[r] = {"pc", "job", "cursor", "list", "root", "anchor", "present"}
        /\ runner'[r].pc = "idle"
    BY <2>1 DEF NoRun
  <2>3. RunInv(r)'
    BY <2>2 DEF RunInv, Walking
  <2>. QED  BY <1>1, <2>3, OthersKept
<1>3. CASE runner[r].pc # "idle" /\ runner' = [runner EXCEPT ![r].pc = "fail"]
  <2>1. /\ DOMAIN runner'[r] = {"pc", "job", "cursor", "list", "root", "anchor", "present"}
        /\ runner'[r].pc = "fail" /\ runner'[r].job = runner[r].job
    BY <1>3, RunFields
  <2>2. runner[r].job \in DOMAIN jobs'
    BY <1>3, RunFields DEF RunInv, ServiceMoves
  <2>3. RunInv(r)'
    BY <2>1, <2>2 DEF RunInv, Walking
  <2>. QED  BY <1>1, <2>3, OthersKept
<1>. QED  BY <1>2, <1>3

LEMMA ListFailsKeeps ==
    ASSUME ExportInv, NEW r \in Runners, ExportListFails(r)
    PROVE  ExportInv'
<1>1. /\ runner[r].pc # "idle" /\ runner' = [runner EXCEPT ![r].pc = "fail"]
      /\ UNCHANGED <<logVars, sweepVars, jobs, artifacts>> /\ faults' = faults + 1
  BY DEF ExportListFails, Fault
<1>2. SweepInv' /\ LogMoves
  BY <1>1, RunnerLog, RunFields DEF logVars
<1>3. ServiceMoves /\ StoreInv'
  BY <1>1, <1>2, StoresKept, RunFields DEF logVars, ServiceMoves
<1>. QED  BY <1>1, <1>2, <1>3, RunStops

LEMMA AbandonedKeeps ==
    ASSUME ExportInv, NEW r \in Runners, ExportAbandoned(r)
    PROVE  ExportInv'
<1>1. /\ runner' = [runner EXCEPT ![r] = NoRun(r)]
      /\ UNCHANGED <<logVars, sweepVars, jobs, artifacts>> /\ faults' = faults + 1
  BY DEF ExportAbandoned, EndJob, Fault
<1>2. SweepInv' /\ LogMoves
  BY <1>1, RunnerLog, RunFields DEF logVars
<1>3. ServiceMoves /\ StoreInv'
  BY <1>1, <1>2, StoresKept, RunFields DEF logVars, ServiceMoves
<1>. QED  BY <1>1, <1>2, <1>3, RunStops

(* The root of a list is right, and its anchor, if any, is in the store.   *)
LEMMA SignKeeps ==
    ASSUME ExportInv, NEW r \in Runners, ExportSign(r) \/ ExportSignFails(r)
    PROVE  ExportInv'
<1>. DEFINE run == runner[r]
            f == Query(r)
            root == ExportRoot(run.list)
<1>1. /\ run.pc = "sign" /\ UNCHANGED <<backend, index, alterations, sweepVars, jobs, artifacts>>
      /\ UNCHANGED anchors \/ Anchored(r, root)
      /\ faults' = faults \/ faults' = faults + 1
  BY DEF ExportSign, ExportSignFails, Fault
<1>2. \/ /\ backend # "postgres" => Anchored(r, root)
         /\ runner' = [runner EXCEPT ![r].root = root, ![r].pc = "put",
                                     ![r].anchor = backend # "postgres"]
      \/ runner' = [runner EXCEPT ![r].root = root, ![r].pc = "put"]
  BY DEF ExportSign, ExportSignFails
<1>3. Anchored(r, root) => /\ anchors \subseteq anchors'
                           /\ \A a \in anchors' : a \in anchors \/ a.last = 0
                           /\ \E a \in anchors' : a.last = 0 /\ a.root = root
  <2>. SUFFICES ASSUME Anchored(r, root)
                PROVE  /\ anchors \subseteq anchors'
                       /\ \A a \in anchors' : a \in anchors \/ a.last = 0
                       /\ \E a \in anchors' : a.last = 0 /\ a.root = root
    OBVIOUS
  <2>1. PICK at : anchors' = anchors \cup {[last |-> 0, root |-> root, at |-> at]}
    BY DEF Anchored
  <2>. DEFINE a == [last |-> 0, root |-> root, at |-> at]
  <2>2. a.last = 0 /\ a.root = root
    OBVIOUS
  <2>. HIDE DEF a, root
  <2>. QED  BY <2>1, <2>2 DEF a
<1>. HIDE DEF root, f
<1>4. DOMAIN runner' = Runners /\ \A q \in Runners \ {r} : runner'[q] = runner[q]
  BY <1>2, RunFields
<1>5. /\ runner'[r].root = root /\ runner'[r].pc = "put"
      /\ DOMAIN runner'[r] = DOMAIN run /\ runner'[r].job = run.job
      /\ runner'[r].list = run.list /\ runner'[r].present = run.present
  BY <1>2, RunFields
<1>6. runner'[r].anchor => run.anchor \/ Anchored(r, root)
  BY <1>2, RunFields
<1>7. SweepInv' /\ LogMoves
  BY <1>1, <1>3, RunnerLog, RunFields
<1>8. ServiceMoves /\ StoreInv'
  BY <1>1, <1>3, <1>7, StoresKept, RunFields DEF ServiceMoves
<1>9. Query(r)' = f
  BY <1>1, <1>5 DEF Query, f
<1>10. /\ Read(index, f, run.list, run.present) /\ Unbroken(index, alterations, f, run.list)
       /\ run.job \in DOMAIN jobs /\ run.anchor = FALSE
  BY <1>1, RunFields DEF RunInv, Walking, f
<1>11. RootRight(f, run.list, root)
  <2>. SUFFICES ASSUME alterations = {}, Linked(index), f.fields = AnyFields, run.list # << >>
                PROVE  root = run.list[Len(run.list)].row.thisHash
    BY DEF RootRight
  <2>1. HashesRight(index)
    BY RunFields DEF SweepInv, LogInv, TrueInv
  <2>2. IsList(run.list)
    BY <1>10 DEF Read
  <2>3. Unbroken(index, {}, f, run.list)
    BY <1>10
  <2>4. /\ VerifyChain(run.list).status = "ok"
        /\ VerifyChain(run.list).root = run.list[Len(run.list)].row.thisHash
    BY <2>1, <2>2, <2>3, UnbrokenIsOk
  <2>. QED  BY <2>4 DEF ExportRoot, root
<1>12. DOMAIN run = {"pc", "job", "cursor", "list", "root", "anchor", "present"}
  BY RunFields
<1>. HIDE DEF run
<1>13. RunInv(r)'
  <2>1. runner'[r].anchor => \E a \in anchors' : a.last = 0 /\ a.root = runner'[r].root
    BY <1>3, <1>5, <1>6, <1>10
  <2>2. RootRight(Query(r), runner[r].list, runner[r].root)'
    BY <1>1, <1>5, <1>9, <1>11 DEF RootRight
  <2>. QED  BY <1>1, <1>5, <1>9, <1>10, <1>12, <2>1, <2>2 DEF RunInv, Walking, AnchorStored
<1>. QED  BY <1>4, <1>7, <1>8, <1>13, OthersKept

(* An artifact is written by a runner whose list it is, never over one     *)
(* that is locked.                                                         *)
LEMMA ArtifactStored ==
    ASSUME ExportInv, NEW r \in Runners, runner[r].pc = "put",
           ~Protected(runner[r].job), StoreArtifact(r), UNCHANGED <<logVars, jobs>>
    PROVE  /\ ServiceMoves /\ StoreInv'
           /\ runner[r].job \in DOMAIN artifacts'
           /\ artifacts'[runner[r].job].rows = runner[r].list
           /\ artifacts'[runner[r].job].root = runner[r].root
<1>. DEFINE run == runner[r]
            f == Query(r)
<1>1. DOMAIN artifacts' = DOMAIN artifacts \cup {run.job}
  BY DEF StoreArtifact
<1>2. \A j \in DOMAIN artifacts : j # run.job => artifacts'[j] = artifacts[j]
  BY DEF StoreArtifact
<1>3. artifacts'[run.job] = Artifact(r)
  BY DEF StoreArtifact
<1>4. /\ DOMAIN artifacts'[run.job] = {"rows", "root", "present", "locked", "ended"}
      /\ artifacts'[run.job].rows = run.list /\ artifacts'[run.job].root = run.root
      /\ artifacts'[run.job].present = run.present
      /\ artifacts'[run.job].locked \/ artifacts'[run.job].ended
      /\ run.job \in DOMAIN artifacts /\ artifacts[run.job].ended => artifacts'[run.job].ended
  <2>. DEFINE locked == Locks(jobs[run.job].days, FALSE)
              ended == ~locked \/ (run.job \in DOMAIN artifacts /\ artifacts[run.job].ended)
  <2>1. artifacts'[run.job] = [rows |-> run.list, root |-> run.root, present |-> run.present,
                               locked |-> locked, ended |-> ended]
    BY <1>3 DEF Artifact
  <2>2. (locked \/ ended) /\ (run.job \in DOMAIN artifacts /\ artifacts[run.job].ended => ended)
    OBVIOUS
  <2>. HIDE DEF locked, ended
  <2>. QED  BY <2>1, <2>2
<1>5. run.job \in DOMAIN artifacts => artifacts'[run.job].ended
  BY <1>4, RunFields DEF Protected, StoreInv, ArtifactInv
<1>6. ServiceMoves
  BY <1>1, <1>2, <1>5, Stays DEF ServiceMoves, LogMoves, logVars
<1>7. /\ run.job \in DOMAIN jobs /\ f = jobs[run.job].query
      /\ Read(index, f, run.list, run.present) /\ RootRight(f, run.list, run.root)
  BY RunFields DEF RunInv, Query
<1>8. UNCHANGED <<index, alterations, anchors, jobs>>
  BY DEF logVars
<1>. HIDE DEF run, f
<1>9. ASSUME NEW j \in DOMAIN artifacts'
      PROVE  /\ DOMAIN artifacts'[j] = {"rows", "root", "present", "locked", "ended"}
             /\ artifacts'[j].locked \/ artifacts'[j].ended
             /\ Read(index, jobs[j].query, artifacts'[j].rows, artifacts'[j].present)
             /\ RootRight(jobs[j].query, artifacts'[j].rows, artifacts'[j].root)
  <2>1. CASE j \in DOMAIN artifacts /\ j # run.job
    BY <1>2, <2>1, RunFields DEF StoreInv, ArtifactInv
  <2>2. CASE j = run.job
    BY <1>4, <1>7, <2>2
  <2>. QED  BY <1>1, <2>1, <2>2
<1>10. ArtifactInv'
  <2>1. DOMAIN artifacts' \subseteq DOMAIN jobs
    BY <1>1, <1>7, RunFields DEF StoreInv, ArtifactInv
  <2>. QED  BY <1>8, <1>9, <2>1 DEF ArtifactInv, RootRight
<1>11. JobInv'
  BY <1>8, RunFields DEF StoreInv, JobInv
<1>12. CompleteMatchesArtifact'
  <2>1. CompleteMatchesArtifact
    BY RunFields DEF StoreInv
  <2>. QED  BY <1>1, <1>2, <1>5, <1>8, <2>1 DEF CompleteMatchesArtifact
<1>. QED  BY <1>1, <1>4, <1>6, <1>10, <1>11, <1>12 DEF StoreInv, run

LEMMA PutKeeps ==
    ASSUME ExportInv, NEW r \in Runners, ExportPut(r)
    PROVE  ExportInv'
<1>1. runner[r].pc = "put" /\ UNCHANGED <<vars, jobs>>
  BY DEF ExportPut
<1>2. SweepInv' /\ LogMoves
  BY <1>1, RunnerLog, RunFields DEF vars, logVars
<1>3. CASE ~Protected(runner[r].job) /\ StoreArtifact(r)
           /\ runner' = [runner EXCEPT ![r].pc = "complete"]
  <2>. DEFINE run == runner[r]
  <2>1. /\ ServiceMoves /\ StoreInv' /\ run.job \in DOMAIN artifacts'
        /\ artifacts'[run.job].rows = run.list /\ artifacts'[run.job].root = run.root
    BY <1>1, <1>3, ArtifactStored DEF vars
  <2>2. DOMAIN runner' = Runners /\ \A q \in Runners \ {r} : runner'[q] = runner[q]
    BY <1>3, RunFields
  <2>3. /\ runner'[r].pc = "complete" /\ DOMAIN runner'[r] = DOMAIN run
        /\ runner'[r].job = run.job /\ runner'[r].list = run.list /\ runner'[r].root = run.root
        /\ runner'[r].anchor = run.anchor /\ runner'[r].present = run.present
    BY <1>3, RunFields
  <2>4. UNCHANGED <<index, alterations, anchors, jobs>>
    BY <1>1 DEF vars, logVars
  <2>5. Query(r)' = Query(r)
    BY <2>3, <2>4 DEF Query
  <2>6. /\ DOMAIN run = {"pc", "job", "cursor", "list", "root", "anchor", "present"}
        /\ run.job \in DOMAIN jobs /\ Read(index, Query(r), run.list, run.present)
        /\ Unbroken(index, alterations, Query(r), run.list)
        /\ RootRight(Query(r), run.list, run.root)
        /\ run.anchor => AnchorStored(run.root)
    BY <1>1, RunFields DEF RunInv, Walking
  <2>. HIDE DEF run
  <2>7. RunInv(r)'
    BY <2>1, <2>3, <2>4, <2>5, <2>6 DEF RunInv, Walking, RootRight, AnchorStored
  <2>. QED  BY <1>2, <2>1, <2>2, <2>7, OthersKept
<1>4. CASE runner' = [runner EXCEPT ![r].pc = "fail"] /\ UNCHANGED artifacts
  <2>1. ServiceMoves /\ StoreInv'
    BY <1>1, <1>2, <1>4, StoresKept, RunFields DEF vars, logVars, ServiceMoves
  <2>. QED  BY <1>1, <1>2, <1>4, <2>1, RunStops
<1>. QED  BY <1>3, <1>4 DEF ExportPut

LEMMA PutFailsKeeps ==
    ASSUME ExportInv, NEW r \in Runners, ExportPutFails(r)
    PROVE  ExportInv'
<1>1. /\ runner[r].pc = "put" /\ runner' = [runner EXCEPT ![r].pc = "fail"]
      /\ UNCHANGED <<logVars, sweepVars, jobs>> /\ faults' = faults + 1
      /\ \/ UNCHANGED artifacts
         \/ ~Protected(runner[r].job) /\ StoreArtifact(r)
  BY DEF ExportPutFails, Fault
<1>2. SweepInv' /\ LogMoves
  BY <1>1, RunnerLog, RunFields DEF logVars
<1>3. ServiceMoves /\ StoreInv'
  <2>1. CASE UNCHANGED artifacts
    BY <1>1, <1>2, <2>1, StoresKept, RunFields DEF logVars, ServiceMoves
  <2>2. CASE ~Protected(runner[r].job) /\ StoreArtifact(r)
    BY <1>1, <2>2, ArtifactStored
  <2>. QED  BY <1>1, <2>1, <2>2
<1>. QED  BY <1>1, <1>2, <1>3, RunStops

(* A job's row is replaced but for what was requested. *)
LEMMA JobUpdated ==
    ASSUME ExportInv, NEW r \in Runners, runner[r].pc # "idle", NEW result,
           UpdateJob(runner[r].job, result), UNCHANGED <<vars, artifacts>>,
           DOMAIN result = JobFields,
           result.status = "COMPLETE" =>
               /\ runner[r].job \in DOMAIN artifacts
               /\ ~artifacts[runner[r].job].ended =>
                     /\ result.rows = Len(artifacts[runner[r].job].rows)
                     /\ result.root = artifacts[runner[r].job].root
               /\ result.anchor => AnchorStored(result.root)
    PROVE  ServiceMoves /\ StoreInv'
<1>. DEFINE j == runner[r].job
            new == [result EXCEPT !.query = jobs[j].query, !.days = jobs[j].days]
<1>1. j \in DOMAIN jobs
  BY RunFields DEF RunInv
<1>2. /\ DOMAIN new = DOMAIN result /\ new.query = jobs[j].query
      /\ new.status = result.status /\ new.rows = result.rows
      /\ new.root = result.root /\ new.anchor = result.anchor
  BY DEF JobFields
<1>3. UNCHANGED <<index, alterations, anchors, artifacts>>
  BY DEF vars, logVars
<1>4. LogMoves
  BY <1>3, Stays DEF LogMoves
<1>5. CASE UNCHANGED jobs
  <2>1. ServiceMoves
    BY <1>3, <1>4, <1>5 DEF ServiceMoves
  <2>. QED  BY <1>5, <1>3, <2>1, StoresKept, RunFields
<1>6. CASE jobs' = [jobs EXCEPT ![j] = new]
  <2>. HIDE DEF new
  <2>1. DOMAIN jobs' = DOMAIN jobs
    BY <1>6
  <2>2. \A k \in DOMAIN jobs : jobs'[k] = IF k = j THEN new ELSE jobs[k]
    BY <1>1, <1>6
  <2>3. \A k \in DOMAIN jobs : jobs'[k].query = jobs[k].query
    BY <1>2, <2>2
  <2>4. ServiceMoves
    BY <1>3, <1>4, <2>1, <2>3 DEF ServiceMoves
  <2>5. JobInv'
    BY <1>2, <2>1, <2>2, <2>3, RunFields DEF StoreInv, JobInv
  <2>6. ArtifactInv'
    <3>1. ArtifactInv
      BY RunFields DEF StoreInv
    <3>. QED  BY <1>3, <2>1, <2>3, <3>1 DEF ArtifactInv, RootRight
  <2>7. CompleteMatchesArtifact'
    <3>1. CompleteMatchesArtifact
      BY RunFields DEF StoreInv
    <3>2. ASSUME NEW k \in DOMAIN jobs, jobs'[k].status = "COMPLETE"
          PROVE  /\ k \in DOMAIN artifacts
                 /\ ~artifacts[k].ended =>
                       jobs'[k].rows = Len(artifacts[k].rows) /\ jobs'[k].root = artifacts[k].root
                 /\ jobs'[k].anchor => \E a \in anchors : a.last = 0 /\ a.root = jobs'[k].root
      <4>1. CASE k = j
        BY <1>2, <2>2, <3>2, <4>1 DEF AnchorStored
      <4>2. CASE k # j
        BY <2>2, <3>1, <3>2, <4>2 DEF CompleteMatchesArtifact
      <4>. QED  BY <4>1, <4>2
    <3>. QED  BY <1>3, <2>1, <3>2 DEF CompleteMatchesArtifact
  <2>. QED  BY <2>4, <2>5, <2>6, <2>7 DEF StoreInv
<1>. QED  BY <1>5, <1>6 DEF UpdateJob

LEMMA CompleteKeeps ==
    ASSUME ExportInv, NEW r \in Runners, ExportComplete(r)
    PROVE  ExportInv'
<1>. DEFINE run == runner[r]
            result == [status |-> "COMPLETE", query |-> {}, days |-> 0, rows |-> Len(run.list),
                       ref |-> TRUE, root |-> run.root, anchor |-> run.anchor]
<1>1. /\ run.pc = "complete" /\ UpdateJob(run.job, result)
      /\ runner' = [runner EXCEPT ![r] = NoRun(r)] /\ UNCHANGED <<vars, artifacts>>
  BY DEF ExportComplete, EndJob
<1>2. /\ DOMAIN result = JobFields
      /\ result.rows = Len(run.list) /\ result.root = run.root /\ result.anchor = run.anchor
  BY DEF JobFields
<1>3. /\ run.job \in DOMAIN artifacts
      /\ ~artifacts[run.job].ended =>
            artifacts[run.job].rows = run.list /\ artifacts[run.job].root = run.root
      /\ run.anchor => AnchorStored(run.root)
  BY <1>1, RunFields DEF RunInv
<1>4. SweepInv' /\ LogMoves
  BY <1>1, RunnerLog, RunFields DEF vars, logVars
<1>. HIDE DEF result
<1>5. ServiceMoves /\ StoreInv'
  BY <1>1, <1>2, <1>3, JobUpdated
<1>. QED  BY <1>1, <1>4, <1>5, RunStops

LEMMA FailKeeps ==
    ASSUME ExportInv, NEW r \in Runners, ExportFail(r)
    PROVE  ExportInv'
<1>. DEFINE result == [status |-> "FAILED", query |-> {}, days |-> 0, rows |-> 0, ref |-> FALSE,
                       root |-> NilHash, anchor |-> FALSE]
<1>1. /\ runner[r].pc = "fail" /\ UpdateJob(runner[r].job, result)
      /\ runner' = [runner EXCEPT ![r] = NoRun(r)] /\ UNCHANGED <<vars, artifacts>>
  BY DEF ExportFail, EndJob
<1>2. /\ DOMAIN result = JobFields
      /\ result.status # "COMPLETE"
  BY DEF JobFields
<1>3. SweepInv' /\ LogMoves
  BY <1>1, RunnerLog, RunFields DEF vars, logVars
<1>. HIDE DEF result
<1>4. ServiceMoves /\ StoreInv'
  BY <1>1, <1>2, JobUpdated
<1>. QED  BY <1>1, <1>3, <1>4, RunStops

LEMMA TakeKeeps ==
    ASSUME ExportInv, NEW r \in Runners, NEW j \in Jobs, TakeJob(r, j)
    PROVE  ExportInv'
<1>. DEFINE f == jobs[j].query
            present == {i \in DOMAIN index : Matches(index, i, f)}
            new == [NoRun(r) EXCEPT !.job = j, !.pc = IF f.valid THEN "list" ELSE "fail",
                                    !.present = present]
<1>1. j \in DOMAIN jobs /\ runner' = [runner EXCEPT ![r] = new] /\ UNCHANGED <<vars, jobs, artifacts>>
  BY DEF TakeJob
<1>. HIDE DEF f, present
<1>2. /\ DOMAIN new = {"pc", "job", "cursor", "list", "root", "anchor", "present"}
      /\ new.pc \in {"list", "fail"} /\ new.job = j /\ new.cursor = NoCursor
      /\ new.list = << >> /\ new.anchor = FALSE /\ new.present = present
  BY DEF NoRun
<1>. HIDE DEF new
<1>3. /\ DOMAIN runner' = Runners /\ runner'[r] = new
      /\ \A q \in Runners \ {r} : runner'[q] = runner[q]
  BY <1>1, RunFields
<1>4. SweepInv' /\ LogMoves
  BY <1>1, RunnerLog, RunFields DEF vars, logVars
<1>5. ServiceMoves /\ StoreInv'
  BY <1>1, <1>4, StoresKept, RunFields DEF vars, logVars, ServiceMoves
<1>6. Reading(index, f, NoCursor, << >>, present)
  BY RunFields, ReadingStarts DEF SweepInv, LogInv, RowInv, present
<1>7. Unbroken(index, alterations, f, << >>)
  BY UnbrokenStarts
<1>8. Query(r)' = f /\ UNCHANGED <<index, alterations, jobs>>
  BY <1>1, <1>2, <1>3 DEF Query, vars, logVars, f
<1>9. RunInv(r)'
  BY <1>1, <1>2, <1>3, <1>6, <1>7, <1>8 DEF RunInv, Walking
<1>. QED  BY <1>3, <1>4, <1>5, <1>9, OthersKept

LEMMA CreateKeeps ==
    ASSUME ExportAssumption, ExportInv, NEW j \in Jobs, NEW f \in Filters, NEW n \in Retentions,
           CreateJob(j, f, n)
    PROVE  ExportInv'
<1>. DEFINE new == [status |-> "PENDING", query |-> f,
                    days |-> IF n <= 0 THEN DefaultDays ELSE n, rows |-> 0, ref |-> FALSE,
                    root |-> NilHash, anchor |-> FALSE]
<1>1. j \notin DOMAIN jobs /\ UNCHANGED <<vars, artifacts, runner>>
  BY DEF CreateJob
<1>2. /\ DOMAIN new = JobFields
      /\ new.status # "COMPLETE" /\ new.query = f
  BY DEF JobFields
<1>. HIDE DEF new
<1>3. DOMAIN jobs' = DOMAIN jobs \cup {j} /\ \A k \in DOMAIN jobs' : jobs'[k] = IF k = j THEN new ELSE jobs[k]
  BY DEF CreateJob, new
<1>4. SweepInv' /\ LogMoves
  BY <1>1, RunnerLog DEF vars, logVars, ExportInv
<1>5. ServiceMoves
  BY <1>1, <1>3, <1>4 DEF vars, logVars, ServiceMoves
<1>6. JobInv'
  BY <1>2, <1>3 DEF ExportInv, StoreInv, JobInv, ExportAssumption
<1>7. UNCHANGED <<index, alterations, anchors, artifacts>>
  BY <1>1 DEF vars, logVars
<1>8. ArtifactInv'
  <2>1. ArtifactInv
    BY DEF ExportInv, StoreInv
  <2>2. \A k \in DOMAIN artifacts : k \in DOMAIN jobs' /\ jobs'[k].query = jobs[k].query
    BY <1>1, <1>3, <2>1 DEF ArtifactInv
  <2>. QED  BY <1>7, <2>1, <2>2 DEF ArtifactInv, RootRight
<1>9. CompleteMatchesArtifact'
  <2>1. CompleteMatchesArtifact
    BY DEF ExportInv, StoreInv
  <2>. QED  BY <1>2, <1>3, <1>7, <2>1 DEF CompleteMatchesArtifact
<1>10. \A r \in Runners : RunInv(r)'
  BY <1>1, <1>5, RunKept DEF ExportInv
<1>. QED  BY <1>1, <1>4, <1>6, <1>8, <1>9, <1>10 DEF ExportInv, StoreInv

LEMMA LapseKeeps ==
    ASSUME ExportInv, NEW j \in Jobs, ArtifactRetentionEnds(j)
    PROVE  ExportInv'
<1>. DEFINE old == artifacts[j]
            new == [old EXCEPT !.locked = FALSE, !.ended = TRUE]
<1>1. /\ j \in DOMAIN artifacts /\ artifacts' = [artifacts EXCEPT ![j] = new]
      /\ UNCHANGED <<vars, jobs, runner>>
  BY DEF ArtifactRetentionEnds, Protected
<1>2. StoreInv
  BY DEF ExportInv
<1>3. DOMAIN old = {"rows", "root", "present", "locked", "ended"}
  BY <1>1, <1>2 DEF StoreInv, ArtifactInv
<1>4. /\ DOMAIN new = DOMAIN old /\ new.rows = old.rows /\ new.root = old.root
      /\ new.present = old.present /\ new.ended = TRUE
  BY <1>3
<1>5. UNCHANGED <<index, alterations, anchors, jobs>>
  BY <1>1 DEF vars, logVars
<1>. HIDE DEF new
<1>6. /\ DOMAIN artifacts' = DOMAIN artifacts /\ artifacts'[j] = new
      /\ \A k \in DOMAIN artifacts : k # j => artifacts'[k] = artifacts[k]
  BY <1>1
<1>7. SweepInv' /\ LogMoves
  BY <1>1, RunnerLog DEF vars, logVars, ExportInv
<1>8. ServiceMoves
  BY <1>4, <1>5, <1>6, <1>7 DEF ServiceMoves
<1>9. StoreInv'
  <2>1. JobInv'
    BY <1>2, <1>5 DEF StoreInv, JobInv
  <2>2. ArtifactInv'
    <3>1. ASSUME NEW k \in DOMAIN artifacts
          PROVE  /\ DOMAIN artifacts'[k] = {"rows", "root", "present", "locked", "ended"}
                 /\ artifacts'[k].locked \/ artifacts'[k].ended
                 /\ Read(index, jobs[k].query, artifacts'[k].rows, artifacts'[k].present)
                 /\ RootRight(jobs[k].query, artifacts'[k].rows, artifacts'[k].root)
      <4>1. CASE k = j
        BY <1>2, <1>3, <1>4, <1>6, <4>1 DEF StoreInv, ArtifactInv
      <4>2. CASE k # j
        BY <1>2, <1>6, <4>2 DEF StoreInv, ArtifactInv
      <4>. QED  BY <4>1, <4>2
    <3>. QED  BY <1>2, <1>5, <1>6, <3>1 DEF StoreInv, ArtifactInv, RootRight
  <2>3. CompleteMatchesArtifact'
    BY <1>2, <1>4, <1>5, <1>6 DEF StoreInv, CompleteMatchesArtifact
  <2>. QED  BY <2>1, <2>2, <2>3 DEF StoreInv
<1>10. \A r \in Runners : RunInv(r)'
  BY <1>1, <1>8, RunKept DEF ExportInv
<1>. QED  BY <1>1, <1>7, <1>9, <1>10 DEF ExportInv

LEMMA ExportStarts == ExportInit => ExportInv
<1>. SUFFICES ASSUME ExportInit PROVE ExportInv
  OBVIOUS
<1>1. SweepInv
  BY SweepStarts DEF ExportInit
<1>2. StoreInv
  BY DEF ExportInit, StoreInv, JobInv, ArtifactInv, CompleteMatchesArtifact
<1>3. DOMAIN runner = Runners /\ \A r \in Runners : runner[r] = NoRun(r)
  BY DEF ExportInit
<1>4. ASSUME NEW r \in Runners PROVE RunInv(r)
  <2>1. /\ DOMAIN runner[r] = {"pc", "job", "cursor", "list", "root", "anchor", "present"}
        /\ runner[r].pc = "idle"
    BY <1>3 DEF NoRun
  <2>. QED  BY <2>1 DEF RunInv, Walking
<1>. QED  BY <1>1, <1>2, <1>3, <1>4 DEF ExportInv

(* The others' steps: the runners and the stores see the log move. *)
LEMMA LogKeeps ==
    ASSUME SweepAssumption, ExportInv, [SweepNext]_vars, UNCHANGED exportVars
    PROVE  ExportInv'
<1>1. LogMoves /\ anchors \subseteq anchors'
  BY LogSteps DEF ExportInv, SweepInv
<1>2. SweepInv'
  BY SweepSteps DEF ExportInv
<1>3. UNCHANGED <<jobs, artifacts, runner>>
  BY DEF exportVars
<1>4. ServiceMoves
  BY <1>1, <1>3 DEF ServiceMoves
<1>5. StoreInv'
  BY <1>3, <1>4, StoresKept DEF ExportInv
<1>6. \A r \in Runners : RunInv(r)'
  BY <1>3, <1>4, RunKept DEF ExportInv
<1>. QED  BY <1>2, <1>3, <1>5, <1>6 DEF ExportInv

LEMMA ExportSteps ==
    ASSUME SweepAssumption, ExportAssumption, ExportInv, [ExportNext]_allVars
    PROVE  ExportInv'
<1>1. CASE SweepNext /\ UNCHANGED exportVars
  BY <1>1, LogKeeps
<1>2. CASE UNCHANGED allVars
  <2>1. UNCHANGED vars /\ UNCHANGED exportVars
    BY <1>2 DEF allVars
  <2>. QED  BY <2>1, LogKeeps
<1>3. ASSUME NEW r \in Runners, ExportStep(r) PROVE ExportInv'
  BY <1>3, ExportPageKeeps, ListFailsKeeps, SignKeeps, PutKeeps, PutFailsKeeps, CompleteKeeps,
     FailKeeps, AbandonedKeeps DEF ExportStep
<1>. QED  BY <1>1, <1>2, <1>3, CreateKeeps, TakeKeeps, LapseKeeps DEF ExportNext

(* And the one of the exports, beside ingest, anchor job and sweep.         *)
THEOREM ExportInvariant == ExportSpec => []ExportInv
<1>1. ExportInit => ExportInv
  BY ExportStarts
<1>2. ExportInv /\ [ExportNext]_allVars => ExportInv'
  BY SweepAssumption, ExportAssumption, ExportSteps
<1>. QED  BY <1>1, <1>2, PTL DEF ExportSpec

(* Two runners of one job, a refused put or a failed call between any two  *)
(* steps: a job marked COMPLETE has its artifact in the bucket, describes  *)
(* it as long as the object was never without protection, and the anchor   *)
(* it names was inserted (Exports, RunJob).                                *)
THEOREM CompleteMatchesArtifactHolds == ExportSpec => []CompleteMatchesArtifact
<1>1. ExportInv => CompleteMatchesArtifact
  BY DEF ExportInv, StoreInv
<1>. QED  BY <1>1, ExportInvariant, PTL

(* An unfiltered artifact holds every row of its window that was there     *)
(* when the job was taken, and on an unaltered, linked log its root is the *)
(* hash of its last row, for any number of pages and instances.            *)
THEOREM ArtifactsProveHolds == ExportSpec => []ArtifactsProve
<1>1. ExportInv => ArtifactsProve
  <2>. SUFFICES ASSUME ExportInv, NEW j \in DOMAIN artifacts, jobs[j].query.fields = AnyFields
                PROVE  ArtifactProves(j)
    BY DEF ArtifactsProve
  <2>. DEFINE list == artifacts[j].rows
  <2>1. /\ Read(index, jobs[j].query, list, artifacts[j].present)
        /\ RootRight(jobs[j].query, list, artifacts[j].root)
    BY DEF ExportInv, StoreInv, ArtifactInv
  <2>2. DOMAIN list = 1..Len(list)
    BY <2>1 DEF Read, IsList
  <2>3. artifacts[j].present \subseteq {list[k].id : k \in DOMAIN list}
    BY <2>1, <2>2 DEF Read, IdsOf
  <2>. QED  BY <2>1, <2>3 DEF ArtifactProves, RootRight
<1>. QED  BY <1>1, ExportInvariant, PTL

(* What exports add to the anchors does not disturb the sweep.             *)
THEOREM SweepBesideExports == ExportSpec => [](WalksWindow /\ NoFalseAlarm)
<1>1. ExportInv => WalksWindow /\ NoFalseAlarm
  BY ReportWalks, ReportTrue DEF ExportInv, SweepInv
<1>. QED  BY <1>1, ExportInvariant, PTL
=============================================================================
