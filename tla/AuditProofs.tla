---------------------------- MODULE AuditProofs ------------------------------
(***************************************************************************)
(* What holds of AuditLog, the ingest workers and the anchor loops in one  *)
(* system, for every number of processes, messages and faults.  The ingest *)
(* steps are those of Ingest, so its invariant IndInv is kept by them; what *)
(* has to be shown is that the two loops do not disturb each other.        *)
(***************************************************************************)
EXTENDS AuditLog, IngestProofs

(* Anchor a names a row of the index, as it is there. *)
Names(a) ==
    /\ a \in [id : DOMAIN index, ts : Nat, root : KnownHashes]
    /\ index[a.id].ts = a.ts
    /\ index[a.id].thisHash = a.root

(* What an anchor loop carries from one store call to the next: the head   *)
(* it read is still that row, and what it is about to mark is anchored.    *)
LoopInv ==
    /\ anchorPc \in [Workers -> {"idle", "sign", "mark"}]
    /\ DOMAIN anchorHead = Workers
    /\ \A w \in Workers :
          /\ anchorPc[w] = "idle" => anchorHead[w] = NoHead
          /\ anchorPc[w] # "idle" => Names(anchorHead[w])
          /\ anchorPc[w] = "mark" => anchorHead[w] \in anchors
    /\ \A a \in anchors : Names(a)

AuditInv == IndInv /\ LoopInv /\ AnchoredAfterAnchor

USE IngestAssumption

-----------------------------------------------------------------------------
(* Only the mark of an anchor run sets the anchored flag.                  *)

NoneMarked ==
    \A i \in DOMAIN index' : index'[i].anchored => i \in DOMAIN index /\ index[i].anchored

(* An ingest step keeps every row and marks none. *)
LEMMA IngestStep ==
    ASSUME IndInv, [Next]_vars
    PROVE  RowsStay /\ NoneMarked
<1>1. CASE UNCHANGED index
  BY <1>1 DEF RowsStay, NoneMarked
<1>2. ASSUME NEW w \in Workers, Index(w)
      PROVE  RowsStay /\ NoneMarked
  <2>1. /\ DOMAIN index' = DOMAIN index \cup {Msg(w).id}
        /\ \A i \in DOMAIN index : index'[i] = index[i]
        /\ Msg(w).id \notin DOMAIN index =>
              index'[Msg(w).id] = NewRow(Msg(w), job[w].redacted, job[w].prev)
    BY <1>2, InsertKeeps DEF Index, Insert
  <2>2. ~NewRow(Msg(w), job[w].redacted, job[w].prev).anchored
    BY DEF NewRow
  <2>. QED  BY <2>1, <2>2 DEF RowsStay, NoneMarked
<1>. QED  BY <1>1, <1>2, OnlyInsertWrites

(* Marking rows sets the flag of those at or before the head it was given. *)
LEMMA MarkIsFlags ==
    ASSUME IndInv, NEW ts, NEW id, index' = MarkAnchored(index, ts, id)
    PROVE  /\ OnlyFlags
           /\ \A i \in DOMAIN index :
                 index'[i].anchored <=> index[i].anchored \/ NotLater(index[i].ts, i, ts, id)
<1>1. \A i \in DOMAIN index : index[i] \in Row(KnownHashes)
  BY DEF IndInv, TypeInv, IndexTypes
<1>2. ASSUME NEW i \in DOMAIN index, NotLater(index[i].ts, i, ts, id)
      PROVE  index'[i] = [index[i] EXCEPT !.anchored = TRUE]
  BY <1>2 DEF MarkAnchored
<1>3. ASSUME NEW i \in DOMAIN index, ~NotLater(index[i].ts, i, ts, id)
      PROVE  index'[i] = index[i]
  BY <1>3 DEF MarkAnchored
<1>4. ASSUME NEW i \in DOMAIN index
      PROVE  /\ index'[i] \in Row(KnownHashes) /\ Columns(index'[i]) = Columns(index[i])
             /\ index'[i].anchored <=> index[i].anchored \/ NotLater(index[i].ts, i, ts, id)
  <2>1. CASE NotLater(index[i].ts, i, ts, id)
    <3>1. index[i] \in Row(KnownHashes) /\ index'[i] = [index[i] EXCEPT !.anchored = TRUE]
      BY <1>1, <1>2, <2>1
    <3>2. index'[i] \in Row(KnownHashes)
      BY <3>1 DEF Row
    <3>3. Columns(index'[i]) = Columns(index[i])
      BY <3>1 DEF Row, Columns
    <3>4. index'[i].anchored
      BY <3>1 DEF Row
    <3>. QED  BY <2>1, <3>2, <3>3, <3>4
  <2>2. CASE ~NotLater(index[i].ts, i, ts, id)
    BY <1>1, <1>3, <2>2
  <2>. QED  BY <2>1, <2>2
<1>. QED  BY <1>4 DEF OnlyFlags, MarkAnchored

(* A row an anchor names stays named. *)
LEMMA NamesStay ==
    ASSUME RowsStay
    PROVE  \A a : Names(a) => Names(a)'
<1>1. KnownHashes \subseteq KnownHashes'
  BY DEF KnownHashes, RowsStay
<1>. QED  BY <1>1 DEF Names, RowsStay

(* The head another loop carries stays named. *)
LEMMA HeadStays ==
    ASSUME RowsStay, NEW v \in Workers, Names(anchorHead[v]), anchorHead'[v] = anchorHead[v]
    PROVE  Names(anchorHead[v])'
<1>1. PICK h : h = anchorHead[v]
  OBVIOUS
<1>2. Names(h)
  BY <1>1 DEF Names
<1>3. Names(h)' /\ h = anchorHead'[v]
  BY <1>1, <1>2, NamesStay
<1>. QED  BY <1>3 DEF Names

(* Rows that stay, are not marked, and lose no anchor are still covered.   *)
LEMMA CoverStays ==
    ASSUME AnchoredAfterAnchor, RowsStay, NoneMarked, anchors \subseteq anchors'
    PROVE  AnchoredAfterAnchor'
BY DEF AnchoredAfterAnchor, RowsStay, NoneMarked

(* The anchored rows of a step that leaves the index alone. *)
LEMMA SameIndex ==
    ASSUME UNCHANGED index
    PROVE  RowsStay /\ NoneMarked
BY DEF RowsStay, NoneMarked

-----------------------------------------------------------------------------
(* The two loops.                                                          *)

(* The last row of an index that is not empty. *)
LEMMA HeadIsRow ==
    ASSUME IndInv, DOMAIN index # {}
    PROVE  ChainHead(index) \in DOMAIN index
BY DEF IndInv, HasHead, ChainHead, IsHead

(* A run that ends leaves the loop of w idle, with no head. *)
LEMMA EndRunKeeps ==
    ASSUME LoopInv, RowsStay, NEW w \in Workers, EndRun(w),
           anchors \subseteq anchors', \A a \in anchors' \ anchors : Names(a)
    PROVE  LoopInv'
<1>1. /\ anchorPc'[w] = "idle" /\ anchorHead'[w] = NoHead
      /\ anchorPc' \in [Workers -> {"idle", "sign", "mark"}]
      /\ DOMAIN anchorHead' = Workers
  BY DEF EndRun, AnchorGoto, LoopInv
<1>2. \A v \in Workers \ {w} : anchorPc'[v] = anchorPc[v] /\ anchorHead'[v] = anchorHead[v]
  BY DEF EndRun, AnchorGoto, LoopInv
<1>3. ASSUME NEW v \in Workers
      PROVE  /\ anchorPc'[v] = "idle" => anchorHead'[v] = NoHead
             /\ anchorPc'[v] # "idle" => Names(anchorHead[v])'
             /\ anchorPc'[v] = "mark" => anchorHead'[v] \in anchors'
  <2>1. CASE v = w
    BY <1>1, <2>1
  <2>2. CASE v # w
    BY <1>2, <2>2, HeadStays DEF LoopInv
  <2>. QED  BY <2>1, <2>2
<1>4. \A a \in anchors' : Names(a)'
  BY NamesStay DEF LoopInv
<1>. QED  BY <1>1, <1>3, <1>4 DEF LoopInv

(* Loops that are left alone keep what they carry while rows stay. *)
LEMMA LoopsStay ==
    ASSUME LoopInv, RowsStay, UNCHANGED anchorVars
    PROVE  LoopInv'
<1>. USE DEF anchorVars, LoopInv
<1>1. ASSUME NEW v \in Workers, anchorPc[v] # "idle" PROVE Names(anchorHead[v])'
  BY <1>1, HeadStays
<1>2. \A a \in anchors' : Names(a)'
  BY NamesStay
<1>. QED  BY <1>1, <1>2

(* A loop that stays in its run with the head it has. *)
LEMMA LoopGoesOn ==
    ASSUME LoopInv, RowsStay, NEW w \in Workers, anchorPc[w] = "sign", AnchorGoto(w, "mark"),
           UNCHANGED anchorHead, anchors' = anchors \cup {anchorHead[w]}
    PROVE  LoopInv'
<1>1. /\ anchorPc'[w] = "mark"
      /\ \A v \in Workers \ {w} : anchorPc'[v] = anchorPc[v]
      /\ anchorPc' \in [Workers -> {"idle", "sign", "mark"}]
  BY DEF AnchorGoto, LoopInv
<1>2. ASSUME NEW v \in Workers, anchorPc[v] # "idle" PROVE Names(anchorHead[v])'
  BY <1>2, HeadStays DEF LoopInv
<1>3. \A a \in anchors' : Names(a)'
  BY NamesStay DEF LoopInv
<1>. QED  BY <1>1, <1>2, <1>3 DEF LoopInv

-----------------------------------------------------------------------------
(* Every action keeps the invariant.                                       *)

(* The initial states satisfy it. *)
LEMMA AuditInitInv == AuditInit => AuditInv
<1>. SUFFICES ASSUME AuditInit PROVE AuditInv
  OBVIOUS
<1>1. IndInv
  BY InitIndInv DEF AuditInit
<1>2. DOMAIN index = {}
  BY DEF AuditInit, Init, EmptyIndex
<1>. QED  BY <1>1, <1>2 DEF AuditInit, AuditInv, LoopInv, AnchoredAfterAnchor

(* Ingest, and a crash that takes both loops down. *)
LEMMA IngestKeeps ==
    ASSUME AuditInv, Next, UNCHANGED anchorVars \/ \E w \in Workers : EndRun(w) /\ UNCHANGED anchors
    PROVE  AuditInv'
<1>. USE DEF AuditInv
<1>1. IndInv'
  BY NextIndInv
<1>2. RowsStay /\ NoneMarked
  BY IngestStep
<1>3. LoopInv'
  BY <1>2, LoopsStay, EndRunKeeps
<1>4. AnchoredAfterAnchor'
  BY <1>2, CoverStays DEF anchorVars
<1>. QED  BY <1>1, <1>3, <1>4

(* A run reads the head: the last row, as it is there. *)
LEMMA ReadHeadKeeps ==
    ASSUME AuditInv, NEW w \in Workers, AnchorReadHead(w)
    PROVE  AuditInv'
<1>. USE DEF AuditInv, AnchorReadHead
<1>. DEFINE h == ChainHead(index)
            head == [id |-> h, ts |-> index[h].ts, root |-> index[h].thisHash]
<1>1. IndInv' /\ RowsStay
  BY FlagsKeepIndInv DEF ingestRest
<1>2. AnchoredAfterAnchor'
  BY SameIndex, CoverStays
<1>3. h \in DOMAIN index /\ index[h].ts \in Nat /\ index[h].thisHash \in KnownHashes
  BY HeadIsRow DEF IndInv, TypeInv, IndexTypes, Row
<1>4. /\ anchorPc'[w] = "sign" /\ anchorHead'[w] = head
      /\ \A v \in Workers \ {w} : anchorPc'[v] = anchorPc[v] /\ anchorHead'[v] = anchorHead[v]
      /\ anchorPc' \in [Workers -> {"idle", "sign", "mark"}]
      /\ DOMAIN anchorHead' = Workers
  BY DEF AnchorGoto, LoopInv
<1>. HIDE DEF h
<1>5. Names(anchorHead[w])'
  BY <1>3, <1>4 DEF Names, KnownHashes
<1>6. ASSUME NEW v \in Workers, anchorPc'[v] # "idle" PROVE Names(anchorHead[v])'
  <2>1. CASE v = w
    BY <1>5, <2>1
  <2>2. CASE v # w
    BY <1>1, <1>4, <1>6, <2>2, HeadStays DEF LoopInv
  <2>. QED  BY <2>1, <2>2
<1>7. \A a \in anchors' : Names(a)'
  BY <1>1, NamesStay DEF LoopInv
<1>8. LoopInv'
  BY <1>4, <1>6, <1>7 DEF LoopInv
<1>. QED  BY <1>1, <1>2, <1>8

(* The anchor is stored, with or without an answer. *)
LEMMA InsertKeepsInv ==
    ASSUME AuditInv, NEW w \in Workers, AnchorInsert(w) \/ AnchorInsertFails(w)
    PROVE  AuditInv'
<1>. USE DEF AuditInv
<1>1. IndInv' /\ RowsStay
  BY FlagsKeepIndInv DEF AnchorInsert, AnchorInsertFails, ingestRest
<1>2. AnchoredAfterAnchor'
  BY SameIndex, CoverStays DEF AnchorInsert, AnchorInsertFails
<1>3. Names(anchorHead[w])
  BY DEF LoopInv, AnchorInsert, AnchorInsertFails
<1>4. CASE AnchorInsert(w)
  <2>1. /\ anchorPc[w] = "sign" /\ AnchorGoto(w, "mark")
        /\ UNCHANGED anchorHead /\ anchors' = anchors \cup {anchorHead[w]}
    BY <1>4 DEF AnchorInsert
  <2>. QED  BY <1>1, <1>2, <2>1, LoopGoesOn
<1>5. CASE AnchorInsertFails(w)
  <2>1. EndRun(w) /\ anchors \subseteq anchors' /\ anchors' \subseteq anchors \cup {anchorHead[w]}
    BY <1>5 DEF AnchorInsertFails
  <2>2. ASSUME NEW a \in anchors' \ anchors PROVE Names(a)
    <3>1. a = anchorHead[w]
      BY <2>1
    <3>. QED  BY <1>3, <3>1 DEF Names
  <2>. QED  BY <1>1, <1>2, <2>1, <2>2, EndRunKeeps
<1>. QED  BY <1>1, <1>2, <1>4, <1>5

(* Rows are marked: those at or before a head that is in the anchors, and  *)
(* rows inserted since that head was read among them.                      *)
LEMMA MarkKeeps ==
    ASSUME AuditInv, NEW w \in Workers, AnchorMark(w) \/ AnchorMarkFails(w)
    PROVE  AuditInv'
<1>. USE DEF AuditInv, AnchorMark, AnchorMarkFails
<1>1. CASE UNCHANGED index
  <2>1. IndInv' /\ RowsStay
    BY <1>1, FlagsKeepIndInv DEF ingestRest
  <2>2. AnchoredAfterAnchor'
    BY <1>1, SameIndex, CoverStays
  <2>3. LoopInv'
    BY <2>1, EndRunKeeps
  <2>. QED  BY <2>1, <2>2, <2>3
<1>2. CASE index' = MarkAnchored(index, anchorHead[w].ts, anchorHead[w].id)
  <2>1. /\ OnlyFlags
        /\ \A i \in DOMAIN index :
              index'[i].anchored =>
                 index[i].anchored \/ NotLater(index[i].ts, i, anchorHead[w].ts, anchorHead[w].id)
    BY <1>2, MarkIsFlags
  <2>2. IndInv' /\ RowsStay
    BY <2>1, FlagsKeepIndInv DEF ingestRest
  <2>3. anchorHead[w] \in anchors /\ anchors' = anchors
    BY DEF LoopInv
  <2>4. DOMAIN index' = DOMAIN index /\ \A i \in DOMAIN index : index'[i].ts = index[i].ts
    BY <2>1, <2>2 DEF OnlyFlags, RowsStay
  <2>5. AnchoredAfterAnchor'
    BY <2>1, <2>3, <2>4 DEF AnchoredAfterAnchor
  <2>6. LoopInv'
    BY <2>2, EndRunKeeps
  <2>. QED  BY <2>2, <2>5, <2>6
<1>. QED  BY <1>1, <1>2

(* A legal hold is another flag of the row. *)
LEMMA LegalHoldKeeps ==
    ASSUME AuditInv, NEW id \in Ids, NEW hold \in BOOLEAN, LegalHold(id, hold)
    PROVE  AuditInv'
<1>. USE DEF AuditInv, LegalHold
<1>1. OnlyFlags /\ \A i \in DOMAIN index : index'[i].anchored = index[i].anchored
  BY HoldIsFlags
<1>2. IndInv' /\ RowsStay
  BY <1>1, FlagsKeepIndInv DEF ingestRest
<1>3. NoneMarked
  BY <1>1 DEF NoneMarked, OnlyFlags
<1>4. AnchoredAfterAnchor' /\ LoopInv'
  BY <1>2, <1>3, CoverStays, LoopsStay DEF anchorVars
<1>. QED  BY <1>2, <1>4

(* Every step keeps the invariant. *)
LEMMA AuditNextInv == AuditInv /\ [AuditNext]_allVars => AuditInv'
<1>. SUFFICES ASSUME AuditInv, [AuditNext]_allVars PROVE AuditInv'
  OBVIOUS
<1>1. CASE Step /\ UNCHANGED anchorVars
  BY <1>1, IngestKeeps DEF Next
<1>2. ASSUME NEW w \in Workers, ProcessCrash(w) PROVE AuditInv'
  BY <1>2, IngestKeeps DEF ProcessCrash, Next
<1>3. ASSUME NEW w \in Workers, AnchorStep(w) \/ AnchorInsertFails(w) \/ AnchorMarkFails(w)
      PROVE  AuditInv'
  BY <1>3, ReadHeadKeeps, InsertKeepsInv, MarkKeeps DEF AnchorStep
<1>4. ASSUME NEW id \in Ids, NEW hold \in BOOLEAN, LegalHold(id, hold) PROVE AuditInv'
  BY <1>4, LegalHoldKeeps
<1>5. CASE UNCHANGED allVars
  <2>1. IndInv'
    BY <1>5, NextIndInv DEF allVars, AuditInv
  <2>2. RowsStay /\ NoneMarked /\ UNCHANGED anchorVars
    BY <1>5, SameIndex DEF allVars, vars, storeVars
  <2>. QED  BY <2>1, <2>2, LoopsStay, CoverStays DEF AuditInv, anchorVars
<1>. QED  BY <1>1, <1>2, <1>3, <1>4, <1>5 DEF AuditNext

(* The invariant holds in every reachable state. *)
LEMMA AuditInvariance == AuditSpec => []AuditInv
BY AuditInitInv, AuditNextInv, PTL DEF AuditSpec
-----------------------------------------------------------------------------
(* Every variable of the composed system keeps its type; a loop holds a    *)
(* head exactly while it is in a run.                                      *)
THEOREM AuditTypeCorrect == AuditSpec => []AuditTypeOK
<1>1. IndInv => TypeOK /\ DOMAIN index \subseteq Ids
  BY DEF IndInv, TypeInv, TypeOK, HeldHashes, WorkerTypes, IndexTypes, Row
<1>2. LoopInv /\ DOMAIN index \subseteq Ids => anchors \subseteq [id : Ids, ts : Nat, root : KnownHashes]
  BY DEF LoopInv, Names
<1>3. ASSUME LoopInv, DOMAIN index \subseteq Ids, NEW w \in Workers
      PROVE  IF anchorPc[w] = "idle" THEN anchorHead[w] = NoHead
             ELSE anchorHead[w] \in [id : Ids, ts : Nat, root : KnownHashes]
  BY <1>3 DEF LoopInv, Names
<1>4. AuditInv => AuditTypeOK
  BY <1>1, <1>2, <1>3 DEF AuditInv, AuditTypeOK, LoopInv
<1>. QED  BY <1>4, AuditInvariance, PTL

(* Every anchor names a row that is in the index with the hash that was    *)
(* signed, however many processes ingest and anchor and whatever fails: a  *)
(* sweep can report no mismatch that nobody caused.                        *)
THEOREM AnchorsMatch == AuditSpec => []AnchorsMatchIndex
<1>1. AuditInv => AnchorsMatchIndex
  BY DEF AuditInv, LoopInv, Names, AnchorsMatchIndex
<1>. QED  BY <1>1, AuditInvariance, PTL

(* No row says anchored before an anchor at or after it is in the table,   *)
(* though rows are inserted while a run is between its store calls.        *)
THEOREM MarkedAfterAnchor == AuditSpec => []AnchoredAfterAnchor
<1>1. AuditInv => AnchoredAfterAnchor
  BY DEF AuditInv
<1>. QED  BY <1>1, AuditInvariance, PTL

(* A change of flags is a step of the log that anchors rows, or a stutter. *)
LEMMA FlagsRefine ==
    ASSUME OnlyFlags,
           \A i \in DOMAIN index : index[i].anchored => index'[i].anchored
    PROVE  [Log!Next]_Log!vars
<1>1. [i \in DOMAIN index |-> Columns(index[i])]' = [i \in DOMAIN index |-> Columns(index[i])]
  BY DEF OnlyFlags
<1>2. {i \in DOMAIN index : index[i].anchored} \subseteq {i \in DOMAIN index : index[i].anchored}'
  BY DEF OnlyFlags
<1>3. {i \in DOMAIN index : index[i].anchored}' \subseteq DOMAIN [i \in DOMAIN index |-> Columns(index[i])]
  BY DEF OnlyFlags
<1>. QED  BY <1>1, <1>2, <1>3 DEF Log!Next, Log!Anchor

(* The index of the composed system is still an append-only log: the       *)
(* anchor loops only set flags, and never take one back.                   *)
THEOREM AuditAppendOnly == AuditSpec => ImplementsLog
<1>1. AuditInit => Log!Init
  BY DEF AuditInit, Init, EmptyIndex, Log!Init
<1>2. AuditInv /\ [AuditNext]_allVars => [Log!Next]_Log!vars
  <2>. SUFFICES ASSUME AuditInv, [AuditNext]_allVars PROVE [Log!Next]_Log!vars
    OBVIOUS
  <2>1. CASE UNCHANGED index
    BY <2>1 DEF Log!vars
  <2>2. CASE Next
    BY <2>2, NextRefines DEF AuditInv
  <2>3. ASSUME NEW w \in Workers, index' = MarkAnchored(index, anchorHead[w].ts, anchorHead[w].id)
        PROVE  [Log!Next]_Log!vars
    BY <2>3, MarkIsFlags, FlagsRefine DEF AuditInv
  <2>4. ASSUME NEW id \in Ids, NEW hold \in BOOLEAN, LegalHold(id, hold)
        PROVE  [Log!Next]_Log!vars
    BY <2>4, HoldIsFlags, FlagsRefine DEF AuditInv, LegalHold
  <2>5. ASSUME NEW w \in Workers,
               ProcessCrash(w) \/ AnchorStep(w) \/ AnchorInsertFails(w) \/ AnchorMarkFails(w)
        PROVE  Next \/ UNCHANGED index
               \/ index' = MarkAnchored(index, anchorHead[w].ts, anchorHead[w].id)
    BY <2>5 DEF ProcessCrash, Next, AnchorStep, AnchorReadHead, AnchorInsert, AnchorMark,
                AnchorInsertFails, AnchorMarkFails
  <2>6. CASE Step /\ UNCHANGED anchorVars
    BY <2>2, <2>6 DEF Next
  <2>7. CASE UNCHANGED allVars
    BY <2>1, <2>7 DEF allVars, vars, storeVars
  <2>. QED  BY <2>1, <2>2, <2>3, <2>4, <2>5, <2>6, <2>7 DEF AuditNext
<1>. QED  BY <1>1, <1>2, AuditInvariance, PTL DEF AuditSpec, ImplementsLog, Log!Spec
=============================================================================
