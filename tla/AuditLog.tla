------------------------------ MODULE AuditLog -------------------------------
(***************************************************************************)
(* The service as a whole on its write side: the ingest workers of module  *)
(* Ingest, and in the same processes the anchor loop (chain.AnchorJob, run *)
(* by a ticker) and the legal-hold endpoint, which update the flags of the *)
(* rows the workers insert.  The ticker may fire at any moment.            *)
(***************************************************************************)
EXTENDS Ingest

VARIABLES
    anchors,    \* chain_anchors, without id, time and signature
    anchorPc,   \* the anchor loop of each worker: idle, sign or mark
    anchorHead  \* the head its current run has read

anchorVars == <<anchors, anchorPc, anchorHead>>
allVars == <<vars, anchorVars>>

(* What ingest and the anchor loop leave alone of each other. *)
ingestRest == <<kafkaVars, workerVars, policy, objects, deadLetters>>

NoHead == [id |-> 0, ts |-> 0, root |-> ZeroHash]

AnchorGoto(w, l) == anchorPc' = [anchorPc EXCEPT ![w] = l]

AuditInit ==
    /\ Init
    /\ anchors = {}
    /\ anchorPc = [w \in Workers |-> "idle"]
    /\ anchorHead = [w \in Workers |-> NoHead]

(* The ticker fires: the job reads the chain head.  On an empty chain, or  *)
(* when the read fails, the run ends and nothing has changed.              *)
AnchorReadHead(w) ==
    /\ pc[w] # "down"
    /\ anchorPc[w] = "idle"
    /\ DOMAIN index # {}
    /\ anchorHead' = [anchorHead EXCEPT ![w] =
          LET h == ChainHead(index) IN [id |-> h, ts |-> index[h].ts, root |-> index[h].thisHash]]
    /\ AnchorGoto(w, "sign")
    /\ UNCHANGED <<ingestRest, index, faults, anchors>>

(* The root is signed and the anchor row inserted. *)
AnchorInsert(w) ==
    /\ anchorPc[w] = "sign"
    /\ anchors' = anchors \cup {anchorHead[w]}
    /\ AnchorGoto(w, "mark")
    /\ UNCHANGED <<ingestRest, index, faults, anchorHead>>

(* Mutant of EndRun: the head of the run before is kept. *)
EndRunKeepsHead(w) ==
    /\ AnchorGoto(w, "idle")
    /\ UNCHANGED anchorHead

EndRun(w) ==
    /\ AnchorGoto(w, "idle")
    /\ anchorHead' = [anchorHead EXCEPT ![w] = NoHead]

(* Mutant of AnchorInsertFails: the error is ignored. *)
AnchorInsertGoesOn(w) ==
    /\ anchorPc[w] = "sign"
    /\ Fault
    /\ UNCHANGED anchors \/ anchors' = anchors \cup {anchorHead[w]}
    /\ AnchorGoto(w, "mark")
    /\ UNCHANGED <<ingestRest, index, anchorHead>>

(* Signing fails, or the insert does, before or after it took effect. *)
AnchorInsertFails(w) ==
    /\ anchorPc[w] = "sign"
    /\ Fault
    /\ UNCHANGED anchors \/ anchors' = anchors \cup {anchorHead[w]}
    /\ EndRun(w)
    /\ UNCHANGED <<ingestRest, index>>

(* Every row up to the head is marked, those inserted since included. *)
AnchorMark(w) ==
    /\ anchorPc[w] = "mark"
    /\ index' = MarkAnchored(index, anchorHead[w].ts, anchorHead[w].id)
    /\ EndRun(w)
    /\ UNCHANGED <<ingestRest, faults, anchors>>

AnchorMarkFails(w) ==
    /\ anchorPc[w] = "mark"
    /\ Fault
    /\ \/ UNCHANGED index
       \/ index' = MarkAnchored(index, anchorHead[w].ts, anchorHead[w].id)
    /\ EndRun(w)
    /\ UNCHANGED <<ingestRest, anchors>>

AnchorStep(w) == AnchorReadHead(w) \/ AnchorInsert(w) \/ AnchorMark(w)

(* POST /v1/admin/legal-hold/:id sets the flag of the row. *)
LegalHold(id, hold) ==
    /\ id \in DOMAIN index
    /\ index' = SetLegalHold(index, id, hold)
    /\ UNCHANGED <<ingestRest, faults, anchorVars>>

(* A crash takes the anchor loop of the process down too. *)
ProcessCrash(w) ==
    /\ Crash(w)
    /\ EndRun(w)
    /\ UNCHANGED anchors

AuditNext ==
    \/ Step /\ UNCHANGED anchorVars
    \/ \E w \in Workers :
          ProcessCrash(w) \/ AnchorStep(w) \/ AnchorInsertFails(w) \/ AnchorMarkFails(w)
    \/ \E id \in Ids, hold \in BOOLEAN : LegalHold(id, hold)

AuditSpec == AuditInit /\ [][AuditNext]_allVars

(* Consumers go on as in Ingest; the ticker of a live process keeps firing *)
(* and a run it starts goes on.                                            *)
AuditFairness ==
    /\ \A w \in Workers : WF_allVars(Work(w) /\ UNCHANGED anchorVars)
    /\ \A p \in Partitions :
          WF_allVars(\E w \in Workers : ReadMessage(w, p) /\ UNCHANGED anchorVars)
    /\ \A w \in Workers : WF_allVars(AnchorStep(w))

AuditFairSpec == AuditSpec /\ AuditFairness

-----------------------------------------------------------------------------
AuditTypeOK ==
    /\ TypeOK
    /\ anchors \subseteq [id : Ids, ts : Nat, root : KnownHashes]
    /\ anchorPc \in [Workers -> {"idle", "sign", "mark"}]
    /\ \A w \in Workers :
          IF anchorPc[w] = "idle" THEN anchorHead[w] = NoHead
          ELSE anchorHead[w] \in [id : Ids, ts : Nat, root : KnownHashes]

(* A sweep finds no anchor mismatch: the row an anchor names is still in   *)
(* the index, at the same place in the order, with the hash that was       *)
(* signed.                                                                 *)
AnchorsMatchIndex ==
    \A a \in anchors :
        /\ a.id \in DOMAIN index
        /\ index[a.id].ts = a.ts
        /\ index[a.id].thisHash = a.root

(* No row says anchored before an anchor at or after it in the order is in *)
(* the anchor table, whatever fails between the two writes.                *)
AnchoredAfterAnchor ==
    \A i \in DOMAIN index :
        index[i].anchored => \E a \in anchors : NotLater(index[i].ts, i, a.ts, a.id)

(* Row i is among the rows reached from the anchored hash by following     *)
(* prev_hash: it is in every set of rows closed under that step.           *)
CoveredBy(a, i) ==
    \A S \in SUBSET DOMAIN index :
        (/\ \A j \in DOMAIN index : index[j].thisHash = a.root => j \in S
         /\ \A j \in S : \A k \in DOMAIN index :
               index[k].thisHash = index[j].prevHash => k \in S)
        => i \in S

(* A row marked anchored is included in a root that was signed: its hash   *)
(* can be reached from the root, so altering it would break the anchor.    *)
AnchoredInRoot ==
    \A i \in DOMAIN index : index[i].anchored => \E a \in anchors : CoveredBy(a, i)

(* Every row is in the end marked anchored, unless no process is left to   *)
(* run the anchor loop.                                                    *)
EventuallyAnchored ==
    \A i \in Ids :
        i \in DOMAIN index ~>
            \/ i \in DOMAIN index /\ index[i].anchored
            \/ \A w \in Workers : pc[w] = "down"
=============================================================================
