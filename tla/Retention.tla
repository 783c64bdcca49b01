----------------------------- MODULE Retention ------------------------------
(***************************************************************************)
(* The payload bucket over the years: module Ingest, where the retention   *)
(* of an object ends at some time, objects no longer retained are deleted  *)
(* (by a lifecycle rule, or by whoever may call Delete), and rows of the   *)
(* index are put under legal hold.  The hold is a column of the row; the   *)
(* object is not told.                                                     *)
(***************************************************************************)
EXTENDS Ingest

VARIABLE
    lapsed   \* history: keys for which a retention has ended

retentionVars == <<vars, lapsed>>

RetentionInit == Init /\ lapsed = {}

(* The retention of an object is over.  A legal hold it was put with stays.*)
RetentionEnds(k) ==
    /\ k \in DOMAIN objects
    /\ objects[k].retained
    /\ ~LegalHoldDefault
    /\ objects' = [objects EXCEPT ![k].retained = FALSE]
    /\ lapsed' = lapsed \cup {k}
    /\ UNCHANGED <<kafkaVars, workerVars, policy, index, deadLetters, faults>>

(* Delete of an object; ErrRetentionActive while it is retained. *)
Delete(k) ==
    /\ k \in DOMAIN objects
    /\ ~objects[k].retained
    /\ objects' = [j \in DOMAIN objects \ {k} |-> objects[j]]
    /\ UNCHANGED <<kafkaVars, workerVars, policy, index, deadLetters, faults, lapsed>>

(* POST /v1/admin/legal-hold/:id sets or clears the flag of the row. *)
Hold(id, hold) ==
    /\ id \in DOMAIN index
    /\ index[id].legalHold # hold
    /\ index' = SetLegalHold(index, id, hold)
    /\ UNCHANGED <<kafkaVars, workerVars, policy, objects, deadLetters, faults, lapsed>>

RetentionNext ==
    \/ Next /\ UNCHANGED lapsed
    \/ \E k \in Ids : RetentionEnds(k) \/ Delete(k)
    \/ \E id \in Ids, hold \in BOOLEAN : Hold(id, hold)

RetentionSpec == RetentionInit /\ [][RetentionNext]_retentionVars

-----------------------------------------------------------------------------
(* Until a retention of its key has ended, the payload of a row is there,  *)
(* and payload, flag and hash agree, whichever deliveries overlap, fail,   *)
(* are repeated under another policy or carry the id of another event.     *)
ProvableWhileRetained == \A i \in DOMAIN index \ lapsed : Provable(i)

(* No step deletes the payload of a row that is under legal hold. *)
HeldPayloadKept ==
    [][\A i \in DOMAIN index \cap DOMAIN objects :
          index[i].legalHold /\ index[i].payloadRef => i \in DOMAIN objects']_retentionVars
=============================================================================
