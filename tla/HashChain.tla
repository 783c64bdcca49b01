----------------------------- MODULE HashChain ------------------------------
(***************************************************************************)
(* internal/chain: the hash that links audit events and the verifier that  *)
(* walks it.  SHA-256 over the length-prefixed fields is symbolic: a hash  *)
(* is the tuple of what it covers, so two hashes are equal exactly when    *)
(* everything they cover is (collisions are outside the model).  The       *)
(* service, actor, action and target of an event are one value, "fields".  *)
(* The payload body is not covered, only payload_hash is.                  *)
(***************************************************************************)
EXTENDS EventStore

ZeroHash == << >>

HashPayload(body) == <<"sha256", body>>

CanonicalHash(id, ts, fields, payloadHash, prevHash) ==
    <<id, ts, fields, payloadHash, prevHash>>

(* this_hash recomputed from a stored row. *)
EventHash(id, row) ==
    CanonicalHash(id, row.ts, row.fields, row.payloadHash, row.prevHash)

(* A nil prev: only the row's own hash is checked. *)
NilHash == <<"nil">>

(* Mutant of VerifyRow: the linkage is not checked. *)
VerifyHashOnly(id, row, prev) ==
    IF EventHash(id, row) # row.thisHash THEN "broken" ELSE "ok"

(* The verdict on a row, given the this_hash expected before it. *)
VerifyRow(id, row, prev) ==
    IF EventHash(id, row) # row.thisHash THEN "broken"
    ELSE IF prev # NilHash /\ row.prevHash # prev THEN "gap"
    ELSE "ok"

VerifyEvent(index, i, prev) == VerifyRow(i, index[i], prev)

(* A full walk of the index in (ts, id) order finds nothing, and the first *)
(* row links to the genesis value.                                         *)
Linked(index) ==
    \A i \in DOMAIN index :
        /\ IsFirst(index, i) => VerifyEvent(index, i, ZeroHash) = "ok"
        /\ \A p \in DOMAIN index :
              IsPredecessor(index, p, i) => VerifyEvent(index, i, index[p].thisHash) = "ok"
=============================================================================
