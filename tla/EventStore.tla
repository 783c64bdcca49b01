----------------------------- MODULE EventStore -----------------------------
(***************************************************************************)
(* The index of audit events (internal/store, memstore and postgres): what *)
(* each method of store.EventStore computes, as operators on an index.     *)
(* An index is a function from the ids it holds to rows.  Ids and          *)
(* timestamps are naturals: only their order matters, and it is the order  *)
(* of every listing, (ts ASC, id ASC).  Both implementations run a method  *)
(* in one atomic step (a mutex, or one SQL statement).                     *)
(***************************************************************************)
EXTENDS Naturals

EmptyIndex == [i \in {} |-> {}]

(* Row (t, i) is listed no later than row (u, j). *)
NotLater(t, i, u, j) == t < u \/ (t = u /\ i <= j)

RowNotLater(index, i, j) == NotLater(index[i].ts, i, index[j].ts, j)

IsHead(index, h) ==
    /\ h \in DOMAIN index
    /\ \A i \in DOMAIN index : RowNotLater(index, i, h)

(* Mutant of ChainHead: ORDER BY id alone. *)
ChainHeadById(index) == CHOOSE h \in DOMAIN index : \A i \in DOMAIN index : i <= h

(* The tail of the (ts, id) order, which is not the last row inserted. *)
ChainHead(index) == CHOOSE h \in DOMAIN index : IsHead(index, h)

(* Mutant of Insert: ON CONFLICT (id) DO UPDATE. *)
Upsert(index, id, row) ==
    [i \in DOMAIN index \cup {id} |-> IF i = id THEN row ELSE index[i]]

(* ON CONFLICT (id) DO NOTHING: an id already there keeps its row. *)
Insert(index, id, row) ==
    [i \in DOMAIN index \cup {id} |-> IF i \in DOMAIN index THEN index[i] ELSE row]

(* Mutants of MarkAnchored: no upper bound; a strict one. *)
MarkAllAnchored(index, ts, id) ==
    [i \in DOMAIN index |-> [index[i] EXCEPT !.anchored = TRUE]]

MarkAnchoredBefore(index, ts, id) ==
    [i \in DOMAIN index |->
        IF ~NotLater(ts, id, index[i].ts, i) THEN [index[i] EXCEPT !.anchored = TRUE]
                                             ELSE index[i]]

(* Every row at or before (ts, id), whether or not it was there when the   *)
(* caller read (ts, id).                                                   *)
MarkAnchored(index, ts, id) ==
    [i \in DOMAIN index |->
        IF NotLater(index[i].ts, i, ts, id) THEN [index[i] EXCEPT !.anchored = TRUE]
                                            ELSE index[i]]

(* Mutant of SetLegalHold: the whole flag set is written back. *)
OverwriteFlags(index, id, hold) ==
    [index EXCEPT ![id].legalHold = hold, ![id].anchored = FALSE]

SetLegalHold(index, id, hold) == [index EXCEPT ![id].legalHold = hold]

(* Row p is listed right before row i. *)
IsPredecessor(index, p, i) ==
    /\ p # i
    /\ RowNotLater(index, p, i)
    /\ \A q \in DOMAIN index \ {i} : RowNotLater(index, q, i) => RowNotLater(index, q, p)

IsFirst(index, i) == \A q \in DOMAIN index : RowNotLater(index, i, q)
=============================================================================
