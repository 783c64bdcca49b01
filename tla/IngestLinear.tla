---------------------------- MODULE IngestLinear -----------------------------
(***************************************************************************)
(* Ingest seen through the order every reader uses: the rows of the index  *)
(* listed by (ts, id).  With one worker, one partition and producers in    *)
(* order, that list only grows at its end (LinearLog).                     *)
(***************************************************************************)
EXTENDS Ingest, Listing

(* EventStore.List without a filter, in one page. *)
ListAll(ix) ==
    [n \in 1..Cardinality(DOMAIN ix) |->
        LET i == CHOOSE j \in DOMAIN ix : Rank(ix, DOMAIN ix, j) = n
        IN  [id |-> i, prev |-> ix[i].prevHash, this |-> ix[i].thisHash]]

Linear == INSTANCE LinearLog WITH Genesis <- ZeroHash, chain <- ListAll(index)

(* The index implements the sequence that only grows at its end: no event  *)
(* ever lands between two others, and each links to the one listed before. *)
ImplementsLinearLog == Linear!Spec
=============================================================================
