------------------------------ MODULE Listing -------------------------------
(***************************************************************************)
(* Reading the index: EventStore.List, one page at a time after a cursor,  *)
(* and the verifiers that work on what it returns.  A filter is a record   *)
(* [from, to, fields]; time 0 is Go's zero time, which sets no bound.      *)
(***************************************************************************)
EXTENDS HashChain, Sequences, FiniteSets

AnyFields == "any"

NoCursor == [ts |-> 0, id |-> 0]

InWindow(ts, f) == ts >= f.from /\ (f.to # 0 => ts < f.to)

Matches(index, i, f) ==
    /\ InWindow(index[i].ts, f)
    /\ f.fields \in {AnyFields, index[i].fields}

(* Mutants of After: by timestamp alone; the row of the cursor included. *)
AfterTime(index, i, c) == index[i].ts > c.ts

NotBefore(index, i, c) == NotLater(c.ts, c.id, index[i].ts, i)

(* Row i is listed after the last row of the page before. *)
After(index, i, c) == ~NotLater(index[i].ts, i, c.ts, c.id)

Remaining(index, f, c) == {i \in DOMAIN index : Matches(index, i, f) /\ After(index, i, c)}

Rank(index, S, i) == Cardinality({j \in S : RowNotLater(index, j, i)})

(* The first limit rows that match and come after the cursor, in order. *)
Page(index, f, c, limit) ==
    LET S == Remaining(index, f, c)
        n == Cardinality(S)
    IN  [k \in 1..(IF n < limit THEN n ELSE limit) |->
            LET i == CHOOSE j \in S : Rank(index, S, j) = k IN [id |-> i, row |-> index[i]]]

(* The cursor after that page.  Postgres asks for one row more, to see     *)
(* whether there is one; memory gives a cursor whenever the page is full.  *)
NextCursor(backend, index, f, c, limit) ==
    LET n == Cardinality(Remaining(index, f, c))
        page == Page(index, f, c, limit)
        last == page[Len(page)]
    IN  IF n > limit \/ (n = limit /\ n > 0 /\ backend = "memory")
        THEN [ts |-> last.row.ts, id |-> last.id]
        ELSE NoCursor

(* The walk of a list: the verdict on its first bad row, if it has one,    *)
(* and the root.  The first row may link to anything.                      *)
VerifyChain(list) ==
    LET verdict == [k \in 1..Len(list) |->
                       VerifyRow(list[k].id, list[k].row,
                                 IF k = 1 THEN NilHash ELSE list[k - 1].row.thisHash)]
        bad == {k \in 1..Len(list) : verdict[k] # "ok"}
        first == CHOOSE k \in bad : \A l \in bad : k <= l
    IN  IF bad # {} THEN [status |-> verdict[first], position |-> first, root |-> NilHash]
        ELSE [status |-> "ok", position |-> 0,
              root |-> IF list = << >> THEN ZeroHash ELSE list[Len(list)].row.thisHash]

(* Mutant of PrecedingHash: the scan runs forward. *)
FirstHash(index, id, limit) ==
    LET before == Page(index, [from |-> 0, to |-> index[id].ts, fields |-> AnyFields], NoCursor, limit)
    IN  IF before = << >> THEN ZeroHash ELSE before[1].row.thisHash

(* GET /v1/events/:id/verify-chain: the hash of the last of the first      *)
(* limit rows before the timestamp of id, taken for its predecessor.       *)
PrecedingHash(index, id, limit) ==
    LET before == Page(index, [from |-> 0, to |-> index[id].ts, fields |-> AnyFields], NoCursor, limit)
    IN  IF before = << >> THEN ZeroHash ELSE before[Len(before)].row.thisHash

EndpointVerdict(index, id, limit) == VerifyEvent(index, id, PrecedingHash(index, id, limit))
=============================================================================
