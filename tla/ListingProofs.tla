--------------------------- MODULE ListingProofs ----------------------------
(***************************************************************************)
(* What one page of a listing is, and a list put together from pages while *)
(* rows are inserted, for every finite index, filter and limit.            *)
(***************************************************************************)
EXTENDS Listing, FiniteSetTheorems, TLAPS

(* Times and ids order the rows of a finite index. *)
Placed(idx) ==
    IsFiniteSet(DOMAIN idx) /\ \A i \in DOMAIN idx : i \in Nat /\ idx[i].ts \in Nat

(* And no row is of time 0, which a filter or a cursor would not show.     *)
Sorted(idx) ==
    IsFiniteSet(DOMAIN idx) /\ \A i \in DOMAIN idx : i \in Nat /\ idx[i].ts \in Nat \ {0}

LEMMA SortedPlaced ==
    ASSUME NEW idx, Sorted(idx)
    PROVE  Placed(idx)
BY DEF Sorted, Placed

-----------------------------------------------------------------------------
(* The order of the rows, and ranks in it.                                 *)

LEMMA TotalOrder ==
    ASSUME NEW idx, Placed(idx)
    PROVE  /\ \A i, j \in DOMAIN idx : RowNotLater(idx, i, j) \/ RowNotLater(idx, j, i)
           /\ \A i, j \in DOMAIN idx : RowNotLater(idx, i, j) /\ RowNotLater(idx, j, i) => i = j
           /\ \A i, j, k \in DOMAIN idx :
                 RowNotLater(idx, i, j) /\ RowNotLater(idx, j, k) => RowNotLater(idx, i, k)
           /\ \A i \in DOMAIN idx : RowNotLater(idx, i, i)
BY DEF Placed, RowNotLater, NotLater

LEMMA RankRange ==
    ASSUME NEW idx, Placed(idx), NEW S \in SUBSET DOMAIN idx, NEW i \in S
    PROVE  Rank(idx, S, i) \in 1..Cardinality(S)
<1>. DEFINE B == {j \in S : RowNotLater(idx, j, i)}
<1>1. IsFiniteSet(S)
  BY FS_Subset DEF Placed
<1>2. B \in SUBSET S /\ i \in B
  BY TotalOrder
<1>3. IsFiniteSet(B) /\ Cardinality(B) <= Cardinality(S)
  BY <1>1, <1>2, FS_Subset
<1>4. Cardinality(B) \in Nat /\ Cardinality(S) \in Nat /\ Cardinality(B) # 0
  BY <1>1, <1>2, <1>3, FS_CardinalityType, FS_EmptySet
<1>. QED  BY <1>3, <1>4 DEF Rank

(* A later row has a higher rank. *)
LEMMA RankGrows ==
    ASSUME NEW idx, Placed(idx), NEW S \in SUBSET DOMAIN idx, NEW i \in S, NEW j \in S,
           RowNotLater(idx, i, j), i # j
    PROVE  Rank(idx, S, i) < Rank(idx, S, j)
<1>. DEFINE B(x) == {y \in S : RowNotLater(idx, y, x)}
<1>1. IsFiniteSet(S)
  BY FS_Subset DEF Placed
<1>2. B(j) \in SUBSET S /\ B(i) \in SUBSET B(j) /\ j \in B(j) /\ j \notin B(i)
  BY TotalOrder
<1>. HIDE DEF B
<1>3. IsFiniteSet(B(j))
  BY <1>1, <1>2, FS_Subset
<1>4. IsFiniteSet(B(i)) /\ Cardinality(B(i)) <= Cardinality(B(j)) /\ Cardinality(B(i)) # Cardinality(B(j))
  BY <1>2, <1>3, FS_Subset
<1>5. Cardinality(B(i)) \in Nat /\ Cardinality(B(j)) \in Nat
  BY <1>3, <1>4, FS_CardinalityType
<1>. QED  BY <1>4, <1>5 DEF Rank, B

LEMMA RankOrder ==
    ASSUME NEW idx, Placed(idx), NEW S \in SUBSET DOMAIN idx, NEW i \in S, NEW j \in S
    PROVE  Rank(idx, S, i) <= Rank(idx, S, j) <=> RowNotLater(idx, i, j)
<1>1. Rank(idx, S, i) \in Nat /\ Rank(idx, S, j) \in Nat
  BY RankRange
<1>2. CASE i = j
  BY <1>1, <1>2, TotalOrder
<1>3. CASE i # j /\ RowNotLater(idx, i, j)
  BY <1>1, <1>3, RankGrows
<1>4. CASE i # j /\ ~RowNotLater(idx, i, j)
  <2>1. RowNotLater(idx, j, i)
    BY <1>4, TotalOrder
  <2>2. Rank(idx, S, j) < Rank(idx, S, i)
    BY <1>4, <2>1, RankGrows
  <2>. QED  BY <1>1, <1>4, <2>2
<1>. QED  BY <1>2, <1>3, <1>4

(* Every rank is somebody's. *)
LEMMA RankTaken ==
    ASSUME NEW idx, Placed(idx), NEW S \in SUBSET DOMAIN idx, NEW k \in 1..Cardinality(S)
    PROVE  \E i \in S : Rank(idx, S, i) = k
<1>. DEFINE n == Cardinality(S)
            f == [i \in S |-> Rank(idx, S, i)]
<1>1. IsFiniteSet(S)
  BY FS_Subset DEF Placed
<1>2. n \in Nat
  BY <1>1, FS_CardinalityType
<1>3. IsFiniteSet(1..n) /\ Cardinality(1..n) = n
  BY <1>2, FS_Interval
<1>4. f \in [S -> 1..n]
  BY RankRange
<1>5. \A i, j \in S : f[i] = f[j] => i = j
  <2>. SUFFICES ASSUME NEW i \in S, NEW j \in S, Rank(idx, S, i) = Rank(idx, S, j) PROVE i = j
    OBVIOUS
  <2>1. Rank(idx, S, i) \in Nat /\ Rank(idx, S, j) \in Nat
    BY RankRange
  <2>2. RowNotLater(idx, i, j) /\ RowNotLater(idx, j, i)
    BY <2>1, RankOrder
  <2>. QED  BY <2>2, TotalOrder
<1>6. f \in Injection(S, 1..n)
  BY <1>4, <1>5 DEF Injection, IsInjective
<1>7. f \in Surjection(S, 1..n)
  BY <1>3, <1>6, FS_Injection
<1>. QED  BY <1>7 DEF Surjection

-----------------------------------------------------------------------------
(* One page.                                                               *)

(* The page's rows are those of the first ranks among the rows remaining.  *)
LEMMA PageRows ==
    ASSUME NEW idx, Sorted(idx), NEW f, NEW c, NEW limit \in Nat \ {0}
    PROVE  LET S == Remaining(idx, f, c)
               n == Cardinality(S)
               P == Page(idx, f, c, limit)
           IN  /\ S \in SUBSET DOMAIN idx /\ IsFiniteSet(S) /\ n \in Nat
               /\ Len(P) = (IF n < limit THEN n ELSE limit) /\ \E R : P \in Seq(R)
               /\ \A k \in 1..Len(P) : /\ P[k].id \in S /\ P[k].row = idx[P[k].id]
                                       /\ Rank(idx, S, P[k].id) = k
<1>. DEFINE S == Remaining(idx, f, c)
            n == Cardinality(S)
            m == IF n < limit THEN n ELSE limit
            P == Page(idx, f, c, limit)
            At(k) == CHOOSE j \in S : Rank(idx, S, j) = k
            R == {[id |-> i, row |-> idx[i]] : i \in S}
<1>1. S \in SUBSET DOMAIN idx
  BY DEF Remaining
<1>2. IsFiniteSet(S)
  BY <1>1, FS_Subset DEF Sorted
<1>3. n \in Nat
  BY <1>2, FS_CardinalityType
<1>4. m \in Nat /\ 1..m \subseteq 1..n
  BY <1>3
<1>5. ASSUME NEW k \in 1..m PROVE At(k) \in S /\ Rank(idx, S, At(k)) = k
  <2>1. \E j \in S : Rank(idx, S, j) = k
    BY <1>1, <1>4, SortedPlaced, RankTaken
  <2>. HIDE DEF S
  <2>. QED  BY <2>1
<1>6. P = [k \in 1..m |-> [id |-> At(k), row |-> idx[At(k)]]]
  BY DEF Page
<1>. HIDE DEF P, S, At
<1>7. \A k \in 1..m : P[k] = [id |-> At(k), row |-> idx[At(k)]]
  BY <1>6
<1>8. P \in [1..m -> R]
  BY <1>5, <1>6
<1>. HIDE DEF m
<1>9. P \in Seq(R) /\ Len(P) = m
  BY <1>4, <1>8
<1>10. \E T : P \in Seq(T)
  <2>. HIDE DEF R
  <2>. QED  BY <1>9
<1>11. ASSUME NEW k \in 1..m PROVE P[k].id = At(k) /\ P[k].row = idx[P[k].id]
  <2>1. P[k] = [id |-> At(k), row |-> idx[At(k)]]
    BY <1>7
  <2>2. P[k].id = At(k)
    BY ONLY <2>1
  <2>3. P[k].row = idx[At(k)]
    BY ONLY <2>1
  <2>. QED  BY <2>2, <2>3
<1>12. \A k \in 1..Len(P) : P[k].id \in S /\ P[k].row = idx[P[k].id] /\ Rank(idx, S, P[k].id) = k
  BY <1>5, <1>9, <1>11
<1>13. Len(P) = (IF n < limit THEN n ELSE limit)
  BY <1>9 DEF m
<1>. QED  BY <1>1, <1>2, <1>3, <1>10, <1>12, <1>13 DEF S, P

(* They are in listing order. *)
LEMMA PageOrdered ==
    ASSUME NEW idx, Sorted(idx), NEW f, NEW c, NEW limit \in Nat \ {0},
           NEW k \in 1..Len(Page(idx, f, c, limit)), NEW l \in 1..Len(Page(idx, f, c, limit)), k < l
    PROVE  LET P == Page(idx, f, c, limit)
           IN  RowNotLater(idx, P[k].id, P[l].id) /\ P[k].id # P[l].id
<1>. DEFINE S == Remaining(idx, f, c)
            P == Page(idx, f, c, limit)
<1>1. /\ S \in SUBSET DOMAIN idx
      /\ P[k].id \in S /\ Rank(idx, S, P[k].id) = k
      /\ P[l].id \in S /\ Rank(idx, S, P[l].id) = l
      /\ k \in Nat /\ l \in Nat
  BY PageRows
<1>. HIDE DEF S, P
<1>. QED  BY <1>1, SortedPlaced, RankOrder DEF P

(* A row that remains is on the page or comes after a full page. *)
LEMMA PageHolds ==
    ASSUME NEW idx, Sorted(idx), NEW f, NEW c, NEW limit \in Nat \ {0},
           NEW i \in Remaining(idx, f, c)
    PROVE  LET n == Cardinality(Remaining(idx, f, c))
               P == Page(idx, f, c, limit)
           IN  \/ \E k \in 1..Len(P) : P[k].id = i
               \/ n > limit /\ Len(P) = limit /\ ~RowNotLater(idx, i, P[limit].id)
<1>. DEFINE S == Remaining(idx, f, c)
            n == Cardinality(S)
            P == Page(idx, f, c, limit)
            r == Rank(idx, S, i)
<1>1. /\ S \in SUBSET DOMAIN idx /\ IsFiniteSet(S) /\ n \in Nat
      /\ Len(P) = (IF n < limit THEN n ELSE limit)
      /\ \A k \in 1..Len(P) : P[k].id \in S /\ Rank(idx, S, P[k].id) = k
  BY PageRows
<1>2. r \in 1..n
  BY <1>1, SortedPlaced, RankRange
<1>. HIDE DEF S, P, n
<1>3. CASE r \in 1..Len(P)
  <2>1. P[r].id \in S /\ Rank(idx, S, P[r].id) = r
    BY <1>1, <1>3
  <2>2. RowNotLater(idx, P[r].id, i) /\ RowNotLater(idx, i, P[r].id)
    BY <1>1, <1>2, <2>1, SortedPlaced, RankOrder DEF S
  <2>3. P[r].id = i
    BY <1>1, <2>1, <2>2, SortedPlaced, TotalOrder DEF S
  <2>. QED  BY <1>3, <2>3 DEF P
<1>4. CASE r \notin 1..Len(P)
  <2>1. n > limit /\ Len(P) = limit /\ r > limit
    BY <1>1, <1>2, <1>4
  <2>2. P[limit].id \in S /\ Rank(idx, S, P[limit].id) = limit
    BY <1>1, <2>1
  <2>3. ~RowNotLater(idx, i, P[limit].id)
    BY <1>1, <1>2, <2>1, <2>2, SortedPlaced, RankOrder DEF S
  <2>. QED  BY <2>1, <2>3 DEF P, n, S
<1>. QED  BY <1>3, <1>4

-----------------------------------------------------------------------------
(* A list read page by page while the index grows.                         *)

IsList(s) == \E R : s \in Seq(R)

IdsOf(list) == {list[k].id : k \in 1..Len(list)}

(* The rows of the list are in the index and in the window. *)
RowsOf(idx, f, list) ==
    \A k \in 1..Len(list) : /\ list[k].id \in DOMAIN idx
                            /\ list[k].row.ts = idx[list[k].id].ts
                            /\ InWindow(list[k].row.ts, f)

InOrder(list) ==
    \A k, l \in 1..Len(list) : k < l =>
        /\ list[k].id # list[l].id
        /\ NotLater(list[k].row.ts, list[k].id, list[l].row.ts, list[l].id)

(* The cursor is that of the last row listed. *)
UpTo(c, list) ==
    IF list = << >> THEN c = NoCursor
    ELSE c = [ts |-> list[Len(list)].row.ts, id |-> list[Len(list)].id]

(* A list that goes on after cursor c, and one that is complete: what was  *)
(* present at the start is listed or still to come.                        *)
Reading(idx, f, c, list, present) ==
    /\ IsList(list) /\ RowsOf(idx, f, list) /\ InOrder(list) /\ UpTo(c, list)
    /\ f.fields = AnyFields => present \subseteq IdsOf(list) \cup Remaining(idx, f, c)

Read(idx, f, list, present) ==
    /\ IsList(list) /\ RowsOf(idx, f, list) /\ InOrder(list)
    /\ f.fields = AnyFields => present \subseteq IdsOf(list)

(* Rows are inserted, and no row changes its time. *)
Grows(idx, jdx) ==
    DOMAIN idx \subseteq DOMAIN jdx /\ \A i \in DOMAIN idx : jdx[i].ts = idx[i].ts

LEMMA Joined ==
    ASSUME NEW s, NEW t, IsList(s), IsList(t)
    PROVE  /\ IsList(s \o t) /\ Len(s) \in Nat /\ Len(t) \in Nat
           /\ Len(s \o t) = Len(s) + Len(t)
           /\ \A k \in 1..Len(s) : (s \o t)[k] = s[k]
           /\ \A k \in 1..Len(t) : (s \o t)[Len(s) + k] = t[k]
           /\ s = << >> <=> Len(s) = 0
<1>1. PICK A : s \in Seq(A)
  BY DEF IsList
<1>2. PICK B : t \in Seq(B)
  BY DEF IsList
<1>3. s \in Seq(A \cup B) /\ t \in Seq(A \cup B)
  BY <1>1, <1>2
<1>4. s \o t \in Seq(A \cup B)
  BY <1>3
<1>5. IsList(s \o t)
  BY <1>4 DEF IsList
<1>. QED  BY <1>3, <1>5

(* The first page has everything before it. *)
LEMMA ReadingStarts ==
    ASSUME NEW idx, Sorted(idx), NEW f, NEW present,
           present = {i \in DOMAIN idx : Matches(idx, i, f)}
    PROVE  Reading(idx, f, NoCursor, << >>, present)
<1>1. present \subseteq Remaining(idx, f, NoCursor)
  BY DEF Remaining, After, NotLater, NoCursor, Sorted
<1>2. IsList(<< >>)
  <2>1. << >> \in Seq({})
    OBVIOUS
  <2>. QED  BY <2>1 DEF IsList
<1>. QED  BY <1>1, <1>2 DEF Reading, RowsOf, InOrder, UpTo

LEMMA ReadingGrows ==
    ASSUME NEW idx, NEW jdx, Grows(idx, jdx), NEW f, NEW c, NEW list, NEW present,
           Reading(idx, f, c, list, present)
    PROVE  Reading(jdx, f, c, list, present)
<1>1. RowsOf(jdx, f, list)
  BY DEF Reading, RowsOf, Grows
<1>2. f.fields = AnyFields => Remaining(idx, f, c) \subseteq Remaining(jdx, f, c)
  BY DEF Remaining, Matches, After, Grows
<1>. QED  BY <1>1, <1>2 DEF Reading

LEMMA ReadGrows ==
    ASSUME NEW idx, NEW jdx, Grows(idx, jdx), NEW f, NEW list, NEW present,
           Read(idx, f, list, present)
    PROVE  Read(jdx, f, list, present)
BY DEF Read, RowsOf, Grows

(* The next page goes on, or completes the list. *)
LEMMA ReadingPage ==
    ASSUME NEW idx, Sorted(idx), NEW f, NEW c, NEW list, NEW present, NEW impl,
           NEW limit \in Nat \ {0}, Reading(idx, f, c, list, present)
    PROVE  LET more == list \o Page(idx, f, c, limit)
               d == NextCursor(impl, idx, f, c, limit)
           IN  IF d # NoCursor THEN Reading(idx, f, d, more, present)
                               ELSE Read(idx, f, more, present)
<1>. DEFINE S == Remaining(idx, f, c)
            n == Cardinality(S)
            P == Page(idx, f, c, limit)
            more == list \o P
            d == NextCursor(impl, idx, f, c, limit)
            a == Len(list)
            b == Len(P)
<1>1. /\ S \in SUBSET DOMAIN idx /\ n \in Nat
      /\ b = (IF n < limit THEN n ELSE limit) /\ IsList(P)
      /\ \A k \in 1..b : P[k].id \in S /\ P[k].row = idx[P[k].id]
  BY PageRows DEF IsList
<1>2. /\ IsList(list) /\ RowsOf(idx, f, list) /\ InOrder(list) /\ UpTo(c, list)
      /\ f.fields = AnyFields => present \subseteq IdsOf(list) \cup S
  BY DEF Reading
<1>3. /\ IsList(more) /\ a \in Nat /\ b \in Nat /\ Len(more) = a + b
      /\ \A k \in 1..a : more[k] = list[k]
      /\ \A k \in 1..b : more[a + k] = P[k]
      /\ list = << >> <=> a = 0
  BY <1>1, <1>2, Joined
<1>4. \A k, l \in 1..b : k < l => RowNotLater(idx, P[k].id, P[l].id) /\ P[k].id # P[l].id
  BY PageOrdered
<1>5. d = IF n > limit \/ (n = limit /\ n > 0 /\ impl = "memory")
          THEN [ts |-> P[b].row.ts, id |-> P[b].id] ELSE NoCursor
  BY DEF NextCursor
<1>6. \A i \in S : \/ \E k \in 1..b : P[k].id = i
                   \/ n > limit /\ b = limit /\ ~RowNotLater(idx, i, P[limit].id)
  BY PageHolds
<1>7. \A i \in S : i \in DOMAIN idx /\ InWindow(idx[i].ts, f) /\ After(idx, i, c)
  BY DEF Remaining, Matches
<1>8. \A i \in S : f.fields \in {AnyFields, idx[i].fields}
  BY DEF Remaining, Matches
<1>. HIDE DEF P, S, n, d, more, a, b
<1>9. \A k \in 1..Len(more) : k \in 1..a \/ (k - a \in 1..b /\ more[k] = P[k - a])
  <2>. SUFFICES ASSUME NEW k \in 1..Len(more), k \notin 1..a
                PROVE  k - a \in 1..b /\ more[k] = P[k - a]
    OBVIOUS
  <2>1. k - a \in 1..b /\ k = a + (k - a)
    BY <1>3
  <2>. QED  BY <1>3, <2>1
<1>10. RowsOf(idx, f, more)
  <2>. SUFFICES ASSUME NEW k \in 1..Len(more)
                PROVE  /\ more[k].id \in DOMAIN idx /\ more[k].row.ts = idx[more[k].id].ts
                       /\ InWindow(more[k].row.ts, f)
    BY DEF RowsOf
  <2>1. CASE k \in 1..a
    BY <1>2, <1>3, <2>1 DEF RowsOf, a
  <2>2. CASE k - a \in 1..b /\ more[k] = P[k - a]
    BY <1>1, <1>7, <2>2
  <2>. QED  BY <1>9, <2>1, <2>2
<1>11. InOrder(more)
  <2>. SUFFICES ASSUME NEW k \in 1..Len(more), NEW l \in 1..Len(more), k < l
                PROVE  /\ more[k].id # more[l].id
                       /\ NotLater(more[k].row.ts, more[k].id, more[l].row.ts, more[l].id)
    BY DEF InOrder
  <2>1. CASE k \in 1..a /\ l \in 1..a
    BY <1>2, <1>3, <2>1 DEF InOrder, a
  <2>2. CASE k \in 1..a /\ l - a \in 1..b /\ more[l] = P[l - a]
    <3>. DEFINE x == list[k]
                y == list[a]
                z == P[l - a]
    <3>1. more[k] = x /\ more[l] = z /\ a \in 1..a /\ list # << >>
      BY <1>3, <2>2
    <3>2. c = [ts |-> y.row.ts, id |-> y.id]
      BY <1>2, <3>1 DEF UpTo, a
    <3>3. z.id \in DOMAIN idx /\ z.row = idx[z.id] /\ ~NotLater(z.row.ts, z.id, y.row.ts, y.id)
      BY <1>1, <1>7, <2>2, <3>2 DEF After
    <3>4. k = a \/ NotLater(x.row.ts, x.id, y.row.ts, y.id)
      BY <1>2, <1>3, <2>2, <3>1 DEF InOrder, a
    <3>5. x.id \in DOMAIN idx /\ x.row.ts = idx[x.id].ts /\ y.id \in DOMAIN idx /\ y.row.ts = idx[y.id].ts
      BY <1>2, <2>2, <3>1 DEF RowsOf, a
    <3>6. NotLater(x.row.ts, x.id, y.row.ts, y.id)
      BY <3>4, <3>5 DEF NotLater, Sorted
    <3>. HIDE DEF x, y, z
    <3>7. x.id \in Nat /\ x.row.ts \in Nat /\ y.id \in Nat /\ y.row.ts \in Nat /\ z.id \in Nat /\ z.row.ts \in Nat
      BY <3>3, <3>5 DEF Sorted
    <3>8. x.id # z.id /\ NotLater(x.row.ts, x.id, z.row.ts, z.id)
      <4>1. x.id # z.id
        BY <3>3, <3>5, <3>6, <3>7 DEF NotLater
      <4>. QED  BY <3>3, <3>6, <3>7, <4>1 DEF NotLater
    <3>. QED  BY <3>1, <3>8
  <2>3. CASE k - a \in 1..b /\ more[k] = P[k - a] /\ l - a \in 1..b /\ more[l] = P[l - a]
    <3>1. k - a < l - a
      BY <1>3
    <3>2. RowNotLater(idx, P[k - a].id, P[l - a].id) /\ P[k - a].id # P[l - a].id
      BY <1>4, <2>3, <3>1
    <3>. QED  BY <1>1, <2>3, <3>2 DEF RowNotLater
  <2>4. ~(k \notin 1..a /\ l \in 1..a)
    BY <1>3
  <2>. QED  BY <1>9, <2>1, <2>2, <2>3, <2>4
<1>12. IdsOf(list) \subseteq IdsOf(more) /\ \A k \in 1..b : P[k].id \in IdsOf(more)
  <2>1. \A k \in 1..a : k \in 1..Len(more) /\ more[k] = list[k]
    BY <1>3
  <2>2. \A k \in 1..b : a + k \in 1..Len(more) /\ more[a + k] = P[k]
    BY <1>3
  <2>. QED  BY <2>1, <2>2 DEF IdsOf, a
<1>13. CASE d # NoCursor
  <2>1. b \in 1..b /\ b = limit /\ d = [ts |-> P[b].row.ts, id |-> P[b].id]
    BY <1>1, <1>5, <1>13
  <2>2. UpTo(d, more)
    <3>1. Len(more) = a + b /\ more[a + b] = P[b] /\ Len(more) # 0
      BY <1>3, <2>1
    <3>2. more # << >>
      BY <3>1
    <3>. QED  BY <2>1, <3>1, <3>2 DEF UpTo
  <2>3. ASSUME f.fields = AnyFields, NEW i \in present PROVE i \in IdsOf(more) \cup Remaining(idx, f, d)
    <3>1. CASE i \in IdsOf(list)
      BY <1>12, <3>1
    <3>2. CASE i \in S /\ \E k \in 1..b : P[k].id = i
      BY <1>12, <3>2
    <3>3. CASE i \in S /\ ~RowNotLater(idx, i, P[b].id)
      <4>1. After(idx, i, d)
        BY <1>1, <2>1, <3>3 DEF After, RowNotLater
      <4>. QED  BY <1>7, <1>8, <3>3, <4>1 DEF Remaining, Matches
    <3>. QED  BY <1>2, <1>6, <2>1, <2>3, <3>1, <3>2, <3>3
  <2>. QED  BY <1>3, <1>10, <1>11, <1>13, <2>2, <2>3 DEF Reading, more, d, P
<1>14. CASE d = NoCursor
  <2>1. n <= limit
    <3>1. ASSUME n > limit PROVE FALSE
      <4>1. b \in 1..b /\ d = [ts |-> P[b].row.ts, id |-> P[b].id]
        BY <1>1, <1>5, <3>1
      <4>2. P[b].row.ts # 0
        BY <1>1, <1>7, <4>1 DEF Sorted
      <4>. QED  BY <1>14, <4>1, <4>2 DEF NoCursor
    <3>. QED  BY <1>1, <3>1
  <2>2. \A i \in S : \E k \in 1..b : P[k].id = i
    BY <1>1, <1>6, <2>1
  <2>3. f.fields = AnyFields => present \subseteq IdsOf(more)
    BY <1>2, <1>12, <2>2
  <2>. QED  BY <1>3, <1>10, <1>11, <1>14, <2>3 DEF Read, more, d, P
<1>. QED  BY <1>13, <1>14 DEF more, d, P

-----------------------------------------------------------------------------
(* The chain along a list.                                                 *)

HashesRight(idx) == \A i \in DOMAIN idx : EventHash(i, idx[i]) = idx[i].thisHash

(* What a row links to is the genesis value or a row that is there.        *)
KnownLinks(idx) ==
    \A i \in DOMAIN idx : \/ idx[i].prevHash = ZeroHash
                          \/ \E j \in DOMAIN idx : idx[i].prevHash = idx[j].thisHash

(* The rows of the list are those of the index. *)
Intact(idx, list) ==
    \A k \in 1..Len(list) : list[k].id \in DOMAIN idx /\ list[k].row = idx[list[k].id]

Chained(list) ==
    \A k \in 2..Len(list) : list[k].row.prevHash = list[k - 1].row.thisHash

LEMMA LeastNatural ==
    ASSUME NEW T \in SUBSET Nat, T # {}
    PROVE  \E x \in T : \A y \in T : x <= y
<1>1. PICK x \in T : \A y \in T : ~(<<y, x>> \in OpToRel(<, Nat))
  BY WFMin, NatLessThanWellFounded
<1>2. \A y \in T : ~(y < x)
  BY <1>1 DEF OpToRel
<1>. QED  BY <1>2

(* The walk is ok exactly when each row's verdict is.                      *)
LEMMA WalkVerdict ==
    ASSUME NEW list, IsList(list)
    PROVE  LET walk == VerifyChain(list)
           IN  /\ walk.status = "ok" <=>
                     \A k \in 1..Len(list) :
                        VerifyRow(list[k].id, list[k].row,
                                  IF k = 1 THEN NilHash ELSE list[k - 1].row.thisHash) = "ok"
               /\ walk.status = "ok" => walk.root = IF list = << >> THEN ZeroHash
                                                    ELSE list[Len(list)].row.thisHash
<1>. DEFINE v(k) == VerifyRow(list[k].id, list[k].row,
                              IF k = 1 THEN NilHash ELSE list[k - 1].row.thisHash)
            verdict == [k \in 1..Len(list) |-> v(k)]
            bad == {k \in 1..Len(list) : verdict[k] # "ok"}
            first == CHOOSE k \in bad : \A l \in bad : k <= l
            walk == VerifyChain(list)
            root == IF list = << >> THEN ZeroHash ELSE list[Len(list)].row.thisHash
<1>1. \A k \in 1..Len(list) : verdict[k] = v(k)
  OBVIOUS
<1>2. Len(list) \in Nat
  BY DEF IsList
<1>3. walk = IF bad # {} THEN [status |-> verdict[first], position |-> first, root |-> NilHash]
             ELSE [status |-> "ok", position |-> 0, root |-> root]
  BY DEF VerifyChain
<1>. HIDE DEF v, verdict, walk
<1>4. CASE bad = {}
  <2>1. walk = [status |-> "ok", position |-> 0, root |-> root]
    BY <1>3, <1>4
  <2>2. walk.status = "ok" /\ walk.root = root
    BY <2>1
  <2>3. \A k \in 1..Len(list) : v(k) = "ok"
    BY <1>1, <1>4
  <2>. QED  BY <2>2, <2>3 DEF v, walk
<1>5. CASE bad # {}
  <2>1. bad \in SUBSET Nat
    BY <1>2
  <2>2. first \in bad
    <3>1. \E k \in bad : \A l \in bad : k <= l
      BY <1>5, <2>1, LeastNatural
    <3>. HIDE DEF bad
    <3>. QED  BY <3>1
  <2>3. first \in 1..Len(list) /\ verdict[first] # "ok"
    BY <2>2
  <2>. HIDE DEF first, bad
  <2>4. walk.status # "ok"
    BY <1>3, <1>5, <2>3
  <2>. QED  BY <1>1, <2>3, <2>4 DEF v, walk
<1>. QED  BY <1>4, <1>5

(* Rows with right hashes that are chained pass the walk. *)
LEMMA ChainedIsOk ==
    ASSUME NEW idx, HashesRight(idx), NEW list, IsList(list), Intact(idx, list), Chained(list)
    PROVE  VerifyChain(list).status = "ok"
<1>1. ASSUME NEW k \in 1..Len(list)
      PROVE  VerifyRow(list[k].id, list[k].row,
                       IF k = 1 THEN NilHash ELSE list[k - 1].row.thisHash) = "ok"
  <2>1. EventHash(list[k].id, list[k].row) = list[k].row.thisHash
    BY DEF HashesRight, Intact
  <2>2. k = 1 \/ (k \in 2..Len(list) /\ list[k].row.prevHash = list[k - 1].row.thisHash)
    BY DEF Chained, IsList
  <2>. QED  BY <2>1, <2>2 DEF VerifyRow
<1>. QED  BY <1>1, WalkVerdict

(* In a linked index a row holds the hash of the one listed before it. *)
LEMMA LinkedRow ==
    ASSUME NEW idx, Linked(idx), HashesRight(idx), NEW p \in DOMAIN idx, NEW i \in DOMAIN idx,
           IsPredecessor(idx, p, i)
    PROVE  idx[i].prevHash = idx[p].thisHash
<1>1. VerifyRow(i, idx[i], idx[p].thisHash) = "ok"
  BY DEF Linked, VerifyEvent
<1>2. idx[p].thisHash # NilHash
  BY DEF HashesRight, EventHash, CanonicalHash, NilHash
<1>. QED  BY <1>1, <1>2 DEF VerifyRow

(* A row that remains, with nothing that remains before it but p, follows  *)
(* p in the index, when p is the last row before the cursor or remains.    *)
LEMMA Adjacent ==
    ASSUME NEW idx, Sorted(idx), NEW f, f.fields = AnyFields, f.from \in Nat, f.to \in Nat, NEW c,
           NEW p \in DOMAIN idx, InWindow(idx[p].ts, f), NEW i \in Remaining(idx, f, c),
           ~RowNotLater(idx, i, p),
           \A q \in DOMAIN idx : ~RowNotLater(idx, q, p) => After(idx, q, c),
           \A q \in Remaining(idx, f, c) :
               RowNotLater(idx, q, i) /\ ~RowNotLater(idx, q, p) => q = i
    PROVE  IsPredecessor(idx, p, i)
<1>1. i \in DOMAIN idx /\ InWindow(idx[i].ts, f)
  BY DEF Remaining, Matches
<1>2. p # i /\ RowNotLater(idx, p, i)
  BY <1>1, SortedPlaced, TotalOrder
<1>3. ASSUME NEW q \in DOMAIN idx \ {i}, RowNotLater(idx, q, i), ~RowNotLater(idx, q, p)
      PROVE  FALSE
  <2>1. idx[p].ts <= idx[q].ts /\ idx[q].ts <= idx[i].ts
    BY <1>1, <1>3 DEF Sorted, RowNotLater, NotLater
  <2>2. InWindow(idx[q].ts, f)
    <3>1. idx[p].ts \in Nat /\ idx[q].ts \in Nat /\ idx[i].ts \in Nat
      BY <1>1 DEF Sorted
    <3>2. idx[p].ts >= f.from /\ (f.to # 0 => idx[i].ts < f.to)
      BY <1>1 DEF InWindow
    <3>. QED  BY <2>1, <3>1, <3>2 DEF InWindow
  <2>3. q \in Remaining(idx, f, c)
    BY <1>3, <2>2 DEF Remaining, Matches
  <2>. QED  BY <1>3, <2>3
<1>. QED  BY <1>2, <1>3 DEF IsPredecessor

(* What more lists is what list did, or a row stored. *)
Continued(idx, list, more) ==
    \A k \in 1..Len(more) : \/ k \in 1..Len(list) /\ more[k] = list[k]
                            \/ more[k].id \in DOMAIN idx /\ more[k].row = idx[more[k].id]

LEMMA PageContinues ==
    ASSUME NEW idx, Sorted(idx), NEW f, NEW c, NEW limit \in Nat \ {0},
           NEW list, IsList(list)
    PROVE  Continued(idx, list, list \o Page(idx, f, c, limit))
<1>. DEFINE S == Remaining(idx, f, c)
            P == Page(idx, f, c, limit)
            more == list \o P
            a == Len(list)
            b == Len(P)
<1>1. \A k \in 1..b : P[k].id \in DOMAIN idx /\ P[k].row = idx[P[k].id]
  <2>1. S \in SUBSET DOMAIN idx /\ \A k \in 1..b : P[k].id \in S /\ P[k].row = idx[P[k].id]
    BY PageRows
  <2>. HIDE DEF S, P, b
  <2>. QED  BY <2>1
<1>. HIDE DEF b
<1>2. /\ a \in Nat /\ b \in Nat /\ Len(more) = a + b
      /\ \A k \in 1..a : more[k] = list[k]
      /\ \A k \in 1..b : more[a + k] = P[k]
  <2>1. IsList(P)
    BY PageRows DEF IsList
  <2>. QED  BY <2>1, Joined DEF b
<1>. HIDE DEF S, P, more
<1>3. ASSUME NEW k \in 1..Len(more)
      PROVE  \/ k \in 1..a /\ more[k] = list[k]
             \/ more[k].id \in DOMAIN idx /\ more[k].row = idx[more[k].id]
  <2>1. CASE k \in 1..a
    BY <1>2, <2>1
  <2>2. CASE k \notin 1..a
    <3>1. k - a \in 1..b /\ k = a + (k - a)
      BY <1>2, <2>2
    <3>2. more[k] = P[k - a]
      BY <1>2, <3>1
    <3>. QED  BY <1>1, <3>1, <3>2
  <2>. QED  BY <2>1, <2>2
<1>. QED  BY <1>3 DEF Continued, more, P

(* The rows of a page are those of the index ... *)
LEMMA PageIntact ==
    ASSUME NEW idx, Sorted(idx), NEW f, NEW c, NEW limit \in Nat \ {0},
           NEW list, IsList(list), Intact(idx, list)
    PROVE  Intact(idx, list \o Page(idx, f, c, limit))
<1>. DEFINE more == list \o Page(idx, f, c, limit)
<1>1. Continued(idx, list, more)
  BY PageContinues
<1>. HIDE DEF more
<1>. QED  BY <1>1 DEF Continued, Intact, more

(* ... and on a linked log those of an unfiltered listing are chained: each *)
(* to the one before it, and the first to the last row of the page before.  *)
LEMMA PageChained ==
    ASSUME NEW idx, Sorted(idx), Linked(idx), HashesRight(idx),
           NEW f, f.fields = AnyFields, f.from \in Nat, f.to \in Nat,
           NEW c, NEW limit \in Nat \ {0}, NEW list, NEW present,
           Reading(idx, f, c, list, present), Intact(idx, list), Chained(list)
    PROVE  Chained(list \o Page(idx, f, c, limit))
<1>. DEFINE S == Remaining(idx, f, c)
            P == Page(idx, f, c, limit)
            more == list \o P
            a == Len(list)
            b == Len(P)
<1>1. /\ S \in SUBSET DOMAIN idx /\ IsList(P) /\ Cardinality(S) \in Nat
      /\ \A k \in 1..b : /\ P[k].id \in S /\ P[k].row = idx[P[k].id]
                         /\ Rank(idx, S, P[k].id) = k
  BY PageRows DEF IsList
<1>2. IsList(list) /\ RowsOf(idx, f, list) /\ UpTo(c, list)
  BY DEF Reading
<1>3. /\ a \in Nat /\ b \in Nat /\ Len(more) = a + b
      /\ \A k \in 1..a : more[k] = list[k]
      /\ \A k \in 1..b : more[a + k] = P[k]
      /\ list = << >> <=> a = 0
  BY <1>1, <1>2, Joined
<1>4. \A q \in S : InWindow(idx[q].ts, f) /\ After(idx, q, c)
  BY DEF Remaining, Matches
<1>5. ASSUME NEW k \in 1..b, NEW p \in DOMAIN idx, InWindow(idx[p].ts, f),
             ~RowNotLater(idx, P[k].id, p),
             \A q \in DOMAIN idx : ~RowNotLater(idx, q, p) => After(idx, q, c),
             \A q \in S : ~RowNotLater(idx, q, p) => Rank(idx, S, q) >= k
      PROVE  P[k].row.prevHash = idx[p].thisHash
  <2>. DEFINE i == P[k].id
  <2>1. i \in S /\ P[k].row = idx[i] /\ Rank(idx, S, i) = k /\ i \in DOMAIN idx /\ k \in Nat
    BY <1>1, <1>3
  <2>. HIDE DEF S, P, i
  <2>2. ASSUME NEW q \in S, RowNotLater(idx, q, i), ~RowNotLater(idx, q, p) PROVE q = i
    <3>1. Rank(idx, S, q) <= Rank(idx, S, i)
      BY <1>1, <2>1, <2>2, SortedPlaced, RankOrder
    <3>2. Rank(idx, S, q) >= k /\ Rank(idx, S, q) \in 1..Cardinality(S)
      BY <1>1, <1>5, <2>2, SortedPlaced, RankRange
    <3>3. Rank(idx, S, i) <= Rank(idx, S, q)
      BY <2>1, <3>2
    <3>4. RowNotLater(idx, i, q)
      BY <1>1, <2>1, <3>3, SortedPlaced, RankOrder
    <3>. QED  BY <1>1, <2>1, <2>2, <3>4, SortedPlaced, TotalOrder
  <2>3. IsPredecessor(idx, p, i)
    BY <1>5, <2>1, <2>2, Adjacent DEF S, i
  <2>. QED  BY <2>1, <2>3, LinkedRow
<1>. HIDE DEF S, P, more, a, b
<1>6. ASSUME NEW k \in 2..Len(more) PROVE more[k].row.prevHash = more[k - 1].row.thisHash
  <2>1. CASE k <= a
    <3>1. k \in 2..Len(list) /\ k - 1 \in 1..a /\ k \in 1..a
      BY <1>3, <2>1 DEF a
    <3>. QED  BY <1>3, <3>1 DEF Chained
  <2>2. CASE k = a + 1
    <3>. DEFINE p == list[a].id
    <3>1. a \in 1..a /\ 1 \in 1..b /\ list # << >> /\ more[k] = P[1] /\ more[k - 1] = list[a]
      BY <1>3, <2>2
    <3>2. p \in DOMAIN idx /\ list[a].row = idx[p] /\ InWindow(idx[p].ts, f)
      BY <1>2, <3>1 DEF Intact, RowsOf, a
    <3>3. c = [ts |-> idx[p].ts, id |-> p]
      BY <1>2, <3>1, <3>2 DEF UpTo, a
    <3>. HIDE DEF p
    <3>4. \A q \in DOMAIN idx : ~RowNotLater(idx, q, p) <=> After(idx, q, c)
      BY <3>3 DEF After, RowNotLater
    <3>5. \A q \in S : Rank(idx, S, q) >= 1
      BY <1>1, SortedPlaced, RankRange
    <3>6. ~RowNotLater(idx, P[1].id, p)
      BY <1>1, <1>4, <3>1, <3>4
    <3>. QED  BY <1>5, <3>1, <3>2, <3>4, <3>5, <3>6
  <2>3. CASE k > a + 1
    <3>. DEFINE l == k - a
                p == P[l - 1].id
    <3>1. l \in 1..b /\ l - 1 \in 1..b /\ k = a + l /\ k - 1 = a + (l - 1)
      BY <1>3, <2>3
    <3>2. more[k] = P[l] /\ more[k - 1] = P[l - 1]
      BY <1>3, <3>1
    <3>3. /\ p \in S /\ p \in DOMAIN idx /\ P[l - 1].row = idx[p] /\ Rank(idx, S, p) = l - 1
          /\ InWindow(idx[p].ts, f) /\ After(idx, p, c)
      BY <1>1, <1>4, <3>1
    <3>4. l \in Nat /\ l - 1 \in Nat
      BY <1>3, <3>1
    <3>5. P[l].id \in S /\ Rank(idx, S, P[l].id) = l
      BY <1>1, <3>1
    <3>. HIDE DEF p, l
    <3>6. ~RowNotLater(idx, P[l].id, p)
      <4>1. ~(Rank(idx, S, P[l].id) <= Rank(idx, S, p))
        BY <3>3, <3>4, <3>5
      <4>. QED  BY <1>1, <3>3, <3>5, <4>1, SortedPlaced, RankOrder
    <3>7. ASSUME NEW q \in S, ~RowNotLater(idx, q, p) PROVE Rank(idx, S, q) >= l
      <4>1. ~(Rank(idx, S, q) <= Rank(idx, S, p)) /\ Rank(idx, S, q) \in 1..Cardinality(S)
        BY <1>1, <3>3, <3>7, SortedPlaced, RankOrder, RankRange
      <4>. QED  BY <1>1, <3>3, <3>4, <4>1
    <3>8. ASSUME NEW q \in DOMAIN idx, ~RowNotLater(idx, q, p) PROVE After(idx, q, c)
      <4>1. RowNotLater(idx, p, q)
        BY <3>3, <3>8, SortedPlaced, TotalOrder
      <4>2. p \in Nat /\ q \in Nat /\ idx[p].ts \in Nat /\ idx[q].ts \in Nat
        BY <3>3 DEF Sorted
      <4>3. CASE list = << >>
        <5>1. c.ts = 0
          BY <1>2, <4>3 DEF UpTo, NoCursor
        <5>2. idx[q].ts # 0
          BY DEF Sorted
        <5>. QED  BY <4>2, <5>1, <5>2 DEF After, NotLater
      <4>4. CASE list # << >>
        <5>1. a \in 1..a
          BY <1>3, <4>4
        <5>2. list[a].id \in DOMAIN idx /\ list[a].row.ts = idx[list[a].id].ts
          BY <1>2, <5>1 DEF RowsOf, a
        <5>3. c = [ts |-> list[a].row.ts, id |-> list[a].id]
          BY <1>2, <4>4 DEF UpTo, a
        <5>4. c.ts \in Nat /\ c.id \in Nat
          BY <5>2, <5>3 DEF Sorted
        <5>. QED  BY <3>3, <4>1, <4>2, <5>4 DEF After, RowNotLater, NotLater
      <4>. QED  BY <4>3, <4>4
    <3>. QED  BY <1>5, <3>1, <3>2, <3>3, <3>6, <3>7, <3>8
  <2>. QED  BY <1>3, <2>1, <2>2, <2>3
<1>. QED  BY <1>6 DEF Chained, more, P

(* An index with rows has a head. *)
LEMMA HeadExists ==
    ASSUME NEW idx, Sorted(idx), DOMAIN idx # {}
    PROVE  IsHead(idx, ChainHead(idx))
<1>. DEFINE D == DOMAIN idx
            n == Cardinality(D)
<1>1. IsFiniteSet(D) /\ n \in Nat /\ n # 0
  BY FS_CardinalityType, FS_EmptySet DEF Sorted
<1>2. PICK h \in D : Rank(idx, D, h) = n
  BY <1>1, SortedPlaced, RankTaken
<1>3. ASSUME NEW i \in D PROVE RowNotLater(idx, i, h)
  <2>1. Rank(idx, D, i) <= Rank(idx, D, h)
    BY <1>1, <1>2, SortedPlaced, RankRange
  <2>. QED  BY <2>1, SortedPlaced, RankOrder
<1>4. \E x \in DOMAIN idx : IsHead(idx, x)
  BY <1>3 DEF IsHead
<1>. QED  BY <1>4 DEF ChainHead

-----------------------------------------------------------------------------
(* A row inserted with the head's hash.                                    *)

LEMMA InsertGrows ==
    ASSUME NEW idx, Sorted(idx), NEW i \in Nat, NEW row, row.ts \in Nat \ {0}
    PROVE  Sorted(Insert(idx, i, row)) /\ Grows(idx, Insert(idx, i, row))
<1>. DEFINE jdx == Insert(idx, i, row)
<1>1. DOMAIN jdx = DOMAIN idx \cup {i}
  BY DEF Insert
<1>2. \A j \in DOMAIN jdx : jdx[j] = IF j \in DOMAIN idx THEN idx[j] ELSE row
  BY DEF Insert
<1>3. IsFiniteSet(DOMAIN jdx)
  BY <1>1, FS_AddElement DEF Sorted
<1>. QED  BY <1>1, <1>2, <1>3 DEF Sorted, Grows

(* The hashes stay right, what rows link to is there, and a log that is    *)
(* linked after the insertion was linked before: the new row stands after  *)
(* all others, for no older row can hold a hash that covers the new id.    *)
LEMMA InsertLinks ==
    ASSUME NEW idx, Sorted(idx), HashesRight(idx), KnownLinks(idx),
           NEW i \in Nat, i \notin DOMAIN idx, NEW row, row.ts \in Nat \ {0},
           EventHash(i, row) = row.thisHash,
           row.prevHash = IF DOMAIN idx = {} THEN ZeroHash ELSE idx[ChainHead(idx)].thisHash
    PROVE  LET jdx == Insert(idx, i, row)
           IN  /\ HashesRight(jdx) /\ KnownLinks(jdx)
               /\ Linked(jdx) => Linked(idx)
               /\ \A list : Intact(idx, list) => Intact(jdx, list)
<1>. DEFINE jdx == Insert(idx, i, row)
<1>1. DOMAIN jdx = DOMAIN idx \cup {i} /\ jdx[i] = row
  BY DEF Insert
<1>2. \A j \in DOMAIN idx : j # i /\ jdx[j] = idx[j]
  BY DEF Insert
<1>. HIDE DEF jdx
<1>3. HashesRight(jdx)
  BY <1>1, <1>2 DEF HashesRight
<1>4. KnownLinks(jdx)
  <2>1. row.prevHash = ZeroHash \/ \E j \in DOMAIN idx : row.prevHash = idx[j].thisHash
    <3>1. DOMAIN idx # {} => ChainHead(idx) \in DOMAIN idx
      BY HeadExists DEF IsHead
    <3>. QED  BY <3>1
  <2>2. ASSUME NEW j \in DOMAIN jdx
        PROVE  jdx[j].prevHash = ZeroHash \/ \E k \in DOMAIN jdx : jdx[j].prevHash = jdx[k].thisHash
    <3>1. CASE j = i
      BY <1>1, <1>2, <2>1, <3>1
    <3>2. CASE j \in DOMAIN idx
      BY <1>1, <1>2, <3>2 DEF KnownLinks
    <3>. QED  BY <1>1, <3>1, <3>2
  <2>. QED  BY <2>2 DEF KnownLinks
<1>5. ASSUME NEW j \in DOMAIN idx, jdx[j].prevHash = jdx[i].thisHash PROVE FALSE
  <2>1. idx[j].prevHash = <<i, row.ts, row.fields, row.payloadHash, row.prevHash>>
    BY <1>1, <1>2, <1>5 DEF EventHash, CanonicalHash
  <2>2. CASE idx[j].prevHash = ZeroHash
    <3>. HIDE DEF jdx
    <3>1. << >> = <<i, row.ts, row.fields, row.payloadHash, row.prevHash>>
      BY ONLY <2>1, <2>2 DEF ZeroHash
    <3>. QED  BY ONLY <3>1
  <2>3. CASE \E k \in DOMAIN idx : idx[j].prevHash = idx[k].thisHash
    <3>1. PICK k \in DOMAIN idx : idx[j].prevHash = idx[k].thisHash
      BY <2>3
    <3>2. idx[k].thisHash = <<k, idx[k].ts, idx[k].fields, idx[k].payloadHash, idx[k].prevHash>>
      BY DEF HashesRight, EventHash, CanonicalHash
    <3>3. k = i
      BY ONLY <2>1, <3>1, <3>2
    <3>. QED  BY <3>3
  <2>. QED  BY <2>2, <2>3 DEF KnownLinks
<1>6. ASSUME Linked(jdx) PROVE Linked(idx)
  <2>1. \A p, q \in DOMAIN idx : RowNotLater(jdx, p, q) <=> RowNotLater(idx, p, q)
    BY <1>2 DEF RowNotLater
  <2>2. Sorted(jdx)
    BY InsertGrows DEF Sorted, jdx
  <2>3. ASSUME NEW j \in DOMAIN idx, IsPredecessor(jdx, i, j) PROVE FALSE
    <3>1. jdx[j].prevHash = jdx[i].thisHash
      BY <1>1, <1>3, <1>6, <2>3, LinkedRow
    <3>. QED  BY <1>5, <3>1
  <2>4. ASSUME NEW j \in DOMAIN idx, IsFirst(idx, j) PROVE VerifyEvent(idx, j, ZeroHash) = "ok"
    <3>1. CASE RowNotLater(jdx, i, j)
      <4>1. ASSUME NEW q \in DOMAIN jdx \ {j}, RowNotLater(jdx, q, j) PROVE RowNotLater(jdx, q, i)
        <5>1. CASE q \in DOMAIN idx
          <6>1. RowNotLater(idx, q, j) /\ RowNotLater(idx, j, q)
            BY <2>1, <2>4, <4>1, <5>1 DEF IsFirst
          <6>. QED  BY <4>1, <5>1, <6>1, SortedPlaced, TotalOrder
        <5>2. CASE q = i
          BY <3>1, <5>2, <1>1 DEF RowNotLater, NotLater
        <5>. QED  BY <1>1, <5>1, <5>2
      <4>2. IsPredecessor(jdx, i, j)
        BY <1>2, <3>1, <4>1 DEF IsPredecessor
      <4>. QED  BY <2>3, <4>2
    <3>2. CASE ~RowNotLater(jdx, i, j)
      <4>1. IsFirst(jdx, j)
        <5>1. RowNotLater(jdx, j, i)
          BY <1>1, <2>2, <3>2, SortedPlaced, TotalOrder
        <5>2. \A q \in DOMAIN idx : RowNotLater(jdx, j, q)
          BY <2>1, <2>4 DEF IsFirst
        <5>. QED  BY <1>1, <5>1, <5>2 DEF IsFirst
      <4>. QED  BY <1>1, <1>2, <1>6, <4>1 DEF Linked, VerifyEvent
    <3>. QED  BY <3>1, <3>2
  <2>5. ASSUME NEW j \in DOMAIN idx, NEW p \in DOMAIN idx, IsPredecessor(idx, p, j)
        PROVE  VerifyEvent(idx, j, idx[p].thisHash) = "ok"
    <3>1. p # j /\ RowNotLater(jdx, p, j)
      BY <2>1, <2>5 DEF IsPredecessor
    <3>2. ASSUME NEW q \in DOMAIN idx \ {j}, RowNotLater(jdx, q, j) PROVE RowNotLater(jdx, q, p)
      BY <2>1, <2>5, <3>2 DEF IsPredecessor
    <3>3. CASE RowNotLater(jdx, i, j) /\ ~RowNotLater(jdx, i, p)
      <4>1. ASSUME NEW q \in DOMAIN jdx \ {j}, RowNotLater(jdx, q, j) PROVE RowNotLater(jdx, q, i)
        <5>1. CASE q \in DOMAIN idx
          <6>1. RowNotLater(jdx, q, p) /\ RowNotLater(jdx, p, i)
            BY <1>1, <2>2, <3>2, <3>3, <4>1, <5>1, SortedPlaced, TotalOrder
          <6>. QED  BY <1>1, <2>2, <5>1, <6>1, SortedPlaced, TotalOrder
        <5>2. CASE q = i
          BY <1>1, <2>2, <5>2, SortedPlaced, TotalOrder
        <5>. QED  BY <1>1, <5>1, <5>2
      <4>2. IsPredecessor(jdx, i, j)
        BY <1>2, <3>3, <4>1 DEF IsPredecessor
      <4>. QED  BY <2>3, <4>2
    <3>4. CASE RowNotLater(jdx, i, j) => RowNotLater(jdx, i, p)
      <4>1. IsPredecessor(jdx, p, j)
        BY <1>1, <3>1, <3>2, <3>4 DEF IsPredecessor
      <4>2. VerifyEvent(jdx, j, jdx[p].thisHash) = "ok"
        BY <1>1, <1>6, <4>1 DEF Linked
      <4>. QED  BY <1>2, <4>2 DEF VerifyEvent
    <3>. QED  BY <3>3, <3>4
  <2>. QED  BY <2>4, <2>5 DEF Linked
<1>7. \A list : Intact(idx, list) => Intact(jdx, list)
  BY <1>1, <1>2 DEF Intact
<1>. QED  BY <1>3, <1>4, <1>6, <1>7 DEF jdx

-----------------------------------------------------------------------------
(* The last of a set of rows, and the one right before row i.              *)
LEMMA LastOf ==
    ASSUME NEW idx, Sorted(idx), NEW S \in SUBSET DOMAIN idx, S # {}
    PROVE  \E p \in S : /\ Rank(idx, S, p) = Cardinality(S)
                        /\ \A j \in S : RowNotLater(idx, j, p)
<1>. DEFINE n == Cardinality(S)
<1>1. IsFiniteSet(S) /\ n \in Nat /\ n # 0
  BY FS_Subset, FS_CardinalityType, FS_EmptySet DEF Sorted
<1>2. PICK p \in S : Rank(idx, S, p) = n
  BY <1>1, SortedPlaced, RankTaken
<1>3. ASSUME NEW j \in S PROVE RowNotLater(idx, j, p)
  <2>1. Rank(idx, S, j) <= Rank(idx, S, p)
    BY <1>1, <1>2, SortedPlaced, RankRange
  <2>. QED  BY <2>1, SortedPlaced, RankOrder
<1>. QED  BY <1>2, <1>3

LEMMA PredecessorExists ==
    ASSUME NEW idx, Sorted(idx), NEW i \in DOMAIN idx, ~IsFirst(idx, i)
    PROVE  \E p \in DOMAIN idx : IsPredecessor(idx, p, i)
<1>. DEFINE S == {j \in DOMAIN idx \ {i} : RowNotLater(idx, j, i)}
<1>1. S # {} /\ S \in SUBSET DOMAIN idx
  BY SortedPlaced, TotalOrder DEF IsFirst
<1>2. PICK p \in S : \A j \in S : RowNotLater(idx, j, p)
  BY <1>1, LastOf
<1>. QED  BY <1>2 DEF IsPredecessor

(* What the verify endpoint takes for the predecessor of row i: the last   *)
(* of the rows with an earlier timestamp if they fit the page, one of them *)
(* that is not the last if they do not.                                    *)
LEMMA EarlierPage ==
    ASSUME NEW idx, Sorted(idx), NEW limit \in Nat \ {0}, NEW i \in DOMAIN idx, NEW earlier,
           earlier = {j \in DOMAIN idx : idx[j].ts < idx[i].ts}
    PROVE  /\ earlier = {} => PrecedingHash(idx, i, limit) = ZeroHash
           /\ earlier # {} =>
                 \E q \in earlier :
                     /\ PrecedingHash(idx, i, limit) = idx[q].thisHash
                     /\ Cardinality(earlier) <= limit <=> \A j \in earlier : RowNotLater(idx, j, q)
<1>. DEFINE f == [from |-> 0, to |-> idx[i].ts, fields |-> AnyFields]
            S == Remaining(idx, f, NoCursor)
            P == Page(idx, f, NoCursor, limit)
            n == Cardinality(S)
<1>1. S = earlier
  <2>1. f.from = 0 /\ f.to = idx[i].ts /\ f.fields = AnyFields
    OBVIOUS
  <2>2. ASSUME NEW j \in DOMAIN idx PROVE j \in S <=> idx[j].ts < idx[i].ts
    BY <2>1 DEF Remaining, Matches, InWindow, After, NotLater, NoCursor, Sorted
  <2>3. S \subseteq DOMAIN idx
    BY DEF Remaining
  <2>. QED  BY <2>2, <2>3
<1>2. /\ S \in SUBSET DOMAIN idx /\ n \in Nat /\ IsFiniteSet(S) /\ IsList(P)
      /\ Len(P) = (IF n < limit THEN n ELSE limit)
      /\ \A k \in 1..Len(P) : /\ P[k].id \in S /\ P[k].row = idx[P[k].id]
                              /\ Rank(idx, S, P[k].id) = k
  BY PageRows DEF IsList
<1>3. PrecedingHash(idx, i, limit) = IF P = << >> THEN ZeroHash ELSE P[Len(P)].row.thisHash
  BY DEF PrecedingHash
<1>. HIDE DEF S, P, n, f
<1>4. P = << >> <=> n = 0
  BY <1>2 DEF IsList
<1>5. n = 0 <=> earlier = {}
  BY <1>1, <1>2, FS_EmptySet DEF n
<1>6. ASSUME earlier # {}
      PROVE  \E q \in earlier :
                 /\ PrecedingHash(idx, i, limit) = idx[q].thisHash
                 /\ Cardinality(earlier) <= limit <=> \A j \in earlier : RowNotLater(idx, j, q)
  <2>. DEFINE m == Len(P)
              q == P[m].id
  <2>1. m \in 1..m /\ m \in Nat /\ m <= limit /\ (n <= limit <=> n = m)
    BY <1>2, <1>5, <1>6
  <2>2. q \in S /\ P[m].row = idx[q] /\ Rank(idx, S, q) = m
    BY <1>2, <2>1
  <2>3. PrecedingHash(idx, i, limit) = idx[q].thisHash
    BY <1>3, <1>4, <1>5, <1>6, <2>2
  <2>. HIDE DEF q, m
  <2>4. PICK p \in S : Rank(idx, S, p) = n /\ \A j \in S : RowNotLater(idx, j, p)
    BY <1>1, <1>2, <1>6, LastOf DEF n
  <2>5. n <= limit => \A j \in S : RowNotLater(idx, j, q)
    <3>. SUFFICES ASSUME n <= limit, NEW j \in S PROVE RowNotLater(idx, j, q)
      OBVIOUS
    <3>1. Rank(idx, S, j) <= Rank(idx, S, q)
      BY <1>2, <2>1, <2>2, SortedPlaced, RankRange DEF n
    <3>. QED  BY <1>2, <2>2, <3>1, SortedPlaced, RankOrder
  <2>6. ASSUME \A j \in S : RowNotLater(idx, j, q) PROVE n <= limit
    <3>1. Rank(idx, S, p) <= Rank(idx, S, q)
      BY <1>2, <2>2, <2>4, <2>6, SortedPlaced, RankOrder
    <3>. QED  BY <1>2, <2>1, <2>2, <2>4, <3>1
  <2>. QED  BY <1>1, <2>2, <2>3, <2>5, <2>6 DEF n
<1>. QED  BY <1>3, <1>4, <1>5, <1>6

-----------------------------------------------------------------------------
(* What readers rely on while the log moves on, with alt the rows altered  *)
(* so far.                                                                 *)

(* A listed row is the one stored; on a linked log unfiltered ones chain.  *)
Unbroken(idx, alt, f, list) ==
    alt = {} => /\ Intact(idx, list)
                /\ Linked(idx) /\ f.fields = AnyFields => Chained(list)

(* A step of the log from (idx, alt) to (jdx, blt). *)
MovesOn(idx, alt, jdx, blt) ==
    /\ Grows(idx, jdx)
    /\ blt = {} => /\ alt = {}
                   /\ Linked(jdx) => Linked(idx)
                   /\ \A list : Intact(idx, list) => Intact(jdx, list)

LEMMA UnbrokenMoves ==
    ASSUME NEW idx, NEW alt, NEW jdx, NEW blt, MovesOn(idx, alt, jdx, blt), NEW f, NEW list,
           Unbroken(idx, alt, f, list)
    PROVE  Unbroken(jdx, blt, f, list)
BY DEF MovesOn, Unbroken

LEMMA UnbrokenPage ==
    ASSUME NEW idx, Sorted(idx), NEW alt, alt = {} => HashesRight(idx), NEW f,
           f.from \in Nat, f.to \in Nat, NEW c, NEW limit \in Nat \ {0}, NEW list, NEW present,
           Reading(idx, f, c, list, present), Unbroken(idx, alt, f, list)
    PROVE  Unbroken(idx, alt, f, list \o Page(idx, f, c, limit))
<1>. DEFINE more == list \o Page(idx, f, c, limit)
<1>1. ASSUME alt = {} PROVE Intact(idx, more)
  BY <1>1, PageIntact DEF Unbroken, Reading
<1>2. ASSUME alt = {}, Linked(idx), f.fields = AnyFields PROVE Chained(more)
  BY <1>2, PageChained DEF Unbroken
<1>. HIDE DEF more
<1>. QED  BY <1>1, <1>2 DEF Unbroken, more

LEMMA UnbrokenStarts ==
    ASSUME NEW idx, NEW alt, NEW f
    PROVE  Unbroken(idx, alt, f, << >>)
BY DEF Unbroken, Intact, Chained

(* The walk of such a list is ok, and its root the hash of the last row.   *)
LEMMA UnbrokenIsOk ==
    ASSUME NEW idx, HashesRight(idx), Linked(idx), NEW f, f.fields = AnyFields, NEW list,
           IsList(list), Unbroken(idx, {}, f, list)
    PROVE  /\ VerifyChain(list).status = "ok"
           /\ VerifyChain(list).root = IF list = << >> THEN ZeroHash
                                       ELSE list[Len(list)].row.thisHash
<1>1. VerifyChain(list).status = "ok"
  BY ChainedIsOk DEF Unbroken
<1>. QED  BY <1>1, WalkVerdict
=============================================================================
