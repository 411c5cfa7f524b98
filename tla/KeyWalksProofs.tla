---- MODULE KeyWalksProofs ----
(***************************************************************************)
(* Theorems about KeyWalks, for every set of keys, any number of walks and *)
(* every page size: what a listing page by page shows while keys come and  *)
(* change, and what the rotation of a secret leaves behind it.             *)
(***************************************************************************)
EXTENDS KeyWalks, FiniteSetTheorems, TLAPS

(* The order of the index, and counting along it *)

LEMMA EntriesOrdered ==
  ASSUME NEW a \in Cursor, NEW b \in Cursor, NEW c \in Cursor
  PROVE  /\ ~Before(a, a)
         /\ Before(a, b) /\ Before(b, c) => Before(a, c)
         /\ Before(a, b) \/ a = b \/ Before(b, a)
BY DEF Before, Cursor

LEMMA EntryType ==
  ASSUME NEW born \in [Ids -> Nat], NEW j \in Ids, NEW k \in Ids
  PROVE  /\ EntryOf(born, k) \in Cursor
         /\ EntryOf(born, k).id = k /\ EntryOf(born, k).ts = born[k]
         /\ EntryOf(born, j) = EntryOf(born, k) => j = k
BY WalkAssumption DEF EntryOf, Cursor

LEMMA SubsetCounts ==
  ASSUME NEW T, IsFiniteSet(T), NEW S \in SUBSET T
  PROVE  /\ IsFiniteSet(S) /\ Cardinality(S) \in Nat /\ Cardinality(T) \in Nat
         /\ Cardinality(S) <= Cardinality(T)
         /\ S # T => Cardinality(S) < Cardinality(T)
<1>1. IsFiniteSet(S) /\ Cardinality(S) <= Cardinality(T) /\ (Cardinality(S) = Cardinality(T) => S = T)
  BY FS_Subset
<1>2. Cardinality(S) \in Nat /\ Cardinality(T) \in Nat
  BY <1>1, FS_CardinalityType
<1> QED BY <1>1, <1>2

\* How many of a set of keys come before one.
Ahead(keys, born, k) == {j \in keys : Before(EntryOf(born, j), EntryOf(born, k))}

LEMMA AheadCounts ==
  ASSUME NEW keys \in SUBSET Ids, NEW born \in [Ids -> Nat], NEW k \in Ids
  PROVE  /\ IsFiniteSet(keys) /\ Cardinality(keys) \in Nat
         /\ Cardinality(Ahead(keys, born, k)) \in Nat
         /\ k \in keys => Cardinality(Ahead(keys, born, k)) < Cardinality(keys)
         /\ \A j \in keys : Before(EntryOf(born, j), EntryOf(born, k)) =>
              Cardinality(Ahead(keys, born, j)) < Cardinality(Ahead(keys, born, k))
<1>1. IsFiniteSet(keys)
  BY WalkAssumption, SubsetCounts
<1>2. Ahead(keys, born, k) \in SUBSET keys /\ k \notin Ahead(keys, born, k)
  BY EntryType, EntriesOrdered DEF Ahead
<1>3. ASSUME NEW j \in keys, Before(EntryOf(born, j), EntryOf(born, k))
      PROVE  Cardinality(Ahead(keys, born, j)) < Cardinality(Ahead(keys, born, k))
  <2>1. /\ j \in Ids /\ EntryOf(born, j) \in Cursor /\ EntryOf(born, k) \in Cursor
        /\ \A i \in keys : EntryOf(born, i) \in Cursor
    BY EntryType
  <2>2. Ahead(keys, born, j) \in SUBSET Ahead(keys, born, k)
    BY <1>3, <2>1, EntriesOrdered DEF Ahead
  <2>3. j \in Ahead(keys, born, k) /\ j \notin Ahead(keys, born, j)
    BY <1>3, <2>1, EntriesOrdered DEF Ahead
  <2>4. IsFiniteSet(Ahead(keys, born, k))
    BY <1>1, <1>2, SubsetCounts
  <2>5. Ahead(keys, born, j) # Ahead(keys, born, k)
    BY <2>3
  <2> QED BY <2>2, <2>4, <2>5, SubsetCounts
<1> QED BY <1>1, <1>2, <1>3, SubsetCounts

LEMMA LeastNatural ==
  ASSUME NEW S \in SUBSET Nat, S # {} PROVE \E m \in S : \A n \in S : m <= n
<1>1. PICK m \in S : \A n \in S : ~ (<<n, m>> \in OpToRel(<, Nat))
  <2>1. IsWellFoundedOn(OpToRel(<, Nat), Nat)
    BY NatLessThanWellFounded
  <2> HIDE DEF OpToRel
  <2> QED BY <2>1, WFMin
<1>2. \A n \in S : m <= n
  <2> SUFFICES ASSUME NEW n \in S, ~(m <= n) PROVE FALSE
    OBVIOUS
  <2>1. n < m /\ m \in Nat /\ n \in Nat
    OBVIOUS
  <2>2. <<n, m>> \in OpToRel(<, Nat)
    BY <2>1 DEF OpToRel
  <2> QED BY <1>1, <2>2
<1> QED BY <1>2

LEMMA FirstAndLast ==
  ASSUME NEW keys \in SUBSET Ids, keys # {}, NEW born \in [Ids -> Nat]
  PROVE  /\ \E k \in keys : Ahead(keys, born, k) = {}
         /\ \E k \in keys : \A j \in keys : j = k \/ Before(EntryOf(born, j), EntryOf(born, k))
<1> DEFINE n(k) == Cardinality(Ahead(keys, born, k))
           N == Cardinality(keys)
<1>1. /\ N \in Nat
      /\ \A k \in keys : n(k) \in Nat /\ n(k) < N
      /\ \A j, k \in keys : Before(EntryOf(born, j), EntryOf(born, k)) => n(j) < n(k)
  BY AheadCounts
<1>2. \A j, k \in keys : j = k \/ Before(EntryOf(born, j), EntryOf(born, k))
                               \/ Before(EntryOf(born, k), EntryOf(born, j))
  BY EntryType, EntriesOrdered
<1> HIDE DEF n, N
<1>3. \E k \in keys : \A j \in keys : n(k) <= n(j)
  <2> DEFINE S == {n(k) : k \in keys}
  <2>1. S \in SUBSET Nat /\ S # {}
    BY <1>1
  <2>2. PICK m \in S : \A i \in S : m <= i
    BY <2>1, LeastNatural
  <2> QED BY <2>2
<1>4. \E k \in keys : Ahead(keys, born, k) = {}
  <2>1. PICK k \in keys : \A j \in keys : n(k) <= n(j)
    BY <1>3
  <2>2. ASSUME NEW j \in keys, Before(EntryOf(born, j), EntryOf(born, k)) PROVE FALSE
    <3>1. n(j) < n(k) /\ n(k) <= n(j) /\ n(j) \in Nat /\ n(k) \in Nat
      BY <1>1, <2>1, <2>2
    <3> QED BY <3>1
  <2> QED BY <2>2 DEF Ahead
<1>5. \E k \in keys : \A j \in keys : n(j) <= n(k)
  <2> DEFINE S == {N - n(k) : k \in keys}
  <2>1. S \in SUBSET Nat /\ S # {}
    BY <1>1
  <2>2. PICK m \in S : \A i \in S : m <= i
    BY <2>1, LeastNatural
  <2>3. PICK k \in keys : m = N - n(k)
    BY <2>2
  <2>4. ASSUME NEW j \in keys PROVE n(j) <= n(k)
    <3>1. N - n(k) <= N - n(j)
      BY <2>2, <2>3
    <3> QED BY <1>1, <3>1
  <2> QED BY <2>4
<1>6. \E k \in keys : \A j \in keys : j = k \/ Before(EntryOf(born, j), EntryOf(born, k))
  <2>1. PICK k \in keys : \A j \in keys : n(j) <= n(k)
    BY <1>5
  <2>2. ASSUME NEW j \in keys, Before(EntryOf(born, k), EntryOf(born, j)) PROVE FALSE
    <3>1. n(k) < n(j) /\ n(j) <= n(k) /\ n(j) \in Nat /\ n(k) \in Nat
      BY <1>1, <2>1, <2>2
    <3> QED BY <3>1
  <2> QED BY <1>2, <2>2
<1> QED BY <1>4, <1>6

----------------------------------------------------------------------------
(* Pages *)

\* A page cuts what is left: the cursor of the next page is the last entry of this one,
\* and what is after it is what the page left; without a next page nothing is left.
LEMMA PageCuts ==
  ASSUME NEW keys \in SUBSET Ids, NEW born \in [Ids -> Nat], NEW c \in Cursor,
         NEW n \in Limits
  PROVE  LET rest == After(keys, born, c)
             page == CursorPage(keys, born, c, n)
             next == NextCursor(page, born)
         IN /\ page \subseteq rest /\ rest \subseteq keys
            /\ ~HasMore(keys, born, c, n) => page = rest
            /\ HasMore(keys, born, c, n) =>
                 next \in Cursor /\ After(keys, born, next) = rest \ page
<1> DEFINE rest == After(keys, born, c)
           page == CursorPage(keys, born, c, n)
           next == NextCursor(page, born)
           E(k) == EntryOf(born, k)
           N(k) == Cardinality(Ahead(rest, born, k))
<1>0. n \in Nat \ {0}
  BY WalkAssumption
<1>1. rest \in SUBSET keys /\ rest \in SUBSET Ids
  BY DEF After
<1>2. page = {k \in rest : N(k) < n}
  BY DEF CursorPage, Ahead
<1>3. /\ \A k \in rest : N(k) \in Nat /\ N(k) < Cardinality(rest)
      /\ \A j, k \in rest : Before(E(j), E(k)) => N(j) < N(k)
      /\ Cardinality(rest) \in Nat
  <2>1. ASSUME NEW S \in SUBSET Ids
        PROVE  /\ Cardinality(S) \in Nat
               /\ \A k \in S : /\ Cardinality(Ahead(S, born, k)) \in Nat
                              /\ Cardinality(Ahead(S, born, k)) < Cardinality(S)
               /\ \A j, k \in S : Before(E(j), E(k)) =>
                    Cardinality(Ahead(S, born, j)) < Cardinality(Ahead(S, born, k))
    BY AheadCounts, WalkAssumption, SubsetCounts
  <2> HIDE DEF rest
  <2> QED BY <1>1, <2>1
<1>4. \A k \in Ids : E(k) \in Cursor
  BY EntryType
<1>5. \A k \in keys : k \in rest <=> Before(c, E(k))
  BY DEF After
<1>6. ASSUME ~HasMore(keys, born, c, n) PROVE page = rest
  <2>1. Cardinality(rest) <= n
    BY <1>0, <1>3, <1>6 DEF HasMore
  <2> QED BY <1>0, <1>2, <1>3, <2>1
<1>7. ASSUME HasMore(keys, born, c, n)
      PROVE  next \in Cursor /\ After(keys, born, next) = rest \ page
  <2>1. rest # {}
    BY <1>0, <1>7, FS_EmptySet DEF HasMore
  <2>2. PICK first \in rest : Ahead(rest, born, first) = {}
    BY <1>1, <2>1, FirstAndLast
  <2>3. first \in page
    BY <1>0, <1>2, <2>2, FS_EmptySet
  <2>4. page \in SUBSET Ids
    BY <1>1, <1>2
  <2>5. \E k \in page : \A j \in page : j = k \/ Before(E(j), E(k))
    BY <2>3, <2>4, FirstAndLast
  <2>6. PICK last \in page : next = E(last) /\ \A j \in page : j = last \/ Before(E(j), E(last))
    BY <2>5 DEF NextCursor
  <2>7. last \in rest /\ last \in Ids /\ next \in Cursor /\ Before(c, next)
    BY <1>1, <1>2, <1>4, <1>5, <2>6
  <2>8. ASSUME NEW k \in keys PROVE Before(next, E(k)) <=> k \in rest \ page
    <3>1. k \in Ids /\ E(k) \in Cursor
      BY <1>4
    <3>2. CASE k \in page
      <4>1. k = last \/ Before(E(k), next)
        BY <2>6, <3>2
      <4> QED BY <2>6, <2>7, <3>1, <3>2, <4>1, EntriesOrdered
    <3>3. CASE k \in rest \ page
      <4>1. ASSUME Before(E(k), E(last)) PROVE FALSE
        <5>1. N(k) < N(last) /\ N(last) < n /\ N(k) \in Nat /\ N(last) \in Nat
          BY <1>0, <1>2, <1>3, <2>6, <2>7, <3>3, <4>1
        <5> QED BY <1>0, <1>2, <3>3, <5>1
      <4>2. E(k) # E(last)
        BY <2>6, <2>7, <3>1, <3>3, EntryType
      <4> QED BY <2>6, <2>7, <3>1, <3>3, <4>1, <4>2, EntriesOrdered
    <3>4. CASE k \notin rest
      BY <1>2, <1>5, <2>7, <3>1, <3>4, EntriesOrdered
    <3> QED BY <3>2, <3>3, <3>4
  <2> QED BY <1>1, <2>7, <2>8 DEF After
<1> QED BY <1>1, <1>2, <1>6, <1>7

LEMMA PositionCounts ==
  ASSUME NEW keys \in SUBSET Ids, NEW born \in [Ids -> Nat], NEW k \in keys
  PROVE  /\ Position(keys, born, k) \in Nat
         /\ Position(keys, born, k) < Cardinality(keys)
         /\ Cardinality(keys) \in Nat
<1> DEFINE newer == {j \in keys : born[j] > born[k] \/ (born[j] = born[k] /\ j < k)}
<1>1. newer \in SUBSET keys /\ k \notin newer
  BY WalkAssumption
<1>2. IsFiniteSet(keys)
  BY WalkAssumption, SubsetCounts
<1> HIDE DEF newer
<1>3. newer # keys
  BY <1>1
<1>4. Cardinality(newer) \in Nat /\ Cardinality(newer) < Cardinality(keys) /\ Cardinality(keys) \in Nat
  BY <1>1, <1>2, <1>3, SubsetCounts
<1> QED BY <1>4 DEF newer, Position

\* A key only moves away from the start of the listing while keys are added to it.
LEMMA PositionGrows ==
  ASSUME NEW keys \in SUBSET Ids, NEW more \in SUBSET Ids, keys \subseteq more,
         NEW born \in [Ids -> Nat], NEW later \in [Ids -> Nat],
         \A j \in keys : later[j] = born[j], NEW k \in keys
  PROVE  /\ Position(keys, born, k) <= Position(more, later, k)
         /\ keys = more => Position(keys, born, k) = Position(more, later, k)
<1> DEFINE newer(S, b) == {j \in S : b[j] > b[k] \/ (b[j] = b[k] /\ j < k)}
<1>1. newer(keys, born) \in SUBSET newer(more, later)
  OBVIOUS
<1>2. newer(more, later) \in SUBSET more /\ IsFiniteSet(more)
  BY WalkAssumption, SubsetCounts
<1>3. keys = more => newer(keys, born) = newer(more, later)
  OBVIOUS
<1> HIDE DEF newer
<1>4. IsFiniteSet(newer(more, later))
  BY <1>2, SubsetCounts
<1>5. Cardinality(newer(keys, born)) <= Cardinality(newer(more, later))
  BY <1>1, <1>4, SubsetCounts
<1> QED BY <1>3, <1>5 DEF newer, Position

----------------------------------------------------------------------------
(* Types *)

LEMMA NoWalkType == NoWalk \in Walk /\ NoWalk.kind = "none"
BY DEF NoWalk, Walk, NoCursor, Cursor, Absent, Record, Secrets

\* What the fields of a walk may be set to.
LEMMA WalkType ==
  ASSUME NEW r \in Walk
  PROVE  /\ [r EXCEPT !.came = r.came + 1] \in Walk
         /\ \A all \in BOOLEAN, due \in SUBSET Ids, kind \in {"cursor", "offset"} :
              [NoWalk EXCEPT !.kind = kind, !.rotatedToo = all, !.due = due] \in Walk
         /\ \A listed \in [Ids -> Nat], n \in Nat, b \in BOOLEAN :
              [r EXCEPT !.listed = listed, !.offset = n, !.done = b] \in Walk
         /\ \A k \in Ids : /\ [r EXCEPT !.at = k] \in Walk
                           /\ [r EXCEPT !.todo = r.todo \ {k}] \in Walk
                           /\ [r EXCEPT !.todo = r.todo \ {k}, !.due = r.due \ {k}] \in Walk
<1>1. [r EXCEPT !.came = r.came + 1] \in Walk
  BY DEF Walk
<1>2. \A all \in BOOLEAN, due \in SUBSET Ids, kind \in {"cursor", "offset"} :
        [NoWalk EXCEPT !.kind = kind, !.rotatedToo = all, !.due = due] \in Walk
  BY NoWalkType DEF Walk
<1>3. \A listed \in [Ids -> Nat], n \in Nat, b \in BOOLEAN :
        [r EXCEPT !.listed = listed, !.offset = n, !.done = b] \in Walk
  BY DEF Walk
<1>4. \A k \in Ids : [r EXCEPT !.at = k] \in Walk
  BY DEF Walk
<1>5. \A k \in Ids : [r EXCEPT !.todo = r.todo \ {k}] \in Walk
  BY DEF Walk
<1>6. \A k \in Ids : [r EXCEPT !.todo = r.todo \ {k}, !.due = r.due \ {k}] \in Walk
  BY DEF Walk
<1> QED BY <1>1, <1>2, <1>3, <1>4, <1>5, <1>6

LEMMA StoredIds == Stored \in SUBSET Ids
BY DEF Stored

LEMMA CountType ==
  ASSUME NEW listed \in [Ids -> Nat], NEW page
  PROVE  Count(listed, page) \in [Ids -> Nat]
BY DEF Count

\* The secrets and statuses that are put.
LEMMA RecordType ==
  /\ Absent \in Record
  /\ encryptData([Absent EXCEPT !.status = "active"], "old") \in Record
  /\ \A r \in Record : /\ [r EXCEPT !.status = "rotated"] \in Record
                       /\ [r EXCEPT !.status = "revoked"] \in Record
                       /\ encryptData(r, "new") \in Record
BY DEF Absent, Record, Secrets, encryptData

LEMMA KeysType ==
  ASSUME TypeOK, NEW k \in Ids,
         DrawKey(k) \/ StoreKey(k) \/ RotateBegin(k) \/ RotateEnd(k) \/ Revoke(k) \/ Clean(k)
           \/ ExpireBegin(k) \/ ExpireEnd(k) \/ GiveUp(k)
  PROVE  TypeOK'
<1>1. CASE DrawKey(k)
  BY <1>1 DEF DrawKey, TypeOK
<1>2. CASE StoreKey(k)
  <2>1. walk' \in [Walkers -> Walk]
    BY <1>2, WalkType DEF StoreKey, TypeOK
  <2>2. record' \in [Ids -> Record]
    BY <1>2, RecordType DEF StoreKey, TypeOK
  <2>3. lookup' \subseteq Ids /\ hmac' \in [Ids -> {"none"} \union Secrets]
    BY <1>2 DEF StoreKey, TypeOK, generateHmac, Secrets
  <2> QED BY <1>2, <2>1, <2>2, <2>3 DEF StoreKey, TypeOK
<1>3. CASE RotateBegin(k)
  BY <1>3 DEF RotateBegin, TypeOK
<1>4. CASE RotateEnd(k)
  BY <1>4, RecordType DEF RotateEnd, TypeOK
<1>5. CASE Revoke(k)
  <2>1. record[k] \in Record
    BY DEF TypeOK
  <2>2. record' \in [Ids -> Record]
    BY <1>5, <2>1, RecordType DEF Revoke, TypeOK
  <2> QED BY <1>5, <2>2 DEF Revoke, TypeOK
<1>6. CASE Clean(k)
  BY <1>6 DEF Clean, TypeOK
<1>7. CASE ExpireBegin(k)
  BY <1>7 DEF ExpireBegin, TypeOK
<1>8. CASE ExpireEnd(k)
  BY <1>8, RecordType DEF ExpireEnd, TypeOK
<1>9. CASE GiveUp(k)
  BY <1>9, RecordType DEF GiveUp, TypeOK
<1> QED BY <1>1, <1>2, <1>3, <1>4, <1>5, <1>6, <1>7, <1>8, <1>9

LEMMA ListType ==
  ASSUME TypeOK, NEW w \in Walkers, ListBegin(w) \/ CursorNext(w) \/ OffsetNext(w)
  PROVE  TypeOK'
<1>1. walk[w] \in Walk
  BY DEF TypeOK
<1>2. CASE ListBegin(w)
  <2>1. PICK kind \in {"cursor", "offset"}, all \in BOOLEAN :
          walk' = [walk EXCEPT ![w] = [NoWalk EXCEPT !.kind = kind, !.rotatedToo = all,
                                                     !.due = Stored]]
    BY <1>2 DEF ListBegin
  <2>2. [NoWalk EXCEPT !.kind = kind, !.rotatedToo = all, !.due = Stored] \in Walk
    BY <1>1, StoredIds, WalkType
  <2>3. walk' \in [Walkers -> Walk]
    BY <2>1, <2>2 DEF TypeOK
  <2> QED BY <1>2, <2>3 DEF ListBegin, TypeOK
<1>3. CASE CursorNext(w)
  <2> DEFINE c == walk[w].cursor
  <2>1. PICK n \in Limits :
          LET page == CursorPage(Stored, created, c, n)
              more == HasMore(Stored, created, c, n)
          IN walk' = [walk EXCEPT ![w] = [walk[w] EXCEPT
               !.listed = Count(walk[w].listed, Shown(page, walk[w].rotatedToo)),
               !.due = walk[w].due \ (page \ Shown(page, walk[w].rotatedToo)),
               !.done = ~more,
               !.cursor = IF more THEN NextCursor(page, created) ELSE c]]
    BY <1>1, <1>3 DEF CursorNext, TypeOK
  <2> DEFINE page == CursorPage(Stored, created, c, n)
             more == HasMore(Stored, created, c, n)
  <2>2. c \in Cursor /\ created \in [Ids -> Nat]
    BY <1>1, WalkAssumption DEF Walk, TypeOK
  <2>3. more => NextCursor(page, created) \in Cursor
    BY <2>2, StoredIds, PageCuts
  <2>4. more \in BOOLEAN
    BY DEF HasMore
  <2>5. Count(walk[w].listed, Shown(page, walk[w].rotatedToo)) \in [Ids -> Nat]
    BY <1>1, CountType DEF Walk
  <2>6. (IF more THEN NextCursor(page, created) ELSE c) \in Cursor
    BY <2>2, <2>3
  <2> HIDE DEF page, more, c
  <2>7. walk' \in [Walkers -> Walk]
    BY <1>1, <2>1, <2>4, <2>5, <2>6 DEF Walk, TypeOK, page, more, c
  <2> QED BY <1>3, <2>7 DEF CursorNext, TypeOK
<1>4. CASE OffsetNext(w)
  <2>1. PICK n \in Limits :
          walk' = [walk EXCEPT ![w] = [walk[w] EXCEPT
             !.listed = Count(walk[w].listed, OffsetPage(Stored, created, walk[w].offset, n)),
             !.offset = walk[w].offset + n,
             !.done = walk[w].offset + n >= Cardinality(Stored)]]
    BY <1>1, <1>4 DEF OffsetNext, TypeOK
  <2>2. Count(walk[w].listed, OffsetPage(Stored, created, walk[w].offset, n)) \in [Ids -> Nat]
    BY <1>1, CountType DEF Walk
  <2>3. walk[w].offset + n \in Nat
    BY <1>1, WalkAssumption DEF Walk
  <2>4. (walk[w].offset + n >= Cardinality(Stored)) \in BOOLEAN
    OBVIOUS
  <2>5. walk' \in [Walkers -> Walk]
    BY <1>1, <2>1, <2>2, <2>3, <2>4, WalkType DEF TypeOK
  <2> QED BY <1>4, <2>5 DEF OffsetNext, TypeOK
<1> QED BY <1>2, <1>3, <1>4

LEMMA SecretType ==
  ASSUME TypeOK, NEW w \in Walkers,
         \/ ResealBegin(w) \/ ResealPut(w) \/ ResignBegin(w) \/ ResignPut(w)
         \/ SecretsDone(w) \/ WalkEnd(w)
         \/ \E k \in Ids : ResealOne(w, k) \/ ResignOne(w, k)
  PROVE  TypeOK'
<1>1. walk[w] \in Walk
  BY DEF TypeOK
<1>2. CASE ResealBegin(w)
  <2>1. walk' \in [Walkers -> Walk]
    BY <1>2, NoWalkType, StoredIds DEF ResealBegin, TypeOK, Walk
  <2> QED BY <1>2, <2>1 DEF ResealBegin, TypeOK
<1>3. CASE ResealPut(w)
  <2>1. walk' \in [Walkers -> Walk]
    BY <1>1, <1>3 DEF ResealPut, TypeOK, Walk
  <2>2. walk[w].at \in Ids /\ walk[w].copies[walk[w].at] \in Record
    BY <1>1, <1>3 DEF ResealPut, Walk
  <2>3. record' \in [Ids -> Record]
    BY <1>3, <2>2, RecordType DEF ResealPut, TypeOK
  <2> QED BY <1>3, <2>1, <2>3 DEF ResealPut, TypeOK
<1>4. CASE ResignBegin(w)
  <2>1. walk' \in [Walkers -> Walk]
    BY <1>4, NoWalkType DEF ResignBegin, TypeOK, Walk
  <2> QED BY <1>4, <2>1 DEF ResignBegin, TypeOK
<1>5. CASE ResignPut(w)
  <2>1. walk' \in [Walkers -> Walk]
    BY <1>1, <1>5 DEF ResignPut, TypeOK, Walk
  <2>2. hmac' \in [Ids -> {"none"} \union Secrets]
    BY <1>5 DEF ResignPut, TypeOK, generateHmac, Secrets
  <2> QED BY <1>5, <2>1, <2>2 DEF ResignPut, TypeOK
<1>6. CASE SecretsDone(w)
  <2>1. walk' \in [Walkers -> Walk]
    BY <1>1, <1>6 DEF SecretsDone, TypeOK, Walk
  <2> QED BY <1>6, <2>1 DEF SecretsDone, TypeOK
<1>7. CASE WalkEnd(w)
  BY <1>7, NoWalkType DEF WalkEnd, TypeOK
<1>8. ASSUME NEW k \in Ids, ResealOne(w, k) PROVE TypeOK'
  <2>1. walk' \in [Walkers -> Walk]
    BY <1>1, <1>8, WalkType DEF ResealOne, TypeOK
  <2> QED BY <1>8, <2>1 DEF ResealOne, TypeOK
<1>9. ASSUME NEW k \in Ids, ResignOne(w, k) PROVE TypeOK'
  <2>1. \E r \in Walk : walk' = [walk EXCEPT ![w] = r]
    <3>1. \/ walk' = [walk EXCEPT ![w] = [walk[w] EXCEPT !.at = k]]
          \/ walk' = [walk EXCEPT ![w] = [walk[w] EXCEPT !.todo = walk[w].todo \ {k}]]
          \/ walk' = [walk EXCEPT ![w] = [walk[w] EXCEPT !.todo = walk[w].todo \ {k},
                                                         !.due = walk[w].due \ {k}]]
      BY <1>1, <1>9 DEF ResignOne, TypeOK
    <3> QED BY <1>1, <3>1, WalkType
  <2>2. walk' \in [Walkers -> Walk]
    BY <2>1 DEF TypeOK
  <2> QED BY <1>9, <2>2 DEF ResignOne, TypeOK
<1> QED BY <1>2, <1>3, <1>4, <1>5, <1>6, <1>7, <1>8, <1>9

----------------------------------------------------------------------------
(* What requests leave alone *)

SameStored == Stored' = Stored /\ \A j \in Stored : created'[j] = created[j]

\* No key that was stored gets its lookup entry back, or another signature than a new one.
SignaturesKept ==
  \A j \in Stored : j \in lookup' => j \in lookup /\ hmac'[j] \in {hmac[j], "new"}

\* A record under the new secret, of which nobody holds an older copy, stays so.
UpToDate(k) == record[k].sealed = "new" /\ Uncopied(k)
SealsKept == \A j \in Stored : UpToDate(j) => UpToDate(j)'
SecretsKept == SignaturesKept /\ SealsKept

LEMMA KeysStore ==
  ASSUME TypeOK, StoreInv, NEW k \in Ids,
         DrawKey(k) \/ RotateBegin(k) \/ RotateEnd(k) \/ Revoke(k) \/ Clean(k)
           \/ ExpireBegin(k) \/ ExpireEnd(k) \/ GiveUp(k)
  PROVE  StoreInv' /\ SameStored /\ SignaturesKept
<1> USE DEF StoreInv, SameStored, SignaturesKept
<1>1. CASE DrawKey(k)
  <2>1. Stored' = Stored /\ k \notin Stored
    BY <1>1 DEF DrawKey, Stored
  <2> QED BY <1>1, <2>1, StoredIds DEF DrawKey, TypeOK
<1>2. CASE RotateBegin(k)
  <2>1. Stored' = Stored /\ k \in Stored
    BY <1>2 DEF RotateBegin, Stored
  <2> QED BY <1>2, <2>1 DEF RotateBegin, TypeOK
<1>3. CASE RotateEnd(k)
  <2>1. k \in Stored /\ record'[k].status = "rotated" /\ \A j \in Ids \ {k} : record'[j] = record[j]
    BY <1>3 DEF RotateEnd, TypeOK, Record
  <2>2. Stored' = Stored
    BY <2>1 DEF Stored
  <2> QED BY <1>3, <2>1, <2>2 DEF RotateEnd, TypeOK
<1>4. CASE Revoke(k)
  <2>1. /\ k \in Stored /\ record'[k].status = "revoked"
        /\ \A j \in Ids \ {k} : record'[j] = record[j]
    BY <1>4 DEF Revoke, TypeOK, Record, Stored
  <2>2. Stored' = Stored
    BY <2>1 DEF Stored
  <2> QED BY <1>4, <2>2 DEF Revoke
<1>5. CASE Clean(k)
  <2>1. Stored' = Stored
    BY <1>5 DEF Clean, Stored
  <2> QED BY <1>5, <2>1, StoredIds DEF Clean, TypeOK
<1>6. CASE ExpireBegin(k)
  <2>1. Stored' = Stored /\ k \in Stored
    BY <1>6 DEF ExpireBegin, Stored
  <2> QED BY <1>6, <2>1 DEF ExpireBegin, TypeOK
<1>7. CASE ExpireEnd(k)
  <2>1. k \in Stored /\ record'[k].status = "revoked" /\ \A j \in Ids \ {k} : record'[j] = record[j]
    BY <1>7 DEF ExpireEnd, TypeOK, Record
  <2>2. Stored' = Stored
    BY <2>1 DEF Stored
  <2> QED BY <1>7, <2>1, <2>2, StoredIds DEF ExpireEnd, TypeOK
<1>8. CASE GiveUp(k)
  <2>1. Stored' = Stored
    BY <1>8 DEF GiveUp, Stored
  <2> QED BY <1>8, <2>1 DEF GiveUp, TypeOK
<1> QED BY <1>1, <1>2, <1>3, <1>4, <1>5, <1>6, <1>7, <1>8

\* A request that writes back a copy writes one that is not older than the record.
LEMMA KeysSeal ==
  ASSUME TypeOK, NEW k \in Ids,
         DrawKey(k) \/ RotateBegin(k) \/ RotateEnd(k) \/ Revoke(k) \/ Clean(k)
           \/ ExpireBegin(k) \/ ExpireEnd(k) \/ GiveUp(k)
  PROVE  SealsKept
<1> SUFFICES ASSUME NEW j \in Ids, record[j].sealed = "new", Uncopied(j)
             PROVE  record'[j].sealed = "new" /\ Uncopied(j)'
  BY StoredIds DEF SealsKept, UpToDate
<1>0. record \in [Ids -> Record] /\ rotating \in [Ids -> Record] /\ expiring \in [Ids -> Record]
  BY DEF TypeOK
<1> USE DEF Uncopied
<1>1. CASE DrawKey(k) \/ Clean(k)
  BY <1>1 DEF DrawKey, Clean
<1>2. CASE RotateBegin(k)
  BY <1>0, <1>2 DEF RotateBegin
<1>3. CASE ExpireBegin(k)
  BY <1>0, <1>3 DEF ExpireBegin
<1>4. CASE RotateEnd(k)
  BY <1>0, <1>4 DEF RotateEnd, Record
<1>5. CASE ExpireEnd(k)
  BY <1>0, <1>5 DEF ExpireEnd, Record
<1>6. CASE Revoke(k)
  BY <1>0, <1>6 DEF Revoke, Record
<1>7. CASE GiveUp(k)
  BY <1>0, <1>7 DEF GiveUp
<1> QED BY <1>1, <1>2, <1>3, <1>4, <1>5, <1>6, <1>7

LEMMA StoreKeyStore ==
  ASSUME TypeOK, StoreInv, NEW k \in Ids, StoreKey(k)
  PROVE  /\ StoreInv' /\ SecretsKept
         /\ Stored' = Stored \union {k} /\ k \notin Stored /\ UNCHANGED created
<1>1. /\ record'[k].status = "active" /\ \A j \in Ids \ {k} : record'[j] = record[j]
      /\ hmac'[k] = "old" /\ \A j \in Ids \ {k} : hmac'[j] = hmac[j]
      /\ lookup' = lookup \union {k} /\ created[k] # 0 /\ k \notin Stored
      /\ UNCHANGED <<created, rotating, expiring>>
  BY DEF StoreKey, TypeOK, Record, encryptData, generateHmac, Absent
<1>2. Stored' = Stored \union {k}
  BY <1>1 DEF Stored
<1>3. SealsKept
  BY <1>1, StoredIds DEF SealsKept, UpToDate, Uncopied
<1> QED BY <1>1, <1>2, <1>3, StoredIds DEF StoreInv, SecretsKept, SignaturesKept

\* What a listing owes and has shown does not depend on the rest.
LEMMA ListKept ==
  ASSUME TypeOK, TypeOK', SameStored, NEW r, ListInv(r) PROVE ListInv(r)'
<1>1. \A c : After(Stored', created', c) = After(Stored, created, c)
  BY DEF SameStored, After, EntryOf
<1>2. \A k \in Stored : Position(Stored', created', k) = Position(Stored, created, k)
  BY StoredIds, PositionGrows DEF SameStored, TypeOK
<1>3. \A k \in Ids : CursorInv(k, r) => CursorInv(k, r)'
  BY <1>1 DEF CursorInv
<1>4. \A k \in Ids : OffsetInv(k, r) => OffsetInv(k, r)'
  BY <1>2 DEF OffsetInv, SameStored
<1> QED BY <1>3, <1>4 DEF ListInv, SameStored

LEMMA SecretKept ==
  ASSUME SecretsKept, Stored \subseteq Stored', NEW r, SecretInv(r) PROVE SecretInv(r)'
<1>1. r.kind = "resign" => \A k \in (r.due \ r.todo) \intersect lookup' : hmac'[k] = "new"
  BY DEF SecretInv, SecretsKept, SignaturesKept, verifyHmac
<1>2. r.kind = "reseal" => \A k \in r.due : UpToDate(k)'
  BY DEF SecretInv, SecretsKept, SealsKept, UpToDate
<1> QED BY <1>1, <1>2 DEF SecretInv, verifyHmac, UpToDate

WalkOK(w) == /\ walk[w].kind \in {"cursor", "offset"} => ListInv(walk[w])
             /\ walk[w].kind \in {"reseal", "resign"} => SecretInv(walk[w])

LEMMA WalkNext ==
  ASSUME NEW w \in Walkers, NEW r, walk'[w] = r,
         r.kind \in {"cursor", "offset"} => ListInv(r)',
         r.kind \in {"reseal", "resign"} => SecretInv(r)'
  PROVE  WalkOK(w)'
<1>1. r.kind \in {"cursor", "offset"} => ListInv(walk[w])'
  BY DEF ListInv, CursorInv, OffsetInv
<1>2. r.kind \in {"reseal", "resign"} => SecretInv(walk[w])'
  BY DEF SecretInv
<1> QED BY <1>1, <1>2 DEF WalkOK

\* A walk that does not move keeps what it owes.
LEMMA WalkStays ==
  ASSUME IndInv, TypeOK', SameStored, SecretsKept, NEW w \in Walkers, walk'[w] = walk[w]
  PROVE  WalkOK(w)'
<1>1. PICK r : r = walk[w]
  OBVIOUS
<1>2. r.kind \in {"cursor", "offset"} => ListInv(r)
  BY <1>1 DEF IndInv, WalkInv
<1>3. r.kind \in {"reseal", "resign"} => SecretInv(r)
  BY <1>1 DEF IndInv, WalkInv
<1>4. r.kind \in {"cursor", "offset"} => ListInv(r)'
  BY <1>2, ListKept DEF IndInv
<1>5. r.kind \in {"reseal", "resign"} => SecretInv(r)'
  BY <1>3, SecretKept DEF SameStored
<1> QED BY <1>1, <1>4, <1>5, WalkNext

\* A walk goes on while the others keep what they owe.
LEMMA WalkStep ==
  ASSUME IndInv, TypeOK', StoreInv', SameStored, SecretsKept, NEW w \in Walkers, NEW r,
         walk' = [walk EXCEPT ![w] = r],
         r.kind \in {"cursor", "offset"} => ListInv(r)',
         r.kind \in {"reseal", "resign"} => SecretInv(r)'
  PROVE  IndInv'
<1>1. walk'[w] = r /\ \A v \in Walkers \ {w} : walk'[v] = walk[v]
  BY DEF IndInv, TypeOK
<1>2. WalkOK(w)'
  BY <1>1, WalkNext
<1>3. ASSUME NEW v \in Walkers \ {w} PROVE WalkOK(v)'
  BY <1>1, WalkStays
<1>4. \A v \in Walkers : WalkOK(v)'
  BY <1>2, <1>3
<1> QED BY <1>4 DEF IndInv, WalkInv, WalkOK

LEMMA KeysInd ==
  ASSUME IndInv, NEW k \in Ids,
         DrawKey(k) \/ RotateBegin(k) \/ RotateEnd(k) \/ Revoke(k) \/ Clean(k)
           \/ ExpireBegin(k) \/ ExpireEnd(k) \/ GiveUp(k)
  PROVE  IndInv'
<1>1. TypeOK' /\ StoreInv' /\ SameStored /\ SecretsKept /\ UNCHANGED walk
  BY KeysType, KeysStore, KeysSeal
    DEF IndInv, SecretsKept, DrawKey, RotateBegin, RotateEnd, Revoke, Clean, ExpireBegin,
        ExpireEnd, GiveUp
<1>2. ASSUME NEW w \in Walkers PROVE WalkOK(w)'
  BY <1>1, WalkStays
<1> QED BY <1>1, <1>2 DEF IndInv, WalkInv, WalkOK

\* A key that is stored was not owed by any walk, nor shown.
LEMMA StoreKeyInd == ASSUME IndInv, NEW k \in Ids, StoreKey(k) PROVE IndInv'
<1>1. /\ StoreInv' /\ SecretsKept
      /\ Stored' = Stored \union {k} /\ k \notin Stored /\ UNCHANGED created
  BY StoreKeyStore DEF IndInv
<1>2. TypeOK' /\ Stored' \in SUBSET Ids /\ TypeOK
  BY KeysType, <1>1, StoredIds DEF IndInv
<1>3. ASSUME NEW w \in Walkers PROVE WalkOK(w)'
  <2>1. walk[w] \in Walk /\ walk'[w] \in Walk
    BY <1>2 DEF TypeOK
  <2>2. PICK r : walk'[w] = r
    OBVIOUS
  <2>3. /\ r.kind = walk[w].kind /\ r.due = walk[w].due /\ r.done = walk[w].done
        /\ r.listed = walk[w].listed /\ r.cursor = walk[w].cursor /\ r.offset = walk[w].offset
        /\ r.came = IF Under(w, "offset") THEN walk[w].came + 1 ELSE walk[w].came
    BY <2>1, <2>2 DEF StoreKey, Walk
  <2>4. ASSUME walk[w].kind = "cursor" PROVE ListInv(r)'
    <3>1. ListInv(walk[w])
      BY <2>4 DEF IndInv, WalkInv
    <3>2. ASSUME NEW j \in Ids PROVE CursorInv(j, r)'
      <4>1. CursorInv(j, walk[w]) /\ (walk[w].listed[j] = 0 \/ j \in Stored) /\ walk[w].due \subseteq Stored
        BY <2>4, <3>1 DEF ListInv
      <4>2. CASE j = k
        BY <1>1, <2>3, <4>1, <4>2 DEF CursorInv
      <4>3. CASE j # k
        <5>1. j \in After(Stored', created', r.cursor) <=> j \in After(Stored, created, walk[w].cursor)
          BY <1>1, <2>3, <4>3 DEF After
        <5> QED BY <2>3, <4>1, <5>1 DEF CursorInv
      <4> QED BY <4>2, <4>3
    <3> QED BY <1>1, <2>3, <2>4, <3>1, <3>2 DEF ListInv
  <2>5. ASSUME walk[w].kind = "offset" PROVE ListInv(r)'
    <3>1. ListInv(walk[w])
      BY <2>5 DEF IndInv, WalkInv
    <3>2. ASSUME NEW j \in Ids PROVE OffsetInv(j, r)'
      <4>1. OffsetInv(j, walk[w]) /\ (walk[w].listed[j] = 0 \/ j \in Stored) /\ walk[w].due \subseteq Stored
        BY <2>5, <3>1 DEF ListInv
      <4>2. walk[w].listed[j] \in Nat /\ walk[w].came \in Nat /\ walk[w].offset \in Nat
            /\ walk[w].done \in BOOLEAN
        BY <2>1 DEF Walk
      <4>3. CASE j \notin Stored
        BY <1>1, <2>3, <4>1, <4>2, <4>3 DEF OffsetInv
      <4>4. CASE j \in Stored
        <5>1. /\ Position(Stored, created, j) <= Position(Stored', created', j)
              /\ Position(Stored, created, j) \in Nat /\ Position(Stored', created', j) \in Nat
          BY <1>1, <1>2, <4>4, StoredIds, PositionGrows, PositionCounts DEF TypeOK
        <5>2. r.came >= walk[w].came /\ (~r.done => r.came = walk[w].came + 1)
          BY <2>3, <2>5, <4>2 DEF Under
        <5> QED BY <1>1, <2>3, <4>1, <4>2, <4>4, <5>1, <5>2 DEF OffsetInv
      <4> QED BY <4>3, <4>4
    <3> QED BY <1>1, <2>3, <2>5, <3>1, <3>2 DEF ListInv
  <2>6. ASSUME walk[w].kind \in {"reseal", "resign"} PROVE SecretInv(r)'
    <3>1. walk'[w] = walk[w]
      BY <2>6 DEF StoreKey, Under
    <3>2. SecretInv(r)
      BY <2>2, <2>6, <3>1 DEF IndInv, WalkInv
    <3> QED BY <1>1, <3>2, SecretKept
  <2> QED BY <2>2, <2>3, <2>4, <2>5, <2>6, WalkNext
<1> QED BY <1>1, <1>2, <1>3 DEF IndInv, WalkInv, WalkOK

----------------------------------------------------------------------------
(* Listing page after page *)

\* What a step that changes only walks leaves alone.
LEMMA OnlyWalks ==
  ASSUME StoreInv, UNCHANGED <<now, created, record, lookup, hmac, rotating, expiring>>
  PROVE  StoreInv' /\ SameStored /\ SecretsKept
BY DEF StoreInv, SameStored, SecretsKept, SignaturesKept, SealsKept, UpToDate,
       Uncopied, Stored

LEMMA CountShown ==
  ASSUME NEW listed \in [Ids -> Nat], NEW page, NEW k \in Ids
  PROVE  Count(listed, page)[k] = IF k \in page THEN listed[k] + 1 ELSE listed[k]
BY DEF Count

\* Everything stored is ahead of a listing that begins.
LEMMA ListBeginInd == ASSUME IndInv, NEW w \in Walkers, ListBegin(w) PROVE IndInv'
<1>1. TypeOK' /\ StoreInv' /\ SameStored /\ SecretsKept
  BY ListType, OnlyWalks DEF IndInv, ListBegin
<1>2. PICK kind, all, r :
        /\ kind \in {"cursor", "offset"} /\ all \in BOOLEAN
        /\ r = [NoWalk EXCEPT !.kind = kind, !.rotatedToo = all, !.due = Stored]
        /\ walk' = [walk EXCEPT ![w] = r]
  BY DEF ListBegin
<1>3. /\ r.kind = kind /\ r.due = Stored /\ r.cursor = NoCursor /\ r.offset = 0
      /\ r.done = FALSE /\ r.came = 0 /\ \A k \in Ids : r.listed[k] = 0
  BY <1>2 DEF NoWalk
<1>4. \A k \in Stored' : k \in After(Stored', created', NoCursor)
  BY <1>1, WalkAssumption DEF After, Before, EntryOf, NoCursor, TypeOK, Stored
<1>5. \A k \in Stored' : Position(Stored', created', k) >= 0
  BY <1>1, PositionCounts DEF TypeOK, Stored
<1>6. ASSUME NEW k \in Ids PROVE CursorInv(k, r)' /\ OffsetInv(k, r)'
  BY <1>1, <1>3, <1>4, <1>5 DEF CursorInv, OffsetInv, SameStored
<1>7. ListInv(r)'
  BY <1>1, <1>3, <1>6 DEF ListInv, SameStored
<1> QED BY <1>1, <1>2, <1>3, <1>7, WalkStep

\* A page by cursor shows what is ahead up to the next cursor, once.
LEMMA CursorNextInd == ASSUME IndInv, NEW w \in Walkers, CursorNext(w) PROVE IndInv'
<1> DEFINE s == walk[w]
           c == s.cursor
<1>1. TypeOK' /\ StoreInv' /\ SameStored /\ SecretsKept
  BY ListType, OnlyWalks DEF IndInv, CursorNext
<1>2. /\ s \in Walk /\ s.kind = "cursor" /\ ~s.done /\ ListInv(s)
      /\ c \in Cursor /\ created \in [Ids -> Nat]
  BY DEF IndInv, WalkInv, TypeOK, CursorNext, Under, Walk
<1>3. PICK n \in Limits :
        LET page == CursorPage(Stored, created, c, n)
            more == HasMore(Stored, created, c, n)
        IN walk' = [walk EXCEPT ![w] = [s EXCEPT
             !.listed = Count(s.listed, Shown(page, s.rotatedToo)),
             !.due = s.due \ (page \ Shown(page, s.rotatedToo)),
             !.done = ~more,
             !.cursor = IF more THEN NextCursor(page, created) ELSE c]]
  BY DEF CursorNext, IndInv, TypeOK
<1> DEFINE page == CursorPage(Stored, created, c, n)
           more == HasMore(Stored, created, c, n)
           next == NextCursor(page, created)
           shown == Shown(page, s.rotatedToo)
           rest == After(Stored, created, c)
<1>4. /\ page \subseteq rest /\ rest \subseteq Stored /\ shown \subseteq page
      /\ ~more => page = rest
      /\ more => After(Stored, created, next) = rest \ page
  <2>1. Stored \in SUBSET Ids
    BY StoredIds
  <2>2. shown \subseteq page
    BY DEF Shown
  <2>3. created \in [Ids -> Nat] /\ c \in Cursor
    BY <1>2
  <2> HIDE DEF c, shown
  <2>4. /\ page \subseteq rest /\ rest \subseteq Stored /\ (~more => page = rest)
        /\ more => After(Stored, created, next) = rest \ page
    BY <2>1, <2>3, PageCuts
  <2> QED BY <2>2, <2>4
<1>5. PICK r :
        /\ r = [s EXCEPT !.listed = Count(s.listed, shown), !.due = s.due \ (page \ shown),
                         !.done = ~more, !.cursor = IF more THEN next ELSE c]
        /\ walk' = [walk EXCEPT ![w] = r]
  BY <1>3
<1>6. \A k \in Ids : k \in After(Stored', created', r.cursor) <=> k \in After(Stored, created, r.cursor)
  BY <1>1 DEF SameStored, After, EntryOf
<1> HIDE DEF page, more, next, shown, rest, c, s
<1>7. /\ r.kind = "cursor" /\ r.listed = Count(s.listed, shown) /\ r.due = s.due \ (page \ shown)
       /\ r.done = ~more /\ r.cursor = IF more THEN next ELSE c
  BY <1>2, <1>5 DEF Walk
<1>8. ASSUME NEW k \in Ids PROVE CursorInv(k, r)' /\ (r.listed[k] = 0 \/ k \in Stored)
  <2>1. /\ CursorInv(k, s) /\ (s.listed[k] = 0 \/ k \in Stored) /\ s.due \subseteq Stored
        /\ s.listed \in [Ids -> Nat]
    BY <1>2 DEF ListInv, Walk
  <2>2. r.listed[k] = IF k \in shown THEN s.listed[k] + 1 ELSE s.listed[k]
    BY <1>7, <2>1, CountShown
  <2>3. /\ s.listed[k] \in Nat /\ s.listed[k] <= 1
        /\ k \in rest => s.listed[k] = 0
        /\ k \notin rest /\ k \in s.due => s.listed[k] = 1
    BY <1>2, <2>1 DEF CursorInv, rest, c, Walk
  <2>4. r.listed[k] <= 1 /\ (r.listed[k] = 0 \/ k \in Stored)
    BY <1>4, <2>1, <2>2, <2>3
  <2>5. ~r.done /\ k \in After(Stored', created', r.cursor) => r.listed[k] = 0
    BY <1>4, <1>7, <1>6, <2>2, <2>3
  <2>6. ASSUME r.done \/ k \notin After(Stored', created', r.cursor), k \in r.due
        PROVE  r.listed[k] = 1
    <3>1. k \in s.due /\ (k \in page => k \in shown)
      BY <1>7, <2>6
    <3>2. CASE k \in page
      BY <1>4, <2>2, <2>3, <3>1, <3>2
    <3>3. CASE k \notin page
      <4>1. k \notin rest
        BY <1>4, <1>7, <1>6, <2>6, <3>3
      <4> QED BY <1>4, <2>2, <2>3, <3>1, <3>3, <4>1
    <3> QED BY <3>2, <3>3
  <2> QED BY <2>4, <2>5, <2>6 DEF CursorInv
<1>9. ListInv(r)'
  <2>1. r.due \subseteq Stored'
    BY <1>1, <1>2, <1>7 DEF ListInv, SameStored
  <2> QED BY <1>1, <1>7, <1>8, <2>1 DEF ListInv, SameStored
<1> QED BY <1>1, <1>5, <1>9, <1>7, WalkStep

\* A page by offset shows what stands in it.
LEMMA OffsetNextInd == ASSUME IndInv, NEW w \in Walkers, OffsetNext(w) PROVE IndInv'
<1> DEFINE s == walk[w]
<1>1. TypeOK' /\ StoreInv' /\ SameStored /\ SecretsKept
  BY ListType, OnlyWalks DEF IndInv, OffsetNext
<1>2. /\ s \in Walk /\ s.kind = "offset" /\ ~s.done /\ ListInv(s)
      /\ created \in [Ids -> Nat]
  BY DEF IndInv, WalkInv, TypeOK, OffsetNext, Under
<1>3. PICK n \in Limits :
        walk' = [walk EXCEPT ![w] = [s EXCEPT
          !.listed = Count(s.listed, OffsetPage(Stored, created, s.offset, n)),
          !.offset = s.offset + n,
          !.done = s.offset + n >= Cardinality(Stored)]]
  BY DEF OffsetNext, IndInv, TypeOK
<1> DEFINE page == OffsetPage(Stored, created, s.offset, n)
<1>4. PICK r :
        /\ r = [s EXCEPT !.listed = Count(s.listed, page), !.offset = s.offset + n,
                         !.done = s.offset + n >= Cardinality(Stored)]
        /\ walk' = [walk EXCEPT ![w] = r]
  BY <1>3
<1>5. \A k \in Ids : k \in page <=> /\ k \in Stored
                                    /\ Position(Stored, created, k) \in s.offset .. s.offset + n - 1
  BY DEF OffsetPage, Stored
<1>6. n \in Nat /\ n > 0 /\ s.offset \in Nat /\ s.came \in Nat /\ s.listed \in [Ids -> Nat]
  BY <1>2, WalkAssumption DEF Walk
<1> HIDE DEF page, s
<1>7. /\ r.kind = "offset" /\ r.listed = Count(s.listed, page) /\ r.due = s.due
      /\ r.offset = s.offset + n /\ r.done = (s.offset + n >= Cardinality(Stored))
      /\ r.came = s.came
  BY <1>2, <1>4 DEF Walk
<1>8. ASSUME NEW k \in Ids PROVE OffsetInv(k, r)' /\ (r.listed[k] = 0 \/ k \in Stored)
  <2>1. OffsetInv(k, s) /\ (s.listed[k] = 0 \/ k \in Stored) /\ s.due \subseteq Stored
    BY <1>2 DEF ListInv
  <2>2. r.listed[k] = (IF k \in page THEN s.listed[k] + 1 ELSE s.listed[k]) /\ s.listed[k] \in Nat
    BY <1>7, <1>6, CountShown
  <2>3. CASE k \notin Stored
    BY <1>1, <1>7, <1>5, <1>6, <2>1, <2>2, <2>3 DEF OffsetInv, SameStored
  <2>4. CASE k \in Stored
    <3> DEFINE at == Position(Stored, created, k)
    <3>1. at \in Nat /\ at < Cardinality(Stored) /\ Cardinality(Stored) \in Nat
      BY <1>2, <2>4, StoredIds, PositionCounts
    <3>2. Position(Stored', created', k) = at
      BY <1>1, <1>2, <2>4, StoredIds, PositionGrows DEF SameStored, TypeOK
    <3>3. /\ s.listed[k] <= s.came + 1
          /\ at >= s.offset => s.listed[k] <= s.came
          /\ at < s.offset /\ k \in s.due => s.listed[k] >= 1
      BY <1>2, <1>6, <2>1, <2>4, <3>1 DEF OffsetInv
    <3>4. k \in page <=> at >= s.offset /\ at < s.offset + n
      BY <1>5, <1>6, <2>4, <3>1
    <3> HIDE DEF at
    <3>5. /\ r.listed[k] <= r.came + 1
          /\ at >= r.offset => r.listed[k] <= r.came
          /\ (r.done \/ at < r.offset) /\ k \in r.due => r.listed[k] >= 1
      <4>1. r.listed[k] <= r.came + 1
        BY <1>7, <1>6, <2>2, <3>1, <3>3, <3>4
      <4>2. at >= r.offset => r.listed[k] <= r.came
        BY <1>7, <1>6, <2>2, <3>1, <3>3, <3>4
      <4>3. at < s.offset + n /\ k \in s.due => r.listed[k] >= 1
        BY <1>6, <2>2, <3>1, <3>3, <3>4
      <4>4. r.done => at < s.offset + n
        <5>1. r.done => s.offset + n >= Cardinality(Stored)
          BY <1>7, Zenon
        <5> QED BY <1>6, <3>1, <5>1
      <4> QED BY <1>7, <4>1, <4>2, <4>3, <4>4
    <3>6. ~(at >= r.offset) <=> at < r.offset
      BY <1>7, <1>6, <3>1
    <3> QED BY <2>4, <3>2, <3>5, <3>6, <1>1 DEF OffsetInv, SameStored
  <2> QED BY <2>3, <2>4
<1>9. ListInv(r)'
  <2>1. r.due \subseteq Stored'
    BY <1>1, <1>2, <1>7 DEF ListInv, SameStored
  <2> QED BY <1>1, <1>7, <1>8, <2>1 DEF ListInv, SameStored
<1> QED BY <1>1, <1>7, <1>9, <1>4, WalkStep

----------------------------------------------------------------------------
(* Rotating the secrets *)

LEMMA ResealBeginInd == ASSUME IndInv, NEW w \in Walkers, ResealBegin(w) PROVE IndInv'
<1>1. TypeOK' /\ StoreInv' /\ SameStored /\ SecretsKept
  BY SecretType, OnlyWalks DEF IndInv, ResealBegin
<1>2. PICK r : /\ r = [NoWalk EXCEPT !.kind = "reseal", !.todo = Stored, !.copies = record]
               /\ walk' = [walk EXCEPT ![w] = r]
  BY DEF ResealBegin
<1>3. /\ r.kind = "reseal" /\ r.todo = Stored /\ r.due = {} /\ r.at = 0 /\ r.done = FALSE
      /\ r.copies = record
  BY <1>2 DEF NoWalk
<1>4. SecretInv(r)'
  BY <1>1, <1>3 DEF SecretInv, SameStored, Stored
<1> QED BY <1>1, <1>2, <1>3, <1>4, WalkStep

LEMMA ResealOneInd ==
  ASSUME IndInv, NEW w \in Walkers, NEW k \in Ids, ResealOne(w, k) PROVE IndInv'
<1> DEFINE s == walk[w]
<1>1. TypeOK' /\ StoreInv' /\ SameStored /\ SecretsKept
  BY SecretType, OnlyWalks DEF IndInv, ResealOne
<1>2. s \in Walk /\ s.kind = "reseal" /\ ~s.done /\ k \in s.todo /\ s.at = 0 /\ SecretInv(s)
  BY DEF IndInv, WalkInv, TypeOK, ResealOne, Under
<1>3. PICK r : /\ walk' = [walk EXCEPT ![w] = r]
               /\ \/ r = [s EXCEPT !.at = k]
                  \/ r = [s EXCEPT !.todo = s.todo \ {k}]
  BY <1>2 DEF ResealOne, IndInv, TypeOK
<1>4. /\ r.kind = "reseal" /\ ~r.done /\ r.due = s.due /\ r.copies = s.copies
      /\ \/ r.at = k /\ r.todo = s.todo
         \/ r.at = 0 /\ r.todo = s.todo \ {k}
  BY <1>2, <1>3 DEF Walk
<1> HIDE DEF s
<1>5. SecretInv(r)
  BY <1>2, <1>4 DEF SecretInv
<1>6. SecretInv(r)'
  BY <1>1, <1>5, SecretKept DEF SameStored
<1> QED BY <1>1, <1>3, <1>4, <1>6, WalkStep

\* The copy put back is of a stored key: what is stored stays so, and is sealed anew.
LEMMA ResealPutStore ==
  ASSUME IndInv, NEW w \in Walkers, ResealPut(w)
  PROVE  StoreInv' /\ SameStored /\ SecretsKept /\ record'[walk[w].at].sealed = "new"
<1> DEFINE k == walk[w].at
           copy == walk[w].copies[k]
<1>1. k \in Stored /\ copy \in Record /\ copy.status # "absent"
  BY StoredIds DEF IndInv, WalkInv, SecretInv, ResealPut, Under, TypeOK, Walk
<1>2. encryptData(copy, "new").status # "absent"
  BY <1>1 DEF encryptData, Record
<1>3. Stored' = Stored
  BY <1>1, <1>2 DEF ResealPut, Stored, IndInv, TypeOK
<1>4. record'[k].sealed = "new" /\ \A j \in Ids \ {k} : record'[j] = record[j]
  BY <1>1 DEF ResealPut, IndInv, TypeOK, encryptData, Record, Stored
<1>5. UNCHANGED <<rotating, expiring>>
  BY DEF ResealPut
<1> HIDE DEF k, copy
<1>6. SealsKept
  BY <1>4, <1>5, StoredIds DEF SealsKept, UpToDate, Uncopied
<1>7. StoreInv' /\ SameStored /\ SignaturesKept
  BY <1>3 DEF ResealPut, IndInv, StoreInv, SameStored, SignaturesKept
<1> QED BY <1>4, <1>6, <1>7 DEF SecretsKept, k

LEMMA ResealPutInd == ASSUME IndInv, NEW w \in Walkers, ResealPut(w) PROVE IndInv'
<1> DEFINE s == walk[w]
<1>1. TypeOK' /\ StoreInv' /\ SameStored /\ SecretsKept /\ record'[s.at].sealed = "new"
  BY SecretType, ResealPutStore DEF IndInv
<1>2. s \in Walk /\ s.kind = "reseal" /\ ~s.done /\ SecretInv(s) /\ s.at \in Stored
  BY DEF IndInv, WalkInv, TypeOK, ResealPut, Under, SecretInv
<1>3. PICK r : /\ walk' = [walk EXCEPT ![w] = r]
               /\ r = [s EXCEPT !.todo = s.todo \ {s.at}, !.at = 0,
                                !.due = IF Uncopied(s.at) THEN s.due \union {s.at} ELSE s.due]
  BY <1>2 DEF ResealPut, IndInv, TypeOK
<1>4. /\ r.kind = "reseal" /\ ~r.done /\ r.copies = s.copies
      /\ r.at = 0 /\ r.todo \subseteq s.todo
      /\ r.due = IF Uncopied(s.at) THEN s.due \union {s.at} ELSE s.due
  BY <1>2, <1>3 DEF Walk
<1>5. \A k \in Ids : Uncopied(k)' <=> Uncopied(k)
  BY DEF ResealPut, Uncopied
<1>6. PICK q : q = s
  OBVIOUS
<1> HIDE DEF s
<1>7. SecretInv(q)'
  BY <1>1, <1>2, <1>6, SecretKept DEF SameStored
<1>8. PICK at : at = s.at
  OBVIOUS
<1>9. SecretInv(r)'
  <2>1. /\ r.kind = q.kind /\ q.kind = "reseal" /\ r.copies = q.copies /\ r.at = 0 /\ ~r.done
        /\ r.todo \subseteq q.todo
        /\ r.due = IF Uncopied(at) THEN q.due \union {at} ELSE q.due
    BY <1>2, <1>4, <1>6, <1>8
  <2>2. at \in Stored' /\ at \in Ids /\ record'[at].sealed = "new" /\ (Uncopied(at) => Uncopied(at)')
    BY <1>1, <1>2, <1>5, <1>8, StoredIds DEF SameStored
  <2> QED BY <1>7, <2>1, <2>2 DEF SecretInv
<1> QED BY <1>1, <1>3, <1>4, <1>9, WalkStep

LEMMA ResignBeginInd == ASSUME IndInv, NEW w \in Walkers, ResignBegin(w) PROVE IndInv'
<1> DEFINE signed == {k \in Ids : hmac[k] # "none"}
<1>1. TypeOK' /\ StoreInv' /\ SameStored /\ SecretsKept
  BY SecretType, OnlyWalks DEF IndInv, ResignBegin
<1>2. PICK r : /\ r = [NoWalk EXCEPT !.kind = "resign", !.due = signed, !.todo = signed]
               /\ walk' = [walk EXCEPT ![w] = r]
  BY DEF ResignBegin
<1>3. r.kind = "resign" /\ r.todo = signed /\ r.due = signed /\ r.at = 0 /\ r.done = FALSE
  BY <1>2 DEF NoWalk
<1>4. signed \subseteq Stored
  BY DEF IndInv, StoreInv
<1>5. SecretInv(r)'
  BY <1>1, <1>3, <1>4 DEF SecretInv, SameStored
<1> QED BY <1>1, <1>2, <1>3, <1>5, WalkStep

\* What is passed over cannot be looked up, or its signing failed and it is not owed.
LEMMA ResignOneInd ==
  ASSUME IndInv, NEW w \in Walkers, NEW k \in Ids, ResignOne(w, k) PROVE IndInv'
<1> DEFINE s == walk[w]
<1>1. TypeOK' /\ StoreInv' /\ SameStored /\ SecretsKept
  BY SecretType, OnlyWalks DEF IndInv, ResignOne
<1>2. s \in Walk /\ s.kind = "resign" /\ ~s.done /\ k \in s.todo /\ s.at = 0 /\ SecretInv(s)
  BY DEF IndInv, WalkInv, TypeOK, ResignOne, Under
<1>3. PICK r : /\ walk' = [walk EXCEPT ![w] = r]
               /\ \/ r = [s EXCEPT !.at = k]
                  \/ k \notin lookup /\ r = [s EXCEPT !.todo = s.todo \ {k}]
                  \/ r = [s EXCEPT !.todo = s.todo \ {k}, !.due = s.due \ {k}]
  BY <1>2 DEF ResignOne, IndInv, TypeOK
<1>4. /\ r.kind = "resign" /\ ~r.done
      /\ \/ r.at = k /\ r.todo = s.todo /\ r.due = s.due
         \/ k \notin lookup /\ r.at = 0 /\ r.todo = s.todo \ {k} /\ r.due = s.due
         \/ r.at = 0 /\ r.todo = s.todo \ {k} /\ r.due = s.due \ {k}
  BY <1>2, <1>3 DEF Walk
<1> HIDE DEF s
<1>5. SecretInv(r)
  BY <1>2, <1>4 DEF SecretInv
<1>6. SecretInv(r)'
  BY <1>1, <1>5, SecretKept DEF SameStored
<1> QED BY <1>1, <1>3, <1>4, <1>6, WalkStep

\* The signature put is of a stored key, and new.
LEMMA ResignPutInd == ASSUME IndInv, NEW w \in Walkers, ResignPut(w) PROVE IndInv'
<1> DEFINE s == walk[w]
<1>1. s \in Walk /\ s.kind = "resign" /\ ~s.done /\ SecretInv(s) /\ s.at \in Stored
  BY DEF IndInv, WalkInv, TypeOK, ResignPut, Under, SecretInv
<1>2. hmac' = [hmac EXCEPT ![s.at] = "new"] /\ UNCHANGED <<created, record, lookup, rotating, expiring>>
  BY DEF ResignPut, generateHmac
<1>3. PICK r : /\ walk' = [walk EXCEPT ![w] = r]
               /\ r = [s EXCEPT !.todo = s.todo \ {s.at}, !.at = 0]
  BY <1>1 DEF ResignPut, IndInv, TypeOK
<1>4. /\ r.kind = "resign" /\ ~r.done /\ r.due = s.due
      /\ r.at = 0 /\ r.todo = s.todo \ {s.at}
  BY <1>1, <1>3 DEF Walk
<1>5. \A j \in Ids : hmac'[j] = IF j = s.at THEN "new" ELSE hmac[j]
  BY <1>2 DEF IndInv, TypeOK
<1> HIDE DEF s
<1>6. StoreInv' /\ SameStored /\ SecretsKept
  <2>1. StoreInv' /\ SameStored /\ SignaturesKept
    BY <1>1, <1>2, <1>5, StoredIds DEF IndInv, StoreInv, SameStored, SignaturesKept, Stored
  <2>2. SealsKept
    BY DEF ResignPut, SealsKept, UpToDate, Uncopied
  <2> QED BY <2>1, <2>2 DEF SecretsKept
<1>7. TypeOK'
  BY SecretType DEF IndInv
<1>8. SecretInv(r)'
  BY <1>1, <1>2, <1>4, <1>5, <1>6, StoredIds DEF SecretInv, SameStored, verifyHmac
<1> QED BY <1>3, <1>4, <1>6, <1>7, <1>8, WalkStep

LEMMA SecretsDoneInd == ASSUME IndInv, NEW w \in Walkers, SecretsDone(w) PROVE IndInv'
<1> DEFINE s == walk[w]
<1>1. TypeOK' /\ StoreInv' /\ SameStored /\ SecretsKept
  BY SecretType, OnlyWalks DEF IndInv, SecretsDone
<1>2. s \in Walk /\ s.kind \in {"reseal", "resign"} /\ s.todo = {} /\ SecretInv(s)
  BY DEF IndInv, WalkInv, TypeOK, SecretsDone, Under
<1>3. PICK r : r = [s EXCEPT !.done = TRUE] /\ walk' = [walk EXCEPT ![w] = r]
  BY DEF SecretsDone
<1>4. /\ r.kind = s.kind /\ r.due = s.due /\ r.todo = s.todo /\ r.at = s.at
      /\ r.copies = s.copies
  BY <1>2, <1>3 DEF Walk
<1> HIDE DEF s
<1>5. SecretInv(r)
  BY <1>2, <1>4 DEF SecretInv
<1>6. SecretInv(r)'
  BY <1>1, <1>5, SecretKept DEF SameStored
<1> QED BY <1>1, <1>2, <1>3, <1>4, <1>6, WalkStep

LEMMA WalkEndInd == ASSUME IndInv, NEW w \in Walkers, WalkEnd(w) PROVE IndInv'
<1>1. TypeOK' /\ StoreInv' /\ SameStored /\ SecretsKept
  BY SecretType, OnlyWalks DEF IndInv, WalkEnd
<1>2. walk' = [walk EXCEPT ![w] = NoWalk] /\ NoWalk.kind = "none"
  BY NoWalkType DEF WalkEnd
<1> QED BY <1>1, <1>2, WalkStep

----------------------------------------------------------------------------
(* The invariant *)

LEMMA InitInd == Init => IndInv
<1> SUFFICES ASSUME Init PROVE IndInv
  OBVIOUS
<1>1. TypeOK
  BY NoWalkType, RecordType DEF Init, TypeOK
<1>2. Stored = {}
  BY DEF Init, Stored, Absent
<1>3. StoreInv
  BY <1>2 DEF Init, StoreInv
<1>4. WalkInv
  BY NoWalkType DEF Init, WalkInv
<1> QED BY <1>1, <1>3, <1>4 DEF IndInv

LEMMA NextInd == IndInv /\ [Next]_vars => IndInv'
<1> SUFFICES ASSUME IndInv, [Next]_vars PROVE IndInv'
  OBVIOUS
<1>1. ASSUME NEW k \in Ids,
             DrawKey(k) \/ RotateBegin(k) \/ RotateEnd(k) \/ Revoke(k) \/ Clean(k)
           \/ ExpireBegin(k) \/ ExpireEnd(k) \/ GiveUp(k)
      PROVE  IndInv'
  BY <1>1, KeysInd
<1>2. ASSUME NEW k \in Ids, StoreKey(k) PROVE IndInv'
  BY <1>2, StoreKeyInd
<1>3. ASSUME NEW w \in Walkers, ListBegin(w) PROVE IndInv'
  BY <1>3, ListBeginInd
<1>4. ASSUME NEW w \in Walkers, CursorNext(w) PROVE IndInv'
  BY <1>4, CursorNextInd
<1>5. ASSUME NEW w \in Walkers, OffsetNext(w) PROVE IndInv'
  BY <1>5, OffsetNextInd
<1>6. ASSUME NEW w \in Walkers, ResealBegin(w) PROVE IndInv'
  BY <1>6, ResealBeginInd
<1>7. ASSUME NEW w \in Walkers, ResealPut(w) PROVE IndInv'
  BY <1>7, ResealPutInd
<1>8. ASSUME NEW w \in Walkers, ResignBegin(w) PROVE IndInv'
  BY <1>8, ResignBeginInd
<1>9. ASSUME NEW w \in Walkers, ResignPut(w) PROVE IndInv'
  BY <1>9, ResignPutInd
<1>10. ASSUME NEW w \in Walkers, SecretsDone(w) PROVE IndInv'
  BY <1>10, SecretsDoneInd
<1>11. ASSUME NEW w \in Walkers, WalkEnd(w) PROVE IndInv'
  BY <1>11, WalkEndInd
<1>12. ASSUME NEW w \in Walkers, NEW k \in Ids, ResealOne(w, k) PROVE IndInv'
  BY <1>12, ResealOneInd
<1>13. ASSUME NEW w \in Walkers, NEW k \in Ids, ResignOne(w, k) PROVE IndInv'
  BY <1>13, ResignOneInd
<1>14. ASSUME Tick \/ UNCHANGED vars PROVE IndInv'
  <2>1. /\ UNCHANGED <<created, record, lookup, hmac, rotating, expiring, walk>>
        /\ now' \in Nat
    BY <1>14 DEF Tick, vars, IndInv, TypeOK
  <2>2. TypeOK'
    BY <2>1 DEF IndInv, TypeOK
  <2>3. StoreInv' /\ SameStored /\ SecretsKept
    BY <2>1 DEF IndInv, StoreInv, SameStored, SecretsKept, SignaturesKept, SealsKept, UpToDate,
          Uncopied, Stored
  <2>4. \A w \in Walkers : WalkOK(w)'
    BY <2>1, <2>2, <2>3, WalkStays
  <2> QED BY <2>2, <2>3, <2>4 DEF IndInv, WalkInv, WalkOK
<1> QED BY <1>1, <1>2, <1>3, <1>4, <1>5, <1>6, <1>7, <1>8, <1>9, <1>10, <1>11, <1>12, <1>13,
           <1>14 DEF Next

\* The invariant is inductive: it holds of every state of every walk.
THEOREM WalksInductive == Spec => []IndInv
<1> QED BY InitInd, NextInd, PTL DEF Spec

\* The walks and the entries they see have the types the code gives them.
THEOREM WalksTyped == Spec => []TypeOK
<1>1. IndInv => TypeOK
  BY DEF IndInv
<1> QED BY <1>1, WalksInductive, PTL

\* listKeysWithCursor, whatever page sizes a client asks for one after the other, shows
\* every key that was there when it began exactly once, but for those rotated before
\* their page is read, whatever is created, rotated, revoked and cleaned up meanwhile.
THEOREM CursorShowsOnce == Spec => []CursorWalkExact
<1>1. IndInv => CursorWalkExact
  <2> SUFFICES ASSUME IndInv, NEW w \in Walkers, walk[w].kind = "cursor", NEW k \in Ids
               PROVE  /\ walk[w].listed[k] <= 1
                      /\ walk[w].done /\ k \in walk[w].due => walk[w].listed[k] = 1
    BY StoredIds DEF CursorWalkExact, IndInv, WalkInv, ListInv
  <2> QED BY DEF IndInv, WalkInv, ListInv, CursorInv
<1> QED BY <1>1, WalksInductive, PTL

\* listKeys misses no key that was there when the client began, and shows a key again
\* at most once for each key stored meanwhile.
THEOREM OffsetMissesNone == Spec => []OffsetWalkComplete
<1>1. IndInv => OffsetWalkComplete
  <2> SUFFICES ASSUME IndInv, NEW w \in Walkers, walk[w].kind = "offset", NEW k \in Ids
               PROVE  /\ walk[w].done /\ k \in walk[w].due => walk[w].listed[k] >= 1
                      /\ walk[w].listed[k] <= walk[w].came + 1
    BY DEF OffsetWalkComplete
  <2> QED BY DEF IndInv, WalkInv, ListInv, OffsetInv
<1> QED BY <1>1, WalksInductive, PTL

\* rotateHmacMaterial leaves no key it has listed under the old secret, if it can be
\* looked up and its signing did not fail; and no lookup entry is ever without an HMAC.
THEOREM RotationResigns == Spec => []ListedResigned
<1>1. IndInv => ListedResigned
  <2> SUFFICES ASSUME IndInv PROVE ListedResigned
    OBVIOUS
  <2>1. \A k \in lookup : hmac[k] # "none"
    BY DEF IndInv, StoreInv
  <2>2. ASSUME NEW w \in Walkers, walk[w].kind = "resign", walk[w].done,
               NEW k \in walk[w].due \intersect lookup
        PROVE  verifyHmac(k, "new")
    BY <2>2 DEF IndInv, WalkInv, SecretInv
  <2> QED BY <2>1, <2>2 DEF ListedResigned
<1> QED BY <1>1, WalksInductive, PTL

\* rotateEncryptionMaterial answers for every record it has put, unless a rotation or a
\* cleanup of the key held an older copy then: it stays under the new secret.
THEOREM SealsStand == Spec => []ResealedKept
<1>1. IndInv => ResealedKept
  BY DEF IndInv, WalkInv, SecretInv, ResealedKept
<1> QED BY <1>1, WalksInductive, PTL

PassedKept ==
  \A k \in Ids :
    (/\ record[k].status = "revoked" /\ rotating[k] = Absent
     /\ \A w \in Walkers : walk[w].kind = "reseal" => k \notin walk[w].todo)
      => record'[k].status = "revoked"

LEMMA NextPassed == IndInv /\ [Next]_vars => PassedKept
<1> SUFFICES ASSUME IndInv, [Next]_vars, NEW k \in Ids, record[k].status = "revoked",
                    rotating[k] = Absent,
                    \A w \in Walkers : walk[w].kind = "reseal" => k \notin walk[w].todo
             PROVE  record'[k].status = "revoked"
  BY DEF PassedKept
<1>1. record \in [Ids -> Record] /\ k \in Stored
  BY DEF IndInv, TypeOK, Stored
<1>2. ASSUME NEW j \in Ids, StoreKey(j) \/ RotateEnd(j) \/ Revoke(j) PROVE record'[k] = record[k]
  BY <1>1, <1>2 DEF StoreKey, RotateEnd, Revoke
<1>5. ASSUME NEW j \in Ids, ExpireEnd(j) PROVE record'[k].status = "revoked"
  <2>1. [expiring[j] EXCEPT !.status = "revoked"].status = "revoked"
    BY DEF IndInv, TypeOK, Record
  <2> QED BY <1>1, <1>5, <2>1 DEF ExpireEnd
<1>3. ASSUME NEW w \in Walkers, ResealPut(w) PROVE record'[k] = record[k]
  <2>1. walk[w].at # k
    BY <1>3 DEF IndInv, WalkInv, SecretInv, ResealPut, Under
  <2> QED BY <1>1, <1>3, <2>1 DEF ResealPut
<1>4. CASE UNCHANGED record
  BY <1>4
<1> QED BY <1>2, <1>3, <1>4, <1>5 DEF Next, DrawKey, RotateBegin, Clean, ExpireBegin, GiveUp,
          ListBegin, CursorNext,
          OffsetNext, ResealBegin, ResealOne, ResignBegin, ResignOne, ResignPut, SecretsDone,
          WalkEnd, Tick, vars

\* rotateEncryptionMaterial puts back copies it has listed, but never over a revocation
\* made after it has passed the key: only a rotation of the key under way undoes that.
THEOREM RevocationsBehindStand == Spec => RevocationAfterPassKept
<1>1. IndInv /\ [Next]_vars => [PassedKept]_vars
  BY NextPassed
<1> QED BY <1>1, WalksInductive, PTL DEF Spec, RevocationAfterPassKept, PassedKept

====
