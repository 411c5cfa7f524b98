---- MODULE KeyListing ----
(***************************************************************************)
(* The two listings of API keys, page by page: listKeys (offset and limit) *)
(* and listKeysWithCursor of src/models/ApiKeyManager.js, written out once *)
(* more in src/infrastructure/storage/DurableObjectRepository.js.          *)
(*                                                                         *)
(* A page is read while storage operations are outstanding one after the   *)
(* other, so nothing changes within one.  ids stand for UUIDs and are      *)
(* ordered as their strings are; created gives each its createdAt, which   *)
(* is in the index entry as well as in the record and never changes.       *)
(***************************************************************************)
EXTENDS Naturals, FiniteSets

\* A position in the listing index: "keyindex:<ts padded>_<id>".  No id and no ts is
\* 0, so the cursor of no page (or one that does not decode) precedes every entry.
NoCursor == [id |-> 0, ts |-> 0]
EntryOf(created, k) == [id |-> k, ts |-> created[k]]
Before(a, b) == a.ts < b.ts \/ (a.ts = b.ts /\ a.id < b.id)

\* FAULT (stands in for the next definition to show a property can fail): the entry of
\* the cursor is taken to be the timestamp alone.
AfterTimestamp(index, created, cursor) ==
  {k \in index : cursor.ts < created[k]}

\* The index entries from the cursor's on, its own not included (start + "\0").
After(index, created, cursor) ==
  {k \in index : Before(cursor, EntryOf(created, k))}

\* The first limit of them, in the order of the index.
CursorPage(index, created, cursor, limit) ==
  LET rest == After(index, created, cursor)
  IN {k \in rest : Cardinality({j \in rest : Before(EntryOf(created, j), EntryOf(created, k))}) < limit}

\* One entry more than the page was asked for, and came.
HasMore(index, created, cursor, limit) ==
  Cardinality(After(index, created, cursor)) > limit

\* The cursor of the next page names the last entry of this one, whatever became of
\* its key.
NextCursor(page, created) ==
  LET last == CHOOSE k \in page : \A j \in page : j = k \/ Before(EntryOf(created, j), EntryOf(created, k))
  IN EntryOf(created, last)

\* Where a key stands in listKeys: newest first, equal ones by id (the sort is stable).
Position(stored, created, k) ==
  Cardinality({j \in stored : created[j] > created[k] \/ (created[j] = created[k] /\ j < k)})

\* FAULT (stands in for the next definition to show a property can fail): the page
\* ends at limit instead of offset + limit.
OffsetPageSliced(stored, created, offset, limit) ==
  {k \in stored : Position(stored, created, k) \in offset .. limit - 1}

OffsetPage(stored, created, offset, limit) ==
  {k \in stored : Position(stored, created, k) \in offset .. offset + limit - 1}

====
