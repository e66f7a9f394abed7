----------------------------- MODULE Table_proofs -----------------------------
(***************************************************************************)
(* The operations of one table keep its unique index exact and its         *)
(* allocator ahead of its rows, for every schema and every set of values.  *)
(***************************************************************************)
EXTENDS Table, TLAPS

\* What the operations need of a table and give back.
GoodTable(t) == IsTable(t) /\ IndexSound(t) /\ IndexComplete(t)

(***************************************************************************)
(* Reading a column of a row yields a value or null.                       *)
(***************************************************************************)
LEMMA ValueOfType ==
    ASSUME NEW values \in Values, NEW c
    PROVE  ValueOf(values, c) \in Vals \cup {Null}
BY DEF Values, ValueOf

(***************************************************************************)
(* Merging an update into a row yields a row (Row.values.insert in a loop),*)
(* and the merged row reads as the update where the update has the column. *)
(***************************************************************************)
LEMMA MergeType ==
    ASSUME NEW old \in Values, NEW values \in Values
    PROVE  /\ Merge(old, values) \in Values
           /\ \A c : ValueOf(Merge(old, values), c) =
                        IF c \in DOMAIN values THEN values[c] ELSE ValueOf(old, c)
<1> DEFINE D == DOMAIN old \cup DOMAIN values
<1>1. DOMAIN old \in SUBSET Cols /\ old \in [DOMAIN old -> Vals \cup {Null}]
  BY DEF Values
<1>2. DOMAIN values \in SUBSET Cols /\ values \in [DOMAIN values -> Vals \cup {Null}]
  BY DEF Values
<1>3. Merge(old, values) \in [D -> Vals \cup {Null}]
  BY <1>1, <1>2 DEF Merge
<1>4. D \in SUBSET Cols
  BY <1>1, <1>2
<1>5. Merge(old, values) \in Values
  BY <1>3, <1>4 DEF Values
<1>6. \A c : ValueOf(Merge(old, values), c) =
                IF c \in DOMAIN values THEN values[c] ELSE ValueOf(old, c)
  BY DEF Merge, ValueOf
<1> QED BY <1>5, <1>6

(***************************************************************************)
(* Writing a row under an id, and removing one, keep `rows` a map from ids *)
(* to values.                                                              *)
(***************************************************************************)
LEMMA PutRowType ==
    ASSUME NEW t, IsTable(t), NEW id \in RowId, NEW values \in Values
    PROVE  LET r == PutRow(t.rows, id, values)
           IN  /\ r = [i \in DOMAIN r |-> r[i]]
               /\ DOMAIN r = DOMAIN t.rows \cup {id}
               /\ DOMAIN r \subseteq RowId
               /\ r[id] = values
               /\ \A i \in DOMAIN t.rows \ {id} : r[i] = t.rows[i]
               /\ \A i \in DOMAIN r : r[i] \in Values
BY DEF PutRow, IsTable

LEMMA IndexRowType ==
    ASSUME NEW uniq \in [uniq_cols -> [Vals -> RowId \cup {NoRow}]],
           NEW id \in RowId, NEW values
    PROVE  /\ index_row(uniq, id, values) \in [uniq_cols -> [Vals -> RowId \cup {NoRow}]]
           /\ \A c \in uniq_cols, v \in Vals :
                index_row(uniq, id, values)[c][v] =
                   IF v = ValueOf(values, c) THEN id ELSE uniq[c][v]
BY DEF index_row

(***************************************************************************)
(* The index after a row is written: the row owns its keys, has lost every *)
(* other key it owned, and nobody else's entry moved.                      *)
(***************************************************************************)
Reindexed(t, id, values, uniq) ==
    /\ uniq \in [uniq_cols -> [Vals -> RowId \cup {NoRow}]]
    /\ \A c \in uniq_cols, v \in Vals :
          uniq[c][v] = IF v = ValueOf(values, c) THEN id
                       ELSE IF t.uniq[c][v] = id THEN NoRow
                       ELSE t.uniq[c][v]

(***************************************************************************)
(* Storing a row that passed check_uniq and reindexing it keeps the table  *)
(* good: the common core of insert, update and insert_preserving_id.       *)
(***************************************************************************)
LEMMA PutGood ==
    ASSUME NEW t, GoodTable(t), NEW id \in RowId, NEW values \in Values,
           NEW nid \in RowId, NEW uniq,
           \A c \in uniq_cols : ValueOf(values, c) # Null
               => t.uniq[c][ValueOf(values, c)] \in {NoRow, id},
           Reindexed(t, id, values, uniq)
    PROVE  GoodTable([rows |-> PutRow(t.rows, id, values),
                      next_id |-> nid, uniq |-> uniq])
<1> DEFINE r == PutRow(t.rows, id, values)
           new == [rows |-> r, next_id |-> nid, uniq |-> uniq]
<1>0. IsTable(t) /\ IndexSound(t) /\ IndexComplete(t)
  BY DEF GoodTable
<1>1. /\ r = [i \in DOMAIN r |-> r[i]]
      /\ DOMAIN r = DOMAIN t.rows \cup {id}
      /\ DOMAIN r \subseteq RowId
      /\ r[id] = values
      /\ \A i \in DOMAIN t.rows \ {id} : r[i] = t.rows[i]
      /\ \A i \in DOMAIN r : r[i] \in Values
  BY <1>0, PutRowType
<1>2. new.rows = r /\ new.uniq = uniq /\ new.next_id = nid
  OBVIOUS
<1> HIDE DEF r
<1>3. IsTable(new)
  BY <1>1, <1>2 DEF IsTable, Reindexed
<1> HIDE DEF new
<1>4. IndexSound(new)
  <2> SUFFICES ASSUME NEW c \in uniq_cols, NEW v \in Vals, uniq[c][v] # NoRow
               PROVE  uniq[c][v] \in DOMAIN r /\ ValueOf(r[uniq[c][v]], c) = v
    BY <1>2 DEF IndexSound
  <2>1. CASE v = ValueOf(values, c)
    BY <2>1, <1>1 DEF Reindexed
  <2>2. CASE v # ValueOf(values, c)
    <3>1. uniq[c][v] = t.uniq[c][v] /\ uniq[c][v] # id
      BY <2>2 DEF Reindexed
    <3>2. t.uniq[c][v] \in DOMAIN t.rows /\ ValueOf(t.rows[t.uniq[c][v]], c) = v
      BY <1>0, <3>1 DEF IndexSound
    <3> QED BY <3>1, <3>2, <1>1
  <2> QED BY <2>1, <2>2
<1>5. IndexComplete(new)
  <2> SUFFICES ASSUME NEW c \in uniq_cols, NEW i \in DOMAIN r,
                      ValueOf(r[i], c) # Null
               PROVE  uniq[c][ValueOf(r[i], c)] = i
    BY <1>2 DEF IndexComplete
  <2>1. ValueOf(r[i], c) \in Vals
    BY <1>1, ValueOfType
  <2>2. CASE i = id
    BY <2>1, <2>2, <1>1 DEF Reindexed
  <2>3. CASE i # id
    <3>1. i \in DOMAIN t.rows /\ r[i] = t.rows[i]
      BY <2>3, <1>1
    <3>2. t.uniq[c][ValueOf(t.rows[i], c)] = i
      BY <1>0, <3>1 DEF IndexComplete
    <3>3. i # NoRow
      BY <3>1, <1>0 DEF IsTable, RowId
    <3>4. ValueOf(t.rows[i], c) # ValueOf(values, c)
      BY <3>1, <3>2, <3>3, <2>3, <2>1
    <3> QED BY <3>1, <3>2, <3>4, <2>1, <2>3 DEF Reindexed
  <2> QED BY <2>2, <2>3
<1> QED BY <1>3, <1>4, <1>5 DEF GoodTable, new, r

(***************************************************************************)
(* A row id that is not in the table owns no index entry.                  *)
(***************************************************************************)
LEMMA AbsentOwnsNothing ==
    ASSUME NEW t, GoodTable(t), NEW id \in RowId, id \notin DOMAIN t.rows,
           NEW values
    PROVE  Reindexed(t, id, values, index_row(t.uniq, id, values))
<1>1. \A c \in uniq_cols, v \in Vals : t.uniq[c][v] # id
  BY DEF GoodTable, IndexSound, RowId, NoRow
<1>2. t.uniq \in [uniq_cols -> [Vals -> RowId \cup {NoRow}]]
  BY DEF GoodTable, IsTable
<1> QED BY <1>1, <1>2, IndexRowType DEF Reindexed

(***************************************************************************)
(* A new table is good.                                                    *)
(***************************************************************************)
LEMMA NewTableGood == GoodTable(NewTable)
<1>1. NewTable.rows = [i \in {} |-> <<>>] /\ NewTable.next_id = 1
      /\ NewTable.uniq = [c \in uniq_cols |-> [v \in Vals |-> NoRow]]
  BY DEF NewTable
<1>2. NewTable = [rows |-> NewTable.rows, next_id |-> NewTable.next_id,
                  uniq |-> NewTable.uniq]
  BY DEF NewTable
<1>3. IsTable(NewTable)
  BY <1>1, <1>2 DEF IsTable, RowId, NoRow
<1> QED BY <1>1, <1>3 DEF GoodTable, IndexSound, IndexComplete

(***************************************************************************)
(* insert_unchecked and insert keep the index exact, as long as the        *)
(* allocator is ahead of every row.                                        *)
(***************************************************************************)
LEMMA InsertUncheckedGood ==
    ASSUME NEW t, GoodTable(t), NEW values \in Values,
           t.next_id \notin DOMAIN t.rows
    PROVE  GoodTable(insert_unchecked(t, values).tab)
<1>1. CASE ~check_uniq(t, values, NoRow)
  BY <1>1 DEF insert_unchecked, Outcome
<1>2. CASE check_uniq(t, values, NoRow)
  <2>1. t.next_id \in RowId /\ t.next_id + 1 \in RowId
    BY DEF GoodTable, IsTable, RowId, NoRow
  <2>2. Reindexed(t, t.next_id, values, index_row(t.uniq, t.next_id, values))
    BY <2>1, AbsentOwnsNothing
  <2>3. \A c \in uniq_cols : ValueOf(values, c) # Null
            => t.uniq[c][ValueOf(values, c)] \in {NoRow, t.next_id}
    BY <1>2 DEF check_uniq
  <2>4. GoodTable([rows |-> PutRow(t.rows, t.next_id, values),
                   next_id |-> t.next_id + 1,
                   uniq |-> index_row(t.uniq, t.next_id, values)])
    BY <2>1, <2>2, <2>3, PutGood
  <2> QED BY <2>4, <1>2 DEF insert_unchecked, Outcome
<1> QED BY <1>1, <1>2

LEMMA InsertGood ==
    ASSUME NEW t, GoodTable(t), NEW values \in Values,
           t.next_id \notin DOMAIN t.rows
    PROVE  GoodTable(insert(t, values).tab)
<1>1. CASE ~validate_row_values(values)
  BY <1>1 DEF insert, Outcome
<1>2. CASE validate_row_values(values)
  BY <1>2, InsertUncheckedGood DEF insert
<1> QED BY <1>1, <1>2

(***************************************************************************)
(* update keeps the index exact: the keys the row loses are dropped, the   *)
(* keys it gains are its own.                                              *)
(***************************************************************************)
LEMMA UpdateGood ==
    ASSUME NEW t, GoodTable(t), NEW id \in RowId, NEW values \in Values
    PROVE  GoodTable(update(t, id, values).tab)
<1>1. CASE id \notin DOMAIN t.rows \/ ~check_uniq(t, values, id)
  BY <1>1 DEF update, Outcome
<1>2. CASE id \in DOMAIN t.rows /\ check_uniq(t, values, id)
  <2> DEFINE old == t.rows[id]
             new == Merge(old, values)
             stale == drop_stale(t.uniq, id, old, new)
  <2>0. IsTable(t) /\ IndexSound(t) /\ IndexComplete(t)
    BY DEF GoodTable
  <2>1. old \in Values /\ new \in Values
    BY <1>2, <2>0, MergeType DEF IsTable
  <2>2. \A c : ValueOf(new, c) = IF c \in DOMAIN values THEN values[c]
                                 ELSE ValueOf(old, c)
    BY <2>1, MergeType
  <2>3. t.next_id \in RowId
        /\ t.uniq \in [uniq_cols -> [Vals -> RowId \cup {NoRow}]]
    BY <2>0 DEF IsTable
  <2> HIDE DEF new
  <2>4. /\ stale \in [uniq_cols -> [Vals -> RowId \cup {NoRow}]]
        /\ \A c \in uniq_cols, v \in Vals :
              stale[c][v] = IF /\ v = ValueOf(old, c)
                               /\ v # ValueOf(new, c)
                               /\ t.uniq[c][v] = id
                            THEN NoRow ELSE t.uniq[c][v]
    BY <2>3 DEF drop_stale
  <2> HIDE DEF stale
  <2>5. Reindexed(t, id, new, index_row(stale, id, new))
    <3>1. \A c \in uniq_cols, v \in Vals : t.uniq[c][v] = id => v = ValueOf(old, c)
      BY <2>0 DEF IndexSound, RowId
    <3> QED BY <3>1, <2>4, IndexRowType DEF Reindexed
  <2>6. \A c \in uniq_cols : ValueOf(new, c) # Null
            => t.uniq[c][ValueOf(new, c)] \in {NoRow, id}
    <3> SUFFICES ASSUME NEW c \in uniq_cols, ValueOf(new, c) # Null
                 PROVE  t.uniq[c][ValueOf(new, c)] \in {NoRow, id}
      OBVIOUS
    <3>1. CASE c \in DOMAIN values
      BY <3>1, <2>2, <1>2 DEF check_uniq, ValueOf
    <3>2. CASE c \notin DOMAIN values
      BY <3>2, <2>2, <2>0, <1>2 DEF IndexComplete
    <3> QED BY <3>1, <3>2
  <2>7. GoodTable([rows |-> PutRow(t.rows, id, new), next_id |-> t.next_id,
                   uniq |-> index_row(stale, id, new)])
    BY <2>1, <2>3, <2>5, <2>6, PutGood
  <2> QED BY <2>7, <1>2 DEF update, Outcome, new, stale
<1> QED BY <1>1, <1>2

(***************************************************************************)
(* take (and so delete) removes exactly the keys of the row it removes.    *)
(***************************************************************************)
LEMMA TakeGood ==
    ASSUME NEW t, GoodTable(t), NEW id \in RowId
    PROVE  GoodTable(take(t, id).tab)
<1>1. CASE id \notin DOMAIN t.rows
  BY <1>1 DEF take, Outcome
<1>2. CASE id \in DOMAIN t.rows
  <2> DEFINE r == DropRow(t.rows, id)
             q == unindex_row(t.uniq, id, t.rows[id])
             new == [rows |-> r, next_id |-> t.next_id, uniq |-> q]
  <2>0. IsTable(t) /\ IndexSound(t) /\ IndexComplete(t)
    BY DEF GoodTable
  <2>1. /\ r = [i \in DOMAIN r |-> r[i]]
        /\ DOMAIN r = DOMAIN t.rows \ {id}
        /\ \A i \in DOMAIN r : r[i] = t.rows[i]
    BY <2>0 DEF DropRow
  <2>2. /\ q \in [uniq_cols -> [Vals -> RowId \cup {NoRow}]]
        /\ \A c \in uniq_cols, v \in Vals :
              q[c][v] = IF v = ValueOf(t.rows[id], c) /\ t.uniq[c][v] = id
                        THEN NoRow ELSE t.uniq[c][v]
    BY <2>0 DEF unindex_row, IsTable
  <2>3. new.rows = r /\ new.uniq = q /\ new.next_id = t.next_id
    OBVIOUS
  <2> HIDE DEF r, q
  <2>4. IsTable(new)
    BY <2>0, <2>1, <2>2, <2>3 DEF IsTable
  <2> HIDE DEF new
  <2>5. IndexSound(new)
    <3> SUFFICES ASSUME NEW c \in uniq_cols, NEW v \in Vals, q[c][v] # NoRow
                 PROVE  q[c][v] \in DOMAIN r /\ ValueOf(r[q[c][v]], c) = v
      BY <2>3 DEF IndexSound
    <3>1. q[c][v] = t.uniq[c][v]
      BY <2>2
    <3>2. t.uniq[c][v] \in DOMAIN t.rows /\ ValueOf(t.rows[t.uniq[c][v]], c) = v
      BY <2>0, <3>1 DEF IndexSound
    <3>3. t.uniq[c][v] # id
      BY <3>1, <3>2, <2>2
    <3> QED BY <3>1, <3>2, <3>3, <2>1
  <2>6. IndexComplete(new)
    <3> SUFFICES ASSUME NEW c \in uniq_cols, NEW i \in DOMAIN r,
                        ValueOf(r[i], c) # Null
                 PROVE  q[c][ValueOf(r[i], c)] = i
      BY <2>3 DEF IndexComplete
    <3>1. i \in DOMAIN t.rows /\ r[i] = t.rows[i] /\ i # id
      BY <2>1
    <3>2. t.uniq[c][ValueOf(t.rows[i], c)] = i
      BY <2>0, <3>1 DEF IndexComplete
    <3>3. ValueOf(r[i], c) \in Vals
      BY <3>1, <2>0, ValueOfType DEF IsTable
    <3> QED BY <3>1, <3>2, <3>3, <2>2
  <2>7. GoodTable(new)
    BY <2>4, <2>5, <2>6 DEF GoodTable
  <2> QED BY <2>7, <1>2 DEF take, Outcome, new, r, q
<1> QED BY <1>1, <1>2

(***************************************************************************)
(* insert_preserving_id keeps the index exact.                             *)
(***************************************************************************)
LEMMA InsertPreservingIdGood ==
    ASSUME NEW t, GoodTable(t), NEW want \in RowId, NEW values \in Values
    PROVE  GoodTable(insert_preserving_id(t, want, values).tab)
<1>1. CASE want \in DOMAIN t.rows \/ ~check_uniq(t, values, want)
  BY <1>1 DEF insert_preserving_id, Outcome
<1>2. CASE want \notin DOMAIN t.rows /\ check_uniq(t, values, want)
  <2> DEFINE nid == IF want >= t.next_id THEN want + 1 ELSE t.next_id
  <2>1. nid \in RowId
    BY DEF GoodTable, IsTable, RowId, NoRow
  <2>2. Reindexed(t, want, values, index_row(t.uniq, want, values))
    BY <1>2, AbsentOwnsNothing
  <2>3. \A c \in uniq_cols : ValueOf(values, c) # Null
            => t.uniq[c][ValueOf(values, c)] \in {NoRow, want}
    BY <1>2 DEF check_uniq
  <2>4. GoodTable([rows |-> PutRow(t.rows, want, values), next_id |-> nid,
                   uniq |-> index_row(t.uniq, want, values)])
    BY <2>1, <2>2, <2>3, PutGood
  <2> QED BY <2>4, <1>2 DEF insert_preserving_id, Outcome
<1> QED BY <1>1, <1>2

\* Some row other than `self` has a non-null unique value of `values`.
ScanFindsDuplicate(t, values, self) ==
    \E i \in DOMAIN t.rows \ {self}, c \in uniq_cols :
        /\ ValueOf(values, c) # Null
        /\ ValueOf(t.rows[i], c) = ValueOf(values, c)

(***************************************************************************)
(* The O(1) duplicate check of check_uniq through the index refuses exactly*)
(* what the O(N) scan it replaced would refuse.                            *)
(***************************************************************************)
THEOREM CheckIsScan ==
    ASSUME NEW t, GoodTable(t), NEW values \in Values, NEW self
    PROVE  check_uniq(t, values, self) <=> ~ScanFindsDuplicate(t, values, self)
<1>0. IsTable(t) /\ IndexSound(t) /\ IndexComplete(t)
  BY DEF GoodTable
<1>1. ASSUME check_uniq(t, values, self), ScanFindsDuplicate(t, values, self)
      PROVE  FALSE
  <2>1. PICK i \in DOMAIN t.rows \ {self}, c \in uniq_cols :
               /\ ValueOf(values, c) # Null
               /\ ValueOf(t.rows[i], c) = ValueOf(values, c)
    BY <1>1 DEF ScanFindsDuplicate
  <2>2. t.uniq[c][ValueOf(values, c)] = i
    BY <2>1, <1>0 DEF IndexComplete
  <2>3. i # NoRow
    BY <1>0 DEF IsTable, RowId
  <2> QED BY <2>1, <2>2, <2>3, <1>1 DEF check_uniq
<1>2. ASSUME ~check_uniq(t, values, self)
      PROVE  ScanFindsDuplicate(t, values, self)
  <2>1. PICK c \in uniq_cols :
               /\ ValueOf(values, c) # Null
               /\ t.uniq[c][ValueOf(values, c)] \notin {NoRow, self}
    BY <1>2 DEF check_uniq
  <2>2. ValueOf(values, c) \in Vals
    BY <2>1, ValueOfType
  <2> DEFINE i == t.uniq[c][ValueOf(values, c)]
  <2>3. i \in DOMAIN t.rows \ {self} /\ ValueOf(t.rows[i], c) = ValueOf(values, c)
    BY <2>1, <2>2, <1>0 DEF IndexSound
  <2> QED BY <2>1, <2>3 DEF ScanFindsDuplicate
<1> QED BY <1>1, <1>2

(***************************************************************************)
(* lookup_by_unique finds a row under a key exactly when a scan would find *)
(* it there: it misses no row, and the one it returns is the only one.     *)
(***************************************************************************)
THEOREM LookupIsScan ==
    ASSUME NEW t, GoodTable(t), NEW c \in uniq_cols, NEW v \in Vals, NEW i \in RowId
    PROVE  lookup_by_unique(t, c, v) = i
             <=> i \in DOMAIN t.rows /\ ValueOf(t.rows[i], c) = v
<1>0. IsTable(t) /\ IndexSound(t) /\ IndexComplete(t)
  BY DEF GoodTable
<1>1. v # Null /\ i # NoRow
  BY TableAssumption DEF RowId
<1>2. ASSUME lookup_by_unique(t, c, v) = i
      PROVE  i \in DOMAIN t.rows /\ ValueOf(t.rows[i], c) = v
  BY <1>0, <1>1, <1>2 DEF lookup_by_unique, IndexSound
<1>3. ASSUME i \in DOMAIN t.rows, ValueOf(t.rows[i], c) = v
      PROVE  lookup_by_unique(t, c, v) = i
  BY <1>0, <1>1, <1>3 DEF lookup_by_unique, IndexComplete
<1> QED BY <1>2, <1>3
=============================================================================
