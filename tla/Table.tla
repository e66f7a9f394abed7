-------------------------------- MODULE Table --------------------------------
(***************************************************************************)
(* One in-memory table of blitz-core (table.rs, InMemoryTable): its rows,  *)
(* its row-id allocator and its unique indexes, and the operations that    *)
(* run under the table's write lock, each as a function from a table to an *)
(* outcome and a table.                                                    *)
(*                                                                         *)
(* A row's values are a HashMap<String, Value>: a column may be absent,    *)
(* present and null, or present with a value.  Vals stands for the values  *)
(* of every type; Typed are the ones of the column type.                   *)
(***************************************************************************)
EXTENDS Integers

CONSTANTS
    Cols,    \* column names
    Schema,  \* column -> [primary_key, unique, nullable, default : BOOLEAN]
    Vals,    \* the non-null values
    Typed,   \* the values that match the column type
    Null     \* Value::Null

ColumnDef == [primary_key : BOOLEAN, unique : BOOLEAN,
              nullable : BOOLEAN, default : BOOLEAN]

ASSUME TableAssumption ==
    /\ Schema \in [Cols -> ColumnDef]
    /\ Typed \subseteq Vals
    /\ Null \notin Vals

\* Option<RowId>::None; the allocator starts at 1.
NoRow == 0

RowId == Nat \ {NoRow}

\* What a client or the log can hand the engine: some columns, null or not.
Values == UNION {[C -> Vals \cup {Null}] : C \in SUBSET Cols}

\* values.get(col), an absent column read as null.
ValueOf(values, c) == IF c \in DOMAIN values THEN values[c] ELSE Null

uniq_cols == {c \in Cols : Schema[c].primary_key \/ Schema[c].unique}

-----------------------------------------------------------------------------
(* The table's state.                                                      *)

IsTable(t) ==
    /\ t = [rows |-> t.rows, next_id |-> t.next_id, uniq |-> t.uniq]
    /\ t.rows = [i \in DOMAIN t.rows |-> t.rows[i]]
    /\ DOMAIN t.rows \subseteq RowId
    /\ \A i \in DOMAIN t.rows : t.rows[i] \in Values
    /\ t.next_id \in RowId
    /\ t.uniq \in [uniq_cols -> [Vals -> RowId \cup {NoRow}]]

NewTable ==
    [rows    |-> [i \in {} |-> <<>>],
     next_id |-> 1,
     uniq    |-> [c \in uniq_cols |-> [v \in Vals |-> NoRow]]]

validate_row_values(values) ==
    \A c \in Cols :
        IF c \in DOMAIN values
        THEN IF values[c] = Null THEN Schema[c].nullable
                                 ELSE values[c] \in Typed
        ELSE \/ Schema[c].default
             \/ ~Schema[c].primary_key /\ Schema[c].nullable

-----------------------------------------------------------------------------
(* Unique indexes.                                                         *)

\* No unique column of `values` holds a key that another row owns.
check_uniq(t, values, self_id) ==
    \A c \in uniq_cols :
        ValueOf(values, c) # Null
            => t.uniq[c][ValueOf(values, c)] \in {NoRow, self_id}

index_row(uniq, id, values) ==
    [c \in uniq_cols |->
        [v \in Vals |-> IF v = ValueOf(values, c) THEN id ELSE uniq[c][v]]]

\* Variant: forgets the keys of a removed row's primary-key columns only.
unindex_row_pk_only(uniq, id, values) ==
    [c \in uniq_cols |->
        [v \in Vals |-> IF /\ v = ValueOf(values, c)
                           /\ uniq[c][v] = id
                           /\ Schema[c].primary_key
                        THEN NoRow ELSE uniq[c][v]]]

unindex_row(uniq, id, values) ==
    [c \in uniq_cols |->
        [v \in Vals |-> IF v = ValueOf(values, c) /\ uniq[c][v] = id
                        THEN NoRow ELSE uniq[c][v]]]

\* The loop of `update` over old_uniq: keys the row no longer has.
drop_stale(uniq, id, old, new) ==
    [c \in uniq_cols |->
        [v \in Vals |-> IF /\ v = ValueOf(old, c)
                           /\ v # ValueOf(new, c)
                           /\ uniq[c][v] = id
                        THEN NoRow ELSE uniq[c][v]]]

-----------------------------------------------------------------------------
(* Operations under the write lock.  Each yields [res, id, tab].           *)

Outcome(r, i, t) == [res |-> r, id |-> i, tab |-> t]

PutRow(rows, id, values) ==
    [i \in DOMAIN rows \cup {id} |-> IF i = id THEN values ELSE rows[i]]

DropRow(rows, id) == [i \in DOMAIN rows \ {id} |-> rows[i]]

Merge(old, values) ==
    [c \in DOMAIN old \cup DOMAIN values |->
        IF c \in DOMAIN values THEN values[c] ELSE old[c]]

insert_unchecked(t, values) ==
    IF ~check_uniq(t, values, NoRow)
    THEN Outcome("duplicate", NoRow, t)
    ELSE Outcome("ok", t.next_id,
                 [rows    |-> PutRow(t.rows, t.next_id, values),
                  next_id |-> t.next_id + 1,
                  uniq    |-> index_row(t.uniq, t.next_id, values)])

insert(t, values) ==
    IF ~validate_row_values(values)
    THEN Outcome("invalid", NoRow, t)
    ELSE insert_unchecked(t, values)

\* Variant: the new keys are added, the old ones are never dropped.
update_keeps_stale(t, id, values) ==
    IF id \notin DOMAIN t.rows
    THEN Outcome("not_found", NoRow, t)
    ELSE IF ~check_uniq(t, values, id)
    THEN Outcome("duplicate", NoRow, t)
    ELSE LET new == Merge(t.rows[id], values)
         IN  Outcome("ok", id,
                 [t EXCEPT !.rows = PutRow(t.rows, id, new),
                           !.uniq = index_row(t.uniq, id, new)])

\* No schema validation here: the code validates inserts only.
update(t, id, values) ==
    IF id \notin DOMAIN t.rows
    THEN Outcome("not_found", NoRow, t)
    ELSE IF ~check_uniq(t, values, id)
    THEN Outcome("duplicate", NoRow, t)
    ELSE LET old == t.rows[id]
             new == Merge(old, values)
         IN  Outcome("ok", id,
                 [rows    |-> PutRow(t.rows, id, new),
                  next_id |-> t.next_id,
                  uniq    |-> index_row(drop_stale(t.uniq, id, old, new), id, new)])

\* `delete` is `take` reduced to whether a row was there.
take(t, id) ==
    IF id \notin DOMAIN t.rows
    THEN Outcome("not_found", NoRow, t)
    ELSE Outcome("ok", id,
                 [rows    |-> DropRow(t.rows, id),
                  next_id |-> t.next_id,
                  uniq    |-> unindex_row(t.uniq, id, t.rows[id])])

\* Variant: the allocator is not moved past a restored id.
insert_preserving_id_no_bump(t, want, values) ==
    IF want \in DOMAIN t.rows \/ ~check_uniq(t, values, want)
    THEN Outcome("duplicate", NoRow, t)
    ELSE Outcome("ok", want,
                 [rows    |-> PutRow(t.rows, want, values),
                  next_id |-> t.next_id,
                  uniq    |-> index_row(t.uniq, want, values)])

insert_preserving_id(t, want, values) ==
    IF want \in DOMAIN t.rows \/ ~check_uniq(t, values, want)
    THEN Outcome("duplicate", NoRow, t)
    ELSE Outcome("ok", want,
                 [rows    |-> PutRow(t.rows, want, values),
                  next_id |-> IF want >= t.next_id THEN want + 1 ELSE t.next_id,
                  uniq    |-> index_row(t.uniq, want, values)])

-----------------------------------------------------------------------------
(* Reads.                                                                  *)

\* The row a unique key leads to, as its id; a null key finds nothing.
lookup_by_unique(t, c, v) ==
    IF v = Null \/ t.uniq[c][v] \notin DOMAIN t.rows THEN NoRow
                                                     ELSE t.uniq[c][v]

\* Every index entry leads to a live row that holds the key.
IndexSound(t) ==
    \A c \in uniq_cols, v \in Vals :
        t.uniq[c][v] # NoRow => /\ t.uniq[c][v] \in DOMAIN t.rows
                                /\ ValueOf(t.rows[t.uniq[c][v]], c) = v

\* Every live row is found under each of its non-null unique keys.
IndexComplete(t) ==
    \A c \in uniq_cols, i \in DOMAIN t.rows :
        ValueOf(t.rows[i], c) # Null => t.uniq[c][ValueOf(t.rows[i], c)] = i

=============================================================================
