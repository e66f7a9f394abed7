----------------------------- MODULE UniqueTables -----------------------------
(***************************************************************************)
(* What the table engine promises, said without an index or an allocator:  *)
(* each table is a set of identified rows; a write is refused exactly when *)
(* some OTHER row of the table, found by scanning all of them, has one of  *)
(* its non-null unique values; an insert gets an id no row of that table   *)
(* ever had.                                                               *)
(***************************************************************************)
EXTENDS Table

CONSTANTS Threads,  \* client threads
          Handles,  \* identities of table objects (one Arc each)
          Ids       \* row ids

VARIABLES rows,    \* handle -> the rows, id -> values
          used,    \* handle -> every id a row of the table ever had
          result   \* thread -> outcome of its last operation

vars == <<rows, used, result>>

Init ==
    /\ rows = [h \in Handles |-> [i \in {} |-> <<>>]]
    /\ used = [h \in Handles |-> {}]
    /\ result = [t \in Threads |-> [res |-> "none", id |-> NoRow]]

\* Some row other than `self` has a non-null unique value of `values`.
Duplicate(h, values, self) ==
    \E i \in DOMAIN rows[h] \ {self}, c \in uniq_cols :
        /\ ValueOf(values, c) # Null
        /\ ValueOf(rows[h][i], c) = ValueOf(values, c)

Answer(t, r, i) == result' = [result EXCEPT ![t] = [res |-> r, id |-> i]]

Refuse(t, r) == Answer(t, r, NoRow) /\ UNCHANGED <<rows, used>>

Store(t, h, i, values) ==
    /\ rows' = [rows EXCEPT ![h] = PutRow(rows[h], i, values)]
    /\ used' = [used EXCEPT ![h] = @ \cup {i}]
    /\ Answer(t, "ok", i)

InsertUnchecked(t, h, values) ==
    IF Duplicate(h, values, NoRow)
    THEN Refuse(t, "duplicate")
    ELSE \E i \in Ids \ used[h] : Store(t, h, i, values)

Insert(t, h, values) ==
    IF ~validate_row_values(values)
    THEN Refuse(t, "invalid")
    ELSE InsertUnchecked(t, h, values)

Update(t, h, i, values) ==
    IF i \notin DOMAIN rows[h]
    THEN Refuse(t, "not_found")
    ELSE IF Duplicate(h, values, i)
    THEN Refuse(t, "duplicate")
    ELSE Store(t, h, i, Merge(rows[h][i], values))

Delete(t, h, i) ==
    IF i \notin DOMAIN rows[h]
    THEN Refuse(t, "not_found")
    ELSE /\ rows' = [rows EXCEPT ![h] = DropRow(rows[h], i)]
         /\ Answer(t, "ok", i)
         /\ UNCHANGED used

Restore(t, h, i, values) ==
    IF i \in DOMAIN rows[h] \/ Duplicate(h, values, i)
    THEN Refuse(t, "duplicate")
    ELSE Store(t, h, i, values)

Next ==
    \E t \in Threads :
        \/ Refuse(t, "no_table")
        \/ \E h \in Handles, values \in Values :
              \/ Insert(t, h, values)
              \/ InsertUnchecked(t, h, values)
        \/ \E h \in Handles, i \in Ids :
              \/ Delete(t, h, i)
              \/ \E values \in Values :
                    Update(t, h, i, values) \/ Restore(t, h, i, values)

Spec == Init /\ [][Next]_vars
=============================================================================
