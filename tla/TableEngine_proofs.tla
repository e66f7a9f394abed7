-------------------------- MODULE TableEngine_proofs --------------------------
(***************************************************************************)
(* Under every interleaving of create, drop and row operations, for every  *)
(* schema, set of values, number of threads and tables: the indexes are    *)
(* exact, ids are fresh, and the engine implements UniqueTables.           *)
(***************************************************************************)
EXTENDS TableEngine, Table_proofs

\* The rows of a table are among the ids it ever used.
RowsUsed == \A h \in Handles : DOMAIN heap[h].rows \subseteq used[h]

\* The inductive invariant: an insert takes next_id, and only NextIdFresh
\* with RowsUsed says that no row is overwritten.
IInv == TypeOK /\ IndexConsistent /\ NextIdFresh /\ RowsUsed

\* What an operation on table `t` may do to it.
Sound(t, out) ==
    /\ GoodTable(out.tab)
    /\ out.res \in {"none", "ok", "duplicate", "invalid", "not_found", "no_table"}
    /\ out.id \in RowId \cup {NoRow}
    /\ out.tab.next_id >= t.next_id
    /\ \A i \in DOMAIN out.tab.rows :
          i \in DOMAIN t.rows \/ (i \in Ids /\ i < out.tab.next_id)

(***************************************************************************)
(* Each table operation is sound.                                          *)
(***************************************************************************)
LEMMA InsertUncheckedSound ==
    ASSUME NEW t, GoodTable(t), NEW values \in Values,
           t.next_id \notin DOMAIN t.rows, t.next_id <= MaxId
    PROVE  Sound(t, insert_unchecked(t, values))
<1>0. t.next_id \in RowId /\ IsTable(t)
  BY DEF GoodTable, IsTable
<1>1. GoodTable(insert_unchecked(t, values).tab)
  BY InsertUncheckedGood
<1>2. CASE ~check_uniq(t, values, NoRow)
  BY <1>0, <1>1, <1>2 DEF Sound, insert_unchecked, Outcome, RowId
<1>3. CASE check_uniq(t, values, NoRow)
  <2>1. t.next_id \in Ids
    BY <1>0, EngineAssumption DEF Ids, RowId, NoRow
  <2>2. /\ insert_unchecked(t, values).res = "ok"
        /\ insert_unchecked(t, values).id = t.next_id
        /\ insert_unchecked(t, values).tab.next_id = t.next_id + 1
        /\ insert_unchecked(t, values).tab.rows = PutRow(t.rows, t.next_id, values)
    BY <1>3 DEF insert_unchecked, Outcome
  <2>3. DOMAIN PutRow(t.rows, t.next_id, values) = DOMAIN t.rows \cup {t.next_id}
    BY DEF PutRow
  <2> QED BY <1>0, <1>1, <2>1, <2>2, <2>3 DEF Sound, RowId
<1> QED BY <1>2, <1>3

LEMMA InsertSound ==
    ASSUME NEW t, GoodTable(t), NEW values \in Values,
           t.next_id \notin DOMAIN t.rows, t.next_id <= MaxId
    PROVE  Sound(t, insert(t, values))
<1>0. t.next_id \in RowId /\ IsTable(t)
  BY DEF GoodTable, IsTable
<1>1. CASE ~validate_row_values(values)
  BY <1>0, <1>1 DEF Sound, insert, Outcome, RowId
<1>2. CASE validate_row_values(values)
  BY <1>2, InsertUncheckedSound DEF insert
<1> QED BY <1>1, <1>2

LEMMA UpdateSound ==
    ASSUME NEW t, GoodTable(t), NEW id \in Ids, NEW values \in Values
    PROVE  Sound(t, update(t, id, values))
<1>0. t.next_id \in RowId /\ IsTable(t)
  BY DEF GoodTable, IsTable
<1>a. id \in RowId
  BY EngineAssumption DEF Ids, RowId, NoRow
<1>1. GoodTable(update(t, id, values).tab)
  BY <1>a, UpdateGood
<1>2. CASE id \notin DOMAIN t.rows \/ ~check_uniq(t, values, id)
  BY <1>0, <1>1, <1>2 DEF Sound, update, Outcome, RowId
<1>3. CASE id \in DOMAIN t.rows /\ check_uniq(t, values, id)
  <2>1. /\ update(t, id, values).res = "ok"
        /\ update(t, id, values).id = id
        /\ update(t, id, values).tab.next_id = t.next_id
        /\ update(t, id, values).tab.rows = PutRow(t.rows, id, Merge(t.rows[id], values))
    BY <1>3 DEF update, Outcome
  <2>2. DOMAIN PutRow(t.rows, id, Merge(t.rows[id], values)) = DOMAIN t.rows
    BY <1>3 DEF PutRow
  <2> QED BY <1>0, <1>a, <1>1, <2>1, <2>2 DEF Sound, RowId
<1> QED BY <1>2, <1>3

LEMMA TakeSound ==
    ASSUME NEW t, GoodTable(t), NEW id \in Ids
    PROVE  Sound(t, take(t, id))
<1>0. t.next_id \in RowId
  BY DEF GoodTable, IsTable
<1>a. id \in RowId
  BY EngineAssumption DEF Ids, RowId, NoRow
<1>1. GoodTable(take(t, id).tab)
  BY <1>a, TakeGood
<1>2. CASE id \notin DOMAIN t.rows
  BY <1>0, <1>1, <1>2 DEF Sound, take, Outcome, RowId
<1>3. CASE id \in DOMAIN t.rows
  BY <1>0, <1>a, <1>1, <1>3 DEF Sound, take, Outcome, RowId, DropRow
<1> QED BY <1>2, <1>3

LEMMA InsertPreservingIdSound ==
    ASSUME NEW t, GoodTable(t), NEW want \in Ids, NEW values \in Values
    PROVE  Sound(t, insert_preserving_id(t, want, values))
<1>0. t.next_id \in RowId /\ IsTable(t)
  BY DEF GoodTable, IsTable
<1>a. want \in RowId
  BY EngineAssumption DEF Ids, RowId, NoRow
<1>1. GoodTable(insert_preserving_id(t, want, values).tab)
  BY <1>a, InsertPreservingIdGood
<1>2. CASE want \in DOMAIN t.rows \/ ~check_uniq(t, values, want)
  BY <1>0, <1>1, <1>2 DEF Sound, insert_preserving_id, Outcome, RowId
<1>3. CASE want \notin DOMAIN t.rows /\ check_uniq(t, values, want)
  <2> DEFINE out == insert_preserving_id(t, want, values)
  <2>1. /\ out.res = "ok"
        /\ out.id = want
        /\ out.tab.next_id = IF want >= t.next_id THEN want + 1 ELSE t.next_id
        /\ out.tab.rows = PutRow(t.rows, want, values)
    BY <1>3 DEF insert_preserving_id, Outcome
  <2>2. DOMAIN PutRow(t.rows, want, values) = DOMAIN t.rows \cup {want}
    BY DEF PutRow
  <2>3. out.tab.next_id >= t.next_id /\ want < out.tab.next_id
    BY <1>0, <1>a, <2>1 DEF RowId
  <2> HIDE DEF out
  <2> QED BY <1>0, <1>a, <1>1, <2>1, <2>2, <2>3 DEF Sound, out
<1> QED BY <1>2, <1>3

-----------------------------------------------------------------------------
(***************************************************************************)
(* A sound operation on a resolved table preserves the invariant.          *)
(***************************************************************************)
LEMMA ApplyPreserves ==
    ASSUME IInv, NEW t \in Threads, pc[t] = "resolved", NEW out,
           Sound(heap[target[t]], out), Apply(t, out)
    PROVE  IInv'
<1> DEFINE h == target[t]
<1>1. h \in Handles
  BY EngineAssumption DEF IInv, TypeOK, Handles
<1>2. /\ heap' = [heap EXCEPT ![h] = out.tab]
      /\ used' = [used EXCEPT ![h] = @ \cup DOMAIN out.tab.rows]
      /\ result' = [result EXCEPT ![t] = [res |-> out.res, id |-> out.id]]
      /\ pc' = [pc EXCEPT ![t] = "idle"]
      /\ target' = [target EXCEPT ![t] = NoTable]
      /\ tables' = tables /\ created' = created
  BY DEF Apply
<1> HIDE DEF h
<1>3. heap = [k \in Handles |-> heap[k]] /\ used \in [Handles -> SUBSET Ids]
  BY DEF IInv, TypeOK
<1>4. heap'[h] = out.tab /\ \A k \in Handles \ {h} : heap'[k] = heap[k]
  BY <1>1, <1>2, <1>3
<1>5. /\ used'[h] = used[h] \cup DOMAIN out.tab.rows
      /\ \A k \in Handles \ {h} : used'[k] = used[k]
  BY <1>1, <1>2, <1>3
<1>6. /\ GoodTable(out.tab)
      /\ \A i \in DOMAIN out.tab.rows :
            i \in DOMAIN heap[h].rows \/ (i \in Ids /\ i < out.tab.next_id)
      /\ out.tab.next_id >= heap[h].next_id
  BY DEF Sound, h
<1>7. \A k \in Handles : GoodTable(heap'[k])
  <2>1. \A k \in Handles : GoodTable(heap[k])
    BY DEF IInv, TypeOK, IndexConsistent, GoodTable
  <2> QED BY <2>1, <1>4, <1>6
<1>8. used' \in [Handles -> SUBSET Ids]
  <2>1. DOMAIN out.tab.rows \subseteq Ids
    BY <1>1, <1>6, <1>3 DEF IInv, RowsUsed
  <2> QED BY <1>1, <1>2, <1>3, <2>1
<1>9. TypeOK'
  <2>1. result' \in [Threads -> [res : {"none", "ok", "duplicate", "invalid",
                                        "not_found", "no_table"},
                                 id  : RowId \cup {NoRow}]]
    <3>1. [res |-> out.res, id |-> out.id]
             \in [res : {"none", "ok", "duplicate", "invalid",
                         "not_found", "no_table"},
                  id  : RowId \cup {NoRow}]
      BY DEF Sound
    <3> QED BY <3>1, <1>2 DEF IInv, TypeOK
  <2>2. heap' = [k \in Handles |-> heap'[k]]
    BY <1>1, <1>2, <1>3
  <2>3. \A k \in Handles : IsTable(heap'[k])
    BY <1>7 DEF GoodTable
  <2>4. pc' \in [Threads -> {"idle", "resolved", "creating"}]
    BY <1>2 DEF IInv, TypeOK
  <2>5. target' \in [Threads -> Names \cup (0 .. MaxTables)]
    BY <1>2, EngineAssumption DEF IInv, TypeOK, NoTable
  <2>6. \A s \in Threads :
          /\ pc'[s] = "resolved" => target'[s] \in 1 .. created'
          /\ pc'[s] = "creating" => target'[s] \in Names
    BY <1>2 DEF IInv, TypeOK
  <2> QED BY <2>1, <2>2, <2>3, <2>4, <2>5, <2>6, <1>2, <1>8 DEF IInv, TypeOK
<1>10. IndexConsistent'
  BY <1>7 DEF IndexConsistent, GoodTable
<1>11. NextIdFresh'
  <2> SUFFICES ASSUME NEW k \in Handles, NEW i \in used'[k]
               PROVE  i < heap'[k].next_id
    BY DEF NextIdFresh
  <2>1. CASE k # h
    BY <2>1, <1>4, <1>5 DEF IInv, NextIdFresh
  <2>2. CASE k = h
    <3>1. i \in used[h] => i < heap[h].next_id
      BY <1>1 DEF IInv, NextIdFresh
    <3>2. i \in used[h] \/ i < out.tab.next_id
      BY <2>2, <1>1, <1>5, <1>6 DEF IInv, RowsUsed
    <3>a. i \in Ids
      BY <2>2, <1>1, <1>8
    <3>b. IsTable(heap[h]) /\ IsTable(out.tab)
      BY <1>1, <1>6 DEF IInv, TypeOK, GoodTable
    <3>3. i \in Nat /\ heap[h].next_id \in Nat /\ out.tab.next_id \in Nat
      BY <3>a, <3>b, EngineAssumption DEF Ids, IsTable, RowId
    <3> QED BY <2>2, <3>1, <3>2, <3>3, <1>4, <1>6
  <2> QED BY <2>1, <2>2
<1>12. RowsUsed'
  BY <1>4, <1>5 DEF IInv, RowsUsed
<1> QED BY <1>9, <1>10, <1>11, <1>12 DEF IInv

LEMMA InitInv == Init => IInv
<1> SUFFICES ASSUME Init PROVE IInv
  OBVIOUS
<1>1. \A h \in Handles : heap[h] = NewTable /\ used[h] = {}
  BY DEF Init
<1>2. GoodTable(NewTable) /\ NewTable.rows = [i \in {} |-> <<>>]
  BY NewTableGood DEF NewTable
<1>3. TypeOK
  BY <1>1, <1>2, EngineAssumption DEF Init, TypeOK, GoodTable, NoTable, NoRow
<1> QED BY <1>1, <1>2, <1>3
        DEF IInv, IndexConsistent, NextIdFresh, RowsUsed, GoodTable

(***************************************************************************)
(* Every resolved thread's table is good, and its next id is not in use.   *)
(***************************************************************************)
LEMMA ResolvedGood ==
    ASSUME IInv, NEW t \in Threads, pc[t] = "resolved"
    PROVE  /\ GoodTable(heap[target[t]])
           /\ heap[target[t]].next_id \notin DOMAIN heap[target[t]].rows
<1>1. target[t] \in Handles
  BY EngineAssumption DEF IInv, TypeOK, Handles
<1>2. heap[target[t]].next_id \notin used[target[t]]
  <2>1. IsTable(heap[target[t]])
    BY <1>1 DEF IInv, TypeOK
  <2>2. heap[target[t]].next_id \in Nat
    BY <2>1 DEF IsTable, RowId
  <2>3. ~(heap[target[t]].next_id < heap[target[t]].next_id)
    BY <2>2
  <2> QED BY <1>1, <2>3 DEF IInv, NextIdFresh
<1> QED BY <1>1, <1>2
        DEF IInv, TypeOK, IndexConsistent, GoodTable, RowsUsed

LEMMA NextInv == IInv /\ [Next]_vars => IInv'
<1> SUFFICES ASSUME IInv, [Next]_vars PROVE IInv'
  OBVIOUS
<1>u. CASE UNCHANGED vars
  BY <1>u DEF IInv, TypeOK, IndexConsistent, NextIdFresh, RowsUsed, vars
<1>n. ASSUME NEW t \in Threads, CatalogStep(t) \/ RowStep(t) PROVE IInv'
  <2>1. ASSUME NEW n \in Names, Resolve(t, n) PROVE IInv'
    BY <2>1, EngineAssumption DEF Resolve, IInv, TypeOK, IndexConsistent, NextIdFresh, RowsUsed,
           NoTable
  <2>2. ASSUME NEW n \in Names, ResolveMissing(t, n) PROVE IInv'
    BY <2>2 DEF ResolveMissing, IInv, TypeOK, IndexConsistent, NextIdFresh, RowsUsed
  <2>3. ASSUME NEW n \in Names, CreateCheck(t, n) PROVE IInv'
    BY <2>3 DEF CreateCheck, IInv, TypeOK, IndexConsistent, NextIdFresh, RowsUsed
  <2>4. ASSUME NEW n \in Names, DropTable(t, n) PROVE IInv'
    BY <2>4 DEF DropTable, IInv, TypeOK, IndexConsistent, NextIdFresh, RowsUsed, NoTable
  <2>5. ASSUME CreateInsert(t) PROVE IInv'
    <3>1. TypeOK'
      BY <2>5, EngineAssumption DEF CreateInsert, IInv, TypeOK, NoTable
    <3> QED BY <2>5, <3>1
            DEF CreateInsert, IInv, IndexConsistent, NextIdFresh, RowsUsed
  <2>6. ASSUME NEW values \in Values, Insert(t, values) PROVE IInv'
    BY <2>6, InsertSound, ResolvedGood, ApplyPreserves DEF Insert
  <2>7. ASSUME NEW values \in Values, InsertUnchecked(t, values) PROVE IInv'
    BY <2>7, InsertUncheckedSound, ResolvedGood, ApplyPreserves DEF InsertUnchecked
  <2>8. ASSUME NEW id \in Ids, Delete(t, id) PROVE IInv'
    BY <2>8, TakeSound, ResolvedGood, ApplyPreserves DEF Delete
  <2>9. ASSUME NEW id \in Ids, NEW values \in Values, Update(t, id, values)
        PROVE  IInv'
    BY <2>9, UpdateSound, ResolvedGood, ApplyPreserves DEF Update
  <2>10. ASSUME NEW id \in Ids, NEW values \in Values,
                InsertPreservingId(t, id, values)
         PROVE  IInv'
    BY <2>10, InsertPreservingIdSound, ResolvedGood, ApplyPreserves
       DEF InsertPreservingId
  <2> QED BY <1>n, <2>1, <2>2, <2>3, <2>4, <2>5, <2>6, <2>7, <2>8, <2>9, <2>10
          DEF CatalogStep, RowStep
<1> QED BY <1>u, <1>n DEF Next

(***************************************************************************)
(* The engine's types, for every schema, thread set and bound.             *)
(***************************************************************************)
THEOREM TypeCorrect == Spec => []TypeOK
<1>1. IInv => TypeOK
  BY DEF IInv
<1> QED BY <1>1, InitInv, NextInv, PTL DEF Spec

(***************************************************************************)
(* The unique indexes of blitz-core agree with the rows in every reachable *)
(* state, whatever the threads do.                                         *)
(***************************************************************************)
THEOREM IndexCorrect == Spec => []IndexConsistent
<1>1. IInv => IndexConsistent
  BY DEF IInv
<1> QED BY <1>1, InitInv, NextInv, PTL DEF Spec

(***************************************************************************)
(* next_row_id never hands out an id a row of the table ever had.          *)
(***************************************************************************)
THEOREM IdsFresh == Spec => []NextIdFresh
<1>1. IInv => NextIdFresh
  BY DEF IInv
<1> QED BY <1>1, InitInv, NextInv, PTL DEF Spec

-----------------------------------------------------------------------------
(* Refinement: every step is a step of UniqueTables or leaves it alone.    *)

(***************************************************************************)
(* The duplicate test of the abstract table is the scan of the concrete    *)
(* one, so check_uniq decides it.                                          *)
(***************************************************************************)
LEMMA DuplicateIsCheck ==
    ASSUME IInv, NEW h \in Handles, NEW values \in Values, NEW self
    PROVE  Abs!Duplicate(h, values, self) <=> ~check_uniq(heap[h], values, self)
<1>1. GoodTable(heap[h])
  BY DEF IInv, TypeOK, IndexConsistent, GoodTable
<1>2. Abs!Duplicate(h, values, self) <=> ScanFindsDuplicate(heap[h], values, self)
  BY DEF Abs!Duplicate, ScanFindsDuplicate, Abs!uniq_cols, uniq_cols,
         Abs!ValueOf, ValueOf
<1> QED BY <1>1, <1>2, CheckIsScan

(***************************************************************************)
(* Applying an outcome: what the abstract tables see.                      *)
(***************************************************************************)
LEMMA ApplySeen ==
    ASSUME IInv, NEW t \in Threads, pc[t] = "resolved", NEW out, Apply(t, out)
    PROVE  /\ target[t] \in Handles
           /\ [k \in Handles |-> heap'[k].rows] =
                 [[k \in Handles |-> heap[k].rows] EXCEPT ![target[t]] = out.tab.rows]
           /\ used' = [used EXCEPT ![target[t]] = @ \cup DOMAIN out.tab.rows]
           /\ result' = [result EXCEPT ![t] = [res |-> out.res, id |-> out.id]]
<1>1. target[t] \in Handles
  BY EngineAssumption DEF IInv, TypeOK, Handles
<1>2. heap = [k \in Handles |-> heap[k]]
  BY DEF IInv, TypeOK
<1>3. heap' = [heap EXCEPT ![target[t]] = out.tab]
  BY DEF Apply
<1>4. heap'[target[t]] = out.tab
      /\ \A k \in Handles \ {target[t]} : heap'[k] = heap[k]
  BY <1>1, <1>2, <1>3
<1>5. [k \in Handles |-> heap'[k].rows] =
         [[k \in Handles |-> heap[k].rows] EXCEPT ![target[t]] = out.tab.rows]
  BY <1>1, <1>4
<1> QED BY <1>1, <1>5 DEF Apply

(***************************************************************************)
(* An operation that is refused is a refusal of the abstract table.        *)
(***************************************************************************)
LEMMA RefuseRefines ==
    ASSUME IInv, NEW t \in Threads, pc[t] = "resolved", NEW r,
           Apply(t, Outcome(r, NoRow, heap[target[t]]))
    PROVE  Abs!Refuse(t, r)
<1> DEFINE out == Outcome(r, NoRow, heap[target[t]])
<1>0. out.tab = heap[target[t]] /\ out.res = r /\ out.id = NoRow
  BY DEF Outcome
<1> HIDE DEF out
<1>1. /\ target[t] \in Handles
      /\ [k \in Handles |-> heap'[k].rows] =
            [[k \in Handles |-> heap[k].rows] EXCEPT ![target[t]] = out.tab.rows]
      /\ used' = [used EXCEPT ![target[t]] = @ \cup DOMAIN out.tab.rows]
      /\ result' = [result EXCEPT ![t] = [res |-> out.res, id |-> out.id]]
  BY ApplySeen DEF out
<1>2. [k \in Handles |-> heap'[k].rows] = [k \in Handles |-> heap[k].rows]
  BY <1>0, <1>1
<1>3. used' = used
  BY <1>0, <1>1 DEF IInv, TypeOK, RowsUsed
<1> QED BY <1>0, <1>1, <1>2, <1>3 DEF Abs!Refuse, Abs!Answer, Abs!NoRow, NoRow

(***************************************************************************)
(* An operation that stores a row is a store of the abstract table.        *)
(***************************************************************************)
LEMMA StoreRefines ==
    ASSUME IInv, NEW t \in Threads, pc[t] = "resolved", NEW id, NEW values,
           NEW tab, tab.rows = PutRow(heap[target[t]].rows, id, values),
           Apply(t, Outcome("ok", id, tab))
    PROVE  Abs!Store(t, target[t], id, values)
<1> DEFINE out == Outcome("ok", id, tab)
<1>0. out.tab = tab /\ out.res = "ok" /\ out.id = id
  BY DEF Outcome
<1> HIDE DEF out
<1>1. /\ target[t] \in Handles
      /\ [k \in Handles |-> heap'[k].rows] =
            [[k \in Handles |-> heap[k].rows] EXCEPT ![target[t]] = out.tab.rows]
      /\ used' = [used EXCEPT ![target[t]] = @ \cup DOMAIN out.tab.rows]
      /\ result' = [result EXCEPT ![t] = [res |-> out.res, id |-> out.id]]
  BY ApplySeen DEF out
<1>2. DOMAIN tab.rows = DOMAIN heap[target[t]].rows \cup {id}
  BY DEF PutRow
<1>3. used' = [used EXCEPT ![target[t]] = @ \cup {id}]
  BY <1>0, <1>1, <1>2 DEF IInv, TypeOK, RowsUsed
<1>4. Abs!PutRow([k \in Handles |-> heap[k].rows][target[t]], id, values) = tab.rows
  BY <1>1 DEF Abs!PutRow, PutRow
<1> QED BY <1>0, <1>1, <1>3, <1>4 DEF Abs!Store, Abs!Answer

LEMMA InsertUncheckedRefines ==
    ASSUME IInv, NEW t \in Threads, NEW values \in Values,
           pc[t] = "resolved", heap[target[t]].next_id <= MaxId,
           Apply(t, insert_unchecked(heap[target[t]], values))
    PROVE  target[t] \in Handles /\ Abs!InsertUnchecked(t, target[t], values)
<1> DEFINE tb == heap[target[t]]
<1>1. target[t] \in Handles
  BY EngineAssumption DEF IInv, TypeOK, Handles
<1>2. CASE ~check_uniq(tb, values, NoRow)
  <2>1. Apply(t, Outcome("duplicate", NoRow, tb))
    BY <1>2 DEF insert_unchecked
  <2>2. Abs!Refuse(t, "duplicate")
    BY <2>1, RefuseRefines
  <2> QED BY <1>1, <1>2, <2>2, DuplicateIsCheck
          DEF Abs!InsertUnchecked, Abs!NoRow, NoRow
<1>3. CASE check_uniq(tb, values, NoRow)
  <2> DEFINE new == [rows    |-> PutRow(tb.rows, tb.next_id, values),
                     next_id |-> tb.next_id + 1,
                     uniq    |-> index_row(tb.uniq, tb.next_id, values)]
  <2>1. Apply(t, Outcome("ok", tb.next_id, new))
    BY <1>3 DEF insert_unchecked
  <2>2. new.rows = PutRow(tb.rows, tb.next_id, values)
    OBVIOUS
  <2>3. Abs!Store(t, target[t], tb.next_id, values)
    BY <2>1, <2>2, StoreRefines
  <2>4. IsTable(tb) /\ tb.next_id \in RowId
    BY <1>1 DEF IInv, TypeOK, IsTable
  <2>5. tb.next_id \in Ids
    BY <2>4, EngineAssumption DEF Ids, RowId, NoRow
  <2>6. ~(tb.next_id < tb.next_id)
    BY <2>4 DEF RowId
  <2>7. tb.next_id \notin used[target[t]]
    BY <1>1, <2>6 DEF IInv, NextIdFresh
  <2> QED BY <1>1, <1>3, <2>3, <2>5, <2>7, DuplicateIsCheck
          DEF Abs!InsertUnchecked, Abs!NoRow, NoRow
<1> QED BY <1>2, <1>3

LEMMA InsertRefines ==
    ASSUME IInv, NEW t \in Threads, NEW values \in Values, Insert(t, values)
    PROVE  target[t] \in Handles /\ Abs!Insert(t, target[t], values)
<1>0. Abs!validate_row_values(values) <=> validate_row_values(values)
  BY DEF Abs!validate_row_values, validate_row_values
<1>1. target[t] \in Handles
  BY EngineAssumption DEF IInv, TypeOK, Handles, Insert
<1>2. CASE ~validate_row_values(values)
  <2>1. Abs!Refuse(t, "invalid")
    BY <1>2, RefuseRefines DEF Insert, insert
  <2> QED BY <1>0, <1>1, <1>2, <2>1 DEF Abs!Insert
<1>3. CASE validate_row_values(values)
  <2>1. Abs!InsertUnchecked(t, target[t], values)
    BY <1>3, InsertUncheckedRefines DEF Insert, insert
  <2> QED BY <1>0, <1>1, <1>3, <2>1 DEF Abs!Insert
<1> QED BY <1>2, <1>3

LEMMA UpdateRefines ==
    ASSUME IInv, NEW t \in Threads, NEW id \in Ids, NEW values \in Values,
           Update(t, id, values)
    PROVE  target[t] \in Handles /\ Abs!Update(t, target[t], id, values)
<1> DEFINE tb == heap[target[t]]
<1>1. target[t] \in Handles /\ pc[t] = "resolved" /\ Apply(t, update(tb, id, values))
  BY EngineAssumption DEF IInv, TypeOK, Handles, Update
<1>2. CASE id \notin DOMAIN tb.rows
  <2>1. Abs!Refuse(t, "not_found")
    BY <1>1, <1>2, RefuseRefines DEF update
  <2> QED BY <1>1, <1>2, <2>1 DEF Abs!Update
<1>3. CASE id \in DOMAIN tb.rows /\ ~check_uniq(tb, values, id)
  <2>1. Abs!Refuse(t, "duplicate")
    BY <1>1, <1>3, RefuseRefines DEF update
  <2> QED BY <1>1, <1>3, <2>1, DuplicateIsCheck DEF Abs!Update
<1>4. CASE id \in DOMAIN tb.rows /\ check_uniq(tb, values, id)
  <2>1. PICK m : m = Merge(tb.rows[id], values)
    OBVIOUS
  <2>2. PICK new :
           new = [rows    |-> PutRow(tb.rows, id, m),
                  next_id |-> tb.next_id,
                  uniq    |-> index_row(drop_stale(tb.uniq, id, tb.rows[id], m), id, m)]
    OBVIOUS
  <2>3. Apply(t, Outcome("ok", id, new))
    BY <1>1, <1>4, <2>1, <2>2 DEF update
  <2>4. new.rows = PutRow(tb.rows, id, m)
    BY <2>2
  <2>5. m = Abs!Merge([k \in Handles |-> heap[k].rows][target[t]][id], values)
    BY <1>1, <2>1 DEF Abs!Merge, Merge
  <2>6. Abs!Store(t, target[t], id, m)
    BY <1>1, <2>3, <2>4, StoreRefines
  <2>7. /\ ~Abs!Duplicate(target[t], values, id)
        /\ id \in DOMAIN [k \in Handles |-> heap[k].rows][target[t]]
    BY <1>1, <1>4, DuplicateIsCheck
  <2>8. Abs!Store(t, target[t], id,
                  Abs!Merge([k \in Handles |-> heap[k].rows][target[t]][id], values))
    BY <2>5, <2>6 DEF Abs!Store
  <2> QED BY <1>1, <2>7, <2>8 DEF Abs!Update, Abs!Store, Abs!Answer
<1> QED BY <1>2, <1>3, <1>4

LEMMA DeleteRefines ==
    ASSUME IInv, NEW t \in Threads, NEW id \in Ids, Delete(t, id)
    PROVE  target[t] \in Handles /\ Abs!Delete(t, target[t], id)
<1> DEFINE tb == heap[target[t]]
<1>1. target[t] \in Handles /\ pc[t] = "resolved" /\ Apply(t, take(tb, id))
  BY EngineAssumption DEF IInv, TypeOK, Handles, Delete
<1>2. CASE id \notin DOMAIN tb.rows
  <2>1. Abs!Refuse(t, "not_found")
    BY <1>1, <1>2, RefuseRefines DEF take
  <2> QED BY <1>1, <1>2, <2>1 DEF Abs!Delete
<1>3. CASE id \in DOMAIN tb.rows
  <2> DEFINE out == take(tb, id)
  <2>1. out.tab.rows = DropRow(tb.rows, id) /\ out.res = "ok" /\ out.id = id
    BY <1>3 DEF take, Outcome
  <2> HIDE DEF out
  <2>2. /\ [k \in Handles |-> heap'[k].rows] =
              [[k \in Handles |-> heap[k].rows] EXCEPT ![target[t]] = out.tab.rows]
        /\ used' = [used EXCEPT ![target[t]] = @ \cup DOMAIN out.tab.rows]
        /\ result' = [result EXCEPT ![t] = [res |-> out.res, id |-> out.id]]
    BY <1>1, ApplySeen DEF out
  <2>3. DOMAIN out.tab.rows \subseteq DOMAIN tb.rows
    BY <2>1 DEF DropRow
  <2>4. used' = used
    BY <1>1, <2>2, <2>3 DEF IInv, TypeOK, RowsUsed
  <2> QED BY <1>1, <1>3, <2>1, <2>2, <2>4
          DEF Abs!Delete, Abs!Answer, Abs!DropRow, DropRow
<1> QED BY <1>2, <1>3

LEMMA RestoreRefines ==
    ASSUME IInv, NEW t \in Threads, NEW id \in Ids, NEW values \in Values,
           InsertPreservingId(t, id, values)
    PROVE  target[t] \in Handles /\ Abs!Restore(t, target[t], id, values)
<1> DEFINE tb == heap[target[t]]
<1>1. /\ target[t] \in Handles /\ pc[t] = "resolved"
      /\ Apply(t, insert_preserving_id(tb, id, values))
  BY EngineAssumption DEF IInv, TypeOK, Handles, InsertPreservingId
<1>2. CASE id \in DOMAIN tb.rows \/ ~check_uniq(tb, values, id)
  <2>1. Abs!Refuse(t, "duplicate")
    BY <1>1, <1>2, RefuseRefines DEF insert_preserving_id
  <2> QED BY <1>1, <1>2, <2>1, DuplicateIsCheck DEF Abs!Restore
<1>3. CASE id \notin DOMAIN tb.rows /\ check_uniq(tb, values, id)
  <2> DEFINE new == [rows    |-> PutRow(tb.rows, id, values),
                     next_id |-> IF id >= tb.next_id THEN id + 1 ELSE tb.next_id,
                     uniq    |-> index_row(tb.uniq, id, values)]
  <2>1. Apply(t, Outcome("ok", id, new))
    BY <1>1, <1>3 DEF insert_preserving_id
  <2>2. new.rows = PutRow(tb.rows, id, values)
    OBVIOUS
  <2>3. Abs!Store(t, target[t], id, values)
    BY <1>1, <2>1, <2>2, StoreRefines
  <2> QED BY <1>1, <1>3, <2>3, DuplicateIsCheck DEF Abs!Restore
<1> QED BY <1>2, <1>3

LEMMA StepRefines ==
    IInv /\ [Next]_vars => [Abs!Next]_(Abs!vars)
<1> SUFFICES ASSUME IInv, [Next]_vars PROVE Abs!Next \/ UNCHANGED Abs!vars
  OBVIOUS
<1>v. Abs!Values = Values
  BY DEF Abs!Values, Values
<1>u. CASE UNCHANGED vars
  BY <1>u DEF vars, Abs!vars
<1>n. ASSUME NEW t \in Threads, CatalogStep(t) \/ RowStep(t)
      PROVE  Abs!Next \/ UNCHANGED Abs!vars
  <2>1. ASSUME NEW n \in Names,
               Resolve(t, n) \/ CreateCheck(t, n) \/ DropTable(t, n)
        PROVE  UNCHANGED Abs!vars
    BY <2>1 DEF Resolve, CreateCheck, DropTable, Abs!vars
  <2>2. ASSUME CreateInsert(t) PROVE UNCHANGED Abs!vars
    BY <2>2 DEF CreateInsert, Abs!vars
  <2>3. ASSUME NEW n \in Names, ResolveMissing(t, n) PROVE Abs!Next
    <3>1. Abs!Refuse(t, "no_table")
      BY <2>3 DEF ResolveMissing, Abs!Refuse, Abs!Answer, Abs!NoRow, NoRow
    <3> QED BY <3>1 DEF Abs!Next
  <2>4. ASSUME NEW values \in Values, Insert(t, values) PROVE Abs!Next
    BY <2>4, <1>v, InsertRefines DEF Abs!Next
  <2>5. ASSUME NEW values \in Values, InsertUnchecked(t, values) PROVE Abs!Next
    BY <2>5, <1>v, InsertUncheckedRefines DEF Abs!Next, InsertUnchecked
  <2>6. ASSUME NEW id \in Ids, Delete(t, id) PROVE Abs!Next
    BY <2>6, DeleteRefines DEF Abs!Next
  <2>7. ASSUME NEW id \in Ids, NEW values \in Values, Update(t, id, values)
        PROVE  Abs!Next
    BY <2>7, <1>v, UpdateRefines DEF Abs!Next
  <2>8. ASSUME NEW id \in Ids, NEW values \in Values,
               InsertPreservingId(t, id, values)
        PROVE  Abs!Next
    BY <2>8, <1>v, RestoreRefines DEF Abs!Next
  <2> QED BY <1>n, <2>1, <2>2, <2>3, <2>4, <2>5, <2>6, <2>7, <2>8
          DEF CatalogStep, RowStep
<1> QED BY <1>u, <1>n DEF Next

(***************************************************************************)
(* The table engine, with its maintained indexes, its allocator and its    *)
(* two-step operations, implements the tables of UniqueTables.             *)
(***************************************************************************)
THEOREM EngineImplementsUniqueTables == Spec => ImplementsUniqueTables
<1>1. Init => Abs!Init
  BY DEF Init, Abs!Init, NewTable, Abs!NoRow, NoRow
<1> QED BY <1>1, InitInv, NextInv, StepRefines, PTL
        DEF Spec, ImplementsUniqueTables, Abs!Spec
=============================================================================
