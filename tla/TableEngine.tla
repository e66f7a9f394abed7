----------------------------- MODULE TableEngine -----------------------------
(***************************************************************************)
(* InMemoryTableEngine (blitz-core table.rs): a DashMap from table names   *)
(* to Arc<RwLock<InMemoryTable>>, used by many threads.  Every operation   *)
(* first resolves the name to a handle (`table`), then takes that table's  *)
(* lock and runs; create_table checks the map and then inserts into it.    *)
(* Between the two steps of one thread any other thread may run, so a      *)
(* thread can hold a handle the map no longer names.                       *)
(***************************************************************************)
EXTENDS Table, FiniteSets

CONSTANTS
    Threads,    \* client threads
    Names,      \* table names
    MaxTables,  \* bound: table objects ever created
    MaxId       \* bound: row ids

ASSUME EngineAssumption == MaxTables \in Nat /\ MaxId \in Nat

Handles == 1 .. MaxTables
NoTable == 0
Ids == 1 .. MaxId

VARIABLES
    tables,   \* name -> handle or NoTable: the DashMap
    heap,     \* handle -> InMemoryTable behind the Arc
    created,  \* number of table objects allocated so far
    pc,       \* thread -> "idle", "resolved" or "creating"
    target,   \* thread -> the handle it resolved, or the name it is creating
    result,   \* thread -> outcome of its last row operation
    used      \* handle -> every id a row ever had (history)

vars == <<tables, heap, created, pc, target, result, used>>

TypeOK ==
    /\ tables \in [Names -> 0 .. created]
    /\ heap = [h \in Handles |-> heap[h]]
    /\ \A h \in Handles : IsTable(heap[h])
    /\ created \in 0 .. MaxTables
    /\ pc \in [Threads -> {"idle", "resolved", "creating"}]
    /\ target \in [Threads -> Names \cup (0 .. MaxTables)]
    /\ \A t \in Threads :
          /\ pc[t] = "resolved" => target[t] \in 1 .. created
          /\ pc[t] = "creating" => target[t] \in Names
    /\ result \in [Threads -> [res : {"none", "ok", "duplicate", "invalid",
                                     "not_found", "no_table"},
                               id  : RowId \cup {NoRow}]]
    /\ used \in [Handles -> SUBSET Ids]

Init ==
    /\ tables = [n \in Names |-> NoTable]
    /\ heap = [h \in Handles |-> NewTable]
    /\ created = 0
    /\ pc = [t \in Threads |-> "idle"]
    /\ target = [t \in Threads |-> NoTable]
    /\ result = [t \in Threads |-> [res |-> "none", id |-> NoRow]]
    /\ used = [h \in Handles |-> {}]

-----------------------------------------------------------------------------
(* The catalog.                                                            *)

\* table(): clone the Arc.
Resolve(t, n) ==
    /\ pc[t] = "idle"
    /\ tables[n] # NoTable
    /\ pc' = [pc EXCEPT ![t] = "resolved"]
    /\ target' = [target EXCEPT ![t] = tables[n]]
    /\ UNCHANGED <<tables, heap, created, result, used>>

\* table() on an unknown name: every operation answers TableNotFound.
ResolveMissing(t, n) ==
    /\ pc[t] = "idle"
    /\ tables[n] = NoTable
    /\ result' = [result EXCEPT ![t] = [res |-> "no_table", id |-> NoRow]]
    /\ UNCHANGED <<tables, heap, created, pc, target, used>>

\* create_table, the contains_key test.  The lock on the map is released.
CreateCheck(t, n) ==
    /\ pc[t] = "idle"
    /\ tables[n] = NoTable
    /\ created + Cardinality({u \in Threads : pc[u] = "creating"}) < MaxTables
    /\ pc' = [pc EXCEPT ![t] = "creating"]
    /\ target' = [target EXCEPT ![t] = n]
    /\ UNCHANGED <<tables, heap, created, result, used>>

\* Variant: the new table shares the previous one's object.
CreateInsert_no_new_object(t) ==
    /\ pc[t] = "creating"
    /\ created < MaxTables
    /\ tables' = [tables EXCEPT ![target[t]] = created + 1]
    /\ pc' = [pc EXCEPT ![t] = "idle"]
    /\ target' = [target EXCEPT ![t] = NoTable]
    /\ UNCHANGED <<heap, created, result, used>>

\* create_table, the insert: whatever the map holds by now is replaced.
CreateInsert(t) ==
    /\ pc[t] = "creating"
    /\ created < MaxTables
    /\ created' = created + 1
    /\ tables' = [tables EXCEPT ![target[t]] = created + 1]
    /\ pc' = [pc EXCEPT ![t] = "idle"]
    /\ target' = [target EXCEPT ![t] = NoTable]
    /\ UNCHANGED <<heap, result, used>>

DropTable(t, n) ==
    /\ pc[t] = "idle"
    /\ tables[n] # NoTable
    /\ tables' = [tables EXCEPT ![n] = NoTable]
    /\ UNCHANGED <<heap, created, pc, target, result, used>>

-----------------------------------------------------------------------------
(* Row operations on the resolved table, atomic under its write lock.      *)

\* The thread ran an operation on its table, which `out` describes.
Apply(t, out) ==
    LET h == target[t]
    IN  /\ heap' = [heap EXCEPT ![h] = out.tab]
        /\ used' = [used EXCEPT ![h] = @ \cup DOMAIN out.tab.rows]
        /\ result' = [result EXCEPT ![t] = [res |-> out.res, id |-> out.id]]
        /\ pc' = [pc EXCEPT ![t] = "idle"]
        /\ target' = [target EXCEPT ![t] = NoTable]
        /\ UNCHANGED <<tables, created>>

Insert(t, values) ==
    /\ pc[t] = "resolved"
    /\ heap[target[t]].next_id <= MaxId
    /\ Apply(t, insert(heap[target[t]], values))

InsertUnchecked(t, values) ==
    /\ pc[t] = "resolved"
    /\ heap[target[t]].next_id <= MaxId
    /\ Apply(t, insert_unchecked(heap[target[t]], values))

Update(t, id, values) ==
    /\ pc[t] = "resolved"
    /\ Apply(t, update(heap[target[t]], id, values))

Delete(t, id) ==
    /\ pc[t] = "resolved"
    /\ Apply(t, take(heap[target[t]], id))

InsertPreservingId(t, want, values) ==
    /\ pc[t] = "resolved"
    /\ Apply(t, insert_preserving_id(heap[target[t]], want, values))

CatalogStep(t) ==
    \/ \E n \in Names : \/ Resolve(t, n)
                        \/ ResolveMissing(t, n)
                        \/ CreateCheck(t, n)
                        \/ DropTable(t, n)
    \/ CreateInsert(t)

RowStep(t) ==
    \/ \E values \in Values : Insert(t, values) \/ InsertUnchecked(t, values)
    \/ \E id \in Ids :
          \/ Delete(t, id)
          \/ \E values \in Values :
                Update(t, id, values) \/ InsertPreservingId(t, id, values)

Next == \E t \in Threads : CatalogStep(t) \/ RowStep(t)

Spec == Init /\ [][Next]_vars

-----------------------------------------------------------------------------
(* Properties.                                                             *)

(***************************************************************************)
(* In every table, whatever was inserted, updated, deleted and restored,   *)
(* the maintained unique index agrees with a scan of the rows in both      *)
(* directions: check_uniq and lookup_by_unique (table.rs) rely on it, and  *)
(* a stale key would refuse a legal write or let a duplicate in.           *)
(***************************************************************************)
IndexConsistent ==
    \A h \in Handles : IndexSound(heap[h]) /\ IndexComplete(heap[h])

(***************************************************************************)
(* The id the allocator will hand out next was never the id of a row of    *)
(* that table, deleted rows and rows restored by the recovery              *)
(* (insert_preserving_id) included.                                        *)
(***************************************************************************)
NextIdFresh ==
    \A h \in Handles : \A i \in used[h] : i < heap[h].next_id

(***************************************************************************)
(* The engine with its index and allocator implements the tables of        *)
(* UniqueTables: same rows, same refusals, fresh ids.                      *)
(***************************************************************************)
Abs == INSTANCE UniqueTables
          WITH rows <- [h \in Handles |-> heap[h].rows]

ImplementsUniqueTables == Abs!Spec
=============================================================================
