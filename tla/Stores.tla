-------------------------------- MODULE Stores --------------------------------
(***************************************************************************)
(* The parts that hold a table on their own, without the server: recovery  *)
(* from a snapshot and a log (blitz-storage), the map of tables of         *)
(* blitz-memory beside the table of blitz-table, and the routes of         *)
(* blitz-api.                                                              *)
(***************************************************************************)
EXTENDS Query

CONSTANTS
    StoreRows,    \* what clients write beside the id: functions from columns to values
    StoreColumns, \* the definitions of the column that clients write
    MAX_I64,      \* scaled: the largest number of an i64
    MaxLogged,    \* bound: entries of the log
    MaxStoreOps,  \* bound: operations on the facades
    MaxRoutes,    \* bound: routes
    Paths, Handlers,
    NoStore, NoSnap, NotFound

ASSUME StoresAssumption == MAX_I64 \in Nat /\ MaxLogged \in Nat /\ MaxStoreOps \in Nat /\ MaxRoutes \in Nat

VARIABLES
    st_mode,   \* whether the log has transactions
    st_tab,    \* the table that is lost in a crash
    st_open,   \* the table when the open transaction began, or NoStore
    st_wal,    \* the log
    st_snap,   \* the snapshot

    me_tab,    \* the table of the memory store, or NoStore
    fa_tab,    \* the table facade
    me_got,    \* what both answered last
    me_dup,    \* the facade refused a key that is taken
    me_ops,

    rt_routes, \* the routes, in the order of registration
    rt_told    \* request -> who answered it first, or NotFound

storage_vars == <<st_mode, st_tab, st_open, st_wal, st_snap>>
facade_vars == <<me_tab, fa_tab, me_got, me_dup, me_ops, rt_routes, rt_told>>

----------------------------------------------------------------------------
(* Values as JSON, and back: an object stands for itself, numbers lose     *)
(* their width, and what is written as text stays text.                    *)

Json(kind, v) == [kind |-> kind, v |-> v]
Texts == {"Decimal", "String", "Uuid", "Timestamp", "Date"}

to_json(x) ==
    CASE is_null(x) -> Json("Null", <<>>)
      [] x.t = "Boolean" -> Json("Bool", x.v)
      [] x.t \in Integral -> Json("Integer", x.v)
      [] x.t \in Floats -> Json("Float", x.v)
      [] x.t \in Texts -> Json("String", x.v)
      [] x.t \in {"Bytes", "Array"} -> Json("Array", x.v)
      [] x.t = "Json" -> Json("Object", x.v)

is_i64(j) == j.kind = "Integer" /\ j.v[1] <= MAX_I64

json_to_value(j) ==
    CASE j.kind = "Null" -> NullValue
      [] j.kind = "Bool" -> Value("Boolean", j.v)
      [] is_i64(j) -> Value("Int64", j.v)
      [] j.kind = "Integer" /\ ~is_i64(j) -> Float64(UNIT * j.v[1])
      [] j.kind = "Float" -> Value("Float64", j.v)
      [] j.kind = "String" -> Value("String", j.v)
      [] j.kind = "Array" -> Value("Array", j.v)
      [] j.kind = "Object" -> Value("Json", j.v)

json_to_column_type(j) ==
    CASE j.kind \in {"Null", "String"} -> "String"
      [] j.kind = "Bool" -> "Boolean"
      [] is_i64(j) -> "Int64"
      [] j.kind \in {"Integer", "Float"} /\ ~is_i64(j) -> "Float64"
      [] j.kind = "Array" -> "Array"
      [] j.kind = "Object" -> "Json"

----------------------------------------------------------------------------
(* A table: the definitions of its columns, rows and the next id.          *)

Column(type, nullable, pk) == [type |-> type, nullable |-> nullable, primary_key |-> pk]
IdColumn == "id" :> Column("Int64", FALSE, TRUE)
RowIdValue(i) == Value("Int64", <<i>>)

StoreTable(schema) == [schema |-> schema, rows |-> <<>>, next |-> 1]

value_matches_type(x, type) == ~is_null(x) /\ x.t = type

\* No column here has a default.
RowFits(schema, values) ==
    \A c \in DOMAIN schema :
        IF c \notin DOMAIN values THEN schema[c].nullable /\ ~schema[c].primary_key
        ELSE IF is_null(values[c]) THEN schema[c].nullable
        ELSE value_matches_type(values[c], schema[c].type)

\* A key of the primary index that belongs to another row.
KeyTaken(t, values, self) ==
    \E c \in DOMAIN t.schema \cap DOMAIN values, i \in DOMAIN t.rows \ {self} :
        /\ t.schema[c].primary_key /\ c \in DOMAIN t.rows[i] /\ ~is_null(values[c])
        /\ SameKey(values[c], t.rows[i][c])

StoreOutcome(ok, i, t) == [ok |-> ok, id |-> i, tab |-> t]
Without(rows, i) == [k \in DOMAIN rows \ {i} |-> rows[k]]

\* The row gets the next id, whatever id it came with.
PlaceRow(t, values) ==
    StoreOutcome("ok", t.next, [t EXCEPT !.rows = (t.next :> values) @@ @, !.next = @ + 1])

engine_insert(t, values) ==
    IF ~RowFits(t.schema, values) THEN StoreOutcome("invalid", 0, t)
    ELSE IF KeyTaken(t, values, 0) THEN StoreOutcome("duplicate", 0, t)
    ELSE PlaceRow(t, values)

\* Nothing validates an update.
ChangeRow(t, i, values) ==
    IF i \notin DOMAIN t.rows THEN StoreOutcome("not_found", 0, t)
    ELSE StoreOutcome("ok", i, [t EXCEPT !.rows[i] = values @@ @])

engine_update(t, i, values) ==
    IF i \in DOMAIN t.rows /\ KeyTaken(t, values, i) THEN StoreOutcome("duplicate", 0, t) ELSE ChangeRow(t, i, values)

\* That there is no such row is no error.
RemoveRow(t, i) == StoreOutcome("ok", IF i \in DOMAIN t.rows THEN i ELSE 0, [t EXCEPT !.rows = Without(@, i)])

----------------------------------------------------------------------------
(* Recovery.  It works on [ok, tab, pending]: once a step has failed the   *)
(* error is returned.  A table exists only if the snapshot has it.         *)

infer_schema(rows) ==
    IF rows = <<>> THEN IdColumn
    ELSE LET first == Head(rows).values
         IN  IdColumn @@ [c \in DOMAIN first \ {"id"} |-> Column(json_to_column_type(first[c]), FALSE, FALSE)]

RecoveryStep(acc, out) == [acc EXCEPT !.ok = out.ok = "ok", !.tab = out.tab]

restore_snapshot(rows) ==
    LET Restore(acc, r) ==
            LET values == ("id" :> RowIdValue(r.id))
                            @@ [c \in DOMAIN r.values \ {"id"} |-> json_to_value(r.values[c])]
            IN  IF acc.ok THEN RecoveryStep(acc, engine_insert(acc.tab, values)) ELSE acc
    IN  FoldLeft(Restore, [ok |-> TRUE, tab |-> StoreTable(infer_schema(rows)), pending |-> <<>>], rows)

apply_entry(acc, e) ==
    CASE ~acc.ok -> acc
      [] acc.ok /\ acc.tab = NoStore -> [acc EXCEPT !.ok = FALSE]
      [] acc.ok /\ acc.tab # NoStore /\ e.kind = "Insert" -> RecoveryStep(acc, engine_insert(acc.tab, e.values))
      [] acc.ok /\ acc.tab # NoStore /\ e.kind = "Update" -> RecoveryStep(acc, engine_update(acc.tab, e.id, e.values))
      [] acc.ok /\ acc.tab # NoStore /\ e.kind = "Delete" -> RecoveryStep(acc, RemoveRow(acc.tab, e.id))

ApplyPending(acc) == [FoldLeft(apply_entry, acc, acc.pending) EXCEPT !.pending = <<>>]

\* A commit applies, and a rollback drops, all that is pending; what is still
\* pending at the end is applied.
ReplayEntry(acc, e) ==
    CASE ~acc.ok -> acc
      [] acc.ok /\ e.kind = "Commit" -> ApplyPending(acc)
      [] acc.ok /\ e.kind = "Rollback" -> [acc EXCEPT !.pending = <<>>]
      [] acc.ok /\ e.kind \in {"Insert", "Update", "Delete"} -> [acc EXCEPT !.pending = Append(@, e)]

\* Variant: the entry at which the snapshot was taken is replayed too.
replay_wal_again(acc, wal, after) ==
    LET entries == SubSeq(wal, IF after = 0 THEN 1 ELSE after, Len(wal))
    IN  IF acc.ok THEN ApplyPending(FoldLeft(ReplayEntry, acc, entries)) ELSE acc

replay_wal(acc, wal, after) ==
    LET entries == SubSeq(wal, after + 1, Len(wal))
    IN  IF acc.ok THEN ApplyPending(FoldLeft(ReplayEntry, acc, entries)) ELSE acc

recover(snap, wal) ==
    IF snap = NoSnap
    THEN replay_wal([ok |-> TRUE, tab |-> NoStore, pending |-> <<>>], wal, 0)
    ELSE replay_wal(restore_snapshot(snap.rows), wal, snap.at)

----------------------------------------------------------------------------
(* A program that logs what it does to its table and takes snapshots, as   *)
(* the tests of the crate do.  A transaction's writes are undone by its    *)
(* rollback, the ids it used included.                                     *)

NewTables == {StoreTable(IdColumn @@ ("n" :> c)) : c \in StoreColumns}

StorageInit ==
    /\ st_mode \in {"plain", "transactions"}
    /\ st_tab \in NewTables
    /\ st_open = NoStore /\ st_wal = <<>> /\ st_snap = NoSnap

Logged(kind, i, values) == st_wal' = Append(st_wal, [kind |-> kind, id |-> i, values |-> values])

\* Writes inside a transaction: the table before the first of them is kept.
Written(kind, out, values) ==
    /\ Len(st_wal) < MaxLogged /\ out.ok = "ok"
    /\ st_tab' = out.tab
    /\ Logged(kind, out.id, values)
    /\ st_open' = IF st_mode = "transactions" /\ st_open = NoStore THEN st_tab ELSE st_open
    /\ UNCHANGED <<st_mode, st_snap>>

LogInsert ==
    \E row \in StoreRows :
        LET values == ("id" :> RowIdValue(st_tab.next)) @@ row
        IN  Written("Insert", engine_insert(st_tab, values), values)
LogUpdate ==
    \E i \in DOMAIN st_tab.rows, row \in StoreRows : Written("Update", engine_update(st_tab, i, row), row)
LogDelete == \E i \in DOMAIN st_tab.rows : Written("Delete", RemoveRow(st_tab, i), <<>>)

EndTransaction ==
    /\ st_open # NoStore /\ Len(st_wal) < MaxLogged
    /\ \/ Logged("Commit", 0, <<>>) /\ UNCHANGED st_tab
       \/ Logged("Rollback", 0, <<>>) /\ st_tab' = st_open
    /\ st_open' = NoStore
    /\ UNCHANGED <<st_mode, st_snap>>

\* The rows in any order, each value as JSON, with the number of the last entry;
\* `next` and `exact`, that JSON keeps every value, are not read by recovery.
create_snapshot ==
    /\ st_open = NoStore /\ st_snap = NoSnap
    /\ \E order \in SetToSeqs(DOMAIN st_tab.rows) :
         LET Saved(i) == [id |-> i, values |-> [c \in DOMAIN st_tab.rows[i] |-> to_json(st_tab.rows[i][c])]]
         IN  st_snap' = [rows |-> [k \in 1..Len(order) |-> Saved(order[k])], at |-> Len(st_wal),
                         next |-> st_tab.next,
                         exact |-> \A i \in DOMAIN st_tab.rows : \A c \in DOMAIN st_tab.rows[i] :
                                     json_to_value(to_json(st_tab.rows[i][c])) = st_tab.rows[i][c]]
    /\ UNCHANGED <<st_mode, st_tab, st_open, st_wal>>

StorageNext == LogInsert \/ LogUpdate \/ LogDelete \/ EndTransaction \/ create_snapshot

\* Nothing was deleted before the snapshot, its rows are in the order of their
\* ids, and JSON and the inferred schema keep their values and admit new ones.
Orderly(snap) ==
    /\ snap.exact /\ snap.next = Len(snap.rows) + 1
    /\ \A k \in 1..Len(snap.rows) :
         /\ snap.rows[k].id = k
         /\ json_to_column_type(snap.rows[k].values["n"]) = st_tab.schema["n"].type
         /\ snap.rows[k].values["n"].kind # "Null"
    /\ ~st_tab.schema["n"].nullable

(* Whenever the program crashes, RecoveryManager::recover rebuilds the     *)
(* rows, their ids and the next id from an orderly snapshot and the log    *)
(* behind it, with what was rolled back left out; a log without a snapshot *)
(* is refused rather than taken for an empty database.                     *)
StorageRecovers ==
    LET got == recover(st_snap, st_wal)
        kept == st_wal # <<>> /\ Last(st_wal).kind \notin {"Commit", "Rollback"}
    IN  /\ st_snap # NoSnap /\ Orderly(st_snap)
             => got.ok /\ got.tab.rows = st_tab.rows /\ got.tab.next = st_tab.next
        /\ st_snap = NoSnap /\ kept => ~got.ok

----------------------------------------------------------------------------
(* The memory store has no unique index; the facade is an engine with one  *)
(* table.  The same calls go to both.                                      *)

RouteRequests == {"GET", "POST", "PUT", "DELETE"} \X Paths

FacadeInit ==
    /\ me_tab = NoStore /\ fa_tab = NoStore /\ me_dup = FALSE /\ me_ops = 0
    /\ me_got = [mem |-> NotFound, fac |-> NotFound]
    /\ rt_routes = <<>> /\ rt_told = [r \in RouteRequests |-> NotFound]

Called == me_ops < MaxStoreOps /\ me_ops' = me_ops + 1 /\ UNCHANGED <<rt_routes, rt_told>>

create_table ==
    /\ Called /\ me_tab = NoStore
    /\ \E t \in NewTables : me_tab' = t /\ fa_tab' = t
    /\ me_dup' = FALSE
    /\ UNCHANGED me_got

drop_table ==
    /\ Called /\ me_tab # NoStore
    /\ me_tab' = NoStore /\ fa_tab' = NoStore
    /\ UNCHANGED <<me_got, me_dup>>

\* Variant: validates nothing.
mem_insert_any(t, values) == PlaceRow(t, values)

mem_insert(t, values) == IF RowFits(t.schema, values) THEN PlaceRow(t, values) ELSE StoreOutcome("invalid", 0, t)

OnBoth(mem, fac) ==
    /\ me_tab' = mem.tab /\ fa_tab' = fac.tab
    /\ me_got' = [mem |-> <<mem.ok, mem.id>>, fac |-> <<fac.ok, fac.id>>]
    /\ me_dup' = (me_dup \/ fac.ok = "duplicate")

BothCalled ==
    /\ Called /\ me_tab # NoStore
    /\ \/ \E row \in StoreRows, k \in 1..2 :
             LET values == ("id" :> RowIdValue(k)) @@ row
             IN  OnBoth(mem_insert(me_tab, values), engine_insert(fa_tab, values))
       \/ \E i \in 1..2, row \in StoreRows : OnBoth(ChangeRow(me_tab, i, row), engine_update(fa_tab, i, row))
       \/ \E i \in 1..2 : OnBoth(RemoveRow(me_tab, i), RemoveRow(fa_tab, i))

----------------------------------------------------------------------------
(* Routes: the first that fits answers.                                    *)

handle(routes, req) ==
    LET fits == {k \in 1..Len(routes) : routes[k].req = req}
    IN  IF fits = {} THEN NotFound ELSE routes[Min(fits)].handler

register_route ==
    /\ Len(rt_routes) < MaxRoutes
    /\ \E req \in RouteRequests, h \in Handlers : rt_routes' = Append(rt_routes, [req |-> req, handler |-> h])
    /\ UNCHANGED <<me_tab, fa_tab, me_got, me_dup, me_ops, rt_told>>

HandleRequest ==
    /\ \E req \in RouteRequests :
         /\ rt_told[req] = NotFound
         /\ rt_told' = [rt_told EXCEPT ![req] = handle(rt_routes, req)]
    /\ UNCHANGED <<me_tab, fa_tab, me_got, me_dup, me_ops, rt_routes>>

FacadeNext == create_table \/ drop_table \/ BothCalled
RouteNext == register_route \/ HandleRequest

(* Until the engine of the table facade refuses a taken key, which the     *)
(* memory store accepts, both hold the same rows under the same ids and    *)
(* answer alike; and a route that has answered a request answers it for    *)
(* good, whatever is registered later.                                     *)
FacadesAgree ==
    /\ ~me_dup => me_tab = fa_tab /\ me_got.mem = me_got.fac
    /\ \A req \in RouteRequests : rt_told[req] # NotFound => handle(rt_routes, req) = rt_told[req]
=============================================================================
