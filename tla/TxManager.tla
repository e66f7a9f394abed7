------------------------------ MODULE TxManager ------------------------------
(***************************************************************************)
(* TransactionManager and Transaction (blitz-tx): optimistic transactions  *)
(* over the live table engine.  A transaction records versions when it     *)
(* reads and buffers its writes; commit locks the stripes of the rows it   *)
(* touches in index order, validates, claims a sequence number, applies    *)
(* the writes to the engine one at a time, stamps the versions and         *)
(* releases.  Requests outside transactions (dispatch in transport.rs)     *)
(* write to the same engine without any of that.                           *)
(*                                                                         *)
(* Each step below is one atomic step of the code: a lock, a section under *)
(* the versions RwLock, an atomic counter, or one engine call, which runs  *)
(* under the table's own lock.                                             *)
(***************************************************************************)
EXTENDS Table, Sequences, FiniteSets, FiniteSetsExt

CONSTANTS
    Txs,           \* transactions, each with the thread that runs it
    RepeatableRead,\* the ones at RepeatableRead or Serializable: the code
                   \* treats these two alike, and the two lower levels alike
    Checked,       \* the ones of execute_atomic and ProcBackend, which read a
                   \* row before they buffer an update or a delete of it
    RowInputs,     \* the values clients write
    InitTable,     \* the table when the first transaction begins
    MaxId,         \* bound: row ids
    MaxWrites,     \* bound: writes buffered by one transaction
    MaxReads,      \* bound: reads recorded by one transaction
    MaxDirect,     \* bound: writes outside transactions
    Stripes,       \* stripe numbers
    stripe_index   \* row id -> stripe (the hash)

Ids == 1 .. MaxId

\* A stripe that no commit holds.
Free == "free"

ASSUME TxAssumption ==
    /\ IsFiniteSet(Txs) /\ Free \notin Txs
    /\ RepeatableRead \subseteq Txs /\ Checked \subseteq Txs
    /\ MaxId \in Nat /\ MaxWrites \in Nat /\ MaxReads \in Nat /\ MaxDirect \in Nat
    /\ RowInputs \subseteq Values
    /\ IsTable(InitTable) /\ IndexSound(InitTable) /\ IndexComplete(InitTable)
    /\ \A i \in DOMAIN InitTable.rows : i < InitTable.next_id
    /\ InitTable.next_id <= MaxId + 1
    /\ Stripes \subseteq Nat
    /\ stripe_index \in [Ids -> Stripes]

VARIABLES
    tab,         \* the shared table
    commit_seq,  \* last commit sequence number claimed
    versions,    \* row id -> sequence number of its last stamped writer
    stripes,     \* stripe -> the transaction that holds it, or Free
    pc,          \* transaction -> where its thread is
    state,       \* transaction -> "Active", "Committed" or "RolledBack"
    start_seq,   \* transaction -> commit_seq when it began
    writes,      \* transaction -> buffered (then: not yet drained) writes
    read_set,    \* transaction -> {[id, version, mod, live]}: the version,
                 \* and as history which change of the row was seen, if any
    reading,     \* transaction -> the get in progress: [id, version]
    found,       \* transaction -> the row its last get found
    seq,         \* transaction -> sequence number it claimed
    touched,     \* transaction -> rows it has written so far
    outcome,     \* transaction -> what commit answered
    mods,        \* history: row id -> number of times the row changed
    direct       \* writes outside transactions so far

vars == <<tab, commit_seq, versions, stripes, pc, state, start_seq, writes, read_set,
          reading, found, seq, touched, outcome, mods, direct>>

WriteOps == [op : {"insert"}, id : {NoRow}, values : RowInputs]
       \cup [op : {"update"}, id : Ids,     values : RowInputs]
       \cup [op : {"delete"}, id : Ids,     values : {<<>>}]

Running == {"claiming", "applying", "stamping"}

TypeOK ==
    /\ IsTable(tab)
    /\ commit_seq \in Nat
    /\ versions \in [Ids -> Nat]
    /\ stripes \in [Stripes -> Txs \cup {Free}]
    /\ pc \in [Txs -> {"new", "active", "reading", "locking", "validating", "done"}
                         \cup Running]
    /\ state \in [Txs -> {"Active", "Committed", "RolledBack"}]
    /\ start_seq \in [Txs -> Nat]
    /\ writes \in [Txs -> Seq(WriteOps)]
    /\ read_set \in [Txs -> SUBSET [id : Ids, version : Nat, mod : Nat, live : BOOLEAN]]
    /\ reading \in [Txs -> [id : Ids \cup {NoRow}, version : Nat]]
    /\ found \in [Txs -> Ids \cup {NoRow}]
    /\ seq \in [Txs -> Nat]
    /\ touched \in [Txs -> SUBSET Ids]
    /\ outcome \in [Txs -> {"none", "ok", "conflict", "error", "rolled_back"}]
    /\ mods \in [Ids -> Nat]
    /\ direct \in Nat

Init ==
    /\ tab = InitTable
    /\ commit_seq = 0
    /\ versions = [i \in Ids |-> 0]
    /\ stripes = [s \in Stripes |-> Free]
    /\ pc = [t \in Txs |-> "new"]
    /\ state = [t \in Txs |-> "Active"]
    /\ start_seq = [t \in Txs |-> 0]
    /\ writes = [t \in Txs |-> <<>>]
    /\ read_set = [t \in Txs |-> {}]
    /\ reading = [t \in Txs |-> [id |-> NoRow, version |-> 0]]
    /\ found = [t \in Txs |-> NoRow]
    /\ seq = [t \in Txs |-> 0]
    /\ touched = [t \in Txs |-> {}]
    /\ outcome = [t \in Txs |-> "none"]
    /\ mods = [i \in Ids |-> 0]
    /\ direct = 0

shared == <<tab, commit_seq, versions, mods, direct>>
committing == <<stripes, seq, touched>>

-----------------------------------------------------------------------------
(* The transaction's own life: begin, get, buffer, rollback.               *)

begin(t) ==
    /\ pc[t] = "new"
    /\ pc' = [pc EXCEPT ![t] = "active"]
    /\ start_seq' = [start_seq EXCEPT ![t] = commit_seq]
    /\ UNCHANGED <<shared, committing, state, writes, read_set, reading, found, outcome>>

\* The newest buffered update or delete of the row: "none" without one.
Buffered(t, i) ==
    LET mine == {k \in DOMAIN writes[t] : writes[t][k].id = i}
    IN  IF mine = {} THEN "none" ELSE writes[t][Max(mine)].op

\* get, first half: the version is read before the row.
GetVersion(t, i) ==
    /\ pc[t] = "active"
    /\ Cardinality(read_set[t]) < MaxReads
    /\ pc' = [pc EXCEPT ![t] = "reading"]
    /\ reading' = [reading EXCEPT ![t] = [id |-> i, version |-> versions[i]]]
    /\ found' = [found EXCEPT ![t] = NoRow]
    /\ UNCHANGED <<shared, committing, state, start_seq, writes, read_set, outcome>>

\* get, second half: the row, seen through the transaction's own writes.  The
\* read is recorded, except when a row with a pending update has vanished.
GetRow(t) ==
    LET i == reading[t].id
        live == i \in DOMAIN tab.rows
    IN  /\ pc[t] = "reading"
        /\ pc' = [pc EXCEPT ![t] = "active"]
        /\ read_set' = IF Buffered(t, i) = "update" /\ ~live
                       THEN read_set
                       ELSE [read_set EXCEPT ![t] = @ \cup
                               {[id |-> i, version |-> reading[t].version,
                                 mod |-> mods[i], live |-> live]}]
        /\ found' = [found EXCEPT ![t] =
                        IF live /\ Buffered(t, i) # "delete" THEN i ELSE NoRow]
        /\ UNCHANGED <<shared, committing, state, start_seq, writes, reading, outcome>>

Buffer(t, w) ==
    /\ pc[t] = "active"
    /\ Len(writes[t]) < MaxWrites
    /\ writes' = [writes EXCEPT ![t] = Append(@, w)]
    /\ found' = [found EXCEPT ![t] = NoRow]
    /\ UNCHANGED <<shared, committing, pc, state, start_seq, read_set, reading, outcome>>

\* The ids of the instance suffice for one more insert (a bound, not code).
IdsLeft ==
    LET pending == {p \in Txs \X (1 .. MaxWrites) :
                       p[2] \in DOMAIN writes[p[1]] /\ writes[p[1]][p[2]].op = "insert"}
    IN  tab.next_id + Cardinality(pending) <= MaxId

\* execute_atomic and ProcBackend::check_unique: no value of a column declared
\* unique (a primary key need not be) was given to an earlier insert of the
\* transaction, null included, or is in the table now.
UniquePreChecked(t, values) ==
    t \in Checked =>
        \A c \in {c \in DOMAIN values : Schema[c].unique} :
            /\ \A k \in DOMAIN writes[t] :
                  writes[t][k].op = "insert" /\ c \in DOMAIN writes[t][k].values
                     => writes[t][k].values[c] # values[c]
            /\ lookup_by_unique(tab, c, values[c]) = NoRow

\* Transaction::insert.
BufferInsert(t, values) ==
    /\ IdsLeft
    /\ UniquePreChecked(t, values)
    /\ Buffer(t, [op |-> "insert", id |-> NoRow, values |-> values])

\* Variant: the row is not read before it is changed.
PreChecked_none(t, i) == TRUE

\* execute_atomic and ProcBackend go on only when their get found the row.
PreChecked(t, i) == t \in Checked => found[t] = i

\* Transaction::update.
BufferUpdate(t, i, values) ==
    /\ PreChecked(t, i)
    /\ Buffer(t, [op |-> "update", id |-> i, values |-> values])

\* Transaction::delete.
BufferDelete(t, i) ==
    /\ PreChecked(t, i)
    /\ Buffer(t, [op |-> "delete", id |-> i, values |-> <<>>])

rollback(t) ==
    /\ pc[t] = "active"
    /\ pc' = [pc EXCEPT ![t] = "done"]
    /\ state' = [state EXCEPT ![t] = "RolledBack"]
    /\ writes' = [writes EXCEPT ![t] = <<>>]
    /\ outcome' = [outcome EXCEPT ![t] = "rolled_back"]
    /\ UNCHANGED <<shared, committing, start_seq, read_set, reading, found>>

-----------------------------------------------------------------------------
(* commit.                                                                 *)

\* Variant: only the rows that are written are locked.
commit_stripes_writes_only(t) ==
    {stripe_index[writes[t][k].id] :
        k \in {k \in DOMAIN writes[t] : writes[t][k].op # "insert"}}

\* The stripes of the updated and deleted rows and, for repeatable reads,
\* of the rows read.
commit_stripes(t) ==
    {stripe_index[writes[t][k].id] :
        k \in {k \in DOMAIN writes[t] : writes[t][k].op # "insert"}}
    \cup
    {stripe_index[r.id] : r \in IF t \in RepeatableRead THEN read_set[t] ELSE {}}

Held(t) == {s \in Stripes : stripes[s] = t}

\* A transaction without writes commits at once, unlocked and unvalidated.
CommitReadOnly(t) ==
    /\ pc[t] = "active"
    /\ writes[t] = <<>>
    /\ pc' = [pc EXCEPT ![t] = "done"]
    /\ state' = [state EXCEPT ![t] = "Committed"]
    /\ outcome' = [outcome EXCEPT ![t] = "ok"]
    /\ UNCHANGED <<shared, committing, start_seq, writes, read_set, reading, found>>

CommitStart(t) ==
    /\ pc[t] = "active"
    /\ writes[t] # <<>>
    /\ pc' = [pc EXCEPT ![t] = "locking"]
    /\ UNCHANGED <<shared, committing, state, start_seq, writes, read_set, reading, found,
                   outcome>>

\* Variant: the stripes are locked in any order.
LockStripe_unsorted(t) ==
    /\ pc[t] = "locking"
    /\ \E s \in commit_stripes(t) \ Held(t) :
          /\ stripes[s] = Free
          /\ stripes' = [stripes EXCEPT ![s] = t]
    /\ UNCHANGED <<shared, seq, touched, pc, state, start_seq, writes, read_set, reading,
                   found, outcome>>

\* The next stripe in index order, once its holder lets go.
LockStripe(t) ==
    /\ pc[t] = "locking"
    /\ commit_stripes(t) \ Held(t) # {}
    /\ LET s == Min(commit_stripes(t) \ Held(t))
       IN  /\ stripes[s] = Free
           /\ stripes' = [stripes EXCEPT ![s] = t]
    /\ UNCHANGED <<shared, seq, touched, pc, state, start_seq, writes, read_set, reading,
                   found, outcome>>

AllLocked(t) ==
    /\ pc[t] = "locking"
    /\ commit_stripes(t) \subseteq Held(t)
    /\ pc' = [pc EXCEPT ![t] = "validating"]
    /\ UNCHANGED <<shared, committing, state, start_seq, writes, read_set, reading, found,
                   outcome>>

\* The guards are dropped when commit returns.
Release(t) == stripes' = [s \in Stripes |-> IF stripes[s] = t THEN Free ELSE stripes[s]]

\* A row read at repeatable read has another version by now.
StaleRead(t) ==
    t \in RepeatableRead /\ \E r \in read_set[t] : versions[r.id] # r.version

\* Variant: a row written by the commit right after the snapshot passes.
WriteConflict_off_by_one(t) ==
    \E k \in DOMAIN writes[t] :
        writes[t][k].op # "insert" /\ versions[writes[t][k].id] > start_seq[t] + 1

\* Variant: versions are kept per stripe.
WriteConflict_per_stripe(t) ==
    \E k \in DOMAIN writes[t], i \in Ids :
        /\ writes[t][k].op # "insert"
        /\ stripe_index[i] = stripe_index[writes[t][k].id]
        /\ versions[i] > start_seq[t]

\* A row to be updated or deleted was stamped after this transaction began.
WriteConflict(t) ==
    \E k \in DOMAIN writes[t] :
        writes[t][k].op # "insert" /\ versions[writes[t][k].id] > start_seq[t]

ValidateConflict(t) ==
    /\ pc[t] = "validating"
    /\ StaleRead(t) \/ WriteConflict(t)
    /\ pc' = [pc EXCEPT ![t] = "done"]
    /\ state' = [state EXCEPT ![t] = "RolledBack"]
    /\ writes' = [writes EXCEPT ![t] = <<>>]
    /\ outcome' = [outcome EXCEPT ![t] = "conflict"]
    /\ Release(t)
    /\ UNCHANGED <<shared, seq, touched, start_seq, read_set, reading, found>>

ValidateOk(t) ==
    /\ pc[t] = "validating"
    /\ ~StaleRead(t) /\ ~WriteConflict(t)
    /\ pc' = [pc EXCEPT ![t] = "claiming"]
    /\ UNCHANGED <<shared, committing, state, start_seq, writes, read_set, reading, found,
                   outcome>>

\* One sequence number for the whole commit: fetch_add.
ClaimSeq(t) ==
    /\ pc[t] = "claiming"
    /\ commit_seq' = commit_seq + 1
    /\ seq' = [seq EXCEPT ![t] = commit_seq + 1]
    /\ pc' = [pc EXCEPT ![t] = "applying"]
    /\ UNCHANGED <<tab, versions, mods, direct, stripes, touched, state, start_seq, writes,
                   read_set, reading, found, outcome>>

\* The engine call a buffered write makes.
EngineCall(w) ==
    CASE w.op = "insert" -> insert(tab, w.values)
      [] w.op = "update" -> update(tab, w.id, w.values)
      [] w.op = "delete" -> take(tab, w.id)

\* Deleting a row that is gone is Ok(false), not an error.
Failed(w) ==
    w.op # "delete" /\ EngineCall(w).res # "ok"

\* The row a write concerns; an insert learns its id from the engine.
RowOf(w) == IF w.op = "insert" THEN EngineCall(w).id ELSE w.id

\* The engine's rows that a call changed.
Changed(i) == mods' = [mods EXCEPT ![i] = @ + 1]

\* Draining: one buffered write reaches the engine.
ApplyWrite(t) ==
    LET w == Head(writes[t])
    IN  /\ pc[t] = "applying"
        /\ w.op = "insert" => tab.next_id <= MaxId
        /\ ~Failed(w)
        /\ tab' = EngineCall(w).tab
        /\ IF EngineCall(w).res = "ok" THEN Changed(RowOf(w)) ELSE UNCHANGED mods
        /\ touched' = [touched EXCEPT ![t] = @ \cup {RowOf(w)}]
        /\ writes' = [writes EXCEPT ![t] = Tail(@)]
        /\ pc' = [pc EXCEPT ![t] = IF Len(writes[t]) = 1 THEN "stamping" ELSE @]
        /\ UNCHANGED <<commit_seq, versions, direct, stripes, seq, state, start_seq, read_set,
                       reading, found, outcome>>

\* The `?` of the drain loop: commit returns, the remaining writes are
\* dropped with the iterator, the ones applied stay, nothing is stamped and
\* the transaction still says Active.
ApplyFails(t) ==
    /\ pc[t] = "applying"
    /\ Failed(Head(writes[t]))
    /\ pc' = [pc EXCEPT ![t] = "done"]
    /\ writes' = [writes EXCEPT ![t] = <<>>]
    /\ outcome' = [outcome EXCEPT ![t] = "error"]
    /\ Release(t)
    /\ UNCHANGED <<shared, seq, touched, state, start_seq, read_set, reading, found>>

\* versions.insert for every touched row, then the transaction is committed.
Stamp(t) ==
    /\ pc[t] = "stamping"
    /\ versions' = [i \in Ids |-> IF i \in touched[t] THEN seq[t] ELSE versions[i]]
    /\ pc' = [pc EXCEPT ![t] = "done"]
    /\ state' = [state EXCEPT ![t] = "Committed"]
    /\ outcome' = [outcome EXCEPT ![t] = "ok"]
    /\ Release(t)
    /\ UNCHANGED <<tab, commit_seq, mods, direct, seq, touched, start_seq, writes, read_set,
                   reading, found>>

-----------------------------------------------------------------------------
(* Requests outside transactions: the engine call of dispatch.             *)

DirectWrite(w) ==
    /\ direct < MaxDirect
    /\ w.op = "insert" => IdsLeft
    /\ EngineCall(w).res = "ok"
    /\ direct' = direct + 1
    /\ tab' = EngineCall(w).tab
    /\ Changed(RowOf(w))
    /\ UNCHANGED <<commit_seq, versions, committing, pc, state, start_seq, writes, read_set,
                   reading, found, outcome>>

-----------------------------------------------------------------------------
TxStep(t) ==
    \/ begin(t)
    \/ \E i \in Ids : GetVersion(t, i)
    \/ GetRow(t)
    \/ \E values \in RowInputs :
          \/ BufferInsert(t, values)
          \/ \E i \in Ids : BufferUpdate(t, i, values)
    \/ \E i \in Ids : BufferDelete(t, i)
    \/ rollback(t)
    \/ CommitReadOnly(t)
    \/ CommitStart(t)

CommitStep(t) ==
    \/ LockStripe(t)
    \/ AllLocked(t)
    \/ ValidateConflict(t)
    \/ ValidateOk(t)
    \/ ClaimSeq(t)
    \/ ApplyWrite(t)
    \/ ApplyFails(t)
    \/ Stamp(t)

\* Every transaction of the instance is over.
Finished ==
    /\ \A t \in Txs : pc[t] = "done"
    /\ UNCHANGED vars

Next ==
    \/ \E t \in Txs : TxStep(t) \/ CommitStep(t)
    \/ \E w \in WriteOps : DirectWrite(w)
    \/ Finished

Spec == Init /\ [][Next]_vars

(***************************************************************************)
(* Once a commit has begun its thread keeps running; it waits only for     *)
(* stripes, whose holders are commits too.                                 *)
(***************************************************************************)
CommitFairness == \A t \in Txs : WF_vars(CommitStep(t))

-----------------------------------------------------------------------------
(* Properties.                                                             *)

(***************************************************************************)
(* No lost update at repeatable read: from the end of validation until the *)
(* commit is stamped, every row the transaction found is as it found it,   *)
(* unless the transaction itself has rewritten it.  This is what the       *)
(* version-before-row order of get, the read-set validation and the        *)
(* stripes of the read rows are there for (manager.rs).  A get that missed *)
(* is left out: an insert takes no stripe, so the row may appear.          *)
(***************************************************************************)
ReadsCurrent ==
    \A t \in RepeatableRead : pc[t] \in Running =>
        \A r \in read_set[t] :
            r.live => mods[r.id] = r.mod \/ r.id \in touched[t]

(***************************************************************************)
(* All or nothing: a commit that answers an error has written nothing      *)
(* (execute_atomic: "all responses ok, or every response err and nothing   *)
(* applied").                                                              *)
(***************************************************************************)
AllOrNothing ==
    \A t \in Txs : outcome[t] \in {"conflict", "error"} => touched[t] = {}

(***************************************************************************)
(* First committer wins, blind writes included: when a commit has passed   *)
(* validation, no row it is about to update or delete was written by a     *)
(* commit with a sequence number after the one it began at.                *)
(***************************************************************************)
WriteWriteRejected ==
    \A t, u \in Txs :
        pc[t] \in Running /\ outcome[u] = "ok" =>
            \A k \in DOMAIN writes[t] :
                writes[t][k].op # "insert" /\ writes[t][k].id \in touched[u]
                    => seq[u] <= start_seq[t]

\* The rows a transaction has read or means to change.
RowsOf(t) == {r.id : r \in read_set[t]} \cup {writes[t][k].id : k \in DOMAIN writes[t]}

(***************************************************************************)
(* Commits on disjoint rows never conflict, even when their rows share a   *)
(* stripe: a transaction is turned away only if another one committed a    *)
(* write to one of its rows.                                               *)
(***************************************************************************)
ConflictHasCause ==
    [][\A t \in Txs :
          outcome'[t] = "conflict" /\ outcome[t] # "conflict" =>
             \E u \in Txs \ {t} : outcome[u] = "ok" /\ touched[u] \cap RowsOf(t) # {}]_vars

(***************************************************************************)
(* Commits do not wait for each other forever: the sorted stripe order     *)
(* (manager.rs, "deadlock-free acquisition") lets every commit finish.     *)
(***************************************************************************)
CommitTerminates == \A t \in Txs : pc[t] = "locking" ~> pc[t] = "done"
=============================================================================
