--------------------------- MODULE TxManager_proofs ---------------------------
(***************************************************************************)
(* What optimistic commit guarantees, for every number of transactions,    *)
(* rows and stripes, every schema and every mix of isolation levels.       *)
(***************************************************************************)
EXTENDS TxManager, Table_proofs, FiniteSetTheorems

\* The table is consistent and its allocator is ahead of its rows.
TableInv ==
    /\ GoodTable(tab)
    /\ \A i \in DOMAIN tab.rows : i < tab.next_id
    /\ tab.next_id <= MaxId + 1

\* What a transaction has done by the point its thread has reached.
ControlInv ==
    \A t \in Txs :
        /\ pc[t] \in {"locking", "validating", "claiming", "applying"} => writes[t] # <<>>
        /\ pc[t] = "reading" => reading[t].id \in Ids
        /\ pc[t] # "done" => outcome[t] = "none"
        /\ pc[t] \notin {"applying", "stamping", "done"} => touched[t] = {}

TypeInv == TypeOK /\ TableInv /\ ControlInv

(***************************************************************************)
(* What a buffered write holds.                                            *)
(***************************************************************************)
LEMMA WriteOpCases ==
    ASSUME NEW w \in WriteOps
    PROVE  \/ w.op = "insert" /\ w.values \in Values /\ w.values \in RowInputs
           \/ w.op = "update" /\ w.id \in Ids /\ w.values \in Values /\ w.values \in RowInputs
           \/ w.op = "delete" /\ w.id \in Ids
BY TxAssumption DEF WriteOps

LEMMA IdsAreRowIds == \A i \in Ids : i \in RowId
BY TxAssumption DEF Ids, RowId, NoRow

(***************************************************************************)
(* One engine call of a commit or a direct write: it keeps the table       *)
(* consistent, moves the allocator only forward and changes the presence   *)
(* of no row but its own; an insert gets the allocator's id, an update     *)
(* keeps its row.                                                          *)
(***************************************************************************)
EngineCallGood(w) ==
    LET e == EngineCall(w)
    IN  /\ GoodTable(e.tab)
        /\ \A i \in DOMAIN e.tab.rows : i < e.tab.next_id
        /\ e.tab.next_id <= MaxId + 1
        /\ e.tab.next_id >= tab.next_id
        /\ ~Failed(w) => RowOf(w) \in Ids
        /\ \A i \in DOMAIN tab.rows :
              i \in DOMAIN e.tab.rows \/ (w.op = "delete" /\ w.id = i /\ e.res = "ok")
        /\ \A i \in DOMAIN e.tab.rows :
              i \in DOMAIN tab.rows \/ (w.op = "insert" /\ RowOf(w) = i /\ e.res = "ok")
        /\ w.op = "insert" /\ e.res = "ok" => RowOf(w) = tab.next_id
        /\ w.op # "insert" => RowOf(w) = w.id

LEMMA EngineCallKeeps ==
    ASSUME TableInv, NEW w \in WriteOps, w.op = "insert" => tab.next_id <= MaxId
    PROVE  EngineCallGood(w)
<1>0. /\ IsTable(tab) /\ tab.next_id \in RowId /\ MaxId \in Nat
      /\ tab.next_id \notin DOMAIN tab.rows
      /\ DOMAIN tab.rows \subseteq RowId
  BY TxAssumption DEF TableInv, GoodTable, IsTable, RowId, NoRow
<1>1. CASE w.op = "insert"
  <2>1. w.values \in Values
    BY <1>1, WriteOpCases
  <2>2. EngineCall(w) = insert(tab, w.values)
    BY <1>1 DEF EngineCall
  <2>3. GoodTable(insert(tab, w.values).tab)
    BY <1>0, <2>1, InsertGood DEF TableInv
  <2> DEFINE ok == [rows    |-> PutRow(tab.rows, tab.next_id, w.values),
                    next_id |-> tab.next_id + 1,
                    uniq    |-> index_row(tab.uniq, tab.next_id, w.values)]
  <2>4. \/ EngineCall(w).res = "ok" /\ EngineCall(w).id = tab.next_id
           /\ EngineCall(w).tab = ok
        \/ EngineCall(w).res # "ok" /\ EngineCall(w).tab = tab
    BY <2>2 DEF insert, insert_unchecked, Outcome
  <2>5. DOMAIN ok.rows = DOMAIN tab.rows \cup {tab.next_id} /\ ok.next_id = tab.next_id + 1
    BY DEF PutRow
  <2> HIDE DEF ok
  <2>6. tab.next_id \in Ids
    BY <1>0, <1>1 DEF Ids, RowId, NoRow
  <2> QED BY <1>0, <1>1, <2>2, <2>3, <2>4, <2>5, <2>6
          DEF EngineCallGood, TableInv, Failed, RowOf, Ids, RowId, NoRow
<1>2. CASE w.op = "update"
  <2>1. w.values \in Values /\ w.id \in Ids /\ w.id \in RowId
    BY <1>2, WriteOpCases, IdsAreRowIds
  <2>2. EngineCall(w) = update(tab, w.id, w.values)
    BY <1>2 DEF EngineCall
  <2>3. GoodTable(update(tab, w.id, w.values).tab)
    BY <1>0, <2>1, UpdateGood DEF TableInv
  <2>4. DOMAIN EngineCall(w).tab.rows = DOMAIN tab.rows
        /\ EngineCall(w).tab.next_id = tab.next_id
    BY <2>2 DEF update, Outcome, PutRow
  <2> QED BY <1>0, <1>2, <2>1, <2>2, <2>3, <2>4
          DEF EngineCallGood, TableInv, Failed, RowOf, Ids, RowId, NoRow
<1>3. CASE w.op = "delete"
  <2>1. w.id \in Ids /\ w.id \in RowId
    BY <1>3, WriteOpCases, IdsAreRowIds
  <2>2. EngineCall(w) = take(tab, w.id)
    BY <1>3 DEF EngineCall
  <2>3. GoodTable(take(tab, w.id).tab)
    BY <1>0, <2>1, TakeGood DEF TableInv
  <2>4. /\ DOMAIN EngineCall(w).tab.rows = DOMAIN tab.rows \ {w.id}
        /\ EngineCall(w).tab.next_id = tab.next_id
        /\ w.id \in DOMAIN tab.rows => EngineCall(w).res = "ok"
    BY <2>2 DEF take, Outcome, DropRow
  <2> QED BY <1>0, <1>3, <2>1, <2>2, <2>3, <2>4
          DEF EngineCallGood, TableInv, Failed, RowOf, Ids, RowId, NoRow
<1> QED BY <1>1, <1>2, <1>3, WriteOpCases

(***************************************************************************)
(* The writes that wait for ids are finitely many, so ids left over means  *)
(* that the allocator's next id is one of the instance.                    *)
(***************************************************************************)
LEMMA IdsLeftMeans ==
    ASSUME TypeInv, IdsLeft
    PROVE  tab.next_id <= MaxId
<1> DEFINE pending == {p \in Txs \X (1 .. MaxWrites) :
                p[2] \in DOMAIN writes[p[1]] /\ writes[p[1]][p[2]].op = "insert"}
<1>1. IsFiniteSet(1 .. MaxWrites) /\ IsFiniteSet(Txs)
  <2>1. MaxWrites \in Nat /\ IsFiniteSet(Txs)
    BY TxAssumption
  <2>2. 1 \in Int /\ MaxWrites \in Int
    BY <2>1
  <2>3. IsFiniteSet(1 .. MaxWrites)
    BY ONLY <2>2, FS_Interval
  <2> QED BY <2>1, <2>3
<1>2. IsFiniteSet(Txs \X (1 .. MaxWrites))
  BY <1>1, FS_Product
<1>3. IsFiniteSet(pending)
  BY <1>2, FS_Subset
<1>4. Cardinality(pending) \in Nat
  BY <1>3, FS_CardinalityType
<1>5. tab.next_id + Cardinality(pending) <= MaxId
  BY DEF IdsLeft
<1>6. tab.next_id \in Nat /\ MaxId \in Nat
  BY TxAssumption DEF TypeInv, TableInv, GoodTable, IsTable, RowId
<1> QED BY <1>4, <1>5, <1>6

LEMMA TypeInit == Init => TypeInv
<1> SUFFICES ASSUME Init PROVE TypeInv
  OBVIOUS
<1>1. TableInv
  BY TxAssumption DEF Init, TableInv, GoodTable
<1>2. TypeOK
  BY TxAssumption DEF Init, TypeOK, Running
<1>3. ControlInv
  BY DEF Init, ControlInv
<1> QED BY <1>1, <1>2, <1>3 DEF TypeInv

(***************************************************************************)
(* Every step keeps the types, the table and the bookkeeping of commit.    *)
(***************************************************************************)
LEMMA TypeStep == TypeInv /\ [Next]_vars => TypeInv'
<1> SUFFICES ASSUME TypeInv, [Next]_vars PROVE TypeInv'
  OBVIOUS
<1> USE DEF TypeInv
<1>0. TypeOK /\ TableInv /\ ControlInv
  OBVIOUS
<1>1. ASSUME NEW t \in Txs, begin(t) PROVE TypeInv'
  BY <1>0, <1>1 DEF begin, shared, committing, TypeOK, TableInv, ControlInv, Running
<1>2. ASSUME NEW t \in Txs, NEW i \in Ids, GetVersion(t, i) PROVE TypeInv'
  BY <1>0, <1>2 DEF GetVersion, shared, committing, TypeOK, TableInv, ControlInv, Running
<1>3. ASSUME NEW t \in Txs, GetRow(t) PROVE TypeInv'
  <2> DEFINE i == reading[t].id
             r == [id |-> i, version |-> reading[t].version,
                   mod |-> mods[i], live |-> i \in DOMAIN tab.rows]
  <2>1. i \in Ids /\ reading[t].version \in Nat /\ mods[i] \in Nat
    BY <1>0, <1>3 DEF GetRow, TypeOK, ControlInv
  <2>2. r \in [id : Ids, version : Nat, mod : Nat, live : BOOLEAN]
    BY <2>1
  <2>3. read_set' = read_set \/ read_set' = [read_set EXCEPT ![t] = @ \cup {r}]
    BY <1>3 DEF GetRow
  <2>4. found' = [found EXCEPT ![t] = i] \/ found' = [found EXCEPT ![t] = NoRow]
    BY <1>3 DEF GetRow
  <2> HIDE DEF r, i
  <2>5. read_set' \in [Txs -> SUBSET [id : Ids, version : Nat, mod : Nat, live : BOOLEAN]]
    <3> DEFINE R == [id : Ids, version : Nat, mod : Nat, live : BOOLEAN]
    <3>1. read_set \in [Txs -> SUBSET R] /\ r \in R
      BY <1>0, <2>2 DEF TypeOK
    <3> HIDE DEF R
    <3>2. read_set' \in [Txs -> SUBSET R]
      BY <2>3, <3>1
    <3> QED BY <3>2 DEF R
  <2>6. found' \in [Txs -> Ids \cup {NoRow}]
    <3>1. found \in [Txs -> Ids \cup {NoRow}]
      BY <1>0 DEF TypeOK
    <3> QED BY <2>1, <2>4, <3>1
  <2> QED BY <1>0, <1>3, <2>5, <2>6
          DEF GetRow, shared, committing, TypeOK, TableInv, ControlInv, Running
<1>4. ASSUME NEW t \in Txs, NEW w \in WriteOps, Buffer(t, w) PROVE TypeInv'
  <2>1. Append(writes[t], w) \in Seq(WriteOps)
    BY <1>0, <1>4 DEF TypeOK
  <2> QED BY <1>0, <1>4, <2>1 DEF Buffer, shared, committing, TypeOK, TableInv, ControlInv, Running
<1>5. ASSUME NEW t \in Txs, rollback(t) PROVE TypeInv'
  BY <1>0, <1>5 DEF rollback, shared, committing, TypeOK, TableInv, ControlInv, Running
<1>6. ASSUME NEW t \in Txs, CommitReadOnly(t) PROVE TypeInv'
  BY <1>0, <1>6 DEF CommitReadOnly, shared, committing, TypeOK, TableInv, ControlInv, Running
<1>7. ASSUME NEW t \in Txs, CommitStart(t) PROVE TypeInv'
  BY <1>0, <1>7 DEF CommitStart, shared, committing, TypeOK, TableInv, ControlInv, Running
<1>8. ASSUME NEW t \in Txs, LockStripe(t) PROVE TypeInv'
  BY <1>0, <1>8 DEF LockStripe, shared, TypeOK, TableInv, ControlInv, Running
<1>9. ASSUME NEW t \in Txs, AllLocked(t) PROVE TypeInv'
  BY <1>0, <1>9 DEF AllLocked, shared, committing, TypeOK, TableInv, ControlInv, Running
<1>10. ASSUME NEW t \in Txs, ValidateConflict(t) PROVE TypeInv'
  BY <1>0, <1>10 DEF ValidateConflict, Release, shared, TypeOK, TableInv, ControlInv, Running
<1>11. ASSUME NEW t \in Txs, ValidateOk(t) PROVE TypeInv'
  BY <1>0, <1>11 DEF ValidateOk, shared, committing, TypeOK, TableInv, ControlInv, Running
<1>12. ASSUME NEW t \in Txs, ClaimSeq(t) PROVE TypeInv'
  BY <1>0, <1>12 DEF ClaimSeq, TypeOK, TableInv, ControlInv, Running
<1>13. ASSUME NEW t \in Txs, ApplyWrite(t) PROVE TypeInv'
  <2> DEFINE w == Head(writes[t])
  <2>1. writes[t] \in Seq(WriteOps) /\ writes[t] # <<>>
    BY <1>0, <1>13 DEF ApplyWrite, TypeOK, ControlInv
  <2>2. w \in WriteOps /\ Tail(writes[t]) \in Seq(WriteOps)
    BY <2>1
  <2>3. w.op = "insert" => tab.next_id <= MaxId
    BY <1>13 DEF ApplyWrite
  <2>4. EngineCallGood(w)
    BY <1>0, <2>2, <2>3, EngineCallKeeps
  <2>5. ~Failed(w) /\ tab' = EngineCall(w).tab
    BY <1>13 DEF ApplyWrite
  <2>6. TableInv'
    BY <2>4, <2>5 DEF EngineCallGood, TableInv
  <2>7. RowOf(w) \in Ids
    BY <2>4, <2>5 DEF EngineCallGood
  <2>8. mods' \in [Ids -> Nat]
    <3> DEFINE i == RowOf(w)
    <3>1. mods' = mods \/ mods' = [mods EXCEPT ![i] = @ + 1]
      BY <1>13 DEF ApplyWrite, Changed
    <3>2. mods \in [Ids -> Nat] /\ i \in Ids
      BY <1>0, <2>7 DEF TypeOK
    <3> HIDE DEF i
    <3> QED BY <3>1, <3>2
  <2>9. writes' \in [Txs -> Seq(WriteOps)]
    BY <1>0, <1>13, <2>2 DEF ApplyWrite, TypeOK
  <2>10. touched' \in [Txs -> SUBSET Ids]
    BY <1>0, <1>13, <2>7 DEF ApplyWrite, TypeOK
  <2>11. TypeOK'
    BY <1>0, <1>13, <2>6, <2>8, <2>9, <2>10
       DEF ApplyWrite, TypeOK, TableInv, GoodTable, Running
  <2>12. pc'[t] = "applying" => writes'[t] # <<>>
    <3>1. writes'[t] = Tail(writes[t]) /\ (pc'[t] = "applying" => Len(writes[t]) # 1)
      BY <1>0, <1>13 DEF ApplyWrite, TypeOK
    <3>2. Len(Tail(writes[t])) = Len(writes[t]) - 1 /\ Len(writes[t]) > 0
      BY <2>1
    <3>3. Len(<<>>) = 0
      OBVIOUS
    <3> DEFINE rest == Tail(writes[t])
    <3>4. pc'[t] = "applying" => Len(rest) # 0
      BY <2>1, <3>1, <3>2
    <3> HIDE DEF rest
    <3> QED BY <3>1, <3>3, <3>4 DEF rest
  <2>13. ControlInv'
    BY <1>0, <1>13, <2>12 DEF ApplyWrite, ControlInv, TypeOK, Running
  <2> QED BY <2>6, <2>11, <2>13
<1>14. ASSUME NEW t \in Txs, ApplyFails(t) PROVE TypeInv'
  BY <1>0, <1>14 DEF ApplyFails, Release, shared, TypeOK, TableInv, ControlInv, Running
<1>15. ASSUME NEW t \in Txs, Stamp(t) PROVE TypeInv'
  BY <1>0, <1>15 DEF Stamp, Release, TypeOK, TableInv, ControlInv, Running
<1>16. ASSUME NEW w \in WriteOps, DirectWrite(w) PROVE TypeInv'
  <2>1. w.op = "insert" => tab.next_id <= MaxId
    BY <1>16, IdsLeftMeans DEF DirectWrite
  <2>2. EngineCallGood(w)
    BY <1>0, <2>1, EngineCallKeeps
  <2>3. EngineCall(w).res = "ok" /\ tab' = EngineCall(w).tab
    BY <1>16 DEF DirectWrite
  <2>4. TableInv'
    BY <2>2, <2>3 DEF EngineCallGood, TableInv
  <2>5. RowOf(w) \in Ids
    BY <2>2, <2>3 DEF EngineCallGood, Failed
  <2>6. TypeOK'
    BY <1>0, <1>16, <2>4, <2>5
       DEF DirectWrite, Changed, TypeOK, TableInv, GoodTable, committing, Running
  <2>7. ControlInv'
    BY <1>0, <1>16 DEF DirectWrite, ControlInv, committing
  <2> QED BY <2>4, <2>6, <2>7
<1>17. ASSUME UNCHANGED vars PROVE TypeInv'
  BY <1>0, <1>17 DEF vars, TypeOK, TableInv, ControlInv
<1>18. ASSUME NEW t \in Txs, TxStep(t) PROVE TypeInv'
  <2>1. ASSUME NEW values \in RowInputs, BufferInsert(t, values) PROVE TypeInv'
    <3>1. [op |-> "insert", id |-> NoRow, values |-> values] \in WriteOps
      BY DEF WriteOps
    <3> QED BY <2>1, <3>1, <1>4 DEF BufferInsert
  <2>2. ASSUME NEW values \in RowInputs, NEW i \in Ids, BufferUpdate(t, i, values)
        PROVE  TypeInv'
    <3>1. [op |-> "update", id |-> i, values |-> values] \in WriteOps
      BY DEF WriteOps
    <3> QED BY <2>2, <3>1, <1>4 DEF BufferUpdate
  <2>3. ASSUME NEW i \in Ids, BufferDelete(t, i) PROVE TypeInv'
    <3>1. [op |-> "delete", id |-> i, values |-> <<>>] \in WriteOps
      BY DEF WriteOps
    <3> QED BY <2>3, <3>1, <1>4 DEF BufferDelete
  <2> QED BY <1>1, <1>2, <1>3, <1>5, <1>6, <1>7, <1>18, <2>1, <2>2, <2>3 DEF TxStep
<1>19. ASSUME NEW t \in Txs, CommitStep(t) PROVE TypeInv'
  BY <1>8, <1>9, <1>10, <1>11, <1>12, <1>13, <1>14, <1>15, <1>19 DEF CommitStep
<1> QED BY <1>16, <1>17, <1>18, <1>19 DEF Next, Finished

(***************************************************************************)
(* Type correctness: in every reachable state of the manager the table is  *)
(* consistent, and versions, stripes, buffers and read sets refer to ids   *)
(* and sequence numbers that exist.                                        *)
(***************************************************************************)
THEOREM TxTypeCorrect == Spec => []TypeOK
<1>1. TypeInv => TypeOK
  BY DEF TypeInv
<1> QED BY <1>1, TypeInit, TypeStep, PTL DEF Spec

-----------------------------------------------------------------------------
(* Sequence numbers and versions.                                          *)

\* Every claimed sequence number is one commit's own.
SeqInv ==
    /\ \A t \in Txs : seq[t] <= commit_seq
    /\ \A t \in Txs : pc[t] \in {"applying", "stamping"} => seq[t] # 0
    /\ \A t, u \in Txs : seq[t] = seq[u] /\ seq[t] # 0 => t = u

\* The version v of row i was stamped by a commit that succeeded and wrote i.
StampedBy(i, v) ==
    v # 0 => \E u \in Txs : outcome[u] = "ok" /\ i \in touched[u] /\ seq[u] = v

\* Every version in the map, and every one a get has seen, was stamped so.
StampInv ==
    /\ \A i \in Ids : StampedBy(i, versions[i])
    /\ \A t \in Txs : StampedBy(reading[t].id, reading[t].version)
    /\ \A t \in Txs : \A r \in read_set[t] : StampedBy(r.id, r.version)

(***************************************************************************)
(* The steps of Next, one by one, a stuttering step included.              *)
(***************************************************************************)
LEMMA NextCases ==
    ASSUME [Next]_vars
    PROVE  \/ UNCHANGED vars
           \/ \E w \in WriteOps : DirectWrite(w)
           \/ \E t \in Txs :
                 \/ begin(t)
                 \/ \E i \in Ids : GetVersion(t, i)
                 \/ GetRow(t)
                 \/ \E w \in WriteOps :
                       /\ w.op # "insert" => PreChecked(t, w.id)
                       /\ Buffer(t, w)
                 \/ rollback(t) \/ CommitReadOnly(t) \/ CommitStart(t)
                 \/ LockStripe(t) \/ AllLocked(t)
                 \/ ValidateConflict(t) \/ ValidateOk(t) \/ ClaimSeq(t)
                 \/ ApplyWrite(t) \/ ApplyFails(t) \/ Stamp(t)
<1>1. ASSUME NEW t \in Txs, NEW values \in RowInputs, BufferInsert(t, values)
      PROVE  \E w \in WriteOps : (w.op # "insert" => PreChecked(t, w.id)) /\ Buffer(t, w)
  <2> DEFINE w == [op |-> "insert", id |-> NoRow, values |-> values]
  <2>1. w \in WriteOps /\ w.op = "insert"
    BY DEF WriteOps
  <2> QED BY <1>1, <2>1 DEF BufferInsert
<1>2. ASSUME NEW t \in Txs, NEW values \in RowInputs, NEW i \in Ids,
             BufferUpdate(t, i, values)
      PROVE  \E w \in WriteOps : (w.op # "insert" => PreChecked(t, w.id)) /\ Buffer(t, w)
  <2> DEFINE w == [op |-> "update", id |-> i, values |-> values]
  <2>1. w \in WriteOps /\ w.id = i
    BY DEF WriteOps
  <2> QED BY <1>2, <2>1 DEF BufferUpdate
<1>3. ASSUME NEW t \in Txs, NEW i \in Ids, BufferDelete(t, i)
      PROVE  \E w \in WriteOps : (w.op # "insert" => PreChecked(t, w.id)) /\ Buffer(t, w)
  <2> DEFINE w == [op |-> "delete", id |-> i, values |-> <<>>]
  <2>1. w \in WriteOps /\ w.id = i
    BY DEF WriteOps
  <2> QED BY <1>3, <2>1 DEF BufferDelete
<1> QED BY <1>1, <1>2, <1>3 DEF Next, TxStep, CommitStep, Finished

(***************************************************************************)
(* A commit that answered ok stays as it was: its outcome, its sequence    *)
(* number and the rows it wrote.                                           *)
(***************************************************************************)
LEMMA OkIsFinal ==
    ASSUME TypeInv, [Next]_vars, NEW u \in Txs, outcome[u] = "ok"
    PROVE  outcome'[u] = "ok" /\ touched'[u] = touched[u] /\ seq'[u] = seq[u]
<1>0. pc[u] = "done" /\ outcome \in [Txs -> {"none", "ok", "conflict", "error", "rolled_back"}]
      /\ seq \in [Txs -> Nat] /\ touched \in [Txs -> SUBSET Ids]
  BY DEF TypeInv, ControlInv, TypeOK
<1>1. ASSUME UNCHANGED vars PROVE outcome' = outcome /\ touched' = touched /\ seq' = seq
  BY <1>1 DEF vars
<1>2. ASSUME NEW w \in WriteOps, DirectWrite(w)
      PROVE  outcome' = outcome /\ touched' = touched /\ seq' = seq
  BY <1>2 DEF DirectWrite, committing
<1>3. ASSUME NEW t \in Txs,
             \/ begin(t) \/ GetRow(t) \/ CommitStart(t) \/ LockStripe(t) \/ AllLocked(t)
             \/ ValidateOk(t)
             \/ \E i \in Ids : GetVersion(t, i)
             \/ \E w \in WriteOps : Buffer(t, w)
      PROVE  outcome' = outcome /\ touched' = touched /\ seq' = seq
  BY <1>3 DEF begin, GetVersion, GetRow, CommitStart, LockStripe, AllLocked, ValidateOk, Buffer,
              committing
<1>4. ASSUME NEW t \in Txs, rollback(t) \/ CommitReadOnly(t) \/ ValidateConflict(t)
                              \/ ApplyFails(t) \/ Stamp(t)
      PROVE  outcome'[u] = outcome[u] /\ touched' = touched /\ seq' = seq
  BY <1>0, <1>4 DEF rollback, CommitReadOnly, ValidateConflict, ApplyFails, Stamp, committing
<1>5. ASSUME NEW t \in Txs, ClaimSeq(t)
      PROVE  outcome' = outcome /\ touched' = touched /\ seq'[u] = seq[u]
  BY <1>0, <1>5 DEF ClaimSeq
<1>6. ASSUME NEW t \in Txs, ApplyWrite(t)
      PROVE  outcome' = outcome /\ touched'[u] = touched[u] /\ seq' = seq
  BY <1>0, <1>6 DEF ApplyWrite
<1> QED BY <1>1, <1>2, <1>3, <1>4, <1>5, <1>6, NextCases

(***************************************************************************)
(* Versions once stamped keep the commit they came from.                   *)
(***************************************************************************)
LEMMA StampedByStable ==
    ASSUME TypeInv, [Next]_vars
    PROVE  \A i, v : StampedBy(i, v) => StampedBy(i, v)'
BY OkIsFinal DEF StampedBy

LEMMA SeqStep == TypeInv /\ SeqInv /\ [Next]_vars => SeqInv'
<1> SUFFICES ASSUME TypeInv, SeqInv, [Next]_vars PROVE SeqInv'
  OBVIOUS
<1>0. /\ commit_seq \in Nat /\ seq \in [Txs -> Nat]
      /\ pc \in [Txs -> {"new", "active", "reading", "locking", "validating", "done"} \cup Running]
  BY DEF TypeInv, TypeOK
<1>1. ASSUME UNCHANGED vars PROVE SeqInv'
  BY <1>1 DEF vars, SeqInv
<1>2. ASSUME NEW w \in WriteOps, DirectWrite(w) PROVE SeqInv'
  BY <1>2 DEF DirectWrite, committing, SeqInv
<1>3. ASSUME NEW t \in Txs,
             \/ begin(t) \/ GetRow(t) \/ CommitStart(t) \/ LockStripe(t) \/ AllLocked(t)
             \/ ValidateOk(t)
             \/ \E i \in Ids : GetVersion(t, i)
             \/ \E w \in WriteOps : Buffer(t, w)
             \/ rollback(t) \/ CommitReadOnly(t) \/ ValidateConflict(t)
             \/ ApplyFails(t) \/ Stamp(t) \/ ApplyWrite(t)
      PROVE  SeqInv'
  <2>1. seq' = seq /\ commit_seq' = commit_seq
    BY <1>3 DEF begin, GetVersion, GetRow, CommitStart, LockStripe, AllLocked, ValidateOk, Buffer,
                rollback, CommitReadOnly, ValidateConflict, ApplyFails, Stamp, ApplyWrite,
                committing, shared
  <2>2. \A u \in Txs : pc'[u] \in {"applying", "stamping"} => pc[u] \in {"applying", "stamping"}
    BY <1>0, <1>3 DEF begin, GetVersion, GetRow, CommitStart, LockStripe, AllLocked, ValidateOk,
                Buffer, rollback, CommitReadOnly, ValidateConflict, ApplyFails, Stamp, ApplyWrite
  <2> QED BY <2>1, <2>2 DEF SeqInv
<1>4. ASSUME NEW t \in Txs, ClaimSeq(t) PROVE SeqInv'
  BY <1>0, <1>4 DEF ClaimSeq, SeqInv
<1> QED BY <1>1, <1>2, <1>3, <1>4, NextCases

LEMMA StampStep == TypeInv /\ StampInv /\ [Next]_vars => StampInv'
<1> SUFFICES ASSUME TypeInv, StampInv, [Next]_vars PROVE StampInv'
  OBVIOUS
<1>0. /\ versions \in [Ids -> Nat] /\ seq \in [Txs -> Nat] /\ touched \in [Txs -> SUBSET Ids]
      /\ outcome \in [Txs -> {"none", "ok", "conflict", "error", "rolled_back"}]
      /\ reading \in [Txs -> [id : Ids \cup {NoRow}, version : Nat]]
      /\ DOMAIN read_set = Txs
  BY DEF TypeInv, TypeOK
<1>1. (\A i \in Ids : StampedBy(i, versions[i]))'
  <2> SUFFICES ASSUME NEW i \in Ids PROVE StampedBy(i, versions[i])'
    OBVIOUS
  <2>1. PICK v : v = versions[i]
    OBVIOUS
  <2>2. StampedBy(i, v)'
    BY <2>1, StampedByStable DEF StampInv
  <2>3. CASE versions' = versions
    BY <2>1, <2>2, <2>3 DEF StampedBy
  <2>4. ASSUME NEW t \in Txs, Stamp(t) PROVE StampedBy(i, versions[i])'
    <3>1. versions'[i] = IF i \in touched[t] THEN seq[t] ELSE v
      BY <2>1, <2>4 DEF Stamp
    <3>2. outcome'[t] = "ok" /\ touched' = touched /\ seq' = seq
      BY <1>0, <2>4 DEF Stamp
    <3> QED BY <2>2, <3>1, <3>2 DEF StampedBy
  <2>5. versions' = versions \/ \E t \in Txs : Stamp(t)
    BY NextCases DEF vars, DirectWrite, begin, GetVersion, GetRow, CommitStart, LockStripe,
        AllLocked, ValidateOk, Buffer, rollback, CommitReadOnly, ValidateConflict, ApplyFails,
        ApplyWrite, ClaimSeq, committing, shared
  <2> QED BY <2>3, <2>4, <2>5
<1>2. (\A t \in Txs : StampedBy(reading[t].id, reading[t].version))'
  <2> SUFFICES ASSUME NEW t \in Txs PROVE StampedBy(reading[t].id, reading[t].version)'
    OBVIOUS
  <2>1. PICK i, v : i = reading[t].id /\ v = reading[t].version
    OBVIOUS
  <2>2. StampedBy(i, v)'
    BY <2>1, StampedByStable DEF StampInv
  <2>3. CASE reading' = reading
    BY <2>1, <2>2, <2>3 DEF StampedBy
  <2>4. ASSUME NEW u \in Txs, NEW j \in Ids, GetVersion(u, j)
        PROVE  StampedBy(reading[t].id, reading[t].version)'
    <3>1. PICK x : x = versions[j]
      OBVIOUS
    <3>2. StampedBy(j, x)'
      BY <3>1, StampedByStable DEF StampInv
    <3>3. \/ reading'[t].id = j /\ reading'[t].version = x
          \/ reading'[t].id = i /\ reading'[t].version = v
      BY <1>0, <2>1, <2>4, <3>1 DEF GetVersion
    <3> QED BY <2>2, <3>2, <3>3 DEF StampedBy
  <2>5. reading' = reading \/ \E u \in Txs, j \in Ids : GetVersion(u, j)
    BY NextCases DEF vars, DirectWrite, begin, GetRow, CommitStart, LockStripe,
        AllLocked, ValidateOk, Buffer, rollback, CommitReadOnly, ValidateConflict, ApplyFails,
        ApplyWrite, ClaimSeq, Stamp
  <2> QED BY <2>3, <2>4, <2>5
<1>3. (\A t \in Txs : \A r \in read_set[t] : StampedBy(r.id, r.version))'
  <2> SUFFICES ASSUME NEW t \in Txs, NEW r \in read_set'[t] PROVE StampedBy(r.id, r.version)'
    OBVIOUS
  <2>1. CASE r \in read_set[t]
    BY <2>1, StampedByStable DEF StampInv
  <2>2. ASSUME NEW u \in Txs, GetRow(u), r \notin read_set[t]
        PROVE  StampedBy(r.id, r.version)'
    <3>1. r = [id |-> reading[t].id, version |-> reading[t].version,
               mod |-> mods[reading[t].id], live |-> reading[t].id \in DOMAIN tab.rows]
      BY <1>0, <2>2 DEF GetRow
    <3>2. StampedBy(r.id, r.version)
      BY <3>1 DEF StampInv
    <3> QED BY <3>2, StampedByStable
  <2>3. read_set' = read_set \/ \E u \in Txs : GetRow(u)
    BY NextCases DEF vars, DirectWrite, begin, GetVersion, CommitStart, LockStripe,
        AllLocked, ValidateOk, Buffer, rollback, CommitReadOnly, ValidateConflict, ApplyFails,
        ApplyWrite, ClaimSeq, Stamp
  <2> QED BY <2>1, <2>2, <2>3
<1> QED BY <1>1, <1>2, <1>3 DEF StampInv

LEMMA ConflictStep ==
    ASSUME TypeInv, StampInv, [Next]_vars, NEW t \in Txs,
           outcome'[t] = "conflict", outcome[t] # "conflict"
    PROVE  \E u \in Txs \ {t} : outcome[u] = "ok" /\ touched[u] \cap RowsOf(t) # {}
<1>0. /\ outcome \in [Txs -> {"none", "ok", "conflict", "error", "rolled_back"}]
      /\ versions \in [Ids -> Nat] /\ start_seq \in [Txs -> Nat] /\ writes[t] \in Seq(WriteOps)
      /\ read_set \in [Txs -> SUBSET [id : Ids, version : Nat, mod : Nat, live : BOOLEAN]]
  BY DEF TypeInv, TypeOK
<1>1. ValidateConflict(t)
  BY <1>0, NextCases, ZenonT(40)
     DEF vars, DirectWrite, begin, GetVersion, GetRow, CommitStart, LockStripe, AllLocked,
         ValidateOk, Buffer, rollback, CommitReadOnly, ValidateConflict, ApplyFails, ApplyWrite,
         ClaimSeq, Stamp
<1>2. outcome[t] = "none"
  BY <1>1 DEF ValidateConflict, TypeInv, ControlInv
<1>3. ASSUME NEW i \in Ids, NEW v, StampedBy(i, v), v # 0, i \in RowsOf(t)
      PROVE  \E u \in Txs \ {t} : outcome[u] = "ok" /\ touched[u] \cap RowsOf(t) # {}
  BY <1>2, <1>3 DEF StampedBy
<1>4. CASE StaleRead(t)
  <2>1. PICK r \in read_set[t] : versions[r.id] # r.version
    BY <1>4 DEF StaleRead
  <2>2. r.id \in Ids /\ r.id \in RowsOf(t)
    BY <1>0 DEF RowsOf
  <2>3. StampedBy(r.id, versions[r.id]) /\ StampedBy(r.id, r.version)
    BY <2>2 DEF StampInv
  <2>4. versions[r.id] # 0 \/ r.version # 0
    BY <2>1
  <2> QED BY <1>3, <2>2, <2>3, <2>4
<1>5. CASE WriteConflict(t)
  <2>1. PICK k \in DOMAIN writes[t] :
               writes[t][k].op # "insert" /\ versions[writes[t][k].id] > start_seq[t]
    BY <1>5 DEF WriteConflict
  <2>2. writes[t][k] \in WriteOps
    BY <1>0
  <2>3. writes[t][k].id \in Ids /\ writes[t][k].id \in RowsOf(t)
    BY <2>1, <2>2, WriteOpCases DEF RowsOf
  <2>4. versions[writes[t][k].id] # 0
    BY <1>0, <2>1, <2>3
  <2>5. StampedBy(writes[t][k].id, versions[writes[t][k].id])
    BY <2>3 DEF StampInv
  <2> QED BY <1>3, <2>3, <2>4, <2>5
<1> QED BY <1>1, <1>4, <1>5 DEF ValidateConflict

(***************************************************************************)
(* No spurious aborts: whatever the hash makes of the row ids, a commit is *)
(* turned away only because another commit wrote one of its rows.          *)
(***************************************************************************)
THEOREM ConflictsHaveCauses == Spec => ConflictHasCause
<1>1. Init => StampInv
  BY DEF Init, StampInv, StampedBy
<1>2. TypeInv /\ StampInv /\ [Next]_vars =>
        [\A t \in Txs :
          outcome'[t] = "conflict" /\ outcome[t] # "conflict" =>
             \E u \in Txs \ {t} : outcome[u] = "ok" /\ touched[u] \cap RowsOf(t) # {}]_vars
  BY ConflictStep
<1> QED BY <1>1, <1>2, TypeInit, TypeStep, StampStep, PTL DEF Spec, ConflictHasCause

-----------------------------------------------------------------------------
(* Stripes.                                                                *)

Committing == {"validating"} \cup Running

\* From validation on, a commit holds the stripe of every row it has yet to
\* update or delete and, at repeatable read, of every row it read.
LockInv ==
    \A t \in Txs : pc[t] \in Committing =>
        /\ \A k \in DOMAIN writes[t] :
              writes[t][k].op # "insert" => stripes[stripe_index[writes[t][k].id]] = t
        /\ t \in RepeatableRead => \A r \in read_set[t] : stripes[stripe_index[r.id]] = t

(***************************************************************************)
(* A stripe stays with its holder until the holder's commit returns.       *)
(***************************************************************************)
LEMMA HolderKeeps ==
    ASSUME TypeInv, [Next]_vars, NEW t \in Txs, NEW s \in Stripes,
           stripes[s] = t, pc'[t] # "done"
    PROVE  stripes'[s] = t
<1>0. /\ stripes \in [Stripes -> Txs \cup {Free}] /\ t # Free
      /\ pc \in [Txs -> {"new", "active", "reading", "locking", "validating", "done"} \cup Running]
  BY TxAssumption DEF TypeInv, TypeOK
<1>1. ASSUME NEW u \in Txs, LockStripe(u) PROVE stripes'[s] = t
  BY <1>0, <1>1 DEF LockStripe
<1>2. ASSUME NEW u \in Txs, ValidateConflict(u) \/ ApplyFails(u) \/ Stamp(u)
      PROVE  stripes'[s] = t
  <2>1. pc'[u] = "done" /\ Release(u)
    BY <1>0, <1>2 DEF ValidateConflict, ApplyFails, Stamp
  <2> QED BY <2>1 DEF Release
<1>3. \/ stripes' = stripes
      \/ \E u \in Txs : LockStripe(u) \/ ValidateConflict(u) \/ ApplyFails(u) \/ Stamp(u)
  BY NextCases DEF vars, DirectWrite, begin, GetVersion, GetRow, CommitStart,
     AllLocked, ValidateOk, Buffer, rollback, CommitReadOnly, ApplyWrite, ClaimSeq, committing
<1> QED BY <1>1, <1>2, <1>3

(***************************************************************************)
(* What a transaction read, when it began, and what it has still to write, *)
(* are fixed from validation on, except that writes are drained.           *)
(***************************************************************************)
LEMMA CommitFrame ==
    ASSUME TypeInv, [Next]_vars, NEW t \in Txs, pc'[t] \in Committing
    PROVE  /\ read_set'[t] = read_set[t] /\ start_seq'[t] = start_seq[t]
           /\ writes'[t] = writes[t] \/ ApplyWrite(t)
           /\ \/ pc[t] \in Committing
              \/ AllLocked(t)
           /\ pc'[t] \in Running => pc[t] \in Running \/ ValidateOk(t)
           /\ pc'[t] \in {"applying", "stamping"} =>
                 pc[t] \in {"applying", "stamping"} \/ ClaimSeq(t)
<1>0. /\ pc \in [Txs -> {"new", "active", "reading", "locking", "validating", "done"} \cup Running]
      /\ DOMAIN read_set = Txs /\ DOMAIN start_seq = Txs /\ DOMAIN writes = Txs
  BY DEF TypeInv, TypeOK
<1>1. ASSUME UNCHANGED vars \/ \E w \in WriteOps : DirectWrite(w)
      PROVE  pc' = pc /\ read_set' = read_set /\ start_seq' = start_seq /\ writes' = writes
  BY <1>1 DEF vars, DirectWrite
<1>2. ASSUME NEW u \in Txs,
             \/ begin(u) \/ GetRow(u) \/ CommitStart(u)
             \/ \E i \in Ids : GetVersion(u, i)
             \/ \E w \in WriteOps : Buffer(u, w)
             \/ rollback(u) \/ CommitReadOnly(u) \/ ValidateConflict(u)
             \/ ApplyFails(u) \/ Stamp(u)
      PROVE  /\ u # t
             /\ pc'[t] = pc[t] /\ read_set'[t] = read_set[t] /\ start_seq'[t] = start_seq[t]
             /\ writes'[t] = writes[t]
  BY <1>0, <1>2 DEF begin, GetRow, CommitStart, GetVersion, Buffer, rollback, CommitReadOnly,
        ValidateConflict, ApplyFails, Stamp, Committing, Running
<1>3. ASSUME NEW u \in Txs, LockStripe(u) \/ AllLocked(u) \/ ValidateOk(u) \/ ClaimSeq(u)
      PROVE  /\ read_set' = read_set /\ start_seq' = start_seq /\ writes' = writes
             /\ u # t => pc'[t] = pc[t]
             /\ u = t => \/ AllLocked(t) /\ pc'[t] = "validating"
                         \/ ValidateOk(t) /\ pc[t] = "validating" /\ pc'[t] = "claiming"
                         \/ ClaimSeq(t) /\ pc[t] = "claiming" /\ pc'[t] = "applying"
  BY <1>0, <1>3 DEF LockStripe, AllLocked, ValidateOk, ClaimSeq, Committing, Running
<1>4. ASSUME NEW u \in Txs, ApplyWrite(u)
      PROVE  /\ read_set' = read_set /\ start_seq' = start_seq
             /\ u # t => pc'[t] = pc[t] /\ writes'[t] = writes[t]
             /\ u = t => pc[t] = "applying" /\ pc'[t] \in {"applying", "stamping"}
  BY <1>0, <1>4 DEF ApplyWrite
<1> QED BY <1>1, <1>2, <1>3, <1>4, NextCases DEF Committing, Running

LEMMA TailFact ==
    ASSUME NEW S, NEW s \in Seq(S), s # <<>>
    PROVE  /\ 1 \in DOMAIN s /\ Head(s) = s[1]
           /\ \A k \in DOMAIN Tail(s) : k \in Nat /\ k + 1 \in DOMAIN s /\ Tail(s)[k] = s[k + 1]
OBVIOUS

LEMMA LockStep == TypeInv /\ LockInv /\ [Next]_vars => LockInv'
<1> SUFFICES ASSUME TypeInv, LockInv, [Next]_vars, NEW t \in Txs, pc'[t] \in Committing
             PROVE  /\ \A k \in DOMAIN writes'[t] : writes'[t][k].op # "insert"
                          => stripes'[stripe_index[writes'[t][k].id]] = t
                    /\ t \in RepeatableRead =>
                          \A r \in read_set'[t] : stripes'[stripe_index[r.id]] = t
  BY DEF LockInv
<1>0. /\ writes \in [Txs -> Seq(WriteOps)] /\ stripe_index \in [Ids -> Stripes]
      /\ read_set \in [Txs -> SUBSET [id : Ids, version : Nat, mod : Nat, live : BOOLEAN]]
      /\ pc \in [Txs -> {"new", "active", "reading", "locking", "validating", "done"} \cup Running]
  BY TxAssumption DEF TypeInv, TypeOK
<1>1. \A s \in Stripes : stripes[s] = t => stripes'[s] = t
  BY HolderKeeps DEF Committing, Running
<1>2. \A k \in DOMAIN writes[t] : writes[t][k].op # "insert" =>
          stripe_index[writes[t][k].id] \in Stripes
  <2> SUFFICES ASSUME NEW k \in DOMAIN writes[t], writes[t][k].op # "insert"
               PROVE  stripe_index[writes[t][k].id] \in Stripes
    OBVIOUS
  <2>1. writes[t][k] \in WriteOps
    BY <1>0
  <2> QED BY <1>0, <2>1, WriteOpCases
<1>3. \A r \in read_set[t] : stripe_index[r.id] \in Stripes
  BY <1>0
<1>4. /\ \A k \in DOMAIN writes[t] :
            writes[t][k].op # "insert" => stripes[stripe_index[writes[t][k].id]] = t
      /\ t \in RepeatableRead => \A r \in read_set[t] : stripes[stripe_index[r.id]] = t
  <2>1. CASE pc[t] \in Committing
    BY <2>1 DEF LockInv
  <2>2. CASE AllLocked(t)
    BY <2>2 DEF AllLocked, commit_stripes, Held
  <2> QED BY <2>1, <2>2, CommitFrame
<1>5. /\ \A k \in DOMAIN writes[t] :
            writes[t][k].op # "insert" => stripes'[stripe_index[writes[t][k].id]] = t
      /\ t \in RepeatableRead => \A r \in read_set[t] : stripes'[stripe_index[r.id]] = t
  BY <1>1, <1>2, <1>3, <1>4
<1>6. CASE writes'[t] = writes[t]
  BY <1>5, <1>6, CommitFrame
<1>7. CASE ApplyWrite(t)
  <2>1. writes'[t] = Tail(writes[t]) /\ writes[t] # <<>> /\ writes[t] \in Seq(WriteOps)
    BY <1>0, <1>7 DEF ApplyWrite, TypeInv, ControlInv
  <2>2. \A k \in DOMAIN Tail(writes[t]) :
            k + 1 \in DOMAIN writes[t] /\ Tail(writes[t])[k] = writes[t][k + 1]
    BY <2>1, TailFact
  <2> QED BY <1>5, <2>1, <2>2, CommitFrame
<1> QED BY <1>6, <1>7, CommitFrame

-----------------------------------------------------------------------------
(* What a read still says about its row.                                   *)

\* A row found was in the table; if it has not changed since, it still is.
SeenInv ==
    \A t \in Txs : \A r \in read_set[t] :
        /\ r.mod <= mods[r.id]
        /\ r.live => r.id < tab.next_id
        /\ r.live /\ mods[r.id] = r.mod => r.id \in DOMAIN tab.rows

\* A row found whose version is still the one read is as it was read, unless
\* a commit that holds its stripe has rewritten it and not stamped it yet.
VersionInv ==
    \A t \in Txs : \A r \in read_set[t] :
        r.live /\ versions[r.id] = r.version =>
            \/ mods[r.id] = r.mod
            \/ \E u \in Txs : /\ pc[u] \in {"applying", "stamping"}
                              /\ r.id \in touched[u]
                              /\ stripes[stripe_index[r.id]] = u

(***************************************************************************)
(* What a step does to rows: the allocator and the change counts only grow,*)
(* a row leaves the table only by a change, and only three things change a *)
(* row: an insert of a new id, a commit that applies a write of the row,   *)
(* or a request outside transactions.                                      *)
(***************************************************************************)
LEMMA EngineEffect ==
    ASSUME TypeInv, [Next]_vars
    PROVE  /\ tab'.next_id >= tab.next_id
           /\ \A i \in Ids : mods'[i] >= mods[i]
           /\ \A i \in Ids : mods'[i] = mods[i] /\ i \in DOMAIN tab.rows => i \in DOMAIN tab'.rows
           /\ \A i \in Ids : mods'[i] # mods[i] =>
                 \/ i = tab.next_id
                 \/ \E t \in Txs : /\ ApplyWrite(t)
                                   /\ Head(writes[t]).op # "insert"
                                   /\ Head(writes[t]).id = i
                 \/ \E w \in WriteOps : DirectWrite(w)
<1>0. /\ mods \in [Ids -> Nat] /\ writes \in [Txs -> Seq(WriteOps)] /\ TableInv
      /\ tab.next_id \in Nat
  BY DEF TypeInv, TypeOK, TableInv, GoodTable, IsTable, RowId
<1>1. CASE tab' = tab /\ mods' = mods
  BY <1>0, <1>1
<1>2. ASSUME NEW w \in WriteOps, w.op = "insert" => tab.next_id <= MaxId, ~Failed(w),
             tab' = EngineCall(w).tab,
             IF EngineCall(w).res = "ok" THEN Changed(RowOf(w)) ELSE UNCHANGED mods
      PROVE  /\ tab'.next_id >= tab.next_id
             /\ \A i \in Ids : mods'[i] >= mods[i]
             /\ \A i \in Ids : mods'[i] = mods[i] /\ i \in DOMAIN tab.rows
                                  => i \in DOMAIN tab'.rows
             /\ \A i \in Ids : mods'[i] # mods[i] =>
                   i = tab.next_id \/ (w.op # "insert" /\ w.id = i)
  <2>1. EngineCallGood(w)
    BY <1>0, <1>2, EngineCallKeeps
  <2> DEFINE e == EngineCall(w)
             j == RowOf(w)
  <2>2. /\ e.tab.next_id >= tab.next_id /\ j \in Ids
        /\ \A i \in DOMAIN tab.rows : i \in DOMAIN e.tab.rows \/ (j = i /\ e.res = "ok")
        /\ w.op = "insert" => j = tab.next_id
        /\ w.op # "insert" => j = w.id
    BY <1>2, <2>1 DEF EngineCallGood, Failed
  <2>3. \/ e.res = "ok" /\ mods' = [mods EXCEPT ![j] = @ + 1]
        \/ e.res # "ok" /\ mods' = mods
    BY <1>2 DEF Changed
  <2>4. tab' = e.tab
    BY <1>2
  <2> HIDE DEF e, j
  <2> QED BY <1>0, <2>2, <2>3, <2>4
<1>3. ASSUME NEW t \in Txs, ApplyWrite(t)
      PROVE  LET w == Head(writes[t])
             IN  /\ w \in WriteOps /\ (w.op = "insert" => tab.next_id <= MaxId) /\ ~Failed(w)
                 /\ tab' = EngineCall(w).tab
                 /\ IF EngineCall(w).res = "ok" THEN Changed(RowOf(w)) ELSE UNCHANGED mods
  <2>1. writes[t] \in Seq(WriteOps) /\ writes[t] # <<>>
    BY <1>0, <1>3 DEF ApplyWrite, TypeInv, ControlInv
  <2>2. Head(writes[t]) \in WriteOps
    BY <2>1
  <2> QED BY <1>3, <2>2 DEF ApplyWrite
<1>4. ASSUME NEW w \in WriteOps, DirectWrite(w)
      PROVE  /\ w.op = "insert" => tab.next_id <= MaxId
             /\ ~Failed(w) /\ tab' = EngineCall(w).tab
             /\ EngineCall(w).res = "ok" /\ Changed(RowOf(w))
  BY <1>4, IdsLeftMeans DEF DirectWrite, Failed
<1>5. \/ tab' = tab /\ mods' = mods
      \/ \E t \in Txs : ApplyWrite(t)
      \/ \E w \in WriteOps : DirectWrite(w)
  BY NextCases DEF vars, begin, GetVersion, GetRow, CommitStart, LockStripe, AllLocked,
     ValidateOk, Buffer, rollback, CommitReadOnly, ValidateConflict, ApplyFails, ClaimSeq, Stamp,
     shared
<1>6. CASE \E t \in Txs : ApplyWrite(t)
  <2>1. PICK t \in Txs : ApplyWrite(t)
    BY <1>6
  <2> DEFINE w == Head(writes[t])
  <2>2. /\ w \in WriteOps /\ (w.op = "insert" => tab.next_id <= MaxId) /\ ~Failed(w)
        /\ tab' = EngineCall(w).tab
        /\ IF EngineCall(w).res = "ok" THEN Changed(RowOf(w)) ELSE UNCHANGED mods
    BY <2>1, <1>3
  <2>3. ApplyWrite(t) /\ w = Head(writes[t])
    BY <2>1
  <2> HIDE DEF w
  <2> QED BY <1>2, <2>2, <2>3
<1>7. CASE \E w \in WriteOps : DirectWrite(w)
  BY <1>2, <1>4, <1>7
<1> QED BY <1>1, <1>5, <1>6, <1>7

(***************************************************************************)
(* A read set grows only by a get, whose read tells the present.           *)
(***************************************************************************)
LEMMA ReadSetStep ==
    ASSUME TypeInv, [Next]_vars, NEW t \in Txs, NEW r \in read_set'[t], r \notin read_set[t]
    PROVE  /\ r.id \in Ids /\ r.mod = mods[r.id] /\ r.version = reading[t].version
           /\ r.live <=> r.id \in DOMAIN tab.rows
           /\ UNCHANGED <<tab, mods, versions>>
<1>0. /\ DOMAIN read_set = Txs
      /\ \A u \in Txs : pc[u] = "reading" => reading[u].id \in Ids
  BY DEF TypeInv, TypeOK, ControlInv
<1>1. GetRow(t)
  <2>1. read_set' = read_set \/ \E u \in Txs : GetRow(u)
    BY NextCases DEF vars, DirectWrite, begin, GetVersion, CommitStart, LockStripe,
        AllLocked, ValidateOk, Buffer, rollback, CommitReadOnly, ValidateConflict, ApplyFails,
        ApplyWrite, ClaimSeq, Stamp
  <2>2. ASSUME NEW u \in Txs, u # t, GetRow(u) PROVE FALSE
    BY <1>0, <2>2 DEF GetRow
  <2> QED BY <2>1, <2>2
<1>2. r = [id |-> reading[t].id, version |-> reading[t].version,
           mod |-> mods[reading[t].id], live |-> reading[t].id \in DOMAIN tab.rows]
  BY <1>0, <1>1 DEF GetRow
<1>3. reading[t].id \in Ids /\ UNCHANGED <<tab, mods, versions>>
  BY <1>0, <1>1 DEF GetRow, shared
<1> QED BY <1>2, <1>3

LEMMA SeenStep == TypeInv /\ SeenInv /\ [Next]_vars => SeenInv'
<1> SUFFICES ASSUME TypeInv, SeenInv, [Next]_vars, NEW t \in Txs, NEW r \in read_set'[t]
             PROVE  /\ r.mod <= mods'[r.id]
                    /\ r.live => r.id < tab'.next_id
                    /\ r.live /\ mods'[r.id] = r.mod => r.id \in DOMAIN tab'.rows
  BY DEF SeenInv
<1>0. /\ mods \in [Ids -> Nat] /\ mods' \in [Ids -> Nat] /\ tab.next_id \in Nat
      /\ tab'.next_id \in Nat
      /\ \A i \in DOMAIN tab.rows : i < tab.next_id
  BY TypeStep DEF TypeInv, TypeOK, TableInv, GoodTable, IsTable, RowId
<1>1. CASE r \in read_set[t]
  <2>1. r.id \in Ids /\ r.mod \in Nat /\ r.id \in Nat
    BY <1>1 DEF TypeInv, TypeOK, Ids
  <2> QED BY <1>0, <1>1, <2>1, EngineEffect DEF SeenInv
<1>2. CASE r \notin read_set[t]
  BY <1>0, <1>2, ReadSetStep
<1> QED BY <1>1, <1>2

(***************************************************************************)
(* Only a commit's last step moves versions, and it moves them to a number *)
(* that no get has seen before.                                            *)
(***************************************************************************)
LEMMA FreshStamp ==
    ASSUME TypeInv, SeqInv, StampInv, [Next]_vars, NEW t \in Txs, NEW r \in read_set[t],
           versions'[r.id] = r.version
    PROVE  /\ versions[r.id] = r.version
           /\ \A u \in Txs : Stamp(u) => r.id \notin touched[u]
<1>0. r.id \in Ids /\ versions \in [Ids -> Nat] /\ seq \in [Txs -> Nat]
  BY DEF TypeInv, TypeOK
<1>1. ASSUME NEW u \in Txs, Stamp(u)
      PROVE  r.id \notin touched[u] /\ versions[r.id] = r.version
  <2>1. versions'[r.id] = IF r.id \in touched[u] THEN seq[u] ELSE versions[r.id]
    BY <1>0, <1>1 DEF Stamp
  <2>2. pc[u] = "stamping" /\ outcome[u] = "none" /\ seq[u] # 0
    BY <1>1 DEF Stamp, SeqInv, TypeInv, ControlInv
  <2>3. ASSUME r.version = seq[u] PROVE FALSE
    <3>1. PICK w \in Txs : outcome[w] = "ok" /\ seq[w] = seq[u]
      BY <2>2, <2>3 DEF StampInv, StampedBy
    <3> QED BY <2>2, <3>1 DEF SeqInv
  <2> QED BY <2>1, <2>3
<1>2. versions' = versions \/ \E u \in Txs : Stamp(u)
  BY NextCases DEF vars, DirectWrite, begin, GetVersion, GetRow, CommitStart, LockStripe,
     AllLocked, ValidateOk, Buffer, rollback, CommitReadOnly, ValidateConflict, ApplyFails,
     ApplyWrite, ClaimSeq, committing, shared
<1> QED BY <1>1, <1>2

(***************************************************************************)
(* A commit that has applied a write keeps it in its touched rows and goes *)
(* on to stamp, unless it fails.                                           *)
(***************************************************************************)
LEMMA ApplierStep ==
    ASSUME TypeInv, [Next]_vars, NEW u \in Txs, pc[u] \in {"applying", "stamping"}
    PROVE  /\ touched[u] \subseteq touched'[u]
           /\ \/ pc'[u] \in {"applying", "stamping"}
              \/ Stamp(u)
              \/ ApplyFails(u) /\ touched' = touched /\ outcome'[u] = "error"
<1>0. /\ pc \in [Txs -> {"new", "active", "reading", "locking", "validating", "done"} \cup Running]
      /\ DOMAIN touched = Txs /\ DOMAIN outcome = Txs
  BY DEF TypeInv, TypeOK
<1>1. ASSUME UNCHANGED vars \/ \E w \in WriteOps : DirectWrite(w)
      PROVE  pc' = pc /\ touched' = touched
  BY <1>1 DEF vars, DirectWrite, committing
<1>2. ASSUME NEW t \in Txs,
             \/ begin(t) \/ GetRow(t) \/ CommitStart(t)
             \/ \E i \in Ids : GetVersion(t, i)
             \/ \E w \in WriteOps : Buffer(t, w)
             \/ rollback(t) \/ CommitReadOnly(t) \/ ValidateConflict(t)
             \/ LockStripe(t) \/ AllLocked(t) \/ ValidateOk(t) \/ ClaimSeq(t)
      PROVE  t # u /\ pc'[u] = pc[u] /\ touched' = touched
  BY <1>0, <1>2 DEF begin, GetRow, CommitStart, GetVersion, Buffer, rollback, CommitReadOnly,
        ValidateConflict, LockStripe, AllLocked, ValidateOk, ClaimSeq, committing
<1>3. ASSUME NEW t \in Txs, ApplyWrite(t)
      PROVE  touched[u] \subseteq touched'[u] /\ pc'[u] \in {"applying", "stamping"}
  BY <1>0, <1>3 DEF ApplyWrite
<1>4. ASSUME NEW t \in Txs, ApplyFails(t)
      PROVE  touched' = touched /\ (t # u => pc'[u] = pc[u]) /\ (t = u => outcome'[u] = "error")
  BY <1>0, <1>4 DEF ApplyFails
<1>5. ASSUME NEW t \in Txs, Stamp(t)
      PROVE  touched' = touched /\ (t # u => pc'[u] = pc[u])
  BY <1>0, <1>5 DEF Stamp
<1> QED BY <1>1, <1>2, <1>3, <1>4, <1>5, NextCases

\* A write that a commit applies is locked by it, and ends up in its touched rows.
LEMMA ApplyLocked ==
    ASSUME TypeInv, LockInv, NEW u \in Txs, ApplyWrite(u), Head(writes[u]).op # "insert"
    PROVE  /\ Head(writes[u]).id \in Ids
           /\ stripes[stripe_index[Head(writes[u]).id]] = u
           /\ stripes' = stripes
           /\ Head(writes[u]).id \in touched'[u]
           /\ pc[u] = "applying" /\ pc'[u] \in {"applying", "stamping"}
<1>0. /\ pc \in [Txs -> {"new", "active", "reading", "locking", "validating", "done"} \cup Running]
      /\ DOMAIN touched = Txs
  BY DEF TypeInv, TypeOK
<1>1. writes[u] \in Seq(WriteOps) /\ writes[u] # <<>>
  BY DEF ApplyWrite, TypeInv, TypeOK, ControlInv
<1>2. 1 \in DOMAIN writes[u] /\ Head(writes[u]) = writes[u][1] /\ Head(writes[u]) \in WriteOps
  BY <1>1, TailFact
<1>3. stripes[stripe_index[writes[u][1].id]] = u
  BY <1>2 DEF LockInv, ApplyWrite, Committing, Running
<1>4. RowOf(Head(writes[u])) = Head(writes[u]).id
  BY DEF RowOf
<1>5. stripes' = stripes /\ Head(writes[u]).id \in touched'[u]
      /\ pc[u] = "applying" /\ pc'[u] \in {"applying", "stamping"}
  BY <1>0, <1>4 DEF ApplyWrite
<1> QED BY <1>2, <1>3, <1>5, WriteOpCases

LEMMA VersionStep ==
    ASSUME MaxDirect = 0, TypeInv, SeqInv, StampInv, LockInv, SeenInv, VersionInv,
           [Next]_vars, AllOrNothing'
    PROVE  VersionInv'
<1> SUFFICES ASSUME NEW t \in Txs, NEW r \in read_set'[t],
                    r.live, versions'[r.id] = r.version, mods'[r.id] # r.mod
             PROVE  \E u \in Txs : /\ pc'[u] \in {"applying", "stamping"}
                                   /\ r.id \in touched'[u]
                                   /\ stripes'[stripe_index[r.id]] = u
  BY DEF VersionInv
<1>1. r \in read_set[t]
  BY ReadSetStep
<1>2. r.id \in Ids /\ r.mod \in Nat /\ stripe_index[r.id] \in Stripes
  BY <1>1, TxAssumption DEF TypeInv, TypeOK
<1>3. versions[r.id] = r.version /\ \A u \in Txs : Stamp(u) => r.id \notin touched[u]
  BY <1>1, FreshStamp
<1>4. CASE mods[r.id] = r.mod
  <2>1. r.id # tab.next_id
    BY <1>1, <1>2 DEF SeenInv, Ids, TypeInv, TypeOK, IsTable, RowId
  <2>2. ASSUME NEW w \in WriteOps, DirectWrite(w) PROVE FALSE
    BY <2>2 DEF DirectWrite, TypeInv, TypeOK
  <2>3. PICK u \in Txs : /\ ApplyWrite(u)
                         /\ Head(writes[u]).op # "insert"
                         /\ Head(writes[u]).id = r.id
    BY <1>2, <1>4, <2>1, <2>2, EngineEffect
  <2>4. /\ stripes[stripe_index[r.id]] = u /\ stripes' = stripes /\ r.id \in touched'[u]
        /\ pc'[u] \in {"applying", "stamping"}
    BY <2>3, ApplyLocked
  <2> QED BY <2>4
<1>5. ASSUME NEW u \in Txs, pc[u] \in {"applying", "stamping"}, r.id \in touched[u],
             stripes[stripe_index[r.id]] = u
      PROVE  /\ pc'[u] \in {"applying", "stamping"}
             /\ r.id \in touched'[u]
             /\ stripes'[stripe_index[r.id]] = u
  <2>1. r.id \in touched'[u] /\ pc'[u] \in {"applying", "stamping"}
    BY <1>3, <1>5, ApplierStep DEF AllOrNothing
  <2> QED BY <1>2, <1>5, <2>1, HolderKeeps
<1> QED BY <1>1, <1>3, <1>4, <1>5 DEF VersionInv

LEMMA ReadsCurrentStep ==
    ASSUME MaxDirect = 0, TypeInv, LockInv, SeenInv, VersionInv, ReadsCurrent, [Next]_vars
    PROVE  ReadsCurrent'
<1> SUFFICES ASSUME NEW t \in RepeatableRead, pc'[t] \in Running, NEW r \in read_set'[t], r.live,
                    mods'[r.id] # r.mod
             PROVE  r.id \in touched'[t]
  BY DEF ReadsCurrent
<1>0. t \in Txs /\ pc'[t] \in Committing
  BY TxAssumption DEF Committing
<1>1. r \in read_set[t] /\ (pc[t] \in Running \/ ValidateOk(t)) /\ pc[t] \in Committing
  BY <1>0, CommitFrame DEF ValidateOk, Committing, Running
<1>2. r.id \in Ids /\ r.mod \in Nat
  BY <1>0, <1>1 DEF TypeInv, TypeOK
<1>3. stripes[stripe_index[r.id]] = t
  BY <1>0, <1>1 DEF LockInv
<1>4. mods[r.id] = r.mod \/ (r.id \in touched[t] /\ pc[t] \in Running)
  <2>1. CASE pc[t] \in Running
    BY <1>1, <2>1 DEF ReadsCurrent
  <2>2. CASE ValidateOk(t)
    <3>1. versions[r.id] = r.version
      BY <1>1, <2>2 DEF ValidateOk, StaleRead
    <3>2. pc[t] = "validating"
      BY <2>2 DEF ValidateOk
    <3> QED BY <1>0, <1>1, <1>3, <3>1, <3>2 DEF VersionInv
  <2> QED BY <1>1, <2>1, <2>2
<1>5. CASE mods[r.id] = r.mod
  <2>1. r.id # tab.next_id
    BY <1>0, <1>1, <1>2 DEF SeenInv, Ids, TypeInv, TypeOK, IsTable, RowId
  <2>2. ASSUME NEW w \in WriteOps, DirectWrite(w) PROVE FALSE
    BY <2>2 DEF DirectWrite, TypeInv, TypeOK
  <2>3. PICK u \in Txs : /\ ApplyWrite(u)
                         /\ Head(writes[u]).op # "insert"
                         /\ Head(writes[u]).id = r.id
    BY <1>2, <1>5, <2>1, <2>2, EngineEffect
  <2>4. u = t /\ r.id \in touched'[u]
    BY <1>3, <2>3, ApplyLocked
  <2> QED BY <2>4
<1>6. CASE r.id \in touched[t] /\ pc[t] \in Running
  <2>1. pc[t] \in {"applying", "stamping"}
    BY <1>0, <1>6 DEF TypeInv, ControlInv, Running
  <2> QED BY <1>0, <1>6, <2>1, ApplierStep
<1> QED BY <1>4, <1>5, <1>6

\* The first state has no reads and no commit under way.
LEMMA CommitInit == Init => SeqInv /\ StampInv /\ LockInv /\ SeenInv /\ VersionInv /\ ReadsCurrent
BY TxAssumption DEF Init, SeqInv, StampInv, StampedBy, LockInv, SeenInv, VersionInv, ReadsCurrent,
   Committing, Running

(***************************************************************************)
(* No lost update: whatever the number of transactions and the mix of      *)
(* isolation levels, a commit at repeatable read that has passed           *)
(* validation writes to rows that are still as it read them.  Two things   *)
(* break the chain of versions and are excluded: writes outside            *)
(* transactions, which stamp nothing (dispatch), and a commit that fails   *)
(* after a part of its writes, which leaves them unstamped.                *)
(***************************************************************************)
THEOREM NoLostUpdate ==
    ASSUME MaxDirect = 0
    PROVE  Spec /\ []AllOrNothing => []ReadsCurrent
<1> DEFINE I == TypeInv /\ SeqInv /\ StampInv /\ LockInv /\ SeenInv /\ VersionInv /\ ReadsCurrent
<1>1. Init => I
  BY TypeInit, CommitInit
<1>2. I /\ [Next]_vars /\ AllOrNothing' => I'
  <2> SUFFICES ASSUME I, [Next]_vars, AllOrNothing' PROVE I'
    OBVIOUS
  <2>1. TypeInv' /\ SeqInv' /\ StampInv' /\ LockInv' /\ SeenInv'
    BY TypeStep, SeqStep, StampStep, LockStep, SeenStep
  <2>2. VersionInv' /\ ReadsCurrent'
    BY VersionStep, ReadsCurrentStep
  <2> QED BY <2>1, <2>2
<1>3. I => ReadsCurrent
  OBVIOUS
<1> HIDE DEF I
<1> QED BY <1>1, <1>2, <1>3, PTL DEF Spec

-----------------------------------------------------------------------------
(* Atomic batches and procedures: all or nothing.                          *)

\* Every writer is a batch of execute_atomic or a procedure, and what clients
\* write fits the schema and takes no unique key.
BatchesOnly ==
    /\ MaxDirect = 0
    /\ Checked = Txs /\ RepeatableRead = Txs
    /\ \A values \in RowInputs :
          /\ validate_row_values(values)
          /\ \A c \in uniq_cols : ValueOf(values, c) = Null

\* Write k of the transaction is an update or a delete of row i.
Rewrites(t, k, i) ==
    k \in DOMAIN writes[t] /\ writes[t][k].op # "insert" /\ writes[t][k].id = i

\* The transaction has read row i and found it.
Saw(t, i) == \E r \in read_set[t] : r.live /\ r.id = i

\* A batch changes only rows it has found, never one it has deleted itself.
BufferInv ==
    \A t \in Txs :
        /\ \A j, k \in DOMAIN writes[t], i \in Ids :
              Rewrites(t, j, i) /\ Rewrites(t, k, i) /\ j < k => writes[t][j].op # "delete"
        /\ \A k \in DOMAIN writes[t], i \in Ids : Rewrites(t, k, i) => Saw(t, i)
        /\ found[t] # NoRow =>
              /\ Saw(t, found[t])
              /\ \A k \in DOMAIN writes[t] :
                    Rewrites(t, k, found[t]) => writes[t][k].op # "delete"

\* From validation on, the rows a batch has yet to update are in the table.
UpdatableInv ==
    \A t \in Txs : pc[t] \in Running =>
        \A k \in DOMAIN writes[t] : writes[t][k].op = "update" => writes[t][k].id \in DOMAIN tab.rows

LEMMA InsertHasNoRow == \A w \in WriteOps : w.op = "insert" => w.id = NoRow
BY DEF WriteOps

(***************************************************************************)
(* get looks through the buffer newest first: once the batch has deleted a *)
(* row, its own get no longer finds it.                                    *)
(***************************************************************************)
LEMMA DeletedIsBuffered ==
    ASSUME TypeInv, BufferInv, NEW t \in Txs, NEW i \in Ids, NEW j \in DOMAIN writes[t],
           Rewrites(t, j, i), writes[t][j].op = "delete"
    PROVE  Buffered(t, i) = "delete"
<1> DEFINE mine == {k \in DOMAIN writes[t] : writes[t][k].id = i}
<1>0. writes[t] \in Seq(WriteOps) /\ DOMAIN writes[t] \subseteq Int
  BY DEF TypeInv, TypeOK
<1>1. i # NoRow
  BY IdsAreRowIds DEF RowId
<1>2. \A k \in mine : Rewrites(t, k, i)
  BY <1>0, <1>1, InsertHasNoRow DEF Rewrites
<1>3. j \in mine /\ \A k \in mine : j >= k
  BY <1>0, <1>2 DEF BufferInv, Rewrites
<1>4. Max(mine) = j
  <2>1. \A x \in mine : (\A y \in mine : x >= y) => x = j
    BY <1>0, <1>3
  <2> QED BY <1>3, <2>1 DEF Max
<1> QED BY <1>3, <1>4 DEF Buffered

LEMMA BufferStep ==
    ASSUME BatchesOnly, TypeInv, BufferInv, [Next]_vars
    PROVE  BufferInv'
<1>0. /\ writes \in [Txs -> Seq(WriteOps)] /\ DOMAIN read_set = Txs
      /\ found \in [Txs -> Ids \cup {NoRow}]
  BY DEF TypeInv, TypeOK
<1>1. ASSUME NEW t \in Txs, NEW w \in WriteOps, w.op # "insert" => PreChecked(t, w.id),
             Buffer(t, w)
      PROVE  BufferInv'
  <2>1. /\ writes' = [writes EXCEPT ![t] = Append(@, w)]
        /\ found' = [found EXCEPT ![t] = NoRow] /\ read_set' = read_set
    BY <1>1 DEF Buffer
  <2>2. w.op # "insert" => found[t] = w.id /\ w.id \in Ids /\ found[t] # NoRow
    BY <1>1, WriteOpCases, IdsAreRowIds DEF PreChecked, BatchesOnly, RowId
  <2>n. PICK n : n = Len(writes[t])
    OBVIOUS
  <2>3. /\ n \in Nat /\ DOMAIN writes[t] = 1 .. n /\ DOMAIN writes'[t] = 1 .. (n + 1)
        /\ writes'[t][n + 1] = w
        /\ \A k \in 1 .. n : writes'[t][k] = writes[t][k]
    BY <1>0, <2>1, <2>n
  <2>4. \A u \in Txs : u # t => writes'[u] = writes[u] /\ found'[u] = found[u]
    BY <1>0, <2>1
  <2>5. \A u \in Txs, i \in Ids : Saw(u, i)' <=> Saw(u, i)
    BY <2>1 DEF Saw
  <2>6. found'[t] = NoRow
    BY <1>0, <2>1
  <2>7. \A u \in Txs : \A k, i : u # t => (Rewrites(u, k, i)' <=> Rewrites(u, k, i))
    BY <2>4 DEF Rewrites
  <2>8. \A k \in 1 .. n : \A i : Rewrites(t, k, i)' <=> Rewrites(t, k, i)
    BY <2>3 DEF Rewrites
  <2>9. \A i : Rewrites(t, n + 1, i)' => w.op # "insert" /\ found[t] = i
    BY <2>2, <2>3 DEF Rewrites
  <2>10. ASSUME NEW u \in Txs, NEW j \in DOMAIN writes'[u], NEW k \in DOMAIN writes'[u],
                NEW i \in Ids, Rewrites(u, j, i)', Rewrites(u, k, i)', j < k
         PROVE  writes'[u][j].op # "delete"
    <3>1. CASE u # t
      BY <2>4, <2>7, <2>10, <3>1 DEF BufferInv
    <3>2. CASE u = t /\ k \in 1 .. n
      <4>1. j \in 1 .. n
        BY <2>3, <2>10, <3>2
      <4> QED BY <2>3, <2>8, <2>10, <3>2, <4>1 DEF BufferInv
    <3>3. CASE u = t /\ k = n + 1
      <4>1. j \in 1 .. n /\ found[t] = i /\ found[t] # NoRow
        BY <2>2, <2>3, <2>9, <2>10, <3>3
      <4> QED BY <2>3, <2>8, <2>10, <3>3, <4>1 DEF BufferInv
    <3> QED BY <2>3, <2>10, <3>1, <3>2, <3>3
  <2>11. ASSUME NEW u \in Txs, NEW k \in DOMAIN writes'[u], NEW i \in Ids, Rewrites(u, k, i)'
         PROVE  Saw(u, i)'
    <3>1. CASE u # t
      BY <2>4, <2>5, <2>7, <2>11, <3>1 DEF BufferInv
    <3>2. CASE u = t /\ k \in 1 .. n
      BY <2>3, <2>5, <2>8, <2>11, <3>2 DEF BufferInv
    <3>3. CASE u = t /\ k = n + 1
      BY <2>2, <2>5, <2>9, <2>11, <3>3 DEF BufferInv
    <3> QED BY <2>3, <2>11, <3>1, <3>2, <3>3
  <2>12. ASSUME NEW u \in Txs, found'[u] # NoRow
         PROVE  /\ Saw(u, found[u])'
                /\ \A k \in DOMAIN writes'[u] :
                      Rewrites(u, k, found[u])' => writes'[u][k].op # "delete"
    <3>1. u # t
      BY <2>6, <2>12
    <3>2. found'[u] = found[u] /\ writes'[u] = writes[u] /\ read_set' = read_set
      BY <2>1, <2>4, <3>1
    <3> QED BY <2>12, <3>2 DEF BufferInv, Saw, Rewrites
  <2> QED BY <2>10, <2>11, <2>12 DEF BufferInv
<1>2. ASSUME NEW t \in Txs, GetRow(t) PROVE BufferInv'
  <2> DEFINE i == reading[t].id
  <2>0. i \in Ids /\ i # NoRow
    BY <1>2, IdsAreRowIds DEF TypeInv, ControlInv, GetRow, RowId
  <2>1. writes' = writes /\ \A u \in Txs : read_set[u] \subseteq read_set'[u]
    BY <1>0, <1>2 DEF GetRow
  <2>2. \A u \in Txs, m \in Ids : Saw(u, m) => Saw(u, m)'
    BY <2>1 DEF Saw
  <2>3. ASSUME NEW u \in Txs, found'[u] # NoRow
        PROVE  /\ Saw(u, found[u])'
               /\ \A k \in DOMAIN writes'[u] :
                     Rewrites(u, k, found[u])' => writes'[u][k].op # "delete"
    <3>1. CASE u # t
      <4>1. found'[u] = found[u]
        BY <1>0, <1>2, <3>1 DEF GetRow
      <4>2. Saw(u, found[u])
        BY <2>3, <4>1 DEF BufferInv
      <4>3. \A k \in DOMAIN writes[u] : Rewrites(u, k, found[u]) => writes[u][k].op # "delete"
        BY <2>3, <4>1 DEF BufferInv
      <4> QED BY <2>1, <4>1, <4>2, <4>3 DEF Saw, Rewrites
    <3>2. CASE u = t
      <4>1. found'[t] = i /\ i \in DOMAIN tab.rows /\ Buffered(t, i) # "delete"
        BY <1>0, <1>2, <2>3, <3>2 DEF GetRow
      <4>2. [id |-> i, version |-> reading[t].version, mod |-> mods[i], live |-> TRUE]
               \in read_set'[t]
        BY <1>0, <1>2, <4>1 DEF GetRow
      <4>3. \A k \in DOMAIN writes[t] : Rewrites(t, k, i) => writes[t][k].op # "delete"
        BY <2>0, <4>1, DeletedIsBuffered
      <4> HIDE DEF i
      <4> QED BY <2>1, <3>2, <4>1, <4>2, <4>3 DEF Saw, Rewrites
    <3> QED BY <3>1, <3>2
  <2>4. \A u \in Txs : \A k, m : Rewrites(u, k, m)' <=> Rewrites(u, k, m)
    BY <2>1 DEF Rewrites
  <2> HIDE DEF i
  <2> QED BY <2>1, <2>2, <2>3, <2>4 DEF BufferInv
<1>3. ASSUME writes' = writes, read_set' = read_set,
             \A u \in Txs : found'[u] = found[u] \/ found'[u] = NoRow
      PROVE  BufferInv'
  <2>1. \A u \in Txs : \A k, i : Rewrites(u, k, i)' <=> Rewrites(u, k, i)
    BY <1>3 DEF Rewrites
  <2>2. \A u \in Txs : \A i : Saw(u, i)' <=> Saw(u, i)
    BY <1>3 DEF Saw
  <2>3. ASSUME NEW u \in Txs, found'[u] # NoRow
        PROVE  /\ Saw(u, found[u])'
               /\ \A k \in DOMAIN writes'[u] :
                     Rewrites(u, k, found[u])' => writes'[u][k].op # "delete"
    <3>1. found'[u] = found[u] /\ found[u] # NoRow
      BY <1>3, <2>3
    <3> QED BY <1>3, <3>1 DEF BufferInv, Saw, Rewrites
  <2> QED BY <1>3, <2>1, <2>2, <2>3 DEF BufferInv
<1>4. ASSUME NEW t \in Txs, read_set' = read_set, found' = found,
             \A u \in Txs \ {t} : writes'[u] = writes[u],
             writes'[t] = <<>> \/ (writes[t] # <<>> /\ writes'[t] = Tail(writes[t]))
      PROVE  BufferInv'
  <2>1. \A k \in DOMAIN writes'[t] :
           k \in Nat /\ k + 1 \in DOMAIN writes[t] /\ writes'[t][k] = writes[t][k + 1]
    <3>1. writes[t] \in Seq(WriteOps)
      BY <1>0
    <3>2. CASE writes'[t] = <<>>
      BY <3>2
    <3>3. CASE writes[t] # <<>> /\ writes'[t] = Tail(writes[t])
      BY <3>1, <3>3, TailFact
    <3> QED BY <1>4, <3>2, <3>3
  <2>2. \A k \in DOMAIN writes'[t] : \A i : Rewrites(t, k, i)' => Rewrites(t, k + 1, i)
    BY <2>1 DEF Rewrites
  <2>3. \A u \in Txs : \A k, i : u # t => (Rewrites(u, k, i)' <=> Rewrites(u, k, i))
    BY <1>4 DEF Rewrites
  <2>4. \A u \in Txs : \A i : Saw(u, i)' <=> Saw(u, i)
    BY <1>4 DEF Saw
  <2>5. ASSUME NEW u \in Txs, NEW j \in DOMAIN writes'[u], NEW k \in DOMAIN writes'[u],
               NEW i \in Ids, Rewrites(u, j, i)', Rewrites(u, k, i)', j < k
        PROVE  writes'[u][j].op # "delete"
    <3>1. CASE u # t
      BY <1>4, <2>3, <2>5, <3>1 DEF BufferInv
    <3>2. CASE u = t
      <4>1. /\ j + 1 \in DOMAIN writes[t] /\ k + 1 \in DOMAIN writes[t] /\ j + 1 < k + 1
            /\ writes'[t][j] = writes[t][j + 1]
        BY <2>1, <2>5, <3>2
      <4>2. Rewrites(t, j + 1, i) /\ Rewrites(t, k + 1, i)
        BY <2>2, <2>5, <3>2
      <4> QED BY <3>2, <4>1, <4>2 DEF BufferInv
    <3> QED BY <3>1, <3>2
  <2>6. ASSUME NEW u \in Txs, NEW k \in DOMAIN writes'[u], NEW i \in Ids, Rewrites(u, k, i)'
        PROVE  Saw(u, i)'
    <3>1. CASE u # t
      BY <1>4, <2>3, <2>4, <2>6, <3>1 DEF BufferInv
    <3>2. CASE u = t
      BY <2>1, <2>2, <2>4, <2>6, <3>2 DEF BufferInv
    <3> QED BY <3>1, <3>2
  <2>7. ASSUME NEW u \in Txs, found'[u] # NoRow
        PROVE  /\ Saw(u, found[u])'
               /\ \A k \in DOMAIN writes'[u] :
                     Rewrites(u, k, found[u])' => writes'[u][k].op # "delete"
    <3>1. Saw(u, found[u])'
      BY <1>4, <2>7 DEF BufferInv, Saw
    <3>2. CASE u # t
      <4>1. \A k \in DOMAIN writes[u] : Rewrites(u, k, found[u]) => writes[u][k].op # "delete"
        BY <1>4, <2>7 DEF BufferInv
      <4> QED BY <1>4, <3>1, <3>2, <4>1 DEF Rewrites
    <3>3. CASE u = t
      <4>1. \A k \in DOMAIN writes[t] : Rewrites(t, k, found[t]) => writes[t][k].op # "delete"
        BY <1>4, <2>7, <3>3 DEF BufferInv
      <4>2. ASSUME NEW k \in DOMAIN writes'[t], Rewrites(t, k, found[t])'
            PROVE  writes'[t][k].op # "delete"
        <5>1. Rewrites(t, k + 1, found[t])
          BY <1>4, <2>2, <4>2 DEF Rewrites
        <5> QED BY <2>1, <4>1, <4>2, <5>1
      <4> QED BY <3>1, <3>3, <4>2
    <3> QED BY <3>2, <3>3
  <2> QED BY <2>5, <2>6, <2>7 DEF BufferInv
<1>5. ASSUME NEW t \in Txs, rollback(t) \/ ValidateConflict(t) \/ ApplyFails(t) PROVE BufferInv'
  BY <1>0, <1>4, <1>5 DEF rollback, ValidateConflict, ApplyFails
<1>6. ASSUME NEW t \in Txs, ApplyWrite(t) PROVE BufferInv'
  <2>1. writes[t] # <<>> /\ read_set' = read_set /\ found' = found
        /\ writes' = [writes EXCEPT ![t] = Tail(@)]
    BY <1>6 DEF ApplyWrite, TypeInv, ControlInv
  <2> QED BY <1>0, <1>4, <2>1
<1>7. ASSUME \/ UNCHANGED vars \/ \E w \in WriteOps : DirectWrite(w)
             \/ \E t \in Txs : \/ begin(t) \/ \E i \in Ids : GetVersion(t, i)
                               \/ CommitReadOnly(t) \/ CommitStart(t) \/ LockStripe(t)
                               \/ AllLocked(t) \/ ValidateOk(t) \/ ClaimSeq(t) \/ Stamp(t)
      PROVE  BufferInv'
  <2>1. /\ writes' = writes /\ read_set' = read_set
        /\ \A u \in Txs : found'[u] = found[u] \/ found'[u] = NoRow
    BY <1>0, <1>7 DEF vars, DirectWrite, begin, GetVersion, CommitReadOnly, CommitStart,
       LockStripe, AllLocked, ValidateOk, ClaimSeq, Stamp
  <2> QED BY <1>3, <2>1
<1> QED BY <1>1, <1>2, <1>5, <1>6, <1>7, NextCases

LEMMA UpdatableStep ==
    ASSUME BatchesOnly, TypeInv, LockInv, SeenInv, BufferInv, UpdatableInv, [Next]_vars,
           SeenInv', ReadsCurrent', TypeInv', BufferInv'
    PROVE  UpdatableInv'
<1> SUFFICES ASSUME NEW t \in Txs, pc'[t] \in Running,
                    NEW k \in DOMAIN writes'[t], writes'[t][k].op = "update"
             PROVE  writes'[t][k].id \in DOMAIN tab'.rows
  BY DEF UpdatableInv
<1>0. /\ writes \in [Txs -> Seq(WriteOps)] /\ writes' \in [Txs -> Seq(WriteOps)]
      /\ \A u \in Txs : \A r \in read_set[u] : r.id \in Ids
  BY DEF TypeInv, TypeOK
<1>1. PICK i : i = writes'[t][k].id
  OBVIOUS
<1>2. i \in Ids /\ Rewrites(t, k, i)'
  <2>1. writes'[t][k] \in WriteOps
    BY <1>0
  <2> QED BY <1>1, <2>1, WriteOpCases DEF Rewrites
<1>3. pc'[t] \in Committing
  BY DEF Committing
<1>4. pc[t] \in Running \/ ValidateOk(t)
  BY <1>3, CommitFrame
<1>5. CASE ValidateOk(t)
  <2>1. Saw(t, i)'
    BY <1>2 DEF BufferInv
  <2>2. PICK r \in read_set'[t] : r.live /\ r.id = i
    BY <2>1 DEF Saw
  <2>3. touched'[t] = {}
    BY <1>5 DEF ValidateOk, TypeInv, ControlInv, committing
  <2>4. mods'[r.id] = r.mod
    BY <2>2, <2>3 DEF ReadsCurrent, BatchesOnly
  <2> QED BY <1>1, <2>2, <2>4 DEF SeenInv
<1>6. CASE pc[t] \in Running
  <2>1. PICK j \in DOMAIN writes[t] :
               /\ writes'[t][k] = writes[t][j]
               /\ \A u \in Txs : ApplyWrite(u) /\ u = t => j # 1 /\ j \in Nat
    <3>1. CASE writes'[t] = writes[t] /\ ~ApplyWrite(t)
      BY <3>1
    <3>2. CASE ApplyWrite(t)
      <4>1. writes'[t] = Tail(writes[t]) /\ writes[t] # <<>> /\ writes[t] \in Seq(WriteOps)
        BY <1>0, <3>2 DEF ApplyWrite, TypeInv, ControlInv
      <4>2. k \in Nat /\ k + 1 \in DOMAIN writes[t] /\ writes'[t][k] = writes[t][k + 1] /\ k >= 1
        BY <4>1, TailFact
      <4> QED BY <4>2
    <3> QED BY <1>3, <3>1, <3>2, CommitFrame
  <2>2. i \in DOMAIN tab.rows /\ Rewrites(t, j, i)
    BY <1>1, <1>6, <2>1 DEF UpdatableInv, Rewrites
  <2>3. stripes[stripe_index[i]] = t
    BY <1>6, <2>1, <2>2 DEF LockInv, Rewrites, Committing
  <2>4. CASE \E u \in Txs : ApplyWrite(u)
    <3>1. PICK u \in Txs : ApplyWrite(u)
      BY <2>4
    <3> DEFINE w == Head(writes[u])
    <3>2. writes[u] \in Seq(WriteOps) /\ writes[u] # <<>>
      BY <1>0, <3>1 DEF ApplyWrite, TypeInv, ControlInv
    <3>3. w \in WriteOps /\ 1 \in DOMAIN writes[u] /\ w = writes[u][1]
      BY <3>2, TailFact
    <3>4. EngineCallGood(w)
      BY <3>1, <3>3, EngineCallKeeps DEF ApplyWrite, TypeInv
    <3>5. ASSUME w.op = "delete", w.id = i PROVE FALSE
      <4>1. u = t
        BY <2>3, <3>1, <3>5, ApplyLocked
      <4>2. Rewrites(t, 1, i) /\ writes[t][1].op = "delete" /\ 1 < j
        <5>1. DOMAIN writes[t] = 1 .. Len(writes[t])
          BY <1>0
        <5> QED BY <2>1, <3>1, <3>3, <3>5, <4>1, <5>1 DEF Rewrites
      <4> QED BY <1>2, <2>1, <2>2, <3>3, <4>1, <4>2 DEF BufferInv
    <3>6. tab' = EngineCall(w).tab
      BY <3>1 DEF ApplyWrite
    <3> QED BY <1>1, <2>2, <3>4, <3>5, <3>6 DEF EngineCallGood
  <2>5. CASE ~\E u \in Txs : ApplyWrite(u)
    <3>1. ASSUME NEW w \in WriteOps, DirectWrite(w) PROVE FALSE
      BY <3>1 DEF DirectWrite, TypeInv, TypeOK, BatchesOnly
    <3>2. tab' = tab
      BY <2>5, <3>1, NextCases DEF vars, begin, GetVersion, GetRow, CommitStart, LockStripe,
         AllLocked, ValidateOk, Buffer, rollback, CommitReadOnly, ValidateConflict, ApplyFails,
         ClaimSeq, Stamp, shared
    <3> QED BY <1>1, <2>2, <3>2
  <2> QED BY <2>4, <2>5
<1> QED BY <1>4, <1>5, <1>6

(***************************************************************************)
(* In a batch that passed validation no engine call fails.                 *)
(***************************************************************************)
LEMMA NoApplyFails ==
    ASSUME BatchesOnly, TypeInv, UpdatableInv, NEW t \in Txs, ApplyFails(t)
    PROVE  FALSE
<1> DEFINE w == Head(writes[t])
<1>1. pc[t] = "applying" /\ Failed(w)
  BY DEF ApplyFails
<1>2. writes[t] \in Seq(WriteOps) /\ writes[t] # <<>>
  BY <1>1 DEF TypeInv, TypeOK, ControlInv
<1>3. w \in WriteOps /\ 1 \in DOMAIN writes[t] /\ w = writes[t][1]
  BY <1>2, TailFact
<1>4. w.op = "update" => w.id \in DOMAIN tab.rows
  BY <1>1, <1>3 DEF UpdatableInv, Running
<1> HIDE DEF w
<1>5. w.op # "delete" => /\ w.values \in RowInputs
                         /\ \A id : check_uniq(tab, w.values, id)
                         /\ validate_row_values(w.values)
  BY <1>3, WriteOpCases DEF BatchesOnly, check_uniq
<1>6. CASE w.op = "insert"
  BY <1>1, <1>5, <1>6 DEF Failed, EngineCall, insert, insert_unchecked, Outcome
<1>7. CASE w.op = "update"
  BY <1>1, <1>4, <1>5, <1>7 DEF Failed, EngineCall, update, Outcome
<1>8. w.op # "delete"
  BY <1>1 DEF Failed
<1> QED BY <1>3, <1>6, <1>7, <1>8, WriteOpCases

LEMMA AllOrNothingStep ==
    ASSUME BatchesOnly, TypeInv, UpdatableInv, AllOrNothing, [Next]_vars
    PROVE  AllOrNothing'
<1> SUFFICES ASSUME NEW t \in Txs, outcome'[t] \in {"conflict", "error"}
             PROVE  touched'[t] = {}
  BY DEF AllOrNothing
<1>0. /\ outcome \in [Txs -> {"none", "ok", "conflict", "error", "rolled_back"}]
      /\ DOMAIN touched = Txs
      /\ pc[t] # "done" => outcome[t] = "none"
      /\ pc[t] = "validating" => touched[t] = {}
      /\ outcome[t] \in {"conflict", "error"} => touched[t] = {}
  BY DEF TypeInv, TypeOK, ControlInv, AllOrNothing
<1>1. ASSUME UNCHANGED vars \/ \E w \in WriteOps : DirectWrite(w) PROVE touched'[t] = {}
  BY <1>0, <1>1 DEF vars, DirectWrite, committing
<1>2. ASSUME NEW u \in Txs,
             \/ begin(u) \/ GetRow(u) \/ CommitStart(u)
             \/ \E i \in Ids : GetVersion(u, i)
             \/ \E w \in WriteOps : Buffer(u, w)
             \/ rollback(u) \/ CommitReadOnly(u) \/ ValidateConflict(u)
             \/ LockStripe(u) \/ AllLocked(u) \/ ValidateOk(u) \/ ClaimSeq(u)
             \/ ApplyWrite(u) \/ Stamp(u)
      PROVE  touched'[t] = {}
  BY <1>0, <1>2 DEF begin, GetRow, CommitStart, GetVersion, Buffer, rollback, CommitReadOnly,
        ValidateConflict, LockStripe, AllLocked, ValidateOk, ClaimSeq, ApplyWrite, Stamp, committing
<1> QED BY <1>1, <1>2, NoApplyFails, NextCases

(***************************************************************************)
(* All or nothing (execute_atomic): among any number of batches and        *)
(* procedures, whose values fit the schema and take no unique key, a       *)
(* commit that answers an error has written nothing: the rows its updates  *)
(* need cannot have gone between validation and the engine call.           *)
(***************************************************************************)
THEOREM BatchesAllOrNothing ==
    ASSUME BatchesOnly
    PROVE  Spec => []AllOrNothing
<1> DEFINE I == /\ TypeInv /\ SeqInv /\ StampInv /\ LockInv /\ SeenInv /\ VersionInv
                /\ ReadsCurrent /\ BufferInv /\ UpdatableInv /\ AllOrNothing
<1>1. Init => I
  <2>1. Init => BufferInv /\ UpdatableInv /\ AllOrNothing
    BY DEF Init, BufferInv, UpdatableInv, AllOrNothing, Rewrites, Running
  <2> QED BY <2>1, TypeInit, CommitInit
<1>2. I /\ [Next]_vars => I'
  <2> SUFFICES ASSUME I, [Next]_vars PROVE I'
    OBVIOUS
  <2>0. MaxDirect = 0
    BY DEF BatchesOnly
  <2>1. TypeInv' /\ SeqInv' /\ StampInv' /\ LockInv' /\ SeenInv'
    BY TypeStep, SeqStep, StampStep, LockStep, SeenStep
  <2>2. AllOrNothing'
    BY AllOrNothingStep
  <2>3. VersionInv' /\ ReadsCurrent'
    BY <2>0, <2>2, VersionStep, ReadsCurrentStep
  <2>4. BufferInv'
    BY BufferStep
  <2>5. UpdatableInv'
    BY <2>1, <2>3, <2>4, UpdatableStep
  <2> QED BY <2>1, <2>2, <2>3, <2>4, <2>5
<1>3. I => AllOrNothing
  OBVIOUS
<1> HIDE DEF I
<1> QED BY <1>1, <1>2, <1>3, PTL DEF Spec

(***************************************************************************)
(* The two together: batches lose no update.                               *)
(***************************************************************************)
COROLLARY BatchesLoseNoUpdate ==
    ASSUME BatchesOnly
    PROVE  Spec => []ReadsCurrent
<1>1. MaxDirect = 0
  BY DEF BatchesOnly
<1> QED BY <1>1, BatchesAllOrNothing, NoLostUpdate, PTL

-----------------------------------------------------------------------------
(* First committer wins.                                                   *)

\* No transaction has an insert in its buffer: an inserted row is visible
\* before it is stamped and is covered by no stripe.
NoInserts == \A t \in Txs : \A k \in DOMAIN writes[t] : writes[t][k].op # "insert"

\* The rows a commit has rewritten or has yet to rewrite.
Claims(t, i) == i \in touched[t] \/ \E k \in DOMAIN writes[t] : Rewrites(t, k, i)

\* The rows a commit has written are locked by it until they are stamped.
TouchedInv ==
    \A t \in Txs : pc[t] \in {"applying", "stamping"} =>
        \A i \in touched[t] : stripes[stripe_index[i]] = t

\* The commits that wrote a row before its present holder claimed its
\* sequence number have smaller numbers, and the version keeps the greatest.
OrderInv ==
    /\ \A t, u \in Txs, i \in Ids :
          /\ pc[t] \in {"applying", "stamping"} /\ Claims(t, i)
          /\ outcome[u] = "ok" /\ i \in touched[u]
          => seq[u] < seq[t]
    /\ \A u \in Txs, i \in Ids :
          outcome[u] = "ok" /\ i \in touched[u] => seq[u] <= versions[i]

(***************************************************************************)
(* A commit answers ok in two ways: it stamps what it wrote, or it had     *)
(* nothing to write.                                                       *)
(***************************************************************************)
LEMMA NewlyOk ==
    ASSUME TypeInv, [Next]_vars, NEW u \in Txs, outcome[u] # "ok", outcome'[u] = "ok"
    PROVE  /\ touched' = touched /\ seq' = seq /\ pc'[u] = "done"
           /\ Stamp(u) \/ touched[u] = {}
<1>0. /\ outcome \in [Txs -> {"none", "ok", "conflict", "error", "rolled_back"}]
      /\ pc \in [Txs -> {"new", "active", "reading", "locking", "validating", "done"} \cup Running]
      /\ pc[u] = "active" => touched[u] = {}
  BY DEF TypeInv, TypeOK, ControlInv
<1>1. Stamp(u) \/ CommitReadOnly(u)
  <2>1. ASSUME NEW t \in Txs,
               \/ begin(t) \/ GetRow(t) \/ CommitStart(t) \/ LockStripe(t) \/ AllLocked(t)
               \/ ValidateOk(t) \/ ClaimSeq(t) \/ ApplyWrite(t)
               \/ \E i \in Ids : GetVersion(t, i)
               \/ \E w \in WriteOps : Buffer(t, w)
        PROVE  outcome' = outcome
    BY <2>1 DEF begin, GetVersion, GetRow, CommitStart, LockStripe, AllLocked, ValidateOk, Buffer,
                ApplyWrite, ClaimSeq
  <2>2. ASSUME UNCHANGED vars \/ \E w \in WriteOps : DirectWrite(w) PROVE outcome' = outcome
    BY <2>2 DEF vars, DirectWrite
  <2>3. ASSUME NEW t \in Txs, rollback(t) \/ ValidateConflict(t) \/ ApplyFails(t)
        PROVE  outcome'[u] = outcome[u] \/ outcome'[u] # "ok"
    BY <1>0, <2>3 DEF rollback, ValidateConflict, ApplyFails
  <2>4. ASSUME NEW t \in Txs, CommitReadOnly(t) \/ Stamp(t)
        PROVE  u # t => outcome'[u] = outcome[u]
    BY <1>0, <2>4 DEF CommitReadOnly, Stamp
  <2> QED BY <2>1, <2>2, <2>3, <2>4, NextCases
<1>2. CASE Stamp(u)
  BY <1>0, <1>2 DEF Stamp
<1>3. CASE CommitReadOnly(u)
  BY <1>0, <1>3 DEF CommitReadOnly, committing
<1> QED BY <1>1, <1>2, <1>3

(***************************************************************************)
(* What a commit has still to write it already had to write before the     *)
(* step; draining a write moves its row to the rows touched.               *)
(***************************************************************************)
LEMMA DrainStep ==
    ASSUME TypeInv, NoInserts, [Next]_vars, NEW t \in Txs, pc'[t] \in Committing
    PROVE  /\ \A k \in DOMAIN writes'[t] : \E j \in DOMAIN writes[t] : writes'[t][k] = writes[t][j]
           /\ \A i \in touched'[t] : Claims(t, i)
<1>0. writes \in [Txs -> Seq(WriteOps)] /\ touched \in [Txs -> SUBSET Ids]
  BY DEF TypeInv, TypeOK
<1>1. \A k \in DOMAIN writes'[t] : \E j \in DOMAIN writes[t] : writes'[t][k] = writes[t][j]
  <2>1. CASE writes'[t] = writes[t]
    BY <2>1
  <2>2. CASE ApplyWrite(t)
    <3>1. writes'[t] = Tail(writes[t]) /\ writes[t] # <<>> /\ writes[t] \in Seq(WriteOps)
      BY <1>0, <2>2 DEF ApplyWrite, TypeInv, ControlInv
    <3> QED BY <3>1, TailFact
  <2> QED BY <2>1, <2>2, CommitFrame
<1>2. \A i \in touched'[t] : Claims(t, i)
  <2>1. CASE touched'[t] = touched[t]
    BY <2>1 DEF Claims
  <2>2. CASE ApplyWrite(t)
    <3>1. writes[t] # <<>> /\ writes[t] \in Seq(WriteOps)
      BY <1>0, <2>2 DEF ApplyWrite, TypeInv, ControlInv
    <3>2. 1 \in DOMAIN writes[t] /\ Head(writes[t]) = writes[t][1]
      BY <3>1, TailFact
    <3>3. RowOf(Head(writes[t])) = writes[t][1].id
      BY <3>2 DEF RowOf, NoInserts
    <3>4. touched'[t] = touched[t] \cup {writes[t][1].id}
      BY <1>0, <2>2, <3>3 DEF ApplyWrite
    <3> QED BY <3>2, <3>4 DEF Claims, Rewrites, NoInserts
  <2>3. touched'[t] = touched[t] \/ ApplyWrite(t)
    <3>1. ASSUME NEW u \in Txs, ApplyWrite(u) PROVE u # t => touched'[t] = touched[t]
      BY <1>0, <3>1 DEF ApplyWrite
    <3>2. touched' = touched \/ \E u \in Txs : ApplyWrite(u)
      BY NextCases
         DEF vars, DirectWrite, begin, GetVersion, GetRow, CommitStart, LockStripe, AllLocked,
             ValidateOk, Buffer, rollback, CommitReadOnly, ValidateConflict, ApplyFails,
             ClaimSeq, Stamp, committing
    <3> QED BY <3>1, <3>2
  <2> QED BY <2>1, <2>2, <2>3
<1> QED BY <1>1, <1>2

LEMMA ClaimsLocked ==
    ASSUME TypeInv, LockInv, TouchedInv, NEW t \in Txs, pc[t] \in {"applying", "stamping"},
           NEW i \in Ids, Claims(t, i)
    PROVE  stripes[stripe_index[i]] = t
BY DEF LockInv, TouchedInv, Claims, Rewrites, Committing, Running

LEMMA TouchedStep ==
    ASSUME TypeInv, LockInv, TouchedInv, NoInserts, [Next]_vars
    PROVE  TouchedInv'
<1> SUFFICES ASSUME NEW t \in Txs, pc'[t] \in {"applying", "stamping"}, NEW i \in touched'[t]
             PROVE  stripes'[stripe_index[i]] = t
  BY DEF TouchedInv
<1>0. pc'[t] \in Committing /\ pc'[t] # "done"
  BY DEF Committing, Running
<1>1. i \in Ids
  BY TypeStep DEF TypeInv, TypeOK
<1>2. stripe_index[i] \in Stripes
  BY <1>1, TxAssumption
<1>3. CASE pc[t] \in {"applying", "stamping"}
  <2>1. Claims(t, i)
    BY <1>0, DrainStep
  <2>2. stripes[stripe_index[i]] = t
    BY <1>1, <1>3, <2>1, ClaimsLocked
  <2> QED BY <1>0, <1>2, <2>2, HolderKeeps
<1>4. CASE ClaimSeq(t)
  <2>1. touched' = touched /\ touched[t] = {}
    BY <1>4 DEF ClaimSeq, TypeInv, ControlInv
  <2> QED BY <2>1
<1> QED BY <1>0, <1>3, <1>4, CommitFrame

LEMMA OrderStep ==
    ASSUME TypeInv, SeqInv, LockInv, TouchedInv, OrderInv, NoInserts, [Next]_vars
    PROVE  OrderInv'
<1>0. /\ seq \in [Txs -> Nat] /\ versions \in [Ids -> Nat] /\ commit_seq \in Nat
      /\ touched \in [Txs -> SUBSET Ids]
      /\ \A t \in Txs : pc[t] # "done" => outcome[t] = "none"
  BY DEF TypeInv, TypeOK, ControlInv
<1>1. ASSUME NEW t \in Txs, NEW u \in Txs, NEW i \in Ids,
             pc'[t] \in {"applying", "stamping"}, Claims(t, i)',
             outcome'[u] = "ok", i \in touched'[u]
      PROVE  seq'[u] < seq'[t]
  <2>0. pc'[t] \in Committing
    BY <1>1 DEF Committing, Running
  <2>1. Claims(t, i)
    <3>1. CASE i \in touched'[t]
      BY <2>0, <3>1, DrainStep
    <3>2. CASE \E k \in DOMAIN writes'[t] : Rewrites(t, k, i)'
      BY <2>0, <3>2, DrainStep DEF Rewrites, Claims
    <3> QED BY <1>1, <3>1, <3>2 DEF Claims
  <2>2. CASE ClaimSeq(t)
    <3>1. /\ outcome' = outcome /\ touched' = touched /\ seq'[t] = commit_seq + 1
          /\ \A v \in Txs : v # t => seq'[v] = seq[v]
          /\ outcome[t] = "none"
      BY <1>0, <2>2 DEF ClaimSeq
    <3> QED BY <1>0, <1>1, <3>1 DEF SeqInv
  <2>3. CASE pc[t] \in {"applying", "stamping"}
    <3>1. seq'[t] = seq[t]
      BY <1>0, <2>3, NextCases
         DEF vars, DirectWrite, begin, GetVersion, GetRow, CommitStart, LockStripe, AllLocked,
             ValidateOk, Buffer, rollback, CommitReadOnly, ValidateConflict, ApplyFails, ApplyWrite,
             ClaimSeq, Stamp, committing
    <3>2. CASE outcome[u] = "ok"
      BY <1>1, <2>1, <2>3, <3>1, <3>2, OkIsFinal DEF OrderInv
    <3>3. CASE outcome[u] # "ok"
      <4>1. Stamp(u) /\ i \in touched[u] /\ pc'[u] = "done"
        BY <1>1, <3>3, NewlyOk
      <4>2. stripes[stripe_index[i]] = u
        BY <4>1 DEF Stamp, TouchedInv
      <4>3. stripes[stripe_index[i]] = t
        BY <2>1, <2>3, ClaimsLocked
      <4> QED BY <1>1, <4>1, <4>2, <4>3
    <3> QED BY <3>2, <3>3
  <2> QED BY <1>1, <2>0, <2>2, <2>3, CommitFrame
<1>2. ASSUME NEW u \in Txs, NEW i \in Ids, outcome'[u] = "ok", i \in touched'[u]
      PROVE  seq'[u] <= versions'[i]
  <2>1. CASE outcome[u] = "ok"
    <3>1. seq'[u] = seq[u] /\ i \in touched[u] /\ seq[u] <= versions[i]
      BY <1>2, <2>1, OkIsFinal DEF OrderInv
    <3>2. ASSUME NEW t \in Txs, Stamp(t) PROVE seq[u] <= versions'[i]
      <4>1. /\ versions'[i] = IF i \in touched[t] THEN seq[t] ELSE versions[i]
            /\ pc[t] = "stamping"
        BY <3>2 DEF Stamp
      <4>2. i \in touched[t] => seq[u] < seq[t]
        BY <2>1, <3>1, <4>1 DEF OrderInv, Claims
      <4> QED BY <1>0, <3>1, <4>1, <4>2
    <3>3. versions' = versions \/ \E t \in Txs : Stamp(t)
      BY NextCases DEF vars, DirectWrite, begin, GetVersion, GetRow, CommitStart, LockStripe,
         AllLocked, ValidateOk, Buffer, rollback, CommitReadOnly, ValidateConflict, ApplyFails,
         ApplyWrite, ClaimSeq, committing, shared
    <3> QED BY <3>1, <3>2, <3>3
  <2>2. CASE outcome[u] # "ok"
    <3>1. Stamp(u) /\ i \in touched[u] /\ seq' = seq
      BY <1>2, <2>2, NewlyOk
    <3>2. versions'[i] = seq[u]
      BY <3>1 DEF Stamp
    <3> QED BY <1>0, <3>1, <3>2
  <2> QED BY <2>1, <2>2
<1> QED BY <1>1, <1>2 DEF OrderInv

LEMMA WriteWriteStep ==
    ASSUME TypeInv, LockInv, TouchedInv, OrderInv, WriteWriteRejected, NoInserts, [Next]_vars
    PROVE  WriteWriteRejected'
<1> SUFFICES ASSUME NEW t \in Txs, NEW u \in Txs, pc'[t] \in Running, outcome'[u] = "ok",
                    NEW k \in DOMAIN writes'[t], writes'[t][k].op # "insert",
                    writes'[t][k].id \in touched'[u]
             PROVE  seq'[u] <= start_seq'[t]
  BY DEF WriteWriteRejected
<1>0. pc'[t] \in Committing /\ pc'[t] # "done"
  BY DEF Committing, Running
<1>1. PICK j \in DOMAIN writes[t] : writes'[t][k] = writes[t][j]
  BY <1>0, DrainStep
<1>2. PICK i : i = writes[t][j].id
  OBVIOUS
<1>3. /\ start_seq'[t] = start_seq[t] /\ (pc[t] \in Running \/ ValidateOk(t))
      /\ pc[t] \in Committing
  BY <1>0, CommitFrame DEF ValidateOk, Committing, Running
<1>4. stripes[stripe_index[i]] = t
  BY <1>1, <1>2, <1>3 DEF LockInv
<1>5. CASE outcome[u] = "ok"
  <2>1. seq'[u] = seq[u] /\ i \in touched[u]
    BY <1>1, <1>2, <1>5, OkIsFinal
  <2>2. CASE pc[t] \in Running
    BY <1>1, <1>2, <1>3, <1>5, <2>1, <2>2 DEF WriteWriteRejected
  <2>3. CASE ValidateOk(t)
    <3>1. i \in Ids /\ versions[i] \in Nat /\ start_seq[t] \in Nat /\ seq[u] \in Nat
      BY <2>1 DEF TypeInv, TypeOK
    <3>2. versions[i] <= start_seq[t]
      BY <1>1, <1>2, <2>3, <3>1 DEF ValidateOk, WriteConflict
    <3>3. seq[u] <= versions[i]
      BY <1>5, <2>1, <3>1 DEF OrderInv
    <3> QED BY <1>3, <2>1, <3>1, <3>2, <3>3
  <2> QED BY <1>3, <2>2, <2>3
<1>6. CASE outcome[u] # "ok"
  <2>1. Stamp(u) /\ i \in touched[u] /\ pc'[u] = "done"
    BY <1>1, <1>2, <1>6, NewlyOk
  <2>2. stripes[stripe_index[i]] = u
    BY <2>1 DEF Stamp, TouchedInv
  <2> QED BY <1>0, <1>4, <2>1, <2>2
<1> QED BY <1>5, <1>6

(***************************************************************************)
(* First committer wins: among any number of transactions that update and  *)
(* delete rows, blindly or not, and with any writes outside transactions,  *)
(* a commit that has passed validation overwrites no commit that came      *)
(* after its snapshot.  Transactions that insert are excluded: a row being *)
(* inserted can be rewritten before the inserting commit stamps it.        *)
(***************************************************************************)
THEOREM FirstCommitterWins == Spec /\ []NoInserts => []WriteWriteRejected
<1> DEFINE I == /\ TypeInv /\ SeqInv /\ LockInv /\ TouchedInv /\ OrderInv
                /\ WriteWriteRejected
<1>1. Init => I
  <2>1. Init => TouchedInv /\ OrderInv /\ WriteWriteRejected
    BY DEF Init, TouchedInv, OrderInv, WriteWriteRejected, Running
  <2> QED BY <2>1, TypeInit, CommitInit
<1>2. I /\ NoInserts /\ [Next]_vars => I'
  <2> SUFFICES ASSUME I, NoInserts, [Next]_vars PROVE I'
    OBVIOUS
  <2>1. TypeInv' /\ SeqInv' /\ LockInv'
    BY TypeStep, SeqStep, LockStep
  <2>2. TouchedInv' /\ OrderInv' /\ WriteWriteRejected'
    BY TouchedStep, OrderStep, WriteWriteStep
  <2> QED BY <2>1, <2>2
<1>3. I => WriteWriteRejected
  OBVIOUS
<1> HIDE DEF I
<1> QED BY <1>1, <1>2, <1>3, PTL DEF Spec
=============================================================================
