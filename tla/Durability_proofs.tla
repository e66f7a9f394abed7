--------------------------- MODULE Durability_proofs ---------------------------
(***************************************************************************)
(* Acknowledged writes survive a crash at every moment, for any number of  *)
(* writers, rows, requests, snapshots, rotations and crashes, where        *)
(* clients wait for the answer on a row, callers of save_snapshot do not   *)
(* overlap and inserted rows have all their columns.                       *)
(***************************************************************************)
EXTENDS Durability, Table_proofs, WellFoundedInduction, SequenceTheorems

-----------------------------------------------------------------------------
(* Induction over the positions of a log, by the least counterexample.     *)

LEMMA UpTo ==
    ASSUME NEW N \in Nat, NEW S, 0 \in S, \A n \in 0 .. N - 1 : n \in S => n + 1 \in S
    PROVE  0 .. N \subseteq S
<1> DEFINE T == {n \in 0 .. N : n \notin S}
<1> SUFFICES ASSUME T # {} PROVE FALSE
  OBVIOUS
<1>1. T \subseteq Nat
  OBVIOUS
<1>2. PICK m \in T : \A k \in T : ~(<<k, m>> \in OpToRel(<, Nat))
  <2> HIDE DEF T
  <2> QED BY <1>1, NatLessThanWellFounded, WFMin
<1>3. \A k \in T : ~(k < m)
  BY <1>1, <1>2 DEF OpToRel
<1>4. m \in 0 .. N /\ m \notin S /\ m # 0
  OBVIOUS
<1>5. m - 1 \in 0 .. N - 1 /\ m - 1 < m /\ (m - 1) + 1 = m
  BY <1>4
<1>6. m - 1 \in S
  BY <1>3, <1>5
<1> QED BY <1>4, <1>5, <1>6

-----------------------------------------------------------------------------
(* The recursive functions are what their equations say.                   *)

IsReplayed(g, t, log, N) ==
    g = [n \in 0 .. N |-> IF n = 0 THEN t ELSE Replay(g[n - 1], log[n])]

LEMMA ReplayedExists ==
    ASSUME NEW t, NEW log, NEW N \in Nat
    PROVE  \E g : IsReplayed(g, t, log, N)
<1> DEFINE S == {n \in Nat : \E g : IsReplayed(g, t, log, n)}
<1>1. 0 \in S
  <2>1. IsReplayed([n \in 0 .. 0 |-> t], t, log, 0)
    BY DEF IsReplayed
  <2> QED BY <2>1
<1>2. ASSUME NEW n \in 0 .. N - 1, n \in S
      PROVE  n + 1 \in S
  <2>1. PICK g : IsReplayed(g, t, log, n)
    BY <1>2
  <2> DEFINE h == [k \in 0 .. n + 1 |-> IF k = n + 1 THEN Replay(g[n], log[n + 1]) ELSE g[k]]
  <2>2. \A k \in 0 .. n + 1 : h[k] = IF k = 0 THEN t ELSE Replay(h[k - 1], log[k])
    <3> TAKE k \in 0 .. n + 1
    <3>1. CASE k = n + 1
      BY <3>1
    <3>2. CASE k # n + 1 /\ k # 0
      <4>1. k \in 0 .. n /\ k - 1 \in 0 .. n + 1 /\ k - 1 # n + 1
        BY <3>2
      <4>2. g[k] = Replay(g[k - 1], log[k])
        BY <2>1, <3>2, <4>1 DEF IsReplayed
      <4> QED BY <3>2, <4>1, <4>2
    <3>3. CASE k = 0
      <4>1. 0 \in 0 .. n /\ 0 # n + 1
        OBVIOUS
      <4>2. g[0] = t
        BY <2>1, <4>1 DEF IsReplayed
      <4> QED BY <3>3, <4>1, <4>2
    <3> QED BY <3>1, <3>2, <3>3
  <2>3. h = [k \in 0 .. n + 1 |-> h[k]]
    OBVIOUS
  <2> HIDE DEF h
  <2>4. IsReplayed(h, t, log, n + 1)
    BY <2>2, <2>3 DEF IsReplayed
  <2> QED BY <2>4
<1>3. 0 .. N \subseteq S
  <2> HIDE DEF S
  <2> QED BY <1>1, <1>2, UpTo
<1> QED BY <1>3

LEMMA ReplayedDef ==
    ASSUME NEW t, NEW log, Len(log) \in Nat
    PROVE  /\ Replayed(t, log)[0] = t
           /\ \A n \in 1 .. Len(log) :
                 Replayed(t, log)[n] = Replay(Replayed(t, log)[n - 1], log[n])
<1>1. IsReplayed(Replayed(t, log), t, log, Len(log))
  BY ReplayedExists DEF Replayed, IsReplayed
<1> DEFINE f == Replayed(t, log)
<1> HIDE DEF f
<1>2. f = [n \in 0 .. Len(log) |-> IF n = 0 THEN t ELSE Replay(f[n - 1], log[n])]
  BY <1>1 DEF IsReplayed, f
<1>3. f[0] = t /\ \A n \in 1 .. Len(log) : f[n] = Replay(f[n - 1], log[n])
  BY <1>2
<1> QED BY <1>3 DEF f

IsRestored(g, rows, N) ==
    g = [n \in 0 .. N |->
            IF n = 0 THEN NewTable
            ELSE IF n \in DOMAIN rows THEN insert_preserving_id(g[n - 1], n, rows[n]).tab
            ELSE g[n - 1]]

LEMMA RestoredExists ==
    ASSUME NEW rows, NEW N \in Nat
    PROVE  \E g : IsRestored(g, rows, N)
<1> DEFINE S == {n \in Nat : \E g : IsRestored(g, rows, n)}
           Put(t, n) == IF n \in DOMAIN rows THEN insert_preserving_id(t, n, rows[n]).tab ELSE t
<1>1. 0 \in S
  <2>1. IsRestored([n \in 0 .. 0 |-> NewTable], rows, 0)
    BY DEF IsRestored
  <2> QED BY <2>1
<1>2. ASSUME NEW n \in 0 .. N - 1, n \in S
      PROVE  n + 1 \in S
  <2>1. PICK g : IsRestored(g, rows, n)
    BY <1>2
  <2>2. g = [k \in 0 .. n |-> IF k = 0 THEN NewTable ELSE Put(g[k - 1], k)]
    BY <2>1 DEF IsRestored
  <2> DEFINE h == [k \in 0 .. n + 1 |-> IF k = n + 1 THEN Put(g[n], n + 1) ELSE g[k]]
  <2> HIDE DEF Put
  <2>3. \A k \in 0 .. n + 1 : h[k] = IF k = 0 THEN NewTable ELSE Put(h[k - 1], k)
    <3> TAKE k \in 0 .. n + 1
    <3>1. CASE k = n + 1
      BY <3>1
    <3>2. CASE k # n + 1 /\ k # 0
      <4>1. k \in 0 .. n /\ k - 1 \in 0 .. n + 1 /\ k - 1 # n + 1
        BY <3>2
      <4>2. g[k] = Put(g[k - 1], k)
        BY <2>2, <3>2, <4>1
      <4> QED BY <3>2, <4>1, <4>2
    <3>3. CASE k = 0
      <4>1. 0 \in 0 .. n /\ 0 # n + 1
        OBVIOUS
      <4>2. g[0] = NewTable
        BY <2>2, <4>1
      <4> QED BY <3>3, <4>1, <4>2
    <3> QED BY <3>1, <3>2, <3>3
  <2>4. h = [k \in 0 .. n + 1 |-> h[k]]
    OBVIOUS
  <2> HIDE DEF h
  <2>5. h = [k \in 0 .. n + 1 |-> IF k = 0 THEN NewTable ELSE Put(h[k - 1], k)]
    BY <2>3, <2>4
  <2>6. IsRestored(h, rows, n + 1)
    BY <2>5 DEF IsRestored, Put
  <2> QED BY <2>6
<1>3. 0 .. N \subseteq S
  <2> HIDE DEF S
  <2> QED BY <1>1, <1>2, UpTo
<1> QED BY <1>3

LEMMA RestoredDef ==
    ASSUME NEW rows
    PROVE  /\ Restored(rows)[0] = NewTable
           /\ \A n \in 1 .. MaxId :
                 Restored(rows)[n] = IF n \in DOMAIN rows
                                     THEN insert_preserving_id(Restored(rows)[n - 1], n, rows[n]).tab
                                     ELSE Restored(rows)[n - 1]
<1>0. MaxId \in Nat
  BY DurabilityAssumption
<1>1. IsRestored(Restored(rows), rows, MaxId)
  <2>1. \E g : IsRestored(g, rows, MaxId)
    BY <1>0, RestoredExists
  <2>2. Restored(rows) = CHOOSE g : IsRestored(g, rows, MaxId)
    BY Zenon DEF Restored, IsRestored
  <2> QED BY <2>1, <2>2, Zenon
<1> DEFINE f == Restored(rows)
           Put(t, n) == IF n \in DOMAIN rows THEN insert_preserving_id(t, n, rows[n]).tab ELSE t
<1> HIDE DEF f, Put
<1>2. f = [n \in 0 .. MaxId |-> IF n = 0 THEN NewTable ELSE Put(f[n - 1], n)]
  BY <1>1 DEF IsRestored, f, Put
<1>3. f[0] = NewTable /\ \A n \in 1 .. MaxId : f[n] = Put(f[n - 1], n)
  BY <1>0, <1>2
<1> QED BY <1>3 DEF f, Put

-----------------------------------------------------------------------------
(* One row of the replay: what the log makes of it depends on the row      *)
(* alone.                                                                  *)

RowStep(st, e) ==
    CASE e.op = "insert" -> IF st = Gone THEN e.values ELSE st
      [] e.op = "update" -> IF st = Gone THEN Gone ELSE e.values
      [] e.op = "delete" -> Gone

RowMove(st, i, e) == IF e.id = i THEN RowStep(st, e) ELSE st

RowRuns(x, i, log) ==
    LET upto[n \in 0 .. Len(log)] == IF n = 0 THEN x ELSE RowMove(upto[n - 1], i, log[n])
    IN  upto

RowAfter(x, i, log) == RowRuns(x, i, log)[Len(log)]

IsRowRun(g, x, i, log, N) ==
    g = [n \in 0 .. N |-> IF n = 0 THEN x ELSE RowMove(g[n - 1], i, log[n])]

LEMMA RowRunExists ==
    ASSUME NEW x, NEW i, NEW log, NEW N \in Nat
    PROVE  \E g : IsRowRun(g, x, i, log, N)
<1> DEFINE S == {n \in Nat : \E g : IsRowRun(g, x, i, log, n)}
<1>1. 0 \in S
  <2>1. IsRowRun([n \in 0 .. 0 |-> x], x, i, log, 0)
    BY DEF IsRowRun
  <2> QED BY <2>1
<1>2. ASSUME NEW n \in 0 .. N - 1, n \in S
      PROVE  n + 1 \in S
  <2>1. PICK g : IsRowRun(g, x, i, log, n)
    BY <1>2
  <2> DEFINE h == [k \in 0 .. n + 1 |-> IF k = n + 1 THEN RowMove(g[n], i, log[n + 1]) ELSE g[k]]
  <2>2. \A k \in 0 .. n + 1 : h[k] = IF k = 0 THEN x ELSE RowMove(h[k - 1], i, log[k])
    <3> TAKE k \in 0 .. n + 1
    <3>1. CASE k = n + 1
      BY <3>1
    <3>2. CASE k # n + 1 /\ k # 0
      <4>1. k \in 0 .. n /\ k - 1 \in 0 .. n + 1 /\ k - 1 # n + 1
        BY <3>2
      <4>2. g[k] = RowMove(g[k - 1], i, log[k])
        BY <2>1, <3>2, <4>1 DEF IsRowRun
      <4> QED BY <3>2, <4>1, <4>2
    <3>3. CASE k = 0
      <4>1. 0 \in 0 .. n /\ 0 # n + 1
        OBVIOUS
      <4>2. g[0] = x
        BY <2>1, <4>1 DEF IsRowRun
      <4> QED BY <3>3, <4>1, <4>2
    <3> QED BY <3>1, <3>2, <3>3
  <2>3. h = [k \in 0 .. n + 1 |-> h[k]]
    OBVIOUS
  <2> HIDE DEF h
  <2>4. IsRowRun(h, x, i, log, n + 1)
    BY <2>2, <2>3 DEF IsRowRun
  <2> QED BY <2>4
<1>3. 0 .. N \subseteq S
  <2> HIDE DEF S
  <2> QED BY <1>1, <1>2, UpTo
<1> QED BY <1>3

LEMMA RowRunsDef ==
    ASSUME NEW x, NEW i, NEW log, Len(log) \in Nat
    PROVE  /\ RowRuns(x, i, log)[0] = x
           /\ \A n \in 1 .. Len(log) :
                 RowRuns(x, i, log)[n] = RowMove(RowRuns(x, i, log)[n - 1], i, log[n])
<1>1. IsRowRun(RowRuns(x, i, log), x, i, log, Len(log))
  BY RowRunExists DEF RowRuns, IsRowRun
<1> DEFINE f == RowRuns(x, i, log)
<1> HIDE DEF f
<1>2. f = [n \in 0 .. Len(log) |-> IF n = 0 THEN x ELSE RowMove(f[n - 1], i, log[n])]
  BY <1>1 DEF IsRowRun, f
<1>3. f[0] = x /\ \A n \in 1 .. Len(log) : f[n] = RowMove(f[n - 1], i, log[n])
  BY <1>2
<1> QED BY <1>3 DEF f

-----------------------------------------------------------------------------
(* Tables whose rows have all their columns.                               *)

\* Rows with all their columns, and those that come back from disk as they are.
Whole == [Cols -> Vals \cup {Null}]
OnDisk == {v \in Whole : Roundtrip(v) = v}
DiskStates == OnDisk \cup {Gone}
DiskImages == UNION {[I -> OnDisk] : I \in SUBSET Ids}
DiskEntry == {e \in LogEntry : e.op # "delete" => e.values \in OnDisk}

\* A table of rows of V, its allocator past every one of them.
TableOf(t, V) ==
    /\ IsTable(t) /\ DOMAIN t.rows \subseteq Ids
    /\ \A i \in DOMAIN t.rows : t.rows[i] \in V /\ i < t.next_id

LEMMA WholeValues == Whole \subseteq Values
BY DEF Whole, Values

LEMMA NotGone == Gone \notin Values /\ Gone \notin OnDisk
BY DurabilityAssumption, WholeValues DEF OnDisk

LEMMA DiskImage ==
    ASSUME NEW R
    PROVE  R \in DiskImages <=> /\ DOMAIN R \subseteq Ids
                                /\ R = [i \in DOMAIN R |-> R[i]]
                                /\ \A i \in DOMAIN R : R[i] \in OnDisk
BY DEF DiskImages

LEMMA NoRowsImage == NoRows \in DiskImages /\ DOMAIN NoRows = {}
BY DEF DiskImages, NoRows

LEMMA DiskImageNotPartial == Partial \notin DiskImages
<1>1. DiskImages \subseteq Image
  BY WholeValues, DiskImage DEF Image, OnDisk
<1> QED BY <1>1, PartialAssumption

(***************************************************************************)
(* A row written to disk and read back stays as it is from then on: the    *)
(* JSON form of a value is read back as a value with the same JSON form.   *)
(***************************************************************************)
LEMMA RoundtripOnDisk ==
    ASSUME NEW v \in Whole
    PROVE  Roundtrip(v) \in OnDisk
<1>1. Roundtrip(v) \in Whole
  BY DurabilityAssumption DEF Roundtrip, Whole
<1>2. DOMAIN v = Cols /\ \A c \in Cols : v[c] \in Vals \cup {Null}
  BY DEF Whole
<1>3. Roundtrip(v) = [c \in Cols |-> IF v[c] = Null THEN Null ELSE Json[v[c]]]
  BY <1>2 DEF Roundtrip
<1>4. Null \notin Vals /\ Json \in [Vals -> Vals] /\ \A x \in Vals : Json[Json[x]] = Json[x]
  BY DurabilityAssumption, TableAssumption
<1>5. \A c \in Cols : (IF Roundtrip(v)[c] = Null THEN Null ELSE Json[Roundtrip(v)[c]])
                      = Roundtrip(v)[c]
  BY <1>2, <1>3, <1>4
<1>6. Roundtrip(Roundtrip(v))
        = [c \in Cols |-> IF Roundtrip(v)[c] = Null THEN Null ELSE Json[Roundtrip(v)[c]]]
  BY <1>3 DEF Roundtrip
<1>7. Roundtrip(Roundtrip(v)) = Roundtrip(v)
  BY <1>3, <1>5, <1>6
<1> QED BY <1>1, <1>7 DEF OnDisk

\* An update that names columns of the table keeps a row whole; one with all
\* of them replaces it.
LEMMA MergeWhole ==
    ASSUME NEW old \in Whole, NEW values \in Values
    PROVE  /\ Merge(old, values) \in Whole
           /\ values \in Whole => Merge(old, values) = values
<1>1. DOMAIN values \subseteq Cols /\ values \in [DOMAIN values -> Vals \cup {Null}]
  BY DEF Values
<1>2. DOMAIN old = Cols
  BY DEF Whole
<1> QED BY <1>1, <1>2 DEF Merge, Whole

LEMMA NoUnique ==
    ASSUME NEW t, NEW values, NEW self
    PROVE  /\ check_uniq(t, values, self)
           /\ GoodTable(t) <=> IsTable(t)
BY DurabilityAssumption DEF check_uniq, GoodTable, IndexSound, IndexComplete

LEMMA IdsRowId == Ids \subseteq RowId
BY DurabilityAssumption DEF Ids, RowId, NoRow

LEMMA NewTableOf ==
    ASSUME NEW V
    PROVE  TableOf(NewTable, V) /\ DOMAIN NewTable.rows = {} /\ NewTable.next_id = 1
<1>1. IsTable(NewTable)
  BY NewTableGood DEF GoodTable
<1>2. DOMAIN NewTable.rows = {} /\ NewTable.next_id = 1
  BY DEF NewTable
<1> QED BY <1>1, <1>2 DEF TableOf

\* What an operation does to the rows and to the allocator.
LEMMA PutOf ==
    ASSUME NEW V, NEW t, TableOf(t, V), NEW i \in Ids, i \notin DOMAIN t.rows,
           NEW values \in V, values \in Values, NEW out, out = insert_preserving_id(t, i, values).tab
    PROVE  /\ TableOf(out, V)
           /\ DOMAIN out.rows = DOMAIN t.rows \cup {i}
           /\ out.rows[i] = values
           /\ \A j \in DOMAIN t.rows : out.rows[j] = t.rows[j]
           /\ t.next_id <= out.next_id /\ i < out.next_id
<1>1. IsTable(out)
  BY NoUnique, IdsRowId, InsertPreservingIdGood DEF TableOf
<1>2. out = [rows |-> PutRow(t.rows, i, values),
             next_id |-> IF i >= t.next_id THEN i + 1 ELSE t.next_id,
             uniq |-> index_row(t.uniq, i, values)]
  BY NoUnique DEF insert_preserving_id, Outcome
<1>3. out.rows = PutRow(t.rows, i, values)
      /\ out.next_id = IF i >= t.next_id THEN i + 1 ELSE t.next_id
  BY <1>2
<1>4. t.next_id \in Nat /\ i \in Nat /\ DOMAIN t.rows \subseteq Nat
  BY IdsRowId DEF TableOf, IsTable, RowId
<1>5. /\ DOMAIN out.rows = DOMAIN t.rows \cup {i} /\ out.rows[i] = values
      /\ \A j \in DOMAIN t.rows : out.rows[j] = t.rows[j]
  BY <1>3 DEF PutRow
<1>6. t.next_id <= out.next_id /\ i < out.next_id
  BY <1>3, <1>4
<1>7. DOMAIN t.rows \subseteq Ids /\ \A j \in DOMAIN t.rows : t.rows[j] \in V /\ j < t.next_id
  BY DEF TableOf
<1>8. out.next_id \in Nat
  BY <1>3, <1>4
<1>9. \A j \in DOMAIN t.rows : j < out.next_id
  BY <1>4, <1>6, <1>7, <1>8
<1>10. TableOf(out, V)
  BY <1>1, <1>5, <1>6, <1>7, <1>9 DEF TableOf
<1> QED BY <1>5, <1>6, <1>10

LEMMA UpdateOf ==
    ASSUME NEW V, NEW t, TableOf(t, V), NEW i \in DOMAIN t.rows,
           NEW values \in Values, Merge(t.rows[i], values) \in V,
           NEW out, out = update(t, i, values).tab
    PROVE  /\ TableOf(out, V)
           /\ DOMAIN out.rows = DOMAIN t.rows
           /\ out.rows[i] = Merge(t.rows[i], values)
           /\ \A j \in DOMAIN t.rows \ {i} : out.rows[j] = t.rows[j]
           /\ out.next_id = t.next_id
<1>0. i \in Ids
  BY DEF TableOf
<1>1. IsTable(out)
  BY <1>0, NoUnique, IdsRowId, UpdateGood DEF TableOf
<1>2. out.rows = PutRow(t.rows, i, Merge(t.rows[i], values)) /\ out.next_id = t.next_id
  BY NoUnique DEF update, Outcome
<1>3. /\ DOMAIN out.rows = DOMAIN t.rows /\ out.rows[i] = Merge(t.rows[i], values)
      /\ \A j \in DOMAIN t.rows \ {i} : out.rows[j] = t.rows[j]
  BY <1>2 DEF PutRow
<1>4. TableOf(out, V)
  BY <1>1, <1>2, <1>3 DEF TableOf
<1> QED BY <1>2, <1>3, <1>4

LEMMA TakeOf ==
    ASSUME NEW V, NEW t, TableOf(t, V), NEW i \in Ids, NEW out, out = take(t, i).tab
    PROVE  /\ TableOf(out, V)
           /\ DOMAIN out.rows = DOMAIN t.rows \ {i}
           /\ \A j \in DOMAIN t.rows \ {i} : out.rows[j] = t.rows[j]
           /\ out.next_id = t.next_id
<1>1. IsTable(out)
  BY NoUnique, IdsRowId, TakeGood DEF TableOf
<1>2. CASE i \in DOMAIN t.rows
  <2>1. out.rows = DropRow(t.rows, i) /\ out.next_id = t.next_id
    BY <1>2 DEF take, Outcome
  <2>2. /\ DOMAIN out.rows = DOMAIN t.rows \ {i}
        /\ \A j \in DOMAIN t.rows \ {i} : out.rows[j] = t.rows[j]
    BY <2>1 DEF DropRow
  <2>3. TableOf(out, V)
    BY <1>1, <2>1, <2>2 DEF TableOf
  <2> QED BY <1>2, <2>1, <2>2, <2>3
<1>3. CASE i \notin DOMAIN t.rows
  BY <1>3 DEF take, Outcome
<1> QED BY <1>2, <1>3

(***************************************************************************)
(* Replaying one entry moves exactly the row it is about.                  *)
(***************************************************************************)
LEMMA ReplayRow ==
    ASSUME NEW t, TableOf(t, OnDisk), NEW e \in DiskEntry
    PROVE  /\ TableOf(Replay(t, e), OnDisk)
           /\ \A i \in Ids : StateOf(Replay(t, e).rows, i) = RowMove(StateOf(t.rows, i), i, e)
           /\ t.next_id <= Replay(t, e).next_id
           /\ e.op = "insert" => e.id < Replay(t, e).next_id
<1>1. e.id \in Ids /\ e.op \in {"insert", "update", "delete"}
      /\ (e.op # "delete" => e.values \in OnDisk)
  BY DEF DiskEntry, LogEntry
<1>2. OnDisk \subseteq Values /\ OnDisk \subseteq Whole
  BY WholeValues DEF OnDisk
<1>3. t.next_id \in Nat
  BY DEF TableOf, IsTable, RowId
<1>4. CASE e.op = "insert" /\ e.id \notin DOMAIN t.rows
  <2>1. Replay(t, e) = insert_preserving_id(t, e.id, e.values).tab
    BY <1>4 DEF Replay
  <2> DEFINE out == Replay(t, e)
  <2> HIDE DEF out
  <2>2. /\ TableOf(out, OnDisk) /\ DOMAIN out.rows = DOMAIN t.rows \cup {e.id}
        /\ out.rows[e.id] = e.values
        /\ \A j \in DOMAIN t.rows : out.rows[j] = t.rows[j]
        /\ t.next_id <= out.next_id /\ e.id < out.next_id
    BY <1>1, <1>2, <1>4, <2>1, PutOf DEF out
  <2>3. \A i \in Ids : StateOf(out.rows, i) = RowMove(StateOf(t.rows, i), i, e)
    BY <1>4, <2>2 DEF StateOf, RowMove, RowStep
  <2> QED BY <2>2, <2>3 DEF out
<1>5. CASE e.op = "insert" /\ e.id \in DOMAIN t.rows
  <2>1. Replay(t, e) = t
    BY <1>5 DEF Replay, insert_preserving_id, Outcome
  <2>2. t.rows[e.id] # Gone /\ e.id < t.next_id
    BY <1>5, NotGone DEF TableOf
  <2>3. \A i \in Ids : StateOf(t.rows, i) = RowMove(StateOf(t.rows, i), i, e)
    BY <1>5, <2>2 DEF StateOf, RowMove, RowStep
  <2> QED BY <1>3, <2>1, <2>2, <2>3
<1>6. CASE e.op = "update" /\ e.id \in DOMAIN t.rows
  <2>1. Replay(t, e) = update(t, e.id, e.values).tab
    BY <1>6 DEF Replay
  <2>2. t.rows[e.id] \in OnDisk /\ t.rows[e.id] # Gone
    BY <1>6, NotGone DEF TableOf
  <2>3. Merge(t.rows[e.id], e.values) = e.values
    BY <1>1, <1>2, <1>6, <2>2, MergeWhole
  <2> DEFINE out == Replay(t, e)
  <2> HIDE DEF out
  <2>4. /\ TableOf(out, OnDisk) /\ DOMAIN out.rows = DOMAIN t.rows
        /\ out.rows[e.id] = e.values
        /\ \A j \in DOMAIN t.rows \ {e.id} : out.rows[j] = t.rows[j]
        /\ out.next_id = t.next_id
    BY <1>1, <1>2, <1>6, <2>1, <2>3, UpdateOf DEF out
  <2>5. \A i \in Ids : StateOf(out.rows, i) = RowMove(StateOf(t.rows, i), i, e)
    BY <1>6, <2>2, <2>4 DEF StateOf, RowMove, RowStep
  <2> QED BY <1>3, <1>6, <2>4, <2>5 DEF out
<1>7. CASE e.op = "update" /\ e.id \notin DOMAIN t.rows
  <2>1. Replay(t, e) = t
    BY <1>7 DEF Replay, update, Outcome
  <2>2. \A i \in Ids : StateOf(t.rows, i) = RowMove(StateOf(t.rows, i), i, e)
    BY <1>7 DEF StateOf, RowMove, RowStep
  <2> QED BY <1>3, <1>7, <2>1, <2>2
<1>8. CASE e.op = "delete"
  <2>1. Replay(t, e) = take(t, e.id).tab
    BY <1>8 DEF Replay
  <2> DEFINE out == Replay(t, e)
  <2> HIDE DEF out
  <2>2. /\ TableOf(out, OnDisk) /\ DOMAIN out.rows = DOMAIN t.rows \ {e.id}
        /\ \A j \in DOMAIN t.rows \ {e.id} : out.rows[j] = t.rows[j]
        /\ out.next_id = t.next_id
    BY <1>1, <2>1, TakeOf DEF out
  <2>3. \A i \in Ids : StateOf(out.rows, i) = RowMove(StateOf(t.rows, i), i, e)
    BY <1>8, <2>2 DEF StateOf, RowMove, RowStep
  <2> QED BY <1>3, <1>8, <2>2, <2>3 DEF out
<1> QED BY <1>1, <1>4, <1>5, <1>6, <1>7, <1>8

(***************************************************************************)
(* Loading a snapshot brings back its rows, and an allocator past them.    *)
(***************************************************************************)
LEMMA SnapshotRows ==
    ASSUME NEW R \in DiskImages
    PROVE  LET t == LoadSnapshot(R)
           IN  /\ TableOf(t, OnDisk)
               /\ \A i \in Ids : StateOf(t.rows, i) = StateOf(R, i)
               /\ \A i \in DOMAIN R : i < t.next_id
<1> DEFINE f == Restored(R)
           S == {n \in 0 .. MaxId :
                    /\ TableOf(f[n], OnDisk)
                    /\ DOMAIN f[n].rows = {i \in DOMAIN R : i <= n}
                    /\ \A i \in DOMAIN f[n].rows : f[n].rows[i] = R[i]}
<1>0. MaxId \in Nat
  BY DurabilityAssumption
<1>1. DOMAIN R \subseteq Ids /\ \A i \in DOMAIN R : R[i] \in OnDisk
  BY DiskImage
<1>2. /\ f[0] = NewTable
      /\ \A n \in 1 .. MaxId : f[n] = IF n \in DOMAIN R
                                      THEN insert_preserving_id(f[n - 1], n, R[n]).tab
                                      ELSE f[n - 1]
  BY RestoredDef
<1> HIDE DEF f
<1>3. OnDisk \subseteq Values
  BY WholeValues DEF OnDisk
<1>4. 0 \in S
  BY <1>0, <1>1, <1>2, NewTableOf DEF Ids
<1>5. ASSUME NEW n \in 0 .. MaxId - 1, n \in S
      PROVE  n + 1 \in S
  <2>1. n + 1 \in 1 .. MaxId /\ n + 1 \in 0 .. MaxId /\ n + 1 \in Ids /\ (n + 1) - 1 = n
    BY <1>0 DEF Ids
  <2>2. CASE n + 1 \in DOMAIN R
    <3>1. f[n + 1] = insert_preserving_id(f[n], n + 1, R[n + 1]).tab
      BY <1>2, <2>1, <2>2
    <3>2. n + 1 \notin DOMAIN f[n].rows
      BY <1>5
    <3>3. R[n + 1] \in OnDisk /\ R[n + 1] \in Values /\ TableOf(f[n], OnDisk)
      BY <1>1, <1>3, <1>5, <2>2
    <3>4. /\ TableOf(f[n + 1], OnDisk) /\ DOMAIN f[n + 1].rows = DOMAIN f[n].rows \cup {n + 1}
          /\ f[n + 1].rows[n + 1] = R[n + 1]
          /\ \A j \in DOMAIN f[n].rows : f[n + 1].rows[j] = f[n].rows[j]
      BY <1>3, <2>1, <3>1, <3>2, <3>3, PutOf
    <3>5. {i \in DOMAIN R : i <= n + 1} = {i \in DOMAIN R : i <= n} \cup {n + 1}
      BY <1>1, <2>2 DEF Ids
    <3> QED BY <1>5, <2>1, <3>4, <3>5
  <2>3. CASE n + 1 \notin DOMAIN R
    <3>1. f[n + 1] = f[n]
      BY <1>2, <2>1, <2>3
    <3>2. {i \in DOMAIN R : i <= n + 1} = {i \in DOMAIN R : i <= n}
      BY <1>1, <2>3 DEF Ids
    <3> QED BY <1>5, <2>1, <3>1, <3>2
  <2> QED BY <2>2, <2>3
<1>6. MaxId \in S
  <2>1. 0 .. MaxId \subseteq S
    <3> HIDE DEF S
    <3> QED BY <1>0, <1>4, <1>5, UpTo
  <2> QED BY <1>0, <2>1
<1>7. DOMAIN f[MaxId].rows = DOMAIN R
  BY <1>1, <1>6 DEF Ids
<1>8. \A i \in DOMAIN R : i < f[MaxId].next_id
  BY <1>6, <1>7 DEF TableOf
<1> QED BY <1>6, <1>7, <1>8 DEF f, LoadSnapshot, StateOf

(***************************************************************************)
(* What recovery makes of a row is what the log makes of the row in the    *)
(* snapshot; and the allocator is past every id it has seen inserted.      *)
(***************************************************************************)
LEMMA RecoverRow ==
    ASSUME NEW R \in DiskImages, NEW log \in Seq(DiskEntry)
    PROVE  LET t == recover(R, log)
           IN  /\ TableOf(t, OnDisk)
               /\ \A i \in Ids : StateOf(t.rows, i) = RowAfter(StateOf(R, i), i, log)
               /\ \A i \in DOMAIN R : i < t.next_id
               /\ \A k \in DOMAIN log : log[k].op = "insert" => log[k].id < t.next_id
<1> DEFINE N == Len(log)
           f == Replayed(LoadSnapshot(R), log)
           S == {n \in 0 .. N :
                    /\ TableOf(f[n], OnDisk)
                    /\ \A i \in Ids : StateOf(f[n].rows, i) = RowRuns(StateOf(R, i), i, log)[n]
                    /\ \A i \in DOMAIN R : i < f[n].next_id
                    /\ \A k \in 1 .. n : log[k].op = "insert" => log[k].id < f[n].next_id}
<1>0. N \in Nat /\ DOMAIN log = 1 .. N /\ \A k \in 1 .. N : log[k] \in DiskEntry
  OBVIOUS
<1>1. /\ f[0] = LoadSnapshot(R)
      /\ \A n \in 1 .. N : f[n] = Replay(f[n - 1], log[n])
  BY <1>0, ReplayedDef
<1>2. \A i \in Ids : /\ RowRuns(StateOf(R, i), i, log)[0] = StateOf(R, i)
                     /\ \A n \in 1 .. N : RowRuns(StateOf(R, i), i, log)[n]
                            = RowMove(RowRuns(StateOf(R, i), i, log)[n - 1], i, log[n])
  BY <1>0, RowRunsDef
<1>3. recover(R, log) = f[N]
  BY DiskImageNotPartial DEF recover
<1> HIDE DEF f, N
<1>4. 0 \in S
  BY <1>0, <1>1, <1>2, SnapshotRows
<1>5. ASSUME NEW n \in 0 .. N - 1, n \in S
      PROVE  n + 1 \in S
  <2>1. n + 1 \in 1 .. N /\ n + 1 \in 0 .. N /\ (n + 1) - 1 = n
    BY <1>0
  <2>2. f[n + 1] = Replay(f[n], log[n + 1]) /\ log[n + 1] \in DiskEntry
    BY <1>0, <1>1, <2>1
  <2>3. /\ TableOf(f[n + 1], OnDisk)
        /\ \A i \in Ids : StateOf(f[n + 1].rows, i)
                            = RowMove(StateOf(f[n].rows, i), i, log[n + 1])
        /\ f[n].next_id <= f[n + 1].next_id
        /\ log[n + 1].op = "insert" => log[n + 1].id < f[n + 1].next_id
    BY <1>5, <2>2, ReplayRow
  <2>4. \A i \in Ids : StateOf(f[n + 1].rows, i) = RowRuns(StateOf(R, i), i, log)[n + 1]
    BY <1>2, <1>5, <2>1, <2>3
  <2>5. f[n].next_id \in Nat /\ f[n + 1].next_id \in Nat
    BY <1>5, <2>3 DEF TableOf, IsTable, RowId
  <2>6. DOMAIN R \subseteq Nat
    BY DiskImage DEF Ids
  <2>7. \A i \in DOMAIN R : i < f[n + 1].next_id
    BY <1>5, <2>3, <2>5, <2>6
  <2>8. \A k \in 1 .. n + 1 : log[k].op = "insert" => log[k].id < f[n + 1].next_id
    <3> SUFFICES ASSUME NEW k \in 1 .. n + 1, log[k].op = "insert"
                 PROVE  log[k].id < f[n + 1].next_id
      OBVIOUS
    <3>1. CASE k = n + 1
      BY <2>3, <3>1
    <3>2. CASE k # n + 1
      <4>1. k \in 1 .. n /\ k \in 1 .. N
        BY <1>0, <3>2, <2>1
      <4>2. log[k].id < f[n].next_id
        BY <1>5, <4>1
      <4>3. log[k].id \in Nat
        BY <1>0, <4>1 DEF DiskEntry, LogEntry, Ids
      <4> QED BY <2>3, <2>5, <4>2, <4>3
    <3> QED BY <3>1, <3>2
  <2> QED BY <2>1, <2>3, <2>4, <2>7, <2>8
<1>6. N \in S
  <2>1. 0 .. N \subseteq S
    <3> HIDE DEF S
    <3> QED BY <1>0, <1>4, <1>5, UpTo
  <2> QED BY <1>0, <2>1
<1> QED BY <1>0, <1>3, <1>6 DEF RowAfter, N

-----------------------------------------------------------------------------
(* What a log makes of one row.                                            *)

LEMMA RowAfterEmpty ==
    ASSUME NEW x, NEW i
    PROVE  RowAfter(x, i, <<>>) = x
BY RowRunsDef DEF RowAfter

LEMMA EntryFacts ==
    ASSUME NEW e \in DiskEntry
    PROVE  /\ e.id \in Ids /\ e.op \in {"insert", "update", "delete"}
           /\ e.op # "delete" => e.values \in OnDisk /\ e.values # Gone
BY NotGone DEF DiskEntry, LogEntry

(***************************************************************************)
(* Logs with a common beginning make the same of a row up to its end, and  *)
(* entries about other rows make nothing of it.                            *)
(***************************************************************************)
LEMMA RowPrefix ==
    ASSUME NEW x, NEW i, NEW l1, NEW l2, Len(l1) \in Nat, Len(l2) \in Nat,
           NEW n \in 0 .. Len(l1), n <= Len(l2),
           \A k \in 1 .. n : l1[k] = l2[k]
    PROVE  RowRuns(x, i, l1)[n] = RowRuns(x, i, l2)[n]
<1> DEFINE S == {m \in 0 .. n : RowRuns(x, i, l1)[m] = RowRuns(x, i, l2)[m]}
<1>1. 0 \in S
  BY RowRunsDef
<1>2. ASSUME NEW m \in 0 .. n - 1, m \in S
      PROVE  m + 1 \in S
  <2>1. m + 1 \in 1 .. Len(l1) /\ m + 1 \in 1 .. Len(l2) /\ (m + 1) - 1 = m /\ m + 1 \in 1 .. n
        /\ m + 1 \in 0 .. n
    OBVIOUS
  <2>2. RowRuns(x, i, l1)[m + 1] = RowMove(RowRuns(x, i, l1)[m], i, l1[m + 1])
    BY <2>1, RowRunsDef
  <2>3. RowRuns(x, i, l2)[m + 1] = RowMove(RowRuns(x, i, l2)[m], i, l2[m + 1])
    BY <2>1, RowRunsDef
  <2> QED BY <1>2, <2>1, <2>2, <2>3
<1>3. 0 .. n \subseteq S
  <2>1. n \in Nat
    OBVIOUS
  <2> HIDE DEF S
  <2> QED BY <1>1, <1>2, <2>1, UpTo
<1> QED BY <1>3

LEMMA RowSuffix ==
    ASSUME NEW x, NEW i, NEW log, Len(log) \in Nat, NEW n \in 0 .. Len(log),
           \A k \in n + 1 .. Len(log) : log[k].id # i
    PROVE  RowAfter(x, i, log) = RowRuns(x, i, log)[n]
<1> DEFINE S == {m \in 0 .. Len(log) - n : RowRuns(x, i, log)[n + m] = RowRuns(x, i, log)[n]}
<1>1. 0 \in S
  OBVIOUS
<1>2. ASSUME NEW m \in 0 .. (Len(log) - n) - 1, m \in S
      PROVE  m + 1 \in S
  <2>1. n + m + 1 \in n + 1 .. Len(log) /\ n + m + 1 \in 1 .. Len(log)
        /\ (n + m + 1) - 1 = n + m /\ n + (m + 1) = n + m + 1 /\ m + 1 \in 0 .. Len(log) - n
    OBVIOUS
  <2>2. RowRuns(x, i, log)[n + m + 1] = RowMove(RowRuns(x, i, log)[n + m], i, log[n + m + 1])
    BY <2>1, RowRunsDef
  <2> QED BY <1>2, <2>1, <2>2 DEF RowMove
<1>3. 0 .. Len(log) - n \subseteq S
  <2>1. Len(log) - n \in Nat
    OBVIOUS
  <2> HIDE DEF S
  <2> QED BY <1>1, <1>2, <2>1, UpTo
<1>4. Len(log) - n \in S /\ n + (Len(log) - n) = Len(log)
  <2> HIDE DEF S
  <2> QED BY <1>3
<1> QED BY <1>4 DEF RowAfter

LEMMA RowAfterAppend ==
    ASSUME NEW x, NEW i, NEW T, NEW log \in Seq(T), NEW e \in T
    PROVE  RowAfter(x, i, Append(log, e)) = RowMove(RowAfter(x, i, log), i, e)
<1> DEFINE l == Append(log, e)
           n == Len(log)
<1>1. /\ Len(l) = n + 1 /\ n \in Nat /\ l[n + 1] = e /\ (n + 1) - 1 = n
      /\ \A k \in 1 .. n : l[k] = log[k]
  OBVIOUS
<1> HIDE DEF l, n
<1>2. RowRuns(x, i, l)[n + 1] = RowMove(RowRuns(x, i, l)[n], i, e)
  BY <1>1, RowRunsDef
<1>3. RowRuns(x, i, log)[n] = RowRuns(x, i, l)[n]
  BY <1>1, RowPrefix DEF n
<1> QED BY <1>1, <1>2, <1>3 DEF RowAfter, l, n

\* A log without entries about the row.
LEMMA RowUntouched ==
    ASSUME NEW x, NEW i, NEW log, Len(log) \in Nat, \A k \in 1 .. Len(log) : log[k].id # i
    PROVE  RowAfter(x, i, log) = x
<1>1. RowAfter(x, i, log) = RowRuns(x, i, log)[0]
  BY RowSuffix
<1> QED BY <1>1, RowRunsDef

(***************************************************************************)
(* A row that was there and is gone was deleted by the log, so it is gone  *)
(* whatever it was before.                                                 *)
(***************************************************************************)
LEMMA GoneForAll ==
    ASSUME NEW x, NEW y, NEW i, NEW log \in Seq(DiskEntry), x # Gone, RowAfter(x, i, log) = Gone
    PROVE  RowAfter(y, i, log) = Gone
<1> DEFINE N == Len(log)
           f == RowRuns(x, i, log)
           g == RowRuns(y, i, log)
           S == {n \in 0 .. N : f[n] = Gone => g[n] = Gone}
<1>0. N \in Nat /\ \A k \in 1 .. N : log[k] \in DiskEntry
  OBVIOUS
<1>1. f[0] = x /\ \A n \in 1 .. N : f[n] = RowMove(f[n - 1], i, log[n])
  BY <1>0, RowRunsDef
<1>2. \A n \in 1 .. N : g[n] = RowMove(g[n - 1], i, log[n])
  BY <1>0, RowRunsDef
<1> HIDE DEF f, g, N
<1>3. 0 \in S
  BY <1>0, <1>1
<1>4. ASSUME NEW n \in 0 .. N - 1, n \in S
      PROVE  n + 1 \in S
  <2>1. n + 1 \in 1 .. N /\ n + 1 \in 0 .. N /\ (n + 1) - 1 = n
    BY <1>0
  <2> DEFINE e == log[n + 1]
  <2>2. f[n + 1] = RowMove(f[n], i, e) /\ g[n + 1] = RowMove(g[n], i, e)
    BY <1>1, <1>2, <2>1
  <2>3. e.op \in {"insert", "update", "delete"} /\ (e.op # "delete" => e.values # Gone)
    BY <1>0, <2>1, EntryFacts
  <2>4. f[n] = Gone => g[n] = Gone
    BY <1>4
  <2> HIDE DEF e
  <2>5. f[n + 1] = Gone => g[n + 1] = Gone
    BY <2>2, <2>3, <2>4 DEF RowMove, RowStep
  <2> QED BY <2>1, <2>5
<1>5. 0 .. N \subseteq S
  <2> HIDE DEF S
  <2> QED BY <1>0, <1>3, <1>4, UpTo
<1>6. N \in S
  BY <1>0, <1>5
<1> QED BY <1>6 DEF f, g, N, RowAfter

(***************************************************************************)
(* Where every life of the row in the log ends there, it is gone at the    *)
(* end, or the log has nothing about it.                                   *)
(***************************************************************************)
LEMMA LivesOver ==
    ASSUME NEW x, NEW i, NEW log \in Seq(DiskEntry),
           \A k \in 1 .. Len(log) : log[k].id = i =>
              \E d \in k .. Len(log) : log[d].id = i /\ log[d].op = "delete"
    PROVE  RowAfter(x, i, log) \in {x, Gone}
<1> DEFINE N == Len(log)
           f == RowRuns(x, i, log)
           Open(n) == \E k \in 1 .. n : /\ log[k].id = i
                                        /\ \A d \in k .. n : ~(log[d].id = i /\ log[d].op = "delete")
           S == {n \in 0 .. N : f[n] \in {x, Gone} \/ Open(n)}
<1>0. N \in Nat /\ \A k \in 1 .. N : log[k] \in DiskEntry
  OBVIOUS
<1>1. f[0] = x /\ \A n \in 1 .. N : f[n] = RowMove(f[n - 1], i, log[n])
  BY <1>0, RowRunsDef
<1>a. ~Open(N)
  OBVIOUS
<1> HIDE DEF f, N
<1>2. 0 \in S
  BY <1>0, <1>1
<1>3. ASSUME NEW n \in 0 .. N - 1, n \in S
      PROVE  n + 1 \in S
  <2>1. n + 1 \in 1 .. N /\ n + 1 \in 0 .. N /\ (n + 1) - 1 = n /\ n \in Nat
    BY <1>0
  <2>2. f[n + 1] = RowMove(f[n], i, log[n + 1])
    BY <1>1, <2>1
  <2>3. CASE log[n + 1].id # i
    <3>1. f[n + 1] = f[n]
      BY <2>2, <2>3 DEF RowMove
    <3>2. ASSUME Open(n) PROVE Open(n + 1)
      <4>1. PICK k \in 1 .. n :
                  /\ log[k].id = i
                  /\ \A d \in k .. n : ~(log[d].id = i /\ log[d].op = "delete")
        BY <3>2
      <4>2. k \in 1 .. n + 1 /\ \A d \in k .. n + 1 : d \in k .. n \/ d = n + 1
        BY <2>1
      <4> QED BY <2>3, <4>1, <4>2
    <3> QED BY <1>3, <2>1, <3>1, <3>2
  <2>4. CASE log[n + 1].id = i /\ log[n + 1].op = "delete"
    <3>1. f[n + 1] = Gone
      BY <2>2, <2>4 DEF RowMove, RowStep
    <3> QED BY <2>1, <3>1
  <2>5. CASE log[n + 1].id = i /\ log[n + 1].op # "delete"
    <3>1. \A d \in n + 1 .. n + 1 : d = n + 1
      BY <2>1
    <3>2. Open(n + 1)
      BY <2>1, <2>5, <3>1
    <3> QED BY <2>1, <3>2
  <2> QED BY <2>3, <2>4, <2>5
<1>4. 0 .. N \subseteq S
  <2> HIDE DEF S
  <2> QED BY <1>0, <1>2, <1>3, UpTo
<1>5. N \in S
  BY <1>0, <1>4
<1> QED BY <1>a, <1>5 DEF f, N, RowAfter

(***************************************************************************)
(* A log leaves a row as it was, or gone, or as one of its entries says.   *)
(***************************************************************************)
LEMMA RowValues ==
    ASSUME NEW x, NEW i, NEW log \in Seq(DiskEntry)
    PROVE  \/ RowAfter(x, i, log) \in {x, Gone}
           \/ \E k \in 1 .. Len(log) : /\ log[k].id = i /\ log[k].op # "delete"
                                       /\ RowAfter(x, i, log) = log[k].values
<1> DEFINE N == Len(log)
           f == RowRuns(x, i, log)
           S == {n \in 0 .. N : \/ f[n] \in {x, Gone}
                                \/ \E k \in 1 .. N : /\ log[k].id = i /\ log[k].op # "delete"
                                                     /\ f[n] = log[k].values}
<1>0. N \in Nat /\ \A k \in 1 .. N : log[k] \in DiskEntry
  OBVIOUS
<1>1. f[0] = x /\ \A n \in 1 .. N : f[n] = RowMove(f[n - 1], i, log[n])
  BY <1>0, RowRunsDef
<1> HIDE DEF f, N
<1>2. 0 \in S
  BY <1>0, <1>1
<1>3. ASSUME NEW n \in 0 .. N - 1, n \in S
      PROVE  n + 1 \in S
  <2>1. n + 1 \in 1 .. N /\ n + 1 \in 0 .. N /\ (n + 1) - 1 = n
    BY <1>0
  <2>2. f[n + 1] = RowMove(f[n], i, log[n + 1])
    BY <1>1, <2>1
  <2>3. log[n + 1].op \in {"insert", "update", "delete"}
    BY <1>0, <2>1, EntryFacts
  <2>4. \/ f[n + 1] \in {f[n], Gone}
        \/ log[n + 1].id = i /\ log[n + 1].op # "delete" /\ f[n + 1] = log[n + 1].values
    BY <2>2, <2>3 DEF RowMove, RowStep
  <2> QED BY <1>3, <2>1, <2>4
<1>4. 0 .. N \subseteq S
  <2> HIDE DEF S
  <2> QED BY <1>0, <1>2, <1>3, UpTo
<1>5. N \in S
  BY <1>0, <1>4
<1> QED BY <1>5 DEF f, N, RowAfter

LEMMA RowAfterType ==
    ASSUME NEW x \in DiskStates, NEW i, NEW log \in Seq(DiskEntry)
    PROVE  RowAfter(x, i, log) \in DiskStates
<1>1. \A k \in 1 .. Len(log) : log[k].op # "delete" => log[k].values \in OnDisk
  BY EntryFacts
<1> QED BY <1>1, RowValues DEF DiskStates

\* Entries about other rows do not matter to whether the lives of a row end.
LEMMA LivesEndPrefix ==
    ASSUME NEW i, NEW l1, NEW l2, Len(l1) \in Nat, Len(l2) \in Nat,
           DOMAIN l1 = 1 .. Len(l1), DOMAIN l2 = 1 .. Len(l2), Len(l1) <= Len(l2),
           \A k \in 1 .. Len(l1) : l1[k] = l2[k],
           \A k \in Len(l1) + 1 .. Len(l2) : l2[k].id # i
    PROVE  LivesEnd(l1, i) <=> LivesEnd(l2, i)
<1>1. \A k \in 1 .. Len(l2) : l2[k].id = i => k \in 1 .. Len(l1)
  OBVIOUS
<1>2. 1 .. Len(l1) \subseteq 1 .. Len(l2)
  OBVIOUS
<1>3. \A k, m \in 1 .. Len(l1) : k .. m \subseteq 1 .. Len(l1)
  OBVIOUS
<1>4. ASSUME LivesEnd(l1, i) PROVE LivesEnd(l2, i)
  <2> SUFFICES ASSUME NEW k \in 1 .. Len(l2), NEW m \in 1 .. Len(l2),
                      k < m, l2[k].id = i, l2[m].id = i, l2[m].op = "insert"
               PROVE  \E d \in k .. m : l2[d].id = i /\ l2[d].op = "delete"
    BY DEF LivesEnd
  <2>1. k \in 1 .. Len(l1) /\ m \in 1 .. Len(l1)
    BY <1>1
  <2>2. PICK d \in k .. m : l1[d].id = i /\ l1[d].op = "delete"
    BY <1>4, <2>1 DEF LivesEnd
  <2> QED BY <1>3, <2>1, <2>2
<1>5. ASSUME LivesEnd(l2, i) PROVE LivesEnd(l1, i)
  <2> SUFFICES ASSUME NEW k \in 1 .. Len(l1), NEW m \in 1 .. Len(l1),
                      k < m, l1[k].id = i, l1[m].id = i, l1[m].op = "insert"
               PROVE  \E d \in k .. m : l1[d].id = i /\ l1[d].op = "delete"
    BY DEF LivesEnd
  <2>2. PICK d \in k .. m : l2[d].id = i /\ l2[d].op = "delete"
    BY <1>2, <1>5 DEF LivesEnd
  <2> QED BY <1>3, <2>2
<1> QED BY <1>4, <1>5

LEMMA LivesEndAppend ==
    ASSUME NEW i, NEW log \in Seq(DiskEntry), NEW e \in DiskEntry, LivesEnd(Append(log, e), i)
    PROVE  /\ LivesEnd(log, i)
           /\ e.id = i /\ e.op = "insert" =>
                 \A k \in 1 .. Len(log) : log[k].id = i =>
                    \E d \in k .. Len(log) : log[d].id = i /\ log[d].op = "delete"
<1> DEFINE l == Append(log, e)
           n == Len(log)
<1>1. /\ Len(l) = n + 1 /\ n \in Nat /\ l[n + 1] = e /\ DOMAIN l = 1 .. n + 1
      /\ DOMAIN log = 1 .. n /\ \A k \in 1 .. n : l[k] = log[k]
  OBVIOUS
<1>2. LivesEnd(l, i)
  OBVIOUS
<1> HIDE DEF l, n
<1>3. LivesEnd(log, i)
  <2> SUFFICES ASSUME NEW k \in 1 .. n, NEW m \in 1 .. n,
                      k < m, log[k].id = i, log[m].id = i, log[m].op = "insert"
               PROVE  \E d \in k .. m : log[d].id = i /\ log[d].op = "delete"
    BY <1>1 DEF LivesEnd
  <2>1. k \in 1 .. n + 1 /\ m \in 1 .. n + 1
    BY <1>1
  <2>2. PICK d \in k .. m : l[d].id = i /\ l[d].op = "delete"
    BY <1>1, <1>2, <2>1 DEF LivesEnd
  <2>3. d \in 1 .. n
    BY <1>1
  <2> QED BY <1>1, <2>2, <2>3
<1>4. ASSUME e.id = i, e.op = "insert", NEW k \in 1 .. n, log[k].id = i
      PROVE  \E d \in k .. n : log[d].id = i /\ log[d].op = "delete"
  <2>1. k \in 1 .. n + 1 /\ n + 1 \in 1 .. n + 1 /\ k < n + 1
    BY <1>1
  <2>2. PICK d \in k .. n + 1 : l[d].id = i /\ l[d].op = "delete"
    BY <1>1, <1>2, <1>4, <2>1 DEF LivesEnd
  <2>3. d # n + 1
    BY <1>1, <1>4, <2>2
  <2>4. d \in k .. n /\ d \in 1 .. n
    BY <1>1, <2>3
  <2> QED BY <1>1, <2>2, <2>4
<1> QED BY <1>3, <1>4 DEF n

LEMMA OtherAppend ==
    ASSUME NEW i, NEW log \in Seq(DiskEntry), NEW e \in DiskEntry, e.id # i
    PROVE  /\ LivesEnd(Append(log, e), i) <=> LivesEnd(log, i)
           /\ \A x : RowAfter(x, i, Append(log, e)) = RowAfter(x, i, log)
<1> DEFINE l == Append(log, e)
<1>1. /\ Len(l) = Len(log) + 1 /\ Len(log) \in Nat /\ l[Len(log) + 1] = e
      /\ DOMAIN l = 1 .. Len(l) /\ DOMAIN log = 1 .. Len(log)
      /\ \A k \in 1 .. Len(log) : log[k] = l[k]
  OBVIOUS
<1> HIDE DEF l
<1>2. \A k \in Len(log) + 1 .. Len(l) : l[k].id # i
  BY <1>1
<1>3. LivesEnd(log, i) <=> LivesEnd(l, i)
  BY <1>1, <1>2, LivesEndPrefix
<1>4. \A x : RowAfter(x, i, Append(log, e)) = RowAfter(x, i, log)
  BY RowAfterAppend DEF RowMove
<1> QED BY <1>3, <1>4 DEF l

(***************************************************************************)
(* A crash leaves a beginning of the log; where nothing about the row      *)
(* follows it, the row comes back the same.                                *)
(***************************************************************************)
LEMMA QuietPrefix ==
    ASSUME NEW i, NEW l1 \in Seq(DiskEntry), NEW l2 \in Seq(DiskEntry), Len(l1) <= Len(l2),
           \A k \in 1 .. Len(l1) : l1[k] = l2[k],
           \A k \in Len(l1) + 1 .. Len(l2) : l2[k].id # i
    PROVE  /\ LivesEnd(l1, i) <=> LivesEnd(l2, i)
           /\ \A x : RowAfter(x, i, l1) = RowAfter(x, i, l2)
<1>1. Len(l1) \in Nat /\ Len(l2) \in Nat /\ DOMAIN l1 = 1 .. Len(l1) /\ DOMAIN l2 = 1 .. Len(l2)
  OBVIOUS
<1>2. LivesEnd(l1, i) <=> LivesEnd(l2, i)
  BY <1>1, LivesEndPrefix
<1>3. ASSUME NEW x PROVE RowAfter(x, i, l1) = RowAfter(x, i, l2)
  <2> DEFINE n == Len(l1)
  <2>1. n \in 0 .. Len(l1) /\ n <= Len(l2) /\ n \in 0 .. Len(l2)
    BY <1>1
  <2>2. RowRuns(x, i, l1)[n] = RowRuns(x, i, l2)[n]
    <3> HIDE DEF n
    <3>1. \A k \in 1 .. n : l1[k] = l2[k]
      BY DEF n
    <3> QED BY <1>1, <2>1, <3>1, RowPrefix
  <2>3. RowAfter(x, i, l2) = RowRuns(x, i, l2)[n]
    BY <1>1, <2>1, RowSuffix
  <2> QED BY <2>2, <2>3 DEF RowAfter
<1> QED BY <1>2, <1>3

-----------------------------------------------------------------------------
(* The inductive invariant.                                                *)

\* An insert that passes validation names every column.
WholeRows == \A values \in RowInputs : validate_row_values(values) => DOMAIN values = Cols

\* The row in memory, as a snapshot or a log entry would have it.
Mem(i) == IF i \in DOMAIN tab.rows THEN Roundtrip(tab.rows[i]) ELSE Gone

\* What is or will be in the file at the log's path.
Pipe == IF linked THEN file \o chan ELSE file

\* The request of w is about row i; what its answer, or one given, allows.
Busy(w, i) == writer_pc[w] # "idle" /\ req[w].entry.id = i
Allowed(i) == accepted[i] \cup {req[w].after : w \in {v \in Writers : Busy(v, i)}}

\* The snapshot, and the copy that is to become one.
Scanned(s) == spc[s] \in {"create", "write", "rename"}
IsBase(R) == R = snap \/ \E s \in Savers : Scanned(s) /\ R = image[s]

\* The copy that a rotation relies on instead of the log it removes.
InRotation == spc["rotate"] \in {"create", "write", "rename", "take", "remove", "open"}
RotBase == IF Scanned("rotate") THEN image["rotate"] ELSE snap

TypeInv ==
    /\ TableOf(tab, Whole)
    /\ gen \in Nat \ {0}
    /\ chan \in Seq(DiskEntry) /\ file \in Seq(DiskEntry) /\ synced \in 0 .. Len(file)
    /\ snap \in DiskImages /\ image \in [Savers -> DiskImages]
    /\ fd \in [Savers -> {"tmp", "snap", "none"}]
    /\ spc \in [Savers -> {"idle", "scan", "create", "write", "rename", "take",
                           "remove", "open", "end"}]
    /\ writer_pc \in [Writers -> {"idle", "check", "fetch", "send", "undo"}]
    /\ req = [w \in Writers |-> req[w]]
    /\ \A w \in Writers : writer_pc[w] # "idle" =>
          /\ req[w].entry \in DiskEntry
          /\ req[w].after = IF req[w].entry.op = "delete" THEN Gone ELSE req[w].entry.values
    /\ cl \in [Writers -> 0 .. gen]
    /\ accepted \in [Ids -> SUBSET DiskStates] /\ had \in [Ids -> SUBSET DiskStates]
    /\ unlogged \subseteq Ids

\* Where the one snapshot under way is, and what that says of the cluster.
PhaseInv ==
    /\ \A s, t \in Savers : spc[s] # "idle" /\ spc[t] # "idle" => s = t
    /\ \A s \in Savers : spc[s] \in {"take", "remove", "open", "end"} => s = "rotate"
    /\ \A s \in Savers : spc[s] \in {"write", "rename"} => fd[s] = "tmp"
    /\ \A s \in Savers : spc[s] = "rename" => tmp = image[s]
    /\ spc["rotate"] # "idle" => rotating = TRUE
    /\ wal = IF spc["rotate"] \in {"remove", "open"} THEN NoCluster ELSE gen
    /\ linked = (spc["rotate"] # "open")
    /\ spc["rotate"] = "open" => file = <<>>
    /\ unlogged # {} => spc["rotate"] = "remove"

\* Nothing on disk or on its way there is unknown to the allocator and to
\* the history.
LogInv ==
    /\ \A k \in DOMAIN Pipe : Pipe[k].op = "insert" => Pipe[k].id < tab.next_id
    /\ \A k \in DOMAIN Pipe : Pipe[k].op # "delete" => Pipe[k].values \in had[Pipe[k].id]
    /\ \A R : IsBase(R) => R \in DiskImages /\ \A i \in DOMAIN R : i < tab.next_id
    /\ \A i \in Ids : Gone \in had[i]

\* One request on a row at a time, and what it did is what memory has.
RowWriters(i) ==
    /\ \A v, w \in Writers : Busy(v, i) /\ Busy(w, i) => v = w
    /\ \A w \in Writers : Busy(w, i) =>
          /\ i < tab.next_id
          /\ Mem(i) = req[w].after
          /\ req[w].after \in had[i]
          /\ req[w].entry.op = "insert" => Gone \in accepted[i]
          /\ writer_pc[w] = "undo" => req[w].entry.op = "insert" /\ req[w].after \in accepted[i]
          /\ i \in unlogged => writer_pc[w] \in {"check", "undo"}
    /\ (\A w \in Writers : ~Busy(w, i)) => Mem(i) \in accepted[i]

\* Whatever a row is in the snapshot, the log ends in a state that is allowed.
LogAllowed(i) ==
    i \notin unlogged /\ LivesEnd(Pipe, i) =>
        \A x \in DiskStates : RowAfter(x, i, Pipe) \in Allowed(i) \cup {x}

BaseAllowed(i, R) ==
    i \notin unlogged /\ LivesEnd(Pipe, i) =>
        /\ RowAfter(StateOf(R, i), i, Pipe) \in Allowed(i)
        /\ Mem(i) # Gone /\ (\A w \in Writers : Busy(w, i) => req[w].entry.op # "insert")
              => RowAfter(StateOf(R, i), i, Pipe) # Gone

\* A request that is not going to be logged though it will be answered ok.
Unsent(w) ==
    writer_pc[w] = "send" /\ cl[w] # gen /\ ~(cl[w] = NoCluster /\ spc["rotate"] = "remove")

UnsentKept(i, R) ==
    \A w \in Writers : Busy(w, i) =>
        /\ req[w].entry.op = "insert" => StateOf(R, i) \in {Gone, req[w].after}
        /\ Unsent(w) => /\ StateOf(R, i) = req[w].after
                        /\ \A k \in DOMAIN Pipe : Pipe[k].id # i

\* The copy has what the log that is removed would have said.
RotationKept(i, R) ==
    /\ StateOf(R, i) \in Allowed(i)
    /\ \A w \in Writers : Busy(w, i) /\ writer_pc[w] \in {"fetch", "send"}
          => StateOf(R, i) = req[w].after
    /\ Mem(i) # Gone /\ (\A w \in Writers : Busy(w, i) /\ req[w].entry.op = "insert"
                                              => writer_pc[w] \in {"fetch", "send"})
          => StateOf(R, i) # Gone

RowInv(i) ==
    /\ RowWriters(i) /\ LogAllowed(i)
    /\ \A R : IsBase(R) => BaseAllowed(i, R) /\ UnsentKept(i, R)
    /\ \A R : InRotation /\ R = RotBase => RotationKept(i, R)

DurabilityInv == TypeInv /\ PhaseInv /\ LogInv /\ \A i \in Ids : RowInv(i)

-----------------------------------------------------------------------------
(* Steps that are not about a row.                                         *)

RowSame(i) ==
    /\ Mem(i)' = Mem(i)
    /\ \A w \in Writers : Busy(w, i)' <=> Busy(w, i)
    /\ \A w \in Writers : Busy(w, i) => req'[w] = req[w] /\ writer_pc'[w] = writer_pc[w]
    /\ accepted'[i] = accepted[i] /\ had[i] \subseteq had'[i]
    /\ i \in unlogged' <=> i \in unlogged
    /\ i < tab.next_id => i < tab'.next_id

PipeSame(i) ==
    /\ LivesEnd(Pipe', i) <=> LivesEnd(Pipe, i)
    /\ \A x : RowAfter(x, i, Pipe') = RowAfter(x, i, Pipe)
    /\ (\A k \in DOMAIN Pipe : Pipe[k].id # i) => (\A k \in DOMAIN Pipe' : Pipe'[k].id # i)

BasesGood(i) ==
    /\ \A R : IsBase(R)' => BaseAllowed(i, R) /\ UnsentKept(i, R)
    /\ \A w \in Writers : Busy(w, i) /\ Unsent(w)' => Unsent(w)
    /\ \A R : InRotation' /\ R = RotBase' => RotationKept(i, R)

LEMMA RowFrame ==
    ASSUME NEW i \in Ids, RowInv(i), RowSame(i), PipeSame(i), BasesGood(i)
    PROVE  RowInv(i)'
<1>1. Allowed(i)' = Allowed(i)
  BY DEF Allowed, RowSame
<1>2. RowWriters(i)'
  BY DEF RowInv, RowWriters, RowSame
<1>3. LogAllowed(i)'
  BY <1>1 DEF RowInv, LogAllowed, RowSame, PipeSame
<1>4. ASSUME NEW R, InRotation' /\ R = RotBase' PROVE RotationKept(i, R)'
  <2>1. RotationKept(i, R)
    BY <1>4 DEF BasesGood
  <2> QED BY <1>1, <2>1 DEF RotationKept, RowSame
<1>5. ASSUME NEW R, IsBase(R)' PROVE BaseAllowed(i, R)' /\ UnsentKept(i, R)'
  <2>1. BaseAllowed(i, R) /\ UnsentKept(i, R)
    BY <1>5 DEF BasesGood
  <2>2. BaseAllowed(i, R)'
    BY <1>1, <2>1 DEF BaseAllowed, RowSame, PipeSame
  <2>3. UnsentKept(i, R)'
    BY <2>1 DEF UnsentKept, RowSame, PipeSame, BasesGood
  <2> QED BY <2>2, <2>3
<1> QED BY <1>2, <1>3, <1>4, <1>5 DEF RowInv

LEMMA Calm ==
    ASSUME DurabilityInv, UNCHANGED <<tab, had, writer_pc, req, accepted, unlogged>>,
           Pipe' = Pipe,
           \A R : IsBase(R)' => IsBase(R),
           \A w \in Writers : Unsent(w)' => Unsent(w),
           InRotation' => InRotation /\ RotBase' = RotBase
    PROVE  LogInv' /\ \A i \in Ids : RowInv(i)'
<1>1. LogInv'
  BY DEF DurabilityInv, LogInv
<1>2. ASSUME NEW i \in Ids PROVE RowInv(i)'
  <2>1. RowSame(i)
    BY DEF RowSame, Mem, Busy
  <2>2. PipeSame(i)
    BY DEF PipeSame
  <2>3. BasesGood(i)
    BY DEF BasesGood, DurabilityInv, RowInv
  <2> QED BY <2>1, <2>2, <2>3, RowFrame DEF DurabilityInv
<1> QED BY <1>1, <1>2

LEMMA InitInv ==
    ASSUME DurabilityInit
    PROVE  DurabilityInv
<1> USE DEF DurabilityInit
<1>1. NoRows \in DiskImages /\ DOMAIN NoRows = {}
  BY NoRowsImage
<1>2. TypeInv
  BY <1>1, NewTableOf DEF TypeInv, DiskStates, NoReq, NoCluster
<1>3. PhaseInv
  BY DEF PhaseInv, Savers
<1>4. Pipe = <<>> /\ DOMAIN Pipe = {}
  BY DEF Pipe
<1>5. \A R : IsBase(R) => R = NoRows
  BY DEF IsBase, Scanned
<1>6. LogInv
  BY <1>1, <1>4, <1>5 DEF LogInv
<1>7. ASSUME NEW i \in Ids PROVE RowInv(i)
  <2>1. \A w \in Writers : ~Busy(w, i)
    BY DEF Busy
  <2>2. Mem(i) = Gone /\ accepted[i] = {Gone} /\ Gone \in Allowed(i)
    BY NewTableOf DEF Mem, Allowed
  <2>3. \A x : RowAfter(x, i, Pipe) = x
    BY <1>4, RowAfterEmpty
  <2>4. RowWriters(i)
    BY <2>1, <2>2 DEF RowWriters
  <2>5. LogAllowed(i)
    BY <2>3 DEF LogAllowed
  <2>6. ~InRotation
    BY DEF InRotation, Savers
  <2>7. StateOf(NoRows, i) = Gone
    BY <1>1 DEF StateOf
  <2>8. BaseAllowed(i, NoRows) /\ UnsentKept(i, NoRows)
    BY <2>1, <2>2, <2>3, <2>7 DEF BaseAllowed, UnsentKept
  <2> QED BY <1>5, <2>4, <2>5, <2>6, <2>8 DEF RowInv
<1> QED BY <1>2, <1>3, <1>6, <1>7 DEF DurabilityInv

(***************************************************************************)
(* The steps of save_snapshot but the copy of the table, and those of a    *)
(* rotation that touch no log file.                                        *)
(***************************************************************************)
LEMMA GroupAppendInv ==
    ASSUME DurabilityInv, GroupAppend
    PROVE  DurabilityInv'
<1> USE DEF GroupAppend, engine, saving, writing, history
<1>1. TypeInv /\ PhaseInv
  BY DEF DurabilityInv
<1>2. chan \in Seq(DiskEntry) /\ file \in Seq(DiskEntry) /\ chan # <<>>
  BY <1>1 DEF TypeInv
<1>3. Head(chan) \in DiskEntry /\ Tail(chan) \in Seq(DiskEntry) /\ Len(chan) \in Nat /\ Len(chan) > 0
  BY <1>2
<1>4. file' \in Seq(DiskEntry) /\ chan' \in Seq(DiskEntry) /\ synced \in 0 .. Len(file')
  BY <1>1, <1>3 DEF TypeInv
<1>5. TypeInv'
  BY <1>1, <1>4 DEF TypeInv
<1>6. PhaseInv'
  BY <1>1 DEF PhaseInv
<1>7. Pipe' = Pipe
  <2>1. CASE linked
    <3>1. Append(file, Head(chan)) \o Tail(chan) = file \o chan
      <4>1. Len(Append(file, Head(chan)) \o Tail(chan)) = Len(file \o chan)
        BY <1>2, <1>3
      <4>2. \A k \in 1 .. Len(file \o chan) :
                (Append(file, Head(chan)) \o Tail(chan))[k] = (file \o chan)[k]
        <5> TAKE k \in 1 .. Len(file \o chan)
        <5>1. CASE k <= Len(file)
          BY <1>2, <1>3, <5>1
        <5>2. CASE k = Len(file) + 1
          BY <1>2, <1>3, <5>2
        <5>3. CASE k > Len(file) + 1
          BY <1>2, <1>3, <5>3
        <5> QED BY <1>2, <5>1, <5>2, <5>3
      <4>3. Append(file, Head(chan)) \o Tail(chan) \in Seq(DiskEntry) /\ file \o chan \in Seq(DiskEntry)
        BY <1>2, <1>3
      <4> QED BY <4>1, <4>2, <4>3, SeqEqual
    <3> QED BY <2>1, <3>1 DEF Pipe
  <2>2. CASE ~linked
    BY <2>2 DEF Pipe
  <2> QED BY <2>1, <2>2
<1>8. LogInv' /\ \A i \in Ids : RowInv(i)'
  <2>1. \A R : IsBase(R)' => IsBase(R)
    BY DEF IsBase, Scanned
  <2>2. \A w \in Writers : Unsent(w)' => Unsent(w)
    BY DEF Unsent
  <2>3. InRotation' => InRotation /\ RotBase' = RotBase
    BY DEF InRotation, RotBase, Scanned
  <2>4. UNCHANGED <<tab, had, writer_pc, req, accepted, unlogged>>
    OBVIOUS
  <2> QED BY <1>7, <2>1, <2>2, <2>3, <2>4, Calm
<1> QED BY <1>5, <1>6, <1>8 DEF DurabilityInv

LEMMA SaveStartInv ==
    ASSUME NEW s \in Savers, DurabilityInv, SaveStart(s), Overlap = FALSE
    PROVE  DurabilityInv'
<1> USE DEF SaveStart, WriterAt, OthersIdle, engine, cluster, disk, writing, history
<1>1. TypeInv /\ PhaseInv
  BY DEF DurabilityInv
<1>2. TypeInv'
  BY <1>1 DEF TypeInv, Savers
<1>3. PhaseInv'
  BY <1>1 DEF TypeInv, PhaseInv, Savers
<1>4. Pipe' = Pipe
  BY DEF Pipe
<1>5. \A R : IsBase(R)' => IsBase(R)
  BY <1>1 DEF TypeInv, PhaseInv, IsBase, Scanned, Savers
<1>6. \A w \in Writers : Unsent(w)' => Unsent(w)
  BY <1>1 DEF TypeInv, PhaseInv, Unsent, Savers
<1>7. InRotation' => InRotation /\ RotBase' = RotBase
  BY <1>1 DEF TypeInv, PhaseInv, InRotation, RotBase, Scanned, Savers
<1>8. LogInv' /\ \A i \in Ids : RowInv(i)'
  BY <1>4, <1>5, <1>6, <1>7, Calm
<1> QED BY <1>2, <1>3, <1>8 DEF DurabilityInv

LEMMA CreateTmpInv ==
    ASSUME NEW s \in Savers, DurabilityInv, CreateTmp(s)
    PROVE  DurabilityInv'
<1> USE DEF CreateTmp, WriterAt, OthersIdle, engine, cluster, disk, writing, history
<1>1. TypeInv /\ PhaseInv
  BY DEF DurabilityInv
<1>2. TypeInv'
  BY <1>1 DEF TypeInv, Savers
<1>3. PhaseInv'
  BY <1>1 DEF TypeInv, PhaseInv, Savers
<1>4. Pipe' = Pipe
  BY DEF Pipe
<1>5. \A R : IsBase(R)' => IsBase(R)
  BY <1>1 DEF TypeInv, PhaseInv, IsBase, Scanned, Savers
<1>6. \A w \in Writers : Unsent(w)' => Unsent(w)
  BY <1>1 DEF TypeInv, PhaseInv, Unsent, Savers
<1>7. InRotation' => InRotation /\ RotBase' = RotBase
  BY <1>1 DEF TypeInv, PhaseInv, InRotation, RotBase, Scanned, Savers
<1>8. LogInv' /\ \A i \in Ids : RowInv(i)'
  BY <1>4, <1>5, <1>6, <1>7, Calm
<1> QED BY <1>2, <1>3, <1>8 DEF DurabilityInv

LEMMA WriteTmpInv ==
    ASSUME NEW s \in Savers, DurabilityInv, WriteTmp(s)
    PROVE  DurabilityInv'
<1> USE DEF WriteTmp, WriterAt, OthersIdle, engine, cluster, disk, writing, history
<1>1. TypeInv /\ PhaseInv
  BY DEF DurabilityInv
<1>2. TypeInv'
  BY <1>1 DEF TypeInv, Savers
<1>3. PhaseInv'
  BY <1>1 DEF TypeInv, PhaseInv, Savers
<1>4. Pipe' = Pipe
  BY DEF Pipe
<1>5. \A R : IsBase(R)' => IsBase(R)
  BY <1>1 DEF TypeInv, PhaseInv, IsBase, Scanned, Savers
<1>6. \A w \in Writers : Unsent(w)' => Unsent(w)
  BY <1>1 DEF TypeInv, PhaseInv, Unsent, Savers
<1>7. InRotation' => InRotation /\ RotBase' = RotBase
  BY <1>1 DEF TypeInv, PhaseInv, InRotation, RotBase, Scanned, Savers
<1>8. LogInv' /\ \A i \in Ids : RowInv(i)'
  BY <1>4, <1>5, <1>6, <1>7, Calm
<1> QED BY <1>2, <1>3, <1>8 DEF DurabilityInv

LEMMA RenameInv ==
    ASSUME NEW s \in Savers, DurabilityInv, Rename(s)
    PROVE  DurabilityInv'
<1> USE DEF Rename, WriterAt, OthersIdle, engine, cluster, disk, writing, history
<1>1. TypeInv /\ PhaseInv
  BY DEF DurabilityInv
<1>2. TypeInv'
  BY <1>1, NoRowsImage DEF TypeInv, PhaseInv
<1>3. PhaseInv'
  BY <1>1 DEF TypeInv, PhaseInv, Savers
<1>4. Pipe' = Pipe
  BY DEF Pipe
<1>5. \A R : IsBase(R)' => IsBase(R)
  BY <1>1 DEF TypeInv, PhaseInv, IsBase, Scanned, Savers
<1>6. \A w \in Writers : Unsent(w)' => Unsent(w)
  BY <1>1 DEF TypeInv, PhaseInv, Unsent, Savers
<1>7. InRotation' => InRotation /\ RotBase' = RotBase
  BY <1>1 DEF TypeInv, PhaseInv, InRotation, RotBase, Scanned, Savers
<1>8. LogInv' /\ \A i \in Ids : RowInv(i)'
  BY <1>4, <1>5, <1>6, <1>7, Calm
<1> QED BY <1>2, <1>3, <1>8 DEF DurabilityInv

LEMMA SaveFailsInv ==
    ASSUME NEW s \in Savers, DurabilityInv, SaveFails(s)
    PROVE  DurabilityInv'
<1> USE DEF SaveFails, WriterAt, OthersIdle, engine, cluster, disk, writing, history
<1>1. TypeInv /\ PhaseInv
  BY DEF DurabilityInv
<1>2. TypeInv'
  BY <1>1, NoRowsImage DEF TypeInv, PhaseInv
<1>3. PhaseInv'
  BY <1>1 DEF TypeInv, PhaseInv, Savers
<1>4. Pipe' = Pipe
  BY DEF Pipe
<1>5. \A R : IsBase(R)' => IsBase(R)
  BY <1>1 DEF TypeInv, PhaseInv, IsBase, Scanned, Savers
<1>6. \A w \in Writers : Unsent(w)' => Unsent(w)
  BY <1>1 DEF TypeInv, PhaseInv, Unsent, Savers
<1>7. InRotation' => InRotation /\ RotBase' = RotBase
  BY <1>1 DEF TypeInv, PhaseInv, InRotation, RotBase, Scanned, Savers
<1>8. LogInv' /\ \A i \in Ids : RowInv(i)'
  BY <1>4, <1>5, <1>6, <1>7, Calm
<1> QED BY <1>2, <1>3, <1>8 DEF DurabilityInv

LEMMA RotateStartInv ==
    ASSUME DurabilityInv, RotateStart, Overlap = FALSE
    PROVE  DurabilityInv'
<1> USE DEF RotateStart, WriterAt, OthersIdle, engine, cluster, disk, writing, history
<1>1. TypeInv /\ PhaseInv
  BY DEF DurabilityInv
<1>2. TypeInv'
  BY <1>1 DEF TypeInv, Savers
<1>3. PhaseInv'
  BY <1>1 DEF TypeInv, PhaseInv, Savers
<1>4. Pipe' = Pipe
  BY DEF Pipe
<1>5. \A R : IsBase(R)' => IsBase(R)
  BY <1>1 DEF TypeInv, PhaseInv, IsBase, Scanned, Savers
<1>6. \A w \in Writers : Unsent(w)' => Unsent(w)
  BY <1>1 DEF TypeInv, PhaseInv, Unsent, Savers
<1>7. InRotation' => InRotation /\ RotBase' = RotBase
  BY <1>1 DEF TypeInv, PhaseInv, InRotation, RotBase, Scanned, Savers
<1>8. LogInv' /\ \A i \in Ids : RowInv(i)'
  BY <1>4, <1>5, <1>6, <1>7, Calm
<1> QED BY <1>2, <1>3, <1>8 DEF DurabilityInv

LEMMA RotateTakeInv ==
    ASSUME DurabilityInv, RotateTake
    PROVE  DurabilityInv'
<1> USE DEF RotateTake, WriterAt, OthersIdle, engine, cluster, disk, writing, history
<1>1. TypeInv /\ PhaseInv
  BY DEF DurabilityInv
<1>2. TypeInv'
  BY <1>1 DEF TypeInv, Savers
<1>3. PhaseInv'
  BY <1>1 DEF TypeInv, PhaseInv, Savers
<1>4. Pipe' = Pipe
  BY DEF Pipe
<1>5. \A R : IsBase(R)' => IsBase(R)
  BY <1>1 DEF TypeInv, PhaseInv, IsBase, Scanned, Savers
<1>6. \A w \in Writers : Unsent(w)' => Unsent(w)
  BY <1>1 DEF TypeInv, PhaseInv, Unsent, Savers
<1>7. InRotation' => InRotation /\ RotBase' = RotBase
  BY <1>1 DEF TypeInv, PhaseInv, InRotation, RotBase, Scanned, Savers
<1>8. LogInv' /\ \A i \in Ids : RowInv(i)'
  BY <1>4, <1>5, <1>6, <1>7, Calm
<1> QED BY <1>2, <1>3, <1>8 DEF DurabilityInv

LEMMA RotateEndInv ==
    ASSUME DurabilityInv, RotateEnd
    PROVE  DurabilityInv'
<1> USE DEF RotateEnd, WriterAt, OthersIdle, engine, cluster, disk, writing, history
<1>1. TypeInv /\ PhaseInv
  BY DEF DurabilityInv
<1>2. TypeInv'
  BY <1>1 DEF TypeInv, Savers
<1>3. PhaseInv'
  BY <1>1 DEF TypeInv, PhaseInv, Savers
<1>4. Pipe' = Pipe
  BY DEF Pipe
<1>5. \A R : IsBase(R)' => IsBase(R)
  BY <1>1 DEF TypeInv, PhaseInv, IsBase, Scanned, Savers
<1>6. \A w \in Writers : Unsent(w)' => Unsent(w)
  BY <1>1 DEF TypeInv, PhaseInv, Unsent, Savers
<1>7. InRotation' => InRotation /\ RotBase' = RotBase
  BY <1>1 DEF TypeInv, PhaseInv, InRotation, RotBase, Scanned, Savers
<1>8. LogInv' /\ \A i \in Ids : RowInv(i)'
  BY <1>4, <1>5, <1>6, <1>7, Calm
<1> QED BY <1>2, <1>3, <1>8 DEF DurabilityInv

LEMMA GroupSyncInv ==
    ASSUME DurabilityInv, GroupSync
    PROVE  DurabilityInv'
<1> USE DEF GroupSync, WriterAt, OthersIdle, engine, cluster, disk, writing, history, saving
<1>1. TypeInv /\ PhaseInv
  BY DEF DurabilityInv
<1>2. TypeInv'
  BY <1>1 DEF TypeInv, Savers
<1>3. PhaseInv'
  BY <1>1 DEF TypeInv, PhaseInv, Savers
<1>4. Pipe' = Pipe
  BY DEF Pipe
<1>5. \A R : IsBase(R)' => IsBase(R)
  BY <1>1 DEF TypeInv, PhaseInv, IsBase, Scanned, Savers
<1>6. \A w \in Writers : Unsent(w)' => Unsent(w)
  BY <1>1 DEF TypeInv, PhaseInv, Unsent, Savers
<1>7. InRotation' => InRotation /\ RotBase' = RotBase
  BY <1>1 DEF TypeInv, PhaseInv, InRotation, RotBase, Scanned, Savers
<1>8. LogInv' /\ \A i \in Ids : RowInv(i)'
  BY <1>4, <1>5, <1>6, <1>7, Calm
<1> QED BY <1>2, <1>3, <1>8 DEF DurabilityInv

(***************************************************************************)
(* The copy of the table: what memory has of a row is allowed, and the log *)
(* makes of it what it makes of the row in the snapshot, or leaves it.     *)
(***************************************************************************)
LEMMA ScanInv ==
    ASSUME NEW s \in Savers, DurabilityInv, Scan(s)
    PROVE  DurabilityInv'
<1> USE DEF Scan, WriterAt, engine, cluster, disk, writing, history
<1> DEFINE C == [i \in DOMAIN tab.rows |-> Roundtrip(tab.rows[i])]
<1>1. TypeInv /\ PhaseInv /\ LogInv
  BY DEF DurabilityInv
<1>2. C \in DiskImages /\ DOMAIN C = DOMAIN tab.rows
  BY <1>1, RoundtripOnDisk, DiskImage DEF TypeInv, TableOf
<1>3. \A i : StateOf(C, i) = Mem(i)
  BY DEF StateOf, Mem
<1>4. image' = [image EXCEPT ![s] = C]
  OBVIOUS
<1> HIDE DEF C
<1>5. TypeInv'
  BY <1>1, <1>2, <1>4 DEF TypeInv
<1>6. PhaseInv'
  BY <1>1 DEF TypeInv, PhaseInv, Savers
<1>7. Pipe' = Pipe
  BY DEF Pipe
<1>8. \A R : IsBase(R)' => IsBase(R) \/ R = C
  BY <1>1, <1>4 DEF TypeInv, PhaseInv, IsBase, Scanned
<1>9. IsBase(snap)
  BY DEF IsBase
<1>10. LogInv'
  BY <1>1, <1>2, <1>7, <1>8 DEF LogInv, TypeInv, TableOf
<1>11. \A w \in Writers : Unsent(w)' => Unsent(w)
  BY <1>1 DEF TypeInv, PhaseInv, Unsent
<1>12. InRotation' => RotBase' = C
  BY <1>1, <1>4 DEF TypeInv, PhaseInv, InRotation, RotBase, Scanned, Savers
<1>13. ASSUME NEW i \in Ids PROVE RowInv(i)'
  <2>1. RowWriters(i) /\ LogAllowed(i) /\ BaseAllowed(i, snap) /\ UnsentKept(i, snap)
    BY <1>9 DEF DurabilityInv, RowInv
  <2>2. Mem(i) \in Allowed(i)
    BY <2>1 DEF RowWriters, Allowed
  <2>3. Mem(i) \in DiskStates
    BY <1>1, RoundtripOnDisk DEF Mem, DiskStates, TypeInv, TableOf
  <2>4. StateOf(snap, i) \in DiskStates /\ Pipe \in Seq(DiskEntry)
    BY <1>1, DiskImage DEF TypeInv, StateOf, DiskStates, Pipe
  <2>5. BaseAllowed(i, C)
    <3> SUFFICES ASSUME i \notin unlogged, LivesEnd(Pipe, i)
                 PROVE  /\ RowAfter(Mem(i), i, Pipe) \in Allowed(i)
                        /\ Mem(i) # Gone /\ (\A w \in Writers : Busy(w, i) => req[w].entry.op # "insert")
                             => RowAfter(Mem(i), i, Pipe) # Gone
      BY <1>3 DEF BaseAllowed
    <3>1. RowAfter(Mem(i), i, Pipe) \in Allowed(i)
      BY <2>1, <2>2, <2>3 DEF LogAllowed
    <3>2. ASSUME Mem(i) # Gone, \A w \in Writers : Busy(w, i) => req[w].entry.op # "insert",
                 RowAfter(Mem(i), i, Pipe) = Gone
          PROVE  FALSE
      <4>1. RowAfter(StateOf(snap, i), i, Pipe) = Gone
        BY <2>4, <3>2, GoneForAll
      <4> QED BY <2>1, <3>2, <4>1 DEF BaseAllowed
    <3> QED BY <3>1, <3>2
  <2>6. UnsentKept(i, C)
    BY <1>3, <2>1 DEF UnsentKept, RowWriters
  <2>7. RotationKept(i, C)
    BY <1>3, <2>1, <2>2 DEF RotationKept, RowWriters
  <2>8. BasesGood(i)
    BY <1>8, <1>11, <1>12, <2>5, <2>6, <2>7 DEF BasesGood, DurabilityInv, RowInv
  <2>9. RowSame(i)
    BY DEF RowSame, Mem, Busy
  <2>10. PipeSame(i)
    BY <1>7 DEF PipeSame
  <2> QED BY <2>8, <2>9, <2>10, RowFrame DEF DurabilityInv
<1> QED BY <1>5, <1>6, <1>10, <1>13 DEF DurabilityInv

(***************************************************************************)
(* The log is removed: the snapshot written before has what it said.       *)
(***************************************************************************)
LEMMA RotateRemoveInv ==
    ASSUME DurabilityInv, RotateRemove
    PROVE  DurabilityInv'
<1> USE DEF RotateRemove, WriterAt, engine, writing
<1>1. TypeInv /\ PhaseInv /\ LogInv
  BY DEF DurabilityInv
<1>2. TypeInv'
  <2>1. file' \in Seq(DiskEntry) /\ synced' \in 0 .. Len(file')
    BY EmptySeq
  <2>2. spc' \in [Savers -> {"idle", "scan", "create", "write", "rename", "take",
                           "remove", "open", "end"}]
    BY <1>1 DEF TypeInv
  <2> QED BY <1>1, <2>1, <2>2 DEF TypeInv
<1>3. PhaseInv'
  BY <1>1 DEF TypeInv, PhaseInv, Savers
<1>4. Pipe' = <<>> /\ DOMAIN Pipe' = {}
  BY DEF Pipe
<1>5. \A R : IsBase(R)' => R = snap
  BY <1>1 DEF TypeInv, PhaseInv, IsBase, Scanned, Savers
<1>6. IsBase(snap)
  BY DEF IsBase
<1>7. LogInv'
  BY <1>1, <1>4, <1>5, <1>6 DEF LogInv
<1>8. ASSUME NEW i \in Ids PROVE RowInv(i)'
  <2>1. InRotation /\ RotBase = snap /\ RotBase' = snap
    BY <1>1 DEF TypeInv, PhaseInv, InRotation, RotBase, Scanned, Savers
  <2>2. RowWriters(i) /\ UnsentKept(i, snap) /\ RotationKept(i, snap)
    BY <1>6, <2>1 DEF DurabilityInv, RowInv
  <2>3. Mem(i)' = Mem(i) /\ Allowed(i)' = Allowed(i)
    BY DEF Mem, Allowed, Busy
  <2>4. \A w \in Writers : Busy(w, i)' <=> Busy(w, i)
    BY DEF Busy
  <2>5. \A x : RowAfter(x, i, Pipe') = x
    BY <1>4, RowAfterEmpty
  <2>6. RowWriters(i)'
    BY <2>2, <2>3, <2>4 DEF RowWriters
  <2>7. LogAllowed(i)'
    BY <2>5 DEF LogAllowed
  <2>8. BaseAllowed(i, snap)'
    BY <2>2, <2>3, <2>4, <2>5 DEF BaseAllowed, RotationKept
  <2>9. UnsentKept(i, snap)'
    BY <1>4, <2>2, <2>4 DEF UnsentKept, RotationKept, Unsent
  <2>10. RotationKept(i, snap)'
    BY <2>2, <2>3, <2>4 DEF RotationKept
  <2>11. snap' = snap
    OBVIOUS
  <2> QED BY <1>5, <2>1, <2>6, <2>7, <2>8, <2>9, <2>10, <2>11 DEF RowInv
<1> QED BY <1>2, <1>3, <1>7, <1>8 DEF DurabilityInv

(***************************************************************************)
(* The new cluster: whoever still holds the old one has what it wrote in   *)
(* the snapshot.                                                           *)
(***************************************************************************)
LEMMA RotateOpenInv ==
    ASSUME DurabilityInv, RotateOpen
    PROVE  DurabilityInv'
<1> USE DEF RotateOpen, WriterAt, engine, disk, writing, history
<1>1. TypeInv /\ PhaseInv /\ LogInv
  BY DEF DurabilityInv
<1>2. TypeInv'
  <2>1. <<>> \in Seq(DiskEntry)
    OBVIOUS
  <2>2. gen + 1 \in Nat \ {0} /\ 0 .. gen \subseteq 0 .. gen + 1
    BY <1>1 DEF TypeInv
  <2>3. cl \in [Writers -> 0 .. gen + 1]
    BY <1>1, <2>2 DEF TypeInv
  <2> QED BY <1>1, <2>1, <2>2, <2>3 DEF TypeInv
<1>3. PhaseInv'
  BY <1>1 DEF TypeInv, PhaseInv, Savers
<1>4. Pipe = <<>> /\ Pipe' = <<>> /\ DOMAIN Pipe' = {}
  <2>1. file = <<>> /\ ~linked
    BY <1>1 DEF PhaseInv
  <2>2. <<>> \o <<>> = <<>>
    BY EmptySeq, ConcatEmptySeq
  <2> QED BY <2>1, <2>2 DEF Pipe
<1>5. \A R : IsBase(R)' => R = snap
  BY <1>1 DEF TypeInv, PhaseInv, IsBase, Scanned, Savers
<1>6. IsBase(snap)
  BY DEF IsBase
<1>7. LogInv'
  BY <1>1, <1>4, <1>5, <1>6 DEF LogInv
<1>8. ASSUME NEW i \in Ids PROVE RowInv(i)'
  <2>1. InRotation /\ RotBase = snap /\ ~InRotation'
    BY <1>1 DEF TypeInv, PhaseInv, InRotation, RotBase, Scanned, Savers
  <2>2. RowWriters(i) /\ LogAllowed(i) /\ BaseAllowed(i, snap) /\ UnsentKept(i, snap)
        /\ RotationKept(i, snap)
    BY <1>6, <2>1 DEF DurabilityInv, RowInv
  <2>3. Mem(i)' = Mem(i) /\ Allowed(i)' = Allowed(i)
    BY DEF Mem, Allowed, Busy
  <2>4. \A w \in Writers : Busy(w, i)' <=> Busy(w, i)
    BY DEF Busy
  <2>6. RowWriters(i)'
    BY <2>2, <2>3, <2>4 DEF RowWriters
  <2>7. LogAllowed(i)'
    BY <1>4, <2>2, <2>3 DEF LogAllowed
  <2>8. BaseAllowed(i, snap)'
    BY <1>4, <2>2, <2>3, <2>4 DEF BaseAllowed
  <2>9. UnsentKept(i, snap)'
    BY <1>4, <2>2, <2>4 DEF UnsentKept, RotationKept, Unsent
  <2>11. snap' = snap
    OBVIOUS
  <2> QED BY <1>5, <2>1, <2>6, <2>7, <2>8, <2>9, <2>11 DEF RowInv
<1> QED BY <1>2, <1>3, <1>7, <1>8 DEF DurabilityInv

-----------------------------------------------------------------------------
(* Steps of a writer.                                                      *)

LEMMA OtherRow ==
    ASSUME NEW w0 \in Writers, NEW i0, NEW i \in Ids, i # i0, RowInv(i),
           \A v \in Writers \ {w0} : /\ writer_pc'[v] = writer_pc[v]
                                     /\ req'[v] = req[v] /\ cl'[v] = cl[v],
           writer_pc[w0] # "idle" => req[w0].entry.id = i0,
           writer_pc'[w0] # "idle" => req'[w0].entry.id = i0,
           Mem(i)' = Mem(i), accepted'[i] = accepted[i], had[i] \subseteq had'[i],
           i \in unlogged' <=> i \in unlogged, i < tab.next_id => i < tab'.next_id,
           PipeSame(i), UNCHANGED <<gen, snap, image, spc>>
    PROVE  RowInv(i)'
<1>1. ~Busy(w0, i) /\ ~Busy(w0, i)'
  BY DEF Busy
<1>2. RowSame(i)
  BY <1>1 DEF RowSame, Busy
<1>3. \A R : IsBase(R)' => IsBase(R)
  BY DEF IsBase, Scanned
<1>4. \A w \in Writers : Busy(w, i) /\ Unsent(w)' => Unsent(w)
  BY <1>1 DEF Unsent
<1>5. InRotation' => InRotation /\ RotBase' = RotBase
  BY DEF InRotation, RotBase, Scanned
<1>6. BasesGood(i)
  BY <1>3, <1>4, <1>5 DEF BasesGood, RowInv
<1> QED BY <1>2, <1>6, RowFrame

LEMMA EngineDoneInv ==
    ASSUME DurabilityInv, NEW w \in Writers, NEW op \in {"insert", "update", "delete"},
           NEW i \in Ids, NEW out, NEW values \in Values, EngineDone(w, op, i, out, values),
           TableOf(out.tab, Whole), tab.next_id <= out.tab.next_id, i < out.tab.next_id,
           DOMAIN out.tab.rows \ {i} = DOMAIN tab.rows \ {i},
           \A j \in DOMAIN tab.rows \ {i} : out.tab.rows[j] = tab.rows[j],
           op = "delete" => i \notin DOMAIN out.tab.rows,
           op # "delete" => i \in DOMAIN out.tab.rows /\ values = Roundtrip(out.tab.rows[i]),
           \A v \in Writers : ~Busy(v, i),
           op = "insert" => i \notin DOMAIN tab.rows /\ \A R : IsBase(R) => i \notin DOMAIN R,
           op = "update" => i \in DOMAIN tab.rows
    PROVE  DurabilityInv'
<1> DEFINE after == IF op = "delete" THEN Gone ELSE Roundtrip(out.tab.rows[i])
           e == [op |-> op, id |-> i, values |-> values]
<1>1. TypeInv /\ PhaseInv /\ LogInv /\ RowInv(i)
  BY DEF DurabilityInv
<1>2. /\ writer_pc[w] = "idle" /\ tab' = out.tab
      /\ had' = [had EXCEPT ![i] = @ \cup {after}]
      /\ writer_pc' = [writer_pc EXCEPT ![w] = "check"]
      /\ req' = [req EXCEPT ![w] = [entry |-> e, after |-> after]]
      /\ UNCHANGED <<wal, gen, chan, linked, rotating, file, synced, snap, tmp, image, fd, spc,
                     cl, accepted, unlogged>>
  BY DEF EngineDone, cluster, disk, saving, history
<1>3. /\ e \in LogEntry /\ e.op = op /\ e.id = i /\ e.values = values
  BY DEF LogEntry
<1>4. op # "delete" => values = after /\ values \in OnDisk
  BY RoundtripOnDisk DEF TableOf
<1>5. e \in DiskEntry /\ after = (IF op = "delete" THEN Gone ELSE values)
  BY <1>3, <1>4 DEF DiskEntry
<1>6. after \in DiskStates /\ (after = Gone <=> op = "delete")
  BY <1>4, NotGone DEF DiskStates
<1>7. Mem(i)' = after
  BY <1>2 DEF Mem
<1>8. \A j \in Ids \ {i} : Mem(j)' = Mem(j)
  BY <1>2 DEF Mem
<1> HIDE DEF after, e
<1>9. req'[w].entry = e /\ req'[w].after = after /\ writer_pc'[w] = "check"
      /\ \A v \in Writers \ {w} : req'[v] = req[v] /\ writer_pc'[v] = writer_pc[v]
  BY <1>1, <1>2 DEF TypeInv
<1>10. had'[i] = had[i] \cup {after} /\ \A j \in Ids \ {i} : had'[j] = had[j]
  BY <1>1, <1>2 DEF TypeInv
<1>11. TypeInv'
  <2>1. had' \in [Ids -> SUBSET DiskStates]
    BY <1>1, <1>2, <1>6 DEF TypeInv
  <2>2. req' = [v \in Writers |-> req'[v]] /\ writer_pc' \in [Writers -> {"idle", "check", "fetch", "send", "undo"}]
    BY <1>1, <1>2 DEF TypeInv
  <2>3. \A v \in Writers : writer_pc'[v] # "idle" =>
          /\ req'[v].entry \in DiskEntry
          /\ req'[v].after = IF req'[v].entry.op = "delete" THEN Gone ELSE req'[v].entry.values
    BY <1>1, <1>3, <1>5, <1>9 DEF TypeInv
  <2> QED BY <1>1, <1>2, <2>1, <2>2, <2>3 DEF TypeInv
<1>12. PhaseInv'
  BY <1>1, <1>2 DEF PhaseInv
<1>13. Pipe' = Pipe
  BY <1>2 DEF Pipe
<1>14. \A R : IsBase(R)' => IsBase(R)
  BY <1>2 DEF IsBase, Scanned
<1>15. tab.next_id \in Nat /\ tab'.next_id \in Nat /\ tab.next_id <= tab'.next_id /\ i < tab'.next_id
  BY <1>1, <1>2 DEF TypeInv, TableOf, IsTable, RowId
<1>16. Pipe \in Seq(DiskEntry)
  BY <1>1 DEF TypeInv, Pipe
<1>17. \A j \in Ids : had[j] \subseteq had'[j]
  BY <1>10
<1>18. LogInv'
  <2>1. ASSUME NEW k \in DOMAIN Pipe
        PROVE  /\ Pipe[k].op = "insert" => Pipe[k].id < tab'.next_id
               /\ Pipe[k].op # "delete" => Pipe[k].values \in had'[Pipe[k].id]
    <3>1. Pipe[k].id \in Ids /\ Pipe[k].id \in Nat
      BY <1>16, EntryFacts DEF Ids
    <3> QED BY <1>1, <1>15, <1>17, <3>1 DEF LogInv
  <2>2. ASSUME NEW R, IsBase(R)
        PROVE  R \in DiskImages /\ \A j \in DOMAIN R : j < tab'.next_id
    <3>1. R \in DiskImages /\ \A j \in DOMAIN R : j < tab.next_id
      BY <1>1, <2>2 DEF LogInv
    <3>2. DOMAIN R \subseteq Nat
      BY <3>1, DiskImage DEF Ids
    <3> QED BY <1>15, <3>1, <3>2
  <2>3. \A j \in Ids : Gone \in had'[j]
    BY <1>1, <1>17 DEF LogInv
  <2> QED BY <1>13, <1>14, <2>1, <2>2, <2>3 DEF LogInv
<1>19. ASSUME NEW j \in Ids, j # i PROVE RowInv(j)'
  <2>1. j < tab.next_id => j < tab'.next_id
    BY <1>15 DEF Ids
  <2>2. PipeSame(j)
    BY <1>13 DEF PipeSame
  <2>3. RowInv(j) /\ Mem(j)' = Mem(j) /\ accepted'[j] = accepted[j] /\ had[j] \subseteq had'[j]
        /\ (j \in unlogged' <=> j \in unlogged)
    BY <1>2, <1>8, <1>17, <1>19 DEF DurabilityInv
  <2>4. \A v \in Writers \ {w} : writer_pc'[v] = writer_pc[v] /\ req'[v] = req[v] /\ cl'[v] = cl[v]
    BY <1>2, <1>9
  <2>5. writer_pc'[w] # "idle" => req'[w].entry.id = i
    BY <1>3, <1>9
  <2>6. writer_pc[w] # "idle" => req[w].entry.id = i
    BY <1>2
  <2>7. UNCHANGED <<gen, snap, image, spc>>
    BY <1>2
  <2> QED BY <1>19, <2>1, <2>2, <2>3, <2>4, <2>5, <2>6, <2>7, OtherRow
<1>20. RowInv(i)'
  <2>1. \A v \in Writers : Busy(v, i)' <=> v = w
    BY <1>3, <1>9 DEF Busy
  <2>2. Allowed(i) = accepted[i] /\ Allowed(i)' = accepted[i] \cup {after}
    BY <1>2, <1>9, <2>1 DEF Allowed
  <2>3. Mem(i) \in accepted[i] /\ (op = "insert" => Mem(i) = Gone)
    BY <1>1 DEF RowInv, RowWriters, Mem
  <2>4. op = "update" => Mem(i) # Gone
    BY <1>1, RoundtripOnDisk, NotGone DEF Mem, TypeInv, TableOf
  <2>5. RowWriters(i)'
    <3>1. i \in unlogged' => writer_pc'[w] \in {"check", "undo"}
      BY <1>9
    <3> QED BY <1>2, <1>3, <1>7, <1>9, <1>10, <1>15, <2>1, <2>3, <3>1 DEF RowWriters
  <2>6. LogAllowed(i)'
    BY <1>1, <1>2, <1>13, <2>2 DEF RowInv, LogAllowed
  <2>7. ASSUME NEW R, IsBase(R)' PROVE BaseAllowed(i, R)' /\ UnsentKept(i, R)'
    <3>1. BaseAllowed(i, R)
      BY <1>1, <1>14, <2>7 DEF RowInv
    <3>2. BaseAllowed(i, R)'
      BY <1>2, <1>3, <1>6, <1>7, <1>9, <1>13, <2>1, <2>2, <2>4, <3>1 DEF BaseAllowed
    <3>3. op = "insert" => StateOf(R, i) = Gone
      BY <1>14, <2>7 DEF StateOf
    <3>4. UnsentKept(i, R)'
      BY <1>3, <1>9, <2>1, <3>3 DEF UnsentKept, Unsent
    <3> QED BY <3>2, <3>4
  <2>8. ASSUME NEW R, InRotation' /\ R = RotBase' PROVE RotationKept(i, R)'
    <3>1. RotationKept(i, R)
      BY <1>1, <1>2, <2>8 DEF RowInv, InRotation, RotBase, Scanned
    <3> QED BY <1>3, <1>6, <1>7, <1>9, <2>1, <2>2, <2>4, <3>1 DEF RotationKept
  <2> QED BY <2>5, <2>6, <2>7, <2>8 DEF RowInv
<1> QED BY <1>11, <1>12, <1>18, <1>19, <1>20 DEF DurabilityInv

LEMMA InsertInv ==
    ASSUME DurabilityInv, WholeRows, NEW w \in Writers, NEW values \in RowInputs, Insert(w, values)
    PROVE  DurabilityInv'
<1> DEFINE i == tab.next_id
           out == insert(tab, values)
<1>1. TypeInv /\ LogInv /\ TableOf(tab, Whole)
  BY DEF DurabilityInv, TypeInv
<1>2. EngineDone(w, "insert", i, out, Roundtrip(values)) /\ out.res = "ok"
  BY DEF Insert, EngineDone
<1>3. i \in Ids /\ i \in Nat
  BY <1>1, DurabilityAssumption DEF Insert, TableOf, IsTable, RowId, NoRow, Ids
<1>4. validate_row_values(values)
  BY <1>2 DEF insert, Outcome
<1>5. values \in Values /\ values \in Whole
  BY <1>4, DurabilityAssumption DEF WholeRows, Values, Whole
<1>6. out.tab = insert_preserving_id(tab, i, values).tab
  <2>1. i \notin DOMAIN tab.rows /\ i >= tab.next_id
    BY <1>1, <1>3 DEF TableOf
  <2> QED BY <1>4, <2>1, NoUnique DEF insert, insert_unchecked, insert_preserving_id, Outcome
<1>7. i \notin DOMAIN tab.rows
  BY <1>1, <1>3 DEF TableOf
<1>8. \A v \in Writers : ~Busy(v, i)
  BY <1>3 DEF DurabilityInv, RowInv, RowWriters
<1>9. \A R : IsBase(R) => i \notin DOMAIN R
  BY <1>1, <1>3 DEF LogInv
<1>10. Roundtrip(values) \in Values
  BY <1>5, RoundtripOnDisk, WholeValues DEF OnDisk
<1> HIDE DEF i, out
<1> DEFINE new == out.tab
<1> HIDE DEF new
<1>11. /\ TableOf(new, Whole) /\ DOMAIN new.rows = DOMAIN tab.rows \cup {i}
       /\ new.rows[i] = values /\ \A j \in DOMAIN tab.rows : new.rows[j] = tab.rows[j]
       /\ tab.next_id <= new.next_id /\ i < new.next_id
  BY <1>1, <1>3, <1>5, <1>6, <1>7, PutOf DEF new
<1> QED BY <1>2, <1>3, <1>7, <1>8, <1>9, <1>10, <1>11, EngineDoneInv DEF new

LEMMA UpdateInv ==
    ASSUME DurabilityInv, Serialised = TRUE, NEW w \in Writers, NEW i \in Ids,
           NEW values \in RowInputs, Update(w, i, values)
    PROVE  DurabilityInv'
<1> DEFINE out == update(tab, i, values)
           row == Merge(tab.rows[i], values)
<1>1. TableOf(tab, Whole) /\ i \in DOMAIN tab.rows /\ tab.rows[i] \in Whole
  BY DEF DurabilityInv, TypeInv, TableOf, Update
<1>2. EngineDone(w, "update", i, out, Roundtrip(row))
  BY DEF Update
<1>3. values \in Values /\ row \in Whole
  BY <1>1, DurabilityAssumption, MergeWhole
<1>4. \A v \in Writers : ~Busy(v, i)
  BY DEF Update, RowFree, Busy
<1>5. Roundtrip(row) \in Values
  BY <1>3, RoundtripOnDisk, WholeValues DEF OnDisk
<1> HIDE DEF out
<1> DEFINE new == out.tab
<1> HIDE DEF new
<1>6. /\ TableOf(new, Whole) /\ DOMAIN new.rows = DOMAIN tab.rows /\ new.rows[i] = row
      /\ \A j \in DOMAIN tab.rows \ {i} : new.rows[j] = tab.rows[j]
      /\ new.next_id = tab.next_id
  BY <1>1, <1>3, UpdateOf DEF new, out
<1> HIDE DEF row
<1>7. tab.next_id \in Nat /\ i < tab.next_id
  BY <1>1 DEF TableOf, IsTable, RowId
<1> QED BY <1>1, <1>2, <1>4, <1>5, <1>6, <1>7, EngineDoneInv DEF new

LEMMA DeleteInv ==
    ASSUME DurabilityInv, Serialised = TRUE, NEW w \in Writers, NEW i \in Ids, Delete(w, i)
    PROVE  DurabilityInv'
<1> DEFINE out == take(tab, i)
<1>1. TableOf(tab, Whole)
  BY DEF DurabilityInv, TypeInv
<1>2. EngineDone(w, "delete", i, out, <<>>) /\ out.res = "ok"
  BY DEF Delete, EngineDone
<1>3. <<>> \in Values
  <2>1. <<>> \in [{} -> Vals \cup {Null}]
    OBVIOUS
  <2> QED BY <2>1 DEF Values
<1>4. \A v \in Writers : ~Busy(v, i)
  BY DEF Delete, RowFree, Busy
<1>5. i \in DOMAIN tab.rows
  BY <1>2 DEF take, Outcome
<1> HIDE DEF out
<1> DEFINE new == out.tab
<1> HIDE DEF new
<1>6. /\ TableOf(new, Whole) /\ DOMAIN new.rows = DOMAIN tab.rows \ {i}
      /\ \A j \in DOMAIN tab.rows \ {i} : new.rows[j] = tab.rows[j]
      /\ new.next_id = tab.next_id
  BY <1>1, TakeOf DEF new, out
<1>7. tab.next_id \in Nat /\ i < tab.next_id
  BY <1>1, <1>5 DEF TableOf, IsTable, RowId
<1> QED BY <1>2, <1>3, <1>4, <1>6, <1>7, EngineDoneInv DEF new

\* The request under way of a writer.
LEMMA RequestFacts ==
    ASSUME DurabilityInv, NEW w \in Writers, writer_pc[w] # "idle"
    PROVE  LET i == req[w].entry.id
           IN  /\ req[w].entry \in DiskEntry /\ i \in Ids
               /\ req[w].after = IF req[w].entry.op = "delete" THEN Gone ELSE req[w].entry.values
               /\ req[w].after \in DiskStates
               /\ req[w].after = Gone <=> req[w].entry.op = "delete"
               /\ req[w].entry.op \in {"insert", "update", "delete"}
               /\ RowInv(i) /\ Busy(w, i) /\ Mem(i) = req[w].after
               /\ \A v \in Writers : Busy(v, i) <=> v = w
               /\ Allowed(i) = accepted[i] \cup {req[w].after}
<1> DEFINE i == req[w].entry.id
<1>1. req[w].entry \in DiskEntry
      /\ req[w].after = IF req[w].entry.op = "delete" THEN Gone ELSE req[w].entry.values
  BY DEF DurabilityInv, TypeInv
<1>2. i \in Ids /\ req[w].entry.op \in {"insert", "update", "delete"}
      /\ (req[w].entry.op # "delete" => req[w].entry.values \in OnDisk /\ req[w].entry.values # Gone)
  BY <1>1, EntryFacts
<1>3. RowInv(i) /\ Busy(w, i)
  BY <1>2 DEF DurabilityInv, Busy
<1>4. \A v \in Writers : Busy(v, i) <=> v = w
  BY <1>3 DEF RowInv, RowWriters
<1>5. Mem(i) = req[w].after
  BY <1>3 DEF RowInv, RowWriters
<1>6. Allowed(i) = accepted[i] \cup {req[w].after}
  BY <1>4 DEF Allowed
<1> QED BY <1>1, <1>2, <1>3, <1>4, <1>5, <1>6 DEF DiskStates

LEMMA WriterRest ==
    ASSUME DurabilityInv, NEW w \in Writers, writer_pc[w] # "idle",
           NEW i, i = req[w].entry.id,
           \A v \in Writers \ {w} : /\ writer_pc'[v] = writer_pc[v]
                                    /\ req'[v] = req[v] /\ cl'[v] = cl[v],
           writer_pc'[w] # "idle" => req'[w] = req[w],
           \A j \in Ids \ {i} : /\ Mem(j)' = Mem(j) /\ accepted'[j] = accepted[j]
                                /\ had'[j] = had[j] /\ (j \in unlogged' <=> j \in unlogged)
                                /\ PipeSame(j),
           tab'.next_id = tab.next_id, UNCHANGED <<gen, snap, image, spc>>,
           TypeInv', PhaseInv', LogInv', RowInv(i)'
    PROVE  DurabilityInv'
<1>1. ASSUME NEW j \in Ids, j # i PROVE RowInv(j)'
  <2>1. RowInv(j) /\ Mem(j)' = Mem(j) /\ accepted'[j] = accepted[j] /\ had[j] \subseteq had'[j]
        /\ (j \in unlogged' <=> j \in unlogged) /\ PipeSame(j)
    BY <1>1 DEF DurabilityInv
  <2>2. writer_pc'[w] # "idle" => req'[w].entry.id = i
    OBVIOUS
  <2>3. j < tab.next_id => j < tab'.next_id
    OBVIOUS
  <2> QED BY <1>1, <2>1, <2>2, <2>3, OtherRow
<1> QED BY <1>1 DEF DurabilityInv

(***************************************************************************)
(* wal_log returns Err: what the answer does not promise is allowed.       *)
(***************************************************************************)
LEMMA LogBusyInv ==
    ASSUME DurabilityInv, NEW w \in Writers, writer_pc[w] \in {"check", "send"}, LogBusy(w)
    PROVE  DurabilityInv'
<1> PICK i : i = req[w].entry.id
  OBVIOUS
<1> DEFINE undo == req[w].entry.op = "insert"
<1>1. TypeInv /\ PhaseInv /\ LogInv
  BY DEF DurabilityInv
<1>2. /\ writer_pc' = [writer_pc EXCEPT ![w] = IF undo THEN "undo" ELSE "idle"]
      /\ req' = IF undo THEN req ELSE [req EXCEPT ![w] = NoReq]
      /\ cl' = [cl EXCEPT ![w] = NoCluster]
      /\ accepted' = [accepted EXCEPT ![i] = @ \cup {req[w].after}]
      /\ UNCHANGED <<tab, had, wal, gen, chan, linked, rotating, file, synced, snap, tmp, image,
                     fd, spc, unlogged>>
  BY DEF LogBusy, engine, cluster, disk, saving
<1>3. /\ req[w].entry \in DiskEntry /\ i \in Ids /\ req[w].after \in DiskStates
      /\ RowInv(i) /\ Busy(w, i) /\ Mem(i) = req[w].after
      /\ \A v \in Writers : Busy(v, i) <=> v = w
      /\ Allowed(i) = accepted[i] \cup {req[w].after}
  BY RequestFacts
<1> HIDE DEF undo
<1>4. /\ \A v \in Writers \ {w} : writer_pc'[v] = writer_pc[v] /\ req'[v] = req[v] /\ cl'[v] = cl[v]
      /\ writer_pc'[w] = IF undo THEN "undo" ELSE "idle"
      /\ undo => req'[w] = req[w]
  BY <1>1, <1>2 DEF TypeInv
<1>5. accepted'[i] = accepted[i] \cup {req[w].after}
      /\ \A j \in Ids \ {i} : accepted'[j] = accepted[j]
  BY <1>1, <1>2, <1>3 DEF TypeInv
<1>6. TypeInv'
  <2>1. accepted' \in [Ids -> SUBSET DiskStates]
    BY <1>1, <1>2, <1>3 DEF TypeInv
  <2>2. /\ cl' \in [Writers -> 0 .. gen]
        /\ writer_pc' \in [Writers -> {"idle", "check", "fetch", "send", "undo"}]
    BY <1>1, <1>2 DEF TypeInv, NoCluster
  <2>5. req' = [v \in Writers |-> req'[v]]
    <3>1. CASE undo
      BY <1>1, <1>2, <3>1 DEF TypeInv
    <3>2. CASE ~undo
      BY <1>1, <1>2, <3>2 DEF TypeInv
    <3> QED BY <3>1, <3>2
  <2>3. \A v \in Writers : writer_pc'[v] # "idle" => writer_pc[v] # "idle" /\ req'[v] = req[v]
    BY <1>4
  <2>4. \A v \in Writers : writer_pc'[v] # "idle" =>
          /\ req'[v].entry \in DiskEntry
          /\ req'[v].after = IF req'[v].entry.op = "delete" THEN Gone ELSE req'[v].entry.values
    BY <1>1, <2>3 DEF TypeInv
  <2> QED BY <1>1, <1>2, <2>1, <2>2, <2>4, <2>5 DEF TypeInv
<1>7. PhaseInv'
  BY <1>1, <1>2 DEF PhaseInv
<1>8. Pipe' = Pipe /\ \A j : Mem(j)' = Mem(j)
  BY <1>2 DEF Pipe, Mem
<1>9. \A R : (IsBase(R)' => IsBase(R)) /\ (InRotation' /\ R = RotBase' => InRotation /\ R = RotBase)
  BY <1>2 DEF IsBase, Scanned, InRotation, RotBase
<1>10. LogInv'
  BY <1>1, <1>2, <1>8, <1>9 DEF LogInv
<1>11. RowInv(i)'
  <2>1. \A v \in Writers : Busy(v, i)' <=> v = w /\ undo
    BY <1>3, <1>4 DEF Busy
  <2>2. Allowed(i)' = Allowed(i)
    BY <1>3, <1>4, <1>5, <2>1 DEF Allowed
  <2>3. RowWriters(i)'
    BY <1>2, <1>3, <1>4, <1>5, <1>8, <2>1 DEF RowInv, RowWriters, undo
  <2>4. LogAllowed(i)'
    BY <1>2, <1>3, <1>8, <2>2 DEF RowInv, LogAllowed
  <2>5. ASSUME NEW R, IsBase(R)' PROVE BaseAllowed(i, R)' /\ UnsentKept(i, R)'
    <3>1. BaseAllowed(i, R) /\ UnsentKept(i, R)
      BY <1>3, <1>9, <2>5 DEF RowInv
    <3>2. BaseAllowed(i, R)'
      BY <1>2, <1>3, <1>4, <1>8, <2>1, <2>2, <3>1 DEF BaseAllowed, undo
    <3>3. UnsentKept(i, R)'
      BY <1>3, <1>4, <2>1, <3>1 DEF UnsentKept, Unsent, undo
    <3> QED BY <3>2, <3>3
  <2>6. ASSUME NEW R, InRotation' /\ R = RotBase' PROVE RotationKept(i, R)'
    <3>1. RotationKept(i, R)
      BY <1>3, <1>9, <2>6 DEF RowInv
    <3> QED BY <1>3, <1>4, <1>8, <2>1, <2>2, <3>1 DEF RotationKept, undo
  <2> QED BY <2>3, <2>4, <2>5, <2>6 DEF RowInv
<1>12. \A j \in Ids \ {i} : /\ Mem(j)' = Mem(j) /\ accepted'[j] = accepted[j]
                            /\ had'[j] = had[j] /\ (j \in unlogged' <=> j \in unlogged)
                            /\ PipeSame(j)
  BY <1>2, <1>5, <1>8 DEF PipeSame
<1>13. tab'.next_id = tab.next_id /\ UNCHANGED <<gen, snap, image, spc>>
  BY <1>2
<1>14. writer_pc'[w] # "idle" => req'[w] = req[w]
  BY <1>4
<1> QED BY <1>4, <1>6, <1>7, <1>10, <1>11, <1>12, <1>13, <1>14, WriterRest

LEMMA CheckRotatingInv ==
    ASSUME DurabilityInv, NEW w \in Writers, CheckRotating(w)
    PROVE  DurabilityInv'
<1>1. CASE rotating
  BY <1>1, LogBusyInv DEF CheckRotating
<1>2. CASE ~rotating
  <2> PICK i : i = req[w].entry.id
    OBVIOUS
  <2>1. TypeInv /\ PhaseInv /\ LogInv
    BY DEF DurabilityInv
  <2>2. /\ writer_pc[w] = "check" /\ writer_pc' = [writer_pc EXCEPT ![w] = "fetch"]
        /\ UNCHANGED <<tab, had, wal, gen, chan, linked, rotating, file, synced, snap, tmp, image,
                       fd, spc, req, cl, accepted, unlogged>>
    BY <1>2 DEF CheckRotating, engine, cluster, disk, saving, history
  <2>3. RowInv(i) /\ (\A v \in Writers : Busy(v, i) <=> v = w)
        /\ Allowed(i) = accepted[i] \cup {req[w].after}
    BY <2>2, RequestFacts
  <2>4. /\ \A v \in Writers \ {w} : writer_pc'[v] = writer_pc[v]
        /\ writer_pc'[w] = "fetch"
    BY <2>1, <2>2 DEF TypeInv
  <2>5. TypeInv'
    BY <2>1, <2>2 DEF TypeInv
  <2>6. PhaseInv'
    BY <2>1, <2>2 DEF PhaseInv
  <2>7. Pipe' = Pipe /\ \A j : Mem(j)' = Mem(j)
    BY <2>2 DEF Pipe, Mem
  <2>8. \A R : IsBase(R)' => IsBase(R)
    BY <2>2 DEF IsBase, Scanned
  <2>9. LogInv'
    BY <2>1, <2>2, <2>7, <2>8 DEF LogInv
  <2>10. spc["rotate"] = "idle" /\ unlogged = {}
    BY <1>2, <2>1 DEF PhaseInv
  <2>11. RowInv(i)'
    <3>1. \A v \in Writers : Busy(v, i)' <=> v = w
      BY <2>2, <2>3, <2>4 DEF Busy
    <3>2. Allowed(i)' = Allowed(i)
      BY <2>2, <2>3, <3>1 DEF Allowed
    <3>3. RowWriters(i)'
      BY <2>2, <2>3, <2>4, <2>7, <2>10, <3>1 DEF RowInv, RowWriters
    <3>4. LogAllowed(i)'
      BY <2>2, <2>3, <2>7, <3>2 DEF RowInv, LogAllowed
    <3>5. ASSUME NEW R, IsBase(R)' PROVE BaseAllowed(i, R)' /\ UnsentKept(i, R)'
      <4>1. BaseAllowed(i, R) /\ UnsentKept(i, R)
        BY <2>3, <2>8, <3>5 DEF RowInv
      <4>2. BaseAllowed(i, R)'
        BY <2>2, <2>3, <2>7, <3>1, <3>2, <4>1 DEF BaseAllowed
      <4>3. UnsentKept(i, R)'
        BY <2>2, <2>3, <2>4, <3>1, <4>1 DEF UnsentKept, Unsent
      <4> QED BY <4>2, <4>3
    <3>6. ~InRotation'
      BY <2>2, <2>10 DEF InRotation
    <3> QED BY <3>3, <3>4, <3>5, <3>6 DEF RowInv
  <2>12. \A j \in Ids \ {i} : /\ Mem(j)' = Mem(j) /\ accepted'[j] = accepted[j]
                              /\ had'[j] = had[j] /\ (j \in unlogged' <=> j \in unlogged)
                              /\ PipeSame(j)
    BY <2>2, <2>7 DEF PipeSame
  <2>13. /\ \A v \in Writers \ {w} : /\ writer_pc'[v] = writer_pc[v]
                                     /\ req'[v] = req[v] /\ cl'[v] = cl[v]
         /\ req'[w] = req[w] /\ tab'.next_id = tab.next_id /\ UNCHANGED <<gen, snap, image, spc>>
    BY <2>2, <2>4
  <2>14. writer_pc[w] # "idle"
    BY <2>2
  <2> QED BY <2>5, <2>6, <2>9, <2>11, <2>12, <2>13, <2>14, WriterRest
<1> QED BY <1>1, <1>2

(***************************************************************************)
(* Whoever finds no cluster after the old file is gone has what it wrote   *)
(* in the snapshot, and nothing of the row is in the log.                  *)
(***************************************************************************)
LEMMA FetchClusterInv ==
    ASSUME DurabilityInv, NEW w \in Writers, FetchCluster(w)
    PROVE  DurabilityInv'
<1> PICK i : i = req[w].entry.id
  OBVIOUS
<1>1. TypeInv /\ PhaseInv /\ LogInv
  BY DEF DurabilityInv
<1>2. /\ writer_pc[w] = "fetch" /\ writer_pc' = [writer_pc EXCEPT ![w] = "send"]
      /\ cl' = [cl EXCEPT ![w] = wal]
      /\ UNCHANGED <<tab, had, wal, gen, chan, linked, rotating, file, synced, snap, tmp, image,
                     fd, spc, req, accepted, unlogged>>
  BY DEF FetchCluster, engine, cluster, disk, saving, history
<1>3. RowInv(i) /\ (\A v \in Writers : Busy(v, i) <=> v = w)
      /\ Allowed(i) = accepted[i] \cup {req[w].after}
  BY <1>2, RequestFacts
<1>4. /\ \A v \in Writers \ {w} : writer_pc'[v] = writer_pc[v] /\ cl'[v] = cl[v]
      /\ writer_pc'[w] = "send" /\ cl'[w] = wal
  BY <1>1, <1>2 DEF TypeInv
<1>5. TypeInv'
  <2>1. wal \in 0 .. gen
    BY <1>1 DEF TypeInv, PhaseInv, NoCluster
  <2> QED BY <1>1, <1>2, <2>1 DEF TypeInv
<1>6. PhaseInv'
  BY <1>1, <1>2 DEF PhaseInv
<1>7. Pipe' = Pipe /\ \A j : Mem(j)' = Mem(j)
  BY <1>2 DEF Pipe, Mem
<1>8. \A R : (IsBase(R)' => IsBase(R)) /\ (InRotation' /\ R = RotBase' => InRotation /\ R = RotBase)
  BY <1>2 DEF IsBase, Scanned, InRotation, RotBase
<1>9. LogInv'
  BY <1>1, <1>2, <1>7, <1>8 DEF LogInv
<1>10. ASSUME Unsent(w)', NEW R, IsBase(R)
       PROVE  StateOf(R, i) = req[w].after /\ \A k \in DOMAIN Pipe : Pipe[k].id # i
  <2>1. spc["rotate"] = "open"
    BY <1>1, <1>2, <1>4, <1>10 DEF Unsent, PhaseInv, NoCluster
  <2>2. InRotation /\ R = RotBase
    BY <1>1, <1>10, <2>1 DEF TypeInv, PhaseInv, InRotation, RotBase, IsBase, Scanned, Savers
  <2>3. Pipe = <<>>
    BY <1>1, <2>1 DEF PhaseInv, Pipe
  <2>4. StateOf(R, i) = req[w].after
    BY <1>2, <1>3, <2>2 DEF RowInv, RotationKept
  <2> QED BY <2>3, <2>4
<1>11. RowInv(i)'
  <2>1. \A v \in Writers : Busy(v, i)' <=> v = w
    BY <1>2, <1>3, <1>4 DEF Busy
  <2>2. Allowed(i)' = Allowed(i)
    BY <1>2, <1>3, <2>1 DEF Allowed
  <2>3. RowWriters(i)'
    BY <1>2, <1>3, <1>4, <1>7, <2>1 DEF RowInv, RowWriters
  <2>4. LogAllowed(i)'
    BY <1>2, <1>3, <1>7, <2>2 DEF RowInv, LogAllowed
  <2>5. ASSUME NEW R, IsBase(R)' PROVE BaseAllowed(i, R)' /\ UnsentKept(i, R)'
    <3>1. BaseAllowed(i, R) /\ UnsentKept(i, R)
      BY <1>3, <1>8, <2>5 DEF RowInv
    <3>2. BaseAllowed(i, R)'
      BY <1>2, <1>3, <1>7, <2>1, <2>2, <3>1 DEF BaseAllowed
    <3>3. UnsentKept(i, R)'
      BY <1>2, <1>3, <1>7, <1>8, <1>10, <2>1, <2>5, <3>1 DEF UnsentKept
    <3> QED BY <3>2, <3>3
  <2>6. ASSUME NEW R, InRotation' /\ R = RotBase' PROVE RotationKept(i, R)'
    <3>1. RotationKept(i, R)
      BY <1>3, <1>8, <2>6 DEF RowInv
    <3> QED BY <1>2, <1>3, <1>4, <1>7, <2>1, <2>2, <3>1 DEF RotationKept
  <2> QED BY <2>3, <2>4, <2>5, <2>6 DEF RowInv
<1>12. \A j \in Ids \ {i} : /\ Mem(j)' = Mem(j) /\ accepted'[j] = accepted[j]
                            /\ had'[j] = had[j] /\ (j \in unlogged' <=> j \in unlogged)
                            /\ PipeSame(j)
  BY <1>2, <1>7 DEF PipeSame
<1>13. /\ \A v \in Writers \ {w} : /\ writer_pc'[v] = writer_pc[v]
                                   /\ req'[v] = req[v] /\ cl'[v] = cl[v]
       /\ req'[w] = req[w] /\ tab'.next_id = tab.next_id /\ UNCHANGED <<gen, snap, image, spc>>
  BY <1>2, <1>4
<1>14. writer_pc[w] # "idle"
  BY <1>2
<1> QED BY <1>5, <1>6, <1>9, <1>11, <1>12, <1>13, <1>14, WriterRest

LEMMA CompensateInv ==
    ASSUME DurabilityInv, NEW w \in Writers, Compensate(w)
    PROVE  DurabilityInv'
<1> PICK i : i = req[w].entry.id
  OBVIOUS
<1>1. TypeInv /\ PhaseInv /\ LogInv
  BY DEF DurabilityInv
<1>2. /\ writer_pc[w] = "undo" /\ tab' = take(tab, i).tab
      /\ had' = [had EXCEPT ![i] = @ \cup {Gone}]
      /\ writer_pc' = [writer_pc EXCEPT ![w] = "idle"]
      /\ req' = [req EXCEPT ![w] = NoReq]
      /\ UNCHANGED <<wal, gen, chan, linked, rotating, file, synced, snap, tmp, image,
                     fd, spc, cl, accepted, unlogged>>
  BY DEF Compensate, cluster, disk, saving
<1>3. i \in Ids /\ RowInv(i) /\ (\A v \in Writers : Busy(v, i) <=> v = w)
      /\ Allowed(i) = accepted[i] \cup {req[w].after}
  BY <1>2, RequestFacts
<1>4. /\ \A v \in Writers \ {w} : writer_pc'[v] = writer_pc[v] /\ req'[v] = req[v]
      /\ writer_pc'[w] = "idle"
  BY <1>1, <1>2 DEF TypeInv
<1>5. /\ TableOf(tab', Whole) /\ DOMAIN tab'.rows = DOMAIN tab.rows \ {i}
      /\ \A j \in DOMAIN tab.rows \ {i} : tab'.rows[j] = tab.rows[j]
      /\ tab'.next_id = tab.next_id
  <2>1. TableOf(tab, Whole) /\ i \in Ids /\ tab' = take(tab, i).tab
    BY <1>1, <1>2, <1>3 DEF TypeInv
  <2> QED BY <2>1, TakeOf
<1>6. Mem(i)' = Gone /\ \A j \in Ids \ {i} : Mem(j)' = Mem(j)
  BY <1>5 DEF Mem
<1>7. Gone \in accepted[i] /\ req[w].after \in accepted[i]
  BY <1>2, <1>3 DEF RowInv, RowWriters
<1>8. had' = had
  BY <1>1, <1>2, <1>3 DEF TypeInv, LogInv
<1>9. TypeInv'
  <2>1. \A v \in Writers : writer_pc'[v] # "idle" => writer_pc[v] # "idle" /\ req'[v] = req[v]
    BY <1>4
  <2>2. \A v \in Writers : writer_pc'[v] # "idle" =>
          /\ req'[v].entry \in DiskEntry
          /\ req'[v].after = IF req'[v].entry.op = "delete" THEN Gone ELSE req'[v].entry.values
    BY <1>1, <2>1 DEF TypeInv
  <2>3. req' = [v \in Writers |-> req'[v]]
        /\ writer_pc' \in [Writers -> {"idle", "check", "fetch", "send", "undo"}]
    BY <1>1, <1>2 DEF TypeInv
  <2> QED BY <1>1, <1>2, <1>5, <1>8, <2>2, <2>3 DEF TypeInv
<1>10. PhaseInv'
  BY <1>1, <1>2 DEF PhaseInv
<1>11. Pipe' = Pipe
  BY <1>2 DEF Pipe
<1>12. \A R : (IsBase(R)' => IsBase(R)) /\ (InRotation' /\ R = RotBase' => InRotation /\ R = RotBase)
  BY <1>2 DEF IsBase, Scanned, InRotation, RotBase
<1>13. LogInv'
  BY <1>1, <1>5, <1>8, <1>11, <1>12 DEF LogInv
<1>14. RowInv(i)'
  <2>1. \A v \in Writers : ~Busy(v, i)'
    BY <1>3, <1>4 DEF Busy
  <2>2. Allowed(i)' = Allowed(i)
    BY <1>2, <1>3, <1>7, <2>1 DEF Allowed
  <2>3. RowWriters(i)'
    BY <1>2, <1>6, <1>7, <2>1 DEF RowWriters
  <2>4. LogAllowed(i)'
    BY <1>2, <1>3, <1>11, <2>2 DEF RowInv, LogAllowed
  <2>5. ASSUME NEW R, IsBase(R)' PROVE BaseAllowed(i, R)' /\ UnsentKept(i, R)'
    <3>1. BaseAllowed(i, R)
      BY <1>3, <1>12, <2>5 DEF RowInv
    <3>2. BaseAllowed(i, R)'
      BY <1>2, <1>6, <1>11, <2>2, <3>1 DEF BaseAllowed
    <3>3. UnsentKept(i, R)'
      BY <2>1 DEF UnsentKept
    <3> QED BY <3>2, <3>3
  <2>6. ASSUME NEW R, InRotation' /\ R = RotBase' PROVE RotationKept(i, R)'
    <3>1. RotationKept(i, R)
      BY <1>3, <1>12, <2>6 DEF RowInv
    <3> QED BY <1>6, <2>1, <2>2, <3>1 DEF RotationKept
  <2> QED BY <2>3, <2>4, <2>5, <2>6 DEF RowInv
<1>15. \A j \in Ids \ {i} : /\ Mem(j)' = Mem(j) /\ accepted'[j] = accepted[j]
                            /\ had'[j] = had[j] /\ (j \in unlogged' <=> j \in unlogged)
                            /\ PipeSame(j)
  BY <1>2, <1>6, <1>8, <1>11 DEF PipeSame
<1>16. /\ \A v \in Writers \ {w} : /\ writer_pc'[v] = writer_pc[v]
                                   /\ req'[v] = req[v] /\ cl'[v] = cl[v]
       /\ tab'.next_id = tab.next_id /\ UNCHANGED <<gen, snap, image, spc>>
  BY <1>2, <1>4, <1>5
<1>17. writer_pc[w] # "idle" /\ writer_pc'[w] = "idle"
  BY <1>2, <1>4
<1> QED BY <1>9, <1>10, <1>13, <1>14, <1>15, <1>16, <1>17, WriterRest

(***************************************************************************)
(* The request is answered ok: from now on the row must be what it says.   *)
(***************************************************************************)
LEMMA AckedInv ==
    ASSUME DurabilityInv, NEW w \in Writers, writer_pc[w] = "send", Acked(w),
           UNCHANGED <<wal, gen, linked, rotating>>, NEW i, i = req[w].entry.id,
           chan' \in Seq(DiskEntry), Pipe' = Pipe \/ Pipe' = Append(Pipe, req[w].entry),
           NEW after, after = req[w].after,
           i \notin unlogged' /\ LivesEnd(Pipe', i) =>
              /\ \A x \in DiskStates : RowAfter(x, i, Pipe') \in {after, x}
              /\ \A R : IsBase(R) => RowAfter(StateOf(R, i), i, Pipe') = after
    PROVE  DurabilityInv'
<1>1. TypeInv /\ PhaseInv /\ LogInv
  BY DEF DurabilityInv
<1>2. /\ writer_pc' = [writer_pc EXCEPT ![w] = "idle"]
      /\ req' = [req EXCEPT ![w] = NoReq]
      /\ cl' = [cl EXCEPT ![w] = NoCluster]
      /\ accepted' = [accepted EXCEPT ![i] = {after}]
      /\ unlogged' = IF cl[w] = NoCluster /\ spc["rotate"] = "remove"
                     THEN unlogged \cup {i} ELSE unlogged \ {i}
      /\ UNCHANGED <<tab, had, file, synced, snap, tmp, image, fd, spc>>
  BY DEF Acked, engine, disk, saving
<1>3. /\ req[w].entry \in DiskEntry /\ i \in Ids /\ after \in DiskStates
      /\ after = IF req[w].entry.op = "delete" THEN Gone ELSE req[w].entry.values
      /\ RowInv(i) /\ Busy(w, i) /\ Mem(i) = after
      /\ \A v \in Writers : Busy(v, i) <=> v = w
  BY RequestFacts
<1>4. /\ \A v \in Writers \ {w} : writer_pc'[v] = writer_pc[v] /\ req'[v] = req[v] /\ cl'[v] = cl[v]
      /\ writer_pc'[w] = "idle"
  BY <1>1, <1>2 DEF TypeInv
<1>5. accepted'[i] = {after} /\ \A j \in Ids \ {i} : accepted'[j] = accepted[j]
  BY <1>1, <1>2, <1>3 DEF TypeInv
<1>6. TypeInv'
  <2>1. \A v \in Writers : writer_pc'[v] # "idle" => writer_pc[v] # "idle" /\ req'[v] = req[v]
    BY <1>4
  <2>2. \A v \in Writers : writer_pc'[v] # "idle" =>
          /\ req'[v].entry \in DiskEntry
          /\ req'[v].after = IF req'[v].entry.op = "delete" THEN Gone ELSE req'[v].entry.values
    BY <1>1, <2>1 DEF TypeInv
  <2>3. /\ cl' \in [Writers -> 0 .. gen]
        /\ writer_pc' \in [Writers -> {"idle", "check", "fetch", "send", "undo"}]
    BY <1>1, <1>2 DEF TypeInv, NoCluster
  <2>5. req' = [v \in Writers |-> req'[v]]
    BY <1>1, <1>2 DEF TypeInv
  <2>4. accepted' \in [Ids -> SUBSET DiskStates] /\ unlogged' \subseteq Ids
    BY <1>1, <1>2, <1>3 DEF TypeInv
  <2> QED BY <1>1, <1>2, <2>2, <2>3, <2>4, <2>5 DEF TypeInv
<1>7. PhaseInv'
  <2>1. unlogged' # {} => spc["rotate"] = "remove"
    BY <1>1, <1>2 DEF PhaseInv
  <2> QED BY <1>1, <1>2, <2>1 DEF PhaseInv
<1>8. \A j : Mem(j)' = Mem(j)
  BY <1>2 DEF Mem
<1>9. \A R : (IsBase(R)' => IsBase(R)) /\ (InRotation' /\ R = RotBase' => InRotation /\ R = RotBase)
  BY <1>2 DEF IsBase, Scanned, InRotation, RotBase
<1>10. Pipe \in Seq(DiskEntry)
  BY <1>1 DEF TypeInv, Pipe
<1>11. LogInv'
  <2>1. i < tab.next_id /\ after \in had[i]
    BY <1>3 DEF RowInv, RowWriters
  <2>2. ASSUME NEW k \in DOMAIN Pipe'
        PROVE  Pipe'[k] = req[w].entry \/ (k \in DOMAIN Pipe /\ Pipe'[k] = Pipe[k])
    BY <1>10
  <2>3. \A k \in DOMAIN Pipe' : /\ Pipe'[k].op = "insert" => Pipe'[k].id < tab.next_id
                                /\ Pipe'[k].op # "delete" => Pipe'[k].values \in had[Pipe'[k].id]
    BY <1>1, <1>3, <2>1, <2>2 DEF LogInv
  <2> QED BY <1>1, <1>2, <1>9, <2>3 DEF LogInv
<1>12. RowInv(i)'
  <2>1. \A v \in Writers : ~Busy(v, i)'
    BY <1>3, <1>4 DEF Busy
  <2>2. Allowed(i)' = {after}
    BY <1>5, <2>1 DEF Allowed
  <2>3. RowWriters(i)'
    BY <1>3, <1>5, <1>8, <2>1 DEF RowWriters
  <2>4. LogAllowed(i)'
    BY <2>2 DEF LogAllowed
  <2>5. ASSUME NEW R, IsBase(R)' PROVE BaseAllowed(i, R)' /\ UnsentKept(i, R)'
    <3>1. IsBase(R)
      BY <1>9, <2>5
    <3>2. BaseAllowed(i, R)'
      BY <1>3, <1>8, <2>2, <3>1 DEF BaseAllowed
    <3>3. UnsentKept(i, R)'
      BY <2>1 DEF UnsentKept
    <3> QED BY <3>2, <3>3
  <2>6. ASSUME NEW R, InRotation' /\ R = RotBase' PROVE RotationKept(i, R)'
    <3>1. RotationKept(i, R)
      BY <1>3, <1>9, <2>6 DEF RowInv
    <3>2. StateOf(R, i) = after
      BY <1>3, <3>1 DEF RotationKept
    <3> QED BY <1>3, <1>8, <2>1, <2>2, <3>2 DEF RotationKept
  <2> QED BY <2>3, <2>4, <2>5, <2>6 DEF RowInv
<1>13. ASSUME NEW j \in Ids \ {i} PROVE PipeSame(j)
  <2>1. CASE Pipe' = Pipe
    BY <2>1 DEF PipeSame
  <2>2. CASE Pipe' = Append(Pipe, req[w].entry)
    <3>1. /\ LivesEnd(Pipe', j) <=> LivesEnd(Pipe, j)
          /\ \A x : RowAfter(x, j, Pipe') = RowAfter(x, j, Pipe)
      BY <1>3, <1>10, <1>13, <2>2, OtherAppend, SMTT(30)
    <3>2. \A k \in DOMAIN Pipe' : Pipe'[k] = req[w].entry \/ (k \in DOMAIN Pipe /\ Pipe'[k] = Pipe[k])
      BY <1>10, <2>2
    <3> QED BY <1>13, <3>1, <3>2 DEF PipeSame
  <2> QED BY <2>1, <2>2
<1>14. \A j \in Ids \ {i} : /\ Mem(j)' = Mem(j) /\ accepted'[j] = accepted[j]
                            /\ had'[j] = had[j] /\ (j \in unlogged' <=> j \in unlogged)
                            /\ PipeSame(j)
  BY <1>2, <1>5, <1>8, <1>13
<1>15. /\ \A v \in Writers \ {w} : /\ writer_pc'[v] = writer_pc[v]
                                   /\ req'[v] = req[v] /\ cl'[v] = cl[v]
       /\ tab'.next_id = tab.next_id /\ UNCHANGED <<gen, snap, image, spc>>
  BY <1>2, <1>4
<1>16. writer_pc[w] # "idle" /\ writer_pc'[w] = "idle"
  BY <1>4
<1> QED BY <1>6, <1>7, <1>11, <1>12, <1>14, <1>15, <1>16, WriterRest

LEMMA SendInv ==
    ASSUME DurabilityInv, NEW w \in Writers, Send(w)
    PROVE  DurabilityInv'
<1> PICK i, e, after : i = req[w].entry.id /\ e = req[w].entry /\ after = req[w].after
  OBVIOUS
<1>1. TypeInv /\ PhaseInv /\ LogInv /\ writer_pc[w] = "send"
  BY DEF DurabilityInv, Send
<1>2. /\ e \in DiskEntry /\ e.id = i /\ i \in Ids
      /\ after = IF e.op = "delete" THEN Gone ELSE e.values
      /\ after = Gone <=> e.op = "delete"
      /\ e.op \in {"insert", "update", "delete"}
      /\ RowInv(i) /\ Busy(w, i) /\ Mem(i) = after
      /\ \A v \in Writers : Busy(v, i) <=> v = w
  BY <1>1, RequestFacts
<1>3. /\ i \notin unlogged /\ LogAllowed(i)
      /\ \A R : IsBase(R) => BaseAllowed(i, R) /\ UnsentKept(i, R)
  BY <1>1, <1>2 DEF RowInv, RowWriters
<1>4. Pipe \in Seq(DiskEntry) /\ chan \in Seq(DiskEntry) /\ file \in Seq(DiskEntry)
  BY <1>1 DEF TypeInv, Pipe
<1>5. IsBase(snap) /\ \A R : IsBase(R) => StateOf(R, i) \in DiskStates
  <2>1. \A R : IsBase(R) => R \in DiskImages
    BY <1>1 DEF LogInv
  <2> QED BY <2>1, DiskImage DEF IsBase, StateOf, DiskStates
<1>6. CASE cl[w] = gen /\ Len(chan) < ChanCap /\ chan' = Append(chan, e) /\ Acked(w)
           /\ UNCHANGED <<wal, gen, linked, rotating>>
  <2>0. file' = file /\ chan' \in Seq(DiskEntry) /\ cl[w] # NoCluster
    BY <1>1, <1>2, <1>4, <1>6 DEF Acked, disk, TypeInv, NoCluster
  <2>1. CASE linked
    <3>1. Pipe' = Append(Pipe, e)
      <4>1. file \o Append(chan, e) = Append(file \o chan, e)
        <5>1. Len(file \o Append(chan, e)) = Len(Append(file \o chan, e))
          BY <1>2, <1>4
        <5>2. \A k \in 1 .. Len(file \o Append(chan, e)) :
                 (file \o Append(chan, e))[k] = Append(file \o chan, e)[k]
          <6> TAKE k \in 1 .. Len(file \o Append(chan, e))
          <6>1. CASE k <= Len(file)
            BY <1>2, <1>4, <6>1
          <6>2. CASE k > Len(file)
            BY <1>2, <1>4, <6>2
          <6> QED BY <1>4, <6>1, <6>2
        <5>3. file \o Append(chan, e) \in Seq(DiskEntry) /\ Append(file \o chan, e) \in Seq(DiskEntry)
          BY <1>2, <1>4
        <5> QED BY <5>1, <5>2, <5>3, SeqEqual
      <4> QED BY <1>6, <2>0, <2>1, <4>1 DEF Pipe
    <3>2. ASSUME LivesEnd(Pipe', i)
          PROVE  /\ \A x \in DiskStates : RowAfter(x, i, Pipe') \in {after, x}
                 /\ \A R : IsBase(R) => RowAfter(StateOf(R, i), i, Pipe') = after
      <4>1. \A x : RowAfter(x, i, Pipe') = RowStep(RowAfter(x, i, Pipe), e)
        BY <1>2, <1>4, <3>1, RowAfterAppend DEF RowMove
      <4>2. /\ LivesEnd(Pipe, i)
            /\ e.op = "insert" => \A k \in 1 .. Len(Pipe) : Pipe[k].id = i =>
                  \E d \in k .. Len(Pipe) : Pipe[d].id = i /\ Pipe[d].op = "delete"
        <5>1. LivesEnd(Append(Pipe, e), i)
          BY <3>1, <3>2
        <5>2. e \in DiskEntry /\ e.id = i /\ Pipe \in Seq(DiskEntry)
          BY <1>2, <1>4
        <5>3. /\ LivesEnd(Pipe, i)
              /\ e.id = i /\ e.op = "insert" => \A k \in 1 .. Len(Pipe) : Pipe[k].id = i =>
                    \E d \in k .. Len(Pipe) : Pipe[d].id = i /\ Pipe[d].op = "delete"
          BY <5>1, <5>2, LivesEndAppend
        <5> QED BY <5>2, <5>3
      <4>3. CASE e.op = "insert"
        <5>1. \A x : RowAfter(x, i, Pipe) \in {x, Gone}
          BY <1>4, <4>2, <4>3, LivesOver
        <5>2. \A R : IsBase(R) => StateOf(R, i) \in {Gone, after}
          BY <1>2, <1>3, <4>3 DEF UnsentKept
        <5> QED BY <1>2, <4>1, <4>3, <5>1, <5>2 DEF RowStep
      <4>4. CASE e.op = "update"
        <5>1. \A R : IsBase(R) => RowAfter(StateOf(R, i), i, Pipe) # Gone
          BY <1>2, <1>3, <4>2, <4>4 DEF BaseAllowed
        <5>2. \A x : x # Gone => RowAfter(x, i, Pipe) # Gone
          BY <1>4, <1>5, <5>1, GoneForAll
        <5>3. ASSUME NEW x PROVE RowAfter(x, i, Pipe') \in {after, x}
          <6>1. CASE RowAfter(x, i, Pipe) = Gone
            <7>1. x = Gone
              BY <5>2, <6>1
            <7> QED BY <4>1, <4>4, <6>1, <7>1 DEF RowStep
          <6>2. CASE RowAfter(x, i, Pipe) # Gone
            BY <1>2, <4>1, <4>4, <6>2 DEF RowStep
          <6> QED BY <6>1, <6>2
        <5> QED BY <1>2, <4>1, <4>4, <5>1, <5>3 DEF RowStep
      <4>5. CASE e.op = "delete"
        BY <1>2, <4>1, <4>5 DEF RowStep
      <4> QED BY <1>2, <4>3, <4>4, <4>5
    <3> QED BY <1>1, <1>6, <2>0, <3>1, <3>2, AckedInv
  <2>2. CASE ~linked
    <3>1. Pipe' = Pipe /\ Pipe = <<>> /\ spc["rotate"] = "open"
      BY <1>1, <1>6, <2>0, <2>2 DEF Pipe, PhaseInv
    <3>2. \A x : RowAfter(x, i, Pipe') = x
      BY <3>1, RowAfterEmpty
    <3>3. InRotation /\ RotBase = snap /\ \A R : IsBase(R) => R = snap
      BY <1>1, <3>1 DEF TypeInv, PhaseInv, InRotation, RotBase, IsBase, Scanned, Savers
    <3>4. StateOf(snap, i) = after
      BY <1>1, <1>2, <3>3 DEF RowInv, RotationKept
    <3> QED BY <1>1, <1>6, <2>0, <3>1, <3>2, <3>3, <3>4, AckedInv
  <2> QED BY <2>1, <2>2
<1>7. CASE cl[w] = gen /\ Len(chan) = ChanCap /\ LogBusy(w)
  BY <1>1, <1>7, LogBusyInv
<1>8. CASE cl[w] # gen /\ Acked(w) /\ UNCHANGED cluster
  <2>1. UNCHANGED <<wal, gen, linked, rotating>> /\ chan' = chan /\ file' = file
    BY <1>8 DEF cluster, Acked, disk
  <2>2. Pipe' = Pipe /\ chan' \in Seq(DiskEntry)
    BY <1>4, <2>1 DEF Pipe
  <2>3. CASE cl[w] = NoCluster /\ spc["rotate"] = "remove"
    <3>1. i \in unlogged'
      BY <1>8, <2>3 DEF Acked
    <3> QED BY <1>1, <1>8, <2>1, <2>2, <3>1, AckedInv
  <2>4. CASE ~(cl[w] = NoCluster /\ spc["rotate"] = "remove")
    <3>1. Unsent(w)
      BY <1>1, <1>8, <2>4 DEF Unsent
    <3>2. \A R : IsBase(R) => StateOf(R, i) = after
      BY <1>2, <1>3, <3>1 DEF UnsentKept
    <3>3. \A k \in 1 .. Len(Pipe) : Pipe[k].id # i
      <4>1. \A k \in DOMAIN Pipe : Pipe[k].id # i
        BY <1>2, <1>3, <1>5, <3>1 DEF UnsentKept
      <4> QED BY <1>4, <4>1
    <3>4. \A x : RowAfter(x, i, Pipe') = x
      BY <1>4, <2>2, <3>3, RowUntouched
    <3> QED BY <1>1, <1>8, <2>1, <2>2, <3>2, <3>4, AckedInv
  <2> QED BY <2>3, <2>4
<1> QED BY <1>6, <1>7, <1>8 DEF Send

-----------------------------------------------------------------------------
(* Crashes.                                                                *)

\* What a crash leaves of the log.
LEMMA CutLog ==
    ASSUME TypeInv, NEW n \in 0 .. Len(file)
    PROVE  /\ SubSeq(file, 1, n) \in Seq(DiskEntry) /\ Len(SubSeq(file, 1, n)) = n
           /\ \A k \in 1 .. n : SubSeq(file, 1, n)[k] = file[k]
BY DEF TypeInv

LEMMA QuietRow ==
    ASSUME TypeInv, NEW i \in Ids, Quiet(i), NEW l \in Seq(DiskEntry), synced <= Len(l),
           Len(l) <= Len(file), \A k \in 1 .. Len(l) : l[k] = file[k]
    PROVE  /\ LivesEnd(l, i) <=> LivesEnd(Pipe, i)
           /\ \A x : RowAfter(x, i, l) = RowAfter(x, i, Pipe)
           /\ Allowed(i) = accepted[i] /\ \A w \in Writers : ~Busy(w, i)
<1>1. file \in Seq(DiskEntry) /\ chan \in Seq(DiskEntry) /\ synced \in 0 .. Len(file)
  BY DEF TypeInv
<1>2. Pipe \in Seq(DiskEntry) /\ Len(file) <= Len(Pipe) /\ \A k \in 1 .. Len(file) : Pipe[k] = file[k]
  BY <1>1 DEF Pipe
<1>3. \A k \in Len(file) + 1 .. Len(Pipe) : Pipe[k].id # i
  <2>1. CASE linked
    <3> TAKE k \in Len(file) + 1 .. Len(Pipe)
    <3>1. k - Len(file) \in 1 .. Len(chan) /\ Pipe[k] = chan[k - Len(file)]
      BY <1>1, <2>1 DEF Pipe
    <3>2. k - Len(file) \in DOMAIN chan
      BY <1>1, <3>1
    <3> QED BY <2>1, <3>1, <3>2 DEF Quiet
  <2>2. CASE ~linked
    BY <1>1, <2>2 DEF Pipe
  <2> QED BY <2>1, <2>2
<1>4. \A k \in synced + 1 .. Len(file) : file[k].id # i
  BY DEF Quiet
<1>5. \A k \in Len(l) + 1 .. Len(Pipe) : Pipe[k].id # i
  <2> TAKE k \in Len(l) + 1 .. Len(Pipe)
  <2>1. CASE k <= Len(file)
    <3>1. k \in synced + 1 .. Len(file) /\ k \in 1 .. Len(file)
      BY <1>1, <1>2, <2>1
    <3> QED BY <1>2, <1>4, <3>1
  <2>2. CASE k > Len(file)
    <3>1. k \in Len(file) + 1 .. Len(Pipe)
      BY <1>1, <1>2, <2>2
    <3> QED BY <1>3, <3>1
  <2> QED BY <1>1, <1>2, <2>1, <2>2
<1>6. Len(l) <= Len(Pipe) /\ \A k \in 1 .. Len(l) : l[k] = Pipe[k]
  BY <1>1, <1>2
<1>7. /\ LivesEnd(l, i) <=> LivesEnd(Pipe, i)
      /\ \A x : RowAfter(x, i, l) = RowAfter(x, i, Pipe)
  BY <1>2, <1>5, <1>6, QuietPrefix
<1>8. \A w \in Writers : ~Busy(w, i)
  BY DEF Quiet, Busy
<1>9. Allowed(i) = accepted[i]
  BY <1>8 DEF Allowed
<1> QED BY <1>7, <1>8, <1>9

(***************************************************************************)
(* The process stops and starts again.                                     *)
(***************************************************************************)
LEMMA CrashInv ==
    ASSUME DurabilityInv, CrashAndStart
    PROVE  DurabilityInv'
<1>1. TypeInv /\ PhaseInv /\ LogInv
  BY DEF DurabilityInv
<1>2. PICK n \in synced .. Len(file) : /\ file' = SubSeq(file, 1, n)
                                       /\ tab' = recover(snap, SubSeq(file, 1, n))
  BY DEF CrashAndStart
<1>3. PICK log : log = SubSeq(file, 1, n)
  OBVIOUS
<1>4. /\ wal' = gen + 1 /\ gen' = gen + 1
      /\ chan' = <<>> /\ linked' = TRUE /\ rotating' = FALSE
      /\ image' = [s \in Savers |-> NoRows]
      /\ fd' = [s \in Savers |-> "none"]
      /\ spc' = [s \in Savers |-> "idle"]
      /\ writer_pc' = [w \in Writers |-> "idle"]
      /\ req' = [w \in Writers |-> NoReq]
      /\ cl' = [w \in Writers |-> NoCluster]
      /\ unlogged' = {}
      /\ UNCHANGED <<synced, snap, tmp>>
  BY DEF CrashAndStart
<1>5. /\ accepted' = [i \in Ids |-> {StateOf(tab'.rows, i)} \cup
                                    IF Quiet(i) /\ i \notin unlogged
                                    THEN accepted[i] ELSE had[i]]
      /\ had' = [i \in Ids |-> had[i] \cup {StateOf(tab'.rows, i)}]
  BY DEF CrashAndStart
<1>6. synced \in Nat /\ n \in 0 .. Len(file) /\ n \in Nat /\ synced <= n /\ n <= Len(file)
  BY <1>1 DEF TypeInv
<1>7. log \in Seq(DiskEntry) /\ Len(log) = n /\ \A k \in 1 .. n : log[k] = file[k]
  BY <1>1, <1>3, <1>6, CutLog
<1>8. snap \in DiskImages
  BY <1>1 DEF TypeInv
<1>9. /\ TableOf(tab', OnDisk)
      /\ \A i \in Ids : StateOf(tab'.rows, i) = RowAfter(StateOf(snap, i), i, log)
      /\ \A i \in DOMAIN snap : i < tab'.next_id
      /\ \A k \in DOMAIN log : log[k].op = "insert" => log[k].id < tab'.next_id
  <2>1. tab' = recover(snap, log)
    BY <1>2, <1>3
  <2> QED BY <1>7, <1>8, <2>1, RecoverRow
<1>10. \A i \in Ids : StateOf(snap, i) \in DiskStates /\ StateOf(tab'.rows, i) \in DiskStates
  <2>1. \A i \in Ids : StateOf(snap, i) \in DiskStates
    BY <1>8, DiskImage DEF StateOf, DiskStates
  <2> QED BY <1>7, <1>9, <2>1, RowAfterType
<1>11. Pipe' = log
  <2>1. log \o <<>> = log
    BY <1>7, ConcatEmptySeq
  <2> QED BY <1>2, <1>3, <1>4, <2>1 DEF Pipe
<1>12. \A R : IsBase(R)' => R = snap
  BY <1>4 DEF IsBase, Scanned
<1>13. \A i \in Ids : /\ StateOf(tab'.rows, i) \in accepted'[i]
                      /\ had[i] \subseteq had'[i]
                      /\ Quiet(i) /\ i \notin unlogged => accepted[i] \subseteq accepted'[i]
                      /\ ~(Quiet(i) /\ i \notin unlogged) => had[i] \subseteq accepted'[i]
  BY <1>5
<1>14. TypeInv'
  <2>1. TableOf(tab', Whole)
    BY <1>9 DEF TableOf, OnDisk
  <2>2. gen' \in Nat \ {0} /\ cl' \in [Writers -> 0 .. gen']
    BY <1>1, <1>4 DEF TypeInv, NoCluster
  <2>3. chan' \in Seq(DiskEntry) /\ file' \in Seq(DiskEntry) /\ synced' \in 0 .. Len(file')
    BY <1>2, <1>3, <1>4, <1>6, <1>7
  <2>4. accepted' \in [Ids -> SUBSET DiskStates] /\ had' \in [Ids -> SUBSET DiskStates]
    BY <1>1, <1>5, <1>10 DEF TypeInv
  <2>5. image' \in [Savers -> DiskImages] /\ fd' \in [Savers -> {"tmp", "snap", "none"}]
        /\ spc' \in [Savers -> {"idle", "scan", "create", "write", "rename", "take",
                                "remove", "open", "end"}]
    BY <1>4, NoRowsImage
  <2>6. /\ writer_pc' \in [Writers -> {"idle", "check", "fetch", "send", "undo"}]
        /\ req' = [w \in Writers |-> req'[w]]
        /\ \A w \in Writers : writer_pc'[w] = "idle"
    BY <1>4
  <2> QED BY <1>4, <1>8, <2>1, <2>2, <2>3, <2>4, <2>5, <2>6 DEF TypeInv
<1>15. PhaseInv'
  BY <1>4 DEF PhaseInv, Savers
<1>16. \A k \in 1 .. n : k \in DOMAIN Pipe /\ Pipe[k] = log[k]
  BY <1>1, <1>6, <1>7 DEF TypeInv, Pipe
<1>17. LogInv'
  <2>1. \A k \in DOMAIN log : log[k].op # "delete" => log[k].values \in had'[log[k].id]
    <3> SUFFICES ASSUME NEW k \in 1 .. n, log[k].op # "delete"
                 PROVE  log[k].values \in had'[log[k].id]
      BY <1>7
    <3>1. log[k].values \in had[log[k].id]
      BY <1>1, <1>16 DEF LogInv
    <3>2. log[k].id \in Ids
      BY <1>7, EntryFacts
    <3> QED BY <1>13, <3>1, <3>2
  <2>2. \A i \in Ids : Gone \in had'[i]
    BY <1>1, <1>13 DEF LogInv
  <2> QED BY <1>8, <1>9, <1>11, <1>12, <2>1, <2>2 DEF LogInv
<1>18. ASSUME NEW i \in Ids PROVE RowInv(i)'
  <2>1. \A w \in Writers : ~Busy(w, i)'
    BY <1>4 DEF Busy
  <2>2. Allowed(i)' = accepted'[i]
    BY <2>1 DEF Allowed
  <2>3. Mem(i)' = StateOf(tab'.rows, i)
    BY <1>9 DEF Mem, StateOf, TableOf, OnDisk
  <2>4. RowWriters(i)'
    BY <1>13, <2>1, <2>3 DEF RowWriters
  <2>5. ASSUME LivesEnd(log, i), NEW x \in DiskStates
        PROVE  RowAfter(x, i, log) \in accepted'[i] \cup {x}
    <3>1. CASE Quiet(i) /\ i \notin unlogged
      <4>1. /\ LivesEnd(log, i) <=> LivesEnd(Pipe, i)
            /\ \A y : RowAfter(y, i, log) = RowAfter(y, i, Pipe)
            /\ Allowed(i) = accepted[i]
        BY <1>1, <1>6, <1>7, <3>1, QuietRow
      <4>2. LogAllowed(i)
        BY DEF DurabilityInv, RowInv
      <4> QED BY <1>13, <2>5, <3>1, <4>1, <4>2 DEF LogAllowed
    <3>2. CASE ~(Quiet(i) /\ i \notin unlogged)
      <4>1. had[i] \subseteq accepted'[i] /\ Gone \in had[i]
        BY <1>1, <1>13, <3>2 DEF LogInv
      <4>2. \A k \in 1 .. n : log[k].id = i /\ log[k].op # "delete" => log[k].values \in had[i]
        BY <1>1, <1>16 DEF LogInv
      <4>3. \/ RowAfter(x, i, log) \in {x, Gone}
            \/ \E k \in 1 .. n : /\ log[k].id = i /\ log[k].op # "delete"
                                 /\ RowAfter(x, i, log) = log[k].values
        BY <1>7, RowValues
      <4> QED BY <4>1, <4>2, <4>3
    <3> QED BY <3>1, <3>2
  <2>6. LogAllowed(i)'
    BY <1>11, <2>2, <2>5 DEF LogAllowed
  <2>7. BaseAllowed(i, snap)'
    BY <1>4, <1>9, <1>11, <1>13, <2>2, <2>3 DEF BaseAllowed
  <2>8. UnsentKept(i, snap)'
    BY <2>1 DEF UnsentKept
  <2>9. ~InRotation' /\ snap' = snap
    BY <1>4 DEF InRotation, Savers
  <2> QED BY <1>12, <2>4, <2>6, <2>7, <2>8, <2>9 DEF RowInv
<1> QED BY <1>14, <1>15, <1>17, <1>18 DEF DurabilityInv

-----------------------------------------------------------------------------
(* The theorem.                                                            *)

LEMMA IdleInv ==
    ASSUME DurabilityInv, UNCHANGED durability_vars
    PROVE  DurabilityInv'
<1>1. UNCHANGED <<tab, had, wal, gen, chan, linked, rotating, file, synced, snap, tmp, image, fd,
                  spc, writer_pc, req, cl, accepted, unlogged>>
  BY DEF durability_vars, engine, cluster, disk, saving, writing, history
<1>2. TypeInv' /\ PhaseInv'
  BY <1>1 DEF DurabilityInv, TypeInv, PhaseInv
<1>3. LogInv' /\ \A i \in Ids : RowInv(i)'
  <2>1. Pipe' = Pipe
    BY <1>1 DEF Pipe
  <2>2. \A R : IsBase(R)' => IsBase(R)
    BY <1>1 DEF IsBase, Scanned
  <2>3. \A w \in Writers : Unsent(w)' => Unsent(w)
    BY <1>1 DEF Unsent
  <2>4. InRotation' => InRotation /\ RotBase' = RotBase
    BY <1>1 DEF InRotation, RotBase, Scanned
  <2> QED BY <1>1, <2>1, <2>2, <2>3, <2>4, Calm
<1> QED BY <1>2, <1>3 DEF DurabilityInv

LEMMA NextInv ==
    ASSUME DurabilityInv, [DurabilityNext]_durability_vars,
           Serialised = TRUE, Overlap = FALSE, WholeRows
    PROVE  DurabilityInv'
<1>1. CASE UNCHANGED durability_vars
  BY <1>1, IdleInv
<1>2. CASE Idle
  BY <1>2, IdleInv DEF Idle
<1>3. ASSUME NEW w \in Writers, Request(w) PROVE DurabilityInv'
  BY <1>3, InsertInv, UpdateInv, DeleteInv DEF Request
<1>4. ASSUME NEW w \in Writers, WriterStep(w) PROVE DurabilityInv'
  BY <1>4, CheckRotatingInv, FetchClusterInv, SendInv, CompensateInv DEF WriterStep
<1>5. CASE GroupAppend
  BY <1>5, GroupAppendInv
<1>6. CASE GroupSync
  BY <1>6, GroupSyncInv
<1>7. ASSUME NEW s \in Savers, SaveStart(s) PROVE DurabilityInv'
  BY <1>7, SaveStartInv
<1>8. ASSUME NEW s \in Savers, SaveStep(s) PROVE DurabilityInv'
  BY <1>8, ScanInv, CreateTmpInv, WriteTmpInv, RenameInv, SaveFailsInv DEF SaveStep
<1>9. CASE RotateStart
  BY <1>9, RotateStartInv
<1>10. CASE RotateStep
  BY <1>10, RotateTakeInv, RotateRemoveInv, RotateOpenInv, RotateEndInv DEF RotateStep
<1>11. CASE CrashAndStart
  BY <1>11, CrashInv
<1> QED BY <1>1, <1>2, <1>3, <1>4, <1>5, <1>6, <1>7, <1>8, <1>9, <1>10, <1>11 DEF DurabilityNext

LEMMA InvSurvive ==
    ASSUME DurabilityInv
    PROVE  AckedSurvive
<1> PICK log : log = SubSeq(file, 1, synced)
  OBVIOUS
<1>1. TypeInv
  BY DEF DurabilityInv
<1>2. file \in Seq(DiskEntry) /\ synced \in 0 .. Len(file) /\ snap \in DiskImages
      /\ synced \in Nat /\ synced <= Len(file) /\ Len(file) \in Nat
  BY <1>1 DEF TypeInv
<1>3. log \in Seq(DiskEntry) /\ Len(log) = synced /\ \A k \in 1 .. synced : log[k] = file[k]
  BY <1>1, <1>2, CutLog
<1>4. \A i \in Ids : StateOf(recover(snap, log).rows, i) = RowAfter(StateOf(snap, i), i, log)
  BY <1>2, <1>3, RecoverRow
<1>5. ASSUME NEW i \in Ids, i \notin unlogged, Quiet(i), LivesEnd(file, i)
      PROVE  StateOf(recover(snap, log).rows, i) \in accepted[i]
  <2>1. LivesEnd(Pipe, i)
    BY <1>1, <1>2, <1>5, QuietRow
  <2>2. /\ \A x : RowAfter(x, i, log) = RowAfter(x, i, Pipe)
        /\ Allowed(i) = accepted[i]
    <3>1. synced <= Len(log) /\ Len(log) <= Len(file) /\ \A k \in 1 .. Len(log) : log[k] = file[k]
      BY <1>2, <1>3
    <3>2. log \in Seq(DiskEntry)
      BY <1>3
    <3> QED BY <1>1, <1>5, <3>1, <3>2, QuietRow
  <2>3. BaseAllowed(i, snap)
    BY DEF DurabilityInv, RowInv, IsBase
  <2> QED BY <1>4, <1>5, <2>1, <2>2, <2>3 DEF BaseAllowed
<1> QED BY <1>5 DEF AckedSurvive

(***************************************************************************)
(* Acknowledged writes survive, whatever the crash interrupts: a group     *)
(* commit, a snapshot at any of its steps, a rotation between taking the   *)
(* cluster out, removing the file and opening the next one, or a request   *)
(* between its check of wal_rotating, its clone of the cluster and its     *)
(* send.                                                                   *)
(***************************************************************************)
THEOREM AckedWritesSurvive ==
    ASSUME Serialised = TRUE, Overlap = FALSE, WholeRows
    PROVE  DurabilitySpec => []AckedSurvive
<1>1. DurabilityInit => DurabilityInv
  BY InitInv
<1>2. DurabilityInv /\ [DurabilityNext]_durability_vars => DurabilityInv'
  BY NextInv
<1>3. DurabilityInv => AckedSurvive
  BY InvSurvive
<1> QED BY <1>1, <1>2, <1>3, PTL DEF DurabilitySpec
=============================================================================
