------------------------------ MODULE Durability ------------------------------
(***************************************************************************)
(* Durable mode of one server: dispatch (transport.rs) writes to the table *)
(* engine and then logs the write; wal_log (server.rs) hands the entry to  *)
(* the channel of the current WalCluster; a group-commit thread per file   *)
(* appends and syncs (durability.rs); save_snapshot copies the tables to a *)
(* file; snapshot_and_rotate does so and starts a new log; start recovers  *)
(* from the snapshot and the log.                                          *)
(*                                                                         *)
(* One table, hence one log file.  The file behaves as in AppendLog, which *)
(* WalLog implements when crashes cut no record.  Recovered tables have    *)
(* schemas inferred without unique columns; so has the table here.         *)
(***************************************************************************)
EXTENDS Table, Sequences, FiniteSets

CONSTANTS
    Writers,        \* connections that run requests
    RowInputs,      \* what clients write
    Gone,           \* the state of a row, or a file, that does not exist
    Partial,        \* a snapshot file that is not completely written
    Json,           \* value -> the value that its JSON form is read back as
    Serialised,     \* whether clients wait for the answer on a row before
                    \* they send another request on it
    Starting,       \* which callers of save_snapshot there are
    Overlap,        \* whether one may run while another does
    SnapshotFails,  \* whether writing a snapshot may fail
    ChanCap,        \* capacity of the channel
    MaxId,          \* bound: row ids
    MaxRequests,    \* bound: requests
    MaxEvents,      \* bound: snapshots begun, rotations included, and crashes
    MaxCrashes      \* bound: crashes among them

\* The callers of save_snapshot: the periodic task and the shutdown of the
\* command line, and snapshot_and_rotate.
Savers == {"periodic", "shutdown", "rotate"}

ASSUME DurabilityAssumption ==
    /\ uniq_cols = {}
    /\ RowInputs \subseteq Values
    /\ \A values \in Values : Gone # values
    /\ Starting \subseteq Savers
    /\ Json \in [Vals -> Vals] /\ \A v \in Vals : Json[Json[v]] = Json[v]
    /\ {Serialised, Overlap, SnapshotFails} \subseteq BOOLEAN
    /\ {ChanCap, MaxId, MaxRequests, MaxEvents, MaxCrashes} \subseteq Nat

Ids == 1 .. MaxId

NoCluster == 0

VARIABLES
    tab,       \* the table in memory
    wal,       \* the cluster requests are logged to, as its generation
    gen,       \* the newest cluster; `chan` and `linked` are about this one
    chan,      \* its channel
    linked,    \* whether its file is the one at the log's path
    file,      \* the log file at that path: entries
    synced,    \* how many of them are synced
    rotating,  \* wal_rotating
    snap,      \* the snapshot file: id -> values, or Partial
    tmp,       \* snapshot.tmp, likewise, or Gone
    image,     \* saver -> the rows it has scanned
    fd,        \* saver -> the file it writes: "tmp", "snap" or "none" of them
    spc,       \* saver -> where it is
    writer_pc, \* writer -> where it is
    req,       \* writer -> its log entry, and the row's state after the write
    cl,        \* writer -> the cluster it cloned
    accepted,  \* history: row -> states that answers so far allow on disk
    had,       \* history: row -> states it has had
    unlogged,  \* history: rows whose last write was answered ok without a
               \* cluster, while the file of the cluster taken out remains
    requests, snapshots, crashes   \* counted for the bounds

engine   == <<tab, had>>
cluster  == <<wal, gen, chan, linked, rotating>>
disk     == <<file, synced, snap>>
saving   == <<tmp, image, fd, spc, snapshots>>
writing  == <<writer_pc, req, cl, requests>>
history  == <<accepted, unlogged>>
durability_vars     == <<engine, cluster, disk, saving, writing, history, crashes>>

RowStates == Values \cup {Gone}
Image == UNION {[I -> Values] : I \in SUBSET Ids}
LogEntry == [op : {"insert", "update", "delete"}, id : Ids, values : Values]

\* A file that is cut cannot be taken for one that is complete.
ASSUME PartialAssumption == Partial \notin Image

DurabilityTypeOK ==
    /\ IsTable(tab) /\ DOMAIN tab.rows \subseteq Ids
    /\ gen \in Nat /\ wal \in {NoCluster, gen}
    /\ chan \in Seq(LogEntry) /\ Len(chan) <= ChanCap
    /\ linked \in BOOLEAN /\ rotating \in BOOLEAN
    /\ file \in Seq(LogEntry) /\ synced \in 0 .. Len(file)
    /\ snap \in Image \cup {Partial} /\ tmp \in Image \cup {Partial, Gone}
    /\ fd \in [Savers -> {"tmp", "snap", "none"}]
    /\ image \in [Savers -> Image]
    /\ spc \in [Savers -> {"idle", "scan", "create", "write", "rename", "take",
                           "remove", "open", "end"}]
    /\ writer_pc \in [Writers -> {"idle", "check", "fetch", "send", "undo"}]
    /\ \A w \in Writers : writer_pc[w] # "idle" => /\ req[w].entry \in LogEntry
                                            /\ req[w].after \in RowStates
    /\ cl \in [Writers -> 0 .. gen]
    /\ accepted \in [Ids -> SUBSET RowStates] /\ had \in [Ids -> SUBSET RowStates]
    /\ unlogged \subseteq Ids
    /\ requests \in 0 .. MaxRequests /\ snapshots \in 0 .. MaxEvents
    /\ crashes \in 0 .. MaxCrashes

NoReq == [entry |-> <<>>, after |-> Gone]
NoRows == [i \in {} |-> <<>>]

DurabilityInit ==
    /\ tab = NewTable
    /\ wal = 1 /\ gen = 1 /\ chan = <<>> /\ linked = TRUE /\ rotating = FALSE
    /\ file = <<>> /\ synced = 0 /\ snap = NoRows
    /\ tmp = Gone
    /\ image = [s \in Savers |-> NoRows]
    /\ fd = [s \in Savers |-> "none"]
    /\ spc = [s \in Savers |-> "idle"]
    /\ writer_pc = [w \in Writers |-> "idle"]
    /\ req = [w \in Writers |-> NoReq]
    /\ cl = [w \in Writers |-> NoCluster]
    /\ accepted = [i \in Ids |-> {Gone}]
    /\ had = [i \in Ids |-> {Gone}]
    /\ unlogged = {}
    /\ requests = 0 /\ snapshots = 0 /\ crashes = 0

-----------------------------------------------------------------------------
(* Recovery.                                                               *)

\* values_to_json_bytes, read back by json_to_value.
Roundtrip(values) ==
    [c \in DOMAIN values |-> IF values[c] = Null THEN Null ELSE Json[values[c]]]

StateOf(rows, i) == IF i \in DOMAIN rows THEN rows[i] ELSE Gone

\* A snapshot's rows, restored in the order of their ids: the table after
\* the rows up to the n-th id.
Restored(rows) ==
    LET upto[n \in 0 .. MaxId] ==
          IF n = 0 THEN NewTable
          ELSE IF n \in DOMAIN rows THEN insert_preserving_id(upto[n - 1], n, rows[n]).tab
          ELSE upto[n - 1]
    IN  upto

LoadSnapshot(rows) == Restored(rows)[MaxId]

\* One log entry, its failure ignored.
Replay(t, e) ==
    CASE e.op = "insert" -> insert_preserving_id(t, e.id, e.values).tab
      [] e.op = "update" -> update(t, e.id, e.values).tab
      [] e.op = "delete" -> take(t, e.id).tab

\* The table after the first n entries of the log.
Replayed(t, log) ==
    LET upto[n \in 0 .. Len(log)] == IF n = 0 THEN t ELSE Replay(upto[n - 1], log[n])
    IN  upto

\* The whole log is replayed: the snapshot's sequence number is always 0.
\* When the snapshot cannot be read, start goes on with no tables at all.
recover(rows, log) ==
    IF rows = Partial THEN NewTable ELSE Replayed(LoadSnapshot(rows), log)[Len(log)]

-----------------------------------------------------------------------------
(* Requests: the engine first, then the log, then the answer.              *)

\* No other request on the row is under way.
RowFree(i) == Serialised => \A w \in Writers : writer_pc[w] # "idle" => req[w].entry.id # i

\* The engine call of a request succeeded.  (One that fails is answered with
\* the error and changes nothing.)
EngineDone(w, op, i, out, values) ==
    LET after == IF op = "delete" THEN Gone ELSE Roundtrip(out.tab.rows[i])
    IN  /\ writer_pc[w] = "idle"
        /\ requests < MaxRequests
        /\ requests' = requests + 1
        /\ out.res = "ok"
        /\ tab' = out.tab
        /\ had' = [had EXCEPT ![i] = @ \cup {after}]
        /\ writer_pc' = [writer_pc EXCEPT ![w] = "check"]
        /\ req' = [req EXCEPT ![w] = [entry |-> [op |-> op, id |-> i, values |-> values],
                                      after |-> after]]
        /\ UNCHANGED <<cluster, disk, saving, cl, history, crashes>>

Insert(w, values) ==
    /\ tab.next_id <= MaxId
    /\ EngineDone(w, "insert", tab.next_id, insert(tab, values), Roundtrip(values))

\* The entry of an update holds the whole row.
Update(w, i, values) ==
    /\ i \in DOMAIN tab.rows
    /\ RowFree(i)
    /\ EngineDone(w, "update", i, update(tab, i, values),
                  Roundtrip(Merge(tab.rows[i], values)))

Delete(w, i) ==
    /\ RowFree(i)
    /\ EngineDone(w, "delete", i, take(tab, i), <<>>)

\* wal_log returned Ok: the request is answered ok.
Acked(w) ==
    LET i == req[w].entry.id
    IN  /\ writer_pc' = [writer_pc EXCEPT ![w] = "idle"]
        /\ req' = [req EXCEPT ![w] = NoReq]
        /\ cl' = [cl EXCEPT ![w] = NoCluster]
        /\ accepted' = [accepted EXCEPT ![i] = {req[w].after}]
        /\ unlogged' = IF cl[w] = NoCluster /\ spc["rotate"] = "remove"
                       THEN unlogged \cup {i} ELSE unlogged \ {i}
        /\ UNCHANGED <<engine, disk, saving, requests, crashes>>

\* wal_log returned Err: an insert is taken back before it is answered, an
\* update or a delete is answered with the error and stays in memory.
LogBusy(w) ==
    LET i == req[w].entry.id
        undo == req[w].entry.op = "insert"
    IN  /\ writer_pc' = [writer_pc EXCEPT ![w] = IF undo THEN "undo" ELSE "idle"]
        /\ req' = IF undo THEN req ELSE [req EXCEPT ![w] = NoReq]
        /\ cl' = [cl EXCEPT ![w] = NoCluster]
        /\ accepted' = [accepted EXCEPT ![i] = @ \cup {req[w].after}]
        /\ UNCHANGED <<engine, cluster, disk, saving, unlogged, requests, crashes>>

\* wal_log, the load of wal_rotating.
CheckRotating(w) ==
    /\ writer_pc[w] = "check"
    /\ IF rotating
       THEN LogBusy(w)
       ELSE /\ writer_pc' = [writer_pc EXCEPT ![w] = "fetch"]
            /\ UNCHANGED <<engine, cluster, disk, saving, req, cl, requests, history,
                           crashes>>

\* wal_log, the clone of the cluster under the read lock.
FetchCluster(w) ==
    /\ writer_pc[w] = "fetch"
    /\ writer_pc' = [writer_pc EXCEPT ![w] = "send"]
    /\ cl' = [cl EXCEPT ![w] = wal]
    /\ UNCHANGED <<engine, cluster, disk, saving, req, requests, history, crashes>>

\* Variant: a request that finds the channel full is answered ok.
Send_drops(w) ==
    /\ writer_pc[w] = "send"
    /\ chan' = IF cl[w] = gen /\ Len(chan) < ChanCap THEN Append(chan, req[w].entry) ELSE chan
    /\ Acked(w)
    /\ UNCHANGED <<wal, gen, linked, rotating>>

\* wal_log, try_send: without a cluster it is Ok, and into the channel of a
\* cluster retired meanwhile the entry goes nowhere.
Send(w) ==
    /\ writer_pc[w] = "send"
    /\ \/ /\ cl[w] = gen /\ Len(chan) < ChanCap
          /\ chan' = Append(chan, req[w].entry)
          /\ Acked(w)
          /\ UNCHANGED <<wal, gen, linked, rotating>>
       \/ /\ cl[w] = gen /\ Len(chan) = ChanCap
          /\ LogBusy(w)
       \/ /\ cl[w] # gen
          /\ Acked(w)
          /\ UNCHANGED cluster

\* dispatch, the compensation of an insert: engine.delete, then the error.
Compensate(w) ==
    LET i == req[w].entry.id
    IN  /\ writer_pc[w] = "undo"
        /\ tab' = take(tab, i).tab
        /\ had' = [had EXCEPT ![i] = @ \cup {Gone}]
        /\ writer_pc' = [writer_pc EXCEPT ![w] = "idle"]
        /\ req' = [req EXCEPT ![w] = NoReq]
        /\ UNCHANGED <<cluster, disk, saving, cl, requests, accepted, unlogged, crashes>>

-----------------------------------------------------------------------------
(* The group-commit thread of the newest cluster.                          *)

GroupAppend ==
    /\ chan # <<>>
    /\ chan' = Tail(chan)
    /\ file' = IF linked THEN Append(file, Head(chan)) ELSE file
    /\ UNCHANGED <<engine, wal, gen, linked, rotating, synced, snap, saving, writing,
                   history, crashes>>

GroupSync ==
    /\ linked
    /\ synced < Len(file)
    /\ synced' = Len(file)
    /\ UNCHANGED <<engine, cluster, file, snap, saving, writing, history, crashes>>

-----------------------------------------------------------------------------
(* save_snapshot, in any of its callers.                                   *)

WriterAt(s, next) == spc' = [spc EXCEPT ![s] = next]

OthersIdle(s) == \A o \in Savers \ {s} : spc[o] = "idle"

\* The interval of the periodic task has passed, or the server is told to
\* stop: two tasks, on threads of their own.
SaveStart(s) ==
    /\ s \in Starting \ {"rotate"}
    /\ spc[s] = "idle"
    /\ Overlap \/ OthersIdle(s)
    /\ snapshots + crashes < MaxEvents
    /\ snapshots' = snapshots + 1
    /\ WriterAt(s, "scan")
    /\ UNCHANGED <<engine, cluster, disk, tmp, image, fd, writing, history, crashes>>

\* The table is copied under its read lock.
Scan(s) ==
    /\ spc[s] = "scan"
    /\ image' = [image EXCEPT ![s] = [i \in DOMAIN tab.rows |-> Roundtrip(tab.rows[i])]]
    /\ WriterAt(s, "create")
    /\ UNCHANGED <<engine, cluster, disk, tmp, fd, snapshots, writing, history, crashes>>

\* create_snapshot, File::create of snapshot.tmp: a file of that name which
\* another caller is writing is cut, and shared from now on.
CreateTmp(s) ==
    /\ spc[s] = "create"
    /\ tmp' = Partial
    /\ fd' = [fd EXCEPT ![s] = "tmp"]
    /\ WriterAt(s, "write")
    /\ UNCHANGED <<engine, cluster, disk, image, snapshots, writing, history, crashes>>

\* create_snapshot, the writes up to sync_all, wherever the file is by now.
WriteTmp(s) ==
    /\ spc[s] = "write"
    /\ tmp' = IF fd[s] = "tmp" THEN image[s] ELSE tmp
    /\ snap' = IF fd[s] = "snap" THEN image[s] ELSE snap
    /\ WriterAt(s, "rename")
    /\ UNCHANGED <<engine, cluster, file, synced, image, fd, snapshots, writing, history,
                   crashes>>

\* The rename to the final name, which is the same for every snapshot.
Rename(s) ==
    /\ spc[s] = "rename"
    /\ tmp # Gone
    /\ snap' = tmp
    /\ tmp' = Gone
    /\ fd' = [o \in Savers |-> IF fd[o] = "tmp" /\ o # s THEN "snap" ELSE "none"]
    /\ image' = [image EXCEPT ![s] = NoRows]
    /\ WriterAt(s, IF s = "rotate" THEN "take" ELSE "idle")
    /\ UNCHANGED <<engine, cluster, file, synced, snapshots, writing, history, crashes>>

\* save_snapshot returns an error: the disk is full, or another caller has
\* renamed snapshot.tmp.  snapshot_and_rotate returns with the error and
\* leaves wal_rotating set.
SaveFails(s) ==
    /\ (spc[s] = "write" /\ SnapshotFails) \/ (spc[s] = "rename" /\ tmp = Gone)
    /\ image' = [image EXCEPT ![s] = NoRows]
    /\ fd' = [fd EXCEPT ![s] = "none"]
    /\ WriterAt(s, "idle")
    /\ UNCHANGED <<engine, cluster, disk, tmp, snapshots, writing, history, crashes>>

-----------------------------------------------------------------------------
(* snapshot_and_rotate.                                                    *)

\* wal_rotating is set.  flush_all only waits, and not for certain: what it
\* observes are pauses of a counter.
RotateStart ==
    /\ "rotate" \in Starting
    /\ spc["rotate"] = "idle"
    /\ Overlap \/ OthersIdle("rotate")
    /\ snapshots + crashes < MaxEvents
    /\ snapshots' = snapshots + 1
    /\ rotating' = TRUE
    /\ WriterAt("rotate", "scan")
    /\ UNCHANGED <<engine, wal, gen, chan, linked, disk, tmp, image, fd, writing, history,
                   crashes>>

\* The cluster is taken out and dropped.
RotateTake ==
    /\ spc["rotate"] = "take"
    /\ wal' = NoCluster
    /\ WriterAt("rotate", "remove")
    /\ UNCHANGED <<engine, gen, chan, linked, rotating, disk, tmp, image, fd, snapshots,
                   writing, history, crashes>>

\* The log file is removed; the old thread may go on writing to it.
RotateRemove ==
    /\ spc["rotate"] = "remove"
    /\ file' = <<>>
    /\ synced' = 0
    /\ linked' = FALSE
    /\ unlogged' = {}
    /\ WriterAt("rotate", "open")
    /\ UNCHANGED <<engine, wal, gen, chan, rotating, snap, tmp, image, fd, snapshots, writing,
                   accepted, crashes>>

\* A new cluster with a new file.
RotateOpen ==
    /\ spc["rotate"] = "open"
    /\ gen' = gen + 1
    /\ wal' = gen + 1
    /\ chan' = <<>>
    /\ linked' = TRUE
    /\ WriterAt("rotate", "end")
    /\ UNCHANGED <<engine, rotating, disk, tmp, image, fd, snapshots, writing, history, crashes>>

RotateEnd ==
    /\ spc["rotate"] = "end"
    /\ rotating' = FALSE
    /\ WriterAt("rotate", "idle")
    /\ UNCHANGED <<engine, wal, gen, chan, linked, disk, tmp, image, fd, snapshots, writing,
                   history, crashes>>

-----------------------------------------------------------------------------
(* The process stops at any point; start recovers and opens the log.  The  *)
(* writes under way and the ones not yet synced are lost or not; until the *)
(* row is written again nothing is promised about which.                   *)

\* Nothing about row i is under way or waits to be synced.
Quiet(i) ==
    /\ \A w \in Writers : writer_pc[w] # "idle" => req[w].entry.id # i
    /\ linked => \A k \in DOMAIN chan : chan[k].id # i
    /\ \A k \in synced + 1 .. Len(file) : file[k].id # i

CrashAndStart ==
    /\ crashes < MaxCrashes /\ snapshots + crashes < MaxEvents
    /\ crashes' = crashes + 1
    /\ \E n \in synced .. Len(file) :
          /\ file' = SubSeq(file, 1, n)
          /\ tab' = recover(snap, SubSeq(file, 1, n))
    /\ wal' = gen + 1 /\ gen' = gen + 1
    /\ chan' = <<>> /\ linked' = TRUE /\ rotating' = FALSE
    /\ image' = [s \in Savers |-> NoRows]
    /\ fd' = [s \in Savers |-> "none"]
    /\ spc' = [s \in Savers |-> "idle"]
    /\ writer_pc' = [w \in Writers |-> "idle"]
    /\ req' = [w \in Writers |-> NoReq]
    /\ cl' = [w \in Writers |-> NoCluster]
    /\ accepted' = [i \in Ids |-> {StateOf(tab'.rows, i)} \cup
                                  IF Quiet(i) /\ i \notin unlogged
                                  THEN accepted[i] ELSE had[i]]
    /\ had' = [i \in Ids |-> had[i] \cup {StateOf(tab'.rows, i)}]
    /\ unlogged' = {}
    /\ UNCHANGED <<synced, snap, tmp, snapshots, requests>>

-----------------------------------------------------------------------------
WriterStep(w) ==
    \/ CheckRotating(w)
    \/ FetchCluster(w)
    \/ Send(w)
    \/ Compensate(w)

Request(w) ==
    \/ \E values \in RowInputs :
          \/ Insert(w, values)
          \/ \E i \in Ids : Update(w, i, values)
    \/ \E i \in Ids : Delete(w, i)

SaveStep(s) == Scan(s) \/ CreateTmp(s) \/ WriteTmp(s) \/ Rename(s) \/ SaveFails(s)

RotateStep == RotateTake \/ RotateRemove \/ RotateOpen \/ RotateEnd

\* Everything is done; the server waits for a request.
Idle ==
    /\ \A w \in Writers : writer_pc[w] = "idle"
    /\ \A s \in Savers : spc[s] = "idle"
    /\ chan = <<>> /\ synced = Len(file)
    /\ UNCHANGED durability_vars

DurabilityNext ==
    \/ Idle
    \/ \E w \in Writers : Request(w) \/ WriterStep(w)
    \/ GroupAppend
    \/ GroupSync
    \/ \E s \in Savers : SaveStart(s) \/ SaveStep(s)
    \/ RotateStart
    \/ RotateStep
    \/ CrashAndStart

DurabilitySpec == DurabilityInit /\ [][DurabilityNext]_durability_vars

-----------------------------------------------------------------------------
(* Properties.                                                             *)

(***************************************************************************)
(* Acknowledged writes survive: once nothing about a row is under way or   *)
(* unsynced, a crash at this very moment brings back the state that the    *)
(* last request answered ok gave it, or a later one whose answer was an    *)
(* error (wal_log: "caller must fail the request, not ack unwritten data").*)
(***************************************************************************)
AckedSurviveAlways ==
    LET r == recover(snap, SubSeq(file, 1, synced)).rows
    IN  \A i \in Ids : Quiet(i) => StateOf(r, i) \in accepted[i]

\* Before the log gives out id i again, it has the end of the row that had
\* it before.  (A delete that was answered with an error is not logged, and
\* after a snapshot, a crash and a fallen-back allocator the id is free.)
LivesEnd(log, i) ==
    \A k, m \in DOMAIN log :
        k < m /\ log[k].id = i /\ log[m].id = i /\ log[m].op = "insert"
            => \E d \in k .. m : log[d].id = i /\ log[d].op = "delete"

(***************************************************************************)
(* Acknowledged writes survive at every step of snapshots and rotations,   *)
(* whoever checked wal_rotating just before it was set or sent to the      *)
(* cluster being retired.  Excepted are the writes answered ok without a   *)
(* cluster until the old file is removed (see AckedSurviveAlways), and     *)
(* rows whose id was used before with its end missing in the log: replayed *)
(* over a later snapshot, the old updates win.                             *)
(***************************************************************************)
AckedSurvive ==
    LET r == recover(snap, SubSeq(file, 1, synced)).rows
    IN  \A i \in Ids \ unlogged :
          Quiet(i) /\ LivesEnd(file, i) => StateOf(r, i) \in accepted[i]

(***************************************************************************)
(* As long as no request is shed, a row that is quiet is on disk what it   *)
(* is in memory: the log has the writes of a table in the order in which   *)
(* the engine applied them (durability.rs, "per-table order is preserved").*)
(***************************************************************************)
DiskMatchesMemory ==
    LET r == recover(snap, SubSeq(file, 1, synced)).rows
    IN  \A i \in Ids : Quiet(i) =>
           StateOf(r, i) = IF i \in DOMAIN tab.rows THEN Roundtrip(tab.rows[i]) ELSE Gone
=============================================================================
