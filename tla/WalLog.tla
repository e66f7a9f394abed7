-------------------------------- MODULE WalLog --------------------------------
(***************************************************************************)
(* WriteAheadLog (blitz-wal log.rs): one log file behind a BufWriter.  The *)
(* file is a sequence of whole records: its header, then entries; a crash  *)
(* may cut the record it was writing.  Bytes are abstracted to how many    *)
(* later entries it takes to supply what a cut record lacks: until then    *)
(* the reader runs into the end of the file, and from then on it reads a   *)
(* record whose checksum is wrong.                                         *)
(***************************************************************************)
EXTENDS Integers, Sequences, FiniteSetsExt

CONSTANTS
    Payloads,    \* entry type, table, row id and data of an entry
    Misses,      \* what a cut record may lack, in entries
    Reuse,       \* whether the log is written behind a cut record
    MaxSeq,      \* bound: sequence numbers
    MaxWalCrashes \* bound: crashes

ASSUME WalAssumption ==
    /\ Reuse \in BOOLEAN
    /\ Misses \subseteq Nat \ {0}
    /\ MaxSeq \in Nat /\ MaxWalCrashes \in Nat

VARIABLES
    status,         \* "closed", "open", or "failed": open returned an error
    wal_file,       \* the records handed to the operating system
    wal_synced,     \* how many of them are on disk for certain
    buf,            \* the records staged in the BufWriter
    next_sequence,  \* of the open log
    flushed,        \* history: entries that a sync covered, since truncation
    wal_crashes     \* crashes so far

wal_vars == <<status, wal_file, wal_synced, buf, next_sequence, flushed, wal_crashes>>

Header     == [kind |-> "header"]
Entry(s, p) == [kind |-> "entry", seq |-> s, data |-> p]
Torn(m)    == [kind |-> "torn", miss |-> m]

Entries == {Entry(s, p) : s \in 1 .. MaxSeq, p \in Payloads}
Records == {Header} \cup Entries \cup {Torn(m) : m \in Misses}

WalTypeOK ==
    /\ status \in {"closed", "open", "failed"}
    /\ wal_file \in Seq(Records)
    /\ wal_synced \in 0 .. Len(wal_file)
    /\ buf \in Seq(Entries)
    /\ next_sequence \in 1 .. MaxSeq + 1
    /\ flushed \in SUBSET Entries
    /\ wal_crashes \in 0 .. MaxWalCrashes

WalInit ==
    /\ status = "closed"
    /\ wal_file = <<>>
    /\ wal_synced = 0
    /\ buf = <<>>
    /\ next_sequence = 1
    /\ flushed = {}
    /\ wal_crashes = 0

-----------------------------------------------------------------------------
(* Reading.                                                                *)

\* Variant: a record cut at the end of the file is an error.
Readable_strict(f) ==
    /\ f # <<>> /\ Head(f).kind = "header"
    /\ \A k \in DOMAIN f : f[k].kind # "torn"

\* The loops of recover_sequence and read_all end without an error: the file
\* starts with a header, and its first cut record, if any, runs into the end
\* of the file.
Readable(f) ==
    /\ f # <<>> /\ Head(f).kind = "header"
    /\ LET cut == {k \in DOMAIN f : f[k].kind = "torn"}
       IN  cut # {} => Len(f) - Min(cut) < f[Min(cut)].miss

\* The entries of a readable file: the ones before the first cut record.
read_all(f) ==
    LET cut == {k \in DOMAIN f : f[k].kind = "torn"}
    IN  SubSeq(f, 2, IF cut = {} THEN Len(f) ELSE Min(cut) - 1)

\* Variant: the sequence number of the last entry is given out again.
recover_sequence_same(f) ==
    Max({1} \cup {read_all(f)[k].seq : k \in DOMAIN read_all(f)})

recover_sequence(f) ==
    1 + Max({0} \cup {read_all(f)[k].seq : k \in DOMAIN read_all(f)})

-----------------------------------------------------------------------------
(* Operations.                                                             *)

\* The file is opened for appending; nothing is cut off its end.
open ==
    /\ status = "closed"
    /\ buf' = <<>>
    /\ \/ /\ wal_file = <<>>
          /\ status' = "open"
          /\ wal_file' = <<Header>>
          /\ next_sequence' = 1
       \/ /\ wal_file # <<>> /\ Readable(wal_file)
          /\ status' = "open"
          /\ next_sequence' = recover_sequence(wal_file)
          /\ UNCHANGED wal_file
       \/ /\ wal_file # <<>> /\ ~Readable(wal_file)
          /\ status' = "failed"
          /\ UNCHANGED <<wal_file, next_sequence>>
    /\ UNCHANGED <<wal_synced, flushed, wal_crashes>>

\* One more entry fits, and the instance lets the log be written as it is (a
\* restriction of the instance, not of the code).
MayAppend ==
    /\ next_sequence <= MaxSeq
    /\ Reuse \/ \A k \in DOMAIN wal_file : wal_file[k].kind # "torn"

append_buffered(p) ==
    /\ status = "open"
    /\ MayAppend
    /\ buf' = Append(buf, Entry(next_sequence, p))
    /\ next_sequence' = next_sequence + 1
    /\ UNCHANGED <<status, wal_file, wal_synced, flushed, wal_crashes>>

\* The entries among the records from position `n` on.
EntriesFrom(f, n) == {f[k] : k \in {k \in n .. Len(f) : f[k].kind = "entry"}}

\* Flush the staged records `b` and fdatasync.
FlushAndSync(b) ==
    /\ wal_file' = wal_file \o b
    /\ wal_synced' = Len(wal_file')
    /\ buf' = <<>>
    /\ flushed' = flushed \cup EntriesFrom(wal_file', wal_synced + 1)

sync ==
    /\ status = "open"
    /\ FlushAndSync(buf)
    /\ UNCHANGED <<status, next_sequence, wal_crashes>>

\* append_insert, append_update, append_delete, append_commit and
\* append_rollback: one entry, flushed and synced.
append_entry(p) ==
    /\ status = "open"
    /\ MayAppend
    /\ FlushAndSync(Append(buf, Entry(next_sequence, p)))
    /\ next_sequence' = next_sequence + 1
    /\ UNCHANGED <<status, wal_crashes>>

\* Variant: the position of the last sync is kept.
truncate_keeps_position ==
    /\ status = "open"
    /\ wal_file' = <<Header>>
    /\ buf' = <<>>
    /\ flushed' = {}
    /\ UNCHANGED <<status, wal_synced, next_sequence, wal_crashes>>

\* Everything goes except the header, which is flushed and not synced, and
\* the sequence counter.
truncate ==
    /\ status = "open"
    /\ wal_file' = <<Header>>
    /\ wal_synced' = 0
    /\ buf' = <<>>
    /\ flushed' = {}
    /\ UNCHANGED <<status, next_sequence, wal_crashes>>

\* The log is dropped: so is the BufWriter, which flushes.
Drop ==
    /\ status \in {"open", "failed"}
    /\ status' = "closed"
    /\ wal_file' = wal_file \o buf
    /\ buf' = <<>>
    /\ UNCHANGED <<wal_synced, next_sequence, flushed, wal_crashes>>

\* The process or the machine stops: of what was not synced a part remains,
\* its last record perhaps cut.
Crash ==
    LET all == wal_file \o buf
    IN  /\ wal_crashes < MaxWalCrashes
        /\ wal_crashes' = wal_crashes + 1
        /\ status' = "closed"
        /\ buf' = <<>>
        /\ \E n \in wal_synced .. Len(all) :
              \/ wal_file' = SubSeq(all, 1, n)
              \/ /\ n < Len(all)
                 /\ \E m \in Misses : wal_file' = Append(SubSeq(all, 1, n), Torn(m))
        /\ UNCHANGED <<wal_synced, next_sequence, flushed>>

WalNext ==
    \/ open
    \/ \E p \in Payloads : append_buffered(p) \/ append_entry(p)
    \/ sync
    \/ truncate
    \/ Drop
    \/ Crash

WalSpec == WalInit /\ [][WalNext]_wal_vars

-----------------------------------------------------------------------------
(* Properties.                                                             *)

(***************************************************************************)
(* The log file, its buffer, the reader and the recovery of the sequence   *)
(* number implement AppendLog: entries come back in order under increasing *)
(* numbers across reopening and truncation, and no synced entry is lost    *)
(* (as long as nothing is appended behind a cut record: SyncedReadable).   *)
(***************************************************************************)
Contents == LET all == wal_file \o buf IN [k \in 1 .. Len(read_all(all)) |->
               [seq |-> read_all(all)[k].seq, data |-> read_all(all)[k].data]]

\* How many of them are synced: the records up to wal_synced, less the header
\* and a cut record.
Durable == IF wal_synced = 0 THEN 0 ELSE Min({wal_synced - 1, Len(Contents)})

Abs == INSTANCE AppendLog WITH log <- Contents, durable <- Durable, Seqs <- 1 .. MaxSeq

ImplementsAppendLog == Abs!Spec

\* The entries synced since the last truncation are at the front of what a
\* recovery reads.
Recovers ==
    /\ Readable(wal_file)
    /\ \E n \in 0 .. Len(read_all(wal_file)) : flushed = {read_all(wal_file)[k] : k \in 1 .. n}

(***************************************************************************)
(* Every synced entry can be read back, whatever crashes happened          *)
(* (docs/OPERATIONS.md: after a kill and a restart, "all flushed rows      *)
(* present").  With a cut record at the end of the file it holds, since    *)
(* recover_sequence and read_all take UnexpectedEof for the end.           *)
(***************************************************************************)
SyncedReadable == flushed # {} => Recovers
=============================================================================
