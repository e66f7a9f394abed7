---------------------------- MODULE WalLog_proofs ----------------------------
(***************************************************************************)
(* The log file implements an append-only log and loses no synced entry,   *)
(* for any number of entries, payloads and crashes, as long as nothing is  *)
(* appended behind a cut record.                                           *)
(***************************************************************************)
EXTENDS WalLog, TLAPS

\* A file that appending and crashing produce: a header first, entries with
\* increasing numbers after it, and a cut record at the end if at all.
LogShape(f) ==
    /\ f \in Seq(Records)
    /\ \A k \in 1 .. Len(f) :
          /\ k < Len(f) => f[k].kind # "torn"
          /\ k > 1 => f[k].kind # "header"
          /\ k = 1 => f[k].kind # "entry"
    /\ \A j, k \in 1 .. Len(f) :
          j < k /\ f[j].kind = "entry" /\ f[k].kind = "entry" => f[j].seq < f[k].seq

\* The records of the file that are not cut.
Whole(f) == IF f # <<>> /\ f[Len(f)].kind = "torn" THEN Len(f) - 1 ELSE Len(f)

LEMMA RecordKinds ==
    ASSUME NEW r \in Records
    PROVE  \/ r.kind = "header" /\ r = Header
           \/ r.kind = "entry" /\ r \in Entries /\ r.seq \in 1 .. MaxSeq /\ r.data \in Payloads
           \/ r.kind = "torn" /\ r.miss \in Nat /\ r.miss > 0
<1>1. CASE r = Header
  BY <1>1 DEF Header
<1>2. CASE r \in Entries
  BY <1>2 DEF Entries, Entry
<1>3. CASE \E m \in Misses : r = Torn(m)
  BY <1>3, WalAssumption DEF Torn
<1> QED BY <1>1, <1>2, <1>3 DEF Records

(***************************************************************************)
(* The reader of a well-formed file returns exactly its entries, and       *)
(* recognises as its own every file that begins with a header.             *)
(***************************************************************************)
LEMMA ReadAllShape ==
    ASSUME NEW f, LogShape(f)
    PROVE  /\ Whole(f) \in Nat /\ Whole(f) <= Len(f)
           /\ read_all(f) = SubSeq(f, 2, Whole(f))
           /\ Len(read_all(f)) = IF Whole(f) = 0 THEN 0 ELSE Whole(f) - 1
           /\ \A k \in 1 .. Len(read_all(f)) :
                 /\ k + 1 \in 1 .. Whole(f) /\ read_all(f)[k] = f[k + 1]
                 /\ f[k + 1] \in Entries /\ f[k + 1].kind = "entry"
           /\ Readable(f) <=> f # <<>> /\ f[1].kind = "header"
<1> DEFINE cut == {k \in DOMAIN f : f[k].kind = "torn"}
<1>0. f \in Seq(Records) /\ DOMAIN f = 1 .. Len(f) /\ Len(f) \in Nat
  BY DEF LogShape
<1>1. CASE f # <<>> /\ f[Len(f)].kind = "torn"
  <2>1. cut = {Len(f)} /\ Len(f) > 0
    BY <1>0, <1>1 DEF LogShape
  <2>2. Min(cut) = Len(f) /\ cut # {}
    BY <1>0, <2>1 DEF Min
  <2>3. Whole(f) = Len(f) - 1 /\ Whole(f) \in Nat
    BY <1>0, <1>1, <2>1 DEF Whole
  <2>4. read_all(f) = SubSeq(f, 2, Whole(f))
    BY <2>2, <2>3 DEF read_all
  <2>5. Readable(f) <=> f # <<>> /\ f[1].kind = "header"
    <3>1. f[Len(f)] \in Records
      BY <1>0, <2>1
    <3>2. f[Len(f)].miss \in Nat /\ f[Len(f)].miss > 0
      BY <1>1, <3>1, RecordKinds
    <3>3. Len(f) - Min(cut) < f[Min(cut)].miss
      <4> HIDE DEF cut
      <4> QED BY <1>0, <2>2, <3>2
    <3>4. Head(f) = f[1]
      BY <1>0, <1>1
    <3> QED BY <3>3, <3>4 DEF Readable
  <2> QED BY <1>0, <2>3, <2>4, <2>5, RecordKinds DEF LogShape
<1>2. CASE ~(f # <<>> /\ f[Len(f)].kind = "torn")
  <2>1. cut = {}
    BY <1>0, <1>2 DEF LogShape
  <2>2. Whole(f) = Len(f)
    BY <1>2 DEF Whole
  <2>3. read_all(f) = SubSeq(f, 2, Whole(f))
    BY <2>1, <2>2 DEF read_all
  <2>4. Readable(f) <=> f # <<>> /\ f[1].kind = "header"
    <3>1. f # <<>> => Head(f) = f[1]
      BY <1>0
    <3> QED BY <2>1, <3>1 DEF Readable
  <2> QED BY <1>0, <2>1, <2>2, <2>3, <2>4, RecordKinds DEF LogShape
<1> QED BY <1>1, <1>2

(***************************************************************************)
(* recover_sequence gives the number after the last entry read.            *)
(***************************************************************************)
LEMMA RecoveredSequence ==
    ASSUME NEW f, LogShape(f)
    PROVE  /\ recover_sequence(f) \in 1 .. MaxSeq + 1
           /\ \A k \in 1 .. Len(read_all(f)) : read_all(f)[k].seq < recover_sequence(f)
<1> DEFINE r == read_all(f)
           S == {0} \cup {r[k].seq : k \in DOMAIN r}
           n == Len(r)
<1>0. f \in Seq(Records) /\ Len(f) \in Nat /\ MaxSeq \in Nat
  BY WalAssumption DEF LogShape
<1>1. n \in Nat /\ DOMAIN r = 1 .. n
  BY <1>0, ReadAllShape
<1>2. \A k \in 1 .. n : /\ r[k].seq \in 1 .. MaxSeq /\ r[k] = f[k + 1] /\ k + 1 \in 1 .. Len(f)
                        /\ f[k + 1].kind = "entry"
  <2> SUFFICES ASSUME NEW k \in 1 .. n
               PROVE  /\ r[k].seq \in 1 .. MaxSeq /\ r[k] = f[k + 1] /\ k + 1 \in 1 .. Len(f)
                      /\ f[k + 1].kind = "entry"
    OBVIOUS
  <2>1. r[k] = f[k + 1] /\ f[k + 1] \in Entries /\ k + 1 \in 1 .. Len(f) /\ f[k + 1].kind = "entry"
    BY <1>0, <1>1, ReadAllShape
  <2>2. f[k + 1] \in Records
    BY <1>0, <2>1
  <2>3. f[k + 1].seq \in 1 .. MaxSeq
    BY <2>1, <2>2, RecordKinds
  <2> HIDE DEF r
  <2> QED BY <2>1, <2>3
<1>3. \A j, k \in 1 .. n : j < k => r[j].seq < r[k].seq
  <2> SUFFICES ASSUME NEW j \in 1 .. n, NEW k \in 1 .. n, j < k PROVE r[j].seq < r[k].seq
    OBVIOUS
  <2>1. j + 1 \in 1 .. Len(f) /\ k + 1 \in 1 .. Len(f) /\ j + 1 < k + 1
    BY <1>1, <1>2
  <2> HIDE DEF r, n
  <2> QED BY <1>2, <2>1 DEF LogShape
<1> HIDE DEF r, n
<1>4. S \subseteq 0 .. MaxSeq
  BY <1>0, <1>1, <1>2
<1>5. \E m \in S : \A y \in S : m >= y
  <2>1. CASE n = 0
    <3>1. S = {0}
      BY <1>1, <2>1
    <3> QED BY <3>1
  <2>2. CASE n > 0
    <3>1. n \in 1 .. n
      BY <1>1, <2>2
    <3>2. r[n].seq \in S
      BY <1>1, <3>1
    <3>3. r[n].seq \in 1 .. MaxSeq
      BY <1>2, <3>1
    <3>4. r[n].seq \in Nat
      BY <1>0, <3>3
    <3>5. \A k \in 1 .. n : r[n].seq >= r[k].seq
      BY <1>1, <1>2, <1>3, <3>1
    <3> QED BY <1>1, <3>2, <3>4, <3>5
  <2> QED BY <1>1, <2>1, <2>2
<1>6. Max(S) \in S /\ \A y \in S : Max(S) >= y
  BY <1>5 DEF Max
<1>7. recover_sequence(f) = 1 + Max(S)
  BY DEF recover_sequence, r
<1>8. \A k \in 1 .. n : r[k].seq \in S
  BY <1>1
<1>9. PICK M \in 0 .. MaxSeq : M = Max(S)
  BY <1>4, <1>6
<1>10. \A k \in 1 .. n : M >= r[k].seq
  BY <1>6, <1>8, <1>9
<1>11. recover_sequence(f) = 1 + M
  BY <1>7, <1>9
<1> HIDE DEF S
<1>12. /\ 1 + M \in 1 .. MaxSeq + 1
       /\ \A k \in 1 .. n : r[k].seq < 1 + M
  BY <1>0, <1>2, <1>10
<1> QED BY <1>11, <1>12 DEF r, n

-----------------------------------------------------------------------------
\* The entries among the records that are on disk for certain.
OnDisk(f, n) == {f[k] : k \in {k \in 1 .. n : f[k].kind = "entry"}}

All == wal_file \o buf

WalInv ==
    /\ WalTypeOK
    /\ LogShape(All)
    /\ buf # <<>> => /\ status = "open"
                     /\ \A k \in 1 .. Len(wal_file) : wal_file[k].kind # "torn"
    /\ status = "open" =>
          /\ wal_file # <<>> /\ wal_file[1].kind = "header"
          /\ \A k \in 1 .. Len(All) : All[k].kind = "entry" => All[k].seq < next_sequence
    /\ flushed = OnDisk(wal_file, wal_synced)

(***************************************************************************)
(* Putting one more entry, or a part of a file, together.                  *)
(***************************************************************************)
LEMMA AppendShape ==
    ASSUME NEW f, LogShape(f), f # <<>>, NEW e \in Entries, f[Len(f)].kind # "torn",
           \A k \in 1 .. Len(f) : f[k].kind = "entry" => f[k].seq < e.seq
    PROVE  LogShape(Append(f, e))
<1> DEFINE g == Append(f, e)
           n == Len(f)
<1>0. /\ f \in Seq(Records) /\ n \in Nat /\ n > 0 /\ e \in Records /\ e.kind = "entry"
  BY DEF LogShape, Records, Entries, Entry
<1>1. /\ g \in Seq(Records) /\ Len(g) = n + 1 /\ g[n + 1] = e
      /\ \A k \in 1 .. n : g[k] = f[k]
  BY <1>0
<1> HIDE DEF g
<1>2. \A k \in 1 .. n : f[k].kind # "torn"
  BY <1>0 DEF LogShape
<1>3. \A k \in 1 .. n + 1 : k \in 1 .. n \/ k = n + 1
  BY <1>0
<1>4. \A k \in 1 .. n : (k > 1 => f[k].kind # "header") /\ (k = 1 => f[k].kind # "entry")
  BY DEF LogShape
<1>5. \A k \in 1 .. Len(g) :
          /\ k < Len(g) => g[k].kind # "torn"
          /\ k > 1 => g[k].kind # "header"
          /\ k = 1 => g[k].kind # "entry"
  BY <1>0, <1>1, <1>2, <1>3, <1>4
<1>6. ASSUME NEW j \in 1 .. Len(g), NEW k \in 1 .. Len(g), j < k,
             g[j].kind = "entry", g[k].kind = "entry"
      PROVE  g[j].seq < g[k].seq
  <2>1. j \in 1 .. n
    BY <1>0, <1>1, <1>6
  <2>2. CASE k \in 1 .. n
    BY <1>1, <1>6, <2>1, <2>2 DEF LogShape
  <2>3. CASE k = n + 1
    BY <1>1, <1>6, <2>1, <2>3
  <2> QED BY <1>1, <1>3, <2>2, <2>3
<1>7. LogShape(g)
  BY <1>1, <1>5, <1>6 DEF LogShape
<1> QED BY <1>7 DEF g

LEMMA PrefixShape ==
    ASSUME NEW f, LogShape(f), NEW n \in 0 .. Len(f)
    PROVE  /\ LogShape(SubSeq(f, 1, n))
           /\ Len(SubSeq(f, 1, n)) = n
           /\ \A k \in 1 .. n : SubSeq(f, 1, n)[k] = f[k]
<1> DEFINE g == SubSeq(f, 1, n)
<1>0. f \in Seq(Records) /\ Len(f) \in Nat
  BY DEF LogShape
<1>1. g \in Seq(Records) /\ Len(g) = n /\ \A k \in 1 .. n : g[k] = f[k]
  BY <1>0
<1> HIDE DEF g
<1>2. \A k \in 1 .. n : k \in 1 .. Len(f) /\ (k < n => k < Len(f))
  BY <1>0
<1>3. LogShape(g)
  BY <1>1, <1>2 DEF LogShape
<1> QED BY <1>1, <1>3 DEF g

LEMMA CutShape ==
    ASSUME NEW f, LogShape(f), NEW n \in 0 .. Len(f), n < Len(f), NEW m \in Misses
    PROVE  LET g == Append(SubSeq(f, 1, n), Torn(m))
           IN  /\ LogShape(g) /\ Len(g) = n + 1 /\ g[n + 1].kind = "torn"
               /\ \A k \in 1 .. n : g[k] = f[k] /\ g[k].kind # "torn"
<1> DEFINE g == Append(SubSeq(f, 1, n), Torn(m))
<1>0. f \in Seq(Records) /\ Len(f) \in Nat /\ Torn(m) \in Records /\ Torn(m).kind = "torn"
  BY DEF LogShape, Records, Torn
<1>1. /\ g \in Seq(Records) /\ Len(g) = n + 1 /\ g[n + 1] = Torn(m)
      /\ \A k \in 1 .. n : g[k] = f[k]
  BY <1>0
<1> HIDE DEF g
<1>2. \A k \in 1 .. n : k \in 1 .. Len(f) /\ k < Len(f)
  BY <1>0
<1>3. \A k \in 1 .. n + 1 : k \in 1 .. n \/ k = n + 1
  OBVIOUS
<1>4. \A k \in 1 .. n : f[k].kind # "torn" /\ (k > 1 => f[k].kind # "header")
                                           /\ (k = 1 => f[k].kind # "entry")
  BY <1>2 DEF LogShape
<1>5. \A k \in 1 .. Len(g) :
          /\ k < Len(g) => g[k].kind # "torn"
          /\ k > 1 => g[k].kind # "header"
          /\ k = 1 => g[k].kind # "entry"
  BY <1>0, <1>1, <1>3, <1>4
<1>6. ASSUME NEW j \in 1 .. Len(g), NEW k \in 1 .. Len(g), j < k,
             g[j].kind = "entry", g[k].kind = "entry"
      PROVE  g[j].seq < g[k].seq
  <2>1. j \in 1 .. n /\ k \in 1 .. n
    BY <1>0, <1>1, <1>3, <1>6
  <2> QED BY <1>1, <1>2, <1>6, <2>1 DEF LogShape
<1>7. LogShape(g)
  BY <1>1, <1>5, <1>6 DEF LogShape
<1> QED BY <1>0, <1>1, <1>4, <1>7 DEF g

-----------------------------------------------------------------------------
(***************************************************************************)
(* What is on disk for certain, and the staged records behind the file.    *)
(***************************************************************************)
LEMMA OnDiskSplit ==
    ASSUME NEW f, NEW n \in Nat, NEW len \in Nat, n <= len, len = Len(f)
    PROVE  OnDisk(f, n) \cup EntriesFrom(f, n + 1) = OnDisk(f, len)
<1>1. \A k : k \in 1 .. len <=> k \in 1 .. n \/ k \in n + 1 .. len
  OBVIOUS
<1> QED BY <1>1 DEF OnDisk, EntriesFrom

LEMMA OnDiskAgree ==
    ASSUME NEW f, NEW g, NEW n, \A k \in 1 .. n : f[k] = g[k]
    PROVE  OnDisk(f, n) = OnDisk(g, n)
BY DEF OnDisk

LEMMA EntryKind ==
    ASSUME NEW e \in Entries
    PROVE  e \in Records /\ e.kind = "entry" /\ e.seq \in 1 .. MaxSeq /\ e.data \in Payloads
BY DEF Entries, Entry, Records

LEMMA FileInAll ==
    ASSUME WalTypeOK
    PROVE  /\ All \in Seq(Records) /\ Len(All) = Len(wal_file) + Len(buf)
           /\ Len(All) \in Nat /\ Len(wal_file) \in Nat /\ Len(buf) \in Nat
           /\ \A k \in 1 .. Len(wal_file) : All[k] = wal_file[k]
           /\ \A k \in Len(wal_file) + 1 .. Len(All) : All[k].kind = "entry"
           /\ wal_file = SubSeq(All, 1, Len(wal_file))
<1>1. wal_file \in Seq(Records) /\ buf \in Seq(Records) /\ buf \in Seq(Entries)
  BY DEF WalTypeOK, Records
<1>2. All \in Seq(Records) /\ Len(All) = Len(wal_file) + Len(buf)
      /\ Len(All) \in Nat /\ Len(wal_file) \in Nat /\ Len(buf) \in Nat
  BY <1>1 DEF All
<1>3. \A k \in 1 .. Len(wal_file) : All[k] = wal_file[k]
  BY <1>1 DEF All
<1>4. ASSUME NEW k \in Len(wal_file) + 1 .. Len(All)
      PROVE  All[k].kind = "entry"
  <2>1. All[k] = buf[k - Len(wal_file)] /\ k - Len(wal_file) \in 1 .. Len(buf)
    BY <1>1, <1>2 DEF All
  <2>2. buf[k - Len(wal_file)] \in Entries
    BY <1>1, <2>1
  <2> QED BY <2>1, <2>2, EntryKind
<1>5. wal_file = SubSeq(All, 1, Len(wal_file))
  <2>1. SubSeq(All, 1, Len(wal_file)) \in Seq(Records)
        /\ Len(SubSeq(All, 1, Len(wal_file))) = Len(wal_file)
        /\ \A k \in 1 .. Len(wal_file) : SubSeq(All, 1, Len(wal_file))[k] = All[k]
    BY <1>2
  <2> QED BY <1>1, <1>3, <2>1
<1> QED BY <1>2, <1>3, <1>4, <1>5

LEMMA FileShape ==
    ASSUME WalInv
    PROVE  LogShape(wal_file)
<1>1. WalTypeOK /\ LogShape(All)
  BY DEF WalInv
<1>2. Len(wal_file) \in 0 .. Len(All)
  BY <1>1, FileInAll
<1> QED BY <1>1, <1>2, FileInAll, PrefixShape

LEMMA WalInit_WalInv == WalInit => WalInv
<1> SUFFICES ASSUME WalInit PROVE WalInv
  OBVIOUS
<1>1. WalTypeOK
  BY WalAssumption DEF WalInit, WalTypeOK
<1>2. All = <<>>
  BY DEF All, WalInit
<1>3. LogShape(All)
  BY <1>2 DEF LogShape
<1>4. flushed = OnDisk(wal_file, wal_synced)
  BY DEF WalInit, OnDisk
<1> QED BY <1>1, <1>3, <1>4 DEF WalInv, WalInit

(***************************************************************************)
(* One more entry behind everything written so far, staged or synced.      *)
(***************************************************************************)
LEMMA OneMore ==
    ASSUME WalInv, ~Reuse, status = "open", MayAppend, NEW p \in Payloads
    PROVE  LET e == Entry(next_sequence, p)
               g == Append(All, e)
           IN  /\ e \in Entries /\ e.seq = next_sequence /\ e.data = p
               /\ All # <<>> /\ All[Len(All)].kind # "torn"
               /\ LogShape(g) /\ Len(g) = Len(All) + 1 /\ g[Len(All) + 1] = e
               /\ \A k \in 1 .. Len(All) : g[k] = All[k]
               /\ \A k \in 1 .. Len(g) : g[k].kind = "entry" => g[k].seq < next_sequence + 1
               /\ \A k \in 1 .. Len(wal_file) : wal_file[k].kind # "torn"
               /\ g = wal_file \o Append(buf, e)
<1> DEFINE e == Entry(next_sequence, p)
           g == Append(All, e)
<1>0. WalTypeOK /\ LogShape(All) /\ wal_file # <<>> /\ MaxSeq \in Nat
      /\ next_sequence \in 1 .. MaxSeq
  BY WalAssumption DEF WalInv, WalTypeOK, MayAppend
<1>1. e \in Entries /\ e.seq = next_sequence /\ e.data = p
  BY <1>0 DEF Entries, Entry
<1> HIDE DEF e
<1>2. /\ wal_file \in Seq(Records) /\ buf \in Seq(Records)
      /\ Len(wal_file) \in Nat /\ Len(wal_file) > 0
  BY <1>0 DEF WalTypeOK, Records
<1>3. \A k \in 1 .. Len(wal_file) : wal_file[k].kind # "torn"
  BY <1>2 DEF MayAppend
<1>4. All # <<>> /\ Len(All) \in Nat /\ Len(All) > 0 /\ All \in Seq(Records)
  BY <1>0, <1>2, FileInAll
<1>5. All[Len(All)].kind # "torn"
  <2>1. Len(All) \in 1 .. Len(wal_file) \/ Len(All) \in Len(wal_file) + 1 .. Len(All)
    BY <1>2, <1>4
  <2> QED BY <1>0, <1>3, <2>1, FileInAll
<1>6. \A k \in 1 .. Len(All) : All[k].kind = "entry" => All[k].seq < next_sequence
  BY DEF WalInv
<1>7. LogShape(g)
  BY <1>0, <1>1, <1>4, <1>5, <1>6, AppendShape
<1>8. Len(g) = Len(All) + 1 /\ g[Len(All) + 1] = e
      /\ \A k \in 1 .. Len(All) : g[k] = All[k]
  BY <1>4
<1>9. g = wal_file \o Append(buf, e)
  <2>1. e \in Records
    BY <1>1, EntryKind
  <2> QED BY <1>2, <2>1 DEF All
<1> HIDE DEF g
<1>10. \A k \in 1 .. Len(g) : g[k].kind = "entry" => g[k].seq < next_sequence + 1
  <2> SUFFICES ASSUME NEW k \in 1 .. Len(g), g[k].kind = "entry"
               PROVE  g[k].seq < next_sequence + 1
    OBVIOUS
  <2>1. CASE k \in 1 .. Len(All)
    <3>1. All[k].kind = "entry" /\ All[k] \in Records /\ g[k] = All[k]
      BY <1>4, <1>8, <2>1
    <3>2. All[k].seq \in 1 .. MaxSeq /\ All[k].seq < next_sequence
      BY <1>6, <2>1, <3>1, RecordKinds
    <3> QED BY <1>0, <3>1, <3>2
  <2>2. CASE k = Len(All) + 1
    BY <1>0, <1>1, <1>8, <2>2
  <2> QED BY <1>4, <1>8, <2>1, <2>2
<1> QED BY <1>1, <1>3, <1>4, <1>5, <1>7, <1>8, <1>9, <1>10 DEF e, g

(***************************************************************************)
(* What a crash leaves: a part of the records, no less than the synced     *)
(* ones, and perhaps a cut record.                                         *)
(***************************************************************************)
LEMMA CrashLeaves ==
    ASSUME WalInv, Crash
    PROVE  \E n \in 0 .. Len(All) :
              /\ n >= wal_synced
              /\ LogShape(wal_file')
              /\ \A k \in 1 .. n : wal_file'[k] = All[k]
              /\ \/ wal_file' = SubSeq(All, 1, n) /\ Len(wal_file') = n
                 \/ /\ n < Len(All) /\ Len(wal_file') = n + 1 /\ wal_file'[n + 1].kind = "torn"
                    /\ \A k \in 1 .. n : wal_file'[k].kind # "torn"
<1>0. WalTypeOK /\ LogShape(All) /\ wal_synced \in Nat /\ Len(All) \in Nat
  BY FileInAll DEF WalInv, WalTypeOK
<1>1. PICK n \in wal_synced .. Len(All) :
              \/ wal_file' = SubSeq(All, 1, n)
              \/ /\ n < Len(All)
                 /\ \E m \in Misses : wal_file' = Append(SubSeq(All, 1, n), Torn(m))
  BY DEF Crash, All
<1>2. n \in 0 .. Len(All) /\ n >= wal_synced
  BY <1>0
<1>3. CASE wal_file' = SubSeq(All, 1, n)
  <2>1. LogShape(wal_file') /\ Len(wal_file') = n /\ \A k \in 1 .. n : wal_file'[k] = All[k]
    BY <1>0, <1>2, <1>3, PrefixShape
  <2> QED BY <1>2, <1>3, <2>1
<1>4. ASSUME n < Len(All), NEW m \in Misses, wal_file' = Append(SubSeq(All, 1, n), Torn(m))
      PROVE  /\ LogShape(wal_file') /\ Len(wal_file') = n + 1 /\ wal_file'[n + 1].kind = "torn"
             /\ \A k \in 1 .. n : wal_file'[k] = All[k] /\ wal_file'[k].kind # "torn"
  BY <1>0, <1>2, <1>4, CutShape
<1> QED BY <1>1, <1>2, <1>3, <1>4

LEMMA WalNext_WalInv ==
    ASSUME ~Reuse, WalInv, [WalNext]_wal_vars
    PROVE  WalInv'
<1>0. /\ WalTypeOK /\ LogShape(All) /\ flushed = OnDisk(wal_file, wal_synced)
      /\ MaxSeq \in Nat /\ MaxWalCrashes \in Nat
      /\ wal_synced \in Nat /\ wal_synced <= Len(wal_file)
      /\ next_sequence \in 1 .. MaxSeq + 1 /\ flushed \in SUBSET Entries
      /\ wal_crashes \in 0 .. MaxWalCrashes /\ wal_file \in Seq(Records) /\ buf \in Seq(Entries)
  BY WalAssumption DEF WalInv, WalTypeOK
<1>1. /\ All \in Seq(Records) /\ Len(All) = Len(wal_file) + Len(buf)
      /\ Len(All) \in Nat /\ Len(wal_file) \in Nat /\ Len(buf) \in Nat
      /\ \A k \in 1 .. Len(wal_file) : All[k] = wal_file[k]
      /\ \A k \in Len(wal_file) + 1 .. Len(All) : All[k].kind = "entry"
  BY <1>0, FileInAll
<1>a. Header \in Records /\ Header.kind = "header"
  BY DEF Records, Header
<1>2. ASSUME open PROVE WalInv'
  <2>1. buf = <<>> /\ All = wal_file /\ buf' = <<>>
    BY <1>0, <1>2 DEF WalInv, open, All
  <2>2. CASE wal_file = <<>> /\ wal_file' = <<Header>> /\ next_sequence' = 1
    <3>1. All' = <<Header>> /\ Len(wal_file') = 1 /\ wal_file' \in Seq(Records)
          /\ wal_file'[1] = Header
      BY <1>a, <2>1, <2>2 DEF All
    <3>2. LogShape(All')
      BY <1>a, <3>1 DEF LogShape
    <3>3. WalTypeOK'
      BY <1>0, <1>2, <2>1, <2>2, <3>1 DEF WalTypeOK, open
    <3>4. wal_synced' = 0 /\ flushed' = OnDisk(wal_file', wal_synced')
      <4>1. wal_synced = 0
        BY <1>0, <2>2
      <4>2. wal_synced' = 0 /\ flushed' = flushed /\ flushed = {}
        BY <1>0, <1>2, <4>1 DEF open, OnDisk
      <4> QED BY <4>2 DEF OnDisk
    <3>5. wal_file' # <<>> /\ wal_file'[1].kind = "header"
      <4>1. wal_file' # <<>>
        BY <2>2
      <4> QED BY <1>a, <3>1, <4>1
    <3>6. \A k \in 1 .. Len(All') : All'[k].kind # "entry"
      BY <1>a, <3>1
    <3> QED BY <2>1, <3>2, <3>3, <3>4, <3>5, <3>6 DEF WalInv
  <2>3. CASE wal_file # <<>> /\ Readable(wal_file) /\ next_sequence' = recover_sequence(wal_file)
             /\ wal_file' = wal_file /\ status' = "open"
    <3>1. All' = wal_file /\ LogShape(wal_file)
      BY <1>0, <2>1, <2>3 DEF All
    <3>2. recover_sequence(wal_file) \in 1 .. MaxSeq + 1
      BY <3>1, RecoveredSequence
    <3>3. WalTypeOK'
      BY <1>0, <1>2, <2>1, <2>3, <3>2 DEF WalTypeOK, open
    <3>4. wal_file[1].kind = "header"
      BY <2>3, <3>1, ReadAllShape
    <3>5. ASSUME NEW k \in 1 .. Len(wal_file), wal_file[k].kind = "entry"
          PROVE  wal_file[k].seq < recover_sequence(wal_file)
      <4>1. k - 1 \in 1 .. Len(read_all(wal_file)) /\ read_all(wal_file)[k - 1] = wal_file[k]
        <5>1. k # 1 /\ k - 1 + 1 = k
          <6>1. CASE k = 1
            BY <3>4, <3>5, <6>1
          <6>2. k \in Nat
            BY <1>1
          <6> QED BY <6>1, <6>2
        <5>2. k <= Whole(wal_file) /\ Whole(wal_file) \in Nat
          BY <1>1, <3>5, <3>1, ReadAllShape DEF Whole
        <5>3. k - 1 \in 1 .. Len(read_all(wal_file))
          BY <1>1, <3>1, <5>1, <5>2, ReadAllShape
        <5> QED BY <3>1, <5>1, <5>3, ReadAllShape
      <4> QED BY <3>1, <4>1, RecoveredSequence
    <3>6. flushed' = OnDisk(wal_file', wal_synced')
      BY <1>0, <1>2, <2>3 DEF open
    <3> QED BY <2>1, <2>3, <3>1, <3>3, <3>4, <3>5, <3>6 DEF WalInv
  <2>4. CASE status' = "failed" /\ wal_file' = wal_file /\ next_sequence' = next_sequence
    <3>1. WalTypeOK'
      BY <1>0, <1>2, <2>1, <2>4 DEF WalTypeOK, open
    <3>2. All' = wal_file /\ LogShape(wal_file)
      BY <1>0, <2>1, <2>4 DEF All
    <3>3. flushed' = OnDisk(wal_file', wal_synced')
      BY <1>0, <1>2, <2>4 DEF open
    <3> QED BY <2>1, <2>4, <3>1, <3>2, <3>3 DEF WalInv
  <2> QED BY <1>2, <2>2, <2>3, <2>4 DEF open
<1>3. ASSUME NEW p \in Payloads, append_buffered(p) PROVE WalInv'
  <2> DEFINE e == Entry(next_sequence, p)
  <2>1. status = "open" /\ MayAppend /\ next_sequence \in 1 .. MaxSeq
    BY <1>0, <1>3 DEF append_buffered, MayAppend
  <2>2. PICK g : /\ g = Append(All, e)
                 /\ e \in Entries /\ LogShape(g)
                 /\ \A k \in 1 .. Len(g) : g[k].kind = "entry" => g[k].seq < next_sequence + 1
                 /\ \A k \in 1 .. Len(wal_file) : wal_file[k].kind # "torn"
                 /\ g = wal_file \o Append(buf, e)
    BY <2>1, OneMore
  <2>3. /\ buf' = Append(buf, e) /\ next_sequence' = next_sequence + 1 /\ status' = status
        /\ wal_file' = wal_file /\ wal_synced' = wal_synced /\ flushed' = flushed
        /\ wal_crashes' = wal_crashes
    BY <1>3 DEF append_buffered
  <2> HIDE DEF e
  <2>4. All' = g
    BY <2>2, <2>3 DEF All
  <2>5. WalTypeOK'
    BY <1>0, <2>1, <2>2, <2>3 DEF WalTypeOK
  <2>6. wal_file # <<>> /\ wal_file[1].kind = "header"
    BY <2>1 DEF WalInv
  <2> QED BY <1>0, <2>1, <2>2, <2>3, <2>4, <2>5, <2>6 DEF WalInv
<1>4. ASSUME NEW p \in Payloads, append_entry(p) PROVE WalInv'
  <2> DEFINE e == Entry(next_sequence, p)
  <2>1. status = "open" /\ MayAppend /\ next_sequence \in 1 .. MaxSeq
    BY <1>0, <1>4 DEF append_entry, MayAppend
  <2>2. PICK g : /\ g = Append(All, e) /\ Len(g) = Len(All) + 1
                 /\ e \in Entries /\ LogShape(g)
                 /\ \A k \in 1 .. Len(All) : g[k] = All[k]
                 /\ \A k \in 1 .. Len(g) : g[k].kind = "entry" => g[k].seq < next_sequence + 1
                 /\ g = wal_file \o Append(buf, e)
    BY <2>1, OneMore
  <2>3. /\ buf' = <<>> /\ next_sequence' = next_sequence + 1 /\ status' = status
        /\ wal_file' = g /\ wal_synced' = Len(g)
        /\ flushed' = flushed \cup EntriesFrom(g, wal_synced + 1)
        /\ wal_crashes' = wal_crashes
    BY <1>4, <2>2 DEF append_entry, FlushAndSync
  <2> HIDE DEF e
  <2>4. All' = g /\ g \in Seq(Records) /\ g # <<>>
    BY <1>1, <2>2, <2>3 DEF All, LogShape
  <2>5. flushed' = OnDisk(g, Len(g)) /\ OnDisk(g, Len(g)) \subseteq Entries
    <3>1. OnDisk(g, wal_synced) = OnDisk(wal_file, wal_synced)
      <4>1. \A k \in 1 .. wal_synced : g[k] = wal_file[k]
        BY <1>0, <1>1, <2>2
      <4> QED BY <4>1, OnDiskAgree
    <3>2. OnDisk(g, wal_synced) \cup EntriesFrom(g, wal_synced + 1) = OnDisk(g, Len(g))
      <4>1. Len(g) \in Nat /\ wal_synced <= Len(g)
        BY <1>0, <1>1, <2>2
      <4> QED BY <1>0, <4>1, OnDiskSplit
    <3>3. OnDisk(g, Len(g)) \subseteq Entries
      BY <2>4, RecordKinds DEF OnDisk
    <3> QED BY <1>0, <2>3, <3>1, <3>2, <3>3
  <2>6. WalTypeOK'
    BY <1>0, <1>1, <2>1, <2>2, <2>3, <2>4, <2>5 DEF WalTypeOK
  <2>7. g[1].kind = "header"
    BY <1>1, <2>1, <2>2 DEF WalInv
  <2> QED BY <2>1, <2>2, <2>3, <2>4, <2>5, <2>6, <2>7 DEF WalInv
<1>5. ASSUME sync PROVE WalInv'
  <2>1. PICK g : g = All /\ g = wal_file \o buf
    BY DEF All
  <2>2. /\ status = "open" /\ buf' = <<>> /\ next_sequence' = next_sequence /\ status' = status
        /\ wal_file' = g /\ wal_synced' = Len(g)
        /\ flushed' = flushed \cup EntriesFrom(g, wal_synced + 1)
        /\ wal_crashes' = wal_crashes
    BY <1>5, <2>1 DEF sync, FlushAndSync
  <2>3. All' = g /\ g \in Seq(Records)
    BY <1>1, <2>1, <2>2 DEF All
  <2>4. flushed' = OnDisk(g, Len(g)) /\ OnDisk(g, Len(g)) \subseteq Entries
    <3>1. OnDisk(g, wal_synced) = OnDisk(wal_file, wal_synced)
      <4>1. \A k \in 1 .. wal_synced : g[k] = wal_file[k]
        BY <1>0, <1>1, <2>1
      <4> QED BY <4>1, OnDiskAgree
    <3>2. OnDisk(g, wal_synced) \cup EntriesFrom(g, wal_synced + 1) = OnDisk(g, Len(g))
      <4>1. Len(g) \in Nat /\ wal_synced <= Len(g)
        BY <1>0, <1>1, <2>1
      <4> QED BY <1>0, <4>1, OnDiskSplit
    <3>3. OnDisk(g, Len(g)) \subseteq Entries
      BY <2>3, RecordKinds DEF OnDisk
    <3> QED BY <1>0, <2>2, <3>1, <3>2, <3>3
  <2>5. WalTypeOK'
    BY <1>0, <1>1, <2>1, <2>2, <2>3, <2>4 DEF WalTypeOK
  <2>6. g # <<>> /\ g[1].kind = "header"
        /\ \A k \in 1 .. Len(g) : g[k].kind = "entry" => g[k].seq < next_sequence
    <3>1. wal_file # <<>> /\ wal_file[1].kind = "header" /\ Len(wal_file) > 0
      BY <1>0, <2>2 DEF WalInv
    <3> QED BY <1>1, <2>1, <2>2, <3>1 DEF WalInv
  <2> QED BY <1>0, <2>1, <2>2, <2>3, <2>4, <2>5, <2>6 DEF WalInv
<1>6. ASSUME truncate PROVE WalInv'
  <2>1. All' = <<Header>> /\ Len(wal_file') = 1 /\ wal_file' \in Seq(Records)
        /\ wal_file'[1] = Header /\ wal_file' # <<>>
    BY <1>6, <1>a DEF All, truncate
  <2>2. LogShape(All')
    BY <1>a, <2>1 DEF LogShape
  <2>3. WalTypeOK'
    BY <1>0, <1>6, <2>1 DEF WalTypeOK, truncate
  <2>4. wal_synced' = 0 /\ flushed' = OnDisk(wal_file', wal_synced') /\ buf' = <<>>
    BY <1>6 DEF truncate, OnDisk
  <2> QED BY <1>a, <2>1, <2>2, <2>3, <2>4 DEF WalInv
<1>7. ASSUME Drop PROVE WalInv'
  <2>1. PICK g : g = All /\ g = wal_file \o buf
    BY DEF All
  <2>2. /\ buf' = <<>> /\ wal_file' = g /\ status' = "closed" /\ wal_synced' = wal_synced
        /\ next_sequence' = next_sequence /\ flushed' = flushed /\ wal_crashes' = wal_crashes
    BY <1>7, <2>1 DEF Drop
  <2>3. All' = g /\ g \in Seq(Records)
    BY <1>1, <2>1, <2>2 DEF All
  <2>4. flushed' = OnDisk(g, wal_synced)
    <3>1. \A k \in 1 .. wal_synced : g[k] = wal_file[k]
      BY <1>0, <1>1, <2>1
    <3> QED BY <1>0, <2>2, <3>1, OnDiskAgree
  <2>5. WalTypeOK'
    BY <1>0, <1>1, <2>1, <2>2, <2>3 DEF WalTypeOK
  <2> QED BY <1>0, <2>1, <2>2, <2>3, <2>4, <2>5 DEF WalInv
<1>8. ASSUME Crash PROVE WalInv'
  <2>1. PICK n \in 0 .. Len(All) :
              /\ n >= wal_synced
              /\ LogShape(wal_file') /\ Len(wal_file') \in {n, n + 1}
              /\ \A k \in 1 .. n : wal_file'[k] = All[k]
    BY <1>8, CrashLeaves
  <2>2. /\ buf' = <<>> /\ status' = "closed" /\ wal_synced' = wal_synced
        /\ next_sequence' = next_sequence /\ flushed' = flushed
        /\ wal_crashes < MaxWalCrashes /\ wal_crashes' = wal_crashes + 1
    BY <1>8 DEF Crash
  <2>3. PICK g : g = wal_file'
    OBVIOUS
  <2>4. g \in Seq(Records) /\ LogShape(g) /\ wal_synced <= Len(g)
    BY <1>0, <1>1, <2>1, <2>3 DEF LogShape
  <2>5. All' = g
    BY <2>2, <2>3, <2>4 DEF All
  <2>6. flushed' = OnDisk(g, wal_synced)
    <3>1. \A k \in 1 .. wal_synced : g[k] = wal_file[k]
      BY <1>0, <1>1, <2>1, <2>3
    <3> QED BY <1>0, <2>2, <3>1, OnDiskAgree
  <2>7. WalTypeOK'
    BY <1>0, <1>1, <2>2, <2>3, <2>4 DEF WalTypeOK
  <2> QED BY <2>2, <2>3, <2>4, <2>5, <2>6, <2>7 DEF WalInv
<1>9. CASE UNCHANGED wal_vars
  BY <1>9 DEF WalInv, WalTypeOK, All, wal_vars
<1> QED BY <1>2, <1>3, <1>4, <1>5, <1>6, <1>7, <1>8, <1>9 DEF WalNext

(***************************************************************************)
(* The synced entries are the first ones the reader returns.               *)
(***************************************************************************)
LEMMA InvReadable == WalInv => SyncedReadable
<1> SUFFICES ASSUME WalInv, flushed # {} PROVE Recovers
  BY DEF SyncedReadable
<1>0. /\ wal_file \in Seq(Records) /\ Len(wal_file) \in Nat
      /\ wal_synced \in Nat /\ wal_synced <= Len(wal_file)
      /\ flushed = OnDisk(wal_file, wal_synced)
  BY DEF WalInv, WalTypeOK
<1>1. LogShape(wal_file)
  BY FileShape
<1>2. PICK k \in 1 .. wal_synced : wal_file[k].kind = "entry"
  BY <1>0 DEF OnDisk
<1>3. k > 1 /\ Len(wal_file) > 1 /\ k <= Len(wal_file)
  BY <1>0, <1>1, <1>2 DEF LogShape
<1>4. wal_file[1].kind = "header"
  <2>1. 1 \in 1 .. Len(wal_file) /\ 1 < Len(wal_file) /\ wal_file[1] \in Records
    BY <1>0, <1>3
  <2>2. wal_file[1].kind # "torn" /\ wal_file[1].kind # "entry"
    BY <1>1, <2>1 DEF LogShape
  <2> QED BY <2>1, <2>2, RecordKinds
<1>5. Readable(wal_file)
  BY <1>1, <1>3, <1>4, ReadAllShape
<1> DEFINE r == read_all(wal_file)
           w == Whole(wal_file)
           n == IF wal_synced <= w THEN wal_synced - 1 ELSE w - 1
<1>6. w \in Nat /\ w >= k /\ w <= Len(wal_file) /\ Len(r) = w - 1
  <2>1. w \in Nat /\ w <= Len(wal_file) /\ (Len(r) = IF w = 0 THEN 0 ELSE w - 1)
    BY <1>1, ReadAllShape
  <2>2. w >= k
    BY <1>0, <1>2, <1>3 DEF Whole
  <2> QED BY <1>3, <2>1, <2>2
<1>7. \A j \in 1 .. w - 1 : r[j] = wal_file[j + 1] /\ wal_file[j + 1].kind = "entry"
  BY <1>1, <1>6, ReadAllShape
<1>8. \A j \in 1 .. wal_synced : wal_file[j].kind = "entry" => j > 1 /\ j <= w
  BY <1>0, <1>1, <1>6 DEF LogShape, Whole
<1> HIDE DEF r, w
<1>9. n \in 0 .. Len(r)
  BY <1>0, <1>2, <1>3, <1>6
<1>10. OnDisk(wal_file, wal_synced) = {r[j] : j \in 1 .. n}
  <2>1. ASSUME NEW j \in 1 .. wal_synced, wal_file[j].kind = "entry"
        PROVE  j - 1 \in 1 .. n /\ r[j - 1] = wal_file[j]
    <3>1. j > 1 /\ j <= w
      BY <1>8, <2>1
    <3>2. j - 1 \in 1 .. w - 1 /\ (j - 1) + 1 = j /\ j - 1 \in 1 .. n
      BY <1>0, <1>6, <3>1
    <3> HIDE DEF n
    <3>3. r[j - 1] = wal_file[(j - 1) + 1]
      BY <1>7, <3>2
    <3> QED BY <3>2, <3>3
  <2>2. ASSUME NEW j \in 1 .. n
        PROVE  /\ j + 1 \in 1 .. wal_synced
               /\ r[j] = wal_file[j + 1] /\ wal_file[j + 1].kind = "entry"
    BY <1>0, <1>6, <1>7
  <2> HIDE DEF n
  <2> QED BY <2>1, <2>2 DEF OnDisk
<1> HIDE DEF n
<1> QED BY <1>0, <1>5, <1>9, <1>10 DEF Recovers, r

(***************************************************************************)
(* For any payloads, numbers of entries and crashes, and any place where a *)
(* crash cuts a record, the log's state is well typed: in particular the   *)
(* position of the last sync never runs past the file, truncation and      *)
(* recovery included.                                                      *)
(***************************************************************************)
THEOREM WalTypeCorrect ==
    ASSUME ~Reuse
    PROVE  WalSpec => []WalTypeOK
<1>1. WalInv => WalTypeOK
  BY DEF WalInv
<1>2. WalInv /\ [WalNext]_wal_vars => WalInv'
  BY WalNext_WalInv
<1> QED BY <1>1, <1>2, WalInit_WalInv, PTL DEF WalSpec

(***************************************************************************)
(* Every entry that a sync covered is read back after any sequence of      *)
(* crashes and reopenings, in front of whatever else survived, as long as  *)
(* nothing is appended behind a cut record.  Without that assumption it is *)
(* false: the run wal shows a log that cannot be opened any more.          *)
(***************************************************************************)
THEOREM SyncedSurvive ==
    ASSUME ~Reuse
    PROVE  WalSpec => []SyncedReadable
<1>1. WalInv /\ [WalNext]_wal_vars => WalInv'
  BY WalNext_WalInv
<1> QED BY <1>1, InvReadable, WalInit_WalInv, PTL DEF WalSpec

-----------------------------------------------------------------------------
(* The refinement of AppendLog.                                            *)

\* What a reader of the records f gets, and how much of it is synced.
View(f) == [k \in 1 .. Len(read_all(f)) |-> [seq |-> read_all(f)[k].seq, data |-> read_all(f)[k].data]]
SyncedIn(n, len) == IF n = 0 THEN 0 ELSE Min({n - 1, len})

LogEntries == [seq : 1 .. MaxSeq, data : Payloads]

LEMMA ViewShape ==
    ASSUME NEW f, LogShape(f)
    PROVE  /\ View(f) \in Seq(LogEntries)
           /\ Len(View(f)) = IF Whole(f) = 0 THEN 0 ELSE Whole(f) - 1
           /\ Len(View(f)) \in Nat /\ Whole(f) \in Nat /\ Whole(f) <= Len(f)
           /\ \A k \in 1 .. Len(View(f)) : /\ View(f)[k] = [seq |-> f[k + 1].seq, data |-> f[k + 1].data]
                                           /\ k + 1 \in 1 .. Whole(f) /\ f[k + 1].kind = "entry"
<1> DEFINE n == Len(read_all(f))
<1>1. /\ n \in Nat /\ Whole(f) \in Nat /\ Whole(f) <= Len(f)
      /\ n = IF Whole(f) = 0 THEN 0 ELSE Whole(f) - 1
  BY ReadAllShape
<1>2. ASSUME NEW k \in 1 .. n
      PROVE  /\ read_all(f)[k] = f[k + 1] /\ k + 1 \in 1 .. Whole(f) /\ f[k + 1].kind = "entry"
             /\ f[k + 1].seq \in 1 .. MaxSeq /\ f[k + 1].data \in Payloads
  <2>1. read_all(f)[k] = f[k + 1] /\ k + 1 \in 1 .. Whole(f) /\ f[k + 1].kind = "entry"
        /\ f[k + 1] \in Entries
    BY ReadAllShape
  <2> QED BY <2>1, EntryKind
<1>3. View(f) = [k \in 1 .. n |-> [seq |-> f[k + 1].seq, data |-> f[k + 1].data]]
  BY <1>2 DEF View
<1> HIDE DEF n
<1>4. View(f) \in Seq(LogEntries) /\ Len(View(f)) = n
  <2>1. \A k \in 1 .. n : [seq |-> f[k + 1].seq, data |-> f[k + 1].data] \in LogEntries
    BY <1>2 DEF LogEntries
  <2>2. View(f) \in [1 .. n -> LogEntries]
    BY <1>3, <2>1
  <2> QED BY <1>1, <2>2
<1> QED BY <1>1, <1>2, <1>3, <1>4

LEMMA MinOfTwo ==
    ASSUME NEW a \in Int, NEW b \in Int
    PROVE  Min({a, b}) = IF a <= b THEN a ELSE b
BY DEF Min

LEMMA Mapping == Contents = View(All) /\ Durable = SyncedIn(wal_synced, Len(Contents))
BY DEF Contents, View, All, Durable, SyncedIn

\* An entry more.
LEMMA ViewAppend ==
    ASSUME NEW f, NEW e, LogShape(f), f # <<>>, f[Len(f)].kind # "torn", e \in Entries,
           LogShape(Append(f, e))
    PROVE  /\ View(Append(f, e)) = Append(View(f), [seq |-> e.seq, data |-> e.data])
           /\ Whole(Append(f, e)) = Len(f) + 1
<1> DEFINE g == Append(f, e)
           n == Len(f)
           x == [seq |-> e.seq, data |-> e.data]
<1>1. f \in Seq(Records) /\ e \in Records /\ e.kind = "entry" /\ n \in Nat /\ n > 0
  BY EntryKind DEF LogShape
<1>2. /\ g \in Seq(Records) /\ Len(g) = n + 1 /\ g[n + 1] = e /\ \A k \in 1 .. n : g[k] = f[k]
  BY <1>1
<1>3. Whole(f) = n /\ Whole(g) = n + 1
  BY <1>1, <1>2 DEF Whole
<1>4. /\ View(f) \in Seq(LogEntries) /\ Len(View(f)) = n - 1
      /\ \A k \in 1 .. n - 1 : View(f)[k] = [seq |-> f[k + 1].seq, data |-> f[k + 1].data]
  BY <1>1, <1>3, ViewShape
<1>5. /\ View(g) \in Seq(LogEntries) /\ Len(View(g)) = n
      /\ \A k \in 1 .. n : View(g)[k] = [seq |-> g[k + 1].seq, data |-> g[k + 1].data]
  <2>1. LogShape(g)
    OBVIOUS
  <2> HIDE DEF g
  <2>2. /\ View(g) \in Seq(LogEntries) /\ Len(View(g)) = n
    BY <1>1, <1>3, <2>1, ViewShape
  <2> QED BY <2>1, <2>2, ViewShape
<1>6. x \in LogEntries
  BY EntryKind DEF LogEntries
<1> HIDE DEF g, x
<1>7. /\ Append(View(f), x) \in Seq(LogEntries) /\ Len(Append(View(f), x)) = n
      /\ Append(View(f), x)[n] = x
      /\ \A k \in 1 .. n - 1 : Append(View(f), x)[k] = View(f)[k]
  BY <1>1, <1>4, <1>6
<1>8. ASSUME NEW k \in 1 .. n PROVE View(g)[k] = Append(View(f), x)[k]
  <2>1. CASE k = n
    BY <1>2, <1>5, <1>7, <2>1 DEF x
  <2>2. CASE k \in 1 .. n - 1
    <3>1. k + 1 \in 1 .. n
      BY <1>1, <2>2
    <3>2. View(g)[k] = [seq |-> f[k + 1].seq, data |-> f[k + 1].data]
      BY <1>2, <1>5, <3>1
    <3>3. Append(View(f), x)[k] = [seq |-> f[k + 1].seq, data |-> f[k + 1].data]
      BY <1>4, <1>7, <2>2
    <3> QED BY <3>2, <3>3
  <2>3. k = n \/ k \in 1 .. n - 1
    BY <1>1
  <2> QED BY <2>1, <2>2, <2>3
<1>9. View(g) = Append(View(f), x)
  BY <1>5, <1>7, <1>8
<1> QED BY <1>3, <1>9 DEF g, x

\* A part of the records: the first n, with or without a cut record after them.
LEMMA ViewCut ==
    ASSUME NEW f, NEW g, LogShape(f), LogShape(g), NEW n \in 0 .. Len(f),
           \A k \in 1 .. n : g[k] = f[k],
           \/ Len(g) = n
           \/ /\ n < Len(f) /\ Len(g) = n + 1 /\ g[n + 1].kind = "torn"
              /\ \A k \in 1 .. n : g[k].kind # "torn"
    PROVE  LET w == IF n <= Whole(f) THEN n ELSE Whole(f)
           IN  /\ Whole(g) = w
               /\ View(g) = SubSeq(View(f), 1, IF w = 0 THEN 0 ELSE w - 1)
               /\ Len(View(g)) = IF w = 0 THEN 0 ELSE w - 1
<1> DEFINE w == IF n <= Whole(f) THEN n ELSE Whole(f)
           m == IF w = 0 THEN 0 ELSE w - 1
<1>1. f \in Seq(Records) /\ g \in Seq(Records) /\ Len(f) \in Nat /\ Len(g) \in Nat
  BY DEF LogShape
<1>2. Whole(g) = w
  <2>1. CASE Len(g) = n
    <3>1. CASE n = 0
      BY <1>1, <2>1, <3>1, ViewShape DEF Whole
    <3>2. CASE n > 0 /\ f[n].kind = "torn"
      <4>1. g[n].kind = "torn" /\ g # <<>> /\ f # <<>> /\ Len(f) = n
        BY <1>1, <2>1, <3>2 DEF LogShape
      <4> QED BY <1>1, <2>1, <3>2, <4>1 DEF Whole
    <3>3. CASE n > 0 /\ f[n].kind # "torn"
      <4>1. g[n].kind # "torn" /\ Whole(g) = n
        BY <1>1, <2>1, <3>3 DEF Whole
      <4>2. n <= Whole(f)
        BY <1>1, <3>3 DEF Whole
      <4> QED BY <4>1, <4>2
    <3> QED BY <3>1, <3>2, <3>3
  <2>2. CASE n < Len(f) /\ Len(g) = n + 1 /\ g[n + 1].kind = "torn"
    <3>1. Whole(g) = n /\ n <= Whole(f)
      BY <1>1, <2>2 DEF Whole
    <3> QED BY <3>1
  <2> QED BY <2>1, <2>2
<1>3. /\ View(f) \in Seq(LogEntries) /\ Whole(f) \in Nat
      /\ Len(View(f)) = IF Whole(f) = 0 THEN 0 ELSE Whole(f) - 1
      /\ \A k \in 1 .. Len(View(f)) : View(f)[k] = [seq |-> f[k + 1].seq, data |-> f[k + 1].data]
  BY ViewShape
<1>4. w \in Nat /\ w <= n /\ m \in 0 .. Len(View(f)) /\ (m > 0 => m + 1 = w)
  BY <1>3
<1>5. /\ View(g) \in Seq(LogEntries) /\ Len(View(g)) = m
      /\ \A k \in 1 .. m : View(g)[k] = [seq |-> g[k + 1].seq, data |-> g[k + 1].data]
  <2> HIDE DEF w
  <2> QED BY <1>2, ViewShape
<1> HIDE DEF w, m
<1>6. /\ SubSeq(View(f), 1, m) \in Seq(LogEntries) /\ Len(SubSeq(View(f), 1, m)) = m
      /\ \A k \in 1 .. m : SubSeq(View(f), 1, m)[k] = View(f)[k]
  BY <1>3, <1>4
<1>7. ASSUME NEW k \in 1 .. m PROVE View(g)[k] = SubSeq(View(f), 1, m)[k]
  <2>1. k + 1 \in 1 .. n /\ k \in 1 .. Len(View(f))
    BY <1>3, <1>4
  <2> QED BY <1>3, <1>5, <1>6, <2>1, ZenonT(40)
<1>8. View(g) = SubSeq(View(f), 1, m)
  BY <1>5, <1>6, <1>7
<1> QED BY <1>2, <1>5, <1>8 DEF m, w

(***************************************************************************)
(* Every step of the log is a step of AppendLog or leaves what it          *)
(* represents alone.                                                       *)
(***************************************************************************)
LEMMA WalNext_AbsNext ==
    ASSUME ~Reuse, WalInv, WalInv', [WalNext]_wal_vars
    PROVE  [Abs!Next]_(Abs!vars)
<1>0. /\ WalTypeOK /\ LogShape(All) /\ WalTypeOK' /\ LogShape(All')
      /\ wal_synced \in Nat /\ wal_synced <= Len(wal_file)
  BY DEF WalInv, WalTypeOK
<1>1. /\ Len(All) = Len(wal_file) + Len(buf)
      /\ Len(All) \in Nat /\ Len(wal_file) \in Nat /\ Len(buf) \in Nat
      /\ All \in Seq(Records)
  BY <1>0, FileInAll
<1>2. /\ Contents = View(All) /\ Contents' = View(All')
      /\ Durable = SyncedIn(wal_synced, Len(Contents))
      /\ Durable' = SyncedIn(wal_synced', Len(Contents'))
  BY Mapping DEF Contents, View, All, Durable, SyncedIn
<1>3. \A n \in Nat : \A len \in Nat :
         SyncedIn(n, len) = IF n = 0 THEN 0 ELSE IF n - 1 <= len THEN n - 1 ELSE len
  BY MinOfTwo DEF SyncedIn
<1>4. /\ Contents \in Seq(LogEntries) /\ Len(Contents) \in Nat
      /\ Whole(All) \in Nat /\ Whole(All) <= Len(All)
      /\ Len(Contents) = IF Whole(All) = 0 THEN 0 ELSE Whole(All) - 1
  BY <1>0, <1>2, ViewShape
<1>5. CASE All' = All /\ wal_synced' = wal_synced
  BY <1>2, <1>5 DEF Abs!vars
<1>6. ASSUME open PROVE UNCHANGED <<Contents, Durable>>
  <2>1. buf = <<>> /\ buf' = <<>> /\ wal_synced' = wal_synced /\ All = wal_file
    BY <1>0, <1>6 DEF WalInv, WalTypeOK, open, All
  <2>2. CASE wal_file' = wal_file
    BY <1>2, <2>1, <2>2 DEF All
  <2>3. CASE wal_file = <<>> /\ wal_file' = <<Header>>
    <3>1. All = <<>> /\ All' = <<Header>> /\ wal_synced = 0
      BY <1>0, <2>1, <2>3 DEF All
    <3>2. Whole(All) = 0 /\ Whole(All') = 1
      BY <3>1 DEF Whole, Header
    <3>3. Len(Contents) = 0 /\ Len(Contents') = 0
          /\ Contents \in Seq(LogEntries) /\ Contents' \in Seq(LogEntries)
      BY <1>0, <1>2, <3>2, ViewShape
    <3>4. Contents = <<>> /\ Contents' = <<>>
      BY <3>3
    <3> QED BY <1>2, <2>1, <3>1, <3>4 DEF SyncedIn
  <2> QED BY <1>6, <2>2, <2>3 DEF open
<1>7. ASSUME NEW p \in Payloads, append_buffered(p) \/ append_entry(p)
      PROVE  \E s \in 1 .. MaxSeq : Abs!Append1(s, p) \/ Abs!AppendSynced(s, p)
  <2> DEFINE e == Entry(next_sequence, p)
             s == next_sequence
  <2>1. status = "open" /\ MayAppend /\ next_sequence \in 1 .. MaxSeq
    BY <1>0, <1>7 DEF append_buffered, append_entry, MayAppend, WalTypeOK
  <2>2. PICK g : /\ g = Append(All, e) /\ Len(g) = Len(All) + 1
                 /\ e \in Entries /\ e.seq = s /\ e.data = p /\ LogShape(g)
                 /\ All # <<>> /\ All[Len(All)].kind # "torn"
                 /\ g = wal_file \o Append(buf, e)
    BY <2>1, OneMore
  <2>3. g \in Seq(Records)
    BY <2>2 DEF LogShape
  <2>4. All' = g
    <3>1. CASE append_buffered(p)
      BY <2>2, <3>1 DEF append_buffered, All
    <3>2. CASE append_entry(p)
      <4>1. wal_file' = g /\ buf' = <<>>
        BY <2>2, <3>2 DEF append_entry, FlushAndSync
      <4> QED BY <2>3, <4>1 DEF All
    <3> QED BY <1>7, <3>1, <3>2
  <2> HIDE DEF e
  <2>5. Contents' = Append(Contents, [seq |-> s, data |-> p]) /\ Whole(g) = Len(All) + 1
    BY <1>0, <1>2, <2>2, <2>4, ViewAppend
  <2>6. /\ Whole(All) = Len(All) /\ Len(All) > 0 /\ Len(Contents') = Len(All)
        /\ Len(Contents) = Len(All) - 1
    <3>1. Whole(All) = Len(All) /\ Len(All) > 0
      BY <1>1, <2>2 DEF Whole
    <3>2. Len(Contents') = Len(All)
      BY <1>0, <1>1, <1>2, <2>4, <2>5, ViewShape
    <3> QED BY <1>4, <3>1, <3>2
  <2>7. \A k \in DOMAIN Contents : Contents[k].seq < s
    <3> SUFFICES ASSUME NEW k \in 1 .. Len(Contents) PROVE Contents[k].seq < s
      BY <1>4
    <3>1. Contents[k].seq = All[k + 1].seq /\ k + 1 \in 1 .. Len(All) /\ All[k + 1].kind = "entry"
      <4>1. /\ Contents[k] = [seq |-> All[k + 1].seq, data |-> All[k + 1].data]
            /\ k + 1 \in 1 .. Whole(All) /\ All[k + 1].kind = "entry"
        BY <1>0, <1>2, ViewShape
      <4> QED BY <2>6, <4>1
    <3> QED BY <2>1, <3>1 DEF WalInv
  <2>8. Abs!Grow(s, p)
    BY <2>5, <2>7 DEF Abs!Grow
  <2>9. CASE append_buffered(p)
    <3>1. wal_synced' = wal_synced
      BY <2>9 DEF append_buffered
    <3>2. Durable' = Durable
      BY <1>0, <1>1, <1>2, <1>3, <2>6, <3>1
    <3> QED BY <2>1, <2>8, <3>2 DEF Abs!Append1
  <2>10. CASE append_entry(p)
    <3>1. wal_synced' = Len(All) + 1
      BY <2>2, <2>10 DEF append_entry, FlushAndSync
    <3>2. Durable' = Len(Contents')
      BY <1>1, <1>2, <1>3, <2>6, <3>1
    <3> QED BY <2>1, <2>8, <3>2 DEF Abs!AppendSynced
  <2> QED BY <1>7, <2>9, <2>10
<1>8. ASSUME sync PROVE Abs!Sync
  <2>1. PICK g : g = All /\ g = wal_file \o buf
    BY DEF All
  <2>2. status = "open" /\ wal_file' = g /\ buf' = <<>> /\ wal_synced' = Len(g)
    BY <1>8, <2>1 DEF sync, FlushAndSync
  <2>3. All' = g /\ wal_synced' = Len(All)
    BY <1>1, <2>1, <2>2 DEF All
  <2>4. Len(All) > 0
    BY <1>0, <1>1, <2>2 DEF WalInv, WalTypeOK
  <2>5. Contents' = Contents
    BY <1>2, <2>1, <2>3
  <2>6. Durable' = Len(Contents)
    BY <1>1, <1>2, <1>3, <1>4, <2>3, <2>4, <2>5
  <2> QED BY <2>5, <2>6 DEF Abs!Sync
<1>9. ASSUME truncate PROVE Abs!Truncate
  <2>1. All' = <<Header>> /\ wal_synced' = 0
    BY <1>9 DEF truncate, All
  <2>2. Whole(All') = 1
    BY <2>1 DEF Whole, Header
  <2>3. Len(Contents') = 0 /\ Contents' \in Seq(LogEntries)
    BY <1>0, <1>2, <2>2, ViewShape
  <2>4. Contents' = <<>>
    BY <2>3
  <2> QED BY <1>2, <2>1, <2>4 DEF Abs!Truncate, SyncedIn
<1>10. ASSUME Drop PROVE UNCHANGED <<Contents, Durable>>
  <2>1. PICK g : g = All /\ g = wal_file \o buf
    BY DEF All
  <2>2. wal_file' = g /\ buf' = <<>> /\ wal_synced' = wal_synced
    BY <1>10, <2>1 DEF Drop
  <2>3. All' = g
    BY <1>1, <2>1, <2>2 DEF All
  <2> QED BY <1>2, <2>1, <2>2, <2>3
<1>11. ASSUME Crash PROVE Abs!Lose
  <2>1. PICK n \in 0 .. Len(All) :
              /\ n >= wal_synced
              /\ LogShape(wal_file')
              /\ \A k \in 1 .. n : wal_file'[k] = All[k]
              /\ \/ Len(wal_file') = n
                 \/ /\ n < Len(All) /\ Len(wal_file') = n + 1 /\ wal_file'[n + 1].kind = "torn"
                    /\ \A k \in 1 .. n : wal_file'[k].kind # "torn"
    BY <1>11, CrashLeaves
  <2>2. PICK g : g = wal_file'
    OBVIOUS
  <2>3. All' = g /\ wal_synced' = wal_synced
    BY <1>11, <2>1, <2>2 DEF All, Crash, LogShape
  <2> DEFINE w == IF n <= Whole(All) THEN n ELSE Whole(All)
             m == IF w = 0 THEN 0 ELSE w - 1
  <2>4. View(g) = SubSeq(View(All), 1, m) /\ Len(View(g)) = m
    BY <1>0, <2>1, <2>2, ViewCut
  <2>5. Contents' = SubSeq(Contents, 1, m) /\ Len(Contents') = m
    BY <1>2, <2>3, <2>4
  <2>6. Durable' = Durable /\ m \in Durable .. Len(Contents)
    <3>1. w \in Nat /\ m \in Nat /\ w <= n /\ w <= Whole(All) /\ (w = n \/ w = Whole(All))
          /\ (w = 0 => m = 0) /\ (w > 0 => m = w - 1)
      BY <1>4
    <3> HIDE DEF w, m
    <3>2. Durable = IF wal_synced = 0 THEN 0
                    ELSE IF wal_synced - 1 <= Len(Contents) THEN wal_synced - 1 ELSE Len(Contents)
      BY <1>0, <1>2, <1>3, <1>4
    <3>3. Durable' = IF wal_synced = 0 THEN 0 ELSE IF wal_synced - 1 <= m THEN wal_synced - 1 ELSE m
      <4>1. Durable' = SyncedIn(wal_synced, m)
        BY <1>2, <2>3, <2>5
      <4> QED BY <1>0, <1>3, <3>1, <4>1
    <3>4. m <= Len(Contents)
      BY <1>4, <3>1
    <3>5. CASE wal_synced = 0
      BY <1>4, <3>1, <3>2, <3>3, <3>4, <3>5
    <3>6. CASE wal_synced > 0 /\ w = n
      BY <1>0, <1>4, <2>1, <3>1, <3>2, <3>3, <3>4, <3>6
    <3>7. CASE w = Whole(All)
      <4>1. m = Len(Contents)
        BY <1>4, <3>1, <3>7
      <4> QED BY <1>0, <1>4, <3>2, <3>3, <4>1
    <3> QED BY <1>0, <3>1, <3>5, <3>6, <3>7
  <2> HIDE DEF m
  <2> QED BY <2>5, <2>6 DEF Abs!Lose
<1>12. CASE UNCHANGED wal_vars
  BY <1>5, <1>12 DEF wal_vars, All
<1> QED BY <1>6, <1>7, <1>8, <1>9, <1>10, <1>11, <1>12 DEF WalNext, Abs!Next, Abs!vars

(***************************************************************************)
(* The log file with its buffer, reader, recovery of the sequence number,  *)
(* truncation and crashes implements an append-only log that loses nothing *)
(* that was synced and numbers its entries increasingly.                   *)
(***************************************************************************)
THEOREM WalImplementsAppendLog ==
    ASSUME ~Reuse
    PROVE  WalSpec => ImplementsAppendLog
<1>1. WalInit => Abs!Init
  <2> SUFFICES ASSUME WalInit PROVE Abs!Init
    OBVIOUS
  <2>1. LogShape(All) /\ All = <<>> /\ wal_synced = 0
    BY WalInit_WalInv DEF WalInv, WalInit, All
  <2>2. Whole(All) = 0
    BY <2>1 DEF Whole
  <2>3. Len(Contents) = 0 /\ Contents \in Seq(LogEntries)
    BY <2>1, <2>2, Mapping, ViewShape
  <2>4. Contents = <<>> /\ Durable = 0
    BY <2>1, <2>3, Mapping DEF SyncedIn
  <2> QED BY <2>4 DEF Abs!Init
<1>2. WalInv /\ [WalNext]_wal_vars => WalInv'
  BY WalNext_WalInv
<1>3. WalInv /\ WalInv' /\ [WalNext]_wal_vars => [Abs!Next]_(Abs!vars)
  BY WalNext_AbsNext
<1> QED BY <1>1, <1>2, <1>3, WalInit_WalInv, PTL DEF WalSpec, ImplementsAppendLog, Abs!Spec
=============================================================================
