------------------------------ MODULE AppendLog ------------------------------
(***************************************************************************)
(* What a write-ahead log promises: it grows at the end under increasing   *)
(* sequence numbers, a crash takes away a part of its end and nothing that *)
(* was synced, and truncation empties it.                                  *)
(***************************************************************************)
EXTENDS Naturals, Sequences

CONSTANTS Payloads,  \* what an entry records
          Seqs       \* sequence numbers

VARIABLES log,      \* the entries, oldest first: [seq, data]
          durable   \* how many of them are synced

vars == <<log, durable>>

Init == log = <<>> /\ durable = 0

Grow(s, p) ==
    /\ \A k \in DOMAIN log : log[k].seq < s
    /\ log' = Append(log, [seq |-> s, data |-> p])

Append1(s, p) == Grow(s, p) /\ UNCHANGED durable

AppendSynced(s, p) == Grow(s, p) /\ durable' = Len(log')

Sync == durable' = Len(log) /\ UNCHANGED log

Lose ==
    /\ \E n \in durable .. Len(log) : log' = SubSeq(log, 1, n)
    /\ UNCHANGED durable

Truncate == log' = <<>> /\ durable' = 0

Next ==
    \/ \E s \in Seqs, p \in Payloads : Append1(s, p) \/ AppendSynced(s, p)
    \/ Sync
    \/ Lose
    \/ Truncate

Spec == Init /\ [][Next]_vars
=============================================================================
