------------------------------ MODULE MCProgress ------------------------------
(***************************************************************************)
(* What must come to an end, on small instances: commits, evicted streams  *)
(* of the change feed, jobs; and the log file, which has to be readable    *)
(* again after a crash.  They are checked side by side: a behaviour runs   *)
(* one part and leaves the others at their first state, where nothing is   *)
(* pending that fairness would have to move.                               *)
(***************************************************************************)
EXTENDS MCTxManager, WalLog, ChangeFeed, Jobs

CONSTANTS w1, w2, s1, p1, p, q

\* Streams and pollers share nothing but the flag that the first of them sets,
\* so they are checked side by side: a behaviour has the one or the other.
MCMixes == {{s1}, {p1}}

\* Nothing a stream does depends on timestamps; pollers resume from them.
MCMaxTs == ({s1} :> 1) @@ ({p1} :> 2)

(* Jobs: one guest succeeds with its output at the edge of its memory, one *)
(* never ends; stored jobs and those of the in-process scheduler.          *)

Guest(ends, have, ptr, len) ==
    [bytes |-> 1, compiles |-> TRUE, exports |-> TRUE, have |-> have, ends |-> ends,
     ptr |-> ptr, len |-> len, utf8 |-> TRUE]

MCGuests == {Guest("ok", 2, 3, 2), Guest("loop", 2, 0, 0)}
MCHandler == ("a" :> "ok") @@ ("b" :> "fails") @@ ("c" :> "silent")
MCPriority == ("a" :> 1) @@ ("b" :> 1) @@ ("c" :> 3)
MCRetries == {-1, 1, Absent}

----------------------------------------------------------------------------
VARIABLE part

all_vars == <<part, vars, wal_vars, feed_vars, jobs_vars>>

MCInit ==
    /\ Init /\ WalInit /\ FeedInit /\ JobsInit
    /\ \/ part = "feed"
       \/ part \in {"tx", "direct", "wal", "store", "scheduler"} /\ clients = {s1}

\* Two transactions race; or one races with a write outside transactions.
TxPart ==
    \/ part = "tx" /\ (Finished \/ \E t \in Txs : TxStep(t) \/ CommitStep(t))
    \/ part = "direct" /\ \E w \in WriteOps : DirectWrite(w)
    \/ part = "direct" /\ LET t == CHOOSE t \in Txs : TRUE IN TxStep(t) \/ CommitStep(t)

\* Clients ask for a bounded number of things; after that nothing need happen.
NoMoreRequests == part \in {"direct", "store", "scheduler"} /\ UNCHANGED all_vars

MCNext ==
    \/ TxPart /\ UNCHANGED <<part, wal_vars, feed_vars, jobs_vars>>
    \/ part = "wal" /\ WalNext /\ UNCHANGED <<part, vars, feed_vars, jobs_vars>>
    \/ part = "feed" /\ FeedNext /\ UNCHANGED <<part, vars, wal_vars, jobs_vars>>
    \/ part = "store" /\ StoreNext /\ UNCHANGED <<part, vars, wal_vars, feed_vars>>
    \/ part = "scheduler" /\ SchedNext /\ UNCHANGED <<part, vars, wal_vars, feed_vars>>
    \/ NoMoreRequests

MCSpec ==
    /\ MCInit /\ [][MCNext]_all_vars
    /\ CommitFairness /\ FeedFairness /\ JobsFairness

(* Transactions, the log file and the change feed keep their types and     *)
(* their bounds, that of the change queue included, whoever interleaves.   *)
ProgressTypeOK == TypeOK /\ WalTypeOK /\ FeedTypeOK
===============================================================================
