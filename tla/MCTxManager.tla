----------------------------- MODULE MCTxManager -----------------------------
(* Small instances of TxManager for TLC. *)
EXTENDS TxManager, TLC

CONSTANTS c, a, x

\* A nullable column without constraints.
MCPlain == c :> [primary_key |-> FALSE, unique |-> FALSE, nullable |-> TRUE, default |-> FALSE]

\* What clients write: one value of the column's type, and one that is not.
MCValid   == {c :> a}
MCInvalid == {c :> a, c :> x}

\* The table before the first transaction.
MCTwoRows == insert(insert(NewTable, c :> a).tab, c :> a).tab

\* Rows 1 and 3 share a stripe.
MCStripes == [i \in Ids |-> IF i = 2 THEN 2 ELSE 1]

\* Checked batches alone.  A commit that fails while it applies, and writes
\* outside transactions, are part of MCProgress.
BatchCommit(t) == CommitStep(t) /\ UNCHANGED direct
BatchNext == Finished \/ \E t \in Txs : TxStep(t) \/ BatchCommit(t)
BatchSpec == Init /\ [][BatchNext]_vars

TxSymmetry == Permutations(Txs)
=============================================================================
