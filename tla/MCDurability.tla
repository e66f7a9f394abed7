----------------------------- MODULE MCDurability -----------------------------
(* Small instances of Durability for TLC. *)
EXTENDS Durability, TLC

CONSTANTS c, i32, i64, s

\* A nullable column without constraints.
MCSchema == c :> [primary_key |-> FALSE, unique |-> FALSE, nullable |-> TRUE, default |-> FALSE]

\* An Int32 comes back from JSON as an Int64, a string as itself.
MCJson == (i32 :> i64) @@ (i64 :> i64) @@ (s :> s)

\* What clients write.
MCRows == {c :> i32, c :> s}

WriterSymmetry == Permutations(Writers)
=============================================================================
