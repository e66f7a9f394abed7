-------------------------------- MODULE Cluster --------------------------------
(***************************************************************************)
(* What nodes would replicate with: the operation log and the peers of a   *)
(* replicator (blitz-replication), and the members each node knows         *)
(* (blitz-cluster).  No transport connects them in the repository: a peer  *)
(* here asks for the entries behind the last it has, and the report of     *)
(* what it has may arrive late, more than once, or never.                  *)
(***************************************************************************)
EXTENDS Integers, Sequences, FiniteSets, SequencesExt

CONSTANTS
    Peers,
    max_oplog_size,
    MaxAppends,   \* bound: operations
    MaxLeaves,    \* bound: removals of peers
    Members,      \* ids of nodes
    Views,        \* nodes that each keep a membership
    Unknown       \* no such peer, no such node

ASSUME ClusterAssumption ==
    /\ max_oplog_size \in Nat /\ MaxAppends \in Nat /\ MaxLeaves \in Nat
    /\ IsFiniteSet(Members)

VARIABLES
    oplog,     \* the numbers of the entries that are kept
    next_seq,
    peers,     \* peer -> what the replicator knows of it, or Unknown
    applied,   \* peer -> the numbers of the operations it applied, in order
    overrun,   \* peers that asked when entries they lacked were trimmed
    reports,   \* reports sent: who applied up to what
    leaves,    \* removals so far
    nodes      \* view -> node -> its status, or Unknown

repl_vars == <<oplog, next_seq, peers, applied, overrun, reports, leaves>>
cluster_vars == <<repl_vars, nodes>>

-----------------------------------------------------------------------------
(* The replicator.                                                         *)

latest_seq == next_seq - 1

\* The oplog after trimming from the front.
Trimmed(log) == IF Len(log) > max_oplog_size THEN SubSeq(log, Len(log) - max_oplog_size + 1, Len(log)) ELSE log

append ==
    /\ next_seq <= MaxAppends
    /\ oplog' = Trimmed(Append(oplog, next_seq))
    /\ next_seq' = next_seq + 1
    /\ UNCHANGED <<peers, applied, overrun, reports, leaves>>

\* Variant: the entry that was asked from is sent again.
entries_since_again(since) == SelectSeq(oplog, LAMBDA s : s >= since)

entries_since(since) ==
    LET kept[k \in 0 .. Len(oplog)] ==
          IF k = 0 THEN <<>>
          ELSE IF oplog[k] > since THEN Append(kept[k - 1], oplog[k]) ELSE kept[k - 1]
    IN  kept[Len(oplog)]

\* A peer that is known already keeps its state.
register_peer(p) ==
    /\ peers' = IF peers[p] = Unknown THEN [peers EXCEPT ![p] = [last |-> 0, lag |-> 0]] ELSE peers
    /\ UNCHANGED <<oplog, next_seq, applied, overrun, reports, leaves>>

\* A report is taken as it comes, also behind a later one.
update_peer(p, seq) ==
    /\ peers' = IF peers[p] = Unknown THEN peers
                ELSE [peers EXCEPT ![p] = [last |-> seq, lag |-> IF seq > latest_seq THEN 0 ELSE latest_seq - seq]]
    /\ UNCHANGED <<oplog, next_seq, applied, overrun, reports, leaves>>

remove_peer(p) ==
    /\ leaves < MaxLeaves /\ peers[p] # Unknown
    /\ peers' = [peers EXCEPT ![p] = Unknown]
    /\ leaves' = leaves + 1
    /\ UNCHANGED <<oplog, next_seq, applied, overrun, reports>>

\* The other end: applies what it is given and reports how far it is.
LastApplied(p) == IF applied[p] = <<>> THEN 0 ELSE Last(applied[p])

Pull(p) ==
    LET got == entries_since(LastApplied(p))
        upto == IF got = <<>> THEN LastApplied(p) ELSE Last(got)
    IN  /\ peers[p] # Unknown
        /\ applied' = [applied EXCEPT ![p] = @ \o got]
        /\ overrun' = IF latest_seq - LastApplied(p) > max_oplog_size THEN overrun \cup {p} ELSE overrun
        /\ reports' = reports \cup {[peer |-> p, seq |-> upto]}
        /\ UNCHANGED <<oplog, next_seq, peers, leaves>>

ReplicatorNext ==
    \/ append
    \/ \E p \in Peers : register_peer(p) \/ remove_peer(p) \/ Pull(p)
    \/ \E r \in reports : update_peer(r.peer, r.seq)

-----------------------------------------------------------------------------
(* Membership, as each node sees it.                                       *)

SetNode(v, n, status) == nodes' = [nodes EXCEPT ![v][n] = status] /\ UNCHANGED repl_vars
Known(v) == {n \in Members : nodes[v][n] # Unknown}

\* A node that is added again is alive again.
add_node(v, n) == SetNode(v, n, "Alive")
remove_node(v, n) == n \in Known(v) /\ SetNode(v, n, Unknown)
heartbeat(v, n) == n \in Known(v) /\ SetNode(v, n, "Alive")
mark_suspect(v, n) == n \in Known(v) /\ SetNode(v, n, "Suspect")
mark_dead(v, n) == n \in Known(v) /\ SetNode(v, n, "Dead")

MembershipNext ==
    \E v \in Views, n \in Members :
        add_node(v, n) \/ remove_node(v, n) \/ heartbeat(v, n) \/ mark_suspect(v, n) \/ mark_dead(v, n)

alive_nodes(v) == {n \in Known(v) : nodes[v][n] = "Alive"}
has_quorum(v) == Known(v) # {} /\ Cardinality(alive_nodes(v)) > Cardinality(Known(v)) \div 2

-----------------------------------------------------------------------------
ClusterInit ==
    /\ oplog = <<>> /\ next_seq = 1
    /\ peers = [p \in Peers |-> Unknown]
    /\ applied = [p \in Peers |-> <<>>]
    /\ overrun = {} /\ reports = {} /\ leaves = 0
    /\ nodes = [v \in Views |-> [n \in Members |-> Unknown]]

ClusterNext == (ReplicatorNext /\ UNCHANGED nodes) \/ MembershipNext

ClusterSpec == ClusterInit /\ [][ClusterNext]_cluster_vars

(* A peer that never asked later than max_oplog_size operations behind has *)
(* applied all of them, each once and in order, however often it was       *)
(* removed; what the replicator records of it is never ahead of it, so     *)
(* that the entries since then, unless trimmed, are all that it can lack.  *)
(* Of two nodes that know the same members and see a quorum, both see one  *)
(* and the same member alive.                                              *)
ReplicasFollow ==
    /\ \A p \in Peers \ overrun : \A k \in 1..Len(applied[p]) : applied[p][k] = k
    /\ \A p \in Peers :
         peers[p] # Unknown =>
            /\ peers[p].last <= LastApplied(p)
            /\ latest_seq - peers[p].last <= max_oplog_size
                 => \A s \in peers[p].last + 1..latest_seq : s \in Range(entries_since(peers[p].last))
    /\ \A v, w \in Views :
         has_quorum(v) /\ has_quorum(w) /\ Known(v) = Known(w) => alive_nodes(v) \cap alive_nodes(w) # {}
=============================================================================
