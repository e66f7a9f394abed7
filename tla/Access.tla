------------------------------- MODULE Access -------------------------------
(***************************************************************************)
(* Who may do what to which row: sessions and identities, the policy       *)
(* engine, and the requests on a sharded table with an owner column        *)
(* (require_auth on).  Connections run concurrently; an update or a delete *)
(* checks the owner in one engine call and changes the row in a later one. *)
(* Scans are read page by page with the cursor, polls of the change log    *)
(* with the stamp of the last record received.                             *)
(*                                                                         *)
(* A row is what its owner column holds.  The shard of an inserted row is  *)
(* the hash of another column, hence any.                                  *)
(***************************************************************************)
EXTENDS Integers, Sequences, FiniteSets, SequencesExt

CONSTANTS
    Clients,      \* connections
    Scanners,     \* those that page through the table
    Updaters,     \* those that update and delete outside transactions
    ChangePollers, \* those that poll its change log
    Shards,       \* bound: shards of the table are 0 .. Shards - 1
    MaxLocal,     \* bound: rows per shard
    InitialRows,  \* the rows the table holds at the start: id -> owner
    MaxWrites,    \* bound: changes made to the table
    ScanLimit,    \* _limit of a scan
    PollLimit,    \* _limit of a poll
    LogCap,       \* change records a table keeps
    Identities,   \* identities: token -> identity, fixed at start
    Sessions,     \* the tokens that logins hand out, with their identity
    Rules,        \* the rules that can be added to a policy engine
    MaxRules,     \* bound: rules added
    Resources, Subjects,
    Nobody, NoRow, Gone, NoOp, NoScan

ASSUME AccessAssumption ==
    /\ Scanners \subseteq Clients /\ Updaters \subseteq Clients /\ ChangePollers \subseteq Clients
    /\ Shards \in Nat \ {0} /\ MaxLocal \in Nat \ {0} /\ MaxWrites \in Nat
    /\ ScanLimit \in Nat \ {0} /\ PollLimit \in Nat \ {0} /\ LogCap \in Nat \ {0}
    /\ MaxRules \in Nat /\ \A r \in Rules : r.effect \in {"Allow", "Deny"}

VARIABLES
    p_rules,   \* rules of the policy engine
    a_sess,    \* a_sess[t]: "none", "live" or "expired"
    a_ident,   \* a_ident[c]: the identity bound to connection c
    a_rows,    \* a_rows[g]: the owner of the row with global id g
    a_checked, \* a_checked[c]: the change c has checked and not made yet
    a_scan,    \* a_scan[c]: the scan c is paging through
    a_log,     \* the table's change records, oldest first
    a_writes,  \* changes made so far, and the stamp of the last record
    a_since,   \* a_since[c]: stamp of the last record c received
    a_foreign  \* history: requests that saw or changed a row of another

access_vars ==
    <<p_rules, a_sess, a_ident, a_rows, a_checked, a_scan, a_log, a_writes, a_since, a_foreign>>

(* The entries of s that are in S, in their order.                         *)
Filtered(s, S) ==
    LET kept[k \in 0 .. Len(s)] ==
          IF k = 0 THEN <<>> ELSE IF s[k] \in S THEN Append(kept[k - 1], s[k]) ELSE kept[k - 1]
    IN  kept[Len(s)]

----------------------------------------------------------------------------
(* Identities and the policy engine (identity.rs, policy.rs).              *)

has_role(id, role) == role \in id.roles
has_permission(id, perm) == perm \in id.perms \/ has_role(id, "admin")

Covers(rule, resource) == rule.resource \in {"*", resource}
ForRole(rule, id) == \E r \in rule.roles : has_role(id, r)
Matches(rule, id, resource, perm) ==
    Covers(rule, resource) /\ rule.permission = perm /\ ForRole(rule, id)

(* Variant: the last rule that matches decides.                            *)
check_last(rules, id, resource, perm) ==
    LET m == SelectSeq(rules, LAMBDA r : Matches(r, id, resource, perm))
    IN  m # <<>> /\ Last(m).effect = "Allow"

(* The rules up to the first matching Deny, where the loop breaks off.     *)
check(rules, id, resource, perm) ==
    LET matched[k \in 0 .. Len(rules)] ==
          IF k = 0 THEN "none"
          ELSE IF matched[k - 1] = "Deny" \/ ~Matches(rules[k], id, resource, perm)
          THEN matched[k - 1] ELSE rules[k].effect
    IN  matched[Len(rules)] = "Allow"

allowed_resources(rules, id, perm) ==
    {r.resource : r \in {x \in ToSet(rules) :
        x.effect = "Allow" /\ x.permission = perm /\ ForRole(x, id)}}

permissions_for_resource(rules, id, resource) ==
    {r.permission : r \in {x \in ToSet(rules) :
        x.effect = "Allow" /\ Covers(x, resource) /\ ForRole(x, id)}}

PolicyNext ==
    /\ Len(p_rules) < MaxRules
    /\ \E r \in Rules : p_rules' = Append(p_rules, r)
    /\ UNCHANGED <<a_sess, a_ident, a_rows, a_checked, a_scan, a_log, a_writes, a_since, a_foreign>>

----------------------------------------------------------------------------
(* Authorisation of a request and of a row (server.rs, transport.rs).      *)

PermissionOf(op) ==
    CASE op \in {"Insert", "Update"} -> "write"
      [] op \in {"Get", "Scan", "Find", "Subscribe", "Search"} -> "read"
      [] op = "Delete" -> "delete"

authorize(id, op) ==
    /\ id # Nobody
    /\ \/ has_permission(id, PermissionOf(op))
       \/ check(p_rules, id, "t", PermissionOf(op))

(* Variant: the owner of the row is not compared.                          *)
authorize_row_lax(id, op, owner) == authorize(id, op)

authorize_row(id, op, owner) ==
    authorize(id, op) /\ (has_role(id, "admin") \/ owner = id.subject)

(* Global ids: the shard in the high bits, the local id in the low ones.   *)
compose_id(shard, local) == shard * (MaxLocal + 1) + local
Gids == {compose_id(s, l) : s \in 0 .. Shards - 1, l \in 1 .. MaxLocal}
split_id(g) == <<g \div (MaxLocal + 1), g % (MaxLocal + 1)>>

(* A request may carry any id; shard bits beyond the last shard wrap.  One *)
(* such id stands for all.                                                 *)
RequestIds == Gids \cup {compose_id(Shards, 1)}
route_id(id) == compose_id(split_id(id)[1] % Shards, split_id(id)[2])

(* Ids are handed out from 1 on in every shard, and an owner is a subject. *)
ASSUME RowsAssumption ==
    /\ NoRow # Gone /\ {NoRow, Gone} \cap Subjects = {}
    /\ \A g \in DOMAIN InitialRows : InitialRows[g] # NoRow
    /\ \A s \in 0 .. Shards - 1 : \E n \in 0 .. MaxLocal :
          \A l \in 1 .. MaxLocal : compose_id(s, l) \in DOMAIN InitialRows <=> l <= n

Live == {g \in Gids : a_rows[g] \notin {NoRow, Gone}}
Mine(c, op) == {g \in Live : authorize_row(a_ident[c], op, a_rows[g])}

AccessInit ==
    /\ p_rules = <<>>
    /\ a_sess = [t \in DOMAIN Sessions |-> "none"]
    /\ a_ident = [c \in Clients |-> Nobody]
    /\ a_rows = [g \in Gids |-> IF g \in DOMAIN InitialRows THEN InitialRows[g] ELSE NoRow]
    /\ a_checked = [c \in Clients |-> NoOp]
    /\ a_scan = [c \in Clients |-> NoScan]
    /\ a_log = <<>>
    /\ a_writes = 0
    /\ a_since = [c \in Clients |-> 0]
    /\ a_foreign = {}

----------------------------------------------------------------------------
(* Sessions: a login makes one, time ends it.  A token is looked up when a *)
(* request carries it; the identity then stays with the connection, also   *)
(* when the session has ended or a later token is not known.               *)

register_session(t) ==
    /\ a_sess[t] = "none"
    /\ a_sess' = [a_sess EXCEPT ![t] = "live"]
    /\ UNCHANGED <<p_rules, a_ident, a_rows, a_checked, a_scan, a_log, a_writes, a_since, a_foreign>>

SessionExpires(t) ==
    /\ a_sess[t] = "live"
    /\ a_sess' = [a_sess EXCEPT ![t] = "expired"]
    /\ UNCHANGED <<p_rules, a_ident, a_rows, a_checked, a_scan, a_log, a_writes, a_since, a_foreign>>

(* resolve_token: an expired session is removed when it is met.            *)
Handshake(c, t) ==
    /\ a_checked[c] = NoOp /\ a_scan[c] = NoScan
    /\ a_sess' = [u \in DOMAIN Sessions |->
                    IF u = t /\ a_sess[u] = "expired" THEN "none" ELSE a_sess[u]]
    /\ a_ident' = [a_ident EXCEPT ![c] =
          IF t \in DOMAIN Sessions /\ a_sess[t] = "live" THEN Sessions[t]
          ELSE IF t \in DOMAIN Identities THEN Identities[t] ELSE @]
    /\ a_since' = [a_since EXCEPT ![c] = 0]
    /\ UNCHANGED <<p_rules, a_rows, a_checked, a_scan, a_log, a_writes, a_foreign>>

----------------------------------------------------------------------------
(* Requests that change the table.  Each appends a change record; the log  *)
(* keeps the newest LogCap.                                                *)

Log(g) ==
    /\ a_log' = LET l == Append(a_log, [ts |-> a_writes + 1, row |-> g])
                IN  IF Len(l) > LogCap THEN Tail(l) ELSE l
    /\ a_writes' = a_writes + 1

(* A request looks at rows with these owners.                              *)
Touches(c, op, owners) ==
    a_foreign' = IF has_role(a_ident[c], "admin") \/ owners \subseteq {a_ident[c].subject}
                 THEN a_foreign ELSE a_foreign \cup {op}

OwnersOf(rows) == {a_rows[g] : g \in rows}

(* What other requests' scans may still rely on after row g changed hands. *)
Unsettle(g) ==
    a_scan' = [c \in Clients |->
        IF a_scan[c] = NoScan THEN NoScan
        ELSE [a_scan[c] EXCEPT !.stable = @ \ {g}]]

Set(id, owner) ==
    /\ a_writes < MaxWrites
    /\ a_rows' = [a_rows EXCEPT ![route_id(id)] = owner]
    /\ Log(id)

Insert(c, shard, owner) ==
    LET used == {l \in 1 .. MaxLocal : a_rows[compose_id(shard, l)] # NoRow}
        g == compose_id(shard, Cardinality(used) + 1)
    IN  /\ a_checked[c] = NoOp
        /\ authorize_row(a_ident[c], "Insert", owner)
        /\ Cardinality(used) < MaxLocal
        /\ Set(g, owner)
        /\ Touches(c, "Insert", {owner})
        /\ UNCHANGED <<p_rules, a_sess, a_ident, a_checked, a_scan, a_since>>

(* The pre-check of Update and Delete; a row that is not there falls       *)
(* through to the engine, which refuses.                                   *)
CheckWrite(c, op, id) ==
    /\ a_checked[c] = NoOp
    /\ authorize(a_ident[c], op)
    /\ route_id(id) \in Mine(c, op)
    /\ a_checked' = [a_checked EXCEPT ![c] =
          [op |-> op, id |-> id, owner |-> a_rows[route_id(id)]]]
    /\ UNCHANGED <<p_rules, a_sess, a_ident, a_rows, a_scan, a_log, a_writes, a_since, a_foreign>>

(* The engine's part.  An update may set any column, the owner's too, and  *)
(* the new values are not checked.                                         *)
ApplyWrite(c, owner) ==
    LET op == a_checked[c] IN
    /\ op # NoOp
    /\ a_checked' = [a_checked EXCEPT ![c] = NoOp]
    /\ IF route_id(op.id) \in Live
       THEN /\ Set(op.id, IF op.op = "Delete" THEN Gone ELSE owner)
            /\ Unsettle(route_id(op.id))
            /\ Touches(c, op.op, {op.owner})
       ELSE UNCHANGED <<a_rows, a_log, a_writes, a_scan, a_foreign>>
    /\ UNCHANGED <<p_rules, a_sess, a_ident, a_since>>

(* In an atomic batch or a procedure the check and the change are one: the *)
(* commit fails if the row changed in between (module TxManager).          *)
AtomicWrite(c, op, g, owner) ==
    /\ a_checked[c] = NoOp
    /\ g \in Mine(c, op)
    /\ Set(g, IF op = "Delete" THEN Gone ELSE owner)
    /\ Unsettle(g)
    /\ Touches(c, op, {a_rows[g]})
    /\ UNCHANGED <<p_rules, a_sess, a_ident, a_checked, a_since>>

----------------------------------------------------------------------------
(* Requests that read.                                                     *)

(* The rows of a read's answer: one of somebody else reads as a miss.       *)
Read(c, op, g) ==
    /\ a_checked[c] = NoOp
    /\ authorize(a_ident[c], op)
    /\ Touches(c, op, OwnersOf({g} \cap Mine(c, op)))
    /\ UNCHANGED <<p_rules, a_sess, a_ident, a_rows, a_checked, a_scan, a_log, a_writes, a_since>>

GetRow(c, id) == Read(c, "Get", route_id(id))
FindRow(c, g) == Read(c, "Find", g)
SearchRow(c, g) == Read(c, "Search", g)

(* The binary search of apply_window: how many of the sorted ids lie at or *)
(* before the cursor.                                                      *)
WindowStart(ids, desc, cursor) ==
    LET before(x) == IF desc THEN x >= cursor ELSE x <= cursor
        n == Len(ids)
        narrowed(x) == LET mid == (x.lo + x.hi) \div 2
                       IN  IF x.lo >= x.hi THEN x
                           ELSE IF before(ids[mid + 1]) THEN [x EXCEPT !.lo = mid + 1]
                           ELSE [x EXCEPT !.hi = mid]
        \* k steps of the loop; n are enough.
        search[k \in 0 .. n] == IF k = 0 THEN [lo |-> 0, hi |-> n] ELSE narrowed(search[k - 1])
    IN  search[n].lo

(* Variant: the cursor's own row is on the next page again.                *)
apply_window_inclusive(ids, desc, cursor) ==
    LET start == IF cursor = 0 THEN 0
                 ELSE WindowStart(ids, desc, IF desc THEN cursor + 1 ELSE cursor - 1)
    IN  SubSeq(ids, start + 1, start + ScanLimit)

apply_window(ids, desc, cursor) ==
    LET start == IF cursor = 0 THEN 0 ELSE WindowStart(ids, desc, cursor)
        end == IF start + ScanLimit < Len(ids) THEN start + ScanLimit ELSE Len(ids)
    IN  SubSeq(ids, start + 1, end)

(* The ids there can be, in the order of a scan.                           *)
IdsInOrder(desc) ==
    LET top == compose_id(Shards - 1, MaxLocal)
    IN  [k \in 1 .. top |-> IF desc THEN top + 1 - k ELSE k]

(* The rows of all shards, filtered, sorted, then cut.  The code reads the *)
(* shards one after the other; a row never moves between them, so a page   *)
(* taken at one moment shows each row in a state it had during the request.*)
PageOf(c, desc, cursor) ==
    apply_window(Filtered(IdsInOrder(desc), Mine(c, "Scan")), desc, cursor)

(* A client asks for page after page, each with the last id it received as *)
(* the cursor (none at first), until a page is not full.                   *)
ScanPage(c, desc) ==
    /\ a_checked[c] = NoOp
    /\ authorize(a_ident[c], "Scan")
    /\ a_scan[c] # NoScan => desc = a_scan[c].desc /\ ~a_scan[c].done
    /\ LET s == IF a_scan[c] = NoScan
                THEN [desc |-> desc, seen |-> <<>>, done |-> FALSE, stable |-> Mine(c, "Scan")]
                ELSE a_scan[c]
           page == PageOf(c, desc, IF s.seen = <<>> THEN 0 ELSE Last(s.seen))
       IN  /\ a_scan' = [a_scan EXCEPT ![c] =
                           [s EXCEPT !.seen = @ \o page, !.done = Len(page) < ScanLimit]]
           /\ Touches(c, "Scan", OwnersOf(ToSet(page)))
    /\ UNCHANGED <<p_rules, a_sess, a_ident, a_rows, a_checked, a_log, a_writes, a_since>>

(* Subscribe on a table with an owner column: the limit is applied first,  *)
(* then the records whose row is gone or somebody else's are dropped.      *)
PollPage(c) ==
    LET fresh == Filtered(a_log, {r \in ToSet(a_log) : r.ts > a_since[c]})
        page == SubSeq(fresh, 1, IF Len(fresh) < PollLimit THEN Len(fresh) ELSE PollLimit)
    IN  Filtered(page, {r \in ToSet(page) : route_id(r.row) \in Mine(c, "Subscribe")})

Poll(c) ==
    /\ a_checked[c] = NoOp
    /\ authorize(a_ident[c], "Subscribe")
    /\ a_since' = [a_since EXCEPT ![c] = IF PollPage(c) = <<>> THEN @ ELSE Last(PollPage(c)).ts]
    /\ Touches(c, "Subscribe", OwnersOf({route_id(r.row) : r \in ToSet(PollPage(c))}))
    /\ UNCHANGED <<p_rules, a_sess, a_ident, a_rows, a_checked, a_scan, a_log, a_writes>>

----------------------------------------------------------------------------
SessionNext ==
    \E t \in DOMAIN Sessions : register_session(t) \/ SessionExpires(t)

HandshakeNext ==
    \E c \in Clients, t \in DOMAIN Sessions \cup DOMAIN Identities : Handshake(c, t)

WriteNext ==
    \E c \in Updaters :
        \/ \E op \in {"Update", "Delete"}, id \in RequestIds : CheckWrite(c, op, id)
        \/ \E o \in Subjects : ApplyWrite(c, o)

AtomicNext ==
    \E c \in Clients, o \in Subjects :
        \/ \E s \in 0 .. Shards - 1 : Insert(c, s, o)
        \/ \E op \in {"Update", "Delete"}, g \in Gids : AtomicWrite(c, op, g, o)

ReadNext ==
    \E c \in Clients :
        \/ \E id \in RequestIds : GetRow(c, id)
        \/ \E g \in Gids : FindRow(c, g) \/ SearchRow(c, g)

ScanNext == \E c \in Scanners, desc \in BOOLEAN : ScanPage(c, desc)
PollNext == \E c \in ChangePollers : Poll(c)

AccessNext ==
    \/ SessionNext \/ HandshakeNext \/ WriteNext \/ AtomicNext
    \/ ReadNext \/ ScanNext \/ PollNext \/ PolicyNext
AccessSpec == AccessInit /\ [][AccessNext]_access_vars

----------------------------------------------------------------------------
(* The three questions one can ask of the policy engine agree, whatever    *)
(* the order of the rules: a permission is granted exactly if some Allow   *)
(* rule covers it and no Deny rule that matches does, and the two listings *)
(* name exactly what Allow rules cover.                                    *)
PolicyAgrees ==
    \A id \in {Identities[t] : t \in DOMAIN Identities}, x \in Resources, p \in {"read", "write"} :
        LET allowed == {x, "*"} \cap allowed_resources(p_rules, id, p) # {}
            denied == \E r \in ToSet(p_rules) : r.effect = "Deny" /\ Matches(r, id, x, p)
        IN  /\ check(p_rules, id, x, p) <=> allowed /\ ~denied
            /\ p \in permissions_for_resource(p_rules, id, x) <=> allowed

(* What a request returns or changes belonged to its caller when it was    *)
(* looked at, for every kind of request, however connections change their  *)
(* identity and rows their owner meanwhile.                                *)
OwnersOnly == a_foreign = {}

(* Paging with the cursor while others insert, delete and give rows away:  *)
(* ids come in order and none twice, and a finished scan has returned      *)
(* every row that was the caller's from its first page to its last.        *)
ScanComplete ==
    \A c \in Clients : a_scan[c] # NoScan =>
        LET s == a_scan[c].seen IN
        /\ \A i, k \in 1 .. Len(s) : i < k => IF a_scan[c].desc THEN s[i] > s[k] ELSE s[i] < s[k]
        /\ a_scan[c].done => a_scan[c].stable \subseteq ToSet(s)

(* A poll that returns nothing has nothing left to return: no record of a  *)
(* row of the caller waits in the log beyond the caller's stamp.  It needs *)
(* a limit no smaller than the log (PollLimit >= LogCap), which the client *)
(* must ask for: the default is 100 records, the log keeps 128.            *)
EmptyPollMeansCaughtUp ==
    \A c \in Clients : a_ident[c] # Nobody /\ PollPage(c) = <<>> =>
        \A r \in ToSet(a_log) : r.ts > a_since[c] => route_id(r.row) \notin Mine(c, "Subscribe")

(* Both: who pages through a table or polls its changes misses nothing of  *)
(* what it may read (apply_window and the Subscribe handler).              *)
ReadersMissNothing == ScanComplete /\ EmptyPollMeansCaughtUp
=============================================================================
