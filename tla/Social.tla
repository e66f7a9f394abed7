-------------------------------- MODULE Social --------------------------------
(***************************************************************************)
(* State derived from posts: the exact-term search index, kept in memory   *)
(* and rebuilt at start, and the fan-out of posts into the timelines of    *)
(* followers by a worker behind a bounded queue.                           *)
(*                                                                         *)
(* A body is a sequence of words.  Requests that insert posts run          *)
(* concurrently; each updates the postings of one word after the other and *)
(* takes the locks of the index anew for each.                             *)
(***************************************************************************)
EXTENDS Integers, Sequences, FiniteSets, SequencesExt

CONSTANTS
    Posters,        \* requests that insert posts
    Posts,          \* bound: post ids, 1 .. n
    Authors,
    Bodies,         \* the bodies that are posted
    FollowTables,   \* follows tables, 1 .. n, in the order of their names
    Followings,     \* rows of the follows tables: [from |-> user, to |-> author]
    MaxFollowings,  \* bound: changes of the follows tables
    MaxDeletes,     \* bound: posts deleted
    MaxRestarts,    \* bound: restarts of the server
    MAX_TERMS, POSTING_CAP, MAX_HITS, FANOUT_QUEUE, FANOUT_PER_POST_CAP,
    NoPost, NoDeque, NoTask

ASSUME SocialAssumption ==
    /\ MaxFollowings \in Nat /\ MaxDeletes \in Nat /\ MaxRestarts \in Nat
    /\ MAX_TERMS \in Nat \ {0} /\ POSTING_CAP \in Nat \ {0} /\ MAX_HITS \in Nat \ {0}
    /\ FANOUT_QUEUE \in Nat \ {0} /\ FANOUT_PER_POST_CAP \in Nat \ {0}
    /\ Posts \subseteq Nat /\ NoDeque \notin Seq(Posts)
    /\ Bodies \subseteq Seq(UNION {ToSet(b) : b \in Bodies})
    /\ NoPost \notin [author : Authors, body : Bodies, live : BOOLEAN]
    /\ IsFiniteSet(FollowTables) /\ FollowTables = 1 .. Cardinality(FollowTables)
    /\ IsFiniteSet(Followings) /\ \A f \in Followings : f = [from |-> f.from, to |-> f.to]
    /\ NoTask \notin [job : [post : Posts, author : Authors], next : Nat,
                      owners : Seq({f.from : f \in Followings})]

VARIABLES
    so_rows,      \* the posts: id -> [author, body, live], or NoPost
    so_index,     \* the postings of each word, oldest first, or NoDeque
    so_writer,    \* so_writer[w]: the insert w is busy with
    so_channel,   \* whether the fan-out channel is installed
    so_queue,     \* posts that wait for the worker
    so_dropped,   \* posts whose job was dropped (the code keeps their number)
    so_worker,    \* the job of the worker
    so_follow,    \* the rows of each follows table
    so_timeline,  \* so_timeline[p]: the owners of the timeline rows of post p, oldest first
    so_count,     \* how often the bounded things have happened
    so_acked,     \* history: posts acknowledged, or kept over the last restart
    so_kept,      \* history: posts kept over the last restart
    so_before,    \* history: the posts acknowledged when p was inserted
    so_offered,   \* history: posts handed to the channel
    so_fanned,    \* history: posts the worker has finished
    so_steady,    \* history: rows of follows tables that were there since p was inserted
    so_ever       \* history: rows that were there at some time since

social_vars ==
    <<so_rows, so_index, so_writer, so_channel, so_queue, so_dropped, so_worker, so_follow,
      so_timeline, so_count, so_acked, so_kept, so_before, so_offered, so_fanned, so_steady, so_ever>>
history_vars == <<so_acked, so_kept, so_before, so_offered, so_fanned, so_steady, so_ever>>

----------------------------------------------------------------------------
tokenize(body) == SubSeq(body, 1, IF Len(body) < MAX_TERMS THEN Len(body) ELSE MAX_TERMS)

Words == UNION {ToSet(b) : b \in Bodies}
Users == {f.from : f \in Followings}
FollowRows == FollowTables \X Followings
LivePosts == {p \in Posts : so_rows[p] # NoPost /\ so_rows[p].live}
HasTerm(p, t) == so_rows[p] # NoPost /\ t \in ToSet(tokenize(so_rows[p].body))

SocialInit ==
    /\ so_rows = [p \in Posts |-> NoPost]
    /\ so_index = [t \in Words |-> NoDeque]
    /\ so_writer = [w \in Posters |-> NoTask]
    /\ so_channel = FALSE
    /\ so_queue = <<>>
    /\ so_dropped = {}
    /\ so_worker = NoTask
    /\ so_follow = [t \in FollowTables |-> {}]
    /\ so_timeline = [p \in Posts |-> <<>>]
    /\ so_count = [posts |-> 0, follows |-> 0, deletes |-> 0, restarts |-> 0, first |-> 0]
    /\ so_acked = {}
    /\ so_kept = {}
    /\ so_before = [p \in Posts |-> {}]
    /\ so_offered = {}
    /\ so_fanned = {}
    /\ so_steady = [p \in Posts |-> {}]
    /\ so_ever = [p \in Posts |-> {}]

----------------------------------------------------------------------------
(* Inserting a post: the row, the postings of its terms, the fan-out job,  *)
(* the answer.                                                             *)

InsertPost(w, author, body) ==
    LET p == so_count.posts + 1
        rows == {x \in FollowRows : x[2] \in so_follow[x[1]]}
    IN  /\ so_writer[w] = NoTask
        /\ p \in Posts
        /\ so_rows' = [so_rows EXCEPT ![p] = [author |-> author, body |-> body, live |-> TRUE]]
        /\ so_count' = [so_count EXCEPT !.posts = p]
        /\ so_writer' = [so_writer EXCEPT ![w] =
              [post |-> p, author |-> author, terms |-> tokenize(body), deque |-> "unknown"]]
        /\ so_before' = [so_before EXCEPT ![p] = so_acked]
        /\ so_steady' = [so_steady EXCEPT ![p] = rows]
        /\ so_ever' = [so_ever EXCEPT ![p] = rows]
        /\ UNCHANGED <<so_index, so_channel, so_queue, so_dropped, so_worker, so_follow,
                       so_timeline, so_acked, so_kept, so_offered, so_fanned>>

Term(w) == Head(so_writer[w].terms)
AtTerm(w, deque) ==
    so_writer[w] # NoTask /\ so_writer[w].terms # <<>> /\ so_writer[w].deque = deque

(* index_post: the deque of the term is looked for under the read lock; if *)
(* there is none, a new one is offered under the write lock.  When another *)
(* request has listed one in between, the own one stays where nobody can   *)
(* find it.                                                                *)
FindDeque(w) ==
    /\ AtTerm(w, "unknown")
    /\ so_writer' = [so_writer EXCEPT ![w].deque =
          IF so_index[Term(w)] = NoDeque THEN "new" ELSE "listed"]
    /\ UNCHANGED <<so_rows, so_index, so_channel, so_queue, so_dropped, so_worker, so_follow,
                   so_timeline, so_count, history_vars>>

ListDeque(w) ==
    /\ AtTerm(w, "new")
    /\ IF so_index[Term(w)] = NoDeque
       THEN /\ so_index' = [so_index EXCEPT ![Term(w)] = <<>>]
            /\ so_writer' = [so_writer EXCEPT ![w].deque = "listed"]
       ELSE /\ so_writer' = [so_writer EXCEPT ![w].deque = "orphan"]
            /\ UNCHANGED so_index
    /\ UNCHANGED <<so_rows, so_channel, so_queue, so_dropped, so_worker, so_follow,
                   so_timeline, so_count, history_vars>>

(* Variant: a full deque keeps the oldest postings.                        *)
Posted_oldest(q, p) ==
    LET r == Append(SelectSeq(q, LAMBDA x : x # p), p)
    IN  IF Len(r) > POSTING_CAP THEN Front(r) ELSE r

(* The entries of s that are in S, in their order (retain).                *)
Selected(s, S) ==
    LET kept[k \in 0 .. Len(s)] ==
          IF k = 0 THEN <<>> ELSE IF s[k] \in S THEN Append(kept[k - 1], s[k]) ELSE kept[k - 1]
    IN  kept[Len(s)]

(* A deque with the posting of p refreshed, trimmed to the newest.         *)
Posted(q, p) ==
    LET r == Append(Selected(q, ToSet(q) \ {p}), p)
    IN  IF Len(r) > POSTING_CAP THEN Tail(r) ELSE r

PushPosting(w) ==
    \E deque \in {"listed", "orphan"} :
        /\ AtTerm(w, deque)
        /\ so_index' = IF deque = "orphan" THEN so_index
                       ELSE [so_index EXCEPT ![Term(w)] = Posted(@, so_writer[w].post)]
        /\ so_writer' = [so_writer EXCEPT ![w].terms = Tail(@), ![w].deque = "unknown"]
        /\ UNCHANGED <<so_rows, so_channel, so_queue, so_dropped, so_worker, so_follow,
                       so_timeline, so_count, history_vars>>

(* Without a channel there is no fan-out; with a full one the job is       *)
(* dropped and counted.                                                    *)
fanout_enqueue(p, author) ==
    /\ so_offered' = IF so_channel THEN so_offered \cup {p} ELSE so_offered
    /\ so_queue' = IF so_channel /\ Len(so_queue) < FANOUT_QUEUE
                   THEN Append(so_queue, [post |-> p, author |-> author]) ELSE so_queue
    /\ so_dropped' = IF so_channel /\ Len(so_queue) >= FANOUT_QUEUE
                     THEN so_dropped \cup {p} ELSE so_dropped

FinishPost(w) ==
    /\ so_writer[w] # NoTask /\ so_writer[w].terms = <<>>
    /\ fanout_enqueue(so_writer[w].post, so_writer[w].author)
    /\ so_writer' = [so_writer EXCEPT ![w] = NoTask]
    /\ so_acked' = so_acked \cup {so_writer[w].post}
    /\ UNCHANGED <<so_rows, so_index, so_channel, so_worker, so_follow, so_timeline, so_count,
                   so_kept, so_before, so_fanned, so_steady, so_ever>>

(* A post is deleted; its postings and its timeline rows stay.             *)
DeletePost(p) ==
    /\ p \in LivePosts
    /\ so_count.deletes < MaxDeletes
    /\ so_rows' = [so_rows EXCEPT ![p].live = FALSE]
    /\ so_count' = [so_count EXCEPT !.deletes = @ + 1]
    /\ UNCHANGED <<so_index, so_writer, so_channel, so_queue, so_dropped, so_worker, so_follow,
                   so_timeline, history_vars>>

----------------------------------------------------------------------------
(* The worker.                                                             *)

install_fanout ==
    /\ ~so_channel
    /\ so_channel' = TRUE
    /\ UNCHANGED <<so_rows, so_index, so_writer, so_queue, so_dropped, so_worker, so_follow,
                   so_timeline, so_count, history_vars>>

(* A row is inserted into or deleted from a follows table.                 *)
ChangeFollow(t, f) ==
    LET there == f \in so_follow[t] IN
    /\ so_count.follows < MaxFollowings
    /\ so_follow' = [so_follow EXCEPT ![t] = IF there THEN @ \ {f} ELSE @ \cup {f}]
    /\ so_count' = [so_count EXCEPT !.follows = @ + 1]
    /\ so_steady' = [p \in Posts |-> so_steady[p] \ {<<t, f>>}]
    /\ so_ever' = [p \in Posts |-> IF there \/ p > so_count.posts THEN so_ever[p]
                                   ELSE so_ever[p] \cup {<<t, f>>}]
    /\ UNCHANGED <<so_rows, so_index, so_writer, so_channel, so_queue, so_dropped, so_worker,
                   so_timeline, so_acked, so_kept, so_before, so_offered, so_fanned>>

FanTake ==
    /\ so_worker = NoTask
    /\ so_queue # <<>>
    /\ so_worker' = [job |-> Head(so_queue), next |-> 1, owners |-> <<>>]
    /\ so_queue' = Tail(so_queue)
    /\ UNCHANGED <<so_rows, so_index, so_writer, so_channel, so_dropped, so_follow,
                   so_timeline, so_count, history_vars>>

(* Variant: every table may add as many owners as the cap allows.          *)
Collected_per_table(owners, found) ==
    owners \o SubSeq(found, 1, IF Len(found) < FANOUT_PER_POST_CAP THEN Len(found) ELSE FANOUT_PER_POST_CAP)

(* The owners so far, and as many of those found as the cap allows.        *)
Collected(owners, found) ==
    LET all == owners \o found
    IN  IF Len(all) > FANOUT_PER_POST_CAP THEN SubSeq(all, 1, FANOUT_PER_POST_CAP) ELSE all

(* The follows tables are read one after the other, each in any order of   *)
(* its rows.                                                               *)
FanScan ==
    /\ so_worker # NoTask
    /\ so_worker.next \in FollowTables
    /\ LET found == {f \in so_follow[so_worker.next] : f.to = so_worker.job.author}
       IN  \E s \in SetToSeqs({f.from : f \in found}) :
             so_worker' = [so_worker EXCEPT !.next = @ + 1, !.owners = Collected(@, s)]
    /\ UNCHANGED <<so_rows, so_index, so_writer, so_channel, so_queue, so_dropped, so_follow,
                   so_timeline, so_count, history_vars>>

Scanned == so_worker # NoTask /\ so_worker.next \notin FollowTables

FanInsert ==
    /\ Scanned /\ so_worker.owners # <<>>
    /\ so_timeline' = [so_timeline EXCEPT ![so_worker.job.post] = Append(@, Head(so_worker.owners))]
    /\ so_worker' = [so_worker EXCEPT !.owners = Tail(@)]
    /\ UNCHANGED <<so_rows, so_index, so_writer, so_channel, so_queue, so_dropped, so_follow,
                   so_count, history_vars>>

FanDone ==
    /\ Scanned /\ so_worker.owners = <<>>
    /\ so_fanned' = so_fanned \cup {so_worker.job.post}
    /\ so_worker' = NoTask
    /\ UNCHANGED <<so_rows, so_index, so_writer, so_channel, so_queue, so_dropped, so_follow,
                   so_timeline, so_count, so_acked, so_kept, so_before, so_offered, so_steady, so_ever>>

----------------------------------------------------------------------------
(* rebuild_search_index: every stored post in some order goes into the    *)
(* postings of its terms; nobody else uses the index yet.                  *)
rebuild_search_index(order) ==
    [t \in Words |->
        LET deque[k \in 0 .. Len(order)] ==
              IF k = 0 THEN NoDeque
              ELSE IF HasTerm(order[k], t)
              THEN Posted(IF deque[k - 1] = NoDeque THEN <<>> ELSE deque[k - 1], order[k])
              ELSE deque[k - 1]
        IN  deque[Len(order)]]

(* A durable server restarts: acknowledged rows are recovered, those of    *)
(* requests under way perhaps; index, queue and worker start anew.         *)
Restart ==
    /\ so_count.restarts < MaxRestarts
    /\ \E keep \in SUBSET LivePosts :
         /\ so_acked \cap LivePosts \subseteq keep
         /\ so_rows' = [p \in Posts |-> IF so_rows[p] = NoPost THEN NoPost
                                        ELSE [so_rows[p] EXCEPT !.live = p \in keep]]
         /\ \E order \in SetToSeqs(keep) : so_index' = rebuild_search_index(order)
         /\ so_acked' = keep
         /\ so_kept' = keep
         /\ so_before' = [p \in Posts |-> IF p \in keep THEN keep ELSE {}]
    /\ so_writer' = [w \in Posters |-> NoTask]
    /\ so_channel' = FALSE
    /\ so_queue' = <<>>
    /\ so_dropped' = {}
    /\ so_worker' = NoTask
    /\ so_count' = [so_count EXCEPT !.restarts = @ + 1, !.first = so_count.posts]
    /\ so_offered' = {}
    /\ so_fanned' = {}
    /\ UNCHANGED <<so_follow, so_timeline, so_steady, so_ever>>

(* The postings of the first term, those of the second among them, of      *)
(* which the newest count, at least one and at most MAX_HITS.              *)
Clamped(limit) == IF limit < 1 THEN 1 ELSE IF limit > MAX_HITS THEN MAX_HITS ELSE limit
Postings(t) == IF so_index[t] = NoDeque THEN <<>> ELSE so_index[t]

search_posts(q, limit) ==
    LET hits == IF Len(q) = 1 THEN Postings(q[1]) ELSE Selected(Postings(q[1]), ToSet(Postings(q[2])))
        n == Clamped(limit)
    IN  SubSeq(hits, IF Len(hits) > n THEN Len(hits) - n + 1 ELSE 1, Len(hits))

(* Rows that are gone are left out of the answer.                          *)
SearchAnswer(q, limit) == {p \in ToSet(search_posts(q, limit)) : p \in LivePosts}

PostNext ==
    \E w \in Posters :
        \/ \E a \in Authors, b \in Bodies : InsertPost(w, a, b)
        \/ FindDeque(w) \/ ListDeque(w) \/ PushPosting(w) \/ FinishPost(w)

FollowNext == \E t \in FollowTables, f \in Followings : ChangeFollow(t, f)
FanNext == FanTake \/ FanScan \/ FanInsert \/ FanDone

SocialNext ==
    \/ PostNext
    \/ \E p \in Posts : DeletePost(p)
    \/ FollowNext
    \/ install_fanout
    \/ FanNext
    \/ Restart

SocialSpec == SocialInit /\ [][SocialNext]_social_vars

----------------------------------------------------------------------------
(* Posts whose posting of t may be newer than that of p.                   *)
Later(p, t) ==
    {r \in so_kept \cup ((so_count.first + 1) .. so_count.posts) :
        r # p /\ HasTerm(r, t) /\ (r \notin so_before[p] \/ {r, p} \subseteq so_kept)}

(* p was inserted while another was, and nobody had used the term before.  *)
FirstRace(p, t) ==
    /\ \A r \in so_before[p] : ~HasTerm(r, t)
    /\ \E r \in Later(p, t) : p \notin so_before[r]

(* A search finds every acknowledged post that is still there, also after  *)
(* a restart, unless as many newer posts have one of its terms as the      *)
(* postings can hold or the answer may have, or posts raced to be the      *)
(* first with it: ListDeque leaves the posting of the loser where no       *)
(* search finds it.                                                        *)
SearchFindsPosts ==
    \A p \in so_acked \cap LivePosts, t, u \in Words, limit \in 0 .. MAX_HITS + 1 :
        HasTerm(p, t) /\ HasTerm(p, u) =>
            \/ p \in SearchAnswer(IF t = u THEN <<t>> ELSE <<t, u>>, limit)
            \/ \E x \in {t, u} : \/ Cardinality(Later(p, x)) >= POSTING_CAP
                                 \/ Cardinality(Later(p, x)) >= Clamped(limit)
                                 \/ FirstRace(p, x)

RowsOf(p, u, rows) == {x \in rows : x[2] = [from |-> u, to |-> so_rows[p].author]}

(* Every post handed to the channel is waiting, in work, fanned out or     *)
(* dropped.  A fanned-out post has at most the cap of timeline rows; below *)
(* the cap every user who followed its author from the insertion on has a  *)
(* row for each follows row, and nobody has more rows than follows rows.   *)
FanoutComplete ==
    /\ \A p \in so_offered :
         p \in so_dropped \cup so_fanned \cup {so_queue[k].post : k \in DOMAIN so_queue}
               \cup (IF so_worker = NoTask THEN {} ELSE {so_worker.job.post})
    /\ \A p \in 1 .. so_count.posts :
         LET has(u) == Cardinality({k \in DOMAIN so_timeline[p] : so_timeline[p][k] = u})
             total == Len(so_timeline[p])
         IN  /\ total <= FANOUT_PER_POST_CAP
             /\ \A u \in Users : has(u) <= Cardinality(RowsOf(p, u, so_ever[p]))
             /\ p \in so_fanned /\ total < FANOUT_PER_POST_CAP =>
                  \A u \in Users : Cardinality(RowsOf(p, u, so_steady[p])) <= has(u)
===============================================================================
