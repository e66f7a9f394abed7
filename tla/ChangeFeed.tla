------------------------------ MODULE ChangeFeed ------------------------------
(***************************************************************************)
(* The change feed of one table (blitz-server, server.rs and transport.rs):*)
(* writers call record_change after an acknowledged write, pollers page    *)
(* through the bounded change log by timestamp, and push streams receive   *)
(* each record through a bounded channel.                                  *)
(*                                                                         *)
(* record_change holds no lock across its steps, so a writer is a sequence *)
(* of atomic steps: flag, clock and sequence number; looking the queue up; *)
(* publishing a new queue; pushing; cloning the hub's senders; one         *)
(* try_send per sender; evicting.  The clock is the system clock, which    *)
(* may stand still or be set back: a timestamp is any value.  The metrics  *)
(* counters and the contents of a record are left out.                     *)
(***************************************************************************)
EXTENDS Naturals, Sequences, FiniteSets

CONSTANTS
  Writers,                \* threads that record changes
  Streams,                \* connections in push mode, each subscribes once
  Pollers,                \* clients of Subscribe polls and of the SSE endpoint
  Mixes,                  \* the sets of streams and pollers that take part together
  MAX_CHANGES_PER_TABLE,  \* length of the change log
  Capacity,               \* depth of a push channel
  Limit,                  \* page size of a poll, after clamping
  MaxTs,                  \* bound: timestamps are 1..MaxTs[clients]
  MaxRecords              \* bound: records made

ASSUME FeedAssumption ==
  /\ \A m \in Mixes : m \subseteq Streams \union Pollers
  /\ MAX_CHANGES_PER_TABLE \in Nat \ {0} /\ Capacity \in Nat \ {0}
  /\ Limit \in Nat \ {0} /\ MaxTs \in [Mixes -> Nat] /\ MaxRecords \in Nat

VARIABLES
  changes_used, push_used,  \* the two sticky flags
  change_seq,               \* the counter for records and subscribers
  listed,                   \* whether the map of queues has one for the table
  changes,                  \* that queue
  push_hub,                 \* streams the hub holds a sender of
  writer_pc,                \* where a writer is in record_change
  rec,                      \* the record it carries
  targets, tried, dead,     \* senders it cloned, those tried, those refused
  phase,                    \* where a stream is in run_push_stream
  chan,                     \* its channel
  got,                      \* records written to its peer
  since, seen,              \* a poller's cursor and the records it was given
  clients,                  \* the streams and pollers of this behaviour
  \* History variables, read by the properties only.
  published,                \* every record pushed to the listed queue, in order
  owed,                     \* sequence number |-> streams in the hub at its Begin
  before,                   \* sequence number |-> records finished at its Begin
  finished                  \* sequence numbers whose record_change has returned

flags   == <<changes_used, push_used>>
log     == <<listed, changes, published>>
writer  == <<writer_pc, rec, targets, tried, dead>>
stream  == <<phase, chan, got>>
poller  == <<since, seen>>
history == <<owed, before, finished>>
feed_vars    == <<flags, change_seq, log, push_hub, writer, stream, poller, history, clients>>

NoRec == [seq |-> 0, ts |-> 0]
Recs  == [seq : Nat, ts : 0..MaxTs[clients]]

FeedInit ==
  /\ changes_used = FALSE /\ push_used = FALSE
  /\ change_seq = 1
  /\ listed = FALSE /\ changes = <<>> /\ published = <<>>
  /\ push_hub = {}
  /\ writer_pc = [w \in Writers |-> "idle"]
  /\ rec = [w \in Writers |-> NoRec]
  /\ targets = [w \in Writers |-> {}]
  /\ tried = [w \in Writers |-> {}]
  /\ dead = [w \in Writers |-> {}]
  /\ phase = [s \in Streams |-> "new"]
  /\ chan = [s \in Streams |-> <<>>]
  /\ got = [s \in Streams |-> <<>>]
  /\ since = [p \in Pollers |-> 0]
  /\ seen = [p \in Pollers |-> <<>>]
  /\ owed = <<>> /\ before = <<>>
  /\ finished = {}
  /\ clients \in Mixes

-----------------------------------------------------------------------------
(* record_change *)

Goto(w, l) == writer_pc' = [writer_pc EXCEPT ![w] = l]

\* record_change returns; its clones of the senders are dropped.
Return(w) ==
  /\ Goto(w, "idle")
  /\ rec' = [rec EXCEPT ![w] = NoRec]
  /\ finished' = finished \union {rec[w].seq}
  /\ UNCHANGED <<owed, before>>

Released(w) ==
  /\ targets' = [targets EXCEPT ![w] = {}]
  /\ tried' = [tried EXCEPT ![w] = {}]
  /\ dead' = [dead EXCEPT ![w] = {}]

\* The flag is set: take a timestamp and a sequence number.  With the flag
\* clear record_change returns at once and changes nothing.
Begin(w) ==
  /\ writer_pc[w] = "idle" /\ changes_used
  /\ Cardinality(DOMAIN owed) < MaxRecords
  /\ \E ts \in 1..MaxTs[clients] : rec' = [rec EXCEPT ![w] = [seq |-> change_seq, ts |-> ts]]
  /\ change_seq' = change_seq + 1
  /\ Goto(w, "find")
  /\ owed' = [n \in DOMAIN owed \union {change_seq} |->
                IF n = change_seq THEN push_hub ELSE owed[n]]
  /\ before' = [n \in DOMAIN before \union {change_seq} |->
                  IF n = change_seq THEN finished ELSE before[n]]
  /\ UNCHANGED <<flags, log, push_hub, targets, tried, dead, stream, poller, finished>>

\* Look the table's queue up under the map's read lock.
FindQueue(w) ==
  /\ writer_pc[w] = "find"
  /\ Goto(w, IF listed THEN "push" ELSE "list")
  /\ UNCHANGED <<flags, change_seq, log, push_hub, rec, targets, tried, dead,
                 stream, poller, history>>

\* Enter a new queue in the map.  If another writer was first the entry stays
\* as it is and this writer goes on with its own queue, which no reader finds.
ListQueue(w) ==
  /\ writer_pc[w] = "list"
  /\ Goto(w, IF listed THEN "orphan" ELSE "push")
  /\ listed' = TRUE
  /\ UNCHANGED <<flags, change_seq, changes, published, push_hub, rec, targets,
                 tried, dead, stream, poller, history>>

\* Pop from the front while the queue is too long.
Trim(q) ==
  SubSeq(q, IF Len(q) > MAX_CHANGES_PER_TABLE
            THEN Len(q) - MAX_CHANGES_PER_TABLE + 1 ELSE 1, Len(q))

PushQueue(w) ==
  /\ writer_pc[w] \in {"push", "orphan"}
  /\ IF writer_pc[w] = "push"
     THEN /\ changes' = Trim(Append(changes, rec[w]))
          /\ published' = Append(published, rec[w])
     ELSE UNCHANGED <<changes, published>>
  /\ Goto(w, "targets")
  /\ UNCHANGED <<flags, change_seq, listed, push_hub, rec, targets, tried, dead,
                 stream, poller, history>>

\* Clone the hub's senders; without any, record_change is done.
CloneTargets(w) ==
  LET t == IF push_used THEN push_hub ELSE {}
  IN  /\ writer_pc[w] = "targets"
      /\ targets' = [targets EXCEPT ![w] = t]
      /\ IF t = {} THEN Return(w) ELSE Goto(w, "send") /\ UNCHANGED <<rec, history>>
      /\ UNCHANGED <<flags, change_seq, log, push_hub, tried, dead, stream, poller>>

\* The receiver exists until run_push_stream returns.
Open(s) == phase[s] \in {"joined", "streaming", "leaving"}

\* try_send refuses when the channel is full or its receiver is gone.
TrySend(w) ==
  /\ writer_pc[w] = "send"
  /\ \E s \in targets[w] \ tried[w] :
       /\ tried' = [tried EXCEPT ![w] = @ \union {s}]
       /\ IF Open(s) /\ Len(chan[s]) < Capacity
          THEN chan' = [chan EXCEPT ![s] = Append(@, rec[w])] /\ UNCHANGED dead
          ELSE dead' = [dead EXCEPT ![w] = @ \union {s}] /\ UNCHANGED chan
  /\ Goto(w, IF tried'[w] = targets[w] THEN "evict" ELSE "send")
  /\ UNCHANGED <<flags, change_seq, log, push_hub, rec, targets, phase, got, poller, history>>

\* Variant: the writer keeps its clones for the next record.
Evict_keeps_senders(w) ==
  /\ writer_pc[w] = "evict"
  /\ push_hub' = push_hub \ dead[w]
  /\ Return(w)
  /\ tried' = [tried EXCEPT ![w] = {}] /\ dead' = [dead EXCEPT ![w] = {}]
  /\ UNCHANGED <<flags, change_seq, log, targets, stream, poller>>

\* Remove the refused subscribers from the hub, and return.
Evict(w) ==
  /\ writer_pc[w] = "evict"
  /\ push_hub' = push_hub \ dead[w]
  /\ Return(w) /\ Released(w)
  /\ UNCHANGED <<flags, change_seq, log, stream, poller>>

-----------------------------------------------------------------------------
(* push_subscribe and run_push_stream *)

Step(s, from, to) == phase[s] = from /\ phase' = [phase EXCEPT ![s] = to]

ArmChanges(s) ==
  /\ Step(s, "new", "arming")
  /\ changes_used' = TRUE
  /\ UNCHANGED <<push_used, change_seq, log, push_hub, writer, chan, got, poller, history>>

ArmPush(s) ==
  /\ Step(s, "arming", "armed")
  /\ push_used' = TRUE
  /\ UNCHANGED <<changes_used, change_seq, log, push_hub, writer, chan, got, poller, history>>

\* Take a subscriber id and put the sender in the hub.
Join(s) ==
  /\ Step(s, "armed", "joined")
  /\ change_seq' = change_seq + 1
  /\ push_hub' = push_hub \union {s}
  /\ UNCHANGED <<flags, log, writer, chan, got, poller, history>>

Ack(s) ==
  /\ Step(s, "joined", "streaming")
  /\ UNCHANGED <<flags, change_seq, log, push_hub, writer, chan, got, poller, history>>

\* The acknowledgement cannot be written: run_push_stream returns without
\* push_unsubscribe and leaves the sender in the hub.
AckFails(s) ==
  /\ Step(s, "joined", "gone")
  /\ chan' = [chan EXCEPT ![s] = <<>>]
  /\ UNCHANGED <<flags, change_seq, log, push_hub, writer, got, poller, history>>

\* Take a record from the channel and write it to the peer.
Receive(s) ==
  /\ phase[s] = "streaming" /\ chan[s] # <<>>
  /\ chan' = [chan EXCEPT ![s] = Tail(@)]
  /\ got' = [got EXCEPT ![s] = Append(@, Head(chan[s]))]
  /\ UNCHANGED <<flags, change_seq, log, push_hub, writer, phase, poller, history>>

\* The write fails: the record is lost and the stream ends.
WriteFails(s) ==
  /\ Step(s, "streaming", "leaving") /\ chan[s] # <<>>
  /\ chan' = [chan EXCEPT ![s] = Tail(@)]
  /\ UNCHANGED <<flags, change_seq, log, push_hub, writer, got, poller, history>>

\* No record for the idle time.
IdleTimeout(s) ==
  /\ Step(s, "streaming", "leaving") /\ chan[s] = <<>>
  /\ UNCHANGED <<flags, change_seq, log, push_hub, writer, chan, got, poller, history>>

\* recv returns None: the channel is empty and every sender dropped.
SendersDropped(s) == s \notin push_hub /\ \A w \in Writers : s \notin targets[w]

Closed(s) ==
  /\ Step(s, "streaming", "leaving") /\ chan[s] = <<>>
  /\ SendersDropped(s)
  /\ UNCHANGED <<flags, change_seq, log, push_hub, writer, chan, got, poller, history>>

\* push_unsubscribe, then the receiver is dropped with what it still holds.
Unsubscribe(s) ==
  /\ Step(s, "leaving", "gone")
  /\ push_hub' = push_hub \ {s}
  /\ chan' = [chan EXCEPT ![s] = <<>>]
  /\ UNCHANGED <<flags, change_seq, log, writer, got, poller, history>>

-----------------------------------------------------------------------------
(* Polls *)

\* The places of the records newer than ts, and the k-th place of a set of them.
Newer(ts) == {i \in 1..Len(changes) : changes[i].ts > ts}
Nth(places, k) == CHOOSE i \in places : Cardinality({j \in places : j <= i}) = k

\* Variant: the newest Limit records instead of the oldest.
read_changes_newest(ts) ==
  LET newer == Newer(ts)
      n     == Cardinality(newer)
  IN  IF n < Limit THEN [k \in 1..n |-> changes[Nth(newer, k)]]
      ELSE [k \in 1..Limit |-> changes[Nth(newer, n - Limit + k)]]

\* The oldest Limit records of the listed queue that are newer than ts.
read_changes(ts) ==
  LET newer == Newer(ts)
      n     == Cardinality(newer)
  IN  [k \in 1..(IF n < Limit THEN n ELSE Limit) |-> changes[Nth(newer, k)]]

\* The first n records of a page reach the client, which goes on from the
\* largest timestamp it was given.
Give(p, page, n) ==
  /\ seen' = [seen EXCEPT ![p] = @ \o SubSeq(page, 1, n)]
  /\ since' = [since EXCEPT ![p] =
                 CHOOSE m \in {@} \union {page[i].ts : i \in 1..n} :
                   m >= @ /\ \A i \in 1..n : m >= page[i].ts]

\* A Subscribe request is answered with the whole page.
Subscribe(p) ==
  /\ changes_used' = TRUE
  /\ Give(p, read_changes(since[p]), Len(read_changes(since[p])))
  /\ UNCHANGED <<push_used, change_seq, log, push_hub, writer, stream, history>>

\* One round of an SSE stream writes its page record by record; the stream may
\* break after any of them, and its client resumes it.
sse_stream(p) ==
  /\ changes_used' = TRUE
  /\ \E n \in 0..Len(read_changes(since[p])) : Give(p, read_changes(since[p]), n)
  /\ UNCHANGED <<push_used, change_seq, log, push_hub, writer, stream, history>>

-----------------------------------------------------------------------------
RecordStep(w) ==
  FindQueue(w) \/ ListQueue(w) \/ PushQueue(w) \/ CloneTargets(w) \/ TrySend(w) \/ Evict(w)

SubscribeStep(s) == ArmChanges(s) \/ ArmPush(s) \/ Join(s) \/ Ack(s) \/ AckFails(s)

StreamStep(s) == Receive(s) \/ WriteFails(s) \/ Closed(s) \/ Unsubscribe(s)

\* All records of the bound are made and all streams have ended.
RecordsDone ==
  /\ Cardinality(DOMAIN owed) = MaxRecords
  /\ \A w \in Writers : writer_pc[w] = "idle"
  /\ \A s \in Streams \intersect clients : phase[s] = "gone"
  /\ UNCHANGED feed_vars

FeedNext ==
  /\ \/ RecordsDone
     \/ \E w \in Writers : Begin(w) \/ RecordStep(w)
     \/ \E s \in Streams \intersect clients : SubscribeStep(s) \/ StreamStep(s) \/ IdleTimeout(s)
     \/ \E p \in Pollers \intersect clients : Subscribe(p) \/ sse_stream(p)
  /\ UNCHANGED clients

FeedSpec == FeedInit /\ [][FeedNext]_feed_vars

\* record_change does not wait for anything but short locks, and a stream whose
\* peer reads, or breaks, gets on.  Nothing is assumed of the idle timer.
FeedFairness ==
  /\ \A w \in Writers : WF_feed_vars(RecordStep(w) /\ UNCHANGED clients)
  /\ \A s \in Streams : WF_feed_vars(StreamStep(s) /\ UNCHANGED clients)

-----------------------------------------------------------------------------
(* Properties *)

\* Types, and the bounds of the change log and of the channels, whichever
\* writers and readers interleave.
FeedTypeOK ==
  /\ changes_used \in BOOLEAN /\ push_used \in BOOLEAN /\ listed \in BOOLEAN
  /\ change_seq \in Nat
  /\ changes \in Seq(Recs) /\ Len(changes) <= MAX_CHANGES_PER_TABLE
  /\ published \in Seq(Recs)
  /\ push_hub \subseteq Streams
  /\ writer_pc \in [Writers -> {"idle", "find", "list", "push", "orphan", "targets", "send", "evict"}]
  /\ rec \in [Writers -> Recs]
  /\ targets \in [Writers -> SUBSET Streams]
  /\ tried \in [Writers -> SUBSET Streams] /\ dead \in [Writers -> SUBSET Streams]
  /\ \A w \in Writers : dead[w] \subseteq tried[w] /\ tried[w] \subseteq targets[w]
  /\ phase \in [Streams -> {"new", "arming", "armed", "joined", "streaming", "leaving", "gone"}]
  /\ chan \in [Streams -> Seq(Recs)]
  /\ \A s \in Streams : Len(chan[s]) <= Capacity
  /\ got \in [Streams -> Seq(Recs)]
  /\ since \in [Pollers -> 0..MaxTs[clients]]
  /\ seen \in [Pollers -> Seq(Recs)]
  /\ DOMAIN owed = DOMAIN before
  /\ finished \subseteq DOMAIN owed
  /\ clients \in Mixes

Seqs(q) == {q[i].seq : i \in 1..Len(q)}

\* A running stream that the hub still knows has, written to its peer or waiting in its
\* channel, every finished record that began after its subscription: a writer
\* either delivers or evicts before it returns.
StreamComplete ==
  \A s \in push_hub : \A n \in finished :
    s \in owed[n] /\ phase[s] \in {"joined", "streaming"}
      => n \in Seqs(got[s]) \union Seqs(chan[s])

\* What a peer is given has no holes: when record b is written to it, every
\* record that was owed to it and whose record_change returned before b's began
\* was written to it earlier.  A reader that falls behind loses the end of its
\* stream, never a record in the middle.
NoHoles ==
  \A s \in Streams : \A i \in 1..Len(got[s]) :
    \A n \in before[got[s][i].seq] :
      s \in owed[n] => n \in Seqs(SubSeq(got[s], 1, i - 1))

\* A client that resumes from the largest timestamp it was given is never given
\* a record twice, whatever the clock does.
SeenOnce ==
  \A p \in Pollers : \A i, j \in 1..Len(seen[p]) : seen[p][i].seq = seen[p][j].seq => i = j

\* A poller passes over a record only if the log has dropped it, or if an
\* earlier record of the log has the same or a later timestamp.
GapHasCause ==
  \A p \in Pollers : \A i \in 1..Len(published) :
    LET r == published[i]
    IN  r.ts <= since[p] /\ r.seq \notin Seqs(seen[p])
          => \/ r.seq \notin Seqs(changes)
             \/ \E j \in 1..(i - 1) : published[j].ts >= r.ts

\* The readers of a table's changes are served faithfully: a push stream lacks
\* neither the newest records nor one in the middle, and a poller is given nothing
\* twice and misses nothing without such a cause.
FeedFaithful == StreamComplete /\ NoHoles /\ SeenOnce /\ GapHasCause

\* A stream that was evicted ends, and so tells its client to subscribe again:
\* no sender of its channel survives the record_change calls under way.
EvictedEnds ==
  \A s \in Streams : (phase[s] = "streaming" /\ s \notin push_hub) ~> phase[s] = "gone"
=============================================================================
