-------------------------- MODULE Background_proofs ---------------------------
(***************************************************************************)
(* What runs beside the server's requests: the change feed, background jobs *)
(* and replication.                                                        *)
(***************************************************************************)
EXTENDS ChangeFeed, Jobs, Cluster,
        FiniteSetTheorems, SequenceTheorems, WellFoundedInduction, TLAPS

(* A set that holds 0, and n + 1 with n, holds all numbers up to N: what   *)
(* the inductions below rest on.                                           *)
LEMMA UpTo ==
    ASSUME NEW N \in Nat, NEW S, 0 \in S, \A n \in 0 .. N - 1 : n \in S => n + 1 \in S
    PROVE  0 .. N \subseteq S
<1> DEFINE T == {n \in 0 .. N : n \notin S}
<1> SUFFICES ASSUME T # {} PROVE FALSE
  OBVIOUS
<1>1. T \subseteq Nat
  OBVIOUS
<1>2. PICK m \in T : \A k \in T : ~(<<k, m>> \in OpToRel(<, Nat))
  <2> HIDE DEF T
  <2> QED BY <1>1, NatLessThanWellFounded, WFMin
<1>3. \A k \in T : ~(k < m)
  BY <1>1, <1>2 DEF OpToRel
<1>4. m \in 0 .. N /\ m \notin S /\ m # 0
  OBVIOUS
<1>5. m - 1 \in 0 .. N - 1 /\ m - 1 < m /\ (m - 1) + 1 = m
  BY <1>4
<1>6. m - 1 \in S
  BY <1>3, <1>5
<1> QED BY <1>4, <1>5, <1>6

-----------------------------------------------------------------------------
(***************************************************************************)
(* The change feed: what push streams are given is complete and without    *)
(* holes, and pollers are given nothing twice and miss nothing without a   *)
(* cause, for any numbers of writers, streams and pollers, any depth of the *)
(* channels, any length of the change log and any page size.               *)
(***************************************************************************)

(* Sequences of records.                                                   *)

(* The numbers in a sequence of records, place by place.                   *)
LEMMA SeqsMember ==
  ASSUME NEW q, NEW n
  PROVE  n \in Seqs(q) <=> \E i \in 1..Len(q) : q[i].seq = n
  BY DEF Seqs

(* The numbers in a part of a sequence that begins where it begins.        *)
LEMMA SeqsPrefix ==
  ASSUME NEW R, NEW q \in Seq(R), NEW n, NEW k \in 0..Len(q)
  PROVE  n \in Seqs(SubSeq(q, 1, k)) <=> \E i \in 1..k : q[i].seq = n
  <1>1. /\ Len(SubSeq(q, 1, k)) = k
        /\ \A i \in 1..k : SubSeq(q, 1, k)[i] = q[i]
    OBVIOUS
  <1> QED BY <1>1 DEF Seqs

(* Appending a record adds its number.                                     *)
LEMMA SeqsAppend ==
  ASSUME NEW R, NEW q \in Seq(R), NEW r \in R
  PROVE  Seqs(Append(q, r)) = Seqs(q) \union {r.seq}
  <1>1. /\ Len(Append(q, r)) = Len(q) + 1
        /\ \A i \in 1..Len(q) : Append(q, r)[i] = q[i]
        /\ Append(q, r)[Len(q) + 1] = r
    OBVIOUS
  <1>2. 1..(Len(q) + 1) = 1..Len(q) \union {Len(q) + 1}
    <2>1. Len(q) \in Nat
      OBVIOUS
    <2> QED BY <2>1
  <1> QED BY <1>1, <1>2 DEF Seqs

(* Taking the first record away leaves the numbers of the others.          *)
LEMMA SeqsTail ==
  ASSUME NEW R, NEW q \in Seq(R), q # <<>>
  PROVE  Seqs(q) = {Head(q).seq} \union Seqs(Tail(q))
  <1>1. /\ Len(q) \in Nat \ {0}
        /\ Len(Tail(q)) = Len(q) - 1
        /\ \A i \in 1..(Len(q) - 1) : Tail(q)[i] = q[i + 1]
        /\ Head(q) = q[1]
    OBVIOUS
  <1>2. ASSUME NEW n
        PROVE  n \in Seqs(q) <=> n = Head(q).seq \/ n \in Seqs(Tail(q))
    <2>1. ASSUME NEW i \in 1..Len(q), q[i].seq = n
          PROVE  n = Head(q).seq \/ n \in Seqs(Tail(q))
      <3>1. CASE i = 1
        BY <2>1, <3>1, <1>1
      <3>2. CASE i # 1
        <4>1. i - 1 \in 1..(Len(q) - 1) /\ (i - 1) + 1 = i
          BY <3>2, <1>1
        <4>2. Tail(q)[i - 1] = q[i]
          BY <4>1, <1>1
        <4> QED BY <2>1, <4>1, <4>2, <1>1 DEF Seqs
      <3> QED BY <3>1, <3>2
    <2>2. ASSUME NEW i \in 1..(Len(q) - 1), Tail(q)[i].seq = n
          PROVE  n \in Seqs(q)
      <3>1. i + 1 \in 1..Len(q) /\ q[i + 1].seq = n
        BY <2>2, <1>1
      <3> QED BY <3>1 DEF Seqs
    <2>3. Head(q).seq \in Seqs(q)
      BY <1>1 DEF Seqs
    <2> QED BY <2>1, <2>2, <2>3, <1>1 DEF Seqs
  <1> QED BY <1>2

(* Nothing is in an empty sequence.                                        *)
LEMMA SeqsEmpty == Seqs(<<>>) = {}
  BY DEF Seqs

----------------------------------------------------------------------------
(* Types, and how far writers and streams are.                             *)

Unjoined == {"new", "arming", "armed"}
Running  == {"joined", "streaming"}
Sending  == {"send", "evict"}
Fresh    == {"find", "list", "push", "orphan"}

WriterPcs == {"idle", "find", "list", "push", "orphan", "targets", "send", "evict"}
Phases    == {"new", "arming", "armed", "joined", "streaming", "leaving", "gone"}

PushType ==
  /\ push_hub \in SUBSET Streams
  /\ writer_pc \in [Writers -> WriterPcs]
  /\ rec \in [Writers -> Recs]
  /\ targets \in [Writers -> SUBSET Streams]
  /\ tried \in [Writers -> SUBSET Streams]
  /\ dead \in [Writers -> SUBSET Streams]
  /\ phase \in [Streams -> Phases]
  /\ chan \in [Streams -> Seq(Recs)]
  /\ got \in [Streams -> Seq(Recs)]

PollType ==
  /\ changes \in Seq(Recs)
  /\ published \in Seq(Recs)
  /\ since \in [Pollers -> 0..MaxTs[clients]]
  /\ seen \in [Pollers -> Seq(Recs)]

PlainType ==
  /\ changes_used \in BOOLEAN /\ push_used \in BOOLEAN /\ listed \in BOOLEAN
  /\ change_seq \in Nat
  /\ clients \in Mixes

\* The records of a number are those of one call of record_change, and a
\* record counts as made from the moment it has its number.
NumberInv ==
  /\ DOMAIN owed = DOMAIN before
  /\ finished \subseteq DOMAIN owed
  /\ \A n \in DOMAIN owed : n \in Nat /\ n < change_seq /\ before[n] \subseteq finished
  /\ \A w \in Writers : writer_pc[w] # "idle" =>
       rec[w].seq \in DOMAIN owed /\ rec[w].seq \notin finished /\ rec[w].ts >= 1
  /\ \A w, v \in Writers :
       writer_pc[w] # "idle" /\ writer_pc[v] # "idle" /\ rec[w].seq = rec[v].seq => w = v

\* A stream that has not joined is nowhere in the hub's part of the state, and
\* the flag is set before anyone joins.
HubInv ==
  /\ \A s \in Streams : phase[s] \notin {"new", "arming"} => push_used
  /\ \A s \in Streams : phase[s] \in Unjoined =>
       /\ s \notin push_hub
       /\ \A n \in DOMAIN owed : s \notin owed[n]
       /\ \A w \in Writers : s \notin targets[w]
  /\ \A w \in Writers : dead[w] \subseteq tried[w] /\ tried[w] \subseteq targets[w]
  /\ \A w \in Writers : writer_pc[w] \notin Sending => targets[w] = {}
  /\ \A w \in Writers : writer_pc[w] = "evict" => tried[w] = targets[w]

BaseInv == PlainType /\ PushType /\ NumberInv /\ HubInv

LEMMA BaseInit == FeedInit => BaseInv
  <1> SUFFICES ASSUME FeedInit PROVE BaseInv
    OBVIOUS
  <1>1. clients \in Mixes /\ MaxTs[clients] \in Nat
    BY FeedAssumption DEF FeedInit
  <1>2. PlainType
    BY <1>1 DEF FeedInit, PlainType
  <1>3. NoRec \in Recs
    BY <1>1 DEF NoRec, Recs
  <1>4. PushType
    BY <1>3 DEF FeedInit, PushType, WriterPcs, Phases
  <1>5. NumberInv
    BY DEF FeedInit, NumberInv
  <1>6. HubInv
    BY DEF FeedInit, HubInv
  <1> QED BY <1>2, <1>4, <1>5, <1>6 DEF BaseInv

(* Every step leaves the clients, and so the set of records, as they are.  *)
LEMMA SameRecs ==
  ASSUME UNCHANGED clients
  PROVE  Recs' = Recs /\ MaxTs[clients]' = MaxTs[clients]
  BY DEF Recs

(* Writers: a new number, and the steps up to the first send.              *)
LEMMA BaseBegin ==
  ASSUME BaseInv, UNCHANGED clients, NEW w \in Writers, Begin(w)
  PROVE  BaseInv'
  <1>0. /\ PlainType /\ PushType /\ NumberInv /\ HubInv
        /\ Recs' = Recs
    BY SameRecs DEF BaseInv
  <1> USE DEF flags, log, writer, stream, poller, history
  <1>1. PICK ts \in 1..MaxTs[clients] : rec' = [rec EXCEPT ![w] = [seq |-> change_seq, ts |-> ts]]
    BY DEF Begin
  <1>2. change_seq \in Nat /\ clients \in Mixes /\ MaxTs[clients] \in Nat
    BY <1>0, FeedAssumption DEF PlainType
  <1>3. [seq |-> change_seq, ts |-> ts] \in Recs
    BY <1>2 DEF Recs
  <1>4. PlainType'
    BY <1>0, <1>2 DEF PlainType, Begin
  <1>5. PushType'
    BY <1>0, <1>1, <1>3 DEF PushType, Begin, Goto, WriterPcs
  <1>6. /\ DOMAIN owed' = DOMAIN owed \union {change_seq}
        /\ DOMAIN before' = DOMAIN owed'
        /\ \A n \in DOMAIN owed : owed'[n] = owed[n] /\ before'[n] = before[n] /\ n # change_seq
        /\ owed'[change_seq] = push_hub /\ before'[change_seq] = finished
        /\ finished' = finished
    BY <1>0 DEF Begin, NumberInv
  <1>7. NumberInv'
    <2>1. /\ DOMAIN owed' = DOMAIN before' /\ finished' \subseteq DOMAIN owed'
      BY <1>6, <1>0 DEF NumberInv
    <2>2. \A n \in DOMAIN owed' : n \in Nat /\ n < change_seq' /\ before'[n] \subseteq finished'
      BY <1>6, <1>0, <1>2 DEF NumberInv, Begin
    <2>3. /\ rec'[w].seq = change_seq /\ rec'[w].ts >= 1
          /\ \A v \in Writers : v # w => rec'[v] = rec[v] /\ writer_pc'[v] = writer_pc[v]
          /\ writer_pc[w] = "idle"
      BY <1>0, <1>1 DEF PushType, Begin, Goto
    <2>4. change_seq \notin DOMAIN owed /\ change_seq \notin finished
      BY <1>0, <1>6 DEF NumberInv
    <2>5. \A v \in Writers : writer_pc'[v] # "idle" =>
            rec'[v].seq \in DOMAIN owed' /\ rec'[v].seq \notin finished' /\ rec'[v].ts >= 1
      BY <2>3, <2>4, <1>6, <1>0 DEF NumberInv
    <2>6. \A u, v \in Writers :
            writer_pc'[u] # "idle" /\ writer_pc'[v] # "idle" /\ rec'[u].seq = rec'[v].seq => u = v
      BY <2>3, <2>4, <1>6, <1>0 DEF NumberInv
    <2> QED BY <2>1, <2>2, <2>5, <2>6 DEF NumberInv
  <1>8. HubInv'
    <2>1. UNCHANGED <<phase, push_used, push_hub, targets, tried, dead>>
      BY DEF Begin
    <2>2. /\ writer_pc[w] = "idle" /\ writer_pc'[w] = "find"
          /\ \A v \in Writers : v # w => writer_pc'[v] = writer_pc[v]
      BY <1>0 DEF PushType, Begin, Goto
    <2>3. \A s \in Streams : phase[s] \in Unjoined =>
            \A n \in DOMAIN owed' : s \notin owed'[n]
      BY <1>6, <1>0 DEF HubInv
    <2> QED BY <2>1, <2>2, <2>3, <1>0 DEF HubInv, Sending
  <1> QED BY <1>4, <1>5, <1>7, <1>8 DEF BaseInv

LEMMA BaseBeforeSend ==
  ASSUME BaseInv, UNCHANGED clients, NEW w \in Writers,
         FindQueue(w) \/ ListQueue(w) \/ PushQueue(w)
  PROVE  BaseInv'
  <1>0. /\ PlainType /\ PushType /\ NumberInv /\ HubInv
        /\ Recs' = Recs
    BY SameRecs DEF BaseInv
  <1> USE DEF flags, log, writer, stream, poller, history
  <1>1. PlainType'
    BY <1>0 DEF PlainType, FindQueue, ListQueue, PushQueue
  <1>2. PushType'
    BY <1>0 DEF PushType, FindQueue, ListQueue, PushQueue, Goto, WriterPcs
  <1>3. /\ UNCHANGED <<change_seq, push_used, push_hub, rec, targets, tried, dead, stream, history>>
        /\ writer_pc[w] \notin Sending /\ writer_pc'[w] \notin Sending
        /\ writer_pc[w] # "idle" /\ writer_pc'[w] # "idle"
        /\ \A v \in Writers : v # w => writer_pc'[v] = writer_pc[v]
    BY <1>0 DEF FindQueue, ListQueue, PushQueue, Goto, PushType, Sending
  <1>4. NumberInv'
    BY <1>3, <1>0 DEF NumberInv
  <1>5. HubInv'
    BY <1>3, <1>0 DEF HubInv, Sending
  <1> QED BY <1>1, <1>2, <1>4, <1>5 DEF BaseInv

(* Returning finishes the writer's own number and no other's.              *)
LEMMA NumberReturn ==
  ASSUME BaseInv, NEW w \in Writers, writer_pc[w] # "idle", Return(w), UNCHANGED change_seq
  PROVE  NumberInv'
  <1>0. PushType /\ NumberInv
    BY DEF BaseInv
  <1>1. /\ finished' = finished \union {rec[w].seq} /\ UNCHANGED <<owed, before>>
        /\ writer_pc'[w] = "idle"
        /\ \A v \in Writers : v # w => rec'[v] = rec[v] /\ writer_pc'[v] = writer_pc[v]
    BY <1>0 DEF Return, Goto, PushType
  <1> QED BY <1>0, <1>1 DEF NumberInv

LEMMA BaseCloneTargets ==
  ASSUME BaseInv, UNCHANGED clients, NEW w \in Writers, CloneTargets(w)
  PROVE  BaseInv'
  <1>0. /\ PlainType /\ PushType /\ NumberInv /\ HubInv
        /\ Recs' = Recs /\ MaxTs[clients] \in Nat
    BY SameRecs, FeedAssumption DEF BaseInv, PlainType
  <1> USE DEF flags, log, writer, stream, poller, history
  <1> DEFINE t == IF push_used THEN push_hub ELSE {}
  <1>1. /\ writer_pc[w] = "targets"
        /\ targets' = [targets EXCEPT ![w] = t]
        /\ t \subseteq push_hub
        /\ \/ t = {} /\ Return(w)
           \/ t # {} /\ Goto(w, "send") /\ UNCHANGED <<rec, history>>
        /\ UNCHANGED <<flags, change_seq, log, push_hub, tried, dead, stream, poller>>
    BY DEF CloneTargets
  <1> HIDE DEF t
  <1>2. NoRec \in Recs
    BY <1>0 DEF NoRec, Recs
  <1>3. PlainType'
    BY <1>0, <1>1 DEF PlainType
  <1>4. PushType'
    BY <1>0, <1>1, <1>2 DEF PushType, Return, Goto, WriterPcs
  <1>5. NumberInv'
    <2>1. CASE Return(w)
      BY <2>1, <1>1, NumberReturn
    <2>2. CASE Goto(w, "send") /\ UNCHANGED <<rec, history>>
      <3>1. /\ UNCHANGED <<rec, owed, before, finished, change_seq>>
            /\ writer_pc[w] # "idle"
            /\ \A v \in Writers : v # w => writer_pc'[v] = writer_pc[v]
        BY <2>2, <1>1, <1>0 DEF Goto, PushType
      <3> QED BY <3>1, <1>0 DEF NumberInv
    <2> QED BY <2>1, <2>2, <1>1
  <1>6. HubInv'
    <2>0. /\ \A v \in Writers : v # w => targets'[v] = targets[v]
          /\ targets'[w] = t
      BY <1>0, <1>1 DEF PushType
    <2>a. \A v \in Writers : v # w => writer_pc'[v] = writer_pc[v]
      BY <1>0, <1>1 DEF Return, Goto, PushType
    <2>b. \/ t = {} /\ writer_pc'[w] = "idle"
          \/ writer_pc'[w] = "send"
      BY <1>0, <1>1 DEF Return, Goto, PushType
    <2>c. targets[w] = {} /\ UNCHANGED <<owed, phase, push_used, push_hub, tried, dead>>
      BY <1>0, <1>1 DEF Return, HubInv, Sending
    <2>1. /\ \A v \in Writers : v # w => targets'[v] = targets[v] /\ writer_pc'[v] = writer_pc[v]
          /\ targets'[w] = t
          /\ targets[w] = {}
          /\ \/ t = {} /\ writer_pc'[w] = "idle"
             \/ writer_pc'[w] = "send"
          /\ UNCHANGED <<owed, phase, push_used, push_hub, tried, dead>>
      BY <2>0, <2>a, <2>b, <2>c
    <2>2. tried[w] = {} /\ dead[w] = {}
      BY <2>1, <1>0 DEF HubInv
    <2>3. \A s \in Streams : phase[s] \in Unjoined => \A v \in Writers : s \notin targets'[v]
      BY <2>1, <1>0, <1>1 DEF HubInv
    <2> QED BY <2>1, <2>2, <2>3, <1>0 DEF HubInv, Sending
  <1> QED BY <1>3, <1>4, <1>5, <1>6 DEF BaseInv

LEMMA BaseTrySend ==
  ASSUME BaseInv, UNCHANGED clients, NEW w \in Writers, TrySend(w)
  PROVE  BaseInv'
  <1>0. /\ PlainType /\ PushType /\ NumberInv /\ HubInv
        /\ Recs' = Recs
    BY SameRecs DEF BaseInv
  <1> USE DEF flags, log, writer, stream, poller, history
  <1>1. PICK s \in targets[w] \ tried[w] :
          /\ tried' = [tried EXCEPT ![w] = @ \union {s}]
          /\ \/ chan' = [chan EXCEPT ![s] = Append(@, rec[w])] /\ UNCHANGED dead
             \/ dead' = [dead EXCEPT ![w] = @ \union {s}] /\ UNCHANGED chan
    BY DEF TrySend
  <1>2. s \in Streams
    BY <1>0, <1>1 DEF PushType
  <1>3. PlainType'
    BY <1>0 DEF PlainType, TrySend
  <1>4. writer_pc' = [writer_pc EXCEPT ![w] = IF tried'[w] = targets[w] THEN "evict" ELSE "send"]
    BY DEF TrySend, Goto
  <1>5. PushType'
    <2>0. Append(chan[s], rec[w]) \in Seq(Recs)
      BY <1>0, <1>2 DEF PushType
    <2>1. chan' \in [Streams -> Seq(Recs)]
      <3>1. chan \in [Streams -> Seq(Recs)]
        BY <1>0 DEF PushType
      <3> QED BY <3>1, <2>0, <1>1, <1>2
    <2>2. tried' \in [Writers -> SUBSET Streams] /\ dead' \in [Writers -> SUBSET Streams]
      <3>1. tried \in [Writers -> SUBSET Streams] /\ dead \in [Writers -> SUBSET Streams]
        BY <1>0 DEF PushType
      <3>2. tried[w] \union {s} \in SUBSET Streams /\ dead[w] \union {s} \in SUBSET Streams
        BY <3>1, <1>2
      <3>3. tried' \in [Writers -> SUBSET Streams]
        BY <3>1, <3>2, <1>1
      <3>4. dead' \in [Writers -> SUBSET Streams]
        BY <3>1, <3>2, <1>1
      <3> QED BY <3>3, <3>4
    <2>3. writer_pc' \in [Writers -> WriterPcs]
      BY <1>0, <1>4 DEF PushType, WriterPcs
    <2> QED BY <2>1, <2>2, <2>3, <1>0 DEF PushType, TrySend
  <1>6. /\ UNCHANGED <<push_used, change_seq, push_hub, rec, targets, phase, history>>
        /\ writer_pc[w] = "send" /\ writer_pc'[w] \in Sending
        /\ writer_pc'[w] = "evict" => tried'[w] = targets[w]
        /\ \A v \in Writers : v # w => writer_pc'[v] = writer_pc[v]
    BY <1>0, <1>4 DEF TrySend, PushType, Sending
  <1>7. NumberInv'
    BY <1>6, <1>0 DEF NumberInv, Sending
  <1>8. \A v \in Writers :
          /\ v # w => tried'[v] = tried[v] /\ dead'[v] = dead[v]
          /\ dead'[v] \subseteq tried'[v] /\ tried'[v] \subseteq targets[v]
    BY <1>0, <1>1 DEF PushType, HubInv
  <1>9. HubInv'
    BY <1>6, <1>8, <1>0 DEF HubInv, Sending
  <1> QED BY <1>3, <1>5, <1>7, <1>9 DEF BaseInv

LEMMA BaseEvict ==
  ASSUME BaseInv, UNCHANGED clients, NEW w \in Writers, Evict(w)
  PROVE  BaseInv'
  <1>0. /\ PlainType /\ PushType /\ NumberInv /\ HubInv
        /\ Recs' = Recs /\ MaxTs[clients] \in Nat
    BY SameRecs, FeedAssumption DEF BaseInv, PlainType
  <1> USE DEF flags, log, writer, stream, poller, history
  <1>2. NoRec \in Recs
    BY <1>0 DEF NoRec, Recs
  <1>3. PlainType'
    BY <1>0 DEF PlainType, Evict
  <1>4. PushType'
    BY <1>0, <1>2 DEF PushType, Evict, Return, Released, Goto, WriterPcs
  <1>5. NumberInv'
    BY NumberReturn DEF Evict
  <1>6. /\ \A v \in Writers : v # w =>
             /\ targets'[v] = targets[v] /\ tried'[v] = tried[v] /\ dead'[v] = dead[v]
             /\ writer_pc'[v] = writer_pc[v]
        /\ targets'[w] = {} /\ tried'[w] = {} /\ dead'[w] = {} /\ writer_pc'[w] = "idle"
        /\ push_hub' \subseteq push_hub
        /\ UNCHANGED <<owed, phase, push_used>>
    BY <1>0 DEF Evict, Return, Released, Goto, PushType
  <1>7. HubInv'
    BY <1>6, <1>0 DEF HubInv, Sending
  <1> QED BY <1>3, <1>4, <1>5, <1>7 DEF BaseInv

(* Streams: a step leaves the writers alone, and only Join enters the hub. *)
LEMMA BaseSubscribe ==
  ASSUME BaseInv, UNCHANGED clients, NEW s \in Streams, SubscribeStep(s)
  PROVE  BaseInv'
  <1>0. /\ PlainType /\ PushType /\ NumberInv /\ HubInv
        /\ Recs' = Recs
    BY SameRecs DEF BaseInv
  <1> USE DEF flags, log, writer, stream, poller, history
  <1>1. PlainType'
    <2>1. change_seq' = change_seq \/ change_seq' = change_seq + 1
      BY DEF SubscribeStep, ArmChanges, ArmPush, Join, Ack, AckFails
    <2>2. change_seq' \in Nat
      BY <1>0, <2>1 DEF PlainType
    <2>3. /\ changes_used' = changes_used \/ changes_used' = TRUE
          /\ push_used' = push_used \/ push_used' = TRUE
          /\ listed' = listed
      BY DEF SubscribeStep, ArmChanges, ArmPush, Join, Ack, AckFails
    <2> QED BY <1>0, <2>2, <2>3 DEF PlainType
  <1>2. /\ UNCHANGED <<writer_pc, rec, targets, tried, dead, got, history>>
        /\ phase \in [Streams -> Phases] /\ chan \in [Streams -> Seq(Recs)]
        /\ push_hub \in SUBSET Streams
    BY <1>0 DEF PushType, SubscribeStep, ArmChanges, ArmPush, Join, Ack, AckFails
  <1>3. phase' \in [Streams -> Phases] /\ push_hub' \in SUBSET Streams
    BY <1>2 DEF SubscribeStep, ArmChanges, ArmPush, Join, Ack, AckFails, Step, Phases
  <1>4. chan' \in [Streams -> Seq(Recs)]
    <2>1. <<>> \in Seq(Recs)
      OBVIOUS
    <2>2. chan' = chan \/ chan' = [chan EXCEPT ![s] = <<>>]
      BY DEF SubscribeStep, ArmChanges, ArmPush, Join, Ack, AckFails
    <2> QED BY <1>2, <2>1, <2>2
  <1>5. PushType'
    BY <1>0, <1>2, <1>3, <1>4 DEF PushType
  <1>6. change_seq \in Nat /\ change_seq' \in Nat /\ change_seq <= change_seq'
    BY <1>0 DEF PlainType, SubscribeStep, ArmChanges, ArmPush, Join, Ack, AckFails
  <1>7. NumberInv'
    <2>1. \A n \in DOMAIN owed : n \in Nat /\ n < change_seq'
      BY <1>0, <1>6 DEF NumberInv
    <2> QED BY <1>0, <1>2, <2>1 DEF NumberInv
  <1>8. HubInv'
    <2>1. /\ \A q \in Streams : q # s => phase'[q] = phase[q]
          /\ phase[s] \in {"new", "arming", "armed", "joined"}
      BY <1>2 DEF SubscribeStep, ArmChanges, ArmPush, Join, Ack, AckFails, Step
    <2>2. /\ phase'[s] \in Unjoined => phase[s] \in Unjoined /\ push_hub' = push_hub
          /\ push_hub' \subseteq push_hub \union {s}
          /\ push_hub' # push_hub => phase'[s] \notin Unjoined
          /\ push_used => push_used'
          /\ phase'[s] \notin {"new", "arming"} => push_used' \/ phase[s] \notin {"new", "arming"}
      BY <1>2 DEF SubscribeStep, ArmChanges, ArmPush, Join, Ack, AckFails, Step, Unjoined
    <2>3. \A q \in Streams : phase'[q] \notin {"new", "arming"} => push_used'
      BY <2>1, <2>2, <1>0 DEF HubInv
    <2>4. \A q \in Streams : phase'[q] \in Unjoined =>
            /\ q \notin push_hub'
            /\ \A n \in DOMAIN owed : q \notin owed[n]
            /\ \A w \in Writers : q \notin targets[w]
      BY <2>1, <2>2, <1>0 DEF HubInv
    <2> QED BY <2>3, <2>4, <1>0, <1>2 DEF HubInv
  <1> QED BY <1>1, <1>5, <1>7, <1>8 DEF BaseInv

LEMMA BaseStream ==
  ASSUME BaseInv, UNCHANGED clients, NEW s \in Streams, StreamStep(s) \/ IdleTimeout(s)
  PROVE  BaseInv'
  <1>0. /\ PlainType /\ PushType /\ NumberInv /\ HubInv
        /\ Recs' = Recs
    BY SameRecs DEF BaseInv
  <1> USE DEF flags, log, writer, stream, poller, history
  <1>1. /\ UNCHANGED <<flags, change_seq, log, writer_pc, rec, targets, tried, dead, history>>
        /\ phase \in [Streams -> Phases] /\ chan \in [Streams -> Seq(Recs)]
        /\ got \in [Streams -> Seq(Recs)]
        /\ push_hub' \subseteq push_hub
    BY <1>0 DEF PushType, StreamStep, IdleTimeout, Receive, WriteFails, Closed, Unsubscribe
  <1>2. /\ phase' \in [Streams -> Phases]
        /\ \A q \in Streams : q # s => phase'[q] = phase[q]
        /\ phase[s] \notin Unjoined /\ phase'[s] \notin Unjoined
    BY <1>1 DEF StreamStep, IdleTimeout, Receive, WriteFails, Closed, Unsubscribe, Step, Phases,
                Unjoined
  <1>3. chan' \in [Streams -> Seq(Recs)] /\ got' \in [Streams -> Seq(Recs)]
    <2>1. \/ UNCHANGED <<chan, got>>
          \/ chan' = [chan EXCEPT ![s] = <<>>] /\ UNCHANGED got
          \/ /\ chan[s] # <<>> /\ chan' = [chan EXCEPT ![s] = Tail(@)]
             /\ UNCHANGED got \/ got' = [got EXCEPT ![s] = Append(@, Head(chan[s]))]
      BY DEF StreamStep, IdleTimeout, Receive, WriteFails, Closed, Unsubscribe
    <2>2. /\ <<>> \in Seq(Recs)
          /\ chan[s] # <<>> => /\ Tail(chan[s]) \in Seq(Recs)
                               /\ Append(got[s], Head(chan[s])) \in Seq(Recs)
      BY <1>1
    <2> QED BY <1>1, <2>1, <2>2
  <1>4. PlainType' /\ PushType'
    BY <1>0, <1>1, <1>2, <1>3 DEF PushType, PlainType
  <1>5. NumberInv'
    BY <1>0, <1>1 DEF NumberInv
  <1>6. HubInv'
    <2>1. \A q \in Streams : phase'[q] \in Unjoined => phase[q] \in Unjoined
      BY <1>2
    <2>2. \A q \in Streams : phase'[q] \notin {"new", "arming"} => push_used
      BY <1>0, <1>2 DEF HubInv, Unjoined
    <2> QED BY <1>0, <1>1, <2>1, <2>2 DEF HubInv
  <1> QED BY <1>4, <1>5, <1>6 DEF BaseInv

LEMMA BaseStep ==
  ASSUME BaseInv, [FeedNext]_feed_vars
  PROVE  BaseInv'
  <1> USE DEF flags, log, writer, stream, poller, history, feed_vars
  <1>1. ASSUME UNCHANGED <<push_used, change_seq, listed, push_hub, writer, stream, history, clients>>,
               changes_used' \in BOOLEAN
        PROVE  BaseInv'
    <2>1. Recs' = Recs
      BY <1>1, SameRecs
    <2>2. PlainType' /\ PushType'
      BY <1>1, <2>1 DEF BaseInv, PlainType, PushType
    <2>3. NumberInv' /\ HubInv'
      BY <1>1 DEF BaseInv, NumberInv, HubInv
    <2> QED BY <2>2, <2>3 DEF BaseInv
  <1>2. CASE UNCHANGED feed_vars
    BY <1>1, <1>2 DEF BaseInv, PlainType
  <1>3. CASE FeedNext
    <2>1. UNCHANGED clients
      BY <1>3 DEF FeedNext
    <2>2. CASE RecordsDone
      BY <1>1, <2>2 DEF RecordsDone, BaseInv, PlainType
    <2>3. CASE \E w \in Writers : Begin(w) \/ RecordStep(w)
      BY <2>1, <2>3, BaseBegin, BaseBeforeSend, BaseCloneTargets, BaseTrySend, BaseEvict
      DEF RecordStep
    <2>4. CASE \E s \in Streams \intersect clients : SubscribeStep(s) \/ StreamStep(s) \/ IdleTimeout(s)
      BY <2>1, <2>4, BaseSubscribe, BaseStream
    <2>5. CASE \E p \in Pollers \intersect clients : Subscribe(p) \/ sse_stream(p)
      BY <2>1, <2>5, <1>1 DEF Subscribe, sse_stream
    <2> QED BY <1>3, <2>2, <2>3, <2>4, <2>5 DEF FeedNext
  <1> QED BY <1>2, <1>3

----------------------------------------------------------------------------
(* Push streams.                                                           *)

Reached(s) == Seqs(got[s]) \union Seqs(chan[s])

\* Only numbers that were given out are in a stream.
KnownRecs == \A s \in Streams : Reached(s) \subseteq DOMAIN owed

\* While a writer sends, it holds a sender of every stream it owes the record
\* to that is still in the hub.
OwedAreTargets ==
  \A w \in Writers : writer_pc[w] \in Sending =>
    \A s \in push_hub : s \in owed[rec[w].seq] => s \in targets[w]

\* A sender that was tried and not refused has the record on its way.
TriedReached ==
  \A w \in Writers : \A s \in tried[w] :
    s \notin dead[w] /\ phase[s] \in Running => rec[w].seq \in Reached(s)

\* A stream that a writer is about to send to has every earlier record it is
\* owed: this is what keeps holes out of its channel.
TargetsCaughtUp ==
  \A w \in Writers : \A s \in targets[w] : phase[s] \in Running =>
    \A m \in before[rec[w].seq] : s \in owed[m] => m \in Reached(s)

\* NoHoles, carried on from what was written to what waits in the channel.
ChanNoHoles ==
  \A s \in Streams : phase[s] \in Running =>
    \A i \in 1..Len(chan[s]) : \A m \in before[chan[s][i].seq] :
      s \in owed[m] => m \in Seqs(got[s]) \/ \E j \in 1..(i - 1) : chan[s][j].seq = m

GotNoHoles ==
  \A s \in Streams : \A i \in 1..Len(got[s]) : \A m \in before[got[s][i].seq] :
    s \in owed[m] => \E j \in 1..(i - 1) : got[s][j].seq = m

PushInv ==
  /\ KnownRecs /\ OwedAreTargets /\ TriedReached /\ TargetsCaughtUp
  /\ StreamComplete /\ ChanNoHoles /\ GotNoHoles

LEMMA GotIsNoHoles ==
  ASSUME PushType, GotNoHoles
  PROVE  NoHoles
  <1> SUFFICES ASSUME NEW s \in Streams, NEW i \in 1..Len(got[s]),
                      NEW m \in before[got[s][i].seq], s \in owed[m]
               PROVE  m \in Seqs(SubSeq(got[s], 1, i - 1))
    BY DEF NoHoles
  <1>1. got[s] \in Seq(Recs) /\ i - 1 \in 0..Len(got[s])
    BY DEF PushType
  <1>2. \E j \in 1..(i - 1) : got[s][j].seq = m
    BY DEF GotNoHoles
  <1> QED BY <1>1, <1>2, SeqsPrefix

LEMMA PushInit == FeedInit => PushInv
  <1> SUFFICES ASSUME FeedInit PROVE PushInv
    OBVIOUS
  <1>1. \A s \in Streams : Reached(s) = {}
    BY SeqsEmpty DEF FeedInit, Reached
  <1>2. /\ \A w \in Writers : targets[w] = {} /\ tried[w] = {} /\ writer_pc[w] = "idle"
        /\ finished = {} /\ push_hub = {}
        /\ \A s \in Streams : Len(got[s]) = 0 /\ Len(chan[s]) = 0
    BY DEF FeedInit
  <1> QED BY <1>1, <1>2 DEF PushInv, KnownRecs, OwedAreTargets, TriedReached, TargetsCaughtUp,
                            StreamComplete, ChanNoHoles, GotNoHoles, Sending

(* Steps that deliver nothing and start no sending.                        *)
LEMMA PushQuiet ==
  ASSUME BaseInv, PushInv,
         UNCHANGED <<targets, tried, dead, rec, got, owed, before, finished>>,
         push_hub' \subseteq push_hub,
         \A w \in Writers : writer_pc'[w] \in Sending => writer_pc[w] \in Sending,
         \A s \in Streams : phase'[s] \in Running => phase[s] \in Running /\ chan'[s] = chan[s],
         \A s \in Streams : Seqs(chan'[s]) \subseteq Seqs(chan[s])
  PROVE  PushInv'
  <1>0. /\ PushType /\ HubInv
        /\ \A w \in Writers : targets[w] \subseteq Streams /\ tried[w] \subseteq Streams
        /\ push_hub \subseteq Streams
    BY DEF BaseInv, PushType
  <1>1. \A s \in Streams : phase'[s] \in Running => Reached(s)' = Reached(s)
    BY DEF Reached
  <1>2. \A s \in Streams : Reached(s)' \subseteq Reached(s)
    BY DEF Reached
  <1>3. KnownRecs'
    BY <1>2 DEF PushInv, KnownRecs
  <1>4. OwedAreTargets'
    BY DEF PushInv, OwedAreTargets
  <1>5. TriedReached'
    BY <1>0, <1>1 DEF PushInv, TriedReached
  <1>6. TargetsCaughtUp'
    BY <1>0, <1>1 DEF PushInv, TargetsCaughtUp
  <1>7. StreamComplete'
    BY <1>0, <1>1 DEF PushInv, StreamComplete, Reached, Running
  <1>8. ChanNoHoles'
    BY DEF PushInv, ChanNoHoles
  <1>9. GotNoHoles'
    BY DEF PushInv, GotNoHoles
  <1> QED BY <1>3, <1>4, <1>5, <1>6, <1>7, <1>8, <1>9 DEF PushInv

(* A stream that joins is owed nothing yet.                                *)
LEMMA PushJoin ==
  ASSUME BaseInv, PushInv, NEW s \in Streams, Join(s)
  PROVE  PushInv'
  <1> USE DEF writer, history
  <1>0. /\ PushType /\ HubInv /\ NumberInv
        /\ \A w \in Writers : targets[w] \subseteq Streams /\ tried[w] \subseteq targets[w]
        /\ push_hub \subseteq Streams
    BY DEF BaseInv, PushType, HubInv
  <1>1. /\ UNCHANGED <<writer_pc, rec, targets, tried, dead, chan, got, owed, before, finished>>
        /\ push_hub' = push_hub \union {s}
        /\ \A q \in Streams : q # s => phase'[q] = phase[q]
        /\ \A n \in DOMAIN owed : s \notin owed[n]
        /\ \A w \in Writers : s \notin targets[w]
    BY <1>0 DEF Join, Step, PushType, HubInv, Unjoined
  <1>2. \A q \in Streams : Reached(q)' = Reached(q)
    BY <1>1 DEF Reached
  <1>3. KnownRecs' /\ GotNoHoles'
    BY <1>1, <1>2 DEF PushInv, KnownRecs, GotNoHoles
  <1>4. OwedAreTargets'
    BY <1>0, <1>1 DEF PushInv, OwedAreTargets, NumberInv, Sending
  <1>5. TriedReached' /\ TargetsCaughtUp'
    BY <1>0, <1>1, <1>2 DEF PushInv, TriedReached, TargetsCaughtUp
  <1>6. StreamComplete'
    BY <1>0, <1>1, <1>2 DEF PushInv, StreamComplete, NumberInv, Reached
  <1>7. ChanNoHoles'
    <2>1. \A i \in 1..Len(chan[s]) : \A m \in before[chan[s][i].seq] : s \notin owed[m]
      BY <1>0, <1>1 DEF PushInv, KnownRecs, Reached, Seqs, NumberInv
    <2> QED BY <1>1, <2>1 DEF PushInv, ChanNoHoles
  <1> QED BY <1>3, <1>4, <1>5, <1>6, <1>7 DEF PushInv

(* A new number owes its record to the streams of the hub.                 *)
LEMMA PushBegin ==
  ASSUME BaseInv, PushInv, NEW w \in Writers, Begin(w)
  PROVE  PushInv'
  <1> USE DEF stream
  <1>0. /\ PushType /\ HubInv /\ NumberInv
        /\ \A v \in Writers : targets[v] \subseteq Streams /\ tried[v] \subseteq targets[v]
        /\ push_hub \subseteq Streams
    BY DEF BaseInv, PushType, HubInv
  <1>1. /\ UNCHANGED <<push_hub, targets, tried, dead, phase, chan, got, finished>>
        /\ writer_pc[w] = "idle" /\ writer_pc'[w] = "find"
        /\ \A v \in Writers : v # w => writer_pc'[v] = writer_pc[v] /\ rec'[v] = rec[v]
    BY <1>0 DEF Begin, Goto, PushType
  <1>2. /\ DOMAIN owed \subseteq DOMAIN owed'
        /\ \A n \in DOMAIN owed : owed'[n] = owed[n] /\ before'[n] = before[n]
    BY <1>0 DEF Begin, NumberInv
  <1>3. /\ targets[w] = {} /\ tried[w] = {}
        /\ \A v \in Writers : targets[v] # {} => v # w /\ rec[v].seq \in DOMAIN owed
    BY <1>0, <1>1 DEF HubInv, NumberInv, Sending
  <1>4. \A q \in Streams : Reached(q)' = Reached(q)
    BY <1>1 DEF Reached
  <1>5. \A n \in DOMAIN owed : before[n] \subseteq DOMAIN owed
    BY <1>0 DEF NumberInv
  <1>6. KnownRecs'
    BY <1>2, <1>4 DEF PushInv, KnownRecs
  <1>7. OwedAreTargets'
    BY <1>0, <1>1, <1>2 DEF PushInv, OwedAreTargets, NumberInv, Sending
  <1>8. TriedReached'
    BY <1>0, <1>1, <1>3, <1>4 DEF PushInv, TriedReached
  <1>9. TargetsCaughtUp'
    BY <1>0, <1>1, <1>2, <1>3, <1>4, <1>5 DEF PushInv, TargetsCaughtUp
  <1>10. StreamComplete'
    BY <1>0, <1>1, <1>2 DEF PushInv, StreamComplete, NumberInv
  <1>11. \A s \in Streams : /\ \A i \in 1..Len(chan[s]) : chan[s][i].seq \in DOMAIN owed
                            /\ \A i \in 1..Len(got[s]) : got[s][i].seq \in DOMAIN owed
    BY DEF PushInv, KnownRecs, Reached, Seqs
  <1>12. ChanNoHoles' /\ GotNoHoles'
    BY <1>1, <1>2, <1>5, <1>11 DEF PushInv, ChanNoHoles, GotNoHoles
  <1> QED BY <1>6, <1>7, <1>8, <1>9, <1>10, <1>12 DEF PushInv

(* The senders are cloned: every stream of the hub has, by StreamComplete, *)
(* all it is owed of the records finished so far.                          *)
LEMMA PushCloneTargets ==
  ASSUME BaseInv, PushInv, NEW w \in Writers, CloneTargets(w)
  PROVE  PushInv'
  <1> USE DEF stream, history
  <1>0. /\ PushType /\ HubInv /\ NumberInv
        /\ \A v \in Writers : targets[v] \subseteq Streams /\ tried[v] \subseteq targets[v]
        /\ push_hub \subseteq Streams
    BY DEF BaseInv, PushType, HubInv
  <1>1. push_hub # {} => push_used
    BY <1>0 DEF HubInv, Unjoined
  <1>2. /\ UNCHANGED <<push_hub, tried, dead, phase, chan, got, owed, before>>
        /\ writer_pc[w] = "targets" /\ targets[w] = {} /\ tried[w] = {}
        /\ rec[w].seq \in DOMAIN owed
    BY <1>0 DEF CloneTargets, Return, HubInv, NumberInv, Sending
  <1>3. targets' = [targets EXCEPT ![w] = push_hub]
    BY <1>1 DEF CloneTargets
  <1>4. /\ targets'[w] = push_hub
        /\ \A v \in Writers : v # w => targets'[v] = targets[v]
    BY <1>0, <1>3 DEF PushType
  <1>5. \A q \in Streams : Reached(q)' = Reached(q)
    BY <1>2 DEF Reached
  <1>6. KnownRecs' /\ ChanNoHoles' /\ GotNoHoles'
    BY <1>2, <1>5 DEF PushInv, KnownRecs, ChanNoHoles, GotNoHoles
  <1>7. CASE push_hub = {}
    <2>1. Return(w)
      BY <1>7 DEF CloneTargets
    <2>2. /\ writer_pc'[w] = "idle"
          /\ \A v \in Writers : v # w => writer_pc'[v] = writer_pc[v] /\ rec'[v] = rec[v]
      BY <2>1, <1>0 DEF Return, Goto, PushType
    <2>3. OwedAreTargets' /\ StreamComplete'
      BY <1>2, <1>7 DEF OwedAreTargets, StreamComplete
    <2>4. TriedReached' /\ TargetsCaughtUp'
      BY <2>2, <1>0, <1>2, <1>4, <1>5, <1>7 DEF PushInv, TriedReached, TargetsCaughtUp
    <2> QED BY <1>6, <2>3, <2>4 DEF PushInv
  <1>8. CASE push_hub # {}
    <2>1. /\ UNCHANGED <<rec, finished>>
          /\ \A v \in Writers : v # w => writer_pc'[v] = writer_pc[v]
      BY <1>8, <1>1, <1>0 DEF CloneTargets, Goto, PushType
    <2>2. OwedAreTargets'
      BY <2>1, <1>2, <1>4 DEF PushInv, OwedAreTargets
    <2>3. StreamComplete'
      BY <2>1, <1>2 DEF PushInv, StreamComplete
    <2>4. TriedReached'
      BY <2>1, <1>0, <1>2, <1>5 DEF PushInv, TriedReached
    <2>5. \A s \in push_hub : phase[s] \in Running =>
            \A m \in before[rec[w].seq] : s \in owed[m] => m \in Reached(s)
      BY <1>0, <1>2 DEF PushInv, StreamComplete, NumberInv, Reached, Running
    <2>6. TargetsCaughtUp'
      BY <2>1, <2>5, <1>0, <1>2, <1>4, <1>5 DEF PushInv, TargetsCaughtUp
    <2> QED BY <1>6, <2>2, <2>3, <2>4, <2>6 DEF PushInv
  <1> QED BY <1>7, <1>8

(* One try_send.                                                           *)
LEMMA PushTrySend ==
  ASSUME BaseInv, PushInv, NEW w \in Writers, TrySend(w)
  PROVE  PushInv'
  <1> USE DEF history
  <1>0. /\ PushType /\ HubInv /\ NumberInv
        /\ \A v \in Writers : targets[v] \subseteq Streams /\ tried[v] \subseteq targets[v]
        /\ push_hub \subseteq Streams
        /\ rec[w] \in Recs
    BY DEF BaseInv, PushType, HubInv
  <1>1. PICK s \in targets[w] \ tried[w] :
          /\ tried' = [tried EXCEPT ![w] = @ \union {s}]
          /\ \/ chan' = [chan EXCEPT ![s] = Append(@, rec[w])] /\ UNCHANGED dead
             \/ dead' = [dead EXCEPT ![w] = @ \union {s}] /\ UNCHANGED chan
    BY DEF TrySend
  <1>2. s \in Streams /\ chan[s] \in Seq(Recs) /\ got[s] \in Seq(Recs)
    BY <1>0, <1>1 DEF PushType
  <1>3. /\ UNCHANGED <<push_hub, rec, targets, phase, got, owed, before, finished>>
        /\ writer_pc[w] = "send" /\ rec[w].seq \in DOMAIN owed
        /\ \A v \in Writers : writer_pc'[v] \in Sending => writer_pc[v] \in Sending
    <2>1. /\ UNCHANGED <<push_hub, rec, targets, phase, got, owed, before, finished>>
          /\ writer_pc[w] = "send"
      BY DEF TrySend
    <2>2. rec[w].seq \in DOMAIN owed
      BY <2>1, <1>0 DEF NumberInv
    <2>3. \A v \in Writers : v # w => writer_pc'[v] = writer_pc[v]
      BY <1>0 DEF TrySend, Goto, PushType
    <2> QED BY <2>1, <2>2, <2>3 DEF Sending
  <1>4. \/ chan'[s] = Append(chan[s], rec[w])
        \/ chan' = chan /\ s \in dead'[w]
    BY <1>0, <1>1, <1>2 DEF PushType
  <1>5. \A q \in Streams : q # s => chan'[q] = chan[q]
    BY <1>0, <1>1 DEF PushType
  <1>6. /\ \/ Reached(s)' = Reached(s) \union {rec[w].seq}
           \/ Reached(s)' = Reached(s) /\ s \in dead'[w]
        /\ \A q \in Streams : q # s => Reached(q)' = Reached(q)
    <2>1. CASE chan'[s] = Append(chan[s], rec[w])
      <3>1. Seqs(chan'[s]) = Seqs(chan[s]) \union {rec[w].seq}
        BY <2>1, <1>0, <1>2, SeqsAppend
      <3>2. Reached(s)' = Reached(s) \union {rec[w].seq}
        BY <3>1, <1>3 DEF Reached
      <3>3. \A q \in Streams : q # s => Reached(q)' = Reached(q)
        BY <1>3, <1>5 DEF Reached
      <3> QED BY <3>2, <3>3
    <2>2. CASE chan' = chan /\ s \in dead'[w]
      BY <2>2, <1>3 DEF Reached
    <2> QED BY <2>1, <2>2, <1>4
  <1>7. \A q \in Streams : Reached(q) \subseteq Reached(q)'
    BY <1>6
  <1>8. KnownRecs'
    BY <1>6, <1>3, <1>2 DEF PushInv, KnownRecs
  <1>9. OwedAreTargets'
    BY <1>3 DEF PushInv, OwedAreTargets
  <1>10. TargetsCaughtUp'
    BY <1>0, <1>3, <1>7 DEF PushInv, TargetsCaughtUp
  <1>11. TriedReached'
    <2>1. /\ tried'[w] = tried[w] \union {s} /\ dead[w] \subseteq dead'[w]
          /\ \A v \in Writers : v # w => tried'[v] = tried[v] /\ dead'[v] = dead[v]
      BY <1>0, <1>1 DEF PushType
    <2>2. s \notin dead'[w] => rec[w].seq \in Reached(s)'
      BY <1>6
    <2> QED BY <2>1, <2>2, <1>0, <1>3, <1>7 DEF PushInv, TriedReached
  <1>12. StreamComplete'
    <2>1. \A q \in push_hub : \A n \in finished :
            q \in owed[n] /\ phase[q] \in {"joined", "streaming"} => n \in Reached(q)
      BY DEF PushInv, StreamComplete, Reached
    <2>2. \A q \in push_hub : \A n \in finished :
            q \in owed[n] /\ phase[q] \in {"joined", "streaming"} => n \in Reached(q)'
      BY <2>1, <1>7, <1>0
    <2> QED BY <2>2, <1>3 DEF StreamComplete, Reached
  <1>13. ChanNoHoles'
    <2>1. ASSUME NEW q \in Streams, phase[q] \in Running, NEW i \in 1..Len(chan'[q]),
                 NEW m \in before[chan'[q][i].seq], q \in owed[m]
          PROVE  m \in Seqs(got[q]) \/ \E j \in 1..(i - 1) : chan'[q][j].seq = m
      <3>1. CASE chan'[q] = chan[q]
        BY <2>1, <3>1 DEF PushInv, ChanNoHoles
      <3>2. CASE q = s /\ chan'[s] = Append(chan[s], rec[w])
        <4>1. /\ Len(chan'[s]) = Len(chan[s]) + 1 /\ Len(chan[s]) \in Nat
              /\ \A j \in 1..Len(chan[s]) : chan'[s][j] = chan[s][j]
              /\ chan'[s][Len(chan[s]) + 1] = rec[w]
          BY <3>2, <1>2, <1>0
        <4>2. CASE i \in 1..Len(chan[s])
          <5>1. m \in Seqs(got[s]) \/ \E j \in 1..(i - 1) : chan[s][j].seq = m
            BY <2>1, <3>2, <4>1, <4>2 DEF PushInv, ChanNoHoles
          <5>2. \A j \in 1..(i - 1) : j \in 1..Len(chan[s])
            BY <4>2, <4>1
          <5> QED BY <5>1, <5>2, <4>1, <3>2
        <4>3. CASE i = Len(chan[s]) + 1
          <5>1. m \in Reached(s)
            BY <2>1, <3>2, <4>1, <4>3, <1>1 DEF PushInv, TargetsCaughtUp
          <5>2. m \in Seqs(got[s]) \/ \E j \in 1..Len(chan[s]) : chan[s][j].seq = m
            BY <5>1 DEF Reached, Seqs
          <5>3. i - 1 = Len(chan[s])
            BY <4>3, <4>1
          <5> QED BY <5>2, <5>3, <4>1, <3>2
        <4>4. i \in 1..Len(chan[s]) \/ i = Len(chan[s]) + 1
          BY <2>1, <3>2, <4>1
        <4> QED BY <4>2, <4>3, <4>4
      <3> QED BY <3>1, <3>2, <1>4, <1>5
    <2> QED BY <2>1, <1>3 DEF ChanNoHoles
  <1>14. GotNoHoles'
    BY <1>3 DEF PushInv, GotNoHoles
  <1> QED BY <1>8, <1>9, <1>10, <1>11, <1>12, <1>13, <1>14 DEF PushInv

(* Evicting: whoever was refused leaves the hub before the record counts   *)
(* as finished.                                                            *)
LEMMA PushEvict ==
  ASSUME BaseInv, PushInv, NEW w \in Writers, Evict(w)
  PROVE  PushInv'
  <1> USE DEF stream
  <1>0. /\ PushType /\ HubInv /\ NumberInv
        /\ \A v \in Writers : targets[v] \subseteq Streams /\ tried[v] \subseteq targets[v]
        /\ push_hub \subseteq Streams
    BY DEF BaseInv, PushType, HubInv
  <1>1. /\ UNCHANGED <<phase, chan, got, owed, before>>
        /\ push_hub' = push_hub \ dead[w]
        /\ writer_pc[w] = "evict" /\ tried[w] = targets[w]
        /\ finished' = finished \union {rec[w].seq}
    BY <1>0 DEF Evict, Return, HubInv
  <1>2. /\ \A v \in Writers : v # w =>
             /\ targets'[v] = targets[v] /\ tried'[v] = tried[v] /\ dead'[v] = dead[v]
             /\ writer_pc'[v] = writer_pc[v] /\ rec'[v] = rec[v]
        /\ targets'[w] = {} /\ tried'[w] = {} /\ writer_pc'[w] = "idle"
    BY <1>0 DEF Evict, Return, Released, Goto, PushType
  <1>3. \A q \in Streams : Reached(q)' = Reached(q)
    BY <1>1 DEF Reached
  <1>4. KnownRecs' /\ ChanNoHoles' /\ GotNoHoles'
    BY <1>1, <1>3 DEF PushInv, KnownRecs, ChanNoHoles, GotNoHoles
  <1>5. OwedAreTargets'
    BY <1>1, <1>2 DEF PushInv, OwedAreTargets, Sending
  <1>6. TriedReached' /\ TargetsCaughtUp'
    BY <1>0, <1>1, <1>2, <1>3 DEF PushInv, TriedReached, TargetsCaughtUp
  <1>7. StreamComplete'
    <2>1. ASSUME NEW s \in push_hub, s \notin dead[w], s \in owed[rec[w].seq], phase[s] \in Running
          PROVE  rec[w].seq \in Reached(s)
      BY <2>1, <1>1 DEF PushInv, OwedAreTargets, TriedReached, Sending
    <2> QED BY <2>1, <1>1 DEF PushInv, StreamComplete, Reached, Running
  <1> QED BY <1>4, <1>5, <1>6, <1>7 DEF PushInv

(* A record goes from the channel to the peer.                             *)
LEMMA PushReceive ==
  ASSUME BaseInv, PushInv, NEW s \in Streams, Receive(s)
  PROVE  PushInv'
  <1> USE DEF writer, history
  <1>0. /\ PushType /\ HubInv /\ NumberInv
        /\ \A v \in Writers : targets[v] \subseteq Streams /\ tried[v] \subseteq targets[v]
        /\ push_hub \subseteq Streams
    BY DEF BaseInv, PushType, HubInv
  <1>1. /\ UNCHANGED <<push_hub, writer_pc, rec, targets, tried, dead, phase, owed, before, finished>>
        /\ chan[s] # <<>> /\ phase[s] \in Running
        /\ chan'[s] = Tail(chan[s]) /\ got'[s] = Append(got[s], Head(chan[s]))
        /\ \A q \in Streams : q # s => chan'[q] = chan[q] /\ got'[q] = got[q]
    BY <1>0 DEF Receive, PushType, Running
  <1>2. chan[s] \in Seq(Recs) /\ got[s] \in Seq(Recs) /\ Head(chan[s]) \in Recs
    BY <1>0, <1>1 DEF PushType
  <1>3. /\ Seqs(got'[s]) = Seqs(got[s]) \union {Head(chan[s]).seq}
        /\ Seqs(chan[s]) = {Head(chan[s]).seq} \union Seqs(chan'[s])
    BY <1>1, <1>2, SeqsAppend, SeqsTail
  <1>4. \A q \in Streams : Reached(q)' = Reached(q)
    BY <1>1, <1>3 DEF Reached
  <1>5. KnownRecs' /\ OwedAreTargets' /\ TriedReached' /\ TargetsCaughtUp'
    BY <1>0, <1>1, <1>4 DEF PushInv, KnownRecs, OwedAreTargets, TriedReached, TargetsCaughtUp
  <1>6. StreamComplete'
    BY <1>0, <1>1, <1>4 DEF PushInv, StreamComplete, Reached
  <1>7. /\ Len(chan[s]) \in Nat \ {0} /\ Len(chan'[s]) = Len(chan[s]) - 1
        /\ \A i \in 1..(Len(chan[s]) - 1) : chan'[s][i] = chan[s][i + 1]
        /\ Head(chan[s]) = chan[s][1]
    BY <1>1, <1>2
  <1>8. /\ Len(got[s]) \in Nat /\ Len(got'[s]) = Len(got[s]) + 1
        /\ \A i \in 1..Len(got[s]) : got'[s][i] = got[s][i]
        /\ got'[s][Len(got[s]) + 1] = Head(chan[s])
    BY <1>1, <1>2
  <1>9. ChanNoHoles'
    <2>1. ASSUME NEW i \in 1..Len(chan'[s]), NEW m \in before[chan'[s][i].seq], s \in owed[m]
          PROVE  m \in Seqs(got'[s]) \/ \E j \in 1..(i - 1) : chan'[s][j].seq = m
      <3>1. i + 1 \in 1..Len(chan[s]) /\ i \in Nat /\ (i + 1) - 1 = i
        BY <1>7
      <3>2. m \in Seqs(got[s]) \/ \E j \in 1..i : chan[s][j].seq = m
        <4>1. chan'[s][i] = chan[s][i + 1]
          BY <3>1, <1>7
        <4>2. m \in before[chan[s][i + 1].seq] /\ s \in owed[m] /\ phase[s] \in Running
          BY <2>1, <4>1, <1>1
        <4>3. m \in Seqs(got[s]) \/ \E j \in 1..((i + 1) - 1) : chan[s][j].seq = m
          BY <3>1, <4>2 DEF PushInv, ChanNoHoles
        <4> QED BY <3>1, <4>3
      <3>3. ASSUME NEW j \in 1..i, chan[s][j].seq = m
            PROVE  m \in Seqs(got'[s]) \/ \E k \in 1..(i - 1) : chan'[s][k].seq = m
        <4>1. CASE j = 1
          BY <4>1, <3>3, <1>3, <1>7
        <4>2. CASE j # 1
          <5>1. j - 1 \in 1..(i - 1) /\ j - 1 \in 1..(Len(chan[s]) - 1) /\ (j - 1) + 1 = j
            BY <4>2, <3>1, <1>7
          <5>2. chan'[s][j - 1] = chan[s][j]
            BY <5>1, <1>7
          <5> QED BY <5>1, <5>2, <3>3
        <4> QED BY <4>1, <4>2
      <3> QED BY <3>2, <3>3, <1>3
    <2>2. ASSUME NEW q \in Streams, q # s, phase[q] \in Running, NEW i \in 1..Len(chan[q]),
                 NEW m \in before[chan[q][i].seq], q \in owed[m]
          PROVE  m \in Seqs(got[q]) \/ \E j \in 1..(i - 1) : chan[q][j].seq = m
      BY <2>2 DEF PushInv, ChanNoHoles
    <2>3. ASSUME NEW q \in Streams, phase'[q] \in Running, NEW i \in 1..Len(chan'[q]),
                 NEW m \in before'[chan'[q][i].seq], q \in owed'[m]
          PROVE  m \in Seqs(got'[q]) \/ \E j \in 1..(i - 1) : chan'[q][j].seq = m
      <3>1. CASE q = s
        BY <2>1, <2>3, <3>1, <1>1
      <3>2. CASE q # s
        BY <2>2, <2>3, <3>2, <1>1
      <3> QED BY <3>1, <3>2
    <2> QED BY <2>3 DEF ChanNoHoles
  <1>10. GotNoHoles'
    <2>1. ASSUME NEW i \in 1..Len(got'[s]), NEW m \in before[got'[s][i].seq], s \in owed[m]
          PROVE  \E j \in 1..(i - 1) : got'[s][j].seq = m
      <3>1. CASE i \in 1..Len(got[s])
        <4>1. \E j \in 1..(i - 1) : got[s][j].seq = m
          BY <2>1, <3>1, <1>8 DEF PushInv, GotNoHoles
        <4>2. \A j \in 1..(i - 1) : j \in 1..Len(got[s])
          BY <3>1, <1>8
        <4> QED BY <4>1, <4>2, <1>8
      <3>2. CASE i = Len(got[s]) + 1
        <4>1. m \in before[chan[s][1].seq] /\ 1 \in 1..Len(chan[s])
          BY <2>1, <3>2, <1>7, <1>8
        <4>2. m \in Seqs(got[s]) \/ \E j \in 1..(1 - 1) : chan[s][j].seq = m
          BY <4>1, <2>1, <1>1 DEF PushInv, ChanNoHoles
        <4>3. \E j \in 1..Len(got[s]) : got[s][j].seq = m
          BY <4>2 DEF Seqs
        <4>4. i - 1 = Len(got[s])
          BY <3>2, <1>8
        <4> QED BY <4>3, <4>4, <1>8
      <3>3. i \in 1..Len(got[s]) \/ i = Len(got[s]) + 1
        BY <1>8
      <3> QED BY <3>1, <3>2, <3>3
    <2>2. ASSUME NEW q \in Streams, NEW i \in 1..Len(got'[q]),
                 NEW m \in before'[got'[q][i].seq], q \in owed'[m]
          PROVE  \E j \in 1..(i - 1) : got'[q][j].seq = m
      <3>1. CASE q = s
        BY <2>1, <2>2, <3>1, <1>1
      <3>2. CASE q # s
        BY <2>2, <3>2, <1>1 DEF PushInv, GotNoHoles
      <3> QED BY <3>1, <3>2
    <2> QED BY <2>2 DEF GotNoHoles
  <1> QED BY <1>5, <1>6, <1>9, <1>10 DEF PushInv

(* A stream that ends loses what waits in its channel, and no more.        *)
LEMMA PushEnds ==
  ASSUME BaseInv, PushInv, NEW s \in Streams, AckFails(s) \/ WriteFails(s) \/ Unsubscribe(s)
  PROVE  PushInv'
  <1> USE DEF writer, history
  <1>0. /\ phase \in [Streams -> Phases] /\ chan \in [Streams -> Seq(Recs)]
        /\ push_hub \subseteq Streams
    BY DEF BaseInv, PushType
  <1>1. /\ UNCHANGED <<writer_pc, targets, tried, dead, rec, got, owed, before, finished>>
        /\ push_hub' \subseteq push_hub
        /\ \A q \in Streams : q # s => phase'[q] = phase[q] /\ chan'[q] = chan[q]
        /\ phase'[s] \notin Running
        /\ \/ chan'[s] = <<>>
           \/ chan[s] # <<>> /\ chan'[s] = Tail(chan[s])
    BY <1>0 DEF AckFails, WriteFails, Unsubscribe, Step, Running
  <1>2. Seqs(chan'[s]) \subseteq Seqs(chan[s])
    <2>1. CASE chan'[s] = <<>>
      BY <2>1, SeqsEmpty
    <2>2. CASE chan[s] # <<>> /\ chan'[s] = Tail(chan[s])
      <3>1. chan[s] \in Seq(Recs)
        BY <1>0
      <3>2. Seqs(chan[s]) = {Head(chan[s]).seq} \union Seqs(Tail(chan[s]))
        BY <2>2, <3>1, SeqsTail
      <3> QED BY <2>2, <3>2
    <2> QED BY <1>1, <2>1, <2>2
  <1>3. \A q \in Streams : Seqs(chan'[q]) \subseteq Seqs(chan[q])
    BY <1>1, <1>2
  <1>4. /\ \A w \in Writers : writer_pc'[w] \in Sending => writer_pc[w] \in Sending
        /\ \A q \in Streams : phase'[q] \in Running => phase[q] \in Running /\ chan'[q] = chan[q]
    BY <1>1
  <1> QED BY <1>1, <1>3, <1>4, PushQuiet

LEMMA PushStep ==
  ASSUME BaseInv, PushInv, [FeedNext]_feed_vars
  PROVE  PushInv'
  <1> USE DEF flags, log, writer, stream, poller, history, feed_vars
  <1>1. PushType
    BY DEF BaseInv
  <1>2. CASE UNCHANGED <<push_hub, writer, stream, history>>
    <2>1. /\ UNCHANGED <<targets, tried, dead, rec, got, owed, before, finished>>
          /\ push_hub' \subseteq push_hub
          /\ \A w \in Writers : writer_pc'[w] \in Sending => writer_pc[w] \in Sending
          /\ \A s \in Streams : phase'[s] \in Running => phase[s] \in Running /\ chan'[s] = chan[s]
          /\ \A s \in Streams : Seqs(chan'[s]) \subseteq Seqs(chan[s])
      BY <1>2
    <2> QED BY <2>1, PushQuiet
  <1>3. ASSUME NEW w \in Writers, FindQueue(w) \/ ListQueue(w) \/ PushQueue(w)
        PROVE  PushInv'
    <2>1. /\ UNCHANGED <<targets, tried, dead, rec, phase, chan, got, owed, before, finished, push_hub>>
          /\ \A v \in Writers : v # w => writer_pc'[v] = writer_pc[v]
          /\ writer_pc'[w] \notin Sending
      BY <1>1, <1>3 DEF FindQueue, ListQueue, PushQueue, Goto, PushType, Sending
    <2>2. /\ push_hub' \subseteq push_hub
          /\ \A v \in Writers : writer_pc'[v] \in Sending => writer_pc[v] \in Sending
          /\ \A s \in Streams : phase'[s] \in Running => phase[s] \in Running /\ chan'[s] = chan[s]
          /\ \A s \in Streams : Seqs(chan'[s]) \subseteq Seqs(chan[s])
      BY <2>1
    <2> QED BY <2>1, <2>2, PushQuiet
  <1>4. ASSUME NEW s \in Streams,
               ArmChanges(s) \/ ArmPush(s) \/ Ack(s) \/ IdleTimeout(s) \/ Closed(s)
        PROVE  PushInv'
    <2>1. /\ UNCHANGED <<writer_pc, targets, tried, dead, rec, chan, got, owed, before, finished, push_hub>>
          /\ \A q \in Streams : q # s => phase'[q] = phase[q]
          /\ phase'[s] \in Running => phase[s] \in Running
      BY <1>1, <1>4 DEF ArmChanges, ArmPush, Ack, IdleTimeout, Closed, Step, PushType, Running
    <2>2. /\ push_hub' \subseteq push_hub
          /\ \A v \in Writers : writer_pc'[v] \in Sending => writer_pc[v] \in Sending
          /\ \A q \in Streams : phase'[q] \in Running => phase[q] \in Running /\ chan'[q] = chan[q]
          /\ \A q \in Streams : Seqs(chan'[q]) \subseteq Seqs(chan[q])
      BY <2>1
    <2> QED BY <2>1, <2>2, PushQuiet
  <1>5. CASE UNCHANGED feed_vars
    BY <1>2, <1>5
  <1>6. CASE FeedNext
    <2>1. CASE RecordsDone
      BY <1>2, <2>1 DEF RecordsDone
    <2>2. CASE \E w \in Writers : Begin(w) \/ RecordStep(w)
      BY <2>2, <1>3, PushBegin, PushCloneTargets, PushTrySend, PushEvict DEF RecordStep
    <2>3. CASE \E s \in Streams \intersect clients : SubscribeStep(s) \/ StreamStep(s) \/ IdleTimeout(s)
      BY <2>3, <1>4, PushJoin, PushReceive, PushEnds DEF SubscribeStep, StreamStep
    <2>4. CASE \E p \in Pollers \intersect clients : Subscribe(p) \/ sse_stream(p)
      <3>1. UNCHANGED <<push_hub, writer, stream, history>>
        BY <2>4 DEF Subscribe, sse_stream
      <3> QED BY <3>1, <1>2
    <2> QED BY <1>6, <2>1, <2>2, <2>3, <2>4 DEF FeedNext
  <1> QED BY <1>5, <1>6

----------------------------------------------------------------------------
(* Pages.                                                                  *)

(* A set of numbers that is not empty has a smallest, and a largest if it  *)
(* is bounded.                                                             *)
LEMMA SmallestOf ==
  ASSUME NEW T \in SUBSET Nat, T # {}
  PROVE  \E x \in T : \A y \in T : x <= y
  <1>1. PICK x \in T : \A y \in T : ~(<<y, x>> \in OpToRel(<, Nat))
    BY NatLessThanWellFounded, WFMin
  <1>2. \A y \in T : ~(y < x)
    BY <1>1 DEF OpToRel
  <1> QED BY <1>2

LEMMA LargestOf ==
  ASSUME NEW b \in Nat, NEW T \in SUBSET (0..b), T # {}
  PROVE  \E x \in T : \A y \in T : x >= y
  <1> DEFINE U == {b - x : x \in T}
  <1>0. \A x \in T : x \in Nat /\ x <= b /\ b - x \in Nat
    <2>1. \A x \in T : x \in 0..b
      OBVIOUS
    <2> QED BY <2>1
  <1>1. U \in SUBSET Nat /\ U # {}
    BY <1>0
  <1>2. PICK u \in U : \A v \in U : u <= v
    BY <1>1, SmallestOf
  <1>3. PICK x \in T : u = b - x
    BY <1>2
  <1>4. ASSUME NEW y \in T
        PROVE  x >= y
    <2>1. b - y \in U
      OBVIOUS
    <2>2. b - x <= b - y
      BY <1>2, <1>3, <2>1
    <2>3. x \in Nat /\ y \in Nat
      BY <1>0, <1>3
    <2> QED BY <2>2, <2>3
  <1> QED BY <1>3, <1>4

LEMMA PlacesAreNumbers ==
  ASSUME NEW n \in Nat, NEW S \in SUBSET (1..n)
  PROVE  \A j \in S : j \in Nat /\ 1 <= j /\ j <= n
  <1>1. \A j \in S : j \in 1..n
    OBVIOUS
  <1> QED BY <1>1

(* How many places of S are not after i.                                   *)
Rank(S, i) == Cardinality({j \in S : j <= i})

LEMMA RankType ==
  ASSUME NEW n \in Nat, NEW S \in SUBSET (1..n), NEW i \in Nat
  PROVE  IsFiniteSet({j \in S : j <= i}) /\ Rank(S, i) \in Nat /\ Rank(S, i) <= Cardinality(S)
         /\ IsFiniteSet(S) /\ Cardinality(S) \in Nat
  <1>1. IsFiniteSet(1..n)
    BY FS_Interval
  <1>2. IsFiniteSet(S) /\ Cardinality(S) \in Nat
    BY <1>1, FS_Subset, FS_CardinalityType
  <1>3. {j \in S : j <= i} \in SUBSET S
    OBVIOUS
  <1>4. IsFiniteSet({j \in S : j <= i}) /\ Cardinality({j \in S : j <= i}) <= Cardinality(S)
    BY <1>2, <1>3, FS_Subset
  <1>5. Cardinality({j \in S : j <= i}) \in Nat
    BY <1>4, FS_CardinalityType
  <1> QED BY <1>2, <1>4, <1>5 DEF Rank

(* Later places rank higher.                                               *)
LEMMA RankOrder ==
  ASSUME NEW n \in Nat, NEW S \in SUBSET (1..n), NEW i \in Nat, NEW k \in S, i < k
  PROVE  Rank(S, i) < Rank(S, k)
  <1> DEFINE A == {j \in S : j <= i}
             B == {j \in S : j <= k}
  <1>0. k \in Nat /\ \A j \in S : j \in Nat
    BY PlacesAreNumbers
  <1>1. A \in SUBSET B /\ k \in B /\ k \notin A
    <2>1. /\ \A j \in S : j <= i => j <= k
          /\ k <= k /\ ~(k <= i)
      BY <1>0
    <2> QED BY <2>1
  <1>2. IsFiniteSet(B)
    BY <1>0, RankType
  <1>3. /\ Cardinality(A) <= Cardinality(B)
        /\ Cardinality(B) = Cardinality(A) => B = A
    BY <1>1, <1>2, FS_Subset
  <1>4. Cardinality(A) \in Nat /\ Cardinality(B) \in Nat
    BY <1>0, RankType DEF Rank
  <1>5. Cardinality(A) # Cardinality(B)
    BY <1>1, <1>3
  <1> QED BY <1>3, <1>4, <1>5 DEF Rank

(* Every rank up to their number is that of one place.                     *)
LEMMA RankTaken ==
  ASSUME NEW n \in Nat, NEW S \in SUBSET (1..n), NEW k \in 1..Cardinality(S)
  PROVE  \E i \in S : Rank(S, i) = k
  <1>0. /\ Cardinality(S) \in Nat /\ \A i \in Nat : Rank(S, i) \in Nat
        /\ \A j \in S : j \in Nat /\ 1 <= j /\ j <= n
    BY RankType, PlacesAreNumbers
  <1> DEFINE T == {m \in Nat : Rank(S, m) >= k}
  <1>1. n \in T
    <2>1. {j \in S : j <= n} = S
      BY <1>0
    <2> QED BY <2>1, <1>0 DEF Rank
  <1>2. PICK m \in T : \A x \in T : m <= x
    BY <1>1, SmallestOf
  <1>3. m # 0
    <2>1. {j \in S : j <= 0} = {}
      <3>1. \A j \in S : ~(j <= 0)
        BY <1>0
      <3> QED BY <3>1
    <2>2. Rank(S, 0) = 0
      BY <2>1, FS_EmptySet DEF Rank
    <2> QED BY <2>2, <1>2
  <1>4. m - 1 \in Nat /\ m \in Nat
    BY <1>2, <1>3
  <1>5. Rank(S, m - 1) < k
    <2>1. m - 1 \notin T
      BY <1>2, <1>4
    <2> QED BY <2>1, <1>4, <1>0
  <1> DEFINE A == {j \in S : j <= m - 1}
             B == {j \in S : j <= m}
  <1>6. IsFiniteSet(A) /\ Cardinality(A) < k /\ Cardinality(B) >= k
        /\ Cardinality(A) \in Nat /\ Cardinality(B) \in Nat
    BY <1>4, <1>5, <1>2, <1>0, RankType DEF Rank
  <1>7. m \in S
    <2> SUFFICES ASSUME m \notin S PROVE FALSE
      OBVIOUS
    <2>1. A = B
      <3>1. \A j \in S : j <= m - 1 <=> j <= m
        BY <1>4, <1>0
      <3> QED BY <3>1
    <2> QED BY <2>1, <1>6
  <1>8. B = A \union {m} /\ m \notin A
    <2>1. \A j \in S : j <= m <=> j <= m - 1 \/ j = m
      BY <1>4, <1>0
    <2>2. ~(m <= m - 1)
      BY <1>4
    <2> QED BY <2>1, <2>2, <1>7
  <1>9. Cardinality(B) = Cardinality(A) + 1
    BY <1>6, <1>8, FS_AddElement
  <1>10. Cardinality(B) = k
    BY <1>6, <1>9
  <1> QED BY <1>7, <1>10 DEF Rank

(* The k-th place: it exists, the order of the places is that of the       *)
(* numbers, and a place not after the k-th is one of the first k.          *)
LEMMA NthPlace ==
  ASSUME NEW n \in Nat, NEW S \in SUBSET (1..n), NEW k \in 1..Cardinality(S)
  PROVE  /\ Nth(S, k) \in S /\ Rank(S, Nth(S, k)) = k
         /\ \A l \in 1..Cardinality(S) : l < k => Nth(S, l) < Nth(S, k)
         /\ \A i \in S : i <= Nth(S, k) => \E l \in 1..k : Nth(S, l) = i
  <1>0. /\ Cardinality(S) \in Nat /\ \A i \in Nat : Rank(S, i) \in Nat
        /\ \A j \in S : j \in Nat /\ 1 <= j
    BY RankType, PlacesAreNumbers
  <1>r. \A i \in Nat : \A q \in S : i < q => Rank(S, i) < Rank(S, q)
    BY RankOrder
  <1>1. ASSUME NEW l \in 1..Cardinality(S)
        PROVE  Nth(S, l) \in S /\ Rank(S, Nth(S, l)) = l
    <2>1. \E i \in S : Rank(S, i) = l
      BY RankTaken
    <2> QED BY <2>1 DEF Nth, Rank
  <1>2. ASSUME NEW l \in 1..Cardinality(S), l < k
        PROVE  Nth(S, l) < Nth(S, k)
    <2>1. Nth(S, l) \in Nat /\ Nth(S, k) \in Nat /\ Nth(S, l) \in S /\ Nth(S, k) \in S
      BY <1>0, <1>1
    <2>2. Rank(S, Nth(S, l)) = l /\ Rank(S, Nth(S, k)) = k
      BY <1>1
    <2>3. ~(Nth(S, k) < Nth(S, l))
      BY <2>1, <2>2, <1>2, <1>0, <1>r
    <2>4. Nth(S, k) # Nth(S, l)
      BY <2>2, <1>2
    <2> QED BY <2>1, <2>3, <2>4
  <1>3. ASSUME NEW i \in S, i <= Nth(S, k)
        PROVE  \E l \in 1..k : Nth(S, l) = i
    <2>1. i \in Nat /\ Nth(S, k) \in S /\ Nth(S, k) \in Nat /\ Rank(S, Nth(S, k)) = k
      BY <1>0, <1>1
    <2> DEFINE l == Rank(S, i)
    <2>2. l \in Nat /\ l <= k
      BY <2>1, <1>0, <1>3, <1>r
    <2>3. l >= 1
      <3>1. 0 < i
        BY <1>0
      <3>2. Rank(S, 0) < l /\ Rank(S, 0) \in Nat
        BY <3>1, <1>0, <1>r
      <3> QED BY <3>2, <2>2
    <2>4. l \in 1..Cardinality(S) /\ l \in 1..k
      BY <2>2, <2>3, <1>0
    <2>5. Nth(S, l) \in S /\ Nth(S, l) \in Nat /\ Rank(S, Nth(S, l)) = Rank(S, i)
      BY <2>4, <1>0, <1>1
    <2>6. ~(Nth(S, l) < i) /\ ~(i < Nth(S, l))
      BY <2>5, <2>1, <1>0, <1>r
    <2>7. Nth(S, l) = i
      BY <2>6, <2>5, <2>1
    <2> QED BY <2>4, <2>7
  <1> QED BY <1>1, <1>2, <1>3

(* A page of a poll: records of the queue that are newer than the cursor,  *)
(* in the queue's order, and none is left out before one that is given.    *)
LEMMA PageOf ==
  ASSUME PollType, NEW ts \in Nat
  PROVE  /\ read_changes(ts) \in Seq(Recs)
         /\ \E place \in [1..Len(read_changes(ts)) -> 1..Len(changes)] :
              /\ \A k \in 1..Len(read_changes(ts)) :
                   /\ read_changes(ts)[k] = changes[place[k]]
                   /\ changes[place[k]].ts > ts
              /\ \A k, l \in 1..Len(read_changes(ts)) : l < k => place[l] < place[k]
              /\ \A k \in 1..Len(read_changes(ts)) : \A i \in 1..Len(changes) :
                   changes[i].ts > ts /\ i <= place[k] => \E l \in 1..k : place[l] = i
  <1> DEFINE S == Newer(ts)
             n == Cardinality(S)
             L == IF n < Limit THEN n ELSE Limit
  <1>1. changes \in Seq(Recs) /\ Len(changes) \in Nat /\ Limit \in Nat \ {0}
    BY FeedAssumption DEF PollType
  <1>2. S \in SUBSET (1..Len(changes)) /\ \A i \in 1..Len(changes) : i \in S <=> changes[i].ts > ts
    BY DEF Newer
  <1>3. n \in Nat
    BY <1>1, <1>2, RankType
  <1>4. L \in Nat /\ L <= n /\ \A k \in 1..L : k \in 1..n /\ k \in Nat
    BY <1>1, <1>3
  <1>5. read_changes(ts) = [k \in 1..L |-> changes[Nth(S, k)]]
    BY DEF read_changes
  <1> HIDE DEF S, L
  <1>6. \A k \in 1..L :
          /\ Nth(S, k) \in S
          /\ \A l \in 1..n : l < k => Nth(S, l) < Nth(S, k)
          /\ \A i \in S : i <= Nth(S, k) => \E l \in 1..k : Nth(S, l) = i
    BY <1>1, <1>2, <1>4, NthPlace
  <1>7. \A k \in 1..L : Nth(S, k) \in 1..Len(changes) /\ changes[Nth(S, k)] \in Recs
    <2>1. \A i \in 1..Len(changes) : changes[i] \in Recs
      BY <1>1
    <2>2. \A i \in S : i \in 1..Len(changes)
      BY <1>2
    <2> QED BY <2>1, <2>2, <1>6
  <1>8. read_changes(ts) \in Seq(Recs) /\ Len(read_changes(ts)) = L
    BY <1>4, <1>5, <1>7
  <1> DEFINE place == [k \in 1..L |-> Nth(S, k)]
  <1>9. place \in [1..L -> 1..Len(changes)]
    BY <1>7
  <1>10. \A k \in 1..L : read_changes(ts)[k] = changes[place[k]] /\ changes[place[k]].ts > ts
    BY <1>2, <1>5, <1>6, <1>7
  <1>11. \A k, l \in 1..L : l < k => place[l] < place[k]
    BY <1>4, <1>6
  <1>12. ASSUME NEW k \in 1..L, NEW i \in 1..Len(changes), changes[i].ts > ts, i <= place[k]
         PROVE  \E l \in 1..k : place[l] = i
    <2>1. PICK l \in 1..k : Nth(S, l) = i
      BY <1>12, <1>2, <1>6
    <2>2. l \in 1..L
      BY <1>4
    <2> QED BY <2>1, <2>2
  <1> HIDE DEF place
  <1> QED BY <1>8, <1>9, <1>10, <1>11, <1>12

----------------------------------------------------------------------------
(* Pollers.                                                                *)

\* No number is published twice, and only by the writer that holds it.
Distinct ==
  /\ \A i, j \in 1..Len(published) : published[i].seq = published[j].seq => i = j
  /\ \A i \in 1..Len(published) : published[i].seq \in DOMAIN owed
  /\ \A w \in Writers : writer_pc[w] \in Fresh =>
       \A i \in 1..Len(published) : published[i].seq # rec[w].seq

\* The queue is the end of what was published.
QueueIsTail ==
  /\ Len(changes) <= MAX_CHANGES_PER_TABLE
  /\ Len(changes) <= Len(published)
  /\ \A i \in 1..Len(changes) : changes[i] = published[Len(published) - Len(changes) + i]

\* A cursor is the timestamp of a published record, and no record that was
\* given is newer.
CursorInv ==
  \A p \in Pollers :
    /\ since[p] = 0 \/ \E j \in 1..Len(published) : published[j].ts = since[p]
    /\ \A i \in 1..Len(seen[p]) :
         /\ seen[p][i].ts <= since[p]
         /\ \E j \in 1..Len(published) : seen[p][i] = published[j]

PollInv == PollType /\ Distinct /\ QueueIsTail /\ CursorInv /\ SeenOnce /\ GapHasCause

LEMMA PollInit == FeedInit => PollInv
  <1> SUFFICES ASSUME FeedInit PROVE PollInv
    OBVIOUS
  <1>1. clients \in Mixes /\ MaxTs[clients] \in Nat /\ MAX_CHANGES_PER_TABLE \in Nat
    BY FeedAssumption DEF FeedInit
  <1>2. PollType
    BY <1>1 DEF FeedInit, PollType
  <1>3. /\ Len(published) = 0 /\ Len(changes) = 0
        /\ \A p \in Pollers : since[p] = 0 /\ Len(seen[p]) = 0
    BY DEF FeedInit
  <1> QED BY <1>1, <1>2, <1>3 DEF PollInv, Distinct, QueueIsTail, CursorInv, SeenOnce, GapHasCause

(* Steps that publish nothing and poll nothing.                            *)
LEMMA PollQuiet ==
  ASSUME BaseInv, PollInv, UNCHANGED <<changes, published, since, seen, clients>>,
         DOMAIN owed \subseteq DOMAIN owed',
         \A w \in Writers : writer_pc'[w] \in Fresh =>
           \/ writer_pc[w] \in Fresh /\ rec'[w] = rec[w]
           \/ rec'[w].seq \notin DOMAIN owed
  PROVE  PollInv'
  <1>1. Recs' = Recs /\ MaxTs[clients]' = MaxTs[clients]
    BY SameRecs
  <1>2. PollType'
    BY <1>1 DEF PollInv, PollType
  <1>3. Distinct'
    BY DEF PollInv, Distinct
  <1>4. QueueIsTail' /\ CursorInv' /\ SeenOnce' /\ GapHasCause'
    BY DEF PollInv, QueueIsTail, CursorInv, SeenOnce, GapHasCause
  <1> QED BY <1>2, <1>3, <1>4 DEF PollInv

(* A record is published.                                                  *)
LEMMA PollPush ==
  ASSUME BaseInv, PollInv, UNCHANGED clients, NEW w \in Writers, PushQueue(w), writer_pc[w] = "push"
  PROVE  PollInv'
  <1> USE DEF poller, history
  <1>0. /\ PollType /\ Distinct /\ QueueIsTail /\ CursorInv /\ SeenOnce /\ GapHasCause
        /\ Recs' = Recs /\ MaxTs[clients]' = MaxTs[clients]
        /\ changes \in Seq(Recs) /\ published \in Seq(Recs)
        /\ MAX_CHANGES_PER_TABLE \in Nat \ {0}
    BY SameRecs, FeedAssumption DEF PollInv, PollType
  <1> DEFINE q == Append(changes, rec[w])
             n == Len(published)
             c == Len(changes)
             d == IF c + 1 > MAX_CHANGES_PER_TABLE THEN 1 ELSE 0
  <1>1. /\ rec[w] \in Recs /\ rec[w].ts >= 1 /\ rec[w].seq \in DOMAIN owed
        /\ rec[w].seq \in Nat /\ rec[w].ts \in Nat
        /\ \A i \in 1..n : published[i].seq # rec[w].seq
    <2>1. /\ rec[w] \in Recs /\ rec[w].ts >= 1 /\ rec[w].seq \in DOMAIN owed
          /\ clients \in Mixes /\ MaxTs[clients] \in Nat
      BY FeedAssumption DEF BaseInv, PushType, PlainType, NumberInv
    <2>2. rec[w].seq \in Nat /\ rec[w].ts \in Nat
      BY <2>1 DEF Recs
    <2> QED BY <2>1, <2>2, <1>0 DEF Distinct, Fresh
  <1>2. /\ n \in Nat /\ c \in Nat /\ c <= MAX_CHANGES_PER_TABLE /\ c <= n
        /\ Len(q) = c + 1 /\ q \in Seq(Recs) /\ d \in {0, 1} /\ d <= c
        /\ \A i \in 1..c : q[i] = changes[i]
        /\ q[c + 1] = rec[w]
    BY <1>0, <1>1 DEF QueueIsTail
  <1>3. /\ changes' = Trim(q) /\ published' = Append(published, rec[w])
        /\ UNCHANGED <<rec, since, seen, owed>>
        /\ writer_pc'[w] = "targets"
        /\ \A v \in Writers : v # w => writer_pc'[v] = writer_pc[v]
    BY DEF PushQueue, Goto, BaseInv, PushType
  <1>4. /\ published' \in Seq(Recs) /\ Len(published') = n + 1
        /\ \A i \in 1..n : published'[i] = published[i]
        /\ published'[n + 1] = rec[w]
    BY <1>0, <1>1, <1>3
  <1>5. changes' = SubSeq(q, 1 + d, c + 1)
    <2> DEFINE f == IF Len(q) > MAX_CHANGES_PER_TABLE THEN Len(q) - MAX_CHANGES_PER_TABLE + 1 ELSE 1
    <2>1. c + 1 > MAX_CHANGES_PER_TABLE => f = 1 + d
      <3> SUFFICES ASSUME c + 1 > MAX_CHANGES_PER_TABLE PROVE f = 1 + d
        OBVIOUS
      <3>1. c = MAX_CHANGES_PER_TABLE /\ d = 1
        BY <1>2, <1>0
      <3> QED BY <3>1, <1>2
    <2>2. ~(c + 1 > MAX_CHANGES_PER_TABLE) => f = 1 + d
      BY <1>2, <1>0
    <2>3. f = 1 + d
      BY <2>1, <2>2
    <2>4. changes' = SubSeq(q, f, Len(q))
      BY <1>3 DEF Trim
    <2> HIDE DEF f
    <2> QED BY <2>3, <2>4, <1>2
  <1> HIDE DEF q, d
  <1>6. /\ changes' \in Seq(Recs) /\ Len(changes') = c + 1 - d
        /\ \A i \in 1..(c + 1 - d) : changes'[i] = q[i + d]
    BY <1>2, <1>5
  <1>7. Len(changes') <= MAX_CHANGES_PER_TABLE
    BY <1>2, <1>6, <1>0 DEF d
  <1>8. ASSUME NEW i \in 1..Len(changes')
        PROVE  changes'[i] = published'[Len(published') - Len(changes') + i]
    <2>1. i \in 1..(c + 1 - d) /\ i \in Nat /\ Len(published') - Len(changes') + i = n - c + d + i
      BY <1>2, <1>4, <1>6
    <2>2. CASE i = c + 1 - d
      <3>1. i + d = c + 1 /\ n - c + d + i = n + 1
        BY <2>2, <1>2
      <3> QED BY <3>1, <2>1, <1>6, <1>2, <1>4
    <2>3. CASE i # c + 1 - d
      <3>1. /\ i + d \in 1..c /\ n - c + (i + d) \in 1..n
            /\ n - c + d + i = n - c + (i + d)
        <4>1. n \in Nat /\ c \in Nat /\ d \in {0, 1} /\ c <= n /\ d <= c
          BY <1>2
        <4> HIDE DEF n, c
        <4> QED BY <2>3, <2>1, <4>1
      <3>2. changes[i + d] = published[n - c + (i + d)]
        BY <3>1, <1>0 DEF QueueIsTail
      <3> QED BY <3>1, <3>2, <2>1, <1>6, <1>2, <1>4
    <2> QED BY <2>2, <2>3
  <1>9. QueueIsTail'
    <2>1. Len(changes') <= Len(published')
      BY <1>2, <1>4, <1>6
    <2> QED BY <1>7, <1>8, <2>1 DEF QueueIsTail
  <1>10. \A i \in 1..Len(published') : i \in 1..n \/ i = n + 1
    BY <1>4, <1>2
  <1>11. PollType'
    BY <1>0, <1>3, <1>4, <1>6 DEF PollType
  <1>12. Distinct'
    <2>1. \A i, j \in 1..Len(published') : published'[i].seq = published'[j].seq => i = j
      BY <1>0, <1>1, <1>4, <1>10 DEF Distinct
    <2>2. \A i \in 1..Len(published') : published'[i].seq \in DOMAIN owed'
      BY <1>0, <1>1, <1>3, <1>4, <1>10 DEF Distinct
    <2>3. ASSUME NEW v \in Writers, writer_pc'[v] \in Fresh, NEW i \in 1..Len(published')
          PROVE  published'[i].seq # rec'[v].seq
      <3>1. v # w /\ writer_pc[v] \in Fresh
        BY <2>3, <1>3 DEF Fresh
      <3>2. rec[v].seq # rec[w].seq
        BY <3>1 DEF BaseInv, NumberInv, Fresh
      <3>3. \A k \in 1..n : published[k].seq # rec[v].seq
        BY <3>1, <1>0 DEF Distinct
      <3> QED BY <3>2, <3>3, <1>3, <1>4, <1>10
    <2> QED BY <2>1, <2>2, <2>3 DEF Distinct
  <1>13. \A i \in 1..n : i \in 1..Len(published')
    BY <1>2, <1>4
  <1>14. CursorInv'
    <2>1. ASSUME NEW p \in Pollers
          PROVE  since[p] = 0 \/ \E j \in 1..Len(published') : published'[j].ts = since[p]
      BY <1>0, <1>4, <1>13 DEF CursorInv
    <2>2. ASSUME NEW p \in Pollers, NEW i \in 1..Len(seen[p])
          PROVE  seen[p][i].ts <= since[p] /\ \E j \in 1..Len(published') : seen[p][i] = published'[j]
      BY <1>0, <1>4, <1>13 DEF CursorInv
    <2> QED BY <2>1, <2>2, <1>3 DEF CursorInv
  <1>15. SeenOnce'
    BY <1>0, <1>3 DEF SeenOnce
  <1>16. GapHasCause'
    <2> SUFFICES ASSUME NEW p \in Pollers, NEW i \in 1..Len(published'),
                        published'[i].ts <= since[p], published'[i].seq \notin Seqs(seen[p])
                 PROVE  \/ published'[i].seq \notin Seqs(changes')
                        \/ \E j \in 1..(i - 1) : published'[j].ts >= published'[i].ts
      BY <1>3 DEF GapHasCause
    <2>1. since[p] \in Nat
      BY <1>0, FeedAssumption DEF PollType, BaseInv, PlainType
    <2>2. CASE i \in 1..n
      <3>1. \/ published[i].seq \notin Seqs(changes)
            \/ \E j \in 1..(i - 1) : published[j].ts >= published[i].ts
        BY <2>2, <1>0, <1>4 DEF GapHasCause
      <3>2. \A j \in 1..(i - 1) : j \in 1..n
        BY <2>2, <1>2
      <3>3. Seqs(changes') \subseteq Seqs(changes) \union {rec[w].seq}
        <4>1. ASSUME NEW k \in 1..Len(changes')
              PROVE  changes'[k].seq \in Seqs(changes) \union {rec[w].seq}
          <5>1. changes'[k] = q[k + d] /\ (k + d \in 1..c \/ k + d = c + 1)
            BY <1>6, <1>2
          <5> QED BY <5>1, <1>2 DEF Seqs
        <4> QED BY <4>1 DEF Seqs
      <3> QED BY <3>1, <3>2, <3>3, <2>2, <1>1, <1>4
    <2>3. CASE i = n + 1
      <3>1. published'[i] = rec[w] /\ since[p] # 0 /\ i - 1 = n
        BY <2>1, <2>3, <1>1, <1>2, <1>4
      <3>2. PICK j \in 1..n : published[j].ts = since[p]
        BY <3>1, <1>0 DEF CursorInv
      <3> QED BY <3>1, <3>2, <1>4, <1>1, <2>1
    <2> QED BY <2>2, <2>3, <1>10
  <1> QED BY <1>9, <1>11, <1>12, <1>14, <1>15, <1>16 DEF PollInv

(* A poller is given the first records of its page.                        *)
LEMMA PollGive ==
  ASSUME BaseInv, PollInv, NEW p \in Pollers, NEW n \in 0..Len(read_changes(since[p])),
         Give(p, read_changes(since[p]), n),
         UNCHANGED <<changes, published, writer_pc, rec, owed, clients>>
  PROVE  PollInv'
  <1>0. /\ PollType /\ Distinct /\ QueueIsTail /\ CursorInv /\ SeenOnce /\ GapHasCause
        /\ Recs' = Recs /\ MaxTs[clients]' = MaxTs[clients]
        /\ changes \in Seq(Recs) /\ published \in Seq(Recs)
        /\ Len(changes) \in Nat /\ Len(published) \in Nat /\ Len(changes) <= Len(published)
        /\ MaxTs[clients] \in Nat
    BY SameRecs, FeedAssumption DEF PollInv, PollType, BaseInv, PlainType, QueueIsTail
  <1>1. since[p] \in Nat /\ since[p] \in 0..MaxTs[clients] /\ seen[p] \in Seq(Recs)
    BY <1>0 DEF PollType
  <1> DEFINE page == read_changes(since[p])
  <1>2. /\ page \in Seq(Recs)
        /\ \E place \in [1..Len(page) -> 1..Len(changes)] :
             /\ \A k \in 1..Len(page) :
                  page[k] = changes[place[k]] /\ changes[place[k]].ts > since[p]
             /\ \A k, l \in 1..Len(page) : l < k => place[l] < place[k]
             /\ \A k \in 1..Len(page) : \A i \in 1..Len(changes) :
                  changes[i].ts > since[p] /\ i <= place[k] => \E l \in 1..k : place[l] = i
    BY <1>0, <1>1, PageOf
  <1>n. n \in 0..Len(page)
    OBVIOUS
  <1>3. PICK place \in [1..Len(page) -> 1..Len(changes)] :
          /\ \A k \in 1..Len(page) :
               page[k] = changes[place[k]] /\ changes[place[k]].ts > since[p]
          /\ \A k, l \in 1..Len(page) : l < k => place[l] < place[k]
          /\ \A k \in 1..Len(page) : \A i \in 1..Len(changes) :
               changes[i].ts > since[p] /\ i <= place[k] => \E l \in 1..k : place[l] = i
    BY <1>2
  <1>4. page \in Seq(Recs) /\ n \in 0..Len(page) /\ n \in Nat /\ Len(page) \in Nat
    BY <1>2, <1>n
  <1>5. \A k \in 1..n : k \in 1..Len(page) /\ page[k] \in Recs
    BY <1>4
  <1>6. \A r \in Recs : r.ts \in 0..MaxTs[clients] /\ r.ts \in Nat
    BY <1>0 DEF Recs
  <1> DEFINE T == {since[p]} \union {page[i].ts : i \in 1..n}
             ok(m) == m >= since[p] /\ \A i \in 1..n : m >= page[i].ts
  <1>7. /\ seen' = [seen EXCEPT ![p] = seen[p] \o SubSeq(page, 1, n)]
        /\ since' = [since EXCEPT ![p] = CHOOSE m \in T : ok(m)]
    BY DEF Give
  <1> HIDE DEF page
  <1>8. \E m \in T : ok(m)
    <2>1. T \in SUBSET (0..MaxTs[clients]) /\ T # {}
      BY <1>1, <1>5, <1>6
    <2>2. PICK m \in T : \A y \in T : m >= y
      BY <2>1, <1>0, LargestOf
    <2> QED BY <2>2
  <1>9. PICK m : m = CHOOSE x \in T : ok(x)
    OBVIOUS
  <1>10. m \in T /\ m >= since[p] /\ \A i \in 1..n : m >= page[i].ts
    BY <1>8, <1>9
  <1>11. m \in 0..MaxTs[clients] /\ m \in Nat /\ (m = since[p] \/ \E i \in 1..n : m = page[i].ts)
    BY <1>10, <1>1, <1>5, <1>6
  <1>12. /\ since'[p] = m
         /\ \A r \in Pollers : r # p => since'[r] = since[r] /\ seen'[r] = seen[r]
         /\ seen'[p] = seen[p] \o SubSeq(page, 1, n)
    BY <1>7, <1>9, <1>0 DEF PollType
  <1> HIDE DEF T, ok
  <1>o. PICK o \in Nat : o = Len(published) - Len(changes)
    BY <1>0
  <1>s. PICK s \in Nat : s = Len(seen[p])
    BY <1>1
  <1>13. /\ Len(seen'[p]) = s + n /\ s \in Nat /\ seen'[p] \in Seq(Recs)
         /\ \A i \in 1..s : seen'[p][i] = seen[p][i]
         /\ \A i \in 1..n : seen'[p][s + i] = page[i]
    <2> DEFINE x == SubSeq(page, 1, n)
    <2>1. x \in Seq(Recs) /\ Len(x) = n /\ \A i \in 1..n : x[i] = page[i]
      BY <1>4
    <2>2. seen'[p] = seen[p] \o x
      BY <1>12
    <2> HIDE DEF x
    <2>3. Len(seen'[p]) = s + n /\ seen'[p] \in Seq(Recs)
      <3>1. \A a, b \in Seq(Recs) : a \o b \in Seq(Recs) /\ Len(a \o b) = Len(a) + Len(b)
        OBVIOUS
      <3> QED BY <3>1, <2>1, <2>2, <1>1, <1>s
    <2>4. \A i \in 1..s : seen'[p][i] = seen[p][i]
      BY <2>1, <2>2, <1>1, <1>s, <1>4
    <2>5. \A i \in 1..n : seen'[p][s + i] = page[i]
      BY <2>1, <2>2, <1>1, <1>s, <1>4
    <2> QED BY <2>3, <2>4, <2>5
  <1>14. \A i \in 1..(s + n) : i \in 1..s \/ \E b \in 1..n : i = s + b
    <2>1. \A i \in 1..(s + n) : i \in 1..s \/ (i - s \in 1..n /\ i = s + (i - s))
      BY <1>4
    <2> QED BY <2>1
  <1>15. \A k \in 1..n :
           /\ place[k] \in 1..Len(changes) /\ o + place[k] \in 1..Len(published)
           /\ page[k] = published[o + place[k]] /\ page[k].ts > since[p]
    <2>1. \A k \in 1..n : place[k] \in 1..Len(changes) /\ page[k] = changes[place[k]] /\ page[k].ts > since[p]
      BY <1>3, <1>5
    <2>2. \A i \in 1..Len(changes) : o + i \in 1..Len(published)
      BY <1>0, <1>o
    <2>3. \A i \in 1..Len(changes) : changes[i] = published[o + i]
      BY <1>0, <1>o DEF QueueIsTail
    <2> QED BY <2>1, <2>2, <2>3
  <1>16. PollType'
    <2>1. since' \in [Pollers -> 0..MaxTs[clients]]
      BY <1>7, <1>9, <1>11, <1>0 DEF PollType
    <2>2. seen' \in [Pollers -> Seq(Recs)]
      <3>1. seen[p] \o SubSeq(page, 1, n) \in Seq(Recs)
        BY <1>12, <1>13
      <3> QED BY <3>1, <1>7, <1>0 DEF PollType
    <2> QED BY <2>1, <2>2, <1>0 DEF PollType
  <1>17. Distinct' /\ QueueIsTail'
    BY <1>0 DEF Distinct, QueueIsTail
  <1>18. CursorInv'
    <2>1. ASSUME NEW r \in Pollers
          PROVE  /\ since'[r] = 0 \/ \E j \in 1..Len(published) : published[j].ts = since'[r]
                 /\ \A i \in 1..Len(seen'[r]) :
                      /\ seen'[r][i].ts <= since'[r]
                      /\ \E j \in 1..Len(published) : seen'[r][i] = published[j]
      <3>1. CASE r # p
        <4>1. since'[r] = since[r] /\ seen'[r] = seen[r] /\ published' = published
          BY <3>1, <1>12, <1>0
        <4>2. /\ since[r] = 0 \/ \E j \in 1..Len(published) : published[j].ts = since[r]
              /\ \A i \in 1..Len(seen[r]) :
                   /\ seen[r][i].ts <= since[r]
                   /\ \E j \in 1..Len(published) : seen[r][i] = published[j]
          BY <1>0 DEF CursorInv
        <4> QED BY <4>1, <4>2, Zenon
      <3>2. CASE r = p
        <4>1. m = 0 \/ \E j \in 1..Len(published) : published[j].ts = m
          BY <1>11, <1>15, <1>0, ZenonT(40) DEF CursorInv
        <4>2. ASSUME NEW i \in 1..(s + n)
              PROVE  seen'[p][i].ts <= m /\ \E j \in 1..Len(published) : seen'[p][i] = published[j]
          <5>1. CASE i \in 1..s
            <6>1. seen[p][i] \in Recs /\ seen[p][i].ts <= since[p]
              BY <5>1, <1>0, <1>1, <1>s DEF CursorInv
            <6>2. seen[p][i].ts \in Nat
              BY <6>1, <1>6
            <6>3. seen[p][i].ts <= m
              BY <6>1, <6>2, <1>1, <1>10, <1>11
            <6> QED BY <6>3, <5>1, <1>13, <1>s, <1>0 DEF CursorInv
          <5>2. ASSUME NEW b \in 1..n, i = s + b
                PROVE  seen'[p][i].ts <= m /\ \E j \in 1..Len(published) : seen'[p][i] = published[j]
            <6>1. seen'[p][i] = page[b]
              BY <5>2, <1>13
            <6>2. m >= page[b].ts /\ page[b] \in Recs
              BY <1>5, <1>10
            <6>3. page[b].ts \in Nat
              BY <6>2, <1>6
            <6> QED BY <6>1, <6>2, <6>3, <1>11, <1>15
          <5> QED BY <5>1, <5>2, <1>14
        <4> QED BY <4>1, <4>2, <3>2, <1>12, <1>13
      <3> QED BY <3>1, <3>2
    <2> QED BY <2>1 DEF CursorInv
  <1>19. \A k, l \in 1..n : page[k].seq = page[l].seq => k = l
    <2> SUFFICES ASSUME NEW k \in 1..n, NEW l \in 1..n, page[k].seq = page[l].seq
                 PROVE  k = l
      OBVIOUS
    <2>0. /\ o + place[k] \in 1..Len(published) /\ o + place[l] \in 1..Len(published)
          /\ published[o + place[k]].seq = published[o + place[l]].seq
      BY <1>15
    <2>1. o + place[k] = o + place[l]
      BY <2>0, <1>0 DEF Distinct
    <2>2. place[k] = place[l] /\ place[k] \in Nat /\ k \in Nat /\ l \in Nat
      <3>1. place[k] \in 1..Len(changes) /\ place[l] \in 1..Len(changes)
        BY <1>15
      <3> QED BY <3>1, <2>1, <1>4
    <2>3. ~(k < l) /\ ~(l < k)
      BY <2>2, <1>3, <1>5
    <2> QED BY <2>2, <2>3
  <1>20. SeenOnce'
    <2>1. ASSUME NEW i \in 1..(s + n), NEW j \in 1..(s + n), seen'[p][i].seq = seen'[p][j].seq
          PROVE  i = j
      <3>1. \A a \in 1..s : \A b \in 1..n : seen[p][a].seq # page[b].seq
        <4> SUFFICES ASSUME NEW a \in 1..s, NEW b \in 1..n, seen[p][a].seq = page[b].seq
                     PROVE  FALSE
          OBVIOUS
        <4>1. PICK h \in 1..Len(published) : seen[p][a] = published[h]
          BY <1>0, <1>s DEF CursorInv
        <4>2. seen[p][a].ts <= since[p] /\ seen[p][a] \in Recs
          BY <1>0, <1>1, <1>s DEF CursorInv
        <4>3. h = o + place[b]
          BY <4>1, <1>15, <1>0 DEF Distinct
        <4>4. seen[p][a] = page[b] /\ page[b].ts > since[p] /\ page[b].ts \in Nat
          BY <4>1, <4>2, <4>3, <1>15, <1>6
        <4> QED BY <4>2, <4>4, <1>1
      <3>2. CASE i \in 1..s /\ j \in 1..s
        BY <2>1, <3>2, <1>13, <1>s, <1>0 DEF SeenOnce
      <3>3. ASSUME i \in 1..s, NEW b \in 1..n, j = s + b
            PROVE  FALSE
        BY <2>1, <3>1, <3>3, <1>13
      <3>4. ASSUME j \in 1..s, NEW b \in 1..n, i = s + b
            PROVE  FALSE
        BY <2>1, <3>1, <3>4, <1>13
      <3>5. ASSUME NEW a \in 1..n, i = s + a, NEW b \in 1..n, j = s + b
            PROVE  i = j
        <4>1. page[a].seq = page[b].seq
          BY <2>1, <3>5, <1>13
        <4>2. a = b
          BY <4>1, <1>19
        <4> QED BY <4>2, <3>5
      <3>6. /\ i \in 1..s \/ \E b \in 1..n : i = s + b
            /\ j \in 1..s \/ \E b \in 1..n : j = s + b
        BY <1>14
      <3> QED BY <3>2, <3>3, <3>4, <3>5, <3>6
    <2> QED BY <2>1, <1>12, <1>13, <1>0, ZenonT(40) DEF SeenOnce
  <1>21. GapHasCause'
    <2> SUFFICES ASSUME NEW r \in Pollers, NEW i \in 1..Len(published),
                        published[i].ts <= since'[r], published[i].seq \notin Seqs(seen'[r])
                 PROVE  \/ published[i].seq \notin Seqs(changes)
                        \/ \E j \in 1..(i - 1) : published[j].ts >= published[i].ts
      BY DEF GapHasCause
    <2>1. CASE r # p
      BY <2>1, <1>12, <1>0 DEF GapHasCause
    <2>2. CASE r = p
      <3>1. /\ \A a \in 1..s : seen[p][a].seq # published[i].seq
            /\ \A b \in 1..n : page[b].seq # published[i].seq
        <4>1. \A a \in 1..(s + n) : seen'[p][a].seq # published[i].seq
          BY <2>2, <1>13 DEF Seqs
        <4>2. \A a \in 1..s : a \in 1..(s + n)
          BY <1>13, <1>4
        <4>3. \A b \in 1..n : s + b \in 1..(s + n)
          BY <1>13, <1>4
        <4> QED BY <4>1, <4>2, <4>3, <1>13
      <3>2. published[i] \in Recs /\ published[i].ts \in Nat
        BY <1>0, <1>6
      <3>3. CASE published[i].ts <= since[p]
        BY <3>1, <3>3, <1>0, <1>s DEF GapHasCause, Seqs
      <3>4. CASE published[i].ts > since[p] /\ published[i].seq \in Seqs(changes)
        <4>1. PICK c \in 1..Len(changes) : changes[c].seq = published[i].seq
          BY <3>4 DEF Seqs
        <4>2. o + c \in 1..Len(published) /\ changes[c] = published[o + c]
          <5>1. o + c \in 1..Len(published)
            BY <1>0, <1>o
          <5> QED BY <5>1, <1>0, <1>o DEF QueueIsTail
        <4>3. i = o + c /\ changes[c] = published[i]
          BY <4>1, <4>2, <1>0 DEF Distinct
        <4>4. PICK k \in 1..n : m = page[k].ts
          <5>1. published[i].ts <= m
            BY <1>12, <2>2
          <5>2. m # since[p]
            BY <5>1, <3>4, <3>2, <1>1
          <5> QED BY <5>2, <1>11
        <4>5. ~(c <= place[k])
          <5> SUFFICES ASSUME c <= place[k] PROVE FALSE
            OBVIOUS
          <5>1. PICK l \in 1..k : place[l] = c
            BY <3>4, <4>3, <1>3, <1>5
          <5>2. l \in 1..n /\ l \in 1..Len(page)
            BY <1>4
          <5>3. page[l] = changes[c]
            BY <5>1, <5>2, <1>3
          <5> QED BY <5>2, <5>3, <4>3, <3>1
        <4>6. o + place[k] \in 1..(i - 1)
          <5>1. place[k] \in Nat /\ c \in Nat /\ o + place[k] \in 1..Len(published) /\ o \in Nat
            BY <1>15
          <5> QED BY <5>1, <4>3, <4>5
        <4>7. published[o + place[k]].ts = m /\ published[i].ts <= m
          BY <4>4, <1>12, <1>15, <2>2
        <4> QED BY <4>6, <4>7, <3>2, <1>11
      <3> QED BY <3>2, <3>3, <3>4, <1>1
    <2> QED BY <2>1, <2>2
  <1> QED BY <1>16, <1>17, <1>18, <1>20, <1>21 DEF PollInv

LEMMA PollStep ==
  ASSUME BaseInv, PollInv, [FeedNext]_feed_vars
  PROVE  PollInv'
  <1> USE DEF flags, log, writer, stream, poller, history, feed_vars
  <1>1. PushType /\ NumberInv
    BY DEF BaseInv
  <1>2. CASE UNCHANGED <<changes, published, writer, poller, owed, clients>>
    BY <1>2, PollQuiet
  <1>3. ASSUME NEW w \in Writers, UNCHANGED clients,
               \/ FindQueue(w) \/ ListQueue(w) \/ CloneTargets(w) \/ TrySend(w) \/ Evict(w)
               \/ PushQueue(w) /\ writer_pc[w] # "push"
        PROVE  PollInv'
    <2>1. /\ UNCHANGED <<changes, published, since, seen, owed>>
          /\ \A v \in Writers : v # w => writer_pc'[v] = writer_pc[v]
      BY <1>1, <1>3 DEF FindQueue, ListQueue, CloneTargets, TrySend, Evict, PushQueue, Return, Goto,
                        PushType
    <2>2. \A v \in Writers : v # w => rec'[v] = rec[v]
      BY <1>1, <1>3 DEF FindQueue, ListQueue, CloneTargets, TrySend, Evict, PushQueue, Return,
                        PushType
    <2>3. writer_pc'[w] \in Fresh => writer_pc[w] \in Fresh /\ rec'[w] = rec[w]
      BY <1>1, <1>3 DEF FindQueue, ListQueue, CloneTargets, TrySend, Evict, PushQueue, Return, Goto,
                        PushType, Fresh
    <2>4. \A v \in Writers : writer_pc'[v] \in Fresh => writer_pc[v] \in Fresh /\ rec'[v] = rec[v]
      BY <2>1, <2>2, <2>3
    <2> QED BY <1>3, <2>1, <2>4, PollQuiet
  <1>4. ASSUME NEW w \in Writers, UNCHANGED clients, Begin(w)
        PROVE  PollInv'
    <2>1. /\ UNCHANGED <<changes, published, since, seen>>
          /\ \A v \in Writers : v # w => writer_pc'[v] = writer_pc[v] /\ rec'[v] = rec[v]
          /\ rec'[w].seq = change_seq
          /\ DOMAIN owed \subseteq DOMAIN owed'
      BY <1>1, <1>4 DEF Begin, Goto, PushType
    <2>2. change_seq \notin DOMAIN owed
      BY <1>1 DEF NumberInv
    <2> QED BY <1>4, <2>1, <2>2, PollQuiet
  <1>5. ASSUME NEW p \in Pollers, UNCHANGED clients, Subscribe(p) \/ sse_stream(p)
        PROVE  PollInv'
    <2>1. since[p] \in Nat
      BY FeedAssumption DEF BaseInv, PlainType, PollInv, PollType
    <2>2. Len(read_changes(since[p])) \in Nat
      BY <2>1, PageOf DEF PollInv
    <2>3. PICK n \in 0..Len(read_changes(since[p])) : Give(p, read_changes(since[p]), n)
      BY <1>5, <2>2 DEF Subscribe, sse_stream
    <2>4. UNCHANGED <<changes, published, writer_pc, rec, owed, clients>>
      BY <1>5 DEF Subscribe, sse_stream
    <2> QED BY <2>3, <2>4, PollGive
  <1>6. CASE UNCHANGED feed_vars
    BY <1>2, <1>6
  <1>7. CASE FeedNext
    <2>1. UNCHANGED clients
      BY <1>7 DEF FeedNext
    <2>2. CASE RecordsDone
      BY <1>2, <2>2 DEF RecordsDone
    <2>3. CASE \E w \in Writers : Begin(w) \/ RecordStep(w)
      BY <2>1, <2>3, <1>3, <1>4, PollPush DEF RecordStep
    <2>4. CASE \E s \in Streams \intersect clients : SubscribeStep(s) \/ StreamStep(s) \/ IdleTimeout(s)
      <3>1. UNCHANGED <<changes, published, writer, poller, owed, clients>>
        BY <2>1, <2>4 DEF SubscribeStep, StreamStep, ArmChanges, ArmPush, Join, Ack, AckFails,
                          Receive, WriteFails, Closed, Unsubscribe, IdleTimeout
      <3> QED BY <3>1, <1>2
    <2>5. CASE \E p \in Pollers \intersect clients : Subscribe(p) \/ sse_stream(p)
      BY <2>1, <2>5, <1>5
    <2> QED BY <1>7, <2>2, <2>3, <2>4, <2>5 DEF FeedNext
  <1> QED BY <1>6, <1>7

----------------------------------------------------------------------------
(* The theorems.                                                           *)

ChanBound == \A s \in Streams : Len(chan[s]) <= Capacity

LEMMA BoundStep ==
  ASSUME BaseInv, ChanBound, [FeedNext]_feed_vars
  PROVE  ChanBound'
  <1> USE DEF stream, feed_vars
  <1>1. chan \in [Streams -> Seq(Recs)] /\ Capacity \in Nat \ {0} /\ rec \in [Writers -> Recs]
        /\ targets \in [Writers -> SUBSET Streams]
    BY FeedAssumption DEF BaseInv, PushType
  <1>2. CASE UNCHANGED chan
    BY <1>2 DEF ChanBound
  <1>3. ASSUME NEW s \in Streams,
               \/ chan' = [chan EXCEPT ![s] = <<>>]
               \/ chan[s] # <<>> /\ chan' = [chan EXCEPT ![s] = Tail(chan[s])]
               \/ Len(chan[s]) < Capacity
                  /\ \E w \in Writers : chan' = [chan EXCEPT ![s] = Append(chan[s], rec[w])]
        PROVE  ChanBound'
    <2>1. chan[s] \in Seq(Recs) /\ Len(chan[s]) \in Nat /\ Len(chan[s]) <= Capacity
      BY <1>1 DEF ChanBound
    <2>2. Len(chan'[s]) <= Capacity
      <3>1. CASE chan' = [chan EXCEPT ![s] = <<>>]
        BY <3>1, <1>1
      <3>2. CASE chan[s] # <<>> /\ chan' = [chan EXCEPT ![s] = Tail(chan[s])]
        <4>1. Len(Tail(chan[s])) = Len(chan[s]) - 1
          BY <3>2, <2>1
        <4> QED BY <4>1, <3>2, <2>1, <1>1
      <3>3. ASSUME Len(chan[s]) < Capacity, NEW w \in Writers,
                   chan' = [chan EXCEPT ![s] = Append(chan[s], rec[w])]
            PROVE  Len(chan'[s]) <= Capacity
        <4>1. Len(Append(chan[s], rec[w])) = Len(chan[s]) + 1
          BY <2>1, <1>1
        <4> QED BY <4>1, <3>3, <2>1, <1>1
      <3> QED BY <1>3, <3>1, <3>2, <3>3
    <2>3. \A q \in Streams : q # s => chan'[q] = chan[q]
      BY <1>3, <1>1
    <2> QED BY <2>2, <2>3 DEF ChanBound
  <1>4. CASE FeedNext
    <2>1. ASSUME NEW w \in Writers, TrySend(w)
          PROVE  ChanBound'
      <3>1. PICK s \in targets[w] :
              \/ UNCHANGED chan
              \/ Len(chan[s]) < Capacity /\ chan' = [chan EXCEPT ![s] = Append(chan[s], rec[w])]
        BY <2>1 DEF TrySend
      <3>2. s \in Streams
        BY <1>1
      <3> QED BY <3>1, <3>2, <1>2, <1>3
    <2>2. ASSUME NEW w \in Writers, Begin(w) \/ RecordStep(w)
          PROVE  ChanBound'
      BY <2>1, <2>2, <1>2 DEF RecordStep, Begin, FindQueue, ListQueue, PushQueue, CloneTargets, Evict
    <2>3. ASSUME NEW s \in Streams, SubscribeStep(s) \/ StreamStep(s) \/ IdleTimeout(s)
          PROVE  ChanBound'
      <3>1. \/ UNCHANGED chan
            \/ chan' = [chan EXCEPT ![s] = <<>>]
            \/ chan[s] # <<>> /\ chan' = [chan EXCEPT ![s] = Tail(chan[s])]
        BY <2>3 DEF SubscribeStep, StreamStep, ArmChanges, ArmPush, Join, Ack, AckFails,
                    Receive, WriteFails, Closed, Unsubscribe, IdleTimeout
      <3> QED BY <3>1, <1>2, <1>3
    <2>4. CASE RecordsDone
      BY <2>4, <1>2 DEF RecordsDone
    <2>5. ASSUME NEW p \in Pollers, Subscribe(p) \/ sse_stream(p)
          PROVE  ChanBound'
      BY <2>5, <1>2 DEF Subscribe, sse_stream
    <2> QED BY <1>4, <2>2, <2>3, <2>4, <2>5 DEF FeedNext
  <1> QED BY <1>2, <1>4

FeedInv == BaseInv /\ PushInv /\ PollInv /\ ChanBound

LEMMA FeedInvariant == FeedSpec => []FeedInv
  <1>1. FeedInit => FeedInv
    <2> SUFFICES ASSUME FeedInit PROVE ChanBound
      BY BaseInit, PushInit, PollInit DEF FeedInv
    <2> QED BY FeedAssumption DEF FeedInit, ChanBound
  <1>2. FeedInv /\ [FeedNext]_feed_vars => FeedInv'
    BY BaseStep, PushStep, PollStep, BoundStep DEF FeedInv
  <1> QED BY <1>1, <1>2, PTL DEF FeedSpec

(* The change log and every channel stay within their bounds and all state *)
(* keeps its type, whoever records, streams and polls.                     *)
THEOREM FeedTypeCorrect == FeedSpec => []FeedTypeOK
  <1>1. FeedInv => FeedTypeOK
    BY DEF FeedInv, BaseInv, PlainType, PushType, PollInv, PollType, NumberInv, HubInv, QueueIsTail,
           ChanBound, FeedTypeOK, WriterPcs, Phases
  <1> QED BY <1>1, FeedInvariant, PTL

(* The readers of a table's changes are served faithfully: a push stream   *)
(* lacks neither the newest records nor one in the middle, and a poller is *)
(* given nothing twice and passes over a record only for a cause, although *)
(* record_change holds no lock across its steps and the clock may be set   *)
(* back.                                                                   *)
THEOREM FeedIsFaithful == FeedSpec => []FeedFaithful
  <1>1. FeedInv => FeedFaithful
    BY GotIsNoHoles DEF FeedInv, BaseInv, PushInv, PollInv, FeedFaithful
  <1> QED BY <1>1, FeedInvariant, PTL

-----------------------------------------------------------------------------
(***************************************************************************)
(* Jobs: the job store keeps within its bound and never evicts a job whose *)
(* runner still has something to write, and the JobScheduler runs no job   *)
(* again that has ended, for any number of jobs, runners and threads.      *)
(***************************************************************************)

Live == {"engine", "attempt", "storing"}

Runners ==
    [pc : {"none", "spawned", "engine", "attempt", "storing", "done"},
     job : JobRecords \cup {NoJob}, guest : Guests \cup {NoJob}]

JobsTypeOK ==
    /\ j_jobs \in [JobIds -> JobRecords \cup {NoJob}]
    /\ j_run \in [JobIds -> Runners]
    /\ j_next \in Nat \ {0}
    /\ j_time \in Nat

\* What the store shows of a job says how far its runner is; a job that is
\* not terminal in the store is what protects it from eviction.
RunnerInv ==
    \A i \in JobIds :
        /\ j_run[i].pc = "spawned" => /\ j_jobs[i] \in JobRecords
                                      /\ j_jobs[i].status = "Pending"
        /\ j_run[i].pc \in Live => /\ j_jobs[i] \in JobRecords
                                   /\ j_jobs[i].status = "Running"
                                   /\ j_run[i].job \in JobRecords
        /\ i >= j_next => j_jobs[i] = NoJob

StoreInv ==
    /\ JobsTypeOK
    /\ RunnerInv
    /\ Cardinality(Stored) <= MAX_WASM_JOBS

(***************************************************************************)
(* What marking a job does to its record.                                  *)
(***************************************************************************)
LEMMA MarkedRunning ==
    ASSUME NEW job \in JobRecords
    PROVE  mark_running(job) \in JobRecords /\ mark_running(job).status = "Running"
BY DEF mark_running, JobRecords

LEMMA MarkedCompleted ==
    ASSUME NEW job \in JobRecords, NEW now \in Nat
    PROVE  mark_completed(job, "ok", now) \in JobRecords
BY DEF mark_completed, JobRecords, Terminal

LEMMA MarkedFailed ==
    ASSUME NEW job \in JobRecords, NEW x \in {"engine"} \cup RunErrors, NEW now \in Nat
    PROVE  mark_failed(job, x, now) \in JobRecords
<1>1. job.retry_count \in Nat /\ x \in {"none", "engine"} \cup RunErrors
  BY DEF JobRecords
<1>2. CASE job.retry_count < job.max_retries
  <2> DEFINE n == job.retry_count + 1
             r == [status |-> "Pending", retry_count |-> n, max_retries |-> job.max_retries,
                   result |-> job.result, error |-> x, completed_at |-> job.completed_at]
  <2>1. n \in Nat
    BY <1>1
  <2>2. mark_failed(job, x, now) = r
    BY <1>2 DEF mark_failed, JobRecords
  <2> HIDE DEF n
  <2>3. r \in JobRecords
    BY <1>1, <2>1 DEF JobRecords
  <2> QED BY <2>2, <2>3
<1>3. CASE ~(job.retry_count < job.max_retries)
  BY <1>1, <1>3 DEF mark_failed, JobRecords, Terminal
<1> QED BY <1>2, <1>3

LEMMA NewJobs ==
    ASSUME NEW n \in Retries
    PROVE  NewJob(Clamp(n)) \in JobRecords /\ NewJob(Clamp(n)).status = "Pending"
<1>1. Clamp(n) \in Nat
  <2>1. CASE n = Absent
    BY <2>1 DEF Clamp
  <2>2. CASE n # Absent
    <3>1. n \in Int
      BY <2>2, JobsAssumption
    <3>2. Min({n, 5}) = IF n <= 5 THEN n ELSE 5
      BY <3>1 DEF Min
    <3>3. PICK m \in Int : m = Min({n, 5})
      BY <3>1, <3>2
    <3>4. Max({0, m}) = IF m >= 0 THEN m ELSE 0
      BY DEF Max
    <3>5. Max({0, m}) \in Nat
      BY <3>4
    <3> QED BY <2>2, <3>3, <3>5 DEF Clamp
  <2> QED BY <2>1, <2>2
<1> QED BY <1>1 DEF NewJob, JobRecords

LEMMA OutcomesKnown ==
    ASSUME NEW g, NEW o \in Outcomes(g)
    PROVE  o \in {"ok"} \cup RunErrors
<1>1. \A have : read_output(g, have) \in {"ok"} \cup RunErrors
  BY DEF read_output, RunErrors
<1>2. run_bytes(g) \in {"ok"} \cup RunErrors
  BY <1>1 DEF run_bytes, RunErrors
<1> QED BY <1>2 DEF Outcomes, RunErrors

(***************************************************************************)
(* The job to evict exists: of jobs that have ended one ended first.       *)
(***************************************************************************)
LEMMA OldestIn ==
    ASSUME NEW S \in SUBSET JobIds, S # {}, \A i \in S : j_jobs[i].completed_at \in Nat
    PROVE  Oldest(S) \in S
<1> DEFINE T == {j_jobs[i].completed_at : i \in S}
<1>1. T \subseteq Nat /\ T # {}
  OBVIOUS
<1>2. PICK x \in T : \A y \in T : ~(<<y, x>> \in OpToRel(<, Nat))
  BY <1>1, NatLessThanWellFounded, WFMin
<1>3. \A y \in T : ~(y < x)
  BY <1>1, <1>2 DEF OpToRel
<1>4. PICK i \in S : x = j_jobs[i].completed_at
  OBVIOUS
<1>5. \A k \in S : j_jobs[i].completed_at <= j_jobs[k].completed_at
  BY <1>1, <1>3, <1>4
<1> QED BY <1>5 DEF Oldest

LEMMA RunnerMoves ==
    ASSUME NEW x \in Runners, NEW job \in JobRecords, NEW pc \in Live
    PROVE  /\ RunnerAt(pc, job, x) \in Runners
           /\ RunnerAt(pc, job, x).pc = pc /\ RunnerAt(pc, job, x).job = job
<1>1. x.guest \in Guests \cup {NoJob} /\ job \in JobRecords \cup {NoJob}
      /\ pc \in {"none", "spawned", "engine", "attempt", "storing", "done"}
  BY DEF Runners, Live
<1> QED BY <1>1 DEF RunnerAt, Runners

LEMMA StoredFinite == IsFiniteSet(JobIds) /\ IsFiniteSet(Stored) /\ Cardinality(Stored) \in Nat
<1>1. IsFiniteSet(JobIds)
  BY JobsAssumption, FS_Interval DEF JobIds
<1>2. Stored \in SUBSET JobIds
  BY DEF Stored
<1>3. IsFiniteSet(Stored)
  BY <1>1, <1>2, FS_Subset
<1> QED BY <1>1, <1>3, FS_CardinalityType

-----------------------------------------------------------------------------
LEMMA JobsInit_StoreInv == JobsInit => StoreInv
<1> SUFFICES ASSUME JobsInit PROVE StoreInv
  OBVIOUS
<1>1. JobsTypeOK
  <2>1. NoRunner \in Runners
    BY DEF NoRunner, Runners
  <2> QED BY <2>1 DEF JobsTypeOK, JobsInit
<1>2. RunnerInv
  BY DEF RunnerInv, JobsInit, NoRunner, Live
<1>3. Stored = {}
  BY DEF Stored, JobsInit
<1>4. Cardinality(Stored) <= MAX_WASM_JOBS
  BY <1>3, FS_EmptySet, JobsAssumption
<1> QED BY <1>1, <1>2, <1>4 DEF StoreInv

(***************************************************************************)
(* Accepting a job: what is evicted has ended, and one comes for one.      *)
(***************************************************************************)
LEMMA SubmitKeeps ==
    ASSUME StoreInv, NEW g \in Guests, NEW n \in Retries, JobSubmit(g, n)
    PROVE  StoreInv'
<1> DEFINE new == NewJob(Clamp(n))
           old == Oldest(Evictable)
           full == Cardinality(Stored) >= MAX_WASM_JOBS
           kept == IF full THEN [j_jobs EXCEPT ![old] = NoJob] ELSE j_jobs
           started == [pc |-> "spawned", job |-> NoJob, guest |-> g]
<1>0. /\ JobsTypeOK /\ RunnerInv /\ Cardinality(Stored) \in Nat
      /\ Cardinality(Stored) <= MAX_WASM_JOBS /\ MAX_WASM_JOBS \in Nat \ {0}
      /\ IsFiniteSet(Stored) /\ NoJob \notin JobRecords
  BY StoredFinite, JobsAssumption DEF StoreInv
<1>1. new \in JobRecords /\ new.status = "Pending"
  BY NewJobs
<1>2. full => old \in Evictable
  <2>1. Evictable \in SUBSET JobIds /\ \A i \in Evictable : j_jobs[i] \in JobRecords
    BY <1>0 DEF Evictable, Stored, JobsTypeOK
  <2>2. \A i \in Evictable : j_jobs[i].completed_at \in Nat
    BY <2>1 DEF JobRecords
  <2>3. full => Evictable # {}
    BY DEF JobSubmit, JobQueueFull
  <2> QED BY <2>1, <2>2, <2>3, OldestIn
<1> HIDE DEF new, old
<1>3. /\ j_next \in JobIds /\ j_jobs' = [kept EXCEPT ![j_next] = new]
      /\ j_run' = [j_run EXCEPT ![j_next] = started] /\ j_next' = j_next + 1
      /\ j_time' = j_time
  BY DEF JobSubmit, store_wasm_job, new, old
<1>4. started \in Runners
  BY DEF Runners
<1>5. /\ kept \in [JobIds -> JobRecords \cup {NoJob}]
      /\ \A i \in JobIds : kept[i] = j_jobs[i] \/ (full /\ i = old /\ kept[i] = NoJob)
  BY <1>0, <1>2 DEF JobsTypeOK, Evictable, Stored
<1>6. JobsTypeOK'
  BY <1>0, <1>1, <1>3, <1>4, <1>5 DEF JobsTypeOK
<1>7. RunnerInv'
  <2> SUFFICES ASSUME NEW i \in JobIds
               PROVE  /\ j_run'[i].pc = "spawned" => /\ j_jobs'[i] \in JobRecords
                                                     /\ j_jobs'[i].status = "Pending"
                      /\ j_run'[i].pc \in Live => /\ j_jobs'[i] \in JobRecords
                                                  /\ j_jobs'[i].status = "Running"
                                                  /\ j_run'[i].job \in JobRecords
                      /\ i >= j_next' => j_jobs'[i] = NoJob
    BY DEF RunnerInv
  <2>1. j_next \in Nat /\ i \in Int
    BY <1>0 DEF JobsTypeOK, JobIds
  <2>2. CASE i = j_next
    <3>1. j_jobs'[i] = new /\ j_run'[i] = started
      BY <1>0, <1>3, <1>5, <2>2 DEF JobsTypeOK
    <3>2. j_run'[i].pc = "spawned" /\ ~(i >= j_next')
      BY <1>3, <2>1, <2>2, <3>1
    <3> QED BY <1>1, <3>1, <3>2 DEF Live
  <2>3. CASE i # j_next
    <3>1. j_run'[i] = j_run[i] /\ j_jobs'[i] = kept[i]
      BY <1>0, <1>3, <1>5, <2>3 DEF JobsTypeOK
    <3>2. CASE kept[i] = j_jobs[i]
      BY <1>0, <1>3, <2>1, <3>1, <3>2 DEF RunnerInv
    <3>3. CASE full /\ i = old /\ kept[i] = NoJob
      <4>1. j_jobs[i].status \in Terminal
        BY <1>2, <3>3 DEF Evictable
      <4>2. j_run[i].pc # "spawned" /\ j_run[i].pc \notin Live
        BY <1>0, <4>1 DEF RunnerInv, Terminal
      <4> QED BY <3>1, <3>3, <4>2
    <3> QED BY <1>5, <3>2, <3>3
  <2> QED BY <2>2, <2>3
<1>8. Cardinality(Stored') <= MAX_WASM_JOBS
  <2>1. CASE ~full
    <3>1. Stored' = Stored \cup {j_next}
      BY <1>0, <1>1, <1>3, <1>5, <2>1 DEF Stored, JobsTypeOK
    <3>2. Cardinality(Stored \cup {j_next}) =
             IF j_next \in Stored THEN Cardinality(Stored) ELSE Cardinality(Stored) + 1
      BY <1>0, FS_AddElement
    <3>3. Cardinality(Stored \cup {j_next}) <= MAX_WASM_JOBS
      BY <1>0, <2>1, <3>2
    <3> QED BY <3>1, <3>3
  <2>2. CASE full
    <3>1. old \in Stored
      BY <1>2, <2>2 DEF Evictable
    <3>2. j_next \notin Stored
      BY <1>0, <1>3 DEF RunnerInv, Stored, JobsTypeOK
    <3>3. Stored' = (Stored \ {old}) \cup {j_next}
      BY <1>0, <1>1, <1>3, <1>5, <2>2, <3>1, <3>2 DEF Stored, JobsTypeOK
    <3>4. /\ IsFiniteSet(Stored \ {old}) /\ Cardinality(Stored \ {old}) = Cardinality(Stored) - 1
      BY <1>0, <3>1, FS_RemoveElement
    <3>5. Cardinality((Stored \ {old}) \cup {j_next}) =
             IF j_next \in Stored \ {old} THEN Cardinality(Stored \ {old})
             ELSE Cardinality(Stored \ {old}) + 1
      BY <3>4, FS_AddElement
    <3>6. Cardinality((Stored \ {old}) \cup {j_next}) = Cardinality(Stored)
      BY <1>0, <3>2, <3>4, <3>5
    <3> QED BY <1>0, <3>3, <3>6
  <2> QED BY <2>1, <2>2
<1> QED BY <1>6, <1>7, <1>8 DEF StoreInv

(***************************************************************************)
(* A step of job i's runner that leaves the other jobs alone.              *)
(***************************************************************************)
LEMMA RunnerKeeps ==
    ASSUME StoreInv, NEW i \in JobIds, NEW r \in Runners, NEW b \in JobRecords \cup {NoJob},
           j_run' = [j_run EXCEPT ![i] = r], j_jobs' = [j_jobs EXCEPT ![i] = b],
           j_next' = j_next, j_time' \in Nat,
           j_jobs[i] = NoJob => b = NoJob,
           r.pc # "spawned",
           r.pc \in Live => b \in JobRecords /\ b.status = "Running" /\ r.job \in JobRecords
    PROVE  StoreInv'
<1>0. JobsTypeOK /\ RunnerInv /\ Cardinality(Stored) <= MAX_WASM_JOBS
  BY DEF StoreInv
<1>1. JobsTypeOK'
  BY <1>0 DEF JobsTypeOK
<1>2. RunnerInv'
  <2> SUFFICES ASSUME NEW k \in JobIds
               PROVE  /\ j_run'[k].pc = "spawned" => /\ j_jobs'[k] \in JobRecords
                                                     /\ j_jobs'[k].status = "Pending"
                      /\ j_run'[k].pc \in Live => /\ j_jobs'[k] \in JobRecords
                                                  /\ j_jobs'[k].status = "Running"
                                                  /\ j_run'[k].job \in JobRecords
                      /\ k >= j_next' => j_jobs'[k] = NoJob
    BY DEF RunnerInv
  <2>1. CASE k = i
    <3>1. j_run'[k] = r /\ j_jobs'[k] = b
      BY <1>0, <2>1 DEF JobsTypeOK
    <3>2. k >= j_next' => j_jobs[k] = NoJob
      BY <1>0 DEF RunnerInv
    <3> QED BY <2>1, <3>1, <3>2
  <2>2. CASE k # i
    <3>1. j_run'[k] = j_run[k] /\ j_jobs'[k] = j_jobs[k]
      BY <1>0, <2>2 DEF JobsTypeOK
    <3> QED BY <1>0, <3>1 DEF RunnerInv
  <2> QED BY <2>1, <2>2
<1>3. Cardinality(Stored') <= MAX_WASM_JOBS
  <2>1. Stored' \in SUBSET Stored
    BY <1>0 DEF Stored, JobsTypeOK
  <2>2. Cardinality(Stored') <= Cardinality(Stored) /\ IsFiniteSet(Stored')
    BY <2>1, StoredFinite, FS_Subset
  <2>3. Cardinality(Stored') \in Nat
    BY <2>2, FS_CardinalityType
  <2> QED BY <1>0, <2>2, <2>3, StoredFinite, JobsAssumption
<1> QED BY <1>1, <1>2, <1>3 DEF StoreInv

LEMMA JobsNext_StoreInv == StoreInv /\ [JobsNext]_jobs_vars => StoreInv'
<1> SUFFICES ASSUME StoreInv, [JobsNext]_jobs_vars PROVE StoreInv'
  OBVIOUS
<1>0. /\ JobsTypeOK /\ RunnerInv /\ NoJob \notin JobRecords
      /\ j_jobs \in [JobIds -> JobRecords \cup {NoJob}] /\ j_run \in [JobIds -> Runners]
      /\ j_time \in Nat
  BY JobsAssumption DEF StoreInv, JobsTypeOK
<1>1. \A job : StampAfter(job) \in Nat
  BY <1>0 DEF StampAfter
<1>2. CASE \E g \in Guests, n \in Retries : JobSubmit(g, n)
  BY <1>2, SubmitKeeps
<1>3. ASSUME NEW i \in JobIds, RunStart(i) PROVE StoreInv'
  <2>1. j_run[i].pc = "spawned" /\ j_jobs[i] \in JobRecords
    BY <1>0, <1>3 DEF RunStart, RunnerInv
  <2> DEFINE b == mark_running(j_jobs[i])
             r == RunnerAt("engine", b, j_run[i])
  <2>2. b \in JobRecords /\ b.status = "Running"
    BY <2>1, MarkedRunning
  <2>3. /\ j_jobs' = [j_jobs EXCEPT ![i] = b] /\ j_next' = j_next /\ j_time' = j_time
        /\ j_run' = [j_run EXCEPT ![i] = r]
    BY <1>0, <1>3, <2>1 DEF RunStart
  <2> HIDE DEF b
  <2>4. r \in Runners /\ r.pc = "engine" /\ r.job = b
    <3>1. j_run[i] \in Runners /\ "engine" \in Live
      BY <1>0 DEF Live
    <3> QED BY <2>2, <3>1, RunnerMoves
  <2> HIDE DEF r
  <2>5. j_jobs[i] # NoJob /\ b \in JobRecords \cup {NoJob} /\ j_time' \in Nat
        /\ r.pc # "spawned"
    BY <1>0, <2>1, <2>2, <2>3, <2>4
  <2> QED BY <2>2, <2>3, <2>4, <2>5, RunnerKeeps
<1>4. ASSUME NEW i \in JobIds, RunEngine(i) PROVE StoreInv'
  <2>1. /\ j_run[i].pc = "engine" /\ j_jobs[i] \in JobRecords /\ j_run[i].job \in JobRecords
        /\ j_jobs[i].status = "Running" /\ j_run[i] \in Runners
    BY <1>0, <1>4 DEF RunEngine, RunnerInv, Live
  <2>2. j_jobs' = j_jobs /\ j_next' = j_next /\ j_time' \in Nat
    BY <1>1, <1>4 DEF RunEngine
  <2>3. PICK r : /\ r \in Runners /\ r.pc \in {"attempt", "storing"} /\ r.job \in JobRecords
                 /\ j_run' = [j_run EXCEPT ![i] = r]
    <3>0. "attempt" \in Live /\ "storing" \in Live
      BY DEF Live
    <3> DEFINE job == mark_failed(j_run[i].job, "engine", j_time)
    <3>1. job \in JobRecords
      BY <1>0, <2>1, MarkedFailed
    <3>2. \/ j_run' = [j_run EXCEPT ![i] = RunnerAt("attempt", j_run[i].job, j_run[i])]
          \/ j_run' = [j_run EXCEPT ![i] = RunnerAt("storing", job, j_run[i])]
      BY <1>0, <1>4 DEF RunEngine
    <3> HIDE DEF job
    <3>3. \A x \in JobRecords : \A pc \in {"attempt", "storing"} :
             LET r == RunnerAt(pc, x, j_run[i])
             IN  r \in Runners /\ r.pc \in {"attempt", "storing"} /\ r.job \in JobRecords
      BY <2>1, <3>0, RunnerMoves
    <3> QED BY <2>1, <3>1, <3>2, <3>3
  <2>4. j_jobs' = [j_jobs EXCEPT ![i] = j_jobs[i]]
    BY <1>0, <2>2
  <2>5. j_jobs[i] \in JobRecords \cup {NoJob} /\ r.pc # "spawned"
    BY <2>1, <2>3
  <2> QED BY <2>1, <2>2, <2>3, <2>4, <2>5, RunnerKeeps
<1>5. ASSUME NEW i \in JobIds, RunAttempt(i) PROVE StoreInv'
  <2>1. /\ j_run[i].pc = "attempt" /\ j_jobs[i] \in JobRecords /\ j_run[i].job \in JobRecords
        /\ j_jobs[i].status = "Running" /\ j_run[i] \in Runners
    BY <1>0, <1>5 DEF RunAttempt, RunnerInv, Live
  <2>2. j_jobs' = j_jobs /\ j_next' = j_next /\ j_time' \in Nat
    BY <1>1, <1>5 DEF RunAttempt
  <2>3. PICK o \in Outcomes(j_run[i].guest) :
          j_run' = [j_run EXCEPT ![i] =
                      RunnerAt(IF o # "ok" /\ can_retry(AfterRun(j_run[i].job, o))
                               THEN "attempt" ELSE "storing", AfterRun(j_run[i].job, o), j_run[i])]
    BY <1>0, <1>5 DEF RunAttempt
  <2> DEFINE job == AfterRun(j_run[i].job, o)
             pc == IF o # "ok" /\ can_retry(job) THEN "attempt" ELSE "storing"
             r == RunnerAt(pc, job, j_run[i])
  <2>4. job \in JobRecords
    <3>1. mark_running(j_run[i].job) \in JobRecords
      BY <2>1, MarkedRunning
    <3>2. o = "ok" \/ o \in {"engine"} \cup RunErrors
      BY OutcomesKnown
    <3>3. CASE o = "ok"
      BY <1>0, <3>1, <3>3, MarkedCompleted DEF AfterRun
    <3>4. CASE o # "ok"
      BY <1>0, <3>1, <3>2, <3>4, MarkedFailed DEF AfterRun
    <3> QED BY <3>3, <3>4
  <2>5. pc \in {"attempt", "storing"}
    OBVIOUS
  <2>6. j_run' = [j_run EXCEPT ![i] = r]
    BY <2>3
  <2> HIDE DEF job, pc
  <2>7. r \in Runners /\ r.pc \in {"attempt", "storing"} /\ r.job \in JobRecords
    <3>1. pc \in Live
      BY <2>5 DEF Live
    <3> QED BY <2>1, <2>4, <2>5, <3>1, RunnerMoves
  <2> HIDE DEF r
  <2>8. j_jobs' = [j_jobs EXCEPT ![i] = j_jobs[i]]
    BY <1>0, <2>2
  <2>9. j_jobs[i] \in JobRecords \cup {NoJob} /\ r.pc # "spawned"
    BY <2>1, <2>7
  <2> QED BY <2>1, <2>2, <2>6, <2>7, <2>8, <2>9, RunnerKeeps
<1>6. ASSUME NEW i \in JobIds, RunStore(i) PROVE StoreInv'
  <2>1. j_run[i].pc = "storing" /\ j_jobs[i] \in JobRecords /\ j_run[i].job \in JobRecords
    BY <1>0, <1>6 DEF RunStore, RunnerInv, Live
  <2>2. j_jobs' = [j_jobs EXCEPT ![i] = j_run[i].job] /\ j_run' = [j_run EXCEPT ![i] = Ended]
        /\ j_next' = j_next /\ j_time' = j_time
    BY <1>0, <1>6, <2>1 DEF RunStore, StoredBack
  <2>3. Ended \in Runners /\ Ended.pc = "done"
    BY DEF Ended, NoRunner, Runners
  <2>4. j_run[i].job \in JobRecords \cup {NoJob} /\ j_jobs[i] # NoJob /\ j_time' \in Nat
        /\ Ended.pc # "spawned" /\ Ended.pc \notin Live
    BY <1>0, <2>1, <2>2, <2>3 DEF Live
  <2> QED BY <2>2, <2>3, <2>4, RunnerKeeps
<1>7. CASE SchedNext \/ UNCHANGED jobs_vars
  <2>1. UNCHANGED <<j_jobs, j_run, j_next, j_time>>
    BY <1>7 DEF SchedNext, SchedSubmit, SchedCancel, SchedPick, SchedExecute, jobs_vars, job_vars
  <2> QED BY <2>1 DEF StoreInv, JobsTypeOK, RunnerInv, Stored
<1> QED BY <1>2, <1>3, <1>4, <1>5, <1>6, <1>7 DEF JobsNext, StoreNext, JobRunner

(***************************************************************************)
(* For any number of submissions, guests and retries, in any order of the  *)
(* runners: the store stays within its bound, and eviction, which looks    *)
(* only at the status of the stored copy, never hits a job whose runner    *)
(* has yet to store its outcome.                                           *)
(***************************************************************************)
THEOREM LiveJobsKept == JobsSpec => []StoreKeepsLive
<1>1. StoreInv => StoreKeepsLive
  BY JobsAssumption DEF StoreInv, RunnerInv, StoreKeepsLive, Live
<1> QED BY <1>1, JobsInit_StoreInv, JobsNext_StoreInv, PTL DEF JobsSpec

-----------------------------------------------------------------------------
\* The scheduler's maps have a place for each job and each thread.
SchedInv ==
    /\ DOMAIN q_jobs = SchedJobs /\ q_jobs = [j \in SchedJobs |-> q_jobs[j]]
    /\ q_pick \in [Threads -> SchedJobs \cup {NoJob}]

LEMMA JobsNext_SchedInv == SchedInv /\ [JobsNext]_jobs_vars => SchedInv'
<1> SUFFICES ASSUME SchedInv, [JobsNext]_jobs_vars PROVE SchedInv'
  OBVIOUS
<1>1. CASE StoreNext \/ UNCHANGED jobs_vars
  <2>1. UNCHANGED sched_vars
    BY <1>1 DEF StoreNext, JobSubmit, JobRunner, RunStart, RunEngine, RunAttempt, RunStore,
                jobs_vars
  <2> QED BY <2>1 DEF SchedInv, sched_vars
<1>2. ASSUME NEW j \in SchedJobs, SchedSubmit(j) \/ SchedCancel(j) PROVE SchedInv'
  BY <1>2 DEF SchedInv, SchedSubmit, SchedCancel
<1>3. ASSUME NEW t \in Threads, SchedPick(t) PROVE SchedInv'
  BY <1>3 DEF SchedInv, SchedPick, Pending
<1>4. ASSUME NEW t \in Threads, SchedExecute(t) PROVE SchedInv'
  BY <1>4 DEF SchedInv, SchedExecute, execute_job
<1> QED BY <1>1, <1>2, <1>3, <1>4 DEF JobsNext, SchedNext

(***************************************************************************)
(* Whatever threads find the same job pending and come back late, no step  *)
(* of any of them changes a job that has completed, failed or been         *)
(* cancelled.                                                              *)
(***************************************************************************)
THEOREM EndedJobsStay == JobsSpec => TerminalIsFinal
<1>1. JobsInit => SchedInv
  BY DEF JobsInit, SchedInv
<1>2. SchedInv /\ [JobsNext]_jobs_vars =>
        [\A j \in SchedJobs :
            q_jobs[j] # NoJob /\ q_jobs[j].status \in Terminal => q_jobs'[j] = q_jobs[j]]_jobs_vars
  <2> SUFFICES ASSUME SchedInv, JobsNext, NEW j \in SchedJobs, q_jobs[j] # NoJob,
                      q_jobs[j].status \in Terminal
               PROVE  q_jobs'[j] = q_jobs[j]
    OBVIOUS
  <2>1. CASE StoreNext
    BY <2>1 DEF StoreNext, JobSubmit, JobRunner, RunStart, RunEngine, RunAttempt, RunStore,
                sched_vars
  <2>2. ASSUME NEW k \in SchedJobs, SchedSubmit(k) \/ SchedCancel(k) PROVE q_jobs'[j] = q_jobs[j]
    <3>1. k # j
      BY <2>2 DEF SchedSubmit, SchedCancel, Terminal
    <3> QED BY <2>2, <3>1 DEF SchedInv, SchedSubmit, SchedCancel
  <2>3. ASSUME NEW t \in Threads, SchedPick(t) PROVE q_jobs'[j] = q_jobs[j]
    BY <2>3 DEF SchedPick
  <2>4. ASSUME NEW t \in Threads, SchedExecute(t) PROVE q_jobs'[j] = q_jobs[j]
    <3>1. CASE q_pick[t] = j
      BY <2>4, <3>1 DEF SchedExecute, execute_job, Terminal
    <3>2. CASE q_pick[t] # j
      BY <2>4, <3>2 DEF SchedInv, SchedExecute, execute_job
    <3> QED BY <3>1, <3>2
  <2> QED BY <2>1, <2>2, <2>3, <2>4 DEF JobsNext, SchedNext
<1> QED BY <1>1, <1>2, JobsNext_SchedInv, PTL DEF JobsSpec, TerminalIsFinal

-----------------------------------------------------------------------------
(***************************************************************************)
(* Cluster: peers that ask in time apply every operation once and in order, *)
(* and quorums meet, for any number of peers and members and any size of   *)
(* the operation log.                                                      *)
(***************************************************************************)

(* Replicas: the oplog is the newest operations without a gap.             *)

\* How many of the oldest operations are trimmed, and the oplog that is left.
Trimmings(ops, latest) == latest - Len(ops)

IsOplog(ops, latest) ==
    /\ ops \in Seq(Nat) /\ latest \in Nat
    /\ Len(ops) = IF latest <= max_oplog_size THEN latest ELSE max_oplog_size
    /\ \A k \in 1 .. Len(ops) : ops[k] = Trimmings(ops, latest) + k

\* The filter of entries_since, entry by entry.
KeepStep(acc, s, bound) == IF s > bound THEN Append(acc, s) ELSE acc

IsKept(g, ops, bound, N) ==
    g = [k \in 0 .. N |-> IF k = 0 THEN <<>> ELSE KeepStep(g[k - 1], ops[k], bound)]

LEMMA KeptExists ==
    ASSUME NEW ops, NEW bound, NEW N \in Nat
    PROVE  \E g : IsKept(g, ops, bound, N)
<1> DEFINE S == {n \in Nat : \E g : IsKept(g, ops, bound, n)}
<1>1. 0 \in S
  <2>1. IsKept([k \in 0 .. 0 |-> <<>>], ops, bound, 0)
    BY DEF IsKept
  <2> QED BY <2>1
<1>2. ASSUME NEW n \in 0 .. N - 1, n \in S
      PROVE  n + 1 \in S
  <2>1. PICK g : IsKept(g, ops, bound, n)
    BY <1>2
  <2> DEFINE h == [k \in 0 .. n + 1 |-> IF k = n + 1 THEN KeepStep(g[n], ops[n + 1], bound) ELSE g[k]]
  <2>2. \A k \in 0 .. n + 1 : h[k] = IF k = 0 THEN <<>> ELSE KeepStep(h[k - 1], ops[k], bound)
    <3> TAKE k \in 0 .. n + 1
    <3>1. CASE k = n + 1
      BY <3>1
    <3>2. CASE k # n + 1 /\ k # 0
      <4>1. k \in 0 .. n /\ k - 1 \in 0 .. n + 1 /\ k - 1 # n + 1
        BY <3>2
      <4>2. g[k] = KeepStep(g[k - 1], ops[k], bound)
        BY <2>1, <3>2, <4>1 DEF IsKept
      <4> QED BY <3>2, <4>1, <4>2
    <3>3. CASE k = 0
      <4>1. 0 \in 0 .. n /\ 0 # n + 1
        OBVIOUS
      <4>2. g[0] = <<>>
        BY <2>1, <4>1 DEF IsKept
      <4> QED BY <3>3, <4>1, <4>2
    <3> QED BY <3>1, <3>2, <3>3
  <2>3. h = [k \in 0 .. n + 1 |-> h[k]]
    OBVIOUS
  <2> HIDE DEF h
  <2>4. IsKept(h, ops, bound, n + 1)
    BY <2>2, <2>3 DEF IsKept
  <2> QED BY <2>4
<1>3. 0 .. N \subseteq S
  <2> HIDE DEF S
  <2> QED BY <1>1, <1>2, UpTo
<1> QED BY <1>3

LEMMA EntriesKept ==
    ASSUME NEW bound, Len(oplog) \in Nat
    PROVE  \E g : /\ entries_since(bound) = g[Len(oplog)]
                  /\ g[0] = <<>>
                  /\ \A k \in 1 .. Len(oplog) : g[k] = KeepStep(g[k - 1], oplog[k], bound)
<1> DEFINE g == CHOOSE g : IsKept(g, oplog, bound, Len(oplog))
<1>1. IsKept(g, oplog, bound, Len(oplog))
  BY KeptExists, Zenon
<1>2. entries_since(bound) = g[Len(oplog)]
  BY Zenon DEF entries_since, IsKept, KeepStep
<1> HIDE DEF g
<1>3. g = [k \in 0 .. Len(oplog) |-> IF k = 0 THEN <<>> ELSE KeepStep(g[k - 1], oplog[k], bound)]
  BY <1>1 DEF IsKept
<1>4. g[0] = <<>> /\ \A k \in 1 .. Len(oplog) : g[k] = KeepStep(g[k - 1], oplog[k], bound)
  BY <1>3
<1> QED BY <1>2, <1>4

(***************************************************************************)
(* entries_since gives what is in the oplog behind `bound`, in order.      *)
(***************************************************************************)
LEMMA EntriesSince ==
    ASSUME IsOplog(oplog, latest_seq), NEW bound \in Nat, bound <= latest_seq,
           NEW m \in Nat, m = IF bound > Trimmings(oplog, latest_seq) THEN bound
                              ELSE Trimmings(oplog, latest_seq)
    PROVE  /\ m <= latest_seq
           /\ entries_since(bound) \in Seq(Nat)
           /\ Len(entries_since(bound)) = latest_seq - m
           /\ \A j \in 1 .. latest_seq - m : entries_since(bound)[j] = m + j
<1> DEFINE L == Len(oplog)
           a == Trimmings(oplog, latest_seq)
<1>1. L \in Nat /\ a \in Nat /\ latest_seq = a + L /\ latest_seq \in Nat
      /\ \A k \in 1 .. L : oplog[k] = a + k
  BY ClusterAssumption DEF IsOplog, Trimmings
<1>2. PICK g : /\ entries_since(bound) = g[L]
               /\ g[0] = <<>>
               /\ \A k \in 1 .. L : g[k] = KeepStep(g[k - 1], oplog[k], bound)
  BY <1>1, EntriesKept
<1>3. m = IF bound > a THEN bound ELSE a
  OBVIOUS
<1> HIDE DEF L, a
<1> DEFINE N(k) == IF a + k <= m THEN 0 ELSE (a + k) - m
           S == {k \in 0 .. L : /\ g[k] \in Seq(Nat) /\ Len(g[k]) = N(k)
                                /\ \A j \in 1 .. N(k) : g[k][j] = m + j}
<1>4. 0 \in S
  <2>1. N(0) = 0 /\ 0 \in 0 .. L
    BY <1>1, <1>3
  <2>2. g[0] \in Seq(Nat) /\ Len(g[0]) = 0
    BY <1>2
  <2> QED BY <2>1, <2>2
<1>5. ASSUME NEW k \in 0 .. L - 1, k \in S
      PROVE  k + 1 \in S
  <2>1. k + 1 \in 1 .. L /\ k + 1 \in 0 .. L /\ (k + 1) - 1 = k
    BY <1>1
  <2>2. g[k + 1] = KeepStep(g[k], a + (k + 1), bound)
    BY <1>1, <1>2, <2>1
  <2>3. CASE a + (k + 1) > bound
    <3>1. g[k + 1] = Append(g[k], a + (k + 1)) /\ a + (k + 1) \in Nat
      BY <1>1, <2>2, <2>3 DEF KeepStep
    <3>2. N(k + 1) = N(k) + 1 /\ m + N(k + 1) = a + (k + 1) /\ N(k) \in Nat
      BY <1>1, <1>3, <2>3
    <3>3. g[k] \in Seq(Nat) /\ Len(g[k]) = N(k) /\ \A j \in 1 .. N(k) : g[k][j] = m + j
      BY <1>5
    <3> HIDE DEF N
    <3>4. g[k + 1] \in Seq(Nat) /\ Len(g[k + 1]) = N(k + 1)
      BY <3>1, <3>2, <3>3
    <3>5. ASSUME NEW j \in 1 .. N(k + 1) PROVE g[k + 1][j] = m + j
      <4>1. CASE j = N(k + 1)
        BY <3>1, <3>2, <3>3, <4>1
      <4>2. CASE j # N(k + 1)
        <5>1. j \in 1 .. N(k)
          BY <3>2, <4>2
        <5>2. g[k + 1][j] = g[k][j]
          BY <3>1, <3>3, <5>1
        <5> QED BY <3>3, <5>1, <5>2
      <4> QED BY <4>1, <4>2
    <3> QED BY <2>1, <3>4, <3>5
  <2>4. CASE ~(a + (k + 1) > bound)
    <3>1. g[k + 1] = g[k]
      BY <2>2, <2>4 DEF KeepStep
    <3>2. N(k + 1) = N(k)
      BY <1>1, <1>3, <2>4
    <3> QED BY <1>5, <2>1, <3>1, <3>2
  <2> QED BY <2>3, <2>4
<1>6. L \in S
  <2>1. 0 .. L \subseteq S
    <3> HIDE DEF S
    <3> QED BY <1>1, <1>4, <1>5, UpTo
  <2> QED BY <1>1, <2>1
<1>7. m <= latest_seq /\ N(L) = latest_seq - m
  BY <1>1, <1>3
<1> QED BY <1>2, <1>6, <1>7

\* The inductive invariant: a peer is never ahead of the oplog, and reports,
\* however late, and what is recorded of a peer never ahead of the peer.
ReplicaInv ==
    /\ next_seq \in Nat \ {0} /\ IsOplog(oplog, latest_seq)
    /\ applied \in [Peers -> Seq(Nat)]
    /\ \A p \in Peers : LastApplied(p) \in 0 .. latest_seq
    /\ \A p \in Peers \ overrun : \A k \in 1 .. Len(applied[p]) : applied[p][k] = k
    /\ \A r \in reports : r.peer \in Peers /\ r.seq \in 0 .. LastApplied(r.peer)
    /\ peers = [p \in Peers |-> peers[p]]
    /\ \A p \in Peers : peers[p] # Unknown => peers[p].last \in 0 .. LastApplied(p)

\* Trimming keeps the newest operations.
LEMMA AppendOplog ==
    ASSUME NEW ops, NEW latest, IsOplog(ops, latest)
    PROVE  IsOplog(Trimmed(Append(ops, latest + 1)), latest + 1)
<1> DEFINE l == Append(ops, latest + 1)
           L == Len(ops)
           M == max_oplog_size
<1>1. ops \in Seq(Nat) /\ latest \in Nat /\ L \in Nat /\ M \in Nat
      /\ L = (IF latest <= M THEN latest ELSE M) /\ \A k \in 1 .. L : ops[k] = (latest - L) + k
  BY ClusterAssumption DEF IsOplog, Trimmings
<1>2. l \in Seq(Nat) /\ Len(l) = L + 1 /\ \A k \in 1 .. L + 1 : l[k] = (latest - L) + k
  <2>1. l \in Seq(Nat) /\ Len(l) = L + 1 /\ l[L + 1] = latest + 1 /\ \A k \in 1 .. L : l[k] = ops[k]
    BY <1>1
  <2> HIDE DEF l, L
  <2>2. ASSUME NEW k \in 1 .. L + 1 PROVE l[k] = (latest - L) + k
    <3>1. CASE k = L + 1
      BY <1>1, <2>1, <3>1
    <3>2. CASE k # L + 1
      <4>1. k \in 1 .. L
        BY <1>1, <3>2
      <4> QED BY <1>1, <2>1, <4>1
    <3> QED BY <3>1, <3>2
  <2> QED BY <2>1, <2>2
<1> HIDE DEF l, L
<1>3. CASE L + 1 > M
  <2> DEFINE t == SubSeq(l, (L + 1) - M + 1, L + 1)
  <2>1. L = M /\ Trimmed(l) = t
    BY <1>1, <1>2, <1>3 DEF Trimmed
  <2>2. t = SubSeq(l, 2, M + 1) /\ M + 1 \in Nat /\ Len(l) = M + 1
    BY <1>1, <1>2, <2>1, SMTT(25)
  <2> HIDE DEF t, M
  <2>3. t \in Seq(Nat) /\ Len(t) = M /\ \A k \in 1 .. M : t[k] = l[k + 1]
    BY <1>1, <1>2, <2>2
  <2>4. ASSUME NEW k \in 1 .. M PROVE t[k] = ((latest + 1) - M) + k
    <3>1. k + 1 \in 1 .. L + 1
      BY <1>1, <2>1
    <3>2. t[k] = (latest - L) + (k + 1)
      BY <1>2, <2>3, <3>1
    <3> QED BY <1>1, <2>1, <3>2
  <2>5. Len(t) = (IF latest + 1 <= M THEN latest + 1 ELSE M) /\ latest + 1 \in Nat
    BY <1>1, <1>3, <2>1, <2>3
  <2> QED BY <2>1, <2>3, <2>4, <2>5 DEF IsOplog, Trimmings, l, M
<1>4. CASE ~(L + 1 > M)
  <2>1. Trimmed(l) = l /\ L = latest
    BY <1>1, <1>2, <1>4 DEF Trimmed
  <2> QED BY <1>1, <1>2, <1>4, <2>1 DEF IsOplog, Trimmings, l
<1> QED BY <1>1, <1>3, <1>4

LEMMA ReplicaInit == ClusterInit => ReplicaInv
<1> SUFFICES ASSUME ClusterInit PROVE ReplicaInv
  OBVIOUS
<1>1. latest_seq = 0 /\ <<>> \in Seq(Nat) /\ Len(<<>>) = 0
  BY DEF ClusterInit, latest_seq
<1>2. IsOplog(oplog, latest_seq)
  BY <1>1, ClusterAssumption DEF ClusterInit, IsOplog, Trimmings
<1>3. \A p \in Peers : LastApplied(p) = 0
  BY DEF ClusterInit, LastApplied
<1> QED BY <1>1, <1>2, <1>3 DEF ClusterInit, ReplicaInv

\* The number of the last entry of a log, 0 when it is empty.
LastOf(s) == IF s = <<>> THEN 0 ELSE Last(s)

LEMMA LastConcat ==
    ASSUME NEW s \in Seq(Nat), NEW t \in Seq(Nat)
    PROVE  /\ s \o t \in Seq(Nat) /\ Len(s \o t) = Len(s) + Len(t)
           /\ LastOf(s \o t) = IF t = <<>> THEN LastOf(s) ELSE Last(t)
<1>1. s \o t \in Seq(Nat) /\ Len(s \o t) = Len(s) + Len(t)
  OBVIOUS
<1>2. CASE t = <<>>
  BY <1>2
<1>3. CASE t # <<>>
  <2>1. Len(t) \in Nat /\ Len(t) > 0 /\ Len(s) \in Nat
    BY <1>3
  <2>2. s \o t # <<>>
    BY <1>1, <2>1
  <2>3. (s \o t)[Len(s) + Len(t)] = t[Len(t)]
    BY <2>1
  <2> QED BY <1>1, <1>3, <2>2, <2>3 DEF LastOf, Last
<1> QED BY <1>1, <1>2, <1>3

\* A peer that asks gets on, and without a gap unless it asks too late.
LEMMA PullInv ==
    ASSUME ReplicaInv, NEW p \in Peers, Pull(p)
    PROVE  ReplicaInv'
<1> PICK from, page, latest : from = LastApplied(p) /\ page = entries_since(LastApplied(p))
                             /\ latest = latest_seq
  OBVIOUS
<1> DEFINE upto == IF page = <<>> THEN from ELSE Last(page)
           a == Trimmings(oplog, latest)
           m == IF from > a THEN from ELSE a
<1>1. /\ applied' = [applied EXCEPT ![p] = @ \o page]
      /\ overrun' = IF latest - from > max_oplog_size THEN overrun \cup {p} ELSE overrun
      /\ reports' = reports \cup {[peer |-> p, seq |-> upto]}
      /\ UNCHANGED <<oplog, next_seq, peers>>
  BY DEF Pull
<1>2. latest \in Nat /\ from \in 0 .. latest /\ from \in Nat /\ a \in Nat /\ m \in Nat
      /\ max_oplog_size \in Nat
  BY ClusterAssumption DEF ReplicaInv, IsOplog, Trimmings
<1>3. a = IF latest <= max_oplog_size THEN 0 ELSE latest - max_oplog_size
  BY <1>2 DEF ReplicaInv, IsOplog, Trimmings
<1>m. m = (IF from > a THEN from ELSE a) /\ a = Trimmings(oplog, latest)
  OBVIOUS
<1> HIDE DEF a, m
<1>4. /\ m <= latest /\ page \in Seq(Nat) /\ Len(page) = latest - m
      /\ \A j \in 1 .. latest - m : page[j] = m + j
  <2>1. IsOplog(oplog, latest_seq) /\ from <= latest_seq
    BY <1>2 DEF ReplicaInv
  <2>2. m = IF from > Trimmings(oplog, latest_seq) THEN from ELSE Trimmings(oplog, latest_seq)
    BY <1>m
  <2> QED BY <1>2, <2>1, <2>2, EntriesSince, ZenonT(40)
<1>5. upto \in from .. latest /\ upto \in Nat
  <2>1. CASE page = <<>>
    BY <1>2, <2>1
  <2>2. CASE page # <<>>
    <3>1. latest - m > 0
      BY <1>2, <1>4, <2>2, EmptySeq
    <3>2. Last(page) = page[latest - m] /\ latest - m \in 1 .. latest - m
      BY <1>2, <1>4, <3>1 DEF Last
    <3>3. upto = latest
      BY <1>2, <1>4, <2>2, <3>2
    <3> QED BY <1>2, <3>3
  <2> QED BY <2>1, <2>2
<1> HIDE DEF upto
<1>6. /\ applied' \in [Peers -> Seq(Nat)]
      /\ applied'[p] = applied[p] \o page
      /\ \A q \in Peers \ {p} : applied'[q] = applied[q]
  <2>1. applied \in [Peers -> Seq(Nat)]
    BY DEF ReplicaInv
  <2>2. applied[p] \o page \in Seq(Nat)
    BY <1>4, <2>1, LastConcat
  <2> QED BY <1>1, <2>1, <2>2
<1>7. LastApplied(p)' = upto
  <2>1. LastApplied(p)' = LastOf(applied'[p]) /\ from = LastOf(applied[p])
    BY DEF LastApplied, LastOf
  <2>2. applied[p] \in Seq(Nat)
    BY DEF ReplicaInv
  <2>3. LastOf(applied[p] \o page) = IF page = <<>> THEN LastOf(applied[p]) ELSE Last(page)
    BY <1>4, <2>2, LastConcat
  <2> QED BY <1>6, <2>1, <2>3 DEF upto
<1>8. \A q \in Peers \ {p} : LastApplied(q)' = LastApplied(q)
  BY <1>6 DEF LastApplied
<1>9. latest_seq' = latest
  BY <1>1 DEF latest_seq
<1>10. next_seq' \in Nat \ {0} /\ IsOplog(oplog', latest_seq') /\ peers' = [q \in Peers |-> peers'[q]]
  BY <1>1, <1>9 DEF ReplicaInv
<1>11. \A q \in Peers : LastApplied(q)' \in 0 .. latest_seq' /\ LastApplied(q) \in Nat
                        /\ LastApplied(q)' \in Nat /\ LastApplied(q)' >= LastApplied(q)
  <2> TAKE q \in Peers
  <2>1. LastApplied(q) \in 0 .. latest
    BY DEF ReplicaInv
  <2>2. CASE q = p
    BY <1>2, <1>5, <1>7, <1>9, <2>2
  <2>3. CASE q # p
    <3>1. LastApplied(q)' = LastApplied(q)
      BY <1>8, <2>3
    <3> QED BY <1>2, <1>9, <2>1, <3>1
  <2> QED BY <2>2, <2>3
<1>12. ASSUME NEW q \in Peers \ overrun', NEW k \in 1 .. Len(applied'[q]) PROVE applied'[q][k] = k
  <2>1. q \in Peers \ overrun /\ (q = p => latest - from <= max_oplog_size)
    BY <1>1, <1>2, <1>12
  <2>2. \A j \in 1 .. Len(applied[q]) : applied[q][j] = j
    BY <2>1 DEF ReplicaInv
  <2>3. CASE q # p
    BY <1>6, <2>2, <2>3
  <2>4. CASE q = p
    <3>1. applied[p] \in Seq(Nat) /\ Len(applied[p]) \in Nat
      BY DEF ReplicaInv
    <3>2. from = Len(applied[p])
      <4>1. CASE applied[p] = <<>>
        BY <4>1 DEF LastApplied
      <4>2. CASE applied[p] # <<>>
        <5>1. Len(applied[p]) \in 1 .. Len(applied[p])
          BY <3>1, <4>2, EmptySeq
        <5>2. from = applied[p][Len(applied[p])]
          BY <4>2 DEF LastApplied, Last
        <5> QED BY <2>2, <2>4, <5>1, <5>2
      <4> QED BY <4>1, <4>2
    <3>3. m = from
      BY <1>2, <1>3, <1>m, <2>1, <2>4
    <3>4. k \in 1 .. Len(applied[p]) + Len(page) /\ Len(page) \in Nat
      BY <1>4, <1>6, <2>4, <3>1, LastConcat
    <3>5. CASE k <= Len(applied[p])
      <4>1. k \in 1 .. Len(applied[p])
        BY <3>1, <3>4, <3>5
      <4>2. (applied[p] \o page)[k] = applied[p][k]
        BY <1>4, <3>1, <4>1
      <4> QED BY <1>6, <2>2, <2>4, <4>1, <4>2
    <3>6. CASE ~(k <= Len(applied[p]))
      <4>1. k - from \in 1 .. latest - m /\ k - from \in 1 .. Len(page) /\ m + (k - from) = k
        BY <1>2, <1>4, <3>1, <3>2, <3>3, <3>4, <3>6
      <4>2. (applied[p] \o page)[k] = page[k - Len(applied[p])]
        BY <1>4, <3>1, <3>4, <3>6
      <4> QED BY <1>4, <1>6, <2>4, <3>2, <4>1, <4>2
    <3> QED BY <3>5, <3>6
  <2> QED BY <2>3, <2>4
<1>13. ASSUME NEW r \in reports' PROVE r.peer \in Peers /\ r.seq \in 0 .. LastApplied(r.peer)'
  <2>1. CASE r \in reports
    <3>1. r.peer \in Peers /\ r.seq \in 0 .. LastApplied(r.peer)
      BY <2>1 DEF ReplicaInv
    <3> QED BY <1>11, <3>1
  <2>2. CASE r = [peer |-> p, seq |-> upto]
    <3>1. r.peer = p /\ r.seq = upto
      BY <2>2
    <3> QED BY <1>5, <1>7, <3>1
  <2> QED BY <1>1, <1>13, <2>1, <2>2
<1>14. ASSUME NEW q \in Peers, peers'[q] # Unknown PROVE peers'[q].last \in 0 .. LastApplied(q)'
  <2>1. peers[q].last \in 0 .. LastApplied(q) /\ peers' = peers
    BY <1>1, <1>14 DEF ReplicaInv
  <2> QED BY <1>11, <2>1
<1> QED BY <1>6, <1>10, <1>11, <1>12, <1>13, <1>14 DEF ReplicaInv

LEMMA AppendInv ==
    ASSUME ReplicaInv, append
    PROVE  ReplicaInv'
<1>1. /\ oplog' = Trimmed(Append(oplog, next_seq)) /\ next_seq' = next_seq + 1
      /\ peers' = peers /\ applied' = applied /\ overrun' = overrun /\ reports' = reports
  BY DEF append
<1>2. next_seq \in Nat \ {0} /\ latest_seq \in Nat /\ latest_seq + 1 = next_seq
      /\ latest_seq' = latest_seq + 1
  BY <1>1 DEF ReplicaInv, latest_seq
<1>3. IsOplog(oplog', latest_seq')
  <2>1. IsOplog(Trimmed(Append(oplog, latest_seq + 1)), latest_seq + 1)
    BY AppendOplog DEF ReplicaInv
  <2> QED BY <1>1, <1>2, <2>1
<1>4. \A p : LastApplied(p)' = LastApplied(p)
  BY <1>1 DEF LastApplied
<1>5. \A p \in Peers : LastApplied(p)' \in 0 .. latest_seq'
  BY <1>2, <1>4 DEF ReplicaInv
<1>6. next_seq' \in Nat \ {0}
  BY <1>1, <1>2
<1> QED BY <1>1, <1>3, <1>4, <1>5, <1>6 DEF ReplicaInv

\* What the replicator knows of one peer changes.
LEMMA PeersInv ==
    ASSUME ReplicaInv, NEW p \in Peers, NEW x,
           peers' = peers \/ peers' = [peers EXCEPT ![p] = x],
           x # Unknown => x.last \in 0 .. LastApplied(p),
           UNCHANGED <<oplog, next_seq, applied, overrun, reports>>
    PROVE  ReplicaInv'
<1>1. latest_seq' = latest_seq /\ \A q : LastApplied(q)' = LastApplied(q)
  BY DEF latest_seq, LastApplied
<1>2. peers' = [q \in Peers |-> peers'[q]]
  BY DEF ReplicaInv
<1>3. ASSUME NEW q \in Peers, peers'[q] # Unknown PROVE peers'[q].last \in 0 .. LastApplied(q)'
  <2>1. peers'[q] = peers[q] \/ (q = p /\ peers'[q] = x)
    BY DEF ReplicaInv
  <2>2. peers[q] # Unknown => peers[q].last \in 0 .. LastApplied(q)
    BY DEF ReplicaInv
  <2> QED BY <1>1, <1>3, <2>1, <2>2
<1> QED BY <1>1, <1>2, <1>3 DEF ReplicaInv

LEMMA ReplicaStep == ReplicaInv /\ [ClusterNext]_cluster_vars => ReplicaInv'
<1> SUFFICES ASSUME ReplicaInv, [ClusterNext]_cluster_vars PROVE ReplicaInv'
  OBVIOUS
<1>1. CASE append
  BY <1>1, AppendInv
<1>2. ASSUME NEW p \in Peers, register_peer(p) PROVE ReplicaInv'
  <2> DEFINE x == [last |-> 0, lag |-> 0]
  <2>1. /\ peers' = peers \/ peers' = [peers EXCEPT ![p] = x]
        /\ UNCHANGED <<oplog, next_seq, applied, overrun, reports>>
    BY <1>2 DEF register_peer
  <2>2. x.last \in 0 .. LastApplied(p)
    BY DEF ReplicaInv
  <2> HIDE DEF x
  <2> QED BY <2>1, <2>2, PeersInv
<1>3. ASSUME NEW p \in Peers, remove_peer(p) PROVE ReplicaInv'
  <2>1. /\ peers' = [peers EXCEPT ![p] = Unknown]
        /\ UNCHANGED <<oplog, next_seq, applied, overrun, reports>>
    BY <1>3 DEF remove_peer
  <2> QED BY <2>1, PeersInv
<1>4. ASSUME NEW p \in Peers, Pull(p) PROVE ReplicaInv'
  BY <1>4, PullInv
<1>5. ASSUME NEW r \in reports, update_peer(r.peer, r.seq) PROVE ReplicaInv'
  <2> DEFINE x == [last |-> r.seq, lag |-> IF r.seq > latest_seq THEN 0 ELSE latest_seq - r.seq]
  <2>1. /\ peers' = peers \/ peers' = [peers EXCEPT ![r.peer] = x]
        /\ UNCHANGED <<oplog, next_seq, applied, overrun, reports>>
    BY <1>5 DEF update_peer
  <2>2. x.last = r.seq
    OBVIOUS
  <2>3. r.peer \in Peers /\ x.last \in 0 .. LastApplied(r.peer)
    BY <2>2 DEF ReplicaInv
  <2> HIDE DEF x
  <2> QED BY <2>1, <2>3, PeersInv
<1>6. CASE UNCHANGED repl_vars
  <2>1. latest_seq' = latest_seq /\ \A q : LastApplied(q)' = LastApplied(q)
    BY <1>6 DEF latest_seq, LastApplied, repl_vars
  <2> QED BY <1>6, <2>1 DEF ReplicaInv, repl_vars
<1>7. CASE MembershipNext
  BY <1>6, <1>7 DEF MembershipNext, add_node, remove_node, heartbeat, mark_suspect, mark_dead, SetNode
<1>8. CASE UNCHANGED cluster_vars
  BY <1>6, <1>8 DEF cluster_vars
<1> QED BY <1>1, <1>2, <1>3, <1>4, <1>5, <1>7, <1>8 DEF ClusterNext, ReplicatorNext

\* Two majorities of the members two nodes know have a member in common.
LEMMA QuorumsMeet ==
    ASSUME NEW v, NEW w, has_quorum(v), has_quorum(w), Known(v) = Known(w)
    PROVE  alive_nodes(v) \cap alive_nodes(w) # {}
<1> SUFFICES ASSUME alive_nodes(v) \cap alive_nodes(w) = {} PROVE FALSE
  OBVIOUS
<1> PICK K, A, B : K = Known(v) /\ A = alive_nodes(v) /\ B = alive_nodes(w)
  OBVIOUS
<1>1. IsFiniteSet(K)
  <2>1. K \subseteq Members
    BY DEF Known
  <2> QED BY <2>1, ClusterAssumption, FS_Subset
<1>2. A \in SUBSET K /\ B \in SUBSET K /\ A \cap B = {}
  BY DEF alive_nodes
<1>3. IsFiniteSet(A) /\ IsFiniteSet(B) /\ A \cup B \in SUBSET K
  BY <1>1, <1>2, FS_Subset
<1>4. Cardinality(A) \in Nat /\ Cardinality(B) \in Nat /\ Cardinality(K) \in Nat
  BY <1>1, <1>3, FS_CardinalityType
<1>5. Cardinality(A \cup B) = Cardinality(A) + Cardinality(B)
  <2>1. Cardinality(A \cup B) = Cardinality(A) + Cardinality(B) - Cardinality(A \cap B)
    BY <1>3, FS_Union
  <2>2. Cardinality(A \cap B) = 0
    BY <1>2, FS_EmptySet
  <2> QED BY <1>4, <2>1, <2>2
<1>6. Cardinality(A \cup B) <= Cardinality(K)
  BY <1>1, <1>3, FS_Subset
<1>7. Cardinality(A) > Cardinality(K) \div 2 /\ Cardinality(B) > Cardinality(K) \div 2
  BY DEF has_quorum
<1> QED BY <1>4, <1>5, <1>6, <1>7

LEMMA ReplicaFollows == ReplicaInv => ReplicasFollow
<1> SUFFICES ASSUME ReplicaInv PROVE ReplicasFollow
  OBVIOUS
<1>1. ASSUME NEW p \in Peers, peers[p] # Unknown
      PROVE  /\ peers[p].last <= LastApplied(p)
             /\ latest_seq - peers[p].last <= max_oplog_size
                  => \A s \in peers[p].last + 1..latest_seq : s \in Range(entries_since(peers[p].last))
  <2> PICK from, latest, page : from = peers[p].last /\ latest = latest_seq /\ page = entries_since(from)
    OBVIOUS
  <2>1. from \in 0 .. LastApplied(p) /\ LastApplied(p) \in 0 .. latest /\ latest \in Nat
    BY <1>1 DEF ReplicaInv, IsOplog
  <2>2. from \in Nat /\ from <= latest /\ from <= LastApplied(p)
    BY <2>1
  <2>3. ASSUME latest - from <= max_oplog_size, NEW s \in from + 1 .. latest
        PROVE  s \in Range(page)
    <3>0. Len(oplog) = (IF latest <= max_oplog_size THEN latest ELSE max_oplog_size)
          /\ max_oplog_size \in Nat
      BY ClusterAssumption DEF ReplicaInv, IsOplog
    <3>1. Trimmings(oplog, latest) \in Nat /\ from >= Trimmings(oplog, latest)
      BY <2>1, <2>2, <2>3, <3>0 DEF Trimmings
    <3>2. from = IF from > Trimmings(oplog, latest) THEN from ELSE Trimmings(oplog, latest)
      BY <2>2, <3>1
    <3>3. /\ page \in Seq(Nat) /\ Len(page) = latest - from
          /\ \A j \in 1 .. latest - from : page[j] = from + j
      BY <2>2, <3>2, EntriesSince DEF ReplicaInv
    <3>4. s - from \in 1 .. latest - from /\ from + (s - from) = s
      BY <2>1, <2>2
    <3>5. s = page[s - from] /\ s - from \in DOMAIN page
      BY <3>3, <3>4
    <3> QED BY <3>5 DEF Range
  <2> QED BY <2>2, <2>3
<1>2. \A p \in Peers \ overrun : \A k \in 1..Len(applied[p]) : applied[p][k] = k
  BY DEF ReplicaInv
<1> QED BY <1>1, <1>2, QuorumsMeet DEF ReplicasFollow

(***************************************************************************)
(* For any number of peers, members and nodes and any size of the oplog: a *)
(* peer that never asked later than the oplog reaches has applied every    *)
(* operation once and in order, the replicator never takes a peer to be    *)
(* further than it is, and two quorums of the same members meet            *)
(* (replicator.rs append, entries_since, update_peer; cluster.rs           *)
(* has_quorum).                                                            *)
(***************************************************************************)
THEOREM ReplicasAlwaysFollow == ClusterSpec => []ReplicasFollow
<1>1. ClusterInit => ReplicaInv
  BY ReplicaInit
<1>2. ReplicaInv /\ [ClusterNext]_cluster_vars => ReplicaInv'
  BY ReplicaStep
<1>3. ReplicaInv => ReplicasFollow
  BY ReplicaFollows
<1> QED BY <1>1, <1>2, <1>3, PTL DEF ClusterSpec
===============================================================================
