--------------------------- MODULE Services_proofs ----------------------------
(***************************************************************************)
(* What the services around the engine promise: connection admission, the  *)
(* notifications of changes, who may do what to which row, and the fan-out *)
(* of posts and their search index.                                        *)
(***************************************************************************)
EXTENDS Admission, Notifications, Access, Social,
        FiniteSetTheorems, SequenceTheorems, WellFoundedInduction, TLAPS

(* A set that holds 0, and n + 1 with n, holds all numbers up to N: what   *)
(* the inductions below rest on.                                           *)
LEMMA UpTo ==
    ASSUME NEW N \in Nat, NEW S, 0 \in S, \A n \in 0 .. N - 1 : n \in S => n + 1 \in S
    PROVE  0 .. N \subseteq S
<1> DEFINE T == {n \in 0 .. N : n \notin S}
<1> SUFFICES ASSUME T # {} PROVE FALSE
  OBVIOUS
<1>1. T \subseteq Nat
  OBVIOUS
<1>2. PICK m \in T : \A k \in T : ~(<<k, m>> \in OpToRel(<, Nat))
  <2> HIDE DEF T
  <2> QED BY <1>1, NatLessThanWellFounded, WFMin
<1>3. \A k \in T : ~(k < m)
  BY <1>1, <1>2 DEF OpToRel
<1>4. m \in 0 .. N /\ m \notin S /\ m # 0
  OBVIOUS
<1>5. m - 1 \in 0 .. N - 1 /\ m - 1 < m /\ (m - 1) + 1 = m
  BY <1>4
<1>6. m - 1 \in S
  BY <1>3, <1>5
<1> QED BY <1>4, <1>5, <1>6

-----------------------------------------------------------------------------
(***************************************************************************)
(* Admission: the counters are exact, for every number of connections, every *)
(* assignment of addresses and every limit.                                *)
(***************************************************************************)

\* A task that is about to give its slot back has loaded a positive count, so
\* the saturating branch of release_connection is never taken.
ReleaseLoaded == \A c \in Conns : pc[c] = "release" => current[c] > 0

\* The inductive invariant.
IInv == TypeOK /\ SlotsExact /\ IpsExact /\ ReleaseLoaded

-----------------------------------------------------------------------------
\* Adding or removing a task changes the size of a set of tasks by one.
LEMMA CountStep ==
  ASSUME NEW S \in SUBSET Conns, NEW c \in Conns
  PROVE  /\ Cardinality(S) \in Nat
         /\ c \notin S => Cardinality(S \union {c}) = Cardinality(S) + 1
         /\ c \in S => Cardinality(S) > 0 /\ Cardinality(S \ {c}) = Cardinality(S) - 1
<1>1. IsFiniteSet(S)
  BY FS_Subset, AdmissionAssumption
<1>2. Cardinality(S) \in Nat
  BY <1>1, FS_CardinalityType
<1>3. c \notin S => Cardinality(S \union {c}) = Cardinality(S) + 1
  BY <1>1, FS_AddElement
<1>4. ASSUME c \in S PROVE Cardinality(S) > 0 /\ Cardinality(S \ {c}) = Cardinality(S) - 1
  <2>1. Cardinality(S \ {c}) = Cardinality(S) - 1
    BY <1>1, <1>4, FS_RemoveElement
  <2>2. Cardinality(S) # 0
    BY <1>1, <1>4, FS_EmptySet
  <2> QED BY <1>2, <2>1, <2>2
<1> QED BY <1>2, <1>3, <1>4

\* Slots at the beginning and end of a step that moves one task: the holders
\* change only when the task comes to hold a slot or ceases to.
LEMMA SlotHoldersStep ==
  ASSUME TypeOK, NEW c \in Conns, NEW l, pc' = [pc EXCEPT ![c] = l]
  PROVE  SlotHolders' = IF l \in {"open", "release"}
                        THEN SlotHolders \union {c} ELSE SlotHolders \ {c}
BY DEF TypeOK, SlotHolders

LEMMA IpHoldersStep ==
  ASSUME TypeOK, NEW c \in Conns, NEW l, pc' = [pc EXCEPT ![c] = l], NEW a \in Ips
  PROVE  IpHolders(a)' =
           IF peer_ip[c] # a THEN IpHolders(a)
           ELSE IF l \in {"load", "acquire", "open", "release", "leave"}
           THEN IpHolders(a) \union {c} ELSE IpHolders(a) \ {c}
BY DEF TypeOK, IpHolders

-----------------------------------------------------------------------------
LEMMA InitInv == Init => IInv
<1> SUFFICES ASSUME Init PROVE IInv
  OBVIOUS
<1>1. TypeOK
  BY AdmissionAssumption DEF Init, TypeOK
<1>2. SlotHolders = {} /\ \A a \in Ips : IpHolders(a) = {}
  BY DEF Init, SlotHolders, IpHolders
<1>3. SlotsExact /\ IpsExact
  BY <1>2, FS_EmptySet DEF Init, SlotsExact, IpsExact
<1>4. ReleaseLoaded
  BY DEF Init, ReleaseLoaded
<1> QED BY <1>1, <1>3, <1>4 DEF IInv

\* A step that keeps the table of addresses and moves a task between places
\* where it holds one, or between places where it holds none, keeps IpsExact.
LEMMA IpsKept ==
  ASSUME IInv, NEW c \in Conns, NEW l, pc' = [pc EXCEPT ![c] = l], ips' = ips,
         pc[c] \in {"load", "acquire", "open", "release", "leave"}
           <=> l \in {"load", "acquire", "open", "release", "leave"}
  PROVE  IpsExact'
<1>1. ASSUME NEW a \in Ips PROVE IpHolders(a)' = IpHolders(a)
  BY IpHoldersStep DEF IInv, TypeOK, IpHolders
<1> QED BY <1>1 DEF IInv, IpsExact

\* The same for the slots.
LEMMA SlotsKept ==
  ASSUME IInv, NEW c \in Conns, NEW l, pc' = [pc EXCEPT ![c] = l],
         connections' = connections,
         pc[c] \in {"open", "release"} <=> l \in {"open", "release"}
  PROVE  SlotsExact'
<1>1. SlotHolders' = SlotHolders
  BY SlotHoldersStep DEF IInv, TypeOK, SlotHolders
<1> QED BY <1>1 DEF IInv, SlotsExact

\* Every step of every task preserves the invariant.
LEMMA NextInv == IInv /\ [Next]_vars => IInv'
<1> SUFFICES ASSUME IInv, [Next]_vars PROVE IInv'
  OBVIOUS
<1> USE DEF Goto
<1>0. CASE UNCHANGED vars
  BY <1>0 DEF vars, IInv, TypeOK, SlotsExact, IpsExact, ReleaseLoaded, SlotHolders, IpHolders
<1>1. ASSUME NEW c \in Conns, Arrive(c) PROVE IInv'
  <2>1. TypeOK' /\ ReleaseLoaded'
    BY <1>1 DEF Arrive, IInv, TypeOK, ReleaseLoaded
  <2>2. SlotsExact' /\ IpsExact'
    BY <1>1, SlotsKept, IpsKept DEF Arrive
  <2> QED BY <2>1, <2>2 DEF IInv
<1>2. ASSUME NEW c \in Conns, ip_acquire(c) PROVE IInv'
  <2>1. TypeOK'
    <3>1. CASE Counted(c)
      <4>1. peer_ip[c] \in Ips /\ ips[peer_ip[c]] < max_connections_per_ip
        BY <1>2, <3>1, AdmissionAssumption DEF ip_acquire, Counted
      <4>2. ips' = [ips EXCEPT ![peer_ip[c]] = @ + 1]
        BY <1>2, <3>1 DEF ip_acquire
      <4>3. ips' \in [Ips -> Nat] /\ \A a \in Ips : ips'[a] <= max_connections_per_ip
        BY <3>1, <4>1, <4>2, AdmissionAssumption DEF Counted, IInv, TypeOK
      <4> QED BY <1>2, <4>3 DEF ip_acquire, IInv, TypeOK
    <3>2. CASE ~Counted(c)
      BY <1>2, <3>2 DEF ip_acquire, IInv, TypeOK
    <3> QED BY <3>1, <3>2
  <2>2. ReleaseLoaded'
    BY <1>2 DEF ip_acquire, IInv, TypeOK, ReleaseLoaded
  <2>3. SlotsExact'
    BY <1>2, SlotsKept DEF ip_acquire
  <2>4. IpsExact'
    <3> SUFFICES ASSUME NEW a \in Ips
                 PROVE  ips'[a] = IF max_connections_per_ip = 0 THEN 0
                                  ELSE Cardinality(IpHolders(a)')
      BY DEF IpsExact
    <3>1. ips[a] = IF max_connections_per_ip = 0 THEN 0 ELSE Cardinality(IpHolders(a))
      BY DEF IInv, IpsExact
    <3>2. c \notin IpHolders(a) /\ IpHolders(a) \subseteq Conns
      BY <1>2 DEF ip_acquire, IpHolders
    <3>3. IpHolders(a)' = IF peer_ip[c] # a THEN IpHolders(a) ELSE IpHolders(a) \union {c}
      BY <1>2, IpHoldersStep DEF ip_acquire, IInv
    <3>4. ips'[a] = IF peer_ip[c] = a /\ max_connections_per_ip # 0 THEN ips[a] + 1 ELSE ips[a]
      BY <1>2, AdmissionAssumption DEF ip_acquire, Counted, IInv, TypeOK
    <3> QED BY <3>1, <3>2, <3>3, <3>4, CountStep
  <2> QED BY <2>1, <2>2, <2>3, <2>4 DEF IInv
<1>3. ASSUME NEW c \in Conns, IpRefused(c) PROVE IInv'
  <2>1. TypeOK' /\ ReleaseLoaded'
    BY <1>3 DEF IpRefused, IInv, TypeOK, ReleaseLoaded
  <2>2. SlotsExact' /\ IpsExact'
    BY <1>3, SlotsKept, IpsKept DEF IpRefused
  <2> QED BY <2>1, <2>2 DEF IInv
<1>4. ASSUME NEW c \in Conns, LoadForAcquire(c) PROVE IInv'
  <2>1. TypeOK' /\ ReleaseLoaded'
    BY <1>4, AdmissionAssumption DEF LoadForAcquire, IInv, TypeOK, ReleaseLoaded
  <2>2. SlotsExact' /\ IpsExact'
    BY <1>4, SlotsKept, IpsKept DEF LoadForAcquire
  <2> QED BY <2>1, <2>2 DEF IInv
<1>5. ASSUME NEW c \in Conns, try_acquire_connection(c) PROVE IInv'
  <2>1. CASE connections # current[c]
    <3>0. /\ pc[c] = "acquire" /\ current' = [current EXCEPT ![c] = connections]
          /\ UNCHANGED <<connections, pc, ips>>
      BY <1>5, <2>1 DEF try_acquire_connection
    <3>1. TypeOK' /\ ReleaseLoaded'
      BY <3>0, AdmissionAssumption DEF IInv, TypeOK, ReleaseLoaded
    <3>2. SlotsExact' /\ IpsExact'
      BY <3>0 DEF IInv, SlotsExact, IpsExact, SlotHolders, IpHolders
    <3> QED BY <3>1, <3>2 DEF IInv
  <2>2. CASE connections = current[c]
    <3>1. TypeOK' /\ ReleaseLoaded'
      BY <1>5, <2>2, AdmissionAssumption DEF try_acquire_connection, IInv, TypeOK, ReleaseLoaded
    <3>2. IpsExact'
      BY <1>5, <2>2, IpsKept DEF try_acquire_connection
    <3>3. SlotsExact'
      <4>1. c \notin SlotHolders /\ SlotHolders \subseteq Conns
        BY <1>5 DEF try_acquire_connection, SlotHolders
      <4>2. SlotHolders' = SlotHolders \union {c}
        BY <1>5, <2>2, SlotHoldersStep DEF try_acquire_connection, IInv
      <4>3. connections' = connections + 1
        BY <1>5, <2>2 DEF try_acquire_connection
      <4> QED BY <4>1, <4>2, <4>3, CountStep DEF IInv, SlotsExact
    <3> QED BY <3>1, <3>2, <3>3 DEF IInv
  <2> QED BY <2>1, <2>2
<1>6. ASSUME NEW c \in Conns, SlotRefused(c) PROVE IInv'
  <2>1. TypeOK' /\ ReleaseLoaded'
    BY <1>6 DEF SlotRefused, IInv, TypeOK, ReleaseLoaded
  <2>2. SlotsExact' /\ IpsExact'
    BY <1>6, SlotsKept, IpsKept DEF SlotRefused
  <2> QED BY <2>1, <2>2 DEF IInv
<1>7. ASSUME NEW c \in Conns, pc[c] \in {"open", "release"} PROVE connections > 0
  <2>1. c \in SlotHolders /\ SlotHolders \subseteq Conns
    BY <1>7 DEF SlotHolders
  <2> QED BY <2>1, CountStep DEF IInv, SlotsExact
<1>8. ASSUME NEW c \in Conns, End(c) PROVE IInv'
  <2>1. TypeOK' /\ ReleaseLoaded'
    BY <1>7, <1>8, AdmissionAssumption DEF End, IInv, TypeOK, ReleaseLoaded
  <2>2. SlotsExact' /\ IpsExact'
    BY <1>8, SlotsKept, IpsKept DEF End
  <2> QED BY <2>1, <2>2 DEF IInv
<1>9. ASSUME NEW c \in Conns, release_connection(c) PROVE IInv'
  <2>0. current[c] > 0 /\ connections > 0 /\ pc[c] = "release"
    BY <1>7, <1>9 DEF release_connection, IInv, ReleaseLoaded
  <2>1. CASE connections # current[c]
    <3>1. /\ current' = [current EXCEPT ![c] = connections]
          /\ UNCHANGED <<connections, pc, ips>>
      BY <1>9, <2>0, <2>1 DEF release_connection, IInv, TypeOK
    <3>2. TypeOK' /\ ReleaseLoaded'
      BY <2>0, <3>1, AdmissionAssumption DEF IInv, TypeOK, ReleaseLoaded
    <3>3. SlotsExact' /\ IpsExact'
      BY <3>1 DEF IInv, SlotsExact, IpsExact, SlotHolders, IpHolders
    <3> QED BY <3>2, <3>3 DEF IInv
  <2>2. CASE connections = current[c]
    <3>0. /\ connections' = connections - 1 /\ pc' = [pc EXCEPT ![c] = "leave"]
          /\ UNCHANGED <<current, ips>>
      BY <1>9, <2>0, <2>2 DEF release_connection, IInv, TypeOK
    <3>1. TypeOK' /\ ReleaseLoaded'
      BY <2>0, <3>0, AdmissionAssumption DEF IInv, TypeOK, ReleaseLoaded
    <3>2. IpsExact'
      BY <2>0, <3>0, IpsKept
    <3>3. SlotsExact'
      <4>1. c \in SlotHolders /\ SlotHolders \subseteq Conns
        BY <2>0 DEF SlotHolders
      <4>2. SlotHolders' = SlotHolders \ {c}
        BY <3>0, SlotHoldersStep DEF IInv
      <4> QED BY <3>0, <4>1, <4>2, CountStep DEF IInv, SlotsExact
    <3> QED BY <3>1, <3>2, <3>3 DEF IInv
  <2> QED BY <2>1, <2>2
<1>10. ASSUME NEW c \in Conns, ip_release(c) PROVE IInv'
  <2>0. /\ ips' \in [Ips -> Nat]
        /\ \A a \in Ips :
             ips'[a] = IF peer_ip[c] = a /\ ips[a] > 0 THEN ips[a] - 1 ELSE ips[a]
    <3>0. ips \in [Ips -> Nat] /\ peer_ip[c] \in Ips \union {NoIp} /\ NoIp \notin Ips
      BY AdmissionAssumption DEF IInv, TypeOK
    <3>1. CASE peer_ip[c] # NoIp /\ ips[peer_ip[c]] > 0
      <4>1. ips' = [ips EXCEPT ![peer_ip[c]] = ips[peer_ip[c]] - 1]
        BY <1>10, <3>1 DEF ip_release
      <4>2. ips[peer_ip[c]] - 1 \in Nat
        BY <3>0, <3>1
      <4> QED BY <3>0, <3>1, <4>1, <4>2
    <3>2. CASE ~(peer_ip[c] # NoIp /\ ips[peer_ip[c]] > 0)
      <4>1. ips' = ips
        BY <1>10, <3>2 DEF ip_release
      <4> QED BY <3>0, <3>2, <4>1
    <3> QED BY <3>1, <3>2
  <2>1. TypeOK'
    <3>1. max_connections_per_ip # 0 => \A a \in Ips : ips'[a] <= max_connections_per_ip
      BY <2>0, AdmissionAssumption DEF IInv, TypeOK
    <3> QED BY <1>10, <2>0, <3>1 DEF ip_release, IInv, TypeOK
  <2>2. ReleaseLoaded'
    BY <1>10 DEF ip_release, IInv, TypeOK, ReleaseLoaded
  <2>3. SlotsExact'
    BY <1>10, SlotsKept DEF ip_release
  <2>4. IpsExact'
    <3> SUFFICES ASSUME NEW a \in Ips
                 PROVE  ips'[a] = IF max_connections_per_ip = 0 THEN 0
                                  ELSE Cardinality(IpHolders(a)')
      BY DEF IpsExact
    <3>1. ips[a] = IF max_connections_per_ip = 0 THEN 0 ELSE Cardinality(IpHolders(a))
      BY DEF IInv, IpsExact
    <3>2. (c \in IpHolders(a) <=> peer_ip[c] = a) /\ IpHolders(a) \subseteq Conns
      BY <1>10 DEF ip_release, IpHolders
    <3>3. IpHolders(a)' = IF peer_ip[c] # a THEN IpHolders(a) ELSE IpHolders(a) \ {c}
      <4>1. TypeOK /\ pc' = [pc EXCEPT ![c] = "new"]
        BY <1>10 DEF ip_release, IInv
      <4>2. "new" \notin {"load", "acquire", "open", "release", "leave"}
        OBVIOUS
      <4> QED BY <4>1, <4>2, IpHoldersStep
    <3>4. CASE peer_ip[c] # a
      BY <2>0, <3>1, <3>3, <3>4
    <3>5. CASE peer_ip[c] = a
      <4>1. Cardinality(IpHolders(a)) > 0
            /\ Cardinality(IpHolders(a) \ {c}) = Cardinality(IpHolders(a)) - 1
        BY <3>2, <3>5, CountStep
      <4>2. ips'[a] = IF ips[a] > 0 THEN ips[a] - 1 ELSE ips[a]
        BY <2>0, <3>5
      <4> QED BY <3>1, <3>3, <3>5, <4>1, <4>2
    <3> QED BY <3>4, <3>5
  <2> QED BY <2>1, <2>2, <2>3, <2>4 DEF IInv
<1> QED BY <1>0, <1>1, <1>2, <1>3, <1>4, <1>5, <1>6, <1>8, <1>9, <1>10 DEF Next, Shed

LEMMA Invariance == Spec => []IInv
BY InitInv, NextInv, PTL DEF Spec

\* Neither counter ever passes its limit, for any number of tasks racing in the
\* compare-exchange loops of try_acquire_connection and release_connection.
THEOREM LimitsHold == Spec => []TypeOK
<1>1. IInv => TypeOK
  BY DEF IInv
<1> QED BY <1>1, Invariance, PTL

\* The slot counter is the number of slots held: admission leaks none and gives
\* none back twice.
THEOREM SlotsCorrect == Spec => []SlotsExact
<1>1. IInv => SlotsExact
  BY DEF IInv
<1> QED BY <1>1, Invariance, PTL

\* The table of addresses counts exactly the tasks that hold a place, also on
\* the path where the slot is refused.
THEOREM IpsCorrect == Spec => []IpsExact
<1>1. IInv => IpsExact
  BY DEF IInv
<1> QED BY <1>1, Invariance, PTL

-----------------------------------------------------------------------------
(***************************************************************************)
(* Notifications: subscribers of row deltas end up with the table, and the *)
(* event emitter loses, repeats and reorders nothing, for any number of    *)
(* calling threads, subscribers and listeners and any filters, however the *)
(* three steps of the calls interleave.                                    *)
(***************************************************************************)

Changes == {"Insert", "Delete"}
Events  == [kind : Changes, row : Nat]

NotifyTypeOK ==
    /\ n_next \in Nat
    /\ n_rows \in SUBSET (1 .. n_next)
    /\ n_call \in [RowCallers -> RowCalls \cup {NoCall}]
    /\ n_buffer \in Seq(Events) /\ n_history \in Seq(Events)
    /\ n_drained \in [events : Seq(Events), times : Nat]
    /\ n_heard \in [Listeners -> Seq(Events)]
    /\ n_copy \in [Subscribers -> SUBSET Nat]

Pending(c) == n_call[c] # NoCall
ToEmit     == {c \in RowCallers : Pending(c) /\ n_call[c].at = "emit"}
EventIn(all, k, r) == \E i \in 1 .. Len(all) : all[i] = [kind |-> k, row |-> r]

\* Two calls are never about the same change of the same row, and a row whose
\* delete is under way is gone: ids are not used twice.
CallInv ==
    /\ \A c \in RowCallers : Pending(c) =>
         /\ n_call[c].row \in 1 .. n_next
         /\ n_call[c].change = "Delete" => n_call[c].row \notin n_rows
    /\ \A c, d \in RowCallers :
         Pending(c) /\ Pending(d) /\ n_call[c].change = n_call[d].change
           /\ n_call[c].row = n_call[d].row => c = d

\* A subscriber's copy lacks only rows whose insert, and has too many only rows
\* whose delete is still to be notified.
Follows(s) == \A ch \in Changes : matches(n_subs[s], [change |-> ch])
CopyInv ==
    \A s \in Subscribers : n_subs[s] # Off /\ Follows(s) =>
        /\ \A r \in n_rows : r \notin n_copy[s] =>
             \E c \in RowCallers : Pending(c) /\ n_call[c].change = "Insert" /\ n_call[c].row = r
        /\ \A r \in n_copy[s] : r \notin n_rows =>
             \E c \in RowCallers : Pending(c) /\ n_call[c].change = "Delete" /\ n_call[c].row = r

\* Every change of the table is an event, or its call is about to emit it, and
\* never both.
EventInv ==
    /\ \A i, j \in 1 .. Len(AllEvents) : AllEvents[i] = AllEvents[j] => i = j
    /\ \A i \in 1 .. Len(AllEvents) :
         /\ AllEvents[i].row \in 1 .. n_next
         /\ AllEvents[i].kind = "Delete" => AllEvents[i].row \notin n_rows
    /\ \A c \in ToEmit : ~EventIn(AllEvents, n_call[c].change, n_call[c].row)
    /\ \A r \in 1 .. n_next :
         \/ EventIn(AllEvents, "Insert", r)
         \/ \E c \in ToEmit : n_call[c].change = "Insert" /\ n_call[c].row = r
    /\ Len(AllEvents) + Cardinality(ToEmit) = n_next + Cardinality((1 .. n_next) \ n_rows)

HistoryInv ==
    /\ n_history = Newest(AllEvents, max_history)
    /\ \A l \in Listeners : InOrder(n_heard[l], AllEvents)

NotifyInv == NotifyTypeOK /\ CallInv /\ CopyInv /\ EventInv /\ HistoryInv

LEMMA NotifyInit == NotificationsInit => NotifyInv
<1> SUFFICES ASSUME NotificationsInit PROVE NotifyInv
  OBVIOUS
<1>1. NotifyTypeOK
  BY DEF NotificationsInit, NotifyTypeOK
<1>2. \A c \in RowCallers : ~Pending(c)
  BY DEF NotificationsInit, Pending
<1>3. ToEmit = {}
  BY <1>2 DEF ToEmit
<1>4. Len(AllEvents) = 0 /\ AllEvents = <<>>
  BY DEF NotificationsInit, AllEvents
<1>5. n_next = 0 /\ n_rows = {} /\ (1 .. n_next) \ n_rows = {}
  BY DEF NotificationsInit
<1>6. Cardinality({}) = 0
  BY FS_EmptySet
<1>7. CallInv /\ CopyInv
  <2>1. CallInv
    BY <1>2 DEF CallInv
  <2>2. \A s \in Subscribers : n_subs[s] = Off
    BY DEF NotificationsInit
  <2> QED BY <2>1, <2>2 DEF CopyInv
<1>8. EventInv
  BY <1>3, <1>4, <1>5, <1>6 DEF EventInv
<1>9. HistoryInv
  <2>1. \A l \in Listeners : Len(n_heard[l]) = 0
    BY DEF NotificationsInit
  <2>2. n_history = <<>> /\ Newest(<<>>, max_history) = <<>>
    BY NotificationsAssumption DEF NotificationsInit, Newest
  <2> QED BY <2>1, <2>2, <1>4 DEF HistoryInv, InOrder
<1> QED BY <1>1, <1>7, <1>8, <1>9 DEF NotifyInv

----------------------------------------------------------------------------
(* Sequences of events.                                                    *)

(* Keeping the newest n after every append is keeping the newest n of all. *)
LEMMA NewestAppend ==
    ASSUME NEW E, NEW s \in Seq(E), NEW e \in E, NEW n \in Nat
    PROVE  Newest(Append(Newest(s, n), e), n) = Newest(Append(s, e), n)
<1> DEFINE k == Len(s)
           a == Append(s, e)
<1>1. /\ k \in Nat /\ a \in Seq(E) /\ Len(a) = k + 1
      /\ \A i \in 1 .. k : a[i] = s[i]
      /\ a[k + 1] = e
  OBVIOUS
<1>2. CASE k <= n
  <2>1. Newest(s, n) = s
    BY <1>1, <1>2 DEF Newest
  <2> QED BY <2>1
<1>3. CASE k > n
  <2> DEFINE t == SubSeq(s, k - n + 1, k)
             b == Append(t, e)
  <2>1. /\ t \in Seq(E) /\ Len(t) = n
        /\ \A i \in 1 .. n : t[i] = s[k - n + i]
    BY <1>1, <1>3
  <2>2. Newest(s, n) = t
    BY <1>3 DEF Newest
  <2> HIDE DEF t
  <2>3. /\ b \in Seq(E) /\ Len(b) = n + 1
        /\ \A i \in 1 .. n : b[i] = t[i]
        /\ b[n + 1] = e
    BY <2>1
  <2> HIDE DEF a, b
  <2>4. Newest(b, n) = SubSeq(b, 2, n + 1) /\ Newest(a, n) = SubSeq(a, k + 1 - n + 1, k + 1)
    <3>1. Len(b) > n /\ Len(b) - n + 1 = 2 /\ Len(a) > n /\ Len(a) - n + 1 = k + 1 - n + 1
      BY <2>3, <1>1, <1>3
    <3> QED BY <3>1, <2>3, <1>1 DEF Newest
  <2>5. /\ SubSeq(b, 2, n + 1) \in Seq(E) /\ Len(SubSeq(b, 2, n + 1)) = n
        /\ \A i \in 1 .. n : SubSeq(b, 2, n + 1)[i] = b[i + 1]
    BY <2>3
  <2>6. /\ SubSeq(a, k + 1 - n + 1, k + 1) \in Seq(E) /\ Len(SubSeq(a, k + 1 - n + 1, k + 1)) = n
        /\ \A i \in 1 .. n : SubSeq(a, k + 1 - n + 1, k + 1)[i] = a[k + 1 - n + i]
    BY <1>1, <1>3
  <2>7. ASSUME NEW i \in 1 .. n
        PROVE  b[i + 1] = a[k + 1 - n + i]
    <3>1. CASE i = n
      <4>1. i + 1 = n + 1 /\ k + 1 - n + i = k + 1
        BY <3>1, <1>1
      <4> QED BY <4>1, <2>3, <1>1
    <3>2. CASE i # n
      <4>1. i + 1 \in 1 .. n /\ k - n + (i + 1) \in 1 .. k /\ k + 1 - n + i = k - n + (i + 1)
        BY <3>2, <1>1, <1>3
      <4>2. b[i + 1] = s[k - n + (i + 1)]
        BY <4>1, <2>1, <2>3
      <4>3. a[k - n + (i + 1)] = s[k - n + (i + 1)]
        BY <4>1, <1>1
      <4> QED BY <4>1, <4>2, <4>3
    <3> QED BY <3>1, <3>2
  <2>8. SubSeq(b, 2, n + 1) = SubSeq(a, k + 1 - n + 1, k + 1)
    <3> DEFINE x == SubSeq(b, 2, n + 1)
               y == SubSeq(a, k + 1 - n + 1, k + 1)
    <3>1. x \in Seq(E) /\ y \in Seq(E) /\ Len(x) = Len(y) /\ \A i \in 1 .. Len(x) : x[i] = y[i]
      BY <2>5, <2>6, <2>7
    <3> HIDE DEF x, y
    <3>2. x = y
      BY <3>1, SeqEqual
    <3> QED BY <3>2 DEF x, y
  <2> QED BY <2>2, <2>4, <2>8 DEF a, b
<1> QED BY <1>1, <1>2, <1>3

(* What was in order stays so when more events come, and when the newest   *)
(* event is heard.                                                         *)
LEMMA InOrderAppend ==
    ASSUME NEW E, NEW h \in Seq(E), NEW all \in Seq(E), NEW e \in E, InOrder(h, all)
    PROVE  InOrder(h, Append(all, e)) /\ InOrder(Append(h, e), Append(all, e))
<1> DEFINE n == Len(all)
           a == Append(all, e)
           g == Append(h, e)
<1>1. /\ n \in Nat /\ Len(a) = n + 1 /\ a[n + 1] = e
      /\ \A i \in 1 .. n : a[i] = all[i] /\ i \in 1 .. (n + 1)
  OBVIOUS
<1>2. /\ Len(h) \in Nat /\ Len(g) = Len(h) + 1 /\ g[Len(h) + 1] = e
      /\ \A i \in 1 .. Len(h) : g[i] = h[i]
  OBVIOUS
<1> HIDE DEF a, g
<1>3. ASSUME NEW j \in 1 .. Len(h)
      PROVE  \E b \in 1 .. n : h[j] = a[b] /\ \A i \in 1 .. (j - 1) : \E k \in 1 .. (b - 1) : h[i] = a[k]
  <2>1. PICK b \in 1 .. n :
          h[j] = all[b] /\ \A i \in 1 .. (j - 1) : \E k \in 1 .. (b - 1) : h[i] = all[k]
    BY DEF InOrder
  <2>2. \A k \in 1 .. (b - 1) : k \in 1 .. n
    BY <1>1
  <2> QED BY <2>1, <2>2, <1>1
<1>4. InOrder(h, a)
  BY <1>1, <1>3 DEF InOrder
<1>5. ASSUME NEW j \in 1 .. Len(g)
      PROVE  \E b \in 1 .. Len(a) : g[j] = a[b] /\ \A i \in 1 .. (j - 1) : \E k \in 1 .. (b - 1) : g[i] = a[k]
  <2>1. CASE j \in 1 .. Len(h)
    <3>1. \A i \in 1 .. (j - 1) : i \in 1 .. Len(h)
      BY <2>1, <1>2
    <3>2. PICK b \in 1 .. n :
            h[j] = a[b] /\ \A i \in 1 .. (j - 1) : \E k \in 1 .. (b - 1) : h[i] = a[k]
      BY <2>1, <1>3
    <3>3. b \in 1 .. Len(a) /\ g[j] = a[b]
      BY <2>1, <3>2, <1>1, <1>2
    <3>4. \A i \in 1 .. (j - 1) : \E k \in 1 .. (b - 1) : g[i] = a[k]
      BY <3>1, <3>2, <1>2
    <3> QED BY <3>3, <3>4
  <2>2. CASE j = Len(h) + 1
    <3>1. n + 1 \in 1 .. Len(a) /\ g[j] = a[n + 1] /\ (n + 1) - 1 = n /\ j - 1 = Len(h)
      BY <2>2, <1>1, <1>2
    <3>2. \A i \in 1 .. (j - 1) : \E k \in 1 .. ((n + 1) - 1) : g[i] = a[k]
      BY <3>1, <1>2, <1>3
    <3> QED BY <3>1, <3>2
  <2>3. j \in 1 .. Len(h) \/ j = Len(h) + 1
    BY <1>2
  <2> QED BY <2>1, <2>2, <2>3
<1>6. InOrder(g, a)
  BY <1>5 DEF InOrder
<1> QED BY <1>4, <1>6 DEF a, g

----------------------------------------------------------------------------
(* The steps.                                                              *)

LEMMA AllEventsType ==
    ASSUME NotifyTypeOK
    PROVE  AllEvents \in Seq(Events)
<1>1. n_drained.events \in Seq(Events) /\ n_buffer \in Seq(Events)
  BY DEF NotifyTypeOK
<1>2. \A a, b \in Seq(Events) : a \o b \in Seq(Events)
  OBVIOUS
<1> QED BY <1>1, <1>2 DEF AllEvents

(* Subscribing, unsubscribing and draining leave the calls, the table and  *)
(* the events as they are.                                                 *)
LEMMA SameEvents ==
    ASSUME CallInv, EventInv, HistoryInv,
           UNCHANGED <<n_rows, n_next, n_call, n_history, n_heard>>, AllEvents' = AllEvents
    PROVE  CallInv' /\ EventInv' /\ HistoryInv'
<1>1. /\ \A c : Pending(c)' <=> Pending(c)
      /\ ToEmit' = ToEmit
  BY DEF Pending, ToEmit
<1>2. CallInv'
  BY <1>1 DEF CallInv
<1>3. EventInv'
  BY <1>1 DEF EventInv
<1>4. HistoryInv'
  BY DEF HistoryInv
<1> QED BY <1>2, <1>3, <1>4

(* A copy that starts with a scan of the table is the table.               *)
LEMMA QuietSteps ==
    ASSUME NotifyInv,
           \/ \E s \in Subscribers : unsubscribe(s) \/ \E f \in Filters : subscribe(s, f)
           \/ \E l \in Listeners :
                unsubscribe_events(l) \/ \E f \in EventFilters : subscribe_events(l, f)
           \/ clear \/ clear_subscribers \/ drain
           \/ UNCHANGED notify_vars
    PROVE  NotifyInv'
<1> USE DEF emitter_vars, manager_vars, notify_vars
<1>0. NotifyTypeOK /\ CallInv /\ CopyInv /\ EventInv /\ HistoryInv
  BY DEF NotifyInv
<1>1. /\ UNCHANGED <<n_rows, n_next, n_call, n_history, n_heard>>
      /\ \/ UNCHANGED <<n_buffer, n_drained>>
         \/ /\ n_drained' = [events |-> n_drained.events \o n_buffer, times |-> n_drained.times + 1]
            /\ n_buffer' = <<>>
  BY DEF unsubscribe, subscribe, unsubscribe_events, subscribe_events, clear, clear_subscribers, drain
<1>2. /\ n_drained \in [events : Seq(Events), times : Nat] /\ n_buffer \in Seq(Events)
      /\ n_drained.events \in Seq(Events) /\ n_drained.times \in Nat
      /\ n_drained.events \o n_buffer \in Seq(Events)
  BY <1>0, AllEventsType DEF NotifyTypeOK, AllEvents
<1>3. /\ AllEvents' = AllEvents
      /\ n_drained' \in [events : Seq(Events), times : Nat] /\ n_buffer' \in Seq(Events)
  <2>1. CASE UNCHANGED <<n_buffer, n_drained>>
    BY <2>1, <1>2 DEF AllEvents
  <2>2. CASE /\ n_drained' = [events |-> n_drained.events \o n_buffer, times |-> n_drained.times + 1]
             /\ n_buffer' = <<>>
    <3>1. n_drained'.events = n_drained.events \o n_buffer
      BY <2>2
    <3>2. \A a \in Seq(Events) : a \o <<>> = a
      OBVIOUS
    <3>3. AllEvents' = AllEvents
      BY <3>1, <3>2, <2>2, <1>2 DEF AllEvents
    <3>4. n_drained' \in [events : Seq(Events), times : Nat] /\ n_buffer' \in Seq(Events)
      BY <2>2, <1>2
    <3> QED BY <3>3, <3>4
  <2> QED BY <1>1, <2>1, <2>2
<1>4. CallInv' /\ EventInv' /\ HistoryInv'
  BY <1>0, <1>1, <1>3, SameEvents
<1>5. \/ /\ UNCHANGED n_copy
         /\ \A s \in Subscribers : n_subs'[s] = n_subs[s] \/ n_subs'[s] = Off
      \/ \E s \in Subscribers :
           /\ n_copy' = [n_copy EXCEPT ![s] = n_rows]
           /\ \A q \in Subscribers : q # s => n_subs'[q] = n_subs[q]
  <2>1. ASSUME NEW s \in Subscribers, unsubscribe(s)
        PROVE  UNCHANGED n_copy /\ \A q \in Subscribers : n_subs'[q] = n_subs[q] \/ n_subs'[q] = Off
    BY <2>1 DEF unsubscribe
  <2>2. ASSUME NEW s \in Subscribers, NEW f \in Filters, subscribe(s, f)
        PROVE  /\ n_copy' = [n_copy EXCEPT ![s] = n_rows]
               /\ \A q \in Subscribers : q # s => n_subs'[q] = n_subs[q]
    BY <2>2 DEF subscribe
  <2>3. CASE clear
    BY <2>3 DEF clear
  <2>4. CASE UNCHANGED <<n_copy, n_subs>>
    BY <2>4
  <2> QED BY <2>1, <2>2, <2>3, <2>4
          DEF unsubscribe_events, subscribe_events, clear_subscribers, drain
<1>6. n_copy \in [Subscribers -> SUBSET Nat] /\ n_rows \in SUBSET Nat
  <2>1. n_rows \in SUBSET (1 .. n_next) /\ n_next \in Nat
    BY <1>0 DEF NotifyTypeOK
  <2>2. \A r \in 1 .. n_next : r \in Nat
    BY <2>1
  <2> QED BY <2>1, <2>2, <1>0 DEF NotifyTypeOK
<1>7. NotifyTypeOK'
  BY <1>0, <1>1, <1>3, <1>5, <1>6 DEF NotifyTypeOK
<1>8. ASSUME NEW s \in Subscribers, n_subs'[s] # Off, Follows(s)'
      PROVE  /\ \A r \in n_rows : r \notin n_copy'[s] =>
                  \E c \in RowCallers : Pending(c) /\ n_call[c].change = "Insert" /\ n_call[c].row = r
             /\ \A r \in n_copy'[s] : r \notin n_rows =>
                  \E c \in RowCallers : Pending(c) /\ n_call[c].change = "Delete" /\ n_call[c].row = r
  <2>1. \/ n_copy'[s] = n_rows
        \/ n_copy'[s] = n_copy[s] /\ n_subs'[s] = n_subs[s]
    BY <1>5, <1>6, <1>8
  <2>2. CASE n_copy'[s] = n_copy[s] /\ n_subs'[s] = n_subs[s]
    <3>1. n_subs[s] # Off /\ Follows(s)
      BY <2>2, <1>8 DEF Follows
    <3> QED BY <2>2, <3>1, <1>0 DEF CopyInv
  <2> QED BY <2>1, <2>2
<1>9. CopyInv'
  <2>1. \A c : Pending(c)' <=> Pending(c)
    BY <1>1 DEF Pending
  <2> QED BY <1>1, <1>8, <2>1 DEF CopyInv
<1> QED BY <1>4, <1>7, <1>9 DEF NotifyInv

(* A call that starts: its change is in the table, and still to be told.   *)
LEMMA StartCall ==
    ASSUME NotifyInv, NEW c \in RowCallers, NEW x \in RowCalls, n_call[c] = NoCall,
           x.at = "emit", n_call' = [n_call EXCEPT ![c] = x],
           UNCHANGED <<emitter_vars, manager_vars>>
    PROVE  /\ Pending(c)' /\ n_call'[c] = x
           /\ \A d \in RowCallers : d # c => n_call'[d] = n_call[d] /\ (Pending(d)' <=> Pending(d))
           /\ ~Pending(c)
           /\ \A d \in RowCallers : Pending(d) => Pending(d)' /\ n_call'[d] = n_call[d]
           /\ ToEmit' = ToEmit \cup {c} /\ c \notin ToEmit
           /\ Cardinality(ToEmit') = Cardinality(ToEmit) + 1 /\ Cardinality(ToEmit) \in Nat
           /\ AllEvents' = AllEvents
           /\ \A s \in Subscribers : n_copy'[s] = n_copy[s] /\ n_subs'[s] = n_subs[s]
           /\ n_call' \in [RowCallers -> RowCalls \cup {NoCall}]
<1>1. n_call \in [RowCallers -> RowCalls \cup {NoCall}] /\ NoCall \notin RowCalls
  BY NotificationsAssumption DEF NotifyInv, NotifyTypeOK
<1>2. n_call'[c] = x /\ \A d \in RowCallers : d # c => n_call'[d] = n_call[d]
  BY <1>1
<1>3. /\ Pending(c)' /\ ~Pending(c)
      /\ \A d \in RowCallers : d # c => (Pending(d)' <=> Pending(d))
      /\ \A d \in RowCallers : Pending(d) => Pending(d)' /\ n_call'[d] = n_call[d]
  BY <1>1, <1>2 DEF Pending
<1>4. ToEmit' = ToEmit \cup {c} /\ c \notin ToEmit
  BY <1>2, <1>3 DEF ToEmit
<1>5. IsFiniteSet(ToEmit) /\ Cardinality(ToEmit) \in Nat
  <2>1. ToEmit \in SUBSET RowCallers
    BY DEF ToEmit
  <2> QED BY <2>1, NotificationsAssumption, FS_Subset, FS_CardinalityType
<1>6. Cardinality(ToEmit') = Cardinality(ToEmit) + 1
  BY <1>4, <1>5, FS_AddElement
<1>7. AllEvents' = AllEvents
  BY DEF AllEvents, emitter_vars
<1>9. \A s \in Subscribers : n_copy'[s] = n_copy[s] /\ n_subs'[s] = n_subs[s]
  BY DEF manager_vars
<1>10. n_call' \in [RowCallers -> RowCalls \cup {NoCall}]
  BY <1>1
<1> QED BY <1>2, <1>3, <1>4, <1>5, <1>6, <1>7, <1>9, <1>10

LEMMA InsertStep ==
    ASSUME NotifyInv, NEW c \in RowCallers, insert_row(c)
    PROVE  NotifyInv'
<1>0. NotifyTypeOK /\ CallInv /\ CopyInv /\ EventInv /\ HistoryInv
  BY DEF NotifyInv
<1>1. PICK r \in Nat : r = n_next + 1
  BY <1>0 DEF NotifyTypeOK
<1>2. PICK x \in RowCalls : x = [change |-> "Insert", row |-> r, at |-> "emit"]
  BY DEF RowCalls
<1>3. /\ n_call[c] = NoCall /\ n_next' = r /\ n_rows' = n_rows \cup {r}
      /\ n_call' = [n_call EXCEPT ![c] = x]
      /\ UNCHANGED <<emitter_vars, manager_vars>>
  BY <1>1, <1>2 DEF insert_row
<1>4. x.at = "emit" /\ x.change = "Insert" /\ x.row = r
  BY <1>2
<1>5. /\ n_next \in Nat /\ r \in Nat /\ r \notin 1 .. n_next /\ r \notin n_rows
      /\ 1 .. n_next' = (1 .. n_next) \cup {r}
      /\ n_rows \in SUBSET (1 .. n_next)
  <2>1. n_next \in Nat /\ n_rows \in SUBSET (1 .. n_next)
    BY <1>0 DEF NotifyTypeOK
  <2>2. 1 .. (n_next + 1) = (1 .. n_next) \cup {n_next + 1} /\ n_next + 1 \notin 1 .. n_next
    BY <2>1
  <2> QED BY <2>1, <2>2, <1>1, <1>3
<1>6. /\ Pending(c)' /\ n_call'[c] = x
      /\ \A d \in RowCallers : d # c => n_call'[d] = n_call[d] /\ (Pending(d)' <=> Pending(d))
      /\ ~Pending(c)
      /\ \A d \in RowCallers : Pending(d) => Pending(d)' /\ n_call'[d] = n_call[d]
      /\ ToEmit' = ToEmit \cup {c} /\ c \notin ToEmit
      /\ Cardinality(ToEmit') = Cardinality(ToEmit) + 1 /\ Cardinality(ToEmit) \in Nat
      /\ AllEvents' = AllEvents
      /\ \A s \in Subscribers : n_copy'[s] = n_copy[s] /\ n_subs'[s] = n_subs[s]
      /\ n_call' \in [RowCallers -> RowCalls \cup {NoCall}]
  BY <1>3, <1>4, StartCall
<1>7. NotifyTypeOK'
  <2>1. n_rows' \in SUBSET (1 .. n_next') /\ n_next' \in Nat
    BY <1>3, <1>5
  <2> QED BY <2>1, <1>0, <1>3, <1>6 DEF NotifyTypeOK, emitter_vars, manager_vars
<1>8. CallInv'
  <2>1. \A d \in RowCallers : Pending(d) => n_call[d].row # r
    BY <1>0, <1>5 DEF CallInv
  <2>2. ASSUME NEW d \in RowCallers, Pending(d)'
        PROVE  /\ n_call'[d].row \in 1 .. n_next'
               /\ n_call'[d].change = "Delete" => n_call'[d].row \notin n_rows'
    BY <2>1, <2>2, <1>0, <1>3, <1>4, <1>5, <1>6 DEF CallInv
  <2>3. ASSUME NEW d \in RowCallers, NEW e \in RowCallers, Pending(d)', Pending(e)',
               n_call'[d].change = n_call'[e].change, n_call'[d].row = n_call'[e].row
        PROVE  d = e
    BY <2>1, <2>3, <1>0, <1>4, <1>6 DEF CallInv
  <2> QED BY <2>2, <2>3 DEF CallInv
<1>9. CopyInv'
  <2> SUFFICES ASSUME NEW s \in Subscribers, n_subs'[s] # Off, Follows(s)'
               PROVE  /\ \A q \in n_rows' : q \notin n_copy'[s] =>
                           \E d \in RowCallers : Pending(d)' /\ n_call'[d].change = "Insert" /\ n_call'[d].row = q
                      /\ \A q \in n_copy'[s] : q \notin n_rows' =>
                           \E d \in RowCallers : Pending(d)' /\ n_call'[d].change = "Delete" /\ n_call'[d].row = q
    BY DEF CopyInv
  <2>1. n_subs[s] # Off /\ Follows(s)
    BY <1>6 DEF Follows
  <2>2. ASSUME NEW q \in n_rows', q \notin n_copy'[s]
        PROVE  \E d \in RowCallers : Pending(d)' /\ n_call'[d].change = "Insert" /\ n_call'[d].row = q
    <3>1. CASE q = r
      BY <3>1, <1>4, <1>6
    <3>2. CASE q \in n_rows
      BY <3>2, <2>1, <2>2, <1>0, <1>6 DEF CopyInv
    <3> QED BY <3>1, <3>2, <1>3
  <2>3. ASSUME NEW q \in n_copy'[s], q \notin n_rows'
        PROVE  \E d \in RowCallers : Pending(d)' /\ n_call'[d].change = "Delete" /\ n_call'[d].row = q
    BY <2>1, <2>3, <1>0, <1>3, <1>6 DEF CopyInv
  <2> QED BY <2>2, <2>3
<1>10. EventInv'
  <2>1. (1 .. n_next') \ n_rows' = (1 .. n_next) \ n_rows
    BY <1>3, <1>5
  <2>2. \A i, j \in 1 .. Len(AllEvents') : AllEvents'[i] = AllEvents'[j] => i = j
    BY <1>0, <1>6 DEF EventInv
  <2>3. \A i \in 1 .. Len(AllEvents') :
          /\ AllEvents'[i].row \in 1 .. n_next'
          /\ AllEvents'[i].kind = "Delete" => AllEvents'[i].row \notin n_rows'
    BY <1>0, <1>3, <1>5, <1>6 DEF EventInv
  <2>4. ~EventIn(AllEvents, "Insert", r)
    BY <1>0, <1>5 DEF EventInv, EventIn
  <2>5. \A d \in ToEmit : n_call'[d] = n_call[d]
    BY <1>6 DEF ToEmit
  <2>6. \A d \in ToEmit' : ~EventIn(AllEvents', n_call'[d].change, n_call'[d].row)
    BY <2>4, <2>5, <1>0, <1>4, <1>6 DEF EventInv
  <2>7. \A q \in 1 .. n_next' :
          \/ EventIn(AllEvents', "Insert", q)
          \/ \E d \in ToEmit' : n_call'[d].change = "Insert" /\ n_call'[d].row = q
    <3>1. c \in ToEmit' /\ n_call'[c].change = "Insert" /\ n_call'[c].row = r
      BY <1>4, <1>6
    <3>2. ASSUME NEW q \in 1 .. n_next
          PROVE  \/ EventIn(AllEvents', "Insert", q)
                 \/ \E d \in ToEmit' : n_call'[d].change = "Insert" /\ n_call'[d].row = q
      <4>1. \/ EventIn(AllEvents, "Insert", q)
            \/ \E d \in ToEmit : n_call[d].change = "Insert" /\ n_call[d].row = q
        BY <1>0 DEF EventInv
      <4> QED BY <4>1, <2>5, <1>6
    <3> QED BY <3>1, <3>2, <1>5
  <2>8. Len(AllEvents') + Cardinality(ToEmit') = n_next' + Cardinality((1 .. n_next') \ n_rows')
    <3>1. Len(AllEvents) \in Nat
      BY <1>0, AllEventsType
    <3>2. Cardinality((1 .. n_next) \ n_rows) \in Nat
      <4>1. (1 .. n_next) \ n_rows \in SUBSET (1 .. n_next) /\ IsFiniteSet(1 .. n_next)
        BY <1>5, FS_Interval
      <4> QED BY <4>1, FS_Subset, FS_CardinalityType
    <3>3. Len(AllEvents) + Cardinality(ToEmit) = n_next + Cardinality((1 .. n_next) \ n_rows)
      BY <1>0 DEF EventInv
    <3>4. Len(AllEvents) + (Cardinality(ToEmit) + 1) = (n_next + 1) + Cardinality((1 .. n_next) \ n_rows)
      BY <3>1, <3>2, <3>3, <1>5, <1>6
    <3> QED BY <3>4, <2>1, <1>1, <1>3, <1>6
  <2> QED BY <2>2, <2>3, <2>6, <2>7, <2>8 DEF EventInv
<1>11. HistoryInv'
  BY <1>0, <1>3, <1>6 DEF HistoryInv, emitter_vars
<1> QED BY <1>7, <1>8, <1>9, <1>10, <1>11 DEF NotifyInv

LEMMA DeleteStep ==
    ASSUME NotifyInv, NEW c \in RowCallers, NEW r \in 1 .. MaxRows, delete_row(c, r)
    PROVE  NotifyInv'
<1>0. NotifyTypeOK /\ CallInv /\ CopyInv /\ EventInv /\ HistoryInv
  BY DEF NotifyInv
<1>1. /\ n_next \in Nat /\ n_rows \in SUBSET (1 .. n_next) /\ r \in n_rows /\ r \in 1 .. n_next
      /\ r \in Nat
  <2>1. n_next \in Nat /\ n_rows \in SUBSET (1 .. n_next) /\ r \in n_rows
    BY <1>0 DEF NotifyTypeOK, delete_row
  <2>2. r \in 1 .. n_next
    BY <2>1
  <2> QED BY <2>1, <2>2
<1>2. PICK x \in RowCalls : x = [change |-> "Delete", row |-> r, at |-> "emit"]
  BY <1>1 DEF RowCalls
<1>3. /\ n_call[c] = NoCall /\ n_next' = n_next /\ n_rows' = n_rows \ {r}
      /\ n_call' = [n_call EXCEPT ![c] = x]
      /\ UNCHANGED <<emitter_vars, manager_vars>>
  BY <1>2 DEF delete_row
<1>4. x.at = "emit" /\ x.change = "Delete" /\ x.row = r
  BY <1>2
<1>6. /\ Pending(c)' /\ n_call'[c] = x
      /\ \A d \in RowCallers : d # c => n_call'[d] = n_call[d] /\ (Pending(d)' <=> Pending(d))
      /\ ~Pending(c)
      /\ \A d \in RowCallers : Pending(d) => Pending(d)' /\ n_call'[d] = n_call[d]
      /\ ToEmit' = ToEmit \cup {c} /\ c \notin ToEmit
      /\ Cardinality(ToEmit') = Cardinality(ToEmit) + 1 /\ Cardinality(ToEmit) \in Nat
      /\ AllEvents' = AllEvents
      /\ \A s \in Subscribers : n_copy'[s] = n_copy[s] /\ n_subs'[s] = n_subs[s]
      /\ n_call' \in [RowCallers -> RowCalls \cup {NoCall}]
  BY <1>3, <1>4, StartCall
<1>7. NotifyTypeOK'
  <2>1. n_rows' \in SUBSET (1 .. n_next') /\ n_next' \in Nat
    BY <1>1, <1>3
  <2> QED BY <2>1, <1>0, <1>3, <1>6 DEF NotifyTypeOK, emitter_vars, manager_vars
<1>8. CallInv'
  <2>1. \A d \in RowCallers : Pending(d) /\ n_call[d].change = "Delete" => n_call[d].row # r
    BY <1>0, <1>1 DEF CallInv
  <2>2. ASSUME NEW d \in RowCallers, Pending(d)'
        PROVE  /\ n_call'[d].row \in 1 .. n_next'
               /\ n_call'[d].change = "Delete" => n_call'[d].row \notin n_rows'
    BY <2>2, <1>0, <1>1, <1>3, <1>4, <1>6 DEF CallInv
  <2>3. ASSUME NEW d \in RowCallers, NEW e \in RowCallers, Pending(d)', Pending(e)',
               n_call'[d].change = n_call'[e].change, n_call'[d].row = n_call'[e].row
        PROVE  d = e
    BY <2>1, <2>3, <1>0, <1>4, <1>6 DEF CallInv
  <2> QED BY <2>2, <2>3 DEF CallInv
<1>9. CopyInv'
  <2> SUFFICES ASSUME NEW s \in Subscribers, n_subs'[s] # Off, Follows(s)'
               PROVE  /\ \A q \in n_rows' : q \notin n_copy'[s] =>
                           \E d \in RowCallers : Pending(d)' /\ n_call'[d].change = "Insert" /\ n_call'[d].row = q
                      /\ \A q \in n_copy'[s] : q \notin n_rows' =>
                           \E d \in RowCallers : Pending(d)' /\ n_call'[d].change = "Delete" /\ n_call'[d].row = q
    BY DEF CopyInv
  <2>1. n_subs[s] # Off /\ Follows(s)
    BY <1>6 DEF Follows
  <2>2. ASSUME NEW q \in n_rows', q \notin n_copy'[s]
        PROVE  \E d \in RowCallers : Pending(d)' /\ n_call'[d].change = "Insert" /\ n_call'[d].row = q
    BY <2>1, <2>2, <1>0, <1>3, <1>6 DEF CopyInv
  <2>3. ASSUME NEW q \in n_copy'[s], q \notin n_rows'
        PROVE  \E d \in RowCallers : Pending(d)' /\ n_call'[d].change = "Delete" /\ n_call'[d].row = q
    <3>1. CASE q = r
      BY <3>1, <1>4, <1>6
    <3>2. CASE q \notin n_rows
      BY <3>2, <2>1, <2>3, <1>0, <1>6 DEF CopyInv
    <3> QED BY <3>1, <3>2, <2>3, <1>3
  <2> QED BY <2>2, <2>3
<1>10. EventInv'
  <2>2. \A i, j \in 1 .. Len(AllEvents') : AllEvents'[i] = AllEvents'[j] => i = j
    BY <1>0, <1>6 DEF EventInv
  <2>3. \A i \in 1 .. Len(AllEvents') :
          /\ AllEvents'[i].row \in 1 .. n_next'
          /\ AllEvents'[i].kind = "Delete" => AllEvents'[i].row \notin n_rows'
    BY <1>0, <1>3, <1>6 DEF EventInv
  <2>4. ~EventIn(AllEvents, "Delete", r)
    BY <1>0, <1>1 DEF EventInv, EventIn
  <2>5. \A d \in ToEmit : n_call'[d] = n_call[d]
    BY <1>6 DEF ToEmit
  <2>6. \A d \in ToEmit' : ~EventIn(AllEvents', n_call'[d].change, n_call'[d].row)
    BY <2>4, <2>5, <1>0, <1>4, <1>6 DEF EventInv
  <2>7. \A q \in 1 .. n_next' :
          \/ EventIn(AllEvents', "Insert", q)
          \/ \E d \in ToEmit' : n_call'[d].change = "Insert" /\ n_call'[d].row = q
    BY <2>5, <1>0, <1>3, <1>6 DEF EventInv
  <2>8. Len(AllEvents') + Cardinality(ToEmit') = n_next' + Cardinality((1 .. n_next') \ n_rows')
    <3> DEFINE gone == (1 .. n_next) \ n_rows
    <3>1. Len(AllEvents) \in Nat
      BY <1>0, AllEventsType
    <3>2. IsFiniteSet(gone) /\ Cardinality(gone) \in Nat
      <4>1. gone \in SUBSET (1 .. n_next) /\ IsFiniteSet(1 .. n_next)
        BY <1>1, FS_Interval
      <4> QED BY <4>1, FS_Subset, FS_CardinalityType
    <3>3. Len(AllEvents) + Cardinality(ToEmit) = n_next + Cardinality(gone)
      BY <1>0 DEF EventInv
    <3>4. (1 .. n_next') \ n_rows' = gone \cup {r} /\ r \notin gone
      BY <1>1, <1>3
    <3>5. Cardinality(gone \cup {r}) = Cardinality(gone) + 1
      BY <3>2, <3>4, FS_AddElement
    <3> HIDE DEF gone
    <3>6. Len(AllEvents) + (Cardinality(ToEmit) + 1) = n_next + (Cardinality(gone) + 1)
      BY <3>1, <3>2, <3>3, <1>1, <1>6
    <3> QED BY <3>4, <3>5, <3>6, <1>3, <1>6
  <2> QED BY <2>2, <2>3, <2>6, <2>7, <2>8 DEF EventInv
<1>11. HistoryInv'
  BY <1>0, <1>3, <1>6 DEF HistoryInv, emitter_vars
<1> QED BY <1>7, <1>8, <1>9, <1>10, <1>11 DEF NotifyInv

(* The event of a call.                                                    *)
LEMMA EmitStep ==
    ASSUME NotifyInv, NEW c \in RowCallers, EmitEvent(c)
    PROVE  NotifyInv'
<1>0. NotifyTypeOK /\ CallInv /\ CopyInv /\ EventInv /\ HistoryInv
  BY DEF NotifyInv
<1>1. /\ n_call \in [RowCallers -> RowCalls \cup {NoCall}] /\ NoCall \notin RowCalls
      /\ n_call[c] \in RowCalls /\ n_call[c].at = "emit"
  BY <1>0, NotificationsAssumption DEF NotifyTypeOK, EmitEvent
<1>2. PICK x \in RowCalls :
        x = [change |-> n_call[c].change, row |-> n_call[c].row, at |-> "notify"]
  BY <1>1 DEF RowCalls
<1>3. PICK e \in Events : e = [kind |-> n_call[c].change, row |-> n_call[c].row]
  BY <1>1 DEF RowCalls, Events, Changes
<1>4. /\ n_call' = [n_call EXCEPT ![c] = x]
      /\ UNCHANGED <<n_rows, n_next, manager_vars, n_listen, n_drained>>
      /\ n_heard' = [l \in Listeners |-> IF n_listen[l] # Off /\ EventMatches(n_listen[l], e)
                                         THEN Append(n_heard[l], e) ELSE n_heard[l]]
      /\ n_buffer' = Append(n_buffer, e)
      /\ n_history' = Newest(Append(n_history, e), max_history)
  BY <1>2, <1>3 DEF EmitEvent, emit, EventOf, Kept
<1>5. /\ n_call'[c] = x /\ \A d \in RowCallers : d # c => n_call'[d] = n_call[d]
      /\ x.change = n_call[c].change /\ x.row = n_call[c].row /\ x.at = "notify"
  BY <1>1, <1>2, <1>4
<1>6. /\ \A d \in RowCallers : Pending(d)' <=> Pending(d)
      /\ \A d \in RowCallers : n_call'[d].change = n_call[d].change /\ n_call'[d].row = n_call[d].row
  BY <1>1, <1>5 DEF Pending
<1>7. ToEmit' = ToEmit \ {c} /\ c \in ToEmit
  BY <1>1, <1>5, <1>6 DEF ToEmit, Pending
<1>8. AllEvents \in Seq(Events) /\ AllEvents' = Append(AllEvents, e)
  <2>1. n_drained.events \in Seq(Events) /\ n_buffer \in Seq(Events)
    BY <1>0 DEF NotifyTypeOK
  <2>2. \A a, b \in Seq(Events) : a \o Append(b, e) = Append(a \o b, e)
    OBVIOUS
  <2>3. AllEvents' = n_drained.events \o Append(n_buffer, e)
    BY <1>4 DEF AllEvents
  <2> QED BY <1>0, AllEventsType, <2>1, <2>2, <2>3 DEF AllEvents
<1>9. /\ Len(AllEvents) \in Nat /\ Len(AllEvents') = Len(AllEvents) + 1
      /\ \A i \in 1 .. Len(AllEvents) : AllEvents'[i] = AllEvents[i]
      /\ AllEvents'[Len(AllEvents) + 1] = e
      /\ \A i \in 1 .. Len(AllEvents') : i \in 1 .. Len(AllEvents) \/ i = Len(AllEvents) + 1
  BY <1>8
<1>10. NotifyTypeOK'
  <2>1. n_buffer' \in Seq(Events)
    BY <1>0, <1>4 DEF NotifyTypeOK
  <2>2. n_history' \in Seq(Events)
    <3>1. \A s \in Seq(Events) : Append(s, e) \in Seq(Events)
      OBVIOUS
    <3>2. ASSUME NEW s \in Seq(Events)
          PROVE  Newest(s, max_history) \in Seq(Events)
      BY NotificationsAssumption DEF Newest
    <3> QED BY <3>1, <3>2, <1>0, <1>4 DEF NotifyTypeOK
  <2>3. n_heard' \in [Listeners -> Seq(Events)]
    <3>1. \A l \in Listeners : n_heard[l] \in Seq(Events) /\ Append(n_heard[l], e) \in Seq(Events)
      BY <1>0 DEF NotifyTypeOK
    <3> QED BY <3>1, <1>4
  <2>4. n_call' \in [RowCallers -> RowCalls \cup {NoCall}]
    BY <1>1, <1>4
  <2> QED BY <2>1, <2>2, <2>3, <2>4, <1>0, <1>4 DEF NotifyTypeOK, manager_vars
<1>11. CallInv'
  BY <1>0, <1>4, <1>6 DEF CallInv
<1>12. CopyInv'
  <2>1. \A s \in Subscribers : (Follows(s)' <=> Follows(s)) /\ n_subs'[s] = n_subs[s] /\ n_copy'[s] = n_copy[s]
    BY <1>4 DEF Follows, manager_vars
  <2> QED BY <1>0, <1>4, <1>6, <2>1 DEF CopyInv
<1>13. EventInv'
  <2>0. /\ e.kind = n_call[c].change /\ e.row = n_call[c].row
        /\ ~EventIn(AllEvents, n_call[c].change, n_call[c].row)
        /\ Pending(c)
    BY <1>0, <1>3, <1>7 DEF EventInv, ToEmit
  <2>1. \A i \in 1 .. Len(AllEvents) : AllEvents[i] # e
    BY <2>0, <1>3 DEF EventIn
  <2>2. \A i, j \in 1 .. Len(AllEvents') : AllEvents'[i] = AllEvents'[j] => i = j
    BY <2>1, <1>0, <1>9 DEF EventInv
  <2>3. \A i \in 1 .. Len(AllEvents') :
          /\ AllEvents'[i].row \in 1 .. n_next'
          /\ AllEvents'[i].kind = "Delete" => AllEvents'[i].row \notin n_rows'
    BY <2>0, <1>0, <1>4, <1>9 DEF EventInv, CallInv
  <2>4. \A k, q : EventIn(AllEvents', k, q) <=> EventIn(AllEvents, k, q) \/ e = [kind |-> k, row |-> q]
    <3>1. \A i \in 1 .. Len(AllEvents) : i \in 1 .. Len(AllEvents')
      BY <1>9
    <3>2. Len(AllEvents) + 1 \in 1 .. Len(AllEvents')
      BY <1>9
    <3> QED BY <3>1, <3>2, <1>9 DEF EventIn
  <2>5. ASSUME NEW d \in ToEmit'
        PROVE  ~EventIn(AllEvents', n_call'[d].change, n_call'[d].row)
    <3>1. d \in ToEmit /\ d # c /\ d \in RowCallers /\ Pending(d)
      BY <2>5, <1>7 DEF ToEmit
    <3>2. ~EventIn(AllEvents, n_call[d].change, n_call[d].row)
      BY <3>1, <1>0 DEF EventInv
    <3>3. e # [kind |-> n_call[d].change, row |-> n_call[d].row]
      BY <3>1, <2>0, <1>0 DEF CallInv
    <3> QED BY <3>1, <3>2, <3>3, <2>4, <1>6
  <2>6. ASSUME NEW q \in 1 .. n_next'
        PROVE  \/ EventIn(AllEvents', "Insert", q)
               \/ \E d \in ToEmit' : n_call'[d].change = "Insert" /\ n_call'[d].row = q
    <3>1. \/ EventIn(AllEvents, "Insert", q)
          \/ \E d \in ToEmit : n_call[d].change = "Insert" /\ n_call[d].row = q
      BY <1>0, <1>4 DEF EventInv
    <3>2. \A d \in ToEmit : d \in RowCallers
      BY DEF ToEmit
    <3>3. CASE n_call[c].change = "Insert" /\ n_call[c].row = q
      BY <3>3, <1>3, <2>4
    <3> QED BY <3>1, <3>2, <3>3, <2>4, <1>6, <1>7
  <2>7. Len(AllEvents') + Cardinality(ToEmit') = n_next' + Cardinality((1 .. n_next') \ n_rows')
    <3>1. IsFiniteSet(ToEmit)
      <4>1. ToEmit \in SUBSET RowCallers
        BY DEF ToEmit
      <4> QED BY <4>1, NotificationsAssumption, FS_Subset
    <3>2. Cardinality(ToEmit) \in Nat /\ Cardinality(ToEmit') = Cardinality(ToEmit) - 1
      BY <3>1, <1>7, FS_RemoveElement, FS_CardinalityType
    <3>3. Len(AllEvents') + Cardinality(ToEmit') = Len(AllEvents) + Cardinality(ToEmit)
      BY <3>2, <1>9
    <3> QED BY <3>3, <1>0, <1>4 DEF EventInv
  <2> QED BY <2>2, <2>3, <2>5, <2>6, <2>7 DEF EventInv
<1>14. HistoryInv'
  <2>1. n_history' = Newest(AllEvents', max_history)
    BY <1>0, <1>4, <1>8, NewestAppend, NotificationsAssumption DEF HistoryInv
  <2>2. ASSUME NEW l \in Listeners
        PROVE  InOrder(n_heard'[l], AllEvents')
    <3>1. n_heard[l] \in Seq(Events) /\ InOrder(n_heard[l], AllEvents)
      BY <1>0 DEF NotifyTypeOK, HistoryInv
    <3>2. InOrder(n_heard[l], AllEvents') /\ InOrder(Append(n_heard[l], e), AllEvents')
      BY <3>1, <1>8, InOrderAppend
    <3>3. n_heard'[l] = n_heard[l] \/ n_heard'[l] = Append(n_heard[l], e)
      BY <1>4
    <3> QED BY <3>2, <3>3
  <2> QED BY <2>1, <2>2 DEF HistoryInv
<1> QED BY <1>10, <1>11, <1>12, <1>13, <1>14 DEF NotifyInv

(* The delta of a call, which ends it.                                     *)
LEMMA DeltaStep ==
    ASSUME NotifyInv, NEW c \in RowCallers, NotifyDelta(c)
    PROVE  NotifyInv'
<1>0. NotifyTypeOK /\ CallInv /\ CopyInv /\ EventInv /\ HistoryInv
  BY DEF NotifyInv
<1>1. /\ n_call \in [RowCallers -> RowCalls \cup {NoCall}] /\ NoCall \notin RowCalls
      /\ n_call[c] \in RowCalls /\ n_call[c].at = "notify"
      /\ n_copy \in [Subscribers -> SUBSET Nat]
  BY <1>0, NotificationsAssumption DEF NotifyTypeOK, NotifyDelta
<1>2. PICK k \in Changes : k = n_call[c].change
  BY <1>1 DEF RowCalls, Changes
<1>3. PICK r \in Nat : r = n_call[c].row
  BY <1>1 DEF RowCalls
<1> DEFINE Tell(s) == /\ k = "Insert" => r \in n_rows
                      /\ n_subs[s] # Off
                      /\ matches(n_subs[s], [change |-> k, row |-> r])
           New(s)  == IF k = "Insert" THEN n_copy[s] \cup {r} ELSE n_copy[s] \ {r}
<1>4. /\ n_call' = [n_call EXCEPT ![c] = NoCall]
      /\ UNCHANGED <<n_rows, n_next, emitter_vars, n_subs>>
      /\ \/ n_copy' = [s \in Subscribers |-> IF Tell(s) THEN New(s) ELSE n_copy[s]]
         \/ k = "Insert" /\ r \notin n_rows /\ n_copy' = n_copy
  <2>1. CASE HasDelta(n_call[c])
    <3>1. notify(DeltaOf(n_call[c])) /\ (k = "Insert" => r \in n_rows)
      BY <2>1, <1>2, <1>3 DEF NotifyDelta, HasDelta
    <3>2. DeltaOf(n_call[c]) = [change |-> k, row |-> r]
      BY <1>2, <1>3 DEF DeltaOf
    <3>3. n_copy' = [s \in Subscribers |-> IF Tell(s) THEN New(s) ELSE n_copy[s]] /\ UNCHANGED n_subs
      <4>1. notify([change |-> k, row |-> r])
        BY <3>1, <3>2
      <4>2. n_copy' = [s \in Subscribers |->
               IF n_subs[s] = Off \/ ~matches(n_subs[s], [change |-> k, row |-> r]) THEN n_copy[s]
               ELSE IF k = "Insert" THEN n_copy[s] \cup {r} ELSE n_copy[s] \ {r}]
        BY <4>1 DEF notify
      <4> QED BY <3>1, <4>1, <4>2 DEF notify
    <3> QED BY <3>3 DEF NotifyDelta
  <2>2. CASE ~HasDelta(n_call[c])
    BY <2>2, <1>2, <1>3 DEF NotifyDelta, HasDelta, manager_vars
  <2> QED BY <2>1, <2>2
<1>5. /\ n_call'[c] = NoCall /\ \A d \in RowCallers : d # c => n_call'[d] = n_call[d]
      /\ ~Pending(c)' /\ Pending(c)
      /\ \A d \in RowCallers : d # c => (Pending(d)' <=> Pending(d))
  BY <1>1, <1>4 DEF Pending
<1>6. ToEmit' = ToEmit /\ \A d \in ToEmit : d # c /\ d \in RowCallers
  BY <1>1, <1>5 DEF ToEmit
<1>7. AllEvents' = AllEvents
  BY <1>4 DEF AllEvents, emitter_vars
<1>8. NotifyTypeOK'
  <2>1. n_copy' \in [Subscribers -> SUBSET Nat]
    <3>1. \A s \in Subscribers : New(s) \in SUBSET Nat /\ n_copy[s] \in SUBSET Nat
      BY <1>1
    <3> HIDE DEF New, Tell
    <3> QED BY <3>1, <1>1, <1>4
  <2>2. n_call' \in [RowCallers -> RowCalls \cup {NoCall}]
    BY <1>1, <1>4
  <2> QED BY <2>1, <2>2, <1>0, <1>4 DEF NotifyTypeOK, emitter_vars
<1>9. CallInv'
  BY <1>0, <1>4, <1>5 DEF CallInv
<1>10. CopyInv'
  <2> SUFFICES ASSUME NEW s \in Subscribers, n_subs[s] # Off, Follows(s)'
               PROVE  /\ \A q \in n_rows : q \notin n_copy'[s] =>
                           \E d \in RowCallers : Pending(d)' /\ n_call'[d].change = "Insert" /\ n_call'[d].row = q
                      /\ \A q \in n_copy'[s] : q \notin n_rows =>
                           \E d \in RowCallers : Pending(d)' /\ n_call'[d].change = "Delete" /\ n_call'[d].row = q
    BY <1>4 DEF CopyInv
  <2>1. Follows(s)
    BY <1>4 DEF Follows
  <2>2. /\ \A q \in n_rows : q \notin n_copy[s] =>
             \E d \in RowCallers : Pending(d) /\ n_call[d].change = "Insert" /\ n_call[d].row = q
        /\ \A q \in n_copy[s] : q \notin n_rows =>
             \E d \in RowCallers : Pending(d) /\ n_call[d].change = "Delete" /\ n_call[d].row = q
    BY <2>1, <1>0 DEF CopyInv
  <2>3. matches(n_subs[s], [change |-> k, row |-> r])
    BY <2>1 DEF Follows, matches
  <2>4. \/ k = "Insert" /\ r \in n_rows /\ n_copy'[s] = n_copy[s] \cup {r}
        \/ k = "Insert" /\ r \notin n_rows /\ n_copy'[s] = n_copy[s]
        \/ k = "Delete" /\ r \notin n_rows /\ n_copy'[s] = n_copy[s] \ {r}
    <3>1. k = "Delete" => r \notin n_rows
      BY <1>0, <1>2, <1>3, <1>5 DEF CallInv
    <3>2. k = "Insert" \/ (k = "Delete" /\ k # "Insert")
      BY <1>2 DEF Changes
    <3> QED BY <3>1, <3>2, <2>3, <1>4
  <2>5. ASSUME NEW q \in n_rows, q \notin n_copy'[s]
        PROVE  \E d \in RowCallers : Pending(d)' /\ n_call'[d].change = "Insert" /\ n_call'[d].row = q
    <3>1. q \notin n_copy[s]
      BY <2>4, <2>5
    <3>2. PICK d \in RowCallers : Pending(d) /\ n_call[d].change = "Insert" /\ n_call[d].row = q
      BY <3>1, <2>2
    <3>3. d # c
      BY <3>2, <2>4, <2>5, <1>2, <1>3
    <3> QED BY <3>2, <3>3, <1>5
  <2>6. ASSUME NEW q \in n_copy'[s], q \notin n_rows
        PROVE  \E d \in RowCallers : Pending(d)' /\ n_call'[d].change = "Delete" /\ n_call'[d].row = q
    <3>1. q \in n_copy[s]
      BY <2>4, <2>6
    <3>2. PICK d \in RowCallers : Pending(d) /\ n_call[d].change = "Delete" /\ n_call[d].row = q
      BY <3>1, <2>2, <2>6
    <3>3. d # c
      BY <3>2, <2>4, <2>6, <1>2, <1>3
    <3> QED BY <3>2, <3>3, <1>5
  <2> QED BY <2>5, <2>6
<1>11. EventInv'
  <2>1. \A d \in ToEmit : n_call'[d] = n_call[d]
    BY <1>5, <1>6
  <2> QED BY <2>1, <1>0, <1>4, <1>6, <1>7 DEF EventInv
<1>12. HistoryInv'
  BY <1>0, <1>4, <1>7 DEF HistoryInv, emitter_vars
<1> QED BY <1>8, <1>9, <1>10, <1>11, <1>12 DEF NotifyInv

----------------------------------------------------------------------------

LEMMA NotifyInvariant == NotificationsSpec => []NotifyInv
<1>1. NotifyInv /\ [NotificationsNext]_notify_vars => NotifyInv'
  BY QuietSteps, InsertStep, DeleteStep, EmitStep, DeltaStep DEF NotificationsNext
<1> QED BY <1>1, NotifyInit, PTL DEF NotificationsSpec

LEMMA InvFollows ==
    ASSUME NotifyInv
    PROVE  SubscribersFollow
<1> SUFFICES ASSUME Quiet PROVE SubscribersFollow
  BY DEF SubscribersFollow
<1>0. NotifyTypeOK /\ CallInv /\ CopyInv /\ EventInv /\ HistoryInv
  BY DEF NotifyInv
<1>1. (\A c \in RowCallers : ~Pending(c)) /\ ToEmit = {}
  BY DEF Quiet, Pending, ToEmit
<1>2. ASSUME NEW s \in Subscribers, n_subs[s] # Off,
             \A ch \in {"Insert", "Delete"} : matches(n_subs[s], [change |-> ch])
      PROVE  n_copy[s] = n_rows
  <2>1. Follows(s)
    BY <1>2 DEF Follows, Changes
  <2> QED BY <1>0, <1>1, <1>2, <2>1 DEF CopyInv
<1>3. {r \in 1 .. n_next : \E i \in 1 .. Len(AllEvents) : AllEvents[i] = [kind |-> "Insert", row |-> r]}
        = 1 .. n_next
  BY <1>0, <1>1 DEF EventInv, EventIn
<1>4. Len(AllEvents) = n_next + Cardinality((1 .. n_next) \ n_rows)
  <2>1. Cardinality(ToEmit) = 0 /\ Len(AllEvents) \in Nat
    BY <1>0, <1>1, AllEventsType, FS_EmptySet
  <2>2. Len(AllEvents) + Cardinality(ToEmit) = n_next + Cardinality((1 .. n_next) \ n_rows)
    BY <1>0 DEF EventInv
  <2> QED BY <2>1, <2>2
<1>5. /\ \A i, j \in 1 .. Len(AllEvents) : AllEvents[i] = AllEvents[j] => i = j
      /\ n_history = Newest(AllEvents, max_history)
      /\ \A l \in Listeners : InOrder(n_heard[l], AllEvents)
  BY <1>0 DEF EventInv, HistoryInv
<1> QED BY <1>2, <1>3, <1>4, <1>5 DEF SubscribersFollow

(* Whenever no insert_row or delete_row is under way, a subscriber that    *)
(* applies its deltas has exactly the table's rows; every change is one    *)
(* event, drained or buffered, none is there twice; the history is the     *)
(* newest of them; and listeners heard theirs in order: for any number of  *)
(* threads, although table, events and deltas are under three locks.       *)
THEOREM SubscribersFollowTable == NotificationsSpec => []SubscribersFollow
BY NotifyInvariant, InvFollows, PTL

-----------------------------------------------------------------------------
(***************************************************************************)
(* Access: no request sees or changes a row of another, the policy does not *)
(* depend on the order of its rules, and readers miss nothing, for any     *)
(* number of connections, shards, rows and rules and any sizes of pages.   *)
(***************************************************************************)

(* Filters.                                                                *)

\* One more entry.
FilterStep(acc, x, S) == IF x \in S THEN Append(acc, x) ELSE acc

IsFilter(g, s, S, N) ==
    g = [k \in 0 .. N |-> IF k = 0 THEN <<>> ELSE FilterStep(g[k - 1], s[k], S)]

LEMMA FilterExists ==
    ASSUME NEW s, NEW S, NEW N \in Nat
    PROVE  \E g : IsFilter(g, s, S, N)
<1> DEFINE T == {n \in Nat : \E g : IsFilter(g, s, S, n)}
<1>1. 0 \in T
  <2>1. IsFilter([k \in 0 .. 0 |-> <<>>], s, S, 0)
    BY DEF IsFilter
  <2> QED BY <2>1
<1>2. ASSUME NEW n \in 0 .. N - 1, n \in T
      PROVE  n + 1 \in T
  <2>1. PICK g : IsFilter(g, s, S, n)
    BY <1>2
  <2> DEFINE h == [k \in 0 .. n + 1 |-> IF k = n + 1 THEN FilterStep(g[n], s[n + 1], S) ELSE g[k]]
  <2>2. \A k \in 0 .. n + 1 : h[k] = IF k = 0 THEN <<>> ELSE FilterStep(h[k - 1], s[k], S)
    <3> TAKE k \in 0 .. n + 1
    <3>1. CASE k = n + 1
      BY <3>1
    <3>2. CASE k # n + 1 /\ k # 0
      <4>1. k \in 0 .. n /\ k - 1 \in 0 .. n + 1 /\ k - 1 # n + 1
        BY <3>2
      <4>2. g[k] = FilterStep(g[k - 1], s[k], S)
        BY <2>1, <3>2, <4>1 DEF IsFilter
      <4> QED BY <3>2, <4>1, <4>2
    <3>3. CASE k = 0
      <4>1. 0 \in 0 .. n /\ 0 # n + 1
        OBVIOUS
      <4>2. g[0] = <<>>
        BY <2>1, <4>1 DEF IsFilter
      <4> QED BY <3>3, <4>1, <4>2
    <3> QED BY <3>1, <3>2, <3>3
  <2>3. h = [k \in 0 .. n + 1 |-> h[k]]
    OBVIOUS
  <2> HIDE DEF h
  <2>4. IsFilter(h, s, S, n + 1)
    BY <2>2, <2>3 DEF IsFilter
  <2> QED BY <2>4
<1>3. 0 .. N \subseteq T
  <2> HIDE DEF T
  <2> QED BY <1>1, <1>2, UpTo
<1> QED BY <1>3

\* out holds the entries of s up to n that are in S, in their order.
FilterOf(out, X, s, S, n) ==
    /\ out \in Seq(X) /\ Len(out) \in 0 .. n
    /\ \A j \in 1 .. Len(out) : out[j] \in S /\ \E i \in 1 .. n : out[j] = s[i]
    /\ \A i \in 1 .. n : s[i] \in S => \E j \in 1 .. Len(out) : out[j] = s[i]
    /\ \A j, k \in 1 .. Len(out) :
         j < k => \E x, y \in 1 .. n : x < y /\ out[j] = s[x] /\ out[k] = s[y]

LEMMA FilterOfStep ==
    ASSUME NEW X, NEW s \in Seq(X), NEW S, NEW n \in Nat, n + 1 <= Len(s),
           NEW acc, FilterOf(acc, X, s, S, n), NEW out, out = FilterStep(acc, s[n + 1], S)
    PROVE  FilterOf(out, X, s, S, n + 1)
<1>1. n + 1 \in 1 .. Len(s) /\ s[n + 1] \in X /\ n + 1 \in 1 .. n + 1
  OBVIOUS
<1>2. \A i \in 1 .. n + 1 : i \in 1 .. n \/ i = n + 1
  OBVIOUS
<1>3. \A i \in 1 .. n : i \in 1 .. n + 1 /\ i < n + 1
  OBVIOUS
<1>4. CASE s[n + 1] \notin S
  <2>1. out = acc
    BY <1>4 DEF FilterStep
  <2>2. Len(out) \in 0 .. n + 1
    BY <2>1 DEF FilterOf
  <2>3. \A i \in 1 .. n + 1 : s[i] \in S => \E j \in 1 .. Len(out) : out[j] = s[i]
    BY <1>2, <1>4, <2>1 DEF FilterOf
  <2>4. \A j \in 1 .. Len(out) : out[j] \in S /\ \E i \in 1 .. n + 1 : out[j] = s[i]
    BY <1>3, <2>1 DEF FilterOf
  <2>5. ASSUME NEW j \in 1 .. Len(out), NEW k \in 1 .. Len(out), j < k
        PROVE  \E x, y \in 1 .. n + 1 : x < y /\ out[j] = s[x] /\ out[k] = s[y]
    <3>1. PICK x \in 1 .. n, y \in 1 .. n : x < y /\ out[j] = s[x] /\ out[k] = s[y]
      BY <2>1, <2>5 DEF FilterOf
    <3> QED BY <1>3, <3>1
  <2>6. out \in Seq(X)
    BY <2>1 DEF FilterOf
  <2> QED BY <2>2, <2>3, <2>4, <2>5, <2>6 DEF FilterOf
<1>5. CASE s[n + 1] \in S
  <2>1. acc \in Seq(X) /\ Len(acc) \in Nat /\ Len(acc) <= n
    BY DEF FilterOf
  <2>2. /\ out \in Seq(X) /\ Len(out) = Len(acc) + 1 /\ out[Len(acc) + 1] = s[n + 1]
        /\ \A j \in 1 .. Len(acc) : out[j] = acc[j]
    BY <1>1, <1>5, <2>1 DEF FilterStep
  <2>3. \A j \in 1 .. Len(out) : j \in 1 .. Len(acc) \/ j = Len(acc) + 1
    BY <2>1, <2>2
  <2>4. \A j \in 1 .. Len(acc) : j \in 1 .. Len(out)
    BY <2>1, <2>2
  <2>5. ASSUME NEW j \in 1 .. Len(out) PROVE out[j] \in S /\ \E i \in 1 .. n + 1 : out[j] = s[i]
    <3>1. CASE j = Len(acc) + 1
      BY <1>1, <1>5, <2>2, <3>1
    <3>2. CASE j \in 1 .. Len(acc)
      <4>1. acc[j] \in S /\ \E i \in 1 .. n : acc[j] = s[i]
        BY <3>2 DEF FilterOf
      <4> QED BY <1>3, <2>2, <3>2, <4>1
    <3> QED BY <2>3, <3>1, <3>2
  <2>6. ASSUME NEW i \in 1 .. n + 1, s[i] \in S PROVE \E j \in 1 .. Len(out) : out[j] = s[i]
    <3>1. CASE i = n + 1
      BY <2>1, <2>2, <3>1
    <3>2. CASE i \in 1 .. n
      <4>1. PICK j \in 1 .. Len(acc) : acc[j] = s[i]
        BY <2>6, <3>2 DEF FilterOf
      <4> QED BY <2>2, <2>4, <4>1
    <3> QED BY <1>2, <3>1, <3>2
  <2>7. ASSUME NEW j \in 1 .. Len(out), NEW k \in 1 .. Len(out), j < k
        PROVE  \E x, y \in 1 .. n + 1 : x < y /\ out[j] = s[x] /\ out[k] = s[y]
    <3>1. j \in 1 .. Len(acc)
      BY <2>1, <2>2, <2>7
    <3>2. CASE k = Len(acc) + 1
      <4>1. PICK x \in 1 .. n : acc[j] = s[x]
        BY <3>1 DEF FilterOf
      <4> QED BY <1>1, <1>3, <2>2, <3>1, <3>2, <4>1
    <3>3. CASE k \in 1 .. Len(acc)
      <4>1. PICK x \in 1 .. n, y \in 1 .. n : x < y /\ acc[j] = s[x] /\ acc[k] = s[y]
        BY <2>7, <3>1, <3>3 DEF FilterOf
      <4> QED BY <1>3, <2>2, <3>1, <3>3, <4>1
    <3> QED BY <2>3, <3>2, <3>3
  <2>8. Len(out) \in 0 .. n + 1
    BY <2>1, <2>2
  <2> QED BY <2>2, <2>5, <2>6, <2>7, <2>8 DEF FilterOf
<1> QED BY <1>4, <1>5

LEMMA FilterValue ==
    ASSUME NEW X, NEW s \in Seq(X), NEW S, NEW g, IsFilter(g, s, S, Len(s))
    PROVE  FilterOf(g[Len(s)], X, s, S, Len(s))
<1> PICK N \in Nat : N = Len(s)
  OBVIOUS
<1>1. g = [k \in 0 .. N |-> IF k = 0 THEN <<>> ELSE FilterStep(g[k - 1], s[k], S)]
  BY DEF IsFilter
<1>2. g[0] = <<>> /\ \A k \in 0 .. N - 1 : g[k + 1] = FilterStep(g[k], s[k + 1], S)
  <2>1. g[0] = <<>>
    BY <1>1
  <2>2. ASSUME NEW k \in 0 .. N - 1 PROVE g[k + 1] = FilterStep(g[k], s[k + 1], S)
    <3>1. k + 1 \in 0 .. N /\ k + 1 # 0 /\ (k + 1) - 1 = k
      OBVIOUS
    <3> QED BY <1>1, <3>1
  <2> QED BY <2>1, <2>2
<1> DEFINE T == {n \in 0 .. N : FilterOf(g[n], X, s, S, n)}
<1>3. 0 \in T
  <2>1. FilterOf(<<>>, X, s, S, 0)
    BY DEF FilterOf
  <2> QED BY <1>2, <2>1
<1>4. ASSUME NEW n \in 0 .. N - 1, n \in T PROVE n + 1 \in T
  <2>1. n \in Nat /\ n + 1 <= Len(s) /\ FilterOf(g[n], X, s, S, n)
    BY <1>4
  <2>2. g[n + 1] = FilterStep(g[n], s[n + 1], S)
    BY <1>2
  <2>3. FilterOf(g[n + 1], X, s, S, n + 1)
    BY <2>1, <2>2, FilterOfStep
  <2> QED BY <2>3
<1>5. 0 .. N \subseteq T
  <2> HIDE DEF T
  <2> QED BY <1>3, <1>4, UpTo
<1>6. FilterOf(g[N], X, s, S, N)
  BY <1>5
<1> QED BY <1>6

LEMMA FilterFacts ==
    ASSUME NEW X, NEW s \in Seq(X), NEW S
    PROVE  FilterOf(Filtered(s, S), X, s, S, Len(s))
<1>0. Len(s) \in Nat
  OBVIOUS
<1> DEFINE g == CHOOSE g : IsFilter(g, s, S, Len(s))
<1>1. IsFilter(g, s, S, Len(s))
  BY <1>0, FilterExists, Zenon
<1>2. Filtered(s, S) = g[Len(s)]
  BY Zenon DEF Filtered, IsFilter, FilterStep
<1> HIDE DEF g
<1> QED BY <1>1, <1>2, FilterValue

-----------------------------------------------------------------------------
(* Global ids and their order in a scan.                                   *)

LEMMA DivMod ==
    ASSUME NEW b \in Nat \ {0}, NEW s \in Nat, NEW l \in 0 .. b - 1
    PROVE  (s * b + l) \div b = s /\ (s * b + l) % b = l
  OBVIOUS

LEMMA MulMono ==
    ASSUME NEW b \in Nat, NEW s \in Nat, NEW r \in Nat, s <= r
    PROVE  s * b <= r * b /\ s * b \in Nat
  OBVIOUS

\* A global id names its shard and its row, and routes to itself.
LEMMA ComposeSplit ==
    ASSUME NEW s \in 0 .. Shards - 1, NEW l \in 1 .. MaxLocal
    PROVE  /\ split_id(compose_id(s, l)) = <<s, l>>
           /\ route_id(compose_id(s, l)) = compose_id(s, l)
           /\ compose_id(s, l) \in 1 .. compose_id(Shards - 1, MaxLocal)
           /\ compose_id(s, l) \in Gids
<1>1. Shards \in Nat \ {0} /\ MaxLocal \in Nat \ {0} /\ s \in Nat /\ l \in 0 .. (MaxLocal + 1) - 1
  BY AccessAssumption
<1> PICK b \in Nat \ {0} : b = MaxLocal + 1
  BY <1>1
<1>2. (s * b + l) \div b = s /\ (s * b + l) % b = l
  BY <1>1, DivMod
<1>3. split_id(compose_id(s, l)) = <<s, l>>
  BY <1>2 DEF split_id, compose_id
<1>4. s % Shards = s
  BY <1>1
<1>5. route_id(compose_id(s, l)) = compose_id(s, l)
  BY <1>3, <1>4 DEF route_id
<1>6. s * b <= (Shards - 1) * b /\ s * b \in Nat /\ (Shards - 1) * b \in Nat
  BY <1>1, MulMono
<1>7. compose_id(s, l) \in 1 .. compose_id(Shards - 1, MaxLocal)
  BY <1>1, <1>6 DEF compose_id
<1>8. compose_id(s, l) \in Gids
  BY DEF Gids
<1> QED BY <1>3, <1>5, <1>7, <1>8

LEMMA GidFacts ==
    ASSUME NEW g \in Gids
    PROVE  route_id(g) = g /\ g \in 1 .. compose_id(Shards - 1, MaxLocal)
           /\ g \in Nat \ {0} /\ compose_id(Shards - 1, MaxLocal) \in Nat
<1>1. PICK s \in 0 .. Shards - 1, l \in 1 .. MaxLocal : g = compose_id(s, l)
  BY DEF Gids
<1>2. route_id(g) = g /\ g \in 1 .. compose_id(Shards - 1, MaxLocal)
  BY <1>1, ComposeSplit
<1>3. compose_id(Shards - 1, MaxLocal) \in Nat
  BY AccessAssumption, MulMono DEF compose_id
<1> QED BY <1>2, <1>3

\* x comes before y in a scan.
Precedes(desc, x, y) == IF desc THEN x > y ELSE x < y

ScanOrder(s, desc) == \A i, k \in 1 .. Len(s) : i < k => Precedes(desc, s[i], s[k])

\* The ids of a set, sorted.
SortedIds(ids, S, desc) ==
    /\ ids \in Seq(Nat \ {0}) /\ ScanOrder(ids, desc)
    /\ \A i \in 1 .. Len(ids) : ids[i] \in S
    /\ \A g \in S : \E i \in 1 .. Len(ids) : ids[i] = g

LEMMA SortedFacts ==
    ASSUME NEW S, \A g \in S : g \in Gids, NEW desc \in BOOLEAN
    PROVE  SortedIds(Filtered(IdsInOrder(desc), S), S, desc)
<1> PICK top \in Nat : top = compose_id(Shards - 1, MaxLocal)
  BY AccessAssumption, MulMono DEF compose_id
<1> PICK s, ids : s = IdsInOrder(desc) /\ ids = Filtered(IdsInOrder(desc), S)
  OBVIOUS
<1>1. s = [k \in 1 .. top |-> IF desc THEN top + 1 - k ELSE k]
  BY DEF IdsInOrder
<1>2. \A k \in 1 .. top : (IF desc THEN top + 1 - k ELSE k) \in Nat \ {0}
  OBVIOUS
<1>3. s \in Seq(Nat \ {0}) /\ Len(s) = top
  BY <1>1, <1>2
<1>4. FilterOf(ids, Nat \ {0}, s, S, top)
  BY <1>3, FilterFacts
<1>5. ids \in Seq(Nat \ {0}) /\ \A i \in 1 .. Len(ids) : ids[i] \in S
  BY <1>4 DEF FilterOf
<1>6. ScanOrder(ids, desc)
  <2> SUFFICES ASSUME NEW i \in 1 .. Len(ids), NEW k \in 1 .. Len(ids), i < k
               PROVE  Precedes(desc, ids[i], ids[k])
    BY DEF ScanOrder
  <2>1. PICK x \in 1 .. top, y \in 1 .. top : x < y /\ ids[i] = s[x] /\ ids[k] = s[y]
    BY <1>4 DEF FilterOf
  <2>2. CASE desc = TRUE
    <3>1. ids[i] = top + 1 - x /\ ids[k] = top + 1 - y
      BY <1>1, <2>1, <2>2
    <3> QED BY <2>1, <2>2, <3>1 DEF Precedes
  <2>3. CASE desc = FALSE
    <3>1. ids[i] = x /\ ids[k] = y
      BY <1>1, <2>1, <2>3
    <3> QED BY <2>1, <2>3, <3>1 DEF Precedes
  <2> QED BY <2>2, <2>3
<1>7. ASSUME NEW g \in S PROVE \E i \in 1 .. Len(ids) : ids[i] = g
  <2>1. g \in 1 .. top
    BY GidFacts
  <2>2. PICK k \in 1 .. top : s[k] = g
    <3>1. CASE desc = TRUE
      <4>1. top + 1 - g \in 1 .. top /\ top + 1 - (top + 1 - g) = g
        BY <2>1
      <4> QED BY <1>1, <3>1, <4>1
    <3>2. CASE desc = FALSE
      BY <1>1, <2>1, <3>2
    <3> QED BY <3>1, <3>2
  <2> QED BY <1>4, <2>2 DEF FilterOf
<1> QED BY <1>5, <1>6, <1>7 DEF SortedIds

-----------------------------------------------------------------------------
(* The binary search of apply_window.                                      *)

AtOrBefore(desc, cursor, x) == IF desc THEN x >= cursor ELSE x <= cursor

Narrowed(ids, desc, cursor, x) ==
    LET mid == (x.lo + x.hi) \div 2
    IN  IF x.lo >= x.hi THEN x
        ELSE IF AtOrBefore(desc, cursor, ids[mid + 1]) THEN [x EXCEPT !.lo = mid + 1]
        ELSE [x EXCEPT !.hi = mid]

IsSearch(g, ids, desc, cursor, n, N) ==
    g = [k \in 0 .. N |-> IF k = 0 THEN [lo |-> 0, hi |-> n]
                          ELSE Narrowed(ids, desc, cursor, g[k - 1])]

LEMMA SearchExists ==
    ASSUME NEW ids, NEW desc, NEW cursor, NEW n, NEW N \in Nat
    PROVE  \E g : IsSearch(g, ids, desc, cursor, n, N)
<1> DEFINE T == {m \in Nat : \E g : IsSearch(g, ids, desc, cursor, n, m)}
           Nar(x) == Narrowed(ids, desc, cursor, x)
<1>1. 0 \in T
  <2>1. IsSearch([k \in 0 .. 0 |-> [lo |-> 0, hi |-> n]], ids, desc, cursor, n, 0)
    BY DEF IsSearch
  <2> QED BY <2>1
<1>2. ASSUME NEW m \in 0 .. N - 1, m \in T
      PROVE  m + 1 \in T
  <2>1. PICK g : IsSearch(g, ids, desc, cursor, n, m)
    BY <1>2
  <2> DEFINE h == [k \in 0 .. m + 1 |-> IF k = m + 1 THEN Nar(g[m]) ELSE g[k]]
  <2> HIDE DEF Nar
  <2>2. \A k \in 0 .. m + 1 : h[k] = IF k = 0 THEN [lo |-> 0, hi |-> n] ELSE Nar(h[k - 1])
    <3> TAKE k \in 0 .. m + 1
    <3>1. CASE k = m + 1
      BY <3>1
    <3>2. CASE k # m + 1 /\ k # 0
      <4>1. k \in 0 .. m /\ k - 1 \in 0 .. m + 1 /\ k - 1 # m + 1
        BY <3>2
      <4>2. g[k] = Nar(g[k - 1])
        BY <2>1, <3>2, <4>1 DEF IsSearch, Nar
      <4> QED BY <3>2, <4>1, <4>2
    <3>3. CASE k = 0
      <4>1. 0 \in 0 .. m /\ 0 # m + 1
        OBVIOUS
      <4>2. g[0] = [lo |-> 0, hi |-> n]
        BY <2>1, <4>1 DEF IsSearch
      <4> QED BY <3>3, <4>1, <4>2
    <3> QED BY <3>1, <3>2, <3>3
  <2>3. h = [k \in 0 .. m + 1 |-> h[k]]
    OBVIOUS
  <2> HIDE DEF h
  <2>4. IsSearch(h, ids, desc, cursor, n, m + 1)
    BY <2>2, <2>3 DEF IsSearch, Nar
  <2> QED BY <2>4
<1>3. 0 .. N \subseteq T
  <2> HIDE DEF T
  <2> QED BY <1>1, <1>2, UpTo
<1> QED BY <1>3

\* Between lo and hi lies the first id behind the cursor; k steps were taken.
Searching(x, ids, desc, cursor, n, k) ==
    /\ x \in [lo : 0 .. n, hi : 0 .. n] /\ x.lo <= x.hi
    /\ x.lo < x.hi => x.hi - x.lo <= n - k
    /\ \A i \in 1 .. x.lo : AtOrBefore(desc, cursor, ids[i])
    /\ \A i \in x.hi + 1 .. n : ~AtOrBefore(desc, cursor, ids[i])

LEMMA Middle ==
    ASSUME NEW lo \in Nat, NEW hi \in Nat, lo < hi
    PROVE  (lo + hi) \div 2 \in Nat /\ lo <= (lo + hi) \div 2 /\ (lo + hi) \div 2 < hi
  OBVIOUS

LEMMA Shrinks ==
    ASSUME NEW lo \in Nat, NEW hi \in Nat, NEW mid \in Nat, lo <= mid, mid < hi,
           NEW n \in Nat, NEW k \in Nat, hi - lo <= n - k
    PROVE  mid + 1 <= hi /\ hi - (mid + 1) <= n - (k + 1)
  OBVIOUS

LEMMA NarrowedSearch ==
    ASSUME NEW n \in Nat, NEW ids \in Seq(Nat \ {0}), Len(ids) = n, NEW desc \in BOOLEAN,
           ScanOrder(ids, desc), NEW cursor \in Nat, NEW k \in Nat, NEW x,
           Searching(x, ids, desc, cursor, n, k), NEW y, y = Narrowed(ids, desc, cursor, x)
    PROVE  Searching(y, ids, desc, cursor, n, k + 1)
<1> PICK lo, hi, mid : lo = x.lo /\ hi = x.hi /\ mid = (x.lo + x.hi) \div 2
  OBVIOUS
<1>1. /\ lo \in 0 .. n /\ hi \in 0 .. n /\ lo <= hi /\ x = [lo |-> lo, hi |-> hi]
      /\ (lo < hi => hi - lo <= n - k)
      /\ \A i \in 1 .. lo : AtOrBefore(desc, cursor, ids[i])
      /\ \A i \in hi + 1 .. n : ~AtOrBefore(desc, cursor, ids[i])
  BY DEF Searching
<1>2. \A i \in 1 .. n : ids[i] \in Nat
  OBVIOUS
<1>n. lo \in Nat /\ hi \in Nat /\ lo <= hi /\ hi <= n /\ (lo < hi => hi - lo <= n - k)
      /\ mid = (lo + hi) \div 2
  BY <1>1
<1>3. CASE lo >= hi
  <2>1. y = x
    BY <1>3 DEF Narrowed
  <2>2. ~(x.lo < x.hi)
    BY <1>n, <1>3
  <2> QED BY <2>1, <2>2 DEF Searching
<1>4. CASE lo < hi
  <2>0. mid \in Nat /\ lo <= mid /\ mid < hi
    BY <1>n, <1>4, Middle
  <2>1. mid \in Nat /\ lo <= mid /\ mid < hi /\ mid + 1 \in 1 .. n
    BY <1>n, <2>0
  <2>2. CASE AtOrBefore(desc, cursor, ids[mid + 1])
    <3>1. y = [lo |-> mid + 1, hi |-> hi]
      BY <1>1, <1>4, <2>2 DEF Narrowed
    <3>2. ASSUME NEW i \in 1 .. mid + 1 PROVE AtOrBefore(desc, cursor, ids[i])
      <4>1. i \in 1 .. n
        BY <2>1
      <4>2. CASE i = mid + 1
        BY <2>2, <4>2
      <4>3. CASE i < mid + 1
        <5>1. Precedes(desc, ids[i], ids[mid + 1])
          BY <2>1, <4>1, <4>3 DEF ScanOrder
        <5> QED BY <1>2, <2>1, <2>2, <4>1, <5>1 DEF AtOrBefore, Precedes
      <4> QED BY <2>1, <4>2, <4>3
    <3>3. y \in [lo : 0 .. n, hi : 0 .. n] /\ y.lo = mid + 1 /\ y.hi = hi
      BY <1>n, <2>1, <3>1
    <3>4. mid + 1 <= hi /\ hi - (mid + 1) <= n - (k + 1)
      <4>1. hi - lo <= n - k
        BY <1>n, <1>4
      <4> QED BY <1>n, <2>0, <4>1, Shrinks
    <3> QED BY <1>1, <3>2, <3>3, <3>4 DEF Searching
  <2>3. CASE ~AtOrBefore(desc, cursor, ids[mid + 1])
    <3>1. y = [lo |-> lo, hi |-> mid]
      BY <1>1, <1>4, <2>3 DEF Narrowed
    <3>2. ASSUME NEW i \in mid + 1 .. n PROVE ~AtOrBefore(desc, cursor, ids[i])
      <4>1. i \in 1 .. n
        BY <2>1
      <4>2. CASE i = mid + 1
        BY <2>3, <4>2
      <4>3. CASE mid + 1 < i
        <5>1. Precedes(desc, ids[mid + 1], ids[i])
          BY <2>1, <4>1, <4>3 DEF ScanOrder
        <5> QED BY <1>2, <2>1, <2>3, <4>1, <5>1 DEF AtOrBefore, Precedes
      <4> QED BY <2>1, <4>2, <4>3
    <3>3. y \in [lo : 0 .. n, hi : 0 .. n] /\ y.lo = lo /\ y.hi = mid
      BY <1>n, <2>1, <3>1, SMTT(30)
    <3>4. lo <= mid /\ mid - lo <= n - (k + 1)
      BY <1>n, <1>4, <2>1, SMTT(30)
    <3> QED BY <1>1, <3>2, <3>3, <3>4 DEF Searching
  <2> QED BY <2>2, <2>3
<1> QED BY <1>1, <1>3, <1>4

\* The search finds how many of the sorted ids lie at or before the cursor.
LEMMA WindowStartFacts ==
    ASSUME NEW ids \in Seq(Nat \ {0}), NEW desc \in BOOLEAN, ScanOrder(ids, desc), NEW cursor \in Nat,
           NEW w, w = WindowStart(ids, desc, cursor)
    PROVE  /\ w \in 0 .. Len(ids)
           /\ \A i \in 1 .. w : AtOrBefore(desc, cursor, ids[i])
           /\ \A i \in w + 1 .. Len(ids) : ~AtOrBefore(desc, cursor, ids[i])
<1> PICK n \in Nat : n = Len(ids)
  OBVIOUS
<1> DEFINE g == CHOOSE g : IsSearch(g, ids, desc, cursor, Len(ids), Len(ids))
<1>1. IsSearch(g, ids, desc, cursor, Len(ids), Len(ids))
  BY SearchExists, Zenon
<1>2. w = g[Len(ids)].lo
  BY Zenon DEF WindowStart, IsSearch, Narrowed, AtOrBefore
<1> HIDE DEF g
<1>3. g = [k \in 0 .. n |-> IF k = 0 THEN [lo |-> 0, hi |-> n] ELSE Narrowed(ids, desc, cursor, g[k - 1])]
  BY <1>1 DEF IsSearch
<1>4. g[0] = [lo |-> 0, hi |-> n]
  BY <1>3
<1>5. ASSUME NEW k \in 0 .. n - 1 PROVE g[k + 1] = Narrowed(ids, desc, cursor, g[k])
  <2>1. k + 1 \in 0 .. n /\ k + 1 # 0 /\ (k + 1) - 1 = k
    OBVIOUS
  <2> QED BY <1>3, <2>1
<1> DEFINE T == {k \in 0 .. n : Searching(g[k], ids, desc, cursor, n, k)}
<1>6. 0 \in T
  BY <1>4 DEF Searching
<1>7. ASSUME NEW k \in 0 .. n - 1, k \in T PROVE k + 1 \in T
  <2>1. k \in Nat /\ Searching(g[k], ids, desc, cursor, n, k)
    BY <1>7
  <2>2. Searching(g[k + 1], ids, desc, cursor, n, k + 1)
    BY <1>5, <2>1, NarrowedSearch
  <2> QED BY <2>2
<1>8. 0 .. n \subseteq T
  <2> HIDE DEF T
  <2> QED BY <1>6, <1>7, UpTo
<1>9. Searching(g[n], ids, desc, cursor, n, n)
  BY <1>8
<1>10. g[n].lo = g[n].hi
  BY <1>9 DEF Searching
<1> QED BY <1>2, <1>9, <1>10 DEF Searching

-----------------------------------------------------------------------------
(* Pages.                                                                  *)

LEMMA OrderFacts ==
    ASSUME NEW desc \in BOOLEAN, NEW cursor \in Nat, NEW x \in Nat
    PROVE  /\ ~AtOrBefore(desc, cursor, x) <=> Precedes(desc, cursor, x)
           /\ AtOrBefore(desc, cursor, x) <=> (x = cursor \/ Precedes(desc, x, cursor))
  BY DEF AtOrBefore, Precedes

LEMMA PrecedesTrans ==
    ASSUME NEW desc \in BOOLEAN, NEW x \in Nat, NEW y \in Nat, NEW z \in Nat,
           Precedes(desc, x, y), Precedes(desc, y, z)
    PROVE  Precedes(desc, x, z)
  BY DEF Precedes

\* r is what lies behind the first a of the first b entries of s.
IsSlice(r, s, a, b) == Len(r) = b - a /\ \A j \in 1 .. b - a : r[j] = s[a + j]

LEMMA Slice ==
    ASSUME NEW X, NEW s \in Seq(X), NEW a \in Nat, NEW b \in Nat, a <= b, b <= Len(s),
           NEW r, r = SubSeq(s, a + 1, b)
    PROVE  r \in Seq(X) /\ IsSlice(r, s, a, b)
<1>1. \A i \in a + 1 .. b : s[i] \in X
  OBVIOUS
<1> DEFINE t == SubSeq(s, a + 1, b)
<1>2. /\ t \in Seq(X) /\ Len(t) = (IF a + 1 <= b THEN b - (a + 1) + 1 ELSE 0)
      /\ \A i \in 1 .. b - (a + 1) + 1 : t[i] = s[(a + 1) + i - 1]
  BY <1>1, SubSeqProperties
<1> HIDE DEF t
<1>3. Len(t) = b - a
  BY <1>2
<1>4. ASSUME NEW j \in 1 .. b - a PROVE t[j] = s[a + j]
  <2>1. j \in 1 .. b - (a + 1) + 1 /\ (a + 1) + j - 1 = a + j
    OBVIOUS
  <2> QED BY <1>2, <2>1
<1> QED BY <1>2, <1>3, <1>4 DEF t, IsSlice

\* Where a row is: not behind the cursor, on the page, or behind a full page.
Placed(g, page, desc, cursor) ==
    \/ cursor # 0 /\ (g = cursor \/ Precedes(desc, g, cursor))
    \/ \E j \in 1 .. Len(page) : page[j] = g
    \/ Len(page) >= ScanLimit /\ \A j \in 1 .. Len(page) : Precedes(desc, page[j], g)

\* A page of the sorted ids: what lies behind the cursor, up to the limit.
IsPage(page, S, desc, cursor) ==
    /\ page \in Seq(Nat \ {0}) /\ ScanOrder(page, desc)
    /\ \A j \in 1 .. Len(page) : page[j] \in S /\ (cursor = 0 \/ Precedes(desc, cursor, page[j]))
    /\ \A g \in S : Placed(g, page, desc, cursor)

LEMMA PageFacts ==
    ASSUME NEW S, NEW desc \in BOOLEAN, NEW ids, SortedIds(ids, S, desc), NEW cursor \in Nat,
           NEW page, page = apply_window(ids, desc, cursor)
    PROVE  IsPage(page, S, desc, cursor)
<1>0. ids \in Seq(Nat \ {0}) /\ ScanOrder(ids, desc) /\ ScanLimit \in Nat \ {0}
  BY AccessAssumption DEF SortedIds
<1> PICK n \in Nat : n = Len(ids)
  BY <1>0
<1>1. PICK w : w = IF cursor = 0 THEN 0 ELSE WindowStart(ids, desc, cursor)
  OBVIOUS
<1>2. /\ w \in 0 .. n
      /\ \A i \in w + 1 .. n : cursor = 0 \/ Precedes(desc, cursor, ids[i])
      /\ \A i \in 1 .. w : cursor # 0 /\ (ids[i] = cursor \/ Precedes(desc, ids[i], cursor))
  <2>1. CASE cursor = 0
    BY <1>1, <2>1
  <2>2. CASE cursor # 0
    <3>1. /\ w \in 0 .. n
          /\ \A i \in 1 .. w : AtOrBefore(desc, cursor, ids[i])
          /\ \A i \in w + 1 .. n : ~AtOrBefore(desc, cursor, ids[i])
      BY <1>0, <1>1, <2>2, WindowStartFacts
    <3>2. \A i \in 1 .. n : ids[i] \in Nat
      BY <1>0
    <3>3. ASSUME NEW i \in w + 1 .. n PROVE Precedes(desc, cursor, ids[i])
      <4>1. i \in 1 .. n
        BY <3>1
      <4> QED BY <3>1, <3>2, <4>1, OrderFacts
    <3>4. ASSUME NEW i \in 1 .. w PROVE ids[i] = cursor \/ Precedes(desc, ids[i], cursor)
      <4>1. i \in 1 .. n
        BY <3>1
      <4> QED BY <3>1, <3>2, <4>1, OrderFacts
    <3> QED BY <2>2, <3>1, <3>3, <3>4
  <2> QED BY <2>1, <2>2
<1>3. PICK e : e = IF w + ScanLimit < n THEN w + ScanLimit ELSE n
  OBVIOUS
<1>4. w \in Nat /\ e \in Nat /\ w <= e /\ e <= n /\ (e = n \/ e - w = ScanLimit)
  BY <1>0, <1>2, <1>3
<1>5. page = SubSeq(ids, w + 1, e)
  BY <1>1, <1>3 DEF apply_window
<1>6. page \in Seq(Nat \ {0}) /\ Len(page) = e - w /\ \A j \in 1 .. e - w : page[j] = ids[w + j]
  <2>1. IsSlice(page, ids, w, e) /\ page \in Seq(Nat \ {0})
    BY <1>0, <1>4, <1>5, Slice
  <2> QED BY <2>1 DEF IsSlice
<1>7. \A j \in 1 .. e - w : w + j \in 1 .. n /\ w + j \in w + 1 .. n
  BY <1>4
<1>8. ASSUME NEW j \in 1 .. Len(page)
      PROVE  page[j] \in S /\ (cursor = 0 \/ Precedes(desc, cursor, page[j]))
  BY <1>2, <1>6, <1>7 DEF SortedIds
<1>9. ScanOrder(page, desc)
  <2> SUFFICES ASSUME NEW i \in 1 .. Len(page), NEW k \in 1 .. Len(page), i < k
               PROVE  Precedes(desc, page[i], page[k])
    BY DEF ScanOrder
  <2>1. w + i < w + k /\ w + i \in 1 .. n /\ w + k \in 1 .. n
    BY <1>4, <1>6, <1>7
  <2>2. Precedes(desc, ids[w + i], ids[w + k])
    BY <1>0, <2>1 DEF ScanOrder
  <2> QED BY <1>6, <2>2
<1>10. ASSUME NEW g \in S
       PROVE  \/ cursor # 0 /\ (g = cursor \/ Precedes(desc, g, cursor))
              \/ \E j \in 1 .. Len(page) : page[j] = g
              \/ Len(page) >= ScanLimit /\ \A j \in 1 .. Len(page) : Precedes(desc, page[j], g)
  <2>1. PICK i \in 1 .. n : ids[i] = g
    BY DEF SortedIds
  <2>2. CASE i <= w
    <3>1. i \in 1 .. w
      BY <1>4, <2>2
    <3> QED BY <1>2, <2>1, <3>1
  <2>3. CASE w < i /\ i <= e
    <3>1. i - w \in 1 .. e - w /\ w + (i - w) = i
      BY <1>4, <2>3
    <3> QED BY <1>6, <2>1, <3>1
  <2>4. CASE e < i
    <3>1. Len(page) >= ScanLimit
      BY <1>0, <1>4, <1>6, <2>4
    <3>2. ASSUME NEW j \in 1 .. Len(page) PROVE Precedes(desc, page[j], g)
      <4>1. w + j < i /\ w + j \in 1 .. n
        BY <1>4, <1>6, <1>7, <2>4
      <4>2. Precedes(desc, ids[w + j], ids[i])
        BY <1>0, <4>1 DEF ScanOrder
      <4> QED BY <1>6, <2>1, <4>2
    <3> QED BY <3>1, <3>2
  <2> QED BY <1>4, <2>2, <2>3, <2>4
<1> QED BY <1>6, <1>8, <1>9, <1>10 DEF IsPage, Placed

\* A scan that still misses nothing: own are the rows that are the caller's.
Has(s, g) == \E i \in 1 .. Len(s) : s[i] = g

Ahead(s, desc, g) == s = <<>> \/ Precedes(desc, Last(s), g)

ScanOK(x, own) ==
    /\ x \in [desc : BOOLEAN, seen : Seq(Nat \ {0}), done : BOOLEAN, stable : SUBSET Gids]
    /\ ScanOrder(x.seen, x.desc)
    /\ \A g \in x.stable : g \in own /\ (Has(x.seen, g) \/ (~x.done /\ Ahead(x.seen, x.desc, g)))

\* r is s and behind it t, of L and P entries.
IsConcat(r, s, t, L, P) ==
    /\ Len(r) = L + P /\ L \in Nat /\ P \in Nat
    /\ \A i \in 1 .. L : r[i] = s[i] /\ i \in 1 .. L + P
    /\ \A j \in 1 .. P : r[L + j] = t[j] /\ L + j \in 1 .. L + P
    /\ \A i \in 1 .. L + P : i \in 1 .. L \/ \E j \in 1 .. P : i = L + j

LEMMA ConcatFacts ==
    ASSUME NEW X, NEW s \in Seq(X), NEW t \in Seq(X), NEW r, r = s \o t,
           NEW L, L = Len(s), NEW P, P = Len(t)
    PROVE  IsConcat(r, s, t, L, P)
<1>1. L \in Nat /\ P \in Nat
  OBVIOUS
<1>2. Len(r) = L + P
  OBVIOUS
<1>3. ASSUME NEW i \in 1 .. L PROVE r[i] = s[i] /\ i \in 1 .. L + P
  OBVIOUS
<1>4. ASSUME NEW j \in 1 .. P PROVE r[L + j] = t[j] /\ L + j \in 1 .. L + P
  OBVIOUS
<1>5. ASSUME NEW i \in 1 .. L + P, i \notin 1 .. L PROVE \E j \in 1 .. P : i = L + j
  <2>1. i - L \in 1 .. P /\ i = L + (i - L)
    BY <1>1, <1>5
  <2> QED BY <2>1
<1> QED BY <1>1, <1>2, <1>3, <1>4, <1>5 DEF IsConcat

\* What a page adds behind the last id received keeps the order.
LEMMA PagesInOrder ==
    ASSUME NEW desc \in BOOLEAN, NEW s \in Seq(Nat \ {0}), ScanOrder(s, desc),
           NEW page \in Seq(Nat \ {0}), ScanOrder(page, desc),
           s # <<>> => \A j \in 1 .. Len(page) : Precedes(desc, Last(s), page[j])
    PROVE  ScanOrder(s \o page, desc)
<1>0. PICK L, P, r : L = Len(s) /\ P = Len(page) /\ r = s \o page
  OBVIOUS
<1>c. IsConcat(r, s, page, L, P)
  BY <1>0, ConcatFacts
<1>1. /\ Len(r) = L + P /\ L \in Nat /\ P \in Nat
      /\ \A i \in 1 .. L : r[i] = s[i] /\ i \in 1 .. L + P
      /\ \A j \in 1 .. P : r[L + j] = page[j] /\ L + j \in 1 .. L + P
      /\ \A i \in 1 .. L + P : i \in 1 .. L \/ \E j \in 1 .. P : i = L + j
  BY <1>c DEF IsConcat
<1>2. \A i \in 1 .. L : s[i] \in Nat
  BY <1>0
<1>3. \A j \in 1 .. P : page[j] \in Nat
  BY <1>0
<1>4. ASSUME NEW i \in 1 .. L + P, NEW k \in 1 .. L + P, i < k
      PROVE  Precedes(desc, r[i], r[k])
  <2>1. CASE i \in 1 .. L /\ k \in 1 .. L
    BY <1>0, <1>1, <1>4, <2>1 DEF ScanOrder
  <2>2. ASSUME i \in 1 .. L, NEW j \in 1 .. P, k = L + j PROVE Precedes(desc, r[i], r[k])
    <3>1. s # <<>> /\ L \in 1 .. L
      BY <1>0, <1>1, <2>2
    <3>2. Last(s) = s[L] /\ Precedes(desc, s[L], page[j])
      BY <1>0, <3>1 DEF Last
    <3>3. CASE i = L
      BY <1>1, <2>2, <3>2, <3>3
    <3>4. CASE i < L
      <4>1. Precedes(desc, s[i], s[L])
        BY <1>0, <2>2, <3>1, <3>4 DEF ScanOrder
      <4>2. Precedes(desc, s[i], page[j])
        BY <1>2, <1>3, <2>2, <3>1, <3>2, <4>1, PrecedesTrans
      <4> QED BY <1>1, <2>2, <4>2
    <3> QED BY <1>1, <2>2, <3>3, <3>4
  <2>3. ASSUME NEW j \in 1 .. P, i = L + j, NEW m \in 1 .. P, k = L + m
        PROVE  Precedes(desc, r[i], r[k])
    <3>1. j < m
      BY <1>1, <1>4, <2>3
    <3>2. Precedes(desc, page[j], page[m])
      BY <1>0, <3>1 DEF ScanOrder
    <3> QED BY <1>1, <2>3, <3>2
  <2>4. ~(k \in 1 .. L /\ \E j \in 1 .. P : i = L + j)
    BY <1>1, <1>4
  <2> QED BY <1>1, <2>1, <2>2, <2>3, <2>4
<1> QED BY <1>0, <1>1, <1>4 DEF ScanOrder

\* Each row that stays the caller's is received, or still ahead.
LEMMA NothingPassed ==
    ASSUME NEW desc \in BOOLEAN, NEW s \in Seq(Nat \ {0}), NEW page \in Seq(Nat \ {0}),
           NEW g \in Nat, Has(s, g) \/ Ahead(s, desc, g), NEW cursor \in Nat,
           cursor = IF s = <<>> THEN 0 ELSE Last(s), Placed(g, page, desc, cursor)
    PROVE  Has(s \o page, g) \/ (~(Len(page) < ScanLimit) /\ Ahead(s \o page, desc, g))
<1>0. PICK L, P, r : L = Len(s) /\ P = Len(page) /\ r = s \o page
  OBVIOUS
<1>c. IsConcat(r, s, page, L, P)
  BY <1>0, ConcatFacts
<1>1. /\ Len(r) = L + P /\ L \in Nat /\ P \in Nat
      /\ \A i \in 1 .. L : r[i] = s[i] /\ i \in 1 .. L + P
      /\ \A j \in 1 .. P : r[L + j] = page[j] /\ L + j \in 1 .. L + P
  BY <1>c DEF IsConcat
<1>2. CASE Has(s, g)
  BY <1>0, <1>1, <1>2 DEF Has
<1>3. CASE \E j \in 1 .. P : page[j] = g
  BY <1>0, <1>1, <1>3 DEF Has
<1>4. CASE P >= ScanLimit /\ \A j \in 1 .. P : Precedes(desc, page[j], g)
  <2>1. ~(P < ScanLimit) /\ P \in 1 .. P
    BY <1>1, <1>4, AccessAssumption
  <2>2. Last(r) = page[P]
    BY <1>1, <2>1 DEF Last
  <2> QED BY <1>0, <1>4, <2>1, <2>2 DEF Ahead
<1>5. CASE ~Has(s, g) /\ cursor # 0 /\ (g = cursor \/ Precedes(desc, g, cursor))
  <2>1. Precedes(desc, cursor, g)
    BY <1>5 DEF Ahead
  <2> QED BY <1>5, <2>1 DEF Precedes
<1> QED BY <1>0, <1>2, <1>3, <1>4, <1>5 DEF Placed

LEMMA CursorFacts ==
    ASSUME NEW s \in Seq(Nat \ {0})
    PROVE  /\ (IF s = <<>> THEN 0 ELSE Last(s)) \in Nat
           /\ s # <<>> => Last(s) # 0
<1>1. CASE s = <<>>
  BY <1>1
<1>2. CASE s # <<>>
  <2>1. Len(s) \in 1 .. Len(s)
    BY <1>2, EmptySeq
  <2>2. s[Len(s)] \in Nat \ {0}
    BY <2>1
  <2> QED BY <1>2, <2>2 DEF Last
<1> QED BY <1>1, <1>2

LEMMA ScanGoesOn ==
    ASSUME NEW own, \A g \in own : g \in Gids, NEW x, ScanOK(x, own), ~x.done,
           NEW page, page = apply_window(Filtered(IdsInOrder(x.desc), own), x.desc,
                                         IF x.seen = <<>> THEN 0 ELSE Last(x.seen))
    PROVE  /\ ScanOK([x EXCEPT !.seen = @ \o page, !.done = Len(page) < ScanLimit], own)
           /\ page \in Seq(Nat \ {0}) /\ \A j \in 1 .. Len(page) : page[j] \in own
<1>0. PICK desc, s, st, cursor, ids :
         /\ desc = x.desc /\ s = x.seen /\ st = x.stable /\ ids = Filtered(IdsInOrder(x.desc), own)
         /\ cursor = IF x.seen = <<>> THEN 0 ELSE Last(x.seen)
  OBVIOUS
<1>1. /\ desc \in BOOLEAN /\ s \in Seq(Nat \ {0}) /\ ScanOrder(s, desc)
      /\ st \in SUBSET Gids /\ \A g \in st : g \in own /\ (Has(s, g) \/ Ahead(s, desc, g))
      /\ x \in [desc : BOOLEAN, seen : Seq(Nat \ {0}), done : BOOLEAN, stable : SUBSET Gids]
  BY <1>0 DEF ScanOK
<1>2. cursor = (IF s = <<>> THEN 0 ELSE Last(s)) /\ cursor \in Nat /\ (s # <<>> => cursor # 0)
  BY <1>0, <1>1, CursorFacts
<1>3. SortedIds(ids, own, desc)
  BY <1>0, <1>1, SortedFacts
<1>4. page = apply_window(ids, desc, cursor)
  BY <1>0
<1>p. IsPage(page, own, desc, cursor)
  BY <1>1, <1>2, <1>3, <1>4, PageFacts
<1>5. /\ page \in Seq(Nat \ {0}) /\ ScanOrder(page, desc)
      /\ \A j \in 1 .. Len(page) : page[j] \in own /\ (cursor = 0 \/ Precedes(desc, cursor, page[j]))
  BY <1>p DEF IsPage
<1>6. ScanOrder(s \o page, desc)
  <2>1. s # <<>> => \A j \in 1 .. Len(page) : Precedes(desc, Last(s), page[j])
    BY <1>2, <1>5
  <2> QED BY <1>1, <1>5, <2>1, PagesInOrder
<1>7. ASSUME NEW g \in st
      PROVE  Has(s \o page, g) \/ (~(Len(page) < ScanLimit) /\ Ahead(s \o page, desc, g))
  <2>1. g \in own /\ g \in Nat /\ (Has(s, g) \/ Ahead(s, desc, g))
    BY <1>1, GidFacts
  <2>2. Placed(g, page, desc, cursor)
    BY <1>p, <2>1 DEF IsPage
  <2> QED BY <1>1, <1>2, <1>5, <2>1, <2>2, NothingPassed
<1>8. PICK y, r, d : /\ r = s \o page /\ d = (Len(page) < ScanLimit)
                     /\ y = [x EXCEPT !.seen = @ \o page, !.done = Len(page) < ScanLimit]
  OBVIOUS
<1>9. r \in Seq(Nat \ {0}) /\ d \in BOOLEAN
  BY <1>1, <1>5, <1>8
<1>10. y = [x EXCEPT !.seen = r, !.done = d]
  BY <1>0, <1>8
<1>11. /\ y.desc = desc /\ y.seen = r /\ y.stable = st /\ y.done = d
       /\ y \in [desc : BOOLEAN, seen : Seq(Nat \ {0}), done : BOOLEAN, stable : SUBSET Gids]
  BY <1>0, <1>1, <1>9, <1>10
<1>12. ScanOK(y, own)
  BY <1>1, <1>6, <1>7, <1>8, <1>11 DEF ScanOK
<1> QED BY <1>5, <1>8, <1>12

-----------------------------------------------------------------------------
(* The policy engine.                                                      *)

Verdict(before, rule, id, resource, perm) ==
    IF before = "Deny" \/ ~Matches(rule, id, resource, perm) THEN before ELSE rule.effect

IsVerdict(g, rules, id, resource, perm, N) ==
    g = [k \in 0 .. N |-> IF k = 0 THEN "none" ELSE Verdict(g[k - 1], rules[k], id, resource, perm)]

LEMMA VerdictExists ==
    ASSUME NEW rules, NEW id, NEW resource, NEW perm, NEW N \in Nat
    PROVE  \E g : IsVerdict(g, rules, id, resource, perm, N)
<1> DEFINE T == {n \in Nat : \E g : IsVerdict(g, rules, id, resource, perm, n)}
           V(b, k) == Verdict(b, rules[k], id, resource, perm)
<1>1. 0 \in T
  <2>1. IsVerdict([k \in 0 .. 0 |-> "none"], rules, id, resource, perm, 0)
    BY DEF IsVerdict
  <2> QED BY <2>1
<1>2. ASSUME NEW n \in 0 .. N - 1, n \in T
      PROVE  n + 1 \in T
  <2>1. PICK g : IsVerdict(g, rules, id, resource, perm, n)
    BY <1>2
  <2> DEFINE h == [k \in 0 .. n + 1 |-> IF k = n + 1 THEN V(g[n], n + 1) ELSE g[k]]
  <2> HIDE DEF V
  <2>2. \A k \in 0 .. n + 1 : h[k] = IF k = 0 THEN "none" ELSE V(h[k - 1], k)
    <3> TAKE k \in 0 .. n + 1
    <3>1. CASE k = n + 1
      BY <3>1
    <3>2. CASE k # n + 1 /\ k # 0
      <4>1. k \in 0 .. n /\ k - 1 \in 0 .. n + 1 /\ k - 1 # n + 1
        BY <3>2
      <4>2. g[k] = V(g[k - 1], k)
        BY <2>1, <3>2, <4>1 DEF IsVerdict, V
      <4> QED BY <3>2, <4>1, <4>2
    <3>3. CASE k = 0
      <4>1. 0 \in 0 .. n /\ 0 # n + 1
        OBVIOUS
      <4>2. g[0] = "none"
        BY <2>1, <4>1 DEF IsVerdict
      <4> QED BY <3>3, <4>1, <4>2
    <3> QED BY <3>1, <3>2, <3>3
  <2>3. h = [k \in 0 .. n + 1 |-> h[k]]
    OBVIOUS
  <2> HIDE DEF h
  <2>4. IsVerdict(h, rules, id, resource, perm, n + 1)
    BY <2>2, <2>3 DEF IsVerdict, V
  <2> QED BY <2>4
<1>3. 0 .. N \subseteq T
  <2> HIDE DEF T
  <2> QED BY <1>1, <1>2, UpTo
<1> QED BY <1>3

\* Among the first n rules there is one with this effect that matches.
Effective(rules, id, resource, perm, n, effect) ==
    \E i \in 1 .. n : Matches(rules[i], id, resource, perm) /\ rules[i].effect = effect

VerdictOf(v, rules, id, resource, perm, n) ==
    v = IF Effective(rules, id, resource, perm, n, "Deny") THEN "Deny"
        ELSE IF Effective(rules, id, resource, perm, n, "Allow") THEN "Allow" ELSE "none"

LEMMA VerdictStep ==
    ASSUME NEW rules, NEW id, NEW resource, NEW perm, NEW n \in Nat, NEW v,
           VerdictOf(v, rules, id, resource, perm, n), rules[n + 1].effect \in {"Allow", "Deny"}
    PROVE  VerdictOf(Verdict(v, rules[n + 1], id, resource, perm), rules, id, resource, perm, n + 1)
<1> DEFINE E(k, e) == Effective(rules, id, resource, perm, k, e)
           M(k) == Matches(rules[k], id, resource, perm)
<1>1. \A e : E(n + 1, e) <=> E(n, e) \/ (M(n + 1) /\ rules[n + 1].effect = e)
  <2>1. \A i \in 1 .. n + 1 : i \in 1 .. n \/ i = n + 1
    OBVIOUS
  <2>2. n + 1 \in 1 .. n + 1 /\ \A i \in 1 .. n : i \in 1 .. n + 1
    OBVIOUS
  <2> HIDE DEF M
  <2>3. \A k, e : E(k, e) <=> \E i \in 1 .. k : M(i) /\ rules[i].effect = e
    BY DEF Effective, M
  <2> HIDE DEF E
  <2> QED BY <2>1, <2>2, <2>3
<1> HIDE DEF E, M
<1>2. v = IF E(n, "Deny") THEN "Deny" ELSE IF E(n, "Allow") THEN "Allow" ELSE "none"
  BY DEF VerdictOf, E
<1>3. Verdict(v, rules[n + 1], id, resource, perm)
        = IF v = "Deny" \/ ~M(n + 1) THEN v ELSE rules[n + 1].effect
  BY DEF Verdict, M
<1>4. Verdict(v, rules[n + 1], id, resource, perm)
        = IF E(n + 1, "Deny") THEN "Deny" ELSE IF E(n + 1, "Allow") THEN "Allow" ELSE "none"
  BY <1>1, <1>2, <1>3
<1> QED BY <1>4 DEF VerdictOf, E

\* A permission is granted if some Allow rule matches and no Deny rule does.
LEMMA CheckFacts ==
    ASSUME NEW rules \in Seq(Rules), NEW id, NEW resource, NEW perm
    PROVE  check(rules, id, resource, perm) <=>
             /\ Effective(rules, id, resource, perm, Len(rules), "Allow")
             /\ ~Effective(rules, id, resource, perm, Len(rules), "Deny")
<1>0. PICK N \in Nat : N = Len(rules)
  OBVIOUS
<1> DEFINE g == CHOOSE g : IsVerdict(g, rules, id, resource, perm, Len(rules))
<1>1. IsVerdict(g, rules, id, resource, perm, Len(rules))
  BY <1>0, VerdictExists, Zenon
<1>2. check(rules, id, resource, perm) <=> g[Len(rules)] = "Allow"
  BY Zenon DEF check, IsVerdict, Verdict
<1> HIDE DEF g
<1>3. g = [k \in 0 .. N |-> IF k = 0 THEN "none" ELSE Verdict(g[k - 1], rules[k], id, resource, perm)]
  BY <1>0, <1>1 DEF IsVerdict
<1>4. g[0] = "none"
  BY <1>3
<1>5. ASSUME NEW k \in 0 .. N - 1 PROVE g[k + 1] = Verdict(g[k], rules[k + 1], id, resource, perm)
  <2>1. k + 1 \in 0 .. N /\ k + 1 # 0 /\ (k + 1) - 1 = k
    OBVIOUS
  <2> QED BY <1>3, <2>1
<1> DEFINE T == {k \in 0 .. N : VerdictOf(g[k], rules, id, resource, perm, k)}
<1>6. 0 \in T
  BY <1>4 DEF VerdictOf, Effective
<1>7. ASSUME NEW k \in 0 .. N - 1, k \in T PROVE k + 1 \in T
  <2>1. k \in Nat /\ VerdictOf(g[k], rules, id, resource, perm, k) /\ k + 1 \in 1 .. N
    BY <1>7
  <2>2. rules[k + 1].effect \in {"Allow", "Deny"}
    BY <1>0, <2>1, AccessAssumption
  <2>3. VerdictOf(g[k + 1], rules, id, resource, perm, k + 1)
    BY <1>5, <2>1, <2>2, VerdictStep
  <2> QED BY <2>1, <2>3
<1>8. 0 .. N \subseteq T
  <2> HIDE DEF T
  <2> QED BY <1>6, <1>7, UpTo
<1>9. VerdictOf(g[N], rules, id, resource, perm, N)
  BY <1>8
<1> QED BY <1>0, <1>2, <1>9 DEF VerdictOf

LEMMA PolicyFollows ==
    ASSUME p_rules \in Seq(Rules)
    PROVE  PolicyAgrees
<1> SUFFICES ASSUME NEW id \in {Identities[t] : t \in DOMAIN Identities}, NEW x \in Resources,
                    NEW p \in {"read", "write"}
             PROVE  LET allowed == {x, "*"} \cap allowed_resources(p_rules, id, p) # {}
                        denied == \E r \in ToSet(p_rules) : r.effect = "Deny" /\ Matches(r, id, x, p)
                    IN  /\ check(p_rules, id, x, p) <=> allowed /\ ~denied
                        /\ p \in permissions_for_resource(p_rules, id, x) <=> allowed
  BY DEF PolicyAgrees
<1> DEFINE allowed == {x, "*"} \cap allowed_resources(p_rules, id, p) # {}
           denied == \E r \in ToSet(p_rules) : r.effect = "Deny" /\ Matches(r, id, x, p)
           grants == \E r \in ToSet(p_rules) : r.effect = "Allow" /\ Matches(r, id, x, p)
<1>1. ToSet(p_rules) = {p_rules[i] : i \in 1 .. Len(p_rules)}
  BY DEF ToSet
<1>2. check(p_rules, id, x, p) <=> grants /\ ~denied
  <2>1. \A e : Effective(p_rules, id, x, p, Len(p_rules), e)
                 <=> \E r \in ToSet(p_rules) : r.effect = e /\ Matches(r, id, x, p)
    BY <1>1 DEF Effective
  <2> QED BY <2>1, CheckFacts
<1>3. allowed <=> grants
  BY DEF allowed_resources, Matches, Covers
<1>4. p \in permissions_for_resource(p_rules, id, x) <=> grants
  BY DEF permissions_for_resource, Matches
<1> QED BY <1>2, <1>3, <1>4

-----------------------------------------------------------------------------
(* The inductive invariant.                                                *)

IsOwner(id, owner) == has_role(id, "admin") \/ owner = id.subject

\* The rows that are the caller's, whether or not it may still read.
Own(c) == {g \in Live : IsOwner(a_ident[c], a_rows[g])}

\* In every shard the ids given out so far are the first ones.
Packed == \A s \in 0 .. Shards - 1 : \E n \in 0 .. MaxLocal :
             \A l \in 1 .. MaxLocal : a_rows[compose_id(s, l)] # NoRow <=> l <= n

AccessInv ==
    /\ p_rules \in Seq(Rules)
    /\ a_rows = [g \in Gids |-> a_rows[g]] /\ Packed
    /\ a_ident = [c \in Clients |-> a_ident[c]]
    /\ a_checked = [c \in Clients |-> a_checked[c]]
    /\ a_scan = [c \in Clients |-> a_scan[c]]
    /\ \A c \in Clients : a_checked[c] # NoOp => IsOwner(a_ident[c], a_checked[c].owner)
    /\ \A c \in Clients : a_scan[c] # NoScan => ScanOK(a_scan[c], Own(c))
    /\ (\E X : a_log \in Seq(X)) /\ Len(a_log) <= LogCap
    /\ a_foreign = {}

\* What the caller may read is its own, and all of it, while it may read at all.
LEMMA MineFacts ==
    ASSUME NEW c, NEW op
    PROVE  /\ \A g \in Mine(c, op) : g \in Own(c) /\ g \in Live /\ g \in Gids /\ IsOwner(a_ident[c], a_rows[g])
           /\ authorize(a_ident[c], op) => Mine(c, op) = Own(c)
           /\ \A g \in Own(c) : g \in Live /\ g \in Gids
  BY DEF Mine, Own, authorize_row, IsOwner, Live

LEMMA AccessStart == AccessInit => AccessInv
<1> SUFFICES ASSUME AccessInit PROVE AccessInv
  OBVIOUS
<1>1. Packed
  <2> SUFFICES ASSUME NEW s \in 0 .. Shards - 1
               PROVE  \E n \in 0 .. MaxLocal :
                        \A l \in 1 .. MaxLocal : a_rows[compose_id(s, l)] # NoRow <=> l <= n
    BY DEF Packed
  <2>1. PICK n \in 0 .. MaxLocal :
           \A l \in 1 .. MaxLocal : compose_id(s, l) \in DOMAIN InitialRows <=> l <= n
    BY RowsAssumption
  <2>2. ASSUME NEW l \in 1 .. MaxLocal PROVE a_rows[compose_id(s, l)] # NoRow <=> l <= n
    <3>1. compose_id(s, l) \in Gids
      BY ComposeSplit
    <3>2. a_rows[compose_id(s, l)] = IF compose_id(s, l) \in DOMAIN InitialRows
                                     THEN InitialRows[compose_id(s, l)] ELSE NoRow
      BY <3>1 DEF AccessInit
    <3> QED BY <2>1, <3>2, RowsAssumption
  <2> QED BY <2>2
<1>2. p_rules \in Seq(Rules) /\ a_log \in Seq({}) /\ Len(a_log) <= LogCap
  BY AccessAssumption DEF AccessInit
<1>3. /\ a_rows = [g \in Gids |-> a_rows[g]] /\ a_ident = [c \in Clients |-> a_ident[c]]
      /\ a_checked = [c \in Clients |-> a_checked[c]] /\ a_scan = [c \in Clients |-> a_scan[c]]
      /\ \A c \in Clients : a_checked[c] = NoOp /\ a_scan[c] = NoScan
      /\ a_foreign = {}
  BY DEF AccessInit
<1> QED BY <1>1, <1>2, <1>3 DEF AccessInv

-----------------------------------------------------------------------------
(* Steps.                                                                  *)

\* A request that looks at rows of its caller leaves no trace.
LEMMA TouchesOwn ==
    ASSUME NEW c, NEW op, NEW owners, Touches(c, op, owners), a_foreign = {},
           \A o \in owners : IsOwner(a_ident[c], o)
    PROVE  a_foreign' = {}
  BY DEF Touches, IsOwner

\* Steps that leave the rows, the log and the trace alone.
LEMMA RowsStay ==
    ASSUME AccessInv, a_rows' = a_rows, a_log' = a_log, a_foreign' = {},
           p_rules' \in Seq(Rules), a_ident' = a_ident,
           a_checked' = [c \in Clients |-> a_checked'[c]],
           a_scan' = [c \in Clients |-> a_scan'[c]],
           \A c \in Clients : a_checked'[c] # NoOp => IsOwner(a_ident[c], a_checked'[c].owner),
           \A c \in Clients : a_scan'[c] # NoScan => ScanOK(a_scan'[c], Own(c))
    PROVE  AccessInv'
<1>1. \A c : Own(c)' = Own(c)
  BY DEF Own, Live
<1>2. Packed'
  BY DEF AccessInv, Packed
<1> QED BY <1>1, <1>2 DEF AccessInv

\* A log with one more record.
LEMMA LogInv ==
    ASSUME AccessInv, NEW g, Log(g)
    PROVE  (\E X : a_log' \in Seq(X)) /\ Len(a_log') <= LogCap
<1>1. PICK X : a_log \in Seq(X)
  BY DEF AccessInv
<1>2. PICK r : r = [ts |-> a_writes + 1, row |-> g]
  OBVIOUS
<1>3. PICK Y : Y = X \cup {r}
  OBVIOUS
<1>4. a_log \in Seq(Y) /\ r \in Y
  BY <1>1, <1>3
<1>5. PICK l : l = Append(a_log, r)
  OBVIOUS
<1>6. l \in Seq(Y) /\ Len(l) = Len(a_log) + 1 /\ Len(a_log) \in Nat /\ l # <<>>
  BY <1>4, <1>5
<1>7. a_log' = IF Len(l) > LogCap THEN Tail(l) ELSE l
  BY <1>2, <1>5 DEF Log
<1>8. Tail(l) \in Seq(Y) /\ Len(Tail(l)) = Len(l) - 1
  BY <1>6
<1>9. Len(a_log) <= LogCap /\ LogCap \in Nat
  BY AccessAssumption DEF AccessInv
<1> QED BY <1>6, <1>7, <1>8, <1>9

LEMMA ScanGrows ==
    ASSUME NEW x, NEW own, ScanOK(x, own), NEW own2, \A h \in own : h \in own2
    PROVE  ScanOK(x, own2)
  BY DEF ScanOK

LEMMA ScanShrinks ==
    ASSUME NEW x, NEW own, ScanOK(x, own), NEW g, NEW own2, \A h \in own : h # g => h \in own2
    PROVE  ScanOK([x EXCEPT !.stable = @ \ {g}], own2)
<1>1. PICK y : y = [x EXCEPT !.stable = @ \ {g}]
  OBVIOUS
<1>2. x \in [desc : BOOLEAN, seen : Seq(Nat \ {0}), done : BOOLEAN, stable : SUBSET Gids]
  BY DEF ScanOK
<1>3. /\ y \in [desc : BOOLEAN, seen : Seq(Nat \ {0}), done : BOOLEAN, stable : SUBSET Gids]
      /\ y.desc = x.desc /\ y.seen = x.seen /\ y.done = x.done /\ y.stable = x.stable \ {g}
  BY <1>1, <1>2
<1>4. ScanOK(y, own2)
  BY <1>3 DEF ScanOK
<1> QED BY <1>1, <1>4

\* A row that is there changes hands or goes; scans no longer count on it.
LEMMA RowChanges ==
    ASSUME AccessInv, NEW g \in Gids, NEW owner, owner # NoRow, a_rows[g] # NoRow,
           a_rows' = [a_rows EXCEPT ![g] = owner], Unsettle(g), NEW id, Log(id), a_foreign' = {},
           p_rules' = p_rules, a_ident' = a_ident,
           a_checked' = [c \in Clients |-> a_checked'[c]],
           \A c \in Clients : a_checked'[c] = NoOp \/ a_checked'[c] = a_checked[c]
    PROVE  AccessInv'
<1>1. a_rows' = [h \in Gids |-> a_rows'[h]] /\ \A h \in Gids : h # g => a_rows'[h] = a_rows[h]
  BY DEF AccessInv
<1>2. \A h \in Gids : a_rows'[h] # NoRow <=> a_rows[h] # NoRow
  BY DEF AccessInv
<1>3. Packed'
  <2> SUFFICES ASSUME NEW s \in 0 .. Shards - 1
               PROVE  \E n \in 0 .. MaxLocal :
                        \A l \in 1 .. MaxLocal : a_rows'[compose_id(s, l)] # NoRow <=> l <= n
    BY DEF Packed
  <2>1. PICK n \in 0 .. MaxLocal :
           \A l \in 1 .. MaxLocal : a_rows[compose_id(s, l)] # NoRow <=> l <= n
    BY DEF AccessInv, Packed
  <2>2. \A l \in 1 .. MaxLocal : compose_id(s, l) \in Gids
    BY ComposeSplit
  <2> QED BY <1>2, <2>1, <2>2
<1>4. \A c : \A h \in Own(c) : h # g => h \in Own(c)'
  BY <1>1 DEF Own, Live
<1>5. a_scan' = [c \in Clients |-> a_scan'[c]]
  BY DEF Unsettle
<1>6. ASSUME NEW c \in Clients, a_scan'[c] # NoScan PROVE ScanOK(a_scan'[c], Own(c)')
  <2>1. a_scan'[c] = [a_scan[c] EXCEPT !.stable = @ \ {g}] /\ a_scan[c] # NoScan
    BY <1>6 DEF Unsettle
  <2>2. ScanOK(a_scan[c], Own(c))
    BY <2>1 DEF AccessInv
  <2>3. ScanOK([a_scan[c] EXCEPT !.stable = @ \ {g}], Own(c)')
    BY <1>4, <2>2, ScanShrinks
  <2> QED BY <2>1, <2>3
<1>7. \A c \in Clients : a_checked'[c] # NoOp => IsOwner(a_ident'[c], a_checked'[c].owner)
  BY DEF AccessInv
<1>8. (\E X : a_log' \in Seq(X)) /\ Len(a_log') <= LogCap
  BY LogInv
<1>9. p_rules' \in Seq(Rules) /\ a_ident' = [c \in Clients |-> a_ident'[c]]
  BY DEF AccessInv
<1> QED BY <1>1, <1>3, <1>5, <1>6, <1>7, <1>8, <1>9 DEF AccessInv

LEMMA InsertInv ==
    ASSUME AccessInv, NEW c \in Clients, NEW s \in 0 .. Shards - 1, NEW owner \in Subjects,
           Insert(c, s, owner)
    PROVE  AccessInv'
<1>1. PICK n \in 0 .. MaxLocal :
         \A l \in 1 .. MaxLocal : a_rows[compose_id(s, l)] # NoRow <=> l <= n
  BY DEF AccessInv, Packed
<1>2. {l \in 1 .. MaxLocal : a_rows[compose_id(s, l)] # NoRow} = 1 .. n
  BY <1>1, AccessAssumption
<1>3. Cardinality({l \in 1 .. MaxLocal : a_rows[compose_id(s, l)] # NoRow}) = n
  <2>1. Cardinality(1 .. n) = n
    BY <1>1, FS_Interval
  <2> QED BY <1>2, <2>1
<1>4. PICK g : g = compose_id(s, n + 1)
  OBVIOUS
<1>5. /\ n < MaxLocal /\ Set(g, owner) /\ Touches(c, "Insert", {owner})
      /\ authorize_row(a_ident[c], "Insert", owner)
      /\ UNCHANGED <<p_rules, a_ident, a_checked, a_scan>>
  BY <1>3, <1>4 DEF Insert
<1>6. n + 1 \in 1 .. MaxLocal /\ n \in Nat
  BY <1>1, <1>5, AccessAssumption
<1>7. g \in Gids /\ route_id(g) = g /\ a_rows[g] = NoRow
  <2>1. ~(n + 1 <= n)
    BY <1>6
  <2> QED BY <1>1, <1>4, <1>6, <2>1, ComposeSplit
<1>8. a_rows' = [a_rows EXCEPT ![g] = owner] /\ Log(g)
  BY <1>5, <1>7 DEF Set
<1>9. /\ a_rows' = [h \in Gids |-> a_rows'[h]] /\ a_rows'[g] = owner
      /\ \A h \in Gids : h # g => a_rows'[h] = a_rows[h]
  BY <1>7, <1>8 DEF AccessInv
<1>10. owner # NoRow
  BY RowsAssumption
<1>11. Packed'
  <2> SUFFICES ASSUME NEW r \in 0 .. Shards - 1
               PROVE  \E m \in 0 .. MaxLocal :
                        \A l \in 1 .. MaxLocal : a_rows'[compose_id(r, l)] # NoRow <=> l <= m
    BY DEF Packed
  <2>1. \A l \in 1 .. MaxLocal : compose_id(r, l) \in Gids /\ split_id(compose_id(r, l)) = <<r, l>>
    BY ComposeSplit
  <2>2. split_id(g) = <<s, n + 1>>
    BY <1>4, <1>6, ComposeSplit
  <2>3. CASE r = s
    <3>1. ASSUME NEW l \in 1 .. MaxLocal PROVE a_rows'[compose_id(r, l)] # NoRow <=> l <= n + 1
      <4>1. CASE l = n + 1
        BY <1>4, <1>6, <1>9, <1>10, <2>3, <4>1
      <4>2. CASE l # n + 1
        <5>1. compose_id(r, l) # g
          BY <2>1, <2>2, <4>2
        <5>2. a_rows'[compose_id(r, l)] = a_rows[compose_id(r, l)]
          BY <1>9, <2>1, <5>1
        <5>3. l <= n <=> l <= n + 1
          BY <1>6, <4>2
        <5> QED BY <1>1, <2>3, <5>2, <5>3
      <4> QED BY <4>1, <4>2
    <3>2. n + 1 \in 0 .. MaxLocal
      BY <1>6
    <3> QED BY <3>1, <3>2
  <2>4. CASE r # s
    <3>1. PICK m \in 0 .. MaxLocal :
             \A l \in 1 .. MaxLocal : a_rows[compose_id(r, l)] # NoRow <=> l <= m
      BY DEF AccessInv, Packed
    <3>2. \A l \in 1 .. MaxLocal : compose_id(r, l) # g
      BY <2>1, <2>2, <2>4
    <3> QED BY <1>9, <2>1, <3>1, <3>2
  <2> QED BY <2>3, <2>4
<1>12. \A d : \A h \in Own(d) : h \in Own(d)'
  <2>1. \A h \in Live : h # g
    BY <1>7 DEF Live
  <2> QED BY <1>5, <1>9, <2>1 DEF Own, Live
<1>13. ASSUME NEW d \in Clients, a_scan'[d] # NoScan PROVE ScanOK(a_scan'[d], Own(d)')
  <2>1. a_scan'[d] = a_scan[d] /\ ScanOK(a_scan[d], Own(d))
    BY <1>5, <1>13 DEF AccessInv
  <2> QED BY <1>12, <2>1, ScanGrows
<1>14. a_foreign' = {}
  <2>1. IsOwner(a_ident[c], owner) /\ a_foreign = {}
    BY <1>5 DEF authorize_row, IsOwner, AccessInv
  <2> QED BY <1>5, <2>1, TouchesOwn
<1>15. (\E X : a_log' \in Seq(X)) /\ Len(a_log') <= LogCap
  BY <1>8, LogInv
<1> QED BY <1>5, <1>9, <1>11, <1>13, <1>14, <1>15 DEF AccessInv

LEMMA HandshakeInv ==
    ASSUME AccessInv, NEW c \in Clients, NEW t, Handshake(c, t)
    PROVE  AccessInv'
<1>1. /\ a_checked[c] = NoOp /\ a_scan[c] = NoScan
      /\ UNCHANGED <<p_rules, a_rows, a_checked, a_scan, a_log, a_foreign>>
      /\ a_ident' = [d \in Clients |-> a_ident'[d]]
      /\ \A d \in Clients : d # c => a_ident'[d] = a_ident[d]
  BY DEF Handshake, AccessInv
<1>2. Packed'
  BY <1>1 DEF AccessInv, Packed
<1>3. \A d \in Clients : d # c => Own(d)' = Own(d)
  BY <1>1 DEF Own, Live
<1>4. \A d \in Clients : a_checked'[d] # NoOp => IsOwner(a_ident'[d], a_checked'[d].owner)
  BY <1>1 DEF AccessInv
<1>5. ASSUME NEW d \in Clients, a_scan'[d] # NoScan PROVE ScanOK(a_scan'[d], Own(d)')
  <2>1. d # c /\ a_scan'[d] = a_scan[d] /\ ScanOK(a_scan[d], Own(d))
    BY <1>1, <1>5 DEF AccessInv
  <2> QED BY <1>3, <2>1
<1> QED BY <1>1, <1>2, <1>4, <1>5 DEF AccessInv

LEMMA CheckWriteInv ==
    ASSUME AccessInv, NEW c \in Clients, NEW op, NEW id, CheckWrite(c, op, id)
    PROVE  AccessInv'
<1>1. PICK x : x = [op |-> op, id |-> id, owner |-> a_rows[route_id(id)]]
  OBVIOUS
<1>2. /\ route_id(id) \in Mine(c, op) /\ a_checked' = [a_checked EXCEPT ![c] = x]
      /\ UNCHANGED <<p_rules, a_ident, a_rows, a_scan, a_log, a_foreign>>
  BY <1>1 DEF CheckWrite
<1>3. IsOwner(a_ident[c], x.owner)
  BY <1>1, <1>2, MineFacts
<1>4. a_checked' = [d \in Clients |-> a_checked'[d]]
  BY <1>2 DEF AccessInv
<1>5. \A d \in Clients : a_checked'[d] # NoOp => IsOwner(a_ident[d], a_checked'[d].owner)
  BY <1>2, <1>3 DEF AccessInv
<1>6. /\ a_scan' = [d \in Clients |-> a_scan'[d]] /\ p_rules' \in Seq(Rules) /\ a_foreign' = {}
      /\ \A d \in Clients : a_scan'[d] # NoScan => ScanOK(a_scan'[d], Own(d))
  BY <1>2 DEF AccessInv
<1> QED BY <1>2, <1>4, <1>5, <1>6, RowsStay

LEMMA ApplyWriteInv ==
    ASSUME AccessInv, NEW c \in Clients, NEW owner \in Subjects, ApplyWrite(c, owner)
    PROVE  AccessInv'
<1>1. PICK x, g : x = a_checked[c] /\ g = route_id(x.id)
  OBVIOUS
<1>2. x # NoOp /\ a_checked' = [a_checked EXCEPT ![c] = NoOp] /\ p_rules' = p_rules /\ a_ident' = a_ident
  BY <1>1 DEF ApplyWrite
<1>3. /\ a_checked' = [d \in Clients |-> a_checked'[d]]
      /\ \A d \in Clients : a_checked'[d] = NoOp \/ a_checked'[d] = a_checked[d]
  BY <1>2 DEF AccessInv
<1>4. CASE g \in Live
  <2>1. PICK o : o = IF x.op = "Delete" THEN Gone ELSE owner
    OBVIOUS
  <2>2. Set(x.id, o) /\ Unsettle(g) /\ Touches(c, x.op, {x.owner})
    BY <1>1, <1>4, <2>1 DEF ApplyWrite
  <2>3. g \in Gids /\ a_rows[g] # NoRow
    BY <1>4 DEF Live
  <2>4. o # NoRow
    BY <2>1, RowsAssumption
  <2>5. a_rows' = [a_rows EXCEPT ![g] = o] /\ Log(x.id)
    BY <1>1, <2>2 DEF Set
  <2>6. a_foreign' = {}
    <3>1. a_foreign = {} /\ IsOwner(a_ident[c], x.owner)
      BY <1>1, <1>2 DEF AccessInv
    <3> QED BY <2>2, <3>1, TouchesOwn
  <2> QED BY <1>2, <1>3, <2>2, <2>3, <2>4, <2>5, <2>6, RowChanges
<1>5. CASE g \notin Live
  <2>1. UNCHANGED <<a_rows, a_log, a_scan, a_foreign>>
    BY <1>1, <1>5 DEF ApplyWrite
  <2>2. \A d \in Clients : a_checked'[d] # NoOp => IsOwner(a_ident[d], a_checked'[d].owner)
    BY <1>3 DEF AccessInv
  <2>3. /\ a_scan' = [d \in Clients |-> a_scan'[d]] /\ p_rules' \in Seq(Rules) /\ a_foreign' = {}
        /\ \A d \in Clients : a_scan'[d] # NoScan => ScanOK(a_scan'[d], Own(d))
    BY <1>2, <2>1 DEF AccessInv
  <2> QED BY <1>2, <1>3, <2>1, <2>2, <2>3, RowsStay
<1> QED BY <1>4, <1>5

LEMMA AtomicWriteInv ==
    ASSUME AccessInv, NEW c \in Clients, NEW op, NEW g \in Gids, NEW owner \in Subjects,
           AtomicWrite(c, op, g, owner)
    PROVE  AccessInv'
<1>1. PICK o : o = IF op = "Delete" THEN Gone ELSE owner
  OBVIOUS
<1>2. /\ g \in Mine(c, op) /\ Set(g, o) /\ Unsettle(g) /\ Touches(c, op, {a_rows[g]})
      /\ UNCHANGED <<p_rules, a_ident, a_checked>>
  BY <1>1 DEF AtomicWrite
<1>3. a_rows[g] # NoRow /\ IsOwner(a_ident[c], a_rows[g])
  BY <1>2, MineFacts DEF Live
<1>4. a_rows' = [a_rows EXCEPT ![g] = o] /\ Log(g)
  BY <1>2, GidFacts DEF Set
<1>5. o # NoRow
  BY <1>1, RowsAssumption
<1>6. a_foreign' = {}
  BY <1>2, <1>3, TouchesOwn DEF AccessInv
<1>7. /\ a_checked' = [d \in Clients |-> a_checked'[d]]
      /\ \A d \in Clients : a_checked'[d] = NoOp \/ a_checked'[d] = a_checked[d]
  BY <1>2 DEF AccessInv
<1> QED BY <1>2, <1>3, <1>4, <1>5, <1>6, <1>7, RowChanges

\* Steps that change neither rows, identities, checks, scans, log nor rules.
LEMMA LookInv ==
    ASSUME AccessInv, a_foreign' = {},
           UNCHANGED <<p_rules, a_ident, a_rows, a_checked, a_scan, a_log>>
    PROVE  AccessInv'
<1>1. /\ a_scan' = [d \in Clients |-> a_scan'[d]] /\ p_rules' \in Seq(Rules)
      /\ a_checked' = [d \in Clients |-> a_checked'[d]]
      /\ \A d \in Clients : a_checked'[d] # NoOp => IsOwner(a_ident[d], a_checked'[d].owner)
      /\ \A d \in Clients : a_scan'[d] # NoScan => ScanOK(a_scan'[d], Own(d))
  BY DEF AccessInv
<1> QED BY <1>1, RowsStay

LEMMA ReadInv ==
    ASSUME AccessInv, NEW c \in Clients, NEW op, NEW g, Read(c, op, g)
    PROVE  AccessInv'
<1>1. PICK owners : owners = OwnersOf({g} \cap Mine(c, op))
  OBVIOUS
<1>2. Touches(c, op, owners) /\ UNCHANGED <<p_rules, a_ident, a_rows, a_checked, a_scan, a_log>>
  BY <1>1 DEF Read
<1>3. \A o \in owners : IsOwner(a_ident[c], o)
  BY <1>1, MineFacts DEF OwnersOf
<1>4. a_foreign' = {}
  BY <1>2, <1>3, TouchesOwn DEF AccessInv
<1> QED BY <1>2, <1>4, LookInv

\* The page of a caller, and the rows that its scan relies on.
LEMMA ScanPageInv ==
    ASSUME AccessInv, NEW c \in Clients, NEW desc \in BOOLEAN, ScanPage(c, desc)
    PROVE  AccessInv'
<1>1. PICK x : x = IF a_scan[c] = NoScan
                   THEN [desc |-> desc, seen |-> <<>>, done |-> FALSE, stable |-> Mine(c, "Scan")]
                   ELSE a_scan[c]
  OBVIOUS
<1>2. PICK page : page = PageOf(c, desc, IF x.seen = <<>> THEN 0 ELSE Last(x.seen))
  OBVIOUS
<1>3. PICK y : y = [x EXCEPT !.seen = @ \o page, !.done = Len(page) < ScanLimit]
  OBVIOUS
<1>4. /\ authorize(a_ident[c], "Scan")
      /\ a_scan[c] # NoScan => desc = a_scan[c].desc /\ ~a_scan[c].done
      /\ a_scan' = [a_scan EXCEPT ![c] = y]
      /\ Touches(c, "Scan", OwnersOf(ToSet(page)))
      /\ UNCHANGED <<p_rules, a_ident, a_rows, a_checked, a_log>>
  BY <1>1, <1>2, <1>3 DEF ScanPage
<1>5. Mine(c, "Scan") = Own(c) /\ \A g \in Own(c) : g \in Gids
  BY <1>4, MineFacts
<1>6. ScanOK(x, Own(c)) /\ ~x.done /\ x.desc = desc
  <2>1. CASE a_scan[c] # NoScan
    BY <1>1, <1>4, <2>1 DEF AccessInv
  <2>2. CASE a_scan[c] = NoScan
    <3>1. /\ x.desc = desc /\ x.seen = <<>> /\ x.done = FALSE /\ x.stable = Own(c)
          /\ x \in [desc : BOOLEAN, seen : Seq(Nat \ {0}), done : BOOLEAN, stable : SUBSET Gids]
      BY <1>1, <1>5, <2>2
    <3>2. ScanOrder(<<>>, desc)
      BY DEF ScanOrder
    <3> QED BY <3>1, <3>2 DEF ScanOK, Ahead
  <2> QED BY <2>1, <2>2
<1>7. page = apply_window(Filtered(IdsInOrder(x.desc), Own(c)), x.desc,
                          IF x.seen = <<>> THEN 0 ELSE Last(x.seen))
  BY <1>2, <1>5, <1>6 DEF PageOf
<1>8. ScanOK(y, Own(c)) /\ page \in Seq(Nat \ {0}) /\ \A j \in 1 .. Len(page) : page[j] \in Own(c)
  BY <1>3, <1>5, <1>6, <1>7, ScanGoesOn
<1>9. a_foreign' = {}
  <2>1. \A o \in OwnersOf(ToSet(page)) : IsOwner(a_ident[c], o)
    <3>1. ToSet(page) = {page[j] : j \in 1 .. Len(page)}
      BY <1>8 DEF ToSet
    <3> QED BY <1>8, <3>1 DEF OwnersOf, Own
  <2> QED BY <1>4, <2>1, TouchesOwn DEF AccessInv
<1>10. /\ a_scan' = [d \in Clients |-> a_scan'[d]]
       /\ \A d \in Clients : a_scan'[d] # NoScan => ScanOK(a_scan'[d], Own(d))
  BY <1>4, <1>8 DEF AccessInv
<1>11. /\ p_rules' \in Seq(Rules) /\ a_checked' = [d \in Clients |-> a_checked'[d]]
       /\ \A d \in Clients : a_checked'[d] # NoOp => IsOwner(a_ident[d], a_checked'[d].owner)
  BY <1>4 DEF AccessInv
<1> QED BY <1>4, <1>9, <1>10, <1>11, RowsStay

\* The records of a poll: those of the page, in their order, that are the caller's.
LEMMA PollFacts ==
    ASSUME AccessInv, NEW c
    PROVE  \E X : /\ PollPage(c) \in Seq(X)
                  /\ \A i \in 1 .. Len(PollPage(c)) : route_id(PollPage(c)[i].row) \in Mine(c, "Subscribe")
                  /\ PollLimit >= LogCap /\ PollPage(c) = <<>> =>
                        \A k \in 1 .. Len(a_log) :
                            a_log[k].ts > a_since[c] => route_id(a_log[k].row) \notin Mine(c, "Subscribe")
<1>1. PICK X : a_log \in Seq(X)
  BY DEF AccessInv
<1>2. PICK F, fresh : F = {r \in ToSet(a_log) : r.ts > a_since[c]} /\ fresh = Filtered(a_log, F)
  OBVIOUS
<1>3. FilterOf(fresh, X, a_log, F, Len(a_log))
  BY <1>1, <1>2, FilterFacts
<1>4. fresh \in Seq(X) /\ Len(fresh) \in Nat /\ Len(fresh) <= Len(a_log) /\ Len(a_log) \in Nat
      /\ Len(a_log) <= LogCap /\ LogCap \in Nat /\ PollLimit \in Nat
  <2>1. Len(fresh) \in 0 .. Len(a_log) /\ fresh \in Seq(X)
    BY <1>3 DEF FilterOf
  <2>2. Len(a_log) \in Nat
    BY <1>1
  <2>3. Len(a_log) <= LogCap /\ LogCap \in Nat /\ PollLimit \in Nat
    BY AccessAssumption DEF AccessInv
  <2> QED BY <2>1, <2>2, <2>3
<1>5. PICK n, page : /\ n = IF Len(fresh) < PollLimit THEN Len(fresh) ELSE PollLimit
                     /\ page = SubSeq(fresh, 1, n)
  OBVIOUS
<1>6. n \in Nat /\ n <= Len(fresh) /\ (PollLimit >= LogCap => n = Len(fresh))
  BY <1>4, <1>5
<1>7. page \in Seq(X) /\ Len(page) = n /\ \A j \in 1 .. n : page[j] = fresh[j]
  <2>0. PICK z \in Nat : z = 0
    OBVIOUS
  <2>1. page = SubSeq(fresh, z + 1, n)
    BY <1>5, <2>0
  <2>2. z <= n /\ n <= Len(fresh) /\ n \in Nat /\ fresh \in Seq(X)
    BY <1>4, <1>6, <2>0
  <2>3. page \in Seq(X) /\ IsSlice(page, fresh, z, n)
    BY <2>1, <2>2, Slice
  <2>4. n - z = n /\ \A j \in 1 .. n : z + j = j
    BY <1>6, <2>0
  <2> QED BY <2>3, <2>4 DEF IsSlice
<1>8. PICK M, out : /\ M = {r \in ToSet(page) : route_id(r.row) \in Mine(c, "Subscribe")}
                    /\ out = Filtered(page, M)
  OBVIOUS
<1>9. FilterOf(out, X, page, M, n)
  BY <1>7, <1>8, FilterFacts
<1>10. out = PollPage(c)
  BY <1>2, <1>5, <1>8 DEF PollPage
<1>11. out \in Seq(X) /\ \A i \in 1 .. Len(out) : route_id(out[i].row) \in Mine(c, "Subscribe")
  BY <1>8, <1>9 DEF FilterOf
<1>12. ASSUME PollLimit >= LogCap, out = <<>>, NEW k \in 1 .. Len(a_log), a_log[k].ts > a_since[c]
       PROVE  route_id(a_log[k].row) \notin Mine(c, "Subscribe")
  <2>1. a_log[k] \in F
    BY <1>1, <1>2, <1>12 DEF ToSet
  <2>2. PICK j \in 1 .. Len(fresh) : fresh[j] = a_log[k]
    BY <1>3, <2>1 DEF FilterOf
  <2>3. j \in 1 .. n /\ page[j] = a_log[k]
    BY <1>6, <1>7, <1>12, <2>2
  <2>4. page[j] \notin M
    BY <1>9, <1>12, <2>3 DEF FilterOf
  <2>5. page[j] \in ToSet(page)
    BY <1>7, <2>3 DEF ToSet
  <2> QED BY <1>8, <2>3, <2>4, <2>5
<1> QED BY <1>10, <1>11, <1>12

LEMMA PollInv ==
    ASSUME AccessInv, NEW c \in Clients, Poll(c)
    PROVE  AccessInv'
<1>1. PICK page, owners : /\ page = PollPage(c)
                          /\ owners = OwnersOf({route_id(r.row) : r \in ToSet(page)})
  OBVIOUS
<1>2. /\ Touches(c, "Subscribe", owners)
      /\ UNCHANGED <<p_rules, a_ident, a_rows, a_checked, a_scan, a_log>>
  BY <1>1 DEF Poll
<1>3. PICK X : page \in Seq(X) /\ \A i \in 1 .. Len(page) : route_id(page[i].row) \in Mine(c, "Subscribe")
  BY <1>1, PollFacts
<1>4. ToSet(page) = {page[i] : i \in 1 .. Len(page)}
  BY <1>3 DEF ToSet
<1>5. \A o \in owners : IsOwner(a_ident[c], o)
  BY <1>1, <1>3, <1>4, MineFacts DEF OwnersOf
<1>6. a_foreign' = {}
  BY <1>2, <1>5, TouchesOwn DEF AccessInv
<1> QED BY <1>2, <1>6, LookInv

LEMMA PolicyInv ==
    ASSUME AccessInv, PolicyNext
    PROVE  AccessInv'
<1>1. PICK r \in Rules : p_rules' = Append(p_rules, r)
  BY DEF PolicyNext
<1>2. UNCHANGED <<a_ident, a_rows, a_checked, a_scan, a_log, a_foreign>>
  BY DEF PolicyNext
<1>3. p_rules' \in Seq(Rules)
  BY <1>1 DEF AccessInv
<1>4. /\ a_scan' = [d \in Clients |-> a_scan'[d]] /\ a_foreign' = {}
      /\ a_checked' = [d \in Clients |-> a_checked'[d]]
      /\ \A d \in Clients : a_checked'[d] # NoOp => IsOwner(a_ident[d], a_checked'[d].owner)
      /\ \A d \in Clients : a_scan'[d] # NoScan => ScanOK(a_scan'[d], Own(d))
  BY <1>2 DEF AccessInv
<1> QED BY <1>2, <1>3, <1>4, RowsStay

LEMMA AccessStep == AccessInv /\ [AccessNext]_access_vars => AccessInv'
<1> SUFFICES ASSUME AccessInv, [AccessNext]_access_vars PROVE AccessInv'
  OBVIOUS
<1>c. Scanners \subseteq Clients /\ Updaters \subseteq Clients /\ ChangePollers \subseteq Clients
  BY AccessAssumption
<1>f. a_foreign = {}
  BY DEF AccessInv
<1>1. CASE SessionNext
  <2>1. UNCHANGED <<p_rules, a_ident, a_rows, a_checked, a_scan, a_log, a_foreign>>
    BY <1>1 DEF SessionNext, register_session, SessionExpires
  <2> QED BY <1>f, <2>1, LookInv
<1>2. CASE HandshakeNext
  BY <1>2, HandshakeInv DEF HandshakeNext
<1>3. CASE WriteNext
  BY <1>3, <1>c, CheckWriteInv, ApplyWriteInv DEF WriteNext
<1>4. CASE AtomicNext
  BY <1>4, InsertInv, AtomicWriteInv DEF AtomicNext
<1>5. CASE ReadNext
  BY <1>5, ReadInv DEF ReadNext, GetRow, FindRow, SearchRow
<1>6. CASE ScanNext
  BY <1>6, <1>c, ScanPageInv DEF ScanNext
<1>7. CASE PollNext
  BY <1>7, <1>c, PollInv DEF PollNext
<1>8. CASE PolicyNext
  BY <1>8, PolicyInv
<1>9. CASE UNCHANGED access_vars
  <2>1. UNCHANGED <<p_rules, a_ident, a_rows, a_checked, a_scan, a_log, a_foreign>>
    BY <1>9 DEF access_vars
  <2> QED BY <1>f, <2>1, LookInv
<1> QED BY <1>1, <1>2, <1>3, <1>4, <1>5, <1>6, <1>7, <1>8, <1>9 DEF AccessNext

-----------------------------------------------------------------------------
(* Theorems.                                                               *)

LEMMA AccessAlways == AccessSpec => []AccessInv
<1>1. AccessInit => AccessInv
  BY AccessStart
<1>2. AccessInv /\ [AccessNext]_access_vars => AccessInv'
  BY AccessStep
<1> QED BY <1>1, <1>2, PTL DEF AccessSpec

(***************************************************************************)
(* However connections change their identity, rows their owner and the     *)
(* rules the policy, no request returns or changes a row that was not its  *)
(* caller's when it looked (enforce_owner before every engine call of      *)
(* transport.rs dispatch).                                                 *)
(***************************************************************************)
THEOREM OthersRowsUntouched == AccessSpec => []OwnersOnly
<1>1. AccessInv => OwnersOnly
  BY DEF AccessInv, OwnersOnly
<1> QED BY <1>1, AccessAlways, PTL

(***************************************************************************)
(* For every sequence of rules the loop of policy.rs check, which stops at *)
(* the first matching Deny, grants what some Allow rule covers and no Deny *)
(* rule does, and the two listings name what Allow rules cover.            *)
(***************************************************************************)
THEOREM PolicyOrderIrrelevant == AccessSpec => []PolicyAgrees
<1>1. AccessInv => PolicyAgrees
  BY PolicyFollows DEF AccessInv
<1> QED BY <1>1, AccessAlways, PTL

(***************************************************************************)
(* For every size of table, page and log, as long as a poll may ask for as *)
(* many records as the log holds: paging with the cursor returns each row  *)
(* once, in order, and none that stayed the caller's is missed, and an     *)
(* empty poll leaves nothing of the caller's in the log (apply_window's    *)
(* binary search and the Subscribe handler).                               *)
(***************************************************************************)
THEOREM NothingMissed ==
    ASSUME PollLimit >= LogCap
    PROVE  AccessSpec => []ReadersMissNothing
<1>1. AccessInv => ReadersMissNothing
  <2> SUFFICES ASSUME AccessInv PROVE ReadersMissNothing
    OBVIOUS
  <2>1. ASSUME NEW c \in Clients, a_scan[c] # NoScan
        PROVE  /\ \A i, k \in 1 .. Len(a_scan[c].seen) :
                     i < k => IF a_scan[c].desc THEN a_scan[c].seen[i] > a_scan[c].seen[k]
                              ELSE a_scan[c].seen[i] < a_scan[c].seen[k]
               /\ a_scan[c].done => a_scan[c].stable \subseteq ToSet(a_scan[c].seen)
    <3>1. PICK x : x = a_scan[c] /\ ScanOK(x, Own(c))
      BY <2>1 DEF AccessInv
    <3>2. \A i, k \in 1 .. Len(x.seen) :
             i < k => IF x.desc THEN x.seen[i] > x.seen[k] ELSE x.seen[i] < x.seen[k]
      BY <3>1 DEF ScanOK, ScanOrder, Precedes
    <3>3. ASSUME x.done, NEW g \in x.stable PROVE g \in ToSet(x.seen)
      <4>1. x.seen \in Seq(Nat \ {0}) /\ Has(x.seen, g)
        BY <3>1, <3>3 DEF ScanOK
      <4> QED BY <4>1 DEF Has, ToSet
    <3> QED BY <3>1, <3>2, <3>3
  <2>2. ASSUME NEW c \in Clients, PollPage(c) = <<>>, NEW r \in ToSet(a_log), r.ts > a_since[c]
        PROVE  route_id(r.row) \notin Mine(c, "Subscribe")
    <3>1. PICK X : a_log \in Seq(X)
      BY DEF AccessInv
    <3>2. PICK k \in 1 .. Len(a_log) : r = a_log[k]
      BY <3>1 DEF ToSet
    <3> QED BY <2>2, <3>2, PollFacts
  <2> QED BY <2>1, <2>2 DEF ReadersMissNothing, ScanComplete, EmptyPollMeansCaughtUp
<1> QED BY <1>1, AccessAlways, PTL

-----------------------------------------------------------------------------
(***************************************************************************)
(* Social: every post handed to the fan-out is accounted for, and a post   *)
(* reaches its followers, for any number of posts, users and tables.       *)
(***************************************************************************)

\* The places of user u in a sequence of owners.
Seats(s, u) == {k \in 1 .. Len(s) : s[k] = u}

\* The rows that say that u follows a, and those of the tables before table m.
EdgeRows(a, u, rows) == {x \in rows : x[2] = [from |-> u, to |-> a]}
Earlier(rows, m) == {x \in rows : x[1] < m}

\* What an author's followers get: not more than the cap, not more than
\* their rows; all of it, unless the cap is reached.
NotMore(s, a, rows) ==
    /\ Len(s) <= FANOUT_PER_POST_CAP
    /\ \A u \in Users : Cardinality(Seats(s, u)) <= Cardinality(EdgeRows(a, u, rows))
NotLess(s, a, rows) ==
    \/ Len(s) = FANOUT_PER_POST_CAP
    \/ \A u \in Users : Cardinality(EdgeRows(a, u, rows)) <= Cardinality(Seats(s, u))

LEMMA TablesCounted ==
    /\ \E n \in Nat : FollowTables = 1 .. n
    /\ FollowTables \subseteq Nat
<1>1. Cardinality(FollowTables) \in Nat /\ FollowTables = 1 .. Cardinality(FollowTables)
  BY SocialAssumption, FS_CardinalityType
<1> QED BY <1>1

LEMMA SeatsFinite ==
    ASSUME NEW s, Len(s) \in Nat, NEW u
    PROVE  IsFiniteSet(Seats(s, u)) /\ Cardinality(Seats(s, u)) \in Nat
<1>1. IsFiniteSet(1 .. Len(s))
  BY FS_Interval
<1> QED BY <1>1, FS_Subset, FS_CardinalityType DEF Seats

LEMMA EdgesFinite ==
    ASSUME NEW a, NEW u, NEW rows \in SUBSET FollowRows
    PROVE  IsFiniteSet(EdgeRows(a, u, rows)) /\ Cardinality(EdgeRows(a, u, rows)) \in Nat
<1>1. PICK n \in Nat : FollowTables = 1 .. n
  BY TablesCounted
<1>2. IsFiniteSet(FollowTables) /\ IsFiniteSet(Followings)
  <2>1. IsFiniteSet(1 .. n)
    BY FS_Interval
  <2> QED BY <1>1, <2>1, SocialAssumption
<1>3. IsFiniteSet(FollowRows)
  BY <1>2, FS_Product DEF FollowRows
<1> QED BY <1>3, FS_Subset, FS_CardinalityType DEF EdgeRows

LEMMA NotMoreMonotone ==
    ASSUME NEW s, Len(s) \in Nat, NEW a, NEW R \in SUBSET FollowRows, NEW Q \in SUBSET FollowRows, R \subseteq Q,
           NotMore(s, a, R)
    PROVE  NotMore(s, a, Q)
<1>1. ASSUME NEW u \in Users
      PROVE  Cardinality(Seats(s, u)) <= Cardinality(EdgeRows(a, u, Q))
  <2>1. EdgeRows(a, u, R) \subseteq EdgeRows(a, u, Q)
    BY DEF EdgeRows
  <2>2. Cardinality(EdgeRows(a, u, R)) <= Cardinality(EdgeRows(a, u, Q))
    BY <2>1, EdgesFinite, FS_Subset
  <2>3. Cardinality(Seats(s, u)) <= Cardinality(EdgeRows(a, u, R))
    BY DEF NotMore
  <2> QED BY <2>2, <2>3, SeatsFinite, EdgesFinite
<1> QED BY <1>1 DEF NotMore

LEMMA NotLessMonotone ==
    ASSUME NEW s, Len(s) \in Nat, NEW a, NEW R \in SUBSET FollowRows, NEW Q \in SUBSET FollowRows, Q \subseteq R,
           NotLess(s, a, R)
    PROVE  NotLess(s, a, Q)
<1>1. ASSUME NEW u \in Users, Cardinality(EdgeRows(a, u, R)) <= Cardinality(Seats(s, u))
      PROVE  Cardinality(EdgeRows(a, u, Q)) <= Cardinality(Seats(s, u))
  <2>1. EdgeRows(a, u, Q) \subseteq EdgeRows(a, u, R)
    BY DEF EdgeRows
  <2>2. Cardinality(EdgeRows(a, u, Q)) <= Cardinality(EdgeRows(a, u, R))
    BY <2>1, EdgesFinite, FS_Subset
  <2> QED BY <1>1, <2>2, SeatsFinite, EdgesFinite
<1> QED BY <1>1 DEF NotLess

\* A beginning of the rows has not more than all of them.
LEMMA NotMorePrefix ==
    ASSUME NEW s \in Seq(Users), NEW t \in Seq(Users), NEW a, NEW R \in SUBSET FollowRows,
           NotMore(s \o t, a, R)
    PROVE  NotMore(s, a, R)
<1>1. s \o t \in Seq(Users) /\ Len(s \o t) = Len(s) + Len(t) /\ Len(s) \in Nat /\ Len(t) \in Nat
      /\ \A k \in 1 .. Len(s) : (s \o t)[k] = s[k]
  OBVIOUS
<1>2. PICK st : st = s \o t
  OBVIOUS
<1>3. ASSUME NEW u \in Users
      PROVE  Cardinality(Seats(s, u)) <= Cardinality(EdgeRows(a, u, R))
  <2>1. Seats(s, u) \subseteq Seats(st, u)
    BY <1>1, <1>2 DEF Seats
  <2>2. IsFiniteSet(Seats(st, u)) /\ Cardinality(Seats(st, u)) \in Nat
    <3>1. Len(st) \in Nat
      BY <1>1, <1>2
    <3> QED BY <3>1, SeatsFinite
  <2>3. Cardinality(Seats(s, u)) <= Cardinality(Seats(st, u))
    BY <2>1, <2>2, FS_Subset
  <2>4. Cardinality(Seats(st, u)) <= Cardinality(EdgeRows(a, u, R))
    BY <1>2 DEF NotMore
  <2>5. Cardinality(Seats(s, u)) \in Nat
    BY <1>1, SeatsFinite
  <2> QED BY <2>2, <2>3, <2>4, <2>5, EdgesFinite
<1>4. Len(s) <= FANOUT_PER_POST_CAP
  BY <1>1, SocialAssumption DEF NotMore
<1> QED BY <1>3, <1>4 DEF NotMore

----------------------------------------------------------------------------
\* One follows table adds to the owners.

\* s lists the members of S, each once.
Lists(s, S) ==
    /\ Len(s) \in Nat
    /\ \A j \in 1 .. Len(s) : s[j] \in S
    /\ \A i, j \in 1 .. Len(s) : i # j => s[i] # s[j]
    /\ \A u \in S : \E j \in 1 .. Len(s) : s[j] = u

LEMMA SetToSeqsLists ==
    ASSUME NEW S, IsFiniteSet(S), NEW s \in SetToSeqs(S)
    PROVE  s \in Seq(S) /\ Lists(s, S)
<1>1. PICK n \in Nat : n = Cardinality(S)
  BY FS_CardinalityType
<1>2. s \in [1 .. n -> S] /\ \A i, j \in 1 .. n : i # j => s[i] # s[j]
  BY <1>1 DEF SetToSeqs
<1>3. s \in Seq(S) /\ Len(s) = n
  BY <1>2
<1>4. s \in Injection(1 .. n, S)
  BY <1>2 DEF Injection, IsInjective
<1>5. IsFiniteSet(1 .. n) /\ Cardinality(1 .. n) = n
  BY FS_Interval
<1>6. s \in Surjection(1 .. n, S)
  BY <1>1, <1>4, <1>5, FS_Injection
<1>7. \A u \in S : \E j \in 1 .. n : s[j] = u
  BY <1>6 DEF Surjection
<1> QED BY <1>2, <1>3, <1>7 DEF Lists

\* c is o, continued by a beginning of s: all of s, unless the cap is reached.
Continued(c, o, s) ==
    /\ Len(c) \in Nat /\ Len(o) <= Len(c) /\ Len(c) <= Len(o) + Len(s) /\ Len(c) <= FANOUT_PER_POST_CAP
    /\ \A k \in 1 .. Len(o) : c[k] = o[k]
    /\ \A k \in Len(o) + 1 .. Len(c) : c[k] = s[k - Len(o)]
    /\ Len(c) # FANOUT_PER_POST_CAP => Len(c) = Len(o) + Len(s)

LEMMA CollectedContinues ==
    ASSUME NEW o \in Seq(Users), NEW s \in Seq(Users), Len(o) <= FANOUT_PER_POST_CAP
    PROVE  Collected(o, s) \in Seq(Users) /\ Continued(Collected(o, s), o, s)
<1>1. PICK all : all = o \o s
  OBVIOUS
<1>2. /\ all \in Seq(Users) /\ Len(all) = Len(o) + Len(s) /\ Len(o) \in Nat /\ Len(s) \in Nat
      /\ \A k \in 1 .. Len(o) : all[k] = o[k]
      /\ \A k \in Len(o) + 1 .. Len(all) : all[k] = s[k - Len(o)]
  BY <1>1
<1>3. PICK cap \in Nat : cap = FANOUT_PER_POST_CAP
  BY SocialAssumption
<1>4. CASE Len(all) > cap
  <2>1. Collected(o, s) = SubSeq(all, 1, cap)
    BY <1>1, <1>3, <1>4 DEF Collected
  <2>2. PICK c : c = SubSeq(all, 1, cap)
    OBVIOUS
  <2>3. c \in Seq(Users) /\ Len(c) = cap /\ \A k \in 1 .. cap : c[k] = all[k]
    BY <1>2, <1>4, <2>2
  <2>4. Len(o) <= cap
    BY <1>3
  <2>5. Len(c) \in Nat /\ Len(o) <= Len(c) /\ Len(c) <= Len(o) + Len(s) /\ Len(c) = FANOUT_PER_POST_CAP
    BY <1>2, <1>3, <1>4, <2>3, <2>4
  <2>6. \A k \in 1 .. Len(o) : c[k] = o[k]
    BY <1>2, <2>3, <2>4
  <2>7. \A k \in Len(o) + 1 .. Len(c) : c[k] = s[k - Len(o)]
    BY <1>2, <1>4, <2>3
  <2>8. Continued(c, o, s)
    BY <2>5, <2>6, <2>7 DEF Continued
  <2> QED BY <2>1, <2>2, <2>3, <2>8
<1>5. CASE ~(Len(all) > cap)
  <2>1. Collected(o, s) = all
    BY <1>1, <1>3, <1>5 DEF Collected
  <2> QED BY <1>2, <1>3, <1>5, <2>1 DEF Continued
<1> QED BY <1>4, <1>5

LEMMA SeatsContinued ==
    ASSUME NEW o \in Seq(Users), NEW s \in Seq(Users), NEW S, Lists(s, S), NEW c, Continued(c, o, s), NEW u
    PROVE  /\ u \notin S => Cardinality(Seats(c, u)) = Cardinality(Seats(o, u))
           /\ Cardinality(Seats(c, u)) <= Cardinality(Seats(o, u)) + 1
           /\ u \in S /\ Len(c) # FANOUT_PER_POST_CAP => Cardinality(Seats(c, u)) = Cardinality(Seats(o, u)) + 1
<1>1. Len(o) \in Nat /\ Len(s) \in Nat /\ Len(c) \in Nat /\ Len(o) <= Len(c) /\ Len(c) <= Len(o) + Len(s)
  BY DEF Continued
<1>2. IsFiniteSet(Seats(o, u)) /\ Cardinality(Seats(o, u)) \in Nat
      /\ IsFiniteSet(Seats(c, u)) /\ Cardinality(Seats(c, u)) \in Nat
  BY <1>1, SeatsFinite
<1>3. Seats(o, u) \subseteq Seats(c, u)
  BY <1>1 DEF Seats, Continued
<1>4. ASSUME \A j \in 1 .. Len(c) - Len(o) : s[j] # u
      PROVE  Seats(c, u) = Seats(o, u)
  <2>1. ASSUME NEW k \in 1 .. Len(c), c[k] = u, k > Len(o)
        PROVE  FALSE
    <3>1. k \in Len(o) + 1 .. Len(c) /\ k - Len(o) \in 1 .. Len(c) - Len(o)
      BY <1>1, <2>1
    <3>2. c[k] = s[k - Len(o)]
      BY <3>1 DEF Continued
    <3> QED BY <1>4, <2>1, <3>1, <3>2
  <2>2. \A k \in 1 .. Len(c) : c[k] = u => k \in 1 .. Len(o) /\ o[k] = u
    <3> TAKE k \in 1 .. Len(c)
    <3> HAVE c[k] = u
    <3>1. k \in 1 .. Len(o)
      BY <1>1, <2>1
    <3> QED BY <3>1 DEF Continued
  <2> QED BY <1>3, <2>2 DEF Seats
<1>5. ASSUME NEW j \in 1 .. Len(c) - Len(o), s[j] = u
      PROVE  Seats(c, u) = Seats(o, u) \cup {Len(o) + j} /\ Len(o) + j \notin Seats(o, u)
  <2>1. Len(o) + j \notin Seats(o, u)
    BY <1>1 DEF Seats
  <2>2. Len(o) + j \in Len(o) + 1 .. Len(c) /\ (Len(o) + j) - Len(o) = j /\ Len(o) + j \in 1 .. Len(c)
    BY <1>1
  <2>3. c[Len(o) + j] = u
    BY <1>5, <2>2 DEF Continued
  <2>4. ASSUME NEW k \in 1 .. Len(c), c[k] = u, k > Len(o)
        PROVE  k = Len(o) + j
    <3>1. k \in Len(o) + 1 .. Len(c) /\ k - Len(o) \in 1 .. Len(s) /\ j \in 1 .. Len(s)
      BY <1>1, <2>4
    <3>2. c[k] = s[k - Len(o)]
      BY <3>1 DEF Continued
    <3>3. k - Len(o) = j
      BY <1>5, <2>4, <3>1, <3>2 DEF Lists
    <3> QED BY <1>1, <3>3
  <2>5. \A k \in 1 .. Len(c) : c[k] = u => k = Len(o) + j \/ (k \in 1 .. Len(o) /\ o[k] = u)
    <3> TAKE k \in 1 .. Len(c)
    <3> HAVE c[k] = u
    <3>1. CASE k > Len(o)
      BY <2>4, <3>1
    <3>2. CASE ~(k > Len(o))
      <4>1. k \in 1 .. Len(o)
        BY <1>1, <3>2
      <4> QED BY <4>1 DEF Continued
    <3> QED BY <3>1, <3>2
  <2>6. Seats(c, u) \subseteq Seats(o, u) \cup {Len(o) + j}
    BY <2>5 DEF Seats
  <2>7. Len(o) + j \in Seats(c, u)
    BY <2>2, <2>3 DEF Seats
  <2> QED BY <1>3, <2>1, <2>6, <2>7
<1>6. \A j \in 1 .. Len(c) - Len(o) : j \in 1 .. Len(s)
  BY <1>1
<1>7. CASE \A j \in 1 .. Len(c) - Len(o) : s[j] # u
  <2>1. Seats(c, u) = Seats(o, u)
    BY <1>4, <1>7
  <2>2. ASSUME u \in S, Len(c) # FANOUT_PER_POST_CAP PROVE FALSE
    <3>1. Len(c) - Len(o) = Len(s)
      BY <1>1, <2>2 DEF Continued
    <3> QED BY <1>7, <2>2, <3>1 DEF Lists
  <2> QED BY <1>2, <2>1, <2>2
<1>8. CASE \E j \in 1 .. Len(c) - Len(o) : s[j] = u
  <2>1. PICK j \in 1 .. Len(c) - Len(o) : s[j] = u
    BY <1>8
  <2>2. Seats(c, u) = Seats(o, u) \cup {Len(o) + j} /\ Len(o) + j \notin Seats(o, u)
    BY <1>5, <2>1
  <2>3. Cardinality(Seats(c, u)) = Cardinality(Seats(o, u)) + 1
    BY <1>2, <2>2, FS_AddElement
  <2>4. u \in S
    BY <1>6, <2>1 DEF Lists
  <2> QED BY <1>2, <2>3, <2>4
<1> QED BY <1>7, <1>8

LEMMA FollowersFinite ==
    ASSUME NEW F \in SUBSET Followings, NEW S, S = {f.from : f \in F}
    PROVE  IsFiniteSet(S) /\ S \subseteq Users
<1>1. IsFiniteSet(F)
  BY SocialAssumption, FS_Subset
<1>2. PICK g : g = [f \in F |-> f.from]
  OBVIOUS
<1>3. g \in Surjection(F, S)
  BY <1>2 DEF Surjection
<1> QED BY <1>1, <1>3, FS_Surjection DEF Users

\* A table adds at most one row for each user, exactly one for its followers
\* of the author as long as the cap allows.
LEMMA EdgeAdded ==
    ASSUME NEW R \in SUBSET FollowRows, NEW t \in Nat, NEW a, NEW u, NEW e, e = <<t, [from |-> u, to |-> a]>>
    PROVE  /\ e \in R => Cardinality(EdgeRows(a, u, Earlier(R, t + 1))) = Cardinality(EdgeRows(a, u, Earlier(R, t))) + 1
           /\ e \notin R => EdgeRows(a, u, Earlier(R, t + 1)) = EdgeRows(a, u, Earlier(R, t))
<1>1. PICK old, new : old = EdgeRows(a, u, Earlier(R, t)) /\ new = EdgeRows(a, u, Earlier(R, t + 1))
  OBVIOUS
<1>2. \A x \in R : x = <<x[1], x[2]>> /\ x[1] \in Nat
  <2>1. FollowTables \subseteq Nat
    BY TablesCounted
  <2>2. ASSUME NEW x \in R PROVE x = <<x[1], x[2]>> /\ x[1] \in Nat
    <3>1. PICK p \in FollowTables, q \in Followings : x = <<p, q>>
      BY DEF FollowRows
    <3> QED BY <2>1, <3>1
  <2> QED BY <2>2
<1>3. \A x \in R : (x[1] < t + 1) <=> (x[1] < t \/ x[1] = t)
  BY <1>2
<1>4. \A x \in R : x[1] = t /\ x[2] = [from |-> u, to |-> a] <=> x = e
  BY <1>2
<1>5. new = old \cup {x \in R : x = e}
  BY <1>1, <1>3, <1>4 DEF EdgeRows, Earlier
<1>6. e \notin old
  BY <1>1 DEF EdgeRows, Earlier
<1>7. IsFiniteSet(old)
  <2>1. Earlier(R, t) \in SUBSET FollowRows
    BY DEF Earlier
  <2> QED BY <1>1, <2>1, EdgesFinite
<1>8. CASE e \in R
  <2>1. new = old \cup {e}
    BY <1>5, <1>8
  <2> QED BY <1>1, <1>6, <1>7, <1>8, <2>1, FS_AddElement
<1>9. CASE e \notin R
  BY <1>1, <1>5, <1>9
<1> QED BY <1>8, <1>9

LEMMA TableScanned ==
    ASSUME NEW o \in Seq(Users), NEW F \in SUBSET Followings, NEW t \in FollowTables, NEW a,
           NEW S, S = {f.from : f \in {g \in F : g.to = a}}, NEW s \in SetToSeqs(S),
           NEW E \in SUBSET FollowRows, \A f \in F : <<t, f>> \in E,
           NEW D \in SUBSET FollowRows, \A f : <<t, f>> \in D => f \in F,
           NotMore(o, a, Earlier(E, t)), NotLess(o, a, Earlier(D, t))
    PROVE  /\ Collected(o, s) \in Seq(Users)
           /\ NotMore(Collected(o, s), a, Earlier(E, t + 1)) /\ NotLess(Collected(o, s), a, Earlier(D, t + 1))
<1>1. IsFiniteSet(S) /\ S \subseteq Users
  BY FollowersFinite
<1>2. s \in Seq(Users) /\ Lists(s, S)
  BY <1>1, SetToSeqsLists
<1>3. PICK c : c = Collected(o, s)
  OBVIOUS
<1>4. Len(o) <= FANOUT_PER_POST_CAP
  BY DEF NotMore
<1>5. c \in Seq(Users) /\ Continued(c, o, s)
  BY <1>2, <1>3, <1>4, CollectedContinues
<1>6. t \in Nat
  BY TablesCounted
<1>7. Earlier(E, t) \in SUBSET FollowRows /\ Earlier(D, t) \in SUBSET FollowRows
      /\ Earlier(E, t + 1) \in SUBSET FollowRows /\ Earlier(D, t + 1) \in SUBSET FollowRows
  BY DEF Earlier
<1>8. \A u : u \in S <=> [from |-> u, to |-> a] \in F
  <2>1. \A f \in F : f = [from |-> f.from, to |-> f.to]
    BY SocialAssumption
  <2>2. ASSUME NEW u, u \in S PROVE [from |-> u, to |-> a] \in F
    <3>1. PICK f \in F : f.to = a /\ f.from = u
      BY <2>2
    <3> QED BY <2>1, <3>1
  <2>3. ASSUME NEW u, [from |-> u, to |-> a] \in F PROVE u \in S
    <3>1. PICK f \in F : f = [from |-> u, to |-> a]
      BY <2>3
    <3>2. f.to = a /\ f.from = u
      BY <3>1
    <3> QED BY <3>2
  <2> QED BY <2>2, <2>3
<1>9. Len(c) \in Nat /\ Len(c) <= FANOUT_PER_POST_CAP /\ Len(o) \in Nat /\ Len(o) <= Len(c)
      /\ FANOUT_PER_POST_CAP \in Nat
  BY <1>5, SocialAssumption DEF Continued
<1>10. ASSUME NEW u \in Users
       PROVE  Cardinality(Seats(c, u)) <= Cardinality(EdgeRows(a, u, Earlier(E, t + 1)))
  <2>0. PICK e : e = <<t, [from |-> u, to |-> a]>>
    OBVIOUS
  <2>1. PICK x, y, z : x = Cardinality(Seats(o, u)) /\ y = Cardinality(Seats(c, u)) /\ z = Cardinality(EdgeRows(a, u, Earlier(E, t)))
    OBVIOUS
  <2>2. x \in Nat /\ y \in Nat /\ z \in Nat /\ x <= z
    BY <1>7, <1>9, <2>1, SeatsFinite, EdgesFinite DEF NotMore
  <2>3. CASE u \in S
    <3>1. e \in E
      BY <1>8, <2>0, <2>3
    <3>2. Cardinality(EdgeRows(a, u, Earlier(E, t + 1))) = z + 1
      BY <1>6, <2>0, <2>1, <3>1, EdgeAdded
    <3>3. y <= x + 1
      BY <1>2, <1>5, <2>1, SeatsContinued
    <3> QED BY <2>1, <2>2, <3>2, <3>3
  <2>4. CASE u \notin S
    <3>1. y = x
      BY <1>2, <1>5, <2>1, <2>4, SeatsContinued
    <3>2. Cardinality(EdgeRows(a, u, Earlier(E, t + 1))) \in {z, z + 1}
      BY <1>6, <2>0, <2>1, EdgeAdded
    <3> QED BY <2>1, <2>2, <3>1, <3>2
  <2> QED BY <2>3, <2>4
<1>11. ASSUME Len(c) # FANOUT_PER_POST_CAP, NEW u \in Users
       PROVE  Cardinality(EdgeRows(a, u, Earlier(D, t + 1))) <= Cardinality(Seats(c, u))
  <2>0. PICK e : e = <<t, [from |-> u, to |-> a]>>
    OBVIOUS
  <2>1. PICK x, y, z : x = Cardinality(Seats(o, u)) /\ y = Cardinality(Seats(c, u)) /\ z = Cardinality(EdgeRows(a, u, Earlier(D, t)))
    OBVIOUS
  <2>2. Len(o) # FANOUT_PER_POST_CAP
    BY <1>9, <1>11
  <2>3. x \in Nat /\ y \in Nat /\ z \in Nat /\ z <= x
    BY <1>7, <1>9, <2>1, <2>2, SeatsFinite, EdgesFinite DEF NotLess
  <2>4. CASE u \in S
    <3>1. Cardinality(EdgeRows(a, u, Earlier(D, t + 1))) \in {z, z + 1}
      BY <1>6, <2>0, <2>1, EdgeAdded
    <3>2. y = x + 1
      BY <1>2, <1>5, <1>11, <2>1, <2>4, SeatsContinued
    <3> QED BY <2>1, <2>3, <3>1, <3>2
  <2>5. CASE u \notin S
    <3>1. e \notin D
      BY <1>8, <2>0, <2>5
    <3>2. Cardinality(EdgeRows(a, u, Earlier(D, t + 1))) = z
      BY <1>6, <2>0, <2>1, <3>1, EdgeAdded
    <3>3. y = x
      BY <1>2, <1>5, <2>1, <2>5, SeatsContinued
    <3> QED BY <2>1, <2>3, <3>2, <3>3
  <2> QED BY <2>4, <2>5
<1> QED BY <1>3, <1>5, <1>9, <1>10, <1>11 DEF NotMore, NotLess

----------------------------------------------------------------------------
\* The invariant.

JobsOfPosts == [post : Posts, author : Authors]
Inserted == 1 .. so_count.posts
AuthorOf(p) == so_rows[p].author

IsPost(x) == x = [author |-> x.author, body |-> x.body, live |-> x.live]
IsTask(x) == x = [post |-> x.post, author |-> x.author, terms |-> x.terms, deque |-> x.deque]

SocialTypes ==
    /\ so_count = [posts |-> so_count.posts, follows |-> so_count.follows, deletes |-> so_count.deletes,
                   restarts |-> so_count.restarts, first |-> so_count.first]
    /\ so_count.posts \in Nat /\ Inserted \subseteq Posts
    /\ so_rows = [p \in Posts |-> so_rows[p]]
    /\ \A p \in Posts : so_rows[p] # NoPost => IsPost(so_rows[p])
    /\ so_writer = [w \in Posters |-> so_writer[w]]
    /\ \A w \in Posters : so_writer[w] # NoTask => IsTask(so_writer[w])
    /\ so_queue \in Seq(JobsOfPosts)
    /\ so_worker # NoTask => so_worker \in [job : JobsOfPosts, next : Nat, owners : Seq(Users)]
    /\ so_follow \in [FollowTables -> SUBSET Followings]
    /\ so_timeline \in [Posts -> Seq(Users)]
    /\ so_steady \in [Posts -> SUBSET FollowRows] /\ so_ever \in [Posts -> SUBSET FollowRows]

\* The history of the follows tables is what it says.
FollowsKnown ==
    \A p \in Inserted, t \in FollowTables, f \in Followings :
        /\ f \in so_follow[t] => <<t, f>> \in so_ever[p]
        /\ <<t, f>> \in so_steady[p] => f \in so_follow[t]

\* A post on its way to the worker: inserted, with its author, untouched.
Waiting(p, a) ==
    /\ p \in Inserted /\ a \in Authors /\ a = AuthorOf(p) /\ so_timeline[p] = <<>> /\ p \notin so_fanned
    /\ so_worker # NoTask => so_worker.job.post # p

\* Posts wait in one place only.
PlacesApart ==
    /\ \A w \in Posters : so_writer[w] # NoTask =>
         /\ Waiting(so_writer[w].post, so_writer[w].author)
         /\ \A k \in 1 .. Len(so_queue) : so_queue[k].post # so_writer[w].post
         /\ \A v \in Posters \ {w} : so_writer[v] # NoTask => so_writer[v].post # so_writer[w].post
    /\ \A k \in 1 .. Len(so_queue) :
         /\ Waiting(so_queue[k].post, so_queue[k].author)
         /\ \A j \in 1 .. Len(so_queue) : j # k => so_queue[j].post # so_queue[k].post
    /\ \A p \in Posts : p > so_count.posts => so_timeline[p] = <<>>
    /\ so_fanned \subseteq Inserted

\* The post in work: what it has and what it will get.
InWork ==
    so_worker # NoTask =>
        LET p == so_worker.job.post
            a == so_worker.job.author
            all == so_timeline[p] \o so_worker.owners
        IN  /\ p \in Inserted /\ a = AuthorOf(p) /\ p \notin so_fanned
            /\ \A t \in FollowTables : t < so_worker.next \/ so_timeline[p] = <<>>
            /\ \A m \in Nat : FollowTables = 1 .. m => so_worker.next \in 1 .. m + 1
            /\ NotMore(all, a, Earlier(so_ever[p], so_worker.next))
            /\ NotLess(all, a, Earlier(so_steady[p], so_worker.next))

Rest(p) == so_worker = NoTask \/ so_worker.job.post # p

FanInv ==
    /\ SocialTypes /\ FollowsKnown /\ PlacesApart /\ InWork
    /\ \A p \in so_offered :
         p \in so_dropped \cup so_fanned \cup {so_queue[k].post : k \in 1 .. Len(so_queue)}
               \cup (IF so_worker = NoTask THEN {} ELSE {so_worker.job.post})
    /\ \A p \in Inserted : Rest(p) => NotMore(so_timeline[p], AuthorOf(p), so_ever[p])
    /\ \A p \in so_fanned : NotLess(so_timeline[p], AuthorOf(p), so_steady[p])

\* The post in work has not more than its share either.
LEMMA InWorkNotMore ==
    ASSUME FanInv, NEW p \in Inserted
    PROVE  NotMore(so_timeline[p], AuthorOf(p), so_ever[p])
<1>1. CASE Rest(p)
  BY <1>1 DEF FanInv
<1>2. CASE ~Rest(p)
  <2>1. so_worker # NoTask /\ so_worker.job.post = p
    BY <1>2 DEF Rest
  <2>2. p \in Posts /\ so_timeline[p] \in Seq(Users) /\ so_worker.owners \in Seq(Users) /\ so_ever[p] \in SUBSET FollowRows
    BY <2>1 DEF FanInv, SocialTypes
  <2>3. PICK a, E : a = AuthorOf(p) /\ E = Earlier(so_ever[p], so_worker.next)
    OBVIOUS
  <2>4. NotMore(so_timeline[p] \o so_worker.owners, a, E)
    BY <2>1, <2>3 DEF FanInv, InWork
  <2>5. E \in SUBSET FollowRows /\ E \subseteq so_ever[p]
    BY <2>2, <2>3 DEF Earlier
  <2>6. NotMore(so_timeline[p], a, E)
    BY <2>2, <2>4, <2>5, NotMorePrefix
  <2>7. Len(so_timeline[p]) \in Nat
    BY <2>2
  <2> QED BY <2>2, <2>3, <2>5, <2>6, <2>7, NotMoreMonotone
<1> QED BY <1>1, <1>2

LEMMA EmptyNotMore ==
    ASSUME NEW a, NEW R \in SUBSET FollowRows
    PROVE  NotMore(<<>>, a, R)
<1>1. \A u : Seats(<<>>, u) = {}
  BY DEF Seats
<1>2. Cardinality({}) = 0
  BY FS_EmptySet
<1>3. \A u : Cardinality(EdgeRows(a, u, R)) \in Nat
  BY EdgesFinite
<1>4. Len(<<>>) = 0 /\ FANOUT_PER_POST_CAP \in Nat
  BY SocialAssumption
<1> QED BY <1>1, <1>2, <1>3, <1>4 DEF NotMore

LEMMA FanInit == SocialInit => FanInv
<1> SUFFICES ASSUME SocialInit PROVE FanInv
  OBVIOUS
<1>1. Inserted = {}
  BY DEF SocialInit, Inserted
<1>2. SocialTypes
  <2>1. so_queue \in Seq(JobsOfPosts) /\ \A p \in Posts : <<>> \in Seq(Users)
    BY DEF SocialInit
  <2> QED BY <1>1, <2>1 DEF SocialInit, SocialTypes
<1>3. Len(so_queue) = 0 /\ 1 .. 0 = {}
  BY DEF SocialInit
<1>4. PlacesApart
  BY <1>3 DEF SocialInit, PlacesApart
<1> QED BY <1>1, <1>2, <1>4 DEF SocialInit, FanInv, FollowsKnown, InWork

\* Steps of the search index, deleted posts, and the installed channel.
LEMMA IndexStepInv ==
    ASSUME FanInv,
           so_rows' = [p \in Posts |-> so_rows'[p]],
           \A p \in Posts : so_rows'[p] # NoPost => IsPost(so_rows'[p]),
           \A p \in Posts : so_rows'[p].author = so_rows[p].author,
           so_count' = [posts |-> so_count'.posts, follows |-> so_count'.follows, deletes |-> so_count'.deletes,
                        restarts |-> so_count'.restarts, first |-> so_count'.first],
           so_count'.posts = so_count.posts,
           so_writer' = [w \in Posters |-> so_writer'[w]],
           \A w \in Posters : so_writer'[w] # NoTask =>
                /\ so_writer[w] # NoTask /\ IsTask(so_writer'[w])
                /\ so_writer'[w].post = so_writer[w].post /\ so_writer'[w].author = so_writer[w].author,
           UNCHANGED <<so_queue, so_worker, so_follow, so_timeline, so_dropped, so_offered, so_fanned, so_steady, so_ever>>
    PROVE  FanInv'
<1>1. Inserted' = Inserted /\ Inserted \subseteq Posts
  BY DEF Inserted, FanInv, SocialTypes
<1>2. \A p \in Inserted : AuthorOf(p)' = AuthorOf(p)
  BY <1>1 DEF AuthorOf
<1>3. SocialTypes'
  BY <1>1 DEF FanInv, SocialTypes
<1>4. FollowsKnown'
  BY <1>1 DEF FanInv, FollowsKnown
<1>5. \A p, a : Waiting(p, a) => Waiting(p, a)'
  BY <1>1, <1>2 DEF Waiting
<1>6. PlacesApart'
  BY <1>1, <1>5 DEF FanInv, PlacesApart
<1>7. InWork'
  BY <1>1, <1>2 DEF FanInv, InWork
<1>8. \A p \in Inserted : Rest(p)' => NotMore(so_timeline[p], AuthorOf(p), so_ever[p])'
  BY <1>1, <1>2 DEF FanInv, Rest, NotMore
<1>9. \A p \in so_fanned' : NotLess(so_timeline[p], AuthorOf(p), so_steady[p])'
  BY <1>1, <1>2 DEF FanInv, NotLess, PlacesApart
<1> QED BY <1>1, <1>3, <1>4, <1>6, <1>7, <1>8, <1>9 DEF FanInv

LEMMA InsertPostInv ==
    ASSUME FanInv, NEW w \in Posters, NEW a \in Authors, NEW b \in Bodies, InsertPost(w, a, b)
    PROVE  FanInv'
<1>1. PICK p : p = so_count.posts + 1
  OBVIOUS
<1>2. PICK rows : rows = {x \in FollowRows : x[2] \in so_follow[x[1]]}
  OBVIOUS
<1>3. /\ p \in Posts /\ so_writer[w] = NoTask
      /\ so_rows' = [so_rows EXCEPT ![p] = [author |-> a, body |-> b, live |-> TRUE]]
      /\ so_count' = [so_count EXCEPT !.posts = p]
      /\ so_writer' = [so_writer EXCEPT ![w] = [post |-> p, author |-> a, terms |-> tokenize(b), deque |-> "unknown"]]
      /\ so_steady' = [so_steady EXCEPT ![p] = rows] /\ so_ever' = [so_ever EXCEPT ![p] = rows]
      /\ UNCHANGED <<so_queue, so_worker, so_follow, so_timeline, so_dropped, so_offered, so_fanned>>
  BY <1>1, <1>2 DEF InsertPost
<1>4. so_count.posts \in Nat /\ Inserted = 1 .. so_count.posts /\ p \notin Inserted
  BY <1>1 DEF FanInv, SocialTypes, Inserted
<1>5. so_count'.posts = p /\ Inserted' = 1 .. p
  BY <1>3 DEF FanInv, SocialTypes, Inserted
<1>6. Inserted' = Inserted \cup {p} /\ Inserted \subseteq Posts
  <2>1. 1 .. p = 1 .. so_count.posts \cup {p}
    BY <1>1, <1>4
  <2> QED BY <1>4, <1>5, <2>1 DEF FanInv, SocialTypes
<1>7. SocialTypes'
  <2>1. so_count' = [posts |-> so_count'.posts, follows |-> so_count'.follows, deletes |-> so_count'.deletes,
                     restarts |-> so_count'.restarts, first |-> so_count'.first]
    BY <1>3 DEF FanInv, SocialTypes
  <2>2. so_count'.posts \in Nat /\ Inserted' \subseteq Posts
    BY <1>1, <1>3, <1>4, <1>5, <1>6
  <2>3. so_rows' = [q \in Posts |-> so_rows'[q]] /\ so_writer' = [v \in Posters |-> so_writer'[v]]
    BY <1>3 DEF FanInv, SocialTypes
  <2>4. \A v \in Posters : so_writer'[v] # NoTask => IsTask(so_writer'[v])
    <3> TAKE v \in Posters
    <3>1. CASE v = w
      <4>1. so_writer'[v] = [post |-> p, author |-> a, terms |-> tokenize(b), deque |-> "unknown"]
        BY <1>3, <3>1 DEF FanInv, SocialTypes
      <4> QED BY <4>1 DEF IsTask
    <3>2. CASE v # w
      BY <1>3, <3>2 DEF FanInv, SocialTypes
    <3> QED BY <3>1, <3>2
  <2>5. so_steady' \in [Posts -> SUBSET FollowRows] /\ so_ever' \in [Posts -> SUBSET FollowRows]
    BY <1>2, <1>3 DEF FanInv, SocialTypes
  <2>6. \A q \in Posts : so_rows'[q] # NoPost => IsPost(so_rows'[q])
    <3>1. so_rows'[p] = [author |-> a, body |-> b, live |-> TRUE] /\ \A q \in Posts \ {p} : so_rows'[q] = so_rows[q]
      BY <1>3 DEF FanInv, SocialTypes
    <3>2. IsPost(so_rows'[p])
      BY <3>1 DEF IsPost
    <3> QED BY <3>1, <3>2 DEF FanInv, SocialTypes
  <2> QED BY <1>3, <2>1, <2>2, <2>3, <2>4, <2>5, <2>6 DEF FanInv, SocialTypes
<1>8. \A q \in Inserted : AuthorOf(q)' = AuthorOf(q) /\ so_ever'[q] = so_ever[q] /\ so_steady'[q] = so_steady[q]
  BY <1>3, <1>4, <1>6 DEF AuthorOf, FanInv, SocialTypes
<1>9. FollowsKnown'
  <2>1. \A t \in FollowTables, f \in Followings : <<t, f>> \in rows <=> f \in so_follow[t]
    BY <1>2 DEF FollowRows
  <2>2. so_ever'[p] = rows /\ so_steady'[p] = rows
    BY <1>3 DEF FanInv, SocialTypes
  <2> QED BY <1>3, <1>6, <1>8, <2>1, <2>2 DEF FanInv, FollowsKnown
<1>10. \A q, c : Waiting(q, c) => Waiting(q, c)' /\ q # p
  BY <1>3, <1>4, <1>6, <1>8 DEF Waiting
<1>11. Waiting(p, a)'
  <2>1. AuthorOf(p)' = a
    BY <1>3 DEF AuthorOf, FanInv, SocialTypes
  <2>2. so_timeline[p] = <<>>
    BY <1>1, <1>3, <1>4 DEF FanInv, PlacesApart
  <2>3. p \notin so_fanned /\ (so_worker # NoTask => so_worker.job.post # p)
    BY <1>4 DEF FanInv, PlacesApart, InWork
  <2> QED BY <1>3, <1>6, <2>1, <2>2, <2>3 DEF Waiting
<1>12. PlacesApart'
  <2>1. so_writer'[w].post = p /\ so_writer'[w].author = a
    BY <1>3 DEF FanInv, SocialTypes
  <2>2. \A v \in Posters \ {w} : so_writer'[v] = so_writer[v]
    BY <1>3 DEF FanInv, SocialTypes
  <2>3. \A k \in 1 .. Len(so_queue) : so_queue[k].post # p
    BY <1>10 DEF FanInv, PlacesApart
  <2>4. \A v \in Posters \ {w} : so_writer[v] # NoTask => so_writer[v].post # p
    BY <1>10 DEF FanInv, PlacesApart
  <2>5. ASSUME NEW v \in Posters, so_writer'[v] # NoTask
        PROVE  /\ Waiting(so_writer[v].post, so_writer[v].author)'
               /\ \A k \in 1 .. Len(so_queue) : so_queue[k].post # so_writer'[v].post
               /\ \A u \in Posters \ {v} : so_writer'[u] # NoTask => so_writer'[u].post # so_writer'[v].post
    <3>1. CASE v = w
      BY <1>11, <2>1, <2>2, <2>3, <2>4, <3>1
    <3>2. CASE v # w
      BY <1>10, <2>1, <2>2, <2>4, <2>5, <3>2 DEF FanInv, PlacesApart
    <3> QED BY <3>1, <3>2
  <2>6. \A k \in 1 .. Len(so_queue') :
         /\ Waiting(so_queue[k].post, so_queue[k].author)'
         /\ \A j \in 1 .. Len(so_queue') : j # k => so_queue'[j].post # so_queue'[k].post
    BY <1>3, <1>10 DEF FanInv, PlacesApart
  <2>7. \A q \in Posts : q > so_count'.posts => so_timeline'[q] = <<>>
    <3>1. \A q \in Posts : q > p => q > so_count.posts
      BY <1>1, <1>4, SocialAssumption
    <3> QED BY <1>3, <1>5, <3>1 DEF FanInv, PlacesApart
  <2>8. so_fanned' \subseteq Inserted'
    BY <1>3, <1>6 DEF FanInv, PlacesApart
  <2> QED BY <1>3, <2>5, <2>6, <2>7, <2>8 DEF PlacesApart
<1>13. InWork'
  BY <1>3, <1>6, <1>8 DEF FanInv, InWork
<1>14. \A q \in Inserted' : Rest(q)' => NotMore(so_timeline[q], AuthorOf(q), so_ever[q])'
  <2>1. so_timeline'[p] = <<>> /\ so_ever'[p] \in SUBSET FollowRows
    BY <1>3, <1>7, <1>11 DEF Waiting, SocialTypes
  <2>2. NotMore(so_timeline[p], AuthorOf(p), so_ever[p])'
    BY <2>1, EmptyNotMore DEF NotMore
  <2>3. \A q \in Inserted : Rest(q)' => NotMore(so_timeline[q], AuthorOf(q), so_ever[q])'
    BY <1>3, <1>8 DEF FanInv, Rest, NotMore
  <2> QED BY <1>6, <2>2, <2>3
<1>15. \A q \in so_fanned' : NotLess(so_timeline[q], AuthorOf(q), so_steady[q])'
  BY <1>3, <1>8 DEF FanInv, NotLess, PlacesApart
<1> QED BY <1>3, <1>7, <1>9, <1>12, <1>13, <1>14, <1>15 DEF FanInv

LEMMA FinishPostInv ==
    ASSUME FanInv, NEW w \in Posters, FinishPost(w)
    PROVE  FanInv'
<1>1. PICK p, a : p = so_writer[w].post /\ a = so_writer[w].author
  OBVIOUS
<1>2. PICK j : j = [post |-> p, author |-> a]
  OBVIOUS
<1>3. /\ so_writer[w] # NoTask /\ so_writer' = [so_writer EXCEPT ![w] = NoTask]
      /\ UNCHANGED <<so_rows, so_worker, so_follow, so_timeline, so_count, so_fanned, so_steady, so_ever>>
  BY DEF FinishPost
<1>4. Waiting(p, a) /\ (\A k \in 1 .. Len(so_queue) : so_queue[k].post # p)
      /\ \A v \in Posters \ {w} : so_writer[v] # NoTask => so_writer[v].post # p
  BY <1>1, <1>3 DEF FanInv, PlacesApart
<1>5. p \in Posts /\ j \in JobsOfPosts
  BY <1>2, <1>4 DEF Waiting, FanInv, SocialTypes, JobsOfPosts
<1>6. \/ so_queue' = so_queue /\ so_offered' = so_offered /\ so_dropped' = so_dropped
      \/ so_queue' = so_queue /\ so_offered' = so_offered \cup {p} /\ so_dropped' = so_dropped \cup {p}
      \/ so_queue' = Append(so_queue, j) /\ so_offered' = so_offered \cup {p} /\ so_dropped' = so_dropped
  <2>1. Len(so_queue) \in Nat /\ FANOUT_QUEUE \in Nat
    BY SocialAssumption DEF FanInv, SocialTypes
  <2>2. fanout_enqueue(p, a)
    BY <1>1 DEF FinishPost
  <2>3. CASE ~so_channel
    <3>1. so_offered' = so_offered
      BY <2>2, <2>3 DEF fanout_enqueue
    <3>2. so_queue' = so_queue
      BY <2>2, <2>3 DEF fanout_enqueue
    <3>3. so_dropped' = so_dropped
      BY <2>2, <2>3 DEF fanout_enqueue
    <3> QED BY <3>1, <3>2, <3>3
  <2>4. CASE so_channel /\ Len(so_queue) < FANOUT_QUEUE
    BY <1>2, <2>1, <2>2, <2>4 DEF fanout_enqueue
  <2>5. CASE so_channel /\ ~(Len(so_queue) < FANOUT_QUEUE)
    BY <2>1, <2>2, <2>5 DEF fanout_enqueue
  <2> QED BY <2>3, <2>4, <2>5
<1>7. so_queue' \in Seq(JobsOfPosts)
  <2>1. so_queue \in Seq(JobsOfPosts)
    BY DEF FanInv, SocialTypes
  <2>2. Append(so_queue, j) \in Seq(JobsOfPosts)
    BY <1>5, <2>1, AppendProperties
  <2> QED BY <1>6, <2>1, <2>2
<1>8. Inserted' = Inserted /\ \A q : AuthorOf(q)' = AuthorOf(q) /\ (Rest(q)' <=> Rest(q))
  BY <1>3 DEF Inserted, AuthorOf, Rest
<1>9. \A q, c : Waiting(q, c)' <=> Waiting(q, c)
  BY <1>3, <1>8 DEF Waiting
<1>10. /\ so_writer' = [v \in Posters |-> so_writer'[v]] /\ so_writer'[w] = NoTask
       /\ \A v \in Posters \ {w} : so_writer'[v] = so_writer[v]
  BY <1>3 DEF FanInv, SocialTypes
<1>11. SocialTypes'
  BY <1>3, <1>7, <1>8, <1>10 DEF FanInv, SocialTypes
<1>12. FollowsKnown' /\ InWork'
  BY <1>3, <1>8 DEF FanInv, FollowsKnown, InWork
<1>13. \A k \in 1 .. Len(so_queue') : so_queue'[k] = j \/ (k \in 1 .. Len(so_queue) /\ so_queue'[k] = so_queue[k])
  BY <1>6 DEF FanInv, SocialTypes
<1>14. \A k, i \in 1 .. Len(so_queue') : so_queue'[k] = j /\ so_queue'[i] = j => k = i
  <2>1. \A k \in 1 .. Len(so_queue) : so_queue[k] # j
    BY <1>2, <1>4
  <2>2. CASE so_queue' = so_queue
    BY <2>1, <2>2
  <2>3. CASE so_queue' = Append(so_queue, j)
    <3>1. Len(so_queue') = Len(so_queue) + 1 /\ \A k \in 1 .. Len(so_queue) : so_queue'[k] = so_queue[k]
      BY <2>3 DEF FanInv, SocialTypes
    <3>2. Len(so_queue) \in Nat
      BY DEF FanInv, SocialTypes
    <3> QED BY <2>1, <3>1, <3>2
  <2> QED BY <1>6, <2>2, <2>3
<1>15. PlacesApart'
  <2>1. ASSUME NEW v \in Posters, so_writer'[v] # NoTask
        PROVE  /\ Waiting(so_writer[v].post, so_writer[v].author)'
               /\ \A k \in 1 .. Len(so_queue') : so_queue'[k].post # so_writer'[v].post
               /\ \A u \in Posters \ {v} : so_writer'[u] # NoTask => so_writer'[u].post # so_writer'[v].post
    <3>1. v # w /\ so_writer'[v] = so_writer[v] /\ so_writer[v] # NoTask
      BY <1>10, <2>1
    <3>2. \A k \in 1 .. Len(so_queue) : so_queue[k].post # so_writer[v].post
      BY <3>1 DEF FanInv, PlacesApart
    <3>3. j.post # so_writer[v].post
      BY <1>2, <1>4, <3>1
    <3>4. Waiting(so_writer[v].post, so_writer[v].author)
          /\ \A u \in Posters \ {v} : so_writer[u] # NoTask => so_writer[u].post # so_writer[v].post
      BY <3>1 DEF FanInv, PlacesApart
    <3>5. \A u \in Posters \ {v} : so_writer'[u] # NoTask => so_writer'[u] = so_writer[u]
      BY <1>10
    <3> QED BY <1>9, <1>13, <3>1, <3>2, <3>3, <3>4, <3>5
  <2>2. ASSUME NEW k \in 1 .. Len(so_queue')
        PROVE  /\ Waiting(so_queue[k].post, so_queue[k].author)'
               /\ \A i \in 1 .. Len(so_queue') : i # k => so_queue'[i].post # so_queue'[k].post
    <3>1. j.post = p /\ j.author = a
      BY <1>2
    <3>2. CASE so_queue'[k] = j
      BY <1>4, <1>9, <1>13, <1>14, <3>1, <3>2
    <3>3. CASE so_queue'[k] # j
      <4>1. k \in 1 .. Len(so_queue) /\ so_queue'[k] = so_queue[k]
        BY <1>13, <3>3
      <4>2. Waiting(so_queue[k].post, so_queue[k].author) /\ so_queue[k].post # p
            /\ \A i \in 1 .. Len(so_queue) : i # k => so_queue[i].post # so_queue[k].post
        BY <1>4, <4>1 DEF FanInv, PlacesApart
      <4> QED BY <1>9, <1>13, <3>1, <4>1, <4>2
    <3> QED BY <3>2, <3>3
  <2>3. (\A q \in Posts : q > so_count'.posts => so_timeline'[q] = <<>>) /\ so_fanned' \subseteq Inserted'
    BY <1>3, <1>8 DEF FanInv, PlacesApart
  <2> QED BY <2>1, <2>2, <2>3 DEF PlacesApart
<1>16. \A q \in so_offered' :
         q \in so_dropped' \cup so_fanned' \cup {so_queue'[k].post : k \in 1 .. Len(so_queue')}
               \cup (IF so_worker' = NoTask THEN {} ELSE {so_worker'.job.post})
  <2>1. so_worker' = so_worker /\ so_fanned' = so_fanned
    BY <1>3
  <2>2. CASE so_queue' = so_queue
    BY <1>6, <2>1, <2>2 DEF FanInv
  <2>3. CASE so_queue' = Append(so_queue, j) /\ so_offered' = so_offered \cup {p} /\ so_dropped' = so_dropped
    <3>1. Len(so_queue') = Len(so_queue) + 1 /\ Len(so_queue) \in Nat /\ so_queue'[Len(so_queue) + 1] = j
          /\ \A k \in 1 .. Len(so_queue) : so_queue'[k] = so_queue[k]
      BY <2>3 DEF FanInv, SocialTypes
    <3>2. \A k \in 1 .. Len(so_queue) : k \in 1 .. Len(so_queue')
      BY <3>1
    <3>3. {so_queue[k].post : k \in 1 .. Len(so_queue)} \subseteq {so_queue'[k].post : k \in 1 .. Len(so_queue')}
      BY <3>1, <3>2
    <3>4. Len(so_queue) + 1 \in 1 .. Len(so_queue') /\ so_queue'[Len(so_queue) + 1].post = p
      BY <1>2, <3>1
    <3>5. p \in {so_queue'[k].post : k \in 1 .. Len(so_queue')}
      BY <3>4
    <3> QED BY <2>1, <2>3, <3>3, <3>5 DEF FanInv
  <2> QED BY <1>6, <2>2, <2>3
<1>17. \A q \in Inserted' : Rest(q)' => NotMore(so_timeline[q], AuthorOf(q), so_ever[q])'
  BY <1>3, <1>8 DEF FanInv, NotMore
<1>18. \A q \in so_fanned' : NotLess(so_timeline[q], AuthorOf(q), so_steady[q])'
  BY <1>3, <1>8 DEF FanInv, NotLess
<1> QED BY <1>11, <1>12, <1>15, <1>16, <1>17, <1>18 DEF FanInv

LEMMA ChangeFollowInv ==
    ASSUME FanInv, NEW t \in FollowTables, NEW f \in Followings, ChangeFollow(t, f)
    PROVE  FanInv'
<1>1. /\ so_follow' = [so_follow EXCEPT ![t] = IF f \in so_follow[t] THEN @ \ {f} ELSE @ \cup {f}]
      /\ so_count' = [so_count EXCEPT !.follows = @ + 1]
      /\ so_steady' = [p \in Posts |-> so_steady[p] \ {<<t, f>>}]
      /\ so_ever' = [p \in Posts |-> IF f \in so_follow[t] \/ p > so_count.posts THEN so_ever[p]
                                      ELSE so_ever[p] \cup {<<t, f>>}]
      /\ UNCHANGED <<so_rows, so_writer, so_queue, so_worker, so_timeline, so_dropped, so_offered, so_fanned>>
  BY DEF ChangeFollow
<1>2. /\ so_count'.posts = so_count.posts
      /\ so_count' = [posts |-> so_count'.posts, follows |-> so_count'.follows, deletes |-> so_count'.deletes,
                      restarts |-> so_count'.restarts, first |-> so_count'.first]
  BY <1>1 DEF FanInv, SocialTypes
<1>3. Inserted' = Inserted /\ Inserted \subseteq Posts /\ \A q : AuthorOf(q)' = AuthorOf(q) /\ (Rest(q)' <=> Rest(q))
  BY <1>1, <1>2 DEF Inserted, AuthorOf, Rest, FanInv, SocialTypes
<1>4. <<t, f>> \in FollowRows
  BY DEF FollowRows
<1>5. so_follow' \in [FollowTables -> SUBSET Followings] /\ so_steady' \in [Posts -> SUBSET FollowRows]
      /\ so_ever' \in [Posts -> SUBSET FollowRows]
  BY <1>1, <1>4 DEF FanInv, SocialTypes
<1>6. \A q \in Posts : so_steady'[q] \subseteq so_steady[q] /\ so_ever[q] \subseteq so_ever'[q]
  BY <1>1
<1>7. SocialTypes'
  BY <1>1, <1>2, <1>3, <1>5 DEF FanInv, SocialTypes
<1>8. FollowsKnown'
  <2>1. ASSUME NEW q \in Inserted, NEW s \in FollowTables, NEW g \in Followings
        PROVE  (g \in so_follow'[s] => <<s, g>> \in so_ever'[q]) /\ (<<s, g>> \in so_steady'[q] => g \in so_follow'[s])
    <3>1. q \in Posts /\ ~(q > so_count.posts)
      BY <1>3 DEF Inserted, FanInv, SocialTypes
    <3>2. (g \in so_follow[s] => <<s, g>> \in so_ever[q]) /\ (<<s, g>> \in so_steady[q] => g \in so_follow[s])
      BY DEF FanInv, FollowsKnown
    <3>3. CASE s = t /\ g = f
      BY <1>1, <3>1, <3>2, <3>3 DEF FanInv, SocialTypes
    <3>4. CASE ~(s = t /\ g = f)
      <4>1. g \in so_follow'[s] <=> g \in so_follow[s]
        BY <1>1, <3>4 DEF FanInv, SocialTypes
      <4> QED BY <1>1, <3>1, <3>2, <3>4, <4>1
    <3> QED BY <3>3, <3>4
  <2> QED BY <1>3, <2>1 DEF FollowsKnown
<1>9. \A q, c : Waiting(q, c)' <=> Waiting(q, c)
  BY <1>1, <1>3 DEF Waiting
<1>10. PlacesApart'
  BY <1>1, <1>2, <1>3, <1>9 DEF FanInv, PlacesApart
<1>11. InWork'
  <2> SUFFICES ASSUME so_worker # NoTask PROVE InWork'
    BY <1>1 DEF InWork
  <2>1. PICK p, a, all, n : p = so_worker.job.post /\ a = so_worker.job.author /\ n = so_worker.next
                            /\ all = so_timeline[p] \o so_worker.owners
    OBVIOUS
  <2>2. p \in Inserted /\ p \in Posts /\ so_timeline[p] \in Seq(Users) /\ so_worker.owners \in Seq(Users)
    <3>1. p \in Inserted
      BY <2>1 DEF FanInv, InWork
    <3>2. p \in Posts
      BY <1>3, <3>1
    <3> QED BY <3>1, <3>2 DEF FanInv, SocialTypes
  <2>3. all \in Seq(Users) /\ Len(all) \in Nat
    <3>1. so_timeline[p] \o so_worker.owners \in Seq(Users)
      BY <2>2, ConcatProperties
    <3>2. all \in Seq(Users)
      BY <2>1, <3>1
    <3> QED BY <3>2
  <2>4. /\ Earlier(so_ever[p], n) \in SUBSET FollowRows /\ Earlier(so_ever'[p], n) \in SUBSET FollowRows
        /\ Earlier(so_steady[p], n) \in SUBSET FollowRows /\ Earlier(so_steady'[p], n) \in SUBSET FollowRows
        /\ Earlier(so_ever[p], n) \subseteq Earlier(so_ever'[p], n)
        /\ Earlier(so_steady'[p], n) \subseteq Earlier(so_steady[p], n)
    BY <1>5, <1>6, <2>2 DEF Earlier, FanInv, SocialTypes
  <2>5. NotMore(all, a, Earlier(so_ever[p], n)) /\ NotLess(all, a, Earlier(so_steady[p], n))
    BY <2>1 DEF FanInv, InWork
  <2>6. NotMore(all, a, Earlier(so_ever'[p], n))
    BY <2>3, <2>4, <2>5, NotMoreMonotone
  <2>7. NotLess(all, a, Earlier(so_steady'[p], n))
    BY <2>3, <2>4, <2>5, NotLessMonotone
  <2> QED BY <1>1, <1>3, <2>1, <2>6, <2>7 DEF FanInv, InWork
<1>12. ASSUME NEW q \in Inserted, Rest(q)
       PROVE  NotMore(so_timeline[q], AuthorOf(q), so_ever'[q])
  <2>1. NotMore(so_timeline[q], AuthorOf(q), so_ever[q])
    BY <1>12 DEF FanInv
  <2>2. q \in Posts /\ Len(so_timeline[q]) \in Nat /\ so_ever[q] \in SUBSET FollowRows /\ so_ever'[q] \in SUBSET FollowRows
    BY <1>3, <1>5 DEF FanInv, SocialTypes
  <2> QED BY <1>6, <2>1, <2>2, NotMoreMonotone
<1>13. ASSUME NEW q \in so_fanned
       PROVE  NotLess(so_timeline[q], AuthorOf(q), so_steady'[q])
  <2>1. NotLess(so_timeline[q], AuthorOf(q), so_steady[q]) /\ q \in Inserted
    BY <1>13 DEF FanInv, PlacesApart
  <2>2. q \in Posts /\ Len(so_timeline[q]) \in Nat /\ so_steady[q] \in SUBSET FollowRows /\ so_steady'[q] \in SUBSET FollowRows
    BY <1>3, <1>5, <2>1 DEF FanInv, SocialTypes
  <2> QED BY <1>6, <2>1, <2>2, NotLessMonotone
<1>14. \A q \in Inserted' : Rest(q)' => NotMore(so_timeline[q], AuthorOf(q), so_ever[q])'
  BY <1>1, <1>3, <1>12 DEF NotMore
<1>15. \A q \in so_fanned' : NotLess(so_timeline[q], AuthorOf(q), so_steady[q])'
  BY <1>1, <1>3, <1>13 DEF NotLess
<1> QED BY <1>1, <1>7, <1>8, <1>10, <1>11, <1>14, <1>15 DEF FanInv

LEMMA FanTakeInv ==
    ASSUME FanInv, FanTake
    PROVE  FanInv'
<1>1. PICK j : j = Head(so_queue)
  OBVIOUS
<1>2. /\ so_worker = NoTask /\ so_queue # <<>> /\ so_worker' = [job |-> j, next |-> 1, owners |-> <<>>]
      /\ so_queue' = Tail(so_queue)
      /\ UNCHANGED <<so_rows, so_writer, so_count, so_follow, so_timeline, so_dropped, so_offered, so_fanned, so_steady, so_ever>>
  BY <1>1 DEF FanTake, history_vars
<1>3. so_queue \in Seq(JobsOfPosts) /\ Len(so_queue) \in Nat /\ 1 \in 1 .. Len(so_queue) /\ j = so_queue[1]
  BY <1>1, <1>2 DEF FanInv, SocialTypes
<1>4. /\ so_queue' \in Seq(JobsOfPosts) /\ Len(so_queue') = Len(so_queue) - 1 /\ j \in JobsOfPosts
      /\ \A k \in 1 .. Len(so_queue') : so_queue'[k] = so_queue[k + 1]
  BY <1>2, <1>3
<1>5. so_worker' \in [job : JobsOfPosts, next : Nat, owners : Seq(Users)] /\ so_worker' # NoTask
  <2>1. so_worker' \in [job : JobsOfPosts, next : Nat, owners : Seq(Users)]
    BY <1>2, <1>4
  <2> QED BY <2>1, SocialAssumption DEF JobsOfPosts, Users
<1>6. Waiting(j.post, j.author) /\ \A k \in 2 .. Len(so_queue) : so_queue[k].post # j.post
  BY <1>3 DEF FanInv, PlacesApart
<1>7. \A w \in Posters : so_writer[w] # NoTask => so_writer[w].post # j.post
  BY <1>3 DEF FanInv, PlacesApart
<1>8. Inserted' = Inserted /\ Inserted \subseteq Posts /\ \A q : AuthorOf(q)' = AuthorOf(q)
  BY <1>2 DEF Inserted, AuthorOf, FanInv, SocialTypes
<1>9. SocialTypes'
  BY <1>2, <1>4, <1>5, <1>8 DEF FanInv, SocialTypes
<1>10. FollowsKnown'
  BY <1>2, <1>8 DEF FanInv, FollowsKnown
<1>11. \A q, c : Waiting(q, c) /\ q # j.post => Waiting(q, c)'
  BY <1>2, <1>8 DEF Waiting
<1>12. \A k \in 1 .. Len(so_queue') : k + 1 \in 2 .. Len(so_queue) /\ k + 1 \in 1 .. Len(so_queue)
  BY <1>3, <1>4
<1>13. PlacesApart'
  <2>1. \A w \in Posters : so_writer'[w] # NoTask =>
         /\ Waiting(so_writer[w].post, so_writer[w].author)'
         /\ \A k \in 1 .. Len(so_queue') : so_queue'[k].post # so_writer'[w].post
         /\ \A v \in Posters \ {w} : so_writer'[v] # NoTask => so_writer'[v].post # so_writer'[w].post
    BY <1>2, <1>4, <1>7, <1>11, <1>12 DEF FanInv, PlacesApart
  <2>2. ASSUME NEW k \in 1 .. Len(so_queue')
        PROVE  /\ Waiting(so_queue[k].post, so_queue[k].author)'
               /\ \A i \in 1 .. Len(so_queue') : i # k => so_queue'[i].post # so_queue'[k].post
    <3>1. PICK m : m = k + 1 /\ m \in 2 .. Len(so_queue) /\ m \in 1 .. Len(so_queue) /\ so_queue'[k] = so_queue[m]
      BY <1>4, <1>12
    <3>2. Waiting(so_queue[m].post, so_queue[m].author) /\ so_queue[m].post # j.post
          /\ \A i \in 1 .. Len(so_queue) : i # m => so_queue[i].post # so_queue[m].post
      BY <1>6, <3>1 DEF FanInv, PlacesApart
    <3>3. Waiting(so_queue[k].post, so_queue[k].author)'
      BY <1>11, <3>1, <3>2
    <3>4. ASSUME NEW i \in 1 .. Len(so_queue'), i # k PROVE so_queue'[i].post # so_queue'[k].post
      <4>1. i + 1 \in 1 .. Len(so_queue) /\ i + 1 # m /\ so_queue'[i] = so_queue[i + 1]
        BY <1>3, <1>4, <1>12, <3>1, <3>4
      <4> QED BY <3>1, <3>2, <4>1
    <3> QED BY <3>3, <3>4
  <2>3. (\A q \in Posts : q > so_count'.posts => so_timeline'[q] = <<>>) /\ so_fanned' \subseteq Inserted'
    BY <1>2, <1>8 DEF FanInv, PlacesApart
  <2> QED BY <2>1, <2>2, <2>3 DEF PlacesApart
<1>14. InWork'
  <2>1. PICK p, a : p = j.post /\ a = j.author
    OBVIOUS
  <2>2. so_worker'.job = j /\ so_worker'.next = 1 /\ so_worker'.owners = <<>>
    BY <1>2
  <2>3. p \in Inserted /\ a = AuthorOf(p) /\ so_timeline[p] = <<>> /\ p \notin so_fanned /\ p \in Posts
    BY <1>6, <1>8, <2>1 DEF Waiting
  <2>4. so_timeline'[p] \o so_worker'.owners = <<>>
    BY <1>2, <2>2, <2>3
  <2>5. Earlier(so_ever'[p], 1) = {} /\ Earlier(so_steady'[p], 1) = {}
    <3>1. \A R \in SUBSET FollowRows : \A x \in R : ~(x[1] < 1)
      <4>1. \A t \in FollowTables : t \in Nat /\ ~(t < 1)
        BY TablesCounted
      <4> QED BY <4>1 DEF FollowRows
    <3> QED BY <1>2, <2>3, <3>1 DEF Earlier, FanInv, SocialTypes
  <2>6. NotMore(<<>>, a, Earlier(so_ever'[p], 1))
    BY <2>5, EmptyNotMore
  <2>7. NotLess(<<>>, a, Earlier(so_steady'[p], 1))
    <3>1. \A u : Seats(<<>>, u) = {}
      BY DEF Seats
    <3>2. \A u : EdgeRows(a, u, {}) = {}
      BY DEF EdgeRows
    <3>3. Cardinality({}) = 0
      BY FS_EmptySet
    <3>4. \A u : Cardinality(EdgeRows(a, u, {})) <= Cardinality(Seats(<<>>, u))
      BY <3>1, <3>2, <3>3
    <3> QED BY <2>5, <3>4 DEF NotLess
  <2>8. \A m \in Nat : 1 \in 1 .. m + 1
    OBVIOUS
  <2>9. so_timeline'[p] = <<>> /\ p \in Inserted' /\ a = AuthorOf(p)' /\ p \notin so_fanned'
    BY <1>2, <1>8, <2>3
  <2> QED BY <2>1, <2>2, <2>4, <2>6, <2>7, <2>8, <2>9 DEF InWork
<1>15. \A q \in so_offered' :
         q \in so_dropped' \cup so_fanned' \cup {so_queue'[k].post : k \in 1 .. Len(so_queue')}
               \cup (IF so_worker' = NoTask THEN {} ELSE {so_worker'.job.post})
  <2>1. so_worker'.job.post = j.post
    BY <1>2
  <2>2. ASSUME NEW k \in 1 .. Len(so_queue)
        PROVE  so_queue[k].post \in {so_queue'[i].post : i \in 1 .. Len(so_queue')} \cup {j.post}
    <3>1. CASE k = 1
      BY <1>3, <3>1
    <3>2. CASE k # 1
      <4>1. k - 1 \in 1 .. Len(so_queue') /\ (k - 1) + 1 = k
        BY <1>3, <1>4, <3>2
      <4>2. so_queue'[k - 1] = so_queue[k]
        BY <1>4, <4>1
      <4> QED BY <4>1, <4>2
    <3> QED BY <3>1, <3>2
  <2> QED BY <1>2, <1>5, <2>1, <2>2 DEF FanInv
<1>16. \A q \in Inserted' : Rest(q)' => NotMore(so_timeline[q], AuthorOf(q), so_ever[q])'
  BY <1>2, <1>8 DEF FanInv, Rest, NotMore
<1>17. \A q \in so_fanned' : NotLess(so_timeline[q], AuthorOf(q), so_steady[q])'
  BY <1>2, <1>8 DEF FanInv, NotLess
<1> QED BY <1>9, <1>10, <1>13, <1>14, <1>15, <1>16, <1>17 DEF FanInv

\* Steps of the worker that leave its job, the queue and the tables alone.
LEMMA WorkerStepInv ==
    ASSUME FanInv, so_worker # NoTask, so_worker' # NoTask, so_worker'.job = so_worker.job,
           so_worker' \in [job : JobsOfPosts, next : Nat, owners : Seq(Users)],
           so_timeline' \in [Posts -> Seq(Users)],
           \A q \in Posts : q # so_worker.job.post => so_timeline'[q] = so_timeline[q],
           UNCHANGED <<so_rows, so_writer, so_queue, so_count, so_follow, so_dropped, so_offered, so_fanned, so_steady, so_ever>>,
           InWork'
    PROVE  FanInv'
<1>1. Inserted' = Inserted /\ Inserted \subseteq Posts /\ \A q : AuthorOf(q)' = AuthorOf(q) /\ (Rest(q)' <=> Rest(q))
  BY DEF Inserted, AuthorOf, Rest, FanInv, SocialTypes
<1>2. SocialTypes'
  BY <1>1 DEF FanInv, SocialTypes
<1>3. FollowsKnown'
  BY <1>1 DEF FanInv, FollowsKnown
<1>4. \A q, c : Waiting(q, c) => Waiting(q, c)'
  BY <1>1 DEF Waiting
<1>5. so_worker.job.post \in Inserted /\ so_worker.job.post \notin so_fanned
  BY DEF FanInv, InWork
<1>6. PlacesApart'
  <2>1. \A q \in Posts : q > so_count.posts => q # so_worker.job.post
    BY <1>1, <1>5, SocialAssumption DEF Inserted, FanInv, SocialTypes
  <2> QED BY <1>1, <1>4, <2>1 DEF FanInv, PlacesApart
<1>7. \A q \in Inserted' : Rest(q)' => NotMore(so_timeline[q], AuthorOf(q), so_ever[q])'
  BY <1>1 DEF FanInv, Rest, NotMore
<1>8. \A q \in so_fanned' : NotLess(so_timeline[q], AuthorOf(q), so_steady[q])'
  BY <1>1, <1>5 DEF FanInv, NotLess, PlacesApart
<1> QED BY <1>2, <1>3, <1>6, <1>7, <1>8 DEF FanInv

LEMMA FanScanInv ==
    ASSUME FanInv, FanScan
    PROVE  FanInv'
<1>1. PICK p, a, t, o, F : /\ p = so_worker.job.post /\ a = so_worker.job.author /\ t = so_worker.next
                           /\ o = so_worker.owners /\ F = so_follow[t]
  OBVIOUS
<1>2. PICK S : S = {f.from : f \in {g \in F : g.to = a}}
  OBVIOUS
<1>3. /\ so_worker # NoTask /\ t \in FollowTables
      /\ UNCHANGED <<so_rows, so_writer, so_queue, so_count, so_follow, so_timeline, so_dropped, so_offered, so_fanned, so_steady, so_ever>>
  BY <1>1 DEF FanScan, history_vars
<1>4. PICK s \in SetToSeqs(S) : so_worker' = [so_worker EXCEPT !.next = @ + 1, !.owners = Collected(@, s)]
  BY <1>1, <1>2 DEF FanScan
<1>5. so_worker \in [job : JobsOfPosts, next : Nat, owners : Seq(Users)]
  BY <1>3 DEF FanInv, SocialTypes
<1>6. so_worker'.job = so_worker.job /\ so_worker'.next = t + 1 /\ so_worker'.owners = Collected(o, s)
      /\ so_worker' = [job |-> so_worker.job, next |-> t + 1, owners |-> Collected(o, s)]
  BY <1>1, <1>4, <1>5
<1>7. p \in Inserted /\ p \in Posts /\ a = AuthorOf(p) /\ p \notin so_fanned
  <2>1. p \in Inserted /\ a = AuthorOf(p) /\ p \notin so_fanned
    BY <1>1, <1>3 DEF FanInv, InWork
  <2> QED BY <2>1 DEF FanInv, SocialTypes
<1>8. t \in Nat /\ ~(t < t)
  BY <1>1, <1>5
<1>9. so_timeline[p] = <<>>
  BY <1>1, <1>3, <1>8 DEF FanInv, InWork
<1>10. o \in Seq(Users) /\ so_timeline[p] \o o = o
  BY <1>1, <1>5, <1>9
<1>11. NotMore(o, a, Earlier(so_ever[p], t)) /\ NotLess(o, a, Earlier(so_steady[p], t))
  BY <1>1, <1>3, <1>10 DEF FanInv, InWork
<1>12. F \in SUBSET Followings /\ so_ever[p] \in SUBSET FollowRows /\ so_steady[p] \in SUBSET FollowRows
  BY <1>1, <1>3, <1>7 DEF FanInv, SocialTypes
<1>13. (\A f \in F : <<t, f>> \in so_ever[p]) /\ (\A f : <<t, f>> \in so_steady[p] => f \in F)
  <2>1. \A f : <<t, f>> \in so_steady[p] => f \in Followings
    BY <1>12 DEF FollowRows
  <2> QED BY <1>1, <1>3, <1>7, <1>12, <2>1 DEF FanInv, FollowsKnown
<1>14. PICK c : c = Collected(o, s)
  OBVIOUS
<1>15. c \in Seq(Users) /\ NotMore(c, a, Earlier(so_ever[p], t + 1)) /\ NotLess(c, a, Earlier(so_steady[p], t + 1))
  BY <1>2, <1>3, <1>10, <1>11, <1>12, <1>13, <1>14, TableScanned
<1>16. so_worker' \in [job : JobsOfPosts, next : Nat, owners : Seq(Users)] /\ so_worker' # NoTask
  <2>1. so_worker.job \in JobsOfPosts /\ t + 1 \in Nat
    BY <1>5, <1>8
  <2>2. so_worker' \in [job : JobsOfPosts, next : Nat, owners : Seq(Users)]
    BY <1>6, <1>14, <1>15, <2>1
  <2> QED BY <2>2, SocialAssumption DEF JobsOfPosts, Users
<1>17. InWork'
  <2>1. so_timeline'[p] \o so_worker'.owners = c
    BY <1>3, <1>6, <1>9, <1>14, <1>15
  <2>2. Inserted' = Inserted /\ AuthorOf(p)' = AuthorOf(p)
    BY <1>3 DEF Inserted, AuthorOf
  <2>3. \A m \in Nat : FollowTables = 1 .. m => t + 1 \in 1 .. m + 1
    BY <1>3
  <2>4. so_worker'.job.post = p /\ so_worker'.job.author = a
    BY <1>1, <1>6
  <2> QED BY <1>3, <1>6, <1>7, <1>9, <1>15, <2>1, <2>2, <2>3, <2>4 DEF InWork
<1>18. so_timeline' \in [Posts -> Seq(Users)] /\ \A q \in Posts : q # so_worker.job.post => so_timeline'[q] = so_timeline[q]
  BY <1>3 DEF FanInv, SocialTypes
<1> QED BY <1>3, <1>6, <1>16, <1>17, <1>18, WorkerStepInv

LEMMA FanInsertInv ==
    ASSUME FanInv, FanInsert
    PROVE  FanInv'
<1>1. PICK p, a, t, o, old : /\ p = so_worker.job.post /\ a = so_worker.job.author /\ t = so_worker.next
                             /\ o = so_worker.owners /\ old = so_timeline[p]
  OBVIOUS
<1>2. /\ so_worker # NoTask /\ t \notin FollowTables /\ o # <<>>
      /\ so_timeline' = [so_timeline EXCEPT ![p] = Append(@, Head(o))]
      /\ so_worker' = [so_worker EXCEPT !.owners = Tail(@)]
      /\ UNCHANGED <<so_rows, so_writer, so_queue, so_count, so_follow, so_dropped, so_offered, so_fanned, so_steady, so_ever>>
  BY <1>1 DEF FanInsert, Scanned, history_vars
<1>3. so_worker \in [job : JobsOfPosts, next : Nat, owners : Seq(Users)]
  BY <1>2 DEF FanInv, SocialTypes
<1>4. so_worker' = [job |-> so_worker.job, next |-> t, owners |-> Tail(o)]
  BY <1>1, <1>2, <1>3
<1>5. p \in Inserted /\ p \in Posts /\ a = AuthorOf(p) /\ p \notin so_fanned /\ old \in Seq(Users) /\ o \in Seq(Users)
  <2>1. p \in Inserted /\ a = AuthorOf(p) /\ p \notin so_fanned
    BY <1>1, <1>2 DEF FanInv, InWork
  <2>2. p \in Posts
    BY <2>1 DEF FanInv, SocialTypes
  <2> QED BY <1>1, <1>3, <2>1, <2>2 DEF FanInv, SocialTypes
<1>6. Head(o) \in Users /\ Tail(o) \in Seq(Users) /\ Append(old, Head(o)) \in Seq(Users)
  <2>1. Head(o) \in Users /\ Tail(o) \in Seq(Users)
    BY <1>2, <1>5
  <2> QED BY <1>5, <2>1, AppendProperties
<1>7. so_timeline'[p] = Append(old, Head(o)) /\ so_timeline' \in [Posts -> Seq(Users)]
      /\ \A q \in Posts : q # p => so_timeline'[q] = so_timeline[q]
  BY <1>1, <1>2, <1>5, <1>6 DEF FanInv, SocialTypes
<1>8. Append(old, Head(o)) \o Tail(o) = old \o o
  <2>1. /\ Len(Append(old, Head(o))) = Len(old) + 1 /\ Len(old) \in Nat /\ Len(o) \in Nat /\ Len(o) > 0
        /\ Len(Tail(o)) = Len(o) - 1
        /\ Len(old \o o) = Len(old) + Len(o)
    BY <1>2, <1>5
  <2>2. PICK x, y : x = Append(old, Head(o)) \o Tail(o) /\ y = old \o o
    OBVIOUS
  <2>3. x \in Seq(Users) /\ y \in Seq(Users)
    BY <1>5, <1>6, <2>2, ConcatProperties
  <2>4. Len(x) = Len(old) + Len(o) /\ Len(y) = Len(old) + Len(o)
    BY <1>5, <1>6, <2>1, <2>2, ConcatProperties
  <2>5. ASSUME NEW k \in 1 .. Len(old) + Len(o) PROVE x[k] = y[k]
    <3>1. CASE k <= Len(old)
      BY <1>5, <1>6, <2>1, <2>2, <3>1
    <3>2. CASE k = Len(old) + 1
      <4>1. x[k] = Head(o)
        BY <1>5, <1>6, <2>1, <2>2, <3>2
      <4>2. y[k] = o[1]
        BY <1>5, <2>1, <2>2, <3>2
      <4> QED BY <1>2, <1>5, <4>1, <4>2
    <3>3. CASE k > Len(old) + 1
      <4>1. x[k] = Tail(o)[k - (Len(old) + 1)]
        BY <1>5, <1>6, <2>1, <2>2, <3>3
      <4>2. y[k] = o[k - Len(old)]
        BY <1>5, <2>1, <2>2, <3>3
      <4>3. k - (Len(old) + 1) \in 1 .. Len(Tail(o)) /\ (k - (Len(old) + 1)) + 1 = k - Len(old)
        BY <2>1, <3>3
      <4>4. \A i \in 1 .. Len(Tail(o)) : Tail(o)[i] = o[i + 1]
        BY <1>2, <1>5
      <4> QED BY <4>1, <4>2, <4>3, <4>4
    <3> QED BY <2>1, <3>1, <3>2, <3>3
  <2>6. x = y
    BY <2>3, <2>4, <2>5, SeqEqual
  <2> QED BY <2>2, <2>6
<1>9. so_worker' \in [job : JobsOfPosts, next : Nat, owners : Seq(Users)] /\ so_worker' # NoTask
  <2>1. so_worker' \in [job : JobsOfPosts, next : Nat, owners : Seq(Users)]
    BY <1>1, <1>3, <1>4, <1>6
  <2> QED BY <2>1, SocialAssumption DEF JobsOfPosts, Users
<1>10. so_worker'.job = so_worker.job /\ so_worker'.next = t /\ so_worker'.owners = Tail(o)
  BY <1>4
<1>11. InWork'
  <2>1. so_timeline'[p] \o so_worker'.owners = so_timeline[p] \o so_worker.owners
    BY <1>1, <1>7, <1>8, <1>10
  <2>2. Inserted' = Inserted /\ AuthorOf(p)' = AuthorOf(p)
    BY <1>2 DEF Inserted, AuthorOf
  <2>3. PICK n \in Nat : FollowTables = 1 .. n
    BY TablesCounted
  <2>4. t \in 1 .. n + 1
    BY <1>1, <1>2, <2>3 DEF FanInv, InWork
  <2>5. \A x \in FollowTables : x < t
    BY <1>2, <2>3, <2>4
  <2>6. so_worker'.job.post = p /\ so_worker'.job.author = a /\ so_worker'.next = t
    BY <1>1, <1>10
  <2>7. NotMore(so_timeline[p] \o so_worker.owners, a, Earlier(so_ever[p], t))
        /\ NotLess(so_timeline[p] \o so_worker.owners, a, Earlier(so_steady[p], t))
    BY <1>1, <1>2 DEF FanInv, InWork
  <2>8. \A m \in Nat : FollowTables = 1 .. m => t \in 1 .. m + 1
    BY <1>1, <1>2 DEF FanInv, InWork
  <2> QED BY <1>2, <1>5, <2>1, <2>2, <2>5, <2>6, <2>7, <2>8 DEF InWork
<1> QED BY <1>1, <1>2, <1>7, <1>9, <1>10, <1>11, WorkerStepInv

LEMMA FanDoneInv ==
    ASSUME FanInv, FanDone
    PROVE  FanInv'
<1>1. PICK p, a, t : p = so_worker.job.post /\ a = so_worker.job.author /\ t = so_worker.next
  OBVIOUS
<1>2. /\ so_worker # NoTask /\ t \notin FollowTables /\ so_worker.owners = <<>>
      /\ so_fanned' = so_fanned \cup {p} /\ so_worker' = NoTask
      /\ UNCHANGED <<so_rows, so_writer, so_queue, so_count, so_follow, so_timeline, so_dropped, so_offered, so_steady, so_ever>>
  BY <1>1 DEF FanDone, Scanned
<1>3. p \in Inserted /\ a = AuthorOf(p)
      /\ NotLess(so_timeline[p] \o so_worker.owners, a, Earlier(so_steady[p], t))
  BY <1>1, <1>2 DEF FanInv, InWork
<1>4. p \in Posts /\ so_timeline[p] \in Seq(Users) /\ so_steady[p] \in SUBSET FollowRows
  BY <1>3 DEF FanInv, SocialTypes
<1>5. Earlier(so_steady[p], t) = so_steady[p]
  <2>1. PICK n \in Nat : FollowTables = 1 .. n
    BY TablesCounted
  <2>2. t \in 1 .. n + 1
    BY <1>1, <1>2, <2>1 DEF FanInv, InWork
  <2>3. \A x \in FollowTables : x < t
    BY <1>2, <2>1, <2>2
  <2>4. \A x \in so_steady[p] : x[1] \in FollowTables
    BY <1>4 DEF FollowRows
  <2> QED BY <2>3, <2>4 DEF Earlier
<1>6. NotLess(so_timeline[p], AuthorOf(p), so_steady[p])
  <2>1. so_timeline[p] \o <<>> = so_timeline[p]
    BY <1>4
  <2> QED BY <1>2, <1>3, <1>5, <2>1
<1>7. \A q \in Inserted : NotMore(so_timeline[q], AuthorOf(q), so_ever[q])
  BY InWorkNotMore
<1>8. Inserted' = Inserted /\ \A q : AuthorOf(q)' = AuthorOf(q)
  BY <1>2 DEF Inserted, AuthorOf
<1>9. SocialTypes' /\ FollowsKnown' /\ InWork'
  BY <1>2, <1>8 DEF FanInv, SocialTypes, FollowsKnown, InWork
<1>10. \A q, c : Waiting(q, c) => Waiting(q, c)'
  BY <1>1, <1>2, <1>8 DEF Waiting
<1>11. PlacesApart'
  BY <1>2, <1>3, <1>8, <1>10 DEF FanInv, PlacesApart
<1>12. \A q \in Inserted' : Rest(q)' => NotMore(so_timeline[q], AuthorOf(q), so_ever[q])'
  BY <1>2, <1>7, <1>8 DEF NotMore
<1>13. \A q \in so_fanned' : NotLess(so_timeline[q], AuthorOf(q), so_steady[q])'
  BY <1>2, <1>6, <1>8 DEF FanInv, NotLess
<1>14. \A q \in so_offered' :
         q \in so_dropped' \cup so_fanned' \cup {so_queue'[k].post : k \in 1 .. Len(so_queue')}
               \cup (IF so_worker' = NoTask THEN {} ELSE {so_worker'.job.post})
  BY <1>1, <1>2 DEF FanInv
<1> QED BY <1>9, <1>11, <1>12, <1>13, <1>14 DEF FanInv

LEMMA RestartInv ==
    ASSUME FanInv, Restart
    PROVE  FanInv'
<1>1. PICK keep : so_rows' = [p \in Posts |-> IF so_rows[p] = NoPost THEN NoPost
                                               ELSE [so_rows[p] EXCEPT !.live = p \in keep]]
  BY DEF Restart
<1>2. /\ so_writer' = [w \in Posters |-> NoTask] /\ so_queue' = <<>> /\ so_worker' = NoTask
      /\ so_count' = [so_count EXCEPT !.restarts = @ + 1, !.first = so_count.posts]
      /\ so_offered' = {} /\ so_fanned' = {}
      /\ UNCHANGED <<so_follow, so_timeline, so_steady, so_ever>>
  BY DEF Restart
<1>3. /\ so_count'.posts = so_count.posts
      /\ so_count' = [posts |-> so_count'.posts, follows |-> so_count'.follows, deletes |-> so_count'.deletes,
                      restarts |-> so_count'.restarts, first |-> so_count'.first]
  BY <1>2 DEF FanInv, SocialTypes
<1>4. Inserted' = Inserted /\ Inserted \subseteq Posts
  BY <1>3 DEF Inserted, FanInv, SocialTypes
<1>5. \A q \in Inserted : AuthorOf(q)' = AuthorOf(q)
  BY <1>1, <1>4 DEF AuthorOf, FanInv, SocialTypes
<1>6. so_queue' \in Seq(JobsOfPosts) /\ Len(so_queue') = 0 /\ 1 .. Len(so_queue') = {}
  BY <1>2
<1>7. SocialTypes'
  <2>1. ASSUME NEW q \in Posts, so_rows'[q] # NoPost PROVE IsPost(so_rows'[q])
    <3>1. so_rows[q] # NoPost /\ so_rows'[q] = [so_rows[q] EXCEPT !.live = q \in keep]
      BY <1>1, <2>1
    <3>2. IsPost(so_rows[q])
      BY <3>1 DEF FanInv, SocialTypes
    <3> QED BY <3>1, <3>2 DEF IsPost
  <2>2. so_rows' = [q \in Posts |-> so_rows'[q]]
    BY <1>1
  <2> QED BY <1>2, <1>3, <1>4, <1>6, <2>1, <2>2 DEF FanInv, SocialTypes
<1>8. FollowsKnown' /\ InWork'
  BY <1>2, <1>4 DEF FanInv, FollowsKnown, InWork
<1>9. PlacesApart'
  BY <1>2, <1>3, <1>6 DEF FanInv, PlacesApart
<1>10. \A q \in Inserted : NotMore(so_timeline[q], AuthorOf(q), so_ever[q])
  BY InWorkNotMore
<1>11. \A q \in Inserted' : Rest(q)' => NotMore(so_timeline[q], AuthorOf(q), so_ever[q])'
  BY <1>2, <1>4, <1>5, <1>10 DEF NotMore
<1> QED BY <1>2, <1>7, <1>8, <1>9, <1>11 DEF FanInv

LEMMA FanStep == FanInv /\ [SocialNext]_social_vars => FanInv'
<1> SUFFICES ASSUME FanInv, [SocialNext]_social_vars PROVE FanInv'
  OBVIOUS
<1>t. /\ so_rows = [p \in Posts |-> so_rows[p]] /\ so_writer = [w \in Posters |-> so_writer[w]]
      /\ so_count = [posts |-> so_count.posts, follows |-> so_count.follows, deletes |-> so_count.deletes,
                     restarts |-> so_count.restarts, first |-> so_count.first]
      /\ \A p \in Posts : so_rows[p] # NoPost => IsPost(so_rows[p])
      /\ \A w \in Posters : so_writer[w] # NoTask => IsTask(so_writer[w])
  BY DEF FanInv, SocialTypes
<1>1. ASSUME NEW w \in Posters, FindDeque(w) \/ ListDeque(w) \/ PushPosting(w) PROVE FanInv'
  <2>1. UNCHANGED <<so_rows, so_count, so_queue, so_worker, so_follow, so_timeline, so_dropped, so_offered, so_fanned, so_steady, so_ever>>
    BY <1>1 DEF FindDeque, ListDeque, PushPosting, history_vars
  <2>2. PICK x : IsTask(so_writer[w]) /\ so_writer[w] # NoTask /\ so_writer' = [so_writer EXCEPT ![w] = x]
                 /\ IsTask(x) /\ x.post = so_writer[w].post /\ x.author = so_writer[w].author
    <3>1. so_writer[w] # NoTask /\ IsTask(so_writer[w])
      BY <1>1, <1>t DEF FindDeque, ListDeque, PushPosting, AtTerm
    <3>2. \/ \E d : so_writer' = [so_writer EXCEPT ![w].deque = d]
          \/ so_writer' = [so_writer EXCEPT ![w].terms = Tail(@), ![w].deque = "unknown"]
      BY <1>1 DEF FindDeque, ListDeque, PushPosting
    <3>3. CASE \E d : so_writer' = [so_writer EXCEPT ![w].deque = d]
      <4>1. PICK d : so_writer' = [so_writer EXCEPT ![w].deque = d]
        BY <3>3
      <4>2. so_writer' = [so_writer EXCEPT ![w] = [so_writer[w] EXCEPT !.deque = d]]
        BY <4>1
      <4>3. PICK x : x = [so_writer[w] EXCEPT !.deque = d]
        OBVIOUS
      <4>4. IsTask(x) /\ x.post = so_writer[w].post /\ x.author = so_writer[w].author
        BY <3>1, <4>3 DEF IsTask
      <4> QED BY <3>1, <4>2, <4>3, <4>4
    <3>4. CASE so_writer' = [so_writer EXCEPT ![w].terms = Tail(@), ![w].deque = "unknown"]
      <4>1. so_writer' = [so_writer EXCEPT ![w] = [so_writer[w] EXCEPT !.terms = Tail(@), !.deque = "unknown"]]
        BY <1>t, <3>4
      <4>2. PICK x : x = [so_writer[w] EXCEPT !.terms = Tail(@), !.deque = "unknown"]
        OBVIOUS
      <4>3. IsTask(x) /\ x.post = so_writer[w].post /\ x.author = so_writer[w].author
        BY <3>1, <4>2 DEF IsTask
      <4> QED BY <3>1, <4>1, <4>2, <4>3
    <3> QED BY <3>2, <3>3, <3>4
  <2>3. so_writer' = [v \in Posters |-> so_writer'[v]]
    BY <1>t, <2>2
  <2>4. \A v \in Posters : so_writer'[v] # NoTask =>
                /\ so_writer[v] # NoTask /\ IsTask(so_writer'[v])
                /\ so_writer'[v].post = so_writer[v].post /\ so_writer'[v].author = so_writer[v].author
    BY <1>t, <2>2
  <2> QED BY <1>t, <2>1, <2>3, <2>4, IndexStepInv
<1>2. ASSUME NEW p \in Posts, DeletePost(p) PROVE FanInv'
  <2>1. /\ so_rows[p] # NoPost /\ so_rows' = [so_rows EXCEPT ![p].live = FALSE]
        /\ so_count' = [so_count EXCEPT !.deletes = @ + 1]
        /\ UNCHANGED <<so_writer, so_queue, so_worker, so_follow, so_timeline, so_dropped, so_offered, so_fanned, so_steady, so_ever>>
    BY <1>2 DEF DeletePost, LivePosts, history_vars
  <2>2. so_count'.posts = so_count.posts
        /\ so_count' = [posts |-> so_count'.posts, follows |-> so_count'.follows, deletes |-> so_count'.deletes,
                        restarts |-> so_count'.restarts, first |-> so_count'.first]
    BY <1>t, <2>1
  <2>3. IsPost(so_rows[p]) /\ so_rows' = [so_rows EXCEPT ![p] = [so_rows[p] EXCEPT !.live = FALSE]]
    BY <1>t, <1>2, <2>1
  <2>0. PICK x : x = [so_rows[p] EXCEPT !.live = FALSE]
    OBVIOUS
  <2>4. x = [so_rows[p] EXCEPT !.live = FALSE] /\ IsPost(x) /\ x.author = so_rows[p].author
    BY <2>0, <2>3 DEF IsPost
  <2>5. /\ so_rows' = [q \in Posts |-> so_rows'[q]] /\ so_rows'[p] = x
        /\ \A q \in Posts \ {p} : so_rows'[q] = so_rows[q]
    BY <1>t, <2>3, <2>4
  <2>6. \A q \in Posts : (so_rows'[q] # NoPost => IsPost(so_rows'[q])) /\ so_rows'[q].author = so_rows[q].author
    BY <1>t, <2>4, <2>5
  <2>7. so_writer' = [v \in Posters |-> so_writer'[v]] /\ so_writer' = so_writer
    BY <1>t, <2>1
  <2> QED BY <1>t, <2>1, <2>2, <2>5, <2>6, <2>7, IndexStepInv
<1>3. CASE UNCHANGED <<so_rows, so_count, so_writer, so_queue, so_worker, so_follow, so_timeline, so_dropped, so_offered, so_fanned, so_steady, so_ever>>
  BY <1>t, <1>3, IndexStepInv
<1>4. CASE PostNext
  BY <1>1, <1>4, InsertPostInv, FinishPostInv DEF PostNext
<1>5. CASE FollowNext
  BY <1>5, ChangeFollowInv DEF FollowNext
<1>6. CASE install_fanout \/ UNCHANGED social_vars
  BY <1>3, <1>6 DEF install_fanout, social_vars, history_vars
<1>7. CASE FanNext
  BY <1>7, FanTakeInv, FanScanInv, FanInsertInv, FanDoneInv DEF FanNext
<1> QED BY <1>2, <1>4, <1>5, <1>6, <1>7, RestartInv DEF SocialNext

LEMMA FanInvImplies == FanInv => FanoutComplete
<1> SUFFICES ASSUME FanInv PROVE FanoutComplete
  OBVIOUS
<1>1. DOMAIN so_queue = 1 .. Len(so_queue)
  BY DEF FanInv, SocialTypes
<1>2. ASSUME NEW p \in 1 .. so_count.posts
      PROVE  LET has(u) == Cardinality({k \in DOMAIN so_timeline[p] : so_timeline[p][k] = u})
                 total == Len(so_timeline[p])
             IN  /\ total <= FANOUT_PER_POST_CAP
                 /\ \A u \in Users : has(u) <= Cardinality(RowsOf(p, u, so_ever[p]))
                 /\ p \in so_fanned /\ total < FANOUT_PER_POST_CAP =>
                      \A u \in Users : Cardinality(RowsOf(p, u, so_steady[p])) <= has(u)
  <2>1. p \in Inserted /\ p \in Posts /\ so_timeline[p] \in Seq(Users)
    BY DEF Inserted, FanInv, SocialTypes
  <2>2. \A u : {k \in DOMAIN so_timeline[p] : so_timeline[p][k] = u} = Seats(so_timeline[p], u)
    BY <2>1 DEF Seats
  <2>3. \A u, R : RowsOf(p, u, R) = EdgeRows(AuthorOf(p), u, R)
    BY DEF RowsOf, EdgeRows, AuthorOf
  <2>4. NotMore(so_timeline[p], AuthorOf(p), so_ever[p])
    BY <2>1, InWorkNotMore
  <2>5. p \in so_fanned => NotLess(so_timeline[p], AuthorOf(p), so_steady[p])
    BY DEF FanInv
  <2>6. Len(so_timeline[p]) \in Nat /\ FANOUT_PER_POST_CAP \in Nat
    BY <2>1, SocialAssumption
  <2>7. /\ Len(so_timeline[p]) <= FANOUT_PER_POST_CAP
        /\ \A u \in Users : Cardinality(Seats(so_timeline[p], u)) <= Cardinality(RowsOf(p, u, so_ever[p]))
    BY <2>3, <2>4 DEF NotMore
  <2>8. ASSUME p \in so_fanned, Len(so_timeline[p]) < FANOUT_PER_POST_CAP
        PROVE  \A u \in Users : Cardinality(RowsOf(p, u, so_steady[p])) <= Cardinality(Seats(so_timeline[p], u))
    <3>1. Len(so_timeline[p]) # FANOUT_PER_POST_CAP
      BY <2>6, <2>8
    <3> QED BY <2>3, <2>5, <2>8, <3>1 DEF NotLess
  <2> QED BY <2>2, <2>7, <2>8
<1>3. \A p \in so_offered :
         p \in so_dropped \cup so_fanned \cup {so_queue[k].post : k \in DOMAIN so_queue}
               \cup (IF so_worker = NoTask THEN {} ELSE {so_worker.job.post})
  BY <1>1 DEF FanInv
<1> QED BY <1>2, <1>3 DEF FanoutComplete

(* The fan-out is complete: a post handed to the channel is waiting, in    *)
(* work, done or counted as dropped, whatever requests race; it never gets *)
(* more timeline rows than the cap, nobody more than his follows rows      *)
(* account for, and below the cap nobody who followed throughout is left   *)
(* out, however follows tables change under the worker (fanout_enqueue,    *)
(* social.rs: the worker's loop over the follows tables).                  *)
THEOREM FanoutAlwaysComplete == SocialSpec => []FanoutComplete
<1>1. FanInv /\ [SocialNext]_social_vars => FanInv'
  BY FanStep
<1> QED BY FanInit, FanInvImplies, <1>1, PTL DEF SocialSpec

-----------------------------------------------------------------------------
(***************************************************************************)
(* Search: an acknowledged post is found, for any number of requests, posts, *)
(* words and restarts, unless newer posts displace it or a race hides it.  *)
(***************************************************************************)

LEMMA SelectedFacts ==
    ASSUME NEW X, NEW s \in Seq(X), NEW S
    PROVE  FilterOf(Selected(s, S), X, s, S, Len(s))
<1>0. Len(s) \in Nat
  OBVIOUS
<1> DEFINE g == CHOOSE g : IsFilter(g, s, S, Len(s))
<1>1. IsFilter(g, s, S, Len(s))
  BY <1>0, FilterExists, Zenon
<1>2. Selected(s, S) = g[Len(s)]
  BY Zenon DEF Selected, IsFilter, FilterStep
<1> HIDE DEF g
<1> QED BY <1>1, <1>2, FilterValue

----------------------------------------------------------------------------
\* Postings.

\* A sequence of posts in which those that follow a post p are in L[p].
Chain(q, X, L) ==
    /\ q \in Seq(X)
    /\ \A i, j \in 1 .. Len(q) : i < j => q[j] \in L[q[i]]

\* L[p]: the posts whose posting may be newer than that of p.
Newer(L, X) == \A x \in X : x \notin L[x] /\ IsFiniteSet(L[x])

LEMMA CountNewer ==
    ASSUME NEW X, NEW L, Newer(L, X), NEW q, Chain(q, X, L), NEW i \in 1 .. Len(q), NEW n \in Nat, n <= Len(q) - i
    PROVE  Cardinality(L[q[i]]) >= n
<1> DEFINE T == L[q[i]]
           f == [k \in 1 .. n |-> q[i + k]]
<1>1. q \in Seq(X) /\ Len(q) \in Nat /\ q[i] \in X
  BY DEF Chain
<1>2. \A k \in 1 .. n : i + k \in 1 .. Len(q) /\ i < i + k
  BY <1>1
<1>3. \A k \in 1 .. n : f[k] \in T
  BY <1>2 DEF Chain
<1>4. ASSUME NEW k \in 1 .. n, NEW m \in 1 .. n, k < m PROVE f[k] # f[m]
  <2>1. i + k \in 1 .. Len(q) /\ i + m \in 1 .. Len(q) /\ i + k < i + m
    BY <1>2, <1>4
  <2>2. q[i + m] \in L[q[i + k]] /\ q[i + k] \in X
    BY <1>1, <2>1 DEF Chain
  <2> QED BY <2>2 DEF Newer
<1>5. \A k, m \in 1 .. n : k # m => f[k] # f[m]
  <2> SUFFICES ASSUME NEW k \in 1 .. n, NEW m \in 1 .. n, k # m PROVE f[k] # f[m]
    OBVIOUS
  <2>1. k < m \/ m < k
    OBVIOUS
  <2> QED BY <1>4, <2>1
<1>6. f \in Injection(1 .. n, T)
  BY <1>3, <1>5 DEF Injection, IsInjective
<1>7. IsFiniteSet(T)
  BY <1>1 DEF Newer
<1>8. Cardinality(1 .. n) = n
  BY FS_Interval
<1>9. Cardinality(T) \in Nat
  BY <1>7, FS_CardinalityType
<1> HIDE DEF T, f
<1>10. Cardinality(1 .. n) <= Cardinality(T)
  BY <1>6, <1>7, FS_Injection
<1> QED BY <1>8, <1>9, <1>10 DEF T

\* A part of a chain, in its order, is a chain.
LEMMA ChainFiltered ==
    ASSUME NEW X, NEW L, NEW q, Chain(q, X, L), NEW S, NEW r, r = Selected(q, S)
    PROVE  /\ Chain(r, X, L) /\ Len(r) <= Len(q)
           /\ \A j \in 1 .. Len(r) : r[j] \in S /\ \E i \in 1 .. Len(q) : r[j] = q[i]
           /\ \A i \in 1 .. Len(q) : q[i] \in S => \E j \in 1 .. Len(r) : r[j] = q[i]
<1>1. q \in Seq(X) /\ Len(q) \in Nat
  BY DEF Chain
<1>2. FilterOf(r, X, q, S, Len(q))
  BY <1>1, SelectedFacts
<1>3. ASSUME NEW j \in 1 .. Len(r), NEW k \in 1 .. Len(r), j < k PROVE r[k] \in L[r[j]]
  <2>1. PICK x \in 1 .. Len(q), y \in 1 .. Len(q) : x < y /\ r[j] = q[x] /\ r[k] = q[y]
    BY <1>2, <1>3 DEF FilterOf
  <2> QED BY <2>1 DEF Chain
<1> QED BY <1>1, <1>2, <1>3 DEF Chain, FilterOf

\* What refreshing a posting does to the deque.
PostedTo(r, q, p, X, L) ==
    /\ Chain(r, X, L) /\ Len(r) <= POSTING_CAP
    /\ \E j \in 1 .. Len(r) : r[j] = p
    /\ \A i \in 1 .. Len(q) : \/ \E j \in 1 .. Len(r) : r[j] = q[i]
                              \/ Cardinality(L[q[i]]) >= POSTING_CAP

LEMMA PostedFacts ==
    ASSUME NEW X, NEW L, Newer(L, X), NEW q, Chain(q, X, L), Len(q) <= POSTING_CAP,
           NEW p \in X, \A i \in 1 .. Len(q) : q[i] # p => p \in L[q[i]]
    PROVE  PostedTo(Posted(q, p), q, p, X, L)
<1>0. PICK cap \in Nat \ {0} : cap = POSTING_CAP
  BY SocialAssumption
<1>1. PICK s : s = Selected(q, ToSet(q) \ {p})
  OBVIOUS
<1>2. q \in Seq(X) /\ Len(q) \in Nat /\ ToSet(q) = {q[i] : i \in 1 .. Len(q)}
  BY DEF Chain, ToSet
<1>3. /\ Chain(s, X, L) /\ Len(s) <= Len(q)
      /\ \A j \in 1 .. Len(s) : s[j] # p /\ \E i \in 1 .. Len(q) : s[j] = q[i]
      /\ \A i \in 1 .. Len(q) : q[i] # p => \E j \in 1 .. Len(s) : s[j] = q[i]
  <2>1. PICK S : S = ToSet(q) \ {p}
    OBVIOUS
  <2>0. s = Selected(q, S)
    BY <1>1, <2>1
  <2>2. /\ Chain(s, X, L) /\ Len(s) <= Len(q)
        /\ \A j \in 1 .. Len(s) : s[j] \in S /\ \E i \in 1 .. Len(q) : s[j] = q[i]
        /\ \A i \in 1 .. Len(q) : q[i] \in S => \E j \in 1 .. Len(s) : s[j] = q[i]
    BY <2>0, ChainFiltered
  <2>3. \A i \in 1 .. Len(q) : q[i] \in S <=> q[i] # p
    BY <1>2, <2>1
  <2>4. p \notin S
    BY <2>1
  <2> QED BY <2>2, <2>3, <2>4
<1>4. s \in Seq(X) /\ Len(s) \in Nat /\ Len(s) <= cap
  BY <1>0, <1>2, <1>3 DEF Chain
<1>5. PICK r : r = Append(s, p)
  OBVIOUS
<1>6. r \in Seq(X) /\ Len(r) = Len(s) + 1 /\ r[Len(s) + 1] = p /\ \A j \in 1 .. Len(s) : r[j] = s[j]
  BY <1>4, <1>5
<1>7. Chain(r, X, L)
  <2> SUFFICES ASSUME NEW i \in 1 .. Len(r), NEW j \in 1 .. Len(r), i < j PROVE r[j] \in L[r[i]]
    BY <1>6 DEF Chain
  <2>1. i \in 1 .. Len(s) /\ (j \in 1 .. Len(s) \/ j = Len(s) + 1)
    BY <1>4, <1>6
  <2>2. CASE j \in 1 .. Len(s)
    BY <1>3, <1>6, <2>1, <2>2 DEF Chain
  <2>3. CASE j = Len(s) + 1
    BY <1>3, <1>6, <2>1, <2>3
  <2> QED BY <2>1, <2>2, <2>3
<1>8. \A i \in 1 .. Len(q) : \E j \in 1 .. Len(r) : r[j] = q[i]
  <2> TAKE i \in 1 .. Len(q)
  <2>1. CASE q[i] = p
    BY <1>4, <1>6, <2>1
  <2>2. CASE q[i] # p
    <3>1. PICK j \in 1 .. Len(s) : s[j] = q[i]
      BY <1>3, <2>2
    <3>2. j \in 1 .. Len(r)
      BY <1>4, <1>6
    <3> QED BY <1>6, <3>1, <3>2
  <2> QED BY <2>1, <2>2
<1>9. CASE Len(r) > cap
  <2>1. Posted(q, p) = Tail(r)
    BY <1>0, <1>1, <1>5, <1>9 DEF Posted
  <2>2. PICK z : z = Tail(r)
    OBVIOUS
  <2>3. Len(r) = cap + 1 /\ r # <<>>
    BY <1>4, <1>6, <1>9
  <2>4. z \in Seq(X) /\ Len(z) = cap /\ \A j \in 1 .. cap : z[j] = r[j + 1]
    BY <1>6, <2>2, <2>3
  <2>5. Chain(z, X, L)
    <3> SUFFICES ASSUME NEW i \in 1 .. Len(z), NEW j \in 1 .. Len(z), i < j PROVE z[j] \in L[z[i]]
      BY <2>4 DEF Chain
    <3>1. i + 1 \in 1 .. Len(r) /\ j + 1 \in 1 .. Len(r) /\ i + 1 < j + 1
      BY <2>3, <2>4
    <3> QED BY <1>7, <2>4, <3>1 DEF Chain
  <2>6. \E j \in 1 .. Len(z) : z[j] = p
    <3>1. cap \in 1 .. Len(z) /\ z[cap] = r[cap + 1] /\ Len(s) + 1 = cap + 1
      BY <1>6, <2>3, <2>4
    <3> QED BY <1>6, <3>1
  <2>7. ASSUME NEW i \in 1 .. Len(q)
        PROVE  (\E j \in 1 .. Len(z) : z[j] = q[i]) \/ Cardinality(L[q[i]]) >= POSTING_CAP
    <3>1. PICK j \in 1 .. Len(r) : r[j] = q[i]
      BY <1>8
    <3>2. CASE j = 1
      <4>1. cap <= Len(r) - j
        BY <2>3, <3>2
      <4>2. Cardinality(L[r[j]]) >= cap
        BY <1>7, <4>1, CountNewer
      <4> QED BY <1>0, <3>1, <4>2
    <3>3. CASE j # 1
      <4>1. j - 1 \in 1 .. cap /\ (j - 1) + 1 = j
        BY <2>3, <3>3
      <4>2. z[j - 1] = r[j]
        BY <2>4, <4>1
      <4> QED BY <2>4, <3>1, <4>1, <4>2
    <3> QED BY <3>2, <3>3
  <2>8. Len(z) <= POSTING_CAP
    BY <1>0, <2>4
  <2> QED BY <2>1, <2>2, <2>5, <2>6, <2>7, <2>8 DEF PostedTo
<1>10. CASE ~(Len(r) > cap)
  <2>1. Posted(q, p) = r
    BY <1>0, <1>1, <1>5, <1>10 DEF Posted
  <2>2. Len(r) <= POSTING_CAP /\ Len(s) + 1 \in 1 .. Len(r)
    BY <1>0, <1>4, <1>6, <1>10
  <2> QED BY <1>6, <1>7, <1>8, <2>1, <2>2 DEF PostedTo
<1> QED BY <1>9, <1>10

----------------------------------------------------------------------------
\* The index that a start builds.

RebuildStep(q, p, t) == IF HasTerm(p, t) THEN Posted(IF q = NoDeque THEN <<>> ELSE q, p) ELSE q

IsRebuilt(g, order, t, N) ==
    g = [k \in 0 .. N |-> IF k = 0 THEN NoDeque ELSE RebuildStep(g[k - 1], order[k], t)]

LEMMA RebuiltExists ==
    ASSUME NEW order, NEW t, NEW N \in Nat
    PROVE  \E g : IsRebuilt(g, order, t, N)
<1> DEFINE T == {n \in Nat : \E g : IsRebuilt(g, order, t, n)}
<1>1. 0 \in T
  <2>1. IsRebuilt([k \in 0 .. 0 |-> NoDeque], order, t, 0)
    BY DEF IsRebuilt
  <2> QED BY <2>1
<1>2. ASSUME NEW n \in 0 .. N - 1, n \in T
      PROVE  n + 1 \in T
  <2>1. PICK g : IsRebuilt(g, order, t, n)
    BY <1>2
  <2> DEFINE h == [k \in 0 .. n + 1 |-> IF k = n + 1 THEN RebuildStep(g[n], order[n + 1], t) ELSE g[k]]
  <2>2. \A k \in 0 .. n + 1 : h[k] = IF k = 0 THEN NoDeque ELSE RebuildStep(h[k - 1], order[k], t)
    <3> TAKE k \in 0 .. n + 1
    <3>1. CASE k = n + 1
      BY <3>1
    <3>2. CASE k # n + 1 /\ k # 0
      <4>1. k \in 0 .. n /\ k - 1 \in 0 .. n + 1 /\ k - 1 # n + 1
        BY <3>2
      <4>2. g[k] = RebuildStep(g[k - 1], order[k], t)
        BY <2>1, <3>2, <4>1 DEF IsRebuilt
      <4> QED BY <3>2, <4>1, <4>2
    <3>3. CASE k = 0
      <4>1. 0 \in 0 .. n /\ 0 # n + 1
        OBVIOUS
      <4>2. g[0] = NoDeque
        BY <2>1, <4>1 DEF IsRebuilt
      <4> QED BY <3>3, <4>1, <4>2
    <3> QED BY <3>1, <3>2, <3>3
  <2>3. h = [k \in 0 .. n + 1 |-> h[k]]
    OBVIOUS
  <2> HIDE DEF h
  <2>4. IsRebuilt(h, order, t, n + 1)
    BY <2>2, <2>3 DEF IsRebuilt
  <2> QED BY <2>4
<1>3. 0 .. N \subseteq T
  <2> HIDE DEF T
  <2> QED BY <1>1, <1>2, UpTo
<1> QED BY <1>3

\* The deque after the first n posts: each of them is there or displaced.
RebuiltOf(q, order, t, n, X, L) ==
    /\ q = NoDeque => \A i \in 1 .. n : ~HasTerm(order[i], t)
    /\ q # NoDeque =>
         /\ Chain(q, X, L) /\ Len(q) <= POSTING_CAP
         /\ \A i \in 1 .. n : HasTerm(order[i], t) =>
              (\E j \in 1 .. Len(q) : q[j] = order[i]) \/ Cardinality(L[order[i]]) >= POSTING_CAP

LEMMA RebuiltStepOf ==
    ASSUME NEW X \in SUBSET Posts, NEW L, Newer(L, X), NEW t, NEW order \in Seq(X),
           \A x, y \in X : x # y /\ HasTerm(y, t) => y \in L[x],
           NEW n \in Nat, n + 1 <= Len(order), NEW q, RebuiltOf(q, order, t, n, X, L),
           NEW r, r = RebuildStep(q, order[n + 1], t)
    PROVE  RebuiltOf(r, order, t, n + 1, X, L)
<1>1. PICK p \in X : p = order[n + 1]
  OBVIOUS
<1>2. \A i \in 1 .. n + 1 : i \in 1 .. n \/ i = n + 1
  OBVIOUS
<1>3. CASE ~HasTerm(p, t)
  <2>1. r = q
    BY <1>1, <1>3 DEF RebuildStep
  <2> QED BY <1>1, <1>2, <1>3, <2>1 DEF RebuiltOf
<1>4. CASE HasTerm(p, t)
  <2>1. PICK b : b = IF q = NoDeque THEN <<>> ELSE q
    OBVIOUS
  <2>2. r = Posted(b, p)
    BY <1>1, <1>4, <2>1 DEF RebuildStep
  <2>3. Chain(b, X, L) /\ Len(b) <= POSTING_CAP
    <3>1. CASE q = NoDeque
      <4>1. b = <<>> /\ POSTING_CAP \in Nat
        BY <2>1, <3>1, SocialAssumption
      <4> QED BY <4>1 DEF Chain
    <3>2. CASE q # NoDeque
      BY <2>1, <3>2 DEF RebuiltOf
    <3> QED BY <3>1, <3>2
  <2>4. \A i \in 1 .. Len(b) : b[i] # p => p \in L[b[i]]
    BY <1>4, <2>3 DEF Chain
  <2>5. PostedTo(r, b, p, X, L)
    BY <2>2, <2>3, <2>4, PostedFacts
  <2>6. Chain(r, X, L) /\ Len(r) <= POSTING_CAP
    BY <2>5 DEF PostedTo
  <2>7. r # NoDeque
    <3>1. r \in Seq(X)
      BY <2>6 DEF Chain
    <3>2. Seq(X) \subseteq Seq(Posts)
      OBVIOUS
    <3> QED BY <3>1, <3>2, SocialAssumption
  <2>8. ASSUME NEW i \in 1 .. n + 1, HasTerm(order[i], t)
        PROVE  (\E j \in 1 .. Len(r) : r[j] = order[i]) \/ Cardinality(L[order[i]]) >= POSTING_CAP
    <3>1. CASE i = n + 1
      BY <1>1, <2>5, <3>1 DEF PostedTo
    <3>2. CASE i \in 1 .. n
      <4>1. q # NoDeque /\ b = q
        BY <2>1, <2>8, <3>2 DEF RebuiltOf
      <4>2. CASE Cardinality(L[order[i]]) >= POSTING_CAP
        BY <4>2
      <4>3. CASE \E j \in 1 .. Len(q) : q[j] = order[i]
        <5>1. PICK j \in 1 .. Len(b) : b[j] = order[i]
          BY <4>1, <4>3
        <5> QED BY <2>5, <5>1 DEF PostedTo
      <4> QED BY <2>8, <3>2, <4>1, <4>2, <4>3 DEF RebuiltOf
    <3> QED BY <1>2, <3>1, <3>2
  <2> QED BY <2>6, <2>7, <2>8 DEF RebuiltOf
<1> QED BY <1>3, <1>4

LEMMA RebuiltFacts ==
    ASSUME NEW X \in SUBSET Posts, NEW L, Newer(L, X), NEW t \in Words, NEW order \in Seq(X),
           \A x, y \in X : x # y /\ HasTerm(y, t) => y \in L[x]
    PROVE  RebuiltOf(rebuild_search_index(order)[t], order, t, Len(order), X, L)
<1> PICK N \in Nat : N = Len(order)
  OBVIOUS
<1> DEFINE g == CHOOSE g : IsRebuilt(g, order, t, Len(order))
<1>1. IsRebuilt(g, order, t, Len(order))
  BY RebuiltExists, Zenon
<1>2. rebuild_search_index(order)[t] = g[Len(order)]
  BY Zenon DEF rebuild_search_index, IsRebuilt, RebuildStep
<1> HIDE DEF g
<1>3. g = [k \in 0 .. N |-> IF k = 0 THEN NoDeque ELSE RebuildStep(g[k - 1], order[k], t)]
  BY <1>1 DEF IsRebuilt
<1>4. g[0] = NoDeque /\ \A k \in 0 .. N - 1 : g[k + 1] = RebuildStep(g[k], order[k + 1], t)
  <2>1. g[0] = NoDeque
    BY <1>3
  <2>2. ASSUME NEW k \in 0 .. N - 1 PROVE g[k + 1] = RebuildStep(g[k], order[k + 1], t)
    <3>1. k + 1 \in 0 .. N /\ k + 1 # 0 /\ (k + 1) - 1 = k
      OBVIOUS
    <3> QED BY <1>3, <3>1
  <2> QED BY <2>1, <2>2
<1> DEFINE T == {n \in 0 .. N : RebuiltOf(g[n], order, t, n, X, L)}
<1>5. 0 \in T
  <2>1. RebuiltOf(NoDeque, order, t, 0, X, L)
    BY DEF RebuiltOf
  <2> QED BY <1>4, <2>1
<1>6. ASSUME NEW n \in 0 .. N - 1, n \in T PROVE n + 1 \in T
  <2>1. n \in Nat /\ n + 1 <= Len(order) /\ RebuiltOf(g[n], order, t, n, X, L)
    BY <1>6
  <2>2. g[n + 1] = RebuildStep(g[n], order[n + 1], t)
    BY <1>4
  <2>3. RebuiltOf(g[n + 1], order, t, n + 1, X, L)
    BY <2>1, <2>2, RebuiltStepOf
  <2> QED BY <2>3
<1>7. 0 .. N \subseteq T
  <2> HIDE DEF T
  <2> QED BY <1>5, <1>6, UpTo
<1>8. RebuiltOf(g[N], order, t, N, X, L)
  BY <1>7
<1> QED BY <1>2, <1>8

----------------------------------------------------------------------------
\* The invariant.

\* The posts of this run of the server, and for each those that may be newer.
Current == so_kept \cup ((so_count.first + 1) .. so_count.posts)
LaterOf(t) == [p \in Current |-> Later(p, t)]

PostRows == [author : Authors, body : Bodies, live : BOOLEAN]

SearchTypes ==
    /\ so_count.first \in Nat /\ so_count.first <= so_count.posts
    /\ so_kept \subseteq 1 .. so_count.first /\ so_kept \subseteq so_acked /\ so_acked \subseteq Current
    /\ so_index = [t \in Words |-> so_index[t]]
    /\ so_before = [p \in Posts |-> so_before[p]] /\ \A p \in Posts : so_before[p] \subseteq so_acked
    /\ \A p \in Posts : so_rows[p] # NoPost => p \in Inserted /\ so_rows[p] \in PostRows

\* Postings are in the order in which they may have been written, not too many.
Deques ==
    \A t \in Words : so_index[t] # NoDeque =>
        Chain(so_index[t], Current, LaterOf(t)) /\ Len(so_index[t]) <= POSTING_CAP

\* What a request knows that is at term t of its post p.
AtWord(p, t, deque) ==
    /\ deque = "listed" => so_index[t] # NoDeque
    /\ deque = "new" => /\ \A r \in so_before[p] : ~HasTerm(r, t)
                        /\ so_index[t] # NoDeque => FirstRace(p, t)
    /\ deque = "orphan" => so_index[t] # NoDeque /\ FirstRace(p, t)

Writing(x) ==
    /\ x.post \in (so_count.first + 1) .. so_count.posts /\ x.post \notin so_acked
    /\ x.terms \in Seq(Words) /\ \A k \in 1 .. Len(x.terms) : HasTerm(x.post, x.terms[k])
    /\ x.terms # <<>> => AtWord(x.post, x.terms[1], x.deque)

Writers == \A w \in Posters : so_writer[w] # NoTask => Writing(so_writer[w])

\* The posting of p under t has been written, perhaps where nobody finds it.
Through(x, p, t) == x # NoTask /\ x.post = p /\ \A k \in 1 .. Len(x.terms) : x.terms[k] # t
Pushed(p, t) == HasTerm(p, t) /\ (p \in so_acked \/ \E w \in Posters : Through(so_writer[w], p, t))

InDeque(p, t) == \E j \in 1 .. Len(so_index[t]) : so_index[t][j] = p
Excused(p, t) == Cardinality(Later(p, t)) >= POSTING_CAP \/ FirstRace(p, t)

PushedFound ==
    \A p \in Posts, t \in Words : Pushed(p, t) => so_index[t] # NoDeque /\ (InDeque(p, t) \/ Excused(p, t))

SearchInv == SearchTypes /\ Deques /\ Writers /\ PushedFound

----------------------------------------------------------------------------
\* Between two restarts nothing that excuses a missing post goes away.

Grown ==
    /\ Current \subseteq Current' /\ Current \subseteq Inserted
    /\ \A t : Newer(LaterOf(t)', Current')
    /\ \A t : \A p \in Current :
         /\ HasTerm(p, t) <=> HasTerm(p, t)'
         /\ Later(p, t) \subseteq Later(p, t)'
         /\ Excused(p, t) => Excused(p, t)'
         /\ FirstRace(p, t) => FirstRace(p, t)'

LEMMA LaterFinite ==
    ASSUME NEW K, NEW f \in Nat, NEW n \in Nat, K \subseteq 1 .. f, NEW S, S \subseteq K \cup ((f + 1) .. n)
    PROVE  IsFiniteSet(S)
<1>1. IsFiniteSet(1 .. f) /\ IsFiniteSet((f + 1) .. n)
  BY FS_Interval
<1>2. IsFiniteSet(K)
  BY <1>1, FS_Subset
<1>3. IsFiniteSet(K \cup ((f + 1) .. n))
  BY <1>1, <1>2, FS_Union
<1> QED BY <1>3, FS_Subset

LEMMA Growing ==
    ASSUME SocialTypes, SearchTypes, so_count'.posts \in Nat, so_count'.posts >= so_count.posts,
           so_count'.first = so_count.first, so_kept' = so_kept,
           \A p \in Inserted : so_before'[p] = so_before[p] /\ (so_rows'[p] # NoPost <=> so_rows[p] # NoPost)
                               /\ (so_rows[p] # NoPost => so_rows'[p].body = so_rows[p].body)
    PROVE  Grown
<1>1. Current \subseteq Current' /\ Current \subseteq Inserted /\ Inserted \subseteq Posts
  <2>1. so_count.posts \in Nat /\ so_count.first \in Nat /\ so_count.first <= so_count.posts
    BY DEF SocialTypes, SearchTypes
  <2>2. so_kept \subseteq Inserted
    BY <2>1 DEF SearchTypes, Inserted
  <2>3. ((so_count.first + 1) .. so_count.posts) \subseteq Inserted
    BY <2>1 DEF Inserted
  <2>4. ((so_count.first + 1) .. so_count.posts) \subseteq ((so_count'.first + 1) .. so_count'.posts)
    BY <2>1
  <2> QED BY <2>2, <2>3, <2>4 DEF Current, SocialTypes
<1>2. ASSUME NEW p \in Current, NEW t PROVE HasTerm(p, t) <=> HasTerm(p, t)'
  BY <1>1 DEF HasTerm
<1>3. \A p, t : Later(p, t)' \subseteq Current' /\ p \notin Later(p, t)'
  BY DEF Later, Current
<1>4. \A p, t : IsFiniteSet(Later(p, t)')
  <2>1. so_count'.first \in Nat /\ so_kept' \subseteq 1 .. so_count'.first
    BY DEF SearchTypes
  <2>2. Current' = so_kept' \cup ((so_count'.first + 1) .. so_count'.posts)
    BY DEF Current
  <2> QED BY <1>3, <2>1, <2>2, LaterFinite
<1>5. \A t : Newer(LaterOf(t)', Current')
  <2>1. \A t : \A p \in Current' : LaterOf(t)'[p] = Later(p, t)'
    BY DEF LaterOf
  <2> QED BY <1>3, <1>4, <2>1 DEF Newer
<1>6. ASSUME NEW p \in Current, NEW t PROVE Later(p, t) \subseteq Later(p, t)'
  <2> SUFFICES ASSUME NEW r \in Later(p, t) PROVE r \in Later(p, t)'
    OBVIOUS
  <2>1. r \in Current /\ r # p /\ HasTerm(r, t) /\ (r \notin so_before[p] \/ {r, p} \subseteq so_kept)
    BY DEF Later, Current
  <2>2. HasTerm(r, t)' /\ so_before'[p] = so_before[p] /\ r \in Current'
    BY <1>1, <1>2, <2>1
  <2> QED BY <2>1, <2>2 DEF Later, Current
<1>7. ASSUME NEW p \in Current, NEW t, FirstRace(p, t) PROVE FirstRace(p, t)'
  <2>1. so_before[p] \subseteq Current /\ so_before'[p] = so_before[p]
    BY <1>1 DEF SearchTypes
  <2>2. \A r \in so_before'[p] : ~HasTerm(r, t)'
    BY <1>2, <1>7, <2>1 DEF FirstRace
  <2>3. PICK r \in Later(p, t) : p \notin so_before[r]
    BY <1>7 DEF FirstRace
  <2>4. r \in Current
    BY DEF Later, Current
  <2>5. r \in Later(p, t)' /\ so_before'[r] = so_before[r]
    BY <1>1, <1>6, <2>4
  <2> QED BY <2>2, <2>3, <2>5 DEF FirstRace
<1>8. ASSUME NEW p \in Current, NEW t, Cardinality(Later(p, t)) >= POSTING_CAP
      PROVE  Cardinality(Later(p, t)') >= POSTING_CAP
  <2>1. PICK A, B : A = Later(p, t) /\ B = Later(p, t)'
    OBVIOUS
  <2>2. A \subseteq B /\ IsFiniteSet(B)
    BY <1>4, <1>6, <2>1
  <2>3. IsFiniteSet(A) /\ Cardinality(A) <= Cardinality(B)
    BY <2>2, FS_Subset
  <2>4. Cardinality(A) \in Nat /\ Cardinality(B) \in Nat /\ POSTING_CAP \in Nat
    BY <2>2, <2>3, FS_CardinalityType, SocialAssumption
  <2>5. Cardinality(A) >= POSTING_CAP
    BY <1>8, <2>1
  <2>6. Cardinality(B) >= POSTING_CAP
    BY <2>3, <2>4, <2>5
  <2> QED BY <2>1, <2>6
<1>9. ASSUME NEW p \in Current, NEW t, Excused(p, t) PROVE Excused(p, t)'
  BY <1>7, <1>8, <1>9 DEF Excused
<1> QED BY <1>1, <1>2, <1>5, <1>6, <1>7, <1>9 DEF Grown

\* What the other requests know, and the deques nobody touches, stay right.
LEMMA DequeGrows ==
    ASSUME Grown, NEW t, NEW q, Chain(q, Current, LaterOf(t))
    PROVE  Chain(q, Current', LaterOf(t)')
<1>1. q \in Seq(Current) /\ Len(q) \in Nat /\ q \in Seq(Current')
  <2>1. q \in Seq(Current) /\ Current \subseteq Current'
    BY DEF Chain, Grown
  <2> QED BY <2>1
<1>2. ASSUME NEW i \in 1 .. Len(q), NEW j \in 1 .. Len(q), i < j
      PROVE  q[j] \in LaterOf(t)'[q[i]]
  <2>1. q[i] \in Current /\ q[i] \in Current'
    BY <1>1
  <2>2. q[j] \in LaterOf(t)[q[i]]
    BY <1>2 DEF Chain
  <2>3. LaterOf(t)[q[i]] = Later(q[i], t) /\ LaterOf(t)'[q[i]] = Later(q[i], t)'
    BY <2>1 DEF LaterOf
  <2> QED BY <2>1, <2>2, <2>3 DEF Grown
<1> QED BY <1>1, <1>2 DEF Chain

LEMMA AtWordGrows ==
    ASSUME Grown, NEW p \in Current, so_before'[p] = so_before[p], so_before[p] \subseteq Current,
           NEW t, so_index'[t] = NoDeque <=> so_index[t] = NoDeque, NEW d, AtWord(p, t, d)
    PROVE  AtWord(p, t, d)'
<1>1. \A r \in so_before[p] : HasTerm(r, t) <=> HasTerm(r, t)'
  BY DEF Grown
<1>2. FirstRace(p, t) => FirstRace(p, t)'
  BY DEF Grown
<1> QED BY <1>1, <1>2 DEF AtWord

LEMMA BusyPosts ==
    ASSUME SocialTypes, SearchInv
    PROVE  /\ \A w \in Posters : so_writer[w] # NoTask => so_writer[w].post \in Current
           /\ so_acked \subseteq Current /\ Current \subseteq Inserted /\ Inserted \subseteq Posts
           /\ \A p \in Current : so_before[p] \subseteq Current /\ so_before[p] \subseteq so_acked
           /\ \A t : \A p \in Posts : Pushed(p, t) => p \in Current
<1>1. so_count.posts \in Nat /\ so_count.first \in Nat /\ so_count.first <= so_count.posts
  BY DEF SocialTypes, SearchInv, SearchTypes
<1>2. Current \subseteq Inserted
  BY <1>1 DEF SearchInv, SearchTypes, Current, Inserted
<1>3. \A w \in Posters : so_writer[w] # NoTask => so_writer[w].post \in Current
  BY DEF SearchInv, Writers, Writing, Current
<1>4. so_acked \subseteq Current /\ Inserted \subseteq Posts
  BY DEF SearchInv, SearchTypes, SocialTypes
<1>5. \A p \in Current : so_before[p] \subseteq Current /\ so_before[p] \subseteq so_acked
  BY <1>2, <1>4 DEF SearchInv, SearchTypes
<1>6. \A t : \A p \in Posts : Pushed(p, t) => p \in Current
  BY <1>3, <1>4 DEF Pushed, Through
<1> QED BY <1>2, <1>3, <1>4, <1>5, <1>6

\* Steps that change neither the index nor the requests, but perhaps which posts live.
LEMMA QuietInv ==
    ASSUME SocialTypes, SearchInv, UNCHANGED <<so_index, so_writer, so_acked, so_kept, so_before>>,
           so_count'.posts = so_count.posts, so_count'.first = so_count.first,
           \A p \in Posts : /\ so_rows'[p] # NoPost <=> so_rows[p] # NoPost
                            /\ so_rows[p] # NoPost => so_rows'[p].body = so_rows[p].body /\ so_rows'[p] \in PostRows
    PROVE  SearchInv'
<1>1. Grown
  BY Growing DEF SocialTypes, SearchInv
<1>2. Inserted' = Inserted /\ Current' = Current
  BY DEF Inserted, Current
<1>3. SearchTypes'
  BY <1>2 DEF SearchInv, SearchTypes
<1>4. Deques'
  <2> SUFFICES ASSUME NEW t \in Words, so_index[t] # NoDeque
               PROVE  Chain(so_index[t], Current', LaterOf(t)') /\ Len(so_index[t]) <= POSTING_CAP
    BY DEF Deques
  <2> QED BY <1>1, DequeGrows DEF SearchInv, Deques
<1>5. Writers'
  <2> SUFFICES ASSUME NEW w \in Posters, so_writer[w] # NoTask PROVE Writing(so_writer[w])'
    BY DEF Writers
  <2>0. PICK x : x = so_writer[w] /\ x = so_writer'[w]
    OBVIOUS
  <2>1. Writing(x) /\ x.post \in Current
    BY <2>0, BusyPosts DEF SearchInv, Writers
  <2>2. so_before[x.post] \subseteq Current
    BY <2>1, BusyPosts
  <2>3. x.terms # <<>> => AtWord(x.post, x.terms[1], x.deque)'
    BY <1>1, <2>1, <2>2, AtWordGrows DEF Writing
  <2>4. \A k \in 1 .. Len(x.terms) : HasTerm(x.post, x.terms[k])'
    BY <1>1, <2>1 DEF Writing, Grown
  <2>5. x.post \in (so_count'.first + 1) .. so_count'.posts /\ x.post \notin so_acked' /\ x.terms \in Seq(Words)
    BY <2>1 DEF Writing
  <2> QED BY <2>0, <2>3, <2>4, <2>5 DEF Writing
<1>6. PushedFound'
  <2> SUFFICES ASSUME NEW p \in Posts, NEW t \in Words, Pushed(p, t)'
               PROVE  so_index'[t] # NoDeque /\ (InDeque(p, t)' \/ Excused(p, t)')
    BY DEF PushedFound
  <2>1. p \in Current
    BY BusyPosts DEF Pushed, Through
  <2>2. Pushed(p, t)
    BY <1>1, <2>1 DEF Pushed, Through, Grown
  <2>3. so_index[t] # NoDeque /\ (InDeque(p, t) \/ Excused(p, t))
    BY <2>2 DEF SearchInv, PushedFound
  <2> QED BY <1>1, <2>1, <2>3 DEF InDeque, Grown
<1> QED BY <1>3, <1>4, <1>5, <1>6 DEF SearchInv

\* Steps of index_post and the answer: posts and their history stay.
SameBase ==
    /\ Current' = Current /\ Inserted' = Inserted
    /\ \A t : LaterOf(t)' = LaterOf(t)
    /\ \A p, t : /\ HasTerm(p, t)' <=> HasTerm(p, t)
                 /\ Later(p, t)' = Later(p, t)
                 /\ FirstRace(p, t)' <=> FirstRace(p, t)
                 /\ Excused(p, t)' <=> Excused(p, t)

LEMMA BaseStays ==
    ASSUME UNCHANGED <<so_rows, so_kept, so_before, so_count>>
    PROVE  SameBase
<1>1. Current' = Current /\ Inserted' = Inserted
  BY DEF Current, Inserted
<1>2. \A p, t : HasTerm(p, t)' <=> HasTerm(p, t)
  BY DEF HasTerm
<1>3. \A p, t : Later(p, t)' = Later(p, t)
  BY <1>2 DEF Later
<1>4. \A p, t : FirstRace(p, t)' <=> FirstRace(p, t)
  BY <1>2, <1>3 DEF FirstRace
<1>5. \A t : LaterOf(t)' = LaterOf(t)
  BY <1>1, <1>3 DEF LaterOf
<1>6. \A p, t : Excused(p, t)' <=> Excused(p, t)
  BY <1>3, <1>4 DEF Excused
<1> QED BY <1>1, <1>2, <1>3, <1>4, <1>5, <1>6 DEF SameBase

LEMMA FindDequeInv ==
    ASSUME SocialTypes, SearchInv, NEW w \in Posters, FindDeque(w)
    PROVE  SearchInv'
<1>1. PICK x : x = so_writer[w]
  OBVIOUS
<1>2. PICK t : t = x.terms[1]
  OBVIOUS
<1>3. x # NoTask /\ x.terms # <<>> /\ IsTask(x) /\ Writing(x)
  BY <1>1 DEF FindDeque, AtTerm, SocialTypes, SearchInv, Writers
<1>4. x.terms \in Seq(Words) /\ Head(x.terms) = t /\ t \in Words
  BY <1>2, <1>3 DEF Writing
<1>5. PICK y : y = [x EXCEPT !.deque = IF so_index[t] = NoDeque THEN "new" ELSE "listed"]
  OBVIOUS
<1>6. so_writer' = [so_writer EXCEPT ![w] = y]
  <2>1. Term(w) = t
    BY <1>1, <1>4 DEF Term
  <2> QED BY <1>1, <1>5, <2>1 DEF FindDeque
<1>7. /\ UNCHANGED <<so_rows, so_index, so_count, so_acked, so_kept, so_before>>
      /\ so_writer'[w] = y /\ \A v \in Posters \ {w} : so_writer'[v] = so_writer[v]
  BY <1>6 DEF FindDeque, history_vars, SocialTypes
<1>8. y.post = x.post /\ y.terms = x.terms /\ y.deque = (IF so_index[t] = NoDeque THEN "new" ELSE "listed")
      /\ IsTask(y)
  BY <1>3, <1>5 DEF IsTask
<1>9. SameBase
  BY <1>7, BaseStays
<1>10. SearchTypes'
  BY <1>7, <1>9 DEF SearchInv, SearchTypes, SameBase
<1>11. Deques'
  BY <1>7, <1>9 DEF SearchInv, Deques, SameBase
<1>12. AtWord(x.post, t, y.deque)
  <2>1. x.post \in Current
    BY <1>1, <1>3, BusyPosts
  <2>2. ASSUME NEW r \in so_before[x.post], HasTerm(r, t) PROVE so_index[t] # NoDeque
    <3>1. r \in so_acked /\ r \in Posts
      BY <2>1, BusyPosts
    <3>2. Pushed(r, t)
      BY <2>2, <3>1 DEF Pushed
    <3> QED BY <1>4, <3>1, <3>2 DEF SearchInv, PushedFound
  <2> QED BY <1>8, <2>2 DEF AtWord
<1>13. \A p, s, d : AtWord(p, s, d) => AtWord(p, s, d)'
  BY <1>7, <1>9 DEF AtWord, SameBase
<1>14. \A z : Writing(z) => Writing(z)'
  BY <1>7, <1>9, <1>13 DEF Writing, SameBase
<1>15. Writing(y)
  BY <1>2, <1>3, <1>8, <1>12 DEF Writing
<1>16. Writers'
  BY <1>7, <1>14, <1>15 DEF SearchInv, Writers
<1>17. ASSUME NEW p \in Posts, NEW s \in Words, Pushed(p, s)' PROVE Pushed(p, s)
  <2>1. \A v \in Posters : Through(so_writer'[v], p, s) => Through(so_writer[v], p, s)
    BY <1>1, <1>3, <1>7, <1>8 DEF Through
  <2> QED BY <1>7, <1>9, <1>17, <2>1 DEF Pushed, SameBase
<1>18. PushedFound'
  BY <1>7, <1>9, <1>17 DEF SearchInv, PushedFound, SameBase, InDeque
<1> QED BY <1>10, <1>11, <1>16, <1>18 DEF SearchInv

\* Two requests that have both found no deque are first in a race.
LEMMA RaceStarts ==
    ASSUME SocialTypes, SearchInv, NEW x, NEW y, Writing(x), Writing(y), x.post # y.post, NEW t,
           HasTerm(y.post, t), AtWord(x.post, t, "new")
    PROVE  FirstRace(x.post, t)
<1>1. x.post \in Current /\ y.post \in Current /\ x.post \notin so_acked /\ y.post \notin so_acked
  BY DEF Writing, Current
<1>2. so_before[x.post] \subseteq so_acked /\ so_before[y.post] \subseteq so_acked
  BY <1>1, BusyPosts
<1>3. y.post \in Later(x.post, t)
  BY <1>1, <1>2 DEF Later, Current
<1> QED BY <1>1, <1>2, <1>3 DEF FirstRace, AtWord

LEMMA ListDequeInv ==
    ASSUME FanInv, SearchInv, NEW w \in Posters, ListDeque(w)
    PROVE  SearchInv'
<1>0. SocialTypes
  BY DEF FanInv
<1>1. PICK x : x = so_writer[w]
  OBVIOUS
<1>2. PICK t : t = x.terms[1]
  OBVIOUS
<1>3. x # NoTask /\ x.terms # <<>> /\ IsTask(x) /\ Writing(x) /\ x.deque = "new"
  BY <1>0, <1>1 DEF ListDeque, AtTerm, SocialTypes, SearchInv, Writers
<1>4. x.terms \in Seq(Words) /\ Head(x.terms) = t /\ t \in Words /\ HasTerm(x.post, t)
  <2>1. x.terms \in Seq(Words) /\ Len(x.terms) \in Nat /\ Len(x.terms) > 0
    BY <1>3 DEF Writing
  <2>2. 1 \in 1 .. Len(x.terms)
    BY <2>1
  <2> QED BY <1>2, <1>3, <2>1, <2>2 DEF Writing
<1>5. PICK fresh \in BOOLEAN : fresh = (so_index[t] = NoDeque)
  OBVIOUS
<1>6. PICK y : y = [x EXCEPT !.deque = IF fresh THEN "listed" ELSE "orphan"]
  OBVIOUS
<1>7. Term(w) = t
  BY <1>1, <1>4 DEF Term
<1>8. /\ so_writer' = [so_writer EXCEPT ![w] = y]
      /\ so_index' = IF fresh THEN [so_index EXCEPT ![t] = <<>>] ELSE so_index
  BY <1>1, <1>5, <1>6, <1>7 DEF ListDeque
<1>9. /\ UNCHANGED <<so_rows, so_count, so_acked, so_kept, so_before>>
      /\ so_writer'[w] = y /\ \A v \in Posters \ {w} : so_writer'[v] = so_writer[v]
  BY <1>0, <1>8 DEF ListDeque, history_vars, SocialTypes
<1>10. y.post = x.post /\ y.terms = x.terms /\ y.deque = (IF fresh THEN "listed" ELSE "orphan")
  BY <1>3, <1>6 DEF IsTask
<1>11. SameBase
  BY <1>9, BaseStays
<1>12. /\ so_index' = [s \in Words |-> so_index'[s]] /\ so_index'[t] # NoDeque
       /\ \A s \in Words \ {t} : so_index'[s] = so_index[s]
       /\ so_index'[t] = IF fresh THEN <<>> ELSE so_index[t]
  <2>1. NoDeque # <<>>
    <3>1. <<>> \in Seq(Posts)
      OBVIOUS
    <3> QED BY <3>1, SocialAssumption
  <2>2. so_index = [s \in Words |-> so_index[s]]
    BY DEF SearchInv, SearchTypes
  <2> QED BY <1>4, <1>5, <1>8, <2>1, <2>2
<1>13. SearchTypes'
  BY <1>9, <1>11, <1>12 DEF SearchInv, SearchTypes, SameBase
<1>14. Deques'
  <2> SUFFICES ASSUME NEW s \in Words, so_index'[s] # NoDeque
               PROVE  Chain(so_index'[s], Current, LaterOf(s)) /\ Len(so_index'[s]) <= POSTING_CAP
    BY <1>11 DEF Deques, SameBase
  <2>1. CASE s = t /\ fresh
    <3>1. so_index'[s] = <<>> /\ POSTING_CAP \in Nat
      BY <1>12, <2>1, SocialAssumption
    <3> QED BY <3>1 DEF Chain
  <2>2. CASE ~(s = t /\ fresh)
    <3>1. so_index'[s] = so_index[s]
      BY <1>12, <2>2
    <3> QED BY <3>1 DEF SearchInv, Deques
  <2> QED BY <2>1, <2>2
<1>15. ASSUME NEW v \in Posters \ {w}, so_writer[v] # NoTask PROVE Writing(so_writer[v])'
  <2>1. PICK z : z = so_writer[v]
    OBVIOUS
  <2>2. Writing(z) /\ z.post # x.post
    BY <1>1, <1>3, <1>15, <2>1 DEF SearchInv, Writers, FanInv, PlacesApart
  <2>3. z.terms # <<>> => AtWord(z.post, z.terms[1], z.deque)'
    <3> SUFFICES ASSUME z.terms # <<>> PROVE AtWord(z.post, z.terms[1], z.deque)'
      OBVIOUS
    <3>1. PICK s \in Words : s = z.terms[1]
      BY <2>2 DEF Writing
    <3>2. AtWord(z.post, s, z.deque)
      BY <2>2, <3>1 DEF Writing
    <3>3. CASE s # t
      BY <1>9, <1>11, <1>12, <3>1, <3>2, <3>3 DEF AtWord, SameBase
    <3>4. CASE s = t
      <4>1. z.deque = "new" => FirstRace(z.post, t)
        <5>1. z.deque = "new" => AtWord(z.post, t, "new")
          BY <3>2, <3>4
        <5> QED BY <1>0, <1>3, <1>4, <2>2, <5>1, RaceStarts
      <4> QED BY <1>9, <1>11, <1>12, <3>1, <3>2, <3>4, <4>1 DEF AtWord, SameBase
    <3> QED BY <3>3, <3>4
  <2>4. Writing(z)'
    BY <1>9, <1>11, <2>2, <2>3 DEF Writing, SameBase
  <2> QED BY <1>9, <2>1, <2>4
<1>16. Writing(y)'
  <2>1. AtWord(x.post, t, "new")
    BY <1>2, <1>3 DEF Writing
  <2>2. AtWord(y.post, t, y.deque)'
    BY <1>5, <1>10, <1>11, <1>12, <2>1 DEF AtWord, SameBase
  <2> QED BY <1>2, <1>3, <1>9, <1>10, <1>11, <2>2 DEF Writing, SameBase
<1>17. Writers'
  <2> SUFFICES ASSUME NEW v \in Posters, so_writer'[v] # NoTask PROVE Writing(so_writer[v])'
    BY DEF Writers
  <2>1. CASE v = w
    BY <1>9, <1>16, <2>1
  <2>2. CASE v # w
    BY <1>9, <1>15, <2>2
  <2> QED BY <2>1, <2>2
<1>18. ASSUME NEW p \in Posts, NEW s \in Words, Pushed(p, s)' PROVE Pushed(p, s)
  <2>1. \A v \in Posters : Through(so_writer'[v], p, s) => Through(so_writer[v], p, s)
    BY <1>1, <1>3, <1>9, <1>10 DEF Through
  <2> QED BY <1>9, <1>11, <1>18, <2>1 DEF Pushed, SameBase
<1>19. PushedFound'
  <2> SUFFICES ASSUME NEW p \in Posts, NEW s \in Words, Pushed(p, s)'
               PROVE  so_index'[s] # NoDeque /\ (InDeque(p, s)' \/ Excused(p, s)')
    BY DEF PushedFound
  <2>1. so_index[s] # NoDeque /\ (InDeque(p, s) \/ Excused(p, s))
    BY <1>18 DEF SearchInv, PushedFound
  <2>2. so_index'[s] = so_index[s]
    BY <1>5, <1>12, <2>1
  <2> QED BY <1>11, <2>1, <2>2 DEF InDeque, SameBase
<1> QED BY <1>13, <1>14, <1>17, <1>19 DEF SearchInv

LEMMA PushPostingInv ==
    ASSUME FanInv, SearchInv, NEW w \in Posters, PushPosting(w)
    PROVE  SearchInv'
<1>0. SocialTypes
  BY DEF FanInv
<1>1. PICK x : x = so_writer[w]
  OBVIOUS
<1>2. PICK t : t = x.terms[1]
  OBVIOUS
<1>3. x # NoTask /\ x.terms # <<>> /\ IsTask(x) /\ Writing(x) /\ x.deque \in {"listed", "orphan"}
  BY <1>0, <1>1 DEF PushPosting, AtTerm, SocialTypes, SearchInv, Writers
<1>4. /\ x.terms \in Seq(Words) /\ Head(x.terms) = t /\ t \in Words /\ HasTerm(x.post, t)
      /\ Tail(x.terms) \in Seq(Words) /\ Len(Tail(x.terms)) = Len(x.terms) - 1 /\ Len(x.terms) \in Nat
      /\ \A k \in 1 .. Len(x.terms) - 1 : Tail(x.terms)[k] = x.terms[k + 1]
  <2>1. x.terms \in Seq(Words) /\ Len(x.terms) \in Nat /\ Len(x.terms) > 0
    BY <1>3 DEF Writing
  <2>2. 1 \in 1 .. Len(x.terms)
    BY <2>1
  <2> QED BY <1>2, <1>3, <2>1, <2>2 DEF Writing
<1>5. PICK p \in Posts : p = x.post
  BY <1>0, <1>1, <1>3, BusyPosts
<1>6. PICK y : y = [x EXCEPT !.terms = Tail(x.terms), !.deque = "unknown"]
  OBVIOUS
<1>7. Term(w) = t
  BY <1>1, <1>4 DEF Term
<1>8. /\ so_writer' = [so_writer EXCEPT ![w] = y]
      /\ so_index' = IF x.deque = "orphan" THEN so_index ELSE [so_index EXCEPT ![t] = Posted(so_index[t], p)]
  <2>1. so_writer' = [so_writer EXCEPT ![w].terms = Tail(@), ![w].deque = "unknown"]
    BY DEF PushPosting
  <2>2. so_writer' = [so_writer EXCEPT ![w] = [so_writer[w] EXCEPT !.terms = Tail(@), !.deque = "unknown"]]
    BY <1>0, <2>1 DEF SocialTypes
  <2>3. PICK d \in {"listed", "orphan"} :
          /\ AtTerm(w, d)
          /\ so_index' = IF d = "orphan" THEN so_index
                         ELSE [so_index EXCEPT ![Term(w)] = Posted(@, so_writer[w].post)]
    BY DEF PushPosting
  <2>4. d = x.deque
    BY <1>1, <2>3 DEF AtTerm
  <2>5. so_index' = IF x.deque = "orphan" THEN so_index
                    ELSE [so_index EXCEPT ![t] = Posted(so_index[t], p)]
    BY <1>1, <1>5, <1>7, <2>3, <2>4
  <2> QED BY <1>1, <1>6, <2>2, <2>5
<1>9. /\ UNCHANGED <<so_rows, so_count, so_acked, so_kept, so_before>>
      /\ so_writer'[w] = y /\ \A v \in Posters \ {w} : so_writer'[v] = so_writer[v]
  BY <1>0, <1>8 DEF PushPosting, history_vars, SocialTypes
<1>10. y.post = p /\ y.terms = Tail(x.terms) /\ y.deque = "unknown"
  BY <1>3, <1>5, <1>6 DEF IsTask
<1>11. SameBase
  BY <1>9, BaseStays
<1>12. /\ AtWord(p, t, x.deque) /\ p \in Current /\ p \notin so_acked
       /\ so_index[t] # NoDeque /\ (x.deque = "orphan" => FirstRace(p, t))
  <2>1. AtWord(p, t, x.deque) /\ p \notin so_acked
    BY <1>2, <1>3, <1>5 DEF Writing
  <2>2. p \in Current
    BY <1>0, <1>1, <1>3, <1>5, BusyPosts
  <2> QED BY <1>3, <2>1, <2>2 DEF AtWord
<1>13. Chain(so_index[t], Current, LaterOf(t)) /\ Len(so_index[t]) <= POSTING_CAP
  BY <1>4, <1>12 DEF SearchInv, Deques
<1>14. PostedTo(Posted(so_index[t], p), so_index[t], p, Current, LaterOf(t))
  <2>1. Newer(LaterOf(t), Current)
    <3>1. Grown
      BY <1>0, <1>9, Growing DEF SocialTypes, SearchInv
    <3> QED BY <1>11, <3>1 DEF Grown, SameBase
  <2>2. ASSUME NEW i \in 1 .. Len(so_index[t]), so_index[t][i] # p PROVE p \in LaterOf(t)[so_index[t][i]]
    <3>1. PICK r \in Current : r = so_index[t][i]
      BY <1>13 DEF Chain
    <3>2. p \notin so_before[r]
      BY <1>0, <1>12, BusyPosts
    <3>3. p \in Later(r, t)
      BY <1>4, <1>5, <1>12, <2>2, <3>1, <3>2 DEF Later, Current
    <3> QED BY <3>1, <3>3 DEF LaterOf
  <2> QED BY <1>12, <1>13, <2>1, <2>2, PostedFacts
<1>15. Posted(so_index[t], p) # NoDeque
  <2>1. Posted(so_index[t], p) \in Seq(Current) /\ Current \subseteq Posts
    BY <1>0, <1>14, BusyPosts DEF PostedTo, Chain
  <2>2. Seq(Current) \subseteq Seq(Posts)
    BY <2>1
  <2> QED BY <2>1, <2>2, SocialAssumption
<1>16. /\ so_index' = [s \in Words |-> so_index'[s]]
       /\ \A s \in Words \ {t} : so_index'[s] = so_index[s]
       /\ so_index'[t] = IF x.deque = "orphan" THEN so_index[t] ELSE Posted(so_index[t], p)
       /\ \A s \in Words : so_index'[s] = NoDeque <=> so_index[s] = NoDeque
  <2>1. so_index = [s \in Words |-> so_index[s]]
    BY DEF SearchInv, SearchTypes
  <2>2. /\ so_index' = [s \in Words |-> so_index'[s]]
        /\ \A s \in Words \ {t} : so_index'[s] = so_index[s]
        /\ so_index'[t] = IF x.deque = "orphan" THEN so_index[t] ELSE Posted(so_index[t], p)
    BY <1>4, <1>8, <2>1
  <2> QED BY <1>12, <1>15, <2>2
<1>17. SearchTypes'
  BY <1>9, <1>11, <1>16 DEF SearchInv, SearchTypes, SameBase
<1>18. Deques'
  <2> SUFFICES ASSUME NEW s \in Words, so_index'[s] # NoDeque
               PROVE  Chain(so_index'[s], Current, LaterOf(s)) /\ Len(so_index'[s]) <= POSTING_CAP
    BY <1>11 DEF Deques, SameBase
  <2>1. CASE s = t /\ x.deque # "orphan"
    BY <1>14, <1>16, <2>1 DEF PostedTo
  <2>2. CASE ~(s = t /\ x.deque # "orphan")
    <3>1. so_index'[s] = so_index[s]
      BY <1>16, <2>2
    <3> QED BY <3>1 DEF SearchInv, Deques
  <2> QED BY <2>1, <2>2
<1>19. ASSUME NEW z, Writing(z) PROVE Writing(z)'
  <2>1. z.terms # <<>> => AtWord(z.post, z.terms[1], z.deque)'
    <3> SUFFICES ASSUME z.terms # <<>> PROVE AtWord(z.post, z.terms[1], z.deque)'
      OBVIOUS
    <3>1. PICK s \in Words : s = z.terms[1]
      BY <1>19 DEF Writing
    <3>2. AtWord(z.post, s, z.deque)
      BY <1>19, <3>1 DEF Writing
    <3> QED BY <1>9, <1>11, <1>16, <3>1, <3>2 DEF AtWord, SameBase
  <2> QED BY <1>9, <1>11, <1>19, <2>1 DEF Writing, SameBase
<1>20. Writing(y)
  <2>1. \A k \in 1 .. Len(y.terms) : k + 1 \in 1 .. Len(x.terms) /\ y.terms[k] = x.terms[k + 1]
    BY <1>4, <1>10
  <2>2. \A k \in 1 .. Len(y.terms) : HasTerm(y.post, y.terms[k])
    BY <1>3, <1>5, <1>10, <2>1 DEF Writing
  <2>3. AtWord(y.post, y.terms[1], y.deque)
    BY <1>10 DEF AtWord
  <2> QED BY <1>3, <1>4, <1>5, <1>10, <2>2, <2>3 DEF Writing
<1>21. Writers'
  <2> SUFFICES ASSUME NEW v \in Posters, so_writer'[v] # NoTask PROVE Writing(so_writer[v])'
    BY DEF Writers
  <2>0. PICK z : z = so_writer'[v]
    OBVIOUS
  <2>1. CASE v = w
    BY <1>9, <1>19, <1>20, <2>1
  <2>2. CASE v # w
    <3>1. Writing(z)
      BY <1>9, <2>0, <2>2 DEF SearchInv, Writers
    <3> QED BY <1>19, <2>0, <3>1
  <2> QED BY <2>1, <2>2
<1>22. ASSUME NEW q \in Posts, NEW s \in Words, Pushed(q, s)', ~(q = p /\ s = t) PROVE Pushed(q, s)
  <2>1. ASSUME NEW v \in Posters, Through(so_writer'[v], q, s) PROVE Through(so_writer[v], q, s)
    <3>1. CASE v # w
      BY <1>9, <2>1, <3>1
    <3>2. CASE v = w
      <4>1. q = p /\ s # t /\ \A k \in 1 .. Len(x.terms) - 1 : x.terms[k + 1] # s
        BY <1>4, <1>9, <1>10, <1>22, <2>1, <3>2 DEF Through
      <4>2. ASSUME NEW k \in 1 .. Len(x.terms) PROVE x.terms[k] # s
        <5>1. CASE k = 1
          BY <1>2, <4>1, <5>1
        <5>2. CASE k # 1
          <6>1. k - 1 \in 1 .. Len(x.terms) - 1 /\ (k - 1) + 1 = k
            BY <1>4, <5>2
          <6> QED BY <4>1, <6>1
        <5> QED BY <5>1, <5>2
      <4> QED BY <1>1, <1>3, <1>5, <3>2, <4>1, <4>2 DEF Through
    <3> QED BY <3>1, <3>2
  <2> QED BY <1>9, <1>11, <1>22, <2>1 DEF Pushed, SameBase
<1>23. PushedFound'
  <2> SUFFICES ASSUME NEW q \in Posts, NEW s \in Words, Pushed(q, s)'
               PROVE  so_index'[s] # NoDeque /\ (InDeque(q, s)' \/ Excused(q, s))
    BY <1>11 DEF PushedFound, SameBase
  <2>1. CASE q = p /\ s = t
    <3>1. so_index'[t] # NoDeque
      BY <1>4, <1>12, <1>16
    <3>2. CASE x.deque = "orphan"
      BY <1>12, <2>1, <3>1, <3>2 DEF Excused
    <3>3. CASE x.deque # "orphan"
      <4>1. so_index'[t] = Posted(so_index[t], p)
        BY <1>16, <3>3
      <4>2. InDeque(p, t)'
        BY <1>14, <4>1 DEF InDeque, PostedTo
      <4> QED BY <2>1, <3>1, <4>2
    <3> QED BY <3>2, <3>3
  <2>2. CASE ~(q = p /\ s = t)
    <3>1. so_index[s] # NoDeque /\ (InDeque(q, s) \/ Excused(q, s))
      BY <1>22, <2>2 DEF SearchInv, PushedFound
    <3>2. so_index'[s] # NoDeque
      BY <1>16, <3>1
    <3>3. CASE s # t \/ x.deque = "orphan"
      <4>1. so_index'[s] = so_index[s]
        BY <1>16, <3>3
      <4> QED BY <3>1, <3>2, <4>1 DEF InDeque
    <3>4. CASE s = t /\ x.deque # "orphan" /\ InDeque(q, s)
      <4>1. so_index'[t] = Posted(so_index[t], p)
        BY <1>16, <3>4
      <4>2. PICK i \in 1 .. Len(so_index[t]) : so_index[t][i] = q
        BY <3>4 DEF InDeque
      <4>3. q \in Current
        BY <1>13, <4>2 DEF Chain
      <4>4. LaterOf(t)[q] = Later(q, t)
        BY <4>3 DEF LaterOf
      <4>5. (\E j \in 1 .. Len(so_index'[t]) : so_index'[t][j] = q) \/ Cardinality(Later(q, t)) >= POSTING_CAP
        BY <1>14, <4>1, <4>2, <4>4 DEF PostedTo
      <4> QED BY <3>2, <3>4, <4>5 DEF InDeque, Excused
    <3> QED BY <3>1, <3>2, <3>3, <3>4
  <2> QED BY <2>1, <2>2
<1> QED BY <1>17, <1>18, <1>21, <1>23 DEF SearchInv

LEMMA FinishSearchInv ==
    ASSUME FanInv, SearchInv, NEW w \in Posters, FinishPost(w)
    PROVE  SearchInv'
<1>0. SocialTypes
  BY DEF FanInv
<1>1. PICK x : x = so_writer[w]
  OBVIOUS
<1>2. /\ x # NoTask /\ x.terms = <<>> /\ Writing(x)
      /\ so_writer' = [so_writer EXCEPT ![w] = NoTask] /\ so_acked' = so_acked \cup {x.post}
      /\ UNCHANGED <<so_rows, so_index, so_count, so_kept, so_before>>
  BY <1>1 DEF FinishPost, SearchInv, Writers
<1>3. so_writer'[w] = NoTask /\ \A v \in Posters \ {w} : so_writer'[v] = so_writer[v]
  BY <1>0, <1>2 DEF SocialTypes
<1>4. SameBase
  BY <1>2, BaseStays
<1>5. x.post \in Current
  BY <1>0, <1>1, <1>2, BusyPosts
<1>6. SearchTypes'
  BY <1>2, <1>4, <1>5 DEF SearchInv, SearchTypes, SameBase
<1>7. Deques'
  BY <1>2, <1>4 DEF SearchInv, Deques, SameBase
<1>8. Writers'
  <2> SUFFICES ASSUME NEW v \in Posters, so_writer'[v] # NoTask PROVE Writing(so_writer[v])'
    BY DEF Writers
  <2>1. PICK z : z = so_writer[v] /\ z = so_writer'[v]
    BY <1>3
  <2>2. Writing(z) /\ z.post # x.post
    BY <1>1, <1>2, <1>3, <2>1 DEF SearchInv, Writers, FanInv, PlacesApart
  <2>3. \A p, s, d : AtWord(p, s, d) => AtWord(p, s, d)'
    BY <1>2, <1>4 DEF AtWord, SameBase
  <2>4. Writing(z)'
    BY <1>2, <1>4, <2>2, <2>3 DEF Writing, SameBase
  <2> QED BY <2>1, <2>4
<1>9. ASSUME NEW p \in Posts, NEW t \in Words, Pushed(p, t)' PROVE Pushed(p, t)
  <2>1. \A v \in Posters : Through(so_writer'[v], p, t) => Through(so_writer[v], p, t)
    BY <1>3 DEF Through
  <2>2. p = x.post => Through(so_writer[w], p, t)
    <3>1. 1 .. Len(x.terms) = {}
      BY <1>2
    <3> QED BY <1>1, <1>2, <3>1 DEF Through
  <2> QED BY <1>2, <1>4, <1>9, <2>1, <2>2 DEF Pushed, SameBase
<1>10. PushedFound'
  BY <1>2, <1>4, <1>9 DEF SearchInv, PushedFound, SameBase, InDeque
<1> QED BY <1>6, <1>7, <1>8, <1>10 DEF SearchInv

LEMMA TokenizeFacts ==
    ASSUME NEW b \in Bodies
    PROVE  tokenize(b) \in Seq(Words) /\ \A t : t \in ToSet(tokenize(b)) <=> \E k \in 1 .. Len(tokenize(b)) : tokenize(b)[k] = t
<1>1. b \in Seq(Words) /\ Len(b) \in Nat
  BY SocialAssumption DEF Words
<1>2. PICK n \in 0 .. Len(b) : n = IF Len(b) < MAX_TERMS THEN Len(b) ELSE MAX_TERMS
  BY <1>1, SocialAssumption
<1>3. PICK r : r = tokenize(b)
  OBVIOUS
<1>4. r = SubSeq(b, 1, n)
  BY <1>2, <1>3 DEF tokenize
<1>5. r \in Seq(Words)
  BY <1>1, <1>2, <1>4
<1>6. ToSet(r) = {r[k] : k \in 1 .. Len(r)}
  BY <1>5 DEF ToSet
<1> QED BY <1>3, <1>5, <1>6

LEMMA InsertSearchInv ==
    ASSUME FanInv, SearchInv, NEW w \in Posters, NEW a \in Authors, NEW b \in Bodies, InsertPost(w, a, b)
    PROVE  SearchInv'
<1>0. SocialTypes
  BY DEF FanInv
<1>1. PICK p : p = so_count.posts + 1
  OBVIOUS
<1>2. PICK x : x = [post |-> p, author |-> a, terms |-> tokenize(b), deque |-> "unknown"]
  OBVIOUS
<1>3. /\ p \in Posts /\ so_writer[w] = NoTask
      /\ so_rows' = [so_rows EXCEPT ![p] = [author |-> a, body |-> b, live |-> TRUE]]
      /\ so_count' = [so_count EXCEPT !.posts = p]
      /\ so_writer' = [so_writer EXCEPT ![w] = x]
      /\ so_before' = [so_before EXCEPT ![p] = so_acked]
      /\ UNCHANGED <<so_index, so_acked, so_kept>>
  BY <1>1, <1>2 DEF InsertPost
<1>4. /\ so_count'.posts = p /\ so_count'.first = so_count.first /\ so_count.posts \in Nat /\ p \in Nat
      /\ so_count.first \in Nat /\ so_count.first <= so_count.posts
  BY <1>0, <1>1, <1>3 DEF SocialTypes, SearchInv, SearchTypes
<1>5. /\ so_rows'[p] # NoPost /\ so_rows'[p].body = b
      /\ so_rows'[p] \in PostRows /\ \A q \in Posts \ {p} : so_rows'[q] = so_rows[q]
  <2>1. PICK row : row = [author |-> a, body |-> b, live |-> TRUE]
    OBVIOUS
  <2>2. row \in PostRows /\ row.body = b
    BY <2>1 DEF PostRows
  <2>3. row # NoPost
    BY <2>2, SocialAssumption DEF PostRows
  <2>4. so_rows'[p] = row /\ \A q \in Posts \ {p} : so_rows'[q] = so_rows[q]
    BY <1>0, <1>3, <2>1 DEF SocialTypes
  <2> QED BY <2>2, <2>3, <2>4
<1>6. /\ so_before' = [q \in Posts |-> so_before'[q]] /\ so_before'[p] = so_acked
      /\ \A q \in Posts \ {p} : so_before'[q] = so_before[q]
  BY <1>3 DEF SearchInv, SearchTypes
<1>7. so_writer'[w] = x /\ \A v \in Posters \ {w} : so_writer'[v] = so_writer[v]
  BY <1>0, <1>3 DEF SocialTypes
<1>8. Inserted \subseteq Posts /\ p \notin Inserted /\ Inserted' = Inserted \cup {p}
  BY <1>0, <1>1, <1>4 DEF Inserted, SocialTypes
<1>9. Grown
  <2>1. \A q \in Inserted : q \in Posts \ {p}
    BY <1>8
  <2>2. \A q \in Inserted : so_before'[q] = so_before[q] /\ (so_rows'[q] # NoPost <=> so_rows[q] # NoPost)
                            /\ (so_rows[q] # NoPost => so_rows'[q].body = so_rows[q].body)
    BY <1>5, <1>6, <2>1
  <2>3. so_count'.posts \in Nat /\ so_count'.posts >= so_count.posts /\ so_count'.first = so_count.first /\ so_kept' = so_kept
    BY <1>1, <1>3, <1>4
  <2> QED BY <1>0, <2>2, <2>3, Growing DEF SearchInv
<1>10. Current' = Current \cup {p} /\ p \notin Current
  <2>1. ((so_count.first + 1) .. p) = ((so_count.first + 1) .. so_count.posts) \cup {p}
    BY <1>1, <1>4
  <2>2. Current \subseteq Inserted
    BY <1>9 DEF Grown
  <2> QED BY <1>3, <1>4, <1>8, <2>1, <2>2 DEF Current
<1>11. SearchTypes'
  <2>1. \A q \in Posts : so_before'[q] \subseteq so_acked'
    BY <1>3, <1>6 DEF SearchInv, SearchTypes
  <2>2. \A q \in Posts : so_rows'[q] # NoPost => q \in Inserted' /\ so_rows'[q] \in PostRows
    BY <1>5, <1>8 DEF SearchInv, SearchTypes
  <2>3. so_count'.first \in Nat /\ so_count'.first <= so_count'.posts
    BY <1>1, <1>4
  <2> QED BY <1>3, <1>4, <1>6, <1>10, <2>1, <2>2, <2>3 DEF SearchInv, SearchTypes
<1>12. Deques'
  <2> SUFFICES ASSUME NEW t \in Words, so_index[t] # NoDeque
               PROVE  Chain(so_index[t], Current', LaterOf(t)') /\ Len(so_index[t]) <= POSTING_CAP
    BY <1>3 DEF Deques
  <2> QED BY <1>9, DequeGrows DEF SearchInv, Deques
<1>13. \A t : HasTerm(p, t)' <=> \E k \in 1 .. Len(x.terms) : x.terms[k] = t
  <2>1. x.terms = tokenize(b)
    BY <1>2
  <2> QED BY <1>5, <2>1, TokenizeFacts DEF HasTerm
<1>14. Writing(x)'
  <2>1. x.post = p /\ x.terms = tokenize(b) /\ x.deque = "unknown"
    BY <1>2
  <2>2. x.terms \in Seq(Words)
    BY <2>1, TokenizeFacts
  <2>3. p \in (so_count'.first + 1) .. so_count'.posts
    BY <1>1, <1>4
  <2>4. p \notin so_acked'
    BY <1>0, <1>3, <1>10, BusyPosts
  <2>5. AtWord(x.post, x.terms[1], x.deque)'
    BY <2>1 DEF AtWord
  <2> QED BY <1>13, <2>1, <2>2, <2>3, <2>4, <2>5 DEF Writing
<1>15. Writers'
  <2> SUFFICES ASSUME NEW v \in Posters, so_writer'[v] # NoTask PROVE Writing(so_writer[v])'
    BY DEF Writers
  <2>1. CASE v = w
    BY <1>7, <1>14, <2>1
  <2>2. CASE v # w
    <3>1. PICK z : z = so_writer[v] /\ z = so_writer'[v]
      BY <1>7, <2>2
    <3>2. Writing(z) /\ z.post \in Current
      BY <1>0, <3>1, BusyPosts DEF SearchInv, Writers
    <3>3. so_before[z.post] \subseteq Current /\ so_before'[z.post] = so_before[z.post]
      BY <1>0, <1>6, <1>10, <3>2, BusyPosts
    <3>4. z.terms # <<>> => AtWord(z.post, z.terms[1], z.deque)'
      BY <1>3, <1>9, <3>2, <3>3, AtWordGrows DEF Writing
    <3>5. \A k \in 1 .. Len(z.terms) : HasTerm(z.post, z.terms[k])'
      BY <1>9, <3>2 DEF Writing, Grown
    <3>6. z.post \in (so_count'.first + 1) .. so_count'.posts
      BY <1>1, <1>4, <3>2 DEF Writing
    <3>7. z.post \notin so_acked' /\ z.terms \in Seq(Words)
      BY <1>3, <3>2 DEF Writing
    <3>8. Writing(z)'
      BY <3>4, <3>5, <3>6, <3>7 DEF Writing
    <3> QED BY <3>1, <3>8
  <2> QED BY <2>1, <2>2
<1>16. PushedFound'
  <2> SUFFICES ASSUME NEW q \in Posts, NEW t \in Words, Pushed(q, t)'
               PROVE  so_index'[t] # NoDeque /\ (InDeque(q, t)' \/ Excused(q, t)')
    BY DEF PushedFound
  <2>1. q \in so_acked \/ \E v \in Posters \ {w} : Through(so_writer[v], q, t)
    <3>1. ~Through(x, q, t)
      <4>1. x.post = p
        BY <1>2
      <4> QED BY <1>13, <4>1 DEF Pushed, Through
    <3> QED BY <1>3, <1>7, <3>1 DEF Pushed
  <2>2. q \in Current
    BY <1>0, <2>1, BusyPosts DEF Through
  <2>3. Pushed(q, t)
    BY <1>9, <2>1, <2>2 DEF Pushed, Grown
  <2>4. so_index[t] # NoDeque /\ (InDeque(q, t) \/ Excused(q, t))
    BY <2>3 DEF SearchInv, PushedFound
  <2> QED BY <1>3, <1>9, <2>2, <2>4 DEF InDeque, Grown
<1> QED BY <1>11, <1>12, <1>15, <1>16 DEF SearchInv

LEMMA RestartSearchInv ==
    ASSUME FanInv, SearchInv, Restart
    PROVE  SearchInv'
<1>0. SocialTypes
  BY DEF FanInv
<1>1. PICK keep \in SUBSET LivePosts :
         /\ so_rows' = [p \in Posts |-> IF so_rows[p] = NoPost THEN NoPost
                                        ELSE [so_rows[p] EXCEPT !.live = p \in keep]]
         /\ \E order \in SetToSeqs(keep) : so_index' = rebuild_search_index(order)
         /\ so_acked' = keep /\ so_kept' = keep
         /\ so_before' = [p \in Posts |-> IF p \in keep THEN keep ELSE {}]
  BY DEF Restart
<1>2. so_writer' = [w \in Posters |-> NoTask] /\ so_count' = [so_count EXCEPT !.restarts = @ + 1, !.first = so_count.posts]
  BY DEF Restart
<1>3. so_count'.posts = so_count.posts /\ so_count'.first = so_count.posts /\ so_count.posts \in Nat
  BY <1>0, <1>2 DEF SocialTypes
<1>4. Inserted' = Inserted /\ keep \subseteq Inserted /\ keep \subseteq Posts /\ \A p \in keep : so_rows[p] # NoPost
  BY <1>1, <1>3 DEF LivePosts, SearchInv, SearchTypes, Inserted
<1>5. Current' = keep
  <2>1. ((so_count'.first + 1) .. so_count'.posts) = {}
    BY <1>3
  <2> QED BY <1>1, <2>1 DEF Current
<1>6. ASSUME NEW p \in Posts
      PROVE  /\ so_rows'[p] # NoPost <=> so_rows[p] # NoPost
             /\ so_rows[p] # NoPost => so_rows'[p].body = so_rows[p].body /\ so_rows'[p] \in PostRows
  <2>1. CASE so_rows[p] = NoPost
    BY <1>1, <2>1
  <2>2. CASE so_rows[p] # NoPost
    <3>1. so_rows[p] \in PostRows
      BY <2>2 DEF SearchInv, SearchTypes
    <3>a. (p \in keep) \in BOOLEAN
      OBVIOUS
    <3>0. PICK live \in BOOLEAN : live = (p \in keep)
      BY <3>a
    <3>2. PICK row : row = [so_rows[p] EXCEPT !.live = live]
      OBVIOUS
    <3>3. row.body = so_rows[p].body /\ row \in PostRows
      BY <3>1, <3>2 DEF PostRows
    <3>4. so_rows'[p] = row
      BY <1>1, <2>2, <3>0, <3>2
    <3> QED BY <2>2, <3>3, <3>4, SocialAssumption DEF PostRows
  <2> QED BY <2>1, <2>2
<1>7. \A t : \A p \in Posts : HasTerm(p, t)' <=> HasTerm(p, t)
  BY <1>6 DEF HasTerm
<1>8. SearchTypes'
  <2>1. so_index' = [t \in Words |-> so_index'[t]]
    <3>1. PICK order : so_index' = rebuild_search_index(order)
      BY <1>1
    <3> QED BY <3>1 DEF rebuild_search_index
  <2>2. \A p \in Posts : so_rows'[p] # NoPost => p \in Inserted' /\ so_rows'[p] \in PostRows
    BY <1>4, <1>6 DEF SearchInv, SearchTypes
  <2>3. so_before' = [p \in Posts |-> so_before'[p]] /\ \A p \in Posts : so_before'[p] \subseteq so_acked'
    BY <1>1
  <2>4. so_kept' \subseteq 1 .. so_count'.first
    BY <1>1, <1>3, <1>4 DEF Inserted
  <2>5. so_count'.first \in Nat /\ so_count'.first <= so_count'.posts
    BY <1>3
  <2>6. so_kept' \subseteq so_acked' /\ so_acked' \subseteq Current'
    BY <1>1, <1>5
  <2> QED BY <2>1, <2>2, <2>3, <2>4, <2>5, <2>6 DEF SearchTypes
<1>9. ASSUME NEW x \in keep, NEW t
      PROVE  Later(x, t)' = {y \in keep : y # x /\ HasTerm(y, t)}
  <2>1. \A y \in keep : {y, x} \subseteq so_kept'
    BY <1>1
  <2>2. Later(x, t)' = {y \in Current' : y # x /\ HasTerm(y, t)' /\ (y \notin so_before'[x] \/ {y, x} \subseteq so_kept')}
    BY DEF Later, Current
  <2> QED BY <1>4, <1>5, <1>7, <2>1, <2>2
<1>10. ASSUME NEW t PROVE Newer(LaterOf(t)', keep) /\ \A x \in keep : LaterOf(t)'[x] = Later(x, t)'
  <2>1. \A x \in keep : LaterOf(t)'[x] = Later(x, t)'
    BY <1>5 DEF LaterOf
  <2>2. ASSUME NEW x \in keep PROVE IsFiniteSet(Later(x, t)') /\ x \notin Later(x, t)'
    <3>1. keep \subseteq 1 .. so_count.posts
      BY <1>4 DEF Inserted
    <3>2. Later(x, t)' \subseteq keep
      BY <1>9
    <3>3. IsFiniteSet(Later(x, t)')
      <4>1. IsFiniteSet(1 .. so_count.posts)
        BY <1>3, FS_Interval
      <4>2. Later(x, t)' \subseteq 1 .. so_count.posts
        BY <3>1, <3>2
      <4> QED BY <4>1, <4>2, FS_Subset
    <3> QED BY <1>9, <3>3
  <2> QED BY <2>1, <2>2 DEF Newer
<1>11. IsFiniteSet(keep)
  <2>1. IsFiniteSet(1 .. so_count.posts) /\ keep \subseteq 1 .. so_count.posts
    BY <1>3, <1>4, FS_Interval DEF Inserted
  <2> QED BY <2>1, FS_Subset
<1>12. PICK order \in Seq(keep) : Lists(order, keep) /\ so_index' = rebuild_search_index(order)
  BY <1>1, <1>11, SetToSeqsLists
<1>13. ASSUME NEW t \in Words PROVE RebuiltOf(so_index'[t], order, t, Len(order), keep, LaterOf(t)')
  <2>1. ASSUME NEW x \in keep, NEW y \in keep, x # y, HasTerm(y, t) PROVE y \in LaterOf(t)'[x]
    BY <1>9, <1>10, <2>1
  <2> QED BY <1>4, <1>10, <1>12, <2>1, RebuiltFacts
<1>14. Deques'
  BY <1>5, <1>13 DEF Deques, RebuiltOf
<1>15. Writers'
  BY <1>2 DEF Writers
<1>16. PushedFound'
  <2> SUFFICES ASSUME NEW p \in Posts, NEW t \in Words, Pushed(p, t)'
               PROVE  so_index'[t] # NoDeque /\ (InDeque(p, t)' \/ Excused(p, t)')
    BY DEF PushedFound
  <2>1. p \in keep /\ HasTerm(p, t)
    BY <1>1, <1>2, <1>7 DEF Pushed, Through
  <2>2. PICK i \in 1 .. Len(order) : order[i] = p
    BY <1>12, <2>1 DEF Lists
  <2>3. so_index'[t] # NoDeque
    BY <1>13, <2>1, <2>2 DEF RebuiltOf
  <2>4. (\E j \in 1 .. Len(so_index'[t]) : so_index'[t][j] = p) \/ Cardinality(LaterOf(t)'[p]) >= POSTING_CAP
    BY <1>13, <2>1, <2>2, <2>3 DEF RebuiltOf
  <2> QED BY <1>10, <2>1, <2>3, <2>4 DEF InDeque, Excused
<1> QED BY <1>8, <1>14, <1>15, <1>16 DEF SearchInv

LEMMA SearchInit == SocialInit => SearchInv
<1> SUFFICES ASSUME SocialInit PROVE SearchInv
  OBVIOUS
<1>1. so_count.first = 0 /\ so_count.posts = 0 /\ so_kept = {} /\ so_acked = {}
  BY DEF SocialInit
<1>2. SearchTypes
  BY <1>1 DEF SocialInit, SearchTypes
<1>3. Deques /\ Writers
  BY DEF SocialInit, Deques, Writers
<1>4. \A p \in Posts, t \in Words : ~Pushed(p, t)
  BY DEF SocialInit, Pushed, HasTerm
<1> QED BY <1>2, <1>3, <1>4 DEF SearchInv, PushedFound

LEMMA SearchStep == FanInv /\ SearchInv /\ [SocialNext]_social_vars => SearchInv'
<1> SUFFICES ASSUME FanInv, SearchInv, [SocialNext]_social_vars PROVE SearchInv'
  OBVIOUS
<1>0. SocialTypes
  BY DEF FanInv
<1>1. CASE PostNext
  BY <1>0, <1>1, InsertSearchInv, FindDequeInv, ListDequeInv, PushPostingInv, FinishSearchInv DEF PostNext
<1>2. ASSUME UNCHANGED <<so_index, so_writer, so_acked, so_kept, so_before, so_rows>>,
             so_count'.posts = so_count.posts, so_count'.first = so_count.first
      PROVE  SearchInv'
  <2>1. \A p \in Posts : so_rows[p] # NoPost => so_rows'[p] \in PostRows
    BY <1>2 DEF SearchInv, SearchTypes
  <2> QED BY <1>0, <1>2, <2>1, QuietInv
<1>3. ASSUME NEW p \in Posts, DeletePost(p) PROVE SearchInv'
  <2>1. /\ so_rows[p] # NoPost /\ so_rows' = [so_rows EXCEPT ![p].live = FALSE]
        /\ so_count' = [so_count EXCEPT !.deletes = @ + 1]
        /\ UNCHANGED <<so_index, so_writer, so_acked, so_kept, so_before>>
    BY <1>3 DEF DeletePost, LivePosts, history_vars
  <2>2. so_count'.posts = so_count.posts /\ so_count'.first = so_count.first
    BY <1>0, <2>1 DEF SocialTypes
  <2>3. so_rows[p] \in PostRows
    BY <2>1 DEF SearchInv, SearchTypes
  <2>4. PICK row : row = [so_rows[p] EXCEPT !.live = FALSE]
    OBVIOUS
  <2>5. row \in PostRows /\ row.body = so_rows[p].body /\ row # NoPost
    <3>1. row \in PostRows /\ row.body = so_rows[p].body
      BY <2>3, <2>4 DEF PostRows
    <3> QED BY <3>1, SocialAssumption DEF PostRows
  <2>6. so_rows'[p] = row /\ \A q \in Posts \ {p} : so_rows'[q] = so_rows[q]
    BY <1>0, <2>1, <2>4 DEF SocialTypes
  <2>7. \A q \in Posts : /\ so_rows'[q] # NoPost <=> so_rows[q] # NoPost
                         /\ so_rows[q] # NoPost => so_rows'[q].body = so_rows[q].body /\ so_rows'[q] \in PostRows
    BY <2>1, <2>5, <2>6 DEF SearchInv, SearchTypes
  <2> QED BY <1>0, <2>1, <2>2, <2>7, QuietInv
<1>4. CASE FollowNext
  <2>1. PICK t \in FollowTables, f \in Followings : ChangeFollow(t, f)
    BY <1>4 DEF FollowNext
  <2>2. so_count'.posts = so_count.posts /\ so_count'.first = so_count.first
    BY <1>0, <2>1 DEF ChangeFollow, SocialTypes
  <2> QED BY <1>2, <2>1, <2>2 DEF ChangeFollow
<1>5. CASE install_fanout \/ UNCHANGED social_vars
  BY <1>2, <1>5 DEF install_fanout, social_vars, history_vars
<1>6. CASE FanNext
  BY <1>2, <1>6 DEF FanNext, FanTake, FanScan, FanInsert, FanDone, history_vars
<1> QED BY <1>1, <1>3, <1>4, <1>5, <1>6, RestartSearchInv DEF SocialNext

----------------------------------------------------------------------------
\* The answer.

\* The last n entries of a chain: an entry before them is older than n others.
LEMMA LastEntries ==
    ASSUME NEW X, NEW L, Newer(L, X), NEW q, Chain(q, X, L), NEW n \in Nat \ {0},
           NEW i \in 1 .. Len(q), Cardinality(L[q[i]]) < n
    PROVE  q[i] \in ToSet(SubSeq(q, IF Len(q) > n THEN Len(q) - n + 1 ELSE 1, Len(q)))
<1>1. q \in Seq(X) /\ Len(q) \in Nat /\ q[i] \in X
  BY DEF Chain
<1>0. PICK len \in Nat : len = Len(q)
  BY <1>1
<1>2. PICK m \in 1 .. Len(q) : m = IF Len(q) > n THEN Len(q) - n + 1 ELSE 1
  <2>1. len > n => len - n + 1 \in 1 .. len
    OBVIOUS
  <2>2. 1 \in 1 .. len
    BY <1>0
  <2> QED BY <1>0, <2>1, <2>2
<1>3. Cardinality(L[q[i]]) \in Nat
  BY <1>1, FS_CardinalityType DEF Newer
<1>4. i >= m
  <2> SUFFICES ASSUME i < m PROVE FALSE
    BY <1>1
  <2>1. n <= Len(q) - i
    BY <1>1, <1>2
  <2>2. Cardinality(L[q[i]]) >= n
    BY <2>1, CountNewer
  <2> QED BY <1>3, <2>2
<1>5. PICK r : r = SubSeq(q, m, Len(q))
  OBVIOUS
<1>6. r \in Seq(X) /\ Len(r) = Len(q) - m + 1 /\ \A k \in 1 .. Len(r) : r[k] = q[m + k - 1]
  <2>1. m - 1 \in Nat /\ m - 1 <= len /\ (m - 1) + 1 = m /\ len <= Len(q)
    BY <1>0, <1>2
  <2>2. r = SubSeq(q, (m - 1) + 1, len)
    BY <1>0, <1>5, <2>1
  <2>3. r \in Seq(X) /\ IsSlice(r, q, m - 1, len)
    BY <1>1, <2>1, <2>2, Slice
  <2>4. Len(r) = len - (m - 1) /\ \A k \in 1 .. len - (m - 1) : r[k] = q[(m - 1) + k]
    BY <2>3 DEF IsSlice
  <2>5. \A k \in 1 .. len - (m - 1) : (m - 1) + k = m + k - 1
    BY <1>2
  <2>6. len - (m - 1) = len - m + 1
    BY <1>0, <1>2
  <2> QED BY <1>0, <2>3, <2>4, <2>5, <2>6
<1>7. i - m + 1 \in 1 .. Len(r) /\ m + (i - m + 1) - 1 = i
  BY <1>1, <1>4, <1>6
<1>8. r[i - m + 1] = q[i]
  BY <1>6, <1>7
<1>9. ToSet(r) = {r[k] : k \in 1 .. Len(r)}
  <2>1. r \in Seq(X)
    BY <1>6
  <2> QED BY <2>1 DEF ToSet
<1> QED BY <1>2, <1>5, <1>7, <1>8, <1>9

LEMMA SearchInvImplies == SocialTypes /\ SearchInv => SearchFindsPosts
<1> SUFFICES ASSUME SocialTypes, SearchInv,
                    NEW p \in so_acked \cap LivePosts, NEW t \in Words, NEW u \in Words, NEW limit \in 0 .. MAX_HITS + 1,
                    HasTerm(p, t), HasTerm(p, u),
                    \A x \in {t, u} : /\ ~(Cardinality(Later(p, x)) >= POSTING_CAP)
                                      /\ ~(Cardinality(Later(p, x)) >= Clamped(limit))
                                      /\ ~FirstRace(p, x)
             PROVE  p \in SearchAnswer(IF t = u THEN <<t>> ELSE <<t, u>>, limit)
  BY DEF SearchFindsPosts
<1>1. p \in Posts /\ p \in Current /\ p \in so_acked /\ p \in LivePosts
  BY BusyPosts DEF LivePosts
<1>2. PICK n \in Nat \ {0} : n = Clamped(limit)
  <2>1. MAX_HITS \in Nat \ {0}
    BY SocialAssumption
  <2> QED BY <2>1 DEF Clamped
<1>3. ASSUME NEW x \in {t, u}
      PROVE  /\ so_index[x] # NoDeque /\ InDeque(p, x) /\ Chain(so_index[x], Current, LaterOf(x))
             /\ Postings(x) = so_index[x]
  <2>1. Pushed(p, x) /\ x \in Words
    BY <1>1 DEF Pushed
  <2>2. so_index[x] # NoDeque /\ (InDeque(p, x) \/ Excused(p, x))
    BY <1>1, <2>1 DEF SearchInv, PushedFound
  <2>3. ~Excused(p, x)
    BY DEF Excused
  <2> QED BY <2>1, <2>2, <2>3 DEF SearchInv, Deques, Postings
<1>4. Newer(LaterOf(t), Current)
  <2>1. so_count.first \in Nat /\ so_count.posts \in Nat /\ so_kept \subseteq 1 .. so_count.first
    BY DEF SocialTypes, SearchInv, SearchTypes
  <2>2. \A x \in Current : Later(x, t) \subseteq so_kept \cup ((so_count.first + 1) .. so_count.posts)
    BY DEF Later
  <2>3. \A x \in Current : IsFiniteSet(Later(x, t)) /\ x \notin Later(x, t)
    <3>1. \A x \in Current : IsFiniteSet(Later(x, t))
      BY <2>1, <2>2, LaterFinite
    <3>2. \A x \in Current : x \notin Later(x, t)
      BY DEF Later
    <3> QED BY <3>1, <3>2
  <2> QED BY <2>3 DEF Newer, LaterOf
<1>5. Cardinality(LaterOf(t)[p]) < n
  <2>1. LaterOf(t)[p] = Later(p, t)
    BY <1>1 DEF LaterOf
  <2>2. Cardinality(Later(p, t)) \in Nat
    BY <1>1, <1>4, <2>1, FS_CardinalityType DEF Newer
  <2>3. ~(Cardinality(Later(p, t)) >= n)
    BY <1>2
  <2> QED BY <2>1, <2>2, <2>3
<1>6. PICK hits : hits = IF t = u THEN Postings(t) ELSE Selected(Postings(t), ToSet(Postings(u)))
  OBVIOUS
<1>7. Chain(hits, Current, LaterOf(t)) /\ \E i \in 1 .. Len(hits) : hits[i] = p
  <2>1. CASE t = u
    BY <1>3, <1>6, <2>1 DEF InDeque
  <2>2. CASE t # u
    <3>1. PICK S : S = ToSet(so_index[u])
      OBVIOUS
    <3>2. p \in S
      <4>1. so_index[u] \in Seq(Current) /\ InDeque(p, u)
        BY <1>3 DEF Chain
      <4> QED BY <3>1, <4>1 DEF ToSet, InDeque
    <3>3. PICK q : q = so_index[t]
      OBVIOUS
    <3>4. Chain(q, Current, LaterOf(t)) /\ \E i \in 1 .. Len(q) : q[i] = p
      BY <1>3, <3>3 DEF InDeque
    <3>5. hits = Selected(q, S)
      BY <1>3, <1>6, <2>2, <3>1, <3>3
    <3>6. Chain(hits, Current, LaterOf(t)) /\ \A i \in 1 .. Len(q) : q[i] \in S => \E j \in 1 .. Len(hits) : hits[j] = q[i]
      <4>1. PICK X, L : X = Current /\ L = LaterOf(t)
        OBVIOUS
      <4>2. Chain(q, X, L)
        BY <3>4, <4>1
      <4>3. Chain(hits, X, L) /\ \A i \in 1 .. Len(q) : q[i] \in S => \E j \in 1 .. Len(hits) : hits[j] = q[i]
        BY <3>5, <4>2, ChainFiltered
      <4> QED BY <4>1, <4>3
    <3> QED BY <3>2, <3>4, <3>6
  <2> QED BY <2>1, <2>2
<1>8. PICK i \in 1 .. Len(hits) : hits[i] = p
  BY <1>7
<1>9. p \in ToSet(SubSeq(hits, IF Len(hits) > n THEN Len(hits) - n + 1 ELSE 1, Len(hits)))
  BY <1>4, <1>5, <1>7, <1>8, LastEntries
<1>10. search_posts(IF t = u THEN <<t>> ELSE <<t, u>>, limit)
         = SubSeq(hits, IF Len(hits) > n THEN Len(hits) - n + 1 ELSE 1, Len(hits))
  <2>1. CASE t = u
    BY <1>2, <1>6, <2>1 DEF search_posts
  <2>2. CASE t # u
    BY <1>2, <1>6, <2>2 DEF search_posts
  <2> QED BY <2>1, <2>2
<1> QED BY <1>1, <1>9, <1>10 DEF SearchAnswer

(* A search finds every acknowledged post that is still there: whatever    *)
(* requests race in index_post and however often the server restarts and   *)
(* rebuilds the index in any order, only as many newer posts as the        *)
(* postings or the answer can hold, or the race of two requests that both  *)
(* found no postings for the term, can hide it.                            *)
THEOREM SearchAlwaysFinds == SocialSpec => []SearchFindsPosts
<1>1. FanInv /\ [SocialNext]_social_vars => FanInv'
  BY FanStep
<1>2. FanInv => SocialTypes
  BY DEF FanInv
<1> QED BY FanInit, SearchInit, SearchStep, SearchInvImplies, <1>1, <1>2, PTL DEF SocialSpec
===============================================================================
