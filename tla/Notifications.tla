---------------------------- MODULE Notifications ----------------------------
(***************************************************************************)
(* The in-process interface for rows: insert_row and delete_row change the *)
(* table, then emit an event, then notify the subscriptions.  The three    *)
(* steps take different locks, so calls interleave between them.  The      *)
(* event emitter calls its subscribers, buffers and keeps a history under  *)
(* one lock; the subscription manager does the same with row deltas under  *)
(* its own.                                                                *)
(*                                                                         *)
(* One table "t"; ids are never used twice.  A callback of a subscription  *)
(* keeps a copy of the table's ids.                                        *)
(***************************************************************************)
EXTENDS Integers, Sequences, FiniteSets

CONSTANTS
    RowCallers,   \* threads that call insert_row and delete_row
    MaxRows,      \* bound: rows inserted
    RowColumns,   \* columns of the table
    Subscribers,  \* subscriptions of row deltas
    Filters,      \* their filters: [tables, changes, columns], each a set or Unrestricted
    Listeners,    \* subscribers of events
    EventFilters, \* their filters: [kinds, tables]
    MaxToggles,   \* bound: subscriptions made
    MaxDrains,    \* bound: drains of the event buffer
    max_history, max_log_size,
    Unrestricted, Off, NoCall

(* The call of a thread: what it did to the table and how far it is.       *)
RowCalls == [change : {"Insert", "Delete"}, row : Nat, at : {"emit", "notify"}]

ASSUME NotificationsAssumption ==
    /\ MaxRows \in Nat /\ MaxToggles \in Nat /\ MaxDrains \in Nat
    /\ max_history \in Nat /\ max_log_size \in Nat
    /\ IsFiniteSet(RowCallers) /\ NoCall \notin RowCalls

VARIABLES
    n_rows,      \* ids of the rows of the table
    n_next,      \* rows inserted so far
    n_call,      \* n_call[c]: the call of thread c
    n_listen,    \* n_listen[l]: the filter of event subscriber l, or Off
    n_buffer,    \* events not drained yet
    n_drained,   \* history: events drained, and how often
    n_history,   \* the emitter's history
    n_heard,     \* history: n_heard[l]: events that l was called with
    n_subs,      \* n_subs[s]: the filter of subscription s, or Off
    n_log,       \* the manager's change log
    n_copy,      \* n_copy[s]: the ids the callback of s has in its copy
    n_toggles    \* subscriptions made so far

notify_vars ==
    <<n_rows, n_next, n_call, n_listen, n_buffer, n_drained, n_history, n_heard, n_subs, n_log,
      n_copy, n_toggles>>
emitter_vars == <<n_listen, n_buffer, n_drained, n_history, n_heard>>
manager_vars == <<n_subs, n_log, n_copy>>

Newest(s, n) == IF Len(s) > n THEN SubSeq(s, Len(s) - n + 1, Len(s)) ELSE s
Allows(set, x) == set = Unrestricted \/ x \in set

NotificationsInit ==
    /\ n_rows = {} /\ n_next = 0
    /\ n_call = [c \in RowCallers |-> NoCall]
    /\ n_listen = [l \in Listeners |-> Off]
    /\ n_buffer = <<>> /\ n_history = <<>>
    /\ n_drained = [events |-> <<>>, times |-> 0]
    /\ n_heard = [l \in Listeners |-> <<>>]
    /\ n_subs = [s \in Subscribers |-> Off]
    /\ n_log = <<>>
    /\ n_copy = [s \in Subscribers |-> {}]
    /\ n_toggles = 0

----------------------------------------------------------------------------
(* The event emitter.                                                      *)

EventMatches(f, e) == Allows(f.kinds, e.kind) /\ Allows(f.tables, "t")

Kept(events) == Newest(events, max_history)

emit(e) ==
    /\ n_heard' = [l \in Listeners |-> IF n_listen[l] # Off /\ EventMatches(n_listen[l], e)
                                       THEN Append(n_heard[l], e) ELSE n_heard[l]]
    /\ n_buffer' = Append(n_buffer, e)
    /\ n_history' = Kept(Append(n_history, e))
    /\ UNCHANGED <<n_listen, n_drained>>

subscribe_events(l, f) ==
    /\ n_toggles < MaxToggles
    /\ n_listen' = [n_listen EXCEPT ![l] = f]
    /\ n_toggles' = n_toggles + 1
    /\ UNCHANGED <<n_rows, n_next, n_call, n_buffer, n_drained, n_history, n_heard, manager_vars>>

unsubscribe_events(l) ==
    /\ n_listen[l] # Off
    /\ n_listen' = [n_listen EXCEPT ![l] = Off]
    /\ UNCHANGED <<n_rows, n_next, n_call, n_buffer, n_drained, n_history, n_heard, n_toggles,
                   manager_vars>>

clear_subscribers ==
    /\ \E l \in Listeners : n_listen[l] # Off
    /\ n_listen' = [l \in Listeners |-> Off]
    /\ UNCHANGED <<n_rows, n_next, n_call, n_buffer, n_drained, n_history, n_heard, n_toggles,
                   manager_vars>>

drain ==
    /\ n_drained.times < MaxDrains
    /\ n_drained' = [events |-> n_drained.events \o n_buffer, times |-> n_drained.times + 1]
    /\ n_buffer' = <<>>
    /\ UNCHANGED <<n_rows, n_next, n_call, n_listen, n_history, n_heard, n_toggles, manager_vars>>

----------------------------------------------------------------------------
(* The subscription manager.  The delta of an insert or a delete lists all *)
(* the columns.                                                            *)

matches(f, d) ==
    /\ Allows(f.tables, "t")
    /\ Allows(f.changes, d.change)
    /\ f.columns = Unrestricted \/ RowColumns \cap f.columns # {}

notify(d) ==
    /\ n_copy' = [s \in Subscribers |->
          IF n_subs[s] = Off \/ ~matches(n_subs[s], d) THEN n_copy[s]
          ELSE IF d.change = "Insert" THEN n_copy[s] \cup {d.row} ELSE n_copy[s] \ {d.row}]
    /\ n_log' = Newest(Append(n_log, d), max_log_size)
    /\ UNCHANGED n_subs

(* A subscriber begins with a scan of the table.                           *)
subscribe(s, f) ==
    /\ n_subs[s] = Off
    /\ n_toggles < MaxToggles
    /\ n_subs' = [n_subs EXCEPT ![s] = f]
    /\ n_copy' = [n_copy EXCEPT ![s] = n_rows]
    /\ n_toggles' = n_toggles + 1
    /\ UNCHANGED <<n_rows, n_next, n_call, n_log, emitter_vars>>

unsubscribe(s) ==
    /\ n_subs[s] # Off
    /\ n_subs' = [n_subs EXCEPT ![s] = Off]
    /\ UNCHANGED <<n_rows, n_next, n_call, n_log, n_copy, n_toggles, emitter_vars>>

clear ==
    /\ \E s \in Subscribers : n_subs[s] # Off
    /\ n_subs' = [s \in Subscribers |-> Off]
    /\ UNCHANGED <<n_rows, n_next, n_call, n_log, n_copy, n_toggles, emitter_vars>>

----------------------------------------------------------------------------
(* The calls.                                                              *)

insert_row(c) ==
    /\ n_call[c] = NoCall
    /\ n_next < MaxRows
    /\ n_next' = n_next + 1
    /\ n_rows' = n_rows \cup {n_next + 1}
    /\ n_call' = [n_call EXCEPT ![c] = [change |-> "Insert", row |-> n_next + 1, at |-> "emit"]]
    /\ UNCHANGED <<n_toggles, emitter_vars, manager_vars>>

(* A row that is not there is left alone, without event and delta.         *)
delete_row(c, r) ==
    /\ n_call[c] = NoCall
    /\ r \in n_rows
    /\ n_rows' = n_rows \ {r}
    /\ n_call' = [n_call EXCEPT ![c] = [change |-> "Delete", row |-> r, at |-> "emit"]]
    /\ UNCHANGED <<n_next, n_toggles, emitter_vars, manager_vars>>

(* The event of a call and its delta.  The code's events name the table    *)
(* and not the row: the row is there to tell them apart, as their ids do.  *)
EventOf(call) == [kind |-> call.change, row |-> call.row]
DeltaOf(call) == [change |-> call.change, row |-> call.row]

EmitEvent(c) ==
    /\ n_call[c] # NoCall /\ n_call[c].at = "emit"
    /\ emit(EventOf(n_call[c]))
    /\ n_call' = [n_call EXCEPT ![c] = [change |-> @.change, row |-> @.row, at |-> "notify"]]
    /\ UNCHANGED <<n_rows, n_next, n_toggles, manager_vars>>

(* Variant: the delta of an insert is made of the row as it was inserted.  *)
HasDelta_always(call) == TRUE

(* An insert reads the row again, under the manager's lock: a row that was *)
(* deleted meanwhile has no delta.  A delete has the row it took.          *)
HasDelta(call) == call.change = "Insert" => call.row \in n_rows

NotifyDelta(c) ==
    LET call == n_call[c] IN
    /\ call # NoCall /\ call.at = "notify"
    /\ IF HasDelta(call) THEN notify(DeltaOf(call))
                         ELSE UNCHANGED manager_vars
    /\ n_call' = [n_call EXCEPT ![c] = NoCall]
    /\ UNCHANGED <<n_rows, n_next, n_toggles, emitter_vars>>

NotificationsNext ==
    \/ \E c \in RowCallers :
         insert_row(c) \/ (\E r \in 1 .. MaxRows : delete_row(c, r)) \/ EmitEvent(c) \/ NotifyDelta(c)
    \/ \E s \in Subscribers : unsubscribe(s) \/ \E f \in Filters : subscribe(s, f)
    \/ \E l \in Listeners : unsubscribe_events(l) \/ \E f \in EventFilters : subscribe_events(l, f)
    \/ clear \/ clear_subscribers \/ drain

NotificationsSpec == NotificationsInit /\ [][NotificationsNext]_notify_vars

----------------------------------------------------------------------------
Quiet == \A c \in RowCallers : n_call[c] = NoCall

AllEvents == n_drained.events \o n_buffer

(* The events of h are events of all, in the same order.                   *)
InOrder(h, all) ==
    \A j \in 1 .. Len(h) : \E b \in 1 .. Len(all) :
        h[j] = all[b] /\ \A i \in 1 .. (j - 1) : \E a \in 1 .. (b - 1) : h[i] = all[a]

(* Whenever no call is under way, a subscriber that applies the deltas it  *)
(* gets has exactly the table's rows, whenever it subscribed and however   *)
(* inserts and deletes of one row crossed on their way to it; every change *)
(* of the table is one event, drained or buffered; the history is the      *)
(* newest of them; no event is there twice, and listeners heard theirs in  *)
(* that order.                                                             *)
SubscribersFollow ==
    Quiet =>
      /\ \A s \in Subscribers :
           n_subs[s] # Off /\ (\A ch \in {"Insert", "Delete"} : matches(n_subs[s], [change |-> ch]))
             => n_copy[s] = n_rows
      /\ {r \in 1 .. n_next : \E i \in 1 .. Len(AllEvents) : AllEvents[i] = [kind |-> "Insert", row |-> r]}
           = 1 .. n_next
      /\ \A i, j \in 1 .. Len(AllEvents) : AllEvents[i] = AllEvents[j] => i = j
      /\ Len(AllEvents) = n_next + Cardinality((1 .. n_next) \ n_rows)
      /\ n_history = Newest(AllEvents, max_history)
      /\ \A l \in Listeners : InOrder(n_heard[l], AllEvents)
===============================================================================
