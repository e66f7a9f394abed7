------------------------------ MODULE Admission ------------------------------
(***************************************************************************)
(* Admission of connections (blitz-server): the shed watermark, the cap    *)
(* per peer address and the connection slots, from the accepted socket to  *)
(* the drop of its ConnectionGuard.  The slot counter is an atomic that    *)
(* try_acquire_connection and release_connection change in a loop of load  *)
(* and compare-exchange, each a step here; the table of addresses is       *)
(* behind a mutex, so one of its operations is one step.                   *)
(*                                                                         *)
(* A member of Conns is a connection task; when its connection has ended   *)
(* the same task stands for the next one from that address.  What a        *)
(* connection does while it is open is not modelled here: only that it     *)
(* ends, by end of stream, idle timeout, an error or the end of a push     *)
(* stream, and that every one of these returns drops the guard.            *)
(***************************************************************************)
EXTENDS Naturals, FiniteSets

CONSTANTS
  Conns,                   \* connection tasks
  Ips,                     \* peer addresses
  peer_ip,                 \* the address of a task's peer, or NoIp
  NoIp,                    \* the address could not be read
  max_connections,
  max_connections_per_ip,  \* 0: no cap
  shed_at_connections,     \* or NoShed
  NoShed

ASSUME AdmissionAssumption ==
  /\ IsFiniteSet(Conns)
  /\ NoIp \notin Ips /\ peer_ip \in [Conns -> Ips \union {NoIp}]
  /\ max_connections \in Nat /\ max_connections_per_ip \in Nat
  /\ NoShed \notin Nat /\ shed_at_connections \in Nat \union {NoShed}

VARIABLES
  connections,  \* the slot counter
  ips,          \* the table of addresses; an absent entry is 0
  pc,           \* where a task is
  current       \* the value its compare-exchange loop loaded

vars == <<connections, ips, pc, current>>

Init ==
  /\ connections = 0
  /\ ips = [a \in Ips |-> 0]
  /\ pc = [c \in Conns |-> "new"]
  /\ current = [c \in Conns |-> 0]

Goto(c, l) == pc' = [pc EXCEPT ![c] = l]

-----------------------------------------------------------------------------
\* handle_stream begins: past the watermark the connection is closed at once.
\* (A socket that fails before, in the TLS handshake say, takes no step.)
should_shed ==
  shed_at_connections # NoShed /\ connections >= shed_at_connections

Shed(c) ==
  /\ pc[c] = "new" /\ should_shed
  /\ UNCHANGED vars

Arrive(c) ==
  /\ pc[c] = "new" /\ ~should_shed
  /\ Goto(c, "address")
  /\ UNCHANGED <<connections, ips, current>>

\* ConnectionGuard::new takes a place of the address first; at the cap the
\* connection is closed.
Counted(c) == peer_ip[c] # NoIp /\ max_connections_per_ip # 0

ip_acquire(c) ==
  /\ pc[c] = "address"
  /\ Counted(c) => ips[peer_ip[c]] < max_connections_per_ip
  /\ ips' = IF Counted(c) THEN [ips EXCEPT ![peer_ip[c]] = @ + 1] ELSE ips
  /\ Goto(c, "load")
  /\ UNCHANGED <<connections, current>>

IpRefused(c) ==
  /\ pc[c] = "address"
  /\ Counted(c) /\ ips[peer_ip[c]] >= max_connections_per_ip
  /\ Goto(c, "new")
  /\ UNCHANGED <<connections, ips, current>>

\* try_acquire_connection: load, then compare and exchange until it succeeds or
\* the loaded value is at the limit.
LoadForAcquire(c) ==
  /\ pc[c] = "load"
  /\ current' = [current EXCEPT ![c] = connections]
  /\ Goto(c, "acquire")
  /\ UNCHANGED <<connections, ips>>

\* Variant: the limit is passed by one.
try_acquire_connection_off_by_one(c) ==
  /\ pc[c] = "acquire" /\ current[c] <= max_connections
  /\ IF connections = current[c]
     THEN /\ connections' = current[c] + 1
          /\ Goto(c, "open")
          /\ UNCHANGED current
     ELSE /\ current' = [current EXCEPT ![c] = connections]
          /\ UNCHANGED <<connections, pc>>
  /\ UNCHANGED ips

\* Variant: a store instead of the compare-exchange.
try_acquire_connection_store(c) ==
  /\ pc[c] = "acquire" /\ current[c] < max_connections
  /\ connections' = current[c] + 1
  /\ Goto(c, "open")
  /\ UNCHANGED <<ips, current>>

try_acquire_connection(c) ==
  /\ pc[c] = "acquire" /\ current[c] < max_connections
  /\ IF connections = current[c]
     THEN /\ connections' = current[c] + 1
          /\ Goto(c, "open")
          /\ UNCHANGED current
     ELSE /\ current' = [current EXCEPT ![c] = connections]
          /\ UNCHANGED <<connections, pc>>
  /\ UNCHANGED ips

\* Variant: the refused connection keeps its place of the address.
SlotRefused_keeps_address(c) ==
  /\ pc[c] = "acquire" /\ current[c] >= max_connections
  /\ Goto(c, "new")
  /\ UNCHANGED <<connections, ips, current>>

\* No slot: the place of the address is given back, in the next step.
SlotRefused(c) ==
  /\ pc[c] = "acquire" /\ current[c] >= max_connections
  /\ Goto(c, "leave")
  /\ UNCHANGED <<connections, ips, current>>

\* The connection ends, however it does; the guard is dropped.  The drop gives
\* the slot back first ...
End(c) ==
  /\ pc[c] = "open"
  /\ current' = [current EXCEPT ![c] = connections]
  /\ Goto(c, "release")
  /\ UNCHANGED <<connections, ips>>

release_connection(c) ==
  /\ pc[c] = "release"
  /\ IF current[c] = 0
     THEN Goto(c, "leave") /\ UNCHANGED <<connections, current>>
     ELSE IF connections = current[c]
     THEN /\ connections' = current[c] - 1
          /\ Goto(c, "leave")
          /\ UNCHANGED current
     ELSE /\ current' = [current EXCEPT ![c] = connections]
          /\ UNCHANGED <<connections, pc>>
  /\ UNCHANGED ips

\* ... and then the place of the address, if the table has an entry for it.
ip_release(c) ==
  /\ pc[c] = "leave"
  /\ ips' = IF peer_ip[c] # NoIp /\ ips[peer_ip[c]] > 0
            THEN [ips EXCEPT ![peer_ip[c]] = @ - 1] ELSE ips
  /\ Goto(c, "new")
  /\ UNCHANGED <<connections, current>>

Next ==
  \E c \in Conns :
    \/ Shed(c) \/ Arrive(c)
    \/ ip_acquire(c) \/ IpRefused(c)
    \/ LoadForAcquire(c) \/ try_acquire_connection(c) \/ SlotRefused(c)
    \/ End(c) \/ release_connection(c) \/ ip_release(c)

Spec == Init /\ [][Next]_vars

-----------------------------------------------------------------------------
(* Properties *)

\* Types, and that neither counter passes its limit, however attempts and
\* releases interleave.
TypeOK ==
  /\ connections \in 0..max_connections
  /\ ips \in [Ips -> Nat]
  /\ max_connections_per_ip # 0 => \A a \in Ips : ips[a] <= max_connections_per_ip
  /\ pc \in [Conns -> {"new", "address", "load", "acquire", "open", "release", "leave"}]
  /\ current \in [Conns -> Nat]

\* Tasks that hold a slot, and tasks that hold a place of an address.
SlotHolders == {c \in Conns : pc[c] \in {"open", "release"}}
IpHolders(a) ==
  {c \in Conns : peer_ip[c] = a /\ pc[c] \in {"load", "acquire", "open", "release", "leave"}}

\* The slot counter is the number of connections that hold a slot: none is
\* leaked by a path that returns early and none is given back twice.
SlotsExact == connections = Cardinality(SlotHolders)

\* The same for the places of each address, refused attempts included; without
\* a cap the table stays empty.
IpsExact ==
  \A a \in Ips :
    ips[a] = IF max_connections_per_ip = 0 THEN 0 ELSE Cardinality(IpHolders(a))
=============================================================================
