------------------------------- MODULE RpcNet -------------------------------
(***************************************************************************)
(* What the four client libraries share: the calls of the application, the *)
(* TCP connections, the server's loop over the frames of a connection and  *)
(* the idempotency cache that makes a resent insert harmless.              *)
(*                                                                         *)
(* A frame is a run of calls (one call, or a batch); its response arrives  *)
(* as two pieces, so that it can be cut anywhere between its first and its *)
(* last byte.  Each connection has one server task; tasks of different     *)
(* connections run concurrently, also the one of a connection the client   *)
(* has given up.  Responses carry the request's id, which no client        *)
(* compares, so the model has no ids: a response is the run it answers.    *)
(***************************************************************************)
EXTENDS Integers, Sequences, FiniteSets, SequencesExt

CONSTANTS
    NCalls,       \* bound: calls the application makes
    FLUSH_CHUNK,  \* calls per batch frame
    MaxConns,     \* bound: connections there may be
    MaxOpened(_), \* bound: connections a library opens
    MaxLost,      \* connections the network may lose
    Slow,         \* may a deadline pass before the awaited thing happens?
    IdemCap       \* keys the cache holds before it drops half of them

ASSUME NetAssumption ==
    /\ NCalls \in Nat /\ FLUSH_CHUNK \in Nat \ {0} /\ MaxConns \in Nat \ {0}
    /\ MaxLost \in Nat /\ IdemCap \in Nat \ {0} /\ Slow \in BOOLEAN

VARIABLES
    c_lang,     \* the client library in use
    c_op,       \* c_op[x]: the operation of call x
    c_issued,   \* calls issued so far
    c_answer,   \* what each call returned
    c_worker,   \* the state of the client's worker
    c_tasks,    \* flushes in progress (TypeScript, where several can be)
    c_mixed,    \* history: a frame was written with a response due, or with a flush under way
    n_opened,   \* connections opened so far
    n_lost,     \* connections lost so far
    n_up,       \* n_up[c]: both ends hold connection c open
    n_out,      \* n_out[c]: frames on their way to the server
    n_in,       \* n_in[c]: pieces of responses on their way to the client
    s_busy,     \* s_busy[c]: the frame the server works on, and how far
    s_done,     \* calls executed, in order
    s_idem,     \* keys in the idempotency cache
    s_excused   \* history: keys that met one of the cache's two known gaps

client_vars == <<c_op, c_issued, c_answer, c_worker, c_tasks, c_mixed>>
net_vars == <<n_opened, n_lost, n_up, n_out, n_in>>
server_vars == <<s_busy, s_done, s_idem, s_excused>>
rpc_vars == <<c_lang, client_vars, net_vars, server_vars>>

Calls == 1 .. NCalls
Conns == 1 .. MaxConns
Unanswered == [tag |-> "none", of |-> 0]
Idle == [run |-> <<>>, at |-> 0, stage |-> "idle"]

(* A public method of a client: the op code it sends, whether it flies     *)
(* alone, whether it is safe to send again, and what it makes of the rows  *)
(* of a response.                                                          *)
Method(code, direct, safe, rows) ==
    [code |-> code, direct |-> direct, safe |-> safe, rows |-> rows]

(* The operations whose request carries an `_idem` key.                    *)
Keyed(x) == c_op[x] = "insert"

(* Operations that change nothing: executing one twice is harmless.        *)
ReadOps == {"ping", "auth", "get", "scan", "find", "search", "poll"}

-----------------------------------------------------------------------------
(* Stream reassembly, as the clients' frame codecs do it.                  *)

Pieces(run) == <<[run |-> run, half |-> 1], [run |-> run, half |-> 2]>>

(* The bytes buffered begin with a whole response.                         *)
Whole(stash) ==
    Len(stash) >= 2 /\ SubSeq(stash, 1, 2) = Pieces(stash[1].run)

(* A length prefix followed by bytes of another frame: the payload cut out  *)
(* does not decode and the buffer stays out of step.                       *)
Garbled(stash) ==
    /\ stash # <<>>
    /\ \/ stash[1].half = 2
       \/ Len(stash) >= 2 /\ ~Whole(stash)

(* The buffer after every whole response at its front was cut out.         *)
AfterWhole(stash) ==
    LET n == CHOOSE k \in 0 .. (Len(stash) \div 2) :
                /\ \A i \in 1 .. k : Whole(SubSeq(stash, 2 * i - 1, 2 * i))
                /\ ~Whole(SubSeq(stash, 2 * k + 1, Len(stash)))
    IN  SubSeq(stash, 2 * n + 1, Len(stash))

(* A response decodes for a run when both are single, or both are batches. *)
SameShape(run, got) == (Len(run) = 1) = (Len(got) = 1)

-----------------------------------------------------------------------------
(* Answers.  A call is answered once; later answers are dropped.           *)

Refused(S, tag) ==
    [x \in Calls |-> IF x \in S /\ c_answer[x] = Unanswered
                     THEN [tag |-> tag, of |-> x] ELSE c_answer[x]]

Answered(run, got) ==
    [x \in Calls |-> IF x \in Range(run) /\ c_answer[x] = Unanswered
                     THEN [tag |-> "ok", of |-> got[CHOOSE i \in DOMAIN run : run[i] = x]]
                     ELSE c_answer[x]]

(* The calls of a run that are not in S, in their order.                   *)
Without(run, S) ==
    LET kept[k \in 0 .. Len(run)] ==
          IF k = 0 THEN <<>> ELSE IF run[k] \in S THEN kept[k - 1] ELSE Append(kept[k - 1], run[k])
    IN  kept[Len(run)]

Waiting == {x \in 1 .. c_issued : c_answer[x] = Unanswered}

-----------------------------------------------------------------------------
(* Connections, as a client uses them.                                     *)

(* A response on connection c is still due.                                *)
Due(c) == \/ n_in[c] # <<>>
          \/ n_up[c] /\ (n_out[c] # <<>> \/ s_busy[c] # Idle)

(* Writing a frame.  On a connection the network lost, the bytes go nowhere *)
(* and the client notices at its next read.                                *)
Send(c, run, overlap) ==
    /\ n_out' = IF n_up[c] THEN [n_out EXCEPT ![c] = Append(@, run)] ELSE n_out
    /\ c_mixed' = c_mixed \cup overlap \cup (IF Due(c) THEN {"due"} ELSE {})

(* The next k pieces of connection c were read.                            *)
Taken(c, k) == [n_in EXCEPT ![c] = SubSeq(@, k + 1, Len(@))]

(* A new connection; old # 0 is closed by the client.  Frames it has sent  *)
(* are still executed, the responses are lost.                             *)
Reconnected(old) ==
    /\ n_opened < MaxOpened(c_lang)
    /\ n_opened' = n_opened + 1
    /\ n_up' = [c \in Conns |-> IF c = n_opened + 1 THEN TRUE
                                ELSE IF c = old THEN FALSE ELSE n_up[c]]
    /\ n_in' = IF old = 0 THEN n_in ELSE [n_in EXCEPT ![old] = <<>>]

(* The network loses connection c: frames not yet read by the server are   *)
(* gone, and so is any tail of what the client has not received.           *)
ConnLost(c) ==
    /\ n_up[c] /\ n_lost < MaxLost
    /\ n_lost' = n_lost + 1
    /\ n_up' = [n_up EXCEPT ![c] = FALSE]
    /\ n_out' = [n_out EXCEPT ![c] = <<>>]
    /\ \E k \in 0 .. Len(n_in[c]) : n_in' = [n_in EXCEPT ![c] = SubSeq(@, 1, k)]
    /\ UNCHANGED <<c_lang, client_vars, n_opened, server_vars>>

-----------------------------------------------------------------------------
(* The server's task for connection c.                                     *)

AtOp(c) == s_busy[c].at \in DOMAIN s_busy[c].run
Current(c) == s_busy[c].run[s_busy[c].at]

(* The task reads the next frame.                                          *)
SrvTake(c) ==
    /\ s_busy[c] = Idle /\ n_out[c] # <<>>
    /\ s_busy' = [s_busy EXCEPT ![c] = [run |-> Head(n_out[c]), at |-> 1, stage |-> "op"]]
    /\ n_out' = [n_out EXCEPT ![c] = Tail(@)]
    /\ UNCHANGED <<c_lang, client_vars, n_opened, n_lost, n_up, n_in,
                   s_done, s_idem, s_excused>>

(* Some other task is between its lookup of x's key and its record.        *)
InFlight(c, x) ==
    \E d \in Conns \ {c} :
        /\ s_busy[d].stage \in {"apply", "record"}
        /\ Current(d) = x

(* Variant: the lookup always misses. *)
idem_lookup_absent(c) ==
    /\ AtOp(c) /\ s_busy[c].stage = "op"
    /\ Keyed(Current(c))
    /\ s_busy' = [s_busy EXCEPT ![c].stage = "apply"]
    /\ UNCHANGED <<c_lang, client_vars, net_vars, s_done, s_idem, s_excused>>

(* A keyed insert looks its key up: a hit answers with the recorded row,   *)
(* a miss goes on to insert.                                               *)
idem_lookup(c) ==
    /\ AtOp(c) /\ s_busy[c].stage = "op"
    /\ Keyed(Current(c))
    /\ LET x == Current(c) IN
         IF x \in s_idem
         THEN /\ s_busy' = [s_busy EXCEPT ![c].at = @ + 1]
              /\ UNCHANGED s_excused
         ELSE /\ s_busy' = [s_busy EXCEPT ![c].stage = "apply"]
              /\ s_excused' = s_excused \cup (IF InFlight(c, x) THEN {x} ELSE {})
    /\ UNCHANGED <<c_lang, client_vars, net_vars, s_done, s_idem>>

(* The operation is executed.                                              *)
SrvApply(c) ==
    /\ AtOp(c)
    /\ s_busy[c].stage = (IF Keyed(Current(c)) THEN "apply" ELSE "op")
    /\ s_done' = Append(s_done, Current(c))
    /\ s_busy' = IF Keyed(Current(c))
                 THEN [s_busy EXCEPT ![c].stage = "record"]
                 ELSE [s_busy EXCEPT ![c].at = @ + 1]
    /\ UNCHANGED <<c_lang, client_vars, net_vars, s_idem, s_excused>>

(* The key is recorded; a full cache first drops half of its keys, in the  *)
(* map's own order, which may take any of them.                            *)
idem_record(c) ==
    /\ s_busy[c].stage = "record"
    /\ \E drop \in SUBSET s_idem :
         /\ Cardinality(drop) = IF Cardinality(s_idem) >= IdemCap
                                THEN Cardinality(s_idem) \div 2 ELSE 0
         /\ s_idem' = (s_idem \ drop) \cup {Current(c)}
         /\ s_excused' = s_excused \cup drop
    /\ s_busy' = [s_busy EXCEPT ![c].at = @ + 1, ![c].stage = "op"]
    /\ UNCHANGED <<c_lang, client_vars, net_vars, s_done>>

(* The response of a finished frame is written back.                       *)
SrvReply(c) ==
    /\ s_busy[c] # Idle /\ s_busy[c].at > Len(s_busy[c].run)
    /\ n_in' = IF n_up[c] THEN [n_in EXCEPT ![c] = @ \o Pieces(s_busy[c].run)] ELSE n_in
    /\ s_busy' = [s_busy EXCEPT ![c] = Idle]
    /\ UNCHANGED <<c_lang, client_vars, n_opened, n_lost, n_up, n_out,
                   s_done, s_idem, s_excused>>

SrvStep(c) ==
    SrvTake(c) \/ idem_lookup(c) \/ SrvApply(c) \/ idem_record(c) \/ SrvReply(c)

=============================================================================
