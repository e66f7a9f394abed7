------------------------------- MODULE Frames -------------------------------
(***************************************************************************)
(* The requests of a frame: one, a batch or an atomic batch, over TCP or   *)
(* over the HTTP bridge, on a table with an owner column and a unique      *)
(* column.  Both ways share dispatch and execute_atomic; they differ in    *)
(* where the caller's identity comes from.                                 *)
(*                                                                         *)
(* A frame runs alone here: how the engine calls of several frames meet is *)
(* the subject of TxManager, Access and Durability.  Updates leave the     *)
(* unique column k alone, and requests have the fields their operation     *)
(* needs.  A table is                                                      *)
(*   [rows, next, idem, log]: the rows by id, the next id, the idempotency *)
(*   cache, the change records;                                            *)
(* a request is                                                            *)
(*   [op, row, set, idem, token]: row is NoRow when absent, set holds the  *)
(*   columns given, idem and token are NoKey and NoToken when absent.      *)
(***************************************************************************)
EXTENDS Access

CONSTANTS
    FrameOps,      \* the requests that clients send, without their tokens
    FrameIds,      \* bound: ids of rows
    FrameTokens,   \* the tokens that requests and headers carry, NoToken for none
    FrameTables,   \* the tables found at the start
    MaxFrameOps,   \* bound: requests in all frames together
    MidTokens,     \* whether a request behind the first may carry a token
    NoKey, NoToken, NoFrame

ASSUME FramesAssumption ==
    /\ FrameIds \subseteq Nat /\ MaxFrameOps \in Nat \ {0} /\ MidTokens \in BOOLEAN
    /\ \A tab \in FrameTables : tab.next .. tab.next + MaxFrameOps - 1 \subseteq FrameIds
    /\ \A q \in FrameOps : q.op = "Update" => "k" \notin DOMAIN q.set

VARIABLES
    f_tab,    \* the table
    f_ident,  \* the identity bound to the TCP connection
    f_last,   \* the last frame: where it came from, the table and identity it met, its answers
    f_sent    \* requests sent so far

frame_vars == <<f_tab, f_ident, f_last, f_sent>>

----------------------------------------------------------------------------
(* Answers.                                                                *)

Ok(rows) == [ok |-> TRUE, rows |-> rows, error |-> "none"]
Err(e)   == [ok |-> FALSE, rows |-> <<>>, error |-> e]
View(id, values) == [id |-> id, values |-> values]

Exists(tab, id) == id \in FrameIds /\ tab.rows[id] # NoRow
Merge(row, set) == [c \in DOMAIN row |-> IF c \in DOMAIN set THEN set[c] ELSE row[c]]

(* lookup_by_unique on the column k.                                       *)
Duplicate(tab, set) == \E i \in FrameIds : tab.rows[i] # NoRow /\ tab.rows[i].k = set.k

(* record_change.                                                          *)
Recorded(tab, op, id) == [tab EXCEPT !.log = Append(@, [op |-> op, row |-> id])]

idem_recorded(tab, key, id) ==
    IF key = NoKey THEN tab
    ELSE [tab EXCEPT !.idem = [x \in DOMAIN @ \cup {key} |-> IF x = key THEN id ELSE @[x]]]

InsertedRow(tab, set) == [tab EXCEPT !.rows[tab.next] = set, !.next = @ + 1]
UpdatedRow(tab, id, set) == [tab EXCEPT !.rows[id] = Merge(@, set)]
DeletedRow(tab, id) == [tab EXCEPT !.rows[id] = NoRow]

----------------------------------------------------------------------------
(* One request (dispatch): the table it leaves and the answer.             *)

Answered(tab, answer) == [tab |-> tab, answer |-> answer]

DispatchInsert(tab, ident, q) ==
    CASE q.idem \in DOMAIN tab.idem -> Answered(tab, Ok(<<View(tab.idem[q.idem], q.set)>>))
      [] q.idem \notin DOMAIN tab.idem /\ ~authorize_row(ident, "Insert", q.set.owner) ->
            Answered(tab, Err("forbidden"))
      [] q.idem \notin DOMAIN tab.idem /\ authorize_row(ident, "Insert", q.set.owner) ->
            IF Duplicate(tab, q.set) THEN Answered(tab, Err("duplicate"))
            ELSE Answered(Recorded(idem_recorded(InsertedRow(tab, q.set), q.idem, tab.next),
                                   "insert", tab.next),
                          Ok(<<View(tab.next, q.set)>>))

(* A row of somebody else reads as a miss, and refuses a change.           *)
DispatchGet(tab, ident, q) ==
    Answered(tab, IF Exists(tab, q.row) /\ authorize_row(ident, "Get", tab.rows[q.row].owner)
                  THEN Ok(<<View(q.row, tab.rows[q.row])>>) ELSE Err("row not found"))

DispatchChange(tab, ident, q) ==
    CASE ~Exists(tab, q.row) -> Answered(tab, Err("row not found"))
      [] Exists(tab, q.row) /\ ~authorize_row(ident, q.op, tab.rows[q.row].owner) ->
            Answered(tab, Err("forbidden"))
      [] Exists(tab, q.row) /\ authorize_row(ident, q.op, tab.rows[q.row].owner) ->
            IF q.op = "Delete"
            THEN Answered(Recorded(DeletedRow(tab, q.row), "delete", q.row), Ok(<<>>))
            ELSE Answered(Recorded(UpdatedRow(tab, q.row, q.set), "update", q.row),
                          Ok(<<View(q.row, Merge(tab.rows[q.row], q.set))>>))

DispatchScan(tab, ident) ==
    LET mine == {i \in FrameIds : Exists(tab, i) /\ authorize_row(ident, "Scan", tab.rows[i].owner)}
    IN  Answered(tab, Ok([i \in 1 .. Cardinality(mine) |->
                            LET id == SetToSortSeq(mine, <)[i] IN View(id, tab.rows[id])]))

dispatch(tab, ident, q) ==
    CASE q.op = "Ping" -> Answered(tab, Ok(<<>>))
      [] q.op = "Insert" -> DispatchInsert(tab, ident, q)
      [] q.op = "Get" -> DispatchGet(tab, ident, q)
      [] q.op \in {"Update", "Delete"} -> DispatchChange(tab, ident, q)
      [] q.op = "Scan" -> DispatchScan(tab, ident)

----------------------------------------------------------------------------
(* Identities.  A token that is not known leaves the identity as it is.    *)

take_auth_token(ident, q) ==
    IF q.token \in DOMAIN Identities THEN Identities[q.token] ELSE ident

Denied(ident, q) == q.op # "Ping" /\ ~authorize(ident, q.op)
Denial(ident) == Err(IF ident = Nobody THEN "unauthorized" ELSE "forbidden")

(* The identity when request i has been looked at.                         *)
IdentAt(ident, qs, i) == FoldLeft(take_auth_token, ident, SubSeq(qs, 1, i))

----------------------------------------------------------------------------
(* TCP: each request of a batch is authorised and run with the identity    *)
(* the connection has by then.                                             *)

Outcome(tab, ident, answers) == [tab |-> tab, ident |-> ident, answers |-> answers]

Push(acc, ident, done) == Outcome(done.tab, ident, Append(acc.answers, done.answer))

TcpRequest(acc, q) ==
    LET ident == take_auth_token(acc.ident, q)
    IN  Push(acc, ident, IF Denied(ident, q) THEN Answered(acc.tab, Denial(ident))
                         ELSE dispatch(acc.tab, ident, q))

TcpBatch(tab, ident, qs) == FoldLeft(TcpRequest, Outcome(tab, ident, <<>>), qs)

----------------------------------------------------------------------------
(* execute_atomic.                                                         *)

AbortAll(tab, ident, qs, e) == Outcome(tab, ident, [i \in DOMAIN qs |-> Err(e)])

(* Phase 0: the first request that is denied or does not fit a             *)
(* transaction; the identity is the one of the last token.                 *)
Refusal(ident, qs) ==
    {i \in DOMAIN qs : Denied(IdentAt(ident, qs, i), qs[i]) \/ qs[i].op = "Scan"}

(* TransactionManager::get: the newest buffered write of the row decides,  *)
(* an update on top of the row as the table has it.                        *)
TxRow(tab, writes, id) ==
    LET own == SelectSeq(writes, LAMBDA w : w.row = id)
    IN  IF ~Exists(tab, id) THEN NoRow
        ELSE IF own = <<>> THEN tab.rows[id]
        ELSE IF Last(own).op = "Delete" THEN NoRow
        ELSE Merge(tab.rows[id], Last(own).set)

(* Phase 1: what becomes of a request before the commit: an answer that is *)
(* ready, a write, or the end of the frame.                                *)
Ready(answer) == [kind |-> "ready", answer |-> answer]
FrameWrite(q) == [kind |-> "write", w |-> q]
Abort(e) == [kind |-> "abort", e |-> e]

FrameWrites(buffered) ==
    LET ws == SelectSeq(buffered, LAMBDA b : b.kind = "write") IN [i \in DOMAIN ws |-> ws[i].w]

BufferFrameInsert(tab, ident, writes, q) ==
    CASE q.idem \in DOMAIN tab.idem -> Ready(Ok(<<View(tab.idem[q.idem], q.set)>>))
      [] q.idem \notin DOMAIN tab.idem ->
            IF ~authorize_row(ident, "Insert", q.set.owner) THEN Abort("forbidden")
            ELSE IF \E w \in ToSet(writes) : w.op = "Insert" /\ w.set.k = q.set.k
            THEN Abort("duplicate in batch")
            ELSE IF Duplicate(tab, q.set) THEN Abort("duplicate")
            ELSE FrameWrite(q)

BufferFrameRow(row, ident, q) ==
    CASE row = NoRow -> Abort("row not found")
      [] row # NoRow /\ ~authorize_row(ident, q.op, row.owner) ->
            Abort(IF q.op = "Get" THEN "row not found" ELSE "forbidden")
      [] row # NoRow /\ authorize_row(ident, q.op, row.owner) ->
            IF q.op = "Get" THEN Ready(Ok(<<View(q.row, row)>>)) ELSE FrameWrite(q)

BufferRequest(tab, ident, buffered, q) ==
    CASE q.op = "Ping" -> Ready(Ok(<<>>))
      [] q.op = "Insert" -> BufferFrameInsert(tab, ident, FrameWrites(buffered), q)
      [] q.op \in {"Get", "Update", "Delete"} ->
            BufferFrameRow(TxRow(tab, FrameWrites(buffered), q.row), ident, q)

FrameAborted(buffered) == buffered # <<>> /\ Last(buffered).kind = "abort"

Buffer(tab, ident, qs) ==
    FoldLeft(LAMBDA acc, q : IF FrameAborted(acc) THEN acc
                             ELSE Append(acc, BufferRequest(tab, ident, acc, q)),
             <<>>, qs)

(* Phase 2: the commit applies the writes in their order, nothing else     *)
(* being committed meanwhile, and names the row of each.                   *)
AppliedWrite(acc, w) ==
    CASE w.op = "Insert" -> [tab |-> InsertedRow(acc.tab, w.set), touched |-> Append(acc.touched, acc.tab.next)]
      [] w.op = "Update" -> [tab |-> UpdatedRow(acc.tab, w.row, w.set), touched |-> Append(acc.touched, w.row)]
      [] w.op = "Delete" -> [tab |-> DeletedRow(acc.tab, w.row), touched |-> Append(acc.touched, w.row)]

Committed(tab, writes) == FoldLeft(AppliedWrite, [tab |-> tab, touched |-> <<>>], writes)

(* Phase 3: the effects and the answers, with the rows the commit touched  *)
(* taken one after the other.  An update reads its row again.              *)
Effects(acc, b) ==
    LET id == Head(acc.touched)
        answer(x) == Append(acc.answers, x)
    IN  IF b.kind = "ready" THEN [acc EXCEPT !.answers = answer(b.answer)]
        ELSE CASE b.w.op = "Insert" ->
                    [tab |-> idem_recorded(Recorded(acc.tab, "insert", id), b.w.idem, id),
                     touched |-> Tail(acc.touched), answers |-> answer(Ok(<<View(id, b.w.set)>>))]
               [] b.w.op = "Update" ->
                    IF Exists(acc.tab, b.w.row)
                    THEN [tab |-> Recorded(acc.tab, "update", b.w.row), touched |-> Tail(acc.touched),
                          answers |-> answer(Ok(<<View(b.w.row, acc.tab.rows[b.w.row])>>))]
                    ELSE [acc EXCEPT !.touched = Tail(@),
                                     !.answers = answer(Err("row not found after commit"))]
               [] b.w.op = "Delete" ->
                    [tab |-> Recorded(acc.tab, "delete", b.w.row), touched |-> Tail(acc.touched),
                     answers |-> answer(Ok(<<>>))]

CommitFrame(tab, ident, buffered) ==
    LET done == FoldLeft(Effects, [answers |-> <<>>] @@ Committed(tab, FrameWrites(buffered)), buffered)
    IN  Outcome(done.tab, ident, done.answers)

(* Variant: the writes reach the table as they are buffered.               *)
BufferedFrame_eager(tab, ident, qs, buffered) ==
    IF FrameAborted(buffered) THEN AbortAll(Committed(tab, FrameWrites(buffered)).tab, ident, qs, Last(buffered).e)
    ELSE CommitFrame(tab, ident, buffered)

BufferedFrame(tab, ident, qs, buffered) ==
    IF FrameAborted(buffered) THEN AbortAll(tab, ident, qs, Last(buffered).e)
    ELSE CommitFrame(tab, ident, buffered)

execute_atomic(tab, ident, qs) ==
    LET refused == Refusal(ident, qs)
    IN  IF refused # {}
        THEN AbortAll(tab, IdentAt(ident, qs, Min(refused)), qs, "refused")
        ELSE BufferedFrame(tab, IdentAt(ident, qs, Len(qs)), qs,
                           Buffer(tab, IdentAt(ident, qs, Len(qs)), qs))

----------------------------------------------------------------------------
(* The HTTP bridge.  The header's token gives the identity of the request. *)
(* The tokens inside a batch are looked up before the first request runs,  *)
(* so that all of them run with the identity of the last one.              *)

Stripped(qs) == [i \in DOMAIN qs |-> [qs[i] EXCEPT !.token = NoToken]]

HttpRequests(tab, ident, qs, authed) ==
    FoldLeftDomain(LAMBDA acc, i :
            Push(acc, authed, IF Denied(IdentAt(ident, qs, i), qs[i])
                              THEN Answered(acc.tab, Denial(IdentAt(ident, qs, i)))
                              ELSE dispatch(acc.tab, authed, qs[i])),
        Outcome(tab, authed, <<>>), qs)

HttpBatch(tab, ident, qs) == HttpRequests(tab, ident, qs, IdentAt(ident, qs, Len(qs)))

HttpAtomic(tab, ident, qs) ==
    IF \E i \in DOMAIN qs : Denied(IdentAt(ident, qs, i), qs[i]) THEN AbortAll(tab, ident, qs, "refused")
    ELSE execute_atomic(tab, IdentAt(ident, qs, Len(qs)), Stripped(qs))

(* handle_op takes no token from the values.                               *)
HttpOp(tab, ident, q) ==
    Push(Outcome(tab, ident, <<>>), ident,
         IF Denied(ident, q) THEN Answered(tab, Denial(ident)) ELSE dispatch(tab, ident, q))

----------------------------------------------------------------------------
FramesInit ==
    /\ f_tab \in FrameTables
    /\ f_ident = Nobody
    /\ f_last = NoFrame
    /\ f_sent = 0

(* The tokens that the requests of a frame carry.                          *)
TokensOf(n) ==
    {ts \in [1 .. n -> FrameTokens] : MidTokens \/ \A i \in 2 .. n : ts[i] = NoToken}

WithTokens(ops, ts) == [i \in DOMAIN ops |-> [ops[i] EXCEPT !.token = ts[i]]]

Done(way, atomic, ident, qs, out) ==
    /\ f_tab' = out.tab
    /\ f_last' = [way |-> way, atomic |-> atomic, tab |-> f_tab, ident |-> ident, qs |-> qs,
                  answers |-> out.answers]
    /\ f_sent' = f_sent + Len(qs)

TcpFrame(qs) ==
    LET out == TcpBatch(f_tab, f_ident, qs)
    IN  Done("tcp", FALSE, f_ident, qs, out) /\ f_ident' = out.ident

TcpAtomic(qs) ==
    LET out == execute_atomic(f_tab, f_ident, qs)
    IN  Done("tcp", TRUE, f_ident, qs, out) /\ f_ident' = out.ident

HttpIdent(token) == take_auth_token(Nobody, [token |-> token])

HttpFrame(ident, qs) ==
    /\ \/ Done("http", FALSE, ident, qs, HttpBatch(f_tab, ident, qs))
       \/ Done("http", TRUE, ident, qs, HttpAtomic(f_tab, ident, qs))
       \/ Len(qs) = 1 /\ qs[1].token = NoToken /\ Done("http", FALSE, ident, qs, HttpOp(f_tab, ident, qs[1]))
    /\ UNCHANGED f_ident

FramesNext ==
    \E n \in 1 .. MaxFrameOps - f_sent : \E ops \in [1 .. n -> FrameOps], ts \in TokensOf(n) :
        LET qs == WithTokens(ops, ts)
        IN  \/ TcpFrame(qs) \/ TcpAtomic(qs)
            \/ \E token \in FrameTokens : HttpFrame(HttpIdent(token), qs)

----------------------------------------------------------------------------
(* A frame over HTTP leaves the table and gets the answers that it would   *)
(* over a TCP connection with its identity: http_bridge.rs runs the same   *)
(* dispatch and execute_atomic behind its own authorisation.               *)
FrontsAgree ==
    f_last # NoFrame /\ f_last.way = "http" =>
        LET tcp == IF f_last.atomic THEN execute_atomic(f_last.tab, f_last.ident, f_last.qs)
                   ELSE TcpBatch(f_last.tab, f_last.ident, f_last.qs)
        IN  f_tab = tcp.tab /\ f_last.answers = tcp.answers

(* An atomic frame either changes nothing and answers every request with   *)
(* an error, or does what its requests do one by one, none of them failing *)
(* then: execute_atomic has its own checks, its own pairing of the rows    *)
(* that the commit touched and its own effects behind the commit.  It      *)
(* answers with an error, and logs nothing, where an updated row is        *)
(* deleted later in the frame, and inserts twice for one key.              *)
AtomicLikePlain ==
    f_last # NoFrame /\ f_last.atomic =>
        \/ f_tab = f_last.tab /\ \A i \in DOMAIN f_last.answers : ~f_last.answers[i].ok
        \/ LET plain == TcpBatch(f_last.tab, f_last.ident, f_last.qs)
               before == Len(f_last.tab.log)
               dropped(r) == r.op = "update" /\ plain.tab.rows[r.row] = NoRow
               wanted == SelectSeq(SubSeq(plain.tab.log, before + 1, Len(plain.tab.log)),
                                   LAMBDA r : ~dropped(r))
           IN  /\ \A i \in DOMAIN f_last.qs : plain.answers[i].ok
               /\ [f_tab EXCEPT !.log = <<>>] = [plain.tab EXCEPT !.log = <<>>]
               /\ f_tab.log = f_last.tab.log \o wanted
               /\ \A i \in DOMAIN f_last.qs :
                     f_last.answers[i].ok \/ dropped([op |-> "update", row |-> f_last.qs[i].row])
        \/ \E i, j \in DOMAIN f_last.qs :
              i # j /\ f_last.qs[i].idem # NoKey /\ f_last.qs[i].idem = f_last.qs[j].idem

(* Both: whichever way a frame comes, it does what its requests do, or     *)
(* nothing (handle_connection, handle_batch and execute_atomic).           *)
FramesLikeRequests == FrontsAgree /\ AtomicLikePlain
=============================================================================
