------------------------------ MODULE PyClient ------------------------------
(***************************************************************************)
(* The Python client: two queues (direct calls jump the other one), one    *)
(* worker thread, and callers that keep a deadline of their own.  The      *)
(* frame codec, with whatever it has buffered, outlives the connections.   *)
(***************************************************************************)
EXTENDS RpcNet

(* The public methods.                                                     *)
PyOps ==
    [ping |-> Method("ping", TRUE, TRUE, "unit"),
     auth |-> Method("ping", TRUE, TRUE, "unit"),
     insert |-> Method("insert", FALSE, TRUE, "last"),
     insert_fast |-> Method("insert", FALSE, FALSE, "last"),
     get |-> Method("get", FALSE, TRUE, "unless_row_missing"),
     update |-> Method("update", FALSE, FALSE, "last"),
     delete |-> Method("delete", FALSE, FALSE, "unit"),
     scan |-> Method("scan", FALSE, TRUE, "all"),
     find |-> Method("find", FALSE, TRUE, "unless_not_found"),
     search |-> Method("search", FALSE, TRUE, "all"),
     create_table |-> Method("table_create", FALSE, FALSE, "table_name"),
     call |-> Method("call", FALSE, FALSE, "last"),
     poll |-> Method("subscribe", FALSE, TRUE, "all")]

(* _exec: refused on a closed client, else put on one of the queues.       *)
PyExec(x) ==
    /\ c_worker' = IF PyOps[c_op[x]].direct
                   THEN [c_worker EXCEPT !.direct = Append(@, x)]
                   ELSE [c_worker EXCEPT !.queue = Append(@, x)]
    /\ UNCHANGED c_tasks

(* The caller stops waiting at its deadline, which is also the worker's    *)
(* deadline for sending the call; a worker that is gone answers nothing.   *)
PyGiveUp(x) ==
    /\ x \in Waiting
    /\ Slow \/ c_worker.pc = "gone"
    /\ c_answer' = Refused({x}, "timeout")
    /\ UNCHANGED <<c_lang, c_op, c_issued, c_worker, c_tasks, c_mixed, net_vars, server_vars>>

(* close: the flag, the wake-up, and the socket shut under the worker.     *)
PyClose ==
    /\ ~c_worker.closed
    /\ c_worker' = [c_worker EXCEPT !.closed = TRUE]
    /\ n_up' = [n_up EXCEPT ![c_worker.conn] = FALSE]
    /\ n_in' = [n_in EXCEPT ![c_worker.conn] = <<>>]
    /\ UNCHANGED <<c_lang, c_op, c_issued, c_answer, c_tasks, c_mixed,
                   n_opened, n_lost, n_out, server_vars>>

(* The worker wakes up: direct calls first; on a closed client it fails    *)
(* everything queued and ends.                                             *)
PyWake ==
    /\ c_worker.pc = "idle"
    /\ \/ /\ ~c_worker.closed
          /\ c_worker.direct # <<>> \/ c_worker.queue # <<>>
          /\ c_worker' = [c_worker EXCEPT !.pc = "direct"]
          /\ UNCHANGED c_answer
       \/ /\ c_worker.closed
          /\ c_answer' = Refused(Range(c_worker.direct) \cup Range(c_worker.queue), "transport")
          /\ c_worker' = [c_worker EXCEPT !.pc = "gone", !.direct = <<>>, !.queue = <<>>]
    /\ UNCHANGED <<c_lang, c_op, c_issued, c_tasks, c_mixed, net_vars, server_vars>>

(* Where the worker goes after a flush that it entered from `back`.        *)
PyAfter(back) == IF c_worker.closed THEN "gone" ELSE back

(* _flush_run begins: calls past their deadline are not sent.              *)
PyFlush(run, back) ==
    LET fresh == Without(run, {x \in Calls : c_answer[x] # Unanswered}) IN
    IF c_worker.closed
    THEN /\ c_answer' = Refused(Range(run), "closed")
         /\ c_worker' = [c_worker EXCEPT !.pc = "gone",
                             !.direct = IF back = "direct" THEN Tail(@) ELSE @,
                             !.queue = SubSeq(@, (IF back = "queue" THEN Len(run) ELSE 0) + 1, Len(@))]
    ELSE /\ c_worker' = [c_worker EXCEPT
                             !.pc = IF fresh = <<>> THEN back ELSE "write",
                             !.run = fresh, !.try = 1, !.back = back,
                             !.direct = IF back = "direct" THEN Tail(@) ELSE @,
                             !.queue = SubSeq(@, (IF back = "queue" THEN Len(run) ELSE 0) + 1, Len(@))]
         /\ UNCHANGED c_answer

PyNextDirect ==
    /\ c_worker.pc = "direct"
    /\ IF c_worker.direct = <<>>
       THEN c_worker' = [c_worker EXCEPT !.pc = "queue"] /\ UNCHANGED c_answer
       ELSE PyFlush(<<Head(c_worker.direct)>>, "direct")
    /\ UNCHANGED <<c_lang, c_op, c_issued, c_tasks, c_mixed, net_vars, server_vars>>

PyNextRun ==
    /\ c_worker.pc = "queue"
    /\ IF c_worker.queue = <<>>
       THEN c_worker' = [c_worker EXCEPT !.pc = "idle"] /\ UNCHANGED c_answer
       ELSE \E n \in 1 .. FLUSH_CHUNK :
              /\ n = FLUSH_CHUNK \/ n = Len(c_worker.queue)
              /\ n <= Len(c_worker.queue)
              /\ PyFlush(SubSeq(c_worker.queue, 1, n), "queue")
    /\ UNCHANGED <<c_lang, c_op, c_issued, c_tasks, c_mixed, net_vars, server_vars>>

PyWrite ==
    /\ c_worker.pc = "write"
    /\ Send(c_worker.conn, c_worker.run, {})
    /\ c_worker' = [c_worker EXCEPT !.pc = "read"]
    /\ UNCHANGED <<c_lang, c_op, c_issued, c_answer, c_tasks,
                   n_opened, n_lost, n_up, n_in, server_vars>>

PyRetrySafe == \A x \in Range(c_worker.run) : PyOps[c_op[x]].safe

(* The run fails and the worker goes on, on the same connection.           *)
PyRunFails(stash) ==
    /\ c_answer' = Refused(Range(c_worker.run), "transport")
    /\ c_worker' = [c_worker EXCEPT !.pc = PyAfter(c_worker.back), !.run = <<>>,
                                    !.stash = stash]

(* A failed _write_read: reconnect and send again once if the run is       *)
(* retry-safe; the old socket is closed even when the new one fails.       *)
PyFailed ==
    \/ /\ c_worker.try = 1 /\ PyRetrySafe
       /\ Reconnected(c_worker.conn)
       /\ c_worker' = [c_worker EXCEPT !.pc = "write", !.try = 2, !.conn = n_opened + 1]
       /\ UNCHANGED c_answer
    \/ /\ PyRunFails(c_worker.stash)
       /\ IF c_worker.try = 1 /\ PyRetrySafe
          THEN /\ n_up' = [n_up EXCEPT ![c_worker.conn] = FALSE]
               /\ n_in' = [n_in EXCEPT ![c_worker.conn] = <<>>]
          ELSE UNCHANGED <<n_up, n_in>>
       /\ UNCHANGED n_opened

(* _read_loop and the decoding after it.  Bytes that do not decode raise   *)
(* an error that no handler of the worker catches: the thread ends.        *)
PyRead ==
    /\ c_worker.pc = "read"
    /\ \E k \in 1 .. Len(n_in[c_worker.conn]) :
         LET stash == c_worker.stash \o SubSeq(n_in[c_worker.conn], 1, k)
             got == stash[1].run
         IN  /\ n_in' = Taken(c_worker.conn, k)
             /\ \/ /\ Whole(stash) /\ SameShape(c_worker.run, got)
                   /\ \/ /\ Len(got) = Len(c_worker.run)
                         /\ c_answer' = Answered(c_worker.run, got)
                         /\ c_worker' = [c_worker EXCEPT !.pc = PyAfter(c_worker.back),
                                                         !.run = <<>>, !.stash = AfterWhole(stash)]
                      \/ Len(got) # Len(c_worker.run) /\ PyRunFails(AfterWhole(stash))
                \/ /\ Garbled(stash) \/ (Whole(stash) /\ ~SameShape(c_worker.run, got))
                   /\ c_worker' = [c_worker EXCEPT !.pc = "gone", !.stash = stash]
                   /\ UNCHANGED c_answer
                \/ /\ Len(stash) = 1 /\ ~Garbled(stash)
                   /\ c_worker' = [c_worker EXCEPT !.stash = stash]
                   /\ UNCHANGED c_answer
    /\ UNCHANGED <<c_lang, c_op, c_issued, c_tasks, c_mixed,
                   n_opened, n_up, n_lost, n_out, server_vars>>

PyReadFails ==
    /\ c_worker.pc = "read" /\ n_in[c_worker.conn] = <<>>
    /\ Slow \/ ~n_up[c_worker.conn]
    /\ PyFailed
    /\ UNCHANGED <<c_lang, c_op, c_issued, c_tasks, c_mixed, n_lost, n_out, server_vars>>

PyStep ==
    PyWake \/ PyNextDirect \/ PyNextRun \/ PyWrite \/ PyRead \/ PyReadFails

=============================================================================
