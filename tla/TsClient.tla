------------------------------ MODULE TsClient ------------------------------
(***************************************************************************)
(* The TypeScript client has no worker: every flush is a chain of promises *)
(* of its own, and several can be in progress.  Each one waiting for its   *)
(* response listens to the socket, and every chunk that arrives is fed by  *)
(* each listener to the one codec they share.  c_tasks holds the flushes;  *)
(* those that listen are in the order in which they began to listen.       *)
(***************************************************************************)
EXTENDS RpcNet

(* The public methods.                                                     *)
TsOps ==
    [ping |-> Method("ping", TRUE, TRUE, "unit"),
     auth |-> Method("ping", TRUE, TRUE, "unit"),
     insert |-> Method("insert", FALSE, TRUE, "last"),
     insert_fast |-> Method("insert", FALSE, FALSE, "last"),
     get |-> Method("get", FALSE, TRUE, "unless_row_missing"),
     update |-> Method("update", FALSE, FALSE, "last"),
     delete |-> Method("delete", FALSE, FALSE, "unit"),
     scan |-> Method("scan", FALSE, TRUE, "all"),
     find |-> Method("find", FALSE, TRUE, "unless_not_found"),
     search |-> Method("search", FALSE, TRUE, "all"),
     create_table |-> Method("table_create", FALSE, FALSE, "table_name"),
     call |-> Method("call", FALSE, FALSE, "last"),
     poll |-> Method("subscribe", FALSE, TRUE, "all")]

TsRetrySafe(run) == \A x \in Range(run) : TsOps[c_op[x]].safe

(* flushRun: listener and write at once.  `loop`: the flush goes on with   *)
(* the queue afterwards; `next`: the direct call it ends with, or 0.       *)
TsListening(run, try, conn, loop, next) ==
    [pc |-> "read", run |-> run, try |-> try, conn |-> conn, loop |-> loop, next |-> next]

TsPaused(pc, run, loop, next) ==
    [pc |-> pc, run |-> run, try |-> 1, conn |-> 0, loop |-> loop, next |-> next]

TsChunk(queue) == SubSeq(queue, 1, IF Len(queue) < FLUSH_CHUNK THEN Len(queue) ELSE FLUSH_CHUNK)

(* Another flush has a run under way: nothing orders the two.              *)
TsOverlap == {"overlap" : i \in {j \in DOMAIN c_tasks : c_tasks[j].pc # "loop"}}

(* One turn of flushQueue's loop, with a chunk of the queue.               *)
TsTakeRun(tasks, next) ==
    LET run == TsChunk(c_worker.queue) IN
    /\ Send(c_worker.conn, run, TsOverlap)
    /\ c_tasks' = Append(tasks, TsListening(run, 1, c_worker.conn, TRUE, next))
    /\ c_worker' = [c_worker EXCEPT !.queue = SubSeq(@, Len(run) + 1, Len(@)),
                                    !.sched = @]

(* enqueue.  A direct call flushes the queue and follows it; any other is  *)
(* queued, and the first of a turn of the event loop schedules a flush.    *)
TsExec(x) ==
    IF TsOps[c_op[x]].direct
    THEN IF c_worker.queue # <<>>
         THEN TsTakeRun(c_tasks, x)
         ELSE /\ c_tasks' = Append(c_tasks, TsPaused("loop", <<>>, FALSE, x))
              /\ UNCHANGED <<c_worker, n_out, c_mixed>>
    ELSE /\ c_worker' = [c_worker EXCEPT !.queue = Append(@, x), !.sched = TRUE]
         /\ UNCHANGED <<c_tasks, n_out, c_mixed>>

(* The scheduled flush starts, whether or not another is in progress.      *)
TsImmediate ==
    /\ c_worker.sched
    /\ IF c_worker.queue # <<>> /\ ~c_worker.closed
       THEN /\ Send(c_worker.conn, TsChunk(c_worker.queue), TsOverlap)
            /\ c_tasks' = Append(c_tasks, TsListening(TsChunk(c_worker.queue), 1,
                                                      c_worker.conn, TRUE, 0))
            /\ c_worker' = [c_worker EXCEPT !.sched = FALSE,
                             !.queue = SubSeq(@, Len(TsChunk(@)) + 1, Len(@))]
       ELSE /\ c_worker' = [c_worker EXCEPT !.sched = FALSE]
            /\ UNCHANGED <<c_tasks, n_out, c_mixed>>
    /\ UNCHANGED <<c_lang, c_op, c_issued, c_answer, n_opened, n_lost, n_up, n_in, server_vars>>

(* A flush goes on: with the rest of the queue, then with its direct call. *)
TsContinue(i) ==
    LET t == c_tasks[i] IN
    /\ t.pc = "loop"
    /\ IF t.loop /\ c_worker.queue # <<>> /\ ~c_worker.closed
       THEN TsTakeRun(RemoveAt(c_tasks, i), t.next) /\ UNCHANGED c_answer
       ELSE /\ IF t.next # 0 /\ ~c_worker.closed
               THEN /\ Send(c_worker.conn, <<t.next>>, TsOverlap)
                    /\ c_tasks' = Append(RemoveAt(c_tasks, i),
                                         TsListening(<<t.next>>, 1, c_worker.conn, FALSE, 0))
                    /\ UNCHANGED c_answer
               ELSE /\ c_tasks' = RemoveAt(c_tasks, i)
                    /\ c_answer' = Refused({t.next}, "closed")
                    /\ UNCHANGED <<n_out, c_mixed>>
            /\ UNCHANGED c_worker
    /\ UNCHANGED <<c_lang, c_op, c_issued, n_opened, n_lost, n_up, n_in, server_vars>>

(* The call's own timer, armed until its run starts.                       *)
TsTimer(x) ==
    /\ Slow /\ x \in Waiting
    /\ \/ x \in Range(c_worker.queue)
       \/ \E i \in DOMAIN c_tasks : c_tasks[i].next = x
    /\ c_answer' = Refused({x}, "timeout")
    /\ c_worker' = [c_worker EXCEPT !.queue = Without(@, {x})]
    /\ UNCHANGED <<c_lang, c_op, c_issued, c_tasks, c_mixed, net_vars, server_vars>>

(* A listener's feed of one chunk: the codec's new buffer and what the     *)
(* flush makes of it ("wait", "reject", or the response it takes).         *)
TsFeed(stash, chunk, run) ==
    LET s == stash \o chunk
        got == s[1].run
    IN  IF Whole(s)
        THEN [stash |-> AfterWhole(s),
              out |-> IF SameShape(run, got) /\ Len(run) = Len(got) THEN "take" ELSE "reject",
              got |-> got]
        ELSE [stash |-> s, out |-> IF Garbled(s) THEN "reject" ELSE "wait", got |-> <<>>]

(* A chunk of connection c arrives: every listener feeds it, in order.     *)
(* With no listener it is lost.                                            *)
TsData(c) ==
    \E k \in 1 .. Len(n_in[c]) :
      LET chunk == SubSeq(n_in[c], 1, k)
          hears(i) == c_tasks[i].pc = "read" /\ c_tasks[i].conn = c
          n == Len(c_tasks)
          fed[i \in 0 .. n] ==      \* the codec's buffer after listeners 1 .. i
              IF i = 0 THEN [stash |-> c_worker.stash, out |-> "wait", got |-> <<>>]
              ELSE IF hears(i) THEN TsFeed(fed[i - 1].stash, chunk, c_tasks[i].run)
              ELSE [fed[i - 1] EXCEPT !.out = "wait"]
          settled(x) == \E i \in 1 .. n : x \in Range(c_tasks[i].run) /\ fed[i].out # "wait"
          mine(x) == CHOOSE i \in 1 .. n : x \in Range(c_tasks[i].run)
          place(x) == CHOOSE j \in DOMAIN c_tasks[mine(x)].run : c_tasks[mine(x)].run[j] = x
          after(i) == IF fed[i].out = "wait" THEN c_tasks[i]
                      ELSE TsPaused("loop", <<>>, c_tasks[i].loop, c_tasks[i].next)
      IN  /\ n_in' = Taken(c, k)
          /\ c_answer' = [x \in Calls |->
                IF c_answer[x] # Unanswered \/ ~settled(x) THEN c_answer[x]
                ELSE IF fed[mine(x)].out = "take"
                     THEN [tag |-> "ok", of |-> fed[mine(x)].got[place(x)]]
                     ELSE [tag |-> "transport", of |-> x]]
          /\ c_tasks' = [i \in 1 .. n |-> after(i)]
          /\ c_worker' = [c_worker EXCEPT !.stash = fed[n].stash]
          /\ UNCHANGED <<c_lang, c_op, c_issued, c_mixed, n_opened, n_lost, n_up, n_out,
                         server_vars>>

(* The socket of a listening flush is closed: reconnect once if the run is *)
(* retry-safe (also on a closed client), else reject.                      *)
TsClosed(i) ==
    LET t == c_tasks[i] IN
    /\ t.pc = "read" /\ ~n_up[t.conn] /\ n_in[t.conn] = <<>>
    /\ IF t.try = 1 /\ TsRetrySafe(t.run)
       THEN /\ c_tasks' = [c_tasks EXCEPT ![i] = TsPaused("reconnect", t.run, t.loop, t.next)]
            /\ UNCHANGED c_answer
       ELSE /\ c_tasks' = [c_tasks EXCEPT ![i] = TsPaused("loop", <<>>, t.loop, t.next)]
            /\ c_answer' = Refused(Range(t.run), "transport")
    /\ UNCHANGED <<c_lang, c_op, c_issued, c_worker, c_mixed, net_vars, server_vars>>

(* reconnect: the current socket, whichever it is, gives way to a new one, *)
(* and the run is written again; or the connection is refused.             *)
TsReconnect(i) ==
    LET t == c_tasks[i] IN
    /\ t.pc = "reconnect"
    /\ \/ /\ Reconnected(c_worker.conn)
          /\ c_worker' = [c_worker EXCEPT !.conn = n_opened + 1]
          /\ c_tasks' = Append(RemoveAt(c_tasks, i),
                               TsListening(t.run, 2, n_opened + 1, t.loop, t.next))
          /\ n_out' = [n_out EXCEPT ![n_opened + 1] = Append(@, t.run)]
          /\ UNCHANGED c_answer
       \/ /\ c_tasks' = [c_tasks EXCEPT ![i] = TsPaused("loop", <<>>, t.loop, t.next)]
          /\ c_answer' = Refused(Range(t.run), "transport")
          /\ UNCHANGED <<c_worker, n_opened, n_up, n_in, n_out>>
    /\ UNCHANGED <<c_lang, c_op, c_issued, c_mixed, n_lost, server_vars>>

(* close: what is queued is rejected, the socket destroyed.                *)
TsClose ==
    /\ ~c_worker.closed
    /\ c_answer' = Refused(Range(c_worker.queue), "closed")
    /\ c_worker' = [c_worker EXCEPT !.closed = TRUE, !.queue = <<>>]
    /\ n_up' = [n_up EXCEPT ![c_worker.conn] = FALSE]
    /\ n_in' = [n_in EXCEPT ![c_worker.conn] = <<>>]
    /\ UNCHANGED <<c_lang, c_op, c_issued, c_tasks, c_mixed,
                   n_opened, n_lost, n_out, server_vars>>

TsStep ==
    \/ TsImmediate
    \/ \E c \in Conns : TsData(c)
    \/ \E i \in DOMAIN c_tasks : TsContinue(i) \/ TsClosed(i) \/ TsReconnect(i)

=============================================================================
