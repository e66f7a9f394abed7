------------------------------ MODULE GoClient ------------------------------
(***************************************************************************)
(* The Go client: one buffered channel of commands, one worker goroutine,  *)
(* callers that block until the worker settles them.  Like the Python      *)
(* client it keeps using a connection after a run that may not be resent,  *)
(* and keeps its codec's buffer across connections.                        *)
(***************************************************************************)
EXTENDS RpcNet

(* The public methods.                                                     *)
GoRowOps ==
    [ping |-> Method("ping", TRUE, TRUE, "unit"),
     auth |-> Method("ping", TRUE, TRUE, "unit"),
     insert |-> Method("insert", FALSE, TRUE, "last"),
     insert_fast |-> Method("insert", FALSE, FALSE, "last"),
     get |-> Method("get", FALSE, TRUE, "unless_row_missing"),
     update |-> Method("update", FALSE, FALSE, "last"),
     delete |-> Method("delete", FALSE, FALSE, "unit")]

GoQueryOps ==
    [scan |-> Method("scan", FALSE, TRUE, "all"),
     find |-> Method("find", FALSE, TRUE, "unless_not_found"),
     search |-> Method("search", FALSE, TRUE, "all"),
     create_table |-> Method("table_create", FALSE, FALSE, "table_name"),
     call |-> Method("call", FALSE, FALSE, "last"),
     poll |-> Method("subscribe", FALSE, TRUE, "all")]

GoOps ==
    [o \in DOMAIN GoRowOps \cup DOMAIN GoQueryOps |->
        IF o \in DOMAIN GoRowOps THEN GoRowOps[o] ELSE GoQueryOps[o]]

GoIsDirect(x) == GoOps[c_op[x]].direct

(* exec: the command goes on the channel.                                  *)
GoExec(x) ==
    /\ c_worker' = [c_worker EXCEPT !.queue = Append(@, x)]
    /\ UNCHANGED c_tasks

GoClose ==
    /\ ~c_worker.closed
    /\ c_worker' = [c_worker EXCEPT !.closed = TRUE]
    /\ n_up' = [n_up EXCEPT ![c_worker.conn] = FALSE]
    /\ n_in' = [n_in EXCEPT ![c_worker.conn] = <<>>]
    /\ UNCHANGED <<c_lang, c_op, c_issued, c_answer, c_tasks, c_mixed,
                   n_opened, n_lost, n_out, server_vars>>

(* The worker receives a command and drains the channel; on a closed       *)
(* client it returns, and the commands it holds are never settled.         *)
GoDrain ==
    /\ c_worker.pc = "idle" /\ c_worker.queue # <<>>
    /\ c_worker' = IF c_worker.closed
                   THEN [c_worker EXCEPT !.pc = "gone", !.queue = Tail(@)]
                   ELSE [c_worker EXCEPT !.pc = "segment", !.cmds = c_worker.queue,
                                         !.queue = <<>>]
    /\ UNCHANGED <<c_lang, c_op, c_issued, c_answer, c_tasks, c_mixed, net_vars, server_vars>>

GoSegment(cmds) ==
    IF GoIsDirect(cmds[1]) THEN 1
    ELSE CHOOSE n \in 1 .. FLUSH_CHUNK :
            /\ n <= Len(cmds)
            /\ \A i \in 1 .. n : ~GoIsDirect(cmds[i])
            /\ \/ n = FLUSH_CHUNK \/ n = Len(cmds)
               \/ GoIsDirect(cmds[n + 1])

(* Only a batch run is followed by a look at the closed flag.              *)
GoAfter(run) ==
    IF c_worker.closed /\ run # <<>> /\ ~GoIsDirect(run[1]) THEN "gone" ELSE "segment"

GoFlush ==
    /\ c_worker.pc = "segment" /\ c_worker.cmds # <<>>
    /\ LET n == GoSegment(c_worker.cmds)
           seg == SubSeq(c_worker.cmds, 1, n)
           rest == SubSeq(c_worker.cmds, n + 1, Len(c_worker.cmds))
       IN IF c_worker.closed
          THEN /\ c_answer' = Refused(Range(seg), "closed")
               /\ c_worker' = [c_worker EXCEPT !.cmds = rest, !.pc = GoAfter(seg)]
          ELSE \E late \in IF Slow THEN SUBSET Range(seg) ELSE {{}} :
                 LET fresh == Without(seg, late) IN
                 /\ c_answer' = Refused(late, "timeout")
                 /\ c_worker' = [c_worker EXCEPT
                                   !.cmds = rest, !.run = fresh, !.try = 1,
                                   !.pc = IF fresh = <<>> THEN "segment" ELSE "write"]
    /\ UNCHANGED <<c_lang, c_op, c_issued, c_tasks, c_mixed, net_vars, server_vars>>

GoDone ==
    /\ c_worker.pc = "segment" /\ c_worker.cmds = <<>>
    /\ c_worker' = [c_worker EXCEPT !.pc = "idle"]
    /\ UNCHANGED <<c_lang, c_op, c_issued, c_answer, c_tasks, c_mixed, net_vars, server_vars>>

GoWrite ==
    /\ c_worker.pc = "write"
    /\ Send(c_worker.conn, c_worker.run, {})
    /\ c_worker' = [c_worker EXCEPT !.pc = "read"]
    /\ UNCHANGED <<c_lang, c_op, c_issued, c_answer, c_tasks,
                   n_opened, n_lost, n_up, n_in, server_vars>>

GoRetrySafe == \A x \in Range(c_worker.run) : GoOps[c_op[x]].safe

(* A failed writeRead.  The pieces read so far stay in the codec.          *)
GoFailed(stash, k) ==
    \/ /\ c_worker.try = 1 /\ GoRetrySafe
       /\ Reconnected(c_worker.conn)
       /\ c_worker' = [c_worker EXCEPT !.pc = "write", !.try = 2, !.stash = stash,
                                       !.conn = n_opened + 1]
       /\ UNCHANGED c_answer
    \/ /\ c_answer' = Refused(Range(c_worker.run), "transport")
       /\ c_worker' = [c_worker EXCEPT !.pc = GoAfter(c_worker.run), !.run = <<>>,
                                       !.stash = stash]
       /\ n_in' = Taken(c_worker.conn, k)
       /\ UNCHANGED <<n_opened, n_up>>

(* The response list is indexed by the run without a look at its length:   *)
(* a shorter one ends the process.                                         *)
GoRead ==
    /\ c_worker.pc = "read"
    /\ \E k \in 1 .. Len(n_in[c_worker.conn]) :
         LET stash == c_worker.stash \o SubSeq(n_in[c_worker.conn], 1, k)
             got == stash[1].run
         IN  \/ /\ Whole(stash) /\ SameShape(c_worker.run, got)
                /\ n_in' = Taken(c_worker.conn, k)
                /\ IF Len(got) >= Len(c_worker.run)
                   THEN /\ c_answer' = Answered(c_worker.run, got)
                        /\ c_worker' = [c_worker EXCEPT !.pc = GoAfter(c_worker.run),
                                                        !.run = <<>>, !.stash = AfterWhole(stash)]
                   ELSE /\ c_worker' = [c_worker EXCEPT !.pc = "gone"]
                        /\ UNCHANGED c_answer
                /\ UNCHANGED <<n_opened, n_up>>
             \/ /\ Whole(stash) /\ ~SameShape(c_worker.run, got)
                /\ GoFailed(AfterWhole(stash), k)
             \/ Garbled(stash) /\ GoFailed(stash, k)
             \/ /\ Len(stash) = 1 /\ ~Garbled(stash)
                /\ c_worker' = [c_worker EXCEPT !.stash = stash]
                /\ n_in' = Taken(c_worker.conn, k)
                /\ UNCHANGED <<c_answer, n_opened, n_up>>
    /\ UNCHANGED <<c_lang, c_op, c_issued, c_tasks, c_mixed, n_lost, n_out, server_vars>>

GoReadFails ==
    /\ c_worker.pc = "read" /\ n_in[c_worker.conn] = <<>>
    /\ Slow \/ ~n_up[c_worker.conn]
    /\ GoFailed(c_worker.stash, 0)
    /\ UNCHANGED <<c_lang, c_op, c_issued, c_tasks, c_mixed, n_lost, n_out, server_vars>>

GoStep ==
    GoDrain \/ GoFlush \/ GoDone \/ GoWrite \/ GoRead \/ GoReadFails

=============================================================================
