----------------------------- MODULE RustClient -----------------------------
(***************************************************************************)
(* The Rust client library: handles put commands on one channel and await  *)
(* a reply; one worker owns the socket, drains the channel, cuts what it   *)
(* drained into frames and settles every command.                          *)
(***************************************************************************)
EXTENDS RpcNet

(* The public methods (this library has no poll).                          *)
RustOps ==
    [ping |-> Method("ping", TRUE, TRUE, "unit"),
     auth |-> Method("ping", TRUE, TRUE, "unit"),
     insert |-> Method("insert", FALSE, TRUE, "last"),
     insert_fast |-> Method("insert", FALSE, FALSE, "last"),
     get |-> Method("get", FALSE, TRUE, "unless_row_missing"),
     update |-> Method("update", FALSE, FALSE, "last"),
     delete |-> Method("delete", FALSE, FALSE, "unit"),
     scan |-> Method("scan", FALSE, TRUE, "all"),
     find |-> Method("find", FALSE, TRUE, "unless_not_found"),
     search |-> Method("search", FALSE, TRUE, "all"),
     create_table |-> Method("table_create", FALSE, FALSE, "table_name"),
     call |-> Method("call", FALSE, FALSE, "last")]

RustIsDirect(x) == RustOps[c_op[x]].direct

(* The first frame of a drained list: a direct command alone, or the       *)
(* commands up to the next direct one, FLUSH_CHUNK at most.                *)
RustSegment(cmds) ==
    IF RustIsDirect(cmds[1]) THEN 1
    ELSE CHOOSE n \in 1 .. FLUSH_CHUNK :
            /\ n <= Len(cmds)
            /\ \A i \in 1 .. n : ~RustIsDirect(cmds[i])
            /\ \/ n = FLUSH_CHUNK \/ n = Len(cmds)
               \/ RustIsDirect(cmds[n + 1])

(* exec, exec_direct: one channel for both kinds, so their order is kept.  *)
RustExec(x) ==
    /\ c_worker' = [c_worker EXCEPT !.queue = Append(@, x)]
    /\ UNCHANGED c_tasks

(* The worker wakes, re-establishes a connection found dead, and drains    *)
(* everything queued.                                                      *)
RustDrain ==
    /\ c_worker.pc = "idle" /\ c_worker.queue # <<>>
    /\ \/ /\ ~c_worker.dead
          /\ c_worker' = [c_worker EXCEPT !.pc = "segment", !.cmds = c_worker.queue,
                                          !.queue = <<>>]
          /\ UNCHANGED <<n_opened, n_up, n_in>>
       \/ /\ c_worker.dead
          /\ Reconnected(c_worker.conn)
          /\ c_worker' = [c_worker EXCEPT !.pc = "segment", !.cmds = c_worker.queue,
                                          !.queue = <<>>, !.dead = FALSE, !.stash = <<>>,
                                          !.conn = n_opened + 1]
    /\ UNCHANGED <<c_lang, c_op, c_issued, c_answer, c_tasks, c_mixed, n_lost, n_out,
                   server_vars>>

(* Variant: the command is dropped without a reply. *)
RustStillDead_silent ==
    /\ c_worker.pc = "idle" /\ c_worker.queue # <<>> /\ c_worker.dead
    /\ c_worker' = [c_worker EXCEPT !.queue = Tail(@)]
    /\ UNCHANGED <<c_lang, c_op, c_issued, c_answer, c_tasks, c_mixed, net_vars, server_vars>>

(* The reconnection fails: only the command that woke the worker fails.    *)
RustStillDead ==
    /\ c_worker.pc = "idle" /\ c_worker.queue # <<>> /\ c_worker.dead
    /\ c_answer' = Refused({Head(c_worker.queue)}, "transport")
    /\ c_worker' = [c_worker EXCEPT !.queue = Tail(@)]
    /\ UNCHANGED <<c_lang, c_op, c_issued, c_tasks, c_mixed, net_vars, server_vars>>

(* flush_pending begins: the next segment, without the commands that       *)
(* already waited out the timeout.                                         *)
RustFlush ==
    /\ c_worker.pc = "segment" /\ c_worker.cmds # <<>>
    /\ LET n == RustSegment(c_worker.cmds)
           seg == SubSeq(c_worker.cmds, 1, n)
       IN \E late \in IF Slow THEN SUBSET Range(seg) ELSE {{}} :
            LET fresh == Without(seg, late) IN
            /\ c_answer' = Refused(late, "timeout")
            /\ c_worker' = [c_worker EXCEPT
                              !.cmds = SubSeq(@, n + 1, Len(@)), !.run = fresh, !.try = 1,
                              !.pc = IF fresh = <<>> THEN "segment" ELSE "write"]
    /\ UNCHANGED <<c_lang, c_op, c_issued, c_tasks, c_mixed, net_vars, server_vars>>

RustDone ==
    /\ c_worker.pc = "segment" /\ c_worker.cmds = <<>>
    /\ c_worker' = [c_worker EXCEPT !.pc = "idle"]
    /\ UNCHANGED <<c_lang, c_op, c_issued, c_answer, c_tasks, c_mixed, net_vars, server_vars>>

(* flush_once, first half: the frame is written.                           *)
RustWrite ==
    /\ c_worker.pc = "write"
    /\ Send(c_worker.conn, c_worker.run, {})
    /\ c_worker' = [c_worker EXCEPT !.pc = "read"]
    /\ UNCHANGED <<c_lang, c_op, c_issued, c_answer, c_tasks,
                   n_opened, n_lost, n_up, n_in, server_vars>>

RustRetrySafe == \A x \in Range(c_worker.run) : RustOps[c_op[x]].safe

(* Variant: the buffer survives the change of connection. *)
RustFailed_samebuf(stash, k) ==
    \/ /\ c_worker.try = 1 /\ RustRetrySafe
       /\ Reconnected(c_worker.conn)
       /\ c_worker' = [c_worker EXCEPT !.pc = "write", !.try = 2, !.stash = stash,
                                       !.conn = n_opened + 1]
       /\ UNCHANGED c_answer
    \/ /\ c_answer' = Refused(Range(c_worker.run) \cup Range(c_worker.cmds), "transport")
       /\ c_worker' = [c_worker EXCEPT !.pc = "idle", !.dead = FALSE, !.cmds = <<>>,
                                       !.run = <<>>, !.stash = stash]
       /\ n_in' = Taken(c_worker.conn, k)
       /\ UNCHANGED <<n_opened, n_up>>

(* The flush fails.  A retry-safe run is sent once more on a fresh stream  *)
(* with a fresh buffer; otherwise every reply of the run is an error, the  *)
(* connection is dead and what is left of the drained list fails at once.  *)
RustFailed(stash, k) ==
    \/ /\ c_worker.try = 1 /\ RustRetrySafe
       /\ Reconnected(c_worker.conn)
       /\ c_worker' = [c_worker EXCEPT !.pc = "write", !.try = 2, !.stash = <<>>,
                                       !.conn = n_opened + 1]
       /\ UNCHANGED c_answer
    \/ /\ c_answer' = Refused(Range(c_worker.run) \cup Range(c_worker.cmds), "transport")
       /\ c_worker' = [c_worker EXCEPT !.pc = "idle", !.dead = TRUE, !.cmds = <<>>,
                                       !.run = <<>>, !.stash = stash]
       /\ n_in' = Taken(c_worker.conn, k)
       /\ UNCHANGED <<n_opened, n_up>>

(* flush_once, second half: bytes are read until a response is whole.      *)
RustRead ==
    /\ c_worker.pc = "read"
    /\ \E k \in 1 .. Len(n_in[c_worker.conn]) :
         LET stash == c_worker.stash \o SubSeq(n_in[c_worker.conn], 1, k)
             got == stash[1].run
         IN  \/ /\ Whole(stash) /\ SameShape(c_worker.run, got)
                /\ Len(got) = Len(c_worker.run)
                /\ c_answer' = Answered(c_worker.run, got)
                /\ c_worker' = [c_worker EXCEPT !.pc = "segment", !.run = <<>>,
                                                !.stash = SubSeq(stash, 3, Len(stash))]
                /\ n_in' = Taken(c_worker.conn, k)
                /\ UNCHANGED <<n_opened, n_up>>
             \/ /\ Whole(stash)
                /\ ~(SameShape(c_worker.run, got) /\ Len(got) = Len(c_worker.run))
                /\ RustFailed(SubSeq(stash, 3, Len(stash)), k)
             \/ Garbled(stash) /\ RustFailed(stash, k)
             \/ /\ Len(stash) = 1 /\ ~Garbled(stash)
                /\ c_worker' = [c_worker EXCEPT !.stash = stash]
                /\ n_in' = Taken(c_worker.conn, k)
                /\ UNCHANGED <<c_answer, n_opened, n_up>>
    /\ UNCHANGED <<c_lang, c_op, c_issued, c_tasks, c_mixed, n_lost, n_out, server_vars>>

(* The read ends with end of file, or with its deadline.                   *)
RustReadFails ==
    /\ c_worker.pc = "read" /\ n_in[c_worker.conn] = <<>>
    /\ Slow \/ ~n_up[c_worker.conn]
    /\ RustFailed(c_worker.stash, 0)
    /\ UNCHANGED <<c_lang, c_op, c_issued, c_tasks, c_mixed, n_lost, n_out, server_vars>>

RustStep ==
    \/ RustDrain \/ RustStillDead \/ RustFlush \/ RustDone
    \/ RustWrite \/ RustRead \/ RustReadFails

=============================================================================
