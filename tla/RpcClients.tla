----------------------------- MODULE RpcClients -----------------------------
(***************************************************************************)
(* A client library, the network and the server together: the application  *)
(* makes its calls, connections are lost, deadlines pass, runs are resent. *)
(***************************************************************************)
EXTENDS RustClient, PyClient, GoClient, TsClient

CONSTANTS Langs,   \* the client libraries of this instance
          Closing, \* may the application close its client?
          Programs(_)  \* the calls an application may make, per library

(* The methods of a library.                                               *)
Methods(l) ==
    CASE l = "rust" -> RustOps [] l = "py" -> PyOps [] l = "go" -> GoOps [] l = "ts" -> TsOps

ASSUME LangsAssumption ==
    /\ Langs \subseteq {"rust", "py", "go", "ts"} /\ Closing \in BOOLEAN
    /\ \A l \in Langs : \A p \in Programs(l) : \A x \in DOMAIN p : p[x] \in DOMAIN Methods(l)
    /\ \A l \in Langs : MaxOpened(l) \in 1 .. MaxConns

RpcInit ==
    /\ c_lang \in Langs
    /\ c_op \in Programs(c_lang)
    /\ c_issued = 0
    /\ c_answer = [x \in Calls |-> Unanswered]
    /\ c_worker = [pc |-> "idle", queue |-> <<>>, direct |-> <<>>, cmds |-> <<>>,
                   run |-> <<>>, try |-> 1, back |-> "idle", stash |-> <<>>, conn |-> 1,
                   dead |-> FALSE, closed |-> FALSE, sched |-> FALSE]
    /\ c_tasks = <<>>
    /\ c_mixed = {}
    /\ n_opened = 1 /\ n_lost = 0
    /\ n_up = [c \in Conns |-> c = 1]
    /\ n_out = [c \in Conns |-> <<>>]
    /\ n_in = [c \in Conns |-> <<>>]
    /\ s_busy = [c \in Conns |-> Idle]
    /\ s_done = <<>> /\ s_idem = {} /\ s_excused = {}

(* The application makes its next call; a closed client refuses it.        *)
Issue ==
    LET x == c_issued + 1 IN
    /\ x \in Calls /\ x \in DOMAIN c_op
    /\ c_issued' = x
    /\ IF c_worker.closed
       THEN c_answer' = Refused({x}, "closed") /\ UNCHANGED <<c_worker, c_tasks, c_mixed, n_out>>
       ELSE /\ UNCHANGED c_answer
            /\ \/ c_lang = "rust" /\ RustExec(x) /\ UNCHANGED <<c_mixed, n_out>>
               \/ c_lang = "py" /\ PyExec(x) /\ UNCHANGED <<c_mixed, n_out>>
               \/ c_lang = "go" /\ GoExec(x) /\ UNCHANGED <<c_mixed, n_out>>
               \/ c_lang = "ts" /\ TsExec(x)
    /\ UNCHANGED <<c_lang, c_op, n_opened, n_lost, n_up, n_in, server_vars>>

ClientStep ==
    \/ c_lang = "rust" /\ RustStep
    \/ c_lang = "py" /\ PyStep
    \/ c_lang = "go" /\ GoStep
    \/ c_lang = "ts" /\ TsStep

Deadline(x) ==
    \/ c_lang = "py" /\ PyGiveUp(x)
    \/ c_lang = "ts" /\ TsTimer(x)

Close ==
    /\ Closing
    /\ \/ c_lang = "py" /\ PyClose
       \/ c_lang = "go" /\ GoClose
       \/ c_lang = "ts" /\ TsClose

RpcNext ==
    \/ Issue
    \/ ClientStep
    \/ \E x \in Calls : Deadline(x)
    \/ Close
    \/ \E c \in Conns : SrvStep(c) \/ ConnLost(c)

(* The worker (or event loop), the server's tasks and the callers' timers  *)
(* keep running; the network owes nothing, nor does the application.       *)
RpcFairness ==
    /\ WF_rpc_vars(ClientStep)
    /\ \A c \in Conns : WF_rpc_vars(SrvStep(c))
    /\ \A x \in Calls : WF_rpc_vars(Deadline(x))

RpcSpec == RpcInit /\ [][RpcNext]_rpc_vars /\ RpcFairness

-----------------------------------------------------------------------------
(* Properties                                                              *)

OkFor(x) == c_answer[x].tag = "ok"
Executed(x) == x \in Range(s_done)
FirstAt(x) == CHOOSE i \in DOMAIN s_done : s_done[i] = x /\ \A j \in 1 .. i - 1 : s_done[j] # x
CountOf(x) == Cardinality({i \in DOMAIN s_done : s_done[i] = x})

(* A call that returns a result returns its own: the server executed that  *)
(* very call and the response handed out is the one written for it, though *)
(* no client compares ids and whatever was lost, late or resent.  A client *)
(* that wrote a frame while another response was due is excused, which the *)
(* Rust client never does.                                                 *)
AnswersOwn ==
    /\ \A x \in Calls : OkFor(x) => \/ c_answer[x].of = x /\ Executed(x)
                                    \/ "due" \in c_mixed
    /\ c_lang = "rust" => c_mixed = {}

(* Resending never repeats an effect: an operation that is not a read is   *)
(* executed at most once, except a keyed insert whose two executions       *)
(* overlapped or whose key the full cache had dropped.                     *)
AppliedAtMostOnce ==
    \A x \in Calls : CountOf(x) > 1 => c_op[x] \in ReadOps \/ x \in s_excused

(* Batched calls that return results took effect in the order in which     *)
(* they were made, across frames, retries and connections.  The TypeScript *)
(* client is excused once two of its flushes were under way together: each *)
(* resends on a connection of its own; and every client once it wrote with *)
(* a response due, since its answers may then be those of other calls.     *)
EffectsInOrder ==
    \A x, y \in Calls :
        /\ x < y /\ OkFor(x) /\ OkFor(y) /\ c_mixed = {}
        /\ {c_op[x], c_op[y]} \cap {"ping", "auth"} = {}
        => FirstAt(x) < FirstAt(y)

(* Both: through resends, reconnections and batching an operation takes    *)
(* effect once, and in its turn.                                           *)
EffectsOnceInOrder == AppliedAtMostOnce /\ EffectsInOrder

(* Every call returns: with a result, an error or a timeout.  The Go       *)
(* client is excused once closed.                                          *)
EveryCallReturns ==
    \A x \in Calls : (c_issued >= x) ~> \/ c_answer[x] # Unanswered
                                        \/ c_lang = "go" /\ c_worker.closed
=============================================================================
