-------------------------------- MODULE Jobs --------------------------------
(***************************************************************************)
(* Background jobs: the server's bounded store of WASM jobs with one       *)
(* runner per job on the blocking pool, the guest executor, and the        *)
(* in-process JobScheduler that threads share.                             *)
(*                                                                         *)
(* A guest is pure compute over its input, so a guest is what it does with *)
(* its memory and how its call ends.  Sizes are in units of half a page.   *)
(***************************************************************************)
EXTENDS Integers, FiniteSets, FiniteSetsExt

CONSTANTS
    NJobs,            \* bound: submissions the store accepts
    MAX_WASM_JOBS,    \* jobs the store holds
    MAX_WASM_BYTES,   \* size limit of a module
    Guests,           \* the modules that clients submit
    Retries,          \* the values of _retries that clients send
    MemoryMax,        \* memory_max of the executor
    InputLen,         \* length of the input
    HostFails,        \* may the host fail to give an instance its memory?
    Absent, NoJob,
    Threads,          \* threads that share a JobScheduler
    SchedJobs,        \* the jobs they submit to it
    Handler,          \* Handler[j]: what the handler of j's type does
    Priority          \* Priority[j]: order() of j's priority

(* A job as the server stores it.                                          *)
Terminal == {"Completed", "Failed", "Cancelled"}
RunErrors == {"BadModule", "BadSignature", "GuestTrap", "FuelExhausted"}
JobRecords ==
    [status : {"Pending", "Running"} \cup Terminal, retry_count : Nat, max_retries : Nat,
     result : {"none", "ok"}, error : {"none", "engine"} \cup RunErrors, completed_at : Nat]

ASSUME JobsAssumption ==
    /\ NJobs \in Nat /\ MAX_WASM_JOBS \in Nat \ {0} /\ MemoryMax \in Nat
    /\ NoJob \notin JobRecords
    /\ Retries \ {Absent} \subseteq Int
    /\ InputLen \in Nat /\ HostFails \in BOOLEAN
    /\ \A g \in Guests : g.bytes \in Nat /\ g.have \in Nat /\ g.ptr \in Nat /\ g.len \in Nat

VARIABLES
    j_jobs,    \* wasm_jobs: id -> stored job
    j_run,     \* the runner of each job and its own copy of the job
    j_next,    \* the next fresh id
    j_engine,  \* wasm_engine, a OnceLock: also an error stays in it
    j_time,    \* stamps of completed_at
    q_jobs,    \* the jobs of the JobScheduler
    q_pick     \* q_pick[t]: the job execute_next found in thread t

job_vars == <<j_jobs, j_run, j_next, j_engine, j_time>>
sched_vars == <<q_jobs, q_pick>>
jobs_vars == <<job_vars, sched_vars>>

JobIds == 1 .. NJobs
PAGE == 2

----------------------------------------------------------------------------
(* A job's life (job.rs).                                                  *)

NewJob(max) ==
    [status |-> "Pending", retry_count |-> 0, max_retries |-> max,
     result |-> "none", error |-> "none", completed_at |-> 0]

mark_running(job) == [job EXCEPT !.status = "Running"]

mark_completed(job, result, now) ==
    [job EXCEPT !.status = "Completed", !.result = result, !.completed_at = now]

mark_failed(job, error, now) ==
    IF job.retry_count < job.max_retries
    THEN [job EXCEPT !.error = error, !.status = "Pending", !.retry_count = @ + 1]
    ELSE [job EXCEPT !.error = error, !.status = "Failed", !.completed_at = now]

mark_cancelled(job, now) ==
    [job EXCEPT !.status = "Cancelled", !.completed_at = now]

can_retry(job) ==
    job.status = "Pending" /\ job.retry_count < job.max_retries

----------------------------------------------------------------------------
(* The executor (executor.rs): what running a guest once comes to.         *)

CeilPages(n) == (n + PAGE - 1) \div PAGE

(* The memory after ensure, or -1 when it cannot grow that far.            *)
ensure(have, end) ==
    LET grown == have + (CeilPages(end) - CeilPages(have)) * PAGE
    IN  IF end <= have THEN have
        ELSE IF grown <= MemoryMax THEN grown ELSE -1

read_output(g, have) ==
    IF \/ g.len > MemoryMax
       \/ ensure(have, g.ptr + g.len) = -1
       \/ ~g.utf8
    THEN "GuestTrap" ELSE "ok"

run_bytes(g) ==
    LET have == ensure(g.have, InputLen)
    IN  CASE ~g.compiles \/ g.have > MemoryMax -> "BadModule"
          [] ~g.exports -> "BadSignature"
          [] have = -1 -> "GuestTrap"
          [] g.ends = "trap" -> "GuestTrap"
          [] g.ends = "loop" -> "FuelExhausted"
          [] OTHER -> read_output(g, have)

(* An instance of the engine may also be refused its memory by the host.   *)
Outcomes(g) == {run_bytes(g)} \cup (IF HostFails THEN {"BadModule"} ELSE {})

----------------------------------------------------------------------------
(* The store and its runners (server.rs), and the two ops (transport.rs).  *)

Stored == {i \in JobIds : j_jobs[i] # NoJob}
NoRunner == [pc |-> "none", job |-> NoJob, guest |-> NoJob]
Ended == [NoRunner EXCEPT !.pc = "done"]
RunnerAt(pc, job, runner) == [pc |-> pc, job |-> job, guest |-> runner.guest]

JobsInit ==
    /\ j_jobs = [i \in JobIds |-> NoJob]
    /\ j_run = [i \in JobIds |-> NoRunner]
    /\ j_next = 1
    /\ j_engine = "unset"
    /\ j_time = 1
    /\ q_jobs = [j \in SchedJobs |-> NoJob]
    /\ q_pick = [t \in Threads |-> NoJob]

Clamp(n) == IF n = Absent THEN 3 ELSE Max({0, Min({n, 5})})

(* Variant: anything may be evicted, not only what has ended.              *)
Evictable_live == Stored

Evictable == {i \in Stored : j_jobs[i].status \in Terminal}

Oldest(S) ==
    CHOOSE i \in S : \A k \in S : j_jobs[i].completed_at <= j_jobs[k].completed_at

(* The store is full of live jobs: the submission is refused.              *)
JobQueueFull == Cardinality(Stored) >= MAX_WASM_JOBS /\ Evictable = {}

store_wasm_job(i, job) ==
    LET kept == IF Cardinality(Stored) >= MAX_WASM_JOBS
                THEN [j_jobs EXCEPT ![Oldest(Evictable)] = NoJob]
                ELSE j_jobs
    IN  j_jobs' = [kept EXCEPT ![i] = job]

JobSubmit(g, n) ==
    /\ j_next \in JobIds
    /\ g.bytes <= MAX_WASM_BYTES
    /\ ~JobQueueFull
    /\ store_wasm_job(j_next, NewJob(Clamp(n)))
    /\ j_run' = [j_run EXCEPT ![j_next] =
                    [pc |-> "spawned", job |-> NoJob, guest |-> g]]
    /\ j_next' = j_next + 1
    /\ UNCHANGED <<j_engine, j_time, sched_vars>>

(* run_wasm_job marks the stored copy and works on a clone of it; a job    *)
(* that has left the store is not run.                                     *)
RunStart(i) ==
    /\ j_run[i].pc = "spawned"
    /\ IF j_jobs[i] = NoJob
       THEN /\ j_run' = [j_run EXCEPT ![i] = Ended]
            /\ UNCHANGED j_jobs
       ELSE /\ j_jobs' = [j_jobs EXCEPT ![i] = mark_running(@)]
            /\ j_run' = [j_run EXCEPT ![i] = RunnerAt("engine", mark_running(j_jobs[i]), @)]
    /\ UNCHANGED <<j_next, j_engine, j_time, sched_vars>>

(* Only the order of the completed_at stamps matters, so time moves on     *)
(* when one is taken.                                                      *)
StampAfter(job) == IF job.completed_at = j_time THEN j_time + 1 ELSE j_time

(* wasm_executor: the first runner builds the engine for all.              *)
RunEngine(i) ==
    /\ j_run[i].pc = "engine"
    /\ j_engine' \in IF j_engine # "unset" THEN {j_engine}
                     ELSE {"built"} \cup (IF HostFails THEN {"failed"} ELSE {})
    /\ j_run' = IF j_engine' = "built"
                THEN [j_run EXCEPT ![i] = RunnerAt("attempt", @.job, @)]
                ELSE [j_run EXCEPT ![i] =
                         RunnerAt("storing", mark_failed(@.job, "engine", j_time), @)]
    /\ j_time' = StampAfter(j_run'[i].job)
    /\ UNCHANGED <<j_jobs, j_next, sched_vars>>

AfterRun(job, outcome) ==
    IF outcome = "ok" THEN mark_completed(mark_running(job), outcome, j_time)
    ELSE mark_failed(mark_running(job), outcome, j_time)

RunAttempt(i) ==
    /\ j_run[i].pc = "attempt"
    /\ \E o \in Outcomes(j_run[i].guest) :
          LET job == AfterRun(j_run[i].job, o)
          IN  j_run' = [j_run EXCEPT ![i] =
                          RunnerAt(IF o # "ok" /\ can_retry(job) THEN "attempt" ELSE "storing",
                                   job, @)]
    /\ j_time' = StampAfter(j_run'[i].job)
    /\ UNCHANGED <<j_jobs, j_next, j_engine, sched_vars>>

(* Variant: the outcome is not written back to the store.                  *)
StoredBack_lost(i) == j_jobs

StoredBack(i) ==
    IF j_jobs[i] = NoJob THEN j_jobs ELSE [j_jobs EXCEPT ![i] = j_run[i].job]

RunStore(i) ==
    /\ j_run[i].pc = "storing"
    /\ j_jobs' = StoredBack(i)
    /\ j_run' = [j_run EXCEPT ![i] = Ended]
    /\ UNCHANGED <<j_next, j_engine, j_time, sched_vars>>

----------------------------------------------------------------------------
(* The JobScheduler: every method takes the lock once, execute_next takes  *)
(* it to find a job and again, through execute_job, to run it.             *)

Pending == {j \in SchedJobs : q_jobs[j] # NoJob /\ q_jobs[j].status = "Pending"}

SchedSubmit(j) ==
    /\ q_jobs[j] = NoJob
    /\ q_jobs' = [q_jobs EXCEPT ![j] = NewJob(1)]
    /\ UNCHANGED <<job_vars, q_pick>>

(* pending_jobs sorts by priority; jobs of one priority are in map order.  *)
SchedPick(t) ==
    /\ q_pick[t] = NoJob
    /\ \E j \in Pending :
          /\ \A k \in Pending : Priority[k] <= Priority[j]
          /\ q_pick' = [q_pick EXCEPT ![t] = j]
    /\ UNCHANGED <<job_vars, q_jobs>>

(* What the handler of j's type leaves behind; without a handler the job   *)
(* counts as completed.                                                    *)
Handled(j) ==
    LET job == mark_running(q_jobs[j])
    IN  CASE Handler[j] = "fails" -> mark_failed(job, "handler", 1)
          [] Handler[j] = "silent" -> job
          [] OTHER -> mark_completed(job, Handler[j], 1)

(* Variant: the status is not looked at again under the second lock.       *)
execute_job_blind(j) == q_jobs' = [q_jobs EXCEPT ![j] = Handled(j)]

execute_job(j) ==
    q_jobs' = IF q_jobs[j].status # "Pending" THEN q_jobs
              ELSE [q_jobs EXCEPT ![j] = Handled(j)]

SchedExecute(t) ==
    /\ q_pick[t] # NoJob
    /\ execute_job(q_pick[t])
    /\ q_pick' = [q_pick EXCEPT ![t] = NoJob]
    /\ UNCHANGED job_vars

SchedCancel(j) ==
    /\ q_jobs[j] # NoJob
    /\ q_jobs[j].status \in {"Pending", "Running"}
    /\ q_jobs' = [q_jobs EXCEPT ![j] = mark_cancelled(@, 1)]
    /\ UNCHANGED <<job_vars, q_pick>>

----------------------------------------------------------------------------
JobRunner(i) == RunStart(i) \/ RunEngine(i) \/ RunAttempt(i) \/ RunStore(i)

StoreNext ==
    \/ \E g \in Guests, n \in Retries : JobSubmit(g, n)
    \/ \E i \in JobIds : JobRunner(i)

SchedNext ==
    \/ \E j \in SchedJobs : SchedSubmit(j) \/ SchedCancel(j)
    \/ \E t \in Threads : SchedPick(t) \/ SchedExecute(t)

JobsNext == StoreNext \/ SchedNext

(* The blocking pool runs every task it was given.                         *)
JobsFairness == \A i \in JobIds : WF_jobs_vars(JobRunner(i))

JobsSpec == JobsInit /\ [][JobsNext]_jobs_vars /\ JobsFairness

----------------------------------------------------------------------------
(* The store keeps within its bound and never gives up a job whose runner  *)
(* still has something to write: an accepted job can be polled until its   *)
(* outcome has been stored, whatever order jobs are submitted, retried and *)
(* evicted in.                                                             *)
StoreKeepsLive ==
    /\ Cardinality(Stored) <= MAX_WASM_JOBS
    /\ \A i \in JobIds :
          j_run[i].pc \in {"spawned", "engine", "attempt", "storing"} => j_jobs[i] # NoJob

(* What a poll may see of a job once its runner is gone.  A job that ran   *)
(* out of retries is the third case: mark_failed left it Pending and       *)
(* can_retry already refused another attempt.                              *)
Settled(job) ==
    \/ job.status = "Completed" /\ job.result = "ok"
    \/ job.status = "Failed" /\ job.error # "none"
    \/ job.status = "Pending" /\ job.error # "none" /\ job.retry_count > 0

AllSettled ==
    \A i \in JobIds :
        i < j_next => j_run[i].pc = "done" /\ (j_jobs[i] # NoJob => Settled(j_jobs[i]))

(* Accepted jobs are worked off: once submissions pause, every runner ends *)
(* and the store shows for each job an outcome that agrees with what the   *)
(* guest did, unless the job was evicted meanwhile.                        *)
JobsSettle == (j_next > 1) ~> AllSettled

(* A job of the JobScheduler that has ended stays as it ended: a thread    *)
(* that found it pending and comes late, after another thread ran or       *)
(* cancelled it, does not run it again.                                    *)
TerminalIsFinal ==
    [][\A j \in SchedJobs :
          q_jobs[j] # NoJob /\ q_jobs[j].status \in Terminal => q_jobs'[j] = q_jobs[j]]_jobs_vars
=============================================================================
