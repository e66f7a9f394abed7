----------------------------- MODULE Procedures -----------------------------
(***************************************************************************)
(* Stored procedures: deployment with its validation, the registry, and    *)
(* the runner that executes a call's steps against one transaction.        *)
(*                                                                         *)
(* The runner is a machine with a stack of step lists: the list of the     *)
(* procedure, and one more for every If being executed.  Calls run         *)
(* concurrently with each other, with other writers of the table, and with *)
(* deployments; a call works on a clone of the procedure.  The transaction *)
(* is module TxManager's in its effect: reads record versions, writes are  *)
(* buffered, the commit validates and applies in one step.  The checks of  *)
(* ProcBackend for permissions and owners are in Access, the one for       *)
(* unique values in TxManager.                                             *)
(***************************************************************************)
EXTENDS Integers, Sequences, FiniteSets, SequencesExt

CONSTANTS
    Envelopes,         \* the deploy requests that clients send
    Builtins,          \* functions registered at the start
    LateFunctions,     \* functions an embedder registers later
    Callers,           \* requests that call a procedure
    VarNames,          \* variables: <<name>>, or <<name, column>> for a row read
    Args,              \* the arguments of calls: values of the variables
    Ids,               \* row ids
    ProcRows,       \* the table at the start: id -> row
    Columns,
    MaxDeploys,        \* bound: deployments and drops
    MaxOther,          \* bound: commits of other transactions
    DEFAULT_FUEL, MAX_DEPLOY_STEPS, MAX_DEPLOY_DEPTH, MAX_LITERAL,
    NoProc, NoProcRow

ASSUME ProceduresAssumption ==
    /\ MaxDeploys \in Nat /\ MaxOther \in Nat /\ DEFAULT_FUEL \in Nat
    /\ MAX_DEPLOY_STEPS \in Nat /\ MAX_DEPLOY_DEPTH \in Nat /\ MAX_LITERAL \in Nat
    /\ Ids \subseteq Nat \ {0} /\ LateFunctions \cap Builtins = {}

VARIABLES
    f_funcs,    \* the function registry
    f_procs,    \* the procedures: name -> steps and version
    f_deploys,  \* deployments and drops so far
    f_rows,     \* the table
    f_seq,      \* the commit sequence number
    f_version,  \* the sequence number that last wrote each row
    f_other,    \* commits of other transactions so far
    f_call,     \* f_call[c]: the call of c
    f_wrong     \* history: calls that committed what they should not have

proc_vars == <<f_funcs, f_procs, f_deploys, f_rows, f_seq, f_version, f_other, f_call, f_wrong>>

ValueNull == -1
Unset == -2
Refused == -9
ProcNames == {e.name : e \in Envelopes}

----------------------------------------------------------------------------
(* Literals of the deploy JSON: the kind of value each becomes, or         *)
(* "error".  n is the number of a numeric literal, and the length of the   *)
(* others; the widths are scaled down to 4 bits for 32 and 6 bits for 64.  *)

InWidth(n, bits, signed) ==
    IF signed THEN n >= -(2 ^ (bits - 1)) /\ n < 2 ^ (bits - 1) ELSE n >= 0 /\ n < 2 ^ bits

Tagged(kind, good) == IF good THEN kind ELSE "error"

transform_value(l) ==
    CASE l.form = "number" -> IF InWidth(l.n, 6, TRUE) THEN "Int64"
                              ELSE IF InWidth(l.n, 6, FALSE) THEN "UInt64" ELSE "Float64"
      [] l.form = "uuid string" -> Tagged("Uuid", l.parses)
      [] l.form = "$i32" -> Tagged("Int32", InWidth(l.n, 4, TRUE))
      [] l.form = "$u32" -> Tagged("UInt32", InWidth(l.n, 4, FALSE))
      [] l.form = "$i64" -> Tagged("Int64", InWidth(l.n, 6, TRUE))
      [] l.form = "$u64" -> Tagged("UInt64", InWidth(l.n, 6, FALSE))
      [] l.form = "$bytes" -> Tagged("Bytes", l.parses /\ l.n <= MAX_LITERAL)
      [] l.form \in {"$date", "$uuid", "$ts"} -> Tagged(l.form, l.parses)
      [] OTHER -> l.form   \* null, booleans, strings, arrays, other objects

check_value_size(l) == transform_value(l) \in {"string", "array"} => l.n <= MAX_LITERAL

(* Conditions and steps, as the envelope holds them: every one is a record *)
(* with all the fields, of which a kind of step uses its own.              *)
Lit(n) == [ref |-> FALSE, n |-> n, var |-> <<>>]
Ref(x) == [ref |-> TRUE, n |-> 0, var |-> x]

Condition(op, x, v) == [op |-> op, var |-> x, val |-> v, of |-> <<>>]
Combined(op, cs) == [op |-> op, var |-> <<>>, val |-> Lit(0), of |-> cs]

StepOf(op) == [op |-> op, fn |-> "none", into |-> "none", var |-> <<>>, val |-> Lit(0),
             col |-> "none", args |-> <<>>, cond |-> Combined("All", <<>>), then |-> <<>>, else |-> <<>>]
CallFunction(fn, args) == [StepOf("CallFunction") EXCEPT !.fn = fn, !.args = args]
SetVariable(x, v) == [StepOf("SetVariable") EXCEPT !.var = x, !.val = v]
IfStep(c, t, e) == [StepOf("If") EXCEPT !.cond = c, !.then = t, !.else = e]
ReadStep(id, into) == [StepOf("Read") EXCEPT !.val = id, !.into = into]
InsertStep(col, v, x) == [StepOf("Insert") EXCEPT !.col = col, !.args = <<v>>, !.var = x]
UpdateStep(id, col, v) == [StepOf("Update") EXCEPT !.val = id, !.col = col, !.args = <<v>>]
DeleteStep(id) == [StepOf("Delete") EXCEPT !.val = id]
ReturnStep(v) == [StepOf("Return") EXCEPT !.val = v]
FailStep == StepOf("Fail")

Branches(step) == step.then \o step.else

RECURSIVE check_step(_, _, _)
check_step(step, funcs, depth) ==
    /\ depth <= MAX_DEPLOY_DEPTH + 1
    /\ step.op = "CallFunction" => step.fn \in funcs
    /\ step.op = "If" =>
          /\ Len(step.then) + Len(step.else) <= MAX_DEPLOY_STEPS
          /\ \A s \in ToSet(Branches(step)) : check_step(s, funcs, depth + 1)

validate_procedure(steps, funcs) ==
    /\ Len(steps) \in 1 .. MAX_DEPLOY_STEPS
    /\ \A s \in ToSet(steps) : check_step(s, funcs, 1)

(* An envelope: its version, the name in the request and the one in the    *)
(* procedure, whether all names are well formed, its literals and steps.   *)
deploy_from_parsed(e, funcs) ==
    /\ e.v = 1
    /\ \A l \in e.literals : transform_value(l) # "error" /\ check_value_size(l)
    /\ e.names_ok
    /\ validate_procedure(e.steps, funcs)

----------------------------------------------------------------------------
(* The registry.                                                           *)

IdleCall == [st |-> "idle", steps |-> <<>>, args |-> <<>>, stack |-> <<>>, vars |-> <<>>,
             last |-> ValueNull, burned |-> 0, start |-> 0, buf |-> <<>>, reads |-> {},
             why |-> "none"]

ProceduresInit ==
    /\ f_funcs = Builtins
    /\ f_procs = [n \in ProcNames |-> NoProc]
    /\ f_deploys = 0
    /\ f_rows = [i \in Ids |-> IF i \in DOMAIN ProcRows THEN ProcRows[i] ELSE NoProcRow]
    /\ f_seq = 0
    /\ f_version = [i \in Ids |-> 0]
    /\ f_other = 0
    /\ f_call = [c \in Callers |-> IdleCall]
    /\ f_wrong = {}

register(fn) ==
    /\ f_funcs' = f_funcs \cup {fn}
    /\ UNCHANGED <<f_procs, f_deploys, f_rows, f_seq, f_version, f_other, f_call, f_wrong>>

(* A redeployed procedure has the next version.                            *)
deploy_procedure(n, steps) ==
    /\ validate_procedure(steps, f_funcs)
    /\ f_procs' = [f_procs EXCEPT ![n] =
          [steps |-> steps, version |-> IF @ = NoProc THEN 1 ELSE @.version + 1]]

(* A deployment that fails validation changes nothing.  Validation is done *)
(* twice, the second time as the procedure is stored; functions are never  *)
(* removed, so the second cannot fail where the first did not.             *)
ProcDeploy(e) ==
    /\ f_deploys < MaxDeploys
    /\ deploy_from_parsed(e, f_funcs)
    /\ e.table = e.name
    /\ deploy_procedure(e.name, e.steps)
    /\ f_deploys' = f_deploys + 1
    /\ UNCHANGED <<f_funcs, f_rows, f_seq, f_version, f_other, f_call, f_wrong>>

ProcDrop(n) ==
    /\ f_deploys < MaxDeploys
    /\ f_procs[n] # NoProc
    /\ f_procs' = [f_procs EXCEPT ![n] = NoProc]
    /\ f_deploys' = f_deploys + 1
    /\ UNCHANGED <<f_funcs, f_rows, f_seq, f_version, f_other, f_call, f_wrong>>

(* Another transaction changes or deletes a row.                           *)
OtherCommit(i, row) ==
    /\ f_other < MaxOther
    /\ f_rows[i] # NoProcRow
    /\ f_rows' = [f_rows EXCEPT ![i] = row]
    /\ f_seq' = f_seq + 1
    /\ f_version' = [f_version EXCEPT ![i] = f_seq + 1]
    /\ f_other' = f_other + 1
    /\ UNCHANGED <<f_funcs, f_procs, f_deploys, f_call, f_wrong>>

----------------------------------------------------------------------------
(* The runner.                                                             *)

resolve(vars, v) ==
    IF ~v.ref THEN v.n ELSE IF vars[v.var] = Unset THEN ValueNull ELSE vars[v.var]

RECURSIVE evaluate(_, _)
evaluate(vars, c) ==
    LET has == vars[c.var] # Unset
        x == vars[c.var]
        y == resolve(vars, c.val)
    IN  CASE c.op = "Equals" -> has /\ x = y
          [] c.op = "NotEquals" -> has /\ x # y
          [] c.op = "IsNotNull" -> has /\ x # ValueNull
          [] c.op = "GreaterOrEqual" -> has /\ x >= y
          [] c.op = "LessThan" -> has /\ x < y
          [] c.op = "All" -> \A s \in ToSet(c.of) : evaluate(vars, s)
          [] c.op = "Any" -> \E s \in ToSet(c.of) : evaluate(vars, s)

(* The transaction's view of row i: the newest buffered write of the row   *)
(* decides; an update is laid over the committed row.                      *)
Writes(buf, i) == SelectSeq(buf, LAMBDA w : w.op # "Insert" /\ w.id = i)
TxGet(call, i) ==
    LET w == Writes(call.buf, i)
    IN  IF w = <<>> \/ f_rows[i] = NoProcRow THEN f_rows[i]
        ELSE IF Last(w).op = "Delete" THEN NoProcRow
        ELSE [f_rows[i] EXCEPT ![Last(w).col] = Last(w).n]

(* The built-in functions, as far as numbers go: abs refuses what is no    *)
(* number, coalesce takes the first argument that is not null.  A function *)
(* an embedder registers is taken to do the same.                          *)
FnValue(fn, args) ==
    IF fn = "abs" THEN IF args = <<>> \/ Head(args) = ValueNull THEN Refused ELSE
                       IF Head(args) < 0 THEN -Head(args) ELSE Head(args)
    ELSE LET some == SelectSeq(args, LAMBDA x : x # ValueNull)
         IN  IF some = <<>> THEN ValueNull ELSE Head(some)

(* The call aborts: the transaction is rolled back.                        *)
Aborted(call, why) == [call EXCEPT !.st = "aborted", !.why = why, !.stack = <<>>, !.buf = <<>>]

(* run_steps: a list that has ended is left, and its last value is that of *)
(* the If it belongs to.                                                   *)
RECURSIVE Popped(_)
Popped(stack) ==
    IF stack # <<>> /\ Head(stack) = <<>> THEN Popped(Tail(stack)) ELSE stack

After(call, value, stack) ==
    LET s == Popped(stack)
    IN  [call EXCEPT !.stack = s, !.last = value, !.st = IF s = <<>> THEN "committing" ELSE "running"]

(* A step looks at row i: the runner aborts when the id is not one, or     *)
(* when the transaction has no such row.                                   *)
resolve_id(call, i) ==
    LET looked == [call EXCEPT !.reads = @ \cup {<<i, f_version[i]>>}]
    IN  IF i \notin Ids THEN Aborted(call, "row not found")
        ELSE IF TxGet(call, i) = NoProcRow THEN Aborted(looked, "row not found")
        ELSE looked

(* A read stores <into>.#id and <into>.<column> for every column.          *)
Flattened(vars, into, i, row) ==
    [v \in VarNames |-> IF Len(v) = 2 /\ v[1] = into
                        THEN IF v[2] = "#id" THEN i ELSE row[v[2]]
                        ELSE vars[v]]

Write(call, w) == [call EXCEPT !.buf = Append(@, w)]

run_step(call) ==
    LET s == Head(Head(call.stack))
        rest == <<Tail(Head(call.stack))>> \o Tail(call.stack)
        i == resolve(call.vars, s.val)
        args == [k \in DOMAIN s.args |-> resolve(call.vars, s.args[k])]
        found == resolve_id(call, i)
        write == [op |-> s.op, id |-> i, col |-> s.col, n |-> IF args = <<>> THEN ValueNull ELSE args[1]]
    IN
    CASE s.op = "SetVariable" -> After([call EXCEPT !.vars[s.var] = i], i, rest)
      [] s.op = "CallFunction" ->
           IF s.fn \notin f_funcs THEN Aborted(call, "function not found")
           ELSE IF FnValue(s.fn, args) = Refused THEN Aborted(call, "argument")
           ELSE After(call, FnValue(s.fn, args), rest)
      [] s.op = "If" ->
           After(call, ValueNull, <<IF evaluate(call.vars, s.cond) THEN s.then ELSE s.else>> \o rest)
      [] s.op = "Read" ->
           IF found.st = "aborted" THEN found
           ELSE After([found EXCEPT !.vars = Flattened(@, s.into, i, TxGet(found, i))], i, rest)
      [] s.op = "Insert" ->
           After(Write([call EXCEPT !.vars[s.var] = 0], [write EXCEPT !.id = 0]), 0, rest)
      [] s.op \in {"Update", "Delete"} ->
           IF found.st = "aborted" THEN found ELSE After(Write(found, write), i, rest)
      [] s.op = "Return" -> After(call, i, Tail(call.stack))
      [] s.op = "Fail" -> Aborted(call, "fail")

(* execute_procedure clones the procedure and begins a transaction; each   *)
(* caller calls once.                                                      *)
CallStart(c, n, args) ==
    /\ f_call[c].st = "idle"
    /\ f_procs[n] # NoProc
    /\ f_call' = [f_call EXCEPT ![c] =
          [IdleCall EXCEPT !.st = "running", !.steps = f_procs[n].steps, !.args = args,
                           !.stack = <<f_procs[n].steps>>, !.vars = args, !.start = f_seq]]
    /\ UNCHANGED <<f_funcs, f_procs, f_deploys, f_rows, f_seq, f_version, f_other, f_wrong>>

(* Every step is charged; the step beyond the fuel aborts the call.        *)
CallStep(c) ==
    LET call == [f_call[c] EXCEPT !.burned = @ + 1] IN
    /\ f_call[c].st = "running"
    /\ f_call' = [f_call EXCEPT ![c] =
          IF call.burned > DEFAULT_FUEL THEN Aborted(call, "fuel") ELSE run_step(call)]
    /\ UNCHANGED <<f_funcs, f_procs, f_deploys, f_rows, f_seq, f_version, f_other, f_wrong>>

----------------------------------------------------------------------------
(* What a call should do, as the protocol document has it: the steps one   *)
(* after the other on the table itself, until a Return or a failure.       *)

RECURSIVE Doc(_, _)
Doc(steps, s) ==
    IF steps = <<>> \/ s.end # "no" THEN s
    ELSE
    LET step == Head(steps)
        i == resolve(s.vars, step.val)
        args == [k \in DOMAIN step.args |-> resolve(s.vars, step.args[k])]
        missing == step.op \in {"Read", "Update", "Delete"} /\ (i \notin Ids \/ s.rows[i] = NoProcRow)
        at == [s EXCEPT !.last = i]
        next ==
          CASE missing \/ step.op = "Fail" -> [s EXCEPT !.end = "failed"]
            [] step.op = "SetVariable" -> [at EXCEPT !.vars[step.var] = i]
            [] step.op = "If" -> Doc(IF evaluate(s.vars, step.cond) THEN step.then ELSE step.else,
                                     [s EXCEPT !.last = ValueNull])
            [] step.op = "Read" -> [at EXCEPT !.vars = Flattened(@, step.into, i, s.rows[i])]
            [] step.op = "Insert" -> [s EXCEPT !.inserts = Append(@, args[1]), !.vars[step.var] = 0,
                                               !.last = 0]
            [] step.op = "Update" -> [at EXCEPT !.rows[i][step.col] = args[1]]
            [] step.op = "Delete" -> [at EXCEPT !.rows[i] = NoProcRow]
            [] step.op = "Return" -> [at EXCEPT !.end = "returned"]
            [] step.op = "CallFunction" -> [s EXCEPT !.last = FnValue(step.fn, args)]
    IN  Doc(Tail(steps), next)

Documented(call) ==
    Doc(call.steps, [rows |-> f_rows, vars |-> call.args, inserts |-> <<>>, last |-> ValueNull,
                     end |-> "no"])

----------------------------------------------------------------------------
(* The commit.                                                             *)

(* Variant: versions of rows that were read are not compared.              *)
Stale_unchecked(call) == FALSE

Stale(call) == \E r \in call.reads : f_version[r[1]] # r[2]

(* A row to be written was written by a commit after the call began.       *)
Overwritten(call) == \E i \in Ids : Writes(call.buf, i) # <<>> /\ f_version[i] > call.start

Inserts(buf) == SelectSeq(buf, LAMBDA w : w.op = "Insert")

(* The table after the buffered updates and deletes, in order; inserted    *)
(* rows get new ids and so disturb none of them.                           *)
Applied(rows, buf) ==
    FoldLeft(LAMBDA t, w : CASE w.op = "Update" -> [t EXCEPT ![w.id][w.col] = w.n]
                             [] w.op = "Delete" -> [t EXCEPT ![w.id] = NoProcRow]
                             [] OTHER -> t, rows, buf)

(* A call without writes is not validated: it answers what it read.        *)
CommitReadOnly(c) ==
    /\ f_call[c].st = "committing"
    /\ f_call[c].buf = <<>>
    /\ f_call' = [f_call EXCEPT ![c] = [IdleCall EXCEPT !.st = "ok"]]
    /\ UNCHANGED <<f_funcs, f_procs, f_deploys, f_rows, f_seq, f_version, f_other, f_wrong>>

CommitConflict(c) ==
    /\ f_call[c].st = "committing"
    /\ f_call[c].buf # <<>>
    /\ Stale(f_call[c]) \/ Overwritten(f_call[c])
    /\ f_call' = [f_call EXCEPT ![c] = Aborted(f_call[c], "conflict")]
    /\ UNCHANGED <<f_funcs, f_procs, f_deploys, f_rows, f_seq, f_version, f_other, f_wrong>>

CommitWrites(c) ==
    LET call == f_call[c]
        doc == Documented(call)
        right == /\ doc.end # "failed"
                 /\ doc.rows = Applied(f_rows, call.buf)
                 /\ doc.inserts = [k \in DOMAIN Inserts(call.buf) |-> Inserts(call.buf)[k].n]
                 /\ doc.last = call.last
    IN
    /\ call.st = "committing"
    /\ call.buf # <<>>
    /\ ~Stale(call) /\ ~Overwritten(call)
    /\ f_rows' = Applied(f_rows, call.buf)
    /\ f_seq' = f_seq + 1
    /\ f_version' = [i \in Ids |-> IF Writes(call.buf, i) = <<>> THEN f_version[i] ELSE f_seq + 1]
    /\ f_call' = [f_call EXCEPT ![c] = [IdleCall EXCEPT !.st = "ok"]]
    /\ f_wrong' = IF right THEN f_wrong ELSE f_wrong \cup {c}
    /\ UNCHANGED <<f_funcs, f_procs, f_deploys, f_other>>

CallNext(c) ==
    \/ \E n \in ProcNames, a \in Args : CallStart(c, n, a)
    \/ CallStep(c)
    \/ CommitReadOnly(c)
    \/ CommitConflict(c)
    \/ CommitWrites(c)

ProceduresNext ==
    \/ \E fn \in LateFunctions \ f_funcs : register(fn)
    \/ \E e \in Envelopes : ProcDeploy(e)
    \/ \E n \in ProcNames : ProcDrop(n)
    \/ \E i \in Ids : OtherCommit(i, NoProcRow) \/ OtherCommit(i, [k \in Columns |-> 1])
    \/ \E c \in Callers : CallNext(c)

ProceduresSpec == ProceduresInit /\ [][ProceduresNext]_proc_vars

----------------------------------------------------------------------------
(* A call that commits writes has done to the table, and answers, what its *)
(* steps executed one after the other at the moment of the commit would    *)
(* do, although other calls, transactions and deployments came in between: *)
(* PROTOCOL.md has it all-or-nothing in one transaction, and Return end    *)
(* the call.                                                               *)
RunsAsDocumented == f_wrong = {}

(* What deployment promises: a call never meets a function that is not     *)
(* registered, in whichever branch it hides.                               *)
DeployedRunnable == \A c \in Callers : f_call[c].why # "function not found"

(* Both (ProcedureRunner and validate_procedure).                          *)
ProceduresRight == RunsAsDocumented /\ DeployedRunnable
=============================================================================
