-------------------------- MODULE StatementTimeout --------------------------
(***************************************************************************)
(* Database#statement_timeout= : the progress handler that interrupts a    *)
(* query, and the deadline it keeps on the connection.                     *)
(*                                                                         *)
(* The library calls the handler after every 1000 instructions of a        *)
(* running statement.  The first call after a prepare stores the current   *)
(* time as the deadline; a later call at a later time interrupts.  Time is *)
(* kept relative: the deadline is unset, is the present instant, or past.  *)
(***************************************************************************)
EXTENDS Naturals

CONSTANTS
    Stmt,        \* the statements of one connection
    Preparing,   \* those that call a Ruby function that prepares statements
    Limits       \* values given to statement_timeout=, 0 among them

ASSUME LimitsAssumption ==
    /\ Limits \subseteq Nat /\ 0 \in Limits
    /\ Preparing \subseteq Stmt

VARIABLES
    limit,      \* ctx->stmt_timeout
    deadline,   \* ctx->stmt_deadline
    state,      \* state[s]: the query
    elapsed     \* history: time since its execution began, up to the limit

vars == <<limit, deadline, state, elapsed>>

(* "between": it has returned a row and waits for the next step.           *)
State == {"none", "ready", "running", "between", "interrupted"}

Begun(s) == state[s] \in {"running", "between"}

(* The connection executes one step at a time.                             *)
Quiet == \A s \in Stmt : state[s] # "running"

Init ==
    /\ limit = 0
    /\ deadline = "unset"
    /\ state = [s \in Stmt |-> "none"]
    /\ elapsed = [s \in Stmt |-> 0]

(* The progress handler is removed for 0, and otherwise installed.         *)
SetTimeout(ms) ==
    /\ Quiet
    /\ limit' = ms
    /\ UNCHANGED <<deadline, state, elapsed>>

(* timespecclear(&db_ctx->stmt_deadline).                                  *)
Prepare(s) ==
    /\ Quiet
    /\ state' = [state EXCEPT ![s] = "ready"]
    /\ deadline' = "unset"
    /\ UNCHANGED <<limit, elapsed>>

(* Statement#step: from the beginning, again after an interrupt, or for    *)
(* the next row.                                                           *)
StepBegins(s) ==
    /\ Quiet
    /\ state[s] # "none"
    /\ state' = [state EXCEPT ![s] = "running"]
    /\ elapsed' = IF Begun(s) THEN elapsed ELSE [elapsed EXCEPT ![s] = 0]
    /\ UNCHANGED <<limit, deadline>>

(* It returns a row, or ends.                                              *)
StepEnds(s) ==
    /\ state[s] = "running"
    /\ \E n \in {"between", "ready"} : state' = [state EXCEPT ![s] = n]
    /\ UNCHANGED <<limit, deadline, elapsed>>

(* A definition called No... is a mutant of the one that follows it; only  *)
(* the mutant runs of PROJECT.json use it.                                 *)
NoInterrupt(s) ==
    /\ state[s] = "running" /\ limit > 0
    /\ deadline \in {"unset", "past"}
    /\ deadline' = "now"
    /\ UNCHANGED <<limit, state, elapsed>>

(* rb_sqlite3_statement_timeout.                                           *)
Progress(s) ==
    /\ state[s] = "running" /\ limit > 0
    /\ \/ /\ deadline = "unset"
          /\ deadline' = "now"
          /\ UNCHANGED state
       \/ /\ deadline = "past"
          /\ state' = [state EXCEPT ![s] = "interrupted"]
          /\ UNCHANGED deadline
    /\ UNCHANGED <<limit, elapsed>>

(* A Ruby function that the running query calls prepares a statement.      *)
FunctionPrepares(s) ==
    /\ s \in Preparing
    /\ state[s] = "running"
    /\ deadline' = "unset"
    /\ UNCHANGED <<limit, state, elapsed>>

(* Time passes; a query's time is counted up to the limit.                 *)
Tick ==
    /\ deadline' = IF deadline = "now" THEN "past" ELSE deadline
    /\ elapsed' = [s \in Stmt |-> IF Begun(s) /\ elapsed[s] < limit
                                  THEN elapsed[s] + 1 ELSE elapsed[s]]
    /\ UNCHANGED <<limit, state>>

Next ==
    \/ \E ms \in Limits : SetTimeout(ms)
    \/ \E s \in Stmt :
          \/ Prepare(s) \/ StepBegins(s) \/ StepEnds(s)
          \/ Progress(s) \/ FunctionPrepares(s)
    \/ Tick

Spec == Init /\ [][Next]_vars

(* The clock runs, and so do the instructions of a query.  Nothing makes a *)
(* query end by itself.                                                    *)
Fairness == WF_vars(Tick) /\ \A s \in Stmt : WF_vars(Progress(s))

FairSpec == Spec /\ Fairness

-----------------------------------------------------------------------------
LongRun(s) == state[s] = "running" /\ limit > 0

(* A query that does not end by itself is interrupted, if the functions it *)
(* calls prepare no statements, whatever other queries do between its      *)
(* steps.                                                                  *)
LongQueryEnds == \A s \in Stmt \ Preparing : LongRun(s) ~> ~LongRun(s)

(* The comment of set_statement_timeout: "if a query lasts longer than the *)
(* indicated number of milliseconds, SQLite should interrupt that query".  *)
EveryLongQueryEnds == \A s \in Stmt : LongRun(s) ~> ~LongRun(s)

(* The same comment, read the other way: a query that lasts no longer is   *)
(* not interrupted.                                                        *)
ShortQuerySurvives ==
    [][\A s \in Stmt :
          LongRun(s) /\ state'[s] = "interrupted" => elapsed[s] >= limit]_vars
=============================================================================
