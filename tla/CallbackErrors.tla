--------------------------- MODULE CallbackErrors ---------------------------
(***************************************************************************)
(* Exceptions of functions and aggregates written in Ruby, on their way    *)
(* through sqlite3_step to the caller of Statement#step.                   *)
(*                                                                         *)
(* No exception may cross the library's frames.  rb_protect stops it in    *)
(* the callback and leaves it in errinfo, a variable of the thread; the    *)
(* callback reports a plain error to the library; and Statement#step looks *)
(* at errinfo when the library has returned.  Between the two, more Ruby   *)
(* code may run: the aggregates of the query are stepped on, their         *)
(* finalizers run, and each may rescue exceptions of its own or run        *)
(* another statement.                                                      *)
(*                                                                         *)
(* One statement is stepped: a query that calls one scalar function and    *)
(* the given aggregates, group after group.                                *)
(***************************************************************************)
EXTENDS Naturals

CONSTANTS
    Aggregate,    \* the aggregates of the query
    Function,     \* its scalar function
    Nil,          \* no exception, no callback
    Unsupported,  \* TRUE if finalize may return a value SQLite has no type for
    MaxRows       \* bound: rows stepped in one execution

Callback == Aggregate \cup {Function}

(* What Statement#step does if no exception is pending.                    *)
Plain == {"none", "row", "nil", "Ruby Exception occurred", "interrupted",
          "jumped"}

ASSUME CallbackAssumption ==
    /\ Function \notin Aggregate
    /\ Nil \notin Callback
    /\ Callback \cap Plain = {}
    /\ Unsupported \in BOOLEAN
    /\ MaxRows \in Nat

VARIABLES
    engine,     \* what sqlite3_step is doing
    code,       \* the result it will return
    rows,       \* rows stepped in this execution
    group,      \* rows of the present group
    todo,       \* callbacks still to be called for the row, the group, the halt
    slot,       \* slot[a]: *inst_ptr, in the memory SQLite keeps for a group
    exc,        \* exc[a]: "-exc_status" of the instance
    instances,  \* instances[a]: length of "-instances" of the wrapper
    seen,       \* seen[a]: rows that the last handler instance of a was given
    running,    \* the callback whose Ruby code runs
    method,     \* the method of it that runs
    errinfo,    \* the pending exception, named by the callback it escaped from
    raised,     \* history: callbacks an exception escaped from in this step
    inner,      \* what a statement run by a callback did last
    outcome     \* what Statement#step did last

engineVars == <<engine, code, rows, group, todo>>
instanceVars == <<slot, exc, instances, seen>>
callVars == <<running, method>>
vars == <<engineVars, instanceVars, callVars, errinfo, raised, inner, outcome>>

(* "rows": stepping the rows of a group; "final": computing the result of  *)
(* a group; "halt": releasing the groups in progress after an error;       *)
(* "lost": a jump left sqlite3_step in the middle.                         *)
Engine == {"idle", "rows", "final", "halt", "lost"}

Code == {"ROW", "DONE", "ERROR", "INTERRUPT"}

Row == "row"
Answer == [ROW |-> Row, DONE |-> "nil", ERROR |-> "Ruby Exception occurred",
           INTERRUPT |-> "interrupted"]

Init ==
    /\ engine = "idle" /\ code = "DONE" /\ rows = 0 /\ group = 0 /\ todo = {}
    /\ slot = [a \in Aggregate |-> "Qfalse"]
    /\ exc = [a \in Aggregate |-> FALSE]
    /\ instances = [a \in Aggregate |-> 0]
    /\ seen = [a \in Aggregate |-> 0]
    /\ running = Nil /\ method = "none"
    /\ errinfo = Nil
    /\ raised = {}
    /\ inner = Row
    /\ outcome = "none"

-----------------------------------------------------------------------------
(* The library.                                                            *)

(* sqlite3_step goes on after a row, or starts the statement again.        *)
StepBegins ==
    /\ engine = "idle"
    /\ engine' = "rows"
    /\ code' = IF code = "ROW" THEN "ROW" ELSE "DONE"
    /\ rows' = IF code = "ROW" THEN rows ELSE 0
    /\ group' = 0
    /\ todo' = {}
    /\ raised' = {}
    /\ UNCHANGED <<instanceVars, callVars, errinfo, inner, outcome>>

(* The next row of the group: every callback is called once.               *)
NextRow ==
    /\ engine = "rows" /\ todo = {} /\ running = Nil
    /\ rows < MaxRows
    /\ rows' = rows + 1 /\ group' = group + 1
    /\ todo' = Callback
    /\ UNCHANGED <<engine, code, instanceVars, callVars, errinfo, raised, inner,
                   outcome>>

InProgress == {a \in Aggregate : slot[a] = "instance"}

(* The group is complete; a query without rows has one empty group.        *)
EndOfGroup ==
    /\ engine = "rows" /\ todo = {} /\ running = Nil
    /\ InProgress = Aggregate \/ (rows = 0 /\ code = "DONE")
    /\ engine' = "final"
    /\ todo' = Aggregate
    /\ code' = "ROW"
    /\ UNCHANGED <<rows, group, instanceVars, callVars, errinfo, raised,
                   inner, outcome>>

(* There is no further group.                                              *)
EndOfRows ==
    /\ engine = "rows" /\ todo = {} /\ running = Nil
    /\ InProgress = {}
    /\ engine' = "final" /\ code' = "DONE"
    /\ UNCHANGED <<rows, group, todo, instanceVars, callVars, errinfo, raised,
                   inner, outcome>>

(* sqlite3_interrupt, or the statement timeout, between two rows.          *)
Interrupted ==
    /\ engine = "rows" /\ todo = {} /\ running = Nil
    /\ engine' = "halt" /\ code' = "INTERRUPT" /\ todo' = InProgress
    /\ UNCHANGED <<rows, group, instanceVars, callVars, errinfo, raised,
                   inner, outcome>>

-----------------------------------------------------------------------------
(* rb_sqlite3_aggregate_instance, rb_sqlite3_aggregator_step and _final.   *)

CallFunction ==
    /\ engine = "rows" /\ Function \in todo /\ running = Nil
    /\ running' = Function /\ method' = "call"
    /\ UNCHANGED <<engineVars, instanceVars, errinfo, raised, inner, outcome>>

(* The first call of a group asks the handler class for a new instance.    *)
NewInstance(a) ==
    /\ engine \in {"rows", "final"} /\ a \in todo /\ running = Nil
    /\ slot[a] = "Qfalse"
    /\ running' = a /\ method' = "new"
    /\ UNCHANGED <<engineVars, instanceVars, errinfo, raised, inner, outcome>>

(* An instance that has raised is not called any more.                     *)
SkipStep(a) ==
    /\ engine = "rows" /\ a \in todo /\ running = Nil
    /\ slot[a] = "instance" /\ exc[a]
    /\ todo' = todo \ {a}
    /\ UNCHANGED <<engine, code, rows, group, instanceVars, callVars, errinfo, raised,
                   inner, outcome>>

CallStep(a) ==
    /\ engine = "rows" /\ a \in todo /\ running = Nil
    /\ slot[a] = "instance" /\ ~exc[a]
    /\ running' = a /\ method' = "step"
    /\ UNCHANGED <<engineVars, instanceVars, errinfo, raised, inner, outcome>>

CallFinalize(a) ==
    /\ engine \in {"final", "halt"} /\ a \in todo /\ running = Nil
    /\ slot[a] = "instance" /\ ~exc[a]
    /\ running' = a /\ method' = "finalize"
    /\ UNCHANGED <<engineVars, instanceVars, errinfo, raised, inner, outcome>>

(* A definition called No... is a mutant of the one that follows it; only  *)
(* the mutant runs of PROJECT.json use it.                                 *)
NoRemoval(a) ==
    /\ slot' = [slot EXCEPT ![a] = "Qnil"]
    /\ UNCHANGED <<exc, instances, seen>>

(* rb_sqlite3_aggregate_instance_destroy.                                  *)
Destroy(a) ==
    /\ instances' = [instances EXCEPT ![a] = @ - 1]
    /\ slot' = [slot EXCEPT ![a] = "Qnil"]
    /\ UNCHANGED <<exc, seen>>

(* sqlite3_result_error: the statement halts, and so do the other groups   *)
(* in progress; an error while halting changes nothing.                    *)
ResultError(a) ==
    IF engine = "halt"
    THEN todo' = todo \ {a} /\ UNCHANGED <<engine, code>>
    ELSE engine' = "halt" /\ code' = "ERROR" /\ todo' = InProgress \ {a}

(* The finalizer of an instance that has raised.                           *)
FinalError(a) ==
    /\ engine \in {"final", "halt"} /\ a \in todo /\ running = Nil
    /\ slot[a] = "instance" /\ exc[a]
    /\ ResultError(a)
    /\ Destroy(a)
    /\ UNCHANGED <<rows, group, callVars, errinfo, raised, inner, outcome>>

-----------------------------------------------------------------------------
(* Ruby code in a callback.                                                *)

(* It raises and rescues an exception of its own, or leaves a block early: *)
(* the interpreter clears errinfo.                                         *)
RescueInside ==
    /\ running # Nil
    /\ errinfo' = Nil
    /\ UNCHANGED <<engineVars, instanceVars, callVars, raised, inner, outcome>>

(* It steps another statement, one that calls no Ruby function, and        *)
(* rescues what that raises.                                               *)
InnerStep ==
    /\ running # Nil
    /\ inner' = IF errinfo = Nil THEN Row ELSE errinfo
    /\ errinfo' = Nil
    /\ UNCHANGED <<engineVars, instanceVars, callVars, raised, outcome>>

CallEnds == running' = Nil /\ method' = "none"

NoFreshHandler(a) == UNCHANGED seen

(* new: the classes that create_aggregate, create_aggregate_handler and    *)
(* define_aggregator make give every instance a FunctionProxy, or a clone  *)
(* of the template, of its own.                                            *)
FreshHandler(a) == seen' = [seen EXCEPT ![a] = 0]

(* The instance is listed and kept in the context of the group.            *)
InstanceMade(a, failed) ==
    /\ FreshHandler(a)
    /\ slot' = [slot EXCEPT ![a] = "instance"]
    /\ exc' = [exc EXCEPT ![a] = failed]
    /\ instances' = [instances EXCEPT ![a] = @ + 1]

NewReturns ==
    /\ method = "new"
    /\ InstanceMade(running, FALSE)
    /\ CallEnds
    /\ UNCHANGED <<engineVars, errinfo, raised, inner, outcome>>

StepReturns ==
    /\ method = "step"
    /\ todo' = todo \ {running}
    /\ seen' = [seen EXCEPT ![running] = @ + 1]
    /\ CallEnds
    /\ UNCHANGED <<engine, code, rows, group, slot, exc, instances, errinfo, raised,
                   inner, outcome>>

FinalizeReturns ==
    /\ method = "finalize"
    /\ todo' = todo \ {running}
    /\ Destroy(running)
    /\ CallEnds
    /\ UNCHANGED <<engine, code, rows, group, errinfo, raised, inner, outcome>>

FunctionReturns ==
    /\ method = "call"
    /\ todo' = todo \ {running}
    /\ CallEnds
    /\ UNCHANGED <<engine, code, rows, group, instanceVars, errinfo, raised, inner,
                   outcome>>

(* An exception escapes: rb_protect leaves it in errinfo.                  *)
Escapes == errinfo' = running /\ raised' = raised \cup {running} /\ CallEnds

(* rb_sqlite3_aggregate_instance keeps an instance without a handler.      *)
NewRaises ==
    /\ method = "new"
    /\ InstanceMade(running, TRUE)
    /\ Escapes
    /\ UNCHANGED <<engineVars, inner, outcome>>

NoStatusKept ==
    /\ method = "step"
    /\ todo' = todo \ {running}
    /\ Escapes
    /\ UNCHANGED <<engine, code, rows, group, instanceVars, inner, outcome>>

(* The library is not told of it before the finalizer of the aggregate.    *)
StepRaises ==
    /\ method = "step"
    /\ exc' = [exc EXCEPT ![running] = TRUE]
    /\ todo' = todo \ {running}
    /\ Escapes
    /\ UNCHANGED <<engine, code, rows, group, slot, instances, seen, inner,
                   outcome>>

FinalizeRaises ==
    /\ method = "finalize"
    /\ ResultError(running)
    /\ Destroy(running)
    /\ Escapes
    /\ UNCHANGED <<rows, group, inner, outcome>>

(* rb_sqlite3_func, unlike an aggregate, reports the error at once.        *)
FunctionRaises ==
    /\ method = "call"
    /\ ResultError(running)
    /\ Escapes
    /\ UNCHANGED <<rows, group, instanceVars, inner, outcome>>

(* set_sqlite3_func_result raises for a value of another type; in          *)
(* rb_sqlite3_aggregator_final it runs outside rb_protect.                 *)
FinalizeReturnsUnsupported ==
    /\ Unsupported
    /\ method = "finalize"
    /\ engine' = "lost"
    /\ outcome' = "jumped"
    /\ CallEnds
    /\ UNCHANGED <<code, rows, group, todo, instanceVars, errinfo, raised,
                   inner>>

-----------------------------------------------------------------------------
NoErrinfoReset ==
    /\ engine \in {"final", "halt"} /\ todo = {} /\ running = Nil
    /\ engine' = "idle"
    /\ outcome' = IF errinfo # Nil THEN errinfo ELSE Answer[code]
    /\ slot' = [a \in Aggregate |-> "Qfalse"]
    /\ exc' = [a \in Aggregate |-> FALSE]
    /\ UNCHANGED <<code, rows, group, todo, instances, seen, callVars,
                   errinfo, raised, inner>>

(* Statement#step, once the library has returned: a pending exception is   *)
(* raised again, whatever the library's answer.                            *)
StepEnds ==
    /\ engine \in {"final", "halt"} /\ todo = {} /\ running = Nil
    /\ engine' = "idle"
    /\ outcome' = IF errinfo # Nil THEN errinfo ELSE Answer[code]
    /\ errinfo' = Nil
    /\ slot' = [a \in Aggregate |-> "Qfalse"]
    /\ exc' = [a \in Aggregate |-> FALSE]
    /\ UNCHANGED <<code, rows, group, todo, instances, seen, callVars,
                   raised, inner>>

Library ==
    \/ StepBegins \/ NextRow \/ EndOfGroup \/ EndOfRows \/ Interrupted
    \/ CallFunction
    \/ \E a \in Aggregate :
          \/ NewInstance(a) \/ SkipStep(a) \/ CallStep(a)
          \/ CallFinalize(a) \/ FinalError(a)

RubyCode ==
    \/ RescueInside \/ InnerStep
    \/ NewReturns \/ StepReturns \/ FinalizeReturns \/ FunctionReturns
    \/ NewRaises \/ StepRaises \/ FinalizeRaises \/ FunctionRaises
    \/ FinalizeReturnsUnsupported

Next == Library \/ RubyCode \/ StepEnds

Spec == Init /\ [][Next]_vars

-----------------------------------------------------------------------------
Method == {"none", "call", "new", "step", "finalize"}

TypeOK ==
    /\ engine \in Engine /\ code \in Code /\ rows \in 0..MaxRows
    /\ group \in 0..rows /\ seen \in [Aggregate -> 0..MaxRows]
    /\ todo \in SUBSET Callback
    /\ slot \in [Aggregate -> {"Qfalse", "instance", "Qnil"}]
    /\ exc \in [Aggregate -> BOOLEAN]
    /\ instances \in [Aggregate -> Nat]
    /\ running \in Callback \cup {Nil} /\ method \in Method
    /\ errinfo \in Callback \cup {Nil}
    /\ raised \in SUBSET Callback

(* No uncaught exception of a callback is swallowed: the step it happened  *)
(* in returns neither a row nor nil, although the exception itself may     *)
(* have been cleared from errinfo meanwhile, and although an aggregate     *)
(* reports it to the library only when it is finalized.                    *)
NoExceptionLost ==
    engine = "idle" /\ raised # {} => outcome \notin {Row, "nil"}

(* Statement#step raises the exception of a callback that it called itself,*)
(* and no exception of one step is left for the next.                      *)
OwnException ==
    engine = "idle" => errinfo = Nil /\ (outcome \in Callback => outcome \in raised)

(* The comment of rb_sqlite3_aggregate_instance_destroy: the handler "won't*)
(* be marked any more and Ruby's GC may free it".  Between steps no        *)
(* instance is marked, during a step one for each group in progress.       *)
InstancesReleased ==
    \A a \in Aggregate :
        instances[a] = IF engine # "idle" /\ slot[a] = "instance" THEN 1 ELSE 0

(* In a row that step returns, the value of every aggregate is that of the *)
(* whole group and of no other row, whatever callbacks of this group or of *)
(* an earlier one raised and rescued (rb_sqlite3_aggregate_instance).      *)
GroupsAreWhole ==
    engine = "idle" /\ outcome = Row => \A a \in Aggregate : seen[a] = group

(* The comment of rb_sqlite3_aggregator_final and of rb_sqlite3_func: "the *)
(* user should never see" the message of the error given to the library.   *)
MessageNeverSeen == outcome # "Ruby Exception occurred"

(* The comment of step: "some user defined function was invoked as a       *)
(* callback during step and it raised an exception".  A statement that     *)
(* calls no function raises no such exception.                             *)
InnerRaisesNothing == inner = Row

(* Every instance of a handler is released in the end, also when the value *)
(* of finalize has no SQLite type.                                         *)
ReleasedAfterJump == engine = "lost" => \A a \in Aggregate : instances[a] = 0
=============================================================================
