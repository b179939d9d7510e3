--------------------------- MODULE StatementCursor --------------------------
(***************************************************************************)
(* A prepared statement and the result sets made from it.                  *)
(*                                                                         *)
(* vm and pos are the library's virtual machine behind the statement, done *)
(* is the flag done_p by which the Ruby side remembers that the machine    *)
(* has answered DONE, and bound holds the values of its parameters.        *)
(* Several result sets share one statement, and the block of one loop may  *)
(* call any operation on the statement, so operations interleave freely.   *)
(***************************************************************************)
EXTENDS Naturals, Sequences

CONSTANTS
    ResultSet,   \* the ResultSet objects
    Param,       \* the parameters of the statement
    Value,       \* values of a parameter
    Null,        \* the value of a parameter that is not bound
    RowCount,    \* RowCount[b]: rows of the query under the binding b
    MaxRuns      \* bound: how often the virtual machine is started

Binding == [Param -> Value]

(* What a call may give: values for some of the parameters.                *)
Given == UNION {[S -> Value] : S \in SUBSET Param}

ASSUME CursorAssumption ==
    /\ Null \in Value
    /\ RowCount \in [Binding -> Nat]
    /\ MaxRuns \in Nat

VARIABLES
    st,       \* the sqlite3_stmt: "open" or "NULL"
    query,    \* the statement has columns
    vm,       \* the virtual machine
    pos,      \* rows it has returned since it was started
    bound,    \* the binding: bound[x] is the value of parameter x
    done,     \* ctx->done_p
    runs,     \* history: how often the machine was started
    cleared,  \* history: clear_bindings! called since it was last rewound
    out,      \* history: what the last call on the statement returned
    rs        \* history: per result set, what it was given and has read

vmVars == <<vm, pos, runs>>
vars == <<st, query, vmVars, bound, done, cleared, out, rs>>

(* "ready": reset; "run": it has returned a row and waits; "done", "failed":*)
(* halted by the end of the program or by an error.                        *)
VmState == {"ready", "run", "done", "failed"}

(* Of an exception it makes no difference here which class and message the *)
(* status was turned into.                                                 *)
Row(n) == [is |-> "row", number |-> n]
Void   == [is |-> "void", number |-> 0]
Nil    == [is |-> "nil", number |-> 0]
Raised == [is |-> "raised", number |-> 0]

Rows(b) == IF query THEN RowCount[b] ELSE 0

Unbound == [x \in Param |-> Null]

Nothing == [x \in {} |-> Null]

(* How far a result set has come with rows of its own, and which values    *)
(* its execute was given.                                                  *)
Reader == [state : {"none", "reading", "ended", "disturbed"},
           for : Given, rows : Seq(Binding \X Nat)]

Unread == [state |-> "none", for |-> Nothing, rows |-> <<>>]

Init ==
    /\ st = "open"
    /\ query \in BOOLEAN
    /\ vm = "ready"
    /\ pos = 0
    /\ bound = Unbound
    /\ done = FALSE
    /\ runs = 0
    /\ cleared = FALSE
    /\ out = Void
    /\ rs = [r \in ResultSet |-> Unread]

(* Somebody other than r touched the statement: no other result set may    *)
(* count any more on reading its own rows.                                 *)
Spoilt(R) == [q \in ResultSet |-> IF q \in R /\ rs[q].state # "none"
                                  THEN [Unread EXCEPT !.state = "disturbed"]
                                  ELSE rs[q]]

Disturbed(r) == Spoilt(ResultSet \ {r})

AllDisturbed == Spoilt(ResultSet)

-----------------------------------------------------------------------------
(* The virtual machine, as Statement#step sees it.                         *)

(* sqlite3_step on a halted statement starts it again.                     *)
From == IF vm = "run" THEN pos ELSE 0
Started == IF vm = "run" THEN runs ELSE runs + 1

VmRow ==
    /\ From < Rows(bound)
    /\ vm' = "run" /\ pos' = From + 1 /\ runs' = Started

VmDone ==
    /\ From >= Rows(bound)
    /\ vm' = "done" /\ pos' = From /\ runs' = Started

VmFailed == vm' = "failed" /\ pos' = 0 /\ runs' = Started

(* sqlite3_reset.                                                          *)
VmReset == vm' = "ready" /\ pos' = 0

(* Statement#step when it reaches the library: a row, the end, an          *)
(* exception raised by a callback (the machine is left as the error left   *)
(* it), or an error of the library (the machine is reset).                 *)
StepRow == VmRow /\ out' = Row(From + 1) /\ UNCHANGED done

StepDone == VmDone /\ done' = TRUE /\ out' = Nil

StepException == VmFailed /\ out' = Raised /\ UNCHANGED done

StepError == VmReset /\ runs' = Started /\ done' = FALSE /\ out' = Raised

(* What the reader keeps of a step that returns.                           *)
Kept(reader) ==
    IF reader.state = "disturbed" THEN reader
    ELSE IF out' = Nil THEN [reader EXCEPT !.state = "ended"]
    ELSE [reader EXCEPT !.rows = Append(@, <<bound, out'.number>>)]

Received(r) ==
    IF out' = Raised THEN AllDisturbed
    ELSE [Disturbed(r) EXCEPT ![r] = Kept(rs[r])]

(* A definition called No... is a mutant of the one that follows it; only  *)
(* the mutant runs of PROJECT.json use it.                                 *)
NoDoneCheck(r) ==
    /\ st = "open"
    /\ rs[r].state # "none"
    /\ Started <= MaxRuns
    /\ StepRow \/ StepDone \/ StepException \/ StepError
    /\ cleared' = (cleared /\ runs' = runs /\ vm' # "ready")
    /\ rs' = Received(r)
    /\ UNCHANGED <<st, query, bound>>

(* ResultSet#next, and each turn of ResultSet#each and Statement#each.     *)
Read(r) ==
    /\ st = "open"
    /\ rs[r].state # "none"
    /\ IF done
       THEN out' = Nil /\ UNCHANGED <<vmVars, done, cleared>>
       ELSE /\ Started <= MaxRuns
            /\ StepRow \/ StepDone \/ StepException \/ StepError
            /\ cleared' = (cleared /\ runs' = runs /\ vm' # "ready")
    /\ rs' = Received(r)
    /\ UNCHANGED <<st, query, bound>>

NoIndexStep(vals) ==
    [x \in Param |-> IF x \in DOMAIN vals /\ x = CHOOSE y \in DOMAIN vals : TRUE
                     THEN vals[x] ELSE bound[x]]

(* bind_params binds one variable after the other: by position or, from a  *)
(* hash, by name.  A parameter it is not given keeps its value.            *)
BindParams(vals) ==
    [x \in Param |-> IF x \in DOMAIN vals THEN vals[x] ELSE bound[x]]

Reading(r, vals) ==
    [Disturbed(r) EXCEPT ![r] =
        [state |-> "reading", for |-> vals, rows |-> <<>>]]

(* Statement#execute resets whatever state it finds, binds, and steps a    *)
(* statement without columns.                                              *)
Execute(r, vals) ==
    /\ st = "open"
    /\ bound' = BindParams(vals)
    /\ cleared' = FALSE
    /\ \/ /\ query
          /\ VmReset /\ done' = FALSE /\ out' = Void
          /\ rs' = Reading(r, vals)
          /\ UNCHANGED runs
       \/ /\ ~query
          /\ runs < MaxRuns
          /\ runs' = runs + 1
          /\ \/ /\ vm' = "done" /\ pos' = 0 /\ done' = TRUE /\ out' = Nil
                /\ rs' = Reading(r, vals)
             \/ /\ vm' \in {"failed", "ready"} /\ pos' = 0 /\ done' = FALSE
                /\ out' = Raised /\ rs' = AllDisturbed
    /\ UNCHANGED <<st, query>>

(* One variable after those of vals has no parameter, or a type that       *)
(* cannot be bound: bind_params raises, and those of vals stay bound.      *)
ExecuteRaises(vals) ==
    /\ st = "open"
    /\ bound' = BindParams(vals)
    /\ VmReset /\ done' = FALSE /\ cleared' = FALSE /\ out' = Raised
    /\ rs' = AllDisturbed
    /\ UNCHANGED <<st, query, runs>>

NoFlagReset ==
    /\ st = "open"
    /\ VmReset /\ cleared' = FALSE /\ out' = Void
    /\ rs' = AllDisturbed
    /\ UNCHANGED <<st, query, bound, done, runs>>

(* Statement#reset!, and ResultSet#reset with no parameters.               *)
Reset ==
    /\ st = "open"
    /\ VmReset /\ done' = FALSE /\ cleared' = FALSE /\ out' = Void
    /\ rs' = AllDisturbed
    /\ UNCHANGED <<st, query, bound, runs>>

(* Statement#clear_bindings! touches the binding and the flag only.        *)
ClearBindings ==
    /\ st = "open"
    /\ bound' = Unbound
    /\ done' = FALSE
    /\ cleared' = TRUE
    /\ out' = Void
    /\ rs' = AllDisturbed
    /\ UNCHANGED <<st, query, vmVars>>

(* Statement#bind_param, and bind_params with several variables: the       *)
(* library refuses to bind a machine that was not reset, and a variable    *)
(* that cannot be bound leaves those before it bound.                      *)
Bind(vals) ==
    /\ st = "open"
    /\ IF vm = "ready"
       THEN bound' = BindParams(vals) /\ out' \in {Void, Raised} /\ rs' = AllDisturbed
       ELSE out' = Raised /\ UNCHANGED <<bound, rs>>
    /\ UNCHANGED <<st, query, vmVars, done, cleared>>

(* Statement#close finalizes the statement; done_p stays.                  *)
Close ==
    /\ st = "open"
    /\ st' = "NULL"
    /\ out' = Void
    /\ UNCHANGED <<query, vmVars, bound, done, cleared, rs>>

(* Every operation but the flag's reader raises on a closed statement.     *)
UseClosed ==
    /\ st = "NULL"
    /\ out' = Raised
    /\ UNCHANGED <<st, query, vmVars, bound, done, cleared, rs>>

Next ==
    \/ \E r \in ResultSet : Read(r) \/ \E vals \in Given : Execute(r, vals)
    \/ \E vals \in Given : ExecuteRaises(vals) \/ Bind(vals)
    \/ Reset
    \/ ClearBindings
    \/ Close
    \/ UseClosed

Spec == Init /\ [][Next]_vars

-----------------------------------------------------------------------------
TypeOK ==
    /\ st \in {"open", "NULL"}
    /\ query \in BOOLEAN
    /\ vm \in VmState
    /\ pos \in Nat
    /\ bound \in Binding
    /\ done \in BOOLEAN
    /\ runs \in 0..MaxRuns
    /\ cleared \in BOOLEAN
    /\ out.number \in Nat /\ out.is \in {"row", "void", "nil", "raised"}
    /\ rs \in [ResultSet -> Reader]

(* done_p and the virtual machine agree: the flag is never set while rows  *)
(* may remain, and it is forgotten without a rewind by clear_bindings!     *)
(* alone.  Otherwise a step past the end would run the statement again.    *)
DoneAgrees ==
    /\ done => vm = "done"
    /\ vm = "done" /\ ~cleared => done

(* A result set that nobody disturbed since its execute has read the first *)
(* rows of its own execution, in order, each once, and all of them if it   *)
(* has come to the end, under the values that the execute was given,       *)
(* although an earlier bind_params may have raised half way.               *)
SoleReaderReadsAll ==
    \A r \in ResultSet :
        rs[r].state \in {"reading", "ended"} =>
            LET seen == Len(rs[r].rows)
            IN  /\ \A x \in DOMAIN rs[r].for : bound[x] = rs[r].for[x]
                /\ rs[r].rows = [i \in 1..seen |-> <<bound, i>>]
                /\ seen <= Rows(bound)
                /\ rs[r].state = "ended" => seen = Rows(bound)

(* The comment of Statement#clear_bindings!: "Resets the statement".  So   *)
(* the row that the next step returns is the first one.                    *)
ClearBindingsRewinds == ~(cleared /\ out.is = "row" /\ out.number > 1)

(* The statement keeps the promise of a row stream, however the result     *)
(* sets made from it are interleaved.                                      *)
Stream == INSTANCE RowStream
    WITH k <- IF vm = "run" \/ done THEN pos ELSE 0, over <- done, answer <- out

RowStreamPromise == Stream!Spec
=============================================================================
