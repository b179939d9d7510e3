-------------------------------- MODULE Batch --------------------------------
(***************************************************************************)
(* The methods of Database that run SQL text: execute, execute2, query     *)
(* with a block, get_first_value, execute_batch and execute_batch2.        *)
(*                                                                         *)
(* A text is a sequence of statements, of which the library compiles one   *)
(* at a time when its turn comes; a comment at the end compiles to no      *)
(* statement.  Every step may raise, and the block of the caller may raise *)
(* or leave the method (break, return, throw); what has been prepared by   *)
(* then has to be closed, and what has been run cannot be taken back.      *)
(***************************************************************************)
EXTENDS Naturals, Sequences

CONSTANTS
    MaxLength,  \* bound: statements of a text
    MaxParams,  \* bound: parameters of a statement
    MaxRows,    \* bound: rows of a query
    Nil

ASSUME BatchAssumption ==
    MaxLength \in Nat /\ MaxParams \in Nat /\ MaxRows \in Nat

Method == {"execute", "execute2", "query", "first", "batch", "batch2"}

(* get_first_value is a query with a block of its own.                     *)
Queries == {"query", "first"}

(* A statement has parameters and rows, and its last step answers DONE or  *)
(* an error.  A statement that is no query ("write") has no columns; one   *)
(* that does not compile raises, with its text in the exception.           *)
Write == [is : {"write"}, params : 0..MaxParams, rows : {0},
          ends : {"done", "error"}]
Query == [is : {"query"}, params : 0..MaxParams, rows : 0..MaxRows,
          ends : {"done", "error"}]
Invalid == [is |-> "invalid", params |-> 0, rows |-> 0, ends |-> "error"]
Comment == [is |-> "comment", params |-> 0, rows |-> 0, ends |-> "done"]

Statement == Write \cup Query \cup {Invalid}

Text ==
    LET Statements == UNION {[1..n -> Statement] : n \in 0..MaxLength}
    IN  Statements \cup {Append(s, Comment) : s \in Statements}

(* Bind variables: one that has no SQLite type cannot be bound.            *)
Given == UNION {[1..n -> {"ok", "bad"}] : n \in 0..MaxParams + 1}

VARIABLES
    method,   \* the method called
    yields,   \* it was given a block
    text,     \* its SQL text
    given,    \* its bind variables
    at,       \* the next statement of text; the one being run
    pc,       \* where the method is
    stmt,     \* the Statement: "none", "open", or "closed" (no sqlite3_stmt)
    bound,    \* bind variables bound to it
    row,      \* rows read from it
    rows,     \* rows collected, or given to the block
    result,   \* what execute_batch will return
    exit,     \* how the method is being left
    ran       \* history: the steps' <<statement, variables bound>>, in order

cursor == <<stmt, bound, row>>
vars == <<method, yields, text, given, at, pc, cursor, rows, result, exit,
          ran>>

Init ==
    /\ method \in Method
    /\ yields \in (IF method \in Queries THEN {TRUE}
                   ELSE IF method = "batch" THEN {FALSE} ELSE BOOLEAN)
    /\ text \in Text
    /\ given \in (IF method = "batch2" THEN {<<>>} ELSE Given)
    /\ at = 1
    /\ pc = IF method = "batch2" THEN "exec"
            ELSE IF method = "batch" /\ text = <<>> THEN "end"
            ELSE "prepare"
    /\ stmt = "none"
    /\ bound = 0
    /\ row = 0
    /\ rows = <<>>
    /\ result = Nil
    /\ exit = "none"
    /\ ran = <<>>

-----------------------------------------------------------------------------
input == <<method, yields, text, given>>

Now == IF at <= Len(text) THEN text[at] ELSE Comment

(* An exception, or the block's leaving, unwinds to the ensure clause.  In  *)
(* query only the block is in its scope.                                   *)
Leave(how) ==
    /\ exit' = how
    /\ pc' = IF method \in Queries /\ pc # "block" THEN "end" ELSE "close"

(* Statement.new.  It raises before there is anything to close.            *)
Prepare ==
    /\ pc = "prepare"
    /\ row' = 0 /\ bound' = 0
    /\ IF Now = Invalid
       THEN stmt' = "none" /\ exit' = "raised" /\ pc' = "end"
       ELSE /\ stmt' = IF Now = Comment THEN "closed" ELSE "open"
            /\ pc' = IF stmt' = "closed" /\ method = "batch" THEN "close"
                     ELSE "bind"
            /\ UNCHANGED exit
    /\ UNCHANGED <<input, at, rows, result, ran>>

BindParameterCount == Now.params

(* execute_batch binds a statement only if the numbers agree.              *)
BindsStatement == method # "batch" \/ Len(given) = BindParameterCount

(* A definition called No... is a mutant of the one that follows it; only  *)
(* the mutant runs of PROJECT.json use it.                                 *)
NoExcessCheck ==
    /\ pc = "bind"
    /\ IF ~BindsStatement \/ bound = Len(given) \/ bound = BindParameterCount
       THEN pc' = "step" /\ UNCHANGED <<bound, exit>>
       ELSE IF stmt = "closed" \/ given[bound + 1] = "bad"
       THEN Leave("raised") /\ UNCHANGED bound
       ELSE bound' = bound + 1 /\ UNCHANGED <<pc, exit>>
    /\ UNCHANGED <<input, at, stmt, row, rows, result, ran>>

(* bind_params binds one variable after the other.                         *)
Bind ==
    /\ pc = "bind"
    /\ IF ~BindsStatement \/ bound = Len(given)
       THEN pc' = "step" /\ UNCHANGED <<bound, exit>>
       ELSE IF stmt = "closed" \/ bound = BindParameterCount
                 \/ given[bound + 1] = "bad"
       THEN Leave("raised") /\ UNCHANGED bound
       ELSE bound' = bound + 1 /\ UNCHANGED <<pc, exit>>
    /\ UNCHANGED <<input, at, stmt, row, rows, result, ran>>

(* What the next sqlite3_step of the statement answers.                    *)
Answer == IF row < Now.rows THEN "row" ELSE Now.ends

Ran == IF \E i \in DOMAIN ran : ran[i][1] = at THEN ran
       ELSE Append(ran, <<at, bound>>)

(* execute_batch steps each statement once.                                *)
StepBatch ==
    /\ pc = "step" /\ method = "batch"
    /\ ran' = Ran
    /\ IF Answer = "error"
       THEN Leave("raised") /\ UNCHANGED <<result, row>>
       ELSE /\ result' = IF Answer = "row" THEN <<at, 1>> ELSE Nil
            /\ row' = IF Answer = "row" THEN 1 ELSE 0
            /\ pc' = "close" /\ UNCHANGED exit
    /\ UNCHANGED <<input, at, stmt, bound, rows>>

(* Statement#execute, in query and execute2: a statement without columns   *)
(* is stepped here.  In query nothing closes the statement if this raises. *)
(* execute2 gives its block the names of the columns first.                *)
Start ==
    /\ pc = "step" /\ method \in Queries \cup {"execute2"}
    /\ ran' = IF Now.is = "write" THEN Ran ELSE ran
    /\ IF stmt = "closed" \/ (Now.is = "write" /\ Answer = "error")
       THEN Leave("raised")
       ELSE pc' = (IF yields THEN "block" ELSE "read") /\ UNCHANGED exit
    /\ UNCHANGED <<input, at, cursor, rows, result>>

(* execute and execute2 read all rows, query as many as its block wants.   *)
Reads == \/ pc = "step" /\ method = "execute"
         \/ pc = "read" /\ method = "execute2"
         \/ pc = "block" /\ method \in Queries

(* get_first_value returns from within its block.                          *)
StepRow ==
    /\ Reads /\ stmt = "open" /\ Answer = "row"
    /\ ran' = Ran
    /\ row' = row + 1
    /\ rows' = Append(rows, <<at, row + 1>>)
    /\ IF method = "first" THEN Leave("left")
       ELSE pc' = (IF yields THEN "block" ELSE pc) /\ UNCHANGED exit
    /\ UNCHANGED <<input, at, stmt, bound, result>>

StepDone ==
    /\ Reads /\ stmt = "open" /\ Answer = "done"
    /\ ran' = Ran
    /\ pc' = IF method = "query" THEN pc ELSE "close"
    /\ UNCHANGED <<input, at, cursor, rows, result, exit>>

StepRaises ==
    /\ Reads /\ (stmt = "closed" \/ Answer = "error")
    /\ ran' = IF stmt = "closed" THEN ran ELSE Ran
    /\ Leave("raised")
    /\ UNCHANGED <<input, at, cursor, rows, result>>

-----------------------------------------------------------------------------
(* The block of the caller.                                                *)

(* It returns: execute reads on, query ends, execute_batch2 goes on.       *)
AfterBlock == [execute |-> "step", execute2 |-> "read", query |-> "close",
               batch2 |-> "map"]

BlockReturns ==
    /\ pc = "block" /\ method # "first"
    /\ pc' = AfterBlock[method]
    /\ UNCHANGED <<input, at, cursor, rows, result, exit, ran>>

BlockLeaves ==
    /\ pc = "block" /\ method # "first"
    /\ \E how \in {"raised", "left"} :
          IF method = "batch2" THEN exit' = how /\ pc' = "end" ELSE Leave(how)
    /\ UNCHANGED <<input, at, cursor, rows, result, ran>>

(* The block of query has the result set, which it may close.              *)
BlockCloses ==
    /\ pc = "block" /\ method = "query" /\ stmt = "open"
    /\ stmt' = "closed"
    /\ UNCHANGED <<input, at, pc, bound, row, rows, result, exit, ran>>

-----------------------------------------------------------------------------
(* The ensure clauses, and the loop of execute_batch.                      *)

NoEnsure ==
    /\ pc = "close"
    /\ stmt' = IF exit = "raised" THEN stmt ELSE "closed"
    /\ exit' = IF method \in Queries /\ stmt = "closed" THEN "raised" ELSE exit
    /\ IF method = "batch" /\ exit = "none" /\ at < Len(text)
       THEN at' = at + 1 /\ pc' = "prepare"
       ELSE pc' = "end" /\ UNCHANGED at
    /\ UNCHANGED <<input, bound, row, rows, result, ran>>

NoStopOnError ==
    /\ pc = "close"
    /\ stmt' = "closed"
    /\ exit' = IF method \in Queries /\ stmt = "closed" THEN "raised" ELSE exit
    /\ IF method = "batch" /\ at < Len(text)
       THEN at' = at + 1 /\ pc' = "prepare"
       ELSE pc' = "end" /\ UNCHANGED at
    /\ UNCHANGED <<input, bound, row, rows, result, ran>>

NoRemainderOfComment ==
    /\ pc = "close"
    /\ stmt' = "closed"
    /\ exit' = IF method \in Queries /\ stmt = "closed" THEN "raised" ELSE exit
    /\ IF method = "batch" /\ exit = "none" /\ (at < Len(text) \/ stmt = "closed")
       THEN at' = (IF stmt = "closed" THEN at ELSE at + 1) /\ pc' = "prepare"
       ELSE pc' = "end" /\ UNCHANGED at
    /\ UNCHANGED <<input, bound, row, rows, result, ran>>

(* prepare asks whether the statement is closed, query does not: closing a *)
(* closed statement raises.                                                *)
Close ==
    /\ pc = "close"
    /\ stmt' = "closed"
    /\ exit' = IF method \in Queries /\ stmt = "closed" THEN "raised" ELSE exit
    /\ IF method = "batch" /\ exit = "none" /\ at < Len(text)
       THEN at' = at + 1 /\ pc' = "prepare"
       ELSE pc' = "end" /\ UNCHANGED at
    /\ UNCHANGED <<input, bound, row, rows, result, ran>>

-----------------------------------------------------------------------------
(* execute_batch2: one call of sqlite3_exec, which runs every statement to *)
(* its end, its parameters NULL; then the block is given the rows.         *)
NoRowsBefore ==
    /\ pc = "exec"
    /\ IF at > Len(text) \/ Now = Comment
       THEN pc' = "map" /\ row' = 0 /\ UNCHANGED <<at, rows, exit, ran>>
       ELSE IF Now = Invalid
       THEN exit' = "raised" /\ pc' = "end"
            /\ UNCHANGED <<at, row, rows, ran>>
       ELSE /\ ran' = Ran
            /\ rows' = [i \in 1..Now.rows |-> <<at, i>>]
            /\ IF Now.ends = "error"
               THEN exit' = "raised" /\ pc' = "end" /\ UNCHANGED at
               ELSE at' = at + 1 /\ UNCHANGED <<pc, exit>>
            /\ UNCHANGED row
    /\ UNCHANGED <<input, stmt, bound, result>>

Exec ==
    /\ pc = "exec"
    /\ IF at > Len(text) \/ Now = Comment
       THEN pc' = "map" /\ row' = 0 /\ UNCHANGED <<at, rows, exit, ran>>
       ELSE IF Now = Invalid
       THEN exit' = "raised" /\ pc' = "end"
            /\ UNCHANGED <<at, row, rows, ran>>
       ELSE /\ ran' = Ran
            /\ rows' = rows \o [i \in 1..Now.rows |-> <<at, i>>]
            /\ IF Now.ends = "error"
               THEN exit' = "raised" /\ pc' = "end" /\ UNCHANGED at
               ELSE at' = at + 1 /\ UNCHANGED <<pc, exit>>
            /\ UNCHANGED row
    /\ UNCHANGED <<input, stmt, bound, result>>

Map ==
    /\ pc = "map"
    /\ IF yields /\ row < Len(rows)
       THEN row' = row + 1 /\ pc' = "block"
       ELSE pc' = "end" /\ UNCHANGED row
    /\ UNCHANGED <<input, at, stmt, bound, rows, result, exit, ran>>

Next == Prepare \/ Bind \/ StepBatch \/ Start \/ StepRow \/ StepDone
           \/ StepRaises \/ BlockReturns \/ BlockLeaves \/ BlockCloses
           \/ Close \/ Exec \/ Map

(* The method runs on, and its block comes to an end.                      *)
Spec == Init /\ [][Next]_vars /\ WF_vars(Next)

-----------------------------------------------------------------------------
(* Properties.                                                             *)

(* Whatever raises and wherever the caller's block goes, the statement that*)
(* was prepared is closed when the method is over (the ensure clauses of   *)
(* Database#prepare and Database#query).  The exception is query: what     *)
(* raises before its block is reached leaves the statement open, and so    *)
(* get_first_value.                                                        *)
EverythingClosed ==
    pc = "end" /\ stmt = "open" =>
        method \in Queries /\ exit = "raised" /\ rows = <<>>

Count == Len(text) - (IF \E i \in DOMAIN text : text[i] = Comment
                      THEN 1 ELSE 0)

Batches == method \in {"batch", "batch2"}

(* The one step of execute_batch, all the steps of execute_batch2.         *)
Failing(p) == p.ends = "error" /\ (method = "batch" => p.rows = 0)

(* The statements run in the order of the text, each once; if the batch    *)
(* returns, all of them have; after one that fails none does.  execute and *)
(* query run the first only (Database#execute_batch, exec_batch).          *)
AllOrPrefix ==
    /\ \A i \in DOMAIN ran : ran[i][1] = i
    /\ \A i \in 1..Len(ran) - 1 : ~Failing(text[i])
    /\ pc = "end" /\ exit = "none" /\ Batches =>
          Len(ran) = Count /\ \A i \in DOMAIN ran : ~Failing(text[i])
    /\ ~Batches => Len(ran) <= 1

(* execute_batch returns what the last statement answered, also when a     *)
(* comment follows it (Database#execute_batch).                            *)
ResultIsLast ==
    pc = "end" /\ exit = "none" /\ method = "batch" =>
        result = IF Count > 0 /\ text[Count].rows > 0 THEN <<Count, 1>>
                 ELSE Nil

(* How many variables statement i is to run with.                          *)
Wanted(i) ==
    IF method = "batch2" \/ (method = "batch" /\ Len(given) # text[i].params)
    THEN 0 ELSE Len(given)

(* execute_batch runs a statement either with all the variables, if it has *)
(* that many parameters, or with none; execute, execute2 and query with    *)
(* all; execute_batch2 with none.  No statement runs half bound, whatever  *)
(* the numbers of variables and of parameters (Database#execute_batch,     *)
(* Statement#bind_params).                                                 *)
VariablesBound ==
    \A i \in DOMAIN ran :
        ran[i][1] \in DOMAIN text /\ ran[i][2] = Wanted(ran[i][1])

RowsOf(i) == {<<i, k>> : k \in 1..text[i].rows}

(* execute, execute2 and execute_batch2 give every row of every statement  *)
(* they ran, once and in order; get_first_value reads the first row and    *)
(* closes the statement (Database#execute, exec_batch).                    *)
ReturnsAllRows ==
    /\ pc = "end" /\ exit = "none" /\ method \in {"execute", "execute2", "batch2"} =>
          /\ {rows[i] : i \in DOMAIN rows} = UNION {RowsOf(i) : i \in DOMAIN ran}
          /\ \A i, j \in DOMAIN rows : i < j =>
                \/ rows[i][1] < rows[j][1]
                \/ rows[i][1] = rows[j][1] /\ rows[i][2] < rows[j][2]
    /\ pc = "end" /\ exit # "raised" /\ method = "first" =>
          /\ stmt = "closed"
          /\ rows = IF text[1].rows > 0 THEN <<<<1, 1>>>> ELSE <<>>

(* What a call that returns has to show for the statements that it ran.    *)
ReturnsWhatItRan == ResultIsLast /\ ReturnsAllRows

(* The loop of execute_batch consumes the text, and every call ends.       *)
Ends == <>(pc = "end")

(* lib/sqlite3/database.rb:288 says of execute_batch: "The same bind       *)
(* parameters, if given, will be applied to each statement."               *)
GivenToEachStatement ==
    method = "batch" =>
        \A i, j \in DOMAIN ran :
            ran[i][2] > 0 /\ text[ran[j][1]].params > 0 => ran[j][2] > 0
=============================================================================
