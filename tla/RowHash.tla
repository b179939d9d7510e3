------------------------------- MODULE RowHash ------------------------------
(***************************************************************************)
(* Rows as hashes: the column names that a Statement caches, against the   *)
(* columns of the program that the library has compiled.                   *)
(*                                                                         *)
(* Statement#columns asks the library for the names once and keeps them    *)
(* for the life of the statement.  The library compiles a statement again  *)
(* when it is started after a change of the schema, and a "select *" then  *)
(* has other columns.  next_hash zips the cached names with the row.       *)
(*                                                                         *)
(* The value that a row has for a column is represented by the column, so  *)
(* that a row is the sequence of columns it was computed from.             *)
(***************************************************************************)
EXTENDS Naturals, Sequences, SequencesExt

CONSTANTS
    Column,      \* columns of the table
    MaxAlters    \* bound: changes of the schema

ASSUME MaxAltersAssumption == MaxAlters \in Nat

VARIABLES
    schema,     \* columns of the table, in order
    compiled,   \* columns of the compiled statement
    machine,    \* the virtual machine, and done_p when it is "done"
    columns,    \* @columns, or Unknown
    keys,       \* names of the last hash delivered
    row,        \* values of the last hash delivered
    alters,     \* changes of the schema so far
    behind      \* history: the cache was filled before a change of the schema

hashVars == <<schema, compiled, machine, columns, keys, row, alters, behind>>

Unknown == <<>>

HashInit ==
    /\ schema \in {<<c>> : c \in Column}
    /\ compiled = schema
    /\ machine = "ready"
    /\ columns = Unknown
    /\ keys = <<>>
    /\ row = <<>>
    /\ alters = 0
    /\ behind = FALSE

-----------------------------------------------------------------------------
(* The schema.                                                             *)

(* What is known of the names was true of a schema that is no more.        *)
Altered ==
    /\ alters < MaxAlters
    /\ alters' = alters + 1
    /\ behind' = (behind \/ columns # Unknown)
    /\ UNCHANGED <<compiled, machine, columns, keys, row>>

AddColumn(c) == c \notin Range(schema) /\ schema' = Append(schema, c) /\ Altered

(* Not while the statement reads the table.                                *)
DropColumn(c) ==
    /\ machine # "run"
    /\ Len(schema) > 1
    /\ \E i \in DOMAIN schema : schema[i] = c /\ schema' = RemoveAt(schema, i)
    /\ Altered

-----------------------------------------------------------------------------
(* The statement.                                                          *)

(* sqlite3_step checks the schema where a run begins.                      *)
Recompiled == IF machine = "run" THEN compiled ELSE schema

StepsTo(state) ==
    machine # "done" /\ machine' = state /\ compiled' = Recompiled

(* done_p: a statement at its end is not stepped again.                    *)
StepEnds ==
    \/ StepsTo("done") /\ UNCHANGED <<schema, columns, keys, row, alters, behind>>
    \/ machine = "done" /\ UNCHANGED hashVars

(* The statement is reset, or halted; in either case it starts anew.       *)
StepFails ==
    /\ StepsTo("ready")
    /\ UNCHANGED <<schema, columns, keys, row, alters, behind>>

(* ResultSet#next: a row as an array.                                      *)
NextArray ==
    /\ StepsTo("run")
    /\ UNCHANGED <<schema, columns, keys, row, alters, behind>>

ColumnCount(program) == Len(program)

(* The index is 0 based.  The declared types are read in the same way.     *)
ColumnName(program, index) == program[index + 1]

(* get_metadata.                                                           *)
Names(program) ==
    [i \in 1..ColumnCount(program) |-> ColumnName(program, i - 1)]

(* get_metadata, unless the names are known.                               *)
Metadata(program) == IF columns = Unknown THEN Names(program) ELSE columns

(* The names are learned from a program that is out of date already.       *)
LearnedLate(program) == columns = Unknown /\ program # schema

(* A definition called No... is a mutant of the one that follows it; only  *)
(* the mutant runs of PROJECT.json use it.                                 *)
NoStepFirst ==
    /\ StepsTo("run")
    /\ columns' = Metadata(compiled)
    /\ keys' = columns' /\ row' = compiled'
    /\ behind' = (behind \/ LearnedLate(compiled'))
    /\ UNCHANGED <<schema, alters>>

(* ResultSet#next_hash: the row, then the names.                           *)
NextHash ==
    /\ StepsTo("run")
    /\ columns' = Metadata(compiled')
    /\ keys' = columns' /\ row' = compiled'
    /\ behind' = (behind \/ LearnedLate(compiled'))
    /\ UNCHANGED <<schema, alters>>

(* Statement#columns, and #types: between a change of the schema and the   *)
(* next start it finds the names of the old program.                       *)
Columns ==
    /\ columns' = Metadata(compiled)
    /\ behind' = (behind \/ LearnedLate(compiled))
    /\ UNCHANGED <<schema, compiled, machine, keys, row, alters>>

ResetMachine ==
    /\ machine' = "ready"
    /\ UNCHANGED <<schema, compiled, columns, keys, row, alters, behind>>

HashNext ==
    \/ \E c \in Column : AddColumn(c) \/ DropColumn(c)
    \/ StepEnds \/ StepFails \/ NextArray \/ NextHash
    \/ Columns
    \/ ResetMachine

HashSpec == HashInit /\ [][HashNext]_hashVars

-----------------------------------------------------------------------------
(* A row as a hash (next_hash) has every value under its own name, as long *)
(* as the schema stays as it was when the statement learned its names.     *)
(* This needs the step before the names, as the step may compile again.    *)
NamesFitUntilAltered == ~behind => keys = row

(* The comment of ResultSet#next: "For hashes, the column names are the    *)
(* keys of the hash".                                                      *)
ColumnNamesAreKeys == keys = row
=============================================================================
