# sqlite3-ruby: a TLA+ verification project

This directory holds TLA+ models of sqlite3-ruby, the Ruby binding of SQLite
(`ext/sqlite3/*.c`, `lib/sqlite3/*.rb`), the TLC configurations that check
them, and TLAPS proofs about ten of them. Paths of source files below are
relative to the repository (`src/` in `PROJECT.json`). `PROJECT.json` lists
the components, runs, hazards and theorems, and maps every definition that
models code to the lines it models.

    tlc -workers 2 -config ForkSafety.cfg MCForkSafety    # a run
    tlapm ForkSafetyProofs.tla                            # the proofs about ForkSafety

## 1. The system

The binding is small; what makes it hard is where it stands: between a VM
with a global lock, a moving garbage collector and `fork`, and a C library
that keeps raw pointers, has its own mutexes and calls back into Ruby.

| Component | State | Operations | Hard behaviour |
|---|---|---|---|
| Fork safety (`fork_safety.rb`, `database.c`) | list of weak references; per `Database` the `sqlite3*`, the owner's pid, the flags READONLY and DISCARDED | `track`, the hook in `Process._fork`, `close_or_discard_db`, `discard_db`, the free functions | fork at any moment, the collector during the hook, exceptions in the middle of it, forks that bypass it |
| Database: opening and closing (`database.c`, `database.rb`) | the connection | `open_v2`, `initialize`, `close` | open long before it is tracked; close while statements are open leaves a zombie |
| Statement and ResultSet (`statement.c`, `statement.rb`, `resultset.rb`) | `sqlite3_stmt*`, `done_p` | `step`, `reset!`, `bind_param`, `clear_bindings!`, `execute`, `close` | result sets share a statement; `done_p` is a second record of where the virtual machine is |
| Statement metadata | `@columns`, `@types` | `columns`, `types`, rows as hashes | the library compiles a statement again after a change of the schema |
| Running SQL text (`database.rb`) | none beyond a call | `prepare`, `execute`, `execute2`, `query`, `get_first_value`, `execute_batch`, `execute_batch2` | a statement, a binding or the block may raise between any two steps |
| Threads and the busy handler (`database.c`, `database.rb`) | VM lock, the connection's mutex, the file's lock | `step`, `busy_handler`, `busy_timeout=`, `busy_handler_timeout=` | callbacks that release the VM lock while the mutex is held; jumps out of the library; fork by one thread |
| Functions and aggregates: exceptions (`database.c`, `aggregator.c`, `statement.c`) | errinfo of the thread, instances, their exception status | `rb_sqlite3_func`, aggregate step and final, the re-raise in `step` | the exception is parked while more Ruby code runs |
| Callbacks: lifetime (`database.c`, `aggregator.c`) | arrays and hash in the struct | `define_function`, `define_aggregator`, `collation`, handlers, `database_mark` | the library holds raw addresses; the collector frees and moves |
| Transactions (`database.rb`) | the library's | `transaction`, `commit`, `rollback` | BUSY at any statement, COMMIT included; exceptions of several kinds |
| Statement timeout (`database.c`, `timespec.h`) | one deadline per connection | `statement_timeout=`, progress handler, `prepare` | several queries share the deadline |
| Type conversions (`statement.c`, `database.c`, `sqlite3.c`) | none | `bind_param`, `set_sqlite3_func_result`, `sqlite3val2rb`, `bignum_to_int64` | three tables of conversions that have to agree; ends of integer ranges; encodings |
| Backup (`backup.c`) | `sqlite3_backup*` | `initialize`, `step`, `remaining`, `finish` | its databases may be closed, collected or discarded under it |
| Errors, pragmas, constants, loading, build | tables | | none (that calls raise is in the other models) |

Interaction: `Database` prepares `Statement`s, which read the flags of their
database's struct in every operation; `ResultSet` calls its `Statement`;
`Statement#step` calls the library, and the library calls the callbacks that
`Database` registered; the hook of `ForkSafety` closes databases in a child;
`prepare` clears the deadline that the progress handler keeps.

## 2. The modules

**ForkSafety** (`MCForkSafety`, `ForkSafetyProofs`), with
**ConnectionCopies** as the abstract specification. A fork copies memory, so
every variable is indexed by process. `obj/ptr/flags/owner` are the struct
behind a Database, `handle` the library's connection (with zombies), `sobj/st/sdb`
a Statement, `hook/todo/warned/tracked` the state of the module `SQLite3::ForkSafety`.
Actions: the constructor in two steps (`Open` or `Open16`, then `Track` or
`InitializeFails`), `Close`, `UseDatabase` (the methods of Database that go
straight into the library), `Prepare`, `Step`, `CloseStatement`, the collector
(`Drop*`, then `Deallocate*`), `Fork` (with the hook, or bypassing it; with
warnings silenced or not), the hook one entry at a time (`HookSkips`,
`HookCloses`, `HookWarnRaises`, `HookReturns`), and `Exit`, which frees all
objects in any order. A process that is killed just takes no more steps.
`ConnectionCopies` knows processes and connections only: a writable connection
is closed by the process that opened it, the copy of a child can only be
abandoned. The refinement mapping is `alive <-` the processes that have been
born and `access <- Access`, which is read off the handle, the flags and the
owner of a connection. A zombie counts as closed, since `sqlite3_close_v2` has
been called on it; that the last finalize tears it down, perhaps in a child, is
`NotCompletelyClosed` below.

**StatementCursor** (`MCStatementCursor`, `StatementCursorProofs`), with **RowStream** as the abstract
specification. The virtual machine (`vm/pos`), the flag `done`, the values of
several parameters, and result sets that share the statement. `bind_params`
binds them one by one and may raise at any, with those before it bound. `RowStream` is what any reader is
promised: 1, 2, 3, ..., then nil until a rewind; the refinement mapping is
`k <- pos`, `over <- done`.

**ThreadedConnection** (`MCThreadedConnection`, `ThreadedConnectionProofs`). The VM lock, the recursive
mutex of each connection, the write lock of the file, and four kinds of
callback: a user function, which is protected, and the busy handler, a
comparator and an authorizer, which are not. `setup` says, once and for all,
which connection each thread uses, which callbacks may release the VM lock or
raise, and whether a busy file is met by a handler or by `busy_timeout=`, where
the library sleeps with the VM lock in hand. A thread may fork; `held` are the mutexes the child cannot get.

**CallbackErrors** (`CallbackErrorsProofs`). One step of a query with aggregates
and a function: how an exception gets from a callback through `errinfo` to the
caller, while further callbacks run, rescue, or step other statements. `group`
are the rows of the current group and `seen` those that each handler instance
has been given: a group must meet a fresh handler (the proxy object of
`create_aggregate`, the clone of `define_aggregator`).

**Transaction** (`TransactionProofs`). `Database#transaction` with a block against
the five lock states of a rollback-journal file.

**StatementTimeout**. The deadline relative to now, and the progress calls.

**RowHash** (proofs in `StatementCursorProofs`). The cached names against the columns of the compiled program. A
row is the sequence of columns it was computed from, so that a name fits its
value if the two sequences are equal.

**CallbackLifetime** (`MCCallbackLifetime`, `CallbackLifetimeProofs`). Which objects the library and the
struct hold (`Held`), which ones the mark function pins (`Pinned`), and a
collector that frees or moves any other object between any two steps of a
definition.

**Batch** (`BatchProofs`). One call of `execute`, `execute2`, `query` with a block,
`get_first_value`, `execute_batch` or `execute_batch2` on a text, every step of
it a possible failure.

**Backup** (`MCBackup`, `BackupProofs`). Backups in progress between databases that the
program closes, drops and forks as it likes. `p` is the pointer in the struct
of a Backup, `readonly` the flag that lets a child close an inherited connection
and keeps the hook from it, `copy` the library's object behind a Backup; `left` are the pages really
to be copied and `remaining` the count that the library shows. Where a call
would make the library use a freed or a discarded connection, `undefined` says
so and the behaviour ends.

**Values** (proofs in `CallbackErrorsProofs`). A value bound or returned, passed through functions and read.
Integers are scaled: an int64 has `Width` bits, a fixnum one less than a C long.

Definitions called `No...`, `Any...` or `Everyone...` that stand before the definition they
change are mutants: plausible faults of that code. `PROJECT.json` names the
property that each of them breaks; nothing else uses them.

## 3. What the runs check

| Run | Properties | Instance |
|---|---|---|
| ForkSafety | HookLeavesNoWriter, NoForeignClose, NoForeignUse, DiscardIsExact, NoDanglingPointer, ZombieHasStatement, IInv (with the type invariant), CopiesPromise, HookEnds, ExitReleases | 2 processes, 2 connections, 1 statement; 474,000 states |
| StatementCursor | DoneAgrees, SoleReaderReadsAll, RowStreamPromise | 3 result sets, 2 parameters with 3 values, queries of 0 to 2 rows, 4 runs of the machine |
| Threads | NoMutexWait, OneCallPerConnection, HookIsNeverStuck, CallsReturn | 2 threads, 1 or 2 connections, 4 kinds of callback or `busy_timeout=`, 2 retries; 82,000 states |
| CallbackErrors | NoExceptionLost, OwnException, InstancesReleased, GroupsAreWhole | 2 aggregates, a function, up to 3 rows in groups |
| Transaction | ReturnedIsCommitted, StandardErrorUndoesAll | 2 connections, 2 calls each |
| StatementTimeout | LongQueryEnds | 2 queries, timeouts 0, 2, 3 |
| RowHash | NamesFitUntilAltered | 3 columns, 4 changes of the schema |
| CallbackLifetime | HeldAreSound, BlocksAreKept | 2 blocks, 2 wrappers, 1 instance, 1 name in 2 spellings |
| Batch | EverythingClosed, AllOrPrefix, VariablesBound, ReturnsWhatItRan, Ends | texts of up to 2 statements and a comment, 0 to 2 parameters, 0 to 3 variables; 731,000 states |
| Values | IntegersComeBack, TextComesBack, BytesComeBack, IntegersPassFunctions | int64 of 6 bits, long of 3 or 6, up to 2 calls |
| Backup | SourceOutlivesBackup, PointerIsExact, ClosedIsReleased, ForeignIsAbandoned | 2 databases, each writable or readonly, 2 backups, 2 pages; 3,890,000 states |
| ThreadsSharedBusy | NoMutexWait, violated | 2 threads on a connection with a sleeping busy handler |

The type invariants of the other modules are no properties of the runs: they are
parts of the invariants that section 4 proves, or definitions to be checked by
hand while a module is changed (`INVARIANT TypeOK`).

What the properties say is written above each in its module.

*Why the bounds are enough.* Two connections let the hook fail between them
and let one be readonly; one statement makes a zombie; what more of either
adds is covered by the proofs. Three result sets are one that reads and two that
disturb it and each other; two parameters let `bind_params` raise between
them. Two threads are one that sits in a call and one that comes in. Three
rows make a group of two, which tells the first step (which makes the instance)
from the later ones, and a group after it. Two backups let one read from a
closed database that the other still reads from, or write to what the other
reads; two databases let the source be readonly and the destination not. Two calls of `transaction` let a second one meet what the first left
behind. Four changes of three columns add, drop and restore every column. In
Batch, two statements and a comment give "first", "last" and "no statement", and
two parameters give fewer, as many and more than there are variables.
With six bits the ranges of fixnum, int64, bits of magnitude and mantissa
are all different, as they are with sixty-four.

*Reductions.* In MCForkSafety `LineOfDescent` lets a parent rest once it has forked: processes share no
variable, and a parent behaves after a fork as it could have done without one.
`LineSpec` has the fairness of `FairSpec` for the steps that this
leaves, and its liveness is checked without symmetry. Elsewhere symmetry is used where the permuted
constants occur in no definition by name.

*Deadlock* is checked except where the system may stop: processes exit
(ForkSafety), every object has been used up (Backup), the bound on calls is
reached (Transaction, CallbackErrors after a jump), the call or the value is at its end (Batch, Values).

*Fairness.* ForkSafety: the hook is straight code and runs on, and so does the
freeing of objects at exit; no fairness is assumed of the application or of the
collector before. ThreadedConnection: library code runs on (WF); a thread
that waits for the VM lock again and again gets it, a callback that has it
again and again comes to its end, `busy_timeout=` expires, and the timer makes Ruby code yield it (SF,
as the lock comes and goes); no fairness is assumed of yielding in callbacks or
of other processes. StatementTimeout: the clock ticks and the running
query makes progress calls. Batch: the method runs on and its block ends.

## 4. What is proved

Every theorem is about `Spec` (`HashSpec` in RowHash, `ValuesSpec` in Values), without fairness, and holds for every value of
the constants that the assumptions of its module allow: the bounds of the runs
are no bounds of the theorems, except that the constants that cap a counter
(`MaxRuns`, `MaxCalls`, ...) may be any number. In each module an invariant that
is inductive is proved first; the properties of the runs follow from it. All
invariants and action properties of the passing runs, and both refinements, are
proved. For most claims of section 5, which the code does not keep, there
is also a theorem that says under which use of the library it does, or what is
left of the claim without such a condition. A condition on the program is an
action formula `[][...]_vars` in the hypothesis, as in
`Spec /\ FinishesFirst => []CloseReleasesAll`.

### Fork safety (`ForkSafetyProofs`)

From the single assumption `Root \in Proc`:

* `TypeCorrect`, `Invariance` (`Spec => []IInv`), and from it
* `HookLeavesNoWriter_Holds`: after the hook no reachable database of a child
  has an inherited writable connection open;
* `NoForeignClose_Holds`: nobody but its owner closes a writable connection;
* `NoForeignUse_Holds`: no SQL runs through an inherited one after the hook;
* `DiscardIsExact_Holds`: exactly those are discarded, and flagged;
* `NoDanglingPointer_Holds`, `ZombieHasStatement_Holds`.

None of the six is inductive. That the hook closes every connection needs
that every reachable open writable one is on its list and still to be visited
(`TrackedInv`), which in turn needs that a constructor that has not reached
`track` runs only in the owner and that the fork turns its copy into garbage
(`ObjectInv`). That a child closes nothing foreign needs what was torn down
before the fork to stay so (`HistoryInv`). The pointers of
statements need that an object that does not exist has none (`StatementInv`).
`IInv` is the conjunction of the type invariant, these four, and the six. There is one lemma
per action; `CloseEffect` and `FinalizeEffect` state what the two library
calls do and are shared by all the paths that make them. TLC checks
`IInv` as an invariant of the run ForkSafety.

`CopiesPromise_Holds` is `Spec => CopiesPromise`: ForkSafety implements
ConnectionCopies, for the same constants. Every
action maps to one step of ConnectionCopies or to a stutter: the constructor to
`Open`, whatever reaches `close_or_discard_db` (close, the hook, the collector,
exit) to `Close` or `Abandon` by the same lemma `CloseMaps`, a finalize to a
stutter, since only a zombie can end by it (`FinalizeMaps`), and a fork to
`Fork`. The argument needs `IInv` in three places: a Database that does not
exist has no handle, so that a constructor opens what was never open; the
pointer of a Database is set exactly while its handle is open, so that a close
ends only what may still be used; and an owner has been born, so that none of
what a child inherits is its own.

### Statement and ResultSet (`StatementCursorProofs`)

`DoneAgrees_Holds`, `SoleReaderReadsAll_Holds` and `StatementIsRowStream`, for
any result sets, parameters, values and numbers of rows. `DoneAgrees` is
inductive; what a sole reader has read is not, as nothing in it says which row
comes next. `ReaderInv` adds that: the machine stands where this reader left
it, at the row after its last one or at the end. The refinement of RowStream
takes a step that returns a row to `Deliver`, one that ends to `Finish` or
`StayOver`, whatever resets to `Rewind`, and what binds or raises to `Refuse`,
for which the two records of the end have to agree.

### Rows as hashes (also in `StatementCursorProofs`)

`NamesFitUntilAltered_Holds`, for any columns and any number of changes of the
schema. A name and its value come from two different calls, the cached
`get_metadata` and the step, and between them the library may compile the
statement again; what ties them is `CacheInv`: names that are cached, if no
change came after them, are the columns of the schema and of the compiled
program. `NextHashKeeps` needs that the step comes first.

### Threads (`ThreadedConnectionProofs`)

For any threads, connections and setups: `OneCallPerConnection_Holds`
without condition; `NoMutexWait_Holds` if every thread has a connection of its
own (`Apart`) or no callback gives the VM lock away or jumps (`StayInCall`) — the
run ThreadsSharedBusy shows what happens without either; and
`HookIsNeverStuck_Holds`. Needed besides: a mutex is taken only by a thread of
its connection (`OwnerInv`), and where callbacks stay in their call a locked
mutex means a thread in the middle of its call that has the VM lock (`StayInv`),
so that whoever comes to `enter`, or forks, finds none locked.

### Exceptions of callbacks (`CallbackErrorsProofs`)

`NoExceptionLost_Holds`, `OwnException_Holds`, `InstancesReleased_Holds` and
`GroupsAreWhole_Holds`, for any set of aggregates and any number of rows. An
exception can be forgotten by errinfo, so the argument follows the second
record of it: until the library has been given an error, an instance that is
still to be finalized has the exception status (`RaisedInv`), no group in
progress is missed by the finalizers (`ProgressInv`), and whatever is pending
was raised in this step (`PendingInv`). That the groups are whole needs a count:
an instance that has not raised has seen every row of the group but the one
that it is still due (`RowsInv`, `FinalInv`). `CallInv` says which method may be
running on what.

`ExceptionItselfIfKept` adds when more is true than `NoExceptionLost`: as long as
no callback that runs after an exception escaped clears errinfo (`PendingIsKept`),
a step in which one escaped raises that exception itself, the message meant for
the library is never seen (`MessageNeverSeen`), and a statement stepped by a
callback raises nothing (`InnerRaisesNothing`). The invariant is `PendingNow`:
whatever escaped is pending until step ends.

### Conversions (also in `CallbackErrorsProofs`)

`IntegersComeBack_Holds`, `IntegersPassFunctions_Holds`, `TextComesBack_Holds` and
`BytesComeBack_Holds`, for integers of any width, a long of any width up to that,
both byte orders, any mantissa and any number of functions on the way. The
invariant `ValuesInv` says for each kind of value what is in the cell, however
often it has been through a function: an integer in the range that everything it
has passed so far keeps (`Exact`), else a double; a text in UTF-8; bytes as they
are; those of a text from a function too, whatever its encoding; and what is read is
the export of the cell. That `bignum_to_int64` accepts
exactly the int64s (`BignumFitsInt64`) is the arithmetic of two's complement, by
`RemainderOfNatural` and `RemainderOfNegative`. `RoundTripOfShortLong`: where a
long is narrower than an int64, as on Windows, the round trip that the test of
the repository expects (`RoundTrip`, section 5) holds for every int64.

### Transactions (`TransactionProofs`)

`ReturnedIsCommitted_Holds` and `StandardErrorUndoesAll_Holds`, for any
connections. Both are about the end of a call; `BlockInv` says what holds
inside: until something ends the transaction in the block it is the one that the
call began and nothing of it is in the file, and a transaction that is still
there has all the changes of the block. `FileInv` keeps the file free of calls
to come.

Of `NothingLeftOpen` (section 5) two things are true. `BusyKeepsAll_Holds`: a call
leaves a transaction open only if its COMMIT was BUSY, and that transaction has
everything the block wrote, for whoever commits again. And
`NothingLeftOpenIfExclusive`: if every call asks for the mode `:exclusive`, at most one
connection has a lock at all (`AloneInv`), so that no reader can make COMMIT
BUSY. `RollbackOnException` is `StandardErrorUndoesAll` for blocks that raise
nothing but StandardErrors.

### Lifetime of callbacks (`CallbackLifetimeProofs`)

`HeldAreSound_Holds` and the action property `BlocksAreKept_Holds`. Whatever the
library has is found from the struct or is on the stack of the definition in
progress: functions in two arrays (`FunctionInv`), collations in the hash under
a spelling of their own name (`CollationInv`: a hash entry is overwritten by the
same spelling only, the library's by any spelling), instances through a listed
wrapper (`InstanceInv`). The lemma `HeldArePinned` draws
`Held \subseteq Pinned` from these, and `HeapInv` that the collector therefore
never had its hands on any of it.

### Running SQL text (`BatchProofs`)

`EverythingClosed_Holds`, `AllOrPrefix_Holds`, `VariablesBound_Holds` and
`ReturnsWhatItRan_Holds`, for texts of any length, with any number of parameters
and rows. `ControlInv` says which method can be where with a statement in which
state; `PrefixInv` that exactly the statements before the present one have run
and none failed; `ReadInv` and `CollectInv` what has been read of the present
one, and of all.

`VariablesBound_Holds` says with which variables a statement runs: with all of
them, or, in `execute_batch` where the numbers differ and in `execute_batch2`,
with none; never half bound, since `bind_params` raises. It follows that the
documented rule `GivenToEachStatement` holds for texts in which every statement
has that many parameters or none (`GivenToEachIfCountsAgree`).

### Backup (`BackupProofs`)

`SourceOutlivesBackup_Holds`, `PointerIsExact_Holds`, `ClosedIsReleased_Holds`
and the action property `ForeignIsAbandoned_Holds`, for any databases and Backups
and any number of pages. The pointer of a Database is set exactly while its
connection is open, and only what another process opened for writing is
abandoned (`DatabaseInv`); that of a Backup is set exactly while the copy
lives, and every copy that lives, one that was collected unfinished included, has
its source (`CopyInv`); a zombie has a copy that reads from it (`ZombieInv`).

The four claims about Backups of section 5 hold for programs that keep some
order. `CloseReleasesAllIfFinished`: close releases everything if no Backup is
collected unfinished. `NoUseOfFreedIfDestinationStays`: no freed connection is
used if no destination is closed under its Backup (a child that closes an
inherited writable one abandons it, which frees nothing), whatever happens to sources.
`NoUseOfDiscardedIfFinished`: no discarded one if the hook, or a close in a child,
finds no Backup unfinished but between readonly connections. `NoneRemainingIsDoneAfterFirstStep`: the loop over
`remaining` copies everything if the first step is not refused; later ones may be,
and the source may change. `HandleSteps` and `BackupSteps` say what one step may do
to a connection and to a Backup, and are shared by these proofs.

### Assumptions

They say that the constants are what they stand for: the bounds are numbers;
`Nil`, `Nobody` and the like are none of the objects or threads; a function is
no aggregate; blocks, which Ruby hands in, are other objects than the wrappers,
which the extension allocates; an exception of a callback is none of the plain
outcomes of a step; `Fold` takes a spelling to its name. `PowersOfTwo` of Values
is of another kind: it states three facts of arithmetic about powers of two
up to `Width`, which hold of every width but cannot be derived here, as the
provers have no axioms of exponentiation. TLC evaluates all of them in
every run. The inductive invariants other than `IInv` are no properties of the
runs; TLC has been run on each of them with the instance of its component's run
before it was proved.

### Only model-checked

* All liveness (`HookEnds`, `ExitReleases`, `CallsReturn`, `LongQueryEnds`,
  `Ends`): TLAPS has no rules for fairness here.
* `StatementTimeout`, whose one property is about liveness.
* That the claims of section 5 fail: those are counterexamples.

## 5. Claims the code does not keep

Each of these formulas states what a comment, a document or a test says, or, in
the last two, what the code sees to elsewhere; TLC
finds a behaviour of the code that violates it. The first is a run of
`PROJECT.json`; the others have a configuration of their own, to be run by hand.
Section 4 says of most of them under which condition the code keeps the claim.

| Formula (configuration) | Says | The code |
|---|---|---|
| `NoMutexWait` (ThreadsSharedBusy) | `README.md:85`: a Database may be shared among threads | `database.rb:703`: the handler of `busy_handler_timeout=` sleeps inside `sqlite3_step`; another thread then waits for the mutex with the VM lock in hand, and both wait for ever |
| `NoMutexWait` (ThreadsSharedRaise) | the same; `CHANGELOG.md:15` lists the like for functions as fixed | `database.c:365`: the busy handler is called without `rb_protect`; its exception leaves the mutex locked. The same holds of a comparator (`database.c:839`) and of an authorizer (`database.c:738`) |
| `HookNeverWaits` (ThreadsFork) | `adr/2024-09-fork-safety.md:20`: connections are closed in the child | `database.c:30`: `discard_db` waits for a mutex that a thread of the parent held at the fork |
| `NotCompletelyClosed` (ForkSafetyZombie) | `database.c:263`: inherited writable connections are not completely closed | a connection closed in the parent with a statement open is torn down by the child's last finalize (`statement.c:19`, `101`) |
| `ClearBindingsRewinds` (StatementCursorClear) | `statement.c:351`: "Resets the statement" | `statement.c:364` clears bindings and the flag; the next step returns the next row |
| `MessageNeverSeen` (CallbackErrorsMessage) | `aggregator.c:169`: "the user should never see this" | a rescue in a later callback clears the pending exception, and `step` raises the message |
| `InnerRaisesNothing` (CallbackErrorsInner) | `statement.c:144`: the exception comes from a callback of this step | a statement stepped by a later callback raises it |
| `ReleasedAfterJump` (CallbackErrorsResult) | `aggregator.c:89`: the instance is freed | `aggregator.c:164`: a result without an SQLite type raises outside `rb_protect`, before the destroy |
| `RollbackOnException` (TransactionException) | `database.rb:638`: "If the block raises an exception, a rollback will be performed" | `database.rb:654`: a bare rescue; after Interrupt or SystemExit the ensure clause commits |
| `NothingLeftOpen` (TransactionOpen) | `database.rb:637`: committed when the block terminates | `database.rb:658`: COMMIT that answers BUSY raises and leaves the transaction open |
| `ShortQuerySurvives` (StatementTimeoutEarly) | `database.c:431`: interrupted if it lasts longer than the timeout | `database.c:421`: the timeout is never added to the deadline |
| `EveryLongQueryEnds` (StatementTimeoutStarved) | the same | `statement.c:82`: a prepare by a function of the query clears the deadline |
| `ColumnNamesAreKeys` (RowHashAltered) | `resultset.rb:40`: the column names are the keys | `statement.rb:137`: the names are those from before an ALTER TABLE |
| `GivenToEachStatement` (BatchBindings) | `database.rb:288`: parameters are applied to each statement | `database.rb:303`: only where the number of parameters is the number given |
| `RoundTrip` (ValuesInteger) | `test/test_database.rb:641`: a function that returns its argument gives the value back | `database.c:511`: with a 64-bit long an int64 that is a bignum becomes a double |
| `Utf16IsText` (ValuesUtf16) | `statement.rb:52`: UTF-16LE and UTF-16BE strings are TEXT | `statement.c:279`: both are read in the machine's byte order |
| `NoneRemainingIsDone` (BackupRemaining) | `backup.c:142`: "the number of pages still to be backed up", and the loop `while b.remaining > 0` of `backup.c:65` | `backup.c:154`: a first step that answers BUSY leaves the count at 0 with nothing copied; the loop ends and `finish` throws the copy away |
| `CloseReleasesAll` (BackupLeak) | `database.c:261`: `close` releases all associated resources | `backup.c:23`: a Backup collected unfinished does not finish the `sqlite3_backup`, and the closed source stays a zombie |
| `NoUseOfFreed` (BackupDestination) | (no document; what `sqlite3_close_v2` grants a source) | `backup.c:92`: the library counts the backups of a source only; a destination closed under a Backup is freed, and `step` uses it |
| `NoUseOfDiscarded` (BackupFork) | (no document; what `REQUIRE_LIVE_DB` grants a statement, `statement.c:8`) | `backup.c:120`: `step` after the hook works on the discarded connections |

One more difference is built into ForkSafety rather than stated: `open16`, which
`Database#initialize` takes for a file name in UTF-16, always opens for reading
and writing, so that `readonly: true` is without effect there, and such a
connection is discarded after a fork like any writable one.

## 6. Assumptions, and what is not modelled

* ForkSafety: a pid is not reused while a child lives. The private method
  `discard` is called by the tests only and is left out. Backups are not among the users of a
  connection; module Backup has its own, smaller model of connections. The hook does not meet a locked mutex; that is ThreadedConnection.
* StatementCursor: a callback does not use the statement that is calling it.
  Named parameters are bound like numbered ones.
* ThreadedConnection: a callback that "stays in its call" ends within its time
  slice. The deadline of `busy_handler_timeout=` (`@timeout_deadline`) is a number
  of tries. The trace handler, which is called as the authorizer is, has no kind of
  its own.
* CallbackErrors: one statement is stepped; `exec_batch`, which looks at no
  pending exception, and the callbacks without protection (ThreadedConnection) are left out.
* Transaction: rollback journal, not WAL; one table.
* Batch: the block of `query` does not rescue what its result set raises.
* Values: databases in UTF-8; no NaN, no byte order mark, no invalid strings, no functions with
  state. `Coding` has one encoding that is not Unicode.
* Backup: one process is followed; after a fork it is the child. Statements do
  not keep a source alive besides Backups (they do in ForkSafety). Whether a
  readonly destination refuses a step is left open, as its temp database does not.
* CallbackLifetime: the Database object itself stays alive.
* The library, the VM and the collector are modelled from how the code uses
  them; those definitions are marked external in `PROJECT.json`.
* Not modelled: which exception class and message a status becomes (a table);
  pragmas (one statement and one row each, no state); constants and `Value`;
  `load_extension` and `enable_load_extension` beyond their failing in the
  constructor; the `Init` functions; the build; what the trace
  handler is called with; and calls that read the library and change nothing
  (`stat`, `memused`, `sql`, `expanded_sql`, `named_params`, the values of
  `changes`, `last_insert_row_id` and `errmsg`: that these need an open connection is
  `UseDatabase`). They keep no state of their own, so that no
  sequence or interleaving of them says more than a test of a single call.

## 7. Plan

Done, in order of importance: ForkSafety with its proofs, StatementCursor and
RowStream, ThreadedConnection, CallbackErrors, Transaction, StatementTimeout,
RowHash, CallbackLifetime, Batch, Values; then ConnectionCopies and the proof
that ForkSafety implements it, Backup, several parameters, callbacks without
protection and `busy_timeout=`, fresh handlers for every group, and the
remaining methods that run SQL text.

Then the proofs: every invariant and action property of the passing runs, both
refinements, and for the claims of section 5 the conditions under which the
code keeps them.

Left: the liveness properties, for a prover that has rules for fairness; and
conditions for the claims about the statement timeout, whose module has no proofs.
