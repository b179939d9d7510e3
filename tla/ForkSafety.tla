----------------------------- MODULE ForkSafety -----------------------------
(***************************************************************************)
(* The lifecycle of database connections and prepared statements when the  *)
(* processes that hold them fork.                                          *)
(*                                                                         *)
(* A fork copies the whole memory of the parent, so every variable below   *)
(* is indexed by process: obj, ptr, flags and owner are the fields of the  *)
(* struct behind a Database object, handle is the connection that the      *)
(* library keeps behind its sqlite3 pointer, and sobj, st and sdb are the  *)
(* Statement object, its sqlite3_stmt pointer and its connection.  hook,   *)
(* todo, warned and tracked are the state of the module SQLite3::ForkSafety*)
(* (the local variables of `discard' while it runs, and @databases).       *)
(*                                                                         *)
(* Killing a process is a behaviour that takes no more of its steps; it    *)
(* needs no action.  An orderly exit does: it frees every object.          *)
(***************************************************************************)
EXTENDS FiniteSets

CONSTANTS
    Proc,   \* process ids; an id is never reused while a child is alive
    Root,   \* the first process
    Conn,   \* the Database objects that may be created
    Stmt    \* the Statement objects that may be created

ASSUME RootAssumption == Root \in Proc

VARIABLES
    proc,     \* proc[p]: is the process unborn, running or exiting
    hook,     \* hook[p]: where the after-fork hook of process p is
    todo,     \* todo[p]: entries of @databases the hook has yet to visit
    warned,   \* warned[p]: the hook's local flag `warned'
    tracked,  \* tracked[p]: @databases, the weak references ever added
    obj,      \* obj[p][c]: the Database object
    ptr,      \* ptr[p][c]: ctx->db
    flags,    \* flags[p][c]: ctx->flags
    owner,    \* owner[p][c]: ctx->owner
    handle,   \* handle[p][c]: the library's connection
    sobj,     \* sobj[p][s]: the Statement object
    st,       \* st[p][s]: ctx->st
    sdb,      \* sdb[p][s]: ctx->db, which is also @connection
    born,     \* history: handle[p] when process p was forked
    used      \* history: connections of others that p has used, for SQL or not

hookVars == <<hook, todo, warned, tracked>>
connVars == <<obj, ptr, flags, owner, handle>>
stmtVars == <<sobj, st, sdb>>
vars == <<proc, hookVars, connVars, stmtVars, born, used>>

-----------------------------------------------------------------------------
ProcState == {"unborn", "running", "exiting"}
HookState == {"idle", "running", "raised", "done"}
Flag      == {"READONLY", "DISCARDED"}

(* A Database is "opening" from the moment open_v2 succeeds until          *)
(* ForkSafety.track has recorded it; "garbage" is unreachable, not freed.  *)
ObjState  == {"none", "opening", "live", "garbage", "freed"}

(* A "zombie" was closed while statements were open: the library keeps it  *)
(* until the last of them is finalized.  "abandoned" was discarded: its    *)
(* files are closed and its memory is lost.                                *)
HandleState == {"none", "open", "zombie", "freed", "abandoned"}

StmtObjState == {"none", "live", "garbage", "freed"}

Readonly(p, c)  == "READONLY" \in flags[p][c]
Discarded(p, c) == "DISCARDED" \in flags[p][c]

(* Process p holds a copy of a writable connection that another process    *)
(* opened.                                                                 *)
Foreign(p, c) == obj[p][c] # "none" /\ owner[p][c] # p /\ ~Readonly(p, c)

OpenStmts(p, c) == {s \in Stmt : st[p][s] # "NULL" /\ sdb[p][s] = c}
LiveStmts(p, c) == {s \in Stmt : sobj[p][s] = "live" /\ sdb[p][s] = c}

(* The application's code runs; during the hook only the hook does.        *)
Runs(p) == proc[p] = "running" /\ hook[p] # "running"

Init ==
    /\ proc = [p \in Proc |-> IF p = Root THEN "running" ELSE "unborn"]
    /\ hook = [p \in Proc |-> "idle"]
    /\ todo = [p \in Proc |-> {}]
    /\ warned = [p \in Proc |-> FALSE]
    /\ tracked = [p \in Proc |-> {}]
    /\ obj = [p \in Proc |-> [c \in Conn |-> "none"]]
    /\ ptr = [p \in Proc |-> [c \in Conn |-> "NULL"]]
    /\ flags = [p \in Proc |-> [c \in Conn |-> {}]]
    /\ owner = [p \in Proc |-> [c \in Conn |-> Root]]
    /\ handle = [p \in Proc |-> [c \in Conn |-> "none"]]
    /\ sobj = [p \in Proc |-> [s \in Stmt |-> "none"]]
    /\ st = [p \in Proc |-> [s \in Stmt |-> "NULL"]]
    /\ sdb \in {[p \in Proc |-> [s \in Stmt |-> c]] : c \in Conn}
    /\ born = [p \in Proc |-> [c \in Conn |-> "none"]]
    /\ used = [p \in Proc |-> {}]

-----------------------------------------------------------------------------
(* Library calls.                                                          *)

(* sqlite3_close_v2: the connection outlives the call as a zombie while it *)
(* has unfinalized statements.                                             *)
AfterCloseV2(p, c) == IF OpenStmts(p, c) = {} THEN "freed" ELSE "zombie"

(* sqlite3_finalize: the last statement takes a zombie with it.            *)
AfterFinalize(p, s) ==
    LET c == sdb[p][s]
    IN  IF handle[p][c] = "zombie" /\ OpenStmts(p, c) = {s}
        THEN "freed" ELSE handle[p][c]

Finalize(p, s) ==
    /\ st' = [st EXCEPT ![p][s] = "NULL"]
    /\ handle' = [handle EXCEPT ![p][sdb[p][s]] = AfterFinalize(p, s)]

(* The process goes into the library through connection c.                 *)
Use(p, c) == used' = [used EXCEPT ![p] = IF owner[p][c] = p THEN @ ELSE @ \cup {c}]

OrdinaryClose(p, c) ==
    /\ handle' = [handle EXCEPT ![p][c] = AfterCloseV2(p, c)]
    /\ ptr' = [ptr EXCEPT ![p][c] = "NULL"]
    /\ UNCHANGED flags

(* discard_db: release memory, close the files, forget the handle.         *)
DiscardDb(p, c) ==
    /\ handle' = [handle EXCEPT ![p][c] = "abandoned"]
    /\ ptr' = [ptr EXCEPT ![p][c] = "NULL"]
    /\ flags' = [flags EXCEPT ![p][c] = @ \cup {"DISCARDED"}]

(* A definition called No..., Any... or Everyone... is a mutant of the one  *)
(* that follows it; only the mutant runs of PROJECT.json use it.           *)
AnyOwnerMayClose(p, c) == ~Discarded(p, c)

NoReadonlyException(p, c) == owner[p][c] = p

MayCloseOrdinarily(p, c) == Readonly(p, c) \/ owner[p][c] = p

CloseOrDiscard(p, c) ==
    \/ ptr[p][c] = "NULL" /\ UNCHANGED <<handle, ptr, flags>>
    \/ ptr[p][c] # "NULL" /\ MayCloseOrdinarily(p, c) /\ OrdinaryClose(p, c)
    \/ ptr[p][c] # "NULL" /\ ~MayCloseOrdinarily(p, c) /\ DiscardDb(p, c)

-----------------------------------------------------------------------------
(* Database objects.                                                       *)

(* Database.new: allocate records the process, open_v2 opens the handle.   *)
Open(p, c, mode) ==
    /\ Runs(p)
    /\ obj[p][c] = "none"
    /\ obj' = [obj EXCEPT ![p][c] = "opening"]
    /\ ptr' = [ptr EXCEPT ![p][c] = "db"]
    /\ owner' = [owner EXCEPT ![p][c] = p]
    /\ flags' = [flags EXCEPT ![p][c] = mode]
    /\ handle' = [handle EXCEPT ![p][c] = "open"]
    /\ UNCHANGED <<proc, hookVars, stmtVars, born, used>>

(* A file whose name is in UTF-16 is opened by open16: always for writing, *)
(* whatever mode the options ask for.                                      *)
Open16(p, c) == Open(p, c, {})

(* open_v2 closes a handle that failed to open and raises.                 *)
OpenFails(p, c) ==
    /\ Runs(p)
    /\ obj[p][c] = "none"
    /\ obj' = [obj EXCEPT ![p][c] = "garbage"]
    /\ owner' = [owner EXCEPT ![p][c] = p]
    /\ UNCHANGED <<proc, hookVars, ptr, flags, handle, stmtVars, born, used>>

(* initialize_extensions raises: the object is dropped before it was       *)
(* tracked, with its handle open.                                          *)
InitializeFails(p, c) ==
    /\ Runs(p)
    /\ obj[p][c] = "opening"
    /\ obj' = [obj EXCEPT ![p][c] = "garbage"]
    /\ UNCHANGED <<proc, hookVars, ptr, flags, owner, handle, stmtVars, born,
                   used>>

(* ForkSafety.track(self), the last step of Database#initialize.           *)
Track(p, c) ==
    /\ Runs(p)
    /\ obj[p][c] = "opening"
    /\ obj' = [obj EXCEPT ![p][c] = "live"]
    /\ tracked' = [tracked EXCEPT ![p] = @ \cup {c}]
    /\ UNCHANGED <<proc, hook, todo, warned, ptr, flags, owner, handle,
                   stmtVars, born, used>>

(* The methods of a Database that go straight into the library: each asks  *)
(* for an open connection (REQUIRE_OPEN_DB).                               *)
UseDatabase(p, c) ==
    /\ Runs(p)
    /\ obj[p][c] = "live" /\ ptr[p][c] # "NULL"
    /\ Use(p, c)
    /\ UNCHANGED <<proc, hookVars, connVars, stmtVars, born>>

Close(p, c) ==
    /\ Runs(p)
    /\ obj[p][c] = "live"
    /\ CloseOrDiscard(p, c)
    /\ UNCHANGED <<proc, hookVars, obj, owner, stmtVars, born, used>>

NoReferenceFromStatement(p, c) ==
    /\ Runs(p)
    /\ obj[p][c] = "live"
    /\ obj' = [obj EXCEPT ![p][c] = "garbage"]
    /\ UNCHANGED <<proc, hookVars, ptr, flags, owner, handle, stmtVars, born,
                   used>>

(* The last reference goes away; a reachable statement holds one through   *)
(* its @connection.                                                        *)
DropDatabase(p, c) ==
    /\ Runs(p)
    /\ obj[p][c] = "live"
    /\ LiveStmts(p, c) = {}
    /\ obj' = [obj EXCEPT ![p][c] = "garbage"]
    /\ UNCHANGED <<proc, hookVars, ptr, flags, owner, handle, stmtVars, born,
                   used>>

NoCloseOnFree(p, c) ==
    /\ proc[p] # "unborn"
    /\ obj[p][c] = "garbage"
    /\ obj' = [obj EXCEPT ![p][c] = "freed"]
    /\ UNCHANGED <<proc, hookVars, ptr, flags, owner, handle, stmtVars, born,
                   used>>

Deallocate(p, c) ==
    /\ proc[p] # "unborn"
    /\ obj[p][c] = "garbage"
    /\ CloseOrDiscard(p, c)
    /\ obj' = [obj EXCEPT ![p][c] = "freed"]
    /\ UNCHANGED <<proc, hookVars, owner, stmtVars, born, used>>

-----------------------------------------------------------------------------
(* Statement objects.                                                      *)

(* Statement#initialize refuses a closed database; prepare reads the       *)
(* schema through the connection.                                          *)
Prepare(p, c, s) ==
    /\ Runs(p)
    /\ obj[p][c] = "live" /\ ptr[p][c] # "NULL"
    /\ sobj[p][s] = "none"
    /\ sobj' = [sobj EXCEPT ![p][s] = "live"]
    /\ st' = [st EXCEPT ![p][s] = "stmt"]
    /\ sdb' = [sdb EXCEPT ![p][s] = c]
    /\ Use(p, c)
    /\ UNCHANGED <<proc, hookVars, connVars, born>>

(* A statement that does not compile leaves an object whose st is NULL.    *)
PrepareFails(p, c, s) ==
    /\ Runs(p)
    /\ obj[p][c] = "live" /\ ptr[p][c] # "NULL"
    /\ sobj[p][s] = "none"
    /\ sobj' = [sobj EXCEPT ![p][s] = "garbage"]
    /\ sdb' = [sdb EXCEPT ![p][s] = c]
    /\ Use(p, c)
    /\ UNCHANGED <<proc, hookVars, connVars, st, born>>

NoLiveDbGuard(p, s) ==
    /\ Runs(p)
    /\ sobj[p][s] = "live"
    /\ st[p][s] # "NULL"
    /\ Use(p, sdb[p][s])
    /\ UNCHANGED <<proc, hookVars, connVars, stmtVars, born>>

(* Any statement operation that enters the library: REQUIRE_LIVE_DB, then  *)
(* REQUIRE_OPEN_STMT.                                                      *)
Step(p, s) ==
    /\ Runs(p)
    /\ sobj[p][s] = "live"
    /\ ~Discarded(p, sdb[p][s])
    /\ st[p][s] # "NULL"
    /\ Use(p, sdb[p][s])
    /\ UNCHANGED <<proc, hookVars, connVars, stmtVars, born>>

(* Statement#close asks for an open statement only.                        *)
CloseStatement(p, s) ==
    /\ Runs(p)
    /\ sobj[p][s] = "live"
    /\ st[p][s] # "NULL"
    /\ Finalize(p, s)
    /\ UNCHANGED <<proc, hookVars, obj, ptr, flags, owner, sobj, sdb, born,
                   used>>

DropStatement(p, s) ==
    /\ Runs(p)
    /\ sobj[p][s] = "live"
    /\ sobj' = [sobj EXCEPT ![p][s] = "garbage"]
    /\ UNCHANGED <<proc, hookVars, connVars, st, sdb, born, used>>

NoFinalizeOnFree(p, s) ==
    /\ proc[p] # "unborn"
    /\ sobj[p][s] = "garbage"
    /\ sobj' = [sobj EXCEPT ![p][s] = "freed"]
    /\ st' = [st EXCEPT ![p][s] = "NULL"]
    /\ UNCHANGED <<proc, hookVars, connVars, sdb, born, used>>

DeallocateStatement(p, s) ==
    /\ proc[p] # "unborn"
    /\ sobj[p][s] = "garbage"
    /\ IF st[p][s] # "NULL" THEN Finalize(p, s) ELSE UNCHANGED <<st, handle>>
    /\ sobj' = [sobj EXCEPT ![p][s] = "freed"]
    /\ UNCHANGED <<proc, hookVars, obj, ptr, flags, owner, sdb, born, used>>

-----------------------------------------------------------------------------
(* Processes.                                                              *)

NoBrokenConstructor(o) == o

(* What the child sees of a Database object: a constructor that another    *)
(* thread of the parent was running does not continue in the child.        *)
Inherited(o) == IF o = "opening" THEN "garbage" ELSE o

(* fork copies the process.  Process._fork runs the hook in the child; a   *)
(* fork that does not go through it (daemon, a native fork) does not.      *)
(* silent is the value of @suppress.                                       *)
Fork(p, q, hooked, silent) ==
    /\ Runs(p)
    /\ proc[q] = "unborn"
    /\ proc' = [proc EXCEPT ![q] = "running"]
    /\ hook' = [hook EXCEPT ![q] = IF hooked THEN "running" ELSE "idle"]
    /\ todo' = [todo EXCEPT ![q] = IF hooked THEN tracked[p] ELSE {}]
    /\ warned' = [warned EXCEPT ![q] = silent]
    /\ tracked' = [tracked EXCEPT ![q] = tracked[p]]
    /\ obj' = [obj EXCEPT ![q] = [c \in Conn |-> Inherited(obj[p][c])]]
    /\ ptr' = [ptr EXCEPT ![q] = ptr[p]]
    /\ flags' = [flags EXCEPT ![q] = flags[p]]
    /\ owner' = [owner EXCEPT ![q] = owner[p]]
    /\ handle' = [handle EXCEPT ![q] = handle[p]]
    /\ sobj' = [sobj EXCEPT ![q] = sobj[p]]
    /\ st' = [st EXCEPT ![q] = st[p]]
    /\ sdb' = [sdb EXCEPT ![q] = sdb[p]]
    /\ born' = [born EXCEPT ![q] = handle[p]]
    /\ used' = [used EXCEPT ![q] = {}]

EveryoneSkipsWhenSilenced(q, c) ==
    /\ hook[q] = "running" /\ c \in todo[q]
    /\ \/ obj[q][c] \in {"garbage", "freed"} \/ ptr[q][c] = "NULL"
       \/ Readonly(q, c) \/ warned[q]
    /\ todo' = [todo EXCEPT ![q] = @ \ {c}]
    /\ UNCHANGED <<proc, hook, warned, tracked, connVars, stmtVars, born, used>>

NoSkipOfClosed(q, c) ==
    /\ hook[q] = "running" /\ c \in todo[q]
    /\ obj[q][c] \in {"garbage", "freed"} \/ Readonly(q, c)
    /\ todo' = [todo EXCEPT ![q] = @ \ {c}]
    /\ UNCHANGED <<proc, hook, warned, tracked, connVars, stmtVars, born, used>>

(* A dead weak reference, a closed database or a readonly one.  Garbage    *)
(* may or may not still answer to its weak reference.                      *)
HookSkips(q, c) ==
    /\ hook[q] = "running" /\ c \in todo[q]
    /\ obj[q][c] \in {"garbage", "freed"} \/ ptr[q][c] = "NULL" \/ Readonly(q, c)
    /\ todo' = [todo EXCEPT ![q] = @ \ {c}]
    /\ UNCHANGED <<proc, hook, warned, tracked, connVars, stmtVars, born, used>>

HookMustClose(q, c) ==
    /\ hook[q] = "running" /\ c \in todo[q]
    /\ obj[q][c] \in {"live", "garbage"}
    /\ ptr[q][c] # "NULL"
    /\ ~Readonly(q, c)

HookCloses(q, c) ==
    /\ HookMustClose(q, c)
    /\ warned' = [warned EXCEPT ![q] = TRUE]
    /\ CloseOrDiscard(q, c)
    /\ todo' = [todo EXCEPT ![q] = @ \ {c}]
    /\ UNCHANGED <<proc, hook, tracked, obj, owner, stmtVars, born, used>>

(* Kernel#warn goes through Warning.warn, which an application may         *)
(* override to raise; only WeakRef::RefError is rescued.                   *)
HookWarnRaises(q, c) ==
    /\ HookMustClose(q, c)
    /\ ~warned[q]
    /\ hook' = [hook EXCEPT ![q] = "raised"]
    /\ todo' = [todo EXCEPT ![q] = {}]
    /\ UNCHANGED <<proc, warned, tracked, connVars, stmtVars, born, used>>

HookReturns(q) ==
    /\ hook[q] = "running"
    /\ todo[q] = {}
    /\ tracked' = [tracked EXCEPT ![q] = {}]
    /\ hook' = [hook EXCEPT ![q] = "done"]
    /\ UNCHANGED <<proc, todo, warned, connVars, stmtVars, born, used>>

(* An orderly exit frees every object, in no particular order.             *)
Exit(p) ==
    /\ Runs(p)
    /\ proc' = [proc EXCEPT ![p] = "exiting"]
    /\ obj' = [obj EXCEPT ![p] = [c \in Conn |->
                  IF @[c] \in {"opening", "live"} THEN "garbage" ELSE @[c]]]
    /\ sobj' = [sobj EXCEPT ![p] = [s \in Stmt |->
                  IF @[s] = "live" THEN "garbage" ELSE @[s]]]
    /\ UNCHANGED <<hookVars, ptr, flags, owner, handle, st, sdb, born, used>>

-----------------------------------------------------------------------------
DatabaseStep(p, c) ==
    \/ \E mode \in {{}, {"READONLY"}} : Open(p, c, mode)
    \/ Open16(p, c)
    \/ OpenFails(p, c)
    \/ InitializeFails(p, c)
    \/ Track(p, c)
    \/ UseDatabase(p, c)
    \/ Close(p, c)
    \/ DropDatabase(p, c)

StatementStep(p, s) ==
    \/ \E c \in Conn : Prepare(p, c, s) \/ PrepareFails(p, c, s)
    \/ Step(p, s)
    \/ CloseStatement(p, s)
    \/ DropStatement(p, s)

HookStep(q) ==
    \/ \E c \in Conn : HookSkips(q, c) \/ HookCloses(q, c) \/ HookWarnRaises(q, c)
    \/ HookReturns(q)

FreeStep(p) ==
    \/ \E c \in Conn : Deallocate(p, c)
    \/ \E s \in Stmt : DeallocateStatement(p, s)

Next ==
    \E p \in Proc :
        \/ \E c \in Conn : DatabaseStep(p, c)
        \/ \E s \in Stmt : StatementStep(p, s)
        \/ \E q \in Proc, hooked, silent \in BOOLEAN : Fork(p, q, hooked, silent)
        \/ HookStep(p)
        \/ FreeStep(p)
        \/ Exit(p)

Spec == Init /\ [][Next]_vars

(* The hook is a loop that nothing else of the child interleaves with; an  *)
(* exiting process frees its objects before it is gone.  Nothing says when *)
(* a running process collects its garbage.                                 *)
FinalFree(p) == proc[p] = "exiting" /\ FreeStep(p)

Fairness == \A p \in Proc : WF_vars(HookStep(p)) /\ WF_vars(FinalFree(p))

FairSpec == Spec /\ Fairness

-----------------------------------------------------------------------------
TypeOK ==
    /\ proc \in [Proc -> ProcState]
    /\ hook \in [Proc -> HookState]
    /\ todo \in [Proc -> SUBSET Conn]
    /\ warned \in [Proc -> BOOLEAN]
    /\ tracked \in [Proc -> SUBSET Conn]
    /\ obj \in [Proc -> [Conn -> ObjState]]
    /\ ptr \in [Proc -> [Conn -> {"NULL", "db"}]]
    /\ flags \in [Proc -> [Conn -> SUBSET Flag]]
    /\ owner \in [Proc -> [Conn -> Proc]]
    /\ handle \in [Proc -> [Conn -> HandleState]]
    /\ sobj \in [Proc -> [Stmt -> StmtObjState]]
    /\ st \in [Proc -> [Stmt -> {"NULL", "stmt"}]]
    /\ sdb \in [Proc -> [Stmt -> Conn]]
    /\ born \in [Proc -> [Conn -> HandleState]]
    /\ used \in [Proc -> SUBSET Conn]

(* Once the hook has returned, no reachable Database of the child has an   *)
(* inherited writable connection open, whatever the parent's threads were  *)
(* doing when it forked (ForkSafety.discard; decision 1 of the ADR).       *)
HookLeavesNoWriter ==
    \A p \in Proc, c \in Conn :
        hook[p] = "done" /\ obj[p][c] = "live" /\ ptr[p][c] # "NULL" => ~Foreign(p, c)

(* sqlite3_close_v2 is never applied to a writable connection outside the  *)
(* process that opened it: neither by Database#close, nor by the garbage   *)
(* collector, nor by the hook, nor at exit, even when the fork bypassed    *)
(* the hook (close_or_discard_db).                                         *)
NoForeignClose ==
    \A p \in Proc, c \in Conn :
        Foreign(p, c) /\ handle[p][c] \in {"zombie", "freed"}
            => born[p][c] \in {"zombie", "freed"}

(* A child in which the hook has returned uses no inherited writable       *)
(* connection that was open at the fork, neither through a statement nor   *)
(* through the Database (REQUIRE_LIVE_DB, REQUIRE_OPEN_DB, and             *)
(* Statement#initialize).                                                  *)
NoForeignUse ==
    \A p \in Proc, c \in Conn :
        hook[p] = "done" /\ c \in used[p] /\ Foreign(p, c)
            => born[p][c] = "zombie"

(* Only inherited writable connections are discarded, every discarded one  *)
(* is flagged so that its statements raise, and no other connection is     *)
(* flagged: readonly connections keep working in the child.                *)
DiscardIsExact ==
    \A p \in Proc, c \in Conn :
        /\ Discarded(p, c) <=> handle[p][c] = "abandoned"
        /\ Discarded(p, c) => Foreign(p, c) /\ ptr[p][c] = "NULL"

(* No pointer outlives what it points to: ctx->db of a Database, the       *)
(* sqlite3_stmt of a Statement that may still be finalized, and ctx->db of *)
(* a reachable Statement, whose flags every operation reads.               *)
NoDanglingPointer ==
    /\ \A p \in Proc, c \in Conn : ptr[p][c] # "NULL" <=> handle[p][c] = "open"
    /\ \A p \in Proc, s \in Stmt :
          /\ st[p][s] # "NULL"
                => handle[p][sdb[p][s]] \in {"open", "zombie", "abandoned"}
          /\ sobj[p][s] = "live" => obj[p][sdb[p][s]] = "live"

(* A closed connection lingers only while a statement of it is still open. *)
ZombieHasStatement ==
    \A p \in Proc, c \in Conn :
        handle[p][c] = "zombie"
            => \E s \in Stmt : st[p][s] # "NULL" /\ sdb[p][s] = c

(* Together: the processes treat their copies of the connections as        *)
(* ConnectionCopies allows, whatever statements, weak references and the   *)
(* collector do (close_or_discard_db, ForkSafety.discard).                 *)
Access(p, c) ==
    IF handle[p][c] = "none" THEN "none"
    ELSE IF handle[p][c] \in {"zombie", "freed"} THEN "closed"
    ELSE IF handle[p][c] = "abandoned" THEN "abandoned"
    ELSE IF Readonly(p, c) THEN "shared"
    ELSE IF owner[p][c] = p THEN "own" ELSE "copy"

Copies == INSTANCE ConnectionCopies
    WITH alive  <- {p \in Proc : proc[p] # "unborn"},
         access <- [p \in Proc |-> [c \in Conn |-> Access(p, c)]]

CopiesPromise == Copies!Spec

(* The claim of Database#close, "Writable connections that are carried     *)
(* across a fork() are not completely closed": a process that inherits the *)
(* handle of a writable connection, and ran the hook, never tears it down. *)
NotCompletelyClosed ==
    \A p \in Proc, c \in Conn :
        hook[p] = "done" /\ Foreign(p, c) /\ handle[p][c] = "freed"
            => born[p][c] = "freed"

(* The hook always ends: in its return, or in the exception of a warning.  *)
HookEnds ==
    \A p \in Proc : hook[p] = "running" ~> hook[p] \in {"done", "raised"}

(* An exiting process leaves no connection open and no zombie behind.      *)
ExitReleases ==
    \A p \in Proc :
        proc[p] = "exiting"
            ~> \A c \in Conn : handle[p][c] \notin {"open", "zombie"}

-----------------------------------------------------------------------------
(* The inductive invariant.  What the safety invariants leave out is: the  *)
(* fields of an object that does not exist are clear; an owner has been    *)
(* born; a constructor runs only in the process that opened the handle;    *)
(* every reachable writable connection is on the list of the hook, and in  *)
(* the part the running hook has yet to visit; no SQL runs before the hook *)
(* is over; what was torn down before the fork stays so.                   *)
ObjectInv ==
    \A p \in Proc, c \in Conn :
        /\ obj[p][c] = "none" => ptr[p][c] = "NULL" /\ flags[p][c] = {} /\ handle[p][c] = "none"
        /\ obj[p][c] # "none" => proc[owner[p][c]] # "unborn"
        /\ obj[p][c] = "opening" => owner[p][c] = p

TrackedInv ==
    \A p \in Proc, c \in Conn :
        obj[p][c] = "live" /\ ptr[p][c] # "NULL" /\ ~Readonly(p, c)
            => c \in tracked[p] /\ (hook[p] = "running" => c \in todo[p])

HistoryInv ==
    /\ \A p \in Proc : hook[p] = "running" => used[p] = {}
    /\ \A p \in Proc, c \in Conn :
          Foreign(p, c) /\ born[p][c] = "freed" => handle[p][c] = "freed"

StatementInv ==
    \A p \in Proc, s \in Stmt : sobj[p][s] = "none" => st[p][s] = "NULL"

SafetyInv ==
    /\ ObjectInv
    /\ TrackedInv
    /\ HistoryInv
    /\ StatementInv
    /\ HookLeavesNoWriter
    /\ NoForeignClose
    /\ NoForeignUse
    /\ DiscardIsExact
    /\ NoDanglingPointer
    /\ ZombieHasStatement

IInv == TypeOK /\ SafetyInv
=============================================================================
