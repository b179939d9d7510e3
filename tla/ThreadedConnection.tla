------------------------- MODULE ThreadedConnection -------------------------
(***************************************************************************)
(* Threads of one Ruby process that use connections to one database file.  *)
(*                                                                         *)
(* The extension calls sqlite3_step without releasing the global VM lock,  *)
(* and the library (compiled serialized) holds the recursive mutex of the  *)
(* connection for the whole call.  A callback is Ruby code run inside the  *)
(* call: it holds the connection's mutex, and may release the VM lock when *)
(* it sleeps (the handler of busy_handler_timeout= does), blocks, or runs  *)
(* out of its time slice.                                                  *)
(*                                                                         *)
(* One thread may fork; the child has only that thread, and a copy of      *)
(* every mutex as it was.                                                  *)
(***************************************************************************)
EXTENDS Naturals, FiniteSets

CONSTANTS
    Thread,
    Conn,
    Nobody,        \* no thread, no connection
    Elsewhere,     \* a writer in another process
    Setups,        \* the ways in which programs use threads and callbacks
    MaxRetries     \* bound: retries before the deadline of the busy handler

Callback == {"function", "busy", "collation", "authorizer"}

(* Only the user functions are called under rb_protect; the busy handler,  *)
(* the comparator of a collation and the authorizer are called directly,   *)
(* and so is the trace handler.                                            *)
Unprotected == Callback \ {"function"}

(* The connection of each thread, the callbacks that may release the VM    *)
(* lock, those that may raise an exception, and what the connections do    *)
(* about a busy file: busy_handler or busy_timeout=.                       *)
Setup == [conn : [Thread -> Conn],
          yielding : SUBSET Callback, raising : SUBSET Callback,
          busy : {"handler", "timeout"}]

ASSUME ThreadAssumption ==
    /\ Setups \subseteq Setup
    /\ Nobody \notin Thread \cup Conn
    /\ Elsewhere \notin Conn
    /\ MaxRetries \in Nat

VARIABLES
    gvl,      \* the thread that holds the VM lock
    pc,       \* pc[t]: where thread t is
    job,      \* job[t]: the statement it runs
    tries,    \* tries[t]: count of the busy handler
    mutex,    \* mutex[c]: the thread that holds the connection's mutex
    leaked,   \* leaked[c]: a callback jumped out of the call that locked it
    writer,   \* the connection that has the write lock of the file
    child,    \* the after-fork hook of the child: "none", "running" or "done"
    held,     \* connections whose mutex belongs to a thread the child lacks
    todo,     \* connections the child's hook has yet to discard
    setup     \* the program: a member of Setups, once and for all

threadVars == <<pc, job, tries>>
childVars == <<child, held, todo>>
vars == <<gvl, threadVars, mutex, leaked, writer, childVars, setup>>

ConnOf == setup.conn

(* "ruby": outside the library; "enter": asking for the mutex; "library";  *)
(* "callback": Ruby code called by the library.                            *)
Place == {"ruby", "enter", "library", "callback"}

(* "select" calls a user function; "sort" compares strings by a collation; *)
(* "prepare" compiles a statement, which asks the authorizer; "begin" takes*)
(* the write lock (an immediate transaction); "commit" releases it;        *)
(* "return": the work of the call is done, well or with an error.          *)
Job == {"select", "sort", "prepare", "begin", "commit", "return"}

Init ==
    /\ gvl = Nobody
    /\ pc = [t \in Thread |-> "ruby"]
    /\ job = [t \in Thread |-> "return"]
    /\ tries = [t \in Thread |-> 0]
    /\ mutex = [c \in Conn |-> Nobody]
    /\ leaked = [c \in Conn |-> FALSE]
    /\ writer = Nobody
    /\ child = "none"
    /\ held = {}
    /\ todo = {}
    /\ setup \in Setups

(* The callback that a thread in "callback" runs.                          *)
Runs(t) == CASE job[t] = "select"  -> "function"
             [] job[t] = "sort"    -> "collation"
             [] job[t] = "prepare" -> "authorizer"
             [] OTHER              -> "busy"

-----------------------------------------------------------------------------
(* The VM lock.                                                            *)

TakeGvl(t) ==
    /\ gvl = Nobody
    /\ pc[t] \in {"ruby", "callback"}
    /\ gvl' = t
    /\ UNCHANGED <<threadVars, mutex, leaked, writer, childVars, setup>>

YieldGvl(t) ==
    /\ gvl = t
    /\ pc[t] = "ruby" \/ (pc[t] = "callback" /\ Runs(t) \in setup.yielding)
    /\ gvl' = Nobody
    /\ UNCHANGED <<threadVars, mutex, leaked, writer, childVars, setup>>

-----------------------------------------------------------------------------
(* Statement#step, from the call to the return.                            *)

(* A definition called No... is a mutant of the one that follows it; only  *)
(* the mutant runs of PROJECT.json use it.                                 *)
NoGvlDuringCall(t, j) ==
    /\ gvl = t /\ pc[t] = "ruby"
    /\ job' = [job EXCEPT ![t] = j]
    /\ pc' = [pc EXCEPT ![t] = "enter"]
    /\ tries' = [tries EXCEPT ![t] = 0]
    /\ gvl' = Nobody
    /\ UNCHANGED <<mutex, leaked, writer, childVars, setup>>

Call(t, j) ==
    /\ gvl = t /\ pc[t] = "ruby"
    /\ job' = [job EXCEPT ![t] = j]
    /\ pc' = [pc EXCEPT ![t] = "enter"]
    /\ tries' = [tries EXCEPT ![t] = 0]
    /\ UNCHANGED <<gvl, mutex, leaked, writer, childVars, setup>>

(* The mutex is recursive.                                                 *)
EnterLibrary(t) ==
    /\ pc[t] = "enter"
    /\ mutex[ConnOf[t]] \in {Nobody, t}
    /\ mutex' = [mutex EXCEPT ![ConnOf[t]] = t]
    /\ pc' = [pc EXCEPT ![t] = "library"]
    /\ UNCHANGED <<gvl, job, tries, leaked, writer, childVars, setup>>

(* The library calls Ruby code in the course of its work.                  *)
CallRuby(t, j) ==
    /\ pc[t] = "library" /\ job[t] = j
    /\ pc' = [pc EXCEPT ![t] = "callback"]
    /\ UNCHANGED <<gvl, job, tries, mutex, leaked, writer, childVars, setup>>

(* rb_sqlite3_func: the library evaluates a function defined in Ruby.      *)
CallFunction(t) == CallRuby(t, "select")

(* rb_comparator_func: it compares two strings while it sorts.             *)
CallComparator(t) == CallRuby(t, "sort")

(* rb_sqlite3_auth: it asks what a statement being compiled may do.        *)
CallAuthorizer(t) == CallRuby(t, "prepare")

Begin(t) ==
    /\ pc[t] = "library" /\ job[t] = "begin"
    /\ writer = Nobody
    /\ writer' = ConnOf[t]
    /\ job' = [job EXCEPT ![t] = "return"]
    /\ UNCHANGED <<gvl, pc, tries, mutex, leaked, childVars, setup>>

(* Another connection has the write lock.                                  *)
FileIsBusy(t) ==
    pc[t] = "library" /\ job[t] = "begin" /\ writer \notin {Nobody, ConnOf[t]}

(* rb_sqlite3_busy_handler.                                                *)
Busy(t) ==
    /\ FileIsBusy(t) /\ setup.busy = "handler"
    /\ pc' = [pc EXCEPT ![t] = "callback"]
    /\ UNCHANGED <<gvl, job, tries, mutex, leaked, writer, childVars, setup>>

(* busy_timeout=: the library itself sleeps and tries again, with the VM   *)
(* lock held, and answers BUSY when the time is over.                      *)
LibrarySleeps(t) ==
    /\ FileIsBusy(t) /\ setup.busy = "timeout"
    /\ tries[t] < MaxRetries
    /\ tries' = [tries EXCEPT ![t] = @ + 1]
    /\ UNCHANGED <<gvl, pc, job, mutex, leaked, writer, childVars, setup>>

TimeoutExpires(t) ==
    /\ FileIsBusy(t) /\ setup.busy = "timeout"
    /\ job' = [job EXCEPT ![t] = "return"]
    /\ UNCHANGED <<gvl, pc, tries, mutex, leaked, writer, childVars, setup>>

(* This thread, or one that shares the connection, has begun a transaction *)
(* before: an error, as there is no transaction within a transaction.      *)
BeginFails(t) ==
    /\ pc[t] = "library" /\ job[t] = "begin"
    /\ writer = ConnOf[t]
    /\ job' = [job EXCEPT ![t] = "return"]
    /\ UNCHANGED <<gvl, pc, tries, mutex, leaked, writer, childVars, setup>>

(* Commits, or fails because the connection is in no transaction.          *)
Commit(t) ==
    /\ pc[t] = "library" /\ job[t] = "commit"
    /\ writer' = IF writer = ConnOf[t] THEN Nobody ELSE writer
    /\ job' = [job EXCEPT ![t] = "return"]
    /\ UNCHANGED <<gvl, pc, tries, mutex, leaked, childVars, setup>>

NoUnlock(t) ==
    /\ pc[t] = "library" /\ job[t] = "return"
    /\ pc' = [pc EXCEPT ![t] = "ruby"]
    /\ UNCHANGED <<gvl, job, tries, mutex, leaked, writer, childVars, setup>>

(* The step returns and the library unlocks the mutex once; a lock that a  *)
(* jump left behind is never unlocked.                                     *)
Return(t) ==
    /\ pc[t] = "library" /\ job[t] = "return"
    /\ pc' = [pc EXCEPT ![t] = "ruby"]
    /\ mutex' = IF leaked[ConnOf[t]] THEN mutex
                ELSE [mutex EXCEPT ![ConnOf[t]] = Nobody]
    /\ UNCHANGED <<gvl, job, tries, leaked, writer, childVars, setup>>

-----------------------------------------------------------------------------
(* Callbacks.                                                              *)

NoProtect(t) ==
    /\ gvl = t /\ pc[t] = "callback" /\ Runs(t) = "function"
    /\ pc' = [pc EXCEPT ![t] = "ruby"]
    /\ job' = [job EXCEPT ![t] = "return"]
    /\ leaked' = [leaked EXCEPT ![ConnOf[t]] = TRUE]
    /\ UNCHANGED <<gvl, tries, mutex, writer, childVars, setup>>

(* A function returns; an exception of it is kept by rb_protect until the  *)
(* step has returned.                                                      *)
FunctionReturns(t) ==
    /\ gvl = t /\ pc[t] = "callback" /\ Runs(t) = "function"
    /\ pc' = [pc EXCEPT ![t] = "library"]
    /\ job' = [job EXCEPT ![t] = "return"]
    /\ UNCHANGED <<gvl, tries, mutex, leaked, writer, childVars, setup>>

(* A comparison or a permission, which may also deny the statement.        *)
AnswerReturns(t) ==
    /\ gvl = t /\ pc[t] = "callback" /\ Runs(t) \in {"collation", "authorizer"}
    /\ pc' = [pc EXCEPT ![t] = "library"]
    /\ job' = [job EXCEPT ![t] = "return"]
    /\ UNCHANGED <<gvl, tries, mutex, leaked, writer, childVars, setup>>

(* The handler of busy_handler_timeout=: try again until the deadline.     *)
BusyRetry(t) ==
    /\ gvl = t /\ pc[t] = "callback" /\ Runs(t) = "busy"
    /\ tries[t] < MaxRetries
    /\ tries' = [tries EXCEPT ![t] = @ + 1]
    /\ pc' = [pc EXCEPT ![t] = "library"]
    /\ UNCHANGED <<gvl, job, mutex, leaked, writer, childVars, setup>>

NoGivingUp(t) ==
    /\ gvl = t /\ pc[t] = "callback" /\ Runs(t) = "busy"
    /\ tries[t] > 0
    /\ pc' = [pc EXCEPT ![t] = "library"]
    /\ UNCHANGED <<gvl, job, tries, mutex, leaked, writer, childVars, setup>>

BusyGivesUp(t) ==
    /\ gvl = t /\ pc[t] = "callback" /\ Runs(t) = "busy"
    /\ tries[t] > 0
    /\ pc' = [pc EXCEPT ![t] = "library"]
    /\ job' = [job EXCEPT ![t] = "return"]
    /\ UNCHANGED <<gvl, tries, mutex, leaked, writer, childVars, setup>>

(* An exception in a callback without protection jumps out of the library, *)
(* past the code that unlocks.                                             *)
CallbackJumps(t) ==
    /\ gvl = t /\ pc[t] = "callback"
    /\ Runs(t) \in Unprotected \cap setup.raising
    /\ pc' = [pc EXCEPT ![t] = "ruby"]
    /\ job' = [job EXCEPT ![t] = "return"]
    /\ leaked' = [leaked EXCEPT ![ConnOf[t]] = TRUE]
    /\ UNCHANGED <<gvl, tries, mutex, writer, childVars, setup>>

-----------------------------------------------------------------------------
(* Another process uses the same file.                                     *)
OtherProcess ==
    /\ \/ writer = Nobody /\ writer' = Elsewhere
       \/ writer = Elsewhere /\ writer' = Nobody
    /\ UNCHANGED <<gvl, threadVars, mutex, leaked, childVars, setup>>

(* Thread t forks, and the hook of the child begins; the mutexes of other  *)
(* threads stay locked in the child, where nobody can unlock them.         *)
Fork(t) ==
    /\ gvl = t /\ pc[t] = "ruby"
    /\ child = "none"
    /\ child' = "running"
    /\ held' = {c \in Conn : mutex[c] \notin {Nobody, t}}
    /\ todo' = Conn
    /\ UNCHANGED <<gvl, threadVars, mutex, leaked, writer, setup>>

(* discard_db begins with sqlite3_db_release_memory, which locks the       *)
(* connection's mutex.                                                     *)
HookDiscards(c) ==
    /\ child = "running" /\ c \in todo
    /\ c \notin held
    /\ todo' = todo \ {c}
    /\ UNCHANGED <<gvl, threadVars, mutex, leaked, writer, child, held, setup>>

HookReturns ==
    /\ child = "running" /\ todo = {}
    /\ child' = "done"
    /\ UNCHANGED <<gvl, threadVars, mutex, leaked, writer, held, todo, setup>>

-----------------------------------------------------------------------------
InLibrary(t) ==
    \/ EnterLibrary(t)
    \/ CallFunction(t) \/ CallComparator(t) \/ CallAuthorizer(t)
    \/ Begin(t) \/ BeginFails(t) \/ Commit(t)
    \/ Busy(t) \/ LibrarySleeps(t) \/ TimeoutExpires(t)
    \/ Return(t)

InCallback(t) ==
    \/ FunctionReturns(t) \/ AnswerReturns(t)
    \/ BusyRetry(t) \/ BusyGivesUp(t)
    \/ CallbackJumps(t)

Hook == HookReturns \/ \E c \in Conn : HookDiscards(c)

Next ==
    \/ \E t \in Thread :
          \/ TakeGvl(t) \/ YieldGvl(t)
          \/ \E j \in Job \ {"return"} : Call(t, j)
          \/ InLibrary(t) \/ InCallback(t)
          \/ Fork(t)
    \/ OtherProcess
    \/ Hook

Spec == Init /\ [][Next]_vars

(* Library code that runs keeps running; a callback that gets the VM lock  *)
(* again and again gets to its end; the timer makes a thread that comes    *)
(* back to Ruby code again and again yield the VM lock there at last; and  *)
(* a thread that waits for the VM lock gets it in its turn.                *)
Fairness ==
    /\ \A t \in Thread :
          /\ WF_vars(InLibrary(t))
          /\ SF_vars(InCallback(t))
          /\ SF_vars(pc[t] = "ruby" /\ YieldGvl(t))
          /\ SF_vars(TakeGvl(t))
    /\ WF_vars(Hook)

FairSpec == Spec /\ Fairness

-----------------------------------------------------------------------------
TypeOK ==
    /\ gvl \in Thread \cup {Nobody}
    /\ pc \in [Thread -> Place]
    /\ job \in [Thread -> Job]
    /\ tries \in [Thread -> 0..MaxRetries]
    /\ mutex \in [Conn -> Thread \cup {Nobody}]
    /\ leaked \in [Conn -> BOOLEAN]
    /\ writer \in Conn \cup {Nobody, Elsewhere}
    /\ child \in {"none", "running", "done"}
    /\ held \subseteq Conn
    /\ todo \subseteq Conn
    /\ setup \in Setups

(* The README: "it is safe to share only SQLite3::Database instances among *)
(* threads without providing your own locking mechanism".  A thread that   *)
(* waited for the mutex of its connection would wait with the VM lock in   *)
(* its hand, and whoever has the mutex could never give it back.  It rests *)
(* on the VM lock being held across sqlite3_step and on the rb_protect of  *)
(* rb_sqlite3_func, and fails for callbacks that do not stay within their  *)
(* call, unless each thread has a connection of its own.                   *)
NoMutexWait ==
    \A t \in Thread : pc[t] = "enter" => mutex[ConnOf[t]] \in {Nobody, t}

(* The threads' calls exclude each other on a connection: whoever is in a  *)
(* call has its mutex, and whoever runs library code also has the VM lock. *)
OneCallPerConnection ==
    \A t \in Thread :
        /\ pc[t] \in {"library", "callback"} => mutex[ConnOf[t]] = t
        /\ pc[t] \in {"enter", "library"} => gvl = t

(* Decision 1 of adr/2024-09-fork-safety.md: connections carried across a  *)
(* fork "will automatically be closed in the child process".  The hook of  *)
(* the child must not wait for a thread that the child does not have.      *)
HookNeverWaits == child = "running" => todo \cap held = {}

(* Callbacks stay within their call: none hands on the VM lock while its   *)
(* thread has the mutex, and none jumps out of the library.                *)
StayInCall == setup.yielding = {} /\ setup.raising \cap Unprotected = {}

(* The same, where it is true: a thread then forks only while no other one *)
(* is in a call.  It rests on the VM lock being held across sqlite3_step   *)
(* and on the rb_protect of rb_sqlite3_func.                               *)
HookIsNeverStuck == StayInCall => HookNeverWaits

(* Every statement that a thread runs comes to its end, the retries of the *)
(* busy handler included.                                                  *)
CallsReturn == \A t \in Thread : pc[t] = "enter" ~> pc[t] = "ruby"
=============================================================================
