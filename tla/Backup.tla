------------------------------- MODULE Backup -------------------------------
(***************************************************************************)
(* Backup objects: copies of one database into another, page by page.      *)
(*                                                                         *)
(* The struct behind a Backup holds one pointer, ctx->p, to the library's  *)
(* sqlite3_backup, which points to the connections of both databases.  The *)
(* Backup keeps no reference to the two Database objects, marks nothing    *)
(* and has no free function of its own, so the program may close, drop and *)
(* collect Databases and Backups in any order.  It may also fork: the      *)
(* model goes on with the child, whose hook discards the writable          *)
(* connections that it inherits (module ForkSafety tells that story        *)
(* without Backups); a readonly one, the source of a copy for example,     *)
(* goes on working in the child and is closed there like any other.        *)
(***************************************************************************)
EXTENDS Integers

CONSTANTS
    Conn,     \* the Database objects
    Backups,  \* the Backup objects
    Pages     \* pages of every source database

ASSUME PagesAssumption == Pages \in Nat \ {0}

VARIABLES
    obj,      \* obj[c]: the Database object
    ptr,      \* ptr[c]: ctx->db of the Database
    handle,   \* handle[c]: the library's connection
    own,      \* own[c]: ctx->owner is this process
    readonly, \* readonly[c]: ctx->flags has READONLY
    bobj,     \* bobj[b]: the Backup object
    p,        \* p[b]: ctx->p of the Backup
    copy,     \* copy[b]: the library's sqlite3_backup
    result,   \* result[b]: what the last step returned
    undefined \* what the library was made to do that it does not define

connVars == <<obj, ptr, handle, own, readonly>>
vars == <<connVars, bobj, p, copy, result, undefined>>

ObjState    == {"none", "live", "garbage", "freed"}
HandleState == {"none", "open", "zombie", "freed", "abandoned"}
Status      == {"none", "OK", "DONE", "BUSY", "ERROR"}

(* left: pages still to be copied; remaining: the count that the library   *)
(* shows, which only a successful step brings up to date; rc: the error    *)
(* or DONE that every later step returns again.                            *)
NoCopy == [state |-> "none", src |-> "none", dst |-> "none",
           left |-> 0, remaining |-> 0, rc |-> "OK"]

Init ==
    /\ obj = [c \in Conn |-> "none"]
    /\ ptr = [c \in Conn |-> "NULL"]
    /\ handle = [c \in Conn |-> "none"]
    /\ own = [c \in Conn |-> TRUE]
    /\ readonly = [c \in Conn |-> FALSE]
    /\ bobj = [b \in Backups |-> "none"]
    /\ p = [b \in Backups |-> "NULL"]
    /\ copy = [b \in Backups |-> NoCopy]
    /\ result = [b \in Backups |-> "none"]
    /\ undefined = {}

(* Beyond undefined behaviour nothing can be said.                         *)
Sane == undefined = {}

-----------------------------------------------------------------------------
(* The library.                                                            *)

(* The connection counts the backups that read from it, not those that     *)
(* write to it.                                                            *)
ReadFrom(c) == {b \in Backups : copy[b].state = "live" /\ copy[b].src = c}

(* What using the backup does that is not defined.                         *)
Misuse(b) ==
    {"freed" : c \in {d \in {copy[b].src, copy[b].dst} : handle[d] = "freed"}}
    \cup
    {"discarded" : c \in {d \in {copy[b].src, copy[b].dst} : handle[d] = "abandoned"}}

-----------------------------------------------------------------------------
(* Databases.                                                              *)

Open(c, mode) ==
    /\ Sane
    /\ obj[c] = "none"
    /\ obj' = [obj EXCEPT ![c] = "live"]
    /\ ptr' = [ptr EXCEPT ![c] = "db"]
    /\ handle' = [handle EXCEPT ![c] = "open"]
    /\ own' = [own EXCEPT ![c] = TRUE]
    /\ readonly' = [readonly EXCEPT ![c] = mode]
    /\ UNCHANGED <<bobj, p, copy, result, undefined>>

(* A definition called No... is a mutant of the one that follows it; only  *)
(* the mutant runs of PROJECT.json use it.                                 *)
NoZombie(c) == "freed"

(* sqlite3_close_v2 of a connection that backups read from leaves a zombie.*)
AfterCloseV2(c) == IF ReadFrom(c) = {} THEN "freed" ELSE "zombie"

NoOwnerCheck(c) == TRUE

(* A readonly connection may be closed by whoever has it, a writable one   *)
(* only by the process that opened it.                                     *)
MayCloseOrdinarily(c) == readonly[c] \/ own[c]

CloseOrDiscard(c) ==
    IF ptr[c] = "NULL" THEN UNCHANGED <<ptr, handle>>
    ELSE /\ ptr' = [ptr EXCEPT ![c] = "NULL"]
         /\ handle' = [handle EXCEPT ![c] =
                         IF MayCloseOrdinarily(c) THEN AfterCloseV2(c)
                         ELSE "abandoned"]

Close(c) ==
    /\ Sane
    /\ obj[c] = "live"
    /\ CloseOrDiscard(c)
    /\ UNCHANGED <<obj, own, readonly, bobj, p, copy, result, undefined>>

(* No Backup keeps a Database alive.                                       *)
DropDatabase(c) ==
    /\ Sane
    /\ obj[c] = "live"
    /\ obj' = [obj EXCEPT ![c] = "garbage"]
    /\ UNCHANGED <<ptr, handle, own, readonly, bobj, p, copy, result, undefined>>

Deallocate(c) ==
    /\ Sane
    /\ obj[c] = "garbage"
    /\ obj' = [obj EXCEPT ![c] = "freed"]
    /\ CloseOrDiscard(c)
    /\ UNCHANGED <<own, readonly, bobj, p, copy, result, undefined>>

(* Another connection changes the source: the pages copied so far are      *)
(* copied again.                                                           *)
SourceChanges(c) ==
    /\ Sane
    /\ \E b \in ReadFrom(c) : copy[b].rc = "OK" /\ copy[b].left < Pages
    /\ copy' = [b \in Backups |-> IF b \in ReadFrom(c) /\ copy[b].rc = "OK"
                                 THEN [copy[b] EXCEPT !.left = Pages] ELSE copy[b]]
    /\ UNCHANGED <<connVars, bobj, p, result, undefined>>

(* What the hook is to discard.                                            *)
OpenForWriting(c) == ptr[c] # "NULL" /\ ~readonly[c]

(* The process forks; of the child we see what its hook leaves: every      *)
(* reachable connection open for writing is discarded, and of the garbage  *)
(* what its weak references still found.  A fork that does not go through  *)
(* Process._fork runs no hook; one whose warning raises, which it does     *)
(* before the first of them, discards nothing either.                      *)
Fork(hooked) ==
    /\ Sane
    /\ \E c \in Conn : own[c] /\ handle[c] \in {"open", "zombie"}
    /\ own' = [c \in Conn |-> FALSE]
    /\ IF hooked
       THEN \E gone \in SUBSET {c \in Conn : OpenForWriting(c)} :
               /\ \A c \in Conn : obj[c] = "live" /\ OpenForWriting(c) => c \in gone
               /\ ptr' = [c \in Conn |-> IF c \in gone THEN "NULL" ELSE ptr[c]]
               /\ handle' = [c \in Conn |-> IF c \in gone THEN "abandoned" ELSE handle[c]]
       ELSE UNCHANGED <<ptr, handle>>
    /\ UNCHANGED <<obj, readonly, bobj, p, copy, result, undefined>>

-----------------------------------------------------------------------------
(* Backups.                                                                *)

(* Backup.new refuses a closed source, then a closed destination; of two   *)
(* open ones the library refuses a destination that is the source or that  *)
(* is in a transaction, and the error on it is raised.                     *)
InitializeRaises(b, d, s) ==
    /\ Sane
    /\ bobj[b] = "none"
    /\ obj[s] = "live" /\ obj[d] = "live"
    /\ bobj' = [bobj EXCEPT ![b] = "garbage"]
    /\ UNCHANGED <<connVars, p, copy, result, undefined>>

Initialize(b, d, s) ==
    /\ Sane
    /\ bobj[b] = "none"
    /\ obj[s] = "live" /\ obj[d] = "live"
    /\ ptr[s] # "NULL" /\ ptr[d] # "NULL"
    /\ d # s
    /\ bobj' = [bobj EXCEPT ![b] = "live"]
    /\ p' = [p EXCEPT ![b] = "backup"]
    /\ copy' = [copy EXCEPT ![b] = [state |-> "live", src |-> s, dst |-> d,
                                    left |-> Pages, remaining |-> 0, rc |-> "OK"]]
    /\ UNCHANGED <<connVars, result, undefined>>

(* REQUIRE_OPEN_BACKUP.                                                    *)
Usable(b) == Sane /\ bobj[b] = "live" /\ p[b] # "NULL"

(* sqlite3_backup_step copies n pages, or all for a negative n.            *)
Copied(b, n) == IF n < 0 \/ n > copy[b].left THEN 0 ELSE copy[b].left - n

(* Backup#step returns the status and raises nothing.  BUSY may be tried   *)
(* again, an error or DONE stays.  A readonly destination gets the error   *)
(* at once, but for its temp database.                                     *)
Step(b, n) ==
    /\ Usable(b)
    /\ undefined' = Misuse(b)
    /\ \/ /\ copy[b].rc = "OK"
          /\ LET left == Copied(b, n)
                 rc   == IF left = 0 THEN "DONE" ELSE "OK"
             IN  /\ copy' = [copy EXCEPT ![b] = [@ EXCEPT !.left = left,
                                                   !.remaining = left, !.rc = rc]]
                 /\ result' = [result EXCEPT ![b] = rc]
       \/ /\ copy[b].rc = "OK"
          /\ result' = [result EXCEPT ![b] = "BUSY"]
          /\ UNCHANGED copy
       \/ /\ copy[b].rc = "OK"
          /\ copy' = [copy EXCEPT ![b].rc = "ERROR"]
          /\ result' = [result EXCEPT ![b] = "ERROR"]
       \/ /\ copy[b].rc # "OK"
          /\ result' = [result EXCEPT ![b] = copy[b].rc]
          /\ UNCHANGED copy
    /\ UNCHANGED <<connVars, bobj, p>>

(* Backup#remaining shows what the last successful step has left there.    *)
Remaining(b) == copy[b].remaining

NoPointerReset(b) ==
    /\ Usable(b)
    /\ undefined' = Misuse(b)
    /\ copy' = [copy EXCEPT ![b].state = "finished"]
    /\ UNCHANGED <<connVars, bobj, p, result>>

NoLibraryFinish(b) ==
    /\ Usable(b)
    /\ undefined' = Misuse(b)
    /\ p' = [p EXCEPT ![b] = "NULL"]
    /\ UNCHANGED <<connVars, bobj, copy, result>>

(* Backup#finish: the last backup that read from a zombie closes it.       *)
Finish(b) ==
    /\ Usable(b)
    /\ undefined' = Misuse(b)
    /\ p' = [p EXCEPT ![b] = "NULL"]
    /\ copy' = [copy EXCEPT ![b].state = "finished"]
    /\ handle' = LET s == copy[b].src
                 IN  IF handle[s] = "zombie" /\ ReadFrom(s) = {b}
                     THEN [handle EXCEPT ![s] = "freed"] ELSE handle
    /\ UNCHANGED <<obj, ptr, own, readonly, bobj, result>>

DropBackup(b) ==
    /\ Sane
    /\ bobj[b] = "live"
    /\ bobj' = [bobj EXCEPT ![b] = "garbage"]
    /\ UNCHANGED <<connVars, p, copy, result, undefined>>

(* RUBY_TYPED_DEFAULT_FREE frees the struct; an unfinished sqlite3_backup  *)
(* is lost with it.                                                        *)
DeallocateBackup(b) ==
    /\ Sane
    /\ bobj[b] = "garbage"
    /\ bobj' = [bobj EXCEPT ![b] = "freed"]
    /\ p' = [p EXCEPT ![b] = "NULL"]
    /\ UNCHANGED <<connVars, copy, result, undefined>>

-----------------------------------------------------------------------------
DatabaseStep(c) ==
    \/ \E mode \in BOOLEAN : Open(c, mode)
    \/ Close(c) \/ DropDatabase(c) \/ Deallocate(c) \/ SourceChanges(c)

BackupStep(b) ==
    \/ \E d, s \in Conn : Initialize(b, d, s) \/ InitializeRaises(b, d, s)
    \/ \E n \in {-1, 0, 1} : Step(b, n)
    \/ Finish(b) \/ DropBackup(b) \/ DeallocateBackup(b)

Next ==
    \/ \E c \in Conn : DatabaseStep(c)
    \/ \E b \in Backups : BackupStep(b)
    \/ \E hooked \in BOOLEAN : Fork(hooked)

Spec == Init /\ [][Next]_vars

-----------------------------------------------------------------------------
Copy == [state : {"none", "live", "finished"},
         src : Conn \cup {"none"}, dst : Conn \cup {"none"},
         left : 0..Pages, remaining : 0..Pages, rc : {"OK", "DONE", "ERROR"}]

TypeOK ==
    /\ obj \in [Conn -> ObjState]
    /\ ptr \in [Conn -> {"NULL", "db"}]
    /\ handle \in [Conn -> HandleState]
    /\ own \in [Conn -> BOOLEAN]
    /\ readonly \in [Conn -> BOOLEAN]
    /\ bobj \in [Backups -> ObjState]
    /\ p \in [Backups -> {"NULL", "backup"}]
    /\ copy \in [Backups -> Copy]
    /\ result \in [Backups -> Status]
    /\ undefined \subseteq {"freed", "discarded"}

(* Whatever the order in which Databases are closed, dropped and collected,*)
(* before a fork or after it, the connection that an open Backup reads     *)
(* from is there, although the Backup keeps no reference to its Database   *)
(* (close_or_discard_db calls sqlite3_close_v2).                           *)
SourceOutlivesBackup ==
    \A b \in Backups :
        p[b] # "NULL" => handle[copy[b].src] \in {"open", "zombie", "abandoned"}

(* ctx->p is set exactly while the sqlite3_backup of a reachable Backup    *)
(* is there: no step or finish of a finished one (Backup#finish).          *)
PointerIsExact ==
    \A b \in Backups :
        bobj[b] = "live" => (p[b] # "NULL" <=> copy[b].state = "live")

(* A closed Database is released once the Backups that read from it have   *)
(* been finished, in whatever order that was done (Backup#finish).         *)
ClosedIsReleased ==
    \A c \in Conn :
        /\ obj[c] # "none" /\ ptr[c] = "NULL"
        /\ \A b \in Backups : copy[b].src = c => p[b] = "NULL" /\ bobj[b] # "freed"
        => handle[c] \in {"freed", "abandoned"}

(* In a child, an open writable connection that it inherited is never      *)
(* closed, only abandoned, and what is abandoned stays so: neither close   *)
(* nor the collector nor the end of a Backup tears it down.  And nothing   *)
(* else is abandoned: what the process opened itself and what is readonly  *)
(* is closed like any other (close_or_discard_db, ForkSafety.discard).     *)
ForeignIsAbandoned ==
    [][\A c \in Conn :
          /\ ~own[c] /\ ~readonly[c] /\ handle[c] \in {"open", "abandoned"}
                => handle'[c] \in {handle[c], "abandoned"}
          /\ handle'[c] = "abandoned" => ~own'[c] /\ ~readonly'[c]]_vars

(* The comment of Backup#remaining, "Returns the number of pages still to  *)
(* be backed up", after a step: a loop until it is 0 copies everything.    *)
NoneRemainingIsDone ==
    \A b \in Backups :
        copy[b].state = "live" /\ result[b] # "none" /\ Remaining(b) = 0
            => copy[b].left = 0

(* The comment of Database#close, "Close the database and release all      *)
(* associated resources", where no Backup object is left that uses it.     *)
CloseReleasesAll ==
    \A c \in Conn :
        handle[c] = "zombie" => \E b \in ReadFrom(c) : bobj[b] # "freed"

(* No call of a Backup makes the library use a connection that is freed.   *)
NoUseOfFreed == "freed" \notin undefined

(* No call of a Backup makes the library use a connection that was         *)
(* discarded: what REQUIRE_LIVE_DB does for statements.                    *)
NoUseOfDiscarded == "discarded" \notin undefined
=============================================================================
