---------------------------- MODULE BackupProofs ----------------------------
(* Machine-checked proofs about Backup, for any sets of Databases and      *)
(* Backups and any number of pages.                                        *)
EXTENDS Backup, TLAPS

(* The pointer of a Database is set exactly while its connection is open;  *)
(* only what another process opened for writing is abandoned.              *)
DatabaseInv ==
    \A c \in Conn :
        /\ obj[c] = "none" => ptr[c] = "NULL" /\ handle[c] = "none"
        /\ ptr[c] # "NULL" => handle[c] = "open"
        /\ obj[c] # "none" /\ ptr[c] = "NULL"
              => handle[c] \in {"zombie", "freed", "abandoned"}
        /\ handle[c] = "abandoned" => ~own[c] /\ ~readonly[c]

(* The pointer of a Backup is set exactly while there is a sqlite3_backup, *)
(* until the collector takes the struct away from it; and a sqlite3_backup *)
(* that is there, lost or not, has its source.                             *)
CopyInv ==
    \A b \in Backups :
        /\ bobj[b] = "none" => copy[b].state = "none"
        /\ bobj[b] # "freed" => (p[b] # "NULL" <=> copy[b].state = "live")
        /\ bobj[b] = "freed" => p[b] = "NULL"
        /\ copy[b].state = "live" =>
              /\ copy[b].src \in Conn
              /\ handle[copy[b].src] \in {"open", "zombie", "abandoned"}

(* A zombie lingers only for the sqlite3_backups that read from it.        *)
ZombieInv == \A c \in Conn : handle[c] = "zombie" => ReadFrom(c) # {}

BackupInv ==
    /\ TypeOK
    /\ DatabaseInv
    /\ CopyInv
    /\ ZombieInv

-----------------------------------------------------------------------------
(* At first there are no databases and no Backups.                         *)
LEMMA InitInv == Init => BackupInv
<1> SUFFICES ASSUME Init PROVE BackupInv
  OBVIOUS
<1> USE PagesAssumption DEF Init, NoCopy
<1>1. TypeOK
  BY DEF TypeOK, ObjState, HandleState, Status, Copy
<1>2. DatabaseInv /\ CopyInv /\ ZombieInv
  BY DEF DatabaseInv, CopyInv, ZombieInv
<1> QED
  BY <1>1, <1>2 DEF BackupInv

(* A new connection is read by nobody.                                     *)
LEMMA OpenKeeps ==
    ASSUME BackupInv, NEW c \in Conn, NEW mode \in BOOLEAN,
           Open(c, mode)
    PROVE  BackupInv'
<1> USE DEF BackupInv, Open
<1>1. TypeOK'
  BY DEF TypeOK, ObjState, HandleState
<1>2. DatabaseInv'
  BY DEF DatabaseInv, TypeOK
<1>3. CopyInv'
  BY DEF CopyInv
<1>4. ZombieInv'
  BY DEF ZombieInv, ReadFrom
<1> QED
  BY <1>1, <1>2, <1>3, <1>4

(* A close leaves a zombie exactly where somebody reads.                   *)
LEMMA CloseKeeps ==
    ASSUME BackupInv, NEW c \in Conn,
           Close(c)
    PROVE  BackupInv'
<1> USE DEF BackupInv, Close, CloseOrDiscard, MayCloseOrdinarily, AfterCloseV2, ReadFrom
<1>1. TypeOK'
  BY DEF TypeOK, HandleState
<1>2. DatabaseInv'
  BY DEF DatabaseInv, TypeOK
<1>3. CopyInv'
  BY DEF CopyInv, TypeOK
<1>4. ZombieInv'
  BY DEF ZombieInv, TypeOK
<1> QED
  BY <1>1, <1>2, <1>3, <1>4

(* A Database becomes garbage.                                             *)
LEMMA DropDatabaseKeeps ==
    ASSUME BackupInv, NEW c \in Conn,
           DropDatabase(c)
    PROVE  BackupInv'
<1> USE DEF BackupInv, DropDatabase
<1>1. TypeOK'
  BY DEF TypeOK, ObjState
<1>2. DatabaseInv'
  BY DEF DatabaseInv
<1>3. CopyInv'
  BY DEF CopyInv
<1>4. ZombieInv'
  BY DEF ZombieInv, ReadFrom
<1> QED
  BY <1>1, <1>2, <1>3, <1>4

(* The collector closes as close does.                                     *)
LEMMA DeallocateKeeps ==
    ASSUME BackupInv, NEW c \in Conn,
           Deallocate(c)
    PROVE  BackupInv'
<1> USE DEF BackupInv, Deallocate, CloseOrDiscard, MayCloseOrdinarily, AfterCloseV2, ReadFrom
<1>1. TypeOK'
  BY DEF TypeOK, ObjState, HandleState
<1>2. DatabaseInv'
  BY DEF DatabaseInv, TypeOK
<1>3. CopyInv'
  BY DEF CopyInv, TypeOK
<1>4. ZombieInv'
  BY DEF ZombieInv, TypeOK
<1> QED
  BY <1>1, <1>2, <1>3, <1>4

(* Pages are to be copied again.                                           *)
LEMMA SourceChangesKeeps ==
    ASSUME BackupInv, NEW c \in Conn,
           SourceChanges(c)
    PROVE  BackupInv'
<1> USE PagesAssumption DEF BackupInv, connVars, SourceChanges, ReadFrom
<1>1. TypeOK'
  <2>1. ASSUME NEW b \in Backups
        PROVE  [copy[b] EXCEPT !.left = Pages] \in Copy
    <3>1. copy[b] \in Copy /\ Pages \in 0..Pages
      BY DEF TypeOK
    <3> QED
      BY ONLY <3>1 DEF Copy
  <2> QED
    BY <2>1 DEF TypeOK
<1>2. DatabaseInv'
  BY DEF DatabaseInv
<1>3. CopyInv'
  BY DEF CopyInv
<1>4. ZombieInv'
  BY DEF ZombieInv
<1> QED
  BY <1>1, <1>2, <1>3, <1>4

(* What the hook discards is neither freed nor a zombie.                   *)
LEMMA ForkKeeps ==
    ASSUME BackupInv, NEW hooked \in BOOLEAN,
           Fork(hooked)
    PROVE  BackupInv'
<1> USE DEF BackupInv, Fork, OpenForWriting
<1>1. TypeOK'
  BY DEF TypeOK, HandleState
<1>2. DatabaseInv'
  BY DEF DatabaseInv
<1>3. CopyInv'
  BY DEF CopyInv
<1>4. ZombieInv'
  BY DEF ZombieInv, ReadFrom
<1> QED
  BY <1>1, <1>2, <1>3, <1>4

(* A Backup that could not be made has no sqlite3_backup.                  *)
LEMMA InitializeRaisesKeeps ==
    ASSUME BackupInv, NEW b \in Backups, NEW d \in Conn, NEW s \in Conn,
           InitializeRaises(b, d, s)
    PROVE  BackupInv'
<1> USE DEF BackupInv, connVars, InitializeRaises
<1>1. TypeOK'
  BY DEF TypeOK, ObjState
<1>2. DatabaseInv'
  BY DEF DatabaseInv
<1>3. CopyInv'
  BY DEF CopyInv
<1>4. ZombieInv'
  BY DEF ZombieInv, ReadFrom
<1> QED
  BY <1>1, <1>2, <1>3, <1>4

(* A Backup begins on open connections.                                    *)
LEMMA InitializeKeeps ==
    ASSUME BackupInv, NEW b \in Backups, NEW d \in Conn, NEW s \in Conn,
           Initialize(b, d, s)
    PROVE  BackupInv'
<1> USE PagesAssumption DEF BackupInv, connVars, Initialize
<1>1. TypeOK'
  <2>1. copy' \in [Backups -> Copy]
    BY DEF TypeOK, Copy
  <2> QED
    BY <2>1 DEF TypeOK
<1>2. DatabaseInv'
  BY DEF DatabaseInv
<1>3. CopyInv'
  BY DEF CopyInv, DatabaseInv, TypeOK
<1>4. ZombieInv'
  <2>1. copy[b].state = "none"
    BY DEF CopyInv
  <2>2. \A c \in Conn : ReadFrom(c) \subseteq ReadFrom(c)'
    BY <2>1 DEF ReadFrom
  <2> QED
    BY <2>2 DEF ZombieInv
<1> QED
  BY <1>1, <1>2, <1>3, <1>4

(* A step changes how far a copy has come, and not what it copies.         *)
SameSources ==
    \A e \in Backups : /\ copy'[e].state = copy[e].state
                       /\ copy'[e].src = copy[e].src
                       /\ copy'[e].dst = copy[e].dst

(* A step that writes the progress into one copy is such a step.           *)
LEMMA CopyUpdate ==
    ASSUME TypeOK, NEW b \in Backups, NEW left \in 0..Pages,
           NEW rc \in {"OK", "DONE", "ERROR"},
           copy' = [copy EXCEPT ![b] = [@ EXCEPT !.left = left,
                                          !.remaining = left, !.rc = rc]]
    PROVE  copy' \in [Backups -> Copy] /\ SameSources
<1> DEFINE old == copy[b]
           new == [old EXCEPT !.left = left, !.remaining = left, !.rc = rc]
<1>1. old \in Copy
  BY DEF TypeOK
<1>2. /\ new \in Copy
      /\ new.state = old.state
      /\ new.src = old.src /\ new.dst = old.dst
  BY <1>1 DEF Copy
<1> QED
  BY <1>2 DEF TypeOK, SameSources

(* Backup#step, whatever the library answers.                              *)
LEMMA StepCopies ==
    ASSUME TypeOK, NEW b \in Backups, NEW n \in {-1, 0, 1}, Step(b, n)
    PROVE  copy' \in [Backups -> Copy] /\ SameSources
<1> DEFINE left == Copied(b, n)
           rc == IF left = 0 THEN "DONE" ELSE "OK"
<1>1. left \in 0..Pages
  <2>1. copy[b].left \in 0..Pages /\ n \in Int
    BY DEF TypeOK, Copy
  <2> QED
    BY <2>1, PagesAssumption DEF Copied
<1>2. CASE copy' = [copy EXCEPT ![b] = [@ EXCEPT !.left = left,
                                          !.remaining = left, !.rc = rc]]
  <2> HIDE DEF left
  <2>1. rc \in {"OK", "DONE", "ERROR"}
    OBVIOUS
  <2> HIDE DEF rc
  <2> QED
    BY <1>1, <1>2, <2>1, CopyUpdate
<1>3. CASE UNCHANGED copy
  BY <1>3 DEF TypeOK, SameSources
<1>4. CASE copy' = [copy EXCEPT ![b].rc = "ERROR"]
  <2> DEFINE new == [copy[b] EXCEPT !.rc = "ERROR"]
  <2>1. copy[b] \in Copy
    BY DEF TypeOK
  <2>2. /\ new \in Copy
        /\ new.state = copy[b].state
        /\ new.src = copy[b].src /\ new.dst = copy[b].dst
    BY <2>1 DEF Copy
  <2>3. copy' = [copy EXCEPT ![b] = new]
    BY <1>4
  <2> HIDE DEF new
  <2> QED
    BY <2>2, <2>3 DEF TypeOK, SameSources
<1> QED
  BY <1>2, <1>3, <1>4 DEF Step

(* A step copies pages and touches no connection.                          *)
LEMMA StepKeeps ==
    ASSUME BackupInv, NEW b \in Backups, NEW n \in {-1, 0, 1},
           Step(b, n)
    PROVE  BackupInv'
<1>0. copy' \in [Backups -> Copy] /\ SameSources
  BY StepCopies DEF BackupInv
<1> USE DEF BackupInv, connVars, Step, Misuse
<1>1. TypeOK'
  <2>1. copy' \in [Backups -> Copy]
    BY <1>0
  <2>3. result' \in [Backups -> Status]
    <3>1. copy[b].rc \in Status
      BY DEF TypeOK, Status, Copy
    <3>2. \E r \in Status : result' = [result EXCEPT ![b] = r]
      BY <3>1 DEF Status
    <3> QED
      BY <3>2 DEF TypeOK
  <2> QED
    BY <2>1, <2>3 DEF TypeOK
<1>2. DatabaseInv'
  BY DEF DatabaseInv
<1>3. CopyInv'
  BY <1>0 DEF CopyInv, SameSources
<1>4. ZombieInv'
  <2>1. \A c \in Conn : ReadFrom(c)' = ReadFrom(c)
    BY <1>0 DEF ReadFrom, SameSources
  <2> QED
    BY <2>1 DEF ZombieInv
<1> QED
  BY <1>1, <1>2, <1>3, <1>4

(* The last reader of a zombie frees it.                                   *)
LEMMA FinishKeeps ==
    ASSUME BackupInv, NEW b \in Backups,
           Finish(b)
    PROVE  BackupInv'
<1> USE PagesAssumption DEF BackupInv, connVars, Finish, Usable, Misuse
<1>1. TypeOK'
  <2>2. copy' \in [Backups -> Copy]
    BY DEF TypeOK, Copy
  <2>3. handle' \in [Conn -> HandleState]
    BY DEF TypeOK, HandleState
  <2> QED
    BY <2>2, <2>3 DEF TypeOK
<1>2. DatabaseInv'
  BY DEF DatabaseInv
<1>3. CopyInv'
  <2>2. copy'[b].state = "finished" /\ p'[b] = "NULL"
    BY DEF TypeOK
  <2>4. ASSUME NEW e \in Backups \ {b}, copy[e].state = "live"
        PROVE  handle'[copy[e].src] \in {"open", "zombie", "abandoned"}
    <3>1. e \in ReadFrom(copy[e].src)
      BY <2>4 DEF ReadFrom
    <3>2. handle'[copy[e].src] = handle[copy[e].src]
      BY <3>1
    <3> QED
      BY <2>4, <3>2 DEF CopyInv
  <2> QED
    BY <2>2, <2>4 DEF CopyInv
<1>4. ZombieInv'
  BY DEF ZombieInv, ReadFrom, TypeOK
<1> QED
  BY <1>1, <1>2, <1>3, <1>4

(* A Backup becomes garbage.                                               *)
LEMMA DropBackupKeeps ==
    ASSUME BackupInv, NEW b \in Backups,
           DropBackup(b)
    PROVE  BackupInv'
<1> USE DEF BackupInv, connVars, DropBackup
<1>1. TypeOK'
  BY DEF TypeOK, ObjState
<1>2. DatabaseInv'
  BY DEF DatabaseInv
<1>3. CopyInv'
  BY DEF CopyInv
<1>4. ZombieInv'
  BY DEF ZombieInv, ReadFrom
<1> QED
  BY <1>1, <1>2, <1>3, <1>4

(* The struct goes, the sqlite3_backup stays.                              *)
LEMMA DeallocateBackupKeeps ==
    ASSUME BackupInv, NEW b \in Backups,
           DeallocateBackup(b)
    PROVE  BackupInv'
<1> USE DEF BackupInv, connVars, DeallocateBackup
<1>1. TypeOK'
  BY DEF TypeOK, ObjState
<1>2. DatabaseInv'
  BY DEF DatabaseInv
<1>3. CopyInv'
  BY DEF CopyInv, TypeOK
<1>4. ZombieInv'
  BY DEF ZombieInv, ReadFrom
<1> QED
  BY <1>1, <1>2, <1>3, <1>4

-----------------------------------------------------------------------------
(* Every step of the program, of the collector or of a fork.               *)
LEMMA StepInv == BackupInv /\ [Next]_vars => BackupInv'
<1> SUFFICES ASSUME BackupInv, [Next]_vars
             PROVE  BackupInv'
  OBVIOUS
<1>1. CASE \E c \in Conn : DatabaseStep(c)
  BY <1>1, OpenKeeps, CloseKeeps, DropDatabaseKeeps, DeallocateKeeps,
     SourceChangesKeeps DEF DatabaseStep
<1>2. CASE \E b \in Backups : BackupStep(b)
  BY <1>2, InitializeKeeps, InitializeRaisesKeeps, StepKeeps, FinishKeeps,
     DropBackupKeeps, DeallocateBackupKeeps DEF BackupStep
<1>3. CASE \E hooked \in BOOLEAN : Fork(hooked)
  BY <1>3, ForkKeeps
<1>4. CASE UNCHANGED vars
  BY <1>4
     DEF vars, connVars, BackupInv, TypeOK, DatabaseInv, CopyInv, ZombieInv,
         ReadFrom
<1> QED
  BY <1>1, <1>2, <1>3, <1>4 DEF Next

(* Databases and Backups may be closed, finished, dropped and collected in *)
(* any order, and the process may fork: pointers, connections and copies   *)
(* keep agreeing.                                                          *)
THEOREM BackupInvariance == Spec => []BackupInv
<1> QED
  BY InitInv, StepInv, PTL DEF Spec

(* The source of a Backup that is not finished has not been freed, though  *)
(* the Backup keeps no reference to it: sqlite3_close_v2 sees to that.     *)
THEOREM SourceOutlivesBackup_Holds == Spec => []SourceOutlivesBackup
<1>1. BackupInv => SourceOutlivesBackup
  BY DEF BackupInv, CopyInv, SourceOutlivesBackup
<1> QED
  BY <1>1, BackupInvariance, PTL

(* Backup#finish and REQUIRE_OPEN_BACKUP: no call reaches the library for  *)
(* a sqlite3_backup that is no more.                                       *)
THEOREM PointerIsExact_Holds == Spec => []PointerIsExact
<1>1. BackupInv => PointerIsExact
  BY DEF BackupInv, CopyInv, PointerIsExact
<1> QED
  BY <1>1, BackupInvariance, PTL

(* A closed Database is released by the last finish of the Backups that    *)
(* read from it, or at once if there is none.                              *)
THEOREM ClosedIsReleased_Holds == Spec => []ClosedIsReleased
<1>1. BackupInv => ClosedIsReleased
  <2> SUFFICES ASSUME BackupInv, NEW c \in Conn,
                      obj[c] # "none", ptr[c] = "NULL",
                      \A b \in Backups :
                         copy[b].src = c => p[b] = "NULL" /\ bobj[b] # "freed"
               PROVE  handle[c] \in {"freed", "abandoned"}
    BY DEF ClosedIsReleased
  <2>1. ReadFrom(c) = {}
    BY DEF ReadFrom, BackupInv, CopyInv
  <2>2. handle[c] # "zombie"
    BY <2>1 DEF BackupInv, ZombieInv
  <2> QED
    BY <2>2 DEF BackupInv, DatabaseInv
<1> QED
  BY <1>1, BackupInvariance, PTL

(* What may happen to a connection in a step: it is opened, closed by a    *)
(* process that may, abandoned by one that may not, or freed as a zombie.  *)
LEMMA HandleSteps ==
    ASSUME BackupInv, Next, NEW c \in Conn
    PROVE  \/ handle'[c] = handle[c]
           \/ handle[c] = "none" /\ handle'[c] = "open"
           \/ handle[c] = "zombie" /\ handle'[c] = "freed"
           \/ /\ ptr[c] # "NULL" /\ ptr'[c] = "NULL"
              /\ readonly'[c] = readonly[c] /\ (own'[c] => own[c])
              /\ handle'[c] \in IF readonly[c] \/ own'[c] THEN {"freed", "zombie"}
                                ELSE {"abandoned"}
<1> USE DEF BackupInv, DatabaseInv, TypeOK
<1>1. CASE \E d \in Conn : DatabaseStep(d)
  <2>1. ASSUME NEW d \in Conn, CloseOrDiscard(d), own' = own,
               readonly' = readonly, handle'[c] # handle[c]
        PROVE  /\ ptr[c] # "NULL" /\ ptr'[c] = "NULL"
               /\ readonly'[c] = readonly[c] /\ (own'[c] => own[c])
               /\ handle'[c] \in IF readonly[c] \/ own'[c] THEN {"freed", "zombie"}
                                 ELSE {"abandoned"}
    BY <2>1 DEF CloseOrDiscard, MayCloseOrdinarily, AfterCloseV2
  <2>2. ASSUME NEW d \in Conn, NEW mode \in BOOLEAN, Open(d, mode)
        PROVE  \/ handle'[c] = handle[c]
               \/ handle[c] = "none" /\ handle'[c] = "open"
    BY <2>2 DEF Open
  <2> QED
    BY <1>1, <2>1, <2>2
       DEF DatabaseStep, Close, DropDatabase, Deallocate, SourceChanges,
           connVars
<1>2. CASE \E b \in Backups : BackupStep(b)
  BY <1>2
     DEF BackupStep, Initialize, InitializeRaises, Step, Finish, DropBackup,
         DeallocateBackup, connVars
<1>3. CASE \E hooked \in BOOLEAN : Fork(hooked)
  BY <1>3 DEF Fork, OpenForWriting
<1> QED
  BY <1>1, <1>2, <1>3 DEF Next

(* In a child nothing closes an inherited connection open for writing, what*)
(* was abandoned stays abandoned, and nothing else ever is                 *)
(* (close_or_discard_db, ForkSafety.discard, Backup#finish).               *)
THEOREM ForeignIsAbandoned_Holds == Spec => ForeignIsAbandoned
<1> DEFINE Kept == \A c \in Conn :
              /\ ~own[c] /\ ~readonly[c] /\ handle[c] \in {"open", "abandoned"}
                    => handle'[c] \in {handle[c], "abandoned"}
              /\ handle'[c] = "abandoned" => ~own'[c] /\ ~readonly'[c]
<1>1. BackupInv /\ [Next]_vars => [Kept]_vars
  <2> SUFFICES ASSUME BackupInv, Next, NEW c \in Conn
               PROVE  /\ ~own[c] /\ ~readonly[c] /\ handle[c] \in {"open", "abandoned"}
                            => handle'[c] \in {handle[c], "abandoned"}
                      /\ handle'[c] = "abandoned" => ~own'[c] /\ ~readonly'[c]
    OBVIOUS
  <2>1. handle'[c] = "abandoned" => ~own'[c] /\ ~readonly'[c]
    BY StepInv DEF BackupInv, DatabaseInv
  <2>2. ~own[c] /\ ~readonly[c] /\ handle[c] \in {"open", "abandoned"}
            => handle'[c] \in {handle[c], "abandoned"}
    BY HandleSteps DEF BackupInv, DatabaseInv, TypeOK
  <2> QED
    BY <2>1, <2>2
<1> QED
  BY <1>1, BackupInvariance, PTL DEF Spec, ForeignIsAbandoned

-----------------------------------------------------------------------------
(* Under which use of a Backup the code keeps what its comments say.       *)

(* Only the constructor makes a sqlite3_backup.                            *)
LEMMA OnlyInitializeBegins ==
    ASSUME BackupInv, Next, NEW b \in Backups,
           copy[b].state # "live", copy'[b].state = "live"
    PROVE  \E d, s \in Conn : Initialize(b, d, s)
<1>1. copy \in [Backups -> Copy] /\ copy' # copy
  BY DEF BackupInv, TypeOK
<1>2. ASSUME NEW c \in Conn
      PROVE  ~DatabaseStep(c)
  BY <1>1
     DEF DatabaseStep, Open, Close, DropDatabase, Deallocate, SourceChanges, Copy
<1>3. ASSUME NEW e \in Backups, NEW n \in {-1, 0, 1}, Step(e, n)
      PROVE  FALSE
  BY <1>3, StepCopies DEF BackupInv, SameSources
<1>4. ASSUME NEW e \in Backups, Finish(e)
      PROVE  FALSE
  BY <1>1, <1>4 DEF Finish, Copy
<1>5. ASSUME NEW e \in Backups, NEW d \in Conn, NEW s \in Conn,
             Initialize(e, d, s)
      PROVE  e = b
  BY <1>1, <1>5 DEF Initialize
<1>6. ASSUME NEW e \in Backups, BackupStep(e)
      PROVE  \E d, s \in Conn : Initialize(b, d, s)
  BY <1>1, <1>3, <1>4, <1>5, <1>6
     DEF BackupStep, InitializeRaises, DropBackup, DeallocateBackup
<1>7. ~(\E hooked \in BOOLEAN : Fork(hooked))
  BY <1>1 DEF Fork
<1> QED
  BY <1>2, <1>6, <1>7 DEF Next

(* Nobody loses a Backup that it has not finished.                         *)
FinishesFirst ==
    [][\A b \in Backups : p[b] # "NULL" => bobj'[b] # "freed"]_vars

(* The collector has taken the struct of finished Backups only.            *)
LostInv ==
    \A b \in Backups : copy[b].state = "live" => bobj[b] # "freed"

(* Database#close releases all resources (its comment in database.c) of a  *)
(* program that finishes every Backup before it is collected: nothing but  *)
(* a reachable Backup holds a closed connection.                           *)
THEOREM CloseReleasesAllIfFinished ==
    Spec /\ FinishesFirst => []CloseReleasesAll
<1> DEFINE Finishes == \A b \in Backups : p[b] # "NULL" => bobj'[b] # "freed"
<1>1. Init => LostInv
  BY DEF Init, NoCopy, LostInv
<1>2. BackupInv /\ LostInv /\ [Next]_vars /\ [Finishes]_vars => LostInv'
  <2> SUFFICES ASSUME BackupInv, LostInv, Next, Finishes,
                      NEW b \in Backups, copy'[b].state = "live"
               PROVE  bobj'[b] # "freed"
    BY DEF LostInv, vars
  <2>1. CASE copy[b].state = "live"
    BY <2>1 DEF LostInv, BackupInv, CopyInv
  <2>2. CASE copy[b].state # "live"
    <3>1. \E d, s \in Conn : Initialize(b, d, s)
      BY <2>2, OnlyInitializeBegins
    <3> QED
      BY <3>1 DEF Initialize, BackupInv, TypeOK
  <2> QED
    BY <2>1, <2>2
<1>3. BackupInv /\ LostInv => CloseReleasesAll
  BY DEF BackupInv, ZombieInv, LostInv, CloseReleasesAll, ReadFrom
<1> QED
  BY <1>1, <1>2, <1>3, BackupInvariance, PTL DEF Spec, FinishesFirst

(* A Backup works on the same two connections from its constructor on, and *)
(* these are open then.                                                    *)
LEMMA BackupSteps ==
    ASSUME BackupInv, Next, NEW b \in Backups, p'[b] # "NULL"
    PROVE  \/ /\ p[b] # "NULL"
              /\ copy'[b].src = copy[b].src
              /\ copy'[b].dst = copy[b].dst
           \/ /\ {copy'[b].src, copy'[b].dst} \subseteq Conn
              /\ \A c \in {copy'[b].src, copy'[b].dst} : handle'[c] = "open"
<1> USE DEF BackupInv, DatabaseInv, TypeOK
<1>1. CASE \E c \in Conn : DatabaseStep(c)
  <2>1. ASSUME NEW c \in Conn, SourceChanges(c)
        PROVE  copy'[b].src = copy[b].src /\ copy'[b].dst = copy[b].dst
    BY <2>1 DEF SourceChanges, Copy
  <2> QED
    BY <1>1, <2>1
       DEF DatabaseStep, Open, Close, DropDatabase, Deallocate, SourceChanges
<1>2. ASSUME NEW e \in Backups, NEW n \in {-1, 0, 1}, Step(e, n)
      PROVE  /\ p[b] # "NULL"
             /\ copy'[b].src = copy[b].src /\ copy'[b].dst = copy[b].dst
  BY <1>2, StepCopies DEF Step, SameSources
<1>3. ASSUME NEW e \in Backups, Finish(e)
      PROVE  /\ p[b] # "NULL"
             /\ copy'[b].src = copy[b].src /\ copy'[b].dst = copy[b].dst
  BY <1>3 DEF Finish, Copy
<1>4. CASE \E e \in Backups : BackupStep(e)
  BY <1>4, <1>2, <1>3
     DEF BackupStep, Initialize, InitializeRaises, DropBackup,
         DeallocateBackup, connVars
<1>5. CASE \E hooked \in BOOLEAN : Fork(hooked)
  BY <1>5 DEF Fork
<1> QED
  BY <1>1, <1>4, <1>5 DEF Next

(* No process closes a database of its own, or a readonly one, while a     *)
(* Backup writes to it.                                                    *)
ClosesNoDestination ==
    [][\A b \in Backups :
          /\ p[b] # "NULL" /\ ptr[copy[b].dst] # "NULL"
          /\ readonly[copy[b].dst] \/ own'[copy[b].dst]
              => ptr'[copy[b].dst] # "NULL"]_vars

DestinationInv ==
    /\ \A b \in Backups :
          p[b] # "NULL" => /\ copy[b].dst \in Conn
                           /\ handle[copy[b].dst] \in {"open", "abandoned"}
    /\ NoUseOfFreed

(* The library counts the Backups that read from a connection, so that the *)
(* source may be closed at any time; if the destination is not, no call of *)
(* a Backup makes the library use a freed connection.                      *)
THEOREM NoUseOfFreedIfDestinationStays ==
    Spec /\ ClosesNoDestination => []NoUseOfFreed
<1> DEFINE Stays == \A b \in Backups :
                       /\ p[b] # "NULL" /\ ptr[copy[b].dst] # "NULL"
                       /\ readonly[copy[b].dst] \/ own'[copy[b].dst]
                           => ptr'[copy[b].dst] # "NULL"
<1>1. Init => DestinationInv
  BY DEF Init, DestinationInv, NoUseOfFreed
<1>2. BackupInv /\ DestinationInv /\ [Next]_vars /\ [Stays]_vars
        => DestinationInv'
  <2> SUFFICES ASSUME BackupInv, DestinationInv, Next, Stays
               PROVE  DestinationInv'
    BY DEF DestinationInv, NoUseOfFreed, vars, connVars
  <2>1. ASSUME NEW b \in Backups, p'[b] # "NULL"
        PROVE  /\ copy'[b].dst \in Conn
               /\ handle'[copy'[b].dst] \in {"open", "abandoned"}
    BY <2>1, BackupSteps, HandleSteps DEF DestinationInv
  <2>2. ASSUME NEW b \in Backups, Usable(b)
        PROVE  "freed" \notin Misuse(b)
    BY <2>2 DEF Usable, Misuse, DestinationInv, BackupInv, CopyInv
  <2>3. "freed" \notin undefined'
    BY <2>2
       DEF DestinationInv, NoUseOfFreed, Next, DatabaseStep, BackupStep, Open,
           Close, DropDatabase, Deallocate, SourceChanges, Fork, Initialize,
           InitializeRaises, Step, Finish, DropBackup, DeallocateBackup
  <2> QED
    BY <2>1, <2>3 DEF DestinationInv, NoUseOfFreed
<1>3. DestinationInv => NoUseOfFreed
  BY DEF DestinationInv
<1> QED
  BY <1>1, <1>2, <1>3, BackupInvariance, PTL DEF Spec, ClosesNoDestination

(* In a child, nothing that a Backup has in hand is discarded: the hook    *)
(* finds no Backup unfinished but between readonly connections.            *)
DiscardsNoneInUse ==
    [][\A b \in Backups : \A c \in {copy[b].src, copy[b].dst} :
          p[b] # "NULL" /\ ~own'[c] /\ ~readonly[c] /\ ptr[c] # "NULL"
              => ptr'[c] # "NULL"]_vars

PresentInv ==
    /\ \A b \in Backups : \A c \in {copy[b].src, copy[b].dst} :
          p[b] # "NULL" => c \in Conn /\ handle[c] # "abandoned"
    /\ NoUseOfDiscarded

(* Backup has no check like REQUIRE_LIVE_DB; a program whose Backups are   *)
(* finished before it forks needs none.                                    *)
THEOREM NoUseOfDiscardedIfFinished ==
    Spec /\ DiscardsNoneInUse => []NoUseOfDiscarded
<1> DEFINE Stays == \A b \in Backups : \A c \in {copy[b].src, copy[b].dst} :
                       p[b] # "NULL" /\ ~own'[c] /\ ~readonly[c] /\ ptr[c] # "NULL"
                           => ptr'[c] # "NULL"
<1>1. Init => PresentInv
  BY DEF Init, PresentInv, NoUseOfDiscarded
<1>2. BackupInv /\ PresentInv /\ [Next]_vars /\ [Stays]_vars => PresentInv'
  <2> SUFFICES ASSUME BackupInv, PresentInv, Next, Stays
               PROVE  PresentInv'
    BY DEF PresentInv, NoUseOfDiscarded, vars, connVars
  <2>1. ASSUME NEW b \in Backups, p'[b] # "NULL",
               NEW c \in {copy'[b].src, copy'[b].dst}
        PROVE  c \in Conn /\ handle'[c] # "abandoned"
    <3>1. CASE handle'[c] = "open" /\ c \in Conn
      BY <3>1
    <3>2. CASE p[b] # "NULL" /\ c \in {copy[b].src, copy[b].dst}
      <4>1. c \in Conn /\ handle[c] # "abandoned"
        BY <3>2 DEF PresentInv
      <4>2. own'[c] \in BOOLEAN /\ readonly[c] \in BOOLEAN
        BY <4>1, StepInv DEF BackupInv, TypeOK
      <4> QED
        BY <3>2, <4>1, <4>2, HandleSteps
    <3> QED
      BY <2>1, <3>1, <3>2, BackupSteps
  <2>2. ASSUME NEW b \in Backups, Usable(b)
        PROVE  "discarded" \notin Misuse(b)
    BY <2>2 DEF Usable, Misuse, PresentInv
  <2>3. "discarded" \notin undefined'
    BY <2>2
       DEF PresentInv, NoUseOfDiscarded, Next, DatabaseStep, BackupStep, Open,
           Close, DropDatabase, Deallocate, SourceChanges, Fork, Initialize,
           InitializeRaises, Step, Finish, DropBackup, DeallocateBackup
  <2> QED
    BY <2>1, <2>3 DEF PresentInv, NoUseOfDiscarded
<1>3. PresentInv => NoUseOfDiscarded
  BY DEF PresentInv
<1> QED
  BY <1>1, <1>2, <1>3, BackupInvariance, PTL DEF Spec, DiscardsNoneInUse

(* The first step on a Backup copies, or has nothing to copy.              *)
FirstStepCopies ==
    [][\A b \in Backups : result[b] = "none"
                             => result'[b] \in {"none", "OK", "DONE"}]_vars

RemainingInv ==
    \A b \in Backups :
        /\ bobj[b] = "none" => result[b] = "none"
        /\ copy[b].rc = "DONE" => copy[b].left = 0
        /\ copy[b].state = "live" /\ result[b] # "none" /\ copy[b].remaining = 0
              => copy[b].rc = "DONE"

(* The loop over Backup#remaining in its comment copies everything, if the *)
(* first step is not refused; what later ones answer, and what happens to  *)
(* the source meanwhile, does not matter.                                  *)
THEOREM NoneRemainingIsDoneAfterFirstStep ==
    Spec /\ FirstStepCopies => []NoneRemainingIsDone
<1> DEFINE Copies == \A b \in Backups : result[b] = "none"
                             => result'[b] \in {"none", "OK", "DONE"}
<1>1. Init => RemainingInv
  BY DEF Init, NoCopy, RemainingInv
<1>2. BackupInv /\ RemainingInv /\ [Next]_vars /\ [Copies]_vars
        => RemainingInv'
  <2> SUFFICES ASSUME BackupInv, RemainingInv, Next, Copies
               PROVE  RemainingInv'
    BY DEF RemainingInv, vars, connVars
  <2> USE DEF RemainingInv, BackupInv, TypeOK
  <2>1. CASE \E c \in Conn : SourceChanges(c)
    BY <2>1 DEF SourceChanges, Copy, connVars
  <2>2. CASE \E b \in Backups, n \in {-1, 0, 1} : Step(b, n)
    <3> PICK b \in Backups, n \in {-1, 0, 1} : Step(b, n)
      BY <2>2
    <3>1. copy[b] \in Copy /\ bobj' = bobj /\ bobj[b] = "live"
      BY DEF Step, Usable
    <3>2. ASSUME NEW left, NEW rc,
                 rc = IF left = 0 THEN "DONE" ELSE "OK",
                 copy' = [copy EXCEPT ![b] = [@ EXCEPT !.left = left,
                                                !.remaining = left, !.rc = rc]],
                 result' = [result EXCEPT ![b] = rc]
          PROVE  RemainingInv'
      BY <3>1, <3>2 DEF Copy
    <3>3. CASE /\ copy[b].rc = "OK" /\ UNCHANGED copy
               /\ result' = [result EXCEPT ![b] = "BUSY"]
      BY <3>1, <3>3 DEF Copy
    <3>4. CASE /\ copy[b].rc = "OK"
               /\ copy' = [copy EXCEPT ![b].rc = "ERROR"]
               /\ result' = [result EXCEPT ![b] = "ERROR"]
      <4>1. result[b] # "none"
        BY <3>4
      <4> QED
        BY <3>1, <3>4, <4>1 DEF Copy
    <3>5. CASE /\ copy[b].rc # "OK" /\ UNCHANGED copy
               /\ result' = [result EXCEPT ![b] = copy[b].rc]
      <4>1. result[b] = "none" => copy[b].rc = "DONE"
        BY <3>1, <3>5 DEF Copy
      <4> QED
        BY <3>1, <3>5, <4>1 DEF Copy
    <3> DEFINE left == Copied(b, n)
               rc == IF left = 0 THEN "DONE" ELSE "OK"
    <3>6. CASE /\ copy' = [copy EXCEPT ![b] = [@ EXCEPT !.left = left,
                                             !.remaining = left, !.rc = rc]]
               /\ result' = [result EXCEPT ![b] = rc]
      <4> HIDE DEF left
      <4> QED
        BY <3>2, <3>6
    <3> QED
      BY <3>3, <3>4, <3>5, <3>6 DEF Step
  <2>3. CASE \E b \in Backups : Finish(b)
    BY <2>3 DEF Finish, Copy, connVars
  <2>4. CASE \E b \in Backups, d, s \in Conn : Initialize(b, d, s)
    BY <2>4 DEF Initialize, connVars
  <2> QED
    BY <2>1, <2>2, <2>3, <2>4
       DEF Next, DatabaseStep, BackupStep, Open, Close, DropDatabase,
           Deallocate, Fork, InitializeRaises, DropBackup, DeallocateBackup,
           connVars
<1>3. RemainingInv => NoneRemainingIsDone
  BY DEF RemainingInv, NoneRemainingIsDone, Remaining
<1> QED
  BY <1>1, <1>2, <1>3, BackupInvariance, PTL DEF Spec, FirstStepCopies

=============================================================================
