-------------------------- MODULE ForkSafetyProofs --------------------------
(* Machine-checked proofs about ForkSafety, for any number of processes,   *)
(* connections and statements: its invariants, and that it implements      *)
(* ConnectionCopies.                                                       *)
EXTENDS ForkSafety, TLAPS

(* Every action, of C code, of the hook or of the collector, keeps every   *)
(* variable in its type.                                                   *)
LEMMA TypeStep == TypeOK /\ [Next]_vars => TypeOK'
<1> SUFFICES ASSUME TypeOK, [Next]_vars PROVE TypeOK'
    OBVIOUS
<1> USE DEF TypeOK, ProcState, HookState, ObjState, HandleState,
            StmtObjState, Flag, hookVars, connVars, stmtVars
<1>1. ASSUME NEW p \in Proc, NEW c \in Conn, CloseOrDiscard(p, c)
      PROVE  /\ ptr' \in [Proc -> [Conn -> {"NULL", "db"}]]
             /\ flags' \in [Proc -> [Conn -> SUBSET Flag]]
             /\ handle' \in [Proc -> [Conn -> HandleState]]
  <2>2. CASE OrdinaryClose(p, c)
    <3>1. AfterCloseV2(p, c) \in HandleState
      BY DEF AfterCloseV2
    <3> QED
      BY <2>2, <3>1 DEF OrdinaryClose
  <2>3. CASE DiscardDb(p, c)
    BY <2>3 DEF DiscardDb
  <2> QED
    BY <1>1, <2>2, <2>3 DEF CloseOrDiscard
<1>2. ASSUME NEW p \in Proc, NEW s \in Stmt, Finalize(p, s)
      PROVE  /\ st' \in [Proc -> [Stmt -> {"NULL", "stmt"}]]
             /\ handle' \in [Proc -> [Conn -> HandleState]]
  <2>2. AfterFinalize(p, s) \in HandleState
    BY DEF AfterFinalize
  <2> QED
    BY <1>2, <2>2 DEF Finalize
<1>3. ASSUME NEW p \in Proc, NEW c \in Conn, DatabaseStep(p, c)
      PROVE  TypeOK'
  <2>1. ASSUME NEW mode \in {{}, {"READONLY"}}, Open(p, c, mode)
        PROVE  TypeOK'
    BY <2>1 DEF Open
  <2>2. CASE OpenFails(p, c)
    BY <2>2 DEF OpenFails
  <2>3. CASE InitializeFails(p, c)
    BY <2>3 DEF InitializeFails
  <2>4. CASE Track(p, c)
    BY <2>4 DEF Track
  <2>5. CASE Close(p, c)
    BY <2>5, <1>1 DEF Close
  <2>6. CASE DropDatabase(p, c)
    BY <2>6 DEF DropDatabase
  <2>7. CASE UseDatabase(p, c)
    BY <2>7 DEF UseDatabase, Use
  <2> QED
    BY <1>3, <2>1, <2>2, <2>3, <2>4, <2>5, <2>6, <2>7
       DEF DatabaseStep, Open16
<1>4. ASSUME NEW p \in Proc, NEW s \in Stmt, StatementStep(p, s)
      PROVE  TypeOK'
  <2>1. ASSUME NEW c \in Conn, Prepare(p, c, s)
        PROVE  TypeOK'
    BY <2>1 DEF Prepare, Use
  <2>2. ASSUME NEW c \in Conn, PrepareFails(p, c, s)
        PROVE  TypeOK'
    BY <2>2 DEF PrepareFails, Use
  <2>3. CASE Step(p, s)
    <3>1. sdb[p][s] \in Conn
      OBVIOUS
    <3> QED
      BY <2>3, <3>1 DEF Step, Use
  <2>4. CASE CloseStatement(p, s)
    BY <2>4, <1>2 DEF CloseStatement
  <2>5. CASE DropStatement(p, s)
    BY <2>5 DEF DropStatement
  <2> QED
    BY <1>4, <2>1, <2>2, <2>3, <2>4, <2>5 DEF StatementStep
<1>5. ASSUME NEW p \in Proc, NEW q \in Proc, NEW hooked \in BOOLEAN,
             NEW silent \in BOOLEAN, Fork(p, q, hooked, silent)
      PROVE  TypeOK'
  <2>1. [c \in Conn |-> Inherited(obj[p][c])] \in [Conn -> ObjState]
    BY DEF Inherited
  <2>2. /\ proc' \in [Proc -> ProcState] /\ hook' \in [Proc -> HookState]
        /\ todo' \in [Proc -> SUBSET Conn] /\ warned' \in [Proc -> BOOLEAN]
        /\ tracked' \in [Proc -> SUBSET Conn] /\ used' \in [Proc -> SUBSET Conn]
    BY <1>5 DEF Fork
  <2>3. /\ obj' \in [Proc -> [Conn -> ObjState]]
        /\ ptr' \in [Proc -> [Conn -> {"NULL", "db"}]]
        /\ flags' \in [Proc -> [Conn -> SUBSET Flag]]
        /\ owner' \in [Proc -> [Conn -> Proc]]
    BY <1>5, <2>1 DEF Fork
  <2>4. /\ handle' \in [Proc -> [Conn -> HandleState]]
        /\ born' \in [Proc -> [Conn -> HandleState]]
    BY <1>5 DEF Fork
  <2>5. /\ sobj' \in [Proc -> [Stmt -> StmtObjState]]
        /\ st' \in [Proc -> [Stmt -> {"NULL", "stmt"}]]
        /\ sdb' \in [Proc -> [Stmt -> Conn]]
    BY <1>5 DEF Fork
  <2> QED
    BY <2>2, <2>3, <2>4, <2>5
<1>6. ASSUME NEW q \in Proc, HookStep(q)
      PROVE  TypeOK'
  <2>1. ASSUME NEW c \in Conn, HookSkips(q, c)
        PROVE  TypeOK'
    BY <2>1 DEF HookSkips
  <2>2. ASSUME NEW c \in Conn, HookCloses(q, c)
        PROVE  TypeOK'
    BY <2>2, <1>1 DEF HookCloses
  <2>3. ASSUME NEW c \in Conn, HookWarnRaises(q, c)
        PROVE  TypeOK'
    BY <2>3 DEF HookWarnRaises
  <2>4. CASE HookReturns(q)
    BY <2>4 DEF HookReturns
  <2> QED
    BY <1>6, <2>1, <2>2, <2>3, <2>4 DEF HookStep
<1>7. ASSUME NEW p \in Proc, FreeStep(p)
      PROVE  TypeOK'
  <2>1. ASSUME NEW c \in Conn, Deallocate(p, c)
        PROVE  TypeOK'
    BY <2>1, <1>1 DEF Deallocate
  <2>2. ASSUME NEW s \in Stmt, DeallocateStatement(p, s)
        PROVE  TypeOK'
    BY <2>2, <1>2 DEF DeallocateStatement
  <2> QED
    BY <1>7, <2>1, <2>2 DEF FreeStep
<1>8. ASSUME NEW p \in Proc, Exit(p)
      PROVE  TypeOK'
  BY <1>8 DEF Exit
<1>9. CASE UNCHANGED vars
  BY <1>9 DEF vars
<1> HIDE DEF TypeOK, hookVars, connVars, stmtVars
<1> QED
  BY <1>3, <1>4, <1>5, <1>6, <1>7, <1>8, <1>9 DEF Next

(* Every variable keeps its type in every behaviour.                       *)
THEOREM TypeCorrect == Spec => []TypeOK
<1>1. Init => TypeOK
  BY RootAssumption
     DEF Init, TypeOK, ProcState, HookState, ObjState, HandleState,
         StmtObjState
<1> QED
  BY <1>1, TypeStep, PTL DEF Spec

-----------------------------------------------------------------------------
(* A new connection belongs to the process that runs Database.new, so it   *)
(* is foreign to nobody that could already have it.                        *)
LEMMA InvOpen ==
    ASSUME IInv, NEW p \in Proc, NEW c \in Conn,
           NEW mode \in {{}, {"READONLY"}}, Open(p, c, mode)
    PROVE  SafetyInv'
<1>1. \A r \in Proc, d \in Conn :
        IF r = p /\ d = c
        THEN /\ obj'[r][d] = "opening" /\ ptr'[r][d] = "db"
             /\ flags'[r][d] = mode
             /\ owner'[r][d] = p /\ handle'[r][d] = "open"
        ELSE /\ obj'[r][d] = obj[r][d] /\ ptr'[r][d] = ptr[r][d]
             /\ flags'[r][d] = flags[r][d]
             /\ owner'[r][d] = owner[r][d] /\ handle'[r][d] = handle[r][d]
  BY DEF Open, IInv, TypeOK
<1>2. UNCHANGED <<proc, hook, todo, tracked, sobj, st, sdb, born, used>>
  BY DEF Open, hookVars, stmtVars
<1>3. /\ obj[p][c] = "none" /\ ptr[p][c] = "NULL" /\ flags[p][c] = {}
      /\ handle[p][c] = "none" /\ proc[p] = "running" /\ hook[p] # "running"
  BY DEF Open, Runs, IInv, SafetyInv, ObjectInv
<1>4. \A r \in Proc, t \in Stmt : sdb[r][t] \in Conn
  BY DEF IInv, TypeOK
<1>5. ObjectInv'
  BY <1>1, <1>2, <1>3 DEF IInv, SafetyInv, ObjectInv
<1>6. TrackedInv'
  BY <1>1, <1>2 DEF IInv, SafetyInv, TrackedInv, Readonly
<1>7. HistoryInv'
  BY <1>1, <1>2 DEF IInv, SafetyInv, HistoryInv, Foreign, Readonly
<1>8. StatementInv'
  BY <1>2 DEF IInv, SafetyInv, StatementInv
<1>9. HookLeavesNoWriter'
  BY <1>1, <1>2 DEF IInv, SafetyInv, HookLeavesNoWriter, Foreign, Readonly
<1>10. NoForeignClose'
  BY <1>1, <1>2 DEF IInv, SafetyInv, NoForeignClose, Foreign, Readonly
<1>11. NoForeignUse'
  BY <1>1, <1>2 DEF IInv, SafetyInv, NoForeignUse, Foreign, Readonly
<1>12. DiscardIsExact'
  BY <1>1 DEF IInv, SafetyInv, DiscardIsExact, Foreign, Readonly, Discarded
<1>13. NoDanglingPointer'
  BY <1>1, <1>2, <1>3, <1>4 DEF IInv, SafetyInv, NoDanglingPointer
<1>14. ZombieHasStatement'
  BY <1>1, <1>2 DEF IInv, SafetyInv, ZombieHasStatement
<1> QED
  BY <1>5, <1>6, <1>7, <1>8, <1>9, <1>10, <1>11, <1>12, <1>13, <1>14
     DEF SafetyInv

(* open_v2 closes a handle that failed to open before it raises, so the     *)
(* object that is left has no handle.                                      *)
LEMMA InvOpenFails ==
    ASSUME IInv, NEW p \in Proc, NEW c \in Conn, OpenFails(p, c)
    PROVE  SafetyInv'
<1>1. \A r \in Proc, d \in Conn :
        IF r = p /\ d = c
        THEN /\ obj'[r][d] = "garbage" /\ ptr'[r][d] = ptr[r][d]
             /\ flags'[r][d] = flags[r][d]
             /\ owner'[r][d] = p /\ handle'[r][d] = handle[r][d]
        ELSE /\ obj'[r][d] = obj[r][d] /\ ptr'[r][d] = ptr[r][d]
             /\ flags'[r][d] = flags[r][d]
             /\ owner'[r][d] = owner[r][d] /\ handle'[r][d] = handle[r][d]
  BY DEF OpenFails, IInv, TypeOK
<1>2. UNCHANGED <<proc, hook, todo, tracked, sobj, st, sdb, born, used>>
  BY DEF OpenFails, hookVars, stmtVars
<1>3. /\ obj[p][c] = "none" /\ ptr[p][c] = "NULL" /\ flags[p][c] = {}
      /\ handle[p][c] = "none" /\ proc[p] = "running" /\ hook[p] # "running"
  BY DEF OpenFails, Runs, IInv, SafetyInv, ObjectInv
<1>4. \A r \in Proc, t \in Stmt : sdb[r][t] \in Conn
  BY DEF IInv, TypeOK
<1>5. ObjectInv'
  BY <1>1, <1>2, <1>3 DEF IInv, SafetyInv, ObjectInv
<1>6. TrackedInv'
  BY <1>1, <1>2 DEF IInv, SafetyInv, TrackedInv, Readonly
<1>7. HistoryInv'
  BY <1>1, <1>2 DEF IInv, SafetyInv, HistoryInv, Foreign, Readonly
<1>8. StatementInv'
  BY <1>2 DEF IInv, SafetyInv, StatementInv
<1>9. HookLeavesNoWriter'
  BY <1>1, <1>2 DEF IInv, SafetyInv, HookLeavesNoWriter, Foreign, Readonly
<1>10. NoForeignClose'
  BY <1>1, <1>2 DEF IInv, SafetyInv, NoForeignClose, Foreign, Readonly
<1>11. NoForeignUse'
  BY <1>1, <1>2 DEF IInv, SafetyInv, NoForeignUse, Foreign, Readonly
<1>12. DiscardIsExact'
  BY <1>1, <1>3
     DEF IInv, SafetyInv, DiscardIsExact, Foreign, Readonly, Discarded
<1>13. NoDanglingPointer'
  BY <1>1, <1>2, <1>3, <1>4 DEF IInv, SafetyInv, NoDanglingPointer
<1>14. ZombieHasStatement'
  BY <1>1, <1>2 DEF IInv, SafetyInv, ZombieHasStatement
<1> QED
  BY <1>5, <1>6, <1>7, <1>8, <1>9, <1>10, <1>11, <1>12, <1>13, <1>14
     DEF SafetyInv

(* Database#initialize may raise between opening and ForkSafety.track: the *)
(* object is then untracked, and nothing refers to it any more.            *)
LEMMA InvInitializeFails ==
    ASSUME IInv, NEW p \in Proc, NEW c \in Conn, InitializeFails(p, c)
    PROVE  SafetyInv'
<1>1. \A r \in Proc, d \in Conn :
        IF r = p /\ d = c
        THEN /\ obj'[r][d] = "garbage" /\ ptr'[r][d] = ptr[r][d]
             /\ flags'[r][d] = flags[r][d]
             /\ owner'[r][d] = owner[r][d] /\ handle'[r][d] = handle[r][d]
        ELSE /\ obj'[r][d] = obj[r][d] /\ ptr'[r][d] = ptr[r][d]
             /\ flags'[r][d] = flags[r][d]
             /\ owner'[r][d] = owner[r][d] /\ handle'[r][d] = handle[r][d]
  BY DEF InitializeFails, IInv, TypeOK
<1>2. UNCHANGED <<proc, hook, todo, tracked, sobj, st, sdb, born, used>>
  BY DEF InitializeFails, hookVars, stmtVars
<1>3. obj[p][c] = "opening" /\ proc[p] = "running" /\ hook[p] # "running"
  BY DEF InitializeFails, Runs
<1>4. \A r \in Proc, t \in Stmt : sdb[r][t] \in Conn
  BY DEF IInv, TypeOK
<1>5. ObjectInv'
  BY <1>1, <1>2, <1>3 DEF IInv, SafetyInv, ObjectInv
<1>6. TrackedInv'
  BY <1>1, <1>2 DEF IInv, SafetyInv, TrackedInv, Readonly
<1>7. HistoryInv'
  BY <1>1, <1>2, <1>3 DEF IInv, SafetyInv, HistoryInv, Foreign, Readonly
<1>8. StatementInv'
  BY <1>2 DEF IInv, SafetyInv, StatementInv
<1>9. HookLeavesNoWriter'
  BY <1>1, <1>2 DEF IInv, SafetyInv, HookLeavesNoWriter, Foreign, Readonly
<1>10. NoForeignClose'
  BY <1>1, <1>2, <1>3 DEF IInv, SafetyInv, NoForeignClose, Foreign, Readonly
<1>11. NoForeignUse'
  BY <1>1, <1>2, <1>3 DEF IInv, SafetyInv, NoForeignUse, Foreign, Readonly
<1>12. DiscardIsExact'
  BY <1>1 DEF IInv, SafetyInv, DiscardIsExact, Foreign, Readonly, Discarded
<1>13. NoDanglingPointer'
  BY <1>1, <1>2, <1>3, <1>4 DEF IInv, SafetyInv, NoDanglingPointer
<1>14. ZombieHasStatement'
  BY <1>1, <1>2 DEF IInv, SafetyInv, ZombieHasStatement
<1> QED
  BY <1>5, <1>6, <1>7, <1>8, <1>9, <1>10, <1>11, <1>12, <1>13, <1>14
     DEF SafetyInv

(* Dropping the last reference to a Database makes it unreachable, which   *)
(* is all that the promises about reachable objects ask for.               *)
LEMMA InvDropDatabase ==
    ASSUME IInv, NEW p \in Proc, NEW c \in Conn, DropDatabase(p, c)
    PROVE  SafetyInv'
<1>1. \A r \in Proc, d \in Conn :
        IF r = p /\ d = c
        THEN /\ obj'[r][d] = "garbage" /\ ptr'[r][d] = ptr[r][d]
             /\ flags'[r][d] = flags[r][d]
             /\ owner'[r][d] = owner[r][d] /\ handle'[r][d] = handle[r][d]
        ELSE /\ obj'[r][d] = obj[r][d] /\ ptr'[r][d] = ptr[r][d]
             /\ flags'[r][d] = flags[r][d]
             /\ owner'[r][d] = owner[r][d] /\ handle'[r][d] = handle[r][d]
  BY DEF DropDatabase, IInv, TypeOK
<1>2. UNCHANGED <<proc, hook, todo, tracked, sobj, st, sdb, born, used>>
  BY DEF DropDatabase, hookVars, stmtVars
<1>3. obj[p][c] = "live" /\ proc[p] = "running" /\ hook[p] # "running"
  BY DEF DropDatabase, Runs
<1>4. \A s \in Stmt : ~(sobj[p][s] = "live" /\ sdb[p][s] = c)
  BY DEF DropDatabase, LiveStmts
<1>5. \A r \in Proc, t \in Stmt : sdb[r][t] \in Conn
  BY DEF IInv, TypeOK
<1>6. ObjectInv'
  BY <1>1, <1>2, <1>3 DEF IInv, SafetyInv, ObjectInv
<1>7. TrackedInv'
  BY <1>1, <1>2 DEF IInv, SafetyInv, TrackedInv, Readonly
<1>8. HistoryInv'
  BY <1>1, <1>2, <1>3 DEF IInv, SafetyInv, HistoryInv, Foreign, Readonly
<1>9. StatementInv'
  BY <1>2 DEF IInv, SafetyInv, StatementInv
<1>10. HookLeavesNoWriter'
  BY <1>1, <1>2 DEF IInv, SafetyInv, HookLeavesNoWriter, Foreign, Readonly
<1>11. NoForeignClose'
  BY <1>1, <1>2, <1>3 DEF IInv, SafetyInv, NoForeignClose, Foreign, Readonly
<1>12. NoForeignUse'
  BY <1>1, <1>2, <1>3 DEF IInv, SafetyInv, NoForeignUse, Foreign, Readonly
<1>13. DiscardIsExact'
  BY <1>1 DEF IInv, SafetyInv, DiscardIsExact, Foreign, Readonly, Discarded
<1>14. NoDanglingPointer'
  BY <1>1, <1>2, <1>4, <1>5 DEF IInv, SafetyInv, NoDanglingPointer
<1>15. ZombieHasStatement'
  BY <1>1, <1>2 DEF IInv, SafetyInv, ZombieHasStatement
<1> QED
  BY <1>6, <1>7, <1>8, <1>9, <1>10, <1>11, <1>12, <1>13, <1>14, <1>15
     DEF SafetyInv

(* ForkSafety.track adds a Database of the process to the list; by then    *)
(* the connection is open, or the object knows that it is not.             *)
LEMMA InvTrack ==
    ASSUME IInv, NEW p \in Proc, NEW c \in Conn, Track(p, c)
    PROVE  SafetyInv'
<1>1. \A r \in Proc, d \in Conn :
        IF r = p /\ d = c
        THEN /\ obj'[r][d] = "live" /\ ptr'[r][d] = ptr[r][d]
             /\ flags'[r][d] = flags[r][d]
             /\ owner'[r][d] = owner[r][d] /\ handle'[r][d] = handle[r][d]
        ELSE /\ obj'[r][d] = obj[r][d] /\ ptr'[r][d] = ptr[r][d]
             /\ flags'[r][d] = flags[r][d]
             /\ owner'[r][d] = owner[r][d] /\ handle'[r][d] = handle[r][d]
  BY DEF Track, IInv, TypeOK
<1>2. UNCHANGED <<proc, hook, todo, sobj, st, sdb, born, used>>
  BY DEF Track, stmtVars
<1>3. obj[p][c] = "opening" /\ proc[p] = "running" /\ hook[p] # "running"
  BY DEF Track, Runs
<1>4. \A r \in Proc :
         tracked'[r] = IF r = p THEN tracked[p] \cup {c} ELSE tracked[r]
  BY DEF Track, IInv, TypeOK
<1>5. \A r \in Proc, t \in Stmt : sdb[r][t] \in Conn
  BY DEF IInv, TypeOK
<1>6. ObjectInv'
  BY <1>1, <1>2, <1>3 DEF IInv, SafetyInv, ObjectInv
<1>7. TrackedInv'
  BY <1>1, <1>2, <1>3, <1>4 DEF IInv, SafetyInv, TrackedInv, Readonly
<1>8. HistoryInv'
  BY <1>1, <1>2, <1>3 DEF IInv, SafetyInv, HistoryInv, Foreign, Readonly
<1>9. StatementInv'
  BY <1>2 DEF IInv, SafetyInv, StatementInv
<1>10. HookLeavesNoWriter'
  BY <1>1, <1>2, <1>3
     DEF IInv, SafetyInv, HookLeavesNoWriter, Foreign, Readonly, ObjectInv
<1>11. NoForeignClose'
  BY <1>1, <1>2, <1>3 DEF IInv, SafetyInv, NoForeignClose, Foreign, Readonly
<1>12. NoForeignUse'
  BY <1>1, <1>2, <1>3 DEF IInv, SafetyInv, NoForeignUse, Foreign, Readonly
<1>13. DiscardIsExact'
  BY <1>1 DEF IInv, SafetyInv, DiscardIsExact, Foreign, Readonly, Discarded
<1>14. NoDanglingPointer'
  BY <1>1, <1>2, <1>5 DEF IInv, SafetyInv, NoDanglingPointer
<1>15. ZombieHasStatement'
  BY <1>1, <1>2 DEF IInv, SafetyInv, ZombieHasStatement
<1> QED
  BY <1>6, <1>7, <1>8, <1>9, <1>10, <1>11, <1>12, <1>13, <1>14, <1>15
     DEF SafetyInv

-----------------------------------------------------------------------------
(* What close_or_discard_db does to the fields of its own connection.      *)
ClosedAs(p, c) ==
    \/ /\ ptr[p][c] = "NULL" /\ ptr'[p][c] = "NULL"
       /\ flags'[p][c] = flags[p][c] /\ handle'[p][c] = handle[p][c]
    \/ /\ ptr[p][c] # "NULL" /\ MayCloseOrdinarily(p, c) /\ ptr'[p][c] = "NULL"
       /\ flags'[p][c] = flags[p][c]
       /\ \/ /\ handle'[p][c] = "freed"
             /\ \A s \in Stmt : ~(st[p][s] # "NULL" /\ sdb[p][s] = c)
          \/ /\ handle'[p][c] = "zombie"
             /\ \E s \in Stmt : st[p][s] # "NULL" /\ sdb[p][s] = c
    \/ /\ ptr[p][c] # "NULL" /\ ~MayCloseOrdinarily(p, c) /\ ptr'[p][c] = "NULL"
       /\ flags'[p][c] = flags[p][c] \cup {"DISCARDED"}
       /\ handle'[p][c] = "abandoned"

(* close_or_discard_db in the terms of the invariant: nothing,             *)
(* sqlite3_close_v2 by the owner, or the discard of a foreign writer.      *)
LEMMA CloseEffect ==
    ASSUME IInv, NEW p \in Proc, NEW c \in Conn, CloseOrDiscard(p, c)
    PROVE  /\ \A r \in Proc, d \in Conn :
                 ~(r = p /\ d = c)
                    => /\ ptr'[r][d] = ptr[r][d] /\ flags'[r][d] = flags[r][d]
                       /\ handle'[r][d] = handle[r][d]
           /\ ClosedAs(p, c)
<1>1. CASE ptr[p][c] = "NULL" /\ UNCHANGED <<handle, ptr, flags>>
  BY <1>1 DEF ClosedAs
<1>2. CASE ptr[p][c] # "NULL" /\ MayCloseOrdinarily(p, c) /\ OrdinaryClose(p, c)
  <2>1. \A r \in Proc, d \in Conn :
          IF r = p /\ d = c
          THEN /\ ptr'[r][d] = "NULL" /\ flags'[r][d] = flags[r][d]
               /\ handle'[r][d] = AfterCloseV2(p, c)
          ELSE /\ ptr'[r][d] = ptr[r][d] /\ flags'[r][d] = flags[r][d]
               /\ handle'[r][d] = handle[r][d]
    BY <1>2 DEF OrdinaryClose, IInv, TypeOK
  <2>2. \/ /\ AfterCloseV2(p, c) = "freed"
           /\ \A s \in Stmt : ~(st[p][s] # "NULL" /\ sdb[p][s] = c)
        \/ /\ AfterCloseV2(p, c) = "zombie"
           /\ \E s \in Stmt : st[p][s] # "NULL" /\ sdb[p][s] = c
    BY DEF AfterCloseV2, OpenStmts
  <2> QED
    BY <1>2, <2>1, <2>2 DEF ClosedAs
<1>3. CASE ptr[p][c] # "NULL" /\ ~MayCloseOrdinarily(p, c) /\ DiscardDb(p, c)
  <2>1. \A r \in Proc, d \in Conn :
          IF r = p /\ d = c
          THEN /\ ptr'[r][d] = "NULL" /\ handle'[r][d] = "abandoned"
               /\ flags'[r][d] = flags[r][d] \cup {"DISCARDED"}
          ELSE /\ ptr'[r][d] = ptr[r][d] /\ flags'[r][d] = flags[r][d]
               /\ handle'[r][d] = handle[r][d]
    BY <1>3 DEF DiscardDb, IInv, TypeOK
  <2> QED
    BY <1>3, <2>1 DEF ClosedAs
<1> QED
  BY <1>1, <1>2, <1>3 DEF CloseOrDiscard

(* Database#close keeps the invariant: it closes what the process may      *)
(* close and discards what is foreign (sqlite3_rb_close).                  *)
LEMMA InvClose ==
    ASSUME IInv, NEW p \in Proc, NEW c \in Conn, Close(p, c)
    PROVE  SafetyInv'
<1>1. CloseOrDiscard(p, c)
  BY DEF Close
<1>2. /\ \A r \in Proc, d \in Conn :
            ~(r = p /\ d = c)
               => /\ ptr'[r][d] = ptr[r][d] /\ flags'[r][d] = flags[r][d]
                  /\ handle'[r][d] = handle[r][d]
      /\ ClosedAs(p, c)
  BY <1>1, CloseEffect
<1>3. UNCHANGED <<obj, owner>>
  BY DEF Close
<1>4. UNCHANGED <<proc, hook, todo, tracked, sobj, st, sdb, born, used>>
  BY DEF Close, hookVars, stmtVars
<1>6. \A r \in Proc, t \in Stmt : sdb[r][t] \in Conn
  BY DEF IInv, TypeOK
<1>7. ObjectInv'
  BY <1>2, <1>3, <1>4 DEF IInv, SafetyInv, ObjectInv, ClosedAs
<1>8. TrackedInv'
  BY <1>2, <1>3, <1>4 DEF IInv, SafetyInv, TrackedInv, ClosedAs, Readonly
<1>9. HistoryInv'
  BY <1>2, <1>3, <1>4
     DEF IInv, SafetyInv, HistoryInv, Foreign, ClosedAs, Readonly,
         NoDanglingPointer
<1>10. StatementInv'
  BY <1>4 DEF IInv, SafetyInv, StatementInv
<1>11. HookLeavesNoWriter'
  BY <1>2, <1>3, <1>4
     DEF IInv, SafetyInv, HookLeavesNoWriter, Foreign, ClosedAs, Readonly
<1>12. NoForeignClose'
  BY <1>2, <1>3, <1>4
     DEF IInv, SafetyInv, NoForeignClose, Foreign, ClosedAs,
         MayCloseOrdinarily, Readonly
<1>13. NoForeignUse'
  BY <1>2, <1>3, <1>4
     DEF IInv, SafetyInv, NoForeignUse, Foreign, ClosedAs, Readonly
<1>14. DiscardIsExact'
  BY <1>2, <1>3
     DEF IInv, SafetyInv, DiscardIsExact, Foreign, Discarded, ClosedAs,
         MayCloseOrdinarily, Readonly, ObjectInv
<1>15. NoDanglingPointer'
  BY <1>2, <1>3, <1>4, <1>6 DEF IInv, SafetyInv, NoDanglingPointer, ClosedAs
<1>16. ZombieHasStatement'
  BY <1>2, <1>4 DEF IInv, SafetyInv, ZombieHasStatement, ClosedAs
<1> QED
  BY <1>7, <1>8, <1>9, <1>10, <1>11, <1>12, <1>13, <1>14, <1>15, <1>16
     DEF SafetyInv

(* The collector's free function (deallocate) closes or discards like      *)
(* Database#close, on an object nobody can reach.                          *)
LEMMA InvDeallocate ==
    ASSUME IInv, NEW p \in Proc, NEW c \in Conn, Deallocate(p, c)
    PROVE  SafetyInv'
<1>1. CloseOrDiscard(p, c)
  BY DEF Deallocate
<1>2. /\ \A r \in Proc, d \in Conn :
            ~(r = p /\ d = c)
               => /\ ptr'[r][d] = ptr[r][d] /\ flags'[r][d] = flags[r][d]
                  /\ handle'[r][d] = handle[r][d]
      /\ ClosedAs(p, c)
  BY <1>1, CloseEffect
<1>3. /\ UNCHANGED owner
      /\ \A r \in Proc, d \in Conn :
            obj'[r][d] = IF r = p /\ d = c THEN "freed" ELSE obj[r][d]
  BY DEF Deallocate, IInv, TypeOK
<1>4. UNCHANGED <<proc, hook, todo, tracked, sobj, st, sdb, born, used>>
  BY DEF Deallocate, hookVars, stmtVars
<1>5. obj[p][c] = "garbage"
  BY DEF Deallocate
<1>6. \A r \in Proc, t \in Stmt : sdb[r][t] \in Conn
  BY DEF IInv, TypeOK
<1>7. ObjectInv'
  BY <1>2, <1>3, <1>4, <1>5 DEF IInv, SafetyInv, ObjectInv
<1>8. TrackedInv'
  BY <1>2, <1>3, <1>4 DEF IInv, SafetyInv, TrackedInv, Readonly
<1>9. HistoryInv'
  BY <1>2, <1>3, <1>4, <1>5
     DEF IInv, SafetyInv, HistoryInv, Foreign, ClosedAs, Readonly,
         NoDanglingPointer
<1>10. StatementInv'
  BY <1>4 DEF IInv, SafetyInv, StatementInv
<1>11. HookLeavesNoWriter'
  BY <1>2, <1>3, <1>4
     DEF IInv, SafetyInv, HookLeavesNoWriter, Foreign, Readonly
<1>12. NoForeignClose'
  BY <1>2, <1>3, <1>4, <1>5
     DEF IInv, SafetyInv, NoForeignClose, Foreign, ClosedAs,
         MayCloseOrdinarily, Readonly
<1>13. NoForeignUse'
  BY <1>2, <1>3, <1>4, <1>5
     DEF IInv, SafetyInv, NoForeignUse, Foreign, ClosedAs, Readonly
<1>14. DiscardIsExact'
  BY <1>2, <1>3
     DEF IInv, SafetyInv, DiscardIsExact, Foreign, Discarded, ClosedAs,
         MayCloseOrdinarily, Readonly
<1>15. NoDanglingPointer'
  BY <1>2, <1>3, <1>4, <1>5, <1>6
     DEF IInv, SafetyInv, NoDanglingPointer, ClosedAs
<1>16. ZombieHasStatement'
  BY <1>2, <1>4 DEF IInv, SafetyInv, ZombieHasStatement, ClosedAs
<1> QED
  BY <1>7, <1>8, <1>9, <1>10, <1>11, <1>12, <1>13, <1>14, <1>15, <1>16
     DEF SafetyInv

(* ForkSafety.discard, one element of its loop: the Database on the list   *)
(* is closed or discarded before the hook goes on.                         *)
LEMMA InvHookCloses ==
    ASSUME IInv, NEW p \in Proc, NEW c \in Conn, HookCloses(p, c)
    PROVE  SafetyInv'
<1>1. CloseOrDiscard(p, c)
  BY DEF HookCloses
<1>2. /\ \A r \in Proc, d \in Conn :
            ~(r = p /\ d = c)
               => /\ ptr'[r][d] = ptr[r][d] /\ flags'[r][d] = flags[r][d]
                  /\ handle'[r][d] = handle[r][d]
      /\ ClosedAs(p, c)
  BY <1>1, CloseEffect
<1>3. UNCHANGED <<obj, owner>>
  BY DEF HookCloses
<1>4. UNCHANGED <<proc, hook, tracked, sobj, st, sdb, born, used>>
  BY DEF HookCloses, stmtVars
<1>6. hook[p] = "running" /\ \A r \in Proc : todo'[r] = IF r = p THEN todo[p] \ {c} ELSE todo[r]
  BY DEF HookCloses, HookMustClose, IInv, TypeOK
<1>7. \A r \in Proc, t \in Stmt : sdb[r][t] \in Conn
  BY DEF IInv, TypeOK
<1>8. ObjectInv'
  BY <1>2, <1>3, <1>4 DEF IInv, SafetyInv, ObjectInv, ClosedAs
<1>9. TrackedInv'
  BY <1>2, <1>3, <1>4, <1>6
     DEF IInv, SafetyInv, TrackedInv, ClosedAs, Readonly
<1>10. HistoryInv'
  BY <1>2, <1>3, <1>4
     DEF IInv, SafetyInv, HistoryInv, Foreign, ClosedAs, Readonly,
         NoDanglingPointer
<1>11. StatementInv'
  BY <1>4 DEF IInv, SafetyInv, StatementInv
<1>12. HookLeavesNoWriter'
  BY <1>2, <1>3, <1>4
     DEF IInv, SafetyInv, HookLeavesNoWriter, Foreign, ClosedAs, Readonly
<1>13. NoForeignClose'
  BY <1>2, <1>3, <1>4
     DEF IInv, SafetyInv, NoForeignClose, Foreign, ClosedAs,
         MayCloseOrdinarily, Readonly
<1>14. NoForeignUse'
  BY <1>2, <1>3, <1>4
     DEF IInv, SafetyInv, NoForeignUse, Foreign, ClosedAs, Readonly
<1>15. DiscardIsExact'
  BY <1>2, <1>3
     DEF IInv, SafetyInv, DiscardIsExact, Foreign, Discarded, ClosedAs,
         MayCloseOrdinarily, Readonly, ObjectInv
<1>16. NoDanglingPointer'
  BY <1>2, <1>3, <1>4, <1>7 DEF IInv, SafetyInv, NoDanglingPointer, ClosedAs
<1>17. ZombieHasStatement'
  BY <1>2, <1>4 DEF IInv, SafetyInv, ZombieHasStatement, ClosedAs
<1> QED
  BY <1>8, <1>9, <1>10, <1>11, <1>12, <1>13, <1>14, <1>15, <1>16, <1>17
     DEF SafetyInv

-----------------------------------------------------------------------------
(* Statement#prepare compiles on a connection that is open and hence       *)
(* neither foreign (after the hook) nor discarded.                         *)
LEMMA InvPrepare ==
    ASSUME IInv, NEW p \in Proc, NEW c \in Conn, NEW s \in Stmt, Prepare(p, c, s)
    PROVE  SafetyInv'
<1>1. \A r \in Proc, t \in Stmt :
        IF r = p /\ t = s
        THEN /\ sobj'[r][t] = "live" /\ st'[r][t] = "stmt" /\ sdb'[r][t] = c
        ELSE /\ sobj'[r][t] = sobj[r][t] /\ st'[r][t] = st[r][t]
             /\ sdb'[r][t] = sdb[r][t]
  BY DEF Prepare, IInv, TypeOK
<1>2. \A r \in Proc :
         used'[r] \subseteq IF r = p THEN used[p] \cup {c} ELSE used[r]
  BY DEF Prepare, Use
<1>3. UNCHANGED <<proc, hook, todo, tracked, obj, ptr, flags, owner, handle,
                  born>>
  BY DEF Prepare, hookVars, connVars
<1>4. /\ hook[p] # "running" /\ obj[p][c] = "live" /\ ptr[p][c] # "NULL"
      /\ sobj[p][s] = "none" /\ st[p][s] = "NULL"
  BY DEF Prepare, Runs, IInv, SafetyInv, StatementInv
<1>6. ObjectInv'
  BY <1>3 DEF IInv, SafetyInv, ObjectInv
<1>7. TrackedInv'
  BY <1>3 DEF IInv, SafetyInv, TrackedInv, Readonly
<1>8. HistoryInv'
  BY <1>2, <1>3, <1>4 DEF IInv, SafetyInv, HistoryInv, Foreign, Readonly
<1>9. StatementInv'
  BY <1>1 DEF IInv, SafetyInv, StatementInv
<1>10. HookLeavesNoWriter'
  BY <1>3 DEF IInv, SafetyInv, HookLeavesNoWriter, Foreign, Readonly
<1>11. NoForeignClose'
  BY <1>3 DEF IInv, SafetyInv, NoForeignClose, Foreign, Readonly
<1>12. NoForeignUse'
  BY <1>2, <1>3, <1>4
     DEF IInv, SafetyInv, NoForeignUse, Foreign, Readonly, HookLeavesNoWriter
<1>13. DiscardIsExact'
  BY <1>3 DEF IInv, SafetyInv, DiscardIsExact, Foreign, Readonly, Discarded
<1>14. NoDanglingPointer'
  BY <1>1, <1>3, <1>4 DEF IInv, SafetyInv, NoDanglingPointer
<1>15. ZombieHasStatement'
  BY <1>1, <1>3, <1>4 DEF IInv, SafetyInv, ZombieHasStatement
<1> QED
  BY <1>6, <1>7, <1>8, <1>9, <1>10, <1>11, <1>12, <1>13, <1>14, <1>15
     DEF SafetyInv

(* A statement that does not compile keeps its link to the Database and no *)
(* sqlite3_stmt.                                                           *)
LEMMA InvPrepareFails ==
    ASSUME IInv, NEW p \in Proc, NEW c \in Conn, NEW s \in Stmt, PrepareFails(p, c, s)
    PROVE  SafetyInv'
<1>1. \A r \in Proc, t \in Stmt :
        IF r = p /\ t = s
        THEN /\ sobj'[r][t] = "garbage" /\ st'[r][t] = st[r][t]
             /\ sdb'[r][t] = c
        ELSE /\ sobj'[r][t] = sobj[r][t] /\ st'[r][t] = st[r][t]
             /\ sdb'[r][t] = sdb[r][t]
  BY DEF PrepareFails, IInv, TypeOK
<1>2. \A r \in Proc :
         used'[r] \subseteq IF r = p THEN used[p] \cup {c} ELSE used[r]
  BY DEF PrepareFails, Use
<1>3. UNCHANGED <<proc, hook, todo, tracked, obj, ptr, flags, owner, handle,
                  born>>
  BY DEF PrepareFails, hookVars, connVars
<1>4. /\ hook[p] # "running" /\ obj[p][c] = "live" /\ ptr[p][c] # "NULL"
      /\ sobj[p][s] = "none" /\ st[p][s] = "NULL"
  BY DEF PrepareFails, Runs, IInv, SafetyInv, StatementInv
<1>6. ObjectInv'
  BY <1>3 DEF IInv, SafetyInv, ObjectInv
<1>7. TrackedInv'
  BY <1>3 DEF IInv, SafetyInv, TrackedInv, Readonly
<1>8. HistoryInv'
  BY <1>2, <1>3, <1>4 DEF IInv, SafetyInv, HistoryInv, Foreign, Readonly
<1>9. StatementInv'
  BY <1>1 DEF IInv, SafetyInv, StatementInv
<1>10. HookLeavesNoWriter'
  BY <1>3 DEF IInv, SafetyInv, HookLeavesNoWriter, Foreign, Readonly
<1>11. NoForeignClose'
  BY <1>3 DEF IInv, SafetyInv, NoForeignClose, Foreign, Readonly
<1>12. NoForeignUse'
  BY <1>2, <1>3, <1>4
     DEF IInv, SafetyInv, NoForeignUse, Foreign, Readonly, HookLeavesNoWriter
<1>13. DiscardIsExact'
  BY <1>3 DEF IInv, SafetyInv, DiscardIsExact, Foreign, Readonly, Discarded
<1>14. NoDanglingPointer'
  BY <1>1, <1>3, <1>4 DEF IInv, SafetyInv, NoDanglingPointer
<1>15. ZombieHasStatement'
  BY <1>1, <1>3, <1>4 DEF IInv, SafetyInv, ZombieHasStatement
<1> QED
  BY <1>6, <1>7, <1>8, <1>9, <1>10, <1>11, <1>12, <1>13, <1>14, <1>15
     DEF SafetyInv

(* A method of Database that goes into the library finds a connection that *)
(* is open, and after the hook no inherited writable one is.               *)
LEMMA InvUseDatabase ==
    ASSUME IInv, NEW p \in Proc, NEW c \in Conn, UseDatabase(p, c)
    PROVE  SafetyInv'
<1>1. \A r \in Proc :
         used'[r] \subseteq IF r = p THEN used[p] \cup {c} ELSE used[r]
  BY DEF UseDatabase, Use
<1>2. UNCHANGED <<proc, hook, todo, tracked, obj, ptr, flags, owner, handle,
                  sobj, st, sdb, born>>
  BY DEF UseDatabase, hookVars, connVars, stmtVars
<1>3. hook[p] # "running" /\ obj[p][c] = "live" /\ ptr[p][c] # "NULL"
  BY DEF UseDatabase, Runs
<1>4. ObjectInv'
  BY <1>2 DEF IInv, SafetyInv, ObjectInv
<1>5. TrackedInv'
  BY <1>2 DEF IInv, SafetyInv, TrackedInv, Readonly
<1>6. HistoryInv'
  BY <1>1, <1>2, <1>3 DEF IInv, SafetyInv, HistoryInv, Foreign, Readonly
<1>7. StatementInv'
  BY <1>2 DEF IInv, SafetyInv, StatementInv
<1>8. HookLeavesNoWriter'
  BY <1>2 DEF IInv, SafetyInv, HookLeavesNoWriter, Foreign, Readonly
<1>9. NoForeignClose'
  BY <1>2 DEF IInv, SafetyInv, NoForeignClose, Foreign, Readonly
<1>10. NoForeignUse'
  BY <1>1, <1>2, <1>3
     DEF IInv, SafetyInv, NoForeignUse, Foreign, Readonly, HookLeavesNoWriter
<1>11. DiscardIsExact'
  BY <1>2 DEF IInv, SafetyInv, DiscardIsExact, Foreign, Readonly, Discarded
<1>12. NoDanglingPointer'
  BY <1>2 DEF IInv, SafetyInv, NoDanglingPointer
<1>13. ZombieHasStatement'
  BY <1>2 DEF IInv, SafetyInv, ZombieHasStatement
<1> QED
  BY <1>4, <1>5, <1>6, <1>7, <1>8, <1>9, <1>10, <1>11, <1>12, <1>13
     DEF SafetyInv

(* The connection of a statement that may step is open, or a zombie: an    *)
(* abandoned one has its flag set (REQUIRE_LIVE_DB).                       *)
LEMMA InvStatementStep ==
    ASSUME IInv, NEW p \in Proc, NEW s \in Stmt, Step(p, s)
    PROVE  SafetyInv'
<1>1. \A r \in Proc :
         used'[r] \subseteq IF r = p THEN used[p] \cup {sdb[p][s]} ELSE used[r]
  BY DEF Step, Use
<1>2. UNCHANGED <<proc, hook, todo, tracked, obj, ptr, flags, owner, handle,
                  sobj, st, sdb, born>>
  BY DEF Step, hookVars, connVars, stmtVars
<1>3. /\ hook[p] # "running" /\ ~Discarded(p, sdb[p][s])
      /\ sobj[p][s] = "live" /\ st[p][s] # "NULL"
  BY DEF Step, Runs
<1>5. ObjectInv'
  BY <1>2 DEF IInv, SafetyInv, ObjectInv
<1>6. TrackedInv'
  BY <1>2 DEF IInv, SafetyInv, TrackedInv, Readonly
<1>7. HistoryInv'
  BY <1>1, <1>2, <1>3 DEF IInv, SafetyInv, HistoryInv, Foreign, Readonly
<1>8. StatementInv'
  BY <1>2 DEF IInv, SafetyInv, StatementInv
<1>9. HookLeavesNoWriter'
  BY <1>2 DEF IInv, SafetyInv, HookLeavesNoWriter, Foreign, Readonly
<1>10. NoForeignClose'
  BY <1>2 DEF IInv, SafetyInv, NoForeignClose, Foreign, Readonly
<1>11. NoForeignUse'
  BY <1>1, <1>2, <1>3
     DEF IInv, SafetyInv, NoForeignUse, Foreign, Readonly,
         HookLeavesNoWriter, NoDanglingPointer, NoForeignClose,
         DiscardIsExact, HistoryInv
<1>12. DiscardIsExact'
  BY <1>2 DEF IInv, SafetyInv, DiscardIsExact, Foreign, Readonly, Discarded
<1>13. NoDanglingPointer'
  BY <1>2 DEF IInv, SafetyInv, NoDanglingPointer
<1>14. ZombieHasStatement'
  BY <1>2 DEF IInv, SafetyInv, ZombieHasStatement
<1> QED
  BY <1>5, <1>6, <1>7, <1>8, <1>9, <1>10, <1>11, <1>12, <1>13, <1>14
     DEF SafetyInv

(* Dropping the last reference to a Statement changes nothing that the     *)
(* library holds.                                                          *)
LEMMA InvDropStatement ==
    ASSUME IInv, NEW p \in Proc, NEW s \in Stmt, DropStatement(p, s)
    PROVE  SafetyInv'
<1>1. \A r \in Proc, t \in Stmt :
        IF r = p /\ t = s
        THEN /\ sobj'[r][t] = "garbage" /\ st'[r][t] = st[r][t]
             /\ sdb'[r][t] = sdb[r][t]
        ELSE /\ sobj'[r][t] = sobj[r][t] /\ st'[r][t] = st[r][t]
             /\ sdb'[r][t] = sdb[r][t]
  BY DEF DropStatement, IInv, TypeOK
<1>2. UNCHANGED <<proc, hook, todo, tracked, obj, ptr, flags, owner, handle,
                  born, used>>
  BY DEF DropStatement, hookVars, connVars
<1>4. ObjectInv'
  BY <1>2 DEF IInv, SafetyInv, ObjectInv
<1>5. TrackedInv'
  BY <1>2 DEF IInv, SafetyInv, TrackedInv, Readonly
<1>6. HistoryInv'
  BY <1>2 DEF IInv, SafetyInv, HistoryInv, Foreign, Readonly
<1>7. StatementInv'
  BY <1>1 DEF IInv, SafetyInv, StatementInv
<1>8. HookLeavesNoWriter'
  BY <1>2 DEF IInv, SafetyInv, HookLeavesNoWriter, Foreign, Readonly
<1>9. NoForeignClose'
  BY <1>2 DEF IInv, SafetyInv, NoForeignClose, Foreign, Readonly
<1>10. NoForeignUse'
  BY <1>2 DEF IInv, SafetyInv, NoForeignUse, Foreign, Readonly
<1>11. DiscardIsExact'
  BY <1>2 DEF IInv, SafetyInv, DiscardIsExact, Foreign, Readonly, Discarded
<1>12. NoDanglingPointer'
  BY <1>1, <1>2 DEF IInv, SafetyInv, NoDanglingPointer
<1>13. ZombieHasStatement'
  BY <1>1, <1>2 DEF IInv, SafetyInv, ZombieHasStatement
<1> QED
  BY <1>4, <1>5, <1>6, <1>7, <1>8, <1>9, <1>10, <1>11, <1>12, <1>13
     DEF SafetyInv

(* What sqlite3_finalize does to the connection of its statement.          *)
FinalizedAs(p, s) ==
    LET c == sdb[p][s]
    IN  \/ /\ handle[p][c] = "zombie" /\ handle'[p][c] = "freed"
           /\ \A t \in Stmt : st[p][t] # "NULL" /\ sdb[p][t] = c => t = s
        \/ /\ handle[p][c] # "zombie" /\ handle'[p][c] = handle[p][c]
        \/ /\ handle[p][c] = "zombie" /\ handle'[p][c] = "zombie"
           /\ \E t \in Stmt : t # s /\ st[p][t] # "NULL" /\ sdb[p][t] = c

(* sqlite3_finalize in the terms of the invariant: the last statement of a *)
(* zombie frees the connection.                                            *)
LEMMA FinalizeEffect ==
    ASSUME IInv, NEW p \in Proc, NEW s \in Stmt, Finalize(p, s),
           st[p][s] # "NULL"
    PROVE  /\ \A r \in Proc, t \in Stmt :
                 st'[r][t] = IF r = p /\ t = s THEN "NULL" ELSE st[r][t]
           /\ \A r \in Proc, d \in Conn :
                 ~(r = p /\ d = sdb[p][s]) => handle'[r][d] = handle[r][d]
           /\ FinalizedAs(p, s)
<1>1. \A r \in Proc, t \in Stmt :
        st'[r][t] = IF r = p /\ t = s THEN "NULL" ELSE st[r][t]
  BY DEF Finalize, IInv, TypeOK
<1>2. sdb[p][s] \in Conn
  BY DEF IInv, TypeOK
<1>3. \A r \in Proc, d \in Conn :
        handle'[r][d] = IF r = p /\ d = sdb[p][s]
                        THEN AfterFinalize(p, s) ELSE handle[r][d]
  BY DEF Finalize, IInv, TypeOK
<1>4. FinalizedAs(p, s)
  <2>1. handle'[p][sdb[p][s]] = AfterFinalize(p, s)
    BY <1>2, <1>3
  <2>3. CASE OpenStmts(p, sdb[p][s]) = {s}
    <3>1. \A t \in Stmt : st[p][t] # "NULL" /\ sdb[p][t] = sdb[p][s] => t = s
      BY <2>3 DEF OpenStmts
    <3> QED
      BY <2>1, <2>3, <3>1 DEF FinalizedAs, AfterFinalize
  <2>4. CASE OpenStmts(p, sdb[p][s]) # {s}
    <3>1. \E t \in Stmt : t # s /\ st[p][t] # "NULL" /\ sdb[p][t] = sdb[p][s]
      BY <2>4 DEF OpenStmts
    <3> QED
      BY <2>1, <2>4, <3>1 DEF FinalizedAs, AfterFinalize
  <2> QED
    BY <2>3, <2>4
<1> QED
  BY <1>1, <1>3, <1>4

(* Finalizing a statement, whatever happens to its object, keeps the       *)
(* invariant (sqlite3_finalize, in close and in the free function).        *)
LEMMA FinalizePreserves ==
    ASSUME IInv, NEW p \in Proc, NEW s \in Stmt, Finalize(p, s),
           st[p][s] # "NULL",
           \A r \in Proc, t \in Stmt :
              sobj'[r][t] = sobj[r][t] \/ (r = p /\ t = s /\ sobj'[r][t] = "freed"),
           UNCHANGED <<proc, hook, todo, tracked, obj, ptr, flags, owner, sdb,
                       born, used>>
    PROVE  SafetyInv'
<1>1. /\ \A r \in Proc, t \in Stmt :
            st'[r][t] = IF r = p /\ t = s THEN "NULL" ELSE st[r][t]
      /\ \A r \in Proc, d \in Conn :
            ~(r = p /\ d = sdb[p][s]) => handle'[r][d] = handle[r][d]
      /\ FinalizedAs(p, s)
  BY FinalizeEffect
<1>2. \A r \in Proc, t \in Stmt : sdb[r][t] \in Conn
  BY DEF IInv, TypeOK
<1>3. ObjectInv'
  BY <1>1 DEF IInv, SafetyInv, ObjectInv, FinalizedAs
<1>4. TrackedInv'
  BY DEF IInv, SafetyInv, TrackedInv, Readonly
<1>5. HistoryInv'
  BY <1>1 DEF IInv, SafetyInv, HistoryInv, Foreign, Readonly, FinalizedAs
<1>6. StatementInv'
  BY <1>1 DEF IInv, SafetyInv, StatementInv
<1>7. HookLeavesNoWriter'
  BY DEF IInv, SafetyInv, HookLeavesNoWriter, Foreign, Readonly
<1>8. NoForeignClose'
  BY <1>1 DEF IInv, SafetyInv, NoForeignClose, Foreign, Readonly, FinalizedAs
<1>9. NoForeignUse'
  BY DEF IInv, SafetyInv, NoForeignUse, Foreign, Readonly
<1>10. DiscardIsExact'
  BY <1>1
     DEF IInv, SafetyInv, DiscardIsExact, Foreign, Readonly, Discarded,
         FinalizedAs
<1>11. NoDanglingPointer'
  BY <1>1, <1>2 DEF IInv, SafetyInv, NoDanglingPointer, FinalizedAs
<1>12. ZombieHasStatement'
  BY <1>1 DEF IInv, SafetyInv, ZombieHasStatement, FinalizedAs
<1> QED
  BY <1>3, <1>4, <1>5, <1>6, <1>7, <1>8, <1>9, <1>10, <1>11, <1>12
     DEF SafetyInv

(* Statement#close finalizes; the object stays.                            *)
LEMMA InvCloseStatement ==
    ASSUME IInv, NEW p \in Proc, NEW s \in Stmt, CloseStatement(p, s)
    PROVE  SafetyInv'
<1>1. /\ Finalize(p, s) /\ st[p][s] # "NULL"
      /\ UNCHANGED <<proc, hook, todo, tracked, obj, ptr, flags, owner, sobj,
                     sdb,
                     born, used>>
  BY DEF CloseStatement, hookVars
<1> QED
  BY <1>1, FinalizePreserves

(* The free function of a Statement finalizes what is left of it           *)
(* (statement_free).                                                       *)
LEMMA InvDeallocateStatement ==
    ASSUME IInv, NEW p \in Proc, NEW s \in Stmt, DeallocateStatement(p, s)
    PROVE  SafetyInv'
<1>1. /\ UNCHANGED <<proc, hook, todo, tracked, obj, ptr, flags, owner, sdb,
                     born,
                     used>>
      /\ \A r \in Proc, t \in Stmt :
            sobj'[r][t] = IF r = p /\ t = s THEN "freed" ELSE sobj[r][t]
  BY DEF DeallocateStatement, hookVars, IInv, TypeOK
<1>2. CASE st[p][s] # "NULL"
  <2>1. Finalize(p, s)
    BY <1>2 DEF DeallocateStatement
  <2> QED
    BY <1>1, <1>2, <2>1, FinalizePreserves
<1>3. CASE st[p][s] = "NULL"
  <2>1. UNCHANGED <<st, handle>>
    BY <1>3 DEF DeallocateStatement
  <2>2. ObjectInv'
    BY <1>1, <2>1 DEF IInv, SafetyInv, ObjectInv
  <2>3. TrackedInv'
    BY <1>1 DEF IInv, SafetyInv, TrackedInv, Readonly
  <2>4. HistoryInv'
    BY <1>1, <2>1 DEF IInv, SafetyInv, HistoryInv, Foreign, Readonly
  <2>5. StatementInv'
    BY <1>1, <2>1 DEF IInv, SafetyInv, StatementInv
  <2>6. HookLeavesNoWriter'
    BY <1>1 DEF IInv, SafetyInv, HookLeavesNoWriter, Foreign, Readonly
  <2>7. NoForeignClose'
    BY <1>1, <2>1 DEF IInv, SafetyInv, NoForeignClose, Foreign, Readonly
  <2>8. NoForeignUse'
    BY <1>1 DEF IInv, SafetyInv, NoForeignUse, Foreign, Readonly
  <2>9. DiscardIsExact'
    BY <1>1, <2>1
       DEF IInv, SafetyInv, DiscardIsExact, Foreign, Readonly, Discarded
  <2>10. NoDanglingPointer'
    BY <1>1, <2>1 DEF IInv, SafetyInv, NoDanglingPointer
  <2>11. ZombieHasStatement'
    BY <1>1, <2>1 DEF IInv, SafetyInv, ZombieHasStatement
  <2> QED
    BY <2>2, <2>3, <2>4, <2>5, <2>6, <2>7, <2>8, <2>9, <2>10, <2>11
       DEF SafetyInv
<1> QED
  BY <1>2, <1>3

-----------------------------------------------------------------------------
(* The hook passes over references that are dead and Databases that are    *)
(* closed or read-only (ForkSafety.discard).                               *)
LEMMA InvHookSkips ==
    ASSUME IInv, NEW p \in Proc, NEW c \in Conn, HookSkips(p, c)
    PROVE  SafetyInv'
<1>1. UNCHANGED <<proc, hook, tracked, obj, ptr, flags, owner, handle, sobj,
                  st, sdb, born, used>>
  BY DEF HookSkips, connVars, stmtVars
<1>2. \A r \in Proc : todo'[r] = IF r = p THEN todo[p] \ {c} ELSE todo[r]
  BY DEF HookSkips, IInv, TypeOK
<1>3. obj[p][c] \in {"garbage", "freed"} \/ ptr[p][c] = "NULL" \/ Readonly(p, c)
  BY DEF HookSkips
<1>5. ObjectInv'
  BY <1>1 DEF IInv, SafetyInv, ObjectInv
<1>6. TrackedInv'
  BY <1>1, <1>2, <1>3 DEF IInv, SafetyInv, TrackedInv, Readonly
<1>7. HistoryInv'
  BY <1>1 DEF IInv, SafetyInv, HistoryInv, Foreign, Readonly
<1>8. StatementInv'
  BY <1>1 DEF IInv, SafetyInv, StatementInv
<1>9. HookLeavesNoWriter'
  BY <1>1 DEF IInv, SafetyInv, HookLeavesNoWriter, Foreign, Readonly
<1>10. NoForeignClose'
  BY <1>1 DEF IInv, SafetyInv, NoForeignClose, Foreign, Readonly
<1>11. NoForeignUse'
  BY <1>1 DEF IInv, SafetyInv, NoForeignUse, Foreign, Readonly
<1>12. DiscardIsExact'
  BY <1>1 DEF IInv, SafetyInv, DiscardIsExact, Foreign, Readonly, Discarded
<1>13. NoDanglingPointer'
  BY <1>1 DEF IInv, SafetyInv, NoDanglingPointer
<1>14. ZombieHasStatement'
  BY <1>1 DEF IInv, SafetyInv, ZombieHasStatement
<1> QED
  BY <1>5, <1>6, <1>7, <1>8, <1>9, <1>10, <1>11, <1>12, <1>13, <1>14
     DEF SafetyInv

(* The hook's warning may raise; it then goes no further, and the promises *)
(* that need a finished hook are void.                                     *)
LEMMA InvHookWarnRaises ==
    ASSUME IInv, NEW p \in Proc, NEW c \in Conn, HookWarnRaises(p, c)
    PROVE  SafetyInv'
<1>1. UNCHANGED <<proc, tracked, obj, ptr, flags, owner, handle, sobj, st,
                  sdb, born, used>>
  BY DEF HookWarnRaises, connVars, stmtVars
<1>2. \A r \in Proc :
         IF r = p THEN hook'[r] = "raised" ELSE hook'[r] = hook[r] /\ todo'[r] = todo[r]
  BY DEF HookWarnRaises, IInv, TypeOK
<1>4. ObjectInv'
  BY <1>1 DEF IInv, SafetyInv, ObjectInv
<1>5. TrackedInv'
  BY <1>1, <1>2 DEF IInv, SafetyInv, TrackedInv, Readonly
<1>6. HistoryInv'
  BY <1>1, <1>2 DEF IInv, SafetyInv, HistoryInv, Foreign, Readonly
<1>7. StatementInv'
  BY <1>1 DEF IInv, SafetyInv, StatementInv
<1>8. HookLeavesNoWriter'
  BY <1>1, <1>2 DEF IInv, SafetyInv, HookLeavesNoWriter, Foreign, Readonly
<1>9. NoForeignClose'
  BY <1>1 DEF IInv, SafetyInv, NoForeignClose, Foreign, Readonly
<1>10. NoForeignUse'
  BY <1>1, <1>2 DEF IInv, SafetyInv, NoForeignUse, Foreign, Readonly
<1>11. DiscardIsExact'
  BY <1>1 DEF IInv, SafetyInv, DiscardIsExact, Foreign, Readonly, Discarded
<1>12. NoDanglingPointer'
  BY <1>1 DEF IInv, SafetyInv, NoDanglingPointer
<1>13. ZombieHasStatement'
  BY <1>1 DEF IInv, SafetyInv, ZombieHasStatement
<1> QED
  BY <1>4, <1>5, <1>6, <1>7, <1>8, <1>9, <1>10, <1>11, <1>12, <1>13
     DEF SafetyInv

(* When the list is exhausted no reachable writable connection is left on  *)
(* it, so ForkSafety.discard may clear it; and the child has run no SQL.   *)
LEMMA InvHookReturns ==
    ASSUME IInv, NEW p \in Proc, HookReturns(p)
    PROVE  SafetyInv'
<1>1. UNCHANGED <<proc, todo, obj, ptr, flags, owner, handle, sobj, st, sdb,
                  born, used>>
  BY DEF HookReturns, connVars, stmtVars
<1>2. \A r \in Proc : IF r = p THEN hook'[r] = "done" /\ tracked'[r] = {}
                      ELSE hook'[r] = hook[r] /\ tracked'[r] = tracked[r]
  BY DEF HookReturns, IInv, TypeOK
<1>3. hook[p] = "running" /\ todo[p] = {}
  BY DEF HookReturns
<1>5. ObjectInv'
  BY <1>1 DEF IInv, SafetyInv, ObjectInv
<1>6. TrackedInv'
  BY <1>1, <1>2, <1>3 DEF IInv, SafetyInv, TrackedInv, Readonly
<1>7. HistoryInv'
  BY <1>1, <1>2 DEF IInv, SafetyInv, HistoryInv, Foreign, Readonly
<1>8. StatementInv'
  BY <1>1 DEF IInv, SafetyInv, StatementInv
<1>9. HookLeavesNoWriter'
  BY <1>1, <1>2, <1>3
     DEF IInv, SafetyInv, HookLeavesNoWriter, Foreign, Readonly, TrackedInv
<1>10. NoForeignClose'
  BY <1>1 DEF IInv, SafetyInv, NoForeignClose, Foreign, Readonly
<1>11. NoForeignUse'
  BY <1>1, <1>2, <1>3
     DEF IInv, SafetyInv, NoForeignUse, Foreign, Readonly, HistoryInv
<1>12. DiscardIsExact'
  BY <1>1 DEF IInv, SafetyInv, DiscardIsExact, Foreign, Readonly, Discarded
<1>13. NoDanglingPointer'
  BY <1>1 DEF IInv, SafetyInv, NoDanglingPointer
<1>14. ZombieHasStatement'
  BY <1>1 DEF IInv, SafetyInv, ZombieHasStatement
<1> QED
  BY <1>5, <1>6, <1>7, <1>8, <1>9, <1>10, <1>11, <1>12, <1>13, <1>14
     DEF SafetyInv

(* The child starts with a copy of a state that satisfies the invariant;   *)
(* its own process id is new, so everything writable that it inherits is   *)
(* foreign to it.                                                          *)
LEMMA InvFork ==
    ASSUME IInv, NEW p \in Proc, NEW q \in Proc, NEW hooked \in BOOLEAN,
           NEW silent \in BOOLEAN, Fork(p, q, hooked, silent)
    PROVE  SafetyInv'
<1>1. \A r \in Proc, d \in Conn :
        IF r = q
        THEN /\ obj'[r][d] = Inherited(obj[p][d]) /\ ptr'[r][d] = ptr[p][d]
             /\ flags'[r][d] = flags[p][d] /\ owner'[r][d] = owner[p][d]
             /\ handle'[r][d] = handle[p][d] /\ born'[r][d] = handle[p][d]
        ELSE /\ obj'[r][d] = obj[r][d] /\ ptr'[r][d] = ptr[r][d]
             /\ flags'[r][d] = flags[r][d]
             /\ owner'[r][d] = owner[r][d] /\ handle'[r][d] = handle[r][d]
             /\ born'[r][d] = born[r][d]
  BY DEF Fork, IInv, TypeOK
<1>2. \A r \in Proc, t \in Stmt :
        IF r = q
        THEN /\ sobj'[r][t] = sobj[p][t] /\ st'[r][t] = st[p][t]
             /\ sdb'[r][t] = sdb[p][t]
        ELSE /\ sobj'[r][t] = sobj[r][t] /\ st'[r][t] = st[r][t]
             /\ sdb'[r][t] = sdb[r][t]
  BY DEF Fork, IInv, TypeOK
<1>3. \A r \in Proc :
        IF r = q
        THEN /\ proc'[r] = "running" /\ hook'[r] \in {"idle", "running"}
             /\ (hook'[r] = "running" => todo'[r] = tracked[p])
             /\ tracked'[r] = tracked[p] /\ used'[r] = {}
        ELSE /\ proc'[r] = proc[r] /\ hook'[r] = hook[r] /\ todo'[r] = todo[r]
             /\ tracked'[r] = tracked[r] /\ used'[r] = used[r]
  BY DEF Fork, IInv, TypeOK
<1>4. p # q /\ proc[q] = "unborn" /\ proc[p] = "running" /\ hook[p] # "running"
  BY DEF Fork, Runs
<1>5. \A r \in Proc, d \in Conn : owner[r][d] \in Proc
  BY DEF IInv, TypeOK
<1>6. \A d \in Conn :
        /\ Inherited(obj[p][d]) # "opening"
        /\ Inherited(obj[p][d]) = "live" <=> obj[p][d] = "live"
        /\ Inherited(obj[p][d]) = "none" <=> obj[p][d] = "none"
  BY DEF Inherited
<1>7. \A r \in Proc, t \in Stmt : sdb[r][t] \in Conn
  BY DEF IInv, TypeOK
<1>8. ObjectInv'
  BY <1>1, <1>3, <1>5, <1>6 DEF IInv, SafetyInv, ObjectInv
<1>9. TrackedInv'
  BY <1>1, <1>3, <1>6 DEF IInv, SafetyInv, TrackedInv, Readonly
<1>10. HistoryInv'
  BY <1>1, <1>3 DEF IInv, SafetyInv, HistoryInv, Foreign, Readonly
<1>11. StatementInv'
  BY <1>2 DEF IInv, SafetyInv, StatementInv
<1>12. HookLeavesNoWriter'
  BY <1>1, <1>3 DEF IInv, SafetyInv, HookLeavesNoWriter, Foreign, Readonly
<1>13. NoForeignClose'
  BY <1>1 DEF IInv, SafetyInv, NoForeignClose, Foreign, Readonly
<1>14. NoForeignUse'
  BY <1>1, <1>3 DEF IInv, SafetyInv, NoForeignUse, Foreign, Readonly
<1>15. DiscardIsExact'
  BY <1>1, <1>4, <1>6
     DEF IInv, SafetyInv, DiscardIsExact, Foreign, Readonly, Discarded,
         ObjectInv
<1>16. NoDanglingPointer'
  <2>1. \A r \in Proc, d \in Conn :
          ptr'[r][d] # "NULL" <=> handle'[r][d] = "open"
    BY <1>1 DEF IInv, SafetyInv, NoDanglingPointer
  <2>2. ASSUME NEW r \in Proc, NEW t \in Stmt
        PROVE  /\ st'[r][t] # "NULL"
                     => handle'[r][sdb'[r][t]] \in {"open", "zombie", "abandoned"}
               /\ sobj'[r][t] = "live" => obj'[r][sdb'[r][t]] = "live"
    <3>1. CASE r = q
      BY <1>1, <1>2, <1>6, <1>7, <3>1 DEF IInv, SafetyInv, NoDanglingPointer
    <3>2. CASE r # q
      BY <1>1, <1>2, <1>7, <3>2 DEF IInv, SafetyInv, NoDanglingPointer
    <3> QED
      BY <3>1, <3>2
  <2> QED
    BY <2>1, <2>2 DEF NoDanglingPointer
<1>17. ZombieHasStatement'
  <2> SUFFICES ASSUME NEW r \in Proc, NEW d \in Conn, handle'[r][d] = "zombie"
               PROVE  \E t \in Stmt : st'[r][t] # "NULL" /\ sdb'[r][t] = d
    BY DEF ZombieHasStatement
  <2>1. PICK a \in Proc : a = IF r = q THEN p ELSE r
    OBVIOUS
  <2>2. PICK t \in Stmt : st[a][t] # "NULL" /\ sdb[a][t] = d
    BY <1>1, <2>1 DEF IInv, SafetyInv, ZombieHasStatement
  <2> QED
    BY <1>2, <2>1, <2>2
<1> QED
  BY <1>8, <1>9, <1>10, <1>11, <1>12, <1>13, <1>14, <1>15, <1>16, <1>17
     DEF SafetyInv

(* An orderly exit leaves every object to its free function: nothing is    *)
(* reachable any more, and no connection changes yet.                      *)
LEMMA InvExit ==
    ASSUME IInv, NEW p \in Proc, Exit(p)
    PROVE  SafetyInv'
<1>1. UNCHANGED <<hook, todo, tracked, ptr, flags, owner, handle, st, sdb,
                  born, used>>
  BY DEF Exit, hookVars
<1>2. \A r \in Proc, d \in Conn :
        obj'[r][d] = IF r = p /\ obj[r][d] \in {"opening", "live"}
                     THEN "garbage" ELSE obj[r][d]
  BY DEF Exit, IInv, TypeOK
<1>3. \A r \in Proc, t \in Stmt :
        sobj'[r][t] = IF r = p /\ sobj[r][t] = "live"
                      THEN "garbage" ELSE sobj[r][t]
  BY DEF Exit, IInv, TypeOK
<1>4. \A r \in Proc : proc'[r] = IF r = p THEN "exiting" ELSE proc[r]
  BY DEF Exit, IInv, TypeOK
<1>5. \A r \in Proc, d \in Conn : owner[r][d] \in Proc
  BY DEF IInv, TypeOK
<1>7. \A r \in Proc, t \in Stmt : sdb[r][t] \in Conn
  BY DEF IInv, TypeOK
<1>8. ObjectInv'
  BY <1>1, <1>2, <1>4, <1>5 DEF IInv, SafetyInv, ObjectInv
<1>9. TrackedInv'
  BY <1>1, <1>2 DEF IInv, SafetyInv, TrackedInv, Readonly
<1>10. HistoryInv'
  BY <1>1, <1>2 DEF IInv, SafetyInv, HistoryInv, Foreign, Readonly
<1>11. StatementInv'
  BY <1>1, <1>3 DEF IInv, SafetyInv, StatementInv
<1>12. HookLeavesNoWriter'
  BY <1>1, <1>2 DEF IInv, SafetyInv, HookLeavesNoWriter, Foreign, Readonly
<1>13. NoForeignClose'
  BY <1>1, <1>2 DEF IInv, SafetyInv, NoForeignClose, Foreign, Readonly
<1>14. NoForeignUse'
  BY <1>1, <1>2 DEF IInv, SafetyInv, NoForeignUse, Foreign, Readonly
<1>15. DiscardIsExact'
  BY <1>1, <1>2
     DEF IInv, SafetyInv, DiscardIsExact, Foreign, Readonly, Discarded
<1>16. NoDanglingPointer'
  BY <1>1, <1>2, <1>3, <1>7 DEF IInv, SafetyInv, NoDanglingPointer
<1>17. ZombieHasStatement'
  BY <1>1 DEF IInv, SafetyInv, ZombieHasStatement
<1> QED
  BY <1>8, <1>9, <1>10, <1>11, <1>12, <1>13, <1>14, <1>15, <1>16, <1>17
     DEF SafetyInv

-----------------------------------------------------------------------------
(* The invariant holds when the first process starts, with nothing opened. *)
LEMMA InvInit == Init => IInv
<1> SUFFICES ASSUME Init PROVE IInv
  OBVIOUS
<1>1. TypeOK
  BY RootAssumption
     DEF Init, TypeOK, ProcState, HookState, ObjState, HandleState,
         StmtObjState
<1>2. /\ \A p \in Proc, c \in Conn :
            /\ obj[p][c] = "none" /\ ptr[p][c] = "NULL" /\ flags[p][c] = {}
            /\ handle[p][c] = "none"
      /\ \A p \in Proc, s \in Stmt : sobj[p][s] = "none" /\ st[p][s] = "NULL"
      /\ \A p \in Proc : hook[p] = "idle"
  BY DEF Init
<1>3. SafetyInv
  BY <1>2
     DEF SafetyInv, ObjectInv, TrackedInv, HistoryInv, StatementInv,
         HookLeavesNoWriter, NoForeignClose, NoForeignUse, DiscardIsExact,
         NoDanglingPointer, ZombieHasStatement, Foreign, Discarded
<1> QED
  BY <1>1, <1>3 DEF IInv

(* The invariant is about the variables of the specification only.         *)
LEMMA InvStutter == IInv /\ UNCHANGED vars => SafetyInv'
<1> SUFFICES ASSUME IInv, UNCHANGED vars PROVE SafetyInv'
  OBVIOUS
<1> USE DEF IInv, SafetyInv, vars, hookVars, connVars, stmtVars
<1>1. ObjectInv'
  BY DEF ObjectInv
<1>2. TrackedInv'
  BY DEF TrackedInv, Readonly
<1>3. HistoryInv'
  BY DEF HistoryInv, Foreign, Readonly
<1>4. StatementInv'
  BY DEF StatementInv
<1>5. HookLeavesNoWriter'
  BY DEF HookLeavesNoWriter, Foreign, Readonly
<1>6. NoForeignClose'
  BY DEF NoForeignClose, Foreign, Readonly
<1>7. NoForeignUse'
  BY DEF NoForeignUse, Foreign, Readonly
<1>8. DiscardIsExact'
  BY DEF DiscardIsExact, Foreign, Readonly, Discarded
<1>9. NoDanglingPointer'
  BY DEF NoDanglingPointer
<1>10. ZombieHasStatement'
  BY DEF ZombieHasStatement
<1> QED
  BY <1>1, <1>2, <1>3, <1>4, <1>5, <1>6, <1>7, <1>8, <1>9, <1>10

(* Every step keeps the inductive invariant: one case per action of Next,  *)
(* by the lemmas above.                                                    *)
LEMMA InvStep ==
    IInv /\ [Next]_vars => IInv'
<1> SUFFICES ASSUME IInv, [Next]_vars PROVE SafetyInv'
  BY TypeStep DEF IInv
<1>1. ASSUME NEW p \in Proc, NEW c \in Conn, DatabaseStep(p, c)
      PROVE  SafetyInv'
  BY <1>1, InvOpen, InvOpenFails, InvInitializeFails, InvTrack,
     InvUseDatabase, InvClose, InvDropDatabase DEF DatabaseStep, Open16
<1>2. ASSUME NEW p \in Proc, NEW s \in Stmt, StatementStep(p, s)
      PROVE  SafetyInv'
  BY <1>2, InvPrepare, InvPrepareFails, InvStatementStep, InvCloseStatement,
     InvDropStatement DEF StatementStep
<1>3. ASSUME NEW p \in Proc, NEW q \in Proc, NEW hooked \in BOOLEAN,
             NEW silent \in BOOLEAN, Fork(p, q, hooked, silent)
      PROVE  SafetyInv'
  BY <1>3, InvFork
<1>4. ASSUME NEW p \in Proc, HookStep(p)
      PROVE  SafetyInv'
  BY <1>4, InvHookSkips, InvHookCloses, InvHookWarnRaises, InvHookReturns
     DEF HookStep
<1>5. ASSUME NEW p \in Proc, FreeStep(p)
      PROVE  SafetyInv'
  BY <1>5, InvDeallocate, InvDeallocateStatement DEF FreeStep
<1>6. ASSUME NEW p \in Proc, Exit(p)
      PROVE  SafetyInv'
  BY <1>6, InvExit
<1>7. CASE UNCHANGED vars
  BY <1>7, InvStutter
<1> QED
  BY <1>1, <1>2, <1>3, <1>4, <1>5, <1>6, <1>7 DEF Next

(* The inductive invariant, the conjunction of the six promises with the   *)
(* facts about objects, the list, the hook's progress and the statements   *)
(* they rest on, holds in every state of every behaviour.                  *)
THEOREM Invariance == Spec => []IInv
<1> QED
  BY InvInit, InvStep, PTL DEF Spec

(* After the hook no reachable Database of a child has an inherited         *)
(* writable connection open, whatever the parent was doing at the fork.    *)
THEOREM HookLeavesNoWriter_Holds == Spec => []HookLeavesNoWriter
<1>1. IInv => HookLeavesNoWriter
  BY DEF IInv, SafetyInv
<1> QED
  BY <1>1, Invariance, PTL

(* sqlite3_close_v2 is applied to a writable connection only by the process *)
(* that opened it, with or without the hook.                               *)
THEOREM NoForeignClose_Holds == Spec => []NoForeignClose
<1>1. IInv => NoForeignClose
  BY DEF IInv, SafetyInv
<1> QED
  BY <1>1, Invariance, PTL

(* After the hook a child does not use an inherited writable connection     *)
(* unless the parent had closed it with statements still open.             *)
THEOREM NoForeignUse_Holds == Spec => []NoForeignUse
<1>1. IInv => NoForeignUse
  BY DEF IInv, SafetyInv
<1> QED
  BY <1>1, Invariance, PTL

(* Exactly the inherited writable connections are ever discarded, and their *)
(* flag is always set.                                                     *)
THEOREM DiscardIsExact_Holds == Spec => []DiscardIsExact
<1>1. IInv => DiscardIsExact
  BY DEF IInv, SafetyInv
<1> QED
  BY <1>1, Invariance, PTL

(* Neither a Database nor a Statement ever holds a pointer to memory that   *)
(* has been freed.                                                         *)
THEOREM NoDanglingPointer_Holds == Spec => []NoDanglingPointer
<1>1. IInv => NoDanglingPointer
  BY DEF IInv, SafetyInv
<1> QED
  BY <1>1, Invariance, PTL

(* A closed connection is kept only while one of its statements is open.    *)
THEOREM ZombieHasStatement_Holds == Spec => []ZombieHasStatement
<1>1. IInv => ZombieHasStatement
  BY DEF IInv, SafetyInv
<1> QED
  BY <1>1, Invariance, PTL

-----------------------------------------------------------------------------
(* ForkSafety implements ConnectionCopies: the initial states map to       *)
(* initial states, and every step of a process maps to a step of           *)
(* ConnectionCopies or to a stutter.                                       *)

(* Access depends on three fields of a connection only.                    *)
LEMMA SameAccess ==
    ASSUME NEW p \in Proc, NEW c \in Conn,
           handle'[p][c] = handle[p][c], flags'[p][c] = flags[p][c],
           owner'[p][c] = owner[p][c]
    PROVE  Access(p, c)' = Access(p, c)
<1> QED
  BY DEF Access, Readonly

(* A step that changes no access and bears no process is a stutter.        *)
LEMMA Stutter ==
    ASSUME UNCHANGED proc,
           \A r \in Proc, d \in Conn : Access(r, d)' = Access(r, d)
    PROVE  UNCHANGED Copies!copyVars
<1> QED
  BY DEF Copies!copyVars

(* The same, for a step that leaves the connections alone.                 *)
LEMMA StutterAlone ==
    ASSUME UNCHANGED <<proc, handle, flags, owner>>
    PROVE  UNCHANGED Copies!copyVars
<1>1. \A r \in Proc, d \in Conn : Access(r, d)' = Access(r, d)
  BY DEF Access, Readonly
<1> QED
  BY <1>1, Stutter

(* Database.new, by open_v2 or open16, opens a connection that the process *)
(* owns, or that is readonly.                                              *)
LEMMA OpenMaps ==
    ASSUME IInv, NEW p \in Proc, NEW c \in Conn,
           NEW mode \in {{}, {"READONLY"}}, Open(p, c, mode)
    PROVE  Copies!Open(p, c)
<1> DEFINE a == IF "READONLY" \in mode THEN "shared" ELSE "own"
<1>1. /\ obj[p][c] = "none" /\ handle[p][c] = "none"
      /\ proc[p] # "unborn" /\ UNCHANGED proc
  BY DEF Open, Runs, IInv, SafetyInv, ObjectInv
<1>2. \A r \in Proc, d \in Conn :
        IF r = p /\ d = c
        THEN handle'[r][d] = "open" /\ flags'[r][d] = mode /\ owner'[r][d] = p
        ELSE /\ handle'[r][d] = handle[r][d] /\ flags'[r][d] = flags[r][d]
             /\ owner'[r][d] = owner[r][d]
  BY DEF Open, IInv, TypeOK
<1>3. Access(p, c)' = a
  BY <1>2 DEF Access, Readonly
<1>4. \A r \in Proc, d \in Conn :
        Access(r, d)' = IF r = p /\ d = c THEN a ELSE Access(r, d)
  BY <1>2, <1>3, SameAccess
<1>5. Access(p, c) = "none"
  BY <1>1 DEF Access
<1>6. [r \in Proc |-> [d \in Conn |-> Access(r, d)]]'
        = [[r \in Proc |-> [d \in Conn |-> Access(r, d)]] EXCEPT ![p][c] = a]
  BY <1>4
<1> QED
  BY <1>1, <1>5, <1>6 DEF Copies!Open

(* close_or_discard_db closes what the process owns or may only read,      *)
(* abandons a copy, and leaves the rest alone.                             *)
LEMMA CloseMaps ==
    ASSUME IInv, NEW p \in Proc, NEW c \in Conn, CloseOrDiscard(p, c),
           UNCHANGED <<proc, owner>>
    PROVE  \/ Copies!Close(p, c)
           \/ Copies!Abandon(p, c)
           \/ UNCHANGED Copies!copyVars
<1>1. /\ \A r \in Proc, d \in Conn :
            ~(r = p /\ d = c)
               => /\ ptr'[r][d] = ptr[r][d] /\ flags'[r][d] = flags[r][d]
                  /\ handle'[r][d] = handle[r][d]
      /\ ClosedAs(p, c)
  BY CloseEffect
<1>2. \A r \in Proc, d \in Conn :
        ~(r = p /\ d = c) => Access(r, d)' = Access(r, d)
  BY <1>1, SameAccess
<1>3. ptr[p][c] # "NULL" => handle[p][c] = "open"
  BY DEF IInv, SafetyInv, NoDanglingPointer
<1>4. \/ Access(p, c)' = Access(p, c)
      \/ Access(p, c) \in {"own", "shared"} /\ Access(p, c)' = "closed"
      \/ Access(p, c) = "copy" /\ Access(p, c)' = "abandoned"
  BY <1>1, <1>3 DEF ClosedAs, Access, Readonly, MayCloseOrdinarily
<1>5. CASE Access(p, c)' = Access(p, c)
  BY <1>2, <1>5, Stutter
<1>6. CASE Access(p, c) \in {"own", "shared"} /\ Access(p, c)' = "closed"
  <2>1. [r \in Proc |-> [d \in Conn |-> Access(r, d)]]'
          = [[r \in Proc |-> [d \in Conn |-> Access(r, d)]] EXCEPT ![p][c] = "closed"]
    BY <1>2, <1>6
  <2> QED
    BY <1>6, <2>1 DEF Copies!Close
<1>7. CASE Access(p, c) = "copy" /\ Access(p, c)' = "abandoned"
  <2>1. [r \in Proc |-> [d \in Conn |-> Access(r, d)]]'
          = [[r \in Proc |-> [d \in Conn |-> Access(r, d)]] EXCEPT ![p][c] = "abandoned"]
    BY <1>2, <1>7
  <2> QED
    BY <1>7, <2>1 DEF Copies!Abandon
<1> QED
  BY <1>4, <1>5, <1>6, <1>7

(* sqlite3_finalize frees a zombie, which was closed already.              *)
LEMMA FinalizeMaps ==
    ASSUME IInv, NEW p \in Proc, NEW s \in Stmt, Finalize(p, s),
           st[p][s] # "NULL", UNCHANGED <<proc, flags, owner>>
    PROVE  UNCHANGED Copies!copyVars
<1>1. /\ \A r \in Proc, d \in Conn :
            ~(r = p /\ d = sdb[p][s]) => handle'[r][d] = handle[r][d]
      /\ FinalizedAs(p, s)
  BY FinalizeEffect
<1>2. PICK c \in Conn : c = sdb[p][s]
  BY DEF IInv, TypeOK
<1>3. Access(p, c)' = Access(p, c)
  BY <1>1 DEF FinalizedAs, Access, Readonly
<1>4. \A r \in Proc, d \in Conn :
        ~(r = p /\ d = c) => Access(r, d)' = Access(r, d)
  BY <1>1, <1>2, SameAccess
<1>5. \A r \in Proc, d \in Conn : Access(r, d)' = Access(r, d)
  BY <1>3, <1>4
<1> QED
  BY <1>5, Stutter

(* The child of a fork gets copies of what its parent owns: nothing that   *)
(* the child inherits has the child for its owner.                         *)
LEMMA ForkMaps ==
    ASSUME IInv, NEW p \in Proc, NEW q \in Proc, NEW hooked \in BOOLEAN,
           NEW silent \in BOOLEAN, Fork(p, q, hooked, silent)
    PROVE  Copies!Fork(p, q)
<1>1. /\ proc[p] # "unborn" /\ proc[q] = "unborn"
      /\ \A r \in Proc : proc'[r] = IF r = q THEN "running" ELSE proc[r]
  BY DEF Fork, Runs, IInv, TypeOK
<1>2. \A r \in Proc, d \in Conn :
        /\ handle'[r][d] = IF r = q THEN handle[p][d] ELSE handle[r][d]
        /\ flags'[r][d] = IF r = q THEN flags[p][d] ELSE flags[r][d]
        /\ owner'[r][d] = IF r = q THEN owner[p][d] ELSE owner[r][d]
  BY DEF Fork, IInv, TypeOK
<1>3. \A d \in Conn : handle[p][d] # "none" => owner[p][d] # q
  BY <1>1 DEF IInv, SafetyInv, ObjectInv
<1>4. \A d \in Conn : Access(q, d)' = Copies!Inherited(Access(p, d))
  BY <1>2, <1>3 DEF Access, Readonly, Copies!Inherited
<1>5. \A r \in Proc, d \in Conn : r # q => Access(r, d)' = Access(r, d)
  BY <1>2, SameAccess
<1>7. [r \in Proc |-> [d \in Conn |-> Access(r, d)]]'
        = [[r \in Proc |-> [d \in Conn |-> Access(r, d)]]
             EXCEPT ![q] = [d \in Conn |-> Copies!Inherited(Access(p, d))]]
  BY <1>4, <1>5
<1> QED
  BY <1>1, <1>7 DEF Copies!Fork

(* A constructor that fails has opened nothing; the owner it has recorded  *)
(* is that of a connection there is not.                                   *)
LEMMA OpenFailsMaps ==
    ASSUME IInv, NEW p \in Proc, NEW c \in Conn, OpenFails(p, c)
    PROVE  UNCHANGED Copies!copyVars
<1>1. /\ handle[p][c] = "none" /\ UNCHANGED <<proc, handle, flags>>
      /\ \A r \in Proc, d \in Conn :
            ~(r = p /\ d = c) => owner'[r][d] = owner[r][d]
  BY DEF OpenFails, IInv, SafetyInv, ObjectInv
<1>2. \A r \in Proc, d \in Conn : Access(r, d)' = Access(r, d)
  BY <1>1 DEF Access, Readonly
<1> QED
  BY <1>1, <1>2, Stutter

(* The initial states map to initial states.                               *)
LEMMA InitMaps == Init => Copies!Init
<1> SUFFICES ASSUME Init PROVE Copies!Init
  OBVIOUS
<1>1. {r \in Proc : proc[r] # "unborn"} = {Root}
  BY RootAssumption DEF Init
<1>2. \A r \in Proc, d \in Conn : Access(r, d) = "none"
  BY DEF Init, Access
<1> QED
  BY <1>1, <1>2 DEF Copies!Init

(* Every step maps to a step or a stutter: one case per action of Next.    *)
LEMMA StepMaps == IInv /\ [Next]_vars => [Copies!Next]_(Copies!copyVars)
<1> SUFFICES ASSUME IInv, [Next]_vars PROVE Copies!Next \/ UNCHANGED Copies!copyVars
  OBVIOUS
<1>1. ASSUME NEW p \in Proc, NEW c \in Conn, DatabaseStep(p, c)
      PROVE  Copies!Next \/ UNCHANGED Copies!copyVars
  <2>1. ASSUME NEW mode \in {{}, {"READONLY"}}, Open(p, c, mode)
        PROVE  Copies!Next
    BY <2>1, OpenMaps DEF Copies!Next
  <2>2. CASE Close(p, c)
    BY <2>2, CloseMaps DEF Close, Copies!Next
  <2>3. CASE OpenFails(p, c)
    BY <2>3, OpenFailsMaps
  <2>4. CASE \/ InitializeFails(p, c) \/ Track(p, c)
             \/ UseDatabase(p, c) \/ DropDatabase(p, c)
    <3>1. UNCHANGED <<proc, handle, flags, owner>>
      BY <2>4 DEF InitializeFails, Track, UseDatabase, DropDatabase, connVars
    <3> QED
      BY <3>1, StutterAlone
  <2> QED
    BY <1>1, <2>1, <2>2, <2>3, <2>4 DEF DatabaseStep, Open16
<1>2. ASSUME NEW p \in Proc, NEW s \in Stmt, StatementStep(p, s)
      PROVE  Copies!Next \/ UNCHANGED Copies!copyVars
  <2>1. CASE CloseStatement(p, s)
    BY <2>1, FinalizeMaps DEF CloseStatement
  <2>2. CASE ~CloseStatement(p, s)
    <3>1. UNCHANGED <<proc, handle, flags, owner>>
      BY <1>2, <2>2
         DEF StatementStep, Prepare, PrepareFails, Step, DropStatement,
             connVars
    <3> QED
      BY <3>1, StutterAlone
  <2> QED
    BY <2>1, <2>2
<1>3. ASSUME NEW p \in Proc, NEW q \in Proc, NEW hooked \in BOOLEAN,
             NEW silent \in BOOLEAN, Fork(p, q, hooked, silent)
      PROVE  Copies!Next
  BY <1>3, ForkMaps DEF Copies!Next
<1>4. ASSUME NEW p \in Proc, HookStep(p)
      PROVE  Copies!Next \/ UNCHANGED Copies!copyVars
  <2>1. ASSUME NEW c \in Conn, HookCloses(p, c)
        PROVE  Copies!Next \/ UNCHANGED Copies!copyVars
    BY <2>1, CloseMaps DEF HookCloses, Copies!Next
  <2>2. CASE \/ \E c \in Conn : HookSkips(p, c) \/ HookWarnRaises(p, c)
             \/ HookReturns(p)
    <3>1. UNCHANGED <<proc, handle, flags, owner>>
      BY <2>2 DEF HookSkips, HookWarnRaises, HookReturns, connVars
    <3> QED
      BY <3>1, StutterAlone
  <2> QED
    BY <1>4, <2>1, <2>2 DEF HookStep
<1>5. ASSUME NEW p \in Proc, FreeStep(p)
      PROVE  Copies!Next \/ UNCHANGED Copies!copyVars
  <2>1. ASSUME NEW c \in Conn, Deallocate(p, c)
        PROVE  Copies!Next \/ UNCHANGED Copies!copyVars
    BY <2>1, CloseMaps DEF Deallocate, Copies!Next
  <2>2. ASSUME NEW s \in Stmt, DeallocateStatement(p, s)
        PROVE  UNCHANGED Copies!copyVars
    BY <2>2, FinalizeMaps, StutterAlone DEF DeallocateStatement
  <2> QED
    BY <1>5, <2>1, <2>2 DEF FreeStep
<1>6. ASSUME NEW p \in Proc, Exit(p)
      PROVE  UNCHANGED Copies!copyVars
  <2>1. /\ UNCHANGED <<handle, flags, owner>>
        /\ \A r \in Proc : proc'[r] # "unborn" <=> proc[r] # "unborn"
    BY <1>6 DEF Exit, Runs
  <2>2. \A r \in Proc, d \in Conn : Access(r, d)' = Access(r, d)
    BY <2>1 DEF Access, Readonly
  <2> QED
    BY <2>1, <2>2 DEF Copies!copyVars
<1>7. CASE UNCHANGED vars
  BY <1>7, StutterAlone DEF vars, connVars
<1> QED
  BY <1>1, <1>2, <1>3, <1>4, <1>5, <1>6, <1>7 DEF Next

(* Fork safety implements its abstract promise: in every behaviour, a      *)
(* writable connection is closed only in the process that opened it, and   *)
(* a child can only abandon its copy (close_or_discard_db).                *)
THEOREM CopiesPromise_Holds == Spec => CopiesPromise
<1> QED
  BY InitMaps, StepMaps, Invariance, PTL DEF Spec, CopiesPromise, Copies!Spec
=============================================================================
