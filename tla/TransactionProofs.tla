-------------------------- MODULE TransactionProofs -------------------------
(* Machine-checked proofs about Transaction, for any set of connections    *)
(* and any number of calls.                                                *)
EXTENDS Transaction, TLAPS

(* The file has nothing of a call that has not begun.                      *)
FileInv == \A c \in Conn, k \in Nat : <<c, k>> \in file => k <= call[c]

(* A transaction, and a block, belong to a call that has begun.            *)
CallInv ==
    \A c \in Conn : active[c] \/ pc[c] # "outside" => call[c] \in 1 .. MaxCalls

(* While the method runs: until something ends the transaction inside the  *)
(* block it is the one that the call began, nothing of it is in the file,  *)
(* and a block cannot begin another.  A transaction that is still there    *)
(* has all the changes of the block.                                       *)
BlockInv ==
    \A c \in Conn :
        pc[c] # "outside" =>
            /\ ~own[c] => active[c] /\ <<c, call[c]>> \notin file
            /\ active[c] /\ wrote[c] => dirty[c]

TransactionInv ==
    /\ TypeOK
    /\ FileInv
    /\ CallInv
    /\ BlockInv
    /\ ReturnedIsCommitted
    /\ StandardErrorUndoesAll

-----------------------------------------------------------------------------
(* Before any call the file is empty and no connection in a transaction.   *)
LEMMA InitInv == Init => TransactionInv
<1> SUFFICES ASSUME Init PROVE TransactionInv
  OBVIOUS
<1> USE MaxCallsAssumption DEF Init
<1>1. TypeOK
  BY DEF TypeOK, Lock, Flight
<1>2. FileInv /\ CallInv /\ BlockInv /\ ReturnedIsCommitted
      /\ StandardErrorUndoesAll
  BY DEF FileInv, CallInv, BlockInv, ReturnedIsCommitted,
         StandardErrorUndoesAll
<1> QED
  BY <1>1, <1>2 DEF TransactionInv

(* A new call begins: the file has nothing of it.                          *)
LEMMA BeginKeeps ==
    ASSUME TransactionInv, NEW c \in Conn, NEW mode \in Mode,
           Begin(c, mode)
    PROVE  TransactionInv'
<1> USE MaxCallsAssumption DEF TransactionInv, Begin, Mode, LockOf
<1>1. TypeOK'
  BY DEF TypeOK, Lock
<1>2. FileInv'
  BY DEF FileInv, TypeOK
<1>3. BlockInv'
  BY DEF BlockInv, FileInv, TypeOK
<1>4. ReturnedIsCommitted'
  BY DEF ReturnedIsCommitted, TypeOK
<1>5. StandardErrorUndoesAll'
  BY DEF StandardErrorUndoesAll, TypeOK
<1>6. CallInv'
  BY DEF CallInv, TypeOK
<1> QED
  BY <1>1, <1>2, <1>3, <1>4, <1>5, <1>6

(* BEGIN fails: only the answer changes.                                   *)
LEMMA BeginFailsKeeps ==
    ASSUME TransactionInv, NEW c \in Conn, NEW mode \in Mode,
           BeginFails(c, mode)
    PROVE  TransactionInv'
<1> USE DEF TransactionInv, BeginFails, engineVars
<1>1. TypeOK'
  BY DEF TypeOK
<1>2. FileInv'
  BY DEF FileInv
<1>3. BlockInv'
  BY DEF BlockInv
<1>4. ReturnedIsCommitted'
  BY DEF ReturnedIsCommitted
<1>5. StandardErrorUndoesAll'
  BY DEF StandardErrorUndoesAll
<1>6. CallInv'
  BY DEF CallInv
<1> QED
  BY <1>1, <1>2, <1>3, <1>4, <1>5, <1>6

(* A lock is taken.                                                        *)
LEMMA ReadKeeps ==
    ASSUME TransactionInv, NEW c \in Conn,
           Read(c)
    PROVE  TransactionInv'
<1> USE DEF TransactionInv, Read
<1>1. TypeOK'
  BY DEF TypeOK, Lock
<1>2. FileInv'
  BY DEF FileInv
<1>3. BlockInv'
  BY DEF BlockInv
<1>4. ReturnedIsCommitted'
  BY DEF ReturnedIsCommitted
<1>5. StandardErrorUndoesAll'
  BY DEF StandardErrorUndoesAll
<1>6. CallInv'
  BY DEF CallInv
<1> QED
  BY <1>1, <1>2, <1>3, <1>4, <1>5, <1>6

(* A write makes the transaction dirty.                                    *)
LEMMA WriteKeeps ==
    ASSUME TransactionInv, NEW c \in Conn,
           Write(c)
    PROVE  TransactionInv'
<1> USE DEF TransactionInv, Write
<1>1. TypeOK'
  BY DEF TypeOK, Lock
<1>2. FileInv'
  BY DEF FileInv
<1>3. BlockInv'
  BY DEF BlockInv, TypeOK
<1>4. ReturnedIsCommitted'
  BY DEF ReturnedIsCommitted
<1>5. StandardErrorUndoesAll'
  BY DEF StandardErrorUndoesAll
<1>6. CallInv'
  BY DEF CallInv
<1> QED
  BY <1>1, <1>2, <1>3, <1>4, <1>5, <1>6

(* A write outside a transaction is in the file at once.                   *)
LEMMA WriteAloneKeeps ==
    ASSUME TransactionInv, NEW c \in Conn,
           WriteAlone(c)
    PROVE  TransactionInv'
<1> USE DEF TransactionInv, WriteAlone, engineVars
<1>1. TypeOK'
  BY DEF TypeOK, CallInv
<1>2. FileInv'
  BY DEF FileInv
<1>3. BlockInv'
  BY DEF BlockInv
<1>4. ReturnedIsCommitted'
  BY DEF ReturnedIsCommitted
<1>5. StandardErrorUndoesAll'
  BY DEF StandardErrorUndoesAll
<1>6. CallInv'
  BY DEF CallInv
<1> QED
  BY <1>1, <1>2, <1>3, <1>4, <1>5, <1>6

(* The transaction ends inside the block, and own tells.                   *)
LEMMA EndInsideKeeps ==
    ASSUME TransactionInv, NEW c \in Conn,
           EndInside(c)
    PROVE  TransactionInv'
<1> USE DEF TransactionInv, EndInside, EndEngine, EngineCommits,
            EngineRollsBack
<1>0. file' \subseteq Conn \X (1 .. MaxCalls)
  BY DEF TypeOK, CallInv
<1>1. TypeOK'
  BY <1>0 DEF TypeOK, Lock
<1>2. FileInv'
  BY DEF FileInv
<1>3. BlockInv'
  BY DEF BlockInv, TypeOK
<1>4. ReturnedIsCommitted'
  BY DEF ReturnedIsCommitted
<1>5. StandardErrorUndoesAll'
  BY DEF StandardErrorUndoesAll, TypeOK
<1>6. CallInv'
  BY DEF CallInv, TypeOK
<1> QED
  BY <1>1, <1>2, <1>3, <1>4, <1>5, <1>6

(* The block ends, in whatever way.                                        *)
LEMMA BlockEndsKeeps ==
    ASSUME TransactionInv, NEW c \in Conn, NEW how \in Flight,
           BlockEnds(c, how)
    PROVE  TransactionInv'
<1> USE DEF TransactionInv, BlockEnds, engineVars
<1>1. TypeOK'
  BY DEF TypeOK
<1>2. FileInv'
  BY DEF FileInv
<1>3. BlockInv'
  BY DEF BlockInv
<1>4. ReturnedIsCommitted'
  BY DEF ReturnedIsCommitted
<1>5. StandardErrorUndoesAll'
  BY DEF StandardErrorUndoesAll
<1>6. CallInv'
  BY DEF CallInv
<1> QED
  BY <1>1, <1>2, <1>3, <1>4, <1>5, <1>6

(* abort is set: what the block wrote is undone.                           *)
LEMMA RollbackKeeps ==
    ASSUME TransactionInv, NEW c \in Conn,
           Rollback(c)
    PROVE  TransactionInv'
<1> USE DEF TransactionInv, Rollback, Leave, EngineRefuses, engineVars,
            EndEngine, EngineRollsBack
<1>1. TypeOK'
  BY DEF TypeOK, Lock
<1>2. FileInv'
  BY DEF FileInv
<1>3. BlockInv'
  BY DEF BlockInv, TypeOK
<1>4. ReturnedIsCommitted'
  BY DEF ReturnedIsCommitted, TypeOK
<1>5. StandardErrorUndoesAll'
  BY DEF StandardErrorUndoesAll, BlockInv, TypeOK
<1>6. CallInv'
  BY DEF CallInv, TypeOK
<1> QED
  BY <1>1, <1>2, <1>3, <1>4, <1>5, <1>6

(* abort is not set: what the block wrote is in the file, or it raises.    *)
LEMMA CommitKeeps ==
    ASSUME TransactionInv, NEW c \in Conn,
           Commit(c)
    PROVE  TransactionInv'
<1> USE DEF TransactionInv, Commit, Abort, Leave, EngineRefuses, engineVars,
            EndEngine, EngineCommits, EngineCommitIsBusy
<1>0. file' \subseteq Conn \X (1 .. MaxCalls)
  BY DEF TypeOK, CallInv
<1>1. TypeOK'
  BY <1>0 DEF TypeOK, Lock
<1>2. FileInv'
  BY DEF FileInv
<1>3. BlockInv'
  BY DEF BlockInv, TypeOK
<1>4. ReturnedIsCommitted'
  BY DEF ReturnedIsCommitted, BlockInv, TypeOK
<1>5. StandardErrorUndoesAll'
  BY DEF StandardErrorUndoesAll, TypeOK
<1>6. CallInv'
  BY DEF CallInv, TypeOK
<1> QED
  BY <1>1, <1>2, <1>3, <1>4, <1>5, <1>6

(* The caller ends what the method left open.                              *)
LEMMA RecoverKeeps ==
    ASSUME TransactionInv, NEW c \in Conn,
           Recover(c)
    PROVE  TransactionInv'
<1> USE DEF TransactionInv, Recover, EndEngine, EngineCommits,
            EngineRollsBack
<1>0. file' \subseteq Conn \X (1 .. MaxCalls)
  BY DEF TypeOK, CallInv
<1>1. TypeOK'
  BY <1>0 DEF TypeOK, Lock
<1>2. FileInv'
  BY DEF FileInv
<1>3. BlockInv'
  BY DEF BlockInv, TypeOK
<1>4. ReturnedIsCommitted'
  BY DEF ReturnedIsCommitted
<1>5. StandardErrorUndoesAll'
  BY DEF StandardErrorUndoesAll, TypeOK
<1>6. CallInv'
  BY DEF CallInv, TypeOK
<1> QED
  BY <1>1, <1>2, <1>3, <1>4, <1>5, <1>6

-----------------------------------------------------------------------------
(* Every step keeps the invariant.                                         *)
LEMMA StepInv == TransactionInv /\ [Next]_vars => TransactionInv'
<1> SUFFICES ASSUME TransactionInv, [Next]_vars
             PROVE  TransactionInv'
  OBVIOUS
<1>1. CASE UNCHANGED vars
  BY <1>1
     DEF vars, engineVars, TransactionInv, TypeOK, FileInv, CallInv,
         BlockInv, ReturnedIsCommitted, StandardErrorUndoesAll
<1>2. CASE Next
  BY <1>2, BeginKeeps, BeginFailsKeeps, ReadKeeps, WriteKeeps,
     WriteAloneKeeps, EndInsideKeeps, BlockEndsKeeps, RollbackKeeps,
     CommitKeeps, RecoverKeeps DEF Next
<1> QED
  BY <1>1, <1>2

(* The inductive invariant, for any connections that contend for the file. *)
THEOREM TransactionInvariance == Spec => []TransactionInv
<1> QED
  BY InitInv, StepInv, PTL DEF Spec

(* A call of Database#transaction that returns has committed everything    *)
(* that its block wrote.                                                   *)
THEOREM ReturnedIsCommitted_Holds == Spec => []ReturnedIsCommitted
<1>1. TransactionInv => ReturnedIsCommitted
  BY DEF TransactionInv
<1> QED
  BY <1>1, TransactionInvariance, PTL

(* A block that raises a StandardError and did not itself end the          *)
(* transaction leaves neither a change nor an open transaction behind.     *)
THEOREM StandardErrorUndoesAll_Holds == Spec => []StandardErrorUndoesAll
<1>1. TransactionInv => StandardErrorUndoesAll
  BY DEF TransactionInv
<1> QED
  BY <1>1, TransactionInvariance, PTL
-----------------------------------------------------------------------------
(* What becomes of a transaction that its call leaves open.                *)

(* A call leaves a transaction open only if its COMMIT was BUSY; it then   *)
(* has all the changes of the block, for whoever commits again.            *)
BusyKeepsAll ==
    \A c \in Conn :
        pc[c] = "outside" /\ active[c] =>
            /\ result[c] \in {"busy", "refused"}
            /\ wrote[c] => dirty[c]

(* It is the ensure clause of Database#transaction that makes this true:   *)
(* every other way out of the block ends the transaction.                  *)
THEOREM BusyKeepsAll_Holds == Spec => []BusyKeepsAll
<1>1. Init => BusyKeepsAll
  BY DEF Init, BusyKeepsAll
<1>2. TransactionInv /\ BusyKeepsAll /\ [Next]_vars => BusyKeepsAll'
  <2> SUFFICES ASSUME TransactionInv, BusyKeepsAll, Next
               PROVE  BusyKeepsAll'
    BY DEF BusyKeepsAll, vars, engineVars
  <2> USE DEF TransactionInv, TypeOK, BlockInv, BusyKeepsAll, engineVars
  <2> PICK c \in Conn :
              \/ \E mode \in Mode : Begin(c, mode) \/ BeginFails(c, mode)
              \/ Read(c) \/ Write(c) \/ WriteAlone(c) \/ EndInside(c)
              \/ \E how \in Flight : BlockEnds(c, how)
              \/ Rollback(c) \/ Commit(c)
              \/ Recover(c)
    BY DEF Next
  <2>1. CASE \E mode \in Mode : Begin(c, mode) \/ BeginFails(c, mode)
    BY <2>1 DEF Begin, BeginFails
  <2>2. CASE Read(c) \/ Write(c) \/ WriteAlone(c) \/ EndInside(c)
    BY <2>2 DEF Read, Write, WriteAlone, EndInside, EngineCommits,
                EngineRollsBack, EndEngine
  <2>3. CASE \E how \in Flight : BlockEnds(c, how)
    BY <2>3 DEF BlockEnds
  <2>4. CASE Rollback(c)
    BY <2>4 DEF Rollback, EngineRollsBack, EngineRefuses, EndEngine, Leave
  <2>5. CASE Commit(c)
    <3>1. CASE EngineCommits(c)
      BY <2>5, <3>1 DEF Commit, EngineCommits, EndEngine, Leave
    <3>2. CASE EngineCommitIsBusy(c) /\ Leave(c, "busy")
      BY <2>5, <3>2 DEF Commit, EngineCommitIsBusy, Leave
    <3>3. CASE EngineRefuses(c) /\ Leave(c, "error")
      BY <2>5, <3>3 DEF Commit, EngineRefuses, Leave
    <3> QED
      BY <2>5, <3>1, <3>2, <3>3 DEF Commit
  <2>6. CASE Recover(c)
    BY <2>6 DEF Recover, EngineCommits, EngineRollsBack, EndEngine
  <2> QED
    BY <2>1, <2>2, <2>3, <2>4, <2>5, <2>6
<1> QED
  BY <1>1, <1>2, TransactionInvariance, PTL DEF Spec

(* Every call of transaction asks for the mode :exclusive.                 *)
AllExclusive ==
    [][\A c \in Conn : call'[c] # call[c] => lock'[c] = "exclusive"]_vars

(* At most one connection has a lock on the file, and that the whole file. *)
AloneInv ==
    \A c \in Conn :
        /\ active[c] => lock[c] = "exclusive"
        /\ ~active[c] => lock[c] = "none"
        /\ active[c] => \A d \in Conn \ {c} : ~active[d]

(* The comment of Database#transaction, that the transaction is committed  *)
(* or rolled back when the block terminates, holds for exclusive ones: no  *)
(* reader is there to make COMMIT answer BUSY.                             *)
THEOREM NothingLeftOpenIfExclusive ==
    Spec /\ AllExclusive => []NothingLeftOpen
<1> DEFINE Exclusive == \A c \in Conn : call'[c] # call[c] => lock'[c] = "exclusive"
           Closed == AloneInv /\ NothingLeftOpen
<1>1. Init => Closed
  BY DEF Init, AloneInv, NothingLeftOpen
<1>2. TransactionInv /\ Closed /\ [Next]_vars /\ [Exclusive]_vars => Closed'
  <2> SUFFICES ASSUME TransactionInv, Closed, Next, Exclusive
               PROVE  Closed'
    BY DEF AloneInv, NothingLeftOpen, vars, engineVars
  <2> USE DEF TransactionInv, TypeOK, AloneInv, NothingLeftOpen, engineVars
  <2> PICK c \in Conn :
              \/ \E mode \in Mode : Begin(c, mode) \/ BeginFails(c, mode)
              \/ Read(c) \/ Write(c) \/ WriteAlone(c) \/ EndInside(c)
              \/ \E how \in Flight : BlockEnds(c, how)
              \/ Rollback(c) \/ Commit(c)
              \/ Recover(c)
    BY DEF Next
  <2>1. CASE \E mode \in Mode : Begin(c, mode)
    <3> PICK mode \in Mode : Begin(c, mode)
      BY <2>1
    <3>1. LockOf[mode] = "exclusive"
      BY DEF Begin, Mode, LockOf
    <3>2. mode = "exclusive"
      BY <3>1 DEF Mode, LockOf
    <3>3. \A d \in Conn \ {c} : lock[d] = "none"
      BY <3>2, Zenon DEF Begin, MayBegin
    <3> QED
      BY <3>1, <3>3 DEF Begin
  <2>2. CASE \E mode \in Mode : BeginFails(c, mode)
    BY <2>2 DEF BeginFails
  <2>3. CASE Read(c) \/ Write(c) \/ WriteAlone(c) \/ EndInside(c)
    BY <2>3 DEF Read, Write, WriteAlone, EndInside, EngineCommits,
                EngineRollsBack, EndEngine
  <2>4. CASE \E how \in Flight : BlockEnds(c, how)
    BY <2>4 DEF BlockEnds
  <2>5. CASE Rollback(c)
    BY <2>5 DEF Rollback, EngineRollsBack, EngineRefuses, EndEngine, Leave
  <2>6. CASE Commit(c)
    BY <2>6 DEF Commit, MayCommit, EngineCommits, EngineCommitIsBusy,
                EngineRefuses, EndEngine, Leave
  <2>7. CASE Recover(c)
    BY <2>7 DEF Recover, EngineCommits, EngineRollsBack, EndEngine
  <2> QED
    BY <2>1, <2>2, <2>3, <2>4, <2>5, <2>6, <2>7
<1> QED
  BY <1>1, <1>2, TransactionInvariance, PTL DEF Spec, AllExclusive

=============================================================================
