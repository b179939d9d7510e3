----------------------------- MODULE Transaction ----------------------------
(***************************************************************************)
(* Database#transaction with a block, on several connections to one file.  *)
(*                                                                         *)
(* The method begins a transaction, yields, and commits or rolls back in   *)
(* an ensure clause: it rolls back if the block raised a StandardError,    *)
(* and commits if the block ended in any other way.  The statements of the *)
(* block contend for the file's locks (rollback journal), so that any of   *)
(* them may fail with BUSY; the block may rescue that and go on.           *)
(***************************************************************************)
EXTENDS Naturals

CONSTANTS
    Conn,       \* connections, each used by a thread or process of its own
    MaxCalls    \* bound: calls of transaction on a connection

ASSUME MaxCallsAssumption == MaxCalls \in Nat

VARIABLES
    pc,       \* pc[c]: where transaction is
    call,     \* call[c]: number of the current or last call
    active,   \* active[c]: the connection is in a transaction
    lock,     \* lock[c]: its lock on the file
    dirty,    \* dirty[c]: the transaction has changes
    flight,   \* flight[c]: how the block ended
    result,   \* result[c]: how the last call ended
    own,      \* history: the transaction ended inside the block
    wrote,    \* history: the block of the call changed the file
    file      \* the calls whose changes are in the file

engineVars == <<active, lock, dirty>>
vars == <<pc, call, engineVars, flight, result, own, wrote, file>>

Mode == {"deferred", "immediate", "exclusive"}

Lock == {"none", "shared", "reserved", "pending", "exclusive"}

(* "standard": a StandardError; "other": another exception, such as        *)
(* Interrupt or SystemExit; "none": the end of the block, break or throw.  *)
Flight == {"none", "standard", "other"}

Init ==
    /\ pc = [c \in Conn |-> "outside"]
    /\ call = [c \in Conn |-> 0]
    /\ active = [c \in Conn |-> FALSE]
    /\ lock = [c \in Conn |-> "none"]
    /\ dirty = [c \in Conn |-> FALSE]
    /\ flight = [c \in Conn |-> "none"]
    /\ result = [c \in Conn |-> "none"]
    /\ own = [c \in Conn |-> FALSE]
    /\ wrote = [c \in Conn |-> FALSE]
    /\ file = {}

-----------------------------------------------------------------------------
(* The file's locks.                                                       *)

MayRead(c) == \A d \in Conn \ {c} : lock[d] \notin {"pending", "exclusive"}

MayWrite(c) == \A d \in Conn \ {c} : lock[d] \in {"none", "shared"}

MayCommit(c) == dirty[c] => \A d \in Conn \ {c} : lock[d] = "none"

MayBegin(c, mode) ==
    CASE mode = "deferred"  -> TRUE
      [] mode = "immediate" -> MayWrite(c)
      [] mode = "exclusive" -> \A d \in Conn \ {c} : lock[d] = "none"

LockOf ==
    [deferred |-> "none", immediate |-> "reserved", exclusive |-> "exclusive"]

(* The transaction of c is over, in one way or the other.                  *)
EndEngine(c) ==
    /\ active' = [active EXCEPT ![c] = FALSE]
    /\ lock' = [lock EXCEPT ![c] = "none"]
    /\ dirty' = [dirty EXCEPT ![c] = FALSE]

EngineCommits(c) ==
    /\ active[c] /\ MayCommit(c)
    /\ EndEngine(c)
    /\ file' = IF dirty[c] THEN file \cup {<<c, call[c]>>} ELSE file

EngineRollsBack(c) == active[c] /\ EndEngine(c) /\ UNCHANGED file

(* COMMIT answers BUSY while another connection reads: the transaction     *)
(* stays, and no new reader is let in.                                     *)
EngineCommitIsBusy(c) ==
    /\ active[c] /\ ~MayCommit(c)
    /\ lock' = [lock EXCEPT ![c] = "pending"]
    /\ UNCHANGED <<active, dirty, file>>

(* "no transaction is active".                                             *)
EngineRefuses(c) == ~active[c] /\ UNCHANGED <<engineVars, file>>

-----------------------------------------------------------------------------
(* The method.                                                             *)

Begin(c, mode) ==
    /\ pc[c] = "outside" /\ call[c] < MaxCalls
    /\ ~active[c] /\ MayBegin(c, mode)
    /\ call' = [call EXCEPT ![c] = @ + 1]
    /\ pc' = [pc EXCEPT ![c] = "block"]
    /\ active' = [active EXCEPT ![c] = TRUE]
    /\ lock' = [lock EXCEPT ![c] = LockOf[mode]]
    /\ result' = [result EXCEPT ![c] = "none"]
    /\ own' = [own EXCEPT ![c] = FALSE]
    /\ wrote' = [wrote EXCEPT ![c] = FALSE]
    /\ UNCHANGED <<dirty, flight, file>>

(* BEGIN fails: a transaction within a transaction, or BUSY.               *)
BeginFails(c, mode) ==
    /\ pc[c] = "outside" /\ call[c] < MaxCalls
    /\ active[c] \/ ~MayBegin(c, mode)
    /\ result' = [result EXCEPT ![c] = "refused"]
    /\ UNCHANGED <<pc, call, engineVars, flight, own, wrote, file>>

Read(c) ==
    /\ pc[c] = "block"
    /\ active[c] /\ lock[c] = "none" /\ MayRead(c)
    /\ lock' = [lock EXCEPT ![c] = "shared"]
    /\ UNCHANGED <<pc, call, active, dirty, flight, result, own, wrote, file>>

Write(c) ==
    /\ pc[c] = "block"
    /\ active[c] /\ MayRead(c) /\ MayWrite(c)
    /\ lock' = [lock EXCEPT ![c] = IF @ = "exclusive" THEN @ ELSE "reserved"]
    /\ dirty' = [dirty EXCEPT ![c] = TRUE]
    /\ wrote' = [wrote EXCEPT ![c] = TRUE]
    /\ UNCHANGED <<pc, call, active, flight, result, own, file>>

(* Without a transaction a statement commits its own change.               *)
WriteAlone(c) ==
    /\ pc[c] = "block"
    /\ ~active[c] /\ \A d \in Conn \ {c} : lock[d] = "none"
    /\ wrote' = [wrote EXCEPT ![c] = TRUE]
    /\ file' = file \cup {<<c, call[c]>>}
    /\ UNCHANGED <<pc, call, engineVars, flight, result, own>>

(* The block calls commit or rollback, or a statement fails in a way that  *)
(* rolls the whole transaction back (ON CONFLICT ROLLBACK, a full disk).   *)
EndInside(c) ==
    /\ pc[c] = "block"
    /\ EngineCommits(c) \/ EngineRollsBack(c)
    /\ own' = [own EXCEPT ![c] = TRUE]
    /\ UNCHANGED <<pc, call, flight, result, wrote>>

BlockEnds(c, how) ==
    /\ pc[c] = "block"
    /\ pc' = [pc EXCEPT ![c] = "ensure"]
    /\ flight' = [flight EXCEPT ![c] = how]
    /\ UNCHANGED <<call, engineVars, result, own, wrote, file>>

Leave(c, r) ==
    /\ pc' = [pc EXCEPT ![c] = "outside"]
    /\ result' = [result EXCEPT ![c] = r]
    /\ UNCHANGED <<call, flight, own, wrote>>

(* A definition called No... is a mutant of the one that follows it; only  *)
(* the mutant runs of PROJECT.json use it.                                 *)
NoAbort(c) == FALSE

(* abort and rollback or commit                                            *)
Abort(c) == flight[c] = "standard"

Rollback(c) ==
    /\ pc[c] = "ensure" /\ Abort(c)
    /\ \/ EngineRollsBack(c) /\ Leave(c, "raised")
       \/ EngineRefuses(c) /\ Leave(c, "error")

NoErrorOnCommit(c) ==
    /\ pc[c] = "ensure" /\ ~Abort(c)
    /\ \/ EngineCommits(c) \/ EngineCommitIsBusy(c) \/ EngineRefuses(c)
    /\ Leave(c, IF flight[c] = "none" THEN "returned" ELSE "raised")

Commit(c) ==
    /\ pc[c] = "ensure" /\ ~Abort(c)
    /\ \/ /\ EngineCommits(c)
          /\ Leave(c, IF flight[c] = "none" THEN "returned" ELSE "raised")
       \/ EngineCommitIsBusy(c) /\ Leave(c, "busy")
       \/ EngineRefuses(c) /\ Leave(c, "error")

(* Database#commit and #rollback outside a block, by a caller that finds a *)
(* transaction left open.                                                  *)
Recover(c) ==
    /\ pc[c] = "outside"
    /\ EngineCommits(c) \/ EngineRollsBack(c)
    /\ UNCHANGED <<pc, call, flight, result, own, wrote>>

Next ==
    \E c \in Conn :
        \/ \E mode \in Mode : Begin(c, mode) \/ BeginFails(c, mode)
        \/ Read(c) \/ Write(c) \/ WriteAlone(c) \/ EndInside(c)
        \/ \E how \in Flight : BlockEnds(c, how)
        \/ Rollback(c) \/ Commit(c)
        \/ Recover(c)

Spec == Init /\ [][Next]_vars

-----------------------------------------------------------------------------
TypeOK ==
    /\ pc \in [Conn -> {"outside", "block", "ensure"}]
    /\ call \in [Conn -> 0..MaxCalls]
    /\ active \in [Conn -> BOOLEAN]
    /\ lock \in [Conn -> Lock]
    /\ dirty \in [Conn -> BOOLEAN]
    /\ flight \in [Conn -> Flight]
    /\ result \in [Conn -> {"none", "refused", "returned", "raised", "busy", "error"}]
    /\ own \in [Conn -> BOOLEAN]
    /\ wrote \in [Conn -> BOOLEAN]
    /\ file \subseteq Conn \X (1..MaxCalls)

(* A call of transaction that returns has committed what its block wrote,  *)
(* also when the block ended the transaction itself or met one that was    *)
(* rolled back under it.                                                   *)
ReturnedIsCommitted ==
    \A c \in Conn :
        pc[c] = "outside" /\ result[c] = "returned" /\ wrote[c]
            => <<c, call[c]>> \in file

(* A block that raises a StandardError leaves nothing in the file, now or  *)
(* later, unless it ended the transaction itself.                          *)
StandardErrorUndoesAll ==
    \A c \in Conn :
        pc[c] = "outside" /\ flight[c] = "standard" /\ ~own[c]
            => active[c] = FALSE /\ <<c, call[c]>> \notin file

(* The comment of Database#transaction: "If the block raises an exception, *)
(* a rollback will be performed instead".                                  *)
RollbackOnException ==
    \A c \in Conn :
        pc[c] = "outside" /\ flight[c] # "none" /\ ~own[c]
            => <<c, call[c]>> \notin file

(* The same comment: "the transaction is committed when the block          *)
(* terminates", or rolled back; so the connection is left in none.         *)
NothingLeftOpen == \A c \in Conn : pc[c] = "outside" => ~active[c]
=============================================================================
