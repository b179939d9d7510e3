----------------------- MODULE ThreadedConnectionProofs ---------------------
(* Machine-checked proofs about ThreadedConnection, for any number of      *)
(* threads and connections and for every setup of them.                    *)
EXTENDS ThreadedConnection, TLAPS

(* Every thread has a connection of its own.                               *)
Apart == \A t, u \in Thread : ConnOf[t] = ConnOf[u] => t = u

(* A mutex is only ever taken by a thread that uses its connection.        *)
OwnerInv == \A c \in Conn : mutex[c] # Nobody => ConnOf[mutex[c]] = c

(* While callbacks stay within their call, no lock outlives a call, and    *)
(* the thread in a call keeps the VM lock to its end: no child is forked   *)
(* with a locked mutex.                                                    *)
StayInv ==
    StayInCall =>
        /\ \A c \in Conn : ~leaked[c]
        /\ \A c \in Conn :
              mutex[c] # Nobody => pc[mutex[c]] \in {"library", "callback"}
        /\ \A t \in Thread : pc[t] = "callback" => gvl = t
        /\ held = {}

ThreadInv ==
    /\ TypeOK
    /\ OneCallPerConnection
    /\ OwnerInv
    /\ StayInv

-----------------------------------------------------------------------------
(* What the setups of the assumption are.                                  *)
LEMMA SetupType ==
    ASSUME TypeOK
    PROVE  /\ ConnOf \in [Thread -> Conn]
           /\ Nobody \notin Thread
  BY ThreadAssumption DEF TypeOK, Setup, ConnOf

(* At the start no thread is in a call.                                    *)
LEMMA InitInv == Init => ThreadInv
<1> SUFFICES ASSUME Init PROVE ThreadInv
  OBVIOUS
<1>1. TypeOK
  BY ThreadAssumption DEF Init, TypeOK, Place, Job
<1>2. OneCallPerConnection /\ OwnerInv /\ StayInv
  BY DEF Init, OneCallPerConnection, OwnerInv, StayInv
<1> QED
  BY <1>1, <1>2 DEF ThreadInv

(* A thread that waits takes the VM lock.                                  *)
LEMMA TakeGvlKeeps ==
    ASSUME ThreadInv, NEW t \in Thread,
           TakeGvl(t)
    PROVE  ThreadInv'
<1> USE SetupType DEF ThreadInv, ConnOf, TakeGvl, threadVars, childVars
<1>1. TypeOK'
  BY DEF TypeOK
<1>2. OneCallPerConnection'
  BY DEF OneCallPerConnection
<1>3. OwnerInv'
  BY DEF OwnerInv
<1>4. StayInv'
  BY DEF StayInv, StayInCall
<1> QED
  BY <1>1, <1>2, <1>3, <1>4

(* The VM lock is handed on, in Ruby code or by a callback that may.       *)
LEMMA YieldGvlKeeps ==
    ASSUME ThreadInv, NEW t \in Thread,
           YieldGvl(t)
    PROVE  ThreadInv'
<1> USE DEF ThreadInv, ConnOf, YieldGvl, threadVars, childVars
<1>1. TypeOK'
  BY DEF TypeOK
<1>2. OneCallPerConnection'
  BY DEF OneCallPerConnection
<1>3. OwnerInv'
  BY DEF OwnerInv
<1>4. StayInv'
  BY DEF StayInv, StayInCall
<1> QED
  BY <1>1, <1>2, <1>3, <1>4

(* A call begins, with the VM lock.                                        *)
LEMMA CallKeeps ==
    ASSUME ThreadInv, NEW t \in Thread, NEW j \in Job,
           Call(t, j)
    PROVE  ThreadInv'
<1> USE DEF ThreadInv, ConnOf, Call, childVars
<1>1. TypeOK'
  BY ThreadAssumption DEF TypeOK, Place
<1>2. OneCallPerConnection'
  BY DEF OneCallPerConnection
<1>3. OwnerInv'
  BY DEF OwnerInv
<1>4. StayInv'
  BY DEF StayInv, StayInCall
<1> QED
  BY <1>1, <1>2, <1>3, <1>4

(* The mutex is taken, if nobody else has it.                              *)
LEMMA EnterLibraryKeeps ==
    ASSUME ThreadInv, NEW t \in Thread,
           EnterLibrary(t)
    PROVE  ThreadInv'
<1> USE SetupType DEF ThreadInv, ConnOf, EnterLibrary, childVars
<1>1. TypeOK'
  BY DEF TypeOK, Place
<1>2. OneCallPerConnection'
  BY DEF OneCallPerConnection, TypeOK
<1>3. OwnerInv'
  BY DEF OwnerInv
<1>4. StayInv'
  BY DEF StayInv, StayInCall, TypeOK
<1> QED
  BY <1>1, <1>2, <1>3, <1>4

(* A callback begins, with the VM lock.                                    *)
LEMMA CallRubyKeeps ==
    ASSUME ThreadInv, NEW t \in Thread, NEW j \in Job,
           CallRuby(t, j)
    PROVE  ThreadInv'
<1> USE DEF ThreadInv, ConnOf, CallRuby, childVars
<1>1. TypeOK'
  BY DEF TypeOK, Place
<1>2. OneCallPerConnection'
  BY DEF OneCallPerConnection
<1>3. OwnerInv'
  BY DEF OwnerInv
<1>4. StayInv'
  BY DEF StayInv, StayInCall, OneCallPerConnection
<1> QED
  BY <1>1, <1>2, <1>3, <1>4

(* Work in the library moves neither a lock nor the thread.                *)
LEMMA LibraryWorksKeeps ==
    ASSUME ThreadInv, NEW t \in Thread,
           Begin(t) \/ BeginFails(t) \/ Commit(t)
             \/ LibrarySleeps(t) \/ TimeoutExpires(t)
    PROVE  ThreadInv'
<1> USE SetupType
        DEF ThreadInv, ConnOf, Begin, BeginFails, Commit, LibrarySleeps,
            TimeoutExpires, childVars
<1>1. TypeOK'
  BY ThreadAssumption DEF TypeOK, Job
<1>2. OneCallPerConnection'
  BY DEF OneCallPerConnection
<1>3. OwnerInv'
  BY DEF OwnerInv
<1>4. StayInv'
  BY DEF StayInv, StayInCall
<1> QED
  BY <1>1, <1>2, <1>3, <1>4

(* The busy handler begins, with the VM lock.                              *)
LEMMA BusyKeeps ==
    ASSUME ThreadInv, NEW t \in Thread,
           Busy(t)
    PROVE  ThreadInv'
<1> USE DEF ThreadInv, ConnOf, Busy, FileIsBusy, childVars
<1>1. TypeOK'
  BY DEF TypeOK, Place
<1>2. OneCallPerConnection'
  BY DEF OneCallPerConnection
<1>3. OwnerInv'
  BY DEF OwnerInv
<1>4. StayInv'
  BY DEF StayInv, StayInCall, OneCallPerConnection
<1> QED
  BY <1>1, <1>2, <1>3, <1>4

(* The call returns, and unlocks unless a jump left a lock behind.         *)
LEMMA ReturnKeeps ==
    ASSUME ThreadInv, NEW t \in Thread,
           Return(t)
    PROVE  ThreadInv'
<1> USE DEF ThreadInv, ConnOf, Return, childVars
<1>1. TypeOK'
  BY DEF TypeOK, Place
<1>2. OneCallPerConnection'
  BY DEF OneCallPerConnection, TypeOK
<1>3. OwnerInv'
  BY DEF OwnerInv
<1>4. StayInv'
  BY DEF StayInv, StayInCall, OwnerInv, TypeOK
<1> QED
  BY <1>1, <1>2, <1>3, <1>4

(* A callback returns, with the VM lock.                                   *)
LEMMA CallbackReturnsKeeps ==
    ASSUME ThreadInv, NEW t \in Thread,
           FunctionReturns(t) \/ AnswerReturns(t)
             \/ BusyRetry(t) \/ BusyGivesUp(t)
    PROVE  ThreadInv'
<1> USE DEF ThreadInv, ConnOf, FunctionReturns, AnswerReturns, BusyRetry,
            BusyGivesUp, childVars
<1>1. TypeOK'
  BY ThreadAssumption DEF TypeOK, Place, Job
<1>2. OneCallPerConnection'
  BY DEF OneCallPerConnection, TypeOK
<1>3. OwnerInv'
  BY DEF OwnerInv
<1>4. StayInv'
  BY DEF StayInv, StayInCall, TypeOK
<1> QED
  BY <1>1, <1>2, <1>3, <1>4

(* A callback jumps out of the call: not one that stays in it.             *)
LEMMA CallbackJumpsKeeps ==
    ASSUME ThreadInv, NEW t \in Thread,
           CallbackJumps(t)
    PROVE  ThreadInv'
<1> USE DEF ThreadInv, ConnOf, CallbackJumps, childVars
<1>1. TypeOK'
  BY DEF TypeOK, Place, Job
<1>2. OneCallPerConnection'
  BY DEF OneCallPerConnection
<1>3. OwnerInv'
  BY DEF OwnerInv
<1>4. StayInv'
  BY DEF StayInv, StayInCall
<1> QED
  BY <1>1, <1>2, <1>3, <1>4

(* Another process has no part in the locks.                               *)
LEMMA OtherProcessKeeps ==
    ASSUME ThreadInv,
           OtherProcess
    PROVE  ThreadInv'
<1> USE DEF ThreadInv, ConnOf, OtherProcess, threadVars, childVars
<1>1. TypeOK'
  BY DEF TypeOK
<1>2. OneCallPerConnection'
  BY DEF OneCallPerConnection
<1>3. OwnerInv'
  BY DEF OwnerInv
<1>4. StayInv'
  BY DEF StayInv, StayInCall
<1> QED
  BY <1>1, <1>2, <1>3, <1>4

(* A thread forks, with the VM lock.                                       *)
LEMMA ForkKeeps ==
    ASSUME ThreadInv, NEW t \in Thread,
           Fork(t)
    PROVE  ThreadInv'
<1> USE DEF ThreadInv, ConnOf, Fork, threadVars
<1>1. TypeOK'
  BY DEF TypeOK
<1>2. OneCallPerConnection'
  BY DEF OneCallPerConnection
<1>3. OwnerInv'
  BY DEF OwnerInv
<1>4. StayInv'
  BY DEF StayInv, StayInCall, OneCallPerConnection, TypeOK
<1> QED
  BY <1>1, <1>2, <1>3, <1>4

(* The hook of the child changes nothing in the parent.                    *)
LEMMA HookKeeps ==
    ASSUME ThreadInv,
           Hook
    PROVE  ThreadInv'
<1> USE DEF ThreadInv, ConnOf, Hook, HookReturns, HookDiscards, threadVars
<1>1. TypeOK'
  BY DEF TypeOK
<1>2. OneCallPerConnection'
  BY DEF OneCallPerConnection
<1>3. OwnerInv'
  BY DEF OwnerInv
<1>4. StayInv'
  BY DEF StayInv, StayInCall
<1> QED
  BY <1>1, <1>2, <1>3, <1>4

-----------------------------------------------------------------------------
(* Every step keeps the invariant.                                         *)
LEMMA StepInv == ThreadInv /\ [Next]_vars => ThreadInv'
<1> SUFFICES ASSUME ThreadInv, [Next]_vars
             PROVE  ThreadInv'
  OBVIOUS
<1>1. CASE UNCHANGED vars
  BY <1>1
     DEF vars, threadVars, childVars, ThreadInv, TypeOK,
         OneCallPerConnection, OwnerInv, StayInv, StayInCall, ConnOf
<1>2. ASSUME NEW t \in Thread, InLibrary(t)
      PROVE  ThreadInv'
  BY <1>2, EnterLibraryKeeps, CallRubyKeeps, LibraryWorksKeeps, BusyKeeps,
     ReturnKeeps
     DEF InLibrary, CallFunction, CallComparator, CallAuthorizer, Job
<1>3. ASSUME NEW t \in Thread, InCallback(t)
      PROVE  ThreadInv'
  BY <1>3, CallbackReturnsKeeps, CallbackJumpsKeeps DEF InCallback
<1>4. CASE Next
  BY <1>2, <1>3, <1>4, TakeGvlKeeps, YieldGvlKeeps, CallKeeps, ForkKeeps,
     OtherProcessKeeps, HookKeeps DEF Next
<1> QED
  BY <1>1, <1>4

(* The inductive invariant, for any threads, connections and setups.       *)
THEOREM ThreadInvariance == Spec => []ThreadInv
<1> QED
  BY InitInv, StepInv, PTL DEF Spec

(* The calls of the threads exclude each other on a connection, whatever   *)
(* the callbacks do: sleep, raise, or share the connection.                *)
THEOREM OneCallPerConnection_Holds == Spec => []OneCallPerConnection
<1>1. ThreadInv => OneCallPerConnection
  BY DEF ThreadInv
<1> QED
  BY <1>1, ThreadInvariance, PTL

(* No thread waits for a mutex with the VM lock in its hand, either if     *)
(* every thread has a connection of its own or if callbacks stay within    *)
(* their call.                                                             *)
THEOREM NoMutexWait_Holds == Spec => [](Apart \/ StayInCall => NoMutexWait)
<1>1. ThreadInv => (Apart \/ StayInCall => NoMutexWait)
  <2> SUFFICES ASSUME ThreadInv, Apart \/ StayInCall,
                      NEW t \in Thread, pc[t] = "enter",
                      mutex[ConnOf[t]] # Nobody
               PROVE  mutex[ConnOf[t]] = t
    BY DEF NoMutexWait
  <2> DEFINE u == mutex[ConnOf[t]]
  <2>1. u \in Thread /\ ConnOf[u] = ConnOf[t] /\ gvl = t
    BY SetupType DEF ThreadInv, TypeOK, OwnerInv, OneCallPerConnection
  <2>2. CASE Apart
    BY <2>1, <2>2 DEF Apart
  <2>3. CASE StayInCall
    <3>1. pc[u] \in {"library", "callback"}
      BY <2>3, SetupType DEF ThreadInv, StayInv
    <3>2. gvl = u
      BY <2>1, <2>3, <3>1 DEF ThreadInv, StayInv, OneCallPerConnection
    <3> QED
      BY <2>1, <3>2
  <2> QED
    BY <2>2, <2>3
<1> QED
  BY <1>1, ThreadInvariance, PTL

(* If callbacks stay within their call, the after-fork hook of a child     *)
(* finds no connection whose mutex a thread of the parent holds.           *)
THEOREM HookIsNeverStuck_Holds == Spec => []HookIsNeverStuck
<1>1. ThreadInv => HookIsNeverStuck
  BY DEF ThreadInv, StayInv, HookIsNeverStuck, HookNeverWaits
<1> QED
  BY <1>1, ThreadInvariance, PTL
=============================================================================
