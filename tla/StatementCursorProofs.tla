----------------------- MODULE StatementCursorProofs ------------------------
(* Machine-checked proofs about StatementCursor, for any result sets,      *)
(* parameters, values and row counts, and that it implements RowStream;    *)
(* then about RowHash, the names under which those rows are delivered, for *)
(* any columns.  The two modules share no variable.                        *)
EXTENDS StatementCursor, RowHash, SequenceTheorems, TLAPS

(* The rows that a result set has read are the first ones of its own       *)
(* execution, and the machine is where it left it: at the end if the flag  *)
(* is set, else at the row that comes next.                                *)
ReaderInv ==
    \A r \in ResultSet :
        rs[r].state \in {"reading", "ended"} =>
            /\ \A x \in DOMAIN rs[r].for : bound[x] = rs[r].for[x]
            /\ rs[r].rows = [i \in 1 .. Len(rs[r].rows) |-> <<bound, i>>]
            /\ Len(rs[r].rows) <= Rows(bound)
            /\ done => Len(rs[r].rows) = Rows(bound)
            /\ ~done => rs[r].state = "reading" /\ Len(rs[r].rows) = From

CursorInv ==
    /\ TypeOK
    /\ DoneAgrees
    /\ ReaderInv

-----------------------------------------------------------------------------
(* The number of rows under a binding.                                     *)
LEMMA RowsType ==
    ASSUME NEW b \in Binding
    PROVE  Rows(b) \in Nat
  BY CursorAssumption DEF Rows

(* A call may give nothing at all.                                         *)
LEMMA UnreadType == Unread \in Reader
<1>1. Nothing \in [{} -> Value]
  BY DEF Nothing
<1>2. Nothing \in Given
  BY <1>1 DEF Given
<1> QED
  BY <1>2 DEF Unread, Reader

(* Binding some parameters leaves a value for each.                        *)
LEMMA BindParamsType ==
    ASSUME TypeOK, NEW vals \in Given
    PROVE  /\ BindParams(vals) \in Binding
           /\ \A x \in DOMAIN vals : BindParams(vals)[x] = vals[x]
<1>1. PICK S \in SUBSET Param : vals \in [S -> Value]
  BY DEF Given
<1> QED
  BY <1>1 DEF TypeOK, BindParams, Binding

(* Result sets that are spoilt no longer count on rows of their own; the   *)
(* others are as they were.                                                *)
LEMMA SpoiltReaders ==
    ASSUME TypeOK, NEW R \in SUBSET ResultSet
    PROVE  /\ Spoilt(R) \in [ResultSet -> Reader]
           /\ \A q \in R : Spoilt(R)[q].state \in {"none", "disturbed"}
           /\ \A q \in ResultSet \ R : Spoilt(R)[q] = rs[q]
<1>1. [Unread EXCEPT !.state = "disturbed"] \in Reader
  BY UnreadType DEF Reader
<1>2. [Unread EXCEPT !.state = "disturbed"].state = "disturbed"
  OBVIOUS
<1>3. \A q \in ResultSet : rs[q] \in Reader
  BY DEF TypeOK
<1> QED
  BY <1>1, <1>2, <1>3 DEF Spoilt

(* The same for the two uses of Spoilt.                                    *)
LEMMA DisturbedReaders ==
    ASSUME TypeOK, NEW r \in ResultSet
    PROVE  /\ AllDisturbed \in [ResultSet -> Reader]
           /\ \A q \in ResultSet :
                 AllDisturbed[q].state \in {"none", "disturbed"}
           /\ Disturbed(r) \in [ResultSet -> Reader]
           /\ \A q \in ResultSet \ {r} :
                 Disturbed(r)[q].state \in {"none", "disturbed"}
           /\ Disturbed(r)[r] = rs[r]
<1> QED
  BY SpoiltReaders DEF AllDisturbed, Disturbed

(* One more row in its turn.                                               *)
LEMMA NextRow ==
    ASSUME NEW b \in Binding, NEW s \in Seq(Binding \X Nat),
           s = [i \in 1 .. Len(s) |-> <<b, i>>],
           NEW t, t = Append(s, <<b, Len(s) + 1>>)
    PROVE  /\ t \in Seq(Binding \X Nat)
           /\ Len(t) = Len(s) + 1
           /\ t = [i \in 1 .. Len(t) |-> <<b, i>>]
  BY LenProperties, AppendProperties

(* If no result set counts on rows of its own, ReaderInv asks nothing.     *)
LEMMA NobodyReads ==
    ASSUME TypeOK, rs' = AllDisturbed
    PROVE  ReaderInv' /\ rs' \in [ResultSet -> Reader]
<1>2. rs' \in [ResultSet -> Reader]
      /\ \A q \in ResultSet : rs'[q].state \in {"none", "disturbed"}
  BY SpoiltReaders DEF AllDisturbed
<1> QED
  BY <1>2 DEF ReaderInv

-----------------------------------------------------------------------------
(* At the start no result set has been made.                               *)
LEMMA InitInv == Init => CursorInv
<1> SUFFICES ASSUME Init PROVE CursorInv
  OBVIOUS
<1>1. TypeOK
  <2>1. Unbound \in Binding
    BY CursorAssumption DEF Unbound, Binding
  <2>2. rs \in [ResultSet -> Reader]
    BY UnreadType DEF Init
  <2>3. out.number \in Nat /\ out.is \in {"row", "void", "nil", "raised"}
    BY DEF Init, Void
  <2>4. query \in BOOLEAN /\ runs \in 0 .. MaxRuns
    BY CursorAssumption DEF Init
  <2> QED
    BY <2>1, <2>2, <2>3, <2>4 DEF Init, TypeOK, VmState
<1>2. DoneAgrees /\ ReaderInv
  BY DEF Init, DoneAgrees, ReaderInv, Unread
<1> QED
  BY <1>1, <1>2 DEF CursorInv

(* A step of the machine keeps the types and the agreement of the flag.    *)
LEMMA StepKeeps ==
    ASSUME TypeOK, DoneAgrees, ~done,
           Started <= MaxRuns,
           StepRow \/ StepDone \/ StepException \/ StepError,
           cleared' = (cleared /\ runs' = runs /\ vm' # "ready")
    PROVE  /\ vm' \in VmState /\ pos' \in Nat /\ done' \in BOOLEAN
           /\ runs' \in 0 .. MaxRuns /\ cleared' \in BOOLEAN
           /\ out'.number \in Nat /\ out'.is \in {"row", "nil", "raised"}
           /\ DoneAgrees'
<1> USE DEF TypeOK, VmState, From, Started
<1>1. CASE StepRow
  BY <1>1 DEF DoneAgrees, StepRow, VmRow, Row
<1>2. CASE StepDone
  BY <1>2 DEF DoneAgrees, StepDone, VmDone, Nil
<1>3. CASE StepException
  BY <1>3 DEF DoneAgrees, StepException, VmFailed, Raised
<1>4. CASE StepError
  <2>1. vm' = "ready" /\ done' = FALSE /\ cleared' = FALSE
    BY <1>4 DEF StepError, VmReset
  <2>2. runs' \in 0 .. MaxRuns /\ pos' \in Nat
    BY <1>4 DEF StepError, VmReset
  <2>3. out'.number \in Nat /\ out'.is \in {"row", "nil", "raised"}
    BY <1>4 DEF StepError, Raised
  <2> QED
    BY <2>1, <2>2, <2>3 DEF DoneAgrees
<1> QED
  BY <1>1, <1>2, <1>3, <1>4

(* A result set reads: it gets the row that comes next, or the end of its  *)
(* own rows; the others are disturbed.                                     *)
LEMMA ReadKeeps ==
    ASSUME CursorInv, NEW r \in ResultSet, Read(r)
    PROVE  CursorInv'
<1> USE DEF CursorInv
<1>0. /\ st' = st /\ query' = query /\ bound' = bound /\ rs' = Received(r)
      /\ bound \in Binding /\ Rows(bound) \in Nat
      /\ Rows(bound)' = Rows(bound)
      /\ rs[r] \in Reader
  BY RowsType DEF Read, Rows, TypeOK
<1>1. /\ vm' \in VmState /\ pos' \in Nat /\ done' \in BOOLEAN
      /\ runs' \in 0 .. MaxRuns /\ cleared' \in BOOLEAN
      /\ out'.number \in Nat /\ out'.is \in {"row", "nil", "raised"}
      /\ DoneAgrees'
  <2>1. CASE done
    BY <2>1 DEF Read, TypeOK, DoneAgrees, vmVars, Nil
  <2>2. CASE ~done
    BY <2>2, StepKeeps DEF Read
  <2> QED
    BY <2>1, <2>2
<1>2. CASE out' = Raised
  <2>1. rs' = AllDisturbed
    BY <1>0, <1>2 DEF Received
  <2>2. ReaderInv' /\ rs' \in [ResultSet -> Reader]
    BY <2>1, NobodyReads
  <2> QED
    BY <1>0, <1>1, <2>2 DEF TypeOK
<1>3. CASE out' # Raised
  <2>1. /\ rs' = [Disturbed(r) EXCEPT ![r] = Kept(rs[r])]
        /\ Disturbed(r) \in [ResultSet -> Reader]
        /\ \A q \in ResultSet \ {r} :
              rs'[q].state \in {"none", "disturbed"}
        /\ rs'[r] = Kept(rs[r])
    BY <1>0, <1>3, DisturbedReaders DEF Received
  <2>2. /\ Kept(rs[r]) \in Reader
        /\ rs'[r].state \in {"reading", "ended"} =>
              /\ \A x \in DOMAIN rs'[r].for : bound[x] = rs'[r].for[x]
              /\ rs'[r].rows = [i \in 1 .. Len(rs'[r].rows) |-> <<bound, i>>]
              /\ Len(rs'[r].rows) <= Rows(bound)
              /\ done' => Len(rs'[r].rows) = Rows(bound)
              /\ ~done' => /\ rs'[r].state = "reading"
                           /\ Len(rs'[r].rows) = From'
    <3>1. CASE rs[r].state = "disturbed"
      BY <1>0, <2>1, <3>1 DEF Kept
    <3>2. CASE rs[r].state # "disturbed" /\ out' = Nil
      <4>1. /\ Kept(rs[r]) \in Reader
            /\ Kept(rs[r]).rows = rs[r].rows /\ Kept(rs[r]).for = rs[r].for
            /\ Kept(rs[r]).state = "ended"
        BY <1>0, <3>2 DEF Kept, Reader
      <4>2. done' /\ (~done => From >= Rows(bound))
        BY <3>2
           DEF Read, StepRow, StepDone, VmDone, StepException, StepError,
               Row, Nil, Raised
      <4>3. rs[r].state \in {"reading", "ended"}
        BY <1>0, <3>2 DEF Read, Reader
      <4>4. /\ \A x \in DOMAIN rs[r].for : bound[x] = rs[r].for[x]
            /\ rs[r].rows = [i \in 1 .. Len(rs[r].rows) |-> <<bound, i>>]
            /\ Len(rs[r].rows) <= Rows(bound)
            /\ done => Len(rs[r].rows) = Rows(bound)
            /\ ~done => Len(rs[r].rows) = From
        BY <4>3 DEF ReaderInv
      <4>5. From \in Nat
        BY DEF From, TypeOK
      <4>6. Len(rs[r].rows) = Rows(bound)
        BY ONLY <1>0, <4>2, <4>4, <4>5
      <4> QED
        BY ONLY <2>1, <4>1, <4>2, <4>4, <4>6, <1>0
    <3>3. CASE rs[r].state # "disturbed" /\ out' # Nil
      <4> DEFINE s == rs[r].rows
                 t == Append(s, <<bound, out'.number>>)
      <4>1. /\ ~done /\ done' = done /\ out'.number = From + 1
            /\ From < Rows(bound)
            /\ vm' = "run" /\ pos' = From + 1
        BY <1>3, <3>3
           DEF Read, StepRow, VmRow, StepDone, StepException, StepError, Row
      <4>2. rs[r].state \in {"reading", "ended"} /\ s \in Seq(Binding \X Nat)
        BY <1>0, <3>3 DEF Read, Reader
      <4>3. /\ rs[r].state = "reading" /\ Len(s) = From
            /\ s = [i \in 1 .. Len(s) |-> <<bound, i>>]
            /\ \A x \in DOMAIN rs[r].for : bound[x] = rs[r].for[x]
        BY <4>1, <4>2 DEF ReaderInv
      <4>4. /\ t \in Seq(Binding \X Nat) /\ Len(t) = From + 1
            /\ t = [i \in 1 .. Len(t) |-> <<bound, i>>]
        <5>1. t = Append(s, <<bound, Len(s) + 1>>)
          BY <4>1, <4>3
        <5> HIDE DEF t, s
        <5>2. bound \in Binding
          BY <1>0
        <5> QED
          BY <4>2, <4>3, <5>1, <5>2, NextRow
      <4>5. /\ Kept(rs[r]) \in Reader
            /\ Kept(rs[r]).rows = t /\ Kept(rs[r]).for = rs[r].for
            /\ Kept(rs[r]).state = "reading"
        <5> HIDE DEF t, s
        <5>1. Kept(rs[r]) = [rs[r] EXCEPT !.rows = t]
          BY <3>3 DEF Kept, t, s
        <5> QED
          BY <1>0, <4>3, <4>4, <5>1 DEF Reader
      <4>6. From' = From + 1 /\ From \in Nat
        BY <4>1 DEF From, TypeOK
      <4> HIDE DEF t, s
      <4>7. Len(t) <= Rows(bound)
        BY ONLY <1>0, <4>1, <4>4, <4>6
      <4>8. rs'[r].rows = t /\ rs'[r].for = rs[r].for
            /\ rs'[r].state = "reading"
        BY ONLY <2>1, <4>5
      <4> QED
        BY ONLY <4>1, <4>3, <4>4, <4>5, <4>6, <4>7, <4>8
    <3> QED
      BY <3>1, <3>2, <3>3
  <2>3. rs' \in [ResultSet -> Reader]
    BY <2>1, <2>2
  <2>4. ReaderInv'
    <3> SUFFICES ASSUME NEW q \in ResultSet,
                        rs'[q].state \in {"reading", "ended"}
                 PROVE  /\ \A x \in DOMAIN rs'[q].for :
                               bound'[x] = rs'[q].for[x]
                        /\ rs'[q].rows
                             = [i \in 1 .. Len(rs'[q].rows) |-> <<bound', i>>]
                        /\ Len(rs'[q].rows) <= Rows(bound)'
                        /\ done' => Len(rs'[q].rows) = Rows(bound)'
                        /\ ~done' => /\ rs'[q].state = "reading"
                                     /\ Len(rs'[q].rows) = From'
      BY DEF ReaderInv
    <3>1. q = r
      BY <2>1
    <3> QED
      BY ONLY <1>0, <2>2, <3>1, rs'[q].state \in {"reading", "ended"}
  <2> QED
    BY <1>0, <1>1, <2>3, <2>4 DEF TypeOK
<1> QED
  BY <1>2, <1>3

(* execute begins anew: all that r has read before is forgotten.           *)
LEMMA ExecuteKeeps ==
    ASSUME CursorInv, NEW r \in ResultSet, NEW vals \in Given,
           Execute(r, vals)
    PROVE  CursorInv'
<1> USE DEF CursorInv
<1>0. /\ st' = st /\ query' = query /\ bound' = BindParams(vals)
      /\ bound' \in Binding
      /\ \A x \in DOMAIN vals : bound'[x] = vals[x]
      /\ cleared' = FALSE
      /\ Rows(bound)' \in Nat /\ (~query => Rows(bound)' = 0)
  <2>1. st' = st /\ query' = query /\ bound' = BindParams(vals)
        /\ cleared' = FALSE
    BY DEF Execute
  <2>2. bound' \in Binding /\ \A x \in DOMAIN vals : bound'[x] = vals[x]
    BY <2>1, BindParamsType
  <2> QED
    BY <2>1, <2>2, CursorAssumption DEF Rows
<1>1. /\ vm' \in VmState /\ pos' = 0 /\ done' \in BOOLEAN
      /\ runs' \in 0 .. MaxRuns
      /\ out'.number \in Nat /\ out'.is \in {"void", "nil", "raised"}
      /\ DoneAgrees'
      /\ done' => ~query
  <2>1. runs' \in 0 .. MaxRuns
    BY CursorAssumption DEF Execute, TypeOK
  <2>2. vm' \in VmState /\ pos' = 0 /\ done' \in BOOLEAN
        /\ (done' <=> vm' = "done") /\ (done' => ~query)
    BY DEF Execute, VmReset, VmState
  <2>3. out' \in {Void, Nil, Raised}
    BY DEF Execute
  <2>4. out'.number \in Nat /\ out'.is \in {"void", "nil", "raised"}
    BY <2>3 DEF Void, Nil, Raised
  <2> QED
    BY <2>1, <2>2, <2>4 DEF DoneAgrees
<1>2. CASE rs' = AllDisturbed
  <2>1. ReaderInv' /\ rs' \in [ResultSet -> Reader]
    BY <1>2, NobodyReads
  <2> QED
    BY <1>0, <1>1, <2>1 DEF TypeOK
<1>3. CASE rs' = Reading(r, vals)
  <2> DEFINE new == [state |-> "reading", for |-> vals, rows |-> <<>>]
  <2>1. new \in Reader
    BY DEF Reader
  <2>2. /\ rs' \in [ResultSet -> Reader]
        /\ rs'[r] = new
        /\ \A q \in ResultSet \ {r} :
              rs'[q].state \in {"none", "disturbed"}
    BY <1>3, <2>1, DisturbedReaders DEF Reading
  <2>3. From' = 0
    BY <1>1 DEF From
  <2>4. /\ new.state = "reading" /\ new.for = vals /\ new.rows = <<>>
        /\ Len(new.rows) = 0
        /\ new.rows = [i \in 1 .. 0 |-> <<bound', i>>]
    OBVIOUS
  <2> HIDE DEF new
  <2>5. ReaderInv'
    BY <1>0, <1>1, <2>2, <2>3, <2>4 DEF ReaderInv
  <2> QED
    BY <1>0, <1>1, <2>2, <2>5 DEF TypeOK
<1> QED
  BY <1>2, <1>3 DEF Execute

(* The calls that disturb every reader: a bind_params that raises, reset!, *)
(* clear_bindings! and bind_param.                                         *)
LEMMA DisturbingKeeps ==
    ASSUME CursorInv, NEW vals \in Given,
           ExecuteRaises(vals) \/ Reset \/ ClearBindings \/ Bind(vals)
    PROVE  CursorInv'
<1> USE DEF CursorInv
<1>0. BindParams(vals) \in Binding /\ Unbound \in Binding
  BY BindParamsType, CursorAssumption DEF Unbound, Binding
<1>1. /\ st' = st /\ query' = query /\ bound' \in Binding
      /\ vm' \in VmState /\ pos' \in Nat /\ done' \in BOOLEAN
      /\ runs' \in 0 .. MaxRuns /\ cleared' \in BOOLEAN
      /\ out'.number \in Nat /\ out'.is \in {"void", "raised"}
      /\ DoneAgrees'
  <2> USE <1>0 DEF VmReset, vmVars, TypeOK, VmState, DoneAgrees, Void, Raised
  <2>1. CASE ExecuteRaises(vals)
    BY <2>1 DEF ExecuteRaises
  <2>2. CASE Reset
    BY <2>2 DEF Reset
  <2>3. CASE ClearBindings
    BY <2>3 DEF ClearBindings
  <2>4. CASE Bind(vals)
    BY <2>4 DEF Bind
  <2> QED
    BY <2>1, <2>2, <2>3, <2>4
<1>2. ReaderInv' /\ rs' \in [ResultSet -> Reader]
  <2>1. CASE rs' = AllDisturbed
    BY <2>1, NobodyReads
  <2>2. CASE UNCHANGED <<query, vmVars, bound, done, rs>>
    BY <2>2 DEF ReaderInv, Rows, From, vmVars, TypeOK
  <2> QED
    BY <2>1, <2>2 DEF ExecuteRaises, Reset, ClearBindings, Bind
<1> QED
  BY <1>1, <1>2 DEF TypeOK

(* Closing leaves the flag and the history.                                *)
LEMMA ClosingKeeps ==
    ASSUME CursorInv, Close \/ UseClosed
    PROVE  CursorInv'
<1>1. TypeOK'
  BY DEF CursorInv, TypeOK, Close, UseClosed, vmVars, Void, Raised
<1>2. DoneAgrees'
  BY DEF CursorInv, DoneAgrees, Close, UseClosed, vmVars
<1>3. ReaderInv'
  BY DEF CursorInv, ReaderInv, Rows, From, Close, UseClosed, vmVars
<1> QED
  BY <1>1, <1>2, <1>3 DEF CursorInv

-----------------------------------------------------------------------------
(* Every step keeps the invariant.                                         *)
LEMMA StepInv == CursorInv /\ [Next]_vars => CursorInv'
<1> SUFFICES ASSUME CursorInv, [Next]_vars
             PROVE  CursorInv'
  OBVIOUS
<1>1. CASE UNCHANGED vars
  BY <1>1
     DEF vars, vmVars, CursorInv, TypeOK, DoneAgrees, ReaderInv, Rows, From
<1>2. CASE Next
  <2>1. Unbound \in Given
    BY CursorAssumption DEF Unbound, Given
  <2> QED
    BY <1>2, <2>1, ReadKeeps, ExecuteKeeps, DisturbingKeeps, ClosingKeeps
       DEF Next
<1> QED
  BY <1>1, <1>2

(* The inductive invariant, for any number of result sets and rows.        *)
THEOREM CursorInvariance == Spec => []CursorInv
<1> QED
  BY InitInv, StepInv, PTL DEF Spec

(* done_p is set only if the machine has halted at the end of the rows,    *)
(* and forgotten without a rewind by clear_bindings! alone.                *)
THEOREM DoneAgrees_Holds == Spec => []DoneAgrees
<1>1. CursorInv => DoneAgrees
  BY DEF CursorInv
<1> QED
  BY <1>1, CursorInvariance, PTL

(* A result set that nobody disturbed has read the first rows of its own   *)
(* execution, each once and in order, and all of them if it has ended.     *)
THEOREM SoleReaderReadsAll_Holds == Spec => []SoleReaderReadsAll
<1>1. CursorInv => SoleReaderReadsAll
  BY DEF CursorInv, ReaderInv, SoleReaderReadsAll
<1> QED
  BY <1>1, CursorInvariance, PTL

-----------------------------------------------------------------------------
(* The statement starts as a row stream does.                              *)
LEMMA StreamInit == Init => Stream!Init
  BY DEF Init, Stream!Init, Void, Stream!Void

(* Every step of the statement is a step of the stream, or none at all.    *)
LEMMA StreamStep == CursorInv /\ [Next]_vars => [Stream!Next]_(Stream!rsVars)
<1> SUFFICES ASSUME CursorInv, [Next]_vars
             PROVE  Stream!Next \/ UNCHANGED Stream!rsVars
  OBVIOUS
<1> USE DEF CursorInv, TypeOK, Void, Raised, Nil, Row, vmVars, Stream!Void,
            Stream!Raised, Stream!Nil, Stream!Row
<1>1. ASSUME NEW r \in ResultSet, Read(r)
      PROVE  Stream!Next
  <2>1. CASE done
    <3>1. Stream!StayOver
      BY <1>1, <2>1 DEF Read, Stream!StayOver
    <3> QED
      BY <3>1 DEF Stream!Next
  <2>2. CASE ~done /\ StepRow
    <3>1. Stream!Deliver
      BY <2>2 DEF StepRow, VmRow, From, Stream!Deliver
    <3> QED
      BY <3>1 DEF Stream!Next
  <2>3. CASE ~done /\ StepDone
    <3>1. Stream!Finish
      BY <2>3 DEF StepDone, VmDone, From, Stream!Finish
    <3> QED
      BY <3>1 DEF Stream!Next
  <2>4. CASE ~done /\ StepException
    <3>1. Stream!Fail
      BY <2>4 DEF StepException, VmFailed, Stream!Fail
    <3> QED
      BY <3>1 DEF Stream!Next
  <2>5. CASE ~done /\ StepError
    <3>1. Stream!Rewind
      BY <2>5 DEF StepError, VmReset, Stream!Rewind
    <3> QED
      BY <3>1 DEF Stream!Next
  <2> QED
    BY <1>1, <2>1, <2>2, <2>3, <2>4, <2>5 DEF Read
<1>2. ASSUME NEW r \in ResultSet, NEW vals \in Given, Execute(r, vals)
      PROVE  Stream!Next
  <2>1. Stream!Rewind \/ Stream!RunThrough
    BY <1>2 DEF Execute, VmReset, Stream!Rewind, Stream!RunThrough
  <2> QED
    BY <2>1 DEF Stream!Next
<1>3. ASSUME NEW vals \in Given, ExecuteRaises(vals) \/ Reset
      PROVE  Stream!Next
  <2>1. Stream!Rewind
    BY <1>3 DEF ExecuteRaises, Reset, VmReset, Stream!Rewind
  <2> QED
    BY <2>1 DEF Stream!Next
<1>4. CASE ClearBindings
  <2>1. Stream!Rewind \/ Stream!Refuse
    BY <1>4 DEF ClearBindings, DoneAgrees, Stream!Rewind, Stream!Refuse
  <2> QED
    BY <2>1 DEF Stream!Next
<1>5. ASSUME NEW vals \in Given, Bind(vals) \/ Close \/ UseClosed
      PROVE  Stream!Next
  <2>1. Stream!Refuse
    BY <1>5 DEF Bind, Close, UseClosed, Stream!Refuse
  <2> QED
    BY <2>1 DEF Stream!Next
<1>6. Unbound \in Given
  BY CursorAssumption DEF Unbound, Given
<1>7. CASE UNCHANGED vars
  BY <1>7 DEF vars, Stream!rsVars
<1> QED
  BY <1>1, <1>2, <1>3, <1>4, <1>5, <1>6, <1>7 DEF Next

(* A statement is a row stream: every pass over its rows delivers them in  *)
(* order, with no gap and no repetition, and stays at the end until it is  *)
(* rewound, however the calls of its result sets are interleaved.          *)
THEOREM StatementIsRowStream == Spec => RowStreamPromise
<1> QED
  BY CursorInvariance, StreamInit, StreamStep, PTL
     DEF Spec, RowStreamPromise, Stream!Spec
-----------------------------------------------------------------------------
(* Rows as hashes (RowHash).                                               *)

(* The names that are cached, if no change of the schema came after them,  *)
(* are those of the schema, which is also what is compiled.                *)
CacheInv ==
    ~behind /\ columns # Unknown => columns = schema /\ compiled = schema

HashInv ==
    /\ schema \in Seq(Column) /\ compiled \in Seq(Column)
    /\ CacheInv
    /\ NamesFitUntilAltered

(* get_metadata asks for every name by its index, and so finds all of them *)
(* in their order.                                                         *)
LEMMA NamesOfProgram ==
    ASSUME NEW program \in Seq(Column)
    PROVE  Names(program) = program
  BY LenProperties DEF Names, ColumnCount, ColumnName

(* A change of the schema after the names were learned is remembered.      *)
LEMMA AlteredKeeps ==
    ASSUME HashInv, NEW c \in Column, AddColumn(c) \/ DropColumn(c)
    PROVE  HashInv'
<1>1. schema' \in Seq(Column)
  <2>1. CASE AddColumn(c)
    BY <2>1, AppendProperties DEF HashInv, AddColumn
  <2>2. CASE DropColumn(c)
    <3>1. PICK i \in DOMAIN schema : schema' = RemoveAt(schema, i)
      BY <2>2 DEF DropColumn
    <3>2. i \in 1 .. Len(schema)
      BY LenProperties DEF HashInv
    <3> QED
      BY <3>1, <3>2, SubSeqProperties, ConcatProperties, LenProperties
         DEF HashInv, RemoveAt
  <2> QED
    BY <2>1, <2>2
<1>2. Altered
  BY DEF AddColumn, DropColumn
<1> QED
  BY <1>1, <1>2 DEF HashInv, Altered, CacheInv, NamesFitUntilAltered

(* A row as a hash, whether the names are known or learned from the        *)
(* program that the step has left.                                         *)
LEMMA NextHashKeeps ==
    ASSUME HashInv, NextHash
    PROVE  HashInv'
<1>1. compiled' \in {compiled, schema}
  BY DEF NextHash, StepsTo, Recompiled
<1>2. columns' = IF columns = Unknown THEN compiled' ELSE columns
  BY <1>1, NamesOfProgram DEF NextHash, Metadata, HashInv
<1> QED
  BY <1>1, <1>2
     DEF HashInv, NextHash, StepsTo, Recompiled, CacheInv,
         NamesFitUntilAltered, LearnedLate

(* The names are asked for between two steps.                              *)
LEMMA ColumnsKeeps ==
    ASSUME HashInv, Columns
    PROVE  HashInv'
<1>1. columns' = IF columns = Unknown THEN compiled ELSE columns
  BY NamesOfProgram DEF Columns, Metadata, HashInv
<1> QED
  BY <1>1 DEF HashInv, Columns, CacheInv, NamesFitUntilAltered, LearnedLate

(* The inductive invariant, for tables of any columns and any number of    *)
(* changes of the schema.                                                  *)
THEOREM HashInvariance == HashSpec => []HashInv
<1>1. HashInit => HashInv
  <2> SUFFICES ASSUME HashInit PROVE HashInv
    OBVIOUS
  <2>1. PICK c \in Column : schema = <<c>>
    BY DEF HashInit
  <2>2. schema \in Seq(Column) /\ compiled = schema
    BY <2>1 DEF HashInit
  <2> QED
    BY <2>2 DEF HashInit, HashInv, CacheInv, NamesFitUntilAltered
<1>2. HashInv /\ [HashNext]_hashVars => HashInv'
  <2> SUFFICES ASSUME HashInv, [HashNext]_hashVars
               PROVE  HashInv'
    OBVIOUS
  <2>1. CASE \E c \in Column : AddColumn(c) \/ DropColumn(c)
    BY <2>1, AlteredKeeps
  <2>2. CASE StepEnds \/ StepFails \/ NextArray
    BY <2>2
       DEF StepEnds, StepFails, NextArray, StepsTo, Recompiled, hashVars,
           HashInv, CacheInv, NamesFitUntilAltered
  <2>3. CASE NextHash
    BY <2>3, NextHashKeeps
  <2>4. CASE Columns
    BY <2>4, ColumnsKeeps
  <2>5. CASE ResetMachine \/ UNCHANGED hashVars
    BY <2>5 DEF ResetMachine, hashVars, HashInv, CacheInv, NamesFitUntilAltered
  <2> QED
    BY <2>1, <2>2, <2>3, <2>4, <2>5 DEF HashNext
<1> QED
  BY <1>1, <1>2, PTL DEF HashSpec

(* ResultSet#next_hash puts every value under the name of its column, as   *)
(* long as no change of the schema came after Statement#columns had asked. *)
THEOREM NamesFitUntilAltered_Holds == HashSpec => []NamesFitUntilAltered
<1>1. HashInv => NamesFitUntilAltered
  BY DEF HashInv
<1> QED
  BY <1>1, HashInvariance, PTL
=============================================================================
