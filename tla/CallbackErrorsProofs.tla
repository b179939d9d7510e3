------------------------ MODULE CallbackErrorsProofs ------------------------
(* Machine-checked proofs about CallbackErrors, for any number of          *)
(* aggregates and of rows; then about Values, the conversions of what      *)
(* those callbacks are given and return, for integers of any width.  The   *)
(* two modules share no variable.                                          *)
EXTENDS CallbackErrors, Values, TLAPS

(* The callback that runs is one that is due, and its instance is in the   *)
(* state in which the library calls that method.  The function is due in a *)
(* row only.                                                               *)
CallInv ==
    /\ (running = Nil) <=> (method = "none")
    /\ engine \in {"idle", "lost"} => running = Nil
    /\ running # Nil => running \in todo
    /\ method = "call" => running = Function /\ engine = "rows"
    /\ method \in {"new", "step", "finalize"} => running \in Aggregate
    /\ method = "new" =>
          slot[running] = "Qfalse" /\ engine \in {"rows", "final"}
    /\ method = "step" =>
          slot[running] = "instance" /\ ~exc[running] /\ engine = "rows"
    /\ method = "finalize" =>
          /\ slot[running] = "instance" /\ ~exc[running]
          /\ engine \in {"final", "halt"}
    /\ engine # "rows" => Function \notin todo

(* A pending exception is one of this step.                                *)
PendingInv ==
    /\ errinfo # Nil => errinfo \in raised
    /\ engine = "idle" => errinfo = Nil

(* While the library knows of no error, an exception that escaped is       *)
(* remembered by an instance that is still to be finalized.                *)
RaisedInv ==
    engine \in {"rows", "final"} /\ raised # {} =>
        \E a \in Aggregate : slot[a] = "instance" /\ exc[a]

(* Every group in progress is still to be finalized, and after an error    *)
(* nothing else is.                                                        *)
ProgressInv ==
    /\ engine = "idle" => \A a \in Aggregate : slot[a] = "Qfalse"
    /\ engine = "rows" => \A a \in Aggregate : slot[a] # "Qnil"
    /\ engine = "final" =>
          InProgress \subseteq todo /\ code \in {"ROW", "DONE"}
    /\ engine = "halt" => todo = InProgress /\ code \in {"ERROR", "INTERRUPT"}

(* An instance that has not raised was given every row of the group but    *)
(* the one that is being stepped; without an instance there was no row.    *)
RowsInv ==
    engine = "rows" =>
        \A a \in Aggregate :
            LET due == IF a \in todo THEN 1 ELSE 0
            IN  /\ slot[a] = "Qfalse" => group = due
                /\ slot[a] = "instance" /\ ~exc[a] => seen[a] + due = group

(* The aggregates of a complete group, finalized or not.                   *)
FinalInv ==
    engine = "final" /\ code = "ROW" =>
        \A a \in Aggregate :
            /\ slot[a] = "Qfalse" => group = 0 /\ a \in todo
            /\ slot[a] = "instance" /\ ~exc[a] => seen[a] = group
            /\ slot[a] = "Qnil" => seen[a] = group

ErrorsInv ==
    /\ TypeOK
    /\ CallInv
    /\ PendingInv
    /\ RaisedInv
    /\ ProgressInv
    /\ RowsInv
    /\ FinalInv
    /\ InstancesReleased
    /\ NoExceptionLost
    /\ OwnException
    /\ GroupsAreWhole

-----------------------------------------------------------------------------
(* No exception is pending and no group in progress at the start.          *)
LEMMA InitInv == Init => ErrorsInv
<1> SUFFICES ASSUME Init PROVE ErrorsInv
  OBVIOUS
<1> USE CallbackAssumption DEF Init
<1>1. TypeOK
  BY DEF TypeOK, Engine, Code, Method
<1>2. CallInv /\ PendingInv /\ RaisedInv /\ ProgressInv /\ RowsInv /\ FinalInv
  BY DEF CallInv, PendingInv, RaisedInv, ProgressInv, RowsInv, FinalInv
<1>3. InstancesReleased /\ NoExceptionLost /\ OwnException /\ GroupsAreWhole
  BY DEF InstancesReleased, NoExceptionLost, OwnException, GroupsAreWhole,
         Plain
<1> QED
  BY <1>1, <1>2, <1>3 DEF ErrorsInv

(* What Statement#step makes of the answer of the library.                 *)
LEMMA Answers ==
    /\ Answer["ROW"] = "row"
    /\ Answer["DONE"] = "nil"
    /\ Answer["ERROR"] = "Ruby Exception occurred"
    /\ Answer["INTERRUPT"] = "interrupted"
  BY DEF Answer, Row

(* The library begins a step.                                              *)
LEMMA StepBeginsKeeps ==
    ASSUME ErrorsInv, StepBegins
    PROVE  ErrorsInv'
<1> USE CallbackAssumption DEF ErrorsInv, instanceVars, callVars, StepBegins
<1>1. TypeOK'
  BY DEF TypeOK, Engine, Code
<1>2. CallInv'
  BY DEF CallInv
<1>3. PendingInv'
  BY DEF PendingInv
<1>4. RaisedInv'
  BY DEF RaisedInv
<1>5. ProgressInv'
  BY DEF ProgressInv
<1>6. RowsInv'
  BY DEF RowsInv, ProgressInv
<1>7. FinalInv'
  BY DEF FinalInv
<1>8. InstancesReleased'
  BY DEF InstancesReleased, ProgressInv
<1>9. (NoExceptionLost /\ OwnException)'
  BY DEF NoExceptionLost, OwnException
<1>10. GroupsAreWhole'
  BY DEF GroupsAreWhole
<1> QED
  BY <1>1, <1>2, <1>3, <1>4, <1>5, <1>6, <1>7, <1>8, <1>9, <1>10

(* Every callback is due once for the row.                                 *)
LEMMA NextRowKeeps ==
    ASSUME ErrorsInv, NextRow
    PROVE  ErrorsInv'
<1> USE CallbackAssumption
        DEF ErrorsInv, instanceVars, callVars, NextRow, Callback
<1>1. TypeOK'
  BY DEF TypeOK
<1>2. CallInv'
  BY DEF CallInv
<1>3. PendingInv'
  BY DEF PendingInv
<1>4. RaisedInv'
  BY DEF RaisedInv
<1>5. ProgressInv'
  BY DEF ProgressInv
<1>6. RowsInv'
  BY DEF RowsInv, TypeOK
<1>7. FinalInv'
  BY DEF FinalInv
<1>8. InstancesReleased'
  BY DEF InstancesReleased
<1>9. (NoExceptionLost /\ OwnException)'
  BY DEF NoExceptionLost, OwnException
<1>10. GroupsAreWhole'
  BY DEF GroupsAreWhole
<1> QED
  BY <1>1, <1>2, <1>3, <1>4, <1>5, <1>6, <1>7, <1>8, <1>9, <1>10

(* The group is complete.                                                  *)
LEMMA EndOfGroupKeeps ==
    ASSUME ErrorsInv, EndOfGroup
    PROVE  ErrorsInv'
<1> USE CallbackAssumption
        DEF ErrorsInv, instanceVars, callVars, EndOfGroup, InProgress
<1>0. InProgress \subseteq Callback /\ Aggregate \subseteq Callback
  BY DEF Callback
<1>1. TypeOK'
  BY <1>0 DEF TypeOK, Engine, Code
<1>2. CallInv'
  BY DEF CallInv
<1>3. PendingInv'
  BY DEF PendingInv
<1>4. RaisedInv'
  BY DEF RaisedInv
<1>5. ProgressInv'
  BY DEF ProgressInv
<1>6. RowsInv'
  BY DEF RowsInv
<1>7. FinalInv'
  BY DEF FinalInv, RowsInv, TypeOK, ProgressInv
<1>8. InstancesReleased'
  BY DEF InstancesReleased
<1>9. (NoExceptionLost /\ OwnException)'
  BY DEF NoExceptionLost, OwnException
<1>10. GroupsAreWhole'
  BY DEF GroupsAreWhole
<1> QED
  BY <1>1, <1>2, <1>3, <1>4, <1>5, <1>6, <1>7, <1>8, <1>9, <1>10

(* Nothing is in progress.                                                 *)
LEMMA EndOfRowsKeeps ==
    ASSUME ErrorsInv, EndOfRows
    PROVE  ErrorsInv'
<1> USE DEF ErrorsInv, instanceVars, callVars, EndOfRows, InProgress
<1>1. TypeOK'
  BY DEF TypeOK, Engine, Code
<1>2. CallInv'
  BY DEF CallInv
<1>3. PendingInv'
  BY DEF PendingInv
<1>4. RaisedInv'
  BY DEF RaisedInv
<1>5. ProgressInv'
  BY DEF ProgressInv
<1>6. RowsInv'
  BY DEF RowsInv
<1>7. FinalInv'
  BY DEF FinalInv
<1>8. InstancesReleased'
  BY DEF InstancesReleased
<1>9. (NoExceptionLost /\ OwnException)'
  BY DEF NoExceptionLost, OwnException
<1>10. GroupsAreWhole'
  BY DEF GroupsAreWhole
<1> QED
  BY <1>1, <1>2, <1>3, <1>4, <1>5, <1>6, <1>7, <1>8, <1>9, <1>10

(* The groups in progress are to be released.                              *)
LEMMA InterruptedKeeps ==
    ASSUME ErrorsInv, Interrupted
    PROVE  ErrorsInv'
<1> USE CallbackAssumption DEF ErrorsInv, instanceVars, callVars, Interrupted
<1>0. InProgress \subseteq Callback /\ Aggregate \subseteq Callback
  BY DEF InProgress, Callback
<1>1. TypeOK'
  BY <1>0 DEF TypeOK, Engine, Code
<1>2. CallInv'
  BY DEF CallInv, InProgress
<1>3. PendingInv'
  BY DEF PendingInv
<1>4. RaisedInv'
  BY DEF RaisedInv
<1>5. ProgressInv'
  BY DEF ProgressInv, InProgress
<1>6. RowsInv'
  BY DEF RowsInv
<1>7. FinalInv'
  BY DEF FinalInv
<1>8. InstancesReleased'
  BY DEF InstancesReleased
<1>9. (NoExceptionLost /\ OwnException)'
  BY DEF NoExceptionLost, OwnException
<1>10. GroupsAreWhole'
  BY DEF GroupsAreWhole
<1> QED
  BY <1>1, <1>2, <1>3, <1>4, <1>5, <1>6, <1>7, <1>8, <1>9, <1>10

(* The function is called.                                                 *)
LEMMA CallFunctionKeeps ==
    ASSUME ErrorsInv, CallFunction
    PROVE  ErrorsInv'
<1> USE CallbackAssumption
        DEF ErrorsInv, engineVars, instanceVars, CallFunction
<1>1. TypeOK'
  BY DEF TypeOK, Method
<1>2. CallInv'
  BY DEF CallInv, TypeOK
<1>3. PendingInv'
  BY DEF PendingInv
<1>4. RaisedInv'
  BY DEF RaisedInv
<1>5. ProgressInv'
  BY DEF ProgressInv
<1>6. RowsInv'
  BY DEF RowsInv
<1>7. FinalInv'
  BY DEF FinalInv
<1>8. InstancesReleased'
  BY DEF InstancesReleased
<1>9. (NoExceptionLost /\ OwnException)'
  BY DEF NoExceptionLost, OwnException
<1>10. GroupsAreWhole'
  BY DEF GroupsAreWhole
<1> QED
  BY <1>1, <1>2, <1>3, <1>4, <1>5, <1>6, <1>7, <1>8, <1>9, <1>10

(* An instance is asked for.                                               *)
LEMMA NewInstanceKeeps ==
    ASSUME ErrorsInv, NEW a \in Aggregate, NewInstance(a)
    PROVE  ErrorsInv'
<1> USE CallbackAssumption
        DEF ErrorsInv, engineVars, instanceVars, NewInstance
<1>1. TypeOK'
  BY DEF TypeOK, Method
<1>2. CallInv'
  BY DEF CallInv, TypeOK
<1>3. PendingInv'
  BY DEF PendingInv
<1>4. RaisedInv'
  BY DEF RaisedInv
<1>5. ProgressInv'
  BY DEF ProgressInv, InProgress
<1>6. RowsInv'
  BY DEF RowsInv
<1>7. FinalInv'
  BY DEF FinalInv
<1>8. InstancesReleased'
  BY DEF InstancesReleased
<1>9. (NoExceptionLost /\ OwnException)'
  BY DEF NoExceptionLost, OwnException
<1>10. GroupsAreWhole'
  BY DEF GroupsAreWhole
<1> QED
  BY <1>1, <1>2, <1>3, <1>4, <1>5, <1>6, <1>7, <1>8, <1>9, <1>10

(* A row passes by an instance that has raised.                            *)
LEMMA SkipStepKeeps ==
    ASSUME ErrorsInv, NEW a \in Aggregate, SkipStep(a)
    PROVE  ErrorsInv'
<1> USE DEF ErrorsInv, instanceVars, callVars, SkipStep
<1>1. TypeOK'
  BY DEF TypeOK
<1>2. CallInv'
  BY DEF CallInv
<1>3. PendingInv'
  BY DEF PendingInv
<1>4. RaisedInv'
  BY DEF RaisedInv
<1>5. ProgressInv'
  BY DEF ProgressInv
<1>6. RowsInv'
  BY DEF RowsInv
<1>7. FinalInv'
  BY DEF FinalInv
<1>8. InstancesReleased'
  BY DEF InstancesReleased
<1>9. (NoExceptionLost /\ OwnException)'
  BY DEF NoExceptionLost, OwnException
<1>10. GroupsAreWhole'
  BY DEF GroupsAreWhole
<1> QED
  BY <1>1, <1>2, <1>3, <1>4, <1>5, <1>6, <1>7, <1>8, <1>9, <1>10

(* A row is given to the instance.                                         *)
LEMMA CallStepKeeps ==
    ASSUME ErrorsInv, NEW a \in Aggregate, CallStep(a)
    PROVE  ErrorsInv'
<1> USE CallbackAssumption DEF ErrorsInv, engineVars, instanceVars, CallStep
<1>1. TypeOK'
  BY DEF TypeOK, Method
<1>2. CallInv'
  BY DEF CallInv, TypeOK
<1>3. PendingInv'
  BY DEF PendingInv
<1>4. RaisedInv'
  BY DEF RaisedInv
<1>5. ProgressInv'
  BY DEF ProgressInv
<1>6. RowsInv'
  BY DEF RowsInv
<1>7. FinalInv'
  BY DEF FinalInv
<1>8. InstancesReleased'
  BY DEF InstancesReleased
<1>9. (NoExceptionLost /\ OwnException)'
  BY DEF NoExceptionLost, OwnException
<1>10. GroupsAreWhole'
  BY DEF GroupsAreWhole
<1> QED
  BY <1>1, <1>2, <1>3, <1>4, <1>5, <1>6, <1>7, <1>8, <1>9, <1>10

(* The instance is finalized.                                              *)
LEMMA CallFinalizeKeeps ==
    ASSUME ErrorsInv, NEW a \in Aggregate, CallFinalize(a)
    PROVE  ErrorsInv'
<1> USE CallbackAssumption
        DEF ErrorsInv, engineVars, instanceVars, CallFinalize
<1>1. TypeOK'
  BY DEF TypeOK, Method
<1>2. CallInv'
  BY DEF CallInv, TypeOK
<1>3. PendingInv'
  BY DEF PendingInv
<1>4. RaisedInv'
  BY DEF RaisedInv
<1>5. ProgressInv'
  BY DEF ProgressInv, InProgress
<1>6. RowsInv'
  BY DEF RowsInv
<1>7. FinalInv'
  BY DEF FinalInv
<1>8. InstancesReleased'
  BY DEF InstancesReleased
<1>9. (NoExceptionLost /\ OwnException)'
  BY DEF NoExceptionLost, OwnException
<1>10. GroupsAreWhole'
  BY DEF GroupsAreWhole
<1> QED
  BY <1>1, <1>2, <1>3, <1>4, <1>5, <1>6, <1>7, <1>8, <1>9, <1>10

(* The library is told of an exception of a step.                          *)
LEMMA FinalErrorKeeps ==
    ASSUME ErrorsInv, NEW a \in Aggregate, FinalError(a)
    PROVE  ErrorsInv'
<1> USE CallbackAssumption
        DEF ErrorsInv, callVars, FinalError, ResultError, Destroy, InProgress
<1>0. InProgress \subseteq Callback /\ Aggregate \subseteq Callback
  BY DEF Callback
<1>1. TypeOK'
  BY <1>0 DEF TypeOK, Engine, Code, InstancesReleased
<1>2. CallInv'
  BY DEF CallInv
<1>3. PendingInv'
  BY DEF PendingInv
<1>4. RaisedInv'
  BY DEF RaisedInv
<1>5. ProgressInv'
  BY DEF ProgressInv, TypeOK
<1>6. RowsInv'
  BY DEF RowsInv
<1>7. FinalInv'
  BY DEF FinalInv
<1>8. InstancesReleased'
  BY DEF InstancesReleased, TypeOK
<1>9. (NoExceptionLost /\ OwnException)'
  BY DEF NoExceptionLost, OwnException
<1>10. GroupsAreWhole'
  BY DEF GroupsAreWhole
<1> QED
  BY <1>1, <1>2, <1>3, <1>4, <1>5, <1>6, <1>7, <1>8, <1>9, <1>10

(* errinfo is cleared inside a callback.                                   *)
LEMMA ClearsKeeps ==
    ASSUME ErrorsInv, RescueInside \/ InnerStep
    PROVE  ErrorsInv'
<1> USE DEF ErrorsInv, engineVars, instanceVars, callVars, RescueInside,
            InnerStep
<1>1. TypeOK'
  BY DEF TypeOK
<1>2. CallInv'
  BY DEF CallInv
<1>3. PendingInv'
  BY DEF PendingInv
<1>4. RaisedInv'
  BY DEF RaisedInv
<1>5. ProgressInv'
  BY DEF ProgressInv, InProgress
<1>6. RowsInv'
  BY DEF RowsInv
<1>7. FinalInv'
  BY DEF FinalInv
<1>8. InstancesReleased'
  BY DEF InstancesReleased
<1>9. (NoExceptionLost /\ OwnException)'
  BY DEF NoExceptionLost, OwnException
<1>10. GroupsAreWhole'
  BY DEF GroupsAreWhole
<1> QED
  BY <1>1, <1>2, <1>3, <1>4, <1>5, <1>6, <1>7, <1>8, <1>9, <1>10

(* A new instance has seen no row.                                         *)
LEMMA NewReturnsKeeps ==
    ASSUME ErrorsInv, NewReturns
    PROVE  ErrorsInv'
<1> USE CallbackAssumption
        DEF ErrorsInv, engineVars, NewReturns, InstanceMade, FreshHandler,
            CallEnds
<1>1. TypeOK'
  BY DEF TypeOK, Method, CallInv
<1>2. CallInv'
  BY DEF CallInv
<1>3. PendingInv'
  BY DEF PendingInv
<1>4. RaisedInv'
  BY DEF RaisedInv, CallInv
<1>5. ProgressInv'
  BY DEF ProgressInv, CallInv, InProgress
<1>6. RowsInv'
  BY DEF RowsInv, CallInv, TypeOK
<1>7. FinalInv'
  BY DEF FinalInv, CallInv, TypeOK
<1>8. InstancesReleased'
  BY DEF InstancesReleased, CallInv, TypeOK
<1>9. (NoExceptionLost /\ OwnException)'
  BY DEF NoExceptionLost, OwnException
<1>10. GroupsAreWhole'
  BY DEF GroupsAreWhole, CallInv
<1> QED
  BY <1>1, <1>2, <1>3, <1>4, <1>5, <1>6, <1>7, <1>8, <1>9, <1>10

(* The instance was given the row.                                         *)
LEMMA StepReturnsKeeps ==
    ASSUME ErrorsInv, StepReturns
    PROVE  ErrorsInv'
<1> USE CallbackAssumption DEF ErrorsInv, StepReturns, CallEnds
<1>1. TypeOK'
  BY DEF TypeOK, Method, CallInv, RowsInv
<1>2. CallInv'
  BY DEF CallInv
<1>3. PendingInv'
  BY DEF PendingInv
<1>4. RaisedInv'
  BY DEF RaisedInv
<1>5. ProgressInv'
  BY DEF ProgressInv, CallInv
<1>6. RowsInv'
  BY DEF RowsInv, CallInv, TypeOK
<1>7. FinalInv'
  BY DEF FinalInv, CallInv
<1>8. InstancesReleased'
  BY DEF InstancesReleased
<1>9. (NoExceptionLost /\ OwnException)'
  BY DEF NoExceptionLost, OwnException
<1>10. GroupsAreWhole'
  BY DEF GroupsAreWhole, CallInv
<1> QED
  BY <1>1, <1>2, <1>3, <1>4, <1>5, <1>6, <1>7, <1>8, <1>9, <1>10

(* The instance is released.                                               *)
LEMMA FinalizeReturnsKeeps ==
    ASSUME ErrorsInv, FinalizeReturns
    PROVE  ErrorsInv'
<1> USE DEF ErrorsInv, FinalizeReturns, Destroy, CallEnds
<1>1. TypeOK'
  BY DEF TypeOK, Method, CallInv, InstancesReleased
<1>2. CallInv'
  BY DEF CallInv
<1>3. PendingInv'
  BY DEF PendingInv
<1>4. RaisedInv'
  BY DEF RaisedInv, CallInv
<1>5. ProgressInv'
  BY DEF ProgressInv, CallInv, InProgress, TypeOK
<1>6. RowsInv'
  BY DEF RowsInv, CallInv
<1>7. FinalInv'
  BY DEF FinalInv, CallInv
<1>8. InstancesReleased'
  BY DEF InstancesReleased, CallInv, TypeOK
<1>9. (NoExceptionLost /\ OwnException)'
  BY DEF NoExceptionLost, OwnException
<1>10. GroupsAreWhole'
  BY DEF GroupsAreWhole
<1> QED
  BY <1>1, <1>2, <1>3, <1>4, <1>5, <1>6, <1>7, <1>8, <1>9, <1>10

(* The function is done with the row.                                      *)
LEMMA FunctionReturnsKeeps ==
    ASSUME ErrorsInv, FunctionReturns
    PROVE  ErrorsInv'
<1> USE CallbackAssumption
        DEF ErrorsInv, instanceVars, FunctionReturns, CallEnds
<1>1. TypeOK'
  BY DEF TypeOK, Method
<1>2. CallInv'
  BY DEF CallInv
<1>3. PendingInv'
  BY DEF PendingInv
<1>4. RaisedInv'
  BY DEF RaisedInv
<1>5. ProgressInv'
  BY DEF ProgressInv, CallInv
<1>6. RowsInv'
  BY DEF RowsInv, CallInv
<1>7. FinalInv'
  BY DEF FinalInv, CallInv
<1>8. InstancesReleased'
  BY DEF InstancesReleased
<1>9. (NoExceptionLost /\ OwnException)'
  BY DEF NoExceptionLost, OwnException
<1>10. GroupsAreWhole'
  BY DEF GroupsAreWhole
<1> QED
  BY <1>1, <1>2, <1>3, <1>4, <1>5, <1>6, <1>7, <1>8, <1>9, <1>10

(* An instance without a handler remembers the exception.                  *)
LEMMA NewRaisesKeeps ==
    ASSUME ErrorsInv, NewRaises
    PROVE  ErrorsInv'
<1> USE CallbackAssumption
        DEF ErrorsInv, engineVars, NewRaises, InstanceMade, FreshHandler,
            Escapes, CallEnds
<1>1. TypeOK'
  BY DEF TypeOK, Method, CallInv
<1>2. CallInv'
  BY DEF CallInv
<1>3. PendingInv'
  BY DEF PendingInv, CallInv
<1>4. RaisedInv'
  BY DEF RaisedInv, CallInv, TypeOK
<1>5. ProgressInv'
  BY DEF ProgressInv, CallInv, InProgress
<1>6. RowsInv'
  BY DEF RowsInv, TypeOK
<1>7. FinalInv'
  BY DEF FinalInv, TypeOK
<1>8. InstancesReleased'
  BY DEF InstancesReleased, CallInv, TypeOK
<1>9. (NoExceptionLost /\ OwnException)'
  BY DEF NoExceptionLost, OwnException, CallInv
<1>10. GroupsAreWhole'
  BY DEF GroupsAreWhole, CallInv
<1> QED
  BY <1>1, <1>2, <1>3, <1>4, <1>5, <1>6, <1>7, <1>8, <1>9, <1>10

(* The instance remembers the exception.                                   *)
LEMMA StepRaisesKeeps ==
    ASSUME ErrorsInv, StepRaises
    PROVE  ErrorsInv'
<1> USE DEF ErrorsInv, StepRaises, Escapes, CallEnds
<1>1. TypeOK'
  BY DEF TypeOK, Method, CallInv
<1>2. CallInv'
  BY DEF CallInv
<1>3. PendingInv'
  BY DEF PendingInv, CallInv
<1>4. RaisedInv'
  BY DEF RaisedInv, CallInv, TypeOK
<1>5. ProgressInv'
  BY DEF ProgressInv, CallInv
<1>6. RowsInv'
  BY DEF RowsInv, CallInv, TypeOK
<1>7. FinalInv'
  BY DEF FinalInv, CallInv
<1>8. InstancesReleased'
  BY DEF InstancesReleased
<1>9. (NoExceptionLost /\ OwnException)'
  BY DEF NoExceptionLost, OwnException, CallInv
<1>10. GroupsAreWhole'
  BY DEF GroupsAreWhole
<1> QED
  BY <1>1, <1>2, <1>3, <1>4, <1>5, <1>6, <1>7, <1>8, <1>9, <1>10

(* The library halts, or is halting already.                               *)
LEMMA FinalizeRaisesKeeps ==
    ASSUME ErrorsInv, FinalizeRaises
    PROVE  ErrorsInv'
<1> USE CallbackAssumption
        DEF ErrorsInv, FinalizeRaises, ResultError, Destroy, Escapes,
            CallEnds, InProgress
<1>0. InProgress \subseteq Callback /\ Aggregate \subseteq Callback
  BY DEF Callback
<1>1. TypeOK'
  BY <1>0 DEF TypeOK, Engine, Code, Method, CallInv, InstancesReleased
<1>2. CallInv'
  BY DEF CallInv
<1>3. PendingInv'
  BY DEF PendingInv
<1>4. RaisedInv'
  BY DEF RaisedInv
<1>5. ProgressInv'
  BY DEF ProgressInv, TypeOK
<1>6. RowsInv'
  BY DEF RowsInv
<1>7. FinalInv'
  BY DEF FinalInv
<1>8. InstancesReleased'
  BY DEF InstancesReleased, CallInv, TypeOK
<1>9. (NoExceptionLost /\ OwnException)'
  BY DEF NoExceptionLost, OwnException
<1>10. GroupsAreWhole'
  BY DEF GroupsAreWhole
<1> QED
  BY <1>1, <1>2, <1>3, <1>4, <1>5, <1>6, <1>7, <1>8, <1>9, <1>10

(* The library halts at once.                                              *)
LEMMA FunctionRaisesKeeps ==
    ASSUME ErrorsInv, FunctionRaises
    PROVE  ErrorsInv'
<1> USE CallbackAssumption
        DEF ErrorsInv, instanceVars, FunctionRaises, ResultError, Escapes,
            CallEnds
<1>0. InProgress \subseteq Callback /\ Aggregate \subseteq Callback
  BY DEF InProgress, Callback
<1>1. TypeOK'
  BY <1>0 DEF TypeOK, Engine, Code, Method, CallInv
<1>2. CallInv'
  BY DEF CallInv
<1>3. PendingInv'
  BY DEF PendingInv
<1>4. RaisedInv'
  BY DEF RaisedInv
<1>5. ProgressInv'
  BY DEF ProgressInv, CallInv, InProgress
<1>6. RowsInv'
  BY DEF RowsInv
<1>7. FinalInv'
  BY DEF FinalInv
<1>8. InstancesReleased'
  BY DEF InstancesReleased, CallInv
<1>9. (NoExceptionLost /\ OwnException)'
  BY DEF NoExceptionLost, OwnException
<1>10. GroupsAreWhole'
  BY DEF GroupsAreWhole
<1> QED
  BY <1>1, <1>2, <1>3, <1>4, <1>5, <1>6, <1>7, <1>8, <1>9, <1>10

(* A jump leaves the library; the step never ends.                         *)
LEMMA FinalizeReturnsUnsupportedKeeps ==
    ASSUME ErrorsInv, FinalizeReturnsUnsupported
    PROVE  ErrorsInv'
<1> USE DEF ErrorsInv, instanceVars, FinalizeReturnsUnsupported, CallEnds
<1>1. TypeOK'
  BY DEF TypeOK, Engine, Method
<1>2. CallInv'
  BY DEF CallInv
<1>3. PendingInv'
  BY DEF PendingInv
<1>4. RaisedInv'
  BY DEF RaisedInv
<1>5. ProgressInv'
  BY DEF ProgressInv
<1>6. RowsInv'
  BY DEF RowsInv
<1>7. FinalInv'
  BY DEF FinalInv
<1>8. InstancesReleased'
  BY DEF InstancesReleased, CallInv
<1>9. (NoExceptionLost /\ OwnException)'
  BY DEF NoExceptionLost, OwnException
<1>10. GroupsAreWhole'
  BY DEF GroupsAreWhole
<1> QED
  BY <1>1, <1>2, <1>3, <1>4, <1>5, <1>6, <1>7, <1>8, <1>9, <1>10

(* A pending exception is raised, whatever the answer of the library.      *)
LEMMA StepEndsKeeps ==
    ASSUME ErrorsInv, StepEnds
    PROVE  ErrorsInv'
<1> USE CallbackAssumption DEF ErrorsInv, callVars, StepEnds
<1>1. TypeOK'
  BY DEF TypeOK, Engine
<1>2. CallInv'
  BY DEF CallInv
<1>3. PendingInv'
  BY DEF PendingInv
<1>4. RaisedInv'
  BY DEF RaisedInv
<1>5. ProgressInv'
  BY DEF ProgressInv
<1>6. RowsInv'
  BY DEF RowsInv
<1>7. FinalInv'
  BY DEF FinalInv
<1>8. InstancesReleased'
  BY DEF InstancesReleased, ProgressInv, InProgress
<1>9. (NoExceptionLost /\ OwnException)'
  <2>1. raised # {} => engine = "halt"
    BY DEF RaisedInv, ProgressInv, InProgress
  <2>2. raised # {} /\ errinfo = Nil =>
           outcome' \in {"Ruby Exception occurred", "interrupted"}
    BY <2>1, Answers DEF ProgressInv
  <2>3. outcome' \in Plain \/ (outcome' = errinfo /\ errinfo \in raised)
    BY Answers DEF PendingInv, TypeOK, Code, Plain
  <2>4. errinfo # Nil => outcome' \notin Plain
    BY DEF TypeOK
  <2> QED
    BY <2>2, <2>3, <2>4 DEF NoExceptionLost, OwnException, Plain, Row
<1>10. GroupsAreWhole'
  <2> SUFFICES ASSUME outcome' = Row, NEW a \in Aggregate
               PROVE  seen[a] = group
    BY DEF GroupsAreWhole
  <2>1. errinfo = Nil
    BY DEF TypeOK, Plain, Row
  <2>2. code = "ROW"
    BY <2>1, Answers DEF TypeOK, Code, Row
  <2>3. engine = "final"
    BY <2>2 DEF ProgressInv
  <2>4. slot[a] = "Qnil"
    BY <2>2 DEF FinalInv, ProgressInv, InProgress, TypeOK
  <2> QED
    BY <2>2, <2>3, <2>4 DEF FinalInv
<1> QED
  BY <1>1, <1>2, <1>3, <1>4, <1>5, <1>6, <1>7, <1>8, <1>9, <1>10

-----------------------------------------------------------------------------
(* Every step keeps the invariant.                                         *)
LEMMA StepInv == ErrorsInv /\ [Next]_vars => ErrorsInv'
<1> SUFFICES ASSUME ErrorsInv, [Next]_vars
             PROVE  ErrorsInv'
  OBVIOUS
<1>1. CASE UNCHANGED vars
  BY <1>1
     DEF vars, engineVars, instanceVars, callVars, ErrorsInv, TypeOK,
         CallInv, PendingInv, RaisedInv, ProgressInv, InProgress, RowsInv,
         FinalInv, InstancesReleased, NoExceptionLost, OwnException,
         GroupsAreWhole
<1>2. CASE Library
  BY <1>2, StepBeginsKeeps, NextRowKeeps, EndOfGroupKeeps, EndOfRowsKeeps,
     InterruptedKeeps, CallFunctionKeeps, NewInstanceKeeps, SkipStepKeeps,
     CallStepKeeps, CallFinalizeKeeps, FinalErrorKeeps DEF Library
<1>3. CASE RubyCode
  BY <1>3, ClearsKeeps, NewReturnsKeeps, StepReturnsKeeps,
     FinalizeReturnsKeeps, FunctionReturnsKeeps, NewRaisesKeeps,
     StepRaisesKeeps, FinalizeRaisesKeeps, FunctionRaisesKeeps,
     FinalizeReturnsUnsupportedKeeps DEF RubyCode
<1>4. CASE StepEnds
  BY <1>4, StepEndsKeeps
<1> QED
  BY <1>1, <1>2, <1>3, <1>4 DEF Next

(* The inductive invariant, for any aggregates and any number of rows.     *)
THEOREM ErrorsInvariance == Spec => []ErrorsInv
<1> QED
  BY InitInv, StepInv, PTL DEF Spec

(* A step in which an exception escaped from a callback returns neither a  *)
(* row nor nil, although errinfo may have been cleared meanwhile.          *)
THEOREM NoExceptionLost_Holds == Spec => []NoExceptionLost
<1>1. ErrorsInv => NoExceptionLost
  BY DEF ErrorsInv
<1> QED
  BY <1>1, ErrorsInvariance, PTL

(* The exception that Statement#step raises is one of its own callbacks',  *)
(* and none is left for the next step.                                     *)
THEOREM OwnException_Holds == Spec => []OwnException
<1>1. ErrorsInv => OwnException
  BY DEF ErrorsInv
<1> QED
  BY <1>1, ErrorsInvariance, PTL

(* The list of instances has exactly the groups in progress, whatever the  *)
(* callbacks raised.                                                       *)
THEOREM InstancesReleased_Holds == Spec => []InstancesReleased
<1>1. ErrorsInv => InstancesReleased
  BY DEF ErrorsInv
<1> QED
  BY <1>1, ErrorsInvariance, PTL

(* In a row that step returns every aggregate is that of the whole group.  *)
THEOREM GroupsAreWhole_Holds == Spec => []GroupsAreWhole
<1>1. ErrorsInv => GroupsAreWhole
  BY DEF ErrorsInv
<1> QED
  BY <1>1, ErrorsInvariance, PTL

(* No callback that runs after an exception escaped clears errinfo, by     *)
(* rescuing an exception of its own or by stepping another statement.      *)
PendingIsKept == [][errinfo # Nil /\ running # Nil => errinfo' # Nil]_vars

(* The exception itself gets to the caller of step, not the message that   *)
(* was meant for the library and not another statement.                    *)
ExceptionItself ==
    /\ engine = "idle" /\ raised # {} => outcome \in raised
    /\ MessageNeverSeen
    /\ InnerRaisesNothing

(* Until step ends, whatever escaped in it is pending; and an error of the *)
(* library, or of an instance, has come from a callback of this step.      *)
PendingNow ==
    /\ engine \in {"rows", "final", "halt"} /\ raised # {} => errinfo # Nil
    /\ engine = "halt" /\ code = "ERROR" => raised # {}
    /\ \A a \in Aggregate : exc[a] => raised # {} /\ engine # "idle"

(* What the comments of Statement#step and of the two files of callbacks   *)
(* say of exceptions is so as long as nobody clears errinfo; NoException-  *)
(* Lost is what is left of it where somebody does.                         *)
THEOREM ExceptionItselfIfKept == Spec /\ PendingIsKept => []ExceptionItself
<1> DEFINE Keeps == errinfo # Nil /\ running # Nil => errinfo' # Nil
           Strong == PendingNow /\ ExceptionItself
<1>1. Init => Strong
  BY DEF Init, PendingNow, ExceptionItself, MessageNeverSeen, InnerRaisesNothing,
         Row
<1>2. ErrorsInv /\ Strong /\ [Next]_vars /\ [Keeps]_vars => Strong'
  <2> SUFFICES ASSUME ErrorsInv, Strong, Next, Keeps
               PROVE  Strong'
    BY DEF PendingNow, ExceptionItself, MessageNeverSeen, InnerRaisesNothing,
           vars, engineVars, instanceVars, callVars
  <2> USE CallbackAssumption
      DEF PendingNow, ExceptionItself, MessageNeverSeen, InnerRaisesNothing,
          engineVars, instanceVars, callVars
  <2>1. CASE Library
    <3>1. CASE StepBegins
      BY <3>1 DEF StepBegins
    <3>2. CASE NextRow \/ EndOfGroup \/ EndOfRows \/ Interrupted \/ CallFunction
      BY <3>2 DEF NextRow, EndOfGroup, EndOfRows, Interrupted, CallFunction
    <3>3. ASSUME NEW a \in Aggregate,
                 \/ NewInstance(a) \/ SkipStep(a) \/ CallStep(a)
                 \/ CallFinalize(a)
          PROVE  Strong'
      BY <3>3 DEF NewInstance, SkipStep, CallStep, CallFinalize
    <3>4. ASSUME NEW a \in Aggregate, FinalError(a)
          PROVE  Strong'
      BY <3>4 DEF FinalError, ResultError, Destroy
    <3> QED
      BY <2>1, <3>1, <3>2, <3>3, <3>4 DEF Library
  <2>2. CASE RescueInside \/ InnerStep
    BY <2>2 DEF RescueInside, InnerStep
  <2>3. CASE NewReturns \/ StepReturns \/ FinalizeReturns \/ FunctionReturns
    BY <2>3 DEF NewReturns, StepReturns, FinalizeReturns, FunctionReturns,
                InstanceMade, FreshHandler, Destroy, CallEnds, ErrorsInv, TypeOK
  <2>4. CASE NewRaises \/ StepRaises \/ FinalizeRaises \/ FunctionRaises
    <3>1. errinfo' = running /\ raised' = raised \cup {running}
      BY <2>4 DEF NewRaises, StepRaises, FinalizeRaises, FunctionRaises, Escapes
    <3>2. running # Nil /\ engine \notin {"idle", "lost"}
      BY <2>4 DEF NewRaises, StepRaises, FinalizeRaises, FunctionRaises,
                  ErrorsInv, CallInv
    <3>3. engine' # "idle" /\ outcome' = outcome /\ inner' = inner
      BY <2>4, <3>2 DEF NewRaises, StepRaises, FinalizeRaises, FunctionRaises,
                        ResultError
    <3> QED
      BY <3>1, <3>2, <3>3
  <2>5. CASE FinalizeReturnsUnsupported
    BY <2>5 DEF FinalizeReturnsUnsupported
  <2>6. CASE StepEnds
    <3>1. raised # {} => errinfo # Nil
      BY <2>6 DEF StepEnds
    <3>2. errinfo # Nil => errinfo \in raised /\ errinfo \in Callback
      BY DEF ErrorsInv, PendingInv, TypeOK
    <3>3. errinfo = Nil => code # "ERROR"
      BY <2>6, <3>1 DEF StepEnds, ErrorsInv, ProgressInv
    <3>4. errinfo = Nil => outcome' # "Ruby Exception occurred"
      <4>1. code \in {"ROW", "DONE", "ERROR", "INTERRUPT"}
        BY DEF ErrorsInv, TypeOK, Code
      <4>2. errinfo = Nil => outcome' = Answer[code]
        BY <2>6 DEF StepEnds
      <4> QED
        BY ONLY <3>3, <4>1, <4>2, Answers
    <3> QED
      BY <2>6, <3>1, <3>2, <3>4 DEF StepEnds, Plain
  <2> QED
    BY <2>1, <2>2, <2>3, <2>4, <2>5, <2>6 DEF Next, RubyCode
<1>3. Strong => ExceptionItself
  OBVIOUS
<1> QED
  BY <1>1, <1>2, <1>3, ErrorsInvariance, PTL DEF Spec, PendingIsKept

-----------------------------------------------------------------------------
(* The way of a value (Values).                                            *)

(* The integers that pass functions, and those that are exact by now.      *)
Passing == IF longWidth < Width THEN Int64 ELSE Fixnum

Exact == IF calls = 0 THEN Int64 ELSE Passing

WayInv ==
    /\ longWidth \in LongWidths
    /\ given \in RubyValue
    /\ calls \in Nat
    /\ bound \in BOOLEAN
    /\ cell = NoCell /\ got = Pending => calls = 0 /\ ~bound
    /\ cell # NoCell /\ ~bound => calls > 0

(* An integer is stored as itself, or as a double for good.                *)
IntegerInv ==
    cell # NoCell /\ given.is = "int" =>
        cell = IF given.n \in Exact THEN INTEGER(given.n)
               ELSE REAL(Double(given.n))

(* A text is stored in UTF-8.                                              *)
TextInv ==
    cell # NoCell /\ given.is = "string" /\ given.enc # "binary"
          /\ Readable(given) =>
        cell = TEXT(Bytes(given.bytes.chars, "utf8"))

(* Bytes are stored as they are, also those of any text from a function.   *)
BlobInv ==
    /\ cell # NoCell /\ (given.is = "blob" \/ given.enc = "binary") =>
          cell = BLOB(given.bytes)
    /\ cell # NoCell /\ ~bound /\ given.is = "string" /\ given.enc # "binary" =>
          cell = TEXT(given.bytes)

(* What is read is read from the cell.                                     *)
GotInv ==
    got \notin {Pending, Raised} =>
        cell # NoCell /\ got = Exported(RubyOf(cell), internal)

ValuesInv ==
    /\ WayInv
    /\ IntegerInv
    /\ TextInv
    /\ BlobInv
    /\ GotInv

-----------------------------------------------------------------------------
(* Two's complement.                                                       *)

(* The widths are such that the ranges are what they are meant to be.      *)
LEMMA Powers ==
    /\ Width \in Nat \ {0}
    /\ 2^(Width - 1) \in Nat \ {0}
    /\ 2^Width \in Nat \ {0}
    /\ 2^Width = 2 * 2^(Width - 1)
  BY ValuesAssumption, PowersOfTwo

(* What the low bits of a natural number are, if it has no others,         *)
LEMMA RemainderOfNatural ==
    ASSUME NEW m \in Nat \ {0}, NEW n \in 0 .. m - 1
    PROVE  n % m = n
  OBVIOUS

(* and those of a negative number, once 2^Width is added.                  *)
LEMMA RemainderOfNegative ==
    ASSUME NEW m \in Nat \ {0}, NEW n \in -m .. -1
    PROVE  n % m = n + m
  OBVIOUS

(* bignum_to_int64 answers rightly for every integer, and the bits that    *)
(* it stores are then those of the integer.                                *)
LEMMA BignumFitsInt64 ==
    ASSUME NEW n \in Int
    PROVE  /\ BignumFits(n) <=> n \in Int64
           /\ n \in Int64 => IntegerPack(n).result = n
<1> DEFINE m == 2^Width
           h == 2^(Width - 1)
           low == n % m
<1>1. m \in Nat \ {0} /\ h \in Nat \ {0} /\ m = 2 * h
  BY Powers
<1>2. /\ IntegerPack(n).sign = IF n >= m THEN 2 ELSE IF n > 0 THEN 1
                  ELSE IF n = 0 THEN 0 ELSE IF n >= -m THEN -1 ELSE -2
      /\ IntegerPack(n).result = IF low >= h THEN low - m ELSE low
  BY DEF IntegerPack
<1>3. Int64 = -h .. h - 1
  BY DEF Int64
<1>4. n \in 0 .. m - 1 => low = n
  BY <1>1, RemainderOfNatural
<1>5. n \in -m .. -1 => low = n + m
  BY <1>1, RemainderOfNegative
<1>6. BignumFits(n) <=>
        /\ IntegerPack(n).sign \notin {-2, 2}
        /\ IntegerPack(n).sign = 1 => IntegerPack(n).result >= 0
        /\ IntegerPack(n).sign = -1 => IntegerPack(n).result < 0
  BY DEF BignumFits
<1> HIDE DEF m, h, low
<1> QED
  BY <1>1, <1>2, <1>3, <1>4, <1>5, <1>6

(* A fixnum is an int64 on every platform.                                 *)
LEMMA FixnumIsInt64 ==
    ASSUME longWidth \in LongWidths
    PROVE  Fixnum \subseteq Int64
<1>1. longWidth \in Nat /\ longWidth - 2 \in 0 .. Width
  BY ValuesAssumption
<1>2. 2^(longWidth - 2) \in Nat /\ 2^(longWidth - 2) <= 2^(Width - 1)
  BY <1>1, PowersOfTwo
<1> QED
  BY <1>2, Powers DEF Fixnum, Int64

(* How bind_param stores an integer.                                       *)
LEMMA IntegerCellOf ==
    ASSUME longWidth \in LongWidths, NEW n \in Int
    PROVE  IntegerCell(n) = IF n \in Int64 THEN INTEGER(n) ELSE REAL(Double(n))
  BY BignumFitsInt64, FixnumIsInt64 DEF IntegerCell

-----------------------------------------------------------------------------
(* The conversions, case by case.                                          *)

(* What the kinds of Ruby values are told apart by.                        *)
LEMMA Fields ==
    /\ \A n : Whole(n).is = "int" /\ Whole(n).n = n /\ Whole(n).enc = "none"
    /\ \A n : Float(n).is = "float" /\ Float(n).n = n /\ Float(n).enc = "none"
    /\ \A enc, b : Str(enc, b).is = "string" /\ Str(enc, b).enc = enc
                   /\ Str(enc, b).bytes = b
    /\ \A b : Blob(b).is = "blob" /\ Blob(b).enc = "any" /\ Blob(b).bytes = b
    /\ NilValue.is = "nil" /\ NilValue.enc = "none"
    /\ Object.is = "object" /\ Object.enc = "none"
    /\ Pending.is = "pending" /\ Raised.is = "raised"
  BY DEF Whole, Float, Str, Blob, NilValue, Object, Pending, Raised, Value

(* What the types of SQLite values are told apart by.                      *)
LEMMA CellFields ==
    /\ \A n : INTEGER(n).type = "INTEGER" /\ INTEGER(n).n = n
    /\ \A n : REAL(n).type = "REAL" /\ REAL(n).n = n
    /\ \A b : TEXT(b).type = "TEXT" /\ TEXT(b).bytes = b
    /\ \A b : BLOB(b).type = "BLOB" /\ BLOB(b).bytes = b
    /\ NULL.type = "NULL"
    /\ NoCell.type = "none"
  BY DEF INTEGER, REAL, TEXT, BLOB, NULL, NoCell, Cell

(* Reading a cell, case by case.                                           *)
LEMMA RubyOfCells ==
    /\ \A n : RubyOf(INTEGER(n)) = Whole(n)
    /\ \A n : RubyOf(REAL(n)) = Float(n)
    /\ \A b : RubyOf(TEXT(b)) = Str("utf8", b)
    /\ \A b : RubyOf(BLOB(b)) = Str("binary", b)
<1>1. ASSUME NEW n PROVE RubyOf(INTEGER(n)) = Whole(n)
  BY CellFields, Zenon DEF RubyOf
<1>2. ASSUME NEW n PROVE RubyOf(REAL(n)) = Float(n)
  <2>1. REAL(n).type = "REAL" /\ "REAL" # "INTEGER" /\ REAL(n).n = n
    BY CellFields
  <2> QED
    BY <2>1, Zenon DEF RubyOf
<1>3. ASSUME NEW b PROVE RubyOf(TEXT(b)) = Str("utf8", b)
  <2>1. TEXT(b).type = "TEXT" /\ TEXT(b).bytes = b
    BY CellFields
  <2> QED
    BY <2>1, Zenon DEF RubyOf
<1>4. ASSUME NEW b PROVE RubyOf(BLOB(b)) = Str("binary", b)
  <2>1. BLOB(b).type = "BLOB" /\ BLOB(b).bytes = b
    BY CellFields
  <2> QED
    BY <2>1, Zenon DEF RubyOf
<1> QED
  BY <1>1, <1>2, <1>3, <1>4

(* Binding a string or a Blob, case by case.                               *)
LEMMA StringCellOf ==
    ASSUME NEW v
    PROVE  /\ v.is = "blob" \/ v.enc = "binary" =>
                StringCell(v) = BLOB(v.bytes)
           /\ v.is = "string" /\ v.enc \in {"utf16le", "utf16be"} =>
                StringCell(v) = Text16(v.bytes)
           /\ v.is = "string"
                /\ v.enc \notin {"binary", "utf16le", "utf16be"} =>
                StringCell(v) = TEXT(Bytes(v.bytes.chars, "utf8"))
<1>1. ASSUME v.is = "blob" \/ v.enc = "binary"
      PROVE  StringCell(v) = BLOB(v.bytes)
  BY <1>1, Zenon DEF StringCell
<1>2. ASSUME v.is = "string", v.enc \in {"utf16le", "utf16be"}
      PROVE  StringCell(v) = Text16(v.bytes)
  <2>1. ~(v.is = "blob" \/ v.enc = "binary")
    BY <1>2
  <2> QED
    BY <1>2, <2>1, Zenon DEF StringCell
<1>3. ASSUME v.is = "string", v.enc \notin {"binary", "utf16le", "utf16be"}
      PROVE  StringCell(v) = TEXT(Bytes(v.bytes.chars, "utf8"))
  <2>1. ~(v.is = "blob" \/ v.enc = "binary")
    BY <1>3
  <2> QED
    BY <1>3, <2>1, Zenon DEF StringCell
<1> QED
  BY <1>1, <1>2, <1>3

(* Binding an integer, a string or a Blob.                                 *)
LEMMA BindConversionOf ==
    ASSUME NEW v
    PROVE  /\ v.is = "int" => BindConversion(v) = IntegerCell(v.n)
           /\ v.is \in {"string", "blob"} => BindConversion(v) = StringCell(v)
<1>1. ASSUME v.is = "int" PROVE BindConversion(v) = IntegerCell(v.n)
  BY <1>1, Zenon DEF BindConversion
<1>2. ASSUME v.is \in {"string", "blob"}
      PROVE  BindConversion(v) = StringCell(v)
  <2>1. v.is # "int" /\ v.is # "float" /\ v.is # "nil"
    BY <1>2
  <2> QED
    BY <2>1, Zenon DEF BindConversion
<1> QED
  BY <1>1, <1>2

(* The result of a function, case by case.                                 *)
LEMMA ResultConversionOf ==
    ASSUME NEW v
    PROVE  /\ v.is = "int" =>
                ResultConversion(v) = IF v.n \in Fixnum \/ longWidth < Width
                                      THEN IntegerCell(v.n)
                                      ELSE REAL(Double(v.n))
           /\ v.is = "float" => ResultConversion(v) = REAL(v.n)
           /\ v.is \in {"string", "blob"} =>
                ResultConversion(v) =
                    IF v.is = "blob" \/ v.enc = "binary" THEN BLOB(v.bytes)
                    ELSE TEXT(v.bytes)
<1>1. ASSUME v.is = "int"
      PROVE  ResultConversion(v) = IF v.n \in Fixnum \/ longWidth < Width
                                   THEN IntegerCell(v.n)
                                   ELSE REAL(Double(v.n))
  BY <1>1, Zenon DEF ResultConversion
<1>2. ASSUME v.is = "float" PROVE ResultConversion(v) = REAL(v.n)
  <2>1. v.is # "int"
    BY <1>2
  <2> QED
    BY <1>2, <2>1, Zenon DEF ResultConversion
<1>3. ASSUME v.is \in {"string", "blob"}
      PROVE  ResultConversion(v) =
                 IF v.is = "blob" \/ v.enc = "binary" THEN BLOB(v.bytes)
                 ELSE TEXT(v.bytes)
  <2>1. v.is # "int" /\ v.is # "float" /\ v.is # "nil"
    BY <1>3
  <2> QED
    BY <2>1, Zenon DEF ResultConversion
<1> QED
  BY <1>1, <1>2, <1>3

(* How the result of a function is stored if it is an integer.             *)
LEMMA ResultOfInteger ==
    ASSUME longWidth \in LongWidths, NEW n \in Int
    PROVE  ResultConversion(Whole(n)) =
               IF n \in Passing THEN INTEGER(n) ELSE REAL(Double(n))
<1>1. ResultConversion(Whole(n)) = IF n \in Fixnum \/ longWidth < Width
                                   THEN IntegerCell(n) ELSE REAL(Double(n))
  BY Fields, ResultConversionOf
<1> QED
  BY <1>1, IntegerCellOf, FixnumIsInt64 DEF Passing

(* The Ruby values that a program may give.                                *)
LEMMA GivenValues ==
    ASSUME NEW v \in RubyValue
    PROVE  /\ v.is = "int" => v.n \in Int /\ v = Whole(v.n)
           /\ v.enc = "binary" => v.is = "string"
           /\ v.is = "string" /\ v.enc # "binary" =>
                v.bytes = Bytes(v.bytes.chars, v.enc)
                /\ v.bytes.chars \in Chars
           /\ v.is \in {"string", "blob"} => v # Object
<1>1. \A c, e : Bytes(c, e).chars = c
  BY DEF Bytes
<1>2. Integer \subseteq Int
  BY Powers DEF Integer
<1>3. CASE \E n \in Integer : v = Whole(n)
  BY <1>2, <1>3, Fields
<1>4. CASE \E n \in Integer : v = Float(Double(n))
  BY <1>4, Fields
<1>5. CASE \E e \in Coding, c \in Chars : v = Str(e, Bytes(c, e))
  BY <1>1, <1>5, Fields DEF Coding
<1>6. CASE v = Str("usascii", Bytes("ascii", "usascii"))
  BY <1>1, <1>6, Fields DEF Chars
<1>7. CASE \E e \in Coding, c \in Chars : v = Str("binary", Bytes(c, e))
  BY <1>7, Fields
<1>8. CASE \E e \in Coding, c \in Chars : v = Blob(Bytes(c, e))
  BY <1>8, Fields
<1>9. CASE v \in {NilValue, Object}
  BY <1>9, Fields
<1> QED
  BY <1>3, <1>4, <1>5, <1>6, <1>7, <1>8, <1>9 DEF RubyValue, Strings

(* A string that is bound is some value of SQLite,                         *)
LEMMA StringCellIsCell ==
    ASSUME NEW v
    PROVE  StringCell(v) # NoCell
<1>1. StringCell(v) \in {BLOB(v.bytes), Text16(v.bytes),
                         TEXT(Bytes(v.bytes.chars, "utf8"))}
  BY Zenon DEF StringCell
<1> QED
  BY <1>1, CellFields DEF Text16

(* and so is an integer,                                                   *)
LEMMA IntegerCellIsCell ==
    ASSUME NEW n
    PROVE  IntegerCell(n) # NoCell
  BY CellFields DEF IntegerCell

(* and whatever else is converted.                                         *)
LEMMA ConversionsAreCells ==
    ASSUME NEW v
    PROVE  BindConversion(v) # NoCell /\ ResultConversion(v) # NoCell
<1>1. BindConversion(v) \in
        {IntegerCell(v.n), REAL(v.n), NULL, StringCell(v)}
  BY Zenon DEF BindConversion
<1>2. ResultConversion(v) \in
        {IntegerCell(v.n), REAL(Double(v.n)), REAL(v.n), NULL, BLOB(v.bytes),
         TEXT(v.bytes)}
  <2>1. CASE v.is = "int"
    BY <2>1, ResultConversionOf
  <2>2. CASE v.is # "int"
    BY <2>2, Zenon DEF ResultConversion
  <2> QED
    BY <2>1, <2>2
<1> QED
  BY <1>1, <1>2, StringCellIsCell, IntegerCellIsCell, CellFields

-----------------------------------------------------------------------------
(* The value given is bound to a parameter.                                *)
LEMMA BindParamKeeps ==
    ASSUME ValuesInv, BindParam
    PROVE  ValuesInv'
<1> USE DEF ValuesInv
<1>1. CASE given = Object
  BY <1>1, Fields
     DEF BindParam, WayInv, IntegerInv, TextInv, BlobInv, GotInv
<1>2. CASE given # Object
  <2>1. /\ cell' = BindConversion(given) /\ cell' # NoCell
        /\ got' = Pending /\ calls' = 0 /\ bound' /\ bound' \in BOOLEAN
        /\ UNCHANGED <<longWidth, given>>
        /\ longWidth \in LongWidths /\ given \in RubyValue
    BY <1>2, ConversionsAreCells DEF BindParam, WayInv
  <2>2. WayInv'
    BY <2>1, Fields DEF WayInv
  <2>3. IntegerInv'
    BY <2>1, GivenValues, BindConversionOf, IntegerCellOf
       DEF IntegerInv, Exact, Int64
  <2>4. TextInv'
    <3> SUFFICES ASSUME given.is = "string", given.enc # "binary",
                        given.enc \in {"utf16le", "utf16be"} =>
                            given.enc = Native
                 PROVE  BindConversion(given) =
                            TEXT(Bytes(given.bytes.chars, "utf8"))
      BY <2>1 DEF TextInv, Readable
    <3>1. given.bytes = Bytes(given.bytes.chars, given.enc)
      BY <2>1, GivenValues
    <3>2. CASE given.enc \in {"utf16le", "utf16be"}
      <4>1. BindConversion(given) = Text16(given.bytes)
        BY <3>2, BindConversionOf, StringCellOf
      <4>2. given.bytes.coding = Native
        BY <3>1, <3>2 DEF Bytes
      <4> QED
        BY <4>1, <4>2 DEF Text16, Bytes
    <3>3. CASE given.enc \notin {"utf16le", "utf16be"}
      BY <3>3, BindConversionOf, StringCellOf
    <3> QED
      BY <3>2, <3>3
  <2>5. BlobInv'
    BY <2>1, GivenValues, BindConversionOf, StringCellOf DEF BlobInv
  <2>6. GotInv'
    BY <2>1 DEF GotInv
  <2> QED
    BY <2>2, <2>3, <2>4, <2>5, <2>6
<1> QED
  BY <1>1, <1>2

(* The value given is the result of a function.                            *)
LEMMA ReturnValueKeeps ==
    ASSUME ValuesInv, ReturnValue
    PROVE  ValuesInv'
<1> USE DEF ValuesInv
<1>1. CASE given = Object
  BY <1>1, Fields
     DEF ReturnValue, WayInv, IntegerInv, TextInv, BlobInv, GotInv
<1>2. CASE given # Object
  <2>1. /\ cell' = ResultConversion(given) /\ cell' # NoCell
        /\ got' = Pending /\ calls' = 1 /\ ~bound' /\ bound' \in BOOLEAN
        /\ UNCHANGED <<longWidth, given>>
        /\ longWidth \in LongWidths /\ given \in RubyValue
    BY <1>2, ConversionsAreCells DEF ReturnValue, WayInv
  <2>2. WayInv'
    BY <2>1, Fields DEF WayInv
  <2>3. IntegerInv'
    <3> SUFFICES ASSUME given.is = "int"
                 PROVE  cell' = IF given.n \in Exact' THEN INTEGER(given.n)
                                ELSE REAL(Double(given.n))
      BY <2>1 DEF IntegerInv
    <3>1. given.n \in Int /\ given = Whole(given.n)
      BY <2>1, GivenValues
    <3>2. Exact' = Passing
      BY <2>1 DEF Exact, Passing, Int64, Fixnum
    <3> QED
      BY <2>1, <3>1, <3>2, ResultOfInteger
  <2>4. TextInv'
    <3> SUFFICES ASSUME given.is = "string", given.enc # "binary",
                        given.bytes.coding = "utf8"
                 PROVE  ResultConversion(given) =
                            TEXT(Bytes(given.bytes.chars, "utf8"))
      BY <2>1 DEF TextInv, Readable
    <3>1. PICK c, k : given.bytes = [chars |-> c, coding |-> k]
      BY <2>1, GivenValues DEF Bytes
    <3>2. given.bytes = Bytes(given.bytes.chars, "utf8")
      BY <3>1 DEF Bytes
    <3> QED
      BY <3>2, ResultConversionOf
  <2>5. BlobInv'
    BY <2>1, GivenValues, ResultConversionOf DEF BlobInv
  <2>6. GotInv'
    BY <2>1 DEF GotInv
  <2> QED
    BY <2>2, <2>3, <2>4, <2>5, <2>6
<1> QED
  BY <1>1, <1>2

(* A function is given what is in the cell, and returns it.                *)
LEMMA ApplyFunctionKeeps ==
    ASSUME ValuesInv, ApplyFunction
    PROVE  ValuesInv'
<1> USE DEF ValuesInv
<1>1. /\ cell # NoCell
      /\ cell' = ResultConversion(RubyOf(cell)) /\ cell' # NoCell
      /\ got' = Pending /\ calls' \in Nat /\ calls' # 0
      /\ UNCHANGED <<longWidth, given, bound>>
      /\ longWidth \in LongWidths /\ given \in RubyValue
  BY ConversionsAreCells DEF ApplyFunction, WayInv
<1>2. WayInv'
  BY <1>1, Fields DEF WayInv, ApplyFunction
<1>3. IntegerInv'
  <2> SUFFICES ASSUME given.is = "int"
               PROVE  cell' = IF given.n \in Exact' THEN INTEGER(given.n)
                              ELSE REAL(Double(given.n))
    BY <1>1 DEF IntegerInv
  <2>1. given.n \in Int
    BY <1>1, GivenValues
  <2>2. Exact' = Passing /\ Passing \subseteq Int64
    BY <1>1, FixnumIsInt64 DEF Exact, Passing, Int64, Fixnum
  <2>3. CASE given.n \in Exact
    <3>1. cell' = ResultConversion(Whole(given.n))
      BY <1>1, <2>3, RubyOfCells DEF IntegerInv
    <3> QED
      BY <1>1, <2>1, <2>2, <3>1, ResultOfInteger
  <2>4. CASE given.n \notin Exact
    <3>1. cell' = REAL(Double(given.n))
      BY <1>1, <2>4, RubyOfCells, Fields, ResultConversionOf DEF IntegerInv
    <3>2. given.n \notin Passing
      BY <2>2, <2>4 DEF Exact
    <3> QED
      BY <2>2, <3>1, <3>2
  <2> QED
    BY <2>3, <2>4
<1>4. TextInv'
  <2> SUFFICES ASSUME given.is = "string", given.enc # "binary",
                      Readable(given)
               PROVE  cell' = TEXT(Bytes(given.bytes.chars, "utf8"))
    BY <1>1 DEF TextInv, Readable
  <2>1. cell = TEXT(Bytes(given.bytes.chars, "utf8"))
    BY <1>1 DEF TextInv
  <2> QED
    BY <1>1, <2>1, RubyOfCells, Fields, ResultConversionOf
<1>5. BlobInv'
  BY <1>1, RubyOfCells, Fields, ResultConversionOf DEF BlobInv
<1>6. GotInv'
  BY <1>1 DEF GotInv
<1> QED
  BY <1>2, <1>3, <1>4, <1>5, <1>6

(* The cell is read.                                                       *)
LEMMA StepKeeps ==
    ASSUME ValuesInv, Step
    PROVE  ValuesInv'
<1> USE DEF ValuesInv, Step
<1>1. WayInv'
  BY DEF WayInv
<1>2. IntegerInv' /\ TextInv' /\ BlobInv'
  BY DEF IntegerInv, Exact, Passing, Int64, Fixnum, TextInv, Readable, BlobInv
<1>3. GotInv'
  BY DEF GotInv
<1> QED
  BY <1>1, <1>2, <1>3

(* Before anything is stored there is nothing to be wrong.                 *)
LEMMA ValuesInitInv == ValuesInit => ValuesInv
<1> SUFFICES ASSUME ValuesInit PROVE ValuesInv
  OBVIOUS
<1>1. WayInv
  BY DEF ValuesInit, WayInv
<1>2. IntegerInv /\ TextInv /\ BlobInv /\ GotInv
  BY DEF ValuesInit, IntegerInv, TextInv, BlobInv, GotInv
<1> QED
  BY <1>1, <1>2 DEF ValuesInv

(* Every conversion keeps the invariant.                                   *)
LEMMA ValuesStepInv == ValuesInv /\ [ValuesNext]_valuesVars => ValuesInv'
<1> SUFFICES ASSUME ValuesInv, [ValuesNext]_valuesVars
             PROVE  ValuesInv'
  OBVIOUS
<1>1. CASE UNCHANGED valuesVars
  BY <1>1
     DEF valuesVars, ValuesInv, WayInv, IntegerInv, Exact, Passing, Int64,
         Fixnum, TextInv, Readable, BlobInv, GotInv
<1>2. CASE ValuesNext
  BY <1>2, BindParamKeeps, ReturnValueKeeps, ApplyFunctionKeeps, StepKeeps
     DEF ValuesNext
<1> QED
  BY <1>1, <1>2

(* The inductive invariant, for integers of any width, on any platform.    *)
THEOREM ValuesInvariance == ValuesSpec => []ValuesInv
<1> QED
  BY ValuesInitInv, ValuesStepInv, PTL DEF ValuesSpec

(* Only a string in UTF-8 is exported.                                     *)
LEMMA ExportedOf ==
    /\ \A n : Exported(Whole(n), internal) = Whole(n)
    /\ \A n : Exported(Float(n), internal) = Float(n)
    /\ \A b : Exported(Str("binary", b), internal) = Str("binary", b)
  BY Fields DEF Exported

(* An int64 that is bound comes back, and any other integer as the nearest *)
(* double.                                                                 *)
THEOREM IntegersComeBack_Holds == ValuesSpec => []IntegersComeBack
<1>1. ValuesInv => IntegersComeBack
  <2> SUFFICES ASSUME ValuesInv, Read, calls = 0, given.is = "int"
               PROVE  got = IF given.n \in Int64 THEN given
                            ELSE Float(Double(given.n))
    BY DEF IntegersComeBack
  <2>1. given = Whole(given.n)
    BY GivenValues DEF ValuesInv, WayInv
  <2>2. cell = IF given.n \in Int64 THEN INTEGER(given.n)
               ELSE REAL(Double(given.n))
    BY DEF ValuesInv, IntegerInv, GotInv, Read, Exact
  <2>3. got = Exported(RubyOf(cell), internal)
    BY DEF ValuesInv, GotInv, Read
  <2> QED
    BY <2>1, <2>2, <2>3, RubyOfCells, ExportedOf
<1> QED
  BY <1>1, ValuesInvariance, PTL

(* The result of a function keeps an int64 where a C long is shorter, and  *)
(* a fixnum where it is not.                                               *)
THEOREM IntegersPassFunctions_Holds == ValuesSpec => []IntegersPassFunctions
<1>1. ValuesInv => IntegersPassFunctions
  <2> SUFFICES ASSUME ValuesInv, Read, calls > 0, given.is = "int"
               PROVE  got = IF given.n \in Passing THEN given
                            ELSE Float(Double(given.n))
    BY DEF IntegersPassFunctions, Passing
  <2>1. given = Whole(given.n) /\ calls # 0
    BY GivenValues DEF ValuesInv, WayInv
  <2>2. cell = IF given.n \in Passing THEN INTEGER(given.n)
               ELSE REAL(Double(given.n))
    BY <2>1 DEF ValuesInv, IntegerInv, GotInv, Read, Exact
  <2>3. got = Exported(RubyOf(cell), internal)
    BY DEF ValuesInv, GotInv, Read
  <2> QED
    BY <2>1, <2>2, <2>3, RubyOfCells, ExportedOf
<1> QED
  BY <1>1, ValuesInvariance, PTL

(* A text comes back with its characters, in the encoding asked for.       *)
THEOREM TextComesBack_Holds == ValuesSpec => []TextComesBack
<1>1. ValuesInv => TextComesBack
  <2> SUFFICES ASSUME ValuesInv, Read, given.is = "string",
                      given.enc # "binary", Readable(given)
               PROVE  /\ Shown(got) = given.bytes.chars
                      /\ got.enc = IF internal = "none" THEN "utf8"
                                   ELSE internal
    BY DEF TextComesBack
  <2> DEFINE c == given.bytes.chars
             v == Str("utf8", Bytes(c, "utf8"))
  <2>1. got = Exported(v, internal)
    <3>1. cell = TEXT(Bytes(c, "utf8"))
      BY DEF ValuesInv, TextInv, GotInv, Read
    <3>2. got = Exported(RubyOf(cell), internal)
      BY DEF ValuesInv, GotInv, Read
    <3> QED
      BY <3>1, <3>2, RubyOfCells
  <2>2. ASSUME NEW enc PROVE Shown(Str(enc, Bytes(c, enc))) = c
    <3>1. Bytes(c, enc).chars = c
      BY DEF Bytes
    <3> QED
      BY <3>1, Fields DEF Shown
  <2>3. c # "garbled"
    <3>1. c \in {"ascii", "wide"}
      BY GivenValues DEF ValuesInv, WayInv, Chars
    <3> QED
      BY <3>1
  <2>4. got = IF internal = "none" THEN v
              ELSE Str(internal, Bytes(c, internal))
    <3>1. v.is = "string" /\ v.enc = "utf8" /\ v.bytes.chars = c
          /\ Shown(v) # "garbled"
      BY <2>2, <2>3, Fields DEF Bytes
    <3> QED
      BY <2>1, <3>1 DEF Exported
  <2> QED
    BY <2>2, <2>4, Fields
<1> QED
  BY <1>1, ValuesInvariance, PTL

(* A Blob or binary string comes back as a binary string, byte for byte;   *)
(* a text in another encoding, from a function, with its bytes.            *)
THEOREM BytesComeBack_Holds == ValuesSpec => []BytesComeBack
<1>1. ASSUME ValuesInv, Read, given.is = "blob" \/ given.enc = "binary"
      PROVE  got = Str("binary", given.bytes)
  <2>1. cell = BLOB(given.bytes) /\ got = Exported(RubyOf(cell), internal)
    BY <1>1 DEF ValuesInv, BlobInv, GotInv, Read
  <2> QED
    BY <2>1, RubyOfCells, ExportedOf
<1>2. ASSUME ValuesInv, Read, ~bound, given.is = "string", given.enc # "binary",
             given.bytes.coding # "utf8" \/ internal = "none"
      PROVE  got = Str("utf8", given.bytes)
  <2> DEFINE v == Str("utf8", given.bytes)
  <2>1. cell = TEXT(given.bytes) /\ got = Exported(RubyOf(cell), internal)
    BY <1>2 DEF ValuesInv, BlobInv, GotInv, Read
  <2>2. got = Exported(v, internal)
    BY <2>1, RubyOfCells
  <2>3. CASE internal = "none"
    BY <2>2, <2>3 DEF Exported
  <2>4. CASE given.bytes.coding # "utf8"
    <3>1. v.enc = "utf8" /\ v.bytes = given.bytes
      BY Fields
    <3>2. Bytes(given.bytes.chars, "utf8").coding = "utf8"
      BY DEF Bytes
    <3>3. Shown(v) = "garbled"
      BY <2>4, <3>1, <3>2, Zenon DEF Shown
    <3>4. Exported(v, internal) = v
      BY <3>3, Zenon DEF Exported
    <3> QED
      BY <2>2, <3>4
  <2> QED
    BY <1>2, <2>3, <2>4
<1>3. ValuesInv => BytesComeBack
  BY <1>1, <1>2 DEF BytesComeBack
<1> QED
  BY <1>3, ValuesInvariance, PTL

(* The round trip that the test expects, where a C long is shorter than an *)
(* int64.                                                                  *)
THEOREM RoundTripOfShortLong ==
    ValuesSpec => [](longWidth < Width => RoundTrip)
<1>1. ValuesInv /\ IntegersComeBack /\ IntegersPassFunctions
        => (longWidth < Width => RoundTrip)
  <2> SUFFICES ASSUME ValuesInv, IntegersComeBack, IntegersPassFunctions,
                      longWidth < Width
               PROVE  RoundTrip
    OBVIOUS
  <2>1. calls = 0 \/ calls > 0
    BY DEF ValuesInv, WayInv
  <2> QED
    BY <2>1 DEF RoundTrip, IntegersComeBack, IntegersPassFunctions
<1> QED
  BY <1>1, ValuesInvariance, IntegersComeBack_Holds,
     IntegersPassFunctions_Holds, PTL
=============================================================================
