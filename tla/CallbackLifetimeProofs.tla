----------------------- MODULE CallbackLifetimeProofs -----------------------
(* Machine-checked proofs about CallbackLifetime, for any sets of blocks,  *)
(* wrappers, instances, names and spellings.                               *)
EXTENDS CallbackLifetime, TLAPS

(* Every function of the library is listed by the struct, or is the one    *)
(* that the definition in progress has on its stack.                       *)
FunctionInv ==
    \A n \in Name :
        function[n] # Nil =>
            \/ function[n] \in functions \cup aggregators
            \/ /\ call.is \in {"function", "aggregator"}
               /\ call.object = function[n]

(* Every collation of the library is in the hash, under a spelling of its  *)
(* own name: only then does a definition of another name not overwrite it. *)
CollationInv ==
    /\ call.is = "collation" =>
          call.name \in Spelling /\ call.object \in Block \cup {Nil}
              /\ collation[Fold[call.name]] = call.object
    /\ \A n \in Name :
          collation[n] # Nil =>
              \/ \E s \in Spelling :
                    Fold[s] = n /\ collations[s] = collation[n]
              \/ call.is = "collation" /\ Fold[call.name] = n

(* An instance is listed by a wrapper that the struct lists.               *)
InstanceInv ==
    /\ \A i \in context : \E w \in aggregators : i \in instances[w]
    /\ \A w \in Wrapper \ aggregators : instances[w] = {}

CallInv ==
    /\ call.is = "none" => call.object = Nil
    /\ call.is = "function" => call.object \in Block
    /\ call.is = "aggregator" => call.object \in Wrapper

(* What is pinned or referred to has not been collected, and nothing that  *)
(* somebody held has moved.                                                *)
HeapInv ==
    /\ ref \subseteq heap
    /\ NonNil(Pinned) \subseteq heap
    /\ sound = Object

LifetimeInv ==
    /\ TypeOK
    /\ CallInv
    /\ FunctionInv
    /\ CollationInv
    /\ InstanceInv
    /\ HeapInv

-----------------------------------------------------------------------------
(* The struct and the stack pin every object whose address C code holds:   *)
(* the mark function forgets none.                                         *)
LEMMA HeldArePinned ==
    ASSUME TypeOK, FunctionInv, CollationInv, InstanceInv
    PROVE  Held \subseteq NonNil(Pinned)
<1> SUFFICES ASSUME NEW o \in Held
             PROVE  o \in Pinned /\ o # Nil
  BY DEF NonNil
<1>1. CASE \E n \in Name : o = function[n] /\ o # Nil
  BY <1>1 DEF FunctionInv, Pinned
<1>2. CASE \E n \in Name : o = collation[n] /\ o # Nil
  <2> PICK n \in Name : o = collation[n] /\ o # Nil
    BY <1>2
  <2>1. CASE \E s \in Spelling : Fold[s] = n /\ collations[s] = collation[n]
    BY <2>1 DEF Pinned, NonNil
  <2>2. CASE call.is = "collation" /\ Fold[call.name] = n
    BY <2>2 DEF CollationInv, Pinned
  <2> QED
    BY <2>1, <2>2 DEF CollationInv
<1>3. CASE o \in context
  <2>1. o # Nil
    BY <1>3, LifetimeAssumption DEF TypeOK, Object
  <2> QED
    BY <1>3, <2>1 DEF InstanceInv, Pinned
<1>4. CASE \E k \in Handler : o = handler[k] /\ o # Nil
  BY <1>4 DEF Pinned, NonNil
<1> QED
  BY <1>1, <1>2, <1>3, <1>4 DEF Held, NonNil

(* A new Database holds nothing.                                           *)
LEMMA InitInv == Init => LifetimeInv
<1> SUFFICES ASSUME Init PROVE LifetimeInv
  OBVIOUS
<1> USE DEF Init, NoCall, Object
<1>1. TypeOK
  BY DEF TypeOK
<1>2. CallInv /\ FunctionInv /\ CollationInv /\ InstanceInv
  BY DEF CallInv, FunctionInv, CollationInv, InstanceInv
<1>3. HeapInv
  BY DEF HeapInv, NonNil, Pinned
<1> QED
  BY <1>1, <1>2, <1>3 DEF LifetimeInv

-----------------------------------------------------------------------------
(* The steps, one lemma for each.  HeapInv rests on what is pinned being   *)
(* either as before or an object that the step has found or put on the heap.*)

(* The collector takes nothing that is pinned, so nothing that is held.    *)
LEMMA CollectKeeps ==
    ASSUME LifetimeInv, NEW o \in Object,
           Collect(o)
    PROVE  LifetimeInv'
<1> USE DEF LifetimeInv, libraryVars, rubyVars, Collect
<1>1. TypeOK'
  BY DEF TypeOK
<1>2. CallInv'
  BY DEF CallInv
<1>3. FunctionInv'
  BY DEF FunctionInv
<1>4. CollationInv'
  BY DEF CollationInv
<1>5. InstanceInv'
  BY DEF InstanceInv
<1>6. HeapInv'
  <2>1. o \notin Held
    BY HeldArePinned DEF NonNil
  <2>2. Pinned' = Pinned
    BY DEF Pinned
  <2> QED
    BY <2>1, <2>2 DEF HeapInv, NonNil
<1> QED
  BY <1>1, <1>2, <1>3, <1>4, <1>5, <1>6

(* Compaction moves nothing that is pinned.                                *)
LEMMA MoveKeeps ==
    ASSUME LifetimeInv, NEW o \in Object,
           Move(o)
    PROVE  LifetimeInv'
<1> USE DEF LifetimeInv, libraryVars, rubyVars, Move
<1>1. TypeOK'
  BY DEF TypeOK
<1>2. CallInv'
  BY DEF CallInv
<1>3. FunctionInv'
  BY DEF FunctionInv
<1>4. CollationInv'
  BY DEF CollationInv
<1>5. InstanceInv'
  BY DEF InstanceInv
<1>6. HeapInv'
  <2>1. o \notin Held
    BY HeldArePinned DEF NonNil
  <2>2. Pinned' = Pinned
    BY DEF Pinned
  <2> QED
    BY <2>1, <2>2 DEF HeapInv
<1> QED
  BY <1>1, <1>2, <1>3, <1>4, <1>5, <1>6

(* The application drops a reference.                                      *)
LEMMA ForgetKeeps ==
    ASSUME LifetimeInv, NEW o \in Object,
           Forget(o)
    PROVE  LifetimeInv'
<1> USE DEF LifetimeInv, libraryVars, rubyVars, Forget
<1>1. TypeOK'
  BY DEF TypeOK
<1>2. CallInv'
  BY DEF CallInv
<1>3. FunctionInv'
  BY DEF FunctionInv
<1>4. CollationInv'
  BY DEF CollationInv
<1>5. InstanceInv'
  BY DEF InstanceInv
<1>6. HeapInv'
  BY DEF HeapInv, NonNil, Pinned
<1> QED
  BY <1>1, <1>2, <1>3, <1>4, <1>5, <1>6

(* The library has the block, and the stack pins it.                       *)
LEMMA DefineFunctionKeeps ==
    ASSUME LifetimeInv, NEW n \in Name, NEW b \in Block,
           DefineFunction(n, b)
    PROVE  LifetimeInv'
<1> USE DEF LifetimeInv, rubyVars, DefineFunction, NoCall
<1>1. TypeOK'
  BY DEF TypeOK, Object
<1>2. CallInv'
  BY DEF CallInv
<1>3. FunctionInv'
  BY DEF FunctionInv
<1>4. CollationInv'
  BY DEF CollationInv
<1>5. InstanceInv'
  BY DEF InstanceInv
<1>6. HeapInv'
  BY DEF HeapInv, NonNil, Pinned
<1> QED
  BY <1>1, <1>2, <1>3, <1>4, <1>5, <1>6

(* The list takes over from the stack.                                     *)
LEMMA KeepFunctionKeeps ==
    ASSUME LifetimeInv, KeepFunction
    PROVE  LifetimeInv'
<1> USE DEF LifetimeInv, libraryVars, KeepFunction, NoCall
<1>1. TypeOK'
  BY DEF TypeOK, CallInv
<1>2. CallInv'
  BY DEF CallInv
<1>3. FunctionInv'
  BY DEF FunctionInv
<1>4. CollationInv'
  BY DEF CollationInv
<1>5. InstanceInv'
  BY DEF InstanceInv
<1>6. HeapInv'
  BY DEF HeapInv, NonNil, Pinned
<1> QED
  BY <1>1, <1>2, <1>3, <1>4, <1>5, <1>6

(* The same for the wrapper of an aggregate.                               *)
LEMMA DefineAggregatorKeeps ==
    ASSUME LifetimeInv, NEW n \in Name, NEW w \in Wrapper,
           DefineAggregator(n, w)
    PROVE  LifetimeInv'
<1> USE DEF LifetimeInv, rubyVars, DefineAggregator, NoCall
<1>1. TypeOK'
  BY DEF TypeOK
<1>2. CallInv'
  BY DEF CallInv
<1>3. FunctionInv'
  BY DEF FunctionInv
<1>4. CollationInv'
  BY DEF CollationInv
<1>5. InstanceInv'
  BY DEF InstanceInv
<1>6. HeapInv'
  BY DEF HeapInv, NonNil, Pinned
<1> QED
  BY <1>1, <1>2, <1>3, <1>4, <1>5, <1>6

(* A wrapper that the library refused is held by nobody.                   *)
LEMMA DefineAggregatorFailsKeeps ==
    ASSUME LifetimeInv, NEW n \in Name, NEW w \in Wrapper,
           DefineAggregatorFails(n, w)
    PROVE  LifetimeInv'
<1> USE DEF LifetimeInv, libraryVars, rubyVars, DefineAggregatorFails
<1>1. TypeOK'
  BY DEF TypeOK, Object
<1>2. CallInv'
  BY DEF CallInv
<1>3. FunctionInv'
  BY DEF FunctionInv
<1>4. CollationInv'
  BY DEF CollationInv
<1>5. InstanceInv'
  BY DEF InstanceInv
<1>6. HeapInv'
  BY DEF HeapInv, NonNil, Pinned
<1> QED
  BY <1>1, <1>2, <1>3, <1>4, <1>5, <1>6

(* The wrapper is listed; it has no instances before.                      *)
LEMMA KeepAggregatorKeeps ==
    ASSUME LifetimeInv, KeepAggregator
    PROVE  LifetimeInv'
<1> USE DEF LifetimeInv, libraryVars, KeepAggregator, NoCall
<1>1. TypeOK'
  BY DEF TypeOK, CallInv
<1>2. CallInv'
  BY DEF CallInv
<1>3. FunctionInv'
  BY DEF FunctionInv
<1>4. CollationInv'
  BY DEF CollationInv
<1>5. InstanceInv'
  BY DEF InstanceInv
<1>6. HeapInv'
  BY DEF HeapInv, InstanceInv, CallInv, NonNil, Pinned
<1> QED
  BY <1>1, <1>2, <1>3, <1>4, <1>5, <1>6

(* The library has the comparator, and the stack pins it.                  *)
LEMMA CollationKeeps ==
    ASSUME LifetimeInv, NEW s \in Spelling, NEW b \in Block \cup {Nil},
           Collation(s, b)
    PROVE  LifetimeInv'
<1> USE LifetimeAssumption DEF LifetimeInv, rubyVars, Collation, NoCall
<1>1. TypeOK'
  BY DEF TypeOK, Object
<1>2. CallInv'
  BY DEF CallInv
<1>3. FunctionInv'
  BY DEF FunctionInv
<1>4. CollationInv'
  BY DEF CollationInv, TypeOK
<1>5. InstanceInv'
  BY DEF InstanceInv
<1>6. HeapInv'
  BY DEF HeapInv, NonNil, Pinned
<1> QED
  BY <1>1, <1>2, <1>3, <1>4, <1>5, <1>6

(* The entry of a spelling gives way only to a comparator of that name.    *)
LEMMA KeepCollationKeeps ==
    ASSUME LifetimeInv, KeepCollation
    PROVE  LifetimeInv'
<1> USE DEF LifetimeInv, libraryVars, KeepCollation, NoCall
<1>1. TypeOK'
  BY DEF TypeOK, CollationInv
<1>2. CallInv'
  BY DEF CallInv
<1>3. FunctionInv'
  BY DEF FunctionInv
<1>4. CollationInv'
  BY DEF CollationInv, TypeOK
<1>5. InstanceInv'
  BY DEF InstanceInv
<1>6. HeapInv'
  BY DEF HeapInv, NonNil, Pinned
<1> QED
  BY <1>1, <1>2, <1>3, <1>4, <1>5, <1>6

(* The struct pins the handlers that it holds.                             *)
LEMMA SetHandlerKeeps ==
    ASSUME LifetimeInv, NEW k \in Handler, NEW b \in Block \cup {Nil},
           SetHandler(k, b)
    PROVE  LifetimeInv'
<1> USE DEF LifetimeInv, libraryVars, rubyVars, SetHandler
<1>1. TypeOK'
  BY DEF TypeOK
<1>2. CallInv'
  BY DEF CallInv
<1>3. FunctionInv'
  BY DEF FunctionInv
<1>4. CollationInv'
  BY DEF CollationInv
<1>5. InstanceInv'
  BY DEF InstanceInv
<1>6. HeapInv'
  BY DEF HeapInv, NonNil, Pinned
<1> QED
  BY <1>1, <1>2, <1>3, <1>4, <1>5, <1>6

(* Statements begin or end.                                                *)
LEMMA ExecuteKeeps ==
    ASSUME LifetimeInv, Execute
    PROVE  LifetimeInv'
<1> USE DEF LifetimeInv, rubyVars, Execute
<1>1. TypeOK'
  BY DEF TypeOK
<1>2. CallInv'
  BY DEF CallInv
<1>3. FunctionInv'
  BY DEF FunctionInv
<1>4. CollationInv'
  BY DEF CollationInv
<1>5. InstanceInv'
  BY DEF InstanceInv
<1>6. HeapInv'
  BY DEF HeapInv, NonNil, Pinned
<1> QED
  BY <1>1, <1>2, <1>3, <1>4, <1>5, <1>6

(* An instance is made for a wrapper that the struct lists already.        *)
LEMMA NewInstanceKeeps ==
    ASSUME LifetimeInv, NEW w \in Wrapper, NEW i \in Instance,
           NewInstance(w, i)
    PROVE  LifetimeInv'
<1> USE LifetimeAssumption DEF LifetimeInv, NewInstance, NoCall
<1>1. TypeOK'
  BY DEF TypeOK
<1>2. CallInv'
  BY DEF CallInv
<1>3. FunctionInv'
  BY DEF FunctionInv
<1>4. CollationInv'
  BY DEF CollationInv
<1>5. InstanceInv'
  <2>1. w \in aggregators
    <3>1. PICK n \in Name : function[n] = w
      OBVIOUS
    <3>2. w # Nil /\ w \notin functions /\ call.is = "none"
      BY DEF TypeOK, Object
    <3> QED
      BY <3>2 DEF FunctionInv
  <2> QED
    BY <2>1 DEF InstanceInv, TypeOK
<1>6. HeapInv'
  BY DEF HeapInv, NonNil, Pinned
<1> QED
  BY <1>1, <1>2, <1>3, <1>4, <1>5, <1>6

(* Only the instance of the context that ends is released.                 *)
LEMMA DestroyInstanceKeeps ==
    ASSUME LifetimeInv, NEW w \in Wrapper, NEW i \in Instance,
           DestroyInstance(w, i)
    PROVE  LifetimeInv'
<1> USE DEF LifetimeInv, DestroyInstance
<1>1. TypeOK'
  BY DEF TypeOK
<1>2. CallInv'
  BY DEF CallInv
<1>3. FunctionInv'
  BY DEF FunctionInv
<1>4. CollationInv'
  BY DEF CollationInv
<1>5. InstanceInv'
  BY DEF InstanceInv
<1>6. HeapInv'
  BY DEF HeapInv, NonNil, Pinned
<1> QED
  BY <1>1, <1>2, <1>3, <1>4, <1>5, <1>6

-----------------------------------------------------------------------------
(* Every step of the application, of a definition or of the collector.     *)
LEMMA StepInv == LifetimeInv /\ [Next]_vars => LifetimeInv'
<1> SUFFICES ASSUME LifetimeInv, [Next]_vars
             PROVE  LifetimeInv'
  OBVIOUS
<1>1. CASE \E o \in Object : Collect(o) \/ Move(o) \/ Forget(o)
  BY <1>1, CollectKeeps, MoveKeeps, ForgetKeeps
<1>2. CASE \E n \in Name :
              \/ \E b \in Block : DefineFunction(n, b)
              \/ \E w \in Wrapper :
                    DefineAggregator(n, w) \/ DefineAggregatorFails(n, w)
  BY <1>2, DefineFunctionKeeps, DefineAggregatorKeeps,
     DefineAggregatorFailsKeeps
<1>3. CASE \E s \in Spelling, b \in Block \cup {Nil} : Collation(s, b)
  BY <1>3, CollationKeeps
<1>4. CASE KeepFunction \/ KeepAggregator \/ KeepCollation
  BY <1>4, KeepFunctionKeeps, KeepAggregatorKeeps, KeepCollationKeeps
<1>5. CASE \E b \in Block \cup {Nil} :
             Trace(b) \/ BusyHandler(b) \/ SetAuthorizer(b)
  BY <1>5, SetHandlerKeeps DEF Trace, BusyHandler, SetAuthorizer, Handler
<1>6. CASE Execute
  BY <1>6, ExecuteKeeps
<1>7. CASE \E w \in Wrapper, i \in Instance :
              NewInstance(w, i) \/ DestroyInstance(w, i)
  BY <1>7, NewInstanceKeeps, DestroyInstanceKeeps
<1>8. CASE UNCHANGED vars
  BY <1>8
     DEF vars, libraryVars, rubyVars, LifetimeInv, TypeOK, CallInv,
         FunctionInv, CollationInv, InstanceInv, HeapInv, Pinned, NonNil
<1>9. CASE \E s \in Spelling, b \in Block \cup {Nil} : CollationFails(s, b)
  BY <1>8, <1>9 DEF CollationFails
<1> QED
  BY <1>1, <1>2, <1>3, <1>4, <1>5, <1>6, <1>7, <1>8, <1>9 DEF Next

(* Whatever the application defines, redefines, removes and forgets, and   *)
(* whenever the collector runs, everything held is pinned and alive.       *)
THEOREM LifetimeInvariance == Spec => []LifetimeInv
<1> QED
  BY InitInv, StepInv, PTL DEF Spec

(* No object whose address the library or the struct holds is collected or *)
(* moved: database_mark pins enough, at every moment of a definition.      *)
THEOREM HeldAreSound_Holds == Spec => []HeldAreSound
<1>1. LifetimeInv => HeldAreSound
  <2> SUFFICES ASSUME LifetimeInv PROVE HeldAreSound
    OBVIOUS
  <2>1. Held \subseteq heap
    BY HeldArePinned DEF LifetimeInv, HeapInv
  <2> QED
    BY <2>1 DEF HeldAreSound
<1> QED
  BY <1>1, LifetimeInvariance, PTL

(* The block of a function is kept for as long as the Database lives, also *)
(* when the function is defined anew (the array ctx->functions).           *)
THEOREM BlocksAreKept_Holds == Spec => BlocksAreKept
<1> DEFINE Kept == functions \subseteq functions' /\ functions' \subseteq heap'
<1>1. LifetimeInv' => functions' \subseteq heap'
  BY LifetimeAssumption
     DEF LifetimeInv, HeapInv, Pinned, NonNil, TypeOK, Object
<1>2. [Next]_vars => functions \subseteq functions'
  BY DEF Next, vars, rubyVars, Collect, Move, Forget, DefineFunction,
         DefineAggregator, DefineAggregatorFails, Collation, CollationFails,
         KeepFunction, KeepAggregator, KeepCollation, Trace, BusyHandler,
         SetAuthorizer, SetHandler, Execute, NewInstance, DestroyInstance
<1>3. LifetimeInv /\ LifetimeInv' /\ [Next]_vars => [Kept]_vars
  BY <1>1, <1>2
<1> QED
  BY <1>3, LifetimeInvariance, PTL DEF Spec, BlocksAreKept
=============================================================================
