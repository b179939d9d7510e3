--------------------------- MODULE CallbackLifetime --------------------------
(***************************************************************************)
(* The Ruby objects whose addresses the library holds, and the garbage     *)
(* collector.                                                              *)
(*                                                                         *)
(* A function, an aggregate or a collation is registered with the address  *)
(* of a Ruby object as user data; a context of an aggregate keeps the      *)
(* address of its instance; and the struct of the Database holds the       *)
(* handlers that its C callbacks call.  The collector sees none of this:   *)
(* it frees what is not marked, and moves what is not pinned.  The mark    *)
(* function of the Database (database_mark) pins what the Ruby side lists. *)
(*                                                                         *)
(* A definition takes two steps, the registration and the entry in the     *)
(* list; the collector may run in between, when only the machine stack     *)
(* refers to the object.                                                   *)
(***************************************************************************)
EXTENDS FiniteSets

CONSTANTS
    Block,      \* callables of the application
    Wrapper,    \* AggregatorWrapper objects
    Instance,   \* AggregatorInstance objects
    Name,       \* names of functions and of collations, as SQLite folds them
    Spelling,   \* spellings of the names of collations
    Fold,       \* Fold[s]: the name of spelling s
    Nil

Handler == {"trace", "busy", "authorizer"}

Object == Block \cup Wrapper \cup Instance

ASSUME LifetimeAssumption ==
    /\ Fold \in [Spelling -> Name]
    /\ Nil \notin Object
    /\ Block \cap Wrapper = {}

VARIABLES
    heap,        \* objects that have been allocated and not yet collected
    ref,         \* objects the application refers to
    sound,       \* objects that neither died nor moved while somebody held
                 \* their address
    call,        \* the definition in progress: what it has registered
    running,     \* statements are being executed
    function,    \* function[n]: user data of the function or aggregate n
    collation,   \* collation[n]: user data of the collation n
    context,     \* instances whose address an aggregate context keeps
    functions,   \* contents of the array ctx->functions
    collations,  \* collations[s]: contents of the hash ctx->collations
    aggregators, \* contents of the array ctx->aggregators
    instances,   \* instances[w]: contents of the array "-instances" of w
    handler      \* handler[k]: ctx->busy_handler and the like

libraryVars == <<running, function, collation, context>>
rubyVars == <<functions, collations, aggregators, instances>>
vars == <<heap, ref, sound, call, libraryVars, rubyVars, handler>>

NoCall == [is |-> "none", object |-> Nil, name |-> Nil]

Init ==
    /\ heap = Block
    /\ ref = Block
    /\ sound = Object
    /\ call = NoCall
    /\ running = FALSE
    /\ function = [n \in Name |-> Nil]
    /\ collation = [n \in Name |-> Nil]
    /\ context = {}
    /\ functions = {}
    /\ collations = [s \in Spelling |-> Nil]
    /\ aggregators = {}
    /\ instances = [w \in Wrapper |-> {}]
    /\ handler = [k \in Handler |-> Nil]

-----------------------------------------------------------------------------
(* The collector.                                                          *)

NonNil(S) == S \ {Nil}

(* Addresses that C code will use: the library's, and the struct's.        *)
Held ==
    NonNil({function[n] : n \in Name} \cup {collation[n] : n \in Name})
        \cup context \cup NonNil({handler[k] : k \in Handler})

(* database_mark, and the machine stack during a definition.               *)
Pinned ==
    functions \cup NonNil({collations[s] : s \in Spelling}) \cup aggregators
        \cup (UNION {instances[w] : w \in aggregators})
        \cup NonNil({handler[k] : k \in Handler}) \cup {call.object}

(* The Database itself is alive.                                           *)
Collect(o) ==
    /\ o \in heap /\ o \notin ref \cup Pinned
    /\ heap' = heap \ {o}
    /\ sound' = IF o \in Held THEN sound \ {o} ELSE sound
    /\ UNCHANGED <<ref, call, libraryVars, rubyVars, handler>>

(* GC.compact moves what is alive and not pinned.                          *)
Move(o) ==
    /\ o \in heap \cap ref /\ o \notin Pinned
    /\ sound' = IF o \in Held THEN sound \ {o} ELSE sound
    /\ UNCHANGED <<heap, ref, call, libraryVars, rubyVars, handler>>

Forget(o) ==
    /\ o \in ref
    /\ ref' = ref \ {o}
    /\ UNCHANGED <<heap, sound, call, libraryVars, rubyVars, handler>>

-----------------------------------------------------------------------------
(* Definitions.                                                            *)

(* The library refuses to replace a function or a collation while          *)
(* statements run; the method raises.                                      *)
Replaceable(old) == old = Nil \/ ~running

(* define_function_with_flags registers the block, then lists it.          *)
DefineFunction(n, b) ==
    /\ call = NoCall /\ b \in ref
    /\ Replaceable(function[n])
    /\ function' = [function EXCEPT ![n] = b]
    /\ call' = [is |-> "function", object |-> b, name |-> n]
    /\ UNCHANGED <<heap, ref, sound, running, collation, context, rubyVars,
                   handler>>

(* A definition called No... is a mutant of the one that follows it; only  *)
(* the mutant runs of PROJECT.json use it.                                 *)
NoPush ==
    /\ call.is = "function"
    /\ functions' = {call.object}
    /\ call' = NoCall
    /\ UNCHANGED <<heap, ref, sound, libraryVars, collations, aggregators,
                   instances, handler>>

KeepFunction ==
    /\ call.is = "function"
    /\ functions' = functions \cup {call.object}
    /\ call' = NoCall
    /\ UNCHANGED <<heap, ref, sound, libraryVars, collations, aggregators,
                   instances, handler>>

(* rb_sqlite3_define_aggregator2 makes a wrapper, registers and lists it.  *)
DefineAggregator(n, w) ==
    /\ call = NoCall /\ w \notin heap \cup aggregators /\ w \in sound
    /\ Replaceable(function[n])
    /\ heap' = heap \cup {w}
    /\ function' = [function EXCEPT ![n] = w]
    /\ call' = [is |-> "aggregator", object |-> w, name |-> n]
    /\ UNCHANGED <<ref, sound, running, collation, context, rubyVars,
                   handler>>

(* The library refuses: the wrapper is garbage.                            *)
DefineAggregatorFails(n, w) ==
    /\ call = NoCall /\ w \notin heap \cup aggregators
    /\ ~Replaceable(function[n])
    /\ heap' = heap \cup {w}
    /\ UNCHANGED <<ref, sound, call, libraryVars, rubyVars, handler>>

KeepAggregator ==
    /\ call.is = "aggregator"
    /\ aggregators' = aggregators \cup {call.object}
    /\ call' = NoCall
    /\ UNCHANGED <<heap, ref, sound, libraryVars, functions, collations,
                   instances, handler>>

(* collation: nil removes it; a comparator takes the place of the former   *)
(* one whatever the spelling.                                              *)
Collation(s, b) ==
    /\ call = NoCall /\ b \in ref \cup {Nil}
    /\ Replaceable(collation[Fold[s]])
    /\ collation' = [collation EXCEPT ![Fold[s]] = b]
    /\ call' = [is |-> "collation", object |-> b, name |-> s]
    /\ UNCHANGED <<heap, ref, sound, running, function, context, rubyVars,
                   handler>>

NoCreateFirst(s, b) ==
    /\ call = NoCall /\ b \in ref \cup {Nil}
    /\ ~Replaceable(collation[Fold[s]])
    /\ collations' = [collations EXCEPT ![s] = b]
    /\ UNCHANGED <<heap, ref, sound, call, libraryVars, functions, aggregators,
                   instances, handler>>

(* It raises before it touches the hash.                                   *)
CollationFails(s, b) ==
    /\ call = NoCall /\ b \in ref \cup {Nil}
    /\ ~Replaceable(collation[Fold[s]])
    /\ UNCHANGED vars

KeepCollation ==
    /\ call.is = "collation"
    /\ collations' = [collations EXCEPT ![call.name] = call.object]
    /\ call' = NoCall
    /\ UNCHANGED <<heap, ref, sound, libraryVars, functions, aggregators,
                   instances, handler>>

(* The struct holds the handler, the library the address of the struct; nil*)
(* removes both.  The library refuses none of them.                        *)
SetHandler(k, b) ==
    /\ call = NoCall /\ b \in ref \cup {Nil}
    /\ handler' = [handler EXCEPT ![k] = b]
    /\ UNCHANGED <<heap, ref, sound, call, libraryVars, rubyVars>>

Trace(b) == SetHandler("trace", b)

BusyHandler(b) == SetHandler("busy", b)

SetAuthorizer(b) == SetHandler("authorizer", b)

-----------------------------------------------------------------------------
(* Statements.                                                             *)

(* The first statement begins to run; the last one ends.                   *)
Execute ==
    /\ call = NoCall
    /\ context = {}
    /\ running' = ~running
    /\ UNCHANGED <<heap, ref, sound, call, function, collation, context,
                   rubyVars, handler>>

(* rb_sqlite3_aggregate_instance.                                          *)
NewInstance(w, i) ==
    /\ running /\ call = NoCall
    /\ \E n \in Name : function[n] = w
    /\ i \notin heap /\ i \in sound
    /\ heap' = heap \cup {i}
    /\ context' = context \cup {i}
    /\ instances' = [instances EXCEPT ![w] = @ \cup {i}]
    /\ UNCHANGED <<ref, sound, call, running, function, collation, functions,
                   collations, aggregators, handler>>

(* rb_sqlite3_aggregate_instance_destroy.                                  *)
DestroyInstance(w, i) ==
    /\ call = NoCall
    /\ i \in instances[w] /\ i \in context
    /\ context' = context \ {i}
    /\ instances' = [instances EXCEPT ![w] = @ \ {i}]
    /\ UNCHANGED <<heap, ref, sound, call, running, function, collation,
                   functions, collations, aggregators, handler>>

Next ==
    \/ \E o \in Object : Collect(o) \/ Move(o) \/ Forget(o)
    \/ \E n \in Name :
          \/ \E b \in Block : DefineFunction(n, b)
          \/ \E w \in Wrapper : DefineAggregator(n, w) \/ DefineAggregatorFails(n, w)
    \/ \E s \in Spelling, b \in Block \cup {Nil} :
          Collation(s, b) \/ CollationFails(s, b)
    \/ KeepFunction \/ KeepAggregator \/ KeepCollation
    \/ \E b \in Block \cup {Nil} : Trace(b) \/ BusyHandler(b) \/ SetAuthorizer(b)
    \/ Execute
    \/ \E w \in Wrapper, i \in Instance : NewInstance(w, i) \/ DestroyInstance(w, i)

Spec == Init /\ [][Next]_vars

-----------------------------------------------------------------------------
TypeOK ==
    /\ heap \subseteq Object /\ ref \subseteq Block /\ sound \subseteq Object
    /\ call.is \in {"none", "function", "aggregator", "collation"}
    /\ call.object \in Object \cup {Nil}
    /\ call.name \in Name \cup Spelling \cup {Nil}
    /\ running \in BOOLEAN
    /\ function \in [Name -> Block \cup Wrapper \cup {Nil}]
    /\ collation \in [Name -> Block \cup {Nil}]
    /\ context \subseteq Instance
    /\ functions \subseteq Block /\ aggregators \subseteq Wrapper
    /\ collations \in [Spelling -> Block \cup {Nil}]
    /\ instances \in [Wrapper -> SUBSET Instance]
    /\ handler \in [Handler -> Block \cup {Nil}]

(* The comment of database_mark: "sqlite holds raw pointers to these, so   *)
(* they must not move".  No object whose address C code holds has been     *)
(* collected or moved, also in the middle of a definition, after a         *)
(* definition that failed, or when a collation has two spellings.          *)
HeldAreSound == Held \subseteq sound \cap heap

(* create_function: "a reference to the block will be kept for the         *)
(* lifetime of the database object", also when the name is defined anew.   *)
BlocksAreKept == [][functions \subseteq functions' /\ functions' \subseteq heap']_vars
=============================================================================
