------------------------ MODULE MCThreadedConnection ------------------------
(* Instances of ThreadedConnection for TLC.                                *)
EXTENDS ThreadedConnection

CONSTANTS t1, t2, c1, c2

(* All threads share one connection, as the README's example does.         *)
OneForAll == [t \in Thread |-> c1]

(* Every thread has a connection of its own.                               *)
OneForEach == [t \in Thread |-> IF t = t1 THEN c1 ELSE c2]

(* Threads apart, with callbacks that may do anything, and threads apart   *)
(* or on one connection, with callbacks that stay within their call.       *)
SoundSetups ==
    [conn : {OneForEach}, yielding : {Callback}, raising : {Callback},
     busy : {"handler"}]
        \cup [conn : {OneForEach, OneForAll},
              yielding : {{}}, raising : {{"function"}},
              busy : {"handler", "timeout"}]

(* Two threads share a connection whose busy handler sleeps.               *)
SleepingHandler ==
    {[conn |-> OneForAll, yielding |-> {"busy"}, raising |-> {},
      busy |-> "handler"]}

(* Two threads share a connection, and one of the callbacks raises that    *)
(* are called without protection.                                          *)
RaisingHandler ==
    [conn : {OneForAll}, yielding : {{}}, raising : {{k} : k \in Unprotected},
     busy : {"handler"}]

(* A thread forks while another one sleeps in its busy handler.            *)
SleepingApart ==
    {[conn |-> OneForEach, yielding |-> {"busy"}, raising |-> {},
      busy |-> "handler"]}
=============================================================================
