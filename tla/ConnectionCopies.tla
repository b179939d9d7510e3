-------------------------- MODULE ConnectionCopies --------------------------
(***************************************************************************)
(* What fork safety promises of database connections, without Databases,   *)
(* statements, the hook or the garbage collector: every process has its    *)
(* own copy of a connection; a writable one is closed only in the process  *)
(* that opened it; the copy that a child inherits can only be abandoned;   *)
(* readonly connections may be closed by everybody.                        *)
(***************************************************************************)
CONSTANTS Proc, Root, Conn

VARIABLES
    alive,    \* the processes there have been
    access    \* access[p][c]: what process p may do with connection c

copyVars == <<alive, access>>

(* "own": writable, opened by this process; "shared": readonly; "copy":    *)
(* writable, inherited.                                                    *)
AccessState == {"none", "own", "shared", "copy", "closed", "abandoned"}

Init ==
    /\ alive = {Root}
    /\ access = [p \in Proc |-> [c \in Conn |-> "none"]]

Open(p, c) ==
    /\ p \in alive /\ access[p][c] = "none"
    /\ \E a \in {"own", "shared"} : access' = [access EXCEPT ![p][c] = a]
    /\ UNCHANGED alive

Close(p, c) ==
    /\ access[p][c] \in {"own", "shared"}
    /\ access' = [access EXCEPT ![p][c] = "closed"]
    /\ UNCHANGED alive

Abandon(p, c) ==
    /\ access[p][c] = "copy"
    /\ access' = [access EXCEPT ![p][c] = "abandoned"]
    /\ UNCHANGED alive

Inherited(a) == IF a = "own" THEN "copy" ELSE a

Fork(p, q) ==
    /\ p \in alive /\ q \notin alive
    /\ alive' = alive \cup {q}
    /\ access' = [access EXCEPT ![q] = [c \in Conn |-> Inherited(access[p][c])]]

Next ==
    \/ \E p \in Proc, c \in Conn : Open(p, c) \/ Close(p, c) \/ Abandon(p, c)
    \/ \E p, q \in Proc : Fork(p, q)

Spec == Init /\ [][Next]_copyVars
=============================================================================
