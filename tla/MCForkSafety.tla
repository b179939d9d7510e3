---------------------------- MODULE MCForkSafety ----------------------------
(* Instances of ForkSafety for TLC.                                        *)
EXTENDS ForkSafety, Naturals, TLC

(* The connections and the statements are interchangeable.                 *)
Symmetry == Permutations(Conn) \cup Permutations(Stmt)

StateOf(p) ==
    <<proc[p], hook[p], todo[p], warned[p], tracked[p], obj[p], ptr[p],
      flags[p], owner[p], handle[p], sobj[p], st[p], sdb[p], born[p], used[p]>>

(* Processes share no variable, and a parent that goes on after a fork does *)
(* only what it could do without it.  So it is enough to follow one line of *)
(* descent: a parent rests once it has forked, and forks create processes   *)
(* in the order of their numbers.  A parent that rests neither exits nor    *)
(* runs the hook, so resting takes nothing from what must eventually happen.*)
LineOfDescent ==
    \A p \in Proc :
        /\ (\E q \in Proc : q > p /\ proc[q] # "unborn")
               => StateOf(p)' = StateOf(p)
        /\ p # Root /\ proc'[p] # "unborn" => proc'[p - 1] # "unborn"

LineNext == Next /\ LineOfDescent

(* The specification of one line of descent, with the fairness of FairSpec. *)
LineSpec ==
    /\ Init /\ [][LineNext]_vars
    /\ \A p \in Proc : WF_vars(HookStep(p) /\ LineOfDescent)
                     /\ WF_vars(FinalFree(p) /\ LineOfDescent)
=============================================================================
