------------------------------ MODULE RowStream -----------------------------
(***************************************************************************)
(* What a prepared statement promises to whoever reads its rows: every     *)
(* pass over the result delivers row 1, 2, 3, ... with no gap and no       *)
(* repetition; once it has answered nil it keeps answering nil until it is *)
(* rewound; a failure ends the pass, and the next row delivered is row 1.  *)
(***************************************************************************)
EXTENDS Naturals

VARIABLES
    k,        \* rows delivered in the current pass
    over,     \* the pass has reached its end
    answer    \* what the last call returned

rsVars == <<k, over, answer>>

Row(n) == [is |-> "row", number |-> n]
Void   == [is |-> "void", number |-> 0]
Nil    == [is |-> "nil", number |-> 0]
Raised == [is |-> "raised", number |-> 0]

Init == k = 0 /\ over = FALSE /\ answer = Void

Deliver == ~over /\ k' = k + 1 /\ answer' = Row(k + 1) /\ UNCHANGED over

Finish == ~over /\ over' = TRUE /\ answer' = Nil /\ UNCHANGED k

StayOver == over /\ answer' = Nil /\ UNCHANGED <<k, over>>

(* A failing step, and a rewind, start a new pass.                         *)
Fail == ~over /\ k' = 0 /\ answer' = Raised /\ UNCHANGED over

Rewind == k' = 0 /\ over' = FALSE /\ answer' \in {Void, Raised}

(* A statement without columns runs to its end when it is executed.        *)
RunThrough == k' = 0 /\ over' = TRUE /\ answer' = Nil

(* A call that is refused, or that does not concern the rows.              *)
Refuse == answer' \in {Void, Raised} /\ UNCHANGED <<k, over>>

Next == Deliver \/ Finish \/ StayOver \/ Fail \/ Rewind \/ RunThrough \/ Refuse

Spec == Init /\ [][Next]_rsVars
=============================================================================
