-------------------------- MODULE MCStatementCursor -------------------------
(* An instance of StatementCursor for TLC.                                 *)
EXTENDS StatementCursor, FiniteSets, TLC

(* The more parameters are not bound, the more rows the query selects.     *)
MCRowCount ==
    [b \in Binding |-> Cardinality({x \in Param : b[x] = Null})]

(* The result sets are interchangeable.                                    *)
Symmetry == Permutations(ResultSet)
=============================================================================
