------------------------- MODULE MCCallbackLifetime -------------------------
(* Instances of CallbackLifetime for TLC.                                  *)
EXTENDS CallbackLifetime, TLC

CONSTANT name

(* Every spelling is one of the same name.                                 *)
OneName == [s \in Spelling |-> name]

Symmetry ==
    Permutations(Block) \cup Permutations(Wrapper) \cup Permutations(Instance)
        \cup Permutations(Spelling)
=============================================================================
