---------------------------- MODULE MCTurnResult -----------------------------
(* An instance of TurnResult for TLC: errors are interchangeable, of the     *)
(* texts one is too long.                                                    *)
EXTENDS TurnResult, TLC

CONSTANTS x1, x2, e1, e2

Symmetry == Permutations(Errors)
=============================================================================
