------------------------------ MODULE MCMining ------------------------------
(* Two nodes, of which one has a fast clock, around the activation of a    *)
(* certificate version.                                                    *)
EXTENDS Mining

CONSTANTS a, b

OneFast == [n \in {a, b} |-> IF n = b THEN 2 ELSE 0]
Activation == <<1, 1, 2>>
=============================================================================
