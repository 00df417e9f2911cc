------------------------------ MODULE MCGossip ------------------------------
(***************************************************************************)
(* Small pools for Gossip: a pair that grew up together, a newcomer, and   *)
(* three nodes that are all connected.                                     *)
(***************************************************************************)
EXTENDS Gossip

CONSTANTS n1, n2, n3

Pair == {<<n2, n1>>}
Triangle == {<<n2, n1>>, <<n3, n1>>, <<n3, n2>>}

Together == [early |-> Pair, mining |-> {n1, n2}]
Newcomer == [early |-> {}, mining |-> {n1}]

TogetherOrNewcomer == {Together, Newcomer}
NewcomerOnly == {Newcomer}
AllConnected == {[early |-> Triangle, mining |-> {n1}]}

Ones == [n \in Nodes |-> {1}]
HeavyMinority == [n \in Nodes |-> IF n = n2 THEN {1, 2} ELSE {1}]
=============================================================================
