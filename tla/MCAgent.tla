------------------------------ MODULE MCAgent -------------------------------
(* An instance of Agent for TLC.                                           *)
EXTENDS Agent

CONSTANTS rsa, first, second, third

Kinds == [k \in Keys |-> "rsa"]

(* The first two users share a connection; the third has one of its own.   *)
Shared == [x \in Users |-> IF x = third THEN "c2" ELSE "c1"]

=============================================================================
