------------------------------ MODULE MCCollation ------------------------------
(* Constants of the model-checking run of Collation.                       *)
EXTENDS Collation

CONSTANTS fast, good, slow, wrong

Turns == <<fast, good, slow, wrong>>

(* With a drift of 2: a machine that is ahead as far as validators allow,  *)
(* one that runs with the relay chain, one that is behind, and one the     *)
(* validators do not believe.                                              *)
Machines == [n \in Node |->
    CASE n = fast -> 2 [] n = good -> 0 [] n = slow -> 0 - 2 [] n = wrong -> 3]
===============================================================================
