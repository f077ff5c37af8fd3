------------------------------ MODULE MCAutoBank ------------------------------
(* Constants of the model-checking runs of AutoBank.                       *)
EXTENDS AutoBank

CONSTANTS c1, c2, d1, d2

(* With an existential deposit of 1 and a fee of 1 a careful client can    *)
(* have one order open, and a device survives the loss of one penalty.     *)
Money == [a \in Account |-> 2]
===============================================================================
