--------------------------------- MODULE MCNode ---------------------------------
(* Constants of the model-checking runs of Node.                           *)
EXTENDS Node

CONSTANTS m1, m2
===============================================================================
