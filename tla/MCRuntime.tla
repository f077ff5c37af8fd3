------------------------------- MODULE MCRuntime -------------------------------
(* Constants of the model-checking runs of Runtime.                        *)
EXTENDS Runtime

CONSTANTS c1, d1

(* A client can hold two fees at once and survive, a device can back two   *)
(* penalties or survive one.                                               *)
Money == [a \in Account |-> 4]
===============================================================================
