------------------------------- MODULE MCXchange -------------------------------
(* Constants of the model-checking runs of Xchange.                        *)
EXTENDS Xchange

CONSTANTS c1, c2, d1, d2

(* Around an existential deposit of 2: a client can pay a fee and survive  *)
(* or not, a device can back one penalty.                                  *)
Rich == [a \in Account |-> IF a = c1 THEN 4 ELSE 2]

(* Every answer any parachain may send to close an order, about any        *)
(* accounts of this chain, one that is only noted, an order that no client *)
(* chain expects, and an undecodable blob.                                 *)
FromAnyone ==
    {msg \in Answers : msg.type # "OrderAccept"}
    \cup {OrderAccept(c1, d1), Garbage}
    \cup {NewOrder(c1, [device |-> d1, fee |-> fee, until |-> MaxTime]) : fee \in Fees}
===============================================================================
