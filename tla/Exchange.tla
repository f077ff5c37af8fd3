-------------------------------- MODULE Exchange --------------------------------
(***************************************************************************)
(* What the two pallets promise about an order, with the messages taken    *)
(* away: an order is placed at a device about which nothing is under way,  *)
(* and from then on a single token stands for it, first the request on its *)
(* way to the service chain, then the service, then the answer on its way  *)
(* back.  The token can be lost; it is never copied, and an answer closes  *)
(* only the order it was started for.                                      *)
(***************************************************************************)
EXTENDS Naturals

CONSTANTS Device, None

VARIABLES
    now,      \* the client chain's clock
    order,    \* by device: its open order on the client chain
    token     \* by device: what is under way, and for which order

vars == <<now, order, token>>

Request(o) == [at |-> "request", order |-> o]
Reply(o) == [at |-> "answer", client |-> o.client]

(* Lost with the step or not                                               *)
Becomes(d, next) ==
    \/ token' = [token EXCEPT ![d] = next]
    \/ token' = [token EXCEPT ![d] = None]

Init ==
    /\ now = 0
    /\ order = [d \in Device |-> None]
    /\ token = [d \in Device |-> None]

Place(d) ==
    /\ order[d] = None /\ order'[d] # None
    /\ token[d] = None
    /\ order'[d].until > now
    /\ order' = [order EXCEPT ![d] = order'[d]]
    /\ Becomes(d, Request(order'[d]))
    /\ UNCHANGED now

(* The service chain takes the request.                                    *)
Begin(d) ==
    /\ UNCHANGED <<now, order>>
    /\ token[d] # None
    /\ token[d].at = "request"
    /\ token' = [token EXCEPT ![d].at = "service"]

(* The device answers, or the client withdraws the order over there.       *)
Answer(d) ==
    /\ UNCHANGED <<now, order>>
    /\ token[d] # None
    /\ token[d].at = "service"
    /\ Becomes(d, Reply(token[d].order))

(* The answer closes its order.                                            *)
Close(d) ==
    /\ order[d] # None
    /\ order' = [order EXCEPT ![d] = None]
    /\ token[d] = Reply(order[d])
    /\ token' = [token EXCEPT ![d] = None]
    /\ UNCHANGED now

(* The client withdraws an overdue order; whatever is under way goes on.   *)
Withdraw(d) ==
    /\ order[d] # None
    /\ now >= order[d].until
    /\ order' = [order EXCEPT ![d] = None]
    /\ UNCHANGED <<now, token>>

(* Messages are refused, lost with their batch, or answer an order that    *)
(* is closed.                                                              *)
Lose(lost) ==
    /\ UNCHANGED <<now, order>>
    /\ \A d \in lost : token[d] # None /\ token[d].at # "service"
    /\ token' = [d \in Device |-> IF d \in lost THEN None ELSE token[d]]

Advance ==
    /\ now' = now + 1
    /\ UNCHANGED <<order, token>>

Next ==
    \/ \E d \in Device : Place(d) \/ Begin(d) \/ Answer(d) \/ Close(d) \/ Withdraw(d)
    \/ \E lost \in SUBSET Device : Lose(lost)
    \/ Advance

Spec == Init /\ [][Next]_vars
===============================================================================
