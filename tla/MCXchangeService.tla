--------------------------- MODULE MCXchangeService ---------------------------
(* Constants of the model-checking runs of XchangeService.                 *)
EXTENDS XchangeService

CONSTANTS c1, d1, d2

(* Genesis balances, around an existential deposit of 2: the client can    *)
(* pay two fees and survive one, a device can back one penalty.            *)
Rich == [a \in Account |-> IF a = c1 THEN 4 ELSE 2]

(* No more than every account needs to exist.                              *)
Bare == [a \in Account |-> ExistentialDeposit]

(* A sibling parachain, 100, that sends orders of c1 and blobs the service *)
(* pallet stops at.                                                        *)
FromSibling ==
    {[sender |-> 100, msg |-> NewOrder(c1, [device |-> d, fee |-> 0, until |-> until])] :
        d \in Device, until \in {MaxTime}}
    \cup {[sender |-> 100, msg |-> Garbage],
          [sender |-> 100, msg |-> OrderAccept(c1, d1)]}

===============================================================================
