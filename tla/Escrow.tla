--------------------------------- MODULE Escrow ---------------------------------
(***************************************************************************)
(* What a chain promises about money, whichever pallet keeps it: while an  *)
(* order is open its fee and its device's penalty are out of their owners' *)
(* reach, and closing it moves exactly the fee, the penalty, both or       *)
(* neither between the two parties, and nothing of anybody else.           *)
(***************************************************************************)
EXTENDS Integers, Functions

CONSTANTS Account, Device, ExistentialDeposit, None

VARIABLES
    now,        \* the chain's clock
    total,      \* what each account owns, free or in escrow
    contract    \* by device: the open order and what it stands for

vars == <<now, total, contract>>

Contract == [client : Account, fee : {0} \cup {fee \in Nat : fee >= ExistentialDeposit},
             penalty : Nat, until : Nat]

(* An account below the existential deposit is wiped out, with a penalty   *)
(* in it that is smaller still.  (Smaller fees are not offered: as dust    *)
(* one could be paid out of another order's.)                              *)
Kept(amount) == IF amount < ExistentialDeposit THEN 0 ELSE amount
Forfeit(penalty) == IF penalty < ExistentialDeposit THEN 0 .. penalty ELSE {penalty}

(* What an account cannot touch: the fees of its orders as a client, its   *)
(* penalty as a device.                                                    *)
Held(a) ==
    LET mine == {d \in Device : contract[d] # None /\ contract[d].client = a}
    IN  SumFunctionOnSet([d \in mine |-> contract[d].fee], mine)
        + (IF a \in Device /\ contract[a] # None THEN Kept(contract[a].penalty) ELSE 0)

Init ==
    /\ now = 0
    /\ total \in [Account -> Nat]
    /\ contract = [d \in Device |-> None]

Open(d) ==
    /\ contract[d] = None
    /\ contract'[d] # None
    /\ contract'[d] \in Contract
    /\ contract'[d].client # d
    /\ contract'[d].until > now
    /\ contract' = [contract EXCEPT ![d] = contract'[d]]
    /\ UNCHANGED <<now, total>>

(* The device gets `paid`, the client `forfeited`.                         *)
Close(d, paid, forfeited) ==
    /\ contract' = [contract EXCEPT ![d] = None]
    /\ total' = [total EXCEPT ![contract[d].client] = Kept(@ + forfeited - paid),
                              ![d] = Kept(@ + paid - forfeited)]
    /\ UNCHANGED now

(* The order ends in time without the service.                             *)
Release(d) ==
    /\ contract[d] # None /\ contract'[d] = None
    /\ now < contract[d].until
    /\ Close(d, 0, 0)

(* It ends too late: the penalty goes to the client, who must exist.       *)
Compensate(d) ==
    /\ contract[d] # None /\ contract'[d] = None
    /\ now >= contract[d].until
    /\ contract[d].penalty > 0 => total[contract[d].client] > 0
    /\ \E forfeited \in Forfeit(contract[d].penalty) : Close(d, 0, forfeited)

(* The service is done.  A late device forfeits its penalty, unless the    *)
(* fee was the client's last.                                              *)
Pay(d) ==
    /\ contract[d] # None /\ contract'[d] = None
    /\ LET fee == contract[d].fee
           survives == Kept(total[contract[d].client] - fee) > 0
       IN  IF now >= contract[d].until /\ survives
           THEN \E forfeited \in Forfeit(contract[d].penalty) : Close(d, fee, forfeited)
           ELSE Close(d, fee, 0)

(* Anything else an account does with money, from what it can touch        *)
Move(from, to) ==
    /\ UNCHANGED <<now, contract>>
    /\ from # to /\ total'[from] < total[from]
    /\ \E amount \in 1 .. total[from] - Held(from) :
            total' = [total EXCEPT ![from] = Kept(@ - amount), ![to] = @ + amount]

Advance ==
    /\ now' = now + 1
    /\ UNCHANGED <<total, contract>>

Next ==
    \/ \E d \in Device : Open(d) \/ Release(d) \/ Compensate(d) \/ Pay(d)
    \/ \E from, to \in Account : Move(from, to)
    \/ Advance

Spec == Init /\ [][Next]_vars
===============================================================================
