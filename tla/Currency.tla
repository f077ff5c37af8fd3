------------------------------- MODULE Currency -------------------------------
(***************************************************************************)
(* The ledger the two exchange pallets settle on.  They reach it through   *)
(* the trait ReservableCurrency (`type Currency` of their Config), which   *)
(* the runtime fills with pallet_balances of Substrate polkadot-v0.9.15.   *)
(* That pallet is not part of this repository: the operators below model   *)
(* the calls the pallets make of it, as functions from one ledger to the   *)
(* next.                                                                   *)
(*                                                                         *)
(* A ledger maps an account to its free and its reserved balance.  An      *)
(* account whose total falls below the existential deposit is reaped and   *)
(* what is left of it, reserved balance included, is dropped as dust       *)
(* (the runtime sets DustRemoval = ()).                                    *)
(***************************************************************************)
EXTENDS Naturals

CONSTANTS
    Account,              \* the account ids
    ExistentialDeposit    \* smallest total balance an account may keep

ASSUME DepositAssumption == ExistentialDeposit \in Nat \ {0}

Balance == [free : Nat, reserved : Nat]

Ledger == [Account -> Balance]

Dead == [free |-> 0, reserved |-> 0]

Total(b) == b.free + b.reserved

(* The account has an entry in the ledger.                                 *)
IsAlive(bal, a) == Total(bal[a]) > 0

(* Every entry holds at least the existential deposit.                     *)
Reaped(bal) == \A a \in Account : IsAlive(bal, a) => Total(bal[a]) >= ExistentialDeposit

Killed(old, new) == {a \in Account : IsAlive(old, a) /\ ~IsAlive(new, a)}

(* What becomes of an account's entry after a withdrawal; mutated: wrong   *)
(* by one.                                                                 *)
ReapLess(b) == IF Total(b) + 1 < ExistentialDeposit THEN Dead ELSE b
Reap(b) == IF Total(b) < ExistentialDeposit THEN Dead ELSE b

AtMost(x, y) == IF x <= y THEN x ELSE y

CanReserve(bal, who, amount) == bal[who].free >= amount

(* reserve(who, amount): fails, and changes nothing, unless CanReserve.    *)
Reserve(bal, who, amount) ==
    [bal EXCEPT ![who] = [free     |-> @.free - amount,
                          reserved |-> @.reserved + amount]]

(* unreserve(who, amount): never fails, releases what is there.            *)
Unreserve(bal, who, amount) ==
    LET actual == AtMost(bal[who].reserved, amount)
    IN  [bal EXCEPT ![who] = [free     |-> @.free + actual,
                              reserved |-> @.reserved - actual]]

(* repatriate_reserved(from, to, amount, Free) fails with DeadAccount when *)
(* the beneficiary has no entry.                                           *)
RepatriateFails(bal, from, to, amount) ==
    amount # 0 /\ from # to /\ ~IsAlive(bal, to)

(* Otherwise it moves what is reserved, up to amount, into the free        *)
(* balance of the beneficiary, and reports success even when less was      *)
(* there.                                                                  *)
Repatriate(bal, from, to, amount) ==
    LET actual == AtMost(bal[from].reserved, amount)
    IN  CASE amount = 0 -> bal
          [] amount # 0 /\ from = to -> Unreserve(bal, from, amount)
          [] amount # 0 /\ from # to ->
                [bal EXCEPT ![from] = Reap([free     |-> @.free,
                                            reserved |-> @.reserved - actual]),
                            ![to] = [free     |-> @.free + actual,
                                     reserved |-> @.reserved]]

(* A plain transfer that may kill the sender; the beneficiary must end up  *)
(* with the existential deposit.                                           *)
CanTransfer(bal, from, to, amount) ==
    /\ from # to
    /\ amount \in 1 .. bal[from].free
    /\ Total(bal[to]) + amount >= ExistentialDeposit

Transfer(bal, from, to, amount) ==
    [bal EXCEPT ![from] = Reap([free     |-> @.free - amount,
                                reserved |-> @.reserved]),
                ![to] = [free     |-> @.free + amount,
                         reserved |-> @.reserved]]
===============================================================================
