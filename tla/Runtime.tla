-------------------------------- MODULE Runtime --------------------------------
(***************************************************************************)
(* runtime/src/lib.rs: one chain that carries both pallets, as             *)
(* construct_runtime! puts them together.  They share the ledger, on which *)
(* reserves have no owner, the clock and the outbound queue; each has its  *)
(* own registry of devices and its own orders.                             *)
(*                                                                         *)
(* As this runtime is wired, OnKilledAccount = () calls no pallet,         *)
(* XcmpMessageHandler = XcmpQueue hands no message to one, and             *)
(* AcceptOnReceive takes every order at once: no device here is ever Busy  *)
(* on the service side, and accept(reject = false) always fails.           *)
(***************************************************************************)
EXTENDS Common, Functions

CONSTANTS
    Endowment,    \* genesis balances
    SelfParaId,   \* parachain_info
    TestParaId    \* where `test` of the client pallet sends its blob

ASSUME RuntimeAssumption ==
    /\ Endowment \in [Account -> Nat]
    /\ \A a \in Account : Endowment[a] = 0 \/ Endowment[a] >= ExistentialDeposit
    /\ SelfParaId \in ParaId
    /\ TestParaId \in ParaId
    /\ None \notin {"Busy", "Accepted"}

VARIABLES
    now, bal, outbox,   \* Timestamp, Balances, XcmpQueue
    cdevice, corders,   \* XchangePallet
    sdevice, sorders    \* XchangeService

vars == <<now, bal, outbox, cdevice, corders, sdevice, sorders>>

X == INSTANCE Xchange WITH
        device <- cdevice, orders <- corders, batch <- <<>>,
        KilledHook <- FALSE, Incoming <- {}, MaxBatch <- 0

S == INSTANCE XchangeService WITH
        device <- sdevice, orders <- sorders, batch <- <<>>,
        OnReceived <- {"Accepted"}, KilledHook <- FALSE, Incoming <- {}, MaxBatch <- 0

Init == X!Init /\ S!Init

(* Calls of the client pallet                                              *)
XchangeCall ==
    /\ \/ \E who \in Client, base \in OrderBase : X!PlaceOrder(who, base)
       \/ \E who \in Client, d \in Device : X!Cancel(who, d)
       \/ \E d \in Device, paraid \in ParaId, penalty \in Penalties, wcd \in Wcds,
             onoff \in BOOLEAN : X!Register(d, paraid, penalty, wcd, onoff)
       \/ X!Test
    /\ UNCHANGED <<sdevice, sorders>>

(* Calls of the service pallet                                             *)
ServiceCall ==
    /\ \/ \E who \in Client, d \in Device, fee \in Fees, until \in Moment :
                S!PlaceOrder(who, d, fee, until, "Accepted")
       \/ \E who \in Client, d \in Device : S!Cancel(who, d)
       \/ \E d \in Device, onoff \in BOOLEAN :
                S!Reject(d, onoff) \/ S!Done(d, onoff) \/ S!SetState(d, onoff)
       \/ \E d \in Device, penalty \in Penalties, wcd \in Wcds, onoff \in BOOLEAN :
                S!Register(d, penalty, wcd, onoff)
    /\ UNCHANGED <<cdevice, corders>>

(* A balance transfer, the timestamp, the relay chain                      *)
Elsewhere ==
    /\ \/ \E from, to \in Account : \E amount \in 1 .. bal[from].free : X!Spend(from, to, amount)
       \/ X!Tick
       \/ X!Carry
    /\ UNCHANGED <<sdevice, sorders>>

Next == XchangeCall \/ ServiceCall \/ Elsewhere

Spec == Init /\ [][Next]_vars

-------------------------------------------------------------------------------
(* Properties                                                              *)

OpenFees(orders, c) ==
    LET mine == {d \in Device : orders[d] # None /\ orders[d].client = c}
    IN  SumFunctionOnSet([d \in mine |-> orders[d].fee], mine)

(* The pallets do not spend each other's reserves: what a client has in    *)
(* reserve is, to the unit, the fees of its orders in both pallets,        *)
(* whatever each of them releases or pays out.                             *)
FeesAddUp ==
    (\A fee \in Fees : fee = 0 \/ fee >= ExistentialDeposit) =>
        \A c \in Client \ Device :
            bal[c].reserved = OpenFees(corders, c) + OpenFees(sorders, c)

(* A device that serves in both pallets at once has both penalties in      *)
(* reserve, so that a settlement in one cannot leave the other without.    *)
PenaltyAtStake(orders, device, d) == IF orders[d] = None THEN 0 ELSE device[d].penalty

PenaltiesAddUp ==
    (\A penalty \in Penalties : penalty = 0 \/ penalty >= ExistentialDeposit) =>
        \A d \in Device \ Client :
            PenaltyAtStake(corders, cdevice, d) + PenaltyAtStake(sorders, sdevice, d)
                <= bal[d].reserved
===============================================================================
