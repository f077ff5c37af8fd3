-------------------------------- MODULE Common --------------------------------
(***************************************************************************)
(* pallets/common: the types the client pallet (xchange) and the service   *)
(* pallet (xchange-service) share, and the messages they exchange.         *)
(*                                                                         *)
(* The payload of an order is left out: no pallet reads it.                *)
(***************************************************************************)
EXTENDS Currency, Sequences, FiniteSets

CONSTANTS
    Client,         \* accounts that place orders
    Device,         \* accounts that register as a device
    ParaId,         \* parachain ids, numbers
    Fees,           \* fees an order may offer
    Penalties,      \* penalties a device may register with
    Wcds,           \* durations (wcd) a device may register with
    MaxTime,        \* last moment of a clock
    MomentModulus,  \* a moment is a u64: addition wraps modulo 2^64
    MaxOutbox,      \* messages an outbound queue takes before a send fails
    None            \* what a storage map returns for an absent key

Moment == 0 .. MaxTime

(* enum DeviceState *)
DeviceState == {"Off", "Ready", "Busy", "Accepted", "Timewait"}

(* `if onoff { Ready } else { Off }`, the form every handler uses.         *)
Switch(onoff) == IF onoff THEN "Ready" ELSE "Off"

(* struct Order, as the pallets store it                                   *)
Order == [client : Client, fee : Fees, until : Moment, paraid : ParaId]

(* struct OrderBase, as it travels and as extrinsics receive it            *)
OrderBase == [device : Device, fee : Fees, until : Moment]

(* OrderBase::convert: the stored order of `client`, paraid zero.          *)
ToOrder(base, client) ==
    [client |-> client, fee |-> base.fee, until |-> base.until, paraid |-> 0]

(* Order::convert: the order as it is sent.                                *)
ToBase(order, device) ==
    [device |-> device, fee |-> order.fee, until |-> order.until]

-------------------------------------------------------------------------------
(* enum XCMPMessage                                                        *)
NewOrder(client, base) ==
    [type |-> "NewOrder", client |-> client, order |-> base]
OrderAccept(client, device) ==
    [type |-> "OrderAccept", client |-> client, device |-> device]
OrderReject(client, device, onoff) ==
    [type |-> "OrderReject", client |-> client, device |-> device, onoff |-> onoff]
OrderDone(client, device, onoff) ==
    [type |-> "OrderDone", client |-> client, device |-> device, onoff |-> onoff]

(* A blob XCMPMessage::decode refuses.                                     *)
Garbage == [type |-> "Garbage"]

NewOrders == [type : {"NewOrder"}, client : Client, order : OrderBase]
Answers == [type : {"OrderAccept"}, client : Client, device : Device]
           \cup [type : {"OrderReject", "OrderDone"}, client : Client,
                 device : Device, onoff : BOOLEAN]
Message == NewOrders \cup Answers \cup {Garbage}

(* A message on its way, and one that has arrived with its origin.         *)
Outbound == [dest : ParaId, msg : Message]
Inbound == [sender : ParaId, msg : Message]

-------------------------------------------------------------------------------
ASSUME AccountsAssumption == Client \subseteq Account /\ Device \subseteq Account

(* An account id has 32 bytes: there are finitely many.                    *)
ASSUME DeviceAssumption == IsFiniteSet(Device)

ASSUME ParaIdAssumption == ParaId \subseteq Nat /\ 0 \in ParaId

ASSUME AmountsAssumption == Fees \subseteq Nat /\ Penalties \subseteq Nat

ASSUME MomentAssumption ==
    /\ MaxTime \in Nat
    /\ MomentModulus \in Nat
    /\ MaxTime < MomentModulus
    /\ Wcds \subseteq 0 .. (MomentModulus - 1)

ASSUME OutboxAssumption == MaxOutbox \in Nat

ASSUME NoneAssumption ==
    /\ None \notin Order
    /\ None \notin [penalty : Nat, wcd : Nat, state : DeviceState]
    /\ None \notin [penalty : Nat, wcd : Nat, para_id : ParaId, state : DeviceState]

(* `now + dev.wcd`, as the release build of the runtime adds               *)
Deadline(now, wcd) == (now + wcd) % MomentModulus
===============================================================================
