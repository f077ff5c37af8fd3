-------------------------------- MODULE Xchange --------------------------------
(***************************************************************************)
(* pallets/xchange: the client chain's side.  A client orders the service  *)
(* of a device registered here; the fee and the device's penalty are       *)
(* reserved, the order is sent to the device's parachain, and the answers  *)
(* that come back, or the client's cancel, settle it.                      *)
(*                                                                         *)
(* One action is one dispatch, as in XchangeService; `batch` holds the     *)
(* blobs a running handle_xcmp_messages has not read.                      *)
(***************************************************************************)
EXTENDS Common

CONSTANTS
    Endowment,    \* genesis balances
    KilledHook,   \* whether the runtime lists the pallet in OnKilledAccount
    Incoming,     \* messages that may arrive (no handler looks at the sender)
    MaxBatch,     \* blobs one call of handle_xcmp_messages brings
    TestParaId    \* where the extrinsic `test` sends its blob

ASSUME ClientChainAssumption ==
    /\ Endowment \in [Account -> Nat]
    /\ \A a \in Account : Endowment[a] = 0 \/ Endowment[a] >= ExistentialDeposit
    /\ KilledHook \in BOOLEAN
    /\ Incoming \subseteq Message
    /\ MaxBatch \in Nat
    /\ TestParaId \in ParaId

VARIABLES
    now,      \* the chain's timestamp
    bal,      \* the chain's ledger
    device,   \* storage map Device
    orders,   \* storage map Orders, by device
    batch,    \* messages left in the current handle_xcmp_messages
    outbox    \* messages given to XcmpMessageSender, not yet taken

vars == <<now, bal, device, orders, batch, outbox>>

DeviceProfile ==
    [penalty : Penalties, wcd : Wcds, para_id : ParaId, state : DeviceState]

Init ==
    /\ now = 0
    /\ bal = [a \in Account |-> [free |-> Endowment[a], reserved |-> 0]]
    /\ device = [d \in Device |-> None]
    /\ orders = [d \in Device |-> None]
    /\ batch = <<>>
    /\ outbox = <<>>

Signed(who) == batch = <<>> /\ IsAlive(bal, who)

(* send_xcm; a failure is not noticed.                                     *)
Send(dest, msg) ==
    \/ UNCHANGED outbox
    \/ /\ Len(outbox) < MaxOutbox
       /\ outbox' = Append(outbox, [dest |-> dest, msg |-> msg])

(* on_killed_account for the accounts reaped between two ledgers: a device *)
(* that is off is forgotten, any other is marked abandoned.                *)
OnKilledAccount(old, new) ==
    [d \in Device |->
        IF ~KilledHook \/ device[d] = None \/ d \notin Killed(old, new) THEN device[d]
        ELSE IF device[d].state = "Off" THEN None
        ELSE [device[d] EXCEPT !.state = "Timewait"]]

-------------------------------------------------------------------------------
(* Settlement                                                              *)

(* `now < order.until` in order_reject and on_done, negated.  The two      *)
(* mutated forms are wrong by one moment, either way.                      *)
IsLateAfter(order) == now > order.until
IsLateBefore(order) == now + 1 >= order.until
IsLate(order) == now >= order.until

(* Orders::remove, and its mutated form, forgotten.                        *)
KeepOrder(d) == UNCHANGED orders
RemoveOrder(d) == orders' = [orders EXCEPT ![d] = None]

(* order_reject: the fee goes back to `who`, the penalty to the device or, *)
(* overdue, to the client on record.                                       *)
RejectOrder(who, d, state) ==
    LET order == orders[d]
        penalty == device[d].penalty
        released == Unreserve(bal, who, order.fee)
    IN  IF IsLate(order) /\ RepatriateFails(released, d, order.client, penalty)
        THEN bal' = released /\ UNCHANGED <<device, orders>>
        ELSE /\ bal' = IF IsLate(order)
                       THEN Repatriate(released, d, order.client, penalty)
                       ELSE Unreserve(released, d, penalty)
             /\ RemoveOrder(d)
             /\ device' = [OnKilledAccount(bal, bal') EXCEPT
                             ![d] = [device[d] EXCEPT !.state = state]]

(* on_done once the fee could be paid: an overdue penalty that cannot be   *)
(* delivered ends it with the fee paid and the order still open.           *)
FinishOrder(who, d, state) ==
    LET order == orders[d]
        penalty == device[d].penalty
        paid == Repatriate(bal, who, d, order.fee)
    IN  IF IsLate(order) /\ RepatriateFails(paid, d, who, penalty)
        THEN /\ bal' = paid
             /\ device' = OnKilledAccount(bal, paid)
             /\ UNCHANGED orders
        ELSE /\ bal' = IF IsLate(order)
                       THEN Repatriate(paid, d, who, penalty)
                       ELSE Unreserve(paid, d, penalty)
             /\ RemoveOrder(d)
             /\ device' = [OnKilledAccount(bal, bal') EXCEPT
                             ![d] = [device[d] EXCEPT !.state = state]]

-------------------------------------------------------------------------------
(* Dispatchable calls                                                      *)

(* order.  When the client is the device the second reserve can fail after *)
(* the first: the penalty stays reserved and no order is stored.           *)
PlaceOrder(who, base) ==
    LET d == base.device
        penalty == device[d].penalty
    IN  /\ Signed(who)
        /\ now < base.until
        /\ orders[d] = None
        /\ device[d] # None
        /\ device[d].state = "Ready"
        /\ base.until >= Deadline(now, device[d].wcd)
        /\ CanReserve(bal, who, base.fee)
        /\ CanReserve(bal, d, penalty)
        /\ IF CanReserve(Reserve(bal, d, penalty), who, base.fee)
           THEN LET order == ToOrder(base, who)
                IN  /\ bal' = Reserve(Reserve(bal, d, penalty), who, base.fee)
                    /\ orders' = [orders EXCEPT ![d] = order]
                    /\ Send(device[d].para_id, NewOrder(who, ToBase(order, d)))
                    /\ device' = [device EXCEPT ![d] = [@ EXCEPT !.state = "Busy"]]
           ELSE /\ bal' = Reserve(bal, d, penalty)
                /\ UNCHANGED <<device, orders, outbox>>
        /\ UNCHANGED <<now, batch>>

(* Mutated forms of cancel: the device is offered again at once; an order  *)
(* can be withdrawn only after its last moment has passed.                 *)
CancelFreesDevice(who, d) ==
    /\ Signed(who)
    /\ orders[d] # None
    /\ now >= orders[d].until
    /\ orders[d].client = who
    /\ device[d] # None
    /\ RejectOrder(who, d, "Ready")
    /\ UNCHANGED <<now, batch, outbox>>
CancelLater(who, d) ==
    /\ Signed(who)
    /\ orders[d] # None
    /\ now > orders[d].until
    /\ orders[d].client = who
    /\ device[d] # None
    /\ RejectOrder(who, d, device[d].state)
    /\ UNCHANGED <<now, batch, outbox>>

(* cancel: the client withdraws an overdue order; the device's state is    *)
(* kept.                                                                   *)
Cancel(who, d) ==
    /\ Signed(who)
    /\ orders[d] # None
    /\ now >= orders[d].until
    /\ orders[d].client = who
    /\ device[d] # None
    /\ RejectOrder(who, d, device[d].state)
    /\ UNCHANGED <<now, batch, outbox>>

(* Mutated form of register: open orders are not looked for.               *)
RegisterAnyway(d, paraid, penalty, wcd, onoff) ==
    /\ Signed(d)
    /\ device' = [device EXCEPT ![d] = [penalty |-> penalty, wcd |-> wcd,
                                        para_id |-> paraid, state |-> Switch(onoff)]]
    /\ UNCHANGED <<now, bal, orders, batch, outbox>>

Register(d, paraid, penalty, wcd, onoff) ==
    /\ Signed(d)
    /\ orders[d] = None
    /\ device' = [device EXCEPT ![d] = [penalty |-> penalty, wcd |-> wcd,
                                        para_id |-> paraid, state |-> Switch(onoff)]]
    /\ UNCHANGED <<now, bal, orders, batch, outbox>>

(* test: sends a blob that is no XCMPMessage to a fixed parachain.         *)
Test ==
    /\ batch = <<>>
    /\ Send(TestParaId, Garbage)
    /\ UNCHANGED <<now, bal, device, orders, batch>>

-------------------------------------------------------------------------------
(* handle_xcmp_messages: what a handler returns is discarded, so a failed  *)
(* one is only read.                                                       *)

BeginBatch(blobs) ==
    /\ batch = <<>>
    /\ batch' = blobs
    /\ UNCHANGED <<now, bal, device, orders, outbox>>

(* on_accept, which only deposits an event, and the branch for any other   *)
(* message that decodes                                                    *)
ReadOnly ==
    /\ batch # <<>>
    /\ Head(batch).type \in {"OrderAccept", "NewOrder"}
    /\ batch' = Tail(batch)
    /\ UNCHANGED <<now, bal, device, orders, outbox>>

OnReject ==
    /\ batch # <<>>
    /\ Head(batch).type = "OrderReject"
    /\ LET who == Head(batch).client
           d == Head(batch).device
       IN  IF orders[d] # None /\ device[d] # None
           THEN RejectOrder(who, d, Switch(Head(batch).onoff))
           ELSE UNCHANGED <<bal, device, orders>>
    /\ batch' = Tail(batch)
    /\ UNCHANGED <<now, outbox>>

OnDone ==
    /\ batch # <<>>
    /\ Head(batch).type = "OrderDone"
    /\ LET who == Head(batch).client
           d == Head(batch).device
       IN  IF /\ orders[d] # None
              /\ device[d] # None
              /\ ~RepatriateFails(bal, who, d, orders[d].fee)
           THEN FinishOrder(who, d, Switch(Head(batch).onoff))
           ELSE UNCHANGED <<bal, device, orders>>
    /\ batch' = Tail(batch)
    /\ UNCHANGED <<now, outbox>>

(* A blob that does not decode ends the call; those after it are lost.     *)
AbortBatch ==
    /\ batch # <<>>
    /\ Head(batch).type = "Garbage"
    /\ batch' = <<>>
    /\ UNCHANGED <<now, bal, device, orders, outbox>>

-------------------------------------------------------------------------------
(* The rest of the chain                                                   *)

Tick ==
    /\ batch = <<>>
    /\ now < MaxTime
    /\ now' = now + 1
    /\ UNCHANGED <<bal, device, orders, batch, outbox>>

Spend(from, to, amount) ==
    /\ Signed(from)
    /\ CanTransfer(bal, from, to, amount)
    /\ bal' = Transfer(bal, from, to, amount)
    /\ device' = OnKilledAccount(bal, bal')
    /\ UNCHANGED <<now, orders, batch, outbox>>

Carry ==
    /\ batch = <<>>
    /\ outbox # <<>>
    /\ outbox' = Tail(outbox)
    /\ UNCHANGED <<now, bal, device, orders, batch>>

Handle == ReadOnly \/ OnReject \/ OnDone \/ AbortBatch

Dispatch ==
    \/ \E who \in Client, base \in OrderBase : PlaceOrder(who, base)
    \/ \E who \in Client, d \in Device : Cancel(who, d)
    \/ \E d \in Device, paraid \in ParaId, penalty \in Penalties, wcd \in Wcds,
          onoff \in BOOLEAN : Register(d, paraid, penalty, wcd, onoff)
    \/ Test
    \/ \E from, to \in Account : \E amount \in 1 .. bal[from].free : Spend(from, to, amount)

Environment ==
    \/ Tick
    \/ Carry
    \/ \E n \in 1 .. MaxBatch : \E blobs \in [1 .. n -> Incoming] : BeginBatch(blobs)

Next == Handle \/ Dispatch \/ Environment

Spec == Init /\ [][Next]_vars

-------------------------------------------------------------------------------
(* Properties                                                              *)

(* The storage maps, the ledger and the queues hold what their Rust types  *)
(* say, and no account lives below the existential deposit.                *)
TypeOK ==
    /\ now \in Moment
    /\ bal \in Ledger
    /\ Reaped(bal)
    /\ device \in [Device -> DeviceProfile \cup {None}]
    /\ orders \in [Device -> Order \cup {None}]
    /\ batch \in Seq(Incoming)
    /\ outbox \in Seq(Outbound)

(* An open order always has its device on record, and no answer, cancel,   *)
(* registration or reaping makes that device look free for a second order: *)
(* it is Busy, or Timewait when the hook has marked it.                    *)
OrderHasDevice ==
    \A d \in Device :
        orders[d] # None => /\ device[d] # None
                            /\ device[d].state \in {"Busy", "Timewait"}
                            /\ device[d].state = "Timewait" => KilledHook

(* A device has its penalty in reserve exactly while an order at it is     *)
(* open, whatever answers arrive, in whatever order, from whomever: a      *)
(* settlement never leaves a part of it behind and no second one finds     *)
(* none.  (A penalty below the existential deposit can be lost as dust;    *)
(* an account that is client and device at once mixes its reserves.)       *)
PenaltyExact ==
    \A d \in Device \ Client :
        IF orders[d] = None
        THEN bal[d].reserved = 0
        ELSE /\ bal[d].reserved <= device[d].penalty
             /\ device[d].penalty >= ExistentialDeposit =>
                    bal[d].reserved = device[d].penalty

(* While an order is open it is not replaced, and the terms it was placed  *)
(* under, the penalty, wcd and parachain of its device, do not change.     *)
TermsFrozenStep ==
    \A d \in Device :
        orders[d] # None /\ orders'[d] # None =>
            /\ orders'[d] = orders[d]
            /\ device'[d] # None
            /\ device'[d] = [device[d] EXCEPT !.state = device'[d].state]
TermsFrozen == [][TermsFrozenStep]_vars

(* A client that cancels an overdue order always gets out of it, with the  *)
(* device's whole penalty as compensation: cancel cannot stop with an      *)
(* error half way, and nothing that arrived before has used up the         *)
(* penalty.                                                                *)
CancelCompensatesStep ==
    \A who \in Client \ Device, d \in Device \ Client :
        Cancel(who, d) /\ device[d].penalty >= ExistentialDeposit =>
            /\ orders'[d] = None
            /\ bal'[d].reserved = 0
            /\ Total(bal'[who]) = Total(bal[who]) + device[d].penalty
CancelCompensates == [][CancelCompensatesStep]_vars

(* An order that closes before its time costs the device nothing: the      *)
(* penalty is free again and what the device owns has not shrunk.          *)
NoPenaltyOnTimeStep ==
    \A d \in Device \ Client :
        orders[d] # None /\ orders'[d] = None /\ now < orders[d].until =>
            /\ bal'[d].reserved = 0
            /\ Total(bal'[d]) >= Total(bal[d])
NoPenaltyOnTime == [][NoPenaltyOnTimeStep]_vars

(* "Device has order" (DeviceState::Busy): refuted, a client's cancel of   *)
(* an overdue order takes the order and leaves the device Busy.            *)
BusyHasOrder ==
    \A d \in Device :
        device[d] # None /\ device[d].state = "Busy" => orders[d] # None
===============================================================================
