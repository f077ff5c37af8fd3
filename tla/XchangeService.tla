---------------------------- MODULE XchangeService ----------------------------
(***************************************************************************)
(* pallets/xchange-service: the service chain's side.  Devices register,   *)
(* take orders placed locally or sent from another parachain, accept,      *)
(* reject and finish them.  For a local order the fee and the penalty are  *)
(* reserved and settled here; for a remote one the answer is sent back and *)
(* the other chain settles.                                                *)
(*                                                                         *)
(* One action is one dispatch.  A dispatch that returns an error is not    *)
(* rolled back in this version of FRAME; it is a step only when it wrote   *)
(* something before it failed.  A call of handle_xcmp_messages is a run of *)
(* steps during which `batch` holds the blobs it has not read yet and      *)
(* nothing else happens.                                                   *)
(***************************************************************************)
EXTENDS Common, Functions

CONSTANTS
    Endowment,    \* genesis balances
    SelfParaId,   \* T::SelfParaId
    OnReceived,   \* outcomes of T::OnReceived::on_received; None refuses
    KilledHook,   \* whether the runtime lists the pallet in OnKilledAccount
    Incoming,     \* blobs other parachains may send, with their sender
    MaxBatch      \* blobs one call of handle_xcmp_messages brings

ASSUME ServiceAssumption ==
    /\ Endowment \in [Account -> Nat]
    /\ \A a \in Account : Endowment[a] = 0 \/ Endowment[a] >= ExistentialDeposit
    /\ SelfParaId \in ParaId
    /\ OnReceived \subseteq {"Busy", "Accepted", None}
    /\ None \notin {"Busy", "Accepted"}
    /\ KilledHook \in BOOLEAN
    /\ Incoming \subseteq Inbound
    /\ \A blob \in Incoming : blob.sender # SelfParaId
    /\ MaxBatch \in Nat

VARIABLES
    now,      \* the chain's timestamp
    bal,      \* the chain's ledger
    device,   \* storage map Device
    orders,   \* storage map Orders, by device
    batch,    \* blobs left in the current handle_xcmp_messages
    outbox    \* messages given to XcmpMessageSender, not yet taken

vars == <<now, bal, device, orders, batch, outbox>>

DeviceProfile == [penalty : Penalties, wcd : Wcds, state : DeviceState]

(* `order.paraid == T::SelfParaId::get()`; mutated: the parachain id that  *)
(* OrderBase::convert gives.                                               *)
IsUnsent(order) == order.paraid = 0
IsLocal(order) == order.paraid = SelfParaId

Init ==
    /\ now = 0
    /\ bal = [a \in Account |-> [free |-> Endowment[a], reserved |-> 0]]
    /\ device = [d \in Device |-> None]
    /\ orders = [d \in Device |-> None]
    /\ batch = <<>>
    /\ outbox = <<>>

(* A dispatch runs between two calls of handle_xcmp_messages, signed by an *)
(* account that exists.                                                    *)
Signed(who) == batch = <<>> /\ IsAlive(bal, who)

(* send_xcm; what it returns is discarded, so a full or missing channel    *)
(* loses the message.                                                      *)
Send(dest, msg) ==
    \/ UNCHANGED outbox
    \/ /\ Len(outbox) < MaxOutbox
       /\ outbox' = Append(outbox, [dest |-> dest, msg |-> msg])

(* on_killed_account for the accounts reaped between two ledgers: a device *)
(* that is off is forgotten; mutated: in any state.                        *)
ForgetKilled(old, new) ==
    [d \in Device |-> IF KilledHook /\ d \in Killed(old, new) THEN None ELSE device[d]]
OnKilledAccount(old, new) ==
    [d \in Device |->
        IF KilledHook /\ device[d] # None /\ device[d].state = "Off" /\ d \in Killed(old, new)
        THEN None ELSE device[d]]

-------------------------------------------------------------------------------
(* Helpers of the handlers                                                 *)

AcceptOrder(order, d) ==
    /\ device' = [device EXCEPT ![d] = [@ EXCEPT !.state = "Accepted"]]
    /\ IF IsLocal(order)
       THEN UNCHANGED outbox
       ELSE Send(order.paraid, OrderAccept(order.client, d))

(* The checks of order_received that precede the hook                      *)
Admissible(order, d) ==
    /\ now < order.until
    /\ orders[d] = None
    /\ device[d] # None
    /\ device[d].state = "Ready"
    /\ order.until >= Deadline(now, device[d].wcd)

(* order_received from the first write on                                  *)
TakeOrder(order, d, state) ==
    /\ orders' = [orders EXCEPT ![d] = order]
    /\ IF state = "Accepted"
       THEN AcceptOrder(order, d)
       ELSE /\ device' = [device EXCEPT ![d] = [@ EXCEPT !.state = state]]
            /\ UNCHANGED outbox

(* Orders::remove and Orders::take; mutated: Orders::get.                  *)
KeepOrder(d) == UNCHANGED orders
RemoveOrder(d) == orders' = [orders EXCEPT ![d] = None]

(* order_reject of an order placed here: the ledger it leaves, and whether *)
(* it stops with an error after the fee was released.  Mutated: all that   *)
(* the client has reserved is released.                                    *)
AllReleased(order) == Unreserve(bal, order.client, bal[order.client].reserved)
FeeReleased(order) == Unreserve(bal, order.client, order.fee)

RejectFails(order, d) ==
    /\ IsLocal(order)
    /\ now >= order.until
    /\ RepatriateFails(FeeReleased(order), d, order.client, device[d].penalty)

LedgerAfterReject(order, d) ==
    IF now < order.until
    THEN Unreserve(FeeReleased(order), d, device[d].penalty)
    ELSE Repatriate(FeeReleased(order), d, order.client, device[d].penalty)

(* order_reject, given the state the caller has chosen for the device; the *)
(* profile is written last, over whatever on_killed_account did to it.     *)
RejectOrder(order, d, state, onoff) ==
    IF RejectFails(order, d)
    THEN bal' = FeeReleased(order) /\ UNCHANGED <<device, orders, outbox>>
    ELSE /\ IF IsLocal(order)
            THEN bal' = LedgerAfterReject(order, d) /\ UNCHANGED outbox
            ELSE UNCHANGED bal /\ Send(order.paraid, OrderReject(order.client, d, onoff))
         /\ RemoveOrder(d)
         /\ device' = [OnKilledAccount(bal, bal') EXCEPT
                         ![d] = [device[d] EXCEPT !.state = state]]

(* Mutated form of the next: the penalty is released, overdue or not.      *)
LedgerAfterAnyDone(order, d) ==
    IF RepatriateFails(bal, order.client, d, order.fee)
    THEN bal
    ELSE Unreserve(Repatriate(bal, order.client, d, order.fee), d, device[d].penalty)

(* order_done of an order placed here.  The fee is paid first; a payment   *)
(* that reaps the client makes an overdue device's penalty undeliverable,  *)
(* and the error leaves it reserved with the order gone.                   *)
LedgerAfterDone(order, d) ==
    LET paid == Repatriate(bal, order.client, d, order.fee)
    IN  CASE RepatriateFails(bal, order.client, d, order.fee) -> bal
          [] ~RepatriateFails(bal, order.client, d, order.fee) /\ now < order.until ->
                Unreserve(paid, d, device[d].penalty)
          [] ~RepatriateFails(bal, order.client, d, order.fee) /\ now >= order.until ->
                IF RepatriateFails(paid, d, order.client, device[d].penalty)
                THEN paid
                ELSE Repatriate(paid, d, order.client, device[d].penalty)

-------------------------------------------------------------------------------
(* Dispatchable calls                                                      *)

(* order of `who`, who is a client of this chain.  When the client is the  *)
(* device the second reserve can fail after the first: the penalty stays   *)
(* reserved and no order is stored.                                        *)
PlaceOrder(who, d, fee, until, state) ==
    LET order == [client |-> who, fee |-> fee, until |-> until, paraid |-> SelfParaId]
        penalty == device[d].penalty
    IN  /\ Signed(who)
        /\ Admissible(order, d)
        /\ state # None
        /\ CanReserve(bal, who, fee)
        /\ CanReserve(bal, d, penalty)
        /\ IF CanReserve(Reserve(bal, d, penalty), who, fee)
           THEN /\ bal' = Reserve(Reserve(bal, d, penalty), who, fee)
                /\ TakeOrder(order, d, state)
           ELSE /\ bal' = Reserve(bal, d, penalty)
                /\ UNCHANGED <<device, orders, outbox>>
        /\ UNCHANGED <<now, batch>>

(* Mutated form of cancel: only orders placed on this chain.               *)
CancelLocal(who, d) ==
    /\ Signed(who)
    /\ orders[d] # None
    /\ IsLocal(orders[d])
    /\ now >= orders[d].until
    /\ orders[d].client = who
    /\ device[d] # None
    /\ RejectOrder(orders[d], d, device[d].state, FALSE)
    /\ UNCHANGED <<now, batch>>

(* cancel: the client withdraws an overdue order.  The device's state is   *)
(* kept, the answer sent to a remote client's chain says Off.              *)
Cancel(who, d) ==
    /\ Signed(who)
    /\ orders[d] # None
    /\ now >= orders[d].until
    /\ orders[d].client = who
    /\ device[d] # None
    /\ RejectOrder(orders[d], d, device[d].state, FALSE)
    /\ UNCHANGED <<now, batch>>

(* accept(reject = false)                                                  *)
Accept(d) ==
    /\ Signed(d)
    /\ device[d] # None
    /\ device[d].state = "Busy"
    /\ orders[d] # None
    /\ now < orders[d].until
    /\ AcceptOrder(orders[d], d)
    /\ UNCHANGED <<now, bal, orders, batch>>

(* accept(reject = true); without an order it only resets the device.      *)
Reject(d, onoff) ==
    /\ Signed(d)
    /\ device[d] # None
    /\ device[d].state \in {"Busy", "Accepted"}
    /\ IF orders[d] # None
       THEN RejectOrder(orders[d], d, Switch(onoff), onoff)
       ELSE /\ device' = [device EXCEPT ![d] = [@ EXCEPT !.state = Switch(onoff)]]
            /\ UNCHANGED <<bal, orders, outbox>>
    /\ UNCHANGED <<now, batch>>

(* done: the order and the device's state are written before anything is   *)
(* paid.                                                                   *)
Done(d, onoff) ==
    /\ Signed(d)
    /\ device[d] # None
    /\ device[d].state = "Accepted"
    /\ orders[d] # None
    /\ RemoveOrder(d)
    /\ IF IsLocal(orders[d])
       THEN bal' = LedgerAfterDone(orders[d], d) /\ UNCHANGED outbox
       ELSE /\ UNCHANGED bal
            /\ Send(orders[d].paraid, OrderDone(orders[d].client, d, onoff))
    /\ device' = [OnKilledAccount(bal, bal') EXCEPT
                    ![d] = IF KilledHook /\ ~onoff /\ d \in Killed(bal, bal')
                           THEN None
                           ELSE [device[d] EXCEPT !.state = Switch(onoff)]]
    /\ UNCHANGED <<now, batch>>

(* Mutated form of register: open orders are not looked for.               *)
RegisterAnyway(d, penalty, wcd, onoff) ==
    /\ Signed(d)
    /\ device' = [device EXCEPT
                    ![d] = [penalty |-> penalty, wcd |-> wcd, state |-> Switch(onoff)]]
    /\ UNCHANGED <<now, bal, orders, batch, outbox>>

Register(d, penalty, wcd, onoff) ==
    /\ Signed(d)
    /\ orders[d] = None
    /\ device' = [device EXCEPT
                    ![d] = [penalty |-> penalty, wcd |-> wcd, state |-> Switch(onoff)]]
    /\ UNCHANGED <<now, bal, orders, batch, outbox>>

(* set_state; mutated: a device can be switched off in any state.          *)
SetAnyState(d, onoff) ==
    /\ Signed(d)
    /\ device[d] # None
    /\ device' = [device EXCEPT ![d] = [@ EXCEPT !.state = Switch(onoff)]]
    /\ UNCHANGED <<now, bal, orders, batch, outbox>>

SetState(d, onoff) ==
    /\ Signed(d)
    /\ device[d] # None
    /\ device[d].state \in IF onoff THEN {"Off"} ELSE {"Ready", "Off"}
    /\ device' = [device EXCEPT ![d] = [@ EXCEPT !.state = Switch(onoff)]]
    /\ UNCHANGED <<now, bal, orders, batch, outbox>>

-------------------------------------------------------------------------------
(* handle_xcmp_messages                                                    *)

BeginBatch(blobs) ==
    /\ batch = <<>>
    /\ batch' = blobs
    /\ UNCHANGED <<now, bal, device, orders, outbox>>

(* A new order the device can take                                         *)
ReceiveOrder(state) ==
    /\ batch # <<>>
    /\ Head(batch).msg.type = "NewOrder"
    /\ LET msg == Head(batch).msg
           order == [client |-> msg.client, fee |-> msg.order.fee,
                     until |-> msg.order.until, paraid |-> Head(batch).sender]
       IN  /\ Admissible(order, msg.order.device)
           /\ state # None
           /\ TakeOrder(order, msg.order.device, state)
    /\ batch' = Tail(batch)
    /\ UNCHANGED <<now, bal>>

(* A new order order_received returns an error for: it is only logged, no  *)
(* answer is sent.                                                         *)
DropOrder ==
    /\ batch # <<>>
    /\ Head(batch).msg.type = "NewOrder"
    /\ LET msg == Head(batch).msg
           order == [client |-> msg.client, fee |-> msg.order.fee,
                     until |-> msg.order.until, paraid |-> Head(batch).sender]
       IN  None \in OnReceived \/ ~Admissible(order, msg.order.device)
    /\ batch' = Tail(batch)
    /\ UNCHANGED <<now, bal, device, orders, outbox>>

(* A blob that does not decode, or is no new order: the call returns and   *)
(* the blobs after it are lost.                                            *)
AbortBatch ==
    /\ batch # <<>>
    /\ Head(batch).msg.type # "NewOrder"
    /\ batch' = <<>>
    /\ UNCHANGED <<now, bal, device, orders, outbox>>

-------------------------------------------------------------------------------
(* The rest of the chain                                                   *)

Tick ==
    /\ batch = <<>>
    /\ now < MaxTime
    /\ now' = now + 1
    /\ UNCHANGED <<bal, device, orders, batch, outbox>>

(* A balance transfer, by an account that keeps nothing or something       *)
Spend(from, to, amount) ==
    /\ Signed(from)
    /\ CanTransfer(bal, from, to, amount)
    /\ bal' = Transfer(bal, from, to, amount)
    /\ device' = OnKilledAccount(bal, bal')
    /\ UNCHANGED <<now, orders, batch, outbox>>

(* The relay chain takes the oldest message.                               *)
Carry ==
    /\ batch = <<>>
    /\ outbox # <<>>
    /\ outbox' = Tail(outbox)
    /\ UNCHANGED <<now, bal, device, orders, batch>>

Handle ==
    \/ \E state \in OnReceived : ReceiveOrder(state)
    \/ DropOrder
    \/ AbortBatch

Dispatch ==
    \/ \E who \in Client, d \in Device, fee \in Fees, until \in Moment, state \in OnReceived :
            PlaceOrder(who, d, fee, until, state)
    \/ \E who \in Client, d \in Device : Cancel(who, d)
    \/ \E d \in Device : Accept(d)
    \/ \E d \in Device, onoff \in BOOLEAN : Reject(d, onoff)
    \/ \E d \in Device, onoff \in BOOLEAN : Done(d, onoff)
    \/ \E d \in Device, penalty \in Penalties, wcd \in Wcds, onoff \in BOOLEAN :
            Register(d, penalty, wcd, onoff)
    \/ \E d \in Device, onoff \in BOOLEAN : SetState(d, onoff)
    \/ \E from, to \in Account : \E amount \in 1 .. bal[from].free : Spend(from, to, amount)

Environment ==
    \/ Tick
    \/ Carry
    \/ \E n \in 1 .. MaxBatch : \E blobs \in [1 .. n -> Incoming] : BeginBatch(blobs)

Next == Handle \/ Dispatch \/ Environment

Spec == Init /\ [][Next]_vars

-------------------------------------------------------------------------------
(* Properties                                                              *)

(* The storage maps, the ledger and the queues hold what their Rust types  *)
(* say, no profile or order field is ever left half written, and no        *)
(* account lives below the existential deposit.                            *)
TypeOK ==
    /\ now \in Moment
    /\ bal \in Ledger
    /\ Reaped(bal)
    /\ device \in [Device -> DeviceProfile \cup {None}]
    /\ orders \in [Device -> Order \cup {None}]
    /\ batch \in Seq(Incoming)
    /\ outbox \in Seq(Outbound)

(* An open order always has a device, busy with it: no interleaving of     *)
(* register, set_state, cancel, settlement and reaping takes the profile   *)
(* away from under an order or makes its device look free (the ?-exits     *)
(* NoDevice of cancel and accept are never taken with an order open).      *)
OrderHasDevice ==
    \A d \in Device :
        orders[d] # None => /\ device[d] # None
                            /\ device[d].state \in {"Busy", "Accepted"}

(* While a local order is open its device has the whole penalty in         *)
(* reserve, so an overdue settlement can take it in full.  A device that   *)
(* is also a client can spend its reserve on its own orders, and a penalty *)
(* below the existential deposit can be lost as dust: both are left out.   *)
PenaltyBacked ==
    \A d \in Device \ Client :
        /\ orders[d] # None
        /\ IsLocal(orders[d])
        /\ device[d].penalty >= ExistentialDeposit
        => bal[d].reserved >= device[d].penalty

(* A client has the fees of all its open local orders in reserve at once,  *)
(* whatever the order in which they are settled.                           *)
FeesBacked ==
    (\A fee \in Fees : fee = 0 \/ fee >= ExistentialDeposit) =>
        \A c \in Client \ Device :
            LET mine == {d \in Device : /\ orders[d] # None
                                        /\ IsLocal(orders[d])
                                        /\ orders[d].client = c}
            IN  SumFunctionOnSet([d \in mine |-> orders[d].fee], mine) <= bal[c].reserved

(* While an order is open it is not replaced, and the terms it was placed  *)
(* under, the penalty and wcd of its device, do not change.                *)
TermsFrozenStep ==
    \A d \in Device :
        orders[d] # None /\ orders'[d] # None =>
            /\ orders'[d] = orders[d]
            /\ device'[d].penalty = device[d].penalty
            /\ device'[d].wcd = device[d].wcd
TermsFrozen == [][TermsFrozenStep]_vars

(* OrderDone and OrderReject leave only in the step that closes the order  *)
(* they answer, for that order's client, to the chain it came from:        *)
(* no order is answered twice and none that stays open.                    *)
AnswerClosesOrderStep ==
    Len(outbox') > Len(outbox) /\ outbox'[Len(outbox')].msg.type # "OrderAccept" =>
        LET out == outbox'[Len(outbox')]
            d == out.msg.device
        IN  /\ orders[d] # None
            /\ orders'[d] = None
            /\ orders[d].client = out.msg.client
            /\ orders[d].paraid = out.dest
            /\ ~IsLocal(orders[d])
AnswerClosesOrder == [][AnswerClosesOrderStep]_vars

(* order_done of a local order pays the device the fee in full; it loses   *)
(* exactly its penalty when the order is overdue and the client, after     *)
(* paying, still exists; otherwise it loses nothing.  (Of fees that are no *)
(* dust: the rest of a client's reserve is swept away below the deposit.)  *)
LessDust(amount) == IF amount < ExistentialDeposit THEN 0 ELSE amount

DoneSettlesStep ==
    \A d \in Device \ Client, onoff \in BOOLEAN :
        LET order == orders[d]
            penalty == device[d].penalty
            survives == Total(bal[order.client]) - order.fee >= ExistentialDeposit
            forfeit == IF now >= order.until /\ survives THEN penalty ELSE 0
        IN  /\ Done(d, onoff)
            /\ IsLocal(order)
            /\ order.client \notin Device
            /\ penalty >= ExistentialDeposit
            => /\ Total(bal'[d]) = LessDust(Total(bal[d]) + order.fee - forfeit)
               /\ Total(bal'[order.client]) =
                    LessDust(Total(bal[order.client]) - order.fee + forfeit)
               /\ now < order.until => bal'[d].reserved = bal[d].reserved - penalty
DoneSettles == [][DoneSettlesStep]_vars

(* The orders placed on this chain are kept as Escrow promises: no order   *)
(* of calls, settlement, spending and reaping moves more or less than an   *)
(* order's fee and its device's penalty, or lets a party spend them first. *)
E == INSTANCE Escrow WITH
        total <- [a \in Account |-> Total(bal[a])],
        contract <- [d \in Device |->
            IF orders[d] # None /\ IsLocal(orders[d])
            THEN [client |-> orders[d].client, fee |-> orders[d].fee,
                  until |-> orders[d].until, penalty |-> device[d].penalty]
            ELSE None]
ImplementsEscrow == E!Spec

(* "Note. we don't change device state" (cancel, l. 169): a client that    *)
(* withdraws its order switches no device off, here or on its own chain.   *)
CancelKeepsState ==
    [][\A who \in Client, d \in Device :
        Cancel(who, d) => /\ device'[d].state = device[d].state
                          /\ outbox' # outbox => outbox'[Len(outbox')].msg.onoff]_vars
===============================================================================
