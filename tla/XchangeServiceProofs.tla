-------------------------- MODULE XchangeServiceProofs --------------------------
(***************************************************************************)
(* Proofs about the service pallet: type correctness, then the device of   *)
(* an open order and the penalty that backs it; from these the action      *)
(* properties.                                                             *)
(***************************************************************************)
EXTENDS XchangeService, CurrencyProofs

-------------------------------------------------------------------------------
(* Facts about the helpers                                                 *)

(* The value for an absent key is no profile and no order.                 *)
LEMMA NoneIsAbsent == None \notin DeviceProfile /\ None \notin Order
<1>1. Penalties \subseteq Nat /\ Wcds \subseteq Nat
  BY AmountsAssumption, MomentAssumption
<1>2. \A p \in DeviceProfile : p \in [penalty : Nat, wcd : Nat, state : DeviceState]
  BY <1>1 DEF DeviceProfile
<1> QED
  BY <1>2, NoneAssumption

(* The hook forgets a device only when it is off.                          *)
LEMMA HookEffect ==
    ASSUME TypeOK, NEW old, NEW new
    PROVE  LET after == OnKilledAccount(old, new)
           IN  /\ after \in [Device -> DeviceProfile \cup {None}]
               /\ \A d \in Device :
                    device[d] # None /\ device[d].state # "Off" => after[d] = device[d]
BY DEF OnKilledAccount, TypeOK

(* A profile keeps its type and its terms when a handler sets the state.   *)
LEMMA SetStateType ==
    ASSUME NEW p \in DeviceProfile, NEW state \in DeviceState
    PROVE  /\ [p EXCEPT !.state = state] \in DeviceProfile
           /\ [p EXCEPT !.state = state].state = state
           /\ [p EXCEPT !.state = state].penalty = p.penalty
           /\ [p EXCEPT !.state = state].wcd = p.wcd
BY DEF DeviceProfile

LEMMA SwitchType == ASSUME NEW onoff PROVE Switch(onoff) \in DeviceState
BY DEF Switch, DeviceState

(* A queue that is sent to stays a queue of messages.                      *)
LEMMA SendType ==
    ASSUME NEW dest \in ParaId, NEW msg \in Message, outbox \in Seq(Outbound), Send(dest, msg)
    PROVE  outbox' \in Seq(Outbound)
<1>1. [dest |-> dest, msg |-> msg] \in Outbound
  BY DEF Outbound
<1> QED
  BY <1>1 DEF Send

(* The answers are messages.                                               *)
LEMMA AnswerType ==
    ASSUME NEW client \in Client, NEW d \in Device, NEW onoff \in BOOLEAN
    PROVE  /\ OrderAccept(client, d) \in Message
           /\ OrderReject(client, d, onoff) \in Message
           /\ OrderDone(client, d, onoff) \in Message
BY DEF OrderAccept, OrderReject, OrderDone, Message, Answers

(* What an order of the right type carries.                                *)
LEMMA OrderTypes ==
    ASSUME NEW order \in Order
    PROVE  /\ order.client \in Client /\ order.client \in Account
           /\ order.fee \in Nat
           /\ order.paraid \in ParaId
BY AccountsAssumption, AmountsAssumption DEF Order

LEMMA ProfileTypes ==
    ASSUME TypeOK, NEW d \in Device, device[d] # None
    PROVE  /\ d \in Account
           /\ device[d] \in DeviceProfile
           /\ device[d].penalty \in Nat
           /\ device[d].state \in DeviceState
BY AccountsAssumption, AmountsAssumption DEF TypeOK, DeviceProfile

(* The ledger a completed order_reject leaves: only the two parties'       *)
(* entries change.                                                         *)
LEMMA RejectLedger ==
    ASSUME TypeOK, NEW d \in Device, NEW order \in Order, device[d] # None,
           IsLocal(order)
    PROVE  /\ FeeReleased(order) \in Ledger /\ Reaped(FeeReleased(order))
           /\ \A e \in Account \ {order.client} : FeeReleased(order)[e] = bal[e]
           /\ ~RejectFails(order, d) =>
                /\ LedgerAfterReject(order, d) \in Ledger
                /\ Reaped(LedgerAfterReject(order, d))
                /\ \A e \in Account \ {order.client, d} :
                        LedgerAfterReject(order, d)[e] = bal[e]
<1> DEFINE penalty == device[d].penalty
           who == order.client
           released == Unreserve(bal, who, order.fee)
<1>1. who \in Account /\ d \in Account /\ order.fee \in Nat /\ penalty \in Nat
  BY OrderTypes, ProfileTypes
<1>2. bal \in Ledger /\ Reaped(bal)
  BY DEF TypeOK
<1>3. /\ released \in Ledger /\ Reaped(released)
      /\ \A e \in Account \ {who} : released[e] = bal[e]
  BY <1>1, <1>2, UnreserveEffect
<1>4. released = FeeReleased(order)
  BY DEF FeeReleased
<1> HIDE DEF penalty, who, released
<1>5. ASSUME ~RejectFails(order, d)
      PROVE  /\ LedgerAfterReject(order, d) \in Ledger
             /\ Reaped(LedgerAfterReject(order, d))
             /\ \A e \in Account \ {who, d} : LedgerAfterReject(order, d)[e] = bal[e]
  <2>1. CASE now < order.until
    <3>1. LedgerAfterReject(order, d) = Unreserve(released, d, penalty)
      BY <1>4, <2>1 DEF LedgerAfterReject, penalty
    <3>2. /\ Unreserve(released, d, penalty) \in Ledger
          /\ Reaped(Unreserve(released, d, penalty))
          /\ \A e \in Account \ {d} : Unreserve(released, d, penalty)[e] = released[e]
      BY <1>1, <1>3, UnreserveEffect
    <3> QED
      BY <1>3, <3>1, <3>2
  <2>2. CASE ~(now < order.until)
    <3>1. now >= order.until
      BY <2>2, MomentAssumption DEF TypeOK, Moment, Order
    <3>2. /\ LedgerAfterReject(order, d) = Repatriate(released, d, who, penalty)
          /\ ~RepatriateFails(released, d, who, penalty)
      BY <1>4, <1>5, <2>2, <3>1 DEF LedgerAfterReject, RejectFails, penalty, who
    <3>3. ASSUME NEW e \in Account \ {who, d}
          PROVE  Repatriate(released, d, who, penalty)[e] = released[e]
      BY <1>1, <1>3, <3>2, Untouched
    <3> QED
      BY <1>1, <1>3, <3>2, <3>3, RepatriateType
  <2> QED
    BY <2>1, <2>2
<1> QED
  BY <1>3, <1>4, <1>5 DEF who

(* The ledger order_done leaves, however far it gets.                      *)
LEMMA DoneLedger ==
    ASSUME TypeOK, NEW d \in Device, NEW order \in Order, device[d] # None
    PROVE  /\ LedgerAfterDone(order, d) \in Ledger
           /\ Reaped(LedgerAfterDone(order, d))
           /\ \A e \in Account \ {order.client, d} : LedgerAfterDone(order, d)[e] = bal[e]
<1> DEFINE penalty == device[d].penalty
           who == order.client
           paid == Repatriate(bal, who, d, order.fee)
           payable == ~RepatriateFails(bal, who, d, order.fee)
           new == LedgerAfterDone(order, d)
<1>1. who \in Account /\ d \in Account /\ order.fee \in Nat /\ penalty \in Nat
  BY OrderTypes, ProfileTypes
<1>2. bal \in Ledger /\ Reaped(bal)
  BY DEF TypeOK
<1>3. payable => /\ paid \in Ledger /\ Reaped(paid)
                 /\ \A e \in Account \ {who, d} : paid[e] = bal[e]
  <2> SUFFICES ASSUME payable
               PROVE  /\ paid \in Ledger /\ Reaped(paid)
                      /\ \A e \in Account \ {who, d} : paid[e] = bal[e]
    OBVIOUS
  <2>1. ASSUME NEW e \in Account \ {who, d} PROVE paid[e] = bal[e]
    BY <1>1, <1>2, Untouched
  <2> QED
    BY <1>1, <1>2, <2>1, RepatriateType
<1>4. now \in Nat /\ order.until \in Nat
  BY MomentAssumption DEF TypeOK, Moment, Order
<1>5. /\ ~payable => new = bal
      /\ payable /\ now < order.until => new = Unreserve(paid, d, penalty)
      /\ payable /\ ~(now < order.until) =>
            new = IF RepatriateFails(paid, d, who, penalty)
                  THEN paid ELSE Repatriate(paid, d, who, penalty)
  BY <1>4 DEF LedgerAfterDone
<1> HIDE DEF penalty, who, paid, payable, new
<1>6. CASE ~payable
  BY <1>2, <1>5, <1>6 DEF new, who
<1>7. CASE payable /\ now < order.until
  <2>1. new = Unreserve(paid, d, penalty) /\ paid \in Ledger /\ Reaped(paid)
    BY <1>3, <1>5, <1>7
  <2>2. /\ new \in Ledger /\ Reaped(new)
        /\ \A e \in Account \ {d} : new[e] = paid[e]
    BY <1>1, <2>1, UnreserveEffect
  <2> QED
    BY <1>3, <1>7, <2>2 DEF new, who
<1>8. CASE payable /\ ~(now < order.until)
  <2>1. CASE RepatriateFails(paid, d, who, penalty)
    BY <1>3, <1>5, <1>8, <2>1 DEF new, who
  <2>2. CASE ~RepatriateFails(paid, d, who, penalty)
    <3>1. new = Repatriate(paid, d, who, penalty) /\ paid \in Ledger /\ Reaped(paid)
      BY <1>3, <1>5, <1>8, <2>2
    <3>2. ASSUME NEW e \in Account \ {d, who} PROVE new[e] = paid[e]
      BY <1>1, <2>2, <3>1, Untouched
    <3>3. new \in Ledger /\ Reaped(new)
      BY <1>1, <2>2, <3>1, RepatriateType
    <3> QED
      BY <1>3, <1>8, <3>2, <3>3 DEF new, who
  <2> QED
    BY <2>1, <2>2
<1> QED
  BY <1>6, <1>7, <1>8

-------------------------------------------------------------------------------
(* Type correctness                                                        *)

(* What a new order at the head of the batch carries.                      *)
LEMMA HeadTypes ==
    ASSUME TypeOK, batch # <<>>
    PROVE  /\ Tail(batch) \in Seq(Incoming)
           /\ Head(batch).sender \in ParaId /\ Head(batch).sender # SelfParaId
           /\ Head(batch).msg.type = "NewOrder" =>
                /\ Head(batch).msg.client \in Client
                /\ Head(batch).msg.order \in OrderBase
<1>1. batch \in Seq(Incoming) /\ Head(batch) \in Incoming /\ Tail(batch) \in Seq(Incoming)
  BY DEF TypeOK
<1>2. /\ Head(batch).msg \in Message
      /\ Head(batch).sender \in ParaId /\ Head(batch).sender # SelfParaId
  BY <1>1, ServiceAssumption DEF Inbound
<1>3. ASSUME NEW m \in Message, m.type = "NewOrder"
      PROVE  m.client \in Client /\ m.order \in OrderBase
  BY <1>3 DEF Message, NewOrders, Answers, Garbage
<1> QED
  BY <1>1, <1>2, <1>3

(* order_accept writes one state and may send one answer.                  *)
LEMMA AcceptEffect ==
    ASSUME TypeOK, NEW order \in Order, NEW d \in Device, device[d] # None,
           AcceptOrder(order, d)
    PROVE  /\ device' = [device EXCEPT ![d] = [device[d] EXCEPT !.state = "Accepted"]]
           /\ device' \in [Device -> DeviceProfile \cup {None}]
           /\ outbox' \in Seq(Outbound)
<1>1. device' = [device EXCEPT ![d] = [device[d] EXCEPT !.state = "Accepted"]]
  BY DEF AcceptOrder
<1>2. [device[d] EXCEPT !.state = "Accepted"] \in DeviceProfile
  BY ProfileTypes, SetStateType DEF DeviceState
<1>3. outbox' \in Seq(Outbound)
  <2>1. CASE IsLocal(order)
    BY <2>1 DEF AcceptOrder, TypeOK
  <2>2. CASE ~IsLocal(order)
    <3>1. OrderAccept(order.client, d) \in Message
      BY OrderTypes, AnswerType
    <3> QED
      BY <2>2, <3>1, OrderTypes, SendType DEF AcceptOrder, TypeOK
  <2> QED
    BY <2>1, <2>2
<1> QED
  BY <1>1, <1>2, <1>3 DEF TypeOK

(* order_received stores the order and a busy device.                      *)
LEMMA TakeEffect ==
    ASSUME TypeOK, NEW order \in Order, NEW d \in Device, NEW state \in OnReceived,
           state # None, device[d] # None, TakeOrder(order, d, state)
    PROVE  /\ orders' = [orders EXCEPT ![d] = order]
           /\ orders' \in [Device -> Order \cup {None}]
           /\ device' = [device EXCEPT ![d] = [device[d] EXCEPT !.state = state]]
           /\ device' \in [Device -> DeviceProfile \cup {None}]
           /\ outbox' \in Seq(Outbound)
           /\ state \in {"Busy", "Accepted"}
<1>1. state \in {"Busy", "Accepted"} /\ state \in DeviceState
  BY ServiceAssumption DEF DeviceState
<1>2. orders' = [orders EXCEPT ![d] = order]
  BY DEF TakeOrder
<1>3. CASE state = "Accepted"
  BY <1>1, <1>2, <1>3, AcceptEffect DEF TakeOrder, TypeOK
<1>4. CASE state # "Accepted"
  <2>1. /\ device' = [device EXCEPT ![d] = [device[d] EXCEPT !.state = state]]
        /\ outbox' = outbox
    BY <1>4 DEF TakeOrder
  <2>2. [device[d] EXCEPT !.state = state] \in DeviceProfile
    BY <1>1, ProfileTypes, SetStateType
  <2> QED
    BY <1>1, <1>2, <2>1, <2>2 DEF TypeOK
<1> QED
  BY <1>3, <1>4

(* order_reject keeps the types.                                           *)
LEMMA RejectType ==
    ASSUME TypeOK, NEW d \in Device, NEW state \in DeviceState, NEW onoff \in BOOLEAN,
           orders[d] # None, device[d] # None, RejectOrder(orders[d], d, state, onoff)
    PROVE  /\ bal' \in Ledger /\ Reaped(bal')
           /\ device' \in [Device -> DeviceProfile \cup {None}]
           /\ orders' \in [Device -> Order \cup {None}]
           /\ outbox' \in Seq(Outbound)
<1> DEFINE order == orders[d]
<1>1. order \in Order
  BY DEF TypeOK
<1>2. CASE RejectFails(order, d)
  <2>1. IsLocal(order)
    BY <1>2 DEF RejectFails
  <2>2. bal' = FeeReleased(order) /\ UNCHANGED <<device, orders, outbox>>
    BY <1>2 DEF RejectOrder
  <2> QED
    BY <1>1, <2>1, <2>2, RejectLedger DEF TypeOK
<1>3. CASE ~RejectFails(order, d)
  <2>1. /\ orders' = [orders EXCEPT ![d] = None]
        /\ device' = [OnKilledAccount(bal, bal') EXCEPT
                        ![d] = [device[d] EXCEPT !.state = state]]
    BY <1>3 DEF RejectOrder, RemoveOrder
  <2>2. bal' \in Ledger /\ Reaped(bal') /\ outbox' \in Seq(Outbound)
    <3>1. CASE IsLocal(order)
      <4>1. bal' = LedgerAfterReject(order, d) /\ outbox' = outbox
        BY <1>3, <3>1 DEF RejectOrder
      <4> QED
        BY <1>1, <1>3, <3>1, <4>1, RejectLedger DEF TypeOK
    <3>2. CASE ~IsLocal(order)
      <4>1. bal' = bal /\ Send(order.paraid, OrderReject(order.client, d, onoff))
        BY <1>3, <3>2 DEF RejectOrder
      <4>2. OrderReject(order.client, d, onoff) \in Message /\ order.paraid \in ParaId
        BY <1>1, OrderTypes, AnswerType
      <4> QED
        BY <4>1, <4>2, SendType DEF TypeOK
    <3> QED
      BY <3>1, <3>2
  <2>3. OnKilledAccount(bal, bal') \in [Device -> DeviceProfile \cup {None}]
    BY HookEffect
  <2>4. [device[d] EXCEPT !.state = state] \in DeviceProfile
    BY ProfileTypes, SetStateType
  <2> QED
    BY <2>1, <2>2, <2>3, <2>4 DEF TypeOK
<1> QED
  BY <1>2, <1>3

(* done keeps the types.                                                   *)
LEMMA DoneType ==
    ASSUME TypeOK, NEW d \in Device, NEW onoff \in BOOLEAN, Done(d, onoff)
    PROVE  TypeOK'
<1> DEFINE order == orders[d]
<1>1. /\ device[d] # None /\ order # None /\ order \in Order
      /\ now' = now /\ batch' = batch
      /\ orders' = [orders EXCEPT ![d] = None]
  BY DEF Done, RemoveOrder, TypeOK
<1>2. bal' \in Ledger /\ Reaped(bal') /\ outbox' \in Seq(Outbound)
  <2>1. CASE IsLocal(order)
    <3>1. bal' = LedgerAfterDone(order, d) /\ outbox' = outbox
      BY <2>1 DEF Done
    <3> QED
      BY <1>1, <3>1, DoneLedger DEF TypeOK
  <2>2. CASE ~IsLocal(order)
    <3>1. bal' = bal /\ Send(order.paraid, OrderDone(order.client, d, onoff))
      BY <2>2 DEF Done
    <3>2. OrderDone(order.client, d, onoff) \in Message /\ order.paraid \in ParaId
      BY <1>1, OrderTypes, AnswerType
    <3> QED
      BY <3>1, <3>2, SendType DEF TypeOK
  <2> QED
    BY <2>1, <2>2
<1>3. device' \in [Device -> DeviceProfile \cup {None}]
  <2>1. [device[d] EXCEPT !.state = Switch(onoff)] \in DeviceProfile
    BY <1>1, ProfileTypes, SetStateType, SwitchType
  <2>2. OnKilledAccount(bal, bal') \in [Device -> DeviceProfile \cup {None}]
    BY HookEffect
  <2> QED
    BY <2>1, <2>2 DEF Done
<1> QED
  BY <1>1, <1>2, <1>3 DEF TypeOK

(* The order a local client places is well typed, and so is what it        *)
(* leaves, stored or not.                                                  *)
LEMMA PlaceType ==
    ASSUME TypeOK, NEW who \in Client, NEW d \in Device, NEW fee \in Fees,
           NEW until \in Moment, NEW state \in OnReceived,
           PlaceOrder(who, d, fee, until, state)
    PROVE  TypeOK'
<1> DEFINE penalty == device[d].penalty
           backed == Reserve(bal, d, penalty)
           order == [client |-> who, fee |-> fee, until |-> until, paraid |-> SelfParaId]
<1>1. /\ device[d] # None /\ d \in Account /\ penalty \in Nat
      /\ who \in Account /\ fee \in Nat /\ state # None
      /\ CanReserve(bal, d, penalty)
      /\ now' = now /\ batch' = batch
  BY ProfileTypes, AccountsAssumption, AmountsAssumption DEF PlaceOrder, Admissible
<1>2. backed \in Ledger /\ Reaped(backed)
  BY <1>1, ReserveEffect DEF TypeOK
<1>3. order \in Order
  BY ServiceAssumption DEF Order
<1>4. CASE CanReserve(backed, who, fee)
  <2>1. bal' = Reserve(backed, who, fee) /\ TakeOrder(order, d, state)
    BY <1>4 DEF PlaceOrder
  <2>2. bal' \in Ledger /\ Reaped(bal')
    BY <1>1, <1>2, <1>4, <2>1, ReserveEffect
  <2>3. /\ orders' \in [Device -> Order \cup {None}]
        /\ device' \in [Device -> DeviceProfile \cup {None}]
        /\ outbox' \in Seq(Outbound)
    BY <1>1, <1>3, <2>1, TakeEffect
  <2> QED
    BY <1>1, <2>2, <2>3 DEF TypeOK
<1>5. CASE ~CanReserve(backed, who, fee)
  <2>1. bal' = backed /\ UNCHANGED <<device, orders, outbox>>
    BY <1>5 DEF PlaceOrder
  <2> QED
    BY <1>1, <1>2, <2>1 DEF TypeOK
<1> QED
  BY <1>4, <1>5

LEMMA TypeInit == Init => TypeOK
<1> SUFFICES ASSUME Init PROVE TypeOK
  OBVIOUS
<1>1. bal \in Ledger /\ Reaped(bal)
  BY ServiceAssumption, DepositAssumption DEF Init, Ledger, Balance, Reaped, IsAlive, Total
<1>2. now \in Moment
  BY MomentAssumption DEF Init, Moment
<1> QED
  BY <1>1, <1>2 DEF Init, TypeOK

LEMMA TypeStep == TypeOK /\ [Next]_vars => TypeOK'
<1> SUFFICES ASSUME TypeOK, [Next]_vars PROVE TypeOK'
  OBVIOUS
<1>1. ASSUME NEW who \in Client, NEW d \in Device, NEW fee \in Fees, NEW until \in Moment,
             NEW state \in OnReceived, PlaceOrder(who, d, fee, until, state)
      PROVE  TypeOK'
  BY <1>1, PlaceType
<1>2. ASSUME NEW who \in Client, NEW d \in Device, Cancel(who, d)
      PROVE  TypeOK'
  <2>1. /\ orders[d] # None /\ device[d] # None /\ now' = now /\ batch' = batch
        /\ RejectOrder(orders[d], d, device[d].state, FALSE)
    BY <1>2 DEF Cancel
  <2>2. device[d].state \in DeviceState
    BY <2>1, ProfileTypes
  <2> QED
    BY <2>1, <2>2, RejectType DEF TypeOK
<1>3. ASSUME NEW d \in Device, Accept(d)
      PROVE  TypeOK'
  <2>1. /\ orders[d] \in Order /\ device[d] # None
        /\ UNCHANGED <<now, bal, orders, batch>>
        /\ AcceptOrder(orders[d], d)
    BY <1>3 DEF Accept, TypeOK
  <2> QED
    BY <2>1, AcceptEffect DEF TypeOK
<1>4. ASSUME NEW d \in Device, NEW onoff \in BOOLEAN, Reject(d, onoff)
      PROVE  TypeOK'
  <2>1. device[d] # None /\ now' = now /\ batch' = batch /\ Switch(onoff) \in DeviceState
    BY <1>4, SwitchType DEF Reject
  <2>2. CASE orders[d] # None
    <3>1. RejectOrder(orders[d], d, Switch(onoff), onoff)
      BY <1>4, <2>2 DEF Reject
    <3> QED
      BY <2>1, <2>2, <3>1, RejectType DEF TypeOK
  <2>3. CASE orders[d] = None
    <3>1. /\ device' = [device EXCEPT ![d] = [device[d] EXCEPT !.state = Switch(onoff)]]
          /\ UNCHANGED <<bal, orders, outbox>>
      BY <1>4, <2>3 DEF Reject
    <3>2. [device[d] EXCEPT !.state = Switch(onoff)] \in DeviceProfile
      BY <2>1, ProfileTypes, SetStateType
    <3> QED
      BY <2>1, <3>1, <3>2 DEF TypeOK
  <2> QED
    BY <2>2, <2>3
<1>5. ASSUME NEW d \in Device, NEW onoff \in BOOLEAN, Done(d, onoff)
      PROVE  TypeOK'
  BY <1>5, DoneType
<1>6. ASSUME NEW d \in Device, NEW penalty \in Penalties, NEW wcd \in Wcds,
             NEW onoff \in BOOLEAN, Register(d, penalty, wcd, onoff)
      PROVE  TypeOK'
  <2>1. [penalty |-> penalty, wcd |-> wcd, state |-> Switch(onoff)] \in DeviceProfile
    BY SwitchType DEF DeviceProfile
  <2> QED
    BY <1>6, <2>1 DEF Register, TypeOK
<1>7. ASSUME NEW d \in Device, NEW onoff \in BOOLEAN, SetState(d, onoff)
      PROVE  TypeOK'
  <2>1. [device[d] EXCEPT !.state = Switch(onoff)] \in DeviceProfile
    BY <1>7, ProfileTypes, SetStateType, SwitchType DEF SetState
  <2> QED
    BY <1>7, <2>1 DEF SetState, TypeOK
<1>8. ASSUME NEW from \in Account, NEW to \in Account, NEW amount, Spend(from, to, amount)
      PROVE  TypeOK'
  <2>1. bal' \in Ledger /\ Reaped(bal')
    BY <1>8, TransferEffect DEF Spend, TypeOK
  <2>2. device' \in [Device -> DeviceProfile \cup {None}]
    BY <1>8, HookEffect DEF Spend
  <2> QED
    BY <1>8, <2>1, <2>2 DEF Spend, TypeOK
<1>9. ASSUME NEW state \in OnReceived, ReceiveOrder(state)
      PROVE  TypeOK'
  <2> DEFINE msg == Head(batch).msg
             d == msg.order.device
             order == [client |-> msg.client, fee |-> msg.order.fee,
                       until |-> msg.order.until, paraid |-> Head(batch).sender]
  <2>1. /\ msg.client \in Client /\ msg.order \in OrderBase /\ Head(batch).sender \in ParaId
        /\ batch' \in Seq(Incoming) /\ now' = now /\ bal' = bal
    BY <1>9, HeadTypes DEF ReceiveOrder
  <2>2. order \in Order /\ d \in Device
    BY <2>1 DEF Order, OrderBase
  <2>3. device[d] # None /\ state # None /\ TakeOrder(order, d, state)
    BY <1>9 DEF ReceiveOrder, Admissible
  <2> HIDE DEF order, d
  <2>4. /\ orders' \in [Device -> Order \cup {None}]
        /\ device' \in [Device -> DeviceProfile \cup {None}]
        /\ outbox' \in Seq(Outbound)
    BY <2>2, <2>3, TakeEffect
  <2> QED
    BY <2>1, <2>4 DEF TypeOK
<1>10. ASSUME DropOrder \/ AbortBatch PROVE TypeOK'
  <2>1. batch' \in Seq(Incoming)
    <3>1. CASE DropOrder
      BY <3>1, HeadTypes DEF DropOrder
    <3>2. CASE AbortBatch
      BY <3>2 DEF AbortBatch
    <3> QED
      BY <1>10, <3>1, <3>2
  <2>2. UNCHANGED <<now, bal, device, orders, outbox>>
    BY <1>10 DEF DropOrder, AbortBatch
  <2> QED
    BY <2>1, <2>2 DEF TypeOK
<1>11. ASSUME Tick \/ Carry PROVE TypeOK'
  <2>1. now' \in Moment
    BY <1>11, MomentAssumption DEF Tick, Carry, TypeOK, Moment
  <2>2. outbox' \in Seq(Outbound)
    <3>1. CASE Tick
      BY <3>1 DEF Tick, TypeOK
    <3>2. CASE Carry
      BY <3>2 DEF Carry, TypeOK
    <3> QED
      BY <1>11, <3>1, <3>2
  <2>3. UNCHANGED <<bal, device, orders, batch>>
    BY <1>11 DEF Tick, Carry
  <2> QED
    BY <2>1, <2>2, <2>3 DEF TypeOK
<1>12. ASSUME NEW n \in 1 .. MaxBatch, NEW blobs \in [1 .. n -> Incoming], BeginBatch(blobs)
       PROVE  TypeOK'
  <2>1. n \in Nat
    BY ServiceAssumption
  <2>2. blobs \in Seq(Incoming)
    BY <2>1
  <2> QED
    BY <1>12, <2>2 DEF BeginBatch, TypeOK
<1>13. ASSUME UNCHANGED vars PROVE TypeOK'
  BY <1>13 DEF vars, TypeOK
<1> QED
  BY <1>1, <1>2, <1>3, <1>4, <1>5, <1>6, <1>7, <1>8, <1>9, <1>10, <1>11, <1>12, <1>13
     DEF Next, Handle, Dispatch, Environment

(* The service pallet never leaves its storage, its queues or an account   *)
(* in a form their types or the existential deposit do not allow, whatever *)
(* other parachains send.                                                  *)
THEOREM TypeCorrect == Spec => []TypeOK
BY TypeInit, TypeStep, PTL DEF Spec

-------------------------------------------------------------------------------
(* The device of an open order, and the penalty that backs it              *)

Registered == TypeOK /\ OrderHasDevice

(* The profile of a device whose order stays open keeps its terms and a    *)
(* state in which no other order is taken.                                 *)
Kept(e) ==
    /\ device'[e] # None
    /\ device'[e].state \in {"Busy", "Accepted"}
    /\ device'[e].penalty = device[e].penalty
    /\ device'[e].wcd = device[e].wcd

(* A step that opens no order keeps the devices of the orders it leaves    *)
(* open, and their reserves unless they are below the existential deposit. *)
OpensNothing ==
    \A e \in Device :
        /\ orders'[e] \in {orders[e], None}
        /\ orders'[e] # None => Kept(e)
        /\ orders'[e] # None /\ e \notin Client /\ bal[e].reserved >= ExistentialDeposit =>
                bal'[e].reserved = bal[e].reserved

(* A device with an order is not off, so the hook never forgets it.        *)
LEMMA KeptAsIs ==
    ASSUME Registered, NEW e \in Device, orders[e] # None, NEW new,
           device'[e] = device[e] \/ device'[e] = OnKilledAccount(bal, new)[e]
    PROVE  Kept(e)
<1>1. device[e] # None /\ device[e].state \in {"Busy", "Accepted"}
  BY DEF Registered, OrderHasDevice
<1> QED
  BY <1>1, HookEffect DEF Registered, Kept

(* A step that closes the order of one device, and moves money between its *)
(* client and that device only.                                            *)
LEMMA ClosingEffect ==
    ASSUME Registered, NEW d \in Device, NEW client \in Client,
           orders' = [orders EXCEPT ![d] = None],
           \A e \in Device : e # d => device'[e] = OnKilledAccount(bal, bal')[e],
           \A e \in Account \ {client, d} : bal'[e] = bal[e]
    PROVE  OpensNothing
<1> SUFFICES ASSUME NEW e \in Device
             PROVE  /\ orders'[e] \in {orders[e], None}
                    /\ orders'[e] # None => Kept(e)
                    /\ orders'[e] # None /\ e \notin Client => bal'[e] = bal[e]
  BY DEF OpensNothing
<1>1. orders'[e] = IF e = d THEN None ELSE orders[e]
  BY DEF Registered, TypeOK
<1>2. orders'[e] # None => Kept(e)
  BY <1>1, KeptAsIs DEF Registered
<1>3. orders'[e] # None /\ e \notin Client => bal'[e] = bal[e]
  BY <1>1, AccountsAssumption
<1> QED
  BY <1>1, <1>2, <1>3

LEMMA NothingTouched ==
    ASSUME Registered, UNCHANGED <<bal, device, orders>>
    PROVE  OpensNothing
BY KeptAsIs DEF Registered, OpensNothing

(* order_reject, completed or not, opens nothing.                          *)
LEMMA RejectEffect ==
    ASSUME Registered, NEW d \in Device, NEW state \in DeviceState, NEW onoff \in BOOLEAN,
           orders[d] # None, device[d] # None, RejectOrder(orders[d], d, state, onoff)
    PROVE  OpensNothing
<1> DEFINE order == orders[d]
<1>1. order \in Order /\ order.client \in Client /\ TypeOK
  BY OrderTypes DEF Registered, TypeOK
<1>2. CASE RejectFails(order, d)
  <2>1. /\ \A e \in Account \ {order.client} : bal'[e] = bal[e]
        /\ UNCHANGED <<device, orders>>
    BY <1>1, <1>2, RejectLedger DEF RejectOrder, RejectFails
  <2> QED
    BY <1>1, <2>1, KeptAsIs, AccountsAssumption DEF Registered, OpensNothing
<1>3. CASE ~RejectFails(order, d)
  <2>1. /\ orders' = [orders EXCEPT ![d] = None]
        /\ device' = [OnKilledAccount(bal, bal') EXCEPT
                        ![d] = [device[d] EXCEPT !.state = state]]
        /\ bal' = IF IsLocal(order) THEN LedgerAfterReject(order, d) ELSE bal
    BY <1>3 DEF RejectOrder, RemoveOrder
  <2>2. \A e \in Account \ {order.client, d} : bal'[e] = bal[e]
    BY <1>1, <1>3, <2>1, RejectLedger
  <2>3. \A e \in Device : e # d => device'[e] = OnKilledAccount(bal, bal')[e]
    BY <2>1 DEF OnKilledAccount
  <2> QED
    BY <1>1, <2>1, <2>2, <2>3, ClosingEffect
<1> QED
  BY <1>2, <1>3

(* done opens nothing.                                                     *)
LEMMA DoneEffect ==
    ASSUME Registered, NEW d \in Device, NEW onoff \in BOOLEAN, Done(d, onoff)
    PROVE  OpensNothing
<1> DEFINE order == orders[d]
<1>1. order \in Order /\ order.client \in Client /\ device[d] # None /\ TypeOK
  BY OrderTypes DEF Done, Registered, TypeOK
<1>2. orders' = [orders EXCEPT ![d] = None]
  BY DEF Done, RemoveOrder
<1>3. \A e \in Device : e # d => device'[e] = OnKilledAccount(bal, bal')[e]
  BY DEF Done, OnKilledAccount
<1>4. bal' = IF IsLocal(order) THEN LedgerAfterDone(order, d) ELSE bal
  BY DEF Done
<1>5. \A e \in Account \ {order.client, d} : bal'[e] = bal[e]
  BY <1>1, <1>4, DoneLedger
<1> QED
  BY <1>1, <1>2, <1>3, <1>5, ClosingEffect

(* The steps that may open an order                                        *)
Opening ==
    \/ \E who \in Client, d \in Device, fee \in Fees, until \in Moment, state \in OnReceived :
            PlaceOrder(who, d, fee, until, state)
    \/ \E state \in OnReceived : ReceiveOrder(state)

(* Every other step opens nothing.                                         *)
LEMMA OtherSteps ==
    ASSUME Registered, [Next]_vars, ~Opening
    PROVE  OpensNothing
<1>1. ASSUME NEW who \in Client, NEW d \in Device, Cancel(who, d)
      PROVE  OpensNothing
  <2>1. /\ orders[d] # None /\ device[d] # None
        /\ RejectOrder(orders[d], d, device[d].state, FALSE)
    BY <1>1 DEF Cancel
  <2>2. device[d].state \in DeviceState
    BY <2>1, ProfileTypes DEF Registered
  <2> QED
    BY <2>1, <2>2, RejectEffect
<1>2. ASSUME NEW d \in Device, UNCHANGED <<bal, orders>>,
             \A e \in Device \ {d} : device'[e] = device[e],
             orders[d] # None => Kept(d)
      PROVE  OpensNothing
  BY <1>2, KeptAsIs DEF Registered, OpensNothing
<1>3. ASSUME NEW d \in Device, Accept(d)
      PROVE  OpensNothing
  <2>1. /\ orders[d] \in Order /\ device[d] # None /\ UNCHANGED <<bal, orders>>
        /\ AcceptOrder(orders[d], d)
    BY <1>3 DEF Accept, Registered, TypeOK
  <2>2. device' = [device EXCEPT ![d] = [device[d] EXCEPT !.state = "Accepted"]]
    BY <2>1, AcceptEffect DEF Registered
  <2>3. device[d] \in DeviceProfile /\ "Accepted" \in DeviceState
    BY <2>1, ProfileTypes DEF Registered, DeviceState
  <2>4. /\ device'[d] = [device[d] EXCEPT !.state = "Accepted"]
        /\ \A e \in Device \ {d} : device'[e] = device[e]
    BY <2>2 DEF Registered, TypeOK
  <2>5. Kept(d)
    BY <2>3, <2>4, SetStateType, NoneIsAbsent DEF Kept
  <2> QED
    BY <1>2, <2>1, <2>4, <2>5
<1>4. ASSUME NEW d \in Device, NEW onoff \in BOOLEAN, Reject(d, onoff)
      PROVE  OpensNothing
  <2>1. device[d] # None /\ Switch(onoff) \in DeviceState
    BY <1>4, SwitchType DEF Reject
  <2>2. CASE orders[d] # None
    BY <1>4, <2>1, <2>2, RejectEffect DEF Reject
  <2>3. CASE orders[d] = None
    BY <1>2, <1>4, <2>3 DEF Reject, Registered, TypeOK
  <2> QED
    BY <2>2, <2>3
<1>5. ASSUME NEW d \in Device, NEW penalty \in Penalties, NEW wcd \in Wcds,
             NEW onoff \in BOOLEAN, Register(d, penalty, wcd, onoff)
      PROVE  OpensNothing
  BY <1>2, <1>5 DEF Register, Registered, TypeOK
<1>6. ASSUME NEW d \in Device, NEW onoff \in BOOLEAN, SetState(d, onoff)
      PROVE  OpensNothing
  <2>1. orders[d] = None
    BY <1>6 DEF SetState, Registered, OrderHasDevice
  <2> QED
    BY <1>2, <1>6, <2>1 DEF SetState, Registered, TypeOK
<1>7. ASSUME NEW from \in Account, NEW to \in Account, NEW amount, Spend(from, to, amount)
      PROVE  OpensNothing
  <2>1. orders' = orders /\ device' = OnKilledAccount(bal, bal')
    BY <1>7 DEF Spend
  <2>2. \A a \in Account : bal[a].reserved >= ExistentialDeposit =>
                                bal'[a].reserved = bal[a].reserved
    BY <1>7, TransferEffect DEF Spend, Registered, TypeOK
  <2>3. \A e \in Device : orders[e] # None => Kept(e)
    BY <2>1, KeptAsIs DEF Registered
  <2> QED
    BY <2>1, <2>2, <2>3, AccountsAssumption DEF OpensNothing
<1>8. ASSUME DropOrder \/ AbortBatch \/ Tick \/ Carry \/ UNCHANGED vars
             \/ \E blobs : BeginBatch(blobs)
      PROVE  OpensNothing
  BY <1>8, NothingTouched DEF DropOrder, AbortBatch, Tick, Carry, BeginBatch, vars
<1> QED
  BY <1>1, <1>3, <1>4, <1>5, <1>6, <1>7, <1>8, DoneEffect
     DEF Next, Handle, Dispatch, Environment, Opening

(* An order that is stored finds its device ready and leaves it busy.      *)
LEMMA TakeKeepsDevices ==
    ASSUME Registered, NEW order \in Order, NEW d \in Device, NEW state \in OnReceived,
           state # None, device[d] # None, TakeOrder(order, d, state)
    PROVE  /\ OrderHasDevice'
           /\ orders'[d] = order
           /\ device'[d].penalty = device[d].penalty
           /\ \A e \in Device \ {d} : orders'[e] = orders[e] /\ device'[e] = device[e]
<1>1. /\ orders' = [orders EXCEPT ![d] = order]
      /\ device' = [device EXCEPT ![d] = [device[d] EXCEPT !.state = state]]
      /\ state \in {"Busy", "Accepted"}
  BY TakeEffect DEF Registered
<1>2. /\ orders'[d] = order
      /\ device'[d] = [device[d] EXCEPT !.state = state]
      /\ \A e \in Device \ {d} : orders'[e] = orders[e] /\ device'[e] = device[e]
  BY <1>1 DEF Registered, TypeOK
<1>3. device[d] \in DeviceProfile /\ state \in DeviceState
  BY <1>1, ProfileTypes DEF Registered, DeviceState
<1>4. device'[d] # None /\ device'[d].state = state /\ device'[d].penalty = device[d].penalty
  BY <1>2, <1>3, SetStateType, NoneIsAbsent
<1>5. OrderHasDevice'
  BY <1>1, <1>2, <1>4 DEF Registered, OrderHasDevice
<1> QED
  BY <1>2, <1>4, <1>5

(* What `order` does: the device's penalty is set aside, then the client's *)
(* fee, then the order is taken; only a client that is the device itself   *)
(* can stop it in between.                                                 *)
LEMMA PlaceEffect ==
    ASSUME Registered, NEW who \in Client, NEW d \in Device, NEW fee \in Fees,
           NEW until \in Moment, NEW state \in OnReceived,
           PlaceOrder(who, d, fee, until, state)
    PROVE  LET penalty == device[d].penalty
               backed == Reserve(bal, d, penalty)
               order == [client |-> who, fee |-> fee, until |-> until, paraid |-> SelfParaId]
           IN  /\ d \in Account /\ who \in Account /\ penalty \in Nat /\ fee \in Nat
               /\ orders[d] = None
               /\ CanReserve(bal, d, penalty)
               /\ backed \in Ledger /\ Reaped(backed)
               /\ backed[d].reserved = bal[d].reserved + penalty
               /\ backed[d].free = bal[d].free - penalty
               /\ \A a \in Account \ {d} : backed[a] = bal[a]
               /\ order \in Order
               /\ \/ /\ CanReserve(backed, who, fee)
                     /\ bal' = Reserve(backed, who, fee)
                     /\ \A a \in Account \ {who} : bal'[a] = backed[a]
                     /\ bal'[who].reserved = backed[who].reserved + fee
                     /\ bal'[who].free = backed[who].free - fee
                     /\ OrderHasDevice'
                     /\ orders'[d] = order
                     /\ device'[d].penalty = penalty
                     /\ \A e \in Device \ {d} : orders'[e] = orders[e] /\ device'[e] = device[e]
                  \/ /\ who = d
                     /\ bal' = backed
                     /\ UNCHANGED <<device, orders>>
<1> DEFINE penalty == device[d].penalty
           backed == Reserve(bal, d, penalty)
           order == [client |-> who, fee |-> fee, until |-> until, paraid |-> SelfParaId]
<1>1. /\ device[d] # None /\ d \in Account /\ penalty \in Nat
      /\ who \in Account /\ fee \in Nat /\ state # None
      /\ CanReserve(bal, d, penalty) /\ CanReserve(bal, who, fee)
      /\ orders[d] = None
  BY ProfileTypes, AccountsAssumption, AmountsAssumption DEF PlaceOrder, Admissible, Registered
<1>2. /\ backed \in Ledger /\ Reaped(backed)
      /\ backed[d].reserved = bal[d].reserved + penalty
      /\ backed[d].free = bal[d].free - penalty
      /\ \A a \in Account \ {d} : backed[a] = bal[a]
  BY <1>1, ReserveEffect DEF Registered, TypeOK
<1>3. order \in Order
  BY ServiceAssumption DEF Order
<1>4. ASSUME CanReserve(backed, who, fee)
      PROVE  /\ bal' = Reserve(backed, who, fee)
             /\ \A a \in Account \ {who} : bal'[a] = backed[a]
             /\ bal'[who].reserved = backed[who].reserved + fee
             /\ bal'[who].free = backed[who].free - fee
             /\ OrderHasDevice'
             /\ orders'[d] = order
             /\ device'[d].penalty = penalty
             /\ \A e \in Device \ {d} : orders'[e] = orders[e] /\ device'[e] = device[e]
  <2>1. bal' = Reserve(backed, who, fee) /\ TakeOrder(order, d, state)
    BY <1>4 DEF PlaceOrder
  <2>2. /\ \A a \in Account \ {who} : bal'[a] = backed[a]
        /\ bal'[who].reserved = backed[who].reserved + fee
        /\ bal'[who].free = backed[who].free - fee
    BY <1>1, <1>2, <1>4, <2>1, ReserveEffect
  <2>3. /\ OrderHasDevice'
        /\ orders'[d] = order
        /\ device'[d].penalty = penalty
        /\ \A e \in Device \ {d} : orders'[e] = orders[e] /\ device'[e] = device[e]
    BY <1>1, <1>3, <2>1, TakeKeepsDevices
  <2> QED
    BY <2>1, <2>2, <2>3
<1>5. ASSUME ~CanReserve(backed, who, fee)
      PROVE  who = d /\ bal' = backed /\ UNCHANGED <<device, orders>>
  <2>1. bal' = backed /\ UNCHANGED <<device, orders>>
    BY <1>5 DEF PlaceOrder
  <2>2. who = d
    BY <1>1, <1>2, <1>5 DEF CanReserve
  <2> QED
    BY <2>1, <2>2
<1> QED
  BY <1>1, <1>2, <1>3, <1>4, <1>5

(* What order_received does with a new order from another chain            *)
LEMMA ReceiveEffect ==
    ASSUME Registered, NEW state \in OnReceived, ReceiveOrder(state)
    PROVE  LET d == Head(batch).msg.order.device
           IN  /\ d \in Device
               /\ bal' = bal
               /\ OrderHasDevice'
               /\ orders[d] = None /\ orders'[d] # None /\ orders'[d] \in Order
               /\ ~IsLocal(orders'[d])
               /\ orders'[d] = [client |-> Head(batch).msg.client,
                                fee |-> Head(batch).msg.order.fee,
                                until |-> Head(batch).msg.order.until,
                                paraid |-> Head(batch).sender]
               /\ \A e \in Device \ {d} : orders'[e] = orders[e] /\ device'[e] = device[e]
<1> DEFINE msg == Head(batch).msg
           d == msg.order.device
           order == [client |-> msg.client, fee |-> msg.order.fee,
                     until |-> msg.order.until, paraid |-> Head(batch).sender]
<1>1. /\ msg.client \in Client /\ msg.order \in OrderBase
      /\ Head(batch).sender \in ParaId /\ Head(batch).sender # SelfParaId
      /\ bal' = bal
  BY HeadTypes DEF ReceiveOrder, Registered
<1>2. order \in Order /\ d \in Device /\ ~IsLocal(order) /\ order # None
  BY <1>1, NoneIsAbsent DEF Order, OrderBase, IsLocal
<1>3. device[d] # None /\ orders[d] = None /\ state # None /\ TakeOrder(order, d, state)
  BY DEF ReceiveOrder, Admissible
<1> HIDE DEF order, d
<1>4. /\ OrderHasDevice'
      /\ orders'[d] = order
      /\ \A e \in Device \ {d} : orders'[e] = orders[e] /\ device'[e] = device[e]
  BY <1>2, <1>3, TakeKeepsDevices
<1> QED
  BY <1>1, <1>2, <1>3, <1>4 DEF order, d

(* Every step keeps the device of every open order.                        *)
LEMMA RegisteredStep == Registered /\ [Next]_vars => Registered'
<1> SUFFICES ASSUME Registered, [Next]_vars PROVE OrderHasDevice'
  BY TypeStep DEF Registered
<1>1. CASE ~Opening
  <2>1. OpensNothing
    BY <1>1, OtherSteps
  <2> QED
    BY <2>1 DEF OpensNothing, Kept, OrderHasDevice
<1>2. ASSUME NEW who \in Client, NEW d \in Device, NEW fee \in Fees, NEW until \in Moment,
             NEW state \in OnReceived, PlaceOrder(who, d, fee, until, state)
      PROVE  OrderHasDevice'
  <2>1. OrderHasDevice' \/ UNCHANGED <<device, orders>>
    BY <1>2, PlaceEffect
  <2> QED
    BY <2>1 DEF Registered, OrderHasDevice
<1>3. ASSUME NEW state \in OnReceived, ReceiveOrder(state)
      PROVE  OrderHasDevice'
  BY <1>3, ReceiveEffect
<1> QED
  BY <1>1, <1>2, <1>3 DEF Opening

-------------------------------------------------------------------------------
(* The penalty that backs an open order                                    *)

IInv == Registered /\ PenaltyBacked

LEMMA InvInit == Init => IInv
BY TypeInit DEF Init, OrderHasDevice, PenaltyBacked, IInv, Registered

LEMMA InvStep == IInv /\ [Next]_vars => IInv'
<1> SUFFICES ASSUME IInv, [Next]_vars PROVE PenaltyBacked'
  BY RegisteredStep DEF IInv
<1>t. \A a \in Account : bal[a].reserved \in Nat /\ bal'[a].reserved \in Nat
  BY TypeStep DEF IInv, Registered, TypeOK, Ledger, Balance
<1>1. CASE ~Opening
  <2>1. OpensNothing
    BY <1>1, OtherSteps DEF IInv
  <2> SUFFICES ASSUME NEW d \in Device \ Client, orders'[d] # None, IsLocal(orders'[d]),
                      device'[d].penalty >= ExistentialDeposit
               PROVE  bal'[d].reserved >= device'[d].penalty
    BY DEF PenaltyBacked, IsLocal
  <2>2. orders[d] # None /\ IsLocal(orders[d])
    BY <2>1 DEF OpensNothing, IsLocal
  <2>3. device'[d].penalty = device[d].penalty /\ device[d].penalty \in Nat
    BY <2>1, <2>2, ProfileTypes DEF OpensNothing, Kept, IInv, Registered, OrderHasDevice
  <2>4. bal[d].reserved >= device[d].penalty /\ d \in Account
    BY <2>2, <2>3, AccountsAssumption DEF IInv, PenaltyBacked
  <2>5. bal[d].reserved >= ExistentialDeposit
    BY <1>t, <2>3, <2>4, DepositAssumption
  <2> QED
    BY <2>1, <2>3, <2>4, <2>5 DEF OpensNothing
<1>2. ASSUME NEW who \in Client, NEW d \in Device, NEW fee \in Fees, NEW until \in Moment,
             NEW state \in OnReceived, PlaceOrder(who, d, fee, until, state)
      PROVE  PenaltyBacked'
  <2> DEFINE penalty == device[d].penalty
             backed == Reserve(bal, d, penalty)
  <2>1. /\ d \in Account /\ who \in Account /\ penalty \in Nat /\ orders[d] = None
        /\ backed[d].reserved = bal[d].reserved + penalty
        /\ \A a \in Account \ {d} : backed[a] = bal[a]
        /\ \/ /\ \A a \in Account \ {who} : bal'[a] = backed[a]
              /\ device'[d].penalty = penalty
              /\ \A e \in Device \ {d} : orders'[e] = orders[e] /\ device'[e] = device[e]
           \/ who = d /\ bal' = backed /\ UNCHANGED <<device, orders>>
    BY <1>2, PlaceEffect DEF IInv
  <2> HIDE DEF penalty, backed
  <2> SUFFICES ASSUME NEW e \in Device \ Client, orders'[e] # None, IsLocal(orders'[e]),
                      device'[e].penalty >= ExistentialDeposit
               PROVE  bal'[e].reserved >= device'[e].penalty
    BY DEF PenaltyBacked, IsLocal
  <2>2. e \in Account /\ e # who
    BY AccountsAssumption
  <2>3. CASE e = d
    BY <1>t, <2>1, <2>2, <2>3
  <2>4. CASE e # d
    <3>1. bal'[e] = bal[e] /\ orders'[e] = orders[e] /\ device'[e] = device[e]
      BY <2>1, <2>2, <2>4
    <3> QED
      BY <3>1 DEF IInv, PenaltyBacked
  <2> QED
    BY <2>3, <2>4
<1>3. ASSUME NEW state \in OnReceived, ReceiveOrder(state)
      PROVE  PenaltyBacked'
  BY <1>3, ReceiveEffect DEF IInv, PenaltyBacked, IsLocal
<1> QED
  BY <1>1, <1>2, <1>3 DEF Opening

LEMMA Invariance == Spec => []IInv
BY InvInit, InvStep, PTL DEF Spec

(* No sequence of extrinsics, messages and reapings takes the profile away *)
(* from under an open order or shows its device as free for another.       *)
THEOREM OrderHasDeviceHolds == Spec => []OrderHasDevice
<1>1. IInv => OrderHasDevice
  BY DEF IInv, Registered
<1> QED
  BY <1>1, Invariance, PTL

(* The penalty of every open local order is in reserve, for every number   *)
(* of devices and clients and every amount.                                *)
THEOREM PenaltyBackedHolds == Spec => []PenaltyBacked
<1>1. IInv => PenaltyBacked
  BY DEF IInv
<1> QED
  BY <1>1, Invariance, PTL

-------------------------------------------------------------------------------
(* Fees and penalties, to the unit                                         *)

(* What a settled order leaves in reserve: the client's reserve shrinks by *)
(* the fee, the device's by the penalty.                                   *)
LEMMA RejectReserves ==
    ASSUME TypeOK, NEW d \in Device, NEW order \in Order, device[d] # None,
           IsLocal(order), order.client # d, ~RejectFails(order, d)
    PROVE  LET new == LedgerAfterReject(order, d)
               who == order.client
               penalty == device[d].penalty
           IN  /\ order.fee <= bal[who].reserved =>
                    new[who].reserved = bal[who].reserved - order.fee
               /\ penalty <= bal[d].reserved /\ DustFree(bal[d].reserved - penalty) =>
                    new[d].reserved = bal[d].reserved - penalty
<1> DEFINE penalty == device[d].penalty
           who == order.client
           released == FeeReleased(order)
           new == LedgerAfterReject(order, d)
<1>1. who \in Account /\ d \in Account /\ order.fee \in Nat /\ penalty \in Nat /\ who # d
  BY OrderTypes, ProfileTypes
<1>2. bal \in Ledger /\ Reaped(bal) /\ released = Unreserve(bal, who, order.fee)
  BY DEF TypeOK, FeeReleased
<1>3. now \in Nat /\ order.until \in Nat
  BY MomentAssumption DEF TypeOK, Moment, Order
<1>4. \/ new = Unreserve(released, d, penalty)
      \/ new = Repatriate(released, d, who, penalty)
         /\ ~RepatriateFails(released, d, who, penalty)
  BY <1>3 DEF LedgerAfterReject, RejectFails
<1> HIDE DEF penalty, who, released, new
<1>5. /\ released \in Ledger /\ Reaped(released) /\ released[d] = bal[d]
      /\ order.fee <= bal[who].reserved =>
            released[who].reserved = bal[who].reserved - order.fee
  BY <1>1, <1>2, FeeReleases
<1>6. /\ new[who].reserved = released[who].reserved
      /\ penalty <= released[d].reserved /\ DustFree(released[d].reserved - penalty) =>
            new[d].reserved = released[d].reserved - penalty
  BY <1>1, <1>4, <1>5, PenaltySettles
<1> QED
  BY <1>5, <1>6 DEF penalty, who, new

(* order_reject stops only when its client has nothing, reserved or free.  *)
LEMMA RejectStops ==
    ASSUME TypeOK, NEW d \in Device, NEW order \in Order, device[d] # None,
           RejectFails(order, d)
    PROVE  \A a \in Account : FeeReleased(order)[a].reserved = bal[a].reserved
<1>1. /\ order.client \in Account /\ d \in Account /\ order.fee \in Nat
      /\ order.client # d /\ ~IsAlive(FeeReleased(order), order.client)
      /\ bal \in Ledger /\ Reaped(bal)
  BY OrderTypes, AccountsAssumption DEF RejectFails, RepatriateFails, TypeOK
<1>2. /\ \A a \in Account \ {order.client} : FeeReleased(order)[a] = bal[a]
      /\ bal[order.client].reserved = 0 /\ FeeReleased(order)[order.client].reserved = 0
  BY <1>1, FeeReleases DEF FeeReleased
<1> QED
  BY <1>2

(* order_done pays the fee out of the client's reserve; the penalty leaves *)
(* the device's, or stays there when it cannot be delivered.               *)
LEMMA DoneReserves ==
    ASSUME TypeOK, NEW d \in Device, NEW order \in Order, device[d] # None,
           IsAlive(bal, d), order.client # d
    PROVE  LET new == LedgerAfterDone(order, d)
               who == order.client
               penalty == device[d].penalty
           IN  /\ order.fee <= bal[who].reserved /\ DustFree(bal[who].reserved - order.fee) =>
                    new[who].reserved = bal[who].reserved - order.fee
               /\ penalty <= bal[d].reserved /\ DustFree(bal[d].reserved - penalty) =>
                    new[d].reserved \in {bal[d].reserved - penalty, bal[d].reserved}
<1> DEFINE penalty == device[d].penalty
           who == order.client
           paid == Repatriate(bal, who, d, order.fee)
           new == LedgerAfterDone(order, d)
<1>1. who \in Account /\ d \in Account /\ order.fee \in Nat /\ penalty \in Nat /\ who # d
  BY OrderTypes, ProfileTypes
<1>2. bal \in Ledger /\ Reaped(bal)
  BY DEF TypeOK
<1>3. ~RepatriateFails(bal, who, d, order.fee)
  BY DEF RepatriateFails
<1>4. now \in Nat /\ order.until \in Nat
  BY MomentAssumption DEF TypeOK, Moment, Order
<1>5. \/ new = paid
      \/ new = Unreserve(paid, d, penalty)
      \/ new = Repatriate(paid, d, who, penalty) /\ ~RepatriateFails(paid, d, who, penalty)
  BY <1>3, <1>4 DEF LedgerAfterDone
<1>p. paid = Repatriate(bal, who, d, order.fee)
  OBVIOUS
<1> HIDE DEF penalty, who, paid, new
<1>6. /\ paid \in Ledger /\ Reaped(paid) /\ paid[d].reserved = bal[d].reserved
      /\ order.fee <= bal[who].reserved /\ DustFree(bal[who].reserved - order.fee) =>
            paid[who].reserved = bal[who].reserved - order.fee
  BY <1>1, <1>2, <1>3, <1>p, FeePays
<1>7. CASE new = paid
  BY <1>6, <1>7 DEF penalty, who, new
<1>8. CASE new # paid
  <2>1. /\ new[who].reserved = paid[who].reserved
        /\ penalty <= paid[d].reserved /\ DustFree(paid[d].reserved - penalty) =>
              new[d].reserved = paid[d].reserved - penalty
    BY <1>1, <1>5, <1>6, <1>8, PenaltySettles
  <2> QED
    BY <1>6, <2>1 DEF penalty, who, new
<1> QED
  BY <1>7, <1>8

(* What a client has to keep ready for the order at each device            *)
FeeAt(c) ==
    [d \in Device |-> IF orders[d] # None /\ IsLocal(orders[d]) /\ orders[d].client = c
                      THEN orders[d].fee ELSE 0]

(* What a device has to keep ready                                         *)
Stake(e) == IF orders[e] # None /\ IsLocal(orders[e]) THEN device[e].penalty ELSE 0

(* The reserve covers every single commitment, and what is left when one   *)
(* is taken out cannot be swept away as dust.                              *)
FeesCovered(c) ==
    /\ DustFree(bal[c].reserved)
    /\ \A d \in Device : /\ FeeAt(c)[d] <= bal[c].reserved
                         /\ DustFree(bal[c].reserved - FeeAt(c)[d])
StakeCovered(e) ==
    /\ DustFree(bal[e].reserved)
    /\ Stake(e) <= bal[e].reserved
    /\ DustFree(bal[e].reserved - Stake(e))

(* The reserve changes by what one commitment changes.                     *)
FeeMoves(c) ==
    \/ FeeAt(c)' = FeeAt(c) /\ bal'[c].reserved = bal[c].reserved
    \/ \E d \in Device :
        /\ \A e \in Device \ {d} : FeeAt(c)'[e] = FeeAt(c)[e]
        /\ bal'[c].reserved + FeeAt(c)[d] = bal[c].reserved + FeeAt(c)'[d]
StakeMoves(e) ==
    \/ bal'[e].reserved + Stake(e) = bal[e].reserved + Stake(e)'
    \/ bal'[e].reserved = bal[e].reserved /\ Stake(e)' = 0

LEMMA CommitmentTypes ==
    ASSUME Registered
    PROVE  /\ \A c \in Client, d \in Device : FeeAt(c)[d] \in Nat
           /\ \A e \in Device : Stake(e) \in Nat
           /\ \A a \in Account : bal[a].reserved \in Nat
           /\ Client \subseteq Account /\ Device \subseteq Account
<1>1. \A d \in Device : orders[d] # None => orders[d].fee \in Nat
  BY OrderTypes DEF Registered, TypeOK
<1>2. \A d \in Device : orders[d] # None => device[d].penalty \in Nat
  BY ProfileTypes DEF Registered, OrderHasDevice
<1> QED
  BY <1>1, <1>2, AccountsAssumption DEF FeeAt, Stake, Registered, TypeOK, Ledger, Balance

(* A step that keeps every order and the reserve moves no fee; one that    *)
(* keeps a device's order, its penalty and its reserve moves no stake.     *)
LEMMA NoFeeMoves ==
    ASSUME Registered, NEW c \in Client, orders' = orders, bal'[c].reserved = bal[c].reserved
    PROVE  FeeMoves(c)
<1>1. FeeAt(c)' = FeeAt(c)
  BY DEF FeeAt, IsLocal
<1> QED
  BY <1>1 DEF FeeMoves

LEMMA NoStakeMoves ==
    ASSUME Registered, NEW e \in Device, orders'[e] = orders[e],
           orders[e] # None => device'[e].penalty = device[e].penalty,
           bal'[e].reserved = bal[e].reserved
    PROVE  StakeMoves(e)
<1>1. Stake(e)' = Stake(e) /\ Stake(e) \in Nat
  BY CommitmentTypes DEF Stake, IsLocal
<1> QED
  BY <1>1 DEF StakeMoves

(* The order of one device changes, and the client's reserve by its fee.   *)
LEMMA OneFeeMoves ==
    ASSUME Registered, NEW c \in Client, NEW d \in Device,
           \A e \in Device \ {d} : orders'[e] = orders[e],
           bal'[c].reserved + FeeAt(c)[d] = bal[c].reserved + FeeAt(c)'[d]
    PROVE  FeeMoves(c)
<1>1. \A e \in Device \ {d} : FeeAt(c)'[e] = FeeAt(c)[e]
  BY DEF FeeAt, IsLocal
<1> QED
  BY <1>1 DEF FeeMoves

(* The order of one device is closed.                                      *)
LEMMA ClosingMoves ==
    ASSUME Registered, NEW d \in Device, orders[d] # None,
           orders' = [orders EXCEPT ![d] = None],
           \A a \in Account \ {orders[d].client, d} : bal'[a] = bal[a],
           ~IsLocal(orders[d]) => bal' = bal,
           \A e \in Device \ {d} : orders[e] # None => device'[e].penalty = device[e].penalty
    PROVE  /\ \A c \in Client \ Device :
                (IsLocal(orders[d]) /\ orders[d].client = c =>
                    bal'[c].reserved + orders[d].fee = bal[c].reserved) => FeeMoves(c)
           /\ \A e \in Device \ Client :
                (IsLocal(orders[d]) /\ e = d =>
                    bal'[d].reserved + device[d].penalty = bal[d].reserved
                    \/ bal'[d].reserved = bal[d].reserved) => StakeMoves(e)
<1> USE CommitmentTypes
<1>1. orders'[d] = None /\ \A e \in Device \ {d} : orders'[e] = orders[e]
  BY DEF Registered, TypeOK
<1>2. orders[d].client \in Client
  BY OrderTypes DEF Registered, TypeOK
<1>3. ASSUME NEW c \in Client \ Device,
             IsLocal(orders[d]) /\ orders[d].client = c =>
                    bal'[c].reserved + orders[d].fee = bal[c].reserved
      PROVE  FeeMoves(c)
  <2>1. FeeAt(c)'[d] = 0
    BY <1>1 DEF FeeAt
  <2>2. CASE IsLocal(orders[d]) /\ orders[d].client = c
    <3>1. FeeAt(c)[d] = orders[d].fee
      BY <2>2 DEF FeeAt
    <3>2. bal'[c].reserved + FeeAt(c)[d] = bal[c].reserved + FeeAt(c)'[d]
      BY <1>3, <2>1, <2>2, <3>1
    <3> QED
      BY <1>1, <3>2, OneFeeMoves
  <2>3. CASE ~(IsLocal(orders[d]) /\ orders[d].client = c)
    <3>1. FeeAt(c)[d] = 0
      BY <2>3 DEF FeeAt
    <3>2. bal'[c] = bal[c]
      BY <2>3
    <3>3. bal'[c].reserved + FeeAt(c)[d] = bal[c].reserved + FeeAt(c)'[d]
      BY <2>1, <3>1, <3>2
    <3> QED
      BY <1>1, <3>3, OneFeeMoves
  <2> QED
    BY <2>2, <2>3
<1>4. ASSUME NEW e \in Device \ Client,
             IsLocal(orders[d]) /\ e = d =>
                    bal'[d].reserved + device[d].penalty = bal[d].reserved
                    \/ bal'[d].reserved = bal[d].reserved
      PROVE  StakeMoves(e)
  <2>1. CASE e # d
    <3>1. bal'[e] = bal[e]
      BY <1>2, <2>1
    <3> QED
      BY <1>1, <2>1, <3>1, NoStakeMoves
  <2>2. CASE e = d
    <3>1. Stake(e)' = 0
      BY <1>1, <2>2 DEF Stake
    <3>2. IsLocal(orders[d]) => Stake(e) = device[d].penalty
      BY <2>2 DEF Stake
    <3> QED
      BY <1>4, <2>2, <3>1, <3>2 DEF StakeMoves
  <2> QED
    BY <2>1, <2>2
<1> QED
  BY <1>3, <1>4

(* order_reject takes the fee out of its client's reserve and the penalty  *)
(* out of its device's, and nothing out of any other.                      *)
LEMMA RejectMoves ==
    ASSUME Registered, NEW d \in Device, NEW state, NEW onoff, orders[d] # None,
           RejectOrder(orders[d], d, state, onoff)
    PROVE  /\ \A c \in Client \ Device : FeesCovered(c) => FeeMoves(c)
           /\ \A e \in Device \ Client : StakeCovered(e) => StakeMoves(e)
<1> DEFINE order == orders[d]
<1> USE CommitmentTypes
<1>1. /\ order \in Order /\ order.client \in Client /\ order.fee \in Nat
      /\ device[d] # None /\ device[d].penalty \in Nat
      /\ TypeOK
  BY OrderTypes, ProfileTypes DEF Registered, TypeOK, OrderHasDevice
<1>2. CASE RejectFails(order, d)
  <2>1. \A a \in Account : bal'[a].reserved = bal[a].reserved
    BY <1>1, <1>2, RejectStops DEF RejectOrder
  <2>2. UNCHANGED <<device, orders>>
    BY <1>2 DEF RejectOrder
  <2> QED
    BY <2>1, <2>2, NoFeeMoves, NoStakeMoves
<1>3. CASE ~RejectFails(order, d)
  <2>1. /\ orders' = [orders EXCEPT ![d] = None]
        /\ device' = [OnKilledAccount(bal, bal') EXCEPT
                        ![d] = [device[d] EXCEPT !.state = state]]
        /\ bal' = IF IsLocal(order) THEN LedgerAfterReject(order, d) ELSE bal
    BY <1>3 DEF RejectOrder, RemoveOrder
  <2>2. \A a \in Account \ {order.client, d} : bal'[a] = bal[a]
    BY <1>1, <1>3, <2>1, RejectLedger
  <2>3. \A e \in Device \ {d} : orders[e] # None => device'[e].penalty = device[e].penalty
    <3> SUFFICES ASSUME NEW e \in Device \ {d}, orders[e] # None
                 PROVE  device'[e].penalty = device[e].penalty
      OBVIOUS
    <3>1. device'[e] = OnKilledAccount(bal, bal')[e]
      BY <2>1 DEF OnKilledAccount
    <3> QED
      BY <3>1, KeptAsIs DEF Kept
  <2>4. ASSUME NEW c \in Client \ Device, FeesCovered(c), IsLocal(order), order.client = c
        PROVE  bal'[c].reserved + order.fee = bal[c].reserved
    <3>1. FeeAt(c)[d] = order.fee
      BY <2>4 DEF FeeAt
    <3>2. order.fee <= bal[c].reserved
      BY <2>4, <3>1 DEF FeesCovered
    <3>3. bal'[c].reserved = bal[c].reserved - order.fee
      BY <1>1, <1>3, <2>1, <2>4, <3>2, RejectReserves
    <3> QED
      BY <1>1, <3>3
  <2>5. ASSUME d \notin Client, StakeCovered(d), IsLocal(order)
        PROVE  bal'[d].reserved + device[d].penalty = bal[d].reserved
    <3>1. Stake(d) = device[d].penalty
      BY <2>5 DEF Stake
    <3>2. device[d].penalty <= bal[d].reserved /\ DustFree(bal[d].reserved - device[d].penalty)
      BY <2>5, <3>1 DEF StakeCovered
    <3>3. bal'[d].reserved = bal[d].reserved - device[d].penalty
      BY <1>1, <1>3, <2>1, <2>5, <3>2, RejectReserves
    <3> QED
      BY <1>1, <3>3
  <2> QED
    BY <2>1, <2>2, <2>3, <2>4, <2>5, ClosingMoves
<1> QED
  BY <1>2, <1>3

(* done pays the fee out of its client's reserve; the penalty leaves the   *)
(* device's reserve or is stranded in it.                                  *)
LEMMA DoneMoves ==
    ASSUME Registered, NEW d \in Device, NEW onoff, Done(d, onoff)
    PROVE  /\ \A c \in Client \ Device : FeesCovered(c) => FeeMoves(c)
           /\ \A e \in Device \ Client : StakeCovered(e) => StakeMoves(e)
<1> DEFINE order == orders[d]
<1> USE CommitmentTypes
<1>1. /\ order # None /\ order \in Order /\ order.client \in Client /\ order.fee \in Nat
      /\ device[d] # None /\ device[d].penalty \in Nat
      /\ IsAlive(bal, d) /\ TypeOK
  BY OrderTypes, ProfileTypes DEF Done, Signed, Registered, TypeOK, OrderHasDevice
<1>2. orders' = [orders EXCEPT ![d] = None]
  BY DEF Done, RemoveOrder
<1>3. bal' = IF IsLocal(order) THEN LedgerAfterDone(order, d) ELSE bal
  BY DEF Done
<1>4. \A a \in Account \ {order.client, d} : bal'[a] = bal[a]
  BY <1>1, <1>3, DoneLedger
<1>5. \A e \in Device \ {d} : orders[e] # None => device'[e].penalty = device[e].penalty
  <2> SUFFICES ASSUME NEW e \in Device \ {d}, orders[e] # None
               PROVE  device'[e].penalty = device[e].penalty
    OBVIOUS
  <2>1. device'[e] = OnKilledAccount(bal, bal')[e]
    BY DEF Done, OnKilledAccount
  <2> QED
    BY <2>1, KeptAsIs DEF Kept
<1>6. ASSUME NEW c \in Client \ Device, FeesCovered(c), IsLocal(order), order.client = c
      PROVE  bal'[c].reserved + order.fee = bal[c].reserved
  <2>1. FeeAt(c)[d] = order.fee
    BY <1>1, <1>6 DEF FeeAt
  <2>2. order.fee <= bal[c].reserved /\ DustFree(bal[c].reserved - order.fee)
    BY <1>6, <2>1 DEF FeesCovered
  <2>3. bal'[c].reserved = bal[c].reserved - order.fee
    BY <1>1, <1>3, <1>6, <2>2, DoneReserves
  <2> QED
    BY <1>1, <2>3
<1>7. ASSUME d \notin Client, StakeCovered(d), IsLocal(order)
      PROVE  \/ bal'[d].reserved + device[d].penalty = bal[d].reserved
             \/ bal'[d].reserved = bal[d].reserved
  <2>1. Stake(d) = device[d].penalty
    BY <1>1, <1>7 DEF Stake
  <2>2. device[d].penalty <= bal[d].reserved /\ DustFree(bal[d].reserved - device[d].penalty)
    BY <1>7, <2>1 DEF StakeCovered
  <2>3. bal'[d].reserved \in {bal[d].reserved - device[d].penalty, bal[d].reserved}
    BY <1>1, <1>3, <1>7, <2>2, DoneReserves
  <2> QED
    BY <1>1, <2>3
<1> QED
  BY <1>1, <1>2, <1>3, <1>4, <1>5, <1>6, <1>7, ClosingMoves

(* Every step changes a reserve by what one commitment changes.            *)
LEMMA MovesStep ==
    ASSUME Registered, [Next]_vars
    PROVE  /\ \A c \in Client \ Device : FeesCovered(c) => FeeMoves(c)
           /\ \A e \in Device \ Client : StakeCovered(e) => StakeMoves(e)
<1> DEFINE Moves == /\ \A c \in Client \ Device : FeesCovered(c) => FeeMoves(c)
                    /\ \A e \in Device \ Client : StakeCovered(e) => StakeMoves(e)
<1> USE CommitmentTypes
<1>1. ASSUME NEW who \in Client, NEW d \in Device, NEW fee \in Fees, NEW until \in Moment,
             NEW state \in OnReceived, PlaceOrder(who, d, fee, until, state)
      PROVE  Moves
  <2> DEFINE penalty == device[d].penalty
             backed == Reserve(bal, d, penalty)
             order == [client |-> who, fee |-> fee, until |-> until, paraid |-> SelfParaId]
  <2>1. /\ who \in Account /\ penalty \in Nat /\ fee \in Nat
        /\ orders[d] = None
        /\ backed[d].reserved = bal[d].reserved + penalty
        /\ \A a \in Account \ {d} : backed[a] = bal[a]
        /\ order \in Order
        /\ \/ /\ \A a \in Account \ {who} : bal'[a] = backed[a]
              /\ bal'[who].reserved = backed[who].reserved + fee
              /\ orders'[d] = order
              /\ device'[d].penalty = penalty
              /\ \A e \in Device \ {d} : orders'[e] = orders[e] /\ device'[e] = device[e]
           \/ who = d /\ bal' = backed /\ UNCHANGED <<device, orders>>
    BY <1>1, PlaceEffect
  <2>2. CASE who = d /\ bal' = backed /\ UNCHANGED <<device, orders>>
    <3>1. \A a \in Account \ {d} : bal'[a] = bal[a]
      BY <2>1, <2>2
    <3> QED
      BY <2>2, <3>1, NoFeeMoves, NoStakeMoves
  <2>3. CASE /\ \A a \in Account \ {who} : bal'[a] = backed[a]
             /\ bal'[who].reserved = backed[who].reserved + fee
             /\ orders'[d] = order
             /\ device'[d].penalty = penalty
             /\ \A e \in Device \ {d} : orders'[e] = orders[e] /\ device'[e] = device[e]
    <3>1. order # None /\ IsLocal(order) /\ order.client = who /\ order.fee = fee
      BY <2>1, NoneIsAbsent DEF IsLocal
    <3> HIDE DEF order, penalty, backed
    <3>2. ASSUME NEW c \in Client \ Device
          PROVE  FeeMoves(c)
      <4>1. FeeAt(c)[d] = 0 /\ FeeAt(c)'[d] = IF c = who THEN fee ELSE 0
        BY <2>1, <2>3, <3>1 DEF FeeAt, IsLocal
      <4>2. bal'[c].reserved = bal[c].reserved + IF c = who THEN fee ELSE 0
        BY <2>1, <2>3
      <4>3. bal'[c].reserved + FeeAt(c)[d] = bal[c].reserved + FeeAt(c)'[d]
        BY <2>1, <4>1, <4>2
      <4> QED
        BY <2>3, <4>3, OneFeeMoves
    <3>3. ASSUME NEW e \in Device \ Client
          PROVE  StakeMoves(e)
      <4>1. CASE e = d
        <5>1. Stake(e) = 0 /\ Stake(e)' = penalty
          BY <2>1, <2>3, <3>1, <4>1 DEF Stake, IsLocal
        <5>2. bal'[e].reserved = bal[e].reserved + penalty
          BY <2>1, <2>3, <4>1
        <5> QED
          BY <2>1, <5>1, <5>2 DEF StakeMoves
      <4>2. CASE e # d
        BY <2>1, <2>3, <4>2, NoStakeMoves
      <4> QED
        BY <4>1, <4>2
    <3> QED
      BY <3>2, <3>3
  <2> QED
    BY <2>1, <2>2, <2>3
<1>2. ASSUME NEW state \in OnReceived, ReceiveOrder(state)
      PROVE  Moves
  <2> DEFINE d == Head(batch).msg.order.device
  <2>1. /\ d \in Device /\ bal' = bal
        /\ orders[d] = None /\ orders'[d] # None /\ ~IsLocal(orders'[d])
        /\ \A e \in Device \ {d} : orders'[e] = orders[e] /\ device'[e] = device[e]
    BY <1>2, ReceiveEffect
  <2> HIDE DEF d
  <2>2. ASSUME NEW c \in Client \ Device PROVE FeeMoves(c)
    <3>1. FeeAt(c)[d] = 0 /\ FeeAt(c)'[d] = 0
      BY <2>1 DEF FeeAt, IsLocal
    <3> QED
      BY <2>1, <3>1, OneFeeMoves
  <2>3. ASSUME NEW e \in Device \ Client PROVE StakeMoves(e)
    <3>1. CASE e = d
      <4>1. Stake(e) = 0 /\ Stake(e)' = 0
        BY <2>1, <3>1 DEF Stake, IsLocal
      <4> QED
        BY <2>1, <4>1 DEF StakeMoves
    <3>2. CASE e # d
      BY <2>1, <3>2, NoStakeMoves
    <3> QED
      BY <3>1, <3>2
  <2> QED
    BY <2>2, <2>3
<1>3. ASSUME NEW who \in Client, NEW d \in Device, Cancel(who, d)
      PROVE  Moves
  BY <1>3, RejectMoves DEF Cancel
<1>4. ASSUME UNCHANGED <<bal, orders>>,
             \A e \in Device : orders[e] # None => device'[e].penalty = device[e].penalty
      PROVE  Moves
  BY <1>4, NoFeeMoves, NoStakeMoves
<1>n. ASSUME NEW d \in Device, orders[d] = None, UNCHANGED <<bal, orders>>,
             \A e \in Device \ {d} : device'[e] = device[e]
      PROVE  Moves
  BY <1>4, <1>n
<1>5. ASSUME NEW d \in Device, NEW onoff \in BOOLEAN, Reject(d, onoff)
      PROVE  Moves
  <2>1. CASE orders[d] # None
    BY <1>5, <2>1, RejectMoves DEF Reject
  <2>2. CASE orders[d] = None
    BY <1>5, <1>n, <2>2 DEF Reject, Registered, TypeOK
  <2> QED
    BY <2>1, <2>2
<1>6. ASSUME NEW d \in Device, NEW onoff \in BOOLEAN, Done(d, onoff)
      PROVE  Moves
  BY <1>6, DoneMoves
<1>7. ASSUME NEW from \in Account, NEW to \in Account, NEW amount, Spend(from, to, amount)
      PROVE  Moves
  <2>1. orders' = orders /\ device' = OnKilledAccount(bal, bal')
    BY <1>7 DEF Spend
  <2>2. \A a \in Account : DustFree(bal[a].reserved) => bal'[a].reserved = bal[a].reserved
    BY <1>7, TransferEffect DEF Spend, Registered, TypeOK, DustFree
  <2>3. \A e \in Device : orders[e] # None => device'[e].penalty = device[e].penalty
    BY <2>1, KeptAsIs DEF Kept
  <2> QED
    BY <2>1, <2>2, <2>3, NoFeeMoves, NoStakeMoves DEF FeesCovered, StakeCovered
<1>8. ASSUME NEW d \in Device, Accept(d)
      PROVE  Moves
  <2>1. /\ orders[d] \in Order /\ device[d] # None /\ UNCHANGED <<bal, orders>>
        /\ AcceptOrder(orders[d], d)
    BY <1>8 DEF Accept, Registered, TypeOK
  <2>2. device' = [device EXCEPT ![d] = [device[d] EXCEPT !.state = "Accepted"]]
    BY <2>1, AcceptEffect DEF Registered
  <2>3. device[d] \in DeviceProfile /\ "Accepted" \in DeviceState
    BY <2>1, ProfileTypes DEF Registered, DeviceState
  <2>4. /\ device'[d] = [device[d] EXCEPT !.state = "Accepted"]
        /\ \A e \in Device \ {d} : device'[e] = device[e]
    BY <2>2 DEF Registered, TypeOK
  <2>5. device'[d].penalty = device[d].penalty
    BY <2>3, <2>4, SetStateType
  <2> QED
    BY <1>4, <2>1, <2>4, <2>5
<1>10. ASSUME NEW d \in Device, NEW penalty \in Penalties, NEW wcd \in Wcds,
              NEW onoff \in BOOLEAN, Register(d, penalty, wcd, onoff)
       PROVE  Moves
  BY <1>n, <1>10 DEF Register, Registered, TypeOK
<1>11. ASSUME NEW d \in Device, NEW onoff \in BOOLEAN, SetState(d, onoff)
       PROVE  Moves
  <2>1. orders[d] = None
    BY <1>11 DEF SetState, Registered, OrderHasDevice
  <2> QED
    BY <1>n, <1>11, <2>1 DEF SetState, Registered, TypeOK
<1>12. ASSUME DropOrder \/ AbortBatch \/ Tick \/ Carry \/ UNCHANGED vars
              \/ \E blobs : BeginBatch(blobs)
       PROVE  Moves
  BY <1>4, <1>12 DEF DropOrder, AbortBatch, Tick, Carry, BeginBatch, vars
<1> HIDE DEF Moves
<1>13. Moves
  BY <1>1, <1>2, <1>3, <1>5, <1>6, <1>7, <1>8, <1>10, <1>11, <1>12
     DEF Next, Handle, Dispatch, Environment
<1> QED
  BY <1>13 DEF Moves

(* A client that is no device has exactly the fees of its open local       *)
(* orders in reserve.                                                      *)
NoDustFees == \A fee \in Fees : DustFree(fee)

FeesExact ==
    NoDustFees =>
        \A c \in Client \ Device : bal[c].reserved = SumFunctionOnSet(FeeAt(c), Device)

FeesInv == Registered /\ FeesExact

LEMMA FeesInit == Init => FeesInv
<1> SUFFICES ASSUME Init PROVE FeesInv
  OBVIOUS
<1>1. Registered
  BY InvInit DEF IInv
<1>2. ASSUME NEW c \in Client \ Device
      PROVE  bal[c].reserved = SumFunctionOnSet(FeeAt(c), Device)
  <2>1. bal[c].reserved = 0
    BY AccountsAssumption DEF Init
  <2>2. \A d \in Device : FeeAt(c)[d] = 0
    BY DEF Init, FeeAt
  <2>3. SumFunctionOnSet(FeeAt(c), Device) = SumFunctionOnSet(FeeAt(c), {})
    BY <2>2, DeviceAssumption, SumSupport
  <2>4. SumFunctionOnSet(FeeAt(c), {}) = 0
    BY FS_EmptySet, SumUnfold
  <2> QED
    BY <2>1, <2>3, <2>4
<1> QED
  BY <1>1, <1>2 DEF FeesInv, FeesExact

LEMMA FeesStep == FeesInv /\ [Next]_vars => FeesInv'
<1> SUFFICES ASSUME FeesInv, [Next]_vars, NoDustFees, NEW c \in Client \ Device
             PROVE  bal'[c].reserved = SumFunctionOnSet(FeeAt(c)', Device)
  BY RegisteredStep DEF FeesInv, FeesExact, NoDustFees, DustFree
<1> DEFINE f == FeeAt(c)
           g == FeeAt(c)'
<1>1. Registered /\ bal[c].reserved = SumFunctionOnSet(f, Device)
  BY DEF FeesInv, FeesExact
<1>2. /\ \A d \in Device : f[d] \in Nat /\ g[d] \in Nat
      /\ bal[c].reserved \in Nat /\ bal'[c].reserved \in Nat
  <2>1. (\A d \in Device : f[d] \in Nat) /\ bal[c].reserved \in Nat
    BY <1>1, CommitmentTypes
  <2>2. orders' \in [Device -> Order \cup {None}] /\ bal' \in Ledger
    BY <1>1, RegisteredStep DEF Registered, TypeOK
  <2>3. bal'[c].reserved \in Nat
    BY <2>2, AccountsAssumption DEF Ledger, Balance
  <2>4. \A d \in Device : g[d] \in Nat
    BY <2>2, AmountsAssumption DEF FeeAt, Order
  <2> QED
    BY <2>1, <2>3, <2>4
<1>3. \A d \in Device : DustFree(f[d])
  BY <1>1 DEF Registered, TypeOK, Order, NoDustFees, FeeAt, DustFree
<1> HIDE DEF f, g
<1>4. /\ SumFunctionOnSet(f, Device) \in Nat
      /\ DustFree(SumFunctionOnSet(f, Device))
      /\ \A y \in Device : /\ f[y] <= SumFunctionOnSet(f, Device)
                           /\ DustFree(SumFunctionOnSet(f, Device) - f[y])
  BY <1>2, <1>3, DeviceAssumption, SumDustFree
<1>5. FeesCovered(c)
  BY <1>1, <1>4 DEF FeesCovered, f
<1>6. FeeMoves(c)
  BY <1>1, <1>5, MovesStep
<1>7. bal'[c].reserved + SumFunctionOnSet(f, Device) = bal[c].reserved + SumFunctionOnSet(g, Device)
  BY <1>2, <1>6, DeviceAssumption, SumFollows DEF FeeMoves, f, g
<1>8. SumFunctionOnSet(g, Device) \in Nat
  BY <1>2, DeviceAssumption, SumType
<1> QED
  BY <1>1, <1>2, <1>4, <1>7, <1>8 DEF g

(* The reserve of a client is shared by all its open local orders and the  *)
(* pallet never says whose it is: no settlement, in any order, pays one    *)
(* order with another's fee.                                               *)
THEOREM FeesBackedHolds == Spec => []FeesBacked
<1>1. ASSUME FeesInv PROVE FeesBacked
  <2> SUFFICES ASSUME NoDustFees, NEW c \in Client \ Device
               PROVE  LET mine == {d \in Device : /\ orders[d] # None
                                                  /\ IsLocal(orders[d])
                                                  /\ orders[d].client = c}
                      IN  SumFunctionOnSet([d \in mine |-> orders[d].fee], mine)
                            <= bal[c].reserved
    BY DEF FeesBacked, NoDustFees, DustFree
  <2> DEFINE mine == {d \in Device : /\ orders[d] # None
                                     /\ IsLocal(orders[d])
                                     /\ orders[d].client = c}
             fees == [d \in mine |-> orders[d].fee]
  <2>1. Registered /\ bal[c].reserved = SumFunctionOnSet(FeeAt(c), Device)
    BY <1>1 DEF FeesInv, FeesExact
  <2>2. /\ \A d \in Device : FeeAt(c)[d] \in Nat
        /\ bal[c].reserved \in Nat
    BY <2>1, CommitmentTypes
  <2>3. /\ mine \in SUBSET Device
        /\ \A d \in Device \ mine : FeeAt(c)[d] = 0
        /\ \A d \in mine : fees[d] = FeeAt(c)[d]
    BY DEF FeeAt
  <2> HIDE DEF mine, fees
  <2>4. SumFunctionOnSet(FeeAt(c), Device) = SumFunctionOnSet(fees, mine)
    BY <2>2, <2>3, DeviceAssumption, SumSupport
  <2>5. SumFunctionOnSet(fees, mine) <= bal[c].reserved
    BY <2>1, <2>2, <2>4
  <2> QED
    BY <2>5 DEF mine, fees
<1>2. FeesInv => FeesBacked
  BY <1>1
<1> QED
  BY <1>2, FeesInit, FeesStep, PTL DEF Spec

-------------------------------------------------------------------------------
(* Action properties                                                       *)

(* A step that may open an order writes only at a device that has none.    *)
LEMMA TermsFrozenInStep == IInv /\ [Next]_vars => TermsFrozenStep
<1> SUFFICES ASSUME IInv, [Next]_vars,
                    NEW d \in Device, orders[d] # None, orders'[d] # None
             PROVE  /\ orders'[d] = orders[d]
                    /\ device'[d].penalty = device[d].penalty
                    /\ device'[d].wcd = device[d].wcd
  BY DEF TermsFrozenStep
<1>1. CASE ~Opening
  BY <1>1, OtherSteps DEF OpensNothing, Kept, IInv
<1>2. ASSUME NEW e \in Device, orders[e] = None, NEW order, NEW state, TakeOrder(order, e, state)
      PROVE  orders'[d] = orders[d] /\ device'[d] = device[d]
  BY <1>2 DEF TakeOrder, AcceptOrder, IInv, Registered, TypeOK
<1>3. ASSUME NEW who \in Client, NEW e \in Device, NEW fee \in Fees, NEW until \in Moment,
             NEW state \in OnReceived, PlaceOrder(who, e, fee, until, state)
      PROVE  orders'[d] = orders[d] /\ device'[d] = device[d]
  BY <1>2, <1>3 DEF PlaceOrder, Admissible
<1>4. ASSUME NEW state \in OnReceived, ReceiveOrder(state)
      PROVE  orders'[d] = orders[d] /\ device'[d] = device[d]
  <2>1. Head(batch).msg.order.device \in Device
    BY <1>4, HeadTypes DEF ReceiveOrder, IInv, Registered, OrderBase
  <2> QED
    BY <1>2, <1>4, <2>1 DEF ReceiveOrder, Admissible
<1> QED
  BY <1>1, <1>3, <1>4 DEF Opening

(* Only order_received and register write terms, and both look for an open *)
(* order first.                                                            *)
THEOREM TermsFrozenHolds == Spec => TermsFrozen
<1>1. IInv /\ [Next]_vars => [TermsFrozenStep]_vars
  BY TermsFrozenInStep
<1> QED
  BY <1>1, Invariance, PTL DEF Spec, TermsFrozen

(* A queue that grows ends with what was sent.                             *)
LEMMA SentLast ==
    ASSUME outbox \in Seq(Outbound), NEW dest, NEW msg, Send(dest, msg),
           [dest |-> dest, msg |-> msg] \in Outbound,
           Len(outbox') > Len(outbox)
    PROVE  outbox'[Len(outbox')] = [dest |-> dest, msg |-> msg]
BY DEF Send

LEMMA AnswerClosesOrderInStep == TypeOK /\ [Next]_vars => AnswerClosesOrderStep
<1> DEFINE grows == Len(outbox') > Len(outbox)
           out == outbox'[Len(outbox')]
<1> SUFFICES ASSUME TypeOK, [Next]_vars, grows, out.msg.type # "OrderAccept"
             PROVE  /\ orders[out.msg.device] # None
                    /\ orders'[out.msg.device] = None
                    /\ orders[out.msg.device].client = out.msg.client
                    /\ orders[out.msg.device].paraid = out.dest
                    /\ ~IsLocal(orders[out.msg.device])
  BY DEF AnswerClosesOrderStep
<1> DEFINE Closes == /\ orders[out.msg.device] # None
                     /\ orders'[out.msg.device] = None
                     /\ orders[out.msg.device].client = out.msg.client
                     /\ orders[out.msg.device].paraid = out.dest
                     /\ ~IsLocal(orders[out.msg.device])
<1>s. outbox \in Seq(Outbound) /\ Len(outbox) \in Nat
  BY DEF TypeOK
<1>1. outbox' # outbox
  BY <1>s
<1>2. ASSUME NEW d \in Device, NEW order \in Order, AcceptOrder(order, d)
      PROVE  FALSE
  <2>1. Send(order.paraid, OrderAccept(order.client, d))
    BY <1>1, <1>2 DEF AcceptOrder
  <2>2. [dest |-> order.paraid, msg |-> OrderAccept(order.client, d)] \in Outbound
    BY OrderTypes, AnswerType DEF Outbound
  <2>3. out = [dest |-> order.paraid, msg |-> OrderAccept(order.client, d)]
    BY <1>s, <2>1, <2>2, SentLast
  <2> QED
    BY <2>3 DEF OrderAccept
<1>3. ASSUME NEW d \in Device, NEW state, NEW onoff \in BOOLEAN, orders[d] # None,
             RejectOrder(orders[d], d, state, onoff)
      PROVE  Closes
  <2> DEFINE order == orders[d]
             msg == OrderReject(order.client, d, onoff)
  <2>1. order \in Order
    BY <1>3 DEF TypeOK
  <2>2. ~IsLocal(order) /\ Send(order.paraid, msg) /\ RemoveOrder(d)
    BY <1>1, <1>3 DEF RejectOrder
  <2>3. [dest |-> order.paraid, msg |-> msg] \in Outbound
    BY <2>1, OrderTypes, AnswerType DEF Outbound
  <2>4. out = [dest |-> order.paraid, msg |-> msg]
    BY <1>s, <2>2, <2>3, SentLast
  <2>5. out.dest = order.paraid /\ out.msg.client = order.client /\ out.msg.device = d
    BY <2>4 DEF OrderReject
  <2>6. orders'[d] = None
    BY <2>2 DEF RemoveOrder, TypeOK
  <2> QED
    BY <1>3, <2>2, <2>5, <2>6
<1>4. ASSUME NEW d \in Device, NEW onoff \in BOOLEAN, Done(d, onoff)
      PROVE  Closes
  <2> DEFINE order == orders[d]
             msg == OrderDone(order.client, d, onoff)
  <2>1. order \in Order /\ order # None
    BY <1>4 DEF Done, TypeOK
  <2>2. ~IsLocal(order) /\ Send(order.paraid, msg) /\ RemoveOrder(d)
    BY <1>1, <1>4 DEF Done
  <2>3. [dest |-> order.paraid, msg |-> msg] \in Outbound
    BY <2>1, OrderTypes, AnswerType DEF Outbound
  <2>4. out = [dest |-> order.paraid, msg |-> msg]
    BY <1>s, <2>2, <2>3, SentLast
  <2>5. out.dest = order.paraid /\ out.msg.client = order.client /\ out.msg.device = d
    BY <2>4 DEF OrderDone
  <2>6. orders'[d] = None
    BY <2>2 DEF RemoveOrder, TypeOK
  <2> QED
    BY <2>1, <2>2, <2>5, <2>6
<1>5. ASSUME NEW who \in Client, NEW d \in Device, Cancel(who, d)
      PROVE  Closes
  BY <1>3, <1>5 DEF Cancel
<1>6. ASSUME NEW d \in Device, NEW onoff \in BOOLEAN, Reject(d, onoff)
      PROVE  Closes
  BY <1>1, <1>3, <1>6 DEF Reject
<1>7. ASSUME NEW d \in Device, Accept(d)
      PROVE  FALSE
  BY <1>2, <1>7 DEF Accept, TypeOK
<1>8. ASSUME NEW who \in Client, NEW d \in Device, NEW fee \in Fees, NEW until \in Moment,
             NEW state \in OnReceived, PlaceOrder(who, d, fee, until, state)
      PROVE  FALSE
  <2> DEFINE order == [client |-> who, fee |-> fee, until |-> until, paraid |-> SelfParaId]
  <2>1. order \in Order
    BY ServiceAssumption DEF Order
  <2>2. AcceptOrder(order, d)
    BY <1>1, <1>8 DEF PlaceOrder, TakeOrder
  <2> QED
    BY <1>2, <2>1, <2>2
<1>9. ASSUME NEW state \in OnReceived, ReceiveOrder(state)
      PROVE  FALSE
  <2> DEFINE msg == Head(batch).msg
             order == [client |-> msg.client, fee |-> msg.order.fee,
                       until |-> msg.order.until, paraid |-> Head(batch).sender]
  <2>1. order \in Order /\ msg.order.device \in Device
    BY <1>9, HeadTypes DEF ReceiveOrder, Order, OrderBase
  <2>2. AcceptOrder(order, msg.order.device)
    BY <1>1, <1>9 DEF ReceiveOrder, TakeOrder
  <2> QED
    BY <1>2, <2>1, <2>2
<1>10. ~Carry
  BY <1>s DEF Carry
<1>11. ASSUME \/ DropOrder \/ AbortBatch \/ Tick
              \/ \E blobs : BeginBatch(blobs)
              \/ \E from, to, amount : Spend(from, to, amount)
              \/ \E d, penalty, wcd, onoff : Register(d, penalty, wcd, onoff)
              \/ \E d, onoff : SetState(d, onoff)
              \/ UNCHANGED vars
       PROVE  FALSE
  BY <1>1, <1>11 DEF DropOrder, AbortBatch, Tick, BeginBatch, Spend, Register, SetState, vars
<1> HIDE DEF Closes
<1>12. Closes
  BY <1>4, <1>5, <1>6, <1>7, <1>8, <1>9, <1>10, <1>11
     DEF Next, Handle, Dispatch, Environment
<1> QED
  BY <1>12 DEF Closes

(* An OrderDone or OrderReject is sent only by the step that removes the   *)
(* remote order it answers.                                                *)
THEOREM AnswerClosesOrderHolds == Spec => AnswerClosesOrder
<1>1. TypeOK /\ [Next]_vars => [AnswerClosesOrderStep]_vars
  BY AnswerClosesOrderInStep
<1> QED
  BY <1>1, TypeCorrect, PTL DEF Spec, AnswerClosesOrder

-------------------------------------------------------------------------------
(* What a settlement moves                                                 *)

(* What order_reject of a local order moves: the penalty, if it is late,   *)
(* or what there is of it.                                                 *)
LEMMA RejectTotals ==
    ASSUME TypeOK, NEW d \in Device, NEW order \in Order, device[d] # None,
           IsLocal(order), order.client # d, ~RejectFails(order, d)
    PROVE  LET new == LedgerAfterReject(order, d)
               who == order.client
               penalty == device[d].penalty
           IN  \E forfeit \in 0 .. penalty :
                /\ Total(new[d]) = Left(Total(bal[d]) - forfeit)
                /\ Total(new[who]) = Left(Total(bal[who]) + forfeit)
                /\ now < order.until => forfeit = 0
                /\ now >= order.until =>
                    /\ penalty <= bal[d].reserved => forfeit = penalty
                    /\ penalty > 0 => Total(bal[who]) > 0
<1> DEFINE penalty == device[d].penalty
           who == order.client
           released == FeeReleased(order)
           new == LedgerAfterReject(order, d)
           Goal(forfeit) ==
                /\ Total(new[d]) = Left(Total(bal[d]) - forfeit)
                /\ Total(new[who]) = Left(Total(bal[who]) + forfeit)
                /\ now < order.until => forfeit = 0
                /\ now >= order.until =>
                    /\ penalty <= bal[d].reserved => forfeit = penalty
                    /\ penalty > 0 => Total(bal[who]) > 0
<1> SUFFICES \E forfeit \in 0 .. penalty : Goal(forfeit)
  OBVIOUS
<1>1. who \in Account /\ d \in Account /\ order.fee \in Nat /\ penalty \in Nat /\ who # d
  BY OrderTypes, ProfileTypes
<1>2. bal \in Ledger /\ Reaped(bal) /\ released = Unreserve(bal, who, order.fee)
  BY DEF TypeOK, FeeReleased
<1>3. now \in Nat /\ order.until \in Nat
  BY MomentAssumption DEF TypeOK, Moment, Order
<1>4. /\ now < order.until => new = Unreserve(released, d, penalty)
      /\ now >= order.until => /\ new = Repatriate(released, d, who, penalty)
                               /\ ~RepatriateFails(released, d, who, penalty)
  BY <1>3 DEF LedgerAfterReject, RejectFails
<1> HIDE DEF penalty, who, released, new
<1>5. /\ released \in Ledger /\ Reaped(released)
      /\ \A a \in Account : Total(released[a]) = Total(bal[a])
      /\ released[d] = bal[d]
  BY <1>1, <1>2, UnreserveEffect
<1>6. /\ Total(bal[d]) \in Nat /\ Left(Total(bal[d])) = Total(bal[d])
      /\ Total(bal[who]) \in Nat /\ Left(Total(bal[who])) = Total(bal[who])
      /\ bal[d].reserved \in Nat
  BY <1>1, <1>2, ReapedTotal
<1>7. CASE now < order.until
  <2>1. Total(new[d]) = Total(bal[d]) /\ Total(new[who]) = Total(bal[who])
    BY <1>1, <1>4, <1>5, <1>7, UnreserveEffect
  <2>2. Total(bal[d]) - 0 = Total(bal[d]) /\ Total(bal[who]) + 0 = Total(bal[who])
    BY <1>6
  <2>3. ~(now >= order.until)
    BY <1>3, <1>7
  <2>4. Goal(0)
    BY <1>6, <1>7, <2>1, <2>2, <2>3
  <2> HIDE DEF Goal
  <2> QED
    BY <1>1, <2>4
<1>8. CASE ~(now < order.until)
  <2>1. /\ now >= order.until /\ new = Repatriate(released, d, who, penalty)
        /\ ~RepatriateFails(released, d, who, penalty)
    BY <1>3, <1>4, <1>8
  <2>2. PICK forfeit \in 0 .. penalty :
            /\ penalty <= released[d].reserved => forfeit = penalty
            /\ Total(new[d]) = Left(Total(released[d]) - forfeit)
            /\ Total(new[who]) = Total(released[who]) + forfeit
    BY <1>1, <1>5, <2>1, RepatriateTotals
  <2>3. penalty > 0 => Total(bal[who]) > 0
    BY <1>1, <1>5, <1>6, <2>1 DEF RepatriateFails, IsAlive
  <2>4. Total(bal[who]) + forfeit = Left(Total(bal[who]) + forfeit)
    <3>1. forfeit = 0 \/ penalty > 0
      BY <1>1, <2>2
    <3>2. Total(bal[who]) = 0 \/ Total(bal[who]) >= ExistentialDeposit
      BY <1>6, DepositAssumption DEF Left
    <3> QED
      BY <1>1, <1>6, <2>2, <2>3, <3>1, <3>2, DepositAssumption DEF Left
  <2>6. /\ Total(new[d]) = Left(Total(bal[d]) - forfeit)
        /\ Total(new[who]) = Left(Total(bal[who]) + forfeit)
    BY <1>1, <1>5, <2>2, <2>4
  <2>7. penalty <= bal[d].reserved => forfeit = penalty
    BY <1>5, <2>2
  <2>8. Goal(forfeit)
    BY <1>8, <2>3, <2>6, <2>7
  <2> HIDE DEF Goal
  <2> QED
    BY <2>8
<1> QED
  BY <1>7, <1>8

(* What order_done of a local order moves, when the fee is in reserve: the *)
(* fee to the device and, if it is late and the client can pay and stay,   *)
(* the penalty, or what there is of it, to the client.                     *)
LEMMA DoneTotals ==
    ASSUME TypeOK, NEW d \in Device, NEW order \in Order, device[d] # None,
           IsAlive(bal, d), order.client # d, order.fee <= bal[order.client].reserved
    PROVE  LET new == LedgerAfterDone(order, d)
               who == order.client
               penalty == device[d].penalty
               late == now >= order.until /\ Total(bal[who]) - order.fee >= ExistentialDeposit
           IN  \E forfeit \in 0 .. penalty :
                /\ Total(new[d]) = Left(Total(bal[d]) + order.fee - forfeit)
                /\ Total(new[who]) = Left(Total(bal[who]) - order.fee + forfeit)
                /\ ~late => forfeit = 0
                /\ late /\ penalty <= bal[d].reserved => forfeit = penalty
                /\ now < order.until /\ penalty <= bal[d].reserved =>
                    new[d].reserved = bal[d].reserved - penalty
<1> DEFINE penalty == device[d].penalty
           who == order.client
           fee == order.fee
           paid == Repatriate(bal, who, d, fee)
           new == LedgerAfterDone(order, d)
           late == now >= order.until /\ Total(bal[who]) - order.fee >= ExistentialDeposit
           Goal(forfeit) ==
                /\ Total(new[d]) = Left(Total(bal[d]) + order.fee - forfeit)
                /\ Total(new[who]) = Left(Total(bal[who]) - order.fee + forfeit)
                /\ ~late => forfeit = 0
                /\ late /\ penalty <= bal[d].reserved => forfeit = penalty
                /\ now < order.until /\ penalty <= bal[d].reserved =>
                    new[d].reserved = bal[d].reserved - penalty
<1> SUFFICES \E forfeit \in 0 .. penalty : Goal(forfeit)
  OBVIOUS
<1>1. /\ who \in Account /\ d \in Account /\ fee \in Nat /\ penalty \in Nat /\ who # d
      /\ fee <= bal[who].reserved
  BY OrderTypes, ProfileTypes
<1>2. bal \in Ledger /\ Reaped(bal)
  BY DEF TypeOK
<1>3. ~RepatriateFails(bal, who, d, fee)
  BY DEF RepatriateFails
<1>4. now \in Nat /\ order.until \in Nat
  BY MomentAssumption DEF TypeOK, Moment, Order
<1>5. /\ now < order.until => new = Unreserve(paid, d, penalty)
      /\ now >= order.until =>
            IF RepatriateFails(paid, d, who, penalty)
            THEN new = paid ELSE new = Repatriate(paid, d, who, penalty)
  BY <1>3, <1>4 DEF LedgerAfterDone
<1>p. paid = Repatriate(bal, who, d, fee) /\ fee = order.fee
      /\ (late <=> now >= order.until /\ Total(bal[who]) - fee >= ExistentialDeposit)
  OBVIOUS
<1> HIDE DEF penalty, who, paid, new, fee, late
<1>6. /\ paid \in Ledger /\ Reaped(paid)
      /\ Total(paid[who]) = Left(Total(bal[who]) - fee)
      /\ Total(paid[d]) = Total(bal[d]) + fee
      /\ paid[d].reserved = bal[d].reserved
  BY <1>1, <1>2, <1>3, <1>p, RepatriateTotals
<1>7. /\ Total(bal[d]) \in Nat /\ Total(bal[d]) >= ExistentialDeposit
      /\ Total(bal[who]) \in Nat /\ bal[d].reserved \in Nat
      /\ bal[who].reserved \in Nat /\ bal[who].reserved <= Total(bal[who])
  <2>1. bal[who].free \in Nat /\ bal[who].reserved \in Nat
    BY <1>1, <1>2 DEF Ledger, Balance
  <2> QED
    BY <1>1, <1>2, <2>1, ReapedTotal DEF Total
<1>8. CASE now < order.until
  <2>1. /\ Total(new[d]) = Total(paid[d]) /\ Total(new[who]) = Total(paid[who])
        /\ new[d].reserved = paid[d].reserved - AtMost(paid[d].reserved, penalty)
    BY <1>1, <1>5, <1>6, <1>8, UnreserveEffect
  <2>2. ~late
    BY <1>4, <1>8, <1>p
  <2>3. penalty <= bal[d].reserved => new[d].reserved = bal[d].reserved - penalty
    BY <1>1, <1>6, <1>7, <2>1 DEF AtMost
  <2>4. /\ Total(new[d]) = Left(Total(bal[d]) + fee - 0)
        /\ Total(new[who]) = Left(Total(bal[who]) - fee + 0)
    BY <1>1, <1>6, <1>7, <2>1, DepositAssumption DEF Left
  <2>5. Goal(0)
    BY <1>p, <2>2, <2>3, <2>4
  <2> HIDE DEF Goal
  <2> QED
    BY <1>1, <2>5
<1>9. CASE now >= order.until /\ RepatriateFails(paid, d, who, penalty)
  <2>1. new = paid /\ ~IsAlive(paid, who) /\ ~(now < order.until)
    BY <1>4, <1>5, <1>9 DEF RepatriateFails
  <2>2. Total(paid[who]) = 0
    BY <1>1, <1>6, <2>1, ReapedTotal DEF IsAlive
  <2>3. ~late
    BY <1>1, <1>6, <1>7, <1>p, <2>2, DepositAssumption DEF Left
  <2>4. /\ Total(new[d]) = Left(Total(bal[d]) + fee - 0)
        /\ Total(new[who]) = Left(Total(bal[who]) - fee + 0)
    BY <1>1, <1>6, <1>7, <2>1, DepositAssumption DEF Left
  <2>5. Goal(0)
    BY <1>p, <2>1, <2>3, <2>4
  <2> HIDE DEF Goal
  <2> QED
    BY <1>1, <2>5
<1>10. CASE now >= order.until /\ ~RepatriateFails(paid, d, who, penalty)
  <2>1. new = Repatriate(paid, d, who, penalty) /\ ~(now < order.until)
    BY <1>4, <1>5, <1>10
  <2>2. PICK forfeit \in 0 .. penalty :
            /\ penalty <= paid[d].reserved => forfeit = penalty
            /\ Total(new[d]) = Left(Total(paid[d]) - forfeit)
            /\ Total(new[who]) = Total(paid[who]) + forfeit
    BY <1>1, <1>6, <1>10, <2>1, RepatriateTotals
  <2>5. /\ Total(new[d]) = Left(Total(bal[d]) + fee - forfeit)
        /\ penalty <= bal[d].reserved => forfeit = penalty
    <3>1. Total(paid[d]) - forfeit = Total(bal[d]) + fee - forfeit
      BY <1>1, <1>6, <1>7
    <3> QED
      BY <1>6, <2>2, <3>1
  <2>3. CASE late
    <3>1. Total(bal[who]) - fee >= ExistentialDeposit
      BY <1>p, <2>3
    <3>2. Total(new[who]) = Left(Total(bal[who]) - fee + forfeit)
      BY <1>1, <1>6, <1>7, <2>2, <3>1, DepositAssumption DEF Left
    <3>3. Goal(forfeit)
      BY <1>p, <2>1, <2>5, <2>3, <3>2
    <3> HIDE DEF Goal
    <3> QED
      BY <3>3
  <2>4. CASE ~late
    <3>1. ~(Total(bal[who]) - fee >= ExistentialDeposit)
      BY <1>10, <1>p, <2>4
    <3>2. Total(paid[who]) = 0
      BY <1>1, <1>6, <1>7, <3>1, DepositAssumption DEF Left
    <3>3. penalty = 0
      BY <1>1, <1>10, <3>2 DEF RepatriateFails, IsAlive
    <3>4. forfeit = 0
      BY <2>2, <3>3
    <3>5. Total(new[who]) = Left(Total(bal[who]) - fee + forfeit)
      BY <1>1, <1>6, <1>7, <2>2, <3>1, <3>4, DepositAssumption DEF Left
    <3>6. Goal(forfeit)
      BY <1>p, <2>1, <2>5, <2>4, <3>4, <3>5
    <3> HIDE DEF Goal
    <3> QED
      BY <3>6
  <2> QED
    BY <2>3, <2>4
<1> QED
  BY <1>4, <1>8, <1>9, <1>10

(* What a client that is no device has in reserve covers each of its fees. *)
LEMMA FeeInReserve ==
    ASSUME NoDustFees, FeesInv, NEW d \in Device, orders[d] # None, IsLocal(orders[d]),
           orders[d].client \notin Device
    PROVE  /\ orders[d] \in Order
           /\ orders[d].fee <= bal[orders[d].client].reserved
<1> DEFINE c == orders[d].client
<1>1. Registered /\ orders[d] \in Order /\ c \in Client \ Device
  BY OrderTypes DEF FeesInv, Registered, TypeOK
<1>2. FeeAt(c)[d] = orders[d].fee
  BY DEF FeeAt
<1> HIDE DEF c
<1>3. bal[c].reserved = SumFunctionOnSet(FeeAt(c), Device)
  BY <1>1 DEF FeesInv, FeesExact
<1>4. \A e \in Device : FeeAt(c)[e] \in Nat
  BY <1>1, CommitmentTypes
<1>5. FeeAt(c)[d] <= SumFunctionOnSet(FeeAt(c), Device)
  BY <1>4, DeviceAssumption, SumAtLeast
<1> QED
  BY <1>1, <1>2, <1>3, <1>5 DEF c

LEMMA DoneSettlesInStep == NoDustFees /\ FeesInv /\ IInv /\ [Next]_vars => DoneSettlesStep
<1> SUFFICES ASSUME NoDustFees, FeesInv, IInv, NEW d \in Device \ Client, NEW onoff \in BOOLEAN,
                    Done(d, onoff), IsLocal(orders[d]), orders[d].client \notin Device,
                    device[d].penalty >= ExistentialDeposit
             PROVE  LET order == orders[d]
                        penalty == device[d].penalty
                        survives == Total(bal[order.client]) - order.fee >= ExistentialDeposit
                        forfeit == IF now >= order.until /\ survives THEN penalty ELSE 0
                    IN  /\ Total(bal'[d]) = LessDust(Total(bal[d]) + order.fee - forfeit)
                        /\ Total(bal'[order.client]) =
                             LessDust(Total(bal[order.client]) - order.fee + forfeit)
                        /\ now < order.until => bal'[d].reserved = bal[d].reserved - penalty
  BY DEF DoneSettlesStep
<1> DEFINE order == orders[d]
           penalty == device[d].penalty
           late == now >= order.until /\ Total(bal[order.client]) - order.fee >= ExistentialDeposit
<1>1. /\ TypeOK /\ device[d] # None /\ IsAlive(bal, d) /\ orders[d] # None
      /\ bal' = LedgerAfterDone(order, d)
  BY DEF Done, Signed, IInv, Registered
<1>2. order \in Order /\ order.fee <= bal[order.client].reserved /\ order.client # d
  BY <1>1, FeeInReserve
<1>3. penalty <= bal[d].reserved
  <2>1. penalty \in Nat /\ bal[d].reserved \in Nat
    BY <1>1, ProfileTypes, CommitmentTypes DEF IInv, Registered
  <2> QED
    BY <1>1, <2>1 DEF IInv, PenaltyBacked
<1>4. PICK forfeit \in 0 .. penalty :
            /\ Total(bal'[d]) = Left(Total(bal[d]) + order.fee - forfeit)
            /\ Total(bal'[order.client]) = Left(Total(bal[order.client]) - order.fee + forfeit)
            /\ ~late => forfeit = 0
            /\ late => forfeit = penalty
            /\ now < order.until => bal'[d].reserved = bal[d].reserved - penalty
  BY <1>1, <1>2, <1>3, DoneTotals
<1>5. forfeit = IF late THEN penalty ELSE 0
  BY <1>4
<1> QED
  BY <1>4, <1>5 DEF Left, LessDust

(* Where fees are no dust, order_done pays the device to the unit and      *)
(* takes the penalty of a late one in full, if the client outlives the     *)
(* fee: whatever other orders the client has open with other devices.      *)
THEOREM DoneSettlesHolds ==
    ASSUME \A fee \in Fees : fee = 0 \/ fee >= ExistentialDeposit
    PROVE  Spec => DoneSettles
<1>a. NoDustFees
  BY DEF NoDustFees, DustFree
<1>1. FeesInv /\ IInv /\ [Next]_vars => [DoneSettlesStep]_vars
  BY <1>a, DoneSettlesInStep
<1> QED
  BY <1>1, Invariance, FeesInit, FeesStep, PTL DEF Spec, DoneSettles

-------------------------------------------------------------------------------
(* The chain keeps its orders as Escrow promises                           *)

(* The chain as Escrow sees it                                             *)
Owned == [a \in Account |-> Total(bal[a])]
Contracts ==
    [d \in Device |->
        IF orders[d] # None /\ IsLocal(orders[d])
        THEN [client |-> orders[d].client, fee |-> orders[d].fee,
              until |-> orders[d].until, penalty |-> device[d].penalty]
        ELSE None]

(* What the theorem asks of the constants                                  *)
Separate ==
    /\ Client \cap Device = {}
    /\ NoDustFees
    /\ None \notin [client : Client, fee : Nat, until : Nat, penalty : Nat]

LEMMA ContractTypes ==
    ASSUME Separate, Registered, NEW d \in Device
    PROVE  /\ Contracts[d] = None <=> ~(orders[d] # None /\ IsLocal(orders[d]))
           /\ Contracts[d] # None =>
                /\ Contracts[d] \in E!Contract
                /\ Contracts[d].client = orders[d].client
                /\ Contracts[d].fee = orders[d].fee
                /\ Contracts[d].until = orders[d].until
                /\ Contracts[d].penalty = device[d].penalty
                /\ orders[d] \in Order /\ device[d] # None
                /\ orders[d].client \in Client
                /\ orders[d].client \in Account /\ orders[d].client # d
                /\ orders[d].fee \in Nat /\ orders[d].until \in Nat
                /\ device[d].penalty \in Nat
<1>1. CASE ~(orders[d] # None /\ IsLocal(orders[d]))
  BY <1>1 DEF Contracts
<1>2. CASE orders[d] # None /\ IsLocal(orders[d])
  <2> DEFINE k == [client |-> orders[d].client, fee |-> orders[d].fee,
                   until |-> orders[d].until, penalty |-> device[d].penalty]
  <2>1. orders[d] \in Order /\ device[d] # None /\ TypeOK
    BY <1>2 DEF Registered, TypeOK, OrderHasDevice
  <2>2. /\ orders[d].client \in Client /\ orders[d].client \in Account
        /\ orders[d].client # d
        /\ orders[d].fee \in Fees /\ orders[d].fee \in Nat
        /\ orders[d].until \in Nat /\ device[d].penalty \in Nat
    <3>1. orders[d].until \in Nat /\ orders[d].fee \in Fees
      BY <2>1, MomentAssumption DEF Order, Moment
    <3> QED
      BY <2>1, <3>1, OrderTypes, ProfileTypes DEF Separate
  <2>3. orders[d].fee \in {0} \cup {fee \in Nat : fee >= ExistentialDeposit}
    BY <2>2 DEF Separate, NoDustFees, DustFree
  <2>4. Contracts[d] = k
    BY <1>2 DEF Contracts
  <2>5. k \in [client : Client, fee : Nat, until : Nat, penalty : Nat] /\ k \in E!Contract
    BY <2>2, <2>3 DEF E!Contract
  <2>6. k # None
    BY <2>5 DEF Separate
  <2> QED
    BY <1>2, <2>1, <2>2, <2>4, <2>5, <2>6
<1> QED
  BY <1>1, <1>2

(* What Escrow holds back of an account is in reserve there.               *)
LEMMA HeldInReserve ==
    ASSUME Separate, FeesInv, IInv, NEW a \in Account
    PROVE  E!Held(a) \in Nat /\ E!Held(a) <= bal[a].reserved
<1> DEFINE mine == {d \in Device : Contracts[d] # None /\ Contracts[d].client = a}
           fees == [d \in mine |-> Contracts[d].fee]
           stake == IF a \in Device /\ Contracts[a] # None
                    THEN E!Kept(Contracts[a].penalty) ELSE 0
<1>1. Registered /\ bal[a].reserved \in Nat
  BY CommitmentTypes DEF FeesInv
<1>2. E!Held(a) = SumFunctionOnSet(fees, mine) + stake
  BY DEF E!Held, Contracts, E!SumFunctionOnSet, SumFunctionOnSet, E!FoldFunctionOnSet,
         FoldFunctionOnSet, E!MapThenFoldSet, MapThenFoldSet
<1>3. ASSUME NEW d \in Device
      PROVE  d \in mine <=> orders[d] # None /\ IsLocal(orders[d]) /\ orders[d].client = a
  BY <1>1, ContractTypes
<1>4. \A d \in mine : Contracts[d].fee = orders[d].fee
  BY <1>1, ContractTypes
<1>5. CASE a \in Client
  <2>1. bal[a].reserved = SumFunctionOnSet(FeeAt(a), Device)
    BY <1>5 DEF Separate, FeesInv, FeesExact
  <2>2. \A d \in Device : FeeAt(a)[d] \in Nat
    BY <1>1, <1>5, CommitmentTypes
  <2>3. /\ mine \in SUBSET Device
        /\ \A d \in Device \ mine : FeeAt(a)[d] = 0
        /\ \A d \in mine : fees[d] = FeeAt(a)[d]
    BY <1>3, <1>4 DEF FeeAt
  <2>4. stake = 0
    BY <1>5 DEF Separate
  <2> HIDE DEF mine, fees, stake
  <2>5. SumFunctionOnSet(FeeAt(a), Device) = SumFunctionOnSet(fees, mine)
    BY <2>2, <2>3, DeviceAssumption, SumSupport
  <2> QED
    BY <1>1, <1>2, <2>1, <2>4, <2>5
<1>6. CASE a \notin Client
  <2>1. mine = {}
    BY <1>1, <1>6, ContractTypes
  <2>2. SumFunctionOnSet(fees, {}) = 0
    BY FS_EmptySet, SumUnfold
  <2>3. stake \in Nat /\ stake <= bal[a].reserved
    <3>1. CASE a \in Device /\ Contracts[a] # None
      <4>1. /\ Contracts[a].penalty = device[a].penalty /\ device[a].penalty \in Nat
            /\ orders[a] # None /\ IsLocal(orders[a])
        BY <1>1, <3>1, ContractTypes
      <4>2. device[a].penalty >= ExistentialDeposit => bal[a].reserved >= device[a].penalty
        BY <1>6, <3>1, <4>1 DEF IInv, PenaltyBacked
      <4>3. stake = E!Kept(device[a].penalty)
        BY <3>1, <4>1
      <4> HIDE DEF stake
      <4> QED
        BY <1>1, <4>1, <4>2, <4>3, DepositAssumption DEF E!Kept
    <3>2. CASE ~(a \in Device /\ Contracts[a] # None)
      BY <1>1, <3>2
    <3> QED
      BY <3>1, <3>2
  <2> HIDE DEF mine, fees, stake
  <2> QED
    BY <1>1, <1>2, <2>1, <2>2, <2>3
<1> QED
  BY <1>5, <1>6

(* An order is closed, and what its two parties own moves with it.         *)
LEMMA SettlingCloses ==
    ASSUME Separate, Registered, NEW d \in Device, orders[d] # None, IsLocal(orders[d]),
           NEW paid \in Nat, NEW forfeit \in Nat,
           orders' = [orders EXCEPT ![d] = None], now' = now, bal' \in Ledger,
           \A e \in Device \ {d} : orders[e] # None => device'[e].penalty = device[e].penalty,
           \A a \in Account \ {orders[d].client, d} : bal'[a] = bal[a],
           Total(bal'[d]) = Left(Total(bal[d]) + paid - forfeit),
           Total(bal'[orders[d].client]) = Left(Total(bal[orders[d].client]) + forfeit - paid)
    PROVE  /\ E!Close(d, paid, forfeit)
           /\ Contracts[d] # None /\ Contracts'[d] = None
<1> DEFINE who == orders[d].client
<1>1. /\ Contracts[d] # None /\ Contracts[d].client = who
      /\ who \in Account /\ d \in Account /\ who # d
  BY ContractTypes, AccountsAssumption
<1>2. orders'[d] = None /\ \A e \in Device \ {d} : orders'[e] = orders[e]
  BY DEF Registered, TypeOK
<1>3. Contracts' = [Contracts EXCEPT ![d] = None]
  <2>1. /\ Contracts = [e \in Device |-> Contracts[e]]
        /\ Contracts' = [e \in Device |-> Contracts'[e]]
    BY DEF Contracts
  <2>2. Contracts'[d] = None
    BY <1>2 DEF Contracts
  <2>3. \A e \in Device \ {d} : Contracts'[e] = Contracts[e]
    BY <1>2 DEF Contracts, IsLocal
  <2> QED
    BY <2>1, <2>2, <2>3
<1>4. /\ Owned[d] = Total(bal[d]) /\ Owned[who] = Total(bal[who])
      /\ Owned'[d] = E!Kept(Owned[d] + paid - forfeit)
      /\ Owned'[who] = E!Kept(Owned[who] + forfeit - paid)
      /\ \A a \in Account \ {d, who} : Owned'[a] = Owned[a]
  BY <1>1 DEF Owned, Left, E!Kept
<1> HIDE DEF who
<1>5. Owned' = [Owned EXCEPT ![who] = E!Kept(@ + forfeit - paid),
                             ![d] = E!Kept(@ + paid - forfeit)]
  <2>1. Owned = [a \in Account |-> Owned[a]] /\ Owned' = [a \in Account |-> Owned'[a]]
    BY DEF Owned
  <2> QED
    BY <1>1, <1>4, <2>1
<1>6. E!Close(d, paid, forfeit)
  BY <1>1, <1>3, <1>5 DEF E!Close, Owned, Contracts
<1> QED
  BY <1>1, <1>2, <1>6 DEF Contracts
(* A step that closes, opens and moves nothing                             *)
LEMMA Unmoved ==
    ASSUME Contracts' = Contracts, \A a \in Account : Total(bal'[a]) = Total(bal[a]),
           now' = now \/ now' = now + 1
    PROVE  [E!Next]_(E!vars)
<1>1. Owned' = Owned
  BY DEF Owned
<1> QED
  BY <1>1 DEF E!Next, E!Advance, E!vars, Owned, Contracts

LEMMA SameContracts ==
    ASSUME \A e \in Device :
                \/ /\ orders'[e] = orders[e]
                   /\ orders[e] # None => device'[e].penalty = device[e].penalty
                \/ /\ ~(orders[e] # None /\ IsLocal(orders[e]))
                   /\ ~(orders'[e] # None /\ IsLocal(orders'[e]))
    PROVE  Contracts' = Contracts
<1>1. \A e \in Device :
        (IF orders'[e] # None /\ IsLocal(orders'[e])
         THEN [client |-> orders'[e].client, fee |-> orders'[e].fee,
               until |-> orders'[e].until, penalty |-> device'[e].penalty]
         ELSE None)
        = Contracts[e]
  BY DEF Contracts, IsLocal
<1> QED
  BY <1>1 DEF Contracts, IsLocal

(* The orders of the other devices keep their terms when one is closed.     *)
LEMMA OthersKeep ==
    ASSUME Registered, NEW d \in Device,
           \A e \in Device \ {d} : device'[e] = OnKilledAccount(bal, bal')[e]
    PROVE  \A e \in Device \ {d} : orders[e] # None => device'[e].penalty = device[e].penalty
<1> SUFFICES ASSUME NEW e \in Device \ {d}, orders[e] # None
             PROVE  device'[e].penalty = device[e].penalty
  OBVIOUS
<1>1. device'[e] = OnKilledAccount(bal, bal')[e]
  OBVIOUS
<1> QED
  BY <1>1, KeptAsIs DEF Kept

(* order_reject releases an order that is on time and compensates the      *)
(* client of a late one; stopped by its error, it does neither.            *)
LEMMA RejectKeepsEscrow ==
    ASSUME Separate, IInv, IInv', NEW d \in Device, NEW state, NEW onoff, orders[d] # None,
           RejectOrder(orders[d], d, state, onoff), now' = now
    PROVE  [E!Next]_(E!vars)
<1> DEFINE order == orders[d]
           who == order.client
           penalty == device[d].penalty
<1>1. /\ Registered /\ TypeOK /\ bal \in Ledger /\ Reaped(bal) /\ bal' \in Ledger
      /\ order \in Order /\ who \in Client /\ who \in Account /\ who # d
      /\ order.fee \in Nat /\ device[d] # None /\ penalty \in Nat /\ d \in Account
  BY OrderTypes, ProfileTypes DEF IInv, Registered, TypeOK, OrderHasDevice, Separate
<1>2. CASE RejectFails(order, d)
  <2>1. bal' = FeeReleased(order) /\ UNCHANGED <<device, orders>>
    BY <1>2 DEF RejectOrder
  <2>2. \A a \in Account : Total(bal'[a]) = Total(bal[a])
    BY <1>1, <2>1, UnreserveEffect DEF FeeReleased
  <2>3. Contracts' = Contracts
    BY <2>1, SameContracts
  <2> QED
    BY <2>2, <2>3, Unmoved
<1>3. CASE ~RejectFails(order, d)
  <2>1. /\ orders' = [orders EXCEPT ![d] = None]
        /\ device' = [OnKilledAccount(bal, bal') EXCEPT
                        ![d] = [device[d] EXCEPT !.state = state]]
        /\ bal' = IF IsLocal(order) THEN LedgerAfterReject(order, d) ELSE bal
    BY <1>3 DEF RejectOrder, RemoveOrder
  <2>2. \A e \in Device \ {d} : orders[e] # None => device'[e].penalty = device[e].penalty
    <3>1. \A e \in Device \ {d} : device'[e] = OnKilledAccount(bal, bal')[e]
      BY <2>1 DEF OnKilledAccount
    <3> QED
      BY <1>1, <3>1, OthersKeep
  <2>3. orders'[d] = None /\ \A e \in Device \ {d} : orders'[e] = orders[e]
    BY <1>1, <2>1 DEF TypeOK
  <2>4. CASE ~IsLocal(order)
    <3>1. bal' = bal
      BY <2>1, <2>4
    <3>2. Contracts' = Contracts
      BY <2>2, <2>3, <2>4, SameContracts
    <3> QED
      BY <3>1, <3>2, Unmoved
  <2>5. CASE IsLocal(order)
    <3>1. bal' = LedgerAfterReject(order, d)
      BY <2>1, <2>5
    <3>2. \A a \in Account \ {who, d} : bal'[a] = bal[a]
      BY <1>1, <1>3, <2>5, <3>1, RejectLedger
    <3>3. PICK forfeit \in 0 .. penalty :
                /\ Total(bal'[d]) = Left(Total(bal[d]) - forfeit)
                /\ Total(bal'[who]) = Left(Total(bal[who]) + forfeit)
                /\ now < order.until => forfeit = 0
                /\ now >= order.until =>
                    /\ penalty <= bal[d].reserved => forfeit = penalty
                    /\ penalty > 0 => Total(bal[who]) > 0
      BY <1>1, <1>3, <2>5, <3>1, RejectTotals
    <3>4. forfeit \in Nat
      BY <1>1, <3>3
    <3>5. /\ Total(bal[d]) + 0 - forfeit = Total(bal[d]) - forfeit
          /\ Total(bal[who]) + forfeit - 0 = Total(bal[who]) + forfeit
      BY <1>1, <3>4, ReapedTotal
    <3>6. E!Close(d, 0, forfeit) /\ Contracts[d] # None /\ Contracts'[d] = None
      <4>1. /\ Total(bal'[d]) = Left(Total(bal[d]) + 0 - forfeit)
            /\ Total(bal'[who]) = Left(Total(bal[who]) + forfeit - 0)
        BY <3>3, <3>5
      <4> QED
        BY <1>1, <2>1, <2>2, <2>5, <3>2, <3>4, <4>1, SettlingCloses
    <3>7. /\ Contracts[d].client = who /\ Contracts[d].until = order.until
          /\ Contracts[d].penalty = penalty /\ order.until \in Nat
      BY <1>1, <3>6, ContractTypes
    <3>8. now \in Nat
      BY <1>1 DEF TypeOK, Moment
    <3>9. CASE now < order.until
      <4>1. E!Close(d, 0, 0)
        BY <3>3, <3>6, <3>9 DEF E!Close
      <4>2. now < Contracts[d].until
        BY <3>7, <3>9
      <4>3. E!Release(d)
        BY <3>6, <4>1, <4>2 DEF E!Release, Contracts
      <4> QED
        BY <4>3 DEF E!Next
    <3>10. CASE ~(now < order.until)
      <4>1. now >= order.until
        BY <3>7, <3>8, <3>10
      <4>2. penalty > 0 => Owned[Contracts[d].client] > 0
        BY <1>1, <3>3, <3>7, <4>1 DEF Owned
      <4>3. forfeit \in E!Forfeit(Contracts[d].penalty)
        <5>1. penalty >= ExistentialDeposit => penalty <= bal[d].reserved
          <6>1. d \in Device \ Client /\ bal[d].reserved \in Nat
            BY <1>1, CommitmentTypes DEF Separate
          <6> QED
            BY <1>1, <2>5, <6>1, DepositAssumption DEF IInv, PenaltyBacked
        <5>2. penalty >= ExistentialDeposit => forfeit = penalty
          BY <3>3, <4>1, <5>1
        <5> QED
          BY <1>1, <3>3, <3>7, <5>2, DepositAssumption DEF E!Forfeit
      <4>4. /\ now >= Contracts[d].until
            /\ Contracts[d].penalty > 0 => Owned[Contracts[d].client] > 0
            /\ \E forfeited \in E!Forfeit(Contracts[d].penalty) : E!Close(d, 0, forfeited)
        BY <3>6, <3>7, <4>1, <4>2, <4>3
      <4>5. E!Compensate(d)
        BY <3>6, <4>4 DEF E!Compensate, Contracts, Owned
      <4> QED
        BY <4>5 DEF E!Next
    <3> QED
      BY <3>9, <3>10
  <2> QED
    BY <2>4, <2>5
<1> QED
  BY <1>2, <1>3

(* done pays as Escrow does.                                               *)
LEMMA DoneKeepsEscrow ==
    ASSUME Separate, FeesInv, IInv, IInv', NEW d \in Device, NEW onoff \in BOOLEAN,
           Done(d, onoff)
    PROVE  [E!Next]_(E!vars)
<1> DEFINE order == orders[d]
           who == order.client
           penalty == device[d].penalty
           fee == order.fee
           late == now >= order.until /\ Total(bal[who]) - fee >= ExistentialDeposit
<1>1. /\ Registered /\ TypeOK /\ bal \in Ledger /\ Reaped(bal) /\ bal' \in Ledger
      /\ order # None /\ order \in Order /\ who \in Client /\ who \in Account /\ who # d
      /\ fee \in Nat /\ device[d] # None /\ penalty \in Nat /\ d \in Account
      /\ IsAlive(bal, d) /\ now' = now
  BY OrderTypes, ProfileTypes DEF Done, Signed, IInv, Registered, TypeOK, Separate
<1>2. /\ orders' = [orders EXCEPT ![d] = None]
      /\ \A e \in Device \ {d} : device'[e] = OnKilledAccount(bal, bal')[e]
      /\ bal' = IF IsLocal(order) THEN LedgerAfterDone(order, d) ELSE bal
  BY DEF Done, RemoveOrder, OnKilledAccount
<1>3. \A e \in Device \ {d} : orders[e] # None => device'[e].penalty = device[e].penalty
  BY <1>1, <1>2, OthersKeep
<1>4. orders'[d] = None /\ \A e \in Device \ {d} : orders'[e] = orders[e]
  BY <1>1, <1>2 DEF TypeOK
<1>5. CASE ~IsLocal(order)
  <2>1. bal' = bal
    BY <1>2, <1>5
  <2>2. Contracts' = Contracts
    BY <1>3, <1>4, <1>5, SameContracts
  <2> QED
    BY <1>1, <2>1, <2>2, Unmoved
<1>6. CASE IsLocal(order)
  <2>1. bal' = LedgerAfterDone(order, d)
    BY <1>2, <1>6
  <2>2. \A a \in Account \ {who, d} : bal'[a] = bal[a]
    BY <1>1, <2>1, DoneLedger
  <2>3. fee <= bal[who].reserved
    BY <1>1, <1>6, FeeInReserve DEF Separate
  <2>4. PICK forfeit \in 0 .. penalty :
            /\ Total(bal'[d]) = Left(Total(bal[d]) + fee - forfeit)
            /\ Total(bal'[who]) = Left(Total(bal[who]) - fee + forfeit)
            /\ ~late => forfeit = 0
            /\ late /\ penalty <= bal[d].reserved => forfeit = penalty
    BY <1>1, <2>1, <2>3, DoneTotals
  <2>5. /\ forfeit \in Nat
        /\ Total(bal[who]) - fee + forfeit = Total(bal[who]) + forfeit - fee
        /\ Total(bal[who]) \in Nat
    BY <1>1, <2>4, ReapedTotal
  <2>6. E!Close(d, fee, forfeit) /\ Contracts[d] # None /\ Contracts'[d] = None
    <3>1. Total(bal'[who]) = Left(Total(bal[who]) + forfeit - fee)
      BY <2>4, <2>5
    <3> QED
      BY <1>1, <1>2, <1>3, <1>6, <2>2, <2>4, <2>5, <3>1, SettlingCloses
  <2>7. /\ Contracts[d].client = who /\ Contracts[d].until = order.until
        /\ Contracts[d].penalty = penalty /\ Contracts[d].fee = fee
    BY <1>1, <2>6, ContractTypes
  <2>8. (now >= Contracts[d].until /\ E!Kept(Owned[Contracts[d].client] - Contracts[d].fee) > 0)
            <=> late
    <3>1. E!Kept(Total(bal[who]) - fee) > 0 <=> Total(bal[who]) - fee >= ExistentialDeposit
      BY <1>1, <2>5, DepositAssumption DEF E!Kept
    <3> QED
      BY <1>1, <2>7, <3>1 DEF Owned
  <2>9. late => forfeit \in E!Forfeit(penalty)
    <3>1. penalty >= ExistentialDeposit => penalty <= bal[d].reserved
      <4>1. d \in Device \ Client /\ bal[d].reserved \in Nat
        BY <1>1, CommitmentTypes DEF Separate
      <4> QED
        BY <1>1, <1>6, <4>1, DepositAssumption DEF IInv, PenaltyBacked
    <3>2. late /\ penalty >= ExistentialDeposit => forfeit = penalty
      BY <2>4, <3>1
    <3> QED
      BY <1>1, <2>4, <3>2, DepositAssumption DEF E!Forfeit
  <2> HIDE DEF late
  <2>10. IF now >= Contracts[d].until
                /\ E!Kept(Owned[Contracts[d].client] - Contracts[d].fee) > 0
         THEN \E forfeited \in E!Forfeit(Contracts[d].penalty) :
                E!Close(d, Contracts[d].fee, forfeited)
         ELSE E!Close(d, Contracts[d].fee, 0)
    <3>1. E!Close(d, Contracts[d].fee, forfeit)
      BY <2>6, <2>7 DEF E!Close
    <3>2. CASE late
      BY <2>7, <2>8, <2>9, <3>1, <3>2
    <3>3. CASE ~late
      <4>1. forfeit = 0
        BY <2>4, <3>3
      <4>2. E!Close(d, Contracts[d].fee, 0)
        BY <3>1, <4>1 DEF E!Close
      <4> QED
        BY <2>8, <3>3, <4>2
    <3> QED
      BY <3>2, <3>3
  <2>11. E!Pay(d)
    BY <2>6, <2>10 DEF E!Pay, Contracts, Owned
  <2> QED
    BY <2>11 DEF E!Next
<1> QED
  BY <1>5, <1>6

(* `order` puts the fee and the penalty out of their owners' reach.        *)
LEMMA PlaceKeepsEscrow ==
    ASSUME Separate, IInv, IInv', NEW who \in Client, NEW d \in Device, NEW fee \in Fees,
           NEW until \in Moment, NEW state \in OnReceived,
           PlaceOrder(who, d, fee, until, state)
    PROVE  [E!Next]_(E!vars)
<1> DEFINE penalty == device[d].penalty
           backed == Reserve(bal, d, penalty)
           order == [client |-> who, fee |-> fee, until |-> until, paraid |-> SelfParaId]
<1>1. Registered /\ Registered' /\ bal \in Ledger /\ Reaped(bal) /\ who # d
  BY DEF IInv, Registered, TypeOK, Separate
<1>2. /\ d \in Account /\ who \in Account /\ penalty \in Nat /\ fee \in Nat
      /\ orders[d] = None
      /\ CanReserve(bal, d, penalty)
      /\ backed \in Ledger /\ Reaped(backed)
      /\ order \in Order
      /\ CanReserve(backed, who, fee)
      /\ bal' = Reserve(backed, who, fee)
      /\ orders'[d] = order
      /\ device'[d].penalty = penalty
      /\ \A e \in Device \ {d} : orders'[e] = orders[e] /\ device'[e] = device[e]
  BY <1>1, PlaceEffect
<1>3. now' = now /\ now < until
  BY DEF PlaceOrder, Admissible
<1>4. \A a \in Account : Total(bal'[a]) = Total(bal[a])
  <2> HIDE DEF penalty
  <2>1. \A a \in Account : Total(backed[a]) = Total(bal[a])
    BY <1>1, <1>2, ReserveEffect
  <2> HIDE DEF backed
  <2>2. \A a \in Account : Total(bal'[a]) = Total(backed[a])
    BY <1>2, ReserveEffect
  <2> QED
    BY <2>1, <2>2
<1>5. Owned' = Owned
  BY <1>4 DEF Owned
<1>6. orders'[d] # None /\ IsLocal(orders'[d])
  BY <1>2, NoneIsAbsent DEF IsLocal
<1>7. Contracts[d] = None
  BY <1>2 DEF Contracts
<1> DEFINE k == [client |-> who, fee |-> fee, until |-> until, penalty |-> penalty]
<1>8. Contracts'[d] = k
  BY <1>2, <1>6 DEF Contracts, IsLocal
<1>9. k \in E!Contract /\ k # None /\ k.client # d /\ k.until > now
  <2>1. until \in Nat
    BY MomentAssumption DEF Moment
  <2>2. fee \in {0} \cup {f \in Nat : f >= ExistentialDeposit}
    BY <1>2 DEF Separate, NoDustFees, DustFree
  <2>3. k \in [client : Client, fee : Nat, until : Nat, penalty : Nat]
    BY <1>2, <2>1
  <2> QED
    BY <1>1, <1>2, <1>3, <2>1, <2>2, <2>3 DEF E!Contract, Separate
<1>10. Contracts' = [Contracts EXCEPT ![d] = Contracts'[d]]
  <2>1. /\ Contracts = [e \in Device |-> Contracts[e]]
        /\ Contracts' = [e \in Device |-> Contracts'[e]]
    BY DEF Contracts
  <2>2. \A e \in Device \ {d} : Contracts'[e] = Contracts[e]
    BY <1>2 DEF Contracts, IsLocal
  <2> QED
    BY <2>1, <2>2
<1> HIDE DEF k
<1>11. /\ Contracts[d] = None /\ Contracts'[d] # None /\ Contracts'[d] \in E!Contract
       /\ Contracts'[d].client # d /\ Contracts'[d].until > now
  BY <1>7, <1>8, <1>9
<1>12. E!Open(d)
  BY <1>3, <1>5, <1>10, <1>11 DEF E!Open, Owned, Contracts
<1> QED
  BY <1>12 DEF E!Next

(* A transfer takes what is free, so nothing that Escrow holds.            *)
LEMMA SpendKeepsEscrow ==
    ASSUME Separate, FeesInv, IInv, NEW from \in Account, NEW to \in Account, NEW amount,
           Spend(from, to, amount)
    PROVE  [E!Next]_(E!vars)
<1> DEFINE left == [free |-> bal[from].free - amount, reserved |-> bal[from].reserved]
           gained == [free |-> bal[to].free + amount, reserved |-> bal[to].reserved]
<1>1. /\ Registered /\ bal \in Ledger /\ Reaped(bal)
      /\ bal' = Transfer(bal, from, to, amount)
      /\ from # to /\ amount \in 1 .. bal[from].free
      /\ now' = now /\ orders' = orders /\ device' = OnKilledAccount(bal, bal')
  BY DEF Spend, CanTransfer, IInv, Registered, TypeOK
<1>2. /\ bal[from].free \in Nat /\ bal[from].reserved \in Nat
      /\ bal[to].free \in Nat /\ bal[to].reserved \in Nat
      /\ amount \in Nat /\ amount > 0 /\ amount <= bal[from].free
  BY <1>1 DEF Ledger, Balance
<1>3. /\ left \in Balance /\ Total(left) = Total(bal[from]) - amount
      /\ Total(gained) = Total(bal[to]) + amount
  BY <1>2 DEF Balance, Total
<1>4. bal' = [bal EXCEPT ![from] = Reap(left), ![to] = gained]
  BY <1>1 DEF Transfer, Ledger
<1> HIDE DEF left, gained
<1>5. /\ Total(bal'[from]) = Left(Total(bal[from]) - amount)
      /\ Total(bal'[to]) = Total(bal[to]) + amount
      /\ \A a \in Account \ {from, to} : bal'[a] = bal[a]
  BY <1>1, <1>3, <1>4, ReapTotal DEF Ledger
<1>6. /\ Owned'[from] = E!Kept(Owned[from] - amount)
      /\ Owned'[to] = Owned[to] + amount
      /\ \A a \in Account \ {from, to} : Owned'[a] = Owned[a]
  BY <1>5 DEF Owned, Left, E!Kept
<1>7. Owned' = [Owned EXCEPT ![from] = E!Kept(@ - amount), ![to] = @ + amount]
  <2>1. Owned = [a \in Account |-> Owned[a]] /\ Owned' = [a \in Account |-> Owned'[a]]
    BY DEF Owned
  <2> QED
    BY <1>1, <1>6, <2>1
<1>8. Owned[from] = bal[from].free + bal[from].reserved
  BY DEF Owned, Total
<1>9. amount \in 1 .. Owned[from] - E!Held(from)
  BY <1>2, <1>8, HeldInReserve
<1>10. Owned'[from] < Owned[from]
  BY <1>2, <1>6, <1>8, DepositAssumption DEF E!Kept
<1>11. Contracts' = Contracts
  <2>1. \A e \in Device : orders[e] # None => device'[e].penalty = device[e].penalty
    BY <1>1, KeptAsIs DEF Kept
  <2> QED
    BY <1>1, <2>1, SameContracts
<1>12. E!Move(from, to)
  BY <1>1, <1>7, <1>9, <1>10, <1>11 DEF E!Move, Owned, Contracts
<1> QED
  BY <1>12 DEF E!Next

LEMMA EscrowStep ==
    Separate /\ FeesInv /\ IInv /\ IInv' /\ [Next]_vars => [E!Next]_(E!vars)
<1> SUFFICES ASSUME Separate, FeesInv, IInv, IInv', [Next]_vars
             PROVE  [E!Next]_(E!vars)
  OBVIOUS
<1> DEFINE Goal == [E!Next]_(E!vars)
<1>r. Registered /\ TypeOK
  BY DEF IInv, Registered
<1>1. ASSUME NEW who \in Client, NEW d \in Device, NEW fee \in Fees, NEW until \in Moment,
             NEW state \in OnReceived, PlaceOrder(who, d, fee, until, state)
      PROVE  Goal
  BY <1>1, PlaceKeepsEscrow
<1>2. ASSUME NEW state \in OnReceived, ReceiveOrder(state)
      PROVE  Goal
  <2> DEFINE d == Head(batch).msg.order.device
  <2>1. /\ d \in Device /\ bal' = bal
        /\ orders[d] = None /\ ~IsLocal(orders'[d])
        /\ \A e \in Device \ {d} : orders'[e] = orders[e] /\ device'[e] = device[e]
    BY <1>2, <1>r, ReceiveEffect
  <2>2. now' = now
    BY <1>2 DEF ReceiveOrder
  <2> HIDE DEF d
  <2>3. Contracts' = Contracts
    BY <2>1, SameContracts
  <2> QED
    BY <2>1, <2>2, <2>3, Unmoved
<1>3. ASSUME NEW who \in Client, NEW d \in Device, Cancel(who, d)
      PROVE  Goal
  BY <1>3, RejectKeepsEscrow DEF Cancel
<1>4. ASSUME now' = now \/ now' = now + 1, UNCHANGED <<bal, orders>>,
             \A e \in Device : orders[e] # None => device'[e].penalty = device[e].penalty
      PROVE  Goal
  BY <1>4, SameContracts, Unmoved
<1>n. ASSUME NEW d \in Device, orders[d] = None, UNCHANGED <<now, bal, orders>>,
             \A e \in Device \ {d} : device'[e] = device[e]
      PROVE  Goal
  BY <1>4, <1>n
<1>5. ASSUME NEW d \in Device, NEW onoff \in BOOLEAN, Reject(d, onoff)
      PROVE  Goal
  <2>1. CASE orders[d] # None
    BY <1>5, <2>1, RejectKeepsEscrow DEF Reject
  <2>2. CASE orders[d] = None
    BY <1>5, <1>n, <1>r, <2>2 DEF Reject, TypeOK
  <2> QED
    BY <2>1, <2>2
<1>6. ASSUME NEW d \in Device, NEW onoff \in BOOLEAN, Done(d, onoff)
      PROVE  Goal
  BY <1>6, DoneKeepsEscrow
<1>7. ASSUME NEW from \in Account, NEW to \in Account, NEW amount, Spend(from, to, amount)
      PROVE  Goal
  BY <1>7, SpendKeepsEscrow
<1>8. ASSUME NEW d \in Device, Accept(d)
      PROVE  Goal
  <2>1. /\ orders[d] \in Order /\ device[d] # None /\ UNCHANGED <<now, bal, orders>>
        /\ AcceptOrder(orders[d], d)
    BY <1>8, <1>r DEF Accept, TypeOK
  <2>2. device' = [device EXCEPT ![d] = [device[d] EXCEPT !.state = "Accepted"]]
    BY <1>r, <2>1, AcceptEffect
  <2>3. device[d] \in DeviceProfile /\ "Accepted" \in DeviceState
    BY <1>r, <2>1, ProfileTypes DEF DeviceState
  <2>4. /\ device'[d] = [device[d] EXCEPT !.state = "Accepted"]
        /\ \A e \in Device \ {d} : device'[e] = device[e]
    BY <1>r, <2>2 DEF TypeOK
  <2>5. device'[d].penalty = device[d].penalty
    BY <2>3, <2>4, SetStateType
  <2> QED
    BY <1>4, <2>1, <2>4, <2>5
<1>9. ASSUME NEW d \in Device, NEW penalty \in Penalties, NEW wcd \in Wcds,
             NEW onoff \in BOOLEAN, Register(d, penalty, wcd, onoff)
      PROVE  Goal
  BY <1>n, <1>9, <1>r DEF Register, TypeOK
<1>10. ASSUME NEW d \in Device, NEW onoff \in BOOLEAN, SetState(d, onoff)
       PROVE  Goal
  <2>1. orders[d] = None
    BY <1>10, <1>r DEF SetState, Registered, OrderHasDevice
  <2> QED
    BY <1>10, <1>n, <1>r, <2>1 DEF SetState, TypeOK
<1>11. ASSUME DropOrder \/ AbortBatch \/ Tick \/ Carry \/ UNCHANGED vars
              \/ \E blobs : BeginBatch(blobs)
       PROVE  Goal
  BY <1>4, <1>11 DEF DropOrder, AbortBatch, Tick, Carry, BeginBatch, vars
<1> HIDE DEF Goal
<1>12. Goal
  BY <1>1, <1>2, <1>3, <1>5, <1>6, <1>7, <1>8, <1>9, <1>10, <1>11
     DEF Next, Handle, Dispatch, Environment
<1> QED
  BY <1>12 DEF Goal

(* The service chain keeps the money of the orders placed on it as Escrow  *)
(* promises, for every number of clients and devices and every amount: no  *)
(* order of calls, settlements, transfers and reapings moves more or less  *)
(* than an order's fee and its device's penalty, nor lets a party spend    *)
(* them first.  No client is a device, and no fee on offer is dust.        *)
THEOREM ImplementsEscrowHolds ==
    ASSUME Client \cap Device = {},
           \A fee \in Fees : fee = 0 \/ fee >= ExistentialDeposit,
           None \notin [client : Client, fee : Nat, until : Nat, penalty : Nat]
    PROVE  Spec => ImplementsEscrow
<1>a. Separate
  BY DEF Separate, NoDustFees, DustFree
<1>1. Init => E!Init
  <2> SUFFICES ASSUME Init PROVE E!Init
    OBVIOUS
  <2>1. /\ now = 0 /\ orders = [d \in Device |-> None]
        /\ bal = [a \in Account |-> [free |-> Endowment[a], reserved |-> 0]]
    BY DEF Init
  <2>2. bal \in Ledger /\ Reaped(bal)
    BY InvInit DEF IInv, Registered, TypeOK
  <2>3. Owned \in [Account -> Nat]
    BY <2>2, ReapedTotal DEF Owned
  <2>4. Contracts = [d \in Device |-> None]
    BY <2>1 DEF Contracts
  <2> QED
    BY <2>1, <2>3, <2>4 DEF E!Init, Owned, Contracts
<1>2. FeesInv /\ IInv /\ IInv' /\ [Next]_vars => [E!Next]_(E!vars)
  BY <1>a, EscrowStep
<1> QED
  BY <1>1, <1>2, Invariance, FeesInit, FeesStep, PTL DEF Spec, ImplementsEscrow, E!Spec
===============================================================================
