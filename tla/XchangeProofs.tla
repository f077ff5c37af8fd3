----------------------------- MODULE XchangeProofs -----------------------------
(***************************************************************************)
(* Proofs about the client pallet: type correctness, then the device of an *)
(* open order, then the exact penalty, each an invariant of its own that   *)
(* uses the ones before; from them the action properties.                  *)
(***************************************************************************)
EXTENDS Xchange, CurrencyProofs

-------------------------------------------------------------------------------
(* Facts about the helpers                                                 *)

(* The value for an absent key is no profile and no order.                 *)
LEMMA NoneIsAbsent == None \notin DeviceProfile /\ None \notin Order
<1>1. Penalties \subseteq Nat /\ Wcds \subseteq Nat
  BY AmountsAssumption, MomentAssumption
<1>2. \A p \in DeviceProfile :
        p \in [penalty : Nat, wcd : Nat, para_id : ParaId, state : DeviceState]
  BY <1>1 DEF DeviceProfile
<1> QED
  BY <1>2, NoneAssumption

(* The hook forgets or marks a device; one that is not off stays, with its *)
(* terms, as it is or as Timewait.                                         *)
LEMMA HookEffect ==
    ASSUME TypeOK, NEW old, NEW new
    PROVE  LET after == OnKilledAccount(old, new)
           IN  /\ after \in [Device -> DeviceProfile \cup {None}]
               /\ \A d \in Device : device[d] # None /\ device[d].state # "Off" =>
                    /\ after[d] # None
                    /\ after[d] = [device[d] EXCEPT !.state = after[d].state]
                    /\ after[d].state = device[d].state
                       \/ (KilledHook /\ after[d].state = "Timewait")
<1> DEFINE after == OnKilledAccount(old, new)
<1> SUFFICES ASSUME NEW d \in Device
             PROVE  /\ after[d] \in DeviceProfile \cup {None}
                    /\ device[d] # None /\ device[d].state # "Off" =>
                        /\ after[d] # None
                        /\ after[d] = [device[d] EXCEPT !.state = after[d].state]
                        /\ after[d].state = device[d].state
                           \/ (KilledHook /\ after[d].state = "Timewait")
  BY DEF OnKilledAccount
<1>1. device[d] \in DeviceProfile \cup {None}
  BY DEF TypeOK
<1>2. after[d] = IF ~KilledHook \/ device[d] = None \/ d \notin Killed(old, new) THEN device[d]
                 ELSE IF device[d].state = "Off" THEN None
                 ELSE [device[d] EXCEPT !.state = "Timewait"]
  BY DEF OnKilledAccount
<1> HIDE DEF after
<1>3. CASE device[d] = None
  BY <1>2, <1>3
<1>4. CASE device[d] \in DeviceProfile
  <2>1. /\ [device[d] EXCEPT !.state = "Timewait"] \in DeviceProfile
        /\ [device[d] EXCEPT !.state = "Timewait"].state = "Timewait"
        /\ [device[d] EXCEPT !.state = device[d].state] = device[d]
    BY <1>4 DEF DeviceProfile, DeviceState
  <2> QED
    BY <1>2, <1>4, <2>1, NoneIsAbsent
<1> QED
  BY <1>1, <1>3, <1>4

(* A profile keeps its type when a handler sets the state.                 *)
LEMMA SetStateType ==
    ASSUME NEW p \in DeviceProfile, NEW state \in DeviceState
    PROVE  /\ [p EXCEPT !.state = state] \in DeviceProfile
           /\ [p EXCEPT !.state = state].state = state
           /\ [p EXCEPT !.state = state].penalty = p.penalty
BY DEF DeviceProfile

LEMMA SwitchType == ASSUME NEW onoff PROVE Switch(onoff) \in {"Ready", "Off"} /\ Switch(onoff) \in DeviceState
BY DEF Switch, DeviceState

(* A queue that is sent to stays a queue of messages.                      *)
LEMMA SendType ==
    ASSUME NEW dest \in ParaId, NEW msg \in Message, outbox \in Seq(Outbound), Send(dest, msg)
    PROVE  outbox' \in Seq(Outbound)
<1>1. [dest |-> dest, msg |-> msg] \in Outbound
  BY DEF Outbound
<1> QED
  BY <1>1 DEF Send

(* The parts of the state that TypeOK gives for an open order.             *)
LEMMA OrderTypes ==
    ASSUME TypeOK, NEW d \in Device, orders[d] # None, device[d] # None
    PROVE  /\ orders[d] \in Order
           /\ orders[d].client \in Client /\ orders[d].client \in Account
           /\ orders[d].fee \in Nat
           /\ d \in Account
           /\ device[d] \in DeviceProfile
           /\ device[d].penalty \in Nat
BY AccountsAssumption, AmountsAssumption DEF TypeOK, Order, DeviceProfile

(* order_reject keeps the types, whoever is refunded.                      *)
LEMMA RejectType ==
    ASSUME TypeOK, NEW who \in Client, NEW d \in Device, NEW state \in DeviceState,
           orders[d] # None, device[d] # None, RejectOrder(who, d, state)
    PROVE  /\ bal' \in Ledger /\ Reaped(bal')
           /\ device' \in [Device -> DeviceProfile \cup {None}]
           /\ orders' \in [Device -> Order \cup {None}]
<1> DEFINE order == orders[d]
           penalty == device[d].penalty
           released == Unreserve(bal, who, order.fee)
<1>1. /\ who \in Account /\ d \in Account /\ order.client \in Account
      /\ order.fee \in Nat /\ penalty \in Nat
      /\ device[d] \in DeviceProfile
  BY OrderTypes, AccountsAssumption
<1>2. bal \in Ledger /\ Reaped(bal) /\ device \in [Device -> DeviceProfile \cup {None}]
      /\ orders \in [Device -> Order \cup {None}]
  BY DEF TypeOK
<1> HIDE DEF order, penalty
<1>3. released \in Ledger /\ Reaped(released)
  BY <1>1, <1>2, UnreserveEffect
<1> HIDE DEF released
<1>4. CASE IsLate(order) /\ RepatriateFails(released, d, order.client, penalty)
  BY <1>2, <1>3, <1>4 DEF RejectOrder, order, penalty, released
<1>5. CASE ~(IsLate(order) /\ RepatriateFails(released, d, order.client, penalty))
  <2>1. /\ bal' = IF IsLate(order) THEN Repatriate(released, d, order.client, penalty)
                  ELSE Unreserve(released, d, penalty)
        /\ orders' = [orders EXCEPT ![d] = None]
        /\ device' = [OnKilledAccount(bal, bal') EXCEPT
                        ![d] = [device[d] EXCEPT !.state = state]]
    BY <1>5 DEF RejectOrder, RemoveOrder, order, penalty, released
  <2>2. bal' \in Ledger /\ Reaped(bal')
    BY <1>1, <1>3, <1>5, <2>1, UnreserveEffect, RepatriateType
  <2>3. OnKilledAccount(bal, bal') \in [Device -> DeviceProfile \cup {None}]
    BY HookEffect
  <2> QED
    BY <1>1, <1>2, <2>1, <2>2, <2>3, SetStateType
<1> QED
  BY <1>4, <1>5

(* on_done keeps the types, whoever is made to pay.                        *)
LEMMA FinishType ==
    ASSUME TypeOK, NEW who \in Client, NEW d \in Device, NEW state \in DeviceState,
           orders[d] # None, device[d] # None,
           ~RepatriateFails(bal, who, d, orders[d].fee), FinishOrder(who, d, state)
    PROVE  /\ bal' \in Ledger /\ Reaped(bal')
           /\ device' \in [Device -> DeviceProfile \cup {None}]
           /\ orders' \in [Device -> Order \cup {None}]
<1> DEFINE order == orders[d]
           penalty == device[d].penalty
           paid == Repatriate(bal, who, d, order.fee)
<1>1. /\ who \in Account /\ d \in Account
      /\ order.fee \in Nat /\ penalty \in Nat
      /\ device[d] \in DeviceProfile
  BY OrderTypes, AccountsAssumption
<1>2. bal \in Ledger /\ Reaped(bal) /\ device \in [Device -> DeviceProfile \cup {None}]
      /\ orders \in [Device -> Order \cup {None}]
  BY DEF TypeOK
<1>3. paid \in Ledger /\ Reaped(paid)
  BY <1>1, <1>2, RepatriateType
<1> HIDE DEF order, penalty, paid
<1>4. CASE IsLate(order) /\ RepatriateFails(paid, d, who, penalty)
  <2>1. bal' = paid /\ device' = OnKilledAccount(bal, paid) /\ orders' = orders
    BY <1>4 DEF FinishOrder, order, penalty, paid
  <2> QED
    BY <1>2, <1>3, <2>1, HookEffect
<1>5. CASE ~(IsLate(order) /\ RepatriateFails(paid, d, who, penalty))
  <2>1. /\ bal' = IF IsLate(order) THEN Repatriate(paid, d, who, penalty)
                  ELSE Unreserve(paid, d, penalty)
        /\ orders' = [orders EXCEPT ![d] = None]
        /\ device' = [OnKilledAccount(bal, bal') EXCEPT
                        ![d] = [device[d] EXCEPT !.state = state]]
    BY <1>5 DEF FinishOrder, RemoveOrder, order, penalty, paid
  <2>2. bal' \in Ledger /\ Reaped(bal')
    BY <1>1, <1>3, <1>5, <2>1, UnreserveEffect, RepatriateType
  <2>3. OnKilledAccount(bal, bal') \in [Device -> DeviceProfile \cup {None}]
    BY HookEffect
  <2> QED
    BY <1>1, <1>2, <2>1, <2>2, <2>3, SetStateType
<1> QED
  BY <1>4, <1>5

-------------------------------------------------------------------------------
(* Type correctness                                                        *)

(* What a closing answer at the head of the batch carries.                 *)
LEMMA HeadTypes ==
    ASSUME TypeOK, batch # <<>>
    PROVE  /\ Tail(batch) \in Seq(Incoming)
           /\ Head(batch).type \in {"OrderReject", "OrderDone"} =>
                Head(batch).client \in Client /\ Head(batch).device \in Device
<1>1. batch \in Seq(Incoming) /\ Head(batch) \in Incoming /\ Tail(batch) \in Seq(Incoming)
  BY DEF TypeOK
<1>2. Head(batch) \in Message
  BY <1>1, ClientChainAssumption
<1>3. ASSUME NEW m \in Message, m.type \in {"OrderReject", "OrderDone"}
      PROVE  m.client \in Client /\ m.device \in Device
  BY <1>3 DEF Message, NewOrders, Answers, Garbage
<1> QED
  BY <1>1, <1>2, <1>3

(* The ledger and the order that `order` stores are well typed.            *)
LEMMA PlaceType ==
    ASSUME TypeOK, NEW who \in Client, NEW base \in OrderBase, PlaceOrder(who, base)
    PROVE  TypeOK'
<1> DEFINE d == base.device
           penalty == device[d].penalty
           backed == Reserve(bal, d, penalty)
<1>1. /\ d \in Device /\ d \in Account /\ who \in Account
      /\ base.fee \in Nat /\ base.fee \in Fees /\ base.until \in Moment
      /\ device[d] \in DeviceProfile /\ penalty \in Nat
  BY AccountsAssumption, AmountsAssumption DEF TypeOK, OrderBase, PlaceOrder, DeviceProfile
<1>2. CanReserve(bal, d, penalty)
  BY DEF PlaceOrder
<1>3. backed \in Ledger /\ Reaped(backed)
  BY <1>1, <1>2, ReserveEffect DEF TypeOK
<1>4. now' = now /\ batch' = batch
  BY DEF PlaceOrder
<1>5. CASE CanReserve(backed, who, base.fee)
  <2> DEFINE order == ToOrder(base, who)
  <2>1. /\ bal' = Reserve(backed, who, base.fee)
        /\ orders' = [orders EXCEPT ![d] = order]
        /\ Send(device[d].para_id, NewOrder(who, ToBase(order, d)))
        /\ device' = [device EXCEPT ![d] = [device[d] EXCEPT !.state = "Busy"]]
    BY <1>5 DEF PlaceOrder
  <2>2. bal' \in Ledger /\ Reaped(bal')
    BY <1>1, <1>3, <1>5, <2>1, ReserveEffect
  <2>3. order \in Order
    BY <1>1, ParaIdAssumption DEF ToOrder, Order
  <2>4. NewOrder(who, ToBase(order, d)) \in Message
    BY <1>1 DEF NewOrder, ToBase, ToOrder, Message, NewOrders, OrderBase
  <2>5. device[d].para_id \in ParaId
    BY <1>1 DEF DeviceProfile
  <2>6. outbox' \in Seq(Outbound)
    BY <2>1, <2>4, <2>5, SendType DEF TypeOK
  <2>7. [device[d] EXCEPT !.state = "Busy"] \in DeviceProfile
    BY <1>1, SetStateType DEF DeviceState
  <2> QED
    BY <1>1, <1>4, <2>1, <2>2, <2>3, <2>6, <2>7 DEF TypeOK
<1>6. CASE ~CanReserve(backed, who, base.fee)
  <2>1. bal' = backed /\ UNCHANGED <<device, orders, outbox>>
    BY <1>6 DEF PlaceOrder
  <2> QED
    BY <1>3, <1>4, <2>1 DEF TypeOK
<1> QED
  BY <1>5, <1>6

LEMMA TypeInit == Init => TypeOK
<1> SUFFICES ASSUME Init PROVE TypeOK
  OBVIOUS
<1>1. bal \in Ledger /\ Reaped(bal)
  BY ClientChainAssumption, DepositAssumption DEF Init, Ledger, Balance, Reaped, IsAlive, Total
<1>2. now \in Moment
  BY MomentAssumption DEF Init, Moment
<1> QED
  BY <1>1, <1>2 DEF Init, TypeOK

LEMMA TypeStep == TypeOK /\ [Next]_vars => TypeOK'
<1> SUFFICES ASSUME TypeOK, [Next]_vars PROVE TypeOK'
  OBVIOUS
<1>1. ASSUME NEW who \in Client, NEW base \in OrderBase, PlaceOrder(who, base)
      PROVE  TypeOK'
  BY <1>1, PlaceType
<1>2. ASSUME NEW who \in Client, NEW d \in Device, Cancel(who, d)
      PROVE  TypeOK'
  <2>1. device[d].state \in DeviceState
    BY <1>2 DEF Cancel, TypeOK, DeviceProfile
  <2>2. /\ bal' \in Ledger /\ Reaped(bal')
        /\ device' \in [Device -> DeviceProfile \cup {None}]
        /\ orders' \in [Device -> Order \cup {None}]
    BY <1>2, <2>1, RejectType DEF Cancel
  <2> QED
    BY <1>2, <2>2 DEF Cancel, TypeOK
<1>3. ASSUME NEW d \in Device, NEW paraid \in ParaId, NEW penalty \in Penalties,
             NEW wcd \in Wcds, NEW onoff \in BOOLEAN,
             Register(d, paraid, penalty, wcd, onoff)
      PROVE  TypeOK'
  <2>1. [penalty |-> penalty, wcd |-> wcd, para_id |-> paraid, state |-> Switch(onoff)]
            \in DeviceProfile
    BY SwitchType DEF DeviceProfile
  <2> QED
    BY <1>3, <2>1 DEF Register, TypeOK
<1>4. ASSUME Test PROVE TypeOK'
  <2>1. outbox' \in Seq(Outbound)
    BY <1>4, SendType, ClientChainAssumption DEF Test, TypeOK, Message
  <2> QED
    BY <1>4, <2>1 DEF Test, TypeOK
<1>5. ASSUME NEW from \in Account, NEW to \in Account, NEW amount, Spend(from, to, amount)
      PROVE  TypeOK'
  <2>1. bal' \in Ledger /\ Reaped(bal')
    BY <1>5, TransferEffect DEF Spend, TypeOK
  <2>2. device' \in [Device -> DeviceProfile \cup {None}]
    BY <1>5, HookEffect DEF Spend
  <2> QED
    BY <1>5, <2>1, <2>2 DEF Spend, TypeOK
<1>6. ASSUME ReadOnly \/ AbortBatch PROVE TypeOK'
  <2>1. batch' \in Seq(Incoming)
    <3>1. CASE ReadOnly
      BY <3>1, HeadTypes DEF ReadOnly
    <3>2. CASE AbortBatch
      BY <3>2 DEF AbortBatch
    <3> QED
      BY <1>6, <3>1, <3>2
  <2>2. UNCHANGED <<now, bal, device, orders, outbox>>
    BY <1>6 DEF ReadOnly, AbortBatch
  <2> QED
    BY <2>1, <2>2 DEF TypeOK
<1>7. ASSUME OnReject PROVE TypeOK'
  <2> DEFINE d == Head(batch).device
  <2>1. /\ batch' \in Seq(Incoming) /\ d \in Device /\ Head(batch).client \in Client
        /\ now' = now /\ outbox' = outbox
    BY <1>7, HeadTypes DEF OnReject
  <2>2. CASE orders[d] # None /\ device[d] # None
    <3>1. RejectOrder(Head(batch).client, d, Switch(Head(batch).onoff))
      BY <1>7, <2>2 DEF OnReject
    <3>2. /\ bal' \in Ledger /\ Reaped(bal')
          /\ device' \in [Device -> DeviceProfile \cup {None}]
          /\ orders' \in [Device -> Order \cup {None}]
      BY <2>1, <2>2, <3>1, SwitchType, RejectType
    <3> QED
      BY <2>1, <3>2 DEF TypeOK
  <2>3. CASE ~(orders[d] # None /\ device[d] # None)
    <3>1. UNCHANGED <<bal, device, orders>>
      BY <1>7, <2>3 DEF OnReject
    <3> QED
      BY <2>1, <3>1 DEF TypeOK
  <2> QED
    BY <2>2, <2>3
<1>8. ASSUME OnDone PROVE TypeOK'
  <2> DEFINE d == Head(batch).device
             who == Head(batch).client
             payable == /\ orders[d] # None
                        /\ device[d] # None
                        /\ ~RepatriateFails(bal, who, d, orders[d].fee)
  <2>1. /\ batch' \in Seq(Incoming) /\ d \in Device /\ who \in Client
        /\ now' = now /\ outbox' = outbox
    BY <1>8, HeadTypes DEF OnDone
  <2>2. CASE payable
    <3>1. FinishOrder(who, d, Switch(Head(batch).onoff))
      BY <1>8, <2>2 DEF OnDone
    <3>2. /\ bal' \in Ledger /\ Reaped(bal')
          /\ device' \in [Device -> DeviceProfile \cup {None}]
          /\ orders' \in [Device -> Order \cup {None}]
      BY <2>1, <2>2, <3>1, SwitchType, FinishType
    <3> QED
      BY <2>1, <3>2 DEF TypeOK
  <2>3. CASE ~payable
    <3>1. UNCHANGED <<bal, device, orders>>
      BY <1>8, <2>3 DEF OnDone
    <3> QED
      BY <2>1, <3>1 DEF TypeOK
  <2> QED
    BY <2>2, <2>3
<1>9. ASSUME Tick \/ Carry PROVE TypeOK'
  <2>1. now' \in Moment
    BY <1>9, MomentAssumption DEF Tick, Carry, TypeOK, Moment
  <2>2. outbox' \in Seq(Outbound)
    <3>1. CASE Tick
      BY <3>1 DEF Tick, TypeOK
    <3>2. CASE Carry
      BY <3>2 DEF Carry, TypeOK
    <3> QED
      BY <1>9, <3>1, <3>2
  <2>3. UNCHANGED <<bal, device, orders, batch>>
    BY <1>9 DEF Tick, Carry
  <2> QED
    BY <2>1, <2>2, <2>3 DEF TypeOK
<1>10. ASSUME NEW n \in 1 .. MaxBatch, NEW blobs \in [1 .. n -> Incoming], BeginBatch(blobs)
       PROVE  TypeOK'
  <2>1. n \in Nat
    BY ClientChainAssumption
  <2>2. blobs \in Seq(Incoming)
    BY <2>1
  <2> QED
    BY <1>10, <2>2 DEF BeginBatch, TypeOK
<1>11. ASSUME UNCHANGED vars PROVE TypeOK'
  BY <1>11 DEF vars, TypeOK
<1> QED
  BY <1>1, <1>2, <1>3, <1>4, <1>5, <1>6, <1>7, <1>8, <1>9, <1>10, <1>11
     DEF Next, Handle, Dispatch, Environment

(* The client pallet never leaves its storage, its queues or an account in *)
(* a form their types or the existential deposit do not allow.             *)
THEOREM TypeCorrect == Spec => []TypeOK
BY TypeInit, TypeStep, PTL DEF Spec

-------------------------------------------------------------------------------
(* The device of an open order, and its penalty                            *)

(* The profile of a device whose order stays open keeps its terms, and its *)
(* state unless the hook marks it.                                         *)
Kept(e) ==
    /\ device'[e] # None
    /\ device'[e] = [device[e] EXCEPT !.state = device'[e].state]
    /\ \/ device'[e].state = device[e].state
       \/ KilledHook /\ device'[e].state = "Timewait"

(* A step that opens no order: one it leaves open keeps its device.        *)
OpensNone ==
    /\ \A e \in Device : orders'[e] \in {orders[e], None}
    /\ \A e \in Device : orders'[e] # None => Kept(e)

Registered == TypeOK /\ OrderHasDevice

(* A device with an order is not off, so the hook never forgets it.        *)
LEMMA KeptByHook ==
    ASSUME Registered, NEW e \in Device, orders[e] # None, NEW new,
           device'[e] = device[e] \/ device'[e] = OnKilledAccount(bal, new)[e]
    PROVE  Kept(e)
<1>1. /\ device[e] # None /\ device[e].state # "Off"
      /\ device[e] \in DeviceProfile
  BY DEF Registered, OrderHasDevice, TypeOK
<1>2. device[e] = [device[e] EXCEPT !.state = device[e].state]
  BY <1>1 DEF DeviceProfile
<1> QED
  BY <1>1, <1>2, HookEffect DEF Kept, Registered

(* A step after which every open order was open before and no device of    *)
(* one was written, but by the hook.                                       *)
LEMMA OpensNoneByHook ==
    ASSUME Registered, NEW new, \A e \in Device : orders'[e] \in {orders[e], None},
           \A e \in Device : orders'[e] # None =>
                device'[e] = device[e] \/ device'[e] = OnKilledAccount(bal, new)[e]
    PROVE  OpensNone
BY KeptByHook DEF OpensNone

(* order_reject and on_done write the profile of the device whose order    *)
(* they close.                                                             *)
LEMMA RejectOpensNone ==
    ASSUME Registered, NEW who, NEW d \in Device, NEW state, RejectOrder(who, d, state)
    PROVE  OpensNone
<1>1. \/ UNCHANGED <<device, orders>>
      \/ /\ orders' = [orders EXCEPT ![d] = None]
         /\ device' = [OnKilledAccount(bal, bal') EXCEPT
                            ![d] = [device[d] EXCEPT !.state = state]]
  BY DEF RejectOrder, RemoveOrder
<1>2. \A e \in Device : /\ orders'[e] \in {orders[e], None}
                        /\ orders'[e] # None => device'[e] = device[e]
                                \/ device'[e] = OnKilledAccount(bal, bal')[e]
  BY <1>1 DEF OnKilledAccount, Registered, TypeOK
<1> QED
  BY <1>2, OpensNoneByHook

LEMMA FinishOpensNone ==
    ASSUME Registered, NEW who, NEW d \in Device, NEW state, FinishOrder(who, d, state)
    PROVE  OpensNone
<1>1. \/ device' = OnKilledAccount(bal, bal') /\ UNCHANGED orders
      \/ /\ orders' = [orders EXCEPT ![d] = None]
         /\ device' = [OnKilledAccount(bal, bal') EXCEPT
                            ![d] = [device[d] EXCEPT !.state = state]]
  BY DEF FinishOrder, RemoveOrder
<1>2. \A e \in Device : /\ orders'[e] \in {orders[e], None}
                        /\ orders'[e] # None => device'[e] = OnKilledAccount(bal, bal')[e]
  BY <1>1 DEF OnKilledAccount, Registered, TypeOK
<1> QED
  BY <1>2, OpensNoneByHook

(* Every step but `order` and `register` opens nothing.                    *)
Opening ==
    \/ \E who \in Client, base \in OrderBase : PlaceOrder(who, base)
    \/ \E d \in Device, paraid \in ParaId, penalty \in Penalties, wcd \in Wcds,
          onoff \in BOOLEAN : Register(d, paraid, penalty, wcd, onoff)

LEMMA OthersOpenNone == ASSUME Registered, [Next]_vars, ~Opening PROVE OpensNone
<1>1. ASSUME UNCHANGED <<device, orders>> PROVE OpensNone
  BY <1>1, OpensNoneByHook
<1>2. ASSUME NEW who \in Client, NEW d \in Device, Cancel(who, d) PROVE OpensNone
  BY <1>2, RejectOpensNone DEF Cancel
<1>3. ASSUME NEW from, NEW to, NEW amount, Spend(from, to, amount) PROVE OpensNone
  BY <1>3, OpensNoneByHook DEF Spend
<1>4. ASSUME OnReject PROVE OpensNone
  <2>1. Head(batch).device \in Device
    BY <1>4, HeadTypes DEF OnReject, Registered
  <2> QED
    BY <1>1, <1>4, <2>1, RejectOpensNone DEF OnReject
<1>5. ASSUME OnDone PROVE OpensNone
  <2>1. Head(batch).device \in Device
    BY <1>5, HeadTypes DEF OnDone, Registered
  <2> QED
    BY <1>1, <1>5, <2>1, FinishOpensNone DEF OnDone
<1>6. ASSUME Test \/ ReadOnly \/ AbortBatch \/ Tick \/ Carry \/ UNCHANGED vars
             \/ \E blobs : BeginBatch(blobs)
      PROVE  OpensNone
  BY <1>1, <1>6 DEF Test, ReadOnly, AbortBatch, Tick, Carry, BeginBatch, vars
<1> QED
  BY <1>2, <1>3, <1>4, <1>5, <1>6 DEF Next, Handle, Dispatch, Environment, Opening

(* What `order` does: the device's penalty is set aside, then the client's *)
(* fee, then the order is stored; only a client that is the device itself  *)
(* can stop it in between.                                                 *)
LEMMA PlaceEffect ==
    ASSUME TypeOK, NEW who \in Client, NEW base \in OrderBase, PlaceOrder(who, base)
    PROVE  LET d == base.device
               penalty == device[d].penalty
               backed == Reserve(bal, d, penalty)
           IN  /\ d \in Device /\ d \in Account /\ who \in Account
               /\ base.fee \in Fees /\ base.fee \in Nat /\ penalty \in Nat
               /\ orders[d] = None /\ device[d] \in DeviceProfile
               /\ CanReserve(bal, d, penalty)
               /\ backed \in Ledger /\ Reaped(backed)
               /\ backed[d].reserved = bal[d].reserved + penalty
               /\ backed[d].free = bal[d].free - penalty
               /\ \A a \in Account \ {d} : backed[a] = bal[a]
               /\ \/ /\ CanReserve(backed, who, base.fee)
                     /\ bal' = Reserve(backed, who, base.fee)
                     /\ \A a \in Account \ {who} : bal'[a] = backed[a]
                     /\ bal'[who].reserved = backed[who].reserved + base.fee
                     /\ bal'[who].free = backed[who].free - base.fee
                     /\ orders'[d] = ToOrder(base, who) /\ orders'[d] # None
                     /\ orders'[d] \in Order
                     /\ device'[d] # None /\ device'[d].state = "Busy"
                     /\ device'[d].penalty = penalty
                     /\ \A e \in Device \ {d} : device'[e] = device[e] /\ orders'[e] = orders[e]
                  \/ /\ who = d
                     /\ bal' = backed
                     /\ UNCHANGED <<device, orders>>
<1> DEFINE d == base.device
           penalty == device[d].penalty
           backed == Reserve(bal, d, penalty)
<1>1. /\ d \in Device /\ d \in Account /\ who \in Account
      /\ base.fee \in Nat /\ base.fee \in Fees
      /\ device[d] \in DeviceProfile /\ penalty \in Nat
      /\ orders[d] = None
      /\ CanReserve(bal, d, penalty) /\ CanReserve(bal, who, base.fee)
  BY AccountsAssumption, AmountsAssumption DEF TypeOK, OrderBase, PlaceOrder, DeviceProfile
<1>2. /\ backed \in Ledger /\ Reaped(backed)
      /\ backed[d].reserved = bal[d].reserved + penalty
      /\ backed[d].free = bal[d].free - penalty
      /\ \A a \in Account \ {d} : backed[a] = bal[a]
  BY <1>1, ReserveEffect DEF TypeOK
<1>3. ASSUME CanReserve(backed, who, base.fee)
      PROVE  /\ bal' = Reserve(backed, who, base.fee)
             /\ \A a \in Account \ {who} : bal'[a] = backed[a]
             /\ bal'[who].reserved = backed[who].reserved + base.fee
             /\ bal'[who].free = backed[who].free - base.fee
             /\ orders'[d] = ToOrder(base, who) /\ orders'[d] # None
             /\ orders'[d] \in Order
             /\ device'[d] # None /\ device'[d].state = "Busy" /\ device'[d].penalty = penalty
             /\ \A e \in Device \ {d} : device'[e] = device[e] /\ orders'[e] = orders[e]
  <2>1. /\ bal' = Reserve(backed, who, base.fee)
        /\ orders' = [orders EXCEPT ![d] = ToOrder(base, who)]
        /\ device' = [device EXCEPT ![d] = [device[d] EXCEPT !.state = "Busy"]]
    BY <1>3 DEF PlaceOrder
  <2>2. /\ \A a \in Account \ {who} : bal'[a] = backed[a]
        /\ bal'[who].reserved = backed[who].reserved + base.fee
        /\ bal'[who].free = backed[who].free - base.fee
    BY <1>1, <1>2, <1>3, <2>1, ReserveEffect
  <2>3. ToOrder(base, who) \in Order
    BY ParaIdAssumption DEF ToOrder, Order, OrderBase
  <2>4. /\ orders'[d] = ToOrder(base, who)
        /\ device'[d] = [device[d] EXCEPT !.state = "Busy"]
        /\ \A e \in Device \ {d} : device'[e] = device[e] /\ orders'[e] = orders[e]
    BY <1>1, <2>1 DEF TypeOK
  <2>5. device'[d] # None /\ device'[d].state = "Busy" /\ device'[d].penalty = penalty
    <3>1. device[d] \in DeviceProfile /\ "Busy" \in DeviceState
      BY <1>1 DEF DeviceState
    <3> HIDE DEF d
    <3>2. /\ [device[d] EXCEPT !.state = "Busy"] \in DeviceProfile
          /\ [device[d] EXCEPT !.state = "Busy"].state = "Busy"
          /\ [device[d] EXCEPT !.state = "Busy"].penalty = device[d].penalty
      BY <3>1, SetStateType
    <3> QED
      BY <2>4, <3>2, NoneIsAbsent
  <2> QED
    BY <2>1, <2>2, <2>3, <2>4, <2>5, NoneIsAbsent
<1>4. ASSUME ~CanReserve(backed, who, base.fee)
      PROVE  who = d /\ bal' = backed /\ UNCHANGED <<device, orders>>
  <2>1. bal' = backed /\ UNCHANGED <<device, orders>>
    BY <1>4 DEF PlaceOrder
  <2>2. who = d
    BY <1>1, <1>2, <1>4 DEF CanReserve
  <2> QED
    BY <2>1, <2>2
<1> QED
  BY <1>1, <1>2, <1>3, <1>4

(* Every step keeps the device of every open order.                        *)
LEMMA RegisteredStep == Registered /\ [Next]_vars => Registered'
<1> SUFFICES ASSUME Registered, [Next]_vars PROVE OrderHasDevice'
  BY TypeStep DEF Registered
<1>1. CASE ~Opening
  <2>1. OpensNone
    BY <1>1, OthersOpenNone
  <2> SUFFICES ASSUME NEW d \in Device, orders'[d] # None
               PROVE  /\ device'[d] # None
                      /\ device'[d].state \in {"Busy", "Timewait"}
                      /\ device'[d].state = "Timewait" => KilledHook
    BY DEF OrderHasDevice
  <2>2. orders[d] # None /\ Kept(d)
    BY <2>1 DEF OpensNone
  <2> QED
    BY <2>2 DEF Kept, OrderHasDevice, Registered
<1>2. ASSUME NEW who \in Client, NEW base \in OrderBase, PlaceOrder(who, base)
      PROVE  OrderHasDevice'
  <2> DEFINE d == base.device
  <2>1. \/ /\ device'[d] # None /\ device'[d].state = "Busy"
           /\ \A e \in Device \ {d} : device'[e] = device[e] /\ orders'[e] = orders[e]
        \/ UNCHANGED <<device, orders>>
    BY <1>2, PlaceEffect DEF Registered
  <2> QED
    BY <2>1 DEF OrderHasDevice, Registered
<1>3. ASSUME NEW d \in Device, NEW paraid \in ParaId, NEW penalty \in Penalties,
             NEW wcd \in Wcds, NEW onoff \in BOOLEAN,
             Register(d, paraid, penalty, wcd, onoff)
      PROVE  OrderHasDevice'
  <2>1. /\ UNCHANGED <<bal, orders>> /\ orders[d] = None
        /\ \A e \in Device \ {d} : device'[e] = device[e]
    BY <1>3 DEF Register, Registered, TypeOK
  <2> QED
    BY <2>1 DEF OrderHasDevice, Registered
<1> QED
  BY <1>1, <1>2, <1>3 DEF Opening

-------------------------------------------------------------------------------
(* The exact penalty                                                       *)

(* A step that opens no order: a device whose order it closes has nothing  *)
(* left in reserve, and another device can only lose a reserve below the   *)
(* existential deposit.                                                    *)
OpensNothing ==
    /\ OpensNone
    /\ \A e \in Device \ Client :
        IF orders[e] # None /\ orders'[e] = None
        THEN bal'[e].reserved = 0
        ELSE /\ bal'[e].reserved <= bal[e].reserved
             /\ bal[e].reserved >= ExistentialDeposit => bal'[e].reserved = bal[e].reserved

IInv == Registered /\ PenaltyExact

LEMMA NothingTouched ==
    ASSUME Registered, UNCHANGED <<bal, device, orders>>
    PROVE  OpensNothing
<1>1. \A e \in Device \ Client : bal[e].reserved \in Nat
  BY AccountsAssumption DEF Registered, TypeOK, Ledger, Balance
<1> QED
  BY <1>1, OpensNoneByHook DEF OpensNothing

(* What order_reject does to the accounts of devices.                      *)
LEMMA RejectEffect ==
    ASSUME IInv, NEW who \in Client, NEW d \in Device, NEW state \in DeviceState,
           orders[d] # None, device[d] # None, RejectOrder(who, d, state)
    PROVE  /\ OpensNothing
           /\ \A e \in Device : orders[e] # None /\ orders'[e] = None =>
                /\ e = d
                /\ d \notin Client /\ ~IsLate(orders[d]) => Total(bal'[d]) = Total(bal[d])
<1> DEFINE order == orders[d]
           penalty == device[d].penalty
           released == Unreserve(bal, who, order.fee)
<1> USE DEF IInv, Registered
<1>0. OpensNone
  BY RejectOpensNone
<1>1. /\ who \in Account /\ d \in Account /\ order.client \in Account /\ order.client \in Client
      /\ order.fee \in Nat /\ penalty \in Nat
  BY OrderTypes, AccountsAssumption
<1>2. bal \in Ledger /\ Reaped(bal) /\ orders \in [Device -> Order \cup {None}]
      /\ device \in [Device -> DeviceProfile \cup {None}]
  BY DEF TypeOK
<1>3. /\ released \in Ledger /\ Reaped(released)
      /\ \A e \in Account \ {who} : released[e] = bal[e]
  BY <1>1, <1>2, UnreserveEffect
<1>4. \A e \in Account : bal[e].reserved \in Nat
  BY <1>2 DEF Ledger, Balance
<1>5. d \notin Client => bal[d].reserved <= penalty
  BY DEF PenaltyExact
<1> HIDE DEF order, penalty, released, IInv, Registered
<1>6. CASE IsLate(order) /\ RepatriateFails(released, d, order.client, penalty)
  <2>1. bal' = released /\ UNCHANGED <<device, orders>>
    BY <1>6 DEF RejectOrder, order, penalty, released
  <2>2. \A e \in Device \ Client : bal'[e] = bal[e]
    BY <1>3, <2>1, AccountsAssumption
  <2> QED
    BY <1>0, <1>4, <2>1, <2>2, AccountsAssumption DEF OpensNothing
<1>7. CASE ~(IsLate(order) /\ RepatriateFails(released, d, order.client, penalty))
  <2>1. /\ bal' = IF IsLate(order) THEN Repatriate(released, d, order.client, penalty)
                  ELSE Unreserve(released, d, penalty)
        /\ orders' = [orders EXCEPT ![d] = None]
        /\ device' = [OnKilledAccount(bal, bal') EXCEPT
                        ![d] = [device[d] EXCEPT !.state = state]]
    BY <1>7 DEF RejectOrder, RemoveOrder, order, penalty, released
  <2>2. \A e \in Device : /\ e = d => orders'[e] = None
                          /\ e # d => orders'[e] = orders[e]
    BY <1>2, <2>1
  <2>4. \A e \in Device \ Client : e # d => bal'[e] = bal[e]
    <3> SUFFICES ASSUME NEW e \in Device \ Client, e # d PROVE bal'[e] = bal[e]
      OBVIOUS
    <3>1. e \in Account /\ e # who /\ e # order.client /\ released[e] = bal[e]
      BY <1>1, <1>3, AccountsAssumption
    <3>2. CASE IsLate(order)
      <4>1. ~RepatriateFails(released, d, order.client, penalty)
        BY <1>7, <3>2
      <4> QED
        BY <1>1, <1>3, <2>1, <3>1, <3>2, <4>1, Untouched
    <3>3. CASE ~IsLate(order)
      BY <1>1, <1>3, <2>1, <3>1, <3>3, Untouched
    <3> QED
      BY <3>2, <3>3
  <2>5. ASSUME d \notin Client
        PROVE  /\ bal'[d].reserved = 0
               /\ ~IsLate(order) => Total(bal'[d]) = Total(bal[d])
    <3>1. /\ d # who /\ d # order.client
          /\ released[d] = bal[d]
          /\ AtMost(bal[d].reserved, penalty) = bal[d].reserved
      BY <1>1, <1>3, <1>4, <1>5, <2>5 DEF AtMost
    <3>2. CASE IsLate(order)
      <4>1. bal'[d].reserved <= bal[d].reserved - bal[d].reserved
        BY <1>1, <1>3, <1>7, <2>1, <3>1, <3>2, RepatriateEffect
      <4>2. bal' \in Ledger
        BY <1>1, <1>3, <1>7, <2>1, <3>2, RepatriateType
      <4>3. bal'[d].reserved \in Nat
        BY <1>1, <4>2 DEF Ledger, Balance
      <4> QED
        BY <1>1, <1>4, <3>2, <4>1, <4>3
    <3>3. CASE ~IsLate(order)
      <4>1. /\ bal'[d].reserved = bal[d].reserved - bal[d].reserved
            /\ Total(bal'[d]) = Total(bal[d])
        BY <1>1, <1>3, <2>1, <3>1, <3>3, UnreserveEffect
      <4> QED
        BY <1>1, <1>4, <4>1
    <3> QED
      BY <3>2, <3>3
  <2>6. OpensNothing
    BY <1>0, <1>4, <2>2, <2>4, <2>5, AccountsAssumption DEF OpensNothing
  <2> QED
    BY <2>2, <2>5, <2>6 DEF order
<1> QED
  BY <1>6, <1>7

(* What on_done does to the accounts of devices.                           *)
LEMMA FinishEffect ==
    ASSUME IInv, NEW who \in Client, NEW d \in Device, NEW state \in DeviceState,
           orders[d] # None, device[d] # None,
           ~RepatriateFails(bal, who, d, orders[d].fee), FinishOrder(who, d, state)
    PROVE  /\ OpensNothing
           /\ \A e \in Device : orders[e] # None /\ orders'[e] = None =>
                /\ e = d
                /\ d \notin Client /\ ~IsLate(orders[d]) => Total(bal'[d]) >= Total(bal[d])
<1> DEFINE order == orders[d]
           penalty == device[d].penalty
           paid == Repatriate(bal, who, d, order.fee)
<1> USE DEF IInv, Registered
<1>0. OpensNone
  BY FinishOpensNone
<1>1. /\ who \in Account /\ d \in Account
      /\ order.fee \in Nat /\ penalty \in Nat
  BY OrderTypes, AccountsAssumption
<1>2. bal \in Ledger /\ Reaped(bal) /\ orders \in [Device -> Order \cup {None}]
      /\ device \in [Device -> DeviceProfile \cup {None}]
  BY DEF TypeOK
<1>3. /\ paid \in Ledger /\ Reaped(paid)
      /\ \A e \in Account \ {who, d} : paid[e] = bal[e]
  BY <1>1, <1>2, RepatriateType, Untouched
<1>4. \A e \in Account : bal[e].reserved \in Nat
  BY <1>2 DEF Ledger, Balance
<1>5. d \notin Client => /\ bal[d].reserved <= penalty
                         /\ paid[d].reserved = bal[d].reserved
                         /\ Total(paid[d]) >= Total(bal[d])
  <2> SUFFICES ASSUME d \notin Client
               PROVE  /\ bal[d].reserved <= penalty
                      /\ paid[d].reserved = bal[d].reserved
                      /\ Total(paid[d]) >= Total(bal[d])
    OBVIOUS
  <2>1. d # who
    OBVIOUS
  <2>2. AtMost(bal[who].reserved, order.fee) \in Nat /\ Total(bal[d]) \in Nat
    BY <1>1, <1>2 DEF AtMost, Ledger, Balance, Total
  <2>3. /\ paid[d].reserved = bal[d].reserved
        /\ Total(paid[d]) = Total(bal[d]) + AtMost(bal[who].reserved, order.fee)
    BY <1>1, <1>2, <2>1, RepatriateEffect
  <2> HIDE DEF order, paid
  <2>4. bal[d].reserved <= penalty
    BY DEF PenaltyExact
  <2> QED
    BY <2>2, <2>3, <2>4
<1> HIDE DEF order, penalty, paid, IInv, Registered
<1>6. CASE IsLate(order) /\ RepatriateFails(paid, d, who, penalty)
  <2>1. bal' = paid /\ device' = OnKilledAccount(bal, paid) /\ orders' = orders
    BY <1>6 DEF FinishOrder, order, penalty, paid
  <2>2. \A e \in Device \ Client : bal'[e].reserved = bal[e].reserved
    <3> SUFFICES ASSUME NEW e \in Device \ Client PROVE paid[e].reserved = bal[e].reserved
      BY <2>1
    <3>1. e \in Account \ {who}
      BY AccountsAssumption
    <3> QED
      BY <1>3, <1>5, <3>1
  <2> QED
    BY <1>0, <1>4, <2>1, <2>2, AccountsAssumption DEF OpensNothing
<1>7. CASE ~(IsLate(order) /\ RepatriateFails(paid, d, who, penalty))
  <2>1. /\ bal' = IF IsLate(order) THEN Repatriate(paid, d, who, penalty)
                  ELSE Unreserve(paid, d, penalty)
        /\ orders' = [orders EXCEPT ![d] = None]
        /\ device' = [OnKilledAccount(bal, bal') EXCEPT
                        ![d] = [device[d] EXCEPT !.state = state]]
    BY <1>7 DEF FinishOrder, RemoveOrder, order, penalty, paid
  <2>2. \A e \in Device : /\ e = d => orders'[e] = None
                          /\ e # d => orders'[e] = orders[e]
    BY <1>2, <2>1
  <2>4. \A e \in Device \ Client : e # d => bal'[e] = bal[e]
    <3> SUFFICES ASSUME NEW e \in Device \ Client, e # d PROVE bal'[e] = bal[e]
      OBVIOUS
    <3>1. e \in Account /\ e # who /\ paid[e] = bal[e]
      BY <1>3, AccountsAssumption
    <3>2. CASE IsLate(order)
      <4>1. ~RepatriateFails(paid, d, who, penalty)
        BY <1>7, <3>2
      <4> QED
        BY <1>1, <1>3, <2>1, <3>1, <3>2, <4>1, Untouched
    <3>3. CASE ~IsLate(order)
      BY <1>1, <1>3, <2>1, <3>1, <3>3, Untouched
    <3> QED
      BY <3>2, <3>3
  <2>5. ASSUME d \notin Client
        PROVE  /\ bal'[d].reserved = 0
               /\ ~IsLate(order) => Total(bal'[d]) >= Total(bal[d])
    <3>1. /\ d # who
          /\ AtMost(paid[d].reserved, penalty) = paid[d].reserved
          /\ paid[d].reserved \in Nat
      BY <1>1, <1>4, <1>5, <2>5 DEF AtMost
    <3>2. CASE IsLate(order)
      <4>1. bal'[d].reserved <= paid[d].reserved - paid[d].reserved
        BY <1>1, <1>3, <1>7, <2>1, <3>1, <3>2, RepatriateEffect
      <4>2. bal' \in Ledger
        BY <1>1, <1>3, <1>7, <2>1, <3>2, RepatriateType
      <4>3. bal'[d].reserved \in Nat
        BY <1>1, <4>2 DEF Ledger, Balance
      <4> QED
        BY <3>1, <3>2, <4>1, <4>3
    <3>3. CASE ~IsLate(order)
      <4>1. /\ bal'[d].reserved = paid[d].reserved - paid[d].reserved
            /\ Total(bal'[d]) = Total(paid[d])
        BY <1>1, <1>3, <2>1, <3>1, <3>3, UnreserveEffect
      <4> QED
        BY <1>5, <2>5, <3>1, <4>1
    <3> QED
      BY <3>2, <3>3
  <2>6. OpensNothing
    BY <1>0, <1>4, <2>2, <2>4, <2>5, AccountsAssumption DEF OpensNothing
  <2> QED
    BY <2>2, <2>5, <2>6 DEF order
<1> QED
  BY <1>6, <1>7

(* Every other step opens nothing, and an order it closes in time costs    *)
(* the device nothing.                                                     *)
LEMMA OtherSteps ==
    ASSUME IInv, [Next]_vars, ~Opening
    PROVE  OpensNothing /\ NoPenaltyOnTimeStep
<1> USE DEF IInv, Registered
<1>0. OpensNone
  BY OthersOpenNone
<1>1. ASSUME UNCHANGED <<bal, device, orders>>
      PROVE  OpensNothing /\ NoPenaltyOnTimeStep
  BY <1>1, NothingTouched DEF NoPenaltyOnTimeStep
<1>2. ASSUME NEW d \in Device, OpensNothing,
             \A e \in Device : orders[e] # None /\ orders'[e] = None =>
                /\ e = d
                /\ d \notin Client /\ ~IsLate(orders[d]) => Total(bal'[d]) >= Total(bal[d])
      PROVE  NoPenaltyOnTimeStep
  <2> SUFFICES ASSUME NEW e \in Device \ Client,
                      orders[e] # None, orders'[e] = None, now < orders[e].until
               PROVE  bal'[e].reserved = 0 /\ Total(bal'[e]) >= Total(bal[e])
    BY DEF NoPenaltyOnTimeStep
  <2>1. now \in Nat /\ orders[e].until \in Nat
    BY MomentAssumption DEF TypeOK, Order, Moment
  <2>2. e = d /\ ~IsLate(orders[d])
    BY <1>2, <2>1 DEF IsLate
  <2> QED
    BY <1>2, <2>2 DEF OpensNothing
<1>3. ASSUME NEW who \in Client, NEW d \in Device, Cancel(who, d)
      PROVE  OpensNothing /\ NoPenaltyOnTimeStep
  <2>1. device[d].state \in DeviceState
    BY <1>3 DEF Cancel, TypeOK, DeviceProfile
  <2>2. /\ OpensNothing
        /\ \A e \in Device : orders[e] # None /\ orders'[e] = None =>
            /\ e = d
            /\ d \notin Client /\ ~IsLate(orders[d]) => Total(bal'[d]) = Total(bal[d])
    BY <1>3, <2>1, RejectEffect DEF Cancel
  <2>3. now >= orders[d].until
    BY <1>3 DEF Cancel
  <2> QED
    BY <1>2, <2>2, <2>3 DEF IsLate
<1>4. ASSUME NEW from \in Account, NEW to \in Account, NEW amount, Spend(from, to, amount)
      PROVE  OpensNothing /\ NoPenaltyOnTimeStep
  <2>1. orders' = orders /\ device' = OnKilledAccount(bal, bal')
    BY <1>4 DEF Spend
  <2>2. \A a \in Account : /\ bal'[a].reserved <= bal[a].reserved
                           /\ bal[a].reserved >= ExistentialDeposit =>
                                bal'[a].reserved = bal[a].reserved
    BY <1>4, TransferEffect DEF Spend, TypeOK
  <2> QED
    BY <1>0, <2>1, <2>2, AccountsAssumption DEF OpensNothing, NoPenaltyOnTimeStep
<1>5. ASSUME OnReject
      PROVE  OpensNothing /\ NoPenaltyOnTimeStep
  <2> DEFINE d == Head(batch).device
             who == Head(batch).client
  <2>1. d \in Device /\ who \in Client
    BY <1>5, HeadTypes DEF OnReject
  <2>2. CASE orders[d] # None /\ device[d] # None
    <3>1. RejectOrder(who, d, Switch(Head(batch).onoff))
      BY <1>5, <2>2 DEF OnReject
    <3>2. /\ OpensNothing
          /\ \A e \in Device : orders[e] # None /\ orders'[e] = None =>
              /\ e = d
              /\ d \notin Client /\ ~IsLate(orders[d]) => Total(bal'[d]) = Total(bal[d])
      BY <2>1, <2>2, <3>1, SwitchType, RejectEffect
    <3>3. d \notin Client => Total(bal[d]) \in Nat
      BY <2>1, AccountsAssumption DEF TypeOK, Ledger, Balance, Total
    <3> HIDE DEF d
    <3> QED
      BY <1>2, <2>1, <3>2, <3>3
  <2>3. CASE ~(orders[d] # None /\ device[d] # None)
    BY <1>1, <1>5, <2>3 DEF OnReject
  <2> QED
    BY <2>2, <2>3
<1>6. ASSUME OnDone
      PROVE  OpensNothing /\ NoPenaltyOnTimeStep
  <2> DEFINE d == Head(batch).device
             who == Head(batch).client
             payable == /\ orders[d] # None
                        /\ device[d] # None
                        /\ ~RepatriateFails(bal, who, d, orders[d].fee)
  <2>1. d \in Device /\ who \in Client
    BY <1>6, HeadTypes DEF OnDone
  <2>2. CASE payable
    <3>1. FinishOrder(who, d, Switch(Head(batch).onoff))
      BY <1>6, <2>2 DEF OnDone
    <3>2. /\ OpensNothing
          /\ \A e \in Device : orders[e] # None /\ orders'[e] = None =>
              /\ e = d
              /\ d \notin Client /\ ~IsLate(orders[d]) => Total(bal'[d]) >= Total(bal[d])
      BY <2>1, <2>2, <3>1, SwitchType, FinishEffect
    <3> HIDE DEF d
    <3> QED
      BY <1>2, <2>1, <3>2
  <2>3. CASE ~payable
    <3>1. UNCHANGED <<bal, device, orders>>
      BY <1>6, <2>3 DEF OnDone
    <3> QED
      BY <1>1, <3>1
  <2> QED
    BY <2>2, <2>3
<1>7. ASSUME Test \/ ReadOnly \/ AbortBatch \/ Tick \/ Carry \/ UNCHANGED vars
             \/ \E blobs : BeginBatch(blobs)
      PROVE  OpensNothing /\ NoPenaltyOnTimeStep
  BY <1>1, <1>7 DEF Test, ReadOnly, AbortBatch, Tick, Carry, BeginBatch, vars
<1> HIDE DEF IInv, Registered
<1> QED
  BY <1>3, <1>4, <1>5, <1>6, <1>7 DEF Next, Handle, Dispatch, Environment, Opening

LEMMA InvInit == Init => IInv
<1> SUFFICES ASSUME Init PROVE IInv
  OBVIOUS
<1>1. OrderHasDevice
  BY DEF Init, OrderHasDevice
<1>2. PenaltyExact
  BY AccountsAssumption DEF Init, PenaltyExact
<1> QED
  BY <1>1, <1>2, TypeInit DEF IInv, Registered

LEMMA InvStep == IInv /\ [Next]_vars => IInv'
<1> SUFFICES ASSUME IInv, [Next]_vars PROVE PenaltyExact'
  BY RegisteredStep DEF IInv
<1> USE DEF IInv, Registered
<1>t. TypeOK'
  BY TypeStep
<1>1. CASE ~Opening
  <2>1. OpensNothing
    BY <1>1, OtherSteps
  <2> SUFFICES ASSUME NEW d \in Device \ Client
               PROVE  /\ orders'[d] = None => bal'[d].reserved = 0
                      /\ orders'[d] # None =>
                          /\ bal'[d].reserved <= device'[d].penalty
                          /\ device'[d].penalty >= ExistentialDeposit =>
                              bal'[d].reserved = device'[d].penalty
    BY DEF PenaltyExact
  <2>2. bal[d].reserved \in Nat /\ bal'[d].reserved \in Nat
    BY <1>t, AccountsAssumption DEF TypeOK, Ledger, Balance
  <2>3. CASE orders'[d] = None
    BY <2>1, <2>2, <2>3 DEF OpensNothing, PenaltyExact
  <2>4. CASE orders'[d] # None
    <3>1. /\ orders[d] # None /\ Kept(d)
          /\ bal'[d].reserved <= bal[d].reserved
          /\ bal[d].reserved >= ExistentialDeposit => bal'[d].reserved = bal[d].reserved
      BY <2>1, <2>4 DEF OpensNothing, OpensNone
    <3>2. device[d] \in DeviceProfile
      BY <3>1 DEF OrderHasDevice, TypeOK
    <3>3. device'[d].penalty = device[d].penalty /\ device[d].penalty \in Nat
      BY <3>1, <3>2, AmountsAssumption DEF Kept, DeviceProfile
    <3> QED
      BY <2>2, <2>4, <3>1, <3>3, DepositAssumption DEF PenaltyExact
  <2> QED
    BY <2>3, <2>4
<1>2. ASSUME NEW who \in Client, NEW base \in OrderBase, PlaceOrder(who, base)
      PROVE  PenaltyExact'
  <2> DEFINE d == base.device
             penalty == device[d].penalty
             backed == Reserve(bal, d, penalty)
  <2>1. /\ d \in Device /\ d \in Account /\ who \in Account /\ penalty \in Nat
        /\ orders[d] = None
        /\ backed[d].reserved = bal[d].reserved + penalty
        /\ \A a \in Account \ {d} : backed[a] = bal[a]
        /\ \/ /\ \A a \in Account \ {who} : bal'[a] = backed[a]
              /\ orders'[d] # None /\ device'[d].penalty = penalty
              /\ \A e \in Device \ {d} : device'[e] = device[e] /\ orders'[e] = orders[e]
           \/ who = d /\ bal' = backed /\ UNCHANGED <<device, orders>>
    BY <1>2, PlaceEffect
  <2> HIDE DEF d, penalty, backed
  <2>2. ASSUME NEW e \in Device \ Client, e # d
        PROVE  bal'[e] = bal[e]
    BY <2>1, <2>2, AccountsAssumption
  <2>3. d \notin Client => bal'[d].reserved = penalty /\ orders'[d] # None
                           /\ device'[d].penalty = penalty
    <3>1. d \notin Client => bal[d].reserved = 0
      BY <2>1 DEF PenaltyExact
    <3>2. who # d => bal'[d] = backed[d] /\ orders'[d] # None /\ device'[d].penalty = penalty
      BY <2>1
    <3> QED
      BY <2>1, <3>1, <3>2
  <2>4. \A e \in Device \ {d} : device'[e] = device[e] /\ orders'[e] = orders[e]
    BY <2>1
  <2> QED
    BY <2>1, <2>2, <2>3, <2>4 DEF PenaltyExact
<1>3. ASSUME NEW d \in Device, NEW paraid \in ParaId, NEW penalty \in Penalties,
             NEW wcd \in Wcds, NEW onoff \in BOOLEAN,
             Register(d, paraid, penalty, wcd, onoff)
      PROVE  PenaltyExact'
  <2>1. /\ UNCHANGED <<bal, orders>> /\ orders[d] = None
        /\ \A e \in Device \ {d} : device'[e] = device[e]
    BY <1>3 DEF Register, TypeOK
  <2> QED
    BY <2>1 DEF PenaltyExact
<1> QED
  BY <1>1, <1>2, <1>3 DEF Opening

LEMMA Invariance == Spec => []IInv
BY InvInit, InvStep, PTL DEF Spec

(* No sequence of orders, cancels, registrations, transfers and answers    *)
(* takes the profile away from under an open order or shows its device as  *)
(* free for another.                                                       *)
THEOREM OrderHasDeviceHolds == Spec => []OrderHasDevice
<1>1. IInv => OrderHasDevice
  BY DEF IInv, Registered
<1> QED
  BY <1>1, Invariance, PTL

(* A device that is no client has its penalty in reserve exactly while an  *)
(* order at it is open, for every number of accounts, every amount and     *)
(* every stream of answers.                                                *)
THEOREM PenaltyExactHolds == Spec => []PenaltyExact
<1>1. IInv => PenaltyExact
  BY DEF IInv
<1> QED
  BY <1>1, Invariance, PTL

-------------------------------------------------------------------------------
(* Fees and penalties, to the unit                                         *)

(* What a client has to keep ready for the order at each device            *)
FeeAt(c) ==
    [d \in Device |-> IF orders[d] # None /\ orders[d].client = c THEN orders[d].fee ELSE 0]

(* What a device has to keep ready                                         *)
Stake(e) == IF orders[e] # None THEN device[e].penalty ELSE 0

(* The reserve covers every single commitment, and what is left when one   *)
(* is taken out cannot be swept away as dust.                              *)
FeesCovered(c) ==
    \A d \in Device : /\ FeeAt(c)[d] <= bal[c].reserved
                      /\ \/ DustFree(bal[c].reserved - FeeAt(c)[d])
                         \/ bal[c].free >= ExistentialDeposit
StakeCovered(e) ==
    /\ Stake(e) <= bal[e].reserved
    /\ DustFree(bal[e].reserved - Stake(e))

(* The reserve changes by what one commitment changes.                     *)
FeeMoves(c) ==
    \/ FeeAt(c)' = FeeAt(c) /\ bal'[c].reserved = bal[c].reserved
    \/ \E d \in Device :
        /\ \A e \in Device \ {d} : FeeAt(c)'[e] = FeeAt(c)[e]
        /\ bal'[c].reserved + FeeAt(c)[d] = bal[c].reserved + FeeAt(c)'[d]
StakeMoves(e) ==
    bal'[e].reserved + Stake(e) = bal[e].reserved + Stake(e)'

LEMMA CommitmentTypes ==
    ASSUME Registered
    PROVE  /\ \A c \in Client, d \in Device : FeeAt(c)[d] \in Nat
           /\ \A e \in Device : Stake(e) \in Nat
           /\ \A a \in Account : bal[a].reserved \in Nat /\ bal[a].free \in Nat
           /\ Client \subseteq Account /\ Device \subseteq Account
<1>1. \A d \in Device : orders[d] # None => orders[d].fee \in Nat
  BY AmountsAssumption DEF Registered, TypeOK, Order
<1>2. \A d \in Device : orders[d] # None => device[d].penalty \in Nat
  BY AmountsAssumption DEF Registered, TypeOK, OrderHasDevice, DeviceProfile
<1> QED
  BY <1>1, <1>2, AccountsAssumption DEF FeeAt, Stake, Registered, TypeOK, Ledger, Balance

(* A step that keeps every order and the reserve moves no fee; one that    *)
(* keeps a device's order, its penalty and its reserve moves no stake.     *)
LEMMA NoFeeMoves ==
    ASSUME NEW c, orders' = orders, bal'[c].reserved = bal[c].reserved
    PROVE  FeeMoves(c)
<1>1. FeeAt(c)' = FeeAt(c)
  BY DEF FeeAt
<1> QED
  BY <1>1 DEF FeeMoves

LEMMA NoStakeMoves ==
    ASSUME Registered, NEW e \in Device, orders'[e] = orders[e],
           orders[e] # None => device'[e].penalty = device[e].penalty,
           bal'[e].reserved = bal[e].reserved
    PROVE  StakeMoves(e)
<1>1. Stake(e)' = Stake(e) /\ Stake(e) \in Nat
  BY CommitmentTypes DEF Stake
<1> QED
  BY <1>1 DEF StakeMoves

(* The order of one device changes, and the client's reserve by its fee.   *)
LEMMA OneFeeMoves ==
    ASSUME NEW c, NEW d \in Device,
           \A e \in Device \ {d} : orders'[e] = orders[e],
           bal'[c].reserved + FeeAt(c)[d] = bal[c].reserved + FeeAt(c)'[d]
    PROVE  FeeMoves(c)
<1>1. \A e \in Device \ {d} : FeeAt(c)'[e] = FeeAt(c)[e]
  BY DEF FeeAt
<1> QED
  BY <1>1 DEF FeeMoves

(* The order of one device is closed, its client's reserve shrinks by the  *)
(* fee and no other client's changes.                                      *)
LEMMA ClosingFees ==
    ASSUME Registered, NEW d \in Device, orders[d] # None,
           orders' = [orders EXCEPT ![d] = None], NEW c \in Client,
           IF orders[d].client = c
           THEN bal'[c].reserved + orders[d].fee = bal[c].reserved
           ELSE bal'[c].reserved = bal[c].reserved
    PROVE  FeeMoves(c)
<1>1. orders'[d] = None /\ \A e \in Device \ {d} : orders'[e] = orders[e]
  BY DEF Registered, TypeOK
<1>2. FeeAt(c)'[d] = 0 /\ FeeAt(c)[d] = IF orders[d].client = c THEN orders[d].fee ELSE 0
  BY <1>1 DEF FeeAt
<1>3. bal[c].reserved \in Nat
  BY CommitmentTypes
<1>4. bal'[c].reserved + FeeAt(c)[d] = bal[c].reserved + FeeAt(c)'[d]
  BY <1>2, <1>3
<1> QED
  BY <1>1, <1>4, OneFeeMoves

(* The profile of an order that stays open keeps its penalty.              *)
LEMMA OpensNonePenalties ==
    ASSUME Registered, OpensNone, NEW e \in Device, orders'[e] = orders[e], orders[e] # None
    PROVE  device'[e].penalty = device[e].penalty
<1>1. /\ device[e] \in DeviceProfile
      /\ device'[e] = [device[e] EXCEPT !.state = device'[e].state]
  BY DEF OpensNone, Kept, Registered, TypeOK, OrderHasDevice
<1> QED
  BY <1>1 DEF DeviceProfile

(* order takes a fee and a penalty into reserve, to the unit.              *)
LEMMA PlaceMoves ==
    ASSUME Registered, NEW who \in Client, NEW base \in OrderBase, PlaceOrder(who, base)
    PROVE  /\ \A c \in Client \ Device : FeeMoves(c)
           /\ \A e \in Device \ Client : StakeMoves(e)
           /\ \A c \in (Client \ Device) \ {who} : bal'[c].free = bal[c].free
           /\ who \notin Device => bal'[who].free = bal[who].free - base.fee
<1> DEFINE d == base.device
           penalty == device[d].penalty
           backed == Reserve(bal, d, penalty)
           order == ToOrder(base, who)
<1>1. /\ d \in Device /\ who \in Account /\ penalty \in Nat /\ base.fee \in Nat
      /\ orders[d] = None
      /\ backed[d].reserved = bal[d].reserved + penalty
      /\ \A a \in Account \ {d} : backed[a] = bal[a]
      /\ \/ /\ \A a \in Account \ {who} : bal'[a] = backed[a]
            /\ bal'[who].reserved = backed[who].reserved + base.fee
            /\ bal'[who].free = backed[who].free - base.fee
            /\ orders'[d] = order /\ orders'[d] # None
            /\ device'[d].penalty = penalty
            /\ \A e \in Device \ {d} : device'[e] = device[e] /\ orders'[e] = orders[e]
         \/ who = d /\ bal' = backed /\ UNCHANGED <<device, orders>>
  BY PlaceEffect DEF Registered
<1>2. order.client = who /\ order.fee = base.fee
  BY DEF ToOrder
<1> HIDE DEF d, penalty, backed, order
<1> USE CommitmentTypes
<1>3. CASE who = d /\ bal' = backed /\ UNCHANGED <<device, orders>>
  <2>1. \A a \in Account \ {d} : bal'[a] = bal[a]
    BY <1>1, <1>3
  <2> QED
    BY <1>1, <1>3, <2>1, NoFeeMoves, NoStakeMoves
<1>4. CASE /\ \A a \in Account \ {who} : bal'[a] = backed[a]
           /\ bal'[who].reserved = backed[who].reserved + base.fee
           /\ bal'[who].free = backed[who].free - base.fee
           /\ orders'[d] = order /\ orders'[d] # None
           /\ device'[d].penalty = penalty
           /\ \A e \in Device \ {d} : device'[e] = device[e] /\ orders'[e] = orders[e]
  <2>1. ASSUME NEW c \in Client \ Device
        PROVE  FeeMoves(c)
    <3>1. FeeAt(c)[d] = 0 /\ FeeAt(c)'[d] = IF c = who THEN base.fee ELSE 0
      BY <1>1, <1>2, <1>4 DEF FeeAt
    <3>2. bal'[c].reserved = bal[c].reserved + IF c = who THEN base.fee ELSE 0
      BY <1>1, <1>4
    <3>3. bal'[c].reserved + FeeAt(c)[d] = bal[c].reserved + FeeAt(c)'[d]
      BY <1>1, <3>1, <3>2
    <3> QED
      BY <1>1, <1>4, <3>3, OneFeeMoves
  <2>2. ASSUME NEW e \in Device \ Client
        PROVE  StakeMoves(e)
    <3>1. CASE e = d
      <4>1. Stake(e) = 0 /\ Stake(e)' = penalty
        BY <1>1, <1>4, <3>1 DEF Stake
      <4>2. bal'[e].reserved = bal[e].reserved + penalty
        BY <1>1, <1>4, <3>1
      <4> QED
        BY <1>1, <4>1, <4>2 DEF StakeMoves
    <3>2. CASE e # d
      BY <1>1, <1>4, <3>2, NoStakeMoves
    <3> QED
      BY <3>1, <3>2
  <2>3. \A c \in (Client \ Device) \ {who} : bal'[c].free = bal[c].free
    BY <1>1, <1>4
  <2>4. who \notin Device => bal'[who].free = bal[who].free - base.fee
    BY <1>1, <1>4
  <2> QED
    BY <2>1, <2>2, <2>3, <2>4
<1> QED
  BY <1>1, <1>3, <1>4

(* order_reject for the client on record takes the fee out of its reserve  *)
(* and the penalty out of the device's, or stops and moves nothing.        *)
LEMMA RejectMoves ==
    ASSUME Registered, NEW d \in Device, NEW state, orders[d] # None,
           RejectOrder(orders[d].client, d, state)
    PROVE  /\ \A c \in Client \ Device :
                FeesCovered(c) => FeeMoves(c) /\ bal'[c].free >= bal[c].free
           /\ \A e \in Device \ Client : StakeCovered(e) => StakeMoves(e)
<1> DEFINE order == orders[d]
           who == order.client
           penalty == device[d].penalty
           released == Unreserve(bal, who, order.fee)
           stops == IsLate(order) /\ RepatriateFails(released, d, who, penalty)
<1>1. /\ who \in Client /\ who \in Account /\ d \in Account
      /\ order.fee \in Nat /\ penalty \in Nat
      /\ bal \in Ledger /\ Reaped(bal)
  BY OrderTypes, AccountsAssumption DEF Registered, TypeOK, OrderHasDevice, Order
<1>2. OpensNone
  BY RejectOpensNone
<1>3. /\ stops => bal' = released /\ UNCHANGED <<device, orders>>
      /\ ~stops => /\ orders' = [orders EXCEPT ![d] = None]
                   /\ \/ bal' = Unreserve(released, d, penalty)
                      \/ bal' = Repatriate(released, d, who, penalty)
                         /\ ~RepatriateFails(released, d, who, penalty)
  BY DEF RejectOrder, RemoveOrder
<1>4. stops => who # d /\ ~IsAlive(released, who)
  BY DEF RepatriateFails
<1>r. released = Unreserve(bal, who, order.fee)
  OBVIOUS
<1> HIDE DEF order, who, penalty, released, stops
<1> USE CommitmentTypes
<1>5. /\ released \in Ledger /\ Reaped(released)
      /\ \A a \in Account \ {who} : released[a] = bal[a]
  BY <1>1, <1>r, UnreserveEffect
<1>6. who # d =>
        /\ released[d] = bal[d]
        /\ order.fee <= bal[who].reserved => released[who].reserved = bal[who].reserved - order.fee
        /\ released[who].free >= bal[who].free
        /\ ~IsAlive(released, who) => bal[who].reserved = 0 /\ released[who].reserved = 0
  BY <1>1, <1>r, FeeReleases
<1>7. CASE stops
  <2>1. \A a \in Account : bal'[a].reserved = bal[a].reserved /\ bal'[a].free >= bal[a].free
    BY <1>3, <1>4, <1>5, <1>6, <1>7
  <2> QED
    BY <1>3, <1>7, <2>1, NoFeeMoves, NoStakeMoves
<1>8. CASE ~stops
  <2>1. \A a \in Account \ {who, d} : bal'[a] = bal[a]
    BY <1>1, <1>3, <1>5, <1>8, Untouched
  <2>2. who # d =>
            /\ bal'[who].reserved = released[who].reserved
            /\ bal'[who].free >= released[who].free
            /\ penalty <= released[d].reserved /\ DustFree(released[d].reserved - penalty) =>
                    bal'[d].reserved = released[d].reserved - penalty
    BY <1>1, <1>3, <1>5, <1>8, PenaltySettles
  <2>3. /\ orders' = [orders EXCEPT ![d] = None] /\ orders'[d] = None
        /\ \A e \in Device \ {d} : orders'[e] = orders[e]
    BY <1>3, <1>8 DEF Registered, TypeOK
  <2>4. bal' \in Ledger
    <3>1. CASE bal' = Unreserve(released, d, penalty)
      BY <1>1, <1>5, <3>1, UnreserveEffect
    <3>2. CASE /\ bal' = Repatriate(released, d, who, penalty)
               /\ ~RepatriateFails(released, d, who, penalty)
      BY <1>1, <1>5, <3>2, RepatriateType
    <3> QED
      BY <1>3, <1>8, <3>1, <3>2
  <2>5. ASSUME NEW c \in Client \ Device, FeesCovered(c)
        PROVE  FeeMoves(c) /\ bal'[c].free >= bal[c].free
    <3>1. CASE c = who
      <4>1. order.fee <= bal[who].reserved
        BY <2>5, <3>1 DEF FeesCovered, FeeAt, who, order
      <4>2. bal'[who].reserved = bal[who].reserved - order.fee
        BY <1>6, <2>2, <3>1, <4>1
      <4>3. bal'[who].free >= bal[who].free
        <5>1. bal'[who].free \in Nat /\ released[who].free \in Nat /\ bal[who].free \in Nat
          BY <1>1, <1>5, <2>4 DEF Ledger, Balance
        <5> QED
          BY <1>6, <2>2, <3>1, <5>1
      <4>4. bal'[who].reserved + order.fee = bal[who].reserved
        BY <1>1, <4>1, <4>2
      <4>5. orders[d].client = c /\ bal'[c].reserved + orders[d].fee = bal[c].reserved
        BY <3>1, <4>4 DEF who, order
      <4>6. FeeMoves(c)
        BY <2>3, <4>5, ClosingFees
      <4> QED
        BY <3>1, <4>3, <4>6
    <3>2. CASE c # who
      <4>1. bal'[c] = bal[c] /\ orders[d].client # c
        BY <2>1, <3>2 DEF who, order
      <4>2. bal[c].free >= bal[c].free
        OBVIOUS
      <4>3. FeeMoves(c)
        BY <2>3, <4>1, ClosingFees
      <4> QED
        BY <4>1, <4>2, <4>3
    <3> QED
      BY <3>1, <3>2
  <2>6. ASSUME NEW e \in Device \ Client, StakeCovered(e)
        PROVE  StakeMoves(e)
    <3>1. CASE e = d
      <4>1. Stake(d) = penalty /\ Stake(d)' = 0
        BY <2>3 DEF Stake, penalty
      <4>2. bal'[d].reserved = bal[d].reserved - penalty /\ penalty <= bal[d].reserved
        BY <1>1, <1>6, <2>2, <2>6, <3>1, <4>1 DEF StakeCovered
      <4> QED
        BY <1>1, <3>1, <4>1, <4>2 DEF StakeMoves
    <3>2. CASE e # d
      <4>1. bal'[e] = bal[e] /\ orders'[e] = orders[e]
        BY <1>1, <2>1, <2>3, <3>2
      <4>2. orders[e] # None => device'[e].penalty = device[e].penalty
        BY <1>2, <4>1, OpensNonePenalties
      <4> QED
        BY <4>1, <4>2, NoStakeMoves
    <3> QED
      BY <3>1, <3>2
  <2> QED
    BY <2>5, <2>6
<1> QED
  BY <1>7, <1>8

(* on_done for the client on record takes the fee out of the client's      *)
(* reserve and the penalty out of the device's.  It can stop in between    *)
(* only when paying has reaped the client.                                 *)
LEMMA FinishMoves ==
    ASSUME Registered, NEW d \in Device, NEW state, orders[d] # None,
           ~RepatriateFails(bal, orders[d].client, d, orders[d].fee),
           FinishOrder(orders[d].client, d, state)
    PROVE  /\ \A c \in Client \ Device :
                FeesCovered(c) /\ (orders[d].client = c => bal[c].free >= ExistentialDeposit)
                => FeeMoves(c) /\ bal'[c].free >= bal[c].free
           /\ \A e \in Device \ Client : StakeCovered(e) => StakeMoves(e)
<1> DEFINE order == orders[d]
           who == order.client
           penalty == device[d].penalty
           paid == Repatriate(bal, who, d, order.fee)
           stops == IsLate(order) /\ RepatriateFails(paid, d, who, penalty)
<1>1. /\ who \in Client /\ who \in Account /\ d \in Account
      /\ order.fee \in Nat /\ penalty \in Nat
      /\ bal \in Ledger /\ Reaped(bal)
  BY OrderTypes, AccountsAssumption DEF Registered, TypeOK, OrderHasDevice, Order
<1>2. OpensNone
  BY FinishOpensNone
<1>3. /\ stops => bal' = paid /\ UNCHANGED orders
      /\ ~stops => /\ orders' = [orders EXCEPT ![d] = None]
                   /\ \/ bal' = Unreserve(paid, d, penalty)
                      \/ bal' = Repatriate(paid, d, who, penalty)
                         /\ ~RepatriateFails(paid, d, who, penalty)
  BY DEF FinishOrder, RemoveOrder
<1>4. stops => who # d /\ ~IsAlive(paid, who)
  BY DEF RepatriateFails
<1>r. paid = Repatriate(bal, who, d, order.fee) /\ ~RepatriateFails(bal, who, d, order.fee)
  OBVIOUS
<1> HIDE DEF order, who, penalty, paid, stops
<1> USE CommitmentTypes
<1>5. /\ paid \in Ledger /\ Reaped(paid)
      /\ \A a \in Account \ {who, d} : paid[a] = bal[a]
  BY <1>1, <1>r, RepatriateType, Untouched
<1>6. who # d =>
        /\ paid[d].reserved = bal[d].reserved
        /\ /\ order.fee <= bal[who].reserved
           /\ DustFree(bal[who].reserved - order.fee) \/ bal[who].free >= ExistentialDeposit
           => /\ paid[who].reserved = bal[who].reserved - order.fee
              /\ bal[who].free >= ExistentialDeposit => paid[who].free = bal[who].free
  BY <1>1, <1>r, FeePays
<1>7. ASSUME who \notin Device, FeesCovered(who), bal[who].free >= ExistentialDeposit
      PROVE  /\ order.fee <= bal[who].reserved
             /\ paid[who].reserved = bal[who].reserved - order.fee
             /\ paid[who].free = bal[who].free
             /\ ~stops
  <2>1. who # d
    BY <1>7
  <2>2. order.fee <= bal[who].reserved
    BY <1>7 DEF FeesCovered, FeeAt, who, order
  <2>3. /\ paid[who].reserved = bal[who].reserved - order.fee
        /\ paid[who].free = bal[who].free
    BY <1>6, <1>7, <2>1, <2>2
  <2>4. IsAlive(paid, who)
    BY <1>1, <1>5, <1>7, <2>3, DepositAssumption DEF IsAlive, Total, Ledger, Balance
  <2> QED
    BY <1>4, <2>2, <2>3, <2>4
<1>8. CASE stops
  <2>1. ASSUME NEW c \in Client \ Device, FeesCovered(c),
               orders[d].client = c => bal[c].free >= ExistentialDeposit
        PROVE  FeeMoves(c) /\ bal'[c].free >= bal[c].free
    <3>1. c # who
      BY <1>7, <1>8, <2>1 DEF who, order
    <3>2. bal'[c] = bal[c]
      BY <1>3, <1>5, <1>8, <3>1
    <3> QED
      BY <1>3, <1>8, <3>2, NoFeeMoves
  <2>2. ASSUME NEW e \in Device \ Client PROVE StakeMoves(e)
    <3>1. bal'[e].reserved = bal[e].reserved
      BY <1>1, <1>3, <1>5, <1>6, <1>8
    <3>2. orders' = orders
      BY <1>3, <1>8
    <3>3. orders[e] # None => device'[e].penalty = device[e].penalty
      BY <1>2, <3>2, OpensNonePenalties
    <3> QED
      BY <3>1, <3>2, <3>3, NoStakeMoves
  <2> QED
    BY <2>1, <2>2
<1>9. CASE ~stops
  <2>1. \A a \in Account \ {who, d} : bal'[a] = bal[a]
    BY <1>1, <1>3, <1>5, <1>9, Untouched
  <2>2. who # d =>
            /\ bal'[who].reserved = paid[who].reserved
            /\ bal'[who].free >= paid[who].free
            /\ penalty <= paid[d].reserved /\ DustFree(paid[d].reserved - penalty) =>
                    bal'[d].reserved = paid[d].reserved - penalty
    BY <1>1, <1>3, <1>5, <1>9, PenaltySettles
  <2>3. /\ orders' = [orders EXCEPT ![d] = None] /\ orders'[d] = None
        /\ \A e \in Device \ {d} : orders'[e] = orders[e]
    BY <1>3, <1>9 DEF Registered, TypeOK
  <2>4. ASSUME NEW c \in Client \ Device, FeesCovered(c),
               orders[d].client = c => bal[c].free >= ExistentialDeposit
        PROVE  FeeMoves(c) /\ bal'[c].free >= bal[c].free
    <3>1. CASE c = who
      <4>1. /\ order.fee <= bal[who].reserved
            /\ paid[who].reserved = bal[who].reserved - order.fee
            /\ paid[who].free = bal[who].free
        BY <1>7, <2>4, <3>1 DEF who, order
      <4>2. /\ bal'[who].reserved = bal[who].reserved - order.fee
            /\ bal'[who].free >= bal[who].free
        BY <2>2, <3>1, <4>1
      <4>3. bal'[who].reserved + order.fee = bal[who].reserved
        BY <1>1, <4>1, <4>2
      <4>4. orders[d].client = c /\ bal'[c].reserved + orders[d].fee = bal[c].reserved
        BY <3>1, <4>3 DEF who, order
      <4>5. FeeMoves(c)
        BY <2>3, <4>4, ClosingFees
      <4> QED
        BY <3>1, <4>2, <4>5
    <3>2. CASE c # who
      <4>1. bal'[c] = bal[c] /\ orders[d].client # c
        BY <2>1, <3>2 DEF who, order
      <4>2. bal[c].free >= bal[c].free
        OBVIOUS
      <4>3. FeeMoves(c)
        BY <2>3, <4>1, ClosingFees
      <4> QED
        BY <4>1, <4>2, <4>3
    <3> QED
      BY <3>1, <3>2
  <2>5. ASSUME NEW e \in Device \ Client, StakeCovered(e)
        PROVE  StakeMoves(e)
    <3>1. CASE e = d
      <4>1. Stake(d) = penalty /\ Stake(d)' = 0
        BY <2>3 DEF Stake, penalty
      <4>2. bal'[d].reserved = bal[d].reserved - penalty /\ penalty <= bal[d].reserved
        BY <1>1, <1>6, <2>2, <2>5, <3>1, <4>1 DEF StakeCovered
      <4> QED
        BY <1>1, <3>1, <4>1, <4>2 DEF StakeMoves
    <3>2. CASE e # d
      <4>1. bal'[e] = bal[e] /\ orders'[e] = orders[e]
        BY <1>1, <2>1, <2>3, <3>2
      <4>2. orders[e] # None => device'[e].penalty = device[e].penalty
        BY <1>2, <4>1, OpensNonePenalties
      <4> QED
        BY <4>1, <4>2, NoStakeMoves
    <3> QED
      BY <3>1, <3>2
  <2> QED
    BY <2>4, <2>5
<1> QED
  BY <1>8, <1>9

(* A transfer leaves reserves that are no dust alone.                      *)
LEMMA SpendMoves ==
    ASSUME Registered, NEW from \in Account, NEW to \in Account, NEW amount,
           Spend(from, to, amount)
    PROVE  /\ \A c \in Client : DustFree(bal[c].reserved) => FeeMoves(c)
           /\ \A e \in Device : DustFree(bal[e].reserved) => StakeMoves(e)
<1>1. OpensNone /\ orders' = orders
  BY OpensNoneByHook DEF Spend
<1>2. \A a \in Account : DustFree(bal[a].reserved) => bal'[a].reserved = bal[a].reserved
  BY TransferEffect DEF Spend, Registered, TypeOK, DustFree
<1>3. \A e \in Device : orders[e] # None => device'[e].penalty = device[e].penalty
  BY <1>1, OpensNonePenalties
<1> QED
  BY <1>1, <1>2, <1>3, CommitmentTypes, NoFeeMoves, NoStakeMoves

(* Every step outside handle_xcmp_messages changes a reserve by what one   *)
(* commitment changes.                                                     *)
LEMMA CallMoves ==
    ASSUME Registered, [Next]_vars, batch = <<>>
    PROVE  /\ \A c \in Client \ Device :
                FeesCovered(c) /\ DustFree(bal[c].reserved) => FeeMoves(c)
           /\ \A e \in Device \ Client :
                StakeCovered(e) /\ DustFree(bal[e].reserved) => StakeMoves(e)
<1> DEFINE Moves == /\ \A c \in Client \ Device :
                        FeesCovered(c) /\ DustFree(bal[c].reserved) => FeeMoves(c)
                    /\ \A e \in Device \ Client :
                        StakeCovered(e) /\ DustFree(bal[e].reserved) => StakeMoves(e)
<1>1. ASSUME NEW who \in Client, NEW base \in OrderBase, PlaceOrder(who, base)
      PROVE  Moves
  BY <1>1, PlaceMoves
<1>2. ASSUME NEW who \in Client, NEW d \in Device, Cancel(who, d)
      PROVE  Moves
  BY <1>2, RejectMoves DEF Cancel
<1>3. ASSUME UNCHANGED <<bal, orders>>,
             \A e \in Device : orders[e] # None => device'[e] = device[e]
      PROVE  Moves
  BY <1>3, NoFeeMoves, NoStakeMoves
<1>4. ASSUME NEW d \in Device, NEW paraid \in ParaId, NEW penalty \in Penalties,
             NEW wcd \in Wcds, NEW onoff \in BOOLEAN,
             Register(d, paraid, penalty, wcd, onoff)
      PROVE  Moves
  BY <1>3, <1>4 DEF Register, Registered, TypeOK
<1>5. ASSUME NEW from \in Account, NEW to \in Account, NEW amount, Spend(from, to, amount)
      PROVE  Moves
  BY <1>5, SpendMoves
<1>6. ASSUME Test \/ Tick \/ Carry \/ UNCHANGED vars \/ \E blobs : BeginBatch(blobs)
      PROVE  Moves
  BY <1>3, <1>6 DEF Test, Tick, Carry, BeginBatch, vars
<1>7. ~Handle
  BY DEF Handle, ReadOnly, OnReject, OnDone, AbortBatch
<1> HIDE DEF Moves
<1>8. Moves
  BY <1>1, <1>2, <1>4, <1>5, <1>6, <1>7 DEF Next, Dispatch, Environment
<1> QED
  BY <1>8 DEF Moves

-------------------------------------------------------------------------------
(* Action properties                                                       *)

(* An open order is never replaced and its terms never change: only        *)
(* `order` and `register` write them, and both look for an open order.     *)
LEMMA TermsFrozenInStep == IInv /\ [Next]_vars => TermsFrozenStep
<1> SUFFICES ASSUME IInv, [Next]_vars,
                    NEW d \in Device, orders[d] # None, orders'[d] # None
             PROVE  /\ orders'[d] = orders[d]
                    /\ device'[d] # None
                    /\ device'[d] = [device[d] EXCEPT !.state = device'[d].state]
  BY DEF TermsFrozenStep
<1>0. device'[d] # None
  BY InvStep DEF IInv, Registered, OrderHasDevice
<1>1. CASE ~Opening
  BY <1>0, <1>1, OthersOpenNone DEF OpensNone, Kept, IInv
<1>2. CASE Opening
  <2>1. device[d] \in DeviceProfile
    BY DEF IInv, Registered, TypeOK, OrderHasDevice
  <2>2. orders'[d] = orders[d] /\ device'[d] = device[d]
    BY <1>2 DEF Opening, PlaceOrder, Register, IInv, Registered, TypeOK
  <2> QED
    BY <1>0, <2>1, <2>2 DEF DeviceProfile
<1> QED
  BY <1>1, <1>2

THEOREM TermsFrozenHolds == Spec => TermsFrozen
<1>1. IInv /\ [Next]_vars => [TermsFrozenStep]_vars
  BY TermsFrozenInStep
<1> QED
  BY <1>1, Invariance, PTL DEF Spec, TermsFrozen

(* An order that closes before its time costs the device nothing.          *)
LEMMA NoPenaltyOnTimeInStep == IInv /\ [Next]_vars => NoPenaltyOnTimeStep
<1> SUFFICES ASSUME IInv, [Next]_vars, Opening PROVE NoPenaltyOnTimeStep
  BY OtherSteps
<1>1. \A d \in Device : orders[d] # None => orders'[d] = orders[d]
  BY DEF Opening, PlaceOrder, Register, IInv, Registered, TypeOK
<1> QED
  BY <1>1 DEF NoPenaltyOnTimeStep

THEOREM NoPenaltyOnTimeHolds == Spec => NoPenaltyOnTime
<1>1. IInv /\ [Next]_vars => [NoPenaltyOnTimeStep]_vars
  BY NoPenaltyOnTimeInStep
<1> QED
  BY <1>1, Invariance, PTL DEF Spec, NoPenaltyOnTime

(* A cancel of an overdue order succeeds and hands over the whole penalty: *)
(* its signer exists, so the penalty can be delivered, and the invariant   *)
(* says that all of it is there.                                           *)
LEMMA CancelCompensatesInStep == IInv => CancelCompensatesStep
<1> SUFFICES ASSUME IInv, NEW who \in Client \ Device, NEW d \in Device \ Client,
                    Cancel(who, d), device[d].penalty >= ExistentialDeposit
             PROVE  /\ orders'[d] = None
                    /\ bal'[d].reserved = 0
                    /\ Total(bal'[who]) = Total(bal[who]) + device[d].penalty
  BY DEF CancelCompensatesStep
<1> DEFINE order == orders[d]
           penalty == device[d].penalty
           released == Unreserve(bal, who, order.fee)
<1>1. /\ who \in Client /\ who \in Account /\ d \in Account /\ who # d
      /\ orders[d] # None /\ device[d] # None /\ IsLate(order) /\ order.client = who
      /\ IsAlive(bal, who)
      /\ RejectOrder(who, d, device[d].state)
  BY AccountsAssumption DEF Cancel, Signed, IsLate
<1>2. /\ order.fee \in Nat /\ penalty \in Nat
      /\ bal \in Ledger /\ Reaped(bal)
      /\ orders \in [Device -> Order \cup {None}]
      /\ bal[d].reserved = penalty
  BY <1>1, OrderTypes DEF IInv, Registered, TypeOK, PenaltyExact
<1>3. /\ released \in Ledger /\ Reaped(released)
      /\ released[d] = bal[d]
      /\ Total(released[who]) = Total(bal[who])
  BY <1>1, <1>2, UnreserveEffect
<1> HIDE DEF order, penalty, released
<1>4. ~RepatriateFails(released, d, who, penalty)
  BY <1>1, <1>3 DEF RepatriateFails, IsAlive
<1>5. /\ bal' = Repatriate(released, d, who, penalty)
      /\ orders' = [orders EXCEPT ![d] = None]
  BY <1>1, <1>4 DEF RejectOrder, RemoveOrder, order, penalty, released
<1>6. AtMost(released[d].reserved, penalty) = penalty
  BY <1>2, <1>3 DEF AtMost
<1>7. /\ Total(bal'[who]) = Total(bal[who]) + penalty
      /\ bal'[d].reserved <= penalty - penalty
      /\ bal' \in Ledger
  BY <1>1, <1>2, <1>3, <1>4, <1>5, <1>6, RepatriateEffect
<1>8. bal'[d].reserved = 0
  <2>1. bal'[d].reserved \in Nat
    BY <1>1, <1>7 DEF Ledger, Balance
  <2> QED
    BY <1>2, <1>7, <2>1
<1> QED
  BY <1>2, <1>5, <1>7, <1>8 DEF penalty

THEOREM CancelCompensatesHolds == Spec => CancelCompensates
<1>1. IInv => [CancelCompensatesStep]_vars
  BY CancelCompensatesInStep
<1> QED
  BY <1>1, Invariance, PTL DEF Spec, CancelCompensates
===============================================================================
