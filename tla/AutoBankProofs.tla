----------------------------- MODULE AutoBankProofs -----------------------------
(***************************************************************************)
(* Proofs about the two chains together.  First that at most one thing is  *)
(* under way about a device, and that it is about the order the client     *)
(* chain knows; then what this means for the money and for the abstract    *)
(* exchange.                                                               *)
(*                                                                         *)
(* Each pallet's own proofs are taken over with its variables renamed.     *)
(***************************************************************************)
EXTENDS AutoBank, CurrencyProofs

CP == INSTANCE XchangeProofs WITH
        now <- cnow, bal <- cbal, device <- cdevice, orders <- corders,
        batch <- cbatch, outbox <- toService,
        Endowment <- ClientEndowment, KilledHook <- FALSE,
        Incoming <- Message, TestParaId <- ServicePara

SP == INSTANCE XchangeServiceProofs WITH
        now <- snow, bal <- sbal, device <- sdevice, orders <- sorders,
        batch <- sbatch, outbox <- toClient,
        Endowment <- ServiceEndowment, SelfParaId <- ServicePara,
        KilledHook <- FALSE, Incoming <- FromClientChain

-------------------------------------------------------------------------------
(* The pallets on the two chains                                           *)

(* The two chains give each pallet the constants its proofs assume.        *)
LEMMA SameMessages ==
    /\ CP!Message = Message /\ SP!Message = Message
    /\ CP!Order = Order /\ SP!Order = Order
    /\ CP!DeviceState = DeviceState /\ SP!DeviceState = DeviceState
    /\ CP!Outbound = Outbound /\ SP!Outbound = Outbound
    /\ CP!Moment = Moment /\ SP!Moment = Moment
    /\ CP!Ledger = Ledger /\ SP!Ledger = Ledger
    /\ CP!OrderBase = OrderBase
<1>1. CP!Moment = Moment /\ SP!Moment = Moment
  BY DEF Moment, CP!Moment, SP!Moment
<1>2. CP!OrderBase = OrderBase /\ SP!OrderBase = OrderBase
  BY <1>1 DEF OrderBase, CP!OrderBase, SP!OrderBase
<1>3. CP!Message = Message /\ SP!Message = Message
  BY <1>2 DEF Message, NewOrders, Answers, Garbage, CP!Message, CP!NewOrders, CP!Answers,
              CP!Garbage, SP!Message, SP!NewOrders, SP!Answers, SP!Garbage
<1>4. CP!Order = Order /\ SP!Order = Order
  BY <1>1 DEF Order, CP!Order, SP!Order
<1> QED
  BY <1>1, <1>2, <1>3, <1>4
     DEF DeviceState, CP!DeviceState, SP!DeviceState, Outbound, CP!Outbound, SP!Outbound,
         Ledger, CP!Ledger, SP!Ledger, Balance, CP!Balance, SP!Balance

LEMMA ClientAssumptions ==
    /\ CP!IsFiniteSet(Device)
    /\ /\ None \notin CP!Order
       /\ None \notin [penalty : Nat, wcd : Nat, state : CP!DeviceState]
       /\ None \notin [penalty : Nat, wcd : Nat, para_id : ParaId, state : CP!DeviceState]
    /\ /\ ClientEndowment \in [Account -> Nat]
       /\ \A a \in Account :
            ClientEndowment[a] = 0 \/ ClientEndowment[a] >= ExistentialDeposit
       /\ FALSE \in BOOLEAN
       /\ Message \subseteq CP!Message
       /\ MaxBatch \in Nat
       /\ ServicePara \in ParaId
<1>1. CP!IsFiniteSet(Device)
  BY DeviceAssumption DEF IsFiniteSet, CP!IsFiniteSet
<1>2. CP!Order = Order /\ CP!DeviceState = DeviceState /\ Message \subseteq CP!Message
  BY SameMessages
<1>3. /\ None \notin CP!Order
      /\ None \notin [penalty : Nat, wcd : Nat, state : CP!DeviceState]
      /\ None \notin [penalty : Nat, wcd : Nat, para_id : ParaId, state : CP!DeviceState]
  BY <1>2, NoneAssumption
<1>4. /\ ClientEndowment \in [Account -> Nat]
      /\ \A a \in Account : ClientEndowment[a] = 0 \/ ClientEndowment[a] >= ExistentialDeposit
  BY BankAssumption
<1>5. MaxBatch \in Nat /\ ServicePara \in ParaId
  BY BankAssumption
<1> QED
  BY <1>1, <1>2, <1>3, <1>4, <1>5

LEMMA ServiceAssumptions ==
    /\ SP!IsFiniteSet(Device)
    /\ /\ None \notin SP!Order
       /\ None \notin [penalty : Nat, wcd : Nat, state : SP!DeviceState]
       /\ None \notin [penalty : Nat, wcd : Nat, para_id : ParaId, state : SP!DeviceState]
    /\ /\ ServiceEndowment \in [Account -> Nat]
       /\ \A a \in Account :
            ServiceEndowment[a] = 0 \/ ServiceEndowment[a] >= ExistentialDeposit
       /\ ServicePara \in ParaId
       /\ OnReceived \subseteq {"Busy", "Accepted", None}
       /\ None \notin {"Busy", "Accepted"}
       /\ FALSE \in BOOLEAN
       /\ FromClientChain \subseteq SP!Inbound
       /\ \A blob \in FromClientChain : blob.sender # ServicePara
       /\ MaxBatch \in Nat
<1>1. SP!IsFiniteSet(Device)
  BY DeviceAssumption DEF IsFiniteSet, SP!IsFiniteSet
<1>2. /\ FromClientChain \subseteq SP!Inbound
      /\ \A blob \in FromClientChain : blob.sender # ServicePara
  BY SameMessages, BankAssumption DEF FromClientChain, SP!Inbound
<1>3. SP!Order = Order /\ SP!DeviceState = DeviceState
  BY SameMessages
<1>4. /\ None \notin SP!Order
      /\ None \notin [penalty : Nat, wcd : Nat, state : SP!DeviceState]
      /\ None \notin [penalty : Nat, wcd : Nat, para_id : ParaId, state : SP!DeviceState]
  BY <1>3, NoneAssumption
<1>5. /\ ServiceEndowment \in [Account -> Nat]
      /\ \A a \in Account : ServiceEndowment[a] = 0 \/ ServiceEndowment[a] >= ExistentialDeposit
  BY BankAssumption
<1>6. /\ MaxBatch \in Nat /\ ServicePara \in ParaId
      /\ OnReceived \subseteq {"Busy", "Accepted", None} /\ None \notin {"Busy", "Accepted"}
  BY BankAssumption
<1> QED
  BY <1>1, <1>2, <1>4, <1>5, <1>6

(* An action of a chain is the same action in its pallet's proofs.         *)
LEMMA ClientActions ==
    /\ \A who, base : C!PlaceOrder(who, base) <=> CP!PlaceOrder(who, base)
    /\ \A who, d : C!Cancel(who, d) <=> CP!Cancel(who, d)
    /\ \A d, paraid, penalty, wcd, onoff : C!Register(d, paraid, penalty, wcd, onoff) <=> CP!Register(d, paraid, penalty, wcd, onoff)
    /\ C!Test <=> CP!Test
    /\ C!ReadOnly <=> CP!ReadOnly
    /\ C!AbortBatch <=> CP!AbortBatch
    /\ C!OnReject <=> CP!OnReject
    /\ C!OnDone <=> CP!OnDone
    /\ C!Tick <=> CP!Tick
    /\ \A blobs : C!BeginBatch(blobs) <=> CP!BeginBatch(blobs)
<1>1. \A who, base : C!PlaceOrder(who, base) <=> CP!PlaceOrder(who, base)
  BY DEF C!PlaceOrder, CP!PlaceOrder, C!Signed, CP!Signed, C!IsAlive, CP!IsAlive, C!Total,
         CP!Total, C!Deadline, CP!Deadline, C!CanReserve, CP!CanReserve, C!Reserve,
         CP!Reserve, C!Send, CP!Send, C!ToOrder, CP!ToOrder, C!ToBase, CP!ToBase,
         C!NewOrder, CP!NewOrder
<1>2. \A who, d : C!Cancel(who, d) <=> CP!Cancel(who, d)
  BY DEF C!Cancel, CP!Cancel, C!RejectOrder, CP!RejectOrder, C!RemoveOrder,
         CP!RemoveOrder, C!IsLate, CP!IsLate, C!OnKilledAccount, CP!OnKilledAccount,
         C!Signed, CP!Signed, C!Total, CP!Total, C!IsAlive, CP!IsAlive, C!Killed,
         CP!Killed, C!Reap, CP!Reap, C!Dead, CP!Dead, C!AtMost, CP!AtMost, C!Unreserve,
         CP!Unreserve, C!RepatriateFails, CP!RepatriateFails, C!Repatriate, CP!Repatriate
<1>3. \A d, paraid, penalty, wcd, onoff : C!Register(d, paraid, penalty, wcd, onoff) <=> CP!Register(d, paraid, penalty, wcd, onoff)
  BY DEF C!Register, CP!Register, C!Switch, CP!Switch, C!Signed, CP!Signed, C!IsAlive,
         CP!IsAlive, C!Total, CP!Total
<1>4. C!Test <=> CP!Test
  BY DEF C!Test, CP!Test, C!Send, CP!Send, C!Garbage, CP!Garbage
<1>5. C!ReadOnly <=> CP!ReadOnly
  BY DEF C!ReadOnly, CP!ReadOnly
<1>6. C!AbortBatch <=> CP!AbortBatch
  BY DEF C!AbortBatch, CP!AbortBatch
<1>7. C!OnReject <=> CP!OnReject
  BY DEF C!OnReject, CP!OnReject, C!Switch, CP!Switch, C!RejectOrder, CP!RejectOrder,
         C!RemoveOrder, CP!RemoveOrder, C!IsLate, CP!IsLate, C!OnKilledAccount,
         CP!OnKilledAccount, C!Total, CP!Total, C!IsAlive, CP!IsAlive, C!Killed,
         CP!Killed, C!Reap, CP!Reap, C!Dead, CP!Dead, C!AtMost, CP!AtMost, C!Unreserve,
         CP!Unreserve, C!RepatriateFails, CP!RepatriateFails, C!Repatriate, CP!Repatriate
<1>8. C!OnDone <=> CP!OnDone
  BY DEF C!OnDone, CP!OnDone, C!Switch, CP!Switch, C!FinishOrder, CP!FinishOrder,
         C!RemoveOrder, CP!RemoveOrder, C!IsLate, CP!IsLate, C!OnKilledAccount,
         CP!OnKilledAccount, C!Total, CP!Total, C!IsAlive, CP!IsAlive, C!Killed,
         CP!Killed, C!Reap, CP!Reap, C!Dead, CP!Dead, C!AtMost, CP!AtMost, C!Unreserve,
         CP!Unreserve, C!RepatriateFails, CP!RepatriateFails, C!Repatriate, CP!Repatriate
<1>9. C!Tick <=> CP!Tick
  BY DEF C!Tick, CP!Tick
<1>10. \A blobs : C!BeginBatch(blobs) <=> CP!BeginBatch(blobs)
  BY DEF C!BeginBatch, CP!BeginBatch
<1> QED
  BY <1>1, <1>2, <1>3, <1>4, <1>5, <1>6, <1>7, <1>8, <1>9, <1>10

LEMMA ServiceActions ==
    /\ \A who, d, fee, until, state : S!PlaceOrder(who, d, fee, until, state) <=> SP!PlaceOrder(who, d, fee, until, state)
    /\ \A who, d : S!Cancel(who, d) <=> SP!Cancel(who, d)
    /\ \A d : S!Accept(d) <=> SP!Accept(d)
    /\ \A d, onoff : S!Reject(d, onoff) <=> SP!Reject(d, onoff)
    /\ \A d, onoff : S!Done(d, onoff) <=> SP!Done(d, onoff)
    /\ \A d, penalty, wcd, onoff : S!Register(d, penalty, wcd, onoff) <=> SP!Register(d, penalty, wcd, onoff)
    /\ \A d, onoff : S!SetState(d, onoff) <=> SP!SetState(d, onoff)
    /\ \A state : S!ReceiveOrder(state) <=> SP!ReceiveOrder(state)
    /\ S!DropOrder <=> SP!DropOrder
    /\ S!AbortBatch <=> SP!AbortBatch
    /\ S!Tick <=> SP!Tick
    /\ \A blobs : S!BeginBatch(blobs) <=> SP!BeginBatch(blobs)
<1>1. \A who, d, fee, until, state : S!PlaceOrder(who, d, fee, until, state) <=> SP!PlaceOrder(who, d, fee, until, state)
  BY DEF S!PlaceOrder, SP!PlaceOrder, S!Admissible, SP!Admissible, S!TakeOrder,
         SP!TakeOrder, S!AcceptOrder, SP!AcceptOrder, S!IsLocal, SP!IsLocal,
         S!OrderAccept, SP!OrderAccept, S!Signed, SP!Signed, S!Send, SP!Send, S!IsAlive,
         SP!IsAlive, S!Total, SP!Total, S!Deadline, SP!Deadline, S!CanReserve,
         SP!CanReserve, S!Reserve, SP!Reserve
<1>2. \A who, d : S!Cancel(who, d) <=> SP!Cancel(who, d)
  BY DEF S!Cancel, SP!Cancel, S!Signed, SP!Signed, S!RejectOrder, SP!RejectOrder,
         S!RejectFails, SP!RejectFails, S!FeeReleased, SP!FeeReleased,
         S!LedgerAfterReject, SP!LedgerAfterReject, S!IsLocal, SP!IsLocal, S!RemoveOrder,
         SP!RemoveOrder, S!Send, SP!Send, S!OrderReject, SP!OrderReject,
         S!OnKilledAccount, SP!OnKilledAccount, S!Total, SP!Total, S!IsAlive, SP!IsAlive,
         S!Killed, SP!Killed, S!Reap, SP!Reap, S!Dead, SP!Dead, S!AtMost, SP!AtMost,
         S!Unreserve, SP!Unreserve, S!RepatriateFails, SP!RepatriateFails, S!Repatriate,
         SP!Repatriate
<1>3. \A d : S!Accept(d) <=> SP!Accept(d)
  BY DEF S!Accept, SP!Accept, S!AcceptOrder, SP!AcceptOrder, S!IsLocal, SP!IsLocal,
         S!Send, SP!Send, S!OrderAccept, SP!OrderAccept, S!Signed, SP!Signed, S!IsAlive,
         SP!IsAlive, S!Total, SP!Total
<1>4. \A d, onoff : S!Reject(d, onoff) <=> SP!Reject(d, onoff)
  BY DEF S!Reject, SP!Reject, S!Switch, SP!Switch, S!Signed, SP!Signed, S!RejectOrder,
         SP!RejectOrder, S!RejectFails, SP!RejectFails, S!FeeReleased, SP!FeeReleased,
         S!LedgerAfterReject, SP!LedgerAfterReject, S!IsLocal, SP!IsLocal, S!RemoveOrder,
         SP!RemoveOrder, S!Send, SP!Send, S!OrderReject, SP!OrderReject,
         S!OnKilledAccount, SP!OnKilledAccount, S!Total, SP!Total, S!IsAlive, SP!IsAlive,
         S!Killed, SP!Killed, S!Reap, SP!Reap, S!Dead, SP!Dead, S!AtMost, SP!AtMost,
         S!Unreserve, SP!Unreserve, S!RepatriateFails, SP!RepatriateFails, S!Repatriate,
         SP!Repatriate
<1>5. \A d, onoff : S!Done(d, onoff) <=> SP!Done(d, onoff)
  BY DEF S!Done, SP!Done, S!Switch, SP!Switch, S!LedgerAfterDone, SP!LedgerAfterDone,
         S!IsLocal, SP!IsLocal, S!RemoveOrder, SP!RemoveOrder, S!Send, SP!Send,
         S!OrderDone, SP!OrderDone, S!OnKilledAccount, SP!OnKilledAccount, S!Signed,
         SP!Signed, S!Total, SP!Total, S!IsAlive, SP!IsAlive, S!Killed, SP!Killed, S!Reap,
         SP!Reap, S!Dead, SP!Dead, S!AtMost, SP!AtMost, S!Unreserve, SP!Unreserve,
         S!RepatriateFails, SP!RepatriateFails, S!Repatriate, SP!Repatriate
<1>6. \A d, penalty, wcd, onoff : S!Register(d, penalty, wcd, onoff) <=> SP!Register(d, penalty, wcd, onoff)
  BY DEF S!Register, SP!Register, S!Switch, SP!Switch, S!Signed, SP!Signed, S!IsAlive,
         SP!IsAlive, S!Total, SP!Total
<1>7. \A d, onoff : S!SetState(d, onoff) <=> SP!SetState(d, onoff)
  BY DEF S!SetState, SP!SetState, S!Switch, SP!Switch, S!Signed, SP!Signed, S!IsAlive,
         SP!IsAlive, S!Total, SP!Total
<1>8. \A state : S!ReceiveOrder(state) <=> SP!ReceiveOrder(state)
  BY DEF S!ReceiveOrder, SP!ReceiveOrder, S!Admissible, SP!Admissible, S!TakeOrder,
         SP!TakeOrder, S!AcceptOrder, SP!AcceptOrder, S!IsLocal, SP!IsLocal, S!Send,
         SP!Send, S!OrderAccept, SP!OrderAccept, S!Deadline, SP!Deadline
<1>9. S!DropOrder <=> SP!DropOrder
  BY DEF S!DropOrder, SP!DropOrder, S!Admissible, SP!Admissible, S!Deadline, SP!Deadline
<1>10. S!AbortBatch <=> SP!AbortBatch
  BY DEF S!AbortBatch, SP!AbortBatch
<1>11. S!Tick <=> SP!Tick
  BY DEF S!Tick, SP!Tick
<1>12. \A blobs : S!BeginBatch(blobs) <=> SP!BeginBatch(blobs)
  BY DEF S!BeginBatch, SP!BeginBatch
<1> QED
  BY <1>1, <1>2, <1>3, <1>4, <1>5, <1>6, <1>7, <1>8, <1>9, <1>10, <1>11, <1>12

-------------------------------------------------------------------------------
(* What a step of one chain looks like from the other                      *)

(* The types, and where the messages come from and go to                   *)
Routed ==
    /\ CP!Registered
    /\ SP!Registered
    /\ \A d \in Device : cdevice[d] # None => cdevice[d].para_id = ServicePara
    /\ \A d \in Device : sorders[d] # None => sorders[d].paraid \in {ServicePara, ClientPara}
    /\ \A i \in DOMAIN toService : toService[i].dest = ServicePara
    /\ \A i \in DOMAIN toClient : toClient[i].dest = ClientPara

(* A message is given to a queue, and perhaps lost at once.                *)
Queued(old, new, dest, msg) == new = old \/ new = Append(old, [dest |-> dest, msg |-> msg])

(* The client chain stores an order and sends it,                          *)
Places(d, order) ==
    /\ corders[d] = None /\ order \in Order /\ cnow < order.until
    /\ cdevice[d] # None /\ cdevice[d].state = "Ready"
    /\ corders' = [corders EXCEPT ![d] = order]
    /\ cdevice' = [cdevice EXCEPT ![d] = [cdevice[d] EXCEPT !.state = "Busy"]]
    /\ Queued(toService, toService', ServicePara, NewOrder(order.client, ToBase(order, d)))
    /\ UNCHANGED <<cnow, cbatch, toClient>>

(* loses an overdue one to its client,                                     *)
Withdraws(d) ==
    /\ corders[d] # None /\ cnow >= corders[d].until
    /\ corders' = [corders EXCEPT ![d] = None]
    /\ UNCHANGED <<cnow, cdevice, cbatch, toService, toClient>>

(* registers a device,                                                     *)
Binds(d) ==
    /\ corders[d] = None
    /\ QuietRebind /\ cdevice[d] # None => Quiet(d)
    /\ \E p \in CP!DeviceProfile : p.para_id = ServicePara /\ cdevice' = [cdevice EXCEPT ![d] = p]
    /\ UNCHANGED <<cnow, corders, cbatch, toService, toClient>>

(* does something else, or sends a blob that is no message,                *)
Idles ==
    /\ cnow' \in {cnow, cnow + 1}
    /\ Queued(toService, toService', ServicePara, Garbage)
    /\ UNCHANGED <<cdevice, corders, cbatch, toClient>>

(* gets a delivery,                                                        *)
AnswersArrive(n) ==
    /\ n \in 1 .. Len(toClient)
    /\ cbatch = <<>> /\ cbatch' = [i \in 1 .. n |-> toClient[i].msg]
    /\ toClient' = SubSeq(toClient, n + 1, Len(toClient))
    /\ UNCHANGED <<cnow, cdevice, corders, toService>>

(* reads one of its messages to no effect, or drops them all,              *)
Ignores ==
    /\ cbatch # <<>> /\ cbatch' \in {Tail(cbatch), <<>>}
    /\ UNCHANGED <<cnow, cdevice, corders, toService, toClient>>

(* or closes an order as an answer says.                                   *)
Closes(d) ==
    /\ cbatch # <<>> /\ IsClosing(Head(cbatch), d) /\ cbatch' = Tail(cbatch)
    /\ corders[d] # None
    /\ corders' = [corders EXCEPT ![d] = None]
    /\ \E state \in DeviceState :
            cdevice' = [cdevice EXCEPT ![d] = [cdevice[d] EXCEPT !.state = state]]
    /\ UNCHANGED <<cnow, toService, toClient>>

(* The service chain leaves the orders of the other chain alone,           *)
Serves ==
    /\ \A d \in Device : (ServedRemotely(d) \/ ServedRemotely(d)') => sorders'[d] = sorders[d]
    /\ \A d \in Device : sorders'[d] # None => sorders'[d].paraid \in {ServicePara, ClientPara}
    /\ \/ toClient' = toClient
       \/ \E msg \in Message : /\ \A d \in Device : ~IsClosing(msg, d)
                               /\ Queued(toClient, toClient', ClientPara, msg)
    /\ UNCHANGED <<sbatch, toService>>

(* takes one of them,                                                      *)
Begins(d) ==
    /\ sbatch # <<>> /\ Head(sbatch).msg.type = "NewOrder" /\ Head(sbatch).msg.order.device = d
    /\ sorders[d] = None
    /\ sorders' = [sorders EXCEPT ![d] =
                    [client |-> Head(sbatch).msg.client, fee |-> Head(sbatch).msg.order.fee,
                     until |-> Head(sbatch).msg.order.until, paraid |-> ClientPara]]
    /\ \/ toClient' = toClient
       \/ \E msg \in Message : /\ \A e \in Device : ~IsClosing(msg, e)
                               /\ Queued(toClient, toClient', ClientPara, msg)
    /\ sbatch' = Tail(sbatch)
    /\ UNCHANGED toService

(* answers one,                                                            *)
Ends(d) ==
    /\ ServedRemotely(d)
    /\ sorders' = [sorders EXCEPT ![d] = None]
    /\ \E msg \in Message : /\ IsClosing(msg, d) /\ msg.client = sorders[d].client
                            /\ Queued(toClient, toClient', ClientPara, msg)
    /\ UNCHANGED <<sbatch, toService>>

(* gets a delivery,                                                        *)
OrdersArrive(n) ==
    /\ n \in 1 .. Len(toService)
    /\ sbatch = <<>>
    /\ sbatch' = [i \in 1 .. n |-> [sender |-> ClientPara, msg |-> toService[i].msg]]
    /\ toService' = SubSeq(toService, n + 1, Len(toService))
    /\ UNCHANGED <<sorders, toClient>>

(* or reads one of its messages to no effect, or drops them all.           *)
Refuses ==
    /\ sbatch # <<>> /\ sbatch' \in {Tail(sbatch), <<>>}
    /\ UNCHANGED <<sorders, toService, toClient>>

ClientEffect ==
    \/ \E d \in Device : Withdraws(d) \/ Binds(d) \/ Closes(d)
    \/ \E d \in Device : \E order \in Order : Places(d, order)
    \/ Idles \/ Ignores
    \/ \E n \in 1 .. Len(toClient) : AnswersArrive(n)
ServiceEffect ==
    \/ Serves \/ Refuses
    \/ \E d \in Device : Begins(d) \/ Ends(d)
    \/ \E n \in 1 .. Len(toService) : OrdersArrive(n)

(* Without the hook a reaped account keeps its profile.                    *)
LEMMA NoHook ==
    ASSUME Routed
    PROVE  /\ \A old, new : CP!OnKilledAccount(old, new) = cdevice
           /\ \A old, new : SP!OnKilledAccount(old, new) = sdevice
<1>1. /\ cdevice = [d \in Device |-> cdevice[d]]
      /\ sdevice = [d \in Device |-> sdevice[d]]
  BY DEF Routed, CP!Registered, CP!TypeOK, SP!Registered, SP!TypeOK
<1>2. \A old, new : CP!OnKilledAccount(old, new) = [d \in Device |-> cdevice[d]]
  BY DEF CP!OnKilledAccount
<1>3. \A old, new : SP!OnKilledAccount(old, new) = [d \in Device |-> sdevice[d]]
  BY DEF SP!OnKilledAccount
<1> QED
  BY <1>1, <1>2, <1>3

(* What a device profile and an order look like                            *)
LEMMA ClientRecords ==
    ASSUME Routed, NEW d \in Device, cdevice[d] # None
    PROVE  /\ cdevice[d] \in CP!DeviceProfile
           /\ [cdevice[d] EXCEPT !.state = cdevice[d].state] = cdevice[d]
           /\ [cdevice EXCEPT ![d] = cdevice[d]] = cdevice
           /\ cdevice[d].state \in DeviceState
<1>1. /\ cdevice[d] \in CP!DeviceProfile
      /\ cdevice \in [Device -> CP!DeviceProfile \cup {None}]
  BY DEF Routed, CP!Registered, CP!TypeOK
<1>2. CP!DeviceState = DeviceState
  BY SameMessages
<1> QED
  BY <1>1, <1>2 DEF CP!DeviceProfile

LEMMA PlaceShows ==
    ASSUME Routed, NEW who \in Client, NEW base \in OrderBase, ClientOrders(who, base)
    PROVE  ClientEffect
<1> DEFINE d == base.device
           order == ToOrder(base, who)
<1>1. CP!PlaceOrder(who, base) /\ UNCHANGED svars
  BY ClientActions DEF ClientOrders
<1>2. d \in Device /\ order \in Order /\ order.until = base.until /\ order.client = who
  BY ParaIdAssumption DEF OrderBase, ToOrder, Order
<1>3. /\ corders[d] = None /\ cdevice[d] # None /\ cdevice[d].state = "Ready"
      /\ cnow < order.until
      /\ UNCHANGED <<cnow, cbatch, toClient>>
  BY <1>1, <1>2 DEF CP!PlaceOrder, svars
<1>4. CP!ToOrder(base, who) = order
      /\ CP!NewOrder(who, CP!ToBase(order, d)) = NewOrder(who, ToBase(order, d))
  BY DEF CP!ToOrder, ToOrder, CP!NewOrder, NewOrder, CP!ToBase, ToBase
<1>5. cdevice[d].para_id = ServicePara
  BY <1>2, <1>3 DEF Routed
<1>6. CASE CP!CanReserve(CP!Reserve(cbal, d, cdevice[d].penalty), who, base.fee)
  <2>1. /\ corders' = [corders EXCEPT ![d] = order]
        /\ CP!Send(ServicePara, NewOrder(who, ToBase(order, d)))
        /\ cdevice' = [cdevice EXCEPT ![d] = [cdevice[d] EXCEPT !.state = "Busy"]]
    BY <1>1, <1>4, <1>5, <1>6 DEF CP!PlaceOrder
  <2> HIDE DEF d, order
  <2>2. Queued(toService, toService', ServicePara, NewOrder(order.client, ToBase(order, d)))
    BY <1>2, <2>1 DEF Queued, CP!Send
  <2>3. Places(d, order)
    BY <1>2, <1>3, <2>1, <2>2 DEF Places
  <2> QED
    BY <1>2, <2>3 DEF ClientEffect
<1>7. CASE ~CP!CanReserve(CP!Reserve(cbal, d, cdevice[d].penalty), who, base.fee)
  <2>1. UNCHANGED <<cdevice, corders, toService>>
    BY <1>1, <1>7 DEF CP!PlaceOrder
  <2> QED
    BY <1>3, <2>1 DEF Idles, Queued, ClientEffect
<1> QED
  BY <1>6, <1>7

LEMMA CancelShows ==
    ASSUME Routed, NEW who \in Client, NEW d \in Device, ClientCancels(who, d)
    PROVE  ClientEffect
<1>1. CP!Cancel(who, d) /\ UNCHANGED svars
  BY ClientActions DEF ClientCancels
<1>2. /\ corders[d] # None /\ cnow >= corders[d].until /\ cdevice[d] # None
      /\ CP!RejectOrder(who, d, cdevice[d].state)
      /\ UNCHANGED <<cnow, cbatch, toService, toClient>>
  BY <1>1 DEF CP!Cancel, svars
<1>3. \/ UNCHANGED <<cdevice, corders>>
      \/ /\ corders' = [corders EXCEPT ![d] = None]
         /\ cdevice' = [cdevice EXCEPT ![d] = [cdevice[d] EXCEPT !.state = cdevice[d].state]]
  BY <1>2, NoHook DEF CP!RejectOrder, CP!RemoveOrder
<1>4. [cdevice EXCEPT ![d] = [cdevice[d] EXCEPT !.state = cdevice[d].state]] = cdevice
  BY <1>2, ClientRecords
<1>5. Idles \/ Withdraws(d)
  BY <1>2, <1>3, <1>4 DEF Idles, Queued, Withdraws
<1> QED
  BY <1>5 DEF ClientEffect

LEMMA HandleShows ==
    ASSUME Routed, ClientHandles
    PROVE  ClientEffect
<1>1. CP!ReadOnly \/ CP!AbortBatch \/ CP!OnReject \/ CP!OnDone
  BY ClientActions DEF ClientHandles, C!Handle
<1>2. toClient' = toClient
  BY DEF ClientHandles, svars
<1>3. cbatch \in Seq(Message)
  BY DEF Routed, CP!Registered, CP!TypeOK
<1>4. CASE CP!ReadOnly \/ CP!AbortBatch
  BY <1>2, <1>4 DEF CP!ReadOnly, CP!AbortBatch, Ignores, ClientEffect
<1>5. CASE CP!OnReject \/ CP!OnDone
  <2> DEFINE d == Head(cbatch).device
             who == Head(cbatch).client
             state == CP!Switch(Head(cbatch).onoff)
  <2>1. /\ cbatch # <<>> /\ cbatch' = Tail(cbatch)
        /\ Head(cbatch).type \in {"OrderReject", "OrderDone"}
        /\ UNCHANGED <<cnow, toService>>
    BY <1>5 DEF CP!OnReject, CP!OnDone
  <2>2. d \in Device /\ state \in DeviceState
    <3>1. Head(cbatch) \in Message
      BY <1>3, <2>1
    <3>2. d \in Device
      BY <2>1, <3>1 DEF Message, NewOrders, Answers, Garbage
    <3> QED
      BY <3>2 DEF CP!Switch, DeviceState
  <2>3. \/ UNCHANGED <<cdevice, corders>>
        \/ /\ corders[d] # None
           /\ CP!RejectOrder(who, d, state) \/ CP!FinishOrder(who, d, state)
    BY <1>5 DEF CP!OnReject, CP!OnDone
  <2>4. \/ UNCHANGED <<cdevice, corders>>
        \/ /\ corders[d] # None
           /\ corders' = [corders EXCEPT ![d] = None]
           /\ cdevice' = [cdevice EXCEPT ![d] = [cdevice[d] EXCEPT !.state = state]]
    <3> HIDE DEF d, who, state
    <3> QED
      BY <2>3, NoHook DEF CP!RejectOrder, CP!FinishOrder, CP!RemoveOrder
  <2>5. IsClosing(Head(cbatch), d)
    BY <2>1 DEF IsClosing
  <2> HIDE DEF d, who, state
  <2>6. Ignores \/ Closes(d)
    BY <1>2, <2>1, <2>2, <2>4, <2>5 DEF Ignores, Closes
  <2> QED
    BY <2>2, <2>6 DEF ClientEffect
<1> QED
  BY <1>1, <1>4, <1>5

LEMMA ClientShows == ASSUME Routed, ClientChain PROVE ClientEffect
<1>1. ASSUME NEW d \in Device, NEW penalty \in Penalties, NEW wcd \in Wcds, NEW onoff \in BOOLEAN,
             DeviceRegisters(d, penalty, wcd, onoff)
      PROVE  ClientEffect
  <2> DEFINE p == [penalty |-> penalty, wcd |-> wcd,
                   para_id |-> ServicePara, state |-> CP!Switch(onoff)]
  <2>1. CP!Register(d, ServicePara, penalty, wcd, onoff) /\ UNCHANGED svars
    BY <1>1, ClientActions DEF DeviceRegisters
  <2>2. p \in CP!DeviceProfile /\ p.para_id = ServicePara
    BY BankAssumption DEF CP!DeviceProfile, CP!Switch, CP!DeviceState
  <2>3. /\ corders[d] = None /\ cdevice' = [cdevice EXCEPT ![d] = p]
        /\ UNCHANGED <<cnow, corders, cbatch, toService, toClient>>
    BY <2>1 DEF CP!Register, svars
  <2> HIDE DEF p
  <2>4. Binds(d)
    BY <1>1, <2>2, <2>3 DEF Binds, DeviceRegisters
  <2> QED
    BY <2>4 DEF ClientEffect
<1>2. ASSUME ClientTest \/ ClientTick PROVE ClientEffect
  <2>1. (CP!Test \/ CP!Tick) /\ UNCHANGED svars
    BY <1>2, ClientActions DEF ClientTest, ClientTick
  <2>2. CP!Garbage = Garbage
    BY DEF CP!Garbage, Garbage
  <2>3. Idles
    BY <2>1, <2>2 DEF Idles, Queued, CP!Test, CP!Tick, CP!Send, svars
  <2> QED
    BY <2>3 DEF ClientEffect
<1>3. ASSUME NEW n \in 1 .. MaxBatch, DeliverAnswers(n) PROVE ClientEffect
  <2>1. CP!BeginBatch([i \in 1 .. n |-> toClient[i].msg])
    BY <1>3, ClientActions DEF DeliverAnswers
  <2>2. toClient \in Seq(Outbound) /\ MaxBatch \in Nat
    BY SameMessages, BankAssumption DEF Routed, SP!Registered, SP!TypeOK
  <2>3. n \in 1 .. Len(toClient)
    BY <1>3, <2>2 DEF DeliverAnswers
  <2>4. AnswersArrive(n)
    BY <1>3, <2>1, <2>3 DEF AnswersArrive, DeliverAnswers, CP!BeginBatch
  <2> QED
    BY <2>3, <2>4 DEF ClientEffect
<1> QED
  BY <1>1, <1>2, <1>3, PlaceShows, CancelShows, HandleShows DEF ClientChain

(* What the service chain answers without closing anything                 *)
LEMMA AcceptShows ==
    ASSUME NEW order, NEW d \in Device, order.client \in Client,
           order.paraid \in {ServicePara, ClientPara}, SP!AcceptOrder(order, d)
    PROVE  \/ toClient' = toClient
           \/ \E msg \in Message : /\ \A e \in Device : ~IsClosing(msg, e)
                                   /\ Queued(toClient, toClient', ClientPara, msg)
<1> DEFINE msg == SP!OrderAccept(order.client, d)
<1>1. msg \in Message /\ \A e \in Device : ~IsClosing(msg, e)
  BY DEF SP!OrderAccept, Message, Answers, IsClosing
<1>2. toClient' = toClient \/ (order.paraid = ClientPara /\ SP!Send(ClientPara, msg))
  BY DEF SP!AcceptOrder, SP!IsLocal
<1>3. toClient' = toClient \/ Queued(toClient, toClient', ClientPara, msg)
  BY <1>2 DEF SP!Send, Queued
<1> HIDE DEF msg
<1> QED
  BY <1>1, <1>3

(* A step that writes only a local order is one of its own chain.          *)
LEMMA LocalShows ==
    ASSUME Routed, NEW d \in Device, ~ServedRemotely(d),
           \A e \in Device \ {d} : sorders'[e] = sorders[e],
           sorders'[d] # None => sorders'[d].paraid = ServicePara,
           \/ toClient' = toClient
           \/ \E msg \in Message : /\ \A e \in Device : ~IsClosing(msg, e)
                                   /\ Queued(toClient, toClient', ClientPara, msg),
           UNCHANGED <<sbatch, toService>>
    PROVE  Serves
BY BankAssumption DEF Serves, ServedRemotely, Routed

(* order_reject and done, of a local order or of one of the other chain    *)
LEMMA ClosingShows ==
    ASSUME Routed, NEW d \in Device, sorders[d] # None, NEW msg \in Message,
           IsClosing(msg, d), msg.client = sorders[d].client,
           sorders' = [sorders EXCEPT ![d] = None],
           IF SP!IsLocal(sorders[d]) THEN UNCHANGED toClient ELSE SP!Send(sorders[d].paraid, msg),
           UNCHANGED <<sbatch, toService>>
    PROVE  ServiceEffect
<1>1. \A e \in Device \ {d} : sorders'[e] = sorders[e]
  BY DEF Routed, SP!Registered, SP!TypeOK
<1>2. sorders'[d] = None
  BY DEF Routed, SP!Registered, SP!TypeOK
<1>3. CASE SP!IsLocal(sorders[d])
  <2>1. ~ServedRemotely(d) /\ toClient' = toClient
    BY <1>3, BankAssumption DEF SP!IsLocal, ServedRemotely
  <2>2. Serves
    BY <1>1, <1>2, <2>1, LocalShows
  <2> QED
    BY <2>2 DEF ServiceEffect
<1>4. CASE ~SP!IsLocal(sorders[d])
  <2>1. sorders[d].paraid = ClientPara
    BY <1>4 DEF SP!IsLocal, Routed
  <2>2. Queued(toClient, toClient', ClientPara, msg)
    BY <1>4, <2>1 DEF SP!Send, Queued
  <2>3. Ends(d)
    BY <2>1, <2>2 DEF Ends, ServedRemotely
  <2> QED
    BY <2>3 DEF ServiceEffect
<1> QED
  BY <1>3, <1>4

LEMMA ServiceOrders ==
    ASSUME Routed, NEW d \in Device, sorders[d] # None
    PROVE  /\ sorders[d] \in Order /\ sorders[d].client \in Client
           /\ sorders[d].paraid \in {ServicePara, ClientPara}
BY SameMessages DEF Routed, SP!Registered, SP!TypeOK, Order

LEMMA RejectShows ==
    ASSUME Routed, NEW d \in Device, NEW state, NEW onoff \in BOOLEAN, sorders[d] # None,
           SP!RejectOrder(sorders[d], d, state, onoff), UNCHANGED <<sbatch, toService>>
    PROVE  ServiceEffect
<1> DEFINE msg == SP!OrderReject(sorders[d].client, d, onoff)
<1>1. sorders[d].client \in Client
  BY ServiceOrders
<1>2. /\ msg \in Message /\ IsClosing(msg, d) /\ msg.client = sorders[d].client
  BY <1>1 DEF SP!OrderReject, Message, Answers, IsClosing
<1>3. CASE SP!RejectFails(sorders[d], d)
  <2>1. SP!IsLocal(sorders[d]) /\ UNCHANGED <<sorders, toClient>>
    BY <1>3 DEF SP!RejectOrder, SP!RejectFails
  <2>2. Serves
    BY <2>1 DEF Serves, Routed
  <2> QED
    BY <2>2 DEF ServiceEffect
<1>4. CASE ~SP!RejectFails(sorders[d], d)
  <2>1. /\ sorders' = [sorders EXCEPT ![d] = None]
        /\ IF SP!IsLocal(sorders[d]) THEN UNCHANGED toClient
           ELSE SP!Send(sorders[d].paraid, msg)
    BY <1>4 DEF SP!RejectOrder, SP!RemoveOrder
  <2> HIDE DEF msg
  <2> QED
    BY <1>2, <2>1, ClosingShows
<1> QED
  BY <1>3, <1>4

LEMMA DispatchShows == ASSUME Routed, ServiceDispatch PROVE ServiceEffect
<1>1. toService' = toService
  BY DEF ServiceDispatch, cvars
<1>2. ASSUME NEW who \in Client, NEW d \in Device, NEW fee \in Fees, NEW until \in Moment,
             NEW state \in OnReceived, SP!PlaceOrder(who, d, fee, until, state)
      PROVE  ServiceEffect
  <2> DEFINE order == [client |-> who, fee |-> fee, until |-> until, paraid |-> ServicePara]
  <2>1. sorders[d] = None /\ sbatch' = sbatch
    BY <1>2 DEF SP!PlaceOrder, SP!Admissible
  <2>2. \/ UNCHANGED <<sorders, toClient>>
        \/ /\ sorders' = [sorders EXCEPT ![d] = order]
           /\ SP!AcceptOrder(order, d) \/ UNCHANGED toClient
    BY <1>2 DEF SP!PlaceOrder, SP!TakeOrder
  <2>3. ~ServedRemotely(d)
    BY <2>1 DEF ServedRemotely
  <2>4. /\ \A e \in Device \ {d} : sorders'[e] = sorders[e]
        /\ sorders'[d] # None => sorders'[d].paraid = ServicePara
    BY <2>1, <2>2 DEF Routed, SP!Registered, SP!TypeOK
  <2>5. toClient' = toClient
    BY <2>2 DEF SP!AcceptOrder, SP!IsLocal
  <2>6. Serves
    BY <1>1, <2>1, <2>3, <2>4, <2>5, LocalShows
  <2> QED
    BY <2>6 DEF ServiceEffect
<1>3. ASSUME NEW who \in Client, NEW d \in Device, SP!Cancel(who, d)
      PROVE  ServiceEffect
  <2>1. /\ sorders[d] # None /\ SP!RejectOrder(sorders[d], d, sdevice[d].state, FALSE)
        /\ UNCHANGED <<sbatch, toService>>
    BY <1>1, <1>3 DEF SP!Cancel
  <2> QED
    BY <2>1, RejectShows
<1>4. ASSUME NEW d \in Device, SP!Accept(d) PROVE ServiceEffect
  <2>1. /\ sorders[d] # None /\ SP!AcceptOrder(sorders[d], d) /\ UNCHANGED <<sorders, sbatch>>
    BY <1>4 DEF SP!Accept
  <2>2. \/ toClient' = toClient
        \/ \E msg \in Message : /\ \A e \in Device : ~IsClosing(msg, e)
                                /\ Queued(toClient, toClient', ClientPara, msg)
    BY <2>1, ServiceOrders, AcceptShows
  <2>3. Serves
    BY <1>1, <2>1, <2>2 DEF Serves, Routed
  <2> QED
    BY <2>3 DEF ServiceEffect
<1>5. ASSUME NEW d \in Device, NEW onoff \in BOOLEAN, SP!Reject(d, onoff) PROVE ServiceEffect
  <2>1. CASE sorders[d] # None
    <3>1. SP!RejectOrder(sorders[d], d, SP!Switch(onoff), onoff) /\ sbatch' = sbatch
      BY <1>5, <2>1 DEF SP!Reject
    <3> QED
      BY <1>1, <2>1, <3>1, RejectShows
  <2>2. CASE sorders[d] = None
    <3>1. UNCHANGED <<sorders, sbatch, toClient>>
      BY <1>5, <2>2 DEF SP!Reject
    <3> QED
      BY <1>1, <3>1 DEF Serves, Routed, ServiceEffect
  <2> QED
    BY <2>1, <2>2
<1>6. ASSUME NEW d \in Device, NEW onoff \in BOOLEAN, SP!Done(d, onoff) PROVE ServiceEffect
  <2> DEFINE msg == SP!OrderDone(sorders[d].client, d, onoff)
  <2>1. /\ sorders[d] # None /\ sbatch' = sbatch
        /\ sorders' = [sorders EXCEPT ![d] = None]
        /\ IF SP!IsLocal(sorders[d]) THEN UNCHANGED toClient
           ELSE SP!Send(sorders[d].paraid, msg)
    BY <1>6 DEF SP!Done, SP!RemoveOrder
  <2>2. sorders[d].client \in Client
    BY <2>1, ServiceOrders
  <2>3. msg \in Message /\ IsClosing(msg, d) /\ msg.client = sorders[d].client
    BY <2>2 DEF SP!OrderDone, Message, Answers, IsClosing
  <2> HIDE DEF msg
  <2> QED
    BY <1>1, <2>1, <2>3, ClosingShows
<1>7. ASSUME NEW d \in Device, NEW penalty \in Penalties, NEW wcd \in Wcds, NEW onoff \in BOOLEAN,
             SP!Register(d, penalty, wcd, onoff) \/ SP!SetState(d, onoff)
      PROVE  ServiceEffect
  <2>1. UNCHANGED <<sorders, sbatch, toClient>>
    BY <1>7 DEF SP!Register, SP!SetState
  <2> QED
    BY <1>1, <2>1 DEF Serves, Routed, ServiceEffect
<1>8. ASSUME NEW d \in Device, NEW onoff \in BOOLEAN, SP!SetState(d, onoff)
      PROVE  ServiceEffect
  <2>1. UNCHANGED <<sorders, sbatch, toClient>>
    BY <1>8 DEF SP!SetState
  <2> QED
    BY <1>1, <2>1 DEF Serves, Routed, ServiceEffect
<1> QED
  BY <1>2, <1>3, <1>4, <1>5, <1>6, <1>7, <1>8, ServiceActions DEF ServiceDispatch

LEMMA ReceiveShows ==
    ASSUME Routed, ServiceHandles
    PROVE  ServiceEffect
<1>1. toService' = toService
  BY DEF ServiceHandles, cvars
<1>2. sbatch \in Seq(FromClientChain)
  BY DEF Routed, SP!Registered, SP!TypeOK
<1>3. ASSUME NEW state \in OnReceived, SP!ReceiveOrder(state) PROVE ServiceEffect
  <2> DEFINE m == Head(sbatch).msg
             d == m.order.device
             order == [client |-> m.client, fee |-> m.order.fee,
                       until |-> m.order.until, paraid |-> Head(sbatch).sender]
  <2>1. /\ sbatch # <<>> /\ m.type = "NewOrder" /\ sbatch' = Tail(sbatch)
        /\ SP!Admissible(order, d) /\ SP!TakeOrder(order, d, state)
    BY <1>3 DEF SP!ReceiveOrder
  <2>2. Head(sbatch) \in FromClientChain
    BY <1>2, <2>1
  <2>3. Head(sbatch).sender = ClientPara /\ m \in Message
    BY <2>2 DEF FromClientChain
  <2>4. m \in NewOrders
    BY <2>1, <2>3 DEF Message, Answers, Garbage
  <2>5. d \in Device /\ m.client \in Client
    BY <2>4 DEF NewOrders, OrderBase
  <2>6. /\ sorders[d] = None /\ sorders' = [sorders EXCEPT ![d] = order]
        /\ SP!AcceptOrder(order, d) \/ UNCHANGED toClient
    BY <2>1 DEF SP!Admissible, SP!TakeOrder
  <2>7. \/ toClient' = toClient
        \/ \E msg \in Message : /\ \A e \in Device : ~IsClosing(msg, e)
                                /\ Queued(toClient, toClient', ClientPara, msg)
    <3>1. order.client \in Client /\ order.paraid \in {ServicePara, ClientPara}
      BY <2>3, <2>5
    <3> HIDE DEF order, d, m
    <3> QED
      BY <2>5, <2>6, <3>1, AcceptShows
  <2>8. sorders' = [sorders EXCEPT ![d] = [client |-> m.client, fee |-> m.order.fee,
                                          until |-> m.order.until, paraid |-> ClientPara]]
    BY <2>3, <2>6
  <2>9. Begins(d)
    BY <1>1, <2>1, <2>6, <2>7, <2>8 DEF Begins
  <2> QED
    BY <2>5, <2>9 DEF ServiceEffect
<1>4. ASSUME SP!DropOrder \/ SP!AbortBatch PROVE ServiceEffect
  BY <1>1, <1>4 DEF SP!DropOrder, SP!AbortBatch, Refuses, ServiceEffect
<1> QED
  BY <1>3, <1>4, ServiceActions DEF ServiceHandles, S!Handle

LEMMA ServiceShows == ASSUME Routed, ServiceChain PROVE ServiceEffect
<1>1. ASSUME ServiceTick PROVE ServiceEffect
  <2>1. SP!Tick /\ toService' = toService
    BY <1>1, ServiceActions DEF ServiceTick, cvars
  <2>2. Serves
    BY <2>1 DEF SP!Tick, Serves, Routed
  <2> QED
    BY <2>2 DEF ServiceEffect
<1>2. ASSUME NEW n \in 1 .. MaxBatch, DeliverOrders(n) PROVE ServiceEffect
  <2>1. SP!BeginBatch([i \in 1 .. n |-> [sender |-> ClientPara, msg |-> toService[i].msg]])
    BY <1>2, ServiceActions DEF DeliverOrders
  <2>2. toService \in Seq(Outbound) /\ MaxBatch \in Nat
    BY SameMessages, BankAssumption DEF Routed, CP!Registered, CP!TypeOK
  <2>3. n \in 1 .. Len(toService)
    BY <1>2, <2>2 DEF DeliverOrders
  <2>4. OrdersArrive(n)
    BY <1>2, <2>1, <2>3 DEF OrdersArrive, DeliverOrders, SP!BeginBatch
  <2> QED
    BY <2>3, <2>4 DEF ServiceEffect
<1> QED
  BY <1>1, <1>2, DispatchShows, ReceiveShows DEF ServiceChain

-------------------------------------------------------------------------------
(* Type correctness of the pair                                            *)

LEMMA ClientSteps == ASSUME Routed, ClientChain PROVE CP!Next
<1>1. ASSUME NEW who \in Client, NEW base \in OrderBase, ClientOrders(who, base) PROVE CP!Next
  <2>1. CP!PlaceOrder(who, base) /\ base \in CP!OrderBase
    BY <1>1, ClientActions, SameMessages DEF ClientOrders
  <2> QED
    BY <2>1 DEF CP!Next, CP!Dispatch
<1>2. ASSUME NEW who \in Client, NEW d \in Device, ClientCancels(who, d) PROVE CP!Next
  BY <1>2, ClientActions DEF ClientCancels, CP!Next, CP!Dispatch
<1>3. ASSUME NEW d \in Device, NEW penalty \in Penalties, NEW wcd \in Wcds, NEW onoff \in BOOLEAN,
             DeviceRegisters(d, penalty, wcd, onoff)
      PROVE  CP!Next
  <2>1. CP!Register(d, ServicePara, penalty, wcd, onoff) /\ ServicePara \in ParaId
    BY <1>3, ClientActions, BankAssumption DEF DeviceRegisters
  <2> QED
    BY <2>1 DEF CP!Next, CP!Dispatch
<1>4. ASSUME ClientTest \/ ClientHandles \/ ClientTick PROVE CP!Next
  BY <1>4, ClientActions
     DEF ClientTest, ClientHandles, ClientTick, C!Handle, CP!Handle, CP!Next, CP!Dispatch,
         CP!Environment
<1>5. ASSUME NEW n \in 1 .. MaxBatch, DeliverAnswers(n) PROVE CP!Next
  <2> DEFINE blobs == [i \in 1 .. n |-> toClient[i].msg]
  <2>1. CP!BeginBatch(blobs)
    BY <1>5, ClientActions DEF DeliverAnswers
  <2>2. toClient \in Seq(Outbound) /\ MaxBatch \in Nat /\ n <= Len(toClient)
    BY <1>5, SameMessages, BankAssumption DEF Routed, SP!Registered, SP!TypeOK, DeliverAnswers
  <2>3. \A i \in 1 .. n : toClient[i] \in Outbound
    BY <2>2
  <2>4. blobs \in [1 .. n -> Message]
    BY <2>3 DEF Outbound
  <2> QED
    BY <2>1, <2>4 DEF CP!Next, CP!Environment
<1> QED
  BY <1>1, <1>2, <1>3, <1>4, <1>5 DEF ClientChain

LEMMA ServiceSteps == ASSUME Routed, ServiceChain PROVE SP!Next
<1>1. ASSUME ServiceDispatch PROVE SP!Dispatch
  BY <1>1, ServiceActions, SameMessages DEF ServiceDispatch, SP!Dispatch
<1>2. ASSUME ServiceHandles \/ ServiceTick PROVE SP!Next
  BY <1>2, ServiceActions
     DEF ServiceHandles, ServiceTick, S!Handle, SP!Handle, SP!Next, SP!Environment
<1>3. ASSUME NEW n \in 1 .. MaxBatch, DeliverOrders(n) PROVE SP!Next
  <2> DEFINE blobs == [i \in 1 .. n |-> [sender |-> ClientPara, msg |-> toService[i].msg]]
  <2>1. SP!BeginBatch(blobs)
    BY <1>3, ServiceActions DEF DeliverOrders
  <2>2. toService \in Seq(Outbound) /\ MaxBatch \in Nat /\ n <= Len(toService)
    BY <1>3, SameMessages, BankAssumption DEF Routed, CP!Registered, CP!TypeOK, DeliverOrders
  <2>3. \A i \in 1 .. n : toService[i] \in Outbound
    BY <2>2
  <2>4. blobs \in [1 .. n -> FromClientChain]
    BY <2>3 DEF Outbound, FromClientChain
  <2> QED
    BY <2>1, <2>4 DEF SP!Next, SP!Environment
<1> QED
  BY <1>1, <1>2, <1>3 DEF ServiceChain, SP!Next

(* What the other chain's queue looks like when a delivery has been taken  *)
(* out of it                                                               *)
LEMMA TakenType ==
    ASSUME NEW T, NEW s \in Seq(T), NEW n \in 1 .. Len(s)
    PROVE  /\ SubSeq(s, n + 1, Len(s)) \in Seq(T)
           /\ Len(SubSeq(s, n + 1, Len(s))) = Len(s) - n
           /\ \A i \in 1 .. (Len(s) - n) : SubSeq(s, n + 1, Len(s))[i] = s[n + i]
OBVIOUS

(* The destinations of a queue that is sent to, taken from or left         *)
LEMMA KeepsDest ==
    ASSUME NEW s \in Seq(Outbound), NEW t, NEW p, \A i \in DOMAIN s : s[i].dest = p,
           \/ t = s
           \/ \E msg \in Message : t = Append(s, [dest |-> p, msg |-> msg])
           \/ \E n \in 1 .. Len(s) : t = SubSeq(s, n + 1, Len(s))
    PROVE  \A i \in DOMAIN t : t[i].dest = p
<1>1. CASE t = s
  BY <1>1
<1>2. ASSUME NEW msg \in Message, t = Append(s, [dest |-> p, msg |-> msg])
      PROVE  \A i \in DOMAIN t : t[i].dest = p
  <2>1. /\ DOMAIN t = 1 .. Len(s) + 1 /\ DOMAIN s = 1 .. Len(s)
        /\ \A i \in 1 .. Len(s) : t[i] = s[i]
        /\ t[Len(s) + 1] = [dest |-> p, msg |-> msg]
    BY <1>2
  <2> QED
    BY <2>1
<1>3. ASSUME NEW n \in 1 .. Len(s), t = SubSeq(s, n + 1, Len(s))
      PROVE  \A i \in DOMAIN t : t[i].dest = p
  <2>1. /\ t \in Seq(Outbound) /\ Len(t) = Len(s) - n
        /\ \A i \in 1 .. (Len(s) - n) : t[i] = s[n + i]
    BY <1>3, TakenType
  <2>2. /\ DOMAIN t = 1 .. (Len(s) - n) /\ DOMAIN s = 1 .. Len(s)
        /\ Len(s) \in Nat
    BY <2>1
  <2>3. \A k \in Nat : \A m \in 1 .. k : \A i \in 1 .. (k - m) : m + i \in 1 .. k
    OBVIOUS
  <2>4. \A i \in 1 .. (Len(s) - n) : n + i \in DOMAIN s
    BY <2>2, <2>3
  <2> QED
    BY <2>1, <2>2, <2>4
<1> QED
  BY <1>1, <1>2, <1>3

LEMMA RoutedInit == Init => Routed
<1> SUFFICES ASSUME Init PROVE Routed
  OBVIOUS
<1>1. CP!Init /\ SP!Init
  BY DEF Init, C!Init, S!Init, CP!Init, SP!Init
<1>2. CP!IInv
  BY <1>1, ClientAssumptions, DepositAssumption, AccountsAssumption, ParaIdAssumption,
     AmountsAssumption, MomentAssumption, OutboxAssumption, CP!InvInit
<1>3. SP!IInv
  BY <1>1, ServiceAssumptions, DepositAssumption, AccountsAssumption, ParaIdAssumption,
     AmountsAssumption, MomentAssumption, OutboxAssumption, SP!InvInit
<1> QED
  BY <1>1, <1>2, <1>3 DEF Routed, CP!IInv, SP!IInv, CP!Init, SP!Init

LEMMA ClientKeepsRoutes == ASSUME Routed, ClientChain PROVE Routed'
<1>1. CP!Registered'
  BY ClientSteps, ClientAssumptions, DepositAssumption, AccountsAssumption, ParaIdAssumption,
     AmountsAssumption, MomentAssumption, OutboxAssumption, CP!RegisteredStep
     DEF Routed
<1>2. UNCHANGED <<snow, sbal, sdevice, sorders, sbatch>>
  BY DEF ClientChain, ClientOrders, ClientCancels, DeviceRegisters, ClientTest, ClientHandles,
         ClientTick, DeliverAnswers, svars
<1>3. ClientEffect
  BY ClientShows
<1>4. toService \in Seq(Outbound) /\ toClient \in Seq(Outbound)
  BY SameMessages DEF Routed, CP!Registered, CP!TypeOK, SP!Registered, SP!TypeOK
<1>5. /\ \/ toClient' = toClient
         \/ \E n \in 1 .. Len(toClient) : toClient' = SubSeq(toClient, n + 1, Len(toClient))
      /\ \/ toService' = toService
         \/ \E msg \in Message : toService' = Append(toService, [dest |-> ServicePara, msg |-> msg])
  <2>1. ASSUME NEW d \in Device, NEW order \in Order PROVE NewOrder(order.client, ToBase(order, d)) \in Message
    BY DEF Order, NewOrder, ToBase, Message, NewOrders, OrderBase
  <2>2. Garbage \in Message
    BY DEF Message
  <2> QED
    BY <1>3, <2>1, <2>2 DEF ClientEffect, Withdraws, Binds, Closes, Places, Idles, Ignores,
                            AnswersArrive, Queued
<1>6. toClient' \in Seq(Outbound)
  BY <1>4, <1>5, TakenType
<1>7. SP!Registered'
  <2>1. toClient' \in Seq(SP!Outbound)
    BY <1>6, SameMessages
  <2>2. SP!TypeOK' /\ SP!OrderHasDevice'
    BY <1>2, <2>1 DEF Routed, SP!Registered, SP!TypeOK, SP!OrderHasDevice
  <2> QED
    BY <2>2 DEF SP!Registered
<1>8. /\ \A i \in DOMAIN toClient' : toClient'[i].dest = ClientPara
      /\ \A i \in DOMAIN toService' : toService'[i].dest = ServicePara
  BY <1>4, <1>5, KeepsDest DEF Routed
<1>9. \A d \in Device : cdevice'[d] # None => cdevice'[d].para_id = ServicePara
  <2>1. \/ cdevice' = cdevice
        \/ \E d \in Device, p \in CP!DeviceProfile :
                p.para_id = ServicePara /\ cdevice' = [cdevice EXCEPT ![d] = p]
        \/ \E d \in Device : \E state : cdevice[d] # None /\
                cdevice' = [cdevice EXCEPT ![d] = [cdevice[d] EXCEPT !.state = state]]
    BY <1>3 DEF ClientEffect, Withdraws, Binds, Closes, Places, Idles, Ignores, AnswersArrive,
                Routed, CP!Registered, CP!OrderHasDevice
  <2>2. ASSUME NEW d \in Device, cdevice[d] # None, NEW state
        PROVE  [cdevice[d] EXCEPT !.state = state].para_id = ServicePara
    BY <2>2, ClientRecords DEF Routed, CP!DeviceProfile
  <2>3. cdevice \in [Device -> CP!DeviceProfile \cup {None}]
    BY DEF Routed, CP!Registered, CP!TypeOK
  <2>4. ASSUME NEW d \in Device, NEW p, cdevice' = [cdevice EXCEPT ![d] = p],
               p.para_id = ServicePara
        PROVE  \A e \in Device : cdevice'[e] # None => cdevice'[e].para_id = ServicePara
    BY <2>3, <2>4 DEF Routed
  <2>5. ASSUME NEW d \in Device, NEW state, cdevice[d] # None,
               cdevice' = [cdevice EXCEPT ![d] = [cdevice[d] EXCEPT !.state = state]]
        PROVE  \A e \in Device : cdevice'[e] # None => cdevice'[e].para_id = ServicePara
    BY <2>2, <2>4, <2>5
  <2> QED
    BY <2>1, <2>4, <2>5 DEF Routed
<1> QED
  BY <1>1, <1>2, <1>7, <1>8, <1>9 DEF Routed

LEMMA ServiceKeepsRoutes == ASSUME Routed, ServiceChain PROVE Routed'
<1>1. SP!Registered'
  BY ServiceSteps, ServiceAssumptions, DepositAssumption, AccountsAssumption, ParaIdAssumption,
     AmountsAssumption, MomentAssumption, OutboxAssumption, SP!RegisteredStep
     DEF Routed
<1>2. UNCHANGED <<cnow, cbal, cdevice, corders, cbatch>>
  BY DEF ServiceChain, ServiceDispatch, ServiceHandles, ServiceTick, DeliverOrders, cvars
<1>3. ServiceEffect
  BY ServiceShows
<1>4. toService \in Seq(Outbound) /\ toClient \in Seq(Outbound)
  BY SameMessages DEF Routed, CP!Registered, CP!TypeOK, SP!Registered, SP!TypeOK
<1>5. /\ \/ toService' = toService
         \/ \E n \in 1 .. Len(toService) : toService' = SubSeq(toService, n + 1, Len(toService))
      /\ \/ toClient' = toClient
         \/ \E msg \in Message : toClient' = Append(toClient, [dest |-> ClientPara, msg |-> msg])
  BY <1>3 DEF ServiceEffect, Serves, Refuses, Begins, Ends, OrdersArrive, Queued
<1>6. toService' \in Seq(Outbound)
  BY <1>4, <1>5, TakenType
<1>7. CP!Registered'
  <2>1. toService' \in Seq(CP!Outbound)
    BY <1>6, SameMessages
  <2>2. CP!TypeOK' /\ CP!OrderHasDevice'
    BY <1>2, <2>1 DEF Routed, CP!Registered, CP!TypeOK, CP!OrderHasDevice
  <2> QED
    BY <2>2 DEF CP!Registered
<1>8. /\ \A i \in DOMAIN toClient' : toClient'[i].dest = ClientPara
      /\ \A i \in DOMAIN toService' : toService'[i].dest = ServicePara
  BY <1>4, <1>5, KeepsDest DEF Routed
<1>9. \A d \in Device : sorders'[d] # None => sorders'[d].paraid \in {ServicePara, ClientPara}
  <2>1. \A d \in Device : sorders'[d] \in Order \cup {None}
    BY <1>1, SameMessages DEF SP!Registered, SP!TypeOK
  <2>2. \/ Serves
        \/ sorders' = sorders
        \/ \E d \in Device : sorders' = [sorders EXCEPT ![d] = None]
        \/ \E d \in Device : \E client, fee, until : sorders' = [sorders EXCEPT ![d] =
                [client |-> client, fee |-> fee, until |-> until, paraid |-> ClientPara]]
    BY <1>3 DEF ServiceEffect, Refuses, Begins, Ends, OrdersArrive
  <2>3. sorders \in [Device -> Order \cup {None}]
    BY SameMessages DEF Routed, SP!Registered, SP!TypeOK
  <2> QED
    BY <2>2, <2>3 DEF Serves, Routed
<1> QED
  BY <1>1, <1>2, <1>7, <1>8, <1>9 DEF Routed

LEMMA RoutedStep == Routed /\ [Next]_vars => Routed'
<1>1. ASSUME Routed, UNCHANGED vars PROVE Routed'
  BY <1>1 DEF vars, cvars, svars, Routed, CP!Registered, CP!TypeOK, CP!OrderHasDevice,
              SP!Registered, SP!TypeOK, SP!OrderHasDevice
<1> QED
  BY <1>1, ClientKeepsRoutes, ServiceKeepsRoutes DEF Next

(* Both chains keep their types whatever the other sends, and a message    *)
(* only travels to the other chain of the pair.                            *)
THEOREM TypeCorrect == Spec => []TypeOK
<1>1. Routed => TypeOK
  <2> SUFFICES ASSUME Routed PROVE TypeOK
    OBVIOUS
  <2>1. C!TypeOK
    <3>1. C!TypeOK <=> CP!TypeOK
      BY DEF C!TypeOK, CP!TypeOK, C!DeviceProfile, CP!DeviceProfile, C!DeviceState,
             CP!DeviceState, C!Moment, CP!Moment, C!Ledger, CP!Ledger, C!Balance,
             CP!Balance, C!Reaped, CP!Reaped, C!IsAlive, CP!IsAlive, C!Total, CP!Total,
             C!Order, CP!Order, C!Outbound, CP!Outbound, C!Message, CP!Message,
             C!NewOrders, CP!NewOrders, C!Answers, CP!Answers, C!Garbage, CP!Garbage,
             C!OrderBase, CP!OrderBase
    <3> QED
      BY <3>1 DEF Routed, CP!Registered
  <2>2. S!TypeOK
    <3>1. S!TypeOK <=> SP!TypeOK
      BY DEF S!TypeOK, SP!TypeOK, S!DeviceProfile, SP!DeviceProfile, S!DeviceState,
             SP!DeviceState, S!Moment, SP!Moment, S!Ledger, SP!Ledger, S!Balance,
             SP!Balance, S!Reaped, SP!Reaped, S!IsAlive, SP!IsAlive, S!Total, SP!Total,
             S!Order, SP!Order, S!Outbound, SP!Outbound, S!Message, SP!Message,
             S!NewOrders, SP!NewOrders, S!Answers, SP!Answers, S!Garbage, SP!Garbage,
             S!OrderBase, SP!OrderBase
    <3> QED
      BY <3>1 DEF Routed, SP!Registered
  <2> QED
    BY <2>1, <2>2 DEF Routed, TypeOK, Elements
<1> QED
  BY <1>1, RoutedInit, RoutedStep, PTL DEF Spec

-------------------------------------------------------------------------------
(* What is in the channels                                                 *)

(* A batch that is being read and the queue that feeds it are one pipe.    *)
Msgs(s) == [i \in 1 .. Len(s) |-> s[i].msg]
Pipe(s, t) == s \o Msgs(t)
Requests == Pipe(Msgs(sbatch), toService)
Replies == Pipe(cbatch, toClient)

Once(s, M) == \A i, j \in 1 .. Len(s) : s[i] \in M /\ s[j] \in M => i = j
Among(s, M) == {m \in M : \E i \in 1 .. Len(s) : s[i] = m}

LEMMA MsgsType ==
    ASSUME NEW T, NEW s \in Seq(T), \A x \in T : x.msg \in Message
    PROVE  /\ Msgs(s) \in Seq(Message)
           /\ Len(Msgs(s)) = Len(s)
           /\ \A i \in 1 .. Len(s) : Msgs(s)[i] = s[i].msg
<1>1. \A i \in 1 .. Len(s) : s[i] \in T
  OBVIOUS
<1> QED
  BY <1>1 DEF Msgs

LEMMA PipeType ==
    ASSUME NEW s \in Seq(Message), NEW t \in Seq(Outbound)
    PROVE  /\ Pipe(s, t) \in Seq(Message)
           /\ Len(Pipe(s, t)) = Len(s) + Len(t)
           /\ \A i \in 1 .. Len(s) : Pipe(s, t)[i] = s[i]
           /\ \A i \in 1 .. Len(t) : Pipe(s, t)[Len(s) + i] = t[i].msg
<1>1. \A x \in Outbound : x.msg \in Message
  BY DEF Outbound
<1>2. /\ Msgs(t) \in Seq(Message) /\ Len(Msgs(t)) = Len(t)
      /\ \A i \in 1 .. Len(t) : Msgs(t)[i] = t[i].msg
  BY <1>1, MsgsType
<1>3. ASSUME NEW u \in Seq(Message)
      PROVE  /\ s \o u \in Seq(Message)
             /\ Len(s \o u) = Len(s) + Len(u)
             /\ \A i \in 1 .. Len(s) : (s \o u)[i] = s[i]
             /\ \A i \in 1 .. Len(u) : (s \o u)[Len(s) + i] = u[i]
  OBVIOUS
<1> HIDE DEF Msgs
<1> QED
  BY <1>2, <1>3 DEF Pipe

(* A message in a pipe is in the batch or in the queue.                    *)
LEMMA PipeParts ==
    ASSUME NEW s \in Seq(Message), NEW t \in Seq(Outbound), NEW i \in 1 .. Len(Pipe(s, t))
    PROVE  \/ i \in 1 .. Len(s) /\ Pipe(s, t)[i] = s[i]
           \/ \E k \in 1 .. Len(t) : i = Len(s) + k /\ Pipe(s, t)[i] = t[k].msg
<1> DEFINE p == Pipe(s, t)
<1>1. /\ Len(p) = Len(s) + Len(t)
      /\ \A k \in 1 .. Len(s) : p[k] = s[k]
      /\ \A k \in 1 .. Len(t) : p[Len(s) + k] = t[k].msg
  BY PipeType
<1>2. Len(s) \in Nat /\ Len(t) \in Nat /\ i \in 1 .. Len(p)
  OBVIOUS
<1> HIDE DEF p
<1>3. CASE i \in 1 .. Len(s)
  BY <1>1, <1>3 DEF p
<1>4. CASE i \notin 1 .. Len(s)
  <2>1. i - Len(s) \in 1 .. Len(t) /\ i = Len(s) + (i - Len(s))
    BY <1>1, <1>2, <1>4
  <2>2. PICK k \in 1 .. Len(t) : i = Len(s) + k
    BY <2>1
  <2> QED
    BY <1>1, <2>2 DEF p
<1> QED
  BY <1>3, <1>4

(* Two pipes with the same messages are the same pipe.                     *)
LEMMA SamePipe ==
    ASSUME NEW s \in Seq(Message), NEW t \in Seq(Message), Len(s) = Len(t),
           \A i \in 1 .. Len(s) : s[i] = t[i]
    PROVE  s = t
OBVIOUS

(* A message is sent,                                                      *)
LEMMA PipeSent ==
    ASSUME NEW s \in Seq(Message), NEW t \in Seq(Outbound), NEW p \in ParaId, NEW m \in Message
    PROVE  Pipe(s, Append(t, [dest |-> p, msg |-> m])) = Append(Pipe(s, t), m)
<1> DEFINE u == Append(t, [dest |-> p, msg |-> m])
           old == Pipe(s, t)
           new == Pipe(s, u)
<1>1. [dest |-> p, msg |-> m] \in Outbound
  BY DEF Outbound
<1>2. /\ u \in Seq(Outbound) /\ Len(u) = Len(t) + 1
      /\ \A i \in 1 .. Len(t) : u[i] = t[i]
      /\ u[Len(t) + 1].msg = m
  BY <1>1
<1> HIDE DEF u
<1>3. /\ old \in Seq(Message) /\ Len(old) = Len(s) + Len(t)
      /\ \A i \in 1 .. Len(s) : old[i] = s[i]
      /\ \A i \in 1 .. Len(t) : old[Len(s) + i] = t[i].msg
  BY PipeType
<1>4. /\ new \in Seq(Message) /\ Len(new) = Len(s) + Len(u)
      /\ \A i \in 1 .. Len(s) : new[i] = s[i]
      /\ \A i \in 1 .. Len(u) : new[Len(s) + i] = u[i].msg
  BY <1>2, PipeType
<1> HIDE DEF old, new
<1>5. Len(s) \in Nat /\ Len(t) \in Nat
  OBVIOUS
<1>6. \A j, k \in Nat : \A i \in 1 .. (j + k + 1) :
        i \in 1 .. j \/ (i - j \in 1 .. k /\ i = j + (i - j)) \/ i = j + (k + 1)
  OBVIOUS
<1>7. /\ Append(old, m) \in Seq(Message) /\ Len(Append(old, m)) = Len(s) + Len(t) + 1
      /\ \A i \in 1 .. Len(old) : Append(old, m)[i] = old[i]
      /\ Append(old, m)[Len(s) + Len(t) + 1] = m
  <2>1. ASSUME NEW q \in Seq(Message)
        PROVE  /\ Append(q, m) \in Seq(Message) /\ Len(Append(q, m)) = Len(q) + 1
               /\ \A i \in 1 .. Len(q) : Append(q, m)[i] = q[i]
               /\ Append(q, m)[Len(q) + 1] = m
    OBVIOUS
  <2> QED
    BY <1>3, <2>1
<1>8. ASSUME NEW i \in 1 .. (Len(s) + Len(t) + 1) PROVE new[i] = Append(old, m)[i]
  <2>1. CASE i \in 1 .. Len(s)
    BY <1>3, <1>4, <1>5, <1>7, <2>1
  <2>2. CASE i - Len(s) \in 1 .. Len(t) /\ i = Len(s) + (i - Len(s))
    <3>1. i - Len(s) \in 1 .. Len(u) /\ i \in 1 .. Len(old)
      BY <1>2, <1>3, <1>5, <2>2
    <3>2. new[i] = u[i - Len(s)].msg /\ old[i] = t[i - Len(s)].msg
      BY <1>3, <1>4, <2>2, <3>1
    <3> QED
      BY <1>2, <1>7, <2>2, <3>1, <3>2
  <2>3. CASE i = Len(s) + (Len(t) + 1)
    <3>1. Len(t) + 1 \in 1 .. Len(u)
      BY <1>2, <1>5
    <3>2. new[i] = u[Len(t) + 1].msg
      BY <1>4, <2>3, <3>1
    <3> QED
      BY <1>2, <1>5, <1>7, <2>3, <3>2
  <2> QED
    BY <1>5, <1>6, <2>1, <2>2, <2>3
<1>9. Len(new) = Len(s) + Len(t) + 1
  BY <1>2, <1>4, <1>5
<1>10. new = Append(old, m)
  BY <1>4, <1>7, <1>8, <1>9, SamePipe
<1> QED
  BY <1>10 DEF new, old, u

(* is delivered,                                                           *)
LEMMA PipeDelivered ==
    ASSUME NEW t \in Seq(Outbound), NEW n \in 1 .. Len(t), NEW b \in Seq(Message), Len(b) = n,
           \A i \in 1 .. n : b[i] = t[i].msg
    PROVE  Pipe(b, SubSeq(t, n + 1, Len(t))) = Pipe(<<>>, t)
<1> DEFINE u == SubSeq(t, n + 1, Len(t))
           old == Pipe(<<>>, t)
           new == Pipe(b, u)
<1>1. /\ u \in Seq(Outbound) /\ Len(u) = Len(t) - n
      /\ \A i \in 1 .. (Len(t) - n) : u[i] = t[n + i]
  BY TakenType
<1> HIDE DEF u
<1>2. <<>> \in Seq(Message) /\ Len(<<>>) = 0 /\ Len(t) \in Nat
  OBVIOUS
<1>3. /\ old \in Seq(Message) /\ Len(old) = 0 + Len(t)
      /\ \A i \in 1 .. Len(t) : old[0 + i] = t[i].msg
  BY <1>2, PipeType
<1>4. /\ new \in Seq(Message) /\ Len(new) = n + Len(u)
      /\ \A i \in 1 .. n : new[i] = b[i]
      /\ \A i \in 1 .. Len(u) : new[n + i] = u[i].msg
  BY <1>1, PipeType
<1> HIDE DEF old, new
<1>5. \A k \in Nat : \A j \in 1 .. k : \A i \in 1 .. k :
        i \in 1 .. j \/ (i - j \in 1 .. (k - j) /\ i = j + (i - j))
  OBVIOUS
<1>6. ASSUME NEW i \in 1 .. Len(t) PROVE new[i] = old[i]
  <2>1. old[i] = t[i].msg
    BY <1>2, <1>3
  <2>2. CASE i \in 1 .. n
    BY <1>4, <2>1, <2>2
  <2>3. CASE i - n \in 1 .. (Len(t) - n) /\ i = n + (i - n)
    <3>1. PICK j \in 1 .. (Len(t) - n) : i = n + j
      BY <2>3
    <3>2. j \in 1 .. Len(u) /\ u[j] = t[n + j]
      BY <1>1, <3>1
    <3>3. new[n + j] = u[j].msg
      BY <1>4, <3>2
    <3> QED
      BY <2>1, <3>1, <3>2, <3>3
  <2> QED
    BY <1>2, <1>5, <2>2, <2>3
<1>7. Len(new) = Len(t) /\ Len(old) = Len(t)
  BY <1>1, <1>2, <1>3, <1>4
<1>8. new = old
  BY <1>3, <1>4, <1>6, <1>7, SamePipe
<1> QED
  BY <1>8 DEF new, old, u

(* and is read, alone or with the rest of its batch.                       *)
LEMMA PipeRead ==
    ASSUME NEW s \in Seq(Message), s # <<>>, NEW t \in Seq(Outbound), NEW u, u \in {Tail(s), <<>>}
    PROVE  /\ \E n \in 1 .. Len(Pipe(s, t)) : Pipe(u, t) = SubSeq(Pipe(s, t), n + 1, Len(Pipe(s, t)))
           /\ Pipe(s, t)[1] = Head(s) /\ 1 \in 1 .. Len(Pipe(s, t))
<1> DEFINE old == Pipe(s, t)
           new == Pipe(u, t)
           n == Len(s) - Len(u)
           cut == SubSeq(old, n + 1, Len(old))
<1>1. /\ u \in Seq(Message) /\ Len(s) \in Nat /\ Len(s) >= 1 /\ Head(s) = s[1]
      /\ Len(u) \in 0 .. Len(s) - 1 /\ Len(t) \in Nat
      /\ \A i \in 1 .. Len(u) : u[i] = s[n + i]
  <2>1. Len(s) \in Nat /\ Len(s) >= 1 /\ Head(s) = s[1] /\ Len(t) \in Nat
    OBVIOUS
  <2>2. CASE u = Tail(s)
    <3>1. /\ Tail(s) \in Seq(Message) /\ Len(Tail(s)) = Len(s) - 1
          /\ \A i \in 1 .. (Len(s) - 1) : Tail(s)[i] = s[i + 1]
      OBVIOUS
    <3>2. n = 1
      BY <2>1, <2>2, <3>1
    <3>3. \A i \in Nat : i + 1 = 1 + i
      OBVIOUS
    <3> HIDE DEF n
    <3> QED
      BY <2>1, <2>2, <3>1, <3>2, <3>3
  <2>3. CASE u = <<>>
    BY <2>1, <2>3
  <2> QED
    BY <2>2, <2>3
<1>2. n \in 1 .. Len(s) /\ Len(u) = Len(s) - n
  BY <1>1
<1> HIDE DEF n
<1>3. /\ old \in Seq(Message) /\ Len(old) = Len(s) + Len(t)
      /\ \A i \in 1 .. Len(s) : old[i] = s[i]
      /\ \A i \in 1 .. Len(t) : old[Len(s) + i] = t[i].msg
  BY PipeType
<1>4. /\ new \in Seq(Message) /\ Len(new) = Len(u) + Len(t)
      /\ \A i \in 1 .. Len(u) : new[i] = u[i]
      /\ \A i \in 1 .. Len(t) : new[Len(u) + i] = t[i].msg
  BY <1>1, PipeType
<1> HIDE DEF old, new
<1>5. n \in 1 .. Len(old)
  BY <1>1, <1>2, <1>3
<1>6. /\ cut \in Seq(Message) /\ Len(cut) = Len(old) - n
      /\ \A i \in 1 .. (Len(old) - n) : cut[i] = old[n + i]
  BY <1>3, <1>5, TakenType
<1> HIDE DEF cut
<1>7. Len(new) = Len(cut) /\ Len(new) = Len(u) + Len(t)
  BY <1>1, <1>2, <1>3, <1>4, <1>6
<1>8. ASSUME NEW i \in 1 .. (Len(u) + Len(t)) PROVE new[i] = cut[i]
  <2>1. cut[i] = old[n + i]
    BY <1>1, <1>6, <1>7, <1>4
  <2>2. CASE i \in 1 .. Len(u)
    <3>1. n + i \in 1 .. Len(s)
      BY <1>1, <1>2, <2>2
    <3> QED
      BY <1>1, <1>3, <1>4, <2>1, <2>2, <3>1
  <2>3. CASE i \notin 1 .. Len(u)
    <3> DEFINE j == i - Len(u)
    <3>1. j \in 1 .. Len(t) /\ i = Len(u) + j /\ n + i = Len(s) + j
      BY <1>1, <1>2, <2>3
    <3> HIDE DEF j
    <3> QED
      BY <1>3, <1>4, <2>1, <3>1
  <2> QED
    BY <2>2, <2>3
<1>9. new = cut
  BY <1>4, <1>6, <1>7, <1>8, SamePipe
<1>10. old[1] = Head(s) /\ 1 \in 1 .. Len(old)
  BY <1>1, <1>3
<1> QED
  BY <1>5, <1>9, <1>10 DEF new, old, cut

(* Reading leaves no more of a kind, and none when the one there was is    *)
(* read;                                                                   *)
LEMMA AmongRead ==
    ASSUME NEW s \in Seq(Message), NEW n \in 1 .. Len(s), NEW M, Once(s, M)
    PROVE  LET t == SubSeq(s, n + 1, Len(s))
           IN  /\ Once(t, M) /\ Among(t, M) \subseteq Among(s, M)
               /\ s[1] \in M => Among(t, M) = {}
<1> DEFINE t == SubSeq(s, n + 1, Len(s))
<1>1. /\ t \in Seq(Message) /\ Len(t) = Len(s) - n
      /\ \A i \in 1 .. (Len(s) - n) : t[i] = s[n + i]
  BY TakenType
<1>2. \A k \in Nat : \A m \in 1 .. k : \A i, j \in 1 .. (k - m) :
        m + i \in 1 .. k /\ m + i # 1 /\ 1 \in 1 .. k /\ (m + i = m + j => i = j)
  OBVIOUS
<1>3. Len(s) \in Nat
  OBVIOUS
<1> HIDE DEF t
<1>4. \A i, j \in 1 .. Len(t) : n + i \in 1 .. Len(s) /\ n + i # 1 /\ 1 \in 1 .. Len(s) /\ t[i] = s[n + i] /\ (n + i = n + j => i = j)
  BY <1>1, <1>2, <1>3
<1>5. Once(t, M)
  BY <1>4 DEF Once
<1>6. Among(t, M) \subseteq Among(s, M)
  BY <1>4 DEF Among
<1>7. s[1] \in M => Among(t, M) = {}
  BY <1>4 DEF Once, Among
<1> QED
  BY <1>5, <1>6, <1>7 DEF t

(* sending adds one.                                                       *)
LEMMA AmongSent ==
    ASSUME NEW s \in Seq(Message), NEW m \in Message, NEW M, Once(s, M),
           m \in M => Among(s, M) = {}
    PROVE  /\ Once(Append(s, m), M)
           /\ Among(Append(s, m), M) = Among(s, M) \cup ({m} \cap M)
<1> DEFINE t == Append(s, m)
<1>1. /\ Len(t) = Len(s) + 1 /\ t[Len(s) + 1] = m /\ Len(s) \in Nat
      /\ \A i \in 1 .. Len(s) : t[i] = s[i]
  OBVIOUS
<1> HIDE DEF t
<1>2. \A i \in 1 .. Len(t) : i \in 1 .. Len(s) \/ i = Len(s) + 1
  BY <1>1
<1>3. \A i \in 1 .. Len(s) : i \in 1 .. Len(t)
  BY <1>1
<1>4. Len(s) + 1 \in 1 .. Len(t)
  BY <1>1
<1>5. m \in M => \A i \in 1 .. Len(s) : s[i] \notin M
  BY DEF Among
<1>6. Once(t, M)
  BY <1>1, <1>2, <1>5 DEF Once
<1>7. Among(t, M) = Among(s, M) \cup ({m} \cap M)
  BY <1>1, <1>2, <1>3, <1>4 DEF Among
<1> QED
  BY <1>6, <1>7 DEF t

-------------------------------------------------------------------------------
(* How the steps move the pipes                                            *)

LEMMA PipesTyped ==
    ASSUME Routed
    PROVE  /\ cbatch \in Seq(Message) /\ sbatch \in Seq(FromClientChain)
           /\ Msgs(sbatch) \in Seq(Message) /\ Len(Msgs(sbatch)) = Len(sbatch)
           /\ \A i \in 1 .. Len(sbatch) : Msgs(sbatch)[i] = sbatch[i].msg
           /\ toService \in Seq(Outbound) /\ toClient \in Seq(Outbound)
           /\ Requests \in Seq(Message) /\ Replies \in Seq(Message)
<1>1. /\ cbatch \in Seq(Message) /\ sbatch \in Seq(FromClientChain)
      /\ toService \in Seq(Outbound) /\ toClient \in Seq(Outbound)
  BY SameMessages DEF Routed, CP!Registered, CP!TypeOK, SP!Registered, SP!TypeOK
<1>2. \A x \in FromClientChain : x.msg \in Message
  BY DEF FromClientChain
<1>3. /\ Msgs(sbatch) \in Seq(Message) /\ Len(Msgs(sbatch)) = Len(sbatch)
      /\ \A i \in 1 .. Len(sbatch) : Msgs(sbatch)[i] = sbatch[i].msg
  BY <1>1, <1>2, MsgsType
<1>4. Pipe(Msgs(sbatch), toService) \in Seq(Message) /\ Pipe(cbatch, toClient) \in Seq(Message)
  BY <1>1, <1>3, PipeType
<1> QED
  BY <1>1, <1>3, <1>4 DEF Requests, Replies

LEMMA RequestSent ==
    ASSUME Routed, NEW m \in Message, Queued(toService, toService', ServicePara, m), sbatch' = sbatch
    PROVE  Requests' \in {Requests, Append(Requests, m)}
<1>1. toService' = toService => Requests' = Requests
  BY DEF Requests, Pipe, Msgs
<1>2. toService' = Append(toService, [dest |-> ServicePara, msg |-> m])
      => Requests' = Append(Requests, m)
  <2>1. Pipe(Msgs(sbatch), Append(toService, [dest |-> ServicePara, msg |-> m]))
        = Append(Pipe(Msgs(sbatch), toService), m)
    BY PipesTyped, PipeSent, BankAssumption
  <2> QED
    BY <2>1 DEF Requests, Msgs
<1> QED
  BY <1>1, <1>2 DEF Queued

LEMMA ReplySent ==
    ASSUME Routed, NEW m \in Message, Queued(toClient, toClient', ClientPara, m), cbatch' = cbatch
    PROVE  Replies' \in {Replies, Append(Replies, m)}
<1>1. toClient' = toClient => Replies' = Replies
  BY DEF Replies, Pipe, Msgs
<1>2. toClient' = Append(toClient, [dest |-> ClientPara, msg |-> m])
      => Replies' = Append(Replies, m)
  <2>1. Pipe(cbatch, Append(toClient, [dest |-> ClientPara, msg |-> m]))
        = Append(Pipe(cbatch, toClient), m)
    BY PipesTyped, PipeSent, BankAssumption
  <2> QED
    BY <2>1 DEF Replies
<1> QED
  BY <1>1, <1>2 DEF Queued

LEMMA RequestsDelivered ==
    ASSUME Routed, NEW n \in 1 .. Len(toService), OrdersArrive(n)
    PROVE  Requests' = Requests
<1> DEFINE b == [i \in 1 .. n |-> [sender |-> ClientPara, msg |-> toService[i].msg]]
<1>1. toService \in Seq(Outbound)
  BY PipesTyped
<1>2. /\ Len(toService) \in Nat
      /\ \A i \in 1 .. n : toService[i] \in Outbound
  BY <1>1
<1>3. /\ b \in Seq(FromClientChain) /\ Len(b) = n
      /\ \A i \in 1 .. n : b[i].msg = toService[i].msg
  <2>1. \A i \in 1 .. n : b[i] \in FromClientChain
    BY <1>2 DEF FromClientChain, Outbound
  <2> QED
    BY <1>2, <2>1
<1> HIDE DEF b
<1>4. \A x \in FromClientChain : x.msg \in Message
  BY DEF FromClientChain
<1>5. /\ Msgs(b) \in Seq(Message) /\ Len(Msgs(b)) = n
      /\ \A i \in 1 .. n : Msgs(b)[i] = toService[i].msg
  BY <1>3, <1>4, MsgsType
<1>6. Pipe(Msgs(b), SubSeq(toService, n + 1, Len(toService))) = Pipe(<<>>, toService)
  BY <1>1, <1>5, PipeDelivered
<1>7. sbatch' = b /\ sbatch = <<>> /\ toService' = SubSeq(toService, n + 1, Len(toService))
  BY DEF OrdersArrive, b
<1>8. Msgs(<<>>) = <<>>
  BY DEF Msgs
<1>9. Requests' = Pipe(Msgs(sbatch'), toService')
  BY DEF Requests, Pipe, Msgs
<1> QED
  BY <1>6, <1>7, <1>8, <1>9 DEF Requests

LEMMA RepliesDelivered ==
    ASSUME Routed, NEW n \in 1 .. Len(toClient), AnswersArrive(n)
    PROVE  Replies' = Replies
<1> DEFINE b == [i \in 1 .. n |-> toClient[i].msg]
<1>1. toClient \in Seq(Outbound)
  BY PipesTyped
<1>2. /\ Len(toClient) \in Nat
      /\ \A i \in 1 .. n : toClient[i] \in Outbound
  BY <1>1
<1>3. /\ b \in Seq(Message) /\ Len(b) = n
      /\ \A i \in 1 .. n : b[i] = toClient[i].msg
  <2>1. \A i \in 1 .. n : b[i] \in Message
    BY <1>2 DEF Outbound
  <2> QED
    BY <1>2, <2>1
<1> HIDE DEF b
<1>4. Pipe(b, SubSeq(toClient, n + 1, Len(toClient))) = Pipe(<<>>, toClient)
  BY <1>1, <1>3, PipeDelivered
<1>5. cbatch' = b /\ cbatch = <<>> /\ toClient' = SubSeq(toClient, n + 1, Len(toClient))
  BY DEF AnswersArrive, b
<1>6. Replies' = Pipe(cbatch', toClient')
  BY DEF Replies, Pipe, Msgs
<1> QED
  BY <1>4, <1>5, <1>6 DEF Replies

LEMMA TailOfMsgs ==
    ASSUME NEW b \in Seq(FromClientChain), b # <<>>
    PROVE  /\ Msgs(Tail(b)) = Tail(Msgs(b)) /\ Msgs(<<>>) = <<>>
           /\ Msgs(b) # <<>> /\ Head(Msgs(b)) = Head(b).msg
<1> DEFINE s == Msgs(b)
<1>1. /\ s \in Seq(Message) /\ Len(s) = Len(b)
      /\ \A i \in 1 .. Len(b) : s[i] = b[i].msg
  <2>1. \A x \in FromClientChain : x.msg \in Message
    BY DEF FromClientChain
  <2> QED
    BY <2>1, MsgsType
<1>2. /\ Len(b) \in Nat /\ Len(b) >= 1 /\ Head(b) = b[1]
      /\ Tail(b) \in Seq(FromClientChain) /\ Len(Tail(b)) = Len(b) - 1
      /\ \A i \in 1 .. (Len(b) - 1) : Tail(b)[i] = b[i + 1]
  BY <1>1
<1>3. Msgs(Tail(b)) = Tail(s) /\ Msgs(<<>>) = <<>>
  <2>1. Msgs(<<>>) = <<>>
    BY DEF Msgs
  <2>2. \A x \in FromClientChain : x.msg \in Message
    BY DEF FromClientChain
  <2>3. /\ Msgs(Tail(b)) \in Seq(Message) /\ Len(Msgs(Tail(b))) = Len(b) - 1
        /\ \A i \in 1 .. (Len(b) - 1) : Msgs(Tail(b))[i] = Tail(b)[i].msg
    BY <1>2, <2>2, MsgsType
  <2>4. s # <<>>
    BY <1>1, <1>2
  <2> HIDE DEF s
  <2>5. /\ Tail(s) \in Seq(Message) /\ Len(Tail(s)) = Len(s) - 1
        /\ \A i \in 1 .. (Len(s) - 1) : Tail(s)[i] = s[i + 1]
    BY <1>1, <2>4
  <2>6. \A k \in Nat : \A i \in 1 .. (k - 1) : i + 1 \in 1 .. k
    OBVIOUS
  <2>7. \A i \in 1 .. (Len(b) - 1) : Msgs(Tail(b))[i] = Tail(s)[i]
    BY <1>1, <1>2, <2>3, <2>5, <2>6
  <2>8. Msgs(Tail(b)) = Tail(s)
    BY <1>1, <1>2, <2>3, <2>5, <2>7, SamePipe
  <2> QED
    BY <2>1, <2>8
<1>4. s # <<>> /\ Head(s) = Head(b).msg
  <2>1. s # <<>>
    BY <1>1, <1>2
  <2> HIDE DEF s
  <2>2. Head(s) = s[1]
    BY <1>1, <2>1
  <2> QED
    BY <1>1, <1>2, <2>1, <2>2
<1> QED
  BY <1>3, <1>4

LEMMA RequestsRead ==
    ASSUME Routed, sbatch # <<>>, sbatch' \in {Tail(sbatch), <<>>}, toService' = toService
    PROVE  /\ \E n \in 1 .. Len(Requests) : Requests' = SubSeq(Requests, n + 1, Len(Requests))
           /\ Requests[1] = Head(sbatch).msg /\ 1 \in 1 .. Len(Requests)
<1> DEFINE s == Msgs(sbatch)
<1>1. /\ s \in Seq(Message) /\ Len(s) = Len(sbatch) /\ toService \in Seq(Outbound)
      /\ sbatch \in Seq(FromClientChain)
      /\ \A i \in 1 .. Len(sbatch) : s[i] = sbatch[i].msg
  BY PipesTyped
<1>2. Msgs(Tail(sbatch)) = Tail(s) /\ Msgs(<<>>) = <<>> /\ s # <<>> /\ Head(s) = Head(sbatch).msg
  BY <1>1, TailOfMsgs
<1> HIDE DEF s
<1>5. Msgs(sbatch') \in {Tail(s), <<>>}
  BY <1>2
<1>6. /\ \E n \in 1 .. Len(Pipe(s, toService)) :
            Pipe(Msgs(sbatch'), toService) = SubSeq(Pipe(s, toService), n + 1, Len(Pipe(s, toService)))
      /\ Pipe(s, toService)[1] = Head(s) /\ 1 \in 1 .. Len(Pipe(s, toService))
  BY <1>1, <1>2, <1>5, PipeRead
<1>7. Requests' = Pipe(Msgs(sbatch'), toService)
  BY DEF Requests, Pipe, Msgs
<1> QED
  BY <1>2, <1>6, <1>7 DEF Requests, s

LEMMA RepliesRead ==
    ASSUME Routed, cbatch # <<>>, cbatch' \in {Tail(cbatch), <<>>}, toClient' = toClient
    PROVE  /\ \E n \in 1 .. Len(Replies) : Replies' = SubSeq(Replies, n + 1, Len(Replies))
           /\ Replies[1] = Head(cbatch) /\ 1 \in 1 .. Len(Replies)
<1>1. /\ \E n \in 1 .. Len(Pipe(cbatch, toClient)) :
            Pipe(cbatch', toClient) = SubSeq(Pipe(cbatch, toClient), n + 1, Len(Pipe(cbatch, toClient)))
      /\ Pipe(cbatch, toClient)[1] = Head(cbatch) /\ 1 \in 1 .. Len(Pipe(cbatch, toClient))
  BY PipesTyped, PipeRead
<1>2. Replies' = Pipe(cbatch', toClient)
  BY DEF Replies, Pipe, Msgs
<1> QED
  BY <1>1, <1>2 DEF Replies

-------------------------------------------------------------------------------
(* One thing under way, and about the order on record                      *)

OrdersFor(d) == {m \in Message : m.type = "NewOrder" /\ m.order.device = d}
ClosingFor(d) == {m \in Message : IsClosing(m, d)}

(* The order of d on its way out, and the answer on its way back           *)
Asked(d) == Among(Requests, OrdersFor(d))
Answered(d) == Among(Replies, ClosingFor(d))

Idle(d) == Asked(d) = {} /\ ~ServedRemotely(d) /\ Answered(d) = {}

(* Nothing is under way about a device that the client chain would give    *)
(* out again: it is Busy from the order it took until that order's own     *)
(* answer is read.                                                         *)
Single(d) ==
    /\ Once(Requests, OrdersFor(d))
    /\ Once(Replies, ClosingFor(d))
    /\ ServedRemotely(d) => Asked(d) = {}
    /\ Answered(d) # {} => Asked(d) = {} /\ ~ServedRemotely(d)
    /\ cdevice[d] = None \/ cdevice[d].state # "Busy" => Idle(d)

Faithful(d) ==
    corders[d] # None =>
        /\ ServedRemotely(d) => sorders[d] = [corders[d] EXCEPT !.paraid = ClientPara]
        /\ \A m \in Asked(d) : m = NewOrder(corders[d].client, ToBase(corders[d], d))
        /\ \A m \in Answered(d) : m.client = corders[d].client

Followed == Routed /\ \A d \in Device : Single(d) /\ Faithful(d)

(* Less is under way about the device than before.                         *)
LEMMA Fewer ==
    ASSUME NEW d \in Device, Single(d), Faithful(d),
           Once(Requests, OrdersFor(d))', Once(Replies, ClosingFor(d))',
           Asked(d)' \subseteq Asked(d), Answered(d)' \subseteq Answered(d),
           ServedRemotely(d)' => ServedRemotely(d) /\ sorders'[d] = sorders[d],
           cdevice'[d] = cdevice[d],
           corders'[d] \in {corders[d], None}
    PROVE  Single(d)' /\ Faithful(d)'
<1>1. Single(d)'
  BY DEF Single, Idle
<1>2. Faithful(d)'
  BY DEF Faithful
<1> QED
  BY <1>1, <1>2

LEMMA SameRequests ==
    ASSUME Requests' = Requests, NEW d
    PROVE  Once(Requests, OrdersFor(d))' = Once(Requests, OrdersFor(d)) /\ Asked(d)' = Asked(d)
BY DEF Asked, Among, Once, OrdersFor

LEMMA SameReplies ==
    ASSUME Replies' = Replies, NEW d
    PROVE  Once(Replies, ClosingFor(d))' = Once(Replies, ClosingFor(d)) /\ Answered(d)' = Answered(d)
BY DEF Answered, Among, Once, ClosingFor, IsClosing

LEMMA MoreRequests ==
    ASSUME Routed, NEW d, Once(Requests, OrdersFor(d)), NEW m \in Message,
           Requests' \in {Requests, Append(Requests, m)},
           m \in OrdersFor(d) => Asked(d) = {}
    PROVE  /\ Once(Requests, OrdersFor(d))'
           /\ Asked(d)' \subseteq Asked(d) \cup ({m} \cap OrdersFor(d))
           /\ m \notin OrdersFor(d) => Asked(d)' = Asked(d)
<1>1. CASE Requests' = Requests
  BY <1>1, SameRequests
<1>2. CASE Requests' = Append(Requests, m)
  <2>1. /\ Once(Append(Requests, m), OrdersFor(d))
        /\ Among(Append(Requests, m), OrdersFor(d))
             = Among(Requests, OrdersFor(d)) \cup ({m} \cap OrdersFor(d))
    BY PipesTyped, AmongSent DEF Asked
  <2>2. /\ Once(Requests, OrdersFor(d))' = Once(Requests', OrdersFor(d))
        /\ Asked(d)' = Among(Requests', OrdersFor(d))
    BY DEF Once, Asked, Among, OrdersFor
  <2> QED
    BY <1>2, <2>1, <2>2 DEF Asked
<1> QED
  BY <1>1, <1>2

LEMMA MoreReplies ==
    ASSUME Routed, NEW d, Once(Replies, ClosingFor(d)), NEW m \in Message,
           Replies' \in {Replies, Append(Replies, m)},
           m \in ClosingFor(d) => Answered(d) = {}
    PROVE  /\ Once(Replies, ClosingFor(d))'
           /\ Answered(d)' \subseteq Answered(d) \cup ({m} \cap ClosingFor(d))
           /\ m \notin ClosingFor(d) => Answered(d)' = Answered(d)
<1>1. CASE Replies' = Replies
  BY <1>1, SameReplies
<1>2. CASE Replies' = Append(Replies, m)
  <2>1. /\ Once(Append(Replies, m), ClosingFor(d))
        /\ Among(Append(Replies, m), ClosingFor(d))
             = Among(Replies, ClosingFor(d)) \cup ({m} \cap ClosingFor(d))
    BY PipesTyped, AmongSent DEF Answered
  <2>2. /\ Once(Replies, ClosingFor(d))' = Once(Replies', ClosingFor(d))
        /\ Answered(d)' = Among(Replies', ClosingFor(d))
    BY DEF Once, Answered, Among, ClosingFor, IsClosing
  <2> QED
    BY <1>2, <2>1, <2>2 DEF Answered
<1> QED
  BY <1>1, <1>2

LEMMA FewerRequests ==
    ASSUME Routed, sbatch # <<>>, sbatch' \in {Tail(sbatch), <<>>}, toService' = toService,
           NEW d, Once(Requests, OrdersFor(d))
    PROVE  /\ Once(Requests, OrdersFor(d))' /\ Asked(d)' \subseteq Asked(d)
           /\ Head(sbatch).msg \in OrdersFor(d) => Asked(d)' = {} /\ Head(sbatch).msg \in Asked(d)
<1>1. PICK n \in 1 .. Len(Requests) : Requests' = SubSeq(Requests, n + 1, Len(Requests))
  BY RequestsRead
<1>2. Requests[1] = Head(sbatch).msg /\ 1 \in 1 .. Len(Requests)
  BY RequestsRead
<1>3. LET t == SubSeq(Requests, n + 1, Len(Requests))
      IN  /\ Once(t, OrdersFor(d)) /\ Among(t, OrdersFor(d)) \subseteq Among(Requests, OrdersFor(d))
          /\ Requests[1] \in OrdersFor(d) => Among(t, OrdersFor(d)) = {}
  BY PipesTyped, AmongRead
<1>4. /\ Once(Requests, OrdersFor(d))' = Once(Requests', OrdersFor(d))
      /\ Asked(d)' = Among(Requests', OrdersFor(d))
  BY DEF Once, Asked, Among, OrdersFor
<1>5. Requests[1] \in OrdersFor(d) => Requests[1] \in Asked(d)
  BY <1>2 DEF Asked, Among
<1> QED
  BY <1>1, <1>2, <1>3, <1>4, <1>5 DEF Asked

LEMMA FewerReplies ==
    ASSUME Routed, cbatch # <<>>, cbatch' \in {Tail(cbatch), <<>>}, toClient' = toClient,
           NEW d, Once(Replies, ClosingFor(d))
    PROVE  /\ Once(Replies, ClosingFor(d))' /\ Answered(d)' \subseteq Answered(d)
           /\ Head(cbatch) \in ClosingFor(d) => Answered(d)' = {} /\ Head(cbatch) \in Answered(d)
<1>1. PICK n \in 1 .. Len(Replies) : Replies' = SubSeq(Replies, n + 1, Len(Replies))
  BY RepliesRead
<1>2. Replies[1] = Head(cbatch) /\ 1 \in 1 .. Len(Replies)
  BY RepliesRead
<1>3. LET t == SubSeq(Replies, n + 1, Len(Replies))
      IN  /\ Once(t, ClosingFor(d)) /\ Among(t, ClosingFor(d)) \subseteq Among(Replies, ClosingFor(d))
          /\ Replies[1] \in ClosingFor(d) => Among(t, ClosingFor(d)) = {}
  BY PipesTyped, AmongRead
<1>4. /\ Once(Replies, ClosingFor(d))' = Once(Replies', ClosingFor(d))
      /\ Answered(d)' = Among(Replies', ClosingFor(d))
  BY DEF Once, Answered, Among, ClosingFor, IsClosing
<1>5. Replies[1] \in ClosingFor(d) => Replies[1] \in Answered(d)
  BY <1>2 DEF Answered, Among
<1> QED
  BY <1>1, <1>2, <1>3, <1>4, <1>5 DEF Answered

LEMMA RequestsLeft ==
    ASSUME UNCHANGED <<sbatch, toService>>
    PROVE  Requests' = Requests
BY DEF Requests, Pipe, Msgs

LEMMA RepliesLeft ==
    ASSUME UNCHANGED <<cbatch, toClient>>
    PROVE  Replies' = Replies
BY DEF Replies, Pipe, Msgs

LEMMA ProfileSet ==
    ASSUME NEW p \in CP!DeviceProfile, NEW state \in DeviceState
    PROVE  /\ p # None /\ [p EXCEPT !.state = state] # None
           /\ [p EXCEPT !.state = state].state = state
           /\ [p EXCEPT !.state = state].para_id = p.para_id
           /\ [p EXCEPT !.state = state].penalty = p.penalty
           /\ [p EXCEPT !.state = state] \in CP!DeviceProfile
<1>1. CP!DeviceState = DeviceState
  BY SameMessages
<1>2. \A q \in CP!DeviceProfile : q \in [penalty : Nat, wcd : Nat, para_id : ParaId, state : DeviceState]
  <2>1. Penalties \subseteq Nat /\ Wcds \subseteq Nat
    BY AmountsAssumption, MomentAssumption
  <2> QED
    BY <1>1, <2>1 DEF CP!DeviceProfile
<1>3. \A q \in CP!DeviceProfile : q # None
  BY <1>2, NoneAssumption
<1>4. [p EXCEPT !.state = state] \in CP!DeviceProfile
  BY <1>1 DEF CP!DeviceProfile
<1> QED
  BY <1>3, <1>4 DEF CP!DeviceProfile

(* An open order keeps its device from being given out: it is Busy.        *)
LEMMA OpenIsBusy ==
    ASSUME Routed, NEW d \in Device, corders[d] # None
    PROVE  cdevice[d] # None /\ cdevice[d].state = "Busy"
BY DEF Routed, CP!Registered, CP!OrderHasDevice

LEMMA RequestIsMessage ==
    ASSUME NEW d \in Device, NEW order \in Order
    PROVE  LET m == NewOrder(order.client, ToBase(order, d))
           IN  /\ m \in Message /\ m \in OrdersFor(d)
               /\ \A e \in Device \ {d} : m \notin OrdersFor(e)
BY DEF Order, NewOrder, ToBase, Message, NewOrders, OrderBase, OrdersFor

(* Quiet, in terms of the pipes                                            *)
LEMMA QuietIsIdle ==
    ASSUME Routed, NEW d \in Device, Quiet(d)
    PROVE  Idle(d)
<1>1. ASSUME NEW m \in Asked(d) PROVE FALSE
  <2>1. PICK i \in 1 .. Len(Requests) : Requests[i] \in OrdersFor(d)
    BY DEF Asked, Among
  <2>2. /\ toService \in Seq(Outbound) /\ Msgs(sbatch) \in Seq(Message)
        /\ Len(Msgs(sbatch)) = Len(sbatch) /\ sbatch \in Seq(FromClientChain)
        /\ \A k \in 1 .. Len(sbatch) : Msgs(sbatch)[k] = sbatch[k].msg
    BY PipesTyped
  <2>3. \/ \E k \in 1 .. Len(sbatch) : sbatch[k].msg \in OrdersFor(d)
        \/ \E k \in 1 .. Len(toService) : toService[k].msg \in OrdersFor(d)
    BY <2>1, <2>2, PipeParts DEF Requests
  <2>4. DOMAIN sbatch = 1 .. Len(sbatch) /\ DOMAIN toService = 1 .. Len(toService)
    BY <2>2
  <2> QED
    BY <2>3, <2>4 DEF Quiet, OrdersInTransit, OrdersInBatch, OrdersFor
<1>2. ASSUME NEW m \in Answered(d) PROVE FALSE
  <2>1. PICK i \in 1 .. Len(Replies) : Replies[i] \in ClosingFor(d)
    BY DEF Answered, Among
  <2>2. toClient \in Seq(Outbound) /\ cbatch \in Seq(Message)
    BY PipesTyped
  <2>3. \/ \E k \in 1 .. Len(cbatch) : cbatch[k] \in ClosingFor(d)
        \/ \E k \in 1 .. Len(toClient) : toClient[k].msg \in ClosingFor(d)
    BY <2>1, <2>2, PipeParts DEF Replies
  <2>4. DOMAIN cbatch = 1 .. Len(cbatch) /\ DOMAIN toClient = 1 .. Len(toClient)
    BY <2>2
  <2> QED
    BY <2>3, <2>4 DEF Quiet, AnswersInTransit, AnswersInBatch, ClosingFor
<1> QED
  BY <1>1, <1>2 DEF Idle, Quiet

LEMMA PlacesFollowed ==
    ASSUME Followed, NEW d \in Device, NEW order \in Order, Places(d, order),
           UNCHANGED <<sorders, sbatch>>,
           NEW e \in Device
    PROVE  Single(e)' /\ Faithful(e)'
<1> DEFINE m == NewOrder(order.client, ToBase(order, d))
<1>1. Routed /\ Single(e) /\ Faithful(e)
  BY DEF Followed
<1>2. Replies' = Replies
  BY RepliesLeft DEF Places
<1>3. Once(Replies, ClosingFor(e))' = Once(Replies, ClosingFor(e)) /\ Answered(e)' = Answered(e)
  BY <1>2, SameReplies
<1>4. m \in Message /\ m \in OrdersFor(d) /\ (e # d => m \notin OrdersFor(e))
  BY RequestIsMessage
<1>5. Requests' \in {Requests, Append(Requests, m)}
  BY <1>1, <1>4, RequestSent DEF Places
<1>6. ServedRemotely(e)' = ServedRemotely(e) /\ sorders'[e] = sorders[e]
  BY DEF ServedRemotely
<1>7. cdevice \in [Device -> CP!DeviceProfile \cup {None}] /\ corders \in [Device -> Order \cup {None}]
  BY <1>1, SameMessages DEF Routed, CP!Registered, CP!TypeOK
<1> HIDE DEF m
<1>8. CASE e = d
  <2>1. Idle(e)
    BY <1>1, <1>8 DEF Places, Single
  <2>2. Once(Requests, OrdersFor(e))' /\ Asked(e)' \subseteq {m}
    BY <1>1, <1>4, <1>5, <2>1, MoreRequests DEF Single, Idle
  <2>3. Answered(e)' = {} /\ ~ServedRemotely(e)'
    BY <1>3, <1>6, <2>1 DEF Idle
  <2>4. cdevice'[e] # None /\ cdevice'[e].state = "Busy" /\ corders'[e] = order
    <3>1. cdevice' = [cdevice EXCEPT ![d] = [cdevice[d] EXCEPT !.state = "Busy"]]
          /\ corders' = [corders EXCEPT ![d] = order] /\ cdevice[d] # None
      BY DEF Places
    <3>2. corders'[e] = order
      BY <1>7, <1>8, <3>1
    <3>3. cdevice'[e] = [cdevice[d] EXCEPT !.state = "Busy"]
      BY <1>7, <1>8, <3>1
    <3>4. cdevice[d] \in CP!DeviceProfile
      BY <1>7, <3>1
    <3>5. /\ [cdevice[d] EXCEPT !.state = "Busy"].state = "Busy"
          /\ [cdevice[d] EXCEPT !.state = "Busy"] # None
      BY <3>4, ProfileSet DEF DeviceState
    <3> QED
      BY <3>2, <3>3, <3>5
  <2>5. Single(e)'
    BY <1>1, <1>3, <2>2, <2>3, <2>4 DEF Single
  <2>6. Faithful(e)'
    BY <1>8, <2>2, <2>3, <2>4 DEF Faithful, m
  <2> QED
    BY <2>5, <2>6
<1>9. CASE e # d
  <2>1. Once(Requests, OrdersFor(e))' /\ Asked(e)' \subseteq Asked(e)
    BY <1>1, <1>4, <1>5, <1>9, MoreRequests DEF Single
  <2>2. cdevice'[e] = cdevice[e] /\ corders'[e] = corders[e]
    BY <1>7, <1>9 DEF Places
  <2> QED
    BY <1>1, <1>3, <1>6, <2>1, <2>2, Fewer DEF Single
<1> QED
  BY <1>8, <1>9

LEMMA WithdrawsFollowed ==
    ASSUME Followed, NEW d \in Device, Withdraws(d), UNCHANGED <<sorders, sbatch>>,
           NEW e \in Device
    PROVE  Single(e)' /\ Faithful(e)'
<1>1. Routed /\ Single(e) /\ Faithful(e)
  BY DEF Followed
<1>2. Requests' = Requests /\ Replies' = Replies
  BY RequestsLeft, RepliesLeft DEF Withdraws
<1>3. corders'[e] \in {corders[e], None} /\ cdevice'[e] = cdevice[e]
  <2>1. corders \in [Device -> Order \cup {None}]
    BY <1>1, SameMessages DEF Routed, CP!Registered, CP!TypeOK
  <2> QED
    BY <2>1 DEF Withdraws
<1>4. ServedRemotely(e)' = ServedRemotely(e) /\ sorders'[e] = sorders[e]
  BY DEF ServedRemotely
<1> QED
  BY <1>1, <1>2, <1>3, <1>4, SameRequests, SameReplies, Fewer DEF Single

LEMMA BindsFollowed ==
    ASSUME QuietRebind, Followed, NEW d \in Device, Binds(d), UNCHANGED <<sorders, sbatch>>,
           NEW e \in Device
    PROVE  Single(e)' /\ Faithful(e)'
<1>1. Routed /\ Single(e) /\ Faithful(e)
  BY DEF Followed
<1>2. Requests' = Requests /\ Replies' = Replies
  BY RequestsLeft, RepliesLeft DEF Binds
<1>3. /\ Once(Requests, OrdersFor(e))' /\ Asked(e)' = Asked(e)
      /\ Once(Replies, ClosingFor(e))' /\ Answered(e)' = Answered(e)
  BY <1>1, <1>2, SameRequests, SameReplies DEF Single
<1>4. ServedRemotely(e)' = ServedRemotely(e) /\ sorders'[e] = sorders[e] /\ corders' = corders
  BY DEF ServedRemotely, Binds
<1>5. CASE e = d
  <2>1. Idle(d)
    <3>1. CASE cdevice[d] = None
      BY <1>1, <1>5, <3>1 DEF Single
    <3>2. CASE cdevice[d] # None
      BY <1>1, <3>2, QuietIsIdle DEF Binds
    <3> QED
      BY <3>1, <3>2
  <2>2. Single(e)'
    BY <1>3, <1>4, <1>5, <2>1 DEF Single, Idle
  <2>3. Faithful(e)'
    BY <1>4, <1>5 DEF Binds, Faithful
  <2> QED
    BY <2>2, <2>3
<1>6. CASE e # d
  <2>1. cdevice'[e] = cdevice[e]
    <3>1. cdevice \in [Device -> CP!DeviceProfile \cup {None}]
      BY <1>1 DEF Routed, CP!Registered, CP!TypeOK
    <3> QED
      BY <1>6, <3>1 DEF Binds
  <2> QED
    BY <1>1, <1>3, <1>4, <2>1, Fewer
<1> QED
  BY <1>5, <1>6

LEMMA IdlesFollowed ==
    ASSUME Followed, Idles, UNCHANGED <<sorders, sbatch>>, NEW e \in Device
    PROVE  Single(e)' /\ Faithful(e)'
<1>1. Routed /\ Single(e) /\ Faithful(e)
  BY DEF Followed
<1>2. Replies' = Replies
  BY RepliesLeft DEF Idles
<1>3. Garbage \in Message /\ Garbage \notin OrdersFor(e)
  BY DEF Garbage, Message, OrdersFor
<1>4. Requests' \in {Requests, Append(Requests, Garbage)}
  BY <1>1, <1>3, RequestSent DEF Idles
<1>5. Once(Requests, OrdersFor(e))' /\ Asked(e)' \subseteq Asked(e)
  BY <1>1, <1>3, <1>4, MoreRequests DEF Single
<1>6. /\ ServedRemotely(e)' = ServedRemotely(e) /\ sorders'[e] = sorders[e]
      /\ corders'[e] = corders[e] /\ cdevice'[e] = cdevice[e]
  BY DEF ServedRemotely, Idles
<1> QED
  BY <1>1, <1>2, <1>5, <1>6, SameReplies, Fewer DEF Single

LEMMA AnswersArriveFollowed ==
    ASSUME Followed, NEW n \in 1 .. Len(toClient), AnswersArrive(n), UNCHANGED <<sorders, sbatch>>,
           NEW e \in Device
    PROVE  Single(e)' /\ Faithful(e)'
<1>1. Routed /\ Single(e) /\ Faithful(e)
  BY DEF Followed
<1>2. Requests' = Requests /\ Replies' = Replies
  BY <1>1, RequestsLeft, RepliesDelivered DEF AnswersArrive
<1>3. /\ ServedRemotely(e)' = ServedRemotely(e) /\ sorders'[e] = sorders[e]
      /\ corders'[e] = corders[e] /\ cdevice'[e] = cdevice[e]
  BY DEF ServedRemotely, AnswersArrive
<1> QED
  BY <1>1, <1>2, <1>3, SameRequests, SameReplies, Fewer DEF Single

LEMMA IgnoresFollowed ==
    ASSUME Followed, Ignores, UNCHANGED <<sorders, sbatch>>, NEW e \in Device
    PROVE  Single(e)' /\ Faithful(e)'
<1>1. Routed /\ Single(e) /\ Faithful(e)
  BY DEF Followed
<1>2. Requests' = Requests
  BY RequestsLeft DEF Ignores
<1>3. Once(Replies, ClosingFor(e))' /\ Answered(e)' \subseteq Answered(e)
  BY <1>1, FewerReplies DEF Ignores, Single
<1>4. /\ ServedRemotely(e)' = ServedRemotely(e) /\ sorders'[e] = sorders[e]
      /\ corders'[e] = corders[e] /\ cdevice'[e] = cdevice[e]
  BY DEF ServedRemotely, Ignores
<1> QED
  BY <1>1, <1>2, <1>3, <1>4, SameRequests, Fewer DEF Single

LEMMA ClosesFollowed ==
    ASSUME Followed, NEW d \in Device, Closes(d), UNCHANGED <<sorders, sbatch>>, NEW e \in Device
    PROVE  Single(e)' /\ Faithful(e)'
<1>1. Routed /\ Single(e) /\ Faithful(e)
  BY DEF Followed
<1>2. Requests' = Requests
  BY RequestsLeft DEF Closes
<1>3. Once(Requests, OrdersFor(e))' /\ Asked(e)' = Asked(e)
  BY <1>1, <1>2, SameRequests DEF Single
<1>4. /\ Once(Replies, ClosingFor(e))' /\ Answered(e)' \subseteq Answered(e)
      /\ Head(cbatch) \in ClosingFor(e) => Answered(e)' = {} /\ Head(cbatch) \in Answered(e)
  BY <1>1, FewerReplies DEF Closes, Single
<1>5. ServedRemotely(e)' = ServedRemotely(e) /\ sorders'[e] = sorders[e]
  BY DEF ServedRemotely
<1>6. cdevice \in [Device -> CP!DeviceProfile \cup {None}] /\ corders \in [Device -> Order \cup {None}]
  BY <1>1, SameMessages DEF Routed, CP!Registered, CP!TypeOK
<1>7. CASE e = d
  <2>1. Head(cbatch) \in ClosingFor(e)
    <3>1. Head(cbatch) \in Message
      BY <1>1, PipesTyped DEF Closes
    <3> QED
      BY <1>7, <3>1 DEF Closes, ClosingFor
  <2>2. Asked(e) = {} /\ ~ServedRemotely(e)
    BY <1>1, <1>4, <2>1 DEF Single
  <2>3. Answered(e)' = {} /\ Asked(e)' = {} /\ ~ServedRemotely(e)'
    BY <1>3, <1>4, <1>5, <2>1, <2>2
  <2>4. corders'[e] = None
    BY <1>6, <1>7 DEF Closes
  <2> QED
    BY <1>3, <1>4, <2>3, <2>4 DEF Single, Faithful, Idle
<1>8. CASE e # d
  <2>1. corders'[e] = corders[e] /\ cdevice'[e] = cdevice[e]
    BY <1>6, <1>8 DEF Closes
  <2> QED
    BY <1>1, <1>3, <1>4, <1>5, <2>1, Fewer
<1> QED
  BY <1>7, <1>8

(* An answer that closes nothing changes nothing for anyone.               *)
LEMMA HarmlessReply ==
    ASSUME Routed, NEW e \in Device, Single(e), cbatch' = cbatch,
           \/ toClient' = toClient
           \/ \E msg \in Message : /\ \A d \in Device : ~IsClosing(msg, d)
                                   /\ Queued(toClient, toClient', ClientPara, msg)
    PROVE  Once(Replies, ClosingFor(e))' /\ Answered(e)' = Answered(e)
<1>1. CASE toClient' = toClient
  BY <1>1, RepliesLeft, SameReplies DEF Single
<1>2. ASSUME NEW msg \in Message, \A d \in Device : ~IsClosing(msg, d),
             Queued(toClient, toClient', ClientPara, msg)
      PROVE  Once(Replies, ClosingFor(e))' /\ Answered(e)' = Answered(e)
  <2>1. msg \notin ClosingFor(e)
    BY <1>2 DEF ClosingFor
  <2>2. Replies' \in {Replies, Append(Replies, msg)}
    BY <1>2, ReplySent
  <2> QED
    BY <2>1, <2>2, MoreReplies DEF Single
<1> QED
  BY <1>1, <1>2

(* Steps of the service chain                                              *)
LEMMA ServesFollowed ==
    ASSUME Followed, Serves, UNCHANGED <<cbatch, cdevice, corders>>, NEW e \in Device
    PROVE  Single(e)' /\ Faithful(e)'
<1>1. Routed /\ Single(e) /\ Faithful(e)
  BY DEF Followed
<1>2. Requests' = Requests
  BY RequestsLeft DEF Serves
<1>3. Once(Replies, ClosingFor(e))' /\ Answered(e)' \subseteq Answered(e)
  BY <1>1, HarmlessReply DEF Serves
<1>4. ServedRemotely(e)' => ServedRemotely(e) /\ sorders'[e] = sorders[e]
  BY DEF ServedRemotely, Serves
<1> QED
  BY <1>1, <1>2, <1>3, <1>4, SameRequests, Fewer DEF Single

LEMMA RefusesFollowed ==
    ASSUME Followed, Refuses, UNCHANGED <<cbatch, cdevice, corders>>, NEW e \in Device
    PROVE  Single(e)' /\ Faithful(e)'
<1>1. Routed /\ Single(e) /\ Faithful(e)
  BY DEF Followed
<1>2. Replies' = Replies
  BY RepliesLeft DEF Refuses
<1>3. Once(Requests, OrdersFor(e))' /\ Asked(e)' \subseteq Asked(e)
  BY <1>1, FewerRequests DEF Refuses, Single
<1>4. ServedRemotely(e)' = ServedRemotely(e) /\ sorders'[e] = sorders[e]
  BY DEF ServedRemotely, Refuses
<1> QED
  BY <1>1, <1>2, <1>3, <1>4, SameReplies, Fewer DEF Single

LEMMA OrdersArriveFollowed ==
    ASSUME Followed, NEW n \in 1 .. Len(toService), OrdersArrive(n),
           UNCHANGED <<cbatch, cdevice, corders>>, NEW e \in Device
    PROVE  Single(e)' /\ Faithful(e)'
<1>1. Routed /\ Single(e) /\ Faithful(e)
  BY DEF Followed
<1>2. Requests' = Requests /\ Replies' = Replies
  BY <1>1, RepliesLeft, RequestsDelivered DEF OrdersArrive
<1>3. ServedRemotely(e)' = ServedRemotely(e) /\ sorders'[e] = sorders[e]
  BY DEF ServedRemotely, OrdersArrive
<1> QED
  BY <1>1, <1>2, <1>3, SameRequests, SameReplies, Fewer DEF Single

LEMMA BeginsFollowed ==
    ASSUME Followed, NEW d \in Device, Begins(d), UNCHANGED <<cbatch, cdevice, corders>>,
           NEW e \in Device
    PROVE  Single(e)' /\ Faithful(e)'
<1> DEFINE m == Head(sbatch).msg
           taken == [client |-> m.client, fee |-> m.order.fee,
                     until |-> m.order.until, paraid |-> ClientPara]
<1>1. Routed /\ Single(e) /\ Faithful(e)
  BY DEF Followed
<1>2. /\ Once(Requests, OrdersFor(e))' /\ Asked(e)' \subseteq Asked(e)
      /\ m \in OrdersFor(e) => Asked(e)' = {} /\ m \in Asked(e)
  BY <1>1, FewerRequests DEF Begins, Single
<1>3. Once(Replies, ClosingFor(e))' /\ Answered(e)' \subseteq Answered(e)
  BY <1>1, HarmlessReply DEF Begins
<1>4. sorders \in [Device -> Order \cup {None}]
  BY <1>1, SameMessages DEF Routed, SP!Registered, SP!TypeOK
<1>5. CASE e = d
  <2>1. m \in OrdersFor(e)
    <3>1. Head(sbatch) \in FromClientChain
      BY <1>1, PipesTyped DEF Begins
    <3>2. m \in Message
      BY <3>1 DEF FromClientChain
    <3> QED
      BY <1>5, <3>2 DEF Begins, OrdersFor
  <2>2. Asked(e) # {} /\ Asked(e)' = {} /\ m \in Asked(e)
    BY <1>2, <2>1
  <2>3. Answered(e) = {} /\ ~ServedRemotely(e)
    BY <1>1, <2>2 DEF Single
  <2>4. Answered(e)' = {}
    BY <1>3, <2>3
  <2>5. cdevice[e] # None /\ cdevice[e].state = "Busy"
    BY <1>1, <2>2 DEF Single, Idle
  <2>6. Single(e)'
    BY <1>2, <1>3, <2>2, <2>4, <2>5 DEF Single
  <2>7. sorders'[e] = taken
    BY <1>4, <1>5 DEF Begins
  <2>8. corders[e] # None => taken = [corders[e] EXCEPT !.paraid = ClientPara]
    <3> SUFFICES ASSUME corders[e] # None
                 PROVE  taken = [corders[e] EXCEPT !.paraid = ClientPara]
      OBVIOUS
    <3>1. m = NewOrder(corders[e].client, ToBase(corders[e], e))
      BY <1>1, <2>2 DEF Faithful
    <3>2. /\ m.client = corders[e].client /\ m.order.fee = corders[e].fee
          /\ m.order.until = corders[e].until
      BY <3>1 DEF NewOrder, ToBase
    <3>3. corders[e] \in Order
      BY <1>1, SameMessages DEF Routed, CP!Registered, CP!TypeOK
    <3> QED
      BY <3>2, <3>3 DEF Order
  <2> HIDE DEF taken, m
  <2>9. Faithful(e)'
    BY <2>2, <2>4, <2>7, <2>8 DEF Faithful
  <2> QED
    BY <2>6, <2>9
<1>6. CASE e # d
  <2>1. sorders'[e] = sorders[e]
    BY <1>4, <1>6 DEF Begins
  <2>2. ServedRemotely(e)' = ServedRemotely(e)
    BY <2>1 DEF ServedRemotely
  <2> QED
    BY <1>1, <1>2, <1>3, <2>1, <2>2, Fewer
<1> QED
  BY <1>5, <1>6

LEMMA EndsFollowed ==
    ASSUME Followed, NEW d \in Device, Ends(d), UNCHANGED <<cbatch, cdevice, corders>>,
           NEW e \in Device
    PROVE  Single(e)' /\ Faithful(e)'
<1>1. Routed /\ Single(e) /\ Faithful(e) /\ Single(d)
  BY DEF Followed
<1>2. PICK m \in Message : /\ IsClosing(m, d) /\ m.client = sorders[d].client
                           /\ Queued(toClient, toClient', ClientPara, m)
  BY DEF Ends
<1>3. Requests' = Requests
  BY RequestsLeft DEF Ends
<1>4. Once(Requests, OrdersFor(e))' /\ Asked(e)' = Asked(e)
  BY <1>1, <1>3, SameRequests DEF Single
<1>5. Replies' \in {Replies, Append(Replies, m)}
  BY <1>1, <1>2, ReplySent
<1>6. Answered(d) = {} /\ Asked(d) = {}
  BY <1>1 DEF Ends, Single
<1>7. m \in ClosingFor(e) => e = d
  BY <1>2 DEF ClosingFor, IsClosing
<1>8. /\ Once(Replies, ClosingFor(e))'
      /\ Answered(e)' \subseteq Answered(e) \cup ({m} \cap ClosingFor(e))
  BY <1>1, <1>5, <1>6, <1>7, MoreReplies DEF Single
<1>9. sorders \in [Device -> Order \cup {None}]
  BY <1>1, SameMessages DEF Routed, SP!Registered, SP!TypeOK
<1>10. CASE e = d
  <2>1. sorders'[e] = None /\ ~ServedRemotely(e)'
    BY <1>9, <1>10 DEF Ends, ServedRemotely
  <2>2. Asked(e)' = {} /\ Answered(e)' \subseteq {m}
    BY <1>4, <1>6, <1>8, <1>10
  <2>3. cdevice[e] # None /\ cdevice[e].state = "Busy"
    BY <1>1, <1>10 DEF Ends, Single, Idle
  <2>4. Single(e)'
    BY <1>4, <1>8, <2>1, <2>2, <2>3 DEF Single
  <2>5. corders[e] # None => m.client = corders[e].client
    <3> SUFFICES ASSUME corders[e] # None PROVE m.client = corders[e].client
      OBVIOUS
    <3>1. sorders[e] = [corders[e] EXCEPT !.paraid = ClientPara]
      BY <1>1, <1>10 DEF Faithful, Ends
    <3>2. corders[e] \in Order
      BY <1>1, SameMessages DEF Routed, CP!Registered, CP!TypeOK
    <3>3. sorders[e].client = corders[e].client
      BY <3>1, <3>2 DEF Order
    <3> QED
      BY <1>2, <1>10, <3>3
  <2>6. Faithful(e)'
    BY <2>1, <2>2, <2>5 DEF Faithful
  <2> QED
    BY <2>4, <2>6
<1>11. CASE e # d
  <2>1. sorders'[e] = sorders[e]
    BY <1>9, <1>11 DEF Ends
  <2>2. ServedRemotely(e)' = ServedRemotely(e) /\ Answered(e)' \subseteq Answered(e)
    BY <1>7, <1>8, <1>11, <2>1 DEF ServedRemotely
  <2> QED
    BY <1>1, <1>4, <1>8, <2>1, <2>2, Fewer
<1> QED
  BY <1>10, <1>11

LEMMA FollowedInit == Init => Followed
<1> SUFFICES ASSUME Init PROVE Followed
  OBVIOUS
<1>1. Routed
  BY RoutedInit
<1>2. /\ sbatch = <<>> /\ cbatch = <<>> /\ toService = <<>> /\ toClient = <<>>
      /\ corders = [d \in Device |-> None] /\ sorders = [d \in Device |-> None]
  BY DEF Init, C!Init, S!Init
<1>3. Requests = <<>> /\ Replies = <<>>
  <2>1. Msgs(<<>>) = <<>>
    BY DEF Msgs
  <2> QED
    BY <1>2, <2>1 DEF Requests, Replies, Pipe
<1>4. ASSUME NEW d \in Device PROVE Single(d) /\ Faithful(d)
  <2>1. /\ \A M : Once(<<>>, M) /\ Among(<<>>, M) = {}
    BY DEF Once, Among
  <2>2. Idle(d) /\ ~ServedRemotely(d)
    BY <1>2, <1>3, <2>1 DEF Idle, Asked, Answered, ServedRemotely
  <2> QED
    BY <1>2, <1>3, <2>1, <2>2 DEF Single, Faithful, Idle
<1> QED
  BY <1>1, <1>4 DEF Followed

LEMMA FollowedStep ==
    ASSUME QuietRebind, Followed, [Next]_vars
    PROVE  Followed'
<1>1. Routed /\ Routed'
  BY RoutedStep DEF Followed
<1>2. ASSUME ClientChain, NEW e \in Device PROVE Single(e)' /\ Faithful(e)'
  <2>1. UNCHANGED <<sorders, sbatch>>
    BY <1>2 DEF ClientChain, ClientOrders, ClientCancels, DeviceRegisters, ClientTest,
                ClientHandles, ClientTick, DeliverAnswers, svars
  <2>2. ClientEffect
    BY <1>1, <1>2, ClientShows
  <2> QED
    BY <2>1, <2>2, PlacesFollowed, WithdrawsFollowed, BindsFollowed, ClosesFollowed,
       IdlesFollowed, IgnoresFollowed, AnswersArriveFollowed
       DEF ClientEffect
<1>3. ASSUME ServiceChain, NEW e \in Device PROVE Single(e)' /\ Faithful(e)'
  <2>1. UNCHANGED <<cbatch, cdevice, corders>>
    BY <1>3 DEF ServiceChain, ServiceDispatch, ServiceHandles, ServiceTick, DeliverOrders, cvars
  <2>2. ServiceEffect
    BY <1>1, <1>3, ServiceShows
  <2> QED
    BY <2>1, <2>2, ServesFollowed, RefusesFollowed, BeginsFollowed, EndsFollowed,
       OrdersArriveFollowed
       DEF ServiceEffect
<1>4. ASSUME UNCHANGED vars, NEW e \in Device PROVE Single(e)' /\ Faithful(e)'
  <2>1. Requests' = Requests /\ Replies' = Replies
    BY <1>4, RequestsLeft, RepliesLeft DEF vars, cvars, svars
  <2>2. /\ ServedRemotely(e)' = ServedRemotely(e) /\ sorders'[e] = sorders[e]
        /\ corders'[e] = corders[e] /\ cdevice'[e] = cdevice[e]
    BY <1>4 DEF ServedRemotely, vars, cvars, svars
  <2> QED
    BY <2>1, <2>2, SameRequests, SameReplies, Fewer DEF Single, Followed
<1> QED
  BY <1>1, <1>2, <1>3, <1>4 DEF Followed, Next

(* How many messages of a kind a pipe holds                                *)
LEMMA PipeCount ==
    ASSUME NEW s \in Seq(Message), NEW t \in Seq(Outbound), NEW M, Once(Pipe(s, t), M)
    PROVE  LET I == {i \in DOMAIN s : s[i] \in M}
               J == {i \in DOMAIN t : t[i].msg \in M}
           IN  /\ Cardinality(I) \in {0, 1} /\ Cardinality(J) \in {0, 1}
               /\ I = {} \/ J = {}
               /\ Among(Pipe(s, t), M) = {} => I = {} /\ J = {}
               /\ \A i \in I : s[i] \in Among(Pipe(s, t), M)
               /\ \A i \in J : t[i].msg \in Among(Pipe(s, t), M)
               /\ Cardinality({}) = 0
<1> DEFINE I == {i \in DOMAIN s : s[i] \in M}
           J == {i \in DOMAIN t : t[i].msg \in M}
           p == Pipe(s, t)
<1>1. /\ Len(p) = Len(s) + Len(t)
      /\ \A i \in 1 .. Len(s) : p[i] = s[i]
      /\ \A i \in 1 .. Len(t) : p[Len(s) + i] = t[i].msg
  BY PipeType
<1>2. Len(s) \in Nat /\ Len(t) \in Nat /\ DOMAIN s = 1 .. Len(s) /\ DOMAIN t = 1 .. Len(t)
  OBVIOUS
<1> HIDE DEF p
<1>3. \A i \in I : i \in 1 .. Len(s) /\ i \in 1 .. Len(p) /\ p[i] = s[i] /\ s[i] \in M
  BY <1>1, <1>2
<1>4. \A i \in J : Len(s) + i \in 1 .. Len(p) /\ p[Len(s) + i] = t[i].msg /\ t[i].msg \in M
  BY <1>1, <1>2
<1>5. \A i, j \in J : Len(s) + i = Len(s) + j => i = j
  BY <1>2
<1>6. \A i \in I : \A j \in J : i # Len(s) + j
  BY <1>2
<1> HIDE DEF I, J
<1>7. /\ \A i, j \in I : i = j
      /\ \A i, j \in J : i = j
      /\ I = {} \/ J = {}
  BY <1>3, <1>4, <1>5, <1>6 DEF Once, p
<1>8. Cardinality({}) = 0 /\ \A x : Cardinality({x}) = 1
  BY FS_EmptySet, FS_Singleton
<1>9. ASSUME NEW K, \A i, j \in K : i = j PROVE K = {} \/ \E x : K = {x}
  <2>1. CASE \E x : x \in K
    <3>1. PICK x : x \in K
      BY <2>1
    <3>2. K = {x}
      BY <1>9, <3>1
    <3> QED
      BY <3>2
  <2>2. CASE ~\E x : x \in K
    BY <2>2
  <2> QED
    BY <2>1, <2>2
<1>10. /\ I = {} \/ \E x : I = {x}
       /\ J = {} \/ \E x : J = {x}
  BY <1>7, <1>9
<1>11. Cardinality(I) \in {0, 1} /\ Cardinality(J) \in {0, 1}
  BY <1>8, <1>10
<1>12. /\ \A i \in I : s[i] \in Among(p, M)
       /\ \A i \in J : t[i].msg \in Among(p, M)
  BY <1>3, <1>4 DEF Among
<1>13. Among(p, M) = {} => I = {} /\ J = {}
  BY <1>12
<1> QED
  BY <1>7, <1>8, <1>11, <1>12, <1>13 DEF I, J, p

(* What is on its way to the service chain,                                *)
LEMMA CountOrders ==
    ASSUME Routed, NEW d \in Device, Once(Requests, OrdersFor(d))
    PROVE  /\ Cardinality(OrdersInTransit(d)) \in {0, 1} /\ Cardinality(OrdersInBatch(d)) \in {0, 1}
           /\ OrdersInTransit(d) = {} \/ OrdersInBatch(d) = {}
           /\ Asked(d) = {} => OrdersInTransit(d) = {} /\ OrdersInBatch(d) = {}
           /\ \A i \in OrdersInTransit(d) : toService[i].msg \in Asked(d)
           /\ \A i \in OrdersInBatch(d) : sbatch[i].msg \in Asked(d)
           /\ Cardinality({}) = 0
<1> DEFINE s == Msgs(sbatch)
           I == {i \in DOMAIN s : s[i] \in OrdersFor(d)}
           J == {i \in DOMAIN toService : toService[i].msg \in OrdersFor(d)}
<1>1. /\ s \in Seq(Message) /\ Len(s) = Len(sbatch) /\ toService \in Seq(Outbound)
      /\ sbatch \in Seq(FromClientChain)
      /\ \A i \in 1 .. Len(sbatch) : s[i] = sbatch[i].msg
  BY PipesTyped
<1>2. /\ \A i \in DOMAIN sbatch : sbatch[i].msg \in Message
      /\ \A i \in DOMAIN toService : toService[i].msg \in Message
  <2>1. /\ \A i \in DOMAIN sbatch : sbatch[i] \in FromClientChain
        /\ \A i \in DOMAIN toService : toService[i] \in Outbound
    BY <1>1
  <2> QED
    BY <2>1 DEF FromClientChain, Outbound
<1>3. OrdersInTransit(d) = J
  BY <1>2 DEF OrdersInTransit, OrdersFor
<1> HIDE DEF s
<1>4. DOMAIN s = 1 .. Len(sbatch) /\ DOMAIN sbatch = 1 .. Len(sbatch)
  BY <1>1
<1>5. OrdersInBatch(d) = I
  BY <1>1, <1>2, <1>4 DEF OrdersInBatch, OrdersFor
<1>6. /\ Cardinality(I) \in {0, 1} /\ Cardinality(J) \in {0, 1}
      /\ I = {} \/ J = {}
      /\ Among(Pipe(s, toService), OrdersFor(d)) = {} => I = {} /\ J = {}
      /\ \A i \in I : s[i] \in Among(Pipe(s, toService), OrdersFor(d))
      /\ \A i \in J : toService[i].msg \in Among(Pipe(s, toService), OrdersFor(d))
      /\ Cardinality({}) = 0
  BY <1>1, PipeCount DEF Requests, s
<1>7. Among(Pipe(s, toService), OrdersFor(d)) = Asked(d)
  BY DEF Asked, Requests, s
<1>8. \A i \in I : s[i] = sbatch[i].msg
  BY <1>1, <1>4
<1> HIDE DEF I, J
<1> QED
  BY <1>3, <1>5, <1>6, <1>7, <1>8

(* and on its way back                                                     *)
LEMMA CountAnswers ==
    ASSUME Routed, NEW d \in Device, Once(Replies, ClosingFor(d))
    PROVE  /\ Cardinality(AnswersInTransit(d)) \in {0, 1} /\ Cardinality(AnswersInBatch(d)) \in {0, 1}
           /\ AnswersInTransit(d) = {} \/ AnswersInBatch(d) = {}
           /\ Answered(d) = {} => AnswersInTransit(d) = {} /\ AnswersInBatch(d) = {}
           /\ \A i \in AnswersInTransit(d) : toClient[i].msg \in Answered(d)
           /\ \A i \in AnswersInBatch(d) : cbatch[i] \in Answered(d)
           /\ Cardinality({}) = 0
<1> DEFINE I == {i \in DOMAIN cbatch : cbatch[i] \in ClosingFor(d)}
           J == {i \in DOMAIN toClient : toClient[i].msg \in ClosingFor(d)}
<1>1. cbatch \in Seq(Message) /\ toClient \in Seq(Outbound)
  BY PipesTyped
<1>2. /\ \A i \in DOMAIN cbatch : cbatch[i] \in Message
      /\ \A i \in DOMAIN toClient : toClient[i].msg \in Message
  <2>1. \A i \in DOMAIN toClient : toClient[i] \in Outbound
    BY <1>1
  <2> QED
    BY <1>1, <2>1 DEF Outbound
<1>3. AnswersInTransit(d) = J /\ AnswersInBatch(d) = I
  BY <1>2 DEF AnswersInTransit, AnswersInBatch, ClosingFor
<1>4. /\ Cardinality(I) \in {0, 1} /\ Cardinality(J) \in {0, 1}
      /\ I = {} \/ J = {}
      /\ Among(Pipe(cbatch, toClient), ClosingFor(d)) = {} => I = {} /\ J = {}
      /\ \A i \in I : cbatch[i] \in Among(Pipe(cbatch, toClient), ClosingFor(d))
      /\ \A i \in J : toClient[i].msg \in Among(Pipe(cbatch, toClient), ClosingFor(d))
      /\ Cardinality({}) = 0
  BY <1>1, PipeCount DEF Replies
<1>5. Among(Pipe(cbatch, toClient), ClosingFor(d)) = Answered(d)
  BY DEF Answered, Replies
<1> HIDE DEF I, J
<1> QED
  BY <1>3, <1>4, <1>5

(* If a device is registered again only when nothing is under way about    *)
(* it, then whatever the channels drop and the devices refuse, at most one *)
(* order, service or closing answer is under way about a device: a client  *)
(* who cancelled in time cannot make the chain order a second time before  *)
(* the first has run its course.                                           *)
THEOREM OneUnderWayHolds == ASSUME QuietRebind PROVE Spec => []OneUnderWay
<1>1. Followed => OneUnderWay
  <2> SUFFICES ASSUME Followed, NEW d \in Device
               PROVE  Cardinality(OrdersInTransit(d)) + Cardinality(OrdersInBatch(d))
                      + (IF ServedRemotely(d) THEN 1 ELSE 0)
                      + Cardinality(AnswersInTransit(d)) + Cardinality(AnswersInBatch(d)) <= 1
    BY DEF OneUnderWay
  <2>1. Routed /\ Single(d)
    BY DEF Followed
  <2>2. /\ Cardinality(OrdersInTransit(d)) \in {0, 1} /\ Cardinality(OrdersInBatch(d)) \in {0, 1}
        /\ OrdersInTransit(d) = {} \/ OrdersInBatch(d) = {}
        /\ Asked(d) = {} => OrdersInTransit(d) = {} /\ OrdersInBatch(d) = {}
        /\ Cardinality({}) = 0
    BY <2>1, CountOrders DEF Single
  <2>3. /\ Cardinality(AnswersInTransit(d)) \in {0, 1} /\ Cardinality(AnswersInBatch(d)) \in {0, 1}
        /\ AnswersInTransit(d) = {} \/ AnswersInBatch(d) = {}
        /\ Answered(d) = {} => AnswersInTransit(d) = {} /\ AnswersInBatch(d) = {}
    BY <2>1, CountAnswers DEF Single
  <2>4. /\ Answered(d) # {} => Asked(d) = {} /\ ~ServedRemotely(d)
        /\ ServedRemotely(d) => Asked(d) = {}
    BY <2>1 DEF Single
  <2>5. /\ AnswersInTransit(d) # {} \/ AnswersInBatch(d) # {} =>
                OrdersInTransit(d) = {} /\ OrdersInBatch(d) = {} /\ ~ServedRemotely(d)
        /\ ServedRemotely(d) => OrdersInTransit(d) = {} /\ OrdersInBatch(d) = {}
    BY <2>2, <2>3, <2>4
  <2>6. PICK a, b, u, v \in {0, 1} :
            /\ a = Cardinality(OrdersInTransit(d)) /\ b = Cardinality(OrdersInBatch(d))
            /\ u = Cardinality(AnswersInTransit(d)) /\ v = Cardinality(AnswersInBatch(d))
    BY <2>2, <2>3
  <2>7. /\ a = 0 \/ b = 0
        /\ u = 0 \/ v = 0
        /\ u # 0 \/ v # 0 => a = 0 /\ b = 0 /\ ~ServedRemotely(d)
        /\ ServedRemotely(d) => a = 0 /\ b = 0
    BY <2>2, <2>3, <2>5, <2>6
  <2>8. a + b + (IF ServedRemotely(d) THEN 1 ELSE 0) + u + v <= 1
    BY <2>7
  <2> QED
    BY <2>6, <2>8
<1>2. Followed /\ [Next]_vars => Followed'
  BY FollowedStep
<1> QED
  BY <1>1, <1>2, FollowedInit, PTL DEF Spec

(* What is served, travels or comes back for a device with an open order   *)
(* is that very order, although no message of the pallets names one.       *)
THEOREM SameOrderHolds == ASSUME QuietRebind PROVE Spec => []SameOrder
<1>1. Followed => SameOrder
  <2> SUFFICES ASSUME Followed, NEW d \in Device, corders[d] # None
               PROVE  /\ ServedRemotely(d) => sorders[d] = [corders[d] EXCEPT !.paraid = ClientPara]
                      /\ \A i \in OrdersInTransit(d) :
                            toService[i].msg = NewOrder(corders[d].client, ToBase(corders[d], d))
                      /\ \A i \in OrdersInBatch(d) :
                            sbatch[i].msg = NewOrder(corders[d].client, ToBase(corders[d], d))
                      /\ \A i \in AnswersInTransit(d) : toClient[i].msg.client = corders[d].client
                      /\ \A i \in AnswersInBatch(d) : cbatch[i].client = corders[d].client
    BY DEF SameOrder
  <2>1. Routed /\ Single(d) /\ Faithful(d)
    BY DEF Followed
  <2>2. /\ \A i \in OrdersInTransit(d) : toService[i].msg \in Asked(d)
        /\ \A i \in OrdersInBatch(d) : sbatch[i].msg \in Asked(d)
    BY <2>1, CountOrders DEF Single
  <2>3. /\ \A i \in AnswersInTransit(d) : toClient[i].msg \in Answered(d)
        /\ \A i \in AnswersInBatch(d) : cbatch[i] \in Answered(d)
    BY <2>1, CountAnswers DEF Single
  <2> QED
    BY <2>1, <2>2, <2>3 DEF Faithful
<1>2. Followed /\ [Next]_vars => Followed'
  BY FollowedStep
<1> QED
  BY <1>1, <1>2, FollowedInit, PTL DEF Spec

-------------------------------------------------------------------------------
(* The fees on the client chain, to the unit                               *)

Backs(c) == cbal[c].free >= ExistentialDeposit

(* A client with an open order keeps the existential deposit free.         *)
Solvent(c) == \A d \in Device : corders[d] # None /\ corders[d].client = c => Backs(c)

FeesExact ==
    \A c \in Client \ Device :
        /\ cbal[c].reserved = SumFunctionOnSet(CP!FeeAt(c), Device)
        /\ Solvent(c)

LEMMA ClientBalances ==
    ASSUME Routed
    PROVE  /\ \A a \in Account : cbal[a].reserved \in Nat /\ cbal[a].free \in Nat
           /\ Client \subseteq Account /\ Device \subseteq Account
           /\ cbal \in Ledger /\ Reaped(cbal)
<1>1. CP!Ledger = Ledger /\ (CP!Reaped(cbal) <=> Reaped(cbal))
  BY DEF CP!Ledger, Ledger, CP!Balance, Balance, CP!Reaped, Reaped, CP!IsAlive, IsAlive,
         CP!Total, Total
<1>2. cbal \in Ledger /\ Reaped(cbal)
  BY <1>1 DEF Routed, CP!Registered, CP!TypeOK
<1> QED
  BY <1>2, AccountsAssumption DEF Ledger, Balance

(* A client that opens no order and loses nothing free stays solvent.      *)
LEMMA StaysSolvent ==
    ASSUME Routed, Routed', NEW c \in Client, Solvent(c), cbal'[c].free >= cbal[c].free,
           \A d \in Device : corders'[d] # None /\ corders'[d].client = c =>
                                corders'[d] = corders[d]
    PROVE  Solvent(c)'
<1>1. cbal[c].free \in Nat /\ cbal'[c].free \in Nat
  BY ClientBalances, AccountsAssumption DEF Routed, CP!Registered, CP!TypeOK, CP!Ledger, CP!Balance
<1> QED
  BY <1>1, DepositAssumption DEF Solvent, Backs

(* The answer that is read names the client on record.                     *)
LEMMA AnswerIsFaithful ==
    ASSUME Followed, cbatch # <<>>, cbatch' = Tail(cbatch), toClient' = toClient,
           NEW d \in Device, IsClosing(Head(cbatch), d), corders[d] # None
    PROVE  Head(cbatch).client = corders[d].client
<1>1. Routed /\ Once(Replies, ClosingFor(d)) /\ Faithful(d)
  BY DEF Followed, Single
<1>2. Head(cbatch) \in Message
  BY DEF Followed, Routed, CP!Registered, CP!TypeOK
<1>3. Head(cbatch) \in Answered(d)
  BY <1>1, <1>2, FewerReplies DEF ClosingFor
<1> QED
  BY <1>1, <1>3 DEF Faithful

(* The terms a client's order needs: it covers its fees, and the reserve   *)
(* moves by the fee of the order that opens or closes.                     *)
ClientMoves ==
    /\ \A c \in Client \ Device :
            CP!FeesCovered(c) /\ Solvent(c) => CP!FeeMoves(c) /\ Solvent(c)'
    /\ \A e \in Device \ Client : CP!StakeCovered(e) => CP!StakeMoves(e)

LEMMA PlacingMoves ==
    ASSUME CarefulClients, Routed, Routed',
           NEW who \in Client, NEW base \in OrderBase, ClientOrders(who, base)
    PROVE  ClientMoves
<1>1. /\ CP!Registered /\ base \in CP!OrderBase /\ CP!PlaceOrder(who, base)
      /\ cbal[who].free - base.fee >= ExistentialDeposit
  BY ClientActions, SameMessages DEF ClientOrders, Routed
<1>2. /\ \A c \in Client \ Device : CP!FeeMoves(c)
      /\ \A e \in Device \ Client : CP!StakeMoves(e)
      /\ \A c \in (Client \ Device) \ {who} : cbal'[c].free = cbal[c].free
      /\ who \notin Device => cbal'[who].free = cbal[who].free - base.fee
  BY <1>1, ClientAssumptions, DepositAssumption, AccountsAssumption, ParaIdAssumption,
     AmountsAssumption, MomentAssumption, OutboxAssumption, CP!PlaceMoves
<1>3. \A e \in Device : corders'[e] # None => corders'[e] = corders[e] \/ corders'[e].client = who
  <2>1. \/ corders' = [corders EXCEPT ![base.device] = CP!ToOrder(base, who)]
        \/ corders' = corders
    BY <1>1 DEF CP!PlaceOrder
  <2>2. CP!ToOrder(base, who).client = who
    BY DEF CP!ToOrder
  <2> QED
    BY <2>1, <2>2 DEF Routed, CP!Registered, CP!TypeOK
<1>4. ASSUME NEW c \in Client \ Device, Solvent(c) PROVE Solvent(c)'
  <2>1. CASE c = who
    BY <1>1, <1>2, <2>1 DEF Solvent, Backs
  <2>2. CASE c # who
    <3>1. cbal'[c].free = cbal[c].free /\ cbal[c].free \in Nat
      BY <1>2, <2>2, ClientBalances
    <3> QED
      BY <1>3, <1>4, <2>2, <3>1, StaysSolvent
  <2> QED
    BY <2>1, <2>2
<1> QED
  BY <1>2, <1>4 DEF ClientMoves

(* What order_reject and on_done do for the client on record               *)
LEMMA RejectingMoves ==
    ASSUME Routed, Routed', NEW d \in Device, NEW state, corders[d] # None,
           CP!RejectOrder(corders[d].client, d, state)
    PROVE  ClientMoves
<1>1. CP!Registered
  BY DEF Routed
<1>2. /\ \A c \in Client \ Device :
                CP!FeesCovered(c) => CP!FeeMoves(c) /\ cbal'[c].free >= cbal[c].free
      /\ \A e \in Device \ Client : CP!StakeCovered(e) => CP!StakeMoves(e)
      /\ CP!OpensNone
  BY <1>1, ClientAssumptions, DepositAssumption, AccountsAssumption, ParaIdAssumption,
     AmountsAssumption, MomentAssumption, OutboxAssumption, CP!RejectMoves, CP!RejectOpensNone
<1> QED
  BY <1>2, StaysSolvent DEF ClientMoves, CP!OpensNone

LEMMA FinishingMoves ==
    ASSUME Routed, Routed', NEW d \in Device, NEW state, corders[d] # None,
           ~CP!RepatriateFails(cbal, corders[d].client, d, corders[d].fee),
           CP!FinishOrder(corders[d].client, d, state)
    PROVE  ClientMoves
<1>1. CP!Registered
  BY DEF Routed
<1>2. /\ \A c \in Client \ Device :
                CP!FeesCovered(c) /\ (corders[d].client = c => cbal[c].free >= ExistentialDeposit)
                => CP!FeeMoves(c) /\ cbal'[c].free >= cbal[c].free
      /\ \A e \in Device \ Client : CP!StakeCovered(e) => CP!StakeMoves(e)
      /\ CP!OpensNone
  BY <1>1, ClientAssumptions, DepositAssumption, AccountsAssumption, ParaIdAssumption,
     AmountsAssumption, MomentAssumption, OutboxAssumption, CP!FinishMoves, CP!FinishOpensNone
<1>3. \A c : Solvent(c) => (corders[d].client = c => cbal[c].free >= ExistentialDeposit)
  BY DEF Solvent, Backs
<1> QED
  BY <1>2, <1>3, StaysSolvent DEF ClientMoves, CP!OpensNone

(* A step that leaves the ledger, the orders and their profiles            *)
LEMMA NothingMoves ==
    ASSUME Routed, Routed', cbal' = cbal, corders' = corders,
           \A e \in Device : corders[e] # None => cdevice'[e] = cdevice[e]
    PROVE  ClientMoves
<1>1. CP!Registered
  BY DEF Routed
<1>2. \A c \in Client \ Device : CP!FeeMoves(c)
  BY ClientAssumptions, DepositAssumption, AccountsAssumption, ParaIdAssumption,
     AmountsAssumption, MomentAssumption, OutboxAssumption, CP!NoFeeMoves
<1>3. \A e \in Device \ Client : CP!StakeMoves(e)
  BY <1>1, ClientAssumptions, DepositAssumption, AccountsAssumption, ParaIdAssumption,
     AmountsAssumption, MomentAssumption, OutboxAssumption, CP!NoStakeMoves
<1>4. \A c : Solvent(c) => Solvent(c)'
  BY DEF Solvent, Backs
<1> QED
  BY <1>2, <1>3, <1>4 DEF ClientMoves

LEMMA HandlingMoves ==
    ASSUME Followed, Routed', ClientHandles
    PROVE  ClientMoves
<1>1. /\ CP!ReadOnly \/ CP!AbortBatch \/ CP!OnReject \/ CP!OnDone
      /\ toClient' = toClient
      /\ Routed
  BY ClientActions DEF ClientHandles, C!Handle, svars, Followed
<1>2. CASE UNCHANGED <<cbal, cdevice, corders>>
  BY <1>1, <1>2, NothingMoves
<1>3. CASE CP!ReadOnly \/ CP!AbortBatch
  BY <1>2, <1>3 DEF CP!ReadOnly, CP!AbortBatch
<1>4. CASE CP!OnReject \/ CP!OnDone
  <2> DEFINE d == Head(cbatch).device
             who == Head(cbatch).client
             state == CP!Switch(Head(cbatch).onoff)
  <2>1. /\ cbatch # <<>> /\ cbatch' = Tail(cbatch)
        /\ Head(cbatch).type \in {"OrderReject", "OrderDone"}
    BY <1>4 DEF CP!OnReject, CP!OnDone
  <2>2. d \in Device
    <3>1. Head(cbatch) \in Message
      BY <1>1, <2>1 DEF Routed, CP!Registered, CP!TypeOK
    <3> QED
      BY <2>1, <3>1 DEF Message, NewOrders, Answers, Garbage
  <2>3. IsClosing(Head(cbatch), d)
    BY <2>1 DEF IsClosing
  <2>4. \/ UNCHANGED <<cbal, cdevice, corders>>
        \/ corders[d] # None /\ CP!RejectOrder(who, d, state)
        \/ /\ corders[d] # None
           /\ ~CP!RepatriateFails(cbal, who, d, corders[d].fee)
           /\ CP!FinishOrder(who, d, state)
    BY <1>4 DEF CP!OnReject, CP!OnDone
  <2>5. corders[d] # None => who = corders[d].client
    BY <1>1, <2>1, <2>2, <2>3, AnswerIsFaithful
  <2> HIDE DEF d, who, state
  <2> QED
    BY <1>1, <1>2, <2>2, <2>4, <2>5, RejectingMoves, FinishingMoves
<1> QED
  BY <1>1, <1>3, <1>4

LEMMA ClientChainMoves ==
    ASSUME CarefulClients, Followed, Routed', ClientChain
    PROVE  ClientMoves
<1>1. Routed
  BY DEF Followed
<1>2. ASSUME NEW who \in Client, NEW d \in Device, ClientCancels(who, d) PROVE ClientMoves
  <2>1. /\ corders[d] # None /\ corders[d].client = who
        /\ CP!RejectOrder(who, d, cdevice[d].state)
    BY <1>2, ClientActions DEF ClientCancels, CP!Cancel
  <2> QED
    BY <1>1, <2>1, RejectingMoves
<1>3. ASSUME NEW d \in Device, NEW penalty \in Penalties, NEW wcd \in Wcds, NEW onoff \in BOOLEAN,
             DeviceRegisters(d, penalty, wcd, onoff)
      PROVE  ClientMoves
  <2>1. CP!Register(d, ServicePara, penalty, wcd, onoff)
    BY <1>3, ClientActions DEF DeviceRegisters
  <2>2. /\ corders[d] = None /\ UNCHANGED <<cbal, corders>>
        /\ \A e \in Device : e # d => cdevice'[e] = cdevice[e]
    BY <1>1, <2>1 DEF CP!Register, Routed, CP!Registered, CP!TypeOK
  <2> QED
    BY <1>1, <2>2, NothingMoves
<1>4. ASSUME ClientTest \/ ClientTick \/ \E n \in 1 .. MaxBatch : DeliverAnswers(n)
      PROVE  ClientMoves
  <2>1. UNCHANGED <<cbal, cdevice, corders>>
    BY <1>4 DEF ClientTest, ClientTick, DeliverAnswers, C!Test, C!Tick, C!BeginBatch
  <2> QED
    BY <1>1, <2>1, NothingMoves
<1> QED
  BY <1>1, <1>2, <1>3, <1>4, PlacingMoves, HandlingMoves DEF ClientChain

LEMMA FeeTypes ==
    ASSUME Routed, NEW c \in Client
    PROVE  /\ \A d \in Device : CP!FeeAt(c)[d] \in Nat
           /\ cbal[c].reserved \in Nat /\ cbal[c].free \in Nat
<1>1. \A d \in Device : corders[d] # None => corders[d].fee \in Nat
  BY AmountsAssumption DEF Routed, CP!Registered, CP!TypeOK, CP!Order
<1> QED
  BY <1>1, ClientBalances DEF CP!FeeAt

LEMMA FeesExactInit == Init => FeesExact
<1> SUFFICES ASSUME Init, NEW c \in Client \ Device
             PROVE  cbal[c].reserved = SumFunctionOnSet(CP!FeeAt(c), Device) /\ Solvent(c)
  BY DEF FeesExact
<1>1. cbal[c].reserved = 0 /\ corders = [d \in Device |-> None]
  BY AccountsAssumption DEF Init, C!Init
<1>2. \A d \in Device : CP!FeeAt(c)[d] = 0
  BY <1>1 DEF CP!FeeAt
<1>3. SumFunctionOnSet(CP!FeeAt(c), Device) = SumFunctionOnSet(CP!FeeAt(c), {})
  BY <1>2, DeviceAssumption, SumSupport
<1>4. SumFunctionOnSet(CP!FeeAt(c), {}) = 0
  BY FS_EmptySet, SumUnfold
<1> QED
  BY <1>1, <1>3, <1>4 DEF Solvent

(* The reserve covers each of the fees it is the sum of, and the deposit   *)
(* kept free keeps the account from being reaped with what is left.        *)
LEMMA FeesAreCovered ==
    ASSUME Routed, FeesExact, NEW c \in Client \ Device
    PROVE  CP!FeesCovered(c)
<1> SUFFICES ASSUME NEW d \in Device
             PROVE  /\ CP!FeeAt(c)[d] <= cbal[c].reserved
                    /\ CP!DustFree(cbal[c].reserved - CP!FeeAt(c)[d])
                       \/ cbal[c].free >= ExistentialDeposit
  BY DEF CP!FeesCovered
<1> DEFINE f == CP!FeeAt(c)
<1>1. /\ \A e \in Device : f[e] \in Nat
      /\ cbal[c].reserved \in Nat /\ cbal[c].reserved = SumFunctionOnSet(f, Device)
      /\ Solvent(c)
  BY FeeTypes DEF FeesExact
<1>2. CASE \E e \in Device : corders[e] # None /\ corders[e].client = c
  <2>1. cbal[c].free >= ExistentialDeposit
    BY <1>1, <1>2 DEF Solvent, Backs
  <2> HIDE DEF f
  <2>2. f[d] <= cbal[c].reserved
    BY <1>1, DeviceAssumption, SumAtLeast
  <2> QED
    BY <2>1, <2>2 DEF f
<1>3. CASE ~\E e \in Device : corders[e] # None /\ corders[e].client = c
  <2>1. \A e \in Device : f[e] = 0
    BY <1>3 DEF CP!FeeAt
  <2> HIDE DEF f
  <2>2. SumFunctionOnSet(f, Device) = SumFunctionOnSet(f, {})
    BY <1>1, <2>1, DeviceAssumption, SumSupport
  <2>3. cbal[c].reserved = 0
    BY <1>1, <2>2, FS_EmptySet, SumUnfold
  <2> QED
    BY <2>1, <2>3 DEF f, CP!DustFree
<1> QED
  BY <1>2, <1>3

LEMMA FeesExactStep ==
    ASSUME CarefulClients, Followed, Routed', FeesExact, [Next]_vars
    PROVE  FeesExact'
<1> SUFFICES ASSUME NEW c \in Client \ Device
             PROVE  /\ cbal'[c].reserved = SumFunctionOnSet(CP!FeeAt(c)', Device)
                    /\ Solvent(c)'
  BY DEF FeesExact
<1> DEFINE f == CP!FeeAt(c)
           g == CP!FeeAt(c)'
           r == cbal[c].reserved
           t == cbal'[c].reserved
<1>1. /\ \A d \in Device : f[d] \in Nat
      /\ r \in Nat /\ r = SumFunctionOnSet(f, Device) /\ Solvent(c) /\ Routed
  BY FeeTypes DEF FeesExact, Followed
<1>2. (\A d \in Device : g[d] \in Nat) /\ t \in Nat
  <2>1. \A d \in Device : corders'[d] # None => corders'[d].fee \in Nat
    BY AmountsAssumption DEF Routed, CP!Registered, CP!TypeOK, CP!Order
  <2>2. cbal'[c].reserved \in Nat
    BY AccountsAssumption DEF Routed, CP!Registered, CP!TypeOK, CP!Ledger, CP!Balance
  <2> QED
    BY <2>1, <2>2 DEF CP!FeeAt
<1>3. CP!FeeMoves(c) /\ Solvent(c)'
  <2>1. CASE ClientChain
    BY <1>1, <2>1, FeesAreCovered, ClientChainMoves DEF ClientMoves
  <2>2. CASE ServiceChain \/ UNCHANGED vars
    <3>1. UNCHANGED <<cbal, cdevice, corders>>
      BY <2>2 DEF ServiceChain, ServiceDispatch, ServiceHandles, ServiceTick, DeliverOrders,
                  vars, cvars
    <3> QED
      BY <1>1, <3>1, FeesAreCovered, NothingMoves DEF ClientMoves
  <2> QED
    BY <2>1, <2>2 DEF Next
<1>4. \/ g = f /\ t = r
      \/ \E d \in Device : (\A e \in Device \ {d} : g[e] = f[e]) /\ t + f[d] = r + g[d]
  BY <1>3 DEF CP!FeeMoves
<1> HIDE DEF f, g, r, t
<1>5. t + SumFunctionOnSet(f, Device) = r + SumFunctionOnSet(g, Device)
  BY <1>1, <1>2, <1>4, DeviceAssumption, SumFollows
<1>6. SumFunctionOnSet(g, Device) \in Nat
  BY <1>2, DeviceAssumption, SumType
<1>7. t = SumFunctionOnSet(g, Device)
  BY <1>1, <1>2, <1>5, <1>6
<1> QED
  BY <1>3, <1>7 DEF g, t

LEMMA FeesExactSuffices == Routed /\ FeesExact => FeesHeld
<1> SUFFICES ASSUME Routed, FeesExact, NEW c \in Client \ Device
             PROVE  LET mine == {d \in Device : corders[d] # None /\ corders[d].client = c}
                    IN  cbal[c].reserved = SumFunctionOnSet([d \in mine |-> corders[d].fee], mine)
  BY DEF FeesHeld
<1> DEFINE f == CP!FeeAt(c)
           mine == {d \in Device : corders[d] # None /\ corders[d].client = c}
           fees == [d \in mine |-> corders[d].fee]
<1>1. /\ \A d \in Device : f[d] \in Nat
      /\ cbal[c].reserved = SumFunctionOnSet(f, Device)
  BY FeeTypes DEF FeesExact
<1>2. /\ mine \in SUBSET Device
      /\ \A d \in Device \ mine : f[d] = 0
      /\ \A d \in mine : fees[d] = f[d]
  BY DEF CP!FeeAt
<1> HIDE DEF f, mine, fees
<1>3. SumFunctionOnSet(f, Device) = SumFunctionOnSet(fees, mine)
  BY <1>1, <1>2, DeviceAssumption, SumSupport
<1> QED
  BY <1>1, <1>3 DEF mine, fees

(* What a client has in reserve on the client chain is the sum of the fees *)
(* of its open orders, whatever its other orders, late answers and lost    *)
(* messages do: `order` sets a fee aside, order_reject and on_done take    *)
(* that very fee out again, because the answer they act on names the       *)
(* client that placed the order.                                           *)
THEOREM FeesHeldHolds == ASSUME CarefulClients, QuietRebind PROVE Spec => []FeesHeld
<1>1. Init => Followed /\ FeesExact
  BY FollowedInit, FeesExactInit
<1>2. Followed /\ FeesExact /\ [Next]_vars => (Followed /\ FeesExact)'
  <2> SUFFICES ASSUME Followed, FeesExact, [Next]_vars PROVE (Followed /\ FeesExact)'
    OBVIOUS
  <2>1. Followed' /\ Routed'
    BY FollowedStep DEF Followed
  <2> QED
    BY <2>1, FeesExactStep
<1>3. Followed /\ FeesExact => FeesHeld
  BY FeesExactSuffices DEF Followed
<1> QED
  BY <1>1, <1>2, <1>3, PTL DEF Spec

-------------------------------------------------------------------------------
(* What a settlement on the client chain moves between the two parties     *)

(* No account is client and device at once.                                *)
Apart == Client \cap Device = {}

(* A device has its penalty in reserve and nothing else; one that risks    *)
(* nothing cannot have lost its account.                                   *)
StakesExact ==
    \A d \in Device \ Client :
        /\ cbal[d].reserved = CP!Stake(d)
        /\ cdevice[d] # None /\ cdevice[d].penalty = 0 => IsAlive(cbal, d)

Accounted == Followed /\ FeesExact /\ StakesExact

LEMMA SameMoney ==
    /\ \A b : CP!Total(b) = Total(b)
    /\ \A amount : /\ CP!Left(amount) = Left(amount)
                   /\ S!LessDust(amount) = Left(amount)
                   /\ E!Kept(amount) = Left(amount)
    /\ \A bal, a : CP!IsAlive(bal, a) <=> IsAlive(bal, a)
BY DEF CP!Total, Total, CP!Left, Left, S!LessDust, E!Kept, CP!IsAlive, IsAlive

(* An account that lives owns the deposit at least.                        *)
LEMMA AliveKeeps ==
    ASSUME Routed, NEW a \in Account
    PROVE  /\ Total(cbal[a]) \in Nat
           /\ IsAlive(cbal, a) => Total(cbal[a]) >= ExistentialDeposit
           /\ Left(Total(cbal[a])) = Total(cbal[a])
<1>1. cbal[a].free \in Nat /\ cbal[a].reserved \in Nat /\ Reaped(cbal)
  BY ClientBalances
<1>2. Total(cbal[a]) \in Nat
  BY <1>1 DEF Total
<1>3. IsAlive(cbal, a) => Total(cbal[a]) >= ExistentialDeposit
  BY <1>1 DEF Reaped
<1> QED
  BY <1>2, <1>3, DepositAssumption DEF IsAlive, Left

(* Both parties can settle an open order in full: its fee is in the        *)
(* client's reserve, its penalty in the device's, and both accounts live.  *)
LEMMA OrderIsBacked ==
    ASSUME Apart, Accounted, NEW d \in Device, corders[d] # None
    PROVE  LET who == corders[d].client
           IN  /\ who \in Client /\ who \in Account /\ d \in Account /\ who # d
               /\ corders[d] \in Order /\ corders[d].fee \in Nat
               /\ cdevice[d] \in CP!DeviceProfile /\ cdevice[d].penalty \in Nat
               /\ corders[d].fee <= cbal[who].reserved
               /\ cbal[who].free >= ExistentialDeposit
               /\ cbal[d].reserved = cdevice[d].penalty
               /\ IsAlive(cbal, d)
<1> DEFINE who == corders[d].client
<1>1. /\ Routed /\ CP!Registered /\ corders[d] \in Order
      /\ cdevice[d] # None /\ cdevice[d] \in CP!DeviceProfile
  BY SameMessages DEF Accounted, Followed, Routed, CP!Registered, CP!TypeOK, CP!OrderHasDevice
<1>2. /\ who \in Client /\ who \in Account /\ d \in Account /\ who # d
      /\ corders[d].fee \in Nat /\ cdevice[d].penalty \in Nat
  BY <1>1, AccountsAssumption, AmountsAssumption DEF Order, CP!DeviceProfile, Apart
<1>3. who \in Client \ Device /\ d \in Device \ Client
  BY <1>2 DEF Apart
<1>4. CP!FeesCovered(who) /\ Solvent(who)
  BY <1>1, <1>3, FeesAreCovered DEF Accounted, FeesExact
<1>5. CP!FeeAt(who)[d] = corders[d].fee
  BY DEF CP!FeeAt
<1>6. corders[d].fee <= cbal[who].reserved /\ cbal[who].free >= ExistentialDeposit
  BY <1>4, <1>5 DEF CP!FeesCovered, Solvent, Backs
<1>7. cbal[d].reserved = cdevice[d].penalty
  BY <1>3 DEF Accounted, StakesExact, CP!Stake
<1>8. cbal[d].free \in Nat
  BY <1>1, <1>2, ClientBalances
<1>9. IsAlive(cbal, d)
  BY <1>1, <1>2, <1>3, <1>7, <1>8 DEF Accounted, StakesExact, IsAlive, Total
<1> QED
  BY <1>1, <1>2, <1>6, <1>7, <1>9

(* No device is registered or forgotten, and none changes its penalty.     *)
SamePenalties ==
    \A e \in Device : /\ cdevice'[e] = None <=> cdevice[e] = None
                      /\ cdevice[e] # None => cdevice'[e].penalty = cdevice[e].penalty

(* The order is closed: the device gets `paid` and gives up `forfeit`, its *)
(* client the reverse, and nobody else anything.                           *)
Settles(d, paid, forfeit) ==
    /\ corders[d] # None /\ corders' = [corders EXCEPT ![d] = None]
    /\ Total(cbal'[d]) = Left(Total(cbal[d]) + paid - forfeit)
    /\ Total(cbal'[corders[d].client]) = Total(cbal[corders[d].client]) + forfeit - paid
    /\ \A a \in Account \ {d, corders[d].client} : cbal'[a] = cbal[a]
    /\ SamePenalties
    /\ UNCHANGED cnow

(* What is forfeited when an order is settled now                          *)
Forfeited(d) == IF cnow >= corders[d].until THEN cdevice[d].penalty ELSE 0

LEMMA ClosingProfiles ==
    ASSUME Routed, NEW d \in Device, cdevice[d] # None, NEW state \in DeviceState,
           cdevice' = [CP!OnKilledAccount(cbal, cbal') EXCEPT
                            ![d] = [cdevice[d] EXCEPT !.state = state]]
    PROVE  SamePenalties
<1>1. cdevice' = [cdevice EXCEPT ![d] = [cdevice[d] EXCEPT !.state = state]]
  BY NoHook
<1>2. /\ cdevice[d] \in CP!DeviceProfile
      /\ cdevice \in [Device -> CP!DeviceProfile \cup {None}]
  BY DEF Routed, CP!Registered, CP!TypeOK
<1> DEFINE p == cdevice[d]
           q == [p EXCEPT !.state = state]
<1>3. q # None /\ q.penalty = p.penalty
  BY <1>2, ProfileSet
<1>4. cdevice'[d] = q /\ \A e \in Device \ {d} : cdevice'[e] = cdevice[e]
  BY <1>1, <1>2
<1> HIDE DEF q
<1> QED
  BY <1>3, <1>4 DEF SamePenalties

(* order_reject                                                            *)
LEMMA RejectSettles ==
    ASSUME Apart, Accounted, NEW d \in Device, NEW state \in DeviceState, corders[d] # None,
           CP!RejectOrder(corders[d].client, d, state), cnow' = cnow
    PROVE  Settles(d, 0, Forfeited(d))
<1> DEFINE who == corders[d].client
           fee == corders[d].fee
           penalty == cdevice[d].penalty
           released == CP!Unreserve(cbal, who, fee)
<1>1. /\ Routed /\ CP!Registered /\ cbal \in CP!Ledger /\ CP!Reaped(cbal)
  BY DEF Accounted, Followed, Routed, CP!Registered, CP!TypeOK
<1>2. /\ who \in Account /\ d \in Account /\ who # d
      /\ fee \in Nat /\ penalty \in Nat
      /\ fee <= cbal[who].reserved /\ cbal[who].free >= ExistentialDeposit
      /\ cbal[d].reserved = penalty /\ cdevice[d] \in CP!DeviceProfile
  BY OrderIsBacked
<1>a. cdevice[d] # None
  BY <1>1 DEF CP!Registered, CP!OrderHasDevice
<1>3. /\ released \in CP!Ledger /\ CP!Reaped(released)
      /\ \A a \in Account \ {who} : released[a] = cbal[a]
      /\ released[who].free >= cbal[who].free
      /\ \A a \in Account : CP!Total(released[a]) = CP!Total(cbal[a])
  <2> HIDE DEF who, fee, penalty
  <2>1. /\ released \in CP!Ledger /\ CP!Reaped(released)
        /\ \A a \in Account \ {who} : released[a] = cbal[a]
        /\ \A a \in Account : CP!Total(released[a]) = CP!Total(cbal[a])
    BY <1>1, <1>2, ClientAssumptions, DepositAssumption, AccountsAssumption, ParaIdAssumption,
       AmountsAssumption, MomentAssumption, OutboxAssumption,
       CP!UnreserveEffect
  <2>2. released[who].free >= cbal[who].free
    BY <1>1, <1>2, ClientAssumptions, DepositAssumption, AccountsAssumption, ParaIdAssumption,
       AmountsAssumption, MomentAssumption, OutboxAssumption,
       CP!FeeReleases
  <2> QED
    BY <2>1, <2>2
<1>4. released[d].reserved = penalty /\ released[who].free >= ExistentialDeposit
  <2>1. released[who].free \in Nat /\ cbal[who].free \in Nat
    BY <1>1, <1>2, <1>3 DEF CP!Ledger, CP!Balance
  <2> QED
    BY <1>2, <1>3, <2>1, DepositAssumption
<1> HIDE DEF released
<1>5. LET new == CP!Repatriate(released, d, who, penalty)
          back == CP!Unreserve(released, d, penalty)
      IN  /\ ~CP!RepatriateFails(released, d, who, penalty)
          /\ \A a \in Account \ {who, d} : new[a] = released[a]
          /\ CP!Total(new[d]) = CP!Left(CP!Total(released[d]) - penalty)
          /\ CP!Total(new[who]) = CP!Total(released[who]) + penalty
          /\ \A a \in Account : CP!Total(back[a]) = CP!Total(released[a])
          /\ \A a \in Account \ {d} : back[a] = released[a]
  BY <1>2, <1>3, <1>4, ClientAssumptions, DepositAssumption, AccountsAssumption, ParaIdAssumption,
     AmountsAssumption, MomentAssumption, OutboxAssumption,
     CP!PenaltyTotals
<1>6. /\ corders' = [corders EXCEPT ![d] = None]
      /\ cdevice' = [CP!OnKilledAccount(cbal, cbal') EXCEPT
                        ![d] = [cdevice[d] EXCEPT !.state = state]]
      /\ cbal' = IF CP!IsLate(corders[d])
                 THEN CP!Repatriate(released, d, who, penalty)
                 ELSE CP!Unreserve(released, d, penalty)
  BY <1>5 DEF CP!RejectOrder, CP!RemoveOrder, released
<1>7. SamePenalties
  BY <1>1, <1>a, <1>6, ClosingProfiles
<1>8. \A a \in Account \ {d, who} : cbal'[a] = cbal[a]
  BY <1>3, <1>5, <1>6
<1>9. /\ \A a \in Account : Total(cbal[a]) \in Nat /\ Left(Total(cbal[a])) = Total(cbal[a])
  BY <1>1, AliveKeeps
<1>10. CASE cnow >= corders[d].until
  <2>1. /\ Forfeited(d) = penalty
        /\ cbal' = CP!Repatriate(released, d, who, penalty)
    BY <1>6, <1>10 DEF Forfeited, CP!IsLate
  <2> HIDE DEF who, penalty
  <2>2. /\ Total(cbal'[d]) = Left(Total(cbal[d]) - penalty)
        /\ Total(cbal'[who]) = Total(cbal[who]) + penalty
    BY <1>2, <1>3, <1>5, <2>1, SameMoney
  <2>3. /\ Total(cbal[d]) + 0 - penalty = Total(cbal[d]) - penalty
        /\ Total(cbal[who]) + penalty - 0 = Total(cbal[who]) + penalty
    BY <1>2, <1>9
  <2>4. /\ Total(cbal'[d]) = Left(Total(cbal[d]) + 0 - Forfeited(d))
        /\ Total(cbal'[who]) = Total(cbal[who]) + Forfeited(d) - 0
    BY <2>1, <2>2, <2>3
  <2> QED
    BY <1>6, <1>7, <1>8, <2>4 DEF Settles, who
<1>11. CASE ~(cnow >= corders[d].until)
  <2>1. /\ Forfeited(d) = 0
        /\ cbal' = CP!Unreserve(released, d, penalty)
    BY <1>6, <1>11 DEF Forfeited, CP!IsLate
  <2> HIDE DEF who, penalty
  <2>2. Total(cbal'[d]) = Total(cbal[d]) /\ Total(cbal'[who]) = Total(cbal[who])
    BY <1>2, <1>3, <1>5, <2>1, SameMoney
  <2>3. /\ Total(cbal[d]) + 0 - 0 = Total(cbal[d])
        /\ Total(cbal[who]) + 0 - 0 = Total(cbal[who])
    BY <1>2, <1>9
  <2>4. /\ Total(cbal'[d]) = Left(Total(cbal[d]) + 0 - Forfeited(d))
        /\ Total(cbal'[who]) = Total(cbal[who]) + Forfeited(d) - 0
    BY <1>2, <1>9, <2>1, <2>2, <2>3
  <2> QED
    BY <1>6, <1>7, <1>8, <2>4 DEF Settles, who
<1> QED
  BY <1>10, <1>11

(* on_done                                                                 *)
LEMMA FinishSettles ==
    ASSUME Apart, Accounted, NEW d \in Device, NEW state \in DeviceState, corders[d] # None,
           CP!FinishOrder(corders[d].client, d, state), cnow' = cnow
    PROVE  Settles(d, corders[d].fee, Forfeited(d))
<1> DEFINE who == corders[d].client
           fee == corders[d].fee
           penalty == cdevice[d].penalty
           paid == CP!Repatriate(cbal, who, d, fee)
<1>1. /\ Routed /\ CP!Registered /\ cbal \in CP!Ledger /\ CP!Reaped(cbal)
  BY DEF Accounted, Followed, Routed, CP!Registered, CP!TypeOK
<1>2. /\ who \in Account /\ d \in Account /\ who # d
      /\ fee \in Nat /\ penalty \in Nat
      /\ fee <= cbal[who].reserved /\ cbal[who].free >= ExistentialDeposit
      /\ cbal[d].reserved = penalty /\ cdevice[d] \in CP!DeviceProfile
      /\ CP!IsAlive(cbal, d)
  BY OrderIsBacked, SameMoney
<1>a. cdevice[d] # None
  BY <1>1 DEF CP!Registered, CP!OrderHasDevice
<1>3. /\ paid \in CP!Ledger /\ CP!Reaped(paid)
      /\ \A a \in Account \ {who, d} : paid[a] = cbal[a]
      /\ CP!Total(paid[d]) = CP!Total(cbal[d]) + fee
      /\ paid[d].reserved = penalty
      /\ CP!Total(paid[who]) = CP!Total(cbal[who]) - fee
      /\ paid[who].free >= ExistentialDeposit
  BY <1>1, <1>2, ClientAssumptions, DepositAssumption, AccountsAssumption, ParaIdAssumption,
     AmountsAssumption, MomentAssumption, OutboxAssumption,
     CP!FeeTotals
<1> HIDE DEF paid
<1>5. LET new == CP!Repatriate(paid, d, who, penalty)
          back == CP!Unreserve(paid, d, penalty)
      IN  /\ ~CP!RepatriateFails(paid, d, who, penalty)
          /\ \A a \in Account \ {who, d} : new[a] = paid[a]
          /\ CP!Total(new[d]) = CP!Left(CP!Total(paid[d]) - penalty)
          /\ CP!Total(new[who]) = CP!Total(paid[who]) + penalty
          /\ \A a \in Account : CP!Total(back[a]) = CP!Total(paid[a])
          /\ \A a \in Account \ {d} : back[a] = paid[a]
  BY <1>2, <1>3, ClientAssumptions, DepositAssumption, AccountsAssumption, ParaIdAssumption,
     AmountsAssumption, MomentAssumption, OutboxAssumption,
     CP!PenaltyTotals
<1>6. /\ corders' = [corders EXCEPT ![d] = None]
      /\ cdevice' = [CP!OnKilledAccount(cbal, cbal') EXCEPT
                        ![d] = [cdevice[d] EXCEPT !.state = state]]
      /\ cbal' = IF CP!IsLate(corders[d])
                 THEN CP!Repatriate(paid, d, who, penalty)
                 ELSE CP!Unreserve(paid, d, penalty)
  BY <1>5 DEF CP!FinishOrder, CP!RemoveOrder, paid
<1>7. SamePenalties
  BY <1>1, <1>a, <1>6, ClosingProfiles
<1>8. \A a \in Account \ {d, who} : cbal'[a] = cbal[a]
  BY <1>3, <1>5, <1>6
<1>9. /\ \A a \in Account : Total(cbal[a]) \in Nat
      /\ Total(cbal[d]) >= ExistentialDeposit
  BY <1>1, <1>2, AliveKeeps, SameMoney
<1>10. CASE cnow >= corders[d].until
  <2>1. /\ Forfeited(d) = penalty
        /\ cbal' = CP!Repatriate(paid, d, who, penalty)
    BY <1>6, <1>10 DEF Forfeited, CP!IsLate
  <2> HIDE DEF who, penalty, fee
  <2>a. /\ CP!Total(cbal'[d]) = CP!Left(CP!Total(cbal[d]) + fee - penalty)
        /\ CP!Total(cbal'[who]) = CP!Total(cbal[who]) - fee + penalty
    <3>1. /\ CP!Total(cbal'[d]) = CP!Left(CP!Total(paid[d]) - penalty)
          /\ CP!Total(cbal'[who]) = CP!Total(paid[who]) + penalty
      BY <1>5, <2>1
    <3>2. /\ CP!Total(paid[d]) = CP!Total(cbal[d]) + fee
          /\ CP!Total(paid[who]) = CP!Total(cbal[who]) - fee
      BY <1>3
    <3>3. /\ CP!Total(cbal[d]) \in Nat
          /\ \A t \in Nat : (t + fee) - penalty = t + fee - penalty
      BY <1>2, <1>9, SameMoney
    <3> QED
      BY <3>1, <3>2, <3>3
  <2>2. /\ Total(cbal'[d]) = Left(Total(cbal[d]) + fee - penalty)
        /\ Total(cbal'[who]) = Total(cbal[who]) - fee + penalty
    BY <2>a, SameMoney
  <2>3. Total(cbal[who]) - fee + penalty = Total(cbal[who]) + penalty - fee
    BY <1>2, <1>9
  <2>4. /\ Total(cbal'[d]) = Left(Total(cbal[d]) + fee - Forfeited(d))
        /\ Total(cbal'[who]) = Total(cbal[who]) + Forfeited(d) - fee
    BY <2>1, <2>2, <2>3
  <2> QED
    BY <1>6, <1>7, <1>8, <2>4 DEF Settles, who, fee
<1>11. CASE ~(cnow >= corders[d].until)
  <2>1. /\ Forfeited(d) = 0
        /\ cbal' = CP!Unreserve(paid, d, penalty)
    BY <1>6, <1>11 DEF Forfeited, CP!IsLate
  <2> HIDE DEF who, penalty, fee
  <2>2. Total(cbal'[d]) = Total(cbal[d]) + fee /\ Total(cbal'[who]) = Total(cbal[who]) - fee
    BY <1>2, <1>3, <1>5, <2>1, SameMoney
  <2>3. /\ Left(Total(cbal[d]) + fee - 0) = Total(cbal[d]) + fee
        /\ Total(cbal[who]) + 0 - fee = Total(cbal[who]) - fee
    BY <1>2, <1>9, DepositAssumption DEF Left
  <2>4. /\ Total(cbal'[d]) = Left(Total(cbal[d]) + fee - Forfeited(d))
        /\ Total(cbal'[who]) = Total(cbal[who]) + Forfeited(d) - fee
    BY <2>1, <2>2, <2>3
  <2> QED
    BY <1>6, <1>7, <1>8, <2>4 DEF Settles, who, fee
<1> QED
  BY <1>10, <1>11

-------------------------------------------------------------------------------
(* The money on the client chain, step by step                             *)

(* An order is opened: nothing changes hands,                              *)
Opens(d) ==
    /\ corders[d] = None /\ corders'[d] \in Order /\ cnow < corders'[d].until
    /\ corders' = [corders EXCEPT ![d] = corders'[d]]
    /\ \A a \in Account : Total(cbal'[a]) = Total(cbal[a])
    /\ SamePenalties
    /\ UNCHANGED cnow

(* or neither orders nor balances change, and only a device without an     *)
(* order is registered, by an account that lives.                          *)
Stays ==
    /\ UNCHANGED <<cbal, corders>>
    /\ cnow' \in {cnow, cnow + 1}
    /\ \A e \in Device : cdevice'[e] = cdevice[e] \/ (corders[e] = None /\ IsAlive(cbal, e))

MoneyEffect ==
    \/ Stays
    \/ \E d \in Device : \/ Opens(d)
                         \/ Settles(d, 0, Forfeited(d))
                         \/ Settles(d, corders[d].fee, Forfeited(d))

LEMMA PlacingEffect ==
    ASSUME Apart, Routed, NEW who \in Client, NEW base \in OrderBase, ClientOrders(who, base)
    PROVE  Opens(base.device) /\ base.device \in Device
<1> DEFINE d == base.device
           penalty == cdevice[d].penalty
           backed == CP!Reserve(cbal, d, penalty)
<1>1. /\ CP!TypeOK /\ base \in CP!OrderBase /\ CP!PlaceOrder(who, base)
  BY ClientActions, SameMessages DEF ClientOrders, Routed, CP!Registered
<1>2. /\ d \in Device /\ d \in Account /\ who \in Account
      /\ base.fee \in Nat /\ penalty \in Nat
      /\ corders[d] = None
      /\ cdevice[d] \in CP!DeviceProfile
      /\ backed[d].reserved = cbal[d].reserved + penalty
      /\ backed[d].free = cbal[d].free - penalty
      /\ \A a \in Account \ {d} : backed[a] = cbal[a]
      /\ \/ /\ \A a \in Account \ {who} : cbal'[a] = backed[a]
            /\ cbal'[who].reserved = backed[who].reserved + base.fee
            /\ cbal'[who].free = backed[who].free - base.fee
            /\ corders'[d] = CP!ToOrder(base, who)
            /\ corders'[d] \in CP!Order
            /\ cdevice'[d] # None
            /\ cdevice'[d].penalty = penalty
            /\ \A e \in Device \ {d} : cdevice'[e] = cdevice[e] /\ corders'[e] = corders[e]
         \/ who = d
  BY <1>1, ClientAssumptions, DepositAssumption, AccountsAssumption, ParaIdAssumption,
     AmountsAssumption, MomentAssumption, OutboxAssumption, CP!PlaceEffect
<1>3. who # d
  BY <1>2 DEF Apart
<1>4. /\ cdevice[d] # None /\ cnow < base.until /\ cnow' = cnow
      /\ corders \in [Device -> CP!Order \cup {None}]
  BY <1>1 DEF CP!PlaceOrder, CP!TypeOK
<1>5. corders' \in [Device -> CP!Order \cup {None}]
  <2>1. corders' = [corders EXCEPT ![d] = CP!ToOrder(base, who)] \/ corders' = corders
    BY <1>1 DEF CP!PlaceOrder
  <2>2. CP!ToOrder(base, who) \in CP!Order
    BY ParaIdAssumption, SameMessages DEF CP!ToOrder, Order, OrderBase
  <2> QED
    BY <1>4, <2>1, <2>2
<1> HIDE DEF d, penalty, backed
<1>6. corders' = [corders EXCEPT ![d] = corders'[d]]
  BY <1>2, <1>3, <1>4, <1>5
<1>7. corders'[d] \in Order /\ corders'[d].until = base.until
  BY <1>2, <1>3, SameMessages DEF CP!ToOrder
<1>8. SamePenalties
  BY <1>2, <1>3, <1>4 DEF SamePenalties, penalty
<1>9. ASSUME NEW a \in Account PROVE Total(cbal'[a]) = Total(cbal[a])
  <2>1. cbal[a].free \in Nat /\ cbal[a].reserved \in Nat
    BY ClientBalances
  <2>2. CASE a = d
    BY <1>2, <1>3, <2>1, <2>2 DEF Total
  <2>3. CASE a = who
    BY <1>2, <1>3, <2>1, <2>3 DEF Total
  <2>4. CASE a # d /\ a # who
    BY <1>2, <1>3, <2>4
  <2> QED
    BY <2>2, <2>3, <2>4
<1> QED
  BY <1>2, <1>4, <1>6, <1>7, <1>8, <1>9 DEF Opens, d

(* A completion that is read finds everything it needs to settle.          *)
LEMMA DoneEffect ==
    ASSUME Apart, Accounted, ClientHandles, CP!OnDone, corders[Head(cbatch).device] # None
    PROVE  LET d == Head(cbatch).device
           IN  d \in Device /\ Settles(d, corders[d].fee, Forfeited(d))
<1> DEFINE d == Head(cbatch).device
           who == Head(cbatch).client
           state == CP!Switch(Head(cbatch).onoff)
<1>1. /\ cbatch # <<>> /\ cbatch' = Tail(cbatch) /\ toClient' = toClient
      /\ Head(cbatch).type = "OrderDone" /\ cnow' = cnow
  BY DEF CP!OnDone, ClientHandles, svars
<1>2. d \in Device /\ state \in DeviceState
  <2>1. Head(cbatch) \in Message
    BY <1>1 DEF Accounted, Followed, Routed, CP!Registered, CP!TypeOK
  <2>2. d \in Device
    BY <1>1, <2>1 DEF Message, NewOrders, Answers, Garbage
  <2> QED
    BY <2>2 DEF CP!Switch, DeviceState
<1>3. who = corders[d].client
  <2>1. IsClosing(Head(cbatch), d)
    BY <1>1 DEF IsClosing
  <2> QED
    BY <1>1, <1>2, <2>1, AnswerIsFaithful DEF Accounted
<1>4. CP!IsAlive(cbal, d) /\ cdevice[d] # None
  <2>1. IsAlive(cbal, d)
    BY <1>2, OrderIsBacked
  <2>2. cdevice[d] # None
    BY <1>2 DEF Accounted, Followed, Routed, CP!Registered, CP!OrderHasDevice
  <2> QED
    BY <2>1, <2>2, SameMoney
<1>5. ~CP!RepatriateFails(cbal, who, d, corders[d].fee)
  BY <1>4 DEF CP!RepatriateFails
<1>6. CP!FinishOrder(who, d, state)
  BY <1>4, <1>5 DEF CP!OnDone
<1> HIDE DEF d, who, state
<1>7. Settles(d, corders[d].fee, Forfeited(d))
  BY <1>1, <1>2, <1>3, <1>6, FinishSettles DEF d
<1> QED
  BY <1>2, <1>7 DEF d

LEMMA RejectEffect ==
    ASSUME Apart, Accounted, ClientHandles, CP!OnReject
    PROVE  MoneyEffect
<1> DEFINE d == Head(cbatch).device
           who == Head(cbatch).client
           state == CP!Switch(Head(cbatch).onoff)
<1>1. /\ cbatch # <<>> /\ cbatch' = Tail(cbatch) /\ toClient' = toClient
      /\ Head(cbatch).type = "OrderReject" /\ cnow' = cnow
  BY DEF CP!OnReject, ClientHandles, svars
<1>2. d \in Device /\ state \in DeviceState
  <2>1. Head(cbatch) \in Message
    BY <1>1 DEF Accounted, Followed, Routed, CP!Registered, CP!TypeOK
  <2>2. d \in Device
    BY <1>1, <2>1 DEF Message, NewOrders, Answers, Garbage
  <2> QED
    BY <2>2 DEF CP!Switch, DeviceState
<1>3. corders[d] # None => who = corders[d].client
  <2>1. IsClosing(Head(cbatch), d)
    BY <1>1 DEF IsClosing
  <2> QED
    BY <1>1, <1>2, <2>1, AnswerIsFaithful DEF Accounted
<1>4. \/ corders[d] # None /\ CP!RejectOrder(who, d, state)
      \/ UNCHANGED <<cbal, cdevice, corders>>
  BY DEF CP!OnReject
<1> HIDE DEF d, who, state
<1>5. CASE UNCHANGED <<cbal, cdevice, corders>>
  BY <1>1, <1>5 DEF Stays, MoneyEffect
<1>6. CASE corders[d] # None /\ CP!RejectOrder(who, d, state)
  <2>1. Settles(d, 0, Forfeited(d))
    BY <1>1, <1>2, <1>3, <1>6, RejectSettles
  <2> QED
    BY <1>2, <2>1 DEF MoneyEffect
<1> QED
  BY <1>4, <1>5, <1>6

LEMMA ClientChainEffect ==
    ASSUME Apart, Accounted, ClientChain
    PROVE  MoneyEffect
<1>1. Routed
  BY DEF Accounted, Followed
<1>2. ASSUME NEW who \in Client, NEW base \in OrderBase, ClientOrders(who, base) PROVE MoneyEffect
  BY <1>1, <1>2, PlacingEffect DEF MoneyEffect
<1>3. ASSUME NEW who \in Client, NEW d \in Device, ClientCancels(who, d) PROVE MoneyEffect
  <2>1. /\ corders[d] # None /\ corders[d].client = who /\ cnow' = cnow
        /\ cdevice[d] # None /\ CP!RejectOrder(who, d, cdevice[d].state)
    BY <1>3, ClientActions DEF ClientCancels, CP!Cancel
  <2>2. cdevice[d].state \in DeviceState
    BY <1>1, <2>1, ClientRecords
  <2>3. Settles(d, 0, Forfeited(d))
    BY <2>1, <2>2, RejectSettles
  <2> QED
    BY <2>3 DEF MoneyEffect
<1>4. ASSUME NEW d \in Device, NEW penalty \in Penalties, NEW wcd \in Wcds, NEW onoff \in BOOLEAN,
             DeviceRegisters(d, penalty, wcd, onoff)
      PROVE  MoneyEffect
  <2>1. CP!Register(d, ServicePara, penalty, wcd, onoff)
    BY <1>4, ClientActions DEF DeviceRegisters
  <2>2. /\ corders[d] = None /\ UNCHANGED <<cnow, cbal, corders>> /\ IsAlive(cbal, d)
        /\ \A e \in Device : e # d => cdevice'[e] = cdevice[e]
    BY <1>1, <2>1, SameMoney DEF CP!Register, CP!Signed, Routed, CP!Registered, CP!TypeOK
  <2> QED
    BY <2>2 DEF Stays, MoneyEffect
<1>5. ASSUME ClientTest \/ ClientTick \/ \E n \in 1 .. MaxBatch : DeliverAnswers(n)
      PROVE  MoneyEffect
  <2>1. UNCHANGED <<cbal, cdevice, corders>> /\ cnow' \in {cnow, cnow + 1}
    BY <1>5 DEF ClientTest, ClientTick, DeliverAnswers, C!Test, C!Tick, C!BeginBatch
  <2> QED
    BY <2>1 DEF Stays, MoneyEffect
<1>6. ASSUME ClientHandles PROVE MoneyEffect
  <2>1. CP!ReadOnly \/ CP!AbortBatch \/ CP!OnReject \/ CP!OnDone
    BY <1>6, ClientActions DEF ClientHandles, C!Handle
  <2>2. CASE CP!ReadOnly \/ CP!AbortBatch
    BY <2>2 DEF CP!ReadOnly, CP!AbortBatch, Stays, MoneyEffect
  <2>3. CASE CP!OnDone /\ corders[Head(cbatch).device] = None
    BY <2>3 DEF CP!OnDone, Stays, MoneyEffect
  <2>4. CASE CP!OnDone /\ corders[Head(cbatch).device] # None
    BY <1>6, <2>4, DoneEffect DEF MoneyEffect
  <2> QED
    BY <1>6, <2>1, <2>2, <2>3, <2>4, RejectEffect
<1> QED
  BY <1>2, <1>3, <1>4, <1>5, <1>6 DEF ClientChain

LEMMA StakesExactInit == Init => StakesExact
<1> SUFFICES ASSUME Init, NEW d \in Device \ Client
             PROVE  cbal[d].reserved = CP!Stake(d) /\ cdevice[d] = None
  BY DEF StakesExact
<1>1. /\ cbal[d].reserved = 0 /\ corders[d] = None /\ cdevice[d] = None
  BY AccountsAssumption DEF Init, C!Init
<1> QED
  BY <1>1 DEF CP!Stake

LEMMA LivesOn ==
    ASSUME Apart, Accounted, MoneyEffect, NEW e \in Device,
           cdevice'[e] # None, cdevice'[e].penalty = 0
    PROVE  IsAlive(cbal', e)
<1>1. /\ e \in Account /\ e \in Device \ Client /\ Routed
      /\ cdevice[e] # None /\ cdevice[e].penalty = 0 => IsAlive(cbal, e)
  BY AccountsAssumption DEF Apart, Accounted, Followed, StakesExact
<1>2. Total(cbal[e]) \in Nat /\ (IsAlive(cbal, e) => Total(cbal[e]) >= ExistentialDeposit)
  BY <1>1, AliveKeeps
<1>3. CASE Stays
  BY <1>1, <1>3 DEF Stays, IsAlive
<1>4. ASSUME NEW d \in Device, Opens(d) PROVE IsAlive(cbal', e)
  BY <1>1, <1>4 DEF Opens, SamePenalties, IsAlive
<1>5. ASSUME NEW d \in Device, NEW paid \in Nat, Settles(d, paid, Forfeited(d))
      PROVE  IsAlive(cbal', e)
  <2>1. IsAlive(cbal, e) /\ cdevice[e].penalty = 0
    BY <1>1, <1>5 DEF Settles, SamePenalties
  <2>2. CASE e = d
    <3>1. Total(cbal'[e]) = Left(Total(cbal[e]) + paid - 0)
      BY <1>5, <2>1, <2>2 DEF Settles, Forfeited
    <3>2. \A t \in Nat : t >= ExistentialDeposit => Left(t + paid - 0) > 0
      BY DepositAssumption DEF Left
    <3> QED
      BY <1>2, <2>1, <3>1, <3>2 DEF IsAlive
  <2>3. CASE e # d
    <3>1. e # corders[d].client
      BY <1>5, OrderIsBacked DEF Settles, Apart
    <3>2. cbal'[e] = cbal[e]
      BY <1>1, <1>5, <2>3, <3>1 DEF Settles
    <3> QED
      BY <2>1, <3>2 DEF IsAlive
  <2> QED
    BY <2>2, <2>3
<1>6. ASSUME NEW d \in Device, Settles(d, corders[d].fee, Forfeited(d)) PROVE IsAlive(cbal', e)
  <2>1. corders[d].fee \in Nat
    BY <1>6, OrderIsBacked DEF Settles
  <2> QED
    BY <1>5, <1>6, <2>1
<1> QED
  BY <1>3, <1>4, <1>5, <1>6 DEF MoneyEffect

LEMMA StakesExactStep ==
    ASSUME Apart, CarefulClients, Accounted, Routed', [Next]_vars
    PROVE  StakesExact'
<1> SUFFICES ASSUME NEW e \in Device \ Client
             PROVE  /\ cbal'[e].reserved = CP!Stake(e)'
                    /\ cdevice'[e] # None /\ cdevice'[e].penalty = 0 => IsAlive(cbal', e)
  BY DEF StakesExact
<1>1. Followed /\ Routed /\ cbal[e].reserved = CP!Stake(e)
  BY DEF Accounted, Followed, StakesExact
<1>2. CASE ServiceChain \/ UNCHANGED vars
  <2>1. UNCHANGED <<cbal, cdevice, corders>>
    BY <1>2 DEF ServiceChain, ServiceDispatch, ServiceHandles, ServiceTick, DeliverOrders,
                vars, cvars
  <2>2. CP!Stake(e)' = CP!Stake(e)
    BY <2>1 DEF CP!Stake
  <2>3. cdevice[e] # None /\ cdevice[e].penalty = 0 => IsAlive(cbal, e)
    BY DEF Accounted, StakesExact
  <2> QED
    BY <1>1, <2>1, <2>2, <2>3 DEF IsAlive
<1>3. CASE ClientChain
  <2>1. ClientMoves /\ MoneyEffect
    BY <1>1, <1>3, ClientChainMoves, ClientChainEffect
  <2>2. cbal[e].reserved \in Nat /\ cbal'[e].reserved \in Nat
    BY <1>1, AccountsAssumption, ClientBalances
       DEF Routed, CP!Registered, CP!TypeOK, CP!Ledger, CP!Balance
  <2>3. CP!StakeCovered(e)
    BY <1>1, <2>2 DEF CP!StakeCovered, CP!DustFree
  <2>4. cbal'[e].reserved + CP!Stake(e) = cbal[e].reserved + CP!Stake(e)'
    BY <2>1, <2>3 DEF ClientMoves, CP!StakeMoves
  <2>5. CP!Stake(e)' \in Nat
    BY AmountsAssumption
       DEF Routed, CP!Registered, CP!TypeOK, CP!OrderHasDevice, CP!DeviceProfile, CP!Stake
  <2>6. cbal'[e].reserved = CP!Stake(e)'
    BY <1>1, <2>2, <2>4, <2>5
  <2> QED
    BY <2>1, <2>6, LivesOn
<1> QED
  BY <1>2, <1>3 DEF Next

LEMMA AccountedInit == Init => Accounted
BY FollowedInit, FeesExactInit, StakesExactInit DEF Accounted

LEMMA AccountedStep ==
    ASSUME Apart, CarefulClients, QuietRebind, Accounted, [Next]_vars
    PROVE  Accounted'
<1>1. Followed' /\ Routed'
  BY FollowedStep DEF Accounted, Followed
<1> QED
  BY <1>1, FeesExactStep, StakesExactStep DEF Accounted

(* Only on_done reads an OrderDone.                                        *)
LEMMA DoneIsRead ==
    ASSUME Routed, [Next]_vars, cbatch # <<>>, cbatch' = Tail(cbatch),
           Head(cbatch).type = "OrderDone"
    PROVE  ClientHandles /\ CP!OnDone
<1>1. cbatch' # cbatch
  <2>1. cbatch \in Seq(Message)
    BY DEF Routed, CP!Registered, CP!TypeOK
  <2>2. Len(Tail(cbatch)) = Len(cbatch) - 1 /\ Len(cbatch) \in Nat
    BY <2>1
  <2>3. Len(Tail(cbatch)) # Len(cbatch)
    <3>1. \A n \in Nat : n - 1 # n
      OBVIOUS
    <3> QED
      BY <2>2, <3>1
  <2> QED
    BY <2>3
<1>2. ClientChain
  BY <1>1 DEF Next, ServiceChain, ServiceDispatch, ServiceHandles, ServiceTick, DeliverOrders,
              vars, cvars
<1>3. ClientHandles
  BY <1>2, ClientActions
     DEF ClientChain, ClientOrders, ClientCancels, DeviceRegisters, ClientTest, ClientTick,
         DeliverAnswers, CP!PlaceOrder, CP!Cancel, CP!Register, CP!Test, CP!Tick,
         CP!BeginBatch, CP!Signed
<1>4. CP!ReadOnly \/ CP!AbortBatch \/ CP!OnReject \/ CP!OnDone
  BY <1>3, ClientActions DEF ClientHandles, C!Handle
<1> QED
  BY <1>3, <1>4 DEF CP!ReadOnly, CP!AbortBatch, CP!OnReject

(* An OrderDone that finds its order open always closes it, with the whole *)
(* fee to the device and, overdue, the whole penalty to the client: none   *)
(* of the errors on_done can stop at is reachable, because every fee and   *)
(* every penalty is still in reserve and neither account can have been     *)
(* reaped.                                                                 *)
THEOREM DonePaysHolds ==
    ASSUME Apart, CarefulClients, QuietRebind
    PROVE  Spec => DonePays
<1>1. ASSUME Accounted, [Next]_vars PROVE DonePaysStep
  <2> SUFFICES ASSUME NEW d \in Device \ Client,
                      cbatch # <<>>, IsClosing(Head(cbatch), d),
                      Head(cbatch).type = "OrderDone", cbatch' = Tail(cbatch),
                      corders[d] # None
               PROVE  /\ corders'[d] = None
                      /\ Total(cbal'[d]) =
                            S!LessDust(Total(cbal[d]) + corders[d].fee - Forfeited(d))
                      /\ Total(cbal'[corders[d].client]) =
                            Total(cbal[corders[d].client]) + Forfeited(d) - corders[d].fee
    BY DEF DonePaysStep, Forfeited
  <2>1. Routed /\ Head(cbatch).device = d
    BY <1>1 DEF Accounted, Followed, IsClosing
  <2>2. ClientHandles /\ CP!OnDone
    BY <1>1, <2>1, DoneIsRead
  <2>3. Settles(d, corders[d].fee, Forfeited(d))
    BY <1>1, <2>1, <2>2, DoneEffect
  <2>4. corders'[d] = None
    BY <2>1, <2>3 DEF Settles, Routed, CP!Registered, CP!TypeOK
  <2> QED
    BY <2>3, <2>4, SameMoney DEF Settles
<1>2. Accounted /\ [Next]_vars => Accounted' /\ [DonePaysStep]_vars
  BY <1>1, AccountedStep
<1> QED
  BY <1>2, AccountedInit, PTL DEF Spec, DonePays

-------------------------------------------------------------------------------
(* The client chain keeps its orders as Escrow promises                    *)

NoDustFees == \A fee \in Fees : DustFree(fee)

(* The client chain as Escrow sees it                                      *)
Owned == [a \in Account |-> Total(cbal[a])]
Contracts ==
    [d \in Device |->
        IF corders[d] = None THEN None
        ELSE [client |-> corders[d].client, fee |-> corders[d].fee,
              until |-> corders[d].until, penalty |-> cdevice[d].penalty]]

LEMMA ContractTypes ==
    ASSUME NoDustFees, Routed, NEW d \in Device
    PROVE  /\ Contracts[d] = None <=> corders[d] = None
           /\ corders[d] # None =>
                /\ Contracts[d] \in E!Contract
                /\ Contracts[d].client = corders[d].client
                /\ Contracts[d].fee = corders[d].fee
                /\ Contracts[d].until = corders[d].until
                /\ Contracts[d].penalty = cdevice[d].penalty
<1>1. CASE corders[d] = None
  BY <1>1 DEF Contracts
<1>2. CASE corders[d] # None
  <2> DEFINE k == [client |-> corders[d].client, fee |-> corders[d].fee,
                   until |-> corders[d].until, penalty |-> cdevice[d].penalty]
  <2>1. corders[d] \in Order /\ cdevice[d] \in CP!DeviceProfile
    BY <1>2, SameMessages DEF Routed, CP!Registered, CP!TypeOK, CP!OrderHasDevice
  <2>2. /\ corders[d].client \in Client /\ corders[d].client \in Account
        /\ corders[d].fee \in Fees /\ corders[d].fee \in Nat
        /\ corders[d].until \in Nat /\ cdevice[d].penalty \in Nat
    <3>1. cdevice[d].penalty \in Nat
      BY <2>1, AmountsAssumption DEF CP!DeviceProfile
    <3>2. corders[d].until \in Nat
      BY <2>1, MomentAssumption DEF Order, Moment
    <3> QED
      BY <2>1, <3>1, <3>2, AccountsAssumption, AmountsAssumption DEF Order
  <2>3. corders[d].fee \in {0} \cup {fee \in Nat : fee >= ExistentialDeposit}
    BY <2>2 DEF NoDustFees, DustFree
  <2>4. Contracts[d] = k
    BY <1>2 DEF Contracts
  <2>5. k \in [client : Client, fee : Nat, until : Nat, penalty : Nat] /\ k \in E!Contract
    BY <2>2, <2>3 DEF E!Contract
  <2>6. k # None
    BY <2>5, RecordAssumption
  <2> QED
    BY <1>2, <2>4, <2>5, <2>6
<1> QED
  BY <1>1, <1>2

(* A step that settles one order                                           *)
LEMMA SettlingCloses ==
    ASSUME Apart, NoDustFees, Accounted, NEW d \in Device, NEW paid, NEW forfeit \in Nat,
           Settles(d, paid, forfeit), paid = 0 \/ paid = corders[d].fee
    PROVE  /\ E!Close(d, paid, forfeit)
           /\ Contracts[d] # None /\ Contracts'[d] = None
<1> DEFINE who == corders[d].client
<1>1. /\ corders[d] # None /\ corders' = [corders EXCEPT ![d] = None]
      /\ Total(cbal'[d]) = Left(Total(cbal[d]) + paid - forfeit)
      /\ Total(cbal'[who]) = Total(cbal[who]) + forfeit - paid
      /\ \A a \in Account \ {d, who} : cbal'[a] = cbal[a]
      /\ SamePenalties
      /\ cnow' = cnow
  BY DEF Settles
<1>2. /\ who \in Account /\ d \in Account /\ who # d
      /\ corders[d].fee \in Nat /\ corders[d].fee <= cbal[who].reserved
      /\ cbal[who].free >= ExistentialDeposit /\ Routed
  BY <1>1, OrderIsBacked DEF Accounted, Followed
<1>3. Contracts[d] # None /\ Contracts[d].client = who
  BY <1>1, <1>2, ContractTypes
<1>4. corders \in [Device -> Order \cup {None}]
  BY <1>2, SameMessages DEF Routed, CP!Registered, CP!TypeOK
<1>5. corders'[d] = None /\ \A e \in Device \ {d} : corders'[e] = corders[e]
  BY <1>1, <1>4
<1>6. \A e \in Device : corders[e] # None => cdevice'[e].penalty = cdevice[e].penalty
  BY <1>1, <1>2 DEF SamePenalties, Routed, CP!Registered, CP!OrderHasDevice
<1>7. Contracts' = [Contracts EXCEPT ![d] = None]
  BY <1>5, <1>6 DEF Contracts
<1>8. Total(cbal[who]) + forfeit - paid = E!Kept(Total(cbal[who]) + forfeit - paid)
  <2>1. cbal[who].free \in Nat /\ cbal[who].reserved \in Nat
    BY <1>2, ClientBalances
  <2>2. Total(cbal[who]) \in Nat /\ Total(cbal[who]) - paid >= ExistentialDeposit /\ paid \in Nat
    BY <1>2, <2>1, DepositAssumption DEF Total
  <2>3. ~(Total(cbal[who]) + forfeit - paid < ExistentialDeposit)
    BY <2>2, DepositAssumption
  <2> QED
    BY <2>3 DEF E!Kept
<1>9. /\ Owned[d] = Total(cbal[d]) /\ Owned[who] = Total(cbal[who])
      /\ Owned'[d] = E!Kept(Owned[d] + paid - forfeit)
      /\ Owned'[who] = E!Kept(Owned[who] + forfeit - paid)
      /\ \A a \in Account \ {d, who} : Owned'[a] = Owned[a]
  BY <1>1, <1>2, <1>8, SameMoney DEF Owned
<1> HIDE DEF who
<1>10. Owned' = [Owned EXCEPT ![who] = E!Kept(@ + forfeit - paid),
                              ![d] = E!Kept(@ + paid - forfeit)]
  <2>1. Owned = [a \in Account |-> Owned[a]] /\ Owned' = [a \in Account |-> Owned'[a]]
    BY DEF Owned
  <2> QED
    BY <1>2, <1>9, <2>1
<1>11. E!Close(d, paid, forfeit)
  BY <1>1, <1>3, <1>7, <1>10 DEF E!Close, Owned, Contracts
<1> QED
  BY <1>3, <1>5, <1>11 DEF Contracts

LEMMA EscrowStep ==
    ASSUME Apart, NoDustFees, Accounted, Routed', MoneyEffect
    PROVE  [E!Next]_(E!vars)
<1>1. Routed /\ corders \in [Device -> CP!Order \cup {None}]
  BY DEF Accounted, Followed, Routed, CP!Registered, CP!TypeOK
<1>2. CASE Stays
  <2>1. Owned' = Owned
    BY <1>2 DEF Stays, Owned
  <2>2. Contracts' = Contracts
    <3>1. \A d \in Device : corders[d] # None => cdevice'[d] = cdevice[d]
      BY <1>2 DEF Stays
    <3>2. corders' = corders
      BY <1>2 DEF Stays
    <3> QED
      BY <3>1, <3>2 DEF Contracts
  <2>3. cnow' = cnow \/ cnow' = cnow + 1
    BY <1>2 DEF Stays
  <2> QED
    BY <2>1, <2>2, <2>3 DEF E!Next, E!Advance, E!vars, Owned, Contracts
<1>3. ASSUME NEW d \in Device, Opens(d) PROVE E!Open(d)
  <2>1. /\ corders[d] = None /\ corders'[d] # None /\ cnow < corders'[d].until
        /\ SamePenalties /\ cnow' = cnow
        /\ \A e \in Device \ {d} : corders'[e] = corders[e]
    BY <1>1, <1>3, NoneAssumption DEF Opens
  <2>2. Owned' = Owned
    BY <1>3 DEF Opens, Owned
  <2>3. \A e \in Device : corders[e] # None => cdevice'[e].penalty = cdevice[e].penalty
    BY <1>1, <2>1 DEF SamePenalties, Routed, CP!Registered, CP!OrderHasDevice
  <2>4. \A e \in Device \ {d} : Contracts'[e] = Contracts[e]
    BY <2>1, <2>3 DEF Contracts
  <2> DEFINE k == [client |-> corders'[d].client, fee |-> corders'[d].fee,
                   until |-> corders'[d].until, penalty |-> cdevice'[d].penalty]
  <2>5. Contracts'[d] = k
    BY <2>1 DEF Contracts
  <2>6. k \in E!Contract /\ k # None /\ k.client # d
    <3>1. corders'[d] \in Order /\ cdevice'[d] \in CP!DeviceProfile
      <4>1. cdevice'[d] # None
        BY <2>1 DEF Routed, CP!Registered, CP!OrderHasDevice
      <4> QED
        BY <1>3, <4>1 DEF Opens, Routed, CP!Registered, CP!TypeOK
    <3>2. corders'[d].until \in Nat
      BY <3>1, MomentAssumption DEF Order, Moment
    <3>3. cdevice'[d].penalty \in Nat
      BY <3>1, AmountsAssumption DEF CP!DeviceProfile
    <3>4. corders'[d].client \in Client /\ corders'[d].fee \in Fees /\ corders'[d].fee \in Nat
      BY <3>1, AmountsAssumption DEF Order
    <3>5. corders'[d].fee \in {0} \cup {fee \in Nat : fee >= ExistentialDeposit}
      BY <3>4 DEF NoDustFees, DustFree
    <3>6. corders'[d].client \in Account /\ corders'[d].client # d
      BY <3>4, AccountsAssumption DEF Apart
    <3>7. k \in [client : Client, fee : Nat, until : Nat, penalty : Nat]
      BY <3>2, <3>3, <3>4
    <3> QED
      BY <3>2, <3>3, <3>5, <3>6, <3>7, RecordAssumption DEF E!Contract
  <2>7. k.until > cnow
    BY <2>1
  <2>8. Contracts[d] = None
    BY <2>1 DEF Contracts
  <2>9. Contracts' = [Contracts EXCEPT ![d] = Contracts'[d]]
    <3>1. /\ Contracts = [e \in Device |-> Contracts[e]]
          /\ Contracts' = [e \in Device |-> Contracts'[e]]
      BY DEF Contracts
    <3> QED
      BY <2>4, <3>1
  <2> HIDE DEF k
  <2>10. /\ Contracts[d] = None /\ Contracts'[d] # None /\ Contracts'[d] \in E!Contract
         /\ Contracts'[d].client # d /\ Contracts'[d].until > cnow
    BY <2>5, <2>6, <2>7, <2>8
  <2> QED
    BY <2>1, <2>2, <2>9, <2>10 DEF E!Open, Owned, Contracts
<1>4. ASSUME NEW d \in Device, Settles(d, 0, Forfeited(d)) PROVE E!Release(d) \/ E!Compensate(d)
  <2>1. /\ Forfeited(d) \in Nat /\ corders[d] # None
        /\ Contracts[d] # None /\ Contracts[d].until = corders[d].until
        /\ Contracts[d].penalty = cdevice[d].penalty
        /\ Contracts[d].client = corders[d].client
        /\ cdevice[d].penalty \in Nat
    <3>1. corders[d] # None
      BY <1>4 DEF Settles
    <3> QED
      BY <1>1, <3>1, OrderIsBacked, ContractTypes DEF Forfeited
  <2>a. PICK forfeit \in Nat : forfeit = Forfeited(d)
    BY <2>1
  <2>2. E!Close(d, 0, forfeit) /\ Contracts'[d] = None
    <3>1. Settles(d, 0, forfeit)
      BY <1>4, <2>a DEF Settles
    <3> QED
      BY <3>1, SettlingCloses
  <2>3. CASE cnow < corders[d].until
    <3>1. Forfeited(d) = 0
      <4>1. cnow \in Int /\ corders[d].until \in Int
        BY <1>1, <2>1, MomentAssumption, SameMessages
           DEF Routed, CP!Registered, CP!TypeOK, CP!Moment, CP!Order
      <4> QED
        BY <2>3, <4>1 DEF Forfeited
    <3>2. Contracts[d] # None /\ Contracts'[d] = None /\ cnow < Contracts[d].until
      BY <2>1, <2>2, <2>3
    <3>a. forfeit = 0
      BY <2>a, <3>1
    <3>3. E!Close(d, 0, 0)
      BY <2>2, <3>a DEF E!Close
    <3>4. E!Release(d)
      BY <3>2, <3>3 DEF E!Release, Contracts
    <3> QED
      BY <3>4
  <2>4. CASE ~(cnow < corders[d].until)
    <3>1. cnow >= corders[d].until /\ Forfeited(d) = cdevice[d].penalty
      <4>1. cnow \in Int /\ corders[d].until \in Int
        BY <1>1, <2>1, MomentAssumption, SameMessages
           DEF Routed, CP!Registered, CP!TypeOK, CP!Moment, CP!Order
      <4> QED
        BY <2>4, <4>1 DEF Forfeited
    <3>2. Owned[Contracts[d].client] > 0
      <4> DEFINE who == corders[d].client
      <4>1. who \in Account /\ cbal[who].free >= ExistentialDeposit
        BY <2>1, OrderIsBacked
      <4>2. cbal[who].free \in Nat /\ cbal[who].reserved \in Nat
        BY <1>1, <4>1, ClientBalances
      <4>3. Owned[who] = cbal[who].free + cbal[who].reserved
        BY <4>1 DEF Owned, Total
      <4> HIDE DEF who
      <4>4. Owned[who] > 0
        BY <4>1, <4>2, <4>3, DepositAssumption
      <4> QED
        BY <2>1, <4>4 DEF who
    <3>3. Forfeited(d) \in E!Forfeit(Contracts[d].penalty)
      BY <2>1, <3>1 DEF E!Forfeit
    <3>4. /\ Contracts[d] # None /\ Contracts'[d] = None /\ cnow >= Contracts[d].until
          /\ \E forfeited \in E!Forfeit(Contracts[d].penalty) : E!Close(d, 0, forfeited)
      BY <2>1, <2>2, <2>a, <3>1, <3>3
    <3>5. E!Compensate(d)
      BY <3>2, <3>4 DEF E!Compensate, Contracts, Owned
    <3> QED
      BY <3>5
  <2> QED
    BY <2>3, <2>4
<1>5. ASSUME NEW d \in Device, Settles(d, corders[d].fee, Forfeited(d)) PROVE E!Pay(d)
  <2>1. /\ Forfeited(d) \in Nat /\ corders[d] # None
        /\ Contracts[d] # None /\ Contracts[d].until = corders[d].until
        /\ Contracts[d].penalty = cdevice[d].penalty /\ Contracts[d].fee = corders[d].fee
        /\ Contracts[d].client = corders[d].client
        /\ cdevice[d].penalty \in Nat
    <3>1. corders[d] # None
      BY <1>5 DEF Settles
    <3> QED
      BY <1>1, <3>1, OrderIsBacked, ContractTypes DEF Forfeited
  <2>a. PICK forfeit \in Nat : forfeit = Forfeited(d)
    BY <2>1
  <2>b. PICK fee \in Nat : fee = corders[d].fee
    BY <2>1, OrderIsBacked
  <2>2. E!Close(d, fee, forfeit) /\ Contracts'[d] = None
    <3>1. Settles(d, fee, forfeit)
      BY <1>5, <2>a, <2>b DEF Settles
    <3> QED
      BY <2>b, <3>1, SettlingCloses
  <2>3. E!Kept(Owned[Contracts[d].client] - Contracts[d].fee) > 0
    <3> DEFINE who == corders[d].client
    <3>1. /\ who \in Account /\ cbal[who].free >= ExistentialDeposit
          /\ fee \in Nat /\ fee <= cbal[who].reserved
      BY <2>1, <2>b, OrderIsBacked
    <3>2. cbal[who].free \in Nat /\ cbal[who].reserved \in Nat
      BY <1>1, <3>1, ClientBalances
    <3>3. Owned[who] = cbal[who].free + cbal[who].reserved
      BY <3>1 DEF Owned, Total
    <3> HIDE DEF who
    <3>4. Owned[who] - fee >= ExistentialDeposit /\ Owned[who] - fee \in Nat
      BY <3>1, <3>2, <3>3, DepositAssumption
    <3>5. E!Kept(Owned[who] - fee) > 0
      BY <3>4, DepositAssumption DEF E!Kept
    <3> QED
      BY <2>1, <2>b, <3>5 DEF who
  <2>4. cnow >= corders[d].until => Forfeited(d) \in E!Forfeit(Contracts[d].penalty)
    BY <2>1 DEF E!Forfeit, Forfeited
  <2>5. ~(cnow >= corders[d].until) => Forfeited(d) = 0
    BY DEF Forfeited
  <2>6. IF cnow >= Contracts[d].until
                /\ E!Kept(Owned[Contracts[d].client] - Contracts[d].fee) > 0
        THEN \E forfeited \in E!Forfeit(Contracts[d].penalty) :
                E!Close(d, Contracts[d].fee, forfeited)
        ELSE E!Close(d, Contracts[d].fee, 0)
    <3>1. Contracts[d].fee = fee
      BY <2>1, <2>b
    <3>2. E!Close(d, Contracts[d].fee, forfeit)
      BY <2>2, <3>1 DEF E!Close
    <3>3. CASE cnow >= corders[d].until
      BY <2>1, <2>3, <2>4, <2>a, <3>2, <3>3
    <3>4. CASE ~(cnow >= corders[d].until)
      <4>1. forfeit = 0
        BY <2>5, <2>a, <3>4
      <4>2. E!Close(d, Contracts[d].fee, 0)
        BY <3>2, <4>1 DEF E!Close
      <4> QED
        BY <2>1, <3>4, <4>2
    <3> QED
      BY <3>3, <3>4
  <2>7. Contracts[d] # None /\ Contracts'[d] = None
    BY <2>1, <2>2
  <2> QED
    BY <2>6, <2>7 DEF E!Pay, Contracts, Owned
<1> QED
  BY <1>2, <1>3, <1>4, <1>5 DEF MoneyEffect, E!Next

(* The client chain keeps the money of its orders as Escrow promises,      *)
(* whatever answers the service chain sends, late, repeated orders or not: *)
(* `order` takes the fee and the penalty out of their owners' reach, and   *)
(* cancel, order_reject and on_done move exactly these two amounts between *)
(* exactly these two accounts.                                             *)
THEOREM EscrowKept ==
    ASSUME Client \cap Device = {}, \A fee \in Fees : fee = 0 \/ fee >= ExistentialDeposit,
           CarefulClients, QuietRebind
    PROVE  Spec => KeepsEscrow
<1>a. Apart /\ NoDustFees
  BY DEF Apart, NoDustFees, DustFree
<1>1. Init => E!Init
  <2> SUFFICES ASSUME Init PROVE E!Init
    OBVIOUS
  <2>1. cnow = 0 /\ corders = [d \in Device |-> None] /\ Routed
    BY RoutedInit DEF Init, C!Init
  <2>2. Owned \in [Account -> Nat]
    BY <2>1, AliveKeeps DEF Owned
  <2>3. Contracts = [d \in Device |-> None]
    BY <2>1 DEF Contracts
  <2> QED
    BY <2>1, <2>2, <2>3 DEF E!Init, Owned, Contracts
<1>2. Accounted /\ [Next]_vars => Accounted' /\ [E!Next]_(E!vars)
  <2> SUFFICES ASSUME Accounted, [Next]_vars PROVE Accounted' /\ [E!Next]_(E!vars)
    OBVIOUS
  <2>1. Accounted' /\ Routed'
    BY <1>a, AccountedStep DEF Accounted, Followed
  <2>2. CASE ClientChain
    BY <1>a, <2>1, <2>2, ClientChainEffect, EscrowStep
  <2>3. CASE ServiceChain \/ UNCHANGED vars
    <3>1. UNCHANGED <<cnow, cbal, cdevice, corders>>
      BY <2>3 DEF ServiceChain, ServiceDispatch, ServiceHandles, ServiceTick, DeliverOrders,
                  vars, cvars
    <3>2. Stays
      BY <3>1 DEF Stays
    <3> QED
      BY <1>a, <2>1, <3>2, EscrowStep DEF MoneyEffect
  <2> QED
    BY <2>1, <2>2, <2>3 DEF Next
<1> QED
  BY <1>1, <1>2, AccountedInit, PTL DEF Spec, KeepsEscrow, E!Spec

-------------------------------------------------------------------------------
(* The two chains and their channels are the Exchange                      *)

(* They as Exchange sees them                                              *)
OpenOrders ==
    [d \in Device |->
        IF corders[d] = None THEN None ELSE Terms(corders[d].client, corders[d])]
Tokens ==
    [d \in Device |->
        LET under == UnderWay(d)
        IN  IF under = {} THEN None ELSE CHOOSE t \in under : TRUE]

Requesting(m) == [at |-> "request", order |-> Terms(m.client, m.order)]
Serving(order) == [at |-> "service", order |-> Terms(order.client, order)]
Replying(m) == [at |-> "answer", client |-> m.client]

(* The token of d says what the pipes and the service chain hold about it. *)
Shows(d) ==
    /\ \A m \in Asked(d) : Tokens[d] = Requesting(m)
    /\ ServedRemotely(d) => Tokens[d] = Serving(sorders[d])
    /\ \A m \in Answered(d) : Tokens[d] = Replying(m)
    /\ Idle(d) => Tokens[d] = None
Shown == Followed /\ \A d \in Device : Shows(d)

LEMMA PipeHolds ==
    ASSUME NEW s \in Seq(Message), NEW t \in Seq(Outbound), NEW M
    PROVE  Among(Pipe(s, t), M) = {s[i] : i \in {i \in DOMAIN s : s[i] \in M}}
                                  \cup {t[i].msg : i \in {i \in DOMAIN t : t[i].msg \in M}}
<1> DEFINE p == Pipe(s, t)
<1>1. /\ Len(p) = Len(s) + Len(t)
      /\ \A i \in 1 .. Len(s) : p[i] = s[i]
      /\ \A i \in 1 .. Len(t) : p[Len(s) + i] = t[i].msg
      /\ \A i \in 1 .. Len(s) : s[i] \in Message
      /\ \A i \in 1 .. Len(t) : t[i].msg \in Message
  <2>1. \A i \in 1 .. Len(t) : t[i] \in Outbound
    OBVIOUS
  <2>2. \A i \in 1 .. Len(t) : t[i].msg \in Message
    BY <2>1 DEF Outbound
  <2>3. \A i \in 1 .. Len(s) : s[i] \in Message
    OBVIOUS
  <2> QED
    BY <2>2, <2>3, PipeType
<1>2. Len(s) \in Nat /\ Len(t) \in Nat /\ DOMAIN s = 1 .. Len(s) /\ DOMAIN t = 1 .. Len(t)
  OBVIOUS
<1>3. \A i \in 1 .. Len(p) : \/ i \in 1 .. Len(s) /\ p[i] = s[i]
                             \/ \E k \in 1 .. Len(t) : p[i] = t[k].msg
  BY PipeParts
<1> HIDE DEF p
<1>4. \A i \in 1 .. Len(s) : i \in 1 .. Len(p)
  BY <1>1, <1>2
<1>5. \A i \in 1 .. Len(t) : Len(s) + i \in 1 .. Len(p)
  BY <1>1, <1>2
<1>6. ASSUME NEW m \in Among(p, M)
      PROVE  \/ \E i \in DOMAIN s : s[i] \in M /\ m = s[i]
             \/ \E i \in DOMAIN t : t[i].msg \in M /\ m = t[i].msg
  BY <1>2, <1>3 DEF Among
<1>7. ASSUME NEW i \in DOMAIN s, s[i] \in M PROVE s[i] \in Among(p, M)
  BY <1>1, <1>2, <1>4, <1>7 DEF Among
<1>8. ASSUME NEW i \in DOMAIN t, t[i].msg \in M PROVE t[i].msg \in Among(p, M)
  BY <1>1, <1>2, <1>5, <1>8 DEF Among
<1> QED
  BY <1>6, <1>7, <1>8 DEF p

(* Reading a message of another kind takes nothing of this kind.           *)
LEMMA PipeTail ==
    ASSUME NEW s \in Seq(Message), s # <<>>, NEW t \in Seq(Outbound), NEW M, Head(s) \notin M
    PROVE  Among(Pipe(Tail(s), t), M) = Among(Pipe(s, t), M)
<1> DEFINE u == Tail(s)
<1>1. /\ u \in Seq(Message) /\ Len(u) = Len(s) - 1 /\ Head(s) = s[1]
      /\ \A i \in 1 .. Len(s) - 1 : u[i] = s[i + 1]
      /\ DOMAIN s = 1 .. Len(s) /\ Len(s) \in Nat /\ DOMAIN u = 1 .. Len(s) - 1
  OBVIOUS
<1> HIDE DEF u
<1>2. \A k \in Nat : \A i \in 1 .. k : i # 1 => i - 1 \in 1 .. k - 1 /\ (i - 1) + 1 = i
  OBVIOUS
<1>3. \A k \in Nat : \A i \in 1 .. k - 1 : i + 1 \in 1 .. k
  OBVIOUS
<1>4. {u[i] : i \in {i \in DOMAIN u : u[i] \in M}} = {s[i] : i \in {i \in DOMAIN s : s[i] \in M}}
  <2>1. ASSUME NEW i \in DOMAIN u PROVE i + 1 \in DOMAIN s /\ u[i] = s[i + 1]
    BY <1>1, <1>3
  <2>2. ASSUME NEW i \in DOMAIN s, s[i] \in M PROVE i - 1 \in DOMAIN u /\ u[i - 1] = s[i]
    <3>1. i # 1
      BY <1>1, <2>2
    <3> QED
      BY <1>1, <1>2, <3>1
  <2> QED
    BY <2>1, <2>2
<1>5. Among(Pipe(u, t), M) = {u[i] : i \in {i \in DOMAIN u : u[i] \in M}}
                             \cup {t[i].msg : i \in {i \in DOMAIN t : t[i].msg \in M}}
  BY <1>1, PipeHolds
<1>6. Among(Pipe(s, t), M) = {s[i] : i \in {i \in DOMAIN s : s[i] \in M}}
                             \cup {t[i].msg : i \in {i \in DOMAIN t : t[i].msg \in M}}
  BY PipeHolds
<1>7. Among(Pipe(u, t), M) = Among(Pipe(s, t), M)
  BY <1>4, <1>5, <1>6
<1> QED
  BY <1>7 DEF u

LEMMA UnderWayIs ==
    ASSUME Routed, NEW d \in Device
    PROVE  UnderWay(d) = {Requesting(m) : m \in Asked(d)}
                         \cup {Serving(o) : o \in IF ServedRemotely(d) THEN {sorders[d]} ELSE {}}
                         \cup {Replying(m) : m \in Answered(d)}
<1>1. /\ cbatch \in Seq(Message) /\ toClient \in Seq(Outbound) /\ toService \in Seq(Outbound)
      /\ sbatch \in Seq(FromClientChain) /\ Msgs(sbatch) \in Seq(Message)
      /\ Len(Msgs(sbatch)) = Len(sbatch)
      /\ \A i \in 1 .. Len(sbatch) : Msgs(sbatch)[i] = sbatch[i].msg
  BY PipesTyped
<1>2. /\ \A i \in DOMAIN toService : toService[i].msg \in Message
      /\ \A i \in DOMAIN toClient : toClient[i].msg \in Message
      /\ \A i \in DOMAIN cbatch : cbatch[i] \in Message
      /\ \A i \in DOMAIN sbatch : sbatch[i].msg \in Message
  <2>1. \A x \in Outbound : x.msg \in Message
    BY DEF Outbound
  <2>2. \A x \in FromClientChain : x.msg \in Message
    BY DEF FromClientChain
  <2>3. /\ \A i \in DOMAIN toService : toService[i] \in Outbound
        /\ \A i \in DOMAIN toClient : toClient[i] \in Outbound
        /\ \A i \in DOMAIN cbatch : cbatch[i] \in Message
        /\ \A i \in DOMAIN sbatch : sbatch[i] \in FromClientChain
    BY <1>1
  <2> QED
    BY <2>1, <2>2, <2>3
<1>3. Asked(d) = {toService[i].msg : i \in OrdersInTransit(d)}
                 \cup {sbatch[i].msg : i \in OrdersInBatch(d)}
  <2> DEFINE s == Msgs(sbatch)
  <2>1. Asked(d) = {s[i] : i \in {i \in DOMAIN s : s[i] \in OrdersFor(d)}}
                   \cup {toService[i].msg : i \in {i \in DOMAIN toService :
                                                    toService[i].msg \in OrdersFor(d)}}
    BY <1>1, PipeHolds DEF Asked, Requests
  <2>2. {i \in DOMAIN toService : toService[i].msg \in OrdersFor(d)} = OrdersInTransit(d)
    BY <1>2 DEF OrdersInTransit, OrdersFor
  <2>3. DOMAIN s = DOMAIN sbatch /\ \A i \in DOMAIN sbatch : s[i] = sbatch[i].msg
    BY <1>1
  <2> HIDE DEF s
  <2>4. {s[i] : i \in {i \in DOMAIN s : s[i] \in OrdersFor(d)}}
        = {sbatch[i].msg : i \in OrdersInBatch(d)}
    BY <1>2, <2>3 DEF OrdersInBatch, OrdersFor
  <2> QED
    BY <2>1, <2>2, <2>4
<1>4. Answered(d) = {toClient[i].msg : i \in AnswersInTransit(d)}
                    \cup {cbatch[i] : i \in AnswersInBatch(d)}
  <2>1. Answered(d) = {cbatch[i] : i \in {i \in DOMAIN cbatch : cbatch[i] \in ClosingFor(d)}}
                      \cup {toClient[i].msg : i \in {i \in DOMAIN toClient :
                                                       toClient[i].msg \in ClosingFor(d)}}
    BY <1>1, PipeHolds DEF Answered, Replies
  <2>2. {i \in DOMAIN toClient : toClient[i].msg \in ClosingFor(d)} = AnswersInTransit(d)
    BY <1>2 DEF AnswersInTransit, ClosingFor
  <2>3. {i \in DOMAIN cbatch : cbatch[i] \in ClosingFor(d)} = AnswersInBatch(d)
    BY <1>2 DEF AnswersInBatch, ClosingFor
  <2> QED
    BY <2>1, <2>2, <2>3
<1> QED
  BY <1>3, <1>4 DEF UnderWay, Requesting, Serving, Replying

(* Of a singleton, CHOOSE takes the one element.                           *)
LEMMA FollowedShows == Followed => Shown
<1> SUFFICES ASSUME Followed, NEW d \in Device PROVE Shows(d)
  BY DEF Shown
<1> DEFINE served == IF ServedRemotely(d) THEN {sorders[d]} ELSE {}
           under == UnderWay(d)
<1>1. Routed /\ Single(d)
  BY DEF Followed
<1>2. under = {Requesting(m) : m \in Asked(d)} \cup {Serving(o) : o \in served}
              \cup {Replying(m) : m \in Answered(d)}
  BY <1>1, UnderWayIs
<1>3. /\ \A m, n \in Asked(d) : m = n
      /\ \A m, n \in Answered(d) : m = n
  BY <1>1 DEF Single, Once, Asked, Answered, Among
<1>4. Tokens[d] = IF under = {} THEN None ELSE CHOOSE t \in under : TRUE
  BY DEF Tokens
<1>5. \A x : (CHOOSE t \in {x} : TRUE) = x
  OBVIOUS
<1> HIDE DEF under
<1>6. \A x : under = {x} => Tokens[d] = x
  BY <1>4, <1>5
<1>7. ASSUME NEW m \in Asked(d) PROVE Tokens[d] = Requesting(m)
  <2>1. served = {} /\ Answered(d) = {} /\ Asked(d) = {m}
    BY <1>1, <1>3, <1>7 DEF Single
  <2>2. under = {Requesting(m)}
    BY <1>2, <2>1
  <2> QED
    BY <1>6, <2>2
<1>8. ASSUME ServedRemotely(d) PROVE Tokens[d] = Serving(sorders[d])
  <2>1. Asked(d) = {} /\ Answered(d) = {} /\ served = {sorders[d]}
    BY <1>1, <1>8 DEF Single
  <2>2. under = {Serving(sorders[d])}
    BY <1>2, <2>1
  <2> QED
    BY <1>6, <2>2
<1>9. ASSUME NEW m \in Answered(d) PROVE Tokens[d] = Replying(m)
  <2>1. served = {} /\ Asked(d) = {} /\ Answered(d) = {m}
    BY <1>1, <1>3, <1>9 DEF Single
  <2>2. under = {Replying(m)}
    BY <1>2, <2>1
  <2> QED
    BY <1>6, <2>2
<1>10. Idle(d) => Tokens[d] = None
  BY <1>2, <1>4 DEF Idle
<1> QED
  BY <1>7, <1>8, <1>9, <1>10 DEF Shows

LEMMA ShownStep ==
    QuietRebind /\ Shown /\ [Next]_vars => Shown'
<1>1. QuietRebind /\ Shown /\ [Next]_vars => Followed'
  BY FollowedStep DEF Shown
<1>2. (Followed => Shown)'
  BY FollowedShows, PTL
<1> QED
  BY <1>1, <1>2

-------------------------------------------------------------------------------
(* How the steps move the tokens                                           *)

LEMMA TokenKinds ==
    /\ \A order \in Order : Terms(order.client, order) # None /\ Serving(order) # None
    /\ \A m \in Message : m.type = "NewOrder" => Requesting(m) # None
    /\ \A m \in Message, d \in Device : IsClosing(m, d) => Replying(m) # None
<1>1. Fees \subseteq Nat /\ Moment \subseteq Nat
  BY AmountsAssumption, MomentAssumption DEF Moment
<1>2. ASSUME NEW order \in Order
      PROVE  Terms(order.client, order) # None /\ Serving(order) # None
  <2>1. Terms(order.client, order) \in [client : Client, fee : Nat, until : Nat]
    BY <1>1 DEF Order, Terms
  <2>2. Serving(order) \in [at : {"request", "service"}, order : [client : Client, fee : Nat, until : Nat]]
    BY <2>1 DEF Serving
  <2> QED
    BY <2>1, <2>2, RecordAssumption
<1>3. ASSUME NEW m \in Message, m.type = "NewOrder" PROVE Requesting(m) # None
  <2>1. m \in NewOrders
    BY <1>3 DEF Message, Answers, Garbage
  <2>2. m.client \in Client /\ m.order \in OrderBase
    BY <2>1 DEF NewOrders
  <2>3. Terms(m.client, m.order) \in [client : Client, fee : Nat, until : Nat]
    BY <1>1, <2>2 DEF OrderBase, Terms
  <2>4. Requesting(m) \in [at : {"request", "service"}, order : [client : Client, fee : Nat, until : Nat]]
    BY <2>3 DEF Requesting
  <2> QED
    BY <2>4, RecordAssumption
<1>4. ASSUME NEW m \in Message, NEW d \in Device, IsClosing(m, d) PROVE Replying(m) # None
  <2>1. m \in Answers
    BY <1>4 DEF Message, NewOrders, Garbage, IsClosing
  <2>2. Replying(m) \in [at : {"answer"}, client : Client]
    BY <2>1 DEF Answers, Replying
  <2> QED
    BY <2>2, RecordAssumption
<1> QED
  BY <1>2, <1>3, <1>4

(* Nothing moves about the device; or something is lost.                   *)
Same(e) ==
    /\ Asked(e)' = Asked(e) /\ Answered(e)' = Answered(e)
    /\ ServedRemotely(e)' = ServedRemotely(e)
    /\ ServedRemotely(e) => sorders'[e] = sorders[e]
Fades(e) ==
    /\ Asked(e)' \subseteq Asked(e) /\ Answered(e)' \subseteq Answered(e)
    /\ ServedRemotely(e)' = ServedRemotely(e)
    /\ ServedRemotely(e) => sorders'[e] = sorders[e]

LEMMA SameToken ==
    ASSUME Shown, Shown', NEW e \in Device, Same(e)
    PROVE  Tokens'[e] = Tokens[e]
<1>1. Shows(e) /\ Shows(e)'
  BY DEF Shown
<1>2. CASE Idle(e)
  BY <1>1, <1>2 DEF Shows, Idle, Same
<1>3. CASE Asked(e) # {}
  <2>1. PICK m : m \in Asked(e) /\ m \in Asked(e)'
    BY <1>3 DEF Same
  <2>2. Tokens'[e] = Requesting(m) /\ Tokens[e] = Requesting(m)
    BY <1>1, <2>1 DEF Shows, Requesting
  <2> QED
    BY <2>2
<1>4. CASE ServedRemotely(e)
  <2>1. ServedRemotely(e)' /\ sorders'[e] = sorders[e]
    BY <1>4 DEF Same
  <2>2. Tokens'[e] = Serving(sorders'[e]) /\ Tokens[e] = Serving(sorders[e])
    BY <1>1, <1>4, <2>1 DEF Shows, Serving
  <2> QED
    BY <2>1, <2>2
<1>5. CASE Answered(e) # {}
  <2>1. PICK m : m \in Answered(e) /\ m \in Answered(e)'
    BY <1>5 DEF Same
  <2>2. Tokens'[e] = Replying(m) /\ Tokens[e] = Replying(m)
    BY <1>1, <2>1 DEF Shows, Replying
  <2> QED
    BY <2>2
<1> QED
  BY <1>2, <1>3, <1>4, <1>5 DEF Idle

LEMMA FadingToken ==
    ASSUME Shown, Shown', NEW e \in Device, Fades(e)
    PROVE  \/ Tokens'[e] = Tokens[e]
           \/ Tokens'[e] = None /\ Tokens[e] # None /\ Tokens[e].at # "service"
<1>1. Shows(e) /\ Shows(e)' /\ Single(e)
  BY DEF Shown, Followed
<1>2. /\ \A m, n \in Asked(e) : m = n
      /\ \A m, n \in Answered(e) : m = n
  BY <1>1 DEF Single, Once, Asked, Answered, Among
<1>3. CASE Same(e)
  BY <1>3, SameToken
<1>4. CASE ~Same(e)
  <2>1. /\ Asked(e)' = Asked(e) \/ Asked(e)' = {}
        /\ Answered(e)' = Answered(e) \/ Answered(e)' = {}
    BY <1>2 DEF Fades
  <2>2. CASE Asked(e)' # Asked(e)
    <3>1. PICK m : m \in Asked(e)
      BY <2>2 DEF Fades
    <3>2. Idle(e)'
      BY <1>1, <2>1, <2>2, <3>1 DEF Idle, Single, Fades
    <3>3. Tokens[e] = Requesting(m) /\ Tokens'[e] = None
      BY <1>1, <3>1, <3>2 DEF Shows
    <3>4. m \in Message /\ m.type = "NewOrder"
      BY <3>1 DEF Asked, Among, OrdersFor
    <3> QED
      BY <3>3, <3>4, TokenKinds DEF Requesting
  <2>3. CASE Answered(e)' # Answered(e)
    <3>1. PICK m : m \in Answered(e)
      BY <2>3 DEF Fades
    <3>2. Idle(e)'
      BY <1>1, <2>1, <2>3, <3>1 DEF Idle, Single, Fades
    <3>3. Tokens[e] = Replying(m) /\ Tokens'[e] = None
      BY <1>1, <3>1, <3>2 DEF Shows
    <3>4. m \in Message /\ IsClosing(m, e)
      BY <3>1 DEF Answered, Among, ClosingFor
    <3> QED
      BY <3>3, <3>4, TokenKinds DEF Replying
  <2> QED
    BY <1>4, <2>2, <2>3 DEF Same, Fades
<1> QED
  BY <1>3, <1>4

LEMMA FadingIsLosing ==
    ASSUME Shown, Shown', UNCHANGED <<cnow, corders>>, \A e \in Device : Fades(e)
    PROVE  X!Next
<1>1. \E lost : lost = {e \in Device : Tokens'[e] # Tokens[e]}
  OBVIOUS
<1>2. PICK lost : lost = {e \in Device : Tokens'[e] # Tokens[e]}
  BY <1>1
<1>3. lost \in SUBSET Device
  BY <1>2
<1>4. \A e \in lost : Tokens[e] # None /\ Tokens[e].at # "service" /\ Tokens'[e] = None
  BY <1>2, FadingToken
<1>5. \A e \in Device \ lost : Tokens'[e] = Tokens[e]
  BY <1>2
<1>6. Tokens' = [e \in Device |-> Tokens'[e]]
  BY DEF Tokens
<1>7. Tokens' = [e \in Device |-> IF e \in lost THEN None ELSE Tokens[e]]
  BY <1>4, <1>5, <1>6
<1>8. OpenOrders' = OpenOrders
  BY DEF OpenOrders
<1>9. X!Lose(lost)
  BY <1>4, <1>7, <1>8 DEF X!Lose, Tokens, OpenOrders
<1> QED
  BY <1>3, <1>9 DEF X!Next

LEMMA StillServed ==
    ASSUME UNCHANGED sorders, NEW e
    PROVE  ServedRemotely(e)' = ServedRemotely(e) /\ sorders'[e] = sorders[e]
BY DEF ServedRemotely

(* The steps that place, close or answer nothing                           *)
LEMMA ClientFades ==
    ASSUME Shown, UNCHANGED <<sorders, sbatch>>, NEW e \in Device,
           \/ \E d \in Device : Binds(d) \/ Withdraws(d)
           \/ Idles \/ Ignores
           \/ \E n \in 1 .. Len(toClient) : AnswersArrive(n)
    PROVE  Fades(e) /\ (~Ignores => Same(e))
<1>1. Routed /\ Single(e)
  BY DEF Shown, Followed
<1>2. ServedRemotely(e)' = ServedRemotely(e) /\ sorders'[e] = sorders[e]
  BY StillServed
<1>3. ASSUME Requests' = Requests, Replies' = Replies PROVE Same(e)
  BY <1>2, <1>3, SameRequests, SameReplies DEF Same
<1>4. ASSUME NEW d \in Device, Binds(d) \/ Withdraws(d) PROVE Same(e)
  BY <1>3, <1>4, RequestsLeft, RepliesLeft DEF Binds, Withdraws
<1>5. ASSUME NEW n \in 1 .. Len(toClient), AnswersArrive(n) PROVE Same(e)
  BY <1>1, <1>3, <1>5, RequestsLeft, RepliesDelivered DEF AnswersArrive
<1>6. ASSUME Idles PROVE Same(e)
  <2>1. Garbage \in Message /\ Garbage \notin OrdersFor(e)
    BY DEF Garbage, Message, OrdersFor
  <2>2. Requests' \in {Requests, Append(Requests, Garbage)}
    BY <1>1, <1>6, <2>1, RequestSent DEF Idles
  <2>3. Asked(e)' = Asked(e)
    BY <1>1, <2>1, <2>2, MoreRequests DEF Single
  <2>4. Replies' = Replies
    BY <1>6, RepliesLeft DEF Idles
  <2>5. Answered(e)' = Answered(e)
    BY <2>4, SameReplies
  <2> QED
    BY <1>2, <2>3, <2>5 DEF Same
<1>7. ASSUME Ignores PROVE Fades(e)
  <2>1. Requests' = Requests
    BY <1>7, RequestsLeft DEF Ignores
  <2>2. Answered(e)' \subseteq Answered(e)
    BY <1>1, <1>7, FewerReplies DEF Ignores, Single
  <2> QED
    BY <1>2, <1>7, <2>1, <2>2, SameRequests DEF Fades
<1>8. Same(e) => Fades(e)
  BY DEF Same, Fades
<1> QED
  BY <1>4, <1>5, <1>6, <1>7, <1>8

LEMMA ServiceFades ==
    ASSUME Shown, UNCHANGED <<cbatch, cdevice, corders>>, NEW e \in Device,
           \/ Serves \/ Refuses
           \/ \E n \in 1 .. Len(toService) : OrdersArrive(n)
    PROVE  Fades(e)
<1>1. Routed /\ Single(e)
  BY DEF Shown, Followed
<1>2. CASE Serves
  <2>1. Asked(e)' = Asked(e)
    BY <1>2, RequestsLeft, SameRequests DEF Serves
  <2>2. Answered(e)' = Answered(e)
    BY <1>1, <1>2, HarmlessReply DEF Serves
  <2>3. ServedRemotely(e) \/ ServedRemotely(e)' => sorders'[e] = sorders[e]
    BY <1>2 DEF Serves
  <2> QED
    BY <2>1, <2>2, <2>3 DEF Fades, ServedRemotely
<1>3. CASE Refuses
  <2>1. Asked(e)' \subseteq Asked(e)
    BY <1>1, <1>3, FewerRequests DEF Refuses, Single
  <2>2. Answered(e)' = Answered(e)
    BY <1>3, RepliesLeft, SameReplies DEF Refuses
  <2> QED
    BY <1>3, <2>1, <2>2, StillServed DEF Fades, Refuses
<1>4. ASSUME NEW n \in 1 .. Len(toService), OrdersArrive(n) PROVE Fades(e)
  <2>1. Requests' = Requests /\ Replies' = Replies
    BY <1>1, <1>4, RepliesLeft, RequestsDelivered DEF OrdersArrive
  <2> QED
    BY <1>4, <2>1, StillServed, SameRequests, SameReplies DEF Fades, OrdersArrive
<1> QED
  BY <1>2, <1>3, <1>4

(* Others' tokens stay where they are when a token is moved.               *)
LEMMA OthersSame ==
    ASSUME Shown, NEW d \in Device, NEW e \in Device \ {d},
           \/ UNCHANGED <<sorders, sbatch>> /\ Closes(d)
           \/ UNCHANGED <<sorders, sbatch>> /\ \E order \in Order : Places(d, order)
           \/ UNCHANGED <<cbatch, cdevice, corders>> /\ (Begins(d) \/ Ends(d))
    PROVE  Same(e)
<1>1. Routed /\ Single(e)
  BY DEF Shown, Followed
<1>2. ASSUME NEW order \in Order, Places(d, order), UNCHANGED <<sorders, sbatch>> PROVE Same(e)
  <2>1. \E m \in Message : /\ m \notin OrdersFor(e)
                           /\ Queued(toService, toService', ServicePara, m)
    BY <1>2, RequestIsMessage DEF Places
  <2>2. PICK m \in Message : m \notin OrdersFor(e) /\ Queued(toService, toService', ServicePara, m)
    BY <2>1
  <2>3. Requests' \in {Requests, Append(Requests, m)}
    BY <1>1, <1>2, <2>2, RequestSent
  <2>4. Asked(e)' = Asked(e)
    BY <1>1, <2>2, <2>3, MoreRequests DEF Single
  <2> QED
    BY <1>2, <2>4, StillServed, RepliesLeft, SameReplies DEF Same, Places
<1>3. CASE Closes(d) /\ UNCHANGED <<sorders, sbatch>>
  <2>1. Head(cbatch) \notin ClosingFor(e)
    BY <1>3 DEF Closes, ClosingFor, IsClosing
  <2>2. Among(Pipe(Tail(cbatch), toClient), ClosingFor(e)) = Among(Pipe(cbatch, toClient), ClosingFor(e))
    BY <1>1, <1>3, <2>1, PipesTyped, PipeTail DEF Closes
  <2>3. Replies' = Pipe(Tail(cbatch), toClient)
    BY <1>3 DEF Closes, Replies, Pipe, Msgs
  <2>4. Answered(e)' = Among(Replies', ClosingFor(e))
    BY DEF Answered, Among, ClosingFor, IsClosing
  <2>5. Answered(e)' = Answered(e)
    BY <2>2, <2>3, <2>4 DEF Answered, Replies
  <2> QED
    BY <1>3, <2>5, StillServed, RequestsLeft, SameRequests DEF Same, Closes
<1>4. CASE Ends(d) /\ UNCHANGED <<cbatch, cdevice, corders>>
  <2>1. PICK m \in Message : IsClosing(m, d) /\ Queued(toClient, toClient', ClientPara, m)
    BY <1>4 DEF Ends
  <2>2. m \notin ClosingFor(e)
    BY <2>1 DEF ClosingFor, IsClosing
  <2>3. Replies' \in {Replies, Append(Replies, m)}
    BY <1>1, <1>4, <2>1, ReplySent
  <2>4. Answered(e)' = Answered(e)
    BY <1>1, <2>2, <2>3, MoreReplies DEF Single
  <2>5. sorders'[e] = sorders[e]
    BY <1>1, <1>4 DEF Ends, Routed, SP!Registered, SP!TypeOK
  <2> QED
    BY <1>4, <2>4, <2>5, RequestsLeft, SameRequests DEF Same, Ends, ServedRemotely
<1>5. CASE Begins(d) /\ UNCHANGED <<cbatch, cdevice, corders>>
  <2> DEFINE s == Msgs(sbatch)
  <2>1. /\ s \in Seq(Message) /\ Len(s) = Len(sbatch) /\ toService \in Seq(Outbound)
        /\ sbatch \in Seq(FromClientChain) /\ sbatch # <<>>
        /\ \A i \in 1 .. Len(sbatch) : s[i] = sbatch[i].msg
    BY <1>1, <1>5, PipesTyped DEF Begins
  <2>2. Msgs(Tail(sbatch)) = Tail(s) /\ s # <<>> /\ Head(s) = Head(sbatch).msg
    BY <2>1, TailOfMsgs
  <2>3. Head(s) \notin OrdersFor(e)
    BY <1>5, <2>2 DEF Begins, OrdersFor
  <2> HIDE DEF s
  <2>4. Among(Pipe(Tail(s), toService), OrdersFor(e)) = Among(Pipe(s, toService), OrdersFor(e))
    BY <2>1, <2>2, <2>3, PipeTail
  <2>5. Requests' = Pipe(Tail(s), toService)
    BY <1>5, <2>2 DEF Begins, Requests, Pipe, Msgs
  <2>6. Asked(e)' = Among(Requests', OrdersFor(e))
    BY DEF Asked, Among, OrdersFor
  <2>7. Asked(e)' = Asked(e)
    BY <2>4, <2>5, <2>6 DEF Asked, Requests, s
  <2>8. Answered(e)' = Answered(e)
    BY <1>1, <1>5, HarmlessReply DEF Begins
  <2>9. sorders'[e] = sorders[e]
    BY <1>1, <1>5 DEF Begins, Routed, SP!Registered, SP!TypeOK
  <2> QED
    BY <2>7, <2>8, <2>9 DEF Same, ServedRemotely
<1> QED
  BY <1>2, <1>3, <1>4, <1>5

(* Each step that moves a token is the action of Exchange it should be.    *)
LEMMA PlacingToken ==
    ASSUME Shown, Shown', NEW d \in Device, NEW order \in Order, Places(d, order),
           UNCHANGED <<sorders, sbatch>>
    PROVE  X!Next
<1> DEFINE m == NewOrder(order.client, ToBase(order, d))
           terms == Terms(order.client, order)
<1>1. Routed /\ Single(d) /\ Shows(d) /\ Shows(d)'
  BY DEF Shown, Followed
<1>2. m \in Message /\ m \in OrdersFor(d)
  BY RequestIsMessage
<1>3. Requests' \in {Requests, Append(Requests, m)} /\ Replies' = Replies
  BY <1>1, <1>2, RequestSent, RepliesLeft DEF Places
<1>4. Requesting(m) = X!Request(terms)
  BY DEF Requesting, X!Request, Terms, NewOrder, ToBase
<1>5. corders \in [Device -> Order \cup {None}]
  BY <1>1, SameMessages DEF Routed, CP!Registered, CP!TypeOK
<1>6. /\ corders[d] = None /\ corders'[d] = order /\ order.until > cnow /\ cnow' = cnow
      /\ \A e \in Device \ {d} : corders'[e] = corders[e]
  <2>1. cnow \in Nat /\ order.until \in Nat
    BY <1>1, MomentAssumption DEF Routed, CP!Registered, CP!TypeOK, CP!Moment, Order, Moment
  <2> QED
    BY <1>5, <2>1 DEF Places
<1>7. order # None /\ terms # None /\ terms.until = order.until
  BY TokenKinds, NoneAssumption DEF Terms
<1> HIDE DEF m, terms
<1>8. Idle(d)
  BY <1>1 DEF Places, Single
<1>9. Asked(d)' \subseteq {m} /\ Answered(d)' = {} /\ ~ServedRemotely(d)'
  BY <1>1, <1>2, <1>3, <1>8, MoreRequests, SameReplies DEF Idle, Single, ServedRemotely
<1>10. Tokens[d] = None /\ Tokens'[d] \in {None, Requesting(m)}
  <2>1. CASE m \in Asked(d)'
    BY <1>1, <1>8, <2>1 DEF Shows, Requesting
  <2>2. CASE m \notin Asked(d)'
    <3>1. Idle(d)'
      BY <1>9, <2>2 DEF Idle
    <3> QED
      BY <1>1, <1>8, <3>1 DEF Shows
  <2> QED
    BY <2>1, <2>2
<1>11. \A e \in Device \ {d} : Tokens'[e] = Tokens[e]
  BY OthersSame, SameToken
<1>12. /\ OpenOrders[d] = None /\ OpenOrders'[d] = terms
       /\ OpenOrders' = [OpenOrders EXCEPT ![d] = terms]
  <2>1. OpenOrders[d] = None /\ OpenOrders'[d] = terms
    BY <1>6, <1>7 DEF OpenOrders, terms
  <2>2. \A e \in Device \ {d} : OpenOrders'[e] = OpenOrders[e]
    BY <1>6 DEF OpenOrders
  <2>3. OpenOrders = [e \in Device |-> OpenOrders[e]] /\ OpenOrders' = [e \in Device |-> OpenOrders'[e]]
    BY DEF OpenOrders
  <2> QED
    BY <2>1, <2>2, <2>3
<1>13. Tokens' = [Tokens EXCEPT ![d] = X!Request(OpenOrders'[d])] \/ Tokens' = [Tokens EXCEPT ![d] = None]
  <2>1. Tokens = [e \in Device |-> Tokens[e]] /\ Tokens' = [e \in Device |-> Tokens'[e]]
    BY DEF Tokens
  <2> QED
    BY <1>4, <1>10, <1>11, <1>12, <2>1
<1>14. X!Place(d)
  BY <1>6, <1>7, <1>10, <1>12, <1>13 DEF X!Place, X!Becomes, Tokens, OpenOrders
<1> QED
  BY <1>14 DEF X!Next

LEMMA WithdrawingToken ==
    ASSUME Shown, Shown', NEW d \in Device, Withdraws(d), UNCHANGED <<sorders, sbatch>>
    PROVE  X!Next
<1>1. corders \in [Device -> Order \cup {None}]
  BY SameMessages DEF Shown, Followed, Routed, CP!Registered, CP!TypeOK
<1>2. \A e \in Device : Tokens'[e] = Tokens[e]
  <2>1. \A e \in Device : Same(e)
    <3>1. ~Ignores
      BY <1>1 DEF Withdraws, Ignores
    <3> QED
      BY <3>1, ClientFades
  <2> QED
    BY <2>1, SameToken
<1>3. Tokens' = Tokens
  <2>1. Tokens = [e \in Device |-> Tokens[e]] /\ Tokens' = [e \in Device |-> Tokens'[e]]
    BY DEF Tokens
  <2> QED
    BY <1>2, <2>1
<1>4. /\ corders[d] # None /\ corders[d] \in Order /\ cnow >= corders[d].until
      /\ corders' = [corders EXCEPT ![d] = None] /\ cnow' = cnow
  BY <1>1 DEF Withdraws
<1>5. OpenOrders[d] # None /\ OpenOrders[d].until = corders[d].until
  BY <1>4, TokenKinds DEF OpenOrders, Terms
<1>6. OpenOrders' = [OpenOrders EXCEPT ![d] = None]
  BY <1>1, <1>4 DEF OpenOrders
<1>7. X!Withdraw(d)
  BY <1>3, <1>4, <1>5, <1>6 DEF X!Withdraw, Tokens, OpenOrders
<1> QED
  BY <1>7 DEF X!Next

LEMMA ClosingToken ==
    ASSUME Shown, Shown', NEW d \in Device, Closes(d), UNCHANGED <<sorders, sbatch>>
    PROVE  X!Next
<1>1. /\ Routed /\ Single(d) /\ Shows(d) /\ Shows(d)' /\ Followed
      /\ corders \in [Device -> Order \cup {None}]
  BY SameMessages DEF Shown, Followed, Routed, CP!Registered, CP!TypeOK
<1>2. Head(cbatch) \in ClosingFor(d)
  <2>1. Head(cbatch) \in Message
    BY <1>1, PipesTyped DEF Closes
  <2> QED
    BY <2>1 DEF Closes, ClosingFor
<1>3. Answered(d)' = {} /\ Head(cbatch) \in Answered(d)
  BY <1>1, <1>2, FewerReplies DEF Closes, Single
<1>4. /\ corders[d] # None /\ corders[d] \in Order /\ cnow' = cnow
      /\ corders' = [corders EXCEPT ![d] = None]
      /\ Head(cbatch).client = corders[d].client
  BY <1>1, AnswerIsFaithful DEF Closes
<1>5. Tokens[d] = Replying(Head(cbatch))
  BY <1>1, <1>3 DEF Shows
<1>6. Idle(d)'
  <2>1. Asked(d) = {} /\ ~ServedRemotely(d)
    BY <1>1, <1>3 DEF Single
  <2>2. Asked(d)' = Asked(d)
    BY RequestsLeft, SameRequests DEF Closes
  <2> QED
    BY <1>3, <2>1, <2>2 DEF Idle, ServedRemotely
<1>7. Tokens'[d] = None
  BY <1>1, <1>6 DEF Shows
<1>8. \A e \in Device \ {d} : Tokens'[e] = Tokens[e]
  BY OthersSame, SameToken
<1>9. Tokens' = [Tokens EXCEPT ![d] = None]
  <2>1. Tokens = [e \in Device |-> Tokens[e]] /\ Tokens' = [e \in Device |-> Tokens'[e]]
    BY DEF Tokens
  <2> QED
    BY <1>7, <1>8, <2>1
<1>10. OpenOrders[d] # None /\ OpenOrders[d].client = corders[d].client
  BY <1>4, TokenKinds DEF OpenOrders, Terms
<1>11. OpenOrders' = [OpenOrders EXCEPT ![d] = None]
  BY <1>1, <1>4 DEF OpenOrders
<1>12. Tokens[d] = X!Reply(OpenOrders[d])
  BY <1>4, <1>5, <1>10 DEF Replying, X!Reply
<1>13. X!Close(d)
  BY <1>4, <1>9, <1>10, <1>11, <1>12 DEF X!Close, Tokens, OpenOrders
<1> QED
  BY <1>13 DEF X!Next

LEMMA BeginningToken ==
    ASSUME Shown, Shown', NEW d \in Device, Begins(d), UNCHANGED <<cnow, cbatch, cdevice, corders>>
    PROVE  X!Next
<1>1. /\ Routed /\ Single(d) /\ Shows(d) /\ Shows(d)'
      /\ sorders \in [Device -> Order \cup {None}] /\ sorders' \in [Device -> Order \cup {None}]
  BY SameMessages DEF Shown, Followed, Routed, SP!Registered, SP!TypeOK
<1>2. PICK m : m = Head(sbatch).msg
  OBVIOUS
<1> DEFINE taken == [client |-> m.client, fee |-> m.order.fee,
                     until |-> m.order.until, paraid |-> ClientPara]
<1>3. m \in OrdersFor(d)
  <2>1. Head(sbatch) \in FromClientChain
    BY <1>1, PipesTyped DEF Begins
  <2>2. m \in Message
    BY <1>2, <2>1 DEF FromClientChain
  <2> QED
    BY <1>2, <2>2 DEF Begins, OrdersFor
<1>4. m \in Asked(d)
  BY <1>1, <1>2, <1>3, FewerRequests DEF Begins, Single
<1>5. sorders'[d] = taken
  BY <1>1, <1>2 DEF Begins
<1> HIDE DEF taken
<1>6. sorders'[d] # None /\ sorders'[d].paraid = ClientPara
  <2>1. taken = [client |-> m.client, fee |-> m.order.fee,
                 until |-> m.order.until, paraid |-> ClientPara]
    BY DEF taken
  <2>2. taken # None
    <3>1. m \in NewOrders
      BY <1>3 DEF OrdersFor, Message, Answers, Garbage
    <3>2. ClientPara \in ParaId
      BY BankAssumption
    <3>3. taken \in Order
      BY <2>1, <3>1, <3>2 DEF NewOrders, OrderBase, Order
    <3> QED
      BY <3>3, NoneAssumption
  <2> QED
    BY <1>5, <2>1, <2>2
<1>7. ServedRemotely(d)'
  BY <1>6 DEF ServedRemotely
<1>8. Tokens[d] = Requesting(m) /\ Tokens'[d] = Serving(taken)
  <2>1. Tokens'[d] = Serving(sorders'[d])
    BY <1>1, <1>7 DEF Shows, Serving
  <2>2. Tokens[d] = Requesting(m)
    BY <1>1, <1>4 DEF Shows
  <2> QED
    BY <1>5, <2>1, <2>2
<1>9. Tokens[d] # None /\ Tokens[d].at = "request"
  BY <1>3, <1>8, TokenKinds DEF OrdersFor, Requesting
<1>10. Serving(taken) = [Requesting(m) EXCEPT !.at = "service"]
  BY DEF Serving, Requesting, Terms, taken
<1>11. \A e \in Device \ {d} : Tokens'[e] = Tokens[e]
  BY OthersSame, SameToken
<1>12. Tokens' = [Tokens EXCEPT ![d] = [Tokens[d] EXCEPT !.at = "service"]]
  <2>1. Tokens = [e \in Device |-> Tokens[e]] /\ Tokens' = [e \in Device |-> Tokens'[e]]
    BY DEF Tokens
  <2>2. Tokens'[d] = [Tokens[d] EXCEPT !.at = "service"]
    BY <1>8, <1>10
  <2> QED
    BY <1>11, <2>1, <2>2
<1>13. OpenOrders' = OpenOrders
  BY DEF OpenOrders
<1>14. X!Begin(d)
  BY <1>9, <1>12, <1>13 DEF X!Begin, Tokens, OpenOrders
<1> QED
  BY <1>14 DEF X!Next

LEMMA AnsweringToken ==
    ASSUME Shown, Shown', NEW d \in Device, Ends(d), UNCHANGED <<cnow, cbatch, cdevice, corders>>
    PROVE  X!Next
<1>1. /\ Routed /\ Single(d) /\ Shows(d) /\ Shows(d)'
      /\ sorders \in [Device -> Order \cup {None}]
  BY SameMessages DEF Shown, Followed, Routed, SP!Registered, SP!TypeOK
<1>2. PICK m \in Message : /\ IsClosing(m, d) /\ m.client = sorders[d].client
                           /\ Queued(toClient, toClient', ClientPara, m)
  BY DEF Ends
<1>3. ServedRemotely(d) /\ sorders[d] \in Order /\ sorders'[d] = None
  BY <1>1 DEF Ends, ServedRemotely
<1>4. Asked(d) = {} /\ Answered(d) = {}
  BY <1>1, <1>3 DEF Single
<1>5. Asked(d)' = {}
  BY <1>4, RequestsLeft, SameRequests DEF Ends
<1>6. Answered(d)' \subseteq {m}
  <2>1. Replies' \in {Replies, Append(Replies, m)}
    BY <1>1, <1>2, ReplySent
  <2> QED
    BY <1>1, <1>2, <1>4, <2>1, MoreReplies DEF Single
<1>7. ~ServedRemotely(d)'
  BY <1>3 DEF ServedRemotely
<1>8. Tokens[d] = Serving(sorders[d]) /\ Tokens[d] # None /\ Tokens[d].at = "service"
  <2>1. Tokens[d] = Serving(sorders[d])
    BY <1>1, <1>3 DEF Shows
  <2> QED
    BY <1>3, <2>1, TokenKinds DEF Serving
<1>9. Replying(m) = X!Reply(Tokens[d].order)
  BY <1>2, <1>8 DEF Replying, X!Reply, Serving, Terms
<1>10. Tokens'[d] \in {None, Replying(m)}
  <2>1. CASE m \in Answered(d)'
    BY <1>1, <2>1 DEF Shows, Replying
  <2>2. CASE m \notin Answered(d)'
    <3>1. Idle(d)'
      BY <1>5, <1>6, <1>7, <2>2 DEF Idle
    <3> QED
      BY <1>1, <3>1 DEF Shows
  <2> QED
    BY <2>1, <2>2
<1>11. \A e \in Device \ {d} : Tokens'[e] = Tokens[e]
  BY OthersSame, SameToken
<1>12. \/ Tokens' = [Tokens EXCEPT ![d] = X!Reply(Tokens[d].order)]
       \/ Tokens' = [Tokens EXCEPT ![d] = None]
  <2>1. Tokens = [e \in Device |-> Tokens[e]] /\ Tokens' = [e \in Device |-> Tokens'[e]]
    BY DEF Tokens
  <2> QED
    BY <1>9, <1>10, <1>11, <2>1
<1>13. OpenOrders' = OpenOrders
  BY DEF OpenOrders
<1>14. X!Answer(d)
  BY <1>8, <1>12, <1>13 DEF X!Answer, X!Becomes, Tokens, OpenOrders
<1> QED
  BY <1>14 DEF X!Next

LEMMA IdlingToken ==
    ASSUME Shown, Shown', Idles, UNCHANGED <<sorders, sbatch>>
    PROVE  X!Next
<1>1. CASE cnow' = cnow
  <2>1. \A e \in Device : Fades(e)
    BY ClientFades
  <2> QED
    BY <1>1, <2>1, FadingIsLosing DEF Idles
<1>2. CASE cnow' = cnow + 1 /\ ~Ignores
  <2>1. \A e \in Device : Tokens'[e] = Tokens[e]
    BY <1>2, ClientFades, SameToken
  <2>2. Tokens = [e \in Device |-> Tokens[e]] /\ Tokens' = [e \in Device |-> Tokens'[e]]
    BY DEF Tokens
  <2>3. Tokens' = Tokens
    BY <2>1, <2>2
  <2>4. OpenOrders' = OpenOrders
    BY DEF OpenOrders, Idles
  <2>5. X!Advance
    BY <1>2, <2>3, <2>4 DEF X!Advance, Tokens, OpenOrders
  <2> QED
    BY <2>5 DEF X!Next
<1>3. CASE Ignores
  <2>1. \A e \in Device : Fades(e)
    BY <1>3, ClientFades
  <2> QED
    BY <1>3, <2>1, FadingIsLosing DEF Ignores
<1> QED
  BY <1>1, <1>2, <1>3 DEF Idles

(* The two chains and whatever carries their messages are the Exchange: an *)
(* order is placed only at a device nothing is under way about; from then  *)
(* on one token stands for it, which is served at most once and answered   *)
(* at most once, may be lost, is never copied, and closes only the order   *)
(* it was started for.  The pallets identify an order by its device alone, *)
(* so this rests on QuietRebind, as OneUnderWay does.                      *)
THEOREM ExchangeImplemented == ASSUME QuietRebind PROVE Spec => ImplementsExchange
<1>1. Init => X!Init
  <2> SUFFICES ASSUME Init PROVE X!Init
    OBVIOUS
  <2>1. cnow = 0 /\ corders = [d \in Device |-> None] /\ sorders = [d \in Device |-> None]
    BY DEF Init, C!Init, S!Init
  <2>2. Requests = <<>> /\ Replies = <<>>
    <3>1. sbatch = <<>> /\ cbatch = <<>> /\ toService = <<>> /\ toClient = <<>>
      BY DEF Init, C!Init, S!Init
    <3>2. Msgs(<<>>) = <<>>
      BY DEF Msgs
    <3> QED
      BY <3>1, <3>2 DEF Requests, Replies, Pipe
  <2>3. \A d \in Device : Idle(d)
    BY <2>1, <2>2 DEF Idle, Asked, Answered, Among, ServedRemotely
  <2>4. \A d \in Device : Tokens[d] = None
    BY <2>3, FollowedInit, FollowedShows DEF Shown, Shows
  <2>5. Tokens = [d \in Device |-> None]
    <3>1. Tokens = [d \in Device |-> Tokens[d]]
      BY DEF Tokens
    <3> QED
      BY <2>4, <3>1
  <2>6. OpenOrders = [d \in Device |-> None]
    BY <2>1 DEF OpenOrders
  <2> QED
    BY <2>1, <2>5, <2>6 DEF X!Init, Tokens, OpenOrders
<1>2. Shown /\ [Next]_vars => Shown' /\ [X!Next]_(X!vars)
  <2> SUFFICES ASSUME Shown, [Next]_vars PROVE Shown' /\ X!Next
    OBVIOUS
  <2>1. Shown' /\ Routed
    BY ShownStep DEF Shown, Followed
  <2>2. CASE ClientChain
    <3>1. UNCHANGED <<sorders, sbatch>>
      BY <2>2 DEF ClientChain, ClientOrders, ClientCancels, DeviceRegisters, ClientTest,
                  ClientHandles, ClientTick, DeliverAnswers, svars
    <3>2. ClientEffect
      BY <2>1, <2>2, ClientShows
    <3>3. ASSUME NEW d \in Device, Binds(d) PROVE X!Next
      <4>1. \A e \in Device : Fades(e)
        BY <3>1, <3>3, ClientFades
      <4> QED
        BY <2>1, <3>3, <4>1, FadingIsLosing DEF Binds
    <3>4. ASSUME NEW n \in 1 .. Len(toClient), AnswersArrive(n) PROVE X!Next
      <4>1. \A e \in Device : Fades(e)
        BY <3>1, <3>4, ClientFades
      <4> QED
        BY <2>1, <3>4, <4>1, FadingIsLosing DEF AnswersArrive
    <3>5. CASE Ignores
      <4>1. \A e \in Device : Fades(e)
        BY <3>1, <3>5, ClientFades
      <4> QED
        BY <2>1, <3>5, <4>1, FadingIsLosing DEF Ignores
    <3>6. CASE Idles
      BY <2>1, <3>1, <3>6, IdlingToken
    <3>7. ASSUME NEW d \in Device, Withdraws(d) PROVE X!Next
      BY <2>1, <3>1, <3>7, WithdrawingToken
    <3>8. ASSUME NEW d \in Device, Closes(d) PROVE X!Next
      BY <2>1, <3>1, <3>8, ClosingToken
    <3>9. ASSUME NEW d \in Device, NEW order \in Order, Places(d, order) PROVE X!Next
      BY <2>1, <3>1, <3>9, PlacingToken
    <3> QED
      BY <2>1, <3>2, <3>3, <3>4, <3>5, <3>6, <3>7, <3>8, <3>9 DEF ClientEffect
  <2>3. CASE ServiceChain
    <3>1. UNCHANGED <<cnow, cbatch, cdevice, corders>>
      BY <2>3 DEF ServiceChain, ServiceDispatch, ServiceHandles, ServiceTick, DeliverOrders, cvars
    <3>2. ServiceEffect
      BY <2>1, <2>3, ServiceShows
    <3>3. CASE Serves \/ Refuses \/ \E n \in 1 .. Len(toService) : OrdersArrive(n)
      <4>1. \A e \in Device : Fades(e)
        BY <3>1, <3>3, ServiceFades
      <4> QED
        BY <2>1, <3>1, <4>1, FadingIsLosing
    <3>4. ASSUME NEW d \in Device, Begins(d) PROVE X!Next
      BY <2>1, <3>1, <3>4, BeginningToken
    <3>5. ASSUME NEW d \in Device, Ends(d) PROVE X!Next
      BY <2>1, <3>1, <3>5, AnsweringToken
    <3> QED
      BY <2>1, <3>2, <3>3, <3>4, <3>5 DEF ServiceEffect
  <2>4. CASE UNCHANGED vars
    <3>1. Requests' = Requests /\ Replies' = Replies /\ UNCHANGED <<cnow, corders, sorders>>
      BY <2>4, RequestsLeft, RepliesLeft DEF vars, cvars, svars
    <3>2. ASSUME NEW e \in Device PROVE Fades(e)
      <4>1. ServedRemotely(e)' = ServedRemotely(e) /\ sorders'[e] = sorders[e]
        BY <3>1, StillServed
      <4>2. Asked(e)' = Asked(e) /\ Answered(e)' = Answered(e)
        BY <3>1, SameRequests, SameReplies
      <4> QED
        BY <4>1, <4>2 DEF Fades
    <3> QED
      BY <2>1, <3>1, <3>2, FadingIsLosing
  <2> QED
    BY <2>1, <2>2, <2>3, <2>4 DEF Next
<1>3. Init => Shown
  BY FollowedInit, FollowedShows
<1> QED
  BY <1>1, <1>2, <1>3, PTL DEF Spec, ImplementsExchange, X!Spec
===============================================================================
