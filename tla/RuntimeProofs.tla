------------------------------ MODULE RuntimeProofs ------------------------------
(***************************************************************************)
(* Proofs about the runtime that carries both pallets: what the accounts   *)
(* have in reserve is what the orders of the two pallets need together.    *)
(*                                                                         *)
(* Each pallet's own proofs are taken over with its variables renamed.     *)
(***************************************************************************)
EXTENDS Runtime, CurrencyProofs

XP == INSTANCE XchangeProofs WITH
        device <- cdevice, orders <- corders, batch <- <<>>,
        KilledHook <- FALSE, Incoming <- {}, MaxBatch <- 0

SP == INSTANCE XchangeServiceProofs WITH
        device <- sdevice, orders <- sorders, batch <- <<>>,
        OnReceived <- {"Accepted"}, KilledHook <- FALSE, Incoming <- {}, MaxBatch <- 0

-------------------------------------------------------------------------------
(* The pallets in the runtime                                              *)

(* The runtime gives each pallet the constants its proofs assume.          *)
LEMMA XchangeAssumptions ==
    /\ XP!IsFiniteSet(Device)
    /\ /\ None \notin XP!Order
       /\ None \notin [penalty : Nat, wcd : Nat, state : XP!DeviceState]
       /\ None \notin [penalty : Nat, wcd : Nat, para_id : ParaId, state : XP!DeviceState]
    /\ /\ Endowment \in [Account -> Nat]
       /\ \A a \in Account : Endowment[a] = 0 \/ Endowment[a] >= ExistentialDeposit
       /\ FALSE \in BOOLEAN
       /\ {} \subseteq XP!Message
       /\ 0 \in Nat
       /\ TestParaId \in ParaId
<1>1. XP!IsFiniteSet(Device)
  BY DeviceAssumption DEF IsFiniteSet, XP!IsFiniteSet
<1>2. XP!Order = Order /\ XP!DeviceState = DeviceState
  BY DEF Order, DeviceState, XP!Order, XP!DeviceState, Moment, XP!Moment
<1> QED
  BY <1>1, <1>2, NoneAssumption, RuntimeAssumption

LEMMA ServiceAssumptions ==
    /\ SP!IsFiniteSet(Device)
    /\ /\ None \notin SP!Order
       /\ None \notin [penalty : Nat, wcd : Nat, state : SP!DeviceState]
       /\ None \notin [penalty : Nat, wcd : Nat, para_id : ParaId, state : SP!DeviceState]
    /\ /\ Endowment \in [Account -> Nat]
       /\ \A a \in Account : Endowment[a] = 0 \/ Endowment[a] >= ExistentialDeposit
       /\ SelfParaId \in ParaId
       /\ {"Accepted"} \subseteq {"Busy", "Accepted", None}
       /\ None \notin {"Busy", "Accepted"}
       /\ FALSE \in BOOLEAN
       /\ {} \subseteq SP!Inbound
       /\ \A blob \in {} : blob.sender # SelfParaId
       /\ 0 \in Nat
<1>1. SP!IsFiniteSet(Device)
  BY DeviceAssumption DEF IsFiniteSet, SP!IsFiniteSet
<1>2. SP!Order = Order /\ SP!DeviceState = DeviceState
  BY DEF Order, DeviceState, SP!Order, SP!DeviceState, Moment, SP!Moment
<1> QED
  BY <1>1, <1>2, NoneAssumption, RuntimeAssumption

(* A call of a pallet is a step of its specification.                      *)
LEMMA XchangeSteps ==
    ASSUME XchangeCall \/ Elsewhere \/ UNCHANGED vars
    PROVE  [XP!Next]_(XP!vars) /\ UNCHANGED <<sdevice, sorders>>
<1>1. ASSUME NEW who \in Client, NEW base \in OrderBase, X!PlaceOrder(who, base)
      PROVE  XP!Next
  <2>1. XP!PlaceOrder(who, base)
    BY <1>1 DEF X!PlaceOrder, XP!PlaceOrder, X!Signed, XP!Signed, X!Send, XP!Send,
               X!IsAlive, XP!IsAlive, X!Total, XP!Total, X!Deadline, XP!Deadline,
               X!CanReserve, XP!CanReserve, X!Reserve, XP!Reserve, X!ToOrder, XP!ToOrder,
               X!ToBase, XP!ToBase, X!NewOrder, XP!NewOrder
  <2>2. base \in XP!OrderBase
    BY DEF XP!OrderBase, OrderBase, XP!Moment, Moment
  <2> QED
    BY <2>1, <2>2 DEF XP!Next, XP!Dispatch
<1>2. ASSUME NEW who \in Client, NEW d \in Device, X!Cancel(who, d)
      PROVE  XP!Next
  <2>1. XP!Cancel(who, d)
    BY <1>2 DEF X!Cancel, XP!Cancel, X!RejectOrder, XP!RejectOrder, X!RemoveOrder,
               XP!RemoveOrder, X!IsLate, XP!IsLate, X!OnKilledAccount, XP!OnKilledAccount,
               X!Killed, XP!Killed, X!Signed, XP!Signed, X!IsAlive, XP!IsAlive, X!Total,
               XP!Total, X!AtMost, XP!AtMost, X!Reap, XP!Reap, X!Dead, XP!Dead,
               X!Unreserve, XP!Unreserve, X!RepatriateFails, XP!RepatriateFails,
               X!Repatriate, XP!Repatriate
  <2> QED
    BY <2>1 DEF XP!Next, XP!Dispatch
<1>3. ASSUME NEW d \in Device, NEW paraid \in ParaId, NEW penalty \in Penalties, NEW wcd \in Wcds,
             NEW onoff \in BOOLEAN, X!Register(d, paraid, penalty, wcd, onoff)
      PROVE  XP!Next
  <2>1. XP!Register(d, paraid, penalty, wcd, onoff)
    BY <1>3 DEF X!Register, XP!Register, X!Signed, XP!Signed, X!IsAlive, XP!IsAlive,
               X!Total, XP!Total, X!Switch, XP!Switch
  <2> QED
    BY <2>1 DEF XP!Next, XP!Dispatch
<1>4. ASSUME X!Test PROVE XP!Next
  BY <1>4 DEF X!Test, X!Send, X!Garbage, XP!Test, XP!Send, XP!Garbage, XP!Next, XP!Dispatch
<1>5. ASSUME NEW from \in Account, NEW to \in Account, NEW amount \in 1 .. bal[from].free,
             X!Spend(from, to, amount)
      PROVE  XP!Next
  <2>1. XP!Spend(from, to, amount)
    BY <1>5 DEF X!Spend, XP!Spend, X!Signed, XP!Signed, X!IsAlive, XP!IsAlive, X!Total,
               XP!Total, X!CanTransfer, XP!CanTransfer, X!Transfer, XP!Transfer, X!Reap,
               XP!Reap, X!Dead, XP!Dead, X!OnKilledAccount, XP!OnKilledAccount, X!Killed,
               XP!Killed
  <2> QED
    BY <2>1 DEF XP!Next, XP!Dispatch
<1>6. ASSUME X!Tick \/ X!Carry PROVE XP!Next
  BY <1>6 DEF X!Tick, X!Carry, XP!Tick, XP!Carry, XP!Next, XP!Environment
<1>7. ASSUME UNCHANGED vars PROVE UNCHANGED XP!vars /\ UNCHANGED <<sdevice, sorders>>
  BY <1>7 DEF vars, XP!vars
<1> QED
  BY <1>1, <1>2, <1>3, <1>4, <1>5, <1>6, <1>7 DEF XchangeCall, Elsewhere

LEMMA ServiceSteps ==
    ASSUME ServiceCall
    PROVE  SP!Next /\ UNCHANGED <<cdevice, corders>>
<1>1. ASSUME NEW who \in Client, NEW d \in Device, NEW fee \in Fees, NEW until \in Moment,
             S!PlaceOrder(who, d, fee, until, "Accepted")
      PROVE  SP!Next
  <2>1. SP!PlaceOrder(who, d, fee, until, "Accepted")
    BY <1>1 DEF S!PlaceOrder, SP!PlaceOrder, S!Admissible, SP!Admissible, S!TakeOrder,
               SP!TakeOrder, S!AcceptOrder, SP!AcceptOrder, S!IsLocal, SP!IsLocal,
               S!OrderAccept, SP!OrderAccept, S!Signed, SP!Signed, S!Send, SP!Send,
               S!IsAlive, SP!IsAlive, S!Total, SP!Total, S!Deadline, SP!Deadline,
               S!CanReserve, SP!CanReserve, S!Reserve, SP!Reserve
  <2>2. until \in SP!Moment
    BY DEF SP!Moment, Moment
  <2> QED
    BY <2>1, <2>2 DEF SP!Next, SP!Dispatch
<1>2. ASSUME NEW who \in Client, NEW d \in Device, S!Cancel(who, d)
      PROVE  SP!Next
  <2>1. SP!Cancel(who, d)
    BY <1>2 DEF S!Cancel, SP!Cancel, S!RejectOrder, SP!RejectOrder, S!RejectFails,
               SP!RejectFails, S!FeeReleased, SP!FeeReleased, S!LedgerAfterReject,
               SP!LedgerAfterReject, S!IsLocal, SP!IsLocal, S!RemoveOrder, SP!RemoveOrder,
               S!Send, SP!Send, S!OrderReject, SP!OrderReject, S!OnKilledAccount,
               SP!OnKilledAccount, S!Killed, SP!Killed, S!Signed, SP!Signed, S!IsAlive,
               SP!IsAlive, S!Total, SP!Total, S!AtMost, SP!AtMost, S!Reap, SP!Reap,
               S!Dead, SP!Dead, S!Unreserve, SP!Unreserve, S!RepatriateFails,
               SP!RepatriateFails, S!Repatriate, SP!Repatriate
  <2> QED
    BY <2>1 DEF SP!Next, SP!Dispatch
<1>3. ASSUME NEW d \in Device, NEW onoff \in BOOLEAN, S!Reject(d, onoff)
      PROVE  SP!Next
  <2>1. SP!Reject(d, onoff)
    BY <1>3 DEF S!Reject, SP!Reject, S!Switch, SP!Switch, S!RejectOrder, SP!RejectOrder,
               S!RejectFails, SP!RejectFails, S!FeeReleased, SP!FeeReleased,
               S!LedgerAfterReject, SP!LedgerAfterReject, S!IsLocal, SP!IsLocal,
               S!RemoveOrder, SP!RemoveOrder, S!Send, SP!Send, S!OrderReject,
               SP!OrderReject, S!OnKilledAccount, SP!OnKilledAccount, S!Killed, SP!Killed,
               S!Signed, SP!Signed, S!IsAlive, SP!IsAlive, S!Total, SP!Total, S!AtMost,
               SP!AtMost, S!Reap, SP!Reap, S!Dead, SP!Dead, S!Unreserve, SP!Unreserve,
               S!RepatriateFails, SP!RepatriateFails, S!Repatriate, SP!Repatriate
  <2> QED
    BY <2>1 DEF SP!Next, SP!Dispatch
<1>4. ASSUME NEW d \in Device, NEW onoff \in BOOLEAN, S!Done(d, onoff)
      PROVE  SP!Next
  <2>1. SP!Done(d, onoff)
    BY <1>4 DEF S!Done, SP!Done, S!Switch, SP!Switch, S!LedgerAfterDone,
               SP!LedgerAfterDone, S!IsLocal, SP!IsLocal, S!RemoveOrder, SP!RemoveOrder,
               S!Send, SP!Send, S!OrderDone, SP!OrderDone, S!OnKilledAccount,
               SP!OnKilledAccount, S!Killed, SP!Killed, S!Signed, SP!Signed, S!IsAlive,
               SP!IsAlive, S!Total, SP!Total, S!AtMost, SP!AtMost, S!Reap, SP!Reap,
               S!Dead, SP!Dead, S!Unreserve, SP!Unreserve, S!RepatriateFails,
               SP!RepatriateFails, S!Repatriate, SP!Repatriate
  <2> QED
    BY <2>1 DEF SP!Next, SP!Dispatch
<1>5. ASSUME NEW d \in Device, NEW onoff \in BOOLEAN, S!SetState(d, onoff)
      PROVE  SP!Next
  <2>1. SP!SetState(d, onoff)
    BY <1>5 DEF S!SetState, SP!SetState, S!Switch, SP!Switch, S!Signed, SP!Signed,
               S!IsAlive, SP!IsAlive, S!Total, SP!Total
  <2> QED
    BY <2>1 DEF SP!Next, SP!Dispatch
<1>6. ASSUME NEW d \in Device, NEW penalty \in Penalties, NEW wcd \in Wcds, NEW onoff \in BOOLEAN,
             S!Register(d, penalty, wcd, onoff)
      PROVE  SP!Next
  <2>1. SP!Register(d, penalty, wcd, onoff)
    BY <1>6 DEF S!Register, SP!Register, S!Switch, SP!Switch, S!Signed, SP!Signed,
               S!IsAlive, SP!IsAlive, S!Total, SP!Total
  <2> QED
    BY <2>1 DEF SP!Next, SP!Dispatch
<1> QED
  BY <1>1, <1>2, <1>3, <1>4, <1>5, <1>6 DEF ServiceCall

-------------------------------------------------------------------------------
(* The types, and a device for every open order in both pallets            *)

(* Each pallet keeps its own promises; the orders of the service pallet    *)
(* are those placed here.                                                  *)
BothRegistered ==
    /\ XP!Registered
    /\ SP!Registered
    /\ \A d \in Device : sorders[d] # None => sorders[d].paraid = SelfParaId

(* The two pallets agree on the ledger, the clock and the queue.           *)
LEMMA SameTypes ==
    /\ XP!Ledger = SP!Ledger
    /\ XP!Moment = SP!Moment
    /\ XP!Outbound = SP!Outbound
    /\ \A b : XP!Reaped(b) <=> SP!Reaped(b)
<1>1. XP!Ledger = SP!Ledger /\ XP!Moment = SP!Moment
  BY DEF XP!Ledger, SP!Ledger, XP!Balance, SP!Balance, XP!Moment, SP!Moment
<1>2. XP!Outbound = SP!Outbound
  BY <1>1 DEF XP!Outbound, SP!Outbound, XP!Message, SP!Message, XP!NewOrders, SP!NewOrders,
              XP!Answers, SP!Answers, XP!Garbage, SP!Garbage, XP!OrderBase, SP!OrderBase
<1>3. \A b : XP!Reaped(b) <=> SP!Reaped(b)
  BY DEF XP!Reaped, SP!Reaped, XP!IsAlive, SP!IsAlive, XP!Total, SP!Total
<1> QED
  BY <1>1, <1>2, <1>3

LEMMA RegisteredInit == Init => BothRegistered
<1> SUFFICES ASSUME Init PROVE BothRegistered
  OBVIOUS
<1>1. XP!Init
  BY DEF Init, X!Init, XP!Init
<1>2. SP!Init
  BY DEF Init, S!Init, SP!Init
<1>3. XP!IInv
  BY <1>1, XchangeAssumptions, DepositAssumption, AccountsAssumption, ParaIdAssumption,
     AmountsAssumption, MomentAssumption, OutboxAssumption, XP!InvInit
<1>4. SP!IInv
  BY <1>2, ServiceAssumptions, DepositAssumption, AccountsAssumption, ParaIdAssumption,
     AmountsAssumption, MomentAssumption, OutboxAssumption, SP!InvInit
<1> QED
  BY <1>2, <1>3, <1>4 DEF BothRegistered, XP!IInv, SP!IInv, SP!Init

LEMMA XchangeKeeps ==
    ASSUME BothRegistered, [XP!Next]_(XP!vars), UNCHANGED <<sdevice, sorders>>
    PROVE  BothRegistered'
<1>1. XP!Registered'
  BY XchangeAssumptions, DepositAssumption, AccountsAssumption, ParaIdAssumption,
     AmountsAssumption, MomentAssumption, OutboxAssumption, XP!RegisteredStep
     DEF BothRegistered
<1>2. SP!TypeOK'
  <2>1. /\ now' \in XP!Moment /\ bal' \in XP!Ledger /\ XP!Reaped(bal')
        /\ outbox' \in Seq(XP!Outbound)
    BY <1>1 DEF XP!Registered, XP!TypeOK, XP!Reaped, XP!IsAlive
  <2>2. /\ now' \in SP!Moment /\ bal' \in SP!Ledger /\ SP!Reaped(bal')
        /\ outbox' \in Seq(SP!Outbound)
    BY <2>1, SameTypes
  <2> QED
    BY <2>2 DEF BothRegistered, SP!Registered, SP!TypeOK
<1>3. SP!OrderHasDevice'
  BY DEF BothRegistered, SP!Registered, SP!OrderHasDevice
<1> QED
  BY <1>1, <1>2, <1>3 DEF BothRegistered, SP!Registered

LEMMA ServiceKeeps ==
    ASSUME BothRegistered, SP!Next, UNCHANGED <<cdevice, corders>>
    PROVE  BothRegistered'
<1>1. SP!Registered'
  BY ServiceAssumptions, DepositAssumption, AccountsAssumption, ParaIdAssumption,
     AmountsAssumption, MomentAssumption, OutboxAssumption, SP!RegisteredStep
     DEF BothRegistered
<1>2. XP!TypeOK'
  <2>1. /\ now' \in SP!Moment /\ bal' \in SP!Ledger /\ SP!Reaped(bal')
        /\ outbox' \in Seq(SP!Outbound)
    BY <1>1 DEF SP!Registered, SP!TypeOK, SP!Reaped, SP!IsAlive
  <2>2. /\ now' \in XP!Moment /\ bal' \in XP!Ledger /\ XP!Reaped(bal')
        /\ outbox' \in Seq(XP!Outbound)
    BY <2>1, SameTypes
  <2> QED
    BY <2>2 DEF BothRegistered, XP!Registered, XP!TypeOK
<1>3. XP!OrderHasDevice'
  BY DEF BothRegistered, XP!Registered, XP!OrderHasDevice
<1>4. \A d \in Device : sorders'[d] # None => sorders'[d].paraid = SelfParaId
  <2>1. CASE ~SP!Opening
    <3>1. SP!OpensNothing
      BY <2>1, ServiceAssumptions, DepositAssumption, AccountsAssumption, ParaIdAssumption,
         AmountsAssumption, MomentAssumption, OutboxAssumption, SP!OtherSteps
         DEF BothRegistered
    <3> QED
      BY <3>1 DEF SP!OpensNothing, BothRegistered
  <2>2. ASSUME NEW who \in Client, NEW d \in Device, NEW fee \in Fees, NEW until \in SP!Moment,
               NEW state \in {"Accepted"}, SP!PlaceOrder(who, d, fee, until, state)
        PROVE  \A e \in Device : sorders'[e] # None => sorders'[e].paraid = SelfParaId
    <3>1. \/ /\ sorders'[d] = [client |-> who, fee |-> fee, until |-> until, paraid |-> SelfParaId]
             /\ \A e \in Device \ {d} : sorders'[e] = sorders[e]
          \/ sorders' = sorders
      BY <2>2, ServiceAssumptions, DepositAssumption, AccountsAssumption, ParaIdAssumption,
         AmountsAssumption, MomentAssumption, OutboxAssumption, SP!PlaceEffect
         DEF BothRegistered
    <3> QED
      BY <3>1 DEF BothRegistered
  <2>3. \A state : ~SP!ReceiveOrder(state)
    BY DEF SP!ReceiveOrder
  <2> QED
    BY <2>1, <2>2, <2>3 DEF SP!Opening
<1> QED
  BY <1>1, <1>2, <1>3, <1>4 DEF BothRegistered, XP!Registered

-------------------------------------------------------------------------------
(* The fees                                                                *)

NoDustFees == \A fee \in Fees : DustFree(fee)

ClientFees(c) == XP!FeeAt(c)
ServiceFees(c) == SP!FeeAt(c)

(* The reserve of an account that is no device is what its orders in the   *)
(* two pallets cost.                                                       *)
FeesExact ==
    NoDustFees =>
        \A c \in Client \ Device :
            bal[c].reserved = SumFunctionOnSet(ClientFees(c), Device)
                              + SumFunctionOnSet(ServiceFees(c), Device)

LEMMA FeeTypes ==
    ASSUME BothRegistered, NEW c \in Client
    PROVE  /\ \A d \in Device : ClientFees(c)[d] \in Nat /\ ServiceFees(c)[d] \in Nat
           /\ NoDustFees => \A d \in Device : /\ DustFree(ClientFees(c)[d])
                                              /\ DustFree(ServiceFees(c)[d])
           /\ bal[c].reserved \in Nat
<1>1. \A d \in Device : /\ corders[d] # None => corders[d].fee \in Fees
                        /\ sorders[d] # None => sorders[d].fee \in Fees
  BY DEF BothRegistered, XP!Registered, XP!TypeOK, XP!Order, SP!Registered, SP!TypeOK, SP!Order
<1>2. bal[c].reserved \in Nat
  BY AccountsAssumption DEF BothRegistered, XP!Registered, XP!TypeOK, XP!Ledger, XP!Balance
<1> QED
  BY <1>1, <1>2, AmountsAssumption
     DEF NoDustFees, DustFree, ClientFees, ServiceFees, XP!FeeAt, SP!FeeAt

(* Two lists of fees that share a reserve cover each single fee.           *)
LEMMA SharedCover ==
    ASSUME NEW f, \A d \in Device : f[d] \in Nat /\ DustFree(f[d]),
           NEW g, \A d \in Device : g[d] \in Nat /\ DustFree(g[d]),
           NEW r, r = SumFunctionOnSet(f, Device) + SumFunctionOnSet(g, Device)
    PROVE  /\ DustFree(r)
           /\ \A d \in Device : /\ f[d] <= r /\ DustFree(r - f[d])
                                /\ g[d] <= r /\ DustFree(r - g[d])
<1> DEFINE F == SumFunctionOnSet(f, Device)
           G == SumFunctionOnSet(g, Device)
<1>1. /\ F \in Nat /\ DustFree(F)
      /\ \A d \in Device : f[d] <= F /\ DustFree(F - f[d])
  BY DeviceAssumption, SumDustFree
<1>2. /\ G \in Nat /\ DustFree(G)
      /\ \A d \in Device : g[d] <= G /\ DustFree(G - g[d])
  BY DeviceAssumption, SumDustFree
<1>3. r = F + G
  OBVIOUS
<1> HIDE DEF F, G
<1>4. ASSUME NEW x \in Nat, NEW y \in Nat, NEW z \in Nat, z <= x, DustFree(x - z), DustFree(y)
      PROVE  z <= x + y /\ DustFree((x + y) - z)
  BY <1>4, DepositAssumption DEF DustFree
<1>5. DustFree(r)
  BY <1>1, <1>2, <1>3, DepositAssumption DEF DustFree
<1>6. ASSUME NEW d \in Device
      PROVE  f[d] <= r /\ DustFree(r - f[d])
  BY <1>1, <1>2, <1>3, <1>4
<1>7. ASSUME NEW d \in Device
      PROVE  g[d] <= r /\ DustFree(r - g[d])
  <2>1. g[d] <= G + F /\ DustFree((G + F) - g[d])
    BY <1>1, <1>2, <1>4
  <2>2. r = G + F
    BY <1>1, <1>2, <1>3
  <2> QED
    BY <2>1, <2>2
<1> QED
  BY <1>5, <1>6, <1>7

LEMMA FeesExactInit == Init => FeesExact
<1> SUFFICES ASSUME Init, NEW c \in Client \ Device
             PROVE  bal[c].reserved = SumFunctionOnSet(ClientFees(c), Device)
                                      + SumFunctionOnSet(ServiceFees(c), Device)
  BY DEF FeesExact
<1>1. bal[c].reserved = 0
  BY AccountsAssumption DEF Init, X!Init
<1>2. \A d \in Device : ClientFees(c)[d] = 0 /\ ServiceFees(c)[d] = 0
  BY DEF Init, X!Init, S!Init, ClientFees, ServiceFees, XP!FeeAt, SP!FeeAt
<1>3. /\ SumFunctionOnSet(ClientFees(c), Device) = SumFunctionOnSet(ClientFees(c), {})
      /\ SumFunctionOnSet(ServiceFees(c), Device) = SumFunctionOnSet(ServiceFees(c), {})
  BY <1>2, DeviceAssumption, SumSupport
<1>4. /\ SumFunctionOnSet(ClientFees(c), {}) = 0
      /\ SumFunctionOnSet(ServiceFees(c), {}) = 0
  BY FS_EmptySet, SumUnfold
<1> QED
  BY <1>1, <1>3, <1>4

(* A step of one pallet changes the reserve by what it changes of its own  *)
(* fees, and leaves the other's fees alone.                                *)
LEMMA FeesExactStep ==
    ASSUME BothRegistered, BothRegistered', FeesExact, NoDustFees,
           \/ [XP!Next]_(XP!vars) /\ UNCHANGED <<sdevice, sorders>>
           \/ SP!Next /\ UNCHANGED <<cdevice, corders>>,
           NEW c \in Client \ Device
    PROVE  bal'[c].reserved = SumFunctionOnSet(ClientFees(c)', Device)
                              + SumFunctionOnSet(ServiceFees(c)', Device)
<1> DEFINE f == ClientFees(c)
           g == ServiceFees(c)
           f2 == ClientFees(c)'
           g2 == ServiceFees(c)'
           r == bal[c].reserved
           r2 == bal'[c].reserved
<1>1. /\ \A d \in Device : f[d] \in Nat /\ g[d] \in Nat
      /\ \A d \in Device : DustFree(f[d]) /\ DustFree(g[d])
      /\ r \in Nat
  BY FeeTypes
<1>2. (\A d \in Device : f2[d] \in Nat /\ g2[d] \in Nat) /\ r2 \in Nat
  <2>1. \A d \in Device : /\ corders'[d] # None => corders'[d].fee \in Fees
                          /\ sorders'[d] # None => sorders'[d].fee \in Fees
    BY DEF BothRegistered, XP!Registered, XP!TypeOK, XP!Order, SP!Registered, SP!TypeOK, SP!Order
  <2>2. bal'[c].reserved \in Nat
    BY AccountsAssumption DEF BothRegistered, XP!Registered, XP!TypeOK, XP!Ledger, XP!Balance
  <2> QED
    BY <2>1, <2>2, AmountsAssumption DEF ClientFees, ServiceFees, XP!FeeAt, SP!FeeAt
<1>3. r = SumFunctionOnSet(f, Device) + SumFunctionOnSet(g, Device)
  BY DEF FeesExact
<1>4. /\ DustFree(r)
      /\ \A d \in Device : /\ f[d] <= r /\ DustFree(r - f[d])
                           /\ g[d] <= r /\ DustFree(r - g[d])
  <2> HIDE DEF f, g, r
  <2> QED
    BY <1>1, <1>3, SharedCover
<1>5. /\ SumFunctionOnSet(f, Device) \in Nat /\ SumFunctionOnSet(f2, Device) \in Nat
      /\ SumFunctionOnSet(g, Device) \in Nat /\ SumFunctionOnSet(g2, Device) \in Nat
  <2> HIDE DEF f, f2, g, g2
  <2> QED
    BY <1>1, <1>2, DeviceAssumption, SumType
<1>6. CASE [XP!Next]_(XP!vars) /\ UNCHANGED <<sdevice, sorders>>
  <2>1. XP!FeesCovered(c) /\ XP!DustFree(bal[c].reserved)
    BY <1>4 DEF XP!FeesCovered, XP!DustFree, DustFree, ClientFees
  <2>2. XP!FeeMoves(c)
    BY <1>6, <2>1, XchangeAssumptions, DepositAssumption, AccountsAssumption, ParaIdAssumption,
       AmountsAssumption, MomentAssumption, OutboxAssumption, XP!CallMoves
       DEF BothRegistered
  <2>3. \/ f2 = f /\ r2 = r
        \/ \E d \in Device : (\A e \in Device \ {d} : f2[e] = f[e]) /\ r2 + f[d] = r + f2[d]
    BY <2>2 DEF XP!FeeMoves, ClientFees
  <2>4. g2 = g
    BY <1>6 DEF ServiceFees, SP!FeeAt, SP!IsLocal
  <2> HIDE DEF f, f2, g, g2, r, r2
  <2>5. r2 + SumFunctionOnSet(f, Device) = r + SumFunctionOnSet(f2, Device)
    BY <1>1, <1>2, <2>3, DeviceAssumption, SumFollows
  <2>6. r2 = SumFunctionOnSet(f2, Device) + SumFunctionOnSet(g2, Device)
    BY <1>1, <1>2, <1>3, <1>5, <2>4, <2>5
  <2> QED
    BY <2>6 DEF f2, g2, r2
<1>7. CASE SP!Next /\ UNCHANGED <<cdevice, corders>>
  <2>1. SP!FeesCovered(c)
    BY <1>4 DEF SP!FeesCovered, SP!DustFree, DustFree, ServiceFees
  <2>2. SP!FeeMoves(c)
    BY <1>7, <2>1, ServiceAssumptions, DepositAssumption, AccountsAssumption, ParaIdAssumption,
       AmountsAssumption, MomentAssumption, OutboxAssumption, SP!MovesStep
       DEF BothRegistered
  <2>3. \/ g2 = g /\ r2 = r
        \/ \E d \in Device : (\A e \in Device \ {d} : g2[e] = g[e]) /\ r2 + g[d] = r + g2[d]
    BY <2>2 DEF SP!FeeMoves, ServiceFees
  <2>4. f2 = f
    BY <1>7 DEF ClientFees, XP!FeeAt
  <2> HIDE DEF f, f2, g, g2, r, r2
  <2>5. r2 + SumFunctionOnSet(g, Device) = r + SumFunctionOnSet(g2, Device)
    BY <1>1, <1>2, <2>3, DeviceAssumption, SumFollows
  <2>6. r2 = SumFunctionOnSet(f2, Device) + SumFunctionOnSet(g2, Device)
    BY <1>1, <1>2, <1>3, <1>5, <2>4, <2>5
  <2> QED
    BY <2>6 DEF f2, g2, r2
<1> QED
  BY <1>6, <1>7

(* The fees of the orders a client has open in one pallet                  *)
LEMMA OpenFeesSum ==
    ASSUME NEW orders, NEW c, NEW f, \A d \in Device : f[d] \in Nat,
           \A d \in Device : f[d] = IF orders[d] # None /\ orders[d].client = c
                                    THEN orders[d].fee ELSE 0
    PROVE  OpenFees(orders, c) = SumFunctionOnSet(f, Device)
<1> DEFINE mine == {d \in Device : orders[d] # None /\ orders[d].client = c}
           fees == [d \in mine |-> orders[d].fee]
<1>1. /\ mine \in SUBSET Device
      /\ \A d \in Device \ mine : f[d] = 0
      /\ \A d \in mine : fees[d] = f[d]
  OBVIOUS
<1>2. OpenFees(orders, c) = SumFunctionOnSet(fees, mine)
  BY DEF OpenFees
<1> HIDE DEF mine, fees
<1>3. SumFunctionOnSet(f, Device) = SumFunctionOnSet(fees, mine)
  BY <1>1, DeviceAssumption, SumSupport
<1> QED
  BY <1>2, <1>3

LEMMA FeesExactSuffices == BothRegistered /\ FeesExact => FeesAddUp
<1> SUFFICES ASSUME BothRegistered, FeesExact, NoDustFees, NEW c \in Client \ Device
             PROVE  bal[c].reserved = OpenFees(corders, c) + OpenFees(sorders, c)
  BY DEF FeesAddUp, NoDustFees, DustFree
<1>1. OpenFees(corders, c) = SumFunctionOnSet(ClientFees(c), Device)
  BY FeeTypes, OpenFeesSum DEF ClientFees, XP!FeeAt
<1>2. OpenFees(sorders, c) = SumFunctionOnSet(ServiceFees(c), Device)
  <2>1. \A d \in Device : ServiceFees(c)[d] = IF sorders[d] # None /\ sorders[d].client = c
                                              THEN sorders[d].fee ELSE 0
    BY DEF ServiceFees, SP!FeeAt, SP!IsLocal, BothRegistered
  <2> QED
    BY <2>1, FeeTypes, OpenFeesSum
<1> QED
  BY <1>1, <1>2 DEF FeesExact

-------------------------------------------------------------------------------
(* The penalties                                                           *)

NoDustPenalties == \A penalty \in Penalties : DustFree(penalty)

(* What a device has in reserve covers its penalties in both pallets, and  *)
(* what goes beyond them is never dust: a penalty the service pallet could *)
(* not deliver stays there.                                                *)
Staked(x, s, r) == \E rest \in Nat : DustFree(rest) /\ r = x + s + rest

StakesCovered ==
    NoDustPenalties =>
        \A e \in Device \ Client : Staked(XP!Stake(e), SP!Stake(e), bal[e].reserved)

LEMMA StakedMoves ==
    ASSUME NEW x \in Nat, NEW s \in Nat, NEW r \in Nat, DustFree(x), DustFree(s),
           Staked(x, s, r)
    PROVE  /\ DustFree(r)
           /\ x <= r /\ DustFree(r - x)
           /\ s <= r /\ DustFree(r - s)
           /\ \A t, r2 \in Nat : r2 + x = r + t => Staked(t, s, r2)
           /\ \A t, r2 \in Nat : r2 + s = r + t => Staked(x, t, r2)
           /\ Staked(x, 0, r)
<1>1. PICK rest \in Nat : DustFree(rest) /\ r = x + s + rest
  BY DEF Staked
<1>2. DustFree(r) /\ x <= r /\ DustFree(r - x) /\ s <= r /\ DustFree(r - s)
  BY <1>1, DepositAssumption DEF DustFree
<1>3. ASSUME NEW t \in Nat, NEW r2 \in Nat, r2 + x = r + t
      PROVE  Staked(t, s, r2)
  <2>1. r2 = t + s + rest
    BY <1>1, <1>3
  <2> QED
    BY <1>1, <2>1 DEF Staked
<1>4. ASSUME NEW t \in Nat, NEW r2 \in Nat, r2 + s = r + t
      PROVE  Staked(x, t, r2)
  <2>1. r2 = x + t + rest
    BY <1>1, <1>4
  <2> QED
    BY <1>1, <2>1 DEF Staked
<1>5. Staked(x, 0, r)
  <2>1. s + rest \in Nat /\ DustFree(s + rest) /\ r = x + 0 + (s + rest)
    BY <1>1, DepositAssumption DEF DustFree
  <2> QED
    BY <2>1 DEF Staked
<1> QED
  BY <1>2, <1>3, <1>4, <1>5

LEMMA StakeTypes ==
    ASSUME BothRegistered, NEW e \in Device
    PROVE  /\ XP!Stake(e) \in Nat /\ SP!Stake(e) \in Nat
           /\ NoDustPenalties => DustFree(XP!Stake(e)) /\ DustFree(SP!Stake(e))
           /\ bal[e].reserved \in Nat
<1>1. corders[e] # None => cdevice[e].penalty \in Penalties
  BY DEF BothRegistered, XP!Registered, XP!TypeOK, XP!OrderHasDevice, XP!DeviceProfile
<1>2. sorders[e] # None => sdevice[e].penalty \in Penalties
  BY DEF BothRegistered, SP!Registered, SP!TypeOK, SP!OrderHasDevice, SP!DeviceProfile
<1>3. bal[e].reserved \in Nat
  BY AccountsAssumption DEF BothRegistered, XP!Registered, XP!TypeOK, XP!Ledger, XP!Balance
<1> QED
  BY <1>1, <1>2, <1>3, AmountsAssumption DEF NoDustPenalties, DustFree, XP!Stake, SP!Stake

LEMMA StakesCoveredInit == Init => StakesCovered
<1> SUFFICES ASSUME Init, NEW e \in Device \ Client
             PROVE  Staked(XP!Stake(e), SP!Stake(e), bal[e].reserved)
  BY DEF StakesCovered
<1>1. XP!Stake(e) = 0 /\ SP!Stake(e) = 0 /\ bal[e].reserved = 0
  BY AccountsAssumption DEF Init, X!Init, S!Init, XP!Stake, SP!Stake
<1> QED
  BY <1>1 DEF Staked, DustFree

LEMMA StakesCoveredStep ==
    ASSUME BothRegistered, BothRegistered', StakesCovered, NoDustPenalties,
           \/ [XP!Next]_(XP!vars) /\ UNCHANGED <<sdevice, sorders>>
           \/ SP!Next /\ UNCHANGED <<cdevice, corders>>,
           NEW e \in Device \ Client
    PROVE  Staked(XP!Stake(e)', SP!Stake(e)', bal'[e].reserved)
<1> DEFINE x == XP!Stake(e)
           s == SP!Stake(e)
           x2 == XP!Stake(e)'
           s2 == SP!Stake(e)'
           r == bal[e].reserved
           r2 == bal'[e].reserved
<1>1. x \in Nat /\ s \in Nat /\ r \in Nat /\ DustFree(x) /\ DustFree(s)
  BY StakeTypes
<1>2. x2 \in Nat /\ s2 \in Nat /\ r2 \in Nat
  <2>1. corders'[e] # None => cdevice'[e].penalty \in Penalties
    BY DEF BothRegistered, XP!Registered, XP!TypeOK, XP!OrderHasDevice, XP!DeviceProfile
  <2>2. sorders'[e] # None => sdevice'[e].penalty \in Penalties
    BY DEF BothRegistered, SP!Registered, SP!TypeOK, SP!OrderHasDevice, SP!DeviceProfile
  <2>3. bal'[e].reserved \in Nat
    BY AccountsAssumption DEF BothRegistered, XP!Registered, XP!TypeOK, XP!Ledger, XP!Balance
  <2> QED
    BY <2>1, <2>2, <2>3, AmountsAssumption DEF XP!Stake, SP!Stake
<1>3. Staked(x, s, r)
  BY DEF StakesCovered
<1>4. /\ DustFree(r)
      /\ x <= r /\ DustFree(r - x)
      /\ s <= r /\ DustFree(r - s)
      /\ \A t, q \in Nat : q + x = r + t => Staked(t, s, q)
      /\ \A t, q \in Nat : q + s = r + t => Staked(x, t, q)
      /\ Staked(x, 0, r)
  <2> HIDE DEF x, s, r
  <2> QED
    BY <1>1, <1>3, StakedMoves
<1>5. CASE [XP!Next]_(XP!vars) /\ UNCHANGED <<sdevice, sorders>>
  <2>1. XP!StakeCovered(e) /\ XP!DustFree(bal[e].reserved)
    BY <1>4 DEF XP!StakeCovered, XP!DustFree, DustFree
  <2>2. XP!StakeMoves(e)
    BY <1>5, <2>1, XchangeAssumptions, DepositAssumption, AccountsAssumption, ParaIdAssumption,
       AmountsAssumption, MomentAssumption, OutboxAssumption, XP!CallMoves
       DEF BothRegistered
  <2>3. r2 + x = r + x2
    BY <2>2 DEF XP!StakeMoves
  <2>4. s2 = s
    BY <1>5 DEF SP!Stake, SP!IsLocal
  <2> HIDE DEF x, x2, s, s2, r, r2
  <2>5. Staked(x2, s2, r2)
    BY <1>2, <1>4, <2>3, <2>4
  <2> QED
    BY <2>5 DEF x2, s2, r2
<1>6. CASE SP!Next /\ UNCHANGED <<cdevice, corders>>
  <2>1. SP!StakeCovered(e)
    BY <1>4 DEF SP!StakeCovered, SP!DustFree, DustFree
  <2>2. SP!StakeMoves(e)
    BY <1>6, <2>1, ServiceAssumptions, DepositAssumption, AccountsAssumption, ParaIdAssumption,
       AmountsAssumption, MomentAssumption, OutboxAssumption, SP!MovesStep
       DEF BothRegistered
  <2>3. r2 + s = r + s2 \/ (r2 = r /\ s2 = 0)
    BY <2>2 DEF SP!StakeMoves
  <2>4. x2 = x
    BY <1>6 DEF XP!Stake
  <2> HIDE DEF x, x2, s, s2, r, r2
  <2>5. Staked(x2, s2, r2)
    BY <1>2, <1>4, <2>3, <2>4
  <2> QED
    BY <2>5 DEF x2, s2, r2
<1> QED
  BY <1>5, <1>6

LEMMA StakesCoveredSuffices == BothRegistered /\ StakesCovered => PenaltiesAddUp
<1> SUFFICES ASSUME BothRegistered, StakesCovered, NoDustPenalties, NEW d \in Device \ Client
             PROVE  PenaltyAtStake(corders, cdevice, d) + PenaltyAtStake(sorders, sdevice, d)
                        <= bal[d].reserved
  BY DEF PenaltiesAddUp, NoDustPenalties, DustFree
<1>1. PenaltyAtStake(corders, cdevice, d) = XP!Stake(d)
  BY DEF PenaltyAtStake, XP!Stake
<1>2. PenaltyAtStake(sorders, sdevice, d) = SP!Stake(d)
  BY DEF PenaltyAtStake, SP!Stake, SP!IsLocal, BothRegistered
<1>3. PICK rest \in Nat : bal[d].reserved = XP!Stake(d) + SP!Stake(d) + rest
  BY DEF StakesCovered, Staked
<1>4. XP!Stake(d) \in Nat /\ SP!Stake(d) \in Nat
  BY StakeTypes
<1> QED
  BY <1>1, <1>2, <1>3, <1>4

-------------------------------------------------------------------------------
(* The two sums hold of the runtime                                        *)

Inv == BothRegistered /\ FeesExact /\ StakesCovered

LEMMA InvInit == Init => Inv
BY RegisteredInit, FeesExactInit, StakesCoveredInit DEF Inv

LEMMA InvStep == Inv /\ [Next]_vars => Inv'
<1> SUFFICES ASSUME Inv, [Next]_vars PROVE Inv'
  OBVIOUS
<1>1. \/ [XP!Next]_(XP!vars) /\ UNCHANGED <<sdevice, sorders>>
      \/ SP!Next /\ UNCHANGED <<cdevice, corders>>
  BY XchangeSteps, ServiceSteps DEF Next
<1>2. BothRegistered'
  BY <1>1, XchangeKeeps, ServiceKeeps DEF Inv
<1>3. FeesExact'
  <2> SUFFICES ASSUME NoDustFees, NEW c \in Client \ Device
               PROVE  bal'[c].reserved = SumFunctionOnSet(ClientFees(c)', Device)
                                         + SumFunctionOnSet(ServiceFees(c)', Device)
    BY DEF FeesExact, NoDustFees, DustFree
  <2> QED
    BY <1>1, <1>2, FeesExactStep DEF Inv
<1>4. StakesCovered'
  <2> SUFFICES ASSUME NoDustPenalties, NEW e \in Device \ Client
               PROVE  Staked(XP!Stake(e)', SP!Stake(e)', bal'[e].reserved)
    BY DEF StakesCovered, NoDustPenalties, DustFree, Staked
  <2> QED
    BY <1>1, <1>2, StakesCoveredStep DEF Inv
<1> QED
  BY <1>2, <1>3, <1>4 DEF Inv

(* What a client has in reserve is, to the unit, the fees of its orders in *)
(* both pallets: neither releases or pays out what the other reserved.     *)
THEOREM FeesAddUpHolds == Spec => []FeesAddUp
<1>1. Inv => FeesAddUp
  BY FeesExactSuffices DEF Inv
<1> QED
  BY <1>1, InvInit, InvStep, PTL DEF Spec

(* A device that serves in both pallets keeps both penalties in reserve,   *)
(* whatever a settlement in one of them takes.                             *)
THEOREM PenaltiesAddUpHolds == Spec => []PenaltiesAddUp
<1>1. Inv => PenaltiesAddUp
  BY StakesCoveredSuffices DEF Inv
<1> QED
  BY <1>1, InvInit, InvStep, PTL DEF Spec
===============================================================================
