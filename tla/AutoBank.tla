-------------------------------- MODULE AutoBank --------------------------------
(***************************************************************************)
(* The two chains together: the client chain runs Xchange, the service     *)
(* chain runs XchangeService, and what one pallet gives to its             *)
(* XcmpMessageSender is what the other's handle_xcmp_messages reads, in    *)
(* order and at most once.  Every chain has its own ledger, over the same  *)
(* account ids, and its own clock.                                         *)
(*                                                                         *)
(* The pallets' handlers are composed here the way the pallets are written *)
(* for; the runtime of this repository leaves them unconnected.            *)
(*                                                                         *)
(* Two habits of the accounts can be switched on; the properties below     *)
(* that speak of fees need both.                                           *)
(***************************************************************************)
EXTENDS Common, Functions

CONSTANTS
    ClientPara, ServicePara,   \* the two parachains' ids
    ClientEndowment,           \* genesis balances of the client chain
    ServiceEndowment,          \* genesis balances of the service chain
    OnReceived,                \* outcomes of the service chain's hook
    MaxBatch,                  \* blobs one delivery brings
    CarefulClients,            \* clients keep the existential deposit free
    QuietRebind                \* a known device registers again on the client
                               \* chain only when no order of it is under way

ASSUME BankAssumption ==
    /\ ClientPara \in ParaId
    /\ ServicePara \in ParaId
    /\ ClientPara # ServicePara
    /\ ClientEndowment \in [Account -> Nat]
    /\ ServiceEndowment \in [Account -> Nat]
    /\ \A a \in Account : ClientEndowment[a] = 0 \/ ClientEndowment[a] >= ExistentialDeposit
    /\ \A a \in Account : ServiceEndowment[a] = 0 \/ ServiceEndowment[a] >= ExistentialDeposit
    /\ OnReceived \subseteq {"Busy", "Accepted", None}
    /\ None \notin {"Busy", "Accepted"}
    /\ MaxBatch \in Nat
    /\ CarefulClients \in BOOLEAN
    /\ QuietRebind \in BOOLEAN

(* None is none of the records Escrow and Exchange are told of, below.     *)
ASSUME RecordAssumption ==
    /\ None \notin [client : Client, fee : Nat, until : Nat, penalty : Nat]
    /\ None \notin [client : Client, fee : Nat, until : Nat]
    /\ None \notin [at : {"request", "service"},
                     order : [client : Client, fee : Nat, until : Nat]]
    /\ None \notin [at : {"answer"}, client : Client]

VARIABLES
    cnow, cbal, cdevice, corders, cbatch, toService,   \* the client chain
    snow, sbal, sdevice, sorders, sbatch, toClient     \* the service chain

cvars == <<cnow, cbal, cdevice, corders, cbatch, toService>>
svars == <<snow, sbal, sdevice, sorders, sbatch, toClient>>
vars == <<cvars, svars>>

FromClientChain == [sender : {ClientPara}, msg : Message]

C == INSTANCE Xchange WITH
        now <- cnow, bal <- cbal, device <- cdevice, orders <- corders,
        batch <- cbatch, outbox <- toService,
        Endowment <- ClientEndowment, KilledHook <- FALSE,
        Incoming <- Message, TestParaId <- ServicePara

S == INSTANCE XchangeService WITH
        now <- snow, bal <- sbal, device <- sdevice, orders <- sorders,
        batch <- sbatch, outbox <- toClient,
        Endowment <- ServiceEndowment, SelfParaId <- ServicePara,
        KilledHook <- FALSE, Incoming <- FromClientChain

Init == C!Init /\ S!Init

-------------------------------------------------------------------------------
(* What is under way about a device                                        *)

Elements(s) == {s[i] : i \in DOMAIN s}

(* Orders that have left the client chain and are not read yet             *)
OrdersInTransit(d) ==
    {i \in DOMAIN toService : /\ toService[i].msg.type = "NewOrder"
                              /\ toService[i].msg.order.device = d}
OrdersInBatch(d) ==
    {i \in DOMAIN sbatch : /\ sbatch[i].msg.type = "NewOrder"
                           /\ sbatch[i].msg.order.device = d}

(* Closing answers that have left the service chain and are not read yet   *)
IsClosing(msg, d) == msg.type \in {"OrderReject", "OrderDone"} /\ msg.device = d
AnswersInTransit(d) == {i \in DOMAIN toClient : IsClosing(toClient[i].msg, d)}
AnswersInBatch(d) == {i \in DOMAIN cbatch : IsClosing(cbatch[i], d)}

ServedRemotely(d) == sorders[d] # None /\ sorders[d].paraid = ClientPara

Quiet(d) ==
    /\ OrdersInTransit(d) = {} /\ OrdersInBatch(d) = {}
    /\ AnswersInTransit(d) = {} /\ AnswersInBatch(d) = {}
    /\ ~ServedRemotely(d)

-------------------------------------------------------------------------------
(* Steps of the client chain                                               *)

ClientOrders(who, base) ==
    /\ CarefulClients => cbal[who].free - base.fee >= ExistentialDeposit
    /\ C!PlaceOrder(who, base)
    /\ UNCHANGED svars

ClientCancels(who, d) == C!Cancel(who, d) /\ UNCHANGED svars

DeviceRegisters(d, penalty, wcd, onoff) ==
    /\ QuietRebind /\ cdevice[d] # None => Quiet(d)
    /\ C!Register(d, ServicePara, penalty, wcd, onoff)
    /\ UNCHANGED svars

ClientTest == C!Test /\ UNCHANGED svars

ClientHandles == C!Handle /\ UNCHANGED svars

ClientTick == C!Tick /\ UNCHANGED svars

(* The relay chain hands the client chain the next answers.                *)
DeliverAnswers(n) ==
    /\ n <= Len(toClient)
    /\ C!BeginBatch([i \in 1 .. n |-> toClient[i].msg])
    /\ toClient' = SubSeq(toClient, n + 1, Len(toClient))
    /\ UNCHANGED <<snow, sbal, sdevice, sorders, sbatch>>

ClientChain ==
    \/ \E who \in Client, base \in OrderBase : ClientOrders(who, base)
    \/ \E who \in Client, d \in Device : ClientCancels(who, d)
    \/ \E d \in Device, penalty \in Penalties, wcd \in Wcds, onoff \in BOOLEAN :
            DeviceRegisters(d, penalty, wcd, onoff)
    \/ ClientTest
    \/ ClientHandles
    \/ ClientTick
    \/ \E n \in 1 .. MaxBatch : DeliverAnswers(n)

-------------------------------------------------------------------------------
(* Steps of the service chain                                              *)

ServiceDispatch ==
    /\ \/ \E who \in Client, d \in Device, fee \in Fees, until \in Moment, state \in OnReceived :
                /\ CarefulClients => sbal[who].free - fee >= ExistentialDeposit
                /\ S!PlaceOrder(who, d, fee, until, state)
       \/ \E who \in Client, d \in Device : S!Cancel(who, d)
       \/ \E d \in Device : S!Accept(d)
       \/ \E d \in Device, onoff \in BOOLEAN : S!Reject(d, onoff)
       \/ \E d \in Device, onoff \in BOOLEAN : S!Done(d, onoff)
       \/ \E d \in Device, penalty \in Penalties, wcd \in Wcds, onoff \in BOOLEAN :
                S!Register(d, penalty, wcd, onoff)
       \/ \E d \in Device, onoff \in BOOLEAN : S!SetState(d, onoff)
    /\ UNCHANGED cvars

ServiceHandles == S!Handle /\ UNCHANGED cvars

ServiceTick == S!Tick /\ UNCHANGED cvars

(* The relay chain hands the service chain the next orders.                *)
DeliverOrders(n) ==
    /\ n <= Len(toService)
    /\ S!BeginBatch([i \in 1 .. n |-> [sender |-> ClientPara, msg |-> toService[i].msg]])
    /\ toService' = SubSeq(toService, n + 1, Len(toService))
    /\ UNCHANGED <<cnow, cbal, cdevice, corders, cbatch>>

ServiceChain ==
    \/ ServiceDispatch
    \/ ServiceHandles
    \/ ServiceTick
    \/ \E n \in 1 .. MaxBatch : DeliverOrders(n)

Next == ClientChain \/ ServiceChain

Spec == Init /\ [][Next]_vars

(* Every block carries a timestamp, a message that has arrived is handled, *)
(* and the clients keep trying to cancel what is overdue, on both chains.  *)
(* Nothing is asked of the devices or of the channels.                     *)
Fairness ==
    /\ SF_vars(ClientTick)
    /\ SF_vars(ServiceTick)
    /\ WF_vars(ClientHandles)
    /\ WF_vars(ServiceHandles)
    /\ \A who \in Client, d \in Device :
            /\ SF_vars(ClientCancels(who, d))
            /\ SF_vars(S!Cancel(who, d) /\ UNCHANGED cvars)

FairSpec == Spec /\ Fairness

-------------------------------------------------------------------------------
(* Properties                                                              *)

(* Both chains keep their types; a message only travels to the other chain *)
(* of the pair.                                                            *)
TypeOK ==
    /\ C!TypeOK
    /\ S!TypeOK
    /\ \A m \in Elements(toService) : m.dest = ServicePara
    /\ \A m \in Elements(toClient) : m.dest = ClientPara

(* About a device at most one thing is under way at a time: its order on   *)
(* the way, or being served, or a closing answer on the way back.          *)
OneUnderWay ==
    \A d \in Device :
        Cardinality(OrdersInTransit(d)) + Cardinality(OrdersInBatch(d))
        + (IF ServedRemotely(d) THEN 1 ELSE 0)
        + Cardinality(AnswersInTransit(d)) + Cardinality(AnswersInBatch(d)) <= 1

(* No mistaken identity: messages carry no order number, yet what is       *)
(* served, travels or comes back for a device with an open order on the    *)
(* client chain is that very order.                                        *)
SameOrder ==
    \A d \in Device : corders[d] # None =>
        /\ ServedRemotely(d) => sorders[d] = [corders[d] EXCEPT !.paraid = ClientPara]
        /\ \A i \in OrdersInTransit(d) :
                toService[i].msg = NewOrder(corders[d].client, ToBase(corders[d], d))
        /\ \A i \in OrdersInBatch(d) :
                sbatch[i].msg = NewOrder(corders[d].client, ToBase(corders[d], d))
        /\ \A i \in AnswersInTransit(d) : toClient[i].msg.client = corders[d].client
        /\ \A i \in AnswersInBatch(d) : cbatch[i].client = corders[d].client

(* A client's reserve on the client chain is the sum of the fees of its    *)
(* open orders, to the unit: no fee is spent twice and none is stranded.   *)
FeesHeld ==
    \A c \in Client \ Device :
        LET mine == {d \in Device : corders[d] # None /\ corders[d].client = c}
        IN  cbal[c].reserved = SumFunctionOnSet([d \in mine |-> corders[d].fee], mine)

(* An OrderDone that finds its order open closes it: the device receives   *)
(* the fee from the client, less its penalty when it is late.              *)
DonePaysStep ==
    \A d \in Device \ Client :
        LET order == corders[d]
            forfeit == IF cnow >= order.until THEN cdevice[d].penalty ELSE 0
        IN  /\ cbatch # <<>>
            /\ IsClosing(Head(cbatch), d)
            /\ Head(cbatch).type = "OrderDone"
            /\ cbatch' = Tail(cbatch)
            /\ order # None
            => /\ corders'[d] = None
               /\ Total(cbal'[d]) = S!LessDust(Total(cbal[d]) + order.fee - forfeit)
               /\ Total(cbal'[order.client]) = Total(cbal[order.client]) + forfeit - order.fee
DonePays == [][DonePaysStep]_vars

(* The client chain keeps its orders as Escrow promises, whatever the      *)
(* service chain answers and however late.                                 *)
E == INSTANCE Escrow WITH
        now <- cnow,
        total <- [a \in Account |-> Total(cbal[a])],
        contract <- [d \in Device |->
            IF corders[d] = None THEN None
            ELSE [client |-> corders[d].client, fee |-> corders[d].fee,
                  until |-> corders[d].until, penalty |-> cdevice[d].penalty]]
KeepsEscrow == E!Spec

(* The two chains and their channels are the Exchange: what is under way   *)
(* about a device is one token, from its order to the answer that closes   *)
(* that very order.                                                        *)
Terms(client, order) == [client |-> client, fee |-> order.fee, until |-> order.until]

UnderWay(d) ==
    LET requests == {toService[i].msg : i \in OrdersInTransit(d)}
                    \cup {sbatch[i].msg : i \in OrdersInBatch(d)}
        answers == {toClient[i].msg : i \in AnswersInTransit(d)}
                   \cup {cbatch[i] : i \in AnswersInBatch(d)}
    IN  {[at |-> "request", order |-> Terms(msg.client, msg.order)] : msg \in requests}
        \cup {[at |-> "service", order |-> Terms(o.client, o)] :
                o \in IF ServedRemotely(d) THEN {sorders[d]} ELSE {}}
        \cup {[at |-> "answer", client |-> msg.client] : msg \in answers}

X == INSTANCE Exchange WITH
        now <- cnow,
        order <- [d \in Device |->
            IF corders[d] = None THEN None ELSE Terms(corders[d].client, corders[d])],
        token <- [d \in Device |->
            LET under == UnderWay(d)
            IN  IF under = {} THEN None ELSE CHOOSE t \in under : TRUE]
ImplementsExchange == X!Spec

(* Every order a client places is closed in the end, by an answer or by    *)
(* its client, even when its device never answers or every message about   *)
(* it is lost.                                                             *)
EveryOrderCloses == \A d \in Device : corders[d] # None ~> corders[d] = None

(* The service chain lets go of every order as well, if its client has an  *)
(* account there.                                                          *)
EveryServiceEnds == \A d \in Device : sorders[d] # None ~> sorders[d] = None
===============================================================================
