-------------------------------- MODULE XcmPath --------------------------------
(***************************************************************************)
(* The way of an XCM message through the runtime: who may send one         *)
(* (pallet_xcm and the pallets), and what the chain that receives it does  *)
(* with it: barrier, weigher, fees, and the origin of a Transact           *)
(* (runtime/src/lib.rs).  Every Chain runs this runtime; the relay chain   *)
(* and the Foreign parachains may send any of Programs.                    *)
(*                                                                         *)
(* A location is the sequence of what it is made of: <<p>> is the chain p, *)
(* <<p, x>> somebody on it, <<>> the origin that has been cleared.  The    *)
(* sovereign account of a chain p is called p.  All assets are the         *)
(* fungible that RelayLocation names.                                      *)
(***************************************************************************)
EXTENDS Integers, SequencesExt, FiniteSetsExt

CONSTANTS
    Chain, Foreign, Relay, \* parachains of this runtime, others, the parent
    User,                  \* account holders on every chain
    Executive,             \* the parent's executive plurality
    Programs,              \* what users and others try to have executed
    Call, CallWeight,      \* calls of the runtime, their weights
    UnitWeightCost,        \* of one instruction
    Funds, Savings,        \* of each sovereign account, of each user
    TeleportAmount,
    MaxSent,               \* bound: number of messages
    Unlimited, None

Party == Chain \cup Foreign \cup {Relay}

ASSUME XcmAssumption ==
    /\ {UnitWeightCost, TeleportAmount} \subseteq Nat \ {0}
    /\ {Funds, Savings, MaxSent} \subseteq Nat
    /\ CallWeight \in [Call -> Nat]
    /\ Unlimited \notin Nat

(* Names say what they name, and there are finitely many accounts.         *)
ASSUME NameAssumption ==
    /\ Relay \notin Chain \cup Foreign
    /\ Chain \cap Foreign = {}
    /\ User \cap Party = {}
    /\ None \notin User \cup Party
    /\ IsFiniteSet(User \cup Party)

VARIABLES
    bal,      \* by chain: the free balance of each account
    trapped,  \* by chain: assets pallet_xcm keeps after a message has failed
    channel,  \* by sender and chain: messages on their way
    done,     \* what the last message received has come to, or None
    sent      \* number of messages sent

vars == <<bal, trapped, channel, done, sent>>

Init ==
    /\ bal = [c \in Chain |-> [a \in User \cup Party |-> IF a \in User THEN Savings ELSE Funds]]
    /\ trapped = [c \in Chain |-> 0]
    /\ channel = [p \in Party |-> [c \in Chain |-> <<>>]]
    /\ done = None
    /\ sent = 0

-------------------------------------------------------------------------------
(* Instructions                                                            *)

WithdrawAsset(n) == [op |-> "WithdrawAsset", amount |-> n]
ReserveAssetDeposited(n) == [op |-> "ReserveAssetDeposited", amount |-> n]
ReceiveTeleportedAsset(n) == [op |-> "ReceiveTeleportedAsset", amount |-> n]
ClearOrigin == [op |-> "ClearOrigin"]
DescendOrigin(x) == [op |-> "DescendOrigin", interior |-> x]
BuyExecution(n, limit) == [op |-> "BuyExecution", fees |-> n, limit |-> limit]
Transact(kind, n, call) == [op |-> "Transact", kind |-> kind, atMost |-> n, call |-> call]
DepositAsset(a) == [op |-> "DepositAsset", to |-> a]

Kind == {"SovereignAccount", "Native", "Superuser", "Xcm"}

Instruction ==
    [op : {"WithdrawAsset", "ReserveAssetDeposited", "ReceiveTeleportedAsset"}, amount : Nat]
    \cup [op : {"ClearOrigin"}]
    \cup [op : {"DescendOrigin"}, interior : User \cup {Executive}]
    \cup [op : {"BuyExecution"}, fees : Nat, limit : Nat \cup {Unlimited}]
    \cup [op : {"Transact"}, kind : Kind, atMost : Nat, call : Call \cup {None}]
    \cup [op : {"DepositAsset"}, to : User \cup Party]

ASSUME ProgramAssumption == Programs \subseteq Seq(Instruction)

(* FixedWeightBounds                                                       *)
InstrWeight(i) == UnitWeightCost + (IF i.op = "Transact" THEN i.atMost ELSE 0)
Weight(program) == FoldLeft(LAMBDA w, i : w + InstrWeight(i), 0, program)

-------------------------------------------------------------------------------
(* Barrier                                                                 *)

(* The position of the BuyExecution that pays for the program, if it is    *)
(* where AllowTopLevelPaidExecutionFrom wants it and buys enough.          *)
Pays(program) ==
    {j \in 2 .. Len(program) :
        /\ program[1].op \in {"WithdrawAsset", "ReserveAssetDeposited", "ReceiveTeleportedAsset"}
        /\ \A i \in 2 .. j - 1 : program[i].op = "ClearOrigin"
        /\ program[j].op = "BuyExecution"
        /\ program[j].limit = Unlimited \/ program[j].limit >= Weight(program)}

(* Mutated: every location executes for free.                              *)
FreeForAll(origin) == TRUE
ParentOrParentsExecutivePlurality(origin) == origin \in {<<Relay>>, <<Relay, Executive>>}

(* Nothing has weight credit but a program without instructions.           *)
Barrier(origin, program) ==
    \/ program = <<>>
    \/ Pays(program) # {}
    \/ ParentOrParentsExecutivePlurality(origin)

(* A limit that the barrier has accepted becomes the program's weight.     *)
Limited(program) ==
    [j \in DOMAIN program |-> IF j \in Pays(program)
                              THEN [program[j] EXCEPT !.limit = Weight(program)]
                              ELSE program[j]]

-------------------------------------------------------------------------------
(* The executor                                                            *)

(* LocationToAccountId: chains have an account, what is inside them none.  *)
HasAccount(origin) == Len(origin) = 1

(* Mutated: any chain passes for the parent.                               *)
AnyChain(origin) == Len(origin) = 1
RelayChainAsNative(origin) == origin = <<Relay>>

(* XcmOriginToTransactDispatchOrigin                                       *)
DispatchOrigin(origin, kind) ==
    CASE kind = "SovereignAccount" /\ HasAccount(origin) -> <<"Signed", origin[1]>>
      [] kind = "Native" /\ RelayChainAsNative(origin) -> <<"Relay">>
      [] kind = "Native" /\ ~RelayChainAsNative(origin) /\ Len(origin) = 1 -> <<"SiblingParachain", origin[1]>>
      [] kind = "Xcm" /\ origin # <<>> -> <<"Xcm">> \o origin
      [] OTHER -> None

(* NativeAsset, with RelayLocation the only asset.                         *)
IsReserve(origin) == origin = <<Relay>>

(* Nobody.  Mutated: every chain.                                          *)
TrustAll(origin) == TRUE
IsTeleporter(origin) == FALSE

(* UsingComponents with IdentityFee; mutated: what is held is not looked at.*)
OffersEnough(vm, i) == i.fees >= i.limit
CanBuy(vm, i) == vm.holding >= i.fees /\ i.fees >= i.limit

Succeeds(vm, i) ==
    CASE i.op = "WithdrawAsset" -> HasAccount(vm.origin) /\ vm.bal[vm.origin[1]] >= i.amount
      [] i.op = "ReserveAssetDeposited" -> IsReserve(vm.origin)
      [] i.op = "ReceiveTeleportedAsset" -> vm.origin # <<>> /\ IsTeleporter(vm.origin)
      [] i.op = "DescendOrigin" -> vm.origin # <<>>
      [] i.op = "BuyExecution" -> i.limit = Unlimited \/ CanBuy(vm, i)
      [] i.op = "Transact" ->
            /\ DispatchOrigin(vm.origin, i.kind) # None
            /\ i.call \in Call
            /\ CallWeight[i.call] <= i.atMost
      [] OTHER -> TRUE

Effect(vm, i) ==
    CASE i.op = "WithdrawAsset" ->
            [vm EXCEPT !.bal[vm.origin[1]] = @ - i.amount, !.holding = @ + i.amount]
      [] i.op \in {"ReserveAssetDeposited", "ReceiveTeleportedAsset"} ->
            [vm EXCEPT !.holding = @ + i.amount]
      [] i.op = "ClearOrigin" -> [vm EXCEPT !.origin = <<>>]
      [] i.op = "DescendOrigin" -> [vm EXCEPT !.origin = Append(@, i.interior)]
      [] i.op = "BuyExecution" ->
            IF i.limit = Unlimited THEN vm
            ELSE [vm EXCEPT !.holding = @ - i.limit, !.bought = @ + i.limit]
      [] i.op = "Transact" ->
            [vm EXCEPT !.as = @ \cup {DispatchOrigin(vm.origin, i.kind)},
                       !.surplus = @ + i.atMost - CallWeight[i.call]]
      [] i.op = "DepositAsset" ->
            [vm EXCEPT !.bal[i.to] = @ + vm.holding, !.holding = 0]

(* After an error nothing more is executed; the weight not used is surplus.*)
Step(vm, i) ==
    IF ~vm.ok THEN [vm EXCEPT !.surplus = @ + InstrWeight(i)]
    ELSE IF Succeeds(vm, i) THEN Effect(vm, i)
    ELSE [vm EXCEPT !.ok = FALSE]

Execute(c, p, program) ==
    FoldLeft(Step,
             [origin |-> <<p>>, holding |-> 0, bal |-> bal[c], bought |-> 0,
              as |-> {}, surplus |-> 0, ok |-> TRUE],
             Limited(program))

-------------------------------------------------------------------------------
(* Actions                                                                 *)

Post(p, c, by, program) ==
    /\ sent < MaxSent
    /\ sent' = sent + 1
    /\ done' = None
    /\ channel' = [channel EXCEPT ![p][c] = Append(@, [by |-> by, program |-> program])]

(* What xchange and xchange-service send: an XCMPMessage in the place of a *)
(* call; its bytes may or may not decode as one.  Who a message is by: a   *)
(* user of the chain it is from, another chain, or None, this runtime.     *)
PalletSends(p, c) ==
    /\ p # c
    /\ \E call \in Call \cup {None} : Post(p, c, None, <<Transact("Native", 0, call)>>)
    /\ UNCHANGED <<bal, trapped>>

(* PolkadotXcm::send, open to every signed origin; mutated: it does not    *)
(* say who on the chain the message is from.                               *)
SendAsChain(u, p, c) ==
    /\ p # c
    /\ \E program \in Programs : Post(p, c, u, program)
    /\ UNCHANGED <<bal, trapped>>
UserSends(u, p, c) ==
    /\ p # c
    /\ \E program \in Programs : Post(p, c, u, <<DescendOrigin(u)>> \o program)
    /\ UNCHANGED <<bal, trapped>>

(* PolkadotXcm::teleport_assets                                            *)
UserTeleports(u, p, c) ==
    /\ p # c
    /\ bal[p][u] >= TeleportAmount
    /\ bal' = [bal EXCEPT ![p][u] = @ - TeleportAmount]
    /\ Post(p, c, None, <<ReceiveTeleportedAsset(TeleportAmount), ClearOrigin,
                          BuyExecution(TeleportAmount, Unlimited), DepositAsset(u)>>)
    /\ UNCHANGED trapped

OtherSends(p, c) ==
    /\ \E program \in Programs : Post(p, c, p, program)
    /\ UNCHANGED <<bal, trapped>>

(* XcmpQueue and DmpQueue hand a message over with its chain as origin.    *)
(* What it holds in the end, and the fee for weight it did not use, is     *)
(* trapped; the rest of the fee is burnt.                                  *)
Receive(p, c) ==
    /\ channel[p][c] # <<>>
    /\ LET program == Head(channel[p][c]).program
           vm == Execute(c, p, program)
       IN  IF Barrier(<<p>>, program)
           THEN /\ bal' = [bal EXCEPT ![c] = vm.bal]
                /\ trapped' = [trapped EXCEPT ![c] = @ + vm.holding + Min({vm.surplus, vm.bought})]
                /\ done' = [at |-> c, from |-> p, as |-> vm.as]
           ELSE /\ done' = [at |-> c, from |-> p, as |-> {}]
                /\ UNCHANGED <<bal, trapped>>
    /\ channel' = [channel EXCEPT ![p][c] = Tail(@)]
    /\ UNCHANGED sent

Next ==
    \E c \in Chain :
        \/ \E p \in Chain : PalletSends(p, c)
        \/ \E p \in Chain, u \in User : UserSends(u, p, c) \/ UserTeleports(u, p, c)
        \/ \E p \in Foreign \cup {Relay} : OtherSends(p, c)
        \/ \E p \in Party : Receive(p, c)

Spec == Init /\ [][Next]_vars

-------------------------------------------------------------------------------
(* Properties                                                              *)

(* The message that c reads next from p, and that this step reads it.      *)
Message(p, c) == Head(channel[p][c])
Reads(p, c) == channel[p][c] # <<>> /\ channel'[p][c] = Tail(channel[p][c])

Money(c) == trapped[c] + MapThenSumSet(LAMBDA a : bal[c][a], User \cup Party)

TypeOK ==
    /\ \A c \in Chain : trapped[c] >= 0 /\ \A a \in User \cup Party : bal[c][a] >= 0
    /\ sent \in 0 .. MaxSent

(* Whatever the program does to its origin first: a call is dispatched as  *)
(* the chain that sent it, or as somebody inside it, and never as a signer *)
(* of this chain or as another chain.                                      *)
SpeaksForItself ==
    done # None =>
        \A o \in done.as :
            \/ o = <<"Relay">> /\ done.from = Relay
            \/ o \in {<<"Signed", done.from>>, <<"SiblingParachain", done.from>>}
            \/ o[1] = "Xcm" /\ o[2] = done.from

(* A chain other than the parent has paid, from its own account here, at   *)
(* least the weight of a program that dispatches something.                *)
NoFreeRide ==
    [][\A c \in Chain, p \in Party \ {Relay} :
        Reads(p, c) /\ done'.as # {} =>
            bal'[c][p] <= bal[c][p] - Weight(Message(p, c).program)]_vars

(* What a user of one chain has sent is never executed by another: the     *)
(* chain's account there is not the user's to spend.                       *)
UserSpendsNothing ==
    [][\A c, p \in Chain :
        Reads(p, c) /\ Message(p, c).by \in User =>
            done'.as = {} /\ UNCHANGED <<bal, trapped>>]_vars

(* Only the parent, the asset's reserve, can bring assets into a chain;    *)
(* no sequence of messages among parachains creates any.                   *)
NothingMinted ==
    [][\A c \in Chain : Money(c)' > Money(c) => Reads(Relay, c)]_vars

(* The pallets' messages never get past the barrier of this runtime: the   *)
(* exchange between two of these chains is as if every message were lost.  *)
PalletsUnheard ==
    [][\A c, p \in Chain :
        Reads(p, c) /\ Message(p, c).by = None /\ Message(p, c).program[1].op = "Transact" =>
            done'.as = {} /\ UNCHANGED <<bal, trapped>>]_vars

(* "No local origins on this chain are allowed to dispatch XCM             *)
(* sends/executions", says the comment on LocalOriginToLocation.  Violated *)
(* by PolkadotXcm::send.                                                   *)
NoLocalSends ==
    \A p, c \in Chain : \A m \in Range(channel[p][c]) : m.by \notin User
===============================================================================
