-------------------------------- MODULE Collation --------------------------------
(***************************************************************************)
(* Where the chains' clocks come from.  A collator whose turn it is builds *)
(* a candidate on the included head with the time of its own machine       *)
(* (node/src/service.rs), the relay chain's validators check it against    *)
(* the slot of its relay parent (CheckInherents of the runtime), and every *)
(* node checks what was included against its own machine again before it   *)
(* imports it.                                                             *)
(*                                                                         *)
(* Time is counted in slots of the relay chain, 6 seconds.                 *)
(***************************************************************************)
EXTENDS Integers, Sequences, FiniteSetsExt

CONSTANTS
    Node,          \* nodes of the parachain
    Authorities,   \* Aura's authorities, a sequence of nodes
    Offset,        \* how far each node's machine is ahead of the relay chain
    SlotDuration,  \* of the parachain: 2
    MaxDrift,      \* MAX_TIMESTAMP_DRIFT_MILLIS of pallet_timestamp
    Start,         \* when the nodes start
    LastBlock,     \* bound: no candidate is built later
    MaxTime,       \* bound: time ends here
    None

MinimumPeriod == SlotDuration \div 2

ASSUME ClockAssumption ==
    /\ Offset \in [Node -> Int]
    /\ Authorities \in Seq(Node) /\ Authorities # <<>>
    /\ SlotDuration \in Nat \ {0}
    /\ MaxDrift \in Nat
    /\ {Start, LastBlock, MaxTime} \subseteq Nat /\ Start <= MaxTime
    /\ \A n \in Node : Start + Offset[n] >= 0

VARIABLES
    time,       \* the relay chain's current slot
    relay,      \* the slot of its latest block
    head,       \* the latest included block of the parachain
    candidate,  \* by node: the candidate it has sent to the validators
    imported    \* by node: the latest block it has imported

vars == <<time, relay, head, candidate, imported>>

Block == [number : Nat, slot : Nat, now : Nat, relay : Nat]
Genesis == [number |-> 0, slot |-> 0, now |-> 0, relay |-> 0]

Init ==
    /\ time = Start
    /\ relay = Start
    /\ head = Genesis
    /\ candidate = [n \in Node |-> None]
    /\ imported = [n \in Node |-> Genesis]

(* InherentDataProvider::from_system_time and from_timestamp_and_duration  *)
SystemTime(n) == time + Offset[n]
Slot(n) == SystemTime(n) \div SlotDuration

(* Aura: authorities take turns by slot.                                   *)
Author(slot) == Authorities[(slot % Len(Authorities)) + 1]

(* create_inherent of pallet_timestamp: the machine's time, or the first   *)
(* moment the runtime takes; mutated: the machine's time is not looked at. *)
FirstTimestamp(n, parent) == parent.now + MinimumPeriod
Timestamp(n, parent) == Max({SystemTime(n), parent.now + MinimumPeriod})

(* A candidate on the included head.  In a slot that does not follow the   *)
(* parent's, pallet_aura panics and there is none; nor when the parachain  *)
(* inherent cannot be made, or the node does not have the parent yet.      *)
Collate(n) ==
    /\ time <= LastBlock
    /\ imported[n] = head
    /\ Author(Slot(n)) = n
    /\ Slot(n) > head.slot
    /\ candidate' = [candidate EXCEPT
                        ![n] = [parent |-> head,
                                block |-> [number |-> head.number + 1,
                                           slot |-> Slot(n),
                                           now |-> Timestamp(n, head),
                                           relay |-> relay]]]
    /\ UNCHANGED <<time, relay, head, imported>>

(* CheckInherents, with the time of the relay parent's slot; mutated: the  *)
(* validators look at the lower bound only, or at the slot of the parent's *)
(* relay parent.                                                           *)
NotTooEarly(c) == c.block.now >= c.parent.now + MinimumPeriod
CheckAgainstParent(c) ==
    /\ c.block.now <= c.parent.relay + MaxDrift
    /\ c.block.now >= c.parent.now + MinimumPeriod
CheckInherents(c) ==
    /\ c.block.now <= c.block.relay + MaxDrift
    /\ c.block.now >= c.parent.now + MinimumPeriod

(* validate_block; the parent must be the included head.  Mutated: any     *)
(* parent will do.  The candidates it competed with are worthless then.    *)
IncludeStale(n) ==
    /\ candidate[n] # None
    /\ CheckInherents(candidate[n])
    /\ head' = candidate[n].block
    /\ imported' = [imported EXCEPT ![n] = head']
    /\ candidate' = [candidate EXCEPT ![n] = None]
    /\ UNCHANGED <<time, relay>>
Include(n) ==
    /\ candidate[n] # None
    /\ candidate[n].parent = head
    /\ CheckInherents(candidate[n])
    /\ head' = candidate[n].block
    /\ imported' = [imported EXCEPT ![n] = head']
    /\ candidate' = [candidate EXCEPT ![n] = None]
    /\ UNCHANGED <<time, relay>>

(* The candidate is refused or not backed in time, or its collator stops.  *)
Drop(n) ==
    /\ candidate[n] # None
    /\ candidate' = [candidate EXCEPT ![n] = None]
    /\ UNCHANGED <<time, relay, head, imported>>

(* The import queue's verifier: the header's slot may be one ahead, the    *)
(* timestamp MaxDrift.  A block refused now can be imported later.         *)
(* Mutated: the import queue takes the time when it is built.              *)
VerifyAtStart(n, block) ==
    /\ block.slot <= (Start + Offset[n]) \div SlotDuration + 1
    /\ block.now <= Start + Offset[n] + MaxDrift
Verify(n, block) ==
    /\ block.slot <= Slot(n) + 1
    /\ block.now <= SystemTime(n) + MaxDrift

Import(n) ==
    /\ imported[n] # head
    /\ Verify(n, head)
    /\ imported' = [imported EXCEPT ![n] = head]
    /\ UNCHANGED <<time, relay, head, candidate>>

(* Mutated: the relay chain's slots may run ahead of time.                 *)
RelayAhead ==
    /\ relay < MaxTime
    /\ relay' = relay + 1
    /\ UNCHANGED <<time, head, candidate, imported>>
RelayBlock ==
    /\ relay < time
    /\ relay' = time
    /\ UNCHANGED <<time, head, candidate, imported>>

Tick ==
    /\ time < MaxTime
    /\ time' = time + 1
    /\ UNCHANGED <<relay, head, candidate, imported>>

Next ==
    \/ \E n \in Node : Collate(n) \/ Include(n) \/ Drop(n) \/ Import(n)
    \/ RelayBlock
    \/ Tick

Spec == Init /\ [][Next]_vars

(* Clocks run, the relay chain makes blocks, and a node keeps trying to    *)
(* import and, in its slot, to author; validators do not drop every        *)
(* candidate that passes their checks.                                     *)
Fairness ==
    /\ WF_vars(Tick)
    /\ WF_vars(RelayBlock)
    /\ \A n \in Node : WF_vars(Import(n)) /\ WF_vars(Collate(n)) /\ SF_vars(Include(n))

FairSpec == Spec /\ Fairness

-------------------------------------------------------------------------------
(* Properties                                                              *)

TypeOK ==
    /\ time \in Start .. MaxTime
    /\ relay \in Start .. time
    /\ head \in Block
    /\ candidate \in [Node -> [parent : Block, block : Block] \cup {None}]
    /\ imported \in [Node -> Block]

(* The chain's time stays close to the relay chain's, whichever collators  *)
(* took part: never further ahead than validators allow, never further     *)
(* behind than the slowest authority's machine.  Two parachains therefore  *)
(* agree about `now` up to MaxDrift and that machine's lag, for blocks on  *)
(* the same relay parent.                                                  *)
FollowsRelay ==
    head # Genesis =>
        /\ head.now <= head.relay + MaxDrift
        /\ \E n \in Node : head.now >= head.relay + Offset[n]

(* From one included block to the next, by whomever, time and slot go      *)
(* forward, the time by at least MinimumPeriod: what is overdue on a chain *)
(* stays overdue.                                                          *)
GoesForward ==
    [][head' # head => /\ head'.now >= head.now + MinimumPeriod
                       /\ head'.slot > head.slot
                       /\ head'.number = head.number + 1]_vars

(* Collators with a machine the validators do not believe, and ones that   *)
(* are behind, do not stop the chain, whatever they did before: the slot   *)
(* time ends in, if its author's clock is right, gets its block.           *)
KeepsGoing == <>(head.slot = MaxTime \div SlotDuration)

(* Every node imports what has been included, in the end, also one to      *)
(* whose machine it comes from the future.                                 *)
EveryNodeFollows == \A n \in Node : []<>(imported[n] = head)
===============================================================================
