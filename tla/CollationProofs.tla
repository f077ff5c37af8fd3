---------------------------- MODULE CollationProofs ----------------------------
(* Theorems about Collation, for any nodes, machines and authorities.      *)
EXTENDS Collation, TLAPS

(* What Max is of the two moments a candidate's time is chosen from.       *)
LEMMA MaxOfTwo ==
    ASSUME NEW a \in Int, NEW b \in Int
    PROVE  Max({a, b}) \in {a, b} /\ Max({a, b}) >= a /\ Max({a, b}) >= b
<1>1. \E x \in {a, b} : \A y \in {a, b} : x >= y
  <2>1. CASE a >= b
    BY <2>1
  <2>2. CASE b >= a
    BY <2>2
  <2> QED
    BY <2>1, <2>2
<1> QED
  BY <1>1 DEF Max

LEMMA PeriodType == MinimumPeriod \in Nat
BY ClockAssumption DEF MinimumPeriod

(* What the collators have sent: a block that follows its parent, with a   *)
(* time that is not behind the machine it was made on.                     *)
Follows(c) ==
    /\ c.block.number = c.parent.number + 1
    /\ c.block.slot > c.parent.slot
    /\ c.block.now >= c.parent.now + MinimumPeriod

CandidatesFollow ==
    \A n \in Node : candidate[n] # None =>
        /\ Follows(candidate[n])
        /\ candidate[n].block.now >= candidate[n].block.relay + Offset[n]

IInv == TypeOK /\ CandidatesFollow /\ FollowsRelay

LEMMA TimeType ==
    ASSUME TypeOK, NEW n \in Node
    PROVE  /\ Slot(n) \in Nat
           /\ SystemTime(n) \in Nat
           /\ SystemTime(n) >= relay + Offset[n]
<1>1. time \in Nat /\ time >= Start /\ relay \in Nat /\ relay <= time
  BY ClockAssumption DEF TypeOK
<1>2. Offset[n] \in Int /\ Start + Offset[n] >= 0 /\ Start \in Nat
  BY ClockAssumption
<1>3. SystemTime(n) \in Nat /\ SystemTime(n) >= relay + Offset[n]
  BY <1>1, <1>2 DEF SystemTime
<1>4. SlotDuration \in Nat \ {0}
  BY ClockAssumption
<1>5. Slot(n) \in Nat
  BY <1>3, <1>4 DEF Slot
<1> QED
  BY <1>3, <1>5

(* A new candidate.                                                        *)
LEMMA NewCandidate ==
    ASSUME IInv, NEW n \in Node, Collate(n)
    PROVE  /\ candidate'[n] \in [parent : Block, block : Block]
           /\ Follows(candidate'[n])
           /\ candidate'[n].block.now >= candidate'[n].block.relay + Offset[n]
<1> DEFINE b == [number |-> head.number + 1, slot |-> Slot(n),
                 now |-> Timestamp(n, head), relay |-> relay]
           c == [parent |-> head, block |-> b]
<1>1. candidate'[n] = c
  BY DEF Collate, IInv, TypeOK
<1>2. head \in Block /\ head.number \in Nat /\ head.now \in Nat /\ relay \in Nat
  BY ClockAssumption DEF IInv, TypeOK, Block
<1>3. Slot(n) \in Nat /\ SystemTime(n) \in Nat /\ SystemTime(n) >= relay + Offset[n]
  BY TimeType DEF IInv
<1>4. /\ Timestamp(n, head) \in Nat
      /\ Timestamp(n, head) >= SystemTime(n)
      /\ Timestamp(n, head) >= head.now + MinimumPeriod
  <2> DEFINE x == SystemTime(n)
             y == head.now + MinimumPeriod
  <2>1. x \in Nat /\ y \in Nat
    BY <1>2, <1>3, PeriodType
  <2>2. Timestamp(n, head) = Max({x, y})
    BY DEF Timestamp
  <2> HIDE DEF x, y
  <2>3. Max({x, y}) \in {x, y} /\ Max({x, y}) >= x /\ Max({x, y}) >= y
    BY <2>1, MaxOfTwo
  <2>4. Max({x, y}) \in Nat
    BY <2>1, <2>3
  <2> QED
    BY <2>2, <2>3, <2>4 DEF x, y
<1>5. b \in Block
  BY <1>2, <1>3, <1>4 DEF Block
<1>6. Slot(n) > head.slot
  BY DEF Collate
<1>7. c \in [parent : Block, block : Block]
  BY <1>2, <1>5
<1>8. Follows(c)
  BY <1>4, <1>6 DEF Follows
<1>9. Timestamp(n, head) >= relay + Offset[n]
  BY <1>2, <1>3, <1>4, ClockAssumption
<1> QED
  BY <1>1, <1>7, <1>8, <1>9

LEMMA TypeInit == Init => IInv
<1> SUFFICES ASSUME Init PROVE IInv
  OBVIOUS
<1>1. Genesis \in Block
  BY DEF Genesis, Block
<1>2. TypeOK
  BY <1>1, ClockAssumption DEF Init, TypeOK
<1>3. CandidatesFollow /\ FollowsRelay
  BY DEF Init, CandidatesFollow, FollowsRelay
<1> QED
  BY <1>2, <1>3 DEF IInv

(* A candidate that is included becomes the head with all that the         *)
(* validators have checked and its collator has made sure of.              *)
LEMMA Included ==
    ASSUME IInv, NEW n \in Node, Include(n)
    PROVE  /\ head' \in Block
           /\ head'.number = head.number + 1
           /\ head'.slot > head.slot
           /\ head'.now >= head.now + MinimumPeriod
           /\ head'.now <= head'.relay + MaxDrift
           /\ head'.now >= head'.relay + Offset[n]
<1>1. /\ candidate[n] # None /\ candidate[n].parent = head
      /\ head' = candidate[n].block /\ CheckInherents(candidate[n])
  BY DEF Include
<1>2. candidate[n] \in [parent : Block, block : Block]
  BY <1>1 DEF IInv, TypeOK
<1>3. Follows(candidate[n]) /\ candidate[n].block.now >= candidate[n].block.relay + Offset[n]
  BY <1>1 DEF IInv, CandidatesFollow
<1> QED
  BY <1>1, <1>2, <1>3 DEF Follows, CheckInherents

LEMMA Inductive == IInv /\ [Next]_vars => IInv'
<1> SUFFICES ASSUME IInv, [Next]_vars PROVE IInv'
  OBVIOUS
<1> USE DEF IInv
<1>1. ASSUME NEW n \in Node, Collate(n) PROVE IInv'
  <2>1. /\ candidate' = [candidate EXCEPT ![n] = candidate'[n]]
        /\ UNCHANGED <<time, relay, head, imported>>
    BY <1>1 DEF Collate, TypeOK
  <2>2. TypeOK'
    BY <1>1, <2>1, NewCandidate DEF TypeOK
  <2>3. CandidatesFollow'
    <3> SUFFICES ASSUME NEW m \in Node, candidate'[m] # None
                 PROVE  /\ Follows(candidate'[m])
                        /\ candidate'[m].block.now >= candidate'[m].block.relay + Offset[m]
      BY DEF CandidatesFollow, Follows
    <3>1. CASE m = n
      BY <1>1, <3>1, NewCandidate
    <3>2. CASE m # n
      BY <2>1, <3>2 DEF CandidatesFollow, TypeOK
    <3> QED
      BY <3>1, <3>2
  <2>4. FollowsRelay'
    BY <2>1 DEF FollowsRelay
  <2> QED
    BY <2>2, <2>3, <2>4
<1>2. ASSUME NEW n \in Node, Include(n) PROVE IInv'
  <2>1. /\ candidate' = [candidate EXCEPT ![n] = None]
        /\ imported' = [imported EXCEPT ![n] = head']
        /\ UNCHANGED <<time, relay>>
    BY <1>2 DEF Include
  <2>2. TypeOK'
    BY <1>2, <2>1, Included DEF TypeOK
  <2>3. CandidatesFollow'
    BY <2>1 DEF CandidatesFollow, Follows, TypeOK
  <2>4. FollowsRelay'
    BY <1>2, Included DEF FollowsRelay
  <2> QED
    BY <2>2, <2>3, <2>4
<1>3. ASSUME NEW n \in Node, Drop(n) PROVE IInv'
  <2>1. candidate' = [candidate EXCEPT ![n] = None] /\ UNCHANGED <<time, relay, head, imported>>
    BY <1>3 DEF Drop
  <2>2. TypeOK' /\ FollowsRelay'
    BY <2>1 DEF TypeOK, FollowsRelay
  <2>3. CandidatesFollow'
    BY <2>1 DEF CandidatesFollow, Follows, TypeOK
  <2> QED
    BY <2>2, <2>3
<1>4. ASSUME NEW n \in Node, Import(n) PROVE IInv'
  <2>1. imported' = [imported EXCEPT ![n] = head] /\ UNCHANGED <<time, relay, head, candidate>>
    BY <1>4 DEF Import
  <2> QED
    BY <2>1 DEF TypeOK, FollowsRelay, CandidatesFollow, Follows
<1>5. CASE RelayBlock
  BY <1>5, ClockAssumption DEF RelayBlock, TypeOK, FollowsRelay, CandidatesFollow, Follows
<1>6. CASE Tick
  <2>1. time' \in Start .. MaxTime /\ relay' \in Start .. time'
    BY <1>6, ClockAssumption DEF Tick, TypeOK
  <2> QED
    BY <1>6, <2>1 DEF Tick, TypeOK, FollowsRelay, CandidatesFollow, Follows
<1>7. CASE UNCHANGED vars
  BY <1>7 DEF vars, TypeOK, FollowsRelay, CandidatesFollow, Follows
<1> QED
  BY <1>1, <1>2, <1>3, <1>4, <1>5, <1>6, <1>7 DEF Next

LEMMA Invariant == Spec => []IInv
<1> QED
  BY TypeInit, Inductive, PTL DEF Spec

(* Every reachable state is well typed: no collator makes a block outside  *)
(* time, whatever its machine says.                                        *)
THEOREM TypeCorrect == Spec => []TypeOK
<1>1. IInv => TypeOK
  BY DEF IInv
<1> QED
  BY <1>1, Invariant, PTL

(* The time of the chain, which the deadlines of both pallets are compared *)
(* with, is never further from the relay chain's than the validators'      *)
(* drift ahead and the slowest machine behind.                             *)
THEOREM FollowsRelayHolds == Spec => []FollowsRelay
<1>1. IInv => FollowsRelay
  BY DEF IInv
<1> QED
  BY <1>1, Invariant, PTL

(* From block to block time and slot go forward, so what is overdue on a   *)
(* chain stays overdue.                                                    *)
THEOREM GoesForwardHolds == Spec => GoesForward
<1> DEFINE Forward == head' # head => /\ head'.now >= head.now + MinimumPeriod
                                      /\ head'.slot > head.slot
                                      /\ head'.number = head.number + 1
<1>1. IInv /\ [Next]_vars => [Forward]_vars
  <2> SUFFICES ASSUME IInv, Next, head' # head PROVE Forward
    OBVIOUS
  <2>1. PICK n \in Node : Include(n)
    BY DEF Next, Collate, Drop, Import, RelayBlock, Tick
  <2> QED
    BY <2>1, Included
<1> QED
  BY <1>1, Invariant, PTL DEF Spec, GoesForward
===============================================================================
