---------------------------- MODULE CurrencyProofs ----------------------------
(***************************************************************************)
(* What the ledger operators preserve: each leaves a ledger without        *)
(* entries below the existential deposit, and touches only the accounts it *)
(* names, in the way it says.                                              *)
(***************************************************************************)
EXTENDS Currency, Functions, FiniteSetTheorems, TLAPS

(* A withdrawal never leaves an entry below the existential deposit.       *)
LEMMA ReapType ==
    ASSUME NEW b \in Balance
    PROVE  /\ Reap(b) \in Balance
           /\ Total(Reap(b)) > 0 => Total(Reap(b)) >= ExistentialDeposit
           /\ Reap(b).reserved <= b.reserved
           /\ b.reserved >= ExistentialDeposit => Reap(b).reserved = b.reserved
           /\ b.reserved = 0 => Reap(b).reserved = 0
BY DepositAssumption DEF Reap, Balance, Dead, Total

(* reserve, where it is possible, moves the amount within one account.     *)
LEMMA ReserveEffect ==
    ASSUME NEW bal \in Ledger, Reaped(bal), NEW who \in Account, NEW amount \in Nat,
           CanReserve(bal, who, amount)
    PROVE  LET new == Reserve(bal, who, amount)
           IN  /\ new \in Ledger
               /\ Reaped(new)
               /\ new[who].reserved = bal[who].reserved + amount
               /\ new[who].free = bal[who].free - amount
               /\ \A a \in Account : Total(new[a]) = Total(bal[a])
               /\ \A a \in Account \ {who} : new[a] = bal[a]
<1> DEFINE new == Reserve(bal, who, amount)
<1>1. bal[who] \in Balance
  BY DEF Ledger
<1>2. /\ new = [bal EXCEPT ![who] = new[who]]
      /\ new[who] = [free |-> bal[who].free - amount, reserved |-> bal[who].reserved + amount]
  BY DEF Reserve, Ledger
<1>3. new[who] \in Balance /\ Total(new[who]) = Total(bal[who])
  BY <1>1, <1>2 DEF CanReserve, Balance, Total
<1>4. /\ new \in Ledger
      /\ \A a \in Account \ {who} : new[a] = bal[a]
  BY <1>2, <1>3 DEF Ledger
<1>5. \A a \in Account : Total(new[a]) = Total(bal[a])
  BY <1>3, <1>4
<1> QED
  BY <1>2, <1>4, <1>5 DEF Reaped, IsAlive

(* unreserve moves what is there, up to the amount, within one account.    *)
LEMMA UnreserveEffect ==
    ASSUME NEW bal \in Ledger, Reaped(bal), NEW who \in Account, NEW amount \in Nat
    PROVE  LET new == Unreserve(bal, who, amount)
           IN  /\ new \in Ledger
               /\ Reaped(new)
               /\ new[who].reserved = bal[who].reserved - AtMost(bal[who].reserved, amount)
               /\ new[who].free = bal[who].free + AtMost(bal[who].reserved, amount)
               /\ \A a \in Account : Total(new[a]) = Total(bal[a])
               /\ \A a \in Account \ {who} : new[a] = bal[a]
<1> DEFINE new == Unreserve(bal, who, amount)
<1> DEFINE actual == AtMost(bal[who].reserved, amount)
<1>1. /\ bal[who] \in Balance
      /\ bal[who].free \in Nat /\ bal[who].reserved \in Nat
  BY DEF Ledger, Balance
<1>2. /\ new = [bal EXCEPT ![who] = new[who]]
      /\ new[who] = [free |-> bal[who].free + actual, reserved |-> bal[who].reserved - actual]
  BY DEF Unreserve, Ledger
<1>3. actual \in Nat /\ actual <= bal[who].reserved
  BY <1>1 DEF AtMost
<1>4. new[who] \in Balance /\ Total(new[who]) = Total(bal[who])
  <2> HIDE DEF actual, new
  <2> QED
    BY <1>1, <1>2, <1>3 DEF Balance, Total
<1>5. /\ new \in Ledger
      /\ \A a \in Account \ {who} : new[a] = bal[a]
  BY <1>2, <1>4 DEF Ledger
<1>6. \A a \in Account : Total(new[a]) = Total(bal[a])
  BY <1>4, <1>5
<1>7. Reaped(new)
  BY <1>6 DEF Reaped, IsAlive
<1> QED
  BY <1>2, <1>5, <1>6, <1>7

(* repatriate_reserved, where it does not fail, moves what is there, up to *)
(* the amount, and reaps the account it takes it from when too little is   *)
(* left.                                                                   *)
LEMMA RepatriateEffect ==
    ASSUME NEW bal \in Ledger, Reaped(bal), NEW from \in Account, NEW to \in Account,
           NEW amount \in Nat, ~RepatriateFails(bal, from, to, amount), from # to
    PROVE  LET new == Repatriate(bal, from, to, amount)
               actual == AtMost(bal[from].reserved, amount)
           IN  /\ new \in Ledger
               /\ Reaped(new)
               /\ new[from].reserved <= bal[from].reserved - actual
               /\ new[to].reserved = bal[to].reserved
               /\ Total(new[to]) = Total(bal[to]) + actual
               /\ Total(new[from]) <= Total(bal[from])
               /\ \A a \in Account \ {from, to} : new[a] = bal[a]
<1> DEFINE new == Repatriate(bal, from, to, amount)
<1> DEFINE actual == AtMost(bal[from].reserved, amount)
<1> DEFINE left == [free |-> bal[from].free, reserved |-> bal[from].reserved - actual]
<1> DEFINE gained == [free |-> bal[to].free + actual, reserved |-> bal[to].reserved]
<1>1. /\ bal[from] \in Balance /\ bal[to] \in Balance
      /\ bal[from].free \in Nat /\ bal[from].reserved \in Nat
      /\ bal[to].free \in Nat /\ bal[to].reserved \in Nat
  BY DEF Ledger, Balance
<1>2. CASE amount = 0
  <2>1. new = bal
    BY <1>2 DEF Repatriate
  <2>2. actual = 0
    BY <1>1, <1>2 DEF AtMost
  <2> HIDE DEF new, actual
  <2> QED
    BY <1>1, <2>1, <2>2 DEF Total, new, actual, Ledger, Balance
<1>3. CASE amount # 0
  <2>1. new = [bal EXCEPT ![from] = Reap(left), ![to] = gained]
    BY <1>3 DEF Repatriate, Ledger
  <2>2. actual \in Nat /\ actual <= bal[from].reserved
    BY <1>1 DEF AtMost
  <2>3. Total(bal[to]) >= ExistentialDeposit
    BY <1>3 DEF RepatriateFails, Reaped, IsAlive
  <2> HIDE DEF actual
  <2>4. left \in Balance /\ gained \in Balance
    BY <1>1, <2>2 DEF Balance
  <2>5. /\ new \in Ledger
        /\ new[from] = Reap(left)
        /\ new[to] = gained
        /\ \A a \in Account \ {from, to} : new[a] = bal[a]
    BY <2>1, <2>4, ReapType DEF Ledger
  <2>6. /\ Total(gained) = Total(bal[to]) + actual
        /\ Total(gained) >= ExistentialDeposit
    BY <1>1, <2>2, <2>3, DepositAssumption DEF Total
  <2>7. /\ Reap(left).reserved <= bal[from].reserved - actual
        /\ Total(Reap(left)) <= Total(bal[from])
        /\ Total(Reap(left)) > 0 => Total(Reap(left)) >= ExistentialDeposit
    <3>1. Reap(left).reserved <= left.reserved /\ Reap(left) \in Balance
      BY <2>4, ReapType
    <3>2. Total(Reap(left)) <= Total(left) /\ Total(left) <= Total(bal[from])
      BY <1>1, <2>2, <2>4 DEF Reap, Dead, Total, Balance
    <3> QED
      BY <3>1, <3>2, <2>4, <1>1, <2>2, ReapType DEF Total, Balance
  <2> HIDE DEF left, gained, new
  <2>8. Reaped(new)
    <3> SUFFICES ASSUME NEW a \in Account, IsAlive(new, a)
                 PROVE  Total(new[a]) >= ExistentialDeposit
      BY DEF Reaped
    <3>1. CASE a = from
      BY <3>1, <2>5, <2>7 DEF IsAlive
    <3>2. CASE a = to
      BY <3>2, <2>5, <2>6
    <3>3. CASE a \notin {from, to}
      BY <3>3, <2>5 DEF Reaped, IsAlive
    <3> QED
      BY <3>1, <3>2, <3>3
  <2>9. gained.reserved = bal[to].reserved
    BY DEF gained
  <2> QED
    BY <2>5, <2>6, <2>7, <2>8, <2>9 DEF new, actual
<1> QED
  BY <1>2, <1>3

(* Whomever it names, repatriate_reserved leaves a ledger.                 *)
LEMMA RepatriateType ==
    ASSUME NEW bal \in Ledger, Reaped(bal), NEW from \in Account, NEW to \in Account,
           NEW amount \in Nat, ~RepatriateFails(bal, from, to, amount)
    PROVE  Repatriate(bal, from, to, amount) \in Ledger /\ Reaped(Repatriate(bal, from, to, amount))
<1>1. CASE from # to
  BY <1>1, RepatriateEffect
<1>2. CASE from = to /\ amount # 0
  BY <1>2, UnreserveEffect DEF Repatriate
<1>3. CASE from = to /\ amount = 0
  BY <1>3 DEF Repatriate
<1> QED
  BY <1>1, <1>2, <1>3

(* Accounts a call does not name keep their entry.                         *)
LEMMA Untouched ==
    ASSUME NEW bal \in Ledger, Reaped(bal), NEW from \in Account, NEW to \in Account,
           NEW amount \in Nat, NEW a \in Account, a # from
    PROVE  /\ Unreserve(bal, from, amount)[a] = bal[a]
           /\ ~RepatriateFails(bal, from, to, amount) /\ a # to =>
                Repatriate(bal, from, to, amount)[a] = bal[a]
<1>1. Unreserve(bal, from, amount)[a] = bal[a]
  BY DEF Unreserve, Ledger
<1>2. ASSUME ~RepatriateFails(bal, from, to, amount), a # to
      PROVE  Repatriate(bal, from, to, amount)[a] = bal[a]
  <2>1. CASE from # to
    BY <1>2, <2>1, RepatriateEffect
  <2>2. CASE from = to
    BY <1>1, <2>2 DEF Repatriate
  <2> QED
    BY <2>1, <2>2
<1> QED
  BY <1>1, <1>2

(* A transfer leaves reserves alone, unless it reaps the sender.           *)
LEMMA TransferEffect ==
    ASSUME NEW bal \in Ledger, Reaped(bal), NEW from \in Account, NEW to \in Account,
           NEW amount, CanTransfer(bal, from, to, amount)
    PROVE  LET new == Transfer(bal, from, to, amount)
           IN  /\ new \in Ledger
               /\ Reaped(new)
               /\ \A a \in Account :
                    /\ new[a].reserved <= bal[a].reserved
                    /\ bal[a].reserved >= ExistentialDeposit => new[a].reserved = bal[a].reserved
                    /\ bal[a].reserved = 0 => new[a].reserved = 0
<1> DEFINE new == Transfer(bal, from, to, amount)
<1> DEFINE left == [free |-> bal[from].free - amount, reserved |-> bal[from].reserved]
<1> DEFINE gained == [free |-> bal[to].free + amount, reserved |-> bal[to].reserved]
<1>1. /\ bal[from].free \in Nat /\ bal[from].reserved \in Nat
      /\ bal[to].free \in Nat /\ bal[to].reserved \in Nat
  BY DEF Ledger, Balance
<1>2. /\ amount \in Nat /\ amount <= bal[from].free
      /\ from # to
      /\ Total(bal[to]) + amount >= ExistentialDeposit
  BY <1>1 DEF CanTransfer
<1>3. new = [bal EXCEPT ![from] = Reap(left), ![to] = gained]
  BY <1>2 DEF Transfer, Ledger
<1>4. /\ left \in Balance /\ gained \in Balance
      /\ left.reserved = bal[from].reserved
      /\ gained.reserved = bal[to].reserved
      /\ Total(gained) >= ExistentialDeposit
  BY <1>1, <1>2, DepositAssumption DEF Balance, Total
<1> HIDE DEF left, gained
<1>5. /\ new \in Ledger
      /\ new[from] = Reap(left)
      /\ new[to] = gained
      /\ \A a \in Account \ {from, to} : new[a] = bal[a]
  BY <1>2, <1>3, <1>4, ReapType DEF Ledger
<1> HIDE DEF new
<1> SUFFICES ASSUME NEW a \in Account
             PROVE  /\ IsAlive(new, a) => Total(new[a]) >= ExistentialDeposit
                    /\ new[a].reserved <= bal[a].reserved
                    /\ bal[a].reserved >= ExistentialDeposit => new[a].reserved = bal[a].reserved
                    /\ bal[a].reserved = 0 => new[a].reserved = 0
  BY <1>5 DEF new, Reaped
<1>6. CASE a = from
  BY <1>4, <1>5, <1>6, ReapType DEF IsAlive
<1>7. CASE a = to
  BY <1>1, <1>4, <1>5, <1>7
<1>8. CASE a \notin {from, to}
  <2>1. bal[a].reserved \in Nat
    BY DEF Ledger, Balance
  <2> QED
    BY <1>5, <1>8, <2>1 DEF IsAlive, Reaped
<1> QED
  BY <1>6, <1>7, <1>8

-------------------------------------------------------------------------------
(* Sums over finite sets                                                   *)

(* The element the recursion takes first                                   *)
First(s) == CHOOSE x \in s : TRUE

(* iter adds up f over every subset of S.                                  *)
Adds(f, S, iter) ==
    iter = [s \in SUBSET S |->
                IF s = {} THEN 0 ELSE f[First(s)] + iter[s \ {First(s)}]]

(* Among subsets of a finite set there is a minimal one.                   *)
LEMMA MinimalSubset ==
    ASSUME NEW S, IsFiniteSet(S), NEW Bad \in SUBSET SUBSET S, Bad # {}
    PROVE  \E T \in Bad : \A U \in Bad : U \subseteq T => U = T
<1>1. IsWellFoundedOn(StrictSubsetOrdering(S), SUBSET S)
  BY FS_StrictSubsetOrderingWellFounded, FS_FiniteSubsetsOfFinite
<1>2. PICK T \in Bad : \A U \in Bad : <<U, T>> \notin StrictSubsetOrdering(S)
  BY <1>1, WFMin
<1> QED
  BY <1>2 DEF StrictSubsetOrdering

LEMMA FirstIn == ASSUME NEW s, s # {} PROVE First(s) \in s
BY DEF First

(* The sums over the same set agree, whatever set they are part of.        *)
LEMMA AddsUnique ==
    ASSUME NEW f, NEW S, IsFiniteSet(S), NEW U \in SUBSET S, NEW g, NEW h,
           Adds(f, S, g), Adds(f, U, h)
    PROVE  \A s \in SUBSET U : g[s] = h[s]
<1> DEFINE Bad == {s \in SUBSET U : g[s] # h[s]}
<1> SUFFICES ASSUME Bad # {} PROVE FALSE
  OBVIOUS
<1>0. Bad \in SUBSET SUBSET S
  OBVIOUS
<1> HIDE DEF Bad
<1>1. PICK T \in Bad : \A V \in Bad : V \subseteq T => V = T
  BY <1>0, MinimalSubset
<1> USE DEF Bad
<1>2. /\ g[T] = IF T = {} THEN 0 ELSE f[First(T)] + g[T \ {First(T)}]
      /\ h[T] = IF T = {} THEN 0 ELSE f[First(T)] + h[T \ {First(T)}]
  BY DEF Adds
<1>3. T # {} /\ First(T) \in T
  BY <1>2, FirstIn
<1>4. g[T \ {First(T)}] = h[T \ {First(T)}]
  BY <1>1, <1>3
<1> QED
  BY <1>2, <1>3, <1>4

(* The recursion has a solution.                                           *)
LEMMA AddsExists ==
    ASSUME NEW f, NEW S, IsFiniteSet(S)
    PROVE  \E g : Adds(f, S, g)
<1> DEFINE Bad == {T \in SUBSET S : ~ \E g : Adds(f, T, g)}
<1> SUFFICES ASSUME Bad # {} PROVE FALSE
  OBVIOUS
<1>0. Bad \in SUBSET SUBSET S
  OBVIOUS
<1> HIDE DEF Bad
<1>1. PICK T \in Bad : \A V \in Bad : V \subseteq T => V = T
  BY <1>0, MinimalSubset
<1> USE DEF Bad
<1> DEFINE It(V) == CHOOSE g : Adds(f, V, g)
           Rest(s) == s \ {First(s)}
           G == [s \in SUBSET T |->
                    IF s = {} THEN 0 ELSE f[First(s)] + It(Rest(s))[Rest(s)]]
<1>2. ASSUME NEW V \in SUBSET T, V # T PROVE Adds(f, V, It(V))
  BY <1>1, <1>2
<1>3. ASSUME NEW s \in SUBSET T, s # {}
      PROVE  G[Rest(s)] = It(Rest(s))[Rest(s)]
  <2> DEFINE u == Rest(s)
  <2>1. u \in SUBSET T /\ u # T
    BY <1>3, FirstIn
  <2>2. Adds(f, u, It(u)) /\ IsFiniteSet(u)
    BY <1>2, <2>1, FS_Subset
  <2>3. It(u)[u] = IF u = {} THEN 0 ELSE f[First(u)] + It(u)[Rest(u)]
    BY <2>2 DEF Adds
  <2>4. CASE u = {}
    BY <2>1, <2>3, <2>4
  <2>5. CASE u # {}
    <3>1. Rest(u) \in SUBSET u /\ Rest(u) # T
      BY <2>1, <2>5, FirstIn
    <3>2. Adds(f, Rest(u), It(Rest(u)))
      BY <1>2, <2>1, <3>1
    <3>3. It(u)[Rest(u)] = It(Rest(u))[Rest(u)]
      <4> HIDE DEF It, Rest
      <4> QED
        BY <2>2, <3>1, <3>2, AddsUnique
    <3>4. G[u] = f[First(u)] + It(Rest(u))[Rest(u)]
      BY <2>1, <2>5
    <3> QED
      BY <2>3, <2>5, <3>3, <3>4
  <2> QED
    BY <2>4, <2>5
<1>4. Adds(f, T, G)
  <2>1. \A s \in SUBSET T :
            G[s] = IF s = {} THEN 0 ELSE f[First(s)] + G[Rest(s)]
    <3> TAKE s \in SUBSET T
    <3>1. G[s] = IF s = {} THEN 0 ELSE f[First(s)] + It(Rest(s))[Rest(s)]
      OBVIOUS
    <3> HIDE DEF G, It, Rest
    <3> QED
      BY <1>3, <3>1
  <2>2. G = [s \in SUBSET T |-> IF s = {} THEN 0 ELSE f[First(s)] + G[Rest(s)]]
    <3>1. G = [s \in SUBSET T |-> G[s]]
      OBVIOUS
    <3> HIDE DEF G, Rest
    <3> QED
      BY <2>1, <3>1
  <2> QED
    BY <2>2 DEF Adds
<1> QED
  BY <1>1, <1>4

(* The recursion equation of the sum                                       *)
LEMMA SumUnfold ==
    ASSUME NEW f, NEW S, IsFiniteSet(S)
    PROVE  /\ SumFunctionOnSet(f, {}) = 0
           /\ S # {} => SumFunctionOnSet(f, S) =
                            f[First(S)] + SumFunctionOnSet(f, S \ {First(S)})
<1> DEFINE It(V) == CHOOSE g : Adds(f, V, g)
<1>1. \A V : SumFunctionOnSet(f, V) = It(V)[V]
  BY DEF SumFunctionOnSet, FoldFunctionOnSet, MapThenFoldSet, Adds, First
<1>2. \A V : IsFiniteSet(V) => Adds(f, V, It(V))
  BY AddsExists
<1> HIDE DEF It
<1>3. SumFunctionOnSet(f, {}) = 0
  BY <1>1, <1>2, FS_EmptySet DEF Adds
<1>4. ASSUME S # {}
      PROVE  SumFunctionOnSet(f, S) = f[First(S)] + SumFunctionOnSet(f, S \ {First(S)})
  <2> DEFINE u == S \ {First(S)}
  <2>1. IsFiniteSet(u) /\ u \in SUBSET S
    BY FS_RemoveElement
  <2>2. It(S)[u] = It(u)[u]
    <3>1. Adds(f, S, It(S)) /\ Adds(f, u, It(u)) /\ u \in SUBSET u
      BY <1>2, <2>1
    <3> HIDE DEF u
    <3> QED
      BY <2>1, <3>1, AddsUnique
  <2>3. It(S)[S] = f[First(S)] + It(S)[u]
    BY <1>2, <1>4 DEF Adds
  <2> QED
    BY <1>1, <2>2, <2>3
<1> QED
  BY <1>3, <1>4

(* A sum depends on the summands only.                                     *)
LEMMA SumExtensional ==
    ASSUME NEW S, IsFiniteSet(S), NEW f, NEW g, \A x \in S : f[x] = g[x]
    PROVE  SumFunctionOnSet(f, S) = SumFunctionOnSet(g, S)
<1> DEFINE Bad == {T \in SUBSET S : SumFunctionOnSet(f, T) # SumFunctionOnSet(g, T)}
<1> SUFFICES ASSUME Bad # {} PROVE FALSE
  OBVIOUS
<1>1. Bad \in SUBSET SUBSET S
  OBVIOUS
<1> HIDE DEF Bad
<1>2. PICK T \in Bad : \A V \in Bad : V \subseteq T => V = T
  BY <1>1, MinimalSubset
<1> USE DEF Bad
<1>3. IsFiniteSet(T) /\ T \in SUBSET S
  BY FS_Subset
<1>4. T # {} /\ First(T) \in T
  BY <1>3, SumUnfold, FirstIn
<1>5. SumFunctionOnSet(f, T \ {First(T)}) = SumFunctionOnSet(g, T \ {First(T)})
  BY <1>2, <1>4
<1>6. /\ SumFunctionOnSet(f, T) = f[First(T)] + SumFunctionOnSet(f, T \ {First(T)})
      /\ SumFunctionOnSet(g, T) = g[First(T)] + SumFunctionOnSet(g, T \ {First(T)})
  BY <1>3, <1>4, SumUnfold
<1> QED
  BY <1>3, <1>4, <1>5, <1>6

(* A sum of naturals is a natural.                                         *)
LEMMA SumType ==
    ASSUME NEW S, IsFiniteSet(S), NEW f, \A x \in S : f[x] \in Nat
    PROVE  SumFunctionOnSet(f, S) \in Nat
<1> DEFINE Bad == {T \in SUBSET S : SumFunctionOnSet(f, T) \notin Nat}
<1> SUFFICES ASSUME Bad # {} PROVE FALSE
  OBVIOUS
<1>1. Bad \in SUBSET SUBSET S
  OBVIOUS
<1> HIDE DEF Bad
<1>2. PICK T \in Bad : \A V \in Bad : V \subseteq T => V = T
  BY <1>1, MinimalSubset
<1> USE DEF Bad
<1>3. IsFiniteSet(T) /\ T \in SUBSET S
  BY FS_Subset
<1>4. T # {} /\ First(T) \in T
  <2>1. SumFunctionOnSet(f, {}) = 0
    BY FS_EmptySet, SumUnfold
  <2> QED
    BY <2>1, FirstIn
<1>5. SumFunctionOnSet(f, T \ {First(T)}) \in Nat /\ f[First(T)] \in Nat
  BY <1>2, <1>3, <1>4
<1>6. SumFunctionOnSet(f, T) = f[First(T)] + SumFunctionOnSet(f, T \ {First(T)})
  BY <1>3, <1>4, SumUnfold
<1> QED
  BY <1>5, <1>6

(* Any summand may be taken out first.                                     *)
LEMMA SumRemove ==
    ASSUME NEW S, IsFiniteSet(S), NEW f, \A x \in S : f[x] \in Nat, NEW y \in S
    PROVE  SumFunctionOnSet(f, S) = f[y] + SumFunctionOnSet(f, S \ {y})
<1> DEFINE Bad == {T \in SUBSET S :
                    \E z \in T : SumFunctionOnSet(f, T) # f[z] + SumFunctionOnSet(f, T \ {z})}
<1> SUFFICES ASSUME Bad # {} PROVE FALSE
  OBVIOUS
<1>1. Bad \in SUBSET SUBSET S
  OBVIOUS
<1> HIDE DEF Bad
<1>2. PICK T \in Bad : \A V \in Bad : V \subseteq T => V = T
  BY <1>1, MinimalSubset
<1> USE DEF Bad
<1>3. PICK z \in T : SumFunctionOnSet(f, T) # f[z] + SumFunctionOnSet(f, T \ {z})
  OBVIOUS
<1> DEFINE p == First(T)
<1>4. IsFiniteSet(T) /\ T \in SUBSET S /\ p \in T
  BY FS_Subset, FirstIn
<1>5. SumFunctionOnSet(f, T) = f[p] + SumFunctionOnSet(f, T \ {p}) /\ z # p
  BY <1>3, <1>4, SumUnfold
<1>6. /\ T \ {p} \in SUBSET S /\ T \ {p} \notin Bad /\ z \in T \ {p}
      /\ T \ {z} \in SUBSET S /\ T \ {z} \notin Bad /\ p \in T \ {z}
      /\ (T \ {p}) \ {z} = (T \ {z}) \ {p}
  <2> HIDE DEF Bad
  <2> QED
    BY <1>2, <1>4, <1>5
<1>7. /\ SumFunctionOnSet(f, T \ {p}) = f[z] + SumFunctionOnSet(f, (T \ {p}) \ {z})
      /\ SumFunctionOnSet(f, T \ {z}) = f[p] + SumFunctionOnSet(f, (T \ {z}) \ {p})
  BY <1>6
<1>8. /\ f[p] \in Nat /\ f[z] \in Nat
      /\ SumFunctionOnSet(f, (T \ {p}) \ {z}) \in Nat
  <2>1. IsFiniteSet((T \ {p}) \ {z})
    BY <1>4, FS_RemoveElement
  <2> QED
    BY <1>4, <2>1, SumType
<1> DEFINE rest == SumFunctionOnSet(f, (T \ {p}) \ {z})
<1>9. /\ SumFunctionOnSet(f, T) = f[p] + (f[z] + rest)
      /\ SumFunctionOnSet(f, T \ {z}) = f[p] + rest
      /\ rest \in Nat /\ f[p] \in Nat /\ f[z] \in Nat
  <2> HIDE DEF p, Bad
  <2> QED
    BY <1>5, <1>6, <1>7, <1>8
<1> HIDE DEF p, rest, Bad
<1> QED
  BY <1>3, <1>9

(* One summand more: f on S and g on S without y agree but for y.          *)
LEMMA SumOneMore ==
    ASSUME NEW S, IsFiniteSet(S), NEW f, \A x \in S : f[x] \in Nat, NEW y \in S,
           NEW g, \A x \in S \ {y} : f[x] = g[x]
    PROVE  SumFunctionOnSet(f, S) = f[y] + SumFunctionOnSet(g, S \ {y})
<1>1. IsFiniteSet(S \ {y})
  BY FS_RemoveElement
<1>2. SumFunctionOnSet(f, S \ {y}) = SumFunctionOnSet(g, S \ {y})
  BY <1>1, SumExtensional
<1> QED
  BY <1>2, SumRemove

(* No summand exceeds the sum.                                             *)
LEMMA SumAtLeast ==
    ASSUME NEW S, IsFiniteSet(S), NEW f, \A x \in S : f[x] \in Nat, NEW y \in S
    PROVE  f[y] <= SumFunctionOnSet(f, S)
<1>1. IsFiniteSet(S \ {y})
  BY FS_RemoveElement
<1>2. SumFunctionOnSet(f, S \ {y}) \in Nat
  BY <1>1, SumType
<1> QED
  BY <1>2, SumRemove

(* Summands that are zero can be left out.                                 *)
LEMMA SumSupport ==
    ASSUME NEW S, IsFiniteSet(S), NEW f, \A x \in S : f[x] \in Nat, NEW T \in SUBSET S,
           \A x \in S \ T : f[x] = 0, NEW g, \A x \in T : g[x] = f[x]
    PROVE  SumFunctionOnSet(f, S) = SumFunctionOnSet(g, T)
<1> DEFINE Bad == {V \in SUBSET S : SumFunctionOnSet(f, V) # SumFunctionOnSet(f, V \cap T)}
<1>1. Bad = {}
  <2> SUFFICES ASSUME Bad # {} PROVE FALSE
    OBVIOUS
  <2>1. Bad \in SUBSET SUBSET S
    OBVIOUS
  <2> HIDE DEF Bad
  <2>2. PICK V \in Bad : \A U \in Bad : U \subseteq V => U = V
    BY <2>1, MinimalSubset
  <2> USE DEF Bad
  <2> DEFINE p == First(V)
  <2>3. IsFiniteSet(V) /\ IsFiniteSet(V \cap T) /\ V # {} /\ p \in V
    <3>1. V # {}
      OBVIOUS
    <3> QED
      BY <3>1, FS_Subset, FirstIn
  <2>4. SumFunctionOnSet(f, V \ {p}) = SumFunctionOnSet(f, (V \ {p}) \cap T)
    BY <2>2, <2>3
  <2>5. SumFunctionOnSet(f, V) = f[p] + SumFunctionOnSet(f, V \ {p})
    BY <2>3, SumUnfold
  <2>6. /\ IsFiniteSet((V \ {p}) \cap T)
        /\ (V \ {p}) \cap T = (V \cap T) \ {p}
        /\ SumFunctionOnSet(f, (V \ {p}) \cap T) \in Nat
    <3>1. IsFiniteSet((V \ {p}) \cap T)
      BY <2>3, FS_Subset
    <3> QED
      BY <3>1, SumType
  <2>7. CASE p \in T
    <3>1. SumFunctionOnSet(f, V \cap T) = f[p] + SumFunctionOnSet(f, (V \cap T) \ {p})
      BY <2>3, <2>7, SumRemove
    <3> QED
      BY <2>4, <2>5, <2>6, <3>1
  <2>8. CASE p \notin T
    <3>1. f[p] = 0 /\ (V \ {p}) \cap T = V \cap T
      BY <2>3, <2>8
    <3>2. SumFunctionOnSet(f, V) # SumFunctionOnSet(f, V \cap T)
      OBVIOUS
    <3>3. SumFunctionOnSet(f, (V \ {p}) \cap T) = SumFunctionOnSet(f, V \cap T)
      BY <3>1
    <3> HIDE DEF p, Bad
    <3>4. SumFunctionOnSet(f, V) = 0 + SumFunctionOnSet(f, V \cap T)
      BY <2>4, <2>5, <3>1, <3>3
    <3> QED
      BY <2>6, <3>2, <3>3, <3>4
  <2> QED
    BY <2>7, <2>8
<1>2. SumFunctionOnSet(f, S) = SumFunctionOnSet(f, T)
  <2>1. S \cap T = T
    OBVIOUS
  <2> QED
    BY <1>1, <2>1
<1>3. SumFunctionOnSet(f, T) = SumFunctionOnSet(g, T)
  BY FS_Subset, SumExtensional
<1> QED
  BY <1>2, <1>3

(* One summand changed: the sum changes by as much.                        *)
LEMMA SumChange ==
    ASSUME NEW S, IsFiniteSet(S), NEW y \in S,
           NEW f, \A x \in S : f[x] \in Nat, NEW g, \A x \in S : g[x] \in Nat,
           \A x \in S \ {y} : g[x] = f[x]
    PROVE  SumFunctionOnSet(g, S) + f[y] = SumFunctionOnSet(f, S) + g[y]
<1>1. SumFunctionOnSet(f, S) = f[y] + SumFunctionOnSet(f, S \ {y})
  BY SumRemove
<1>2. SumFunctionOnSet(g, S) = g[y] + SumFunctionOnSet(f, S \ {y})
  BY SumOneMore
<1>3. SumFunctionOnSet(f, S \ {y}) \in Nat
  BY FS_RemoveElement, SumType
<1> QED
  BY <1>1, <1>2, <1>3

(* A quantity that follows a summand follows the sum.                      *)
LEMMA SumFollows ==
    ASSUME NEW S, IsFiniteSet(S), NEW f, \A x \in S : f[x] \in Nat,
           NEW g, \A x \in S : g[x] \in Nat, NEW r \in Nat, NEW t \in Nat,
           \/ g = f /\ t = r
           \/ \E y \in S : (\A x \in S \ {y} : g[x] = f[x]) /\ t + f[y] = r + g[y]
    PROVE  t + SumFunctionOnSet(f, S) = r + SumFunctionOnSet(g, S)
<1>1. SumFunctionOnSet(f, S) \in Nat /\ SumFunctionOnSet(g, S) \in Nat
  BY SumType
<1>2. CASE g = f /\ t = r
  BY <1>2
<1>3. ASSUME NEW y \in S, \A x \in S \ {y} : g[x] = f[x], t + f[y] = r + g[y]
      PROVE  t + SumFunctionOnSet(f, S) = r + SumFunctionOnSet(g, S)
  <2>1. SumFunctionOnSet(g, S) + f[y] = SumFunctionOnSet(f, S) + g[y]
    BY <1>3, SumChange
  <2>2. f[y] \in Nat /\ g[y] \in Nat
    OBVIOUS
  <2> QED
    BY <1>1, <1>3, <2>1, <2>2
<1> QED
  BY <1>2, <1>3

(* An amount that reaping cannot mistake for dust                          *)
DustFree(amount) == amount = 0 \/ amount >= ExistentialDeposit

(* Amounts that are no dust do not add up to dust, and taking one of them  *)
(* out leaves none.                                                        *)
LEMMA SumDustFree ==
    ASSUME NEW S, IsFiniteSet(S), NEW f, \A x \in S : f[x] \in Nat /\ DustFree(f[x])
    PROVE  /\ SumFunctionOnSet(f, S) \in Nat
           /\ DustFree(SumFunctionOnSet(f, S))
           /\ \A y \in S : /\ f[y] <= SumFunctionOnSet(f, S)
                           /\ DustFree(SumFunctionOnSet(f, S) - f[y])
<1>1. ASSUME NEW T \in SUBSET S
      PROVE  SumFunctionOnSet(f, T) \in Nat /\ DustFree(SumFunctionOnSet(f, T))
  <2>1. IsFiniteSet(T) /\ SumFunctionOnSet(f, T) \in Nat
    BY FS_Subset, SumType
  <2>2. CASE \A x \in T : f[x] = 0
    <3>1. SumFunctionOnSet(f, T) = SumFunctionOnSet(f, {})
      BY <2>1, <2>2, SumSupport
    <3> QED
      BY <2>1, <3>1, FS_EmptySet, SumUnfold DEF DustFree
  <2>3. ASSUME NEW y \in T, f[y] # 0
        PROVE  DustFree(SumFunctionOnSet(f, T))
    <3>1. f[y] <= SumFunctionOnSet(f, T) /\ f[y] \in Nat /\ f[y] >= ExistentialDeposit
      BY <2>1, <2>3, SumAtLeast DEF DustFree
    <3> QED
      BY <2>1, <3>1, DepositAssumption DEF DustFree
  <2> QED
    BY <2>1, <2>2, <2>3
<1>2. ASSUME NEW y \in S
      PROVE  f[y] <= SumFunctionOnSet(f, S) /\ DustFree(SumFunctionOnSet(f, S) - f[y])
  <2>1. /\ SumFunctionOnSet(f, S) = f[y] + SumFunctionOnSet(f, S \ {y})
        /\ SumFunctionOnSet(f, S \ {y}) \in Nat
        /\ DustFree(SumFunctionOnSet(f, S \ {y}))
        /\ f[y] \in Nat
    BY <1>1, SumRemove
  <2>2. SumFunctionOnSet(f, S) - f[y] = SumFunctionOnSet(f, S \ {y})
    BY <2>1
  <2> QED
    BY <2>1, <2>2
<1> QED
  BY <1>1, <1>2

(* What repatriate_reserved leaves, to the unit                            *)
LEMMA RepatriateExact ==
    ASSUME NEW bal \in Ledger, Reaped(bal), NEW from \in Account, NEW to \in Account,
           NEW amount \in Nat, ~RepatriateFails(bal, from, to, amount), from # to
    PROVE  LET new == Repatriate(bal, from, to, amount)
               actual == AtMost(bal[from].reserved, amount)
           IN  /\ actual \in Nat /\ actual <= bal[from].reserved
               /\ new[from] = Reap([free     |-> bal[from].free,
                                    reserved |-> bal[from].reserved - actual])
               /\ new[to] = [free |-> bal[to].free + actual, reserved |-> bal[to].reserved]
<1> DEFINE new == Repatriate(bal, from, to, amount)
           actual == AtMost(bal[from].reserved, amount)
<1>1. /\ bal[from] \in Balance /\ bal[to] \in Balance
      /\ bal[from].free \in Nat /\ bal[from].reserved \in Nat
      /\ bal[to].free \in Nat /\ bal[to].reserved \in Nat
  BY DEF Ledger, Balance
<1>2. actual \in Nat /\ actual <= bal[from].reserved
  BY <1>1 DEF AtMost
<1>3. CASE amount = 0
  <2>1. new = bal /\ actual = 0
    BY <1>1, <1>3 DEF Repatriate, AtMost
  <2> HIDE DEF new, actual
  <2>2. /\ [free |-> bal[from].free, reserved |-> bal[from].reserved - actual] = bal[from]
        /\ [free |-> bal[to].free + actual, reserved |-> bal[to].reserved] = bal[to]
    BY <1>1, <2>1 DEF Balance
  <2>3. Reap(bal[from]) = bal[from]
    BY <1>1, DepositAssumption DEF Reap, Dead, Reaped, IsAlive, Total, Balance
  <2> QED
    BY <1>2, <2>1, <2>2, <2>3 DEF new, actual
<1>4. CASE amount # 0
  BY <1>2, <1>4 DEF Repatriate, Ledger
<1> QED
  BY <1>3, <1>4

(* An entry with enough free, or with a reserve that is no dust, keeps its *)
(* reserve.                                                                *)
LEMMA ReapKeeps ==
    ASSUME NEW b \in Balance, DustFree(b.reserved) \/ b.free >= ExistentialDeposit
    PROVE  /\ Reap(b).reserved = b.reserved
           /\ b.free >= ExistentialDeposit => Reap(b) = b
BY DepositAssumption DEF DustFree, Reap, Balance, Dead, Total

(* The same of repatriate_reserved: the account it takes from gives up the *)
(* amount and no more.                                                     *)
LEMMA RepatriateReserve ==
    ASSUME NEW bal \in Ledger, Reaped(bal), NEW from \in Account, NEW to \in Account,
           NEW amount \in Nat, ~RepatriateFails(bal, from, to, amount), from # to,
           amount <= bal[from].reserved,
           DustFree(bal[from].reserved - amount) \/ bal[from].free >= ExistentialDeposit
    PROVE  LET new == Repatriate(bal, from, to, amount)
           IN  /\ new[from].reserved = bal[from].reserved - amount
               /\ bal[from].free >= ExistentialDeposit => new[from].free = bal[from].free
<1> DEFINE left == [free |-> bal[from].free, reserved |-> bal[from].reserved - amount]
<1>1. bal[from].free \in Nat /\ bal[from].reserved \in Nat
  BY DEF Ledger, Balance
<1>2. AtMost(bal[from].reserved, amount) = amount
  BY <1>1 DEF AtMost
<1>3. left \in Balance
  BY <1>1 DEF Balance
<1>4. Repatriate(bal, from, to, amount)[from] = Reap(left)
  <2>1. Repatriate(bal, from, to, amount)[from] =
            Reap([free     |-> bal[from].free,
                  reserved |-> bal[from].reserved - AtMost(bal[from].reserved, amount)])
    BY RepatriateExact
  <2> QED
    BY <1>2, <2>1
<1>5. /\ Reap(left).reserved = left.reserved
      /\ left.free >= ExistentialDeposit => Reap(left) = left
  BY <1>3, ReapKeeps
<1> QED
  BY <1>4, <1>5

(* The second half of a settlement, on whatever ledger the first has left: *)
(* the penalty of d is released, or goes to `who`.  What `who` has in      *)
(* reserve is not touched, and d gives up the penalty to the unit.         *)
LEMMA PenaltySettles ==
    ASSUME NEW bal \in Ledger, Reaped(bal), NEW who \in Account, NEW d \in Account, who # d,
           NEW penalty \in Nat, NEW new,
           \/ new = Unreserve(bal, d, penalty)
           \/ new = Repatriate(bal, d, who, penalty) /\ ~RepatriateFails(bal, d, who, penalty)
    PROVE  /\ new \in Ledger /\ Reaped(new)
           /\ \A a \in Account \ {who, d} : new[a] = bal[a]
           /\ new[who].reserved = bal[who].reserved
           /\ new[who].free >= bal[who].free
           /\ /\ penalty <= bal[d].reserved
              /\ DustFree(bal[d].reserved - penalty) \/ bal[d].free >= ExistentialDeposit
              => new[d].reserved = bal[d].reserved - penalty
<1> DEFINE actual == AtMost(bal[d].reserved, penalty)
<1>1. /\ bal[who].free \in Nat /\ bal[who].reserved \in Nat
      /\ bal[d].free \in Nat /\ bal[d].reserved \in Nat
  BY DEF Ledger, Balance
<1>2. penalty <= bal[d].reserved => actual = penalty
  BY <1>1 DEF AtMost
<1>3. CASE new = Unreserve(bal, d, penalty)
  <2>1. /\ new \in Ledger /\ Reaped(new)
        /\ new[d].reserved = bal[d].reserved - actual
        /\ \A a \in Account \ {d} : new[a] = bal[a]
    BY <1>3, UnreserveEffect
  <2>2. new[who] = bal[who]
    BY <2>1
  <2> HIDE DEF actual
  <2> QED
    BY <1>1, <1>2, <2>1, <2>2
<1>4. CASE new = Repatriate(bal, d, who, penalty) /\ ~RepatriateFails(bal, d, who, penalty)
  <2>1. /\ new \in Ledger /\ Reaped(new)
        /\ \A a \in Account \ {d, who} : new[a] = bal[a]
    BY <1>4, RepatriateEffect
  <2>2. /\ actual \in Nat
        /\ new[who] = [free |-> bal[who].free + actual, reserved |-> bal[who].reserved]
    BY <1>4, RepatriateExact
  <2>3. /\ penalty <= bal[d].reserved
        /\ DustFree(bal[d].reserved - penalty) \/ bal[d].free >= ExistentialDeposit
        => new[d].reserved = bal[d].reserved - penalty
    BY <1>4, RepatriateReserve
  <2> HIDE DEF actual
  <2>4. new[who].reserved = bal[who].reserved /\ new[who].free >= bal[who].free
    BY <1>1, <2>2
  <2> QED
    BY <2>1, <2>3, <2>4
<1> QED
  BY <1>3, <1>4

(* The first half of a rejection releases the fee, that of a completion    *)
(* pays it: either way the reserve of `who` shrinks by the fee, and that   *)
(* of d stays.                                                             *)
LEMMA FeeReleases ==
    ASSUME NEW bal \in Ledger, Reaped(bal), NEW who \in Account, NEW d \in Account, who # d,
           NEW fee \in Nat
    PROVE  LET new == Unreserve(bal, who, fee)
           IN  /\ new \in Ledger /\ Reaped(new)
               /\ \A a \in Account \ {who} : new[a] = bal[a]
               /\ new[d] = bal[d]
               /\ fee <= bal[who].reserved => new[who].reserved = bal[who].reserved - fee
               /\ new[who].free >= bal[who].free
               /\ ~IsAlive(new, who) => bal[who].reserved = 0 /\ new[who].reserved = 0
<1> DEFINE new == Unreserve(bal, who, fee)
           actual == AtMost(bal[who].reserved, fee)
<1>1. bal[who].free \in Nat /\ bal[who].reserved \in Nat
  BY DEF Ledger, Balance
<1>2. /\ new \in Ledger /\ Reaped(new)
      /\ new[who].reserved = bal[who].reserved - actual
      /\ new[who].free = bal[who].free + actual
      /\ \A a \in Account \ {who} : new[a] = bal[a]
  BY UnreserveEffect
<1>3. Total(new[who]) = Total(bal[who])
  BY UnreserveEffect
<1>4. actual \in Nat /\ (fee <= bal[who].reserved => actual = fee)
  BY <1>1 DEF AtMost
<1>5. new[who].free \in Nat /\ new[who].reserved \in Nat
  BY <1>2 DEF Ledger, Balance
<1> HIDE DEF new, actual
<1>6. new[who].free >= bal[who].free
  BY <1>1, <1>2, <1>4
<1>7. ~IsAlive(new, who) => bal[who].reserved = 0 /\ new[who].reserved = 0
  <2>1. \A w, x, y, z \in Nat : w + x = y + z /\ ~(w + x > 0) => x = 0 /\ z = 0
    OBVIOUS
  <2> QED
    BY <1>1, <1>3, <1>5, <2>1 DEF IsAlive, Total
<1>8. new[d] = bal[d]
  BY <1>2
<1> QED
  BY <1>2, <1>4, <1>6, <1>7, <1>8 DEF new

LEMMA FeePays ==
    ASSUME NEW bal \in Ledger, Reaped(bal), NEW who \in Account, NEW d \in Account, who # d,
           NEW fee \in Nat, ~RepatriateFails(bal, who, d, fee)
    PROVE  LET new == Repatriate(bal, who, d, fee)
           IN  /\ new \in Ledger /\ Reaped(new)
               /\ \A a \in Account \ {who, d} : new[a] = bal[a]
               /\ new[d].reserved = bal[d].reserved
               /\ new[d].free >= bal[d].free
               /\ /\ fee <= bal[who].reserved
                  /\ DustFree(bal[who].reserved - fee) \/ bal[who].free >= ExistentialDeposit
                  => /\ new[who].reserved = bal[who].reserved - fee
                     /\ bal[who].free >= ExistentialDeposit => new[who].free = bal[who].free
<1> DEFINE new == Repatriate(bal, who, d, fee)
           actual == AtMost(bal[who].reserved, fee)
<1>1. bal[d].free \in Nat /\ bal[d].reserved \in Nat
  BY DEF Ledger, Balance
<1>2. /\ new \in Ledger /\ Reaped(new)
      /\ \A a \in Account \ {who, d} : new[a] = bal[a]
  BY RepatriateEffect
<1>3. /\ actual \in Nat
      /\ new[d] = [free |-> bal[d].free + actual, reserved |-> bal[d].reserved]
  BY RepatriateExact
<1> HIDE DEF actual
<1>4. new[d].reserved = bal[d].reserved /\ new[d].free >= bal[d].free
  BY <1>1, <1>3
<1>5. /\ fee <= bal[who].reserved
      /\ DustFree(bal[who].reserved - fee) \/ bal[who].free >= ExistentialDeposit
      => /\ new[who].reserved = bal[who].reserved - fee
         /\ bal[who].free >= ExistentialDeposit => new[who].free = bal[who].free
  BY RepatriateReserve
<1> QED
  BY <1>2, <1>4, <1>5

(* What is left of an account's total after a withdrawal                   *)
Left(amount) == IF amount < ExistentialDeposit THEN 0 ELSE amount

LEMMA ReapTotal ==
    ASSUME NEW b \in Balance
    PROVE  Total(Reap(b)) = Left(Total(b))
BY DEF Reap, Dead, Total, Balance, Left

(* The two halves of a settlement, in what the two accounts own, when the  *)
(* client keeps the deposit free and the amounts are in reserve: the fee   *)
(* is paid in full,                                                        *)
LEMMA FeeTotals ==
    ASSUME NEW bal \in Ledger, Reaped(bal), NEW who \in Account, NEW d \in Account, who # d,
           NEW fee \in Nat, fee <= bal[who].reserved, bal[who].free >= ExistentialDeposit,
           IsAlive(bal, d)
    PROVE  LET new == Repatriate(bal, who, d, fee)
           IN  /\ ~RepatriateFails(bal, who, d, fee)
               /\ new \in Ledger /\ Reaped(new)
               /\ \A a \in Account \ {who, d} : new[a] = bal[a]
               /\ Total(new[d]) = Total(bal[d]) + fee
               /\ new[d].reserved = bal[d].reserved
               /\ Total(new[who]) = Total(bal[who]) - fee
               /\ new[who].free = bal[who].free
<1> DEFINE new == Repatriate(bal, who, d, fee)
<1>1. ~RepatriateFails(bal, who, d, fee)
  BY DEF RepatriateFails
<1>2. /\ bal[d].free \in Nat /\ bal[d].reserved \in Nat
      /\ bal[who].free \in Nat /\ bal[who].reserved \in Nat
  BY DEF Ledger, Balance
<1>3. AtMost(bal[who].reserved, fee) = fee
  BY <1>2 DEF AtMost
<1>4. /\ new \in Ledger /\ Reaped(new)
      /\ \A a \in Account \ {who, d} : new[a] = bal[a]
      /\ new[d].reserved = bal[d].reserved
      /\ new[who].reserved = bal[who].reserved - fee
      /\ new[who].free = bal[who].free
  BY <1>1, FeePays
<1>5. new[d] = [free |-> bal[d].free + fee, reserved |-> bal[d].reserved]
  <2>1. new[d] = [free     |-> bal[d].free + AtMost(bal[who].reserved, fee),
                  reserved |-> bal[d].reserved]
    BY <1>1, RepatriateExact
  <2> QED
    BY <1>3, <2>1
<1> HIDE DEF new
<1>6. Total(new[d]) = Total(bal[d]) + fee
  BY <1>2, <1>5 DEF Total
<1>7. Total(new[who]) = Total(bal[who]) - fee
  BY <1>2, <1>4 DEF Total
<1> QED
  BY <1>1, <1>4, <1>6, <1>7 DEF new

(* and the penalty is given back or forfeited in full.                     *)
LEMMA PenaltyTotals ==
    ASSUME NEW bal \in Ledger, Reaped(bal), NEW who \in Account, NEW d \in Account, who # d,
           NEW penalty \in Nat, bal[d].reserved = penalty, bal[who].free >= ExistentialDeposit
    PROVE  LET new == Repatriate(bal, d, who, penalty)
               back == Unreserve(bal, d, penalty)
           IN  /\ ~RepatriateFails(bal, d, who, penalty)
               /\ new \in Ledger /\ Reaped(new)
               /\ \A a \in Account \ {who, d} : new[a] = bal[a]
               /\ Total(new[d]) = Left(Total(bal[d]) - penalty)
               /\ Total(new[who]) = Total(bal[who]) + penalty
               /\ \A a \in Account : Total(back[a]) = Total(bal[a])
               /\ \A a \in Account \ {d} : back[a] = bal[a]
<1> DEFINE new == Repatriate(bal, d, who, penalty)
           back == Unreserve(bal, d, penalty)
           left == [free |-> bal[d].free, reserved |-> 0]
<1>1. /\ bal[d].free \in Nat /\ bal[d].reserved \in Nat
      /\ bal[who].free \in Nat /\ bal[who].reserved \in Nat
  BY DEF Ledger, Balance
<1>2. ~RepatriateFails(bal, d, who, penalty)
  BY <1>1, DepositAssumption DEF RepatriateFails, IsAlive, Total
<1>3. AtMost(bal[d].reserved, penalty) = penalty /\ bal[d].reserved - penalty = 0
  BY <1>1 DEF AtMost
<1>4. /\ new[d] = Reap(left)
      /\ new[who] = [free |-> bal[who].free + penalty, reserved |-> bal[who].reserved]
  <2>1. /\ new[d] = Reap([free     |-> bal[d].free,
                          reserved |-> bal[d].reserved - AtMost(bal[d].reserved, penalty)])
        /\ new[who] = [free     |-> bal[who].free + AtMost(bal[d].reserved, penalty),
                       reserved |-> bal[who].reserved]
    BY <1>2, RepatriateExact
  <2> QED
    BY <1>3, <2>1
<1>5. /\ new \in Ledger /\ Reaped(new)
      /\ \A a \in Account \ {who, d} : new[a] = bal[a]
  BY <1>2, RepatriateEffect
<1>6. /\ \A a \in Account : Total(back[a]) = Total(bal[a])
      /\ \A a \in Account \ {d} : back[a] = bal[a]
  BY UnreserveEffect
<1> HIDE DEF new, back
<1>7. Total(new[d]) = Left(Total(bal[d]) - penalty)
  <2>1. left \in Balance /\ Total(left) = Total(bal[d]) - penalty
    BY <1>1 DEF Balance, Total
  <2> HIDE DEF left
  <2> QED
    BY <1>4, <2>1, ReapTotal
<1>8. Total(new[who]) = Total(bal[who]) + penalty
  BY <1>1, <1>4 DEF Total
<1> QED
  BY <1>2, <1>5, <1>6, <1>7, <1>8 DEF new, back

(* An account that was not wiped out stands above the deposit.             *)
LEMMA ReapedTotal ==
    ASSUME NEW bal \in Ledger, Reaped(bal), NEW a \in Account
    PROVE  /\ Total(bal[a]) \in Nat
           /\ Left(Total(bal[a])) = Total(bal[a])
           /\ IsAlive(bal, a) <=> Total(bal[a]) >= ExistentialDeposit
           /\ bal[a].reserved \in Nat
<1>1. bal[a].free \in Nat /\ bal[a].reserved \in Nat
  BY DEF Ledger, Balance
<1>2. Total(bal[a]) \in Nat
  BY <1>1 DEF Total
<1>3. IsAlive(bal, a) => Total(bal[a]) >= ExistentialDeposit
  BY DEF Reaped
<1>4. IsAlive(bal, a) <=> Total(bal[a]) > 0
  BY DEF IsAlive
<1> QED
  BY <1>1, <1>2, <1>3, <1>4, DepositAssumption DEF Left

(* What repatriate_reserved moves, whatever it finds in reserve: what the  *)
(* one account owns less, and the other more.                              *)
LEMMA RepatriateTotals ==
    ASSUME NEW bal \in Ledger, Reaped(bal), NEW from \in Account, NEW to \in Account,
           NEW amount \in Nat, ~RepatriateFails(bal, from, to, amount), from # to
    PROVE  LET new == Repatriate(bal, from, to, amount)
               actual == AtMost(bal[from].reserved, amount)
           IN  /\ actual \in 0 .. amount
               /\ amount <= bal[from].reserved => actual = amount
               /\ new \in Ledger /\ Reaped(new)
               /\ \A a \in Account \ {from, to} : new[a] = bal[a]
               /\ Total(new[from]) = Left(Total(bal[from]) - actual)
               /\ Total(new[to]) = Total(bal[to]) + actual
               /\ new[to].reserved = bal[to].reserved
<1> DEFINE new == Repatriate(bal, from, to, amount)
           actual == AtMost(bal[from].reserved, amount)
           left == [free |-> bal[from].free, reserved |-> bal[from].reserved - actual]
<1>1. bal[from].free \in Nat /\ bal[from].reserved \in Nat
  BY DEF Ledger, Balance
<1>2. /\ actual \in 0 .. amount /\ actual <= bal[from].reserved
      /\ amount <= bal[from].reserved => actual = amount
  BY <1>1 DEF AtMost
<1>3. /\ new \in Ledger /\ Reaped(new)
      /\ \A a \in Account \ {from, to} : new[a] = bal[a]
      /\ Total(new[to]) = Total(bal[to]) + actual
      /\ new[to].reserved = bal[to].reserved
  BY RepatriateEffect
<1>4. new[from] = Reap(left)
  BY RepatriateExact
<1> HIDE DEF new, actual
<1>5. left \in Balance /\ Total(left) = Total(bal[from]) - actual
  BY <1>1, <1>2 DEF Balance, Total
<1> HIDE DEF left
<1>6. Total(new[from]) = Left(Total(bal[from]) - actual)
  BY <1>4, <1>5, ReapTotal
<1> QED
  BY <1>2, <1>3, <1>6 DEF new, actual
===============================================================================
