----------------------------- MODULE XcmPathProofs -----------------------------
(***************************************************************************)
(* Proofs about XcmPath: what a program can do on the chain that executes  *)
(* it, for every program, however long, and any number of messages.        *)
(*                                                                         *)
(* An execution is a fold of Step over the program.  What holds of every   *)
(* execution is shown by giving, for each number of instructions, the set  *)
(* of states the executor may be in after so many.                         *)
(***************************************************************************)
EXTENDS XcmPath, FiniteSetTheorems, TLAPS

-------------------------------------------------------------------------------
(* Folds over sequences                                                    *)

(* The minimal counterexample among the subsets of a finite set            *)
LEMMA MinimalSubset ==
    ASSUME NEW S, IsFiniteSet(S), NEW Bad \in SUBSET SUBSET S, Bad # {}
    PROVE  \E T \in Bad : \A U \in Bad : U \subseteq T => U = T
<1>1. IsWellFoundedOn(StrictSubsetOrdering(S), SUBSET S)
  BY FS_StrictSubsetOrderingWellFounded, FS_FiniteSubsetsOfFinite
<1>2. PICK T \in Bad : \A U \in Bad : <<U, T>> \notin StrictSubsetOrdering(S)
  BY <1>1, WFMin
<1> QED
  BY <1>2 DEF StrictSubsetOrdering

(* A finite set of integers that is not empty has a maximum.               *)
LEMMA MaxIn ==
    ASSUME NEW S, S \subseteq Int, IsFiniteSet(S), S # {}
    PROVE  Max(S) \in S /\ \A y \in S : Max(S) >= y
<1> DEFINE Bad == {T \in SUBSET S : T # {} /\ ~ \E x \in T : \A y \in T : x >= y}
<1>1. Bad = {}
  <2> SUFFICES ASSUME Bad # {} PROVE FALSE
    OBVIOUS
  <2>1. IsFiniteSet(S) /\ Bad # {} /\ Bad \in SUBSET SUBSET S
    OBVIOUS
  <2> HIDE DEF Bad
  <2>2. PICK T \in Bad : \A U \in Bad : U \subseteq T => U = T
    BY ONLY <2>1, MinimalSubset
  <2> USE DEF Bad
  <2>3. PICK x \in T : TRUE
    OBVIOUS
  <2>4. T \ {x} # {} /\ T \ {x} \in SUBSET S
    BY <2>3
  <2>5. PICK z \in T \ {x} : \A y \in T \ {x} : z >= y
    <3>1. T \ {x} \notin Bad
      <4> HIDE DEF Bad
      <4> QED
        BY <2>2, <2>3
    <3> QED
      BY <2>4, <3>1
  <2>6. x \in Int /\ z \in Int /\ (x >= z \/ z >= x)
    BY <2>3, <2>5
  <2>7. CASE z >= x
    BY <2>5, <2>7
  <2>8. CASE x >= z
    <3>1. \A y \in T : x >= y
      BY <2>5, <2>6, <2>8
    <3> QED
      BY <2>3, <3>1
  <2> QED
    BY <2>6, <2>7, <2>8
<1>2. \E x \in S : \A y \in S : x >= y
  BY <1>1
<1> QED
  BY <1>2 DEF Max

FiniteInts(D) == D \subseteq Int /\ IsFiniteSet(D)

(* iter folds f from base over every subset of D, the last element last.   *)
Folds(f, base, D, iter) ==
    iter = [s \in SUBSET D |-> IF s = {} THEN base ELSE f[<<iter[s \ {Max(s)}], Max(s)>>]]

(* The folds over the same set agree, whatever set they are part of.       *)
LEMMA FoldsUnique ==
    ASSUME NEW D, FiniteInts(D), NEW U \in SUBSET D,
           NEW f, NEW base, NEW g, NEW h, Folds(f, base, D, g), Folds(f, base, U, h)
    PROVE  \A s \in SUBSET U : g[s] = h[s]
<1> DEFINE Bad == {s \in SUBSET U : g[s] # h[s]}
<1> SUFFICES ASSUME Bad # {} PROVE FALSE
  OBVIOUS
<1>0. IsFiniteSet(D) /\ Bad # {} /\ Bad \in SUBSET SUBSET D
  BY DEF FiniteInts
<1> HIDE DEF Bad
<1>1. PICK T \in Bad : \A V \in Bad : V \subseteq T => V = T
  BY ONLY <1>0, MinimalSubset
<1> USE DEF Bad
<1>2. /\ g[T] = IF T = {} THEN base ELSE f[<<g[T \ {Max(T)}], Max(T)>>]
      /\ h[T] = IF T = {} THEN base ELSE f[<<h[T \ {Max(T)}], Max(T)>>]
  BY DEF Folds
<1>3. IsFiniteSet(T) /\ T \subseteq Int
  BY FS_Subset DEF FiniteInts
<1>4. T # {} /\ Max(T) \in T
  BY <1>2, <1>3, MaxIn
<1>5. g[T \ {Max(T)}] = h[T \ {Max(T)}]
  BY <1>1, <1>4
<1> QED
  BY <1>2, <1>4, <1>5

(* The recursion has a solution.                                           *)
LEMMA FoldsExists ==
    ASSUME NEW D, FiniteInts(D), NEW f, NEW base
    PROVE  \E g : Folds(f, base, D, g)
<1> DEFINE Bad == {T \in SUBSET D : ~ \E g : Folds(f, base, T, g)}
<1> SUFFICES ASSUME Bad # {} PROVE FALSE
  OBVIOUS
<1>0. IsFiniteSet(D) /\ Bad # {} /\ Bad \in SUBSET SUBSET D
  BY DEF FiniteInts
<1> HIDE DEF Bad
<1>1. PICK T \in Bad : \A V \in Bad : V \subseteq T => V = T
  BY ONLY <1>0, MinimalSubset
<1> USE DEF Bad
<1> DEFINE It(V) == CHOOSE g : Folds(f, base, V, g)
           Rest(s) == s \ {Max(s)}
           G == [s \in SUBSET T |->
                    IF s = {} THEN base ELSE f[<<It(Rest(s))[Rest(s)], Max(s)>>]]
<1>2. ASSUME NEW V \in SUBSET T, V # T PROVE Folds(f, base, V, It(V))
  BY <1>1, <1>2
<1>3. ASSUME NEW s \in SUBSET T, s # {} PROVE Max(s) \in s
  <2>1. IsFiniteSet(s) /\ s \subseteq Int
    BY FS_Subset DEF FiniteInts
  <2> QED
    BY <1>3, <2>1, MaxIn
<1>4. ASSUME NEW s \in SUBSET T, s # {}
      PROVE  G[Rest(s)] = It(Rest(s))[Rest(s)]
  <2> DEFINE u == Rest(s)
  <2>1. u \in SUBSET T /\ u # T
    BY <1>3, <1>4
  <2>2. Folds(f, base, u, It(u)) /\ FiniteInts(u)
    BY <1>2, <2>1, FS_Subset DEF FiniteInts
  <2>3. It(u)[u] = IF u = {} THEN base ELSE f[<<It(u)[Rest(u)], Max(u)>>]
    BY <2>2 DEF Folds
  <2>4. CASE u = {}
    BY <2>1, <2>3, <2>4
  <2>5. CASE u # {}
    <3>1. Rest(u) \in SUBSET u /\ Rest(u) # T
      BY <1>3, <2>1, <2>5
    <3>2. Folds(f, base, Rest(u), It(Rest(u)))
      BY <1>2, <2>1, <3>1
    <3>3. It(u)[Rest(u)] = It(Rest(u))[Rest(u)]
      <4>1. /\ FiniteInts(u) /\ Rest(u) \in SUBSET u
            /\ Folds(f, base, u, It(u)) /\ Folds(f, base, Rest(u), It(Rest(u)))
        BY <2>2, <3>1, <3>2
      <4> HIDE DEF It, Rest, u
      <4>2. \A v \in SUBSET Rest(u) : It(u)[v] = It(Rest(u))[v]
        BY ONLY <4>1, FoldsUnique
      <4> QED
        BY <4>2
    <3>4. G[u] = f[<<It(Rest(u))[Rest(u)], Max(u)>>]
      BY <2>1, <2>5
    <3> QED
      BY <2>3, <2>5, <3>3, <3>4
  <2> QED
    BY <2>4, <2>5
<1>5. Folds(f, base, T, G)
  <2>1. \A s \in SUBSET T :
            G[s] = IF s = {} THEN base ELSE f[<<G[Rest(s)], Max(s)>>]
    <3> TAKE s \in SUBSET T
    <3>1. G[s] = IF s = {} THEN base ELSE f[<<It(Rest(s))[Rest(s)], Max(s)>>]
      OBVIOUS
    <3> HIDE DEF G, It, Rest
    <3> QED
      BY <1>4, <3>1
  <2>2. G = [s \in SUBSET T |-> IF s = {} THEN base ELSE f[<<G[Rest(s)], Max(s)>>]]
    <3>1. G = [s \in SUBSET T |-> G[s]]
      OBVIOUS
    <3> HIDE DEF G, Rest
    <3> QED
      BY <2>1, <3>1
  <2> QED
    BY <2>2 DEF Folds
<1> QED
  BY <1>1, <1>5

(* The values of a fold over a set that f is closed on are in that set.    *)
LEMMA FoldsType ==
    ASSUME NEW D, FiniteInts(D), NEW A, NEW base \in A, NEW f \in [A \X D -> A],
           NEW g, Folds(f, base, D, g)
    PROVE  \A s \in SUBSET D : g[s] \in A
<1> DEFINE Bad == {s \in SUBSET D : g[s] \notin A}
<1> SUFFICES ASSUME Bad # {} PROVE FALSE
  OBVIOUS
<1>0. IsFiniteSet(D) /\ Bad # {} /\ Bad \in SUBSET SUBSET D
  BY DEF FiniteInts
<1> HIDE DEF Bad
<1>1. PICK T \in Bad : \A V \in Bad : V \subseteq T => V = T
  BY ONLY <1>0, MinimalSubset
<1> USE DEF Bad
<1>2. g[T] = IF T = {} THEN base ELSE f[<<g[T \ {Max(T)}], Max(T)>>]
  BY DEF Folds
<1>3. IsFiniteSet(T) /\ T \subseteq Int
  BY FS_Subset DEF FiniteInts
<1>4. T # {} /\ Max(T) \in T
  BY <1>2, <1>3, MaxIn
<1>5. g[T \ {Max(T)}] \in A
  BY <1>1, <1>4
<1> QED
  BY <1>2, <1>4, <1>5

(* The first k positions, and the first k - 1                              *)
LEMMA LastOfPrefix ==
    ASSUME NEW k \in Nat, k # 0
    PROVE  /\ 1 .. k # {}
           /\ Max(1 .. k) = k
           /\ (1 .. k) \ {k} = 1 .. (k - 1)
<1> DEFINE S == 1 .. k
<1>1. S \subseteq Int /\ IsFiniteSet(S) /\ S # {}
  <2>1. k \in S /\ S \subseteq Int
    OBVIOUS
  <2>2. IsFiniteSet(S)
    BY FS_Interval
  <2> HIDE DEF S
  <2> QED
    BY <2>1, <2>2
<1>2. Max(S) \in S /\ \A y \in S : Max(S) >= y
  <2> HIDE DEF S
  <2> QED
    BY <1>1, MaxIn
<1>3. Max(S) = k
  <2>1. k \in S /\ Max(S) \in Int /\ Max(S) <= k
    BY <1>2
  <2> QED
    BY <1>2, <2>1
<1>4. S \ {k} = 1 .. (k - 1)
  <2>1. \A x : x \in S \ {k} <=> x \in 1 .. (k - 1)
    OBVIOUS
  <2> HIDE DEF S
  <2> QED
    BY <2>1
<1> QED
  BY <1>1, <1>3, <1>4

(* What the fold over a prefix is follows from prefix to prefix.           *)
LEMMA PrefixInduction ==
    ASSUME NEW n \in Nat, NEW g, NEW V, g[{}] \in V[0],
           \A k \in 1 .. n : g[1 .. (k - 1)] \in V[k - 1] => g[1 .. k] \in V[k]
    PROVE  \A k \in 0 .. n : g[1 .. k] \in V[k]
<1> DEFINE D == 1 .. n
           Bad == {T \in SUBSET D : \E k \in 0 .. n : T = 1 .. k /\ g[T] \notin V[k]}
<1>1. Bad = {}
  <2> SUFFICES ASSUME Bad # {} PROVE FALSE
    OBVIOUS
  <2>0. IsFiniteSet(D)
    BY FS_Interval
  <2>1. IsFiniteSet(D) /\ Bad # {} /\ Bad \in SUBSET SUBSET D
    <3> HIDE DEF D
    <3> QED
      BY <2>0
  <2> HIDE DEF Bad, D
  <2>2. PICK T \in Bad : \A U \in Bad : U \subseteq T => U = T
    BY ONLY <2>1, MinimalSubset
  <2> USE DEF Bad, D
  <2>3. PICK k \in 0 .. n : T = 1 .. k /\ g[T] \notin V[k]
    OBVIOUS
  <2>4. CASE k = 0
    BY <2>3, <2>4
  <2>5. CASE k # 0
    <3>1. k \in 1 .. n /\ k - 1 \in 0 .. n
      BY <2>3, <2>5
    <3>2. g[1 .. (k - 1)] \notin V[k - 1]
      BY <2>3, <3>1
    <3>3. 1 .. (k - 1) \in SUBSET (1 .. n) /\ 1 .. (k - 1) \subseteq T
      BY <2>3, <3>1
    <3>4. 1 .. (k - 1) \in Bad
      BY <3>1, <3>2, <3>3
    <3>5. 1 .. (k - 1) = T
      BY <2>2, <3>3, <3>4
    <3>6. k \in T /\ k \notin 1 .. (k - 1)
      BY <2>3, <3>1
    <3> QED
      BY <3>5, <3>6
  <2> QED
    BY <2>4, <2>5
<1>2. ASSUME NEW k \in 0 .. n PROVE g[1 .. k] \in V[k]
  <2>1. 1 .. k \in SUBSET (1 .. n)
    BY <1>2
  <2> QED
    BY <1>1, <1>2, <2>1
<1> QED
  BY <1>2

-------------------------------------------------------------------------------
(* The executor's fold                                                     *)

(* iter is what Execute computes of every set of positions.                *)
Executes(base, program, iter) ==
    iter = [s \in SUBSET (DOMAIN program) |->
                IF s = {} THEN base ELSE Step(iter[s \ {Max(s)}], program[Max(s)])]

(* States A that no step leaves contain the states of every execution, and *)
(* where the steps lead from V[k - 1] to V[k], they end in V[Len(program)].*)
LEMMA ExecutorStates ==
    ASSUME NEW program, NEW n \in Nat, DOMAIN program = 1 .. n, NEW A, NEW base \in A,
           \A v \in A, k \in 1 .. n : Step(v, program[k]) \in A,
           NEW V, base \in V[0],
           \A k \in 1 .. n : \A v \in A : v \in V[k - 1] => Step(v, program[k]) \in V[k]
    PROVE  FoldLeft(Step, base, program) \in A \cap V[n]
<1> DEFINE D == 1 .. n
           f == [z \in A \X D |-> Step(z[1], program[z[2]])]
           iter == CHOOSE g : Executes(base, program, g)
<1>1. FiniteInts(D)
  BY FS_Interval DEF FiniteInts
<1>2. f \in [A \X D -> A]
  OBVIOUS
<1>3. PICK g : Folds(f, base, D, g)
  <2> HIDE DEF D, f
  <2> QED
    BY <1>1, FoldsExists
<1>4. \A s \in SUBSET D : g[s] \in A
  <2> HIDE DEF D, f
  <2> QED
    BY <1>1, <1>2, <1>3, FoldsType
<1>5. \A s \in SUBSET D : s # {} => Max(s) \in s
  <2> TAKE s \in SUBSET D
  <2>1. IsFiniteSet(s) /\ s \subseteq Int
    BY <1>1, FS_Subset DEF FiniteInts
  <2> QED
    BY <2>1, MaxIn
<1>6. \A s \in SUBSET D :
        g[s] = IF s = {} THEN base ELSE Step(g[s \ {Max(s)}], program[Max(s)])
  <2> TAKE s \in SUBSET D
  <2>1. g[s] = IF s = {} THEN base ELSE f[<<g[s \ {Max(s)}], Max(s)>>]
    BY <1>3 DEF Folds
  <2>2. CASE s # {}
    <3>1. Max(s) \in D /\ g[s \ {Max(s)}] \in A
      BY <1>4, <1>5, <2>2
    <3> QED
      BY <2>1, <2>2, <3>1
  <2> QED
    BY <2>1, <2>2
<1>7. Executes(base, program, g)
  <2>1. g = [s \in SUBSET D |-> g[s]]
    BY <1>3 DEF Folds
  <2> HIDE DEF D
  <2>2. DOMAIN program = D
    BY DEF D
  <2>3. g = [s \in SUBSET D |->
                IF s = {} THEN base ELSE Step(g[s \ {Max(s)}], program[Max(s)])]
    BY <1>6, <2>1
  <2> QED
    BY <2>2, <2>3 DEF Executes
<1>8. Executes(base, program, iter)
  BY <1>7
<1>9. FoldLeft(Step, base, program) = iter[1 .. n]
  BY DEF FoldLeft, MapThenFoldSet, Executes
<1> HIDE DEF iter, f
<1>10. \A s \in SUBSET D :
        iter[s] = IF s = {} THEN base ELSE Step(iter[s \ {Max(s)}], program[Max(s)])
  BY <1>8 DEF Executes
<1> DEFINE W == [k \in 0 .. n |-> A \cap V[k]]
<1>11. iter[{}] \in W[0]
  BY <1>10
<1>12. ASSUME NEW k \in 1 .. n, iter[1 .. (k - 1)] \in W[k - 1] PROVE iter[1 .. k] \in W[k]
  <2>0. k \in Nat /\ k # 0 /\ 1 .. k \in SUBSET D
    OBVIOUS
  <2>1. 1 .. k # {} /\ Max(1 .. k) = k /\ (1 .. k) \ {k} = 1 .. (k - 1)
    BY <2>0, LastOfPrefix
  <2>2. iter[1 .. k] = Step(iter[1 .. (k - 1)], program[k])
    BY <1>10, <2>0, <2>1
  <2>3. W[k - 1] = A \cap V[k - 1] /\ W[k] = A \cap V[k]
    OBVIOUS
  <2> HIDE DEF W, D
  <2> QED
    BY <1>12, <2>2, <2>3
<1>13. iter[1 .. n] \in W[n]
  <2> HIDE DEF W
  <2>1. \A k \in 0 .. n : iter[1 .. k] \in W[k]
    BY <1>11, <1>12, PrefixInduction
  <2> QED
    BY <2>1
<1> QED
  BY <1>9, <1>13

-------------------------------------------------------------------------------
(* Weights and limits                                                      *)

LEMMA InstrWeightType == ASSUME NEW i \in Instruction PROVE InstrWeight(i) \in Nat
BY XcmAssumption DEF Instruction, InstrWeight

(* iter is what Weight computes of every set of positions.                 *)
Weighs(program, iter) ==
    iter = [s \in SUBSET (DOMAIN program) |->
                IF s = {} THEN 0 ELSE iter[s \ {Max(s)}] + InstrWeight(program[Max(s)])]

(* A program has a weight.                                                 *)
LEMMA WeightType == ASSUME NEW program \in Seq(Instruction) PROVE Weight(program) \in Nat
<1> DEFINE n == Len(program)
           D == 1 .. n
           f == [z \in Nat \X D |-> z[1] + InstrWeight(program[z[2]])]
           iter == CHOOSE g : Weighs(program, g)
<1>1. n \in Nat /\ DOMAIN program = D /\ FiniteInts(D)
  BY FS_Interval DEF FiniteInts
<1>2. \A k \in D : InstrWeight(program[k]) \in Nat
  BY InstrWeightType
<1> HIDE DEF n
<1>3. f \in [Nat \X D -> Nat]
  <2> HIDE DEF D
  <2> QED
    BY <1>2
<1>4. PICK g : Folds(f, 0, D, g)
  <2> HIDE DEF D, f
  <2> QED
    BY <1>1, FoldsExists
<1>5. \A s \in SUBSET D : g[s] \in Nat
  <2> HIDE DEF D, f
  <2> QED
    BY <1>1, <1>3, <1>4, FoldsType
<1>6. \A s \in SUBSET D : s # {} => Max(s) \in s
  <2> TAKE s \in SUBSET D
  <2>1. IsFiniteSet(s) /\ s \subseteq Int
    BY <1>1, FS_Subset DEF FiniteInts
  <2> QED
    BY <2>1, MaxIn
<1>7. \A s \in SUBSET D :
        g[s] = IF s = {} THEN 0 ELSE g[s \ {Max(s)}] + InstrWeight(program[Max(s)])
  <2> TAKE s \in SUBSET D
  <2>1. g[s] = IF s = {} THEN 0 ELSE f[<<g[s \ {Max(s)}], Max(s)>>]
    BY <1>4 DEF Folds
  <2>2. CASE s # {}
    <3>1. Max(s) \in D /\ g[s \ {Max(s)}] \in Nat
      BY <1>5, <1>6, <2>2
    <3> QED
      BY <2>1, <2>2, <3>1
  <2> QED
    BY <2>1, <2>2
<1>8. Weighs(program, g)
  <2>1. g = [s \in SUBSET D |-> g[s]]
    BY <1>4 DEF Folds
  <2> HIDE DEF D
  <2>2. g = [s \in SUBSET D |->
                IF s = {} THEN 0 ELSE g[s \ {Max(s)}] + InstrWeight(program[Max(s)])]
    BY <1>7, <2>1
  <2> QED
    BY <1>1, <2>2 DEF Weighs
<1>9. Weighs(program, iter)
  BY <1>8
<1>10. Weight(program) = iter[1 .. n]
  BY <1>1 DEF Weight, FoldLeft, MapThenFoldSet, Weighs
<1> HIDE DEF iter, f
<1>11. \A s \in SUBSET D :
        iter[s] = IF s = {} THEN 0 ELSE iter[s \ {Max(s)}] + InstrWeight(program[Max(s)])
  BY <1>1, <1>9 DEF Weighs
<1> DEFINE V == [k \in 0 .. n |-> Nat]
<1>12. iter[{}] \in V[0]
  <2>1. iter[{}] = 0
    BY <1>11
  <2> QED
    BY <1>1, <2>1
<1>13. ASSUME NEW k \in 1 .. n, iter[1 .. (k - 1)] \in V[k - 1] PROVE iter[1 .. k] \in V[k]
  <2>0. k \in Nat /\ k # 0 /\ 1 .. k \in SUBSET D /\ k - 1 \in 0 .. n /\ k \in 0 .. n
    BY <1>1
  <2>1. 1 .. k # {} /\ Max(1 .. k) = k /\ (1 .. k) \ {k} = 1 .. (k - 1)
    BY <2>0, LastOfPrefix
  <2>2. iter[1 .. k] = iter[1 .. (k - 1)] + InstrWeight(program[k])
    BY <1>11, <2>0, <2>1
  <2> QED
    BY <1>2, <1>13, <2>0, <2>2
<1>14. iter[1 .. n] \in V[n]
  <2> HIDE DEF V
  <2>1. \A k \in 0 .. n : iter[1 .. k] \in V[k]
    BY <1>1, <1>12, <1>13, PrefixInduction
  <2> QED
    BY <1>1, <2>1
<1> QED
  BY <1>1, <1>10, <1>14

(* Limiting what a program may spend keeps its instructions, but for the   *)
(* limit of the one that pays.                                             *)
LEMMA LimitedType ==
    ASSUME NEW program \in Seq(Instruction)
    PROVE  /\ DOMAIN Limited(program) = 1 .. Len(program)
           /\ \A j \in 1 .. Len(program) :
                /\ Limited(program)[j] \in Instruction
                /\ j \notin Pays(program) => Limited(program)[j] = program[j]
                /\ j \in Pays(program) =>
                     /\ Limited(program)[j].op = "BuyExecution"
                     /\ Limited(program)[j].limit = Weight(program)
<1>1. DOMAIN Limited(program) = 1 .. Len(program)
  BY DEF Limited
<1> SUFFICES ASSUME NEW j \in 1 .. Len(program)
             PROVE  /\ Limited(program)[j] \in Instruction
                    /\ j \notin Pays(program) => Limited(program)[j] = program[j]
                    /\ j \in Pays(program) =>
                         /\ Limited(program)[j].op = "BuyExecution"
                         /\ Limited(program)[j].limit = Weight(program)
  BY <1>1
<1>2. program[j] \in Instruction /\ Weight(program) \in Nat
  BY WeightType
<1>3. CASE j \notin Pays(program)
  BY <1>2, <1>3 DEF Limited
<1>4. CASE j \in Pays(program)
  <2>1. program[j].op = "BuyExecution"
    BY <1>4 DEF Pays
  <2>2. program[j] \in [op : {"BuyExecution"}, fees : Nat, limit : Nat \cup {Unlimited}]
    BY <1>2, <2>1 DEF Instruction
  <2>3. Limited(program)[j] = [program[j] EXCEPT !.limit = Weight(program)]
    BY <1>4 DEF Limited
  <2>4. /\ Limited(program)[j] \in [op : {"BuyExecution"}, fees : Nat, limit : Nat \cup {Unlimited}]
        /\ Limited(program)[j].op = "BuyExecution"
        /\ Limited(program)[j].limit = Weight(program)
    BY <1>2, <2>2, <2>3
  <2> QED
    BY <1>4, <2>4 DEF Instruction
<1> QED
  BY <1>3, <1>4

-------------------------------------------------------------------------------
(* The states of the executor                                              *)

Account == User \cup Party

(* Where the origin of a message from p may be, and who it may act as      *)
Places(p) == {s \in Seq(Party \cup User \cup {Executive}) : Len(s) > 0 /\ s[1] = p}
Speakers(p) ==
    {o \in {<<"Relay">>} : p = Relay}
    \cup {<<"Signed", p>>, <<"SiblingParachain", p>>}
    \cup {<<"Xcm">> \o s : s \in Places(p)}

ExecutorType(p) ==
    [origin : {<<>>} \cup Places(p), holding : Nat, bal : [Account -> Nat], bought : Nat,
     as : SUBSET Speakers(p), surplus : Nat, ok : BOOLEAN]

(* Whatever the kind, a message from p is dispatched as p or as someone in *)
(* it.                                                                     *)
LEMMA DispatchSpeaks ==
    ASSUME NEW p \in Party, NEW origin \in {<<>>} \cup Places(p), NEW kind \in Kind,
           DispatchOrigin(origin, kind) # None
    PROVE  DispatchOrigin(origin, kind) \in Speakers(p)
<1>1. origin # <<>> => Len(origin) > 0 /\ origin[1] = p /\ origin \in Places(p)
  BY DEF Places
<1>2. CASE kind = "SovereignAccount"
  <2>1. HasAccount(origin) /\ origin # <<>>
    BY <1>2 DEF DispatchOrigin, HasAccount
  <2>2. DispatchOrigin(origin, kind) = <<"Signed", origin[1]>>
    BY <1>2, <2>1 DEF DispatchOrigin
  <2> QED
    BY <1>1, <2>1, <2>2 DEF Speakers
<1>3. CASE kind = "Native" /\ origin = <<Relay>>
  <2>1. DispatchOrigin(origin, kind) = <<"Relay">>
    BY <1>3 DEF DispatchOrigin, RelayChainAsNative
  <2>2. p = Relay
    BY <1>1, <1>3
  <2> QED
    BY <2>1, <2>2 DEF Speakers
<1>4. CASE kind = "Native" /\ origin # <<Relay>>
  <2>1. Len(origin) = 1 /\ origin # <<>>
    BY <1>4 DEF DispatchOrigin, RelayChainAsNative
  <2>2. DispatchOrigin(origin, kind) = <<"SiblingParachain", origin[1]>>
    BY <1>4, <2>1 DEF DispatchOrigin, RelayChainAsNative
  <2> QED
    BY <1>1, <2>1, <2>2 DEF Speakers
<1>5. CASE kind = "Xcm"
  <2>1. origin # <<>>
    BY <1>5 DEF DispatchOrigin
  <2>2. DispatchOrigin(origin, kind) = <<"Xcm">> \o origin
    BY <1>5, <2>1 DEF DispatchOrigin
  <2> QED
    BY <1>1, <2>1, <2>2 DEF Speakers
<1>6. CASE kind = "Superuser"
  BY <1>6 DEF DispatchOrigin
<1> QED
  BY <1>2, <1>3, <1>4, <1>5, <1>6 DEF Kind

(* An instruction that succeeds, by what it does to what the executor holds*)
(* and to whom it has acted as.                                            *)
Withdraws(p, v, w, i) ==
    /\ i.op = "WithdrawAsset" /\ v.origin = <<p>> /\ v.bal[p] >= i.amount
    /\ w = [v EXCEPT !.bal[p] = @ - i.amount, !.holding = @ + i.amount]
Mints(p, v, w, i) ==
    /\ i.op = "ReserveAssetDeposited" /\ p = Relay
    /\ w = [v EXCEPT !.holding = @ + i.amount]
Moves(p, v, w, i) ==
    /\ i.op \in {"ClearOrigin", "DescendOrigin"}
    /\ \E o \in {<<>>} \cup Places(p) : w = [v EXCEPT !.origin = o]
Buys(p, v, w, i) ==
    /\ i.op = "BuyExecution"
    /\ \/ i.limit = Unlimited /\ w = v
       \/ /\ i.limit \in Nat /\ v.holding >= i.limit
          /\ w = [v EXCEPT !.holding = @ - i.limit, !.bought = @ + i.limit]
Dispatches(p, v, w, i) ==
    /\ i.op = "Transact"
    /\ \E o \in Speakers(p), n \in Nat :
          w = [v EXCEPT !.as = @ \cup {o}, !.surplus = @ + n]
Deposits(p, v, w, i) ==
    /\ i.op = "DepositAsset" /\ i.to \in Account
    /\ w = [v EXCEPT !.bal[i.to] = @ + v.holding, !.holding = 0]
Stops(p, v, w, i) == v.ok /\ w = [v EXCEPT !.ok = FALSE]
Skips(p, v, w, i) == ~v.ok /\ \E n \in Nat : w = [v EXCEPT !.surplus = @ + n]

Executed(p, v, w, i) ==
    \/ Withdraws(p, v, w, i)
    \/ Mints(p, v, w, i)
    \/ Moves(p, v, w, i)
    \/ Buys(p, v, w, i)
    \/ Dispatches(p, v, w, i)
    \/ Deposits(p, v, w, i)

(* A step of the executor is one of these.                                 *)
LEMMA StepCases ==
    ASSUME NEW p \in Party, NEW v \in ExecutorType(p), NEW i \in Instruction
    PROVE  \/ v.ok /\ Succeeds(v, i) /\ Executed(p, v, Step(v, i), i)
           \/ ~Succeeds(v, i) /\ Stops(p, v, Step(v, i), i)
           \/ Skips(p, v, Step(v, i), i)
<1>1. CASE ~v.ok
  <2>1. Step(v, i) = [v EXCEPT !.surplus = @ + InstrWeight(i)]
    BY <1>1 DEF Step
  <2> QED
    BY <1>1, <2>1, InstrWeightType DEF Skips
<1>2. CASE v.ok /\ ~Succeeds(v, i)
  BY <1>2 DEF Step, Stops
<1>3. CASE v.ok /\ Succeeds(v, i)
  <2>0. Step(v, i) = Effect(v, i)
    BY <1>3 DEF Step
  <2> SUFFICES Executed(p, v, Effect(v, i), i)
    BY <1>3, <2>0
  <2>1. CASE i.op = "WithdrawAsset"
    <3>1. HasAccount(v.origin) /\ v.bal[v.origin[1]] >= i.amount
      BY <1>3, <2>1 DEF Succeeds
    <3>2. v.origin[1] = p /\ v.origin = <<p>>
      BY <3>1 DEF HasAccount, ExecutorType, Places
    <3> QED
      BY <2>1, <3>1, <3>2 DEF Effect, Executed, Withdraws
  <2>2. CASE i.op = "ReserveAssetDeposited"
    <3>1. v.origin = <<Relay>>
      BY <1>3, <2>2 DEF Succeeds, IsReserve
    <3>2. v.origin \in {<<>>} \cup Places(p) /\ Len(v.origin) = 1
      <4>1. v.origin \in {<<>>} \cup Places(p)
        BY DEF ExecutorType
      <4> QED
        BY <3>1, <4>1
    <3>3. p = Relay
      BY <3>1, <3>2 DEF Places
    <3> QED
      BY <2>2, <3>3 DEF Effect, Executed, Mints
  <2>3. CASE i.op = "ReceiveTeleportedAsset"
    BY <1>3, <2>3 DEF Succeeds, IsTeleporter
  <2>4. CASE i.op = "ClearOrigin"
    <3>1. Effect(v, i) = [v EXCEPT !.origin = <<>>]
      BY <2>4 DEF Effect
    <3> QED
      BY <2>4, <3>1 DEF Executed, Moves
  <2>5. CASE i.op = "DescendOrigin"
    <3>1. v.origin # <<>> /\ v.origin \in Places(p)
      BY <1>3, <2>5 DEF Succeeds, ExecutorType
    <3>2. i.interior \in User \cup {Executive}
      BY <2>5 DEF Instruction
    <3>3. Append(v.origin, i.interior) \in Places(p)
      <4> DEFINE S == Party \cup User \cup {Executive}
                 new == Append(v.origin, i.interior)
      <4>1. v.origin \in Seq(S) /\ Len(v.origin) > 0 /\ v.origin[1] = p /\ i.interior \in S
        BY <3>1, <3>2 DEF Places
      <4> HIDE DEF S
      <4>2. new \in Seq(S) /\ Len(new) > 0 /\ new[1] = p
        BY <4>1
      <4> QED
        BY <4>2 DEF Places, S
    <3>4. Effect(v, i) = [v EXCEPT !.origin = Append(v.origin, i.interior)]
      BY <2>5 DEF Effect, ExecutorType
    <3> QED
      BY <2>5, <3>3, <3>4 DEF Executed, Moves
  <2>6. CASE i.op = "BuyExecution"
    <3>1. i.limit \in Nat \cup {Unlimited} /\ i.fees \in Nat
      BY <2>6 DEF Instruction
    <3>2. CASE i.limit = Unlimited
      BY <2>6, <3>2 DEF Effect, Executed, Buys
    <3>3. CASE i.limit # Unlimited
      <4>1. v.holding >= i.fees /\ i.fees >= i.limit /\ v.holding \in Nat
        BY <1>3, <2>6, <3>3 DEF Succeeds, CanBuy, ExecutorType
      <4>2. i.limit \in Nat /\ v.holding >= i.limit
        BY <3>1, <3>3, <4>1
      <4> QED
        BY <2>6, <3>3, <4>2 DEF Effect, Executed, Buys
    <3> QED
      BY <3>2, <3>3
  <2>7. CASE i.op = "Transact"
    <3>1. i.kind \in Kind /\ i.atMost \in Nat
      BY <2>7 DEF Instruction
    <3>2. /\ DispatchOrigin(v.origin, i.kind) # None
          /\ i.call \in Call
          /\ CallWeight[i.call] <= i.atMost
      BY <1>3, <2>7 DEF Succeeds
    <3>3. DispatchOrigin(v.origin, i.kind) \in Speakers(p)
      BY <3>1, <3>2, DispatchSpeaks DEF ExecutorType
    <3>4. CallWeight[i.call] \in Nat
      BY <3>2, XcmAssumption
    <3> DEFINE n == i.atMost - CallWeight[i.call]
    <3>5. n \in Nat /\ v.surplus + i.atMost - CallWeight[i.call] = v.surplus + n
      BY <3>1, <3>2, <3>4 DEF ExecutorType
    <3>6. Effect(v, i) = [v EXCEPT !.as = @ \cup {DispatchOrigin(v.origin, i.kind)},
                                   !.surplus = v.surplus + i.atMost - CallWeight[i.call]]
      BY <2>7 DEF Effect, ExecutorType
    <3> HIDE DEF n
    <3> QED
      BY <2>7, <3>3, <3>5, <3>6 DEF Executed, Dispatches
  <2>8. CASE i.op = "DepositAsset"
    BY <2>8 DEF Effect, Executed, Deposits, Instruction, Account
  <2> QED
    BY <2>1, <2>2, <2>3, <2>4, <2>5, <2>6, <2>7, <2>8 DEF Instruction
<1> QED
  BY <1>1, <1>2, <1>3 DEF ExecutorType

(* The executor's state keeps its type.                                    *)
LEMMA StepType ==
    ASSUME NEW p \in Party, NEW v \in ExecutorType(p), NEW i \in Instruction
    PROVE  Step(v, i) \in ExecutorType(p)
<1> DEFINE w == Step(v, i)
<1>1. Executed(p, v, w, i) \/ Stops(p, v, w, i) \/ Skips(p, v, w, i)
  BY StepCases
<1>2. p \in Account
  BY DEF Account
<1> SUFFICES w \in ExecutorType(p)
  OBVIOUS
<1> HIDE DEF w
<1>3. CASE Withdraws(p, v, w, i)
  <2>1. i.amount \in Nat
    BY <1>3 DEF Withdraws, Instruction
  <2>2. v.bal[p] - i.amount \in Nat /\ v.holding + i.amount \in Nat
    BY <1>2, <1>3, <2>1 DEF Withdraws, ExecutorType
  <2> QED
    BY <1>2, <1>3, <2>2 DEF Withdraws, ExecutorType
<1>4. CASE Mints(p, v, w, i)
  <2>1. i.amount \in Nat
    BY <1>4 DEF Mints, Instruction
  <2> QED
    BY <1>4, <2>1 DEF Mints, ExecutorType
<1>5. CASE Moves(p, v, w, i)
  BY <1>5 DEF Moves, ExecutorType
<1>6. CASE Buys(p, v, w, i)
  <2>1. CASE w = v
    BY <2>1
  <2>2. CASE w # v
    <3>1. /\ v.holding - i.limit \in Nat /\ v.bought + i.limit \in Nat
          /\ w = [v EXCEPT !.holding = v.holding - i.limit, !.bought = v.bought + i.limit]
      BY <1>6, <2>2 DEF Buys, ExecutorType
    <3> QED
      BY <3>1 DEF ExecutorType
  <2> QED
    BY <2>1, <2>2
<1>7. CASE Dispatches(p, v, w, i)
  <2>1. PICK o \in Speakers(p), n \in Nat :
            w = [v EXCEPT !.as = v.as \cup {o}, !.surplus = v.surplus + n]
    BY <1>7 DEF Dispatches
  <2>2. v.as \cup {o} \in SUBSET Speakers(p) /\ v.surplus + n \in Nat
    BY DEF ExecutorType
  <2> QED
    BY <2>1, <2>2 DEF ExecutorType
<1>8. CASE Deposits(p, v, w, i)
  <2>1. i.to \in Account /\ v.bal[i.to] + v.holding \in Nat
    BY <1>8 DEF Deposits, ExecutorType
  <2>2. w = [v EXCEPT !.bal = [v.bal EXCEPT ![i.to] = v.bal[i.to] + v.holding], !.holding = 0]
    BY <1>8 DEF Deposits, ExecutorType
  <2>3. [v.bal EXCEPT ![i.to] = v.bal[i.to] + v.holding] \in [Account -> Nat]
    BY <2>1 DEF ExecutorType
  <2> QED
    BY <2>2, <2>3 DEF ExecutorType
<1>9. CASE Stops(p, v, w, i)
  BY <1>9 DEF Stops, ExecutorType
<1>10. CASE Skips(p, v, w, i)
  BY <1>10 DEF Skips, ExecutorType
<1> QED
  BY <1>1, <1>3, <1>4, <1>5, <1>6, <1>7, <1>8, <1>9, <1>10 DEF Executed, w

(* Execute, of the accounts b of the chain that executes                   *)
Start(b, p) ==
    [origin |-> <<p>>, holding |-> 0, bal |-> b, bought |-> 0,
     as |-> {}, surplus |-> 0, ok |-> TRUE]
ExecuteOn(b, p, program) == FoldLeft(Step, Start(b, p), Limited(program))

LEMMA StartType ==
    ASSUME NEW p \in Party, NEW b \in [Account -> Nat]
    PROVE  Start(b, p) \in ExecutorType(p)
<1>1. <<p>> \in Places(p)
  <2>1. p \in Party \cup User \cup {Executive}
    OBVIOUS
  <2> QED
    BY <2>1 DEF Places
<1> QED
  BY <1>1 DEF Start, ExecutorType

(* The states a program leads to, given those that each number of its      *)
(* instructions may lead to.                                               *)
LEMMA ExecutionStates ==
    ASSUME NEW p \in Party, NEW b \in [Account -> Nat], NEW program \in Seq(Instruction),
           NEW V, Start(b, p) \in V[0],
           \A k \in 1 .. Len(program) : \A v \in ExecutorType(p) :
              v \in V[k - 1] => Step(v, Limited(program)[k]) \in V[k]
    PROVE  ExecuteOn(b, p, program) \in ExecutorType(p) \cap V[Len(program)]
<1> DEFINE n == Len(program)
           code == Limited(program)
<1>1. n \in Nat /\ DOMAIN code = 1 .. n /\ \A k \in 1 .. n : code[k] \in Instruction
  BY LimitedType
<1>2. Start(b, p) \in ExecutorType(p)
  BY StartType
<1> HIDE DEF n, code
<1>3. \A v \in ExecutorType(p), k \in 1 .. n : Step(v, code[k]) \in ExecutorType(p)
  BY <1>1, StepType
<1>4. FoldLeft(Step, Start(b, p), code) \in ExecutorType(p) \cap V[n]
  BY <1>1, <1>2, <1>3, ExecutorStates DEF n, code
<1> QED
  BY <1>4 DEF ExecuteOn, n, code

LEMMA ExecutionType ==
    ASSUME NEW p \in Party, NEW b \in [Account -> Nat], NEW program \in Seq(Instruction)
    PROVE  ExecuteOn(b, p, program) \in ExecutorType(p)
<1> DEFINE V == [k \in 0 .. Len(program) |-> ExecutorType(p)]
<1>1. /\ \A k \in 0 .. Len(program) : V[k] = ExecutorType(p)
      /\ \A k \in 1 .. Len(program) : k \in 0 .. Len(program) /\ Limited(program)[k] \in Instruction
      /\ 0 \in 0 .. Len(program)
  BY LimitedType
<1> HIDE DEF V
<1>2. Start(b, p) \in V[0]
  BY <1>1, StartType
<1>3. ASSUME NEW k \in 1 .. Len(program), NEW v \in ExecutorType(p)
      PROVE  Step(v, Limited(program)[k]) \in V[k]
  BY <1>1, StepType
<1> QED
  BY <1>2, <1>3, ExecutionStates

(* Nothing happens in a program without instructions.                      *)
LEMMA NothingExecuted ==
    ASSUME NEW p \in Party, NEW b \in [Account -> Nat]
    PROVE  ExecuteOn(b, p, <<>>) = Start(b, p)
<1> DEFINE V == [k \in 0 .. 0 |-> {Start(b, p)}]
<1>1. V[0] = {Start(b, p)} /\ Len(<<>>) = 0 /\ <<>> \in Seq(Instruction)
  OBVIOUS
<1> HIDE DEF V
<1>2. \A k \in 1 .. Len(<<>>) : FALSE
  OBVIOUS
<1>3. ExecuteOn(b, p, <<>>) \in V[Len(<<>>)]
  BY <1>1, <1>2, ExecutionStates
<1> QED
  BY <1>1, <1>3

LEMMA MinOfTwo ==
    ASSUME NEW x \in Nat, NEW y \in Nat
    PROVE  Min({x, y}) \in Nat /\ Min({x, y}) <= x /\ Min({x, y}) <= y
<1>1. \E z \in {x, y} : \A u \in {x, y} : z <= u
  OBVIOUS
<1> QED
  BY <1>1 DEF Min

-------------------------------------------------------------------------------
(* Messages                                                                *)

(* A message on its way from p: what a user of a chain sends starts with   *)
(* the user's own place, and what the runtime sends is never empty.        *)
Sent(p) ==
    {m \in [by : Account \cup {None}, program : Seq(Instruction)] :
        /\ p \in Chain /\ m.by \in User =>
              Len(m.program) > 0 /\ m.program[1].op = "DescendOrigin"
        /\ m.by = None => Len(m.program) > 0}

(* The inductive invariant                                                 *)
Inv ==
    /\ bal \in [Chain -> [Account -> Nat]]
    /\ trapped \in [Chain -> Nat]
    /\ sent \in 0 .. MaxSent
    /\ DOMAIN channel = Party
    /\ \A p \in Party : channel[p] \in [Chain -> Seq(Sent(p))]
    /\ done # None => done.from \in Party /\ done.as \subseteq Speakers(done.from)

(* What every sending action puts into a channel                           *)
LEMMA PostKeeps ==
    ASSUME Inv, NEW p \in Party, NEW c \in Chain, NEW by \in Account \cup {None},
           NEW program \in Seq(Instruction),
           p \in Chain /\ by \in User => Len(program) > 0 /\ program[1].op = "DescendOrigin",
           by = None => Len(program) > 0,
           Post(p, c, by, program)
    PROVE  /\ sent' \in 0 .. MaxSent
           /\ DOMAIN channel' = Party
           /\ \A q \in Party : channel'[q] \in [Chain -> Seq(Sent(q))]
           /\ done' = None
           /\ \A q \in Party, d \in Chain :
                channel[q][d] # <<>> => channel'[q][d] # Tail(channel[q][d])
<1> DEFINE m == [by |-> by, program |-> program]
<1>1. m \in Sent(p)
  BY DEF Sent
<1>2. sent' \in 0 .. MaxSent
  BY XcmAssumption DEF Inv, Post
<1>3. channel' = [channel EXCEPT ![p] = [channel[p] EXCEPT ![c] = Append(channel[p][c], m)]]
  BY DEF Post, Inv
<1>4. channel[p][c] \in Seq(Sent(p))
  BY DEF Inv
<1> HIDE DEF m
<1>5. Append(channel[p][c], m) \in Seq(Sent(p))
  BY <1>1, <1>4
<1>6. DOMAIN channel' = Party /\ \A q \in Party : channel'[q] \in [Chain -> Seq(Sent(q))]
  BY <1>3, <1>5 DEF Inv
<1>7. ASSUME NEW q \in Party, NEW d \in Chain, channel[q][d] # <<>>
      PROVE  channel'[q][d] # Tail(channel[q][d])
  <2>1. channel[q][d] \in Seq(Sent(q)) /\ Len(channel[q][d]) > 0
    BY <1>7 DEF Inv
  <2>2. /\ Len(Tail(channel[q][d])) \in Nat /\ Len(channel[q][d]) \in Nat
        /\ Len(Tail(channel[q][d])) < Len(channel[q][d])
    BY <2>1
  <2>3. Len(channel'[q][d]) \in Nat /\ Len(channel'[q][d]) >= Len(channel[q][d])
    <3>1. CASE q = p /\ d = c
      <4>1. channel'[q][d] = Append(channel[p][c], m)
        BY <1>3, <3>1 DEF Inv
      <4>2. Len(Append(channel[p][c], m)) = Len(channel[p][c]) + 1 /\ Len(channel[p][c]) \in Nat
        BY <1>1, <1>4
      <4> QED
        BY <3>1, <4>1, <4>2, <2>2
    <3>2. CASE q # p \/ d # c
      <4>1. channel'[q][d] = channel[q][d]
        BY <1>3, <3>2 DEF Inv
      <4> QED
        BY <2>2, <4>1
    <3> QED
      BY <3>1, <3>2
  <2>4. Len(channel'[q][d]) # Len(Tail(channel[q][d]))
    BY <2>2, <2>3
  <2> QED
    BY <2>4, Zenon
<1> QED
  BY <1>2, <1>6, <1>7 DEF Post

(* What a chain does with the message it reads: all that Execute says, or  *)
(* nothing.                                                                *)
LEMMA ReceiveEffect ==
    ASSUME Inv, NEW p \in Party, NEW c \in Chain, Receive(p, c)
    PROVE  LET m == Message(p, c)
               vm == ExecuteOn(bal[c], p, m.program)
           IN  /\ m \in Sent(p)
               /\ m.program \in Seq(Instruction)
               /\ vm \in ExecutorType(p)
               /\ Reads(p, c)
               /\ channel' = [channel EXCEPT ![p] = [channel[p] EXCEPT ![c] = Tail(channel[p][c])]]
               /\ UNCHANGED sent
               /\ \/ /\ Barrier(<<p>>, m.program)
                     /\ bal' = [bal EXCEPT ![c] = vm.bal]
                     /\ trapped' = [trapped EXCEPT ![c] = @ + vm.holding
                                                            + Min({vm.surplus, vm.bought})]
                     /\ done' = [at |-> c, from |-> p, as |-> vm.as]
                  \/ /\ ~Barrier(<<p>>, m.program)
                     /\ done' = [at |-> c, from |-> p, as |-> {}]
                     /\ UNCHANGED <<bal, trapped>>
<1> DEFINE m == Message(p, c)
           vm == ExecuteOn(bal[c], p, m.program)
<1>1. channel[p][c] \in Seq(Sent(p)) /\ channel[p][c] # <<>>
  BY DEF Inv, Receive
<1>2. m \in Sent(p) /\ m.program \in Seq(Instruction)
  BY <1>1 DEF Message, Sent
<1>3. bal[c] \in [Account -> Nat]
  BY DEF Inv
<1>4. vm \in ExecutorType(p)
  <2> HIDE DEF m
  <2> QED
    BY <1>2, <1>3, ExecutionType
<1>5. Execute(c, p, m.program) = vm
  BY DEF Execute, ExecuteOn, Start
<1>6. channel' = [channel EXCEPT ![p] = [channel[p] EXCEPT ![c] = Tail(channel[p][c])]]
  BY DEF Receive, Inv
<1>7. Reads(p, c)
  BY <1>1, <1>6 DEF Reads, Inv
<1>8. \/ /\ Barrier(<<p>>, m.program)
         /\ bal' = [bal EXCEPT ![c] = vm.bal]
         /\ trapped' = [trapped EXCEPT ![c] = @ + vm.holding + Min({vm.surplus, vm.bought})]
         /\ done' = [at |-> c, from |-> p, as |-> vm.as]
      \/ /\ ~Barrier(<<p>>, m.program)
         /\ done' = [at |-> c, from |-> p, as |-> {}]
         /\ UNCHANGED <<bal, trapped>>
  <2>1. m.program = Head(channel[p][c]).program
    BY DEF Message
  <2> HIDE DEF vm, m
  <2> QED
    BY <1>5, <2>1 DEF Receive
<1>9. UNCHANGED sent
  BY DEF Receive
<1> HIDE DEF vm, m
<1> QED
  BY <1>2, <1>4, <1>6, <1>7, <1>8, <1>9 DEF vm, m

LEMMA ReceiveKeeps ==
    ASSUME Inv, NEW p \in Party, NEW c \in Chain, Receive(p, c)
    PROVE  Inv'
<1> DEFINE m == Message(p, c)
           vm == ExecuteOn(bal[c], p, m.program)
<1>1. /\ vm \in ExecutorType(p)
      /\ channel' = [channel EXCEPT ![p] = [channel[p] EXCEPT ![c] = Tail(channel[p][c])]]
      /\ UNCHANGED sent
      /\ \/ /\ bal' = [bal EXCEPT ![c] = vm.bal]
            /\ trapped' = [trapped EXCEPT ![c] = @ + vm.holding + Min({vm.surplus, vm.bought})]
            /\ done' = [at |-> c, from |-> p, as |-> vm.as]
         \/ /\ done' = [at |-> c, from |-> p, as |-> {}]
            /\ UNCHANGED <<bal, trapped>>
  BY ReceiveEffect
<1>2. channel[p][c] \in Seq(Sent(p)) /\ channel[p][c] # <<>>
  BY DEF Inv, Receive
<1> HIDE DEF vm
<1>3. /\ vm.bal \in [Account -> Nat]
      /\ vm.holding \in Nat /\ vm.surplus \in Nat /\ vm.bought \in Nat
      /\ vm.as \subseteq Speakers(p)
  BY <1>1 DEF ExecutorType
<1>4. trapped[c] + vm.holding + Min({vm.surplus, vm.bought}) \in Nat
  <2>1. Min({vm.surplus, vm.bought}) \in Nat
    BY <1>3, MinOfTwo
  <2> QED
    BY <1>3, <2>1 DEF Inv
<1>5. bal' \in [Chain -> [Account -> Nat]]
  BY <1>1, <1>3 DEF Inv
<1>6. trapped' \in [Chain -> Nat]
  <2>1. \/ UNCHANGED trapped
        \/ trapped' = [trapped EXCEPT ![c] = trapped[c] + vm.holding + Min({vm.surplus, vm.bought})]
    BY <1>1 DEF Inv
  <2> QED
    BY <1>4, <2>1 DEF Inv
<1>7. sent' \in 0 .. MaxSent
  BY <1>1 DEF Inv
<1>8. DOMAIN channel' = Party /\ \A q \in Party : channel'[q] \in [Chain -> Seq(Sent(q))]
  <2>1. Tail(channel[p][c]) \in Seq(Sent(p))
    BY <1>2
  <2> QED
    BY <1>1, <2>1 DEF Inv
<1>9. done'.from \in Party /\ done'.as \subseteq Speakers(done'.from)
  BY <1>1, <1>3
<1> QED
  BY <1>5, <1>6, <1>7, <1>8, <1>9 DEF Inv

(* What a user or the runtime sends, and what it takes from the sender     *)
LEMMA SendKeeps ==
    ASSUME Inv, NEW c \in Chain,
           \/ \E p \in Chain : PalletSends(p, c)
           \/ \E p \in Chain, u \in User : UserSends(u, p, c) \/ UserTeleports(u, p, c)
           \/ \E p \in Foreign \cup {Relay} : OtherSends(p, c)
    PROVE  /\ Inv'
           /\ UNCHANGED trapped
           /\ \A q \in Party, d \in Chain :
                channel[q][d] # <<>> => channel'[q][d] # Tail(channel[q][d])
           /\ \/ UNCHANGED bal
              \/ \E p \in Chain, u \in User :
                    /\ bal[p][u] >= TeleportAmount
                    /\ bal' = [bal EXCEPT ![p] = [bal[p] EXCEPT ![u] = bal[p][u] - TeleportAmount]]
<1> DEFINE Fair(p, by, program) ==
              /\ p \in Party /\ by \in Account \cup {None} /\ program \in Seq(Instruction)
              /\ p \in Chain /\ by \in User => Len(program) > 0 /\ program[1].op = "DescendOrigin"
              /\ by = None => Len(program) > 0
           Posted ==
              /\ sent' \in 0 .. MaxSent
              /\ DOMAIN channel' = Party
              /\ \A q \in Party : channel'[q] \in [Chain -> Seq(Sent(q))]
              /\ done' = None
              /\ \A q \in Party, d \in Chain :
                   channel[q][d] # <<>> => channel'[q][d] # Tail(channel[q][d])
<1>1. ASSUME NEW p, NEW by, NEW program, Fair(p, by, program), Post(p, c, by, program)
      PROVE  Posted
  BY <1>1, PostKeeps
<1> HIDE DEF Posted
<1>2. ASSUME NEW p \in Chain, PalletSends(p, c) PROVE Posted /\ UNCHANGED <<bal, trapped>>
  <2>1. PICK call \in Call \cup {None} : Post(p, c, None, <<Transact("Native", 0, call)>>)
    BY <1>2 DEF PalletSends
  <2>2. Transact("Native", 0, call) \in Instruction
    BY DEF Transact, Instruction, Kind
  <2>3. /\ <<Transact("Native", 0, call)>> \in Seq(Instruction)
        /\ Len(<<Transact("Native", 0, call)>>) > 0
    BY <2>2
  <2>4. Fair(p, None, <<Transact("Native", 0, call)>>)
    BY <2>3, NameAssumption DEF Party
  <2> HIDE DEF Fair
  <2> QED
    BY <1>1, <1>2, <2>1, <2>4 DEF PalletSends
<1>3. ASSUME NEW p \in Chain, NEW u \in User, UserSends(u, p, c)
      PROVE  Posted /\ UNCHANGED <<bal, trapped>>
  <2>1. PICK program \in Programs : Post(p, c, u, <<DescendOrigin(u)>> \o program)
    BY <1>3 DEF UserSends
  <2> DEFINE whole == <<DescendOrigin(u)>> \o program
  <2>2. program \in Seq(Instruction) /\ DescendOrigin(u) \in Instruction
    BY ProgramAssumption DEF DescendOrigin, Instruction
  <2>3. whole \in Seq(Instruction) /\ Len(whole) > 0 /\ whole[1] = DescendOrigin(u)
    BY <2>2
  <2>4. whole[1].op = "DescendOrigin"
    BY <2>3 DEF DescendOrigin
  <2> HIDE DEF whole
  <2>5. Fair(p, u, whole)
    BY <2>3, <2>4, NameAssumption DEF Party, Account
  <2> HIDE DEF Fair
  <2> QED
    BY <1>1, <1>3, <2>1, <2>5 DEF UserSends, whole
<1>4. ASSUME NEW p \in Chain, NEW u \in User, UserTeleports(u, p, c)
      PROVE  /\ Posted
             /\ UNCHANGED trapped
             /\ bal[p][u] >= TeleportAmount
             /\ bal' = [bal EXCEPT ![p] = [bal[p] EXCEPT ![u] = bal[p][u] - TeleportAmount]]
  <2> DEFINE whole == <<ReceiveTeleportedAsset(TeleportAmount), ClearOrigin,
                        BuyExecution(TeleportAmount, Unlimited), DepositAsset(u)>>
  <2>1. TeleportAmount \in Nat
    BY XcmAssumption
  <2>2. /\ ReceiveTeleportedAsset(TeleportAmount) \in Instruction
        /\ ClearOrigin \in Instruction
        /\ BuyExecution(TeleportAmount, Unlimited) \in Instruction
        /\ DepositAsset(u) \in Instruction
    <3>1. ReceiveTeleportedAsset(TeleportAmount) \in Instruction
      BY <2>1 DEF Instruction, ReceiveTeleportedAsset
    <3>2. ClearOrigin \in Instruction
      BY DEF Instruction, ClearOrigin
    <3>3. BuyExecution(TeleportAmount, Unlimited) \in Instruction
      BY <2>1 DEF Instruction, BuyExecution
    <3>4. DepositAsset(u) \in Instruction
      BY DEF Instruction, DepositAsset
    <3> QED
      BY <3>1, <3>2, <3>3, <3>4
  <2>3. whole \in Seq(Instruction) /\ Len(whole) > 0
    BY <2>2
  <2> HIDE DEF whole
  <2>4. Fair(p, None, whole)
    BY <2>3, NameAssumption DEF Party, Account
  <2>5. Post(p, c, None, whole)
    BY <1>4 DEF UserTeleports, whole
  <2>6. Posted
    <3> HIDE DEF Fair
    <3> QED
      BY <1>1, <2>4, <2>5
  <2> QED
    BY <1>4, <2>6 DEF UserTeleports, Inv
<1>5. ASSUME NEW p \in Foreign \cup {Relay}, OtherSends(p, c)
      PROVE  Posted /\ UNCHANGED <<bal, trapped>>
  <2>1. PICK program \in Programs : Post(p, c, p, program)
    BY <1>5 DEF OtherSends
  <2>2. program \in Seq(Instruction)
    BY ProgramAssumption
  <2>3. Fair(p, p, program)
    BY <2>2, NameAssumption DEF Party, Account
  <2> HIDE DEF Fair
  <2> QED
    BY <1>1, <1>5, <2>1, <2>3 DEF OtherSends
<1>6. /\ Posted /\ UNCHANGED trapped
      /\ \/ UNCHANGED bal
         \/ \E p \in Chain, u \in User :
               /\ bal[p][u] >= TeleportAmount
               /\ bal' = [bal EXCEPT ![p] = [bal[p] EXCEPT ![u] = bal[p][u] - TeleportAmount]]
  BY <1>2, <1>3, <1>4, <1>5
<1>7. bal' \in [Chain -> [Account -> Nat]]
  <2>1. CASE UNCHANGED bal
    BY <2>1 DEF Inv
  <2>2. ASSUME NEW p \in Chain, NEW u \in User, bal[p][u] >= TeleportAmount,
               bal' = [bal EXCEPT ![p] = [bal[p] EXCEPT ![u] = bal[p][u] - TeleportAmount]]
        PROVE  bal' \in [Chain -> [Account -> Nat]]
    <3>0. /\ bal[p] \in [Account -> Nat] /\ u \in Account
          /\ TeleportAmount \in Nat
      BY XcmAssumption DEF Inv, Account
    <3>1. bal[p] \in [Account -> Nat] /\ bal[p][u] - TeleportAmount \in Nat
      BY <2>2, <3>0
    <3> QED
      BY <2>2, <3>1 DEF Inv
  <2> QED
    BY <1>6, <2>1, <2>2
<1> QED
  BY <1>6, <1>7 DEF Inv, Posted

-------------------------------------------------------------------------------
(* The invariant                                                           *)

LEMMA InitInv == ASSUME Init PROVE Inv
<1>1. bal \in [Chain -> [Account -> Nat]]
  BY XcmAssumption DEF Init, Account
<1>2. trapped \in [Chain -> Nat] /\ sent \in 0 .. MaxSent
  BY XcmAssumption DEF Init
<1>3. DOMAIN channel = Party /\ \A p \in Party : channel[p] \in [Chain -> Seq(Sent(p))]
  BY DEF Init
<1> QED
  BY <1>1, <1>2, <1>3 DEF Init, Inv

LEMMA NextInv == ASSUME Inv, [Next]_vars PROVE Inv'
<1>1. ASSUME NEW p \in Party, NEW c \in Chain, Receive(p, c) PROVE Inv'
  BY <1>1, ReceiveKeeps
<1>2. CASE UNCHANGED vars
  BY <1>2 DEF vars, Inv
<1>3. CASE Next
  <2>1. PICK c \in Chain :
            \/ \E p \in Chain : PalletSends(p, c)
            \/ \E p \in Chain, u \in User : UserSends(u, p, c) \/ UserTeleports(u, p, c)
            \/ \E p \in Foreign \cup {Relay} : OtherSends(p, c)
            \/ \E p \in Party : Receive(p, c)
    BY <1>3 DEF Next
  <2> QED
    BY <1>1, <2>1, SendKeeps
<1> QED
  BY <1>2, <1>3

(* What XcmPath's proofs rest on: every reachable state satisfies Inv.     *)
THEOREM Invariance == Spec => []Inv
<1>1. Init => Inv
  BY InitInv
<1>2. Inv /\ [Next]_vars => Inv'
  BY NextInv
<1> QED
  BY <1>1, <1>2, PTL DEF Spec

(* A step that takes a message off a channel is the receiver's.            *)
LEMMA ReadsIsReceive ==
    ASSUME Inv, [Next]_vars, NEW p \in Party, NEW c \in Chain, Reads(p, c)
    PROVE  Receive(p, c)
<1>1. channel[p][c] \in Seq(Sent(p)) /\ channel[p][c] # <<>>
  BY DEF Inv, Reads
<1>2. channel[p][c] # Tail(channel[p][c])
  <2>1. /\ Len(Tail(channel[p][c])) \in Nat /\ Len(channel[p][c]) \in Nat
        /\ Len(Tail(channel[p][c])) < Len(channel[p][c])
    BY <1>1
  <2>2. Len(Tail(channel[p][c])) # Len(channel[p][c])
    BY <2>1
  <2> QED
    BY <2>2, Zenon
<1>3. CASE UNCHANGED vars
  BY <1>2, <1>3 DEF vars, Reads
<1>4. CASE Next
  <2>1. PICK d \in Chain :
            \/ \E q \in Chain : PalletSends(q, d)
            \/ \E q \in Chain, u \in User : UserSends(u, q, d) \/ UserTeleports(u, q, d)
            \/ \E q \in Foreign \cup {Relay} : OtherSends(q, d)
            \/ \E q \in Party : Receive(q, d)
    BY <1>4 DEF Next
  <2>2. CASE \E q \in Party : Receive(q, d)
    <3>1. PICK q \in Party : Receive(q, d)
      BY <2>2
    <3>2. channel' = [channel EXCEPT ![q] = [channel[q] EXCEPT ![d] = Tail(channel[q][d])]]
      BY <3>1, ReceiveEffect
    <3>3. ASSUME q # p \/ d # c PROVE channel'[p][c] = channel[p][c]
      BY <3>2, <3>3 DEF Inv
    <3> QED
      BY <1>2, <3>1, <3>3 DEF Reads
  <2>3. CASE \/ \E q \in Chain : PalletSends(q, d)
             \/ \E q \in Chain, u \in User : UserSends(u, q, d) \/ UserTeleports(u, q, d)
             \/ \E q \in Foreign \cup {Relay} : OtherSends(q, d)
    <3>1. channel'[p][c] # Tail(channel[p][c])
      BY <1>1, <2>3, SendKeeps
    <3> QED
      BY <3>1 DEF Reads
  <2> QED
    BY <2>1, <2>2, <2>3
<1> QED
  BY <1>3, <1>4

-------------------------------------------------------------------------------
(* Who acts, and whose messages are executed                               *)

(* No program, whatever it withdraws, deposits or buys, overdraws an       *)
(* account or what pallet_xcm keeps.                                       *)
THEOREM TypeCorrect == Spec => []TypeOK
<1>1. Inv => TypeOK
  <2> SUFFICES ASSUME Inv PROVE TypeOK
    OBVIOUS
  <2>1. ASSUME NEW c \in Chain, NEW a \in User \cup Party PROVE bal[c][a] >= 0
    <3>1. bal[c] \in [Account -> Nat] /\ a \in Account
      BY DEF Inv, Account
    <3> QED
      BY <3>1
  <2>2. \A c \in Chain : trapped[c] >= 0
    BY DEF Inv
  <2> QED
    BY <2>1, <2>2 DEF Inv, TypeOK
<1> QED
  BY <1>1, Invariance, PTL

(* However a program moves its origin, a call is dispatched as the chain   *)
(* the message is from or as somebody in it.                               *)
THEOREM SpeaksForItselfHolds == Spec => []SpeaksForItself
<1>1. Inv => SpeaksForItself
  <2> SUFFICES ASSUME Inv, done # None, NEW o \in done.as
               PROVE  \/ o = <<"Relay">> /\ done.from = Relay
                      \/ o \in {<<"Signed", done.from>>, <<"SiblingParachain", done.from>>}
                      \/ o[1] = "Xcm" /\ o[2] = done.from
    BY DEF SpeaksForItself
  <2>1. o \in Speakers(done.from)
    BY DEF Inv
  <2>2. ASSUME NEW s \in Places(done.from), o = <<"Xcm">> \o s
        PROVE  o[1] = "Xcm" /\ o[2] = done.from
    <3> DEFINE S == Party \cup User \cup {Executive}
    <3>1. s \in Seq(S) /\ Len(s) \in Nat /\ Len(s) > 0 /\ s[1] = done.from
      BY DEF Places
    <3> HIDE DEF S
    <3>2. o[1] = "Xcm" /\ o[2] = s[1]
      BY <2>2, <3>1
    <3> QED
      BY <3>1, <3>2
  <2> QED
    BY <2>1, <2>2 DEF Speakers
<1> QED
  BY <1>1, Invariance, PTL

(* A program that starts with something else than assets to pay with does  *)
(* nothing, unless it is the parent's.                                     *)
LEMMA NotPaid ==
    ASSUME Inv, NEW p \in Chain, NEW c \in Chain, Receive(p, c),
           Len(Message(p, c).program) > 0,
           Message(p, c).program[1].op \in {"DescendOrigin", "Transact"}
    PROVE  done'.as = {} /\ UNCHANGED <<bal, trapped>>
<1> DEFINE program == Message(p, c).program
<1>1. p \in Party
  BY DEF Party
<1>2. Pays(program) = {} /\ program # <<>>
  BY DEF Pays
<1>3. <<p>> \notin {<<Relay>>, <<Relay, Executive>>}
  BY NameAssumption
<1>4. ~Barrier(<<p>>, program)
  BY <1>2, <1>3 DEF Barrier, ParentOrParentsExecutivePlurality
<1>5. \/ Barrier(<<p>>, program)
      \/ done' = [at |-> c, from |-> p, as |-> {}] /\ UNCHANGED <<bal, trapped>>
  BY <1>1, ReceiveEffect
<1> QED
  BY <1>4, <1>5

(* What a user of one chain sends is never executed by another.            *)
THEOREM UserSpendsNothingHolds == Spec => UserSpendsNothing
<1>1. ASSUME Inv, [Next]_vars, NEW c \in Chain, NEW p \in Chain,
             Reads(p, c), Message(p, c).by \in User
      PROVE  done'.as = {} /\ UNCHANGED <<bal, trapped>>
  <2>1. p \in Party
    BY DEF Party
  <2>2. Receive(p, c)
    BY <1>1, <2>1, ReadsIsReceive
  <2>3. Message(p, c) \in Sent(p)
    BY <1>1, <2>1, <2>2, ReceiveEffect
  <2>4. Len(Message(p, c).program) > 0 /\ Message(p, c).program[1].op = "DescendOrigin"
    BY <1>1, <2>3 DEF Sent
  <2> QED
    BY <1>1, <2>2, <2>4, NotPaid
<1>2. Inv /\ [Next]_vars =>
        [\A c, p \in Chain :
            Reads(p, c) /\ Message(p, c).by \in User =>
                done'.as = {} /\ UNCHANGED <<bal, trapped>>]_vars
  BY <1>1
<1> QED
  BY <1>2, Invariance, PTL DEF Spec, UserSpendsNothing

(* The pallets' messages are never executed by the other chain.            *)
THEOREM PalletsUnheardHolds == Spec => PalletsUnheard
<1>1. ASSUME Inv, [Next]_vars, NEW c \in Chain, NEW p \in Chain,
             Reads(p, c), Message(p, c).by = None, Message(p, c).program[1].op = "Transact"
      PROVE  done'.as = {} /\ UNCHANGED <<bal, trapped>>
  <2>1. p \in Party
    BY DEF Party
  <2>2. Receive(p, c)
    BY <1>1, <2>1, ReadsIsReceive
  <2>3. Message(p, c) \in Sent(p)
    BY <1>1, <2>1, <2>2, ReceiveEffect
  <2>4. Len(Message(p, c).program) > 0
    BY <1>1, <2>3 DEF Sent
  <2> QED
    BY <1>1, <2>2, <2>4, NotPaid
<1>2. Inv /\ [Next]_vars =>
        [\A c, p \in Chain :
            Reads(p, c) /\ Message(p, c).by = None /\ Message(p, c).program[1].op = "Transact" =>
                done'.as = {} /\ UNCHANGED <<bal, trapped>>]_vars
  BY <1>1
<1> QED
  BY <1>2, Invariance, PTL DEF Spec, PalletsUnheard

-------------------------------------------------------------------------------
(* Who pays                                                                *)

(* Whoever is not the parent gains nothing by a step, and what has been    *)
(* bought stays so; an execution that has failed neither acts nor goes on. *)
LEMMA StepCosts ==
    ASSUME NEW p \in Party, p # Relay, NEW v \in ExecutorType(p), NEW i \in Instruction
    PROVE  LET w == Step(v, i)
           IN  /\ w.bal[p] + w.holding + w.bought <= v.bal[p] + v.holding + v.bought
               /\ w.bought >= v.bought
               /\ i.op # "Transact" => w.as = v.as
               /\ i.op = "BuyExecution" /\ i.limit \in Nat /\ w.ok => w.bought >= i.limit
               /\ ~v.ok => ~w.ok /\ w.as = v.as
<1> DEFINE w == Step(v, i)
           Goal == /\ w.bal[p] + w.holding + w.bought <= v.bal[p] + v.holding + v.bought
                   /\ w.bought >= v.bought
                   /\ i.op # "Transact" => w.as = v.as
                   /\ i.op = "BuyExecution" /\ i.limit \in Nat /\ w.ok => w.bought >= i.limit
                   /\ ~v.ok => ~w.ok /\ w.as = v.as
<1>1. \/ v.ok /\ Executed(p, v, w, i)
      \/ v.ok /\ Stops(p, v, w, i)
      \/ Skips(p, v, w, i)
  BY StepCases DEF Stops
<1>2. p \in Account
  BY DEF Account
<1>3. v.bal[p] \in Nat /\ v.holding \in Nat /\ v.bought \in Nat /\ v.ok \in BOOLEAN
  BY <1>2 DEF ExecutorType
<1>4. v.bal \in [Account -> Nat] /\ v.as = v.as
  BY DEF ExecutorType
<1> SUFFICES Goal
  OBVIOUS
<1> HIDE DEF w
<1>5. CASE v.ok /\ Withdraws(p, v, w, i)
  <2>1. i.amount \in Nat
    BY <1>5 DEF Withdraws, Instruction
  <2>2. /\ w.bal[p] = v.bal[p] - i.amount /\ w.holding = v.holding + i.amount
        /\ w.bought = v.bought /\ w.as = v.as
    BY <1>2, <1>4, <1>5 DEF Withdraws, ExecutorType
  <2>3. i.op = "WithdrawAsset"
    BY <1>5 DEF Withdraws
  <2> QED
    BY <1>3, <1>5, <2>1, <2>2, <2>3
<1>6. CASE v.ok /\ Mints(p, v, w, i)
  BY <1>6 DEF Mints
<1>7. CASE v.ok /\ Moves(p, v, w, i)
  <2>1. w.bal = v.bal /\ w.holding = v.holding /\ w.bought = v.bought /\ w.as = v.as
    BY <1>7 DEF Moves, ExecutorType
  <2>2. i.op \in {"ClearOrigin", "DescendOrigin"}
    BY <1>7 DEF Moves
  <2> QED
    BY <1>3, <1>7, <2>1, <2>2
<1>8. CASE v.ok /\ Buys(p, v, w, i)
  <2>1. CASE i.limit = Unlimited /\ w = v
    BY <1>3, <1>8, <2>1, XcmAssumption
  <2>2. CASE /\ i.limit \in Nat /\ v.holding >= i.limit
             /\ w = [v EXCEPT !.holding = @ - i.limit, !.bought = @ + i.limit]
    <3>1. /\ w.bal = v.bal /\ w.holding = v.holding - i.limit
          /\ w.bought = v.bought + i.limit /\ w.as = v.as
      BY <2>2 DEF ExecutorType
    <3> QED
      BY <1>3, <1>8, <2>2, <3>1
  <2> QED
    BY <1>8, <2>1, <2>2 DEF Buys
<1>9. CASE v.ok /\ Dispatches(p, v, w, i)
  <2>1. w.bal = v.bal /\ w.holding = v.holding /\ w.bought = v.bought
    BY <1>9 DEF Dispatches, ExecutorType
  <2>2. i.op = "Transact"
    BY <1>9 DEF Dispatches
  <2> QED
    BY <1>3, <1>9, <2>1, <2>2
<1>10. CASE v.ok /\ Deposits(p, v, w, i)
  <2>1. /\ w.bal = [v.bal EXCEPT ![i.to] = v.bal[i.to] + v.holding]
        /\ w.holding = 0 /\ w.bought = v.bought /\ w.as = v.as
    BY <1>10 DEF Deposits, ExecutorType
  <2>2. w.bal[p] <= v.bal[p] + v.holding
    BY <1>2, <1>3, <1>4, <2>1
  <2>3. w.bal[p] \in Nat
    <3>1. v.bal[i.to] + v.holding \in Nat
      BY <1>3, <1>4, <1>10 DEF Deposits
    <3> QED
      BY <1>2, <1>4, <2>1, <3>1
  <2>4. i.op = "DepositAsset"
    BY <1>10 DEF Deposits
  <2> QED
    BY <1>3, <1>10, <2>1, <2>2, <2>3, <2>4
<1>11. CASE v.ok /\ Stops(p, v, w, i)
  <2>1. /\ w.bal = v.bal /\ w.holding = v.holding /\ w.bought = v.bought /\ w.as = v.as
        /\ w.ok = FALSE
    BY <1>11 DEF Stops, ExecutorType
  <2> QED
    BY <1>3, <1>11, <2>1
<1>12. CASE Skips(p, v, w, i)
  <2>1. /\ w.bal = v.bal /\ w.holding = v.holding /\ w.bought = v.bought /\ w.as = v.as
        /\ w.ok = v.ok /\ ~v.ok
    BY <1>12 DEF Skips, ExecutorType
  <2> QED
    BY <1>3, <2>1
<1> HIDE DEF Goal
<1> QED
  BY <1>1, <1>5, <1>6, <1>7, <1>8, <1>9, <1>10, <1>11, <1>12 DEF Executed

(* A program that starts by paying has paid its weight by the time it acts.*)
LEMMA PaidFirst ==
    ASSUME NEW p \in Party, p # Relay, NEW b \in [Account -> Nat],
           NEW program \in Seq(Instruction), Pays(program) # {},
           ExecuteOn(b, p, program).as # {}
    PROVE  ExecuteOn(b, p, program).bal[p] <= b[p] - Weight(program)
<1> DEFINE n == Len(program)
           price == Weight(program)
           vm == ExecuteOn(b, p, program)
<1>1. PICK j \in Pays(program) : TRUE
  OBVIOUS
<1>2. n \in Nat /\ j \in 2 .. n /\ price \in Nat
  BY WeightType DEF Pays
<1>3. p \in Account /\ b[p] \in Nat
  BY DEF Account
<1> DEFINE V == [k \in 0 .. n |->
                    {v \in ExecutorType(p) :
                        /\ v.bal[p] + v.holding + v.bought <= b[p]
                        /\ k < j => v.as = {}
                        /\ k >= j /\ (v.ok \/ v.as # {}) => v.bought >= price}]
<1>4. Start(b, p) \in V[0]
  <2>1. Start(b, p) \in ExecutorType(p)
    BY StartType
  <2> QED
    BY <1>2, <1>3, <2>1 DEF Start
<1>5. ASSUME NEW k \in 1 .. n
      PROVE  /\ k - 1 \in 0 .. n /\ k \in 0 .. n /\ k \in Nat
             /\ Limited(program)[k] \in Instruction
             /\ k < j => Limited(program)[k].op # "Transact"
             /\ k = j => /\ Limited(program)[k].op = "BuyExecution"
                         /\ Limited(program)[k].limit = price
  <2>1. /\ Limited(program)[k] \in Instruction
        /\ k \notin Pays(program) => Limited(program)[k] = program[k]
        /\ k \in Pays(program) =>
             /\ Limited(program)[k].op = "BuyExecution"
             /\ Limited(program)[k].limit = price
    BY LimitedType
  <2>2. ASSUME k < j PROVE Limited(program)[k].op # "Transact"
    <3>1. /\ program[1].op \in {"WithdrawAsset", "ReserveAssetDeposited", "ReceiveTeleportedAsset"}
          /\ \A i \in 2 .. j - 1 : program[i].op = "ClearOrigin"
      BY DEF Pays
    <3>2. k = 1 \/ k \in 2 .. j - 1
      BY <1>2, <2>2
    <3>3. program[k].op # "Transact"
      BY <3>1, <3>2
    <3> QED
      BY <2>1, <3>3
  <2> QED
    BY <1>2, <2>1, <2>2
<1>6. ASSUME NEW k \in 1 .. n, NEW v \in ExecutorType(p), v \in V[k - 1]
      PROVE  Step(v, Limited(program)[k]) \in V[k]
  <2> DEFINE i == Limited(program)[k]
             w == Step(v, i)
  <2>1. /\ k - 1 \in 0 .. n /\ k \in 0 .. n /\ k \in Nat
        /\ i \in Instruction
        /\ k < j => i.op # "Transact"
        /\ k = j => i.op = "BuyExecution" /\ i.limit = price
    BY <1>5
  <2>2. /\ v.bal[p] + v.holding + v.bought <= b[p]
        /\ k - 1 < j => v.as = {}
        /\ k - 1 >= j /\ (v.ok \/ v.as # {}) => v.bought >= price
    BY <1>6, <2>1
  <2>3. w \in ExecutorType(p)
    BY <2>1, StepType
  <2>4. /\ w.bal[p] + w.holding + w.bought <= v.bal[p] + v.holding + v.bought
        /\ w.bought >= v.bought
        /\ i.op # "Transact" => w.as = v.as
        /\ i.op = "BuyExecution" /\ i.limit \in Nat /\ w.ok => w.bought >= i.limit
        /\ ~v.ok => ~w.ok /\ w.as = v.as
    <3> HIDE DEF i
    <3> QED
      BY <2>1, StepCosts
  <2>5. /\ v.bal[p] \in Nat /\ v.holding \in Nat /\ v.bought \in Nat
        /\ w.bal[p] \in Nat /\ w.holding \in Nat /\ w.bought \in Nat
    BY <1>3, <2>3 DEF ExecutorType
  <2> HIDE DEF w, i
  <2>6. w.bal[p] + w.holding + w.bought <= b[p]
    BY <1>3, <2>2, <2>4, <2>5
  <2>7. k < j => w.as = {}
    BY <1>2, <2>1, <2>2, <2>4
  <2>8. ASSUME k >= j, w.ok \/ w.as # {} PROVE w.bought >= price
    <3>1. CASE k = j
      <4>1. v.as = {} /\ w.as = v.as
        BY <1>2, <2>1, <2>2, <2>4, <3>1
      <4> QED
        BY <1>2, <2>1, <2>4, <2>8, <3>1, <4>1
    <3>2. CASE k # j
      <4>1. k - 1 >= j
        BY <1>2, <2>1, <2>8, <3>2
      <4>2. v.ok \/ v.as # {}
        BY <2>4, <2>8
      <4>3. v.bought >= price
        BY <2>2, <4>1, <4>2
      <4> QED
        BY <1>2, <2>4, <2>5, <4>3
    <3> QED
      BY <3>1, <3>2
  <2>9. w \in V[k]
    BY <2>1, <2>3, <2>6, <2>7, <2>8
  <2> QED
    BY <2>9 DEF w, i
<1>7. vm \in ExecutorType(p) /\ vm \in V[n]
  <2> HIDE DEF V
  <2> QED
    BY <1>4, <1>6, ExecutionStates
<1>8. vm.bal[p] \in Nat /\ vm.holding \in Nat /\ vm.bought \in Nat
  BY <1>3, <1>7 DEF ExecutorType
<1>9. vm.bal[p] + vm.holding + vm.bought <= b[p] /\ vm.bought >= price
  <2> HIDE DEF vm
  <2>1. /\ vm.bal[p] + vm.holding + vm.bought <= b[p]
        /\ n >= j /\ (vm.ok \/ vm.as # {}) => vm.bought >= price
    BY <1>2, <1>7
  <2>2. vm.as # {}
    BY DEF vm
  <2> QED
    BY <1>2, <2>1, <2>2
<1> HIDE DEF vm, price
<1>10. vm.bal[p] <= b[p] - price
  BY <1>2, <1>3, <1>8, <1>9
<1> QED
  BY <1>10 DEF vm, price

(* A chain other than the parent has paid for what it has dispatched.      *)
THEOREM NoFreeRideHolds == Spec => NoFreeRide
<1>1. ASSUME Inv, [Next]_vars, NEW c \in Chain, NEW p \in Party \ {Relay},
             Reads(p, c), done'.as # {}
      PROVE  bal'[c][p] <= bal[c][p] - Weight(Message(p, c).program)
  <2> DEFINE program == Message(p, c).program
             vm == ExecuteOn(bal[c], p, program)
  <2>1. Receive(p, c)
    BY <1>1, ReadsIsReceive
  <2>2. /\ program \in Seq(Instruction)
        /\ vm \in ExecutorType(p)
        /\ \/ /\ Barrier(<<p>>, program)
              /\ bal' = [bal EXCEPT ![c] = vm.bal]
              /\ done' = [at |-> c, from |-> p, as |-> vm.as]
           \/ done' = [at |-> c, from |-> p, as |-> {}]
    BY <1>1, <2>1, ReceiveEffect
  <2>3. /\ Barrier(<<p>>, program)
        /\ bal' = [bal EXCEPT ![c] = vm.bal]
        /\ vm.as # {}
    BY <1>1, <2>2
  <2>4. PICK b \in [Account -> Nat] : b = bal[c]
    BY <1>1 DEF Inv
  <2>5. program # <<>>
    <3>1. ASSUME program = <<>> PROVE vm = Start(b, p)
      BY <2>4, <3>1, NothingExecuted
    <3>2. Start(b, p).as = {}
      BY DEF Start
    <3> HIDE DEF vm, program
    <3> QED
      BY <2>3, <3>1, <3>2
  <2>6. <<p>> \notin {<<Relay>>, <<Relay, Executive>>}
    OBVIOUS
  <2>7. Pays(program) # {}
    <3> HIDE DEF vm, program
    <3> QED
      BY <2>3, <2>5, <2>6 DEF Barrier, ParentOrParentsExecutivePlurality
  <2>8. PICK code \in Seq(Instruction) : code = program
    BY <2>2
  <2>9. ExecuteOn(b, p, code).bal[p] <= b[p] - Weight(code)
    <3>1. Pays(code) # {} /\ ExecuteOn(b, p, code).as # {} /\ p \in Party /\ p # Relay
      BY <2>3, <2>4, <2>7, <2>8
    <3> QED
      BY <3>1, PaidFirst
  <2>10. bal'[c][p] = vm.bal[p]
    <3> HIDE DEF vm
    <3> QED
      BY <1>1, <2>3 DEF Inv
  <2> QED
    BY <2>4, <2>8, <2>9, <2>10
<1>2. Inv /\ [Next]_vars =>
        [\A c \in Chain, p \in Party \ {Relay} :
            Reads(p, c) /\ done'.as # {} =>
                bal'[c][p] <= bal[c][p] - Weight(Message(p, c).program)]_vars
  BY <1>1
<1> QED
  BY <1>2, Invariance, PTL DEF Spec, NoFreeRide

-------------------------------------------------------------------------------
(* Money                                                                   *)

M == INSTANCE CurrencyProofs WITH ExistentialDeposit <- UnitWeightCost

(* What the accounts of a chain have in all                                *)
InAll(b) == M!SumFunctionOnSet(b, Account)

LEMMA MoneyInAll ==
    ASSUME NEW c \in Chain
    PROVE  Money(c) = trapped[c] + InAll(bal[c])
BY DEF Money, InAll, Account, MapThenSumSet, MapThenFoldSet, M!SumFunctionOnSet,
       M!FoldFunctionOnSet, M!MapThenFoldSet

LEMMA InAllType == ASSUME NEW b \in [Account -> Nat] PROVE InAll(b) \in Nat
<1>1. M!IsFiniteSet(Account) /\ UnitWeightCost \in Nat \ {0}
  BY NameAssumption, XcmAssumption DEF IsFiniteSet, M!IsFiniteSet, Account
<1>2. \A x \in Account : b[x] \in Nat
  OBVIOUS
<1> QED
  BY <1>1, <1>2, M!SumType DEF InAll

(* When one account changes, what all have follows it.                     *)
LEMMA InAllFollows ==
    ASSUME NEW b \in [Account -> Nat], NEW a \in Account, NEW n \in Nat
    PROVE  InAll([b EXCEPT ![a] = n]) + b[a] = InAll(b) + n
<1> DEFINE new == [b EXCEPT ![a] = n]
<1>1. M!IsFiniteSet(Account) /\ UnitWeightCost \in Nat \ {0}
  BY NameAssumption, XcmAssumption DEF IsFiniteSet, M!IsFiniteSet, Account
<1>2. /\ \A x \in Account : b[x] \in Nat
      /\ \A x \in Account : new[x] \in Nat
      /\ \A x \in Account \ {a} : new[x] = b[x]
      /\ new[a] = n
  OBVIOUS
<1> HIDE DEF new
<1>3. M!SumFunctionOnSet(new, Account) + b[a] = M!SumFunctionOnSet(b, Account) + new[a]
  BY <1>1, <1>2, M!SumChange
<1> QED
  BY <1>2, <1>3 DEF InAll, new

(* No step of a program that is not the parent's makes money.              *)
LEMMA StepConserves ==
    ASSUME NEW p \in Party, p # Relay, NEW v \in ExecutorType(p), NEW i \in Instruction
    PROVE  LET w == Step(v, i)
           IN  InAll(w.bal) + w.holding + w.bought = InAll(v.bal) + v.holding + v.bought
<1> DEFINE w == Step(v, i)
           Goal == InAll(w.bal) + w.holding + w.bought = InAll(v.bal) + v.holding + v.bought
<1>1. \/ Executed(p, v, w, i)
      \/ Stops(p, v, w, i)
      \/ Skips(p, v, w, i)
  BY StepCases DEF Stops
<1>2. p \in Account
  BY DEF Account
<1>3. /\ v.bal \in [Account -> Nat] /\ v.bal[p] \in Nat
      /\ v.holding \in Nat /\ v.bought \in Nat /\ InAll(v.bal) \in Nat
  BY <1>2, InAllType DEF ExecutorType
<1> SUFFICES Goal
  OBVIOUS
<1> HIDE DEF w
<1>4. CASE Withdraws(p, v, w, i)
  <2>1. i.amount \in Nat
    BY <1>4 DEF Withdraws, Instruction
  <2>2. /\ w.bal = [v.bal EXCEPT ![p] = v.bal[p] - i.amount]
        /\ w.holding = v.holding + i.amount
        /\ w.bought = v.bought
    BY <1>4 DEF Withdraws, ExecutorType
  <2>3. v.bal[p] - i.amount \in Nat
    BY <1>3, <1>4, <2>1 DEF Withdraws
  <2>4. InAll(w.bal) + v.bal[p] = InAll(v.bal) + (v.bal[p] - i.amount)
    BY <1>2, <1>3, <2>2, <2>3, InAllFollows
  <2>5. w.bal \in [Account -> Nat]
    BY <1>3, <2>2, <2>3
  <2>6. InAll(w.bal) \in Nat
    BY <2>5, InAllType
  <2> QED
    BY <1>3, <2>1, <2>2, <2>4, <2>6
<1>5. CASE Mints(p, v, w, i)
  BY <1>5 DEF Mints
<1>6. CASE Moves(p, v, w, i)
  <2>1. w.bal = v.bal /\ w.holding = v.holding /\ w.bought = v.bought
    BY <1>6 DEF Moves, ExecutorType
  <2> QED
    BY <2>1
<1>7. CASE Buys(p, v, w, i)
  <2>1. CASE w = v
    BY <2>1
  <2>2. CASE /\ i.limit \in Nat /\ v.holding >= i.limit
             /\ w = [v EXCEPT !.holding = @ - i.limit, !.bought = @ + i.limit]
    <3>1. /\ w.bal = v.bal /\ w.holding = v.holding - i.limit
          /\ w.bought = v.bought + i.limit
      BY <2>2 DEF ExecutorType
    <3> QED
      BY <1>3, <2>2, <3>1
  <2> QED
    BY <1>7, <2>1, <2>2 DEF Buys
<1>8. CASE Dispatches(p, v, w, i)
  <2>1. w.bal = v.bal /\ w.holding = v.holding /\ w.bought = v.bought
    BY <1>8 DEF Dispatches, ExecutorType
  <2> QED
    BY <2>1
<1>9. CASE Deposits(p, v, w, i)
  <2>1. /\ i.to \in Account
        /\ w.bal = [v.bal EXCEPT ![i.to] = v.bal[i.to] + v.holding]
        /\ w.holding = 0 /\ w.bought = v.bought
    BY <1>9 DEF Deposits, ExecutorType
  <2>2. v.bal[i.to] \in Nat /\ v.bal[i.to] + v.holding \in Nat
    BY <1>3, <2>1
  <2>3. InAll(w.bal) + v.bal[i.to] = InAll(v.bal) + (v.bal[i.to] + v.holding)
    BY <1>3, <2>1, <2>2, InAllFollows
  <2>4. w.bal \in [Account -> Nat]
    BY <1>3, <2>1, <2>2
  <2>5. InAll(w.bal) \in Nat
    BY <2>4, InAllType
  <2> QED
    BY <1>3, <2>1, <2>2, <2>3, <2>5
<1>10. CASE Stops(p, v, w, i) \/ Skips(p, v, w, i)
  <2>1. w.bal = v.bal /\ w.holding = v.holding /\ w.bought = v.bought
    BY <1>10 DEF Stops, Skips, ExecutorType
  <2> QED
    BY <2>1
<1> HIDE DEF Goal
<1> QED
  BY <1>1, <1>4, <1>5, <1>6, <1>7, <1>8, <1>9, <1>10 DEF Executed

(* What a program leaves, on the accounts, in its hands or paid, is what   *)
(* was there before.                                                       *)
LEMMA ExecutionConserves ==
    ASSUME NEW p \in Party, p # Relay, NEW b \in [Account -> Nat],
           NEW program \in Seq(Instruction)
    PROVE  LET vm == ExecuteOn(b, p, program)
           IN  InAll(vm.bal) + vm.holding + vm.bought = InAll(b)
<1> DEFINE n == Len(program)
           vm == ExecuteOn(b, p, program)
           V == [k \in 0 .. n |->
                    {v \in ExecutorType(p) : InAll(v.bal) + v.holding + v.bought = InAll(b)}]
<1>1. n \in Nat /\ InAll(b) \in Nat
  BY InAllType
<1>2. Start(b, p) \in V[0]
  <2>1. Start(b, p) \in ExecutorType(p)
    BY StartType
  <2>2. InAll(Start(b, p).bal) + Start(b, p).holding + Start(b, p).bought = InAll(b)
    BY <1>1 DEF Start
  <2> QED
    BY <1>1, <2>1, <2>2
<1>3. ASSUME NEW k \in 1 .. n, NEW v \in ExecutorType(p), v \in V[k - 1]
      PROVE  Step(v, Limited(program)[k]) \in V[k]
  <2> DEFINE i == Limited(program)[k]
             w == Step(v, i)
  <2>1. i \in Instruction /\ k \in 0 .. n /\ k - 1 \in 0 .. n
    BY LimitedType
  <2>2. InAll(v.bal) + v.holding + v.bought = InAll(b)
    BY <1>3, <2>1
  <2>3. w \in ExecutorType(p)
    BY <2>1, StepType
  <2>4. InAll(w.bal) + w.holding + w.bought = InAll(v.bal) + v.holding + v.bought
    <3> HIDE DEF i
    <3> QED
      BY <2>1, StepConserves
  <2> HIDE DEF w
  <2>5. w \in V[k]
    BY <2>1, <2>2, <2>3, <2>4
  <2> QED
    BY <2>5 DEF w
<1>4. vm \in V[n]
  <2> HIDE DEF V
  <2> QED
    BY <1>2, <1>3, ExecutionStates
<1> HIDE DEF vm
<1>5. InAll(vm.bal) + vm.holding + vm.bought = InAll(b)
  BY <1>1, <1>4
<1> QED
  BY <1>5 DEF vm

(* A message from anyone but the parent brings no money into the chain.    *)
LEMMA ReceiveMintsNothing ==
    ASSUME Inv, NEW p \in Party, p # Relay, NEW d \in Chain, Receive(p, d), NEW c \in Chain
    PROVE  trapped'[c] + InAll(bal'[c]) <= trapped[c] + InAll(bal[c])
<1> DEFINE vm == ExecuteOn(bal[d], p, Message(p, d).program)
<1>1. /\ Message(p, d).program \in Seq(Instruction)
      /\ vm \in ExecutorType(p)
      /\ \/ /\ bal' = [bal EXCEPT ![d] = vm.bal]
            /\ trapped' = [trapped EXCEPT ![d] = @ + vm.holding + Min({vm.surplus, vm.bought})]
         \/ UNCHANGED <<bal, trapped>>
  BY ReceiveEffect
<1>2. bal[d] \in [Account -> Nat] /\ bal[c] \in [Account -> Nat] /\ trapped[c] \in Nat
  BY DEF Inv
<1>3. InAll(vm.bal) + vm.holding + vm.bought = InAll(bal[d])
  BY <1>1, <1>2, ExecutionConserves
<1> HIDE DEF vm
<1>4. /\ vm.bal \in [Account -> Nat]
      /\ vm.holding \in Nat /\ vm.surplus \in Nat /\ vm.bought \in Nat
  BY <1>1 DEF ExecutorType
<1>5. InAll(vm.bal) \in Nat /\ InAll(bal[c]) \in Nat /\ InAll(bal[d]) \in Nat
  BY <1>2, <1>4, InAllType
<1>6. Min({vm.surplus, vm.bought}) \in Nat /\ Min({vm.surplus, vm.bought}) <= vm.bought
  BY <1>4, MinOfTwo
<1>7. CASE UNCHANGED <<bal, trapped>>
  BY <1>2, <1>5, <1>7
<1>8. CASE /\ bal' = [bal EXCEPT ![d] = vm.bal]
           /\ trapped' = [trapped EXCEPT ![d] = @ + vm.holding + Min({vm.surplus, vm.bought})]
  <2>1. CASE c = d
    <3>1. bal'[c] = vm.bal
      BY <1>8, <2>1 DEF Inv
    <3>2. trapped'[c] = trapped[c] + vm.holding + Min({vm.surplus, vm.bought})
      BY <1>8, <2>1 DEF Inv
    <3> HIDE <1>8
    <3>3. InAll(bal'[c]) = InAll(vm.bal)
      BY <3>1
    <3> QED
      BY <1>2, <1>3, <1>4, <1>5, <1>6, <2>1, <3>2, <3>3
  <2>2. CASE c # d
    <3>1. bal'[c] = bal[c] /\ trapped'[c] = trapped[c]
      BY <1>8, <2>2 DEF Inv
    <3>2. InAll(bal'[c]) = InAll(bal[c])
      BY <3>1
    <3> QED
      BY <1>2, <1>5, <3>1, <3>2
  <2> QED
    BY <2>1, <2>2
<1> QED
  BY <1>1, <1>7, <1>8

(* Nobody but the parent brings assets into a chain.                       *)
THEOREM NothingMintedHolds == Spec => NothingMinted
<1> DEFINE Sum(c) == trapped[c] + InAll(bal[c])
<1>1. ASSUME Inv, [Next]_vars, NEW c \in Chain, ~Reads(Relay, c)
      PROVE  Sum(c)' <= Sum(c)
  <2>0. bal[c] \in [Account -> Nat] /\ trapped[c] \in Nat /\ InAll(bal[c]) \in Nat
    BY <1>1, InAllType DEF Inv
  <2>1. CASE UNCHANGED <<bal, trapped>>
    BY <2>0, <2>1
  <2>2. ASSUME NEW p \in Party, NEW d \in Chain, Receive(p, d)
        PROVE  Sum(c)' <= Sum(c)
    <3>1. CASE p # Relay
      BY <1>1, <2>2, <3>1, ReceiveMintsNothing
    <3>2. CASE p = Relay
      <4>1. d # c
        BY <1>1, <2>2, <3>2, ReceiveEffect
      <4>2. bal'[c] = bal[c] /\ trapped'[c] = trapped[c]
        <5>1. \/ \E x, y : bal' = [bal EXCEPT ![d] = x] /\ trapped' = [trapped EXCEPT ![d] = y]
              \/ UNCHANGED <<bal, trapped>>
          BY <2>2 DEF Receive
        <5> QED
          BY <1>1, <4>1, <5>1 DEF Inv
      <4> QED
        BY <2>0, <4>2
    <3> QED
      BY <3>1, <3>2
  <2>3. ASSUME NEW p \in Chain, NEW u \in User, bal[p][u] >= TeleportAmount, UNCHANGED trapped,
               bal' = [bal EXCEPT ![p] = [bal[p] EXCEPT ![u] = bal[p][u] - TeleportAmount]]
        PROVE  Sum(c)' <= Sum(c)
    <3>1. CASE p # c
      <4>1. bal'[c] = bal[c]
        BY <1>1, <2>3, <3>1 DEF Inv
      <4> QED
        BY <2>0, <2>3, <4>1
    <3>2. CASE p = c
      <4>1. /\ u \in Account /\ TeleportAmount \in Nat /\ bal[c][u] \in Nat
            /\ bal[c][u] >= TeleportAmount
        BY <2>0, <2>3, <3>2, XcmAssumption DEF Account
      <4>2. bal[c][u] - TeleportAmount \in Nat
        BY <4>1
      <4>3. bal'[c] = [bal[c] EXCEPT ![u] = bal[c][u] - TeleportAmount]
        BY <1>1, <2>3, <3>2 DEF Inv
      <4>4. PICK b \in [Account -> Nat] : b = bal[c]
        BY <2>0
      <4>5. PICK new : new = [b EXCEPT ![u] = b[u] - TeleportAmount]
        OBVIOUS
      <4>6. InAll(new) + b[u] = InAll(b) + (b[u] - TeleportAmount)
        BY <4>1, <4>2, <4>4, <4>5, InAllFollows
      <4>7. new \in [Account -> Nat]
        BY <4>2, <4>4, <4>5
      <4>8. InAll(new) \in Nat /\ InAll(b) \in Nat
        BY <4>7, InAllType
      <4>9. InAll(new) <= InAll(b)
        BY <4>1, <4>4, <4>6, <4>8
      <4>10. bal'[c] = new /\ InAll(bal'[c]) = InAll(new)
        BY <4>3, <4>4, <4>5
      <4>11. trapped'[c] = trapped[c]
        BY <2>3
      <4> QED
        BY <2>0, <4>4, <4>8, <4>9, <4>10, <4>11
    <3> QED
      BY <3>1, <3>2
  <2>4. CASE Next
    <3>1. PICK d \in Chain :
              \/ \E p \in Chain : PalletSends(p, d)
              \/ \E p \in Chain, u \in User : UserSends(u, p, d) \/ UserTeleports(u, p, d)
              \/ \E p \in Foreign \cup {Relay} : OtherSends(p, d)
              \/ \E p \in Party : Receive(p, d)
      BY <2>4 DEF Next
    <3>2. CASE \E p \in Party : Receive(p, d)
      BY <2>2, <3>2
    <3>3. CASE \/ \E p \in Chain : PalletSends(p, d)
               \/ \E p \in Chain, u \in User : UserSends(u, p, d) \/ UserTeleports(u, p, d)
               \/ \E p \in Foreign \cup {Relay} : OtherSends(p, d)
      <4>1. /\ UNCHANGED trapped
            /\ \/ UNCHANGED bal
               \/ \E p \in Chain, u \in User :
                     /\ bal[p][u] >= TeleportAmount
                     /\ bal' = [bal EXCEPT ![p] = [bal[p] EXCEPT ![u] = bal[p][u] - TeleportAmount]]
        BY <1>1, <3>3, SendKeeps
      <4> HIDE DEF Sum
      <4> QED
        BY <2>1, <2>3, <4>1
    <3> QED
      BY <3>1, <3>2, <3>3
  <2>5. CASE UNCHANGED vars
    BY <2>1, <2>5 DEF vars
  <2> HIDE DEF Sum
  <2> QED
    BY <1>1, <2>4, <2>5
<1>2. ASSUME NEW c \in Chain PROVE Money(c) = Sum(c)
  BY MoneyInAll
<1>3. ASSUME NEW c \in Chain PROVE Money(c)' = Sum(c)'
  BY DEF Money, InAll, Account, MapThenSumSet, MapThenFoldSet, M!SumFunctionOnSet,
         M!FoldFunctionOnSet, M!MapThenFoldSet
<1>4. ASSUME Inv, Inv', NEW c \in Chain PROVE Sum(c) \in Nat /\ Sum(c)' \in Nat
  <2>1. bal[c] \in [Account -> Nat] /\ trapped[c] \in Nat
    BY <1>4 DEF Inv
  <2>2. bal'[c] \in [Account -> Nat] /\ trapped'[c] \in Nat
    BY <1>4 DEF Inv
  <2>3. InAll(bal[c]) \in Nat
    BY <2>1, InAllType
  <2>4. InAll(bal'[c]) \in Nat
    BY <2>2, InAllType
  <2> QED
    BY <2>1, <2>2, <2>3, <2>4
<1>5. Inv /\ [Next]_vars => [\A c \in Chain : Money(c)' > Money(c) => Reads(Relay, c)]_vars
  <2> SUFFICES ASSUME Inv, [Next]_vars, NEW c \in Chain, Money(c)' > Money(c)
               PROVE  Reads(Relay, c)
    OBVIOUS
  <2>1. Inv'
    BY NextInv
  <2>2. Sum(c) \in Nat /\ Sum(c)' \in Nat
    BY <1>4, <2>1
  <2>3. Sum(c)' > Sum(c)
    BY <1>2, <1>3
  <2>4. ~(Sum(c)' <= Sum(c))
    <3> HIDE DEF Sum
    <3> QED
      BY <2>2, <2>3
  <2> HIDE DEF Sum
  <2> QED
    BY <1>1, <2>4
<1> QED
  BY <1>5, Invariance, PTL DEF Spec, NothingMinted
===============================================================================
