------------------------------- MODULE NodeProofs -------------------------------
(* Theorems about Node, for any machines, parachain ids and numbers of     *)
(* blocks.                                                                 *)
EXTENDS Node, TLAPS

Specs == [id : ChainId, para_id : ParaId, parachain_id : ParaId]
Processes == [stage : {"configured", "opened", "serving"}, spec : Specs]

(* The types, with those of processes: one that is past its first stage    *)
(* has a database, which nothing removes from under it.                    *)
Opened == \A n \in Machine :
    process[n] # None /\ process[n].stage # "configured" => Database(n) # None
Types ==
    /\ TypeOK
    /\ process \in [Machine -> Processes \cup {None}]
    /\ Opened

(* Which chain a process works for: that of its own genesis.               *)
Careful(spec) == spec.para_id = spec.parachain_id
AllCareful ==
    /\ Careful(file)
    /\ exported # None => exported.genesis = exported.para_id
    /\ \A n \in Machine : process[n] # None => Careful(process[n].spec)

(* A chain is registered under the id of its genesis, and has the blocks   *)
(* that any database of that genesis has.                                  *)
RegisteredAsBuilt == \A i \in ParaId : paras[i] # None => paras[i].genesis = i
Belongs(d) ==
    d # None /\ d.best > 0 => paras[d.genesis] # None /\ d.best <= paras[d.genesis].height
AllBelong == \A n \in Machine, c \in ChainId : Belongs(db[n][c])

Kept == AllCareful /\ RegisteredAsBuilt /\ AllBelong

-------------------------------------------------------------------------------
(* What the actions compute                                                *)

LEMMA LoadSpecType ==
    ASSUME Types, NEW arg \in Argument
    PROVE  /\ load_spec(arg) \in Specs
           /\ Careful(file) => Careful(load_spec(arg))
<1>1. file \in Specs /\ PresetId \in ParaId /\ arg \in {"dev", "local", "path"}
  BY NodeAssumption DEF Types, TypeOK, Specs
<1>2. CASE arg = "dev"
  BY <1>1, <1>2 DEF load_spec, development_config, Spec, Specs, ChainId, Careful
<1>3. CASE arg = "local"
  BY <1>1, <1>3 DEF load_spec, local_testnet_config, Spec, Specs, ChainId, Careful
<1>4. CASE arg = "path"
  BY <1>1, <1>4 DEF load_spec
<1> QED
  BY <1>1, <1>2, <1>3, <1>4

LEMMA NewPartialType ==
    ASSUME Types, NEW n \in Machine, NEW spec \in Specs
    PROVE  /\ NewPartial(n, spec) \in Databases
           /\ NewPartial(n, spec) # None
           /\ AllBelong => Belongs(NewPartial(n, spec))
<1>1. spec.id \in ChainId /\ spec.parachain_id \in ParaId
  BY DEF Specs
<1>2. db[n][spec.id] \in Databases \cup {None}
  BY <1>1 DEF Types, TypeOK
<1>3. CASE db[n][spec.id] # None
  BY <1>1, <1>2, <1>3 DEF NewPartial, AllBelong
<1>4. CASE db[n][spec.id] = None
  <2> DEFINE d == [genesis |-> spec.parachain_id, best |-> 0]
  <2>1. NewPartial(n, spec) = d
    BY <1>4 DEF NewPartial, Genesis
  <2>2. d \in Databases /\ d.best = 0
    BY <1>1, NodeAssumption DEF Databases
  <2>3. d # None
    BY <1>1, NodeAssumption
  <2>4. Belongs(d)
    BY <2>2 DEF Belongs
  <2> QED
    BY <2>1, <2>2, <2>3, <2>4
<1> QED
  BY <1>3, <1>4

(* One database is replaced.                                               *)
LEMMA OneDatabase ==
    ASSUME Types, NEW n \in Machine, NEW c \in ChainId,
           NEW d \in Databases \cup {None},
           db' = [db EXCEPT ![n][c] = d]
    PROVE  /\ db' \in [Machine -> [ChainId -> Databases \cup {None}]]
           /\ db'[n][c] = d
           /\ \A m \in Machine, e \in ChainId : <<m, e>> # <<n, c>> => db'[m][e] = db[m][e]
BY DEF Types, TypeOK

LEMMA RevisedType ==
    ASSUME NEW d \in Databases, NEW best \in 0 .. MaxHeight
    PROVE  [d EXCEPT !.best = best] \in Databases /\ [d EXCEPT !.best = best] # None
BY NodeAssumption DEF Databases

(* The processes of other machines keep what they have, and the machine    *)
(* whose database changes has no process, or has one with a database.      *)
LEMMA StillOpened ==
    ASSUME Types, NEW n \in Machine, NEW c \in ChainId, NEW d \in Databases \cup {None},
           db' = [db EXCEPT ![n][c] = d],
           UNCHANGED process,
           process[n] = None \/ d # None
    PROVE  Opened'
<1> SUFFICES ASSUME NEW m \in Machine, process[m] # None, process[m].stage # "configured"
             PROVE  Database(m)' # None
  BY DEF Opened
<1>1. process[m] \in Processes
  BY DEF Types
<1>2. process[m].spec.id \in ChainId
  BY <1>1 DEF Processes, Specs
<1>3. Database(m) # None
  BY DEF Types, Opened
<1>4. Database(m)' = db'[m][process[m].spec.id]
  BY DEF Database
<1>5. CASE m = n /\ process[m].spec.id = c
  BY <1>4, <1>5, OneDatabase
<1>6. CASE <<m, process[m].spec.id>> # <<n, c>>
  BY <1>2, <1>3, <1>4, <1>6, OneDatabase DEF Database
<1> QED
  BY <1>5, <1>6

(* The types, once the databases have theirs: what an action on databases  *)
(* alone leaves to be shown.                                               *)
LEMMA TypesWithDatabase ==
    ASSUME Types, NEW n \in Machine, NEW c \in ChainId, NEW d \in Databases \cup {None},
           db' = [db EXCEPT ![n][c] = d],
           UNCHANGED <<file, exported, paras, process>>,
           process[n] = None \/ d # None
    PROVE  Types'
<1>1. Opened'
  BY StillOpened
<1>2. db' \in [Machine -> [ChainId -> Databases \cup {None}]]
  BY OneDatabase
<1>3. \A m \in Machine : Serving(m)' => Database(m)' # None
  BY <1>1 DEF Opened, Serving
<1> QED
  BY <1>1, <1>2, <1>3 DEF Types, TypeOK

LEMMA TypesInit == Init => Types
<1> SUFFICES ASSUME Init PROVE Types
  OBVIOUS
<1>1. local_testnet_config \in Specs
  BY NodeAssumption DEF local_testnet_config, Spec, Specs, ChainId
<1> QED
  BY <1>1 DEF Init, Types, TypeOK, Specs, Opened, Serving

LEMMA TypesStep == Types /\ [Next]_vars => Types'
<1> SUFFICES ASSUME Types, [Next]_vars PROVE Types'
  OBVIOUS
<1>1. CASE Edit
  <2>1. file' \in Specs
    BY <1>1 DEF Edit, Types, TypeOK, Specs
  <2>2. UNCHANGED <<exported, paras, db, process>>
    BY <1>1 DEF Edit
  <2> QED
    BY <2>1, <2>2 DEF Types, TypeOK, Specs, Opened, Serving, Database
<1>2. CASE Register
  <2>1. exported \in [para_id : ParaId, genesis : ParaId]
    BY <1>2 DEF Register, Types, TypeOK
  <2>2. [genesis |-> exported.genesis, height |-> 0] \in [genesis : ParaId, height : 0 .. MaxHeight]
    BY <2>1, NodeAssumption
  <2>3. paras' \in [ParaId -> [genesis : ParaId, height : 0 .. MaxHeight] \cup {None}]
    BY <1>2, <2>1, <2>2 DEF Register, Types, TypeOK
  <2>4. UNCHANGED <<file, exported, db, process>>
    BY <1>2 DEF Register
  <2> QED
    BY <2>3, <2>4 DEF Types, TypeOK, Opened, Serving, Database
<1>3. ASSUME NEW arg \in Argument, ExportGenesisState(arg) PROVE Types'
  <2>1. load_spec(arg) \in Specs
    BY LoadSpecType
  <2>2. exported' \in [para_id : ParaId, genesis : ParaId]
    BY <1>3, <2>1 DEF ExportGenesisState, Genesis, Specs
  <2>3. UNCHANGED <<file, paras, db, process>>
    BY <1>3 DEF ExportGenesisState
  <2> QED
    BY <2>2, <2>3 DEF Types, TypeOK, Opened, Serving, Database
<1>4. ASSUME NEW arg \in Argument, NEW n \in Machine, Run(n, arg) PROVE Types'
  <2>1. load_spec(arg) \in Specs
    BY LoadSpecType
  <2> DEFINE p == [stage |-> "configured", spec |-> load_spec(arg)]
  <2>2. p \in Processes /\ p.stage = "configured"
    BY <2>1 DEF Processes
  <2>3. process' = [process EXCEPT ![n] = p] /\ UNCHANGED <<file, exported, paras, db>>
    BY <1>4 DEF Run
  <2>4. process' \in [Machine -> Processes \cup {None}]
    BY <2>2, <2>3 DEF Types
  <2>5. process'[n] = p /\ \A m \in Machine \ {n} : process'[m] = process[m]
    BY <2>3 DEF Types
  <2>6. Opened'
    BY <2>2, <2>3, <2>5 DEF Types, Opened, Database
  <2>7. \A m \in Machine : Serving(m)' => Database(m)' # None
    BY <2>6 DEF Opened, Serving
  <2> QED
    BY <2>3, <2>4, <2>6, <2>7 DEF Types, TypeOK
<1>5. ASSUME NEW arg \in Argument, NEW n \in Machine,
             Inspect(n, arg) \/ ImportBlocks(n, arg) \/ Revert(n, arg) \/ PurgeChain(n, arg)
      PROVE  Types'
  <2> DEFINE spec == load_spec(arg)
             d == NewPartial(n, spec)
  <2>1. spec \in Specs /\ spec.id \in ChainId
    BY LoadSpecType DEF Specs
  <2>2. d \in Databases /\ d # None
    BY <2>1, NewPartialType
  <2>3. d.best \in 0 .. MaxHeight /\ MaxHeight \in Nat
    BY <2>2, NodeAssumption DEF Databases
  <2>4. \E e \in Databases \cup {None} : db' = [db EXCEPT ![n][spec.id] = e]
    <3>1. CASE Inspect(n, arg)
      BY <2>2, <3>1 DEF Inspect
    <3>2. CASE ImportBlocks(n, arg)
      <4>1. PICK best \in d.best .. MaxHeight : db' = [db EXCEPT ![n][spec.id] = [d EXCEPT !.best = best]]
        BY <3>2 DEF ImportBlocks
      <4>2. best \in 0 .. MaxHeight
        BY <2>3
      <4> QED
        BY <2>2, <4>1, <4>2, RevisedType
    <3>3. CASE Revert(n, arg)
      <4>1. PICK best \in 0 .. d.best : db' = [db EXCEPT ![n][spec.id] = [d EXCEPT !.best = best]]
        BY <3>3 DEF Revert
      <4>2. best \in 0 .. MaxHeight
        BY <2>3
      <4> QED
        BY <2>2, <4>1, <4>2, RevisedType
    <3>4. CASE PurgeChain(n, arg)
      BY <3>4 DEF PurgeChain
    <3> QED
      BY <1>5, <3>1, <3>2, <3>3, <3>4
  <2>5. process[n] = None /\ UNCHANGED <<file, exported, paras, process>>
    BY <1>5 DEF Inspect, ImportBlocks, Revert, PurgeChain
  <2> QED
    BY <2>1, <2>4, <2>5, TypesWithDatabase
<1>6. ASSUME NEW n \in Machine, Open(n) PROVE Types'
  <2> DEFINE spec == process[n].spec
             d == NewPartial(n, spec)
  <2>1. process[n] \in Processes
    BY <1>6 DEF Open, Types
  <2>2. spec \in Specs /\ spec.id \in ChainId
    BY <2>1 DEF Processes, Specs
  <2>3. d \in Databases /\ d # None
    BY <2>2, NewPartialType
  <2>4. /\ db' = [db EXCEPT ![n][spec.id] = d]
        /\ process' = [process EXCEPT ![n].stage = "opened"]
        /\ UNCHANGED <<file, exported, paras>>
    BY <1>6 DEF Open
  <2>5. process' \in [Machine -> Processes \cup {None}]
    BY <2>1, <2>4 DEF Types, Processes
  <2>6. process'[n].spec = spec /\ \A m \in Machine \ {n} : process'[m] = process[m]
    BY <2>1, <2>4 DEF Types, Processes
  <2>7. Opened'
    <3> SUFFICES ASSUME NEW m \in Machine, process'[m] # None, process'[m].stage # "configured"
                 PROVE  db'[m][process'[m].spec.id] # None
      BY DEF Opened, Database
    <3>1. CASE m = n
      <4>1. db'[n][spec.id] = d
        BY <2>2, <2>3, <2>4 DEF Types, TypeOK
      <4> QED
        BY <2>3, <2>6, <3>1, <4>1
    <3>2. CASE m # n
      <4>1. db'[m] = db[m] /\ process'[m] = process[m]
        BY <2>4, <2>6, <3>2 DEF Types, TypeOK
      <4> QED
        BY <4>1 DEF Types, Opened, Database
    <3> QED
      BY <3>1, <3>2
  <2>8. \A m \in Machine : Serving(m)' => Database(m)' # None
    BY <2>7 DEF Opened, Serving
  <2>9. db' \in [Machine -> [ChainId -> Databases \cup {None}]]
    BY <2>2, <2>3, <2>4, OneDatabase
  <2> QED
    BY <2>4, <2>5, <2>7, <2>8, <2>9 DEF Types, TypeOK
<1>7. ASSUME NEW n \in Machine, Serve(n) PROVE Types'
  <2>1. process[n] \in Processes /\ process[n] # None /\ process[n].stage = "opened"
    BY <1>7 DEF Serve, Types
  <2>2. process' = [process EXCEPT ![n].stage = "serving"] /\ UNCHANGED <<file, exported, paras, db>>
    BY <1>7 DEF Serve
  <2>3. process' \in [Machine -> Processes \cup {None}]
    BY <2>1, <2>2 DEF Types, Processes
  <2>4. process'[n].spec = process[n].spec /\ \A m \in Machine \ {n} : process'[m] = process[m]
    BY <2>1, <2>2 DEF Types, Processes
  <2>5. Opened'
    <3> SUFFICES ASSUME NEW m \in Machine, process'[m] # None, process'[m].stage # "configured"
                 PROVE  db[m][process'[m].spec.id] # None
      BY <2>2 DEF Opened, Database
    <3>1. process'[m].spec = process[m].spec
      BY <2>4
    <3>2. process[m] # None /\ process[m].stage # "configured"
      BY <2>1, <2>4
    <3> QED
      BY <3>1, <3>2 DEF Types, Opened, Database
  <2>6. \A m \in Machine : Serving(m)' => Database(m)' # None
    BY <2>5 DEF Opened, Serving
  <2> QED
    BY <2>2, <2>3, <2>5, <2>6 DEF Types, TypeOK
<1>8. ASSUME NEW n \in Machine, Exit(n) PROVE Types'
  <2>1. process' = [process EXCEPT ![n] = None] /\ UNCHANGED <<file, exported, paras, db>>
    BY <1>8 DEF Exit
  <2>2. process' \in [Machine -> Processes \cup {None}]
    BY <2>1 DEF Types
  <2>3. \A m \in Machine : process'[m] = None \/ process'[m] = process[m]
    BY <2>1 DEF Types
  <2>4. Opened'
    BY <2>1, <2>3 DEF Types, Opened, Database
  <2>5. \A m \in Machine : Serving(m)' => Database(m)' # None
    BY <2>4 DEF Opened, Serving
  <2> QED
    BY <2>1, <2>2, <2>4, <2>5 DEF Types, TypeOK
<1>9. ASSUME NEW n \in Machine, Serving(n), Matches(Database(n), process[n].spec.para_id)
      PROVE  /\ process[n].spec.id \in ChainId /\ process[n].spec.para_id \in ParaId
             /\ Database(n) \in Databases /\ Database(n) # None
             /\ paras[process[n].spec.para_id] \in [genesis : ParaId, height : 0 .. MaxHeight]
  <2>1. process[n] \in Processes
    BY <1>9 DEF Serving, Types
  <2>2. process[n].spec.id \in ChainId /\ process[n].spec.para_id \in ParaId
    BY <2>1 DEF Processes, Specs
  <2> QED
    BY <1>9, <2>2 DEF Matches, Database, Types, TypeOK
<1>10. ASSUME NEW n \in Machine, Collate(n) PROVE Types'
  <2> DEFINE spec == process[n].spec
             i == spec.para_id
             d == [Database(n) EXCEPT !.best = @ + 1]
  <2>1. /\ Serving(n) /\ Matches(Database(n), i)
        /\ Database(n).best = paras[i].height /\ paras[i].height < MaxHeight
        /\ paras' = [paras EXCEPT ![i].height = @ + 1]
        /\ db' = [db EXCEPT ![n][spec.id].best = @ + 1]
        /\ UNCHANGED <<file, exported, process>>
    BY <1>10 DEF Collate
  <2>2. /\ spec.id \in ChainId /\ i \in ParaId /\ Database(n) \in Databases /\ Database(n) # None
        /\ paras[i] \in [genesis : ParaId, height : 0 .. MaxHeight]
    BY <1>9, <2>1
  <2>3. paras[i].height + 1 \in 0 .. MaxHeight /\ Database(n).best + 1 \in 0 .. MaxHeight
    BY <2>1, <2>2, NodeAssumption
  <2>4. d \in Databases /\ d # None
    BY <2>2, <2>3, RevisedType DEF Databases
  <2>5. db' = [db EXCEPT ![n][spec.id] = d]
    BY <2>1, <2>2 DEF Database, Types, TypeOK
  <2>6. db' \in [Machine -> [ChainId -> Databases \cup {None}]]
    BY <2>2, <2>4, <2>5, OneDatabase
  <2>7. [paras[i] EXCEPT !.height = @ + 1] \in [genesis : ParaId, height : 0 .. MaxHeight]
    BY <2>2, <2>3
  <2>8. paras' \in [ParaId -> [genesis : ParaId, height : 0 .. MaxHeight] \cup {None}]
    BY <2>1, <2>2, <2>7 DEF Types, TypeOK
  <2>9. Opened'
    <3>1. UNCHANGED process
      BY <2>1
    <3> HIDE DEF d
    <3> QED
      BY <2>2, <2>4, <2>5, <3>1, StillOpened
  <2>10. \A m \in Machine : Serving(m)' => Database(m)' # None
    BY <2>9 DEF Opened, Serving
  <2> QED
    BY <2>1, <2>6, <2>8, <2>9, <2>10 DEF Types, TypeOK
<1>11. ASSUME NEW n \in Machine, Follow(n) PROVE Types'
  <2> DEFINE spec == process[n].spec
             d == [Database(n) EXCEPT !.best = paras[spec.para_id].height]
  <2>1. /\ Serving(n) /\ Matches(Database(n), spec.para_id)
        /\ db' = [db EXCEPT ![n][spec.id].best = paras[spec.para_id].height]
        /\ UNCHANGED <<file, exported, paras, process>>
    BY <1>11 DEF Follow
  <2>2. /\ spec.id \in ChainId /\ Database(n) \in Databases
        /\ paras[spec.para_id] \in [genesis : ParaId, height : 0 .. MaxHeight]
    BY <1>9, <2>1
  <2>3. d \in Databases /\ d # None
    BY <2>2, RevisedType
  <2>4. db' = [db EXCEPT ![n][spec.id] = d]
    BY <2>1, <2>2 DEF Database, Types, TypeOK
  <2> QED
    BY <2>1, <2>2, <2>3, <2>4, TypesWithDatabase
<1>12. CASE UNCHANGED vars
  BY <1>12 DEF vars, Types, TypeOK, Opened, Serving, Database
<1> QED
  BY <1>1, <1>2, <1>3, <1>4, <1>5, <1>6, <1>7, <1>8, <1>10, <1>11, <1>12 DEF Next

(* Registers, databases and processes are well typed, and a node that is   *)
(* serving has its database (code: NewPartial, Run, PurgeChain).           *)
THEOREM TypeCorrect == NodeSpec => []TypeOK
<1>1. Types => TypeOK
  BY DEF Types
<1> QED
  BY <1>1, TypesInit, TypesStep, PTL DEF NodeSpec

-------------------------------------------------------------------------------
(* Which chain the blocks of a database belong to                          *)

LEMMA KeptImplies == Types /\ Kept => BlocksBelong
<1> SUFFICES ASSUME Types, Kept, NEW n \in Machine, NEW c \in ChainId,
                    db[n][c] # None, db[n][c].best > 0
             PROVE  /\ paras[db[n][c].genesis] # None
                    /\ paras[db[n][c].genesis].genesis = db[n][c].genesis
                    /\ db[n][c].best <= paras[db[n][c].genesis].height
  BY DEF BlocksBelong
<1>1. db[n][c].genesis \in ParaId
  BY DEF Types, TypeOK, Databases
<1>2. Belongs(db[n][c])
  BY DEF Kept, AllBelong
<1> QED
  BY <1>1, <1>2 DEF Belongs, Kept, RegisteredAsBuilt

(* A database of which another one is a part belongs to its chain if that  *)
(* one does.                                                               *)
LEMMA PartBelongs ==
    ASSUME NEW d \in Databases, d # None, NEW e \in Databases, e # None,
           e.genesis = d.genesis, e.best <= d.best, Belongs(d),
           Types
    PROVE  Belongs(e)
<1> SUFFICES ASSUME e.best > 0
             PROVE  paras[e.genesis] # None /\ e.best <= paras[e.genesis].height
  BY DEF Belongs
<1>1. d.best \in Nat /\ e.best \in Nat /\ d.best > 0 /\ d.genesis \in ParaId
  BY NodeAssumption DEF Databases
<1>2. paras[d.genesis] # None /\ d.best <= paras[d.genesis].height
  BY <1>1 DEF Belongs
<1>3. paras[d.genesis].height \in Nat
  BY <1>1, <1>2, NodeAssumption DEF Types, TypeOK
<1> QED
  BY <1>1, <1>2, <1>3

LEMMA KeptWithDatabase ==
    ASSUME Types, Kept, NEW n \in Machine, NEW c \in ChainId, NEW d \in Databases \cup {None},
           db' = [db EXCEPT ![n][c] = d],
           UNCHANGED <<file, exported, paras, process>>,
           Belongs(d)
    PROVE  Kept'
<1>1. AllBelong'
  <2> SUFFICES ASSUME NEW m \in Machine, NEW e \in ChainId PROVE Belongs(db[m][e])'
    BY DEF AllBelong
  <2>1. db'[m][e] = db[m][e] \/ db'[m][e] = d
    BY OneDatabase
  <2>2. Belongs(db[m][e]) /\ Belongs(d)
    BY DEF Kept, AllBelong
  <2> QED
    BY <2>1, <2>2 DEF Belongs
<1> QED
  BY <1>1 DEF Kept, AllCareful, RegisteredAsBuilt

LEMMA KeptInit == Init => Kept
<1> SUFFICES ASSUME Init PROVE Kept
  OBVIOUS
<1>1. AllBelong
  BY DEF Init, AllBelong, Belongs
<1> QED
  BY <1>1 DEF Init, Kept, AllCareful, Careful, RegisteredAsBuilt, local_testnet_config, Spec

LEMMA KeptStep ==
    ASSUME CarefulEdits, Types, Kept, [Next]_vars
    PROVE  Kept'
<1>1. CASE Edit
  <2>1. Careful(file') /\ UNCHANGED <<exported, paras, db, process>>
    <3>1. PICK i \in ParaId : file' = [file EXCEPT !.para_id = i, !.parachain_id = i]
      BY <1>1 DEF Edit
    <3> QED
      BY <1>1, <3>1 DEF Edit, Careful, Types, TypeOK
  <2> QED
    BY <2>1 DEF Kept, AllCareful, Careful, RegisteredAsBuilt, AllBelong, Belongs
<1>2. CASE Register
  <2> DEFINE i == exported.para_id
             fresh == [genesis |-> exported.genesis, height |-> 0]
  <2>1. /\ exported # None /\ paras[i] = None
        /\ paras' = [paras EXCEPT ![i] = fresh]
        /\ UNCHANGED <<file, exported, db, process>>
    BY <1>2 DEF Register
  <2>2. exported.genesis = i /\ i \in ParaId
    BY <2>1 DEF Kept, AllCareful, Types, TypeOK
  <2>3. paras'[i] = fresh /\ \A j \in ParaId \ {i} : paras'[j] = paras[j]
    BY <2>1, <2>2 DEF Types, TypeOK
  <2>4. RegisteredAsBuilt'
    BY <2>2, <2>3 DEF Kept, RegisteredAsBuilt
  <2>5. AllBelong'
    <3> SUFFICES ASSUME NEW n \in Machine, NEW c \in ChainId,
                        db[n][c] # None, db[n][c].best > 0
                 PROVE  LET g == db[n][c].genesis
                        IN  paras'[g] # None /\ db[n][c].best <= paras'[g].height
      BY <2>1 DEF AllBelong, Belongs
    <3>1. db[n][c].genesis \in ParaId
      BY DEF Types, TypeOK, Databases
    <3>2. /\ paras[db[n][c].genesis] # None
          /\ db[n][c].best <= paras[db[n][c].genesis].height
      BY DEF Kept, AllBelong, Belongs
    <3> QED
      BY <2>1, <2>3, <3>1, <3>2
  <2> QED
    BY <2>1, <2>4, <2>5 DEF Kept, AllCareful, Careful
<1>3. ASSUME NEW arg \in Argument, ExportGenesisState(arg) PROVE Kept'
  <2>1. Careful(load_spec(arg))
    BY LoadSpecType DEF Kept, AllCareful
  <2>2. exported'.genesis = exported'.para_id
    BY <1>3, <2>1 DEF ExportGenesisState, Genesis, Careful
  <2>3. UNCHANGED <<file, paras, db, process>>
    BY <1>3 DEF ExportGenesisState
  <2> QED
    BY <2>2, <2>3 DEF Kept, AllCareful, Careful, RegisteredAsBuilt, AllBelong, Belongs
<1>4. ASSUME NEW arg \in Argument, NEW n \in Machine, Run(n, arg) PROVE Kept'
  <2> DEFINE p == [stage |-> "configured", spec |-> load_spec(arg)]
  <2>1. Careful(load_spec(arg))
    BY LoadSpecType DEF Kept, AllCareful
  <2>2. process' = [process EXCEPT ![n] = p] /\ UNCHANGED <<file, exported, paras, db>>
    BY <1>4 DEF Run
  <2>3. \A m \in Machine : process'[m] = p \/ process'[m] = process[m]
    BY <2>2 DEF Types
  <2>4. \A m \in Machine : process'[m] # None => Careful(process'[m].spec)
    BY <2>1, <2>3 DEF Kept, AllCareful
  <2> QED
    BY <2>2, <2>4 DEF Kept, AllCareful, Careful, RegisteredAsBuilt, AllBelong, Belongs
<1>5. ASSUME NEW arg \in Argument, NEW n \in Machine,
             Inspect(n, arg) \/ ImportBlocks(n, arg) \/ Revert(n, arg) \/ PurgeChain(n, arg)
      PROVE  Kept'
  <2> DEFINE spec == load_spec(arg)
             d == NewPartial(n, spec)
  <2>1. spec \in Specs /\ spec.id \in ChainId
    BY LoadSpecType DEF Specs
  <2>2. d \in Databases /\ d # None /\ Belongs(d)
    BY <2>1, NewPartialType DEF Kept
  <2>3. d.best \in 0 .. MaxHeight /\ MaxHeight \in Nat
    BY <2>2, NodeAssumption DEF Databases
  <2>4. UNCHANGED <<file, exported, paras, process>>
    BY <1>5 DEF Inspect, ImportBlocks, Revert, PurgeChain
  <2> SUFFICES \E e \in Databases \cup {None} :
                  Belongs(e) /\ db' = [db EXCEPT ![n][spec.id] = e]
    BY <2>1, <2>4, KeptWithDatabase
  <2>5. CASE Inspect(n, arg)
    BY <2>2, <2>5 DEF Inspect
  <2>6. CASE ImportBlocks(n, arg)
    <3>1. PICK best \in d.best .. MaxHeight :
            /\ \/ best = d.best
               \/ \E m \in Machine, c \in ChainId :
                    db[m][c] # None /\ db[m][c].genesis = d.genesis /\ db[m][c].best = best
            /\ db' = [db EXCEPT ![n][spec.id] = [d EXCEPT !.best = best]]
      BY <2>6 DEF ImportBlocks
    <3> DEFINE e == [d EXCEPT !.best = best]
    <3>2. best \in 0 .. MaxHeight
      BY <2>3
    <3>3. e \in Databases /\ e # None /\ e.genesis = d.genesis /\ e.best = best
      BY <2>2, <3>2, RevisedType DEF Databases
    <3>4. ASSUME best = d.best PROVE Belongs(e)
      <4> HIDE DEF d, e
      <4> QED
        BY <2>2, <2>3, <3>2, <3>3, <3>4, PartBelongs
    <3>5. ASSUME NEW m \in Machine, NEW c \in ChainId,
                 db[m][c] # None, db[m][c].genesis = d.genesis, db[m][c].best = best
          PROVE  Belongs(e)
      <4>1. db[m][c] \in Databases /\ Belongs(db[m][c])
        BY <3>5 DEF Kept, AllBelong, Types, TypeOK
      <4>2. e.genesis = db[m][c].genesis /\ e.best <= db[m][c].best
        BY <3>2, <3>3, <3>5
      <4> HIDE DEF d, e
      <4> QED
        BY <3>3, <3>5, <4>1, <4>2, PartBelongs
    <3> QED
      BY <3>1, <3>3, <3>4, <3>5
  <2>7. CASE Revert(n, arg)
    <3>1. PICK best \in 0 .. d.best : db' = [db EXCEPT ![n][spec.id] = [d EXCEPT !.best = best]]
      BY <2>7 DEF Revert
    <3> DEFINE e == [d EXCEPT !.best = best]
    <3>2. best \in 0 .. MaxHeight /\ best <= d.best
      BY <2>3
    <3>3. e \in Databases /\ e # None /\ e.genesis = d.genesis /\ e.best = best
      BY <2>2, <3>2, RevisedType DEF Databases
    <3>4. Belongs(e)
      BY <2>2, <3>2, <3>3, PartBelongs
    <3> QED
      BY <3>1, <3>3, <3>4
  <2>8. CASE PurgeChain(n, arg)
    BY <2>8 DEF PurgeChain, Belongs
  <2> QED
    BY <1>5, <2>5, <2>6, <2>7, <2>8
<1>6. ASSUME NEW n \in Machine, Open(n) PROVE Kept'
  <2> DEFINE spec == process[n].spec
             d == NewPartial(n, spec)
  <2>1. process[n] \in Processes /\ process[n] # None
    BY <1>6 DEF Open, Types
  <2>2. spec \in Specs /\ spec.id \in ChainId
    BY <2>1 DEF Processes, Specs
  <2>3. d \in Databases /\ d # None /\ Belongs(d)
    BY <2>2, NewPartialType DEF Kept
  <2>4. /\ db' = [db EXCEPT ![n][spec.id] = d]
        /\ process' = [process EXCEPT ![n].stage = "opened"]
        /\ UNCHANGED <<file, exported, paras>>
    BY <1>6 DEF Open
  <2>5. \A m \in Machine : process'[m] # None => Careful(process'[m].spec)
    <3>1. process'[n].spec = spec /\ \A m \in Machine \ {n} : process'[m] = process[m]
      BY <2>1, <2>4 DEF Types, Processes
    <3> QED
      BY <2>1, <3>1 DEF Kept, AllCareful
  <2>6. AllBelong'
    <3> SUFFICES ASSUME NEW m \in Machine, NEW e \in ChainId PROVE Belongs(db[m][e])'
      BY DEF AllBelong
    <3> HIDE DEF d
    <3>1. db'[m][e] = db[m][e] \/ db'[m][e] = d
      BY <2>2, <2>3, <2>4, OneDatabase
    <3>2. Belongs(db[m][e]) /\ Belongs(d)
      BY <2>3 DEF Kept, AllBelong
    <3> QED
      BY <2>4, <3>1, <3>2 DEF Belongs
  <2> QED
    BY <2>4, <2>5, <2>6 DEF Kept, AllCareful, Careful, RegisteredAsBuilt
<1>7. ASSUME NEW n \in Machine, Serve(n) \/ Exit(n) PROVE Kept'
  <2>1. UNCHANGED <<file, exported, paras, db>>
    BY <1>7 DEF Serve, Exit
  <2>2. \A m \in Machine : process'[m] # None => Careful(process'[m].spec)
    <3>1. CASE Serve(n)
      <4>1. process[n] \in Processes /\ process[n] # None
        BY <3>1 DEF Serve, Types
      <4>2. process'[n].spec = process[n].spec /\ \A m \in Machine \ {n} : process'[m] = process[m]
        BY <3>1, <4>1 DEF Serve, Types, Processes
      <4> QED
        BY <4>1, <4>2 DEF Kept, AllCareful
    <3>2. CASE Exit(n)
      <4>1. \A m \in Machine : process'[m] = None \/ process'[m] = process[m]
        BY <3>2 DEF Exit, Types
      <4> QED
        BY <4>1 DEF Kept, AllCareful
    <3> QED
      BY <1>7, <3>1, <3>2
  <2> QED
    BY <2>1, <2>2 DEF Kept, AllCareful, Careful, RegisteredAsBuilt, AllBelong, Belongs
<1>8. ASSUME NEW n \in Machine, Serving(n), Matches(Database(n), process[n].spec.para_id)
      PROVE  /\ process[n].spec.id \in ChainId /\ process[n].spec.para_id \in ParaId
             /\ Database(n) \in Databases /\ Database(n) # None /\ Belongs(Database(n))
             /\ paras[process[n].spec.para_id] # None
             /\ paras[process[n].spec.para_id].genesis = process[n].spec.para_id
             /\ Database(n).genesis = process[n].spec.para_id
             /\ paras[process[n].spec.para_id] \in [genesis : ParaId, height : 0 .. MaxHeight]
  <2>1. process[n] \in Processes
    BY <1>8 DEF Serving, Types
  <2>2. process[n].spec.id \in ChainId /\ process[n].spec.para_id \in ParaId
    BY <2>1 DEF Processes, Specs
  <2>3. Database(n) = db[n][process[n].spec.id] /\ Database(n) # None
    BY <1>8 DEF Matches, Database
  <2>4. Database(n) \in Databases /\ Belongs(Database(n))
    BY <2>2, <2>3 DEF Types, TypeOK, Kept, AllBelong
  <2> QED
    BY <1>8, <2>2, <2>3, <2>4 DEF Matches, Types, TypeOK, Kept, RegisteredAsBuilt
<1>9. ASSUME NEW n \in Machine, Collate(n) PROVE Kept'
  <2> DEFINE spec == process[n].spec
             i == spec.para_id
             d == [Database(n) EXCEPT !.best = @ + 1]
  <2>1. /\ Serving(n) /\ Matches(Database(n), i)
        /\ Database(n).best = paras[i].height /\ paras[i].height < MaxHeight
        /\ paras' = [paras EXCEPT ![i].height = @ + 1]
        /\ db' = [db EXCEPT ![n][spec.id].best = @ + 1]
        /\ UNCHANGED <<file, exported, process>>
    BY <1>9 DEF Collate
  <2>2. /\ spec.id \in ChainId /\ i \in ParaId /\ Database(n) \in Databases
        /\ Database(n).genesis = i
        /\ paras[i] # None /\ paras[i] \in [genesis : ParaId, height : 0 .. MaxHeight]
    BY <1>8, <2>1
  <2>3. /\ paras'[i].genesis = paras[i].genesis /\ paras'[i].height = paras[i].height + 1
        /\ paras'[i] \in [genesis : ParaId, height : Nat]
        /\ \A j \in ParaId \ {i} : paras'[j] = paras[j]
    BY <2>1, <2>2, NodeAssumption DEF Types, TypeOK
  <2>4. paras'[i] # None
    BY <2>3, NodeAssumption
  <2>5. RegisteredAsBuilt'
    BY <2>2, <2>3 DEF Kept, RegisteredAsBuilt
  <2>6. d \in Databases /\ d.genesis = i /\ d.best = paras[i].height + 1
    BY <2>1, <2>2, NodeAssumption DEF Databases
  <2>7. db' = [db EXCEPT ![n][spec.id] = d]
    BY <2>1, <2>2 DEF Database, Types, TypeOK
  <2>8. AllBelong'
    <3> SUFFICES ASSUME NEW m \in Machine, NEW c \in ChainId,
                        db'[m][c] # None, db'[m][c].best > 0
                 PROVE  LET g == db'[m][c].genesis
                        IN  paras'[g] # None /\ db'[m][c].best <= paras'[g].height
      BY DEF AllBelong, Belongs
    <3> HIDE DEF d
    <3>1. CASE db'[m][c] = d
      BY <2>2, <2>3, <2>4, <2>6, <3>1
    <3>2. CASE db'[m][c] = db[m][c]
      <4>1. db[m][c] \in Databases
        BY <3>2 DEF Types, TypeOK
      <4>2. db[m][c].genesis \in ParaId /\ db[m][c].best \in Nat
        BY <4>1, NodeAssumption DEF Databases
      <4>3. paras[db[m][c].genesis] # None /\ db[m][c].best <= paras[db[m][c].genesis].height
        BY <3>2 DEF Kept, AllBelong, Belongs
      <4>4. paras[i].height \in Nat
        BY <2>2, NodeAssumption
      <4>5. CASE db[m][c].genesis = i
        <5>1. db[m][c].best <= paras[i].height + 1
          BY <4>2, <4>3, <4>4, <4>5
        <5> QED
          BY <2>3, <2>4, <3>2, <4>5, <5>1
      <4>6. CASE db[m][c].genesis # i
        BY <2>3, <3>2, <4>2, <4>3, <4>6
      <4> QED
        BY <4>5, <4>6
    <3> QED
      BY <2>2, <2>6, <2>7, <3>1, <3>2, OneDatabase
  <2> QED
    BY <2>1, <2>5, <2>8 DEF Kept, AllCareful, Careful
<1>10. ASSUME NEW n \in Machine, Follow(n) PROVE Kept'
  <2> DEFINE spec == process[n].spec
             d == [Database(n) EXCEPT !.best = paras[spec.para_id].height]
  <2>1. /\ Serving(n) /\ Matches(Database(n), spec.para_id)
        /\ db' = [db EXCEPT ![n][spec.id].best = paras[spec.para_id].height]
        /\ UNCHANGED <<file, exported, paras, process>>
    BY <1>10 DEF Follow
  <2>2. /\ spec.id \in ChainId /\ Database(n) \in Databases
        /\ Database(n).genesis = spec.para_id /\ paras[spec.para_id] # None
        /\ paras[spec.para_id] \in [genesis : ParaId, height : 0 .. MaxHeight]
    BY <1>8, <2>1
  <2>3. /\ d \in Databases /\ d.genesis = spec.para_id
        /\ d.best = paras[spec.para_id].height
    BY <2>2 DEF Databases
  <2>4. paras[spec.para_id].height \in Nat
    BY <2>2, NodeAssumption
  <2>5. Belongs(d)
    BY <2>2, <2>3, <2>4 DEF Belongs
  <2>6. db' = [db EXCEPT ![n][spec.id] = d]
    BY <2>1, <2>2 DEF Database, Types, TypeOK
  <2> QED
    BY <2>1, <2>2, <2>3, <2>5, <2>6, KeptWithDatabase
<1>11. CASE UNCHANGED vars
  BY <1>11 DEF vars, Kept, AllCareful, Careful, RegisteredAsBuilt, AllBelong, Belongs
<1> QED
  BY <1>1, <1>2, <1>3, <1>4, <1>5, <1>6, <1>7, <1>9, <1>10, <1>11 DEF Next

(* Whatever files, presets and databases of earlier files the machines are *)
(* started with: if the two ids of a file are always changed together,     *)
(* every block in a database is one of the chain registered under the id   *)
(* its runtime believes in.                                                *)
THEOREM BlocksBelongHolds == CarefulEdits => (NodeSpec => []BlocksBelong)
<1> SUFFICES ASSUME CarefulEdits PROVE NodeSpec => []BlocksBelong
  OBVIOUS
<1>1. Init => Types /\ Kept
  BY TypesInit, KeptInit
<1>2. Types /\ Kept /\ [Next]_vars => (Types /\ Kept)'
  BY TypesStep, KeptStep
<1>3. Types /\ Kept => BlocksBelong
  BY KeptImplies
<1> QED
  BY <1>1, <1>2, <1>3, PTL DEF NodeSpec
===============================================================================
