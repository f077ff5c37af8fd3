---------------------------------- MODULE Node ----------------------------------
(***************************************************************************)
(* The parachain node as a process on several machines (node/src): the     *)
(* chain specification it loads, the database it opens, the stages of its  *)
(* start, its subcommands, and the registration of the parachain with the  *)
(* relay chain.  A process can end at every stage; a database stays until  *)
(* it is purged, also when the specification file has changed since.       *)
(*                                                                         *)
(* The presets and files of this repository differ in the parachain's id   *)
(* only, so that a genesis is the id it gives to parachain_info.           *)
(***************************************************************************)
EXTENDS Integers, FiniteSets

CONSTANTS
    Machine, Collator,  \* where nodes run; those started with --collator
    ParaId, PresetId,   \* parachain ids; the one of both presets, 2000
    Argument,           \* what --chain is given: "dev", "local", "path"
    CarefulEdits,       \* the file's two ids are changed together
    MaxHeight,          \* bound: blocks of a chain
    None

ASSUME NodeAssumption ==
    /\ Collator \subseteq Machine
    /\ PresetId \in ParaId
    /\ Argument \subseteq {"dev", "local", "path"}
    /\ CarefulEdits \in BOOLEAN
    /\ MaxHeight \in Nat
    /\ None \notin [genesis : ParaId, best : Nat] \cup [genesis : ParaId, height : Nat]

VARIABLES
    file,      \* the chain specification on disk, first a copy of the preset
    exported,  \* what the last export-genesis-state has written
    paras,     \* the relay chain's register: genesis and height by id
    db,        \* databases by machine and chain id
    process    \* the node running on each machine

vars == <<file, exported, paras, db, process>>

(* Extensions::para_id and parachain_info's parachain_id.  Directories of  *)
(* databases are named after `id`.                                         *)
Spec(id, para, parachain) == [id |-> id, para_id |-> para, parachain_id |-> parachain]
development_config == Spec("dev", PresetId, PresetId)
local_testnet_config == Spec("local_testnet", PresetId, PresetId)

ChainId == {"dev", "local_testnet"}

load_spec(arg) ==
    CASE arg = "dev" -> development_config
      [] arg = "local" -> local_testnet_config
      [] arg = "path" -> file

(* Mutated: the genesis has the id of the presets, whatever the file says. *)
PresetGenesis(spec) == PresetId
Genesis(spec) == spec.parachain_id

Init ==
    /\ file = local_testnet_config
    /\ exported = None
    /\ paras = [i \in ParaId |-> None]
    /\ db = [n \in Machine |-> [c \in ChainId |-> None]]
    /\ process = [n \in Machine |-> None]

-------------------------------------------------------------------------------
(* The operator                                                            *)

Edit ==
    /\ \E i, j \in ParaId :
        /\ CarefulEdits => i = j
        /\ file' = [file EXCEPT !.para_id = i, !.parachain_id = j]
    /\ UNCHANGED <<exported, paras, db, process>>

ExportGenesisState(arg) ==
    /\ exported' = [para_id |-> load_spec(arg).para_id, genesis |-> Genesis(load_spec(arg))]
    /\ UNCHANGED <<file, paras, db, process>>

(* sudo_schedule_para_initialize, with the id of the exported file.        *)
Register ==
    /\ exported # None
    /\ paras[exported.para_id] = None
    /\ paras' = [paras EXCEPT ![exported.para_id] = [genesis |-> exported.genesis, height |-> 0]]
    /\ UNCHANGED <<file, exported, db, process>>

-------------------------------------------------------------------------------
(* Databases.  Only one process at a time has one open.                    *)

(* new_full_parts: the database of that chain id if there is one, with the *)
(* genesis it was made with, else a new one.                               *)
NewPartial(n, spec) ==
    IF db[n][spec.id] # None THEN db[n][spec.id]
    ELSE [genesis |-> Genesis(spec), best |-> 0]

(* A database and the chain a relay chain has registered.                  *)
Matches(d, i) == d # None /\ paras[i] # None /\ paras[i].genesis = d.genesis

(* check-block, export-blocks and export-state                             *)
Inspect(n, arg) ==
    /\ process[n] = None
    /\ db' = [db EXCEPT ![n][load_spec(arg).id] = NewPartial(n, load_spec(arg))]
    /\ UNCHANGED <<file, exported, paras, process>>

(* import-blocks, of blocks that another node has exported; those that do  *)
(* not follow from the database's genesis are refused.                     *)
ImportBlocks(n, arg) ==
    /\ process[n] = None
    /\ LET spec == load_spec(arg)
           d == NewPartial(n, spec)
       IN  \E best \in d.best .. MaxHeight :
               /\ \/ best = d.best
                  \/ \E m \in Machine, c \in ChainId :
                        db[m][c] # None /\ db[m][c].genesis = d.genesis /\ db[m][c].best = best
               /\ db' = [db EXCEPT ![n][spec.id] = [d EXCEPT !.best = best]]
    /\ UNCHANGED <<file, exported, paras, process>>

Revert(n, arg) ==
    /\ process[n] = None
    /\ LET spec == load_spec(arg)
           d == NewPartial(n, spec)
       IN  \E best \in 0 .. d.best : db' = [db EXCEPT ![n][spec.id] = [d EXCEPT !.best = best]]
    /\ UNCHANGED <<file, exported, paras, process>>

(* purge-chain does not look whether a node runs; here it never does.      *)
PurgeChain(n, arg) ==
    /\ process[n] = None
    /\ db' = [db EXCEPT ![n][load_spec(arg).id] = None]
    /\ UNCHANGED <<file, exported, paras, process>>

-------------------------------------------------------------------------------
(* The node                                                                *)

(* run: the specification is read once; the id to collate for is taken     *)
(* from it, the genesis only if there is no database yet.                  *)
Run(n, arg) ==
    /\ process[n] = None
    /\ process' = [process EXCEPT ![n] =
                      [stage |-> "configured", spec |-> load_spec(arg)]]
    /\ UNCHANGED <<file, exported, paras, db>>

(* start_node_impl as far as new_partial; mutated: the node starts without *)
(* a database.                                                             *)
OpenNothing(n) ==
    /\ process[n] # None /\ process[n].stage = "configured"
    /\ process' = [process EXCEPT ![n].stage = "opened"]
    /\ UNCHANGED <<file, exported, paras, db>>
Open(n) ==
    /\ process[n] # None /\ process[n].stage = "configured"
    /\ db' = [db EXCEPT ![n][process[n].spec.id] = NewPartial(n, process[n].spec)]
    /\ process' = [process EXCEPT ![n].stage = "opened"]
    /\ UNCHANGED <<file, exported, paras>>

(* The relay chain's node, the network, the tasks, and then the collator   *)
(* or the full node.                                                       *)
Serve(n) ==
    /\ process[n] # None /\ process[n].stage = "opened"
    /\ process' = [process EXCEPT ![n].stage = "serving"]
    /\ UNCHANGED <<file, exported, paras, db>>

(* An error of a stage, a signal or a crash.                               *)
Exit(n) ==
    /\ process[n] # None
    /\ process' = [process EXCEPT ![n] = None]
    /\ UNCHANGED <<file, exported, paras, db>>

Serving(n) == process[n] # None /\ process[n].stage = "serving"
Database(n) == db[n][process[n].spec.id]

(* The relay chain takes a candidate if its parent is the head it knows.   *)
Collate(n) ==
    /\ Serving(n) /\ n \in Collator
    /\ LET i == process[n].spec.para_id
       IN  /\ Matches(Database(n), i)
           /\ Database(n).best = paras[i].height
           /\ paras[i].height < MaxHeight
           /\ paras' = [paras EXCEPT ![i].height = @ + 1]
    /\ db' = [db EXCEPT ![n][process[n].spec.id].best = @ + 1]
    /\ UNCHANGED <<file, exported, process>>

(* Collators and full nodes import what the relay chain has included;      *)
(* mutated: a collator has its own blocks only.                            *)
FullNodeFollows(n) ==
    /\ Serving(n) /\ n \notin Collator
    /\ Matches(Database(n), process[n].spec.para_id)
    /\ db' = [db EXCEPT ![n][process[n].spec.id].best = paras[process[n].spec.para_id].height]
    /\ UNCHANGED <<file, exported, paras, process>>
Follow(n) ==
    /\ Serving(n)
    /\ Matches(Database(n), process[n].spec.para_id)
    /\ db' = [db EXCEPT ![n][process[n].spec.id].best = paras[process[n].spec.para_id].height]
    /\ UNCHANGED <<file, exported, paras, process>>

Next ==
    \/ Edit
    \/ Register
    \/ \E arg \in Argument :
        \/ ExportGenesisState(arg)
        \/ \E n \in Machine :
            \/ Run(n, arg) \/ Inspect(n, arg) \/ ImportBlocks(n, arg)
            \/ Revert(n, arg) \/ PurgeChain(n, arg)
    \/ \E n \in Machine : Open(n) \/ Serve(n) \/ Exit(n) \/ Collate(n) \/ Follow(n)

NodeSpec == Init /\ [][Next]_vars

(* A node that is not stopped goes on starting, following and collating.   *)
FairSpec ==
    /\ NodeSpec
    /\ \A n \in Machine : WF_vars(Open(n)) /\ WF_vars(Serve(n)) /\ WF_vars(Follow(n)) /\ SF_vars(Collate(n))

-------------------------------------------------------------------------------
(* Properties                                                              *)

Databases == [genesis : ParaId, best : 0 .. MaxHeight]
TypeOK ==
    /\ file \in [id : ChainId, para_id : ParaId, parachain_id : ParaId]
    /\ exported \in [para_id : ParaId, genesis : ParaId] \cup {None}
    /\ paras \in [ParaId -> [genesis : ParaId, height : 0 .. MaxHeight] \cup {None}]
    /\ db \in [Machine -> [ChainId -> Databases \cup {None}]]
    /\ \A n \in Machine : Serving(n) => Database(n) # None

(* Every block in any database is one of the chain that is registered      *)
(* under the id its own runtime believes in (parachain_info, which the     *)
(* service pallet compares an order's sender with), whichever presets,     *)
(* files and databases of earlier files the machines were started with.    *)
BlocksBelong ==
    \A n \in Machine, c \in ChainId :
        db[n][c] # None /\ db[n][c].best > 0 =>
            /\ paras[db[n][c].genesis] # None
            /\ paras[db[n][c].genesis].genesis = db[n][c].genesis
            /\ db[n][c].best <= paras[db[n][c].genesis].height

(* A chain with a collator that stays up on a database of its genesis gets *)
(* its blocks, though other nodes stop at any stage, start from other      *)
(* files, and revert or lose their databases.                              *)
ChainGrows ==
    \A i \in ParaId, n \in Collator :
        <>[](Serving(n) /\ process[n].spec.para_id = i /\ Matches(Database(n), i))
            => <>(paras[i] # None /\ paras[i].height = MaxHeight)
===============================================================================
