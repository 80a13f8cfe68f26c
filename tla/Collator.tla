------------------------------ MODULE Collator ------------------------------
(***************************************************************************)
(* Block production: a running authority builds blocks with the runtime,   *)
(* the relay chain includes them later, and other collators' blocks arrive *)
(* from the network.  A block that is being built is lost with the         *)
(* process; a sealed one is in the database.                               *)
(***************************************************************************)
EXTENDS Node, Blocks

VARIABLE authored       \* the blocks built in the current slot

BLOCK_PROCESSING_VELOCITY == 1

CollatorInit ==
    /\ NodeInit
    /\ block = NoBlock
    /\ authored = 0

\* A bug: a slot may be used once too often.
can_build_upon_once_more(id) ==
    /\ db[id].best - included[id] < UNINCLUDED_SEGMENT_CAPACITY
    /\ authored <= BLOCK_PROCESSING_VELOCITY + 1

\* AuraUnincludedSegmentApi::can_build_upon, by the FixedVelocityConsensusHook: there is
\* room in the unincluded segment, and the slot is not used up.
can_build_upon(id) ==
    /\ db[id].best - included[id] < UNINCLUDED_SEGMENT_CAPACITY
    /\ authored < BLOCK_PROCESSING_VELOCITY + 1

\* The aura task starts a block on the best one, once the included one is known here.
StartBlock(scheduled, queue, inherents) ==
    /\ "aura" \in node.tasks
    /\ included[node.spec.id] <= db[node.spec.id].best
    /\ db[node.spec.id].best < MaxHeight
    /\ can_build_upon(node.spec.id)
    /\ initialize_block(scheduled, queue, inherents)
    /\ UNCHANGED <<node, disk, authored>>

ApplyExtrinsic(class, w) ==
    /\ apply_extrinsic(class, w)
    /\ UNCHANGED <<node, disk, authored>>

\* The block is complete: it is imported here and handed to the relay chain.
SealBlock(w) ==
    /\ finalize_block(node.runtime, w)
    /\ db' = [db EXCEPT ![node.spec.id].best = @ + 1]
    /\ authored' = authored + 1
    /\ UNCHANGED <<ismp, node, files, included>>

\* The import queue imports a block of another collator, which kept the same rule.
ImportBlock ==
    /\ {"network", "import_queue"} \subseteq node.tasks /\ block = NoBlock
    /\ CanGrow(node.spec.id)
    /\ db' = [db EXCEPT ![node.spec.id].best = @ + 1]
    /\ UNCHANGED <<ismp, node, files, block, included, authored>>

\* The relay chain includes a block of the network, one this node has or, when it is
\* behind or reverted it, one it has not.
RelayIncludes(id) ==
    /\ db[id] # Absent /\ included[id] < MaxHeight
    /\ included' = [included EXCEPT ![id] = @ + 1]
    /\ UNCHANGED <<ismp, node, files, db, block, authored>>

NextSlot ==
    /\ authored > 0
    /\ authored' = 0
    /\ UNCHANGED <<node, disk, block>>

\* The process ends, and with it the block it was building.
Ends == Exit /\ block' = NoBlock /\ UNCHANGED authored

\* A step of the start or of a subcommand.  The count of the slot's blocks (SlotInfo) is
\* in the database: it is lost with it, and a reverted block may have been one of them.
Starts ==
    /\ StartStep
    /\ authored' \in CASE node.command = "purge-chain" -> {0}
                       [] node.command = "revert" /\ node.phase = "partial" /\ db' # db ->
                             {authored, IF authored = 0 THEN 0 ELSE authored - 1}
                       [] OTHER -> {authored}
    /\ UNCHANGED block

Produces ==
    \/ \E scheduled, queue, inherents \in Weights \cup {Zero} :
          StartBlock(scheduled, queue, inherents)
    \/ \E w \in Weights \cup {Zero} : SealBlock(w)
    \/ \E class \in {"Normal", "Operational"}, w \in Weights : ApplyExtrinsic(class, w)
    \/ ImportBlock
    \/ \E id \in SpecId : RelayIncludes(id)
    \/ NextSlot
=============================================================================
