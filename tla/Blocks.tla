------------------------------- MODULE Blocks -------------------------------
(***************************************************************************)
(* The weight of a block, in both dimensions (computation and proof size), *)
(* in twentieths of MAXIMUM_BLOCK_WEIGHT: RuntimeBlockWeights, the shares  *)
(* of scheduler and message queue, and the check each extrinsic passes.    *)
(***************************************************************************)
EXTENDS Naturals

CONSTANTS NoBlock,       \* no block is being built
          Weights        \* the weights of the extrinsics and messages that arrive

ASSUME BlocksAssumption == Weights \subseteq [time : Nat, proof : Nat]

VARIABLE block           \* the block being built: the weight used by each class

Class == {"Normal", "Operational", "Mandatory"}

\* Perbill * Weight.
Share(percent, w) == [time |-> (percent * w.time) \div 100, proof |-> (percent * w.proof) \div 100]
Plus(v, w) == [time |-> v.time + w.time, proof |-> v.proof + w.proof]
Minus(v, w) == [time |-> v.time - w.time, proof |-> v.proof - w.proof]
AnyGt(v, w) == v.time > w.time \/ v.proof > w.proof

MAXIMUM_BLOCK_WEIGHT == [time |-> 20, proof |-> 20]
NORMAL_DISPATCH_RATIO == 75
AVERAGE_ON_INITIALIZE_RATIO == 5

\* A bug: nothing is reserved for operational extrinsics.
RuntimeBlockWeightsUnreserved ==
    [max_total |-> [Normal |-> Share(NORMAL_DISPATCH_RATIO, MAXIMUM_BLOCK_WEIGHT),
                    Operational |-> MAXIMUM_BLOCK_WEIGHT],
     reserved |-> [time |-> 0, proof |-> 0]]

\* RuntimeBlockWeights: the most each class may use, and what stays reserved for
\* operational extrinsics in a full block.  Mandatory ones have no limit.
RuntimeBlockWeights ==
    [max_total |-> [Normal |-> Share(NORMAL_DISPATCH_RATIO, MAXIMUM_BLOCK_WEIGHT),
                    Operational |-> MAXIMUM_BLOCK_WEIGHT],
     reserved |-> Minus(MAXIMUM_BLOCK_WEIGHT,
                        Share(NORMAL_DISPATCH_RATIO, MAXIMUM_BLOCK_WEIGHT))]

\* The most a single extrinsic of a class may use: build_or_panic takes the average
\* weight of on_initialize from the class's total.
MaxExtrinsic(class) ==
    Minus(RuntimeBlockWeights.max_total[class],
          Share(AVERAGE_ON_INITIALIZE_RATIO, MAXIMUM_BLOCK_WEIGHT))

\* ServiceWeight of the message queue, and MaximumWeight of the scheduler.
MessageQueueServiceWeight == Share(35, MAXIMUM_BLOCK_WEIGHT)
MaximumSchedulerWeight == Share(60, MAXIMUM_BLOCK_WEIGHT)

Total(used) == Plus(used.Normal, Plus(used.Operational, used.Mandatory))

\* CheckWeight, for a class with limits: the extrinsic's own size, the class's total,
\* and the block's, which the class may exceed while it stays within its reserve.
CheckWeight(used, class, w) ==
    LET per_class == Plus(used[class], w)
        after == [used EXCEPT ![class] = per_class]
    IN  /\ ~ AnyGt(w, MaxExtrinsic(class))
        /\ ~ AnyGt(per_class, RuntimeBlockWeights.max_total[class])
        /\ AnyGt(Total(after), MAXIMUM_BLOCK_WEIGHT) =>
              class = "Operational" /\ ~ AnyGt(per_class, RuntimeBlockWeights.reserved)
-----------------------------------------------------------------------------
Zero == [time |-> 0, proof |-> 0]

\* initialize_block, and the inherents the block begins with: the scheduler runs what is
\* due and the message queue is serviced, each up to its share; with the inherents, which
\* have no limit, this is the block's Mandatory weight.
initialize_block(scheduled, queue, inherents) ==
    /\ block = NoBlock
    /\ ~ AnyGt(scheduled, MaximumSchedulerWeight)
    /\ ~ AnyGt(queue, MessageQueueServiceWeight)
    /\ block' = [Normal |-> Zero, Operational |-> Zero,
                 Mandatory |-> Plus(scheduled, Plus(queue, inherents))]

\* apply_extrinsic: an extrinsic that does not fit is left for another block.
apply_extrinsic(class, w) ==
    /\ block # NoBlock
    /\ CheckWeight(block, class, w)
    /\ block' = [block EXCEPT ![class] = Plus(@, w)]

\* IdleMaxServiceWeight: the main network services messages again at the end of a block.
MessageQueueIdleServiceWeight(rt) == IF rt = "mainnet" THEN Share(20, MAXIMUM_BLOCK_WEIGHT) ELSE Zero

\* finalize_block: on_idle gets what is left of the block, then the block is complete.
finalize_block(rt, w) ==
    /\ block # NoBlock
    /\ ~ AnyGt(w, MessageQueueIdleServiceWeight(rt))
    /\ w # Zero => ~ AnyGt(Plus(Total(block), w), MAXIMUM_BLOCK_WEIGHT)
    /\ block' = NoBlock
=============================================================================
