----------------------------- MODULE MCBatchMatch -----------------------------
(***************************************************************************)
(* Instances of BatchMatch for TLC: one profile, one lane.                 *)
(***************************************************************************)
EXTENDS BatchMatch, TLC

CONSTANTS w1, w2

MCTypes == {"batch-match"}
MCTypeOf == [k \in Keys |-> "batch-match"]
MCLanes == {"slow"}
MCLaneOf == [type \in MCTypes |-> "slow"]
MCConcurrency == [lane \in MCLanes |-> 1]
MCPriority == [type \in MCTypes |-> 0]

(* The program never compares worker ids but for equality.                 *)
MCSymmetry == Permutations(Workers)
==============================================================================
