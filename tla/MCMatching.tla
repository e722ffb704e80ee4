------------------------------ MODULE MCMatching ------------------------------
(***************************************************************************)
(* Instances of Matching for TLC: one application, one lane.               *)
(***************************************************************************)
EXTENDS Matching

CONSTANTS w1, w2, w3

MCTypes == {"match"}
MCTypeOf == [k \in Keys |-> "match"]
MCLanes == {"slow"}
MCLaneOf == [type \in MCTypes |-> "slow"]
MCConcurrency == [lane \in MCLanes |-> 1]
MCPriority == [type \in MCTypes |-> 4]
==============================================================================
