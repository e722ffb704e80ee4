---------------------------- MODULE MCCoverLetter ----------------------------
(***************************************************************************)
(* Instances of CoverLetter for TLC: one application, one lane.            *)
(***************************************************************************)
EXTENDS CoverLetter

CONSTANTS w1, w2, w3

MCTypes == {"generate-cover-letter"}
MCTypeOf == [k \in Keys |-> "generate-cover-letter"]
MCLanes == {"slow"}
MCLaneOf == [type \in MCTypes |-> "slow"]
MCConcurrency == [lane \in MCLanes |-> 1]
MCPriority == [type \in MCTypes |-> 4]
==============================================================================
