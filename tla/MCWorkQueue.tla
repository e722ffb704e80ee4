----------------------------- MODULE MCWorkQueue -----------------------------
(***************************************************************************)
(* Instances of WorkQueue for TLC: a job on the fast lane, one on the slow *)
(* lane, where handlers may hang, and one of a type no handler is          *)
(* registered for.                                                         *)
(***************************************************************************)
EXTENDS WorkQueue

CONSTANTS fast, slow, odd, w1, w2

MCTypes == {"match", "batch-match", "unregistered"}
MCTypeOf ==
    [k \in Keys |-> CASE k = fast -> "match" [] k = slow -> "batch-match" [] OTHER -> "unregistered"]
MCHandled == {"match", "batch-match"}
MCLanes == {"fast", "slow"}
MCLaneOf == [type \in MCTypes |-> IF type = "match" THEN "fast" ELSE "slow"]
MCConcurrency == [lane \in MCLanes |-> 1]
MCPriority == [type \in MCTypes |-> IF type = "match" THEN 4 ELSE 1]
==============================================================================
