------------------------------- MODULE JobLease -------------------------------
(***************************************************************************)
(* What the work queue promises, without saying how: jobs are submitted,   *)
(* one worker at a time holds a job, only a worker that holds a job and is *)
(* working on it may hand it back or settle it, a held job changes hands   *)
(* only towards a different worker, and a settled job never moves again.   *)
(* WorkQueue implements this specification (WorkQueue!Lease).              *)
(***************************************************************************)
EXTENDS Naturals, Sequences

CONSTANTS
    Workers,    \* worker processes
    NoWorker    \* the holder of a job nobody holds

VARIABLES
    jobs,       \* sequence of jobs in submission order: [phase, holder]
    working     \* pairs <<job, worker>>: the worker is executing the job

leaseVars == <<jobs, working>>

Waiting == [phase |-> "waiting", holder |-> NoWorker]
Settled == [phase |-> "settled", holder |-> NoWorker]
HeldBy(w) == [phase |-> "held", holder |-> w]

LeaseInit == jobs = <<>> /\ working = {}

Submit == jobs' = Append(jobs, Waiting) /\ UNCHANGED working

(* A waiting job, or one held by somebody else, becomes w's.               *)
Take(w, i) ==
    /\ jobs[i].phase # "settled"
    /\ jobs[i].holder # w
    /\ jobs' = [jobs EXCEPT ![i] = HeldBy(w)]
    /\ working' = working \union {<<i, w>>}

(* The holder hands the job back.                                          *)
HandBack(w, i) ==
    /\ <<i, w>> \in working
    /\ jobs[i] = HeldBy(w)
    /\ jobs' = [jobs EXCEPT ![i] = Waiting]
    /\ working' \subseteq working

(* The holder settles the job, and may submit a follow-up in the same step.*)
Settle(w, i) ==
    /\ <<i, w>> \in working
    /\ jobs[i] = HeldBy(w)
    /\ LET settled == [jobs EXCEPT ![i] = Settled]
       IN  jobs' = settled \/ jobs' = Append(settled, Waiting)
    /\ working' \subseteq working

(* Workers stop (finish without a claim to the job, crash, are cancelled). *)
Abandon == working' \subseteq working /\ UNCHANGED jobs

LeaseNext ==
    \/ Submit
    \/ Abandon
    \/ \E w \in Workers, i \in DOMAIN jobs :
          Take(w, i) \/ HandBack(w, i) \/ Settle(w, i)

LeaseSpec == LeaseInit /\ [][LeaseNext]_leaseVars
================================================================================
