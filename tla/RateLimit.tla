------------------------------ MODULE RateLimit ------------------------------
(***************************************************************************)
(* The counters of rate_limit_service: check_rate_limit counts the         *)
(* requests of one key in fixed windows (check_daily_quota in days), each  *)
(* by one INSERT ... ON CONFLICT DO UPDATE ... RETURNING, and refuses the  *)
(* ones beyond the limit.  A request reads the clock first and reaches the *)
(* database later, perhaps in the next window.                             *)
(***************************************************************************)
EXTENDS Integers, FiniteSets

CONSTANTS
    Requests,       \* requests of one key
    Limit,          \* limit
    Window,         \* window_seconds, in ticks of the clock
    MaxClock        \* bound: when the clock stops

ASSUME RateAssumption ==
    /\ IsFiniteSet(Requests)
    /\ Limit \in Nat /\ Window \in Nat \ {0} /\ MaxClock \in Nat

VARIABLES
    clock,      \* now
    counts,     \* rate_limits.count by window_start, 0 where there is no row
    calls       \* calls of check_rate_limit

rateVars == <<clock, counts, calls>>

WindowStart(at) == at - (at % Window)
Starts == {WindowStart(at) : at \in 0 .. MaxClock}
Call == [pc: {"new", "stamped", "admitted", "refused"}, at: 0 .. MaxClock]

RateTypeOK ==
    /\ clock \in 0 .. MaxClock
    /\ counts \in [Starts -> 0 .. Cardinality(Requests)]
    /\ calls \in [Requests -> Call]

------------------------------------------------------------------------------
RateTick ==
    /\ clock < MaxClock
    /\ clock' = clock + 1
    /\ UNCHANGED <<counts, calls>>

Stamp(r) ==
    /\ calls[r].pc = "new"
    /\ calls' = [calls EXCEPT ![r] = [pc |-> "stamped", at |-> clock]]
    /\ UNCHANGED <<clock, counts>>

Answer(r, count) ==
    calls' = [calls EXCEPT ![r].pc = IF count > Limit THEN "refused" ELSE "admitted"]

(* A conflict that sets the count to that of the row it would insert. *)
CountOfExcluded(r) ==
    /\ calls[r].pc = "stamped"
    /\ LET w == WindowStart(calls[r].at) IN
       /\ counts' = [counts EXCEPT ![w] = 1]
       /\ Answer(r, 1)
    /\ UNCHANGED clock

(* The upsert, its commit, and the comparison with what it returned: a     *)
(* refused request is counted too.                                         *)
CountOf(r) ==
    /\ calls[r].pc = "stamped"
    /\ LET w == WindowStart(calls[r].at) IN
       /\ counts' = [counts EXCEPT ![w] = @ + 1]
       /\ Answer(r, counts[w] + 1)
    /\ UNCHANGED clock

RateInit ==
    /\ clock = 0
    /\ counts = [w \in Starts |-> 0]
    /\ calls = [r \in Requests |-> [pc |-> "new", at |-> 0]]

RateNext == RateTick \/ \E r \in Requests : Stamp(r) \/ CountOf(r)

RateSpec == RateInit /\ [][RateNext]_rateVars

------------------------------------------------------------------------------
Admitted == {r \in Requests : calls[r].pc = "admitted"}
AnsweredIn(w, pc) == {r \in Requests : calls[r].pc = pc /\ WindowStart(calls[r].at) = w}

(* The counters answer like a limiter that knows whom each window admitted.*)
Windows == INSTANCE RequestWindows WITH
    admitted <- [w \in Starts |-> AnsweredIn(w, "admitted")],
    refused <- [w \in Starts |-> AnsweredIn(w, "refused")]

(* Any stretch of a window's length, across the boundary of two, admits at *)
(* most twice the limit.                                                   *)
AtMostTwice ==
    \A t \in 0 .. MaxClock :
        Cardinality({r \in Admitted : calls[r].at \in t .. t + Window - 1}) <= 2 * Limit

(* No window admits more than the limit, none refuses a request before the *)
(* limit is used up, in whatever order requests read the clock and reach   *)
(* the database; and a boundary admits no more than two windows.           *)
AdmittedWithinLimits == Windows!WindowsSpec /\ []AtMostTwice
=============================================================================
