---------------------------- MODULE SearchExpiry ----------------------------
(***************************************************************************)
(* The automatic pause of one profile's job search: the daily maintenance  *)
(* (run_daily_maintenance) extends, seeds or pauses an active search, the  *)
(* user switches it on and off (toggle_search) and engages meanwhile, and  *)
(* each of them works on the row it loaded when it began.                  *)
(*                                                                         *)
(* A tick is SEARCH_EXPIRY_EXTENSION_MIN_DELTA (twelve hours); times are   *)
(* kept relative to now.  A session writes the columns that differ from    *)
(* the ones it loaded, and only those.                                     *)
(***************************************************************************)
EXTENDS Integers, FiniteSets

CONSTANTS
    AutoPause,      \* search_auto_pause_days, in ticks
    Period,         \* the longest paid period, in ticks
    MaxToggles      \* bound: toggle_search requests in flight that differ

ASSUME SearchAssumption == AutoPause \in Nat \ {0} /\ Period \in Nat \ {0}

VARIABLES
    active,     \* user_profiles.search_active
    left,       \* ticks until search_expires_at, or NoExpiry
    idle,       \* ticks since the latest engagement event
    paid_for,   \* ticks of paid access the user's subscription has left
    sweep,      \* the maintenance run that looks at this profile
    toggles     \* what the running requests that switch the search loaded

searchVars == <<active, left, idle, paid_for, sweep, toggles>>

NoExpiry == AutoPause + 1            \* search_expires_at is null
Late == -AutoPause                  \* bound: how late a maintenance may be
IdleCap == 2 * AutoPause + 1        \* idler than every window is old
Left == Late .. NoExpiry

(* effective_entitlements(get_subscription_snapshot(user)).paid_access: the *)
(* newest subscription has a paid status, until its current_period_end.    *)
paid == paid_for > 0

Sweep == [pc: {"idle", "loaded", "unpaid", "decided"}, left: Left,
          decision: {"keep", "renew", "pause"}, overtaken: BOOLEAN]
Toggle == [on: BOOLEAN, was_active: BOOLEAN, was_null: BOOLEAN]

NoSweep == [pc |-> "idle", left |-> NoExpiry, decision |-> "keep", overtaken |-> FALSE]

SearchTypeOK ==
    /\ active \in BOOLEAN
    /\ paid_for \in 0 .. Period
    /\ left \in Left
    /\ idle \in 0 .. IdleCap
    /\ sweep \in Sweep
    /\ toggles \subseteq Toggle

------------------------------------------------------------------------------
(* What maintenance decides                                                *)

ShouldExtend(expiry) == expiry = NoExpiry \/ AutoPause - expiry >= 1

(* The window misread as beginning when the search expires. *)
EngagedAfterExpiry(expiry) == idle <= -expiry

(* latest_engagement_since(expiry - search_auto_pause_days) finds an event. *)
EngagedInWindow(expiry) == idle <= AutoPause - expiry

PaidDecision(expiry) == IF ShouldExtend(expiry) THEN "renew" ELSE "keep"

(* An expired search seeded like one without an expiry. *)
DecisionReseeds(expiry) ==
    IF expiry = NoExpiry THEN "renew"
    ELSE IF EngagedInWindow(expiry) THEN PaidDecision(expiry)
    ELSE IF expiry < 0 THEN "renew" ELSE "keep"

UnpaidDecision(expiry) ==
    IF expiry = NoExpiry THEN "renew"
    ELSE IF EngagedInWindow(expiry) THEN PaidDecision(expiry)
    ELSE IF expiry < 0 THEN "pause" ELSE "keep"

------------------------------------------------------------------------------
(* Time, the user and the billing service                                  *)

(* Bound: no active search is left unattended more than Late. *)
Tick ==
    /\ sweep.pc = "idle"
    /\ active => left # Late
    /\ left' = IF left \in {NoExpiry, Late} THEN left ELSE left - 1
    /\ idle' = IF idle = IdleCap THEN idle ELSE idle + 1
    /\ paid_for' = IF paid_for = 0 THEN 0 ELSE paid_for - 1
    /\ UNCHANGED <<active, sweep, toggles>>

Overtaken == [sweep EXCEPT !.overtaken = sweep.pc # "idle"]

(* record_engagement, from any request that counts as one. *)
Engage ==
    /\ idle' = 0
    /\ sweep' = [sweep EXCEPT !.overtaken = @ \/ sweep.pc = "decided"]
    /\ UNCHANGED <<active, left, paid_for, toggles>>

(* The billing service writes subscriptions: nothing in the source does. *)
Billing ==
    /\ paid_for' \in 0 .. Period
    /\ sweep' = [sweep EXCEPT !.overtaken = @ \/ sweep.pc \in {"unpaid", "decided"}]
    /\ UNCHANGED <<active, left, idle, toggles>>

(* toggle_search: get_current_profile has loaded the row. *)
ToggleLoads(on) ==
    /\ toggles' = toggles \union {[on |-> on, was_active |-> active,
                                   was_null |-> ~on /\ left = NoExpiry]}
    /\ Cardinality(toggles') <= MaxToggles
    /\ UNCHANGED <<active, left, idle, paid_for, sweep>>

(* toggle_search: update_profile, and the engagement of a resumed search.  *)
(* Another request that loaded the same may still run.                     *)
ToggleCommits(g) ==
    /\ active' = IF g.on # g.was_active THEN g.on ELSE active
    /\ left' = IF g.on THEN AutoPause ELSE IF g.was_null THEN left ELSE NoExpiry
    /\ idle' = IF g.on /\ ~g.was_active THEN 0 ELSE idle
    /\ sweep' = Overtaken
    /\ toggles' \in {toggles, toggles \ {g}}
    /\ UNCHANGED paid_for

------------------------------------------------------------------------------
(* run_daily_maintenance: all active profiles are loaded at the start, the *)
(* subscription and the engagement of each are read in turn, and one       *)
(* commit at the end writes them all.                                      *)

SweepLoads ==
    /\ sweep.pc = "idle" /\ active
    /\ sweep' = [NoSweep EXCEPT !.pc = "loaded", !.left = left]
    /\ UNCHANGED <<active, left, idle, paid_for, toggles>>

(* get_subscription_snapshot; what is paid for is decided at once. *)
SweepReads ==
    /\ sweep.pc = "loaded"
    /\ sweep' = IF paid
                THEN [sweep EXCEPT !.pc = "decided", !.decision = PaidDecision(sweep.left)]
                ELSE [sweep EXCEPT !.pc = "unpaid"]
    /\ UNCHANGED <<active, left, idle, paid_for, toggles>>

(* latest_engagement_since *)
SweepDecides ==
    /\ sweep.pc = "unpaid"
    /\ sweep' = [sweep EXCEPT !.pc = "decided", !.decision = UnpaidDecision(sweep.left)]
    /\ UNCHANGED <<active, left, idle, paid_for, toggles>>

(* An extension counted from the old expiry instead of from now. *)
SweepCommitsFromExpiry ==
    /\ sweep.pc = "decided"
    /\ left' = IF sweep.decision = "renew" THEN sweep.left + AutoPause ELSE left
    /\ active' = (active /\ sweep.decision # "pause")
    /\ sweep' = NoSweep
    /\ UNCHANGED <<idle, paid_for, toggles>>

SweepCommits ==
    /\ sweep.pc = "decided"
    /\ left' = IF sweep.decision = "renew" THEN AutoPause ELSE left
    /\ active' = (active /\ sweep.decision # "pause")
    /\ sweep' = NoSweep
    /\ UNCHANGED <<idle, paid_for, toggles>>

(* The process dies: nothing was committed, and the row of work_queue is   *)
(* claimed again or the next day's cron enqueues another.                  *)
SweepDies ==
    /\ sweep.pc # "idle"
    /\ sweep' = NoSweep
    /\ UNCHANGED <<active, left, idle, paid_for, toggles>>

------------------------------------------------------------------------------
(* get_or_create_profile *)
SearchInit ==
    /\ active = TRUE /\ left = AutoPause
    /\ idle = IdleCap /\ paid_for = 0
    /\ sweep = NoSweep /\ toggles = {}

UserActs ==
    \/ Engage
    \/ \E on \in BOOLEAN : ToggleLoads(on)
    \/ \E g \in toggles : ToggleCommits(g)

SearchNext ==
    \/ Tick \/ Billing \/ UserActs
    \/ SweepLoads \/ SweepReads \/ SweepDecides \/ SweepCommits \/ SweepDies

SearchSpec == SearchInit /\ [][SearchNext]_searchVars

(* Time passes between the runs, the cron comes every day, and a run does  *)
(* not die for ever: its lease and the next day's row bring it back.       *)
SearchFairness ==
    /\ SF_searchVars(Tick) /\ WF_searchVars(SweepLoads)
    /\ SF_searchVars(SweepReads) /\ SF_searchVars(SweepDecides) /\ SF_searchVars(SweepCommits)

FairSearchSpec == SearchSpec /\ SearchFairness

------------------------------------------------------------------------------
(* A search is switched off by the user's own request, or because nobody   *)
(* pays and no engagement was recorded for AutoPause: whatever the         *)
(* maintenance read, unless the user or the billing overtook it between    *)
(* its reads and its commit.                                               *)
NotPausedWhileEngaged ==
    [][active /\ ~active' =>
        \/ \E g \in toggles : ToggleCommits(g)
        \/ sweep.overtaken
        \/ ~paid /\ idle > AutoPause]_searchVars

(* A search nobody pays for is paused once the user has gone: the          *)
(* extensions and seedings of the maintenance do not keep it alive.        *)
IdleSearchPauses ==
    \/ []<><<UserActs>>_searchVars
    \/ []<>paid
    \/ <>[]~active
=============================================================================
