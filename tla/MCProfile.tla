------------------------------ MODULE MCProfile ------------------------------
(***************************************************************************)
(* Instances for TLC of the modules about one profile that share no state: *)
(* a behaviour is one of `part`, the variables of the others stay.         *)
(***************************************************************************)
EXTENDS SearchExpiry, CompanyFollows, SyncStatus, RateLimit, MatchRules

VARIABLE part

Search == part = "search" /\ SearchNext /\ UNCHANGED <<part, followVars, syncVars, rateVars>>
Follows == part = "follows" /\ FollowsNext /\ UNCHANGED <<part, searchVars, syncVars, rateVars>>
Sync == part = "sync" /\ SyncNext /\ UNCHANGED <<part, searchVars, followVars, rateVars>>
Rate == part = "rate" /\ RateNext /\ UNCHANGED <<part, searchVars, followVars, syncVars>>

MCInit ==
    /\ part \in {"search", "follows", "sync", "rate", "rules"}
    /\ SearchInit /\ FollowsInit /\ SyncInit /\ RateInit

MCNext == Search \/ Follows \/ Sync \/ Rate

(* SearchFairness and SyncFairness, of the part that runs.                 *)
MCFairness ==
    /\ SF_searchVars(part = "search" /\ Tick)
    /\ WF_searchVars(part = "search" /\ SweepLoads)
    /\ SF_searchVars(part = "search" /\ SweepReads)
    /\ SF_searchVars(part = "search" /\ SweepDecides)
    /\ SF_searchVars(part = "search" /\ SweepCommits)
    /\ \A b \in Boards : WF_syncVars(part = "sync" /\ FetchEnds(b))
    /\ WF_syncVars(part = "sync" /\ MatchEnds)
    /\ WF_syncVars(part = "sync" /\ BatchRowEnds)
    /\ SF_syncVars(part = "sync" /\ ProviderAnswers)
    /\ WF_syncVars(part = "sync" /\ PollBegins)
    /\ SF_syncVars(part = "sync" /\ PollRequeues)
    /\ WF_syncVars(part = "sync" /\ PollCounts)
    /\ WF_syncVars(part = "sync" /\ PollAnswers)

MCSpec ==
    /\ MCInit /\ [][MCNext]_<<part, searchVars, followVars, syncVars, rateVars>>
    /\ MCFairness

(* The type invariants of the modules.                                     *)
ProfileTypeOK == SearchTypeOK /\ FollowsTypeOK /\ SyncTypeOK /\ RateTypeOK

(* The rules of MatchRules, which have no state, are evaluated once.        *)
RulesAreKept == part = "rules" => RulesHold

(* IdleSearchPauses, where it is the search that runs.                     *)
SearchPausesWhenIdle == part = "search" => IdleSearchPauses
==============================================================================
