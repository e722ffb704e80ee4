--------------------------- MODULE CompanyFollows ---------------------------
(***************************************************************************)
(* The companies a profile follows: requests replace the whole list (PATCH *)
(* /api/profile), turns of the onboarding chat add the companies the user  *)
(* names (process_tool_results); each loads the list, works out a new one, *)
(* checks it against the plan and writes it, and nothing locks the         *)
(* profile: the last writer wins.                                          *)
(*                                                                         *)
(* The settings tab is outside: its removals overlap and any failure puts  *)
(* back what it showed, so the list a request carries may be any.          *)
(***************************************************************************)
EXTENDS Integers, FiniteSets

CONSTANTS
    Companies,      \* companies a user may follow
    Patches,        \* PATCH requests that may run at the same time
    Turns,          \* chat turns that may run at the same time
    FreeLimit,      \* FREE_COMPANY_LIMIT
    PaidLimit       \* followed_company_limit of the paid plan

ASSUME FollowsAssumption ==
    FreeLimit \in Nat /\ PaidLimit \in Nat /\ IsFiniteSet(Companies)

VARIABLES
    followed,   \* user_profiles.target_company_ids
    limit,      \* company_follow_limit(effective_entitlements(...)) now
    edits,      \* the running requests and turns
    ceiling     \* history: see FollowsNext

followVars == <<followed, limit, edits, ceiling>>

Lists == SUBSET Companies
Limits == {FreeLimit, PaidLimit}
Edit == [pc: {"idle", "loaded", "checked"}, base: Lists, asked: Lists]
NoEdit == [pc |-> "idle", base |-> {}, asked |-> {}]
Edits == Patches \union Turns

FollowsTypeOK ==
    /\ followed \in Lists
    /\ limit \in Limits
    /\ edits \in [Edits -> Edit]
    /\ ceiling \in Nat

------------------------------------------------------------------------------
(* validate_company_follow_change: what else raises CompanyFollowLimitError *)

Fewer(list, than) == list \subseteq than /\ list # than

Allowed(current, requested, max) ==
    \/ Cardinality(requested) <= max
    \/ Cardinality(current) > max /\ Fewer(requested, current)

(* Only the edit's own change is written. *)
WrittenMerged(base, list) == (followed \ (base \ list)) \union (list \ base)

(* The column is written when the list differs from the loaded one. *)
Written(base, list) == IF list = base THEN followed ELSE list

------------------------------------------------------------------------------
(* get_current_profile; session.get, of a turn. *)
EditLoads(e) ==
    /\ edits[e].pc = "idle"
    /\ edits' = [edits EXCEPT ![e] = [NoEdit EXCEPT !.pc = "loaded", !.base = followed]]
    /\ UNCHANGED <<followed, limit>>

(* What a request asks for; and the names of a turn that resolve finds:    *)
(* one that is unknown, or whose probes time out, is skipped.              *)
Asked(e, list) == IF e \in Turns THEN edits[e].base \union list ELSE list

(* The plan is read and the list validated; a refused one ends the edit    *)
(* (EditEnds).                                                             *)
EditChecks(e) ==
    /\ edits[e].pc = "loaded"
    /\ \E list \in Lists :
           /\ Allowed(edits[e].base, Asked(e, list), limit)
           /\ edits' = [edits EXCEPT ![e].pc = "checked", ![e].asked = Asked(e, list)]
    /\ UNCHANGED <<followed, limit>>

(* The commit.  A turn may go on to its next tool call, with the profile   *)
(* its session holds.                                                      *)
EditCommits(e) ==
    /\ edits[e].pc = "checked"
    /\ followed' = Written(edits[e].base, edits[e].asked)
    /\ edits' = [edits EXCEPT ![e] =
                    IF e \in Turns
                    THEN [NoEdit EXCEPT !.pc = "loaded", !.base = edits[e].asked]
                    ELSE NoEdit]
    /\ UNCHANGED limit

(* It is over: refused (422), rate limited (429), failed, or out of calls. *)
EditEnds(e) ==
    /\ edits[e].pc # "idle"
    /\ edits' = [edits EXCEPT ![e] = NoEdit]
    /\ UNCHANGED <<followed, limit>>

(* The subscription changes or ends. *)
PlanChanges ==
    /\ limit' \in Limits \ {limit}
    /\ UNCHANGED <<followed, edits>>

------------------------------------------------------------------------------
Larger(m, n) == IF m < n THEN n ELSE m

FollowsInit ==
    /\ followed = {} /\ limit = FreeLimit
    /\ edits = [e \in Edits |-> NoEdit]
    /\ ceiling = FreeLimit

(* The ceiling is the most the plan has allowed since no edit ran, or the  *)
(* number of companies followed then.                                      *)
FollowsNext ==
    /\ \/ \E e \in Edits : EditLoads(e) \/ EditChecks(e) \/ EditCommits(e) \/ EditEnds(e)
       \/ PlanChanges
    /\ ceiling' = IF \A e \in Edits : edits'[e].pc = "idle"
                  THEN Larger(limit', Cardinality(followed'))
                  ELSE Larger(ceiling, limit')

FollowsSpec == FollowsInit /\ [][FollowsNext]_followVars

------------------------------------------------------------------------------
(* However the edits of a profile overlap, with each other and with        *)
(* changes of the plan, it never follows more companies than a plan        *)
(* allowed, or it followed already, since the last moment no edit ran: two *)
(* edits do not pass the limit together, and after a downgrade the list    *)
(* does not grow past what it was.                                         *)
FollowsStayWithinPlan == Cardinality(followed) <= ceiling
=============================================================================
