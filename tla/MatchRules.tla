----------------------------- MODULE MatchRules -----------------------------
(***************************************************************************)
(* The deterministic rules of matching: which job a profile is refused     *)
(* before any LLM is asked (deterministic_rejection_fields), the score     *)
(* that gives, the cap on the LLM's own score                              *)
(* (apply_remote_policy_to_score), and the packing of a job's description  *)
(* into the size of a request (batch_match_packing).                       *)
(*                                                                         *)
(* A text is the set of things its regular expressions find in it.  Scores *)
(* and thresholds are in hundredths.                                       *)
(***************************************************************************)
EXTENDS Integers, FiniteSets

InLocation == {"us", "excludes_us", "non_us", "office", "remote", "elsewhere"}
InDescription == {"us", "excludes_us", "from_non_us", "office", "rejects_remote",
                  "remote_work", "place"}
Families == {"engineering", "product", "sales", "finance"}
NON_TECH_ROLE_FAMILIES == {"sales", "finance"}

(* "place" is a real target location, "remote" one of the pseudo ones; the *)
(* workplace type is part of the location, but for job.remote; "term" is   *)
(* one of the contract terms in the title or the description.              *)
Profile == [remote_ok: BOOLEAN, target_locations: SUBSET {"place", "remote"}]
Job == [location: SUBSET InLocation, remote: BOOLEAN, description: SUBSET InDescription]
Career == [senior: BOOLEAN, families: SUBSET Families]
Title == [term: BOOLEAN, junior: BOOLEAN, families: SUBSET Families]

------------------------------------------------------------------------------
(* evaluate_us_location_policy                                             *)

Owned(job) == job.location \union job.description

(* _is_ambiguous_location_text: none, or "remote" and its like alone. *)
Ambiguous(location) == location \subseteq {"remote"}

NonUsOverrides(job) ==
    \/ "non_us" \in job.location
    \/ "us" \notin job.location
       /\ (~Ambiguous(job.location) \/ "from_non_us" \in job.description)

(* A mention of another country in the description that overrules a US     *)
(* location.                                                               *)
UsMismatchByMention(job) ==
    NonUsOverrides(job) \/ "from_non_us" \in job.description
    \/ "excludes_us" \in Owned(job) \/ "us" \notin Owned(job)

UsMismatch(job) ==
    NonUsOverrides(job) \/ "excludes_us" \in Owned(job) \/ "us" \notin Owned(job)

------------------------------------------------------------------------------
(* evaluate_remote_policy                                                  *)

RealLocations(profile) == profile.target_locations \ {"remote"}
RemoteOnly(profile) == profile.remote_ok /\ RealLocations(profile) = {}

ExplicitlyRemote(job) ==
    /\ "rejects_remote" \notin job.description
    /\ job.remote \/ "remote" \in job.location \/ "remote_work" \in job.description

InTargetLocation(profile, job) == RealLocations(profile) \intersect job.description # {}

RemoteMismatch(profile, job) ==
    IF "office" \in Owned(job) THEN ~InTargetLocation(profile, job)
    ELSE RemoteOnly(profile) /\ ~ExplicitlyRemote(job)

------------------------------------------------------------------------------
(* The rules about the title                                               *)

ContractMismatch(title) == title.term
SeniorityMismatch(career, title) == career.senior /\ title.junior

FamilyMismatch(career, title) ==
    /\ "engineering" \in career.families
    /\ title.families # {} /\ title.families \subseteq NON_TECH_ROLE_FAMILIES

TitleRefused(career, title) ==
    \/ ContractMismatch(title) \/ SeniorityMismatch(career, title)
    \/ FamilyMismatch(career, title)

Least(a, b) == IF a < b THEN a ELSE b
Most(a, b) == IF a > b THEN a ELSE b

RejectionScore(threshold) == Most(0, Least(29, threshold - 1))

Capped(score, mismatch, threshold) ==
    IF mismatch /\ score >= threshold THEN RejectionScore(threshold) ELSE score

------------------------------------------------------------------------------
(* batch_match_packing, by the lengths of its texts                        *)

(* estimate_request_chars less the description; overhead of request, job   *)
(* and the other fields.                                                   *)
Estimate(fields, description) == fields + description

(* _truncate_to_budget: how long the description and its marker get. *)
Prefix(description, marker, budget) ==
    IF description <= budget THEN description
    ELSE Most(0, budget) - Least(marker, Most(0, budget))

Marker(description, marker, budget) ==
    IF description <= budget THEN 0 ELSE Least(marker, Most(0, budget))

(* _truncate_job_to_request_budget: -1 when it raises. *)
Packed(fields, description, marker, limit) ==
    IF fields > limit THEN -1
    ELSE Estimate(fields, Prefix(description, marker, limit - fields)
                          + Marker(description, marker, limit - fields))

------------------------------------------------------------------------------
(* A job with a US location is not refused as foreign for what its         *)
(* description says of other countries, unless it excludes US candidates.  *)
UsLocationStands ==
    \A job \in Job :
        "us" \in job.location /\ "non_us" \notin job.location /\ "excludes_us" \notin Owned(job)
            => ~UsMismatch(job)

(* Another target location never makes a profile lose a job.               *)
LocationsOnlyAdd ==
    \A job \in Job, profile \in Profile, more \in SUBSET {"place", "remote"} :
        RemoteMismatch([profile EXCEPT !.target_locations = @ \union more], job)
            => RemoteMismatch(profile, job)

(* An engineering title is refused for its contract or its level only.     *)
TechTitlesStand ==
    \A career \in Career, title \in Title :
        "engineering" \in title.families /\ TitleRefused(career, title)
            => title.term \/ (title.junior /\ career.senior)

(* What the rules refuse scores below the threshold, and so does what the  *)
(* cap catches afterwards, which never raises a score; with a threshold of *)
(* 0 there is no score below it, and both give 0.                          *)
ScoresLow(threshold, score) ==
    /\ RejectionScore(threshold) \in 0 .. Most(0, threshold - 1)
    /\ Capped(score, TRUE, threshold) <= score
    /\ Capped(score, TRUE, threshold) <= Most(0, threshold - 1)

RefusedScoresLow ==
    \A threshold \in 0 .. 100, score \in 0 .. 100 : ScoresLow(threshold, score)

(* A packed request keeps to the limit, using it up when it has to cut     *)
(* the description, and a description that fits is sent whole; only a job  *)
(* too large without its description is refused.                           *)
Fits(fields, description, marker, limit) ==
    LET size == Packed(fields, description, marker, limit) IN
    /\ size <= limit
    /\ size = -1 <=> fields > limit
    /\ fields + description <= limit => size = fields + description
    /\ fields <= limit /\ fields + description > limit => size = limit

PackedFits ==
    \A fields, description \in 0 .. 12, marker \in 0 .. 4, limit \in 0 .. 12 :
        Fits(fields, description, marker, limit)

RulesHold ==
    /\ UsLocationStands /\ LocationsOnlyAdd /\ TechTitlesStand
    /\ RefusedScoresLow /\ PackedFits
=============================================================================
