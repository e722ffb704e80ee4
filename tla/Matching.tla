------------------------------- MODULE Matching -------------------------------
(***************************************************************************)
(* Scoring of one application by the match job, against the other writers  *)
(* of the same row: the user's review, a re-match of the profile and the   *)
(* import of a provider batch that holds the application.                  *)
(*                                                                         *)
(* The match job runs on WorkQueue: its steps are steps of the queue       *)
(* together with what they do to the application.  No writer locks the row *)
(* between reading it and committing, and SQLAlchemy writes only the       *)
(* columns whose value differs from the one it read.                       *)
(***************************************************************************)
EXTENDS WorkQueue

CONSTANTS
    MatchKey,       \* match_dedupe_key(application_id)
    Mismatch,       \* profile versions for which deterministic_rejection_fields answers
    MaxClicks       \* bound: profile edits, reviews and re-matches

ASSUME MatchAssumption ==
    /\ Keys = {MatchKey}
    /\ TypeOf[MatchKey] \in Handled
    /\ Mismatch \subseteq Nat
    /\ MaxClicks \in Nat

VARIABLES
    app,        \* the application row
    profile,    \* version of the profile (and of the matching prompt)
    reviews,    \* PATCH requests between their read and their commit
    rescoring,  \* re-matches between their SELECT and their UPDATE
    scoring,    \* match handlers between their read and their commit
    building,   \* profile version a batch-match tick has loaded to build with, or 0
    batch,      \* profile version of its item in an active provider batch, or 0
    reading,    \* a batch-match tick is between its read and its commit
    clicks      \* user actions so far

matchVars == <<app, profile, reviews, rescoring, scoring, building, batch, reading, clicks>>
mtVars == <<queue, tasks, workers, applied, disturbed, faults,
            app, profile, reviews, rescoring, scoring, building, batch, reading, clicks>>

ApplicationStatus == {"pending_review", "auto_rejected", "dismissed", "applied"}
Reviewable == {"pending_review", "auto_rejected"}
Decisions == {"dismissed", "applied"}

(* A score is abstracted to the profile version it was computed with (0:   *)
(* match_score is NULL) and to whether it lies below the threshold.        *)
(* "wanted" is the profile version of the last re-match.  Three flags only *)
(* record history: a scorer is "late" once another one has committed since *)
(* it read, and a score is "mixed" when a late scorer wrote it; a re-match *)
(* is "beaten" once another one has committed since it selected; and the   *)
(* application is "raced" when its last re-match was beaten, or came while *)
(* a batch tick held an older reading of the profile or of the application.*)
Application == [status: ApplicationStatus, score: Nat, low: BOOLEAN, wanted: Nat,
                mixed: BOOLEAN, raced: BOOLEAN]
Review == [seen: ApplicationStatus, to: Decisions \union {"pending_review"}]
Rescore == [id: Nat, beaten: BOOLEAN]
Reading == [seen: ApplicationStatus, of: Nat, late: BOOLEAN]
Scoring == [row: Nat, attempt: Nat, seen: ApplicationStatus, of: Nat, late: BOOLEAN]

MatchingTypeOK ==
    /\ TypeOK
    /\ app \in Application
    /\ profile \in Nat
    /\ reviews \subseteq Review
    /\ rescoring \subseteq Rescore
    /\ scoring \subseteq Scoring
    /\ building \in Nat
    /\ batch \in Nat
    /\ reading \subseteq Reading
    /\ clicks \in Nat

ScoringOf(t) == {c \in scoring : c.row = t.row /\ c.attempt = t.attempt}
Ongoing ==
    {c \in scoring : \E t \in tasks' : t.row = c.row /\ t.attempt = c.attempt /\ t.pc = "run"}
Late(S) == {[c EXCEPT !.late = TRUE] : c \in S}
BatchAtWork == building # 0 \/ reading # {} \/ batch # 0

Click == clicks < MaxClicks /\ clicks' = clicks + 1

------------------------------------------------------------------------------
(* The user                                                                *)

EditProfile ==
    /\ Click
    /\ profile' = profile + 1
    /\ UNCHANGED <<app, reviews, rescoring, scoring, building, batch, reading, wqVars>>

(* PATCH /applications/{id} from any status, and mark-applied, which asks  *)
(* for "applied" only from pending_review.                                 *)
ReadForReview(to) ==
    /\ Click
    /\ reviews' = reviews \union {[seen |-> app.status, to |-> to]}
    /\ UNCHANGED <<app, profile, rescoring, scoring, building, batch, reading, wqVars>>

CommitReview(r) ==
    /\ reviews' = reviews \ {r}
    /\ app' = [app EXCEPT !.status = IF r.to = r.seen THEN @ ELSE r.to]
    /\ UNCHANGED <<profile, rescoring, scoring, building, batch, reading, clicks, wqVars>>

------------------------------------------------------------------------------
(* POST /profile/rematch: mark_for_rescore selects the eligible ids, then  *)
(* updates them by id and enqueues a match job in the same transaction.    *)
(* Nothing keeps two of them apart, and the UPDATE does not look again.    *)

Eligible == app.status \in Reviewable /\ app.score # 0

SelectForRescore ==
    /\ Click
    /\ Eligible
    /\ rescoring' = rescoring \union {[id |-> clicks, beaten |-> FALSE]}
    /\ UNCHANGED <<app, profile, reviews, scoring, building, batch, reading, wqVars>>

CommitRescore(r) ==
    /\ Enqueue(MatchKey, "do_nothing")
    /\ rescoring' = {[o EXCEPT !.beaten = TRUE] : o \in rescoring \ {r}}
    /\ app' = [status |-> "pending_review", score |-> 0, low |-> FALSE, wanted |-> profile,
                mixed |-> FALSE, raced |-> r.beaten \/ BatchAtWork]
    /\ UNCHANGED <<profile, reviews, scoring, building, batch, reading, clicks>>

------------------------------------------------------------------------------
(* MatchHandler.__call__                                                   *)

NewScoring(t) == [row |-> t.row, attempt |-> t.attempt, seen |-> app.status, of |-> 0,
                  late |-> FALSE]

BeginScored(t) ==
    /\ t.pc = "run"
    /\ ScoringOf(t) = {}
    /\ scoring' = scoring \union {NewScoring(t)}
    /\ UNCHANGED <<app, profile, reviews, rescoring, building, batch, reading, clicks, wqVars>>

(* The handler reads the application, which is not read again before the   *)
(* commit ...                                                              *)
BeginScoring(t) ==
    /\ t.pc = "run"
    /\ ScoringOf(t) = {}
    /\ app.score = 0
    /\ scoring' = scoring \union {NewScoring(t)}
    /\ UNCHANGED <<app, profile, reviews, rescoring, building, batch, reading, clicks, wqVars>>

(* ... and then the profile it scores with.                                *)
LoadProfile(t) ==
    /\ \E c \in ScoringOf(t) :
          /\ c.of = 0
          /\ scoring' = (scoring \ {c}) \union {[c EXCEPT !.of = profile]}
    /\ UNCHANGED <<app, profile, reviews, rescoring, building, batch, reading, clicks, wqVars>>

SkipReplay(t) ==
    /\ ScoringOf(t) = {}
    /\ app.score # 0
    /\ HandlerCommits(t, NoKey)
    /\ UNCHANGED matchVars

RejectedWhateverDecision(c, low) ==
    [app EXCEPT !.score = c.of, !.low = low, !.mixed = c.late,
                !.status = IF low THEN "auto_rejected" ELSE @]

RejectedOnRetryOnly(c, low) ==
    [app EXCEPT !.score = c.of, !.low = low, !.mixed = c.late,
                !.status = IF ~low /\ c.seen = "pending_review" THEN "auto_rejected" ELSE @]

(* The application after a score from the model, or from a deterministic   *)
(* mismatch, which is always below the threshold.                          *)
Scored(c, low) ==
    [app EXCEPT !.score = c.of, !.low = low, !.mixed = c.late,
                !.status = IF low /\ c.seen = "pending_review" THEN "auto_rejected" ELSE @]

StoreScore(t, low) ==
    \E c \in ScoringOf(t) :
        /\ c.of # 0
        /\ c.of \in Mismatch => low
        /\ HandlerCommits(t, NoKey)
        /\ app' = Scored(c, low)
        /\ scoring' = Late(Ongoing)
        /\ reading' = Late(reading)
        /\ UNCHANGED <<profile, reviews, rescoring, building, batch, clicks>>

(* HTTP 429, or an answer without a score.                                 *)
ScoreLater(t) ==
    /\ \E c \in ScoringOf(t) : c.of \notin Mismatch \union {0}
    /\ HandlerRaisesTransient(t)
    /\ scoring' = Ongoing
    /\ UNCHANGED <<app, profile, reviews, rescoring, building, batch, reading, clicks>>

(* Any other error, of the model or of the database.  The hook only logs.  *)
ScoringFails(t) ==
    /\ HandlerRaises(t)
    /\ scoring' = Ongoing
    /\ UNCHANGED <<app, profile, reviews, rescoring, building, batch, reading, clicks>>

------------------------------------------------------------------------------
(* run_batch_match_tick, as far as it concerns one application.            *)

(* _build_and_submit loads the profile, and in a later statement selects   *)
(* an unscored, reviewable application that is in no active batch.         *)
BatchLoads ==
    /\ ~BatchAtWork
    /\ building' = profile
    /\ UNCHANGED <<app, profile, reviews, rescoring, scoring, batch, reading, clicks, wqVars>>

BatchSelects ==
    /\ building # 0
    /\ app.score = 0
    /\ app.status \in Reviewable
    /\ reading' = {[seen |-> app.status, of |-> building, late |-> FALSE]}
    /\ building' = 0
    /\ UNCHANGED <<app, profile, reviews, rescoring, scoring, batch, clicks, wqVars>>

(* It then rejects the application deterministically, or commits it as an  *)
(* item with the profile text it loaded, or drops it (BatchFails).         *)
BatchRejects ==
    /\ batch = 0
    /\ \E c \in reading : c.of \in Mismatch /\ app' = Scored(c, TRUE)
    /\ reading' = {}
    /\ scoring' = Late(scoring)
    /\ UNCHANGED <<profile, reviews, rescoring, building, batch, clicks, wqVars>>

BatchSubmits ==
    /\ batch = 0
    /\ \E c \in reading : c.of \notin Mismatch /\ batch' = c.of
    /\ reading' = {}
    /\ UNCHANGED <<app, profile, reviews, rescoring, scoring, building, clicks, wqVars>>

(* _import_result_for_item writes only an application it read without a    *)
(* score; the items of a batch are committed together.                     *)
BatchReads ==
    /\ batch # 0
    /\ reading = {}
    /\ IF app.score = 0
       THEN reading' = {[seen |-> app.status, of |-> batch, late |-> FALSE]} /\ UNCHANGED batch
       ELSE batch' = 0 /\ UNCHANGED reading
    /\ UNCHANGED <<app, profile, reviews, rescoring, scoring, building, clicks, wqVars>>

BatchImports(low) ==
    /\ batch # 0
    /\ \E c \in reading : app' = Scored(c, low)
    /\ batch' = 0
    /\ reading' = {}
    /\ scoring' = Late(scoring)
    /\ UNCHANGED <<profile, reviews, rescoring, building, clicks, wqVars>>

(* The tick finds nothing to build with or breaks off, and the batch is    *)
(* polled again or has failed; or the answer for the item is rejected.     *)
BatchFails ==
    /\ BatchAtWork
    /\ batch' \in {batch, 0}
    /\ building' = 0
    /\ reading' = {}
    /\ UNCHANGED <<app, profile, reviews, rescoring, scoring, clicks, wqVars>>

------------------------------------------------------------------------------
Aside ==
    /\ scoring' = Ongoing
    /\ UNCHANGED <<app, profile, reviews, rescoring, building, batch, reading, clicks>>

QueueStep ==
    /\ \/ \E w \in Workers, lane \in Lanes : Claim(w, lane)
       \/ \E t \in tasks : Finalize(t) \/ DatabaseError(t)
       \/ \E i \in DOMAIN queue : NotBeforePasses(i) \/ LeaseExpires(i)
       \/ \E w \in Workers : Start(w) \/ Shutdown(w) \/ Exit(w) \/ Crash(w)
    /\ Aside

(* The application has just been created, which enqueues no match job, or  *)
(* has been scored before.                                                 *)
InitialApplication(status, score, low) ==
    [status |-> status, score |-> score, low |-> low, wanted |-> 0, mixed |-> FALSE,
     raced |-> FALSE]

MatchingInit ==
    /\ Init
    /\ app \in {InitialApplication("pending_review", 0, FALSE),
                InitialApplication("pending_review", 1, FALSE),
                InitialApplication("auto_rejected", 1, TRUE)}
    /\ profile = 1
    /\ reviews = {}
    /\ rescoring = {}
    /\ scoring = {}
    /\ building = 0
    /\ batch = 0
    /\ reading = {}
    /\ clicks = 0

MatchingNext ==
    \/ EditProfile
    \/ \E to \in Decisions \union {"pending_review"} : ReadForReview(to)
    \/ \E r \in reviews : CommitReview(r)
    \/ SelectForRescore
    \/ \E r \in rescoring : CommitRescore(r)
    \/ \E t \in tasks : \/ BeginScoring(t) \/ LoadProfile(t) \/ SkipReplay(t)
                        \/ \E low \in BOOLEAN : StoreScore(t, low)
                        \/ ScoreLater(t) \/ ScoringFails(t)
    \/ BatchLoads \/ BatchSelects \/ BatchRejects \/ BatchSubmits \/ BatchReads
    \/ \E low \in BOOLEAN : BatchImports(low)
    \/ BatchFails
    \/ QueueStep

MatchingSpec == MatchingInit /\ [][MatchingNext]_mtVars

------------------------------------------------------------------------------
(* Properties                                                              *)

(* An application is shown as rejected for its score only if it has a      *)
(* score and that score is below the threshold.  The one exception is a    *)
(* score written by a scorer that another one overtook: it does not lift   *)
(* the rejection of the score it replaces.                                 *)
RejectionMatchesScore ==
    app.status = "auto_rejected" => app.score # 0 /\ (app.low \/ app.mixed)

(* The score that is shown was computed with a profile at least as new as  *)
(* the last re-match: neither the dedupe of the re-match's job, nor a row  *)
(* claimed twice, nor a replayed execution brings an old score back.  What *)
(* does is a scorer that another one overtook, a re-match that another one *)
(* overtook, and a batch tick that had loaded the profile or the item      *)
(* before the re-match committed.                                          *)
ScoreIsCurrent ==
    app.score # 0 /\ app.score < app.wanted => app.mixed \/ app.raced

(* The scorers whose handler ended in a step.                              *)
Ended == {c \in scoring : \A d \in scoring' : d.row # c.row \/ d.attempt # c.attempt}

(* A user's decision is overridden only by a later review, by a scorer     *)
(* that read the application before the decision, or by a re-match that    *)
(* selected it before the decision.  A scorer that starts after it never   *)
(* overrides it.                                                           *)
DecisionStandsUnlessReadBefore ==
    [][app.status \in Decisions /\ app'.status # app.status
         => \/ reviews' # reviews
            \/ \E c \in Ended : c.seen = "pending_review"
            \/ reading' = {} /\ \E c \in reading : c.seen = "pending_review"
            \/ rescoring' # rescoring]_mtVars

(* tests/unit/test_match_handler.py: the match handler preserves a user's  *)
(* decision on a below-threshold score.                                    *)
DecisionSurvivesScoring ==
    [][app.status \in Decisions /\ Ended # {} => app'.status = app.status]_mtVars
==============================================================================
