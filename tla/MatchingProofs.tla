---------------------------- MODULE MatchingProofs ----------------------------
(***************************************************************************)
(* Scoring keeps the promises of the queue it runs on, and the score of an *)
(* application answers its last re-match and agrees with its status unless *)
(* a scorer or a re-match was overtaken, for every number of workers, rows,*)
(* retries, concurrent re-matches and user actions.                        *)
(***************************************************************************)
EXTENDS Matching, WorkQueueLeaseProofs

(* Every step of the composition is a step of the queue, or leaves the     *)
(* queue alone.                                                            *)
LEMMA MatchingStep == [MatchingNext]_mtVars => [Next]_wqVars
<1> SUFFICES ASSUME [MatchingNext]_mtVars
             PROVE  [Next]_wqVars
  OBVIOUS
<1>1. CASE UNCHANGED mtVars
  BY <1>1 DEF mtVars, wqVars
<1>2. CASE \/ EditProfile
           \/ \E to \in Decisions \union {"pending_review"} : ReadForReview(to)
           \/ \E r \in reviews : CommitReview(r)
           \/ SelectForRescore
  BY <1>2 DEF EditProfile, ReadForReview, CommitReview, SelectForRescore, wqVars
<1>3. ASSUME NEW r \in rescoring, CommitRescore(r)
      PROVE  [Next]_wqVars
  <2>1. Enqueue(MatchKey, "do_nothing") /\ MatchKey \in Keys
    BY <1>3, MatchAssumption DEF CommitRescore
  <2>2. QED
    BY <2>1 DEF Next
<1>4. ASSUME NEW t \in tasks, BeginScoring(t) \/ LoadProfile(t)
      PROVE  [Next]_wqVars
  BY <1>4 DEF BeginScoring, LoadProfile, wqVars
<1>5. ASSUME NEW t \in tasks,
             SkipReplay(t) \/ (\E low \in BOOLEAN : StoreScore(t, low))
                \/ ScoreLater(t) \/ ScoringFails(t)
      PROVE  [Next]_wqVars
  <2>1. HandlerCommits(t, NoKey) \/ HandlerRaisesTransient(t) \/ HandlerRaises(t)
    BY <1>5 DEF SkipReplay, StoreScore, ScoreLater, ScoringFails
  <2>2. Handler(t)
    BY <2>1 DEF Handler
  <2>3. QED
    BY <2>2 DEF Next
<1>6. CASE BatchLoads \/ BatchSelects \/ BatchRejects \/ BatchSubmits \/ BatchReads
              \/ (\E low \in BOOLEAN : BatchImports(low)) \/ BatchFails
  BY <1>6 DEF BatchLoads, BatchSelects, BatchRejects, BatchSubmits, BatchReads, BatchImports, BatchFails,
     wqVars
<1>7. CASE QueueStep
  BY <1>7 DEF QueueStep, Next
<1>8. QED
  BY <1>1, <1>2, <1>3, <1>4, <1>5, <1>6, <1>7 DEF MatchingNext

(* Matching implements the work queue, so the theorems about Spec hold     *)
(* while applications are scored, reviewed and re-matched.                 *)
THEOREM MatchingUsesQueue == MatchingSpec => Spec
<1>1. MatchingInit => Init
  BY DEF MatchingInit
<1>2. QED
  BY <1>1, MatchingStep, PTL DEF MatchingSpec, Spec

Queue == Base /\ Execution

LEMMA QueueInvariant == MatchingSpec => []Queue
<1>1. Base /\ Execution => Queue
  BY DEF Queue
<1>2. QED
  BY <1>1, MatchingUsesQueue, BaseInvariant, ExecutionInvariant, PTL

------------------------------------------------------------------------------
(* The inductive invariant.                                                *)

(* Version 0 stands for no score and for a profile not yet loaded.         *)
VersionsPositive ==
  /\ profile # 0 /\ app.wanted <= profile
  /\ \A c \in reading : c.of # 0

(* An application rejected for its score has one.                          *)
RejectedScored == app.status = "auto_rejected" => app.score # 0

(* A scorer that nobody overtook still has what it read: no score.  A      *)
(* re-match that nobody overtook still finds the score it selected.        *)
UndisturbedScorers == \A c \in scoring \union reading : ~c.late => app.score = 0
UndisturbedRescores == \A r \in rescoring : ~r.beaten => app.score # 0

(* Unless the last re-match was raced, whoever may still score the         *)
(* application undisturbed does so with a profile that is new enough.      *)
VersionsCurrent ==
  ~app.raced =>
     /\ \A c \in scoring : c.of = 0 \/ c.late \/ app.wanted <= c.of
     /\ \A c \in reading : app.wanted <= c.of
     /\ building = 0 \/ app.wanted <= building
     /\ batch = 0 \/ app.wanted <= batch

Scores ==
  /\ MatchingTypeOK
  /\ VersionsPositive
  /\ RejectedScored
  /\ UndisturbedScorers
  /\ UndisturbedRescores
  /\ VersionsCurrent
  /\ RejectionMatchesScore
  /\ ScoreIsCurrent

(* The types of the parts, one by one.                                     *)
LEMMA MatchingTypes ==
  ASSUME Scores
  PROVE  /\ profile \in Nat /\ app \in Application /\ reviews \subseteq Review
         /\ rescoring \subseteq Rescore /\ scoring \subseteq Scoring /\ building \in Nat
         /\ batch \in Nat /\ reading \subseteq Reading /\ clicks \in Nat
BY DEF Scores, MatchingTypeOK

(* Late scorers are well typed, and no scorer among them is undisturbed.   *)
LEMMA LateScorers ==
  ASSUME NEW S
  PROVE  /\ S \subseteq Scoring => Late(S) \subseteq Scoring /\ \A c \in Late(S) : c.late
         /\ S \subseteq Reading => Late(S) \subseteq Reading /\ \A c \in Late(S) : c.late
<1>1. ASSUME S \subseteq Scoring, NEW c \in Late(S)
      PROVE  c \in Scoring /\ c.late
  BY <1>1 DEF Late, Scoring
<1>2. ASSUME S \subseteq Reading, NEW c \in Late(S)
      PROVE  c \in Reading /\ c.late
  BY <1>2 DEF Late, Reading
<1>3. QED
  BY <1>1, <1>2

(* The versions of scorers are not touched when they become late.          *)
LEMMA LateVersions ==
  ASSUME NEW S, S \subseteq Reading, NEW d \in Late(S)
  PROVE  \E c \in S : d.of = c.of
BY DEF Late, Reading

(* A step that at most ends scorers, and leaves the application alone.     *)
LEMMA QuietScores ==
  ASSUME Queue', Scores, UNCHANGED app,
         profile' \in {profile, profile + 1}, reviews' \subseteq Review, clicks' \in Nat,
         rescoring' \subseteq Rescore, \A r \in rescoring' : ~r.beaten => app.score # 0,
         scoring' \subseteq scoring, building' \in {building, 0}, batch' \in {batch, 0},
         reading' \subseteq reading
  PROVE  Scores'
<1>1. /\ profile \in Nat /\ app \in Application /\ scoring \subseteq Scoring /\ building \in Nat
      /\ reading \subseteq Reading /\ batch \in Nat
  BY MatchingTypes
<1> USE DEF Scores
<1>2. MatchingTypeOK'
  BY <1>1 DEF MatchingTypeOK, Queue, Base
<1>3. VersionsPositive' /\ RejectedScored'
  BY <1>1 DEF VersionsPositive, RejectedScored, Application
<1>4. UndisturbedScorers' /\ UndisturbedRescores'
  BY <1>1 DEF UndisturbedScorers, UndisturbedRescores
<1>5. VersionsCurrent'
  BY <1>1 DEF VersionsCurrent
<1>6. RejectionMatchesScore' /\ ScoreIsCurrent'
  BY DEF RejectionMatchesScore, ScoreIsCurrent
<1>7. QED
  BY <1>2, <1>3, <1>4, <1>5, <1>6

(* A scorer writes its score and is done; everybody else is late.          *)
LEMMA ScoredScores ==
  ASSUME Queue', Scores, NEW c \in scoring \union reading, c.of # 0, NEW low \in BOOLEAN,
         app' = Scored(c, low), UNCHANGED <<profile, reviews, rescoring, building, clicks>>,
         NEW S \in SUBSET scoring, scoring' = Late(S), batch' \in {batch, 0},
         reading' \in {{}, Late(reading)}
  PROVE  Scores'
<1>1. /\ profile \in Nat /\ app \in Application /\ scoring \subseteq Scoring /\ building \in Nat
      /\ reading \subseteq Reading /\ batch \in Nat /\ c.of \in Nat /\ c.late \in BOOLEAN
  BY MatchingTypes DEF Scoring, Reading
<1> USE DEF Scores
<1>2. /\ app' \in Application /\ app'.score = c.of /\ app'.low = low /\ app'.mixed = c.late
      /\ app'.wanted = app.wanted /\ app'.raced = app.raced
      /\ app'.status = app.status \/ (app'.status = "auto_rejected" /\ low)
  BY <1>1 DEF Scored, Application, ApplicationStatus
<1>3. /\ scoring' \subseteq Scoring /\ reading' \subseteq Reading
      /\ \A d \in scoring' \union reading' : d.late
      /\ \A d \in reading' : \E e \in reading : d.of = e.of
  BY <1>1, LateScorers, LateVersions
<1>4. MatchingTypeOK'
  BY <1>1, <1>2, <1>3 DEF MatchingTypeOK, Queue, Base
<1>5. VersionsPositive' /\ RejectedScored'
  BY <1>1, <1>2, <1>3 DEF VersionsPositive, RejectedScored
<1>6. UndisturbedScorers' /\ UndisturbedRescores'
  BY <1>2, <1>3 DEF UndisturbedScorers, UndisturbedRescores
<1>7. VersionsCurrent'
  BY <1>1, <1>2, <1>3 DEF VersionsCurrent
<1>8. RejectionMatchesScore'
  BY <1>2 DEF RejectionMatchesScore, RejectedScored, UndisturbedScorers
<1>9. ScoreIsCurrent'
  BY <1>1, <1>2 DEF ScoreIsCurrent, VersionsCurrent, Application
<1>10. QED
  BY <1>4, <1>5, <1>6, <1>7, <1>8, <1>9

------------------------------------------------------------------------------
(* The steps.                                                              *)

(* A task that leaves its handler takes its scorer with it.                *)
LEMMA ScorerLeft ==
  ASSUME Queue, NEW t \in tasks, NEW u, u.pc # "run",
         tasks' = (tasks \ {t}) \union {u}
  PROVE  /\ Ongoing \subseteq scoring
         /\ \A c \in ScoringOf(t), d \in Ongoing : d.row # c.row \/ d.attempt # c.attempt
BY DEF ScoringOf, Ongoing, Queue, Execution, AttemptsIdentify

LEMMA UserScores ==
  ASSUME Queue, Queue', Scores,
         \/ EditProfile
         \/ \E to \in Decisions \union {"pending_review"} : ReadForReview(to)
         \/ \E r \in reviews : CommitReview(r)
         \/ SelectForRescore
  PROVE  Scores'
<1>1. /\ profile \in Nat /\ app \in Application /\ reviews \subseteq Review
      /\ rescoring \subseteq Rescore /\ scoring \subseteq Scoring /\ building \in Nat
      /\ batch \in Nat /\ reading \subseteq Reading /\ clicks \in Nat
      /\ \A r \in rescoring : ~r.beaten => app.score # 0
  BY MatchingTypes DEF Scores, UndisturbedRescores
<1>2. CASE EditProfile
  BY <1>1, <1>2, QuietScores DEF EditProfile, Click
<1>3. CASE SelectForRescore
  <2> DEFINE o == [id |-> clicks, beaten |-> FALSE]
  <2>1. o \in Rescore /\ rescoring' = rescoring \union {o} /\ app.score # 0
    BY <1>1, <1>3 DEF SelectForRescore, Eligible, Rescore
  <2>2. /\ UNCHANGED <<app, profile, reviews, scoring, building, batch, reading>>
        /\ clicks' \in Nat
    BY <1>1, <1>3 DEF SelectForRescore, Click
  <2> HIDE DEF o
  <2>3. QED
    BY <1>1, <2>1, <2>2, QuietScores
<1>4. ASSUME NEW to \in Decisions \union {"pending_review"}, ReadForReview(to)
      PROVE  Scores'
  <2>1. [seen |-> app.status, to |-> to] \in Review
    BY <1>1 DEF Review, Application
  <2>2. reviews' \subseteq Review /\ clicks' \in Nat
    BY <1>1, <1>4, <2>1 DEF ReadForReview, Click
  <2>3. QED
    BY <1>1, <1>4, <2>2, QuietScores DEF ReadForReview
<1>5. ASSUME NEW r \in reviews, CommitReview(r)
      PROVE  Scores'
  <2> USE DEF Scores
  <2>1. /\ app' \in Application /\ app'.score = app.score /\ app'.low = app.low
        /\ app'.wanted = app.wanted /\ app'.mixed = app.mixed /\ app'.raced = app.raced
        /\ app'.status = app.status \/ app'.status # "auto_rejected"
    BY <1>1, <1>5 DEF CommitReview, Review, Application, ApplicationStatus, Decisions
  <2>2. /\ reviews' \subseteq Review
        /\ UNCHANGED <<profile, rescoring, scoring, building, batch, reading, clicks>>
    BY <1>1, <1>5 DEF CommitReview
  <2>3. MatchingTypeOK'
    BY <1>1, <2>1, <2>2 DEF MatchingTypeOK, Queue, Base
  <2>4. VersionsPositive' /\ RejectedScored' /\ VersionsCurrent'
    BY <2>1, <2>2 DEF VersionsPositive, RejectedScored, VersionsCurrent
  <2>5. UndisturbedScorers' /\ UndisturbedRescores'
    BY <2>1, <2>2 DEF UndisturbedScorers, UndisturbedRescores
  <2>6. RejectionMatchesScore' /\ ScoreIsCurrent'
    BY <2>1 DEF RejectionMatchesScore, ScoreIsCurrent
  <2>7. QED
    BY <2>3, <2>4, <2>5, <2>6
<1>6. QED
  BY <1>2, <1>3, <1>4, <1>5

(* A re-match clears the score.  If nobody overtook it there was one, so   *)
(* every scorer is late; the re-matches it overtakes are beaten.           *)
LEMMA RescoreScores ==
  ASSUME Queue', Scores, NEW r \in rescoring, CommitRescore(r)
  PROVE  Scores'
<1>1. /\ profile \in Nat /\ scoring \subseteq Scoring /\ rescoring \subseteq Rescore
      /\ r.beaten \in BOOLEAN /\ reading \subseteq Reading
  BY MatchingTypes DEF Rescore
<1> USE DEF Scores
<1>2. /\ app' \in Application /\ app'.score = 0 /\ app'.wanted = profile
      /\ app'.status = "pending_review" /\ app'.raced = (r.beaten \/ BatchAtWork)
  BY <1>1 DEF CommitRescore, Application, ApplicationStatus, BatchAtWork
<1>3. UNCHANGED <<profile, reviews, scoring, building, batch, reading, clicks>>
  BY DEF CommitRescore
<1>4. rescoring' \subseteq Rescore /\ \A o \in rescoring' : o.beaten
  BY <1>1 DEF CommitRescore, Rescore
<1>5. ~app'.raced => /\ \A c \in scoring : c.late
                     /\ building = 0 /\ batch = 0 /\ reading = {}
  BY <1>1, <1>2 DEF UndisturbedRescores, UndisturbedScorers, BatchAtWork
<1>6. MatchingTypeOK'
  BY <1>2, <1>3, <1>4 DEF MatchingTypeOK, Queue, Base
<1>7. VersionsPositive' /\ RejectedScored'
  BY <1>1, <1>2, <1>3 DEF VersionsPositive, RejectedScored
<1>8. UndisturbedScorers' /\ UndisturbedRescores'
  BY <1>2, <1>4 DEF UndisturbedScorers, UndisturbedRescores
<1>9. VersionsCurrent'
  BY <1>3, <1>5 DEF VersionsCurrent
<1>10. RejectionMatchesScore' /\ ScoreIsCurrent'
  BY <1>2 DEF RejectionMatchesScore, ScoreIsCurrent
<1>11. QED
  BY <1>6, <1>7, <1>8, <1>9, <1>10

LEMMA HandlerScores ==
  ASSUME Queue, Queue', Scores, NEW t \in tasks,
         \/ BeginScoring(t) \/ LoadProfile(t) \/ SkipReplay(t)
         \/ \E low \in BOOLEAN : StoreScore(t, low)
         \/ ScoreLater(t) \/ ScoringFails(t)
  PROVE  Scores'
<1>1. /\ profile \in Nat /\ app \in Application /\ reviews \subseteq Review
      /\ rescoring \subseteq Rescore /\ scoring \subseteq Scoring /\ building \in Nat
      /\ batch \in Nat /\ reading \subseteq Reading /\ clicks \in Nat
      /\ \A r \in rescoring : ~r.beaten => app.score # 0
      /\ t \in Task /\ t.row \in Nat /\ t.attempt \in Nat
  BY TaskTyped, MatchingTypes DEF Scores, UndisturbedRescores, Queue
<1> USE DEF Scores
<1>2. CASE BeginScoring(t)
  <2>1. /\ NewScoring(t) \in Scoring /\ NewScoring(t).of = 0 /\ ~NewScoring(t).late
        /\ app.score = 0
    BY <1>1, <1>2 DEF NewScoring, Scoring, Application, BeginScoring
  <2>2. /\ UNCHANGED <<app, profile, reviews, rescoring, building, batch, reading, clicks>>
        /\ scoring' = scoring \union {NewScoring(t)}
    BY <1>2 DEF BeginScoring
  <2>3. MatchingTypeOK'
    BY <2>1, <2>2 DEF MatchingTypeOK, Queue, Base
  <2>4. VersionsPositive' /\ RejectedScored' /\ RejectionMatchesScore' /\ ScoreIsCurrent'
    BY <2>2 DEF VersionsPositive, RejectedScored, RejectionMatchesScore, ScoreIsCurrent
  <2>5. UndisturbedScorers' /\ UndisturbedRescores' /\ VersionsCurrent'
    BY <2>1, <2>2 DEF UndisturbedScorers, UndisturbedRescores, VersionsCurrent
  <2>6. QED
    BY <2>3, <2>4, <2>5
<1>3. CASE LoadProfile(t)
  <2>1. PICK c \in scoring : scoring' = (scoring \ {c}) \union {[c EXCEPT !.of = profile]}
    BY <1>3 DEF LoadProfile, ScoringOf
  <2> DEFINE d == [c EXCEPT !.of = profile]
  <2>2. d \in Scoring /\ d.of = profile /\ d.late = c.late
    BY <1>1 DEF Scoring
  <2>3. /\ UNCHANGED <<app, profile, reviews, rescoring, building, batch, reading, clicks>>
        /\ scoring' = (scoring \ {c}) \union {d}
    BY <1>3, <2>1 DEF LoadProfile
  <2> HIDE DEF d
  <2>4. MatchingTypeOK'
    BY <2>2, <2>3 DEF MatchingTypeOK, Queue, Base
  <2>5. VersionsPositive' /\ RejectedScored' /\ RejectionMatchesScore' /\ ScoreIsCurrent'
    BY <2>3 DEF VersionsPositive, RejectedScored, RejectionMatchesScore, ScoreIsCurrent
  <2>6. UndisturbedScorers' /\ UndisturbedRescores' /\ VersionsCurrent'
    BY <2>2, <2>3 DEF UndisturbedScorers, UndisturbedRescores, VersionsCurrent,
       VersionsPositive
  <2>7. QED
    BY <2>4, <2>5, <2>6
<1>4. CASE SkipReplay(t) \/ ScoreLater(t) \/ ScoringFails(t)
  <2>1. scoring' \subseteq scoring
    BY <1>4 DEF SkipReplay, ScoreLater, ScoringFails, matchVars, Ongoing
  <2>2. UNCHANGED <<app, profile, reviews, rescoring, building, batch, reading, clicks>>
    BY <1>4 DEF SkipReplay, ScoreLater, ScoringFails, matchVars
  <2>3. QED
    BY <1>1, <2>1, <2>2, QuietScores
<1>5. ASSUME NEW low \in BOOLEAN, StoreScore(t, low)
      PROVE  Scores'
  <2>1. PICK c \in ScoringOf(t) : app' = Scored(c, low) /\ c.of # 0
    BY <1>5 DEF StoreScore
  <2>2. /\ c \in scoring /\ Ongoing \in SUBSET scoring /\ scoring' = Late(Ongoing)
        /\ reading' = Late(reading)
        /\ UNCHANGED <<profile, reviews, rescoring, building, batch, clicks>>
    BY <1>5, <2>1 DEF StoreScore, ScoringOf, Ongoing
  <2>3. QED
    BY <1>1, <2>1, <2>2, ScoredScores
<1>6. QED
  BY <1>2, <1>3, <1>4, <1>5

LEMMA BatchScores ==
  ASSUME Queue, Queue', Scores,
         \/ BatchLoads \/ BatchSelects \/ BatchRejects \/ BatchSubmits \/ BatchReads
         \/ \E low \in BOOLEAN : BatchImports(low)
         \/ BatchFails
  PROVE  Scores'
<1>1. /\ profile \in Nat /\ app \in Application /\ reviews \subseteq Review
      /\ rescoring \subseteq Rescore /\ scoring \subseteq Scoring /\ building \in Nat
      /\ batch \in Nat /\ reading \subseteq Reading /\ clicks \in Nat
      /\ \A r \in rescoring : ~r.beaten => app.score # 0
  BY MatchingTypes DEF Scores, UndisturbedRescores
<1> USE DEF Scores
<1>2. CASE BatchLoads \/ BatchSelects \/ BatchSubmits
  <2>1. UNCHANGED <<app, profile, reviews, rescoring, scoring, clicks>>
    BY <1>2 DEF BatchLoads, BatchSelects, BatchSubmits
  <2>2. /\ reading' \subseteq Reading /\ building' \in Nat /\ batch' \in Nat
        /\ \A c \in reading' : c.of # 0 /\ app.score = 0
        /\ ~app.raced => /\ \A c \in reading' : app.wanted <= c.of
                         /\ building' = 0 \/ app.wanted <= building'
                         /\ batch' = 0 \/ app.wanted <= batch'
    <3>1. CASE BatchLoads
      BY <1>1, <3>1 DEF BatchLoads, BatchAtWork, VersionsPositive, VersionsCurrent
    <3>2. CASE BatchSelects
      <4> DEFINE c == [seen |-> app.status, of |-> building, late |-> FALSE]
      <4>1. c \in Reading /\ c.of = building
        BY <1>1 DEF Reading, Application
      <4>2. /\ reading' = {c} /\ building' = 0 /\ building # 0 /\ batch' = batch
            /\ app.score = 0
        BY <3>2 DEF BatchSelects
      <4> HIDE DEF c
      <4>3. QED
        BY <1>1, <4>1, <4>2 DEF VersionsCurrent
    <3>3. CASE BatchSubmits
      <4>1. PICK c \in reading : batch' = c.of
        BY <3>3 DEF BatchSubmits
      <4>2. reading' = {} /\ building' = building
        BY <3>3 DEF BatchSubmits
      <4>3. QED
        BY <1>1, <4>1, <4>2 DEF VersionsCurrent, Reading
    <3>4. QED
      BY <1>2, <3>1, <3>2, <3>3
  <2>3. MatchingTypeOK'
    BY <1>1, <2>1, <2>2 DEF MatchingTypeOK, Queue, Base
  <2>4. /\ VersionsPositive' /\ RejectedScored' /\ UndisturbedRescores'
        /\ RejectionMatchesScore' /\ ScoreIsCurrent'
    BY <2>1, <2>2 DEF VersionsPositive, RejectedScored, UndisturbedRescores,
       RejectionMatchesScore, ScoreIsCurrent
  <2>5. UndisturbedScorers' /\ VersionsCurrent'
    BY <2>1, <2>2 DEF UndisturbedScorers, VersionsCurrent
  <2>6. QED
    BY <2>3, <2>4, <2>5
<1>3. CASE BatchRejects \/ \E low \in BOOLEAN : BatchImports(low)
  <2>1. PICK c \in reading, low \in BOOLEAN : app' = Scored(c, low)
    BY <1>3 DEF BatchRejects, BatchImports
  <2>2. /\ batch' \in {batch, 0} /\ reading' = {} /\ scoring' = Late(scoring) /\ c.of # 0
        /\ UNCHANGED <<profile, reviews, rescoring, building, clicks>>
    BY <1>3 DEF BatchRejects, BatchImports, VersionsPositive
  <2>3. QED
    BY <2>1, <2>2, ScoredScores
<1>4. CASE BatchReads
  <2>1. UNCHANGED <<app, profile, reviews, rescoring, scoring, building, clicks>>
    BY <1>4 DEF BatchReads
  <2>2. CASE app.score = 0
    <3> DEFINE c == [seen |-> app.status, of |-> batch, late |-> FALSE]
    <3>1. c \in Reading /\ c.of = batch /\ c.of # 0
      BY <1>1, <1>4 DEF BatchReads, Reading, Application
    <3>2. reading' = {c} /\ UNCHANGED batch
      BY <1>4, <2>2 DEF BatchReads
    <3> HIDE DEF c
    <3>3. MatchingTypeOK'
      BY <2>1, <3>1, <3>2 DEF MatchingTypeOK, Queue, Base
    <3>4. VersionsPositive' /\ RejectedScored' /\ RejectionMatchesScore' /\ ScoreIsCurrent'
      BY <2>1, <3>1, <3>2 DEF VersionsPositive, RejectedScored, RejectionMatchesScore,
         ScoreIsCurrent
    <3>5. UndisturbedScorers' /\ UndisturbedRescores' /\ VersionsCurrent'
      BY <2>1, <2>2, <3>1, <3>2 DEF UndisturbedScorers, UndisturbedRescores, VersionsCurrent
    <3>6. QED
      BY <3>3, <3>4, <3>5
  <2>3. CASE app.score # 0
    BY <1>1, <1>4, <2>1, <2>3, QuietScores DEF BatchReads
  <2>4. QED
    BY <2>2, <2>3
<1>5. CASE BatchFails
  BY <1>1, <1>5, QuietScores DEF BatchFails
<1>6. QED
  BY <1>2, <1>3, <1>4, <1>5

------------------------------------------------------------------------------
(* The theorems.                                                           *)

LEMMA ScoresStep ==
  ASSUME Queue, Queue', Scores, [MatchingNext]_mtVars
  PROVE  Scores'
<1>1. /\ reviews \subseteq Review /\ clicks \in Nat /\ rescoring \subseteq Rescore
      /\ \A r \in rescoring : ~r.beaten => app.score # 0
  BY MatchingTypes DEF Scores, UndisturbedRescores
<1>2. CASE UNCHANGED mtVars
  BY <1>1, <1>2, QuietScores DEF mtVars
<1>3. CASE QueueStep
  <2>1. /\ scoring' \subseteq scoring
        /\ UNCHANGED <<app, profile, reviews, rescoring, building, batch, reading, clicks>>
    BY <1>3 DEF QueueStep, Aside, Ongoing
  <2>2. QED
    BY <1>1, <2>1, QuietScores
<1>4. QED
  BY <1>2, <1>3, UserScores, RescoreScores, HandlerScores, BatchScores DEF MatchingNext

LEMMA ScoresInvariant == MatchingSpec => []Scores
<1>1. ASSUME MatchingInit, Queue
      PROVE  Scores
  <2>1. PICK s \in ApplicationStatus, n \in {0, 1}, b \in BOOLEAN :
           app = InitialApplication(s, n, b) /\ (s = "auto_rejected" => n = 1 /\ b = TRUE)
    <3>1. /\ "pending_review" \in ApplicationStatus /\ "auto_rejected" \in ApplicationStatus
          /\ "pending_review" # "auto_rejected"
      BY DEF ApplicationStatus
    <3>2. QED
      BY <1>1, <3>1, Zenon DEF MatchingInit
  <2>2. /\ app \in Application /\ app.wanted = 0 /\ app.status = s /\ app.score = n /\ app.low = b
    BY <2>1 DEF InitialApplication, Application
  <2>3. /\ profile = 1 /\ reviews = {} /\ rescoring = {} /\ scoring = {} /\ building = 0
        /\ batch = 0 /\ reading = {} /\ clicks = 0
    BY <1>1 DEF MatchingInit
  <2>4. MatchingTypeOK
    BY <1>1, <2>2, <2>3 DEF MatchingTypeOK, Queue, Base
  <2>5. VersionsPositive /\ UndisturbedScorers /\ UndisturbedRescores /\ VersionsCurrent
    BY <2>2, <2>3 DEF VersionsPositive, UndisturbedScorers, UndisturbedRescores, VersionsCurrent
  <2>6. RejectedScored /\ RejectionMatchesScore /\ ScoreIsCurrent
    BY <2>1, <2>2 DEF RejectedScored, RejectionMatchesScore, ScoreIsCurrent
  <2>7. QED
    BY <2>4, <2>5, <2>6 DEF Scores
<1>2. MatchingInit /\ Queue => Scores
  BY <1>1
<1>3. Queue /\ Queue' /\ Scores /\ [MatchingNext]_mtVars => Scores'
  BY ScoresStep
<1>4. QED
  BY <1>2, <1>3, QueueInvariant, PTL DEF MatchingSpec

(* The application row, the users' requests and the scorers keep their     *)
(* types.                                                                  *)
THEOREM MatchingTypeCorrect == MatchingSpec => []MatchingTypeOK
<1>1. Scores => MatchingTypeOK
  BY DEF Scores
<1>2. QED
  BY <1>1, ScoresInvariant, PTL

(* An application rejected for its score has a score, and one below the    *)
(* threshold unless a scorer that was overtaken wrote it, whatever users,  *)
(* jobs, retries and crashes do.                                           *)
THEOREM RejectionHonest == MatchingSpec => []RejectionMatchesScore
<1>1. Scores => RejectionMatchesScore
  BY DEF Scores
<1>2. QED
  BY <1>1, ScoresInvariant, PTL

(* A shown score is never older than the last re-match, with any number of *)
(* concurrent re-matches and scorers, unless one of the overtakings that   *)
(* ScoreIsCurrent names brought it back.                                   *)
THEOREM ScoreAnswersRematch == MatchingSpec => []ScoreIsCurrent
<1>1. Scores => ScoreIsCurrent
  BY DEF Scores
<1>2. QED
  BY <1>1, ScoresInvariant, PTL

(* A user's decision is overridden only by a later review, or by a writer  *)
(* that read the application before the decision: a scorer that saw it     *)
(* awaiting review, or a re-match that had selected it.                    *)
THEOREM DecisionStands == MatchingSpec => DecisionStandsUnlessReadBefore
<1> DEFINE Overridden == app.status \in Decisions /\ app'.status # app.status
           ReadBefore == \/ reviews' # reviews
                         \/ \E c \in Ended : c.seen = "pending_review"
                         \/ reading' = {} /\ \E c \in reading : c.seen = "pending_review"
                         \/ rescoring' # rescoring
<1>1. ASSUME Queue, Scores, MatchingNext, Overridden
      PROVE  ReadBefore
  <2>1. app \in Application /\ rescoring \subseteq Rescore /\ scoring \subseteq Scoring
    BY <1>1, MatchingTypes
  <2>2. CASE \E r \in reviews : CommitReview(r)
    BY <2>2 DEF CommitReview
  <2>3. ASSUME NEW r \in rescoring, CommitRescore(r)
        PROVE  ReadBefore
    <3>1. \A o \in rescoring' : o.beaten
      BY <2>1, <2>3 DEF CommitRescore, Rescore
    <3>2. CASE \A o \in rescoring : o.beaten
      <4>1. \A o \in rescoring : [o EXCEPT !.beaten = TRUE] = o
        BY <2>1, <3>2 DEF Rescore
      <4>2. r \notin rescoring'
        BY <2>3, <4>1 DEF CommitRescore
      <4>3. QED
        BY <4>2
    <3>3. QED
      BY <3>1, <3>2
  <2>4. \A c, low : app' = Scored(c, low) => c.seen = "pending_review"
    BY <1>1, <2>1 DEF Scored, Application
  <2>5. ASSUME NEW t \in tasks, NEW low \in BOOLEAN, StoreScore(t, low)
        PROVE  ReadBefore
    <3> DEFINE u == [t EXCEPT !.pc = "finish", !.follow = NoKey]
    <3>1. PICK c \in ScoringOf(t) : app' = Scored(c, low)
      BY <2>5 DEF StoreScore
    <3>2. /\ scoring' = Late(Ongoing) /\ tasks' = (tasks \ {t}) \union {u} /\ u.pc # "run"
      BY <1>1, <2>5, TaskTyped DEF StoreScore, HandlerCommits, Queue, Task
    <3> HIDE DEF u
    <3>3. /\ c \in scoring /\ Ongoing \subseteq Scoring
          /\ \A d \in Ongoing : d.row # c.row \/ d.attempt # c.attempt
      BY <1>1, <2>1, <3>1, <3>2, ScorerLeft DEF ScoringOf
    <3>4. \A d \in scoring' : \E e \in Ongoing : d.row = e.row /\ d.attempt = e.attempt
      BY <3>2, <3>3 DEF Late, Scoring
    <3>5. c \in Ended
      BY <3>3, <3>4 DEF Ended
    <3>6. QED
      BY <2>4, <3>1, <3>5
  <2>6. CASE BatchRejects \/ \E low \in BOOLEAN : BatchImports(low)
    BY <2>4, <2>6 DEF BatchRejects, BatchImports
  <2>7. QED
    BY <1>1, <2>2, <2>3, <2>5, <2>6 DEF MatchingNext, EditProfile, ReadForReview,
       SelectForRescore, BeginScoring, LoadProfile, SkipReplay, ScoreLater, ScoringFails,
       BatchLoads, BatchSelects, BatchSubmits, BatchReads, BatchFails, QueueStep, Aside,
       matchVars
<1>2. ASSUME Queue, Scores, [MatchingNext]_mtVars
      PROVE  [Overridden => ReadBefore]_mtVars
  BY <1>1, <1>2
<1>3. QED
  BY <1>2, QueueInvariant, ScoresInvariant, PTL DEF MatchingSpec, DecisionStandsUnlessReadBefore
==============================================================================
