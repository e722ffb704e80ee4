---------------------------- MODULE ProfileProofs ----------------------------
(***************************************************************************)
(* The safety of the parts of a profile, for every number of companies,    *)
(* chat turns, boards and requests and every length of time: the pauses of *)
(* the search, the number of followed companies, the closing of a sync and *)
(* the counters of the rate limiter; and the arithmetic of the matching    *)
(* rules for every size of text and every threshold.                       *)
(***************************************************************************)
EXTENDS MCProfile, FiniteSetTheorems, TLAPS

------------------------------------------------------------------------------
(* SearchExpiry                                                            *)

USE SearchAssumption DEF NoExpiry, Late, Left, IdleCap

LEMMA SearchTypeStep == SearchTypeOK /\ [SearchNext]_searchVars => SearchTypeOK'
<1> SUFFICES ASSUME SearchTypeOK, [SearchNext]_searchVars
             PROVE  SearchTypeOK'
  OBVIOUS
<1> USE DEF SearchTypeOK, Sweep, Toggle
<1>1. CASE Tick
  BY <1>1 DEF Tick
<1>2. CASE Billing
  <2>1. sweep' \in Sweep
    BY <1>2 DEF Billing
  <2>2. QED
    BY <1>2, <2>1 DEF Billing
<1>3. CASE Engage
  <2>1. sweep' \in Sweep
    BY <1>3 DEF Engage
  <2>2. idle' \in 0 .. IdleCap
    BY <1>3 DEF Engage
  <2>3. QED
    BY <1>3, <2>1, <2>2 DEF Engage
<1>4. ASSUME NEW g \in toggles, ToggleCommits(g)
      PROVE  SearchTypeOK'
  <2>1. active' \in BOOLEAN /\ toggles' \subseteq Toggle
    BY <1>4 DEF ToggleCommits
  <2>2. left' \in Left /\ idle' \in 0 .. IdleCap
    BY <1>4 DEF ToggleCommits
  <2>3. sweep' \in Sweep
    BY <1>4 DEF ToggleCommits, Overtaken
  <2>4. QED
    BY <1>4, <2>1, <2>2, <2>3 DEF ToggleCommits
<1>5. ASSUME NEW on \in BOOLEAN, ToggleLoads(on)
      PROVE  SearchTypeOK'
  <2>1. [on |-> on, was_active |-> active, was_null |-> ~on /\ left = NoExpiry] \in Toggle
    OBVIOUS
  <2>2. QED
    BY <1>5, <2>1 DEF ToggleLoads
<1>6. CASE SweepLoads
  BY <1>6 DEF SweepLoads, NoSweep
<1>7. CASE SweepReads
  <2>1. sweep' \in Sweep
    BY <1>7 DEF SweepReads, PaidDecision
  <2>2. QED
    BY <1>7, <2>1 DEF SweepReads
<1>8. CASE SweepDecides
  <2>1. sweep' \in Sweep
    BY <1>8 DEF SweepDecides, UnpaidDecision, PaidDecision
  <2>2. QED
    BY <1>8, <2>1 DEF SweepDecides
<1>9. CASE SweepCommits
  BY <1>9 DEF SweepCommits, NoSweep
<1>10. CASE SweepDies
  BY <1>10 DEF SweepDies, NoSweep
<1>11. CASE UNCHANGED searchVars
  BY <1>11 DEF searchVars
<1>12. QED
  BY <1>1, <1>2, <1>3, <1>4, <1>5, <1>6, <1>7, <1>8, <1>9, <1>10, <1>11 DEF SearchNext, UserActs

(* The search, the subscription and the two writers stay well typed: the   *)
(* expiry never leaves the window that maintenance and toggle give it.     *)
THEOREM SearchTypeCorrect == SearchSpec => []SearchTypeOK
<1>1. SearchInit => SearchTypeOK
  BY DEF SearchInit, SearchTypeOK, Sweep, NoSweep
<1>2. QED
  BY <1>1, SearchTypeStep, PTL DEF SearchSpec

(* What the maintenance read of the subscription, and what it is about to  *)
(* do, are still right until it commits, unless somebody overtook it.      *)
PauseIsDue ==
    ~sweep.overtaken =>
        /\ sweep.pc = "unpaid" => ~paid
        /\ sweep.pc = "decided" /\ sweep.decision = "pause" => ~paid /\ idle > AutoPause

LEMMA PauseStep ==
    SearchTypeOK /\ PauseIsDue /\ [SearchNext]_searchVars => PauseIsDue'
<1> SUFFICES ASSUME SearchTypeOK, PauseIsDue, [SearchNext]_searchVars
             PROVE  PauseIsDue'
  OBVIOUS
<1> USE DEF SearchTypeOK, Sweep, PauseIsDue, paid
<1>1. CASE Tick
  BY <1>1 DEF Tick
<1>2. CASE Billing
  BY <1>2 DEF Billing
<1>3. CASE Engage
  BY <1>3 DEF Engage
<1>4. ASSUME NEW g \in toggles, ToggleCommits(g)
      PROVE  PauseIsDue'
  <2>1. sweep'.pc = sweep.pc /\ sweep'.overtaken = (sweep.pc # "idle")
    BY <1>4 DEF ToggleCommits, Overtaken
  <2>2. QED
    BY <2>1
<1>5. ASSUME NEW on \in BOOLEAN, ToggleLoads(on)
      PROVE  PauseIsDue'
  BY <1>5 DEF ToggleLoads
<1>6. CASE SweepLoads
  BY <1>6 DEF SweepLoads, NoSweep
<1>7. CASE SweepReads
  BY <1>7 DEF SweepReads, PaidDecision
<1>8. CASE SweepDecides
  BY <1>8 DEF SweepDecides, UnpaidDecision, PaidDecision, EngagedInWindow
<1>9. CASE SweepCommits
  BY <1>9 DEF SweepCommits, NoSweep
<1>10. CASE SweepDies
  BY <1>10 DEF SweepDies, NoSweep
<1>11. CASE UNCHANGED searchVars
  BY <1>11 DEF searchVars
<1>12. QED
  BY <1>1, <1>2, <1>3, <1>4, <1>5, <1>6, <1>7, <1>8, <1>9, <1>10, <1>11 DEF SearchNext, UserActs

(* A search is switched off by its user, or by a maintenance that found    *)
(* nobody paying and no engagement for the whole window, unless the user   *)
(* or the billing overtook it between its reads and its commit.            *)
THEOREM SearchNotPausedWhileEngaged == SearchSpec => NotPausedWhileEngaged
<1> DEFINE Due == active /\ ~active' =>
                    \/ \E g \in toggles : ToggleCommits(g)
                    \/ sweep.overtaken
                    \/ ~paid /\ idle > AutoPause
<1>1. SearchInit => PauseIsDue
  BY DEF SearchInit, PauseIsDue, NoSweep
<1>2. PauseIsDue /\ [SearchNext]_searchVars => [Due]_searchVars
  <2> SUFFICES ASSUME PauseIsDue, SearchNext, active, ~active',
                      ~ \E g \in toggles : ToggleCommits(g)
               PROVE  sweep.overtaken \/ (~paid /\ idle > AutoPause)
    OBVIOUS
  <2>1. SweepCommits
    BY DEF SearchNext, UserActs, Tick, Billing, Engage, ToggleLoads, SweepLoads,
           SweepReads, SweepDecides, SweepDies
  <2>2. sweep.pc = "decided" /\ sweep.decision = "pause"
    BY <2>1 DEF SweepCommits
  <2>3. QED
    BY <2>2 DEF PauseIsDue
<1>3. QED
  BY <1>1, <1>2, SearchTypeCorrect, PauseStep, PTL DEF SearchSpec, NotPausedWhileEngaged

------------------------------------------------------------------------------
(* CompanyFollows                                                          *)

USE FollowsAssumption DEF Lists, Limits

LEMMA ListSize ==
  ASSUME NEW list \in Lists
  PROVE  IsFiniteSet(list) /\ Cardinality(list) \in Nat
BY FS_Subset, FS_CardinalityType

(* What the check lets pass is within the limit or smaller than the list   *)
(* it was checked against.                                                 *)
LEMMA AllowedSize ==
  ASSUME NEW current \in Lists, NEW requested \in Lists, NEW max \in Nat, NEW most \in Nat,
         Allowed(current, requested, max), Cardinality(current) <= most, max <= most
  PROVE  Cardinality(requested) <= most
<1>1. CASE Cardinality(requested) <= max
  BY <1>1, ListSize
<1>2. CASE requested \subseteq current
  <2>1. Cardinality(requested) <= Cardinality(current)
    BY <1>2, ListSize, FS_Subset
  <2>2. QED
    BY <2>1, ListSize
<1>3. QED
  BY <1>1, <1>2 DEF Allowed, Fewer

(* Every list that an edit holds fits under the ceiling, and the plan does. *)
EditWithin(e) ==
    /\ edits[e].pc # "idle" => Cardinality(edits[e].base) <= ceiling
    /\ edits[e].pc = "checked" => Cardinality(edits[e].asked) <= ceiling

FollowsBase ==
    /\ FollowsTypeOK
    /\ limit <= ceiling
    /\ FollowsStayWithinPlan
    /\ \A e \in Edits : EditWithin(e)

LEMMA FollowsTypeStep ==
    FollowsTypeOK /\ [FollowsNext]_followVars => FollowsTypeOK'
<1> SUFFICES ASSUME FollowsTypeOK, [FollowsNext]_followVars
             PROVE  FollowsTypeOK'
  OBVIOUS
<1> USE DEF FollowsTypeOK, Edit, NoEdit
<1>1. CASE FollowsNext
  <2> DEFINE Typed == followed' \in Lists /\ limit' \in Limits /\ edits' \in [Edits -> Edit]
  <2>1. Typed
    <3>1. CASE PlanChanges
      BY <3>1 DEF PlanChanges
    <3>2. ASSUME NEW e \in Edits, EditLoads(e) \/ EditEnds(e)
          PROVE  Typed
      <4>1. PICK next \in Edit : edits' = [edits EXCEPT ![e] = next]
        <5>1. NoEdit \in Edit /\ [NoEdit EXCEPT !.pc = "loaded", !.base = followed] \in Edit
          OBVIOUS
        <5>2. QED
          BY <3>2, <5>1 DEF EditLoads, EditEnds
      <4>2. UNCHANGED <<followed, limit>>
        BY <3>2 DEF EditLoads, EditEnds
      <4>3. QED
        BY <4>1, <4>2
    <3>3. ASSUME NEW e \in Edits, EditChecks(e)
          PROVE  Typed
      <4>1. PICK list \in Lists :
                edits' = [edits EXCEPT ![e].pc = "checked", ![e].asked = Asked(e, list)]
        BY <3>3 DEF EditChecks
      <4>2. Asked(e, list) \in Lists
        BY DEF Asked
      <4> DEFINE edit == [edits[e] EXCEPT !.pc = "checked", !.asked = Asked(e, list)]
      <4>3. edits' = [edits EXCEPT ![e] = edit]
        BY <4>1
      <4>4. edit \in Edit
        BY <4>2
      <4>5. QED
        BY <3>3, <4>3, <4>4 DEF EditChecks
    <3>4. ASSUME NEW e \in Edits, EditCommits(e)
          PROVE  Typed
      <4>1. edits[e] \in Edit
        OBVIOUS
      <4>2. followed' \in Lists
        BY <3>4, <4>1 DEF EditCommits, Written
      <4> DEFINE next == IF e \in Turns
                         THEN [NoEdit EXCEPT !.pc = "loaded", !.base = edits[e].asked]
                         ELSE NoEdit
      <4>3. next \in Edit
        BY <4>1
      <4>4. edits' = [edits EXCEPT ![e] = next]
        BY <3>4 DEF EditCommits
      <4>5. QED
        BY <3>4, <4>2, <4>3, <4>4 DEF EditCommits
    <3>5. QED
      BY <1>1, <3>1, <3>2, <3>3, <3>4 DEF FollowsNext
  <2>2. ceiling' \in Nat
    <3>1. Cardinality(followed') \in Nat /\ limit' \in Nat
      BY <2>1, ListSize
    <3>2. QED
      BY <1>1, <3>1 DEF FollowsNext, Larger
  <2>3. QED
    BY <2>1, <2>2
<1>2. CASE UNCHANGED followVars
  BY <1>2 DEF followVars
<1>3. QED
  BY <1>1, <1>2

LEMMA FollowsStep == FollowsBase /\ [FollowsNext]_followVars => FollowsBase'
<1> SUFFICES ASSUME FollowsBase, [FollowsNext]_followVars
             PROVE  FollowsBase'
  OBVIOUS
<1> USE DEF FollowsBase
<1>1. FollowsTypeOK'
  BY FollowsTypeStep
<1>2. CASE UNCHANGED followVars
  BY <1>1, <1>2 DEF followVars, FollowsStayWithinPlan, EditWithin
<1>3. CASE FollowsNext
  <2> USE DEF FollowsTypeOK, Edit, NoEdit
  <2>1. limit' <= ceiling' /\ ceiling' \in Nat
    <3>1. Cardinality(followed') \in Nat /\ limit' \in Nat
      BY <1>1, ListSize
    <3>2. QED
      BY <1>1, <1>3, <3>1 DEF FollowsNext, Larger
  <2>2. ASSUME \A e \in Edits : edits'[e].pc = "idle"
        PROVE  FollowsBase'
    <3>1. ceiling' = Larger(limit', Cardinality(followed'))
      BY <1>3, <2>2 DEF FollowsNext
    <3>2. Cardinality(followed') <= ceiling'
      <4>1. Cardinality(followed') \in Nat /\ limit' \in Nat
        BY <1>1, ListSize
      <4>2. QED
        BY <3>1, <4>1 DEF Larger
    <3>3. QED
      BY <1>1, <2>1, <2>2, <3>2 DEF FollowsStayWithinPlan, EditWithin
  <2>3. ASSUME ~ \A e \in Edits : edits'[e].pc = "idle"
        PROVE  FollowsBase'
    <3>1. ceiling <= ceiling'
      <4>1. ceiling' = Larger(ceiling, limit') /\ limit' \in Nat
        BY <1>1, <1>3, <2>3 DEF FollowsNext
      <4>2. QED
        BY <4>1 DEF Larger
    <3>2. \A list \in Lists : Cardinality(list) <= ceiling => Cardinality(list) <= ceiling'
      BY <2>1, <3>1, ListSize
    <3>3. \A e \in Edits : edits[e].base \in Lists /\ edits[e].asked \in Lists
      OBVIOUS
    <3> DEFINE Within == Cardinality(followed') <= ceiling' /\ \A e \in Edits : EditWithin(e)'
    <3>4. Within
      <4>1. CASE PlanChanges
        BY <3>2, <3>3, <4>1 DEF PlanChanges, FollowsStayWithinPlan, EditWithin
      <4>2. ASSUME NEW e \in Edits, EditLoads(e) \/ EditEnds(e)
            PROVE  Within
        <5>1. /\ UNCHANGED followed
              /\ edits'[e].pc # "checked"
              /\ edits'[e].pc # "idle" => edits'[e].base = followed
              /\ \A f \in Edits \ {e} : edits'[f] = edits[f]
          <6>1. CASE EditLoads(e)
            BY <6>1 DEF EditLoads
          <6>2. CASE EditEnds(e)
            BY <6>2 DEF EditEnds
          <6>3. QED
            BY <4>2, <6>1, <6>2
        <5>2. Cardinality(followed') <= ceiling'
          BY <3>2, <5>1 DEF FollowsStayWithinPlan
        <5>3. EditWithin(e)'
          BY <5>1, <5>2 DEF EditWithin
        <5>4. \A f \in Edits \ {e} : EditWithin(f)'
          BY <3>2, <3>3, <5>1 DEF EditWithin
        <5>5. QED
          BY <5>2, <5>3, <5>4
      <4>3. ASSUME NEW e \in Edits, EditChecks(e)
            PROVE  Within
        <5>1. PICK list \in Lists :
                  /\ Allowed(edits[e].base, Asked(e, list), limit)
                  /\ edits' = [edits EXCEPT ![e].pc = "checked", ![e].asked = Asked(e, list)]
          BY <4>3 DEF EditChecks
        <5>2. Asked(e, list) \in Lists
          BY <3>3 DEF Asked
        <5>3. Cardinality(edits[e].base) <= ceiling
          BY <4>3 DEF EditChecks, EditWithin
        <5>4. Cardinality(Asked(e, list)) <= ceiling
          BY <3>3, <5>1, <5>2, <5>3, AllowedSize
        <5>5. /\ edits'[e].base = edits[e].base /\ edits'[e].asked = Asked(e, list)
              /\ \A f \in Edits \ {e} : edits'[f] = edits[f]
          BY <5>1
        <5>6. UNCHANGED followed
          BY <4>3 DEF EditChecks
        <5>7. EditWithin(e)'
          BY <3>2, <3>3, <5>2, <5>3, <5>4, <5>5 DEF EditWithin
        <5>8. \A f \in Edits \ {e} : EditWithin(f)'
          BY <3>2, <3>3, <5>5 DEF EditWithin
        <5>9. QED
          BY <3>2, <5>6, <5>7, <5>8 DEF FollowsStayWithinPlan
      <4>4. ASSUME NEW e \in Edits, EditCommits(e)
            PROVE  Within
        <5>1. Cardinality(edits[e].asked) <= ceiling
          BY <4>4 DEF EditCommits, EditWithin
        <5>2. followed' \in {followed, edits[e].asked}
          BY <4>4 DEF EditCommits, Written
        <5>3. /\ edits'[e].pc # "checked"
              /\ edits'[e].pc # "idle" => edits'[e].base = edits[e].asked
              /\ \A f \in Edits \ {e} : edits'[f] = edits[f]
          BY <4>4 DEF EditCommits
        <5>4. Cardinality(followed') <= ceiling'
          BY <3>2, <3>3, <5>1, <5>2 DEF FollowsStayWithinPlan
        <5>5. EditWithin(e)'
          BY <3>2, <3>3, <5>1, <5>3 DEF EditWithin
        <5>6. \A f \in Edits \ {e} : EditWithin(f)'
          BY <3>2, <3>3, <5>3 DEF EditWithin
        <5>7. QED
          BY <5>4, <5>5, <5>6
      <4>5. QED
        BY <1>3, <4>1, <4>2, <4>3, <4>4 DEF FollowsNext
    <3>5. QED
      BY <1>1, <2>1, <3>4 DEF FollowsStayWithinPlan
  <2>4. QED
    BY <2>2, <2>3
<1>4. QED
  BY <1>2, <1>3

LEMMA FollowsInvariant == FollowsSpec => []FollowsBase
<1>1. FollowsInit => FollowsBase
  <2> SUFFICES ASSUME FollowsInit
               PROVE  FollowsBase
    OBVIOUS
  <2>1. FollowsTypeOK
    BY DEF FollowsInit, FollowsTypeOK, Edit, NoEdit
  <2>2. Cardinality(followed) = 0
    BY FS_EmptySet DEF FollowsInit
  <2>3. QED
    BY <2>1, <2>2 DEF FollowsInit, FollowsBase, FollowsStayWithinPlan, EditWithin, NoEdit
<1>2. QED
  BY <1>1, FollowsStep, PTL DEF FollowsSpec

(* The list, the plan and the edits stay well typed.                       *)
THEOREM FollowsTypeCorrect == FollowsSpec => []FollowsTypeOK
<1>1. FollowsBase => FollowsTypeOK
  BY DEF FollowsBase
<1>2. QED
  BY <1>1, FollowsInvariant, PTL

(* For any number of requests, turns and companies, overlapping edits and  *)
(* changes of the plan never take the profile past what a plan allowed it, *)
(* or it followed, since the last moment no edit ran.                      *)
THEOREM FollowsKeepToPlan == FollowsSpec => []FollowsStayWithinPlan
<1>1. FollowsBase => FollowsStayWithinPlan
  BY DEF FollowsBase
<1>2. QED
  BY <1>1, FollowsInvariant, PTL

------------------------------------------------------------------------------
(* SyncStatus                                                              *)

USE SyncAssumption

(* A count that found nothing stays true to the end of its poll, unless    *)
(* somebody else queues work: what comes later in the pipeline is only     *)
(* left by what comes earlier.                                             *)
StaysEmpty(p) ==
    p.state = "idle" /\ ~p.overtaken =>
        /\ p.pc \in {"matches", "batch_row", "batch", "answer"} => fetches = {}
        /\ p.pc \in {"batch_row", "batch", "answer"} => matches = 0
        /\ p.pc \in {"batch", "answer"} => ~batch_row
        /\ p.pc = "answer" => batch = "none"

CountedStayEmpty == StaysEmpty(poll) /\ StaysEmpty(ghost)

LEMMA CountType == ASSUME NEW p \in Poll, p.pc \in Stages PROVE Count(p) \in Poll
BY DEF Count, Counted, Poll, Stages, States

LEMMA OutrunType ==
  ASSUME NEW p \in Poll
  PROVE  /\ Outrun(p) \in Poll /\ Outrun(p).pc = p.pc
         /\ Outrun(p).overtaken = (p.pc # "none")
BY DEF Outrun, Poll

LEMMA NoPollType == NoPoll \in Poll
BY DEF NoPoll, Poll, States

LEMMA SyncTypeStep == SyncTypeOK /\ [SyncNext]_syncVars => SyncTypeOK'
<1> SUFFICES ASSUME SyncTypeOK, [SyncNext]_syncVars
             PROVE  SyncTypeOK'
  OBVIOUS
<1> USE DEF SyncTypeOK
<1>1. CASE Request
  <2>1. fetches' \subseteq Boards /\ open' \in BOOLEAN
    BY <1>1 DEF Request
  <2>2. poll' \in Poll /\ ghost' \in Poll
    BY <1>1, OutrunType DEF Request
  <2>3. QED
    BY <1>1, <2>1, <2>2 DEF Request
<1>2. CASE Rematch
  BY <1>2, OutrunType DEF Rematch
<1>3. CASE CronRequeues \/ PollRequeues
  <2>1. poll' \in Poll /\ ghost' \in Poll
    BY <1>3, OutrunType DEF CronRequeues, PollRequeues
  <2>2. batch_row' = TRUE /\ UNCHANGED <<open, fetches, matches, batch, tab>>
    BY <1>3 DEF CronRequeues, PollRequeues, RequeuesDue
  <2>3. QED
    BY <2>1, <2>2
<1>4. CASE FetchLeaves \/ MatchEnds \/ BatchRowEnds
  <2>1. matches' \in 0 .. MaxMatches
    BY <1>4 DEF FetchLeaves, MatchEnds, BatchRowEnds
  <2>2. batch_row' \in BOOLEAN
    BY <1>4 DEF FetchLeaves, MatchEnds, BatchRowEnds
  <2>3. UNCHANGED <<open, fetches, batch, poll, ghost, tab>>
    BY <1>4 DEF FetchLeaves, MatchEnds, BatchRowEnds
  <2>4. QED
    BY <2>1, <2>2, <2>3
<1>5. CASE BatchBuilds \/ BatchSubmits \/ BatchReady \/ BatchEnds
  BY <1>5 DEF BatchBuilds, BatchSubmits, BatchReady, BatchEnds, BatchMoves
<1>6. ASSUME NEW b \in Boards, FetchEnds(b)
      PROVE  SyncTypeOK'
  BY <1>6 DEF FetchEnds
<1>7. CASE PollBegins
  <2>1. poll' \in Poll
    BY <1>7 DEF PollBegins, NoPoll, Poll, States, Stages
  <2>2. QED
    BY <1>7, <2>1 DEF PollBegins, work
<1>8. CASE PollCounts
  BY <1>8, CountType DEF PollCounts, work
<1>9. CASE PollAnswers \/ PollFails
  BY <1>9, NoPollType DEF PollAnswers, PollFails, Closes, work
<1>10. CASE Kick
  BY <1>10, NoPollType DEF Kick, work
<1>11. CASE GhostCounts
  BY <1>11, CountType, NoPollType DEF GhostCounts, work
<1>12. CASE GhostAnswers \/ GhostFails
  BY <1>12, NoPollType DEF GhostAnswers, GhostFails, Closes, work
<1>13. CASE UNCHANGED syncVars
  BY <1>13 DEF syncVars
<1>14. QED
  BY <1>1, <1>2, <1>3, <1>4, <1>5, <1>6, <1>7, <1>8, <1>9, <1>10, <1>11, <1>12, <1>13
  DEF SyncNext

(* The work, the polls and the tab stay well typed.                        *)
THEOREM SyncTypeCorrect == SyncSpec => []SyncTypeOK
<1>1. SyncInit => SyncTypeOK
  <2> SUFFICES ASSUME SyncInit
               PROVE  SyncTypeOK
    OBVIOUS
  <2>1. {open, batch_row} \subseteq BOOLEAN
    BY DEF SyncInit
  <2>2. matches \in 0 .. MaxMatches
    BY DEF SyncInit
  <2>3. QED
    BY <2>1, <2>2, NoPollType DEF SyncInit, SyncTypeOK
<1>2. QED
  BY <1>1, SyncTypeStep, PTL DEF SyncSpec

(* A count of the running poll keeps the invariant of that poll.           *)
LEMMA CountKeepsEmpty ==
  ASSUME NEW p \in Poll, p.pc \in Stages, StaysEmpty(p), matches \in Nat
  PROVE  StaysEmpty(Count(p))
BY DEF StaysEmpty, Count, Counted, Stages, Poll, States

LEMMA CountsStep ==
    SyncTypeOK /\ CountedStayEmpty /\ [SyncNext]_syncVars => CountedStayEmpty'
<1> SUFFICES ASSUME SyncTypeOK, CountedStayEmpty, [SyncNext]_syncVars
             PROVE  CountedStayEmpty'
  OBVIOUS
<1> USE DEF SyncTypeOK, CountedStayEmpty
<1>1. CASE Request \/ Rematch \/ CronRequeues
  <2>1. poll' = Outrun(poll) /\ ghost' = Outrun(ghost)
    BY <1>1 DEF Request, Rematch, CronRequeues
  <2>2. /\ poll'.pc = poll.pc /\ poll'.overtaken = (poll.pc # "none")
        /\ ghost'.pc = ghost.pc /\ ghost'.overtaken = (ghost.pc # "none")
    BY <2>1, OutrunType
  <2>3. QED
    BY <2>2 DEF StaysEmpty
<1>2. CASE PollRequeues
  <2>1. UNCHANGED <<fetches, matches, batch>>
    BY <1>2 DEF PollRequeues, RequeuesDue
  <2>2. CASE poll.pc = "fetches" /\ ghost' = Outrun(ghost) /\ UNCHANGED poll
    <3>1. ghost'.pc = ghost.pc /\ ghost'.overtaken = (ghost.pc # "none")
      BY <2>2, OutrunType
    <3>2. QED
      BY <2>2, <3>1 DEF StaysEmpty
  <2>3. CASE ghost.pc = "fetches" /\ poll' = Outrun(poll) /\ UNCHANGED ghost
    <3>1. poll'.pc = poll.pc /\ poll'.overtaken = (poll.pc # "none")
      BY <2>3, OutrunType
    <3>2. QED
      BY <2>3, <3>1 DEF StaysEmpty
  <2>4. QED
    BY <1>2, <2>2, <2>3 DEF PollRequeues
<1>3. CASE FetchLeaves
  BY <1>3 DEF FetchLeaves, StaysEmpty
<1>4. CASE MatchEnds
  BY <1>4 DEF MatchEnds, StaysEmpty
<1>5. CASE BatchRowEnds
  BY <1>5 DEF BatchRowEnds, StaysEmpty
<1>6. CASE BatchBuilds \/ BatchSubmits \/ BatchReady \/ BatchEnds
  <2>1. batch_row /\ UNCHANGED <<fetches, matches, batch_row, poll, ghost>>
    BY <1>6 DEF BatchBuilds, BatchSubmits, BatchReady, BatchEnds, BatchMoves
  <2>2. QED
    BY <2>1 DEF StaysEmpty
<1>7. ASSUME NEW b \in Boards, FetchEnds(b)
      PROVE  CountedStayEmpty'
  BY <1>7 DEF FetchEnds, StaysEmpty
<1>8. CASE PollBegins
  BY <1>8 DEF PollBegins, NoPoll, StaysEmpty, work
<1>9. CASE PollCounts
  <2>1. StaysEmpty(Count(poll))
    BY <1>9, CountKeepsEmpty DEF PollCounts
  <2>2. QED
    BY <1>9, <2>1 DEF PollCounts, StaysEmpty, work
<1>10. CASE PollAnswers \/ PollFails
  BY <1>10 DEF PollAnswers, PollFails, NoPoll, StaysEmpty, work
<1>11. CASE Kick
  BY <1>11 DEF Kick, NoPoll, StaysEmpty, work
<1>12. CASE GhostCounts
  <2>1. StaysEmpty(Count(ghost))
    BY <1>12, CountKeepsEmpty DEF GhostCounts
  <2>2. QED
    BY <1>12, <2>1 DEF GhostCounts, NoPoll, StaysEmpty, work
<1>13. CASE GhostAnswers \/ GhostFails
  BY <1>13 DEF GhostAnswers, GhostFails, NoPoll, StaysEmpty, work
<1>14. CASE UNCHANGED syncVars
  BY <1>14 DEF syncVars, StaysEmpty
<1>15. QED
  BY <1>1, <1>2, <1>3, <1>4, <1>5, <1>6, <1>7, <1>8, <1>9, <1>10, <1>11, <1>12, <1>13, <1>14
  DEF SyncNext

LEMMA GhostMayClose == SyncSpec => [](ghost.pc # "none" => ghost.state = "idle")
<1> DEFINE Idle == ghost.pc # "none" => ghost.state = "idle"
<1>1. SyncInit => Idle
  BY DEF SyncInit, NoPoll
<1>2. SyncTypeOK /\ Idle /\ [SyncNext]_syncVars => Idle'
  <2> SUFFICES ASSUME SyncTypeOK, Idle, [SyncNext]_syncVars
               PROVE  Idle'
    OBVIOUS
  <2>1. ghost' \in {ghost, Outrun(ghost), NoPoll} \/ MayClose(ghost')
    BY DEF SyncNext, syncVars, Request, Rematch, CronRequeues, FetchLeaves, MatchEnds,
           BatchBuilds, BatchSubmits, BatchReady, BatchEnds, BatchMoves, BatchRowEnds,
           FetchEnds, PollBegins, PollRequeues, PollCounts, PollAnswers, PollFails, Kick,
           GhostCounts, GhostAnswers, GhostFails
  <2>2. QED
    BY <2>1 DEF Outrun, NoPoll, MayClose, SyncTypeOK, Poll
<1>3. QED
  BY <1>1, <1>2, SyncTypeCorrect, PTL DEF SyncSpec

(* A poll that answers "idle", also one the tab gave up, answers when      *)
(* nothing of the profile's work is left, unless somebody else queued work *)
(* since it began.                                                         *)
THEOREM SyncClosedDrained == SyncSpec => SyncClosesDrained
<1> DEFINE ClosesDrained ==
             /\ PollAnswers /\ poll.state = "idle" => poll.overtaken \/ Drained
             /\ GhostAnswers => ghost.overtaken \/ Drained
           Idle == ghost.pc # "none" => ghost.state = "idle"
<1>1. SyncInit => CountedStayEmpty
  BY DEF SyncInit, CountedStayEmpty, StaysEmpty, NoPoll
<1>2. CountedStayEmpty /\ Idle /\ [SyncNext]_syncVars => [ClosesDrained]_syncVars
  BY DEF CountedStayEmpty, StaysEmpty, PollAnswers, GhostAnswers, Drained
<1>3. QED
  BY <1>1, <1>2, SyncTypeCorrect, GhostMayClose, CountsStep, PTL DEF SyncSpec, SyncClosesDrained

------------------------------------------------------------------------------
(* RateLimit                                                               *)

USE RateAssumption

LEMMA Division ==
  ASSUME NEW a \in Nat, NEW width \in Nat \ {0}
  PROVE  a % width \in 0 .. width - 1 /\ \E q \in Int : a = width * q + (a % width)
<1>1. a % width \in 0 .. width - 1
  BY Z3
<1>2. a = width * (a \div width) + (a % width) /\ a \div width \in Int
  BY Z3
<1>3. QED
  BY <1>1, <1>2

LEMMA Multiples ==
  ASSUME NEW width \in Nat \ {0}, NEW p \in Int, NEW q \in Int, p < q
  PROVE  width * p + width <= width * q
<1>1. width * (q - p) >= width
  BY Z3
<1>2. width * (q - p) = width * q - width * p
  BY Z3
<1>3. QED
  BY <1>1, <1>2

(* A stretch of a window's length meets two windows.                       *)
LEMMA TwoWindows ==
  ASSUME NEW t \in Nat, NEW a \in Nat, t <= a, a <= t + Window - 1
  PROVE  WindowStart(a) \in {WindowStart(t), WindowStart(t) + Window}
<1>1. PICK p \in Int : a = Window * p + (a % Window)
  BY Division
<1>2. PICK q \in Int : t = Window * q + (t % Window)
  BY Division
<1>3. a % Window \in 0 .. Window - 1 /\ t % Window \in 0 .. Window - 1
  BY Division
<1> DEFINE wp == Window * p
           wq == Window * q
<1>4. wp \in Int /\ wq \in Int
  OBVIOUS
<1>5. Window * (q + 1) = wq + Window
  OBVIOUS
<1>6. p >= q
  <2>1. p < q => wp + Window <= wq
    BY Multiples
  <2>2. QED
    BY <1>1, <1>2, <1>3, <1>4, <2>1
<1>7. p <= q + 1
  <2>1. q + 1 < p => Window * (q + 1) + Window <= wp
    BY Multiples
  <2>2. QED
    BY <1>1, <1>2, <1>3, <1>4, <1>5, <2>1
<1>8. p = q \/ p = q + 1
  BY <1>6, <1>7
<1>9. QED
  BY <1>1, <1>2, <1>3, <1>5, <1>8 DEF WindowStart

CountedIn(w) == {r \in Requests : calls[r].pc \in {"admitted", "refused"}
                                     /\ WindowStart(calls[r].at) = w}
AdmittedIn(w) == AnsweredIn(w, "admitted")

(* A counter is the number of answered requests of its window, of which    *)
(* the first ones up to the limit are admitted.                            *)
CountsExact ==
    \A w \in Starts :
        /\ counts[w] = Cardinality(CountedIn(w))
        /\ Cardinality(AdmittedIn(w)) = IF counts[w] <= Limit THEN counts[w] ELSE Limit

RefusedLate ==
    \A r \in Requests : calls[r].pc = "refused" => counts[WindowStart(calls[r].at)] > Limit

RateBase == RateTypeOK /\ CountsExact /\ RefusedLate

LEMMA CountedFinite ==
  ASSUME NEW w
  PROVE  /\ IsFiniteSet(CountedIn(w)) /\ IsFiniteSet(AdmittedIn(w))
         /\ Cardinality(CountedIn(w)) \in 0 .. Cardinality(Requests)
         /\ Cardinality(AdmittedIn(w)) \in Nat
<1>1. CountedIn(w) \subseteq Requests /\ AdmittedIn(w) \subseteq Requests
  BY DEF CountedIn, AdmittedIn, AnsweredIn
<1>2. QED
  BY <1>1, FS_Subset, FS_CardinalityType

LEMMA CountStep ==
  ASSUME RateBase, NEW r \in Requests, CountOf(r)
  PROVE  RateBase'
<1> USE DEF RateBase, RateTypeOK, Call
<1>0. PICK w : w = WindowStart(calls[r].at)
  OBVIOUS
<1> DEFINE answer == IF counts[w] + 1 > Limit THEN "refused" ELSE "admitted"
<1>1. /\ calls[r].pc = "stamped" /\ w \in Starts /\ UNCHANGED clock
      /\ counts' = [counts EXCEPT ![w] = counts[w] + 1]
      /\ calls' = [calls EXCEPT ![r].pc = answer]
  BY <1>0 DEF CountOf, Answer, Starts
<1>2. /\ calls' \in [Requests -> Call]
      /\ calls'[r].pc = answer /\ calls'[r].at = calls[r].at
      /\ \A s \in Requests \ {r} : calls'[s] = calls[s]
  BY <1>1
<1>3. /\ CountedIn(w)' = CountedIn(w) \union {r} /\ r \notin CountedIn(w)
      /\ r \notin AdmittedIn(w)
      /\ AdmittedIn(w)' = IF answer = "admitted" THEN AdmittedIn(w) \union {r}
                          ELSE AdmittedIn(w)
  BY <1>0, <1>1, <1>2 DEF CountedIn, AdmittedIn, AnsweredIn
<1>4. \A v \in Starts \ {w} : CountedIn(v)' = CountedIn(v) /\ AdmittedIn(v)' = AdmittedIn(v)
  BY <1>0, <1>1, <1>2 DEF CountedIn, AdmittedIn, AnsweredIn
<1>5. /\ Cardinality(CountedIn(w)') = Cardinality(CountedIn(w)) + 1
      /\ Cardinality(AdmittedIn(w)') = IF answer = "admitted" THEN Cardinality(AdmittedIn(w)) + 1
                                       ELSE Cardinality(AdmittedIn(w))
  BY <1>3, CountedFinite, FS_AddElement
<1>6. counts[w] \in Nat /\ counts[w] = Cardinality(CountedIn(w))
  BY <1>1, CountedFinite DEF CountsExact
<1>7. CountsExact'
  <2> SUFFICES ASSUME NEW v \in Starts
               PROVE  /\ counts'[v] = Cardinality(CountedIn(v)')
                      /\ Cardinality(AdmittedIn(v)') =
                            IF counts'[v] <= Limit THEN counts'[v] ELSE Limit
    BY DEF CountsExact
  <2>1. CASE v = w
    <3>1. Cardinality(AdmittedIn(w)) = IF counts[w] <= Limit THEN counts[w] ELSE Limit
      BY <1>1 DEF CountsExact
    <3>2. counts'[w] = counts[w] + 1
      BY <1>1
    <3>3. QED
      BY <1>5, <1>6, <2>1, <3>1, <3>2
  <2>2. CASE v # w
    BY <1>1, <1>4, <2>2 DEF CountsExact
  <2>3. QED
    BY <2>1, <2>2
<1>8. RateTypeOK'
  <2>1. counts'[w] \in 0 .. Cardinality(Requests)
    <3>1. counts'[w] = Cardinality(CountedIn(w)')
      BY <1>1, <1>7 DEF CountsExact
    <3>2. CountedIn(w)' \subseteq Requests
      BY DEF CountedIn
    <3>3. QED
      BY <3>1, <3>2, FS_Subset, FS_CardinalityType
  <2>2. counts' \in [Starts -> 0 .. Cardinality(Requests)]
    BY <1>1, <2>1
  <2>3. QED
    BY <1>1, <1>2, <2>2
<1>9. RefusedLate'
  <2> SUFFICES ASSUME NEW s \in Requests, calls'[s].pc = "refused"
               PROVE  counts'[WindowStart(calls'[s].at)] > Limit
    BY DEF RefusedLate, WindowStart
  <2>1. CASE s = r
    BY <1>0, <1>1, <1>2, <1>6, <2>1
  <2>2. CASE s # r
    <3>1. /\ calls'[s] = calls[s] /\ WindowStart(calls[s].at) \in Starts
          /\ counts[WindowStart(calls[s].at)] > Limit
      BY <1>2, <2>2 DEF RefusedLate, Starts
    <3>2. QED
      BY <1>1, <1>6, <3>1
  <2>3. QED
    BY <2>1, <2>2
<1>10. QED
  BY <1>7, <1>8, <1>9

LEMMA RateStep == RateBase /\ [RateNext]_rateVars => RateBase'
<1> SUFFICES ASSUME RateBase, [RateNext]_rateVars
             PROVE  RateBase'
  OBVIOUS
<1> USE DEF RateBase, RateTypeOK, Call
<1>1. CASE RateTick \/ UNCHANGED rateVars
  <2>1. UNCHANGED <<counts, calls>> /\ clock' \in 0 .. MaxClock
    BY <1>1 DEF RateTick, rateVars
  <2>2. QED
    BY <2>1 DEF CountsExact, RefusedLate, CountedIn, AdmittedIn, AnsweredIn
<1>2. ASSUME NEW r \in Requests, Stamp(r)
      PROVE  RateBase'
  <2>1. /\ calls' \in [Requests -> Call] /\ UNCHANGED <<clock, counts>>
        /\ calls[r].pc = "new" /\ calls'[r].pc = "stamped"
        /\ \A s \in Requests \ {r} : calls'[s] = calls[s]
    BY <1>2 DEF Stamp
  <2>2. \A w \in Starts : CountedIn(w)' = CountedIn(w) /\ AdmittedIn(w)' = AdmittedIn(w)
    BY <2>1 DEF CountedIn, AdmittedIn, AnsweredIn, WindowStart
  <2>3. CountsExact'
    BY <2>1, <2>2 DEF CountsExact
  <2>4. RefusedLate'
    BY <2>1 DEF RefusedLate, WindowStart
  <2>5. QED
    BY <2>1, <2>3, <2>4
<1>3. ASSUME NEW r \in Requests, CountOf(r)
      PROVE  RateBase'
  BY <1>3, CountStep
<1>4. QED
  BY <1>1, <1>2, <1>3 DEF RateNext

LEMMA RateInvariant == RateSpec => []RateBase
<1>1. RateInit => RateBase
  <2> SUFFICES ASSUME RateInit
               PROVE  RateBase
    OBVIOUS
  <2>1. \A w \in Starts : CountedIn(w) = {} /\ AdmittedIn(w) = {}
    BY DEF RateInit, CountedIn, AdmittedIn, AnsweredIn
  <2>2. CountsExact
    BY <2>1, FS_EmptySet DEF RateInit, CountsExact
  <2>3. RateTypeOK
    BY FS_CardinalityType DEF RateInit, RateTypeOK, Call
  <2>4. RefusedLate
    BY DEF RateInit, RefusedLate
  <2>5. QED
    BY <2>2, <2>3, <2>4 DEF RateBase
<1>2. QED
  BY <1>1, RateStep, PTL DEF RateSpec

(* The counters and the requests stay well typed.                          *)
THEOREM RateTypeCorrect == RateSpec => []RateTypeOK
<1>1. RateBase => RateTypeOK
  BY DEF RateBase
<1>2. QED
  BY <1>1, RateInvariant, PTL

LEMMA LimitAnywhere ==
  ASSUME RateBase, NEW w
  PROVE  Cardinality(AdmittedIn(w)) <= Limit
<1> USE DEF RateBase, RateTypeOK, Call
<1>1. CASE w \in Starts
  BY <1>1 DEF CountsExact
<1>2. CASE w \notin Starts
  <2>1. AdmittedIn(w) = {}
    BY <1>2 DEF AdmittedIn, AnsweredIn, Starts
  <2>2. Cardinality(AdmittedIn(w)) = 0
    BY <2>1, FS_EmptySet
  <2>3. QED
    BY <2>2, RateAssumption
<1>3. QED
  BY <1>1, <1>2

LEMMA WithinTwice == RateBase => AtMostTwice
<1> SUFFICES ASSUME RateBase
             PROVE  AtMostTwice
  OBVIOUS
<1> USE DEF RateBase, RateTypeOK, Call
<1> SUFFICES ASSUME NEW t \in 0 .. MaxClock
             PROVE  Cardinality({r \in Admitted : calls[r].at \in t .. t + Window - 1})
                        <= 2 * Limit
  BY DEF AtMostTwice
<1> DEFINE stretch == {r \in Admitted : calls[r].at \in t .. t + Window - 1}
           one == AdmittedIn(WindowStart(t))
           two == AdmittedIn(WindowStart(t) + Window)
<1>1. stretch \subseteq one \union two
  <2> SUFFICES ASSUME NEW r \in stretch
               PROVE  r \in one \union two
    OBVIOUS
  <2>1. WindowStart(calls[r].at) \in {WindowStart(t), WindowStart(t) + Window}
    BY TwoWindows DEF Admitted
  <2>2. QED
    BY <2>1 DEF Admitted, AdmittedIn, AnsweredIn
<1>2. /\ IsFiniteSet(one) /\ IsFiniteSet(two) /\ IsFiniteSet(one \intersect two)
      /\ Cardinality(one) \in Nat /\ Cardinality(two) \in Nat
      /\ Cardinality(one \intersect two) \in Nat
  <2>1. IsFiniteSet(one) /\ IsFiniteSet(two) /\ Cardinality(one) \in Nat
            /\ Cardinality(two) \in Nat
    BY CountedFinite
  <2>2. IsFiniteSet(one \intersect two)
    BY <2>1, FS_Subset
  <2>3. QED
    BY <2>1, <2>2, FS_CardinalityType
<1>3. IsFiniteSet(one \union two)
      /\ Cardinality(one \union two) <= Cardinality(one) + Cardinality(two)
  <2> HIDE DEF one, two
  <2>1. /\ IsFiniteSet(one \union two)
        /\ Cardinality(one \union two)
               = Cardinality(one) + Cardinality(two) - Cardinality(one \intersect two)
    BY <1>2, FS_Union
  <2>2. QED
    BY <1>2, <2>1
<1>4. Cardinality(stretch) <= Cardinality(one \union two) /\ Cardinality(stretch) \in Nat
  BY <1>1, <1>3, FS_Subset, FS_CardinalityType
<1>5. Cardinality(one \union two) \in Nat
  BY <1>3, FS_CardinalityType
<1>6. Cardinality(one) <= Limit /\ Cardinality(two) <= Limit
  BY LimitAnywhere
<1> HIDE DEF stretch, one, two
<1>7. Cardinality(stretch) <= 2 * Limit
  BY <1>2, <1>3, <1>4, <1>5, <1>6
<1>8. QED
  BY <1>7 DEF stretch

(* The limiter that knows whom a window admitted, in terms of the calls.   *)
AdmittedBy == [w \in Starts |-> AnsweredIn(w, "admitted")]
RefusedBy == [w \in Starts |-> AnsweredIn(w, "refused")]

LEMMA SameCardinality == \A S : Windows!Cardinality(S) = Cardinality(S)
BY DEF Windows!Cardinality, Cardinality

(* An answer is the one the limiter would give: the counter exceeds the    *)
(* limit just when the window has admitted as many.                        *)
LEMMA CountAnswers ==
  ASSUME RateBase, NEW r \in Requests, CountOf(r)
  PROVE  Windows!Admit(r, WindowStart(calls[r].at)) \/ Windows!Refuse(r, WindowStart(calls[r].at))
<1> USE DEF RateBase, RateTypeOK, Call
<1>0. PICK w : w = WindowStart(calls[r].at)
  OBVIOUS
<1> DEFINE answer == IF counts[w] + 1 > Limit THEN "refused" ELSE "admitted"
<1>1. /\ calls[r].pc = "stamped" /\ w \in Starts
      /\ calls' = [calls EXCEPT ![r].pc = answer]
  BY <1>0 DEF CountOf, Answer, Starts
<1>2. /\ calls'[r].pc = answer /\ calls'[r].at = calls[r].at
      /\ \A s \in Requests \ {r} : calls'[s] = calls[s]
  BY <1>1
<1>3. \A v \in Starts, pc \in {"admitted", "refused"} :
         AnsweredIn(v, pc)' = IF v = w /\ pc = answer THEN AnsweredIn(v, pc) \union {r}
                              ELSE AnsweredIn(v, pc)
  BY <1>0, <1>1, <1>2 DEF AnsweredIn
<1>4. AdmittedBy' = IF answer = "admitted" THEN [AdmittedBy EXCEPT ![w] = @ \union {r}]
                    ELSE AdmittedBy
  BY <1>1, <1>3 DEF AdmittedBy
<1>5. RefusedBy' = IF answer = "refused" THEN [RefusedBy EXCEPT ![w] = @ \union {r}]
                   ELSE RefusedBy
  BY <1>1, <1>3 DEF RefusedBy
<1>6. Windows!Unanswered(r)
  BY <1>1 DEF Windows!Unanswered, AnsweredIn
<1>7. /\ counts[w] \in Nat
      /\ Cardinality(AdmittedBy[w]) = IF counts[w] <= Limit THEN counts[w] ELSE Limit
  BY <1>1 DEF CountsExact, AdmittedBy, AdmittedIn
<1>8. CASE answer = "admitted"
  <2>1. Cardinality(AdmittedBy[w]) < Limit
    BY <1>7, <1>8, RateAssumption
  <2>2. QED
    BY <1>0, <1>4, <1>5, <1>6, <1>8, <2>1, SameCardinality DEF Windows!Admit, AdmittedBy, RefusedBy
<1>9. CASE answer = "refused"
  <2>1. Cardinality(AdmittedBy[w]) = Limit
    BY <1>7, <1>9, RateAssumption
  <2>2. QED
    BY <1>0, <1>4, <1>5, <1>6, <1>9, <2>1, SameCardinality DEF Windows!Refuse, AdmittedBy, RefusedBy
<1>10. QED
  BY <1>8, <1>9

LEMMA RateRefines == RateBase /\ [RateNext]_rateVars => [Windows!WindowsNext]_(Windows!windowVars)
<1> SUFFICES ASSUME RateBase, [RateNext]_rateVars
             PROVE  Windows!WindowsNext \/ UNCHANGED Windows!windowVars
  OBVIOUS
<1>1. CASE RateTick \/ UNCHANGED rateVars
  BY <1>1 DEF RateTick, rateVars, Windows!windowVars, AnsweredIn
<1>2. ASSUME NEW r \in Requests, Stamp(r)
      PROVE  UNCHANGED Windows!windowVars
  <2>1. /\ calls[r].pc = "new" /\ calls'[r].pc = "stamped"
        /\ \A s \in Requests \ {r} : calls'[s] = calls[s]
    BY <1>2 DEF Stamp, RateBase, RateTypeOK
  <2>2. \A w \in Starts, pc \in {"admitted", "refused"} : AnsweredIn(w, pc)' = AnsweredIn(w, pc)
    BY <2>1 DEF AnsweredIn
  <2>3. QED
    BY <2>2 DEF Windows!windowVars
<1>3. ASSUME NEW r \in Requests, CountOf(r)
      PROVE  Windows!WindowsNext
  <2>1. WindowStart(calls[r].at) \in Starts
    BY DEF RateBase, RateTypeOK, Call, Starts
  <2>2. QED
    BY <1>3, <2>1, CountAnswers DEF Windows!WindowsNext
<1>4. QED
  BY <1>1, <1>2, <1>3 DEF RateNext

(* Whatever the order in which requests read the clock and reach the       *)
(* database, the counters answer like a limiter that knows whom each window*)
(* admitted, and no stretch of a window's length admits more than twice    *)
(* the limit.                                                              *)
THEOREM RequestsAdmittedWithinLimits == RateSpec => AdmittedWithinLimits
<1>1. RateInit => Windows!WindowsInit
  BY DEF RateInit, Windows!WindowsInit, AnsweredIn
<1>2. QED
  BY <1>1, RateInvariant, RateRefines, WithinTwice, PTL
  DEF RateSpec, AdmittedWithinLimits, Windows!WindowsSpec

------------------------------------------------------------------------------
(* MatchRules                                                              *)

(* A packed request fits for every size of its parts and every limit.      *)
THEOREM PackedAlwaysFits ==
  ASSUME NEW fields \in Nat, NEW description \in Nat, NEW marker \in Nat, NEW size \in Nat
  PROVE  Fits(fields, description, marker, size)
BY DEF Fits, Packed, Estimate, Prefix, Marker, Least, Most

(* What the rules refuse scores below every threshold there is a score     *)
(* below, and 0 where there is none.                                       *)
THEOREM RefusedAlwaysLow ==
  ASSUME NEW threshold \in Nat, NEW score \in Nat
  PROVE  ScoresLow(threshold, score)
BY DEF ScoresLow, Capped, RejectionScore, Least, Most

(* RulesHold, one rule after the other: over all kinds of text, thresholds *)
(* and sizes it quantifies over.                                           *)
LEMMA UsLocationAlwaysStands == UsLocationStands
BY DEF UsLocationStands, UsMismatch, NonUsOverrides, Owned, Job

LEMMA LocationsAlwaysOnlyAdd == LocationsOnlyAdd
<1> SUFFICES ASSUME NEW job \in Job, NEW profile \in Profile,
                    NEW more \in SUBSET {"place", "remote"},
                    RemoteMismatch([profile EXCEPT !.target_locations = @ \union more], job)
             PROVE  RemoteMismatch(profile, job)
  BY DEF LocationsOnlyAdd
<1> DEFINE wider == [profile EXCEPT !.target_locations = @ \union more]
<1>1. wider.remote_ok = profile.remote_ok
      /\ profile.target_locations \subseteq wider.target_locations
  BY DEF Profile
<1>2. RealLocations(profile) \subseteq RealLocations(wider)
  BY <1>1 DEF RealLocations
<1>3. QED
  BY <1>1, <1>2 DEF RemoteMismatch, InTargetLocation, RemoteOnly

LEMMA TechTitlesAlwaysStand == TechTitlesStand
BY DEF TechTitlesStand, TitleRefused, ContractMismatch, SeniorityMismatch, FamilyMismatch,
       NON_TECH_ROLE_FAMILIES, Title, Career, Families

(* Every rule holds: US locations stand, target locations only add jobs,   *)
(* engineering titles are refused for their contract or level only,        *)
(* refusals score low and requests fit.                                    *)
THEOREM RulesAlwaysKept == RulesHold
<1>1. RefusedScoresLow
  BY RefusedAlwaysLow DEF RefusedScoresLow
<1>2. PackedFits
  BY PackedAlwaysFits DEF PackedFits
<1>3. QED
  BY <1>1, <1>2, UsLocationAlwaysStands, LocationsAlwaysOnlyAdd, TechTitlesAlwaysStand
  DEF RulesHold

------------------------------------------------------------------------------
(* The instance that holds all parts                                       *)

(* A behaviour of the parts side by side is one of each of them: what is   *)
(* proved of a part holds of the runs.                                     *)
THEOREM PartsRunAlone == MCSpec => SearchSpec /\ FollowsSpec /\ SyncSpec /\ RateSpec
<1>1. MCInit => SearchInit /\ FollowsInit /\ SyncInit /\ RateInit
  BY DEF MCInit
<1>2. [MCNext]_<<part, searchVars, followVars, syncVars, rateVars>> =>
         /\ [SearchNext]_searchVars /\ [FollowsNext]_followVars
         /\ [SyncNext]_syncVars /\ [RateNext]_rateVars
  BY DEF MCNext, Search, Follows, Sync, Rate
<1>3. QED
  BY <1>1, <1>2, PTL DEF MCSpec, SearchSpec, FollowsSpec, SyncSpec, RateSpec

(* All parts of a profile stay well typed.                                 *)
THEOREM ProfileTypeCorrect == MCSpec => []ProfileTypeOK
BY PartsRunAlone, SearchTypeCorrect, FollowsTypeCorrect, SyncTypeCorrect, RateTypeCorrect, PTL
DEF ProfileTypeOK

(* The rules hold whichever part runs.                                     *)
THEOREM RulesKept == MCSpec => []RulesAreKept
<1>1. RulesAreKept
  BY RulesAlwaysKept DEF RulesAreKept
<1>2. QED
  BY <1>1, PTL
============================================================================
