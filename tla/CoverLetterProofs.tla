-------------------------- MODULE CoverLetterProofs --------------------------
(***************************************************************************)
(* Cover-letter generation keeps the promises of the queue it runs on, and *)
(* shows the user the outcome of the newest request, for every number of   *)
(* workers, requests, rows and retries.                                    *)
(***************************************************************************)
EXTENDS CoverLetter, WorkQueueLeaseProofs

(* Every step of the composition is a step of the queue, or leaves the     *)
(* queue alone.                                                            *)
LEMMA CoverLetterStep == [CoverLetterNext]_clVars => [Next]_wqVars
<1> SUFFICES ASSUME [CoverLetterNext]_clVars
             PROVE  [Next]_wqVars
  OBVIOUS
<1>1. CASE UNCHANGED clVars
  BY <1>1 DEF clVars, wqVars
<1>2. CASE CheckRequest \/ FiveMinutesPass \/ SelectOrphan
  BY <1>2 DEF CheckRequest, FiveMinutesPass, SelectOrphan, wqVars
<1>3. CASE (\E n \in posts : CommitRequest(n)) \/ EnqueueOrphan
  <2>1. Enqueue(LetterKey, "do_nothing") /\ LetterKey \in Keys
    BY <1>3, LetterAssumption DEF CommitRequest, EnqueueOrphan
  <2>2. QED
    BY <2>1 DEF Next
<1>4. ASSUME NEW t \in tasks, Generate(t)
      PROVE  [Next]_wqVars
  <2>1. CASE BeginCall(t)
    BY <2>1 DEF BeginCall, wqVars
  <2>2. CASE SkipCall(t) \/ CallSucceeds(t) \/ RateLimited(t) \/ CallFails(t) \/ HandlerBreaks(t)
    <3>1. HandlerCommits(t, NoKey) \/ HandlerRaisesTransient(t) \/ HandlerRaises(t)
      BY <2>2 DEF SkipCall, CallSucceeds, RateLimited, CallFails, HandlerBreaks
    <3>2. Handler(t)
      BY <3>1 DEF Handler
    <3>3. QED
      BY <3>2 DEF Next
  <2>3. QED
    BY <1>4, <2>1, <2>2 DEF Generate
<1>5. ASSUME NEW t \in tasks, TerminalFailure(t) \/ Settle(t)
      PROVE  [Next]_wqVars
  <2>1. Finalize(t)
    BY <1>5 DEF TerminalFailure, Settle, Finalize
  <2>2. QED
    BY <2>1 DEF Next
<1>6. CASE QueueStep
  BY <1>6 DEF QueueStep, Next, Finalize
<1>7. QED
  BY <1>1, <1>2, <1>3, <1>4, <1>5, <1>6 DEF CoverLetterNext

(* The composition implements the work queue, so every theorem about Spec  *)
(* holds while letters are generated: the handler's steps and the request, *)
(* hook and cron around it never step outside the queue's operations.      *)
THEOREM CoverLetterUsesQueue == CoverLetterSpec => Spec
<1>1. CoverLetterInit => Init
  BY DEF CoverLetterInit
<1>2. QED
  BY <1>1, CoverLetterStep, PTL DEF CoverLetterSpec, Spec

Queue == Base /\ Execution /\ OneLivePerKey

LEMMA QueueInvariant == CoverLetterSpec => []Queue
<1>1. Base /\ Execution /\ OneLivePerKey => Queue
  BY DEF Queue
<1>2. QED
  BY <1>1, CoverLetterUsesQueue, BaseInvariant, ExecutionInvariant, OneLivePerKeyHolds, PTL

LEMMA QueueTyped ==
  ASSUME Queue
  PROVE  /\ \A t \in tasks : t \in Task /\ t.row \in DOMAIN queue /\ t.row \in Nat /\ t.attempt \in Nat
         /\ \A i \in DOMAIN queue : queue[i] \in Row /\ queue[i].key = LetterKey
<1>1. \A t \in tasks : t \in Task /\ t.row \in DOMAIN queue /\ t.row \in Nat /\ t.attempt \in Nat
  BY TaskTyped DEF Queue
<1>2. \A i \in DOMAIN queue : queue[i] \in Row
  BY RowsTyped DEF Queue, Base, TypeOK
<1>3. QED
  BY <1>1, <1>2, LetterAssumption DEF Row

(* While no row was disturbed at most one job of the letter is executed.   *)
LEMMA SoleTask ==
  ASSUME Queue, Undisturbed, NEW t1 \in tasks, NEW t2 \in tasks
  PROVE  /\ t1 = t2
         /\ queue[t1.row].status = "in_progress"
         /\ t1.pc # "giveback"
<1>1. HoldsLease(t1) /\ HoldsLease(t2)
  BY DEF Queue, Execution, LeasesHeld, Undisturbed
<1>2. t1.row \in DOMAIN queue /\ t2.row \in DOMAIN queue
  BY QueueTyped
<1>3. t1.row = t2.row
  BY <1>1, <1>2, QueueTyped DEF Queue, OneLivePerKey, HoldsLease, Owns, Live
<1>4. t1 = t2
  BY <1>1, <1>3 DEF HoldsLease, Queue, Execution, AttemptsIdentify
<1>5. QED
  BY <1>1, <1>4 DEF HoldsLease, Owns

------------------------------------------------------------------------------
(* The inductive invariant.                                                *)

(* A model call belongs to a job that is in its handler.                   *)
CallsHaveTasks ==
  \A c \in calls : \E t \in tasks : t.row = c.row /\ t.attempt = c.attempt /\ t.pc = "run"

RequestsIssued == letter.asked <= issued /\ \A n \in posts : n \in Nat /\ n <= issued

(* While the model is called the letter is in flight, so that no request   *)
(* was issued since the call began.                                        *)
CallsCurrent ==
  Undisturbed => \A c \in calls : letter.status \in InFlightStatus /\ c.asked = issued

(* A job that is about to settle has left generating.                      *)
SettlersDone ==
  Undisturbed =>
     \A t \in tasks : t.pc \in {"finish", "fail"} => letter.status # "generating"

Generation ==
  /\ CoverLetterTypeOK
  /\ CallsHaveTasks
  /\ RequestsIssued
  /\ CallsCurrent
  /\ SettlersDone
  /\ ReadyAnswersNewest
  /\ GeneratingHasRow

(* A live row of the letter stays live, unless a job is settled.           *)
LEMMA EnqueueKeepsRow ==
  ASSUME Queue, Enqueue(LetterKey, "do_nothing")
  PROVE  NoLiveRow' => NoLiveRow
<1>1. queue \in Seq(Row) /\ LetterKey \in Keys
  BY LetterAssumption DEF Queue, Base, TypeOK
<1>2. PICK due \in BOOLEAN : queue' = Enqueued(queue, LetterKey, "do_nothing", due)
  BY Zenon DEF Enqueue
<1>3. \A i \in DOMAIN queue : /\ i \in DOMAIN queue'
                              /\ queue'[i].status = queue[i].status
                              /\ queue'[i].key = queue[i].key
  <2>1. \A i \in DOMAIN queue : queue[i].by \in Workers <=> queue[i].status = "in_progress"
    BY DEF Queue, Base, LeaseConsistent
  <2>2. QED
    BY <1>1, <1>2, <2>1, EnqueueKeepsLeases
<1>4. QED
  BY <1>3 DEF NoLiveRow

LEMMA StepKeepsRow ==
  ASSUME Queue,
         \/ \E w \in Workers, lane \in Lanes : Claim(w, lane)
         \/ \E t \in tasks : Release(t) \/ DatabaseError(t)
         \/ \E i \in DOMAIN queue : NotBeforePasses(i) \/ LeaseExpires(i)
         \/ \E w \in Workers : Start(w) \/ Shutdown(w) \/ Exit(w) \/ Crash(w)
  PROVE  NoLiveRow' => NoLiveRow
<1>1. queue \in Seq(Row)
  BY DEF Queue, Base, TypeOK
<1>2. ASSUME NEW w \in Workers, NEW lane \in Lanes, Claim(w, lane)
      PROVE  NoLiveRow' => NoLiveRow
  <2>1. PICK i \in DOMAIN queue : ClaimRow(w, i)
    BY <1>2 DEF Claim, Claimable
  <2>2. /\ DOMAIN queue' = DOMAIN queue
        /\ \A j \in DOMAIN queue : queue'[j] = IF j = i THEN ClaimedRow(w, i) ELSE queue[j]
    BY <1>1, <2>1, ClaimEffect
  <2>3. ClaimedRow(w, i).status = "in_progress" /\ ClaimedRow(w, i).key = queue[i].key
    BY QueueTyped DEF ClaimedRow, Row
  <2>4. QED
    BY <2>2, <2>3 DEF NoLiveRow, Live
<1>3. ASSUME NEW t \in tasks, Release(t)
      PROVE  NoLiveRow' => NoLiveRow
  <2>1. t.row \in DOMAIN queue
    BY QueueTyped
  <2>2. CASE queue' = Released(t.row)
    <3>1. /\ DOMAIN queue' = DOMAIN queue
          /\ \A j \in DOMAIN queue :
                queue'[j] = IF j = t.row
                            THEN [queue[t.row] EXCEPT !.status = "pending", !.by = NoWorker,
                                                      !.due = FALSE, !.expired = FALSE]
                            ELSE queue[j]
      BY <1>1, <2>1, <2>2, ReleasedEffect
    <3>2. queue'[t.row].status = "pending" /\ queue'[t.row].key = queue[t.row].key
      BY <2>1, <3>1, QueueTyped DEF Row
    <3>3. QED
      BY <3>1, <3>2 DEF NoLiveRow, Live
  <2>3. QED
    BY <1>3, <2>2 DEF Release, NoLiveRow
<1>4. ASSUME NEW t \in tasks, DatabaseError(t)
      PROVE  NoLiveRow' => NoLiveRow
  BY <1>4 DEF DatabaseError, NoLiveRow
<1>5. ASSUME NEW i \in DOMAIN queue, NotBeforePasses(i) \/ LeaseExpires(i)
      PROVE  NoLiveRow' => NoLiveRow
  <2>1. queue[i] \in Row
    BY QueueTyped
  <2>2. \/ queue' = [queue EXCEPT ![i] = [queue[i] EXCEPT !.due = TRUE]]
        \/ queue' = [queue EXCEPT ![i] = [queue[i] EXCEPT !.expired = TRUE]]
    BY <1>5 DEF NotBeforePasses, LeaseExpires
  <2>3. PICK v \in Row : /\ queue' = [queue EXCEPT ![i] = v]
                         /\ v.status = queue[i].status /\ v.key = queue[i].key
    BY <2>1, <2>2 DEF Row
  <2>4. /\ DOMAIN queue' = DOMAIN queue
        /\ \A j \in DOMAIN queue : queue'[j] = IF j = i THEN v ELSE queue[j]
    BY <1>1, <2>3, UpdateOne
  <2>5. QED
    BY <2>3, <2>4 DEF NoLiveRow
<1>6. ASSUME NEW w \in Workers, Start(w) \/ Shutdown(w) \/ Exit(w) \/ Crash(w)
      PROVE  NoLiveRow' => NoLiveRow
  BY <1>6 DEF Start, Shutdown, Exit, Crash, NoLiveRow
<1>7. QED
  BY <1>2, <1>3, <1>4, <1>5, <1>6

------------------------------------------------------------------------------
(* The steps that leave the handlers alone.                                *)

LEMMA RequestGeneration ==
  ASSUME Queue, Queue', Generation,
         CheckRequest \/ (\E n \in posts : CommitRequest(n)) \/ FiveMinutesPass
            \/ SelectOrphan \/ EnqueueOrphan
  PROVE  Generation'
<1> USE DEF Generation
<1>1. letter \in Letter /\ issued \in Nat /\ posts \subseteq Nat
  BY DEF CoverLetterTypeOK
<1>2. TypeOK'
  BY DEF Queue, Base
<1>3. CASE CheckRequest
  <2>1. CoverLetterTypeOK'
    BY <1>1, <1>2, <1>3 DEF CoverLetterTypeOK, CheckRequest
  <2>2. CallsHaveTasks'
    BY <1>3 DEF CallsHaveTasks, CheckRequest, wqVars
  <2>3. RequestsIssued'
    BY <1>1, <1>3 DEF RequestsIssued, CheckRequest, Letter
  <2>4. CallsCurrent'
    BY <1>3 DEF CallsCurrent, CheckRequest, Undisturbed, Requestable, wqVars
  <2>5. SettlersDone' /\ ReadyAnswersNewest' /\ GeneratingHasRow'
    BY <1>3 DEF SettlersDone, ReadyAnswersNewest, GeneratingHasRow, Orphaned, NoLiveRow,
       CheckRequest, Undisturbed, wqVars
  <2>6. QED
    BY <2>1, <2>2, <2>3, <2>4, <2>5
<1>4. ASSUME NEW n \in posts, CommitRequest(n)
      PROVE  Generation'
  <2>1. /\ letter' = [letter EXCEPT !.status = "pending", !.quiet = FALSE,
                                    !.asked = IF n > letter.asked THEN n ELSE letter.asked]
        /\ posts' \subseteq posts
        /\ UNCHANGED <<issued, calls, orphan, tasks, disturbed>>
    BY <1>4 DEF CommitRequest, Enqueue
  <2>2. letter' \in Letter /\ letter'.status = "pending" /\ letter'.asked <= issued
    BY <1>1, <2>1 DEF Letter, GenerationStatus, RequestsIssued
  <2>3. CoverLetterTypeOK' /\ RequestsIssued'
    BY <1>2, <2>1, <2>2 DEF CoverLetterTypeOK, RequestsIssued
  <2>4. CallsHaveTasks' /\ CallsCurrent'
    BY <2>1, <2>2 DEF CallsHaveTasks, CallsCurrent, Undisturbed, InFlightStatus
  <2>5. SettlersDone' /\ ReadyAnswersNewest' /\ GeneratingHasRow'
    BY <2>2 DEF SettlersDone, ReadyAnswersNewest, GeneratingHasRow, Orphaned
  <2>6. QED
    BY <2>3, <2>4, <2>5
<1>5. CASE FiveMinutesPass \/ SelectOrphan
  <2>1. /\ letter' = letter \/ letter' = [letter EXCEPT !.quiet = TRUE]
        /\ orphan' \in BOOLEAN
        /\ UNCHANGED <<posts, issued, calls, tasks, disturbed, queue>>
    BY <1>5 DEF FiveMinutesPass, SelectOrphan, CoverLetterTypeOK, wqVars
  <2>2. /\ letter' \in Letter /\ letter'.status = letter.status
        /\ letter'.asked = letter.asked /\ letter'.written = letter.written
    BY <1>1, <2>1 DEF Letter
  <2>3. CoverLetterTypeOK' /\ RequestsIssued' /\ CallsHaveTasks' /\ CallsCurrent'
    BY <1>2, <2>1, <2>2 DEF CoverLetterTypeOK, RequestsIssued, CallsHaveTasks, CallsCurrent,
       Undisturbed
  <2>4. SettlersDone' /\ ReadyAnswersNewest' /\ GeneratingHasRow'
    BY <2>1, <2>2 DEF SettlersDone, ReadyAnswersNewest, GeneratingHasRow, Orphaned, NoLiveRow,
       Undisturbed
  <2>5. QED
    BY <2>3, <2>4
<1>6. CASE EnqueueOrphan
  <2>1. orphan' \in BOOLEAN /\ UNCHANGED <<letter, posts, issued, calls, tasks, disturbed>>
    BY <1>6 DEF EnqueueOrphan, Enqueue
  <2>2. NoLiveRow' => NoLiveRow
    BY <1>6, EnqueueKeepsRow DEF EnqueueOrphan
  <2>3. CoverLetterTypeOK' /\ RequestsIssued' /\ CallsHaveTasks' /\ CallsCurrent'
    BY <1>2, <2>1 DEF CoverLetterTypeOK, RequestsIssued, CallsHaveTasks, CallsCurrent, Undisturbed
  <2>4. SettlersDone' /\ ReadyAnswersNewest' /\ GeneratingHasRow'
    BY <2>1, <2>2 DEF SettlersDone, ReadyAnswersNewest, GeneratingHasRow, Orphaned, Undisturbed
  <2>5. QED
    BY <2>3, <2>4
<1>7. QED
  BY <1>3, <1>4, <1>5, <1>6

(* The steps of the queue aside from handlers and finalizers.              *)
LEMMA QueueStepGeneration ==
  ASSUME Queue, Queue', Generation, QueueStep
  PROVE  Generation'
<1> USE DEF Generation
<1>1. calls' = Ongoing /\ calls' \subseteq calls /\ UNCHANGED <<letter, posts, issued, orphan>>
  BY DEF QueueStep, Aside, Ongoing
<1>2. disturbed \subseteq disturbed'
  BY DEF QueueStep, Claim, ClaimRow, Release, DatabaseError, NotBeforePasses, LeaseExpires,
     Start, Shutdown, Exit, Crash
<1>3. \A t \in tasks' : t.pc \in {"finish", "fail"} => t \in tasks
  <2>1. ASSUME NEW w \in Workers, NEW lane \in Lanes, Claim(w, lane), NEW t \in tasks'
        PROVE  t.pc \in {"finish", "fail"} => t \in tasks
    <3>1. PICK i \in DOMAIN queue : ClaimRow(w, i)
      BY <2>1 DEF Claim, Claimable
    <3>2. tasks' = tasks \union {ClaimTask(w, i)} /\ ClaimTask(w, i).pc = FirstPc(i, queue[i].attempts + 1)
      BY <3>1 DEF ClaimRow, ClaimTask
    <3>3. FirstPc(i, queue[i].attempts + 1) \in {"run", "retry", "hook"}
      BY DEF FirstPc
    <3>4. QED
      BY <3>2, <3>3
  <2>2. ASSUME NEW s \in tasks, Release(s) \/ DatabaseError(s), NEW t \in tasks'
        PROVE  t.pc \in {"finish", "fail"} => t \in tasks
    BY <2>2, QueueTyped DEF Release, DatabaseError, Goto, End, Task
  <2>3. QED
    BY <2>1, <2>2 DEF QueueStep, NotBeforePasses, LeaseExpires, Start, Shutdown, Exit, Crash
<1>4. NoLiveRow' => NoLiveRow
  BY StepKeepsRow DEF QueueStep
<1>5. CoverLetterTypeOK' /\ RequestsIssued'
  BY <1>1 DEF CoverLetterTypeOK, RequestsIssued, Queue, Base
<1>6. CallsHaveTasks'
  BY <1>1 DEF CallsHaveTasks, Ongoing
<1>7. CallsCurrent' /\ SettlersDone' /\ ReadyAnswersNewest' /\ GeneratingHasRow'
  BY <1>1, <1>2, <1>3, <1>4 DEF CallsCurrent, SettlersDone, ReadyAnswersNewest, GeneratingHasRow,
     Orphaned, Undisturbed
<1>8. QED
  BY <1>5, <1>6, <1>7

------------------------------------------------------------------------------
(* The handler, its hook and the finalizers.                               *)

(* A job that leaves its handler takes its model call with it.  While no   *)
(* row was disturbed it was the only job and its call the only call.       *)
LEMMA HandlerLeft ==
  ASSUME Queue, Generation, NEW t \in tasks, NEW u, u.pc # "run", u.row = t.row,
         u.attempt = t.attempt, tasks' = (tasks \ {t}) \union {u}, UNCHANGED disturbed
  PROVE  /\ Ongoing \subseteq calls
         /\ \A c \in CallsOf(t) : c \notin Ongoing
         /\ Undisturbed => Ongoing = {} /\ \A s \in tasks' : s = u
<1>1. Ongoing \subseteq calls
  BY DEF Ongoing
<1>2. \A c \in CallsOf(t) : c \notin Ongoing
  BY DEF CallsOf, Ongoing, Queue, Execution, AttemptsIdentify
<1>3. ASSUME Undisturbed
      PROVE  Ongoing = {} /\ \A s \in tasks' : s = u
  <2>1. tasks = {t}
    BY <1>3, SoleTask
  <2>2. QED
    BY <2>1 DEF Ongoing
<1>4. QED
  BY <1>1, <1>2, <1>3

LEMMA HandlerGeneration ==
  ASSUME Queue, Queue', Generation, NEW t \in tasks, Generate(t)
  PROVE  Generation'
<1> USE DEF Generation
<1>1. /\ letter \in Letter /\ issued \in Nat /\ posts \subseteq Nat /\ calls \subseteq Call
      /\ orphan \in BOOLEAN /\ t \in Task /\ TypeOK'
      /\ t.row \in DOMAIN queue /\ t.row \in Nat /\ t.attempt \in Nat
  BY QueueTyped DEF CoverLetterTypeOK, Queue, Base
<1>2. CASE BeginCall(t)
  <2> DEFINE call == [row |-> t.row, attempt |-> t.attempt, asked |-> issued]
  <2>1. /\ letter' = [letter EXCEPT !.status = "generating", !.tried = issued, !.quiet = FALSE]
        /\ calls' = calls \union {call}
        /\ t.pc = "run" /\ letter.status \in InFlightStatus
        /\ UNCHANGED <<posts, issued, orphan, queue, tasks, disturbed>>
    BY <1>2 DEF BeginCall, wqVars
  <2>2. letter' \in Letter /\ letter'.status = "generating" /\ letter'.asked = letter.asked
    BY <1>1, <2>1 DEF Letter, GenerationStatus
  <2>3. CoverLetterTypeOK' /\ RequestsIssued'
    BY <1>1, <2>1, <2>2 DEF CoverLetterTypeOK, RequestsIssued, Call
  <2>4. CallsHaveTasks' /\ CallsCurrent'
    BY <2>1, <2>2 DEF CallsHaveTasks, CallsCurrent, Undisturbed, InFlightStatus
  <2>5. SettlersDone'
    BY <2>1, SoleTask DEF SettlersDone, Undisturbed
  <2>6. Undisturbed => ~NoLiveRow
    BY <1>1, SoleTask, QueueTyped DEF NoLiveRow, Live
  <2>7. ReadyAnswersNewest' /\ GeneratingHasRow'
    BY <2>1, <2>2, <2>6 DEF ReadyAnswersNewest, GeneratingHasRow, Orphaned, NoLiveRow, Undisturbed
  <2>8. QED
    BY <2>3, <2>4, <2>5, <2>7
<1>3. CASE SkipCall(t)
  <2> DEFINE u == [t EXCEPT !.pc = "finish", !.follow = NoKey]
  <2>1. /\ letter' = [letter EXCEPT !.tried = issued]
        /\ CallsOf(t) = {} /\ letter.status \notin InFlightStatus
        /\ tasks' = (tasks \ {t}) \union {u}
        /\ UNCHANGED <<posts, issued, calls, orphan, queue, disturbed>>
    BY <1>3 DEF SkipCall, HandlerCommits
  <2>2. u.pc = "finish" /\ u.row = t.row /\ u.attempt = t.attempt
    BY <1>1 DEF Task
  <2>3. /\ letter' \in Letter /\ letter'.status = letter.status
        /\ letter'.asked = letter.asked /\ letter'.written = letter.written
    BY <1>1, <2>1 DEF Letter
  <2>4. CoverLetterTypeOK' /\ RequestsIssued'
    BY <1>1, <2>1, <2>3 DEF CoverLetterTypeOK, RequestsIssued
  <2>5. CallsHaveTasks'
    BY <2>1 DEF CallsHaveTasks, CallsOf
  <2>6. CallsCurrent'
    BY <2>1, <2>3 DEF CallsCurrent, Undisturbed
  <2>7. SettlersDone' /\ ReadyAnswersNewest' /\ GeneratingHasRow'
    BY <2>1, <2>3 DEF SettlersDone, ReadyAnswersNewest, GeneratingHasRow, Orphaned, NoLiveRow,
       InFlightStatus, Undisturbed
  <2>8. QED
    BY <2>4, <2>5, <2>6, <2>7
<1>4. CASE CallSucceeds(t)
  <2> DEFINE u == [t EXCEPT !.pc = "finish", !.follow = NoKey]
  <2>1. PICK c \in CallsOf(t) :
           /\ letter' = [letter EXCEPT !.status = "ready", !.written = c.asked, !.quiet = FALSE]
           /\ calls' = Ongoing
           /\ tasks' = (tasks \ {t}) \union {u}
           /\ UNCHANGED <<posts, issued, orphan, queue, disturbed>>
    BY <1>4 DEF CallSucceeds, HandlerCommits
  <2>2. u.pc = "finish" /\ u.row = t.row /\ u.attempt = t.attempt
    BY <1>1 DEF Task
  <2>3. c \in calls /\ c.asked \in Nat
    BY <1>1 DEF CallsOf, Call
  <2>4. /\ letter' \in Letter /\ letter'.status = "ready"
        /\ letter'.asked = letter.asked /\ letter'.written = c.asked
    BY <1>1, <2>1, <2>3 DEF Letter, GenerationStatus
  <2>5. Ongoing \subseteq calls /\ (Undisturbed => Ongoing = {})
    BY <2>1, <2>2, HandlerLeft
  <2>6. CoverLetterTypeOK' /\ RequestsIssued'
    BY <1>1, <2>1, <2>4, <2>5 DEF CoverLetterTypeOK, RequestsIssued
  <2>7. CallsHaveTasks' /\ CallsCurrent'
    BY <2>1, <2>5 DEF CallsHaveTasks, CallsCurrent, Ongoing, Undisturbed
  <2>8. ReadyAnswersNewest'
    BY <1>1, <2>1, <2>3, <2>4 DEF ReadyAnswersNewest, Undisturbed, CallsCurrent, RequestsIssued, Letter
  <2>9. SettlersDone' /\ GeneratingHasRow'
    BY <2>4 DEF SettlersDone, GeneratingHasRow, Orphaned
  <2>10. QED
    BY <2>6, <2>7, <2>8, <2>9
<1>5. CASE RateLimited(t) \/ CallFails(t) \/ HandlerBreaks(t)
  <2> DEFINE u(pc) == [t EXCEPT !.pc = pc]
  <2>1. PICK pc \in {"retry", "hook"} : tasks' = (tasks \ {t}) \union {u(pc)}
    BY <1>5 DEF RateLimited, CallFails, HandlerBreaks, HandlerRaisesTransient, HandlerRaises, Goto
  <2>2. u(pc).pc = pc /\ u(pc).row = t.row /\ u(pc).attempt = t.attempt
    BY <1>1 DEF Task
  <2>3. calls' = Ongoing /\ UNCHANGED <<posts, issued, orphan, queue, disturbed>>
    BY <1>5 DEF RateLimited, CallFails, HandlerBreaks, HandlerRaisesTransient, HandlerRaises
  <2>4. /\ letter' \in Letter /\ letter'.asked = letter.asked /\ letter'.written = letter.written
        /\ letter'.status = letter.status \/ letter'.status \in {"pending", "failed"}
    BY <1>1, <1>5 DEF RateLimited, CallFails, HandlerBreaks, Become, Letter, GenerationStatus
  <2>5. /\ Ongoing \subseteq calls
        /\ Undisturbed => Ongoing = {} /\ \A s \in tasks' : s = u(pc)
    BY <2>1, <2>2, <2>3, HandlerLeft
  <2>6. CoverLetterTypeOK' /\ RequestsIssued'
    BY <1>1, <2>3, <2>4, <2>5 DEF CoverLetterTypeOK, RequestsIssued
  <2>7. CallsHaveTasks' /\ CallsCurrent'
    BY <2>3, <2>5 DEF CallsHaveTasks, CallsCurrent, Ongoing, Undisturbed
  <2>8. SettlersDone'
    BY <2>2, <2>3, <2>5 DEF SettlersDone, Undisturbed
  <2>9. ReadyAnswersNewest' /\ GeneratingHasRow'
    BY <2>3, <2>4 DEF ReadyAnswersNewest, GeneratingHasRow, Orphaned, NoLiveRow, Undisturbed
  <2>10. QED
    BY <2>6, <2>7, <2>8, <2>9
<1>6. QED
  BY <1>2, <1>3, <1>4, <1>5 DEF Generate

LEMMA HookGeneration ==
  ASSUME Queue, Queue', Generation, NEW t \in tasks, TerminalFailure(t)
  PROVE  Generation'
<1> USE DEF Generation
<1> DEFINE u == [t EXCEPT !.pc = "fail"]
<1>1. /\ letter \in Letter /\ t \in Task /\ TypeOK'
  BY QueueTyped DEF CoverLetterTypeOK, Queue, Base
<1>2. /\ t.pc = "hook" /\ tasks' = (tasks \ {t}) \union {u}
      /\ UNCHANGED <<posts, issued, calls, orphan, queue, disturbed>>
  BY DEF TerminalFailure, HookReturns, Goto
<1>3. u.pc = "fail" /\ u.row = t.row /\ u.attempt = t.attempt
  BY <1>1 DEF Task
<1>4. /\ letter' \in Letter /\ letter'.asked = letter.asked /\ letter'.written = letter.written
      /\ letter'.status \notin InFlightStatus
      /\ letter'.status = letter.status \/ letter'.status = "failed"
  BY <1>1 DEF TerminalFailure, Become, Letter, GenerationStatus, InFlightStatus
<1>5. Undisturbed => calls = {}
  BY <1>2, SoleTask DEF CallsHaveTasks
<1>6. CoverLetterTypeOK' /\ RequestsIssued'
  BY <1>1, <1>2, <1>4 DEF CoverLetterTypeOK, RequestsIssued
<1>7. CallsHaveTasks' /\ CallsCurrent'
  BY <1>2, <1>5 DEF CallsHaveTasks, CallsCurrent, Undisturbed
<1>8. SettlersDone' /\ ReadyAnswersNewest' /\ GeneratingHasRow'
  BY <1>2, <1>4 DEF SettlersDone, ReadyAnswersNewest, GeneratingHasRow, Orphaned, InFlightStatus,
     Undisturbed
<1>9. QED
  BY <1>6, <1>7, <1>8

LEMMA SettleGeneration ==
  ASSUME Queue, Queue', Generation, NEW t \in tasks, Settle(t)
  PROVE  Generation'
<1> USE DEF Generation
<1>1. /\ letter \in Letter /\ t \in Task /\ TypeOK'
  BY QueueTyped DEF CoverLetterTypeOK, Queue, Base
<1>2. /\ t.pc \in {"finish", "fail"}
      /\ tasks' = tasks \ {t} \/ tasks' = (tasks \ {t}) \union {[t EXCEPT !.pc = "giveback"]}
      /\ UNCHANGED <<posts, issued, calls, orphan, disturbed>>
  BY DEF Settle, MarkDone, MarkFailed, Goto, End
<1>3. [t EXCEPT !.pc = "giveback"].pc = "giveback"
  BY <1>1 DEF Task
<1>4. /\ letter' \in Letter /\ letter'.asked = letter.asked /\ letter'.written = letter.written
      /\ letter'.status = letter.status
  <2>1. PICK b \in BOOLEAN : letter' = [letter EXCEPT !.quiet = b]
    <3>1. letter' = [letter EXCEPT !.quiet = letter.quiet /\ ~Owns(t)]
      BY DEF Settle
    <3>2. (letter.quiet /\ ~Owns(t)) \in BOOLEAN
      OBVIOUS
    <3>3. QED
      BY <3>1, <3>2, Zenon
  <2>2. QED
    BY <1>1, <2>1 DEF Letter
<1>5. Undisturbed => letter.status # "generating"
  BY <1>2 DEF SettlersDone
<1>6. CoverLetterTypeOK' /\ RequestsIssued'
  BY <1>1, <1>2, <1>4 DEF CoverLetterTypeOK, RequestsIssued
<1>7. CallsHaveTasks' /\ CallsCurrent'
  BY <1>2, <1>4 DEF CallsHaveTasks, CallsCurrent, Undisturbed
<1>8. SettlersDone' /\ ReadyAnswersNewest' /\ GeneratingHasRow'
  BY <1>2, <1>3, <1>4, <1>5 DEF SettlersDone, ReadyAnswersNewest, GeneratingHasRow, Orphaned,
     Undisturbed
<1>9. QED
  BY <1>6, <1>7, <1>8

------------------------------------------------------------------------------
(* The theorems.                                                           *)

LEMMA GenerationStep ==
  ASSUME Queue, Queue', Generation, [CoverLetterNext]_clVars
  PROVE  Generation'
<1>1. CASE UNCHANGED clVars
  BY <1>1 DEF clVars, Generation, CoverLetterTypeOK, Queue, Base, CallsHaveTasks, RequestsIssued,
     CallsCurrent, SettlersDone, ReadyAnswersNewest, GeneratingHasRow, Orphaned, NoLiveRow,
     Undisturbed
<1>2. CASE CheckRequest \/ (\E n \in posts : CommitRequest(n)) \/ FiveMinutesPass
              \/ SelectOrphan \/ EnqueueOrphan
  BY <1>2, RequestGeneration
<1>3. CASE \E t \in tasks : Generate(t) \/ TerminalFailure(t) \/ Settle(t)
  BY <1>3, HandlerGeneration, HookGeneration, SettleGeneration
<1>4. CASE QueueStep
  BY <1>4, QueueStepGeneration
<1>5. QED
  BY <1>1, <1>2, <1>3, <1>4 DEF CoverLetterNext

LEMMA GenerationInvariant == CoverLetterSpec => []Generation
<1>1. ASSUME CoverLetterInit, Queue
      PROVE  Generation
  <2>1. /\ letter = [status |-> "none", asked |-> 0, tried |-> 0, written |-> 0, quiet |-> FALSE]
        /\ posts = {} /\ issued = 0 /\ calls = {} /\ orphan = FALSE
    BY <1>1 DEF CoverLetterInit
  <2>2. CoverLetterTypeOK
    BY <1>1, <2>1 DEF CoverLetterTypeOK, Letter, GenerationStatus, Queue, Base
  <2>3. QED
    BY <2>1, <2>2 DEF Generation, CallsHaveTasks, RequestsIssued, CallsCurrent, SettlersDone,
       ReadyAnswersNewest, GeneratingHasRow, Orphaned
<1>2. Queue /\ Queue' /\ Generation /\ [CoverLetterNext]_clVars => Generation'
  BY GenerationStep
<1>3. CoverLetterInit /\ Queue => Generation
  BY <1>1
<1>4. QED
  BY <1>2, <1>3, QueueInvariant, PTL DEF CoverLetterSpec

(* The application row, the requests and the model calls keep their types. *)
THEOREM CoverLetterTypeCorrect == CoverLetterSpec => []CoverLetterTypeOK
<1>1. Generation => CoverLetterTypeOK
  BY DEF Generation
<1>2. QED
  BY <1>1, GenerationInvariant, PTL

(* However requests, replays, retries and shutdowns interleave, a letter   *)
(* shown as ready was written by a model call that began after the newest  *)
(* committed request, as long as no lease ran out under a job.             *)
THEOREM ReadyIsNewest == CoverLetterSpec => []ReadyAnswersNewest
<1>1. Generation => ReadyAnswersNewest
  BY DEF Generation
<1>2. QED
  BY <1>1, GenerationInvariant, PTL

(* A letter left in "generating" without a row to carry it on, the state   *)
(* neither the cron nor the POST leads out of, takes a disturbed row.      *)
THEOREM GeneratingIsCarried == CoverLetterSpec => []GeneratingHasRow
<1>1. Generation => GeneratingHasRow
  BY DEF Generation
<1>2. QED
  BY <1>1, GenerationInvariant, PTL

(* A job whose call was open when it left the handler: the call is closed, *)
(* and if the letter had its outcome by then, a row was disturbed.         *)
LEMMA AnswerIsLate ==
  ASSUME Queue, Generation, NEW t \in tasks, NEW pc \in {"finish", "retry", "hook"},
         NEW u, u.pc = pc, u.row = t.row, u.attempt = t.attempt,
         tasks' = (tasks \ {t}) \union {u}, UNCHANGED disturbed, calls' = Ongoing,
         CallsOf(t) # {}, letter.status \in Requestable
  PROVE  disturbed # {} /\ calls \ calls' # {}
<1>1. PICK c : c \in CallsOf(t)
  OBVIOUS
<1>2. c \in calls /\ c \notin calls'
  BY <1>1, HandlerLeft DEF CallsOf
<1>3. ~Undisturbed
  BY <1>2 DEF Generation, CallsCurrent, Requestable
<1>4. QED
  BY <1>2, <1>3 DEF Undisturbed

(* What the user was shown stands: once a letter is ready or failed, its   *)
(* status changes only by a new request or by the late answer of a call    *)
(* whose row was disturbed.                                                *)
THEOREM OutcomeHolds == CoverLetterSpec => OutcomeStands
<1> DEFINE Outcome == letter.status \in Requestable /\ letter'.status # letter.status
           Allowed == letter'.status = "pending" \/ (disturbed # {} /\ calls \ calls' # {})
<1>1. ASSUME Queue, Generation, CoverLetterNext, Outcome
      PROVE  Allowed
  <2>1. letter \in Letter
    BY <1>1 DEF Generation, CoverLetterTypeOK
  <2>2. letter.status \notin InFlightStatus /\ letter'.status # letter.status
    BY <1>1 DEF Requestable
  <2>3. CASE \E n \in posts : CommitRequest(n)
    BY <2>1, <2>3 DEF CommitRequest, Letter
  <2>4. CASE CheckRequest \/ FiveMinutesPass \/ SelectOrphan \/ EnqueueOrphan \/ QueueStep
    BY <2>1, <2>2, <2>4 DEF CheckRequest, FiveMinutesPass, SelectOrphan, EnqueueOrphan, QueueStep,
       Aside, Letter
  <2>5. ASSUME NEW t \in tasks, Generate(t)
        PROVE  Allowed
    <3>1. t \in Task
      BY <1>1, QueueTyped
    <3>2. CASE BeginCall(t) \/ SkipCall(t) \/ RateLimited(t) \/ HandlerBreaks(t)
      BY <2>1, <2>2, <3>2 DEF BeginCall, SkipCall, RateLimited, HandlerBreaks, Become, Letter,
         InFlightStatus
    <3>3. CASE CallSucceeds(t)
      <4> DEFINE u == [t EXCEPT !.pc = "finish", !.follow = NoKey]
      <4>1. u.pc = "finish" /\ u.row = t.row /\ u.attempt = t.attempt
        BY <3>1 DEF Task
      <4>2. tasks' = (tasks \ {t}) \union {u} /\ UNCHANGED disturbed /\ calls' = Ongoing
            /\ CallsOf(t) # {}
        BY <3>3 DEF CallSucceeds, HandlerCommits
      <4> HIDE DEF u
      <4>3. QED
        BY <1>1, <4>1, <4>2, AnswerIsLate
    <3>4. CASE CallFails(t)
      <4> DEFINE u(pc) == [t EXCEPT !.pc = pc]
      <4>1. PICK pc \in {"retry", "hook"} : tasks' = (tasks \ {t}) \union {u(pc)}
        BY <3>4 DEF CallFails, HandlerRaises, Goto
      <4>2. u(pc).pc = pc /\ u(pc).row = t.row /\ u(pc).attempt = t.attempt
        BY <3>1, <4>1 DEF Task
      <4>3. UNCHANGED disturbed /\ calls' = Ongoing /\ CallsOf(t) # {}
        BY <3>4 DEF CallFails, HandlerRaises
      <4> HIDE DEF u
      <4>4. QED
        BY <1>1, <4>1, <4>2, <4>3, AnswerIsLate
    <3>5. QED
      BY <2>5, <3>2, <3>3, <3>4 DEF Generate
  <2>6. ASSUME NEW t \in tasks, TerminalFailure(t) \/ Settle(t)
        PROVE  Allowed
    BY <2>1, <2>2, <2>6 DEF TerminalFailure, Become, Settle, Letter
  <2>7. QED
    BY <1>1, <2>3, <2>4, <2>5, <2>6 DEF CoverLetterNext
<1>2. ASSUME Queue, Generation, [CoverLetterNext]_clVars
      PROVE  [Outcome => Allowed]_clVars
  BY <1>1, <1>2
<1>3. QED
  BY <1>2, QueueInvariant, GenerationInvariant, PTL DEF CoverLetterSpec, OutcomeStands

------------------------------------------------------------------------------
(* A request is not reported failed untried.                               *)

(* Rows, letters and orphans come from requests.                           *)
RequestsFirst ==
  /\ \A n \in posts : n >= 1 /\ n <= issued
  /\ queue # <<>> \/ orphan \/ letter.status # "none" => issued >= 1

(* The row's last claim is with a worker that goes on with it.             *)
InHand(i) ==
  /\ queue[i].status = "in_progress" /\ ~queue[i].expired
  /\ \E t \in tasks : /\ t.row = i /\ t.attempt = queue[i].attempts
                      /\ workers[t.by] = "up"

(* Before a handler looks at the letter a claim ends by a fault only, so   *)
(* that it takes MaxAttempts faults to use the attempts of a row up.       *)
Untried ==
  letter.tried = 0 /\ faults < MaxAttempts =>
     /\ calls = {} /\ letter.status \in {"none", "pending"}
     /\ \A t \in tasks : t.pc = "run"
     /\ \A i \in DOMAIN queue : \/ queue[i].attempts <= faults
                                \/ queue[i].attempts <= faults + 1 /\ InHand(i)

Trying == CoverLetterTypeOK /\ RequestsFirst /\ Untried

LEMMA RequestsFirstStep ==
  ASSUME Queue, Trying, CoverLetterNext
  PROVE  RequestsFirst' /\ issued <= issued'
<1> USE DEF Trying, RequestsFirst
<1>1. letter \in Letter /\ issued \in Nat /\ posts \subseteq Nat /\ orphan \in BOOLEAN
  BY DEF CoverLetterTypeOK
<1>2. CASE CheckRequest
  BY <1>1, <1>2 DEF CheckRequest, wqVars
<1>3. ASSUME NEW n \in posts, CommitRequest(n)
      PROVE  RequestsFirst' /\ issued <= issued'
  BY <1>1, <1>3 DEF CommitRequest
<1>4. CASE FiveMinutesPass \/ SelectOrphan
  BY <1>1, <1>4 DEF FiveMinutesPass, SelectOrphan, wqVars
<1>5. CASE EnqueueOrphan
  BY <1>1, <1>5 DEF EnqueueOrphan
<1>6. ASSUME NEW t \in tasks, Generate(t) \/ TerminalFailure(t) \/ Settle(t)
      PROVE  RequestsFirst' /\ issued <= issued'
  <2>1. queue # <<>> /\ issued >= 1
    <3>1. t.row \in DOMAIN queue
      BY QueueTyped
    <3>2. QED
      BY <3>1
  <2>2. UNCHANGED <<posts, issued>>
    BY <1>6 DEF Generate, BeginCall, SkipCall, CallSucceeds, RateLimited, CallFails, HandlerBreaks,
       TerminalFailure, Settle
  <2>3. QED
    BY <1>1, <2>1, <2>2
<1>7. CASE QueueStep
  <2>1. queue' # <<>> => queue # <<>>
    <3>1. ASSUME NEW w \in Workers, NEW lane \in Lanes, Claim(w, lane)
          PROVE  queue # <<>>
      BY <3>1 DEF Claim, Claimable
    <3>2. ASSUME NEW t \in tasks
          PROVE  queue # <<>>
      BY QueueTyped
    <3>3. ASSUME NEW i \in DOMAIN queue
          PROVE  queue # <<>>
      OBVIOUS
    <3>4. ASSUME NEW w \in Workers, Start(w) \/ Shutdown(w) \/ Exit(w) \/ Crash(w)
          PROVE  queue' = queue
      BY <3>4 DEF Start, Shutdown, Exit, Crash
    <3>5. QED
      BY <1>7, <3>1, <3>2, <3>3, <3>4 DEF QueueStep
  <2>2. UNCHANGED <<letter, posts, issued, orphan>>
    BY <1>7 DEF QueueStep, Aside
  <2>3. QED
    BY <1>1, <2>1, <2>2
<1>8. QED
  BY <1>2, <1>3, <1>4, <1>5, <1>6, <1>7 DEF CoverLetterNext

(* The rows as the claims left them.                                       *)
LEMMA UntriedEnqueue ==
  ASSUME Queue, Trying, Enqueue(LetterKey, "do_nothing"), letter'.tried = letter.tried,
         letter'.status \in {"none", "pending"} \/ letter'.status = letter.status, calls' = calls
  PROVE  Untried'
<1> USE DEF Trying
<1>1. queue \in Seq(Row) /\ faults \in Nat
  BY DEF Queue, Base, TypeOK
<1>2. UNCHANGED <<tasks, workers, faults>>
  BY DEF Enqueue
<1>3. PICK due \in BOOLEAN : queue' = Enqueued(queue, LetterKey, "do_nothing", due)
  BY Zenon DEF Enqueue
<1>4. queue' = queue \/ queue' = Append(queue, NewRow(LetterKey, due))
  BY <1>3 DEF Enqueued
<1>5. \A i \in DOMAIN queue' : \/ i \in DOMAIN queue /\ queue'[i] = queue[i]
                               \/ queue'[i].attempts = 0
  <2>1. CASE queue' = Append(queue, NewRow(LetterKey, due))
    <3>1. NewRow(LetterKey, due) \in Row /\ NewRow(LetterKey, due).attempts = 0
      BY LetterAssumption DEF NewRow, Row, Status
    <3>2. QED
      BY <1>1, <2>1, <3>1, AppendOne
  <2>2. QED
    BY <1>4, <2>1
<1>6. QED
  BY <1>1, <1>2, <1>5 DEF Untried, InHand

LEMMA UntriedClaim ==
  ASSUME Queue, Trying, NEW w \in Workers, NEW lane \in Lanes, Claim(w, lane), Aside
  PROVE  Untried'
<1> USE DEF Trying
<1>1. queue \in Seq(Row) /\ faults \in Nat /\ MaxAttempts \in Nat
  BY BoundsAssumption DEF Queue, Base, TypeOK
<1>2. PICK i \in Claimable(w, lane) : ClaimRow(w, i) /\ workers[w] = "up"
  BY DEF Claim
<1>3. /\ i \in DOMAIN queue /\ queue[i] \in Row /\ queue[i].attempts \in Nat
      /\ queue[i].status = "pending" \/ queue[i].expired
  BY <1>2, QueueTyped DEF Claimable, Row
<1>4. /\ DOMAIN queue' = DOMAIN queue
      /\ \A j \in DOMAIN queue : queue'[j] = IF j = i THEN ClaimedRow(w, i) ELSE queue[j]
      /\ tasks' = tasks \union {ClaimTask(w, i)} /\ UNCHANGED <<workers, faults>>
  BY <1>1, <1>2, <1>3, ClaimEffect DEF ClaimRow
<1>5. /\ ClaimedRow(w, i).status = "in_progress" /\ ClaimedRow(w, i).expired = FALSE
      /\ ClaimedRow(w, i).attempts = queue[i].attempts + 1
  BY <1>3 DEF ClaimedRow, Row
<1>6. /\ ClaimTask(w, i).row = i /\ ClaimTask(w, i).attempt = queue[i].attempts + 1
      /\ ClaimTask(w, i).by = w /\ ClaimTask(w, i).pc = FirstPc(i, queue[i].attempts + 1)
  BY DEF ClaimTask
<1>7. ASSUME letter.tried = 0, faults < MaxAttempts
      PROVE  /\ queue[i].attempts <= faults
             /\ FirstPc(i, queue[i].attempts + 1) = "run"
  <2>1. queue[i].attempts <= faults
    BY <1>3, <1>7 DEF Untried, InHand
  <2>2. RowType(i) \in Handled
    BY <1>3, QueueTyped, LetterAssumption DEF RowType
  <2>3. QED
    BY <1>1, <1>3, <1>7, <2>1, <2>2 DEF FirstPc
<1>8. calls' \subseteq calls /\ letter' = letter
  BY DEF Aside, Ongoing
<1> SUFFICES ASSUME letter.tried = 0, faults < MaxAttempts
             PROVE  /\ \A t \in tasks' : t.pc = "run"
                    /\ \A j \in DOMAIN queue : \/ queue'[j].attempts <= faults
                                               \/ queue'[j].attempts <= faults + 1 /\ InHand(j)'
  BY <1>4, <1>8 DEF Untried
<1>9. \A t \in tasks' : t.pc = "run"
  BY <1>4, <1>6, <1>7 DEF Untried
<1>10. ASSUME NEW j \in DOMAIN queue
       PROVE  \/ queue'[j].attempts <= faults
              \/ queue'[j].attempts <= faults + 1 /\ InHand(j)'
  <2>1. CASE j = i
    <3>1. InHand(i)'
      BY <1>2, <1>3, <1>4, <1>5, <1>6 DEF InHand
    <3>2. QED
      BY <1>1, <1>3, <1>4, <1>5, <1>7, <2>1, <3>1
  <2>2. CASE j # i
    BY <1>4, <2>2 DEF Untried, InHand
  <2>3. QED
    BY <2>1, <2>2
<1>11. QED
  BY <1>9, <1>10

LEMMA UntriedStep ==
  ASSUME Queue, Trying, CoverLetterNext
  PROVE  Untried'
<1> USE DEF Trying
<1>1. /\ letter \in Letter /\ issued \in Nat /\ faults \in Nat /\ MaxAttempts \in Nat
      /\ queue \in Seq(Row)
  BY BoundsAssumption DEF CoverLetterTypeOK, Queue, Base, TypeOK
<1>2. CASE CheckRequest \/ FiveMinutesPass \/ SelectOrphan
  <2>1. /\ letter' = letter \/ letter' = [letter EXCEPT !.quiet = TRUE]
        /\ UNCHANGED <<calls, queue, tasks, workers, faults>>
    BY <1>2 DEF CheckRequest, FiveMinutesPass, SelectOrphan, wqVars
  <2>2. letter'.tried = letter.tried /\ letter'.status = letter.status
    BY <1>1, <2>1 DEF Letter
  <2>3. QED
    BY <2>1, <2>2 DEF Untried, InHand
<1>3. ASSUME NEW n \in posts, CommitRequest(n)
      PROVE  Untried'
  <2>1. letter'.tried = letter.tried /\ letter'.status = "pending"
    BY <1>1, <1>3 DEF CommitRequest, Letter
  <2>2. QED
    BY <1>3, <2>1, UntriedEnqueue DEF CommitRequest
<1>4. CASE EnqueueOrphan
  BY <1>4, UntriedEnqueue DEF EnqueueOrphan
<1>5. ASSUME NEW t \in tasks, Generate(t)
      PROVE  Untried'
  <2>1. issued >= 1
    BY QueueTyped DEF RequestsFirst
  <2>2. faults' = faults
    BY <1>5 DEF Generate, BeginCall, SkipCall, CallSucceeds, RateLimited, CallFails, HandlerBreaks,
       HandlerCommits, HandlerRaises, HandlerRaisesTransient, wqVars
  <2>3. CASE letter.tried = 0 /\ faults < MaxAttempts
    <3>1. CallsOf(t) = {}
      BY <2>3 DEF Untried, CallsOf
    <3>2. letter'.tried = issued
      BY <1>1, <1>5, <3>1 DEF Generate, BeginCall, SkipCall, CallSucceeds, RateLimited, CallFails,
         HandlerBreaks, Letter
    <3>3. QED
      BY <1>1, <2>1, <3>2 DEF Untried
  <2>4. CASE ~(letter.tried = 0 /\ faults < MaxAttempts)
    <3>1. letter'.tried \in {letter.tried, issued}
      BY <1>1, <1>5 DEF Generate, BeginCall, SkipCall, CallSucceeds, RateLimited, CallFails,
         HandlerBreaks, Become, Letter
    <3>2. QED
      BY <1>1, <2>1, <2>2, <2>4, <3>1 DEF Untried
  <2>5. QED
    BY <2>3, <2>4
<1>6. ASSUME NEW t \in tasks, TerminalFailure(t) \/ Settle(t)
      PROVE  Untried'
  <2>1. t.pc # "run" /\ faults' = faults /\ letter'.tried = letter.tried
    BY <1>1, <1>6 DEF TerminalFailure, Settle, HookReturns, MarkDone, MarkFailed, Become, Letter
  <2>2. QED
    BY <2>1 DEF Untried
<1>7. CASE QueueStep
  <2>1. letter' = letter /\ calls' \subseteq calls
    BY <1>7 DEF QueueStep, Aside, Ongoing
  <2>2. ASSUME NEW t \in tasks, Release(t) \/ DatabaseError(t)
        PROVE  Untried'
    <3>1. t.pc # "run" /\ faults' >= faults
      BY <1>1, <2>2 DEF Release, DatabaseError
    <3>2. faults' \in Nat
      BY <1>1, <2>2 DEF Release, DatabaseError
    <3>3. QED
      BY <1>1, <2>1, <3>1, <3>2 DEF Untried
  <2>3. ASSUME NEW i \in DOMAIN queue, NotBeforePasses(i) \/ LeaseExpires(i)
        PROVE  Untried'
    <3>1. queue[i] \in Row /\ queue[i].attempts \in Nat
      BY QueueTyped DEF Row
    <3>2. PICK row \in Row : /\ queue' = [queue EXCEPT ![i] = row]
                             /\ row.attempts = queue[i].attempts /\ row.status = queue[i].status
                             /\ row.expired = queue[i].expired \/ LeaseExpires(i)
      <4>1. ASSUME NEW due \in BOOLEAN, NEW expired \in BOOLEAN
            PROVE  LET row == [queue[i] EXCEPT !.due = due, !.expired = expired]
                   IN  /\ row \in Row /\ row.attempts = queue[i].attempts
                       /\ row.status = queue[i].status /\ row.expired = expired
        BY <3>1 DEF Row
      <4>2. queue[i].due \in BOOLEAN /\ queue[i].expired \in BOOLEAN
        BY <3>1 DEF Row
      <4>3. CASE NotBeforePasses(i)
        <5>1. queue' = [queue EXCEPT ![i] = [queue[i] EXCEPT !.due = TRUE, !.expired = queue[i].expired]]
          BY <3>1, <4>3 DEF NotBeforePasses, Row
        <5>2. QED
          BY <4>1, <4>2, <5>1
      <4>4. CASE LeaseExpires(i)
        <5>1. queue' = [queue EXCEPT ![i] = [queue[i] EXCEPT !.due = queue[i].due, !.expired = TRUE]]
          BY <3>1, <4>4 DEF LeaseExpires, Row
        <5>2. QED
          BY <4>1, <4>2, <4>4, <5>1
      <4>5. QED
        BY <2>3, <4>3, <4>4
    <3>3. /\ DOMAIN queue' = DOMAIN queue
          /\ \A j \in DOMAIN queue : queue'[j] = IF j = i THEN row ELSE queue[j]
      BY <1>1, <3>2, UpdateOne
    <3>4. UNCHANGED <<tasks, workers>>
      BY <2>3 DEF NotBeforePasses, LeaseExpires
    <3>5. CASE LeaseExpires(i)
      <4>1. (faults' = faults /\ ~InHand(i)) \/ faults' = faults + 1
        BY <3>5 DEF LeaseExpires, Attended, InHand
      <4>2. \A j \in DOMAIN queue : j # i => (InHand(j) => InHand(j)')
        BY <3>3, <3>4 DEF InHand
      <4>3. QED
        BY <1>1, <2>1, <3>1, <3>2, <3>3, <3>4, <4>1, <4>2, QueueTyped DEF Untried, Row
    <3>6. CASE ~LeaseExpires(i)
      <4>1. faults' = faults
        BY <2>3, <3>6 DEF NotBeforePasses
      <4>2. \A j \in DOMAIN queue : InHand(j) => InHand(j)'
        BY <3>2, <3>3, <3>4, <3>6 DEF InHand
      <4>3. QED
        BY <2>1, <3>2, <3>3, <3>4, <4>1, <4>2 DEF Untried
    <3>7. QED
      BY <3>5, <3>6
  <2>4. ASSUME NEW w \in Workers, Start(w) \/ Shutdown(w) \/ Exit(w) \/ Crash(w)
        PROVE  Untried'
    <3>1. tasks' \subseteq tasks /\ queue' = queue
      BY <2>4 DEF Start, Shutdown, Exit, Crash
    <3>2. \A i \in DOMAIN queue : queue[i].attempts \in Nat
      BY QueueTyped DEF Row
    <3>3. CASE Start(w) \/ Exit(w)
      <4>1. /\ faults' = faults
            /\ \A t \in tasks : workers[t.by] = "up" => t \in tasks' /\ workers'[t.by] = "up"
        BY <3>3, QueueTyped DEF Start, Exit, Queue, Base, TypeOK, Task
      <4>2. \A i \in DOMAIN queue : InHand(i) => InHand(i)'
        BY <3>1, <4>1 DEF InHand
      <4>3. QED
        BY <2>1, <3>1, <4>1, <4>2 DEF Untried
    <3>4. CASE Shutdown(w) \/ Crash(w)
      <4>1. faults' = faults + 1
        BY <3>4 DEF Shutdown, Crash
      <4>2. QED
        BY <1>1, <2>1, <3>1, <3>2, <4>1 DEF Untried
    <3>5. QED
      BY <2>4, <3>3, <3>4
  <2>5. ASSUME NEW w \in Workers, NEW lane \in Lanes, Claim(w, lane)
        PROVE  Untried'
    BY <1>7, <2>5, UntriedClaim DEF QueueStep
  <2>6. QED
    BY <1>7, <2>2, <2>3, <2>4, <2>5 DEF QueueStep
<1>8. QED
  BY <1>2, <1>3, <1>4, <1>5, <1>6, <1>7 DEF CoverLetterNext

LEMMA TryingInvariant == CoverLetterSpec => []Trying
<1>1. CoverLetterInit => RequestsFirst /\ Untried
  BY DEF CoverLetterInit, Init, RequestsFirst, Untried
<1>2. Queue /\ CoverLetterTypeOK /\ RequestsFirst /\ Untried /\ [CoverLetterNext]_clVars
        => RequestsFirst' /\ Untried'
  <2>1. ASSUME Queue, Trying, CoverLetterNext
        PROVE  RequestsFirst' /\ Untried'
    BY <2>1, RequestsFirstStep, UntriedStep
  <2>2. ASSUME RequestsFirst, Untried, UNCHANGED clVars
        PROVE  RequestsFirst' /\ Untried'
    BY <2>2 DEF clVars, RequestsFirst, Untried, InHand
  <2>3. QED
    BY <2>1, <2>2 DEF Trying
<1>3. CoverLetterTypeOK /\ RequestsFirst /\ Untried => Trying
  BY DEF Trying
<1>4. QED
  BY <1>1, <1>2, <1>3, QueueInvariant, CoverLetterTypeCorrect, PTL DEF CoverLetterSpec

(* A letter that failed was looked at by a handler, unless there were      *)
(* enough faults to use up the attempts of its row.                        *)
THEOREM FailureWasTried == CoverLetterSpec => []FailedWasTried
<1>1. Trying => FailedWasTried
  BY BoundsAssumption DEF Trying, FailedWasTried, Untried, CoverLetterTypeOK, Letter, TypeOK
<1>2. QED
  BY <1>1, TryingInvariant, PTL
==============================================================================
