--------------------------- MODULE BatchMatchProofs ---------------------------
(***************************************************************************)
(* Batch matching keeps the promises of the queue it runs on, and pays,    *)
(* finishes and carries its batches as BatchMatch states, for every number *)
(* of workers, applications, batches, rows and retries.                    *)
(***************************************************************************)
EXTENDS BatchMatch, WorkQueueLeaseProofs

(* Every step of the composition is a step of the queue, or leaves the     *)
(* queue alone.                                                            *)
LEMMA BatchStep == [BatchNext]_bmVars => [Next]_wqVars
<1> SUFFICES ASSUME [BatchNext]_bmVars
             PROVE  [Next]_wqVars
  OBVIOUS
<1>1. CASE UNCHANGED bmVars
  BY <1>1 DEF bmVars, wqVars
<1>2. ASSUME NEW t \in tasks, Begin(t) \/ Return(t) \/ Raise(t)
      PROVE  [Next]_wqVars
  <2>1. CASE Begin(t)
    BY <2>1 DEF Begin, wqVars
  <2>2. CASE Return(t) \/ Raise(t)
    <3>1. HandlerCommits(t, BatchKey) \/ HandlerCommits(t, NoKey) \/ HandlerRaises(t)
      BY <2>2 DEF Return, Raise
    <3>2. Handler(t)
      BY <3>1, BatchAssumption DEF Handler
    <3>3. QED
      BY <3>2 DEF Next
  <2>3. QED
    BY <1>2, <2>1, <2>2
<1>3. ASSUME NEW c \in ticks, TickStep(c)
      PROVE  UNCHANGED wqVars
  BY <1>3 DEF TickStep, FailStale, PollNotReady, PollReady, PollFailed, PollRaises, FetchFails,
     Import, SelectNothing, SelectAndReject, Select, Create, ProviderAccepts, RecordSubmit,
     SubmitFails
<1>4. ASSUME NEW a \in Apps, Fetch(a) \/ LeavePool(a)
      PROVE  [Next]_wqVars
  BY <1>4, BatchAssumption DEF Fetch, LeavePool, Next, wqVars
<1>5. ASSUME NEW b \in DOMAIN batches, EnqueueDuePoll(b)
      PROVE  [Next]_wqVars
  BY <1>5, BatchAssumption DEF EnqueueDuePoll, Next
<1>6. CASE QueueStep
  BY <1>6 DEF QueueStep, Next
<1>7. QED
  BY <1>1, <1>2, <1>3, <1>4, <1>5, <1>6 DEF BatchNext

(* Batch matching implements the work queue, so the theorems about Spec    *)
(* hold while batches are built, polled and imported.                      *)
THEOREM BatchMatchUsesQueue == BatchSpec => Spec
<1>1. BatchInit => Init
  BY DEF BatchInit
<1>2. QED
  BY <1>1, BatchStep, PTL DEF BatchSpec, Spec

Queue == Base /\ Execution /\ OneLivePerKey

LEMMA QueueInvariant == BatchSpec => []Queue
<1>1. Base /\ Execution /\ OneLivePerKey => Queue
  BY DEF Queue
<1>2. QED
  BY <1>1, BatchMatchUsesQueue, BaseInvariant, ExecutionInvariant, OneLivePerKeyHolds, PTL

LEMMA QueueTyped ==
  ASSUME Queue
  PROVE  /\ \A t \in tasks : t \in Task /\ t.row \in DOMAIN queue /\ t.row \in Nat /\ t.attempt \in Nat
         /\ \A i \in DOMAIN queue : queue[i] \in Row /\ queue[i].key = BatchKey
<1>1. \A t \in tasks : t \in Task /\ t.row \in DOMAIN queue /\ t.row \in Nat /\ t.attempt \in Nat
  BY TaskTyped DEF Queue
<1>2. \A i \in DOMAIN queue : queue[i] \in Row
  BY RowsTyped DEF Queue, Base, TypeOK
<1>3. QED
  BY <1>1, <1>2, BatchAssumption DEF Row

(* While no row was disturbed at most one job of the profile is executed.  *)
LEMMA SoleTask ==
  ASSUME Queue, Undisturbed, NEW t1 \in tasks, NEW t2 \in tasks
  PROVE  t1 = t2 /\ queue[t1.row].status = "in_progress" /\ t1.pc # "giveback"
<1>1. HoldsLease(t1) /\ HoldsLease(t2)
  BY DEF Queue, Execution, LeasesHeld, Undisturbed
<1>2. t1.row \in DOMAIN queue /\ t2.row \in DOMAIN queue
  BY QueueTyped
<1>3. t1.row = t2.row
  BY <1>1, <1>2, QueueTyped DEF Queue, OneLivePerKey, HoldsLease, Owns, Live
<1>4. t1 = t2
  BY <1>1, <1>3 DEF HoldsLease, Queue, Execution, AttemptsIdentify
<1>5. QED
  BY <1>1, <1>4 DEF HoldsLease, Owns

------------------------------------------------------------------------------
(* The inductive invariant.                                                *)

(* Where a tick goes on with a batch it holds in memory.                   *)
AtBatch == {"expire", "poll", "repoll", "fetch", "submit", "accepted"}

(* A tick belongs to a job that is in its handler, one tick to a job, and  *)
(* the batch it holds exists.                                              *)
TicksHaveTasks ==
  \A c \in ticks : \E t \in tasks : t.row = c.row /\ t.attempt = c.attempt /\ t.pc = "run"

TicksIdentify ==
  \A c, d \in ticks : c.row = d.row /\ c.attempt = d.attempt => c = d

TicksRefer == \A c \in ticks : c.pc \in AtBatch => c.batch \in DOMAIN batches

(* What a tick read is still so, as long as no row was disturbed: the      *)
(* batch it holds is the active one and has the status that led it here.   *)
Current(c) ==
  /\ c.pc \in AtBatch => batches[c.batch].status \in Active
  /\ c.pc \in {"poll", "repoll", "fetch"} => batches[c.batch].status # "building"
  /\ c.pc \in {"submit", "accepted"} => batches[c.batch].status = "building"
  /\ c.pc = "fetch" => batches[c.batch].job = "ready"
  /\ c.pc \in {"build", "create", "idle"} => ActiveBatches = {}
  /\ c.pc = "idle" => missed \/ Candidates = {}

TicksCurrent == Undisturbed => \A c \in ticks : Current(c)

(* A job about to settle without a follow-up leaves nothing behind.        *)
NothingLeft == ActiveBatches = {} /\ (missed \/ Candidates = {})

LastJobsClean ==
  Undisturbed => \A t \in tasks : t.pc = "finish" /\ t.follow = NoKey => NothingLeft

(* As long as nothing has failed: a batch that is not active has no job at *)
(* the provider, and a batch that is being built has the tick that builds  *)
(* it, or a row that will fail; so no tick finds one that may be stale.    *)
Steady == Undisturbed /\ ~GaveUp /\ errors = 0

FinishedStopped ==
  Steady => \A b \in DOMAIN batches :
               batches[b].status \notin Active => batches[b].job # "running"

Builds(t) == t.pc = "run" /\ \E c \in TickOf(t) : c.pc \in {"submit", "accepted"}

BuildersHeld ==
  /\ \E i \in DOMAIN queue : queue[i].status = "in_progress"
  /\ \A t \in tasks : t.pc \in {"hook", "fail"} \/ Builds(t)

BuildingHeld ==
  Steady /\ (\E b \in DOMAIN batches : batches[b].status = "building") => BuildersHeld

NothingExpires == Steady => \A c \in ticks : c.pc # "expire"

Batching ==
  /\ BatchTypeOK
  /\ TicksHaveTasks /\ TicksIdentify /\ TicksRefer
  /\ TicksCurrent
  /\ LastJobsClean
  /\ ItemsFollowBatch
  /\ BatchIsCarried /\ BacklogIsCarried
  /\ FinishedStopped /\ BuildingHeld /\ NothingExpires

LEMMA BatchTyped ==
  ASSUME Batching
  PROVE  /\ batches \in Seq(Batch) /\ DOMAIN batches = 1 .. Len(batches)
         /\ DOMAIN batches \subseteq Nat
         /\ \A b \in DOMAIN batches : batches[b] \in Batch
         /\ ticks \subseteq Tick /\ errors \in Nat /\ missed \in BOOLEAN
         /\ apps \in [Apps -> {"absent", "unscored", "scored"}]
<1>1. batches \in Seq(Batch) /\ ticks \subseteq Tick /\ errors \in Nat /\ missed \in BOOLEAN
      /\ apps \in [Apps -> {"absent", "unscored", "scored"}]
  BY DEF Batching, BatchTypeOK
<1>2. QED
  BY <1>1, LenProperties, ElementOfSeq

(* A tick that is alone: the job in whose handler it runs is the only job, *)
(* and its row is in progress.                                             *)
LEMMA SoleTick ==
  ASSUME Queue, Batching, Undisturbed, NEW c \in ticks
  PROVE  /\ \A d \in ticks : d = c
         /\ ~NoLiveRow
         /\ \E i \in DOMAIN queue : queue[i].status = "in_progress"
         /\ \E t \in tasks : /\ t.row = c.row /\ t.attempt = c.attempt /\ t.pc = "run"
                             /\ \A s \in tasks : s = t
<1>1. PICK t \in tasks : t.row = c.row /\ t.attempt = c.attempt /\ t.pc = "run"
  BY DEF Batching, TicksHaveTasks
<1>2. \A s \in tasks : s = t
  BY SoleTask
<1>3. \A d \in ticks : d = c
  BY <1>1, <1>2 DEF Batching, TicksHaveTasks, TicksIdentify
<1>4. t.row \in DOMAIN queue /\ queue[t.row].status = "in_progress" /\ queue[t.row].key = BatchKey
  BY SoleTask, QueueTyped
<1>5. QED
  BY <1>1, <1>2, <1>3, <1>4 DEF NoLiveRow, Live

(* One batch is rewritten.  ItemsFollowBatch survives when the batch does  *)
(* not become active beside another, keeps no item submitted when it is    *)
(* not active, and all of its items when it is.                            *)
LEMMA RewriteOne ==
  ASSUME Batching, NEW b \in DOMAIN batches, NEW v \in Batch,
         batches' = [batches EXCEPT ![b] = v], disturbed \subseteq disturbed',
         v.status \in Active => batches[b].status \in Active \/ ActiveBatches = {},
         v.status \notin Active => \A a \in Apps : v.items[a] # "submitted",
         v.status \in Active /\ Undisturbed =>
            batches[b].status \in Active /\ v.items = batches[b].items
  PROVE  /\ batches' \in Seq(Batch) /\ DOMAIN batches' = DOMAIN batches
         /\ \A d \in DOMAIN batches : batches'[d] = IF d = b THEN v ELSE batches[d]
         /\ ItemsFollowBatch'
<1>1. batches \in Seq(Batch)
  BY BatchTyped
<1>2. /\ batches' \in Seq(Batch) /\ DOMAIN batches' = DOMAIN batches
      /\ \A d \in DOMAIN batches : batches'[d] = IF d = b THEN v ELSE batches[d]
  BY <1>1, UpdateOne
<1>3. ItemsFollowBatch
  BY DEF Batching
<1>4. \A d1, d2 \in ActiveBatches' : d1 = d2
  BY <1>2, <1>3 DEF ItemsFollowBatch, ActiveBatches
<1>5. \A d \in DOMAIN batches' : Submitted(d)' # {} => d \in ActiveBatches'
  BY <1>2, <1>3 DEF ItemsFollowBatch, ActiveBatches, Submitted
<1>6. \A d \in ActiveBatches', a \in Apps :
         Holds(d, a)' /\ a \notin Submitted(d)' => ~Undisturbed'
  BY <1>2, <1>3 DEF ItemsFollowBatch, ActiveBatches, Submitted, Holds, Undisturbed
<1>7. QED
  BY <1>2, <1>4, <1>5, <1>6 DEF ItemsFollowBatch

------------------------------------------------------------------------------
(* The steps of a tick.                                                    *)

(* A tick goes on from c to d.  While no row was disturbed it is alone, so *)
(* what it promised of its row and of other jobs holds.                    *)
LEMMA TickKeeps ==
  ASSUME Queue, Queue', Batching, UNCHANGED wqVars,
         NEW c \in ticks, NEW d \in Tick, d.row = c.row, d.attempt = c.attempt,
         d.pc # "expire", ticks' = (ticks \ {c}) \union {d},
         apps' \in [Apps -> {"absent", "unscored", "scored"}], batches' \in Seq(Batch),
         errors' \in Nat, errors' = 0 => errors = 0, missed' \in BOOLEAN,
         DOMAIN batches \subseteq DOMAIN batches',
         d.pc \in AtBatch => d.batch \in DOMAIN batches',
         ItemsFollowBatch', Undisturbed => Current(d)',
         Steady' =>
            /\ \A b \in DOMAIN batches' :
                  batches'[b].status \notin Active => batches'[b].job # "running"
            /\ \/ d.pc \in {"submit", "accepted"}
               \/ \A b \in DOMAIN batches' : batches'[b].status # "building"
  PROVE  Batching'
<1> USE DEF Batching
<1>1. UNCHANGED <<queue, tasks, disturbed>> /\ c \in Tick
  BY BatchTyped DEF wqVars
<1>2. BatchTypeOK'
  BY <1>1, BatchTyped DEF BatchTypeOK, Queue, Base
<1>3. TicksHaveTasks' /\ TicksIdentify' /\ TicksRefer'
  BY <1>1 DEF TicksHaveTasks, TicksIdentify, TicksRefer
<1>4. ASSUME Undisturbed
      PROVE  /\ ticks' = {d} /\ ~NoLiveRow
             /\ \E i \in DOMAIN queue : queue[i].status = "in_progress"
             /\ \A t \in tasks : t.row = c.row /\ t.attempt = c.attempt /\ t.pc = "run"
  BY <1>4, SoleTick
<1>5. TicksCurrent' /\ LastJobsClean'
  BY <1>1, <1>4 DEF TicksCurrent, LastJobsClean, Undisturbed
<1>6. BatchIsCarried' /\ BacklogIsCarried'
  BY <1>1, <1>4 DEF BatchIsCarried, BacklogIsCarried, Undisturbed, NoLiveRow
<1>7. Steady' => Undisturbed
  BY <1>1 DEF Steady, Undisturbed
<1>8. FinishedStopped' /\ NothingExpires'
  BY <1>4, <1>7 DEF FinishedStopped, NothingExpires
<1>9. BuildingHeld'
  <2> SUFFICES ASSUME Steady', NEW b \in DOMAIN batches', batches'[b].status = "building"
               PROVE  BuildersHeld'
    BY DEF BuildingHeld
  <2>1. d.pc \in {"submit", "accepted"} /\ ticks' = {d}
    BY <1>4, <1>7
  <2>2. \A t \in tasks : t.pc = "run" /\ d.row = t.row /\ d.attempt = t.attempt
    BY <1>4, <1>7
  <2>3. \A t \in tasks' : Builds(t)'
    BY <1>1, <2>1, <2>2 DEF Builds, TickOf
  <2>4. QED
    BY <1>1, <1>4, <1>7, <2>3 DEF BuildersHeld
<1>10. QED
  BY <1>2, <1>3, <1>5, <1>6, <1>8, <1>9

LEMMA MovedTick ==
  ASSUME NEW c \in Tick, NEW pc \in TickPc, NEW b \in Nat
  PROVE  /\ [c EXCEPT !.pc = pc, !.batch = b] \in Tick
         /\ [c EXCEPT !.pc = pc, !.batch = b].pc = pc
         /\ [c EXCEPT !.pc = pc, !.batch = b].batch = b
         /\ [c EXCEPT !.pc = pc, !.batch = b].row = c.row
         /\ [c EXCEPT !.pc = pc, !.batch = b].attempt = c.attempt
BY DEF Tick

(* While no row was disturbed the batch a tick holds is the only active    *)
(* one.                                                                    *)
LEMMA HeldIsActive ==
  ASSUME Batching, NEW c \in ticks, c.pc \in AtBatch
  PROVE  /\ c.batch \in DOMAIN batches /\ c.batch \in Nat /\ batches[c.batch] \in Batch
         /\ c \in Tick
         /\ Undisturbed => Current(c) /\ ActiveBatches = {c.batch}
<1>1. c.batch \in DOMAIN batches /\ c.batch \in Nat /\ batches[c.batch] \in Batch /\ c \in Tick
  BY BatchTyped DEF Batching, TicksRefer
<1>2. ASSUME Undisturbed
      PROVE  Current(c) /\ ActiveBatches = {c.batch}
  BY <1>1, <1>2 DEF Batching, TicksCurrent, Current, ActiveBatches, ItemsFollowBatch
<1>3. QED
  BY <1>1, <1>2

(* A tick finishes the batch it holds: nothing is active any more.         *)
LEMMA FinishKeeps ==
  ASSUME Queue, Queue', Batching, UNCHANGED wqVars,
         NEW c \in ticks, c.pc \in AtBatch, NEW pc \in {"build", "requeue", "raise"},
         Moves(c, pc, 0),
         NEW v \in Batch, v.status \notin Active, \A a \in Apps : v.items[a] # "submitted",
         batches' = [batches EXCEPT ![c.batch] = v], Steady' => v.job # "running",
         apps' \in [Apps -> {"absent", "unscored", "scored"}],
         errors' \in Nat, errors' = 0 => errors = 0, UNCHANGED missed
  PROVE  Batching'
<1> DEFINE d == [c EXCEPT !.pc = pc, !.batch = 0]
<1>1. /\ c.batch \in DOMAIN batches /\ c \in Tick
      /\ Undisturbed => Current(c) /\ ActiveBatches = {c.batch}
  BY HeldIsActive
<1>2. d \in Tick /\ d.pc = pc /\ d.row = c.row /\ d.attempt = c.attempt
  <2>1. pc \in TickPc /\ 0 \in Nat /\ c \in Tick
    BY <1>1 DEF TickPc
  <2>2. QED
    BY <2>1 DEF Tick
<1>3. ticks' = (ticks \ {c}) \union {d}
  BY DEF Moves
<1>4. UNCHANGED <<queue, tasks, disturbed>>
  BY DEF wqVars
<1>5. /\ batches' \in Seq(Batch) /\ DOMAIN batches' = DOMAIN batches
      /\ \A b \in DOMAIN batches : batches'[b] = IF b = c.batch THEN v ELSE batches[b]
      /\ ItemsFollowBatch'
  BY <1>1, <1>4, RewriteOne
<1>6. Undisturbed => ActiveBatches' = {}
  BY <1>1, <1>5 DEF ActiveBatches
<1>7. Undisturbed => \A b \in DOMAIN batches' : batches'[b].status # "building"
  BY <1>6 DEF ActiveBatches, Active
<1>8. Steady' => Undisturbed /\ Steady
  BY <1>4 DEF Steady, Undisturbed, GaveUp
<1>9. Undisturbed => Current(d)'
  BY <1>2, <1>6 DEF Current, AtBatch
<1>10. missed' \in BOOLEAN
  BY BatchTyped
<1>11. \A b \in DOMAIN batches' : Steady' /\ batches'[b].status \notin Active
                                       => batches'[b].job # "running"
  BY <1>5, <1>8 DEF Batching, FinishedStopped
<1> HIDE DEF d
<1>12. QED
  BY <1>2, <1>3, <1>5, <1>7, <1>8, <1>9, <1>10, <1>11, TickKeeps DEF AtBatch

(* What _fail_batch writes.                                                *)
FailedBatch(b) ==
  [batches[b] EXCEPT !.status = "failed", !.poll = FALSE, !.items = Retried(batches[b].items)]

IsFailed(v) == v \in Batch /\ v.status \notin Active /\ \A a \in Apps : v.items[a] # "submitted"

LEMMA FailedEffect ==
  ASSUME Batching, NEW b \in DOMAIN batches
  PROVE  /\ Failed(b) = [batches EXCEPT ![b] = FailedBatch(b)]
         /\ [Failed(b) EXCEPT ![b].job = "failed"]
                = [batches EXCEPT ![b] = [FailedBatch(b) EXCEPT !.job = "failed"]]
         /\ IsFailed(FailedBatch(b)) /\ FailedBatch(b).job = batches[b].job
         /\ IsFailed([FailedBatch(b) EXCEPT !.job = "failed"])
         /\ [FailedBatch(b) EXCEPT !.job = "failed"].job = "failed"
<1>1. batches[b] \in Batch /\ batches \in Seq(Batch) /\ DOMAIN batches = 1 .. Len(batches)
  BY BatchTyped
<1>2. Failed(b) = [batches EXCEPT ![b] = FailedBatch(b)]
  BY <1>1 DEF Failed, FailedBatch, Batch
<1>3. Retried(batches[b].items) \in [Apps -> ItemStatus]
      /\ \A a \in Apps : Retried(batches[b].items)[a] # "submitted"
  BY <1>1 DEF Batch, Retried, ItemStatus
<1>4. /\ FailedBatch(b) \in Batch /\ FailedBatch(b).status = "failed"
      /\ FailedBatch(b).items = Retried(batches[b].items)
      /\ FailedBatch(b).job = batches[b].job
  BY <1>1, <1>3 DEF FailedBatch, Batch, BatchStatus
<1>5. [Failed(b) EXCEPT ![b].job = "failed"]
         = [batches EXCEPT ![b] = [FailedBatch(b) EXCEPT !.job = "failed"]]
  BY <1>1, <1>2, <1>4 DEF Batch
<1> DEFINE v == [FailedBatch(b) EXCEPT !.job = "failed"]
<1>6. v \in Batch /\ v.status = "failed" /\ v.items = Retried(batches[b].items) /\ v.job = "failed"
  <2>1. ASSUME NEW w \in Batch
        PROVE  /\ [w EXCEPT !.job = "failed"] \in Batch
               /\ [w EXCEPT !.job = "failed"].status = w.status
               /\ [w EXCEPT !.job = "failed"].items = w.items
               /\ [w EXCEPT !.job = "failed"].job = "failed"
    BY DEF Batch
  <2>2. QED
    BY <1>4, <2>1
<1> HIDE DEF v
<1>7. IsFailed(v) /\ IsFailed(FailedBatch(b))
  BY <1>3, <1>4, <1>6 DEF IsFailed, Active
<1>8. QED
  BY <1>2, <1>4, <1>5, <1>6, <1>7 DEF v

LEMMA FailingKeeps ==
  ASSUME Queue, Queue', Batching, NEW c \in ticks,
         FailStale(c) \/ PollFailed(c) \/ PollRaises(c) \/ FetchFails(c) \/ SubmitFails(c)
  PROVE  Batching'
<1> DEFINE b == c.batch
<1> DEFINE v == IF PollFailed(c) THEN [FailedBatch(b) EXCEPT !.job = "failed"] ELSE FailedBatch(b)
<1>1. c.pc \in AtBatch /\ UNCHANGED wqVars /\ UNCHANGED missed /\ UNCHANGED apps
  BY DEF FailStale, PollFailed, PollRaises, FetchFails, SubmitFails, AtBatch
<1>2. b \in DOMAIN batches
  BY <1>1, HeldIsActive
<1>3. /\ batches' = [batches EXCEPT ![b] = v] /\ IsFailed(v)
      /\ PollFailed(c) => v.job = "failed"
  BY <1>2, FailedEffect DEF FailStale, PollFailed, PollRaises, FetchFails, SubmitFails
<1> HIDE DEF v
<1>4. PICK pc \in {"build", "requeue", "raise"} : Moves(c, pc, 0)
  BY DEF FailStale, PollFailed, PollRaises, FetchFails, SubmitFails
<1>5. errors' \in Nat /\ (errors' = 0 => errors = 0) /\ (errors' # 0 \/ UNCHANGED errors)
  BY BatchTyped DEF FailStale, PollFailed, PollRaises, FetchFails, SubmitFails, ProviderError
<1>6. FailStale(c) => ~Steady'
  <2>1. FailStale(c) => UNCHANGED <<queue, disturbed, errors>> /\ c.pc = "expire"
    BY DEF FailStale, wqVars
  <2>2. QED
    BY <2>1 DEF Batching, NothingExpires, Steady, Undisturbed, GaveUp
<1>7. PollRaises(c) \/ FetchFails(c) \/ SubmitFails(c) => ~Steady'
  BY BatchTyped DEF PollRaises, FetchFails, SubmitFails, ProviderError, Steady
<1>8. Steady' => v.job # "running"
  BY <1>3, <1>6, <1>7
<1>9. apps' \in [Apps -> {"absent", "unscored", "scored"}]
  BY <1>1, BatchTyped
<1>10. QED
  BY <1>1, <1>3, <1>4, <1>5, <1>8, <1>9, FinishKeeps DEF IsFailed

LEMMA ImportKeeps ==
  ASSUME Queue, Queue', Batching, NEW c \in ticks,
         NEW good \in SUBSET Apps, NEW bad \in SUBSET Apps, Import(c, good, bad)
  PROVE  Batching'
<1> DEFINE b == c.batch
           items == ImportedItems(b, good, bad)
           v == [batches[b] EXCEPT !.status = "done", !.poll = FALSE, !.items = items]
<1>1. /\ c.pc = "fetch" /\ c.pc \in AtBatch /\ UNCHANGED <<wqVars, missed>> /\ Moves(c, "build", 0)
      /\ errors' \in Nat /\ (errors' = 0 => errors = 0)
  BY BatchTyped DEF Import, Answers, AtBatch, ProviderError
<1>2. /\ b \in DOMAIN batches /\ batches[b] \in Batch
      /\ Undisturbed => batches[b].job = "ready"
  BY <1>1, HeldIsActive DEF Current
<1>3. items \in [Apps -> ItemStatus] /\ \A a \in Apps : items[a] # "submitted"
  BY <1>2 DEF Batch, ImportedItems, ItemStatus
<1>4. /\ v \in Batch /\ v.status = "done" /\ v.items = items /\ v.job = batches[b].job
  <2> HIDE DEF items
  <2>1. QED
    BY <1>2, <1>3 DEF Batch, BatchStatus
<1>5. batches' = [batches EXCEPT ![b] = v]
  BY <1>2 DEF Import, Batch
<1>6. Steady' => v.job # "running"
  BY <1>1, <1>2, <1>4 DEF Steady, Undisturbed, wqVars
<1>7. apps' \in [Apps -> {"absent", "unscored", "scored"}]
  BY BatchTyped DEF Import
<1> HIDE DEF v, items
<1>8. QED
  BY <1>1, <1>3, <1>4, <1>5, <1>6, <1>7, FinishKeeps DEF Active

(* A tick rewrites the batch it holds and the batch stays as active as it  *)
(* was.                                                                    *)
LEMMA CarryKeeps ==
  ASSUME Queue, Queue', Batching, UNCHANGED wqVars,
         NEW c \in ticks, c.pc \in AtBatch,
         NEW pc \in {"requeue", "fetch", "accepted", "raise"}, NEW n \in {0, c.batch},
         Moves(c, pc, n), pc \in AtBatch => n = c.batch,
         NEW v \in Batch, batches' = [batches EXCEPT ![c.batch] = v],
         v.items = batches[c.batch].items,
         v.status \in Active => batches[c.batch].status \in Active \/ ActiveBatches = {},
         v.status \notin Active => batches[c.batch].status \notin Active,
         pc = "fetch" /\ Undisturbed => v.job = "ready",
         Undisturbed => (v.status = "building" <=> pc = "accepted"),
         UNCHANGED <<apps, errors, missed>>
  PROVE  Batching'
<1> DEFINE d == [c EXCEPT !.pc = pc, !.batch = n]
<1>1. /\ c.batch \in DOMAIN batches /\ c \in Tick /\ c.batch \in Nat
      /\ Undisturbed => Current(c) /\ ActiveBatches = {c.batch}
  BY HeldIsActive
<1>2. d \in Tick /\ d.pc = pc /\ d.row = c.row /\ d.attempt = c.attempt /\ d.batch = n
  <2>1. pc \in TickPc /\ n \in Nat /\ c \in Tick
    BY <1>1 DEF TickPc
  <2>2. QED
    BY <2>1 DEF Tick
<1>3. ticks' = (ticks \ {c}) \union {d}
  BY DEF Moves
<1>4. UNCHANGED <<queue, tasks, disturbed>>
  BY DEF wqVars
<1>5. batches[c.batch].status \notin Active => \A a \in Apps : batches[c.batch].items[a] # "submitted"
  BY <1>1 DEF Batching, ItemsFollowBatch, Submitted, ActiveBatches
<1>6. /\ batches' \in Seq(Batch) /\ DOMAIN batches' = DOMAIN batches
      /\ \A b \in DOMAIN batches : batches'[b] = IF b = c.batch THEN v ELSE batches[b]
      /\ ItemsFollowBatch'
  <2>1. v.status \in Active /\ Undisturbed => batches[c.batch].status \in Active
    BY <1>1 DEF Current
  <2>2. disturbed \subseteq disturbed'
    BY <1>4
  <2>3. QED
    BY <1>1, <1>5, <2>1, <2>2, RewriteOne
<1>7. Undisturbed => v.status \in Active
  BY <1>1 DEF Current
<1>8. Steady' => Undisturbed /\ Steady
  BY <1>4 DEF Steady, Undisturbed, GaveUp
<1>9. Undisturbed => Current(d)'
  <2>1. pc \in AtBatch => batches'[n] = v
    BY <1>1, <1>6
  <2>2. pc \notin {"build", "create", "idle", "poll", "repoll", "submit"}
    OBVIOUS
  <2>3. PICK e : e = d
    OBVIOUS
  <2>4. e.pc = pc /\ e.batch = n
    BY <1>2, <2>3
  <2> HIDE DEF d
  <2>5. ASSUME Undisturbed
        PROVE  Current(e)'
    <3>1. pc \in AtBatch => /\ batches'[e.batch].status \in Active
                            /\ batches'[e.batch].status = "building" <=> pc = "accepted"
                            /\ pc = "fetch" => batches'[e.batch].job = "ready"
      BY <1>7, <2>1, <2>4, <2>5
    <3>2. \/ pc \in {"fetch", "accepted"} /\ pc \in AtBatch
          \/ pc \in {"requeue", "raise"} /\ pc \notin AtBatch
      BY DEF AtBatch
    <3>3. QED
      BY <2>4, <3>1, <3>2 DEF Current
  <2> USE DEF d
  <2>6. QED
    BY <2>3, <2>5
<1>10. \A b \in DOMAIN batches' : Steady' /\ batches'[b].status \notin Active
                                       => batches'[b].job # "running"
  BY <1>6, <1>7, <1>8 DEF Batching, FinishedStopped
<1>11. Steady' => \/ pc \in {"submit", "accepted"}
                  \/ \A b \in DOMAIN batches' : batches'[b].status # "building"
  BY <1>1, <1>6, <1>8 DEF ActiveBatches, Active
<1>12. /\ apps' \in [Apps -> {"absent", "unscored", "scored"}]
       /\ errors' \in Nat /\ missed' \in BOOLEAN /\ errors' = errors
       /\ pc # "expire" /\ (pc \in AtBatch => n \in DOMAIN batches')
  BY <1>1, <1>6, BatchTyped
<1> HIDE DEF d
<1>13. QED
  BY <1>2, <1>3, <1>6, <1>9, <1>10, <1>11, <1>12, TickKeeps

LEMMA PollNotReadyKeeps ==
  ASSUME Queue, Queue', Batching, NEW c \in ticks, PollNotReady(c)
  PROVE  Batching'
<1> DEFINE v == [batches[c.batch] EXCEPT !.poll = TRUE]
<1>1. /\ c.pc \in {"poll", "repoll"} /\ c.pc \in AtBatch /\ Moves(c, "requeue", 0)
      /\ UNCHANGED <<wqVars, apps, errors, missed>> /\ "requeue" \notin AtBatch
  BY DEF PollNotReady, AtBatch
<1>2. /\ c.batch \in DOMAIN batches /\ batches[c.batch] \in Batch
      /\ Undisturbed => batches[c.batch].status # "building"
  BY <1>1, HeldIsActive DEF Current
<1>3. /\ v \in Batch /\ v.status = batches[c.batch].status /\ v.items = batches[c.batch].items
      /\ batches' = [batches EXCEPT ![c.batch] = v]
  BY <1>2 DEF PollNotReady, Batch
<1> HIDE DEF v
<1>4. QED
  BY <1>1, <1>2, <1>3, CarryKeeps

LEMMA PollReadyKeeps ==
  ASSUME Queue, Queue', Batching, NEW c \in ticks, PollReady(c)
  PROVE  Batching'
<1> DEFINE b == c.batch
<1>1. /\ c.pc \in {"poll", "repoll"} /\ c.pc \in AtBatch
      /\ UNCHANGED <<wqVars, apps, errors, missed>> /\ "raise" \notin AtBatch
  BY DEF PollReady, AtBatch
<1>2. /\ b \in DOMAIN batches /\ batches[b] \in Batch
      /\ Undisturbed => batches[b].status \in Active \ {"building"}
  BY <1>1, HeldIsActive DEF Current
<1>3. CASE c.pc = "poll" /\ Conflict(b)
  <2> DEFINE v == [batches[b] EXCEPT !.job = "ready"]
  <2>1. /\ v \in Batch /\ v.status = batches[b].status /\ v.items = batches[b].items
        /\ batches' = [batches EXCEPT ![b] = v] /\ Moves(c, "raise", 0)
    BY <1>2, <1>3 DEF PollReady, Batch
  <2> HIDE DEF v
  <2>2. QED
    BY <1>1, <1>2, <2>1, CarryKeeps
<1>4. CASE ~(c.pc = "poll" /\ Conflict(b))
  <2> DEFINE status == IF c.pc = "repoll" THEN batches[b].status ELSE "importing"
             v == [batches[b] EXCEPT !.status = status, !.poll = FALSE, !.job = "ready"]
  <2>1. batches' = [batches EXCEPT ![b] = v] /\ Moves(c, "fetch", b)
    BY <1>2, <1>4 DEF PollReady, Batch
  <2>2. /\ status \in BatchStatus
        /\ status \in Active => batches[b].status \in Active \/ ActiveBatches = {}
        /\ status \notin Active => batches[b].status \notin Active
        /\ Undisturbed => status # "building"
    BY <1>1, <1>2, <1>4 DEF Batch, BatchStatus, Active, Conflict
  <2> HIDE DEF status
  <2>3. v \in Batch /\ v.status = status /\ v.items = batches[b].items /\ v.job = "ready"
    BY <1>2, <2>2 DEF Batch
  <2> HIDE DEF v
  <2>4. QED
    BY <1>1, <2>1, <2>2, <2>3, CarryKeeps
<1>5. QED
  BY <1>3, <1>4

LEMMA SubmitKeeps ==
  ASSUME Queue, Queue', Batching, NEW c \in ticks, ProviderAccepts(c) \/ RecordSubmit(c)
  PROVE  Batching'
<1> DEFINE b == c.batch
<1>1. /\ c.pc \in {"submit", "accepted"} /\ c.pc \in AtBatch
      /\ UNCHANGED <<wqVars, apps, errors, missed>>
      /\ "raise" \notin AtBatch /\ "requeue" \notin AtBatch
  BY DEF ProviderAccepts, RecordSubmit, AtBatch
<1>2. /\ b \in DOMAIN batches /\ batches[b] \in Batch /\ batches \in Seq(Batch)
      /\ Undisturbed => batches[b].status = "building" /\ "building" \in Active
  BY <1>1, HeldIsActive, BatchTyped DEF Current, Active
<1>3. CASE ProviderAccepts(c)
  <2> DEFINE v == [batches[b] EXCEPT !.job = "running"]
  <2>1. /\ v \in Batch /\ v.status = batches[b].status /\ v.items = batches[b].items
        /\ batches' = [batches EXCEPT ![b] = v] /\ Moves(c, "accepted", b)
    BY <1>2, <1>3 DEF ProviderAccepts, Batch
  <2> HIDE DEF v
  <2>2. QED
    BY <1>1, <1>2, <2>1, CarryKeeps
<1>4. CASE RecordSubmit(c) /\ Conflict(b)
  <2>1. batches' = [batches EXCEPT ![b] = batches[b]] /\ Moves(c, "raise", 0)
    BY <1>2, <1>4 DEF RecordSubmit
  <2>2. ~Undisturbed
    BY <1>2, <1>4 DEF Conflict
  <2>3. QED
    BY <1>1, <1>2, <2>1, <2>2, CarryKeeps
<1>5. CASE RecordSubmit(c) /\ ~Conflict(b)
  <2> DEFINE v == [batches[b] EXCEPT !.status = "submitted", !.poll = TRUE]
  <2>1. /\ v \in Batch /\ v.status = "submitted" /\ v.items = batches[b].items
        /\ batches' = [batches EXCEPT ![b] = v] /\ Moves(c, "requeue", 0)
    BY <1>2, <1>5 DEF RecordSubmit, Batch, BatchStatus, Active
  <2>2. v.status \in Active /\ (batches[b].status \in Active \/ ActiveBatches = {})
    BY <1>5, <2>1 DEF Conflict, Active
  <2> HIDE DEF v
  <2>3. QED
    BY <1>1, <1>2, <2>1, <2>2, CarryKeeps
<1>6. QED
  BY <1>3, <1>4, <1>5

(* The selection leaves the batches alone.                                 *)
LEMMA SelectKeeps ==
  ASSUME Queue, Queue', Batching, NEW c \in ticks,
         SelectNothing(c) \/ SelectAndReject(c) \/ Select(c)
  PROVE  Batching'
<1>1. c.pc = "build" /\ UNCHANGED <<wqVars, batches, errors>> /\ c \in Tick
  BY BatchTyped DEF SelectNothing, SelectAndReject, Select
<1>2. UNCHANGED <<queue, tasks, disturbed>>
  BY <1>1 DEF wqVars
<1>3. Undisturbed => ActiveBatches = {}
  BY <1>1 DEF Batching, TicksCurrent, Current
<1>4. /\ apps' \in [Apps -> {"absent", "unscored", "scored"}] /\ missed' \in BOOLEAN
      /\ errors' \in Nat /\ errors' = errors /\ batches' \in Seq(Batch)
  BY <1>1, BatchTyped DEF SelectNothing, SelectAndReject, Select
<1>5. ItemsFollowBatch'
  BY <1>1, <1>2 DEF Batching, ItemsFollowBatch, ActiveBatches, Submitted, Holds, Undisturbed
<1>6. PICK d \in Tick : /\ d.row = c.row /\ d.attempt = c.attempt /\ d.pc \in {"idle", "create"}
                        /\ ticks' = (ticks \ {c}) \union {d}
                        /\ d.pc = "idle" => SelectNothing(c) \/ SelectAndReject(c)
  <2>1. CASE SelectNothing(c) \/ SelectAndReject(c)
    <3>1. "idle" \in TickPc /\ 0 \in Nat
      BY DEF TickPc
    <3>2. [c EXCEPT !.pc = "idle", !.batch = 0] \in Tick
      BY <1>1, <3>1, MovedTick
    <3>3. ticks' = (ticks \ {c}) \union {[c EXCEPT !.pc = "idle", !.batch = 0]}
      BY <2>1 DEF SelectNothing, SelectAndReject, Moves
    <3>4. /\ [c EXCEPT !.pc = "idle", !.batch = 0].row = c.row
          /\ [c EXCEPT !.pc = "idle", !.batch = 0].attempt = c.attempt
          /\ [c EXCEPT !.pc = "idle", !.batch = 0].pc = "idle"
      BY <1>1 DEF Tick
    <3>5. QED
      BY <2>1, <3>2, <3>3, <3>4
  <2>2. CASE Select(c)
    <3>1. PICK chosen \in SUBSET Apps, pool \in SUBSET Apps :
             ticks' = (ticks \ {c}) \union
                        {[c EXCEPT !.pc = "create", !.chosen = chosen,
                                   !.rejected = pool \intersect Mismatched]}
      BY <2>2 DEF Select, Within, Candidates
    <3> DEFINE d == [c EXCEPT !.pc = "create", !.chosen = chosen,
                              !.rejected = pool \intersect Mismatched]
    <3>2. d \in Tick /\ d.row = c.row /\ d.attempt = c.attempt /\ d.pc = "create"
      BY <1>1 DEF Tick, TickPc
    <3>3. QED
      BY <3>1, <3>2
  <2>3. QED
    BY <2>1, <2>2
<1>7. Undisturbed => ActiveBatches' = {} /\ \A b \in DOMAIN batches' : batches'[b].status # "building"
  BY <1>1, <1>3 DEF ActiveBatches, Active
<1>8. d.pc = "idle" => missed' \/ Candidates' = {}
  BY <1>1, <1>6 DEF SelectNothing, SelectAndReject, Candidates, Blocked
<1>9. Undisturbed => Current(d)'
  BY <1>6, <1>7, <1>8 DEF Current, AtBatch
<1>10. Steady' => Undisturbed /\ Steady
  BY <1>1, <1>2 DEF Steady, Undisturbed, GaveUp
<1>11. \A b \in DOMAIN batches' : Steady' /\ batches'[b].status \notin Active
                                       => batches'[b].job # "running"
  BY <1>1, <1>10 DEF Batching, FinishedStopped
<1>12. d.pc # "expire" /\ d.pc \notin AtBatch
  BY <1>6 DEF AtBatch
<1>13. QED
  BY <1>1, <1>4, <1>5, <1>6, <1>7, <1>9, <1>10, <1>11, <1>12, TickKeeps

LEMMA CreateKeeps ==
  ASSUME Queue, Queue', Batching, NEW c \in ticks, Create(c)
  PROVE  Batching'
<1>1. c.pc = "create" /\ UNCHANGED <<wqVars, errors, missed>> /\ c \in Tick
  BY BatchTyped DEF Create
<1>2. UNCHANGED <<queue, tasks, disturbed>>
  BY <1>1 DEF wqVars
<1>3. Undisturbed => ActiveBatches = {}
  BY <1>1 DEF Batching, TicksCurrent, Current
<1>4. Steady' => Undisturbed /\ Steady
  BY <1>1, <1>2 DEF Steady, Undisturbed, GaveUp
<1>5. /\ batches \in Seq(Batch) /\ DOMAIN batches = 1 .. Len(batches) /\ Len(batches) \in Nat
      /\ errors' \in Nat /\ errors' = errors /\ missed' \in BOOLEAN
      /\ apps' \in [Apps -> {"absent", "unscored", "scored"}]
  BY <1>1, BatchTyped, LenProperties DEF Create
<1>6. ASSUME NEW pc \in {"submit", "raise"}, NEW n \in Nat, Forget(c, pc, n)
      PROVE  \E d \in Tick : /\ d.row = c.row /\ d.attempt = c.attempt
                             /\ d.pc = pc /\ d.batch = n
                             /\ ticks' = (ticks \ {c}) \union {d}
  <2> DEFINE d == [c EXCEPT !.pc = pc, !.batch = n, !.chosen = {}, !.rejected = {}]
  <2>1. d \in Tick /\ d.row = c.row /\ d.attempt = c.attempt /\ d.pc = pc /\ d.batch = n
    BY <1>1 DEF Tick, TickPc
  <2>2. QED
    BY <1>6, <2>1 DEF Forget
<1>7. CASE ActiveBatches = {}
  <2> DEFINE v == NewBatch(c.chosen)
  <2>0. PICK k \in Nat : k = Len(batches) + 1
    BY <1>5
  <2>1. batches' = Append(batches, v) /\ Forget(c, "submit", k)
    BY <1>7, <2>0 DEF Create
  <2>2. /\ v \in Batch /\ v.status = "building" /\ v.job = "none"
        /\ \A a \in Apps : v.items[a] # "none" => v.items[a] = "submitted"
    BY DEF NewBatch, Batch, BatchStatus, Active, ItemStatus
  <2> HIDE DEF v
  <2>3. /\ batches' \in Seq(Batch) /\ DOMAIN batches' = 1 .. k
        /\ batches'[k] = v /\ k \in DOMAIN batches' /\ k \notin DOMAIN batches
        /\ \A b \in DOMAIN batches : b \in DOMAIN batches' /\ batches'[b] = batches[b]
        /\ \A b \in DOMAIN batches' : b # k => b \in DOMAIN batches
    BY <1>5, <2>0, <2>1, <2>2, AppendProperties
  <2>4. "building" \in Active
    BY DEF Active
  <2>5. ActiveBatches' = {k}
    BY <1>7, <2>2, <2>3, <2>4 DEF ActiveBatches
  <2>6. ItemsFollowBatch'
    <3>1. \A b \in DOMAIN batches' : Submitted(b)' # {} => b \in ActiveBatches'
      BY <1>7, <2>3, <2>5 DEF Batching, ItemsFollowBatch, Submitted
    <3>2. \A a \in Apps : Holds(k, a)' => a \in Submitted(k)'
      BY <2>2, <2>3 DEF Holds, Submitted
    <3>3. QED
      BY <2>5, <3>1, <3>2 DEF ItemsFollowBatch
  <2>8. PICK d \in Tick : /\ d.row = c.row /\ d.attempt = c.attempt
                          /\ d.pc = "submit" /\ d.batch = k
                          /\ ticks' = (ticks \ {c}) \union {d}
    BY <1>6, <2>1
  <2>9. Current(d)'
    BY <2>2, <2>3, <2>4, <2>8 DEF Current
  <2>10. \A b \in DOMAIN batches' : Steady' /\ batches'[b].status \notin Active
                                       => batches'[b].job # "running"
    BY <1>4, <2>2, <2>3, <2>4 DEF Batching, FinishedStopped
  <2>11. QED
    BY <1>1, <1>5, <2>3, <2>6, <2>8, <2>9, <2>10, TickKeeps
<1>8. CASE ActiveBatches # {}
  <2>1. UNCHANGED batches /\ Forget(c, "raise", 0)
    BY <1>8 DEF Create
  <2>2. PICK d \in Tick : /\ d.row = c.row /\ d.attempt = c.attempt
                          /\ d.pc = "raise" /\ ticks' = (ticks \ {c}) \union {d}
    BY <1>6, <2>1
  <2>3. ItemsFollowBatch'
    BY <1>2, <2>1 DEF Batching, ItemsFollowBatch, ActiveBatches, Submitted, Holds, Undisturbed
  <2>4. ~Undisturbed /\ ~Steady' /\ "raise" \notin AtBatch
    BY <1>3, <1>4, <1>8 DEF AtBatch
  <2>5. QED
    BY <1>1, <1>5, <2>1, <2>2, <2>3, <2>4, TickKeeps
<1>9. QED
  BY <1>7, <1>8

LEMMA TickStepKeeps ==
  ASSUME Queue, Queue', Batching, NEW c \in ticks, TickStep(c)
  PROVE  Batching'
BY FailingKeeps, ImportKeeps, PollNotReadyKeeps, PollReadyKeeps, SubmitKeeps, SelectKeeps,
   CreateKeeps DEF TickStep

------------------------------------------------------------------------------
(* What a step of the queue does to the rows.                              *)

FailedKept ==
  \A i \in DOMAIN queue :
     i \in DOMAIN queue' /\ (queue[i].status = "failed" => queue'[i].status = "failed")
LiveKept == \A i \in DOMAIN queue : queue[i].status \in Live => queue'[i].status \in Live
HeldKept ==
  \A i \in DOMAIN queue : queue[i].status = "in_progress" => queue'[i].status = "in_progress"

LEMMA KeysNext ==
  ASSUME Queue'
  PROVE  \A i \in DOMAIN queue' : queue'[i] \in Row /\ queue'[i].key = BatchKey
<1>1. queue' \in Seq(Row)
  BY DEF Queue, Base, TypeOK
<1>2. \A i \in DOMAIN queue' : queue'[i] \in Row
  BY <1>1, LenProperties, ElementOfSeq
<1>3. QED
  BY <1>2, BatchAssumption DEF Row

LEMMA KeptRows ==
  ASSUME Queue, Queue', FailedKept
  PROVE  /\ GaveUp => GaveUp'
         /\ LiveKept => (NoLiveRow' => NoLiveRow)
         /\ HeldKept /\ (\E i \in DOMAIN queue : queue[i].status = "in_progress")
               => \E i \in DOMAIN queue' : queue'[i].status = "in_progress"
BY KeysNext DEF FailedKept, LiveKept, HeldKept, GaveUp, NoLiveRow

LEMMA EnqueueRows ==
  ASSUME Queue, Queue', NEW onConflict, Enqueue(BatchKey, onConflict)
  PROVE  FailedKept /\ LiveKept /\ HeldKept /\ ~NoLiveRow'
<1>1. queue \in Seq(Row) /\ BatchKey \in Keys
  BY BatchAssumption DEF Queue, Base, TypeOK
<1>2. PICK due \in BOOLEAN : queue' = Enqueued(queue, BatchKey, onConflict, due)
  BY Zenon DEF Enqueue
<1>3. \A i \in DOMAIN queue : i \in DOMAIN queue' /\ queue'[i].status = queue[i].status
  <2>1. \A i \in DOMAIN queue : queue[i].by \in Workers <=> queue[i].status = "in_progress"
    BY DEF Queue, Base, LeaseConsistent
  <2>2. QED
    BY <1>1, <1>2, <2>1, EnqueueKeepsLeases
<1>4. ~NoLiveRow'
  <2>1. CASE \E i \in DOMAIN queue : queue[i].status \in Live
    BY <1>3, <2>1, KeysNext DEF NoLiveRow
  <2>2. CASE ~ \E i \in DOMAIN queue : queue[i].status \in Live
    <3>1. queue' = Append(queue, NewRow(BatchKey, due))
      BY <1>2, <2>2 DEF Enqueued
    <3>2. NewRow(BatchKey, due) \in Row /\ NewRow(BatchKey, due).status = "pending"
      BY <1>1 DEF NewRow, Row, Status
    <3>3. \E i \in DOMAIN queue' : queue'[i].status = "pending"
      BY <1>1, <3>1, <3>2, AppendOne
    <3>4. QED
      BY <3>3, KeysNext DEF NoLiveRow, Live
  <2>3. QED
    BY <2>1, <2>2
<1>5. QED
  BY <1>3, <1>4 DEF FailedKept, LiveKept, HeldKept

(* While no row was disturbed a row in progress is not claimed again, and  *)
(* no other row is live.                                                   *)
LEMMA ClaimRows ==
  ASSUME Queue, NEW w \in Workers, NEW lane \in Lanes, Claim(w, lane)
  PROVE  /\ FailedKept /\ LiveKept /\ HeldKept /\ UNCHANGED disturbed
         /\ Undisturbed => ~ \E i \in DOMAIN queue : queue[i].status = "in_progress"
         /\ \A t \in tasks' : t.pc = "finish" => t \in tasks
<1>1. queue \in Seq(Row)
  BY DEF Queue, Base, TypeOK
<1>2. PICK i \in DOMAIN queue :
         /\ ClaimRow(w, i)
         /\ \/ queue[i].status = "pending"
            \/ queue[i].status = "in_progress" /\ queue[i].expired
  BY DEF Claim, Claimable
<1>3. /\ DOMAIN queue' = DOMAIN queue
      /\ \A j \in DOMAIN queue : queue'[j] = IF j = i THEN ClaimedRow(w, i) ELSE queue[j]
  BY <1>1, <1>2, ClaimEffect
<1>4. ClaimedRow(w, i).status = "in_progress"
  BY <1>2, QueueTyped DEF ClaimedRow, Row
<1>5. FailedKept /\ LiveKept /\ HeldKept
  BY <1>2, <1>3, <1>4 DEF FailedKept, LiveKept, HeldKept, Live
<1>6. Undisturbed => ~ \E j \in DOMAIN queue : queue[j].status = "in_progress"
  <2> SUFFICES ASSUME Undisturbed, NEW j \in DOMAIN queue, queue[j].status = "in_progress"
               PROVE  FALSE
    OBVIOUS
  <2>1. ~queue[j].expired
    BY DEF Queue, Execution, LeasesFresh, Undisturbed
  <2>2. j = i
    BY <1>2, QueueTyped DEF Queue, OneLivePerKey, Live
  <2>3. QED
    BY <1>2, <2>1, <2>2
<1>7. \A t \in tasks' : t.pc = "finish" => t \in tasks
  <2>1. tasks' = tasks \union {ClaimTask(w, i)} /\ ClaimTask(w, i).pc = FirstPc(i, queue[i].attempts + 1)
    BY <1>2 DEF ClaimRow, ClaimTask
  <2>2. FirstPc(i, queue[i].attempts + 1) \in {"run", "retry", "hook"}
    BY DEF FirstPc
  <2>3. QED
    BY <2>1, <2>2
<1>8. QED
  BY <1>2, <1>5, <1>6, <1>7 DEF ClaimRow

LEMMA ClockRows ==
  ASSUME Queue, NEW i \in DOMAIN queue, NotBeforePasses(i) \/ LeaseExpires(i)
  PROVE  FailedKept /\ LiveKept /\ HeldKept /\ disturbed \subseteq disturbed' /\ UNCHANGED tasks
<1>1. queue \in Seq(Row) /\ queue[i] \in Row
  BY QueueTyped DEF Queue, Base, TypeOK
<1>2. \/ queue' = [queue EXCEPT ![i] = [queue[i] EXCEPT !.due = TRUE]]
      \/ queue' = [queue EXCEPT ![i] = [queue[i] EXCEPT !.expired = TRUE]]
  BY DEF NotBeforePasses, LeaseExpires
<1>3. PICK v \in Row : queue' = [queue EXCEPT ![i] = v] /\ v.status = queue[i].status
  BY <1>1, <1>2 DEF Row
<1>4. /\ DOMAIN queue' = DOMAIN queue
      /\ \A j \in DOMAIN queue : queue'[j] = IF j = i THEN v ELSE queue[j]
  BY <1>1, <1>3, UpdateOne
<1>5. QED
  BY <1>3, <1>4 DEF FailedKept, LiveKept, HeldKept, NotBeforePasses, LeaseExpires

(* A job that settles leaves a failed row, or has asked for another tick,  *)
(* or was about to settle without a follow-up; a release keeps its row.    *)
LEMMA FinalizerRows ==
  ASSUME Queue, Queue', NEW t \in tasks, MarkDone(t) \/ MarkFailed(t) \/ Release(t)
  PROVE  /\ FailedKept /\ UNCHANGED disturbed
         /\ \A s \in tasks' : s.pc = "finish" => s \in tasks
         /\ \/ NoLiveRow' => NoLiveRow
            \/ GaveUp'
            \/ t.pc = "finish" /\ t.follow = NoKey
         /\ MarkFailed(t) /\ Undisturbed => GaveUp'
<1>1. /\ queue \in Seq(Row) /\ t.row \in DOMAIN queue /\ t \in Task
      /\ t.follow \in Keys \union {NoKey} /\ Base
  BY QueueTyped DEF Queue, Base, TypeOK, Task
<1>2. UNCHANGED disturbed /\ \A s \in tasks' : s.pc = "finish" => s \in tasks
  BY <1>1 DEF MarkDone, MarkFailed, Release, Goto, End, Task
<1>3. CASE ~Owns(t)
  <2>1. UNCHANGED queue
    BY <1>3 DEF MarkDone, MarkFailed, Release
  <2>2. ~Undisturbed
    BY <1>3 DEF HoldsLease, Queue, Execution, LeasesHeld, Undisturbed
  <2>3. QED
    BY <1>2, <2>1, <2>2 DEF FailedKept, NoLiveRow
<1>4. CASE MarkDone(t) /\ Owns(t)
  <2> DEFINE q == Finished(t.row, "done")
  <2>1. /\ q \in Seq(Row) /\ DOMAIN q = DOMAIN queue
        /\ \A j \in DOMAIN queue : j # t.row => q[j] = queue[j]
        /\ \A j \in DOMAIN q : q[j].key = queue[j].key
        /\ \A j \in DOMAIN q : q[j].by \in Workers <=> q[j].status = "in_progress"
    BY <1>1, FinishedKeepsLeases
  <2>2. queue[t.row].status # "failed"
    BY <1>4 DEF Owns
  <2>3. CASE t.follow = NoKey
    <3>1. queue' = q /\ t.pc = "finish"
      BY <1>4, <2>3 DEF MarkDone
    <3> HIDE DEF q
    <3>2. FailedKept
      BY <2>1, <2>2, <3>1 DEF FailedKept
    <3>3. QED
      BY <1>2, <2>3, <3>1, <3>2 DEF MarkFailed
  <2>4. CASE t.follow # NoKey
    <3>1. t.follow = BatchKey /\ BatchKey \in Keys
      BY <1>1, <2>4, BatchAssumption
    <3>2. PICK due \in BOOLEAN : queue' = Enqueued(q, BatchKey, "upsert_reset_not_before", due)
      BY <1>4, <2>4, <3>1 DEF MarkDone
    <3> HIDE DEF q
    <3>3. \A i \in DOMAIN q : i \in DOMAIN queue' /\ queue'[i].status = q[i].status
      BY <2>1, <3>1, <3>2, EnqueueKeepsLeases
    <3>4. FailedKept
      BY <2>1, <2>2, <3>3 DEF FailedKept
    <3>5. ~NoLiveRow'
      <4>1. CASE \E i \in DOMAIN q : q[i].key = BatchKey /\ q[i].status \in Live
        BY <3>3, <4>1, KeysNext DEF NoLiveRow
      <4>2. CASE ~ \E i \in DOMAIN q : q[i].key = BatchKey /\ q[i].status \in Live
        <5>1. queue' = Append(q, NewRow(BatchKey, due))
          BY <3>2, <4>2 DEF Enqueued
        <5>2. NewRow(BatchKey, due) \in Row /\ NewRow(BatchKey, due).status = "pending"
          BY <3>1 DEF NewRow, Row, Status
        <5>3. \E i \in DOMAIN queue' : queue'[i].status = "pending"
          BY <2>1, <5>1, <5>2, AppendOne
        <5>4. QED
          BY <5>3, KeysNext DEF NoLiveRow, Live
      <4>3. QED
        BY <4>1, <4>2
    <3>6. QED
      BY <1>2, <1>4, <3>4, <3>5 DEF MarkDone, MarkFailed
  <2>5. QED
    BY <2>3, <2>4
<1>5. CASE MarkFailed(t) /\ Owns(t)
  <2> DEFINE q == Finished(t.row, "failed")
  <2>1. /\ DOMAIN q = DOMAIN queue /\ q[t.row].status = "failed"
        /\ \A j \in DOMAIN queue : j # t.row => q[j] = queue[j]
    BY <1>1, FinishedKeepsLeases
  <2>2. queue' = q
    BY <1>5 DEF MarkFailed
  <2> HIDE DEF q
  <2>3. FailedKept /\ GaveUp'
    BY <1>1, <2>1, <2>2, KeysNext DEF FailedKept, GaveUp
  <2>4. QED
    BY <1>2, <2>3
<1>6. CASE Release(t) /\ Owns(t)
  <2> DEFINE q == Released(t.row)
  <2>1. /\ DOMAIN q = DOMAIN queue /\ q[t.row].status = "pending"
        /\ \A j \in DOMAIN queue : j # t.row => q[j] = queue[j]
    BY <1>1, ReleasedKeepsLeases
  <2>2. queue' = q /\ queue[t.row].status = "in_progress"
    BY <1>6 DEF Release, Owns
  <2> HIDE DEF q
  <2>3. FailedKept /\ LiveKept
    BY <1>1, <2>1, <2>2 DEF FailedKept, LiveKept, Live
  <2>4. QED
    BY <1>2, <1>6, <2>3, KeptRows DEF Release, MarkFailed
<1>7. QED
  BY <1>3, <1>4, <1>5, <1>6

------------------------------------------------------------------------------
(* The steps beside the ticks.                                             *)

LEMMA AsideKeeps ==
  ASSUME Queue, Queue', Batching, UNCHANGED <<batches, errors>>,
         ticks' \subseteq ticks,
         \A c \in ticks' : \E t \in tasks' : t.row = c.row /\ t.attempt = c.attempt /\ t.pc = "run",
         apps' \in [Apps -> {"absent", "unscored", "scored"}], missed' \in BOOLEAN,
         FailedKept, disturbed \subseteq disturbed',
         Undisturbed' /\ tasks # {} /\ (missed \/ Candidates = {}) => missed' \/ Candidates' = {},
         Undisturbed' => \A t \in tasks' :
            t.pc = "finish" /\ t.follow = NoKey => t \in tasks \/ NothingLeft',
         \/ NoLiveRow' => /\ NoLiveRow
                          /\ (missed \/ Candidates = {}) => (missed' \/ Candidates' = {})
         \/ GaveUp' \/ ~Undisturbed' \/ NothingLeft',
         Steady' /\ BuildersHeld => BuildersHeld'
  PROVE  Batching'
<1> USE DEF Batching
<1>1. Undisturbed' => Undisturbed
  BY DEF Undisturbed
<1>2. GaveUp => GaveUp'
  BY KeptRows
<1>3. Steady' => Steady
  BY <1>1, <1>2 DEF Steady
<1>4. BatchTypeOK'
  BY BatchTyped DEF BatchTypeOK, Queue, Base
<1>5. TicksHaveTasks' /\ TicksIdentify' /\ TicksRefer'
  BY DEF TicksHaveTasks, TicksIdentify, TicksRefer
<1>6. ActiveBatches' = ActiveBatches
  BY DEF ActiveBatches
<1>7. ASSUME Undisturbed', NEW c \in ticks'
      PROVE  Current(c)'
  <2>1. Current(c) /\ tasks # {}
    BY <1>1, <1>7 DEF TicksCurrent, TicksHaveTasks
  <2>2. c.pc = "idle" => missed' \/ Candidates' = {}
    BY <1>7, <2>1 DEF Current
  <2>3. QED
    BY <1>6, <2>1, <2>2 DEF Current
<1>8. TicksCurrent'
  BY <1>7 DEF TicksCurrent
<1>9. LastJobsClean'
  <2> SUFFICES ASSUME Undisturbed', NEW t \in tasks', t.pc = "finish", t.follow = NoKey, t \in tasks
               PROVE  NothingLeft'
    BY DEF LastJobsClean
  <2>1. NothingLeft
    BY <1>1 DEF LastJobsClean
  <2>2. QED
    BY <1>6, <2>1 DEF NothingLeft
<1>10. ItemsFollowBatch'
  BY <1>1, <1>6 DEF ItemsFollowBatch, Submitted, Holds
<1>11. BatchIsCarried'
  BY <1>1, <1>2, <1>6 DEF BatchIsCarried, NothingLeft
<1>12. BacklogIsCarried'
  BY <1>1, <1>2, <1>6 DEF BacklogIsCarried, NothingLeft
<1>13. FinishedStopped' /\ BuildingHeld' /\ NothingExpires'
  BY <1>3 DEF FinishedStopped, BuildingHeld, NothingExpires
<1>14. QED
  BY <1>4, <1>5, <1>8, <1>9, <1>10, <1>11, <1>12, <1>13

LEMMA BeginKeeps ==
  ASSUME Queue, Queue', Batching, NEW t \in tasks, Begin(t)
  PROVE  Batching'
<1> USE DEF Batching
<1>1. /\ t.pc = "run" /\ TickOf(t) = {} /\ UNCHANGED <<apps, batches, errors, missed>>
      /\ UNCHANGED <<queue, tasks, disturbed>>
  BY DEF Begin, wqVars
<1>2. /\ t.row \in Nat /\ t.attempt \in Nat /\ DOMAIN batches \subseteq Nat
      /\ \A b \in DOMAIN batches : batches[b] \in Batch
  BY QueueTyped, BatchTyped
<1>3. PICK pc \in TickPc, n \in Nat :
         /\ ticks' = ticks \union {NewTick(t, pc, n)}
         /\ \/ pc = "build" /\ ActiveBatches = {}
            \/ n \in ActiveBatches /\ pc \in FirstStep(batches[n].status)
  <2>1. CASE ActiveBatches = {} /\ ticks' = ticks \union {NewTick(t, "build", 0)}
    BY <2>1 DEF TickPc
  <2>2. ASSUME NEW b \in ActiveBatches, NEW pc \in FirstStep(batches[b].status),
               ticks' = ticks \union {NewTick(t, pc, b)}
        PROVE  pc \in TickPc /\ b \in Nat
    BY <1>2, <2>2 DEF FirstStep, TickPc, ActiveBatches
  <2>3. QED
    BY <2>1, <2>2 DEF Begin
<1>4. PICK d \in Tick : /\ ticks' = ticks \union {d} /\ d.row = t.row /\ d.attempt = t.attempt
                        /\ d.pc = pc /\ d.batch = n
  <2>1. NewTick(t, pc, n) \in Tick
    BY <1>2 DEF NewTick, Tick
  <2>2. QED
    BY <1>3, <2>1 DEF NewTick
<1>5. /\ pc \in AtBatch => n \in ActiveBatches
      /\ pc \in {"poll", "repoll"} => batches[n].status # "building"
      /\ pc \notin {"fetch", "submit", "accepted", "create", "idle"}
      /\ pc = "build" => ActiveBatches = {}
      /\ pc = "expire" => batches[n].status = "building"
      /\ n \in ActiveBatches => n \in DOMAIN batches /\ batches[n].status \in Active
  BY <1>3 DEF FirstStep, AtBatch, ActiveBatches
<1>6. BatchTypeOK'
  BY <1>1, <1>4, BatchTyped DEF BatchTypeOK, Queue, Base
<1>7. TicksHaveTasks' /\ TicksRefer'
  BY <1>1, <1>4, <1>5 DEF TicksHaveTasks, TicksRefer
<1>8. TicksIdentify'
  BY <1>1, <1>4 DEF TicksIdentify, TickOf
<1>9. Current(d)'
  BY <1>1, <1>4, <1>5 DEF Current, ActiveBatches
<1>10. TicksCurrent'
  BY <1>1, <1>4, <1>9 DEF TicksCurrent, Current, Undisturbed, ActiveBatches, Candidates, Blocked
<1>11. LastJobsClean' /\ ItemsFollowBatch' /\ BatchIsCarried' /\ BacklogIsCarried' /\ FinishedStopped'
  BY <1>1 DEF LastJobsClean, NothingLeft, ItemsFollowBatch, BatchIsCarried, BacklogIsCarried,
     FinishedStopped, Steady, Undisturbed, GaveUp, NoLiveRow, ActiveBatches, Candidates, Blocked,
     Submitted, Holds
<1>12. Steady' => Steady
  BY <1>1 DEF Steady, Undisturbed, GaveUp
<1>13. Steady => ~BuildersHeld
  BY <1>1 DEF BuildersHeld, Builds
<1>14. BuildingHeld'
  BY <1>1, <1>12, <1>13 DEF BuildingHeld
<1>15. NothingExpires'
  <2>1. Steady' => ~ \E b \in DOMAIN batches : batches[b].status = "building"
    BY <1>12, <1>13 DEF BuildingHeld
  <2>2. QED
    BY <1>4, <1>5, <1>12, <2>1 DEF NothingExpires, AtBatch
<1>16. QED
  BY <1>6, <1>7, <1>8, <1>10, <1>11, <1>14, <1>15

(* The fetch job, the reconciler, and a score that reaches an application  *)
(* by another way.                                                         *)
LEMMA CallersKeep ==
  ASSUME Queue, Queue', Batching,
         \/ \E a \in Apps : Fetch(a) \/ LeavePool(a)
         \/ \E b \in DOMAIN batches : EnqueueDuePoll(b)
  PROVE  Batching'
<1>1. /\ UNCHANGED <<batches, errors, ticks, tasks, disturbed>> /\ FailedKept /\ LiveKept /\ HeldKept
  <2>1. ASSUME NEW onConflict, Enqueue(BatchKey, onConflict)
        PROVE  UNCHANGED <<tasks, disturbed>> /\ FailedKept /\ LiveKept /\ HeldKept
    BY <2>1, EnqueueRows DEF Enqueue
  <2>2. UNCHANGED queue => FailedKept /\ LiveKept /\ HeldKept
    BY DEF FailedKept, LiveKept, HeldKept
  <2>3. QED
    BY <2>1, <2>2 DEF Fetch, LeavePool, EnqueueDuePoll, batchVars, wqVars
<1>2. apps' \in [Apps -> {"absent", "unscored", "scored"}] /\ missed' \in BOOLEAN
  BY BatchTyped DEF Fetch, LeavePool, EnqueueDuePoll, batchVars
<1>3. \/ missed' = missed /\ Candidates' \subseteq Candidates
      \/ ~NoLiveRow' /\ ((\E i \in DOMAIN queue : queue[i].status = "in_progress") => missed')
  <2>1. ASSUME NEW a \in Apps, Fetch(a)
        PROVE  ~NoLiveRow' /\ ((\E i \in DOMAIN queue : queue[i].status = "in_progress") => missed')
    BY <2>1, EnqueueRows, QueueTyped DEF Fetch
  <2>2. ASSUME NEW a \in Apps, LeavePool(a)
        PROVE  missed' = missed /\ Candidates' \subseteq Candidates
    BY <2>2, BatchTyped DEF LeavePool, Candidates, Blocked
  <2>3. ASSUME NEW b \in DOMAIN batches, EnqueueDuePoll(b)
        PROVE  missed' = missed /\ Candidates' \subseteq Candidates
    BY <2>3 DEF EnqueueDuePoll, batchVars, Candidates, Blocked
  <2>4. QED
    BY <2>1, <2>2, <2>3
<1>4. Undisturbed' /\ tasks # {} /\ (missed \/ Candidates = {}) => missed' \/ Candidates' = {}
  <2>1. Undisturbed' /\ tasks # {} => \E i \in DOMAIN queue : queue[i].status = "in_progress"
    BY <1>1, SoleTask, QueueTyped DEF Undisturbed
  <2>2. QED
    BY <1>3, <2>1
<1>5. NoLiveRow' => /\ NoLiveRow
                    /\ (missed \/ Candidates = {}) => (missed' \/ Candidates' = {})
  BY <1>1, <1>3, KeptRows
<1>6. BuildersHeld => BuildersHeld'
  BY <1>1, KeptRows DEF BuildersHeld, Builds, TickOf
<1>7. \A c \in ticks' : \E t \in tasks' : t.row = c.row /\ t.attempt = c.attempt /\ t.pc = "run"
  BY <1>1 DEF Batching, TicksHaveTasks
<1>8. QED
  BY <1>1, <1>2, <1>4, <1>5, <1>6, <1>7, AsideKeeps

LEMMA HandlerKeeps ==
  ASSUME Queue, Queue', Batching, NEW t \in tasks, Return(t) \/ Raise(t)
  PROVE  Batching'
<1>1. /\ t.pc = "run" /\ t \in Task /\ ticks' = Ongoing
      /\ UNCHANGED <<queue, disturbed, apps, batches, errors, missed>>
  BY QueueTyped DEF Return, Raise, HandlerCommits, HandlerRaises
<1>2. ticks' \subseteq ticks
      /\ \A c \in ticks' : \E s \in tasks' : s.row = c.row /\ s.attempt = c.attempt /\ s.pc = "run"
  BY <1>1 DEF Ongoing
<1>3. /\ apps' \in [Apps -> {"absent", "unscored", "scored"}] /\ missed' \in BOOLEAN
      /\ FailedKept /\ disturbed \subseteq disturbed'
      /\ Undisturbed' /\ tasks # {} /\ (missed \/ Candidates = {}) => missed' \/ Candidates' = {}
      /\ NoLiveRow' => /\ NoLiveRow
                       /\ (missed \/ Candidates = {}) => (missed' \/ Candidates' = {})
  BY <1>1, BatchTyped DEF FailedKept, NoLiveRow, Candidates, Blocked
<1>4. NothingLeft => NothingLeft'
  BY <1>1 DEF NothingLeft, ActiveBatches, Candidates, Blocked
<1>5. CASE Return(t)
  <2>1. PICK c \in TickOf(t), follow \in {BatchKey, NoKey} :
           /\ HandlerCommits(t, follow)
           /\ c.pc \in {"requeue", "idle"} /\ (follow = NoKey => c.pc = "idle")
    BY <1>5, BatchAssumption, KeysAssumption DEF Return
  <2>2. PICK u \in Task : tasks' = (tasks \ {t}) \union {u} /\ u.follow = follow
    <3>1. follow \in Keys \union {NoKey}
      BY BatchAssumption
    <3>2. [t EXCEPT !.pc = "finish", !.follow = follow] \in Task
          /\ [t EXCEPT !.pc = "finish", !.follow = follow].follow = follow
      BY <1>1, <3>1 DEF Task, TaskPc
    <3>3. QED
      BY <2>1, <3>2 DEF HandlerCommits
  <2>3. Undisturbed /\ follow = NoKey => NothingLeft
    BY <2>1 DEF Batching, TicksCurrent, Current, NothingLeft, TickOf
  <2>4. Undisturbed' => \A s \in tasks' :
           s.pc = "finish" /\ s.follow = NoKey => s \in tasks \/ NothingLeft'
    BY <1>1, <1>4, <2>2, <2>3 DEF Undisturbed
  <2>5. ~BuildersHeld
    <3>1. ~Builds(t)
      BY <2>1 DEF Builds, TickOf, Batching, TicksIdentify
    <3>2. QED
      BY <1>1, <3>1 DEF BuildersHeld
  <2>6. QED
    BY <1>1, <1>2, <1>3, <2>4, <2>5, AsideKeeps
<1>6. CASE Raise(t)
  <2>1. PICK u \in Task : tasks' = (tasks \ {t}) \union {u} /\ u.pc = "hook"
    <3>1. [t EXCEPT !.pc = "hook"] \in Task /\ [t EXCEPT !.pc = "hook"].pc = "hook"
      BY <1>1 DEF Task, TaskPc
    <3>2. QED
      BY <1>6, <3>1 DEF Raise, HandlerRaises, Goto
  <2>2. Undisturbed' => \A s \in tasks' :
           s.pc = "finish" /\ s.follow = NoKey => s \in tasks \/ NothingLeft'
    BY <2>1
  <2>3. Steady' /\ BuildersHeld => BuildersHeld'
    <3>1. Steady' => \A s \in tasks' : s = u
      BY <1>1, <2>1, SoleTask DEF Steady, Undisturbed
    <3>2. QED
      BY <1>1, <2>1, <3>1 DEF BuildersHeld
  <2>4. QED
    BY <1>1, <1>2, <1>3, <2>2, <2>3, AsideKeeps
<1>7. QED
  BY <1>5, <1>6

LEMMA QueueStepKeeps ==
  ASSUME Queue, Queue', Batching, QueueStep
  PROVE  Batching'
<1>1. ticks' = Ongoing /\ UNCHANGED <<apps, batches, errors, missed>>
  BY DEF QueueStep, Aside
<1>2. ticks' \subseteq ticks
      /\ \A c \in ticks' : \E s \in tasks' : s.row = c.row /\ s.attempt = c.attempt /\ s.pc = "run"
  BY <1>1 DEF Ongoing
<1>3. /\ apps' \in [Apps -> {"absent", "unscored", "scored"}] /\ missed' \in BOOLEAN
      /\ Candidates' = Candidates
  BY <1>1, BatchTyped DEF Candidates, Blocked
<1>4. NothingLeft => NothingLeft'
  BY <1>1, <1>3 DEF NothingLeft, ActiveBatches
<1>5. ASSUME NEW s \in tasks, s \in tasks'
      PROVE  Builds(s) => Builds(s)'
  BY <1>1, <1>5 DEF Builds, TickOf, Ongoing
(* What is left to show of a step, once its effect on the rows is known.   *)
<1> DEFINE Quiet ==
      /\ FailedKept /\ disturbed \subseteq disturbed'
      /\ Undisturbed' => \A s \in tasks' : s.pc = "finish" => s \in tasks
      /\ (NoLiveRow' => NoLiveRow) \/ GaveUp' \/ ~Undisturbed' \/ NothingLeft'
      /\ Steady' /\ BuildersHeld => BuildersHeld'
<1>6. Quiet => Batching'
  BY <1>1, <1>2, <1>3, AsideKeeps
<1>7. ASSUME FailedKept, HeldKept, \A s \in tasks' : s \in tasks \/ s.pc \in {"hook", "fail"}
      PROVE  BuildersHeld => BuildersHeld'
  BY <1>5, <1>7, KeptRows DEF BuildersHeld, Builds
<1>8. UNCHANGED queue => FailedKept /\ LiveKept /\ HeldKept
  BY DEF FailedKept, LiveKept, HeldKept
<1>9. ASSUME NEW w \in Workers, NEW lane \in Lanes, Claim(w, lane)
      PROVE  Quiet
  <2>1. /\ FailedKept /\ LiveKept /\ UNCHANGED disturbed
        /\ \A s \in tasks' : s.pc = "finish" => s \in tasks
        /\ Undisturbed => ~BuildersHeld
    BY <1>9, ClaimRows DEF BuildersHeld
  <2>2. QED
    BY <2>1, KeptRows DEF Steady, Undisturbed
<1>10. ASSUME NEW t \in tasks, MarkDone(t) \/ MarkFailed(t) \/ Release(t)
       PROVE  Quiet
  <2>1. /\ FailedKept /\ UNCHANGED disturbed
        /\ \A s \in tasks' : s.pc = "finish" => s \in tasks
        /\ \/ NoLiveRow' => NoLiveRow
           \/ GaveUp'
           \/ t.pc = "finish" /\ t.follow = NoKey
        /\ MarkFailed(t) /\ Undisturbed => GaveUp'
    BY <1>10, FinalizerRows
  <2>2. Undisturbed' /\ t.pc = "finish" /\ t.follow = NoKey => NothingLeft'
    BY <1>4, <2>1 DEF Batching, LastJobsClean, Undisturbed
  <2>3. Steady' => ~BuildersHeld
    <3>1. CASE MarkFailed(t)
      BY <2>1, <3>1 DEF Steady, Undisturbed
    <3>2. CASE MarkDone(t) \/ Release(t)
      <4>1. t.pc \in {"finish", "retry", "giveback"}
        BY <3>2 DEF MarkDone, Release
      <4>2. QED
        BY <4>1 DEF BuildersHeld, Builds
    <3>3. QED
      BY <1>10, <3>1, <3>2
  <2>4. QED
    BY <2>1, <2>2, <2>3
<1>11. ASSUME NEW t \in tasks, HookReturns(t)
       PROVE  Quiet
  <2>1. t \in Task /\ UNCHANGED <<queue, disturbed>>
    BY <1>11, QueueTyped DEF HookReturns
  <2>2. \A s \in tasks' : s \in tasks \/ s.pc = "fail"
    <3>1. [t EXCEPT !.pc = "fail"].pc = "fail"
      BY <2>1 DEF Task
    <3>2. QED
      BY <1>11, <3>1 DEF HookReturns, Goto
  <2>3. QED
    BY <1>7, <1>8, <2>1, <2>2 DEF NoLiveRow
<1>12. ASSUME NEW t \in tasks, DatabaseError(t)
       PROVE  Quiet
  <2>1. UNCHANGED queue /\ disturbed' = disturbed \union {t.row}
    BY <1>12 DEF DatabaseError
  <2>2. ~Undisturbed' /\ ~Steady'
    BY <2>1 DEF Undisturbed, Steady
  <2>3. QED
    BY <1>8, <2>1, <2>2
<1>13. ASSUME NEW i \in DOMAIN queue, NotBeforePasses(i) \/ LeaseExpires(i)
       PROVE  Quiet
  <2>1. FailedKept /\ LiveKept /\ HeldKept /\ disturbed \subseteq disturbed' /\ UNCHANGED tasks
    BY <1>13, ClockRows
  <2>2. QED
    BY <1>7, <2>1, KeptRows
<1>14. ASSUME NEW w \in Workers, Start(w) \/ Shutdown(w) \/ Exit(w) \/ Crash(w)
       PROVE  Quiet
  <2>1. UNCHANGED <<queue, disturbed>> /\ tasks' \subseteq tasks
    BY <1>14 DEF Start, Shutdown, Exit, Crash
  <2>2. QED
    BY <1>7, <1>8, <2>1 DEF NoLiveRow
<1> HIDE DEF Quiet
<1>15. QED
  BY <1>6, <1>9, <1>10, <1>11, <1>12, <1>13, <1>14 DEF QueueStep, Finalize

------------------------------------------------------------------------------
(* The invariant, and what follows from it.                                *)

LEMMA BatchingInit == BatchInit => Batching
<1> SUFFICES ASSUME BatchInit
             PROVE  Batching
  OBVIOUS
<1>1. /\ queue = <<>> /\ tasks = {} /\ ticks = {} /\ batches = <<>> /\ errors = 0 /\ missed = FALSE
      /\ apps = [a \in Apps |-> "absent"]
  BY DEF BatchInit, Init
<1>2. batches \in Seq(Batch) /\ DOMAIN batches = {} /\ ActiveBatches = {} /\ Candidates = {}
  BY <1>1, EmptySeq DEF ActiveBatches, Candidates
<1>3. BatchTypeOK
  <2>1. TypeOK
    BY BaseInit DEF BatchInit, Base
  <2>2. QED
    BY <1>1, <1>2, <2>1 DEF BatchTypeOK
<1>4. TicksHaveTasks /\ TicksIdentify /\ TicksRefer /\ TicksCurrent /\ LastJobsClean /\ NothingExpires
  BY <1>1 DEF TicksHaveTasks, TicksIdentify, TicksRefer, TicksCurrent, LastJobsClean, NothingExpires
<1>5. ItemsFollowBatch /\ BatchIsCarried /\ BacklogIsCarried /\ FinishedStopped /\ BuildingHeld
  BY <1>2 DEF ItemsFollowBatch, BatchIsCarried, BacklogIsCarried, FinishedStopped, BuildingHeld
<1>6. QED
  BY <1>3, <1>4, <1>5 DEF Batching

LEMMA BatchingNext == Queue /\ Queue' /\ Batching /\ [BatchNext]_bmVars => Batching'
<1> SUFFICES ASSUME Queue, Queue', Batching, [BatchNext]_bmVars
             PROVE  Batching'
  OBVIOUS
<1>1. CASE UNCHANGED bmVars
  <2>1. /\ UNCHANGED <<queue, tasks, disturbed, apps, batches, ticks, errors, missed>>
        /\ FailedKept /\ HeldKept
    BY <1>1 DEF bmVars, FailedKept, HeldKept
  <2>2. apps' \in [Apps -> {"absent", "unscored", "scored"}] /\ missed' \in BOOLEAN
    BY <2>1, BatchTyped
  <2>3. Candidates' = Candidates /\ (NoLiveRow' => NoLiveRow) /\ (BuildersHeld => BuildersHeld')
    BY <2>1 DEF Candidates, Blocked, NoLiveRow, BuildersHeld, Builds, TickOf
  <2>4. \A c \in ticks' : \E t \in tasks' : t.row = c.row /\ t.attempt = c.attempt /\ t.pc = "run"
    BY <2>1 DEF Batching, TicksHaveTasks
  <2>5. QED
    BY <2>1, <2>2, <2>3, <2>4, AsideKeeps
<1>2. CASE BatchNext
  BY <1>2, BeginKeeps, HandlerKeeps, TickStepKeeps, CallersKeep, QueueStepKeeps DEF BatchNext
<1>3. QED
  BY <1>1, <1>2

LEMMA BatchingInvariant == BatchSpec => []Batching
<1>1. BatchInit => Batching
  BY BatchingInit
<1>2. Queue /\ Queue' /\ Batching /\ [BatchNext]_bmVars => Batching'
  BY BatchingNext
<1>3. QED
  BY <1>1, <1>2, QueueInvariant, PTL DEF BatchSpec

(* Batches, ticks and the queue below keep their types.                    *)
THEOREM BatchTypeCorrect == BatchSpec => []BatchTypeOK
<1>1. Batching => BatchTypeOK
  BY DEF Batching
<1>2. QED
  BY <1>1, BatchingInvariant, PTL

(* An application is at the provider in two running jobs only after a      *)
(* failed provider call, a job that failed for good, or a disturbed row:   *)
(* without them a batch that left the active ones has no running job.      *)
THEOREM PaidOnceHolds == BatchSpec => []PaidOnce
<1>1. Batching => PaidOnce
  <2> SUFFICES ASSUME Batching, PaidTwice
               PROVE  errors # 0 \/ GaveUp \/ ~Undisturbed
    BY DEF PaidOnce
  <2>1. PICK b1, b2 \in DOMAIN batches :
           b1 # b2 /\ batches[b1].job = "running" /\ batches[b2].job = "running"
    BY DEF PaidTwice
  <2>2. Steady => b1 \in ActiveBatches /\ b2 \in ActiveBatches
    BY <2>1 DEF Batching, FinishedStopped, ActiveBatches
  <2>3. QED
    BY <2>1, <2>2 DEF Batching, ItemsFollowBatch, Steady
<1>2. QED
  BY <1>1, BatchingInvariant, PTL

(* One batch is active at most, items wait only in it, and without a       *)
(* disturbance all of its items wait.                                      *)
THEOREM ItemsFollow == BatchSpec => []ItemsFollowBatch
<1>1. Batching => ItemsFollowBatch
  BY DEF Batching
<1>2. QED
  BY <1>1, BatchingInvariant, PTL

(* A batch without a scheduled poll has a live row that carries it on.     *)
THEOREM BatchCarried == BatchSpec => []BatchIsCarried
<1>1. Batching => BatchIsCarried
  BY DEF Batching
<1>2. QED
  BY <1>1, BatchingInvariant, PTL

(* Applications that wait to be selected have a tick or a batch to come.   *)
THEOREM BacklogCarried == BatchSpec => []BacklogIsCarried
<1>1. Batching => BacklogIsCarried
  BY DEF Batching
<1>2. QED
  BY <1>1, BatchingInvariant, PTL

(* A tick rewrites the batch it holds and no other.                        *)
LEMMA TickTouches ==
  ASSUME Batching, NEW c \in ticks, TickStep(c), NEW b \in DOMAIN batches
  PROVE  batches'[b] = batches[b] \/ (c.pc \in AtBatch /\ b = c.batch)
<1>1. batches \in Seq(Batch)
  BY BatchTyped
<1>2. CASE c.pc \in AtBatch
  <2>1. /\ c.batch \in DOMAIN batches /\ c.pc \notin {"build", "create"}
        /\ Failed(c.batch) = [batches EXCEPT ![c.batch] = FailedBatch(c.batch)]
    BY <1>2, HeldIsActive, FailedEffect DEF AtBatch
  <2>2. ASSUME b # c.batch
        PROVE  batches'[b] = batches[b]
    <3>1. Failed(c.batch)[b] = batches[b] /\ [Failed(c.batch) EXCEPT ![c.batch].job = "failed"][b] = batches[b]
      BY <1>1, <2>1, <2>2
    <3>2. CASE FailStale(c) \/ PollFailed(c) \/ PollRaises(c) \/ FetchFails(c) \/ SubmitFails(c)
      BY <3>1, <3>2 DEF FailStale, PollFailed, PollRaises, FetchFails, SubmitFails
    <3>3. CASE PollNotReady(c) \/ PollReady(c) \/ ProviderAccepts(c) \/ RecordSubmit(c)
      BY <1>1, <2>1, <2>2, <3>3 DEF PollNotReady, PollReady, ProviderAccepts, RecordSubmit
    <3>4. CASE \E good, bad \in SUBSET Apps : Import(c, good, bad)
      BY <1>1, <2>1, <2>2, <3>4 DEF Import
    <3>5. ~(SelectNothing(c) \/ SelectAndReject(c) \/ Select(c) \/ Create(c))
      BY <2>1 DEF SelectNothing, SelectAndReject, Select, Create
    <3>6. QED
      BY <3>2, <3>3, <3>4, <3>5 DEF TickStep
  <2>3. QED
    BY <1>2, <2>2
<1>3. CASE c.pc \notin AtBatch
  <2>1. SelectNothing(c) \/ SelectAndReject(c) \/ Select(c) \/ Create(c)
    BY <1>3 DEF TickStep, FailStale, PollNotReady, PollReady, PollFailed, PollRaises, FetchFails,
       Import, Answers, ProviderAccepts, RecordSubmit, SubmitFails, AtBatch
  <2>2. CASE Create(c)
    <3>1. UNCHANGED batches \/ batches' = Append(batches, NewBatch(c.chosen))
      BY <2>2 DEF Create
    <3>2. NewBatch(c.chosen) \in Batch
      BY DEF NewBatch, Batch, BatchStatus, Active, ItemStatus
    <3>3. QED
      BY <1>1, <3>1, <3>2, AppendOne
  <2>3. QED
    BY <2>1, <2>2 DEF SelectNothing, SelectAndReject, Select
<1>4. QED
  BY <1>2, <1>3

(* A finished batch stays as it is: while no row was disturbed the batch a *)
(* tick holds is an active one, however long the provider took.            *)
THEOREM FinishedStay == BatchSpec => FinishedStays
<1> DEFINE Reopens ==
      \E b \in DOMAIN batches :
         batches[b].status \notin Active /\ batches'[b].status # batches[b].status /\ Undisturbed
<1>1. Batching /\ [BatchNext]_bmVars => ~Reopens
  <2> SUFFICES ASSUME Batching, [BatchNext]_bmVars, NEW b \in DOMAIN batches,
                      batches[b].status \notin Active, Undisturbed
               PROVE  batches'[b].status = batches[b].status
    OBVIOUS
  <2>1. ASSUME NEW c \in ticks, TickStep(c)
        PROVE  batches'[b] = batches[b]
    <3>1. c.pc \in AtBatch => b # c.batch
      BY DEF Batching, TicksCurrent, Current
    <3>2. QED
      BY <2>1, <3>1, TickTouches
  <2>2. CASE UNCHANGED batches
    BY <2>2
  <2>3. BatchNext => UNCHANGED batches \/ \E c \in ticks : TickStep(c)
    BY DEF BatchNext, Begin, Return, Raise, Fetch, LeavePool, EnqueueDuePoll, QueueStep, Aside, batchVars
  <2>4. QED
    BY <2>1, <2>2, <2>3 DEF bmVars
<1>2. ~Reopens => [\A b \in DOMAIN batches :
                      batches[b].status \notin Active /\ batches'[b].status # batches[b].status
                         => ~Undisturbed]_bmVars
  OBVIOUS
<1>3. QED
  BY <1>1, <1>2, BatchingInvariant, PTL DEF BatchSpec, FinishedStays

(* Batches are worked on under a live row only, as long as no row was      *)
(* disturbed: what SyncStatus relies on when it takes a live row for a     *)
(* batch that may still move.                                              *)
THEOREM BatchesMoveUnderARow ==
  BatchSpec => [][batches' # batches /\ Undisturbed => ~NoLiveRow]_bmVars
<1> DEFINE Unattended == batches' # batches /\ Undisturbed /\ NoLiveRow
<1>1. Queue /\ Batching /\ [BatchNext]_bmVars => ~Unattended
  <2> SUFFICES ASSUME Queue, Batching, [BatchNext]_bmVars, Undisturbed, batches' # batches
               PROVE  ~NoLiveRow
    OBVIOUS
  <2>1. PICK c \in ticks : TickStep(c)
    BY DEF bmVars, BatchNext, Begin, Return, Raise, Fetch, LeavePool, EnqueueDuePoll, QueueStep,
       Aside, batchVars
  <2>2. PICK t \in tasks : t.row = c.row /\ t.attempt = c.attempt
    BY DEF Batching, TicksHaveTasks
  <2>3. t.row \in DOMAIN queue /\ queue[t.row].key = BatchKey
    BY QueueTyped
  <2>4. queue[t.row].status = "in_progress"
    BY SoleTask
  <2>5. QED
    BY <2>3, <2>4 DEF NoLiveRow, Live
<1>2. ~Unattended => [batches' # batches /\ Undisturbed => ~NoLiveRow]_bmVars
  OBVIOUS
<1>3. QED
  BY <1>1, <1>2, QueueInvariant, BatchingInvariant, PTL DEF BatchSpec

(* While no row was disturbed a row of the profile comes to life when a    *)
(* fetch, or the reconciler of an active batch, asks for it, and at no     *)
(* other time: no worker revives a chain of ticks that has ended.          *)
THEOREM RowsAreAskedFor ==
  BatchSpec => [][NoLiveRow /\ Undisturbed /\ ~NoLiveRow'
                    => \/ \E a \in Apps : Fetch(a)
                       \/ \E b \in ActiveBatches : EnqueueDuePoll(b)]_bmVars
<1> DEFINE Asked == (\E a \in Apps : Fetch(a)) \/ \E b \in ActiveBatches : EnqueueDuePoll(b)
           Revives == NoLiveRow /\ Undisturbed /\ ~NoLiveRow' /\ ~Asked
<1>1. Queue /\ [BatchNext]_bmVars => ~Revives
  <2> SUFFICES ASSUME Queue, [BatchNext]_bmVars, NoLiveRow, Undisturbed, ~Asked
               PROVE  NoLiveRow'
    OBVIOUS
  <2>1. \A i \in DOMAIN queue : queue[i].status \notin Live
    BY QueueTyped DEF NoLiveRow
  <2>2. tasks = {}
    BY <2>1, SoleTask, QueueTyped DEF Live
  <2>3. \/ UNCHANGED bmVars
        \/ \E c \in ticks : TickStep(c)
        \/ \E a \in Apps : LeavePool(a)
        \/ QueueStep
    BY <2>2 DEF BatchNext, EnqueueDuePoll, ActiveBatches
  <2>4. UNCHANGED queue
    <3>1. ASSUME NEW c \in ticks, TickStep(c)
          PROVE  UNCHANGED queue
      BY <3>1 DEF TickStep, FailStale, PollNotReady, PollReady, PollFailed, PollRaises, FetchFails,
         Import, SelectNothing, SelectAndReject, Select, Create, ProviderAccepts, RecordSubmit,
         SubmitFails, wqVars
    <3>2. ASSUME NEW a \in Apps, LeavePool(a)
          PROVE  UNCHANGED queue
      BY <3>2 DEF LeavePool, wqVars
    <3>3. CASE QueueStep
      <4>1. \A w \in Workers, lane \in Lanes : ~Claim(w, lane)
        BY <2>1 DEF Claim, Claimable, Live
      <4>2. \A i \in DOMAIN queue : ~NotBeforePasses(i) /\ ~LeaseExpires(i)
        BY <2>1 DEF NotBeforePasses, LeaseExpires, Live
      <4>3. QED
        BY <2>2, <3>3, <4>1, <4>2 DEF QueueStep, Start, Shutdown, Exit, Crash
    <3>4. QED
      BY <2>3, <3>1, <3>2, <3>3 DEF bmVars
  <2>5. QED
    BY <2>4 DEF NoLiveRow
<1>2. ~Revives => [NoLiveRow /\ Undisturbed /\ ~NoLiveRow' => Asked]_bmVars
  OBVIOUS
<1>3. QED
  BY <1>1, <1>2, QueueInvariant, PTL DEF BatchSpec
===============================================================================
