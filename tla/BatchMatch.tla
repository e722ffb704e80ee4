------------------------------ MODULE BatchMatch ------------------------------
(***************************************************************************)
(* Batch matching of one profile (app/services/batch_match_service.py):    *)
(* the tick that builds, submits, polls and imports provider batches, the  *)
(* handler that runs it on WorkQueue, the fetch job that asks for a tick   *)
(* and the reconciler of due polls.                                        *)
(*                                                                         *)
(* A tick commits several times and awaits the provider in between, so it  *)
(* has a control point of its own, and each action is one transaction or   *)
(* one call.  Which score an application gets, and the reviews and         *)
(* re-matches beside it, are the subject of Matching.                      *)
(***************************************************************************)
EXTENDS WorkQueue

CONSTANTS
    BatchKey,       \* batch_match_dedupe_key(profile_id)
    Apps,           \* applications of the profile, created or to come
    Mismatched,     \* those deterministic_rejection_fields rejects
    PoolLimit,      \* candidate_pool_limit
    MaxItems,       \* effective_max_items
    MaxBatches,     \* bound: batches ever created
    MaxErrors       \* bound: failing provider calls and wrong answers

ASSUME BatchAssumption ==
    /\ Keys = {BatchKey}
    /\ TypeOf[BatchKey] \in Handled
    /\ IsFiniteSet(Apps)
    /\ Mismatched \subseteq Apps
    /\ {PoolLimit, MaxItems, MaxBatches, MaxErrors} \subseteq Nat
    /\ 0 < MaxItems /\ MaxItems <= PoolLimit

VARIABLES
    apps,       \* the applications
    batches,    \* llm_match_batches with their items: a position is an id
    ticks,      \* running calls of run_batch_match_tick
    errors,     \* provider errors so far
    missed      \* a fetch met a running tick, or a tick rejected all it selected

batchVars == <<apps, batches, ticks, errors, missed>>
bmVars == <<queue, tasks, workers, applied, disturbed, faults,
            apps, batches, ticks, errors, missed>>

Active == {"building", "submitted", "importing"}
BatchStatus == Active \union {"done", "failed"}
ItemStatus == {"none", "submitted", "retryable_failed", "terminal_failed", "imported"}

(* "poll" says that next_poll_at is set.  "job" is the provider's side: it *)
(* counts as running until a poll learns how it ended.                     *)
Batch == [status: BatchStatus, items: [Apps -> ItemStatus], poll: BOOLEAN,
          job: {"none", "running", "ready", "failed"}]

(* Where a tick stands, and what it holds in memory: the batch it read, or *)
(* the applications it selected.  "repoll" is "poll" with a batch that was *)
(* read as importing.                                                      *)
TickPc == {"expire", "poll", "repoll", "fetch", "build", "create", "submit", "accepted",
           "requeue", "idle", "raise"}
Tick == [row: Nat, attempt: Nat, pc: TickPc, batch: Nat,
         chosen: SUBSET Apps, rejected: SUBSET Apps]

BatchTypeOK ==
    /\ TypeOK
    /\ apps \in [Apps -> {"absent", "unscored", "scored"}]
    /\ batches \in Seq(Batch)
    /\ ticks \subseteq Tick
    /\ errors \in Nat
    /\ missed \in BOOLEAN

ActiveBatches == {b \in DOMAIN batches : batches[b].status \in Active}

TickOf(t) == {c \in ticks : c.row = t.row /\ c.attempt = t.attempt}

(* The ticks that go on after a step of the queue.                         *)
Ongoing ==
    {c \in ticks : \E t \in tasks' : t.row = c.row /\ t.attempt = c.attempt /\ t.pc = "run"}

Moves(c, pc, b) == ticks' = (ticks \ {c}) \union {[c EXCEPT !.pc = pc, !.batch = b]}

ProviderError == errors < MaxErrors /\ errors' = errors + 1

(* uq_llm_match_batches_one_active_per_profile: an UPDATE that makes b     *)
(* active again fails while another batch is.                              *)
Conflict(b) == batches[b].status \notin Active /\ ActiveBatches # {}

------------------------------------------------------------------------------
(* run_batch_match_tick: reading the active batch                          *)

NewTick(t, pc, b) ==
    [row |-> t.row, attempt |-> t.attempt, pc |-> pc, batch |-> b,
     chosen |-> {}, rejected |-> {}]

(* A batch that is still building is stale or not: its age is any.         *)
FirstStep(seen) ==
    CASE seen = "building"  -> {"expire", "requeue"}
      [] seen = "importing" -> {"repoll"}
      [] OTHER              -> {"poll"}

BeginWithUnfinished(t) ==
    /\ t.pc = "run"
    /\ TickOf(t) = {}
    /\ \/ /\ \A b \in DOMAIN batches : batches[b].status = "done"
          /\ ticks' = ticks \union {NewTick(t, "build", 0)}
       \/ \E b \in DOMAIN batches :
             /\ batches[b].status # "done"
             /\ \E pc \in FirstStep(batches[b].status) : ticks' = ticks \union {NewTick(t, pc, b)}
    /\ UNCHANGED <<apps, batches, errors, missed, wqVars>>

Begin(t) ==
    /\ t.pc = "run"
    /\ TickOf(t) = {}
    /\ \/ /\ ActiveBatches = {}
          /\ ticks' = ticks \union {NewTick(t, "build", 0)}
       \/ \E b \in ActiveBatches : \E pc \in FirstStep(batches[b].status) :
             ticks' = ticks \union {NewTick(t, pc, b)}
    /\ UNCHANGED <<apps, batches, errors, missed, wqVars>>

------------------------------------------------------------------------------
(* _fail_batch and _poll_and_import                                        *)

Retried(items) ==
    [a \in Apps |-> IF items[a] = "submitted" THEN "retryable_failed" ELSE items[a]]

FailedKeepingItems(b) ==
    [batches EXCEPT ![b].status = "failed", ![b].poll = FALSE]

Failed(b) ==
    [batches EXCEPT ![b].status = "failed", ![b].poll = FALSE, ![b].items = Retried(@)]

FailStale(c) ==
    /\ c.pc = "expire"
    /\ batches' = Failed(c.batch)
    /\ Moves(c, "build", 0)
    /\ UNCHANGED <<apps, errors, missed, wqVars>>

PollNotReadyFails(c) ==
    /\ c.pc \in {"poll", "repoll"}
    /\ batches[c.batch].job = "running"
    /\ batches' = Failed(c.batch)
    /\ Moves(c, "requeue", 0)
    /\ UNCHANGED <<apps, errors, missed, wqVars>>

PollNotReady(c) ==
    /\ c.pc \in {"poll", "repoll"}
    /\ batches[c.batch].job = "running"
    /\ batches' = [batches EXCEPT ![c.batch].poll = TRUE]
    /\ Moves(c, "requeue", 0)
    /\ UNCHANGED <<apps, errors, missed, wqVars>>

(* Only a column whose value differs from the one that was read is written,*)
(* so a batch read as importing keeps the status it has now.               *)
PollReady(c) ==
    /\ c.pc \in {"poll", "repoll"}
    /\ batches[c.batch].job \in {"running", "ready"}
    /\ IF c.pc = "poll" /\ Conflict(c.batch)
       THEN batches' = [batches EXCEPT ![c.batch].job = "ready"] /\ Moves(c, "raise", 0)
       ELSE /\ batches' = [batches EXCEPT
                   ![c.batch].status = IF c.pc = "repoll" THEN @ ELSE "importing",
                   ![c.batch].poll = FALSE, ![c.batch].job = "ready"]
            /\ Moves(c, "fetch", c.batch)
    /\ UNCHANGED <<apps, errors, missed, wqVars>>

(* The provider reports that the job failed; the tick comes back and builds*)
(* a new batch from the items.                                             *)
PollFailed(c) ==
    /\ c.pc \in {"poll", "repoll"}
    /\ batches[c.batch].job \in {"running", "failed"}
    /\ batches' = [Failed(c.batch) EXCEPT ![c.batch].job = "failed"]
    /\ Moves(c, "requeue", 0)
    /\ UNCHANGED <<apps, errors, missed, wqVars>>

(* The call to the provider itself fails, with the same outcome.           *)
PollRaises(c) ==
    /\ c.pc \in {"poll", "repoll"}
    /\ ProviderError
    /\ batches' = Failed(c.batch)
    /\ Moves(c, "requeue", 0)
    /\ UNCHANGED <<apps, missed, wqVars>>

FetchFails(c) ==
    /\ c.pc = "fetch"
    /\ ProviderError
    /\ batches' = Failed(c.batch)
    /\ Moves(c, "requeue", 0)
    /\ UNCHANGED <<apps, missed, wqVars>>

(* The provider's output: of the items still submitted those in "good"     *)
(* have a valid result, those in "bad" meet a wrong or repeated request    *)
(* key, the others have an error or no result and may be retried.          *)
Submitted(b) == {a \in Apps : batches[b].items[a] = "submitted"}

Answers(c, good, bad) ==
    /\ c.pc = "fetch"
    /\ good \union bad \subseteq Submitted(c.batch)
    /\ good \intersect bad = {}
    /\ IF bad = {} THEN UNCHANGED errors ELSE ProviderError

ImportedItems(b, good, bad) ==
    [a \in Apps |-> IF batches[b].items[a] # "submitted" THEN batches[b].items[a]
                    ELSE IF a \in good THEN "imported"
                    ELSE IF a \in bad THEN "terminal_failed" ELSE "retryable_failed"]

ImportLeavesOpen(c, good, bad) ==
    /\ Answers(c, good, bad)
    /\ batches' = [batches EXCEPT ![c.batch].items = ImportedItems(c.batch, good, bad)]
    /\ apps' = [a \in Apps |-> IF a \in good THEN "scored" ELSE apps[a]]
    /\ Moves(c, "idle", 0)
    /\ UNCHANGED <<missed, wqVars>>

ImportThenIdle(c, good, bad) ==
    /\ Answers(c, good, bad)
    /\ batches' = [batches EXCEPT ![c.batch].status = "done", ![c.batch].poll = FALSE,
                                  ![c.batch].items = ImportedItems(c.batch, good, bad)]
    /\ apps' = [a \in Apps |-> IF a \in good THEN "scored" ELSE apps[a]]
    /\ Moves(c, "idle", 0)
    /\ UNCHANGED <<missed, wqVars>>

(* _import_provider_output and _finish_batch_if_drained, in one commit; no *)
(* item is left submitted.                                                 *)
Import(c, good, bad) ==
    /\ Answers(c, good, bad)
    /\ batches' = [batches EXCEPT ![c.batch].status = "done", ![c.batch].poll = FALSE,
                                  ![c.batch].items = ImportedItems(c.batch, good, bad)]
    /\ apps' = [a \in Apps |-> IF a \in good THEN "scored" ELSE apps[a]]
    /\ Moves(c, "build", 0)
    /\ UNCHANGED <<missed, wqVars>>

------------------------------------------------------------------------------
(* _build_and_submit                                                       *)

Blocked(a) ==
    \E b \in DOMAIN batches :
        \/ batches[b].items[a] = "submitted" /\ batches[b].status \in Active
        \/ batches[b].items[a] = "terminal_failed"

(* _select_unscored_application_rows, before its LIMIT.                    *)
Candidates == {a \in Apps : apps[a] = "unscored" /\ ~Blocked(a)}

(* The order of the candidates and their priority are data: any selection  *)
(* of the right size.                                                      *)
Within(S, limit) ==
    {T \in SUBSET S : Cardinality(T) = IF Cardinality(S) <= limit THEN Cardinality(S) ELSE limit}

SelectNothing(c) ==
    /\ c.pc = "build"
    /\ Candidates = {}
    /\ Moves(c, "idle", 0)
    /\ UNCHANGED <<apps, batches, errors, missed, wqVars>>

(* All that was selected is rejected deterministically: the scores are     *)
(* committed, nothing is submitted, and no follow-up is asked for.         *)
SelectAndReject(c) ==
    /\ c.pc = "build"
    /\ \E pool \in Within(Candidates, PoolLimit) :
          /\ pool # {} /\ pool \subseteq Mismatched
          /\ apps' = [a \in Apps |-> IF a \in pool THEN "scored" ELSE apps[a]]
    /\ Moves(c, "idle", 0)
    /\ missed' = TRUE
    /\ UNCHANGED <<batches, errors, wqVars>>

Select(c) ==
    /\ c.pc = "build"
    /\ \E pool \in Within(Candidates, PoolLimit) :
          /\ ~(pool \subseteq Mismatched)
          /\ \E chosen \in Within(pool \ Mismatched, MaxItems) :
                ticks' = (ticks \ {c}) \union
                   {[c EXCEPT !.pc = "create", !.chosen = chosen,
                              !.rejected = pool \intersect Mismatched]}
    /\ UNCHANGED <<apps, batches, errors, missed, wqVars>>

NewBatch(S) ==
    [status |-> "building", items |-> [a \in Apps |-> IF a \in S THEN "submitted" ELSE "none"],
     poll |-> FALSE, job |-> "none"]

Forget(c, pc, b) ==
    ticks' = (ticks \ {c}) \union
       {[c EXCEPT !.pc = pc, !.batch = b, !.chosen = {}, !.rejected = {}]}

(* Batch, items and rejections are committed together, or the unique index *)
(* refuses them because another tick has built a batch.                    *)
Create(c) ==
    /\ c.pc = "create"
    /\ Len(batches) < MaxBatches
    /\ IF ActiveBatches = {}
       THEN /\ batches' = Append(batches, NewBatch(c.chosen))
            /\ apps' = [a \in Apps |-> IF a \in c.rejected THEN "scored" ELSE apps[a]]
            /\ Forget(c, "submit", Len(batches) + 1)
       ELSE UNCHANGED <<batches, apps>> /\ Forget(c, "raise", 0)
    /\ UNCHANGED <<errors, missed, wqVars>>

(* provider.submit: the provider starts the job; its id reaches the        *)
(* database in a later transaction, or never.                              *)
ProviderAccepts(c) ==
    /\ c.pc = "submit"
    /\ batches' = [batches EXCEPT ![c.batch].job = "running"]
    /\ Moves(c, "accepted", c.batch)
    /\ UNCHANGED <<apps, errors, missed, wqVars>>

RecordSubmitPolled(c) ==
    /\ c.pc = "accepted"
    /\ batches' = [batches EXCEPT ![c.batch].status = "polled", ![c.batch].poll = TRUE]
    /\ Moves(c, "requeue", 0)
    /\ UNCHANGED <<apps, errors, missed, wqVars>>

RecordSubmit(c) ==
    /\ c.pc = "accepted"
    /\ IF Conflict(c.batch)
       THEN UNCHANGED batches /\ Moves(c, "raise", 0)
       ELSE /\ batches' = [batches EXCEPT ![c.batch].status = "submitted",
                                          ![c.batch].poll = TRUE]
            /\ Moves(c, "requeue", 0)
    /\ UNCHANGED <<apps, errors, missed, wqVars>>

(* The call raises, before or after the provider started the job.          *)
SubmitFails(c) ==
    /\ c.pc \in {"submit", "accepted"}
    /\ ProviderError
    /\ batches' = Failed(c.batch)
    /\ Moves(c, "raise", 0)
    /\ UNCHANGED <<apps, missed, wqVars>>

------------------------------------------------------------------------------
(* BatchMatchHandler.__call__ ends; the hook only logs.                    *)

Return(t) ==
    /\ \E c \in TickOf(t) :
          \/ c.pc = "requeue" /\ HandlerCommits(t, BatchKey)
          \/ c.pc = "idle" /\ HandlerCommits(t, NoKey)
    /\ ticks' = Ongoing
    /\ UNCHANGED <<apps, batches, errors, missed>>

(* The exception of a failed submit or of the unique index, an error of the*)
(* database in any transaction of the tick, or a job that does not fit     *)
(* into one request (pack_provider_requests).                              *)
Raise(t) ==
    /\ HandlerRaises(t)
    /\ ticks' = Ongoing
    /\ UNCHANGED <<apps, batches, errors, missed>>

------------------------------------------------------------------------------
(* The fetch job: it creates the application, or finds it unscored, and    *)
(* asks for a tick.  A running tick swallows the request.                  *)
Fetch(a) ==
    /\ apps[a] # "scored"
    /\ apps' = [apps EXCEPT ![a] = "unscored"]
    /\ Enqueue(BatchKey, "upsert_reset_not_before")
    /\ missed' = (missed \/ \E i \in DOMAIN queue :
                               queue[i].key = BatchKey /\ queue[i].status = "in_progress")
    /\ UNCHANGED <<batches, ticks, errors>>

(* The match job of the application scores it, or the user decides on it.  *)
LeavePool(a) ==
    /\ apps[a] = "unscored"
    /\ apps' = [apps EXCEPT ![a] = "scored"]
    /\ UNCHANGED <<batches, ticks, errors, missed, wqVars>>

(* enqueue_due_batch_polls when the poll is due, by the cron and by        *)
(* GET /api/sync/status.                                                   *)
EnqueueDuePoll(b) ==
    /\ batches[b].status \in Active
    /\ batches[b].poll
    /\ Enqueue(BatchKey, "do_nothing")
    /\ UNCHANGED batchVars

Aside == ticks' = Ongoing /\ UNCHANGED <<apps, batches, errors, missed>>

QueueStep ==
    /\ \/ \E w \in Workers, lane \in Lanes : Claim(w, lane)
       \/ \E t \in tasks : Finalize(t) \/ DatabaseError(t)
       \/ \E i \in DOMAIN queue : NotBeforePasses(i) \/ LeaseExpires(i)
       \/ \E w \in Workers : Start(w) \/ Shutdown(w) \/ Exit(w) \/ Crash(w)
    /\ Aside

BatchInit ==
    /\ Init
    /\ apps = [a \in Apps |-> "absent"]
    /\ batches = <<>>
    /\ ticks = {}
    /\ errors = 0
    /\ missed = FALSE

TickStep(c) ==
    \/ FailStale(c)
    \/ PollNotReady(c) \/ PollReady(c) \/ PollFailed(c) \/ PollRaises(c)
    \/ FetchFails(c)
    \/ \E good, bad \in SUBSET Apps : Import(c, good, bad)
    \/ SelectNothing(c) \/ SelectAndReject(c) \/ Select(c) \/ Create(c)
    \/ ProviderAccepts(c) \/ RecordSubmit(c) \/ SubmitFails(c)

BatchNext ==
    \/ \E t \in tasks : Begin(t) \/ Return(t) \/ Raise(t)
    \/ \E c \in ticks : TickStep(c)
    \/ \E a \in Apps : Fetch(a) \/ LeavePool(a)
    \/ \E b \in DOMAIN batches : EnqueueDuePoll(b)
    \/ QueueStep

BatchSpec == BatchInit /\ [][BatchNext]_bmVars

------------------------------------------------------------------------------
(* Properties                                                              *)

Undisturbed == disturbed = {}
NoLiveRow == ~ \E i \in DOMAIN queue : queue[i].key = BatchKey /\ queue[i].status \in Live
GaveUp == \E i \in DOMAIN queue : queue[i].key = BatchKey /\ queue[i].status = "failed"
Holds(b, a) == batches[b].items[a] # "none"

(* No application is scored by two provider jobs at once, which is paid    *)
(* twice, unless a provider call failed, a row failed for good or was      *)
(* disturbed.                                                              *)
PaidTwice ==
    \E b1, b2 \in DOMAIN batches, a \in Apps :
        /\ b1 # b2 /\ Holds(b1, a) /\ Holds(b2, a)
        /\ batches[b1].job = "running" /\ batches[b2].job = "running"
PaidOnce == PaidTwice => errors # 0 \/ GaveUp \/ ~Undisturbed

(* There is one active batch at most, and an item waits for its result     *)
(* only in an active batch: no finished batch keeps an application out of  *)
(* the next one.  Conversely, without a disturbance every item of an       *)
(* active batch waits, so that its answers find their items.               *)
ItemsFollowBatch ==
    /\ \A b1, b2 \in ActiveBatches : b1 = b2
    /\ \A b \in DOMAIN batches : Submitted(b) # {} => b \in ActiveBatches
    /\ \A b \in ActiveBatches, a \in Apps :
          Holds(b, a) /\ a \notin Submitted(b) => ~Undisturbed

(* An active batch that the reconciler does not see, because no poll is    *)
(* scheduled, has a live row to carry it on, unless a row failed for good  *)
(* or was disturbed.                                                       *)
BatchIsCarried ==
    \A b \in ActiveBatches :
        ~batches[b].poll /\ NoLiveRow => GaveUp \/ ~Undisturbed

(* While an application waits to be selected a tick is queued or running,  *)
(* or a batch is active.  The exceptions are those of the code: a row that *)
(* failed for good or was disturbed, a fetch that met a running tick, and  *)
(* a tick whose whole selection was rejected.                              *)
BacklogIsCarried ==
    Candidates # {} /\ NoLiveRow /\ ActiveBatches = {} => GaveUp \/ missed \/ ~Undisturbed

(* A done or failed batch is not reopened, unless a row was disturbed: the *)
(* stale copy a tick holds across its provider calls is harmless as long   *)
(* as ticks do not overlap.                                                *)
FinishedStays ==
    [][\A b \in DOMAIN batches :
          batches[b].status \notin Active /\ batches'[b].status # batches[b].status
             => ~Undisturbed]_bmVars

(* batch_match_reconcile.py: next_poll_at is "the durable scheduling       *)
(* contract for external provider batches", work-queue rows "may be        *)
(* lost/pruned/deduped" and the reconciler "repairs those rows from batch  *)
(* state".  So a batch at the provider that lost its row has a next poll.  *)
LostRowsAreRepaired ==
    \A b \in ActiveBatches :
        batches[b].status \in {"submitted", "importing"} /\ NoLiveRow => batches[b].poll
==============================================================================
