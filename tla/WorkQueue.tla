------------------------------ MODULE WorkQueue ------------------------------
(***************************************************************************)
(* The Postgres work queue (app/worker/queue_service.py) and the worker    *)
(* processes that drain it (app/worker/main.py).  Every action is one      *)
(* database transaction or one step of a worker between two transactions.  *)
(*                                                                         *)
(* Time is abstracted to the two comparisons the code makes with now(): a  *)
(* row is due (not_before has passed) and a lease has expired (claimed_at  *)
(* is older than the visibility timeout).  Both become true by a step of   *)
(* their own, at any moment.                                               *)
(***************************************************************************)
EXTENDS Naturals, Sequences, FiniteSets

CONSTANTS
    Workers,        \* worker processes, each with its own _worker_id
    NoWorker,       \* claimed_by IS NULL
    Keys,           \* dedupe keys
    NoKey,          \* no follow-up job
    Types,          \* job types
    TypeOf,         \* [Keys -> Types]: every caller derives the key from the type
    Handled,        \* job types registered in HANDLERS
    Lanes,          \* lanes of a worker process
    LaneOf,         \* [Types -> Lanes]: lane.job_types
    Concurrency,    \* [Lanes -> Nat]: lane.concurrency
    Priority,       \* [Types -> Nat]: the CASE of claim_one's ORDER BY
    Hung,           \* lanes whose handlers may hang for ever
    MaxAttempts,    \* handler.max_attempts
    MaxRows,        \* bound: rows ever inserted
    MaxClaims,      \* bound: claims of one row
    MaxFaults       \* bound: crashes, shutdowns, database errors, overrun leases

ASSUME WorkersAssumption == NoWorker \notin Workers
ASSUME KeysAssumption == NoKey \notin Keys
ASSUME TypesAssumption ==
    /\ TypeOf \in [Keys -> Types]
    /\ Handled \subseteq Types
    /\ Hung \subseteq Lanes
    /\ LaneOf \in [Types -> Lanes]
    /\ Concurrency \in [Lanes -> Nat]
    /\ Priority \in [Types -> Nat]
ASSUME BoundsAssumption == {MaxAttempts, MaxRows, MaxClaims, MaxFaults} \subseteq Nat

VARIABLES
    queue,      \* the work_queue table, a sequence: a row's position is its id
    tasks,      \* the asyncio tasks of all workers that run _handle_one
    workers,    \* state of each worker process
    applied,    \* [row, attempt] of every handler transaction that committed
    disturbed,  \* rows whose lease expired or whose finalizer met a database error
    faults      \* faults so far

wqVars == <<queue, tasks, workers, applied, disturbed, faults>>

------------------------------------------------------------------------------
(* The work_queue row and the local state of _handle_one.                  *)

Status == {"pending", "in_progress", "done", "failed"}
Live == {"pending", "in_progress"}

Row == [key: Keys, status: Status, by: Workers \union {NoWorker},
        due: BOOLEAN, expired: BOOLEAN, attempts: Nat]

(* Where _handle_one stands: "run" in the handler, "finish" before the     *)
(* mark_done transaction, "retry" before the release of a transient error  *)
(* or an unknown type, "hook" before on_terminal_failure, "fail" between   *)
(* the hook and mark_failed, "giveback" before the release that follows a  *)
(* failed finalizer.                                                       *)
TaskPc == {"run", "finish", "retry", "hook", "fail", "giveback"}

Task == [row: Nat, attempt: Nat, by: Workers, pc: TaskPc, follow: Keys \union {NoKey}]

WorkerState == {"down", "up", "draining"}

TypeOK ==
    /\ queue \in Seq(Row)
    /\ tasks \subseteq Task
    /\ workers \in [Workers -> WorkerState]
    /\ applied \subseteq [row: Nat, attempt: Nat]
    /\ disturbed \subseteq Nat
    /\ faults \in Nat

RowType(i) == TypeOf[queue[i].key]
Owns(t) == queue[t.row].status = "in_progress" /\ queue[t.row].by = t.by

(* Bound: rows inserted or promised to a follow-up stay below MaxRows.     *)
Room == Len(queue) + Cardinality({t \in tasks : t.follow # NoKey}) < MaxRows

------------------------------------------------------------------------------
(* queue_service.enqueue                                                   *)

NewRow(k, due) == [key |-> k, status |-> "pending", by |-> NoWorker,
                   due |-> due, expired |-> FALSE, attempts |-> 0]

EnqueuedOverRunning(q, k, onConflict, due) ==
    IF \E i \in DOMAIN q : q[i].key = k /\ q[i].status = "pending"
    THEN q
    ELSE Append(q, NewRow(k, due))

(* The table after one INSERT ... ON CONFLICT (job_type, dedupe_key) WHERE *)
(* status IN ('pending', 'in_progress').                                   *)
Enqueued(q, k, onConflict, due) ==
    IF ~ \E i \in DOMAIN q : q[i].key = k /\ q[i].status \in Live
    THEN Append(q, NewRow(k, due))
    ELSE IF onConflict = "do_nothing"
    THEN q
    ELSE [i \in DOMAIN q |->
            IF q[i].key = k /\ q[i].status = "pending" THEN [q[i] EXCEPT !.due = due]
                                                       ELSE q[i]]

(* A caller outside the worker loop: an API request, a cron tick, another  *)
(* job's handler.  None of them passes not_before, so an upsert also ends  *)
(* the backoff of a pending row.                                           *)
Enqueue(k, onConflict) ==
    /\ Room
    /\ queue' = Enqueued(queue, k, onConflict, TRUE)
    /\ UNCHANGED <<tasks, workers, applied, disturbed, faults>>

------------------------------------------------------------------------------
(* queue_service.claim_one and _run_lane                                   *)

ClaimableIgnoringLease(w, lane) ==
    {i \in DOMAIN queue :
        /\ LaneOf[RowType(i)] = lane
        /\ queue[i].due
        /\ \/ queue[i].status = "pending"
           \/ queue[i].status = "in_progress" /\ queue[i].by # w}

ClaimableNeverStale(w, lane) ==
    {i \in DOMAIN queue :
        /\ LaneOf[RowType(i)] = lane
        /\ queue[i].due
        /\ queue[i].status = "pending"}

(* Rows whose not_before has passed: pending ones, and ones another worker *)
(* has held for longer than the visibility timeout.                        *)
Claimable(w, lane) ==
    {i \in DOMAIN queue :
        /\ LaneOf[RowType(i)] = lane
        /\ queue[i].due
        /\ \/ queue[i].status = "pending"
           \/ /\ queue[i].status = "in_progress"
              /\ queue[i].expired
              /\ queue[i].by # w}

(* ORDER BY the type's priority, then enqueued_at.                         *)
ClaimsBefore(i, j) ==
    \/ Priority[RowType(i)] < Priority[RowType(j)]
    \/ Priority[RowType(i)] = Priority[RowType(j)] /\ i <= j

InflightOfProcess(w, lane) == {t \in tasks : t.by = w}

Inflight(w, lane) == {t \in tasks : t.by = w /\ LaneOf[RowType(t.row)] = lane}

FirstPcAckingExhausted(i, attempt) ==
    IF RowType(i) \notin Handled THEN "retry"
    ELSE IF attempt > MaxAttempts THEN "finish" ELSE "run"

FirstPcOneShort(i, attempt) ==
    IF RowType(i) \notin Handled THEN "retry"
    ELSE IF attempt >= MaxAttempts THEN "hook" ELSE "run"

(* Where _handle_one goes first with a row it has just claimed.            *)
FirstPc(i, attempt) ==
    IF RowType(i) \notin Handled THEN "retry"
    ELSE IF attempt > MaxAttempts THEN "hook" ELSE "run"

ClaimRow(w, i) ==
    LET attempt == queue[i].attempts + 1
    IN  /\ attempt <= MaxClaims
        /\ queue' = [queue EXCEPT ![i].status = "in_progress", ![i].by = w,
                                  ![i].expired = FALSE, ![i].attempts = attempt]
        /\ tasks' = tasks \union {[row |-> i, attempt |-> attempt, by |-> w,
                                   pc |-> FirstPc(i, attempt), follow |-> NoKey]}
        /\ UNCHANGED <<workers, applied, disturbed, faults>>

Claim(w, lane) ==
    /\ workers[w] = "up"
    /\ Cardinality(Inflight(w, lane)) < Concurrency[lane]
    /\ \E i \in Claimable(w, lane) :
          /\ \A j \in Claimable(w, lane) : ClaimsBefore(i, j)
          /\ ClaimRow(w, i)

------------------------------------------------------------------------------
(* _handle_one: the handler and its outcomes                               *)

Goto(t, pc) == tasks' = (tasks \ {t}) \union {[t EXCEPT !.pc = pc]}
End(t) == tasks' = tasks \ {t}

CommitsThenRetries(t, follow) ==
    /\ t.pc = "run"
    /\ Goto(t, "retry")
    /\ applied' = applied \union {[row |-> t.row, attempt |-> t.attempt]}
    /\ UNCHANGED <<queue, workers, disturbed, faults>>

(* The handler returns, perhaps with EnqueueAfterDone, and its session is  *)
(* committed; mark_done is a transaction of its own, later.                *)
HandlerCommits(t, follow) ==
    /\ t.pc = "run"
    /\ follow # NoKey => Room
    /\ tasks' = (tasks \ {t}) \union {[t EXCEPT !.pc = "finish", !.follow = follow]}
    /\ applied' = applied \union {[row |-> t.row, attempt |-> t.attempt]}
    /\ UNCHANGED <<queue, workers, disturbed, faults>>

HandlerRaisesTransient(t) ==
    /\ t.pc = "run"
    /\ Goto(t, "retry")
    /\ UNCHANGED <<queue, workers, applied, disturbed, faults>>

HandlerRaises(t) ==
    /\ t.pc = "run"
    /\ Goto(t, "hook")
    /\ UNCHANGED <<queue, workers, applied, disturbed, faults>>

(* _terminal_failure runs the handler's hook first, in its own session.    *)
HookReturns(t) ==
    /\ t.pc = "hook"
    /\ Goto(t, "fail")
    /\ UNCHANGED <<queue, workers, applied, disturbed, faults>>

------------------------------------------------------------------------------
(* The finalizers: UPDATE ... WHERE id, claimed_by = worker_id and status  *)
(* = 'in_progress'.  No row matched is StaleLease.                         *)

ReleasedAsQueued(i) == [queue EXCEPT ![i].status = "queued", ![i].by = NoWorker]

Released(i) == [queue EXCEPT ![i].status = "pending", ![i].by = NoWorker,
                             ![i].due = FALSE, ![i].expired = FALSE]
Finished(i, status) == [queue EXCEPT ![i].status = status, ![i].by = NoWorker]

(* mark_done and the follow-up's enqueue commit together.                  *)
MarkDone(t) ==
    /\ t.pc = "finish"
    /\ IF Owns(t)
       THEN /\ \/ /\ t.follow = NoKey
                  /\ queue' = Finished(t.row, "done")
               \/ /\ t.follow # NoKey
                  /\ \E due \in BOOLEAN :
                        queue' = Enqueued(Finished(t.row, "done"), t.follow,
                                          "upsert_reset_not_before", due)
            /\ End(t)
       ELSE Goto(t, "giveback") /\ UNCHANGED queue
    /\ UNCHANGED <<workers, applied, disturbed, faults>>

MarkFailed(t) ==
    /\ t.pc = "fail"
    /\ IF Owns(t)
       THEN queue' = Finished(t.row, "failed") /\ End(t)
       ELSE Goto(t, "giveback") /\ UNCHANGED queue
    /\ UNCHANGED <<workers, applied, disturbed, faults>>

ReleaseAnyLease(t) ==
    /\ t.pc \in {"retry", "giveback"}
    /\ queue' = Released(t.row)
    /\ End(t)
    /\ UNCHANGED <<workers, applied, disturbed, faults>>

(* release_with_backoff; StaleLease ends the task, whoever catches it.     *)
Release(t) ==
    /\ t.pc \in {"retry", "giveback"}
    /\ queue' = IF Owns(t) THEN Released(t.row) ELSE queue
    /\ End(t)
    /\ UNCHANGED <<workers, applied, disturbed, faults>>

(* A database error in the hook or in a finalizer: the transaction rolls   *)
(* back.  After a hook, mark_done or mark_failed the task still tries to   *)
(* give the row back; an error in that release leaves it in_progress.      *)
DatabaseError(t) ==
    /\ faults < MaxFaults
    /\ \/ t.pc \in {"hook", "finish", "fail"} /\ Goto(t, "giveback")
       \/ t.pc \in {"retry", "giveback"} /\ End(t)
    /\ disturbed' = disturbed \union {t.row}
    /\ faults' = faults + 1
    /\ UNCHANGED <<queue, workers, applied>>

------------------------------------------------------------------------------
(* Time                                                                    *)

NotBeforePasses(i) ==
    /\ queue[i].status = "pending"
    /\ ~queue[i].due
    /\ queue' = [queue EXCEPT ![i].due = TRUE]
    /\ UNCHANGED <<tasks, workers, applied, disturbed, faults>>

(* The visibility timeout passes.  If the claimer is still at work on the  *)
(* row its lease is overrun, which counts as a fault.                      *)
Attended(i) == \E t \in tasks : t.row = i /\ t.attempt = queue[i].attempts

LeaseExpires(i) ==
    /\ queue[i].status = "in_progress"
    /\ ~queue[i].expired
    /\ IF Attended(i) THEN faults < MaxFaults /\ faults' = faults + 1
                      ELSE UNCHANGED faults
    /\ queue' = [queue EXCEPT ![i].expired = TRUE]
    /\ disturbed' = disturbed \union {i}
    /\ UNCHANGED <<tasks, workers, applied>>

------------------------------------------------------------------------------
(* Worker processes                                                        *)

(* A process starts with a fresh uuid: an id no row mentions.              *)
Start(w) ==
    /\ workers[w] = "down"
    /\ \A i \in DOMAIN queue : queue[i].by # w
    /\ workers' = [workers EXCEPT ![w] = "up"]
    /\ UNCHANGED <<queue, tasks, applied, disturbed, faults>>

(* SIGTERM: the lanes stop claiming and wait for their tasks.              *)
Shutdown(w) ==
    /\ faults < MaxFaults
    /\ workers[w] = "up"
    /\ workers' = [workers EXCEPT ![w] = "draining"]
    /\ faults' = faults + 1
    /\ UNCHANGED <<queue, tasks, applied, disturbed>>

(* The tasks are done, or the drain budget is spent and they are cancelled.*)
Exit(w) ==
    /\ workers[w] = "draining"
    /\ workers' = [workers EXCEPT ![w] = "down"]
    /\ tasks' = {t \in tasks : t.by # w}
    /\ UNCHANGED <<queue, applied, disturbed, faults>>

Crash(w) ==
    /\ faults < MaxFaults
    /\ workers[w] # "down"
    /\ workers' = [workers EXCEPT ![w] = "down"]
    /\ tasks' = {t \in tasks : t.by # w}
    /\ faults' = faults + 1
    /\ UNCHANGED <<queue, applied, disturbed>>

------------------------------------------------------------------------------
Init ==
    /\ queue = <<>>
    /\ tasks = {}
    /\ workers = [w \in Workers |-> "down"]
    /\ applied = {}
    /\ disturbed = {}
    /\ faults = 0

(* The handler of a job, and the rest of _handle_one after it.             *)
Handler(t) ==
    \/ \E follow \in Keys \union {NoKey} : HandlerCommits(t, follow)
    \/ HandlerRaisesTransient(t)
    \/ HandlerRaises(t)
Finalize(t) == HookReturns(t) \/ MarkDone(t) \/ MarkFailed(t) \/ Release(t)

Next ==
    \/ \E k \in Keys, onConflict \in {"do_nothing", "upsert_reset_not_before"} :
          Enqueue(k, onConflict)
    \/ \E w \in Workers, lane \in Lanes : Claim(w, lane)
    \/ \E t \in tasks : Handler(t) \/ Finalize(t) \/ DatabaseError(t)
    \/ \E i \in DOMAIN queue : NotBeforePasses(i) \/ LeaseExpires(i)
    \/ \E w \in Workers : Start(w) \/ Shutdown(w) \/ Exit(w) \/ Crash(w)

Spec == Init /\ [][Next]_wqVars

(* What the scheduling of the code guarantees: a worker that is up polls,  *)
(* its event loop runs every task (a handler of a Hung lane may wait for   *)
(* ever), clocks advance, a process that is down is started again by its   *)
(* supervisor, and a drain ends with its budget.  Callers, crashes,        *)
(* database errors and overruns are not guaranteed.                        *)
Claims == \A w \in Workers, lane \in Lanes : WF_wqVars(Claim(w, lane))
Clocks ==
    \A i \in 1..MaxRows :
        /\ WF_wqVars(i \in DOMAIN queue /\ NotBeforePasses(i))
        /\ WF_wqVars(i \in DOMAIN queue /\ ~Attended(i) /\ LeaseExpires(i))
Supervision == \A w \in Workers : WF_wqVars(Start(w)) /\ WF_wqVars(Exit(w))
TasksOf(i) == {t \in tasks : t.row = i}
Finalizers == \A i \in 1..MaxRows : WF_wqVars(\E t \in TasksOf(i) : Finalize(t))
Responsive(i) == LaneOf[RowType(i)] \notin Hung
Handlers ==
    \A i \in 1..MaxRows : WF_wqVars(\E t \in TasksOf(i) : Responsive(i) /\ Handler(t))

FairSpec == Spec /\ Claims /\ Clocks /\ Supervision /\ Finalizers /\ Handlers

------------------------------------------------------------------------------
(* Properties                                                              *)

(* The partial unique index and the two ON CONFLICT arms of enqueue keep   *)
(* at most one pending or running row per dedupe key, also when a finished *)
(* job re-enqueues itself while callers enqueue the same key.              *)
OneLivePerKey ==
    \A i, j \in DOMAIN queue :
        /\ queue[i].key = queue[j].key
        /\ queue[i].status \in Live
        /\ queue[j].status \in Live
        => i = j

(* Two executions of one job overlap only if its lease ran out or a        *)
(* finalizer failed: claim_one hands a row to one worker at a time.        *)
SoleRunnerUnlessDisturbed ==
    \A t1, t2 \in tasks : t1.row = t2.row /\ t1 # t2 => t1.row \in disturbed

(* The handler's effects are committed before mark_done in a transaction   *)
(* of their own, so a crash between the two replays them.  Without such a  *)
(* disturbance they are committed exactly once.                            *)
OnceUnlessDisturbed ==
    \A a, b \in applied : a.row = b.row /\ a # b => a.row \in disturbed

(* A row is done only after an execution of its handler committed, and an  *)
(* undisturbed row that failed has committed nothing: neither the attempt  *)
(* cap nor a stale finalizer misreports a job.                             *)
OutcomeMatchesEffect ==
    \A i \in DOMAIN queue :
        LET committed == \E a \in applied : a.row = i
        IN  /\ queue[i].status = "done" => committed
            /\ queue[i].status = "failed" /\ i \notin disturbed => ~committed

(* The queue implements JobLease: leases are exclusive, only their holder  *)
(* settles or returns a row, a settled row never comes back.               *)
LeaseOf(row) ==
    [phase |-> CASE row.status = "pending" -> "waiting"
                 [] row.status = "in_progress" -> "held"
                 [] OTHER -> "settled",
     holder |-> row.by]
Lease == INSTANCE JobLease WITH
    jobs <- [i \in DOMAIN queue |-> LeaseOf(queue[i])],
    working <- {<<t.row, t.by>> : t \in tasks}
ImplementsLease == Lease!LeaseSpec

(* Every row of a registered type ends done or failed, through any bounded *)
(* number of crashes, database errors, overruns and transient errors, even *)
(* while the handlers of another lane hang.                                *)
IsSettled(i) == i \in DOMAIN queue /\ queue[i].status \notin Live
EveryJobSettles ==
    \A i \in 1..MaxRows :
        (i \in DOMAIN queue /\ RowType(i) \in Handled /\ Responsive(i)) ~> IsSettled(i)
==============================================================================
