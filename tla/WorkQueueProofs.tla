--------------------------- MODULE WorkQueueProofs ---------------------------
(***************************************************************************)
(* The types of WorkQueue and one live row per key, for every set of       *)
(* workers, keys, types and lanes and for every value of the bounds.       *)
(***************************************************************************)
EXTENDS WorkQueue, SequenceTheorems, TLAPS

------------------------------------------------------------------------------
(* What the operators that write the table return.                         *)

(* Overwriting one element of a sequence, as every UPDATE by id does.      *)
LEMMA UpdateOne ==
  ASSUME NEW S, NEW q \in Seq(S), NEW i \in DOMAIN q, NEW v \in S
  PROVE  /\ [q EXCEPT ![i] = v] \in Seq(S)
         /\ DOMAIN [q EXCEPT ![i] = v] = DOMAIN q
         /\ \A j \in DOMAIN q : [q EXCEPT ![i] = v][j] = IF j = i THEN v ELSE q[j]
<1>1. DOMAIN q = 1..Len(q)
  BY LenProperties
<1>2. QED
  BY <1>1, ExceptSeq

(* Appending a row, as every INSERT does.                                  *)
LEMMA AppendOne ==
  ASSUME NEW S, NEW q \in Seq(S), NEW v \in S
  PROVE  /\ Append(q, v) \in Seq(S)
         /\ DOMAIN q = 1..Len(q)
         /\ DOMAIN Append(q, v) = DOMAIN q \union {Len(q) + 1}
         /\ Len(q) \in Nat
         /\ Len(q) + 1 \notin DOMAIN q
         /\ Append(q, v)[Len(q) + 1] = v
         /\ \A j \in DOMAIN q : Append(q, v)[j] = q[j]
<1>1. /\ Append(q, v) \in Seq(S)
      /\ Len(Append(q, v)) = Len(q) + 1
      /\ \A j \in 1..Len(q) + 1 :
            Append(q, v)[j] = IF j <= Len(q) THEN q[j] ELSE v
  BY AppendProperties
<1>2. DOMAIN q = 1..Len(q) /\ Len(q) \in Nat
  BY LenProperties
<1>3. DOMAIN Append(q, v) = 1..Len(q) + 1
  BY <1>1, LenProperties
<1>4. QED
  BY <1>1, <1>2, <1>3

(* enqueue leaves the rows it does not insert in place, except that an     *)
(* upsert may change when a pending row is due.                            *)
LEMMA EnqueuedEffect ==
  ASSUME NEW q \in Seq(Row), NEW k \in Keys, NEW onConflict, NEW due \in BOOLEAN
  PROVE  LET r == Enqueued(q, k, onConflict, due)
         IN  /\ r \in Seq(Row)
             /\ \/ /\ DOMAIN r = DOMAIN q
                   /\ \A j \in DOMAIN q :
                         \/ r[j] = q[j]
                         \/ q[j].status = "pending" /\ r[j] = [q[j] EXCEPT !.due = due]
                \/ /\ r = Append(q, NewRow(k, due))
                   /\ \A j \in DOMAIN q : q[j].key = k => q[j].status \notin Live
<1> DEFINE touched(j) == IF q[j].key = k /\ q[j].status = "pending"
                         THEN [q[j] EXCEPT !.due = due] ELSE q[j]
           up == [j \in DOMAIN q |-> touched(j)]
<1>1. DOMAIN q = 1..Len(q) /\ Len(q) \in Nat
  BY LenProperties
<1>2. \A j \in DOMAIN q : q[j] \in Row
  BY <1>1, ElementOfSeq
<1>3. \A j \in DOMAIN q : touched(j) \in Row
  BY <1>2 DEF Row
<1>4. up \in Seq(Row) /\ DOMAIN up = DOMAIN q
  BY <1>1, <1>3
<1>5. NewRow(k, due) \in Row
  BY DEF NewRow, Row, Status
<1>6. Append(q, NewRow(k, due)) \in Seq(Row)
  BY <1>5, AppendProperties
<1>7. CASE ~ \E i \in DOMAIN q : q[i].key = k /\ q[i].status \in Live
  BY <1>6, <1>7 DEF Enqueued
<1>8. CASE \E i \in DOMAIN q : q[i].key = k /\ q[i].status \in Live
  <2>1. CASE onConflict = "do_nothing"
    BY <1>8, <2>1 DEF Enqueued
  <2>2. CASE onConflict # "do_nothing"
    BY <1>4, <1>8, <2>2 DEF Enqueued
  <2>3. QED
    BY <2>1, <2>2
<1>9. QED
  BY <1>7, <1>8

(* The three single-row UPDATEs, row by row.                               *)
LEMMA FinishedEffect ==
  ASSUME queue \in Seq(Row), NEW i \in DOMAIN queue, NEW status \in Status
  PROVE  /\ Finished(i, status) \in Seq(Row)
         /\ DOMAIN Finished(i, status) = DOMAIN queue
         /\ \A j \in DOMAIN queue : Finished(i, status)[j] =
               IF j = i THEN [queue[i] EXCEPT !.status = status, !.by = NoWorker]
                        ELSE queue[j]
<1> DEFINE row == [queue[i] EXCEPT !.status = status, !.by = NoWorker]
<1>1. queue[i] \in Row
  BY LenProperties, ElementOfSeq
<1>2. row \in Row
  BY <1>1 DEF Row
<1>3. Finished(i, status) = [queue EXCEPT ![i] = row]
  BY <1>1 DEF Finished, Row
<1>4. QED
  BY <1>2, <1>3, UpdateOne

LEMMA ReleasedEffect ==
  ASSUME queue \in Seq(Row), NEW i \in DOMAIN queue
  PROVE  /\ Released(i) \in Seq(Row)
         /\ DOMAIN Released(i) = DOMAIN queue
         /\ \A j \in DOMAIN queue : Released(i)[j] =
               IF j = i THEN [queue[i] EXCEPT !.status = "pending", !.by = NoWorker,
                                              !.due = FALSE, !.expired = FALSE]
                        ELSE queue[j]
<1> DEFINE row == [queue[i] EXCEPT !.status = "pending", !.by = NoWorker,
                                   !.due = FALSE, !.expired = FALSE]
<1>1. queue[i] \in Row
  BY LenProperties, ElementOfSeq
<1>2. row \in Row
  BY <1>1 DEF Row, Status
<1>3. Released(i) = [queue EXCEPT ![i] = row]
  BY <1>1 DEF Released, Row
<1>4. QED
  BY <1>2, <1>3, UpdateOne

ClaimedRow(w, i) ==
  [queue[i] EXCEPT !.status = "in_progress", !.by = w, !.expired = FALSE,
                   !.attempts = queue[i].attempts + 1]

ClaimTask(w, i) ==
  [row |-> i, attempt |-> queue[i].attempts + 1, by |-> w,
   pc |-> FirstPc(i, queue[i].attempts + 1), follow |-> NoKey]

LEMMA ClaimEffect ==
  ASSUME queue \in Seq(Row), NEW w \in Workers, NEW i \in DOMAIN queue, ClaimRow(w, i)
  PROVE  /\ queue' \in Seq(Row)
         /\ DOMAIN queue' = DOMAIN queue
         /\ \A j \in DOMAIN queue :
               queue'[j] = IF j = i THEN ClaimedRow(w, i) ELSE queue[j]
         /\ tasks' = tasks \union {ClaimTask(w, i)}
         /\ ClaimTask(w, i) \in Task
<1>1. queue[i] \in Row /\ i \in Nat
  BY LenProperties, ElementOfSeq
<1>2. ClaimedRow(w, i) \in Row
  <2>1. ASSUME NEW r \in Row, NEW n \in Nat
        PROVE  [r EXCEPT !.status = "in_progress", !.by = w, !.expired = FALSE,
                         !.attempts = n] \in Row
    BY DEF Row, Status
  <2>2. queue[i].attempts + 1 \in Nat
    BY <1>1 DEF Row
  <2>3. QED
    BY <1>1, <2>1, <2>2 DEF ClaimedRow
<1>3. queue' = [queue EXCEPT ![i] = ClaimedRow(w, i)]
  BY <1>1 DEF ClaimRow, Row, ClaimedRow
<1>4. ClaimTask(w, i) \in Task
  BY <1>1 DEF ClaimTask, Task, TaskPc, Row, FirstPc
<1>5. tasks' = tasks \union {ClaimTask(w, i)}
  BY DEF ClaimRow, ClaimTask
<1>6. QED
  BY <1>2, <1>3, <1>4, <1>5, UpdateOne

------------------------------------------------------------------------------
(* Type correctness, with the two facts it rests on: a task refers to a    *)
(* row and to a claim of it, and a row has a claimer exactly while it is   *)
(* in progress.                                                            *)

TasksRefer ==
  \A t \in tasks : t.row \in DOMAIN queue /\ t.attempt <= queue[t.row].attempts

LeaseConsistent ==
  \A i \in DOMAIN queue : queue[i].by \in Workers <=> queue[i].status = "in_progress"

Base == TypeOK /\ TasksRefer /\ LeaseConsistent

LEMMA RowsTyped ==
  ASSUME queue \in Seq(Row)
  PROVE  /\ DOMAIN queue = 1..Len(queue)
         /\ DOMAIN queue \subseteq Nat
         /\ \A i \in DOMAIN queue : queue[i] \in Row
BY LenProperties, ElementOfSeq

(* A task that moves to another control point, or ends, keeps Base when    *)
(* the table does not change.                                              *)
LEMMA MoveKeepsBase ==
  ASSUME Base, NEW t \in tasks, NEW pc \in TaskPc, NEW f \in Keys \union {NoKey},
         tasks' \subseteq tasks \union {[t EXCEPT !.pc = pc, !.follow = f]},
         UNCHANGED queue, workers' \in [Workers -> WorkerState],
         applied' \subseteq [row: Nat, attempt: Nat], disturbed' \subseteq Nat, faults' \in Nat
  PROVE  Base'
<1> DEFINE u == [t EXCEPT !.pc = pc, !.follow = f]
<1>1. t \in Task
  BY DEF Base, TypeOK
<1>2. u \in Task /\ u.row = t.row /\ u.attempt = t.attempt
  BY <1>1 DEF Task
<1>3. TypeOK'
  BY <1>2 DEF Base, TypeOK
<1>4. TasksRefer'
  BY <1>2 DEF Base, TasksRefer
<1>5. LeaseConsistent'
  BY DEF Base, LeaseConsistent
<1>6. QED
  BY <1>3, <1>4, <1>5 DEF Base

(* So does a step that only rewrites rows in place, keeping their keys and *)
(* attempts, while tasks end.                                              *)
LEMMA RewriteKeepsBase ==
  ASSUME Base, queue' \in Seq(Row), DOMAIN queue \subseteq DOMAIN queue',
         \A i \in DOMAIN queue : queue'[i].attempts = queue[i].attempts,
         LeaseConsistent', tasks' \subseteq tasks,
         workers' \in [Workers -> WorkerState],
         UNCHANGED applied, disturbed' \subseteq Nat, faults' \in Nat
  PROVE  Base'
<1>1. TypeOK'
  BY DEF Base, TypeOK
<1>2. TasksRefer'
  BY DEF Base, TasksRefer
<1>3. QED
  BY <1>1, <1>2 DEF Base

LEMMA EnqueueKeepsLeases ==
  ASSUME NEW q \in Seq(Row), NEW k \in Keys, NEW onConflict, NEW due \in BOOLEAN,
         NEW r, r = Enqueued(q, k, onConflict, due),
         \A i \in DOMAIN q : q[i].by \in Workers <=> q[i].status = "in_progress"
  PROVE  /\ r \in Seq(Row)
         /\ DOMAIN q \subseteq DOMAIN r
         /\ \A i \in DOMAIN q : /\ r[i].attempts = q[i].attempts
                                /\ r[i].status = q[i].status
                                /\ r[i].by = q[i].by
                                /\ r[i].key = q[i].key
                                /\ r[i].expired = q[i].expired
                                /\ q[i].status # "pending" => r[i] = q[i]
         /\ \A i \in DOMAIN r : r[i].by \in Workers <=> r[i].status = "in_progress"
         /\ \A i \in DOMAIN r : i \notin DOMAIN q => r[i].status = "pending"
<1>1. \A i \in DOMAIN q : q[i] \in Row
  BY LenProperties, ElementOfSeq
<1>2. CASE /\ DOMAIN r = DOMAIN q
           /\ \A j \in DOMAIN q :
                 \/ r[j] = q[j]
                 \/ q[j].status = "pending" /\ r[j] = [q[j] EXCEPT !.due = due]
  <2>1. \A i \in DOMAIN q : /\ r[i].attempts = q[i].attempts
                            /\ r[i].status = q[i].status
                            /\ r[i].by = q[i].by
                            /\ r[i].key = q[i].key
                            /\ r[i].expired = q[i].expired
                            /\ q[i].status # "pending" => r[i] = q[i]
    BY <1>1, <1>2 DEF Row
  <2>2. QED
    BY <2>1, <1>2, EnqueuedEffect
<1>3. CASE r = Append(q, NewRow(k, due))
  <2>1. NewRow(k, due) \in Row
    BY DEF NewRow, Row, Status
  <2>2. /\ r \in Seq(Row)
        /\ DOMAIN r = DOMAIN q \union {Len(q) + 1}
        /\ r[Len(q) + 1] = NewRow(k, due)
        /\ \A j \in DOMAIN q : r[j] = q[j]
    BY <1>3, <2>1, AppendOne
  <2>3. NewRow(k, due).by \notin Workers /\ NewRow(k, due).status = "pending"
    BY WorkersAssumption DEF NewRow
  <2>4. QED
    BY <2>2, <2>3
<1>4. QED
  BY <1>2, <1>3, EnqueuedEffect

LEMMA BaseInit == Init => Base
BY EmptySeq DEF Init, Base, TypeOK, TasksRefer, LeaseConsistent, WorkerState

LEMMA EnqueueBase ==
  ASSUME Base, NEW k \in Keys, NEW onConflict, Enqueue(k, onConflict)
  PROVE  Base'
<1>1. /\ queue \in Seq(Row)
      /\ \A i \in DOMAIN queue : queue[i].by \in Workers <=> queue[i].status = "in_progress"
  BY DEF Base, TypeOK, LeaseConsistent
<1>2. PICK due \in BOOLEAN : queue' = Enqueued(queue, k, onConflict, due)
  BY Zenon DEF Enqueue
<1>3. /\ queue' \in Seq(Row)
      /\ DOMAIN queue \subseteq DOMAIN queue'
      /\ \A i \in DOMAIN queue : queue'[i].attempts = queue[i].attempts
      /\ \A i \in DOMAIN queue' : queue'[i].by \in Workers <=> queue'[i].status = "in_progress"
  BY <1>1, <1>2, EnqueueKeepsLeases
<1>4. LeaseConsistent'
  BY <1>3 DEF LeaseConsistent
<1>5. QED
  BY <1>3, <1>4, RewriteKeepsBase DEF Enqueue, Base, TypeOK

LEMMA ClaimBase ==
  ASSUME Base, NEW w \in Workers, NEW lane \in Lanes, Claim(w, lane)
  PROVE  Base'
<1>1. PICK i \in Claimable(w, lane) : ClaimRow(w, i)
  BY DEF Claim
<1>2. i \in DOMAIN queue
  BY DEF Claimable
<1>3. queue \in Seq(Row)
  BY DEF Base, TypeOK
<1>4. /\ queue' \in Seq(Row)
      /\ DOMAIN queue' = DOMAIN queue
      /\ \A j \in DOMAIN queue :
            queue'[j] = IF j = i THEN ClaimedRow(w, i) ELSE queue[j]
      /\ tasks' = tasks \union {ClaimTask(w, i)}
      /\ ClaimTask(w, i) \in Task
  BY <1>1, <1>2, <1>3, ClaimEffect
<1>5. queue[i] \in Row /\ queue[i].attempts \in Nat
  BY <1>2, <1>3, RowsTyped DEF Row
<1>6. /\ ClaimedRow(w, i).attempts = queue[i].attempts + 1
      /\ ClaimedRow(w, i).by = w
      /\ ClaimedRow(w, i).status = "in_progress"
  BY <1>5 DEF ClaimedRow, Row
<1>7. TypeOK'
  BY <1>1, <1>4 DEF Base, TypeOK, ClaimRow
<1>8. TasksRefer'
  <2>1. ASSUME NEW t \in tasks
        PROVE  t.row \in DOMAIN queue' /\ t.attempt <= queue'[t.row].attempts
    <3>1. t.row \in DOMAIN queue /\ t.attempt <= queue[t.row].attempts /\ t.attempt \in Nat
      BY DEF Base, TypeOK, TasksRefer, Task
    <3>2. QED
      BY <3>1, <1>4, <1>5, <1>6
  <2>2. ClaimTask(w, i).row = i /\ ClaimTask(w, i).attempt = queue[i].attempts + 1
    BY DEF ClaimTask
  <2>3. QED
    BY <2>1, <2>2, <1>2, <1>4, <1>5, <1>6 DEF TasksRefer
<1>9. LeaseConsistent'
  BY <1>2, <1>4, <1>6 DEF Base, LeaseConsistent
<1>10. QED
  BY <1>7, <1>8, <1>9 DEF Base

LEMMA FinishedKeepsLeases ==
  ASSUME Base, NEW i \in DOMAIN queue, NEW status \in {"done", "failed"}
  PROVE  LET r == Finished(i, status)
         IN  /\ r \in Seq(Row)
             /\ DOMAIN r = DOMAIN queue
             /\ \A j \in DOMAIN queue : /\ r[j].attempts = queue[j].attempts
                                        /\ r[j].key = queue[j].key
                                        /\ j # i => r[j] = queue[j]
             /\ r[i].status = status
             /\ r[i].by = NoWorker
             /\ \A j \in DOMAIN r : r[j].by \in Workers <=> r[j].status = "in_progress"
<1>1. queue \in Seq(Row) /\ status \in Status
  BY DEF Base, TypeOK, Status
<1> DEFINE row == [queue[i] EXCEPT !.status = status, !.by = NoWorker]
           r == Finished(i, status)
<1>2. queue[i] \in Row
  BY <1>1, RowsTyped
<1>3. /\ row.attempts = queue[i].attempts
      /\ row.key = queue[i].key
      /\ row.status = status
      /\ row.by = NoWorker
  BY <1>2 DEF Row
<1>4. /\ r \in Seq(Row)
      /\ DOMAIN r = DOMAIN queue
      /\ \A j \in DOMAIN queue : r[j] = IF j = i THEN row ELSE queue[j]
  BY <1>1, FinishedEffect
<1> HIDE DEF row, r
<1>5. \A j \in DOMAIN r : r[j].by \in Workers <=> r[j].status = "in_progress"
  BY <1>3, <1>4, WorkersAssumption DEF Base, LeaseConsistent
<1>6. QED
  BY <1>3, <1>4, <1>5 DEF r

LEMMA ReleasedKeepsLeases ==
  ASSUME Base, NEW i \in DOMAIN queue
  PROVE  LET r == Released(i)
         IN  /\ r \in Seq(Row)
             /\ DOMAIN r = DOMAIN queue
             /\ \A j \in DOMAIN queue : /\ r[j].attempts = queue[j].attempts
                                        /\ r[j].key = queue[j].key
                                        /\ j # i => r[j] = queue[j]
             /\ r[i].status = "pending"
             /\ r[i].by = NoWorker
             /\ \A j \in DOMAIN r : r[j].by \in Workers <=> r[j].status = "in_progress"
<1>1. queue \in Seq(Row)
  BY DEF Base, TypeOK
<1> DEFINE row == [queue[i] EXCEPT !.status = "pending", !.by = NoWorker,
                                   !.due = FALSE, !.expired = FALSE]
           r == Released(i)
<1>2. queue[i] \in Row
  BY <1>1, RowsTyped
<1>3. /\ row.attempts = queue[i].attempts
      /\ row.key = queue[i].key
      /\ row.status = "pending"
      /\ row.by = NoWorker
  BY <1>2 DEF Row
<1>4. /\ r \in Seq(Row)
      /\ DOMAIN r = DOMAIN queue
      /\ \A j \in DOMAIN queue : r[j] = IF j = i THEN row ELSE queue[j]
  BY <1>1, ReleasedEffect
<1> HIDE DEF row, r
<1>5. \A j \in DOMAIN r : r[j].by \in Workers <=> r[j].status = "in_progress"
  BY <1>3, <1>4, WorkersAssumption DEF Base, LeaseConsistent
<1>6. QED
  BY <1>3, <1>4, <1>5 DEF r

LEMMA TaskTyped ==
  ASSUME Base, NEW t \in tasks
  PROVE  /\ t \in Task
         /\ t.row \in DOMAIN queue
         /\ t.row \in Nat /\ t.attempt \in Nat /\ t.by \in Workers
         /\ t.pc \in TaskPc /\ t.follow \in Keys \union {NoKey}
         /\ \A pc \in TaskPc : [t EXCEPT !.pc = pc] = [t EXCEPT !.pc = pc, !.follow = t.follow]
BY DEF Base, TypeOK, TasksRefer, Task

LEMMA HandlerBase ==
  ASSUME Base, NEW t \in tasks, Handler(t)
  PROVE  Base'
<1>1. CASE \E follow \in Keys \union {NoKey} : HandlerCommits(t, follow)
  <2>1. PICK f \in Keys \union {NoKey} : HandlerCommits(t, f)
    BY <1>1
  <2>2. applied' = applied \union {[row |-> t.row, attempt |-> t.attempt]}
    BY <2>1 DEF HandlerCommits
  <2>3. [row |-> t.row, attempt |-> t.attempt] \in [row: Nat, attempt: Nat]
    BY TaskTyped
  <2>4. applied' \subseteq [row: Nat, attempt: Nat]
    BY <2>2, <2>3 DEF Base, TypeOK
  <2>5. QED
    BY <2>1, <2>4, MoveKeepsBase DEF HandlerCommits, Base, TypeOK, TaskPc
<1>2. CASE HandlerRaisesTransient(t)
  BY <1>2, TaskTyped, MoveKeepsBase DEF HandlerRaisesTransient, Goto, Base, TypeOK, TaskPc
<1>3. CASE HandlerRaises(t)
  BY <1>3, TaskTyped, MoveKeepsBase DEF HandlerRaises, Goto, Base, TypeOK, TaskPc
<1>4. QED
  BY <1>1, <1>2, <1>3 DEF Handler

LEMMA MarkDoneBase ==
  ASSUME Base, NEW t \in tasks, MarkDone(t)
  PROVE  Base'
<1>1. CASE ~Owns(t)
  BY <1>1, TaskTyped, MoveKeepsBase DEF MarkDone, Goto, Base, TypeOK, TaskPc
<1>2. CASE Owns(t)
  <2> DEFINE q == Finished(t.row, "done")
  <2>0. t.row \in DOMAIN queue
    BY TaskTyped
  <2>1. /\ q \in Seq(Row)
        /\ DOMAIN q = DOMAIN queue
        /\ \A j \in DOMAIN queue : q[j].attempts = queue[j].attempts
        /\ \A j \in DOMAIN q : q[j].by \in Workers <=> q[j].status = "in_progress"
    BY <2>0, FinishedKeepsLeases
  <2>2. \/ queue' = q
        \/ \E due \in BOOLEAN : /\ t.follow # NoKey
                                /\ queue' = Enqueued(q, t.follow, "upsert_reset_not_before", due)
    BY <1>2 DEF MarkDone
  <2> HIDE DEF q
  <2>3. /\ queue' \in Seq(Row)
        /\ DOMAIN queue \subseteq DOMAIN queue'
        /\ \A j \in DOMAIN queue : queue'[j].attempts = queue[j].attempts
        /\ \A j \in DOMAIN queue' : queue'[j].by \in Workers <=> queue'[j].status = "in_progress"
    <3>1. CASE queue' = q
      BY <2>1, <3>1
    <3>2. ASSUME NEW due \in BOOLEAN, t.follow # NoKey,
                 queue' = Enqueued(q, t.follow, "upsert_reset_not_before", due)
          PROVE  /\ queue' \in Seq(Row)
                 /\ DOMAIN q \subseteq DOMAIN queue'
                 /\ \A j \in DOMAIN q : queue'[j].attempts = q[j].attempts
                 /\ \A j \in DOMAIN queue' :
                       queue'[j].by \in Workers <=> queue'[j].status = "in_progress"
      <4>1. t.follow \in Keys
        BY <3>2, TaskTyped
      <4>2. QED
        BY <2>1, <3>2, <4>1, EnqueueKeepsLeases
    <3>3. QED
      BY <2>1, <2>2, <3>1, <3>2
  <2>4. LeaseConsistent'
    BY <2>3 DEF LeaseConsistent
  <2>5. tasks' \subseteq tasks
    BY <1>2 DEF MarkDone, End
  <2>6. QED
    BY <2>3, <2>4, <2>5, RewriteKeepsBase DEF MarkDone, Base, TypeOK
<1>3. QED
  BY <1>1, <1>2

LEMMA MarkFailedBase ==
  ASSUME Base, NEW t \in tasks, MarkFailed(t)
  PROVE  Base'
<1>1. CASE ~Owns(t)
  BY <1>1, TaskTyped, MoveKeepsBase DEF MarkFailed, Goto, Base, TypeOK, TaskPc
<1>2. CASE Owns(t)
  <2>1. queue' = Finished(t.row, "failed") /\ t.row \in DOMAIN queue
    BY <1>2, TaskTyped DEF MarkFailed
  <2>2. /\ queue' \in Seq(Row)
        /\ DOMAIN queue' = DOMAIN queue
        /\ \A j \in DOMAIN queue : queue'[j].attempts = queue[j].attempts
        /\ \A j \in DOMAIN queue' : queue'[j].by \in Workers <=> queue'[j].status = "in_progress"
    BY <2>1, FinishedKeepsLeases
  <2>3. LeaseConsistent'
    BY <2>2 DEF LeaseConsistent
  <2>4. tasks' \subseteq tasks
    BY <1>2 DEF MarkFailed, End
  <2>5. QED
    BY <2>2, <2>3, <2>4, RewriteKeepsBase DEF MarkFailed, Base, TypeOK
<1>3. QED
  BY <1>1, <1>2

LEMMA ReleaseBase ==
  ASSUME Base, NEW t \in tasks, Release(t)
  PROVE  Base'
<1>1. tasks' \subseteq tasks
  BY DEF Release, End
<1>2. CASE ~Owns(t)
  BY <1>1, <1>2, RewriteKeepsBase DEF Release, Base, TypeOK, LeaseConsistent
<1>3. CASE Owns(t)
  <2>1. queue' = Released(t.row) /\ t.row \in DOMAIN queue
    BY <1>3, TaskTyped DEF Release
  <2>2. /\ queue' \in Seq(Row)
        /\ DOMAIN queue' = DOMAIN queue
        /\ \A j \in DOMAIN queue : queue'[j].attempts = queue[j].attempts
        /\ \A j \in DOMAIN queue' : queue'[j].by \in Workers <=> queue'[j].status = "in_progress"
    BY <2>1, ReleasedKeepsLeases
  <2>3. LeaseConsistent'
    BY <2>2 DEF LeaseConsistent
  <2>4. QED
    BY <2>2, <2>3, <1>1, RewriteKeepsBase DEF Release, Base, TypeOK
<1>4. QED
  BY <1>2, <1>3

LEMMA FinalizeBase ==
  ASSUME Base, NEW t \in tasks, Finalize(t)
  PROVE  Base'
<1>1. CASE HookReturns(t)
  BY <1>1, TaskTyped, MoveKeepsBase DEF HookReturns, Goto, Base, TypeOK, TaskPc
<1>2. QED
  BY <1>1, MarkDoneBase, MarkFailedBase, ReleaseBase DEF Finalize

LEMMA DatabaseErrorBase ==
  ASSUME Base, NEW t \in tasks, DatabaseError(t)
  PROVE  Base'
<1>1. tasks' \subseteq tasks \union {[t EXCEPT !.pc = "giveback"]}
  BY DEF DatabaseError, Goto, End
<1>2. disturbed' \subseteq Nat /\ faults' \in Nat
  <2>1. t.row \in Nat
    BY TaskTyped
  <2>2. QED
    BY <2>1 DEF DatabaseError, Goto, End, Base, TypeOK
<1>3. QED
  BY <1>1, <1>2, TaskTyped, MoveKeepsBase DEF DatabaseError, Base, TypeOK, TaskPc

LEMMA ClockBase ==
  ASSUME Base, NEW i \in DOMAIN queue, NotBeforePasses(i) \/ LeaseExpires(i)
  PROVE  Base'
<1>1. queue \in Seq(Row) /\ queue[i] \in Row /\ i \in Nat
  BY RowsTyped DEF Base, TypeOK
<1>2. PICK row \in {[queue[i] EXCEPT !.due = TRUE], [queue[i] EXCEPT !.expired = TRUE]} :
         queue' = [queue EXCEPT ![i] = row]
  BY <1>1 DEF NotBeforePasses, LeaseExpires, Row
<1>3. /\ row \in Row
      /\ row.attempts = queue[i].attempts
      /\ row.by = queue[i].by
      /\ row.status = queue[i].status
  BY <1>1, <1>2 DEF Row
<1>4. /\ queue' \in Seq(Row)
      /\ DOMAIN queue' = DOMAIN queue
      /\ \A j \in DOMAIN queue : queue'[j] = IF j = i THEN row ELSE queue[j]
  BY <1>1, <1>2, <1>3, UpdateOne
<1>5. LeaseConsistent'
  BY <1>3, <1>4 DEF Base, LeaseConsistent
<1>6. /\ tasks' = tasks /\ workers' = workers /\ applied' = applied
      /\ disturbed' \subseteq Nat /\ faults' \in Nat
  BY <1>1 DEF NotBeforePasses, LeaseExpires, Base, TypeOK
<1>7. QED
  BY <1>3, <1>4, <1>5, <1>6, RewriteKeepsBase DEF Base, TypeOK

LEMMA ProcessBase ==
  ASSUME Base, NEW w \in Workers, Start(w) \/ Shutdown(w) \/ Exit(w) \/ Crash(w)
  PROVE  Base'
<1>1. /\ queue' = queue /\ applied' = applied /\ disturbed' = disturbed
      /\ tasks' \subseteq tasks
      /\ workers' \in [Workers -> WorkerState]
      /\ faults' \in Nat
  BY DEF Start, Shutdown, Exit, Crash, Base, TypeOK, WorkerState
<1>2. QED
  BY <1>1, RewriteKeepsBase DEF Base, TypeOK, LeaseConsistent

LEMMA BaseNext == Base /\ [Next]_wqVars => Base'
<1> SUFFICES ASSUME Base, [Next]_wqVars
             PROVE  Base'
  OBVIOUS
<1>1. CASE UNCHANGED wqVars
  BY <1>1 DEF wqVars, Base, TypeOK, TasksRefer, LeaseConsistent
<1>2. CASE Next
  BY <1>2, EnqueueBase, ClaimBase, HandlerBase, FinalizeBase, DatabaseErrorBase,
     ClockBase, ProcessBase
     DEF Next
<1>3. QED
  BY <1>1, <1>2

(* Every reachable state of the queue, its tasks and its workers is well   *)
(* typed, a task always refers to a claim its row really had, and a row    *)
(* names a claimer exactly while it is in progress.                        *)
THEOREM BaseInvariant == Spec => []Base
<1>1. Init => Base
  BY BaseInit
<1>2. Base /\ [Next]_wqVars => Base'
  BY BaseNext
<1>3. QED
  BY <1>1, <1>2, PTL DEF Spec

(* The types of the table's columns and of the worker's local state.       *)
THEOREM TypeCorrect == Spec => []TypeOK
<1>1. Base => TypeOK
  BY DEF Base
<1>2. QED
  BY <1>1, BaseInvariant, PTL

------------------------------------------------------------------------------
(* At most one pending or running row per dedupe key.                      *)

UniqueIn(q) ==
  \A i, j \in DOMAIN q :
     q[i].key = q[j].key /\ q[i].status \in Live /\ q[j].status \in Live => i = j

(* Rewriting rows in place without reviving a settled one.                 *)
LEMMA RewriteKeepsUnique ==
  ASSUME NEW q, NEW r, UniqueIn(q), DOMAIN r = DOMAIN q,
         \A j \in DOMAIN q : /\ r[j].key = q[j].key
                             /\ r[j].status \in Live => q[j].status \in Live
  PROVE  UniqueIn(r)
BY DEF UniqueIn

(* enqueue inserts only a key no live row has.                             *)
LEMMA EnqueuedUnique ==
  ASSUME NEW q \in Seq(Row), NEW k \in Keys, NEW onConflict, NEW due \in BOOLEAN,
         NEW r, r = Enqueued(q, k, onConflict, due), UniqueIn(q)
  PROVE  UniqueIn(r)
<1>1. \A j \in DOMAIN q : q[j] \in Row
  BY LenProperties, ElementOfSeq
<1>2. CASE /\ DOMAIN r = DOMAIN q
           /\ \A j \in DOMAIN q :
                 \/ r[j] = q[j]
                 \/ q[j].status = "pending" /\ r[j] = [q[j] EXCEPT !.due = due]
  <2>1. \A j \in DOMAIN q : r[j].key = q[j].key /\ r[j].status = q[j].status
    BY <1>1, <1>2 DEF Row
  <2>2. QED
    BY <1>2, <2>1, RewriteKeepsUnique
<1>3. CASE /\ r = Append(q, NewRow(k, due))
           /\ \A j \in DOMAIN q : q[j].key = k => q[j].status \notin Live
  <2>1. NewRow(k, due) \in Row
    BY DEF NewRow, Row, Status
  <2>2. /\ DOMAIN r = DOMAIN q \union {Len(q) + 1}
        /\ r[Len(q) + 1] = NewRow(k, due)
        /\ \A j \in DOMAIN q : r[j] = q[j]
    BY <1>3, <2>1, AppendOne
  <2>3. NewRow(k, due).key = k
    BY DEF NewRow
  <2>4. QED
    BY <1>3, <2>2, <2>3 DEF UniqueIn
<1>4. QED
  BY <1>2, <1>3, EnqueuedEffect

LEMMA ClaimUnique ==
  ASSUME Base, UniqueIn(queue), NEW w \in Workers, NEW lane \in Lanes, Claim(w, lane)
  PROVE  UniqueIn(queue')
<1>1. PICK i \in Claimable(w, lane) : ClaimRow(w, i)
  BY DEF Claim
<1>2. i \in DOMAIN queue /\ queue[i].status \in Live
  BY DEF Claimable, Live
<1>3. queue \in Seq(Row)
  BY DEF Base, TypeOK
<1>4. /\ DOMAIN queue' = DOMAIN queue
      /\ \A j \in DOMAIN queue :
            queue'[j] = IF j = i THEN ClaimedRow(w, i) ELSE queue[j]
  BY <1>1, <1>2, <1>3, ClaimEffect
<1>5. ClaimedRow(w, i).key = queue[i].key
  BY <1>2, <1>3, RowsTyped DEF ClaimedRow, Row
<1>6. \A j \in DOMAIN queue : /\ queue'[j].key = queue[j].key
                              /\ queue'[j].status \in Live => queue[j].status \in Live
  BY <1>2, <1>4, <1>5
<1>7. QED
  BY <1>4, <1>6, RewriteKeepsUnique

LEMMA FinishedUnique ==
  ASSUME Base, UniqueIn(queue), NEW i \in DOMAIN queue, NEW status \in {"done", "failed"}
  PROVE  UniqueIn(Finished(i, status))
<1> DEFINE r == Finished(i, status)
<1>1. /\ DOMAIN r = DOMAIN queue
      /\ r[i].status = status
      /\ \A j \in DOMAIN queue : r[j].key = queue[j].key /\ (j # i => r[j] = queue[j])
  BY FinishedKeepsLeases
<1> HIDE DEF r
<1>2. \A j \in DOMAIN queue : /\ r[j].key = queue[j].key
                              /\ r[j].status \in Live => queue[j].status \in Live
  BY <1>1 DEF Live
<1>3. UniqueIn(r)
  BY <1>1, <1>2, RewriteKeepsUnique
<1>4. QED
  BY <1>3 DEF r

LEMMA FinalizeUnique ==
  ASSUME Base, UniqueIn(queue), NEW t \in tasks, Finalize(t)
  PROVE  UniqueIn(queue')
<1>1. t.row \in DOMAIN queue
  BY TaskTyped
<1>2. CASE HookReturns(t)
  BY <1>2 DEF HookReturns
<1>3. CASE MarkDone(t)
  <2>1. CASE ~Owns(t)
    BY <1>3, <2>1 DEF MarkDone
  <2>2. CASE Owns(t)
    <3> DEFINE q == Finished(t.row, "done")
    <3>1. UniqueIn(q) /\ q \in Seq(Row)
      BY <1>1, FinishedUnique, FinishedKeepsLeases
    <3>2. \/ queue' = q
          \/ \E due \in BOOLEAN : /\ t.follow # NoKey
                                  /\ queue' = Enqueued(q, t.follow, "upsert_reset_not_before", due)
      BY <1>3, <2>2 DEF MarkDone
    <3>3. t.follow # NoKey => t.follow \in Keys
      BY TaskTyped
    <3> HIDE DEF q
    <3>4. ASSUME NEW due \in BOOLEAN, t.follow # NoKey,
                 queue' = Enqueued(q, t.follow, "upsert_reset_not_before", due)
          PROVE  UniqueIn(queue')
      BY <3>1, <3>3, <3>4, EnqueuedUnique
    <3>5. QED
      BY <3>1, <3>2, <3>4
  <2>3. QED
    BY <2>1, <2>2
<1>4. CASE MarkFailed(t)
  BY <1>1, <1>4, FinishedUnique DEF MarkFailed
<1>5. CASE Release(t)
  <2>1. CASE ~Owns(t)
    BY <1>5, <2>1 DEF Release
  <2>2. CASE Owns(t)
    <3>1. queue' = Released(t.row) /\ queue[t.row].status \in Live
      BY <1>5, <2>2 DEF Release, Owns, Live
    <3>2. /\ DOMAIN queue' = DOMAIN queue
          /\ \A j \in DOMAIN queue : /\ queue'[j].key = queue[j].key
                                     /\ j # t.row => queue'[j] = queue[j]
      BY <1>1, <3>1, ReleasedKeepsLeases
    <3>3. \A j \in DOMAIN queue : /\ queue'[j].key = queue[j].key
                                  /\ queue'[j].status \in Live => queue[j].status \in Live
      BY <3>1, <3>2
    <3>4. QED
      BY <3>2, <3>3, RewriteKeepsUnique
  <2>3. QED
    BY <2>1, <2>2
<1>6. QED
  BY <1>2, <1>3, <1>4, <1>5 DEF Finalize

LEMMA ClockUnique ==
  ASSUME Base, UniqueIn(queue), NEW i \in DOMAIN queue, NotBeforePasses(i) \/ LeaseExpires(i)
  PROVE  UniqueIn(queue')
<1>1. queue \in Seq(Row) /\ queue[i] \in Row
  BY RowsTyped DEF Base, TypeOK
<1>2. PICK row \in {[queue[i] EXCEPT !.due = TRUE], [queue[i] EXCEPT !.expired = TRUE]} :
         queue' = [queue EXCEPT ![i] = row]
  BY <1>1 DEF NotBeforePasses, LeaseExpires, Row
<1>3. row \in Row /\ row.key = queue[i].key /\ row.status = queue[i].status
  BY <1>1, <1>2 DEF Row
<1>4. /\ DOMAIN queue' = DOMAIN queue
      /\ \A j \in DOMAIN queue : queue'[j] = IF j = i THEN row ELSE queue[j]
  BY <1>1, <1>2, <1>3, UpdateOne
<1>5. QED
  BY <1>3, <1>4, RewriteKeepsUnique

LEMMA UniqueNext == Base /\ OneLivePerKey /\ [Next]_wqVars => OneLivePerKey'
<1> SUFFICES ASSUME Base, UniqueIn(queue), [Next]_wqVars
             PROVE  UniqueIn(queue')
  BY DEF OneLivePerKey, UniqueIn
<1>1. ASSUME NEW k \in Keys, NEW onConflict, Enqueue(k, onConflict)
      PROVE  UniqueIn(queue')
  <2>1. PICK due \in BOOLEAN : queue' = Enqueued(queue, k, onConflict, due)
    BY <1>1, Zenon DEF Enqueue
  <2>2. queue \in Seq(Row)
    BY DEF Base, TypeOK
  <2>3. QED
    BY <2>1, <2>2, EnqueuedUnique
<1>2. ASSUME NEW t \in tasks, Handler(t) \/ DatabaseError(t)
      PROVE  UniqueIn(queue')
  BY <1>2 DEF Handler, HandlerCommits, HandlerRaisesTransient, HandlerRaises, DatabaseError
<1>3. ASSUME NEW w \in Workers, Start(w) \/ Shutdown(w) \/ Exit(w) \/ Crash(w)
      PROVE  UniqueIn(queue')
  BY <1>3 DEF Start, Shutdown, Exit, Crash
<1>4. CASE UNCHANGED wqVars
  BY <1>4 DEF wqVars
<1>5. CASE Next
  BY <1>5, <1>1, <1>2, <1>3, ClaimUnique, FinalizeUnique, ClockUnique DEF Next
<1>6. QED
  BY <1>4, <1>5

(* The promise of the partial unique index, kept through follow-ups,       *)
(* releases and takeovers: callers, workers and a finished job's own       *)
(* re-enqueue never leave two pending or running rows with one key.        *)
THEOREM OneLivePerKeyHolds == Spec => []OneLivePerKey
<1>1. Init => OneLivePerKey
  BY EmptySeq DEF Init, OneLivePerKey
<1>2. Base /\ OneLivePerKey /\ [Next]_wqVars => OneLivePerKey'
  BY UniqueNext
<1>3. QED
  BY <1>1, <1>2, BaseInvariant, PTL DEF Spec
==============================================================================
