------------------------- MODULE WorkQueueLeaseProofs -------------------------
(***************************************************************************)
(* Executions of an undisturbed row: at most one at a time, at most one    *)
(* commit, and an outcome that agrees with it; and the refinement of       *)
(* JobLease; for every set of workers, keys and lanes.                     *)
(***************************************************************************)
EXTENDS WorkQueueProofs

------------------------------------------------------------------------------
(* The inductive invariant.                                                *)

(* A claim number names one execution of a row.                            *)
AttemptsIdentify ==
  \A t1, t2 \in tasks : t1.row = t2.row /\ t1.attempt = t2.attempt => t1 = t2

(* An execution of an undisturbed row is the row's latest claim, and its   *)
(* worker still has the lease.                                             *)
HoldsLease(t) == Owns(t) /\ queue[t.row].attempts = t.attempt /\ t.pc # "giveback"
LeasesHeld == \A t \in tasks : t.row \in disturbed \/ HoldsLease(t)

LeasesFresh ==
  \A i \in DOMAIN queue :
     queue[i].status = "in_progress" /\ queue[i].expired => i \in disturbed

(* An execution that waits for mark_done has committed.                    *)
CommitsRecorded ==
  \A t \in tasks : t.pc = "finish" => [row |-> t.row, attempt |-> t.attempt] \in applied

(* After the commit of an undisturbed row its execution can only finish.   *)
CommitsFollowed ==
  \A a \in applied :
     /\ a.row \in DOMAIN queue
     /\ \/ a.row \in disturbed
        \/ /\ queue[a.row].status \in {"in_progress", "done"}
           /\ \A t \in tasks : t.row = a.row => t.pc = "finish"

DoneCommitted ==
  \A i \in DOMAIN queue : queue[i].status = "done" => \E a \in applied : a.row = i

Execution ==
  /\ AttemptsIdentify
  /\ LeasesHeld
  /\ LeasesFresh
  /\ CommitsRecorded
  /\ CommitsFollowed
  /\ DoneCommitted
  /\ OnceUnlessDisturbed

------------------------------------------------------------------------------
(* Steps that leave every lease in place.                                  *)

SameLease(i) ==
  /\ queue'[i].status = queue[i].status
  /\ queue'[i].by = queue[i].by
  /\ queue'[i].attempts = queue[i].attempts

(* Rows keep their lease, new rows are pending, tasks may stop, and a      *)
(* lease expires only by disturbing its row.                               *)
LEMMA QuietStep ==
  ASSUME Base, Execution,
         DOMAIN queue \subseteq DOMAIN queue',
         \A i \in DOMAIN queue : SameLease(i),
         \A i \in DOMAIN queue : queue'[i].expired => queue[i].expired \/ i \in disturbed',
         \A i \in DOMAIN queue' : i \notin DOMAIN queue => queue'[i].status = "pending",
         tasks' \subseteq tasks, UNCHANGED applied, disturbed \subseteq disturbed'
  PROVE  Execution'
<1>1. \A t \in tasks : t.row \in DOMAIN queue
  BY DEF Base, TasksRefer
<1>2. AttemptsIdentify'
  BY DEF Execution, AttemptsIdentify
<1>3. LeasesHeld'
  BY <1>1 DEF Execution, LeasesHeld, HoldsLease, Owns, SameLease
<1>4. LeasesFresh'
  BY DEF Execution, LeasesFresh, SameLease
<1>5. CommitsRecorded'
  BY DEF Execution, CommitsRecorded
<1>6. CommitsFollowed'
  BY DEF Execution, CommitsFollowed, SameLease
<1>7. DoneCommitted'
  BY DEF Execution, DoneCommitted, SameLease
<1>8. OnceUnlessDisturbed'
  BY DEF Execution, OnceUnlessDisturbed
<1>9. QED
  BY <1>2, <1>3, <1>4, <1>5, <1>6, <1>7, <1>8 DEF Execution

(* A task moves on, or ends, while the table stays as it is.               *)
LEMMA MoveStep ==
  ASSUME Base, Execution, NEW t \in tasks, NEW pc \in TaskPc \ {"finish"},
         tasks' \subseteq (tasks \ {t}) \union {[t EXCEPT !.pc = pc]},
         UNCHANGED <<queue, applied>>, disturbed \subseteq disturbed',
         t.row \in disturbed' \/ (t.pc # "finish" /\ pc # "giveback")
  PROVE  Execution'
<1> DEFINE u == [t EXCEPT !.pc = pc]
<1>1. u.row = t.row /\ u.attempt = t.attempt /\ u.by = t.by /\ u.pc = pc
  BY TaskTyped DEF Task
<1> HIDE DEF u
<1>2. tasks' \subseteq (tasks \ {t}) \union {u}
  BY DEF u
<1>3. AttemptsIdentify'
  BY <1>1, <1>2 DEF Execution, AttemptsIdentify
<1>4. LeasesHeld'
  BY <1>1, <1>2 DEF Execution, LeasesHeld, HoldsLease, Owns
<1>5. LeasesFresh'
  BY DEF Execution, LeasesFresh
<1>6. CommitsRecorded'
  BY <1>1, <1>2 DEF Execution, CommitsRecorded
<1>7. CommitsFollowed'
  BY <1>1, <1>2 DEF Execution, CommitsFollowed
<1>8. DoneCommitted'
  BY DEF Execution, DoneCommitted
<1>9. OnceUnlessDisturbed'
  BY DEF Execution, OnceUnlessDisturbed
<1>10. QED
  BY <1>3, <1>4, <1>5, <1>6, <1>7, <1>8, <1>9 DEF Execution

------------------------------------------------------------------------------
(* A finalizer that still owns its row.                                    *)

LEMMA OwnerStep ==
  ASSUME Base, Execution, NEW t \in tasks,
         DOMAIN queue \subseteq DOMAIN queue',
         \A i \in DOMAIN queue : i # t.row => SameLease(i) /\ queue'[i].expired = queue[i].expired,
         \A i \in DOMAIN queue' : i \notin DOMAIN queue => queue'[i].status = "pending",
         \/ queue'[t.row].status = "done" /\ t.pc = "finish"
         \/ queue'[t.row].status \in {"failed", "pending"} /\ t.pc # "finish",
         tasks' = tasks \ {t}, UNCHANGED <<applied, disturbed>>
  PROVE  Execution'
<1>1. \A s \in tasks : s.row \in DOMAIN queue
  BY DEF Base, TasksRefer
<1>2. \A s \in tasks' : s.row \in disturbed \/ s.row # t.row
  BY DEF Execution, LeasesHeld, HoldsLease, AttemptsIdentify
<1>3. AttemptsIdentify'
  BY DEF Execution, AttemptsIdentify
<1>4. LeasesHeld'
  BY <1>1, <1>2 DEF Execution, LeasesHeld, HoldsLease, Owns, SameLease
<1>5. LeasesFresh'
  BY DEF Execution, LeasesFresh, SameLease
<1>6. CommitsRecorded'
  BY DEF Execution, CommitsRecorded
<1>7. CommitsFollowed'
  BY <1>1, <1>2 DEF Execution, CommitsFollowed, SameLease
<1>8. DoneCommitted'
  BY DEF Execution, DoneCommitted, CommitsRecorded, SameLease
<1>9. OnceUnlessDisturbed'
  BY DEF Execution, OnceUnlessDisturbed
<1>10. QED
  BY <1>3, <1>4, <1>5, <1>6, <1>7, <1>8, <1>9 DEF Execution

(* What a finalizer that owns its row writes: that row, perhaps a follow-up*)
(* (a new row, or an earlier not_before of a pending one), nothing else.   *)
LEMMA OwnerWrites ==
  ASSUME Base, NEW t \in tasks, Owns(t), MarkDone(t) \/ MarkFailed(t) \/ Release(t)
  PROVE  /\ t.row \in DOMAIN queue /\ DOMAIN queue \subseteq DOMAIN queue'
         /\ \A i \in DOMAIN queue :
               /\ queue'[i].key = queue[i].key /\ queue'[i].attempts = queue[i].attempts
               /\ i # t.row => /\ SameLease(i) /\ queue'[i].expired = queue[i].expired
                               /\ queue[i].status # "pending" => queue'[i] = queue[i]
         /\ \A i \in DOMAIN queue' : i \notin DOMAIN queue => queue'[i].status = "pending"
         /\ \/ queue'[t.row].status = "done" /\ t.pc = "finish"
            \/ queue'[t.row].status \in {"failed", "pending"} /\ t.pc # "finish"
         /\ tasks' = tasks \ {t} /\ UNCHANGED <<applied, disturbed, faults, workers>>
<1>1. t.row \in DOMAIN queue /\ t.follow \in Keys \union {NoKey}
  BY TaskTyped
<1>2. CASE MarkDone(t)
  <2> DEFINE q == Finished(t.row, "done")
  <2>1. /\ q \in Seq(Row)
        /\ DOMAIN q = DOMAIN queue
        /\ q[t.row].status = "done"
        /\ \A j \in DOMAIN queue : /\ q[j].key = queue[j].key /\ q[j].attempts = queue[j].attempts
                                   /\ j # t.row => q[j] = queue[j]
        /\ \A j \in DOMAIN q : q[j].by \in Workers <=> q[j].status = "in_progress"
    BY <1>1, FinishedKeepsLeases
  <2>2. \/ queue' = q
        \/ \E due \in BOOLEAN : /\ t.follow # NoKey
                                /\ queue' = Enqueued(q, t.follow, "upsert_reset_not_before", due)
    BY <1>2 DEF MarkDone
  <2> HIDE DEF q
  <2> DEFINE kept ==
        /\ DOMAIN q \subseteq DOMAIN queue'
        /\ \A j \in DOMAIN q : /\ queue'[j].status = q[j].status
                               /\ queue'[j].by = q[j].by
                               /\ queue'[j].attempts = q[j].attempts
                               /\ queue'[j].expired = q[j].expired
                               /\ queue'[j].key = q[j].key
                               /\ q[j].status # "pending" => queue'[j] = q[j]
        /\ \A j \in DOMAIN queue' : j \notin DOMAIN q => queue'[j].status = "pending"
  <2>3. kept
    <3>1. CASE queue' = q
      BY <3>1
    <3>2. ASSUME NEW due \in BOOLEAN, NEW k \in Keys,
                 queue' = Enqueued(q, k, "upsert_reset_not_before", due)
          PROVE  kept
      BY <2>1, <3>2, EnqueueKeepsLeases
    <3>3. QED
      BY <1>1, <2>2, <3>1, <3>2
  <2>4. t.pc = "finish" /\ tasks' = tasks \ {t} /\ UNCHANGED <<applied, disturbed, faults, workers>>
    BY <1>2 DEF MarkDone, End
  <2>5. QED
    BY <1>1, <2>1, <2>3, <2>4 DEF SameLease
<1>3. CASE MarkFailed(t)
  <2>1. queue' = Finished(t.row, "failed")
    BY <1>3 DEF MarkFailed
  <2>2. /\ DOMAIN queue' = DOMAIN queue
        /\ queue'[t.row].status = "failed"
        /\ \A j \in DOMAIN queue : /\ queue'[j].key = queue[j].key
                                   /\ queue'[j].attempts = queue[j].attempts
                                   /\ j # t.row => queue'[j] = queue[j]
    BY <1>1, <2>1, FinishedKeepsLeases
  <2>3. t.pc # "finish" /\ tasks' = tasks \ {t} /\ UNCHANGED <<applied, disturbed, faults, workers>>
    BY <1>3 DEF MarkFailed, End
  <2>4. QED
    BY <1>1, <2>2, <2>3 DEF SameLease
<1>4. CASE Release(t)
  <2>1. queue' = Released(t.row)
    BY <1>4 DEF Release
  <2>2. /\ DOMAIN queue' = DOMAIN queue
        /\ queue'[t.row].status = "pending"
        /\ \A j \in DOMAIN queue : /\ queue'[j].key = queue[j].key
                                   /\ queue'[j].attempts = queue[j].attempts
                                   /\ j # t.row => queue'[j] = queue[j]
    BY <1>1, <2>1, ReleasedKeepsLeases
  <2>3. t.pc # "finish" /\ tasks' = tasks \ {t} /\ UNCHANGED <<applied, disturbed, faults, workers>>
    BY <1>4 DEF Release, End
  <2>4. QED
    BY <1>1, <2>2, <2>3 DEF SameLease
<1>5. QED
  BY <1>2, <1>3, <1>4

(* One that does not own it writes nothing.                                *)
LEMMA FinalizerExecution ==
  ASSUME Base, Execution, NEW t \in tasks, MarkDone(t) \/ MarkFailed(t) \/ Release(t)
  PROVE  Execution'
<1>1. CASE Owns(t)
  BY <1>1, OwnerWrites, OwnerStep
<1>2. CASE ~Owns(t) /\ Release(t)
  BY <1>2, QuietStep DEF Release, End, SameLease
<1>3. CASE ~Owns(t) /\ (MarkDone(t) \/ MarkFailed(t))
  <2>1. t.row \in disturbed
    BY <1>3 DEF Execution, LeasesHeld, HoldsLease
  <2>2. QED
    BY <1>3, <2>1, MoveStep DEF MarkDone, MarkFailed, Goto, TaskPc
<1>4. QED
  BY <1>1, <1>2, <1>3

------------------------------------------------------------------------------
(* Claims and commits.                                                     *)

(* A claim takes an undisturbed row only while it is pending, when no task *)
(* works on it and nothing was committed for it.                           *)
LEMMA ClaimExecution ==
  ASSUME Base, Execution, NEW w \in Workers, NEW lane \in Lanes, Claim(w, lane)
  PROVE  Execution'
<1>1. PICK i \in Claimable(w, lane) : ClaimRow(w, i)
  BY DEF Claim
<1>2. /\ i \in DOMAIN queue
      /\ \/ queue[i].status = "pending"
         \/ queue[i].status = "in_progress" /\ queue[i].expired
  BY DEF Claimable
<1>3. queue \in Seq(Row) /\ queue[i].attempts \in Nat
  BY <1>2, RowsTyped DEF Base, TypeOK, Row
<1> DEFINE u == ClaimTask(w, i)
<1>4. /\ DOMAIN queue' = DOMAIN queue
      /\ \A j \in DOMAIN queue :
            queue'[j] = IF j = i THEN ClaimedRow(w, i) ELSE queue[j]
      /\ tasks' = tasks \union {u}
  BY <1>1, <1>2, <1>3, ClaimEffect
<1>5. /\ u.row = i /\ u.attempt = queue[i].attempts + 1 /\ u.by = w
      /\ u.pc \in {"retry", "hook", "run"}
  BY DEF ClaimTask, FirstPc
<1>6. /\ queue'[i].status = "in_progress"
      /\ queue'[i].by = w
      /\ queue'[i].attempts = queue[i].attempts + 1
      /\ ~queue'[i].expired
  BY <1>2, <1>3, <1>4, RowsTyped DEF ClaimedRow, Row
<1>7. \A j \in DOMAIN queue : j # i => queue'[j] = queue[j]
  BY <1>4
<1>8. i \in disturbed \/ queue[i].status = "pending"
  BY <1>2 DEF Execution, LeasesFresh
<1>9. /\ \A t \in tasks : t.row = i => i \in disturbed
      /\ \A a \in applied : a.row = i => i \in disturbed
  BY <1>8 DEF Execution, LeasesHeld, HoldsLease, Owns, CommitsFollowed
<1>10. \A t \in tasks : /\ t.row \in DOMAIN queue
                        /\ t.row = i => t.attempt \in Nat /\ t.attempt <= queue[i].attempts
  BY DEF Base, TypeOK, Task, TasksRefer
<1>11. applied' = applied /\ disturbed' = disturbed
  BY <1>1 DEF ClaimRow
<1> HIDE DEF u
<1>12. AttemptsIdentify'
  <2>1. \A t \in tasks : ~(t.row = u.row /\ t.attempt = u.attempt)
    BY <1>3, <1>5, <1>10
  <2>2. QED
    BY <1>4, <2>1 DEF Execution, AttemptsIdentify
<1>13. LeasesHeld'
  BY <1>4, <1>5, <1>6, <1>7, <1>9, <1>10, <1>11 DEF Execution, LeasesHeld, HoldsLease, Owns
<1>14. LeasesFresh'
  BY <1>4, <1>6, <1>7, <1>11 DEF Execution, LeasesFresh
<1>15. CommitsRecorded'
  BY <1>4, <1>5, <1>11 DEF Execution, CommitsRecorded
<1>16. CommitsFollowed'
  BY <1>4, <1>5, <1>7, <1>9, <1>11 DEF Execution, CommitsFollowed
<1>17. DoneCommitted'
  BY <1>4, <1>6, <1>7, <1>11 DEF Execution, DoneCommitted
<1>18. OnceUnlessDisturbed'
  BY <1>11 DEF Execution, OnceUnlessDisturbed
<1>19. QED
  BY <1>12, <1>13, <1>14, <1>15, <1>16, <1>17, <1>18 DEF Execution

(* The first commit of an undisturbed row is its only one: the task that   *)
(* makes it is in its handler, so none before it can have committed.       *)
LEMMA CommitExecution ==
  ASSUME Base, Execution, NEW t \in tasks, NEW follow \in Keys \union {NoKey},
         HandlerCommits(t, follow)
  PROVE  Execution'
<1> DEFINE u == [t EXCEPT !.pc = "finish", !.follow = follow]
           c == [row |-> t.row, attempt |-> t.attempt]
<1>1. /\ u.row = t.row /\ u.attempt = t.attempt /\ u.by = t.by /\ u.pc = "finish"
      /\ c.row = t.row
      /\ c = [row |-> u.row, attempt |-> u.attempt]
  BY TaskTyped DEF Task
<1>2. /\ t.pc = "run"
      /\ tasks' = (tasks \ {t}) \union {u}
      /\ applied' = applied \union {c}
      /\ UNCHANGED <<queue, disturbed>>
  BY DEF HandlerCommits
<1> HIDE DEF u, c
<1>3. t.row \in DOMAIN queue
  BY TaskTyped
<1>4. \A a \in applied : a.row = t.row => t.row \in disturbed
  BY <1>2 DEF Execution, CommitsFollowed
<1>5. \A s \in tasks : s.row = t.row /\ s # t => t.row \in disturbed
  BY DEF Execution, LeasesHeld, HoldsLease, AttemptsIdentify
<1>6. AttemptsIdentify'
  BY <1>1, <1>2 DEF Execution, AttemptsIdentify
<1>7. LeasesHeld'
  BY <1>1, <1>2 DEF Execution, LeasesHeld, HoldsLease, Owns
<1>8. LeasesFresh'
  BY <1>2 DEF Execution, LeasesFresh
<1>9. CommitsRecorded'
  BY <1>1, <1>2 DEF Execution, CommitsRecorded
<1>10. CommitsFollowed'
  <2>1. t.row \in disturbed \/ queue[t.row].status = "in_progress"
    BY DEF Execution, LeasesHeld, HoldsLease, Owns
  <2>2. QED
    BY <1>1, <1>2, <1>3, <1>5, <2>1 DEF Execution, CommitsFollowed
<1>11. DoneCommitted'
  BY <1>2 DEF Execution, DoneCommitted
<1>12. OnceUnlessDisturbed'
  BY <1>1, <1>2, <1>4 DEF Execution, OnceUnlessDisturbed
<1>13. QED
  BY <1>6, <1>7, <1>8, <1>9, <1>10, <1>11, <1>12 DEF Execution

------------------------------------------------------------------------------
(* The remaining actions, by the lemmas above.                             *)

LEMMA HandlerExecution ==
  ASSUME Base, Execution, NEW t \in tasks, Handler(t)
  PROVE  Execution'
<1>1. CASE HandlerRaisesTransient(t)
  BY <1>1, MoveStep DEF HandlerRaisesTransient, Goto, TaskPc
<1>2. CASE HandlerRaises(t)
  BY <1>2, MoveStep DEF HandlerRaises, Goto, TaskPc
<1>3. QED
  BY <1>1, <1>2, CommitExecution DEF Handler

LEMMA FinalizeExecution ==
  ASSUME Base, Execution, NEW t \in tasks, Finalize(t)
  PROVE  Execution'
<1>1. CASE HookReturns(t)
  BY <1>1, MoveStep DEF HookReturns, Goto, TaskPc
<1>2. QED
  BY <1>1, FinalizerExecution DEF Finalize

LEMMA DatabaseErrorExecution ==
  ASSUME Base, Execution, NEW t \in tasks, DatabaseError(t)
  PROVE  Execution'
<1>1. /\ tasks' \subseteq (tasks \ {t}) \union {[t EXCEPT !.pc = "giveback"]}
      /\ UNCHANGED <<queue, applied>>
      /\ disturbed \subseteq disturbed' /\ t.row \in disturbed'
  BY DEF DatabaseError, Goto, End
<1>2. QED
  BY <1>1, MoveStep DEF TaskPc

LEMMA EnqueueExecution ==
  ASSUME Base, Execution, NEW k \in Keys, NEW onConflict, Enqueue(k, onConflict)
  PROVE  Execution'
<1>1. PICK due \in BOOLEAN : queue' = Enqueued(queue, k, onConflict, due)
  BY Zenon DEF Enqueue
<1>2. /\ queue \in Seq(Row)
      /\ \A i \in DOMAIN queue : queue[i].by \in Workers <=> queue[i].status = "in_progress"
  BY DEF Base, TypeOK, LeaseConsistent
<1>3. /\ DOMAIN queue \subseteq DOMAIN queue'
      /\ \A i \in DOMAIN queue : SameLease(i) /\ queue'[i].expired = queue[i].expired
      /\ \A i \in DOMAIN queue' : i \notin DOMAIN queue => queue'[i].status = "pending"
  BY <1>1, <1>2, EnqueueKeepsLeases DEF SameLease
<1>4. QED
  BY <1>3, QuietStep DEF Enqueue

LEMMA ClockExecution ==
  ASSUME Base, Execution, NEW i \in DOMAIN queue, NotBeforePasses(i) \/ LeaseExpires(i)
  PROVE  Execution'
<1>1. queue \in Seq(Row) /\ queue[i] \in Row
  BY RowsTyped DEF Base, TypeOK
<1> DEFINE due == [queue[i] EXCEPT !.due = TRUE]
           late == [queue[i] EXCEPT !.expired = TRUE]
<1>2. PICK row \in {due, late} : queue' = [queue EXCEPT ![i] = row] /\ (row = late => i \in disturbed')
  <2>1. CASE NotBeforePasses(i)
    <3>1. queue' = [queue EXCEPT ![i] = due]
      BY <1>1, <2>1 DEF NotBeforePasses, Row
    <3>2. queue[i].status = "pending"
      BY <2>1 DEF NotBeforePasses
    <3>3. due # late
      BY <1>1, <2>1 DEF Row, NotBeforePasses
    <3>4. QED
      BY <3>1, <3>3
  <2>2. CASE LeaseExpires(i)
    <3>1. queue' = [queue EXCEPT ![i] = late] /\ i \in disturbed'
      BY <1>1, <2>2 DEF LeaseExpires, Row
    <3>2. QED
      BY <3>1
  <2>3. QED
    BY <2>1, <2>2
<1>3. /\ row \in Row
      /\ row.status = queue[i].status
      /\ row.by = queue[i].by
      /\ row.attempts = queue[i].attempts
      /\ row.expired => queue[i].expired \/ i \in disturbed'
  BY <1>1, <1>2 DEF Row
<1>4. /\ DOMAIN queue' = DOMAIN queue
      /\ \A j \in DOMAIN queue : queue'[j] = IF j = i THEN row ELSE queue[j]
  BY <1>1, <1>2, <1>3, UpdateOne
<1>5. tasks' = tasks /\ applied' = applied /\ disturbed \subseteq disturbed'
  BY DEF NotBeforePasses, LeaseExpires
<1>6. QED
  BY <1>3, <1>4, <1>5, QuietStep DEF SameLease

LEMMA ProcessExecution ==
  ASSUME Base, Execution, NEW w \in Workers, Start(w) \/ Shutdown(w) \/ Exit(w) \/ Crash(w)
  PROVE  Execution'
<1>1. tasks' \subseteq tasks /\ UNCHANGED <<queue, applied, disturbed>>
  BY DEF Start, Shutdown, Exit, Crash
<1>2. QED
  BY <1>1, QuietStep DEF SameLease

LEMMA ExecutionNext == Base /\ Execution /\ [Next]_wqVars => Execution'
<1> SUFFICES ASSUME Base, Execution, [Next]_wqVars
             PROVE  Execution'
  OBVIOUS
<1>1. CASE UNCHANGED wqVars
  BY <1>1, QuietStep DEF wqVars, SameLease
<1>2. CASE Next
  BY <1>2, EnqueueExecution, ClaimExecution, HandlerExecution, FinalizeExecution,
     DatabaseErrorExecution, ClockExecution, ProcessExecution
     DEF Next
<1>3. QED
  BY <1>1, <1>2

------------------------------------------------------------------------------
LEMMA ExecutionInvariant == Spec => []Execution
<1>1. Init => Execution
  BY EmptySeq DEF Init, Execution, AttemptsIdentify, LeasesHeld, LeasesFresh,
     CommitsRecorded, CommitsFollowed, DoneCommitted, OnceUnlessDisturbed
<1>2. Base /\ Execution /\ [Next]_wqVars => Execution'
  BY ExecutionNext
<1>3. QED
  BY <1>1, <1>2, BaseInvariant, PTL DEF Spec

(* claim_one, the lease guard of the finalizers and the visibility timeout *)
(* keep executions of a row apart: two overlap only if its lease ran out   *)
(* or a database error hit its finalizer.                                  *)
THEOREM SoleRunner == Spec => []SoleRunnerUnlessDisturbed
<1>1. Execution => SoleRunnerUnlessDisturbed
  BY DEF Execution, SoleRunnerUnlessDisturbed, AttemptsIdentify, LeasesHeld, HoldsLease
<1>2. QED
  BY <1>1, ExecutionInvariant, PTL

(* A handler's effects, committed apart from mark_done, are committed at   *)
(* most once for a row that met no expired lease and no database error.    *)
THEOREM OnceCommitted == Spec => []OnceUnlessDisturbed
<1>1. Execution => OnceUnlessDisturbed
  BY DEF Execution
<1>2. QED
  BY <1>1, ExecutionInvariant, PTL

(* "done" is written only over a committed execution, "failed" on an       *)
(* undisturbed row only when nothing was committed.                        *)
THEOREM OutcomeHonest == Spec => []OutcomeMatchesEffect
<1>1. Execution => OutcomeMatchesEffect
  BY DEF Execution, OutcomeMatchesEffect, CommitsFollowed, DoneCommitted
<1>2. QED
  BY <1>1, ExecutionInvariant, PTL

------------------------------------------------------------------------------
(* Nothing is disturbed while nothing fails: without a crash, a shutdown,  *)
(* a database error or an overrun lease every running row has its runner.  *)

Attentive ==
  /\ disturbed = {}
  /\ \A w \in Workers : workers[w] # "draining"
  /\ \A i \in DOMAIN queue : queue[i].status = "in_progress" => Attended(i)

QuietUntilFault == faults = 0 => Attentive

LEMMA FaultsGrow ==
  ASSUME Base, [Next]_wqVars
  PROVE  /\ faults \in Nat /\ faults' \in {faults, faults + 1}
         /\ \A w \in Workers : Shutdown(w) \/ Crash(w) => faults' = faults + 1
         /\ \A t \in tasks : DatabaseError(t) => faults' = faults + 1
<1>1. faults \in Nat
  BY DEF Base, TypeOK
<1>2. /\ \A w \in Workers : Shutdown(w) \/ Crash(w) => faults' = faults + 1
      /\ \A t \in tasks : DatabaseError(t) => faults' = faults + 1
  BY DEF Shutdown, Crash, DatabaseError
<1>3. CASE UNCHANGED wqVars
  BY <1>1, <1>2, <1>3 DEF wqVars
<1>4. ASSUME NEW t \in tasks, Handler(t) \/ Finalize(t)
      PROVE  faults' = faults
  BY <1>4 DEF Handler, HandlerCommits, HandlerRaisesTransient, HandlerRaises, Finalize,
     HookReturns, MarkDone, MarkFailed, Release
<1>5. ASSUME NEW i \in DOMAIN queue, NotBeforePasses(i) \/ LeaseExpires(i)
      PROVE  faults' \in {faults, faults + 1}
  BY <1>5 DEF NotBeforePasses, LeaseExpires
<1>6. ASSUME NEW w \in Workers, Start(w) \/ Exit(w) \/ \E lane \in Lanes : Claim(w, lane)
      PROVE  faults' = faults
  BY <1>6 DEF Start, Exit, Claim, ClaimRow
<1>7. ASSUME NEW k, NEW onConflict, Enqueue(k, onConflict)
      PROVE  faults' = faults
  BY <1>7 DEF Enqueue
<1>8. QED
  BY <1>1, <1>2, <1>3, <1>4, <1>5, <1>6, <1>7 DEF Next

(* Tasks move, rows keep their lease or wait.                              *)
LEMMA AttentiveMove ==
  ASSUME Base, Attentive,
         DOMAIN queue \subseteq DOMAIN queue',
         \A i \in DOMAIN queue' :
            queue'[i].status = "in_progress" =>
               /\ i \in DOMAIN queue /\ SameLease(i)
               /\ \A t \in tasks : t.row = i => \E u \in tasks' : u.row = i /\ u.attempt = t.attempt,
         workers' = workers, disturbed' = {}
  PROVE  Attentive'
<1>1. ASSUME NEW i \in DOMAIN queue', queue'[i].status = "in_progress"
      PROVE  \E t \in tasks' : t.row = i /\ t.attempt = queue'[i].attempts
  <2>1. i \in DOMAIN queue /\ SameLease(i)
    BY <1>1
  <2>2. PICK t \in tasks : t.row = i /\ t.attempt = queue[i].attempts
    BY <1>1, <2>1 DEF Attentive, Attended, SameLease
  <2>3. QED
    BY <1>1, <2>1, <2>2 DEF SameLease
<1>2. QED
  BY <1>1 DEF Attentive, Attended

LEMMA ClaimAttentive ==
  ASSUME Base, Attentive, NEW w \in Workers, NEW lane \in Lanes, Claim(w, lane)
  PROVE  Attentive'
<1>1. PICK i \in Claimable(w, lane) : ClaimRow(w, i)
  BY DEF Claim
<1>2. queue \in Seq(Row) /\ i \in DOMAIN queue /\ queue[i] \in Row
  BY RowsTyped DEF Claimable, Base, TypeOK
<1>3. /\ DOMAIN queue' = DOMAIN queue
      /\ \A j \in DOMAIN queue : queue'[j] = IF j = i THEN ClaimedRow(w, i) ELSE queue[j]
      /\ tasks' = tasks \union {ClaimTask(w, i)}
  BY <1>1, <1>2, ClaimEffect
<1>4. /\ ClaimTask(w, i).row = i /\ ClaimTask(w, i).attempt = queue[i].attempts + 1
      /\ ClaimedRow(w, i).attempts = queue[i].attempts + 1
  BY <1>2 DEF ClaimTask, ClaimedRow, Row
<1>5. UNCHANGED <<workers, disturbed>>
  BY <1>1 DEF ClaimRow
<1>6. QED
  BY <1>3, <1>4, <1>5 DEF Attentive, Attended

LEMMA TaskAttentive ==
  ASSUME Base, Execution, Attentive, NEW t \in tasks, Handler(t) \/ Finalize(t)
  PROVE  Attentive'
<1>1. t.row \in DOMAIN queue /\ t \in Task /\ HoldsLease(t)
  BY TaskTyped DEF Attentive, Execution, LeasesHeld
<1>2. ASSUME NEW u, u.row = t.row, u.attempt = t.attempt,
             tasks' = (tasks \ {t}) \union {u}, UNCHANGED <<queue, workers, disturbed>>
      PROVE  Attentive'
  BY <1>1, <1>2, AttentiveMove DEF SameLease, Attentive
<1>3. CASE Handler(t) \/ HookReturns(t)
  <2>1. UNCHANGED <<queue, workers, disturbed>>
    BY <1>3 DEF Handler, HandlerCommits, HandlerRaisesTransient, HandlerRaises, HookReturns
  <2>2. \/ \E pc \in TaskPc : tasks' = (tasks \ {t}) \union {[t EXCEPT !.pc = pc]}
        \/ \E follow : tasks' = (tasks \ {t}) \union {[t EXCEPT !.pc = "finish", !.follow = follow]}
    BY <1>3 DEF Handler, HandlerCommits, HandlerRaisesTransient, HandlerRaises, HookReturns,
       Goto, TaskPc
  <2>3. /\ \A pc : [t EXCEPT !.pc = pc].row = t.row /\ [t EXCEPT !.pc = pc].attempt = t.attempt
        /\ \A pc, follow : /\ [t EXCEPT !.pc = pc, !.follow = follow].row = t.row
                           /\ [t EXCEPT !.pc = pc, !.follow = follow].attempt = t.attempt
    BY <1>1 DEF Task
  <2>4. QED
    BY <1>2, <2>1, <2>2, <2>3
<1>4. CASE MarkDone(t) \/ MarkFailed(t) \/ Release(t)
  <2>1. /\ DOMAIN queue \subseteq DOMAIN queue'
        /\ \A i \in DOMAIN queue : i # t.row => SameLease(i)
        /\ \A i \in DOMAIN queue' : i \notin DOMAIN queue => queue'[i].status = "pending"
        /\ queue'[t.row].status # "in_progress"
        /\ tasks' = tasks \ {t} /\ UNCHANGED <<workers, disturbed>>
    BY <1>1, <1>4, OwnerWrites DEF HoldsLease
  <2>2. QED
    BY <2>1, AttentiveMove DEF Attentive
<1>5. QED
  BY <1>3, <1>4 DEF Finalize

LEMMA QuietNext == Base /\ Execution /\ QuietUntilFault /\ [Next]_wqVars => QuietUntilFault'
<1> SUFFICES ASSUME Base, Execution, QuietUntilFault, [Next]_wqVars, faults' = 0
             PROVE  Attentive'
  BY DEF QuietUntilFault
<1>1. faults = 0 /\ Attentive
  BY FaultsGrow DEF QuietUntilFault
<1>2. ASSUME UNCHANGED <<tasks, workers, disturbed>>, DOMAIN queue \subseteq DOMAIN queue',
             \A i \in DOMAIN queue : SameLease(i),
             \A i \in DOMAIN queue' : i \notin DOMAIN queue => queue'[i].status = "pending"
      PROVE  Attentive'
  BY <1>1, <1>2, AttentiveMove DEF Attentive
<1>3. CASE UNCHANGED wqVars
  BY <1>2, <1>3 DEF wqVars, SameLease
<1>4. ASSUME NEW k \in Keys, NEW onConflict, Enqueue(k, onConflict)
      PROVE  Attentive'
  <2>1. PICK due \in BOOLEAN : queue' = Enqueued(queue, k, onConflict, due)
    BY <1>4, Zenon DEF Enqueue
  <2>2. /\ queue \in Seq(Row)
        /\ \A i \in DOMAIN queue : queue[i].by \in Workers <=> queue[i].status = "in_progress"
    BY DEF Base, TypeOK, LeaseConsistent
  <2>3. /\ DOMAIN queue \subseteq DOMAIN queue'
        /\ \A i \in DOMAIN queue : SameLease(i)
        /\ \A i \in DOMAIN queue' : i \notin DOMAIN queue => queue'[i].status = "pending"
    BY <2>1, <2>2, EnqueueKeepsLeases DEF SameLease
  <2>4. QED
    BY <1>2, <1>4, <2>3 DEF Enqueue
<1>5. ASSUME NEW w \in Workers, NEW lane \in Lanes, Claim(w, lane)
      PROVE  Attentive'
  BY <1>1, <1>5, ClaimAttentive
<1>6. ASSUME NEW t \in tasks, Handler(t) \/ Finalize(t) \/ DatabaseError(t)
      PROVE  Attentive'
  BY <1>1, <1>6, TaskAttentive, FaultsGrow
<1>7. ASSUME NEW i \in DOMAIN queue, NotBeforePasses(i)
      PROVE  Attentive'
  <2>1. queue \in Seq(Row) /\ queue[i] \in Row
    BY RowsTyped DEF Base, TypeOK
  <2>2. [queue[i] EXCEPT !.due = TRUE] \in Row
    BY <2>1 DEF Row
  <2>3. queue' = [queue EXCEPT ![i] = [queue[i] EXCEPT !.due = TRUE]]
    BY <1>7, <2>1 DEF NotBeforePasses, Row
  <2>4. /\ DOMAIN queue' = DOMAIN queue
        /\ \A j \in DOMAIN queue :
              queue'[j] = IF j = i THEN [queue[i] EXCEPT !.due = TRUE] ELSE queue[j]
    BY <2>1, <2>2, <2>3, UpdateOne
  <2>5. \A j \in DOMAIN queue : SameLease(j)
    BY <2>1, <2>4 DEF SameLease, Row
  <2>6. QED
    BY <1>2, <1>7, <2>4, <2>5 DEF NotBeforePasses
<1>8. ASSUME NEW i \in DOMAIN queue, LeaseExpires(i)
      PROVE  FALSE
  BY <1>1, <1>8 DEF LeaseExpires, Attentive
<1>9. ASSUME NEW w \in Workers, Start(w)
      PROVE  Attentive'
  BY <1>1, <1>9 DEF Start, Attentive, Attended, Base, TypeOK
<1>10. ASSUME NEW w \in Workers, Shutdown(w) \/ Exit(w) \/ Crash(w)
       PROVE  FALSE
  BY <1>1, <1>10, FaultsGrow DEF Exit, Attentive
<1>11. QED
  BY <1>3, <1>4, <1>5, <1>6, <1>7, <1>8, <1>9, <1>10 DEF Next

LEMMA QuietInvariant == Spec => []QuietUntilFault
<1>1. Init => QuietUntilFault
  BY EmptySeq DEF Init, QuietUntilFault, Attentive
<1>2. QED
  BY <1>1, QuietNext, BaseInvariant, ExecutionInvariant, PTL DEF Spec

(* No crash, shutdown, database error or overrun lease so far: a row is    *)
(* executed once at a time, exactly while it is in progress, and a handler *)
(* of it has committed, once, exactly if it is done or is being marked so. *)
ExactlyOnceUntilFault ==
  faults = 0 =>
     /\ \A t1, t2 \in tasks : t1.row = t2.row => t1 = t2
     /\ \A a, b \in applied : a.row = b.row => a = b
     /\ \A i \in DOMAIN queue :
           /\ queue[i].status = "in_progress" <=> \E t \in tasks : t.row = i
           /\ (\E a \in applied : a.row = i) <=>
                 \/ queue[i].status = "done"
                 \/ \E t \in tasks : t.row = i /\ t.pc = "finish"

(* The queue delivers exactly once until the first fault, whatever raises, *)
(* is retried and is enqueued again; the handlers' at-least-once contract  *)
(* is about faults only.                                                   *)
THEOREM ExactlyOnce == Spec => []ExactlyOnceUntilFault
<1>1. Base /\ Execution /\ QuietUntilFault => ExactlyOnceUntilFault
  <2> SUFFICES ASSUME Base, Execution, Attentive
               PROVE  ExactlyOnceUntilFault
    BY DEF QuietUntilFault, ExactlyOnceUntilFault
  <2>1. \A t \in tasks : HoldsLease(t) /\ t.row \in DOMAIN queue
    BY DEF Execution, LeasesHeld, Attentive, Base, TasksRefer
  <2>2. \A t1, t2 \in tasks : t1.row = t2.row => t1 = t2
    BY <2>1 DEF HoldsLease, Execution, AttemptsIdentify
  <2>3. \A a, b \in applied : a.row = b.row => a = b
    BY DEF Execution, OnceUnlessDisturbed, Attentive
  <2>4. \A i \in DOMAIN queue : queue[i].status = "in_progress" <=> \E t \in tasks : t.row = i
    BY <2>1 DEF HoldsLease, Owns, Attentive, Attended
  <2>5. ASSUME NEW i \in DOMAIN queue
        PROVE  (\E a \in applied : a.row = i) <=>
                  \/ queue[i].status = "done"
                  \/ \E t \in tasks : t.row = i /\ t.pc = "finish"
    <3>1. ASSUME NEW a \in applied, a.row = i
          PROVE  queue[i].status = "done" \/ \E t \in tasks : t.row = i /\ t.pc = "finish"
      BY <2>4, <3>1 DEF Execution, CommitsFollowed, Attentive
    <3>2. ASSUME NEW t \in tasks, t.row = i, t.pc = "finish"
          PROVE  \E a \in applied : a.row = i
      BY <3>2 DEF Execution, CommitsRecorded
    <3>3. queue[i].status = "done" => \E a \in applied : a.row = i
      BY DEF Execution, DoneCommitted
    <3>4. QED
      BY <3>1, <3>2, <3>3
  <2>6. QED
    BY <2>2, <2>3, <2>4, <2>5 DEF ExactlyOnceUntilFault
<1>2. QED
  BY <1>1, BaseInvariant, ExecutionInvariant, QuietInvariant, PTL

------------------------------------------------------------------------------
(* The table only grows, and what it says of a settled job stays.          *)

RowKept(i) ==
  /\ queue'[i].key = queue[i].key
  /\ queue[i].attempts <= queue'[i].attempts
  /\ queue[i].status \notin Live => queue'[i] = queue[i]

HistoryKept ==
  /\ DOMAIN queue \subseteq DOMAIN queue'
  /\ \A i \in DOMAIN queue : RowKept(i)

LEMMA SameRowKept ==
  ASSUME Base, NEW i \in DOMAIN queue, queue'[i] = queue[i]
  PROVE  RowKept(i)
<1>1. queue[i].attempts \in Nat
  BY RowsTyped DEF Base, TypeOK, Row
<1>2. QED
  BY <1>1 DEF RowKept

LEMMA EnqueueHistory ==
  ASSUME Base, NEW k \in Keys, NEW onConflict, Enqueue(k, onConflict)
  PROVE  HistoryKept
<1>1. PICK due \in BOOLEAN : queue' = Enqueued(queue, k, onConflict, due)
  BY Zenon DEF Enqueue
<1>2. /\ queue \in Seq(Row)
      /\ \A i \in DOMAIN queue : queue[i].by \in Workers <=> queue[i].status = "in_progress"
  BY DEF Base, TypeOK, LeaseConsistent
<1>3. /\ DOMAIN queue \subseteq DOMAIN queue'
      /\ \A i \in DOMAIN queue : /\ queue'[i].key = queue[i].key
                                 /\ queue'[i].attempts = queue[i].attempts
                                 /\ queue[i].status # "pending" => queue'[i] = queue[i]
  BY <1>1, <1>2, EnqueueKeepsLeases
<1>4. \A i \in DOMAIN queue : queue[i].attempts \in Nat
  BY RowsTyped DEF Base, TypeOK, Row
<1>5. QED
  BY <1>3, <1>4 DEF HistoryKept, RowKept, Live

LEMMA ClaimHistory ==
  ASSUME Base, NEW w \in Workers, NEW lane \in Lanes, Claim(w, lane)
  PROVE  HistoryKept
<1>1. PICK i \in Claimable(w, lane) : ClaimRow(w, i)
  BY DEF Claim
<1>2. /\ i \in DOMAIN queue /\ queue[i].status \in Live
      /\ queue \in Seq(Row) /\ queue[i] \in Row /\ queue[i].attempts \in Nat
  BY RowsTyped DEF Claimable, Live, Base, TypeOK, Row
<1>3. /\ DOMAIN queue' = DOMAIN queue
      /\ \A j \in DOMAIN queue : queue'[j] = IF j = i THEN ClaimedRow(w, i) ELSE queue[j]
  BY <1>1, <1>2, ClaimEffect
<1>4. /\ ClaimedRow(w, i).key = queue[i].key
      /\ ClaimedRow(w, i).attempts = queue[i].attempts + 1
  BY <1>2 DEF ClaimedRow, Row
<1>5. RowKept(i)
  BY <1>2, <1>3, <1>4 DEF RowKept
<1>6. \A j \in DOMAIN queue : j # i => RowKept(j)
  BY <1>3, SameRowKept
<1>7. QED
  BY <1>3, <1>5, <1>6 DEF HistoryKept

LEMMA FinalizeHistory ==
  ASSUME Base, NEW t \in tasks, Finalize(t)
  PROVE  HistoryKept
<1>1. \A i \in DOMAIN queue : queue[i].attempts \in Nat
  BY RowsTyped DEF Base, TypeOK, Row
<1>2. CASE HookReturns(t) \/ (~Owns(t) /\ (MarkDone(t) \/ MarkFailed(t) \/ Release(t)))
  <2>1. UNCHANGED queue
    BY <1>2 DEF HookReturns, MarkDone, MarkFailed, Release
  <2>2. QED
    BY <2>1, SameRowKept DEF HistoryKept
<1>3. CASE Owns(t) /\ (MarkDone(t) \/ MarkFailed(t) \/ Release(t))
  <2>1. queue[t.row].status \in Live
    BY <1>3 DEF Owns, Live
  <2>2. /\ DOMAIN queue \subseteq DOMAIN queue'
        /\ \A i \in DOMAIN queue :
              /\ queue'[i].key = queue[i].key /\ queue'[i].attempts = queue[i].attempts
              /\ i # t.row /\ queue[i].status # "pending" => queue'[i] = queue[i]
    BY <1>3, OwnerWrites
  <2>3. QED
    BY <1>1, <2>1, <2>2 DEF HistoryKept, RowKept, Live
<1>4. QED
  BY <1>2, <1>3 DEF Finalize

LEMMA ClockHistory ==
  ASSUME Base, NEW i \in DOMAIN queue, NotBeforePasses(i) \/ LeaseExpires(i)
  PROVE  HistoryKept
<1>1. queue \in Seq(Row) /\ queue[i] \in Row
  BY RowsTyped DEF Base, TypeOK
<1>2. PICK v \in {[queue[i] EXCEPT !.due = TRUE], [queue[i] EXCEPT !.expired = TRUE]} :
         queue' = [queue EXCEPT ![i] = v]
  BY DEF NotBeforePasses, LeaseExpires
<1>3. v \in Row /\ v.key = queue[i].key /\ v.attempts = queue[i].attempts
  BY <1>1 DEF Row
<1>4. queue[i].status \in Live /\ queue[i].attempts \in Nat
  BY <1>1 DEF NotBeforePasses, LeaseExpires, Live, Row
<1>5. /\ DOMAIN queue' = DOMAIN queue
      /\ \A j \in DOMAIN queue : queue'[j] = IF j = i THEN v ELSE queue[j]
  BY <1>1, <1>2, <1>3, UpdateOne
<1>6. \A j \in DOMAIN queue : RowKept(j)
  BY <1>3, <1>4, <1>5, SameRowKept DEF RowKept
<1>7. QED
  BY <1>5, <1>6 DEF HistoryKept

(* The queue and its workers delete no row and give none another key, they *)
(* uncount no attempt, and never write a job again that is done or failed: *)
(* no stale finalizer, no re-enqueue and no late clock does.  (Old settled *)
(* rows are deleted by the daily maintenance, which is not part of Next.)  *)
THEOREM HistoryStays == Spec => [][HistoryKept]_queue
<1>1. ASSUME Base, [Next]_wqVars
      PROVE  [HistoryKept]_queue
  <2>1. CASE \E t \in tasks : Handler(t) \/ DatabaseError(t)
    BY <2>1 DEF Handler, HandlerCommits, HandlerRaisesTransient, HandlerRaises, DatabaseError
  <2>2. CASE \E w \in Workers : Start(w) \/ Shutdown(w) \/ Exit(w) \/ Crash(w)
    BY <2>2 DEF Start, Shutdown, Exit, Crash
  <2>3. CASE UNCHANGED wqVars
    BY <2>3 DEF wqVars
  <2>4. QED
    BY <1>1, <2>1, <2>2, <2>3, EnqueueHistory, ClaimHistory, FinalizeHistory, ClockHistory DEF Next
<1>2. QED
  BY <1>1, BaseInvariant, PTL DEF Spec

------------------------------------------------------------------------------
(* The work queue implements JobLease: every step of the table and the     *)
(* workers is a step of the abstract leases or leaves them alone.          *)

(* The refinement mapping of WorkQueue!Lease, for any table and tasks.     *)
JobsOf(q) == [i \in DOMAIN q |-> LeaseOf(q[i])]
WorkingOf(ts) == {<<t.row, t.by>> : t \in ts}

------------------------------------------------------------------------------
(* What the operations on the table do to the jobs.                        *)

LEMMA LeaseOfStatus ==
  ASSUME NEW row \in Row
  PROVE  /\ row.status = "pending" => LeaseOf(row).phase = "waiting"
         /\ row.status = "in_progress" => LeaseOf(row).phase = "held"
         /\ row.status \in {"done", "failed"} => LeaseOf(row).phase = "settled"
         /\ LeaseOf(row).holder = row.by
         /\ LeaseOf(row) = [phase |-> LeaseOf(row).phase, holder |-> row.by]
BY DEF LeaseOf

LEMMA JobsUpdate ==
  ASSUME NEW q, NEW r, NEW i \in DOMAIN q, NEW v, DOMAIN r = DOMAIN q,
         \A j \in DOMAIN q : r[j] = IF j = i THEN v ELSE q[j]
  PROVE  JobsOf(r) = [JobsOf(q) EXCEPT ![i] = LeaseOf(v)]
BY DEF JobsOf

LEMMA JobsSame ==
  ASSUME NEW q, NEW r, DOMAIN r = DOMAIN q,
         \A j \in DOMAIN q : LeaseOf(r[j]) = LeaseOf(q[j])
  PROVE  JobsOf(r) = JobsOf(q)
BY DEF JobsOf

LEMMA JobsAppend ==
  ASSUME NEW q \in Seq(Row), NEW k \in Keys, NEW due \in BOOLEAN
  PROVE  JobsOf(Append(q, NewRow(k, due))) = Append(JobsOf(q), Lease!Waiting)
<1> DEFINE row == NewRow(k, due)
           Job == {LeaseOf(q[i]) : i \in DOMAIN q} \union {Lease!Waiting}
<1>1. row \in Row
  BY DEF NewRow, Row, Status
<1>2. LeaseOf(row) = Lease!Waiting
  BY DEF NewRow, LeaseOf, Lease!Waiting
<1> HIDE DEF row
<1>3. /\ DOMAIN q = 1..Len(q) /\ Len(q) \in Nat
      /\ DOMAIN Append(q, row) = 1..Len(q) + 1
      /\ \A j \in 1..Len(q) + 1 : Append(q, row)[j] = IF j <= Len(q) THEN q[j] ELSE row
  BY <1>1, LenProperties, AppendProperties
<1>4. JobsOf(q) \in Seq(Job) /\ Len(JobsOf(q)) = Len(q) /\ Lease!Waiting \in Job
  <2>1. JobsOf(q) \in [1..Len(q) -> Job]
    BY <1>3 DEF JobsOf
  <2>2. JobsOf(q) \in Seq(Job) /\ DOMAIN JobsOf(q) = 1..Len(q)
    BY <1>3, <2>1, SeqDef
  <2>3. QED
    BY <1>3, <2>2, LenProperties
<1> HIDE DEF Job
<1>5. /\ Append(JobsOf(q), Lease!Waiting) \in Seq(Job)
      /\ Len(Append(JobsOf(q), Lease!Waiting)) = Len(q) + 1
      /\ \A j \in 1..Len(q) + 1 : Append(JobsOf(q), Lease!Waiting)[j]
                                    = IF j <= Len(q) THEN JobsOf(q)[j] ELSE Lease!Waiting
  BY <1>4, AppendProperties
<1>6. Append(JobsOf(q), Lease!Waiting)
        = [j \in 1..Len(q) + 1 |-> Append(JobsOf(q), Lease!Waiting)[j]]
  BY <1>5, LenProperties, SeqDef
<1>7. \A j \in 1..Len(q) + 1 :
         LeaseOf(Append(q, row)[j]) = Append(JobsOf(q), Lease!Waiting)[j]
  BY <1>2, <1>3, <1>5 DEF JobsOf
<1>8. QED
  BY <1>3, <1>6, <1>7 DEF JobsOf, row

LEMMA JobsEnqueued ==
  ASSUME NEW q \in Seq(Row), NEW k \in Keys, NEW onConflict, NEW due \in BOOLEAN,
         NEW r, r = Enqueued(q, k, onConflict, due)
  PROVE  JobsOf(r) = JobsOf(q) \/ JobsOf(r) = Append(JobsOf(q), Lease!Waiting)
<1>1. CASE /\ DOMAIN r = DOMAIN q
           /\ \A j \in DOMAIN q :
                 \/ r[j] = q[j]
                 \/ q[j].status = "pending" /\ r[j] = [q[j] EXCEPT !.due = due]
  <2>1. \A j \in DOMAIN q : q[j] \in Row
    BY LenProperties, ElementOfSeq
  <2>2. \A j \in DOMAIN q : LeaseOf(r[j]) = LeaseOf(q[j])
    BY <1>1, <2>1 DEF LeaseOf, Row
  <2>3. QED
    BY <1>1, <2>2, JobsSame
<1>2. CASE r = Append(q, NewRow(k, due))
  BY <1>2, JobsAppend
<1>3. QED
  BY <1>1, <1>2, EnqueuedEffect

------------------------------------------------------------------------------
(* What a task's move does to the set of pairs.                            *)

LEMMA WorkingMoves ==
  ASSUME Base, NEW t \in tasks, NEW pc, NEW follow,
         \/ tasks' \subseteq tasks
         \/ tasks' = (tasks \ {t}) \union {[t EXCEPT !.pc = pc]}
         \/ tasks' = (tasks \ {t}) \union {[t EXCEPT !.pc = pc, !.follow = follow]}
  PROVE  WorkingOf(tasks') \subseteq WorkingOf(tasks)
<1>1. t \in Task
  BY TaskTyped
<1>2. \A u \in tasks' : \E s \in tasks : u.row = s.row /\ u.by = s.by
  BY <1>1 DEF Task
<1>3. QED
  BY <1>2 DEF WorkingOf

------------------------------------------------------------------------------
(* The abstract steps, written with the mapping.                           *)

LEMMA AbstractStep ==
  ASSUME \/ /\ JobsOf(queue') = JobsOf(queue)
            /\ WorkingOf(tasks') \subseteq WorkingOf(tasks)
         \/ /\ JobsOf(queue') = Append(JobsOf(queue), Lease!Waiting)
            /\ WorkingOf(tasks') = WorkingOf(tasks)
         \/ \E w \in Workers, i \in DOMAIN queue :
               /\ JobsOf(queue)[i].phase # "settled" /\ JobsOf(queue)[i].holder # w
               /\ JobsOf(queue') = [JobsOf(queue) EXCEPT ![i] = Lease!HeldBy(w)]
               /\ WorkingOf(tasks') = WorkingOf(tasks) \union {<<i, w>>}
         \/ \E w \in Workers, i \in DOMAIN queue :
               /\ <<i, w>> \in WorkingOf(tasks) /\ JobsOf(queue)[i] = Lease!HeldBy(w)
               /\ \/ JobsOf(queue') = [JobsOf(queue) EXCEPT ![i] = Lease!Waiting]
                  \/ JobsOf(queue') = [JobsOf(queue) EXCEPT ![i] = Lease!Settled]
                  \/ JobsOf(queue') = Append([JobsOf(queue) EXCEPT ![i] = Lease!Settled],
                                             Lease!Waiting)
               /\ WorkingOf(tasks') \subseteq WorkingOf(tasks)
  PROVE  Lease!LeaseNext
<1>1. /\ DOMAIN JobsOf(queue) = DOMAIN queue
      /\ [i \in DOMAIN queue |-> LeaseOf(queue[i])] = JobsOf(queue)
      /\ {<<t.row, t.by>> : t \in tasks} = WorkingOf(tasks)
      /\ [i \in DOMAIN queue' |-> LeaseOf(queue'[i])] = JobsOf(queue')
      /\ {<<t.row, t.by>> : t \in tasks'} = WorkingOf(tasks')
  BY DEF JobsOf, WorkingOf
<1>2. QED
  BY <1>1 DEF Lease!LeaseNext, Lease!Submit, Lease!Abandon, Lease!Take, Lease!HandBack, Lease!Settle

(* A task that owns its row is working on the job its worker holds.        *)
LEMMA OwnerHolds ==
  ASSUME Base, NEW t \in tasks, Owns(t)
  PROVE  /\ t.by \in Workers /\ t.row \in DOMAIN queue
         /\ <<t.row, t.by>> \in WorkingOf(tasks)
         /\ JobsOf(queue)[t.row] = Lease!HeldBy(t.by)
<1>1. t.by \in Workers /\ t.row \in DOMAIN queue
  BY TaskTyped
<1>2. JobsOf(queue)[t.row] = LeaseOf(queue[t.row])
  BY <1>1 DEF JobsOf
<1>3. LeaseOf(queue[t.row]) = Lease!HeldBy(t.by)
  BY DEF Owns, LeaseOf, Lease!HeldBy
<1>4. QED
  BY <1>1, <1>2, <1>3 DEF WorkingOf

------------------------------------------------------------------------------
(* One lemma per kind of step.                                             *)

LEMMA EnqueueSimulates ==
  ASSUME Base, NEW k \in Keys, NEW onConflict, Enqueue(k, onConflict)
  PROVE  Lease!LeaseNext
<1>1. PICK due \in BOOLEAN : queue' = Enqueued(queue, k, onConflict, due)
  BY Zenon DEF Enqueue
<1>2. JobsOf(queue') = JobsOf(queue) \/ JobsOf(queue') = Append(JobsOf(queue), Lease!Waiting)
  BY <1>1, JobsEnqueued DEF Base, TypeOK
<1>3. WorkingOf(tasks') = WorkingOf(tasks)
  BY DEF Enqueue
<1>4. QED
  BY <1>2, <1>3, AbstractStep

LEMMA ClaimSimulates ==
  ASSUME Base, NEW w \in Workers, NEW lane \in Lanes, Claim(w, lane)
  PROVE  Lease!LeaseNext
<1>1. PICK i \in Claimable(w, lane) : ClaimRow(w, i)
  BY DEF Claim
<1>2. /\ i \in DOMAIN queue /\ queue \in Seq(Row) /\ queue[i] \in Row
      /\ queue[i].status \in Live /\ queue[i].by # w
  <2>1. i \in DOMAIN queue /\ queue \in Seq(Row) /\ queue[i] \in Row
    BY RowsTyped DEF Claimable, Base, TypeOK
  <2>2. queue[i].status \in Live
    BY DEF Claimable, Live
  <2>3. queue[i].by \in Workers <=> queue[i].status = "in_progress"
    BY <2>1 DEF Base, LeaseConsistent
  <2>4. queue[i].by # w
    BY <2>3 DEF Claimable
  <2>5. QED
    BY <2>1, <2>2, <2>4
<1>3. JobsOf(queue)[i].phase # "settled" /\ JobsOf(queue)[i].holder # w
  BY <1>2, LeaseOfStatus DEF JobsOf, Live
<1>4. /\ DOMAIN queue' = DOMAIN queue
      /\ \A j \in DOMAIN queue : queue'[j] = IF j = i THEN ClaimedRow(w, i) ELSE queue[j]
      /\ tasks' = tasks \union {ClaimTask(w, i)}
  BY <1>1, <1>2, ClaimEffect
<1>5. LeaseOf(ClaimedRow(w, i)) = Lease!HeldBy(w)
  BY <1>2 DEF ClaimedRow, LeaseOf, Lease!HeldBy, Row
<1>6. JobsOf(queue') = [JobsOf(queue) EXCEPT ![i] = Lease!HeldBy(w)]
  BY <1>2, <1>4, <1>5, JobsUpdate
<1>7. WorkingOf(tasks') = WorkingOf(tasks) \union {<<i, w>>}
  <2>1. ClaimTask(w, i).row = i /\ ClaimTask(w, i).by = w
    BY DEF ClaimTask
  <2>2. QED
    BY <1>4, <2>1 DEF WorkingOf
<1>8. QED
  BY <1>2, <1>3, <1>6, <1>7, AbstractStep

LEMMA FinishSimulates ==
  ASSUME Base, NEW i \in DOMAIN queue, NEW status \in {"done", "failed"}
  PROVE  JobsOf(Finished(i, status)) = [JobsOf(queue) EXCEPT ![i] = Lease!Settled]
<1>1. queue \in Seq(Row) /\ queue[i] \in Row
  BY RowsTyped DEF Base, TypeOK
<1>2. /\ DOMAIN Finished(i, status) = DOMAIN queue
      /\ \A j \in DOMAIN queue : Finished(i, status)[j] =
            IF j = i THEN [queue[i] EXCEPT !.status = status, !.by = NoWorker] ELSE queue[j]
  <2>1. status \in Status
    BY DEF Status
  <2>2. QED
    BY <1>1, <2>1, FinishedEffect
<1>3. LeaseOf([queue[i] EXCEPT !.status = status, !.by = NoWorker]) = Lease!Settled
  BY <1>1 DEF LeaseOf, Lease!Settled, Row
<1>4. QED
  BY <1>2, <1>3, JobsUpdate

LEMMA ReleaseSimulates ==
  ASSUME Base, NEW i \in DOMAIN queue
  PROVE  JobsOf(Released(i)) = [JobsOf(queue) EXCEPT ![i] = Lease!Waiting]
<1> DEFINE row == [queue[i] EXCEPT !.status = "pending", !.by = NoWorker,
                                   !.due = FALSE, !.expired = FALSE]
<1>1. queue \in Seq(Row) /\ queue[i] \in Row
  BY RowsTyped DEF Base, TypeOK
<1>2. /\ DOMAIN Released(i) = DOMAIN queue
      /\ \A j \in DOMAIN queue : Released(i)[j] = IF j = i THEN row ELSE queue[j]
  BY <1>1, ReleasedEffect
<1>3. LeaseOf(row) = Lease!Waiting
  BY <1>1 DEF LeaseOf, Lease!Waiting, Row
<1>4. QED
  BY <1>2, <1>3, JobsUpdate

LEMMA FinalizeSimulates ==
  ASSUME Base, NEW t \in tasks, Finalize(t)
  PROVE  Lease!LeaseNext
<1>1. t \in Task /\ t.row \in DOMAIN queue /\ queue \in Seq(Row) /\ queue[t.row] \in Row
  BY TaskTyped, RowsTyped DEF Base, TypeOK
<1>2. WorkingOf(tasks') \subseteq WorkingOf(tasks)
  <2>1. \/ tasks' \subseteq tasks
        \/ tasks' = (tasks \ {t}) \union {[t EXCEPT !.pc = "giveback"]}
        \/ tasks' = (tasks \ {t}) \union {[t EXCEPT !.pc = "fail"]}
    BY DEF Finalize, HookReturns, MarkDone, MarkFailed, Release, Goto, End
  <2>2. QED
    BY <2>1, WorkingMoves
<1>3. CASE HookReturns(t) \/ (~Owns(t) /\ (MarkDone(t) \/ MarkFailed(t) \/ Release(t)))
  <2>1. UNCHANGED queue
    BY <1>3 DEF HookReturns, MarkDone, MarkFailed, Release
  <2>2. QED
    BY <1>2, <2>1, AbstractStep
<1>4. CASE Owns(t) /\ MarkDone(t)
  <2> DEFINE q == Finished(t.row, "done")
  <2>1. JobsOf(q) = [JobsOf(queue) EXCEPT ![t.row] = Lease!Settled] /\ q \in Seq(Row)
    BY <1>1, FinishSimulates, FinishedEffect DEF Status
  <2>2. \/ queue' = q
        \/ /\ t.follow \in Keys
           /\ \E due \in BOOLEAN : queue' = Enqueued(q, t.follow, "upsert_reset_not_before", due)
    BY <1>1, <1>4 DEF MarkDone, Task
  <2> HIDE DEF q
  <2>3. JobsOf(queue') = JobsOf(q) \/ JobsOf(queue') = Append(JobsOf(q), Lease!Waiting)
    BY <2>1, <2>2, JobsEnqueued
  <2>4. QED
    BY <1>2, <1>4, <2>1, <2>3, OwnerHolds, AbstractStep
<1>5. CASE Owns(t) /\ MarkFailed(t)
  <2>1. JobsOf(queue') = [JobsOf(queue) EXCEPT ![t.row] = Lease!Settled]
    BY <1>1, <1>5, FinishSimulates DEF MarkFailed
  <2>2. QED
    BY <1>2, <1>5, <2>1, OwnerHolds, AbstractStep
<1>6. CASE Owns(t) /\ Release(t)
  BY <1>1, <1>2, <1>6, ReleaseSimulates, OwnerHolds, AbstractStep DEF Release
<1>7. QED
  BY <1>3, <1>4, <1>5, <1>6 DEF Finalize

(* Handlers, errors, the clocks and the processes do not change who holds  *)
(* which job.                                                              *)
LEMMA OtherSimulates ==
  ASSUME Base,
         \/ \E t \in tasks : Handler(t) \/ DatabaseError(t)
         \/ \E i \in DOMAIN queue : NotBeforePasses(i) \/ LeaseExpires(i)
         \/ \E w \in Workers : Start(w) \/ Shutdown(w) \/ Exit(w) \/ Crash(w)
  PROVE  Lease!LeaseNext
<1>1. ASSUME NEW t \in tasks, Handler(t) \/ DatabaseError(t)
      PROVE  Lease!LeaseNext
  <2>1. UNCHANGED queue
    BY <1>1 DEF Handler, HandlerCommits, HandlerRaisesTransient, HandlerRaises, DatabaseError
  <2>2. \/ tasks' \subseteq tasks
        \/ \E pc \in TaskPc : tasks' = (tasks \ {t}) \union {[t EXCEPT !.pc = pc]}
        \/ \E follow : tasks' = (tasks \ {t}) \union {[t EXCEPT !.pc = "finish", !.follow = follow]}
    BY <1>1 DEF Handler, HandlerCommits, HandlerRaisesTransient, HandlerRaises, DatabaseError,
       Goto, End, TaskPc
  <2>3. WorkingOf(tasks') \subseteq WorkingOf(tasks)
    BY <2>2, WorkingMoves
  <2>4. QED
    BY <2>1, <2>3, AbstractStep
<1>2. ASSUME NEW i \in DOMAIN queue, NotBeforePasses(i) \/ LeaseExpires(i)
      PROVE  Lease!LeaseNext
  <2>1. queue \in Seq(Row) /\ queue[i] \in Row
    BY RowsTyped DEF Base, TypeOK
  <2>2. PICK v \in {[queue[i] EXCEPT !.due = TRUE], [queue[i] EXCEPT !.expired = TRUE]} :
           queue' = [queue EXCEPT ![i] = v]
    BY <1>2 DEF NotBeforePasses, LeaseExpires
  <2>3. v \in Row /\ LeaseOf(v) = LeaseOf(queue[i])
    BY <2>1 DEF Row, LeaseOf
  <2>4. JobsOf(queue') = JobsOf(queue)
    BY <2>1, <2>2, <2>3, UpdateOne, JobsSame
  <2>5. UNCHANGED tasks
    BY <1>2 DEF NotBeforePasses, LeaseExpires
  <2>6. QED
    BY <2>4, <2>5, AbstractStep
<1>3. ASSUME NEW w \in Workers, Start(w) \/ Shutdown(w) \/ Exit(w) \/ Crash(w)
      PROVE  Lease!LeaseNext
  <2>1. UNCHANGED queue /\ tasks' \subseteq tasks
    BY <1>3 DEF Start, Shutdown, Exit, Crash
  <2>2. WorkingOf(tasks') \subseteq WorkingOf(tasks)
    BY <2>1 DEF WorkingOf
  <2>3. QED
    BY <2>1, <2>2, AbstractStep
<1>4. QED
  BY <1>1, <1>2, <1>3

------------------------------------------------------------------------------
(* The queue implements JobLease for any number of workers, lanes, keys    *)
(* and rows: a job is held by one worker, only its holder, still at work   *)
(* on it, returns or settles it, and a settled job never comes back.       *)
THEOREM QueueImplementsLease == Spec => ImplementsLease
<1>1. Init => Lease!LeaseInit
  BY DEF Init, Lease!LeaseInit
<1>2. ASSUME Base, [Next]_wqVars
      PROVE  [Lease!LeaseNext]_Lease!leaseVars
  <2>1. CASE UNCHANGED wqVars
    BY <2>1 DEF wqVars, Lease!leaseVars
  <2>2. CASE \E k \in Keys, onConflict \in {"do_nothing", "upsert_reset_not_before"} :
                Enqueue(k, onConflict)
    BY <1>2, <2>2, EnqueueSimulates
  <2>3. CASE \E w \in Workers, lane \in Lanes : Claim(w, lane)
    BY <1>2, <2>3, ClaimSimulates
  <2>4. CASE \E t \in tasks : Finalize(t)
    BY <1>2, <2>4, FinalizeSimulates
  <2>5. CASE \/ \E t \in tasks : Handler(t) \/ DatabaseError(t)
             \/ \E i \in DOMAIN queue : NotBeforePasses(i) \/ LeaseExpires(i)
             \/ \E w \in Workers : Start(w) \/ Shutdown(w) \/ Exit(w) \/ Crash(w)
    BY <1>2, <2>5, OtherSimulates
  <2>6. QED
    BY <1>2, <2>1, <2>2, <2>3, <2>4, <2>5 DEF Next
<1>3. QED
  BY <1>1, <1>2, BaseInvariant, PTL DEF Spec, ImplementsLease, Lease!LeaseSpec
==============================================================================
