----------------------------- MODULE CoverLetter -----------------------------
(***************************************************************************)
(* Cover-letter generation of one application: the POST endpoint that      *)
(* records the request, the worker's generate-cover-letter handler with    *)
(* its model call, the terminal-failure hook and the reconcile cron.       *)
(*                                                                         *)
(* The module composes the application row with the work queue: every      *)
(* action is an action of WorkQueue together with what it does to the row, *)
(* or a step on the row alone.                                             *)
(***************************************************************************)
EXTENDS WorkQueue

CONSTANTS
    LetterKey,      \* cover_letter_dedupe_key(application_id)
    MaxRequests     \* bound: POSTs that pass the in-flight check

(* The rows of the queue that matter here are those of this application.   *)
ASSUME LetterAssumption ==
    /\ Keys = {LetterKey}
    /\ TypeOf[LetterKey] \in Handled
    /\ MaxRequests \in Nat

VARIABLES
    letter,     \* the application's generation_status and cover letter
    posts,      \* POST requests between their check and their commit
    issued,     \* POST requests that passed the check, numbered 1, 2, ...
    calls,      \* model calls of running handlers
    orphan      \* the reconcile cron has selected the letter

letterVars == <<letter, posts, issued, calls, orphan>>
clVars == <<queue, tasks, workers, applied, disturbed, faults, letter, posts, issued, calls, orphan>>

GenerationStatus == {"none", "pending", "generating", "ready", "failed"}
InFlightStatus == {"pending", "generating"}
Requestable == GenerationStatus \ InFlightStatus

(* "asked" is the newest committed request, "tried" the newest request     *)
(* issued when a handler last looked at the application, and "written" the *)
(* newest one issued when the model call behind the stored letter began.   *)
(* "quiet": for five minutes neither the application nor a finished row of *)
(* its key was touched, the two time bounds of the reconcile query.        *)
Letter == [status: GenerationStatus, asked: Nat, tried: Nat, written: Nat, quiet: BOOLEAN]
Call == [row: Nat, attempt: Nat, asked: Nat]

CoverLetterTypeOK ==
    /\ TypeOK
    /\ letter \in Letter
    /\ posts \subseteq Nat
    /\ issued \in Nat
    /\ calls \subseteq Call
    /\ orphan \in BOOLEAN

CallsOf(t) == {c \in calls : c.row = t.row /\ c.attempt = t.attempt}

(* The model calls that go on after a step of the queue: those whose task  *)
(* is still in its handler.                                                *)
Ongoing ==
    {c \in calls : \E t \in tasks' : t.row = c.row /\ t.attempt = c.attempt /\ t.pc = "run"}

Become(status) == letter' = [letter EXCEPT !.status = status, !.quiet = FALSE]

------------------------------------------------------------------------------
(* POST /applications/{id}/cover-letter: flip_to_pending_and_enqueue reads *)
(* the application, checks it, and commits the new status and the queue    *)
(* row together.  It takes no lock between the read and the commit.        *)

CheckRequestAlways ==
    /\ issued < MaxRequests
    /\ issued' = issued + 1
    /\ posts' = posts \union {issued + 1}
    /\ UNCHANGED <<letter, calls, orphan, wqVars>>

CheckRequest ==
    /\ issued < MaxRequests
    /\ letter.status \in Requestable
    /\ issued' = issued + 1
    /\ posts' = posts \union {issued + 1}
    /\ UNCHANGED <<letter, calls, orphan, wqVars>>

CommitRequest(n) ==
    /\ Enqueue(LetterKey, "do_nothing")
    /\ posts' = posts \ {n}
    /\ letter' = [letter EXCEPT !.status = "pending", !.quiet = FALSE,
                                !.asked = IF n > @ THEN n ELSE @]
    /\ UNCHANGED <<issued, calls, orphan>>

(* /internal/cron/generation-reconcile: a pending letter without a live or *)
(* recently finished row gets a new row.  The two statements of the cron   *)
(* see two states of the database.                                         *)
FiveMinutesPass ==
    /\ letter.status = "pending"
    /\ ~letter.quiet
    /\ letter' = [letter EXCEPT !.quiet = TRUE]
    /\ UNCHANGED <<posts, issued, calls, orphan, wqVars>>

NoLiveRow == ~ \E i \in DOMAIN queue : queue[i].key = LetterKey /\ queue[i].status \in Live

SelectGenerating ==
    /\ letter.status = "generating"
    /\ NoLiveRow
    /\ orphan' = TRUE
    /\ UNCHANGED <<letter, posts, issued, calls, wqVars>>

SelectOrphan ==
    /\ letter.status = "pending"
    /\ letter.quiet
    /\ NoLiveRow
    /\ orphan' = TRUE
    /\ UNCHANGED <<letter, posts, issued, calls, wqVars>>

EnqueueOrphan ==
    /\ orphan
    /\ Enqueue(LetterKey, "do_nothing")
    /\ orphan' = FALSE
    /\ UNCHANGED <<letter, posts, issued, calls>>

------------------------------------------------------------------------------
(* GenerateCoverLetterHandler.__call__                                     *)

BeginCallUnguarded(t) ==
    /\ t.pc = "run"
    /\ CallsOf(t) = {}
    /\ letter' = [letter EXCEPT !.status = "generating", !.tried = issued, !.quiet = FALSE]
    /\ calls' = calls \union {[row |-> t.row, attempt |-> t.attempt, asked |-> issued]}
    /\ UNCHANGED <<posts, issued, orphan, wqVars>>

(* The guarded UPDATE to "generating" commits in a session of its own,     *)
(* then the model is called with the profile as it is now.                 *)
BeginCall(t) ==
    /\ t.pc = "run"
    /\ CallsOf(t) = {}
    /\ letter.status \in InFlightStatus
    /\ letter' = [letter EXCEPT !.status = "generating", !.tried = issued, !.quiet = FALSE]
    /\ calls' = calls \union {[row |-> t.row, attempt |-> t.attempt, asked |-> issued]}
    /\ UNCHANGED <<posts, issued, orphan, wqVars>>

(* A ready letter is not generated again, and an UPDATE that matches no    *)
(* in-flight application ends the job as done.                             *)
SkipCall(t) ==
    /\ CallsOf(t) = {}
    /\ letter.status \notin InFlightStatus
    /\ HandlerCommits(t, NoKey)
    /\ letter' = [letter EXCEPT !.tried = issued]
    /\ UNCHANGED <<posts, issued, calls, orphan>>

(* Status, letter and document are written by the handler's session, which *)
(* _handle_one commits.                                                    *)
CallSucceeds(t) ==
    \E c \in CallsOf(t) :
        /\ HandlerCommits(t, NoKey)
        /\ letter' = [letter EXCEPT !.status = "ready", !.written = c.asked, !.quiet = FALSE]
        /\ calls' = Ongoing
        /\ UNCHANGED <<posts, issued, orphan>>

(* HTTP 429: generating goes back to pending, then TransientError.         *)
RateLimited(t) ==
    /\ CallsOf(t) # {}
    /\ IF letter.status = "generating" THEN Become("pending") ELSE UNCHANGED letter
    /\ HandlerRaisesTransient(t)
    /\ calls' = Ongoing
    /\ UNCHANGED <<posts, issued, orphan>>

(* Any other error of the call: failed, whatever the status was.           *)
CallFails(t) ==
    /\ CallsOf(t) # {}
    /\ Become("failed")
    /\ HandlerRaises(t)
    /\ calls' = Ongoing
    /\ UNCHANGED <<posts, issued, orphan>>

(* A database error in one of the handler's transactions.                  *)
HandlerBreaks(t) ==
    /\ HandlerRaises(t)
    /\ letter' = IF CallsOf(t) = {} THEN [letter EXCEPT !.tried = issued] ELSE letter
    /\ calls' = Ongoing
    /\ UNCHANGED <<posts, issued, orphan>>

FailsPendingOnly(t) ==
    /\ HookReturns(t)
    /\ IF letter.status = "pending" THEN Become("failed") ELSE UNCHANGED letter
    /\ UNCHANGED <<posts, issued, calls, orphan>>

(* on_terminal_failure: an application still in flight has failed.         *)
TerminalFailure(t) ==
    /\ HookReturns(t)
    /\ IF letter.status \in InFlightStatus THEN Become("failed") ELSE UNCHANGED letter
    /\ UNCHANGED <<posts, issued, calls, orphan>>

------------------------------------------------------------------------------
(* The steps of the queue that do not touch the application.  A row that   *)
(* is settled counts as recent activity for the reconcile query.           *)

Settle(t) ==
    /\ MarkDone(t) \/ MarkFailed(t)
    /\ letter' = [letter EXCEPT !.quiet = @ /\ ~Owns(t)]
    /\ UNCHANGED <<posts, issued, calls, orphan>>

Aside == calls' = Ongoing /\ UNCHANGED <<letter, posts, issued, orphan>>

QueueStep ==
    /\ \/ \E w \in Workers, lane \in Lanes : Claim(w, lane)
       \/ \E t \in tasks : Release(t) \/ DatabaseError(t)
       \/ \E i \in DOMAIN queue : NotBeforePasses(i) \/ LeaseExpires(i)
       \/ \E w \in Workers : Start(w) \/ Shutdown(w) \/ Exit(w) \/ Crash(w)
    /\ Aside

CoverLetterInit ==
    /\ Init
    /\ letter = [status |-> "none", asked |-> 0, tried |-> 0, written |-> 0, quiet |-> FALSE]
    /\ posts = {}
    /\ issued = 0
    /\ calls = {}
    /\ orphan = FALSE

Generate(t) ==
    \/ BeginCall(t) \/ SkipCall(t) \/ CallSucceeds(t)
    \/ RateLimited(t) \/ CallFails(t) \/ HandlerBreaks(t)
Conclude(t) == TerminalFailure(t) \/ Settle(t) \/ (Release(t) /\ Aside)

CoverLetterNext ==
    \/ CheckRequest
    \/ \E n \in posts : CommitRequest(n)
    \/ FiveMinutesPass
    \/ SelectOrphan
    \/ EnqueueOrphan
    \/ \E t \in tasks : Generate(t) \/ TerminalFailure(t) \/ Settle(t)
    \/ QueueStep

CoverLetterSpec == CoverLetterInit /\ [][CoverLetterNext]_clVars

(* As in WorkQueue, with the periodic cron and its clock.  Nothing obliges *)
(* a user to ask, nor a POST to reach its commit.                          *)
CoverLetterFairness ==
    /\ \A w \in Workers, lane \in Lanes : WF_clVars(Claim(w, lane) /\ Aside)
    /\ \A i \in 1..MaxRows :
          /\ WF_clVars(i \in DOMAIN queue /\ NotBeforePasses(i) /\ Aside)
          /\ WF_clVars(i \in DOMAIN queue /\ ~Attended(i) /\ LeaseExpires(i) /\ Aside)
          /\ WF_clVars(\E t \in TasksOf(i) : Generate(t))
          /\ WF_clVars(\E t \in TasksOf(i) : Conclude(t))
    /\ \A w \in Workers : WF_clVars(Start(w) /\ Aside) /\ WF_clVars(Exit(w) /\ Aside)
    /\ WF_clVars(FiveMinutesPass)
    /\ WF_clVars(SelectOrphan) /\ WF_clVars(EnqueueOrphan)

FairCoverLetterSpec == CoverLetterSpec /\ CoverLetterFairness

------------------------------------------------------------------------------
(* Properties                                                              *)

Undisturbed == disturbed = {}

(* A letter shown as ready was written by a model call that started after  *)
(* the newest committed request, so it used the profile the user asked     *)
(* with, unless a lease ran out or a finalizer met a database error.       *)
ReadyAnswersNewest == letter.status = "ready" /\ Undisturbed => letter.written >= letter.asked

(* Once ready or failed, only a new request changes the status, or, after  *)
(* a row was disturbed, the answer of a model call that was still open.    *)
(* No replay, no terminal hook and no new call overwrites the outcome.     *)
OutcomeStands ==
    [][letter.status \in Requestable /\ letter'.status # letter.status
         => \/ letter'.status = "pending"
            \/ disturbed # {} /\ calls \ calls' # {}]_clVars

(* While a letter is being generated a live row carries it on, unless a    *)
(* row was disturbed.  It matters because the reconcile cron looks only at *)
(* pending letters and the POST refuses one that is being generated.       *)
Orphaned == letter.status = "generating" /\ NoLiveRow
GeneratingHasRow == Orphaned => ~Undisturbed

(* A requested letter ends ready or failed: its row, or the row the        *)
(* reconcile cron adds when the request was deduplicated against a row     *)
(* about to finish, brings it there.  The one state out of which nothing   *)
(* leads is the orphan above.                                              *)
GenerationEnds ==
    letter.status \in InFlightStatus ~> letter.status \in {"ready", "failed"} \/ Orphaned

(* No request is reported failed before a handler looked at the letter,    *)
(* unless crashes and overrun leases used up the attempts of its row.      *)
FailedWasTried == letter.status = "failed" => letter.tried > 0 \/ faults >= MaxAttempts
==============================================================================
