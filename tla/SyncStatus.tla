----------------------------- MODULE SyncStatus -----------------------------
(***************************************************************************)
(* When a profile's sync is over: requests queue fetch-slug rows           *)
(* (prune_and_enqueue), the workers move the work from fetching to         *)
(* matching, and GET /api/sync/status counts it in one query per stage,    *)
(* closes the sync when it counted nothing, and tells the tab, which       *)
(* stops asking (useSyncControl).                                          *)
(*                                                                         *)
(* A row of work_queue is here while it is pending or in progress; the     *)
(* modules of the queue and of the batches have its inside, and prove what *)
(* is taken from them here: batches move under a live row, and a row comes *)
(* to life when a fetch or a due batch asks for it.                        *)
(***************************************************************************)
EXTENDS Integers, FiniteSets

CONSTANTS
    Boards,     \* boards of the companies the profile follows
    MaxMatches  \* bound: match rows at a time

ASSUME SyncAssumption == MaxMatches \in Nat

VARIABLES
    open,       \* last_sync_completed_at is older than last_sync_requested_at
    fetches,    \* boards with a live fetch-slug row
    matches,    \* live match rows of the profile's applications
    batch_row,  \* a live batch-match row of the profile
    batch,      \* the status of the profile's active LLMMatchBatch, if any
    poll,       \* the GET /api/sync/status the tab waits for
    ghost,      \* one it no longer waits for
    tab         \* when the tab asks: at once, when its timer is up, or not

syncVars == <<open, fetches, matches, batch_row, batch, poll, ghost, tab>>
work == <<fetches, matches, batch_row, batch>>

States == {"idle", "syncing", "matching"}
Stages == {"fetches", "matches", "batch_row", "batch"}
Poll == [pc: Stages \union {"none", "answer"}, open: BOOLEAN, state: States, overtaken: BOOLEAN]
NoPoll == [pc |-> "none", open |-> FALSE, state |-> "idle", overtaken |-> FALSE]

SyncTypeOK ==
    /\ {open, batch_row} \subseteq BOOLEAN
    /\ fetches \subseteq Boards
    /\ matches \in 0 .. MaxMatches
    /\ batch \in {"none", "building", "submitted", "importing"}
    /\ {poll, ghost} \subseteq Poll
    /\ tab \in {"asks", "waits", "done", "lost"}

Drained == fetches = {} /\ matches = 0 /\ ~batch_row /\ batch = "none"

(* Work queued while a poll counts, by somebody else.                      *)
Outrun(p) == [p EXCEPT !.overtaken = p.pc # "none"]

------------------------------------------------------------------------------
(* What queues work                                                        *)

(* prune_and_enqueue and sync_active_profiles: the stale boards without a  *)
(* live row are queued; when that leaves none the sync is over at once.    *)
Request ==
    /\ \E stale \in SUBSET Boards :
           /\ fetches' = fetches \union stale
           /\ open' = (stale \ fetches # {})
    /\ poll' = Outrun(poll) /\ ghost' = Outrun(ghost)
    /\ UNCHANGED <<matches, batch_row, batch, tab>>

(* rematch_profile queues scored applications again. *)
Rematch ==
    /\ matches < MaxMatches
    /\ matches' = matches + 1
    /\ poll' = Outrun(poll) /\ ghost' = Outrun(ghost)
    /\ UNCHANGED <<open, fetches, batch_row, batch, tab>>

(* enqueue_due_batch_polls: a batch that lost its row gets one at its      *)
(* next_poll_at, which only a submitted batch has.                         *)
RequeuesDue ==
    /\ batch = "submitted" /\ ~batch_row
    /\ batch_row' = TRUE
    /\ UNCHANGED <<open, fetches, matches, batch, tab>>

CronRequeues == RequeuesDue /\ poll' = Outrun(poll) /\ ghost' = Outrun(ghost)

------------------------------------------------------------------------------
(* The workers                                                             *)

(* fetch_one_slug commits the work it leaves; its row is still live. *)
FetchLeaves ==
    /\ fetches # {}
    /\ \/ matches < MaxMatches /\ matches' = matches + 1 /\ UNCHANGED batch_row
       \/ batch_row' = TRUE /\ UNCHANGED matches
    /\ UNCHANGED <<open, fetches, batch, poll, ghost, tab>>

FetchEnds(b) ==
    /\ b \in fetches
    /\ fetches' = fetches \ {b}
    /\ UNCHANGED <<open, matches, batch_row, batch, poll, ghost, tab>>

MatchEnds ==
    /\ matches > 0
    /\ matches' = matches - 1
    /\ UNCHANGED <<open, fetches, batch_row, batch, poll, ghost, tab>>

(* A tick of run_batch_match_tick.  The row that follows it comes to life  *)
(* in the transaction that ends the tick's own.                            *)
BatchMoves(from, to) ==
    /\ batch_row /\ batch = from
    /\ batch' = to
    /\ UNCHANGED <<open, fetches, matches, batch_row, poll, ghost, tab>>

BatchBuilds == BatchMoves("none", "building")
BatchSubmits == BatchMoves("building", "submitted")
BatchReady == BatchMoves("submitted", "importing")

(* The results are imported; or _fail_batch, of a batch that is stale in   *)
(* building or that the provider does not take, answer or give out.  What  *)
(* has no result waits for a batch again.                                  *)
BatchEnds == batch # "none" /\ BatchMoves(batch, "none")

(* The last tick ends, or one fails for good and leaves its batch. *)
BatchRowEnds ==
    /\ batch_row
    /\ batch_row' = FALSE
    /\ UNCHANGED <<open, fetches, matches, batch, poll, ghost, tab>>

------------------------------------------------------------------------------
(* GET /api/sync/status                                                    *)

Polling == tab \in {"asks", "waits"}

(* get_current_profile loads the profile. *)
PollBegins ==
    /\ poll.pc = "none" /\ Polling
    /\ poll' = [NoPoll EXCEPT !.pc = "fetches", !.open = open]
    /\ UNCHANGED <<open, work, ghost, tab>>

(* _requeue_due_batch_matches *)
PollRequeues ==
    /\ RequeuesDue
    /\ \/ poll.pc = "fetches" /\ ghost' = Outrun(ghost) /\ UNCHANGED poll
       \/ ghost.pc = "fetches" /\ poll' = Outrun(poll) /\ UNCHANGED ghost

Counted(p, next, some, state) ==
    [p EXCEPT !.pc = next, !.state = IF @ = "idle" /\ some THEN state ELSE @]

(* The batch's row counted before the fetches that may queue it. *)
CountBatchFirst(p) ==
    CASE p.pc = "fetches" -> Counted(p, "matches", batch_row, "matching")
      [] p.pc = "matches" -> Counted(p, "batch_row", matches > 0, "matching")
      [] p.pc = "batch_row" -> Counted(p, "batch", fetches # {}, "syncing")
      [] p.pc = "batch" -> Counted(p, "answer", batch # "none", "matching")

Count(p) ==
    CASE p.pc = "fetches" -> Counted(p, "matches", fetches # {}, "syncing")
      [] p.pc = "matches" -> Counted(p, "batch_row", matches > 0, "matching")
      [] p.pc = "batch_row" -> Counted(p, "batch", batch_row, "matching")
      [] p.pc = "batch" -> Counted(p, "answer", batch # "none", "matching")

PollCounts ==
    /\ poll.pc \in Stages
    /\ poll' = Count(poll)
    /\ UNCHANGED <<open, work, ghost, tab>>


(* last_sync_completed_at is written now, whatever was requested since the *)
(* profile was loaded.                                                     *)
Closes(p) == open' = (open /\ ~(p.state = "idle" /\ p.open))

PollAnswers ==
    /\ poll.pc = "answer"
    /\ Closes(poll)
    /\ tab' = IF poll.state = "idle" THEN "done" ELSE "waits"
    /\ poll' = NoPoll
    /\ UNCHANGED <<work, ghost>>

(* An answer that is lost or an error: the tab does not ask again. *)
PollFails ==
    /\ poll.pc # "none"
    /\ tab' = "lost"
    /\ poll' = NoPoll
    /\ UNCHANGED <<open, work, ghost>>

(* The page is opened, or the user's request was answered (setPollKick):   *)
(* the tab asks anew and drops the answer it waited for.  That poll runs   *)
(* on, and is kept here while it may still close the sync.  Bound: one.    *)
MayClose(p) == p.pc # "none" /\ p.open /\ p.state = "idle"

Kick ==
    /\ tab' = "asks"
    /\ poll' = NoPoll
    /\ IF MayClose(poll) THEN ghost = NoPoll /\ ghost' = poll ELSE UNCHANGED ghost
    /\ UNCHANGED <<open, work>>

GhostCounts ==
    /\ ghost.pc \in Stages
    /\ ghost' = IF MayClose(Count(ghost)) THEN Count(ghost) ELSE NoPoll
    /\ UNCHANGED <<open, work, poll, tab>>

GhostAnswers ==
    /\ ghost.pc = "answer"
    /\ Closes(ghost)
    /\ ghost' = NoPoll
    /\ UNCHANGED <<work, poll, tab>>

GhostFails ==
    /\ ghost.pc # "none"
    /\ ghost' = NoPoll
    /\ UNCHANGED <<open, work, poll, tab>>

------------------------------------------------------------------------------
SyncInit ==
    /\ open = FALSE /\ fetches = {} /\ matches = 0
    /\ batch_row = FALSE /\ batch = "none"
    /\ poll = NoPoll /\ ghost = NoPoll
    /\ tab = "asks"

SyncNext ==
    \/ Request \/ Rematch \/ CronRequeues
    \/ FetchLeaves \/ MatchEnds
    \/ BatchBuilds \/ BatchSubmits \/ BatchReady \/ BatchEnds \/ BatchRowEnds
    \/ \E b \in Boards : FetchEnds(b)
    \/ PollBegins \/ PollRequeues \/ PollCounts \/ PollAnswers \/ PollFails
    \/ Kick \/ GhostCounts \/ GhostAnswers \/ GhostFails

SyncSpec == SyncInit /\ [][SyncNext]_syncVars

(* What the provider says of a submitted batch.                            *)
ProviderAnswers == batch = "submitted" /\ (BatchReady \/ BatchEnds)

(* The workers end their rows, a tab that polls goes on, a submitted batch *)
(* that lost its row is due at some poll, and the provider is done with it *)
(* at some tick.  Nothing brings back a row to a batch that is being built *)
(* or imported.                                                            *)
SyncFairness ==
    /\ \A b \in Boards : WF_syncVars(FetchEnds(b))
    /\ WF_syncVars(MatchEnds) /\ WF_syncVars(BatchRowEnds)
    /\ SF_syncVars(PollRequeues) /\ SF_syncVars(ProviderAnswers)
    /\ WF_syncVars(PollBegins) /\ WF_syncVars(PollCounts) /\ WF_syncVars(PollAnswers)

FairSyncSpec == SyncSpec /\ SyncFairness

------------------------------------------------------------------------------
(* A poll that answers "idle", which closes the sync and stops the tab,    *)
(* answers when none of the profile's work is left, although it counted    *)
(* the stages one after the other while the work moved through them; so    *)
(* does one that runs on beside the next.  Unless somebody else queued     *)
(* work since it began.                                                    *)
SyncClosesDrained ==
    [][/\ PollAnswers /\ poll.state = "idle" => poll.overtaken \/ Drained
       /\ GhostAnswers => ghost.overtaken \/ Drained]_syncVars

(* The batch whose row failed for good while it was built or imported:     *)
(* without a next_poll_at only the row of a later fetch finds it.          *)
Stranded == batch \in {"building", "importing"} /\ ~batch_row

=============================================================================
