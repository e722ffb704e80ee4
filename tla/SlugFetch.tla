------------------------------ MODULE SlugFetch ------------------------------
(***************************************************************************)
(* fetch_one_slug (app/scheduler/tasks.py) for one provider slug: runs of  *)
(* the fetch-slug job read the board, upsert its postings, create the      *)
(* applications of the interested profiles and record the outcome in       *)
(* slug_fetches, beside the cron that enqueues a stale slug, boards that   *)
(* change, profiles that follow and runs that overlap or crash.            *)
(*                                                                         *)
(* The queue is what JobLease promises of it: one live row, held by one    *)
(* run at a time, and only the holder settles it or hands it back.         *)
(***************************************************************************)
EXTENDS JobSources, FiniteSets

CONSTANTS
    Provider,           \* a key of SOURCES
    Postings,           \* postings the board lists at some time
    Profiles,
    Runs,               \* executions of the job that may coexist
    NoRun,              \* the holder of a row no execution holds
    PageLimit,          \* PAGE_LIMIT
    InvalidThreshold,   \* INVALID_THRESHOLD
    MaxAttempts,        \* FetchSlugHandler.max_attempts
    MaxCrashes          \* bound: crashes of an execution

ASSUME SlugFetchAssumption ==
    /\ Provider \in SOURCES
    /\ NoRun \notin Runs
    /\ {PageLimit, InvalidThreshold} \subseteq Nat \ {0}
    /\ {MaxAttempts, MaxCrashes} \subseteq Nat

VARIABLES
    board,      \* the listed postings, newest first
    posted,     \* the postings ever listed
    recent,     \* posted_at >= since, for a run that began now
    aged,       \* postings that grew too old while the board was never fetched
    jobs,       \* postings stored in jobs
    followers,  \* profiles with search_active that follow the company
    apps,       \* applications: <<profile, posting>>
    slug,       \* the row of slug_fetches
    row,        \* the live row of the job, if any
    runs,       \* the executions of fetch_one_slug
    crashes,    \* crashes so far
    wanted,     \* <<profile, posting>>: listed while the profile followed
    hidden,     \* postings a complete response could not show: an odd body, or
                \* a posting that moved onto a page which was read before
    streak      \* 404 answers recorded since the last fetch, or any number
                \* when a counter was written over one that had changed

boardVars == <<board, posted, recent, aged>>
fetchVars == <<board, posted, recent, aged, jobs, followers, apps, slug, row, runs, crashes,
               wanted, hidden, streak>>

Offers == Profiles \X Postings

(* "none": no row yet; "never": attempted but never fetched; then whether  *)
(* last_fetched_at is within the TTL.  Nothing reads the 5xx counter.      *)
Slug == [age: {"none", "never", "fresh", "stale"},
         misses: 0 .. InvalidThreshold, invalid: BOOLEAN]
Row == [live: BOOLEAN, holder: Runs \union {NoRun}, attempts: 0 .. MaxAttempts]

(* A run knows which postings are too old for its "since", and the window  *)
(* of its first page; it holds what the board returned, the posting it is  *)
(* storing, the applications not committed yet, whether the posting or the *)
(* slug it looked up was known, and the counter it read.                   *)
RunPc == {"idle", "page", "jobs", "store", "mark", "write", "done", "retry", "failed"}
Run == [pc: RunPc, old: SUBSET Postings, window: SUBSET Postings, skip: Nat,
        todo: SUBSET Postings, job: SUBSET Postings, known: BOOLEAN,
        offers: SUBSET Offers, status: {"ok", "invalid", "transient_error"},
        seen: 0 .. InvalidThreshold]

Idle == [pc |-> "idle", old |-> {}, window |-> {}, skip |-> 0, todo |-> {}, job |-> {},
         known |-> FALSE, offers |-> {}, status |-> "ok", seen |-> 0]

FetchTypeOK ==
    /\ board \in Seq(Postings)
    /\ recent \subseteq posted /\ posted \subseteq Postings
    /\ aged \subseteq posted \ recent
    /\ jobs \subseteq Postings
    /\ followers \subseteq Profiles
    /\ apps \subseteq Offers
    /\ slug \in Slug
    /\ row \in Row
    /\ runs \in [Runs -> Run]
    /\ crashes \in Nat
    /\ wanted \subseteq Offers
    /\ hidden \subseteq Postings
    /\ streak \in 0 .. InvalidThreshold

Listed == ToSet(board)
Capped(n) == IF n > InvalidThreshold THEN InvalidThreshold ELSE n
Becomes(r, record) == runs' = [runs EXCEPT ![r] = record]
Ends(pc) == [Idle EXCEPT !.pc = pc]

------------------------------------------------------------------------------
(* Around the job: the board, the profiles, the cron and the lease         *)

Publish(j) ==
    /\ j \notin posted
    /\ board' = <<j>> \o board
    /\ posted' = posted \union {j}
    /\ recent' = recent \union {j}
    /\ wanted' = wanted \union (followers \X {j})
    /\ UNCHANGED <<aged, jobs, followers, apps, slug, row, runs, crashes, hidden, streak>>

(* Until the first good fetch "since" is 14 days before now, and moves on  *)
(* with every run that begins, whether the runs before it succeeded or not.*)
GrowsOld(j) ==
    /\ slug.age \in {"none", "never"}
    /\ j \in recent
    /\ recent' = recent \ {j}
    /\ aged' = aged \union {j}
    /\ UNCHANGED <<board, posted, jobs, followers, apps, slug, row, runs, crashes,
                   wanted, hidden, streak>>

(* The postings behind j move up by one, past the runs that read as far.   *)
Passed(i) == {j \in Listed : \E r \in Runs : /\ runs[r].pc = "page" /\ i <= runs[r].skip
                                            /\ runs[r].skip < Len(board)
                                            /\ j = board[runs[r].skip + 1]}

Delist(j) ==
    /\ \E i \in DOMAIN board : /\ board[i] = j
                              /\ board' = RemoveAt(board, i)
                              /\ hidden' = hidden \union Passed(i)
    /\ UNCHANGED <<posted, recent, aged, jobs, followers, apps, slug, row, runs, crashes,
                   wanted, streak>>

Follow(p) ==
    /\ p \notin followers
    /\ followers' = followers \union {p}
    /\ UNCHANGED <<boardVars, jobs, apps, slug, row, runs, crashes, wanted, hidden, streak>>

Unfollow(p) ==
    /\ p \in followers
    /\ followers' = followers \ {p}
    /\ wanted' = {o \in wanted : o[1] # p}
    /\ UNCHANGED <<boardVars, jobs, apps, slug, row, runs, crashes, hidden, streak>>

(* last_fetched_at falls behind the TTL of six hours.                      *)
TimePasses ==
    /\ slug.age = "fresh"
    /\ slug' = [slug EXCEPT !.age = "stale"]
    /\ UNCHANGED <<boardVars, jobs, followers, apps, row, runs, crashes,
                   wanted, hidden, streak>>

(* list_stale_for_active_profiles and the deduplicating enqueue.           *)
EnqueueAged(ages) ==
    /\ followers # {}
    /\ ~slug.invalid
    /\ slug.age \in ages
    /\ ~row.live
    /\ row' = [live |-> TRUE, holder |-> NoRun, attempts |-> 0]
    /\ UNCHANGED <<boardVars, jobs, followers, apps, slug, runs, crashes, wanted, hidden, streak>>

EnqueueUnfetched == EnqueueAged({"none", "never"})

EnqueueStale == EnqueueAged({"none", "never", "stale"})

(* A run claims a waiting row, or one whose lease ran out under another    *)
(* run, and reads last_fetched_at; after max_attempts the row fails.       *)
BeginCapped(r, cap) ==
    /\ runs[r].pc = "idle"
    /\ row.live
    /\ row.holder # r
    /\ IF row.attempts < cap
         THEN /\ row' = [row EXCEPT !.holder = r, !.attempts = @ + 1]
              /\ Becomes(r, [Idle EXCEPT !.pc = "page", !.old = posted \ recent])
         ELSE /\ row' = [live |-> FALSE, holder |-> NoRun, attempts |-> 0]
              /\ UNCHANGED runs
    /\ UNCHANGED <<boardVars, jobs, followers, apps, slug, crashes, wanted, hidden, streak>>

BeginOnceMore(r) == BeginCapped(r, MaxAttempts + 1)

Begin(r) == BeginCapped(r, MaxAttempts)

------------------------------------------------------------------------------
(* fetch_one_slug                                                          *)

Marks(status) == [Idle EXCEPT !.pc = "mark", !.status = status]

(* One request.  The last page ends the response.                          *)
ReadPage(r, reply) ==
    LET run == runs[r]
        outcome == FetchOutcome(Provider, reply)
        page == IF outcome = "postings" THEN Page(Provider, board, run.skip, PageLimit) ELSE <<>>
        todo == run.todo \union (ToSet(page) \ run.old)
        window == IF run.skip = 0 THEN recent ELSE run.window
    IN  /\ run.pc = "page"
        /\ \/ /\ outcome = "invalid" /\ Becomes(r, Marks("invalid"))
              /\ UNCHANGED hidden
           \/ /\ outcome = "transient" /\ Becomes(r, Marks("transient_error"))
              /\ UNCHANGED hidden
           \/ /\ outcome = "error" /\ Becomes(r, Ends("failed"))
              /\ UNCHANGED hidden
           \/ /\ outcome \in {"postings", "empty"} /\ LastPage(Provider, page, PageLimit)
              /\ Becomes(r, [Idle EXCEPT !.pc = "jobs", !.todo = todo, !.window = window])
              /\ hidden' = IF outcome = "empty" THEN hidden \union ((Listed \intersect window) \ todo)
                           ELSE hidden
           \/ /\ outcome = "postings" /\ ~LastPage(Provider, page, PageLimit)
              /\ Becomes(r, [run EXCEPT !.todo = todo, !.window = window, !.skip = @ + PageLimit])
              /\ UNCHANGED hidden
        /\ UNCHANGED <<boardVars, jobs, followers, apps, slug, row, crashes,
                       wanted, streak>>

(* upsert_job looks the posting up.                                        *)
LookUpJob(r, j) ==
    /\ runs[r].pc = "jobs"
    /\ j \in runs[r].todo
    /\ Becomes(r, [runs[r] EXCEPT !.pc = "store", !.job = {j}, !.known = j \in jobs])
    /\ UNCHANGED <<boardVars, jobs, followers, apps, slug, row, crashes,
                   wanted, hidden, streak>>

(* The profiles with search_active that follow the posting's company.      *)
Interested == followers

(* It writes and commits, what the loop added for the previous posting     *)
(* included.  Two inserts of one posting violate                           *)
(* uq_jobs_source_external_id.  The applications of the interested         *)
(* profiles, and their match work, stay in the transaction that follows.   *)
StoreAndOffer(r, interested) ==
    LET run == runs[r] IN
    /\ run.pc = "store"
    /\ IF ~run.known /\ run.job \subseteq jobs
         THEN Becomes(r, Ends("failed")) /\ UNCHANGED <<jobs, apps>>
         ELSE /\ jobs' = jobs \union run.job
              /\ apps' = apps \union run.offers
              /\ Becomes(r, [run EXCEPT !.pc = "jobs", !.todo = @ \ run.job, !.job = {},
                                        !.known = FALSE, !.offers = interested \X run.job])
    /\ UNCHANGED <<boardVars, followers, slug, row, crashes, wanted, hidden, streak>>

StoreOfferingNew(r) == StoreAndOffer(r, IF runs[r].known THEN {} ELSE Interested)

StoreJob(r) == StoreAndOffer(r, Interested)

Stored(r, left) ==
    /\ runs[r].pc = "jobs"
    /\ left = {}
    /\ Becomes(r, [runs[r] EXCEPT !.pc = "mark"])
    /\ UNCHANGED <<boardVars, jobs, followers, apps, slug, row, crashes,
                   wanted, hidden, streak>>

SomeStored(r) == Stored(r, runs[r].job)

AllStored(r) == Stored(r, runs[r].todo)

------------------------------------------------------------------------------
(* mark_fetched                                                            *)

ReadSlug(r) ==
    /\ runs[r].pc = "mark"
    /\ Becomes(r, [runs[r] EXCEPT !.pc = "write", !.known = slug.age # "none",
                                        !.seen = slug.misses])
    /\ UNCHANGED <<boardVars, jobs, followers, apps, slug, row, crashes,
                   wanted, hidden, streak>>

(* The session writes the columns whose value differs from the one read:   *)
(* a counter that was zero is not reset.  is_invalid is never taken back.  *)
Outcome(status, seen, reset) ==
    LET attempted == IF slug.age = "none" THEN "never" ELSE slug.age
        misses == Capped(seen + 1)
    IN  CASE status = "ok" -> [slug EXCEPT !.age = "fresh", !.misses = reset]
          [] status = "invalid" ->
               [age |-> attempted, misses |-> misses,
                invalid |-> slug.invalid \/ misses >= InvalidThreshold]
          [] OTHER -> [slug EXCEPT !.age = attempted]

RecordedKeepingMisses(status, seen) == Outcome(status, seen, slug.misses)

Recorded(status, seen) == Outcome(status, seen, IF seen = 0 THEN slug.misses ELSE 0)

(* After an "ok" the next "since" is an hour before now.  What was posted  *)
(* before the response may fall out of the window; what was posted after   *)
(* it does not, because a run records its outcome within the hour.         *)
WindowMoves(status, window) ==
    IF status = "ok"
      THEN \E kept \in SUBSET (recent \intersect window) : recent' = (recent \ window) \union kept
      ELSE UNCHANGED recent

Streak(status, seen) ==
    IF status = "transient_error" THEN streak
    ELSE IF seen # slug.misses THEN InvalidThreshold
    ELSE IF status = "ok" THEN 0
    ELSE Capped(streak + 1)

(* The write fails when another run inserted the row after the read.       *)
WriteSlug(r) ==
    LET run == runs[r] IN
    /\ run.pc = "write"
    /\ IF ~run.known /\ slug.age # "none"
         THEN /\ Becomes(r, Ends("failed"))
              /\ UNCHANGED <<recent, slug, apps, streak>>
         ELSE /\ slug' = Recorded(run.status, run.seen)
              /\ WindowMoves(run.status, run.window)
              /\ apps' = apps \union run.offers
              /\ streak' = Streak(run.status, run.seen)
              /\ Becomes(r, Ends(IF run.status = "transient_error" THEN "retry" ELSE "done"))
    /\ UNCHANGED <<board, posted, aged, jobs, followers, row, crashes, wanted, hidden>>

------------------------------------------------------------------------------
(* The end of a run: settled, given back, a lease that is gone, a crash    *)

Finish(r) ==
    /\ runs[r].pc \in {"done", "retry", "failed"}
    /\ Becomes(r, Idle)
    /\ row' = IF row.holder # r THEN row
              ELSE IF runs[r].pc = "retry" THEN [row EXCEPT !.holder = NoRun]
              ELSE [live |-> FALSE, holder |-> NoRun, attempts |-> 0]
    /\ UNCHANGED <<boardVars, jobs, followers, apps, slug, crashes, wanted, hidden, streak>>

(* The row waits for its lease to run out.                                 *)
Crash(r) ==
    /\ runs[r].pc # "idle"
    /\ crashes < MaxCrashes
    /\ crashes' = crashes + 1
    /\ Becomes(r, Idle)
    /\ row' = IF row.holder = r THEN [row EXCEPT !.holder = NoRun] ELSE row
    /\ UNCHANGED <<boardVars, jobs, followers, apps, slug, wanted, hidden, streak>>

------------------------------------------------------------------------------

FetchInit ==
    /\ board = <<>> /\ posted = {} /\ recent = {} /\ aged = {}
    /\ jobs = {} /\ followers = {} /\ apps = {}
    /\ slug = [age |-> "none", misses |-> 0, invalid |-> FALSE]
    /\ row = [live |-> FALSE, holder |-> NoRun, attempts |-> 0]
    /\ runs = [r \in Runs |-> Idle]
    /\ crashes = 0
    /\ wanted = {} /\ hidden = {} /\ streak = 0

FetchStep(r) ==
    \/ \E reply \in Replies : ReadPage(r, reply)
    \/ \E j \in Postings : LookUpJob(r, j)
    \/ StoreJob(r)
    \/ AllStored(r)
    \/ ReadSlug(r)
    \/ WriteSlug(r)
    \/ Finish(r)

FetchNext ==
    \/ \E j \in Postings : Publish(j) \/ GrowsOld(j) \/ Delist(j)
    \/ \E p \in Profiles : Follow(p) \/ Unfollow(p)
    \/ TimePasses
    \/ EnqueueStale
    \/ \E r \in Runs : Begin(r) \/ FetchStep(r) \/ Crash(r)

FetchSpec == FetchInit /\ [][FetchNext]_fetchVars

(* The cron comes back, workers go on, and a board asked for a page again  *)
(* and again answers with it again and again.                              *)
FairFetchSpec ==
    /\ FetchSpec
    /\ WF_fetchVars(TimePasses)
    /\ WF_fetchVars(EnqueueStale)
    /\ \A r \in Runs : WF_fetchVars(Begin(r) \/ FetchStep(r))
    /\ \A r \in Runs, k \in 0 .. Cardinality(Postings) :
          SF_fetchVars(runs[r].skip = k /\ ReadPage(r, "postings"))

------------------------------------------------------------------------------
(* Properties                                                              *)

(* last_fetched_at moves only after everything in the response is stored   *)
(* and offered, whatever crashes, overlaps or fails in between: a posting  *)
(* that fell out of the window has reached every profile that followed     *)
(* when it was listed, unless a page or an odd reply left it out, or it    *)
(* grew older than 14 days before the board was fetched for the first time.*)
NoPostingMissed ==
    \A o \in wanted :
        o[2] \in Listed \ (recent \union hidden \union aged) => o[2] \in jobs /\ o \in apps

(* INVALID_THRESHOLD counts consecutive 404 answers: a board is given up   *)
(* only after that many without a good fetch between them, unless one      *)
(* outcome was written over a counter that another run had changed since.  *)
GivenUpAfterMisses ==
    [][~slug.invalid /\ slug'.invalid => streak' = InvalidThreshold]_fetchVars

(* Every posting of a followed board becomes an application of the         *)
(* follower, unless it was hidden, is gone, grew older than 14 days before *)
(* the first good fetch, or the board was given up.                        *)
WantedPostingArrives ==
    \A o \in Offers :
        o \in wanted ~> \/ o \in apps \/ o \notin wanted \/ slug.invalid
                        \/ o[2] \in hidden \union aged \/ o[2] \notin Listed

(* docs/ARCHITECTURE.md:3: follow target companies, fetch open roles,      *)
(* score those roles.  An open role of a followed company is offered, also *)
(* when it was listed before the profile followed.                         *)
OpenRoleArrives ==
    \A p \in Profiles, j \in Postings :
        p \in followers /\ j \in Listed ~> \/ <<p, j>> \in apps \/ p \notin followers
                                           \/ slug.invalid \/ j \in hidden \/ j \notin Listed
==============================================================================
