---------------------------- MODULE CompanyBoards ----------------------------
(***************************************************************************)
(* The boards of one company: resolving a typed name by probing every      *)
(* provider (company_resolver), the curated catalog and its seeder         *)
(* (company_catalog), the probe that edits the catalog file                *)
(* (catalog_reconciliation), and the pruning of boards that slug_fetches   *)
(* has given up (job_sync_service), each reading and writing the company's *)
(* provider_slugs in steps of its own.                                     *)
(*                                                                         *)
(* That a fetch ends, or gives its board up, is one step here; SlugFetch   *)
(* has its inside.                                                         *)
(***************************************************************************)
EXTENDS JobSources, FiniteSets

CONSTANTS
    Providers,      \* the providers the company may have a board at
    Curated,        \* providers of its catalog entry before any probe
    Syncs,          \* syncs that may prune at the same time
    Resolvers,      \* calls of resolve that may run at the same time
    Confirmations,  \* missing_confirmations
    Retries         \* transient_retries

ASSUME CompanyAssumption ==
    /\ Curated \subseteq Providers /\ Providers \subseteq SOURCES
    /\ Confirmations \in Nat \ {0}
    /\ Retries \in Nat

VARIABLES
    boards,     \* boards that exist at their provider
    company,    \* the row of companies
    dead,       \* slug_fetches rows with is_invalid
    live,       \* boards with a pending or running fetch-slug row
    followed,   \* some active profile follows the company
    entry,      \* providers of the company in the catalog file
    prunes,     \* running calls of _prune_invalid_provider_slugs
    asks,       \* running calls of resolve
    probes,     \* the running find_invalid_provider_slugs, a probe per provider
    steady      \* boards that existed all the time since that began

companyVars == <<boards, company, dead, live, followed, entry, prunes, asks, probes, steady>>

Company == [known: BOOLEAN, slugs: SUBSET Providers, unfollowable: BOOLEAN, is_curated: BOOLEAN]
Prune == [pc: {"idle", "read"}, slugs: SUBSET Providers, dead: SUBSET Providers, overtaken: BOOLEAN]
Ask == [pc: {"idle", "probe", "insert"}, confirmed: SUBSET Providers]
Attempts == IF Retries + 1 > Confirmations THEN Retries + 1 ELSE Confirmations
Probe == [pc: {"idle", "ask", "kept", "invalid"}, tries: 0 .. Attempts, missing: 0 .. Confirmations]

NoPrune == [pc |-> "idle", slugs |-> {}, dead |-> {}, overtaken |-> FALSE]
NoAsk == [pc |-> "idle", confirmed |-> {}]
ProbeAt(pc) == [pc |-> pc, tries |-> 0, missing |-> 0]

CompanyTypeOK ==
    /\ company \in Company
    /\ {boards, dead, live, entry, steady} \subseteq SUBSET Providers
    /\ followed \in BOOLEAN
    /\ prunes \in [Syncs -> Prune]
    /\ asks \in [Resolvers -> Ask]
    /\ probes \in [Providers -> Probe]

------------------------------------------------------------------------------
(* Boards come and go; fetches report on them                              *)

BoardOpens(p) ==
    /\ p \notin boards
    /\ boards' = boards \union {p}
    /\ UNCHANGED <<company, dead, live, followed, entry, prunes, asks, probes, steady>>

BoardCloses(p) ==
    /\ p \in boards
    /\ boards' = boards \ {p}
    /\ steady' = steady \ {p}
    /\ UNCHANGED <<company, dead, live, followed, entry, prunes, asks, probes>>

(* A profile follows a company it has resolved or picked from the catalog. *)
Follow ==
    /\ company.known
    /\ followed' = ~followed
    /\ UNCHANGED <<boards, company, dead, live, entry, prunes, asks, probes, steady>>

(* list_stale_for_profile: a board whose last fetch is older than the TTL. *)
EnqueueFetch(p) ==
    /\ followed /\ ~company.unfollowable
    /\ p \in company.slugs \ (dead \union live)
    /\ live' = live \union {p}
    /\ UNCHANGED <<boards, company, dead, followed, entry, prunes, asks, probes, steady>>

(* The job ends, whatever it found. *)
FetchEnds(p) ==
    /\ p \in live
    /\ live' = live \ {p}
    /\ UNCHANGED <<boards, company, dead, followed, entry, prunes, asks, probes, steady>>

(* INVALID_THRESHOLD misses in a row.  The last one is recorded after the  *)
(* provider answered: by then the board may be back, and the row gone if   *)
(* the run was taken for lost, so that neither is a condition.             *)
GivesUp(p) ==
    /\ p \in company.slugs \union live
    /\ dead' = dead \union {p}
    /\ live' = live \ {p}
    /\ UNCHANGED <<boards, company, followed, entry, prunes, asks, probes, steady>>

------------------------------------------------------------------------------
(* _prune_invalid_provider_slugs                                           *)

ReadSlugs(s) ==
    /\ followed
    /\ prunes[s].pc = "idle"
    /\ company.slugs # {}
    /\ prunes' = [prunes EXCEPT ![s] = [pc |-> "read", slugs |-> company.slugs,
                                        dead |-> dead, overtaken |-> FALSE]]
    /\ UNCHANGED <<boards, company, dead, live, followed, entry, asks, probes, steady>>

(* Variants of Pruned with a bug, for the mutants of the properties below. *)
PrunedWhole(slugs, cleaned) ==
    IF cleaned = slugs THEN company ELSE [company EXCEPT !.slugs = {}, !.unfollowable = TRUE]

PrunedTogether(slugs, cleaned) ==
    IF cleaned # {} THEN company ELSE [company EXCEPT !.slugs = {}, !.unfollowable = TRUE]

(* The row gets back the slugs it read, without the dead ones; when none   *)
(* is left it is flagged, and the flag is never taken back.                *)
Pruned(slugs, cleaned) ==
    IF cleaned = slugs THEN company
    ELSE [company EXCEPT !.slugs = cleaned, !.unfollowable = @ \/ cleaned = {}]

(* Another writer has put a row of its own in the place of what was read.  *)
Overtaken == [s \in Syncs |-> [prunes[s] EXCEPT !.overtaken = prunes[s].pc = "read"]]

WriteSlugs(s) ==
    /\ prunes[s].pc = "read"
    /\ \E known \in SUBSET dead :     \* read after the slugs, before the write
          /\ prunes[s].dead \subseteq known
          /\ company' = Pruned(prunes[s].slugs, prunes[s].slugs \ known)
    /\ prunes' = [IF prunes[s].overtaken THEN Overtaken ELSE prunes EXCEPT ![s] = NoPrune]
    /\ UNCHANGED <<boards, dead, live, followed, entry, asks, probes, steady>>

------------------------------------------------------------------------------
(* resolve                                                                 *)

(* A known company is returned as it is, whatever has become of its boards.*)
LookUp(a) ==
    /\ asks[a].pc = "idle"
    /\ ~company.known
    /\ asks' = [asks EXCEPT ![a].pc = "probe"]
    /\ UNCHANGED <<boards, company, dead, live, followed, entry, prunes, probes, steady>>

(* What a provider answers to a request for the board.                     *)
Possible(p) == IF p \in boards THEN Replies \ {"404"} ELSE {"404", "no answer", "5xx", "other status"}

(* Every provider confirms, misses or fails; nothing is kept of a failure. *)
(* Without a confirmation, or after the wall timeout, resolve ends.        *)
FanOut(a, replies) ==
    LET confirmed == {p \in Providers : ValidateOutcome(replies[p]) = "exists"} IN
    /\ asks[a].pc = "probe"
    /\ \A p \in Providers : replies[p] \in Possible(p)
    /\ asks' = [asks EXCEPT ![a] = IF confirmed = {} THEN NoAsk
                                   ELSE [pc |-> "insert", confirmed |-> confirmed]]
    /\ UNCHANGED <<boards, company, dead, live, followed, entry, prunes, probes, steady>>

InsertCompany(a) ==
    /\ asks[a].pc = "insert"
    /\ company' = IF company.known THEN company
                  ELSE [company EXCEPT !.known = TRUE, !.slugs = asks[a].confirmed]
    /\ asks' = [asks EXCEPT ![a] = NoAsk]
    /\ UNCHANGED <<boards, dead, live, followed, entry, prunes, probes, steady>>

------------------------------------------------------------------------------
(* seed_catalog, at every start of the API                                 *)

Seed ==
    /\ company' = IF entry = {} THEN [company EXCEPT !.is_curated = FALSE]
                  ELSE [company EXCEPT !.known = TRUE, !.slugs = entry, !.is_curated = TRUE]
    /\ prunes' = IF entry = {} THEN prunes ELSE Overtaken
    /\ UNCHANGED <<boards, dead, live, followed, entry, asks, probes, steady>>

------------------------------------------------------------------------------
(* reconcile_catalog                                                       *)

BeginReconcile ==
    /\ entry # {}
    /\ \A p \in Providers : probes[p].pc = "idle"
    /\ probes' = [p \in Providers |-> IF p \in entry THEN ProbeAt("ask") ELSE ProbeAt("kept")]
    /\ steady' = boards
    /\ UNCHANGED <<boards, company, dead, live, followed, entry, prunes, asks>>

CountedThroughErrors(missing, outcome) ==
    IF outcome = "exists" THEN 0 ELSE missing + 1

CountedDown(missing, outcome) ==
    IF outcome = "missing" THEN missing + 1 ELSE missing - 1

(* validate answers, misses the board, or fails; a failure starts the      *)
(* count of consecutive misses again.                                      *)
Counted(missing, outcome) ==
    CASE outcome = "missing" -> missing + 1
      [] OTHER             -> 0

Validate(p, reply) ==
    LET probe == probes[p]
        outcome == ValidateOutcome(reply)
        tries == probe.tries + 1
        missing == Counted(probe.missing, outcome)
    IN  /\ probe.pc = "ask"
        /\ reply \in Possible(p)
        /\ probes' = [probes EXCEPT ![p] =
               IF outcome = "exists" THEN ProbeAt("kept")
               ELSE IF missing >= Confirmations THEN ProbeAt("invalid")
               ELSE IF tries >= Attempts THEN ProbeAt("kept")
               ELSE [probe EXCEPT !.tries = tries, !.missing = missing]]
        /\ UNCHANGED <<boards, company, dead, live, followed, entry, prunes, asks, steady>>

(* prune_invalid_provider_slugs drops the confirmed misses, and the whole  *)
(* entry when no provider is left.                                         *)
WriteCatalog ==
    /\ \A p \in Providers : probes[p].pc \in {"kept", "invalid"}
    /\ entry' = {p \in entry : probes[p].pc = "kept"}
    /\ probes' = [p \in Providers |-> ProbeAt("idle")]
    /\ steady' = {}
    /\ UNCHANGED <<boards, company, dead, live, followed, prunes, asks>>

------------------------------------------------------------------------------

CompanyInit ==
    /\ boards \in SUBSET Providers
    /\ company = [known |-> FALSE, slugs |-> {}, unfollowable |-> FALSE, is_curated |-> FALSE]
    /\ dead = {} /\ live = {} /\ followed = FALSE
    /\ entry = Curated
    /\ prunes = [s \in Syncs |-> NoPrune]
    /\ asks = [a \in Resolvers |-> NoAsk]
    /\ probes = [p \in Providers |-> ProbeAt("idle")]
    /\ steady = {}

CompanyNext ==
    \/ \E p \in Providers :
          \/ BoardOpens(p) \/ BoardCloses(p)
          \/ EnqueueFetch(p) \/ FetchEnds(p) \/ GivesUp(p)
    \/ Follow
    \/ \E s \in Syncs : ReadSlugs(s) \/ WriteSlugs(s)
    \/ \E a \in Resolvers :
          LookUp(a) \/ (\E replies \in [Providers -> Replies] : FanOut(a, replies)) \/ InsertCompany(a)
    \/ Seed
    \/ BeginReconcile
    \/ \E p \in Providers, reply \in Replies : Validate(p, reply)
    \/ WriteCatalog

CompanySpec == CompanyInit /\ [][CompanyNext]_companyVars

(* The cron syncs again and again, and its statements end.                 *)
FairCompanySpec ==
    /\ CompanySpec
    /\ \A s \in Syncs : WF_companyVars(ReadSlugs(s)) /\ WF_companyVars(WriteSlugs(s))

------------------------------------------------------------------------------
(* Properties                                                              *)

(* Pruning writes the slugs back as a whole.  It takes nothing but given-up*)
(* boards from the company, unless between its read and its write the      *)
(* seeder wrote, or a prune that the seeder had overtaken.                 *)
PruneTakesDeadOnly ==
    [][\A s \in Syncs : prunes[s].pc = "read" /\ prunes'[s].pc = "idle" /\ ~prunes[s].overtaken
          => company.slugs \ company'.slugs \subseteq dead]_companyVars

(* find_invalid_provider_slugs promises that an outage removes nothing: a  *)
(* board that existed throughout the probe stays in the catalog.           *)
CatalogKeepsSteadyBoards == [][entry \intersect steady \subseteq entry']_companyVars

(* A board that was given up is pruned, also when syncs overlap and the    *)
(* seeder brings it back, while somebody follows the company.              *)
DeadBoardIsPruned ==
    \A p \in Providers : p \in dead /\ p \in company.slugs ~> p \notin company.slugs \/ ~followed

(* "a later sync cycle's SlugFetch retry can repair the gap"               *)
(* (app/sources/greenhouse_board.py:78): a board whose probe failed when   *)
(* the company was resolved is found later, if it is still there.          *)
GapIsRepaired ==
    \A p \in Providers :
        company.known /\ ~company.is_curated /\ p \in boards
            ~> p \in company.slugs \/ p \in dead \/ p \notin boards \/ company.is_curated
==============================================================================
