---------------------------- MODULE CompanyProofs ----------------------------
(***************************************************************************)
(* The stored boards of a company: pruning takes given-up boards only, and *)
(* an outage removes no board from the catalog, for every set of providers,*)
(* any number of syncs and resolvers, and every count of confirmations and *)
(* retries.                                                                *)
(***************************************************************************)
EXTENDS CompanyBoards, TLAPS

LEMMA ProbesTyped ==
  /\ Attempts \in Nat /\ Attempts >= Confirmations /\ Attempts >= Retries + 1
  /\ ProbeAt("idle") \in Probe /\ ProbeAt("ask") \in Probe
  /\ ProbeAt("kept") \in Probe /\ ProbeAt("invalid") \in Probe
  /\ NoPrune \in Prune /\ NoAsk \in Ask
<1>1. Attempts \in Nat /\ Attempts >= Confirmations /\ Attempts >= Retries + 1
  BY CompanyAssumption DEF Attempts
<1>2. 0 \in 0 .. Attempts /\ 0 \in 0 .. Confirmations
  BY <1>1, CompanyAssumption
<1>3. QED
  BY <1>1, <1>2 DEF ProbeAt, Probe, NoPrune, Prune, NoAsk, Ask

LEMMA OvertakenTyped ==
  ASSUME CompanyTypeOK
  PROVE  /\ Overtaken \in [Syncs -> Prune]
         /\ \A s \in Syncs : /\ Overtaken[s].pc = prunes[s].pc
                             /\ Overtaken[s].pc = "read" => Overtaken[s].overtaken
<1>1. ASSUME NEW s \in Syncs
      PROVE  LET p == [prunes[s] EXCEPT !.overtaken = prunes[s].pc = "read"]
             IN  p \in Prune /\ p.pc = prunes[s].pc /\ (p.pc = "read" => p.overtaken)
  <2>1. prunes[s] \in Prune /\ (prunes[s].pc = "read") \in BOOLEAN
    BY DEF CompanyTypeOK
  <2>2. QED
    BY <2>1 DEF Prune
<1>2. QED
  BY <1>1 DEF Overtaken

(* The company's row after a prune keeps its type.                         *)
LEMMA PrunedTyped ==
  ASSUME CompanyTypeOK, NEW slugs \in SUBSET Providers, NEW cleaned \in SUBSET slugs
  PROVE  /\ Pruned(slugs, cleaned) \in Company
         /\ Pruned(slugs, cleaned).known = company.known
         /\ Pruned(slugs, cleaned).slugs = IF cleaned = slugs THEN company.slugs ELSE cleaned
<1>1. company \in Company
  BY DEF CompanyTypeOK
<1>2. ASSUME NEW flag \in BOOLEAN
      PROVE  /\ [company EXCEPT !.slugs = cleaned, !.unfollowable = flag] \in Company
             /\ [company EXCEPT !.slugs = cleaned, !.unfollowable = flag].known = company.known
             /\ [company EXCEPT !.slugs = cleaned, !.unfollowable = flag].slugs = cleaned
  BY <1>1 DEF Company
<1>3. (company.unfollowable \/ cleaned = {}) \in BOOLEAN
  BY <1>1 DEF Company
<1>4. QED
  BY <1>1, <1>2, <1>3 DEF Pruned

(* One step of a validation keeps the probe's type.                        *)
LEMMA ValidateTyped ==
  ASSUME CompanyTypeOK, NEW p \in Providers, NEW reply \in Replies, Validate(p, reply)
  PROVE  probes' \in [Providers -> Probe]
<1> DEFINE tries == probes[p].tries + 1
           missing == Counted(probes[p].missing, ValidateOutcome(reply))
<1>1. /\ probes[p] \in Probe /\ probes[p].tries \in 0 .. Attempts
      /\ probes[p].missing \in 0 .. Confirmations /\ Confirmations \in Nat
  BY CompanyAssumption DEF CompanyTypeOK, Probe
<1>2. missing \in Nat
  BY <1>1 DEF Counted
<1>3. ~(missing >= Confirmations) => missing \in 0 .. Confirmations
  BY <1>1, <1>2
<1>4. ~(tries >= Attempts) => tries \in 0 .. Attempts
  BY <1>1, ProbesTyped
<1> HIDE DEF tries, missing
<1>5. ~(missing >= Confirmations) /\ ~(tries >= Attempts)
         => [probes[p] EXCEPT !.tries = tries, !.missing = missing] \in Probe
  BY <1>1, <1>3, <1>4 DEF Probe
<1>6. PICK probe \in Probe : probes' = [probes EXCEPT ![p] = probe]
  BY <1>5, ProbesTyped DEF Validate, tries, missing
<1>7. QED
  BY <1>6 DEF CompanyTypeOK

LEMMA CompanyTypeStep == CompanyTypeOK /\ [CompanyNext]_companyVars => CompanyTypeOK'
<1> SUFFICES ASSUME CompanyTypeOK, [CompanyNext]_companyVars
             PROVE  CompanyTypeOK'
  OBVIOUS
<1> USE DEF CompanyTypeOK
<1>1. ASSUME NEW p \in Providers,
             \/ BoardOpens(p) \/ BoardCloses(p)
             \/ EnqueueFetch(p) \/ GivesUp(p) \/ FetchEnds(p)
      PROVE  CompanyTypeOK'
  BY <1>1 DEF BoardOpens, BoardCloses, EnqueueFetch, GivesUp, FetchEnds
<1>2. CASE Follow
  BY <1>2 DEF Follow
<1>3. ASSUME NEW s \in Syncs, ReadSlugs(s)
      PROVE  CompanyTypeOK'
  <2>1. [pc |-> "read", slugs |-> company.slugs, dead |-> dead, overtaken |-> FALSE] \in Prune
    BY DEF Company, Prune
  <2>2. prunes' \in [Syncs -> Prune]
    BY <1>3, <2>1 DEF ReadSlugs
  <2>3. QED
    BY <1>3, <2>2 DEF ReadSlugs
<1>4. ASSUME NEW s \in Syncs, WriteSlugs(s)
      PROVE  CompanyTypeOK'
  <2>1. company' \in Company
    <3>1. prunes[s].slugs \in SUBSET Providers
      BY DEF Prune
    <3>2. PICK known \in SUBSET dead : company' = Pruned(prunes[s].slugs, prunes[s].slugs \ known)
      BY <1>4 DEF WriteSlugs
    <3>3. QED
      BY <3>1, <3>2, PrunedTyped
  <2>2. prunes' \in [Syncs -> Prune]
    BY <1>4, OvertakenTyped, ProbesTyped DEF WriteSlugs
  <2>3. QED
    BY <1>4, <2>1, <2>2 DEF WriteSlugs
<1>5. ASSUME NEW a \in Resolvers,
             \/ LookUp(a)
             \/ \E replies \in [Providers -> Replies] : FanOut(a, replies)
             \/ InsertCompany(a)
      PROVE  CompanyTypeOK'
  <2>1. asks[a] \in Ask
    OBVIOUS
  <2>2. CASE LookUp(a)
    <3>1. [asks[a] EXCEPT !.pc = "probe"] \in Ask
      BY <2>1 DEF Ask
    <3>2. asks' \in [Resolvers -> Ask]
      BY <2>2, <3>1 DEF LookUp
    <3>3. QED
      BY <2>2, <3>2 DEF LookUp
  <2>3. ASSUME NEW replies \in [Providers -> Replies], FanOut(a, replies)
        PROVE  CompanyTypeOK'
    <3> DEFINE confirmed == {p \in Providers : ValidateOutcome(replies[p]) = "exists"}
    <3>1. [pc |-> "insert", confirmed |-> confirmed] \in Ask
      BY DEF Ask
    <3>2. asks' \in [Resolvers -> Ask]
      BY <2>3, <3>1, ProbesTyped DEF FanOut
    <3>3. QED
      BY <2>3, <3>2 DEF FanOut
  <2>4. CASE InsertCompany(a)
    <3>1. [company EXCEPT !.known = TRUE, !.slugs = asks[a].confirmed] \in Company
      BY <2>1 DEF Ask, Company
    <3>2. company' \in Company /\ asks' \in [Resolvers -> Ask]
      BY <2>4, <3>1, ProbesTyped DEF InsertCompany
    <3>3. QED
      BY <2>4, <3>2 DEF InsertCompany
  <2>5. QED
    BY <1>5, <2>2, <2>3, <2>4
<1>6. CASE Seed
  <2>1. company' \in Company
    BY <1>6 DEF Seed, Company
  <2>2. prunes' \in [Syncs -> Prune]
    BY <1>6, OvertakenTyped DEF Seed
  <2>3. QED
    BY <1>6, <2>1, <2>2 DEF Seed
<1>7. CASE BeginReconcile
  BY <1>7, ProbesTyped DEF BeginReconcile
<1>8. ASSUME NEW p \in Providers, NEW reply \in Replies, Validate(p, reply)
      PROVE  CompanyTypeOK'
  BY <1>8, ValidateTyped DEF Validate
<1>9. CASE WriteCatalog
  BY <1>9, ProbesTyped DEF WriteCatalog
<1>10. CASE UNCHANGED companyVars
  BY <1>10 DEF companyVars
<1>11. QED
  BY <1>1, <1>2, <1>3, <1>4, <1>5, <1>6, <1>7, <1>8, <1>9, <1>10 DEF CompanyNext

LEMMA CompanyTypeInit == CompanyInit => CompanyTypeOK
<1> SUFFICES ASSUME CompanyInit PROVE CompanyTypeOK
  OBVIOUS
<1>1. company \in Company
  BY DEF CompanyInit, Company
<1>2. prunes \in [Syncs -> Prune] /\ asks \in [Resolvers -> Ask] /\ probes \in [Providers -> Probe]
  BY ProbesTyped DEF CompanyInit
<1>3. /\ boards \in SUBSET Providers /\ dead \in SUBSET Providers /\ live \in SUBSET Providers
      /\ entry \in SUBSET Providers /\ steady \in SUBSET Providers /\ followed \in BOOLEAN
  BY CompanyAssumption DEF CompanyInit
<1>4. QED
  BY <1>1, <1>2, <1>3 DEF CompanyTypeOK

(* The company's boards, its prunes, its resolves and its probes stay well *)
(* typed.                                                                  *)
THEOREM CompanyTypeCorrect == CompanySpec => []CompanyTypeOK
BY CompanyTypeInit, CompanyTypeStep, PTL DEF CompanySpec

------------------------------------------------------------------------------
(* Pruning.                                                                *)

(* What is stored or read belongs to a known company.                      *)
KnownFirst ==
  /\ company.slugs # {} => company.known
  /\ \A s \in Syncs : prunes[s].pc = "read" => company.known

(* A prune that nobody overtook differs from the row by given-up boards    *)
(* only, in both directions: other prunes may have removed some, but they  *)
(* have written no board that this one does not know or that lives.        *)
ReadsCurrent ==
  \A s \in Syncs : prunes[s].pc = "read" /\ ~prunes[s].overtaken =>
     /\ company.slugs \subseteq prunes[s].slugs \union dead
     /\ prunes[s].slugs \subseteq company.slugs \union dead

(* An outage does not confirm a miss: the board that stayed is not taken   *)
(* for invalid.                                                            *)
SteadyFound == steady \subseteq boards /\ \A p \in steady : probes[p].pc # "invalid"

Stored == CompanyTypeOK /\ KnownFirst /\ ReadsCurrent /\ SteadyFound

(* What a prune writes.                                                    *)
LEMMA WriteEffect ==
  ASSUME CompanyTypeOK, NEW s \in Syncs, WriteSlugs(s)
  PROVE  /\ company'.known = company.known
         /\ \E known \in SUBSET dead :
               company'.slugs = IF prunes[s].slugs \ known = prunes[s].slugs
                                THEN company.slugs ELSE prunes[s].slugs \ known
         /\ prunes'[s] = NoPrune
         /\ \A r \in Syncs : r # s =>
               /\ prunes'[r].pc = prunes[r].pc
               /\ \/ prunes[s].overtaken /\ (prunes'[r].pc = "read" => prunes'[r].overtaken)
                  \/ ~prunes[s].overtaken /\ prunes'[r] = prunes[r]
<1>1. prunes \in [Syncs -> Prune] /\ prunes[s].slugs \in SUBSET Providers
  BY DEF CompanyTypeOK, Prune
<1>2. PICK known \in SUBSET dead : company' = Pruned(prunes[s].slugs, prunes[s].slugs \ known)
  BY DEF WriteSlugs
<1>3. /\ company'.known = company.known
      /\ company'.slugs = IF prunes[s].slugs \ known = prunes[s].slugs
                          THEN company.slugs ELSE prunes[s].slugs \ known
  <2>1. PICK slugs \in SUBSET Providers : slugs = prunes[s].slugs
    BY <1>1
  <2>2. PICK cleaned \in SUBSET slugs : cleaned = slugs \ known
    OBVIOUS
  <2>3. /\ Pruned(slugs, cleaned).known = company.known
        /\ Pruned(slugs, cleaned).slugs = IF cleaned = slugs THEN company.slugs ELSE cleaned
    BY PrunedTyped
  <2>4. company' = Pruned(slugs, cleaned)
    BY <1>2, <2>1, <2>2
  <2>5. QED
    BY <2>1, <2>2, <2>3, <2>4
<1>4. CASE prunes[s].overtaken
  <2>1. prunes' = [Overtaken EXCEPT ![s] = NoPrune]
    BY <1>4 DEF WriteSlugs
  <2>2. QED
    BY <1>3, <1>4, <2>1, OvertakenTyped
<1>5. CASE ~prunes[s].overtaken
  <2>1. prunes' = [prunes EXCEPT ![s] = NoPrune]
    BY <1>5 DEF WriteSlugs
  <2>2. QED
    BY <1>1, <1>3, <1>5, <2>1
<1>6. QED
  BY <1>4, <1>5

LEMMA StoredStep == Stored /\ [CompanyNext]_companyVars => Stored'
<1> SUFFICES ASSUME Stored, [CompanyNext]_companyVars
             PROVE  KnownFirst' /\ ReadsCurrent' /\ SteadyFound'
  BY CompanyTypeStep DEF Stored
<1> USE DEF Stored
<1>1. ASSUME NEW p \in Providers,
             \/ BoardOpens(p) \/ BoardCloses(p)
             \/ EnqueueFetch(p) \/ GivesUp(p) \/ FetchEnds(p)
      PROVE  KnownFirst' /\ ReadsCurrent' /\ SteadyFound'
  <2>1. /\ UNCHANGED <<company, prunes, probes>> /\ dead \subseteq dead'
        /\ steady' \subseteq steady /\ steady' \subseteq boards'
    BY <1>1 DEF BoardOpens, BoardCloses, EnqueueFetch, GivesUp, FetchEnds, SteadyFound
  <2>2. QED
    BY <2>1 DEF KnownFirst, ReadsCurrent, SteadyFound
<1>2. CASE Follow
  BY <1>2 DEF Follow, KnownFirst, ReadsCurrent, SteadyFound
<1>3. ASSUME NEW s \in Syncs, ReadSlugs(s)
      PROVE  KnownFirst' /\ ReadsCurrent' /\ SteadyFound'
  <2>1. /\ UNCHANGED <<company, dead, boards, steady, probes>> /\ company.known
        /\ \A r \in Syncs :
              prunes'[r] = IF r = s THEN [pc |-> "read", slugs |-> company.slugs,
                                          dead |-> dead, overtaken |-> FALSE]
                           ELSE prunes[r]
    BY <1>3 DEF ReadSlugs, KnownFirst, CompanyTypeOK
  <2>2. QED
    BY <2>1 DEF KnownFirst, ReadsCurrent, SteadyFound
<1>4. ASSUME NEW s \in Syncs, WriteSlugs(s)
      PROVE  KnownFirst' /\ ReadsCurrent' /\ SteadyFound'
  <2>1. prunes[s].pc = "read" /\ UNCHANGED <<dead, boards, steady, probes>> /\ NoPrune.pc = "idle"
    BY <1>4 DEF WriteSlugs, NoPrune
  <2>2. PICK known \in SUBSET dead :
           /\ company'.known = company.known
           /\ company'.slugs = IF prunes[s].slugs \ known = prunes[s].slugs
                               THEN company.slugs ELSE prunes[s].slugs \ known
    BY <1>4, WriteEffect
  <2>3. KnownFirst'
    BY <2>1, <2>2 DEF KnownFirst
  <2>4. ReadsCurrent'
    <3> SUFFICES ASSUME NEW r \in Syncs, prunes'[r].pc = "read", ~prunes'[r].overtaken
                 PROVE  /\ company'.slugs \subseteq prunes'[r].slugs \union dead
                        /\ prunes'[r].slugs \subseteq company'.slugs \union dead
      BY <2>1 DEF ReadsCurrent
    <3>1. r # s /\ ~prunes[s].overtaken /\ prunes'[r] = prunes[r]
      BY <1>4, <2>1, WriteEffect
    <3>2. /\ company.slugs \subseteq prunes[r].slugs \union dead
          /\ prunes[r].slugs \subseteq company.slugs \union dead
          /\ company.slugs \subseteq prunes[s].slugs \union dead
          /\ prunes[s].slugs \subseteq company.slugs \union dead
      BY <2>1, <3>1 DEF ReadsCurrent
    <3>3. QED
      BY <2>2, <3>1, <3>2
  <2>5. QED
    BY <2>1, <2>3, <2>4 DEF SteadyFound
<1>5. ASSUME NEW a \in Resolvers,
             \/ LookUp(a)
             \/ \E replies \in [Providers -> Replies] : FanOut(a, replies)
             \/ InsertCompany(a)
      PROVE  KnownFirst' /\ ReadsCurrent' /\ SteadyFound'
  <2>1. CASE UNCHANGED company
    BY <1>5, <2>1 DEF LookUp, FanOut, InsertCompany, KnownFirst, ReadsCurrent, SteadyFound
  <2>2. CASE InsertCompany(a) /\ ~company.known
    <3>1. UNCHANGED <<dead, boards, steady, probes, prunes>> /\ company'.known
      BY <2>2 DEF InsertCompany, CompanyTypeOK, Company
    <3>2. QED
      BY <2>2, <3>1 DEF KnownFirst, ReadsCurrent, SteadyFound
  <2>3. QED
    BY <1>5, <2>1, <2>2 DEF LookUp, FanOut, InsertCompany
<1>6. CASE Seed
  <2>1. UNCHANGED <<dead, boards, steady, probes>>
    BY <1>6 DEF Seed
  <2>2. CASE entry = {}
    <3>1. company'.known = company.known /\ company'.slugs = company.slugs /\ UNCHANGED prunes
      BY <1>6, <2>2 DEF Seed, CompanyTypeOK, Company
    <3>2. QED
      BY <2>1, <3>1 DEF KnownFirst, ReadsCurrent, SteadyFound
  <2>3. CASE entry # {}
    <3>1. company'.known /\ prunes' = Overtaken
      BY <1>6, <2>3 DEF Seed, CompanyTypeOK, Company
    <3>2. QED
      BY <2>1, <3>1, OvertakenTyped DEF KnownFirst, ReadsCurrent, SteadyFound
  <2>4. QED
    BY <2>2, <2>3
<1>7. CASE BeginReconcile
  BY <1>7 DEF BeginReconcile, ProbeAt, KnownFirst, ReadsCurrent, SteadyFound, CompanyTypeOK
<1>8. ASSUME NEW p \in Providers, NEW reply \in Replies, Validate(p, reply)
      PROVE  KnownFirst' /\ ReadsCurrent' /\ SteadyFound'
  <2>1. UNCHANGED <<company, prunes, dead, boards, steady>>
    BY <1>8 DEF Validate
  <2>2. p \in steady => probes'[p].pc # "invalid"
    <3>1. CASE ValidateOutcome(reply) = "exists"
      BY <1>8, <3>1 DEF Validate, ProbeAt, CompanyTypeOK
    <3>2. CASE p \in steady /\ ValidateOutcome(reply) # "exists"
      <4>1. ValidateOutcome(reply) = "error"
        BY <1>8, <3>2 DEF Validate, Possible, SteadyFound, ValidateOutcome
      <4>2. ~(Counted(probes[p].missing, ValidateOutcome(reply)) >= Confirmations)
        BY <4>1, CompanyAssumption DEF Counted
      <4>3. probes[p] \in Probe /\ probes[p].pc = "ask"
        BY <1>8 DEF Validate, CompanyTypeOK
      <4>4. \A n, m : [probes[p] EXCEPT !.tries = n, !.missing = m].pc = "ask"
        BY <4>3 DEF Probe
      <4>5. QED
        BY <1>8, <3>2, <4>2, <4>4 DEF Validate, ProbeAt, CompanyTypeOK
    <3>3. QED
      BY <3>1, <3>2
  <2>3. \A q \in Providers : q # p => probes'[q] = probes[q]
    BY <1>8 DEF Validate, CompanyTypeOK
  <2>4. QED
    BY <2>1, <2>2, <2>3 DEF KnownFirst, ReadsCurrent, SteadyFound, CompanyTypeOK
<1>9. CASE WriteCatalog
  BY <1>9 DEF WriteCatalog, KnownFirst, ReadsCurrent, SteadyFound
<1>10. CASE UNCHANGED companyVars
  BY <1>10 DEF companyVars, KnownFirst, ReadsCurrent, SteadyFound
<1>11. QED
  BY <1>1, <1>2, <1>3, <1>4, <1>5, <1>6, <1>7, <1>8, <1>9, <1>10 DEF CompanyNext

LEMMA StoredInvariant == CompanySpec => []Stored
<1>1. CompanyInit => Stored
  <2>1. CompanyInit => company.slugs = {} /\ steady = {}
    BY DEF CompanyInit
  <2>2. CompanyInit => \A s \in Syncs : prunes[s].pc = "idle"
    BY DEF CompanyInit, NoPrune
  <2>3. QED
    BY CompanyTypeInit, <2>1, <2>2 DEF Stored, KnownFirst, ReadsCurrent, SteadyFound
<1>2. QED
  BY <1>1, StoredStep, PTL DEF CompanySpec

(* Overlapping prunes write back what they read, and yet take given-up     *)
(* boards only, unless the seeder came between.                            *)
THEOREM PruneTakesDead == CompanySpec => PruneTakesDeadOnly
<1> DEFINE Takes ==
      \A s \in Syncs : prunes[s].pc = "read" /\ prunes'[s].pc = "idle" /\ ~prunes[s].overtaken
         => company.slugs \ company'.slugs \subseteq dead
<1>1. Stored /\ [CompanyNext]_companyVars => [Takes]_companyVars
  <2> SUFFICES ASSUME Stored, CompanyNext, NEW s \in Syncs, prunes[s].pc = "read",
                      prunes'[s].pc = "idle", ~prunes[s].overtaken
               PROVE  company.slugs \ company'.slugs \subseteq dead
    BY DEF companyVars
  <2>1. PICK r \in Syncs : WriteSlugs(r)
    <3>1. prunes'[s] # prunes[s] /\ prunes'[s] # Overtaken[s]
      BY OvertakenTyped DEF Stored
    <3>2. \A r \in Syncs : ~ReadSlugs(r)
      BY DEF ReadSlugs, Stored, CompanyTypeOK
    <3>3. QED
      BY <3>1, <3>2 DEF CompanyNext, BoardOpens, BoardCloses, EnqueueFetch, GivesUp, FetchEnds, Follow,
         LookUp, FanOut, InsertCompany, Seed, BeginReconcile, Validate, WriteCatalog
  <2>2. r = s
    BY <2>1, WriteEffect DEF Stored
  <2>3. PICK known \in SUBSET dead :
           company'.slugs = IF prunes[s].slugs \ known = prunes[s].slugs
                            THEN company.slugs ELSE prunes[s].slugs \ known
    BY <2>1, <2>2, WriteEffect DEF Stored
  <2>4. company.slugs \subseteq prunes[s].slugs \union dead
    BY DEF Stored, ReadsCurrent
  <2>5. QED
    BY <2>3, <2>4
<1>2. QED
  BY <1>1, StoredInvariant, PTL DEF CompanySpec, PruneTakesDeadOnly

(* A board that existed throughout the probe stays in the catalog, whatever*)
(* the provider answered or failed to answer.                              *)
THEOREM CatalogKeepsSteady == CompanySpec => CatalogKeepsSteadyBoards
<1>1. Stored /\ [CompanyNext]_companyVars => [entry \intersect steady \subseteq entry']_companyVars
  <2> SUFFICES ASSUME Stored, CompanyNext
               PROVE  entry \intersect steady \subseteq entry'
    BY DEF companyVars
  <2>1. CASE WriteCatalog
    BY <2>1 DEF WriteCatalog, Stored, SteadyFound, CompanyTypeOK
  <2>2. CASE ~WriteCatalog
    BY <2>2 DEF CompanyNext, BoardOpens, BoardCloses, EnqueueFetch, GivesUp, FetchEnds, Follow, ReadSlugs,
       WriteSlugs, LookUp, FanOut, InsertCompany, Seed, BeginReconcile, Validate
  <2>3. QED
    BY <2>1, <2>2
<1>2. QED
  BY <1>1, StoredInvariant, PTL DEF CompanySpec, CatalogKeepsSteadyBoards
==============================================================================
