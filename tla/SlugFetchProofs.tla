---------------------------- MODULE SlugFetchProofs ----------------------------
(***************************************************************************)
(* One board under the fetch-slug job: no posting falls out of the window  *)
(* of a fetched board before it is stored and offered, and a board is given up only after     *)
(* InvalidThreshold misses in a row, for every provider and page limit and *)
(* any number of postings, profiles, runs, attempts and crashes.           *)
(***************************************************************************)
EXTENDS SlugFetch, SequenceTheorems, TLAPS

------------------------------------------------------------------------------
(* The board and its pages.                                                *)

LEMMA PartOf ==
  ASSUME NEW s \in Seq(Postings), NEW m \in Nat \ {0}, NEW n \in Nat, n <= Len(s)
  PROVE  /\ SubSeq(s, m, n) \in Seq(Postings)
         /\ Len(SubSeq(s, m, n)) = IF m <= n THEN n - m + 1 ELSE 0
         /\ DOMAIN SubSeq(s, m, n) = 1 .. Len(SubSeq(s, m, n))
         /\ \A k \in 1 .. n - m + 1 : SubSeq(s, m, n)[k] = s[m + k - 1]
<1>1. \A k \in m .. n : s[k] \in Postings
  OBVIOUS
<1>2. /\ SubSeq(s, m, n) \in Seq(Postings)
      /\ Len(SubSeq(s, m, n)) = IF m <= n THEN n - m + 1 ELSE 0
      /\ \A k \in 1 .. n - m + 1 : SubSeq(s, m, n)[k] = s[m + k - 1]
  BY <1>1, SubSeqProperties
<1>3. \A t \in Seq(Postings) : DOMAIN t = 1 .. Len(t)
  OBVIOUS
<1>4. QED
  BY <1>2, <1>3

LEMMA PublishedBoard ==
  ASSUME board \in Seq(Postings), NEW j \in Postings, board' = <<j>> \o board
  PROVE  board' \in Seq(Postings) /\ Listed' = Listed \union {j}
<1>1. /\ board' \in Seq(Postings) /\ Len(board') = Len(board) + 1
      /\ board'[1] = j /\ \A i \in DOMAIN board : board'[i + 1] = board[i]
      /\ DOMAIN board = 1 .. Len(board) /\ DOMAIN board' = 1 .. Len(board')
      /\ Len(board) \in Nat
  OBVIOUS
<1>2. \A k \in DOMAIN board' : k = 1 \/ (k - 1 \in DOMAIN board /\ board'[k] = board[k - 1])
  BY <1>1
<1>3. \A i \in DOMAIN board : i + 1 \in DOMAIN board'
  BY <1>1
<1>4. 1 \in DOMAIN board'
  BY <1>1
<1>5. QED
  BY <1>1, <1>2, <1>3, <1>4 DEF Listed, ToSet

LEMMA DelistedBoard ==
  ASSUME board \in Seq(Postings), NEW i \in DOMAIN board, board' = RemoveAt(board, i)
  PROVE  board' \in Seq(Postings) /\ Listed' \subseteq Listed
<1> DEFINE before == SubSeq(board, 1, i - 1)
           after  == SubSeq(board, i + 1, Len(board))
<1>1. /\ DOMAIN board = 1 .. Len(board) /\ Len(board) \in Nat /\ i \in 1 .. Len(board)
      /\ \A k \in 1 .. Len(board) : board[k] \in Listed
  BY DEF Listed, ToSet
<1>2. before \in Seq(Listed) /\ after \in Seq(Listed)
  BY <1>1, SubSeqProperties
<1>3. board' = before \o after
  BY DEF RemoveAt
<1> HIDE DEF before, after
<1>4. board' \in Seq(Listed)
  BY <1>2, <1>3
<1>5. Listed' \subseteq Listed
  BY <1>4 DEF Listed, ToSet
<1>6. Listed \subseteq Postings
  BY DEF Listed, ToSet
<1>7. QED
  BY <1>4, <1>5, <1>6

LEMMA PageEnd ==
  ASSUME board \in Seq(Postings), NEW skip \in Nat
  PROVE  Min({skip + PageLimit, Len(board)})
           = IF skip + PageLimit <= Len(board) THEN skip + PageLimit ELSE Len(board)
<1> DEFINE far == skip + PageLimit
<1>1. far \in Nat /\ Len(board) \in Nat
  BY SlugFetchAssumption
<1> HIDE DEF far
<1>2. \E x \in {far, Len(board)} : \A y \in {far, Len(board)} : x =< y
  BY <1>1
<1>3. /\ Min({far, Len(board)}) \in {far, Len(board)}
      /\ \A y \in {far, Len(board)} : Min({far, Len(board)}) =< y
  BY <1>2 DEF Min
<1>4. QED
  BY <1>1, <1>3 DEF far

LEMMA PageListed ==
  ASSUME board \in Seq(Postings), NEW skip \in Nat
  PROVE  /\ ToSet(Page(Provider, board, skip, PageLimit)) \subseteq Postings
         /\ Listed \subseteq Postings
<1> DEFINE end == Min({skip + PageLimit, Len(board)})
<1>1. /\ DOMAIN board = 1 .. Len(board) /\ Len(board) \in Nat
      /\ \A k \in 1 .. Len(board) : board[k] \in Postings
  OBVIOUS
<1>2. end \in Nat /\ end <= Len(board)
  BY <1>1, PageEnd, SlugFetchAssumption
<1> HIDE DEF end
<1>3. SubSeq(board, skip + 1, end) \in Seq(Postings)
  BY <1>1, <1>2, SubSeqProperties
<1>4. Page(Provider, board, skip, PageLimit) \in Seq(Postings)
  BY <1>3 DEF Page, end
<1>5. QED
  BY <1>4 DEF ToSet, Listed

(* A page shows what is listed behind the pages before it, as far as it    *)
(* goes; the last page goes to the end.                                    *)
LEMMA PartShows ==
  ASSUME NEW n \in Nat, NEW skip \in Nat, NEW i \in Nat, i > skip, i <= n, NEW end,
         end = IF skip + PageLimit <= n THEN skip + PageLimit ELSE n,
         i <= skip + PageLimit \/ (IF skip + 1 <= end THEN end - (skip + 1) + 1 ELSE 0) < PageLimit
  PROVE  /\ end \in Nat /\ end <= n /\ skip + 1 <= end
         /\ i - skip \in 1 .. end - (skip + 1) + 1 /\ (skip + 1) + (i - skip) - 1 = i
BY SlugFetchAssumption

LEMMA PageShows ==
  ASSUME board \in Seq(Postings), NEW skip \in Nat, NEW page,
         page = Page(Provider, board, skip, PageLimit),
         NEW i \in Nat, i \in DOMAIN board, i > skip,
         i <= skip + PageLimit \/ LastPage(Provider, page, PageLimit)
  PROVE  board[i] \in ToSet(page)
<1>1. Len(board) \in Nat /\ i <= Len(board)
  OBVIOUS
<1>2. CASE Provider # "lever"
  BY <1>2 DEF Page, ToSet
<1>3. CASE Provider = "lever"
  <2>1. PICK end : end = IF skip + PageLimit <= Len(board) THEN skip + PageLimit ELSE Len(board)
    OBVIOUS
  <2>2. page = SubSeq(board, skip + 1, end)
    BY <1>3, <2>1, PageEnd DEF Page
  <2>3. end \in Nat /\ end <= Len(board)
    <3>1. \A n \in Nat : end = (IF skip + PageLimit <= n THEN skip + PageLimit ELSE n)
                            => end \in Nat /\ end <= n
      BY SlugFetchAssumption
    <3>2. QED
      BY <1>1, <2>1, <3>1
  <2>4. /\ Len(page) = (IF skip + 1 <= end THEN end - (skip + 1) + 1 ELSE 0)
        /\ \A k \in 1 .. end - (skip + 1) + 1 : page[k] = board[(skip + 1) + k - 1]
        /\ DOMAIN page = 1 .. Len(page)
    <3>1. skip + 1 \in Nat \ {0}
      OBVIOUS
    <3>2. QED
      BY <2>2, <2>3, <3>1, PartOf
  <2>5. /\ skip + 1 <= end /\ i - skip \in 1 .. end - (skip + 1) + 1
        /\ (skip + 1) + (i - skip) - 1 = i
    <3>1. i <= skip + PageLimit \/ (IF skip + 1 <= end THEN end - (skip + 1) + 1 ELSE 0) < PageLimit
      <4>1. i <= skip + PageLimit \/ Len(page) < PageLimit
        BY <1>3 DEF LastPage
      <4>2. QED
        BY <2>4, <4>1, Zenon
    <3>2. PICK n \in Nat : n = Len(board)
      BY <1>1
    <3>3. i <= n /\ end = IF skip + PageLimit <= n THEN skip + PageLimit ELSE n
      BY <1>1, <2>1, <3>2, Zenon
    <3>4. QED
      BY <3>1, <3>3, PartShows
  <2>6. page[i - skip] = board[i] /\ i - skip \in DOMAIN page
    BY <2>4, <2>5
  <2>7. QED
    BY <2>6 DEF ToSet
<1>4. QED
  BY <1>2, <1>3

(* What is listed in front of a place stays in front of it: a publication  *)
(* is new, and a delisting moves up what it makes pass.                    *)
LEMMA PublishedInFront ==
  ASSUME board \in Seq(Postings), NEW j \in Postings, board' = <<j>> \o board,
         NEW i \in DOMAIN board'
  PROVE  board'[i] = j \/ (i - 1 \in DOMAIN board /\ board'[i] = board[i - 1])
<1>1. /\ Len(board') = Len(board) + 1 /\ board'[1] = j
      /\ \A k \in DOMAIN board : board'[k + 1] = board[k]
      /\ DOMAIN board = 1 .. Len(board) /\ DOMAIN board' = 1 .. Len(board')
      /\ Len(board) \in Nat
  OBVIOUS
<1>2. i = 1 \/ i - 1 \in DOMAIN board
  BY <1>1
<1>3. QED
  BY <1>1, <1>2

LEMMA DelistedInFront ==
  ASSUME board \in Seq(Postings), NEW d \in DOMAIN board, board' = RemoveAt(board, d),
         NEW i \in DOMAIN board'
  PROVE  /\ i \in DOMAIN board /\ i + 1 \in DOMAIN board
         /\ board'[i] = IF i < d THEN board[i] ELSE board[i + 1]
<1> DEFINE before == SubSeq(board, 1, d - 1)
           after  == SubSeq(board, d + 1, Len(board))
<1>1. /\ DOMAIN board = 1 .. Len(board) /\ Len(board) \in Nat /\ d \in 1 .. Len(board)
      /\ d \in Nat
  OBVIOUS
<1>2. /\ before \in Seq(Postings) /\ Len(before) = d - 1
      /\ \A k \in 1 .. d - 1 : before[k] = board[k]
  <2>1. d - 1 \in Nat /\ d - 1 <= Len(board) /\ d - 1 - 1 + 1 = d - 1
    BY <1>1
  <2>2. \A k \in 1 .. d - 1 : 1 + k - 1 = k
    BY <1>1
  <2>3. QED
    BY <1>1, <2>1, <2>2, PartOf
<1>3. /\ after \in Seq(Postings) /\ Len(after) = Len(board) - d
      /\ \A k \in 1 .. Len(board) - d : after[k] = board[d + k]
  <2>1. /\ d + 1 \in Nat \ {0} /\ Len(board) <= Len(board)
        /\ Len(board) - (d + 1) + 1 = Len(board) - d
    BY <1>1
  <2>2. /\ after \in Seq(Postings)
        /\ Len(after) = IF d + 1 <= Len(board) THEN Len(board) - (d + 1) + 1 ELSE 0
        /\ \A k \in 1 .. Len(board) - (d + 1) + 1 : after[k] = board[(d + 1) + k - 1]
    BY <1>1, <2>1, PartOf
  <2>3. \A k \in 1 .. Len(board) - d : (d + 1) + k - 1 = d + k
    BY <1>1
  <2> HIDE DEF after
  <2>4. Len(after) = Len(board) - d
    BY <1>1, <2>2
  <2>5. QED
    BY <2>1, <2>2, <2>3, <2>4
<1>4. board' = before \o after
  BY DEF RemoveAt
<1> HIDE DEF before, after
<1>5. /\ Len(board') = Len(before) + Len(after) /\ DOMAIN board' = 1 .. Len(board')
      /\ \A k \in 1 .. Len(before) + Len(after) :
            board'[k] = IF k <= Len(before) THEN before[k] ELSE after[k - Len(before)]
  <2>1. \A s, t \in Seq(Postings) :
           /\ s \o t \in Seq(Postings) /\ Len(s \o t) = Len(s) + Len(t)
           /\ \A k \in 1 .. Len(s) + Len(t) :
                 (s \o t)[k] = IF k <= Len(s) THEN s[k] ELSE t[k - Len(s)]
    BY ConcatProperties
  <2>2. \A t \in Seq(Postings) : DOMAIN t = 1 .. Len(t)
    OBVIOUS
  <2>3. /\ before \o after \in Seq(Postings)
        /\ Len(before \o after) = Len(before) + Len(after)
        /\ \A k \in 1 .. Len(before) + Len(after) :
              (before \o after)[k] = IF k <= Len(before) THEN before[k] ELSE after[k - Len(before)]
    BY <1>2, <1>3, <2>1, Zenon
  <2>4. DOMAIN (before \o after) = 1 .. Len(before \o after)
    BY <2>2, <2>3
  <2>5. QED
    BY <1>4, <2>3, <2>4, Zenon
<1>6. i \in Nat /\ 1 <= i /\ i <= Len(board) - 1
  BY <1>1, <1>2, <1>3, <1>5
<1>7. CASE i < d
  <2>1. board'[i] = before[i] /\ i \in 1 .. d - 1
    BY <1>1, <1>2, <1>3, <1>5, <1>6, <1>7
  <2>2. QED
    BY <1>1, <1>2, <1>6, <1>7, <2>1
<1>8. CASE i >= d
  <2>1. board'[i] = after[i - (d - 1)]
    BY <1>1, <1>2, <1>3, <1>5, <1>6, <1>8
  <2>2. i - (d - 1) \in 1 .. Len(board) - d
    BY <1>1, <1>6, <1>8
  <2>3. after[i - (d - 1)] = board[d + (i - (d - 1))]
    BY <1>3, <2>2
  <2>4. d + (i - (d - 1)) = i + 1
    BY <1>1, <1>6
  <2>5. QED
    BY <1>1, <1>6, <1>8, <2>1, <2>3, <2>4
<1>9. QED
  BY <1>1, <1>6, <1>7, <1>8

------------------------------------------------------------------------------
(* Types.                                                                  *)

LEMMA Constants ==
  /\ InvalidThreshold \in Nat \ {0} /\ PageLimit \in Nat \ {0}
  /\ MaxAttempts \in Nat /\ NoRun \notin Runs
BY SlugFetchAssumption

LEMMA CappedTyped ==
  ASSUME NEW n \in Nat
  PROVE  /\ Capped(n) \in 0 .. InvalidThreshold
         /\ Capped(n) = n \/ (Capped(n) = InvalidThreshold /\ n > InvalidThreshold)
BY Constants DEF Capped

LEMMA IdleTyped ==
  /\ Idle \in Run /\ \A pc \in RunPc : Ends(pc) \in Run
  /\ \A status \in {"ok", "invalid", "transient_error"} : Marks(status) \in Run
<1>1. 0 \in 0 .. InvalidThreshold
  BY Constants
<1>2. Idle \in Run
  BY <1>1 DEF Idle, Run, RunPc
<1>3. \A run \in Run, pc \in RunPc : [run EXCEPT !.pc = pc] \in Run
  BY DEF Run
<1>4. \A status \in {"ok", "invalid", "transient_error"} :
         [Idle EXCEPT !.pc = "mark", !.status = status] \in Run
  BY <1>2 DEF Run, RunPc
<1>5. QED
  BY <1>2, <1>3, <1>4 DEF Ends, Marks

LEMMA BecomesTyped ==
  ASSUME FetchTypeOK, NEW r \in Runs, NEW record \in Run, Becomes(r, record)
  PROVE  /\ runs' \in [Runs -> Run] /\ runs'[r] = record
         /\ \A q \in Runs : q # r => runs'[q] = runs[q]
BY DEF FetchTypeOK, Becomes

(* What an outcome makes of the row of slug_fetches.                       *)
LEMMA RecordedTyped ==
  ASSUME slug \in Slug, NEW status \in {"ok", "invalid", "transient_error"},
         NEW seen \in 0 .. InvalidThreshold
  PROVE  /\ Recorded(status, seen) \in Slug
         /\ status = "ok" => /\ Recorded(status, seen).misses = IF seen = 0 THEN slug.misses ELSE 0
                             /\ Recorded(status, seen).invalid = slug.invalid
         /\ status = "invalid" =>
               /\ Recorded(status, seen).misses = Capped(seen + 1)
               /\ Recorded(status, seen).invalid = (slug.invalid \/ Capped(seen + 1) >= InvalidThreshold)
         /\ status = "transient_error" => /\ Recorded(status, seen).misses = slug.misses
                                          /\ Recorded(status, seen).invalid = slug.invalid
<1> DEFINE attempted == IF slug.age = "none" THEN "never" ELSE slug.age
           reset == IF seen = 0 THEN slug.misses ELSE 0
<1>1. /\ attempted \in {"none", "never", "fresh", "stale"} /\ slug.invalid \in BOOLEAN
      /\ slug.misses \in 0 .. InvalidThreshold
  BY DEF Slug
<1>2. reset \in 0 .. InvalidThreshold
  BY <1>1, Constants
<1>3. Capped(seen + 1) \in 0 .. InvalidThreshold
  BY CappedTyped
<1>4. (slug.invalid \/ Capped(seen + 1) >= InvalidThreshold) \in BOOLEAN
  BY <1>1
<1> HIDE DEF attempted, reset
<1>5. ASSUME status = "ok"
      PROVE  Recorded(status, seen) = [slug EXCEPT !.age = "fresh", !.misses = reset]
  BY <1>5 DEF Recorded, Outcome, reset
<1>6. ASSUME status = "invalid"
      PROVE  Recorded(status, seen) =
               [age |-> attempted, misses |-> Capped(seen + 1),
                invalid |-> slug.invalid \/ Capped(seen + 1) >= InvalidThreshold]
  BY <1>6 DEF Recorded, Outcome, attempted
<1>7. ASSUME status = "transient_error"
      PROVE  Recorded(status, seen) = [slug EXCEPT !.age = attempted]
  BY <1>7 DEF Recorded, Outcome, attempted
<1>8. CASE status = "ok"
  BY <1>2, <1>5, <1>8 DEF Slug, reset
<1>9. CASE status = "invalid"
  <2>1. ASSUME NEW age \in {"none", "never", "fresh", "stale"},
               NEW misses \in 0 .. InvalidThreshold, NEW invalid \in BOOLEAN
        PROVE  LET s == [age |-> age, misses |-> misses, invalid |-> invalid]
               IN  s \in Slug /\ s.misses = misses /\ s.invalid = invalid
    BY DEF Slug
  <2>2. /\ Recorded(status, seen) \in Slug /\ Recorded(status, seen).misses = Capped(seen + 1)
        /\ Recorded(status, seen).invalid = (slug.invalid \/ Capped(seen + 1) >= InvalidThreshold)
    <3>1. PICK misses \in 0 .. InvalidThreshold : misses = Capped(seen + 1)
      BY <1>3
    <3>2. PICK invalid \in BOOLEAN : invalid = (slug.invalid \/ Capped(seen + 1) >= InvalidThreshold)
      BY <1>4
    <3>3. Recorded(status, seen) = [age |-> attempted, misses |-> misses, invalid |-> invalid]
      BY <1>6, <1>9, <3>1, <3>2
    <3>4. PICK age \in {"none", "never", "fresh", "stale"} : age = attempted
      BY <1>1
    <3>5. /\ Recorded(status, seen) \in Slug /\ Recorded(status, seen).misses = misses
          /\ Recorded(status, seen).invalid = invalid
      <4>1. Recorded(status, seen) = [age |-> age, misses |-> misses, invalid |-> invalid]
        BY <3>3, <3>4
      <4>2. QED
        BY <2>1, <4>1
    <3>6. QED
      BY <3>1, <3>2, <3>5, Zenon
  <2>3. QED
    BY <1>9, <2>2
<1>10. CASE status = "transient_error"
  BY <1>1, <1>7, <1>10 DEF Slug
<1>11. QED
  BY <1>8, <1>9, <1>10

------------------------------------------------------------------------------
(* A step of one run writes its record and leaves the board, the profiles  *)
(* and the other runs alone.                                               *)

LEMMA ReadPageTyped ==
  ASSUME FetchTypeOK, NEW r \in Runs, NEW reply \in Replies, ReadPage(r, reply)
  PROVE  FetchTypeOK'
<1> USE DEF FetchTypeOK
<1> DEFINE run == runs[r]
           page == IF FetchOutcome(Provider, reply) = "postings"
                   THEN Page(Provider, board, run.skip, PageLimit) ELSE <<>>
           todo == run.todo \union (ToSet(page) \ run.old)
           window == IF run.skip = 0 THEN recent ELSE run.window
<1>1. run \in Run /\ run.skip \in Nat /\ run.todo \subseteq Postings /\ run.window \subseteq Postings
  BY DEF Run
<1>2. ToSet(page) \subseteq Postings /\ Listed \subseteq Postings
  <2>1. ToSet(<<>>) = {}
    BY DEF ToSet
  <2>2. QED
    BY <1>1, <2>1, PageListed
<1>3. todo \subseteq Postings /\ window \subseteq Postings
  BY <1>1, <1>2
<1>4. /\ \/ hidden' = hidden
         \/ hidden' = hidden \union ((Listed \intersect window) \ todo)
      /\ \/ runs' = [runs EXCEPT ![r] = Marks("invalid")]
         \/ runs' = [runs EXCEPT ![r] = Marks("transient_error")]
         \/ runs' = [runs EXCEPT ![r] = Ends("failed")]
         \/ runs' = [runs EXCEPT ![r] = [Idle EXCEPT !.pc = "jobs", !.todo = todo, !.window = window]]
         \/ runs' = [runs EXCEPT ![r] = [run EXCEPT !.todo = todo, !.window = window, !.skip = @ + PageLimit]]
  BY DEF ReadPage, Becomes
<1> HIDE DEF page, todo, window
<1>5. [Idle EXCEPT !.pc = "jobs", !.todo = todo, !.window = window] \in Run
  BY <1>3, IdleTyped DEF Run, RunPc
<1>6. [run EXCEPT !.todo = todo, !.window = window, !.skip = @ + PageLimit] \in Run
  <2>1. run.skip + PageLimit \in Nat
    BY <1>1, Constants
  <2>2. QED
    BY <1>1, <1>3, <2>1 DEF Run
<1>7. Ends("failed") \in Run /\ Marks("invalid") \in Run /\ Marks("transient_error") \in Run
  BY IdleTyped DEF RunPc
<1>8. runs' \in [Runs -> Run]
  BY <1>4, <1>5, <1>6, <1>7
<1>9. hidden' \subseteq Postings
  BY <1>2, <1>4
<1>10. QED
  BY <1>8, <1>9 DEF ReadPage, boardVars

LEMMA LookUpTyped ==
  ASSUME FetchTypeOK, NEW r \in Runs, NEW j \in Postings, LookUpJob(r, j)
  PROVE  FetchTypeOK'
<1> USE DEF FetchTypeOK
<1>1. [runs[r] EXCEPT !.pc = "store", !.job = {j}, !.known = j \in jobs] \in Run
  <2>1. (j \in jobs) \in BOOLEAN /\ {j} \subseteq Postings
    OBVIOUS
  <2>2. \A known \in BOOLEAN, job \in SUBSET Postings :
           [runs[r] EXCEPT !.pc = "store", !.job = job, !.known = known] \in Run
    BY DEF Run, RunPc
  <2>3. QED
    BY <2>1, <2>2
<1>2. runs' \in [Runs -> Run]
  BY <1>1, BecomesTyped DEF LookUpJob
<1>3. QED
  BY <1>2 DEF LookUpJob, boardVars

LEMMA StoreTyped ==
  ASSUME FetchTypeOK, NEW r \in Runs, StoreJob(r)
  PROVE  FetchTypeOK'
<1> USE DEF FetchTypeOK
<1> DEFINE run == runs[r]
           record == [run EXCEPT !.pc = "jobs", !.todo = @ \ run.job, !.job = {},
                                 !.known = FALSE, !.offers = followers \X run.job]
<1>1. run \in Run /\ run.todo \subseteq Postings /\ run.job \subseteq Postings
      /\ run.offers \subseteq Offers
  BY DEF Run
<1>2. record \in Run
  <2>1. followers \X run.job \subseteq Offers /\ run.todo \ run.job \subseteq Postings
    BY <1>1 DEF Offers
  <2>2. QED
    BY <1>1, <2>1 DEF Run, RunPc
<1>3. \/ Becomes(r, Ends("failed")) /\ UNCHANGED <<jobs, apps>>
      \/ Becomes(r, record) /\ jobs' = jobs \union run.job /\ apps' = apps \union run.offers
  BY DEF StoreJob, StoreAndOffer, Interested
<1>4. Ends("failed") \in Run
  BY IdleTyped DEF RunPc
<1> HIDE DEF record
<1>5. runs' \in [Runs -> Run] /\ jobs' \subseteq Postings /\ apps' \subseteq Offers
  BY <1>1, <1>2, <1>3, <1>4, BecomesTyped
<1>6. QED
  BY <1>5 DEF StoreJob, StoreAndOffer, boardVars

LEMMA SlugReadTyped ==
  ASSUME FetchTypeOK, NEW r \in Runs, AllStored(r) \/ ReadSlug(r)
  PROVE  FetchTypeOK'
<1> USE DEF FetchTypeOK
<1>1. ASSUME NEW known \in BOOLEAN, NEW seen \in 0 .. InvalidThreshold
      PROVE  /\ [runs[r] EXCEPT !.pc = "write", !.known = known, !.seen = seen] \in Run
             /\ [runs[r] EXCEPT !.pc = "mark"] \in Run
  BY DEF Run, RunPc
<1>2. (slug.age # "none") \in BOOLEAN /\ slug.misses \in 0 .. InvalidThreshold
  BY DEF Slug
<1>3. runs' \in [Runs -> Run]
  BY <1>1, <1>2, BecomesTyped DEF AllStored, Stored, ReadSlug
<1>4. QED
  BY <1>3 DEF AllStored, Stored, ReadSlug, boardVars

(* A record of an outcome, seen from the row and the counter.              *)
LEMMA WriteSlugEffect ==
  ASSUME FetchTypeOK, NEW r \in Runs, WriteSlug(r)
  PROVE  /\ runs[r].pc = "write"
         /\ runs' \in [Runs -> Run] /\ runs'[r].pc \in {"failed", "retry", "done"}
         /\ \A q \in Runs : q # r => runs'[q] = runs[q]
         /\ UNCHANGED <<board, posted, aged, jobs, followers, row, crashes, wanted, hidden>>
         /\ \/ UNCHANGED <<recent, slug, apps, streak>>
            \/ /\ slug' = Recorded(runs[r].status, runs[r].seen)
               /\ streak' = Streak(runs[r].status, runs[r].seen)
               /\ apps' = apps \union runs[r].offers
               /\ WindowMoves(runs[r].status, runs[r].window)
<1>1. Ends("failed") \in Run /\ Ends("retry") \in Run /\ Ends("done") \in Run
  BY IdleTyped DEF RunPc
<1>2. Ends("failed").pc = "failed" /\ Ends("retry").pc = "retry" /\ Ends("done").pc = "done"
  BY DEF Ends, Idle
<1>3. Becomes(r, Ends("failed")) \/ Becomes(r, Ends("retry")) \/ Becomes(r, Ends("done"))
  BY DEF WriteSlug
<1>4. /\ runs' \in [Runs -> Run] /\ runs'[r].pc \in {"failed", "retry", "done"}
      /\ \A q \in Runs : q # r => runs'[q] = runs[q]
  BY <1>1, <1>2, <1>3, BecomesTyped
<1>5. QED
  BY <1>4 DEF WriteSlug

LEMMA WriteSlugTyped ==
  ASSUME FetchTypeOK, NEW r \in Runs, WriteSlug(r)
  PROVE  FetchTypeOK'
<1> USE DEF FetchTypeOK
<1>1. /\ runs[r].status \in {"ok", "invalid", "transient_error"}
      /\ runs[r].seen \in 0 .. InvalidThreshold /\ runs[r].offers \subseteq Offers
  BY DEF Run
<1>2. slug' \in Slug
  BY <1>1, WriteSlugEffect, RecordedTyped
<1>3. streak' \in 0 .. InvalidThreshold
  <2>1. Streak(runs[r].status, runs[r].seen) \in 0 .. InvalidThreshold
    <3>1. 0 \in 0 .. InvalidThreshold /\ InvalidThreshold \in 0 .. InvalidThreshold
      BY Constants
    <3>2. Capped(streak + 1) \in 0 .. InvalidThreshold
      BY CappedTyped
    <3>3. QED
      BY <3>1, <3>2 DEF Streak
  <2>2. QED
    BY <2>1, WriteSlugEffect
<1>4. recent' \subseteq recent
  BY WriteSlugEffect DEF WindowMoves
<1>5. apps' \subseteq Offers
  BY <1>1, WriteSlugEffect
<1>6. QED
  BY <1>2, <1>3, <1>4, <1>5, WriteSlugEffect

LEMMA FetchTypeStep == FetchTypeOK /\ [FetchNext]_fetchVars => FetchTypeOK'
<1> SUFFICES ASSUME FetchTypeOK, [FetchNext]_fetchVars
             PROVE  FetchTypeOK'
  OBVIOUS
<1> USE DEF FetchTypeOK
<1>1. ASSUME NEW j \in Postings, Publish(j)
      PROVE  FetchTypeOK'
  <2>1. board' \in Seq(Postings)
    BY <1>1, PublishedBoard DEF Publish
  <2>2. wanted' \subseteq Offers
    BY <1>1 DEF Publish, Offers
  <2>3. QED
    BY <1>1, <2>1, <2>2 DEF Publish
<1>2. ASSUME NEW j \in Postings, Delist(j)
      PROVE  FetchTypeOK'
  <2>1. \A i : Passed(i) \subseteq Postings
    BY DEF Passed, Listed, ToSet
  <2>2. QED
    BY <1>2, <2>1, DelistedBoard DEF Delist
<1>3. ASSUME NEW p \in Profiles, Follow(p) \/ Unfollow(p)
      PROVE  FetchTypeOK'
  BY <1>3 DEF Follow, Unfollow, boardVars
<1>11. ASSUME NEW j \in Postings, GrowsOld(j)
       PROVE  FetchTypeOK'
  BY <1>11 DEF GrowsOld
<1>4. CASE TimePasses
  <2>1. [slug EXCEPT !.age = "stale"] \in Slug
    BY DEF Slug
  <2>2. QED
    BY <1>4, <2>1 DEF TimePasses, boardVars
<1>5. CASE EnqueueStale
  <2>1. [live |-> TRUE, holder |-> NoRun, attempts |-> 0] \in Row
    BY Constants DEF Row
  <2>2. QED
    BY <1>5, <2>1 DEF EnqueueStale, EnqueueAged, boardVars
<1>6. ASSUME NEW r \in Runs, Begin(r)
      PROVE  FetchTypeOK'
  <2>1. [live |-> FALSE, holder |-> NoRun, attempts |-> 0] \in Row
    BY Constants DEF Row
  <2>2. row.attempts < MaxAttempts => [row EXCEPT !.holder = r, !.attempts = @ + 1] \in Row
    <3>1. row.attempts < MaxAttempts => row.attempts + 1 \in 0 .. MaxAttempts
      BY Constants DEF Row
    <3>2. QED
      BY <3>1 DEF Row
  <2>3. [Idle EXCEPT !.pc = "page", !.old = posted \ recent] \in Run
    BY IdleTyped DEF Run, RunPc
  <2>4. row' \in Row /\ runs' \in [Runs -> Run]
    BY <1>6, <2>1, <2>2, <2>3, BecomesTyped DEF Begin, BeginCapped
  <2>5. QED
    BY <1>6, <2>4 DEF Begin, BeginCapped, boardVars
<1>7. ASSUME NEW r \in Runs, FetchStep(r)
      PROVE  FetchTypeOK'
  <2>1. CASE Finish(r)
    <3>1. [live |-> FALSE, holder |-> NoRun, attempts |-> 0] \in Row
          /\ [row EXCEPT !.holder = NoRun] \in Row
      BY Constants DEF Row
    <3>2. row' \in Row /\ runs' \in [Runs -> Run]
      BY <2>1, <3>1, IdleTyped, BecomesTyped DEF Finish
    <3>3. QED
      BY <2>1, <3>2 DEF Finish, boardVars
  <2>2. QED
    BY <1>7, <2>1, ReadPageTyped, LookUpTyped, StoreTyped, SlugReadTyped, WriteSlugTyped DEF FetchStep
<1>8. ASSUME NEW r \in Runs, Crash(r)
      PROVE  FetchTypeOK'
  <2>1. [row EXCEPT !.holder = NoRun] \in Row
    BY DEF Row
  <2>2. row' \in Row /\ runs' \in [Runs -> Run]
    BY <1>8, <2>1, IdleTyped, BecomesTyped DEF Crash
  <2>3. QED
    BY <1>8, <2>2 DEF Crash, boardVars
<1>9. CASE UNCHANGED fetchVars
  BY <1>9 DEF fetchVars
<1>10. QED
  BY <1>1, <1>2, <1>3, <1>4, <1>5, <1>6, <1>7, <1>8, <1>9, <1>11 DEF FetchNext

LEMMA FetchTypeInit == FetchInit => FetchTypeOK
<1> SUFFICES ASSUME FetchInit PROVE FetchTypeOK
  OBVIOUS
<1>1. slug \in Slug /\ row \in Row /\ streak \in 0 .. InvalidThreshold
  BY Constants DEF FetchInit, Slug, Row
<1>2. runs \in [Runs -> Run] /\ board \in Seq(Postings)
  BY IdleTyped DEF FetchInit
<1>3. QED
  BY <1>1, <1>2 DEF FetchInit, FetchTypeOK

(* The board, the stored postings, the slug's row and the runs stay well   *)
(* typed.                                                                  *)
THEOREM FetchTypeCorrect == FetchSpec => []FetchTypeOK
BY FetchTypeInit, FetchTypeStep, PTL DEF FetchSpec

------------------------------------------------------------------------------
(* The inductive invariant.                                                *)

(* Who waits for a posting follows, and the posting was listed.            *)
WantedKnown == \A o \in wanted : o[1] \in followers /\ o[2] \in posted

(* The counter never runs ahead of the misses in a row.                    *)
MissesInRow == slug.misses <= streak

(* A run has seen its window posted, stores what it still has to store,    *)
(* and records an outcome when nothing is left.                            *)
TodoSpent ==
  \A r \in Runs : /\ runs[r].window \subseteq posted
                  /\ runs[r].pc = "store" => runs[r].job \subseteq runs[r].todo
                  /\ runs[r].pc \in {"mark", "write"} => runs[r].todo = {}

(* What a run may let fall out of the window is still to be stored by it,  *)
(* or stored and offered, at the latest with its next commit.              *)
KeepsResponse(r) ==
  runs[r].pc \in {"jobs", "store", "mark", "write"} /\ runs[r].status = "ok" =>
     \A o \in wanted :
        o[2] \in (Listed \intersect runs[r].window) \ hidden =>
           \/ o[2] \in runs[r].todo
           \/ o[2] \in jobs /\ o \in apps \union runs[r].offers
ResponsesKept == \A r \in Runs : KeepsResponse(r)

(* A run between two pages knows what is listed on the pages it has read:  *)
(* whatever of them is in its window, it stores, or it was made to miss.   *)
KeepsPages(r) ==
  runs[r].pc = "page" =>
     /\ runs[r].old \subseteq posted \ (recent \union runs[r].window)
     /\ \A i \in DOMAIN board :
           i <= runs[r].skip /\ board[i] \in runs[r].window => board[i] \in runs[r].todo \union hidden
PagesKept == \A r \in Runs : KeepsPages(r)

Fetching ==
  /\ FetchTypeOK /\ WantedKnown /\ MissesInRow /\ TodoSpent
  /\ PagesKept /\ ResponsesKept /\ NoPostingMissed

------------------------------------------------------------------------------
(* What every step leaves standing.                                        *)

(* Nothing stored or offered is taken back, and whoever begins to wait,    *)
(* waits for a posting that is new.                                        *)
Grows ==
  /\ jobs \subseteq jobs' /\ apps \subseteq apps' /\ hidden \subseteq hidden' /\ aged \subseteq aged'
  /\ posted \subseteq posted' /\ Listed' \intersect posted \subseteq Listed
  /\ recent' \intersect posted \subseteq recent
  /\ \A o \in wanted' : o \in wanted \/ (o[2] \notin posted /\ o[2] \in recent')

LEMMA EveryStepGrows ==
  ASSUME FetchTypeOK, WantedKnown, [FetchNext]_fetchVars
  PROVE  Grows /\ WantedKnown'
<1> USE DEF Grows, WantedKnown
<1>1. ASSUME NEW j \in Postings, Publish(j)
      PROVE  Grows /\ WantedKnown'
  <2>1. Listed' = Listed \union {j}
    BY <1>1, PublishedBoard DEF Publish, FetchTypeOK
  <2>2. \A o \in followers \X {j} : o[1] \in followers /\ o[2] = j
    OBVIOUS
  <2>3. QED
    BY <1>1, <2>1, <2>2 DEF Publish
<1>2. ASSUME NEW j \in Postings, Delist(j)
      PROVE  Grows /\ WantedKnown'
  <2>1. Listed' \subseteq Listed
    BY <1>2, DelistedBoard DEF Delist, FetchTypeOK
  <2>2. QED
    BY <1>2, <2>1 DEF Delist
<1>3. ASSUME NEW p \in Profiles, Follow(p) \/ Unfollow(p)
      PROVE  Grows /\ WantedKnown'
  BY <1>3 DEF Follow, Unfollow, boardVars, Listed
<1>8. ASSUME NEW j \in Postings, GrowsOld(j)
      PROVE  Grows /\ WantedKnown'
  BY <1>8 DEF GrowsOld, Listed
<1>4. CASE TimePasses \/ EnqueueStale
  BY <1>4 DEF TimePasses, EnqueueStale, EnqueueAged, boardVars, Listed
<1>5. ASSUME NEW r \in Runs, Begin(r) \/ Crash(r) \/ FetchStep(r)
      PROVE  Grows /\ WantedKnown'
  <2>1. CASE WriteSlug(r)
    <3>1. /\ UNCHANGED <<board, posted, aged, jobs, followers, wanted, hidden>> /\ apps \subseteq apps'
          /\ recent' \subseteq recent
      BY <2>1, WriteSlugEffect DEF WindowMoves
    <3>2. QED
      BY <3>1 DEF Listed
  <2>2. CASE StoreJob(r)
    <3>1. /\ UNCHANGED <<boardVars, followers, wanted, hidden>>
          /\ jobs \subseteq jobs' /\ apps \subseteq apps'
      BY <2>2 DEF StoreJob, StoreAndOffer
    <3>2. QED
      BY <3>1 DEF boardVars, Listed
  <2>3. ASSUME NEW reply \in Replies, ReadPage(r, reply)
        PROVE  Grows /\ WantedKnown'
    <3>1. UNCHANGED <<boardVars, jobs, followers, apps, wanted>> /\ hidden \subseteq hidden'
      BY <2>3 DEF ReadPage
    <3>2. QED
      BY <3>1 DEF boardVars, Listed
  <2>4. CASE \/ Begin(r) \/ Crash(r) \/ AllStored(r) \/ ReadSlug(r) \/ Finish(r)
             \/ \E j \in Postings : LookUpJob(r, j)
    <3>1. UNCHANGED <<boardVars, jobs, followers, apps, wanted, hidden>>
      BY <2>4 DEF Begin, BeginCapped, Crash, AllStored, Stored, ReadSlug, Finish, LookUpJob
    <3>2. QED
      BY <3>1 DEF boardVars, Listed
  <2>5. QED
    BY <1>5, <2>1, <2>2, <2>3, <2>4 DEF FetchStep
<1>6. CASE UNCHANGED fetchVars
  BY <1>6 DEF fetchVars, Listed
<1>7. QED
  BY <1>1, <1>2, <1>3, <1>4, <1>5, <1>6, <1>8 DEF FetchNext

(* A run that does not move keeps its response.                            *)
LEMMA KeptAside ==
  ASSUME NEW r \in Runs, KeepsResponse(r), runs[r].window \subseteq posted, WantedKnown,
         Grows, WantedKnown', runs'[r] = runs[r]
  PROVE  KeepsResponse(r)'
BY DEF KeepsResponse, Grows, WantedKnown

(* A step that takes nothing out of the window, or only what grew old.     *)
LEMMA MissedByNoStep ==
  ASSUME NoPostingMissed, Grows, WantedKnown, WantedKnown', recent \subseteq recent' \union aged'
  PROVE  NoPostingMissed'
BY DEF NoPostingMissed, Grows, WantedKnown

------------------------------------------------------------------------------
(* Steps of a run.                                                         *)

(* The invariant of the one run that moves.                                *)
Orderly(r) ==
  /\ runs[r].window \subseteq posted
  /\ runs[r].pc = "store" => runs[r].job \subseteq runs[r].todo
  /\ runs[r].pc \in {"mark", "write"} => runs[r].todo = {}

LEMMA SettledOrderly ==
  ASSUME NEW r \in Runs,
         \/ runs'[r] = Idle
         \/ \E pc \in {"done", "retry", "failed"} : runs'[r] = Ends(pc)
         \/ \E status \in {"invalid", "transient_error"} : runs'[r] = Marks(status)
  PROVE  Orderly(r)' /\ KeepsResponse(r)'
<1>1. /\ runs'[r].window = {} /\ runs'[r].todo = {} /\ runs'[r].pc # "store"
      /\ runs'[r].pc \in {"idle", "done", "retry", "failed"} \/ runs'[r].status # "ok"
  <2>1. Idle.window = {} /\ Idle.todo = {} /\ Idle.pc = "idle"
    BY DEF Idle
  <2>2. \A pc : Ends(pc).window = {} /\ Ends(pc).todo = {} /\ Ends(pc).pc = pc
    BY DEF Idle, Ends
  <2>3. \A status : /\ Marks(status).window = {} /\ Marks(status).todo = {}
                    /\ Marks(status).pc = "mark" /\ Marks(status).status = status
    BY DEF Idle, Marks
  <2>4. QED
    BY <2>1, <2>2, <2>3
<1>2. QED
  BY <1>1 DEF Orderly, KeepsResponse

LEMMA BeginOrderly ==
  ASSUME Fetching, NEW r \in Runs, Begin(r), runs'[r] # runs[r]
  PROVE  Orderly(r)' /\ KeepsResponse(r)'
<1>1. runs'[r] = [Idle EXCEPT !.pc = "page", !.old = posted \ recent]
  BY DEF Begin, BeginCapped, Becomes, Fetching, FetchTypeOK
<1>2. runs'[r].window = {} /\ runs'[r].pc = "page"
  BY <1>1 DEF Idle
<1>3. QED
  BY <1>2 DEF Orderly, KeepsResponse

(* A page and those before it hold what is listed that far.                *)
LEMMA PagesRead ==
  ASSUME Fetching, NEW r \in Runs, runs[r].pc = "page", NEW page,
         page = Page(Provider, board, runs[r].skip, PageLimit)
  PROVE  LET window == IF runs[r].skip = 0 THEN recent ELSE runs[r].window
             todo == runs[r].todo \union (ToSet(page) \ runs[r].old)
         IN  /\ \A i \in DOMAIN board :
                   /\ i <= runs[r].skip + PageLimit \/ LastPage(Provider, page, PageLimit)
                   /\ board[i] \in window
                   => board[i] \in todo \union hidden
             /\ LastPage(Provider, page, PageLimit)
                   => Listed \intersect window \subseteq todo \union hidden
<1> DEFINE window == IF runs[r].skip = 0 THEN recent ELSE runs[r].window
           todo == runs[r].todo \union (ToSet(page) \ runs[r].old)
<1>1. /\ board \in Seq(Postings) /\ runs[r].skip \in Nat
      /\ runs[r].old \intersect (recent \union runs[r].window) = {}
      /\ \A i \in DOMAIN board :
           i <= runs[r].skip /\ board[i] \in runs[r].window => board[i] \in runs[r].todo \union hidden
  BY DEF Fetching, FetchTypeOK, Run, PagesKept, KeepsPages
<1>2. ASSUME NEW i \in DOMAIN board, board[i] \in window,
             i <= runs[r].skip + PageLimit \/ LastPage(Provider, page, PageLimit)
      PROVE  board[i] \in todo \union hidden
  <2>1. CASE i > runs[r].skip
    <3>1. board[i] \in ToSet(page)
      <4>1. i \in Nat
        BY <1>1
      <4>2. QED
        BY <1>1, <1>2, <2>1, <4>1, PageShows
    <3>2. QED
      BY <1>1, <1>2, <3>1
  <2>2. CASE i <= runs[r].skip
    <3>1. i \in Nat \ {0}
      BY <1>1
    <3>2. runs[r].skip # 0
      BY <1>1, <2>2, <3>1
    <3>3. QED
      BY <1>1, <1>2, <2>2, <3>2
  <2>3. QED
    BY <1>1, <2>1, <2>2
<1>3. LastPage(Provider, page, PageLimit) => Listed \intersect window \subseteq todo \union hidden
  <2>1. \A l \in Listed : \E i \in DOMAIN board : board[i] = l
    BY DEF Listed, ToSet
  <2>2. QED
    BY <1>2, <2>1
<1>4. QED
  BY <1>2, <1>3

LEMMA ReadPageOrderly ==
  ASSUME Fetching, NEW r \in Runs, NEW reply \in Replies, ReadPage(r, reply)
  PROVE  Orderly(r)' /\ KeepsResponse(r)'
<1> USE DEF Fetching
<1> DEFINE run == runs[r]
           page == IF FetchOutcome(Provider, reply) = "postings"
                   THEN Page(Provider, board, run.skip, PageLimit) ELSE <<>>
           todo == run.todo \union (ToSet(page) \ run.old)
           window == IF run.skip = 0 THEN recent ELSE run.window
<1>1. window \subseteq posted /\ posted' = posted /\ wanted' = wanted /\ board' = board
  BY DEF TodoSpent, FetchTypeOK, ReadPage, boardVars
<1>2. /\ run.pc = "page"
      /\ \/ runs'[r] = Marks("invalid")
         \/ runs'[r] = Marks("transient_error")
         \/ runs'[r] = Ends("failed")
         \/ /\ runs'[r] = [Idle EXCEPT !.pc = "jobs", !.todo = todo, !.window = window]
            /\ Listed \intersect window \subseteq todo \union hidden'
         \/ runs'[r] = [run EXCEPT !.todo = todo, !.window = window, !.skip = @ + PageLimit]
  <2>1. FetchOutcome(Provider, reply) = "postings" /\ LastPage(Provider, page, PageLimit)
           => Listed \intersect window \subseteq todo \union hidden
    <3>1. run.pc = "page"
      BY DEF ReadPage
    <3>2. SUFFICES ASSUME FetchOutcome(Provider, reply) = "postings"
                   PROVE  LastPage(Provider, page, PageLimit)
                             => Listed \intersect window \subseteq todo \union hidden
      OBVIOUS
    <3>3. page = Page(Provider, board, runs[r].skip, PageLimit)
      BY <3>2
    <3> HIDE DEF page
    <3>4. QED
      BY <3>1, <3>3, PagesRead
  <2>2. QED
    BY <2>1 DEF ReadPage, Becomes, FetchTypeOK
<1> HIDE DEF page, todo, window
<1>3. CASE \E status \in {"invalid", "transient_error"} : runs'[r] = Marks(status)
  BY <1>3, SettledOrderly
<1>4. CASE runs'[r] = Ends("failed")
  BY <1>4, SettledOrderly
<1>5. CASE /\ runs'[r] = [Idle EXCEPT !.pc = "jobs", !.todo = todo, !.window = window]
           /\ Listed \intersect window \subseteq todo \union hidden'
  <2>1. runs'[r].pc = "jobs" /\ runs'[r].todo = todo /\ runs'[r].window = window
    BY <1>5 DEF Idle
  <2>2. Listed' = Listed
    BY <1>1 DEF Listed
  <2>3. QED
    BY <1>1, <1>5, <2>1, <2>2 DEF Orderly, KeepsResponse
<1>6. CASE runs'[r] = [run EXCEPT !.todo = todo, !.window = window, !.skip = @ + PageLimit]
  <2>1. runs'[r].pc = "page" /\ runs'[r].window = window
    <3>1. run \in Run
      BY DEF FetchTypeOK
    <3>2. \A n : [run EXCEPT !.todo = todo, !.window = window, !.skip = n].pc = run.pc
                 /\ [run EXCEPT !.todo = todo, !.window = window, !.skip = n].window = window
      BY <3>1 DEF Run
    <3>3. QED
      BY <1>2, <1>6, <3>2
  <2>2. QED
    BY <1>1, <2>1 DEF Orderly, KeepsResponse
<1>7. QED
  BY <1>2, <1>3, <1>4, <1>5, <1>6

LEMMA LookUpOrderly ==
  ASSUME Fetching, NEW r \in Runs, NEW j \in Postings, LookUpJob(r, j)
  PROVE  Orderly(r)' /\ KeepsResponse(r)'
<1> USE DEF Fetching
<1> DEFINE record == [runs[r] EXCEPT !.pc = "store", !.job = {j}, !.known = j \in jobs]
<1>1. /\ runs'[r] = record /\ runs[r].pc = "jobs" /\ j \in runs[r].todo
      /\ UNCHANGED <<boardVars, jobs, apps, wanted, hidden>>
  BY DEF LookUpJob, Becomes, FetchTypeOK
<1>2. /\ record.pc = "store" /\ record.job = {j} /\ record.todo = runs[r].todo
      /\ record.window = runs[r].window /\ record.status = runs[r].status
      /\ record.offers = runs[r].offers
  BY DEF FetchTypeOK, Run
<1> HIDE DEF record
<1>3. QED
  BY <1>1, <1>2 DEF Orderly, KeepsResponse, TodoSpent, ResponsesKept, boardVars, Listed

LEMMA StoreOrderly ==
  ASSUME Fetching, NEW r \in Runs, StoreJob(r)
  PROVE  Orderly(r)' /\ KeepsResponse(r)'
<1> USE DEF Fetching
<1> DEFINE run == runs[r]
           record == [run EXCEPT !.pc = "jobs", !.todo = @ \ run.job, !.job = {},
                                 !.known = FALSE, !.offers = followers \X run.job]
<1>1. /\ run.pc = "store" /\ UNCHANGED <<boardVars, followers, wanted, hidden>>
      /\ \/ runs'[r] = Ends("failed")
         \/ runs'[r] = record /\ jobs' = jobs \union run.job /\ apps' = apps \union run.offers
  BY DEF StoreJob, StoreAndOffer, Interested, Becomes, FetchTypeOK
<1>2. /\ record.pc = "jobs" /\ record.todo = run.todo \ run.job
      /\ record.window = run.window /\ record.status = run.status
      /\ record.offers = followers \X run.job
  BY DEF FetchTypeOK, Run
<1>3. run.job \subseteq run.todo /\ run.window \subseteq posted
  BY <1>1 DEF TodoSpent
<1>4. run.status = "ok" => \A o \in wanted :
         o[2] \in (Listed \intersect run.window) \ hidden =>
            o[2] \in run.todo \/ (o[2] \in jobs /\ o \in apps \union run.offers)
  BY <1>1 DEF ResponsesKept, KeepsResponse
<1>5. \A o \in wanted : o[2] \in run.job => o \in followers \X run.job
  BY DEF WantedKnown, FetchTypeOK, Offers
<1> HIDE DEF record, run
<1>6. CASE runs'[r] = Ends("failed")
  BY <1>6, SettledOrderly
<1>7. CASE runs'[r] = record /\ jobs' = jobs \union run.job /\ apps' = apps \union run.offers
  <2>1. Listed' = Listed /\ posted' = posted /\ wanted' = wanted /\ hidden' = hidden
    BY <1>1 DEF boardVars, Listed
  <2>2. Orderly(r)'
    BY <1>2, <1>3, <1>7, <2>1 DEF Orderly
  <2>3. KeepsResponse(r)'
    BY <1>2, <1>4, <1>5, <1>7, <2>1 DEF KeepsResponse
  <2>4. QED
    BY <2>2, <2>3
<1>8. QED
  BY <1>1, <1>6, <1>7

LEMMA MarkOrderly ==
  ASSUME Fetching, NEW r \in Runs, AllStored(r) \/ ReadSlug(r)
  PROVE  Orderly(r)' /\ KeepsResponse(r)'
<1> USE DEF Fetching
<1>1. UNCHANGED <<boardVars, jobs, apps, wanted, hidden>>
  BY DEF AllStored, Stored, ReadSlug
<1>2. /\ runs'[r].pc \in {"mark", "write"} /\ runs'[r].todo = {} /\ runs'[r].todo = runs[r].todo
      /\ runs'[r].window = runs[r].window /\ runs'[r].status = runs[r].status
      /\ runs'[r].offers = runs[r].offers /\ runs[r].pc \in {"jobs", "mark"}
  <2>1. runs \in [Runs -> Run]
    BY DEF FetchTypeOK
  <2>2. CASE AllStored(r)
    BY <2>1, <2>2 DEF AllStored, Stored, Becomes, Run
  <2>3. CASE ReadSlug(r)
    BY <2>1, <2>3 DEF ReadSlug, Becomes, Run, TodoSpent
  <2>4. QED
    BY <2>2, <2>3
<1>3. QED
  BY <1>1, <1>2 DEF Orderly, KeepsResponse, TodoSpent, ResponsesKept, boardVars, Listed

(* A recorded outcome: the window moves past the response of the run, with *)
(* everything of it stored and offered.                                    *)
LEMMA WriteKeepsAll ==
  ASSUME Fetching, NEW r \in Runs, WriteSlug(r), Grows, WantedKnown'
  PROVE  /\ Orderly(r)' /\ KeepsResponse(r)'
         /\ NoPostingMissed' /\ MissesInRow'
         /\ ~slug.invalid /\ slug'.invalid => streak' = InvalidThreshold
<1> USE DEF Fetching
<1> DEFINE run == runs[r]
<1>1. /\ run.pc = "write" /\ run.todo = {} /\ run.window \subseteq posted
      /\ run.status \in {"ok", "invalid", "transient_error"}
      /\ run.seen \in 0 .. InvalidThreshold
  BY WriteSlugEffect DEF TodoSpent, FetchTypeOK, Run
<1>2. Orderly(r)' /\ KeepsResponse(r)'
  <2>1. \E pc \in {"done", "retry", "failed"} : runs'[r] = Ends(pc)
    BY DEF WriteSlug, Becomes, FetchTypeOK
  <2>2. QED
    BY <2>1, SettledOrderly
<1>3. NoPostingMissed'
  <2>1. UNCHANGED <<board, posted, aged, wanted, hidden>> /\ Listed' = Listed
    BY WriteSlugEffect DEF Listed
  <2>2. CASE recent \subseteq recent'
    BY <2>2, MissedByNoStep
  <2>3. CASE ~(recent \subseteq recent')
    <3>1. run.status = "ok" /\ recent \ recent' \subseteq run.window /\ apps' = apps \union run.offers
      BY <2>3, WriteSlugEffect DEF WindowMoves
    <3>2. \A o \in wanted :
             o[2] \in (Listed \intersect run.window) \ hidden =>
                o[2] \in jobs /\ o \in apps \union run.offers
      BY <1>1, <3>1 DEF ResponsesKept, KeepsResponse
    <3>3. jobs' = jobs
      BY WriteSlugEffect
    <3> HIDE DEF run
    <3>4. QED
      BY <2>1, <3>1, <3>2, <3>3 DEF NoPostingMissed
  <2>4. QED
    BY <2>2, <2>3
<1>4. CASE UNCHANGED <<slug, streak>>
  BY <1>2, <1>3, <1>4 DEF MissesInRow
<1>5. CASE slug' = Recorded(run.status, run.seen) /\ streak' = Streak(run.status, run.seen)
  <2>1. /\ slug \in Slug /\ slug.misses \in 0 .. InvalidThreshold /\ streak \in 0 .. InvalidThreshold
        /\ slug.misses <= streak
    BY DEF FetchTypeOK, MissesInRow, Slug
  <2>2. CASE run.status = "ok"
    <3>1. slug'.misses = (IF run.seen = 0 THEN slug.misses ELSE 0) /\ slug'.invalid = slug.invalid
      BY <1>1, <1>5, <2>1, <2>2, RecordedTyped
    <3>2. streak' = IF run.seen # slug.misses THEN InvalidThreshold ELSE 0
      BY <1>5, <2>2 DEF Streak
    <3> HIDE DEF run
    <3>3. slug'.misses <= streak'
      BY <1>1, <2>1, <3>1, <3>2, Constants
    <3>4. QED
      BY <1>2, <1>3, <3>1, <3>3 DEF MissesInRow
  <2>3. CASE run.status = "invalid"
    <3>1. /\ slug'.misses = Capped(run.seen + 1)
          /\ slug'.invalid = (slug.invalid \/ Capped(run.seen + 1) >= InvalidThreshold)
      BY <1>1, <1>5, <2>1, <2>3, RecordedTyped
    <3>2. streak' = IF run.seen # slug.misses THEN InvalidThreshold ELSE Capped(streak + 1)
      BY <1>5, <2>3 DEF Streak
    <3>3. Capped(run.seen + 1) <= streak'
      <4> HIDE DEF run
      <4>1. QED
        BY <1>1, <2>1, <3>2, Constants DEF Capped
    <3>4. streak' \in 0 .. InvalidThreshold
      <4> HIDE DEF run
      <4>1. QED
        BY <2>1, <3>2, CappedTyped, Constants
    <3>5. Capped(run.seen + 1) >= InvalidThreshold => streak' = InvalidThreshold
      <4>1. Capped(run.seen + 1) \in 0 .. InvalidThreshold
        BY <1>1, CappedTyped
      <4>2. QED
        BY <3>3, <3>4, <4>1, Constants
    <3>6. QED
      BY <1>2, <1>3, <3>1, <3>3, <3>5 DEF MissesInRow
  <2>4. CASE run.status = "transient_error"
    <3>1. slug'.misses = slug.misses /\ slug'.invalid = slug.invalid /\ streak' = streak
      BY <1>1, <1>5, <2>1, <2>4, RecordedTyped DEF Streak
    <3>2. QED
      BY <1>2, <1>3, <2>1, <3>1 DEF MissesInRow
  <2>5. QED
    BY <1>1, <2>2, <2>3, <2>4
<1>6. QED
  BY <1>4, <1>5, WriteSlugEffect

------------------------------------------------------------------------------
(* The invariant is inductive.                                             *)

LEMMA FetchingInit == FetchInit => Fetching
<1> SUFFICES ASSUME FetchInit PROVE Fetching
  OBVIOUS
<1>1. wanted = {} /\ slug.misses = 0 /\ streak = 0
  BY DEF FetchInit
<1>2. \A r \in Runs : /\ runs[r].window = {} /\ runs[r].pc = "idle"
  BY DEF FetchInit, Idle
<1>3. QED
  BY <1>1, <1>2, FetchTypeInit DEF Fetching, WantedKnown, MissesInRow, TodoSpent, PagesKept,
     KeepsPages, ResponsesKept, KeepsResponse, NoPostingMissed

LEMMA RunMoves ==
  ASSUME Fetching, [FetchNext]_fetchVars, NEW r \in Runs, Begin(r) \/ FetchStep(r) \/ Crash(r)
  PROVE  /\ \A q \in Runs : q # r => runs'[q] = runs[q]
         /\ runs'[r] # runs[r] => Orderly(r)' /\ KeepsResponse(r)'
         /\ WriteSlug(r) \/ (recent' = recent /\ UNCHANGED <<slug, streak>>)
<1>1. Grows /\ WantedKnown'
  BY EveryStepGrows DEF Fetching
<1>2. runs \in [Runs -> Run]
  BY DEF Fetching, FetchTypeOK
<1>3. CASE WriteSlug(r)
  BY <1>1, <1>3, WriteKeepsAll, WriteSlugEffect DEF Fetching
<1>4. ASSUME NEW reply \in Replies, ReadPage(r, reply)
      PROVE  /\ \A q \in Runs : q # r => runs'[q] = runs[q]
             /\ Orderly(r)' /\ KeepsResponse(r)'
             /\ recent' = recent /\ UNCHANGED <<slug, streak>>
  BY <1>2, <1>4, ReadPageOrderly DEF ReadPage, Becomes, boardVars
<1>5. ASSUME NEW j \in Postings, LookUpJob(r, j)
      PROVE  /\ \A q \in Runs : q # r => runs'[q] = runs[q]
             /\ Orderly(r)' /\ KeepsResponse(r)'
             /\ recent' = recent /\ UNCHANGED <<slug, streak>>
  BY <1>2, <1>5, LookUpOrderly DEF LookUpJob, Becomes, boardVars
<1>6. CASE StoreJob(r)
  BY <1>2, <1>6, StoreOrderly DEF StoreJob, StoreAndOffer, Becomes, boardVars
<1>7. CASE AllStored(r) \/ ReadSlug(r)
  BY <1>2, <1>7, MarkOrderly DEF AllStored, Stored, ReadSlug, Becomes, boardVars
<1>8. CASE Finish(r) \/ Crash(r)
  <2>1. runs'[r] = Idle /\ \A q \in Runs : q # r => runs'[q] = runs[q]
    BY <1>2, <1>8 DEF Finish, Crash, Becomes
  <2>2. QED
    BY <1>8, <2>1, SettledOrderly DEF Finish, Crash, boardVars
<1>9. CASE Begin(r)
  BY <1>2, <1>9, BeginOrderly DEF Begin, BeginCapped, Becomes, boardVars
<1>10. QED
  BY <1>3, <1>4, <1>5, <1>6, <1>7, <1>8, <1>9 DEF FetchStep

(* Whoever moves, a run between two pages has what it has read.            *)
LEMMA PagesMoved ==
  ASSUME Fetching, NEW r \in Runs, NEW j \in Postings, Publish(j) \/ Delist(j)
  PROVE  KeepsPages(r)'
<1> SUFFICES ASSUME runs[r].pc = "page"
             PROVE  KeepsPages(r)'
  BY DEF Publish, Delist, KeepsPages
<1>1. /\ board \in Seq(Postings) /\ runs[r].skip \in Nat /\ runs[r].window \subseteq posted
      /\ runs[r].old \subseteq posted \ (recent \union runs[r].window)
      /\ \A i \in DOMAIN board :
           i <= runs[r].skip /\ board[i] \in runs[r].window => board[i] \in runs[r].todo \union hidden
  BY DEF Fetching, FetchTypeOK, Run, TodoSpent, PagesKept, KeepsPages
<1>2. CASE Publish(j)
  <2>1. /\ UNCHANGED <<runs, hidden>> /\ j \notin posted /\ board' = <<j>> \o board
        /\ posted' = posted \union {j} /\ recent' = recent \union {j}
    BY <1>2 DEF Publish
  <2>2. ASSUME NEW i \in DOMAIN board', i <= runs[r].skip, board'[i] \in runs[r].window
        PROVE  board'[i] \in runs[r].todo \union hidden
    <3>1. board'[i] # j
      BY <1>1, <2>1, <2>2
    <3>2. i - 1 \in DOMAIN board /\ board'[i] = board[i - 1]
      BY <1>1, <2>1, <3>1, PublishedInFront
    <3>3. i - 1 <= runs[r].skip
      <4>1. i - 1 \in Nat /\ i - 1 \in Int
        BY <1>1, <3>2
      <4>2. i \in Nat
        BY <1>1, <2>1, PublishedBoard
      <4>3. QED
        BY <1>1, <2>2, <4>1, <4>2
    <3>4. QED
      BY <1>1, <2>2, <3>2, <3>3
  <2>3. QED
    BY <1>1, <2>1, <2>2 DEF KeepsPages
<1>3. CASE Delist(j)
  <2>1. PICK d \in DOMAIN board : board' = RemoveAt(board, d) /\ hidden' = hidden \union Passed(d)
    BY <1>3 DEF Delist
  <2>2. UNCHANGED <<posted, recent, runs>>
    BY <1>3 DEF Delist
  <2>3. ASSUME NEW i \in DOMAIN board', i <= runs[r].skip, board'[i] \in runs[r].window
        PROVE  board'[i] \in runs[r].todo \union hidden'
    <3>1. /\ i \in DOMAIN board /\ i + 1 \in DOMAIN board
          /\ board'[i] = IF i < d THEN board[i] ELSE board[i + 1]
      BY <1>1, <2>1, DelistedInFront
    <3>2. i \in Nat /\ d \in Nat /\ i + 1 <= Len(board) /\ Len(board) \in Nat
      BY <1>1, <3>1
    <3>3. CASE i < d \/ i < runs[r].skip
      <4>1. PICK k \in {i, i + 1} : board'[i] = board[k] /\ k <= runs[r].skip /\ k \in DOMAIN board
        BY <1>1, <2>3, <3>1, <3>2, <3>3
      <4>2. QED
        BY <1>1, <2>1, <2>3, <4>1
    <3>4. CASE d <= i /\ i = runs[r].skip
      <4>1. /\ board'[i] = board[runs[r].skip + 1] /\ d <= runs[r].skip
            /\ runs[r].skip < Len(board) /\ board[runs[r].skip + 1] \in Listed
        BY <1>1, <3>1, <3>2, <3>4 DEF Listed, ToSet
      <4>2. board'[i] \in Passed(d)
        BY <4>1 DEF Passed
      <4>3. QED
        BY <2>1, <4>2
    <3>5. QED
      BY <1>1, <2>3, <3>2, <3>3, <3>4
  <2>4. QED
    BY <1>1, <2>2, <2>3 DEF KeepsPages
<1>4. QED
  BY <1>2, <1>3

LEMMA PagesTurned ==
  ASSUME Fetching, NEW r \in Runs, NEW reply \in Replies, ReadPage(r, reply)
  PROVE  KeepsPages(r)'
<1> DEFINE run == runs[r]
           page == IF FetchOutcome(Provider, reply) = "postings"
                   THEN Page(Provider, board, run.skip, PageLimit) ELSE <<>>
           todo == run.todo \union (ToSet(page) \ run.old)
           window == IF run.skip = 0 THEN recent ELSE run.window
           next == [run EXCEPT !.todo = todo, !.window = window, !.skip = @ + PageLimit]
<1>1. /\ run \in Run /\ run.pc = "page" /\ UNCHANGED <<board, posted, recent>>
      /\ run.old \subseteq posted \ (recent \union run.window)
  BY DEF Fetching, FetchTypeOK, ReadPage, boardVars, PagesKept, KeepsPages
<1>2. \/ runs'[r].pc # "page"
      \/ /\ FetchOutcome(Provider, reply) = "postings" /\ runs'[r] = next /\ hidden' = hidden
  <2>1. Marks("invalid").pc # "page" /\ Marks("transient_error").pc # "page"
    BY DEF Marks, Idle
  <2>2. Ends("failed").pc # "page"
    BY DEF Ends, Idle
  <2>4. runs \in [Runs -> Run]
    BY DEF Fetching, FetchTypeOK
  <2> HIDE DEF page, todo, window
  <2> DEFINE last == [Idle EXCEPT !.pc = "jobs", !.todo = todo, !.window = window]
  <2>3. last.pc # "page"
    BY DEF Idle
  <2>5. \/ runs'[r] = Marks("invalid")
        \/ runs'[r] = Marks("transient_error")
        \/ runs'[r] = Ends("failed")
        \/ runs'[r] = last
        \/ FetchOutcome(Provider, reply) = "postings" /\ runs'[r] = next /\ hidden' = hidden
    <3>1. LET o == FetchOutcome(Provider, reply) IN
             \/ Becomes(r, Marks("invalid"))
             \/ Becomes(r, Marks("transient_error"))
             \/ Becomes(r, Ends("failed"))
             \/ Becomes(r, last)
             \/ o = "postings" /\ Becomes(r, next) /\ hidden' = hidden
      <4>1. /\ [run EXCEPT !.todo = todo, !.window = window, !.skip = @ + PageLimit] = next
            /\ [Idle EXCEPT !.pc = "jobs", !.todo = todo, !.window = window] = last
        OBVIOUS
      <4> HIDE DEF next, last
      <4>2. QED
        BY <4>1 DEF ReadPage, page, todo, window
    <3> HIDE DEF next, last
    <3>2. QED
      BY <2>4, <3>1 DEF Becomes
  <2> HIDE DEF next, last
  <2>6. QED
    BY <2>1, <2>2, <2>3, <2>5, Zenon
<1>3. CASE FetchOutcome(Provider, reply) = "postings" /\ runs'[r] = next /\ hidden' = hidden
  <2>1. \A i \in DOMAIN board :
           i <= run.skip + PageLimit /\ board[i] \in window => board[i] \in todo \union hidden
    BY <1>1, <1>3, PagesRead
  <2> HIDE DEF page, todo, window
  <2>2. /\ next.pc = "page" /\ next.old = run.old /\ next.todo = todo /\ next.window = window
        /\ next.skip = run.skip + PageLimit
    BY <1>1 DEF Run
  <2>3. run.old \subseteq posted \ (recent \union window)
    BY <1>1 DEF window
  <2> HIDE DEF next, run
  <2>4. QED
    BY <1>1, <1>3, <2>1, <2>2, <2>3 DEF KeepsPages
<1>4. QED
  BY <1>2, <1>3 DEF KeepsPages

LEMMA PagesKeptStep ==
  ASSUME Fetching, [FetchNext]_fetchVars
  PROVE  PagesKept'
<1> SUFFICES ASSUME NEW r \in Runs
             PROVE  KeepsPages(r)'
  BY DEF PagesKept
<1>1. Grows /\ KeepsPages(r)
  BY EveryStepGrows DEF Fetching, PagesKept
<1>2. CASE board' = board /\ runs'[r] = runs[r]
  BY <1>1, <1>2 DEF KeepsPages, Grows
<1>3. CASE \E j \in Postings : Publish(j) \/ Delist(j)
  BY <1>3, PagesMoved
<1>4. ASSUME ~ \E j \in Postings : Publish(j) \/ Delist(j)
      PROVE  board' = board
  <2>1. CASE \/ \E p \in Profiles : Follow(p) \/ Unfollow(p)
             \/ \E j \in Postings : GrowsOld(j)
             \/ TimePasses \/ EnqueueStale \/ UNCHANGED fetchVars
    BY <2>1 DEF Follow, Unfollow, GrowsOld, TimePasses, EnqueueStale, EnqueueAged, boardVars, fetchVars
  <2>2. ASSUME NEW q \in Runs, Begin(q) \/ FetchStep(q) \/ Crash(q)
        PROVE  board' = board
    <3>1. WriteSlug(q) => board' = board
      BY DEF WriteSlug
    <3>2. QED
      BY <2>2, <3>1 DEF Begin, BeginCapped, FetchStep, ReadPage, LookUpJob, StoreJob,
         StoreAndOffer, AllStored, Stored, ReadSlug, Finish, Crash, boardVars
  <2>3. QED
    BY <1>4, <2>1, <2>2 DEF FetchNext
<1>5. ASSUME runs'[r] # runs[r]
      PROVE  Begin(r) \/ FetchStep(r) \/ Crash(r)
  <2>1. \A q \in Runs : Begin(q) \/ FetchStep(q) \/ Crash(q) => q = r
    BY <1>5, RunMoves
  <2>2. UNCHANGED runs \/ \E q \in Runs : Begin(q) \/ FetchStep(q) \/ Crash(q)
    BY DEF FetchNext, Publish, GrowsOld, Delist, Follow, Unfollow, TimePasses, EnqueueStale,
       EnqueueAged, fetchVars
  <2>3. QED
    BY <1>5, <2>1, <2>2
<1>6. ASSUME Begin(r) \/ FetchStep(r) \/ Crash(r), runs'[r] # runs[r], board' = board
      PROVE  KeepsPages(r)'
  <2>0. runs \in [Runs -> Run]
    BY DEF Fetching, FetchTypeOK
  <2>1. ASSUME Begin(r)
        PROVE  KeepsPages(r)'
    <3>1. runs'[r] = [Idle EXCEPT !.pc = "page", !.old = posted \ recent]
          /\ UNCHANGED <<board, posted, recent>>
      BY <1>6, <2>0, <2>1 DEF Begin, BeginCapped, Becomes, boardVars
    <3>2. /\ runs'[r].old = posted \ recent /\ runs'[r].window = {} /\ runs'[r].skip = 0
      BY <3>1 DEF Idle
    <3>3. QED
      BY <3>1, <3>2 DEF KeepsPages
  <2>2. ASSUME NEW reply \in Replies, ReadPage(r, reply)
        PROVE  KeepsPages(r)'
    BY <2>2, PagesTurned
  <2>3. ASSUME \/ \E j \in Postings : LookUpJob(r, j)
               \/ StoreJob(r) \/ AllStored(r) \/ ReadSlug(r) \/ WriteSlug(r)
               \/ Finish(r) \/ Crash(r)
        PROVE  runs'[r].pc # "page"
    <3>1. Idle.pc = "idle" /\ \A pc : Ends(pc).pc = pc
      BY DEF Idle, Ends
    <3>2. CASE WriteSlug(r)
      BY <3>2, WriteSlugEffect DEF Fetching
    <3>3. CASE \/ AllStored(r) \/ ReadSlug(r) \/ \E j \in Postings : LookUpJob(r, j)
      <4>1. \A j, known : [runs[r] EXCEPT !.pc = "store", !.job = j, !.known = known].pc = "store"
        BY <2>0 DEF Run
      <4>2. \A known, seen : [runs[r] EXCEPT !.pc = "write", !.known = known, !.seen = seen].pc = "write"
        BY <2>0 DEF Run
      <4>3. [runs[r] EXCEPT !.pc = "mark"].pc = "mark"
        BY <2>0 DEF Run
      <4>4. QED
        <5>1. CASE AllStored(r)
          <6>1. runs'[r] = [runs[r] EXCEPT !.pc = "mark"]
            BY <2>0, <5>1 DEF AllStored, Stored, Becomes
          <6>2. QED
            BY <4>3, <6>1
        <5>2. CASE ReadSlug(r)
          <6>1. \E known, seen :
                   runs'[r] = [runs[r] EXCEPT !.pc = "write", !.known = known, !.seen = seen]
            BY <2>0, <5>2 DEF ReadSlug, Becomes
          <6>2. QED
            BY <4>2, <6>1
        <5>3. ASSUME NEW j \in Postings, LookUpJob(r, j)
              PROVE  runs'[r].pc # "page"
          <6>1. \E job, known :
                   runs'[r] = [runs[r] EXCEPT !.pc = "store", !.job = job, !.known = known]
            BY <2>0, <5>3 DEF LookUpJob, Becomes
          <6>2. QED
            BY <4>1, <6>1
        <5>4. QED
          BY <3>3, <5>1, <5>2, <5>3
    <3>4. CASE StoreJob(r)
      <4> DEFINE record == [runs[r] EXCEPT !.pc = "jobs", !.todo = @ \ runs[r].job, !.job = {},
                                           !.known = FALSE, !.offers = followers \X runs[r].job]
      <4>1. runs'[r] = Ends("failed") \/ runs'[r] = record
        BY <2>0, <3>4 DEF StoreJob, StoreAndOffer, Interested, Becomes
      <4>2. record.pc # "page" /\ Ends("failed").pc # "page"
        BY <2>0, <3>1 DEF Run
      <4> HIDE DEF record
      <4>3. QED
        BY <4>1, <4>2, Zenon
    <3>5. CASE Finish(r) \/ Crash(r)
      BY <2>0, <3>1, <3>5 DEF Finish, Crash, Becomes
    <3>6. QED
      BY <2>3, <3>2, <3>3, <3>4, <3>5
  <2>4. QED
    BY <1>6, <2>1, <2>2, <2>3 DEF FetchStep, KeepsPages
<1>7. QED
  BY <1>2, <1>3, <1>4, <1>5, <1>6

LEMMA FetchingStep ==
  Fetching /\ [FetchNext]_fetchVars
     => Fetching' /\ (~slug.invalid /\ slug'.invalid => streak' = InvalidThreshold)
<1> SUFFICES ASSUME Fetching, [FetchNext]_fetchVars
             PROVE  /\ TodoSpent' /\ ResponsesKept' /\ NoPostingMissed' /\ MissesInRow'
                    /\ ~slug.invalid /\ slug'.invalid => streak' = InvalidThreshold
  BY FetchTypeStep, EveryStepGrows, PagesKeptStep DEF Fetching
<1>1. Grows /\ WantedKnown'
  BY EveryStepGrows DEF Fetching
<1>2. ASSUME NEW r \in Runs, runs'[r] = runs[r]
      PROVE  Orderly(r)' /\ KeepsResponse(r)'
  <2>1. Orderly(r) /\ KeepsResponse(r) /\ posted \subseteq posted'
    BY <1>1 DEF Fetching, TodoSpent, ResponsesKept, Orderly, Grows
  <2>2. QED
    BY <1>1, <1>2, <2>1, KeptAside DEF Orderly, Fetching
<1>3. ASSUME \A r \in Runs : Orderly(r)' /\ KeepsResponse(r)'
      PROVE  TodoSpent' /\ ResponsesKept'
  BY <1>3 DEF TodoSpent, ResponsesKept, Orderly
<1>4. ASSUME UNCHANGED runs, recent \subseteq recent' \union aged', slug'.misses = slug.misses,
             slug'.invalid = slug.invalid, streak' = streak
      PROVE  /\ TodoSpent' /\ ResponsesKept' /\ NoPostingMissed' /\ MissesInRow'
             /\ slug'.invalid = slug.invalid
  BY <1>1, <1>2, <1>3, <1>4, MissedByNoStep DEF Fetching, MissesInRow
<1>5. ASSUME NEW j \in Postings, Publish(j) \/ Delist(j)
      PROVE  UNCHANGED <<runs, slug, streak>> /\ recent \subseteq recent'
  BY <1>5 DEF Publish, Delist
<1>11. ASSUME NEW j \in Postings, GrowsOld(j)
       PROVE  UNCHANGED <<runs, slug, streak>> /\ recent \subseteq recent' \union aged'
  BY <1>11 DEF GrowsOld
<1>6. ASSUME NEW p \in Profiles, Follow(p) \/ Unfollow(p)
      PROVE  UNCHANGED <<runs, slug, streak, recent>>
  BY <1>6 DEF Follow, Unfollow, boardVars
<1>7. ASSUME TimePasses
      PROVE  UNCHANGED <<runs, streak, recent>> /\ slug'.misses = slug.misses /\ slug'.invalid = slug.invalid
  BY <1>7 DEF TimePasses, boardVars, Fetching, FetchTypeOK, Slug
<1>8. ASSUME EnqueueStale \/ UNCHANGED fetchVars
      PROVE  UNCHANGED <<runs, slug, streak, recent>>
  BY <1>8 DEF EnqueueStale, EnqueueAged, boardVars, fetchVars
<1>9. ASSUME NEW r \in Runs, Begin(r) \/ FetchStep(r) \/ Crash(r)
      PROVE  /\ TodoSpent' /\ ResponsesKept' /\ NoPostingMissed' /\ MissesInRow'
             /\ ~slug.invalid /\ slug'.invalid => streak' = InvalidThreshold
  <2>1. TodoSpent' /\ ResponsesKept'
    BY <1>2, <1>3, <1>9, RunMoves
  <2>2. CASE WriteSlug(r)
    BY <1>1, <2>1, <2>2, WriteKeepsAll
  <2>3. CASE recent' = recent /\ UNCHANGED <<slug, streak>>
    BY <1>1, <2>1, <2>3, MissedByNoStep DEF Fetching, MissesInRow
  <2>4. QED
    BY <1>9, <2>2, <2>3, RunMoves
<1>10. QED
  BY <1>4, <1>5, <1>6, <1>7, <1>8, <1>9, <1>11 DEF FetchNext

LEMMA FetchingInvariant == FetchSpec => []Fetching
BY FetchingInit, FetchingStep, PTL DEF FetchSpec

(* A posting that a good fetch let fall out of the window is stored and    *)
(* offered to every profile that waited for it, whatever crashed,          *)
(* overlapped or failed.  Before the first good fetch the window moves on  *)
(* by itself: what it loses then is in "aged".                             *)
THEOREM NothingMissed == FetchSpec => []NoPostingMissed
<1>1. Fetching => NoPostingMissed
  BY DEF Fetching
<1>2. QED
  BY <1>1, FetchingInvariant, PTL

(* Reading a board page by page, by position, while it is published to:    *)
(* whatever a run has passed over is what it stores, or what a delisting   *)
(* moved onto a page it had read, or an odd body left out.                 *)
THEOREM PagesComplete == FetchSpec => []PagesKept
<1>1. Fetching => PagesKept
  BY DEF Fetching
<1>2. QED
  BY <1>1, FetchingInvariant, PTL

(* A board is given up only after InvalidThreshold misses in a row.        *)
THEOREM MissesGiveUp == FetchSpec => GivenUpAfterMisses
<1>1. Fetching /\ [FetchNext]_fetchVars
         => [~slug.invalid /\ slug'.invalid => streak' = InvalidThreshold]_fetchVars
  BY FetchingStep
<1>2. QED
  BY <1>1, FetchingInvariant, PTL DEF FetchSpec, GivenUpAfterMisses
==============================================================================
