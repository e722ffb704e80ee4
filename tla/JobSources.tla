----------------------------- MODULE JobSources -----------------------------
(***************************************************************************)
(* The adapters of the job boards (app/sources): what a reply of the board *)
(* means to fetch_jobs and to validate, and which postings a page holds.   *)
(***************************************************************************)
EXTENDS Naturals, Sequences, SequencesExt

(* The keys of SOURCES.                                                    *)
SOURCES == {"greenhouse", "lever", "ashby"}

(* No answer, a status, a body that is not JSON, JSON of another type than *)
(* the adapter expects, and the expected answer.                           *)
Replies == {"no answer", "404", "5xx", "other status", "not JSON", "other JSON", "postings"}

(* What fetch_jobs makes of a reply: InvalidSlugError, TransientFetchError,*)
(* another exception, or the postings, none of them when it takes an odd   *)
(* body for an empty board.                                                *)
Raised(reply) == IF reply = "404" THEN "invalid" ELSE "transient"

GreenhouseOutcome(reply) ==
    CASE reply = "postings"   -> "postings"
      [] reply = "other JSON" -> "error"
      [] OTHER                -> Raised(reply)

LeverOutcome(reply) ==
    CASE reply = "postings"   -> "postings"
      [] reply = "other JSON" -> "empty"
      [] OTHER                -> Raised(reply)

AshbyOutcome(reply) == LeverOutcome(reply)

FetchOutcome(provider, reply) ==
    CASE provider = "greenhouse" -> GreenhouseOutcome(reply)
      [] provider = "lever"      -> LeverOutcome(reply)
      [] OTHER                   -> AshbyOutcome(reply)

(* validate looks at the status only: a board exists, is missing, or the   *)
(* adapter raises TransientFetchError.                                     *)
ValidateOutcome(reply) ==
    CASE reply \in {"not JSON", "other JSON", "postings"} -> "exists"
      [] reply = "404"                                    -> "missing"
      [] OTHER                                            -> "error"

(* Lever is read page by page, by position in the list of the moment; the  *)
(* other boards answer with the whole list.                                *)
Page(provider, board, skip, limit) ==
    IF provider = "lever" THEN SubSeq(board, skip + 1, Min({skip + limit, Len(board)})) ELSE board

LastPage(provider, page, limit) == provider # "lever" \/ Len(page) < limit
===========================================================================
