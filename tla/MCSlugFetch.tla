----------------------------- MODULE MCSlugFetch -----------------------------
(***************************************************************************)
(* Instances of SlugFetch for TLC.  Executions of the job and postings are *)
(* interchangeable where no liveness is checked.                           *)
(***************************************************************************)
EXTENDS SlugFetch

CONSTANTS p1, p2, j1, j2, r1, r2

MCSymmetry == Permutations(Runs) \union Permutations(Postings)
==============================================================================
