--------------------------- MODULE MCCompanyBoards ---------------------------
(***************************************************************************)
(* Instances of CompanyBoards for TLC.                                     *)
(***************************************************************************)
EXTENDS CompanyBoards

CONSTANTS s1, s2, a1, a2
==============================================================================
