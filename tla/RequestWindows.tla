--------------------------- MODULE RequestWindows ---------------------------
(***************************************************************************)
(* What a rate limit promises, without saying how: every request is        *)
(* answered once, in one window, by whom the window has admitted already:  *)
(* it is admitted as long as those are fewer than the limit, and refused   *)
(* from then on.  RateLimit implements this (RateLimit!Windows) by a       *)
(* counter that also counts the requests it refuses.                       *)
(***************************************************************************)
EXTENDS Naturals, FiniteSets

CONSTANTS
    Requests,   \* requests of one key
    Starts,     \* the windows, by their start
    Limit       \* requests a window admits

VARIABLES
    admitted,   \* the requests each window has admitted
    refused     \* the requests each window has refused

windowVars == <<admitted, refused>>

WindowsInit ==
    /\ admitted = [w \in Starts |-> {}]
    /\ refused = [w \in Starts |-> {}]

Unanswered(r) == \A w \in Starts : r \notin admitted[w] \union refused[w]

Admit(r, w) ==
    /\ Unanswered(r)
    /\ Cardinality(admitted[w]) < Limit
    /\ admitted' = [admitted EXCEPT ![w] = @ \union {r}]
    /\ UNCHANGED refused

Refuse(r, w) ==
    /\ Unanswered(r)
    /\ Cardinality(admitted[w]) = Limit
    /\ refused' = [refused EXCEPT ![w] = @ \union {r}]
    /\ UNCHANGED admitted

WindowsNext == \E r \in Requests, w \in Starts : Admit(r, w) \/ Refuse(r, w)

WindowsSpec == WindowsInit /\ [][WindowsNext]_windowVars
==============================================================================
