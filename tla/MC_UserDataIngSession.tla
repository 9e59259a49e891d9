------------------------ MODULE MC_UserDataIngSession ------------------------
(***************************************************************************)
(* Bounds for the exploration.  A refused POST is followed by deletions    *)
(* whose MB-SMF updates make the MBSF POST again, so the number of POSTs   *)
(* is not bounded by the specification.                                    *)
(***************************************************************************)
EXTENDS UserDataIngSession

CONSTANT MaxPosts    \* POSTs to the MBSTF that are explored

PostBound == Len(registry) <= MaxPosts

\* The removal of the service and a DELETE of the AF are explored one at a
\* time.
OneDeleter == svc => \A i \in DOMAIN del : del[i] = "none"
=============================================================================
