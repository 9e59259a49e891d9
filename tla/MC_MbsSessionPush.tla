-------------------------- MODULE MC_MbsSessionPush --------------------------
(* The specification has no unbounded state: the run is exhaustive.        *)
EXTENDS MbsSessionPush
=============================================================================
