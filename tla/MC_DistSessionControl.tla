----------------------- MODULE MC_DistSessionControl -----------------------
(* Schedules for DistSessionControl.                                       *)
EXTENDS DistSessionControl

\* The rest of one window, the gap, and the time before the next one.
NextWindow == <<"ACTIVE", "INACTIVE", "ESTABLISHED">>
=============================================================================
