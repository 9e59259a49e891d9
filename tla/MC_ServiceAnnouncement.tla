----------------------- MODULE MC_ServiceAnnouncement -----------------------
EXTENDS ServiceAnnouncement

CONSTANTS Twice, Once  \* a session announced again, and one announced once

MC_Session == {Twice, Once}
MC_Builds == (Twice :> 2) @@ (Once :> 1)
=============================================================================
