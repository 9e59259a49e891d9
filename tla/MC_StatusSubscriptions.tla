----------------------- MODULE MC_StatusSubscriptions -----------------------
(***************************************************************************)
(* Two distribution sessions and two subscribers.                          *)
(***************************************************************************)
EXTENDS StatusSubscriptions

CONSTANTS d1, d2, ghost   \* ghost is a distribution session nobody has

MCDist == {d1, d2}
MCEventLists ==
    {<< <<"DIST_SESS_STARTING", d1>>, <<"USER_DATA_ING_SESS_STARTED", NoDist>>,
        <<"USER_SER_AD", NoDist>> >>,
     << <<"USER_DATA_ING_SESS_STARTING", NoDist>>, <<"USER_SER_AD", NoDist>>,
        <<"USER_DATA_ING_SESS_TERMINATED", NoDist>> >>,
     << <<"DIST_SESS_TERMINATED", d1>>, <<"DIST_SESS_TERMINATED", d2>> >>,
     << <<"USER_DATA_ING_SESS_STARTING", NoDist>>, <<"DIST_SESS_ACTIVATED", ghost>> >>,
     << <<UnknownEvent, NoDist>>, <<"USER_DATA_ING_SESS_STARTING", NoDist>>,
        <<UnknownEvent, d1>> >>}
R(type, time) == [type |-> type, time |-> time]
MCReportLists ==
    {<<R("SESSION_ACTIVATED", 2), R("DATA_INGEST_SESSION_ESTABLISHED", 1),
       R("SESSION_DEACTIVATED", 1)>>,
     <<R("SERVICE_MANAGEMENT_FAILURE", 3), R("DATA_INGEST_SESSION_TERMINATED", 1),
       R("SESSION_DEACTIVATED", 2)>>,
     <<R("DATA_INGEST_FAILURE", 0)>>,
     <<R(UnknownType, 1)>>}
=============================================================================
