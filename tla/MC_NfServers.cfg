SPECIFICATION ServersSpec
CONSTANTS
    Documents <- MCDocuments
    SbiServers <- MCSbiServers
    Requests <- MCRequests
    DistSessions = {d1, d2}
    MaxQueue = 1
    None = None
CHECK_DEADLOCK FALSE
 
PROPERTY Stops
