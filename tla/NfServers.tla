------------------------------ MODULE NfServers ------------------------------
(***************************************************************************)
(* The network function around the components: Context::parseConfig makes  *)
(* the SBI servers of the configuration, App::initialise opens them, the   *)
(* event thread takes requests from the queue and offers each to the       *)
(* components' handlers in turn, assignNotificationServer makes the URL    *)
(* the MBSTF reports a distribution session's events to, and app_terminate *)
(* takes everything down from another thread (Context.cc, App.cc,          *)
(* Open5GSNetworkFunction.cc, MBSFEventHandler.cc, Nmb2Handler.cc).        *)
(*                                                                         *)
(* A configuration is a sequence of sections: the key, the kind of YAML    *)
(* node and the blocks under it.  An address is a record of family, host   *)
(* and port, where port 0 asks the system for one.  A server is its place  *)
(* in node, the sequence of the addresses servers know themselves by.      *)
(***************************************************************************)
EXTENDS Naturals, Sequences, FiniteSets, SequencesExt

CONSTANTS
    Documents,      \* the configurations the function is started with
    SbiServers,     \* addresses of the servers Open5GS makes of mbsf.sbi
    DistSessions,   \* distribution sessions (ingest session and key)
    Requests,       \* requests of AFs and of the NRF
    MaxQueue,       \* bound: events waiting in the queue
    None

IsSequence(x) == x \in Seq(ToSet(x))

(* No two servers are bound to one address.                                *)
ASSUME ServersAssumption ==
    /\ IsSequence(SbiServers) /\ IsInjective(SbiServers)
    /\ MaxQueue \in Nat \ {0}

(* A document is a sequence of sections, a section one of blocks, and the  *)
(* block of an API one of addresses.                                       *)
ASSUME DocumentsAssumption ==
    \A doc \in Documents :
        /\ IsSequence(doc.mbsf)
        /\ \A s \in ToSet(doc.mbsf) :
            /\ IsSequence(s.blocks)
            /\ s.key \in {"mbsUserServices", "mbsUserDataIngestSession"} =>
                   \A block \in ToSet(s.blocks) : IsSequence(block.addrs)

(* Context::ServerType *)
ServerTypes == {"OPEN5GS_SBI_SERVER", "MBS_USER_SERVICES",
                "MBS_USER_DATA_INGEST_SESSION", "MBS_NOTIFICATION_LISTENER"}

ApiKeys      == {"mbsUserServices", "mbsUserDataIngestSession"}
SettingKeys  == {"serverResponseCacheControl", "objectRepairParameters",
                 "userServiceAnnouncement"}
ScalarKeys   == {"activeDistributionSessionsSoftLimit", "activeUserServicesSoftLimit",
                 "actPeriodGoToEstablishedState"}
SettingNames == {"defaultMaxAge", "offsetTime", "docRoot", "mbr", "limit"}

TypeOfKey(key) == IF key = "mbsUserServices" THEN "MBS_USER_SERVICES"
                                             ELSE "MBS_USER_DATA_INGEST_SESSION"

AnyEphemeral == [family |-> "v4", host |-> "any", port |-> 0]

(* Where the system puts a server bound to port 0: a port no server has.   *)
(* That these may run out is not modelled.                                 *)
EphemeralPort(nodes) ==
    CHOOSE p \in 49152..(49152 + Len(nodes)) : \A i \in DOMAIN nodes : nodes[i].port # p

VARIABLES
    phase,          \* start-up and termination, as the main thread sees them
    document,       \* the configuration
    todo,           \* sections of mbsf still to be read
    settings,       \* cacheControl, objectRepairParameters, userServiceAnnouncement, capacity
    servers,        \* Context::servers: per type, a sequence of servers
    node,           \* ogs_sbi_server_t::node.addr of every server
    bind,           \* notificationBindAddress
    mbsaf,          \* addresses of the co-located MBS AF
    nfServices,     \* addresses of the two APIs registered at the NRF
    session,        \* distribution sessions: "new", "live" or "gone"
    url,            \* ContextData::mbstfNotificationUrl, known to the MBSTF
    notifServerMap, \* Context::m_notifServerMap
    queue,          \* ogs_app()->queue
    taken,          \* the event the event thread is dispatching, or None
    deadlocked      \* have threads of bundles and channel blocked each other?

config     == <<document, todo, settings, bind, mbsaf, nfServices>>
table      == <<servers, node>>
routes     == <<session, url, notifServerMap>>
events     == <<queue, taken, deadlocked>>
serverVars == <<phase, config, table, routes, events>>

Phases == {"config", "start", "running", "failed", "aborted",
           "unregistered", "destroyed", "queueTerminated", "joined", "closed"}

-----------------------------------------------------------------------------
(* Servers *)

(* Context::findServerForAddr: the servers of every type, in order; 0 is   *)
(* the null pointer.                                                       *)
findServerForAddr(svrs, nodes, addr) ==
    LET all == svrs["OPEN5GS_SBI_SERVER"] \o svrs["MBS_USER_SERVICES"]
               \o svrs["MBS_USER_DATA_INGEST_SESSION"] \o svrs["MBS_NOTIFICATION_LISTENER"]
        n   == SelectInSeq(all, LAMBDA i : nodes[i] = addr)
    IN  IF n = 0 THEN 0 ELSE all[n]

(* Context::serverIsType *)
serverIsType(i, type) == i \in ToSet(servers[type])

(* Context::newSbiServer: the server is started at once, and one bound to  *)
(* port 0 is given the address it really has.                              *)
NewNode(addr) ==
    IF addr.port = 0
    THEN [family |-> addr.family, host |-> addr.host, port |-> EphemeralPort(node)]
    ELSE addr

(* Mutant: a server found under another type is not added to this one.     *)
getServerForAddrFoundOnly(addr, type) ==
    LET found == findServerForAddr(servers, node, addr)
    IN  IF found = 0
        THEN [server |-> Len(node) + 1, node |-> Append(node, NewNode(addr)),
              servers |-> [servers EXCEPT ![type] = Append(@, Len(node) + 1)]]
        ELSE [server |-> found, node |-> node, servers |-> servers]

(* Context::getServerForAddr *)
getServerForAddr(addr, type) ==
    LET found == findServerForAddr(servers, node, addr)
    IN  IF found = 0
        THEN [server |-> Len(node) + 1, node |-> Append(node, NewNode(addr)),
              servers |-> [servers EXCEPT ![type] = Append(@, Len(node) + 1)]]
        ELSE [server |-> found, node |-> node,
              servers |-> [servers EXCEPT ![type] =
                              IF Contains(@, found) THEN @ ELSE Append(@, found)]]

(* The API servers of one address of Context::parseConfiguration.  A new   *)
(* server is not started before sbiOpen and keeps a port 0.                *)
AddApiServer(type, t, addr) ==
    LET found == findServerForAddr(t.servers, t.node, addr)
        i     == IF found = 0 THEN Len(t.node) + 1 ELSE found
    IN  [servers |-> [t.servers EXCEPT ![type] = Append(@, i)],
         node    |-> IF found = 0 THEN Append(t.node, addr) ELSE t.node]

(* Context::parseConfiguration: the IPv4 addresses of a block.             *)
parseConfiguration(key, t, block) ==
    FoldLeft(LAMBDA acc, a : IF a.family = "v4" THEN AddApiServer(TypeOfKey(key), acc, a) ELSE acc,
             t, block.addrs)

(* parseConfig's loop over the blocks of an API's section.                 *)
parseBlocks(key, t, bs) ==
    FoldLeft(LAMBDA acc, block : parseConfiguration(key, acc, block), t, bs)

(* The loop of parseConfiguration over the IPv6 addresses passes the       *)
(* cursor of the finished IPv4 loop, a null pointer, to the constructor of *)
(* the server.                                                             *)
HasIPv6(block) == \E i \in DOMAIN block.addrs : block.addrs[i].family = "v6"

-----------------------------------------------------------------------------
(* Context::parseConfig *)

(* The blocks a section is parsed with: the mapping itself, or of a        *)
(* sequence its first element (settings) or every element (the others).    *)
BlocksOf(s) ==
    IF s.node = "sequence" /\ s.key \in SettingKeys THEN SubSeq(s.blocks, 1, 1) ELSE s.blocks

(* A scalar node, or an empty sequence, of a setting's key leaves the loop *)
(* over the keys of mbsf.                                                  *)
EndsSection(s) ==
    s.key \in SettingKeys /\ (s.node = "scalar" \/ (s.node = "sequence" /\ s.blocks = <<>>))

(* parseCacheControl, parseObjectRepairParameters and the numbers of       *)
(* parseUserServiceAnnouncement: a value that is no number is reported and *)
(* the setting left as it is.                                              *)
ParseSettings(block) ==
    [n \in SettingNames |-> IF n \in DOMAIN block /\ block[n] # "bad" THEN block[n] ELSE settings[n]]

(* What makes a section throw, and so app_initialize fail.                 *)
Throws(s) ==
    \/ s.node = "other" /\ s.key \in ApiKeys \union SettingKeys \union {"notificationListener"}
    \/ /\ s.key = "userServiceAnnouncement" /\ s.node \in {"mapping", "sequence"} /\ ~EndsSection(s)
       /\ LET b == BlocksOf(s)[1]
          IN  "docRoot" \notin DOMAIN b \/ ("mbr" \in DOMAIN b /\ b.mbr = "bad")
    \/ s.key \in ScalarKeys /\ s.value = "bad"

(* Context::parseNotificationConfig: a bad port (None) leaves the address  *)
(* of an earlier block in place, and an unknown host none, as              *)
(* ogs_getaddrinfo clears it before it resolves; without a host the        *)
(* listener binds to any.                                                  *)
parseNotificationConfig(b, block) ==
    CASE block.port = None -> b
      [] block.port # None /\ block.host = "unknown" -> None
      [] OTHER -> [family |-> "v4", host |-> IF block.host = None THEN "any" ELSE block.host,
                   port |-> block.port]

ServersInit ==
    /\ phase = "config"
    /\ document \in Documents
    /\ todo = document.mbsf
    /\ settings = [n \in SettingNames |-> "default"]
    /\ servers = [t \in ServerTypes |->
                     IF t = "OPEN5GS_SBI_SERVER" THEN [i \in DOMAIN SbiServers |-> i] ELSE <<>>]
    /\ node = SbiServers
    /\ bind = None /\ mbsaf = {} /\ nfServices = [k \in ApiKeys |-> <<>>]
    /\ session = [d \in DistSessions |-> "new"]
    /\ url = [d \in DistSessions |-> None]
    /\ notifServerMap = {}
    /\ queue = <<>> /\ taken = None /\ deadlocked = FALSE

(* One key of mbsf. *)
ParseSection ==
    /\ phase = "config" /\ todo # <<>>
    /\ LET s  == Head(todo)
           bs == IF s.node \in {"mapping", "sequence"} THEN BlocksOf(s) ELSE <<>>
           t  == parseBlocks(s.key, [servers |-> servers, node |-> node], bs)
           crash == s.key \in ApiKeys /\ \E i \in DOMAIN bs : HasIPv6(bs[i])
       IN  /\ phase' = CASE Throws(s) -> "failed" [] crash -> "aborted" [] OTHER -> phase
           /\ todo' = IF EndsSection(s) THEN <<>> ELSE Tail(todo)
           /\ servers' = IF s.key \in ApiKeys THEN t.servers ELSE servers
           /\ node'    = IF s.key \in ApiKeys THEN t.node ELSE node
           /\ bind'    = IF s.key # "notificationListener" THEN bind
                         ELSE FoldLeft(parseNotificationConfig, bind, bs)
           /\ settings' = CASE s.key \in SettingKeys /\ bs # <<>> -> ParseSettings(bs[1])
                            [] s.key \in ScalarKeys -> [settings EXCEPT !["limit"] = s.value]
                            [] OTHER -> settings
    /\ UNCHANGED <<document, mbsaf, nfServices, routes, events>>

(* The rest of parseConfig: the mbsaf section and its servers.  Whether an *)
(* announcement channel exists is asked here and never true: the channel   *)
(* is made by a later POST of a user service.                              *)
StartUserServAnnServers ==
    /\ phase = "config" /\ todo = <<>>
    /\ mbsaf' = document.mbsaf
    /\ \E made \in BOOLEAN :    \* createUserServAnnRequestHandler
           phase' = IF mbsaf' # {} /\ ~made THEN "failed" ELSE "start"
    /\ UNCHANGED <<document, todo, settings, bind, nfServices, table, routes, events>>

(* Open5GSNetworkFunction::addAddressesToNFService *)
addAddressesToNFService(type) == [j \in DOMAIN servers[type] |-> node[servers[type][j]]]

(* App::initialise: both APIs are registered with the addresses of their   *)
(* servers, the servers are started, and the event thread begins.          *)
Initialise ==
    /\ phase = "start"
    /\ nfServices' = [k \in ApiKeys |-> addAddressesToNFService(TypeOfKey(k))]
    /\ phase' = "running"
    /\ UNCHANGED <<document, todo, settings, bind, mbsaf, table, routes, events>>

-----------------------------------------------------------------------------
(* The MBSTF's notifications *)

(* What the listener is to bind to. *)
ListenerAddress == IF bind = None THEN AnyEphemeral ELSE bind

(* Context::assignNotificationServer, called when the subscription of a    *)
(* distribution session is first built (make_mbstf_dist_session_...).      *)
assignNotificationServer(d) ==
    LET g == getServerForAddr(ListenerAddress, "MBS_NOTIFICATION_LISTENER")
        u == [addr |-> g.node[g.server], dist |-> d]
    IN  /\ servers' = g.servers
        /\ node' = g.node
        /\ url' = [url EXCEPT ![d] = u]
        /\ notifServerMap' = notifServerMap \union {<<u, d>>}

CreateSession(d) ==
    /\ phase = "running" /\ session[d] = "new"
    /\ session' = [session EXCEPT ![d] = "live"]
    /\ assignNotificationServer(d)
    /\ UNCHANGED <<phase, config, events>>

(* Nothing calls freeNotificationServer: the map keeps the URL, and the    *)
(* server stays.                                                           *)
RemoveSession(d) ==
    /\ phase = "running" /\ session[d] = "live"
    /\ session' = [session EXCEPT ![d] = "gone"]
    /\ UNCHANGED <<phase, config, table, url, notifServerMap, events>>

(* External: the server that answers at an address, 0 if none does.        *)
ListensAt(addr) ==
    LET at == {i \in DOMAIN node : node[i] = addr /\ addr.port # 0}
    IN  IF at = {} THEN 0 ELSE CHOOSE i \in at : TRUE

(* server_cb: the receiving server queues the request; a queue that is     *)
(* being terminated refuses it, and both are freed.                        *)
server_cb(r, i) ==
    /\ Len(queue) < MaxQueue
    /\ queue' = IF phase \in {"queueTerminated", "joined"} THEN queue
                ELSE Append(queue, [request |-> r, server |-> i])
    /\ UNCHANGED <<phase, config, table, routes, taken, deadlocked>>

Serving == phase \in {"running", "unregistered", "destroyed", "queueTerminated"}

Notification(d) ==
    [parses |-> TRUE, service |-> "notify", version |-> "v1", resource |-> "session",
     method |-> "POST", dist |-> d]

(* The MBSTF posts to the URL it was given, also after the session is gone. *)
MbstfNotifies(d) ==
    /\ Serving /\ url[d] # None
    /\ ListensAt(url[d].addr) # 0
    /\ server_cb(Notification(d), ListensAt(url[d].addr))

(* Any other request, at any server of the function. *)
RequestArrives(r, i) ==
    /\ Serving
    /\ server_cb(r, i)

-----------------------------------------------------------------------------
(* MBSFEventHandler::dispatch offers a request to the handlers in turn.    *)
(* Each says who answers, or "pass".                                       *)

UserServiceEvent(r) ==
    CASE ~r.parses                             -> "unanswered"
      [] r.parses /\ r.service # "nmbsf-mbs-us" -> "pass"
      [] OTHER -> IF r.version = "v1" /\ r.resource = "mbs-user-services" THEN "UserService" ELSE "error"

(* Resources other than its own are left to UserDataIngSession. *)
StatSubscEvent(r) ==
    CASE ~r.parses \/ r.service # "nmbsf-mbs-ud-ingest" -> "pass"
      [] r.parses /\ r.service = "nmbsf-mbs-ud-ingest" /\ r.version # "v1" -> "error"
      [] OTHER -> IF r.resource = "status-subscriptions" THEN "UserDataIngStatSubsc" ELSE "pass"

IngSessionEvent(r) ==
    CASE ~r.parses \/ r.service # "nmbsf-mbs-ud-ingest" -> "pass"
      [] OTHER -> IF r.version = "v1" /\ r.resource = "sessions" THEN "UserDataIngSession" ELSE "error"

(* Only requests on a notification listener; the session and its context   *)
(* are found by the two components of the URL.  A method other than POST   *)
(* falls through into the case of client answers, which has no response.   *)
Nmb2Event(r, i) ==
    CASE ~serverIsType(i, "MBS_NOTIFICATION_LISTENER") \/ ~r.parses -> "pass"
      [] serverIsType(i, "MBS_NOTIFICATION_LISTENER") /\ r.parses /\ r.method # "POST" -> "abort"
      [] OTHER -> IF r.service # "notify" THEN "pass"
                  ELSE IF session[r.dist] = "live" THEN "processStatusNotifyReqData" ELSE "error"

(* What the dispatcher does itself: the NRF's notifications, or an error.  *)
DefaultEvent(r) ==
    IF r.parses /\ r.service = "nnrf-nfm" /\ r.version = "v1" /\ r.resource = "nf-status-notify"
          /\ r.method = "POST"
    THEN "nrf" ELSE "error"

dispatch(r, i) ==
    LET offers == <<UserServiceEvent(r), StatSubscEvent(r), IngSessionEvent(r),
                    Nmb2Event(r, i), DefaultEvent(r)>>
    IN  offers[SelectInSeq(offers, LAMBDA o : o # "pass")]

-----------------------------------------------------------------------------
(* The event thread *)

Alive == phase \in {"running", "unregistered", "destroyed", "queueTerminated"}

(* eventThread pops an event and App::dispatchEvent reads m_eventHandler:  *)
(* without a handler the event is only freed.  A terminated queue gives    *)
(* out nothing more.                                                       *)
TakeEvent ==
    /\ Alive /\ phase # "queueTerminated" /\ taken = None /\ queue # <<>>
    /\ queue' = Tail(queue)
    /\ taken' = [event |-> Head(queue), handled |-> phase = "running"]
    /\ UNCHANGED <<phase, config, table, routes, deadlocked>>

(* The handlers run and the event is freed.  A handler that uses the       *)
(* Context after it was destroyed may end the process.                     *)
FinishEvent ==
    /\ Alive /\ taken # None
    /\ LET aborts == taken.handled /\ dispatch(taken.event.request, taken.event.server) = "abort"
           late == taken.handled /\ phase \in {"destroyed", "queueTerminated"}
       IN  \/ (aborts \/ late) /\ phase' = "aborted"
           \/ ~aborts /\ phase' = phase
    /\ taken' = None
    /\ UNCHANGED <<config, table, routes, queue, deadlocked>>

-----------------------------------------------------------------------------
(* app_terminate, in the main thread *)

(* The handler is unregistered and deleted. *)
Unregister ==
    /\ phase = "running"
    /\ phase' = "unregistered"
    /\ UNCHANGED <<config, table, routes, events>>

(* The threads that build and send announcements take two mutexes in both  *)
(* orders and may block each other (module ServiceAnnouncement).           *)
WorkersBlock ==
    /\ phase \in {"running", "unregistered"}
    /\ deadlocked' = TRUE
    /\ UNCHANGED <<phase, config, table, routes, queue, taken>>

(* App::~App resets the Context first: its tables and servers are gone.    *)
(* With it go the announcement channel and the bundles, whose destructors  *)
(* join their threads: one that is blocked is waited for without end, and  *)
(* one that still asks for the Context may end the process.                *)
DestroyContext ==
    /\ phase = "unregistered" /\ ~deadlocked
    /\ phase' \in {"destroyed", "aborted"}
    /\ servers' = [t \in ServerTypes |-> <<>>]
    /\ session' = [d \in DistSessions |-> "gone"]
    /\ UNCHANGED <<config, node, url, notifServerMap, events>>

(* Mutant: the network function waits for a thread nobody told to stop.    *)
TerminateQueueNot ==
    /\ phase = "destroyed"
    /\ phase' = "destroyed"
    /\ UNCHANGED <<config, table, routes, events>>

(* Open5GSNetworkFunction::~Open5GSNetworkFunction: ogs_queue_term and a   *)
(* notification of the poll set.                                           *)
TerminateQueue ==
    /\ phase = "destroyed"
    /\ phase' = "queueTerminated"
    /\ UNCHANGED <<config, table, routes, events>>

(* stopEventHandler joins the thread, which leaves its loop when it asks   *)
(* the queue for the next event.                                           *)
Join ==
    /\ phase = "queueTerminated" /\ taken = None
    /\ phase' = "joined"
    /\ UNCHANGED <<config, table, routes, events>>

(* sbiClose; what is still in the queue is never freed. *)
Close ==
    /\ phase = "joined"
    /\ phase' = "closed"
    /\ UNCHANGED <<config, table, routes, events>>

Startup   == ParseSection \/ StartUserServAnnServers \/ Initialise
Shutdown  == DestroyContext \/ TerminateQueue \/ Join \/ Close
EventLoop == TakeEvent \/ FinishEvent

ServersNext ==
    \/ ParseSection \/ StartUserServAnnServers \/ Initialise
    \/ \E d \in DistSessions : CreateSession(d) \/ RemoveSession(d) \/ MbstfNotifies(d)
    \/ \E r \in Requests, i \in DOMAIN node : RequestArrives(r, i)
    \/ TakeEvent \/ FinishEvent
    \/ WorkersBlock
    \/ Unregister \/ DestroyContext \/ TerminateQueue \/ Join \/ Close

(* The main thread runs app_initialize and app_terminate to their ends and *)
(* the event thread is scheduled; nobody has to send a request or to ask   *)
(* for the termination.                                                    *)
ServersSpec ==
    /\ ServersInit /\ [][ServersNext]_serverVars
    /\ WF_serverVars(Startup) /\ WF_serverVars(Shutdown) /\ WF_serverVars(EventLoop)

-----------------------------------------------------------------------------
ServersTypeOK ==
    /\ phase \in Phases
    /\ servers \in [ServerTypes -> Seq(DOMAIN node)]
    /\ Len(queue) <= MaxQueue
    /\ session \in [DistSessions -> {"new", "live", "gone"}]

(* A server that is configured with port 0 has the address the listener is *)
(* to bind to, so the listener is found to be that server, whose port      *)
(* nobody looked up.                                                       *)
SharesPortZero == \E i \in DOMAIN node : node[i] = ListenerAddress /\ node[i].port = 0

Owner(r) ==
    CASE r.service = "nmbsf-mbs-us" /\ r.resource = "mbs-user-services"           -> "UserService"
      [] r.service = "nmbsf-mbs-ud-ingest" /\ r.resource = "status-subscriptions" -> "UserDataIngStatSubsc"
      [] r.service = "nmbsf-mbs-ud-ingest" /\ r.resource = "sessions"             -> "UserDataIngSession"
      [] OTHER -> "none"

(* Context.cc:838, 900, Nmb2Handler.cc:107 and MBSFEventHandler.cc:48.     *)
(* While the function runs, a notification posted to the URL the MBSTF was *)
(* given for a live distribution session is received by a server and       *)
(* handed to that very session, whether the listener has a server of its   *)
(* own or shares one, unless the configuration gives an API server port 0  *)
(* at the listener's address: then the URL has port 0, and nothing that is *)
(* posted to it arrives.  In every configuration sharing takes no request  *)
(* of the two APIs away from the component that owns its resource.         *)
NotificationsReturn ==
    phase = "running" =>
        /\ \A d \in DistSessions : (session[d] = "live" /\ ~SharesPortZero) =>
            /\ ListensAt(url[d].addr) # 0
            /\ dispatch(Notification(d), ListensAt(url[d].addr)) = "processStatusNotifyReqData"
            /\ \A e \in DistSessions \ {d} : session[e] # "new" => url[e] # url[d]
        /\ \A r \in Requests, i \in DOMAIN node :
            (r.parses /\ r.version = "v1" /\ Owner(r) # "none") => dispatch(r, i) = Owner(r)

(* Open5GSNetworkFunction.cc:101.  Once termination began, the event       *)
(* thread stops and the servers are closed, whatever still arrives, unless *)
(* the process ended before or the threads of bundles and channel have     *)
(* blocked each other: then it waits for them for ever.                    *)
Stops == (phase = "unregistered") ~> (phase \in {"closed", "aborted"} \/ deadlocked)
=============================================================================
