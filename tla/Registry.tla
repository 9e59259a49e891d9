------------------------------ MODULE Registry ------------------------------
(***************************************************************************)
(* The northbound API and the registries behind it: user services          *)
(* (UserService.cc), the ingest sessions of each, the MBS Session Ids in   *)
(* use (Context.cc, UniqueMbsSessionId) and the count of services that     *)
(* need the announcement channel.  Requests reach UserService,             *)
(* UserDataIngStatSubsc, UserDataIngSession, ... in this order and finally *)
(* MBSFEventHandler itself; one that nobody claims is refused.             *)
(*                                                                         *)
(* What happens between the POST of an ingest session and its answer, and  *)
(* between its DELETE and the end of its last MBS session, is the subject  *)
(* of module UserDataIngSession; here each is one step.  A request that is *)
(* handled while LOCAL_REMOVE_EVENT is in the queue was there before it.   *)
(* An info without an MBS Session Id, which has neither an entry in the    *)
(* registry nor a context, is left out.                                    *)
(***************************************************************************)
EXTENDS UniqueMbsSessionId

CONSTANTS Service,    \* identifiers of user services
          Ingest,     \* identifiers of ingest sessions
          Key,        \* keys of distribution sessions, numbers, in map order
          Id,         \* unique MBS Session Ids, see UniqueId
          Reachable,  \* those with an SSM whose destination is an IP address
          Map,        \* what requests say: an id, or NoId, for each key
          MaxRequests \* requests handled, in all

\* What the map of contexts has for a key it does not have
NoId == GlobalSsm(-1)
NoService == "none"

ASSUME RegistryAssumption ==
    /\ IsFiniteSet(Service) /\ NoService \notin Service
    /\ IsFiniteSet(Ingest) /\ IsFiniteSet(Key) /\ Key \subseteq Nat
    /\ Id \subseteq UniqueIds /\ MaxRequests \in Nat
    /\ Reachable \subseteq Id /\ \A id \in Reachable : id.ssm # None
    /\ Map \subseteq [Key -> Id \cup {NoId}]

VARIABLES us,       \* per identifier: the UserService, see UserServiceState
          ing,      \* per identifier: the UserDataIngSession, see IngestState
          ids,      \* m_mbsSessionIds
          counter,  \* userServicesWithViaMbsDistSession
          channel,  \* is there an announcement channel?
          queue,    \* LOCAL_REMOVE_EVENTs
          requests, \* requests handled so far; each has its number as stream id
          answers,  \* per stream: the responses sent
          lost,     \* the streams that the AF has closed while they waited
          odd,      \* which of the unusual cases have come up, see Odd
          abort     \* "no", or why the process ended

vars == <<us, ing, ids, counter, channel, queue, requests, answers, lost, odd, abort>>

Stream == 1..MaxRequests
Removal == [service: Service, stream: Stream, ann: BOOLEAN]

\* A service: is it in the Context, does it require announcement, its
\* m_postDeleteEvent (a sequence of at most one) and its ingest sessions.
UserServiceState ==
    [there: BOOLEAN, ann: BOOLEAN, removal: {<< >>} \cup {<<e>> : e \in Removal},
     sessions: SUBSET Ingest]

\* An ingest session: its progress, the service it was created for, the stream
\* of its POST, m_deleteRequests, the keys in m_MBSUserDataIngSession, and the id
\* in each context of m_distributionSessionInfos.
IngestState ==
    [at: {"free", "creating", "there", "deleting", "orphan", "gone"},
     service: Service \cup {NoService}, post: 0..MaxRequests, deletes: SUBSET Stream,
     infos: SUBSET Key, ctx: [Key -> Id \cup {NoId}]]

\* unparsable: a request with headers that cannot be parsed
\* noid:       a DELETE without an identifier
\* malformed:  a body that does not fit the model
\* early:      a DELETE when the MBSTF has no session yet
\* window:     a request for a service whose removal is already in the queue
\* twice:      an ingest session with equal MBS Session Ids in two keys
\* moved:      a PUT that changes an area
\* halfway:    a PUT that stops at an MBS Session Id in use
\* readded:    a PUT that adds a key which another has removed
\* dropped:    a PUT that removes a key
\* contextless: a key whose MBS Session Id is not reachable
\* cyclic:     ids in use or asked for that operator<=> does not put in an order
\* left:       an AF that closes the stream of a request before it is handled, or
\*             that of a DELETE before its answer
Odd == {"unparsable", "noid", "malformed", "early", "window", "twice", "moved",
        "halfway", "readded", "dropped", "contextless", "cyclic", "left"}

-----------------------------------------------------------------------------
(* Answers.                                                                *)

\* The next request and its stream.
Receive == requests < MaxRequests /\ requests' = requests + 1
This == requests + 1

\* What is sent: there is nobody to send an answer to at a stream that is lost.
Answer(streams) == answers' = [r \in Stream |-> IF r \in streams \ lost THEN answers[r] + 1
                                                                        ELSE answers[r]]
Note(cases) == odd' = odd \cup cases

-----------------------------------------------------------------------------
(* The MBS Session Ids in use.                                             *)

\* haveMbsSessionId, deleteMbsSessionId: the sets that may come of it
Forget(set, id) ==
    UNION {IF found THEN SetErase(set, id) ELSE {set} : found \in SetContains(set, id)}

ForgetAll(set, list) ==
    FoldLeft(LAMBDA sets, id : UNION {Forget(t, id) : t \in sets}, {set}, list)
InsertAll(set, list) ==
    FoldLeft(LAMBDA sets, id : UNION {SetInsert(t, id) : t \in sets}, {set}, list)

CyclicWith(map) ==
    IF Cyclic((ToSet(ids) \cup {map[k] : k \in Key}) \ {NoId}) THEN {"cyclic"} ELSE {}

\* The keys as a map has them
InOrder(keys) ==
    CHOOSE ks \in [1..Cardinality(keys) -> keys] :
        ToSet(ks) = keys /\ \A m, n \in DOMAIN ks : m < n => ks[m] < ks[n]
IdsOf(map, keys) == LET ks == InOrder(keys) IN [n \in DOMAIN ks |-> map[ks[n]]]
Contexts(i) == {k \in Key : ing[i].ctx[k] # NoId}

\* Mutant: the ids of an ingest session are not given back.
ClearedNot(i) == {ids}

\* clearDistributionSessionInfos, in the destructor of an ingest session
ClearedFrom(set, i) == ForgetAll(set, IdsOf(ing[i].ctx, Contexts(i)))
Cleared(i) == ClearedFrom(ids, i)

\* ... and of ingest sessions that go together
AllCleared(is) ==
    FoldLeft(LAMBDA sets, i : UNION {ClearedFrom(t, i) : t \in sets}, {ids}, SetToSeq(is))

-----------------------------------------------------------------------------
(* User services.                                                          *)

\* UserService::find, and the test of the DELETE handler
Visible(s) == us[s].there /\ us[s].removal = << >>
RemovalQueued(s) == \E n \in DOMAIN queue : queue[n].service = s
InWindow(s) == IF RemovalQueued(s) THEN {"window"} ELSE {}

\* POST: checkAndSetUserServiceAnnouncementChannel, addUserService.  A model
\* error is thrown before there is anything to catch it.
PostService(s, ann, ok) ==
    /\ Receive /\ ~us[s].there /\ ~RemovalQueued(s)
    /\ IF ok
       THEN /\ us' = [us EXCEPT ![s] = [there |-> TRUE, ann |-> ann, removal |-> << >>,
                                        sessions |-> {}]]
            /\ counter' = IF ann THEN counter + 1 ELSE counter
            /\ channel' = (channel \/ ann)
            /\ Answer({This}) /\ UNCHANGED <<odd, abort>>
       ELSE /\ abort' = "uncaught" /\ Note({"malformed"})
            /\ UNCHANGED <<us, counter, channel, answers>>
    /\ UNCHANGED <<ing, ids, queue>>

\* Mutant: the change is counted by the new value only.
CounterAfterPutLoose(old, new) == IF new THEN counter + 1 ELSE counter

\* updateAnnChannelCounter
CounterAfterPut(old, new) ==
    CASE new /\ ~old -> counter + 1
      [] ~new /\ old -> counter - 1
      [] OTHER -> counter

\* PUT: update and updateAnnChannelCounter, which makes no channel
PutService(s, ann, ok) ==
    /\ Receive
    /\ CASE ~Visible(s) ->
              Answer({This}) /\ UNCHANGED <<us, counter, odd, abort>>
         [] Visible(s) /\ ok ->
              /\ us' = [us EXCEPT ![s].ann = ann]
              /\ counter' = CounterAfterPut(us[s].ann, ann)
              /\ Answer({This}) /\ Note(InWindow(s)) /\ UNCHANGED abort
         [] OTHER ->
              /\ abort' = "uncaught" /\ Note({"malformed"})
              /\ UNCHANGED <<us, counter, answers>>
    /\ UNCHANGED <<ing, ids, channel, queue>>

\* sendMbstfDelRequests: nothing is sent for a session the MBSTF does not have.
Deleting(i) == IF ing[i].at = "there" THEN [ing[i] EXCEPT !.at = "deleting"] ELSE ing[i]
Early(is) == IF \E i \in is : ing[i].at = "creating" THEN {"early"} ELSE {}

\* DELETE: remove and removeAllUserDataIngSessions.  Without ingest sessions the
\* event is queued, and m_postDeleteEvent reset, at once.
DeleteService(s) ==
    LET event == [service |-> s, stream |-> This, ann |-> us[s].ann]
    IN  /\ Receive
        /\ CASE ~Visible(s) -> Answer({This}) /\ UNCHANGED <<us, ing, queue, odd>>
             [] Visible(s) /\ us[s].sessions = {} ->
                  queue' = Append(queue, event) /\ Note(InWindow(s))
                  /\ UNCHANGED <<us, ing, answers>>
             [] OTHER ->
                  /\ us' = [us EXCEPT ![s].removal = <<event>>]
                  /\ ing' = [i \in Ingest |-> IF i \in us[s].sessions THEN Deleting(i)
                                                                      ELSE ing[i]]
                  /\ Note(Early(us[s].sessions) \cup InWindow(s))
                  /\ UNCHANGED <<queue, answers>>
        /\ UNCHANGED <<ids, counter, channel, abort>>

Discount(event) == IF event.ann THEN counter - 1 ELSE counter

\* LOCAL_REMOVE_EVENT: decAnnChannelCounter, deleteUserService and the answer.
\* With the service go its ingest sessions, but not their entries in the index.
\* Nobody catches what is thrown when there is no such service or, after it is
\* deleted, no such stream.
HandleRemoval ==
    /\ queue # << >>
    /\ LET e == Head(queue)
           left == us[e.service].sessions
       IN  IF us[e.service].there
           THEN /\ us' = [us EXCEPT ![e.service] = [@ EXCEPT !.there = FALSE, !.removal = << >>,
                                                             !.sessions = {}]]
                /\ ing' = [i \in Ingest |-> IF i \in left THEN [ing[i] EXCEPT !.at = "orphan"]
                                                          ELSE ing[i]]
                /\ ids' \in AllCleared(left)
                /\ Answer({e.stream})
                /\ abort' = IF e.stream \in lost THEN "uncaught" ELSE abort
           ELSE abort' = "uncaught" /\ UNCHANGED <<us, ing, ids, answers>>
    /\ counter' = Discount(Head(queue))
    /\ queue' = Tail(queue)
    /\ UNCHANGED <<channel, requests, odd>>

-----------------------------------------------------------------------------
(* Ingest sessions.                                                        *)

\* Context::findUserDataIngSession
Found(i) == ing[i].at \in {"creating", "there", "deleting"}

\* validate_state_setting_options: is an id in use?
InUse(map, keys) == {\E k \in keys : f[k] : f \in {g \in [keys -> BOOLEAN] :
                        \A k \in keys : g[k] \in SetContains(ids, map[k])}}

\* updateContexts: a context is only made for an id that is reachable.
ContextsFor(map, keys) ==
    [k \in Key |-> IF k \in keys /\ map[k] \in Reachable THEN map[k] ELSE NoId]
Contextless(map, keys) == IF \E k \in keys : map[k] \notin Reachable THEN {"contextless"} ELSE {}
Twice(map, keys) ==
    IF \E j, k \in keys : j # k /\ Compare(map[j], map[k]) = Equal THEN {"twice"} ELSE {}

\* POST: validation, addUserDataIngSession (a service that is being removed will
\* do), which registers every id, and processDistributionSessionInfo; map has the
\* ids of the keys
PostIngest(i, s, map) ==
    LET keys == {k \in Key : map[k] # NoId}
    IN  /\ Receive /\ ing[i].at = "free" /\ keys # {}
        /\ \E refused \in InUse(map, keys) :
            IF refused \/ ~us[s].there
            THEN Answer({This}) /\ UNCHANGED <<us, ing, ids, odd>>
            ELSE /\ us' = [us EXCEPT ![s].sessions = @ \cup {i}]
                 /\ ing' = [ing EXCEPT ![i] =
                        [at |-> "creating", service |-> s, post |-> This, deletes |-> {},
                         infos |-> keys, ctx |-> ContextsFor(map, keys)]]
                 /\ ids' \in InsertAll(ids, IdsOf(map, keys))
                 /\ Note(Twice(map, keys) \cup InWindow(s)
                         \cup (IF us[s].removal # << >> THEN {"early"} ELSE {})
                         \cup Contextless(map, keys) \cup CyclicWith(map))
                 /\ UNCHANGED answers
        /\ UNCHANGED <<counter, channel, queue, abort>>

\* Mutant: the service forgets that it is to be removed.
DeleteIngestForgets(i) ==
    LET s == ing[i].service
    IN  us' = [us EXCEPT ![s].sessions = @ \ {i}, ![s].removal = << >>] /\ UNCHANGED queue

\* Mutant: every one to go queues it.
DeleteIngestEach(i) ==
    LET s == ing[i].service
        last == us[s].sessions = {i}
    IN  /\ us' = [us EXCEPT ![s].sessions = @ \ {i},
                            ![s].removal = IF last THEN << >> ELSE @]
        /\ queue' = queue \o us[s].removal

\* UserService::deleteUserDataIngSession: the last one to go queues the event.
DeleteIngest(i) ==
    LET s == ing[i].service
        last == us[s].sessions = {i}
    IN  /\ us' = [us EXCEPT ![s].sessions = @ \ {i},
                            ![s].removal = IF last THEN << >> ELSE @]
        /\ queue' = IF last THEN queue \o us[s].removal ELSE queue

\* The MBS and MBSTF sessions of i exist; the POST is answered.  No answer comes
\* for a session without a context.
Established(i) ==
    /\ ing[i].at = "creating" /\ Contexts(i) # {}
    /\ ing' = [ing EXCEPT ![i].at = "there"]
    /\ Answer({ing[i].post})
    /\ UNCHANGED <<us, ids, counter, channel, queue, requests, odd, abort>>

\* setMBSSessionFailureFlag: they could not be created; i goes.
CreationFails(i) ==
    /\ ing[i].at = "creating" /\ Contexts(i) # {}
    /\ ing' = [ing EXCEPT ![i].at = "gone"]
    /\ Answer({ing[i].post})
    /\ DeleteIngest(i)
    /\ ids' \in Cleared(i)
    /\ UNCHANGED <<counter, channel, requests, odd, abort>>

\* setMBSSessionDeleted: the last MBS session is gone; the DELETEs are answered.
\* One whose stream is lost throws, after some of the others.
Deleted(i) ==
    /\ ing[i].at = "deleting"
    /\ IF ing[i].deletes \cap lost = {}
       THEN /\ ing' = [ing EXCEPT ![i].at = "gone"]
            /\ Answer(ing[i].deletes)
            /\ DeleteIngest(i)
            /\ ids' \in Cleared(i) /\ UNCHANGED abort
       ELSE /\ abort' = "uncaught"
            /\ \E told \in SUBSET ing[i].deletes : Answer(told)
            /\ UNCHANGED <<us, ing, ids, queue>>
    /\ UNCHANGED <<counter, channel, requests, odd>>

\* DELETE: sendMbstfDelRequests and pendingDeleteResponse
DeleteIngestRequest(i) ==
    /\ Receive
    /\ IF Found(i)
       THEN /\ ing' = [ing EXCEPT ![i] = [Deleting(i) EXCEPT !.deletes = @ \cup {This}]]
            /\ Note(Early({i})) /\ UNCHANGED answers
       ELSE Answer({This}) /\ UNCHANGED <<ing, odd>>
    /\ UNCHANGED <<us, ids, counter, channel, queue, abort>>

\* updateMBSDistributionSessionInfo: the areas change, the MBS Session Id does not.
Moved(old, new) == [old EXCEPT !.ncgis = new.ncgis, !.tais = new.tais]

\* A new key of a PUT: r has the ids in use, the keys taken before it, and
\* whether one of them was refused.
Take(r, map, k) ==
    IF r.refused THEN {r}
    ELSE UNION {IF found THEN {[r EXCEPT !.refused = TRUE]}
                ELSE {[r EXCEPT !.set = t, !.keys = @ \cup {k}] : t \in SetInsert(r.set, map[k])}
                : found \in SetContains(r.set, map[k])}

\* The keys of a PUT that are new are taken one after the other, up to the first
\* whose id is in use.
AddNew(set, map, list) ==
    FoldLeft(LAMBDA rs, k : UNION {Take(r, map, k) : r \in rs},
             {[set |-> set, keys |-> {}, refused |-> FALSE]}, list)

\* The loop over the infos erases those that are missing from the PUT from the
\* map it goes through: up to the first of them it sees every key, and from
\* there on any.
Walks(old, keys) ==
    {seen \in SUBSET old :
        seen = old \/ \E d \in old \ keys : {k \in old : k <= d} \subseteq seen}

\* ... and, when it comes to a key again, takes that for one that is missing.
Erased(seen, keys) ==
    {gone \in SUBSET seen : seen \ keys \subseteq gone /\ (seen \subseteq keys => gone = {})}

\* processUserDataIngSessionUpdate, when its loop has seen some of the keys and
\* erased others.  One that is erased loses its id and its info but keeps its
\* context; those of the PUT not seen are new and get their ids, and contexts
\* unless one of them is refused: then a second answer is sent after the error.
PutSeen(i, map, seen, gone) ==
    LET keys == {k \in Key : map[k] # NoId}
        new == keys \ seen
        moved == [k \in Key |-> IF k \in seen \cap keys THEN Moved(ing[i].ctx[k], map[k])
                                ELSE ing[i].ctx[k]]
        made == ContextsFor(map, new \ Contexts(i))
    IN  \E set \in ForgetAll(ids, IdsOf(moved, gone)) :
        \E r \in AddNew(set, map, InOrder(new)) :
            LET done == r.keys = new
            IN  /\ ids' = r.set
                /\ ing' = [ing EXCEPT ![i].infos = (@ \ gone) \cup r.keys,
                                      ![i].ctx = [k \in Key |->
                                            IF done /\ made[k] # NoId THEN made[k]
                                            ELSE moved[k]]]
                /\ answers' = [answers EXCEPT ![This] = @ + (IF done THEN 1 ELSE 2)]
                /\ Note(UNION {IF done THEN {} ELSE {"halfway"},
                               IF moved # ing[i].ctx THEN {"moved"} ELSE {},
                               IF new \cap Contexts(i) # {} THEN {"readded"} ELSE {},
                               IF gone # {} THEN {"dropped"} ELSE {},
                               Twice(map, keys), Contextless(map, new), CyclicWith(map)})

\* A key that the loop sees must have a context; once it has erased one, it may
\* as well end the process.
Put(i, map) ==
    LET keys == {k \in Key : map[k] # NoId}
    IN  \E seen \in Walks(ing[i].infos, keys) :
            IF ~(seen \subseteq Contexts(i))
            THEN abort' = "assert" /\ UNCHANGED <<ing, ids, answers, odd>>
            ELSE \/ /\ \E gone \in Erased(seen, keys) : PutSeen(i, map, seen, gone)
                    /\ UNCHANGED abort
                 \/ /\ ~(seen \subseteq keys)
                    /\ abort' = "memory" /\ Note({"dropped"}) /\ UNCHANGED <<ing, ids, answers>>

\* PUT
PutIngest(i, map, ok) ==
    /\ Receive /\ \E k \in Key : map[k] # NoId
    /\ CASE ~Found(i) -> Answer({This}) /\ UNCHANGED <<ing, ids, odd, abort>>
         [] Found(i) /\ ~ok ->
              abort' = "uncaught" /\ Note({"malformed"}) /\ UNCHANGED <<ing, ids, answers>>
         [] OTHER -> Put(i, map)
    /\ UNCHANGED <<us, counter, channel, queue>>

-----------------------------------------------------------------------------
(* Requests that change nothing: a GET, a wrong version, media type, path   *)
(* or method, an unknown API (MBSFEventHandler::dispatch), ...             *)

Refused == /\ Receive /\ Answer({This})
           /\ UNCHANGED <<us, ing, ids, counter, channel, queue, odd, abort>>

\* ... and those that UserService claims without an answer.
Ignored(case) ==
    /\ case \in {"unparsable", "noid"}
    /\ Receive /\ Note({case})
    /\ UNCHANGED <<us, ing, ids, counter, channel, queue, answers, abort>>

-----------------------------------------------------------------------------
(* The AF closes a stream, or its connection.                              *)

\* The requests that wait for a session to be created, and for one or for a
\* service to be deleted
Posts == {ing[i].post : i \in {j \in Ingest : ing[j].at = "creating"}}
Deletes == (UNION {ing[i].deletes : i \in {j \in Ingest : Found(j)}})
           \cup {us[s].removal[1].stream : s \in {t \in Service : us[t].removal # << >>}}
           \cup {queue[n].stream : n \in DOMAIN queue}

Close(r) ==
    /\ r \in (Posts \cup Deletes) \ lost
    /\ lost' = lost \cup {r}
    /\ Note(IF r \in Deletes THEN {"left"} ELSE {})
    /\ UNCHANGED <<us, ing, ids, counter, channel, queue, requests, answers, abort>>

\* The first handler takes the stream of a request that is not there any more.
Vanished ==
    /\ Receive /\ lost' = lost \cup {This}
    /\ abort' = "uncaught" /\ Note({"left"})
    /\ UNCHANGED <<us, ing, ids, counter, channel, queue, answers>>

-----------------------------------------------------------------------------
Init ==
    /\ us = [s \in Service |-> [there |-> FALSE, ann |-> FALSE, removal |-> << >>,
                                sessions |-> {}]]
    /\ ing = [i \in Ingest |-> [at |-> "free", service |-> NoService, post |-> 0,
                                deletes |-> {}, infos |-> {}, ctx |-> [k \in Key |-> NoId]]]
    /\ ids = << >> /\ counter = 0 /\ channel = FALSE /\ queue = << >>
    /\ requests = 0 /\ answers = [r \in Stream |-> 0] /\ lost = {}
    /\ odd = {} /\ abort = "no"

Handle ==
    \/ \E s \in Service, ann, ok \in BOOLEAN : PostService(s, ann, ok) \/ PutService(s, ann, ok)
    \/ \E s \in Service : DeleteService(s)
    \/ \E i \in Ingest, s \in Service, map \in Map : PostIngest(i, s, map)
    \/ \E i \in Ingest, map \in Map, ok \in BOOLEAN : PutIngest(i, map, ok)
    \/ \E i \in Ingest : DeleteIngestRequest(i) \/ Established(i) \/ CreationFails(i) \/ Deleted(i)
    \/ HandleRemoval
    \/ Refused \/ \E case \in Odd : Ignored(case)

Next == abort = "no" /\ \/ Handle /\ UNCHANGED lost
                        \/ Vanished
                        \/ \E r \in Stream : Close(r)

Spec == Init /\ [][Next]_vars

-----------------------------------------------------------------------------
(* Properties.                                                             *)

Services == {s \in Service : us[s].there}

\* The count that decides whether the announcement channel is needed is exact:
\* it is the number of services that require it.  (A request that meets a
\* service whose removal is already queued can put it wrong for good: the flag
\* in the event is that of the time of the DELETE.)
CounterExact ==
    "window" \notin odd => counter = Cardinality({s \in Services : us[s].ann})

\* No exception escapes, except for a body that does not fit the model, a second
\* removal of a service, or an AF that does not wait for its request to be handled
\* or for the answer to its DELETE (one that does not wait for the answer to its
\* POST does no harm); no assertion fails, except in a PUT after one that
\* stopped half way or when an MBS Session Id is not reachable; and no memory is
\* used that has been given back, except in a PUT that drops a key.
HandlersSafe ==
    /\ abort = "uncaught" => odd \cap {"malformed", "window", "left"} # {}
    /\ abort = "assert" => odd \cap {"halfway", "contextless"} # {}
    /\ abort = "memory" => "dropped" \in odd

\* The ids in use by distribution sessions that exist.
Used == {u \in Ingest \X Key : Found(u[1]) /\ u[2] \in ing[u[1]].infos}
IdAt(u) == ing[u[1]].ctx[u[2]]

\* No two distribution sessions have MBS Session Ids that clash, and the registry
\* has the ids of those that exist and no other, as long as no request
\* has clashing ids itself or one that is not reachable, which is registered but
\* never given back, no PUT has dropped, added again or moved one or has
\* stopped half way, and operator<=> is an order on the ids in use and asked for.
IdsExact ==
    odd \cap {"twice", "moved", "halfway", "readded", "dropped", "contextless", "cyclic"} = {}
    => /\ ToSet(ids) = {IdAt(u) : u \in Used}
       /\ \A u, v \in Used : u # v => ~Clash(IdAt(u), IdAt(v))

\* Nothing is to come.  (For a session without a context nothing ever does.)
Idle == queue = << >> /\ \A i \in Ingest : Contexts(i) # {} =>
                                ing[i].at \notin {"creating", "deleting"}

\* A request is answered once: at most once, except for a PUT that stopped half
\* way, and at least once when all is done, unless the AF has closed its stream,
\* also when its answer had to wait for other sessions, services or messages.
AnsweredOnce ==
    abort = "no" =>
        /\ "halfway" \notin odd => \A r \in Stream : answers[r] <= 1
        /\ Idle /\ odd \cap {"unparsable", "noid", "early", "window", "contextless"} = {}
           => \A r \in 1..requests \ lost : answers[r] >= 1
=============================================================================
