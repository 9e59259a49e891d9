-------------------------- MODULE UserDataIngSession --------------------------
(***************************************************************************)
(* The life of one MBS User Data Ingest Session in the MBSF, from the      *)
(* POST of an application function (AF) to its removal: the MBS Session    *)
(* each distribution session needs at the MB-SMF, the distribution         *)
(* sessions at the MBSTF, the replies to the AF, and the deletion asked    *)
(* for by the AF or by the removal of the MBS User Service.                *)
(*                                                                         *)
(* The MBSF is one event loop over one FIFO queue (ogs_app()->queue):      *)
(* requests, replies, timer expiries and the MBSF's own local events all   *)
(* pass through it, and a handler runs to its end before the next event is *)
(* taken.  One action handles one kind of event.  The peers answer in any  *)
(* order; the MB-SMF answers in order for one MBS Session.                 *)
(*                                                                         *)
(* State changes driven by active periods and by PUT are not modelled here.*)
(***************************************************************************)
EXTENDS MBSMFMBSSession, Naturals, FiniteSets

CONSTANTS NumKeys,     \* distribution session infos in the POSTed session
          MaxDeletes,  \* DELETE requests the AF sends for the session
          MaxFaults,   \* unfavourable events, at most
          InitialStatuses, \* activity statuses an info may start with
          Faults       \* the kinds of unfavourable events that may happen

FaultKinds == {"unresolved",  \* an SSM address that createMbsSession rejects
               "smfError",    \* the MB-SMF answers with an error
               "stfError",    \* the MBSTF answers a POST or DELETE with an error
               "timeout",     \* the CLIENT_WAIT timer expires before the answer
               "afGone",      \* the AF drops the stream it waits on
               "serviceDelete"} \* the MBS User Service is removed meanwhile

ASSUME BoundsAssumption ==
    /\ NumKeys \in Nat \ {0} /\ MaxDeletes \in Nat /\ MaxFaults \in Nat
    /\ InitialStatuses \subseteq ActivityStatus /\ InitialStatuses # {}
    /\ Faults \subseteq FaultKinds

Keys == 1..NumKeys

VARIABLES
    session,   \* "none", "live" (in the Context's index) or "gone"
    ctx,       \* m_distributionSessionInfos: the ContextData of each key
    mbs,       \* the MBSMFMBSSession of each key
    registry,  \* s_distSessionIdRegistry: the key of each MBSTF session id
    xacts,     \* the SBI transactions that exist, by id
    queue,     \* the event queue
    wire,      \* requests the MBSTF has not answered
    mbstf,     \* the distribution sessions that exist at the MBSTF
    post,      \* the AF's POST
    del,       \* the AF's DELETEs; "pending" ones are in m_deleteRequests
    svc,       \* whether the MBS User Service was asked to go
    faults,    \* how many faults have happened
    abort      \* "no", or why the process ended

vars == <<session, ctx, mbs, registry, xacts, queue, wire, mbstf, post, del,
          svc, faults, abort>>
peers == <<wire, mbstf>>
af == <<post, del, svc>>

Methods == {"POST", "DELETE"}
Xact == [xid: Nat, method: Methods, id: Nat, armed: BOOLEAN]

Event ==
    [type: {"AF_DELETE"}, req: 1..MaxDeletes]
        \cup [type: {"SERVICE_DELETE"}]
        \cup [type: {"SMF_REPLY"}, key: Keys, ok: BOOLEAN, problem: BOOLEAN]
        \cup [type: {"CREATE_RESULT"}, key: Keys, ok: BOOLEAN, problem: BOOLEAN]
        \cup [type: {"DELETED", "REQ_BUILD"}, key: Keys]
        \cup [type: {"DELETE_SESSION"}, id: Nat]
        \cup [type: {"CLIENT"}, xid: Nat, method: Methods, id: Nat, ok: BOOLEAN]
        \cup [type: {"CLIENT_WAIT"}, xid: Nat]

TypeOK ==
    /\ session \in {"none", "live", "gone"}
    /\ ctx \in [Keys -> [status: {"NO", "CREATED", "DELETED", "FAILED"},
                         received: BOOLEAN]]
    /\ mbs \in [Keys -> MbsSession]
    /\ registry \in Seq(Keys)
    /\ xacts \subseteq Xact
    /\ queue \in Seq(Event)
    /\ wire \subseteq [xid: Nat, method: Methods, id: Nat]
    /\ mbstf \subseteq Nat
    /\ post \in {"none", "waiting", "created", "error", "gone"}
    /\ del \in [1..MaxDeletes -> {"none", "sent", "pending", "204", "404", "gone"}]
    /\ svc \in BOOLEAN
    /\ faults \in 0..MaxFaults
    /\ abort \in {"no", "xact", "dangling", "stream", "null"}

Init == /\ session = "none"
        /\ ctx = [k \in Keys |-> [status |-> "NO", received |-> FALSE]]
        /\ mbs = [k \in Keys |-> NoMbsSession(INACTIVE)]
        /\ registry = << >>
        /\ xacts = {}
        /\ queue = << >>
        /\ wire = {}
        /\ mbstf = {}
        /\ post = "none"
        /\ del = [i \in 1..MaxDeletes |-> "none"]
        /\ svc = FALSE
        /\ faults = 0
        /\ abort = "no"

-----------------------------------------------------------------------------
(* Helpers.                                                                *)

\* A fault of this kind may happen now.
MayFault(kind) == kind \in Faults /\ faults < MaxFaults

\* The events made from a set in any order.  The code walks std::maps in the
\* order of the AF's names for the keys, or of the uuids in the registry.
AnyOrder(S, Ev(_)) ==
    {[i \in 1..Cardinality(S) |-> Ev(f[i])] :
        f \in {g \in [1..Cardinality(S) -> S] :
                \A i, j \in 1..Cardinality(S) : g[i] = g[j] => i = j}}

\* The type of the event the loop takes next; "none" when there is nothing to
\* take or no process to take it.
Taken == IF queue = << >> \/ abort # "no" THEN "none" ELSE Head(queue).type

\* A transaction id that nothing refers to.
NewXid ==
    LET used == {x.xid : x \in xacts} \cup {w.xid : w \in wire}
                  \cup {queue[i].xid : i \in {j \in 1..Len(queue) :
                            queue[j].type \in {"CLIENT", "CLIENT_WAIT"}}}
    IN  CHOOSE n \in 1..(Cardinality(used) + 1) : n \notin used

\* nmbstfDiscoverAndSend: a transaction for a request to the MBSTF.
Send(method, id) ==
    /\ xacts' = xacts \cup {[xid |-> NewXid, method |-> method, id |-> id,
                             armed |-> TRUE]}
    /\ wire' = wire \cup {[xid |-> NewXid, method |-> method, id |-> id]}

\* An answer on the POST's stream, if the stream still exists.
PostAnswer(answer) == IF post = "waiting" THEN answer ELSE post

\* Mutant: only the key's own MBSTF session is deleted.
DelEventsNewest ==
    AnyOrder({Len(registry)} \ {0}, LAMBDA id : [type |-> "DELETE_SESSION", id |-> id])

\* sendMbstfDelRequests: a local event for each MBSTF session id registered.
DelEvents ==
    AnyOrder(1..Len(registry), LAMBDA id : [type |-> "DELETE_SESSION", id |-> id])

\* sendMbstfRequests: a local event for each key the MBSTF has not answered.
ReqEvents(c) ==
    AnyOrder({k \in Keys : ~c[k].received}, LAMBDA k : [type |-> "REQ_BUILD", key |-> k])

\* checkIfAllMBSSessionCreated
AllCreated(c) == \A k \in Keys : c[k].status = "CREATED"

\* checkIfAllMBSSessionResponsesReceived
AllResponded(c) == \A k \in Keys : c[k].status \in {"CREATED", "FAILED"}

\* Mutant: one deleted MBS Session is enough.
SomeDeleted(c) == \E k \in Keys : c[k].status = "DELETED"

\* checkIfAllMBSSessionDeletionsReceived
AllDeleted(c) == \A k \in Keys : c[k].status = "DELETED"

\* Mutant: the first response of the MBSTF is enough.
SomeReceived(c) == \E k \in Keys : c[k].received

\* checkIfAllMBSTFResponsesReceived
AllReceived(c) == \A k \in Keys : c[k].received

\* Mutant: the MBS Sessions are left at the MB-SMF.
DestroyKeepsMbs ==
    /\ session' = "gone"
    /\ xacts' = {}
    /\ UNCHANGED mbs

\* Context::deleteUserDataIngSession and the destructors it runs: the MBS
\* Sessions are deleted, and the SBI object removes its transactions.
Destroy ==
    /\ session' = "gone"
    /\ xacts' = {}
    /\ mbs' = [k \in Keys |-> DeleteSession(mbs[k])]

\* createMbsSession and populate_mb_smf_mbs_session: an MBS Session whose
\* creation is pushed, or none when the addresses cannot be resolved.
CreateMbsSession(status, resolved) ==
    IF resolved THEN PushChanges(NewMbsSession(status)) ELSE NoMbsSession(status)

\* updateContexts: a context for each key, whatever createMbsSession returns.
UpdateContexts(status, unresolved) ==
    mbs' = [k \in Keys |-> CreateMbsSession(status[k], k \notin unresolved)]

\* buildNmb2DistSession: a new uuid for the key's distribution session.
RegisterDistSession(k) == registry' = Append(registry, k)

\* sendNmbsfMbsUserDataIngestResponse: 201 with the session's URL.
IngestResponse == PostAnswer("created")

\* processDistSession: the MBSTF has answered for key k; 201 when it has for all.
ProcessDistSession(k) ==
    LET c == [ctx EXCEPT ![k].received = TRUE]
    IN  /\ ctx' = c
        /\ post' = IF AllReceived(c) THEN IngestResponse ELSE post

\* setMBSTFDistSessionDeletedFlag: the key's MBS Session follows.
DistSessionDeleted(k) == mbs' = [mbs EXCEPT ![k] = DeleteSession(@)]

-----------------------------------------------------------------------------
(* The AF, the MB-SMF and the MBSTF.                                       *)

\* POST: Context::addUserDataIngSession and processDistributionSessionInfo.
\* The event is handled at once, as nothing can come before it.
PostUserDataIngSession ==
    /\ abort = "no" /\ session = "none"
    /\ \E status \in [Keys -> InitialStatuses], bad \in SUBSET Keys :
          /\ bad # {} => MayFault("unresolved")
          /\ UpdateContexts(status, bad)
          /\ faults' = IF bad = {} THEN faults ELSE faults + 1
    /\ session' = "live"
    /\ post' = "waiting"
    /\ UNCHANGED <<ctx, registry, xacts, queue, peers, del, svc, abort>>

\* The AF, which has the session's URL from the 201, sends a DELETE.
AfDelete(i) ==
    /\ abort = "no" /\ post = "created" /\ del[i] = "none"
    /\ \A j \in 1..(i - 1) : del[j] # "none"
    /\ del' = [del EXCEPT ![i] = "sent"]
    /\ queue' = Append(queue, [type |-> "AF_DELETE", req |-> i])
    /\ UNCHANGED <<session, ctx, mbs, registry, xacts, peers, post, svc, faults, abort>>

\* An AF sends a DELETE for the MBS User Service.
ServiceDeleteRequest ==
    /\ abort = "no" /\ MayFault("serviceDelete") /\ ~svc /\ session # "none"
    /\ svc' = TRUE
    /\ faults' = faults + 1
    /\ queue' = Append(queue, [type |-> "SERVICE_DELETE"])
    /\ UNCHANGED <<session, ctx, mbs, registry, xacts, peers, post, del, abort>>

\* The AF gives up on a request: the stream it waits on no longer exists.
AfDisconnect ==
    /\ abort = "no" /\ MayFault("afGone")
    /\ \/ post = "waiting" /\ post' = "gone" /\ UNCHANGED del
       \/ \E i \in 1..MaxDeletes : /\ del[i] = "pending"
                                   /\ del' = [del EXCEPT ![i] = "gone"]
                                   /\ UNCHANGED post
    /\ faults' = faults + 1
    /\ UNCHANGED <<session, ctx, mbs, registry, xacts, queue, peers, svc, abort>>

\* Replies of the MB-SMF for this key that the loop has not taken yet.
UntakenReplies(k) ==
    Cardinality({i \in 1..Len(queue) :
                    queue[i].type = "SMF_REPLY" /\ queue[i].key = k})

\* The MB-SMF answers a request for key k.  An error may come with problem
\* details.
SmfAnswer(k, ok, problem) ==
    /\ abort = "no" /\ session = "live"
    /\ Len(mbs[k].ops) > UntakenReplies(k)
    /\ ok => ~problem
    /\ ok \/ MayFault("smfError")
    /\ faults' = IF ok THEN faults ELSE faults + 1
    /\ queue' = Append(queue, [type |-> "SMF_REPLY", key |-> k, ok |-> ok,
                               problem |-> problem])
    /\ UNCHANGED <<session, ctx, mbs, registry, xacts, peers, af, abort>>

\* The MBSTF answers a request.  A refused POST has no effect, except that an
\* answer the MBSF cannot use (a wrong content type, bad JSON) counts as
\* refused while the distribution session exists.  A DELETE of a distribution
\* session that does not exist is refused.
StfAnswer(w, ok) ==
    /\ abort = "no"
    /\ \/ /\ w.method = "POST"
          /\ ok \/ MayFault("stfError")
          /\ mbstf' \in {mbstf \cup {w.id}} \cup (IF ok THEN {} ELSE {mbstf})
          /\ faults' = IF ok THEN faults ELSE faults + 1
       \/ /\ w.method = "DELETE" /\ w.id \in mbstf
          /\ ok \/ MayFault("stfError")
          /\ mbstf' = IF ok THEN mbstf \ {w.id} ELSE mbstf
          /\ faults' = IF ok THEN faults ELSE faults + 1
       \/ /\ w.method = "DELETE" /\ w.id \notin mbstf /\ ~ok
          /\ UNCHANGED <<mbstf, faults>>
    /\ wire' = wire \ {w}
    /\ queue' = Append(queue, [type |-> "CLIENT", xid |-> w.xid,
                               method |-> w.method, id |-> w.id, ok |-> ok])
    /\ UNCHANGED <<session, ctx, mbs, registry, xacts, af, abort>>

\* The CLIENT_WAIT timer of a transaction expires.
ClientWaitExpires(x) ==
    /\ abort = "no" /\ x.armed /\ MayFault("timeout")
    /\ faults' = faults + 1
    /\ xacts' = (xacts \ {x}) \cup {[x EXCEPT !.armed = FALSE]}
    /\ queue' = Append(queue, [type |-> "CLIENT_WAIT", xid |-> x.xid])
    /\ UNCHANGED <<session, ctx, mbs, registry, peers, af, abort>>

-----------------------------------------------------------------------------
(* The event handlers.                                                     *)

\* processEvent, DELETE of the session: the delete events, and the stream
\* joins m_deleteRequests.
HandleAfDelete ==
    /\ Taken = "AF_DELETE"
    /\ LET i == Head(queue).req
       IN  IF session = "live"
           THEN /\ \E es \in DelEvents : queue' = Tail(queue) \o es
                /\ del' = [del EXCEPT ![i] = "pending"]
           ELSE /\ queue' = Tail(queue)
                /\ del' = [del EXCEPT ![i] = "404"]
    /\ UNCHANGED <<session, ctx, mbs, registry, xacts, peers, post, svc, faults, abort>>

\* UserService::removeAllUserDataIngSessions for this session.
HandleServiceDelete ==
    /\ Taken = "SERVICE_DELETE"
    /\ \E es \in (IF session = "live" THEN DelEvents ELSE {<< >>}) :
          queue' = Tail(queue) \o es
    /\ UNCHANGED <<session, ctx, mbs, registry, xacts, peers, af, faults, abort>>

\* The library takes the MB-SMF's reply and calls mbsSessionCallback, which
\* queues the result.  Changes coalesced behind a delete are then pushed for a
\* session that is null: the library may reject or follow the null pointer.
HandleSmfReply ==
    /\ Taken = "SMF_REPLY"
    /\ LET e == Head(queue)
           k == e.key
           done == e.ok /\ Head(mbs[k].ops) = DELETE
       IN  IF session = "live"
           THEN /\ mbs' = [mbs EXCEPT ![k] = MbsSessionCallback(@, done)]
                /\ queue' = Append(Tail(queue),
                        IF done THEN [type |-> "DELETED", key |-> k]
                                ELSE [e EXCEPT !.type = "CREATE_RESULT"])
                /\ abort' \in {"no"} \cup (IF done /\ mbs[k].sendUpdates
                                           THEN {"null"} ELSE {})
           ELSE queue' = Tail(queue) /\ UNCHANGED <<mbs, abort>>
    /\ UNCHANGED <<session, ctx, registry, xacts, peers, af, faults>>

\* A result event that outlived its session holds a dangling pointer to the
\* ids: reading it finds no session, or ends the process.
HandleDanglingResult ==
    /\ Taken \in {"CREATE_RESULT", "DELETED"} /\ session # "live"
    /\ queue' = Tail(queue)
    /\ abort' \in {"no", "dangling"}
    /\ UNCHANGED <<session, ctx, mbs, registry, xacts, peers, af, faults>>

\* Mutant: each key goes to the MBSTF as soon as its own MBS Session exists.
HandleCreateOkEach ==
    /\ Taken = "CREATE_RESULT" /\ Head(queue).ok /\ session = "live"
    /\ LET k == Head(queue).key
       IN  /\ ctx' = [ctx EXCEPT ![k].status = "CREATED"]
           /\ queue' = Append(Tail(queue), [type |-> "REQ_BUILD", key |-> k])
    /\ UNCHANGED <<session, mbs, registry, xacts, peers, af, faults, abort>>

\* setMBSSessionFlag: when every key has a result, the requests to the MBSTF
\* if all are good, or an error for each that is not.
HandleCreateOk ==
    /\ Taken = "CREATE_RESULT" /\ Head(queue).ok /\ session = "live"
    /\ LET c == [ctx EXCEPT ![Head(queue).key].status = "CREATED"]
       IN  /\ ctx' = c
           /\ \E es \in (IF AllResponded(c) /\ AllCreated(c)
                         THEN ReqEvents(c) ELSE {<< >>}) : queue' = Tail(queue) \o es
           /\ post' = IF AllResponded(c) /\ ~AllCreated(c)
                      THEN PostAnswer("error") ELSE post
    /\ UNCHANGED <<session, mbs, registry, xacts, peers, del, svc, faults, abort>>

\* setMBSSessionFailureFlag: when every key has a result, an error and the end
\* of the session.  With problem details the flag is set twice, the second
\* time through ids that went with the session.
HandleCreateError ==
    /\ Taken = "CREATE_RESULT" /\ ~Head(queue).ok /\ session = "live"
    /\ LET e == Head(queue)
           c == [ctx EXCEPT ![e.key].status = "FAILED"]
       IN  /\ ctx' = c
           /\ IF AllResponded(c)
              THEN /\ post' = PostAnswer("error")
                   /\ Destroy
                   /\ abort' \in {"no"} \cup (IF e.problem THEN {"dangling"} ELSE {})
              ELSE UNCHANGED <<post, session, xacts, mbs, abort>>
    /\ queue' = Tail(queue)
    /\ UNCHANGED <<registry, peers, del, svc, faults>>

\* setMBSSessionDeleted: when the last one is deleted, 204 to every pending
\* DELETE and the end of the session.  A pending DELETE whose stream is gone
\* throws an exception nobody catches.
HandleDeleted ==
    /\ Taken = "DELETED" /\ session = "live"
    /\ LET c == [ctx EXCEPT ![Head(queue).key].status = "DELETED"]
       IN  /\ ctx' = c
           /\ IF ~AllDeleted(c)
              THEN UNCHANGED <<session, mbs, xacts, del, abort>>
              ELSE IF \E i \in DOMAIN del : del[i] = "gone"
              THEN abort' = "stream" /\ UNCHANGED <<session, mbs, xacts, del>>
              ELSE /\ Destroy
                   /\ del' = [i \in DOMAIN del |->
                                IF del[i] = "pending" THEN "204" ELSE del[i]]
                   /\ UNCHANGED abort
    /\ queue' = Tail(queue)
    /\ UNCHANGED <<registry, peers, post, svc, faults>>

\* MBSF_LOCAL_SEND_MBSTF_REQ_BUILD and buildNmb2DistSession: a new uuid for
\* the key's distribution session, registered, and a POST to the MBSTF.
HandleReqBuild ==
    /\ Taken = "REQ_BUILD"
    /\ IF session = "live"
       THEN /\ RegisterDistSession(Head(queue).key)
            /\ Send("POST", Len(registry) + 1)
       ELSE UNCHANGED <<registry, xacts, wire>>
    /\ queue' = Tail(queue)
    /\ UNCHANGED <<session, ctx, mbs, mbstf, af, faults, abort>>

\* MBSF_LOCAL_SEND_MBSTF_DELETE_SESSION: the MBS Session becomes inactive and
\* a DELETE goes to the MBSTF.  pushChanges does not look at m_session.
HandleDeleteSession ==
    /\ Taken = "DELETE_SESSION"
    /\ LET id == Head(queue).id
           k == registry[id]
       IN  IF session = "live"
           THEN /\ mbs' = [mbs EXCEPT ![k] = PushChanges(SetActivityStatus(@, INACTIVE))]
                /\ Send("DELETE", id)
                /\ abort' \in {"no"} \cup (IF mbs[k].session \/ mbs[k].inFlight
                                           THEN {} ELSE {"null"})
           ELSE UNCHANGED <<mbs, xacts, wire, abort>>
    /\ queue' = Tail(queue)
    /\ UNCHANGED <<session, ctx, registry, mbstf, af, faults>>

\* A reply or a timer expiry for a transaction that was removed:
\* ogs_assert(sbi_xact) ends the process.
HandleNoXact ==
    /\ Taken \in {"CLIENT", "CLIENT_WAIT"}
    /\ \A x \in xacts : x.xid # Head(queue).xid
    /\ abort' = "xact"
    /\ queue' = Tail(queue)
    /\ UNCHANGED <<session, ctx, mbs, registry, xacts, peers, af, faults>>

\* The transactions without the one the event at the head is about.
OtherXacts == {x \in xacts : x.xid # Head(queue).xid}

\* processDistSession for a usable answer to a POST: when the MBSTF has
\* answered for every key, 201 to the AF.
HandlePostOk ==
    /\ Taken = "CLIENT" /\ Head(queue).method = "POST" /\ Head(queue).ok
    /\ OtherXacts # xacts
    /\ ProcessDistSession(registry[Head(queue).id])
    /\ xacts' = OtherXacts
    /\ queue' = Tail(queue)
    /\ UNCHANGED <<session, mbs, registry, peers, del, svc, faults, abort>>

\* deleteMBSTFSession and send_error for any other answer to a POST.
HandlePostError ==
    /\ Taken = "CLIENT" /\ Head(queue).method = "POST" /\ ~Head(queue).ok
    /\ OtherXacts # xacts
    /\ \E es \in DelEvents : queue' = Tail(queue) \o es
    /\ post' = PostAnswer("error")
    /\ xacts' = OtherXacts
    /\ UNCHANGED <<session, ctx, mbs, registry, peers, del, svc, faults, abort>>

\* Mutant: any answer to a DELETE counts as success.
HandleDeleteReplyAny ==
    /\ Taken = "CLIENT" /\ Head(queue).method = "DELETE"
    /\ OtherXacts # xacts
    /\ DistSessionDeleted(registry[Head(queue).id])
    /\ xacts' = OtherXacts
    /\ queue' = Tail(queue)
    /\ UNCHANGED <<session, ctx, registry, peers, af, faults, abort>>

\* setMBSTFDistSessionDeletedFlag for a 204 to a DELETE; any other status is
\* ignored.
HandleDeleteReply ==
    /\ Taken = "CLIENT" /\ Head(queue).method = "DELETE"
    /\ OtherXacts # xacts
    /\ IF Head(queue).ok THEN DistSessionDeleted(registry[Head(queue).id])
                         ELSE UNCHANGED mbs
    /\ xacts' = OtherXacts
    /\ queue' = Tail(queue)
    /\ UNCHANGED <<session, ctx, registry, peers, af, faults, abort>>

\* Mutant: the transaction is removed and the AF not told.
HandleClientWaitSilent ==
    /\ Taken = "CLIENT_WAIT"
    /\ OtherXacts # xacts
    /\ xacts' = OtherXacts
    /\ queue' = Tail(queue)
    /\ UNCHANGED <<session, ctx, mbs, registry, peers, af, faults, abort>>

\* OGS_TIMER_SBI_CLIENT_WAIT: the transaction is removed, and the stream of
\* the POST, which every transaction of the session is associated with, gets
\* an error if it still exists.
HandleClientWait ==
    /\ Taken = "CLIENT_WAIT"
    /\ OtherXacts # xacts
    /\ xacts' = OtherXacts
    /\ post' = PostAnswer("error")
    /\ queue' = Tail(queue)
    /\ UNCHANGED <<session, ctx, mbs, registry, peers, del, svc, faults, abort>>

-----------------------------------------------------------------------------
Dispatch ==
    \/ HandleAfDelete \/ HandleServiceDelete
    \/ HandleSmfReply \/ HandleDanglingResult
    \/ HandleCreateOk \/ HandleCreateError \/ HandleDeleted
    \/ HandleReqBuild \/ HandleDeleteSession
    \/ HandleNoXact \/ HandlePostOk \/ HandlePostError
    \/ HandleDeleteReply \/ HandleClientWait

SmfAnswers == \E k \in Keys, ok, problem \in BOOLEAN : SmfAnswer(k, ok, problem)

StfAnswers == \E w \in wire, ok \in BOOLEAN : StfAnswer(w, ok)

\* The MBSTF answers a request whose CLIENT_WAIT timer has not expired.
StfAnswersInTime ==
    \E w \in {v \in wire : \E x \in xacts : x.xid = v.xid /\ x.armed}, ok \in BOOLEAN :
        StfAnswer(w, ok)

Next ==
    \/ PostUserDataIngSession
    \/ \E i \in 1..MaxDeletes : AfDelete(i)
    \/ ServiceDeleteRequest
    \/ AfDisconnect
    \/ SmfAnswers
    \/ StfAnswers
    \/ \E x \in xacts : ClientWaitExpires(x)
    \/ Dispatch

Spec == Init /\ [][Next]_vars

\* The event loop runs, the MB-SMF (or the library's own timer for it) answers
\* what it is asked, and so does the MBSTF unless the CLIENT_WAIT timer expires.
FairSpec == /\ Spec
            /\ WF_vars(Dispatch)
            /\ WF_vars(SmfAnswers)
            /\ WF_vars(StfAnswersInTime)
-----------------------------------------------------------------------------
(* Properties.                                                             *)

\* The MBSTF sessions of key k that exist.
AtMbstf(k) == {id \in mbstf : registry[id] = k}

\* A 201 promises working distribution: at that moment every key has an MBSTF
\* session and an MBS Session the MB-SMF has confirmed and was not told to
\* delete.  (Unless the MBS User Service is being removed at the same time.)
CreatedIsComplete ==
    [][post' = "created" /\ post # "created" /\ ~svc =>
        \A k \in Keys : /\ AtMbstf(k) # {}
                        /\ ctx[k].status = "CREATED"
                        /\ ~mbs[k].deleted]_vars

\* Nothing is sent to the MBSTF before the MB-SMF has given a result for every
\* MBS Session of the ingest session: the sets of keys are created in two
\* phases, whatever fails later.
TwoPhases == Len(registry) > 0 => \A k \in Keys : ctx[k].status # "NO"

\* While the session lives, the MB-SMF is asked to delete the MBS Session of
\* a key only after the MBSTF confirmed the end of a distribution session of
\* that key.
MbsAfterMbstf ==
    session = "live" => \A k \in Keys :
        mbs[k].deleted => \E id \in 1..Len(registry) :
                              registry[id] = k /\ id \notin mbstf

\* A session that has gone leaves no MBS Session behind at the MB-SMF.
NoMbsLeft ==
    session = "gone" => \A k \in Keys : mbs[k].session => mbs[k].sent = DELETE

\* A 204 to a DELETE means that nothing is left: no distribution session at
\* the MBSTF and no POST on the way to it.
DeletedIsClean ==
    (\E i \in DOMAIN del : del[i] = "204") =>
        mbstf = {} /\ \A w \in wire : w.method # "POST"

\* Without faults the session never ends while distribution sessions remain at
\* the MBSTF or are on the way to it ...
NoOrphans ==
    session = "gone" /\ faults = 0 => mbstf = {} /\ \A w \in wire : w.method # "POST"

\* ... and the process is not ended by an assertion or an exception.
NoAbortWithoutFaults == faults = 0 => abort = "no"

\* Nmb2Handler.cc:206: an answer whose transaction has already been removed is
\* reported and dropped.
LateAnswerDropped == abort # "xact"

\* Every POST is answered, unless the process ends: also when the MB-SMF
\* refuses and when an answer of the MBSTF does not come in time.
PostAnswered == post = "waiting" ~> (post # "waiting" \/ abort # "no")

\* Without faults every DELETE is answered.
DeleteAnswered ==
    \A i \in 1..MaxDeletes :
        del[i] = "sent" ~> (del[i] \in {"204", "404"} \/ faults > 0)
=============================================================================
