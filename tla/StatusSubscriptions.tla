------------------------ MODULE StatusSubscriptions ------------------------
(***************************************************************************)
(* Status subscriptions of application functions to one MBS User Data      *)
(* Ingest Session (UserDataIngStatSubsc.cc, SubscribedEvents.cc,           *)
(* DistributionSessionInfo.cc, DistributionSessionInfoSubscription.cc):    *)
(* the event reports of the MBSTF are time-stamped per distribution        *)
(* session, a local event is queued, and its handler sends every           *)
(* subscriber what is newer than what it was last told.                    *)
(*                                                                         *)
(* A distribution session has one slot for a subscription, which the first *)
(* subscriber takes.  Queued events hold a reference to the slot or to the *)
(* ingest session, not a share in it: "live" says whether what an event    *)
(* refers to still exists.                                                 *)
(***************************************************************************)
EXTENDS Naturals, Sequences, FiniteSets, FiniteSetsExt, SequencesExt

CONSTANTS Dist,        \* the ingest session's distribution sessions
          NumSubs,     \* subscriptions there may be; the map's order is <
          EventLists,  \* the eventSubscs an AF may ask for: <<event, dist>>
          ReportLists, \* the report lists the MBSTF may send: [type, time]
          MaxReports,  \* MBSTF notifications explored
          MaxChanges,  \* POST, PUT, PATCH and DELETE of subscriptions explored
          MaxPushes,   \* ingest session notifications explored
          NoDist       \* an event subscription that names no distribution session

Sub == 1..NumSubs
NoSub == 0
Never == 0        \* an event time that was not set

\* Event types the MBSTF's reports are registered as; the others of
\* SubscribedEvents are never registered.
DistEvent == {"DATA_INGEST_FAILURE", "DIST_SESS_TERMINATED", "DIST_SESS_ACTIVATED",
              "DIST_SESS_SERV_MNGT_FAILURE", "DIST_SESS_STARTING", "SESSION_TERMINATED"}

\* isSubscribedEventNotificationStimulatedByMbsf
StimulatedByMbsf == {"USER_DATA_ING_SESS_TERMINATED", "USER_DATA_ING_SESS_STARTING",
                     "USER_DATA_ING_SESS_STARTED", "USER_SER_AD"}
\* Those stamped with the time at which they are sent.
StampedNow == {"USER_DATA_ING_SESS_STARTING", "USER_SER_AD"}
SessionEvent == StimulatedByMbsf \ StampedNow
\* A statusEvent of another name: it is taken like any other.
UnknownEvent == "UNKNOWN_EVENT"
Event == DistEvent \cup StimulatedByMbsf \cup {UnknownEvent}

Failure == {"SERVICE_MANAGEMENT_FAILURE", "DATA_INGEST_FAILURE"}
ReportType == Failure \cup {"DATA_INGEST_SESSION_ESTABLISHED", "SESSION_DEACTIVATED",
                            "DATA_INGEST_SESSION_TERMINATED", "SESSION_ACTIVATED"}
UnknownType == "UNKNOWN"

Report == [type: ReportType \cup {UnknownType}, time: Nat]

ASSUME SubscriptionsAssumption ==
    /\ IsFiniteSet(Dist) /\ Dist # {} /\ NoDist \notin Dist
    /\ {NumSubs, MaxReports, MaxChanges, MaxPushes} \subseteq Nat
    /\ \A l \in EventLists : l # << >> /\ l \in Seq(Event \X {e[2] : e \in Range(l)})
    /\ ReportLists \subseteq Seq(Report)

VARIABLES
    ing,      \* is the ingest session in the Context?
    info,     \* per distribution session: DistributionSessionInfo
    slot,     \* per distribution session: whose subscription holds the slot
    sub,      \* m_userDataIngStatSubscs: per id, NoSubscription or the subscription
    ad,       \* the announcement: is there an object, and were subscribers told?
    queue,    \* the local events
    orphan,   \* is an answer to a notification of a deleted subscription due?
    due,      \* reports registered and not yet sent to the slot's subscriber
    relisted, \* subscriptions whose event list was replaced
    quiet,    \* was nothing deleted or replaced so far?
    used,     \* what the exploration has used up: reports, changes, pushes
    abort     \* "no", or why the process ended

vars == <<ing, info, slot, sub, ad, queue, orphan, due, relisted, quiet, used, abort>>

Info == [stamp: [DistEvent -> Nat], established: BOOLEAN, terminated: BOOLEAN]
Told == [event: DistEvent \cup SessionEvent, dist: Dist \cup {NoDist}, time: Nat]
Subscription == [events: EventLists,
                 own: [SessionEvent -> Nat],           \* m_subscribedEventTimestamps
                 last: [DistEvent \cup SessionEvent -> Nat], \* lastReportedEventTimes
                 told: Seq(Told),   \* what it was sent, since its creation
                 waits: BOOLEAN]    \* is an answer to a notification due?
NoSubscription == [events |-> << >>]
QueueEvent == [kind: {"SEND_NOTIFICATION"}, dist: Dist, live: BOOLEAN]
              \cup [kind: {"SEND_USER_DATA_ING_SESS_NOTIFICATION"}, live: BOOLEAN]

Exists(subs) == {s \in Sub : subs[s] # NoSubscription}
Names(l, e, d) == \E i \in DOMAIN l : l[i] = <<e, d>>
Subscribes(l, e) == \E i \in DOMAIN l : l[i][1] = e
NamedDists(l) == {l[i][2] : i \in DOMAIN l} \ {NoDist}
\* An entry that names this distribution session with an unknown event
IsUnheardOf(entry) == entry[1] = UnknownEvent /\ entry[2] \in Dist
Unheard(l) == \E i \in DOMAIN l : IsUnheardOf(l[i])
Once(l) == \A i, j \in DOMAIN l : l[i][1] = l[j][1] => i = j

-----------------------------------------------------------------------------
(* The reports of the MBSTF.                                               *)

\* SubscribedEvents::getEventTypeBitMask
EventOf(type) ==
    CASE type = "DATA_INGEST_FAILURE" -> "DATA_INGEST_FAILURE"
      [] type = "SESSION_DEACTIVATED" -> "DIST_SESS_TERMINATED"
      [] type = "SESSION_ACTIVATED" -> "DIST_SESS_ACTIVATED"
      [] type = "SERVICE_MANAGEMENT_FAILURE" -> "DIST_SESS_SERV_MNGT_FAILURE"
      [] type = "DATA_INGEST_SESSION_ESTABLISHED" -> "DIST_SESS_STARTING"
      [] type = "DATA_INGEST_SESSION_TERMINATED" -> "SESSION_TERMINATED"

\* A report goes behind those that are not later (std::multimap::emplace); one
\* without a time stamp, or with one that cannot be parsed (both are Never here),
\* is dropped.
Emplace(s, r) ==
    IF r.time = Never THEN s
    ELSE InsertAt(s, Cardinality({n \in DOMAIN s : s[n].time <= r.time}) + 1, r)

\* distributionSessionEventReportsSort
Sorted(reports) == FoldLeft(Emplace, << >>, reports)

\* DistributionSessionInfo::processEvents, the part that concerns subscribers
ProcessEvent(i, r) ==
    CASE r.type \in Failure -> [i EXCEPT !.stamp["DIST_SESS_TERMINATED"] = r.time]
      [] r.type = "DATA_INGEST_SESSION_ESTABLISHED" -> [i EXCEPT !.established = TRUE]
      [] r.type = "DATA_INGEST_SESSION_TERMINATED" -> [i EXCEPT !.terminated = TRUE]
      [] OTHER -> i
ProcessEvents(i, reports) == FoldLeft(ProcessEvent, i, reports)

\* SubscribedEvents::registerEvent of each report
RegisterEvent(i, r) == [i EXCEPT !.stamp[EventOf(r.type)] = r.time]
Register(i, reports) == FoldLeft(RegisterEvent, i, reports)

\* What the slot's subscriber is now owed: the events it asked for of d that are
\* newer than its last report, when it asked for each event type only once.
Dues(subs, d, i) ==
    IF slot[d] \in Exists(subs) /\ Once(subs[slot[d]].events)
    THEN {<<slot[d], e, d>> : e \in {f \in DistEvent : Names(subs[slot[d]].events, f, d)
                                        /\ i.stamp[f] > subs[slot[d]].last[f]}}
    ELSE {}

\* Mutant: one event in the queue is thought to be enough.
NotifiedOnce(d) ==
    IF slot[d] = NoSub \/ queue # << >> THEN queue
    ELSE Append(queue, [kind |-> "SEND_NOTIFICATION", dist |-> d, live |-> TRUE])

\* sendSubscriptionNotifications
Notified(d) ==
    IF slot[d] = NoSub THEN queue
    ELSE Append(queue, [kind |-> "SEND_NOTIFICATION", dist |-> d, live |-> TRUE])

\* processStatusNotifyReqData: an unknown report type throws, and nobody
\* catches; a list of which nothing remains is a null pointer.
StatusNotify(d, reports) ==
    LET s == Sorted(reports)
        i == Register(ProcessEvents(info[d], s), s)
    IN  /\ ing /\ used.reports < MaxReports
        /\ used' = [used EXCEPT !.reports = @ + 1]
        /\ IF s = << >> \/ \E k \in DOMAIN s : s[k].type = UnknownType
           THEN /\ abort' = IF s = << >> THEN "noReports" ELSE "unknownType"
                /\ UNCHANGED <<info, queue, due>>
           ELSE /\ info' = [info EXCEPT ![d] = i]
                /\ queue' = Notified(d)
                /\ due' = {t \in due : t[3] # d} \cup Dues(sub, d, i)
                /\ UNCHANGED abort
        /\ UNCHANGED <<ing, slot, sub, ad, orphan, relisted, quiet>>

-----------------------------------------------------------------------------
(* Sending: what a subscription is told.  World is the part of the state   *)
(* that sending changes.                                                   *)

World == [sub |-> sub, info |-> info, sent |-> ad.sent, stop |-> FALSE, ends |-> "no"]

\* timeOfLatestDistributionSessionEvent
Latest(i, e) == Max({i[d].stamp[e] : d \in Dist})

\* checkIfAllMBSDistributionSessionsEstablished, ...Terminated
AllDone(w, flag) == \A d \in Dist : w.info[d][flag]

\* One half of checkAndSetUserDataIngSessStartedTerminatedEvent.  The loop over
\* all subscriptions resets the flags in its first round, so that only the
\* first subscription in the map gets the event.
SetSessionEvent(w, event, flag, source) ==
    IF AllDone(w, flag) /\ Latest(w.info, source) # Never
    THEN [w EXCEPT !.sub[Min(Exists(w.sub))].own[event] = Latest(w.info, source),
                   !.info = [d \in Dist |-> [w.info[d] EXCEPT ![flag] = FALSE]]]
    ELSE w

CheckStartedTerminated(w) ==
    SetSessionEvent(SetSessionEvent(w, "USER_DATA_ING_SESS_STARTED", "established",
                                    "DIST_SESS_STARTING"),
                    "USER_DATA_ING_SESS_TERMINATED", "terminated", "DIST_SESS_TERMINATED")

\* Mutant: what was reported already is reported again.
IsUpdatedOrSame(time, last) == time # Never /\ time >= last

\* SubscribedEvents::isUpdated
IsUpdated(time, last) == time # Never /\ time > last

\* The report of event e of d (or of the session) at this time, if it is news
Tell(x, e, d, time) ==
    IF IsUpdated(time, x.last[e])
    THEN [x EXCEPT !.last[e] = time,
                   !.told = Append(@, [event |-> e, dist |-> d, time |-> time])]
    ELSE x

\* One round of makeEventNotifications: first the events that the MBSF itself
\* stimulates, then those of the named distribution session.
TellEvent(i, x, e, d) ==
    LET y == IF e \in SessionEvent THEN Tell(x, e, NoDist, x.own[e]) ELSE x
    IN  IF d \in Dist /\ e \in DistEvent THEN Tell(y, e, d, i[d].stamp[e]) ELSE y

\* The rounds of makeEventNotifications, one for each entry of the list
TellAll(i, x, l) == FoldLeft(LAMBDA y, e : TellEvent(i, y, e[1], e[2]), x, l)

\* The entries at which makeEventNotifications ends the process: the context of a
\* distribution session that does not exist is a null pointer, and
\* timepointForSubscribedEvent throws for an unknown event, which nobody catches.
Pitfalls(l) ==
    {n \in DOMAIN l : l[n][2] \notin Dist \cup {NoDist} \/ IsUnheardOf(l[n])}

\* sendNotifications of subscription s, with the events that were given the
\* present time
SendNotifications(w, s, fresh) ==
    LET v == CheckStartedTerminated(w)
        l == v.sub[s].events
        x == TellAll(v.info, v.sub[s], l)
        some == x.told # v.sub[s].told \/ \E e \in fresh : Subscribes(l, e)
    IN  IF Pitfalls(l) = {}
        THEN [v EXCEPT !.sub[s] = [x EXCEPT !.waits = @ \/ some]]
        ELSE [w EXCEPT !.ends = IF IsUnheardOf(l[Min(Pitfalls(l))])
                                THEN "unknownEvent" ELSE "nullContext"]

\* What remains owed once w is the state
StillDue(w) ==
    {t \in due : /\ w.sub[t[1]] # NoSubscription
                 /\ w.info[t[3]].stamp[t[2]] > w.sub[t[1]].last[t[2]]}

Sent(w) ==
    /\ abort' = w.ends
    /\ IF w.ends # "no" THEN UNCHANGED <<sub, info, ad, due>>
       ELSE /\ sub' = w.sub /\ info' = w.info /\ ad' = [ad EXCEPT !.sent = w.sent]
            /\ due' = StillDue(w)

-----------------------------------------------------------------------------
(* The two local events.                                                   *)

\* SEND_NOTIFICATION.  A slot that is gone is freed memory: the process may
\* fail, find no subscription there, or find that of a slot made since.
HandleSendNotification ==
    /\ queue # << >> /\ Head(queue).kind = "SEND_NOTIFICATION"
    /\ queue' = Tail(queue)
    /\ LET s == slot[Head(queue).dist]
       IN  \/ /\ Head(queue).live /\ s \in Exists(sub) /\ ing
              /\ Sent(SendNotifications(World, s, {}))
           \/ /\ (Head(queue).live => s \notin Exists(sub) \/ ~ing)
              /\ UNCHANGED <<sub, info, ad, due, abort>>
           \/ /\ ~Head(queue).live
              /\ abort' = "dangling" /\ UNCHANGED <<sub, info, ad, due>>
           \/ /\ ~Head(queue).live /\ ing
              /\ \E x \in Exists(sub) : Sent(SendNotifications(World, x, {}))
    /\ UNCHANGED <<ing, slot, orphan, relisted, quiet, used>>

\* One round of the loop of SEND_USER_DATA_ING_SESS_NOTIFICATION.  Once the
\* announcement was sent to one subscriber, the first other one that asks for
\* it ends the loop.
NotifySession(w, s) ==
    LET l == w.sub[s].events
        v == IF Subscribes(l, "USER_DATA_ING_SESS_STARTING")
             THEN SendNotifications(w, s, {"USER_DATA_ING_SESS_STARTING"}) ELSE w
        goesOn == v.ends = "no" /\ Subscribes(l, "USER_SER_AD")
    IN  CASE ~goesOn -> v
          [] goesOn /\ v.sent -> [v EXCEPT !.stop = TRUE]
          [] OTHER -> [(IF ad.object THEN SendNotifications(v, s, {"USER_SER_AD"}) ELSE v)
                        EXCEPT !.sent = TRUE]

\* The loop over the map of subscriptions
Round(w, s) ==
    IF w.stop \/ w.ends # "no" \/ w.sub[s] = NoSubscription THEN w ELSE NotifySession(w, s)

HandleSessionNotification ==
    /\ queue # << >> /\ Head(queue).kind = "SEND_USER_DATA_ING_SESS_NOTIFICATION"
    /\ queue' = Tail(queue)
    /\ \/ /\ Head(queue).live
          /\ Sent(FoldLeftDomain(Round, World, sub))
       \/ ~Head(queue).live /\ UNCHANGED <<sub, info, ad, due, abort>>
       \/ ~Head(queue).live /\ abort' = "dangling" /\ UNCHANGED <<sub, info, ad, due>>
    /\ UNCHANGED <<ing, slot, orphan, relisted, quiet, used>>

SessionEventQueued == Append(queue, [kind |-> "SEND_USER_DATA_ING_SESS_NOTIFICATION",
                                     live |-> TRUE])

\* sendNotificationsEvent: a distribution session is put into ESTABLISHED
SessionEstablished ==
    /\ ing /\ used.pushes < MaxPushes
    /\ used' = [used EXCEPT !.pushes = @ + 1]
    /\ queue' = SessionEventQueued
    /\ UNCHANGED <<ing, info, slot, sub, ad, orphan, due, relisted, quiet, abort>>

\* userServiceAnnBundled: the announcement is on the carousel
Bundled ==
    /\ ing /\ ~ad.object /\ used.pushes < MaxPushes
    /\ used' = [used EXCEPT !.pushes = @ + 1]
    /\ ad' = [ad EXCEPT !.object = TRUE]
    /\ queue' = SessionEventQueued
    /\ UNCHANGED <<ing, info, slot, sub, orphan, due, relisted, quiet, abort>>

\* requiresUserServiceAnnouncement: the announcement is built anew
Rebundle ==
    /\ ing /\ ad.object
    /\ ad' = [object |-> FALSE, sent |-> FALSE]
    /\ UNCHANGED <<ing, info, slot, sub, queue, orphan, due, relisted, quiet, used, abort>>

-----------------------------------------------------------------------------
(* Requests of application functions, and answers to notifications.        *)

\* processEventSubscs: addEventSubscription takes a slot only when it is free
Claimed(s, l) ==
    [d \in Dist |-> IF d \in NamedDists(l) /\ slot[d] = NoSub THEN s ELSE slot[d]]

\* Mutant: the distribution sessions a subscription names are not looked up.
ListIsKnownUnchecked(l) == TRUE

\* check_for_user_data_ing_session_and_distributions_sessions
ListIsKnown(l) == NamedDists(l) \subseteq Dist

Change == used.changes < MaxChanges /\ used' = [used EXCEPT !.changes = @ + 1]

\* The constructor of UserDataIngStatSubsc
NewSubscription(l) ==
    [events |-> l, own |-> [e \in SessionEvent |-> Never],
     last |-> [e \in DistEvent \cup SessionEvent |-> Never], told |-> << >>, waits |-> FALSE]

\* POST of a subscription; a refused one changes nothing.  Its id is a UUID and
\* was nobody else's: here one that nothing refers to may serve again.
Subscribe(s, l) ==
    /\ ing /\ sub[s] = NoSubscription /\ (\A d \in Dist : slot[d] # s)
    /\ ListIsKnown(l) /\ Change
    /\ sub' = [sub EXCEPT ![s] = NewSubscription(l)]
    /\ slot' = Claimed(s, l)
    /\ queue' = SessionEventQueued
    /\ relisted' = relisted \ {s}
    /\ UNCHANGED <<ing, info, ad, orphan, due, quiet, abort>>

\* PUT and PATCH: the list is replaced without a check, and only slots of the
\* new list are reset (to no effect) and claimed.  What was reported, and an
\* old slot, stay.
Relist(s, l) ==
    /\ ing /\ s \in Exists(sub) /\ Change
    /\ sub' = [sub EXCEPT ![s].events = l]
    /\ slot' = Claimed(s, l)
    /\ due' = {t \in due : t[1] # s}
    /\ relisted' = relisted \cup {s} /\ quiet' = FALSE
    /\ UNCHANGED <<ing, info, ad, queue, orphan, abort>>

\* Mutant: the slots of a deleted subscription are kept.
VacatedNot(l) == slot

\* removeEventSubscriptions: the slots of the named distribution sessions are
\* removed, whoever holds them
Vacated(l) == [d \in Dist |-> IF d \in NamedDists(l) THEN NoSub ELSE slot[d]]

\* The events that referred to a slot that is gone
Stale(slots) ==
    [i \in DOMAIN queue |-> IF queue[i].kind = "SEND_NOTIFICATION" /\ slots[queue[i].dist] = NoSub
                            THEN [queue[i] EXCEPT !.live = FALSE] ELSE queue[i]]

\* DELETE of a subscription
Unsubscribe(s) ==
    /\ ing /\ s \in Exists(sub) /\ Change
    /\ sub' = [sub EXCEPT ![s] = NoSubscription]
    /\ slot' = Vacated(sub[s].events)
    /\ queue' = Stale(slot')
    /\ orphan' = (orphan \/ sub[s].waits)
    /\ due' = {t \in due : t[1] # s /\ t[3] \notin NamedDists(sub[s].events)}
    /\ quiet' = FALSE
    /\ UNCHANGED <<ing, info, ad, relisted, abort>>

\* locate, when the ingest session is gone: the subscription is deleted, by way
\* of the ingest session if it names a distribution session.
LocateGone(s) ==
    /\ ~ing /\ s \in Exists(sub)
    /\ IF NamedDists(sub[s].events) # {}
       THEN abort' = "nullSession" /\ UNCHANGED <<sub, orphan>>
       ELSE /\ sub' = [sub EXCEPT ![s] = NoSubscription]
            /\ orphan' = (orphan \/ sub[s].waits)
            /\ UNCHANGED abort
    /\ UNCHANGED <<ing, info, slot, ad, queue, due, relisted, quiet, used>>

\* The ingest session is deleted, and with it its distribution sessions
DeleteIngSession ==
    /\ ing /\ ing' = FALSE
    /\ slot' = [d \in Dist |-> NoSub]
    /\ queue' = [i \in DOMAIN queue |-> [queue[i] EXCEPT !.live = FALSE]]
    /\ due' = {} /\ quiet' = FALSE
    /\ UNCHANGED <<info, sub, ad, orphan, relisted, used, abort>>

\* processClientResponse finds the subscription that sent the notification
Answered(s) ==
    /\ s \in Exists(sub) /\ sub[s].waits
    /\ sub' = [sub EXCEPT ![s].waits = FALSE]
    /\ UNCHANGED <<ing, info, slot, ad, queue, orphan, due, relisted, quiet, used, abort>>

\* The subscription is gone and no handler claims the answer, so that
\* MBSFEventHandler::dispatch ends in ogs_assert_if_reached; an answer that is
\* an error, or whose URL has no service part, is dropped before.
AnsweredTooLate ==
    /\ orphan /\ orphan' = FALSE
    /\ abort' \in {abort, "unclaimed"}
    /\ UNCHANGED <<ing, info, slot, sub, ad, queue, due, relisted, quiet, used>>

-----------------------------------------------------------------------------
Init ==
    /\ ing = TRUE
    /\ info = [d \in Dist |-> [stamp |-> [e \in DistEvent |-> Never],
                               established |-> FALSE, terminated |-> FALSE]]
    /\ slot = [d \in Dist |-> NoSub]
    /\ sub = [s \in Sub |-> NoSubscription]
    /\ ad = [object |-> FALSE, sent |-> FALSE]
    /\ queue = << >> /\ orphan = FALSE /\ due = {} /\ relisted = {} /\ quiet = TRUE
    /\ used = [reports |-> 0, changes |-> 0, pushes |-> 0]
    /\ abort = "no"

Next ==
    /\ abort = "no"
    /\ \/ HandleSendNotification \/ HandleSessionNotification
       \/ \E d \in Dist, r \in ReportLists : StatusNotify(d, r)
       \/ SessionEstablished \/ Bundled \/ Rebundle
       \/ \E s \in Sub, l \in EventLists : Subscribe(s, l) \/ Relist(s, l)
       \/ \E s \in Sub : Unsubscribe(s) \/ LocateGone(s) \/ Answered(s)
       \/ DeleteIngSession \/ AnsweredTooLate

Spec == Init /\ [][Next]_vars

-----------------------------------------------------------------------------
\* The variables have their types.
TypeOK ==
    /\ ing \in BOOLEAN /\ orphan \in BOOLEAN /\ quiet \in BOOLEAN
    /\ info \in [Dist -> Info]
    /\ slot \in [Dist -> Sub \cup {NoSub}]
    /\ DOMAIN sub = Sub
    /\ \A s \in Exists(sub) : sub[s] \in Subscription
    /\ ad \in [object: BOOLEAN, sent: BOOLEAN]
    /\ queue \in Seq(QueueEvent)
    /\ due \subseteq Sub \X DistEvent \X Dist
    /\ relisted \subseteq Sub
    /\ used \in [reports: 0..MaxReports, changes: 0..MaxChanges, pushes: 0..MaxPushes]
    /\ abort \in {"no", "noReports", "unknownType", "unknownEvent", "nullContext",
                  "nullSession", "dangling", "unclaimed"}

\* The reports of one event to one subscriber have ever later time stamps, in
\* whatever order the MBSTF's reports arrive and whichever queued event sends
\* them: nothing is told twice (SubscribedEvents::isUpdated and the cache of
\* last reported times).
NewsOnly ==
    \A s \in Exists(sub) : \A i, j \in DOMAIN sub[s].told :
        i < j /\ sub[s].told[i].event = sub[s].told[j].event
            => sub[s].told[i].time < sub[s].told[j].time

\* A slot is held by a subscription that exists and asks for events of this
\* distribution session, unless its holder's list was replaced by PUT or PATCH
\* (addEventSubscription, removeEventSubscription).
SlotHolder ==
    \A d \in Dist : slot[d] # NoSub /\ slot[d] \notin relisted =>
        /\ slot[d] \in Exists(sub)
        /\ d \in NamedDists(sub[slot[d]].events)

\* As long as no subscription is changed or deleted and the ingest session
\* stays, sending a notification brings the MBSF down only when a subscription
\* was made with an unknown event for one of its distribution sessions
\* (makeEventNotifications), and no answer to a notification does.
CalmIsSafe ==
    quiet => \/ abort \in {"no", "noReports", "unknownType"}
             \/ abort = "unknownEvent" /\ \E s \in Exists(sub) : Unheard(sub[s].events)

\* A report the holder of the slot asked for is not forgotten: until it is
\* sent, an event that will send it is in the queue and refers to a slot that
\* exists, if neither the subscription nor the slot is taken away meanwhile
\* (sendSubscriptionNotifications, SEND_NOTIFICATION).
DueIsQueued ==
    abort = "no" =>
        \A t \in due : \E i \in DOMAIN queue :
            /\ queue[i].kind = "SEND_NOTIFICATION" /\ queue[i].live
            /\ queue[i].dist = t[3] /\ slot[t[3]] = t[1]
=============================================================================
