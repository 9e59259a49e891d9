# A TLA+ verification of the 5G-MAG MBSF (rt-mbs-function)

The MBS Function (MBSF) of 3GPP TS 26.502/29.580 sits between application
functions (AF), the MB-SMF and the MBS Transport Function (MBSTF). An AF creates
an *MBS User Service* and, in it, *MBS User Data Ingest Sessions*. For every
distribution session of an ingest session the MBSF obtains an MBS Session (TMGI
or SSM address) from the MB-SMF, creates a distribution session at the MBSTF,
keeps its state in step with the active periods the AF asked for, announces the
service, and reports events to subscribers.

All paths below are relative to `src/src/mbsf/` unless they say otherwise.

## 1. Inventory

| Component | State | Operations | Hard behaviour |
|---|---|---|---|
| **Ingest session: creation and deletion** (`UserDataIngSession.cc/.hh`, `Nmb2Build.cc`, `Nmb2Handler.cc`) | per distribution session a `ContextData` (status, flags, MBS Session, MBSTF id), `s_distSessionIdRegistry`, pending DELETE streams, SBI transactions | POST, PUT, DELETE, removal by the user service, result callbacks of the MB-SMF library, MBSTF answers, `CLIENT_WAIT` expiry, local events `REQ_BUILD`, `DELETE_SESSION`, ... | the answers of several MB-SMF and MBSTF requests in any order, errors of some of them, DELETE racing creation, late answers, a PUT that stops half way |
| **Ingest session: state control loop** (`UserDataIngSession.cc`, `Nmb2Build.cc`, `DistributionSessionInfo.cc`) | wanted, last requested and last reported state, `needsUpdate`, `stateUpdate`, `receivedMBSTFPatchResponse`, schedule timer | schedule transitions, PUT, PATCH answers and their retry, MBSTF notifications | notifications overtaking answers, an answer to an old PATCH, retries that could run for ever |
| **Active periods** (`ActivePeriods.cc`, `ActivePeriodsRepRule.cc`, `AlwaysActive.cc`) | list of windows or repetition rule, versions | `currentState`, `nextTransition`, `convertActPeriods` | boundaries of windows, overlapping windows, clock read twice |
| **MBS Session handle** (`MBSMFMBSSession.cc/.hh`) | change in flight, `sendUpdates`, library session | `pushChanges`, `deleteSession`, destructor, result callback | coalescing of updates, destruction with requests outstanding |
| **Distribution session info** (`DistributionSessionInfo.cc`) | the info, the subscription slot, time stamps of events | `processEvents`, `continueStateTransitions`, conditional updates | event order; which of two requests a field is from |
| **User service** (`UserService.cc`) | service, its ingest sessions, deferred deletion event | POST, PUT, GET, DELETE, deferred deletion | lookups while a deletion is pending |
| **Status subscriptions** (`UserDataIngStatSubsc.cc`, `SubscribedEvents.cc`) | subscriptions, slots, cache of what was reported | CRUD, notification of events | events missed or repeated, queued events that outlive what they refer to |
| **Service announcement** (`UserServiceAnnChannel.cc`, `UserServiceAnnBundle.cc`, `UserServiceDesc.cc`, ...) | worker threads, bundle files, carousel manifest, the channel's distribution session | announce, rebuild, write the documents, serve them, send the manifest | several threads, three mutexes, files written while they are read |
| **Context and identifiers** (`Context.cc`, `UniqueMBSSessionId.cc`) | table of services and sessions, set of MBS Session identifiers, counter of announced services, configuration | add, remove, find, `parseConfig` | an order of ids that is not transitive; uniqueness over the whole life |
| **Event dispatch** (`MBSFEventHandler.cc`, `Open5GSNetworkFunction.cc`, `App.cc`) | FIFO event queue, timers, servers, two threads | dispatch to the first handler that takes the event, start-up, termination | order of handlers; termination from another thread |
| **SBI wrappers** (`Open5GSSBI*.cc`, `Curl.cc`, `NfServer.cc`) | none of their own | wrap C interfaces | - |
| **Data model and descriptions** (`*Area*.cc`, `MediaComp.cc`, `QoSReq.cc`, ..., generated OpenAPI types) | none of their own | JSON to library structures, descriptions | widths, bases and units of numbers |

The MBSF is one event loop over one FIFO queue. Requests of the AF, answers of
the MBSTF, notifications, expired timers and the MBSF's own *local events* pass
through it; a handler runs to its end before the next event. Results of the
MB-SMF arrive through a callback of the library `libmbsmf`
(the Meson subproject `rt-5gc-service-consumers`, not in this repository), also in
the event loop. Concurrency therefore comes from peers, timers, local events
queued by one handler for a later one, and from threads: a worker for each
announcement bundle, the announcement channel's worker, the HTTP server that
serves the bundles, and the main thread that terminates the function.
What could go wrong is listed, line by line, under `hazards` in `PROJECT.json`.

## 2. How the modules are divided

The order in which they were written is that of their importance for an AF.

| Modules | Question |
|---|---|
| `MBSMFMBSSession`, `MbsSessionPush`, `MbsRegister` | Does the MB-SMF hear of every change, in order? `MbsRegister` is the abstract specification, `MbsSessionPush` implements it |
| `UserDataIngSession` | Is an ingest session created and removed as a whole, message by message? It is composed with the handle of every key |
| `ActivePeriods` | Does the code compute what a schedule means? |
| `DistSessionControl` | Do the MBSTF and the MB-SMF follow the schedule and the PUTs? |
| `Registry`, `UniqueMbsSessionId` | Are services, sessions, ids in use and answers consistent over sequences of requests, PUTs that add and drop distribution sessions included? |
| `SessionContent`, `MbsConversions` | Are the peers told what the AF's infos say? |
| `StatusSubscriptions` | Does each subscriber learn of each event once? |
| `ServiceAnnouncement`, `AnnouncementBundle` | Do the announcement threads deliver the last version, whole? |
| `NfServers` | Do requests and notifications find their component under every configuration but one kind, and does termination end unless the announcement threads are blocked? |

Two descriptions of one thing at different grain are never in one module:
`Registry` makes the creation of an ingest session one step, which
`UserDataIngSession` splits; `DistSessionControl` has a version number where
`SessionContent` has the fields; `ServiceAnnouncement` has a version number where
`AnnouncementBundle` has the files. `MC_...` modules and `.cfg` files hold the
instances, `..._proofs` modules the proofs. No module uses a `RECURSIVE` operator:
lists are gone through with the folds of the community modules, filtered and sorted with
their `SelectSeq` and `SetToSortSeq` where no proof needs to know the result.

## 3. Modules and code

**`MBSMFMBSSession`** has no variables: the handle is a record, and
`PushChanges`, `SetActivityStatus`, `DeleteSession`, `MbsSessionCallback` are
functions on it, each the translation of one method. `ops` is the list of
requests that the library has sent and the MB-SMF has not answered;
`LibHasChanges` and `LibPush` are the library, modelled from its use.

**`MbsSessionPush`** is one handle with the MB-SMF: the status changes at any
moment, the handle is deleted or destroyed at any moment, the MB-SMF accepts or
refuses each request. It has no bound at all. **`MbsRegister`** is what it
promises: a register whose writes are copied to the MB-SMF one at a time, merged
while one is on its way. `ImplementsRegister` states the refinement: the value
wanted is the library's target, the one on its way the first request the MB-SMF
has not answered.

**`UserDataIngSession`** is the life of one ingest session with `NumKeys`
distribution sessions. One action per kind of event (`Handle...`), taken from
the head of `queue`; one per stimulus: `PostUserDataIngSession`, `AfDelete`,
`ServiceDeleteRequest`, `AfDisconnect`, `SmfAnswer`, `StfAnswer`,
`ClientWaitExpires`. `mbs` holds the handle of each key, so that every push,
coalesced update and callback of the first module happens here too. `abort`
records that an `ogs_assert` or an uncaught exception has ended the process.
Information of the infos that does not steer control is left out; an activity
status that the info leaves open is one of `InitialStatuses`.

**`ActivePeriods`** models `currentState` and `nextTransition` of the three
kinds of schedule, the versions of windows, and `startTimer`, on a discrete
clock. The code reads the clock once for the state and once more for the timer;
`ReadGap` is what may pass in between.

**`DistSessionControl`** starts where `UserDataIngSession` ends, with an
established session. `ctx` is the part of `ContextData` that decides about
PATCHes. A handler's work on one distribution session is an *effect*: the new
context and the PATCHes sent. `Phases` is the schedule as a sequence of states;
`ActivePeriods` says which. A timer is served when the event queue is empty, as
in the main loop (`Open5GSNetworkFunction.cc:351-355`). The MBSTF is external:
it answers in order per session, may refuse, refuses the change from ACTIVE to
ESTABLISHED (the change that `Nmb2Build.cc` and `DistributionSessionInfo.cc` go
out of their way to avoid), and its notifications may be handled before or after
its answer. A failed session reports the failure, then INACTIVE. `lapses` is a
history variable: it names the steps after which the code itself gives up
following (section 4, *Odd steps*).

**`Registry`** is the northbound API: POST, PUT and DELETE of user services and
of ingest sessions with their distribution sessions, the local events that
finish a deferred deletion, `m_mbsSessionIds`, the announcement channel's
counter, and the streams answered. It uses **`UniqueMbsSessionId`**, the
`operator<=>` of `UniqueMBSSessionId.cc` on ids, areas, tracking areas and cells.
A `std::set` over an order that is not one is modelled by where a search may
end, between two neighbours of its tree (`lower_bound`, `upper_bound`): while the
order is one there is one such place, and when it is cyclic `SetContains` may miss
an id, `SetInsert` may put it in a second place and `SetErase` may take some of it.
`PostIngest` registers every id, as `addUserDataIngSession` does, and makes contexts
only for those in `Reachable`, as `updateContexts` does (an SSM with an IPv4 or IPv6
address); `Cleared` goes through the contexts. A PUT erases from the map it goes
through: `Walks` and `Erased` are the keys the loop may see and erase after that.
The AF may close any stream that waits (`Close`), or that of a request before it is
handled (`Vanished`); `Open5GSSBIStream` then throws where nobody catches it.
`odd` records the steps after which a registry is knowingly inexact.

**`SessionContent`** follows the fields of one distribution session from the
AF's request into the `info`, the library's structure for the MB-SMF and the
bodies for the MBSTF: `updateMBSDistributionSessionInfo` (unrestricted,
conditional and fixed fields), `populate_mb_smf_mbs_session`, and the builders
in `Nmb2Build.cc`, with `needsUpdate` and `stateUpdate`. **`MbsConversions`** is
what each conversion does to a value: the base and width of codes, the unit of
rates, the order of address families, absent members and null list elements.

**`StatusSubscriptions`** has the slot of each distribution session, the
subscriptions with their caches, the MBSTF's reports and the queue. An event in
the queue has a flag `live`, which is cleared when what it refers to goes; a
handler that takes a dead event may abort (`dangling`). A list may have an
unknown event: `setEvents` ignores it, and `timepointForSubscribedEvent` throws
when it is due for a distribution session, which ends the process
(`unknownEvent`). Ids of subscriptions are
UUIDs in the code. In the model one may serve again, but not while a slot still
refers to its last owner; an instance with four changes would otherwise hold a slot
that names the wrong subscription.

**`ServiceAnnouncement`** splits the threads at their mutexes: the main thread
in `startWorker`, each bundle's `worker`, and the channel's worker in
`sendCarouselRequest`. Who holds a mutex follows from where the threads are
(`HoldsCarousel`). **`AnnouncementBundle`** is one build: descriptions and SDPs
written one after the other, listed, and read by a thread of the HTTP server
between any two steps. A write may fail, and the code notices; the flush of what
it buffered may fail too, and `writeToFile`, which does not look at what `close()`
did, renames the cut file into place and reports success (`FlushFails`). An info
whose source has no address gets no SDP; one whose destination has none of the
source's family, or a service whose first name is absent, throws in the worker's
thread, which ends the process (`Throws`). The session may be deleted at any
moment: it dies when the last of the Context, the HTTP server and the worker lets
go of it, and with it the process when that is the worker (`Release`).

**`NfServers`** parses a configuration section by section, opens the servers,
takes requests off the queue and offers each to the components' handlers in
order, and terminates from another thread. `dispatch` is which handler takes a
request at which server.

`PROJECT.json` maps each definition to the lines it models. Definitions whose
comment begins with "Mutant:" are small faults, put in place of the definition
after them to see that a property notices; no specification uses them.

## 4. Runs

| Run | Instance | What it shows |
|---|---|---|
| `push_protocol` | everything; no bounds (168 states) | `ImplementsRegister`: the handle refines `MbsRegister`; `NoOvertaking`, `Settled`: updates are coalesced without loss and never overtake each other; `DoneIsLast`: no callback can use a released session; `CatchesUp`, `DeleteDelivered` |
| `ingest_faults` | 2 keys, 1 DELETE, 1 fault of any kind, at most 3 POSTs to the MBSTF (1.2 million states) | `CreatedIsComplete`: a 201 is sent only for a complete session; `DeletedIsClean`: a 204 only when nothing is left; `TwoPhases`, `MbsAfterMbstf`, `NoMbsLeft`: the order of operations towards the two peers |
| `ingest_live` | 2 keys, 1 DELETE, an MB-SMF refusal or a timeout (69 000 states) | `PostAnswered`, `DeleteAnswered`; without faults `NoOrphans`, `NoAbortWithoutFaults` |
| `ingest_retry` | 1 key, 2 DELETEs, no fault | **violation**, the finding below |
| `schedule` | clock 0..4, lists of 1 or 2 windows in any order and overlap, rules, 2 PUTs, ESTABLISHED for 2 before a window, one tick between clock readings (20 000 states) | `StateIsMeant`: the code, which looks at one window only, computes the meaning of the whole list; `NoMissedTransition`: no gap |
| `control` | 1 distribution session, the rest of a window, the gap and the time before the next one, two disturbances (PUT, refusal, lost answer, failure), everything overlaps (314 000 states) | `ScheduleRuns`: nothing stops the schedule; `QuietIsRight`: at rest, MBSTF and MB-SMF have what is wanted, unless a named lapse has happened; `Settles`: the exchange of PATCHes ends |
| `subscriptions` | 2 subscribers, 2 distribution sessions and the name of one that nobody has, 2 notifications, 3 changes of subscriptions, 1 event of the ingest session, lists with an unknown event (3.3 million states) | `NewsOnly`: nothing is told twice; `DueIsQueued`: no report asked for is forgotten; `SlotHolder`; `CalmIsSafe`: only a changed or deleted subscription, or an unknown event for a distribution session, can bring the process down when it sends |
| `announcement` | one session announced twice, one once, one failed POST of the manifest (2.3 million states) | `BuiltIsCurrent`, `RebuildSeen`: the flag protocol of `startWorker` and `worker`; `StuckIsRebuilt`: the two mutexes taken in both orders block only after a second announcement; `Announced`: a known session ends in the carousel |
| `registry` | 2 services, 2 ingest sessions, 2 keys, 4 ids of which two clash, three are compared in a circle and one is a TMGI alone, streams closed at any moment, 4 requests (471 000 states) | `CounterExact`, `HandlersSafe`, `IdsExact`, `AnsweredOnce`, each but after the odd steps it names |
| `content` | infos whose fields take values a wrong base, width, unit or a lost member would confuse, 3 changes (186 000 states) | `SmfLatest`, `Coherent`, `BodyCurrent`: the peers have what the AF said last, of one request; `AreaChangeSeen` |
| `bundle` | 4 versions of 4 distribution sessions, one without an address and one of two families; 1 failed write or flush, 1 reader (1.9 million states) | `ListedIsThere`: a listed file is on the disk, and whole unless its flush failed; `AnswerWhole`: an answer no build overlapped is a whole bundle of one version |
| `servers` | 8 configurations, a queue of 1, 2 distribution sessions, 7 requests (162 000 states) | `NotificationsReturn`: whatever server the listener shares, a notification reaches its session, unless a server with port 0 has the listener's address (`SharesPortZero`: the URL has port 0 then), and no API request is taken from its component; `Stops`: termination ends, unless the announcement threads have blocked each other (`deadlocked`) |

Deadlock is not checked: every one of these systems may come to rest (no
request outstanding, the clock at its end, the bounds used up, the process ended).

### Bounds

Two distribution sessions are what the completion checks ("all created", "all
responded", "some deleted") need to tell some from all. One fault in each run
of the ingest session is enough to meet each error path at each moment, and two
faults of different kinds are left out because of the state space; what is proved
(section 5) holds for any number. A refused POST is followed by
deletions whose MB-SMF updates make the MBSF send POSTs again, so POSTs are cut
by a constraint (`PostBound`); the removal of the service and a DELETE of the AF
are explored one at a time (`OneDeleter`). These two constraints are used in the
safety run `ingest_faults` only; no run with liveness has a constraint. In
`schedule` a clock of five ticks holds two disjoint windows with a gap shorter
than, and equal to, the establishing time. In `control` two disturbances let a PUT
meet a refusal, a lost answer or another PUT; the three phases hold each change
of state the schedule makes, the detour from ACTIVE to ESTABLISHED included. With two
distribution sessions the `early` lapse (below) is one step more; their PATCHes
do not interact otherwise, and the proofs cover any number.

In `subscriptions` the four event lists hold each kind of event (a report of the
MBSTF, an event of the session, one stamped when sent, one for a distribution
session that does not exist), and the report lists times out of order, two
reports at one time, and a type the MBSF does not know. Three changes are a
subscription, its replacement and its end, or one subscriber taking another's
slot and leaving. In `announcement` two sessions are what the channel needs to
block on one while another proceeds; a second announcement of one is the smallest
instance in which a worker meets its own successor. In `registry` four requests are
the least with which a service is created, gets a session, is deleted and asked for
again while the deletion is pending; a circle of comparisons needs three ids, and the
fourth is one without an SSM, alone and beside one that has a context. In `content`
three changes are two PUTs with a state change between them. `CellBits` and
`Kilo` scale the 36 bits of a cell id and the factor of 1000 down so that TLC can
enumerate values at the boundary; both are constants of the model.

### Fairness

* `Dispatch`, `TimerExpires`, `HandlePatch...`, `HandleNotify`: weakly fair, the
  main loop drains its queue and then serves its timers.
* MB-SMF answers: the library reports a result for each request, an error if
  the MB-SMF does not answer.
* MBSTF answers to POST and DELETE: fair only while the `CLIENT_WAIT` timer of the
  request has not expired; a timeout may come first at any moment.
* MBSTF answers to PATCH in `DistSessionControl`: fair; a lost answer is a
  disturbance, of which there are finitely many.
* `Startup`, `Shutdown`, `EventLoop` in `NfServers`: the operating system runs
  both threads.
* The AF, the clock, faults and the request to terminate are never fair.
* `Registry`, `SessionContent`, `StatusSubscriptions`, `ServiceAnnouncement` and
  `AnnouncementBundle` state no fairness. That something must eventually happen is
  stated there of the states in which nothing is under way (`AnsweredOnce`,
  `BodyCurrent`, `Announced`) or as "whatever is due has someone who will do it"
  (`DueIsQueued`, `RebuildSeen`), which needs no assumption about speed.

### The finding

*`LateAnswerDropped`.* `Nmb2Handler.cc:205` asserts that the transaction of an
MBSTF answer exists. The branch behind it says that it may have been removed
and that the answer is then dropped. An AF that repeats its DELETE before the
first is answered is enough to reach the assertion: the end of the session
removes its transactions, and the MBSTF's second answer finds none.

### Odd steps

Several properties hold only until a step of a kind that the code does not follow
up. No text of the repository says that these steps are excluded or what should
come of them, so they are described here and under `hazards`, and not claimed as
findings. Each property names the ones it excludes; for all others it was
checked that they change nothing.

*State control* (`lapses` of `DistSessionControl`; `QuietIsRight`):

* `silent`: a transition back to the state the MBSTF reported last sends no PATCH,
  though the report may be older than the PATCH under way
  (`UserDataIngSession.cc:1005`);
* `overlap`: a stimulus comes before the last one is through; the answer to an
  older PATCH then clears `needsUpdate` and `stateUpdate` set since
  (`UserDataIngSession.cc:1763`);
* `early`: with two distribution sessions, a refusal is not retried if the other
  has not had its first answer yet (`UserDataIngSession.cc:1809`);
* `update`: a refused full update is dropped (`UserDataIngSession.cc:1806`);
* `lost`: an answer of refusal that gets lost is not retried;
* `revived`: a refusal has the PATCHes of all distribution sessions tried again
  (`UserDataIngSession.cc:1809`), also that of one that has failed and whose info was
  set to INACTIVE. The MBSTF takes it back to its scheduled state, while the info, the
  activity status and a PUT that drops the schedule go by INACTIVE. It takes two
  sessions, and the attempt to prove `QuietIsRight` for any number of them found it;
* the second half of the way from ACTIVE through INACTIVE to ESTABLISHED is dropped
  if an answer is handled between the notification of INACTIVE and the
  `PATCH_BUILD` event it queued (`DistributionSessionInfo.cc:611`);
* a session created ACTIVE whose first report never came is asked for
  ESTABLISHED directly, refused, and asked again, for ever (`Unreported`, the
  exception in `Settles`).

*Ingest session*: an MB-SMF error to an update is handled like one to a creation
(`UserDataIngSession.cc:2099`) and destroys the session, also while the AF waits for
its DELETE, which is then never answered; `DeleteAnswered` is stated without faults.

*Registry* (`odd`):

* `window`: a request that meets a service whose removal event is queued;
* `halfway`: a PUT with a used MBS Session Id stops half way, and its caller
  answers again (`UserDataIngSession.cc:1271`);
* `moved`: a PUT changes areas and the registry keeps the old ones
  (`DistributionSessionInfo.cc:174`);
* `dropped`, `readded`: a PUT drops a distribution session, whose context stays,
  or adds it again (`UserDataIngSession.cc:1978`); the loop that drops it erases
  from the map it goes through (1215-1254), and what it does from there on is
  undefined: it may see any of the keys, or end the process;
* `contextless`: an MBS Session Id without an SSM, or whose SSM has neither an IPv4
  nor an IPv6 address, gets no context (`UserDataIngSession.cc:1048-1089`) though it
  is registered: it is never given back, a POST with no other id is never answered,
  and a later PUT fails `ogs_assert(context_data)` (1222);
* `left`: the AF closes the stream of a DELETE before the answer, or of any request
  before it is handled; `Open5GSSBIStream` throws, for a removal at
  `UserService.cc:477` after the service has been deleted;
* `twice`: one request has ids in two keys that the comparison calls equal;
* `cyclic`: the comparison of the ids in use is not transitive
  (`UniqueMBSSessionId.cc:616`), so that a search of the `std::set` may miss;
* `early`: a DELETE while the session is being created, which sends nothing
  (`UserDataIngSession.cc:1933`);
* `unparsable`, `noid`, `malformed`: requests that are dropped, or throw, before
  the resource is found.

*Announcement*: a request to rebuild that comes between a worker's last look at
`m_rebuild` and its end is lost until the next one (`hurried`); the mutexes of a
session's carousel object and of the channel are taken in both orders, which
blocks both threads only if a session is announced again (`Stuck`); a manifest
whose POST failed is remembered as sent; ACTIVE wanted again before INACTIVE was
reported sends no PATCH, and the channel waits (`crossed`).

*Subscriptions*: a PUT or PATCH of a list leaves slots behind that the new
list does not name (`relisted`); a subscription or session that goes while an event
for it is queued leaves the handler with freed memory (excluded by `quiet`).

*Content*: leaving out a field in a PUT leaves the MB-SMF with its last value, as
`populate_mb_smf_mbs_session` clears nothing (`given` is therefore the last value
*given*); a network id with letters is cut (`Lossless`); an object session whose request also
carries a `pckDistrInfo` that only forwards packets is given no flow (`Nmb2Build.cc:303`; the
request `Stray`).

## 5. Proofs

All proofs are for every value of the constants that satisfies the modules'
named assumptions: no bound of section 4 is used. `NeverEndsAlone`, and what follows from it, has
a condition of its own.

**`SmallComponents_proofs`** holds the proofs of three small modules. Of `MbsSessionPush` it
proves type correctness, `NoOvertaking`,
`Settled` and `DoneIsLast`. None of the three is inductive: that nothing
outstanding means nothing different needs to know that a change in flight has
exactly one request outstanding, and that whatever differs from it is remembered
in `sendUpdates`. `PushInv` says so. It distinguishes the time before the delete
(`Idle` or `OneOutstanding`) from the time after it, where one old request may
still precede the delete. The lemmas say what `pushChanges`, `deleteSession` and
the callback return in each of these situations; there is one lemma per action.
`PushImplementsRegister` is the refinement: under `PushInv` each step of the handle is a
`Write`, an `Answer`, or a stutter of the register, which cannot be seen from the
step alone, because what the register calls pending is the head of `ops`. The only
assumption is `StatusAssumption`: the constants differ.

Of `ActivePeriods` it proves `StateIsMeant`, `NoMissedTransition` and `RequestIsMeant` for any
number of windows in any order and overlap, any repetition rule with a positive interval, any
lead time and any number of PUTs. Two things are to be shown. The code reads the clock twice, so
`PeriodsInv` says that the state is that of the first reading and the timer the first transition
after the second. And it looks at one window, or one occurrence of a rule, where the meaning
(`Meant`) is over all of them: `WindowsMeant` and `RuleMeant` say that what it finds is the same,
`WindowsSteady` and `RuleSteady` that nothing changes before the transition it computes. The
first needs the list sorted, which `ConvertIs` shows of what a PUT stores, and that needs the sort
to lose no window: `Ranks` shows that a list has one element per rank, by counting.
`RequestIsMeant` ends the chain at what the AF sent, not at what was stored.

Of `NfServers` it proves `NotificationsReturn` (which excludes, by name, servers with port 0 at
the listener's address), for every configuration that is one
(`DocumentsAssumption`: sections, blocks and addresses come in sequences) and any number of
distribution sessions and requests; of the servers Open5GS makes it assumes that no two have one
address. `ServersInv` says why the address in a URL is enough: the table of servers is sound
(`Table`: each server is listed under a type and no two know themselves by one address) after any
number of blocks and addresses, which the folds of `parseConfiguration` and `parseBlocks` need an
induction for (`FoldExists`), and a live session's URL is at a notification listener (`RoutesOK`),
also after later sessions put other servers under that type. A server bound to port 0 gets a
port that no other has, which exists (`PortIsFree`). That nobody takes a request from its owner is
a matter of the order of the handlers (`DispatchIs`).

**`DistSessionControl_proofs`** proves for every finite set of distribution
sessions, every schedule and every number of disturbances:
`ControlTypes`, `RequestRemembered` (`RequestedIsSent`: `last_requested_state`
agrees with the newest PATCH under way) and `ScheduleNeverStops`
(`ScheduleRuns`). The central notion is `IsEffect`: whatever a handler does to a
context either leaves `last_requested_state` alone and sends nothing, or sends
exactly one PATCH and records its state. Each handler is shown to be built of
such effects; `AgreedAfter` and `AgreedTail` carry the agreement over sending and
over the MBSTF's taking a PATCH. `ControlInv` adds the types, without which
the last PATCH of a queue is not defined. `ScheduleRuns` is inductive given the types.

`RestIsRight` is `QuietIsRight` for any number of sessions and disturbances, and for every
schedule without a step from ACTIVE to ESTABLISHED (`NoStepDown`; that way is the last but one
of the odd steps of the control loop). Rest is reached over many steps, so `CalmInv` says what
holds on the way, for one session at a time and by its values (`KeyOK`), which is what lets the
same lemma serve every handler that treats a session alike. What is under way is `Sound`: PATCHes
ask for what is meant, an answer of success means that the MBSTF has it, and the last report is
the MBSTF's state. What is not right is `Cared` for: a PATCH, a refusal or an event is there, and
the flags are up without which the answer or the event would do nothing (`Working`). A failed
session that nobody asked anything of since (`Down`) is let off, and its info is INACTIVE or
about to be. `Meant` is the state of the phase that the timer has dealt with, and not of the one
that has just begun. A PUT sets all infos before the first of its `PATCH_BUILD` events is handled
(`OnTarget`), or an answer in between would have a session looked at again while its new content
waits. The lemmas about values (`SentOK`, `LookedAgain`, `AcceptedOK`, `DoneOK`, ...) say what each
thing that can happen to a session does to `KeyOK`; those named `...Calm` put them together,
one per action; lapses are not forgotten (`LapsesGrow`), so `Calm` is only `CalmInv` as long
as there was none.

**`UserDataIngSession_proofs`** proves `TwoPhases`, `NoMbsLeft` and
`MbsAfterMbstf` for any number of keys, DELETEs and faults and without the
constraints of the run. `IngInv` is needed because each is decided by an event that was queued
long before: `EventsOK` says what the presence of an event tells (`REQ_BUILD`: no
context is `NO`; a successful answer to a DELETE: the id has `Ended`, it is not at
the MBSTF and no POST that could bring it back is on the way). That this stays true needs
`WireOK`: every id is POSTed once, and is not at the MBSTF before. `RepliesOK`
counts: no more MB-SMF replies wait in the queue than there are requests
unanswered, or the callback would take from an empty list. `Lifetime` says
what has not begun and what ended. The handle's lemmas (`Pushes`, `Deletes`, `CallsBack`) are
cited by the actions that use it; `PlainFrame`, `HandleFrame` and `QueueFrame`
carry the conjuncts a handler does not disturb; there is one lemma per action.
`NewXidIsFree` shows that a free transaction id exists, as finitely many are in use.

The same module proves `CreatedIsComplete`, whatever fails before the answer. `CreateInv` says
that while the AF waits for its 201 nothing in the queue deletes anything (`EventsCreate`) and
that each key whose answer has arrived is at the MBSTF with its MBS Session confirmed
(`KeysCreate`). It proves `NoOrphans`, and `DeletedIsClean` as far as nothing fails, for any number
of keys and DELETEs. The reason is that without faults a key is POSTed once, so that an
answer about a distribution session is about the only one its key has; `SmoothInv` says
this by counting: at most one request to build and one result of the MB-SMF are queued for
a key (`Once`), none while the other is still to come (`Absent`), and two ids of the
registry have two keys (`OneId`). `Smooth` is `SmoothInv` as long as `faults = 0`; faults are never
taken back, so its step needs it only before steps without faults (`NoFaultBefore`).

`NoAbortWithoutFaults` is proved (`NeverEndsAlone`) for one DELETE of the AF, `MaxDeletes <= 1`. What
ends the process (`abort`) is an answer whose transaction is gone (`xact`), an MBS Session just
deleted that still has updates to send (`null`), a result event that outlived its session
(`dangling`), or a pending DELETE whose stream is gone (`stream`); none of these can be seen from the step at which it
happens, as the event was queued long before. `LoneInv` therefore speaks of the order of the queue,
as a relation between every event and each later one (`InOrder`, `Apart`): no two answers have one
transaction, a distribution session is told to go once, and nothing about a key follows its
`DELETED`. Every request on its way and every answer has a transaction of its own (`LoneXacts`). At
the one DELETE each MBS Session is `Untouched` since it was created, so that its delete is the only
change it will see and `sendUpdates` never rises (`HandleOK`). When the last key is reported deleted
no transaction and no event of the session is left, and its end takes nothing from anybody.
`AnswersFindTheirXact` is what Nmb2Handler.cc:206 asserts, under these conditions.

**`ServiceAnnouncement_proofs`** proves `BuiltIsCurrent`, `RebuildSeen`,
`StuckIsRebuilt` and `Announced` for any sessions announced any number of times.
`AnnInv` adds to the first two that a living session's workers
are not cancelled, that `m_workerIsRunning` is up only while a worker is at work, and that a
request that came while none was at work finds none when the thread is to be started. There is
one lemma per step of a worker and of the main thread; the channel's thread
changes nothing these speak of. That the two mutexes block only after a second
announcement follows from `RoundInv`: a session announced once goes through one round, and
the channel's list has it only when the round is over, so that its worker and the channel
never want its object at once. `SentInv` is the channel's side of `Announced`: what it was
asked for, what it has asked the MBSTF for, and that the carousel is the manifest sent last.

**`AnnouncementBundle_proofs`** proves `ListedIsThere` and `AnswerWhole` for any versions,
distribution sessions, failed writes and flushes, and requests. The first is not inductive: a
file joins the list a step after its two writes, so `BundleInv` says what is written, and whole
but for a flush that failed, at each place of the worker (`Written`), and that neither the file
at hand nor those of the keys left are listed yet (`Unlisted`). For the second, `AnswerInv` says at each place of the worker which of the
listed files have the version of the build (`AnnouncementBuilt`, `SdpsBuilt`), that a finished
build without failure is whole as long as the Context or a reader has the session
(`Complete`, `Live`), and that a reader no build has met so far has read
a prefix of it (`ReaderIs`). Both rest on `BundleAssumption`: the announcement's file has the
name of no SDP file.

**`Registry_proofs`** proves `CounterExact`, `HandlersSafe`, `AnsweredOnce` and `IdsExact` for any
services, ingest sessions, ids and number of requests. `ServiceInv` is what makes a deferred
deletion work: a service with a removal pending has sessions left, one whose removal is queued
has none, is queued once, and is as it was at the DELETE, so that the counter goes down by what
it went up. `AnswerInv` accounts for every stream: it waits in exactly one `Place` (a
session's POST, a session's DELETEs, a service's removal, the queue) and has no answer, or it has
one, or its stream is lost; `AnswersStep` is the one lemma about a request that stays, moves or is
answered, and each handler is shown to be such a step. `LeftIs` says that a lost stream for which a
DELETE waits is the odd step `left`, which is what the exceptions of `HandleRemoval` and `Deleted`
need. A step that ends the process accounts for nothing, so the invariant of the specification is
`RegistryInv`: `ServiceInv`, and `AnswerInv` as long as the process runs. `Id` may be any set of ids the code can hold
(`UniqueIds`).

`IdsExact` is about the tree of ids in use. Its invariant `IdsRight` says, before any of the odd
steps it excludes (`Calm`), that the tree is a `Chain` (each element less than all that follow, not
only than the next), that every ingest session has a context for each of its keys, no two with one id
(`OneEach`), that different sessions have different ids, and that the tree has these and no other.
`Compare` is antisymmetric for all ids (`ComparesAreOpposite`), and ids that clash are equal to it
(`ClashIsEqual`); that it is transitive is what `cyclic` says of the ids at hand, no more. With that,
an id which is not found is equal to none (`AbsentIs`), one that is equal to none is inserted where
the chain stays one (`InsertNew`), and one of the tree is found and is what erase takes
(`ForgetOne`). Several ids come and go in folds (`InsertAllIs`, `ForgetAllIs`, `AllClearedIs`,
`AddNewIs`), and each handler only adds the ids of one session or takes those of some (`IdsCome`,
`IdsGo`).

**`SessionContent_proofs`** proves `SmfLatest`, `Coherent` and `BodyCurrent` for every set of
requests and any number of changes. `SmfInv` adds the shape of the records before and after the
MBS Session exists; `CoherentInv` that what the MBSTF has and every full update under way are
bodies of one method, which for the packet method needs to know whose addresses are in the info;
`OneChange` that, as long as changes do not overlap, a change waits for its event, then is on
its way, then has arrived. `RecordAssumption` says that
`None`, which stands for a field that is absent, is none of the records that may be present,
and that a `pckDistrInfo` that is present has a mode and addresses.

**`StatusSubscriptions_proofs`** proves `NewsOnly`, `SlotHolder`, `CalmIsSafe` and
`DueIsQueued` for any distribution sessions, event lists, reports and number of changes. What is
hard is that sending is three nested loops (over the map of subscriptions, the list of a
subscription, and its reports). `Leads` is the contract of all of them: every subscription is
only told more, each time of something newer (`News`, `Grown`), the time stamps of the
distribution sessions stay, and sending ends the process only if a subscription names a distribution
session that does not exist, or one with an unknown event. `UpToDate` says that whoever is sent its notifications knows the
latest of everything it asked for, which is why the head of the queue, once handled, owes
nothing (`HeadIsServed`). `Inv` then says who holds each slot, that an event for each due
report is in the queue and live, and that without deletions nothing refers to what is gone. The
assumptions on `EventLists` are that a list is not empty and that `UnknownEvent` stands for every
event that the code does not know.

*Induction.* The library's induction theorems take a predicate as a parameter, which these
provers cannot instantiate. `Induct` and `Least` (in `ServiceAnnouncement_proofs`,
`StatusSubscriptions_proofs` and, with `LeastNat`, `SmallComponents_proofs` and
`Registry_proofs`) obtain induction over the naturals from the well-foundedness of
`<`, for a *set* of naturals; with them `FoldExists` constructs the recursive function behind a
fold, and a lemma per folded operator (`ThoseIs`, `TellAllIs`, `RoundsIs`, ...) says that the fold
goes through its list from the first element to the last. What the operators of the library that
recurse by other means compute (`SelectSeq`, `SetToSortSeq`) cannot be reached this way, so the model
filters and sorts with folds, or says what the result is (`InOrder`, `Precedes`, `SetErase`), where a
proof depends on it.

Only model-checked:

* all liveness properties (fairness is beyond the prover);
* `AreaChangeSeen`: that two areas which mean different things differ after the conversion is about
  what `SelectSeq` and numerals of any length return;
* `DeletedIsClean` with faults, which holds under the bounds and constraints of its run only
  (section 4): with more faults the odd steps of the ingest session come in.
  (`NoAbortWithoutFaults` is proved under `MaxDeletes <= 1`: with a second DELETE it is false, which is what
  `ingest_retry` shows, and with faults it says nothing.)

## 6. Not modelled

* NRF registration and discovery: an MBSTF of a session is known.
* `Curl` and the `Open5GSSBI*` wrappers, other than their outcome (a POST
  succeeds or fails, a server opens, a request is parsed).
* GETs, which change no state, and the parsing of JSON and of dates. Keys of
  distribution sessions are names that need no escaping in a URL.
* The MBSTF requests for a key that a PUT adds or drops, message by message:
  `Registry` has them as one step.
* An `NcgiTai` has one cell, and areas are sets of small numbers, in `Registry`.
* A PATCH before the answer to the session's first POST: `DistSessionControl`
  starts with an established session.
* The end of an ingest session while its control loop runs: `DistSessionControl`
  has neither a DELETE of the AF nor a PATCH answered by a 200 whose body cannot be
  parsed. The code takes the latter for a failed creation: it sends an error on the
  stream of the request and a DELETE for every distribution session
  (`Nmb2Handler.cc:314-331`), which is the deletion `UserDataIngSession` models.
* The TMGI the MB-SMF allocates for a session.
* The generated OpenAPI classes, the Open5GS framework, `libmbsmf`, MB-SMF and
  MBSTF, other than by how the MBSF uses them (marked external in the map).
