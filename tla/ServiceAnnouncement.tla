------------------------ MODULE ServiceAnnouncement ------------------------
(***************************************************************************)
(* User service announcement (UserServiceAnnBundle.cc,                     *)
(* UserServiceAnnChannel.cc, UserDataIngSession.cc): the only part of the  *)
(* MBSF with threads of its own.  For each announced ingest session the    *)
(* main thread starts workers that write the announcement bundle; one more *)
(* thread keeps the announcement channel's distribution session in the     *)
(* right state and sends the manifest of all bundles to its carousel.      *)
(*                                                                         *)
(* A step ends where a thread takes or gives up a mutex or touches an      *)
(* atomic that another thread decides on.  Three mutexes matter: the       *)
(* channel's, which its worker holds except while it waits; a session's    *)
(* m_carouselObjectMutex; and the bundle's.  Who holds them follows from   *)
(* where the threads are.                                                  *)
(***************************************************************************)
EXTENDS Naturals, Sequences, FiniteSets, SequencesExt

CONSTANTS Session,     \* the ingest sessions that are announced
          Builds,      \* per session: the times its announcement is asked for
          MaxFailures  \* POSTs of the manifest that fail

ASSUME AnnouncementAssumption ==
    /\ IsFiniteSet(Session) /\ Session # {}
    /\ Builds \in [Session -> Nat \ {0}] /\ MaxFailures \in Nat

VARIABLES
    session,  \* per session: see SessionState
    threads,  \* per session: where its workers are, oldest first
    main,     \* what the main thread does: <<"idle">> or <<step, session>>
    chan,     \* the announcement channel's distribution session
    cpc,      \* where the channel's worker is
    todo,     \* the sessions it still looks at, in sendCarouselRequest
    objs,     \* how many objects it has found, null ones included
    manifest, \* the objects it has found
    list,     \* m_userDataIngSessions of the channel; a session may occur twice
    last,     \* m_lastSentCarouselObjectManifest, << >> for null
    carousel, \* the manifest the MBSTF has
    failures, \* POSTs that failed
    abort     \* "no", or why the process ended

\* The announcement channel's distribution session: has the MB-SMF created its
\* MBS session, was the MBSTF asked and has it answered; the state wanted
\* (in the info), PATCHed but not yet done, and last reported by the MBSTF; has
\* the MBSF begun to shut down, and was a state wanted again before its
\* opposite was reported?
ChannelState ==
    [mbs: BOOLEAN, requested: BOOLEAN, responded: BOOLEAN,
     info: {"ACTIVE", "INACTIVE"}, patches: Seq({"ACTIVE", "INACTIVE"}),
     reported: {"ACTIVE", "INACTIVE", "UNSET"},
     cancel: BOOLEAN, crossed: BOOLEAN]

chanvars == <<chan, cpc, todo, objs, manifest, last, carousel, failures>>
vars == <<session, threads, main, chanvars, list, abort>>

SessionState ==
    [alive: BOOLEAN,      \* does the Context hold the session?
     object: BOOLEAN,     \* m_carouselObject
     available: BOOLEAN,  \* m_userServiceAnnBundleAvailable, which is never reset
     rebuild: BOOLEAN, running: BOOLEAN, cancel: BOOLEAN,
     want: Nat,          \* the version of what is to be announced
     built: Nat,         \* the version in the files
     hurried: BOOLEAN]    \* was it asked for while a worker was at work?

WorkerAt == {"test", "clear", "lock", "write", "populate", "carousel", "add",
             "finish", "done"}

AtWork(s) == {i \in DOMAIN threads[s] : threads[s][i] # "done"}
HoldsBundle(s) == \E i \in AtWork(s) : threads[s][i] \in {"write", "populate",
                                                          "carousel", "add"}
HoldsCarousel(s) == \E i \in AtWork(s) : threads[s][i] = "add"
HoldsSession(s) == \E i \in AtWork(s) : threads[s][i] \in {"populate", "carousel", "add"}
ChannelMutexFree == cpc \in {"wait", "end"}

\* A weak_ptr to the session can be locked.
Lockable(s) == session[s].alive \/ HoldsSession(s)

-----------------------------------------------------------------------------
(* The main thread.                                                        *)

\* Mutant: the channel is told of the session before the bundle is written.
AnnounceAdds(s) ==
    /\ main = <<"idle">> /\ session[s].alive /\ session[s].want < Builds[s]
    /\ ~HoldsCarousel(s) /\ ChannelMutexFree
    /\ session' = [session EXCEPT ![s].object = FALSE, ![s].want = @ + 1,
                                  ![s].hurried = @ \/ AtWork(s) # {}]
    /\ list' = Append(list, s)
    /\ main' = <<"start", s>>
    /\ UNCHANGED <<threads, chanvars, abort>>

\* requiresUserServiceAnnouncement and configureUserServiceAnnouncementBundler,
\* up to resetCarouselObject, which waits for the mutex
Announce(s) ==
    /\ main = <<"idle">> /\ session[s].alive /\ session[s].want < Builds[s]
    /\ ~HoldsCarousel(s)
    /\ session' = [session EXCEPT ![s].object = FALSE, ![s].want = @ + 1,
                                  ![s].hurried = @ \/ AtWork(s) # {}]
    /\ main' = <<"start", s>>
    /\ UNCHANGED <<threads, chanvars, list, abort>>

\* startWorker: m_rebuild is set ...
StartWorker(s) ==
    /\ main = <<"start", s>>
    /\ session' = [session EXCEPT ![s].rebuild = TRUE]
    /\ main' = <<"spawn", s>>
    /\ UNCHANGED <<threads, chanvars, list, abort>>

\* ... and a thread is started, unless one seems to be running
SpawnWorker(s) ==
    /\ main = <<"spawn", s>>
    /\ threads' = IF session[s].running THEN threads
                  ELSE [threads EXCEPT ![s] = Append(@, "test")]
    /\ main' = <<"idle">>
    /\ UNCHANGED <<session, chanvars, list, abort>>

\* The Context gives up the session.  If no worker holds it the destructor of
\* the bundle runs at once: abort() cancels, and joins the last worker.
DeleteSession(s) ==
    /\ main = <<"idle">> /\ session[s].alive
    /\ session' = [session EXCEPT ![s].alive = FALSE,
                                  ![s].cancel = @ \/ ~HoldsSession(s)]
    /\ main' = IF HoldsSession(s) THEN main ELSE <<"join", s>>
    /\ UNCHANGED <<threads, chanvars, list, abort>>

\* The bundle is freed.  A detached worker that is still at work uses it.
Joined(s) ==
    /\ main = <<"join", s>>
    /\ threads[s] # << >> => Last(threads[s]) = "done"
    /\ main' = <<"idle">>
    /\ abort' = IF AtWork(s) # {} THEN "useAfterFree" ELSE abort
    /\ UNCHANGED <<session, threads, chanvars, list>>

-----------------------------------------------------------------------------
(* A worker of a bundle: worker() and finish().                            *)

At(s, i, pc) == i \in DOMAIN threads[s] /\ threads[s][i] = pc
Goto(s, i, pc) == threads' = [threads EXCEPT ![s][i] = pc]

\* while (m_rebuild)
WorkerTest(s, i) ==
    /\ At(s, i, "test")
    /\ Goto(s, i, IF session[s].rebuild THEN "clear" ELSE "finish")
    /\ UNCHANGED <<session, main, chanvars, list, abort>>

WorkerClear(s, i) ==
    /\ At(s, i, "clear")
    /\ session' = [session EXCEPT ![s].rebuild = FALSE]
    /\ Goto(s, i, "lock")
    /\ UNCHANGED <<main, chanvars, list, abort>>

\* The bundle's mutex is taken.
WorkerLock(s, i) ==
    /\ At(s, i, "lock") /\ ~HoldsBundle(s)
    /\ session' = [session EXCEPT ![s].running = @ \/ ~session[s].cancel]
    /\ Goto(s, i, IF session[s].cancel THEN "finish" ELSE "write")
    /\ UNCHANGED <<main, chanvars, list, abort>>

\* writeAnnouncement and writeServiceDescriptionProtocolDoc of all distribution
\* sessions, if the session still exists
WorkerWrite(s, i) ==
    /\ At(s, i, "write")
    /\ session' = IF Lockable(s) THEN [session EXCEPT ![s].built = session[s].want] ELSE session
    /\ Goto(s, i, IF Lockable(s) THEN "populate" ELSE "test")
    /\ UNCHANGED <<main, chanvars, list, abort>>

\* The end of a round: the worker gives up the session.  If it was the last to
\* hold it the session is destroyed here, with the thread that runs.
Release(s, i) ==
    abort' = CASE session[s].alive -> abort
               [] ~session[s].alive /\ i = Len(threads[s]) -> "terminate"
               [] OTHER -> "useAfterFree"

\* userServiceAnnBundled, up to populateCarouselObject.  Nothing is announced if
\* the MBSTF of the channel is not known yet; an address of the MBSF that the
\* MBSTF can reach may be found or not.
WorkerPopulate(s, i) ==
    /\ At(s, i, "populate")
    /\ \/ /\ ~chan.responded
          /\ Goto(s, i, "test") /\ Release(s, i) /\ UNCHANGED session
       \/ /\ chan.responded /\ ~HoldsCarousel(s)
          /\ \E found \in BOOLEAN :
                session' = [session EXCEPT ![s].object = @ \/ found]
          /\ Goto(s, i, "carousel") /\ UNCHANGED abort
    /\ UNCHANGED <<main, chanvars, list>>

\* The session's carousel mutex is taken and kept.
WorkerCarousel(s, i) ==
    /\ At(s, i, "carousel") /\ ~HoldsCarousel(s)
    /\ IF session[s].object
       THEN /\ session' = [session EXCEPT ![s].available = TRUE]
            /\ Goto(s, i, "add") /\ UNCHANGED abort
       ELSE Goto(s, i, "test") /\ Release(s, i) /\ UNCHANGED session
    /\ UNCHANGED <<main, chanvars, list>>

\* addUserDataIngSession, with the channel's mutex
WorkerAdd(s, i) ==
    /\ At(s, i, "add") /\ ChannelMutexFree
    /\ list' = Append(list, s)
    /\ Goto(s, i, "test") /\ Release(s, i)
    /\ UNCHANGED <<session, main, chanvars>>

\* Mutant: a worker that ends does not say so.
WorkerFinishSilent(s, i) ==
    /\ At(s, i, "finish")
    /\ Goto(s, i, "done")
    /\ UNCHANGED <<session, main, chanvars, list, abort>>

\* Mutant: a worker that ends takes back the request.
WorkerFinishClears(s, i) ==
    /\ At(s, i, "finish")
    /\ session' = [session EXCEPT ![s].running = FALSE, ![s].rebuild = FALSE]
    /\ Goto(s, i, "done")
    /\ UNCHANGED <<main, chanvars, list, abort>>

\* finish()
WorkerFinish(s, i) ==
    /\ At(s, i, "finish")
    /\ session' = [session EXCEPT ![s].running = FALSE]
    /\ Goto(s, i, "done")
    /\ UNCHANGED <<main, chanvars, list, abort>>

Worker(s, i) ==
    \/ WorkerTest(s, i) \/ WorkerClear(s, i) \/ WorkerLock(s, i)
    \/ WorkerWrite(s, i) \/ WorkerPopulate(s, i) \/ WorkerCarousel(s, i)
    \/ WorkerAdd(s, i) \/ WorkerFinish(s, i)

-----------------------------------------------------------------------------
(* The worker of the channel: workerLoop().                                *)

\* The elements of a list that are in a set, in their order.
Those(l, S) == FoldLeft(LAMBDA those, s : IF s \in S THEN Append(those, s) ELSE those,
                        << >>, l)

Listed == {s \in Range(list) : Lockable(s)}
Available == {s \in Listed : session[s].available}

\* setDistSessionState: the MBSTF is asked for the state unless it is the one
\* it reported last, even if it is still to do an earlier PATCH.
SetDistSessionState(c, state) ==
    IF c.info = state THEN c
    ELSE [c EXCEPT !.info = state,
                   !.patches = IF state # c.reported THEN Append(@, state) ELSE @,
                   !.crossed = @ \/ c.patches # << >>]

\* The wait ends, by notify() or after CHECK_CANCEL_MS: from the top of the loop
\* to the next wait, or into sendCarouselRequest.
ChannelTop ==
    /\ cpc = "wait"
    /\ \/ /\ chan.cancel
          /\ cpc' = "end"
          /\ UNCHANGED <<chan, todo, list>>
       \/ /\ ~chan.cancel /\ ~chan.mbs
          /\ cpc' = "wait"
          /\ UNCHANGED <<chan, todo, list>>
       \/ /\ ~chan.cancel /\ chan.mbs /\ ~chan.responded
          /\ chan' = [chan EXCEPT !.requested = TRUE]
          /\ cpc' = "wait"
          /\ UNCHANGED <<todo, list>>
       \/ /\ ~chan.cancel /\ chan.mbs /\ chan.responded
          /\ list' = Those(list, Listed)
          /\ chan' = SetDistSessionState(chan, IF Available # {} THEN "ACTIVE" ELSE "INACTIVE")
          /\ LET send == Available # {} /\ chan.reported = "ACTIVE"
             IN  /\ cpc' = IF send THEN "collect" ELSE "wait"
                 /\ todo' = IF send THEN list' ELSE << >>
    /\ objs' = 0 /\ manifest' = << >>
    /\ UNCHANGED <<session, threads, main, last, carousel, failures, abort>>

\* sendCarouselRequest looks at the next session.  getCarouselObject needs the
\* session's carousel mutex, and the channel's is held all the while.
ChannelCollect ==
    /\ cpc = "collect" /\ todo # << >>
    /\ LET s == Head(todo) IN
       IF s \in Available
       THEN /\ ~HoldsCarousel(s)
            /\ objs' = objs + 1
            /\ manifest' = IF session[s].object THEN Append(manifest, s) ELSE manifest
       ELSE UNCHANGED <<objs, manifest>>
    /\ todo' = Tail(todo)
    /\ UNCHANGED <<session, threads, main, chan, cpc, list, last, carousel, failures, abort>>

\* Mutant: the MBSTF gets the manifest of the last time.
ChannelSendStale ==
    /\ cpc = "collect" /\ todo = << >>
    /\ cpc' = "wait"
    /\ last' = manifest
    /\ carousel' = IF manifest # last THEN last ELSE carousel
    /\ UNCHANGED <<session, threads, main, chan, todo, objs, manifest, list, failures, abort>>

\* ... and POSTs the manifest, if there were objects and it is a new one.  It
\* counts as sent even if the POST failed.
ChannelSend ==
    /\ cpc = "collect" /\ todo = << >>
    /\ cpc' = "wait"
    /\ IF objs > 0 /\ manifest # last
       THEN /\ last' = manifest
            /\ \/ carousel' = manifest /\ UNCHANGED failures
               \/ /\ failures < MaxFailures
                  /\ failures' = failures + 1 /\ UNCHANGED carousel
       ELSE UNCHANGED <<last, carousel, failures>>
    /\ UNCHANGED <<session, threads, main, chan, todo, objs, manifest, list, abort>>

Channel == ChannelTop \/ ChannelCollect \/ ChannelSend

-----------------------------------------------------------------------------
(* What other components do to the channel.                                *)

ChangeChannel(c) ==
    /\ chan' = c
    /\ UNCHANGED <<session, threads, main, cpc, todo, objs, manifest, list, last, carousel,
                   failures, abort>>

\* The MB-SMF and the MBSTF create the channel's sessions, when asked.
MbsCreated == ~chan.mbs /\ ChangeChannel([chan EXCEPT !.mbs = TRUE])
StfResponds ==
    /\ chan.requested /\ ~chan.responded
    /\ ChangeChannel([chan EXCEPT !.responded = TRUE])

\* The MBSTF does a PATCH and reports its new state.
StfReports ==
    /\ chan.patches # << >>
    /\ ChangeChannel([chan EXCEPT !.reported = Head(chan.patches), !.patches = Tail(@)])

\* The destructor of the channel, when the MBSF shuts down; it joins the
\* worker and the main thread does nothing more.
Cancel ==
    /\ main = <<"idle">> /\ ~chan.cancel
    /\ chan' = [chan EXCEPT !.cancel = TRUE]
    /\ main' = <<"quit">>
    /\ UNCHANGED <<session, threads, cpc, todo, objs, manifest, list, last, carousel,
                   failures, abort>>

-----------------------------------------------------------------------------
Init ==
    /\ session = [s \in Session |->
            [alive |-> TRUE, object |-> FALSE, available |-> FALSE, rebuild |-> FALSE,
             running |-> FALSE, cancel |-> FALSE, want |-> 0, built |-> 0,
             hurried |-> FALSE]]
    /\ threads = [s \in Session |-> << >>]
    /\ main = <<"idle">>
    /\ chan = [mbs |-> FALSE, requested |-> FALSE, responded |-> FALSE,
               info |-> "INACTIVE", patches |-> << >>, reported |-> "UNSET",
               cancel |-> FALSE, crossed |-> FALSE]
    /\ cpc = "wait" /\ todo = << >> /\ objs = 0 /\ manifest = << >>
    /\ list = << >> /\ last = << >> /\ carousel = << >>
    /\ failures = 0 /\ abort = "no"

Main(s) == StartWorker(s) \/ SpawnWorker(s) \/ Joined(s)
Peers == MbsCreated \/ StfResponds \/ StfReports

Next ==
    /\ abort = "no"
    /\ \/ Channel \/ Peers \/ Cancel
       \/ \E s \in Session : Announce(s) \/ DeleteSession(s) \/ Main(s)
       \/ \E s \in Session : \E i \in 1..Builds[s] : Worker(s, i)

Spec == Init /\ [][Next]_vars

-----------------------------------------------------------------------------
(* Properties.                                                             *)

TypeOK ==
    /\ session \in [Session -> SessionState]
    /\ threads \in [Session -> Seq(WorkerAt)]
    /\ main \in {<<"idle">>, <<"quit">>} \cup ({"start", "spawn", "join"} \X Session)
    /\ chan \in ChannelState
    /\ cpc \in {"collect", "wait", "end"}
    /\ {todo, manifest, list, last, carousel} \subseteq Seq(Session)
    /\ objs \in 0..Len(list) /\ failures \in 0..MaxFailures
    /\ abort \in {"no", "terminate", "useAfterFree"}

\* A worker of s has taken back the request and has still to write the files.
Underway(s) == \E i \in AtWork(s) : threads[s][i] \in {"lock", "write"}

\* startWorker's protocol of m_rebuild: the flag is cleared before
\* the files are written, so that when it is down and nobody is about to write,
\* the files describe the session as it was announced last, however many
\* requests came and whatever the workers were doing.
BuiltIsCurrent ==
    \A s \in Session :
        /\ session[s].alive /\ ~session[s].rebuild /\ ~Underway(s)
        /\ main # <<"start", s>>
        => session[s].built = session[s].want

\* A request that comes while no worker is at work is served: m_rebuild is up
\* only while some worker will look at it, or one is about to be started.  (One
\* that comes just when a worker ends may be lost until the next one.)
RebuildSeen ==
    \A s \in Session :
        session[s].alive /\ session[s].rebuild /\ ~session[s].hurried
        => main = <<"spawn", s>> \/ \E i \in AtWork(s) : threads[s][i] # "finish"

\* The channel waits for a session's carousel mutex, whose owner waits for the
\* channel's: for ever, and the main thread with them at the next announcement.
Stuck(s) == /\ cpc = "collect" /\ todo # << >> /\ Head(todo) = s
            /\ s \in Available /\ HoldsCarousel(s)

\* The two mutexes are taken in both orders (userServiceAnnBundled and
\* sendCarouselRequest), but only a session that is announced again can be in
\* the channel's list while a worker of it is adding it.
StuckIsRebuilt == \A s \in Session : Stuck(s) => session[s].want > 1

\* Nothing is under way, and one more round of the channel's worker would change
\* nothing.
Objects == Those(list, {s \in Available : session[s].object})
Settled ==
    /\ main = <<"idle">> /\ \A s \in Session : AtWork(s) = {}
    /\ cpc = "wait" /\ chan.responded /\ chan.patches = << >>
    /\ chan.info = IF Available # {} THEN "ACTIVE" ELSE "INACTIVE"
    /\ Available # {} /\ chan.reported = "ACTIVE" => last = Objects

\* A session with an object that the channel knows gets into the MBSTF's
\* carousel: the channel is made ACTIVE, and the manifest is sent.  This may
\* fail if a POST failed, or if ACTIVE was wanted again before the MBSTF had
\* reported the INACTIVE it was asked for (setDistSessionState then sends no
\* PATCH, and the channel's worker waits for a report that does not come).
Announced ==
    Settled /\ failures = 0 /\ ~chan.crossed
    => \A s \in Available : session[s].object => s \in Range(carousel)
=============================================================================
