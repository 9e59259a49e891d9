--------------------- MODULE ServiceAnnouncement_proofs ---------------------
(***************************************************************************)
(* Proofs about ServiceAnnouncement, for any set of sessions, any number   *)
(* of announcements and failures: the workers of a bundle leave the files  *)
(* as they were last asked for, and serve every request that comes while   *)
(* none is at work (AnnInv); worker and channel block each other only if a *)
(* session was announced again (RoundInv); and what the channel knows ends *)
(* in the carousel (SentInv), which needs what the fold Those returns.     *)
(***************************************************************************)
EXTENDS ServiceAnnouncement, WellFoundedInduction, TLAPS

\* What BuiltIsCurrent and RebuildSeen say of one session.
Current(s) ==
    session[s].alive /\ ~session[s].rebuild /\ ~Underway(s) /\ main # <<"start", s>>
    => session[s].built = session[s].want
Seen(s) ==
    session[s].alive /\ session[s].rebuild /\ ~session[s].hurried
    => main = <<"spawn", s>> \/ \E i \in AtWork(s) : threads[s][i] # "finish"

\* m_cancel is set by the end of the session only; m_workerIsRunning is up only
\* while a worker is at work; and a request that came while none was at work
\* finds none when the thread is to be started.
Uncancelled(s) == session[s].alive => ~session[s].cancel
RunningWorks(s) == session[s].running => AtWork(s) # {}
NoneYet(s) ==
    main \in {<<"start", s>>, <<"spawn", s>>} /\ ~session[s].hurried => AtWork(s) = {}

Good(s) == Uncancelled(s) /\ RunningWorks(s) /\ NoneYet(s) /\ Current(s) /\ Seen(s)

WorkTypes ==
    /\ session \in [Session -> SessionState]
    /\ threads \in [Session -> Seq(WorkerAt)]

AnnInv == WorkTypes /\ \A s \in Session : Good(s)

-----------------------------------------------------------------------------
(* Steps that a session does not notice.                                   *)

\* A session stays good if its flags and workers stay, and the main thread
\* neither starts nor ends the work on it.
LEMMA GoodUntouched ==
    ASSUME NEW s \in Session, Good(s), session'[s] = session[s], threads'[s] = threads[s],
           main' = <<"start", s>> <=> main = <<"start", s>>,
           main' = <<"spawn", s>> <=> main = <<"spawn", s>>
    PROVE  Good(s)'
  <1>1. AtWork(s)' = AtWork(s) /\ Underway(s)' = Underway(s)
    BY DEF AtWork, Underway
  <1>2. Uncancelled(s)' /\ RunningWorks(s)' /\ NoneYet(s)'
    BY <1>1 DEF Good, Uncancelled, RunningWorks, NoneYet
  <1>3. Current(s)'
    BY <1>1 DEF Good, Current
  <1>4. Seen(s)'
    BY <1>1 DEF Good, Seen
  <1>5. QED BY <1>2, <1>3, <1>4 DEF Good

\* Types, when one session changes.
LEMMA OneSession ==
    ASSUME WorkTypes, NEW s \in Session, NEW r \in SessionState,
           session' = [session EXCEPT ![s] = r], threads' \in [Session -> Seq(WorkerAt)]
    PROVE  WorkTypes'
  BY DEF WorkTypes

\* What a step of one worker does to the positions of its session's workers.
LEMMA GotoThreads ==
    ASSUME WorkTypes, NEW s \in Session, NEW i, NEW from, At(s, i, from),
           NEW pc \in WorkerAt, Goto(s, i, pc)
    PROVE  /\ threads' \in [Session -> Seq(WorkerAt)]
           /\ \A t \in Session \ {s} : threads'[t] = threads[t]
           /\ DOMAIN threads'[s] = DOMAIN threads[s]
           /\ i \in DOMAIN threads[s] /\ threads'[s][i] = pc
           /\ \A j \in DOMAIN threads[s] : j # i => threads'[s][j] = threads[s][j]
  <1>1. threads[s] \in Seq(WorkerAt) /\ i \in DOMAIN threads[s]
    BY DEF WorkTypes, At
  <1>2. threads' = [threads EXCEPT ![s] = [threads[s] EXCEPT ![i] = pc]]
    BY DEF Goto, WorkTypes
  <1>3. [threads[s] EXCEPT ![i] = pc] \in Seq(WorkerAt)
    BY <1>1
  <1>4. QED BY <1>1, <1>2, <1>3 DEF WorkTypes

-----------------------------------------------------------------------------
(* The main thread.                                                        *)

LEMMA InitGood == Init => AnnInv
  <1> SUFFICES ASSUME Init PROVE AnnInv
    OBVIOUS
  <1>1. WorkTypes
    BY DEF Init, WorkTypes, SessionState
  <1>2. ASSUME NEW s \in Session PROVE Good(s)
    <2>1. /\ session[s].alive /\ ~session[s].cancel /\ ~session[s].running
          /\ ~session[s].rebuild /\ session[s].built = session[s].want
          /\ main = <<"idle">>
      BY DEF Init
    <2>2. main # <<"start", s>> /\ main # <<"spawn", s>>
      BY <2>1
    <2>3. QED BY <2>1, <2>2 DEF Good, Uncancelled, RunningWorks, NoneYet, Current, Seen
  <1>3. QED BY <1>1, <1>2 DEF AnnInv

\* Announcing a session again puts the files out of date and a new round in
\* hand; if no worker is at work then none is when the thread is started.
LEMMA AnnounceGood ==
    ASSUME AnnInv, NEW s \in Session, Announce(s)
    PROVE  AnnInv'
  <1>1. /\ session' = [session EXCEPT ![s].object = FALSE, ![s].want = @ + 1,
                                      ![s].hurried = @ \/ AtWork(s) # {}]
        /\ main = <<"idle">> /\ main' = <<"start", s>> /\ threads' = threads
    BY DEF Announce
  <1>2. WorkTypes'
    BY <1>1 DEF AnnInv, WorkTypes, SessionState
  <1>3. ASSUME NEW t \in Session, t # s PROVE Good(t)'
    <2>1. session'[t] = session[t] /\ threads'[t] = threads[t]
      BY <1>1, <1>3 DEF AnnInv, WorkTypes
    <2>2. main' # <<"start", t>> /\ main' # <<"spawn", t>>
          /\ main # <<"start", t>> /\ main # <<"spawn", t>>
      BY <1>1, <1>3
    <2>3. QED BY <2>1, <2>2, GoodUntouched DEF AnnInv
  <1>4. Good(s)'
    <2>1. /\ session'[s].alive = session[s].alive
          /\ session'[s].cancel = session[s].cancel
          /\ session'[s].running = session[s].running
          /\ session'[s].rebuild = session[s].rebuild
          /\ session'[s].hurried = (session[s].hurried \/ AtWork(s) # {})
      BY <1>1 DEF AnnInv, WorkTypes, SessionState
    <2>2. AtWork(s)' = AtWork(s) /\ Good(s)
      BY <1>1 DEF AtWork, AnnInv
    <2>3. Uncancelled(s)' /\ RunningWorks(s)' /\ NoneYet(s)'
      BY <2>1, <2>2 DEF Good, Uncancelled, RunningWorks, NoneYet
    <2>4. Current(s)'
      BY <1>1 DEF Current
    <2>5. main # <<"spawn", s>>
      BY <1>1
    <2>6. Seen(s)'
      BY <1>1, <2>1, <2>2, <2>5 DEF Good, Seen
    <2>7. QED BY <2>3, <2>4, <2>6 DEF Good
  <1>5. QED BY <1>2, <1>3, <1>4 DEF AnnInv

LEMMA StartWorkerGood ==
    ASSUME AnnInv, NEW s \in Session, StartWorker(s)
    PROVE  AnnInv'
  <1>1. /\ session' = [session EXCEPT ![s].rebuild = TRUE]
        /\ main = <<"start", s>> /\ main' = <<"spawn", s>> /\ threads' = threads
    BY DEF StartWorker
  <1>2. WorkTypes'
    BY <1>1 DEF AnnInv, WorkTypes, SessionState
  <1>3. ASSUME NEW t \in Session, t # s PROVE Good(t)'
    <2>1. session'[t] = session[t] /\ threads'[t] = threads[t]
      BY <1>1, <1>3 DEF AnnInv, WorkTypes
    <2>2. main' # <<"start", t>> /\ main' # <<"spawn", t>>
          /\ main # <<"start", t>> /\ main # <<"spawn", t>>
      BY <1>1, <1>3
    <2>3. QED BY <2>1, <2>2, GoodUntouched DEF AnnInv
  <1>4. Good(s)'
    <2>1. /\ session'[s].alive = session[s].alive
          /\ session'[s].cancel = session[s].cancel
          /\ session'[s].running = session[s].running
          /\ session'[s].rebuild
          /\ session'[s].hurried = session[s].hurried
      BY <1>1 DEF AnnInv, WorkTypes, SessionState
    <2>2. AtWork(s)' = AtWork(s) /\ Good(s)
      BY <1>1 DEF AtWork, AnnInv
    <2>3. Uncancelled(s)' /\ RunningWorks(s)' /\ NoneYet(s)'
      BY <1>1, <2>1, <2>2 DEF Good, Uncancelled, RunningWorks, NoneYet
    <2>4. Current(s)' /\ Seen(s)'
      BY <1>1, <2>1 DEF Current, Seen
    <2>5. QED BY <2>3, <2>4 DEF Good
  <1>5. QED BY <1>2, <1>3, <1>4 DEF AnnInv

\* The thread is not started only if one seems to be running, and then one is.
LEMMA SpawnWorkerGood ==
    ASSUME AnnInv, NEW s \in Session, SpawnWorker(s)
    PROVE  AnnInv'
  <1>1. /\ threads' = IF session[s].running THEN threads
                      ELSE [threads EXCEPT ![s] = Append(@, "test")]
        /\ main = <<"spawn", s>> /\ main' = <<"idle">> /\ session' = session
    BY DEF SpawnWorker
  <1>2. threads[s] \in Seq(WorkerAt) /\ "test" \in WorkerAt
    BY DEF AnnInv, WorkTypes, WorkerAt
  <1>3. Append(threads[s], "test") \in Seq(WorkerAt)
    BY <1>2
  <1>4. WorkTypes'
    BY <1>1, <1>3 DEF AnnInv, WorkTypes
  <1>5. ASSUME NEW t \in Session, t # s PROVE Good(t)'
    <2>1. session'[t] = session[t] /\ threads'[t] = threads[t]
      BY <1>1, <1>5 DEF AnnInv, WorkTypes
    <2>2. main' # <<"start", t>> /\ main' # <<"spawn", t>>
          /\ main # <<"start", t>> /\ main # <<"spawn", t>>
      BY <1>1, <1>5
    <2>3. QED BY <2>1, <2>2, GoodUntouched DEF AnnInv
  <1>6. Good(s)'
    <2> DEFINE n == Len(threads[s]) + 1
    <2>1. Good(s) /\ session'[s] = session[s]
      BY <1>1 DEF AnnInv
    <2>2. main' # <<"start", s>> /\ main' # <<"spawn", s>> /\ main # <<"start", s>>
      BY <1>1
    <2>3. CASE session[s].running
      <3>1. AtWork(s)' = AtWork(s) /\ Underway(s)' = Underway(s) /\ threads' = threads
        BY <1>1, <2>3 DEF AtWork, Underway
      <3>2. AtWork(s) # {}
        BY <2>1, <2>3 DEF Good, RunningWorks
      <3>3. session[s].hurried
        BY <1>1, <2>1, <3>2 DEF Good, NoneYet
      <3>4. QED BY <2>1, <2>2, <3>1, <3>2, <3>3
                DEF Good, Uncancelled, RunningWorks, NoneYet, Current, Seen
    <2>4. CASE ~session[s].running
      <3>1. threads'[s] = Append(threads[s], "test")
        BY <1>1, <2>4 DEF AnnInv, WorkTypes
      <3>2. /\ DOMAIN threads'[s] = DOMAIN threads[s] \cup {n}
            /\ n \notin DOMAIN threads[s] /\ threads'[s][n] = "test"
            /\ \A j \in DOMAIN threads[s] : threads'[s][j] = threads[s][j]
        BY <1>2, <3>1
      <3>3. n \in AtWork(s)' /\ threads'[s][n] # "finish"
        BY <3>2 DEF AtWork
      <3>4. Underway(s)' => Underway(s)
        BY <3>2 DEF AtWork, Underway
      <3>5. Underway(s) => Underway(s)'
        BY <3>2 DEF AtWork, Underway
      <3>6. Uncancelled(s)' /\ RunningWorks(s)' /\ NoneYet(s)'
        BY <2>1, <2>2, <3>3 DEF Good, Uncancelled, RunningWorks, NoneYet
      <3>7. Current(s)'
        BY <2>1, <2>2, <3>4, <3>5 DEF Good, Current
      <3>8. Seen(s)'
        BY <3>3 DEF Seen
      <3>9. QED BY <3>6, <3>7, <3>8 DEF Good
    <2>5. QED BY <2>3, <2>4
  <1>7. QED BY <1>4, <1>5, <1>6 DEF AnnInv

LEMMA DeleteSessionGood ==
    ASSUME AnnInv, NEW s \in Session, DeleteSession(s)
    PROVE  AnnInv'
  <1>0. PICK free \in BOOLEAN : free = ~HoldsSession(s)
    BY DEF HoldsSession
  <1>1. /\ session' = [session EXCEPT ![s].alive = FALSE, ![s].cancel = @ \/ free]
        /\ main = <<"idle">> /\ main' \in {<<"idle">>, <<"join", s>>} /\ threads' = threads
    BY <1>0 DEF DeleteSession
  <1>2. WorkTypes'
    <2> DEFINE cancel == session[s].cancel \/ free
               r == [session[s] EXCEPT !.alive = FALSE, !.cancel = cancel]
    <2>1. cancel \in BOOLEAN /\ session[s] \in SessionState
      BY DEF AnnInv, WorkTypes, SessionState
    <2>2. session' = [session EXCEPT ![s] = r]
      BY <1>1 DEF AnnInv, WorkTypes
    <2> HIDE DEF cancel
    <2>3. r \in SessionState
      BY <2>1 DEF SessionState
    <2>4. QED BY <1>1, <2>2, <2>3, OneSession DEF AnnInv, WorkTypes
  <1>3. \A t \in Session : main' # <<"start", t>> /\ main' # <<"spawn", t>>
                           /\ main # <<"start", t>> /\ main # <<"spawn", t>>
    BY <1>1
  <1>4. ASSUME NEW t \in Session, t # s PROVE Good(t)'
    <2>1. session'[t] = session[t] /\ threads'[t] = threads[t]
      BY <1>1, <1>4 DEF AnnInv, WorkTypes
    <2>2. QED BY <1>3, <2>1, GoodUntouched DEF AnnInv
  <1>5. Good(s)'
    <2>1. ~session'[s].alive /\ session'[s].running = session[s].running
      BY <1>1 DEF AnnInv, WorkTypes, SessionState
    <2>2. AtWork(s)' = AtWork(s) /\ Good(s)
      BY <1>1 DEF AtWork, AnnInv
    <2>3. QED BY <1>3, <2>1, <2>2
              DEF Good, Uncancelled, RunningWorks, NoneYet, Current, Seen
  <1>6. QED BY <1>2, <1>4, <1>5 DEF AnnInv

\* Steps that change neither a session nor a worker, and that start nothing.
LEMMA ElsewhereGood ==
    ASSUME AnnInv, session' = session, threads' = threads,
           \A s \in Session : /\ main' = <<"start", s>> <=> main = <<"start", s>>
                              /\ main' = <<"spawn", s>> <=> main = <<"spawn", s>>
    PROVE  AnnInv'
  <1>1. WorkTypes'
    BY DEF AnnInv, WorkTypes
  <1>2. ASSUME NEW s \in Session PROVE Good(s)'
    BY GoodUntouched DEF AnnInv
  <1>3. QED BY <1>1, <1>2 DEF AnnInv

-----------------------------------------------------------------------------
(* The workers.                                                            *)

\* A worker's step does not touch the other sessions.
LEMMA OthersGood ==
    ASSUME AnnInv, NEW s \in Session, main' = main,
           \A t \in Session \ {s} : session'[t] = session[t] /\ threads'[t] = threads[t]
    PROVE  \A t \in Session \ {s} : Good(t)'
  BY GoodUntouched DEF AnnInv

\* A session stays good if one of its workers goes on to a place that is neither
\* the end nor before the writing of the files, from one that was not either.
LEMMA GoodGoesOn ==
    ASSUME WorkTypes, NEW s \in Session, Good(s), NEW i, NEW from, At(s, i, from),
           from \notin {"lock", "write", "done"},
           NEW pc \in WorkerAt \ {"lock", "write", "finish", "done"}, Goto(s, i, pc),
           /\ session'[s].alive = session[s].alive
           /\ session'[s].cancel = session[s].cancel
           /\ session'[s].rebuild = session[s].rebuild
           /\ session'[s].running = session[s].running
           /\ session'[s].hurried = session[s].hurried
           /\ session'[s].want = session[s].want
           /\ session'[s].built = session[s].built,
           main' = main
    PROVE  Good(s)'
  <1>1. /\ DOMAIN threads'[s] = DOMAIN threads[s]
        /\ i \in DOMAIN threads[s] /\ threads'[s][i] = pc /\ threads[s][i] = from
        /\ \A j \in DOMAIN threads[s] : j # i => threads'[s][j] = threads[s][j]
    BY GotoThreads DEF At
  <1>2. AtWork(s)' = AtWork(s) /\ i \in AtWork(s)'
    BY <1>1 DEF AtWork
  <1>3. Underway(s)' <=> Underway(s)
    BY <1>1, <1>2 DEF Underway, AtWork
  <1>4. Uncancelled(s)' /\ RunningWorks(s)' /\ NoneYet(s)'
    BY <1>2 DEF Good, Uncancelled, RunningWorks, NoneYet
  <1>5. Current(s)'
    BY <1>3 DEF Good, Current
  <1>6. Seen(s)'
    BY <1>1, <1>2 DEF Seen
  <1>7. QED BY <1>4, <1>5, <1>6 DEF Good

LEMMA WorkerTestGood ==
    ASSUME AnnInv, NEW s \in Session, NEW i, WorkerTest(s, i)
    PROVE  AnnInv'
  <1>1. At(s, i, "test") /\ session' = session /\ main' = main
    BY DEF WorkerTest
  <1>2. PICK pc \in WorkerAt : /\ Goto(s, i, pc)
                              /\ pc = IF session[s].rebuild THEN "clear" ELSE "finish"
    BY DEF WorkerTest, WorkerAt
  <1>3. /\ threads' \in [Session -> Seq(WorkerAt)]
        /\ \A t \in Session \ {s} : threads'[t] = threads[t]
        /\ DOMAIN threads'[s] = DOMAIN threads[s]
        /\ i \in DOMAIN threads[s] /\ threads'[s][i] = pc /\ threads[s][i] = "test"
        /\ \A j \in DOMAIN threads[s] : j # i => threads'[s][j] = threads[s][j]
    BY <1>1, <1>2, GotoThreads DEF AnnInv, At
  <1>4. WorkTypes' /\ \A t \in Session \ {s} : Good(t)'
    BY <1>1, <1>3, OthersGood DEF AnnInv, WorkTypes
  <1>5. Good(s) /\ WorkTypes
    BY DEF AnnInv
  <1>6. Good(s)'
    <2>1. AtWork(s)' = AtWork(s) /\ i \in AtWork(s)'
      BY <1>2, <1>3 DEF AtWork
    <2>2. Underway(s)' <=> Underway(s)
      BY <1>2, <1>3, <2>1 DEF Underway, AtWork
    <2>3. Uncancelled(s)' /\ RunningWorks(s)' /\ NoneYet(s)' /\ Current(s)'
      BY <1>1, <1>5, <2>1, <2>2 DEF Good, Uncancelled, RunningWorks, NoneYet, Current
    <2>4. Seen(s)'
      BY <1>1, <1>2, <1>3, <2>1 DEF Seen
    <2>5. QED BY <2>3, <2>4 DEF Good
  <1>7. QED BY <1>4, <1>6 DEF AnnInv

\* From here the files are about to be written.
LEMMA WorkerClearGood ==
    ASSUME AnnInv, NEW s \in Session, NEW i, WorkerClear(s, i)
    PROVE  AnnInv'
  <1>1. /\ At(s, i, "clear") /\ Goto(s, i, "lock") /\ main' = main
        /\ session' = [session EXCEPT ![s].rebuild = FALSE]
    BY DEF WorkerClear
  <1>2. "lock" \in WorkerAt
    BY DEF WorkerAt
  <1>3. /\ threads' \in [Session -> Seq(WorkerAt)]
        /\ \A t \in Session \ {s} : threads'[t] = threads[t]
        /\ DOMAIN threads'[s] = DOMAIN threads[s]
        /\ i \in DOMAIN threads[s] /\ threads'[s][i] = "lock" /\ threads[s][i] = "clear"
        /\ \A j \in DOMAIN threads[s] : j # i => threads'[s][j] = threads[s][j]
    BY <1>1, <1>2, GotoThreads DEF AnnInv, At
  <1>4. /\ session'[s].alive = session[s].alive
        /\ session'[s].cancel = session[s].cancel
        /\ session'[s].running = session[s].running
        /\ ~session'[s].rebuild /\ session'[s].hurried = session[s].hurried
    BY <1>1 DEF AnnInv, WorkTypes, SessionState
  <1>5. WorkTypes'
    BY <1>1, <1>3 DEF AnnInv, WorkTypes, SessionState
  <1>6. \A t \in Session \ {s} : session'[t] = session[t]
    BY <1>1 DEF AnnInv, WorkTypes
  <1>7. \A t \in Session \ {s} : Good(t)'
    BY <1>1, <1>3, <1>6, OthersGood
  <1>8. Good(s)'
    <2>1. AtWork(s)' = AtWork(s) /\ i \in AtWork(s)'
      BY <1>3 DEF AtWork
    <2>2. Underway(s)'
      BY <1>3, <2>1 DEF Underway
    <2>3. Uncancelled(s)' /\ RunningWorks(s)' /\ NoneYet(s)'
      BY <1>1, <1>4, <2>1 DEF AnnInv, Good, Uncancelled, RunningWorks, NoneYet
    <2>4. Current(s)' /\ Seen(s)'
      BY <1>4, <2>2 DEF Current, Seen
    <2>5. QED BY <2>3, <2>4 DEF Good
  <1>9. QED BY <1>5, <1>7, <1>8 DEF AnnInv

\* A worker of a session that exists is not cancelled and goes on to write.
LEMMA WorkerLockGood ==
    ASSUME AnnInv, NEW s \in Session, NEW i, WorkerLock(s, i)
    PROVE  AnnInv'
  <1>1. /\ At(s, i, "lock") /\ main' = main
        /\ session' = [session EXCEPT ![s].running = @ \/ ~session[s].cancel]
    BY DEF WorkerLock
  <1>2. PICK pc \in WorkerAt : /\ Goto(s, i, pc)
                              /\ pc = IF session[s].cancel THEN "finish" ELSE "write"
    BY DEF WorkerLock, WorkerAt
  <1>3. /\ threads' \in [Session -> Seq(WorkerAt)]
        /\ \A t \in Session \ {s} : threads'[t] = threads[t]
        /\ DOMAIN threads'[s] = DOMAIN threads[s]
        /\ i \in DOMAIN threads[s] /\ threads'[s][i] = pc /\ threads[s][i] = "lock"
        /\ \A j \in DOMAIN threads[s] : j # i => threads'[s][j] = threads[s][j]
    BY <1>1, <1>2, GotoThreads DEF AnnInv, At
  <1>4. /\ session'[s].alive = session[s].alive
        /\ session'[s].cancel = session[s].cancel
        /\ session'[s].hurried = session[s].hurried
    BY <1>1 DEF AnnInv, WorkTypes, SessionState
  <1>5. WorkTypes'
    <2> DEFINE running == session[s].running \/ ~session[s].cancel
               r == [session[s] EXCEPT !.running = running]
    <2>1. running \in BOOLEAN /\ session[s] \in SessionState
      BY DEF AnnInv, WorkTypes, SessionState
    <2>2. session' = [session EXCEPT ![s] = r]
      BY <1>1 DEF AnnInv, WorkTypes
    <2> HIDE DEF running
    <2>3. r \in SessionState
      BY <2>1 DEF SessionState
    <2>4. QED BY <1>3, <2>2, <2>3, OneSession DEF AnnInv
  <1>6. \A t \in Session \ {s} : session'[t] = session[t]
    BY <1>1 DEF AnnInv, WorkTypes
  <1>7. \A t \in Session \ {s} : Good(t)'
    BY <1>1, <1>3, <1>6, OthersGood
  <1>8. Good(s)'
    <2>1. AtWork(s)' = AtWork(s) /\ i \in AtWork(s)'
      BY <1>2, <1>3 DEF AtWork
    <2>2. Uncancelled(s)' /\ RunningWorks(s)' /\ NoneYet(s)'
      BY <1>1, <1>4, <2>1 DEF AnnInv, Good, Uncancelled, RunningWorks, NoneYet
    <2>3. session'[s].alive => threads'[s][i] = "write"
      BY <1>2, <1>3, <1>4 DEF AnnInv, Good, Uncancelled
    <2>4. session'[s].alive => Underway(s)'
      BY <2>1, <2>3 DEF Underway
    <2>5. Current(s)' /\ Seen(s)'
      BY <2>1, <2>3, <2>4 DEF Current, Seen
    <2>6. QED BY <2>2, <2>5 DEF Good
  <1>9. QED BY <1>5, <1>7, <1>8 DEF AnnInv

\* A session that exists can be locked, and its files are written.
LEMMA WorkerWriteGood ==
    ASSUME AnnInv, NEW s \in Session, NEW i, WorkerWrite(s, i)
    PROVE  AnnInv'
  <1>0. PICK locked \in BOOLEAN : locked = Lockable(s)
    BY DEF Lockable, HoldsSession, AnnInv, WorkTypes, SessionState
  <1>1. /\ At(s, i, "write") /\ main' = main
        /\ session' = IF locked THEN [session EXCEPT ![s].built = session[s].want] ELSE session
    BY <1>0 DEF WorkerWrite
  <1>2. PICK pc \in WorkerAt : Goto(s, i, pc) /\ pc \in {"populate", "test"}
    BY DEF WorkerWrite, WorkerAt
  <1>3. /\ threads' \in [Session -> Seq(WorkerAt)]
        /\ \A t \in Session \ {s} : threads'[t] = threads[t]
        /\ DOMAIN threads'[s] = DOMAIN threads[s]
        /\ i \in DOMAIN threads[s] /\ threads'[s][i] = pc /\ threads[s][i] = "write"
        /\ \A j \in DOMAIN threads[s] : j # i => threads'[s][j] = threads[s][j]
    BY <1>1, <1>2, GotoThreads DEF AnnInv, At
  <1>4. /\ session'[s].alive = session[s].alive
        /\ session'[s].cancel = session[s].cancel
        /\ session'[s].running = session[s].running
        /\ session'[s].hurried = session[s].hurried
        /\ session'[s].want = session[s].want
        /\ locked => session'[s].built = session'[s].want
    BY <1>1 DEF AnnInv, WorkTypes, SessionState
  <1>5. WorkTypes'
    <2>1. CASE locked
      <3> DEFINE r == [session[s] EXCEPT !.built = session[s].want]
      <3>1. r \in SessionState
        BY DEF AnnInv, WorkTypes, SessionState
      <3>2. session' = [session EXCEPT ![s] = r]
        BY <1>1, <2>1 DEF AnnInv, WorkTypes
      <3>3. QED BY <1>3, <3>1, <3>2, OneSession DEF AnnInv
    <2>2. CASE ~locked
      BY <1>1, <1>3, <2>2 DEF AnnInv, WorkTypes
    <2>3. QED BY <2>1, <2>2
  <1>6. \A t \in Session \ {s} : session'[t] = session[t]
    BY <1>1 DEF AnnInv, WorkTypes
  <1>7. \A t \in Session \ {s} : Good(t)'
    BY <1>1, <1>3, <1>6, OthersGood
  <1>8. Good(s)'
    <2>1. AtWork(s)' = AtWork(s) /\ i \in AtWork(s)'
      BY <1>2, <1>3 DEF AtWork
    <2>2. Uncancelled(s)' /\ RunningWorks(s)' /\ NoneYet(s)'
      BY <1>1, <1>4, <2>1 DEF AnnInv, Good, Uncancelled, RunningWorks, NoneYet
    <2>3. Current(s)'
      BY <1>0, <1>4 DEF Current, Lockable
    <2>4. Seen(s)'
      BY <1>2, <1>3, <2>1 DEF Seen
    <2>5. QED BY <2>2, <2>3, <2>4 DEF Good
  <1>9. QED BY <1>5, <1>7, <1>8 DEF AnnInv

\* What is left of a round leaves the files and the requests alone.
LEMMA RoundGood ==
    ASSUME AnnInv, NEW s \in Session, NEW i, NEW from, At(s, i, from),
           from \notin {"lock", "write", "done"},
           NEW pc \in WorkerAt \ {"lock", "write", "finish", "done"}, Goto(s, i, pc),
           NEW object \in BOOLEAN, NEW available \in BOOLEAN,
           session' = [session EXCEPT ![s].object = object, ![s].available = available],
           main' = main
    PROVE  AnnInv'
  <1>1. /\ threads' \in [Session -> Seq(WorkerAt)]
        /\ \A t \in Session \ {s} : threads'[t] = threads[t]
    BY GotoThreads DEF AnnInv
  <1>2. /\ session'[s].alive = session[s].alive
        /\ session'[s].cancel = session[s].cancel
        /\ session'[s].rebuild = session[s].rebuild
        /\ session'[s].running = session[s].running
        /\ session'[s].hurried = session[s].hurried
        /\ session'[s].want = session[s].want
        /\ session'[s].built = session[s].built
    BY DEF AnnInv, WorkTypes, SessionState
  <1>3. WorkTypes'
    <2> DEFINE r == [session[s] EXCEPT !.object = object, !.available = available]
    <2>1. session[s] \in SessionState /\ session' = [session EXCEPT ![s] = r]
      BY DEF AnnInv, WorkTypes
    <2>2. r \in SessionState
      BY <2>1 DEF SessionState
    <2>3. QED BY <1>1, <2>1, <2>2, OneSession DEF AnnInv
  <1>4. \A t \in Session \ {s} : session'[t] = session[t]
    BY DEF AnnInv, WorkTypes
  <1>5. \A t \in Session \ {s} : Good(t)'
    BY <1>1, <1>4, OthersGood
  <1>6. Good(s)'
    BY <1>2, GoodGoesOn DEF AnnInv
  <1>7. QED BY <1>3, <1>5, <1>6 DEF AnnInv

LEMMA SameSession ==
    ASSUME WorkTypes, NEW s \in Session, session' = session
    PROVE  /\ session[s].object \in BOOLEAN /\ session[s].available \in BOOLEAN
           /\ session' = [session EXCEPT ![s].object = session[s].object,
                                         ![s].available = session[s].available]
  BY DEF WorkTypes, SessionState

LEMMA WorkerPopulateGood ==
    ASSUME AnnInv, NEW s \in Session, NEW i, WorkerPopulate(s, i)
    PROVE  AnnInv'
  <1>1. At(s, i, "populate") /\ main' = main
    BY DEF WorkerPopulate
  <1>2. "test" \in WorkerAt /\ "carousel" \in WorkerAt
    BY DEF WorkerAt
  <1>3. CASE Goto(s, i, "test") /\ session' = session
    BY <1>1, <1>2, <1>3, RoundGood, SameSession DEF AnnInv
  <1>4. CASE Goto(s, i, "carousel") /\ \E found \in BOOLEAN :
                session' = [session EXCEPT ![s].object = @ \/ found]
    <2>1. PICK found \in BOOLEAN : session' = [session EXCEPT ![s].object = @ \/ found]
      BY <1>4
    <2> DEFINE object == session[s].object \/ found
    <2>2. /\ object \in BOOLEAN /\ session[s].available \in BOOLEAN
          /\ session' = [session EXCEPT ![s].object = object,
                                        ![s].available = session[s].available]
      BY <2>1 DEF AnnInv, WorkTypes, SessionState
    <2> HIDE DEF object
    <2>3. QED BY <1>1, <1>2, <1>4, <2>2, RoundGood
  <1>5. QED BY <1>3, <1>4 DEF WorkerPopulate

LEMMA WorkerCarouselGood ==
    ASSUME AnnInv, NEW s \in Session, NEW i, WorkerCarousel(s, i)
    PROVE  AnnInv'
  <1>1. At(s, i, "carousel") /\ main' = main
    BY DEF WorkerCarousel
  <1>2. "test" \in WorkerAt /\ "add" \in WorkerAt
    BY DEF WorkerAt
  <1>3. CASE Goto(s, i, "test") /\ session' = session
    BY <1>1, <1>2, <1>3, RoundGood, SameSession DEF AnnInv
  <1>4. CASE Goto(s, i, "add") /\ session' = [session EXCEPT ![s].available = TRUE]
    <2>1. /\ session[s].object \in BOOLEAN
          /\ session' = [session EXCEPT ![s].object = session[s].object,
                                        ![s].available = TRUE]
      BY <1>4 DEF AnnInv, WorkTypes, SessionState
    <2>2. QED BY <1>1, <1>2, <1>4, <2>1, RoundGood
  <1>5. QED BY <1>3, <1>4 DEF WorkerCarousel

LEMMA WorkerAddGood ==
    ASSUME AnnInv, NEW s \in Session, NEW i, WorkerAdd(s, i)
    PROVE  AnnInv'
  <1>1. At(s, i, "add") /\ Goto(s, i, "test") /\ session' = session /\ main' = main
    BY DEF WorkerAdd
  <1>2. "test" \in WorkerAt
    BY DEF WorkerAt
  <1>3. QED BY <1>1, <1>2, RoundGood, SameSession DEF AnnInv

\* The end of a worker that had nothing left to do; if it was not the only one
\* then the others still have theirs to do.
LEMMA WorkerFinishGood ==
    ASSUME AnnInv, NEW s \in Session, NEW i, WorkerFinish(s, i)
    PROVE  AnnInv'
  <1>1. /\ At(s, i, "finish") /\ Goto(s, i, "done") /\ main' = main
        /\ session' = [session EXCEPT ![s].running = FALSE]
    BY DEF WorkerFinish
  <1>2. "done" \in WorkerAt
    BY DEF WorkerAt
  <1>3. /\ threads' \in [Session -> Seq(WorkerAt)]
        /\ \A t \in Session \ {s} : threads'[t] = threads[t]
        /\ DOMAIN threads'[s] = DOMAIN threads[s]
        /\ i \in DOMAIN threads[s] /\ threads'[s][i] = "done" /\ threads[s][i] = "finish"
        /\ \A j \in DOMAIN threads[s] : j # i => threads'[s][j] = threads[s][j]
    BY <1>1, <1>2, GotoThreads DEF AnnInv, At
  <1>4. /\ session'[s].alive = session[s].alive
        /\ session'[s].cancel = session[s].cancel
        /\ session'[s].rebuild = session[s].rebuild
        /\ session'[s].want = session[s].want
        /\ session'[s].built = session[s].built
        /\ session'[s].hurried = session[s].hurried /\ ~session'[s].running
    BY <1>1 DEF AnnInv, WorkTypes, SessionState
  <1>5. WorkTypes'
    BY <1>1, <1>3 DEF AnnInv, WorkTypes, SessionState
  <1>6. \A t \in Session \ {s} : session'[t] = session[t]
    BY <1>1 DEF AnnInv, WorkTypes
  <1>7. \A t \in Session \ {s} : Good(t)'
    BY <1>1, <1>3, <1>6, OthersGood
  <1>8. Good(s)'
    <2>1. AtWork(s)' = AtWork(s) \ {i}
      BY <1>3 DEF AtWork
    <2>2. Underway(s)' <=> Underway(s)
      BY <1>3, <2>1 DEF Underway, AtWork
    <2>3. Good(s)
      BY DEF AnnInv
    <2>4. Uncancelled(s)' /\ RunningWorks(s)' /\ NoneYet(s)' /\ Current(s)'
      BY <1>1, <1>4, <2>1, <2>2, <2>3
         DEF Good, Uncancelled, RunningWorks, NoneYet, Current
    <2>5. \A j \in AtWork(s) : threads[s][j] # "finish"
             => j \in AtWork(s)' /\ threads'[s][j] # "finish"
      BY <1>3, <2>1 DEF AtWork
    <2>6. Seen(s)'
      BY <1>1, <1>4, <2>3, <2>5 DEF Good, Seen
    <2>7. QED BY <2>4, <2>6 DEF Good
  <1>9. QED BY <1>5, <1>7, <1>8 DEF AnnInv

-----------------------------------------------------------------------------
(* The invariant and what follows from it.                                 *)

LEMMA ChannelGood ==
    ASSUME AnnInv, Channel \/ Peers
    PROVE  AnnInv'
  <1>1. session' = session /\ threads' = threads /\ main' = main
    BY DEF Channel, ChannelTop, ChannelCollect, ChannelSend, Peers, MbsCreated,
           StfResponds, StfReports, ChangeChannel
  <1>2. QED BY <1>1, ElsewhereGood

LEMMA JoinedGood ==
    ASSUME AnnInv, NEW s \in Session, Joined(s)
    PROVE  AnnInv'
  <1>1. /\ session' = session /\ threads' = threads
        /\ main = <<"join", s>> /\ main' = <<"idle">>
    BY DEF Joined
  <1>2. \A t \in Session : /\ main # <<"start", t>> /\ main # <<"spawn", t>>
                           /\ main' # <<"start", t>> /\ main' # <<"spawn", t>>
    BY <1>1
  <1>3. QED BY <1>1, <1>2, ElsewhereGood

LEMMA CancelGood ==
    ASSUME AnnInv, Cancel
    PROVE  AnnInv'
  <1>1. /\ session' = session /\ threads' = threads
        /\ main = <<"idle">> /\ main' = <<"quit">>
    BY DEF Cancel
  <1>2. \A t \in Session : /\ main # <<"start", t>> /\ main # <<"spawn", t>>
                           /\ main' # <<"start", t>> /\ main' # <<"spawn", t>>
    BY <1>1
  <1>3. QED BY <1>1, <1>2, ElsewhereGood

LEMMA StepGood == AnnInv /\ [Next]_vars => AnnInv'
  <1> SUFFICES ASSUME AnnInv, [Next]_vars PROVE AnnInv'
    OBVIOUS
  <1>1. CASE Channel \/ Peers
    BY <1>1, ChannelGood
  <1>2. CASE Cancel
    BY <1>2, CancelGood
  <1>3. ASSUME NEW s \in Session, Announce(s) \/ DeleteSession(s) \/ Main(s)
        PROVE  AnnInv'
    BY <1>3, AnnounceGood, DeleteSessionGood, StartWorkerGood, SpawnWorkerGood,
       JoinedGood DEF Main
  <1>4. ASSUME NEW s \in Session, NEW i \in 1..Builds[s], Worker(s, i)
        PROVE  AnnInv'
    BY <1>4, WorkerTestGood, WorkerClearGood, WorkerLockGood, WorkerWriteGood,
       WorkerPopulateGood, WorkerCarouselGood, WorkerAddGood, WorkerFinishGood
       DEF Worker
  <1>5. CASE UNCHANGED vars
    BY <1>5, ElsewhereGood DEF vars
  <1>6. QED BY <1>1, <1>2, <1>3, <1>4, <1>5 DEF Next

\* The workers' flags, places and files fit together in every reachable state.
THEOREM WorkersConsistent == Spec => []AnnInv
  BY InitGood, StepGood, PTL DEF Spec

\* The files are as they were asked for last, when no request is up and no
\* worker is about to write (startWorker and worker).
THEOREM FilesAreCurrent == Spec => []BuiltIsCurrent
  <1>1. AnnInv => BuiltIsCurrent
    BY DEF AnnInv, Good, Current, BuiltIsCurrent
  <1>2. QED BY <1>1, WorkersConsistent, PTL

\* A request that comes while no worker is at work is looked at (startWorker,
\* worker and finish).
THEOREM RequestsAreSeen == Spec => []RebuildSeen
  <1>1. AnnInv => RebuildSeen
    BY DEF AnnInv, Good, Seen, RebuildSeen
  <1>2. QED BY <1>1, WorkersConsistent, PTL

-----------------------------------------------------------------------------
(* Induction, and what Those computes.                                     *)

\* A set of naturals has a least element.
LEMMA Least ==
    ASSUME NEW T, T \subseteq Nat, T # {}
    PROVE \E n \in T : \A m \in T : n <= m
  <1>1. PICK R : R = OpToRel(<, Nat)
    OBVIOUS
  <1>2. IsWellFoundedOn(R, Nat)
    BY <1>1, NatLessThanWellFounded
  <1>3. \A x, y \in Nat : x < y => <<x, y>> \in R
    BY <1>1 DEF OpToRel
  <1>4. \E x \in T : \A y \in T : ~ (<<y, x>> \in R)
    BY <1>2, WFMin, Zenon
  <1>5. PICK n \in T : \A m \in T : <<m, n>> \notin R
    BY <1>4
  <1>6. ASSUME NEW m \in T PROVE n <= m
    <2>1. m \in Nat /\ n \in Nat
      OBVIOUS
    <2>2. <<m, n>> \notin R
      BY <1>5
    <2>3. QED BY <1>3, <2>1, <2>2
  <1>7. QED BY <1>6

\* Induction, in a form the provers can use: a set that has 0 and the successor
\* of each element has every natural number.
LEMMA Induct ==
    ASSUME NEW S \in SUBSET Nat, 0 \in S, \A n \in S : n + 1 \in S
    PROVE  S = Nat
  <1>1. SUFFICES ASSUME Nat \ S # {} PROVE FALSE
    OBVIOUS
  <1>2. PICK n \in Nat \ S : \A m \in Nat \ S : n <= m
    BY <1>1, Least
  <1>3. n # 0
    OBVIOUS
  <1>4. n - 1 \in Nat /\ ~(n <= n - 1)
    BY <1>3
  <1>5. n - 1 \in S
    BY <1>2, <1>4
  <1>6. (n - 1) + 1 = n
    OBVIOUS
  <1>7. QED BY <1>5, <1>6

LEMMA MaxIs ==
    ASSUME NEW k \in Nat, NEW s \in SUBSET (1..k), s # {}
    PROVE  /\ Max(s) \in s
           /\ \A y \in s : y <= Max(s)
  <1> DEFINE T == {m \in Nat : \A y \in s : y <= m}
  <1>1. k \in T
    OBVIOUS
  <1>2. PICK m \in T : \A j \in T : m <= j
    BY <1>1, Least
  <1>3. m \in s
    <2>1. SUFFICES ASSUME m \notin s PROVE FALSE
      OBVIOUS
    <2>2. PICK y \in s : TRUE
      OBVIOUS
    <2>3. y \in Nat /\ y >= 1 /\ y <= m
      OBVIOUS
    <2>4. m - 1 \in Nat
      BY <2>3
    <2>5. \A z \in s : z <= m - 1
      BY <2>1
    <2>6. m - 1 \in T
      BY <2>4, <2>5
    <2>7. QED BY <1>2, <2>6
  <1>4. \E x \in s : \A y \in s : x >= y
    BY <1>3
  <1>5. QED BY <1>4 DEF Max

\* One step of the fold: the recursion is over the sets of positions.
Iterate(l, S, g, p) ==
    IF p = {} THEN << >>
    ELSE IF l[Max(p)] \in S THEN Append(g[p \ {Max(p)}], l[Max(p)]) ELSE g[p \ {Max(p)}]

LEMMA Iterates ==
    ASSUME NEW l, NEW S, NEW n \in Nat
    PROVE  \E g : g = [s \in SUBSET (1..n) |-> Iterate(l, S, g, s)]
  <1> DEFINE K == {k \in Nat : \E g : g = [s \in SUBSET (1..k) |-> Iterate(l, S, g, s)]}
  <1>1. 0 \in K
    <2> DEFINE g == [s \in SUBSET (1..0) |-> << >>]
    <2>1. g = [s \in SUBSET (1..0) |-> Iterate(l, S, g, s)]
      BY DEF Iterate
    <2>2. QED BY <2>1
  <1>2. ASSUME NEW k \in K PROVE k + 1 \in K
    <2>1. PICK g : g = [s \in SUBSET (1..k) |-> Iterate(l, S, g, s)]
      OBVIOUS
    <2> DEFINE h == [s \in SUBSET (1..(k + 1)) |-> Iterate(l, S, g, s)]
    <2>2. \A s \in SUBSET (1..k) : h[s] = g[s]
      BY <2>1
    <2>3. ASSUME NEW s \in SUBSET (1..(k + 1)) PROVE Iterate(l, S, g, s) = Iterate(l, S, h, s)
      <3>1. CASE s = {}
        BY <3>1 DEF Iterate
      <3>2. CASE s # {}
        <4>0. k \in Nat /\ k + 1 \in Nat
          OBVIOUS
        <4> HIDE DEF K, h
        <4>1. Max(s) \in s /\ \A y \in s : y <= Max(s)
          BY <3>2, <4>0, MaxIs
        <4>2. s \ {Max(s)} \in SUBSET (1..k)
          <5>1. ASSUME NEW y \in s \ {Max(s)} PROVE y \in 1..k
            <6>1. PICK m \in 1..(k + 1) : m = Max(s)
              BY <4>1
            <6>2. y \in 1..(k + 1) /\ y <= m /\ y # m
              BY <4>1, <6>1
            <6>3. QED BY <4>0, <6>1, <6>2
          <5>2. QED BY <5>1
        <4>3. h[s \ {Max(s)}] = g[s \ {Max(s)}]
          BY <2>2, <4>2
        <4>4. QED BY <4>3 DEF Iterate
      <3>3. QED BY <3>1, <3>2
    <2>4. h = [s \in SUBSET (1..(k + 1)) |-> Iterate(l, S, h, s)]
      BY <2>3
    <2>5. k + 1 \in Nat /\ \E i : i = [s \in SUBSET (1..(k + 1)) |-> Iterate(l, S, i, s)]
      <3>1. k + 1 \in Nat
        OBVIOUS
      <3> HIDE DEF h
      <3>2. QED BY <2>4, <3>1
    <2>6. QED BY <2>5
  <1> HIDE DEF K
  <1>3. K = Nat
    <2>1. K \in SUBSET Nat
      BY DEF K
    <2>2. QED BY <1>1, <1>2, <2>1, Induct
  <1>4. QED BY <1>3 DEF K

\* The fold goes through the list from its first element to its last.
LEMMA ThoseIs ==
    ASSUME NEW E, NEW l \in Seq(E), NEW S
    PROVE  \E f : /\ f[0] = << >>
                  /\ \A k \in 0..(Len(l) - 1) :
                        f[k + 1] = IF l[k + 1] \in S THEN Append(f[k], l[k + 1]) ELSE f[k]
                  /\ Those(l, S) = f[Len(l)]
  <1>1. DOMAIN l = 1..Len(l)
    OBVIOUS
  <1>a. PICK g : g = CHOOSE i : i = [s \in SUBSET (1..Len(l)) |-> Iterate(l, S, i, s)]
    OBVIOUS
  <1>2. Those(l, S) = g[1..Len(l)]
    BY <1>1, <1>a DEF Those, FoldLeft, MapThenFoldSet, Iterate
  <1>3. g = [s \in SUBSET (1..Len(l)) |-> Iterate(l, S, g, s)]
    BY <1>a, Iterates
  <1>4. \A s \in SUBSET (1..Len(l)) : g[s] = Iterate(l, S, g, s)
    BY <1>3
  <1>5. ASSUME NEW k \in 0..(Len(l) - 1)
        PROVE  g[1..(k + 1)] = IF l[k + 1] \in S THEN Append(g[1..k], l[k + 1]) ELSE g[1..k]
    <2>1. 1..(k + 1) \in SUBSET (1..Len(l)) /\ 1..(k + 1) # {} /\ k + 1 \in Nat
      OBVIOUS
    <2>a. PICK s : s = 1..(k + 1)
      OBVIOUS
    <2>2. Max(s) \in s /\ \A y \in s : y <= Max(s)
      BY <2>1, <2>a, MaxIs
    <2>3. Max(1..(k + 1)) = k + 1
      BY <2>2, <2>a
    <2>4. (1..(k + 1)) \ {k + 1} = 1..k
      OBVIOUS
    <2>5. QED BY <1>4, <2>1, <2>3, <2>4 DEF Iterate
  <1>6. g[1..0] = << >>
    <2>1. 1..0 = {} /\ {} \in SUBSET (1..Len(l))
      OBVIOUS
    <2>2. g[{}] = << >>
      BY <1>4, <2>1 DEF Iterate
    <2>3. QED BY <2>1, <2>2
  <1> DEFINE f == [k \in 0..Len(l) |-> g[1..k]]
  <1>7. f[0] = << >> /\ Those(l, S) = f[Len(l)]
    BY <1>2, <1>6
  <1>8. \A k \in 0..(Len(l) - 1) :
            f[k + 1] = IF l[k + 1] \in S THEN Append(f[k], l[k + 1]) ELSE f[k]
    BY <1>5
  <1>9. QED BY <1>7, <1>8

LEMMA AppendRange ==
    ASSUME NEW E, NEW l \in Seq(E), NEW x \in E
    PROVE  Append(l, x) \in Seq(E) /\ Range(Append(l, x)) = Range(l) \cup {x}
  <1>1. /\ Append(l, x) \in Seq(E) /\ DOMAIN Append(l, x) = 1..(Len(l) + 1)
        /\ DOMAIN l = 1..Len(l) /\ Len(l) \in Nat
        /\ \A j \in 1..Len(l) : Append(l, x)[j] = l[j]
        /\ Append(l, x)[Len(l) + 1] = x
    OBVIOUS
  <1>2. Range(Append(l, x)) = {Append(l, x)[j] : j \in 1..(Len(l) + 1)}
    BY <1>1 DEF Range
  <1>3. Range(l) = {l[j] : j \in 1..Len(l)}
    BY <1>1 DEF Range
  <1>4. 1..(Len(l) + 1) = 1..Len(l) \cup {Len(l) + 1}
    BY <1>1
  <1>5. QED BY <1>1, <1>2, <1>3, <1>4

LEMMA ThoseOf ==
    ASSUME NEW E, NEW l \in Seq(E), NEW S
    PROVE  Those(l, S) \in Seq(E) /\ Range(Those(l, S)) = Range(l) \cap S
  <1>1. PICK f : /\ f[0] = << >>
                 /\ \A k \in 0..(Len(l) - 1) :
                       f[k + 1] = IF l[k + 1] \in S THEN Append(f[k], l[k + 1]) ELSE f[k]
                 /\ Those(l, S) = f[Len(l)]
    BY ThoseIs
  <1> DEFINE Before(k) == {l[j] : j \in 1..k} \cap S
             K == {k \in Nat : k <= Len(l) => f[k] \in Seq(E) /\ Range(f[k]) = Before(k)}
  <1>2. 0 \in K
    <2>1. << >> \in Seq(E) /\ DOMAIN << >> = {} /\ Before(0) = {}
      OBVIOUS
    <2>2. Range(<< >>) = {}
      BY <2>1 DEF Range
    <2>3. QED BY <1>1, <2>1, <2>2
  <1>3. ASSUME NEW k \in K PROVE k + 1 \in K
    <2>1. SUFFICES ASSUME k + 1 <= Len(l)
                   PROVE  f[k + 1] \in Seq(E) /\ Range(f[k + 1]) = Before(k + 1)
      OBVIOUS
    <2>2. k \in 0..(Len(l) - 1) /\ l[k + 1] \in E
      BY <2>1
    <2>3. f[k] \in Seq(E) /\ Range(f[k]) = Before(k)
      BY <2>2
    <2>4. f[k + 1] = IF l[k + 1] \in S THEN Append(f[k], l[k + 1]) ELSE f[k]
      BY <1>1, <2>2
    <2>5. Before(k + 1) = IF l[k + 1] \in S THEN Before(k) \cup {l[k + 1]} ELSE Before(k)
      BY <2>2
    <2>6. PICK x \in E : x = l[k + 1]
      BY <2>2
    <2>7. PICK g \in Seq(E) : g = f[k]
      BY <2>3
    <2>a. Append(g, x) \in Seq(E) /\ Range(Append(g, x)) = Range(g) \cup {x}
      BY AppendRange
    <2> HIDE DEF Before
    <2>8. QED BY <2>3, <2>4, <2>5, <2>6, <2>7, <2>a
  <1>4. Len(l) \in Nat /\ Before(Len(l)) = Range(l) \cap S
    BY DEF Range
  <1> HIDE DEF K
  <1>5. K \in SUBSET Nat
    BY DEF K
  <1>6. Len(l) \in K
    BY <1>2, <1>3, <1>4, <1>5, Induct
  <1>7. QED BY <1>1, <1>4, <1>6 DEF K

-----------------------------------------------------------------------------
(* A session that is announced once goes through one round, and is in the  *)
(* channel's list only after it.                                           *)

ListTypes ==
    /\ list \in Seq(Session) /\ todo \in Seq(Session)
    /\ Range(todo) \subseteq Range(list)

\* The main thread is about to start a worker.
Starts(s) == main \in {<<"start", s>>, <<"spawn", s>>}
InRound == {"lock", "write", "populate", "carousel", "add"}

\* Before it is announced at all there is nothing of it.
Unannounced(s) ==
    /\ threads[s] = << >> /\ ~session[s].rebuild /\ ~Starts(s)
    /\ s \notin Range(list)

\* Once its worker has been started there is no other; the request is up until
\* the worker takes it back; and the session is in the list after the round.
OneRound(s) ==
    /\ DOMAIN threads[s] \subseteq {1}
    /\ Starts(s) => threads[s] = << >>
    /\ main = <<"start", s>> => ~session[s].rebuild
    /\ \A i \in DOMAIN threads[s] : threads[s][i] \in InRound => ~session[s].rebuild
    /\ s \in Range(list) =>
          /\ ~session[s].rebuild /\ ~Starts(s)
          /\ \A i \in DOMAIN threads[s] : threads[s][i] \in {"test", "finish", "done"}

Fresh(s) ==
    /\ session[s].want = 0 => Unannounced(s)
    /\ session[s].want <= 1 => OneRound(s)

RoundInv == ListTypes /\ \A s \in Session : Fresh(s)

\* What the channel is to do and what it was asked for; a manifest that was
\* sent is in the carousel unless a POST failed.
Asked(c) ==
    \/ /\ c.patches = << >>
       /\ c.reported = c.info \/ (c.reported = "UNSET" /\ c.info = "INACTIVE")
    \/ c.patches = <<c.info>>
SentInv ==
    /\ chan \in ChannelState /\ failures \in Nat
    /\ ~chan.crossed => Asked(chan)
    /\ failures = 0 => carousel = last

LEMMA RoundInit == Init => RoundInv
  <1> SUFFICES ASSUME Init PROVE RoundInv
    OBVIOUS
  <1>1. list = << >> /\ todo = << >> /\ main = <<"idle">>
    BY DEF Init
  <1>2. << >> \in Seq(Session) /\ Range(<< >>) = {}
    BY DEF Range
  <1>3. ListTypes
    BY <1>1, <1>2 DEF ListTypes
  <1>4. ASSUME NEW s \in Session PROVE Fresh(s)
    <2>1. session[s].want = 0 /\ ~session[s].rebuild /\ threads[s] = << >>
      BY DEF Init
    <2>2. ~Starts(s) /\ s \notin Range(list) /\ main # <<"start", s>>
      BY <1>1, <1>2 DEF Starts
    <2>3. DOMAIN << >> = {}
      OBVIOUS
    <2>4. QED BY <2>1, <2>2, <2>3 DEF Fresh, Unannounced, OneRound
  <1>5. QED BY <1>3, <1>4 DEF RoundInv

\* Steps that a session's round does not notice.
LEMMA FreshUntouched ==
    ASSUME NEW s \in Session, Fresh(s), threads'[s] = threads[s],
           session'[s].want = session[s].want, session'[s].rebuild = session[s].rebuild,
           Starts(s)' <=> Starts(s), main' = <<"start", s>> <=> main = <<"start", s>>,
           s \in Range(list') => s \in Range(list)
    PROVE  Fresh(s)'
  <1>1. Unannounced(s) => Unannounced(s)'
    BY DEF Unannounced
  <1>2. OneRound(s) => OneRound(s)'
    BY DEF OneRound
  <1>3. QED BY <1>1, <1>2 DEF Fresh

\* The other sessions when the main thread or a worker does something for one.
LEMMA FreshOthers ==
    ASSUME WorkTypes, RoundInv, NEW s \in Session,
           \A t \in Session \ {s} :
              /\ session'[t] = session[t] /\ threads'[t] = threads[t]
              /\ main' = <<"start", t>> <=> main = <<"start", t>>
              /\ main' = <<"spawn", t>> <=> main = <<"spawn", t>>
              /\ t \in Range(list') => t \in Range(list)
    PROVE  \A t \in Session \ {s} : Fresh(t)'
  <1> SUFFICES ASSUME NEW t \in Session \ {s} PROVE Fresh(t)'
    OBVIOUS
  <1>1. Starts(t)' <=> Starts(t)
    BY DEF Starts
  <1>2. Fresh(t)
    BY DEF RoundInv
  <1>3. QED BY <1>1, <1>2, FreshUntouched

\* Nothing changes but the main thread, which starts nothing.
LEMMA RoundElsewhere ==
    ASSUME WorkTypes, RoundInv, threads' = threads, ListTypes',
           Range(list') \subseteq Range(list),
           \A s \in Session : /\ session'[s].want = session[s].want
                              /\ session'[s].rebuild = session[s].rebuild
                              /\ main' = <<"start", s>> <=> main = <<"start", s>>
                              /\ main' = <<"spawn", s>> <=> main = <<"spawn", s>>
    PROVE  RoundInv'
  <1>1. ASSUME NEW s \in Session PROVE Fresh(s)'
    <2>1. Starts(s)' <=> Starts(s)
      BY DEF Starts
    <2>2. Fresh(s)
      BY DEF RoundInv
    <2>3. QED BY <2>1, <2>2, FreshUntouched
  <1>2. QED BY <1>1 DEF RoundInv

LEMMA SameList ==
    ASSUME ListTypes, list' = list, todo' = todo
    PROVE  ListTypes' /\ Range(list') \subseteq Range(list)
  BY DEF ListTypes

LEMMA AnnounceRound ==
    ASSUME WorkTypes, RoundInv, NEW s \in Session, Announce(s)
    PROVE  RoundInv'
  <1>1. /\ session' = [session EXCEPT ![s].object = FALSE, ![s].want = @ + 1,
                                      ![s].hurried = @ \/ AtWork(s) # {}]
        /\ main = <<"idle">> /\ main' = <<"start", s>> /\ threads' = threads
        /\ list' = list /\ todo' = todo
    BY DEF Announce, chanvars
  <1>2. session[s].want \in Nat /\ session'[s].want = session[s].want + 1
        /\ session'[s].rebuild = session[s].rebuild
    BY <1>1 DEF WorkTypes, SessionState
  <1>3. \A t \in Session \ {s} :
            /\ session'[t] = session[t] /\ threads'[t] = threads[t]
            /\ main' = <<"start", t>> <=> main = <<"start", t>>
            /\ main' = <<"spawn", t>> <=> main = <<"spawn", t>>
            /\ t \in Range(list') => t \in Range(list)
    BY <1>1 DEF WorkTypes
  <1>4. Fresh(s)'
    <2>1. CASE session[s].want = 0
      <3>1. Unannounced(s)
        BY <2>1 DEF RoundInv, Fresh
      <3>2. DOMAIN << >> = {}
        OBVIOUS
      <3>3. OneRound(s)'
        BY <1>1, <1>2, <3>1, <3>2 DEF Unannounced, OneRound
      <3>4. QED BY <1>2, <2>1, <3>3 DEF Fresh
    <2>2. CASE session[s].want # 0
      BY <1>2, <2>2 DEF Fresh
    <2>3. QED BY <2>1, <2>2
  <1>5. ListTypes'
    BY <1>1, SameList DEF RoundInv
  <1>6. QED BY <1>3, <1>4, <1>5, FreshOthers DEF RoundInv

LEMMA StartWorkerRound ==
    ASSUME WorkTypes, RoundInv, NEW s \in Session, StartWorker(s)
    PROVE  RoundInv'
  <1>1. /\ session' = [session EXCEPT ![s].rebuild = TRUE]
        /\ main = <<"start", s>> /\ main' = <<"spawn", s>> /\ threads' = threads
        /\ list' = list /\ todo' = todo
    BY DEF StartWorker, chanvars
  <1>2. session'[s].want = session[s].want
    BY <1>1 DEF WorkTypes, SessionState
  <1>3. \A t \in Session \ {s} :
            /\ session'[t] = session[t] /\ threads'[t] = threads[t]
            /\ main' = <<"start", t>> <=> main = <<"start", t>>
            /\ main' = <<"spawn", t>> <=> main = <<"spawn", t>>
            /\ t \in Range(list') => t \in Range(list)
    BY <1>1 DEF WorkTypes
  <1>4. Fresh(s)'
    <2>1. Starts(s) /\ Fresh(s)
      BY <1>1 DEF Starts, RoundInv
    <2>2. session[s].want # 0
      BY <2>1 DEF Fresh, Unannounced
    <2>3. session[s].want <= 1 => threads[s] = << >> /\ s \notin Range(list)
      BY <2>1 DEF Fresh, OneRound
    <2>4. DOMAIN << >> = {} /\ main' # <<"start", s>>
      BY <1>1
    <2>5. session[s].want <= 1 => OneRound(s)'
      BY <1>1, <2>3, <2>4 DEF OneRound
    <2>6. QED BY <1>2, <2>2, <2>5 DEF Fresh
  <1>5. ListTypes'
    BY <1>1, SameList DEF RoundInv
  <1>6. QED BY <1>3, <1>4, <1>5, FreshOthers DEF RoundInv

LEMMA SpawnWorkerRound ==
    ASSUME WorkTypes, RoundInv, NEW s \in Session, SpawnWorker(s)
    PROVE  RoundInv'
  <1>1. /\ threads' = IF session[s].running THEN threads
                      ELSE [threads EXCEPT ![s] = Append(@, "test")]
        /\ main = <<"spawn", s>> /\ main' = <<"idle">> /\ session' = session
        /\ list' = list /\ todo' = todo
    BY DEF SpawnWorker, chanvars
  <1>2. \A t \in Session \ {s} :
            /\ session'[t] = session[t] /\ threads'[t] = threads[t]
            /\ main' = <<"start", t>> <=> main = <<"start", t>>
            /\ main' = <<"spawn", t>> <=> main = <<"spawn", t>>
            /\ t \in Range(list') => t \in Range(list)
    BY <1>1 DEF WorkTypes
  <1>3. Fresh(s)'
    <2>1. Starts(s) /\ Fresh(s)
      BY <1>1 DEF Starts, RoundInv
    <2>2. session[s].want # 0
      BY <2>1 DEF Fresh, Unannounced
    <2>3. session[s].want <= 1 => threads[s] = << >> /\ s \notin Range(list)
      BY <2>1 DEF Fresh, OneRound
    <2>4. main' # <<"start", s>> /\ ~Starts(s)'
      BY <1>1 DEF Starts
    <2>5. threads'[s] = threads[s] \/ threads'[s] = Append(threads[s], "test")
      BY <1>1 DEF WorkTypes
    <2>6. /\ DOMAIN << >> \subseteq {1} /\ DOMAIN Append(<< >>, "test") \subseteq {1}
          /\ \A i \in DOMAIN Append(<< >>, "test") : Append(<< >>, "test")[i] = "test"
          /\ DOMAIN << >> = {}
      OBVIOUS
    <2>7. session[s].want <= 1 =>
             DOMAIN threads'[s] \subseteq {1} /\ \A i \in DOMAIN threads'[s] : threads'[s][i] = "test"
      BY <2>3, <2>5, <2>6
    <2>8. session[s].want <= 1 => OneRound(s)'
      BY <1>1, <2>3, <2>4, <2>7 DEF OneRound, InRound
    <2>9. QED BY <1>1, <2>2, <2>8 DEF Fresh
  <1>4. ListTypes'
    BY <1>1, SameList DEF RoundInv
  <1>5. QED BY <1>2, <1>3, <1>4, FreshOthers DEF RoundInv

LEMMA DeleteSessionRound ==
    ASSUME WorkTypes, RoundInv, NEW s \in Session, DeleteSession(s)
    PROVE  RoundInv'
  <1>0. PICK free : free = ~HoldsSession(s)
    OBVIOUS
  <1>1. /\ session' = [session EXCEPT ![s].alive = FALSE, ![s].cancel = @ \/ free]
        /\ main = <<"idle">> /\ main' \in {<<"idle">>, <<"join", s>>} /\ threads' = threads
        /\ list' = list /\ todo' = todo
    BY <1>0 DEF DeleteSession, chanvars
  <1>2. \A t \in Session : /\ session'[t].want = session[t].want
                           /\ session'[t].rebuild = session[t].rebuild
    BY <1>1 DEF WorkTypes, SessionState
  <1>3. \A t \in Session : /\ main # <<"start", t>> /\ main # <<"spawn", t>>
                           /\ main' # <<"start", t>> /\ main' # <<"spawn", t>>
    BY <1>1
  <1>4. QED BY <1>1, <1>2, <1>3, SameList, RoundElsewhere DEF RoundInv

LEMMA JoinedRound ==
    ASSUME WorkTypes, RoundInv, NEW s \in Session, Joined(s)
    PROVE  RoundInv'
  <1>1. /\ session' = session /\ threads' = threads /\ list' = list /\ todo' = todo
        /\ main = <<"join", s>> /\ main' = <<"idle">>
    BY DEF Joined, chanvars
  <1>2. \A t \in Session : /\ main # <<"start", t>> /\ main # <<"spawn", t>>
                           /\ main' # <<"start", t>> /\ main' # <<"spawn", t>>
    BY <1>1
  <1>3. QED BY <1>1, <1>2, SameList, RoundElsewhere DEF RoundInv

LEMMA CancelRound ==
    ASSUME WorkTypes, RoundInv, Cancel
    PROVE  RoundInv'
  <1>1. /\ session' = session /\ threads' = threads /\ list' = list /\ todo' = todo
        /\ main = <<"idle">> /\ main' = <<"quit">>
    BY DEF Cancel
  <1>2. \A t \in Session : /\ main # <<"start", t>> /\ main # <<"spawn", t>>
                           /\ main' # <<"start", t>> /\ main' # <<"spawn", t>>
    BY <1>1
  <1>3. QED BY <1>1, <1>2, SameList, RoundElsewhere DEF RoundInv

\* The channel's worker drops sessions from the list, and looks at some of it.
LEMMA ChannelRound ==
    ASSUME WorkTypes, RoundInv, Channel \/ Peers
    PROVE  RoundInv'
  <1>1. session' = session /\ threads' = threads /\ main' = main
    BY DEF Channel, ChannelTop, ChannelCollect, ChannelSend, Peers, MbsCreated,
           StfResponds, StfReports, ChangeChannel
  <1>2. ListTypes
    BY DEF RoundInv
  <1>3. ListTypes' /\ Range(list') \subseteq Range(list)
    <2>1. CASE list' = list /\ todo' = todo
      BY <1>2, <2>1, SameList
    <2>2. CASE list' = Those(list, Listed) /\ todo' \in {list', << >>}
      <3>1. list' \in Seq(Session) /\ Range(list') \subseteq Range(list)
        BY <1>2, <2>2, ThoseOf DEF ListTypes
      <3>2. << >> \in Seq(Session) /\ Range(<< >>) = {}
        BY DEF Range
      <3>3. QED BY <2>2, <3>1, <3>2 DEF ListTypes
    <2>3. CASE list' = list /\ todo # << >> /\ todo' = Tail(todo)
      <3>1. PICK l \in Seq(Session) : l = todo /\ l # << >>
        BY <1>2, <2>3 DEF ListTypes
      <3>2. Tail(l) \in Seq(Session) /\ Range(Tail(l)) \subseteq Range(l)
        BY <3>1 DEF Range
      <3>3. QED BY <1>2, <2>3, <3>1, <3>2 DEF ListTypes
    <2>4. QED BY <2>1, <2>2, <2>3 DEF Channel, ChannelTop, ChannelCollect, ChannelSend,
                 Peers, MbsCreated, StfResponds, StfReports, ChangeChannel
  <1>4. QED BY <1>1, <1>3, RoundElsewhere

\* A worker's step.  It enters the round with the request taken back, leaves it
\* for the next test or the end, and puts the session into the list at the end
\* of the round.
LEMMA WorkerRound ==
    ASSUME WorkTypes, RoundInv, NEW s \in Session, NEW i,
           NEW from \in WorkerAt, NEW pc \in WorkerAt, At(s, i, from), Goto(s, i, pc),
           main' = main, \A t \in Session \ {s} : session'[t] = session[t],
           session'[s].want = session[s].want,
           session'[s].rebuild => session[s].rebuild,
           pc \in InRound => from \in InRound \/ ~session'[s].rebuild,
           from = "test" /\ ~session[s].rebuild => pc = "finish",
           from = "finish" => pc = "done", from # "done",
           todo' = todo,
           list' = list \/ (list' = Append(list, s) /\ from = "add" /\ pc = "test")
    PROVE  RoundInv'
  <1>1. /\ threads' \in [Session -> Seq(WorkerAt)]
        /\ \A t \in Session \ {s} : threads'[t] = threads[t]
        /\ DOMAIN threads'[s] = DOMAIN threads[s]
        /\ i \in DOMAIN threads[s] /\ threads'[s][i] = pc /\ threads[s][i] = from
        /\ \A j \in DOMAIN threads[s] : j # i => threads'[s][j] = threads[s][j]
    BY GotoThreads DEF At
  <1>2. ListTypes
    BY DEF RoundInv
  <1>3. /\ ListTypes' /\ Range(list') \subseteq Range(list) \cup {s}
        /\ s \in Range(list') => s \in Range(list) \/ (from = "add" /\ pc = "test")
    <2>1. CASE list' = list
      BY <1>2, <2>1, SameList
    <2>2. CASE list' = Append(list, s) /\ from = "add" /\ pc = "test"
      <3>1. list' \in Seq(Session) /\ Range(list') = Range(list) \cup {s}
        BY <1>2, <2>2, AppendRange DEF ListTypes
      <3>2. QED BY <1>2, <2>2, <3>1 DEF ListTypes
    <2>3. QED BY <2>1, <2>2
  <1>4. \A t \in Session \ {s} : Fresh(t)'
    BY <1>1, <1>3, FreshOthers
  <1>5. Fresh(s)'
    <2>1. Fresh(s) /\ DOMAIN << >> = {}
      BY DEF RoundInv
    <2>2. session[s].want # 0
      BY <1>1, <2>1 DEF Fresh, Unannounced
    <2>3. ASSUME session[s].want <= 1 PROVE OneRound(s)'
      <3>1. OneRound(s)
        BY <2>1, <2>3 DEF Fresh
      <3>2. DOMAIN threads[s] = {1} /\ i = 1
        BY <1>1, <3>1 DEF OneRound
      <3>3. ~Starts(s) /\ ~Starts(s)' /\ main' # <<"start", s>>
        BY <1>1, <2>1, <3>1 DEF OneRound, Starts
      <3>4. pc \in InRound => ~session'[s].rebuild
        BY <1>1, <3>1 DEF OneRound
      <3>5. s \in Range(list') => ~session'[s].rebuild /\ pc \in {"test", "finish", "done"}
        <4>1. CASE s \in Range(list)
          <5>1. ~session[s].rebuild /\ from \in {"test", "finish", "done"}
            BY <1>1, <3>1, <4>1 DEF OneRound
          <5>2. QED BY <5>1
        <4>2. CASE from = "add" /\ pc = "test"
          BY <1>1, <3>1, <4>2 DEF OneRound, InRound
        <4>3. QED BY <1>3, <4>1, <4>2
      <3>6. QED BY <1>1, <3>2, <3>3, <3>4, <3>5 DEF OneRound
    <2>4. QED BY <2>2, <2>3 DEF Fresh
  <1>6. QED BY <1>3, <1>4, <1>5 DEF RoundInv

LEMMA WorkersRound ==
    ASSUME WorkTypes, RoundInv, NEW s \in Session, NEW i, Worker(s, i)
    PROVE  RoundInv'
  <1>1. /\ WorkerAt = {"test", "clear", "lock", "write", "populate", "carousel", "add",
                       "finish", "done"}
        /\ InRound = {"lock", "write", "populate", "carousel", "add"}
    BY DEF WorkerAt, InRound
  <1>2. CASE WorkerTest(s, i)
    <2>1. At(s, i, "test") /\ session' = session /\ main' = main /\ list' = list /\ todo' = todo
      BY <1>2 DEF WorkerTest, chanvars
    <2>2. PICK pc \in WorkerAt : /\ Goto(s, i, pc)
                                 /\ pc = IF session[s].rebuild THEN "clear" ELSE "finish"
      BY <1>1, <1>2 DEF WorkerTest
    <2>3. "test" \in WorkerAt /\ pc \notin InRound
      BY <1>1, <2>2
    <2>4. QED BY <2>1, <2>2, <2>3, WorkerRound
  <1>3. CASE WorkerClear(s, i)
    <2>1. /\ At(s, i, "clear") /\ Goto(s, i, "lock")
          /\ session' = [session EXCEPT ![s].rebuild = FALSE]
          /\ main' = main /\ list' = list /\ todo' = todo
      BY <1>3 DEF WorkerClear, chanvars
    <2>2. /\ \A t \in Session \ {s} : session'[t] = session[t]
          /\ session'[s].want = session[s].want /\ ~session'[s].rebuild
      BY <2>1 DEF WorkTypes, SessionState
    <2>3. "clear" \in WorkerAt /\ "lock" \in WorkerAt
      BY <1>1
    <2>4. QED BY <2>1, <2>2, <2>3, WorkerRound
  <1>4. CASE WorkerLock(s, i)
    <2>1. /\ At(s, i, "lock") /\ main' = main /\ list' = list /\ todo' = todo
          /\ session' = [session EXCEPT ![s].running = @ \/ ~session[s].cancel]
      BY <1>4 DEF WorkerLock, chanvars
    <2>2. PICK pc \in WorkerAt : Goto(s, i, pc) /\ pc \in {"finish", "write"}
      BY <1>1, <1>4 DEF WorkerLock
    <2>3. /\ \A t \in Session \ {s} : session'[t] = session[t]
          /\ session'[s].want = session[s].want
          /\ session'[s].rebuild = session[s].rebuild
      BY <2>1 DEF WorkTypes, SessionState
    <2>4. "lock" \in WorkerAt /\ "lock" \in InRound
      BY <1>1
    <2>5. QED BY <2>1, <2>2, <2>3, <2>4, WorkerRound
  <1>5. CASE WorkerWrite(s, i)
    <2>1. /\ At(s, i, "write") /\ main' = main /\ list' = list /\ todo' = todo
          /\ session' \in {[session EXCEPT ![s].built = session[s].want], session}
      BY <1>5 DEF WorkerWrite, chanvars
    <2>2. PICK pc \in WorkerAt : Goto(s, i, pc) /\ pc \in {"populate", "test"}
      BY <1>1, <1>5 DEF WorkerWrite
    <2>3. /\ \A t \in Session \ {s} : session'[t] = session[t]
          /\ session'[s].want = session[s].want
          /\ session'[s].rebuild = session[s].rebuild
      BY <2>1 DEF WorkTypes, SessionState
    <2>4. "write" \in WorkerAt /\ "write" \in InRound
      BY <1>1
    <2>5. QED BY <2>1, <2>2, <2>3, <2>4, WorkerRound
  <1>6. CASE WorkerPopulate(s, i)
    <2>1. /\ At(s, i, "populate") /\ main' = main /\ list' = list /\ todo' = todo
          /\ \/ session' = session
             \/ \E found \in BOOLEAN : session' = [session EXCEPT ![s].object = @ \/ found]
      BY <1>6 DEF WorkerPopulate, chanvars
    <2>2. PICK pc \in WorkerAt : Goto(s, i, pc) /\ pc \in {"test", "carousel"}
      BY <1>1, <1>6 DEF WorkerPopulate
    <2>3. /\ \A t \in Session \ {s} : session'[t] = session[t]
          /\ session'[s].want = session[s].want
          /\ session'[s].rebuild = session[s].rebuild
      BY <2>1 DEF WorkTypes, SessionState
    <2>4. "populate" \in WorkerAt /\ "populate" \in InRound
      BY <1>1
    <2>5. QED BY <2>1, <2>2, <2>3, <2>4, WorkerRound
  <1>7. CASE WorkerCarousel(s, i)
    <2>1. /\ At(s, i, "carousel") /\ main' = main /\ list' = list /\ todo' = todo
          /\ session' \in {session, [session EXCEPT ![s].available = TRUE]}
      BY <1>7 DEF WorkerCarousel, chanvars
    <2>2. PICK pc \in WorkerAt : Goto(s, i, pc) /\ pc \in {"test", "add"}
      BY <1>1, <1>7 DEF WorkerCarousel
    <2>3. /\ \A t \in Session \ {s} : session'[t] = session[t]
          /\ session'[s].want = session[s].want
          /\ session'[s].rebuild = session[s].rebuild
      BY <2>1 DEF WorkTypes, SessionState
    <2>4. "carousel" \in WorkerAt /\ "carousel" \in InRound
      BY <1>1
    <2>5. QED BY <2>1, <2>2, <2>3, <2>4, WorkerRound
  <1>8. CASE WorkerAdd(s, i)
    <2>1. /\ At(s, i, "add") /\ Goto(s, i, "test") /\ list' = Append(list, s)
          /\ session' = session /\ main' = main /\ todo' = todo
      BY <1>8 DEF WorkerAdd, chanvars
    <2>2. "add" \in WorkerAt /\ "test" \in WorkerAt /\ "test" \notin InRound
      BY <1>1
    <2>3. QED BY <2>1, <2>2, WorkerRound
  <1>9. CASE WorkerFinish(s, i)
    <2>1. /\ At(s, i, "finish") /\ Goto(s, i, "done")
          /\ session' = [session EXCEPT ![s].running = FALSE]
          /\ main' = main /\ list' = list /\ todo' = todo
      BY <1>9 DEF WorkerFinish, chanvars
    <2>2. /\ \A t \in Session \ {s} : session'[t] = session[t]
          /\ session'[s].want = session[s].want
          /\ session'[s].rebuild = session[s].rebuild
      BY <2>1 DEF WorkTypes, SessionState
    <2>3. "finish" \in WorkerAt /\ "done" \in WorkerAt /\ "done" \notin InRound
      BY <1>1
    <2>4. QED BY <2>1, <2>2, <2>3, WorkerRound
  <1>10. QED BY <1>2, <1>3, <1>4, <1>5, <1>6, <1>7, <1>8, <1>9 DEF Worker

LEMMA RoundStep == WorkTypes /\ RoundInv /\ [Next]_vars => RoundInv'
  <1> SUFFICES ASSUME WorkTypes, RoundInv, [Next]_vars PROVE RoundInv'
    OBVIOUS
  <1>1. CASE Channel \/ Peers
    BY <1>1, ChannelRound
  <1>2. CASE Cancel
    BY <1>2, CancelRound
  <1>3. ASSUME NEW s \in Session, Announce(s) \/ DeleteSession(s) \/ Main(s)
        PROVE  RoundInv'
    BY <1>3, AnnounceRound, DeleteSessionRound, StartWorkerRound, SpawnWorkerRound,
       JoinedRound DEF Main
  <1>4. ASSUME NEW s \in Session, NEW i \in 1..Builds[s], Worker(s, i)
        PROVE  RoundInv'
    BY <1>4, WorkersRound
  <1>5. CASE UNCHANGED vars
    <2>1. session' = session /\ threads' = threads /\ main' = main /\ list' = list /\ todo' = todo
      BY <1>5 DEF vars, chanvars
    <2>2. QED BY <2>1, SameList, RoundElsewhere DEF RoundInv
  <1>6. QED BY <1>1, <1>2, <1>3, <1>4, <1>5 DEF Next

\* The channel's worker and a bundle's worker block each other for ever, each
\* with a mutex the other wants, only over a session that was announced again
\* (userServiceAnnBundled and sendCarouselRequest).
THEOREM OnlyRebuiltIsStuck == Spec => []StuckIsRebuilt
  <1>1. ASSUME WorkTypes, RoundInv PROVE StuckIsRebuilt
    <2>1. SUFFICES ASSUME NEW s \in Session, Stuck(s) PROVE session[s].want > 1
      BY DEF StuckIsRebuilt
    <2>2. todo \in Seq(Session) /\ todo # << >> /\ Head(todo) = s
      BY <1>1, <2>1 DEF RoundInv, ListTypes, Stuck
    <2>3. s \in Range(todo)
      BY <2>2 DEF Range
    <2>4. s \in Range(list)
      BY <1>1, <2>3 DEF RoundInv, ListTypes
    <2>5. PICK i \in DOMAIN threads[s] : threads[s][i] = "add"
      BY <2>1 DEF Stuck, HoldsCarousel, AtWork
    <2>6. ~OneRound(s)
      BY <2>4, <2>5 DEF OneRound
    <2>7. session[s].want \in Nat
      BY <1>1 DEF WorkTypes, SessionState
    <2>8. QED BY <1>1, <2>6, <2>7 DEF RoundInv, Fresh
  <1>2. AnnInv => WorkTypes
    BY DEF AnnInv
  <1>3. QED BY <1>1, <1>2, RoundInit, RoundStep, WorkersConsistent, PTL DEF Spec

-----------------------------------------------------------------------------
(* The carousel gets what the channel knows.                               *)

LEMMA SentInit == Init => SentInv
  <1> SUFFICES ASSUME Init PROVE SentInv
    OBVIOUS
  <1>1. /\ chan = [mbs |-> FALSE, requested |-> FALSE, responded |-> FALSE,
                   info |-> "INACTIVE", patches |-> << >>, reported |-> "UNSET",
                   cancel |-> FALSE, crossed |-> FALSE]
        /\ carousel = last /\ failures = 0
    BY DEF Init
  <1>2. << >> \in Seq({"ACTIVE", "INACTIVE"})
    OBVIOUS
  <1>3. QED BY <1>1, <1>2 DEF SentInv, ChannelState, Asked

\* The MBSTF is asked for a state; if nothing else is asked of it then it is to
\* report that state, or has.
LEMMA SetAsks ==
    ASSUME NEW c \in ChannelState, ~c.crossed => Asked(c),
           NEW state \in {"ACTIVE", "INACTIVE"}
    PROVE  LET d == SetDistSessionState(c, state)
           IN  /\ d \in ChannelState
               /\ ~d.crossed => Asked(d)
  <1> DEFINE d == SetDistSessionState(c, state)
  <1>1. CASE c.info = state
    BY <1>1 DEF SetDistSessionState
  <1>2. CASE c.info # state
    <2>1. PICK p \in Seq({"ACTIVE", "INACTIVE"}) :
             p = IF state # c.reported THEN Append(c.patches, state) ELSE c.patches
      <3>1. c.patches \in Seq({"ACTIVE", "INACTIVE"})
        BY DEF ChannelState
      <3>2. Append(c.patches, state) \in Seq({"ACTIVE", "INACTIVE"})
        BY <3>1
      <3>3. QED BY <3>1, <3>2
    <2>2. PICK x \in BOOLEAN : x = (c.crossed \/ c.patches # << >>)
      BY DEF ChannelState
    <2>3. d = [c EXCEPT !.info = state, !.patches = p, !.crossed = x]
      BY <1>2, <2>1, <2>2 DEF SetDistSessionState, ChannelState
    <2>4. /\ d \in ChannelState
          /\ d.info = state /\ d.patches = p /\ d.crossed = x /\ d.reported = c.reported
      BY <2>3 DEF ChannelState
    <2>5. ASSUME ~x PROVE Asked(d)
      <3>1. c.patches = << >> /\ Asked(c)
        BY <2>2, <2>5
      <3>2. state = c.reported => p = << >>
        BY <2>1, <3>1
      <3>3. state # c.reported => p = <<state>>
        BY <2>1, <3>1
      <3>4. QED BY <2>4, <3>2, <3>3 DEF Asked
    <2>6. QED BY <2>4, <2>5
  <1>3. QED BY <1>1, <1>2

\* Steps of the channel's side.
LEMMA SentChannel ==
    ASSUME SentInv, Channel
    PROVE  SentInv'
  <1>1. CASE ChannelTop
    <2>1. failures' = failures /\ carousel' = carousel /\ last' = last
      BY <1>1 DEF ChannelTop
    <2>2. CASE chan' = chan
      BY <2>1, <2>2 DEF SentInv
    <2>3. CASE chan' = [chan EXCEPT !.requested = TRUE]
      <3>1. /\ chan' \in ChannelState /\ chan'.crossed = chan.crossed
            /\ chan'.patches = chan.patches /\ chan'.reported = chan.reported
            /\ chan'.info = chan.info
        BY <2>3 DEF SentInv, ChannelState
      <3>2. QED BY <2>1, <3>1 DEF SentInv, Asked
    <2>4. CASE \E state \in {"ACTIVE", "INACTIVE"} : chan' = SetDistSessionState(chan, state)
      BY <2>1, <2>4, SetAsks DEF SentInv
    <2>5. QED BY <1>1, <2>2, <2>3, <2>4 DEF ChannelTop
  <1>2. CASE ChannelCollect
    BY <1>2 DEF ChannelCollect, SentInv
  <1>3. CASE ChannelSend
    <2>1. chan' = chan
      BY <1>3 DEF ChannelSend
    <2>2. /\ failures' \in Nat
          /\ failures' = 0 => carousel' = last'
      BY <1>3 DEF ChannelSend, SentInv
    <2>3. QED BY <2>1, <2>2 DEF SentInv
  <1>4. QED BY <1>1, <1>2, <1>3 DEF Channel

LEMMA SentPeers ==
    ASSUME SentInv, Peers \/ Cancel
    PROVE  SentInv'
  <1>1. failures' = failures /\ carousel' = carousel /\ last' = last
    BY DEF Peers, MbsCreated, StfResponds, StfReports, Cancel, ChangeChannel
  <1>2. CASE chan' \in {[chan EXCEPT !.mbs = TRUE], [chan EXCEPT !.responded = TRUE],
                        [chan EXCEPT !.cancel = TRUE]}
    <2>1. /\ chan' \in ChannelState /\ chan'.crossed = chan.crossed
          /\ chan'.patches = chan.patches /\ chan'.reported = chan.reported
          /\ chan'.info = chan.info
      BY <1>2 DEF SentInv, ChannelState
    <2>2. QED BY <1>1, <2>1 DEF SentInv, Asked
  <1>3. CASE StfReports
    <2>1. PICK p \in Seq({"ACTIVE", "INACTIVE"}) : p = chan.patches /\ p # << >>
      BY <1>3 DEF StfReports, SentInv, ChannelState
    <2>2. Head(p) \in {"ACTIVE", "INACTIVE"} /\ Tail(p) \in Seq({"ACTIVE", "INACTIVE"})
      BY <2>1
    <2>3. chan' = [chan EXCEPT !.reported = Head(p), !.patches = Tail(p)]
      BY <1>3, <2>1 DEF StfReports, ChangeChannel, SentInv, ChannelState
    <2>4. /\ chan' \in ChannelState /\ chan'.crossed = chan.crossed
          /\ chan'.patches = Tail(p) /\ chan'.reported = Head(p)
          /\ chan'.info = chan.info
      BY <2>2, <2>3 DEF SentInv, ChannelState
    <2>5. ~chan.crossed => p = <<chan.info>>
      BY <2>1 DEF SentInv, Asked
    <2>6. ~chan.crossed => Head(p) = chan.info /\ Tail(p) = << >>
      <3>1. PICK e : e = chan.info
        OBVIOUS
      <3>2. Head(<<e>>) = e /\ Tail(<<e>>) = << >>
        OBVIOUS
      <3>3. QED BY <2>5, <3>1, <3>2
    <2>7. QED BY <1>1, <2>4, <2>6 DEF SentInv, Asked
  <1>4. QED BY <1>2, <1>3 DEF Peers, MbsCreated, StfResponds, Cancel, ChangeChannel

LEMMA SentStep == SentInv /\ [Next]_vars => SentInv'
  <1> SUFFICES ASSUME SentInv, [Next]_vars PROVE SentInv'
    OBVIOUS
  <1>1. CASE UNCHANGED chanvars
    BY <1>1 DEF chanvars, SentInv
  <1>2. CASE Channel
    BY <1>2, SentChannel
  <1>3. CASE Peers \/ Cancel
    BY <1>3, SentPeers
  <1>4. ASSUME NEW s \in Session, Announce(s) \/ DeleteSession(s) \/ Main(s)
        PROVE  UNCHANGED chanvars
    BY <1>4 DEF Announce, DeleteSession, Main, StartWorker, SpawnWorker, Joined
  <1>5. ASSUME NEW s \in Session, NEW i, Worker(s, i)
        PROVE  UNCHANGED chanvars
    BY <1>5 DEF Worker, WorkerTest, WorkerClear, WorkerLock, WorkerWrite, WorkerPopulate,
                WorkerCarousel, WorkerAdd, WorkerFinish
  <1>6. QED BY <1>1, <1>2, <1>3, <1>4, <1>5 DEF Next, vars

\* Once nothing is under way a session with an object is in the MBSTF's carousel,
\* unless a POST failed or a state was asked for across another
\* (workerLoop, setDistSessionState and sendCarouselRequest).
THEOREM AnnouncedInTheEnd == Spec => []Announced
  <1>1. ASSUME ListTypes, SentInv PROVE Announced
    <2>1. SUFFICES ASSUME Settled, failures = 0, ~chan.crossed,
                          NEW s \in Available, session[s].object
                   PROVE  s \in Range(carousel)
      BY DEF Announced
    <2>2. chan.info = "ACTIVE" /\ chan.patches = << >> /\ Asked(chan)
      BY <1>1, <2>1 DEF Settled, SentInv
    <2>3. chan.reported = "ACTIVE"
      BY <2>2 DEF Asked
    <2>4. last = Those(list, {t \in Available : session[t].object})
      BY <2>1, <2>3 DEF Settled, Objects
    <2>5. Range(last) = Range(list) \cap {t \in Available : session[t].object}
      BY <1>1, <2>4, ThoseOf DEF ListTypes
    <2>6. s \in Range(list)
      BY DEF Available, Listed
    <2>7. QED BY <1>1, <2>1, <2>5, <2>6 DEF SentInv
  <1>2. RoundInv => ListTypes
    BY DEF RoundInv
  <1>3. AnnInv => WorkTypes
    BY DEF AnnInv
  <1>4. Spec => []RoundInv
    BY <1>3, RoundInit, RoundStep, WorkersConsistent, PTL DEF Spec
  <1>5. Spec => []SentInv
    BY SentInit, SentStep, PTL DEF Spec
  <1>6. QED BY <1>1, <1>2, <1>4, <1>5, PTL
=============================================================================
