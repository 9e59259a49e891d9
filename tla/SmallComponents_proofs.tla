-------------------------- MODULE SmallComponents_proofs --------------------------
(***************************************************************************)
(* Proofs about three components that are small and share no state: the    *)
(* handle of an MBS Session (MbsSessionPush), the active periods with      *)
(* their timer (ActivePeriods), and the servers of the network function    *)
(* (NfServers).  For each, an inductive invariant (PushInv, PeriodsInv,    *)
(* ServersInv) and the properties that follow from it.                     *)
(***************************************************************************)
EXTENDS MbsSessionPush, ActivePeriods, NfServers, SequenceTheorems, FiniteSetTheorems,
        WellFoundedInduction, TLAPS

(***************************************************************************)
(* MbsSessionPush.                                                         *)
(***************************************************************************)
-----------------------------------------------------------------------------
(* What the operations on the handle return.                               *)

\* A new handle, with its first status pushed, waits for one answer.
LEMMA NewPushed ==
    ASSUME NEW status \in ActivityStatus
    PROVE  LET s == PushChanges(NewMbsSession(status))
           IN  /\ s \in MbsSession /\ s.session /\ ~s.deleted /\ s.inFlight
               /\ s.sent = status /\ s.status = status /\ s.ops = <<status>>
  <1> DEFINE n == NewMbsSession(status)
  <1>1. /\ n \in MbsSession /\ n.session /\ ~n.inFlight /\ ~n.deleted
        /\ n.sent = NOTHING /\ n.status = status /\ n.ops = << >>
    BY DEF NewMbsSession, MbsSession, MbsRequest, ActivityStatus
  <1>2. LibHasChanges(n)
    BY <1>1, StatusAssumption DEF LibHasChanges, Target, ActivityStatus
  <1>3. PushChanges(n) = [LibPush(n) EXCEPT !.inFlight = TRUE, !.sendUpdates = FALSE]
    BY <1>1, <1>2 DEF PushChanges
  <1>4. LibPush(n) = [n EXCEPT !.sent = status, !.ops = Append(n.ops, status)]
    BY <1>1, <1>2 DEF LibPush, Target
  <1>5. Append(n.ops, status) = <<status>> /\ <<status>> \in Seq(MbsRequest)
    BY <1>1 DEF MbsRequest
  <1> HIDE DEF n
  <1>6. PushChanges(n) = [n EXCEPT !.sent = status, !.ops = <<status>>,
                                   !.inFlight = TRUE, !.sendUpdates = FALSE]
    BY <1>1, <1>3, <1>4, <1>5 DEF MbsSession
  <1>7. LET s == PushChanges(n)
        IN  /\ s \in MbsSession /\ s.session /\ ~s.deleted /\ s.inFlight
            /\ s.sent = status /\ s.status = status /\ s.ops = <<status>>
    BY <1>1, <1>5, <1>6 DEF MbsSession, MbsRequest
  <1>8. QED BY <1>7 DEF n

\* Pushing with a change in flight only sets sendUpdates.
LEMMA PushInFlight ==
    ASSUME NEW s \in MbsSession, s.inFlight
    PROVE  PushChanges(s) = [s EXCEPT !.sendUpdates = TRUE]
  BY DEF PushChanges

\* Pushing a live session with nothing in flight sends its status if that is new.
LEMMA PushFree ==
    ASSUME NEW s \in MbsSession, ~s.inFlight, s.session, ~s.deleted
    PROVE  PushChanges(s) =
             IF s.sent = s.status THEN s
             ELSE [s EXCEPT !.sent = s.status, !.ops = Append(s.ops, s.status),
                            !.inFlight = TRUE, !.sendUpdates = FALSE]
  <1>1. Target(s) = s.status
    BY DEF Target
  <1>2. CASE s.sent = s.status
    BY <1>1, <1>2 DEF PushChanges, LibHasChanges
  <1>3. CASE s.sent # s.status
    <2>1. LibPush(s) = [s EXCEPT !.sent = s.status, !.ops = Append(s.ops, s.status)]
      BY <1>1, <1>3 DEF LibPush, LibHasChanges
    <2>2. QED BY <1>1, <1>3, <2>1 DEF PushChanges, LibHasChanges, MbsSession
  <1>4. QED BY <1>2, <1>3

\* Pushing a session that is null, or that has its delete sent, sends nothing.
LEMMA PushNothing ==
    ASSUME NEW s \in MbsSession, ~s.inFlight, ~s.session \/ (s.deleted /\ s.sent = DELETE)
    PROVE  PushChanges(s) = s
  BY DEF PushChanges, LibHasChanges, Target

\* deleteSession of a session whose delete was not sent yet appends the delete.
LEMMA DeleteFirst ==
    ASSUME NEW s \in MbsSession, s.session, s.sent # DELETE
    PROVE  DeleteSession(s) =
             [s EXCEPT !.deleted = TRUE, !.sent = DELETE, !.ops = Append(s.ops, DELETE),
                       !.inFlight = TRUE, !.sendUpdates = FALSE]
  <1> DEFINE d == [s EXCEPT !.deleted = TRUE]
  <1>1. d.session /\ d.deleted /\ d.sent = s.sent /\ d.ops = s.ops
    BY DEF MbsSession
  <1>2. LibPush(d) = [d EXCEPT !.sent = DELETE, !.ops = Append(s.ops, DELETE)]
    BY <1>1 DEF LibPush, LibHasChanges, Target
  <1>3. QED BY <1>2 DEF DeleteSession, MbsSession

\* deleteSession of a session whose delete was sent sends nothing more.
LEMMA DeleteAgain ==
    ASSUME NEW s \in MbsSession, s.deleted, s.sent = DELETE
    PROVE  DeleteSession(s) = IF s.session
                              THEN [s EXCEPT !.inFlight = TRUE, !.sendUpdates = FALSE]
                              ELSE s
  <1> DEFINE d == [s EXCEPT !.deleted = TRUE]
  <1>1. d = s
    BY DEF MbsSession
  <1>2. LibPush(d) = s
    BY <1>1 DEF LibPush, LibHasChanges, Target
  <1>3. QED BY <1>2 DEF DeleteSession

-----------------------------------------------------------------------------
(* Init and the steps.                                                     *)

\* createMbsSession establishes the invariant: one create is outstanding.
LEMMA InitPushInv == Init => PushInv
  <1> SUFFICES ASSUME Init PROVE PushInv
    OBVIOUS
  <1>1. PICK status \in ActivityStatus : mbs = PushChanges(NewMbsSession(status))
    BY DEF Init
  <1>2. /\ mbs \in MbsSession /\ mbs.session /\ ~mbs.deleted /\ mbs.inFlight
        /\ mbs.sent = status /\ mbs.status = status /\ mbs.ops = <<status>>
    BY <1>1, NewPushed
  <1>3. OneOutstanding
    BY <1>2 DEF OneOutstanding
  <1>4. mbs.ops # << >>
    BY <1>2
  <1>5. QED BY <1>2, <1>3, <1>4 DEF Init, PushInv, TypeOK, BeforeDelete

\* A status is set and pushed.
LEMMA SendStep ==
    ASSUME PushInv, NEW status \in ActivityStatus, SendActivityStatus(status)
    PROVE  PushInv'
  <1> DEFINE t == SetActivityStatus(mbs, status)
  <1>1. mbs \in MbsSession /\ mbs' = PushChanges(t) /\ UNCHANGED <<smf, failed, attached>>
    BY DEF PushInv, TypeOK, SendActivityStatus
  <1>2. t \in MbsSession /\ t = IF mbs.session THEN [mbs EXCEPT !.status = status] ELSE mbs
    BY <1>1 DEF SetActivityStatus, MbsSession
  <1>3. t.session = mbs.session /\ t.inFlight = mbs.inFlight /\ t.deleted = mbs.deleted
            /\ t.sent = mbs.sent /\ t.ops = mbs.ops /\ t.sendUpdates = mbs.sendUpdates
    BY <1>1, <1>2 DEF MbsSession
  <1> HIDE DEF t
  <1>4. CASE t.inFlight
    <2>1. mbs' = [t EXCEPT !.sendUpdates = TRUE]
      BY <1>1, <1>2, <1>4, PushInFlight
    <2>2. /\ mbs' \in MbsSession /\ mbs'.session = mbs.session /\ mbs'.deleted = mbs.deleted
          /\ mbs'.sent = mbs.sent /\ mbs'.ops = mbs.ops /\ mbs'.sendUpdates /\ mbs'.inFlight
      BY <1>2, <1>3, <1>4, <2>1 DEF MbsSession
    <2>3. QED BY <1>1, <1>3, <1>4, <2>2
              DEF PushInv, TypeOK, AfterDelete, BeforeDelete, Idle, OneOutstanding
  <1>5. CASE ~t.inFlight /\ t.deleted
    <2>1. mbs' = t
      BY <1>1, <1>2, <1>3, <1>5, PushNothing DEF PushInv, AfterDelete
    <2>2. QED BY <1>1, <1>2, <1>3, <1>5, <2>1 DEF PushInv, TypeOK, AfterDelete
  <1>6. CASE ~t.inFlight /\ ~t.deleted
    <2>1. BeforeDelete /\ Idle
      BY <1>3, <1>6 DEF PushInv, BeforeDelete, OneOutstanding
    <2>2. t.session /\ t.status = status /\ ~t.sendUpdates /\ t.ops = << >>
      BY <1>1, <1>2, <1>3, <2>1 DEF BeforeDelete, Idle, MbsSession
    <2>3. CASE t.sent = status
      <3>1. mbs' = t
        BY <1>1, <1>2, <1>6, <2>2, <2>3, PushFree
      <3>2. QED BY <1>1, <1>2, <1>3, <1>6, <2>1, <2>2, <2>3, <3>1
                DEF PushInv, TypeOK, BeforeDelete, Idle
    <2>4. CASE t.sent # status
      <3>1. mbs' = [t EXCEPT !.sent = status, !.ops = Append(t.ops, status),
                             !.inFlight = TRUE, !.sendUpdates = FALSE]
        BY <1>1, <1>2, <1>6, <2>2, <2>4, PushFree
      <3>2. Append(t.ops, status) = <<status>> /\ <<status>> \in Seq(MbsRequest)
        BY <2>2 DEF MbsRequest
      <3>3. /\ mbs' \in MbsSession /\ mbs'.session /\ ~mbs'.deleted /\ mbs'.inFlight
            /\ mbs'.sent = status /\ mbs'.status = status /\ mbs'.ops = <<status>>
        BY <1>2, <1>6, <2>2, <3>1, <3>2 DEF MbsSession, MbsRequest
      <3>4. QED BY <1>1, <2>1, <3>3 DEF PushInv, TypeOK, BeforeDelete, OneOutstanding
    <2>5. QED BY <2>3, <2>4
  <1>7. QED BY <1>2, <1>4, <1>5, <1>6 DEF MbsSession

\* The delete is sent, whatever is outstanding.  Shared by Delete and Destroy.
LEMMA DeleteStep ==
    ASSUME PushInv, attached, mbs' = DeleteSession(mbs), UNCHANGED <<smf, failed>>,
           attached' \in BOOLEAN
    PROVE  PushInv'
  <1>1. mbs \in MbsSession
    BY DEF PushInv, TypeOK
  <1>2. CASE mbs.deleted
    <2>1. mbs' = IF mbs.session THEN [mbs EXCEPT !.inFlight = TRUE, !.sendUpdates = FALSE]
                                ELSE mbs
      BY <1>1, <1>2, DeleteAgain DEF PushInv, AfterDelete
    <2>2. /\ mbs' \in MbsSession /\ mbs'.session = mbs.session /\ mbs'.deleted
          /\ mbs'.sent = mbs.sent /\ mbs'.ops = mbs.ops
      BY <1>1, <1>2, <2>1 DEF MbsSession
    <2>3. QED BY <1>2, <2>2 DEF PushInv, TypeOK, AfterDelete
  <1>3. CASE ~mbs.deleted
    <2>1. BeforeDelete /\ mbs.session /\ mbs.sent \in ActivityStatus /\ mbs.sent # DELETE
      BY <1>3, StatusAssumption DEF PushInv, BeforeDelete, ActivityStatus
    <2>2. mbs' = [mbs EXCEPT !.deleted = TRUE, !.sent = DELETE, !.ops = Append(mbs.ops, DELETE),
                             !.inFlight = TRUE, !.sendUpdates = FALSE]
      BY <1>1, <2>1, DeleteFirst
    <2>3. mbs.ops \in Seq(MbsRequest) /\ DELETE \in MbsRequest
            /\ Append(mbs.ops, DELETE) \in Seq(MbsRequest)
      BY <1>1 DEF MbsSession, MbsRequest
    <2>4. /\ mbs' \in MbsSession /\ mbs'.session /\ mbs'.deleted /\ mbs'.sent = DELETE
          /\ mbs'.ops = Append(mbs.ops, DELETE)
      BY <1>1, <2>1, <2>2, <2>3 DEF MbsSession
    <2>5. \/ mbs.ops = << >>
          \/ Len(mbs.ops) = 1 /\ mbs.ops[1] # DELETE
      BY <2>1 DEF BeforeDelete, Idle, OneOutstanding
    <2>6. AfterDelete' /\ mbs'.ops # << >>
      BY <2>3, <2>4, <2>5 DEF AfterDelete
    <2>7. QED BY <2>4, <2>6 DEF PushInv, TypeOK
  <1>4. QED BY <1>2, <1>3

\* The MB-SMF answers the oldest request.
LEMMA AnswerStep ==
    ASSUME PushInv, NEW ok \in BOOLEAN, Answer(ok)
    PROVE  PushInv'
  <1> DEFINE done == ok /\ Head(mbs.ops) = DELETE
             a == [mbs EXCEPT !.ops = Tail(mbs.ops), !.inFlight = FALSE,
                              !.session = mbs.session /\ ~done]
  <1>1. /\ mbs \in MbsSession /\ mbs.ops # << >> /\ mbs.ops \in Seq(MbsRequest)
        /\ attached' = attached /\ failed' = ~ok
        /\ smf' = IF ok THEN Head(mbs.ops) ELSE smf
    BY DEF PushInv, TypeOK, Answer, MbsSession
  <1>2. Tail(mbs.ops) \in Seq(MbsRequest) /\ Len(Tail(mbs.ops)) = Len(mbs.ops) - 1
    BY <1>1
  <1>3. Tail(mbs.ops) = << >> <=> Len(mbs.ops) = 1
    <2>1. Len(mbs.ops) \in Nat /\ Len(mbs.ops) # 0
      BY <1>1, EmptySeq
    <2>2. Tail(mbs.ops) # << >> => Len(Tail(mbs.ops)) \in Nat \ {0}
      BY <1>2, EmptySeq
    <2>3. Tail(mbs.ops) = << >> => Len(Tail(mbs.ops)) = 0
      BY EmptySeq
    <2>4. QED BY <1>2, <2>1, <2>2, <2>3
  <1>4. Tail(mbs.ops) \in Seq(MbsRequest) /\ Len(Tail(mbs.ops)) = Len(mbs.ops) - 1
            /\ Head(mbs.ops) = mbs.ops[1] /\ Head(mbs.ops) \in MbsRequest
            /\ (Len(mbs.ops) = 2 => Tail(mbs.ops)[1] = mbs.ops[2])
            /\ (Len(mbs.ops) = 1 => Tail(mbs.ops) = << >>)
            /\ (Len(mbs.ops) = 2 => Tail(mbs.ops) # << >>)
    BY <1>1, <1>2, <1>3
  <1>5. smf' \in MbsRequest \cup {NOTHING} /\ failed' \in BOOLEAN /\ attached' \in BOOLEAN
    BY <1>1, <1>4 DEF PushInv, TypeOK
  <1>6. /\ a \in MbsSession /\ a.ops = Tail(mbs.ops) /\ ~a.inFlight
        /\ a.session = (mbs.session /\ ~done) /\ a.deleted = mbs.deleted
        /\ a.sent = mbs.sent /\ a.status = mbs.status /\ a.sendUpdates = mbs.sendUpdates
    BY <1>1, <1>4 DEF MbsSession
  <1> DEFINE b == [a EXCEPT !.sendUpdates = FALSE]
  <1>7. /\ b \in MbsSession /\ b.ops = Tail(mbs.ops) /\ ~b.inFlight /\ b.session = a.session
        /\ b.deleted = mbs.deleted /\ b.sent = mbs.sent /\ b.status = mbs.status
        /\ ~b.sendUpdates
    BY <1>6 DEF MbsSession
  <1>8. mbs' = IF attached THEN (IF a.sendUpdates THEN PushChanges(b) ELSE a)
               ELSE [mbs EXCEPT !.ops = Tail(mbs.ops)]
    BY <1>1 DEF Answer, MbsSessionCallback
  <1> HIDE DEF a, b, done
  <1>9. CASE ~mbs.deleted
    <2>1. /\ attached /\ mbs.session /\ mbs.sent \in ActivityStatus
          /\ Len(mbs.ops) = 1 /\ mbs.ops[1] = mbs.sent /\ mbs.sent # DELETE
          /\ mbs.sent # mbs.status => mbs.sendUpdates
      BY <1>1, <1>9, StatusAssumption
         DEF PushInv, BeforeDelete, Idle, OneOutstanding, ActivityStatus
    <2>2. ~done
      BY <1>4, <2>1 DEF done
    <2>3. a.session /\ b.session
      BY <1>6, <1>7, <2>1, <2>2
    <2>4. Tail(mbs.ops) = << >> /\ (ok => smf' = mbs.sent)
      BY <1>1, <1>4, <2>1
    <2>5. CASE a.sendUpdates /\ b.sent # b.status
      <3>1. mbs' = [b EXCEPT !.sent = b.status, !.ops = Append(b.ops, b.status),
                             !.inFlight = TRUE, !.sendUpdates = FALSE]
        BY <1>7, <1>8, <1>9, <2>1, <2>3, <2>5, PushFree
      <3>2. b.status \in ActivityStatus /\ b.status \in MbsRequest /\ b.ops = << >>
        BY <1>7, <2>4 DEF MbsSession, MbsRequest
      <3>3. Append(b.ops, b.status) = <<b.status>> /\ <<b.status>> \in Seq(MbsRequest)
        BY <3>2
      <3>4. /\ mbs' \in MbsSession /\ mbs'.session /\ ~mbs'.deleted /\ mbs'.inFlight
            /\ mbs'.sent = b.status /\ mbs'.status = b.status /\ mbs'.ops = <<b.status>>
        BY <1>7, <1>9, <2>3, <3>1, <3>2, <3>3 DEF MbsSession, MbsRequest
      <3>5. QED BY <1>1, <1>5, <2>1, <3>2, <3>4 DEF PushInv, TypeOK, BeforeDelete, OneOutstanding
    <2>6. CASE a.sendUpdates /\ b.sent = b.status
      <3>1. mbs' = b
        BY <1>7, <1>8, <1>9, <2>1, <2>3, <2>6, PushFree
      <3>2. QED BY <1>1, <1>5, <1>7, <1>9, <2>1, <2>3, <2>4, <2>6, <3>1
                DEF PushInv, TypeOK, BeforeDelete, Idle
    <2>7. CASE ~a.sendUpdates
      <3>1. mbs' = a /\ a.sent = a.status
        BY <1>6, <1>8, <2>1, <2>7
      <3>2. QED BY <1>1, <1>5, <1>6, <1>9, <2>1, <2>3, <2>4, <2>7, <3>1
                DEF PushInv, TypeOK, BeforeDelete, Idle
    <2>8. QED BY <2>5, <2>6, <2>7
  <1>10. CASE mbs.deleted
    <2>1. mbs.sent = DELETE /\ mbs.session
      BY <1>1, <1>10 DEF PushInv, AfterDelete
    <2>2. \/ Len(mbs.ops) = 1 /\ mbs.ops[1] = DELETE
          \/ Len(mbs.ops) = 2 /\ mbs.ops[1] # DELETE /\ mbs.ops[2] = DELETE
      BY <1>1, <1>10 DEF PushInv, AfterDelete
    <2>3. PushChanges(b) = b
      BY <1>7, <1>10, <2>1, PushNothing
    <2>4. /\ mbs' \in MbsSession /\ mbs'.ops = Tail(mbs.ops) /\ mbs'.deleted
          /\ mbs'.sent = DELETE /\ (~done => mbs'.session)
      BY <1>1, <1>4, <1>6, <1>7, <1>8, <1>10, <2>1, <2>3 DEF MbsSession
    <2>5. CASE Len(mbs.ops) = 1
      <3>1. mbs.ops[1] = DELETE
        BY <2>2, <2>5
      <3>2. ok => smf' = DELETE
        BY <1>1, <1>4, <3>1
      <3>3. mbs'.ops = << >> /\ (~failed' => smf' = DELETE)
        BY <1>1, <1>4, <2>4, <2>5, <3>2
      <3>4. QED BY <1>5, <2>4, <3>3 DEF PushInv, TypeOK, AfterDelete
    <2>6. CASE Len(mbs.ops) = 2
      <3>1. mbs.ops[1] # DELETE /\ mbs.ops[2] = DELETE
        BY <2>2, <2>6
      <3>2. ~done
        BY <1>4, <3>1 DEF done
      <3>3. Len(mbs'.ops) = 1 /\ mbs'.ops[1] = DELETE /\ mbs'.ops # << >> /\ mbs'.session
        BY <1>4, <2>4, <2>6, <3>1, <3>2
      <3>4. QED BY <1>5, <2>4, <3>3 DEF PushInv, TypeOK, AfterDelete
    <2>7. QED BY <2>2, <2>5, <2>6
  <1>11. QED BY <1>9, <1>10

\* Every step keeps PushInv.
LEMMA NextPushInv == PushInv /\ [Next]_vars => PushInv'
  <1> SUFFICES ASSUME PushInv, [Next]_vars PROVE PushInv'
    OBVIOUS
  <1>1. ASSUME NEW status \in ActivityStatus, SendActivityStatus(status) PROVE PushInv'
    BY <1>1, SendStep
  <1>2. CASE Delete
    BY <1>2, DeleteStep DEF Delete, PushInv, TypeOK
  <1>3. CASE Destroy
    BY <1>3, DeleteStep DEF Destroy
  <1>4. ASSUME NEW ok \in BOOLEAN, Answer(ok) PROVE PushInv'
    BY <1>4, AnswerStep
  <1>5. CASE UNCHANGED vars
    BY <1>5 DEF vars, PushInv, TypeOK, AfterDelete, BeforeDelete, Idle, OneOutstanding
  <1>6. QED BY <1>1, <1>2, <1>3, <1>4, <1>5 DEF Next

-----------------------------------------------------------------------------
(* The results.                                                            *)

\* The inductive invariant of the push protocol of MBSMFMBSSession holds, in
\* particular the type invariant.
THEOREM PushInvariant == Spec => []PushInv
  <1>1. QED BY InitPushInv, NextPushInv, PTL DEF Spec

\* The variables keep their types.
THEOREM PushTypeCorrect == Spec => []TypeOK
  <1>1. PushInv => TypeOK
    BY DEF PushInv
  <1>2. QED BY <1>1, PushInvariant, PTL

\* pushChanges and deleteSession never have two updates outstanding at the
\* MB-SMF, and nothing follows a delete.
THEOREM PushNoOvertaking == Spec => []NoOvertaking
  <1>1. PushInv => NoOvertaking
    BY DEF PushInv, TypeOK, MbsSession, AfterDelete, BeforeDelete, Idle, OneOutstanding,
           NoOvertaking
  <1>2. QED BY <1>1, PushInvariant, PTL

\* The coalescing of pushChanges and mbsSessionCallback loses no update.
THEOREM PushSettled == Spec => []Settled
  <1>1. PushInv => Settled
    BY DEF PushInv, AfterDelete, BeforeDelete, Idle, OneOutstanding, Settled, Target
  <1>2. QED BY <1>1, PushInvariant, PTL

\* After OGS_DONE no callback with the old session is to come.
THEOREM PushDoneIsLast == Spec => []DoneIsLast
  <1>1. PushInv => DoneIsLast
    BY DEF PushInv, AfterDelete, BeforeDelete, DoneIsLast
  <1>2. QED BY <1>1, PushInvariant, PTL

-----------------------------------------------------------------------------
(* The handle implements the register of MbsRegister.                      *)

\* A sequence of one element is not empty.
LEMMA OneIsSome ==
    ASSUME NEW S, NEW s \in Seq(S), Len(s) = 1
    PROVE  s # << >>
  OBVIOUS

\* What is pending, and that it is something.
LEMMA PendingIsHead ==
    ASSUME PushInv
    PROVE  /\ mbs.ops = << >> => Pending = NOTHING
           /\ mbs.ops # << >> => Pending = mbs.ops[1] /\ Pending \in MbsRequest
                               /\ Pending # NOTHING
  <1>1. mbs.ops \in Seq(MbsRequest)
    BY DEF PushInv, TypeOK, MbsSession
  <1>2. CASE mbs.ops = << >>
    BY <1>2 DEF Pending
  <1>3. CASE mbs.ops # << >>
    <2>1. Head(mbs.ops) = mbs.ops[1] /\ Head(mbs.ops) \in MbsRequest
      BY <1>1, <1>3
    <2>2. QED BY <1>3, <2>1, StatusAssumption DEF Pending, MbsRequest, ActivityStatus
  <1>4. QED BY <1>2, <1>3

\* A new handle is a new register: its first status is wanted and on its way.
LEMMA InitRegister == Init => Register!Init
  <1> SUFFICES ASSUME Init PROVE Register!Init
    OBVIOUS
  <1>1. PICK status \in ActivityStatus : mbs = PushChanges(NewMbsSession(status))
    BY DEF Init
  <1>2. ~mbs.deleted /\ mbs.status = status /\ mbs.ops = <<status>>
    BY <1>1, NewPushed
  <1>3. Target(mbs) = status /\ Pending = status
    BY <1>2 DEF Target, Pending
  <1>4. QED BY <1>3 DEF Init, Register!Init

\* Setting and pushing a status writes the register, or is not seen.
LEMMA SendWrites ==
    ASSUME PushInv, NEW status \in ActivityStatus, SendActivityStatus(status)
    PROVE  Register!Write(status) \/ UNCHANGED Register!vars
  <1> DEFINE t == SetActivityStatus(mbs, status)
  <1>1. mbs \in MbsSession /\ mbs' = PushChanges(t) /\ smf' = smf
    BY DEF PushInv, TypeOK, SendActivityStatus
  <1>2. t \in MbsSession /\ t = IF mbs.session THEN [mbs EXCEPT !.status = status] ELSE mbs
    BY <1>1 DEF SetActivityStatus, MbsSession
  <1>3. t.session = mbs.session /\ t.inFlight = mbs.inFlight /\ t.deleted = mbs.deleted
            /\ t.sent = mbs.sent /\ t.ops = mbs.ops /\ t.sendUpdates = mbs.sendUpdates
    BY <1>1, <1>2 DEF MbsSession
  <1>4. mbs.session => t.status = status
    BY <1>1, <1>2 DEF MbsSession
  <1> HIDE DEF t
  <1>5. CASE mbs.deleted
    <2>1. mbs'.deleted /\ mbs'.ops = mbs.ops
      <3>1. CASE t.inFlight
        BY <1>1, <1>2, <1>3, <1>5, <3>1, PushInFlight DEF MbsSession
      <3>2. CASE ~t.inFlight
        BY <1>1, <1>2, <1>3, <1>5, <3>2, PushNothing DEF PushInv, AfterDelete
      <3>3. QED BY <3>1, <3>2
    <2>2. QED BY <1>1, <1>5, <2>1 DEF Register!vars, Target, Pending
  <1>6. CASE ~mbs.deleted /\ mbs.inFlight
    <2>1. mbs' = [t EXCEPT !.sendUpdates = TRUE]
      BY <1>1, <1>2, <1>3, <1>6, PushInFlight
    <2>2. mbs.session /\ mbs.ops # << >>
      BY <1>6 DEF PushInv, BeforeDelete, Idle, OneOutstanding
    <2>3. ~mbs'.deleted /\ mbs'.ops = mbs.ops /\ mbs'.status = status
      BY <1>2, <1>3, <1>4, <1>6, <2>1, <2>2 DEF MbsSession
    <2>4. Target(mbs) = mbs.status /\ Target(mbs') = status /\ Pending' = Pending
      BY <1>6, <2>3 DEF Target, Pending
    <2>5. Target(mbs) # DELETE
      BY <1>1, <2>4, StatusAssumption DEF MbsSession, ActivityStatus
    <2>6. QED BY <1>1, <2>2, <2>4, <2>5, PendingIsHead DEF Register!vars, Register!Write
  <1>7. CASE ~mbs.deleted /\ ~mbs.inFlight
    <2>1. /\ mbs.session /\ mbs.ops = << >> /\ mbs.sent = mbs.status
      BY <1>7 DEF PushInv, BeforeDelete, Idle, OneOutstanding
    <2>2. Target(mbs) = mbs.status /\ Target(mbs) # DELETE /\ Pending = NOTHING
      BY <1>1, <1>7, <2>1, StatusAssumption DEF Target, Pending, MbsSession, ActivityStatus
    <2>3. /\ t.session /\ ~t.deleted /\ ~t.inFlight /\ t.status = status
          /\ t.sent = mbs.status /\ t.ops = << >>
      BY <1>3, <1>4, <1>7, <2>1
    <2>4. CASE mbs.status = status
      <3>1. mbs' = t
        BY <1>1, <1>2, <2>3, <2>4, PushFree
      <3>2. Target(mbs') = status /\ Pending' = NOTHING
        BY <1>3, <1>4, <1>7, <2>1, <3>1 DEF Target, Pending
      <3>3. QED BY <1>1, <2>2, <2>4, <3>2 DEF Register!vars
    <2>5. CASE mbs.status # status
      <3>1. mbs' = [t EXCEPT !.sent = status, !.ops = Append(t.ops, status),
                             !.inFlight = TRUE, !.sendUpdates = FALSE]
        BY <1>1, <1>2, <2>3, <2>5, PushFree
      <3>2. Append(t.ops, status) = <<status>>
        BY <2>3
      <3>3. ~mbs'.deleted /\ mbs'.status = status /\ mbs'.ops = <<status>>
        BY <1>2, <2>3, <3>1, <3>2 DEF MbsSession
      <3>4. Target(mbs') = status /\ Pending' = status
        BY <3>3 DEF Target, Pending
      <3>5. QED BY <1>1, <2>2, <2>5, <3>4 DEF Register!Write
    <2>6. QED BY <2>4, <2>5
  <1>8. QED BY <1>5, <1>6, <1>7

\* Deleting or destroying the handle writes the deletion, once.
LEMMA DeleteWrites ==
    ASSUME PushInv, attached, mbs' = DeleteSession(mbs), smf' = smf
    PROVE  Register!Write(DELETE) \/ UNCHANGED Register!vars
  <1>1. mbs \in MbsSession
    BY DEF PushInv, TypeOK
  <1>2. CASE mbs.deleted
    <2>1. mbs' = IF mbs.session THEN [mbs EXCEPT !.inFlight = TRUE, !.sendUpdates = FALSE]
                                ELSE mbs
      BY <1>1, <1>2, DeleteAgain DEF PushInv, AfterDelete
    <2>2. mbs'.deleted /\ mbs'.ops = mbs.ops
      BY <1>1, <1>2, <2>1 DEF MbsSession
    <2>3. QED BY <1>2, <2>2 DEF Register!vars, Target, Pending
  <1>3. CASE ~mbs.deleted
    <2>1. BeforeDelete /\ mbs.session /\ mbs.sent # DELETE
      BY <1>3, StatusAssumption DEF PushInv, BeforeDelete, ActivityStatus
    <2>2. mbs' = [mbs EXCEPT !.deleted = TRUE, !.sent = DELETE, !.ops = Append(mbs.ops, DELETE),
                             !.inFlight = TRUE, !.sendUpdates = FALSE]
      BY <1>1, <2>1, DeleteFirst
    <2>3. mbs'.deleted /\ mbs'.ops = Append(mbs.ops, DELETE)
      BY <1>1, <2>2 DEF MbsSession
    <2>4. Target(mbs) = mbs.status /\ Target(mbs) # DELETE /\ Target(mbs') = DELETE
      BY <1>1, <1>3, <2>3, StatusAssumption DEF Target, MbsSession, ActivityStatus
    <2>5. CASE mbs.ops = << >>
      <3>1. mbs'.ops = <<DELETE>>
        BY <2>3, <2>5
      <3>2. Pending = NOTHING /\ Pending' = DELETE
        BY <2>5, <3>1 DEF Pending
      <3>3. QED BY <2>4, <3>2 DEF Register!Write
    <2>6. CASE mbs.ops # << >>
      <3>1. mbs.ops \in Seq(MbsRequest) /\ DELETE \in MbsRequest
        BY <1>1 DEF MbsSession, MbsRequest
      <3>2. mbs'.ops # << >> /\ Head(mbs'.ops) = Head(mbs.ops)
        BY <2>3, <2>6, <3>1
      <3>3. Pending' = Pending
        BY <2>6, <3>2 DEF Pending
      <3>4. QED BY <2>4, <2>6, <3>3, PendingIsHead DEF Register!Write
    <2>7. QED BY <2>5, <2>6
  <1>4. QED BY <1>2, <1>3

\* The callback of mbsSessionCallback, or the answer to a destroyed object,
\* answers the register.
LEMMA AnswerAnswers ==
    ASSUME PushInv, NEW ok \in BOOLEAN, Answer(ok)
    PROVE  Register!Answer(ok)
  <1> DEFINE done == ok /\ Head(mbs.ops) = DELETE
             a == [mbs EXCEPT !.ops = Tail(mbs.ops), !.inFlight = FALSE,
                              !.session = mbs.session /\ ~done]
             b == [a EXCEPT !.sendUpdates = FALSE]
  <1>1. /\ mbs \in MbsSession /\ mbs.ops # << >> /\ mbs.ops \in Seq(MbsRequest)
        /\ Tail(mbs.ops) \in Seq(MbsRequest)
    BY DEF PushInv, TypeOK, Answer, MbsSession
  <1>2. /\ Pending = mbs.ops[1] /\ Pending # NOTHING /\ Pending = Head(mbs.ops)
        /\ smf' = IF ok THEN Pending ELSE smf
    BY <1>1, PendingIsHead DEF Answer, Pending
  <1>3. /\ a \in MbsSession /\ a.ops = Tail(mbs.ops) /\ ~a.inFlight
        /\ a.session = (mbs.session /\ ~done) /\ a.deleted = mbs.deleted
        /\ a.sent = mbs.sent /\ a.status = mbs.status /\ a.sendUpdates = mbs.sendUpdates
    BY <1>1 DEF MbsSession
  <1>4. /\ b \in MbsSession /\ b.ops = Tail(mbs.ops) /\ ~b.inFlight /\ b.session = a.session
        /\ b.deleted = mbs.deleted /\ b.sent = mbs.sent /\ b.status = mbs.status
    BY <1>3 DEF MbsSession
  <1>5. mbs' = IF attached THEN (IF a.sendUpdates THEN PushChanges(b) ELSE a)
               ELSE [mbs EXCEPT !.ops = Tail(mbs.ops)]
    BY DEF Answer, MbsSessionCallback
  <1> HIDE DEF a, b, done
  <1>6. CASE ~mbs.deleted
    <2>1. /\ attached /\ mbs.session /\ Len(mbs.ops) = 1 /\ mbs.ops[1] = mbs.sent
          /\ mbs.sent # DELETE /\ (mbs.sent # mbs.status => mbs.sendUpdates)
      BY <1>1, <1>6, StatusAssumption
         DEF PushInv, BeforeDelete, Idle, OneOutstanding, ActivityStatus
    <2>2. Tail(mbs.ops) = << >>
      <3>1. Len(Tail(mbs.ops)) = 0
        BY <1>1, <2>1
      <3>2. QED BY <1>1, <3>1, EmptySeq
    <2>3. Target(mbs) = mbs.status /\ Pending = mbs.sent
      BY <1>2, <1>6, <2>1 DEF Target
    <2>4. ~done
      BY <1>2, <2>1, <2>3 DEF done
    <2>5. b.session /\ ~b.deleted /\ b.ops = << >>
      BY <1>3, <1>4, <1>6, <2>1, <2>2, <2>4
    <2>6. CASE mbs.sent # mbs.status
      <3>1. mbs' = [b EXCEPT !.sent = b.status, !.ops = Append(b.ops, b.status),
                             !.inFlight = TRUE, !.sendUpdates = FALSE]
        BY <1>3, <1>4, <1>5, <2>1, <2>5, <2>6, PushFree
      <3>2. b.status = mbs.status /\ mbs.status \in MbsRequest
        BY <1>1, <1>4 DEF MbsSession, MbsRequest
      <3>3. Append(b.ops, b.status) = <<mbs.status>>
        BY <2>5, <3>2
      <3>4. ~mbs'.deleted /\ mbs'.status = mbs.status /\ mbs'.ops = <<mbs.status>>
        BY <1>4, <2>5, <3>1, <3>3 DEF MbsSession
      <3>5. Target(mbs') = Target(mbs) /\ Pending' = mbs.status
        BY <2>3, <3>4 DEF Target, Pending
      <3>6. QED BY <1>2, <2>3, <2>6, <3>5 DEF Register!Answer
    <2>7. CASE mbs.sent = mbs.status
      <3>1. mbs' = a \/ mbs' = b
        BY <1>4, <1>5, <2>1, <2>5, <2>7, PushFree
      <3>2. ~mbs'.deleted /\ mbs'.status = mbs.status /\ mbs'.ops = << >>
        BY <1>3, <1>4, <1>6, <2>2, <3>1
      <3>3. Target(mbs') = Target(mbs) /\ Pending' = NOTHING
        BY <2>3, <3>2 DEF Target, Pending
      <3>4. QED BY <1>2, <2>3, <2>7, <3>3 DEF Register!Answer
    <2>8. QED BY <2>6, <2>7
  <1>7. CASE mbs.deleted
    <2>1. mbs.sent = DELETE
      BY <1>7 DEF PushInv, AfterDelete
    <2>2. PushChanges(b) = b
      BY <1>4, <1>7, <2>1, PushNothing
    <2>3. mbs'.deleted /\ mbs'.ops = Tail(mbs.ops)
      BY <1>1, <1>3, <1>4, <1>5, <1>7, <2>2 DEF MbsSession
    <2>4. Target(mbs) = DELETE /\ Target(mbs') = DELETE
      BY <1>7, <2>3 DEF Target
    <2>5. CASE Len(mbs.ops) = 1
      <3>1. mbs.ops[1] = DELETE
        BY <1>1, <1>7, <2>5 DEF PushInv, AfterDelete
      <3>2. Len(Tail(mbs.ops)) = 0
        BY <1>1, <2>5
      <3>3. Tail(mbs.ops) = << >>
        BY <1>1, <3>2, EmptySeq
      <3>4. Pending' = NOTHING
        BY <2>3, <3>3 DEF Pending
      <3>5. QED BY <1>2, <2>4, <3>1, <3>4 DEF Register!Answer
    <2>6. CASE Len(mbs.ops) # 1
      <3>1. Len(mbs.ops) = 2 /\ mbs.ops[1] # DELETE /\ mbs.ops[2] = DELETE
        BY <1>1, <1>7, <2>6 DEF PushInv, AfterDelete
      <3>2. Len(Tail(mbs.ops)) = 1 /\ Tail(mbs.ops)[1] = DELETE
        BY <1>1, <3>1
      <3>3. Tail(mbs.ops) # << >>
        BY <1>1, <3>2, OneIsSome
      <3>4. Tail(mbs.ops) # << >> /\ Head(Tail(mbs.ops)) = DELETE
        BY <1>1, <3>2, <3>3
      <3>5. Pending' = DELETE
        BY <2>3, <3>4 DEF Pending
      <3>6. QED BY <1>2, <2>4, <3>1, <3>5 DEF Register!Answer
    <2>7. QED BY <2>5, <2>6
  <1>8. QED BY <1>6, <1>7

\* Every step of the handle is a step of the register, or not seen.
LEMMA NextRegister == PushInv /\ [Next]_vars => [Register!Next]_(Register!vars)
  <1> SUFFICES ASSUME PushInv, [Next]_vars PROVE [Register!Next]_(Register!vars)
    OBVIOUS
  <1>1. ASSUME NEW status \in ActivityStatus, SendActivityStatus(status)
        PROVE  [Register!Next]_(Register!vars)
    BY <1>1, SendWrites DEF Register!Next
  <1>2. CASE Delete
    BY <1>2, DeleteWrites DEF Delete, Register!Next
  <1>3. CASE Destroy
    BY <1>3, DeleteWrites DEF Destroy, Register!Next
  <1>4. ASSUME NEW ok \in BOOLEAN, Answer(ok) PROVE [Register!Next]_(Register!vars)
    BY <1>4, AnswerAnswers DEF Register!Next
  <1>5. CASE UNCHANGED vars
    BY <1>5 DEF vars, Register!vars, Pending, Target
  <1>6. QED BY <1>1, <1>2, <1>3, <1>4, <1>5 DEF Next

\* MBSMFMBSSession, driven at any moment and answered in any way, behaves as
\* the register that MbsRegister specifies.
THEOREM PushImplementsRegister == Spec => ImplementsRegister
  <1>1. QED BY InitRegister, NextRegister, PushInvariant, PTL
            DEF Spec, ImplementsRegister, Register!Spec

(***************************************************************************)
(* ActivePeriods.                                                          *)
(***************************************************************************)

\* A set of naturals has a least element.
LEMMA LeastNat ==
    ASSUME NEW T, T \subseteq Nat, T # {}
    PROVE \E n \in T : \A m \in T : n <= m
  <1>1. PICK R : R = OpToRel(<, Nat)
    OBVIOUS
  <1>2. IsWellFoundedOn(R, Nat)
    BY <1>1, NatLessThanWellFounded
  <1>3. \A x, y \in Nat : x < y => <<x, y>> \in R
    BY <1>1 DEF OpToRel
  <1>4. \E x \in T : \A y \in T : ~ (<<y, x>> \in R)
    BY <1>2, WFMin, Zenon
  <1>5. PICK n \in T : \A m \in T : <<m, n>> \notin R
    BY <1>4
  <1>6. ASSUME NEW m \in T PROVE n <= m
    <2>1. m \in Nat /\ n \in Nat
      OBVIOUS
    <2>2. <<m, n>> \notin R
      BY <1>5
    <2>3. QED BY <1>3, <2>1, <2>2
  <1>7. QED BY <1>6

LEMMA MinIs ==
    ASSUME NEW T, T \subseteq Nat, T # {}
    PROVE  Min(T) \in T /\ \A y \in T : Min(T) <= y
  <1>1. \E x \in T : \A y \in T : x <= y
    BY LeastNat
  <1>2. QED BY <1>1 DEF Min

-----------------------------------------------------------------------------
(* Windows.                                                                *)

\* Windows that end after they start, with their versions, as a list.
WindowList == {list \in UNION {[1..n -> [start: Time, end: Time, version: Nat]] : n \in Nat} :
                  \A i \in DOMAIN list : list[i].start < list[i].end}

SortedByStart(list) == \A i, j \in DOMAIN list : i < j => list[i].start <= list[j].start

LEMMA WindowTimes ==
    ASSUME NEW list \in WindowList
    PROVE  /\ DOMAIN list \subseteq Nat
           /\ \A i \in DOMAIN list : /\ list[i].start \in Nat /\ list[i].end \in Nat
                                     /\ list[i].start < list[i].end
  <1>1. PICK n \in Nat : list \in [1..n -> [start: Time, end: Time, version: Nat]]
    BY DEF WindowList
  <1>2. Time \subseteq Nat
    BY ScheduleAssumption DEF Time
  <1>3. DOMAIN list = 1..n
    BY <1>1
  <1>4. ASSUME NEW i \in DOMAIN list
        PROVE  list[i].start \in Nat /\ list[i].end \in Nat /\ list[i].start < list[i].end
    <2>1. list[i] \in [start: Time, end: Time, version: Nat]
      BY <1>1, <1>3
    <2>2. list[i].start < list[i].end
      BY DEF WindowList
    <2>3. QED BY <1>2, <2>1, <2>2
  <1>5. QED BY <1>3, <1>4

\* The first window that is not finished.
LEMMA FirstOpen ==
    ASSUME NEW list \in WindowList, NEW t \in Int, Open(list, t) # {}
    PROVE  LET f == Min(Open(list, t))
           IN  /\ f \in DOMAIN list /\ f \in Nat /\ list[f].end > t
               /\ \A i \in DOMAIN list : list[i].end > t => f <= i
  <1>1. Open(list, t) \subseteq Nat
    BY WindowTimes DEF Open
  <1>2. QED BY <1>1, MinIs DEF Open

\* What the first unfinished window says stays so up to the next transition.
LEMMA WindowsSteady ==
    ASSUME NEW list \in WindowList, NEW t0 \in Nat, NEW t \in Nat, t0 <= t,
           \A d \in WindowsTransition(list, t0) : t < d
    PROVE  WindowsState(list, t) = WindowsState(list, t0)
  <1>1. Est \in Nat
    BY ScheduleAssumption
  <1>2. Open(list, t) \subseteq Open(list, t0)
    BY WindowTimes DEF Open
  <1>3. CASE Open(list, t0) = {}
    BY <1>2, <1>3 DEF WindowsState
  <1>4. CASE Open(list, t0) # {}
    <2> DEFINE f == Min(Open(list, t0))
    <2>1. /\ f \in DOMAIN list /\ f \in Nat /\ list[f].end > t0
          /\ \A i \in DOMAIN list : list[i].end > t0 => f <= i
      BY <1>4, FirstOpen
    <2>2. list[f].start \in Nat /\ list[f].end \in Nat /\ list[f].start < list[f].end
      BY <2>1, WindowTimes
    <2> HIDE DEF f
    <2>3. WindowsTransition(list, t0) =
            IF list[f].start <= t0 THEN {list[f].end}
            ELSE IF list[f].start - Est <= t0 THEN {list[f].start} ELSE {list[f].start - Est}
      BY <1>4 DEF WindowsTransition, f
    <2>4. t < list[f].end
      BY <1>1, <2>2, <2>3
    <2>5. f \in Open(list, t)
      BY <2>1, <2>4 DEF Open
    <2>6. Min(Open(list, t)) = f
      <3> DEFINE g == Min(Open(list, t))
      <3>1. /\ g \in DOMAIN list /\ g \in Nat /\ list[g].end > t
            /\ \A i \in DOMAIN list : list[i].end > t => g <= i
        BY <2>5, FirstOpen
      <3> HIDE DEF g
      <3>2. list[g].end \in Nat
        BY <3>1, WindowTimes
      <3>3. f <= g /\ g <= f
        BY <2>1, <2>2, <2>4, <3>1, <3>2
      <3>4. QED BY <2>1, <3>1, <3>3 DEF g
    <2>7. WindowsState(list, t0) =
            IF list[f].start <= t0 THEN "ACTIVE"
            ELSE IF list[f].start - Est <= t0 THEN "ESTABLISHED" ELSE "INACTIVE"
      BY <1>4 DEF WindowsState, f
    <2>8. WindowsState(list, t) =
            IF list[f].start <= t THEN "ACTIVE"
            ELSE IF list[f].start - Est <= t THEN "ESTABLISHED" ELSE "INACTIVE"
      BY <2>5, <2>6 DEF WindowsState
    <2>9. QED BY <1>1, <2>2, <2>3, <2>7, <2>8
  <1>5. QED BY <1>3, <1>4

\* In a list sorted by start the first unfinished window decides.
LEMMA WindowsMeant ==
    ASSUME NEW s, s.kind = "windows", s.list \in WindowList, SortedByStart(s.list),
           NEW t \in Nat
    PROVE  WindowsState(s.list, t) = Meaning(s, t)
  <1> DEFINE list == s.list
  <1>1. Est \in Nat /\ list \in WindowList /\ SortedByStart(list)
    BY ScheduleAssumption
  <1>2. \A i \in DOMAIN list : list[i].start \in Nat /\ list[i].end \in Nat
                               /\ list[i].start < list[i].end
    BY <1>1, WindowTimes
  <1>3. DOMAIN list \subseteq Nat
    BY <1>1, WindowTimes
  <1>4. Occurrences(s, t) = {<<list[i].start, list[i].end>> : i \in DOMAIN list}
    BY DEF Occurrences
  <1> HIDE DEF list
  <1>5. (\E w \in Occurrences(s, t) : w[1] <= t /\ t < w[2])
        <=> \E i \in DOMAIN list : list[i].start <= t /\ t < list[i].end
    <2>1. \A i \in DOMAIN list : <<list[i].start, list[i].end>> \in Occurrences(s, t)
      BY <1>4
    <2>2. \A w \in Occurrences(s, t) :
             \E i \in DOMAIN list : w[1] = list[i].start /\ w[2] = list[i].end
      BY <1>4
    <2>3. QED BY <2>1, <2>2
  <1>6. (\E w \in Occurrences(s, t) : w[1] - Est <= t /\ t < w[1])
        <=> \E i \in DOMAIN list : list[i].start - Est <= t /\ t < list[i].start
    <2>1. \A i \in DOMAIN list : <<list[i].start, list[i].end>> \in Occurrences(s, t)
      BY <1>4
    <2>2. \A w \in Occurrences(s, t) :
             \E i \in DOMAIN list : w[1] = list[i].start /\ w[2] = list[i].end
      BY <1>4
    <2>3. QED BY <2>1, <2>2
  <1>7. CASE Open(list, t) = {}
    <2>1. \A i \in DOMAIN list : list[i].end <= t
      BY <1>2, <1>7 DEF Open
    <2>2. ~(\E i \in DOMAIN list : list[i].start <= t /\ t < list[i].end)
      BY <1>2, <2>1
    <2>3. ~(\E i \in DOMAIN list : list[i].start - Est <= t /\ t < list[i].start)
      BY <1>2, <2>1
    <2>4. Meaning(s, t) = "INACTIVE"
      BY <1>5, <1>6, <2>2, <2>3 DEF Meaning
    <2>5. QED BY <1>7, <2>4 DEF WindowsState, list
  <1>8. CASE Open(list, t) # {}
    <2> DEFINE f == Min(Open(list, t))
    <2>1. /\ f \in DOMAIN list /\ f \in Nat /\ list[f].end > t
          /\ \A i \in DOMAIN list : list[i].end > t => f <= i
      BY <1>1, <1>8, FirstOpen
    <2>2. WindowsState(list, t) =
            IF list[f].start <= t THEN "ACTIVE"
            ELSE IF list[f].start - Est <= t THEN "ESTABLISHED" ELSE "INACTIVE"
      BY <1>8 DEF WindowsState
    <2> HIDE DEF f
    <2>3. \A i \in DOMAIN list : list[i].end > t => list[f].start <= list[i].start
      <3>1. SUFFICES ASSUME NEW i \in DOMAIN list, list[i].end > t
                     PROVE list[f].start <= list[i].start
        OBVIOUS
      <3>2. f <= i /\ i \in Nat
        BY <1>3, <2>1, <3>1
      <3>3. CASE f = i
        BY <1>2, <3>3
      <3>4. CASE f < i
        BY <1>1, <2>1, <3>4 DEF SortedByStart
      <3>5. QED BY <2>1, <3>2, <3>3, <3>4
    <2>4. (\E i \in DOMAIN list : list[i].start <= t /\ t < list[i].end)
          <=> list[f].start <= t
      <3>1. ASSUME NEW i \in DOMAIN list, list[i].start <= t, t < list[i].end
            PROVE  list[f].start <= t
        <4>1. list[f].start <= list[i].start
          BY <1>2, <2>3, <3>1
        <4>2. QED BY <1>2, <2>1, <3>1, <4>1
      <3>2. QED BY <1>2, <2>1, <3>1
    <2>5. ASSUME ~(list[f].start <= t)
          PROVE  (\E i \in DOMAIN list : list[i].start - Est <= t /\ t < list[i].start)
                 <=> list[f].start - Est <= t
      <3>1. ASSUME NEW i \in DOMAIN list, list[i].start - Est <= t, t < list[i].start
            PROVE  list[f].start - Est <= t
        <4>1. list[i].end > t
          BY <1>2, <3>1
        <4>2. list[f].start <= list[i].start
          BY <2>3, <4>1
        <4>3. QED BY <1>1, <1>2, <2>1, <3>1, <4>2
      <3>2. list[f].start \in Nat /\ t < list[f].start
        BY <1>2, <2>1, <2>5
      <3>3. QED BY <2>1, <3>1, <3>2
    <2>6. QED BY <1>5, <1>6, <2>2, <2>4, <2>5 DEF Meaning, list
  <1>9. QED BY <1>7, <1>8

-----------------------------------------------------------------------------
(* Repetition rules.                                                       *)

RepRule == [kind: {"rule"}, start: Time, dur: Nat, rep: Nat \ {0}, version: Nat]

LEMMA DivIs ==
    ASSUME NEW a \in Int, NEW r \in Nat \ {0}
    PROVE  /\ a \div r \in Int /\ a % r \in 0..(r - 1)
           /\ a = r * (a \div r) + (a % r)
  OBVIOUS

LEMMA TimesIsMonotonic ==
    ASSUME NEW r \in Nat, NEW a \in Int, NEW b \in Int, a <= b
    PROVE  r * a \in Int /\ r * b \in Int /\ r * a <= r * b
  OBVIOUS

LEMMA TimesReflects ==
    ASSUME NEW r \in Nat, NEW a \in Int, NEW b \in Int, r * a < r * b
    PROVE  a < b
  <1>1. SUFFICES ASSUME b <= a PROVE FALSE
    OBVIOUS
  <1>2. r * b <= r * a /\ r * a \in Int /\ r * b \in Int
    BY <1>1, TimesIsMonotonic
  <1>3. QED BY <1>2

LEMMA DivIsUnique ==
    ASSUME NEW a \in Int, NEW r \in Nat \ {0}, NEW q \in Int,
           r * q <= a, a < r * q + r
    PROVE  a \div r = q /\ a % r = a - r * q
  <1> DEFINE p == a \div r
             o == a % r
  <1>1. p \in Int /\ o \in 0..(r - 1) /\ a = r * p + o
    BY DivIs
  <1> HIDE DEF p, o
  <1>2. /\ r * p \in Int /\ r * q \in Int
        /\ r * (p + 1) = r * p + r /\ r * (q + 1) = r * q + r
    BY <1>1
  <1>3. p < q + 1 /\ q < p + 1
    BY <1>1, <1>2, TimesReflects
  <1>4. p = q
    BY <1>1, <1>3
  <1>5. QED BY <1>1, <1>2, <1>4 DEF p, o

\* The state stays so up to the next transition.
LEMMA RuleSteady ==
    ASSUME NEW s \in RepRule, NEW t0 \in Nat, NEW t \in Nat, t0 <= t,
           \A d \in RuleTransition(s, t0) : t < d
    PROVE  RuleState(s, t) = RuleState(s, t0)
  <1>1. Est \in Nat /\ s.start \in Nat /\ s.dur \in Nat /\ s.rep \in Nat \ {0}
    BY ScheduleAssumption DEF RepRule, Time
  <1> DEFINE b == s.start
             r == s.rep
             q == (t0 - b) \div r
             o == (t0 - b) % r
             o2 == (t - b) % r
  <1>2. /\ q \in Int /\ o \in 0..(r - 1) /\ t0 - b = r * q + o /\ r * q \in Int
        /\ o2 \in 0..(r - 1)
    <2>1. t0 - b \in Int /\ t - b \in Int /\ r \in Nat \ {0}
      BY <1>1
    <2> HIDE DEF b, r
    <2>2. /\ q \in Int /\ o \in 0..(r - 1) /\ t0 - b = r * q + o
          /\ o2 \in 0..(r - 1)
      BY <2>1, DivIs
    <2> HIDE DEF q, o, o2
    <2>3. QED BY <2>1, <2>2
  <1>3. RuleState(s, t0) =
          IF t0 - b < -Est THEN "INACTIVE" ELSE IF t0 - b < 0 THEN "ESTABLISHED"
          ELSE IF o < s.dur THEN "ACTIVE" ELSE IF o < r - Est THEN "INACTIVE" ELSE "ESTABLISHED"
    BY DEF RuleState
  <1>4. RuleState(s, t) =
          IF t - b < -Est THEN "INACTIVE" ELSE IF t - b < 0 THEN "ESTABLISHED"
          ELSE IF o2 < s.dur THEN "ACTIVE" ELSE IF o2 < r - Est THEN "INACTIVE" ELSE "ESTABLISHED"
    BY DEF RuleState
  <1>5. RuleTransition(s, t0) =
          IF t0 - b < -Est THEN {b - Est} ELSE IF t0 - b < 0 THEN {b}
          ELSE IF o < s.dur THEN {b + r * q + s.dur}
          ELSE IF o < r - Est THEN {b + r * q + r - Est} ELSE {b + r * q + r}
    BY DEF RuleTransition
  <1>6. ASSUME t - b < r * q + r PROVE o2 = (t - b) - r * q
    <2>1. r * q <= t - b /\ t - b \in Int /\ r \in Nat \ {0} /\ q \in Int
      BY <1>1, <1>2
    <2> HIDE DEF q
    <2>2. QED BY <1>6, <2>1, DivIsUnique
  <1> DEFINE m == r * q
  <1>7. m \in Int /\ t0 - b = m + o /\ (t - b < m + r => o2 = (t - b) - m)
    BY <1>2, <1>6
  <1>8. b \in Nat /\ r \in Nat \ {0} /\ o \in 0..(r - 1) /\ o2 \in 0..(r - 1)
    BY <1>1, <1>2
  <1>9. IF t0 - b < -Est THEN t < b - Est ELSE IF t0 - b < 0 THEN t < b
        ELSE IF o < s.dur THEN t < b + m + s.dur
        ELSE IF o < r - Est THEN t < b + m + r - Est ELSE t < b + m + r
    <2> HIDE DEF b, r, q, o
    <2>1. QED BY <1>5
  <1> HIDE DEF b, r, q, o, o2, m
  <1>10. CASE t0 - b < -Est
    BY <1>1, <1>3, <1>4, <1>8, <1>9, <1>10
  <1>11. CASE ~(t0 - b < -Est) /\ t0 - b < 0
    BY <1>1, <1>3, <1>4, <1>8, <1>9, <1>11
  <1>12. CASE ~(t0 - b < 0) /\ o < s.dur
    <2>1. t < b + m + s.dur
      BY <1>1, <1>8, <1>9, <1>12
    <2>2. ~(t - b < 0) /\ o2 < s.dur
      BY <1>1, <1>7, <1>8, <1>12, <2>1
    <2>3. QED BY <1>1, <1>3, <1>4, <1>8, <1>12, <2>2
  <1>13. CASE ~(t0 - b < 0) /\ ~(o < s.dur) /\ o < r - Est
    <2>1. t < b + m + r - Est
      BY <1>1, <1>8, <1>9, <1>13
    <2>2. ~(t - b < 0) /\ ~(o2 < s.dur) /\ o2 < r - Est
      BY <1>1, <1>7, <1>8, <1>13, <2>1
    <2>3. QED BY <1>1, <1>3, <1>4, <1>8, <1>13, <2>2
  <1>14. CASE ~(t0 - b < 0) /\ ~(o < s.dur) /\ ~(o < r - Est)
    <2>1. t < b + m + r
      BY <1>1, <1>8, <1>9, <1>14
    <2>2. ~(t - b < 0) /\ ~(o2 < s.dur) /\ ~(o2 < r - Est)
      BY <1>1, <1>7, <1>8, <1>14, <2>1
    <2>3. QED BY <1>1, <1>3, <1>4, <1>8, <1>14, <2>2
  <1>15. QED BY <1>10, <1>11, <1>12, <1>13, <1>14

\* The place in one interval tells whether any occurrence is on, or close.
LEMMA RuleMeant ==
    ASSUME NEW s \in RepRule, NEW t \in Nat
    PROVE  RuleState(s, t) = Meaning(s, t)
  <1> DEFINE b == s.start
             r == s.rep
             q == (t - b) \div r
             o == (t - b) % r
  <1>1. Est \in Nat /\ b \in Nat /\ s.dur \in Nat /\ r \in Nat \ {0} /\ s.kind = "rule"
    BY ScheduleAssumption DEF RepRule, Time
  <1>2. q \in Int /\ o \in 0..(r - 1) /\ t - b = r * q + o /\ r * q \in Int
    <2>1. t - b \in Int /\ r \in Nat \ {0}
      BY <1>1
    <2> HIDE DEF b, r
    <2>2. q \in Int /\ o \in 0..(r - 1) /\ t - b = r * q + o
      BY <2>1, DivIs
    <2> HIDE DEF q, o
    <2>3. QED BY <2>1, <2>2
  <1>3. RuleState(s, t) =
          IF t - b < -Est THEN "INACTIVE" ELSE IF t - b < 0 THEN "ESTABLISHED"
          ELSE IF o < s.dur THEN "ACTIVE" ELSE IF o < r - Est THEN "INACTIVE" ELSE "ESTABLISHED"
    BY DEF RuleState
  <1> DEFINE On == \E k \in 0..(t + Est) : b + r * k <= t /\ t < b + r * k + s.dur
             Near == \E k \in 0..(t + Est) : (b + r * k) - Est <= t /\ t < b + r * k
  <1>4. Meaning(s, t) = IF On THEN "ACTIVE" ELSE IF Near THEN "ESTABLISHED" ELSE "INACTIVE"
    <2>1. Occurrences(s, t) = {<<b + r * k, b + r * k + s.dur>> : k \in 0..(t + Est)}
      BY <1>1 DEF Occurrences
    <2>2. \A k \in 0..(t + Est) : <<b + r * k, b + r * k + s.dur>> \in Occurrences(s, t)
      BY <2>1
    <2>3. \A w \in Occurrences(s, t) : \E k \in 0..(t + Est) :
             w[1] = b + r * k /\ w[2] = b + r * k + s.dur
      BY <2>1
    <2>4. On <=> \E w \in Occurrences(s, t) : w[1] <= t /\ t < w[2]
      BY <2>2, <2>3
    <2>5. Near <=> \E w \in Occurrences(s, t) : w[1] - Est <= t /\ t < w[1]
      <3>1. ASSUME Near PROVE \E w \in Occurrences(s, t) : w[1] - Est <= t /\ t < w[1]
        <4>1. PICK k \in 0..(t + Est) : (b + r * k) - Est <= t /\ t < b + r * k
          BY <3>1
        <4> DEFINE x == b + r * k
                   w == <<x, x + s.dur>>
        <4>2. w \in Occurrences(s, t) /\ w[1] = x
          BY <2>2
        <4>3. x - Est <= t /\ t < x
          BY <4>1
        <4> HIDE DEF w, x
        <4>4. QED BY <4>2, <4>3
      <3>2. ASSUME NEW w \in Occurrences(s, t), w[1] - Est <= t, t < w[1] PROVE Near
        <4>1. PICK k \in 0..(t + Est) : w[1] = b + r * k
          BY <2>3
        <4> DEFINE x == b + r * k
        <4>2. w[1] = x
          BY <4>1
        <4> HIDE DEF x
        <4>3. x - Est <= t /\ t < x
          BY <3>2, <4>2
        <4>4. QED BY <4>3 DEF x
      <3>3. QED BY <3>1, <3>2
    <2> HIDE DEF On, Near
    <2>6. QED BY <2>4, <2>5 DEF Meaning
  <1> HIDE DEF b, r, q, o
  <1>5. ASSUME NEW k \in Nat PROVE r * k \in Nat /\ r * 0 = 0 /\ r * (q + 1) = r * q + r
    BY <1>1, <1>2
  <1>6. On <=> ~(t - b < 0) /\ o < s.dur
    <2>1. ASSUME NEW k \in 0..(t + Est), b + r * k <= t, t < b + r * k + s.dur
          PROVE  ~(t - b < 0) /\ o < s.dur
      <3>1. k \in Nat /\ r * k \in Nat /\ r * (q + 1) = r * q + r
        BY <1>5, <2>1
      <3>2. r * k < r * (q + 1)
        BY <1>1, <1>2, <2>1, <3>1
      <3>3. k < q + 1
        BY <1>1, <1>2, <3>1, <3>2, TimesReflects
      <3>4. r * k <= r * q
        BY <1>1, <1>2, <3>1, <3>3, TimesIsMonotonic
      <3>5. QED BY <1>1, <1>2, <2>1, <3>1, <3>4
    <2>2. ASSUME ~(t - b < 0), o < s.dur PROVE On
      <3>1. q \in Nat /\ q <= t
        <4>1. r * 0 < r * (q + 1)
          BY <1>1, <1>2, <1>5, <2>2
        <4>2. 0 < q + 1
          BY <1>1, <1>2, <4>1, TimesReflects
        <4>3. q <= r * q
          BY <1>1, <1>2, <4>2
        <4>4. QED BY <1>1, <1>2, <4>2, <4>3
      <3>2. q \in 0..(t + Est) /\ b + r * q <= t /\ t < b + r * q + s.dur
        BY <1>1, <1>2, <2>2, <3>1
      <3>3. QED BY <3>2
    <2>3. QED BY <2>1, <2>2
  <1>7. ASSUME t - b < 0 PROVE Near <=> ~(t - b < -Est)
    <2>1. ASSUME NEW k \in 0..(t + Est), (b + r * k) - Est <= t PROVE ~(t - b < -Est)
      BY <1>1, <1>5, <2>1
    <2>2. ASSUME ~(t - b < -Est) PROVE Near
      <3>1. 0 \in 0..(t + Est) /\ (b + r * 0) - Est <= t /\ t < b + r * 0
        BY <1>1, <1>7, <2>2
      <3>2. QED BY <3>1
    <2>3. QED BY <2>1, <2>2
  <1>8. ASSUME ~(t - b < 0) PROVE Near <=> ~(o < r - Est)
    <2>1. ASSUME NEW k \in 0..(t + Est), (b + r * k) - Est <= t, t < b + r * k
          PROVE ~(o < r - Est)
      <3>1. k \in Nat /\ r * k \in Nat /\ r * (q + 1) = r * q + r
        BY <1>5, <2>1
      <3>2. r * q < r * k
        BY <1>1, <1>2, <2>1, <3>1
      <3>3. q + 1 <= k
        BY <1>1, <1>2, <3>1, <3>2, TimesReflects
      <3>4. r * (q + 1) <= r * k
        BY <1>1, <1>2, <3>1, <3>3, TimesIsMonotonic
      <3>5. QED BY <1>1, <1>2, <2>1, <3>1, <3>4
    <2>2. ASSUME ~(o < r - Est) PROVE Near
      <3>1. r * (q + 1) = r * q + r
        BY <1>5
      <3>2. (b + r * (q + 1)) - Est <= t /\ t < b + r * (q + 1)
        BY <1>1, <1>2, <2>2, <3>1
      <3>3. r * 0 < r * (q + 1)
        BY <1>1, <1>2, <1>5, <1>8, <3>1
      <3>4. 0 < q + 1
        BY <1>1, <1>2, <3>3, TimesReflects
      <3>5. q + 1 <= r * (q + 1)
        BY <1>1, <1>2, <3>4
      <3>6. q + 1 \in 0..(t + Est)
        BY <1>1, <1>2, <3>1, <3>2, <3>4, <3>5
      <3>7. QED BY <3>2, <3>6
    <2>3. QED BY <2>1, <2>2
  <1> HIDE DEF On, Near
  <1>9. QED BY <1>1, <1>2, <1>3, <1>4, <1>6, <1>7, <1>8

-----------------------------------------------------------------------------
(* Sorting.                                                                *)

\* How many windows come before one: as many as there are places, no two alike.
LEMMA Ranks ==
    ASSUME NEW n \in Nat, NEW list, DOMAIN list = 1..n, \A i \in 1..n : list[i].start \in Nat
    PROVE  /\ \A i \in 1..n : Cardinality(Earlier(list, i)) \in 0..(n - 1)
           /\ \A i \in 1..n : \A j \in Earlier(list, i) :
                Cardinality(Earlier(list, j)) < Cardinality(Earlier(list, i))
           /\ \A m \in 0..(n - 1) : \E i \in 1..n : Cardinality(Earlier(list, i)) = m
  <1> DEFINE C(i) == Cardinality(Earlier(list, i))
  <1>1. IsFiniteSet(1..n) /\ Cardinality(1..n) = n
    BY FS_Interval
  <1>2. ASSUME NEW i \in 1..n
        PROVE  IsFiniteSet(Earlier(list, i)) /\ C(i) \in Nat /\ C(i) \in 0..(n - 1)
    <2>1. Earlier(list, i) \in SUBSET (1..n) /\ i \notin Earlier(list, i)
      BY DEF Earlier
    <2>2. /\ IsFiniteSet(Earlier(list, i)) /\ C(i) <= n
          /\ n = C(i) => 1..n = Earlier(list, i)
      BY <1>1, <2>1, FS_Subset
    <2>3. C(i) \in Nat
      BY <2>2, FS_CardinalityType
    <2>4. C(i) # n
      BY <2>1, <2>2
    <2>5. QED BY <2>2, <2>3, <2>4
  <1>3. ASSUME NEW i \in 1..n, NEW j \in Earlier(list, i) PROVE C(j) < C(i)
    <2>1. j \in 1..n
      BY DEF Earlier
    <2>2. Earlier(list, j) \in SUBSET Earlier(list, i)
      <3>1. ASSUME NEW k \in Earlier(list, j) PROVE k \in Earlier(list, i)
        <4>1. /\ k \in 1..n /\ k \in Nat /\ j \in Nat /\ i \in Nat
              /\ list[k].start \in Nat /\ list[j].start \in Nat /\ list[i].start \in Nat
          BY <2>1, <3>1 DEF Earlier
        <4>2. list[k].start < list[j].start \/ (list[k].start = list[j].start /\ k < j)
          BY <3>1 DEF Earlier
        <4>3. list[j].start < list[i].start \/ (list[j].start = list[i].start /\ j < i)
          BY <1>3 DEF Earlier
        <4>4. list[k].start < list[i].start \/ (list[k].start = list[i].start /\ k < i)
          BY <4>1, <4>2, <4>3
        <4>5. QED BY <4>1, <4>4 DEF Earlier
      <3>2. QED BY <3>1
    <2>3. j \notin Earlier(list, j)
      BY <2>1 DEF Earlier
    <2>4. C(j) <= C(i) /\ (C(i) = C(j) => Earlier(list, i) = Earlier(list, j))
      BY <1>2, <2>2, FS_Subset
    <2>5. C(i) # C(j)
      BY <2>3, <2>4
    <2>6. QED BY <1>2, <2>1, <2>4, <2>5
  <1>4. ASSUME NEW m \in 0..(n - 1) PROVE \E i \in 1..n : C(i) = m
    <2>1. SUFFICES ASSUME \A i \in 1..n : C(i) # m PROVE FALSE
      OBVIOUS
    <2> DEFINE T == (0..(n - 1)) \ {m}
               f == [i \in 1..n |-> C(i)]
    <2>2. IsFiniteSet(0..(n - 1)) /\ Cardinality(0..(n - 1)) = n
      <3>1. 0 \in Int /\ n - 1 \in Int
        OBVIOUS
      <3>2. /\ IsFiniteSet(0..(n - 1))
            /\ Cardinality(0..(n - 1)) = IF 0 > n - 1 THEN 0 ELSE (n - 1) - 0 + 1
        BY <3>1, FS_Interval
      <3>3. QED BY <3>2
    <2>3. T \in SUBSET (0..(n - 1)) /\ T # 0..(n - 1)
      OBVIOUS
    <2>4. IsFiniteSet(T) /\ Cardinality(T) <= n /\ (n = Cardinality(T) => 0..(n - 1) = T)
      BY <2>2, <2>3, FS_Subset
    <2>5. Cardinality(T) < Cardinality(1..n)
      <3>1. Cardinality(T) \in Nat
        BY <2>4, FS_CardinalityType
      <3>2. QED BY <1>1, <2>3, <2>4, <3>1
    <2>6. f \in [1..n -> T]
      BY <1>2, <2>1
    <2>7. PICK i, j \in 1..n : i # j /\ f[i] = f[j]
      <3> HIDE DEF f, T
      <3>1. QED BY <1>1, <2>4, <2>5, <2>6, FS_PigeonHole
    <2>8. C(i) = C(j) /\ i \in Nat /\ j \in Nat
      BY <2>7
    <2>9. j \in Earlier(list, i) \/ i \in Earlier(list, j)
      BY <2>7, <2>8 DEF Earlier
    <2>10. QED BY <1>2, <1>3, <2>8, <2>9
  <1>5. QED BY <1>2, <1>3, <1>4

\* Two lists that have the same elements.
SameElements(c, list) == /\ \A i \in DOMAIN list : \E m \in DOMAIN c : c[m] = list[i]
                         /\ \A m \in DOMAIN c : \E i \in DOMAIN list : c[m] = list[i]

\* The list sorted has the same windows, in the order of their starts.
LEMMA SortedIs ==
    ASSUME NEW n \in Nat, NEW W, NEW list \in [1..n -> W], \A w \in W : w.start \in Nat
    PROVE  /\ SortByStart(list) \in [1..n -> W]
           /\ SortedByStart(SortByStart(list))
           /\ SameElements(SortByStart(list), list)
  <1> DEFINE C(i) == Cardinality(Earlier(list, i))
             p == [m \in 1..n |-> CHOOSE i \in 1..n : C(i) = m - 1]
  <1>1. DOMAIN list = 1..n /\ \A i \in 1..n : list[i].start \in Nat
    OBVIOUS
  <1>2. /\ \A i \in 1..n : C(i) \in 0..(n - 1)
        /\ \A i \in 1..n : \A j \in Earlier(list, i) : C(j) < C(i)
        /\ \A m \in 0..(n - 1) : \E i \in 1..n : C(i) = m
    BY <1>1, Ranks
  <1>3. ASSUME NEW m \in 1..n PROVE p[m] \in 1..n /\ C(p[m]) = m - 1
    <2>1. m - 1 \in 0..(n - 1)
      OBVIOUS
    <2>2. \E i \in 1..n : C(i) = m - 1
      BY <1>2, <2>1
    <2>3. QED BY <2>2
  <1>4. SortByStart(list) = [m \in 1..n |-> list[p[m]]]
    BY <1>1 DEF SortByStart
  <1> HIDE DEF p
  <1>5. ASSUME NEW i \in 1..n, NEW j \in 1..n, i # j, C(i) = C(j) PROVE FALSE
    <2>1. i \in Nat /\ j \in Nat /\ list[i].start \in Nat /\ list[j].start \in Nat
      BY <1>1
    <2>2. j \in Earlier(list, i) \/ i \in Earlier(list, j)
      BY <1>1, <1>5, <2>1 DEF Earlier
    <2>3. C(i) \in Nat /\ C(j) \in Nat
      BY <1>2
    <2>4. C(i) < C(j) \/ C(j) < C(i)
      BY <1>2, <2>2
    <2>5. QED BY <1>5, <2>3, <2>4
  <1>6. SortedByStart(SortByStart(list))
    <2>1. SUFFICES ASSUME NEW a \in 1..n, NEW b \in 1..n, a < b
                   PROVE  list[p[a]].start <= list[p[b]].start
      BY <1>4 DEF SortedByStart
    <2>2. p[a] \in 1..n /\ p[b] \in 1..n /\ C(p[a]) = a - 1 /\ C(p[b]) = b - 1
      BY <1>3
    <2>3. p[b] \notin Earlier(list, p[a])
      <3>1. SUFFICES ASSUME p[b] \in Earlier(list, p[a]) PROVE FALSE
        OBVIOUS
      <3>2. C(p[b]) < C(p[a])
        BY <1>2, <2>2, <3>1
      <3>3. QED BY <2>1, <2>2, <3>2
    <2>4. QED BY <1>1, <2>2, <2>3 DEF Earlier
  <1>7. ASSUME NEW i \in 1..n PROVE \E m \in 1..n : SortByStart(list)[m] = list[i]
    <2> DEFINE m == C(i) + 1
    <2>1. m \in 1..n /\ m - 1 = C(i)
      BY <1>2
    <2> HIDE DEF m
    <2>2. p[m] = i
      BY <1>3, <1>5, <2>1
    <2>3. QED BY <1>4, <2>1, <2>2
  <1>8. ASSUME NEW m \in 1..n PROVE \E i \in 1..n : SortByStart(list)[m] = list[i]
    BY <1>3, <1>4
  <1>9. DOMAIN SortByStart(list) = 1..n /\ SortByStart(list) \in [1..n -> W]
    BY <1>3, <1>4
  <1>10. SameElements(SortByStart(list), list)
    BY <1>1, <1>7, <1>8, <1>9 DEF SameElements
  <1>11. QED BY <1>6, <1>9, <1>10

-----------------------------------------------------------------------------
(* Schedules.                                                              *)

\* A schedule as the code keeps it.
IsSchedule(s) ==
    \/ s.kind = "always"
    \/ s.kind = "windows" /\ s.list \in WindowList /\ SortedByStart(s.list)
    \/ s \in RepRule

\* Two lists with the same windows, but for the versions.
SameTimes(c, list) ==
    /\ \A i \in DOMAIN list : \E m \in DOMAIN c :
          c[m].start = list[i].start /\ c[m].end = list[i].end
    /\ \A m \in DOMAIN c : \E i \in DOMAIN list :
          c[m].start = list[i].start /\ c[m].end = list[i].end

\* The windows that an AF asks for are kept, sorted, with a version each.
LEMMA ConvertIs ==
    ASSUME NEW n \in Nat, NEW list \in [1..n -> Window], NEW old, IsSchedule(old),
           version \in Nat
    PROVE  LET c == ConvertActPeriods(list, old)
           IN  c \in WindowList /\ SortedByStart(c) /\ SameTimes(c, list)
  <1> DEFINE W == {w \in [start: Time, end: Time, version: Nat] : w.start < w.end}
             ow == OldWindows(old)
             fr == Fresh(list, old)
             V(i) == IF i \in fr THEN version + Cardinality({j \in fr : j < i})
                     ELSE ow[Min(Same(ow, list[i]))].version
             v == [i \in 1..n |-> [start |-> list[i].start, end |-> list[i].end, version |-> V(i)]]
  <1>1. ASSUME NEW i \in 1..n PROVE V(i) \in Nat
    <2>1. fr \subseteq 1..n
      BY DEF Fresh
    <2>2. CASE i \in fr
      <3>1. {j \in fr : j < i} \in SUBSET (1..n)
        BY <2>1
      <3>2. IsFiniteSet(1..n)
        BY FS_Interval
      <3>3. Cardinality({j \in fr : j < i}) \in Nat
        BY <3>1, <3>2, FS_Subset, FS_CardinalityType
      <3>4. QED BY <2>2, <3>3
    <2>3. CASE i \notin fr
      <3>1. Same(ow, list[i]) # {}
        BY <2>3 DEF Fresh
      <3>2. Same(ow, list[i]) \subseteq DOMAIN ow
        BY DEF Same
      <3>3. old.kind = "windows" /\ ow = old.list /\ ow \in WindowList
        <4>1. CASE old.kind = "windows"
          BY <4>1 DEF IsSchedule, OldWindows, RepRule
        <4>2. CASE old.kind # "windows"
          <5>1. ow = << >> /\ DOMAIN ow = {}
            BY <4>2 DEF OldWindows
          <5>2. QED BY <3>1, <3>2, <5>1
        <4>3. QED BY <4>1, <4>2
      <3>4. Same(ow, list[i]) \subseteq Nat
        BY <3>2, <3>3, WindowTimes
      <3>5. Min(Same(ow, list[i])) \in DOMAIN ow
        BY <3>1, <3>2, <3>4, MinIs
      <3>6. \A m \in DOMAIN ow : ow[m].version \in Nat
        <4>1. PICK k \in Nat : ow \in [1..k -> [start: Time, end: Time, version: Nat]]
          BY <3>3 DEF WindowList
        <4>2. QED BY <4>1
      <3>7. QED BY <2>3, <3>5, <3>6
    <2>4. QED BY <2>2, <2>3
  <1>2. v \in [1..n -> W]
    <2>1. ASSUME NEW i \in 1..n
          PROVE [start |-> list[i].start, end |-> list[i].end, version |-> V(i)] \in W
      <3>1. list[i] \in Window
        OBVIOUS
      <3>2. list[i].start \in Time /\ list[i].end \in Time /\ list[i].start < list[i].end
        BY <3>1 DEF Window
      <3> HIDE DEF V
      <3>3. QED BY <1>1, <3>2
    <2>2. QED BY <2>1
  <1>3. ConvertActPeriods(list, old) = SortByStart(v)
    <2>1. DOMAIN list = 1..n
      OBVIOUS
    <2>2. QED BY <2>1 DEF ConvertActPeriods
  <1>4. \A w \in W : w.start \in Nat
    BY ScheduleAssumption DEF Time
  <1>5. \A i \in 1..n : v[i].start = list[i].start /\ v[i].end = list[i].end
    OBVIOUS
  <1> HIDE DEF v
  <1>6. /\ SortByStart(v) \in [1..n -> W] /\ SortedByStart(SortByStart(v))
        /\ \A i \in 1..n : \E m \in 1..n : SortByStart(v)[m] = v[i]
        /\ \A m \in 1..n : \E i \in 1..n : SortByStart(v)[m] = v[i]
    <2>1. v \in [1..n -> W] /\ (\A w \in W : w.start \in Nat) /\ n \in Nat
      BY <1>2, <1>4
    <2> HIDE DEF W, V, fr, ow
    <2>2. SortByStart(v) \in [1..n -> W] /\ SortedByStart(SortByStart(v))
      BY <2>1, SortedIs
    <2>3. SameElements(SortByStart(v), v)
      BY <2>1, SortedIs
    <2>4. DOMAIN SortByStart(v) = 1..n /\ DOMAIN v = 1..n
      BY <2>1, <2>2
    <2>5. QED BY <2>2, <2>3, <2>4 DEF SameElements
  <1> DEFINE c == SortByStart(v)
  <1>7. c \in WindowList
    <2>1. c \in [1..n -> [start: Time, end: Time, version: Nat]]
      BY <1>6
    <2>2. \A m \in DOMAIN c : c[m].start < c[m].end
      BY <1>6
    <2> HIDE DEF c
    <2>3. QED BY <2>1, <2>2 DEF WindowList
  <1>8. DOMAIN c = 1..n
    BY <1>6
  <1>9. SameTimes(c, list)
    <2>1. ASSUME NEW i \in 1..n
          PROVE  \E m \in 1..n : c[m].start = list[i].start /\ c[m].end = list[i].end
      <3>1. PICK m \in 1..n : c[m] = v[i]
        BY <1>6
      <3>2. QED BY <1>5, <3>1
    <2>2. ASSUME NEW m \in 1..n
          PROVE  \E i \in 1..n : c[m].start = list[i].start /\ c[m].end = list[i].end
      <3>1. PICK i \in 1..n : c[m] = v[i]
        BY <1>6
      <3>2. QED BY <1>5, <3>1
    <2>3. DOMAIN list = 1..n
      OBVIOUS
    <2>4. QED BY <1>8, <2>1, <2>2, <2>3 DEF SameTimes
  <1> HIDE DEF c
  <1>10. QED BY <1>3, <1>6, <1>7, <1>9 DEF c

LEMMA RequestIs ==
    ASSUME NEW r \in ScheduleRequest
    PROVE  \/ r.kind = "always"
           \/ /\ r.kind = "windows"
              /\ r = [kind |-> "windows", list |-> r.list]
              /\ \E n \in Nat : r.list \in [1..n -> Window]
           \/ /\ r.kind = "rule" /\ r.start \in Time /\ r.dur \in Nat /\ r.rep \in Nat \ {0}
  <1>1. CASE r \in [kind: {"windows"}, list: UNION {[1..n -> Window] : n \in 1..MaxWindows}]
    <2>1. PICK n \in 1..MaxWindows : r.list \in [1..n -> Window]
      BY <1>1
    <2>2. QED BY <1>1, <2>1
  <1>2. CASE r \in [kind: {"rule"}, start: Time, dur: RuleDurations, rep: RuleIntervals]
    BY <1>2, ScheduleAssumption
  <1>3. CASE r = [kind |-> "always"]
    BY <1>3
  <1>4. QED BY <1>1, <1>2, <1>3 DEF ScheduleRequest

LEMMA NewScheduleIs ==
    ASSUME NEW r \in ScheduleRequest, IsSchedule(sched), version \in Nat
    PROVE  /\ IsSchedule(NewSchedule(r, sched)) /\ NewSchedule(r, sched).kind = r.kind
           /\ VersionsTaken(r, sched) \in Nat
  <1>1. CASE r.kind = "always"
    BY <1>1 DEF NewSchedule, VersionsTaken, IsSchedule
  <1>2. CASE r.kind = "windows"
    <2>1. PICK n \in Nat : r.list \in [1..n -> Window]
      BY <1>2, RequestIs
    <2> DEFINE c == ConvertActPeriods(r.list, sched)
    <2>2. c \in WindowList /\ SortedByStart(c)
      BY <2>1, ConvertIs
    <2> HIDE DEF c
    <2>3. r = [kind |-> "windows", list |-> r.list]
      BY <1>2, RequestIs
    <2>4. NewSchedule(r, sched) = [kind |-> "windows", list |-> c]
      BY <1>2, <2>3 DEF NewSchedule, c
    <2>5. VersionsTaken(r, sched) \in Nat
      <3>1. Fresh(r.list, sched) \in SUBSET (1..n)
        BY <2>1 DEF Fresh
      <3>2. IsFiniteSet(1..n)
        BY FS_Interval
      <3>3. Cardinality(Fresh(r.list, sched)) \in Nat
        BY <3>1, <3>2, FS_Subset, FS_CardinalityType
      <3>4. QED BY <1>2, <3>3 DEF VersionsTaken
    <2>6. QED BY <1>2, <2>2, <2>4, <2>5 DEF IsSchedule
  <1>3. CASE r.kind = "rule"
    <2>1. r.start \in Time /\ r.dur \in Nat /\ r.rep \in Nat \ {0}
      BY <1>3, RequestIs
    <2>2. SameRule(r, sched) => sched.version \in Nat
      BY DEF SameRule, IsSchedule, RepRule
    <2>3. VersionedRule(r, sched) \in RepRule
      BY <2>1, <2>2 DEF VersionedRule, RepRule
    <2>4. NewSchedule(r, sched) = VersionedRule(r, sched)
      BY <1>3 DEF NewSchedule
    <2>5. VersionsTaken(r, sched) \in Nat
      BY <1>3 DEF VersionsTaken
    <2>6. VersionedRule(r, sched).kind = "rule"
      BY DEF VersionedRule
    <2>7. QED BY <1>3, <2>3, <2>4, <2>5, <2>6 DEF IsSchedule
  <1>4. QED BY <1>1, <1>2, <1>3, RequestIs

\* Whatever the schedule, the state it asks for stays so up to the next transition.
LEMMA Steady ==
    ASSUME NEW s, IsSchedule(s), NEW user, NEW t0 \in Nat, NEW t \in Nat, t0 <= t,
           \A d \in NextTransition(s, t0) : t < d
    PROVE  CurrentState(s, user, t) = CurrentState(s, user, t0)
  <1>1. CASE s.kind = "always"
    BY <1>1 DEF CurrentState
  <1>2. CASE s.kind = "windows" /\ s.list \in WindowList
    BY <1>2, WindowsSteady DEF CurrentState, NextTransition
  <1>3. CASE s \in RepRule
    <2>1. s.kind = "rule"
      BY <1>3 DEF RepRule
    <2>2. QED BY <1>3, <2>1, RuleSteady DEF CurrentState, NextTransition
  <1>4. QED BY <1>1, <1>2, <1>3 DEF IsSchedule

LEMMA StateType ==
    ASSUME NEW s, IsSchedule(s), NEW user \in DistSessionState, NEW t
    PROVE  CurrentState(s, user, t) \in DistSessionState
  <1>1. s.kind \in {"always", "windows", "rule"}
    BY DEF IsSchedule, RepRule
  <1>2. /\ WindowsState(s.list, t) \in DistSessionState
        /\ RuleState(s, t) \in DistSessionState
    BY DEF WindowsState, RuleState, DistSessionState
  <1>3. QED BY <1>1, <1>2 DEF CurrentState

LEMMA TransitionType ==
    ASSUME NEW s, IsSchedule(s), NEW t \in Nat
    PROVE  NextTransition(s, t) = {} \/ \E d \in Nat : t < d /\ NextTransition(s, t) = {d}
  <1>1. Est \in Nat
    BY ScheduleAssumption
  <1>2. CASE s.kind = "always"
    BY <1>2 DEF NextTransition
  <1>3. CASE s.kind = "windows" /\ s.list \in WindowList /\ Open(s.list, t) # {}
    <2> DEFINE f == Min(Open(s.list, t))
    <2>1. f \in DOMAIN s.list /\ s.list[f].end > t
      BY <1>3, FirstOpen
    <2>2. s.list[f].start \in Nat /\ s.list[f].end \in Nat
      BY <1>3, <2>1, WindowTimes
    <2>3. NextTransition(s, t) =
            IF s.list[f].start <= t THEN {s.list[f].end}
            ELSE IF s.list[f].start - Est <= t THEN {s.list[f].start}
            ELSE {s.list[f].start - Est}
      BY <1>3 DEF NextTransition, WindowsTransition
    <2> HIDE DEF f
    <2>4. QED BY <1>1, <2>1, <2>2, <2>3
  <1>4. CASE s.kind = "windows" /\ Open(s.list, t) = {}
    BY <1>4 DEF NextTransition, WindowsTransition
  <1>5. CASE s \in RepRule
    <2> DEFINE b == s.start
               r == s.rep
               q == (t - b) \div r
               o == (t - b) % r
               m == r * q
    <2>1. b \in Nat /\ r \in Nat \ {0} /\ s.dur \in Nat /\ s.kind = "rule"
      BY <1>5, ScheduleAssumption DEF RepRule, Time
    <2>2. t - b \in Int
      BY <2>1
    <2>3. NextTransition(s, t) =
            IF t - b < -Est THEN {b - Est} ELSE IF t - b < 0 THEN {b}
            ELSE IF o < s.dur THEN {b + m + s.dur}
            ELSE IF o < r - Est THEN {b + m + r - Est} ELSE {b + m + r}
      BY <2>1 DEF NextTransition, RuleTransition
    <2> HIDE DEF b, r
    <2>4. q \in Int /\ o \in 0..(r - 1) /\ t - b = m + o
      BY <2>1, <2>2, DivIs
    <2> HIDE DEF q, o
    <2>5. m \in Int
      BY <2>1, <2>4
    <2> HIDE DEF m
    <2>6. QED BY <1>1, <2>1, <2>3, <2>4, <2>5
  <1>6. QED BY <1>2, <1>3, <1>4, <1>5 DEF IsSchedule

-----------------------------------------------------------------------------
(* The timer.                                                              *)

\* The state is that of the moment of the first reading of the clock, the timer
\* is for the next transition after the second.
PeriodsInv ==
    /\ now \in Time /\ version \in Nat /\ puts \in 0..MaxPuts
    /\ IsSchedule(sched)
    /\ state \in DistSessionState
    /\ read \in [state: Time, timer: Time] /\ read.state <= read.timer /\ read.timer <= now
    /\ timer = NextTransition(sched, read.timer) /\ started = (timer # {})
    /\ state = CurrentState(sched, state, read.state)

LEMMA PeriodsInit_Inv == PeriodsInit => PeriodsInv
  <1>1. SUFFICES ASSUME PeriodsInit PROVE PeriodsInv
    OBVIOUS
  <1>2. 0 \in Time /\ MaxPuts \in Nat
    BY ScheduleAssumption DEF Time
  <1>3. IsSchedule(sched) /\ sched.kind = "always"
    BY <1>1 DEF PeriodsInit, IsSchedule
  <1>4. read = [state |-> 0, timer |-> 0] /\ now = 0 /\ timer = {} /\ started = FALSE
        /\ version = 1 /\ puts = 0 /\ state = "ACTIVE"
    BY <1>1 DEF PeriodsInit
  <1>5. NextTransition(sched, 0) = {} /\ CurrentState(sched, state, 0) = state
    BY <1>3 DEF NextTransition, CurrentState
  <1>6. read \in [state: Time, timer: Time] /\ read.state = 0 /\ read.timer = 0
    BY <1>2, <1>4
  <1>7. now \in Time /\ version \in Nat /\ puts \in 0..MaxPuts /\ state \in DistSessionState
    BY <1>2, <1>4 DEF DistSessionState
  <1>8. started = (timer # {})
    BY <1>4
  <1>9. timer = NextTransition(sched, read.timer) /\ state = CurrentState(sched, state, read.state)
    BY <1>4, <1>5, <1>6
  <1>10. read.state <= read.timer /\ read.timer <= now
    BY <1>4, <1>6
  <1>11. QED BY <1>3, <1>6, <1>7, <1>8, <1>9, <1>10 DEF PeriodsInv

\* What a handler establishes that sets the state and starts the timer.
LEMMA Determined ==
    ASSUME PeriodsInv, ReadClockTwice, IsSchedule(sched'), NEW user \in DistSessionState,
           state' = CurrentState(sched', user, now), StartTimer(sched')
    PROVE  /\ now' \in Time /\ state' \in DistSessionState
           /\ read' \in [state: Time, timer: Time]
           /\ read'.state <= read'.timer /\ read'.timer <= now'
           /\ timer' = NextTransition(sched', read'.timer) /\ started' = (timer' # {})
           /\ state' = CurrentState(sched', state', read'.state)
  <1>1. Time \subseteq Nat
    BY ScheduleAssumption DEF Time
  <1>2. now \in Nat /\ now' \in Nat /\ now' \in Time /\ now \in Time /\ now <= now'
        /\ read' = [state |-> now, timer |-> now']
    BY <1>1 DEF ReadClockTwice, PeriodsInv
  <1>3. started = (timer # {})
    BY DEF PeriodsInv
  <1>4. timer' = NextTransition(sched', now')
    BY <1>3, <1>2 DEF StartTimer
  <1>5. started' = (timer' # {})
    BY <1>4 DEF StartTimer
  <1>6. state' \in DistSessionState
    BY StateType
  <1>7. state' = CurrentState(sched', state', now)
    <2>1. CASE sched'.kind = "always"
      BY <2>1 DEF CurrentState
    <2>2. CASE sched'.kind # "always"
      <3>1. sched'.kind \in {"windows", "rule"}
        BY <2>2 DEF IsSchedule, RepRule
      <3>2. QED BY <3>1 DEF CurrentState
    <2>3. QED BY <2>1, <2>2
  <1>8. QED BY <1>2, <1>4, <1>5, <1>6, <1>7

LEMMA PeriodsStep == PeriodsInv /\ [PeriodsNext]_periodsVars => PeriodsInv'
  <1>1. SUFFICES ASSUME PeriodsInv, [PeriodsNext]_periodsVars PROVE PeriodsInv'
    OBVIOUS
  <1>2. Time \subseteq Nat /\ MaxTime \in Nat /\ MaxPuts \in Nat
    BY ScheduleAssumption DEF Time
  <1>3. ASSUME NEW r \in ScheduleRequest, NEW user \in DistSessionState, Put(r, user)
        PROVE PeriodsInv'
    <2>1. /\ IsSchedule(NewSchedule(r, sched)) /\ VersionsTaken(r, sched) \in Nat
      BY <1>1, NewScheduleIs DEF PeriodsInv
    <2>2. sched' = NewSchedule(r, sched) /\ version' \in Nat /\ puts' \in 0..MaxPuts
      BY <1>1, <1>2, <1>3, <2>1 DEF Put, PeriodsInv
    <2>3. ReadClockTwice /\ state' = CurrentState(sched', user, now) /\ StartTimer(sched')
      BY <1>3, <2>2 DEF Put
    <2>4. /\ now' \in Time /\ state' \in DistSessionState
          /\ read' \in [state: Time, timer: Time]
          /\ read'.state <= read'.timer /\ read'.timer <= now'
          /\ timer' = NextTransition(sched', read'.timer) /\ started' = (timer' # {})
          /\ state' = CurrentState(sched', state', read'.state)
      BY <1>1, <2>1, <2>2, <2>3, Determined
    <2>5. QED BY <2>1, <2>2, <2>4 DEF PeriodsInv
  <1>4. ASSUME TimerExpires PROVE PeriodsInv'
    <2>1. sched' = sched /\ version' = version /\ puts' = puts /\ state \in DistSessionState
      BY <1>1, <1>4 DEF TimerExpires, PeriodsInv
    <2>2. ReadClockTwice /\ state' = CurrentState(sched', state, now) /\ StartTimer(sched')
      BY <1>4, <2>1 DEF TimerExpires
    <2>3. IsSchedule(sched')
      BY <1>1, <2>1 DEF PeriodsInv
    <2>4. /\ now' \in Time /\ state' \in DistSessionState
          /\ read' \in [state: Time, timer: Time]
          /\ read'.state <= read'.timer /\ read'.timer <= now'
          /\ timer' = NextTransition(sched', read'.timer) /\ started' = (timer' # {})
          /\ state' = CurrentState(sched', state', read'.state)
      BY <1>1, <2>1, <2>2, <2>3, Determined
    <2>5. QED BY <1>1, <2>1, <2>3, <2>4 DEF PeriodsInv
  <1>5. ASSUME Tick PROVE PeriodsInv'
    <2>1. now' = now + 1 /\ now' \in Time /\ now \in Nat /\ read.timer \in Nat
      BY <1>1, <1>2, <1>5 DEF Tick, PeriodsInv, Time
    <2>2. UNCHANGED <<sched, state, timer, started, read, version, puts>>
      BY <1>5 DEF Tick
    <2>3. read'.timer <= now'
      BY <1>1, <2>1, <2>2 DEF PeriodsInv
    <2>4. QED BY <1>1, <2>1, <2>2, <2>3 DEF PeriodsInv
  <1>6. CASE UNCHANGED periodsVars
    BY <1>1, <1>6 DEF PeriodsInv, periodsVars
  <1>7. QED BY <1>1, <1>3, <1>4, <1>5, <1>6 DEF PeriodsNext

\* PeriodsInv is an invariant: the state is that of the last run of a handler, the
\* timer that of the next transition after it, and the schedule is sorted.
THEOREM PeriodsInvariant == PeriodsSpec => []PeriodsInv
  BY PeriodsInit_Inv, PeriodsStep, PTL DEF PeriodsSpec

\* Every variable has its type.
THEOREM PeriodsTypeCorrect == PeriodsSpec => []PeriodsTypeOK
  <1>1. PeriodsInv => PeriodsTypeOK
    <2>1. SUFFICES ASSUME PeriodsInv PROVE PeriodsTypeOK
      OBVIOUS
    <2>2. read.timer \in Nat
      BY <2>1, ScheduleAssumption DEF PeriodsInv, Time
    <2>3. timer = {} \/ \E d \in Nat : timer = {d}
      BY <2>1, <2>2, TransitionType DEF PeriodsInv
    <2>4. timer \subseteq Nat /\ Cardinality(timer) <= 1
      <3>1. Cardinality({}) = 0
        BY FS_EmptySet
      <3>2. \A d \in Nat : Cardinality({d}) = 1
        BY FS_Singleton
      <3>3. QED BY <2>3, <3>1, <3>2
    <2>5. sched.kind \in {"always", "windows", "rule"}
      BY <2>1 DEF PeriodsInv, IsSchedule, RepRule
    <2>6. QED BY <2>1, <2>4, <2>5 DEF PeriodsInv, PeriodsTypeOK
  <1>2. QED BY <1>1, PeriodsInvariant, PTL

\* Whatever list of windows or rule the AF sends, in whatever order and however
\* windows overlap: the state that the code determines from the one unfinished
\* window it looks at, or the place in one interval, is what the schedule means.
THEOREM StatesAreMeant == PeriodsSpec => []StateIsMeant
  <1>1. PeriodsInv => StateIsMeant
    <2>1. SUFFICES ASSUME PeriodsInv, sched.kind # "always"
                   PROVE CurrentState(sched, state, now) = Meaning(sched, now)
      BY DEF StateIsMeant
    <2>2. now \in Nat /\ IsSchedule(sched)
      BY <2>1, ScheduleAssumption DEF PeriodsInv, Time
    <2>3. CASE sched.kind = "windows"
      <3>1. sched.list \in WindowList /\ SortedByStart(sched.list)
        BY <2>2, <2>3 DEF IsSchedule, RepRule
      <3>2. QED BY <2>2, <2>3, <3>1, WindowsMeant DEF CurrentState
    <2>4. CASE sched \in RepRule
      <3>1. sched.kind = "rule"
        BY <2>4 DEF RepRule
      <3>2. QED BY <2>2, <2>4, <3>1, RuleMeant DEF CurrentState
    <2>5. QED BY <2>1, <2>2, <2>3, <2>4 DEF IsSchedule
  <1>2. QED BY <1>1, PeriodsInvariant, PTL

\* As long as the timer is not due, the distribution sessions are in the state that
\* the schedule asks for, unless a transition fell between the two readings of the
\* clock: for every schedule, every late event loop and every PUT.
THEOREM NoTransitionIsMissed == PeriodsSpec => []NoMissedTransition
  <1>1. PeriodsInv => NoMissedTransition
    <2>1. SUFFICES ASSUME PeriodsInv, \A d \in timer : ~(d <= now),
                          \A t \in (read.state + 1)..read.timer :
                              state = CurrentState(sched, state, t)
                   PROVE state = CurrentState(sched, state, now)
      BY DEF NoMissedTransition
    <2>2. /\ now \in Nat /\ read.timer \in Nat /\ read.state \in Nat
          /\ read.timer <= now /\ read.state <= read.timer /\ IsSchedule(sched)
          /\ timer = NextTransition(sched, read.timer)
          /\ state = CurrentState(sched, state, read.state)
      BY <2>1, ScheduleAssumption DEF PeriodsInv, Time
    <2>3. \A d \in NextTransition(sched, read.timer) : now < d
      <3>1. PICK d \in Nat : timer = {} \/ timer = {d}
        BY <2>2, TransitionType
      <3>2. QED BY <2>1, <2>2, <3>1
    <2>4. CurrentState(sched, state, now) = CurrentState(sched, state, read.timer)
      BY <2>2, <2>3, Steady
    <2>5. state = CurrentState(sched, state, read.timer)
      <3>1. CASE read.state = read.timer
        BY <2>2, <3>1
      <3>2. CASE read.state # read.timer
        <4>1. read.timer \in (read.state + 1)..read.timer
          BY <2>2, <3>2
        <4>2. QED BY <2>1, <4>1
      <3>3. QED BY <3>1, <3>2
    <2>6. QED BY <2>4, <2>5
  <1>2. QED BY <1>1, PeriodsInvariant, PTL

\* The state determined for a schedule is what the request means that asked for it:
\* sorting the windows and giving them versions changes nothing.
THEOREM RequestIsMeant ==
    ASSUME NEW r \in ScheduleRequest, r.kind # "always", IsSchedule(sched), version \in Nat,
           NEW user, NEW t \in Nat
    PROVE  CurrentState(NewSchedule(r, sched), user, t) = Meaning(r, t)
  <1> DEFINE s == NewSchedule(r, sched)
  <1>1. IsSchedule(s) /\ s.kind = r.kind
    BY NewScheduleIs
  <1>2. CASE r.kind = "windows"
    <2>1. PICK n \in Nat : r.list \in [1..n -> Window]
      BY <1>2, RequestIs
    <2> DEFINE c == ConvertActPeriods(r.list, sched)
               l == r.list
    <2>2. c \in WindowList /\ SortedByStart(c) /\ SameTimes(c, l)
      BY <2>1, ConvertIs
    <2> HIDE DEF c
    <2>3. r = [kind |-> "windows", list |-> r.list]
      BY <1>2, RequestIs
    <2>4. s.kind = "windows" /\ s.list = c
      BY <1>2, <2>3 DEF NewSchedule, c
    <2>5. Occurrences(s, t) = Occurrences(r, t)
      <3> HIDE DEF s
      <3>1. Occurrences(s, t) = {<<c[i].start, c[i].end>> : i \in DOMAIN c}
        BY <2>4 DEF Occurrences
      <3>2. Occurrences(r, t) = {<<l[i].start, l[i].end>> : i \in DOMAIN l}
        BY <1>2 DEF Occurrences
      <3> HIDE DEF l
      <3>3. ASSUME NEW w \in Occurrences(s, t) PROVE w \in Occurrences(r, t)
        <4>1. PICK m \in DOMAIN c : w = <<c[m].start, c[m].end>>
          BY <3>1
        <4>2. PICK i \in DOMAIN l : c[m].start = l[i].start /\ c[m].end = l[i].end
          BY <2>2 DEF SameTimes
        <4>3. QED BY <3>2, <4>1, <4>2
      <3>4. ASSUME NEW w \in Occurrences(r, t) PROVE w \in Occurrences(s, t)
        <4>1. PICK i \in DOMAIN l : w = <<l[i].start, l[i].end>>
          BY <3>2
        <4>2. PICK m \in DOMAIN c : c[m].start = l[i].start /\ c[m].end = l[i].end
          BY <2>2 DEF SameTimes
        <4>3. QED BY <3>1, <4>1, <4>2
      <3>5. QED BY <3>3, <3>4
    <2>6. Meaning(s, t) = Meaning(r, t)
      BY <2>5 DEF Meaning
    <2>7. WindowsState(s.list, t) = Meaning(s, t)
      <3> HIDE DEF s
      <3>1. QED BY <2>2, <2>4, WindowsMeant
    <2>8. QED BY <2>4, <2>6, <2>7 DEF CurrentState
  <1>3. CASE r.kind = "rule"
    <2>1. s.kind = "rule" /\ s \in RepRule
      BY <1>1, <1>3 DEF IsSchedule
    <2>2. s = VersionedRule(r, sched)
      BY <1>3 DEF NewSchedule
    <2>3. s.start = r.start /\ s.dur = r.dur /\ s.rep = r.rep
      BY <2>2 DEF VersionedRule
    <2> HIDE DEF s
    <2>4. Occurrences(s, t) = Occurrences(r, t)
      BY <1>3, <2>1, <2>3 DEF Occurrences
    <2>5. Meaning(s, t) = Meaning(r, t)
      BY <2>4 DEF Meaning
    <2>6. CurrentState(s, user, t) = Meaning(s, t)
      BY <2>1, RuleMeant DEF CurrentState
    <2>7. QED BY <2>5, <2>6 DEF s
  <1>4. QED BY <1>2, <1>3, RequestIs

(***************************************************************************)
(* NfServers.                                                              *)
(***************************************************************************)
-----------------------------------------------------------------------------
(* Induction from the least element of a set of naturals, and the          *)
(* recursive function of a fold.                                           *)

\* Induction, in a form the provers can use: a set that has 0 and the successor
\* of each element has every natural number.
LEMMA Induct ==
    ASSUME NEW S \in SUBSET Nat, 0 \in S, \A n \in S : n + 1 \in S
    PROVE  S = Nat
  <1>1. SUFFICES ASSUME Nat \ S # {} PROVE FALSE
    OBVIOUS
  <1>2. PICK n \in Nat \ S : \A m \in Nat \ S : n <= m
    BY <1>1, LeastNat
  <1>3. n # 0
    OBVIOUS
  <1>4. n - 1 \in Nat /\ ~(n <= n - 1)
    BY <1>3
  <1>5. n - 1 \in S
    BY <1>2, <1>4
  <1>6. (n - 1) + 1 = n
    OBVIOUS
  <1>7. QED BY <1>5, <1>6

LEMMA MaxIs ==
    ASSUME NEW k \in Nat, NEW s \in SUBSET (1..k), s # {}
    PROVE  /\ Max(s) \in s
           /\ \A y \in s : y <= Max(s)
  <1> DEFINE T == {m \in Nat : \A y \in s : y <= m}
  <1>1. k \in T
    OBVIOUS
  <1>2. PICK m \in T : \A j \in T : m <= j
    BY <1>1, LeastNat
  <1>3. m \in s
    <2>1. SUFFICES ASSUME m \notin s PROVE FALSE
      OBVIOUS
    <2>2. PICK y \in s : TRUE
      OBVIOUS
    <2>3. y \in Nat /\ y >= 1 /\ y <= m
      OBVIOUS
    <2>4. m - 1 \in Nat
      BY <2>3
    <2>5. \A z \in s : z <= m - 1
      BY <2>1
    <2>6. m - 1 \in T
      BY <2>4, <2>5
    <2>7. QED BY <1>2, <2>6
  <1>4. \E x \in s : \A y \in s : x >= y
    BY <1>3
  <1>5. QED BY <1>4 DEF Max

\* The recursion of a fold over the first n elements of a sequence, F taking the
\* result so far and the next position: it goes over the sets of positions.
Recursion(g, n, base, F) ==
    \A p \in SUBSET (1..n) :
        g[p] = IF p = {} THEN base ELSE F[<<g[p \ {Max(p)}], Max(p)>>]

LEMMA FoldExists ==
    ASSUME NEW n \in Nat, NEW A, NEW base \in A, NEW F \in [A \X (1..n) -> A]
    PROVE  \E g \in [SUBSET (1..n) -> A] : Recursion(g, n, base, F)
  <1> DEFINE Is(g, k) == \A p \in SUBSET (1..k) :
                            g[p] = IF p = {} THEN base ELSE F[<<g[p \ {Max(p)}], Max(p)>>]
             K == {k \in Nat : k <= n => \E g \in [SUBSET (1..k) -> A] : Is(g, k)}
  <1>1. 0 \in K
    <2> DEFINE g == [p \in SUBSET (1..0) |-> base]
    <2>1. g \in [SUBSET (1..0) -> A] /\ \A p \in SUBSET (1..0) : p = {}
      OBVIOUS
    <2>2. Is(g, 0)
      BY <2>1
    <2>3. QED BY <2>1, <2>2
  <1>2. ASSUME NEW k \in K, k + 1 <= n PROVE \E g \in [SUBSET (1..(k + 1)) -> A] : Is(g, k + 1)
    <2>1. k \in Nat /\ k <= n
      BY <1>2
    <2>2. PICK g \in [SUBSET (1..k) -> A] : Is(g, k)
      BY <2>1
    <2> DEFINE h == [p \in SUBSET (1..(k + 1)) |->
                        IF p = {} THEN base ELSE F[<<g[p \ {Max(p)}], Max(p)>>]]
    <2>3. ASSUME NEW p \in SUBSET (1..(k + 1)), p # {}
          PROVE  Max(p) \in 1..n /\ p \ {Max(p)} \in SUBSET (1..k)
      <3>1. k + 1 \in Nat
        BY <2>1
      <3>2. PICK m \in 1..(k + 1) : m = Max(p) /\ \A y \in p : y <= m
        BY <2>3, <3>1, MaxIs
      <3>3. ASSUME NEW y \in p \ {m} PROVE y \in 1..k
        <4>1. y \in 1..(k + 1) /\ y <= m /\ y # m
          BY <3>2
        <4>2. QED BY <2>1, <3>2, <4>1
      <3>4. m \in 1..n
        BY <1>2, <2>1, <3>2
      <3>5. QED BY <3>2, <3>3, <3>4
    <2>4. h \in [SUBSET (1..(k + 1)) -> A]
      <3>1. ASSUME NEW p \in SUBSET (1..(k + 1))
            PROVE  (IF p = {} THEN base ELSE F[<<g[p \ {Max(p)}], Max(p)>>]) \in A
        BY <2>2, <2>3
      <3>2. QED BY <3>1
    <2>5. \A p \in SUBSET (1..k) : h[p] = g[p]
      BY <2>1, <2>2
    <2>6. Is(h, k + 1)
      <3>1. ASSUME NEW p \in SUBSET (1..(k + 1))
            PROVE  h[p] = IF p = {} THEN base ELSE F[<<h[p \ {Max(p)}], Max(p)>>]
        <4>1. h[p] = IF p = {} THEN base ELSE F[<<g[p \ {Max(p)}], Max(p)>>]
          OBVIOUS
        <4>2. p # {} => h[p \ {Max(p)}] = g[p \ {Max(p)}]
          BY <2>3, <2>5
        <4> HIDE DEF h
        <4>3. QED BY <4>1, <4>2
      <3> HIDE DEF h
      <3>2. QED BY <3>1
    <2>7. QED BY <2>4, <2>6
  <1>3. \A k \in K : k + 1 \in K
    <2>1. SUFFICES ASSUME NEW k \in K PROVE k + 1 \in K
      OBVIOUS
    <2>2. k \in Nat /\ k + 1 \in Nat
      OBVIOUS
    <2>3. k + 1 <= n => \E g \in [SUBSET (1..(k + 1)) -> A] : Is(g, k + 1)
      BY <1>2
    <2> HIDE DEF Is
    <2>4. QED BY <2>2, <2>3
  <1>4. K \in SUBSET Nat
    OBVIOUS
  <1> HIDE DEF K
  <1>5. n \in K
    BY <1>1, <1>3, <1>4, Induct
  <1> HIDE DEF Is
  <1>6. n <= n
    OBVIOUS
  <1>7. \E g \in [SUBSET (1..n) -> A] : Is(g, n)
    BY <1>5, <1>6 DEF K
  <1>8. QED BY <1>7 DEF Is, Recursion

LEMMA UpTo ==
    ASSUME NEW k \in Nat
    PROVE  /\ Max(1..(k + 1)) = k + 1 /\ 1..(k + 1) # {}
           /\ (1..(k + 1)) \ {k + 1} = 1..k
           /\ 1..0 = {}
  <1>1. PICK p : p = 1..(k + 1)
    OBVIOUS
  <1>2. p # {} /\ p \in SUBSET (1..(k + 1)) /\ k + 1 \in Nat /\ k + 1 \in p
    BY <1>1
  <1>3. Max(p) \in p /\ \A y \in p : y <= Max(p)
    BY <1>2, MaxIs
  <1>4. Max(p) = k + 1
    BY <1>1, <1>2, <1>3
  <1>5. (1..(k + 1)) \ {k + 1} = 1..k
    OBVIOUS
  <1>6. QED BY <1>1, <1>2, <1>4, <1>5

-----------------------------------------------------------------------------
(* The table of servers.                                                   *)

\* Every server has a type and an address of its own.
Table(t, U) ==
    /\ t \in [servers : [ServerTypes -> Seq(1..Len(t.node))], node : Seq(U)]
    /\ \A i \in 1..Len(t.node) : \E type \in ServerTypes : i \in ToSet(t.servers[type])
    /\ IsInjective(t.node)

LEMMA ConcatHas ==
    ASSUME NEW S, NEW a \in Seq(S), NEW b \in Seq(S)
    PROVE  a \o b \in Seq(S) /\ ToSet(a) \subseteq ToSet(a \o b) /\ ToSet(b) \subseteq ToSet(a \o b)
  <1>1. a \o b \in Seq(S) /\ Len(a) \in Nat /\ Len(b) \in Nat
    OBVIOUS
  <1>2. ASSUME NEW i \in 1..Len(a) PROVE i \in DOMAIN (a \o b) /\ (a \o b)[i] = a[i]
    OBVIOUS
  <1>3. ASSUME NEW i \in 1..Len(b)
        PROVE  Len(a) + i \in DOMAIN (a \o b) /\ (a \o b)[Len(a) + i] = b[i]
    OBVIOUS
  <1>4. DOMAIN a = 1..Len(a) /\ DOMAIN b = 1..Len(b)
    OBVIOUS
  <1>5. ToSet(a) \subseteq ToSet(a \o b)
    BY <1>2, <1>4 DEF ToSet
  <1>6. ToSet(b) \subseteq ToSet(a \o b)
    BY <1>3, <1>4 DEF ToSet
  <1>7. QED BY <1>1, <1>5, <1>6

LEMMA AppendHas ==
    ASSUME NEW S, NEW a \in Seq(S), NEW e \in S
    PROVE  /\ Append(a, e) \in Seq(S)
           /\ ToSet(a) \subseteq ToSet(Append(a, e)) /\ e \in ToSet(Append(a, e))
  <1>1. Append(a, e) \in Seq(S) /\ Len(a) \in Nat /\ DOMAIN Append(a, e) = 1..(Len(a) + 1)
    OBVIOUS
  <1>2. DOMAIN a = 1..Len(a) /\ \A i \in 1..Len(a) : Append(a, e)[i] = a[i]
    OBVIOUS
  <1>3. Append(a, e)[Len(a) + 1] = e
    OBVIOUS
  <1>4. QED BY <1>1, <1>2, <1>3 DEF ToSet

\* The server found has the address; if there is none, none has.
LEMMA FoundIs ==
    ASSUME NEW U, NEW t, Table(t, U), NEW addr
    PROVE  LET f == findServerForAddr(t.servers, t.node, addr)
           IN  \/ f = 0 /\ \A i \in 1..Len(t.node) : t.node[i] # addr
               \/ f \in 1..Len(t.node) /\ t.node[f] = addr
  <1> DEFINE a == t.servers["OPEN5GS_SBI_SERVER"]
             b == t.servers["MBS_USER_SERVICES"]
             c == t.servers["MBS_USER_DATA_INGEST_SESSION"]
             d == t.servers["MBS_NOTIFICATION_LISTENER"]
             S == 1..Len(t.node)
  <1>1. a \in Seq(S) /\ b \in Seq(S) /\ c \in Seq(S) /\ d \in Seq(S)
    BY DEF Table, ServerTypes
  <1>2. PICK all : all = a \o b \o c \o d
    OBVIOUS
  <1> HIDE DEF a, b, c, d, S
  <1>3. /\ all \in Seq(S)
        /\ ToSet(a) \subseteq ToSet(all) /\ ToSet(b) \subseteq ToSet(all)
        /\ ToSet(c) \subseteq ToSet(all) /\ ToSet(d) \subseteq ToSet(all)
    <2>1. /\ a \o b \in Seq(S)
          /\ ToSet(a) \subseteq ToSet(a \o b) /\ ToSet(b) \subseteq ToSet(a \o b)
      BY <1>1, ConcatHas
    <2>2. /\ a \o b \o c \in Seq(S)
          /\ ToSet(a \o b) \subseteq ToSet(a \o b \o c) /\ ToSet(c) \subseteq ToSet(a \o b \o c)
      BY <1>1, <2>1, ConcatHas
    <2>3. /\ all \in Seq(S)
          /\ ToSet(a \o b \o c) \subseteq ToSet(all) /\ ToSet(d) \subseteq ToSet(all)
      BY <1>1, <1>2, <2>2, ConcatHas
    <2>4. QED BY <2>1, <2>2, <2>3
  <1>4. S \subseteq ToSet(all)
    BY <1>3 DEF Table, ServerTypes, a, b, c, d, S
  <1>5. DOMAIN all = 1..Len(all) /\ Len(all) \in Nat
    BY <1>3
  <1> DEFINE P == {i \in 1..Len(all) : t.node[all[i]] = addr}
             n == IF P # {} THEN Min(P) ELSE 0
  <1>6. findServerForAddr(t.servers, t.node, addr) = IF n = 0 THEN 0 ELSE all[n]
    BY <1>2 DEF findServerForAddr, SelectInSeq, a, b, c, d
  <1>7. CASE P = {}
    <2>1. n = 0
      BY <1>7
    <2>2. \A i \in S : t.node[i] # addr
      BY <1>4, <1>5, <1>7 DEF ToSet
    <2>3. QED BY <1>6, <2>1, <2>2 DEF S
  <1>8. CASE P # {}
    <2>1. P \subseteq Nat
      OBVIOUS
    <2>2. Min(P) \in P
      BY <1>8, <2>1, MinIs
    <2>3. PICK m : m = Min(P)
      OBVIOUS
    <2>4. m \in 1..Len(all) /\ t.node[all[m]] = addr
      BY <2>2, <2>3
    <2>5. n = m /\ m # 0
      BY <1>8, <2>3, <2>4
    <2>6. all[m] \in S
      BY <1>3, <1>5, <2>4
    <2> HIDE DEF n
    <2>7. QED BY <1>6, <2>4, <2>5, <2>6 DEF S
  <1>9. QED BY <1>7, <1>8

LEMMA SeqWidens ==
    ASSUME NEW S, NEW T, S \subseteq T, NEW s \in Seq(S)
    PROVE  s \in Seq(T)
  OBVIOUS

\* A server is listed under a type: one that is there, or a new one with an address
\* that no server has.
LEMMA ListedStays ==
    ASSUME NEW U, NEW t, Table(t, U), NEW type \in ServerTypes, NEW i, NEW nodes,
           \/ i \in 1..Len(t.node) /\ nodes = t.node
           \/ /\ i = Len(t.node) + 1
              /\ \E addr \in U : /\ nodes = Append(t.node, addr)
                                 /\ \A j \in 1..Len(t.node) : t.node[j] # addr
    PROVE  Table([servers |-> [t.servers EXCEPT ![type] = Append(@, i)], node |-> nodes], U)
  <1>1. /\ t.servers \in [ServerTypes -> Seq(1..Len(t.node))] /\ t.node \in Seq(U)
        /\ Len(t.node) \in Nat /\ DOMAIN t.node = 1..Len(t.node)
    BY DEF Table
  <1>2. /\ nodes \in Seq(U) /\ DOMAIN nodes = 1..Len(nodes) /\ Len(nodes) \in Nat
        /\ 1..Len(t.node) \subseteq 1..Len(nodes)
        /\ i \in 1..Len(nodes) /\ (i = Len(nodes) \/ Len(nodes) = Len(t.node))
        /\ 1..Len(nodes) \subseteq 1..Len(t.node) \cup {i}
    <2>1. CASE i \in 1..Len(t.node) /\ nodes = t.node
      BY <1>1, <2>1
    <2>2. CASE i = Len(t.node) + 1 /\ \E addr \in U : nodes = Append(t.node, addr)
      <3>1. PICK addr \in U : nodes = Append(t.node, addr)
        BY <2>2
      <3>2. Len(nodes) = Len(t.node) + 1 /\ nodes \in Seq(U) /\ DOMAIN nodes = 1..Len(nodes)
        BY <1>1, <3>1
      <3>3. QED BY <1>1, <2>2, <3>2
    <2>3. QED BY <2>1, <2>2
  <1>3. IsInjective(nodes)
    <2>1. CASE nodes = t.node
      BY <2>1 DEF Table
    <2>2. CASE \E addr \in U : /\ nodes = Append(t.node, addr)
                               /\ \A j \in 1..Len(t.node) : t.node[j] # addr
      <3>1. PICK addr \in U : /\ nodes = Append(t.node, addr)
                              /\ \A j \in 1..Len(t.node) : t.node[j] # addr
        BY <2>2
      <3>2. /\ DOMAIN nodes = 1..(Len(t.node) + 1) /\ nodes[Len(t.node) + 1] = addr
            /\ \A j \in 1..Len(t.node) : nodes[j] = t.node[j]
        BY <1>1, <3>1
      <3>3. \A j, k \in 1..Len(t.node) : t.node[j] = t.node[k] => j = k
        BY <1>1 DEF Table, IsInjective
      <3>4. QED BY <1>1, <3>1, <3>2, <3>3 DEF IsInjective
    <2>3. QED BY <2>1, <2>2
  <1> DEFINE svrs == [t.servers EXCEPT ![type] = Append(@, i)]
  <1>4. \A y \in ServerTypes : t.servers[y] \in Seq(1..Len(nodes))
    BY <1>1, <1>2, SeqWidens
  <1>5. /\ Append(t.servers[type], i) \in Seq(1..Len(nodes))
        /\ ToSet(t.servers[type]) \subseteq ToSet(Append(t.servers[type], i))
        /\ i \in ToSet(Append(t.servers[type], i))
    BY <1>2, <1>4, AppendHas
  <1>6. /\ svrs[type] = Append(t.servers[type], i)
        /\ \A y \in ServerTypes \ {type} : svrs[y] = t.servers[y]
    BY <1>1
  <1>7. svrs \in [ServerTypes -> Seq(1..Len(nodes))]
    BY <1>1, <1>4, <1>5
  <1>8. \A y \in ServerTypes : ToSet(t.servers[y]) \subseteq ToSet(svrs[y])
    BY <1>5, <1>6
  <1>9. i \in ToSet(svrs[type])
    BY <1>5, <1>6
  <1> HIDE DEF svrs
  <1>10. \A j \in 1..Len(nodes) : \E y \in ServerTypes : j \in ToSet(svrs[y])
    BY <1>2, <1>8, <1>9 DEF Table
  <1>11. Table([servers |-> svrs, node |-> nodes], U)
    BY <1>2, <1>3, <1>7, <1>10 DEF Table
  <1>12. QED BY <1>11 DEF svrs

LEMMA AddApiServerStays ==
    ASSUME NEW U, NEW t, Table(t, U), NEW type \in ServerTypes, NEW addr \in U
    PROVE  Table(AddApiServer(type, t, addr), U)
  <1> DEFINE f == findServerForAddr(t.servers, t.node, addr)
             i == IF f = 0 THEN Len(t.node) + 1 ELSE f
             nodes == IF f = 0 THEN Append(t.node, addr) ELSE t.node
  <1>1. \A j \in 1..Len(t.node) : j # 0
    BY DEF Table
  <1>2. \/ f = 0 /\ \A j \in 1..Len(t.node) : t.node[j] # addr
        \/ f \in 1..Len(t.node) /\ f # 0
    BY <1>1, FoundIs
  <1>3. AddApiServer(type, t, addr)
           = [servers |-> [t.servers EXCEPT ![type] = Append(@, i)], node |-> nodes]
    BY DEF AddApiServer
  <1> HIDE DEF f
  <1>4. Table([servers |-> [t.servers EXCEPT ![type] = Append(@, i)], node |-> nodes], U)
    BY <1>2, ListedStays
  <1>5. QED BY <1>3, <1>4

\* The result of a fold is in a set that each step stays in.
LEMMA FoldStays ==
    ASSUME NEW n \in Nat, NEW A, NEW h, h[{}] \in A,
           \A k \in 0..(n - 1) : h[1..k] \in A => h[1..(k + 1)] \in A
    PROVE  h[1..n] \in A
  <1> DEFINE K == {k \in Nat : k <= n => h[1..k] \in A}
  <1>1. 0 \in K
    <2>1. 1..0 = {}
      OBVIOUS
    <2>2. QED BY <2>1
  <1>2. ASSUME NEW k \in K PROVE k + 1 \in K
    OBVIOUS
  <1>3. K = Nat
    BY <1>1, <1>2, Induct
  <1>4. QED BY <1>3

\* The addresses of a block, and the blocks of a section, leave the table sound.
Tables(U) == {t \in [servers : [ServerTypes -> Seq(Nat)], node : Seq(U)] : Table(t, U)}

LEMMA TablesAre ==
    ASSUME NEW U, NEW t
    PROVE  t \in Tables(U) <=> Table(t, U)
  <1>1. ASSUME Table(t, U) PROVE t \in [servers : [ServerTypes -> Seq(Nat)], node : Seq(U)]
    <2>1. /\ t \in [servers : [ServerTypes -> Seq(1..Len(t.node))], node : Seq(U)]
          /\ 1..Len(t.node) \subseteq Nat
      BY <1>1 DEF Table
    <2>2. Seq(1..Len(t.node)) \subseteq Seq(Nat)
      BY <2>1, SeqWidens
    <2>3. QED BY <2>1, <2>2
  <1>2. QED BY <1>1 DEF Tables

LEMMA parseConfigurationStays ==
    ASSUME NEW U, NEW t \in Tables(U), NEW key \in ApiKeys, NEW block, block.addrs \in Seq(U)
    PROVE  parseConfiguration(key, t, block) \in Tables(U)
  <1> DEFINE l == block.addrs
             Step(x, a) == IF a.family = "v4" THEN AddApiServer(TypeOfKey(key), x, a) ELSE x
  <1>1. DOMAIN l = 1..Len(l) /\ Len(l) \in Nat
    OBVIOUS
  <1> DEFINE F == [x \in Tables(U) \X (1..Len(l)) |-> Step(x[1], l[x[2]])]
             Is(g, p) == IF p = {} THEN t ELSE Step(g[p \ {Max(p)}], l[Max(p)])
  <1>2. ASSUME NEW x \in Tables(U), NEW n \in 1..Len(l) PROVE Step(x, l[n]) \in Tables(U)
    <2>1. TypeOfKey(key) \in ServerTypes
      BY DEF TypeOfKey, ServerTypes
    <2>2. l[n] \in U
      BY <1>1
    <2>3. QED BY <2>1, <2>2, TablesAre, AddApiServerStays
  <1>3. F \in [Tables(U) \X (1..Len(l)) -> Tables(U)]
    <2> HIDE DEF Step
    <2>1. QED BY <1>2
  <1>4. PICK g \in [SUBSET (1..Len(l)) -> Tables(U)] :
           \A p \in SUBSET (1..Len(l)) :
              g[p] = IF p = {} THEN t ELSE F[<<g[p \ {Max(p)}], Max(p)>>]
    <2> HIDE DEF F
    <2>1. \E g \in [SUBSET (1..Len(l)) -> Tables(U)] : Recursion(g, Len(l), t, F)
      BY <1>1, <1>3, FoldExists
    <2>2. QED BY <2>1 DEF Recursion
  <1>5. ASSUME NEW p \in SUBSET (1..Len(l)) PROVE g[p] = Is(g, p)
    <2>1. CASE p = {}
      BY <1>4, <2>1
    <2>2. CASE p # {}
      <3>1. Max(p) \in p
        BY <1>1, <2>2, MaxIs
      <3>2. Max(p) \in 1..Len(l) /\ g[p \ {Max(p)}] \in Tables(U)
        BY <3>1
      <3> HIDE DEF Step
      <3>3. F[<<g[p \ {Max(p)}], Max(p)>>] = Step(g[p \ {Max(p)}], l[Max(p)])
        BY <3>2
      <3> HIDE DEF F
      <3>4. g[p] = F[<<g[p \ {Max(p)}], Max(p)>>]
        BY <1>4, <2>2
      <3>5. QED BY <2>2, <3>3, <3>4
    <2>3. QED BY <2>1, <2>2
  <1> HIDE DEF F
  <1>6. g = [p \in SUBSET (1..Len(l)) |-> Is(g, p)]
    <2> HIDE DEF Is
    <2>1. QED BY <1>4, <1>5
  <1>7. PICK h : h = CHOOSE i : i = [p \in SUBSET (1..Len(l)) |-> Is(i, p)]
    OBVIOUS
  <1>8. h = [p \in SUBSET (1..Len(l)) |-> Is(h, p)]
    BY <1>6, <1>7
  <1>9. parseConfiguration(key, t, block) = h[1..Len(l)]
    BY <1>1, <1>7 DEF parseConfiguration, FoldLeft, MapThenFoldSet
  <1>10. h[{}] \in Tables(U)
    BY <1>8
  <1>11. ASSUME NEW k \in 0..(Len(l) - 1), h[1..k] \in Tables(U) PROVE h[1..(k + 1)] \in Tables(U)
    <2>1. k \in Nat /\ k + 1 \in 1..Len(l) /\ 1..(k + 1) \in SUBSET (1..Len(l))
      BY <1>1
    <2>2. Max(1..(k + 1)) = k + 1 /\ 1..(k + 1) # {} /\ (1..(k + 1)) \ {k + 1} = 1..k
      BY <2>1, UpTo
    <2> HIDE DEF Step
    <2>3. h[1..(k + 1)] = Step(h[1..k], l[k + 1])
      BY <1>8, <2>1, <2>2
    <2>4. QED BY <1>11, <1>2, <2>1, <2>3
  <1>12. QED BY <1>1, <1>9, <1>10, <1>11, FoldStays

LEMMA parseBlocksStays ==
    ASSUME NEW U, NEW t \in Tables(U), NEW key \in ApiKeys, NEW bs,
           IsSequence(bs), \A block \in ToSet(bs) : block.addrs \in Seq(U)
    PROVE  parseBlocks(key, t, bs) \in Tables(U)
  <1> DEFINE l == bs
             Step(x, block) == parseConfiguration(key, x, block)
  <1>1. DOMAIN l = 1..Len(l) /\ Len(l) \in Nat
    BY DEF IsSequence
  <1> DEFINE F == [x \in Tables(U) \X (1..Len(l)) |-> Step(x[1], l[x[2]])]
             Is(g, p) == IF p = {} THEN t ELSE Step(g[p \ {Max(p)}], l[Max(p)])
  <1>2. ASSUME NEW x \in Tables(U), NEW n \in 1..Len(l) PROVE Step(x, l[n]) \in Tables(U)
    <2>1. l[n].addrs \in Seq(U)
      BY <1>1 DEF ToSet
    <2>2. QED BY <2>1, parseConfigurationStays
  <1>3. F \in [Tables(U) \X (1..Len(l)) -> Tables(U)]
    <2> HIDE DEF Step
    <2>1. QED BY <1>2
  <1>4. PICK g \in [SUBSET (1..Len(l)) -> Tables(U)] :
           \A p \in SUBSET (1..Len(l)) :
              g[p] = IF p = {} THEN t ELSE F[<<g[p \ {Max(p)}], Max(p)>>]
    <2> HIDE DEF F
    <2>1. \E g \in [SUBSET (1..Len(l)) -> Tables(U)] : Recursion(g, Len(l), t, F)
      BY <1>1, <1>3, FoldExists
    <2>2. QED BY <2>1 DEF Recursion
  <1>5. ASSUME NEW p \in SUBSET (1..Len(l)) PROVE g[p] = Is(g, p)
    <2>1. CASE p = {}
      BY <1>4, <2>1
    <2>2. CASE p # {}
      <3>1. Max(p) \in p
        BY <1>1, <2>2, MaxIs
      <3>2. Max(p) \in 1..Len(l) /\ g[p \ {Max(p)}] \in Tables(U)
        BY <3>1
      <3> HIDE DEF Step
      <3>3. F[<<g[p \ {Max(p)}], Max(p)>>] = Step(g[p \ {Max(p)}], l[Max(p)])
        BY <3>2
      <3> HIDE DEF F
      <3>4. g[p] = F[<<g[p \ {Max(p)}], Max(p)>>]
        BY <1>4, <2>2
      <3>5. QED BY <2>2, <3>3, <3>4
    <2>3. QED BY <2>1, <2>2
  <1> HIDE DEF F
  <1>6. g = [p \in SUBSET (1..Len(l)) |-> Is(g, p)]
    <2> HIDE DEF Is
    <2>1. QED BY <1>4, <1>5
  <1>7. PICK h : h = CHOOSE i : i = [p \in SUBSET (1..Len(l)) |-> Is(i, p)]
    OBVIOUS
  <1>8. h = [p \in SUBSET (1..Len(l)) |-> Is(h, p)]
    BY <1>6, <1>7
  <1>9. parseBlocks(key, t, bs) = h[1..Len(l)]
    BY <1>1, <1>7 DEF parseBlocks, FoldLeft, MapThenFoldSet
  <1>10. h[{}] \in Tables(U)
    BY <1>8
  <1>11. ASSUME NEW k \in 0..(Len(l) - 1), h[1..k] \in Tables(U) PROVE h[1..(k + 1)] \in Tables(U)
    <2>1. k \in Nat /\ k + 1 \in 1..Len(l) /\ 1..(k + 1) \in SUBSET (1..Len(l))
      BY <1>1
    <2>2. Max(1..(k + 1)) = k + 1 /\ 1..(k + 1) # {} /\ (1..(k + 1)) \ {k + 1} = 1..k
      BY <2>1, UpTo
    <2> HIDE DEF Step
    <2>3. h[1..(k + 1)] = Step(h[1..k], l[k + 1])
      BY <1>8, <2>1, <2>2
    <2>4. QED BY <1>11, <1>2, <2>1, <2>3
  <1>12. QED BY <1>1, <1>9, <1>10, <1>11, FoldStays

\* The addresses may be looked for in any set that has them all.
LEMMA TableWidens ==
    ASSUME NEW U, NEW V, NEW t, Table(t, U), U \subseteq V
    PROVE  Table(t, V)
  <1>1. t.node \in Seq(U)
    BY DEF Table
  <1>2. t.node \in Seq(V)
    BY <1>1, SeqWidens
  <1>3. QED BY <1>2 DEF Table

LEMMA TableNarrows ==
    ASSUME NEW U, NEW t, Table(t, U)
    PROVE  /\ IsSequence(t.node) /\ Table(t, ToSet(t.node))
           /\ DOMAIN t.node = 1..Len(t.node) /\ Len(t.node) \in Nat
           /\ t.servers \in [ServerTypes -> Seq(DOMAIN t.node)]
  <1>1. /\ t.node \in Seq(U) /\ DOMAIN t.node = 1..Len(t.node) /\ Len(t.node) \in Nat
        /\ t.servers \in [ServerTypes -> Seq(1..Len(t.node))]
    BY DEF Table
  <1>2. \A i \in 1..Len(t.node) : t.node[i] \in ToSet(t.node)
    BY <1>1 DEF ToSet
  <1>3. t.node \in Seq(ToSet(t.node))
    <2> DEFINE T == ToSet(t.node)
    <2>1. t.node = [i \in 1..Len(t.node) |-> t.node[i]]
      BY <1>1
    <2>2. \A i \in 1..Len(t.node) : t.node[i] \in T
      BY <1>2
    <2> HIDE DEF T
    <2>3. t.node \in Seq(T)
      BY <1>1, <2>1, <2>2
    <2>4. QED BY <2>3 DEF T
  <1>4. QED BY <1>1, <1>3 DEF Table, IsSequence

\* The system has a port to give.
LEMMA PortIsFree ==
    ASSUME NEW U, NEW nodes \in Seq(U)
    PROVE  /\ EphemeralPort(nodes) \in Nat \ {0}
           /\ \A i \in DOMAIN nodes : nodes[i].port # EphemeralPort(nodes)
  <1> DEFINE D == 1..Len(nodes)
             S == {nodes[i].port : i \in D}
             I == 49152..(49152 + Len(nodes))
  <1>1. Len(nodes) \in Nat /\ DOMAIN nodes = D
    OBVIOUS
  <1>2. IsFiniteSet(D) /\ Cardinality(D) = Len(nodes)
    BY <1>1, FS_Interval
  <1>3. IsFiniteSet(I) /\ Cardinality(I) = Len(nodes) + 1
    BY <1>1, FS_Interval
  <1>4. IsFiniteSet(S) /\ Cardinality(S) <= Len(nodes)
    <2>1. PICK f : f = [i \in D |-> nodes[i].port]
      OBVIOUS
    <2>2. S = {f[i] : i \in D}
      BY <2>1
    <2> HIDE DEF S, D
    <2>3. f \in [D -> {f[i] : i \in D}] /\ \A y \in {f[i] : i \in D} : \E i \in D : f[i] = y
      BY <2>1 DEF S
    <2>4. f \in Surjection(D, {f[i] : i \in D})
      BY <2>3 DEF Surjection
    <2>5. QED BY <1>2, <2>2, <2>4, FS_Surjection
  <1>5. \E p \in I : p \notin S
    <2>1. SUFFICES ASSUME I \subseteq S PROVE FALSE
      OBVIOUS
    <2> HIDE DEF I, S
    <2>2. Cardinality(I) <= Cardinality(S)
      BY <1>4, <2>1, FS_Subset
    <2>3. Cardinality(S) \in Nat
      BY <1>4, FS_CardinalityType
    <2>4. QED BY <1>1, <1>3, <1>4, <2>2, <2>3
  <1>6. PICK p \in I : p \notin S
    BY <1>5
  <1>7. \A i \in DOMAIN nodes : nodes[i].port # p
    BY <1>1, <1>6
  <1>8. EphemeralPort(nodes) \in I /\ \A i \in DOMAIN nodes : nodes[i].port # EphemeralPort(nodes)
    BY <1>7 DEF EphemeralPort
  <1>9. QED BY <1>1, <1>8

TableNow == [servers |-> servers, node |-> node]

\* The listener of a URL: an old server or a new one, listed as what it is asked for.
LEMMA ServerGiven ==
    ASSUME NEW U, Table(TableNow, U), NEW addr, NEW type \in ServerTypes
    PROVE  LET g == getServerForAddr(addr, type)
           IN  /\ Table([servers |-> g.servers, node |-> g.node], ToSet(g.node))
               /\ g.server \in ToSet(g.servers[type]) /\ g.server \in 1..Len(g.node)
               /\ g.node[g.server] = addr \/ g.node[g.server].port # 0
               /\ \A i \in 1..Len(node) : i \in 1..Len(g.node) /\ g.node[i] = node[i]
               /\ \A y \in ServerTypes : ToSet(servers[y]) \subseteq ToSet(g.servers[y])
  <1> DEFINE g == getServerForAddr(addr, type)
             found == findServerForAddr(servers, node, addr)
             V == U \cup {NewNode(addr)}
             put(i) == [servers EXCEPT ![type] = Append(@, i)]
  <1>1. /\ TableNow.servers = servers /\ TableNow.node = node
        /\ servers \in [ServerTypes -> Seq(1..Len(node))] /\ node \in Seq(U) /\ Len(node) \in Nat
        /\ DOMAIN node = 1..Len(node)
    BY DEF Table, TableNow
  <1>2. Table(TableNow, V)
    BY TableWidens
  <1>3. \/ found = 0 /\ \A i \in 1..Len(node) : node[i] # addr
        \/ found \in 1..Len(node) /\ found # 0 /\ node[found] = addr
    <2>1. \A i \in 1..Len(node) : i # 0
      BY <1>1
    <2>2. QED BY <1>1, <2>1, FoundIs
  <1>4. ASSUME NEW i \in 1..(Len(node) + 1), NEW nodes, nodes \in Seq(V),
               Table([servers |-> put(i), node |-> nodes], V)
        PROVE  /\ i \in 1..Len(nodes) /\ i \in ToSet(put(i)[type])
               /\ \A y \in ServerTypes : ToSet(servers[y]) \subseteq ToSet(put(i)[y])
    <2>1. servers[type] \in Seq(1..(Len(node) + 1))
      <3>1. 1..Len(node) \subseteq 1..(Len(node) + 1)
        BY <1>1
      <3>2. QED BY <1>1, <3>1, SeqWidens
    <2>2. /\ ToSet(servers[type]) \subseteq ToSet(Append(servers[type], i))
          /\ i \in ToSet(Append(servers[type], i))
      BY <2>1, AppendHas
    <2>3. /\ put(i)[type] = Append(servers[type], i)
          /\ \A y \in ServerTypes \ {type} : put(i)[y] = servers[y]
      BY <1>1
    <2>4. put(i)[type] \in Seq(1..Len(nodes))
      BY <1>4 DEF Table
    <2>5. i \in 1..Len(nodes)
      <3> HIDE DEF put
      <3>1. i \in ToSet(put(i)[type])
        BY <2>2, <2>3
      <3>2. QED BY <2>4, <3>1 DEF ToSet
    <2>6. QED BY <2>2, <2>3, <2>5
  <1>5. CASE found = 0
    <2> DEFINE nodes == Append(node, NewNode(addr))
    <2>1. \A i \in 1..Len(node) : node[i] # NewNode(addr)
      <3>1. CASE addr.port = 0
        BY <1>1, <3>1, PortIsFree DEF NewNode
      <3>2. CASE addr.port # 0
        BY <1>1, <1>3, <1>5, <3>2 DEF NewNode
      <3>3. QED BY <3>1, <3>2
    <2>2. g.server = Len(node) + 1 /\ g.node = nodes /\ g.servers = put(Len(node) + 1)
      BY <1>5 DEF getServerForAddr
    <2>3. Table([servers |-> put(Len(node) + 1), node |-> nodes], V)
      <3>1. \/ Len(node) + 1 \in 1..Len(node) /\ nodes = node
            \/ /\ Len(node) + 1 = Len(node) + 1
               /\ \E a \in V : nodes = Append(node, a) /\ \A j \in 1..Len(node) : node[j] # a
        BY <2>1
      <3> HIDE DEF nodes
      <3>2. QED BY <1>1, <1>2, <3>1, ListedStays
    <2>4. /\ nodes \in Seq(V) /\ Len(nodes) = Len(node) + 1
          /\ \A i \in 1..Len(node) : nodes[i] = node[i]
          /\ nodes[Len(node) + 1] = NewNode(addr)
      <3>1. node \in Seq(V) /\ NewNode(addr) \in V
        BY <1>1, SeqWidens
      <3> HIDE DEF V
      <3>2. QED BY <1>1, <3>1
    <2>5. NewNode(addr) = addr \/ NewNode(addr).port # 0
      BY <1>1, PortIsFree DEF NewNode
    <2> HIDE DEF nodes, g, put, V
    <2>6. Len(node) + 1 \in 1..(Len(node) + 1)
      BY <1>1
    <2>7. Table([servers |-> put(Len(node) + 1), node |-> nodes], ToSet(nodes))
      <3> DEFINE t == [servers |-> put(Len(node) + 1), node |-> nodes]
      <3>1. t.node = nodes
        OBVIOUS
      <3> HIDE DEF t
      <3>2. Table(t, ToSet(t.node))
        BY <2>3, TableNarrows DEF t
      <3>3. QED BY <3>1, <3>2 DEF t
    <2>8. /\ Len(node) + 1 \in 1..Len(nodes) /\ Len(node) + 1 \in ToSet(put(Len(node) + 1)[type])
          /\ \A y \in ServerTypes : ToSet(servers[y]) \subseteq ToSet(put(Len(node) + 1)[y])
      BY <1>4, <2>3, <2>4, <2>6
    <2>9. \A i \in 1..Len(node) : i \in 1..Len(nodes)
      BY <1>1, <2>4
    <2>10. QED BY <2>2, <2>4, <2>7, <2>8, <2>9, <2>5 DEF g
  <1>6. CASE found \in 1..Len(node) /\ found # 0 /\ node[found] = addr
    <2>1. /\ g.server = found /\ g.node = node
          /\ g.servers = IF Contains(servers[type], found) THEN servers ELSE put(found)
      BY <1>1, <1>6 DEF getServerForAddr
    <2>2. found \in 1..(Len(node) + 1)
      BY <1>1, <1>6
    <2>3. node \in Seq(V)
      BY <1>2 DEF Table, TableNow
    <2> HIDE DEF V, found, g
    <2>4. CASE Contains(servers[type], found)
      <3>1. found \in ToSet(servers[type])
        <4>1. servers[type] \in Seq(1..Len(node))
          BY <1>1
        <4>2. QED BY <2>4, <4>1 DEF Contains, ToSet
      <3>2. Table(TableNow, ToSet(node))
        BY <1>1, TableNarrows
      <3>3. QED BY <1>6, <2>1, <2>4, <3>1, <3>2 DEF g, TableNow
    <2>5. CASE ~Contains(servers[type], found)
      <3>1. Table([servers |-> put(found), node |-> node], V)
        BY <1>1, <1>2, <1>6, ListedStays
      <3> HIDE DEF put
      <3>2. Table([servers |-> put(found), node |-> node], ToSet(node))
        <4> DEFINE t == [servers |-> put(found), node |-> node]
        <4>1. t.node = node
          OBVIOUS
        <4> HIDE DEF t
        <4>2. Table(t, ToSet(t.node))
          BY <3>1, TableNarrows DEF t
        <4>3. QED BY <4>1, <4>2 DEF t
      <3>3. /\ found \in 1..Len(node) /\ found \in ToSet(put(found)[type])
            /\ \A y \in ServerTypes : ToSet(servers[y]) \subseteq ToSet(put(found)[y])
        BY <1>4, <2>2, <2>3, <3>1
      <3>4. QED BY <1>6, <2>1, <2>5, <3>2, <3>3 DEF g
    <2>6. QED BY <2>4, <2>5
  <1>7. QED BY <1>3, <1>5, <1>6
-----------------------------------------------------------------------------
(* The inductive invariant.                                                *)

TableOK == Table(TableNow, ToSet(node))

\* What is still to be read is of the document.
ReadingOK ==
    /\ document \in Documents
    /\ IsSequence(todo) /\ ToSet(todo) \subseteq ToSet(document.mbsf)

\* A distribution session that lives has a URL of its own, at a listener, which has
\* port 0 only at the address the listener was to bind to.
RoutesOK ==
    \A d \in DistSessions :
        /\ phase \in {"config", "start"} => session[d] = "new"
        /\ phase = "running" /\ session[d] # "new" => url[d].dist = d
        /\ phase = "running" /\ session[d] = "live" =>
               /\ \E i \in ToSet(servers["MBS_NOTIFICATION_LISTENER"]) : node[i] = url[d].addr
               /\ url[d].addr = ListenerAddress \/ url[d].addr.port # 0

\* The Context is there.
Configured == phase \in {"config", "start", "running"}

ServersInv ==
    /\ ServersTypeOK
    /\ IsSequence(queue)
    /\ url \in [DistSessions -> {url[d] : d \in DistSessions}]
    /\ Configured => TableOK
    /\ ReadingOK
    /\ RoutesOK

LEMMA SequenceAppends ==
    ASSUME NEW x, IsSequence(x), NEW e
    PROVE  IsSequence(Append(x, e)) /\ Len(Append(x, e)) = Len(x) + 1 /\ Len(x) \in Nat
  <1> DEFINE S == ToSet(x) \cup {e}
             y == Append(x, e)
  <1>1. x \in Seq(S)
    <2>1. x \in Seq(ToSet(x))
      BY DEF IsSequence
    <2>2. QED BY <2>1, SeqWidens
  <1> HIDE DEF S
  <1>2. e \in S
    BY DEF S
  <1>3. y \in Seq(S) /\ Len(y) = Len(x) + 1 /\ Len(x) \in Nat
    BY <1>1, <1>2
  <1> HIDE DEF y
  <1>4. y = [i \in 1..Len(y) |-> y[i]] /\ \A i \in 1..Len(y) : y[i] \in ToSet(y)
    BY <1>3 DEF ToSet
  <1> DEFINE T == ToSet(y)
  <1> HIDE DEF T
  <1>5. y \in Seq(T)
    BY <1>3, <1>4 DEF T
  <1>6. QED BY <1>3, <1>5 DEF IsSequence, T, y

LEMMA SequenceTaken ==
    ASSUME NEW x, IsSequence(x), x # << >>
    PROVE  /\ IsSequence(Tail(x)) /\ ToSet(Tail(x)) \subseteq ToSet(x)
           /\ Head(x) \in ToSet(x) /\ Len(Tail(x)) <= Len(x)
  <1> DEFINE S == ToSet(x)
             y == Tail(x)
  <1>1. x \in Seq(S) /\ \A i \in DOMAIN x : x[i] \in S
    BY DEF IsSequence, ToSet
  <1> HIDE DEF S
  <1>2. /\ y \in Seq(S) /\ Len(y) \in Nat /\ Len(y) <= Len(x)
        /\ DOMAIN y = 1..Len(y) /\ \A i \in 1..Len(y) : y[i] \in S
        /\ Head(x) \in S
    BY <1>1
  <1> HIDE DEF y
  <1>3. y = [i \in 1..Len(y) |-> y[i]] /\ \A i \in 1..Len(y) : y[i] \in ToSet(y)
    BY <1>2 DEF ToSet
  <1> DEFINE T == ToSet(y)
  <1> HIDE DEF T
  <1>4. y \in Seq(T)
    BY <1>2, <1>3 DEF T
  <1>5. ToSet(y) \subseteq S
    BY <1>2 DEF ToSet
  <1>6. QED BY <1>2, <1>4, <1>5 DEF IsSequence, T, S, y

LEMMA EmptySequence == IsSequence(<< >>) /\ ToSet(<< >>) = {} /\ Len(<< >>) = 0
  BY DEF IsSequence, ToSet

\* The servers of a section of the configuration.
LEMMA SectionStays ==
    ASSUME ServersInv, Configured, NEW s \in ToSet(document.mbsf), s.key \in ApiKeys,
           NEW bs, bs \in {BlocksOf(s), << >>}
    PROVE  LET t == parseBlocks(s.key, TableNow, bs) IN Table(t, ToSet(t.node))
  <1>1. /\ IsSequence(s.blocks)
        /\ \A block \in ToSet(s.blocks) : IsSequence(block.addrs)
    <2>1. document \in Documents
      BY DEF ServersInv, ReadingOK
    <2>2. QED BY <2>1, DocumentsAssumption DEF ApiKeys
  <1>2. s.key \notin SettingKeys
    BY DEF ApiKeys, SettingKeys
  <1>3. IsSequence(bs) /\ \A block \in ToSet(bs) : IsSequence(block.addrs)
    BY <1>1, <1>2, EmptySequence DEF BlocksOf
  <1> DEFINE V == ToSet(node) \cup UNION {ToSet(block.addrs) : block \in ToSet(bs)}
  <1>4. \A block \in ToSet(bs) : block.addrs \in Seq(V)
    <2>1. TAKE block \in ToSet(bs)
    <2>2. block.addrs \in Seq(ToSet(block.addrs))
      BY <1>3 DEF IsSequence
    <2>3. ToSet(block.addrs) \subseteq V
      OBVIOUS
    <2> HIDE DEF V
    <2>4. QED BY <2>2, <2>3, SeqWidens
  <1>5. Table(TableNow, V)
    <2>1. ToSet(node) \subseteq V
      OBVIOUS
    <2> HIDE DEF V
    <2>2. QED BY <2>1, TableWidens DEF ServersInv, TableOK
  <1> HIDE DEF V
  <1>6. parseBlocks(s.key, TableNow, bs) \in Tables(V)
    BY <1>3, <1>4, <1>5, TablesAre, parseBlocksStays
  <1>7. QED BY <1>6, TablesAre, TableNarrows

LEMMA TableTypes ==
    ASSUME NEW svrs, NEW nodes, NEW U, Table([servers |-> svrs, node |-> nodes], U)
    PROVE  svrs \in [ServerTypes -> Seq(DOMAIN nodes)]
  <1> DEFINE t == [servers |-> svrs, node |-> nodes]
  <1>1. t.servers = svrs /\ t.node = nodes
    OBVIOUS
  <1> HIDE DEF t
  <1>2. t.servers \in [ServerTypes -> Seq(DOMAIN t.node)]
    BY TableNarrows DEF t
  <1>3. QED BY <1>1, <1>2

LEMMA ParseSectionKeeps ==
    ASSUME ServersInv, ParseSection
    PROVE  ServersInv'
  <1> DEFINE s == Head(todo)
             bs == IF s.node \in {"mapping", "sequence"} THEN BlocksOf(s) ELSE << >>
             t == parseBlocks(s.key, TableNow, bs)
  <1>1. /\ phase = "config" /\ phase' \in {"failed", "aborted", "config"}
        /\ servers' = (IF s.key \in ApiKeys THEN t.servers ELSE servers)
        /\ node' = (IF s.key \in ApiKeys THEN t.node ELSE node)
        /\ todo' \in {<< >>, Tail(todo)} /\ todo # << >>
        /\ UNCHANGED <<document, session, url, queue>>
    BY DEF ParseSection, TableNow, routes, events
  <1>2. /\ s \in ToSet(document.mbsf)
        /\ IsSequence(todo') /\ ToSet(todo') \subseteq ToSet(document.mbsf)
    BY <1>1, SequenceTaken, EmptySequence DEF ServersInv, ReadingOK
  <1>3. TableOK'
    <2>1. CASE s.key \in ApiKeys
      <3>1. Table(t, ToSet(t.node))
        BY <1>1, <1>2, <2>1, SectionStays DEF Configured
      <3>2. t = [servers |-> t.servers, node |-> t.node]
        BY <3>1 DEF Table
      <3> HIDE DEF t
      <3>3. QED BY <1>1, <2>1, <3>1, <3>2 DEF TableOK, TableNow
    <2>2. CASE s.key \notin ApiKeys
      BY <1>1, <2>2 DEF ServersInv, Configured, TableOK, TableNow
    <2>3. QED BY <2>1, <2>2
  <1>4. servers' \in [ServerTypes -> Seq(DOMAIN node')]
    BY <1>3, TableTypes DEF TableOK, TableNow
  <1>5. QED BY <1>1, <1>2, <1>3, <1>4
        DEF ServersInv, ServersTypeOK, Phases, ReadingOK, RoutesOK, Configured

\* A new distribution session: its URL is at a listener, and no other one is lost.
LEMMA CreateSessionKeeps ==
    ASSUME ServersInv, NEW d \in DistSessions, CreateSession(d)
    PROVE  ServersInv'
  <1> DEFINE addr == ListenerAddress
             L == "MBS_NOTIFICATION_LISTENER"
             g == getServerForAddr(addr, L)
  <1>1. /\ phase = "running" /\ phase' = "running" /\ session[d] = "new"
        /\ session' = [session EXCEPT ![d] = "live"]
        /\ servers' = g.servers /\ node' = g.node
        /\ url' = [url EXCEPT ![d] = [addr |-> g.node[g.server], dist |-> d]]
        /\ UNCHANGED <<document, todo, queue>> /\ addr' = addr
    BY DEF ListenerAddress, CreateSession, assignNotificationServer, config, events
  <1>2. Table(TableNow, ToSet(node)) /\ L \in ServerTypes
    BY <1>1 DEF ServersInv, Configured, TableOK, ServerTypes
  <1> HIDE DEF g, addr
  <1>3. /\ Table([servers |-> g.servers, node |-> g.node], ToSet(g.node))
        /\ g.server \in ToSet(g.servers[L]) /\ g.server \in 1..Len(g.node)
        /\ g.node[g.server] = addr \/ g.node[g.server].port # 0
        /\ \A i \in 1..Len(node) : i \in 1..Len(g.node) /\ g.node[i] = node[i]
        /\ \A y \in ServerTypes : ToSet(servers[y]) \subseteq ToSet(g.servers[y])
    BY <1>2, ServerGiven DEF g
  <1>4. TableOK'
    BY <1>1, <1>3 DEF TableOK, TableNow
  <1>5. servers' \in [ServerTypes -> Seq(DOMAIN node')]
    BY <1>4, TableTypes DEF TableOK, TableNow
  <1>6. /\ session' \in [DistSessions -> {"new", "live", "gone"}]
        /\ url' \in [DistSessions -> {url'[e] : e \in DistSessions}]
        /\ session'[d] = "live" /\ url'[d] = [addr |-> g.node[g.server], dist |-> d]
        /\ \A e \in DistSessions \ {d} : session'[e] = session[e] /\ url'[e] = url[e]
    BY <1>1 DEF ServersInv, ServersTypeOK
  <1>7. ASSUME NEW e \in DistSessions, session'[e] = "live"
        PROVE  /\ \E i \in ToSet(servers'[L]) : node'[i] = url'[e].addr
               /\ url'[e].addr = addr' \/ url'[e].addr.port # 0
    <2>1. CASE e = d
      BY <1>1, <1>3, <1>6, <2>1
    <2>2. CASE e # d
      <3>1. PICK i \in ToSet(servers[L]) : node[i] = url[e].addr
        BY <1>1, <1>6, <1>7, <2>2 DEF ServersInv, RoutesOK
      <3>2. i \in 1..Len(node)
        BY <1>2 DEF Table, TableNow, ToSet
      <3>3. url[e].addr = addr \/ url[e].addr.port # 0
        BY <1>1, <1>6, <1>7, <2>2 DEF ServersInv, RoutesOK, addr
      <3>4. QED BY <1>1, <1>2, <1>3, <1>6, <2>2, <3>1, <3>2, <3>3
    <2>3. QED BY <2>1, <2>2
  <1>8. ASSUME NEW e \in DistSessions, session'[e] # "new" PROVE url'[e].dist = e
    BY <1>1, <1>6, <1>8 DEF ServersInv, RoutesOK
  <1>9. QED BY <1>1, <1>4, <1>5, <1>6, <1>7, <1>8
        DEF addr, ServersInv, ServersTypeOK, Phases, ReadingOK, RoutesOK, Configured

\* Requests and events leave the table and the routes alone.
LEMMA EventsKeep ==
    ASSUME ServersInv, UNCHANGED <<config, table, routes>>, phase' \in {phase, "aborted"},
           IsSequence(queue'), Len(queue') <= MaxQueue
    PROVE  ServersInv'
  <1>1. UNCHANGED <<document, todo, servers, node, session, url, ListenerAddress>>
    BY DEF config, table, routes, ListenerAddress
  <1>2. TableOK' = TableOK /\ ReadingOK' = ReadingOK
    BY <1>1 DEF TableOK, TableNow, ReadingOK
  <1>3. QED BY <1>1, <1>2 DEF ServersInv, ServersTypeOK, Phases, RoutesOK, Configured

LEMMA ArrivalKeeps ==
    ASSUME ServersInv, NEW r, NEW i, server_cb(r, i)
    PROVE  ServersInv'
  <1>1. /\ UNCHANGED <<config, table, routes>> /\ phase' = phase
        /\ Len(queue) < MaxQueue
        /\ queue' \in {queue, Append(queue, [request |-> r, server |-> i])}
    BY DEF server_cb
  <1>2. IsSequence(queue)
    BY DEF ServersInv
  <1>3. IsSequence(queue') /\ Len(queue') <= MaxQueue
    <2> DEFINE q == Append(queue, [request |-> r, server |-> i])
    <2>1. IsSequence(q) /\ Len(q) = Len(queue) + 1 /\ Len(queue) \in Nat
      BY <1>2, SequenceAppends
    <2> HIDE DEF q
    <2>2. Len(queue) <= MaxQueue /\ Len(q) <= MaxQueue
      BY <1>1, <2>1, ServersAssumption
    <2>3. QED BY <1>1, <1>2, <2>1, <2>2 DEF q
  <1>4. QED BY <1>1, <1>3, EventsKeep

LEMMA EventLoopKeeps ==
    ASSUME ServersInv, EventLoop
    PROVE  ServersInv'
  <1>1. /\ UNCHANGED <<config, table, routes>> /\ phase' \in {phase, "aborted"}
        /\ queue' = queue \/ (queue # << >> /\ queue' = Tail(queue))
    BY DEF EventLoop, TakeEvent, FinishEvent
  <1>2. IsSequence(queue) /\ Len(queue) <= MaxQueue /\ Len(queue) \in Nat
    BY SequenceAppends DEF ServersInv, ServersTypeOK
  <1>3. IsSequence(queue') /\ Len(queue') <= MaxQueue
    <2>1. CASE queue' = queue
      BY <1>2, <2>1
    <2>2. CASE queue # << >> /\ queue' = Tail(queue)
      <3>1. IsSequence(Tail(queue)) /\ Len(Tail(queue)) <= Len(queue)
        BY <1>2, <2>2, SequenceTaken
      <3>2. Len(Tail(queue)) \in Nat
        BY <3>1, SequenceAppends
      <3>3. QED BY <1>2, <2>2, <3>1, <3>2, ServersAssumption
    <2>3. QED BY <1>1, <2>1, <2>2
  <1>4. QED BY <1>1, <1>3, EventsKeep

\* Start-up, the end of a session and termination.
LEMMA PhasesKeep ==
    ASSUME ServersInv,
           StartUserServAnnServers \/ Initialise \/ Unregister \/ DestroyContext
             \/ TerminateQueue \/ Join \/ Close
    PROVE  ServersInv'
  <1>1. UNCHANGED <<document, todo, node, url, queue, ListenerAddress>>
    BY DEF StartUserServAnnServers, Initialise, Unregister, DestroyContext, TerminateQueue,
       Join, Close, config, table, routes, events, ListenerAddress
  <1>2. CASE DestroyContext
    <2>1. /\ phase' \in {"destroyed", "aborted"} /\ servers' = [type \in ServerTypes |-> << >>]
          /\ session' = [d \in DistSessions |-> "gone"]
      BY <1>2 DEF DestroyContext
    <2>2. servers' \in [ServerTypes -> Seq(DOMAIN node')]
      BY <2>1
    <2>3. QED BY <1>1, <2>1, <2>2
          DEF ServersInv, ServersTypeOK, Phases, ReadingOK, RoutesOK, Configured
  <1>3. CASE ~DestroyContext
    <2>1. /\ UNCHANGED <<servers, session>> /\ phase' \in Phases
          /\ Configured' => Configured
          /\ phase' \in {"config", "start"} => phase \in {"config", "start"}
          /\ phase' = "running" => phase = "start"
      BY <1>3 DEF StartUserServAnnServers, Initialise, Unregister, TerminateQueue,
         Join, Close, config, table, routes, events, Phases, Configured
    <2>2. TableOK' = TableOK /\ ReadingOK' = ReadingOK
      BY <1>1, <2>1 DEF TableOK, TableNow, ReadingOK
    <2>3. QED BY <1>1, <2>1, <2>2 DEF ServersInv, ServersTypeOK, RoutesOK
  <1>4. QED BY <1>2, <1>3

LEMMA RemoveSessionKeeps ==
    ASSUME ServersInv, NEW d \in DistSessions, RemoveSession(d)
    PROVE  ServersInv'
  <1>1. /\ UNCHANGED <<phase, document, todo, servers, node, url, queue, ListenerAddress>>
        /\ phase = "running"
        /\ session[d] = "live" /\ session' = [session EXCEPT ![d] = "gone"]
    BY DEF RemoveSession, config, table, events, ListenerAddress
  <1>2. /\ session' \in [DistSessions -> {"new", "live", "gone"}]
        /\ \A e \in DistSessions \ {d} : session'[e] = session[e]
        /\ session'[d] = "gone"
    BY <1>1 DEF ServersInv, ServersTypeOK
  <1>3. TableOK' = TableOK /\ ReadingOK' = ReadingOK
    BY <1>1 DEF TableOK, TableNow, ReadingOK
  <1>4. QED BY <1>1, <1>2, <1>3 DEF ServersInv, ServersTypeOK, RoutesOK, Configured

LEMMA ServersStart == ServersInit => ServersInv
  <1> SUFFICES ASSUME ServersInit PROVE ServersInv
    OBVIOUS
  <1> DEFINE svrs == [type \in ServerTypes |-> IF type = "OPEN5GS_SBI_SERVER"
                                              THEN [i \in DOMAIN SbiServers |-> i] ELSE << >>]
  <1>1. /\ phase = "config" /\ document \in Documents /\ todo = document.mbsf
        /\ servers = svrs /\ node = SbiServers
        /\ session = [d \in DistSessions |-> "new"] /\ url = [d \in DistSessions |-> None]
        /\ queue = << >>
    BY DEF ServersInit
  <1>2. /\ SbiServers \in Seq(ToSet(SbiServers)) /\ IsInjective(SbiServers)
        /\ Len(SbiServers) \in Nat /\ DOMAIN SbiServers = 1..Len(SbiServers)
    BY ServersAssumption DEF IsSequence
  <1>3. /\ [i \in DOMAIN SbiServers |-> i] \in Seq(1..Len(SbiServers))
        /\ \A i \in 1..Len(SbiServers) : i \in ToSet([j \in DOMAIN SbiServers |-> j])
    BY <1>2 DEF ToSet
  <1>4. svrs \in [ServerTypes -> Seq(1..Len(SbiServers))]
    <2> DEFINE T == Seq(1..Len(SbiServers))
    <2>1. << >> \in T /\ [i \in DOMAIN SbiServers |-> i] \in T
      BY <1>3
    <2> HIDE DEF T
    <2>2. svrs \in [ServerTypes -> T]
      BY <2>1
    <2>3. QED BY <2>2 DEF T
  <1>5. \A i \in 1..Len(SbiServers) : i \in ToSet(svrs["OPEN5GS_SBI_SERVER"])
    BY <1>3 DEF ServerTypes
  <1> HIDE DEF svrs
  <1>6. TableOK
    BY <1>1, <1>2, <1>4, <1>5 DEF TableOK, TableNow, Table, ServerTypes
  <1>7. servers \in [ServerTypes -> Seq(DOMAIN node)]
    BY <1>1, <1>2, <1>4
  <1>8. IsSequence(todo)
    BY <1>1, DocumentsAssumption
  <1>9. IsSequence(queue) /\ Len(queue) <= MaxQueue
    BY <1>1, EmptySequence, ServersAssumption
  <1>10. QED BY <1>1, <1>6, <1>7, <1>8, <1>9
         DEF ServersInv, ServersTypeOK, Phases, ReadingOK, RoutesOK

LEMMA ServersStep == ServersInv /\ [ServersNext]_serverVars => ServersInv'
  <1> SUFFICES ASSUME ServersInv, [ServersNext]_serverVars PROVE ServersInv'
    OBVIOUS
  <1>1. CASE ParseSection
    BY <1>1, ParseSectionKeeps
  <1>2. CASE \E d \in DistSessions : CreateSession(d) \/ RemoveSession(d)
    BY <1>2, CreateSessionKeeps, RemoveSessionKeeps
  <1>3. CASE \/ \E d \in DistSessions : MbstfNotifies(d)
             \/ \E r \in Requests, i \in DOMAIN node : RequestArrives(r, i)
    BY <1>3, ArrivalKeeps DEF MbstfNotifies, RequestArrives
  <1>4. CASE EventLoop
    BY <1>4, EventLoopKeeps
  <1>5. CASE WorkersBlock
    BY <1>5, EventsKeep DEF WorkersBlock, ServersInv, ServersTypeOK
  <1>6. CASE StartUserServAnnServers \/ Initialise \/ Unregister \/ DestroyContext
               \/ TerminateQueue \/ Join \/ Close
    BY <1>6, PhasesKeep
  <1>7. CASE UNCHANGED serverVars
    <2>1. UNCHANGED <<config, table, routes>> /\ phase' = phase /\ queue' = queue
      BY <1>7 DEF serverVars, events
    <2>2. QED BY <2>1, EventsKeep DEF ServersInv, ServersTypeOK
  <1>8. QED BY <1>1, <1>2, <1>3, <1>4, <1>6, <1>7, <1>5 DEF ServersNext, EventLoop

-----------------------------------------------------------------------------
(* Who answers.                                                            *)

\* The first of five handlers that does not pass.
LEMMA FirstOffer ==
    ASSUME NEW S, NEW offers \in Seq(S), NEW n \in 1..Len(offers), offers[n] # "pass",
           \A m \in 1..(n - 1) : offers[m] = "pass"
    PROVE  SelectInSeq(offers, LAMBDA o : o # "pass") = n
  <1> DEFINE I == {i \in 1..Len(offers) : offers[i] # "pass"}
  <1>1. n \in I /\ I \subseteq Nat /\ Len(offers) \in Nat
    OBVIOUS
  <1>2. \A i \in I : n <= i
    OBVIOUS
  <1>3. SelectInSeq(offers, LAMBDA o : o # "pass") = Min(I)
    BY <1>1 DEF SelectInSeq
  <1> HIDE DEF I
  <1>4. Min(I) \in I /\ \A i \in I : Min(I) <= i
    BY <1>1, MinIs
  <1>5. Min(I) = n
    <2>1. PICK m : m = Min(I)
      OBVIOUS
    <2>2. m \in Nat /\ n \in Nat /\ n <= m /\ m <= n
      BY <1>1, <1>2, <1>4, <2>1
    <2>3. QED BY <2>1, <2>2
  <1>6. QED BY <1>3, <1>5

LEMMA DispatchIs ==
    ASSUME NEW r, NEW i
    PROVE  /\ UserServiceEvent(r) # "pass" => dispatch(r, i) = UserServiceEvent(r)
           /\ UserServiceEvent(r) = "pass" /\ StatSubscEvent(r) # "pass"
                 => dispatch(r, i) = StatSubscEvent(r)
           /\ UserServiceEvent(r) = "pass" /\ StatSubscEvent(r) = "pass"
                 /\ IngSessionEvent(r) # "pass"
                 => dispatch(r, i) = IngSessionEvent(r)
           /\ UserServiceEvent(r) = "pass" /\ StatSubscEvent(r) = "pass"
                 /\ IngSessionEvent(r) = "pass" /\ Nmb2Event(r, i) # "pass"
                 => dispatch(r, i) = Nmb2Event(r, i)
  <1> DEFINE a == UserServiceEvent(r)
             b == StatSubscEvent(r)
             c == IngSessionEvent(r)
             d == Nmb2Event(r, i)
             e == DefaultEvent(r)
             o == <<a, b, c, d, e>>
             n == SelectInSeq(o, LAMBDA x : x # "pass")
  <1>1. dispatch(r, i) = o[n]
    BY DEF dispatch
  <1> HIDE DEF a, b, c, d, e
  <1>2. o \in Seq({a, b, c, d, e}) /\ Len(o) = 5
    OBVIOUS
  <1>3. o[1] = a /\ o[2] = b /\ o[3] = c /\ o[4] = d
    OBVIOUS
  <1> HIDE DEF o
  <1>4. a # "pass" => n = 1
    BY <1>2, <1>3, FirstOffer
  <1>5. a = "pass" /\ b # "pass" => n = 2
    BY <1>2, <1>3, FirstOffer
  <1>6. a = "pass" /\ b = "pass" /\ c # "pass" => n = 3
    BY <1>2, <1>3, FirstOffer
  <1>7. a = "pass" /\ b = "pass" /\ c = "pass" /\ d # "pass" => n = 4
    BY <1>2, <1>3, FirstOffer
  <1> HIDE DEF n
  <1>8. QED BY <1>1, <1>3, <1>4, <1>5, <1>6, <1>7 DEF a, b, c, d

\* A request of an API goes to the component that owns its resource.
LEMMA OwnerAnswers ==
    ASSUME NEW r, NEW i, r.parses, r.version = "v1", Owner(r) # "none"
    PROVE  dispatch(r, i) = Owner(r)
  <1>1. CASE r.service = "nmbsf-mbs-us" /\ r.resource = "mbs-user-services"
    <2>1. Owner(r) = "UserService" /\ UserServiceEvent(r) = "UserService"
      BY <1>1 DEF Owner, UserServiceEvent
    <2>2. QED BY <2>1, DispatchIs
  <1>2. CASE r.service = "nmbsf-mbs-ud-ingest" /\ r.resource = "status-subscriptions"
    <2>1. /\ Owner(r) = "UserDataIngStatSubsc" /\ UserServiceEvent(r) = "pass"
          /\ StatSubscEvent(r) = "UserDataIngStatSubsc"
      BY <1>2 DEF Owner, UserServiceEvent, StatSubscEvent
    <2>2. QED BY <2>1, DispatchIs
  <1>3. CASE r.service = "nmbsf-mbs-ud-ingest" /\ r.resource = "sessions"
    <2>1. /\ Owner(r) = "UserDataIngSession" /\ UserServiceEvent(r) = "pass"
          /\ StatSubscEvent(r) = "pass" /\ IngSessionEvent(r) = "UserDataIngSession"
      BY <1>3 DEF Owner, UserServiceEvent, StatSubscEvent, IngSessionEvent
    <2>2. QED BY <2>1, DispatchIs
  <1>4. QED BY <1>1, <1>2, <1>3 DEF Owner

LEMMA ListenerAnswers ==
    ASSUME NEW i, NEW d, session[d] = "live", serverIsType(i, "MBS_NOTIFICATION_LISTENER")
    PROVE  dispatch(Notification(d), i) = "processStatusNotifyReqData"
  <1> DEFINE r == Notification(d)
  <1>1. r.parses /\ r.service = "notify" /\ r.method = "POST" /\ r.dist = d
    BY DEF Notification
  <1> HIDE DEF r
  <1>2. UserServiceEvent(r) = "pass" /\ StatSubscEvent(r) = "pass" /\ IngSessionEvent(r) = "pass"
    BY <1>1 DEF UserServiceEvent, StatSubscEvent, IngSessionEvent
  <1>3. Nmb2Event(r, i) = "processStatusNotifyReqData"
    BY <1>1 DEF Nmb2Event
  <1>4. dispatch(r, i) = "processStatusNotifyReqData"
    BY <1>2, <1>3, DispatchIs
  <1>5. QED BY <1>4 DEF r

LEMMA InvReturns == ServersInv => NotificationsReturn
  <1> SUFFICES ASSUME ServersInv, phase = "running" PROVE NotificationsReturn
    BY DEF NotificationsReturn
  <1>1. ASSUME NEW d \in DistSessions, session[d] = "live", ~SharesPortZero
        PROVE  /\ ListensAt(url[d].addr) # 0
               /\ dispatch(Notification(d), ListensAt(url[d].addr)) = "processStatusNotifyReqData"
               /\ \A e \in DistSessions \ {d} : session[e] # "new" => url[e] # url[d]
    <2>1. PICK i \in ToSet(servers["MBS_NOTIFICATION_LISTENER"]) : node[i] = url[d].addr
      BY <1>1 DEF ServersInv, RoutesOK
    <2>2. /\ servers["MBS_NOTIFICATION_LISTENER"] \in Seq(1..Len(node)) /\ DOMAIN node = 1..Len(node)
          /\ Len(node) \in Nat /\ IsInjective(node)
      BY DEF ServersInv, Configured, TableOK, TableNow, Table, ServerTypes
    <2>3. i \in 1..Len(node) /\ i # 0
      BY <2>2 DEF ToSet
    <2>4. url[d].addr.port # 0
      <3>1. url[d].addr = ListenerAddress \/ url[d].addr.port # 0
        BY <1>1 DEF ServersInv, RoutesOK
      <3>2. QED BY <1>1, <2>1, <2>2, <2>3, <3>1 DEF SharesPortZero
    <2>5. {j \in DOMAIN node : node[j] = url[d].addr /\ url[d].addr.port # 0} = {i}
      BY <2>1, <2>2, <2>3, <2>4 DEF IsInjective
    <2>6. ListensAt(url[d].addr) = i
      BY <2>5 DEF ListensAt
    <2>7. dispatch(Notification(d), i) = "processStatusNotifyReqData"
      BY <1>1, <2>1, ListenerAnswers DEF serverIsType
    <2>8. \A e \in DistSessions \ {d} : session[e] # "new" => url[e] # url[d]
      BY <1>1 DEF ServersInv, RoutesOK
    <2>9. QED BY <2>3, <2>6, <2>7, <2>8
  <1>2. QED BY <1>1, OwnerAnswers DEF NotificationsReturn

\* The table of servers stays sound and every live distribution session's URL is at a
\* notification listener.
THEOREM ServersConsistent == ServersSpec => []ServersInv
  BY ServersStart, ServersStep, PTL DEF ServersSpec

\* Type correctness of NfServers.
THEOREM ServersTypeCorrect == ServersSpec => []ServersTypeOK
  <1>1. ServersInv => ServersTypeOK
    BY DEF ServersInv
  <1>2. QED BY <1>1, ServersConsistent, PTL

\* A notification of the MBSTF comes back to its distribution session, at a server of the
\* listener's own or a shared one (Context.cc:838 and 900, Nmb2Handler.cc:107), in every
\* configuration that does not give a server port 0 at the listener's address; and each
\* request of an API comes to its owner in every configuration.
THEOREM NotificationsComeBack == ServersSpec => []NotificationsReturn
  BY InvReturns, ServersConsistent, PTL
===================================================================================
