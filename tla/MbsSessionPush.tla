---------------------------- MODULE MbsSessionPush ----------------------------
(***************************************************************************)
(* One MBSMFMBSSession object at work: the MBSF changes the activity       *)
(* status, deletes the session or destroys the object at any moment, while *)
(* the MB-SMF answers the outstanding requests, possibly with errors.      *)
(***************************************************************************)
EXTENDS MBSMFMBSSession, Naturals

VARIABLES mbs,        \* the handle
          smf,        \* what the MB-SMF holds: a status, NOTHING or DELETE
          failed,     \* the MB-SMF refused the last request it answered
          attached    \* the library still has the object's callback

vars == <<mbs, smf, failed, attached>>

TypeOK == /\ mbs \in MbsSession
          /\ smf \in MbsRequest \cup {NOTHING}
          /\ failed \in BOOLEAN
          /\ attached \in BOOLEAN

\* createMbsSession: new object, setCallback, populate_mb_smf_mbs_session,
\* which sets the activity status and pushes.
Init == /\ \E status \in ActivityStatus : mbs = PushChanges(NewMbsSession(status))
        /\ smf = NOTHING
        /\ failed = FALSE
        /\ attached = TRUE

-----------------------------------------------------------------------------
\* sendMbsmfActivityStatus, and the first half of the DELETE_SESSION handler:
\* setActivityStatus followed by pushChanges.
SendActivityStatus(status) ==
    /\ attached
    /\ mbs' = PushChanges(SetActivityStatus(mbs, status))
    /\ UNCHANGED <<smf, failed, attached>>

\* setMBSTFDistSessionDeletedFlag, clearDistributionSessionInfos.
Delete == /\ attached
          /\ mbs' = DeleteSession(mbs)
          /\ UNCHANGED <<smf, failed, attached>>

\* The destructor: deletes the session and detaches the callback.
Destroy == /\ attached
           /\ mbs' = DeleteSession(mbs)
           /\ attached' = FALSE
           /\ UNCHANGED <<smf, failed>>

\* The MB-SMF answers the oldest request and the library calls back, if the
\* object is still there.
Answer(ok) ==
    /\ mbs.ops # << >>
    /\ LET done == ok /\ Head(mbs.ops) = DELETE
       IN  mbs' = IF attached THEN MbsSessionCallback(mbs, done)
                              ELSE [mbs EXCEPT !.ops = Tail(@)]
    /\ smf' = IF ok THEN Head(mbs.ops) ELSE smf
    /\ failed' = ~ok
    /\ UNCHANGED attached

Next == \/ \E status \in ActivityStatus : SendActivityStatus(status)
        \/ Delete
        \/ Destroy
        \/ \E ok \in BOOLEAN : Answer(ok)

Spec == Init /\ [][Next]_vars

\* The MB-SMF answers, or the library times the request out with an error.
FairSpec == Spec /\ WF_vars(\E ok \in BOOLEAN : Answer(ok))

-----------------------------------------------------------------------------
\* At most one create or update is outstanding at the MB-SMF, only a delete
\* may be sent behind it, and nothing is sent behind a delete: updates cannot
\* overtake each other and a deleted session is not revived.
NoOvertaking ==
    \/ Len(mbs.ops) <= 1
    \/ Len(mbs.ops) = 2 /\ mbs.ops[1] # DELETE /\ mbs.ops[2] = DELETE

\* A status asked for while a change is in flight is not lost: once nothing
\* is outstanding, and unless the MB-SMF refused the last request, it holds
\* what the MBSF wants (the status last set, or the deletion).
Settled == mbs.ops = << >> /\ ~failed => smf = Target(mbs)

\* After OGS_DONE the library session is gone, and no request that would call
\* back into the object with it is outstanding.
DoneIsLast == ~mbs.session => mbs.ops = << >>

\* The inductive invariant behind the three above.  Before the delete, nothing
\* is outstanding and all is sent, or one request is outstanding and what
\* differs from it is remembered in sendUpdates; after it, the delete is the
\* last request outstanding or answered.
Idle == mbs.ops = << >> /\ ~mbs.inFlight /\ ~mbs.sendUpdates /\ mbs.sent = mbs.status

OneOutstanding == /\ Len(mbs.ops) = 1 /\ mbs.ops[1] = mbs.sent /\ mbs.inFlight
                  /\ mbs.sent # mbs.status => mbs.sendUpdates

BeforeDelete == /\ attached /\ mbs.session /\ mbs.sent \in ActivityStatus
                /\ Idle \/ OneOutstanding

AfterDelete == /\ mbs.sent = DELETE
               /\ \/ mbs.ops = << >>
                  \/ mbs.session /\ Len(mbs.ops) = 1 /\ mbs.ops[1] = DELETE
                  \/ /\ mbs.session /\ Len(mbs.ops) = 2
                     /\ mbs.ops[1] # DELETE /\ mbs.ops[2] = DELETE

PushInv == /\ TypeOK
           /\ IF mbs.deleted THEN AfterDelete ELSE BeforeDelete
           /\ mbs.ops = << >> /\ ~failed => smf = mbs.sent

\* The MB-SMF never falls behind for ever: again and again the library has
\* sent the newest target, however often the status is changed meanwhile.
CatchesUp == []<>(mbs.sent = Target(mbs))

\* A deleted or destroyed object's session is eventually answered by the
\* MB-SMF to the last request, which is the delete.
DeleteDelivered == mbs.deleted ~> (mbs.ops = << >> /\ mbs.sent = DELETE)

-----------------------------------------------------------------------------
\* The handle implements the register: what it wants is its target, what is
\* pending is the oldest request outstanding.  The flags inFlight and
\* sendUpdates, the second request behind the first and the detached callback
\* are how it does so, and are not seen from outside.
Pending == IF mbs.ops = << >> THEN NOTHING ELSE Head(mbs.ops)

Register == INSTANCE MbsRegister
            WITH Status <- ActivityStatus, want <- Target(mbs),
                 pending <- Pending, held <- smf

\* Every step of the handle is a write, an answer or invisible: no write is
\* lost, reordered or sent twice, and nothing is sent after the deletion.
ImplementsRegister == Register!Spec
=============================================================================
