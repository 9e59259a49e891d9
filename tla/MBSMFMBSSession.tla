--------------------------- MODULE MBSMFMBSSession ---------------------------
(***************************************************************************)
(* The MBSF's handle on one MBS Session at the MB-SMF (MBSMFMBSSession.cc) *)
(* and the part of the mb-smf-service-consumer library it drives.          *)
(*                                                                         *)
(* The handle is a record, so that a component with one handle per         *)
(* distribution session can keep a function of them:                       *)
(*   session      m_session is not null                                    *)
(*   inFlight     m_changesInFlight                                        *)
(*   sendUpdates  m_sendUpdates                                            *)
(*   status       the activity status set in the library's session object  *)
(*   deleted      the library's session object is marked for deletion      *)
(*   sent         what the library last sent to the MB-SMF                 *)
(*   ops          the requests sent to the MB-SMF and not answered yet     *)
(* The library is external (a submodule of the repository).  It is modelled *)
(* from its use: a push sends one request, and returns true, exactly when  *)
(* the session differs from what was last sent, and the MB-SMF answers the *)
(* requests for one session in the order they were sent.                   *)
(***************************************************************************)
EXTENDS Sequences

CONSTANTS ACTIVE, INACTIVE,   \* mb_smf_sc_activity_status_e
          DELETE,             \* the request that deletes the MBS Session
          NOTHING             \* nothing was sent yet

ASSUME StatusAssumption ==
    /\ ACTIVE # INACTIVE /\ DELETE \notin {ACTIVE, INACTIVE}
    /\ NOTHING \notin {ACTIVE, INACTIVE, DELETE}

ActivityStatus == {ACTIVE, INACTIVE}

\* A request to the MB-SMF: create or update to a status, or delete.
MbsRequest == ActivityStatus \cup {DELETE}

MbsSession == [session: BOOLEAN, inFlight: BOOLEAN, sendUpdates: BOOLEAN,
               status: ActivityStatus, deleted: BOOLEAN,
               sent: MbsRequest \cup {NOTHING}, ops: Seq(MbsRequest)]

-----------------------------------------------------------------------------
(* The library.                                                            *)

\* What the MB-SMF should be told.
Target(s) == IF s.deleted THEN DELETE ELSE s.status

\* mb_smf_sc_mbs_session_push_changes: returns whether a request was sent ...
LibHasChanges(s) == s.session /\ s.sent # Target(s)

\* ... and sends it.
LibPush(s) ==
    IF LibHasChanges(s)
    THEN [s EXCEPT !.sent = Target(s), !.ops = Append(@, Target(s))]
    ELSE s

-----------------------------------------------------------------------------
(* MBSMFMBSSession.                                                        *)

\* The constructor on a new library session object.
NewMbsSession(status) ==
    [session |-> TRUE, inFlight |-> FALSE, sendUpdates |-> FALSE,
     status |-> status, deleted |-> FALSE, sent |-> NOTHING, ops |-> << >>]

\* No handle: the context data's MBSSession pointer is null.
NoMbsSession(status) == [NewMbsSession(status) EXCEPT !.session = FALSE]

SetActivityStatus(s, status) ==
    IF s.session THEN [s EXCEPT !.status = status] ELSE s

\* Mutant: pushes whether or not a change is in flight.
PushChangesAlways(s) ==
    IF LibHasChanges(s) THEN [LibPush(s) EXCEPT !.inFlight = TRUE,
                                                !.sendUpdates = FALSE]
                        ELSE s

\* Mutant: forgets that an update was asked for while one is in flight.
PushChangesForgets(s) ==
    IF s.inFlight \/ ~LibHasChanges(s)
    THEN s
    ELSE [LibPush(s) EXCEPT !.inFlight = TRUE, !.sendUpdates = FALSE]

\* pushChanges: one change in flight at a time, later ones are coalesced.
PushChanges(s) ==
    IF s.inFlight
    THEN [s EXCEPT !.sendUpdates = TRUE]
    ELSE IF LibHasChanges(s)
         THEN [LibPush(s) EXCEPT !.inFlight = TRUE, !.sendUpdates = FALSE]
         ELSE s

\* Mutant: the object is marked deleted and the request never pushed.
DeleteSessionNotPushed(s) ==
    IF s.session
    THEN [s EXCEPT !.deleted = TRUE, !.inFlight = TRUE, !.sendUpdates = FALSE]
    ELSE s

\* deleteSession: pushed at once, whatever is in flight.
DeleteSession(s) ==
    IF s.session
    THEN [LibPush([s EXCEPT !.deleted = TRUE])
            EXCEPT !.inFlight = TRUE, !.sendUpdates = FALSE]
    ELSE s

\* Mutant: the coalesced changes are dropped with the answer.
MbsSessionCallbackDrops(s, done) ==
    [s EXCEPT !.ops = Tail(@), !.inFlight = FALSE, !.sendUpdates = FALSE,
              !.session = @ /\ ~done]

\* Mutant: the session is forgotten with the first answer after the deletion,
\* not with OGS_DONE.
MbsSessionCallbackForgets(s, done) ==
    LET answered == [s EXCEPT !.ops = Tail(@), !.inFlight = FALSE,
                              !.session = @ /\ ~s.deleted]
    IN  IF answered.sendUpdates
        THEN PushChanges([answered EXCEPT !.sendUpdates = FALSE])
        ELSE answered

\* mbsSessionCallback for the oldest request: done is true for OGS_DONE,
\* the result of a delete.  A session that is done is forgotten; changes
\* asked for meanwhile are pushed.
MbsSessionCallback(s, done) ==
    LET answered == [s EXCEPT !.ops = Tail(@), !.inFlight = FALSE,
                              !.session = @ /\ ~done]
    IN  IF answered.sendUpdates
        THEN PushChanges([answered EXCEPT !.sendUpdates = FALSE])
        ELSE answered
=============================================================================
