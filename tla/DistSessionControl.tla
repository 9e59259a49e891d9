------------------------- MODULE DistSessionControl -------------------------
(***************************************************************************)
(* The control loop that keeps the MBSTF's distribution sessions of an     *)
(* established ingest session in the state its schedule asks for           *)
(* (UserDataIngSession.cc, Nmb2Build.cc, Nmb2Handler.cc,                   *)
(* DistributionSessionInfo.cc): PATCH requests, their answers and the      *)
(* MBSTF's notifications, the timer of the schedule, and PUTs of the AF.   *)
(*                                                                         *)
(* The schedule is a sequence of phases (module ActivePeriods says how     *)
(* windows and rules make one); a request and its discovery are one step,  *)
(* since the MBSTF of a session is known.  The module has no end of the    *)
(* ingest session, neither by a DELETE nor by an answer to a PATCH that    *)
(* cannot be parsed, after which Nmb2Handler sends DELETEs to the MBSTF.   *)
(***************************************************************************)
EXTENDS Integers, Sequences, FiniteSets, SequencesExt

CONSTANTS Key,          \* the distribution sessions of the ingest session
          Phases,       \* the states the active periods ask for, in order
          MaxDisturbed  \* PUTs, refused PATCHes, lost answers and failures, in all

DistSessionState == {"INACTIVE", "ESTABLISHED", "ACTIVE"}
Unset == "UNSET"
NoContent == 0

ASSUME ControlAssumption ==
    /\ IsFiniteSet(Key) /\ Key # {}
    /\ Phases \in Seq(DistSessionState) /\ Phases # << >>
    /\ MaxDisturbed \in Nat

VARIABLES phase,    \* the current one of Phases
          periods,  \* m_activePeriods: does it hold Phases, or is it AlwaysActive?
          timer,    \* m_activePeriodsTimer: the phase it waits for, 0 when stopped
          ctx,      \* per key: ContextData, see Context
          local,    \* local events in the queue
          wire,     \* per key: PATCH requests on their way to the MBSTF
          answers,  \* per key: answers to PATCHes
          notifs,   \* per key: notifications of the MBSTF
          stf,      \* per key: the MBSTF's distribution session
          disturbed, \* disturbances so far
          lapses     \* history: what may have left a session behind, see Lapse

vars == <<phase, periods, timer, ctx, local, wire, answers, notifs, stf, disturbed, lapses>>

\* ContextData: the wanted state and a version for the rest of the info, the
\* state last requested from and last reported by the MBSTF, the flags, and the
\* activity status the MB-SMF is given.
Context == [info: DistSessionState, content: Nat,
            requested: DistSessionState,
            reported: DistSessionState \cup {"DEACTIVATING", Unset},
            stateUpdate: BOOLEAN, needsUpdate: BOOLEAN,
            receivedMBSTFPatchResponse: BOOLEAN,
            activity: {"ACTIVE", "INACTIVE", Unset}]

Patch == [state: DistSessionState, content: Nat]
Fault == {"none", "forbidden", "refused", "failed"}

\* overlap: a stimulus that comes before all is quiet
\* silent:  a PUT that changes the wanted state and no more
\* update:  a refused PATCH with a new content
\* lost:    a refusal that does not arrive
\* early:   a refusal before every key has had its first answer
\* revived: the retry of another key's PATCH restores a session that has failed
Lapse == {"overlap", "silent", "update", "lost", "early", "revived"}
Event == [event: {"PATCH_BUILD", "PATCH_ROLLBACK"}, key: Key]

TimerDue == timer # 0 /\ timer <= phase

\* Nothing is under way.
Quiet == /\ local = << >> /\ ~TimerDue
         /\ \A k \in Key : <<wire[k], answers[k], notifs[k]>> = <<<< >>, << >>, << >>>>

-----------------------------------------------------------------------------
(* What a handler does to one distribution session: its context afterwards *)
(* and the PATCHes that are sent.                                          *)

\* getDistSessionState
Want(c) == IF periods THEN Phases[phase] ELSE c.info

Effect(c, patches) == [ctx |-> c, out |-> patches]

\* sendMbsmfActivityStatus
SendActivityStatus(c) ==
    [c EXCEPT !.activity = IF c.info = "INACTIVE" THEN "INACTIVE" ELSE "ACTIVE"]

\* Mutant: ESTABLISHED is asked for directly.
PatchStateDirect(c) == Want(c)

\* The state a PATCH asks for: never straight from ACTIVE to ESTABLISHED,
\* unless it replaces the whole session.
PatchState(c) ==
    IF ~c.needsUpdate /\ Want(c) = "ESTABLISHED" /\ c.reported = "ACTIVE"
    THEN "INACTIVE" ELSE Want(c)

\* buildNmb2DistSessionPatch
SendPatch(c) ==
    Effect([c EXCEPT !.requested = PatchState(c)],
           <<[state |-> PatchState(c),
              content |-> IF c.needsUpdate THEN c.content ELSE NoContent]>>)

\* Mutant: the change is not marked as one to be completed.
ChangeStateUnmarked(c) ==
    LET d == SendActivityStatus([c EXCEPT !.info = Want(c)])
    IN  IF Want(c) = c.requested THEN Effect(c, << >>)
        ELSE IF c.needsUpdate \/ Want(c) # c.reported THEN SendPatch(d)
        ELSE Effect(d, << >>)

\* _changeDistSessionState, for one distribution session
ChangeState(c) ==
    LET d == SendActivityStatus([c EXCEPT !.stateUpdate = TRUE, !.info = Want(c)])
    IN  IF Want(c) = c.requested THEN Effect(c, << >>)
        ELSE IF c.needsUpdate \/ Want(c) # c.reported THEN SendPatch(d)
        ELSE Effect(d, << >>)

\* The PATCH_BUILD and PATCH_ROLLBACK events: a PATCH, if still needed.
PatchIfNeeded(c) ==
    IF c.needsUpdate \/ (c.stateUpdate /\ c.reported # Want(c))
    THEN SendPatch(c) ELSE Effect(c, << >>)

\* setMbstfsInDesiredState: all are looked at again as soon as one is not in
\* the desired state.
OffTarget(cs) == \E k \in Key : cs[k].info # Want(cs[k])
InDesiredState(cs) ==
    [k \in Key |-> IF OffTarget(cs) THEN ChangeState(cs[k]) ELSE Effect(cs[k], << >>)]

Apply(effects) == /\ ctx' = [k \in Key |-> effects[k].ctx]
                  /\ wire' = [k \in Key |-> wire[k] \o effects[k].out]

\* Only the context of k, and what it sends.
ApplyTo(k, effect) == /\ ctx' = [ctx EXCEPT ![k] = effect.ctx]
                      /\ wire' = [wire EXCEPT ![k] = @ \o effect.out]

\* startTimer
StartTimer(p) == timer' = IF p /\ phase < Len(Phases) THEN phase + 1 ELSE 0

LocalEvents(event, keys) ==
    LET ks == SetToSeq(keys) IN [i \in DOMAIN ks |-> [event |-> event, key |-> ks[i]]]

-----------------------------------------------------------------------------
(* The ingest session has been created: the MBSTF was asked for the first  *)
(* phase and may notify it.                                                *)
Init ==
    /\ phase = 1
    /\ periods = TRUE
    /\ timer = IF Len(Phases) > 1 THEN 2 ELSE 0
    /\ ctx = [k \in Key |-> [info |-> Phases[1], content |-> 1,
                             requested |-> Phases[1], reported |-> Unset,
                             stateUpdate |-> FALSE, needsUpdate |-> FALSE,
                             receivedMBSTFPatchResponse |-> FALSE, activity |-> Unset]]
    /\ local = << >>
    /\ wire = [k \in Key |-> << >>]
    /\ answers = [k \in Key |-> << >>]
    /\ notifs \in [Key -> {<< >>, <<Phases[1]>>}]
    /\ stf = [k \in Key |-> [state |-> Phases[1], content |-> 1, fault |-> "none"]]
    /\ disturbed = 0
    /\ lapses = {}

Disturb == disturbed < MaxDisturbed /\ disturbed' = disturbed + 1

Lapsed(cases) == lapses' = lapses \cup cases

\* A phase, a PUT or a failure need not wait until the last one is dealt with.
Overlap == IF Quiet THEN {} ELSE {"overlap"}

-----------------------------------------------------------------------------
(* Timer and AF.                                                           *)

\* The next phase of the schedule begins.
PhaseBegins ==
    /\ phase < Len(Phases)
    /\ phase' = phase + 1
    /\ Lapsed(Overlap)
    /\ UNCHANGED <<periods, timer, ctx, local, wire, answers, notifs, stf, disturbed>>

\* Mutant: the timer is not started again.
TimerExpiresOnce ==
    /\ TimerDue /\ local = << >>
    /\ Apply([k \in Key |-> ChangeState(ctx[k])])
    /\ timer' = 0
    /\ UNCHANGED <<phase, periods, local, answers, notifs, stf, disturbed, lapses>>

\* changeDistSessionState.  The main loop looks at timers when its queue is
\* empty.
TimerExpires ==
    /\ TimerDue /\ local = << >>
    /\ Apply([k \in Key |-> ChangeState(ctx[k])])
    /\ StartTimer(periods)
    /\ UNCHANGED <<phase, periods, local, answers, notifs, stf, disturbed, lapses>>

\* processUserDataIngSessionUpdate: a PUT keeps or drops the active periods (p)
\* and sends an info for each key, with its state (s) and with a new content
\* (for the keys in new).  An info that differs from the old one replaces it;
\* its state is then what the schedule asks for.  Since that leaves no info off
\* target, setMbstfsInDesiredState has nothing to do.
Put(p, new, s) ==
    LET differs == {k \in Key : k \in new \/ s[k] # ctx[k].info}
        want(k) == CASE p -> Phases[phase]
                     [] ~p /\ s[k] = Unset -> "ACTIVE"
                     [] OTHER -> s[k]
        updated == [k \in Key |->
            [ctx[k] EXCEPT !.needsUpdate = k \in differs,
                           !.info = want(k),
                           !.content = IF k \in new THEN @ + 1 ELSE @]]
        patched == {k \in Key : updated[k].needsUpdate \/ updated[k].stateUpdate}
        silent == {k \in Key \ differs : want(k) # ctx[k].info}
    IN  /\ Disturb
        /\ periods' = p
        /\ ctx' = [k \in Key |-> IF k \in patched THEN SendActivityStatus(updated[k])
                                                  ELSE updated[k]]
        /\ local' = local \o LocalEvents("PATCH_BUILD", patched)
        /\ StartTimer(p)
        /\ Lapsed(Overlap \cup (IF silent # {} THEN {"silent"} ELSE {}))
        /\ UNCHANGED <<phase, wire, answers, notifs, stf>>

-----------------------------------------------------------------------------
(* Local events.                                                           *)

HandlePatchBuild ==
    /\ local # << >> /\ Head(local).event = "PATCH_BUILD"
    /\ LET k == Head(local).key IN ApplyTo(k, PatchIfNeeded(SendActivityStatus(ctx[k])))
    /\ local' = Tail(local)
    /\ UNCHANGED <<phase, periods, timer, answers, notifs, stf, disturbed, lapses>>

\* The info of a session that failed stays INACTIVE when it is patched here.
HandlePatchRollback ==
    /\ local # << >> /\ Head(local).event = "PATCH_ROLLBACK"
    /\ LET k == Head(local).key
           revived == /\ stf[k].fault = "failed" /\ wire[k] = << >>
                      /\ PatchIfNeeded(ctx[k]).out # << >>
       IN  /\ ApplyTo(k, PatchIfNeeded(ctx[k]))
           /\ Lapsed(IF revived THEN {"revived"} ELSE {})
    /\ local' = Tail(local)
    /\ UNCHANGED <<phase, periods, timer, answers, notifs, stf, disturbed>>

-----------------------------------------------------------------------------
(* Messages of the MBSTF.                                                  *)

\* handlePatchUpdateResponse and checkDesiredState.  (A 200 whose body cannot be
\* parsed is not handled here: it ends the session like a DELETE.)
HandlePatchOk(k) ==
    /\ answers[k] # << >> /\ Head(answers[k]) = "OK"
    /\ Apply(InDesiredState([ctx EXCEPT ![k] = [@ EXCEPT !.receivedMBSTFPatchResponse = TRUE,
                                                         !.needsUpdate = FALSE,
                                                         !.stateUpdate = FALSE]]))
    /\ StartTimer(periods)
    /\ answers' = [answers EXCEPT ![k] = Tail(@)]
    /\ UNCHANGED <<phase, periods, local, notifs, stf, disturbed, lapses>>

\* rollbackMBSTFDistSessionState: the PATCHes of all keys are tried again, once
\* each key has had an answer.
HandlePatchError(k) ==
    LET cs == [ctx EXCEPT ![k] = [@ EXCEPT !.receivedMBSTFPatchResponse = TRUE,
                                           !.needsUpdate = FALSE]]
        all == \A j \in Key : cs[j].receivedMBSTFPatchResponse
        retry == InDesiredState(cs)[k].ctx.stateUpdate /\ all
    IN  /\ answers[k] # << >> /\ Head(answers[k]) = "ERROR"
        /\ Apply(InDesiredState(cs))
        /\ IF OffTarget(cs) THEN StartTimer(periods) ELSE UNCHANGED timer
        /\ local' = local \o (IF retry THEN LocalEvents("PATCH_ROLLBACK", Key) ELSE << >>)
        /\ answers' = [answers EXCEPT ![k] = Tail(@)]
        /\ Lapsed((IF ctx[k].needsUpdate THEN {"update"} ELSE {})
                  \cup (IF all THEN {} ELSE {"early"}))
        /\ UNCHANGED <<phase, periods, notifs, stf, disturbed>>

\* continueStateTransitions: does the report call for a further PATCH?
Continues(c, report) == report = "INACTIVE" /\ c.info = "ESTABLISHED"

\* processEvents: the state the MBSTF reports.
HandleNotify(k) ==
    /\ notifs[k] # << >> /\ Head(notifs[k]) # "FAILURE"
    /\ LET more == Continues(ctx[k], Head(notifs[k]))
       IN  /\ ctx' = [ctx EXCEPT ![k].reported = Head(notifs[k]),
                                 ![k].stateUpdate = @ \/ more]
           /\ local' = local \o LocalEvents("PATCH_BUILD", IF more THEN {k} ELSE {})
    /\ notifs' = [notifs EXCEPT ![k] = Tail(@)]
    /\ UNCHANGED <<phase, periods, timer, wire, answers, stf, disturbed, lapses>>

\* processDataIngestFailure and processServiceManagementFailure
HandleFailure(k) ==
    /\ notifs[k] # << >> /\ Head(notifs[k]) = "FAILURE"
    /\ ctx' = [ctx EXCEPT ![k].info = "INACTIVE"]
    /\ notifs' = [notifs EXCEPT ![k] = Tail(@)]
    /\ UNCHANGED <<phase, periods, timer, local, wire, answers, stf, disturbed, lapses>>

-----------------------------------------------------------------------------
(* The MBSTF and the network.                                              *)

\* The notifications that may come of a change of state.
Reports(from, to) ==
    CASE from = to -> {<< >>}
      [] from # to /\ to = "INACTIVE" -> {<<"INACTIVE">>, <<"DEACTIVATING", "INACTIVE">>}
      [] from = "INACTIVE" /\ to = "ACTIVE" -> {<<"ACTIVE">>, <<"ESTABLISHED", "ACTIVE">>}
      [] OTHER -> {<<to>>}

\* A PATCH is done; the MBSTF does not go from ACTIVE to ESTABLISHED.
StfPatches(k) ==
    /\ wire[k] # << >>
    /\ LET p == Head(wire[k]) IN
       /\ <<stf[k].state, p.state>> # <<"ACTIVE", "ESTABLISHED">>
       /\ stf' = [stf EXCEPT ![k] = [state |-> p.state, fault |-> "none",
                                     content |-> IF p.content = NoContent THEN @.content
                                                                          ELSE p.content]]
       /\ \E r \in Reports(stf[k].state, p.state) :
             notifs' = [notifs EXCEPT ![k] = @ \o r]
    /\ answers' = [answers EXCEPT ![k] = Append(@, "OK")]
    /\ wire' = [wire EXCEPT ![k] = Tail(@)]
    /\ UNCHANGED <<phase, periods, timer, ctx, local, disturbed, lapses>>

\* A PATCH is refused, for its own sake or for a passing reason.
StfRefuses(k) ==
    /\ wire[k] # << >>
    /\ \/ /\ <<stf[k].state, Head(wire[k]).state>> = <<"ACTIVE", "ESTABLISHED">>
          /\ stf' = [stf EXCEPT ![k].fault = "forbidden"]
          /\ UNCHANGED disturbed
       \/ Disturb /\ stf' = [stf EXCEPT ![k].fault = "refused"]
    /\ answers' = [answers EXCEPT ![k] = Append(@, "ERROR")]
    /\ wire' = [wire EXCEPT ![k] = Tail(@)]
    /\ UNCHANGED <<phase, periods, timer, ctx, local, notifs, lapses>>

\* An answer is lost; the MBSF removes the transaction when its timer expires.
AnswerLost(k) ==
    /\ answers[k] # << >>
    /\ Disturb
    /\ answers' = [answers EXCEPT ![k] = Tail(@)]
    /\ Lapsed(IF Head(answers[k]) = "ERROR" THEN {"lost"} ELSE {})
    /\ UNCHANGED <<phase, periods, timer, ctx, local, wire, notifs, stf>>

\* The distribution session fails and is deactivated.
StfFails(k) ==
    /\ stf[k].state # "INACTIVE"
    /\ Disturb
    /\ stf' = [stf EXCEPT ![k].state = "INACTIVE", ![k].fault = "failed"]
    /\ notifs' = [notifs EXCEPT ![k] = @ \o <<"FAILURE", "INACTIVE">>]
    /\ Lapsed(Overlap)
    /\ UNCHANGED <<phase, periods, timer, ctx, local, wire, answers>>

-----------------------------------------------------------------------------
Next == \/ PhaseBegins \/ TimerExpires
        \/ \E p \in BOOLEAN, new \in SUBSET Key,
              s \in [Key -> DistSessionState \cup {Unset}] : Put(p, new, s)
        \/ HandlePatchBuild \/ HandlePatchRollback
        \/ \E k \in Key : HandlePatchOk(k) \/ HandlePatchError(k)
        \/ \E k \in Key : HandleNotify(k) \/ HandleFailure(k)
        \/ \E k \in Key : StfPatches(k) \/ StfRefuses(k) \/ AnswerLost(k) \/ StfFails(k)

Spec == Init /\ [][Next]_vars

\* The MBSTF answers, notifications arrive, and the main loop serves its queue
\* and its timers.
FairSpec ==
    /\ Spec
    /\ WF_vars(TimerExpires) /\ WF_vars(HandlePatchBuild) /\ WF_vars(HandlePatchRollback)
    /\ \A k \in Key : /\ WF_vars(HandlePatchOk(k) \/ HandlePatchError(k))
                      /\ WF_vars(HandleNotify(k) \/ HandleFailure(k))
                      /\ WF_vars(StfPatches(k) \/ StfRefuses(k))

-----------------------------------------------------------------------------
(* Properties.                                                             *)

TypeOK ==
    /\ phase \in 1..Len(Phases) /\ timer \in 0..Len(Phases)
    /\ periods \in BOOLEAN
    /\ ctx \in [Key -> Context]
    /\ local \in Seq(Event)
    /\ wire \in [Key -> Seq(Patch)]
    /\ answers \in [Key -> Seq({"OK", "ERROR"})]
    /\ notifs \in [Key -> Seq(DistSessionState \cup {"DEACTIVATING", "FAILURE"})]
    /\ stf \in [Key -> [state: DistSessionState, content: Nat, fault: Fault]]
    /\ disturbed \in 0..MaxDisturbed
    /\ lapses \subseteq Lapse

\* The PATCHes w under way to session s and the context c agree.
Agreed(w, c, s) ==
    IF w # << >> THEN Last(w).state = c.requested
    ELSE s.fault = "none" => s.state = c.requested

\* last_requested_state, which decides whether a transition needs a PATCH at
\* all, is what the MBSTF was last asked for: the newest PATCH under way, or the
\* state of the MBSTF's session unless it refused the last PATCH or failed.
\* This holds however PATCHes, answers, notifications, PUTs and phases overlap.
RequestedIsSent == \A k \in Key : Agreed(wire[k], ctx[k], stf[k])

\* While phases are to come the timer is running: no handler, error path or PUT
\* stops the schedule for good.
ScheduleRuns == periods /\ phase < Len(Phases) => timer # 0

\* The MBSTF's session failed, or it was asked for what it never does.
Excused(k) == stf[k].fault \in {"forbidden", "failed"}

\* When everything that was under way has been dealt with, the MBSTF's sessions
\* are in the states wanted and have the contents of the last PUT, also after a
\* refused PATCH or a lost answer, and the MB-SMF has been given the activity
\* status that goes with the state, or none since the creation.  (For stimuli
\* one after the other, and without the other lapses, each of which can leave a
\* session behind; nor with a way from ACTIVE to ESTABLISHED, whose second half
\* handlePatchUpdateResponse can drop.)
QuietIsRight ==
    Quiet /\ lapses = {} =>
        \A k \in Key : \/ Excused(k)
                       \/ /\ stf[k].state = Want(ctx[k])
                          /\ stf[k].content = ctx[k].content
                          /\ ctx[k].activity \in {Unset, SendActivityStatus(ctx[k]).activity}

\* The MBSTF's session is ACTIVE and has never reported a state: the MBSF does
\* not know that it must go by way of INACTIVE.
Unreported(k) == ctx[k].reported = Unset /\ stf[k].state = "ACTIVE"

\* Retries and continued transitions come to an end, whatever the order of
\* answers and notifications: the loop does not send PATCHes for ever.  (It does
\* if ESTABLISHED is wanted of a session that was created ACTIVE and whose first
\* report never came, since each refusal is answered by the same PATCH.)
Settles == []<>(Quiet \/ \E k \in Key : Unreported(k))
=============================================================================
