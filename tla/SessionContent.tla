--------------------------- MODULE SessionContent ---------------------------
(***************************************************************************)
(* What a distribution session's info says and what the MB-SMF and the     *)
(* MBSTF are told of it, from the POST that creates it through the PUTs    *)
(* that change it (UserDataIngSession.cc, DistributionSessionInfo.cc,      *)
(* Nmb2Build.cc, MBSMFMBSSession.cc).  DistSessionControl has the states   *)
(* and the races of one session with a version for its content; here is    *)
(* the content, field by field, of one distribution session.               *)
(***************************************************************************)
EXTENDS MbsConversions

CONSTANTS Requests,    \* the infos an AF may send, see MC_SessionContent
          Tunnel,      \* the addresses of the MB-SMF's tunnel: [family, addr, port]
          MaxChanges   \* PUTs, state changes and refused PATCHes, in all

\* updateMBSDistributionSessionInfo: the fields a PUT may always change, and
\* those it may change only in an INACTIVE session.  The others stay.
Unrestricted == {"mbsServInfo", "mbsFSAId", "tgtServAreas"}
Conditional == {"maxContBitRate", "maxContDelay", "distrMethod", "fecConfig", "objDistrInfo",
                "pckDistrInfo", "trafficMarkingInfo", "extTgtServAreas", "restrictedFlag",
                "multiplexedServFlag", "nrRedCapUeInfo", "associatedSessionId"}
Fixed == {"mbsSessionId", "locationDependent"}
Fields == Unrestricted \cup Conditional \cup Fixed \cup {"mbsDistSessState"}

States == {"INACTIVE", "ESTABLISHED", "ACTIVE"}

\* DistributionSessionInfo::validate, and what the data model makes mandatory
Valid(r) ==
    /\ r.distrMethod \in {"OBJECT", "PACKET"}
    /\ r.distrMethod = "OBJECT" => r.objDistrInfo # None /\ r.objDistrInfo.mode # None
    /\ r.distrMethod = "PACKET" => r.pckDistrInfo # None

ASSUME ContentAssumption ==
    /\ \A r \in Requests : /\ DOMAIN r = Fields /\ Valid(r)
                           /\ r.mbsDistSessState \in States \cup {None}
    /\ MaxChanges \in Nat

VARIABLES phase,    \* "new", then "building", "waiting" and "created", or "stuck"
          info,     \* ContextData::info
          ctx,      \* the other members of ContextData, see below
          session,  \* the library's session structure, by the field it is set from
          queue,    \* PATCH_BUILD events
          flight,   \* PATCHes on their way to the MBSTF
          stf,      \* the DistSession the MBSTF has
          changes,  \* changes so far
          given,    \* history: the last value of every field the MB-SMF is told of
          source,   \* history: the request the conditional fields are from
          overlap   \* history: has a change come before the last one was through, or been refused?

vars == <<phase, info, ctx, session, queue, flight, stf, changes, given, source, overlap>>

-----------------------------------------------------------------------------
(* The MB-SMF's view.                                                      *)

Told == {"mbsServInfo", "mbsFSAId", "locationDependent", "tgtServAreas", "extTgtServAreas",
         "associatedSessionId", "restrictedFlag"}

\* setServiceInfo ... setAnyUeInd: the member a field becomes
Member(field, value) ==
    CASE field = "mbsServInfo" -> populateServiceInfo(value)
      [] field = "mbsFSAId" -> FsaIdOf(value)
      [] field = "tgtServAreas" -> populateServiceArea(value)
      [] field = "extTgtServAreas" -> populateExternalServiceArea(value)
      [] field = "associatedSessionId" -> populateAssociatedSessionId(value)
      [] field = "restrictedFlag" -> ~value
      [] OTHER -> value

Activity(state) == IF state = "INACTIVE" THEN "INACTIVE" ELSE "ACTIVE"

\* Mutant: what the info does not have is taken from the structure's defaults.
populateClears(i, s) ==
    [f \in Told \cup {"activity"} |->
        IF f = "activity" THEN Optional(Activity, i.mbsDistSessState)
        ELSE IF i[f] = None THEN None ELSE Member(f, i[f])]

\* populate_mb_smf_mbs_session: a field the info does not have leaves its
\* member alone.
populate(i, s) ==
    [f \in Told \cup {"activity"} |->
        IF f = "activity"
        THEN IF i.mbsDistSessState = None THEN s.activity ELSE Activity(i.mbsDistSessState)
        ELSE IF i[f] = None THEN s[f] ELSE Member(f, i[f])]

\* sendMbsmfActivityStatus
sendMbsmfActivityStatus(i) == session' = [session EXCEPT !.activity = Activity(i.mbsDistSessState)]

NewSession == [f \in Told \cup {"activity"} |-> None]
Given(i) == [f \in Told |-> IF i[f] = None THEN given[f] ELSE i[f]]

-----------------------------------------------------------------------------
(* The MBSTF's view: the DistSession that is built from the context.       *)

\* getObjectAcquisitionIds and its siblings read the object method's info.
populate_mbstf_obj_distribution_data(i) ==
    IF i.objDistrInfo = None
    THEN [mode |-> None, method |-> None, ids |-> << >>, ingest |-> None, base |-> None]
    ELSE LET o == i.objDistrInfo
         IN  [mode |-> o.mode, method |-> o.method, ingest |-> o.ingest, base |-> o.base,
              ids |-> IF o.method = "PUSH" /\ o.ids # << >> THEN <<o.ids[1]>> ELSE o.ids]

populate_mbstf_pkt_distribution_data(i) ==
    IF i.distrMethod = "PACKET" THEN i.pckDistrInfo ELSE None

\* No flow when packets are only forwarded; the TSI is the one of the creation.
populate_mbstf_up_traffic_flow_info(i, c) ==
    IF i.pckDistrInfo # None /\ i.pckDistrInfo.mode = "PACKET_FORWARD_ONLY" THEN None
    ELSE [ssm |-> c.ssm, tsi |-> IF c.tsi = 0 THEN None ELSE c.tsi]

\* The last address of each family, and the port of the last one of all.
populate_mbstf_mb_upf_tunnel_addr ==
    FoldLeft(LAMBDA t, a : [t EXCEPT ![a.family] = a.addr, !.port = a.port],
             [v4 |-> None, v6 |-> None, port |-> None], Tunnel)

\* build_nmb2_create_dist_session
DistSession(i, c) ==
    [obj |-> IF i.distrMethod = "OBJECT" THEN populate_mbstf_obj_distribution_data(i) ELSE None,
     pkt |-> populate_mbstf_pkt_distribution_data(i),
     flow |-> populate_mbstf_up_traffic_flow_info(i, c),
     tunnel |-> populate_mbstf_mb_upf_tunnel_addr,
     state |-> i.mbsDistSessState,
     mbr |-> i.maxContBitRate, maxDelay |-> i.maxContDelay,
     fec |-> i.fecConfig, dscp |-> i.trafficMarkingInfo]

\* None is no record: neither the object data, nor the flow, nor a packet
\* method's info, with the MBSTF's addresses or without.
ASSUME RecordAssumption == \A r \in Requests :
    /\ populate_mbstf_obj_distribution_data(r) # None
    /\ \A tsi \in {None, 1} : [ssm |-> r.mbsSessionId, tsi |-> tsi] # None
    /\ r.pckDistrInfo # None => /\ {"mode", "addrs"} \subseteq DOMAIN r.pckDistrInfo
                               /\ [r.pckDistrInfo EXCEPT !.addrs = "mbstf"] # None

Patch(i, c, whole) ==
    [state |-> i.mbsDistSessState, whole |-> whole,
     body |-> IF whole THEN DistSession(i, c) ELSE None]

\* Mutant: a PATCH that changes the state carries nothing else.
PatchOfStateOnly(i, c) == Patch(i, c, c.needsUpdate /\ c.reported = i.mbsDistSessState)

\* buildNmb2DistSessionPatch: the whole session, or its state
PatchOf(i, c) == Patch(i, c, c.needsUpdate)

NeedsPatch(i, c) == c.needsUpdate \/ (c.stateUpdate /\ c.reported # i.mbsDistSessState)

\* A PATCH, if one is needed
Send(i, c) ==
    IF NeedsPatch(i, c)
    THEN /\ flight' = Append(flight, PatchOf(i, c))
         /\ ctx' = [c EXCEPT !.requested = i.mbsDistSessState]
    ELSE flight' = flight /\ ctx' = c

-----------------------------------------------------------------------------
(* The creation.                                                           *)

Init == /\ phase = "new" /\ info = None /\ session = None /\ stf = None
        /\ ctx = [ssm |-> None, tsi |-> 0, needsUpdate |-> FALSE, stateUpdate |-> FALSE,
                  requested |-> None, reported |-> None]
        /\ queue = 0 /\ flight = << >> /\ changes = 0
        /\ given = [f \in Told |-> None] /\ source = None /\ overlap = FALSE

HasSource(ssm) == ssm.src.v4 # None \/ ssm.src.v6 # None

\* updateContexts and createMbsSession, for a new session; s is the state the
\* active periods then give it (processDistributionSessionInfo).  Without a
\* source address, or when the addresses do not resolve, there is no MBS
\* Session and nothing more is done; the caller does not look at the result.
Post(r, s) ==
    /\ phase = "new"
    /\ info' = [r EXCEPT !.mbsDistSessState = s]
    /\ ctx' = [ctx EXCEPT !.ssm = r.mbsSessionId,
                          !.tsi = IF r.distrMethod = "OBJECT" THEN 1 ELSE 0]
    /\ source' = r
    /\ IF HasSource(r.mbsSessionId) /\ Usable(r.mbsSessionId)
       THEN /\ phase' = "building"
            /\ session' = populate(r, NewSession)
            /\ given' = Given(r)
       ELSE /\ phase' = "stuck"
            /\ UNCHANGED <<session, given>>
    /\ UNCHANGED <<queue, flight, stf, changes, overlap>>

\* The MB-SMF has made the MBS Session: REQ_BUILD, buildNmb2DistSession
BuildDistSession ==
    /\ phase = "building"
    /\ phase' = "waiting"
    /\ stf' = DistSession(info, ctx)
    /\ ctx' = [ctx EXCEPT !.requested = info.mbsDistSessState]
    /\ UNCHANGED <<info, session, queue, flight, changes, given, source, overlap>>

\* process_mbs_distribution_session_info: the MBSTF's addresses are merged into
\* a packet method's info.  Those of an object method are not: it is the
\* operating mode, not the acquisition method, that is compared with "PUSH".
Merged(i) ==
    IF i.pckDistrInfo = None \/ stf.pkt = None THEN i
    ELSE [i EXCEPT !.pckDistrInfo.addrs = "mbstf"]

\* The MBSTF's answer: processDistSession, and the state it reports
Created ==
    /\ phase = "waiting"
    /\ phase' = "created"
    /\ info' = Merged(info)
    /\ ctx' = [ctx EXCEPT !.reported = stf.state]
    /\ UNCHANGED <<session, queue, flight, stf, changes, given, source, overlap>>

-----------------------------------------------------------------------------
(* Changes.                                                                *)

Idle == queue = 0 /\ flight = << >> /\ ~ctx.needsUpdate

Change == /\ phase = "created" /\ changes < MaxChanges
          /\ changes' = changes + 1
          /\ overlap' = (overlap \/ ~Idle)

\* Mutant: the method is taken from every request.
UpdatedMethod(i, r) ==
    [f \in Fields |->
        IF \/ f \in Unrestricted \cup {"mbsDistSessState", "distrMethod"}
           \/ f \in Conditional /\ i.mbsDistSessState = "INACTIVE"
        THEN r[f] ELSE i[f]]

\* updateMBSDistributionSessionInfo
Updated(i, r) ==
    [f \in Fields |->
        IF \/ f \in Unrestricted \cup {"mbsDistSessState"}
           \/ f \in Conditional /\ i.mbsDistSessState = "INACTIVE"
        THEN r[f] ELSE i[f]]

\* processUserDataIngSessionUpdate and updateContexts, for a session that stays.
\* A request that says nothing new clears needsUpdate; s is the state the
\* active periods give.
Put(r, s) ==
    LET differs == r # info
        updated == IF differs THEN Updated(info, r) ELSE info
        now == [updated EXCEPT !.mbsDistSessState = s]
    IN  /\ Change
        /\ info' = now
        /\ ctx' = [ctx EXCEPT !.needsUpdate = differs]
        /\ source' = IF differs /\ info.mbsDistSessState = "INACTIVE" THEN r ELSE source
        /\ IF differs \/ ctx.stateUpdate
           THEN /\ session' = populate(now, session)
                /\ given' = Given(now)
                /\ queue' = queue + 1
           ELSE UNCHANGED <<session, given, queue>>
        /\ UNCHANGED <<phase, flight, stf>>

\* The PATCH_BUILD event
PatchBuild ==
    /\ queue > 0
    /\ queue' = queue - 1
    /\ sendMbsmfActivityStatus(info)
    /\ Send(info, ctx)
    /\ UNCHANGED <<phase, info, stf, changes, given, source, overlap>>

\* _changeDistSessionState, when the timer of the active periods expires
ChangeState(s) ==
    LET now == [info EXCEPT !.mbsDistSessState = s]
    IN  /\ Change
        /\ s # ctx.requested
        /\ info' = now
        /\ sendMbsmfActivityStatus(now)
        /\ Send(now, [ctx EXCEPT !.stateUpdate = TRUE])
        /\ UNCHANGED <<phase, queue, stf, given, source>>

\* The MBSTF accepts the oldest PATCH: handlePatchUpdateResponse
Accepted ==
    /\ flight # << >>
    /\ LET p == Head(flight)
       IN  /\ stf' = IF p.whole THEN p.body ELSE [stf EXCEPT !.state = p.state]
           /\ ctx' = [ctx EXCEPT !.needsUpdate = FALSE, !.stateUpdate = FALSE,
                                 !.reported = p.state]
    /\ flight' = Tail(flight)
    /\ UNCHANGED <<phase, info, session, queue, changes, given, source, overlap>>

\* The MBSTF refuses it: rollbackMBSTFDistSessionState.  A new content is not
\* sent again; a state is (DistSessionControl), so that only the content counts.
Refused ==
    /\ flight # << >> /\ Head(flight).whole
    /\ changes < MaxChanges
    /\ changes' = changes + 1
    /\ ctx' = [ctx EXCEPT !.needsUpdate = FALSE]
    /\ flight' = Tail(flight)
    /\ overlap' = TRUE
    /\ UNCHANGED <<phase, info, session, queue, stf, given, source>>

Next == \/ \E r \in Requests, s \in States : Post(r, s) \/ Put(r, s)
        \/ \E s \in States : ChangeState(s)
        \/ BuildDistSession \/ Created \/ PatchBuild \/ Accepted \/ Refused

Spec == Init /\ [][Next]_vars

-----------------------------------------------------------------------------
(* Properties.                                                             *)

\* Types.
TypeOK ==
    /\ phase \in {"new", "stuck", "building", "waiting", "created"}
    /\ phase # "new" => DOMAIN info = Fields /\ info.mbsDistSessState \in States
    /\ ctx.tsi \in {0, 1} /\ ctx.needsUpdate \in BOOLEAN /\ ctx.stateUpdate \in BOOLEAN
    /\ queue \in 0..MaxChanges /\ Len(flight) <= MaxChanges
    /\ changes \in 0..MaxChanges

\* The MB-SMF's structure has, for every field it is told of, the member that
\* the last value given for that field becomes, and no field the info has is
\* unknown there.  (A field that a PUT leaves out keeps its last value:
\* populate_mb_smf_mbs_session clears nothing.)
SmfLatest ==
    session # None =>
        /\ \A f \in Told : session[f] = IF given[f] = None THEN None ELSE Member(f, given[f])
        /\ \A f \in Told : info[f] # None => given[f] = info[f]

\* However PUTs and state changes fall, the conditional fields of the info are
\* those of one single request, so that the MBSTF is told of exactly the data
\* of the method it is to use, never of one request's method with the data of
\* another (updateMBSDistributionSessionInfo, build_nmb2_create_dist_session).
OneSource ==
    phase # "new" =>
        \A f \in Conditional \ {"pckDistrInfo"} : info[f] = source[f]
FitsMethod(d) ==
    /\ (d.obj = None) # (d.pkt = None)
    /\ d.obj # None => d.obj.mode # None
    /\ d.pkt # None => (d.flow = None <=> d.pkt.mode = "PACKET_FORWARD_ONLY")
Coherent ==
    /\ OneSource
    /\ stf # None => FitsMethod(stf)
    /\ \A i \in DOMAIN flight : flight[i].whole => FitsMethod(flight[i].body)

\* Apart from the state and the MBSTF's own addresses
SameContent(d, e) ==
    /\ [d EXCEPT !.state = None, !.pkt = None] = [e EXCEPT !.state = None, !.pkt = None]
    /\ IF d.pkt = None \/ e.pkt = None THEN d.pkt = e.pkt
       ELSE [d.pkt EXCEPT !.addrs = None] = [e.pkt EXCEPT !.addrs = None]

\* Once nothing is under way the MBSTF has the session that the info describes,
\* unless a change has come before the one before it was through or the MBSTF
\* has refused one (processUserDataIngSessionUpdate, PATCH_BUILD).
BodyCurrent ==
    (phase = "created" /\ Idle /\ ~overlap) =>
        SameContent(stf, DistSession(info, ctx))

\* What an area means: the tracking areas and the cells, with codes as numbers.
\* A network id of a tracking area counts when it has decimal digits only, and
\* network codes when they have the same length: TrackingAreaIdentity::nid
\* drops other digits, MBSPlmnId::mnc leading zeros.
TaiMeans(t) == <<Numeral(10, t.plmn.mcc), Numeral(10, t.plmn.mnc), Numeral(16, t.tac),
                 IF t.nid = None THEN None ELSE Numeral(16, t.nid)>>
AreaMeans(a) ==
    [tais |-> IF a.taiList = None THEN {} ELSE {TaiMeans(t) : t \in ToSet(Present(a.taiList))},
     cells |-> IF a.ncgiList = None THEN {}
               ELSE UNION {{<<TaiMeans(n.tai), Numeral(16, c.cell)>> :
                                c \in ToSet(Present(n.cells))} :
                            n \in ToSet(Present(a.ncgiList))}]
Lossless(a) == a.taiList = None \/ \A t \in ToSet(Present(a.taiList)) :
                                        t.nid = None \/ IsDecimal(t.nid)

\* A PUT that moves the session to another area changes the structure the
\* library compares with what it last sent, so that the MB-SMF hears of it
\* (ServiceArea::populateServiceArea, MBSMFMBSSession::pushChanges).
AreaMoves ==
    (/\ info # None /\ info.tgtServAreas # None /\ info'.tgtServAreas # None
     /\ Lossless(info.tgtServAreas) /\ Lossless(info'.tgtServAreas)
     /\ AreaMeans(info.tgtServAreas) # AreaMeans(info'.tgtServAreas))
        => session'.tgtServAreas # session.tgtServAreas
AreaChangeSeen == [][AreaMoves]_vars
=============================================================================
