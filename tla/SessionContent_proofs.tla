------------------------ MODULE SessionContent_proofs ------------------------
(***************************************************************************)
(* Proofs about SessionContent: what the MB-SMF and the MBSTF know of a    *)
(* distribution session, for every set of requests and any number of       *)
(* changes.                                                                *)
(***************************************************************************)
EXTENDS SessionContent, SequenceTheorems, TLAPS

-----------------------------------------------------------------------------
(* The inductive invariant.                                                *)

SessionFields == Told \cup {"activity"}

\* The library's structure exists as soon as the MBS Session does.
SessionShape ==
    IF phase \in {"new", "stuck"} THEN session = None /\ given = [f \in Told |-> None]
    ELSE DOMAIN session = SessionFields

InfoShape == phase # "new" => DOMAIN info = Fields

\* Nothing is on its way before the MBSTF has answered the creation.
Early == phase # "created" => /\ queue = 0 /\ flight = << >>
                              /\ ctx.needsUpdate = FALSE /\ overlap = FALSE

CtxFields == {"ssm", "tsi", "needsUpdate", "stateUpdate", "requested", "reported"}
CtxShape == DOMAIN ctx = CtxFields /\ ctx.needsUpdate \in BOOLEAN

\* The packet method's info is the one of the same request as the other
\* conditional fields, but for the addresses the MBSTF has filled in.
WithMbstf(p) == IF p = None THEN None ELSE [p EXCEPT !.addrs = "mbstf"]
PacketSource ==
    phase # "new" =>
        /\ source \in Requests
        /\ info.pckDistrInfo \in {source.pckDistrInfo, WithMbstf(source.pckDistrInfo)}

\* The flow is the one of the request that created the session.
FlowSource ==
    phase # "new" => \E r \in Requests : ctx.ssm = r.mbsSessionId /\ ctx.tsi \in {0, 1}

Elements(s) == {s[i] : i \in DOMAIN s}
IsList(s) == s \in Seq(Elements(s))

Shape == IsList(flight) /\ SessionShape /\ InfoShape /\ Early /\ CtxShape
         /\ PacketSource /\ FlowSource

\* What SmfLatest says of the structure, once there is one.
Latest ==
    phase \notin {"new", "stuck"} =>
        /\ \A f \in Told : session[f] = IF given[f] = None THEN None ELSE Member(f, given[f])
        /\ \A f \in Told : info[f] # None => given[f] = info[f]
SmfInv == Shape /\ Latest

\* What the MBSTF has, or is to have, is a DistSession, and of one method.
BodyFields == {"obj", "pkt", "flow", "tunnel", "state", "mbr", "maxDelay", "fec", "dscp"}
Fits(d) == DOMAIN d = BodyFields /\ FitsMethod(d)
MbstfFits == IF phase \in {"waiting", "created"} THEN Fits(stf) ELSE stf = None
FlightFits == \A i \in DOMAIN flight : flight[i].whole => Fits(flight[i].body)
CoherentInv == SmfInv /\ OneSource /\ MbstfFits /\ FlightFits

\* Two DistSessions with one content, field by field.
SamePacket(p, q) ==
    IF p = None \/ q = None THEN p = q
    ELSE [p EXCEPT !.addrs = None] = [q EXCEPT !.addrs = None]
SameFields(d, e) ==
    /\ d.obj = e.obj /\ SamePacket(d.pkt, e.pkt) /\ d.flow = e.flow /\ d.tunnel = e.tunnel
    /\ d.mbr = e.mbr /\ d.maxDelay = e.maxDelay /\ d.fec = e.fec /\ d.dscp = e.dscp
Current == SameFields(stf, DistSession(info, ctx))

\* One change at a time: it waits for its PATCH_BUILD event, then its PATCH is
\* on the way, and then the MBSTF has it.
OneChange ==
    phase = "created" /\ ~overlap =>
        \/ queue = 0 /\ flight = << >> /\ ~ctx.needsUpdate /\ Current
        \/ queue = 1 /\ flight = << >> /\ (~ctx.needsUpdate => Current)
        \/ /\ queue = 0 /\ Len(flight) = 1
           /\ IF flight[1].whole THEN flight[1].body = DistSession(info, ctx)
              ELSE ~ctx.needsUpdate /\ Current

BodyInv ==
    /\ CoherentInv /\ OneChange
    /\ phase = "waiting" => stf = DistSession(info, ctx)

-----------------------------------------------------------------------------
(* Sequences.                                                              *)

LEMMA ListOf == ASSUME NEW S, NEW s \in Seq(S) PROVE IsList(s)
  <1>1. s \in [1..Len(s) -> S] /\ Len(s) \in Nat /\ DOMAIN s = 1..Len(s)
    BY LenProperties
  <1>2. s \in [1..Len(s) -> Elements(s)]
    BY <1>1 DEF Elements
  <1>3. QED BY <1>1, <1>2, SeqDef DEF IsList

LEMMA ListAppend ==
    ASSUME NEW s, IsList(s), NEW e
    PROVE  /\ IsList(Append(s, e)) /\ Len(Append(s, e)) = Len(s) + 1 /\ Len(s) \in Nat
           /\ \A i \in DOMAIN Append(s, e) :
                (i \in DOMAIN s /\ Append(s, e)[i] = s[i]) \/ Append(s, e)[i] = e
           /\ Append(s, e)[Len(s) + 1] = e
  <1> DEFINE S == Elements(s) \cup {e}
  <1>1. s \in Seq(S) /\ e \in S
    BY SeqMonotonic DEF IsList
  <1>2. Append(s, e) \in Seq(S)
    BY <1>1
  <1>3. IsList(Append(s, e))
    <2> HIDE DEF S
    <2> QED BY ONLY <1>2, ListOf
  <1>4. QED BY <1>1, <1>2, <1>3

LEMMA ListTail ==
    ASSUME NEW s, IsList(s), s # << >>
    PROVE  /\ IsList(Tail(s)) /\ Len(Tail(s)) = Len(s) - 1 /\ Len(s) \in Nat \ {0}
           /\ \A i \in DOMAIN Tail(s) : i + 1 \in DOMAIN s /\ Tail(s)[i] = s[i + 1]
           /\ 1 \in DOMAIN s /\ Head(s) = s[1] /\ (Len(s) = 1 => Tail(s) = << >>)
  <1>1. s \in Seq(Elements(s)) /\ Tail(s) \in Seq(Elements(s))
    BY DEF IsList
  <1>2. IsList(Tail(s))
    <2> DEFINE S == Elements(s)
    <2>1. Tail(s) \in Seq(S)
      BY <1>1
    <2> HIDE DEF S
    <2> QED BY ONLY <2>1, ListOf
  <1>3. Len(s) \in Nat \ {0} /\ DOMAIN s = 1..Len(s) /\ Head(s) = s[1]
    BY <1>1
  <1>4. Len(Tail(s)) = Len(s) - 1 /\ DOMAIN Tail(s) = 1..(Len(s) - 1)
    BY <1>1, <1>3
  <1>5. \A i \in DOMAIN Tail(s) : i + 1 \in DOMAIN s /\ Tail(s)[i] = s[i + 1]
    BY <1>1, <1>3, <1>4
  <1>6. Len(s) = 1 => Tail(s) = << >>
    BY <1>1, <1>4, EmptySeq
  <1>7. QED BY <1>2, <1>3, <1>4, <1>5, <1>6

-----------------------------------------------------------------------------
(* The shapes, and what the MB-SMF knows.                                  *)

LEMMA StatesAreKnown == ASSUME NEW r \in Requests PROVE DOMAIN r = Fields /\ Valid(r)
  BY ContentAssumption

\* A PUT leaves every field the info's or the request's.
LEMMA NowFields ==
    ASSUME NEW i, DOMAIN i = Fields, NEW s
    PROVE  /\ DOMAIN [i EXCEPT !.mbsDistSessState = s] = Fields
           /\ \A f \in Fields \ {"mbsDistSessState"} : [i EXCEPT !.mbsDistSessState = s][f] = i[f]
  OBVIOUS

LEMMA PacketMerged ==
    ASSUME NEW i, DOMAIN i = Fields
    PROVE  /\ DOMAIN Merged(i) = Fields
           /\ \A f \in Fields \ {"pckDistrInfo"} : Merged(i)[f] = i[f]
           /\ Merged(i).pckDistrInfo \in {i.pckDistrInfo, WithMbstf(i.pckDistrInfo)}
  BY DEF Merged, WithMbstf, Fields, Conditional

LEMMA ShapeInit == Init => SmfInv
  <1> SUFFICES ASSUME Init PROVE SmfInv
    OBVIOUS
  <1>1. IsList(flight)
    <2>1. << >> \in Seq({})
      OBVIOUS
    <2>2. IsList(<< >>)
      BY ONLY <2>1, ListOf
    <2>3. QED BY <2>2 DEF Init
  <1>2. QED
    BY <1>1 DEF Init, SmfInv, Shape, SessionShape, InfoShape, Early, CtxShape, CtxFields,
                PacketSource, FlowSource, Latest

-----------------------------------------------------------------------------
(* The steps, one lemma for each.                                          *)

LEMMA SmfUnchanged ==
    ASSUME SmfInv, UNCHANGED vars
    PROVE  SmfInv'
  BY DEF vars, SmfInv, Shape, SessionShape, InfoShape, Early, CtxShape, PacketSource,
         FlowSource, Latest, IsList, Elements

\* What a request says is in the structure afterwards, and what it does not say
\* stays there.
LEMMA PopulateTells ==
    ASSUME NEW i, NEW s, NEW g,
           \A f \in Told : s[f] = IF g[f] = None THEN None ELSE Member(f, g[f])
    PROVE  /\ DOMAIN populate(i, s) = SessionFields
           /\ \A f \in Told :
                LET h == IF i[f] = None THEN g[f] ELSE i[f]
                IN  populate(i, s)[f] = IF h = None THEN None ELSE Member(f, h)
  BY DEF populate, SessionFields, Told

LEMMA PostShape ==
    ASSUME SmfInv, NEW r \in Requests, NEW s \in States, Post(r, s)
    PROVE  SmfInv'
  <1> USE DEF SmfInv, Shape
  <1>1. DOMAIN r = Fields
    BY StatesAreKnown
  <1>2. phase' \in {"building", "stuck"} /\ phase = "new" /\ DOMAIN info' = Fields
        /\ UNCHANGED <<queue, flight, overlap>> /\ session = None
    BY <1>1 DEF Post, SessionShape
  <1>3. \A f \in Fields \ {"mbsDistSessState"} : info'[f] = r[f]
    BY <1>1 DEF Post
  <1>4. IsList(flight)' /\ InfoShape' /\ Early' /\ PacketSource'
    BY <1>2, <1>3 DEF Post, IsList, Elements, InfoShape, Early, PacketSource, CtxShape,
                      CtxFields, Fields, Conditional
  <1>5. CtxShape' /\ FlowSource'
    BY <1>2 DEF Post, CtxShape, CtxFields, FlowSource
  <1>6. CASE phase' = "stuck"
    <2>1. session' = None /\ given' = given
      BY <1>2, <1>6 DEF Post
    <2>2. QED BY <1>2, <1>4, <1>5, <1>6, <2>1 DEF SessionShape, Latest
  <1>7. CASE phase' = "building"
    <2>1. session' = populate(r, NewSession) /\ given' = Given(r)
      BY <1>7 DEF Post
    <2>2. /\ \A f \in Told : NewSession[f] = IF given[f] = None THEN None ELSE Member(f, given[f])
          /\ \A f \in Told : given[f] = None
      BY <1>2 DEF SessionShape, NewSession
    <2>3. /\ DOMAIN session' = SessionFields
          /\ \A f \in Told : given'[f] = IF r[f] = None THEN given[f] ELSE r[f]
          /\ \A f \in Told : session'[f] = IF given'[f] = None THEN None
                                             ELSE Member(f, given'[f])
      BY <2>1, <2>2, PopulateTells DEF Given
    <2>4. \A f \in Told : info'[f] = r[f]
      BY <1>3 DEF Told, Fields, Unrestricted, Conditional, Fixed
    <2>5. Latest'
      BY <2>3, <2>4 DEF Latest
    <2>6. QED BY <1>4, <1>5, <1>7, <2>3, <2>5 DEF SessionShape
  <1>8. QED BY <1>2, <1>6, <1>7

LEMMA BuildShape ==
    ASSUME SmfInv, BuildDistSession
    PROVE  SmfInv'
  <1>1. /\ phase = "building" /\ phase' = "waiting"
        /\ UNCHANGED <<info, session, queue, flight, changes, given, source, overlap>>
        /\ DOMAIN ctx = CtxFields
    BY DEF BuildDistSession, SmfInv, Shape, CtxShape
  <1>2. /\ DOMAIN ctx' = CtxFields /\ ctx'.ssm = ctx.ssm /\ ctx'.tsi = ctx.tsi
        /\ ctx'.needsUpdate = ctx.needsUpdate
    BY <1>1 DEF BuildDistSession, CtxFields
  <1>3. QED
    BY <1>1, <1>2 DEF SmfInv, Shape, SessionShape, InfoShape, Early, CtxShape, PacketSource,
                      FlowSource, Latest, IsList, Elements

LEMMA CreatedShape ==
    ASSUME SmfInv, Created
    PROVE  SmfInv'
  <1>1. /\ phase = "waiting" /\ phase' = "created" /\ info' = Merged(info)
        /\ UNCHANGED <<session, queue, flight, stf, changes, given, source, overlap>>
        /\ DOMAIN ctx = CtxFields /\ DOMAIN info = Fields
    BY DEF Created, SmfInv, Shape, CtxShape, InfoShape
  <1>2. /\ DOMAIN ctx' = CtxFields /\ ctx'.ssm = ctx.ssm /\ ctx'.tsi = ctx.tsi
        /\ ctx'.needsUpdate = ctx.needsUpdate
    BY <1>1 DEF Created, CtxFields
  <1>3. /\ DOMAIN info' = Fields
        /\ \A f \in Fields \ {"pckDistrInfo"} : info'[f] = info[f]
        /\ info'.pckDistrInfo \in {info.pckDistrInfo, WithMbstf(info.pckDistrInfo)}
    BY <1>1, PacketMerged
  <1>4. PacketSource'
    <2>1. info.pckDistrInfo \in {source.pckDistrInfo, WithMbstf(source.pckDistrInfo)}
      BY <1>1 DEF SmfInv, Shape, PacketSource
    <2>2. WithMbstf(WithMbstf(source.pckDistrInfo)) = WithMbstf(source.pckDistrInfo)
      BY RecordAssumption, <1>1 DEF SmfInv, Shape, PacketSource, WithMbstf
    <2>3. QED BY <1>1, <1>3, <2>1, <2>2 DEF SmfInv, Shape, PacketSource
  <1>5. Latest'
    <2>1. \A f \in Told : info'[f] = info[f]
      BY <1>3 DEF Told, Fields, Unrestricted, Conditional, Fixed
    <2>2. QED BY <1>1, <2>1 DEF SmfInv, Latest
  <1>6. QED
    BY <1>1, <1>2, <1>3, <1>4, <1>5 DEF SmfInv, Shape, SessionShape, InfoShape, Early, CtxShape,
                      FlowSource, IsList, Elements

\* A PATCH leaves the context's addresses alone.
LEMMA SendShape ==
    ASSUME IsList(flight), NEW i, NEW c, DOMAIN c = CtxFields, Send(i, c)
    PROVE  /\ IsList(flight)' /\ DOMAIN ctx' = CtxFields /\ ctx'.ssm = c.ssm /\ ctx'.tsi = c.tsi
           /\ ctx'.needsUpdate = c.needsUpdate /\ ctx'.stateUpdate = c.stateUpdate
           /\ IF NeedsPatch(i, c) THEN flight' = Append(flight, PatchOf(i, c))
              ELSE flight' = flight
  <1>1. IsList(flight)'
    <2>1. CASE flight' = flight
      BY <2>1 DEF IsList, Elements
    <2>2. CASE flight' = Append(flight, PatchOf(i, c))
      BY <2>2, ListAppend DEF IsList, Elements
    <2>3. QED BY <2>1, <2>2 DEF Send
  <1>2. QED BY <1>1 DEF Send, CtxFields

LEMMA PatchBuildShape ==
    ASSUME SmfInv, PatchBuild
    PROVE  SmfInv'
  <1>1. /\ phase = "created" /\ phase' = "created" /\ DOMAIN session = SessionFields
        /\ UNCHANGED <<info, stf, changes, given, source, overlap>> /\ Send(info, ctx)
        /\ session' = [session EXCEPT !.activity = Activity(info.mbsDistSessState)]
        /\ IsList(flight) /\ DOMAIN ctx = CtxFields
    BY DEF PatchBuild, sendMbsmfActivityStatus, SmfInv, Shape, Early, SessionShape, CtxShape
  <1>2. /\ IsList(flight)' /\ DOMAIN ctx' = CtxFields /\ ctx'.ssm = ctx.ssm
        /\ ctx'.tsi = ctx.tsi /\ ctx'.needsUpdate = ctx.needsUpdate
    BY <1>1, SendShape
  <1>3. DOMAIN session' = SessionFields /\ \A f \in Told : session'[f] = session[f]
    BY <1>1 DEF SessionFields, Told
  <1>4. QED
    BY <1>1, <1>2, <1>3 DEF SmfInv, Shape, SessionShape, InfoShape, Early, CtxShape,
                            PacketSource, FlowSource, Latest

LEMMA ChangeStateShape ==
    ASSUME SmfInv, NEW s \in States, ChangeState(s)
    PROVE  SmfInv'
  <1> DEFINE now == [info EXCEPT !.mbsDistSessState = s]
             c == [ctx EXCEPT !.stateUpdate = TRUE]
  <1>1. /\ phase = "created" /\ phase' = "created" /\ DOMAIN session = SessionFields
        /\ UNCHANGED <<queue, stf, given, source>> /\ Send(now, c) /\ info' = now
        /\ session' = [session EXCEPT !.activity = Activity(now.mbsDistSessState)]
        /\ IsList(flight) /\ DOMAIN ctx = CtxFields /\ DOMAIN info = Fields
    BY DEF ChangeState, Change, sendMbsmfActivityStatus, SmfInv, Shape, SessionShape, CtxShape,
           InfoShape
  <1>2. DOMAIN c = CtxFields /\ c.ssm = ctx.ssm /\ c.tsi = ctx.tsi
        /\ c.needsUpdate = ctx.needsUpdate
    BY <1>1 DEF CtxFields
  <1>3. /\ DOMAIN info' = Fields
        /\ \A f \in Fields \ {"mbsDistSessState"} : info'[f] = info[f]
    BY <1>1, NowFields
  <1>4. /\ IsList(flight)' /\ DOMAIN ctx' = CtxFields /\ ctx'.ssm = ctx.ssm
        /\ ctx'.tsi = ctx.tsi /\ ctx'.needsUpdate = ctx.needsUpdate
    <2> HIDE DEF now, c
    <2> QED BY <1>1, <1>2, SendShape
  <1>5. DOMAIN session' = SessionFields /\ \A f \in Told : session'[f] = session[f]
    BY <1>1 DEF SessionFields, Told
  <1>6. info'.pckDistrInfo = info.pckDistrInfo /\ \A f \in Told : info'[f] = info[f]
    BY <1>3 DEF Told, Fields, Unrestricted, Conditional, Fixed
  <1>7. QED
    BY <1>1, <1>3, <1>4, <1>5, <1>6 DEF SmfInv, Shape, SessionShape, InfoShape, Early, CtxShape,
                            PacketSource, FlowSource, Latest

LEMMA AnswerShape ==
    ASSUME SmfInv, Accepted \/ Refused
    PROVE  SmfInv'
  <1>1. /\ UNCHANGED <<phase, info, session, queue, given, source>> /\ flight # << >>
        /\ flight' = Tail(flight) /\ DOMAIN ctx = CtxFields /\ IsList(flight)
        /\ phase = "created"
    BY DEF Accepted, Refused, SmfInv, Shape, CtxShape, Early
  <1>2. DOMAIN ctx' = CtxFields /\ ctx'.ssm = ctx.ssm /\ ctx'.tsi = ctx.tsi
        /\ ctx'.needsUpdate = FALSE
    BY <1>1 DEF Accepted, Refused, CtxFields
  <1>3. IsList(flight)'
    BY <1>1, ListTail DEF IsList, Elements
  <1>4. QED
    BY <1>1, <1>2, <1>3 DEF SmfInv, Shape, SessionShape, InfoShape, Early, CtxShape,
                            PacketSource, FlowSource, Latest

\* A PUT changes nothing of what it may not, and everything else.
LEMMA PutFields ==
    ASSUME DOMAIN info = Fields, NEW r \in Requests, NEW s \in States, Put(r, s)
    PROVE  /\ DOMAIN info' = Fields
           /\ \A f \in Unrestricted \cup Fixed :
                info'[f] = IF r # info /\ f \in Unrestricted THEN r[f] ELSE info[f]
           /\ \A f \in Conditional :
                info'[f] = IF r # info /\ info.mbsDistSessState = "INACTIVE" THEN r[f]
                           ELSE info[f]
  <1> DEFINE updated == IF r # info THEN Updated(info, r) ELSE info
  <1>1. DOMAIN updated = Fields
    BY DEF Updated
  <1>2. info' = [updated EXCEPT !.mbsDistSessState = s]
    BY DEF Put
  <1>3. /\ DOMAIN info' = Fields
        /\ \A f \in Fields \ {"mbsDistSessState"} : info'[f] = updated[f]
    <2> HIDE DEF updated
    <2> QED BY <1>1, <1>2, NowFields
  <1>4. \A f \in Unrestricted \cup Fixed :
           updated[f] = IF r # info /\ f \in Unrestricted THEN r[f] ELSE info[f]
    BY DEF Updated, Fields, Unrestricted, Conditional, Fixed
  <1>5. \A f \in Conditional :
           updated[f] = IF r # info /\ info.mbsDistSessState = "INACTIVE" THEN r[f] ELSE info[f]
    BY DEF Updated, Fields, Unrestricted, Conditional, Fixed
  <1>6. \A f \in Unrestricted \cup Fixed \cup Conditional : f \in Fields \ {"mbsDistSessState"}
    BY DEF Fields, Unrestricted, Conditional, Fixed
  <1>7. QED
    <2> HIDE DEF updated
    <2> QED BY <1>3, <1>4, <1>5, <1>6

LEMMA PutShape ==
    ASSUME SmfInv, NEW r \in Requests, NEW s \in States, Put(r, s)
    PROVE  SmfInv'
  <1>1. /\ phase = "created" /\ phase' = "created" /\ DOMAIN session = SessionFields
        /\ UNCHANGED <<flight, stf>> /\ DOMAIN ctx = CtxFields /\ DOMAIN info = Fields
        /\ ctx' = [ctx EXCEPT !.needsUpdate = (r # info)]
        /\ IsList(flight)
    BY DEF Put, Change, SmfInv, Shape, SessionShape, CtxShape, InfoShape
  <1>2. /\ DOMAIN ctx' = CtxFields /\ ctx'.ssm = ctx.ssm /\ ctx'.tsi = ctx.tsi
        /\ ctx'.needsUpdate \in BOOLEAN
    BY <1>1 DEF CtxFields
  <1>3. DOMAIN info' = Fields
    BY <1>1, PutFields
  <1>4. PacketSource'
    <2>1. info'.pckDistrInfo = IF r # info /\ info.mbsDistSessState = "INACTIVE"
                               THEN r.pckDistrInfo ELSE info.pckDistrInfo
      BY <1>1, PutFields DEF Conditional
    <2>2. source' = IF r # info /\ info.mbsDistSessState = "INACTIVE" THEN r ELSE source
      BY DEF Put
    <2>3. QED BY <1>1, <2>1, <2>2 DEF SmfInv, Shape, PacketSource
  <1>5. Latest' /\ DOMAIN session' = SessionFields
    <2>1. CASE r # info \/ ctx.stateUpdate
      <3>1. session' = populate(info', session) /\ given' = Given(info')
        BY <2>1 DEF Put
      <3>2. \A f \in Told : session[f] = IF given[f] = None THEN None ELSE Member(f, given[f])
        BY <1>1 DEF SmfInv, Latest, Shape, SessionShape
      <3>3. QED BY <3>1, <3>2, PopulateTells DEF Given, Latest
    <2>2. CASE r = info /\ ~ctx.stateUpdate
      <3>1. UNCHANGED <<session, given>>
        BY <2>2 DEF Put
      <3>2. \A f \in Told : info'[f] = info[f]
        BY <1>1, <2>2, PutFields DEF Told, Unrestricted, Conditional, Fixed
      <3>3. QED BY <1>1, <3>1, <3>2 DEF SmfInv, Latest
    <2>3. QED BY <2>1, <2>2
  <1>6. QED
    BY <1>1, <1>2, <1>3, <1>4, <1>5 DEF SmfInv, Shape, SessionShape, InfoShape, Early, CtxShape,
                            FlowSource, IsList, Elements

LEMMA SmfInductive == ASSUME SmfInv, [Next]_vars PROVE SmfInv'
  <1>1. ASSUME NEW r \in Requests, NEW s \in States, Post(r, s) \/ Put(r, s) PROVE SmfInv'
    BY <1>1, PostShape, PutShape
  <1>2. ASSUME NEW s \in States, ChangeState(s) PROVE SmfInv'
    BY <1>2, ChangeStateShape
  <1>3. QED
    BY <1>1, <1>2, SmfUnchanged, BuildShape, CreatedShape, PatchBuildShape, AnswerShape DEF Next

LEMMA SmfAlways == Spec => []SmfInv
  BY ShapeInit, SmfInductive, PTL DEF Spec

\* Whatever is sent when, the MB-SMF's structure has for every field what the
\* last value given for it becomes (populate_mb_smf_mbs_session).
THEOREM LatestIsTold == Spec => []SmfLatest
  <1>1. SmfInv => SmfLatest
    BY DEF SmfInv, Shape, SessionShape, Latest, SmfLatest
  <1>2. QED BY <1>1, SmfAlways, PTL

-----------------------------------------------------------------------------
(* What the MBSTF is told.                                                 *)

\* An info that is one request's, but for the MBSTF's addresses
From(i, r) ==
    /\ \A f \in Conditional \ {"pckDistrInfo"} : i[f] = r[f]
    /\ i.pckDistrInfo \in {r.pckDistrInfo, WithMbstf(r.pckDistrInfo)}

\* The MBSTF's addresses change nothing else of a packet method's info.
LEMMA SamePacketInfo ==
    ASSUME NEW r \in Requests, NEW i, From(i, r)
    PROVE  /\ i.pckDistrInfo = None <=> r.pckDistrInfo = None
           /\ r.pckDistrInfo # None => i.pckDistrInfo.mode = r.pckDistrInfo.mode
  <1>1. CASE r.pckDistrInfo = None
    BY <1>1 DEF From, WithMbstf
  <1>2. CASE r.pckDistrInfo # None
    <2>1. WithMbstf(r.pckDistrInfo) = [r.pckDistrInfo EXCEPT !.addrs = "mbstf"]
      BY <1>2 DEF WithMbstf
    <2>2. /\ WithMbstf(r.pckDistrInfo) # None
          /\ WithMbstf(r.pckDistrInfo).mode = r.pckDistrInfo.mode
      BY <1>2, <2>1, RecordAssumption
    <2>3. QED BY <1>2, <2>2 DEF From
  <1>3. QED BY <1>1, <1>2

LEMMA BodyFits ==
    ASSUME NEW r \in Requests, NEW i, From(i, r),
           NEW q \in Requests, NEW c, c.ssm = q.mbsSessionId, c.tsi \in {0, 1}
    PROVE  Fits(DistSession(i, c))
  <1> DEFINE d == DistSession(i, c)
  <1>1. /\ i.distrMethod = r.distrMethod /\ i.objDistrInfo = r.objDistrInfo
        /\ Valid(r)
    BY StatesAreKnown DEF From, Conditional
  <1>2. DOMAIN d = BodyFields
    BY DEF DistSession, BodyFields
  <1>3. /\ d.obj = IF i.distrMethod = "OBJECT" THEN populate_mbstf_obj_distribution_data(i)
                   ELSE None
        /\ d.pkt = IF i.distrMethod = "PACKET" THEN i.pckDistrInfo ELSE None
        /\ d.flow = IF i.pckDistrInfo # None /\ i.pckDistrInfo.mode = "PACKET_FORWARD_ONLY"
                    THEN None ELSE [ssm |-> c.ssm, tsi |-> IF c.tsi = 0 THEN None ELSE c.tsi]
    BY DEF DistSession, populate_mbstf_pkt_distribution_data, populate_mbstf_up_traffic_flow_info
  <1>4. populate_mbstf_obj_distribution_data(i) = populate_mbstf_obj_distribution_data(r)
    BY <1>1 DEF populate_mbstf_obj_distribution_data
  <1>5. [ssm |-> c.ssm, tsi |-> IF c.tsi = 0 THEN None ELSE c.tsi] # None
    <2>1. (IF c.tsi = 0 THEN None ELSE c.tsi) \in {None, 1}
      OBVIOUS
    <2>2. \A tsi \in {None, 1} : [ssm |-> q.mbsSessionId, tsi |-> tsi] # None
      BY RecordAssumption
    <2>3. QED BY <2>1, <2>2
  <1>6. CASE i.distrMethod = "OBJECT"
    <2>1. /\ d.obj = populate_mbstf_obj_distribution_data(r) /\ d.obj # None /\ d.pkt = None
      BY <1>3, <1>4, <1>6, RecordAssumption
    <2>2. d.obj.mode # None
      BY <1>1, <1>6, <2>1 DEF populate_mbstf_obj_distribution_data, Valid
    <2>3. QED BY <1>2, <2>1, <2>2 DEF Fits, FitsMethod
  <1>7. CASE i.distrMethod = "PACKET"
    <2>1. d.obj = None /\ d.pkt = i.pckDistrInfo /\ d.pkt # None
      BY <1>1, <1>3, <1>7, SamePacketInfo DEF Valid
    <2>2. d.flow = None <=> d.pkt.mode = "PACKET_FORWARD_ONLY"
      BY <1>3, <1>5, <2>1
    <2>3. QED BY <1>2, <2>1, <2>2 DEF Fits, FitsMethod
  <1>8. QED BY <1>1, <1>6, <1>7 DEF Valid

LEMMA StateFits ==
    ASSUME NEW d, Fits(d), NEW s
    PROVE  Fits([d EXCEPT !.state = s])
  BY DEF Fits, FitsMethod, BodyFields

\* What SmfInv says of the request the info is from
LEMMA InfoFrom ==
    ASSUME SmfInv, OneSource, phase # "new"
    PROVE  From(info, source) /\ source \in Requests
  BY DEF SmfInv, Shape, PacketSource, OneSource, From

\* A PATCH that is sent has the content of one request.
LEMMA SendFits ==
    ASSUME IsList(flight), FlightFits, NEW i, NEW c, DOMAIN c = CtxFields, Send(i, c),
           NEW r \in Requests, From(i, r),
           NEW q \in Requests, c.ssm = q.mbsSessionId, c.tsi \in {0, 1}
    PROVE  FlightFits'
  <1>1. CASE flight' = flight
    BY <1>1 DEF FlightFits
  <1>2. CASE flight' = Append(flight, PatchOf(i, c))
    <2>1. PatchOf(i, c).whole => PatchOf(i, c).body = DistSession(i, c)
      BY DEF PatchOf, Patch
    <2>2. Fits(DistSession(i, c))
      BY BodyFits
    <2>3. \A j \in DOMAIN flight' : (j \in DOMAIN flight /\ flight'[j] = flight[j])
                                    \/ flight'[j] = PatchOf(i, c)
      BY <1>2, ListAppend
    <2>4. QED BY <2>1, <2>2, <2>3 DEF FlightFits
  <1>3. QED BY <1>1, <1>2 DEF Send

LEMMA CoherentInit == Init => CoherentInv
  <1> SUFFICES ASSUME Init PROVE CoherentInv
    OBVIOUS
  <1>1. SmfInv
    BY ShapeInit
  <1>2. flight = << >> /\ DOMAIN flight = {}
    BY DEF Init
  <1>3. QED BY <1>1, <1>2 DEF Init, CoherentInv, OneSource, MbstfFits, FlightFits

LEMMA PostFits ==
    ASSUME CoherentInv, NEW r \in Requests, NEW s \in States, Post(r, s)
    PROVE  (OneSource /\ MbstfFits /\ FlightFits)'
  <1>1. /\ phase = "new" /\ phase' \in {"building", "stuck"} /\ source' = r
        /\ UNCHANGED <<flight, stf>> /\ info' = [r EXCEPT !.mbsDistSessState = s]
    BY DEF Post
  <1>2. OneSource'
    <2>1. \A f \in Fields \ {"mbsDistSessState"} : info'[f] = r[f]
      BY <1>1, StatesAreKnown, NowFields
    <2>2. QED BY <1>1, <2>1 DEF OneSource, Fields, Conditional
  <1>3. QED BY <1>1, <1>2 DEF CoherentInv, MbstfFits, FlightFits

LEMMA BuildFits ==
    ASSUME CoherentInv, BuildDistSession
    PROVE  (OneSource /\ MbstfFits /\ FlightFits)'
  <1>1. /\ phase = "building" /\ phase' = "waiting" /\ stf' = DistSession(info, ctx)
        /\ UNCHANGED <<info, source, flight>>
    BY DEF BuildDistSession
  <1>2. Fits(stf')
    BY <1>1, InfoFrom, BodyFits DEF CoherentInv, SmfInv, Shape, FlowSource
  <1>3. QED BY <1>1, <1>2 DEF CoherentInv, OneSource, MbstfFits, FlightFits

LEMMA CreatedFits ==
    ASSUME CoherentInv, Created
    PROVE  (OneSource /\ MbstfFits /\ FlightFits)'
  <1>1. /\ phase = "waiting" /\ phase' = "created" /\ info' = Merged(info)
        /\ UNCHANGED <<stf, source, flight>> /\ DOMAIN info = Fields
    BY DEF Created, CoherentInv, SmfInv, Shape, InfoShape
  <1>2. \A f \in Conditional \ {"pckDistrInfo"} : info'[f] = info[f]
    BY <1>1, PacketMerged DEF Fields
  <1>3. QED BY <1>1, <1>2 DEF CoherentInv, OneSource, MbstfFits, FlightFits

LEMMA PutFits ==
    ASSUME CoherentInv, NEW r \in Requests, NEW s \in States, Put(r, s)
    PROVE  (OneSource /\ MbstfFits /\ FlightFits)'
  <1>1. /\ phase = "created" /\ UNCHANGED <<phase, stf, flight>> /\ DOMAIN info = Fields
    BY DEF Put, Change, CoherentInv, SmfInv, Shape, InfoShape
  <1>2. \A f \in Conditional :
           info'[f] = IF r # info /\ info.mbsDistSessState = "INACTIVE" THEN r[f] ELSE info[f]
    BY <1>1, PutFields
  <1>3. source' = IF r # info /\ info.mbsDistSessState = "INACTIVE" THEN r ELSE source
    BY DEF Put
  <1>4. OneSource'
    BY <1>1, <1>2, <1>3 DEF CoherentInv, OneSource
  <1>5. QED BY <1>1, <1>4 DEF CoherentInv, MbstfFits, FlightFits

LEMMA PatchBuildFits ==
    ASSUME CoherentInv, PatchBuild
    PROVE  (OneSource /\ MbstfFits /\ FlightFits)'
  <1>1. /\ UNCHANGED <<phase, info, source, stf>> /\ Send(info, ctx) /\ phase = "created"
        /\ IsList(flight) /\ DOMAIN ctx = CtxFields
    BY DEF PatchBuild, CoherentInv, SmfInv, Shape, Early, CtxShape
  <1>2. FlightFits'
    BY <1>1, InfoFrom, SendFits DEF CoherentInv, SmfInv, Shape, FlowSource
  <1>3. QED BY <1>1, <1>2 DEF CoherentInv, OneSource, MbstfFits

LEMMA ChangeStateFits ==
    ASSUME CoherentInv, NEW s \in States, ChangeState(s)
    PROVE  (OneSource /\ MbstfFits /\ FlightFits)'
  <1> DEFINE now == [info EXCEPT !.mbsDistSessState = s]
             c == [ctx EXCEPT !.stateUpdate = TRUE]
  <1>1. /\ UNCHANGED <<phase, source, stf>> /\ Send(now, c) /\ phase = "created"
        /\ info' = now /\ IsList(flight) /\ DOMAIN ctx = CtxFields /\ DOMAIN info = Fields
    BY DEF ChangeState, Change, CoherentInv, SmfInv, Shape, CtxShape, InfoShape
  <1>2. \A f \in Conditional : now[f] = info[f]
    BY <1>1, NowFields DEF Fields, Conditional
  <1>3. DOMAIN c = CtxFields /\ c.ssm = ctx.ssm /\ c.tsi = ctx.tsi
    BY <1>1 DEF CtxFields
  <1> HIDE DEF now, c
  <1>4. From(now, source) /\ source \in Requests
    BY <1>1, <1>2, InfoFrom DEF CoherentInv, From, Conditional
  <1>5. FlightFits'
    BY <1>1, <1>3, <1>4, SendFits DEF CoherentInv, SmfInv, Shape, FlowSource
  <1>6. QED BY <1>1, <1>2, <1>5 DEF CoherentInv, OneSource, MbstfFits

LEMMA AnswerFits ==
    ASSUME CoherentInv, Accepted \/ Refused
    PROVE  (OneSource /\ MbstfFits /\ FlightFits)'
  <1>1. /\ UNCHANGED <<phase, info, source>> /\ flight # << >> /\ flight' = Tail(flight)
        /\ IsList(flight) /\ phase = "created" /\ Fits(stf)
    BY DEF Accepted, Refused, CoherentInv, SmfInv, Shape, Early, MbstfFits
  <1>2. /\ \A i \in DOMAIN flight' : i + 1 \in DOMAIN flight /\ flight'[i] = flight[i + 1]
        /\ 1 \in DOMAIN flight /\ Head(flight) = flight[1]
    BY <1>1, ListTail
  <1>3. FlightFits'
    BY <1>2 DEF CoherentInv, FlightFits
  <1>4. Fits(stf')
    <2>1. CASE Refused
      BY <1>1, <2>1 DEF Refused
    <2>2. CASE Accepted
      <3>1. stf' = IF flight[1].whole THEN flight[1].body
                   ELSE [stf EXCEPT !.state = flight[1].state]
        BY <1>2, <2>2 DEF Accepted
      <3>2. flight[1].whole => Fits(flight[1].body)
        BY <1>2 DEF CoherentInv, FlightFits
      <3>3. QED BY <1>1, <3>1, <3>2, StateFits
    <2>3. QED BY <2>1, <2>2
  <1>5. QED BY <1>1, <1>3, <1>4 DEF CoherentInv, OneSource, MbstfFits

LEMMA CoherentInductive == ASSUME CoherentInv, [Next]_vars PROVE CoherentInv'
  <1>1. SmfInv'
    BY SmfInductive DEF CoherentInv
  <1>2. ASSUME UNCHANGED vars PROVE (OneSource /\ MbstfFits /\ FlightFits)'
    BY <1>2 DEF vars, CoherentInv, OneSource, MbstfFits, FlightFits
  <1>3. ASSUME NEW r \in Requests, NEW s \in States, Post(r, s) \/ Put(r, s)
        PROVE  (OneSource /\ MbstfFits /\ FlightFits)'
    BY <1>3, PostFits, PutFits
  <1>4. ASSUME NEW s \in States, ChangeState(s) PROVE (OneSource /\ MbstfFits /\ FlightFits)'
    BY <1>4, ChangeStateFits
  <1>5. (OneSource /\ MbstfFits /\ FlightFits)'
    BY <1>2, <1>3, <1>4, BuildFits, CreatedFits, PatchBuildFits, AnswerFits DEF Next
  <1>6. QED BY <1>1, <1>5 DEF CoherentInv

LEMMA CoherentAlways == Spec => []CoherentInv
  BY CoherentInit, CoherentInductive, PTL DEF Spec

\* However PUTs and state changes fall, the MBSTF is only ever told of the
\* method of one request with the data of that request
\* (updateMBSDistributionSessionInfo, build_nmb2_create_dist_session).
THEOREM OneMethodIsTold == Spec => []Coherent
  <1>1. CoherentInv => Coherent
    BY DEF CoherentInv, MbstfFits, FlightFits, Fits, Coherent
  <1>2. QED BY <1>1, CoherentAlways, PTL

-----------------------------------------------------------------------------
(* The MBSTF has what the info describes.                                  *)

LEMMA SameFieldsSame ==
    ASSUME NEW d, NEW e, DOMAIN d = BodyFields, DOMAIN e = BodyFields, SameFields(d, e)
    PROVE  SameContent(d, e)
  <1> DEFINE dd == [d EXCEPT !.state = None, !.pkt = None]
             ee == [e EXCEPT !.state = None, !.pkt = None]
  <1>1. dd = [f \in BodyFields |-> IF f \in {"state", "pkt"} THEN None ELSE d[f]]
    BY DEF BodyFields
  <1>2. ee = [f \in BodyFields |-> IF f \in {"state", "pkt"} THEN None ELSE e[f]]
    BY DEF BodyFields
  <1>3. \A f \in BodyFields \ {"state", "pkt"} : d[f] = e[f]
    BY DEF SameFields, BodyFields
  <1>4. dd = ee
    <2> HIDE DEF dd, ee
    <2> QED BY <1>1, <1>2, <1>3
  <1>5. QED BY <1>4 DEF SameFields, SamePacket, SameContent

\* The content of a DistSession does not depend on the state, and on nothing
\* of the context that changes.
LEMMA SameInfoSameBody ==
    ASSUME NEW i, NEW j, NEW c, NEW e, c.ssm = e.ssm, c.tsi = e.tsi,
           \A f \in Conditional : i[f] = j[f]
    PROVE  SameFields(DistSession(i, c), DistSession(j, e))
  <1>1. /\ i.distrMethod = j.distrMethod /\ i.objDistrInfo = j.objDistrInfo
        /\ i.pckDistrInfo = j.pckDistrInfo /\ i.maxContBitRate = j.maxContBitRate
        /\ i.maxContDelay = j.maxContDelay /\ i.fecConfig = j.fecConfig
        /\ i.trafficMarkingInfo = j.trafficMarkingInfo
    BY DEF Conditional
  <1>2. QED
    BY <1>1 DEF SameFields, SamePacket, DistSession, populate_mbstf_obj_distribution_data,
                populate_mbstf_pkt_distribution_data, populate_mbstf_up_traffic_flow_info

LEMMA SameFieldsTransitive ==
    ASSUME NEW d, NEW e, NEW g, SameFields(d, e), SameFields(e, g)
    PROVE  SameFields(d, g)
  BY DEF SameFields, SamePacket

LEMMA SameFieldsState ==
    ASSUME NEW d, NEW e, DOMAIN d = BodyFields, SameFields(d, e), NEW s
    PROVE  SameFields([d EXCEPT !.state = s], e)
  BY DEF SameFields, BodyFields

\* The MBSTF still has the content when what it depends on stays.
LEMMA CurrentStays ==
    ASSUME Current, stf' = stf, ctx'.ssm = ctx.ssm, ctx'.tsi = ctx.tsi,
           \A f \in Conditional : info'[f] = info[f]
    PROVE  Current'
  <1>1. SameFields(DistSession(info, ctx), DistSession(info', ctx'))
    BY SameInfoSameBody
  <1>2. QED BY <1>1, SameFieldsTransitive DEF Current

\* The MBSTF's addresses, merged into the info, are no difference.
LEMMA CreatedCurrent ==
    ASSUME BodyInv, Created
    PROVE  Current'
  <1>1. /\ phase = "waiting" /\ info' = Merged(info) /\ stf' = stf /\ DOMAIN info = Fields
        /\ stf = DistSession(info, ctx) /\ DOMAIN ctx = CtxFields
        /\ From(info, source) /\ source \in Requests
    BY InfoFrom DEF Created, BodyInv, CoherentInv, SmfInv, Shape, InfoShape, CtxShape
  <1>2. ctx'.ssm = ctx.ssm /\ ctx'.tsi = ctx.tsi
    BY <1>1 DEF Created, CtxFields
  <1>3. \A f \in Conditional \ {"pckDistrInfo"} : info'[f] = info[f]
    BY <1>1, PacketMerged DEF Fields
  <1>4. CASE info' = info
    <2>1. SameFields(DistSession(info, ctx), DistSession(info', ctx'))
      BY <1>2, <1>4, SameInfoSameBody
    <2>2. QED BY <1>1, <2>1 DEF Current
  <1>5. CASE info.pckDistrInfo # None
             /\ info' = [info EXCEPT !.pckDistrInfo.addrs = "mbstf"]
    <2> DEFINE p == info.pckDistrInfo
               q == info'.pckDistrInfo
    <2>1. q = [p EXCEPT !.addrs = "mbstf"]
      BY <1>1, <1>5 DEF Fields, Conditional
    <2>2. {"mode", "addrs"} \subseteq DOMAIN p /\ q # None
      <3>1. source.pckDistrInfo # None /\ p \in {source.pckDistrInfo, WithMbstf(source.pckDistrInfo)}
        BY <1>1, <1>5 DEF From, WithMbstf
      <3>2. /\ {"mode", "addrs"} \subseteq DOMAIN source.pckDistrInfo
            /\ [source.pckDistrInfo EXCEPT !.addrs = "mbstf"] # None
        BY <1>1, <3>1, RecordAssumption
      <3>3. WithMbstf(source.pckDistrInfo) = [source.pckDistrInfo EXCEPT !.addrs = "mbstf"]
        BY <3>1 DEF WithMbstf
      <3>4. q = [source.pckDistrInfo EXCEPT !.addrs = "mbstf"]
        BY <2>1, <3>1, <3>2, <3>3
      <3>5. QED BY <3>1, <3>2, <3>3, <3>4
    <2>3. q.mode = p.mode /\ [q EXCEPT !.addrs = None] = [p EXCEPT !.addrs = None]
      BY <2>1, <2>2
    <2> HIDE DEF p, q
    <2>4. SamePacket(p, q)
      BY <1>5, <2>2, <2>3 DEF SamePacket, p, q
    <2>5. /\ info'.distrMethod = info.distrMethod /\ info'.objDistrInfo = info.objDistrInfo
          /\ info'.maxContBitRate = info.maxContBitRate
          /\ info'.maxContDelay = info.maxContDelay /\ info'.fecConfig = info.fecConfig
          /\ info'.trafficMarkingInfo = info.trafficMarkingInfo
      BY <1>3 DEF Conditional
    <2>6. SamePacket(populate_mbstf_pkt_distribution_data(info),
                     populate_mbstf_pkt_distribution_data(info'))
      BY <2>4, <2>5 DEF populate_mbstf_pkt_distribution_data, SamePacket, p, q
    <2>7. populate_mbstf_up_traffic_flow_info(info, ctx)
            = populate_mbstf_up_traffic_flow_info(info', ctx')
      BY <1>2, <1>5, <2>2, <2>3 DEF populate_mbstf_up_traffic_flow_info, p, q
    <2>8. populate_mbstf_obj_distribution_data(info) = populate_mbstf_obj_distribution_data(info')
      BY <2>5 DEF populate_mbstf_obj_distribution_data
    <2>9. SameFields(DistSession(info, ctx), DistSession(info', ctx'))
      BY <2>5, <2>6, <2>7, <2>8 DEF DistSession, SameFields
    <2>10. QED BY <1>1, <2>9 DEF Current
  <1>6. QED BY <1>1, <1>4, <1>5 DEF Merged

\* The three places a change can be
Through == queue = 0 /\ flight = << >> /\ ~ctx.needsUpdate /\ Current
Queued == queue = 1 /\ flight = << >> /\ (~ctx.needsUpdate => Current)
Sent == /\ queue = 0 /\ Len(flight) = 1
        /\ IF flight[1].whole THEN flight[1].body = DistSession(info, ctx)
           ELSE ~ctx.needsUpdate /\ Current

LEMMA PlacesAre ==
    OneChange <=> (phase = "created" /\ ~overlap => Through \/ Queued \/ Sent)
  BY DEF OneChange, Through, Queued, Sent

\* A change that leaves no overlap behind finds the last one through.
LEMMA ChangeFindsThrough ==
    ASSUME BodyInv, Change, ~overlap'
    PROVE  Through /\ ~overlap
  <1>1. ~overlap /\ Idle
    BY DEF Change
  <1>2. flight = << >> /\ queue = 0 /\ ~ctx.needsUpdate /\ phase = "created"
    BY <1>1 DEF Idle, Change
  <1>3. Through \/ Queued \/ Sent
    BY <1>1, <1>2, PlacesAre DEF BodyInv
  <1>4. ~Queued
    BY <1>2 DEF Queued
  <1>5. ~Sent
    <2>1. Len(<< >>) = 0
      OBVIOUS
    <2>2. QED BY <1>2, <2>1 DEF Sent
  <1>6. QED BY <1>1, <1>3, <1>4, <1>5

LEMMA PutPlaces ==
    ASSUME BodyInv, NEW r \in Requests, NEW s \in States, Put(r, s), ~overlap'
    PROVE  (Through \/ Queued)'
  <1>1. Through
    BY ChangeFindsThrough DEF Put
  <1>2. /\ DOMAIN ctx = CtxFields /\ DOMAIN info = Fields /\ flight' = flight /\ stf' = stf
        /\ ctx' = [ctx EXCEPT !.needsUpdate = (r # info)]
    BY DEF Put, Change, BodyInv, CoherentInv, SmfInv, Shape, CtxShape, InfoShape
  <1>3. ctx'.ssm = ctx.ssm /\ ctx'.tsi = ctx.tsi /\ (ctx'.needsUpdate <=> r # info)
    BY <1>2 DEF CtxFields
  <1>4. CASE r # info
    <2>1. queue' = 1 /\ ctx'.needsUpdate
      BY <1>1, <1>3, <1>4 DEF Put, Through
    <2>2. QED BY <1>1, <1>2, <2>1 DEF Through, Queued
  <1>5. CASE r = info
    <2>1. \A f \in Conditional : info'[f] = info[f]
      BY <1>2, <1>5, PutFields
    <2>2. Current'
      BY <1>1, <1>2, <1>3, <2>1, CurrentStays DEF Through
    <2>3. queue' \in {0, 1}
      BY <1>1, <1>5 DEF Put, Through
    <2>4. QED BY <1>1, <1>2, <1>3, <1>5, <2>2, <2>3 DEF Through, Queued
  <1>6. QED BY <1>4, <1>5

LEMMA PatchBuildPlaces ==
    ASSUME BodyInv, PatchBuild, ~overlap'
    PROVE  (Through \/ Sent)'
  <1>1. /\ phase = "created" /\ ~overlap /\ IsList(flight) /\ DOMAIN ctx = CtxFields
        /\ Send(info, ctx) /\ info' = info /\ stf' = stf /\ queue > 0 /\ queue' = queue - 1
    BY DEF PatchBuild, BodyInv, CoherentInv, SmfInv, Shape, Early, CtxShape
  <1>2. Queued
    BY <1>1, PlacesAre DEF BodyInv, Through, Sent
  <1>3. /\ ctx'.ssm = ctx.ssm /\ ctx'.tsi = ctx.tsi /\ ctx'.needsUpdate = ctx.needsUpdate
        /\ IF NeedsPatch(info, ctx) THEN flight' = Append(flight, PatchOf(info, ctx))
           ELSE flight' = flight
    BY <1>1, SendShape
  <1>4. queue' = 0 /\ flight = << >>
    BY <1>1, <1>2 DEF Queued
  <1>5. Current => Current'
    BY <1>1, <1>3, CurrentStays
  <1>6. CASE NeedsPatch(info, ctx)
    <2>1. flight' = <<PatchOf(info, ctx)>>
      BY <1>3, <1>4, <1>6
    <2>2. Len(flight') = 1 /\ flight'[1] = PatchOf(info, ctx)
      BY <2>1
    <2>3. flight'[1].whole = ctx.needsUpdate
          /\ (flight'[1].whole => flight'[1].body = DistSession(info, ctx))
      BY <2>2 DEF PatchOf, Patch
    <2>4. DistSession(info, ctx) = DistSession(info', ctx')
      BY <1>1, <1>3 DEF DistSession, populate_mbstf_obj_distribution_data,
                populate_mbstf_pkt_distribution_data, populate_mbstf_up_traffic_flow_info
    <2>5. QED BY <1>2, <1>3, <1>4, <1>5, <2>2, <2>3, <2>4 DEF Sent, Queued
  <1>7. CASE ~NeedsPatch(info, ctx)
    BY <1>2, <1>3, <1>4, <1>5, <1>7 DEF NeedsPatch, Through, Queued
  <1>8. QED BY <1>6, <1>7

LEMMA ChangeStatePlaces ==
    ASSUME BodyInv, NEW s \in States, ChangeState(s), ~overlap'
    PROVE  (Through \/ Sent)'
  <1> DEFINE now == [info EXCEPT !.mbsDistSessState = s]
             c == [ctx EXCEPT !.stateUpdate = TRUE]
  <1>1. Through
    BY ChangeFindsThrough DEF ChangeState
  <1>2. /\ IsList(flight) /\ DOMAIN ctx = CtxFields /\ DOMAIN info = Fields
        /\ Send(now, c) /\ info' = now /\ stf' = stf /\ queue' = queue
    BY DEF ChangeState, Change, BodyInv, CoherentInv, SmfInv, Shape, CtxShape, InfoShape
  <1>3. /\ DOMAIN c = CtxFields /\ c.ssm = ctx.ssm /\ c.tsi = ctx.tsi
        /\ c.needsUpdate = ctx.needsUpdate
    BY <1>2 DEF CtxFields
  <1>4. \A f \in Conditional : now[f] = info[f]
    BY <1>2, NowFields DEF Fields, Conditional
  <1> HIDE DEF now, c
  <1>5. /\ ctx'.ssm = ctx.ssm /\ ctx'.tsi = ctx.tsi /\ ctx'.needsUpdate = ctx.needsUpdate
        /\ IF NeedsPatch(now, c) THEN flight' = Append(flight, PatchOf(now, c))
           ELSE flight' = flight
    BY <1>2, <1>3, SendShape
  <1>6. Current'
    BY <1>1, <1>2, <1>4, <1>5, CurrentStays DEF Through
  <1>7. CASE NeedsPatch(now, c)
    <2>1. flight' = <<PatchOf(now, c)>>
      BY <1>1, <1>5, <1>7 DEF Through
    <2>2. Len(flight') = 1 /\ flight'[1] = PatchOf(now, c)
      BY <2>1
    <2>3. flight'[1].whole = ctx.needsUpdate
      BY <1>3, <2>2 DEF PatchOf, Patch
    <2>4. QED BY <1>1, <1>2, <1>5, <1>6, <2>2, <2>3 DEF Sent, Through
  <1>8. CASE ~NeedsPatch(now, c)
    BY <1>1, <1>2, <1>5, <1>6, <1>8 DEF Through
  <1>9. QED BY <1>7, <1>8

LEMMA AcceptedPlaces ==
    ASSUME BodyInv, Accepted, ~overlap'
    PROVE  Through'
  <1>1. /\ phase = "created" /\ ~overlap /\ IsList(flight) /\ DOMAIN ctx = CtxFields
        /\ flight # << >> /\ flight' = Tail(flight) /\ info' = info /\ queue' = queue
        /\ DOMAIN stf = BodyFields
    BY DEF Accepted, BodyInv, CoherentInv, SmfInv, Shape, Early, CtxShape, MbstfFits, Fits
  <1>2. Sent
    BY <1>1, PlacesAre DEF BodyInv, Through, Queued
  <1>3. flight' = << >> /\ Head(flight) = flight[1]
    BY <1>1, <1>2, ListTail DEF Sent
  <1>4. /\ stf' = IF flight[1].whole THEN flight[1].body
                  ELSE [stf EXCEPT !.state = flight[1].state]
        /\ ctx' = [ctx EXCEPT !.needsUpdate = FALSE, !.stateUpdate = FALSE,
                              !.reported = flight[1].state]
    BY <1>3 DEF Accepted
  <1>5. ctx'.ssm = ctx.ssm /\ ctx'.tsi = ctx.tsi /\ ctx'.needsUpdate = FALSE
    BY <1>1, <1>4 DEF CtxFields
  <1>6. SameFields(DistSession(info, ctx), DistSession(info', ctx'))
    BY <1>1, <1>5, SameInfoSameBody
  <1>7. SameFields(stf', DistSession(info, ctx))
    <2>1. CASE flight[1].whole
      BY <1>2, <1>4, <2>1, SameInfoSameBody DEF Sent
    <2>2. CASE ~flight[1].whole
      BY <1>1, <1>2, <1>4, <2>2, SameFieldsState DEF Sent, Current
    <2>3. QED BY <2>1, <2>2
  <1>8. Current'
    BY <1>6, <1>7, SameFieldsTransitive DEF Current
  <1>9. QED BY <1>1, <1>2, <1>3, <1>5, <1>8 DEF Through, Sent

LEMMA BodyInit == Init => BodyInv
  BY CoherentInit DEF Init, BodyInv, OneChange

LEMMA BodyInductive == ASSUME BodyInv, [Next]_vars PROVE BodyInv'
  <1> DEFINE Rest == OneChange /\ (phase = "waiting" => stf = DistSession(info, ctx))
  <1>1. CoherentInv'
    BY CoherentInductive DEF BodyInv
  <1>2. ASSUME UNCHANGED vars PROVE Rest'
    BY <1>2 DEF vars, BodyInv, OneChange, Current
  <1>3. ASSUME NEW r \in Requests, NEW s \in States, Post(r, s) PROVE Rest'
    BY <1>3 DEF Post, OneChange
  <1>4. ASSUME NEW r \in Requests, NEW s \in States, Put(r, s) PROVE Rest'
    <2>1. phase' = "created"
      BY <1>4 DEF Put, Change
    <2>2. ~overlap' => (Through \/ Queued)'
      BY <1>4, PutPlaces
    <2>3. QED BY <2>1, <2>2 DEF OneChange, Through, Queued
  <1>5. ASSUME NEW s \in States, ChangeState(s) PROVE Rest'
    <2>1. phase' = "created"
      BY <1>5 DEF ChangeState, Change
    <2>2. ~overlap' => (Through \/ Sent)'
      BY <1>5, ChangeStatePlaces
    <2>3. QED BY <2>1, <2>2 DEF OneChange, Through, Sent
  <1>6. ASSUME BuildDistSession PROVE Rest'
    <2>1. /\ phase' = "waiting" /\ stf' = DistSession(info, ctx) /\ info' = info
          /\ DOMAIN ctx = CtxFields /\ ctx' = [ctx EXCEPT !.requested = info.mbsDistSessState]
      BY <1>6 DEF BuildDistSession, BodyInv, CoherentInv, SmfInv, Shape, CtxShape
    <2>2. ctx'.ssm = ctx.ssm /\ ctx'.tsi = ctx.tsi
      BY <2>1 DEF CtxFields
    <2>3. stf' = DistSession(info', ctx')
      BY <2>1, <2>2 DEF DistSession, populate_mbstf_obj_distribution_data,
                populate_mbstf_pkt_distribution_data, populate_mbstf_up_traffic_flow_info
    <2>4. QED BY <2>1, <2>3 DEF OneChange
  <1>7. ASSUME Created PROVE Rest'
    <2>1. /\ phase' = "created" /\ queue' = 0 /\ flight' = << >> /\ DOMAIN ctx = CtxFields
          /\ ctx' = [ctx EXCEPT !.reported = stf.state] /\ ctx.needsUpdate = FALSE
      BY <1>7 DEF Created, BodyInv, CoherentInv, SmfInv, Shape, CtxShape, Early
    <2>2. ctx'.needsUpdate = FALSE
      BY <2>1 DEF CtxFields
    <2>3. QED BY <1>7, <2>1, <2>2, CreatedCurrent DEF OneChange
  <1>8. ASSUME PatchBuild PROVE Rest'
    <2>1. phase' = "created"
      BY <1>8 DEF PatchBuild, BodyInv, CoherentInv, SmfInv, Shape, Early
    <2>2. ~overlap' => (Through \/ Sent)'
      BY <1>8, PatchBuildPlaces
    <2>3. QED BY <2>1, <2>2 DEF OneChange, Through, Sent
  <1>9. ASSUME Accepted PROVE Rest'
    <2>1. phase' = "created"
      BY <1>9 DEF Accepted, BodyInv, CoherentInv, SmfInv, Shape, Early
    <2>2. ~overlap' => Through'
      BY <1>9, AcceptedPlaces
    <2>3. QED BY <2>1, <2>2 DEF OneChange, Through
  <1>10. ASSUME Refused PROVE Rest'
    <2>1. phase' = "created" /\ overlap'
      BY <1>10 DEF Refused, BodyInv, CoherentInv, SmfInv, Shape, Early
    <2>2. QED BY <2>1 DEF OneChange
  <1>11. Rest'
    <2> HIDE DEF Rest
    <2> QED BY <1>2, <1>3, <1>4, <1>5, <1>6, <1>7, <1>8, <1>9, <1>10 DEF Next
  <1>12. QED BY <1>1, <1>11 DEF BodyInv

LEMMA BodyAlways == Spec => []BodyInv
  BY BodyInit, BodyInductive, PTL DEF Spec

\* Once nothing is under way the MBSTF has the session that the info describes,
\* unless changes have overlapped or one was refused
\* (processUserDataIngSessionUpdate, buildNmb2DistSessionPatch).
THEOREM MbstfIsCurrent == Spec => []BodyCurrent
  <1>1. ASSUME BodyInv PROVE BodyCurrent
    <2> SUFFICES ASSUME phase = "created", Idle, ~overlap
                 PROVE  SameContent(stf, DistSession(info, ctx))
      BY DEF BodyCurrent
    <2>1. Current
      <3>1. Len(<< >>) = 0
        OBVIOUS
      <3>2. QED BY <1>1, <3>1 DEF BodyInv, OneChange, Idle
    <2>2. DOMAIN stf = BodyFields /\ DOMAIN DistSession(info, ctx) = BodyFields
      BY <1>1 DEF BodyInv, CoherentInv, MbstfFits, Fits, DistSession, BodyFields
    <2>3. QED BY <2>1, <2>2, SameFieldsSame DEF Current
  <1>2. QED BY <1>1, BodyAlways, PTL
=============================================================================
