---------------------- MODULE DistSessionControl_proofs ----------------------
(***************************************************************************)
(* Proofs about the control loop of DistSessionControl, for every set of   *)
(* distribution sessions, every schedule and every number of disturbances: *)
(* its types, RequestedIsSent and ScheduleRuns, and QuietIsRight for every *)
(* schedule that does not step down from ACTIVE to ESTABLISHED.            *)
(***************************************************************************)
EXTENDS DistSessionControl, FiniteSetTheorems, SequenceTheorems, TLAPS

-----------------------------------------------------------------------------
(* Sequences.                                                              *)

\* A finite set, put into a sequence, is a sequence of its elements.
LEMMA SetToSeqType ==
    ASSUME NEW S, IsFiniteSet(S)
    PROVE  SetToSeq(S) \in Seq(S)
  <1>1. Cardinality(S) \in Nat /\ ExistsBijection(1..Cardinality(S), S)
    BY FS_CardinalityType
  <1>2. PICK f : f \in Bijection(1..Cardinality(S), S)
    BY <1>1 DEF ExistsBijection
  <1>3. f \in [1..Cardinality(S) -> S] /\ IsInjective(f)
    BY <1>2 DEF Bijection, Injection, IsInjective
  <1>4. SetToSeq(S) \in [1..Cardinality(S) -> S]
    BY <1>3 DEF SetToSeq
  <1>5. QED BY <1>1, <1>4, SeqDef

\* The events queued for some of the keys are events.
LEMMA LocalEventsType ==
    ASSUME NEW event \in {"PATCH_BUILD", "PATCH_ROLLBACK"}, NEW keys \in SUBSET Key
    PROVE  LocalEvents(event, keys) \in Seq(Event)
  <1> DEFINE ks == SetToSeq(keys)
  <1>1. IsFiniteSet(keys)
    BY ControlAssumption, FS_Subset
  <1>2. ks \in Seq(Key)
    BY <1>1, SetToSeqType, SeqDef
  <1>3. Len(ks) \in Nat /\ DOMAIN ks = 1..Len(ks) /\ \A i \in 1..Len(ks) : ks[i] \in Key
    BY <1>2
  <1> HIDE DEF ks
  <1>4. [i \in DOMAIN ks |-> [event |-> event, key |-> ks[i]]] \in [1..Len(ks) -> Event]
    BY <1>3 DEF Event
  <1>5. [i \in DOMAIN ks |-> [event |-> event, key |-> ks[i]]] \in Seq(Event)
    BY <1>3, <1>4, SeqDef
  <1>6. QED BY <1>5 DEF LocalEvents, ks

-----------------------------------------------------------------------------
(* What a handler does to one distribution session.                        *)

\* An effect keeps the types, and changes the requested state exactly by
\* sending a PATCH that asks for it.
IsEffect(c, e) ==
    /\ e.ctx \in Context
    /\ \/ e.out = << >> /\ e.ctx.requested = c.requested
       \/ \E p \in Patch : e.out = <<p>> /\ p.state = e.ctx.requested

\* The wanted state is a state, whether it comes from the schedule or the info.
LEMMA WantType ==
    ASSUME NEW c \in Context, phase \in 1..Len(Phases)
    PROVE  Want(c) \in DistSessionState
  <1>1. Phases \in Seq(DistSessionState)
    BY ControlAssumption
  <1>2. Phases[phase] \in DistSessionState
    BY <1>1
  <1>3. QED BY <1>2 DEF Want, Context

\* Doing nothing is an effect.
LEMMA NoEffect ==
    ASSUME NEW c \in Context
    PROVE  IsEffect(c, Effect(c, << >>))
  BY DEF IsEffect, Effect

\* sendMbsmfActivityStatus leaves the requested state alone.
LEMMA ActivityType ==
    ASSUME NEW c \in Context
    PROVE  SendActivityStatus(c) \in Context /\ SendActivityStatus(c).requested = c.requested
  BY DEF SendActivityStatus, Context

\* Building a PATCH remembers the state it asks for.
LEMMA SendPatchEffect ==
    ASSUME NEW c \in Context, phase \in 1..Len(Phases)
    PROVE  IsEffect(c, SendPatch(c))
  <1> DEFINE p == [state |-> PatchState(c),
                   content |-> IF c.needsUpdate THEN c.content ELSE NoContent]
             d == [c EXCEPT !.requested = PatchState(c)]
  <1>1. PatchState(c) \in DistSessionState
    BY WantType DEF PatchState, DistSessionState
  <1>2. p \in Patch /\ p.state = PatchState(c)
    BY <1>1 DEF Patch, Context, NoContent
  <1>3. d \in Context /\ d.requested = PatchState(c)
    BY <1>1 DEF Context
  <1>4. SendPatch(c).ctx = d /\ SendPatch(c).out = <<p>>
    BY DEF SendPatch, Effect
  <1> HIDE DEF p, d
  <1>5. QED BY <1>2, <1>3, <1>4 DEF IsEffect

\* An effect on a context that differs from c in other fields is one on c.
LEMMA EffectOfSame ==
    ASSUME NEW c \in Context, NEW d \in Context, d.requested = c.requested,
           NEW e, IsEffect(d, e)
    PROVE  IsEffect(c, e)
  BY DEF IsEffect

\* A transition of the schedule.
LEMMA ChangeStateEffect ==
    ASSUME NEW c \in Context, phase \in 1..Len(Phases)
    PROVE  IsEffect(c, ChangeState(c))
  <1> DEFINE b == [c EXCEPT !.stateUpdate = TRUE, !.info = Want(c)]
             d == SendActivityStatus(b)
  <1>1. b \in Context /\ b.requested = c.requested
    BY WantType DEF Context
  <1> HIDE DEF b
  <1>2. d \in Context /\ d.requested = c.requested
    BY <1>1, ActivityType
  <1> HIDE DEF d
  <1>3. IsEffect(c, SendPatch(d)) /\ IsEffect(c, Effect(d, << >>))
    BY <1>2, SendPatchEffect, NoEffect, EffectOfSame
  <1>4. \/ ChangeState(c) = Effect(c, << >>)
        \/ ChangeState(c) = SendPatch(d)
        \/ ChangeState(c) = Effect(d, << >>)
    BY DEF ChangeState, d, b
  <1>5. QED BY <1>3, <1>4, NoEffect

\* A PATCH_BUILD or PATCH_ROLLBACK event.
LEMMA PatchIfNeededEffect ==
    ASSUME NEW c \in Context, phase \in 1..Len(Phases)
    PROVE  IsEffect(c, PatchIfNeeded(c))
  BY SendPatchEffect, NoEffect DEF PatchIfNeeded

\* setMbstfsInDesiredState.
LEMMA InDesiredStateEffect ==
    ASSUME NEW cs \in [Key -> Context], phase \in 1..Len(Phases), NEW k \in Key
    PROVE  IsEffect(cs[k], InDesiredState(cs)[k])
  <1>1. cs[k] \in Context
    OBVIOUS
  <1>2. CASE OffTarget(cs)
    BY <1>1, <1>2, ChangeStateEffect DEF InDesiredState
  <1>3. CASE ~OffTarget(cs)
    BY <1>1, <1>3, NoEffect DEF InDesiredState
  <1>4. QED BY <1>2, <1>3

\* Sending what an effect sends keeps the request and its record in agreement.
LEMMA AgreedAfter ==
    ASSUME NEW w \in Seq(Patch), NEW c \in Context, NEW s, NEW e,
           IsEffect(c, e), Agreed(w, c, s)
    PROVE  w \o e.out \in Seq(Patch) /\ Agreed(w \o e.out, e.ctx, s)
  <1>1. CASE e.out = << >> /\ e.ctx.requested = c.requested
    <2>1. w \o e.out = w
      BY <1>1
    <2>2. QED BY <1>1, <2>1 DEF Agreed
  <1>2. CASE \E p \in Patch : e.out = <<p>> /\ p.state = e.ctx.requested
    <2>1. PICK p \in Patch : e.out = <<p>> /\ p.state = e.ctx.requested
      BY <1>2
    <2>2. w \o <<p>> \in Seq(Patch) /\ w \o <<p>> # << >> /\ Last(w \o <<p>>) = p
      BY DEF Last
    <2>3. QED BY <2>1, <2>2 DEF Agreed
  <1>3. QED BY <1>1, <1>2 DEF IsEffect

\* When the MBSTF takes the oldest PATCH, its state is the one requested or
\* there is a later PATCH.
LEMMA AgreedTail ==
    ASSUME NEW w \in Seq(Patch), w # << >>, NEW c \in Context, NEW s, NEW t,
           Agreed(w, c, s), t.fault = "none" => t.state = Head(w).state
    PROVE  Tail(w) \in Seq(Patch) /\ Agreed(Tail(w), c, t)
  <1>1. Tail(w) \in Seq(Patch) /\ Last(w).state = c.requested
    BY DEF Agreed
  <1>2. CASE Tail(w) = << >>
    <2>1. Len(Tail(w)) = Len(w) - 1 /\ Len(w) \in Nat
      BY HeadTailProperties, LenProperties
    <2>2. Len(w) = 1
      <3> DEFINE r == Tail(w)
      <3>1. r = << >> /\ Len(r) = Len(w) - 1
        BY <1>2, <2>1
      <3> HIDE DEF r
      <3>2. Len(r) = 0
        BY <3>1
      <3>3. Len(w) \in Nat
        OBVIOUS
      <3>4. Len(w) - 1 = 0
        BY <3>1, <3>2
      <3>5. QED BY <3>3, <3>4
    <2>3. Last(w) = Head(w)
      BY <2>2 DEF Last
    <2>4. QED BY <1>1, <1>2, <2>3 DEF Agreed
  <1>3. CASE Tail(w) # << >>
    <2>1. Last(Tail(w)) = Last(w)
      BY <1>3 DEF Last
    <2>2. QED BY <1>1, <1>3, <2>1 DEF Agreed
  <1>4. QED BY <1>2, <1>3

-----------------------------------------------------------------------------
(* Init and the steps.                                                     *)

\* The inductive invariant of the types and of what was requested.
ControlInv == TypeOK /\ RequestedIsSent

\* The created session is in the first phase, and was asked for it.
LEMMA InitControl == Init => ControlInv
  <1> SUFFICES ASSUME Init PROVE ControlInv
    OBVIOUS
  <1>1. /\ Phases \in Seq(DistSessionState) /\ Len(Phases) \in Nat /\ Len(Phases) >= 1
        /\ Phases[1] \in DistSessionState
    BY ControlAssumption
  <1>2. phase \in 1..Len(Phases) /\ timer \in 0..Len(Phases) /\ periods \in BOOLEAN
    BY <1>1 DEF Init
  <1>3. ctx \in [Key -> Context] /\ \A k \in Key : ctx[k].requested = Phases[1]
    BY <1>1 DEF Init, Context
  <1>4. local \in Seq(Event) /\ wire \in [Key -> Seq(Patch)]
        /\ answers \in [Key -> Seq({"OK", "ERROR"})] /\ \A k \in Key : wire[k] = << >>
    BY DEF Init
  <1>5. notifs \in [Key -> Seq(DistSessionState \cup {"DEACTIVATING", "FAILURE"})]
    <2>1. <<Phases[1]>> \in Seq(DistSessionState \cup {"DEACTIVATING", "FAILURE"})
      BY <1>1
    <2>2. << >> \in Seq(DistSessionState \cup {"DEACTIVATING", "FAILURE"})
      OBVIOUS
    <2>3. notifs \in [Key -> {<< >>, <<Phases[1]>>}]
      BY DEF Init
    <2>4. QED BY <2>1, <2>2, <2>3
  <1>6. stf \in [Key -> [state: DistSessionState, content: Nat, fault: Fault]]
        /\ \A k \in Key : stf[k].state = Phases[1]
    BY <1>1 DEF Init, Fault
  <1>7. disturbed \in 0..MaxDisturbed /\ lapses \subseteq Lapse
    BY ControlAssumption DEF Init
  <1>8. RequestedIsSent
    BY <1>3, <1>4, <1>6 DEF RequestedIsSent, Agreed
  <1>9. QED BY <1>2, <1>3, <1>4, <1>5, <1>6, <1>7, <1>8 DEF ControlInv, TypeOK

\* startTimer waits for a phase of the schedule, and for one whenever there is
\* one to come.
LEMMA StartTimerType ==
    ASSUME NEW p \in BOOLEAN, phase \in 1..Len(Phases), StartTimer(p)
    PROVE  timer' \in 0..Len(Phases) /\ (p /\ phase < Len(Phases) => timer' # 0)
  <1>1. Len(Phases) \in Nat
    BY ControlAssumption
  <1>2. QED BY <1>1 DEF StartTimer

\* A disturbance is counted.
LEMMA DisturbType ==
    ASSUME disturbed \in 0..MaxDisturbed, Disturb
    PROVE  disturbed' \in 0..MaxDisturbed
  BY ControlAssumption DEF Disturb

\* A lapse is noted.
LEMMA LapsedType ==
    ASSUME lapses \subseteq Lapse, NEW cases \in SUBSET Lapse, Lapsed(cases)
    PROVE  lapses' \subseteq Lapse
  BY DEF Lapsed

\* So is a stimulus that comes too early.
LEMMA OverlapType == Overlap \in SUBSET Lapse
  BY DEF Overlap, Lapse

\* What all keys send, each by its effect on a context with the same request.
LEMMA ApplyStep ==
    ASSUME ControlInv, UNCHANGED stf,
           NEW cs \in [Key -> Context], \A k \in Key : cs[k].requested = ctx[k].requested,
           NEW effects, \A k \in Key : IsEffect(cs[k], effects[k]),
           Apply(effects)
    PROVE  ctx' \in [Key -> Context] /\ wire' \in [Key -> Seq(Patch)] /\ RequestedIsSent'
  <1>1. /\ ctx \in [Key -> Context] /\ wire \in [Key -> Seq(Patch)]
        /\ \A k \in Key : Agreed(wire[k], ctx[k], stf[k])
    BY DEF ControlInv, TypeOK, RequestedIsSent
  <1>2. /\ ctx' = [k \in Key |-> effects[k].ctx]
        /\ wire' = [k \in Key |-> wire[k] \o effects[k].out]
    BY DEF Apply
  <1>3. ASSUME NEW k \in Key
        PROVE  ctx'[k] \in Context /\ wire'[k] \in Seq(Patch)
               /\ Agreed(wire'[k], ctx'[k], stf'[k])
    <2>1. IsEffect(ctx[k], effects[k])
      BY <1>1, EffectOfSame
    <2>2. /\ wire[k] \o effects[k].out \in Seq(Patch)
          /\ Agreed(wire[k] \o effects[k].out, effects[k].ctx, stf[k])
      BY <1>1, <2>1, AgreedAfter
    <2>3. effects[k].ctx \in Context
      BY <2>1 DEF IsEffect
    <2>4. QED BY <1>2, <2>2, <2>3
  <1>4. RequestedIsSent'
    BY <1>3 DEF RequestedIsSent
  <1>5. QED BY <1>2, <1>3, <1>4

\* What one key sends.
LEMMA ApplyToStep ==
    ASSUME ControlInv, UNCHANGED stf, NEW k \in Key, NEW e, IsEffect(ctx[k], e), ApplyTo(k, e)
    PROVE  ctx' \in [Key -> Context] /\ wire' \in [Key -> Seq(Patch)] /\ RequestedIsSent'
  <1>1. /\ ctx \in [Key -> Context] /\ wire \in [Key -> Seq(Patch)]
        /\ \A j \in Key : Agreed(wire[j], ctx[j], stf[j])
    BY DEF ControlInv, TypeOK, RequestedIsSent
  <1>2. ctx' = [ctx EXCEPT ![k] = e.ctx] /\ wire' = [wire EXCEPT ![k] = wire[k] \o e.out]
    BY DEF ApplyTo
  <1>3. wire[k] \o e.out \in Seq(Patch) /\ Agreed(wire[k] \o e.out, e.ctx, stf[k])
    BY <1>1, AgreedAfter
  <1>4. e.ctx \in Context
    BY DEF IsEffect
  <1>5. \A j \in Key : Agreed(wire'[j], ctx'[j], stf'[j])
    BY <1>1, <1>2, <1>3
  <1>6. RequestedIsSent'
    BY <1>5 DEF RequestedIsSent
  <1>7. QED BY <1>1, <1>2, <1>3, <1>4, <1>6

\* The head of a message queue is delivered.
LEMMA TailType ==
    ASSUME NEW S, NEW q \in [Key -> Seq(S)], NEW k \in Key, q[k] # << >>
    PROVE  [q EXCEPT ![k] = Tail(@)] \in [Key -> Seq(S)]
  <1>1. Tail(q[k]) \in Seq(S)
    BY HeadTailProperties
  <1>2. QED BY <1>1

\* The timer fires.
LEMMA TimerStep == ControlInv /\ TimerExpires => ControlInv'
  <1> SUFFICES ASSUME ControlInv, TimerExpires PROVE ControlInv'
    OBVIOUS
  <1>1. TypeOK /\ ctx \in [Key -> Context] /\ phase \in 1..Len(Phases) /\ periods \in BOOLEAN
    BY DEF ControlInv, TypeOK
  <1>2. UNCHANGED <<phase, periods, local, answers, notifs, stf, disturbed, lapses>>
    BY DEF TimerExpires
  <1> DEFINE e == [k \in Key |-> ChangeState(ctx[k])]
  <1>3. \A k \in Key : IsEffect(ctx[k], e[k])
    BY <1>1, ChangeStateEffect
  <1>4. Apply(e) /\ StartTimer(periods)
    BY DEF TimerExpires
  <1> HIDE DEF e
  <1>5. ctx' \in [Key -> Context] /\ wire' \in [Key -> Seq(Patch)] /\ RequestedIsSent'
    BY <1>1, <1>2, <1>3, <1>4, ApplyStep
  <1>6. timer' \in 0..Len(Phases)
    BY <1>1, <1>4, StartTimerType
  <1>7. QED BY <1>1, <1>2, <1>5, <1>6 DEF ControlInv, TypeOK

\* A PUT changes contexts, but no request.
LEMMA PutStep ==
    ASSUME ControlInv, NEW p \in BOOLEAN, NEW new \in SUBSET Key,
           NEW s \in [Key -> DistSessionState \cup {Unset}], Put(p, new, s)
    PROVE  ControlInv'
  <1>1. /\ TypeOK /\ RequestedIsSent /\ ctx \in [Key -> Context] /\ phase \in 1..Len(Phases)
        /\ local \in Seq(Event) /\ disturbed \in 0..MaxDisturbed /\ lapses \subseteq Lapse
    BY DEF ControlInv, TypeOK
  <1>2. UNCHANGED <<phase, wire, answers, notifs, stf>> /\ periods' = p
        /\ StartTimer(p) /\ Disturb
    BY DEF Put
  <1> DEFINE differs == {k \in Key : k \in new \/ s[k] # ctx[k].info}
             want(k) == CASE p -> Phases[phase]
                          [] ~p /\ s[k] = Unset -> "ACTIVE"
                          [] OTHER -> s[k]
             updated == [k \in Key |->
                 [ctx[k] EXCEPT !.needsUpdate = k \in differs,
                                !.info = want(k),
                                !.content = IF k \in new THEN @ + 1 ELSE @]]
             patched == {k \in Key : updated[k].needsUpdate \/ updated[k].stateUpdate}
  <1>3. /\ ctx' = [k \in Key |-> IF k \in patched THEN SendActivityStatus(updated[k])
                                                  ELSE updated[k]]
        /\ local' = local \o LocalEvents("PATCH_BUILD", patched)
    BY DEF Put
  <1>4. \A k \in Key : updated[k] \in Context /\ updated[k].requested = ctx[k].requested
    <2> SUFFICES ASSUME NEW k \in Key
                 PROVE  updated[k] \in Context /\ updated[k].requested = ctx[k].requested
      OBVIOUS
    <2>1. Phases[phase] \in DistSessionState
      BY <1>1, ControlAssumption
    <2>2. want(k) \in DistSessionState
      BY <2>1 DEF DistSessionState
    <2>3. ctx[k] \in Context /\ (k \in differs) \in BOOLEAN
      BY <1>1
    <2> HIDE DEF want, differs
    <2>4. PICK b \in BOOLEAN : b = (k \in differs)
      BY <2>3
    <2>5. PICK n \in Nat : n = IF k \in new THEN ctx[k].content + 1 ELSE ctx[k].content
      BY <2>3 DEF Context
    <2>6. updated[k] = [ctx[k] EXCEPT !.needsUpdate = b, !.info = want(k), !.content = n]
      BY <2>4, <2>5
    <2> HIDE DEF updated
    <2>7. QED BY <2>2, <2>3, <2>6 DEF Context
  <1>5. patched \in SUBSET Key
    OBVIOUS
  <1> HIDE DEF differs, want, updated, patched
  <1>6. ctx' \in [Key -> Context] /\ \A k \in Key : ctx'[k].requested = ctx[k].requested
    BY <1>3, <1>4, ActivityType
  <1>7. local' \in Seq(Event)
    <2>1. LocalEvents("PATCH_BUILD", patched) \in Seq(Event)
      BY <1>5, LocalEventsType
    <2>2. QED BY <1>1, <1>3, <2>1
  <1>8. /\ timer' \in 0..Len(Phases) /\ disturbed' \in 0..MaxDisturbed
        /\ lapses' \subseteq Lapse
    <2>1. PICK cases \in SUBSET Lapse : Lapsed(cases)
      <3>1. PICK more \in {{}, {"silent"}} : Lapsed(Overlap \cup more)
        BY DEF Put
      <3>2. Overlap \cup more \in SUBSET Lapse
        BY OverlapType DEF Lapse
      <3>3. QED BY <3>1, <3>2
    <2>2. QED BY <1>1, <1>2, <2>1, StartTimerType, DisturbType, LapsedType
  <1>9. RequestedIsSent'
    BY <1>1, <1>2, <1>6 DEF RequestedIsSent, Agreed
  <1>10. QED BY <1>1, <1>2, <1>6, <1>7, <1>8, <1>9 DEF ControlInv, TypeOK

\* A local event: a PATCH is built, if it is still needed.
LEMMA LocalStep == ControlInv /\ (HandlePatchBuild \/ HandlePatchRollback) => ControlInv'
  <1> SUFFICES ASSUME ControlInv, HandlePatchBuild \/ HandlePatchRollback
               PROVE  ControlInv'
    OBVIOUS
  <1> DEFINE k == Head(local).key
             b == PatchIfNeeded(SendActivityStatus(ctx[k]))
             r == PatchIfNeeded(ctx[k])
  <1>1. /\ TypeOK /\ ctx \in [Key -> Context] /\ phase \in 1..Len(Phases)
        /\ local \in Seq(Event)
    BY DEF ControlInv, TypeOK
  <1>2. local # << >> /\ local' = Tail(local)
        /\ UNCHANGED <<phase, periods, timer, answers, notifs, stf, disturbed>>
        /\ (ApplyTo(k, b) \/ ApplyTo(k, r))
    BY DEF HandlePatchBuild, HandlePatchRollback
  <1>3. Head(local) \in Event /\ local' \in Seq(Event)
    BY <1>1, <1>2, HeadTailProperties
  <1>4. k \in Key
    BY <1>3 DEF Event
  <1>5. IsEffect(ctx[k], b)
    <2>1. ctx[k] \in Context
      BY <1>1, <1>4
    <2>2. /\ SendActivityStatus(ctx[k]) \in Context
          /\ SendActivityStatus(ctx[k]).requested = ctx[k].requested
      BY <2>1, ActivityType
    <2>3. IsEffect(SendActivityStatus(ctx[k]), b)
      BY <1>1, <2>2, PatchIfNeededEffect
    <2> HIDE DEF b
    <2>4. QED BY <2>1, <2>2, <2>3, EffectOfSame
  <1>6. IsEffect(ctx[k], r)
    BY <1>1, <1>4, PatchIfNeededEffect
  <1> HIDE DEF b, r, k
  <1>7. ctx' \in [Key -> Context] /\ wire' \in [Key -> Seq(Patch)] /\ RequestedIsSent'
    BY <1>2, <1>4, <1>5, <1>6, ApplyToStep
  <1>8. lapses' \subseteq Lapse
    <2>1. lapses \subseteq Lapse
      BY <1>1 DEF TypeOK
    <2>2. lapses' = lapses \/ Lapsed({}) \/ Lapsed({"revived"})
      BY DEF HandlePatchBuild, HandlePatchRollback
    <2>3. QED BY <2>1, <2>2 DEF Lapsed, Lapse
  <1>9. QED BY <1>1, <1>2, <1>3, <1>7, <1>8 DEF ControlInv, TypeOK

\* A PATCH was done.
LEMMA OkStep ==
    ASSUME ControlInv, NEW k \in Key, HandlePatchOk(k)
    PROVE  ControlInv'
  <1> DEFINE cs == [ctx EXCEPT ![k] = [@ EXCEPT !.receivedMBSTFPatchResponse = TRUE,
                                                !.needsUpdate = FALSE,
                                                !.stateUpdate = FALSE]]
  <1>1. /\ TypeOK /\ ctx \in [Key -> Context] /\ phase \in 1..Len(Phases)
        /\ periods \in BOOLEAN /\ answers \in [Key -> Seq({"OK", "ERROR"})]
    BY DEF ControlInv, TypeOK
  <1>2. cs \in [Key -> Context] /\ \A j \in Key : cs[j].requested = ctx[j].requested
    BY <1>1 DEF Context
  <1>3. Apply(InDesiredState(cs)) /\ StartTimer(periods)
        /\ answers[k] # << >> /\ answers' = [answers EXCEPT ![k] = Tail(@)]
        /\ UNCHANGED <<phase, periods, local, notifs, stf, disturbed, lapses>>
    BY DEF HandlePatchOk
  <1> HIDE DEF cs
  <1>4. \A j \in Key : IsEffect(cs[j], InDesiredState(cs)[j])
    BY <1>1, <1>2, InDesiredStateEffect
  <1>5. ctx' \in [Key -> Context] /\ wire' \in [Key -> Seq(Patch)] /\ RequestedIsSent'
    BY <1>2, <1>3, <1>4, ApplyStep
  <1>6. timer' \in 0..Len(Phases)
    BY <1>1, <1>3, StartTimerType
  <1>7. answers' \in [Key -> Seq({"OK", "ERROR"})]
    BY <1>1, <1>3, TailType
  <1>8. QED BY <1>1, <1>3, <1>5, <1>6, <1>7 DEF ControlInv, TypeOK

\* A PATCH was refused.
LEMMA ErrorStep ==
    ASSUME ControlInv, NEW k \in Key, HandlePatchError(k)
    PROVE  ControlInv'
  <1> DEFINE cs == [ctx EXCEPT ![k] = [@ EXCEPT !.receivedMBSTFPatchResponse = TRUE,
                                                !.needsUpdate = FALSE]]
             all == \A j \in Key : cs[j].receivedMBSTFPatchResponse
             retry == InDesiredState(cs)[k].ctx.stateUpdate /\ all
  <1>1. /\ TypeOK /\ ctx \in [Key -> Context] /\ phase \in 1..Len(Phases)
        /\ periods \in BOOLEAN /\ answers \in [Key -> Seq({"OK", "ERROR"})]
        /\ local \in Seq(Event)
    BY DEF ControlInv, TypeOK
  <1>2. cs \in [Key -> Context] /\ \A j \in Key : cs[j].requested = ctx[j].requested
    BY <1>1 DEF Context
  <1>3. Apply(InDesiredState(cs)) /\ (StartTimer(periods) \/ UNCHANGED timer)
        /\ answers[k] # << >> /\ answers' = [answers EXCEPT ![k] = Tail(@)]
        /\ local' = local \o (IF retry THEN LocalEvents("PATCH_ROLLBACK", Key) ELSE << >>)
        /\ UNCHANGED <<phase, periods, notifs, stf, disturbed>>
    BY DEF HandlePatchError
  <1> HIDE DEF cs, all, retry
  <1>4. \A j \in Key : IsEffect(cs[j], InDesiredState(cs)[j])
    BY <1>1, <1>2, InDesiredStateEffect
  <1>5. ctx' \in [Key -> Context] /\ wire' \in [Key -> Seq(Patch)] /\ RequestedIsSent'
    BY <1>2, <1>3, <1>4, ApplyStep
  <1>6. timer' \in 0..Len(Phases)
    BY <1>1, <1>3, StartTimerType DEF TypeOK
  <1>7. answers' \in [Key -> Seq({"OK", "ERROR"})]
    BY <1>1, <1>3, TailType
  <1>8. local' \in Seq(Event)
    <2>1. LocalEvents("PATCH_ROLLBACK", Key) \in Seq(Event)
      BY LocalEventsType
    <2>2. QED BY <1>1, <1>3, <2>1
  <1>9. lapses' \subseteq Lapse
    <2>1. PICK a \in {{}, {"update"}}, b \in {{}, {"early"}} : Lapsed(a \cup b)
      BY DEF HandlePatchError
    <2>2. a \cup b \in SUBSET Lapse /\ lapses \subseteq Lapse
      BY <1>1 DEF Lapse, TypeOK
    <2>3. QED BY <2>1, <2>2, LapsedType
  <1>10. QED BY <1>1, <1>3, <1>5, <1>6, <1>7, <1>8, <1>9 DEF ControlInv, TypeOK

\* A notification: a report of a state or a failure.
LEMMA NotifyStep ==
    ASSUME ControlInv, NEW k \in Key, HandleNotify(k) \/ HandleFailure(k)
    PROVE  ControlInv'
  <1> DEFINE State == DistSessionState \cup {"DEACTIVATING", "FAILURE"}
  <1>1. /\ TypeOK /\ RequestedIsSent /\ ctx \in [Key -> Context] /\ local \in Seq(Event)
        /\ notifs \in [Key -> Seq(State)]
    BY DEF ControlInv, TypeOK
  <1>2. /\ notifs[k] # << >> /\ notifs' = [notifs EXCEPT ![k] = Tail(@)]
        /\ UNCHANGED <<phase, periods, timer, wire, answers, stf, disturbed, lapses>>
    BY DEF HandleNotify, HandleFailure
  <1>3. notifs' \in [Key -> Seq(State)] /\ Head(notifs[k]) \in State
    BY <1>1, <1>2, TailType, HeadTailProperties
  <1>4. /\ ctx' \in [Key -> Context] /\ local' \in Seq(Event)
        /\ \A j \in Key : ctx'[j].requested = ctx[j].requested
    <2>1. CASE HandleFailure(k)
      BY <1>1, <2>1 DEF HandleFailure, Context, DistSessionState
    <2>2. CASE HandleNotify(k)
      <3> DEFINE report == Head(notifs[k])
                 more == Continues(ctx[k], report)
      <3>1. report \in DistSessionState \cup {"DEACTIVATING", Unset}
        BY <1>3, <2>2 DEF HandleNotify
      <3>2. /\ ctx' = [ctx EXCEPT ![k].reported = report, ![k].stateUpdate = @ \/ more]
            /\ local' = local \o LocalEvents("PATCH_BUILD", IF more THEN {k} ELSE {})
        BY <2>2 DEF HandleNotify
      <3>3. PICK b \in BOOLEAN : b = (ctx[k].stateUpdate \/ more)
        OBVIOUS
      <3>4. ctx' = [ctx EXCEPT ![k] = [ctx[k] EXCEPT !.reported = report, !.stateUpdate = b]]
        BY <1>1, <3>2, <3>3 DEF Context
      <3>5. LocalEvents("PATCH_BUILD", IF more THEN {k} ELSE {}) \in Seq(Event)
        BY LocalEventsType
      <3> HIDE DEF report, more
      <3>6. ctx' \in [Key -> Context] /\ \A j \in Key : ctx'[j].requested = ctx[j].requested
        BY <1>1, <3>1, <3>4 DEF Context
      <3>7. local' \in Seq(Event)
        <4>1. PICK new \in Seq(Event) : local' = local \o new
          BY <3>2, <3>5
        <4>2. QED BY <1>1, <4>1
      <3>8. QED BY <3>6, <3>7
    <2>3. QED BY <2>1, <2>2
  <1>5. RequestedIsSent'
    BY <1>1, <1>2, <1>4 DEF RequestedIsSent, Agreed
  <1>6. QED BY <1>1, <1>2, <1>3, <1>4, <1>5 DEF ControlInv, TypeOK

\* The MBSTF does or refuses a PATCH.
LEMMA StfStep ==
    ASSUME ControlInv, NEW k \in Key, StfPatches(k) \/ StfRefuses(k)
    PROVE  ControlInv'
  <1> DEFINE State == DistSessionState \cup {"DEACTIVATING", "FAILURE"}
             Session == [state: DistSessionState, content: Nat, fault: Fault]
             p == Head(wire[k])
  <1>1. /\ TypeOK /\ RequestedIsSent /\ ctx \in [Key -> Context] /\ wire \in [Key -> Seq(Patch)]
        /\ notifs \in [Key -> Seq(State)] /\ stf \in [Key -> Session]
        /\ answers \in [Key -> Seq({"OK", "ERROR"})] /\ disturbed \in 0..MaxDisturbed
    BY DEF ControlInv, TypeOK
  <1>2. /\ wire[k] # << >> /\ wire' = [wire EXCEPT ![k] = Tail(@)]
        /\ UNCHANGED <<phase, periods, timer, ctx, local, lapses>>
    BY DEF StfPatches, StfRefuses
  <1>3. p \in Patch
    BY <1>1, <1>2, HeadTailProperties
  <1> HIDE DEF p
  <1>4. wire' \in [Key -> Seq(Patch)]
    BY <1>1, <1>2, TailType
  <1>5. answers' \in [Key -> Seq({"OK", "ERROR"})]
    <2>1. PICK a \in {"OK", "ERROR"} : answers' = [answers EXCEPT ![k] = Append(@, a)]
      BY DEF StfPatches, StfRefuses
    <2>2. Append(answers[k], a) \in Seq({"OK", "ERROR"})
      BY <1>1
    <2>3. QED BY <1>1, <2>1, <2>2
  <1>6. disturbed' \in 0..MaxDisturbed
    BY <1>1, DisturbType DEF StfPatches, StfRefuses
  <1>7. notifs' \in [Key -> Seq(State)]
    <2>1. CASE StfPatches(k)
      <3>1. PICK r \in Reports(stf[k].state, p.state) :
                notifs' = [notifs EXCEPT ![k] = @ \o r]
        BY <2>1 DEF StfPatches, p
      <3>2. p.state \in DistSessionState
        BY <1>3 DEF Patch
      <3>3. r \in Seq(State)
        <4>1. \/ r = << >> \/ r = <<"INACTIVE">> \/ r = <<"DEACTIVATING", "INACTIVE">>
              \/ r = <<"ACTIVE">> \/ r = <<"ESTABLISHED", "ACTIVE">> \/ r = <<p.state>>
          BY <3>1 DEF Reports
        <4>2. /\ p.state \in State /\ "ACTIVE" \in State /\ "INACTIVE" \in State
              /\ "ESTABLISHED" \in State /\ "DEACTIVATING" \in State
          BY <3>2 DEF DistSessionState
        <4> HIDE DEF State
        <4>3. /\ << >> \in Seq(State) /\ <<"INACTIVE">> \in Seq(State)
              /\ <<"ACTIVE">> \in Seq(State) /\ <<p.state>> \in Seq(State)
          BY <4>2
        <4>4. /\ <<"DEACTIVATING", "INACTIVE">> \in Seq(State)
              /\ <<"ESTABLISHED", "ACTIVE">> \in Seq(State)
          BY <4>2
        <4>5. QED BY <4>1, <4>3, <4>4
      <3>4. notifs[k] \o r \in Seq(State)
        BY <1>1, <3>3
      <3>5. QED BY <1>1, <3>1, <3>4
    <2>2. CASE StfRefuses(k)
      BY <1>1, <2>2 DEF StfRefuses
    <2>3. QED BY <2>1, <2>2
  <1>8. /\ stf' \in [Key -> Session] /\ \A j \in Key \ {k} : stf'[j] = stf[j]
        /\ stf'[k].fault = "none" => stf'[k].state = p.state
    <2>1. CASE StfPatches(k)
      <3>1. stf' = [stf EXCEPT ![k] = [state |-> p.state, fault |-> "none",
                        content |-> IF p.content = NoContent THEN @.content ELSE p.content]]
        BY <2>1 DEF StfPatches, p
      <3>2. QED BY <1>1, <1>3, <3>1 DEF Patch, Fault
    <2>2. CASE StfRefuses(k)
      <3>1. PICK f \in Fault : f # "none" /\ stf' = [stf EXCEPT ![k].fault = f]
        BY <2>2 DEF StfRefuses, Fault
      <3>2. QED BY <1>1, <3>1
    <2>3. QED BY <2>1, <2>2
  <1>9. RequestedIsSent'
    <2> SUFFICES ASSUME NEW j \in Key PROVE Agreed(wire'[j], ctx'[j], stf'[j])
      BY DEF RequestedIsSent
    <2>1. Agreed(wire[j], ctx[j], stf[j])
      BY <1>1 DEF RequestedIsSent
    <2>2. CASE j = k
      <3>1. Agreed(Tail(wire[k]), ctx[k], stf'[k])
        BY <1>1, <1>2, <1>8, <2>1, <2>2, AgreedTail DEF p
      <3>2. QED BY <1>1, <1>2, <2>2, <3>1
    <2>3. CASE j # k
      BY <1>1, <1>2, <1>8, <2>1, <2>3
    <2>4. QED BY <2>2, <2>3
  <1>10. QED BY <1>1, <1>2, <1>4, <1>5, <1>6, <1>7, <1>8, <1>9 DEF ControlInv, TypeOK

\* An answer is lost.
LEMMA LostStep ==
    ASSUME ControlInv, NEW k \in Key, AnswerLost(k)
    PROVE  ControlInv'
  <1>1. /\ TypeOK /\ RequestedIsSent /\ disturbed \in 0..MaxDisturbed
        /\ answers \in [Key -> Seq({"OK", "ERROR"})]
    BY DEF ControlInv, TypeOK
  <1>2. /\ answers[k] # << >> /\ answers' = [answers EXCEPT ![k] = Tail(@)] /\ Disturb
        /\ UNCHANGED <<phase, periods, timer, ctx, local, wire, notifs, stf>>
    BY DEF AnswerLost
  <1>3. answers' \in [Key -> Seq({"OK", "ERROR"})] /\ disturbed' \in 0..MaxDisturbed
    BY <1>1, <1>2, TailType, DisturbType
  <1>4. RequestedIsSent'
    BY <1>1, <1>2 DEF RequestedIsSent
  <1>5. lapses' \subseteq Lapse
    <2>1. PICK a \in {{}, {"lost"}} : Lapsed(a)
      BY DEF AnswerLost
    <2>2. a \in SUBSET Lapse /\ lapses \subseteq Lapse
      BY <1>1 DEF Lapse, TypeOK
    <2>3. QED BY <2>1, <2>2, LapsedType
  <1>6. QED BY <1>1, <1>2, <1>3, <1>4, <1>5 DEF ControlInv, TypeOK

\* The MBSTF's session fails.
LEMMA FailStep ==
    ASSUME ControlInv, NEW k \in Key, StfFails(k)
    PROVE  ControlInv'
  <1> DEFINE State == DistSessionState \cup {"DEACTIVATING", "FAILURE"}
             Session == [state: DistSessionState, content: Nat, fault: Fault]
  <1>1. /\ TypeOK /\ RequestedIsSent /\ disturbed \in 0..MaxDisturbed
        /\ stf \in [Key -> Session] /\ notifs \in [Key -> Seq(State)] /\ lapses \subseteq Lapse
    BY DEF ControlInv, TypeOK
  <1>2. /\ stf' = [stf EXCEPT ![k].state = "INACTIVE", ![k].fault = "failed"]
        /\ notifs' = [notifs EXCEPT ![k] = @ \o <<"FAILURE", "INACTIVE">>] /\ Disturb
        /\ Lapsed(Overlap) /\ UNCHANGED <<phase, periods, timer, ctx, local, wire, answers>>
    BY DEF StfFails
  <1>3. notifs' \in [Key -> Seq(State)]
    <2>1. <<"FAILURE", "INACTIVE">> \in Seq(State)
      BY DEF DistSessionState
    <2>2. notifs[k] \o <<"FAILURE", "INACTIVE">> \in Seq(State)
      BY <1>1, <2>1
    <2>3. QED BY <1>1, <1>2, <2>2
  <1>4. /\ stf' \in [Key -> Session] /\ stf'[k].fault = "failed"
        /\ \A j \in Key \ {k} : stf'[j] = stf[j]
    BY <1>1, <1>2 DEF Fault, DistSessionState
  <1>5. disturbed' \in 0..MaxDisturbed /\ lapses' \subseteq Lapse
    BY <1>1, <1>2, DisturbType, OverlapType, LapsedType
  <1>6. RequestedIsSent'
    BY <1>1, <1>2, <1>4 DEF RequestedIsSent, Agreed
  <1>7. QED BY <1>1, <1>2, <1>3, <1>4, <1>5, <1>6 DEF ControlInv, TypeOK

-----------------------------------------------------------------------------
(* The theorems.                                                           *)

\* Every step keeps the invariant.
LEMMA NextControl == ControlInv /\ [Next]_vars => ControlInv'
  <1> SUFFICES ASSUME ControlInv, [Next]_vars PROVE ControlInv'
    OBVIOUS
  <1>1. CASE PhaseBegins
    <2>1. /\ phase < Len(Phases) /\ phase' = phase + 1 /\ Lapsed(Overlap)
          /\ UNCHANGED <<periods, timer, ctx, local, wire, answers, notifs, stf, disturbed>>
      BY <1>1 DEF PhaseBegins
    <2>2. phase' \in 1..Len(Phases) /\ lapses' \subseteq Lapse
      <3>1. phase' \in 1..Len(Phases)
        BY <2>1, ControlAssumption DEF ControlInv, TypeOK
      <3>2. lapses \subseteq Lapse
        BY DEF ControlInv, TypeOK
      <3>3. QED BY <2>1, <3>1, <3>2, OverlapType, LapsedType
    <2>3. QED BY <2>1, <2>2 DEF ControlInv, TypeOK, RequestedIsSent
  <1>2. CASE TimerExpires
    BY <1>2, TimerStep
  <1>3. ASSUME NEW p \in BOOLEAN, NEW new \in SUBSET Key,
               NEW s \in [Key -> DistSessionState \cup {Unset}], Put(p, new, s)
        PROVE  ControlInv'
    BY <1>3, PutStep
  <1>4. CASE HandlePatchBuild \/ HandlePatchRollback
    BY <1>4, LocalStep
  <1>5. ASSUME NEW k \in Key, HandlePatchOk(k) \/ HandlePatchError(k)
        PROVE  ControlInv'
    BY <1>5, OkStep, ErrorStep
  <1>6. ASSUME NEW k \in Key, HandleNotify(k) \/ HandleFailure(k)
        PROVE  ControlInv'
    BY <1>6, NotifyStep
  <1>7. ASSUME NEW k \in Key, StfPatches(k) \/ StfRefuses(k) \/ AnswerLost(k) \/ StfFails(k)
        PROVE  ControlInv'
    BY <1>7, StfStep, LostStep, FailStep
  <1>8. CASE UNCHANGED vars
    BY <1>8 DEF vars, ControlInv, TypeOK, RequestedIsSent
  <1>9. QED BY <1>1, <1>2, <1>3, <1>4, <1>5, <1>6, <1>7, <1>8 DEF Next

\* The variables of the control loop keep their types.
THEOREM ControlTypes == Spec => []TypeOK
  <1>1. ControlInv => TypeOK
    BY DEF ControlInv
  <1>2. QED BY <1>1, InitControl, NextControl, PTL DEF Spec

\* last_requested_state is what the MBSTF was last asked for.
THEOREM RequestRemembered == Spec => []RequestedIsSent
  <1>1. ControlInv => RequestedIsSent
    BY DEF ControlInv
  <1>2. QED BY <1>1, InitControl, NextControl, PTL DEF Spec

\* No handler, error path or PUT stops the schedule while phases are to come.
THEOREM ScheduleNeverStops == Spec => []ScheduleRuns
  <1>1. Init => ScheduleRuns
    BY DEF Init, ScheduleRuns
  <1>2. TypeOK /\ ScheduleRuns /\ [Next]_vars => ScheduleRuns'
    <2> SUFFICES ASSUME TypeOK, ScheduleRuns, [Next]_vars PROVE ScheduleRuns'
      OBVIOUS
    <2>1. phase \in 1..Len(Phases) /\ Len(Phases) \in Nat /\ periods \in BOOLEAN
      BY ControlAssumption DEF TypeOK
    <2>2. CASE PhaseBegins
      BY <2>1, <2>2 DEF PhaseBegins, ScheduleRuns
    <2>3. ASSUME NEW p \in BOOLEAN, StartTimer(p), periods' = p, phase' = phase
          PROVE  ScheduleRuns'
      BY <2>1, <2>3, StartTimerType DEF ScheduleRuns
    <2>4. CASE UNCHANGED <<phase, periods, timer>>
      BY <2>4 DEF ScheduleRuns
    <2>5. CASE TimerExpires
      BY <2>1, <2>3, <2>5 DEF TimerExpires
    <2>6. ASSUME NEW p \in BOOLEAN, NEW new \in SUBSET Key,
                 NEW s \in [Key -> DistSessionState \cup {Unset}], Put(p, new, s)
          PROVE  ScheduleRuns'
      BY <2>3, <2>6 DEF Put
    <2>7. ASSUME NEW k \in Key, HandlePatchOk(k) \/ HandlePatchError(k)
          PROVE  ScheduleRuns'
      BY <2>1, <2>3, <2>4, <2>7 DEF HandlePatchOk, HandlePatchError
    <2>8. CASE HandlePatchBuild \/ HandlePatchRollback
      BY <2>4, <2>8 DEF HandlePatchBuild, HandlePatchRollback
    <2>9. ASSUME NEW k \in Key, HandleNotify(k) \/ HandleFailure(k)
          PROVE  ScheduleRuns'
      BY <2>4, <2>9 DEF HandleNotify, HandleFailure
    <2>10. ASSUME NEW k \in Key,
                  StfPatches(k) \/ StfRefuses(k) \/ AnswerLost(k) \/ StfFails(k)
           PROVE  ScheduleRuns'
      BY <2>4, <2>10 DEF StfPatches, StfRefuses, AnswerLost, StfFails
    <2>11. CASE UNCHANGED vars
      BY <2>4, <2>11 DEF vars
    <2>12. QED BY <2>2, <2>5, <2>6, <2>7, <2>8, <2>9, <2>10, <2>11 DEF Next
  <1>3. QED BY <1>1, <1>2, ControlTypes, PTL DEF Spec

-----------------------------------------------------------------------------
(* One stimulus at a time: a phase, a PUT or a failure comes only when all *)
(* is quiet, and no other lapse happens.  The invariant is about one       *)
(* distribution session, given by values: m is the state that is meant, c  *)
(* its context, s the MBSTF's session, w, a and n its PATCHes, answers and *)
(* notifications, and b and r tell whether a PATCH_BUILD or PATCH_ROLLBACK *)
(* event for it is queued.                                                 *)

Session == [state: DistSessionState, content: Nat, fault: Fault]
Report == DistSessionState \cup {"DEACTIVATING", "FAILURE"}

Refused(a) == \E i \in DOMAIN a : a[i] = "ERROR"
Accepted(a) == \E i \in DOMAIN a : a[i] = "OK"

\* The MBSTF has what is meant.
Right(m, c, s) == s.state = m /\ s.content = c.content

\* The session has failed and nothing was asked for since.
Down(s, w) == s.fault = "failed" /\ w = << >>

\* Something will make the MBSTF right, and the flags are up that it takes.
Working(c, w, a, b, r) ==
    /\ w # << >> \/ Refused(a) \/ b \/ r
    /\ c.needsUpdate \/ c.stateUpdate

\* A new content that has not been asked for yet.
ToBuild(c, w, a, b) == b /\ c.needsUpdate /\ w = << >> /\ a = << >>

\* The PATCHes under way ask for what is meant, for a new content if it is not
\* at the MBSTF yet.
WireMeant(m, c, s, w) ==
    \A i \in DOMAIN w : /\ w[i].state = m
                        /\ w[i].content \in {NoContent, c.content}
                        /\ s.content # c.content => w[i].content = c.content

\* The state reported last is that of the MBSTF, unless none was.
ReportsOf(c, s, n) ==
    IF n = << >> THEN c.reported \in {Unset, s.state} ELSE Last(n) = s.state

\* The MBSTF reports how it became what is meant, or that it failed.
NotifsMeant(m, s, n) ==
    IF s.fault = "failed"
    THEN s.state = "INACTIVE" /\ n \in {<< >>, <<"INACTIVE">>, <<"FAILURE", "INACTIVE">>}
    ELSE \A i \in DOMAIN n : /\ s.state = m /\ n[i] # "FAILURE"
                             /\ n[i] \in {"INACTIVE", "ACTIVE"} => n[i] = m

\* The way from ACTIVE to ESTABLISHED is asked for by a full update only.
NoDetour(m, c, s) ==
    m = "ESTABLISHED" /\ "ACTIVE" \in {s.state, c.reported} =>
        s.state = "ACTIVE" /\ c.needsUpdate

Sound(m, c, s, w, a, n) ==
    /\ s.content # c.content => c.needsUpdate
    /\ Accepted(a) => Right(m, c, s) /\ s.fault # "failed"
    /\ c.content # NoContent
    /\ WireMeant(m, c, s, w) /\ ReportsOf(c, s, n) /\ NotifsMeant(m, s, n)
    /\ NoDetour(m, c, s)

ActivityOK(c) == c.activity \in {Unset, SendActivityStatus(c).activity}

\* What is not right is being worked on, and the context says what is meant
\* unless the session is down.
Cared(m, c, s, w, a, n, b, r) ==
    /\ s.content # c.content => Working(c, w, a, b, r)
    /\ s.state # m => Down(s, w) \/ Working(c, w, a, b, r)
    /\ \/ c.info = m
       \/ Down(s, w) /\ c.info = "INACTIVE"
    /\ Down(s, w) => \/ c.info = "INACTIVE" \/ n = <<"FAILURE", "INACTIVE">>
                     \/ ToBuild(c, w, a, b)
    /\ \/ c.requested = m
       \/ Down(s, w) /\ m = "INACTIVE"
       \/ ToBuild(c, w, a, b)
    /\ Down(s, w) \/ ActivityOK(c)

KeyOK(m, c, s, w, a, n, b, r) ==
    Sound(m, c, s, w, a, n) /\ Cared(m, c, s, w, a, n, b, r)

\* The phase the contexts are about: one that has begun counts once the timer
\* has expired.
Looked == IF TimerDue THEN phase - 1 ELSE phase
Meant(c) == IF periods THEN Phases[Looked] ELSE c.info

Queued(event, k) == \E i \in DOMAIN local : local[i] = [event |-> event, key |-> k]

\* Nothing but a phase and notifications is under way.
Still == local = << >> /\ \A k \in Key : wire[k] = << >> /\ answers[k] = << >>

KeyInv(k) ==
    /\ KeyOK(Meant(ctx[k]), ctx[k], stf[k], wire[k], answers[k], notifs[k],
             Queued("PATCH_BUILD", k), Queued("PATCH_ROLLBACK", k))
    /\ stf[k].fault = "failed" /\ notifs[k] # << >> => Still

OnTarget == \A k \in Key : ctx[k].info = Meant(ctx[k])

CalmInv ==
    /\ timer # 1 /\ timer <= phase + 1 /\ (timer # 0 => periods)
    /\ TimerDue => Still /\ timer = phase /\ \A k \in Key : notifs[k] = << >>
    /\ (\E k \in Key : Queued("PATCH_BUILD", k)) => OnTarget
    /\ \A k \in Key : KeyInv(k)

Calm == lapses = {} => CalmInv

\* Sequences: what an element of a queue that grew or lost its head was before.
LEMMA AppendParts ==
    ASSUME NEW S, NEW q \in Seq(S), NEW x \in S
    PROVE  /\ Append(q, x) \in Seq(S) /\ Append(q, x) # << >> /\ q \o <<x>> = Append(q, x)
           /\ Last(Append(q, x)) = x
           /\ \A i \in DOMAIN Append(q, x) :
                 Append(q, x)[i] = x \/ (i \in DOMAIN q /\ Append(q, x)[i] = q[i])
           /\ \A i \in DOMAIN q : i \in DOMAIN Append(q, x) /\ Append(q, x)[i] = q[i]
           /\ \E i \in DOMAIN Append(q, x) : Append(q, x)[i] = x
  <1>1. /\ Append(q, x) \in Seq(S) /\ Len(Append(q, x)) = Len(q) + 1 /\ Len(q) \in Nat
        /\ Append(q, x)[Len(q) + 1] = x
        /\ \A i \in 1..Len(q) : Append(q, x)[i] = q[i]
        /\ DOMAIN q = 1..Len(q) /\ DOMAIN Append(q, x) = 1..(Len(q) + 1)
    OBVIOUS
  <1>2. q \o <<x>> = Append(q, x) /\ Append(q, x) # << >>
    OBVIOUS
  <1>3. Last(Append(q, x)) = x
    BY <1>1 DEF Last
  <1> DEFINE t == Append(q, x)
  <1> HIDE DEF t
  <1>4. /\ \A i \in DOMAIN t : t[i] = x \/ (i \in DOMAIN q /\ t[i] = q[i])
        /\ \A i \in DOMAIN q : i \in DOMAIN t /\ t[i] = q[i]
        /\ \E i \in DOMAIN t : t[i] = x
    <2>1. /\ DOMAIN t = 1..(Len(q) + 1) /\ t[Len(q) + 1] = x /\ Len(q) \in Nat
          /\ \A i \in 1..Len(q) : t[i] = q[i] /\ DOMAIN q = 1..Len(q)
      BY <1>1 DEF t
    <2>2. QED BY <2>1
  <1>5. QED BY <1>1, <1>2, <1>3, <1>4 DEF t

LEMMA TailParts ==
    ASSUME NEW S, NEW q \in Seq(S), q # << >>
    PROVE  /\ Tail(q) \in Seq(S) /\ Head(q) \in S
           /\ \E i \in DOMAIN q : q[i] = Head(q)
           /\ \A i \in DOMAIN Tail(q) : \E j \in DOMAIN q : Tail(q)[i] = q[j]
           /\ \A j \in DOMAIN q : q[j] = Head(q) \/ \E i \in DOMAIN Tail(q) : Tail(q)[i] = q[j]
           /\ Tail(q) # << >> => Last(Tail(q)) = Last(q)
           /\ Tail(q) = << >> => Last(q) = Head(q)
  <1>1. /\ Len(q) \in Nat \ {0} /\ Tail(q) \in Seq(S) /\ Len(Tail(q)) = Len(q) - 1
        /\ DOMAIN q = 1..Len(q) /\ DOMAIN Tail(q) = 1..(Len(q) - 1)
        /\ \A i \in 1..(Len(q) - 1) : Tail(q)[i] = q[i + 1]
        /\ Head(q) = q[1] /\ Head(q) \in S
    OBVIOUS
  <1> DEFINE t == Tail(q)
  <1>2. \E i \in DOMAIN q : q[i] = Head(q)
    BY <1>1
  <1>3. \A i \in DOMAIN t : \E j \in DOMAIN q : t[i] = q[j]
    <2> SUFFICES ASSUME NEW i \in DOMAIN t PROVE \E j \in DOMAIN q : t[i] = q[j]
      OBVIOUS
    <2> HIDE DEF t
    <2>1. i + 1 \in DOMAIN q /\ t[i] = q[i + 1]
      BY <1>1 DEF t
    <2>2. QED BY <2>1
  <1>4. \A j \in DOMAIN q : q[j] = Head(q) \/ \E i \in DOMAIN t : t[i] = q[j]
    <2> SUFFICES ASSUME NEW j \in DOMAIN q, j # 1 PROVE \E i \in DOMAIN t : t[i] = q[j]
      BY <1>1
    <2> HIDE DEF t
    <2>1. j \in 1..Len(q) /\ j - 1 \in DOMAIN t /\ t[j - 1] = q[(j - 1) + 1] /\ (j - 1) + 1 = j
      BY <1>1 DEF t
    <2>2. QED BY <2>1
  <1>5. t # << >> => Last(t) = Last(q)
    <2> SUFFICES ASSUME t # << >> PROVE Last(t) = Last(q)
      OBVIOUS
    <2> HIDE DEF t
    <2>1. Len(q) - 1 \in 1..(Len(q) - 1) /\ Len(t) = Len(q) - 1
      <3>1. t \in Seq(S) /\ Len(t) # 0
        BY <1>1 DEF t
      <3>2. Len(t) = Len(q) - 1 /\ Len(q) \in Nat \ {0}
        BY <1>1 DEF t
      <3>3. QED BY <3>1, <3>2
    <2>2. t[Len(q) - 1] = q[(Len(q) - 1) + 1] /\ (Len(q) - 1) + 1 = Len(q)
      BY <1>1, <2>1 DEF t
    <2>3. QED BY <2>1, <2>2 DEF Last
  <1>6. t = << >> => Last(q) = Head(q)
    <2> SUFFICES ASSUME t = << >> PROVE Last(q) = Head(q)
      OBVIOUS
    <2> HIDE DEF t
    <2>1. Len(t) = 0 /\ Len(t) = Len(q) - 1 /\ Len(q) \in Nat
      BY <1>1 DEF t
    <2>2. Len(q) = 1
      BY <2>1
    <2>3. QED BY <1>1, <2>2 DEF Last
  <1>7. QED BY <1>1, <1>2, <1>3, <1>4, <1>5, <1>6

\* A PATCH that asks for what is meant is work, and all else stays sound.
LEMMA SentOK ==
    ASSUME NEW m, NEW c, NEW d, NEW s, NEW w \in Seq(Patch), NEW p \in Patch, NEW a, NEW n,
           NEW b, NEW r,
           Sound(m, c, s, w, a, n),
           d.content = c.content, d.needsUpdate = c.needsUpdate, d.reported = c.reported,
           d.needsUpdate \/ d.stateUpdate, d.info = m, d.requested = m, ActivityOK(d),
           p.state = m, p.content = IF d.needsUpdate THEN d.content ELSE NoContent
    PROVE  KeyOK(m, d, s, Append(w, p), a, n, b, r)
  <1> DEFINE t == Append(w, p)
  <1>1. t # << >> /\ \A i \in DOMAIN t : t[i] = p \/ (i \in DOMAIN w /\ t[i] = w[i])
    BY AppendParts
  <1> HIDE DEF t
  <1>2. Working(d, t, a, b, r) /\ ~Down(s, t)
    BY <1>1 DEF Working, Down
  <1>3. Cared(m, d, s, t, a, n, b, r)
    BY <1>2 DEF Cared
  <1>4. WireMeant(m, d, s, t)
    BY <1>1 DEF WireMeant, Sound
  <1>5. Sound(m, d, s, t, a, n)
    BY <1>4 DEF Sound, Right, ReportsOf, NoDetour
  <1>6. QED BY <1>3, <1>5 DEF KeyOK, t

\* SendPatch asks for what is wanted, unless it would take the detour.
LEMMA SendPatchIs ==
    ASSUME NEW c \in Context, phase \in 1..Len(Phases),
           c.needsUpdate \/ Want(c) # "ESTABLISHED" \/ c.reported # "ACTIVE"
    PROVE  LET p == [state |-> Want(c),
                     content |-> IF c.needsUpdate THEN c.content ELSE NoContent]
           IN  /\ SendPatch(c).ctx = [c EXCEPT !.requested = Want(c)]
               /\ SendPatch(c).out = <<p>> /\ p \in Patch
  <1>1. PatchState(c) = Want(c)
    BY DEF PatchState
  <1>2. Want(c) \in DistSessionState
    BY WantType
  <1>3. QED BY <1>1, <1>2 DEF SendPatch, Effect, Patch, Context, NoContent

\* The context that ChangeState sends.
Changed(c) == SendActivityStatus([c EXCEPT !.stateUpdate = TRUE, !.info = Want(c)])

LEMMA ChangedIs ==
    ASSUME NEW c \in Context, phase \in 1..Len(Phases)
    PROVE  LET d == Changed(c)
           IN  /\ d \in Context /\ d.content = c.content /\ d.needsUpdate = c.needsUpdate
               /\ d.reported = c.reported /\ d.requested = c.requested
               /\ d.stateUpdate /\ d.info = Want(c) /\ ActivityOK(d) /\ Want(d) = Want(c)
  <1>1. Want(c) \in DistSessionState
    BY WantType
  <1> DEFINE e == [c EXCEPT !.stateUpdate = TRUE, !.info = Want(c)]
             act == IF e.info = "INACTIVE" THEN "INACTIVE" ELSE "ACTIVE"
  <1>2. e \in Context /\ e.info = Want(c) /\ e.stateUpdate /\ e.content = c.content
        /\ e.needsUpdate = c.needsUpdate /\ e.reported = c.reported /\ e.requested = c.requested
    BY <1>1 DEF Context
  <1>3. Changed(c) = [e EXCEPT !.activity = act]
    BY DEF Changed, SendActivityStatus
  <1> HIDE DEF e
  <1>4. act \in {"ACTIVE", "INACTIVE"}
    OBVIOUS
  <1> DEFINE d == [e EXCEPT !.activity = act]
  <1>5. /\ d \in Context /\ d.content = c.content /\ d.needsUpdate = c.needsUpdate
        /\ d.reported = c.reported /\ d.requested = c.requested
        /\ d.stateUpdate /\ d.info = Want(c) /\ d.activity = act
    BY <1>2, <1>4 DEF Context
  <1>6. ActivityOK(d)
    <2>1. d.info = e.info
      BY <1>2, <1>5
    <2> HIDE DEF d
    <2>2. SendActivityStatus(d).activity = IF d.info = "INACTIVE" THEN "INACTIVE" ELSE "ACTIVE"
      BY <1>5 DEF SendActivityStatus, Context
    <2>3. QED BY <1>5, <2>1, <2>2 DEF ActivityOK
  <1>7. Want(d) = Want(c)
    BY <1>5 DEF Want
  <1>8. QED BY <1>3, <1>5, <1>6, <1>7

\* Looking again at a session that needs no new content changes nothing, except
\* that one that is down may be asked for its state.
LEMMA LookedAgain ==
    ASSUME NEW c \in Context, NEW s, NEW w \in Seq(Patch), NEW a, NEW n, NEW b, NEW r,
           phase \in 1..Len(Phases), KeyOK(Want(c), c, s, w, a, n, b, r), ~b
    PROVE  KeyOK(Want(c), ChangeState(c).ctx, s, w \o ChangeState(c).out, a, n, b, r)
  <1> DEFINE m == Want(c)
             d == Changed(c)
  <1>1. ChangeState(c) = IF m = c.requested THEN Effect(c, << >>)
                         ELSE IF c.needsUpdate \/ m # c.reported THEN SendPatch(d)
                         ELSE Effect(d, << >>)
    BY DEF ChangeState, Changed
  <1>2. w \o << >> = w
    OBVIOUS
  <1>3. /\ d \in Context /\ d.content = c.content /\ d.needsUpdate = c.needsUpdate
        /\ d.reported = c.reported /\ d.requested = c.requested
        /\ d.stateUpdate /\ d.info = m /\ ActivityOK(d) /\ Want(d) = m
    BY ChangedIs
  <1>4. Sound(m, c, s, w, a, n) /\ Cared(m, c, s, w, a, n, b, r)
    BY DEF KeyOK
  <1> HIDE DEF m, d
  <1>5. CASE m = c.requested
    BY <1>1, <1>2, <1>5 DEF Effect, m
  <1>6. ASSUME m # c.requested PROVE Down(s, w) /\ m = "INACTIVE"
    BY <1>4, <1>6 DEF Cared, ToBuild
  <1>7. CASE m # c.requested /\ (c.needsUpdate \/ m # c.reported)
    <2> DEFINE p == [state |-> m, content |-> IF d.needsUpdate THEN d.content ELSE NoContent]
               e == [d EXCEPT !.requested = m]
    <2>1. SendPatch(d).ctx = e /\ SendPatch(d).out = <<p>> /\ p \in Patch
      BY <1>3, <1>6, <1>7, SendPatchIs
    <2>2. /\ e.content = c.content /\ e.needsUpdate = c.needsUpdate /\ e.reported = c.reported
          /\ e.stateUpdate /\ e.info = m /\ e.requested = m
          /\ e.activity = d.activity /\ d.info = e.info
      BY <1>3 DEF Context
    <2>3. ActivityOK(e)
      BY <1>3, <2>2 DEF ActivityOK, SendActivityStatus, Context
    <2>4. KeyOK(m, e, s, Append(w, p), a, n, b, r)
      <3>1. p.state = m /\ p.content = IF e.needsUpdate THEN e.content ELSE NoContent
        BY <1>3, <2>2
      <3> HIDE DEF p, e
      <3>2. QED BY <1>4, <2>1, <2>2, <2>3, <3>1, SentOK
    <2>5. w \o <<p>> = Append(w, p)
      BY <2>1, AppendParts
    <2>6. QED BY <1>1, <1>7, <2>1, <2>4, <2>5 DEF m
  <1>8. CASE m # c.requested /\ ~(c.needsUpdate \/ m # c.reported)
    <2>1. Sound(m, d, s, w, a, n)
      BY <1>3, <1>4 DEF Sound, Right, ReportsOf, NoDetour, WireMeant
    <2>2. Cared(m, d, s, w, a, n, b, r)
      BY <1>3, <1>4, <1>6, <1>8 DEF Cared, Working, ToBuild
    <2>3. QED BY <1>1, <1>2, <1>8, <2>1, <2>2 DEF KeyOK, Effect, m
  <1>9. QED BY <1>5, <1>7, <1>8

\* A PATCH_BUILD or PATCH_ROLLBACK event leaves nothing to do, or sends a
\* PATCH; b2 and r2 are what is queued after it.
LEMMA PatchedIfNeeded ==
    ASSUME NEW m, NEW c \in Context, NEW d \in Context, NEW s \in Session, NEW w \in Seq(Patch),
           NEW a, NEW n, NEW b, NEW r, NEW b2, NEW r2, phase \in 1..Len(Phases),
           KeyOK(m, c, s, w, a, n, b, r), Want(c) = m, Want(d) = m,
           d \in {c, SendActivityStatus(c)},
           s.fault = "failed" => n = << >>,
           PatchIfNeeded(d).out # << >> => d.info = m /\ ActivityOK(d)
    PROVE  KeyOK(m, PatchIfNeeded(d).ctx, s, w \o PatchIfNeeded(d).out, a, n, b2, r2)
  <1>1. /\ d.content = c.content /\ d.needsUpdate = c.needsUpdate /\ d.reported = c.reported
        /\ d.stateUpdate = c.stateUpdate /\ d.info = c.info /\ d.requested = c.requested
        /\ ActivityOK(c) => ActivityOK(d)
    BY DEF SendActivityStatus, Context, ActivityOK
  <1>2. Sound(m, c, s, w, a, n) /\ Cared(m, c, s, w, a, n, b, r)
    BY DEF KeyOK
  <1>3. m \in DistSessionState
    BY WantType
  <1>4. CASE d.needsUpdate \/ (d.stateUpdate /\ d.reported # m)
    <2> DEFINE p == [state |-> m, content |-> IF d.needsUpdate THEN d.content ELSE NoContent]
               e == [d EXCEPT !.requested = m]
    <2>1. d.needsUpdate \/ m # "ESTABLISHED" \/ d.reported # "ACTIVE"
      BY <1>1, <1>2 DEF Sound, NoDetour
    <2>2. PatchIfNeeded(d) = SendPatch(d) /\ SendPatch(d).ctx = e /\ SendPatch(d).out = <<p>>
          /\ p \in Patch
      BY <1>4, <2>1, SendPatchIs DEF PatchIfNeeded
    <2>3. d.info = m /\ ActivityOK(d)
      BY <2>2
    <2>4. /\ e.content = c.content /\ e.needsUpdate = c.needsUpdate /\ e.reported = c.reported
          /\ e.stateUpdate = d.stateUpdate /\ e.info = m /\ e.requested = m
          /\ e.activity = d.activity /\ d.info = e.info
      BY <1>1, <1>4, <2>3 DEF Context
    <2>5. ActivityOK(e) /\ (e.needsUpdate \/ e.stateUpdate)
      BY <1>1, <1>4, <2>3, <2>4 DEF ActivityOK, SendActivityStatus, Context
    <2>6. p.state = m /\ p.content = IF e.needsUpdate THEN e.content ELSE NoContent
      BY <1>1, <2>4
    <2>7. w \o <<p>> = Append(w, p)
      BY <2>2, AppendParts
    <2> HIDE DEF p, e
    <2>8. KeyOK(m, e, s, Append(w, p), a, n, b2, r2)
      BY <1>2, <2>2, <2>4, <2>5, <2>6, SentOK
    <2>9. QED BY <2>2, <2>7, <2>8
  <1>5. CASE ~(d.needsUpdate \/ (d.stateUpdate /\ d.reported # m))
    <2>1. PatchIfNeeded(d) = Effect(d, << >>)
      BY <1>5 DEF PatchIfNeeded
    <2>2. w \o << >> = w
      OBVIOUS
    <2>3. s.content = c.content
      BY <1>1, <1>2, <1>5 DEF Sound
    <2>4. s.state # m => Down(s, w)
      <3> SUFFICES ASSUME s.state # m, ~Down(s, w) PROVE FALSE
        OBVIOUS
      <3>1. d.reported = m
        BY <1>1, <1>2, <1>5 DEF Cared, Working
      <3>2. n = << >>
        <4>1. CASE s.fault # "failed"
          BY <1>2, <4>1 DEF Sound, NotifsMeant, Last, ReportsOf
        <4>2. QED BY <4>1
      <3>3. c.reported \in {Unset, s.state}
        BY <1>2, <3>2 DEF Sound, ReportsOf
      <3>4. QED BY <1>1, <1>3, <3>1, <3>3 DEF DistSessionState, Unset
    <2>5. Sound(m, d, s, w, a, n)
      BY <1>1, <1>2 DEF Sound, Right, ReportsOf, NoDetour, WireMeant
    <2>6. Cared(m, d, s, w, a, n, b2, r2)
      BY <1>1, <1>2, <1>5, <2>3, <2>4 DEF Cared, ToBuild
    <2>7. QED BY <2>1, <2>2, <2>5, <2>6 DEF KeyOK, Effect
  <1>6. QED BY <1>4, <1>5

\* An answer of success: the MBSTF is right, and no flag is needed.
LEMMA AcceptedOK ==
    ASSUME NEW m, NEW c \in Context, NEW s, NEW w \in Seq(Patch),
           NEW a \in Seq({"OK", "ERROR"}), NEW n, NEW b, NEW r,
           KeyOK(m, c, s, w, a, n, b, r), a # << >>, Head(a) = "OK"
    PROVE  KeyOK(m, [c EXCEPT !.receivedMBSTFPatchResponse = TRUE, !.needsUpdate = FALSE,
                              !.stateUpdate = FALSE], s, w, Tail(a), n, b, r)
  <1> DEFINE d == [c EXCEPT !.receivedMBSTFPatchResponse = TRUE, !.needsUpdate = FALSE,
                            !.stateUpdate = FALSE]
  <1>1. /\ d.content = c.content /\ d.reported = c.reported /\ d.info = c.info
        /\ d.requested = c.requested /\ d.activity = c.activity
        /\ ActivityOK(c) => ActivityOK(d)
    BY DEF ActivityOK, SendActivityStatus, Context
  <1>2. Sound(m, c, s, w, a, n) /\ Cared(m, c, s, w, a, n, b, r)
    BY DEF KeyOK
  <1>3. Accepted(a) /\ (Accepted(Tail(a)) => Accepted(a))
    BY TailParts DEF Accepted
  <1>4. Right(m, c, s) /\ s.fault # "failed"
    BY <1>2, <1>3 DEF Sound
  <1> HIDE DEF d
  <1>5. Sound(m, d, s, w, Tail(a), n)
    BY <1>1, <1>2, <1>4 DEF Sound, Right, ReportsOf, NoDetour, WireMeant
  <1>6. Cared(m, d, s, w, Tail(a), n, b, r)
    BY <1>1, <1>2, <1>4 DEF Cared, Right, Down, ToBuild
  <1>7. QED BY <1>5, <1>6 DEF KeyOK, d

\* A refusal: what has to be done again has its flag up, and will be.
LEMMA RefusedOK ==
    ASSUME NEW m, NEW c \in Context, NEW s, NEW w \in Seq(Patch),
           NEW a \in Seq({"OK", "ERROR"}), NEW n, NEW b, NEW r, NEW r2,
           KeyOK(m, c, s, w, a, n, b, r), a # << >>, ~c.needsUpdate,
           c.stateUpdate => r2
    PROVE  KeyOK(m, [c EXCEPT !.receivedMBSTFPatchResponse = TRUE, !.needsUpdate = FALSE],
                 s, w, Tail(a), n, b, r2)
  <1> DEFINE d == [c EXCEPT !.receivedMBSTFPatchResponse = TRUE, !.needsUpdate = FALSE]
  <1>1. /\ d.content = c.content /\ d.reported = c.reported /\ d.info = c.info
        /\ d.requested = c.requested /\ d.activity = c.activity /\ d.stateUpdate = c.stateUpdate
        /\ ~d.needsUpdate
    BY DEF ActivityOK, SendActivityStatus, Context
  <1>2. Sound(m, c, s, w, a, n) /\ Cared(m, c, s, w, a, n, b, r)
    BY DEF KeyOK
  <1>3. Accepted(Tail(a)) => Accepted(a)
    BY TailParts DEF Accepted
  <1>4. ActivityOK(c) => ActivityOK(d)
    BY DEF ActivityOK, SendActivityStatus, Context
  <1> HIDE DEF d
  <1>5. Sound(m, d, s, w, Tail(a), n)
    BY <1>1, <1>2, <1>3 DEF Sound, Right, ReportsOf, NoDetour, WireMeant
  <1>6. Cared(m, d, s, w, Tail(a), n, b, r2)
    BY <1>1, <1>2, <1>4 DEF Cared, Sound, Down, ToBuild, Working
  <1>7. QED BY <1>5, <1>6 DEF KeyOK, d

\* An answer of success is lost.
LEMMA LostOK ==
    ASSUME NEW m, NEW c, NEW s, NEW w, NEW a \in Seq({"OK", "ERROR"}), NEW n, NEW b, NEW r,
           KeyOK(m, c, s, w, a, n, b, r), a # << >>, Head(a) # "ERROR"
    PROVE  KeyOK(m, c, s, w, Tail(a), n, b, r)
  <1>1. Accepted(Tail(a)) => Accepted(a)
    BY TailParts DEF Accepted
  <1>2. Refused(a) => Refused(Tail(a))
    <2> SUFFICES ASSUME NEW j \in DOMAIN a, a[j] = "ERROR" PROVE Refused(Tail(a))
      BY DEF Refused
    <2>1. \E i \in DOMAIN Tail(a) : Tail(a)[i] = a[j]
      BY TailParts
    <2>2. QED BY <2>1 DEF Refused
  <1>3. QED BY <1>1, <1>2 DEF KeyOK, Sound, Cared, Working, ToBuild

\* The MBSTF does the oldest PATCH.
LEMMA DoneOK ==
    ASSUME NEW m \in DistSessionState, NEW c \in Context, NEW s \in Session,
           NEW w \in Seq(Patch), NEW a \in Seq({"OK", "ERROR"}), NEW n \in Seq(Report),
           NEW b, NEW r,
           KeyOK(m, c, s, w, a, n, b, r), w # << >>, s.fault = "failed" => n = << >>,
           NEW t \in Session, t.state = Head(w).state, t.fault = "none",
           t.content = IF Head(w).content = NoContent THEN s.content ELSE Head(w).content,
           ~(s.state = "ACTIVE" /\ Head(w).state = "ESTABLISHED"),
           NEW new \in Reports(s.state, Head(w).state)
    PROVE  KeyOK(m, c, t, Tail(w), Append(a, "OK"), n \o new, b, r)
  <1>1. Sound(m, c, s, w, a, n) /\ Cared(m, c, s, w, a, n, b, r)
    BY DEF KeyOK
  <1>2. PICK i0 \in DOMAIN w : w[i0] = Head(w)
    BY TailParts
  <1>3. t.state = m /\ t.content = c.content
    <2>1. Head(w).state = m /\ Head(w).content \in {NoContent, c.content}
          /\ (s.content # c.content => Head(w).content = c.content)
      BY <1>1, <1>2 DEF Sound, WireMeant
    <2>2. c.content # NoContent
      BY <1>1 DEF Sound
    <2>3. QED BY <2>1, <2>2
  <1>4. ~Down(s, w) /\ ~Down(t, Tail(w)) /\ ~ToBuild(c, w, a, b)
    BY DEF Down, ToBuild
  <1>5. Cared(m, c, t, Tail(w), Append(a, "OK"), n \o new, b, r)
    BY <1>1, <1>3, <1>4 DEF Cared
  <1>6. WireMeant(m, c, t, Tail(w))
    <2> SUFFICES ASSUME NEW i \in DOMAIN Tail(w)
                 PROVE  Tail(w)[i].state = m /\ Tail(w)[i].content \in {NoContent, c.content}
      BY <1>3 DEF WireMeant
    <2>1. PICK j \in DOMAIN w : Tail(w)[i] = w[j]
      BY TailParts
    <2>2. QED BY <1>1, <2>1 DEF Sound, WireMeant
  <1>7. n # << >> => s.state = m /\ s.fault # "failed"
    <2> SUFFICES ASSUME n # << >> PROVE s.state = m /\ s.fault # "failed"
      OBVIOUS
    <2>1. s.fault # "failed"
      OBVIOUS
    <2>2. 1 \in DOMAIN n
      OBVIOUS
    <2>3. QED BY <1>1, <2>1, <2>2 DEF Sound, NotifsMeant
  <1>8. \/ s.state = m /\ new = << >>
        \/ n = << >> /\ s.state # m
           /\ new \in {<<m>>, <<"DEACTIVATING", m>>, <<"ESTABLISHED", m>>}
           /\ (new = <<"ESTABLISHED", m>> => m = "ACTIVE")
    <2>1. new \in Reports(s.state, m)
      BY <1>3
    <2>2. CASE s.state = m
      BY <2>1, <2>2 DEF Reports
    <2>3. CASE s.state # m /\ m = "INACTIVE"
      BY <1>7, <2>1, <2>3 DEF Reports
    <2>4. CASE s.state = "INACTIVE" /\ m = "ACTIVE"
      BY <1>7, <2>1, <2>4 DEF Reports
    <2>5. CASE s.state # m /\ m # "INACTIVE" /\ ~(s.state = "INACTIVE" /\ m = "ACTIVE")
      <3>1. new = <<m>> /\ n = << >>
        BY <1>7, <2>1, <2>5 DEF Reports
      <3>2. <<m>> # <<"ESTABLISHED", m>>
        OBVIOUS
      <3>3. QED BY <2>5, <3>1, <3>2
    <2>6. QED BY <2>2, <2>3, <2>4, <2>5
  <1>9. ReportsOf(c, t, n \o new) /\ NotifsMeant(m, t, n \o new)
    <2>1. CASE s.state = m /\ new = << >>
      <3>1. n \o new = n
        BY <2>1
      <3>2. ReportsOf(c, t, n)
        BY <1>1, <1>3, <2>1 DEF Sound, ReportsOf
      <3>3. NotifsMeant(m, t, n)
        <4>1. CASE n = << >>
          BY <4>1 DEF NotifsMeant
        <4>2. CASE n # << >>
          BY <1>1, <1>3, <1>7, <4>2 DEF Sound, NotifsMeant
        <4>3. QED BY <4>1, <4>2
      <3>4. QED BY <3>1, <3>2, <3>3
    <2>2. CASE n = << >> /\ new \in {<<m>>, <<"DEACTIVATING", m>>, <<"ESTABLISHED", m>>}
               /\ (new = <<"ESTABLISHED", m>> => m = "ACTIVE")
      <3>1. n \o new = new
        <4>1. m \in Report /\ "DEACTIVATING" \in Report /\ "ESTABLISHED" \in Report
          BY DEF Report, DistSessionState
        <4>2. /\ <<m>> \in Seq(Report) /\ <<"DEACTIVATING", m>> \in Seq(Report)
              /\ <<"ESTABLISHED", m>> \in Seq(Report)
          BY <4>1
        <4>3. new \in Seq(Report)
          BY <2>2, <4>2
        <4>4. QED BY <2>2, <4>3
      <3>2. new # << >> /\ Last(new) = m
        <4>1. CASE new = <<m>>
          BY <4>1 DEF Last
        <4>2. CASE new = <<"DEACTIVATING", m>>
          BY <4>2 DEF Last
        <4>3. CASE new = <<"ESTABLISHED", m>>
          BY <4>3 DEF Last
        <4>4. QED BY <2>2, <4>1, <4>2, <4>3
      <3>3. \A i \in DOMAIN new : new[i] # "FAILURE" /\ (new[i] \in {"INACTIVE", "ACTIVE"} => new[i] = m)
        <4>1. CASE new = <<m>>
          BY <4>1 DEF DistSessionState
        <4>2. CASE new = <<"DEACTIVATING", m>>
          <5>1. DOMAIN new = {1, 2} /\ new[1] = "DEACTIVATING" /\ new[2] = m
            BY <4>2
          <5>2. QED BY <5>1 DEF DistSessionState
        <4>3. CASE new = <<"ESTABLISHED", m>>
          <5>1. DOMAIN new = {1, 2} /\ new[1] = "ESTABLISHED" /\ new[2] = m
            BY <4>3
          <5>2. QED BY <5>1 DEF DistSessionState
        <4>4. QED BY <2>2, <4>1, <4>2, <4>3
      <3>4. QED BY <1>3, <3>1, <3>2, <3>3 DEF ReportsOf, NotifsMeant
    <2>3. QED BY <1>8, <2>1, <2>2
  <1>10. NoDetour(m, c, t)
    BY <1>1, <1>2, <1>3 DEF Sound, NoDetour
  <1>11. Sound(m, c, t, Tail(w), Append(a, "OK"), n \o new)
    BY <1>1, <1>3, <1>6, <1>9, <1>10 DEF Sound, Right
  <1>12. QED BY <1>5, <1>11 DEF KeyOK

\* The MBSTF refuses the oldest PATCH.
LEMMA RefusesOK ==
    ASSUME NEW m, NEW c, NEW s, NEW w \in Seq(Patch), NEW a \in Seq({"OK", "ERROR"}), NEW n,
           NEW b, NEW r,
           KeyOK(m, c, s, w, a, n, b, r), w # << >>, s.fault = "failed" => n = << >>,
           NEW t, t.state = s.state, t.content = s.content, t.fault \in {"forbidden", "refused"}
    PROVE  KeyOK(m, c, t, Tail(w), Append(a, "ERROR"), n, b, r)
  <1>1. Sound(m, c, s, w, a, n) /\ Cared(m, c, s, w, a, n, b, r)
    BY DEF KeyOK
  <1>2. ~Down(s, w) /\ ~Down(t, Tail(w)) /\ ~ToBuild(c, w, a, b)
    BY DEF Down, ToBuild
  <1>3. Refused(Append(a, "ERROR")) /\ (Accepted(Append(a, "ERROR")) => Accepted(a))
    <2> DEFINE e == "ERROR"
               A == {"OK", "ERROR"}
    <2>1. e \in A /\ a \in Seq(A)
      OBVIOUS
    <2> HIDE DEF e, A
    <2>2. /\ \E i \in DOMAIN Append(a, e) : Append(a, e)[i] = e
          /\ \A i \in DOMAIN Append(a, e) :
                Append(a, e)[i] = e \/ (i \in DOMAIN a /\ Append(a, e)[i] = a[i])
      BY <2>1, AppendParts
    <2>3. QED BY <2>2 DEF Refused, Accepted, e
  <1>4. WireMeant(m, c, t, Tail(w))
    <2> SUFFICES ASSUME NEW i \in DOMAIN Tail(w)
                 PROVE  /\ Tail(w)[i].state = m /\ Tail(w)[i].content \in {NoContent, c.content}
                        /\ s.content # c.content => Tail(w)[i].content = c.content
      BY DEF WireMeant
    <2>1. PICK j \in DOMAIN w : Tail(w)[i] = w[j]
      BY TailParts
    <2>2. QED BY <1>1, <2>1 DEF Sound, WireMeant
  <1>5. Sound(m, c, t, Tail(w), Append(a, "ERROR"), n)
    BY <1>1, <1>3, <1>4 DEF Sound, Right, ReportsOf, NotifsMeant, NoDetour
  <1>6. Cared(m, c, t, Tail(w), Append(a, "ERROR"), n, b, r)
    BY <1>1, <1>2, <1>3 DEF Cared, Working
  <1>7. QED BY <1>5, <1>6 DEF KeyOK

\* Every element of a finite set is in the sequence it is put into.
LEMMA SetToSeqOnto ==
    ASSUME NEW S, IsFiniteSet(S), NEW x \in S
    PROVE  \E i \in DOMAIN SetToSeq(S) : SetToSeq(S)[i] = x
  <1> DEFINE n == Cardinality(S)
             q == SetToSeq(S)
  <1>1. n \in Nat /\ ExistsBijection(1..n, S)
    BY FS_CardinalityType
  <1>2. PICK f : f \in Bijection(1..n, S)
    BY <1>1 DEF ExistsBijection
  <1>3. f \in [1..n -> S] /\ IsInjective(f)
    BY <1>2 DEF Bijection, Injection, IsInjective
  <1>4. q \in [1..n -> S] /\ IsInjective(q)
    BY <1>3 DEF SetToSeq
  <1>5. q \in Injection(1..n, S)
    BY <1>4 DEF Injection, IsInjective
  <1>6. Cardinality(1..n) = n
    BY <1>1, FS_Interval
  <1> HIDE DEF q
  <1>7. q \in Surjection(1..n, S)
    BY <1>5, <1>6, FS_Injection
  <1>8. QED BY <1>4, <1>7 DEF Surjection, q

\* The events queued for some of the keys are one for each.
LEMMA LocalEventsAll ==
    ASSUME NEW event \in {"PATCH_BUILD", "PATCH_ROLLBACK"}, NEW keys \in SUBSET Key,
           NEW e, NEW k
    PROVE  (\E i \in DOMAIN LocalEvents(event, keys) :
               LocalEvents(event, keys)[i] = [event |-> e, key |-> k])
           <=> e = event /\ k \in keys
  <1> DEFINE ks == SetToSeq(keys)
             es == LocalEvents(event, keys)
  <1>1. IsFiniteSet(keys)
    BY ControlAssumption, FS_Subset
  <1>2. ks \in Seq(keys)
    BY <1>1, SetToSeqType
  <1>3. \A i \in DOMAIN ks : ks[i] \in keys
    BY <1>2
  <1>4. \A x \in keys : \E i \in DOMAIN ks : ks[i] = x
    BY <1>1, SetToSeqOnto
  <1>5. es = [i \in DOMAIN ks |-> [event |-> event, key |-> ks[i]]]
    BY DEF LocalEvents
  <1> HIDE DEF ks, es
  <1>6. ASSUME NEW i \in DOMAIN es, es[i] = [event |-> e, key |-> k]
        PROVE  e = event /\ k \in keys
    <2>1. es[i] = [event |-> event, key |-> ks[i]] /\ ks[i] \in keys
      BY <1>3, <1>5
    <2>2. es[i].event = event /\ es[i].key = ks[i] /\ es[i].event = e /\ es[i].key = k
      BY <1>6, <2>1
    <2>3. QED BY <2>1, <2>2
  <1>7. ASSUME e = event, k \in keys
        PROVE  \E i \in DOMAIN es : es[i] = [event |-> e, key |-> k]
    BY <1>4, <1>5, <1>7
  <1>8. QED BY <1>6, <1>7 DEF es

\* No keys, no events.
LEMMA NoLocalEvents ==
    ASSUME NEW event \in {"PATCH_BUILD", "PATCH_ROLLBACK"}
    PROVE  LocalEvents(event, {}) = << >>
  <1> DEFINE es == LocalEvents(event, {})
  <1>1. es \in Seq(Event)
    BY LocalEventsType
  <1>2. \A i \in DOMAIN es : FALSE
    <2> SUFFICES ASSUME NEW i \in DOMAIN es PROVE FALSE
      OBVIOUS
    <2>1. es[i] \in Event
      BY <1>1
    <2>2. es[i] = [event |-> es[i].event, key |-> es[i].key]
      BY <2>1 DEF Event
    <2>3. QED BY <2>2, LocalEventsAll
  <1> HIDE DEF es
  <1>3. es = << >>
    <2>1. Len(es) \in Nat /\ DOMAIN es = 1..Len(es)
      BY <1>1
    <2>2. Len(es) = 0
      <3>1. 1 \notin 1..Len(es)
        BY <1>2, <2>1
      <3>2. QED BY <2>1, <3>1
    <2>3. QED BY <1>1, <2>2
  <1>4. QED BY <1>3 DEF es

\* What is queued after some events were added, and after the first was taken.
LEMMA QueueGrows ==
    ASSUME local \in Seq(Event), NEW event \in {"PATCH_BUILD", "PATCH_ROLLBACK"},
           NEW keys \in SUBSET Key, local' = local \o LocalEvents(event, keys), NEW e, NEW k
    PROVE  Queued(e, k)' <=> Queued(e, k) \/ (e = event /\ k \in keys)
  <1> DEFINE es == LocalEvents(event, keys)
  <1>1. es \in Seq(Event)
    BY LocalEventsType
  <1>a. \A f, j : (\E i \in DOMAIN es : es[i] = [event |-> f, key |-> j]) <=> f = event /\ j \in keys
    BY LocalEventsAll
  <1> DEFINE x == [event |-> e, key |-> k]
  <1>2. (\E i \in DOMAIN es : es[i] = x) <=> e = event /\ k \in keys
    BY <1>a
  <1> HIDE DEF es, x
  <1>3. /\ Len(local) \in Nat /\ Len(es) \in Nat /\ DOMAIN local = 1..Len(local)
        /\ DOMAIN es = 1..Len(es) /\ DOMAIN (local \o es) = 1..(Len(local) + Len(es))
        /\ \A i \in 1..(Len(local) + Len(es)) :
              (local \o es)[i] = IF i <= Len(local) THEN local[i] ELSE es[i - Len(local)]
    BY <1>1
  <1>4. local' = local \o es
    BY DEF es
  <1>5. (\E i \in DOMAIN local' : local'[i] = x)
        <=> (\E i \in DOMAIN local : local[i] = x) \/ (\E i \in DOMAIN es : es[i] = x)
    <2> DEFINE t == local \o es
               L == Len(local)
               E == Len(es)
    <2>1. L \in Nat /\ E \in Nat /\ DOMAIN local = 1..L /\ DOMAIN es = 1..E /\ DOMAIN t = 1..(L + E)
          /\ \A i \in 1..(L + E) : t[i] = IF i <= L THEN local[i] ELSE es[i - L]
      BY <1>3
    <2> HIDE DEF t, L, E
    <2>2. ASSUME NEW i \in DOMAIN t, t[i] = x
          PROVE  (\E j \in DOMAIN local : local[j] = x) \/ (\E j \in DOMAIN es : es[j] = x)
      <3>1. CASE i <= L
        BY <2>1, <2>2, <3>1
      <3>2. CASE ~(i <= L)
        <4>1. i - L \in 1..E /\ t[i] = es[i - L]
          BY <2>1, <3>2
        <4>2. QED BY <2>1, <2>2, <4>1
      <3>3. QED BY <3>1, <3>2
    <2>3. ASSUME NEW j \in DOMAIN local, local[j] = x PROVE \E i \in DOMAIN t : t[i] = x
      <3>1. j \in 1..(L + E) /\ j <= L
        BY <2>1
      <3>2. QED BY <2>1, <2>3, <3>1
    <2>4. ASSUME NEW j \in DOMAIN es, es[j] = x PROVE \E i \in DOMAIN t : t[i] = x
      <3>1. j + L \in 1..(L + E) /\ ~(j + L <= L) /\ (j + L) - L = j
        BY <2>1
      <3>2. QED BY <2>1, <2>4, <3>1
    <2>5. QED BY <1>4, <2>2, <2>3, <2>4 DEF t
  <1>6. QED BY <1>2, <1>5 DEF Queued, x

LEMMA QueueShrinks ==
    ASSUME local \in Seq(Event), local # << >>, local' = Tail(local), NEW e, NEW k
    PROVE  /\ Queued(e, k)' => Queued(e, k)
           /\ Queued(e, k) /\ k # Head(local).key => Queued(e, k)'
           /\ Queued(Head(local).event, Head(local).key) /\ Head(local).key \in Key
           /\ Head(local).event \in {"PATCH_BUILD", "PATCH_ROLLBACK"}
  <1> DEFINE x == [event |-> e, key |-> k]
  <1>1. /\ Head(local) \in Event /\ \E i \in DOMAIN local : local[i] = Head(local)
        /\ \A i \in DOMAIN Tail(local) : \E j \in DOMAIN local : Tail(local)[i] = local[j]
        /\ \A j \in DOMAIN local : local[j] = Head(local)
                                   \/ \E i \in DOMAIN Tail(local) : Tail(local)[i] = local[j]
    BY TailParts
  <1>2. Head(local) = [event |-> Head(local).event, key |-> Head(local).key]
    BY <1>1 DEF Event
  <1>3. x.key = k
    OBVIOUS
  <1> HIDE DEF x
  <1>4. (\E i \in DOMAIN local' : local'[i] = x) => \E i \in DOMAIN local : local[i] = x
    BY <1>1
  <1>5. (\E i \in DOMAIN local : local[i] = x) /\ x # Head(local)
        => \E i \in DOMAIN local' : local'[i] = x
    BY <1>1
  <1>6. Queued(Head(local).event, Head(local).key)
    BY <1>1, <1>2 DEF Queued
  <1>7. Head(local).key \in Key /\ Head(local).event \in {"PATCH_BUILD", "PATCH_ROLLBACK"}
    BY <1>1 DEF Event
  <1>8. QED BY <1>3, <1>4, <1>5, <1>6, <1>7 DEF Queued, x

\* A report that arrives.
LEMMA NotifiedOK ==
    ASSUME NEW m, NEW c, NEW d, NEW s, NEW w, NEW a, NEW n \in Seq(Report), NEW b, NEW r,
           KeyOK(m, c, s, w, a, n, b, r), n # << >>, Head(n) # "FAILURE",
           s.fault = "failed" => w = << >>, s.fault = "failed" => ~b,
           d.reported = Head(n), d.content = c.content, d.needsUpdate = c.needsUpdate,
           d.info = c.info, d.requested = c.requested, ActivityOK(c) => ActivityOK(d),
           d.stateUpdate = c.stateUpdate
    PROVE  /\ ~Continues(c, Head(n)) /\ KeyOK(m, d, s, w, a, Tail(n), b, r)
           /\ s.fault = "failed" => Tail(n) = << >>
  <1>1. Sound(m, c, s, w, a, n) /\ Cared(m, c, s, w, a, n, b, r)
    BY DEF KeyOK
  <1>2. /\ \A i \in DOMAIN Tail(n) : \E j \in DOMAIN n : Tail(n)[i] = n[j]
        /\ \E i \in DOMAIN n : n[i] = Head(n)
        /\ Tail(n) # << >> => Last(Tail(n)) = Last(n)
        /\ Tail(n) = << >> => Last(n) = Head(n)
    BY TailParts
  <1>3. ASSUME s.fault = "failed" PROVE n = <<"INACTIVE">> /\ Tail(n) = << >> /\ Head(n) = "INACTIVE"
    <2>1. n = <<"INACTIVE">>
      <3>1. n = <<"INACTIVE">> \/ n = <<"FAILURE", "INACTIVE">>
        BY <1>1, <1>3 DEF Sound, NotifsMeant
      <3>2. QED BY <3>1
    <2>2. QED BY <2>1
  <1>4. s.fault # "failed" =>
            \A i \in DOMAIN n : /\ s.state = m /\ n[i] # "FAILURE"
                                /\ n[i] \in {"INACTIVE", "ACTIVE"} => n[i] = m
    BY <1>1 DEF Sound, NotifsMeant
  <1>5. ~Continues(c, Head(n))
    <2>1. CASE s.fault = "failed"
      <3>1. c.info = "INACTIVE"
        BY <1>1, <1>3, <2>1 DEF Cared, Down, ToBuild
      <3>2. QED BY <3>1 DEF Continues
    <2>2. CASE s.fault # "failed"
      BY <1>1, <1>2, <1>4, <2>2 DEF Continues, Cared
    <2>3. QED BY <2>1, <2>2
  <1>6. NotifsMeant(m, s, Tail(n))
    BY <1>1, <1>2, <1>3, <1>4 DEF Sound, NotifsMeant
  <1>7. ReportsOf(d, s, Tail(n))
    BY <1>1, <1>2 DEF Sound, ReportsOf
  <1>8. NoDetour(m, d, s)
    <2>1. d.reported = "ACTIVE" => m # "ESTABLISHED"
      BY <1>2, <1>3, <1>4
    <2>2. QED BY <1>1, <2>1 DEF Sound, NoDetour
  <1>9. Sound(m, d, s, w, a, Tail(n))
    BY <1>1, <1>6, <1>7, <1>8 DEF Sound, Right, WireMeant
  <1>10. Cared(m, d, s, w, a, Tail(n), b, r)
    <2>1. n # <<"FAILURE", "INACTIVE">>
      OBVIOUS
    <2>2. QED BY <1>1, <2>1 DEF Cared, Working, Down, ToBuild
  <1>11. QED BY <1>3, <1>5, <1>9, <1>10 DEF KeyOK

\* A report of failure that arrives: what is meant may then be INACTIVE.
LEMMA FailureOK ==
    ASSUME NEW m, NEW c, NEW d, NEW s, NEW w, NEW a, NEW n \in Seq(Report), NEW b, NEW r,
           KeyOK(m, c, s, w, a, n, b, r), n # << >>, Head(n) = "FAILURE", w = << >>, ~b,
           d.reported = c.reported, d.content = c.content, d.needsUpdate = c.needsUpdate,
           d.info = "INACTIVE", d.requested = c.requested, d.stateUpdate = c.stateUpdate,
           NEW m2 \in {m, "INACTIVE"}
    PROVE  KeyOK(m2, d, s, w, a, Tail(n), b, r)
  <1>1. Sound(m, c, s, w, a, n) /\ Cared(m, c, s, w, a, n, b, r)
    BY DEF KeyOK
  <1>2. /\ \E i \in DOMAIN n : n[i] = Head(n)
        /\ Tail(n) # << >> => Last(Tail(n)) = Last(n)
    BY TailParts
  <1>3. s.fault = "failed"
    BY <1>1, <1>2 DEF Sound, NotifsMeant
  <1>4. n = <<"FAILURE", "INACTIVE">>
    <2>1. n = <<"INACTIVE">> \/ n = <<"FAILURE", "INACTIVE">>
      BY <1>1, <1>3 DEF Sound, NotifsMeant
    <2>2. QED BY <2>1
  <1>5. Tail(n) = <<"INACTIVE">>
    BY <1>4
  <1>6. Tail(n) # << >>
    BY <1>5
  <1>7. Sound(m2, d, s, w, a, Tail(n))
    BY <1>1, <1>2, <1>3, <1>5, <1>6 DEF Sound, Right, WireMeant, NotifsMeant, ReportsOf, NoDetour
  <1>8. Cared(m2, d, s, w, a, Tail(n), b, r)
    BY <1>1, <1>3 DEF Cared, Working, Down, ToBuild
  <1>9. QED BY <1>7, <1>8 DEF KeyOK

-----------------------------------------------------------------------------
(* The steps, one stimulus at a time.                                      *)

LEMMA KeyTypes ==
    ASSUME ControlInv, NEW k \in Key
    PROVE  /\ ctx[k] \in Context /\ stf[k] \in Session /\ wire[k] \in Seq(Patch)
           /\ answers[k] \in Seq({"OK", "ERROR"}) /\ notifs[k] \in Seq(Report)
  BY DEF ControlInv, TypeOK, Session, Report

LEMMA LoopTypes ==
    ASSUME ControlInv
    PROVE  /\ Len(Phases) \in Nat /\ phase \in 1..Len(Phases) /\ timer \in 0..Len(Phases)
           /\ periods \in BOOLEAN /\ local \in Seq(Event)
           /\ ctx \in [Key -> Context]
           /\ stf \in [Key -> Session] /\ wire \in [Key -> Seq(Patch)]
           /\ answers \in [Key -> Seq({"OK", "ERROR"})] /\ notifs \in [Key -> Seq(Report)]
  BY ControlAssumption DEF ControlInv, TypeOK, Session, Report

\* A session that a step leaves alone.
LEMMA KeyFrame ==
    ASSUME NEW j \in Key, KeyInv(j), Meant(ctx[j])' = Meant(ctx[j]),
           ctx'[j] = ctx[j], stf'[j] = stf[j], wire'[j] = wire[j],
           answers'[j] = answers[j], notifs'[j] = notifs[j],
           Queued("PATCH_BUILD", j)' <=> Queued("PATCH_BUILD", j),
           Queued("PATCH_ROLLBACK", j)' <=> Queued("PATCH_ROLLBACK", j),
           stf[j].fault = "failed" /\ notifs[j] # << >> => Still'
    PROVE  KeyInv(j)'
  BY DEF KeyInv, KeyOK, Cared, Working, ToBuild

\* Nothing is queued for a session when all is still.
LEMMA StillQueue == Still => local = << >> /\ \A e, k : ~Queued(e, k)
  BY DEF Still, Queued

\* A report of the MBSTF arrives.
LEMMA NotifyCalm ==
    ASSUME ControlInv, CalmInv, NEW k \in Key, HandleNotify(k)
    PROVE  CalmInv'
  <1>1. /\ ctx[k] \in Context /\ notifs[k] \in Seq(Report) /\ local \in Seq(Event)
        /\ ctx \in [Key -> Context] /\ notifs \in [Key -> Seq(Report)]
    BY KeyTypes, LoopTypes
  <1> DEFINE d == [ctx[k] EXCEPT !.reported = Head(notifs[k])]
             b == Queued("PATCH_BUILD", k)
             r == Queued("PATCH_ROLLBACK", k)
             m == Meant(ctx[k])
  <1>2. KeyInv(k) /\ notifs[k] # << >> /\ Head(notifs[k]) # "FAILURE"
    BY DEF CalmInv, HandleNotify
  <1>3. stf[k].fault = "failed" => wire[k] = << >> /\ ~b
    BY <1>2, StillQueue DEF KeyInv, Still
  <1>4. /\ d.reported = Head(notifs[k]) /\ d.content = ctx[k].content
        /\ d.needsUpdate = ctx[k].needsUpdate /\ d.info = ctx[k].info
        /\ d.requested = ctx[k].requested /\ (ActivityOK(ctx[k]) => ActivityOK(d))
        /\ d.stateUpdate = ctx[k].stateUpdate
    BY <1>1 DEF Context, ActivityOK, SendActivityStatus
  <1>5. KeyOK(m, ctx[k], stf[k], wire[k], answers[k], notifs[k], b, r)
    BY <1>2 DEF KeyInv
  <1> HIDE DEF d, b, r, m
  <1>6. /\ ~Continues(ctx[k], Head(notifs[k]))
        /\ KeyOK(m, d, stf[k], wire[k], answers[k], Tail(notifs[k]), b, r)
        /\ stf[k].fault = "failed" => Tail(notifs[k]) = << >>
    <2> DEFINE c == ctx[k]
               s == stf[k]
               w == wire[k]
               a == answers[k]
               n == notifs[k]
    <2>1. /\ n \in Seq(Report) /\ n # << >> /\ Head(n) # "FAILURE"
          /\ KeyOK(m, c, s, w, a, n, b, r)
      BY <1>1, <1>2, <1>5
    <2>2. (s.fault = "failed" => w = << >>) /\ (s.fault = "failed" => ~b)
      BY <1>3
    <2>3. /\ d.reported = Head(n) /\ d.content = c.content
          /\ d.needsUpdate = c.needsUpdate /\ d.info = c.info
          /\ d.requested = c.requested /\ (ActivityOK(c) => ActivityOK(d))
          /\ d.stateUpdate = c.stateUpdate
      BY <1>4
    <2> HIDE DEF c, s, w, a, n
    <2>4. /\ ~Continues(c, Head(n)) /\ KeyOK(m, d, s, w, a, Tail(n), b, r)
          /\ s.fault = "failed" => Tail(n) = << >>
      BY <2>1, <2>2, <2>3, NotifiedOK
    <2>5. QED BY <2>4 DEF c, s, w, a, n
  <1>7. ctx' = [ctx EXCEPT ![k] = d]
    <2>1. ctx' = [ctx EXCEPT ![k].reported = Head(notifs[k]),
                             ![k].stateUpdate = ctx[k].stateUpdate \/ FALSE]
      BY <1>6 DEF HandleNotify
    <2>2. [[ctx[k] EXCEPT !.reported = Head(notifs[k])] EXCEPT !.stateUpdate = ctx[k].stateUpdate \/ FALSE]
          = d
      BY <1>1 DEF Context, d
    <2>3. QED BY <1>1, <2>1, <2>2
  <1>8. local' = local
    <2>1. local' = local \o LocalEvents("PATCH_BUILD", {})
      BY <1>6 DEF HandleNotify
    <2>2. LocalEvents("PATCH_BUILD", {}) = << >>
      BY NoLocalEvents
    <2>3. QED BY <1>1, <2>1, <2>2
  <1>9. /\ notifs' = [notifs EXCEPT ![k] = Tail(notifs[k])]
        /\ UNCHANGED <<phase, periods, timer, wire, answers, stf>>
    BY DEF HandleNotify
  <1>10. /\ Still' = Still /\ TimerDue' = TimerDue
         /\ \A e, j : Queued(e, j)' = Queued(e, j)
    BY <1>8, <1>9 DEF Still, TimerDue, Queued
  <1>11. ~TimerDue
    BY <1>2 DEF CalmInv
  <1>12. \A j \in Key : ctx'[j].info = ctx[j].info /\ Meant(ctx[j])' = Meant(ctx[j])
    <2>1. \A j \in Key : ctx'[j].info = ctx[j].info
      BY <1>1, <1>4, <1>7
    <2>2. Looked' = Looked
      BY <1>9 DEF Looked, TimerDue
    <2>3. QED BY <1>9, <2>1, <2>2 DEF Meant
  <1>13. ASSUME NEW j \in Key PROVE KeyInv(j)'
    <2>1. KeyInv(j)
      BY DEF CalmInv
    <2>2. CASE j = k
      <3>1. ctx'[k] = d /\ notifs'[k] = Tail(notifs[k])
        BY <1>1, <1>7, <1>9
      <3>2. QED BY <1>6, <1>9, <1>10, <1>12, <2>2, <3>1 DEF KeyInv, b, r, m
    <2>3. CASE j # k
      <3>1. ctx'[j] = ctx[j] /\ notifs'[j] = notifs[j]
        BY <1>1, <1>7, <1>9, <2>3
      <3>2. stf[j].fault = "failed" /\ notifs[j] # << >> => Still'
        BY <1>10, <2>1 DEF KeyInv
      <3>3. QED BY <1>9, <1>10, <1>12, <2>1, <3>1, <3>2, KeyFrame
    <2>4. QED BY <2>2, <2>3
  <1>14. OnTarget => OnTarget'
    BY <1>12 DEF OnTarget
  <1>15. QED BY <1>9, <1>10, <1>11, <1>13, <1>14 DEF CalmInv

\* A report that the MBSTF's session failed arrives.
LEMMA FailureCalm ==
    ASSUME ControlInv, CalmInv, NEW k \in Key, HandleFailure(k)
    PROVE  CalmInv'
  <1>1. /\ ctx[k] \in Context /\ notifs[k] \in Seq(Report)
        /\ ctx \in [Key -> Context] /\ notifs \in [Key -> Seq(Report)]
    BY KeyTypes, LoopTypes
  <1> DEFINE d == [ctx[k] EXCEPT !.info = "INACTIVE"]
             b == Queued("PATCH_BUILD", k)
             r == Queued("PATCH_ROLLBACK", k)
             m == Meant(ctx[k])
  <1>2. KeyInv(k) /\ notifs[k] # << >> /\ Head(notifs[k]) = "FAILURE"
    BY DEF CalmInv, HandleFailure
  <1>3. KeyOK(m, ctx[k], stf[k], wire[k], answers[k], notifs[k], b, r)
    BY <1>2 DEF KeyInv
  <1>4. stf[k].fault = "failed"
    <2>1. \E i \in DOMAIN notifs[k] : notifs[k][i] = Head(notifs[k])
      BY <1>1, <1>2, TailParts
    <2>2. QED BY <1>2, <1>3, <2>1 DEF KeyOK, Sound, NotifsMeant
  <1>5. Still /\ wire[k] = << >> /\ ~b
    BY <1>2, <1>4, StillQueue DEF KeyInv, Still
  <1>6. /\ d.reported = ctx[k].reported /\ d.content = ctx[k].content
        /\ d.needsUpdate = ctx[k].needsUpdate /\ d.info = "INACTIVE"
        /\ d.requested = ctx[k].requested /\ d.stateUpdate = ctx[k].stateUpdate
    BY <1>1 DEF Context
  <1>7. /\ ctx' = [ctx EXCEPT ![k] = d] /\ notifs' = [notifs EXCEPT ![k] = Tail(notifs[k])]
        /\ UNCHANGED <<phase, periods, timer, local, wire, answers, stf>>
    BY <1>1 DEF HandleFailure
  <1> HIDE DEF d, b, r
  <1>8. /\ Still' /\ TimerDue' = TimerDue /\ Looked' = Looked
        /\ \A e, j : ~Queued(e, j) /\ ~Queued(e, j)'
    BY <1>5, <1>7 DEF Still, TimerDue, Queued, Looked
  <1>9. ~TimerDue
    BY <1>2 DEF CalmInv
  <1>10. ASSUME NEW j \in Key PROVE KeyInv(j)'
    <2>1. KeyInv(j)
      BY DEF CalmInv
    <2>2. CASE j = k
      <3>1. ctx'[k] = d /\ notifs'[k] = Tail(notifs[k])
        BY <1>1, <1>7
      <3>2. Meant(ctx[k])' \in {m, "INACTIVE"}
        BY <1>6, <1>7, <1>8, <3>1 DEF Meant
      <3> DEFINE m2 == Meant(ctx[k])'
      <3> HIDE DEF m2, m
      <3>3. KeyOK(m2, d, stf[k], wire[k], answers[k], Tail(notifs[k]), b, r)
        BY <1>1, <1>2, <1>3, <1>5, <1>6, <3>2, FailureOK DEF m2
      <3>4. b <=> Queued("PATCH_BUILD", k)'
        BY <1>8 DEF b
      <3>5. r <=> Queued("PATCH_ROLLBACK", k)'
        BY <1>8 DEF r
      <3>6. KeyOK(m2, d, stf[k], wire[k], answers[k], Tail(notifs[k]),
                  Queued("PATCH_BUILD", k)', Queued("PATCH_ROLLBACK", k)')
        BY <3>3, <3>4, <3>5 DEF KeyOK, Cared, Working, ToBuild
      <3>7. QED BY <1>7, <1>8, <2>2, <3>1, <3>6 DEF KeyInv, m2
    <2>3. CASE j # k
      <3>1. ctx'[j] = ctx[j] /\ notifs'[j] = notifs[j]
        BY <1>1, <1>7, <2>3
      <3>2. Meant(ctx[j])' = Meant(ctx[j])
        BY <1>7, <1>8, <3>1 DEF Meant
      <3>3. QED BY <1>7, <1>8, <2>1, <3>1, <3>2, KeyFrame
    <2>4. QED BY <2>2, <2>3
  <1>11. QED BY <1>7, <1>8, <1>9, <1>10 DEF CalmInv

\* A session that is right fails.
LEMMA FailsOK ==
    ASSUME NEW m, NEW c, NEW s, NEW b, NEW r,
           KeyOK(m, c, s, << >>, << >>, << >>, b, r), ~b, ~r, s.state # "INACTIVE",
           NEW t, t.state = "INACTIVE", t.fault = "failed", t.content = s.content
    PROVE  KeyOK(m, c, t, << >>, << >>, <<"FAILURE", "INACTIVE">>, b, r)
  <1>1. Sound(m, c, s, << >>, << >>, << >>) /\ Cared(m, c, s, << >>, << >>, << >>, b, r)
    BY DEF KeyOK
  <1>2. s.fault # "failed"
    BY <1>1 DEF Sound, NotifsMeant
  <1>3. ~Working(c, << >>, << >>, b, r) /\ ~ToBuild(c, << >>, << >>, b)
    BY DEF Working, Refused, ToBuild
  <1>4. /\ s.content = c.content /\ s.state = m /\ c.info = m /\ c.requested = m
    BY <1>1, <1>2, <1>3 DEF Cared, Down
  <1> DEFINE n == <<"FAILURE", "INACTIVE">>
  <1>5. n # << >> /\ Last(n) = "INACTIVE"
    BY DEF Last
  <1> HIDE DEF n
  <1>6. ReportsOf(c, t, n) /\ NotifsMeant(m, t, n)
    BY <1>5 DEF ReportsOf, NotifsMeant, n
  <1>7. NoDetour(m, c, t)
    BY <1>1, <1>4 DEF Sound, NoDetour
  <1>8. WireMeant(m, c, t, << >>)
    BY DEF WireMeant
  <1>9. Sound(m, c, t, << >>, << >>, n)
    BY <1>1, <1>4, <1>6, <1>7, <1>8 DEF Sound, Accepted
  <1>10. Cared(m, c, t, << >>, << >>, n, b, r)
    BY <1>4 DEF Cared, Down, n
  <1>11. QED BY <1>9, <1>10 DEF KeyOK, n

\* A step of the MBSTF or the network, for one session.
LEMMA OutsideCalm ==
    ASSUME ControlInv, CalmInv, NEW k \in Key, ~TimerDue,
           UNCHANGED <<phase, periods, timer, ctx, local>>,
           \A j \in Key \ {k} : /\ stf'[j] = stf[j] /\ wire'[j] = wire[j]
                                /\ answers'[j] = answers[j] /\ notifs'[j] = notifs[j],
           KeyOK(Meant(ctx[k]), ctx[k], stf'[k], wire'[k], answers'[k], notifs'[k],
                 Queued("PATCH_BUILD", k), Queued("PATCH_ROLLBACK", k)),
           \A j \in Key : stf'[j].fault = "failed" /\ notifs'[j] # << >> => Still'
    PROVE  CalmInv'
  <1>1. /\ \A j \in Key : ctx'[j] = ctx[j] /\ Meant(ctx[j])' = Meant(ctx[j])
        /\ \A e, j : Queued(e, j)' = Queued(e, j)
        /\ ~TimerDue' /\ Looked' = Looked
    BY DEF Meant, Looked, TimerDue, Queued
  <1>2. ASSUME NEW j \in Key PROVE KeyInv(j)'
    <2>1. CASE j = k
      BY <1>1, <2>1 DEF KeyInv
    <2>2. CASE j # k
      BY <1>1, <2>2, KeyFrame DEF CalmInv
    <2>3. QED BY <2>1, <2>2
  <1>3. OnTarget' = OnTarget
    BY <1>1 DEF OnTarget
  <1>4. QED BY <1>1, <1>2, <1>3 DEF CalmInv

\* While PATCHes or answers are under way no phase and no failure is.
LEMMA NotStill ==
    ASSUME CalmInv, ~Still
    PROVE  ~TimerDue /\ \A j \in Key : stf[j].fault = "failed" => notifs[j] = << >>
  BY DEF CalmInv, KeyInv

LEMMA MeantType ==
    ASSUME ControlInv, CalmInv, NEW k \in Key
    PROVE  Meant(ctx[k]) \in DistSessionState
  <1>1. Looked \in 1..Len(Phases)
    BY LoopTypes DEF CalmInv, Looked, TimerDue
  <1>2. Phases \in Seq(DistSessionState)
    BY ControlAssumption
  <1>3. Phases[Looked] \in DistSessionState
    BY <1>1, <1>2
  <1>4. ctx[k].info \in DistSessionState
    BY KeyTypes DEF Context
  <1>5. QED BY <1>3, <1>4 DEF Meant

\* The MBSTF does a PATCH.
LEMMA DoneCalm ==
    ASSUME ControlInv, CalmInv, NEW k \in Key, StfPatches(k)
    PROVE  CalmInv'
  <1>1. /\ ctx[k] \in Context /\ stf[k] \in Session /\ wire[k] \in Seq(Patch)
        /\ answers[k] \in Seq({"OK", "ERROR"}) /\ notifs[k] \in Seq(Report)
        /\ stf \in [Key -> Session] /\ wire \in [Key -> Seq(Patch)]
        /\ answers \in [Key -> Seq({"OK", "ERROR"})] /\ notifs \in [Key -> Seq(Report)]
    BY KeyTypes, LoopTypes
  <1>2. wire[k] # << >> /\ ~Still
    BY DEF StfPatches, Still
  <1>3. ~TimerDue /\ \A j \in Key : stf[j].fault = "failed" => notifs[j] = << >>
    BY <1>2, NotStill
  <1> DEFINE m == Meant(ctx[k])
             c == ctx[k]
             s == stf[k]
             w == wire[k]
             a == answers[k]
             n == notifs[k]
             b == Queued("PATCH_BUILD", k)
             r == Queued("PATCH_ROLLBACK", k)
             t == [state |-> Head(w).state, fault |-> "none",
                   content |-> IF Head(w).content = NoContent THEN s.content
                                                              ELSE Head(w).content]
  <1>4. PICK new \in Reports(s.state, Head(w).state) :
            notifs' = [notifs EXCEPT ![k] = n \o new]
    BY DEF StfPatches
  <1>5. /\ stf' = [stf EXCEPT ![k] = t]
        /\ answers' = [answers EXCEPT ![k] = Append(a, "OK")]
        /\ wire' = [wire EXCEPT ![k] = Tail(w)]
        /\ UNCHANGED <<phase, periods, timer, ctx, local>>
        /\ ~(s.state = "ACTIVE" /\ Head(w).state = "ESTABLISHED")
    BY <1>1 DEF StfPatches, Session
  <1>6. KeyOK(m, c, s, w, a, n, b, r)
    BY DEF CalmInv, KeyInv
  <1>7. Head(w) \in Patch
    BY <1>1, <1>2
  <1>8. /\ t \in Session /\ t.state = Head(w).state /\ t.fault = "none"
        /\ t.content = IF Head(w).content = NoContent THEN s.content ELSE Head(w).content
    BY <1>1, <1>7 DEF Session, Patch, Fault
  <1>9. s.fault = "failed" => n = << >>
    BY <1>3
  <1>10. m \in DistSessionState
    BY MeantType
  <1>11. KeyOK(m, c, t, Tail(w), Append(a, "OK"), n \o new, b, r)
    <2> HIDE DEF m, c, s, w, a, n, b, r, t
    <2>1. /\ c \in Context /\ s \in Session /\ w \in Seq(Patch) /\ a \in Seq({"OK", "ERROR"})
          /\ n \in Seq(Report) /\ w # << >>
      BY <1>1, <1>2 DEF c, s, w, a, n
    <2>2. QED BY <1>4, <1>5, <1>6, <1>8, <1>9, <1>10, <2>1, DoneOK
  <1>12. stf'[k] = t /\ wire'[k] = Tail(w) /\ answers'[k] = Append(a, "OK")
         /\ notifs'[k] = n \o new
    BY <1>1, <1>4, <1>5
  <1>13. \A j \in Key \ {k} : /\ stf'[j] = stf[j] /\ wire'[j] = wire[j]
                              /\ answers'[j] = answers[j] /\ notifs'[j] = notifs[j]
    BY <1>1, <1>4, <1>5
  <1>14. \A j \in Key : stf'[j].fault = "failed" => notifs'[j] = << >>
    <2>1. t.fault # "failed"
      BY <1>8
    <2> HIDE DEF t
    <2>2. QED BY <1>3, <1>12, <1>13, <2>1
  <1>15. KeyOK(Meant(ctx[k]), ctx[k], stf'[k], wire'[k], answers'[k], notifs'[k],
               Queued("PATCH_BUILD", k), Queued("PATCH_ROLLBACK", k))
    BY <1>11, <1>12
  <1> HIDE DEF m, c, s, w, a, n, b, r, t
  <1>16. QED BY <1>3, <1>5, <1>13, <1>14, <1>15, OutsideCalm

\* The MBSTF refuses a PATCH.
LEMMA RefusesCalm ==
    ASSUME ControlInv, CalmInv, NEW k \in Key, StfRefuses(k)
    PROVE  CalmInv'
  <1>1. /\ ctx[k] \in Context /\ stf[k] \in Session /\ wire[k] \in Seq(Patch)
        /\ answers[k] \in Seq({"OK", "ERROR"}) /\ notifs[k] \in Seq(Report)
        /\ stf \in [Key -> Session] /\ wire \in [Key -> Seq(Patch)]
        /\ answers \in [Key -> Seq({"OK", "ERROR"})] /\ notifs \in [Key -> Seq(Report)]
    BY KeyTypes, LoopTypes
  <1>2. wire[k] # << >> /\ ~Still
    BY DEF StfRefuses, Still
  <1>3. ~TimerDue /\ \A j \in Key : stf[j].fault = "failed" => notifs[j] = << >>
    BY <1>2, NotStill
  <1>4. PICK f \in {"forbidden", "refused"} : stf' = [stf EXCEPT ![k].fault = f]
    BY DEF StfRefuses
  <1> DEFINE m == Meant(ctx[k])
             c == ctx[k]
             s == stf[k]
             w == wire[k]
             a == answers[k]
             n == notifs[k]
             b == Queued("PATCH_BUILD", k)
             r == Queued("PATCH_ROLLBACK", k)
             t == [stf[k] EXCEPT !.fault = f]
  <1>5. /\ stf' = [stf EXCEPT ![k] = t]
        /\ answers' = [answers EXCEPT ![k] = Append(a, "ERROR")]
        /\ wire' = [wire EXCEPT ![k] = Tail(w)]
        /\ UNCHANGED <<phase, periods, timer, ctx, local, notifs>>
    BY <1>4 DEF StfRefuses
  <1>6. KeyOK(m, c, s, w, a, n, b, r)
    BY DEF CalmInv, KeyInv
  <1>7. t.state = s.state /\ t.content = s.content /\ t.fault \in {"forbidden", "refused"}
    BY <1>1 DEF Session
  <1>8. s.fault = "failed" => n = << >>
    BY <1>3
  <1>9. KeyOK(m, c, t, Tail(w), Append(a, "ERROR"), n, b, r)
    <2> HIDE DEF m, c, s, w, a, n, b, r, t
    <2>1. w \in Seq(Patch) /\ a \in Seq({"OK", "ERROR"}) /\ w # << >>
      BY <1>1, <1>2 DEF w, a
    <2>2. QED BY <1>6, <1>7, <1>8, <2>1, RefusesOK
  <1>10. stf'[k] = t /\ wire'[k] = Tail(w) /\ answers'[k] = Append(a, "ERROR")
         /\ notifs'[k] = n
    BY <1>1, <1>5
  <1>11. \A j \in Key \ {k} : /\ stf'[j] = stf[j] /\ wire'[j] = wire[j]
                              /\ answers'[j] = answers[j] /\ notifs'[j] = notifs[j]
    BY <1>1, <1>5
  <1>12. \A j \in Key : stf'[j].fault = "failed" => notifs'[j] = << >>
    <2>1. t.fault # "failed"
      BY <1>7
    <2> HIDE DEF t
    <2>2. QED BY <1>3, <1>10, <1>11, <2>1
  <1>13. KeyOK(Meant(ctx[k]), ctx[k], stf'[k], wire'[k], answers'[k], notifs'[k],
               Queued("PATCH_BUILD", k), Queued("PATCH_ROLLBACK", k))
    BY <1>9, <1>10
  <1> HIDE DEF m, c, s, w, a, n, b, r, t
  <1>14. QED BY <1>3, <1>5, <1>11, <1>12, <1>13, OutsideCalm

\* An answer is lost that is no refusal.
LEMMA LostCalm ==
    ASSUME ControlInv, CalmInv, NEW k \in Key, AnswerLost(k), lapses' = {}
    PROVE  CalmInv'
  <1>1. /\ answers[k] \in Seq({"OK", "ERROR"}) /\ answers \in [Key -> Seq({"OK", "ERROR"})]
    BY KeyTypes, LoopTypes
  <1>2. answers[k] # << >> /\ ~Still
    BY DEF AnswerLost, Still
  <1>3. ~TimerDue /\ \A j \in Key : stf[j].fault = "failed" => notifs[j] = << >>
    BY <1>2, NotStill
  <1>4. Head(answers[k]) # "ERROR"
    BY DEF AnswerLost, Lapsed
  <1>5. /\ answers' = [answers EXCEPT ![k] = Tail(answers[k])]
        /\ UNCHANGED <<phase, periods, timer, ctx, local, wire, notifs, stf>>
    BY DEF AnswerLost
  <1> DEFINE m == Meant(ctx[k])
             c == ctx[k]
             s == stf[k]
             w == wire[k]
             a == answers[k]
             n == notifs[k]
             b == Queued("PATCH_BUILD", k)
             r == Queued("PATCH_ROLLBACK", k)
  <1>6. KeyOK(m, c, s, w, a, n, b, r)
    BY DEF CalmInv, KeyInv
  <1>7. KeyOK(m, c, s, w, Tail(a), n, b, r)
    <2> HIDE DEF m, c, s, w, a, n, b, r
    <2>1. a \in Seq({"OK", "ERROR"}) /\ a # << >> /\ Head(a) # "ERROR"
      BY <1>1, <1>2, <1>4 DEF a
    <2>2. QED BY <1>6, <2>1, LostOK
  <1>8. answers'[k] = Tail(a) /\ \A j \in Key \ {k} : answers'[j] = answers[j]
    BY <1>1, <1>5
  <1>9. KeyOK(Meant(ctx[k]), ctx[k], stf'[k], wire'[k], answers'[k], notifs'[k],
              Queued("PATCH_BUILD", k), Queued("PATCH_ROLLBACK", k))
    BY <1>5, <1>7, <1>8
  <1> HIDE DEF m, c, s, w, a, n, b, r
  <1>10. QED BY <1>3, <1>5, <1>8, <1>9, OutsideCalm

\* When all is quiet only a session that was made INACTIVE has nothing coming.
LEMMA QuietIs ==
    ASSUME ControlInv, Quiet
    PROVE  /\ Still /\ ~TimerDue
           /\ \A k \in Key : wire[k] = << >> /\ answers[k] = << >> /\ notifs[k] = << >>
           /\ \A e, k : ~Queued(e, k)
  <1>1. ASSUME NEW k \in Key PROVE wire[k] = << >> /\ answers[k] = << >> /\ notifs[k] = << >>
    BY DEF Quiet
  <1>2. QED BY <1>1 DEF Quiet, Still, Queued

\* A session fails when all is quiet.
LEMMA FailsCalm ==
    ASSUME ControlInv, CalmInv, NEW k \in Key, StfFails(k), lapses' = {}
    PROVE  CalmInv'
  <1>1. stf[k] \in Session /\ stf \in [Key -> Session] /\ notifs \in [Key -> Seq(Report)]
    BY KeyTypes, LoopTypes
  <1>2. Quiet
    BY DEF StfFails, Lapsed, Overlap
  <1>3. /\ Still /\ ~TimerDue
        /\ \A j \in Key : wire[j] = << >> /\ answers[j] = << >> /\ notifs[j] = << >>
        /\ \A e, j : ~Queued(e, j)
    BY <1>2, QuietIs
  <1> DEFINE m == Meant(ctx[k])
             c == ctx[k]
             s == stf[k]
             b == Queued("PATCH_BUILD", k)
             r == Queued("PATCH_ROLLBACK", k)
             t == [stf[k] EXCEPT !.state = "INACTIVE", !.fault = "failed"]
  <1>4. KeyOK(m, c, s, << >>, << >>, << >>, b, r)
    BY <1>3 DEF CalmInv, KeyInv
  <1>5. /\ s.state # "INACTIVE" /\ t.state = "INACTIVE" /\ t.fault = "failed"
        /\ t.content = s.content
    BY <1>1 DEF StfFails, Session
  <1>6. /\ stf' = [stf EXCEPT ![k] = t]
        /\ notifs' = [notifs EXCEPT ![k] = notifs[k] \o <<"FAILURE", "INACTIVE">>]
        /\ UNCHANGED <<phase, periods, timer, ctx, local, wire, answers>>
    BY <1>1 DEF StfFails
  <1>7. KeyOK(m, c, t, << >>, << >>, <<"FAILURE", "INACTIVE">>, b, r)
    <2>1. ~b /\ ~r
      BY <1>3
    <2> HIDE DEF m, c, s, b, r, t
    <2>2. QED BY <1>4, <1>5, <2>1, FailsOK
  <1>8. << >> \o <<"FAILURE", "INACTIVE">> = <<"FAILURE", "INACTIVE">>
    OBVIOUS
  <1>9. /\ stf'[k] = t /\ notifs'[k] = <<"FAILURE", "INACTIVE">>
        /\ wire'[k] = << >> /\ answers'[k] = << >>
        /\ \A j \in Key \ {k} : stf'[j] = stf[j] /\ notifs'[j] = notifs[j]
    <2>1. notifs'[k] = notifs[k] \o <<"FAILURE", "INACTIVE">>
      BY <1>1, <1>6
    <2>2. notifs[k] = << >>
      BY <1>3
    <2>3. notifs'[k] = <<"FAILURE", "INACTIVE">>
      BY <1>8, <2>1, <2>2
    <2>4. QED BY <1>1, <1>3, <1>6, <2>3
  <1>10. KeyOK(Meant(ctx[k]), ctx[k], stf'[k], wire'[k], answers'[k], notifs'[k],
               Queued("PATCH_BUILD", k), Queued("PATCH_ROLLBACK", k))
    BY <1>7, <1>9
  <1>11. Still'
    BY <1>3, <1>6 DEF Still
  <1> HIDE DEF m, c, s, b, r, t
  <1>12. QED BY <1>3, <1>6, <1>9, <1>10, <1>11, OutsideCalm

\* Looking again does not change the info that no schedule rules.
LEMMA LookedInfo ==
    ASSUME NEW c \in Context, phase \in 1..Len(Phases), periods \in BOOLEAN
    PROVE  /\ ChangeState(c).ctx.info \in {c.info, Want(c)}
           /\ ~periods => ChangeState(c).ctx.info = c.info
           /\ c.stateUpdate => ChangeState(c).ctx.stateUpdate
  <1> DEFINE d == Changed(c)
             e == [d EXCEPT !.requested = PatchState(d)]
  <1>1. d \in Context /\ d.info = Want(c) /\ d.stateUpdate
    BY ChangedIs
  <1>2. ChangeState(c).ctx = IF Want(c) = c.requested THEN c
                             ELSE IF c.needsUpdate \/ Want(c) # c.reported THEN e ELSE d
    BY DEF ChangeState, Changed, Effect, SendPatch
  <1> HIDE DEF d
  <1>3. e.info = d.info /\ e.stateUpdate = d.stateUpdate
    BY <1>1 DEF Context
  <1> HIDE DEF e
  <1>4. ChangeState(c).ctx \in {c, d, e}
    BY <1>2
  <1>5. ~periods => Want(c) = c.info
    BY DEF Want
  <1>6. QED
    <2>1. CASE ChangeState(c).ctx = c
      BY <2>1
    <2>2. CASE ChangeState(c).ctx = d
      BY <1>1, <1>5, <2>2
    <2>3. CASE ChangeState(c).ctx = e
      BY <1>1, <1>3, <1>5, <2>3
    <2>4. QED BY <1>4, <2>1, <2>2, <2>3

\* More in the queue does no harm.
LEMMA MoreQueued ==
    ASSUME NEW m, NEW c, NEW s, NEW w, NEW a, NEW n, NEW b, NEW r, NEW r2,
           KeyOK(m, c, s, w, a, n, b, r), r => r2
    PROVE  KeyOK(m, c, s, w, a, n, b, r2)
  BY DEF KeyOK, Cared, Working, ToBuild

\* All are looked at again after an answer, which left the contexts cs.
LEMMA LookAgainCalm ==
    ASSUME ControlInv, CalmInv, ~Still,
           NEW cs \in [Key -> Context], \A j \in Key : cs[j].info = ctx[j].info,
           Apply(InDesiredState(cs)), UNCHANGED <<phase, periods, notifs, stf>>,
           timer' = timer \/ StartTimer(periods),
           \A j \in Key : Queued("PATCH_BUILD", j)' <=> Queued("PATCH_BUILD", j),
           \A j \in Key : KeyOK(Meant(ctx[j]), cs[j], stf[j], wire[j], answers'[j], notifs[j],
                                Queued("PATCH_BUILD", j), Queued("PATCH_ROLLBACK", j)')
    PROVE  CalmInv'
  <1>1. ~TimerDue /\ \A j \in Key : stf[j].fault = "failed" => notifs[j] = << >>
    BY NotStill
  <1>2. /\ Len(Phases) \in Nat /\ phase \in 1..Len(Phases) /\ timer \in 0..Len(Phases)
        /\ periods \in BOOLEAN /\ \A j \in Key : cs[j] \in Context /\ wire[j] \in Seq(Patch)
    BY LoopTypes, KeyTypes
  <1>3. /\ timer' # 1 /\ timer' <= phase' + 1 /\ (timer' # 0 => periods') /\ ~TimerDue'
    <2>1. CASE timer' = timer
      BY <1>1, <2>1 DEF CalmInv, TimerDue
    <2>2. CASE timer' = IF periods /\ phase < Len(Phases) THEN phase + 1 ELSE 0
      BY <1>2, <2>2 DEF TimerDue
    <2>3. QED BY <2>1, <2>2 DEF StartTimer
  <1>4. Looked = phase /\ Looked' = phase
    BY <1>1, <1>3 DEF Looked
  <1>5. \A j \in Key : Meant(ctx[j]) = Want(cs[j])
    BY <1>4 DEF Meant, Want
  <1>6. \A j \in Key : /\ ctx'[j] = InDesiredState(cs)[j].ctx
                       /\ wire'[j] = wire[j] \o InDesiredState(cs)[j].out
    BY DEF Apply
  <1>7. (\E j \in Key : Queued("PATCH_BUILD", j)) => ~OffTarget(cs)
    BY <1>5 DEF CalmInv, OnTarget, OffTarget
  <1>8. ASSUME NEW j \in Key
        PROVE  /\ KeyOK(Want(cs[j]), ctx'[j], stf[j], wire'[j], answers'[j], notifs[j],
                        Queued("PATCH_BUILD", j), Queued("PATCH_ROLLBACK", j)')
               /\ ~periods => ctx'[j].info = cs[j].info
               /\ ~OffTarget(cs) => ctx'[j] = cs[j]
    <2> DEFINE c == cs[j]
               s == stf[j]
               w == wire[j]
               a == answers'[j]
               n == notifs[j]
               b == Queued("PATCH_BUILD", j)
               r == Queued("PATCH_ROLLBACK", j)'
               e == ChangeState(cs[j])
    <2>1. KeyOK(Want(c), c, s, w, a, n, b, r)
      BY <1>5
    <2>2. CASE OffTarget(cs)
      <3>1. ctx'[j] = e.ctx /\ wire'[j] = w \o e.out
        BY <1>6, <2>2 DEF InDesiredState
      <3>2. ~periods => e.ctx.info = c.info
        BY <1>2, LookedInfo
      <3>3. KeyOK(Want(c), e.ctx, s, w \o e.out, a, n, b, r)
        <4>1. ~b
          BY <1>7, <2>2
        <4>2. c \in Context /\ w \in Seq(Patch) /\ e = ChangeState(c)
          BY <1>2
        <4> HIDE DEF c, s, w, a, n, b, r, e
        <4>3. QED BY <1>2, <2>1, <4>1, <4>2, LookedAgain
      <3>4. QED BY <2>2, <3>1, <3>2, <3>3
    <2>3. CASE ~OffTarget(cs)
      <3>1. ctx'[j] = c /\ wire'[j] = w \o << >>
        BY <1>6, <2>3 DEF InDesiredState, Effect
      <3>2. w \o << >> = w
        BY <1>2
      <3>3. QED BY <2>1, <3>1, <3>2
    <2>4. QED BY <2>2, <2>3
  <1>9. \A j \in Key : Meant(ctx[j])' = Want(cs[j])
    <2>1. Phases' = Phases
      OBVIOUS
    <2>2. QED BY <1>4, <1>8 DEF Meant, Want
  <1>10. ASSUME NEW j \in Key PROVE KeyInv(j)'
    <2>1. KeyOK(Want(cs[j]), ctx'[j], stf'[j], wire'[j], answers'[j], notifs'[j],
                Queued("PATCH_BUILD", j)', Queued("PATCH_ROLLBACK", j)')
      <3>1. Queued("PATCH_BUILD", j)' <=> Queued("PATCH_BUILD", j)
        OBVIOUS
      <3>2. QED BY <1>8, <3>1 DEF KeyOK, Cared, Working, ToBuild
    <2>2. QED BY <1>1, <1>9, <2>1 DEF KeyInv
  <1>11. (\E j \in Key : Queued("PATCH_BUILD", j)') => OnTarget'
    <2> SUFFICES ASSUME \E j \in Key : Queued("PATCH_BUILD", j)', NEW j \in Key
                 PROVE  ctx'[j].info = Meant(ctx[j])'
      BY DEF OnTarget
    <2>1. ~OffTarget(cs)
      BY <1>7
    <2>2. ctx'[j] = cs[j] /\ cs[j].info = Want(cs[j])
      BY <1>8, <2>1 DEF OffTarget
    <2>3. QED BY <1>9, <2>2
  <1>12. QED BY <1>3, <1>10, <1>11 DEF CalmInv

\* An answer of success arrives.
LEMMA OkCalm ==
    ASSUME ControlInv, CalmInv, NEW k \in Key, HandlePatchOk(k)
    PROVE  CalmInv'
  <1>1. /\ ctx[k] \in Context /\ wire[k] \in Seq(Patch) /\ answers[k] \in Seq({"OK", "ERROR"})
        /\ ctx \in [Key -> Context] /\ answers \in [Key -> Seq({"OK", "ERROR"})]
    BY KeyTypes, LoopTypes
  <1> DEFINE m == Meant(ctx[k])
             c == ctx[k]
             s == stf[k]
             w == wire[k]
             a == answers[k]
             n == notifs[k]
             b == Queued("PATCH_BUILD", k)
             r == Queued("PATCH_ROLLBACK", k)
             d == [c EXCEPT !.receivedMBSTFPatchResponse = TRUE, !.needsUpdate = FALSE,
                            !.stateUpdate = FALSE]
             cs == [ctx EXCEPT ![k] = d]
  <1>2. a # << >> /\ Head(a) = "OK" /\ ~Still
    BY DEF HandlePatchOk, Still
  <1>3. KeyOK(m, c, s, w, a, n, b, r)
    BY DEF CalmInv, KeyInv
  <1>4. KeyOK(m, d, s, w, Tail(a), n, b, r)
    <2>1. c \in Context /\ w \in Seq(Patch) /\ a \in Seq({"OK", "ERROR"})
      BY <1>1
    <2> HIDE DEF m, c, s, w, a, n, b, r
    <2>2. QED BY <1>2, <1>3, <2>1, AcceptedOK
  <1>5. d \in Context /\ d.info = c.info
    BY <1>1 DEF Context
  <1>6. Apply(InDesiredState(cs))
    BY DEF HandlePatchOk
  <1>7. /\ StartTimer(periods) /\ answers' = [answers EXCEPT ![k] = Tail(a)]
        /\ UNCHANGED <<phase, periods, local, notifs, stf>>
    BY DEF HandlePatchOk
  <1>8. \A e, j : Queued(e, j)' = Queued(e, j)
    BY <1>7 DEF Queued
  <1> HIDE DEF d
  <1>9. cs \in [Key -> Context] /\ cs[k] = d /\ \A j \in Key \ {k} : cs[j] = ctx[j]
    BY <1>1, <1>5
  <1> HIDE DEF cs
  <1>10. ASSUME NEW j \in Key
         PROVE  /\ cs[j].info = ctx[j].info
                /\ KeyOK(Meant(ctx[j]), cs[j], stf[j], wire[j], answers'[j], notifs[j],
                         Queued("PATCH_BUILD", j), Queued("PATCH_ROLLBACK", j)')
    <2>1. CASE j = k
      <3>1. answers'[k] = Tail(a)
        BY <1>1, <1>7
      <3>2. Queued("PATCH_ROLLBACK", k)' <=> r
        BY <1>8
      <3>3. KeyOK(m, d, s, w, Tail(a), n, b, Queued("PATCH_ROLLBACK", k)')
        <4> HIDE DEF m, s, w, a, n, b, r
        <4>1. QED BY <1>4, <3>2, MoreQueued
      <3>4. QED BY <1>5, <1>9, <2>1, <3>1, <3>3
    <2>2. CASE j # k
      <3>1. answers'[j] = answers[j]
        BY <1>1, <1>7, <2>2
      <3>2. KeyOK(Meant(ctx[j]), ctx[j], stf[j], wire[j], answers[j], notifs[j],
                  Queued("PATCH_BUILD", j), Queued("PATCH_ROLLBACK", j))
        BY DEF CalmInv, KeyInv
      <3>3. Queued("PATCH_ROLLBACK", j)' <=> Queued("PATCH_ROLLBACK", j)
        BY <1>8
      <3>4. KeyOK(Meant(ctx[j]), ctx[j], stf[j], wire[j], answers[j], notifs[j],
                  Queued("PATCH_BUILD", j), Queued("PATCH_ROLLBACK", j)')
        BY <3>2, <3>3, MoreQueued
      <3>5. QED BY <1>9, <2>2, <3>1, <3>4
    <2>3. QED BY <2>1, <2>2
  <1>11. \A j \in Key : Queued("PATCH_BUILD", j)' <=> Queued("PATCH_BUILD", j)
    BY <1>8
  <1> HIDE DEF m, c, s, w, a, n, b, r
  <1>12. QED BY <1>2, <1>6, <1>7, <1>9, <1>10, <1>11, LookAgainCalm

\* A refusal arrives, after each key has had an answer, for a PATCH without a
\* new content.
LEMMA ErrorCalm ==
    ASSUME ControlInv, CalmInv, NEW k \in Key, HandlePatchError(k), lapses' = {}
    PROVE  CalmInv'
  <1>1. /\ ctx[k] \in Context /\ wire[k] \in Seq(Patch) /\ answers[k] \in Seq({"OK", "ERROR"})
        /\ ctx \in [Key -> Context] /\ answers \in [Key -> Seq({"OK", "ERROR"})]
        /\ local \in Seq(Event) /\ periods \in BOOLEAN /\ phase \in 1..Len(Phases)
    BY KeyTypes, LoopTypes
  <1> DEFINE m == Meant(ctx[k])
             c == ctx[k]
             s == stf[k]
             w == wire[k]
             a == answers[k]
             n == notifs[k]
             b == Queued("PATCH_BUILD", k)
             r == Queued("PATCH_ROLLBACK", k)
             d == [c EXCEPT !.receivedMBSTFPatchResponse = TRUE, !.needsUpdate = FALSE]
             cs == [ctx EXCEPT ![k] = d]
             all == \A j \in Key : cs[j].receivedMBSTFPatchResponse
             retry == InDesiredState(cs)[k].ctx.stateUpdate /\ all
  <1>2. a # << >> /\ Head(a) = "ERROR" /\ ~Still
    BY DEF HandlePatchError, Still
  <1>3. KeyOK(m, c, s, w, a, n, b, r)
    BY DEF CalmInv, KeyInv
  <1>4. /\ Apply(InDesiredState(cs)) /\ answers' = [answers EXCEPT ![k] = Tail(a)]
        /\ UNCHANGED <<phase, periods, notifs, stf>>
        /\ timer' = timer \/ StartTimer(periods)
    BY DEF HandlePatchError
  <1>5. local' = local \o (IF retry THEN LocalEvents("PATCH_ROLLBACK", Key) ELSE << >>)
    BY DEF HandlePatchError
  <1>6. ~c.needsUpdate /\ all
    <2>1. Lapsed((IF ctx[k].needsUpdate THEN {"update"} ELSE {})
                 \cup (IF all THEN {} ELSE {"early"}))
      BY DEF HandlePatchError
    <2> HIDE DEF all
    <2>2. QED BY <2>1 DEF Lapsed
  <1>7. d \in Context /\ d.info = c.info /\ d.stateUpdate = c.stateUpdate
    BY <1>1 DEF Context
  <1>8. c.stateUpdate => retry
    <2>1. cs[k] = d
      BY <1>1
    <2>2. InDesiredState(cs)[k] = IF OffTarget(cs) THEN ChangeState(cs[k]) ELSE Effect(cs[k], << >>)
      BY DEF InDesiredState
    <2>3. d.stateUpdate => ChangeState(d).ctx.stateUpdate
      BY <1>1, <1>7, LookedInfo
    <2>4. Effect(d, << >>).ctx = d
      BY DEF Effect
    <2> HIDE DEF d, cs, all
    <2>5. d.stateUpdate => InDesiredState(cs)[k].ctx.stateUpdate
      BY <2>1, <2>2, <2>3, <2>4
    <2>6. QED BY <1>6, <1>7, <2>5
  <1>9. cs \in [Key -> Context] /\ cs[k] = d /\ \A j \in Key \ {k} : cs[j] = ctx[j]
    BY <1>1, <1>7
  <1> HIDE DEF d, cs, retry
  <1>10. ASSUME NEW j \in Key
         PROVE  /\ Queued("PATCH_BUILD", j)' <=> Queued("PATCH_BUILD", j)
                /\ Queued("PATCH_ROLLBACK", j) => Queued("PATCH_ROLLBACK", j)'
                /\ retry => Queued("PATCH_ROLLBACK", j)'
    <2>1. CASE retry
      <3>1. local' = local \o LocalEvents("PATCH_ROLLBACK", Key)
        BY <1>5, <2>1
      <3>2. Queued("PATCH_BUILD", j)' <=> Queued("PATCH_BUILD", j)
                \/ ("PATCH_BUILD" = "PATCH_ROLLBACK" /\ j \in Key)
        BY <1>1, <3>1, QueueGrows
      <3>3. Queued("PATCH_ROLLBACK", j)' <=> Queued("PATCH_ROLLBACK", j)
                \/ ("PATCH_ROLLBACK" = "PATCH_ROLLBACK" /\ j \in Key)
        BY <1>1, <3>1, QueueGrows
      <3>4. QED BY <3>2, <3>3
    <2>2. CASE ~retry
      <3>1. local' = local
        BY <1>1, <1>5, <2>2
      <3>2. QED BY <2>2, <3>1 DEF Queued
    <2>3. QED BY <2>1, <2>2
  <1> HIDE DEF cs
  <1>11. ASSUME NEW j \in Key
         PROVE  /\ cs[j].info = ctx[j].info
                /\ KeyOK(Meant(ctx[j]), cs[j], stf[j], wire[j], answers'[j], notifs[j],
                         Queued("PATCH_BUILD", j), Queued("PATCH_ROLLBACK", j)')
    <2>1. CASE j = k
      <3>1. answers'[k] = Tail(a)
        BY <1>1, <1>4
      <3> DEFINE r2 == Queued("PATCH_ROLLBACK", k)'
      <3>2. c.stateUpdate => r2
        BY <1>8, <1>10
      <3>3. KeyOK(m, d, s, w, Tail(a), n, b, r2)
        <4>1. c \in Context /\ w \in Seq(Patch) /\ a \in Seq({"OK", "ERROR"})
          BY <1>1
        <4> HIDE DEF m, c, s, w, a, n, b, r, r2
        <4>2. QED BY <1>2, <1>3, <1>6, <3>2, <4>1, RefusedOK DEF d
      <3>4. QED BY <1>7, <1>9, <2>1, <3>1, <3>3
    <2>2. CASE j # k
      <3>1. answers'[j] = answers[j]
        BY <1>1, <1>4, <2>2
      <3>2. KeyOK(Meant(ctx[j]), ctx[j], stf[j], wire[j], answers[j], notifs[j],
                  Queued("PATCH_BUILD", j), Queued("PATCH_ROLLBACK", j))
        BY DEF CalmInv, KeyInv
      <3>3. Queued("PATCH_ROLLBACK", j) => Queued("PATCH_ROLLBACK", j)'
        BY <1>10
      <3>4. KeyOK(Meant(ctx[j]), ctx[j], stf[j], wire[j], answers[j], notifs[j],
                  Queued("PATCH_BUILD", j), Queued("PATCH_ROLLBACK", j)')
        BY <3>2, <3>3, MoreQueued
      <3>5. QED BY <1>9, <2>2, <3>1, <3>4
    <2>3. QED BY <2>1, <2>2
  <1>12. \A j \in Key : Queued("PATCH_BUILD", j)' <=> Queued("PATCH_BUILD", j)
    BY <1>10
  <1> HIDE DEF m, c, s, w, a, n, b, r, all
  <1>13. QED BY <1>2, <1>4, <1>9, <1>11, <1>12, LookAgainCalm

\* A PATCH_BUILD or PATCH_ROLLBACK event for k is handled.
LEMMA PatchCalm ==
    ASSUME ControlInv, CalmInv, local # << >>, local' = Tail(local),
           NEW k \in Key, k = Head(local).key,
           NEW d \in {ctx[k], SendActivityStatus(ctx[k])},
           ApplyTo(k, PatchIfNeeded(d)),
           UNCHANGED <<phase, periods, timer, answers, notifs, stf>>,
           PatchIfNeeded(d).out # << >> => d.info = Meant(ctx[k]) /\ ActivityOK(d)
    PROVE  CalmInv'
  <1>1. /\ ctx[k] \in Context /\ wire[k] \in Seq(Patch) /\ stf[k] \in Session
        /\ ctx \in [Key -> Context] /\ wire \in [Key -> Seq(Patch)]
        /\ local \in Seq(Event) /\ periods \in BOOLEAN /\ phase \in 1..Len(Phases)
    BY KeyTypes, LoopTypes
  <1>2. ~TimerDue /\ \A j \in Key : stf[j].fault = "failed" => notifs[j] = << >>
    BY NotStill DEF Still
  <1>3. ~TimerDue' /\ Looked' = phase /\ Looked = phase
    BY <1>2 DEF TimerDue, Looked
  <1>4. \A e, j : /\ Queued(e, j)' => Queued(e, j)
                  /\ j # k => (Queued(e, j)' <=> Queued(e, j))
    BY <1>1, QueueShrinks
  <1> DEFINE m == Meant(ctx[k])
             c == ctx[k]
             s == stf[k]
             w == wire[k]
             a == answers[k]
             n == notifs[k]
             b == Queued("PATCH_BUILD", k)
             r == Queued("PATCH_ROLLBACK", k)
             b2 == Queued("PATCH_BUILD", k)'
             r2 == Queued("PATCH_ROLLBACK", k)'
             e == PatchIfNeeded(d)
  <1>5. d \in Context /\ d.info = c.info
    BY <1>1 DEF SendActivityStatus, Context
  <1>6. Want(c) = m /\ Want(d) = m
    BY <1>3, <1>5 DEF Want, Meant
  <1>7. KeyOK(m, c, s, w, a, n, b, r)
    BY DEF CalmInv, KeyInv
  <1>8. KeyOK(m, e.ctx, s, w \o e.out, a, n, b2, r2)
    <2>1. c \in Context /\ d \in {c, SendActivityStatus(c)} /\ s \in Session /\ w \in Seq(Patch)
      BY <1>1
    <2>2. s.fault = "failed" => n = << >>
      BY <1>2
    <2>3. PatchIfNeeded(d).out # << >> => d.info = m /\ ActivityOK(d)
      OBVIOUS
    <2> HIDE DEF m, c, s, w, a, n, b, r, b2, r2
    <2>4. QED BY <1>1, <1>5, <1>6, <1>7, <2>1, <2>2, <2>3, PatchedIfNeeded
  <1>9. e.ctx.info = c.info
    <2>1. e.ctx = d \/ e.ctx = [d EXCEPT !.requested = PatchState(d)]
      BY DEF PatchIfNeeded, SendPatch, Effect
    <2>2. [d EXCEPT !.requested = PatchState(d)].info = d.info
      BY <1>5 DEF Context
    <2> HIDE DEF e
    <2>3. QED BY <1>5, <2>1, <2>2
  <1>10. /\ ctx'[k] = e.ctx /\ wire'[k] = w \o e.out
         /\ \A j \in Key \ {k} : ctx'[j] = ctx[j] /\ wire'[j] = wire[j]
    <2> HIDE DEF e
    <2>1. QED BY <1>1 DEF ApplyTo, e
  <1> HIDE DEF e
  <1>11. \A j \in Key : ctx'[j].info = ctx[j].info /\ Meant(ctx[j])' = Meant(ctx[j])
    <2>1. \A j \in Key : ctx'[j].info = ctx[j].info
      BY <1>9, <1>10
    <2>2. QED BY <1>3, <2>1 DEF Meant
  <1>12. ASSUME NEW j \in Key PROVE KeyInv(j)'
    <2>1. CASE j = k
      BY <1>2, <1>8, <1>10, <1>11, <2>1 DEF KeyInv
    <2>2. CASE j # k
      <3>1. Queued("PATCH_BUILD", j)' <=> Queued("PATCH_BUILD", j)
        BY <1>4, <2>2
      <3>2. Queued("PATCH_ROLLBACK", j)' <=> Queued("PATCH_ROLLBACK", j)
        BY <1>4, <2>2
      <3>3. KeyInv(j)
        BY DEF CalmInv
      <3>4. QED BY <1>2, <1>10, <1>11, <2>2, <3>1, <3>2, <3>3, KeyFrame
    <2>3. QED BY <2>1, <2>2
  <1>13. (\E j \in Key : Queued("PATCH_BUILD", j)') => OnTarget'
    <2>1. (\E j \in Key : Queued("PATCH_BUILD", j)') => OnTarget
      BY <1>4 DEF CalmInv
    <2>2. QED BY <1>11, <2>1 DEF OnTarget
  <1>14. QED BY <1>3, <1>12, <1>13 DEF CalmInv

\* What is given as the activity status goes with the state.
LEMMA SentActivity ==
    ASSUME NEW c \in Context
    PROVE  SendActivityStatus(c).info = c.info /\ ActivityOK(SendActivityStatus(c))
  BY DEF SendActivityStatus, ActivityOK, Context

LEMMA BuildCalm ==
    ASSUME ControlInv, CalmInv, HandlePatchBuild
    PROVE  CalmInv'
  <1> DEFINE k == Head(local).key
             d == SendActivityStatus(ctx[k])
  <1>1. /\ local # << >> /\ local' = Tail(local) /\ ApplyTo(k, PatchIfNeeded(d))
        /\ UNCHANGED <<phase, periods, timer, answers, notifs, stf>>
        /\ Head(local).event = "PATCH_BUILD"
    BY DEF HandlePatchBuild
  <1>2. k \in Key /\ Queued("PATCH_BUILD", k)
    BY <1>1, LoopTypes, QueueShrinks
  <1>3. ctx[k].info = Meant(ctx[k])
    BY <1>2 DEF CalmInv, OnTarget
  <1>4. d.info = Meant(ctx[k]) /\ ActivityOK(d)
    BY <1>2, <1>3, KeyTypes, SentActivity
  <1>5. d \in {ctx[k], SendActivityStatus(ctx[k])}
    OBVIOUS
  <1> HIDE DEF d
  <1>6. QED BY <1>1, <1>2, <1>4, <1>5, PatchCalm

\* The session is not revived by this.
LEMMA RollbackCalm ==
    ASSUME ControlInv, CalmInv, HandlePatchRollback, lapses' = {}
    PROVE  CalmInv'
  <1> DEFINE k == Head(local).key
             d == ctx[k]
             revived == /\ stf[k].fault = "failed" /\ wire[k] = << >>
                        /\ PatchIfNeeded(ctx[k]).out # << >>
  <1>1. /\ local # << >> /\ local' = Tail(local) /\ ApplyTo(k, PatchIfNeeded(d))
        /\ UNCHANGED <<phase, periods, timer, answers, notifs, stf>>
    BY DEF HandlePatchRollback
  <1>2. k \in Key
    BY <1>1, LoopTypes, QueueShrinks
  <1>3. ~revived
    <2>1. Lapsed(IF revived THEN {"revived"} ELSE {})
      BY DEF HandlePatchRollback
    <2> HIDE DEF revived
    <2>2. QED BY <2>1 DEF Lapsed
  <1>4. PatchIfNeeded(d).out # << >> => d.info = Meant(ctx[k]) /\ ActivityOK(d)
    <2> SUFFICES ASSUME PatchIfNeeded(d).out # << >>
                 PROVE  d.info = Meant(ctx[k]) /\ ActivityOK(d)
      OBVIOUS
    <2>1. ~Down(stf[k], wire[k])
      BY <1>3 DEF Down
    <2>2. QED BY <1>2, <2>1 DEF CalmInv, KeyInv, KeyOK, Cared
  <1>5. d \in {ctx[k], SendActivityStatus(ctx[k])}
    OBVIOUS
  <1> HIDE DEF d
  <1>6. QED BY <1>1, <1>2, <1>4, <1>5, PatchCalm

\* A phase begins when all is quiet: the timer waits for it.
LEMMA PhaseCalm ==
    ASSUME ControlInv, CalmInv, ScheduleRuns, PhaseBegins, lapses' = {}
    PROVE  CalmInv'
  <1>1. /\ phase < Len(Phases) /\ phase' = phase + 1
        /\ UNCHANGED <<periods, timer, ctx, local, wire, answers, notifs, stf>>
    BY DEF PhaseBegins
  <1>2. Quiet
    BY DEF PhaseBegins, Lapsed, Overlap
  <1>3. /\ Still /\ ~TimerDue /\ (\A j \in Key : notifs[j] = << >>)
        /\ \A e, j : ~Queued(e, j)
    BY <1>2, QuietIs
  <1>4. /\ Len(Phases) \in Nat /\ phase \in 1..Len(Phases) /\ timer \in 0..Len(Phases)
        /\ periods \in BOOLEAN
    BY LoopTypes
  <1>5. IF periods THEN timer = phase + 1 ELSE timer = 0
    BY <1>1, <1>3, <1>4 DEF CalmInv, ScheduleRuns, TimerDue
  <1>6. /\ TimerDue' => timer' = phase'
        /\ periods => Looked' = Looked
        /\ timer' # 1 /\ timer' <= phase' + 1 /\ (timer' # 0 => periods')
    BY <1>1, <1>3, <1>4, <1>5 DEF TimerDue, Looked, CalmInv
  <1>7. Still' /\ (\A j \in Key : notifs'[j] = << >>) /\ \A e, j : ~Queued(e, j)'
    BY <1>1, <1>3 DEF Still, Queued
  <1>8. ASSUME NEW j \in Key PROVE KeyInv(j)'
    <2>1. Meant(ctx[j])' = Meant(ctx[j])
      BY <1>1, <1>6 DEF Meant
    <2>2. KeyInv(j)
      BY DEF CalmInv
    <2>3. QED BY <1>1, <1>3, <1>7, <2>1, <2>2, KeyFrame
  <1>9. QED BY <1>6, <1>7, <1>8 DEF CalmInv

\* The schedule never steps down from ACTIVE to ESTABLISHED.
NoStepDown == \A i \in 1..(Len(Phases) - 1) :
                  ~(Phases[i] = "ACTIVE" /\ Phases[i + 1] = "ESTABLISHED")

\* The timer of the next phase, for a session with nothing under way.
LEMMA TimerOK ==
    ASSUME NEW m, NEW c \in Context, NEW s, NEW b, NEW r, phase \in 1..Len(Phases),
           KeyOK(m, c, s, << >>, << >>, << >>, b, r), ~b, ~r,
           ~(m = "ACTIVE" /\ Want(c) = "ESTABLISHED")
    PROVE  KeyOK(Want(c), ChangeState(c).ctx, s, ChangeState(c).out, << >>, << >>, b, r)
  <1> DEFINE w == << >>
             m2 == Want(c)
             d == Changed(c)
  <1>1. Sound(m, c, s, w, w, w) /\ Cared(m, c, s, w, w, w, b, r)
    BY DEF KeyOK
  <1>2. ~Working(c, w, w, b, r) /\ ~ToBuild(c, w, w, b)
    BY DEF Working, Refused, ToBuild
  <1>3. s.content = c.content /\ c.reported \in {Unset, s.state} /\ m2 \in DistSessionState
    BY <1>1, <1>2, WantType DEF Cared, Sound, ReportsOf
  <1>5. s.fault # "failed" => s.state = m /\ c.info = m /\ c.requested = m /\ ActivityOK(c)
    BY <1>1, <1>2 DEF Cared, Down
  <1>6. s.fault = "failed" => s.state = "INACTIVE" /\ c.info = "INACTIVE"
    <2> DEFINE f == <<"FAILURE", "INACTIVE">>
    <2>1. w # f
      OBVIOUS
    <2> HIDE DEF f
    <2>2. QED BY <1>1, <1>2, <2>1 DEF Sound, NotifsMeant, Cared, Down, f
  <1>7. m2 = "ESTABLISHED" => s.state # "ACTIVE" /\ c.reported # "ACTIVE"
    BY <1>3, <1>5, <1>6 DEF Unset
  <1>8. Sound(m2, c, s, w, w, w)
    <2>1. NotifsMeant(m2, s, w)
      BY <1>6 DEF NotifsMeant
    <2>2. WireMeant(m2, c, s, w) /\ ~Accepted(w)
      BY DEF WireMeant, Accepted
    <2>3. QED BY <1>1, <1>3, <1>7, <2>1, <2>2 DEF Sound, NoDetour
  <1>9. ChangeState(c) = IF m2 = c.requested THEN Effect(c, << >>)
                         ELSE IF c.needsUpdate \/ m2 # c.reported THEN SendPatch(d)
                         ELSE Effect(d, << >>)
    BY DEF ChangeState, Changed
  <1>10. /\ d \in Context /\ d.content = c.content /\ d.needsUpdate = c.needsUpdate
         /\ d.reported = c.reported /\ d.requested = c.requested
         /\ d.stateUpdate /\ d.info = m2 /\ ActivityOK(d) /\ Want(d) = m2
    BY ChangedIs
  <1> HIDE DEF m2, d
  <1>11. CASE m2 = c.requested
    <2>1. Cared(m2, c, s, w, w, w, b, r)
      BY <1>1, <1>3, <1>5, <1>6, <1>11 DEF Cared, Down
    <2>2. QED BY <1>8, <1>9, <1>11, <2>1 DEF KeyOK, Effect, m2
  <1>12. CASE m2 # c.requested /\ (c.needsUpdate \/ m2 # c.reported)
    <2> DEFINE p == [state |-> m2, content |-> IF d.needsUpdate THEN d.content ELSE NoContent]
               e == [d EXCEPT !.requested = m2]
    <2>1. SendPatch(d).ctx = e /\ SendPatch(d).out = <<p>> /\ p \in Patch
      BY <1>7, <1>10, SendPatchIs
    <2>2. /\ e.content = c.content /\ e.needsUpdate = c.needsUpdate /\ e.reported = c.reported
          /\ e.stateUpdate /\ e.info = m2 /\ e.requested = m2
          /\ e.activity = d.activity /\ d.info = e.info
      BY <1>10 DEF Context
    <2>3. ActivityOK(e)
      BY <1>10, <2>2 DEF ActivityOK, SendActivityStatus, Context
    <2>4. p.state = m2 /\ p.content = IF e.needsUpdate THEN e.content ELSE NoContent
      BY <1>10, <2>2
    <2>5. w \in Seq(Patch) /\ Append(w, p) = <<p>>
      OBVIOUS
    <2> HIDE DEF p, e, w
    <2>6. KeyOK(m2, e, s, Append(w, p), w, w, b, r)
      BY <1>8, <2>1, <2>2, <2>3, <2>4, <2>5, SentOK
    <2>7. QED BY <1>9, <1>12, <2>1, <2>5, <2>6 DEF m2, w
  <1>13. CASE m2 # c.requested /\ ~(c.needsUpdate \/ m2 # c.reported)
    <2>1. s.fault = "failed" /\ m2 = "INACTIVE"
      BY <1>3, <1>5, <1>6, <1>13 DEF Unset, DistSessionState
    <2>2. Sound(m2, d, s, w, w, w)
      BY <1>8, <1>10 DEF Sound, Right, ReportsOf, NoDetour, WireMeant
    <2>3. Cared(m2, d, s, w, w, w, b, r)
      BY <1>3, <1>10, <2>1 DEF Cared, Down
    <2>4. QED BY <1>9, <1>13, <2>2, <2>3 DEF KeyOK, Effect, m2
  <1>14. QED BY <1>11, <1>12, <1>13

\* The timer expires, for a phase that began when all was quiet.
LEMMA TimerCalm ==
    ASSUME ControlInv, CalmInv, NoStepDown, TimerExpires
    PROVE  CalmInv'
  <1>1. /\ Len(Phases) \in Nat /\ phase \in 1..Len(Phases) /\ timer \in 0..Len(Phases)
        /\ periods \in BOOLEAN
    BY LoopTypes
  <1>2. /\ Still /\ timer = phase /\ periods /\ (\A j \in Key : notifs[j] = << >>)
        /\ timer # 1 /\ TimerDue
    BY DEF TimerExpires, CalmInv, TimerDue
  <1>3. /\ Apply([k \in Key |-> ChangeState(ctx[k])]) /\ StartTimer(periods)
        /\ UNCHANGED <<phase, periods, local, answers, notifs, stf>>
    BY DEF TimerExpires
  <1>4. timer' = IF phase < Len(Phases) THEN phase + 1 ELSE 0
    BY <1>2, <1>3 DEF StartTimer
  <1>5. /\ ~TimerDue' /\ Looked' = phase /\ Looked = phase - 1
        /\ timer' # 1 /\ timer' <= phase' + 1 /\ (timer' # 0 => periods')
    BY <1>1, <1>2, <1>3, <1>4 DEF TimerDue, Looked
  <1>6. \A e, j : ~Queued(e, j) /\ ~Queued(e, j)'
    BY <1>2, <1>3 DEF Still, Queued
  <1>7. phase - 1 \in 1..(Len(Phases) - 1) /\ (phase - 1) + 1 = phase
    BY <1>1, <1>2
  <1>8. ~(Phases[phase - 1] = "ACTIVE" /\ Phases[phase] = "ESTABLISHED")
    <2> DEFINE i == phase - 1
    <2>1. i \in 1..(Len(Phases) - 1) /\ i + 1 = phase
      BY <1>7
    <2> HIDE DEF i
    <2>2. ~(Phases[i] = "ACTIVE" /\ Phases[i + 1] = "ESTABLISHED")
      BY <2>1 DEF NoStepDown
    <2>3. QED BY <2>1, <2>2 DEF i
  <1>9. ASSUME NEW j \in Key PROVE KeyInv(j)'
    <2> DEFINE m == Meant(ctx[j])
               c == ctx[j]
               s == stf[j]
               b == Queued("PATCH_BUILD", j)
               r == Queued("PATCH_ROLLBACK", j)
    <2>1. c \in Context /\ wire[j] = << >> /\ answers[j] = << >> /\ notifs[j] = << >>
      BY <1>2, KeyTypes DEF Still
    <2>2. KeyOK(m, c, s, << >>, << >>, << >>, b, r)
      BY <2>1 DEF CalmInv, KeyInv
    <2>3. m = Phases[phase - 1] /\ Want(c) = Phases[phase] /\ ~b /\ ~r
      BY <1>2, <1>5, <1>6 DEF Meant, Want
    <2>4. KeyOK(Want(c), ChangeState(c).ctx, s, ChangeState(c).out, << >>, << >>, b, r)
      <3>1. ~(m = "ACTIVE" /\ Want(c) = "ESTABLISHED")
        BY <1>8, <2>3
      <3> HIDE DEF m, s, b, r
      <3>2. QED BY <1>1, <2>1, <2>2, <2>3, <3>1, TimerOK
    <2>5. ctx'[j] = ChangeState(c).ctx /\ wire'[j] = wire[j] \o ChangeState(c).out
      BY <1>3 DEF Apply
    <2>6. ChangeState(c).out \in Seq(Patch)
      <3>1. IsEffect(c, ChangeState(c))
        BY <1>1, <2>1, ChangeStateEffect
      <3>2. CASE ChangeState(c).out = << >>
        BY <3>2
      <3>3. ASSUME NEW p \in Patch, ChangeState(c).out = <<p>>
            PROVE  ChangeState(c).out \in Seq(Patch)
        BY <3>3
      <3>4. QED BY <3>1, <3>2, <3>3 DEF IsEffect
    <2>7. wire'[j] = ChangeState(c).out
      <3> DEFINE o == ChangeState(c).out
      <3>1. o \in Seq(Patch) /\ wire'[j] = << >> \o o
        BY <2>1, <2>5, <2>6
      <3> HIDE DEF o
      <3>2. wire'[j] = o
        BY <3>1
      <3>3. QED BY <3>2 DEF o
    <2>8. Meant(ctx[j])' = Want(c)
      BY <1>2, <1>3, <1>5, <2>3 DEF Meant
    <2>9. KeyOK(Want(c), ctx'[j], stf'[j], wire'[j], answers'[j], notifs'[j],
                Queued("PATCH_BUILD", j)', Queued("PATCH_ROLLBACK", j)')
      <3>1. (Queued("PATCH_BUILD", j)' <=> b) /\ (Queued("PATCH_ROLLBACK", j)' <=> r)
        BY <1>6
      <3>2. KeyOK(Want(c), ctx'[j], stf'[j], wire'[j], answers'[j], notifs'[j], b, r)
        BY <1>3, <2>1, <2>4, <2>5, <2>7
      <3> HIDE DEF b, r
      <3>3. QED BY <3>1, <3>2 DEF KeyOK, Cared, Working, ToBuild
    <2>10. notifs'[j] = << >>
      BY <1>3, <2>1
    <2>11. QED BY <2>8, <2>9, <2>10 DEF KeyInv
  <1>10. QED BY <1>5, <1>6, <1>9 DEF CalmInv

\* A PUT, for a session with nothing under way.
LEMMA PutOK ==
    ASSUME NEW m, NEW c \in Context, NEW s, NEW b, NEW r,
           KeyOK(m, c, s, << >>, << >>, << >>, b, r), ~b, ~r,
           NEW m2, NEW d \in Context, NEW b2, NEW r2,
           d.info = m2, d.reported = c.reported, d.requested = c.requested,
           d.content # c.content => d.needsUpdate, d.content # NoContent,
           ~d.needsUpdate => m2 = c.info,
           d.needsUpdate => b2,
           b2 => ActivityOK(d), ~b2 => d.activity = c.activity
    PROVE  KeyOK(m2, d, s, << >>, << >>, << >>, b2, r2)
  <1> DEFINE w == << >>
  <1>1. Sound(m, c, s, w, w, w) /\ Cared(m, c, s, w, w, w, b, r)
    BY DEF KeyOK
  <1>2. ~Working(c, w, w, b, r) /\ ~ToBuild(c, w, w, b)
    BY DEF Working, Refused, ToBuild
  <1>3. s.content = c.content /\ c.reported \in {Unset, s.state}
    BY <1>1, <1>2 DEF Cared, Sound, ReportsOf
  <1>4. s.fault # "failed" => s.state = m /\ c.info = m /\ c.requested = m /\ ActivityOK(c)
    BY <1>1, <1>2 DEF Cared, Down
  <1>5. s.fault = "failed" => s.state = "INACTIVE" /\ c.info = "INACTIVE"
    <2> DEFINE f == <<"FAILURE", "INACTIVE">>
    <2>1. w # f
      OBVIOUS
    <2> HIDE DEF f
    <2>2. QED BY <1>1, <1>2, <2>1 DEF Sound, NotifsMeant, Cared, Down, f
  <1>6. m2 = "ESTABLISHED" /\ "ACTIVE" \in {s.state, d.reported} =>
            s.state = "ACTIVE" /\ d.needsUpdate
    BY <1>3, <1>4, <1>5 DEF Unset
  <1>7. Sound(m2, d, s, w, w, w)
    <2>1. NotifsMeant(m2, s, w)
      BY <1>5 DEF NotifsMeant
    <2>2. WireMeant(m2, d, s, w) /\ ~Accepted(w)
      BY DEF WireMeant, Accepted
    <2>3. QED BY <1>1, <1>3, <1>6, <2>1, <2>2 DEF Sound, NoDetour, ReportsOf
  <1>8. d.needsUpdate => Working(d, w, w, b2, r2) /\ ToBuild(d, w, w, b2)
    BY DEF Working, ToBuild
  <1>9. s.content # d.content => Working(d, w, w, b2, r2)
    BY <1>3, <1>8
  <1>10. s.state # m2 => Down(s, w) \/ Working(d, w, w, b2, r2)
    BY <1>4, <1>8 DEF Down
  <1>11. Down(s, w) => d.info = "INACTIVE" \/ ToBuild(d, w, w, b2)
    BY <1>5, <1>8 DEF Down
  <1>12. \/ d.requested = m2
         \/ Down(s, w) /\ m2 = "INACTIVE"
         \/ ToBuild(d, w, w, b2)
    BY <1>4, <1>5, <1>8 DEF Down
  <1>13. Down(s, w) \/ ActivityOK(d)
    <2>1. ASSUME ~b2, s.fault # "failed" PROVE ActivityOK(d)
      <3>1. d.info = c.info /\ d.activity = c.activity /\ ActivityOK(c)
        BY <1>4, <2>1
      <3>2. QED BY <3>1 DEF ActivityOK, SendActivityStatus, Context
    <2>2. QED BY <2>1 DEF Down
  <1>14. Cared(m2, d, s, w, w, w, b2, r2)
    BY <1>9, <1>10, <1>11, <1>12, <1>13 DEF Cared
  <1>15. QED BY <1>7, <1>14 DEF KeyOK

\* A PUT when all is quiet, that changes no info silently.
LEMMA PutCalm ==
    ASSUME ControlInv, CalmInv, lapses' = {},
           NEW p \in BOOLEAN, NEW new \in SUBSET Key,
           NEW s \in [Key -> DistSessionState \cup {Unset}], Put(p, new, s)
    PROVE  CalmInv'
  <1> DEFINE differs == {k \in Key : k \in new \/ s[k] # ctx[k].info}
             want(k) == CASE p -> Phases[phase]
                          [] ~p /\ s[k] = Unset -> "ACTIVE"
                          [] OTHER -> s[k]
             updated == [k \in Key |->
                 [ctx[k] EXCEPT !.needsUpdate = k \in differs,
                                !.info = want(k),
                                !.content = IF k \in new THEN @ + 1 ELSE @]]
             patched == {k \in Key : updated[k].needsUpdate \/ updated[k].stateUpdate}
             silent == {k \in Key \ differs : want(k) # ctx[k].info}
  <1>1. /\ periods' = p /\ StartTimer(p)
        /\ ctx' = [k \in Key |-> IF k \in patched THEN SendActivityStatus(updated[k])
                                                  ELSE updated[k]]
        /\ local' = local \o LocalEvents("PATCH_BUILD", patched)
        /\ Lapsed(Overlap \cup (IF silent # {} THEN {"silent"} ELSE {}))
        /\ UNCHANGED <<phase, wire, answers, notifs, stf>>
    BY DEF Put
  <1>2. /\ Len(Phases) \in Nat /\ phase \in 1..Len(Phases) /\ local \in Seq(Event)
        /\ Phases[phase] \in DistSessionState /\ \A k \in Key : ctx[k] \in Context
    <2>1. Phases \in Seq(DistSessionState)
      BY ControlAssumption
    <2>2. QED BY <2>1, LoopTypes, KeyTypes
  <1>3. Quiet /\ silent = {}
    <2> HIDE DEF silent
    <2>1. Overlap = {} /\ silent = {}
      BY <1>1 DEF Lapsed
    <2>2. QED BY <2>1 DEF Overlap
  <1>4. /\ Still /\ ~TimerDue
        /\ \A j \in Key : wire[j] = << >> /\ answers[j] = << >> /\ notifs[j] = << >>
        /\ \A e, j : ~Queued(e, j)
    BY <1>3, QuietIs
  <1>5. timer' = IF p /\ phase < Len(Phases) THEN phase + 1 ELSE 0
    BY <1>1 DEF StartTimer
  <1>6. /\ ~TimerDue' /\ Looked' = phase
        /\ timer' # 1 /\ timer' <= phase' + 1 /\ (timer' # 0 => periods')
    <2>1. (p <=> periods') /\ phase' = phase
      BY <1>1
    <2>2. QED BY <1>2, <1>5, <2>1 DEF TimerDue, Looked
  <1>7. patched \in SUBSET Key
    OBVIOUS
  <1>8. \A j \in Key : /\ Queued("PATCH_BUILD", j)' <=> j \in patched
                       /\ ~Queued("PATCH_ROLLBACK", j)'
    <2> HIDE DEF patched
    <2>1. \A e, j : Queued(e, j)' <=> Queued(e, j) \/ (e = "PATCH_BUILD" /\ j \in patched)
      BY <1>1, <1>2, <1>7, QueueGrows
    <2>2. QED BY <1>4, <2>1
  <1>9. ASSUME NEW j \in Key
        PROVE  /\ want(j) \in DistSessionState /\ (p => want(j) = Phases[phase])
               /\ j \notin differs => want(j) = ctx[j].info
    <2>1. CASE p
      BY <1>2, <1>3, <2>1
    <2>2. CASE ~p /\ s[j] = Unset
      BY <1>3, <2>2 DEF DistSessionState
    <2>3. CASE ~p /\ s[j] # Unset
      <3>1. s[j] \in DistSessionState \cup {Unset}
        OBVIOUS
      <3>2. want(j) = s[j]
        BY <2>3
      <3>3. QED BY <1>3, <2>3, <3>1, <3>2
    <2>4. QED BY <2>1, <2>2, <2>3
  <1>10. ASSUME NEW j \in Key
         PROVE  /\ updated[j] \in Context /\ updated[j].info = want(j)
                /\ updated[j].reported = ctx[j].reported
                /\ updated[j].requested = ctx[j].requested
                /\ updated[j].activity = ctx[j].activity
                /\ updated[j].needsUpdate <=> j \in differs
                /\ updated[j].content = IF j \in new THEN ctx[j].content + 1
                                                     ELSE ctx[j].content
    <2> DEFINE wj == want(j)
               dj == j \in differs
               cj == IF j \in new THEN ctx[j].content + 1 ELSE ctx[j].content
    <2>1. wj \in DistSessionState /\ dj \in BOOLEAN /\ ctx[j] \in Context /\ cj \in Nat
      BY <1>2, <1>9 DEF Context
    <2>2. updated[j] = [ctx[j] EXCEPT !.needsUpdate = dj, !.info = wj, !.content = cj]
      OBVIOUS
    <2> HIDE DEF wj, dj, cj, updated
    <2>3. /\ updated[j] \in Context /\ updated[j].info = wj
          /\ updated[j].reported = ctx[j].reported
          /\ updated[j].requested = ctx[j].requested
          /\ updated[j].activity = ctx[j].activity
          /\ (updated[j].needsUpdate <=> dj) /\ updated[j].content = cj
      BY <2>1, <2>2 DEF Context
    <2>4. QED BY <2>3 DEF wj, dj, cj
  <1>11. \A j \in Key : updated[j].needsUpdate => j \in patched
    OBVIOUS
  <1>12. \A j \in differs : j \in Key
    OBVIOUS
  <1>13. \A j \in new : j \in differs
    OBVIOUS
  <1> HIDE DEF differs, want, updated, patched, silent
  <1>14. ASSUME NEW j \in Key
         PROVE  /\ ctx'[j] \in Context /\ ctx'[j].info = want(j)
                /\ ctx'[j].reported = ctx[j].reported /\ ctx'[j].requested = ctx[j].requested
                /\ ctx'[j].content = updated[j].content
                /\ ctx'[j].needsUpdate <=> j \in differs
                /\ j \in patched => ActivityOK(ctx'[j])
                /\ j \notin patched => ctx'[j].activity = ctx[j].activity
    <2>1. CASE j \in patched
      <3> DEFINE u == updated[j]
                 v == SendActivityStatus(u)
      <3>1. ctx'[j] = v
        BY <1>1, <2>1
      <3>2. u \in Context
        BY <1>10
      <3> HIDE DEF u
      <3>3. /\ v \in Context /\ v.info = u.info /\ v.reported = u.reported
            /\ v.requested = u.requested /\ v.content = u.content
            /\ v.needsUpdate = u.needsUpdate /\ ActivityOK(v)
        <4>1. ActivityOK(v)
          BY <3>2, SentActivity
        <4>2. QED BY <3>2, <4>1 DEF SendActivityStatus, Context
      <3> HIDE DEF v
      <3>4. QED BY <1>10, <2>1, <3>1, <3>3 DEF u
    <2>2. CASE j \notin patched
      <3>1. ctx'[j] = updated[j]
        BY <1>1, <2>2
      <3>2. QED BY <1>10, <2>2, <3>1
    <2>3. QED BY <2>1, <2>2
  <1>15. \A j \in Key : Meant(ctx[j])' = want(j)
    BY <1>1, <1>6, <1>9, <1>14 DEF Meant
  <1>16. ASSUME NEW j \in Key PROVE KeyInv(j)'
    <2> DEFINE m == Meant(ctx[j])
               c == ctx[j]
               t == stf[j]
               b == Queued("PATCH_BUILD", j)
               r == Queued("PATCH_ROLLBACK", j)
               m2 == want(j)
               d == ctx'[j]
               b2 == Queued("PATCH_BUILD", j)'
               r2 == Queued("PATCH_ROLLBACK", j)'
    <2>1. KeyOK(m, c, t, << >>, << >>, << >>, b, r) /\ ~b /\ ~r
      BY <1>4 DEF CalmInv, KeyInv
    <2>2. c \in Context /\ d \in Context /\ d.info = m2 /\ d.reported = c.reported
          /\ d.requested = c.requested
      BY <1>2, <1>14
    <2>3. d.content # c.content => d.needsUpdate
      BY <1>10, <1>13, <1>14
    <2>4. d.content # NoContent
      <3>1. c.content \in Nat
        BY <2>2 DEF Context
      <3>2. c.content # NoContent
        BY <2>1 DEF KeyOK, Sound
      <3>3. d.content \in {c.content, c.content + 1}
        BY <1>10, <1>14
      <3> HIDE DEF c, d
      <3>4. QED BY <3>1, <3>2, <3>3 DEF NoContent
    <2>5. ~d.needsUpdate => m2 = c.info
      BY <1>9, <1>14
    <2>6. d.needsUpdate => b2
      BY <1>8, <1>10, <1>11, <1>14
    <2>7. (b2 => ActivityOK(d)) /\ (~b2 => d.activity = c.activity)
      BY <1>8, <1>14
    <2>8. KeyOK(m2, d, t, << >>, << >>, << >>, b2, r2)
      <3> HIDE DEF m, c, t, b, r, m2, d, b2, r2
      <3>1. QED BY <2>1, <2>2, <2>3, <2>4, <2>5, <2>6, <2>7, PutOK
    <2>9. /\ stf'[j] = stf[j] /\ wire'[j] = << >> /\ answers'[j] = << >> /\ notifs'[j] = << >>
      BY <1>1, <1>4
    <2>10. Meant(ctx[j])' = m2
      BY <1>15
    <2>11. QED BY <2>8, <2>9, <2>10 DEF KeyInv
  <1>17. OnTarget'
    BY <1>14, <1>15 DEF OnTarget
  <1>18. QED BY <1>6, <1>16, <1>17 DEF CalmInv

\* After the creation every session is in the first phase.
LEMMA InitCalm == Init => CalmInv
  <1> SUFFICES ASSUME Init PROVE CalmInv
    OBVIOUS
  <1>1. /\ phase = 1 /\ timer \in {0, 2} /\ periods /\ local = << >> /\ ~TimerDue
        /\ \A e, k : ~Queued(e, k)
    BY DEF Init, TimerDue, Queued
  <1>2. Phases[1] \in DistSessionState
    <2>1. Phases \in Seq(DistSessionState) /\ Phases # << >>
      BY ControlAssumption
    <2>2. QED BY <2>1
  <1>3. ASSUME NEW k \in Key PROVE KeyInv(k)
    <2> DEFINE m == Phases[1]
               c == ctx[k]
               s == stf[k]
               n == notifs[k]
    <2>1. /\ c.info = m /\ c.content = 1 /\ c.requested = m /\ c.reported = Unset
          /\ c.activity = Unset /\ s.state = m /\ s.content = 1 /\ s.fault = "none"
          /\ n \in {<< >>, <<m>>} /\ wire[k] = << >> /\ answers[k] = << >>
      BY DEF Init
    <2>2. Meant(c) = m
      BY <1>1, <2>1 DEF Meant, Looked
    <2> HIDE DEF m, c, s, n
    <2>3. m \in DistSessionState
      BY <1>2 DEF m
    <2>4. ReportsOf(c, s, n) /\ NotifsMeant(m, s, n)
      <3>1. CASE n = << >>
        BY <2>1, <3>1 DEF ReportsOf, NotifsMeant
      <3>2. CASE n = <<m>>
        <4>1. n # << >> /\ Last(n) = m /\ DOMAIN n = {1} /\ n[1] = m
          BY <3>2 DEF Last
        <4>2. m # "FAILURE"
          BY <2>3 DEF DistSessionState
        <4>3. QED BY <2>1, <4>1, <4>2 DEF ReportsOf, NotifsMeant
      <3>3. QED BY <2>1, <3>1, <3>2
    <2> DEFINE w == << >>
    <2>5. WireMeant(m, c, s, w) /\ ~Accepted(w)
      BY DEF WireMeant, Accepted
    <2>6. Sound(m, c, s, w, w, n)
      BY <2>1, <2>3, <2>4, <2>5 DEF Sound, NoDetour, NoContent, Unset
    <2>7. Cared(m, c, s, w, w, n, Queued("PATCH_BUILD", k), Queued("PATCH_ROLLBACK", k))
      BY <2>1 DEF Cared, Down, ActivityOK
    <2>8. QED BY <2>1, <2>2, <2>6, <2>7 DEF KeyInv, KeyOK, c, s, n
  <1>4. QED BY <1>1, <1>3 DEF CalmInv

\* Lapses are not forgotten.
LEMMA LapsesGrow ==
    ASSUME ControlInv, [Next]_vars, lapses' = {}
    PROVE  lapses = {}
  <1>1. CASE UNCHANGED lapses
    BY <1>1
  <1>2. CASE \E cases \in SUBSET Lapse : Lapsed(cases)
    BY <1>2 DEF Lapsed
  <1>3. CASE PhaseBegins
    BY <1>2, <1>3, OverlapType DEF PhaseBegins
  <1>4. CASE TimerExpires \/ HandlePatchBuild
    BY <1>1, <1>4 DEF TimerExpires, HandlePatchBuild
  <1>5. CASE HandlePatchRollback
    BY <1>5 DEF HandlePatchRollback, Lapsed
  <1>6. ASSUME NEW p \in BOOLEAN, NEW new \in SUBSET Key,
               NEW s \in [Key -> DistSessionState \cup {Unset}], Put(p, new, s)
        PROVE  lapses = {}
    BY <1>6 DEF Put, Lapsed
  <1>7. ASSUME NEW k \in Key,
               \/ HandlePatchOk(k) \/ HandleNotify(k) \/ HandleFailure(k)
               \/ StfPatches(k) \/ StfRefuses(k)
        PROVE  lapses = {}
    BY <1>1, <1>7 DEF HandlePatchOk, HandleNotify, HandleFailure, StfPatches, StfRefuses
  <1>8. ASSUME NEW k \in Key, HandlePatchError(k) PROVE lapses = {}
    BY <1>8 DEF HandlePatchError, Lapsed
  <1>9. ASSUME NEW k \in Key, AnswerLost(k) \/ StfFails(k) PROVE lapses = {}
    BY <1>9 DEF AnswerLost, StfFails, Lapsed
  <1>10. CASE UNCHANGED vars
    BY <1>1, <1>10 DEF vars
  <1>11. QED BY <1>3, <1>4, <1>5, <1>6, <1>7, <1>8, <1>9, <1>10 DEF Next

\* Every step keeps it.
LEMMA NextCalm ==
    ASSUME ControlInv, ScheduleRuns, Calm, NoStepDown, [Next]_vars
    PROVE  Calm'
  <1> SUFFICES ASSUME lapses' = {} PROVE CalmInv'
    BY DEF Calm
  <1>1. CalmInv
    BY LapsesGrow DEF Calm
  <1>2. CASE PhaseBegins \/ TimerExpires \/ HandlePatchBuild \/ HandlePatchRollback
    BY <1>1, <1>2, PhaseCalm, TimerCalm, BuildCalm, RollbackCalm
  <1>3. ASSUME NEW p \in BOOLEAN, NEW new \in SUBSET Key,
               NEW s \in [Key -> DistSessionState \cup {Unset}], Put(p, new, s)
        PROVE  CalmInv'
    BY <1>1, <1>3, PutCalm
  <1>4. ASSUME NEW k \in Key, HandlePatchOk(k) \/ HandlePatchError(k) PROVE CalmInv'
    BY <1>1, <1>4, OkCalm, ErrorCalm
  <1>5. ASSUME NEW k \in Key, HandleNotify(k) \/ HandleFailure(k) PROVE CalmInv'
    BY <1>1, <1>5, NotifyCalm, FailureCalm
  <1>6. ASSUME NEW k \in Key, StfPatches(k) \/ StfRefuses(k) \/ AnswerLost(k) \/ StfFails(k)
        PROVE  CalmInv'
    BY <1>1, <1>6, DoneCalm, RefusesCalm, LostCalm, FailsCalm
  <1>7. CASE UNCHANGED vars
    <2>1. /\ UNCHANGED <<phase, periods, timer, ctx, local, wire, answers, notifs, stf>>
      BY <1>7 DEF vars
    <2>2. /\ TimerDue' = TimerDue /\ Looked' = Looked /\ Still' = Still
          /\ \A e, j : Queued(e, j)' = Queued(e, j)
          /\ \A j \in Key : Meant(ctx[j])' = Meant(ctx[j])
      BY <2>1 DEF TimerDue, Looked, Still, Queued, Meant
    <2>3. \A j \in Key : KeyInv(j)'
      BY <1>1, <2>1, <2>2 DEF CalmInv, KeyInv
    <2>4. OnTarget' = OnTarget
      BY <2>1, <2>2 DEF OnTarget
    <2>5. QED BY <1>1, <2>1, <2>2, <2>3, <2>4 DEF CalmInv
  <1>8. QED BY <1>2, <1>3, <1>4, <1>5, <1>6, <1>7 DEF Next

\* When all is quiet and nothing lapsed, the MBSTF's sessions that have not
\* failed, nor were asked for what the MBSTF never does, have the state and the
\* content wanted, and the MB-SMF the activity status: with any number of
\* sessions and of disturbances, and for every schedule that does not step down
\* from ACTIVE to ESTABLISHED.
THEOREM RestIsRight ==
    ASSUME NoStepDown
    PROVE  Spec => []QuietIsRight
  <1>1. Init => Calm
    BY InitCalm DEF Calm
  <1>2. ControlInv /\ ScheduleRuns /\ Calm /\ [Next]_vars => Calm'
    BY NextCalm
  <1>3. ControlInv /\ Calm => QuietIsRight
    <2> SUFFICES ASSUME ControlInv, CalmInv, Quiet, NEW k \in Key, stf[k].fault # "failed"
                 PROVE  /\ stf[k].state = Want(ctx[k])
                        /\ stf[k].content = ctx[k].content
                        /\ ctx[k].activity \in {Unset, SendActivityStatus(ctx[k]).activity}
      BY DEF Calm, QuietIsRight, Excused
    <2>1. /\ ~TimerDue /\ wire[k] = << >> /\ answers[k] = << >> /\ notifs[k] = << >>
          /\ \A e : ~Queued(e, k)
      BY QuietIs
    <2>2. Meant(ctx[k]) = Want(ctx[k])
      BY <2>1 DEF Meant, Want, Looked
    <2>3. KeyOK(Meant(ctx[k]), ctx[k], stf[k], << >>, << >>, << >>,
                Queued("PATCH_BUILD", k), Queued("PATCH_ROLLBACK", k))
      BY <2>1 DEF CalmInv, KeyInv
    <2>4. ~Down(stf[k], << >>)
          /\ ~Working(ctx[k], << >>, << >>, Queued("PATCH_BUILD", k), Queued("PATCH_ROLLBACK", k))
      BY <2>1 DEF Down, Working, Refused
    <2>5. QED BY <2>2, <2>3, <2>4 DEF KeyOK, Cared, ActivityOK
  <1>4. QED BY <1>1, <1>2, <1>3, InitControl, NextControl, ScheduleNeverStops, PTL DEF Spec
=============================================================================
