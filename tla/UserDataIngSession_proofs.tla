---------------------- MODULE UserDataIngSession_proofs ----------------------
(***************************************************************************)
(* Proofs about the creation and deletion of an ingest session, for any    *)
(* number of distribution sessions, DELETEs and faults of any kind, and    *)
(* for any number of POSTs to the MBSTF: type correctness, the order of    *)
(* the operations at the MB-SMF and at the MBSTF, what a 201 promises, and *)
(* that nothing is left behind when nothing fails.  With one DELETE of the *)
(* AF and no fault, the process never ends and finds every answer's        *)
(* transaction.                                                            *)
(***************************************************************************)
EXTENDS UserDataIngSession, FiniteSetTheorems, FunctionTheorems, TLAPS

-----------------------------------------------------------------------------
(* The inductive invariant.                                                *)

\* No MBS Session is without a result of the MB-SMF.
NoNo == \A k \in Keys : ctx[k].status # "NO"

\* The distribution session id is gone from the MBSTF for good.
Ended(id) == id \notin mbstf /\ \A w \in wire : w.method = "POST" => w.id # id

\* What the presence of an event in the queue tells.
EventOK(e) ==
    /\ e.type = "REQ_BUILD" => NoNo
    /\ e.type \in {"DELETE_SESSION", "CLIENT"} => e.id \in 1..Len(registry)
    /\ e.type = "CLIENT" => (e.method = "DELETE" /\ e.ok => Ended(e.id))

EventsOK == \A i \in DOMAIN queue : EventOK(queue[i])

\* Each id was POSTed once, and is not at the MBSTF until the POST is taken.
WireOK ==
    /\ mbstf \subseteq 1..Len(registry)
    /\ \A w \in wire : w.id \in 1..Len(registry)
    /\ \A w \in wire : w.method = "POST" => w.id \notin mbstf
    /\ \A v, w \in wire : v.method = "POST" /\ w.method = "POST" /\ v.id = w.id => v = w

\* What has not begun, and what ends with the session.
Lifetime ==
    /\ session # "live" => xacts = {}
    /\ session = "none" => queue = << >> /\ wire = {} /\ post = "none"

\* A reply in the queue belongs to a request that is still unanswered.
RepliesOK ==
    session = "live" => \A k \in Keys : UntakenReplies(k) <= Len(mbs[k].ops)

\* The MB-SMF is asked to delete only after the MBSTF has, for good.
DeletedAfter ==
    session = "live" => \A k \in Keys :
        mbs[k].deleted => \E id \in 1..Len(registry) : registry[id] = k /\ Ended(id)

Finite == IsFiniteSet(xacts) /\ IsFiniteSet(wire)

IngInv == /\ TypeOK /\ Finite /\ Lifetime /\ RepliesOK
          /\ EventsOK /\ WireOK /\ TwoPhases /\ NoMbsLeft /\ DeletedAfter

-----------------------------------------------------------------------------
(* The handle on an MBS Session.                                           *)

\* A new handle, created or not, has no deletion behind it.
LEMMA CreateMbs ==
    ASSUME NEW status \in ActivityStatus, NEW resolved \in BOOLEAN
    PROVE  LET s == CreateMbsSession(status, resolved)
           IN  s \in MbsSession /\ ~s.deleted
  <1> DEFINE n == NewMbsSession(status)
  <1>1. n \in MbsSession /\ ~n.deleted /\ n.session /\ ~n.inFlight /\ n.ops = << >>
        /\ n.sent = NOTHING /\ n.status = status
    BY DEF NewMbsSession, MbsSession, MbsRequest
  <1>2. NoMbsSession(status) \in MbsSession /\ ~NoMbsSession(status).deleted
    BY <1>1 DEF NoMbsSession, MbsSession
  <1>3. Target(n) = status /\ LibHasChanges(n)
    BY <1>1, StatusAssumption DEF Target, LibHasChanges, ActivityStatus
  <1>4. PushChanges(n) = [LibPush(n) EXCEPT !.inFlight = TRUE, !.sendUpdates = FALSE]
    BY <1>1, <1>3 DEF PushChanges
  <1>5. LibPush(n) = [n EXCEPT !.sent = status, !.ops = Append(n.ops, status)]
    BY <1>1, <1>3 DEF LibPush
  <1>6. Append(n.ops, status) \in Seq(MbsRequest)
    BY <1>1 DEF MbsRequest
  <1>7. PushChanges(n) \in MbsSession /\ ~PushChanges(n).deleted
    <2> HIDE DEF n
    <2>1. LibPush(n) \in MbsSession /\ ~LibPush(n).deleted
      BY <1>1, <1>5, <1>6 DEF MbsSession, MbsRequest
    <2>2. QED BY <1>4, <2>1 DEF MbsSession
  <1>8. QED BY <1>2, <1>7 DEF CreateMbsSession

\* A push of the library adds at most one request.
LEMMA LibPushes ==
    ASSUME NEW s \in MbsSession
    PROVE  /\ LibPush(s) \in MbsSession /\ Len(LibPush(s).ops) >= Len(s.ops)
           /\ LibPush(s).deleted = s.deleted /\ LibPush(s).session = s.session
           /\ s.session /\ s.deleted => LibPush(s).sent = DELETE
  <1>1. Target(s) \in MbsRequest /\ (s.deleted => Target(s) = DELETE)
    BY DEF Target, MbsSession, MbsRequest
  <1>2. CASE ~LibHasChanges(s)
    BY <1>1, <1>2 DEF LibPush, LibHasChanges, MbsSession
  <1>3. CASE LibHasChanges(s)
    <2>1. LibPush(s) = [s EXCEPT !.sent = Target(s), !.ops = Append(s.ops, Target(s))]
      BY <1>3 DEF LibPush
    <2>2. s.ops \in Seq(MbsRequest)
      BY DEF MbsSession
    <2>3. /\ Append(s.ops, Target(s)) \in Seq(MbsRequest)
          /\ Len(Append(s.ops, Target(s))) >= Len(s.ops)
      BY <1>1, <2>2
    <2>4. QED BY <1>1, <2>1, <2>3 DEF MbsSession
  <1>4. QED BY <1>2, <1>3

LEMMA Pushes ==
    ASSUME NEW s \in MbsSession
    PROVE  /\ PushChanges(s) \in MbsSession /\ Len(PushChanges(s).ops) >= Len(s.ops)
           /\ PushChanges(s).deleted = s.deleted
  <1>1. s.ops \in Seq(MbsRequest) /\ Len(s.ops) \in Nat
    BY DEF MbsSession
  <1>2. CASE s.inFlight
    <2>1. PushChanges(s) = [s EXCEPT !.sendUpdates = TRUE]
      BY <1>2 DEF PushChanges
    <2>2. /\ PushChanges(s) \in MbsSession /\ PushChanges(s).ops = s.ops
          /\ PushChanges(s).deleted = s.deleted
      BY <2>1 DEF MbsSession
    <2>3. QED BY <1>1, <2>2
  <1>3. CASE ~s.inFlight /\ LibHasChanges(s)
    <2>1. PushChanges(s) = [LibPush(s) EXCEPT !.inFlight = TRUE, !.sendUpdates = FALSE]
      BY <1>3 DEF PushChanges
    <2>2. QED BY <2>1, LibPushes DEF MbsSession
  <1>4. CASE ~s.inFlight /\ ~LibHasChanges(s)
    BY <1>1, <1>4 DEF PushChanges
  <1>5. QED BY <1>2, <1>3, <1>4

\* deleteSession tells the MB-SMF, whatever was sent before.
LEMMA Deletes ==
    ASSUME NEW s \in MbsSession
    PROVE  /\ DeleteSession(s) \in MbsSession /\ Len(DeleteSession(s).ops) >= Len(s.ops)
           /\ DeleteSession(s).session => DeleteSession(s).sent = DELETE
  <1>1. s.ops \in Seq(MbsRequest) /\ Len(s.ops) \in Nat
    BY DEF MbsSession
  <1>2. CASE ~s.session
    BY <1>1, <1>2 DEF DeleteSession
  <1>3. CASE s.session
    <2> DEFINE d == [s EXCEPT !.deleted = TRUE]
    <2>1. d \in MbsSession /\ d.deleted /\ d.session /\ d.ops = s.ops
      BY <1>3 DEF MbsSession
    <2>2. DeleteSession(s) = [LibPush(d) EXCEPT !.inFlight = TRUE, !.sendUpdates = FALSE]
      BY <1>3 DEF DeleteSession
    <2> HIDE DEF d
    <2>3. /\ LibPush(d) \in MbsSession /\ Len(LibPush(d).ops) >= Len(d.ops)
          /\ LibPush(d).sent = DELETE
      BY <2>1, LibPushes
    <2>4. QED BY <2>1, <2>2, <2>3 DEF MbsSession
  <1>4. QED BY <1>2, <1>3

LEMMA SetsStatus ==
    ASSUME NEW s \in MbsSession, NEW status \in ActivityStatus
    PROVE  LET t == SetActivityStatus(s, status)
           IN  t \in MbsSession /\ t.ops = s.ops /\ t.deleted = s.deleted
  <1>1. CASE s.session
    BY <1>1 DEF SetActivityStatus, MbsSession
  <1>2. CASE ~s.session
    BY <1>2 DEF SetActivityStatus
  <1>3. QED BY <1>1, <1>2

\* The callback takes one request from those unanswered.
LEMMA CallsBack ==
    ASSUME NEW s \in MbsSession, s.ops # << >>, NEW done \in BOOLEAN
    PROVE  LET t == MbsSessionCallback(s, done)
           IN  t \in MbsSession /\ Len(t.ops) >= Len(s.ops) - 1 /\ t.deleted = s.deleted
  <1> DEFINE live == s.session /\ ~done
             a == [s EXCEPT !.ops = Tail(s.ops), !.inFlight = FALSE, !.session = live]
             b == [a EXCEPT !.sendUpdates = FALSE]
  <1>1. s.ops \in Seq(MbsRequest) /\ live \in BOOLEAN
    BY DEF MbsSession
  <1>2. Tail(s.ops) \in Seq(MbsRequest) /\ Len(Tail(s.ops)) = Len(s.ops) - 1
    BY <1>1
  <1>3. MbsSessionCallback(s, done) = IF a.sendUpdates THEN PushChanges(b) ELSE a
    BY DEF MbsSessionCallback
  <1> HIDE DEF live
  <1>4. a \in MbsSession /\ a.ops = Tail(s.ops) /\ a.deleted = s.deleted
    BY <1>1, <1>2 DEF MbsSession
  <1> HIDE DEF a
  <1>5. b \in MbsSession /\ b.ops = Tail(s.ops) /\ b.deleted = s.deleted
    BY <1>4 DEF MbsSession
  <1> HIDE DEF b
  <1>6. /\ PushChanges(b) \in MbsSession /\ Len(PushChanges(b).ops) >= Len(s.ops) - 1
        /\ PushChanges(b).deleted = s.deleted
    BY <1>2, <1>5, Pushes
  <1>7. a \in MbsSession /\ Len(a.ops) >= Len(s.ops) - 1 /\ a.deleted = s.deleted
    BY <1>1, <1>2, <1>4
  <1>8. QED BY <1>3, <1>6, <1>7

-----------------------------------------------------------------------------
(* Events.                                                                 *)

LEMMA EventFields ==
    ASSUME NEW e \in Event
    PROVE  /\ e.type = "AF_DELETE" => e.req \in 1..MaxDeletes
           /\ e.type \in {"SMF_REPLY", "CREATE_RESULT"} =>
                 /\ e.key \in Keys /\ e.ok \in BOOLEAN
                 /\ [e EXCEPT !.type = "CREATE_RESULT"] \in Event
                 /\ [e EXCEPT !.type = "CREATE_RESULT"].type = "CREATE_RESULT"
           /\ e.type \in {"DELETED", "REQ_BUILD"} => e.key \in Keys
           /\ e.type = "DELETE_SESSION" => e.id \in Nat
           /\ e.type = "CLIENT" => e.id \in Nat /\ e.xid \in Nat
           /\ e.type = "CLIENT_WAIT" => e.xid \in Nat
  BY DEF Event

\* Events that say nothing about the state.
LEMMA PlainEvents ==
    /\ \A i \in 1..MaxDeletes : [type |-> "AF_DELETE", req |-> i] \in Event
    /\ [type |-> "SERVICE_DELETE"] \in Event
    /\ \A k \in Keys, ok, problem \in BOOLEAN :
          [type |-> "SMF_REPLY", key |-> k, ok |-> ok, problem |-> problem] \in Event
    /\ \A k \in Keys : /\ [type |-> "DELETED", key |-> k] \in Event
                       /\ [type |-> "REQ_BUILD", key |-> k] \in Event
    /\ \A id \in Nat : [type |-> "DELETE_SESSION", id |-> id] \in Event
    /\ \A x, id \in Nat, m \in Methods, ok \in BOOLEAN :
          [type |-> "CLIENT", xid |-> x, method |-> m, id |-> id, ok |-> ok] \in Event
    /\ \A x \in Nat : [type |-> "CLIENT_WAIT", xid |-> x] \in Event
  BY DEF Event

\* The events made from a finite set, in any order.
LEMMA DelEventsMade ==
    ASSUME TypeOK, NEW es \in DelEvents
    PROVE  /\ es \in Seq(Event)
           /\ \A i \in DOMAIN es : es[i].type = "DELETE_SESSION" /\ es[i].id \in 1..Len(registry)
  <1> DEFINE S == 1..Len(registry)
  <1>1. Len(registry) \in Nat
    BY DEF TypeOK
  <1>2. Cardinality(S) \in Nat
    BY <1>1, FS_Interval, FS_CardinalityType
  <1> DEFINE n == Cardinality(S)
  <1>3. PICK f \in [1..n -> S] : es = [i \in 1..n |-> [type |-> "DELETE_SESSION", id |-> f[i]]]
    BY DEF DelEvents, AnyOrder
  <1> HIDE DEF n
  <1>4. \A i \in 1..n : [type |-> "DELETE_SESSION", id |-> f[i]] \in Event
    BY <1>1, PlainEvents
  <1>5. es \in [1..n -> Event] /\ n \in Nat
    BY <1>2, <1>3, <1>4 DEF n
  <1>6. es \in Seq(Event) /\ DOMAIN es = 1..n
    BY <1>5
  <1>7. QED BY <1>3, <1>6

LEMMA ReqEventsMade ==
    ASSUME NEW c, NEW es \in ReqEvents(c), NumKeys \in Nat
    PROVE  /\ es \in Seq(Event)
           /\ \A i \in DOMAIN es : es[i].type = "REQ_BUILD" /\ es[i].key \in Keys
  <1> DEFINE S == {k \in Keys : ~c[k].received}
  <1>1. IsFiniteSet(Keys)
    BY FS_Interval DEF Keys
  <1>2. Cardinality(S) \in Nat
    BY <1>1, FS_Subset, FS_CardinalityType
  <1> DEFINE n == Cardinality(S)
  <1>3. PICK f \in [1..n -> S] : es = [i \in 1..n |-> [type |-> "REQ_BUILD", key |-> f[i]]]
    BY DEF ReqEvents, AnyOrder
  <1> HIDE DEF n
  <1>4. \A i \in 1..n : f[i] \in Keys /\ [type |-> "REQ_BUILD", key |-> f[i]] \in Event
    BY PlainEvents
  <1>5. es \in [1..n -> Event] /\ n \in Nat
    BY <1>2, <1>3, <1>4 DEF n
  <1>6. es \in Seq(Event) /\ DOMAIN es = 1..n
    BY <1>5
  <1>7. QED BY <1>3, <1>4, <1>6

\* What an event tells stays true as results come in, ids are added and
\* distribution sessions end.
LEMMA EventsStay ==
    ASSUME TypeOK, NoNo => NoNo',
           Len(registry') \in Nat, Len(registry) <= Len(registry'),
           \A id \in 1..Len(registry) : Ended(id) => Ended(id)'
    PROVE  \A e \in Event : EventOK(e) => EventOK(e)'
  <1>1. Len(registry) \in Nat
    BY DEF TypeOK
  <1> SUFFICES ASSUME NEW e \in Event, EventOK(e) PROVE EventOK(e)'
    OBVIOUS
  <1>2. e.type = "REQ_BUILD" => NoNo'
    BY DEF EventOK
  <1>3. e.type \in {"DELETE_SESSION", "CLIENT"} => e.id \in 1..Len(registry')
    BY <1>1 DEF EventOK
  <1>4. e.type = "CLIENT" => (e.method = "DELETE" /\ e.ok => Ended(e.id)')
    BY DEF EventOK
  <1>5. QED BY <1>2, <1>3, <1>4 DEF EventOK

\* The queue after a step: some events may be added, the first may be taken.
LEMMA QueueStep ==
    ASSUME TypeOK, EventsOK, NEW es \in Seq(Event),
           \/ queue' = queue \o es
           \/ queue # << >> /\ queue' = Tail(queue) \o es,
           \A e \in Event : EventOK(e) => EventOK(e)',
           \A i \in DOMAIN es : EventOK(es[i])'
    PROVE  queue' \in Seq(Event) /\ EventsOK'
  <1>1. queue \in Seq(Event)
    BY DEF TypeOK
  <1>2. \A i \in DOMAIN queue : \E e \in Event : e = queue[i] /\ EventOK(e)'
    BY <1>1 DEF EventsOK
  <1>3. CASE queue' = queue \o es
    <2>1. queue' \in Seq(Event)
      BY <1>1, <1>3
    <2>2. \A i \in DOMAIN queue' : \/ i \in DOMAIN queue /\ queue'[i] = queue[i]
                                   \/ \E j \in DOMAIN es : queue'[i] = es[j]
      BY <1>1, <1>3
    <2>3. QED BY <1>2, <2>1, <2>2 DEF EventsOK
  <1>4. CASE queue # << >> /\ queue' = Tail(queue) \o es
    <2>1. queue' \in Seq(Event)
      BY <1>1, <1>4
    <2>2. \A i \in DOMAIN queue' : \/ \E j \in DOMAIN queue : queue'[i] = queue[j]
                                   \/ \E j \in DOMAIN es : queue'[i] = es[j]
      BY <1>1, <1>4
    <2>3. QED BY <1>2, <2>1, <2>2 DEF EventsOK
  <1>5. QED BY <1>3, <1>4

-----------------------------------------------------------------------------
(* Replies of the MB-SMF that wait in the queue.                           *)

RepliesAt(q, k) == {i \in 1..Len(q) : q[i].type = "SMF_REPLY" /\ q[i].key = k}
Replies(q, k) == Cardinality(RepliesAt(q, k))

LEMMA RepliesFinite ==
    ASSUME NEW q \in Seq(Event), NEW k
    PROVE  IsFiniteSet(RepliesAt(q, k)) /\ Replies(q, k) \in Nat
  <1>1. Len(q) \in Nat
    OBVIOUS
  <1>2. IsFiniteSet(1..Len(q))
    BY <1>1, FS_Interval
  <1>3. IsFiniteSet(RepliesAt(q, k))
    BY <1>2, FS_Subset DEF RepliesAt
  <1>4. QED BY <1>3, FS_CardinalityType DEF Replies

\* Other events do not count.
LEMMA RepliesOthers ==
    ASSUME NEW q \in Seq(Event), NEW es \in Seq(Event), NEW k,
           \A i \in DOMAIN es : es[i].type # "SMF_REPLY"
    PROVE  Replies(q \o es, k) = Replies(q, k)
  <1>1. RepliesAt(q \o es, k) = RepliesAt(q, k)
    <2>1. /\ Len(q) \in Nat /\ Len(es) \in Nat /\ Len(q \o es) = Len(q) + Len(es)
          /\ \A i \in 1..Len(q \o es) : IF i <= Len(q) THEN (q \o es)[i] = q[i]
                                        ELSE \E j \in DOMAIN es : (q \o es)[i] = es[j]
      OBVIOUS
    <2>2. QED BY <2>1 DEF RepliesAt
  <1>2. QED BY <1>1 DEF Replies

\* A new reply counts as one.
LEMMA RepliesOne ==
    ASSUME NEW q \in Seq(Event), NEW e \in Event, NEW k
    PROVE  Replies(Append(q, e), k) =
             Replies(q, k) + (IF e.type = "SMF_REPLY" /\ e.key = k THEN 1 ELSE 0)
  <1> DEFINE n == Len(q) + 1
  <1>1. /\ Len(q) \in Nat /\ Len(Append(q, e)) = n /\ Append(q, e)[n] = e
        /\ \A i \in 1..Len(q) : Append(q, e)[i] = q[i]
    OBVIOUS
  <1>2. CASE e.type = "SMF_REPLY" /\ e.key = k
    <2>1. RepliesAt(Append(q, e), k) = RepliesAt(q, k) \cup {n} /\ n \notin RepliesAt(q, k)
      BY <1>1, <1>2 DEF RepliesAt
    <2>2. QED BY <1>2, <2>1, RepliesFinite, FS_AddElement DEF Replies
  <1>3. CASE ~(e.type = "SMF_REPLY" /\ e.key = k)
    <2>1. RepliesAt(Append(q, e), k) = RepliesAt(q, k)
      BY <1>1, <1>3 DEF RepliesAt
    <2>2. QED BY <1>3, <2>1, RepliesFinite DEF Replies
  <1>4. QED BY <1>2, <1>3

\* Taking the first event takes one reply, or none.
LEMMA RepliesTaken ==
    ASSUME NEW q \in Seq(Event), q # << >>, NEW k
    PROVE  /\ Replies(Tail(q), k) <= Replies(q, k)
           /\ Head(q).type = "SMF_REPLY" /\ Head(q).key = k
              => Replies(Tail(q), k) = Replies(q, k) - 1
  <1> DEFINE A == RepliesAt(q, k)
             B == RepliesAt(Tail(q), k)
             f == [i \in B |-> i + 1]
  <1>1. /\ Len(q) \in Nat \ {0} /\ Len(Tail(q)) = Len(q) - 1 /\ Tail(q) \in Seq(Event)
        /\ \A i \in 1..Len(Tail(q)) : Tail(q)[i] = q[i + 1]
        /\ q[1] = Head(q)
    OBVIOUS
  <1>2. IsFiniteSet(A) /\ IsFiniteSet(B) /\ Cardinality(A) \in Nat /\ Cardinality(B) \in Nat
    BY <1>1, RepliesFinite DEF Replies
  <1>3. f \in Bijection(B, A \ {1})
    <2>1. B \subseteq Int /\ f \in [B -> A \ {1}]
      BY <1>1 DEF RepliesAt
    <2>2. \A i, j \in B : i # j => f[i] # f[j]
      BY <2>1
    <2>3. \A a \in A \ {1} : a - 1 \in B /\ f[a - 1] = a
      BY <1>1 DEF RepliesAt
    <2>4. QED BY <2>1, <2>2, <2>3, Fun_IsBij
  <1>4. Cardinality(B) = Cardinality(A \ {1})
    BY <1>2, <1>3, FS_Bijection, FS_RemoveElement DEF ExistsBijection
  <1>5. Cardinality(A \ {1}) = IF 1 \in A THEN Cardinality(A) - 1 ELSE Cardinality(A)
    BY <1>2, FS_RemoveElement
  <1>6. Head(q).type = "SMF_REPLY" /\ Head(q).key = k => 1 \in A
    BY <1>1 DEF RepliesAt
  <1>7. QED BY <1>2, <1>4, <1>5, <1>6 DEF Replies

\* Steps in which no reply comes and no request is dropped.
LEMMA RepliesStay ==
    ASSUME TypeOK, RepliesOK, session' = "live" => session = "live",
           NEW es \in Seq(Event), \A i \in DOMAIN es : es[i].type # "SMF_REPLY",
           \/ queue' = queue \o es
           \/ queue # << >> /\ queue' = Tail(queue) \o es,
           \A k \in Keys : Len(mbs'[k].ops) \in Nat /\ Len(mbs'[k].ops) >= Len(mbs[k].ops)
    PROVE  RepliesOK'
  <1> SUFFICES ASSUME session' = "live", NEW k \in Keys
               PROVE  UntakenReplies(k)' <= Len(mbs'[k].ops)
    BY DEF RepliesOK
  <1>1. UntakenReplies(k) = Replies(queue, k) /\ UntakenReplies(k)' = Replies(queue', k)
    BY DEF UntakenReplies, Replies, RepliesAt
  <1>2. UntakenReplies(k) <= Len(mbs[k].ops) /\ Len(mbs[k].ops) \in Nat
    BY DEF RepliesOK, TypeOK, MbsSession
  <1>3. queue \in Seq(Event)
    BY DEF TypeOK
  <1>4. CASE queue' = queue \o es
    BY <1>1, <1>2, <1>3, <1>4, RepliesOthers, RepliesFinite
  <1>5. CASE queue # << >> /\ queue' = Tail(queue) \o es
    <2>1. Tail(queue) \in Seq(Event)
      BY <1>3, <1>5
    <2>2. Replies(queue', k) = Replies(Tail(queue), k)
      BY <1>5, <2>1, RepliesOthers
    <2>3. Replies(Tail(queue), k) <= Replies(queue, k)
      BY <1>3, <1>5, RepliesTaken
    <2>4. Replies(Tail(queue), k) \in Nat /\ Replies(queue, k) \in Nat
      BY <1>3, <2>1, RepliesFinite
    <2>5. QED BY <1>1, <1>2, <2>2, <2>3, <2>4
  <1>6. QED BY <1>4, <1>5

-----------------------------------------------------------------------------
(* Transactions.                                                           *)

\* A new transaction has an id of its own, as only finitely many are in use.
LEMMA NewXidIsFree ==
    ASSUME TypeOK, Finite
    PROVE  /\ NewXid \in Nat
           /\ \A x \in xacts : x.xid # NewXid
           /\ \A w \in wire : w.xid # NewXid
           /\ \A i \in DOMAIN queue : queue[i].type = "CLIENT" => queue[i].xid # NewXid
  <1> DEFINE X == {x.xid : x \in xacts}
             W == {w.xid : w \in wire}
             I == {j \in 1..Len(queue) : queue[j].type \in {"CLIENT", "CLIENT_WAIT"}}
             Q == {queue[i].xid : i \in I}
             used == X \cup W \cup Q
             n == Cardinality(used) + 1
             fx == [x \in xacts |-> x.xid]
             fw == [w \in wire |-> w.xid]
             fq == [i \in I |-> queue[i].xid]
  <1>1. IsFiniteSet(X)
    <2>1. fx \in Surjection(xacts, X)
      BY DEF Surjection
    <2>2. QED BY <2>1, FS_Surjection DEF Finite
  <1>2. IsFiniteSet(W)
    <2>1. fw \in Surjection(wire, W)
      BY DEF Surjection
    <2>2. QED BY <2>1, FS_Surjection DEF Finite
  <1>3. IsFiniteSet(Q)
    <2>1. Len(queue) \in Nat
      BY DEF TypeOK
    <2>2. IsFiniteSet(1..Len(queue)) /\ I \subseteq 1..Len(queue)
      BY <2>1, FS_Interval
    <2> HIDE DEF I
    <2>3. IsFiniteSet(I)
      BY <2>2, FS_Subset
    <2>4. fq \in Surjection(I, Q)
      BY DEF Surjection
    <2>5. QED BY <2>3, <2>4, FS_Surjection
  <1> HIDE DEF X, W, Q
  <1>4. IsFiniteSet(used)
    BY <1>1, <1>2, <1>3, FS_Union
  <1>5. Cardinality(used) \in Nat
    BY <1>4, FS_CardinalityType
  <1>6. IsFiniteSet(1..n) /\ Cardinality(1..n) = n
    BY <1>5, FS_Interval
  <1>7. ~(1..n \subseteq used)
    BY <1>4, <1>5, <1>6, FS_Subset
  <1>8. NewXid = CHOOSE m \in 1..n : m \notin used
    BY DEF NewXid, X, W, Q
  <1>9. used = X \cup W \cup Q
    OBVIOUS
  <1> HIDE DEF n, used
  <1>10. NewXid \in Nat /\ NewXid \notin used
    BY <1>7, <1>8
  <1>11. \A i \in DOMAIN queue : queue[i].type = "CLIENT" => queue[i].xid \in Q
    <2>1. DOMAIN queue = 1..Len(queue)
      BY DEF TypeOK
    <2>2. QED BY <2>1 DEF Q
  <1>12. (\A x \in xacts : x.xid \in X) /\ (\A w \in wire : w.xid \in W)
    BY DEF X, W
  <1>13. QED BY <1>9, <1>10, <1>11, <1>12

\* A request to the MBSTF is one more transaction and one more message.
LEMMA Sends ==
    ASSUME TypeOK, Finite, NEW method \in Methods, NEW id \in Nat, Send(method, id)
    PROVE  /\ xacts' \subseteq Xact /\ wire' \subseteq [xid: Nat, method: Methods, id: Nat]
           /\ Finite'
           /\ \E w : /\ wire' = wire \cup {w} /\ w.method = method /\ w.id = id
  <1>1. NewXid \in Nat
    BY NewXidIsFree
  <1> DEFINE n == NewXid
  <1>2. /\ xacts' = xacts \cup {[xid |-> n, method |-> method, id |-> id, armed |-> TRUE]}
        /\ wire' = wire \cup {[xid |-> n, method |-> method, id |-> id]}
    BY DEF Send
  <1> HIDE DEF n
  <1>3. Finite'
    BY <1>2, FS_AddElement DEF Finite
  <1> DEFINE x == [xid |-> n, method |-> method, id |-> id, armed |-> TRUE]
             w == [xid |-> n, method |-> method, id |-> id]
  <1>4. x \in Xact /\ w \in [xid: Nat, method: Methods, id: Nat]
        /\ w.method = method /\ w.id = id
    BY <1>1 DEF n, Xact
  <1>5. xacts' = xacts \cup {x} /\ wire' = wire \cup {w}
    BY <1>2
  <1>6. xacts \subseteq Xact /\ wire \subseteq [xid: Nat, method: Methods, id: Nat]
    BY DEF TypeOK
  <1> HIDE DEF x, w
  <1>7. QED BY <1>3, <1>4, <1>5, <1>6

-----------------------------------------------------------------------------
(* Steps that leave the requests to the MBSTF and its sessions alone.      *)

LEMMA QueueFrame ==
    ASSUME IngInv, UNCHANGED <<registry, wire, mbstf>>, NoNo => NoNo',
           NEW es \in Seq(Event),
           \/ queue' = queue \o es
           \/ queue # << >> /\ queue' = Tail(queue) \o es,
           \A i \in DOMAIN es : EventOK(es[i])'
    PROVE  queue' \in Seq(Event) /\ EventsOK' /\ WireOK' /\ TwoPhases'
  <1>1. TypeOK /\ EventsOK /\ WireOK /\ TwoPhases
    BY DEF IngInv
  <1>2. WireOK'
    BY <1>1 DEF WireOK
  <1>3. TwoPhases'
    BY <1>1 DEF TwoPhases, NoNo
  <1>4. \A id : Ended(id) => Ended(id)'
    BY DEF Ended
  <1>5. Len(registry') \in Nat /\ Len(registry) <= Len(registry')
    BY <1>1 DEF TypeOK
  <1>6. \A e \in Event : EventOK(e) => EventOK(e)'
    BY <1>1, <1>4, <1>5, EventsStay
  <1>7. QED BY <1>1, <1>2, <1>3, <1>6, QueueStep

LEMMA HandleFrame ==
    ASSUME IngInv, UNCHANGED <<registry, wire, mbstf>>,
           session' = "live" => session = "live",
           NEW es \in Seq(Event), \A i \in DOMAIN es : es[i].type # "SMF_REPLY",
           \/ queue' = queue \o es
           \/ queue # << >> /\ queue' = Tail(queue) \o es,
           \A k \in Keys : Len(mbs'[k].ops) \in Nat /\ Len(mbs'[k].ops) >= Len(mbs[k].ops),
           session' = "live" => \A k \in Keys : mbs'[k].deleted => mbs[k].deleted
    PROVE  RepliesOK' /\ DeletedAfter'
  <1>1. TypeOK /\ RepliesOK /\ DeletedAfter
    BY DEF IngInv
  <1>2. RepliesOK'
    BY <1>1, RepliesStay
  <1>3. DeletedAfter'
    BY <1>1 DEF DeletedAfter, Ended
  <1>4. QED BY <1>2, <1>3

\* A step that leaves the MBS Sessions alone as well.
LEMMA PlainFrame ==
    ASSUME IngInv, UNCHANGED <<registry, wire, mbstf, mbs>>, NoNo => NoNo',
           session' = "live" => session = "live",
           NEW es \in Seq(Event), \A i \in DOMAIN es : es[i].type # "SMF_REPLY",
           \/ queue' = queue \o es
           \/ queue # << >> /\ queue' = Tail(queue) \o es,
           \A i \in DOMAIN es : EventOK(es[i])'
    PROVE  /\ queue' \in Seq(Event) /\ EventsOK' /\ WireOK' /\ TwoPhases'
           /\ RepliesOK' /\ DeletedAfter'
  <1>1. queue' \in Seq(Event) /\ EventsOK' /\ WireOK' /\ TwoPhases'
    BY QueueFrame
  <1>2. \A k \in Keys : Len(mbs[k].ops) \in Nat
    BY DEF IngInv, TypeOK, MbsSession
  <1>3. RepliesOK' /\ DeletedAfter'
    BY <1>2, HandleFrame
  <1>4. QED BY <1>1, <1>3

\* One event added, or the first one taken, is such a step.
LEMMA OneEvent ==
    ASSUME TypeOK, NEW e \in Event
    PROVE  /\ Append(queue, e) = queue \o <<e>> /\ <<e>> \in Seq(Event)
           /\ DOMAIN <<e>> = {1} /\ <<e>>[1] = e
  BY DEF TypeOK

LEMMA OneTaken ==
    ASSUME TypeOK, EventsOK, Taken # "none"
    PROVE  /\ queue # << >> /\ abort = "no" /\ Head(queue) \in Event
           /\ Taken = Head(queue).type
           /\ EventOK(Head(queue))
           /\ Tail(queue) \in Seq(Event) /\ Tail(queue) = Tail(queue) \o << >>
           /\ << >> \in Seq(Event) /\ DOMAIN << >> = {}
  <1>1. queue # << >> /\ abort = "no" /\ Taken = Head(queue).type
    BY DEF Taken
  <1>2. queue \in Seq(Event)
    BY DEF TypeOK
  <1>3. Head(queue) = queue[1] /\ 1 \in DOMAIN queue
    BY <1>1, <1>2
  <1>4. EventOK(Head(queue))
    BY <1>3 DEF EventsOK
  <1>5. QED BY <1>1, <1>2, <1>4

LEMMA AddsEvent ==
    ASSUME IngInv, UNCHANGED <<registry, wire, mbstf, mbs>>, NoNo => NoNo',
           session' = session, NEW e \in Event, queue' = Append(queue, e),
           e.type # "SMF_REPLY", EventOK(e)'
    PROVE  /\ queue' \in Seq(Event) /\ EventsOK' /\ WireOK' /\ TwoPhases'
           /\ RepliesOK' /\ DeletedAfter'
  <1>1. TypeOK
    BY DEF IngInv
  <1>2. queue' = queue \o <<e>> /\ <<e>> \in Seq(Event)
        /\ \A j \in DOMAIN <<e>> : EventOK(<<e>>[j])' /\ <<e>>[j].type # "SMF_REPLY"
    BY <1>1, OneEvent
  <1>3. QED BY <1>2, PlainFrame

LEMMA TakesEvent ==
    ASSUME IngInv, UNCHANGED <<registry, wire, mbstf, mbs>>, NoNo => NoNo',
           session' = session, Taken # "none", queue' = Tail(queue)
    PROVE  /\ queue' \in Seq(Event) /\ EventsOK' /\ WireOK' /\ TwoPhases'
           /\ RepliesOK' /\ DeletedAfter'
  <1>1. TypeOK /\ EventsOK
    BY DEF IngInv
  <1>2. /\ queue # << >> /\ queue' = Tail(queue) \o << >> /\ << >> \in Seq(Event)
        /\ DOMAIN << >> = {}
    BY <1>1, OneTaken
  <1>3. QED BY <1>2, PlainFrame

-----------------------------------------------------------------------------
(* The AF and the peers.                                                   *)

LEMMA PostInv ==
    ASSUME IngInv, PostUserDataIngSession
    PROVE  IngInv'
  <1>1. TypeOK /\ Finite /\ Lifetime /\ EventsOK /\ WireOK /\ TwoPhases
    BY DEF IngInv
  <1>2. session = "none" /\ queue = << >> /\ wire = {} /\ post = "none"
    BY <1>1 DEF PostUserDataIngSession, Lifetime
  <1>3. /\ session' = "live" /\ post' = "waiting"
        /\ UNCHANGED <<ctx, registry, xacts, queue, wire, mbstf, del, svc, abort>>
    BY DEF PostUserDataIngSession, peers
  <1>4. PICK status \in [Keys -> InitialStatuses], bad \in SUBSET Keys :
           /\ bad # {} => MayFault("unresolved")
           /\ mbs' = [k \in Keys |-> CreateMbsSession(status[k], k \notin bad)]
           /\ faults' = IF bad = {} THEN faults ELSE faults + 1
    BY DEF PostUserDataIngSession, UpdateContexts
  <1>5. \A k \in Keys : mbs'[k] \in MbsSession /\ ~mbs'[k].deleted
    <2> SUFFICES ASSUME NEW k \in Keys PROVE mbs'[k] \in MbsSession /\ ~mbs'[k].deleted
      OBVIOUS
    <2>1. status[k] \in ActivityStatus
      BY BoundsAssumption
    <2>2. mbs'[k] = CreateMbsSession(status[k], k \notin bad)
      BY <1>4
    <2>3. (k \notin bad) \in BOOLEAN
      OBVIOUS
    <2>4. QED BY <2>1, <2>2, <2>3, CreateMbs
  <1>6. mbs' \in [Keys -> MbsSession]
    BY <1>4, <1>5
  <1>7. faults' \in 0..MaxFaults
    BY <1>1, <1>4, BoundsAssumption DEF TypeOK, MayFault
  <1>8. TypeOK'
    BY <1>1, <1>3, <1>6, <1>7 DEF TypeOK
  <1>9. Finite' /\ Lifetime' /\ EventsOK' /\ WireOK' /\ TwoPhases' /\ NoMbsLeft'
    <2>1. EventsOK'
      BY <1>2, <1>3 DEF EventsOK
    <2>2. QED BY <1>1, <1>2, <1>3, <2>1
              DEF Finite, Lifetime, WireOK, TwoPhases, NoMbsLeft
  <1>10. RepliesOK'
    <2>1. \A k \in Keys : UntakenReplies(k)' = 0
      <3>1. \A k : {i \in 1..Len(queue') : queue'[i].type = "SMF_REPLY" /\ queue'[i].key = k} = {}
        BY <1>2, <1>3
      <3>2. QED BY <3>1, FS_EmptySet DEF UntakenReplies
    <2>2. \A k \in Keys : Len(mbs'[k].ops) \in Nat
      BY <1>5 DEF MbsSession
    <2>3. QED BY <2>1, <2>2 DEF RepliesOK
  <1>11. DeletedAfter'
    BY <1>5 DEF DeletedAfter
  <1>12. QED BY <1>8, <1>9, <1>10, <1>11 DEF IngInv

LEMMA AfDeleteInv ==
    ASSUME IngInv, NEW i \in 1..MaxDeletes, AfDelete(i)
    PROVE  IngInv'
  <1> DEFINE e == [type |-> "AF_DELETE", req |-> i]
  <1>1. TypeOK /\ Finite /\ Lifetime /\ NoMbsLeft
    BY DEF IngInv
  <1>2. e \in Event /\ e.type = "AF_DELETE"
    BY PlainEvents
  <1>3. /\ post = "created" /\ del' = [del EXCEPT ![i] = "sent"] /\ queue' = Append(queue, e)
        /\ UNCHANGED <<session, ctx, mbs, registry, xacts, wire, mbstf, post, svc, faults, abort>>
    BY DEF AfDelete, peers
  <1> HIDE DEF e
  <1>4. EventOK(e)'
    BY <1>2 DEF EventOK
  <1>5. /\ queue' \in Seq(Event) /\ EventsOK' /\ WireOK' /\ TwoPhases'
        /\ RepliesOK' /\ DeletedAfter'
    <2>1. NoNo => NoNo'
      BY <1>3 DEF NoNo
    <2>2. QED BY <1>2, <1>3, <1>4, <2>1, AddsEvent
  <1>6. TypeOK'
    BY <1>1, <1>3, <1>5 DEF TypeOK
  <1>7. Finite' /\ Lifetime' /\ NoMbsLeft'
    BY <1>1, <1>3 DEF Finite, Lifetime, NoMbsLeft
  <1>8. QED BY <1>5, <1>6, <1>7 DEF IngInv

LEMMA ServiceDeleteInv ==
    ASSUME IngInv, ServiceDeleteRequest
    PROVE  IngInv'
  <1> DEFINE e == [type |-> "SERVICE_DELETE"]
  <1>1. TypeOK /\ Finite /\ Lifetime /\ NoMbsLeft
    BY DEF IngInv
  <1>2. e \in Event /\ e.type = "SERVICE_DELETE"
    BY PlainEvents
  <1>3. /\ session # "none" /\ svc' = TRUE /\ faults' = faults + 1 /\ faults < MaxFaults
        /\ queue' = Append(queue, e)
        /\ UNCHANGED <<session, ctx, mbs, registry, xacts, wire, mbstf, post, del, abort>>
    BY DEF ServiceDeleteRequest, MayFault, peers
  <1> HIDE DEF e
  <1>4. EventOK(e)'
    BY <1>2 DEF EventOK
  <1>5. /\ queue' \in Seq(Event) /\ EventsOK' /\ WireOK' /\ TwoPhases'
        /\ RepliesOK' /\ DeletedAfter'
    <2>1. NoNo => NoNo'
      BY <1>3 DEF NoNo
    <2>2. QED BY <1>2, <1>3, <1>4, <2>1, AddsEvent
  <1>6. TypeOK'
    BY <1>1, <1>3, <1>5, BoundsAssumption DEF TypeOK
  <1>7. Finite' /\ Lifetime' /\ NoMbsLeft'
    BY <1>1, <1>3 DEF Finite, Lifetime, NoMbsLeft
  <1>8. QED BY <1>5, <1>6, <1>7 DEF IngInv

LEMMA AfDisconnectInv ==
    ASSUME IngInv, AfDisconnect
    PROVE  IngInv'
  <1>1. /\ TypeOK /\ Finite /\ Lifetime /\ RepliesOK /\ EventsOK /\ WireOK
        /\ TwoPhases /\ NoMbsLeft /\ DeletedAfter
    BY DEF IngInv
  <1>2. /\ \/ post = "waiting" /\ post' = "gone" /\ UNCHANGED del
           \/ \E i \in 1..MaxDeletes : del' = [del EXCEPT ![i] = "gone"] /\ UNCHANGED post
        /\ faults' = faults + 1 /\ faults < MaxFaults
        /\ UNCHANGED <<session, ctx, mbs, registry, xacts, queue, wire, mbstf, svc, abort>>
    BY DEF AfDisconnect, MayFault, peers
  <1>3. TypeOK'
    <2>1. /\ post' \in {"none", "waiting", "created", "error", "gone"}
          /\ del' \in [1..MaxDeletes -> {"none", "sent", "pending", "204", "404", "gone"}]
      BY <1>1, <1>2 DEF TypeOK
    <2>2. faults' \in 0..MaxFaults
      BY <1>1, <1>2, BoundsAssumption DEF TypeOK
    <2>3. QED BY <1>1, <1>2, <2>1, <2>2 DEF TypeOK
  <1>4. Lifetime'
    BY <1>1, <1>2 DEF Lifetime
  <1>5. EventsOK'
    BY <1>1, <1>2 DEF EventsOK, EventOK, NoNo, Ended
  <1>6. RepliesOK'
    BY <1>1, <1>2 DEF RepliesOK, UntakenReplies
  <1>7. Finite' /\ WireOK' /\ TwoPhases' /\ NoMbsLeft' /\ DeletedAfter'
    BY <1>1, <1>2 DEF Finite, WireOK, TwoPhases, NoMbsLeft, DeletedAfter, Ended
  <1>8. QED BY <1>1, <1>3, <1>4, <1>5, <1>6, <1>7 DEF IngInv

LEMMA SmfAnswerInv ==
    ASSUME IngInv, NEW k \in Keys, NEW ok \in BOOLEAN, NEW problem \in BOOLEAN,
           SmfAnswer(k, ok, problem)
    PROVE  IngInv'
  <1> DEFINE e == [type |-> "SMF_REPLY", key |-> k, ok |-> ok, problem |-> problem]
  <1>1. /\ TypeOK /\ Finite /\ Lifetime /\ RepliesOK /\ EventsOK /\ WireOK
        /\ TwoPhases /\ NoMbsLeft /\ DeletedAfter
    BY DEF IngInv
  <1>2. e \in Event /\ e.type = "SMF_REPLY" /\ e.key = k
    BY PlainEvents
  <1>3. /\ session = "live" /\ Len(mbs[k].ops) > UntakenReplies(k)
        /\ ok \/ faults < MaxFaults
        /\ faults' = IF ok THEN faults ELSE faults + 1
        /\ queue' = Append(queue, e)
        /\ UNCHANGED <<session, ctx, mbs, registry, xacts, wire, mbstf, post, del, svc, abort>>
    BY DEF SmfAnswer, MayFault, peers, af
  <1> HIDE DEF e
  <1>4. EventOK(e)'
    BY <1>2 DEF EventOK
  <1>5. queue' \in Seq(Event) /\ EventsOK' /\ WireOK' /\ TwoPhases'
    <2>1. queue' = queue \o <<e>> /\ <<e>> \in Seq(Event)
          /\ \A j \in DOMAIN <<e>> : EventOK(<<e>>[j])'
      BY <1>1, <1>2, <1>3, <1>4, OneEvent
    <2>2. NoNo => NoNo'
      BY <1>3 DEF NoNo
    <2>3. QED BY <1>3, <2>1, <2>2, QueueFrame
  <1>6. TypeOK'
    <2>1. faults' \in 0..MaxFaults
      BY <1>1, <1>3, BoundsAssumption DEF TypeOK
    <2>2. QED BY <1>1, <1>3, <1>5, <2>1 DEF TypeOK
  <1>7. RepliesOK'
    <2> SUFFICES ASSUME NEW j \in Keys PROVE UntakenReplies(j)' <= Len(mbs'[j].ops)
      BY DEF RepliesOK
    <2>1. /\ UntakenReplies(j) = Replies(queue, j) /\ UntakenReplies(j)' = Replies(queue', j)
          /\ UntakenReplies(k) = Replies(queue, k)
      BY DEF UntakenReplies, Replies, RepliesAt
    <2>2. queue \in Seq(Event) /\ Len(mbs[j].ops) \in Nat /\ Len(mbs[k].ops) \in Nat
      BY <1>1 DEF TypeOK, MbsSession
    <2>3. Replies(queue', j) = Replies(queue, j) + (IF j = k THEN 1 ELSE 0)
      BY <1>2, <1>3, <2>2, RepliesOne
    <2>4. Replies(queue, j) \in Nat /\ Replies(queue, k) \in Nat
      BY <2>2, RepliesFinite
    <2>5. UntakenReplies(j) <= Len(mbs[j].ops)
      BY <1>1, <1>3 DEF RepliesOK
    <2>6. CASE j = k
      BY <1>3, <2>1, <2>2, <2>3, <2>4, <2>6
    <2>7. CASE j # k
      BY <1>3, <2>1, <2>2, <2>3, <2>4, <2>5, <2>7
    <2>8. QED BY <2>6, <2>7
  <1>8. Finite' /\ Lifetime' /\ NoMbsLeft' /\ DeletedAfter'
    BY <1>1, <1>3 DEF Finite, Lifetime, NoMbsLeft, DeletedAfter, Ended
  <1>9. QED BY <1>5, <1>6, <1>7, <1>8 DEF IngInv

LEMMA StfAnswerInv ==
    ASSUME IngInv, NEW w \in wire, NEW ok \in BOOLEAN, StfAnswer(w, ok)
    PROVE  IngInv'
  <1> DEFINE e == [type |-> "CLIENT", xid |-> w.xid, method |-> w.method,
                   id |-> w.id, ok |-> ok]
  <1>1. /\ TypeOK /\ Finite /\ Lifetime /\ RepliesOK /\ EventsOK /\ WireOK
        /\ TwoPhases /\ NoMbsLeft /\ DeletedAfter
    BY DEF IngInv
  <1>2. w.xid \in Nat /\ w.method \in Methods /\ w.id \in Nat
    BY <1>1 DEF TypeOK
  <1>3. /\ e \in Event /\ e.type = "CLIENT" /\ e.id = w.id /\ e.method = w.method
        /\ e.ok = ok
    BY <1>2, PlainEvents
  <1>4. /\ wire' = wire \ {w} /\ queue' = Append(queue, e)
        /\ UNCHANGED <<session, ctx, mbs, registry, xacts, post, del, svc, abort>>
    BY DEF StfAnswer, af
  <1>5. /\ mbstf' \subseteq mbstf \cup {w.id}
        /\ w.id \in mbstf' => w.method = "POST" \/ w.id \in mbstf
        /\ w.method = "DELETE" /\ ok => w.id \in mbstf /\ w.id \notin mbstf'
        /\ faults' = faults \/ (faults < MaxFaults /\ faults' = faults + 1)
    BY DEF StfAnswer, MayFault
  <1> HIDE DEF e
  <1>6. \A id \in 1..Len(registry) : Ended(id) => Ended(id)'
    BY <1>4, <1>5 DEF Ended
  <1>7. EventOK(e)'
    <2>1. e.id \in 1..Len(registry')
      BY <1>1, <1>3, <1>4 DEF WireOK
    <2>2. ASSUME w.method = "DELETE", ok PROVE Ended(w.id)'
      BY <1>1, <1>4, <1>5, <2>2 DEF WireOK, Ended
    <2>3. QED BY <1>3, <2>1, <2>2 DEF EventOK
  <1>8. queue' \in Seq(Event) /\ EventsOK'
    <2>1. queue' = queue \o <<e>> /\ <<e>> \in Seq(Event)
          /\ \A j \in DOMAIN <<e>> : EventOK(<<e>>[j])'
      BY <1>1, <1>3, <1>4, <1>7, OneEvent
    <2>2. NoNo => NoNo'
      BY <1>4 DEF NoNo
    <2>3. Len(registry') \in Nat /\ Len(registry) <= Len(registry')
      BY <1>1, <1>4 DEF TypeOK
    <2>4. \A v \in Event : EventOK(v) => EventOK(v)'
      BY <1>1, <1>6, <2>2, <2>3, EventsStay
    <2>5. QED BY <1>1, <2>1, <2>4, QueueStep
  <1>9. WireOK'
    <2>1. mbstf' \subseteq 1..Len(registry')
      BY <1>1, <1>4, <1>5 DEF WireOK
    <2>2. ASSUME NEW v \in wire', v.method = "POST" PROVE v.id \notin mbstf'
      BY <1>1, <1>4, <1>5, <2>2 DEF WireOK
    <2>3. QED BY <1>1, <1>4, <2>1, <2>2 DEF WireOK
  <1>10. TypeOK'
    <2>1. faults' \in 0..MaxFaults
      BY <1>1, <1>5, BoundsAssumption DEF TypeOK
    <2>2. mbstf' \subseteq Nat /\ wire' \subseteq [xid: Nat, method: Methods, id: Nat]
      BY <1>1, <1>2, <1>4, <1>5 DEF TypeOK
    <2>3. QED BY <1>1, <1>4, <1>8, <2>1, <2>2 DEF TypeOK
  <1>11. RepliesOK'
    <2>1. queue' = queue \o <<e>> /\ <<e>> \in Seq(Event)
          /\ \A j \in DOMAIN <<e>> : <<e>>[j].type # "SMF_REPLY"
      BY <1>1, <1>3, <1>4, OneEvent
    <2>2. \A k \in Keys : /\ Len(mbs'[k].ops) \in Nat
                          /\ Len(mbs'[k].ops) >= Len(mbs[k].ops)
      BY <1>1, <1>4 DEF TypeOK, MbsSession
    <2>3. QED BY <1>1, <1>4, <2>1, <2>2, RepliesStay
  <1>12. Finite'
    BY <1>1, <1>4, FS_RemoveElement DEF Finite
  <1>13. Lifetime' /\ TwoPhases' /\ NoMbsLeft'
    BY <1>1, <1>4 DEF Lifetime, TwoPhases, NoMbsLeft
  <1>14. DeletedAfter'
    BY <1>1, <1>4, <1>6 DEF DeletedAfter
  <1>15. QED BY <1>8, <1>9, <1>10, <1>11, <1>12, <1>13, <1>14 DEF IngInv

LEMMA ClientWaitExpiresInv ==
    ASSUME IngInv, NEW x \in xacts, ClientWaitExpires(x)
    PROVE  IngInv'
  <1> DEFINE e == [type |-> "CLIENT_WAIT", xid |-> x.xid]
             y == [x EXCEPT !.armed = FALSE]
  <1>1. TypeOK /\ Finite /\ Lifetime /\ NoMbsLeft
    BY DEF IngInv
  <1>2. x \in Xact /\ x.xid \in Nat /\ y \in Xact
    BY <1>1 DEF TypeOK, Xact
  <1>3. e \in Event /\ e.type = "CLIENT_WAIT"
    BY <1>2, PlainEvents
  <1>4. /\ faults' = faults + 1 /\ faults < MaxFaults
        /\ xacts' = (xacts \ {x}) \cup {y} /\ queue' = Append(queue, e)
        /\ UNCHANGED <<session, ctx, mbs, registry, wire, mbstf, post, del, svc, abort>>
    BY DEF ClientWaitExpires, MayFault, peers, af
  <1> HIDE DEF e, y
  <1>5. EventOK(e)'
    BY <1>3 DEF EventOK
  <1>6. /\ queue' \in Seq(Event) /\ EventsOK' /\ WireOK' /\ TwoPhases'
        /\ RepliesOK' /\ DeletedAfter'
    <2>1. NoNo => NoNo'
      BY <1>4 DEF NoNo
    <2>2. QED BY <1>3, <1>4, <1>5, <2>1, AddsEvent
  <1>7. TypeOK'
    <2>1. faults' \in 0..MaxFaults /\ xacts' \subseteq Xact
      BY <1>1, <1>2, <1>4, BoundsAssumption DEF TypeOK
    <2>2. QED BY <1>1, <1>4, <1>6, <2>1 DEF TypeOK
  <1>8. Finite'
    <2>1. IsFiniteSet(xacts \ {x})
      BY <1>1, FS_RemoveElement DEF Finite
    <2>2. QED BY <1>1, <1>4, <2>1, FS_AddElement DEF Finite
  <1>9. Lifetime' /\ NoMbsLeft'
    BY <1>1, <1>4 DEF Lifetime, NoMbsLeft
  <1>10. QED BY <1>6, <1>7, <1>8, <1>9 DEF IngInv

-----------------------------------------------------------------------------
(* The handlers that change neither the MBS Sessions nor the requests to   *)
(* the MBSTF.                                                              *)

\* The events of sendMbstfDelRequests, behind those that wait.
LEMMA DelEventsQueued ==
    ASSUME IngInv, Taken # "none", NEW es \in DelEvents, queue' = Tail(queue) \o es,
           UNCHANGED <<registry, wire, mbstf, mbs, ctx, session>>
    PROVE  /\ queue' \in Seq(Event) /\ EventsOK' /\ WireOK' /\ TwoPhases'
           /\ RepliesOK' /\ DeletedAfter'
  <1>1. TypeOK /\ EventsOK
    BY DEF IngInv
  <1>2. es \in Seq(Event)
    BY <1>1, DelEventsMade
  <1>3. \A i \in DOMAIN es : /\ es[i].type = "DELETE_SESSION"
                             /\ es[i].id \in 1..Len(registry')
    BY <1>1, DelEventsMade
  <1>4. \A i \in DOMAIN es : EventOK(es[i])'
    BY <1>3 DEF EventOK
  <1>5. NoNo => NoNo'
    BY DEF NoNo
  <1>6. queue # << >>
    BY <1>1, OneTaken
  <1>7. \A i \in DOMAIN es : es[i].type # "SMF_REPLY"
    BY <1>3
  <1>8. QED BY <1>2, <1>4, <1>5, <1>6, <1>7, PlainFrame

LEMMA HandleAfDeleteInv ==
    ASSUME IngInv, HandleAfDelete
    PROVE  IngInv'
  <1> DEFINE i == Head(queue).req
  <1>1. TypeOK /\ Finite /\ Lifetime /\ NoMbsLeft /\ EventsOK
    BY DEF IngInv
  <1>2. Taken = "AF_DELETE"
    BY DEF HandleAfDelete
  <1>3. /\ UNCHANGED <<session, ctx, mbs, registry, xacts, wire, mbstf, post, svc, faults, abort>>
        /\ \/ /\ \E es \in DelEvents : queue' = Tail(queue) \o es
              /\ del' = [del EXCEPT ![i] = "pending"]
           \/ queue' = Tail(queue) /\ del' = [del EXCEPT ![i] = "404"]
    BY DEF HandleAfDelete, peers
  <1> HIDE DEF i
  <1>4. /\ queue' \in Seq(Event) /\ EventsOK' /\ WireOK' /\ TwoPhases'
        /\ RepliesOK' /\ DeletedAfter'
    <2>1. CASE queue' = Tail(queue)
      <3>1. NoNo => NoNo'
        BY <1>3 DEF NoNo
      <3>2. QED BY <1>2, <1>3, <2>1, <3>1, TakesEvent
    <2>2. CASE \E es \in DelEvents : queue' = Tail(queue) \o es
      BY <1>2, <1>3, <2>2, DelEventsQueued
    <2>3. QED BY <1>3, <2>1, <2>2
  <1>5. TypeOK'
    BY <1>1, <1>3, <1>4 DEF TypeOK
  <1>6. Finite' /\ Lifetime' /\ NoMbsLeft'
    <2>1. session # "none"
      BY <1>1, <1>2 DEF Lifetime, Taken
    <2>2. QED BY <1>1, <1>3, <2>1 DEF Finite, Lifetime, NoMbsLeft
  <1>7. QED BY <1>4, <1>5, <1>6 DEF IngInv

LEMMA HandleServiceDeleteInv ==
    ASSUME IngInv, HandleServiceDelete
    PROVE  IngInv'
  <1>1. TypeOK /\ Finite /\ Lifetime /\ NoMbsLeft /\ EventsOK
    BY DEF IngInv
  <1>2. Taken = "SERVICE_DELETE"
    BY DEF HandleServiceDelete
  <1>3. UNCHANGED <<session, ctx, mbs, registry, xacts, wire, mbstf, post, del, svc, faults, abort>>
    BY DEF HandleServiceDelete, peers, af
  <1>4. PICK es \in (IF session = "live" THEN DelEvents ELSE {<< >>}) :
             queue' = Tail(queue) \o es
    BY DEF HandleServiceDelete
  <1>5. /\ queue' \in Seq(Event) /\ EventsOK' /\ WireOK' /\ TwoPhases'
        /\ RepliesOK' /\ DeletedAfter'
    <2>1. CASE session # "live"
      <3>1. NoNo => NoNo'
        BY <1>3 DEF NoNo
      <3>2. queue' = Tail(queue)
        BY <1>1, <1>2, <1>4, <2>1, OneTaken
      <3>3. QED BY <1>2, <1>3, <3>1, <3>2, TakesEvent
    <2>2. CASE session = "live"
      BY <1>2, <1>3, <1>4, <2>2, DelEventsQueued
    <2>3. QED BY <2>1, <2>2
  <1>6. TypeOK'
    BY <1>1, <1>3, <1>5 DEF TypeOK
  <1>7. Finite' /\ Lifetime' /\ NoMbsLeft'
    <2>1. session # "none"
      BY <1>1, <1>2 DEF Lifetime, Taken
    <2>2. QED BY <1>1, <1>3, <2>1 DEF Finite, Lifetime, NoMbsLeft
  <1>8. QED BY <1>5, <1>6, <1>7 DEF IngInv

LEMMA HandleDanglingResultInv ==
    ASSUME IngInv, HandleDanglingResult
    PROVE  IngInv'
  <1>1. TypeOK /\ Finite /\ Lifetime /\ NoMbsLeft
    BY DEF IngInv
  <1>2. /\ Taken # "none" /\ queue' = Tail(queue) /\ abort' \in {"no", "dangling"}
        /\ UNCHANGED <<session, ctx, mbs, registry, xacts, wire, mbstf, post, del, svc, faults>>
    BY DEF HandleDanglingResult, peers, af
  <1>3. /\ queue' \in Seq(Event) /\ EventsOK' /\ WireOK' /\ TwoPhases'
        /\ RepliesOK' /\ DeletedAfter'
    <2>1. NoNo => NoNo'
      BY <1>2 DEF NoNo
    <2>2. QED BY <1>2, <2>1, TakesEvent
  <1>4. TypeOK'
    BY <1>1, <1>2, <1>3 DEF TypeOK
  <1>5. Finite' /\ Lifetime' /\ NoMbsLeft'
    <2>1. session # "none"
      BY <1>1, <1>2 DEF Lifetime, Taken
    <2>2. QED BY <1>1, <1>2, <2>1 DEF Finite, Lifetime, NoMbsLeft
  <1>6. QED BY <1>3, <1>4, <1>5 DEF IngInv

LEMMA HandleNoXactInv ==
    ASSUME IngInv, HandleNoXact
    PROVE  IngInv'
  <1>1. TypeOK /\ Finite /\ Lifetime /\ NoMbsLeft
    BY DEF IngInv
  <1>2. /\ Taken # "none" /\ queue' = Tail(queue) /\ abort' = "xact"
        /\ UNCHANGED <<session, ctx, mbs, registry, xacts, wire, mbstf, post, del, svc, faults>>
    BY DEF HandleNoXact, peers, af
  <1>3. /\ queue' \in Seq(Event) /\ EventsOK' /\ WireOK' /\ TwoPhases'
        /\ RepliesOK' /\ DeletedAfter'
    <2>1. NoNo => NoNo'
      BY <1>2 DEF NoNo
    <2>2. QED BY <1>2, <2>1, TakesEvent
  <1>4. TypeOK'
    BY <1>1, <1>2, <1>3 DEF TypeOK
  <1>5. Finite' /\ Lifetime' /\ NoMbsLeft'
    <2>1. session # "none"
      BY <1>1, <1>2 DEF Lifetime, Taken
    <2>2. QED BY <1>1, <1>2, <2>1 DEF Finite, Lifetime, NoMbsLeft
  <1>6. QED BY <1>3, <1>4, <1>5 DEF IngInv

\* A step that takes the transaction of the event, and nothing more.
LEMMA XactTaken ==
    ASSUME IngInv, Taken # "none", OtherXacts # xacts, xacts' = OtherXacts,
           session' = session
    PROVE  /\ xacts' \subseteq Xact /\ IsFiniteSet(xacts') /\ session = "live"
           /\ Lifetime' /\ NoMbsLeft'
  <1>1. TypeOK /\ Finite /\ Lifetime
    BY DEF IngInv
  <1>2. xacts' \subseteq xacts
    BY DEF OtherXacts
  <1>3. IsFiniteSet(xacts')
    BY <1>1, <1>2, FS_Subset DEF Finite
  <1>4. session = "live"
    BY <1>1 DEF OtherXacts, Lifetime
  <1>5. QED BY <1>1, <1>2, <1>3, <1>4 DEF TypeOK, Lifetime, NoMbsLeft

LEMMA HandleClientWaitInv ==
    ASSUME IngInv, HandleClientWait
    PROVE  IngInv'
  <1>1. TypeOK /\ Finite
    BY DEF IngInv
  <1>2. /\ Taken # "none" /\ OtherXacts # xacts /\ xacts' = OtherXacts
        /\ post' = PostAnswer("error") /\ queue' = Tail(queue)
        /\ UNCHANGED <<session, ctx, mbs, registry, wire, mbstf, del, svc, faults, abort>>
    BY DEF HandleClientWait, peers
  <1>3. /\ queue' \in Seq(Event) /\ EventsOK' /\ WireOK' /\ TwoPhases'
        /\ RepliesOK' /\ DeletedAfter'
    <2>1. NoNo => NoNo'
      BY <1>2 DEF NoNo
    <2>2. QED BY <1>2, <2>1, TakesEvent
  <1>4. xacts' \subseteq Xact /\ IsFiniteSet(xacts') /\ Lifetime' /\ NoMbsLeft'
    BY <1>2, XactTaken
  <1>5. TypeOK'
    BY <1>1, <1>2, <1>3, <1>4 DEF TypeOK, PostAnswer
  <1>6. Finite'
    BY <1>1, <1>2, <1>4 DEF Finite
  <1>7. QED BY <1>3, <1>4, <1>5, <1>6 DEF IngInv

LEMMA HandlePostOkInv ==
    ASSUME IngInv, HandlePostOk
    PROVE  IngInv'
  <1>1. TypeOK /\ Finite /\ EventsOK
    BY DEF IngInv
  <1> DEFINE k == registry[Head(queue).id]
             c == [ctx EXCEPT ![k].received = TRUE]
  <1>2. /\ Taken # "none" /\ Taken = "CLIENT" /\ OtherXacts # xacts /\ xacts' = OtherXacts
        /\ ctx' = c /\ post' = IF AllReceived(c) THEN IngestResponse ELSE post
        /\ queue' = Tail(queue)
        /\ UNCHANGED <<session, mbs, registry, wire, mbstf, del, svc, faults, abort>>
    BY DEF HandlePostOk, ProcessDistSession, peers
  <1>3. k \in Keys
    <2>1. Head(queue).id \in 1..Len(registry)
      BY <1>1, <1>2, OneTaken DEF EventOK
    <2>2. QED BY <1>1, <2>1 DEF TypeOK
  <1> HIDE DEF k
  <1>4. /\ c \in [Keys -> [status: {"NO", "CREATED", "DELETED", "FAILED"}, received: BOOLEAN]]
        /\ \A j \in Keys : c[j].status = ctx[j].status
    BY <1>1, <1>3 DEF TypeOK
  <1> HIDE DEF c
  <1>5. /\ queue' \in Seq(Event) /\ EventsOK' /\ WireOK' /\ TwoPhases'
        /\ RepliesOK' /\ DeletedAfter'
    <2>1. NoNo => NoNo'
      BY <1>2, <1>4 DEF NoNo
    <2>2. QED BY <1>2, <2>1, TakesEvent
  <1>6. xacts' \subseteq Xact /\ IsFiniteSet(xacts') /\ Lifetime' /\ NoMbsLeft'
    BY <1>2, XactTaken
  <1>7. TypeOK'
    <2>1. post' \in {"none", "waiting", "created", "error", "gone"}
      BY <1>1, <1>2 DEF TypeOK, IngestResponse, PostAnswer
    <2>2. QED BY <1>1, <1>2, <1>4, <1>5, <1>6, <2>1 DEF TypeOK
  <1>8. Finite'
    BY <1>1, <1>2, <1>6 DEF Finite
  <1>9. QED BY <1>5, <1>6, <1>7, <1>8 DEF IngInv

LEMMA HandlePostErrorInv ==
    ASSUME IngInv, HandlePostError
    PROVE  IngInv'
  <1>1. TypeOK /\ Finite
    BY DEF IngInv
  <1>2. /\ Taken # "none" /\ OtherXacts # xacts /\ xacts' = OtherXacts
        /\ post' = PostAnswer("error")
        /\ UNCHANGED <<session, ctx, mbs, registry, wire, mbstf, del, svc, faults, abort>>
    BY DEF HandlePostError, peers
  <1>3. PICK es \in DelEvents : queue' = Tail(queue) \o es
    BY DEF HandlePostError
  <1>4. /\ queue' \in Seq(Event) /\ EventsOK' /\ WireOK' /\ TwoPhases'
        /\ RepliesOK' /\ DeletedAfter'
    BY <1>2, <1>3, DelEventsQueued
  <1>5. xacts' \subseteq Xact /\ IsFiniteSet(xacts') /\ Lifetime' /\ NoMbsLeft'
    BY <1>2, XactTaken
  <1>6. TypeOK'
    BY <1>1, <1>2, <1>4, <1>5 DEF TypeOK, PostAnswer
  <1>7. Finite'
    BY <1>1, <1>2, <1>5 DEF Finite
  <1>8. QED BY <1>4, <1>5, <1>6, <1>7 DEF IngInv

\* A result of the MB-SMF for one key.
LEMMA ResultType ==
    ASSUME TypeOK, NEW k \in Keys, NEW status \in {"CREATED", "DELETED", "FAILED"}
    PROVE  LET c == [ctx EXCEPT ![k].status = status]
           IN  /\ c \in [Keys -> [status: {"NO", "CREATED", "DELETED", "FAILED"},
                                  received: BOOLEAN]]
               /\ \A j \in Keys : c[j].status = IF j = k THEN status ELSE ctx[j].status
  BY DEF TypeOK

LEMMA HandleCreateOkInv ==
    ASSUME IngInv, HandleCreateOk
    PROVE  IngInv'
  <1>1. TypeOK /\ Finite /\ EventsOK /\ Lifetime /\ NoMbsLeft
    BY DEF IngInv
  <1> DEFINE k == Head(queue).key
             c == [ctx EXCEPT ![k].status = "CREATED"]
  <1>2. /\ Taken # "none" /\ Taken = "CREATE_RESULT" /\ session = "live"
        /\ ctx' = c
        /\ post' = IF AllResponded(c) /\ ~AllCreated(c) THEN PostAnswer("error") ELSE post
        /\ UNCHANGED <<session, mbs, registry, xacts, wire, mbstf, del, svc, faults, abort>>
    BY DEF HandleCreateOk, peers
  <1>3. PICK es \in (IF AllResponded(c) /\ AllCreated(c) THEN ReqEvents(c) ELSE {<< >>}) :
             queue' = Tail(queue) \o es
    BY DEF HandleCreateOk
  <1>4. k \in Keys
    BY <1>1, <1>2, OneTaken, EventFields
  <1> HIDE DEF k
  <1>5. /\ c \in [Keys -> [status: {"NO", "CREATED", "DELETED", "FAILED"}, received: BOOLEAN]]
        /\ \A j \in Keys : c[j].status = IF j = k THEN "CREATED" ELSE ctx[j].status
    BY <1>1, <1>4, ResultType
  <1> HIDE DEF c
  <1>6. NoNo => NoNo'
    BY <1>2, <1>5 DEF NoNo
  <1>7. /\ queue' \in Seq(Event) /\ EventsOK' /\ WireOK' /\ TwoPhases'
        /\ RepliesOK' /\ DeletedAfter'
    <2>1. CASE AllResponded(c) /\ AllCreated(c)
      <3>1. /\ es \in Seq(Event)
            /\ \A i \in DOMAIN es : es[i].type = "REQ_BUILD" /\ es[i].key \in Keys
        BY <1>3, <2>1, BoundsAssumption, ReqEventsMade
      <3>2. NoNo'
        BY <1>2, <2>1 DEF NoNo, AllCreated
      <3>3. /\ \A i \in DOMAIN es : EventOK(es[i])'
            /\ \A i \in DOMAIN es : es[i].type # "SMF_REPLY"
        BY <3>1, <3>2 DEF EventOK
      <3>4. queue # << >>
        BY <1>1, <1>2, OneTaken
      <3>5. QED BY <1>2, <1>3, <1>6, <3>1, <3>3, <3>4, PlainFrame
    <2>2. CASE ~(AllResponded(c) /\ AllCreated(c))
      <3>1. queue' = Tail(queue)
        BY <1>1, <1>2, <1>3, <2>2, OneTaken
      <3>2. QED BY <1>2, <1>6, <3>1, TakesEvent
    <2>3. QED BY <2>1, <2>2
  <1>8. TypeOK'
    BY <1>1, <1>2, <1>5, <1>7 DEF TypeOK, PostAnswer
  <1>9. Finite' /\ Lifetime' /\ NoMbsLeft'
    BY <1>1, <1>2 DEF Finite, Lifetime, NoMbsLeft
  <1>10. QED BY <1>7, <1>8, <1>9 DEF IngInv

-----------------------------------------------------------------------------
(* The handlers that change the MBS Sessions.                              *)

\* The end of the session tells the MB-SMF about every MBS Session.
LEMMA Destroys ==
    ASSUME TypeOK, Destroy
    PROVE  /\ session' = "gone" /\ xacts' = {} /\ mbs' \in [Keys -> MbsSession]
           /\ \A k \in Keys : /\ Len(mbs'[k].ops) \in Nat
                              /\ Len(mbs'[k].ops) >= Len(mbs[k].ops)
           /\ NoMbsLeft'
  <1>1. /\ session' = "gone" /\ xacts' = {}
        /\ mbs' = [k \in Keys |-> DeleteSession(mbs[k])]
    BY DEF Destroy
  <1>2. \A k \in Keys : /\ mbs'[k] \in MbsSession
                        /\ Len(mbs'[k].ops) >= Len(mbs[k].ops)
                        /\ mbs'[k].session => mbs'[k].sent = DELETE
    BY <1>1, Deletes DEF TypeOK
  <1>3. \A k \in Keys : Len(mbs'[k].ops) \in Nat
    BY <1>2 DEF MbsSession
  <1>4. QED BY <1>1, <1>2, <1>3 DEF NoMbsLeft

\* The first event taken in such a step.
LEMMA TakenFrame ==
    ASSUME IngInv, UNCHANGED <<registry, wire, mbstf>>, NoNo => NoNo',
           Taken # "none", queue' = Tail(queue),
           session' = "live" => session = "live",
           \A k \in Keys : Len(mbs'[k].ops) \in Nat /\ Len(mbs'[k].ops) >= Len(mbs[k].ops),
           session' = "live" => \A k \in Keys : mbs'[k].deleted => mbs[k].deleted
    PROVE  /\ queue' \in Seq(Event) /\ EventsOK' /\ WireOK' /\ TwoPhases'
           /\ RepliesOK' /\ DeletedAfter'
  <1>1. TypeOK /\ EventsOK
    BY DEF IngInv
  <1>2. /\ queue # << >> /\ queue' = Tail(queue) \o << >> /\ << >> \in Seq(Event)
        /\ DOMAIN << >> = {}
    BY <1>1, OneTaken
  <1>3. queue' \in Seq(Event) /\ EventsOK' /\ WireOK' /\ TwoPhases'
    BY <1>2, QueueFrame
  <1>4. RepliesOK' /\ DeletedAfter'
    BY <1>2, HandleFrame
  <1>5. QED BY <1>3, <1>4

LEMMA HandleCreateErrorInv ==
    ASSUME IngInv, HandleCreateError
    PROVE  IngInv'
  <1>1. TypeOK /\ Finite /\ EventsOK /\ Lifetime /\ NoMbsLeft
    BY DEF IngInv
  <1> DEFINE k == Head(queue).key
             c == [ctx EXCEPT ![k].status = "FAILED"]
  <1>2. /\ Taken # "none" /\ Taken = "CREATE_RESULT" /\ session = "live"
        /\ ctx' = c /\ queue' = Tail(queue)
        /\ UNCHANGED <<registry, wire, mbstf, del, svc, faults>>
        /\ \/ /\ post' = PostAnswer("error") /\ Destroy
              /\ abort' \in {"no", "dangling"}
           \/ UNCHANGED <<post, session, xacts, mbs, abort>>
    BY DEF HandleCreateError, peers
  <1>3. k \in Keys
    BY <1>1, <1>2, OneTaken, EventFields
  <1> HIDE DEF k
  <1>4. /\ c \in [Keys -> [status: {"NO", "CREATED", "DELETED", "FAILED"}, received: BOOLEAN]]
        /\ \A j \in Keys : c[j].status = IF j = k THEN "FAILED" ELSE ctx[j].status
    BY <1>1, <1>3, ResultType
  <1> HIDE DEF c
  <1>5. NoNo => NoNo'
    BY <1>2, <1>4 DEF NoNo
  <1>6. /\ mbs' \in [Keys -> MbsSession] /\ xacts' \subseteq xacts
        /\ \A j \in Keys : /\ Len(mbs'[j].ops) \in Nat
                           /\ Len(mbs'[j].ops) >= Len(mbs[j].ops)
        /\ \/ session' = "gone" /\ xacts' = {} /\ NoMbsLeft'
           \/ session' = "live" /\ mbs' = mbs
        /\ post' \in {post, "error"} /\ abort' \in {abort, "no", "dangling"}
    <2>1. CASE Destroy
      BY <1>1, <1>2, <2>1, Destroys DEF PostAnswer
    <2>2. CASE UNCHANGED <<post, session, xacts, mbs, abort>>
      BY <1>1, <1>2, <2>2 DEF TypeOK, MbsSession
    <2>3. QED BY <1>2, <2>1, <2>2
  <1>7. /\ queue' \in Seq(Event) /\ EventsOK' /\ WireOK' /\ TwoPhases'
        /\ RepliesOK' /\ DeletedAfter'
    BY <1>2, <1>5, <1>6, TakenFrame
  <1>8. TypeOK'
    <2>1. /\ session' \in {"none", "live", "gone"} /\ xacts' \subseteq Xact
          /\ post' \in {"none", "waiting", "created", "error", "gone"}
          /\ abort' \in {"no", "xact", "dangling", "stream", "null"}
      BY <1>1, <1>6 DEF TypeOK
    <2>2. QED BY <1>1, <1>2, <1>4, <1>6, <1>7, <2>1 DEF TypeOK
  <1>9. Finite'
    BY <1>1, <1>2, <1>6, FS_Subset DEF Finite
  <1>10. Lifetime' /\ NoMbsLeft'
    BY <1>1, <1>6 DEF Lifetime, NoMbsLeft
  <1>11. QED BY <1>7, <1>8, <1>9, <1>10 DEF IngInv

LEMMA HandleDeletedInv ==
    ASSUME IngInv, HandleDeleted
    PROVE  IngInv'
  <1>1. TypeOK /\ Finite /\ EventsOK /\ Lifetime /\ NoMbsLeft
    BY DEF IngInv
  <1> DEFINE k == Head(queue).key
             c == [ctx EXCEPT ![k].status = "DELETED"]
  <1>2. /\ Taken # "none" /\ Taken = "DELETED" /\ session = "live"
        /\ ctx' = c /\ queue' = Tail(queue)
        /\ UNCHANGED <<registry, wire, mbstf, post, svc, faults>>
        /\ \/ /\ abort' \in {abort, "stream"}
              /\ UNCHANGED <<session, xacts, mbs, del>>
           \/ /\ Destroy /\ UNCHANGED abort
              /\ del' = [i \in DOMAIN del |-> IF del[i] = "pending" THEN "204" ELSE del[i]]
    BY DEF HandleDeleted, peers
  <1>3. k \in Keys
    BY <1>1, <1>2, OneTaken, EventFields
  <1> HIDE DEF k
  <1>4. /\ c \in [Keys -> [status: {"NO", "CREATED", "DELETED", "FAILED"}, received: BOOLEAN]]
        /\ \A j \in Keys : c[j].status = IF j = k THEN "DELETED" ELSE ctx[j].status
    BY <1>1, <1>3, ResultType
  <1> HIDE DEF c
  <1>5. NoNo => NoNo'
    BY <1>2, <1>4 DEF NoNo
  <1>6. /\ mbs' \in [Keys -> MbsSession] /\ xacts' \subseteq xacts
        /\ \A j \in Keys : /\ Len(mbs'[j].ops) \in Nat
                           /\ Len(mbs'[j].ops) >= Len(mbs[j].ops)
        /\ \/ session' = "gone" /\ xacts' = {} /\ NoMbsLeft'
           \/ session' = "live" /\ mbs' = mbs
        /\ abort' \in {abort, "stream"}
    <2>1. CASE Destroy /\ UNCHANGED abort
      BY <1>1, <2>1, Destroys
    <2>2. CASE abort' \in {abort, "stream"} /\ UNCHANGED <<session, xacts, mbs, del>>
      BY <1>1, <1>2, <2>2 DEF TypeOK, MbsSession
    <2>3. QED BY <1>2, <2>1, <2>2
  <1>7. /\ queue' \in Seq(Event) /\ EventsOK' /\ WireOK' /\ TwoPhases'
        /\ RepliesOK' /\ DeletedAfter'
    BY <1>2, <1>5, <1>6, TakenFrame
  <1>8. TypeOK'
    <2>1. /\ session' \in {"none", "live", "gone"} /\ xacts' \subseteq Xact
          /\ abort' \in {"no", "xact", "dangling", "stream", "null"}
      BY <1>1, <1>6 DEF TypeOK
    <2>2. del' \in [1..MaxDeletes -> {"none", "sent", "pending", "204", "404", "gone"}]
      <3>1. del \in [1..MaxDeletes -> {"none", "sent", "pending", "204", "404", "gone"}]
        BY <1>1 DEF TypeOK
      <3>2. QED BY <1>2, <3>1
    <2>3. QED BY <1>1, <1>2, <1>4, <1>6, <1>7, <2>1, <2>2 DEF TypeOK
  <1>9. Finite'
    BY <1>1, <1>2, <1>6, FS_Subset DEF Finite
  <1>10. Lifetime' /\ NoMbsLeft'
    BY <1>1, <1>6 DEF Lifetime, NoMbsLeft
  <1>11. QED BY <1>7, <1>8, <1>9, <1>10 DEF IngInv

LEMMA HandleDeleteReplyInv ==
    ASSUME IngInv, HandleDeleteReply
    PROVE  IngInv'
  <1>1. TypeOK /\ Finite /\ EventsOK /\ DeletedAfter
    BY DEF IngInv
  <1> DEFINE id == Head(queue).id
             k == registry[id]
  <1>2. /\ Taken # "none" /\ Taken = "CLIENT" /\ Head(queue).method = "DELETE"
        /\ OtherXacts # xacts /\ xacts' = OtherXacts /\ queue' = Tail(queue)
        /\ UNCHANGED <<session, ctx, registry, wire, mbstf, post, del, svc, faults, abort>>
        /\ \/ Head(queue).ok /\ mbs' = [mbs EXCEPT ![k] = DeleteSession(mbs[k])]
           \/ UNCHANGED mbs
    BY DEF HandleDeleteReply, DistSessionDeleted, peers, af
  <1>3. id \in 1..Len(registry) /\ (Head(queue).ok => Ended(id))
    BY <1>1, <1>2, OneTaken DEF EventOK
  <1> HIDE DEF id
  <1>4. k \in Keys
    BY <1>1, <1>3 DEF TypeOK
  <1>5. /\ mbs' \in [Keys -> MbsSession]
        /\ \A j \in Keys : /\ Len(mbs'[j].ops) \in Nat
                           /\ Len(mbs'[j].ops) >= Len(mbs[j].ops)
        /\ \A j \in Keys : mbs'[j].deleted => mbs[j].deleted \/ (j = k /\ Ended(id))
    <2>1. CASE UNCHANGED mbs
      BY <1>1, <2>1 DEF TypeOK, MbsSession
    <2>2. CASE Head(queue).ok /\ mbs' = [mbs EXCEPT ![k] = DeleteSession(mbs[k])]
      <3>1. mbs[k] \in MbsSession /\ mbs \in [Keys -> MbsSession]
        BY <1>1, <1>4 DEF TypeOK
      <3>2. /\ DeleteSession(mbs[k]) \in MbsSession
            /\ Len(DeleteSession(mbs[k]).ops) >= Len(mbs[k].ops)
        BY <3>1, Deletes
      <3>3. /\ mbs' \in [Keys -> MbsSession]
            /\ \A j \in Keys : mbs'[j] = IF j = k THEN DeleteSession(mbs[k]) ELSE mbs[j]
        BY <2>2, <3>1, <3>2
      <3>4. \A j \in Keys : Len(mbs'[j].ops) \in Nat /\ Len(mbs[j].ops) \in Nat
        BY <3>1, <3>3 DEF MbsSession
      <3>5. QED BY <1>3, <2>2, <3>2, <3>3, <3>4
    <2>3. QED BY <1>2, <2>1, <2>2
  <1>6. NoNo => NoNo'
    BY <1>2 DEF NoNo
  <1>7. queue' \in Seq(Event) /\ EventsOK' /\ WireOK' /\ TwoPhases' /\ RepliesOK'
    <2>1. /\ queue # << >> /\ queue' = Tail(queue) \o << >> /\ << >> \in Seq(Event)
          /\ DOMAIN << >> = {}
      BY <1>1, <1>2, OneTaken
    <2>2. queue' \in Seq(Event) /\ EventsOK' /\ WireOK' /\ TwoPhases'
      BY <1>2, <1>6, <2>1, QueueFrame
    <2>3. RepliesOK'
      BY <1>1, <1>2, <1>5, <2>1, RepliesStay DEF IngInv
    <2>4. QED BY <2>2, <2>3
  <1>8. DeletedAfter'
    BY <1>1, <1>2, <1>3, <1>5 DEF DeletedAfter, Ended
  <1>9. xacts' \subseteq Xact /\ IsFiniteSet(xacts') /\ Lifetime' /\ NoMbsLeft'
    BY <1>2, XactTaken
  <1>10. TypeOK'
    BY <1>1, <1>2, <1>5, <1>7, <1>9 DEF TypeOK
  <1>11. Finite'
    BY <1>1, <1>2, <1>9 DEF Finite
  <1>12. QED BY <1>7, <1>8, <1>9, <1>10, <1>11 DEF IngInv

LEMMA HandleSmfReplyInv ==
    ASSUME IngInv, HandleSmfReply
    PROVE  IngInv'
  <1>1. /\ TypeOK /\ Finite /\ Lifetime /\ RepliesOK /\ EventsOK /\ NoMbsLeft
        /\ DeletedAfter
    BY DEF IngInv
  <1>2. /\ Taken = "SMF_REPLY" /\ Taken # "none"
        /\ UNCHANGED <<session, ctx, registry, xacts, wire, mbstf, post, del, svc, faults>>
    BY DEF HandleSmfReply, peers, af
  <1>3. CASE session # "live"
    <2>1. queue' = Tail(queue) /\ UNCHANGED <<mbs, abort>>
      BY <1>3 DEF HandleSmfReply
    <2>2. /\ queue' \in Seq(Event) /\ EventsOK' /\ WireOK' /\ TwoPhases'
          /\ RepliesOK' /\ DeletedAfter'
      <3>1. NoNo => NoNo'
        BY <1>2 DEF NoNo
      <3>2. QED BY <1>2, <2>1, <3>1, TakesEvent
    <2>3. TypeOK'
      BY <1>1, <1>2, <2>1, <2>2 DEF TypeOK
    <2>4. Finite' /\ Lifetime' /\ NoMbsLeft'
      <3>1. session # "none"
        BY <1>1, <1>2 DEF Lifetime, Taken
      <3>2. QED BY <1>1, <1>2, <2>1, <3>1 DEF Finite, Lifetime, NoMbsLeft
    <2>5. QED BY <2>2, <2>3, <2>4 DEF IngInv
  <1>4. CASE session = "live"
    <2> DEFINE k == Head(queue).key
               done == Head(queue).ok /\ Head(mbs[k].ops) = DELETE
               r == IF done THEN [type |-> "DELETED", key |-> k]
                            ELSE [Head(queue) EXCEPT !.type = "CREATE_RESULT"]
               t == MbsSessionCallback(mbs[k], done)
    <2>1. /\ mbs' = [mbs EXCEPT ![k] = t] /\ queue' = Append(Tail(queue), r)
          /\ abort' \in {"no", "null"}
      BY <1>4 DEF HandleSmfReply
    <2>2. k \in Keys /\ Head(queue).ok \in BOOLEAN /\ Head(queue).type = "SMF_REPLY"
      BY <1>1, <1>2, OneTaken, EventFields
    <2>3. r \in Event /\ r.type \in {"DELETED", "CREATE_RESULT"}
      BY <1>1, <1>2, <2>2, OneTaken, EventFields, PlainEvents
    <2>4. done \in BOOLEAN
      BY <2>2
    <2> HIDE DEF r, k, done
    <2>5. PICK e \in Event : /\ queue' = Append(Tail(queue), e)
                              /\ e.type \in {"DELETED", "CREATE_RESULT"}
      BY <2>1, <2>3
    <2>6. /\ \A j \in Keys : UntakenReplies(j) = Replies(queue, j)
          /\ \A j \in Keys : UntakenReplies(j)' = Replies(queue', j)
      BY DEF UntakenReplies, Replies, RepliesAt
    <2>7. queue \in Seq(Event) /\ queue # << >> /\ Tail(queue) \in Seq(Event)
      BY <1>1, <1>2, OneTaken DEF TypeOK
    <2>8. \A j \in Keys : /\ Replies(queue', j) = Replies(Tail(queue), j)
                          /\ Replies(Tail(queue), j) <= Replies(queue, j)
                          /\ Replies(queue, j) \in Nat /\ Replies(Tail(queue), j) \in Nat
                          /\ j = k => Replies(Tail(queue), j) = Replies(queue, j) - 1
      <3> SUFFICES ASSUME NEW j \in Keys
                   PROVE  /\ Replies(queue', j) = Replies(Tail(queue), j)
                          /\ Replies(Tail(queue), j) <= Replies(queue, j)
                          /\ Replies(queue, j) \in Nat /\ Replies(Tail(queue), j) \in Nat
                          /\ j = k => Replies(Tail(queue), j) = Replies(queue, j) - 1
        OBVIOUS
      <3>1. Replies(queue, j) \in Nat /\ Replies(Tail(queue), j) \in Nat
        BY <2>7, RepliesFinite
      <3>2. Replies(queue', j) = Replies(Tail(queue), j)
        <4>1. Replies(Append(Tail(queue), e), j) = Replies(Tail(queue), j) + 0
          BY <2>7, <2>5, RepliesOne
        <4>2. QED BY <2>5, <3>1, <4>1
      <3>3. Replies(Tail(queue), j) <= Replies(queue, j)
        BY <2>7, RepliesTaken
      <3>4. j = k => Replies(Tail(queue), j) = Replies(queue, j) - 1
        BY <2>2, <2>7, RepliesTaken DEF k
      <3>5. QED BY <3>1, <3>2, <3>3, <3>4
    <2>9. \A j \in Keys : /\ Replies(queue, j) <= Len(mbs[j].ops)
                          /\ mbs[j] \in MbsSession /\ Len(mbs[j].ops) \in Nat
      BY <1>1, <1>4, <2>6 DEF RepliesOK, TypeOK, MbsSession
    <2>10. mbs[k].ops # << >>
      <3>1. Len(mbs[k].ops) # 0
        BY <2>2, <2>8, <2>9
      <3>2. QED BY <3>1
    <2>11. t \in MbsSession /\ Len(t.ops) >= Len(mbs[k].ops) - 1 /\ t.deleted = mbs[k].deleted
      BY <2>2, <2>4, <2>9, <2>10, CallsBack
    <2>12. Len(t.ops) \in Nat
      BY <2>11 DEF MbsSession
    <2> HIDE DEF t
    <2>13. /\ mbs' \in [Keys -> MbsSession]
           /\ \A j \in Keys : mbs'[j] = IF j = k THEN t ELSE mbs[j]
      BY <1>1, <2>1, <2>2, <2>11 DEF TypeOK
    <2>14. RepliesOK'
      <3> SUFFICES ASSUME NEW j \in Keys PROVE UntakenReplies(j)' <= Len(mbs'[j].ops)
        BY DEF RepliesOK
      <3>1. CASE j = k
        BY <2>6, <2>8, <2>9, <2>11, <2>12, <2>13, <3>1
      <3>2. CASE j # k
        BY <2>6, <2>8, <2>9, <2>13, <3>2
      <3>3. QED BY <3>1, <3>2
    <2>15. queue' \in Seq(Event) /\ EventsOK' /\ WireOK' /\ TwoPhases'
      <3>1. EventOK(e)'
        BY <2>5 DEF EventOK
      <3>2. queue' = Tail(queue) \o <<e>> /\ <<e>> \in Seq(Event)
            /\ \A j \in DOMAIN <<e>> : <<e>>[j] = e
        BY <2>7, <2>5
      <3>3. NoNo => NoNo'
        BY <1>2 DEF NoNo
      <3>4. QED BY <1>2, <2>7, <3>1, <3>2, <3>3, QueueFrame
    <2>16. TypeOK'
      BY <1>1, <1>2, <2>1, <2>13, <2>15 DEF TypeOK
    <2>17. DeletedAfter'
      BY <1>1, <1>2, <1>4, <2>2, <2>11, <2>13 DEF DeletedAfter, Ended
    <2>18. Finite' /\ Lifetime' /\ NoMbsLeft'
      BY <1>1, <1>2, <1>4 DEF Finite, Lifetime, NoMbsLeft
    <2>19. QED BY <2>14, <2>15, <2>16, <2>17, <2>18 DEF IngInv
  <1>5. QED BY <1>3, <1>4

\* A request that does not bring a distribution session back.
LEMMA MoreWire ==
    ASSUME IngInv, NEW w, wire' = wire \cup {w}, UNCHANGED mbstf,
           NoNo => NoNo', Taken # "none", queue' = Tail(queue),
           Len(registry') \in Nat, Len(registry) <= Len(registry'),
           w.id \in 1..Len(registry'),
           w.method = "POST" => w.id \notin 1..Len(registry)
    PROVE  /\ queue' \in Seq(Event) /\ EventsOK' /\ WireOK'
           /\ \A id \in 1..Len(registry) : Ended(id) => Ended(id)'
  <1>1. TypeOK /\ EventsOK /\ WireOK
    BY DEF IngInv
  <1>2. \A id \in 1..Len(registry) : Ended(id) => Ended(id)'
    BY DEF Ended
  <1>3. /\ queue # << >> /\ queue' = Tail(queue) \o << >> /\ << >> \in Seq(Event)
        /\ DOMAIN << >> = {}
    BY <1>1, OneTaken
  <1>4. \A e \in Event : EventOK(e) => EventOK(e)'
    BY <1>1, <1>2, EventsStay
  <1>5. queue' \in Seq(Event) /\ EventsOK'
    BY <1>1, <1>3, <1>4, QueueStep
  <1>6. WireOK'
    <2>1. Len(registry) \in Nat
      BY <1>1 DEF TypeOK
    <2>2. 1..Len(registry) \subseteq 1..Len(registry')
      BY <2>1
    <2>3. QED BY <1>1, <2>2 DEF WireOK
  <1>7. QED BY <1>2, <1>5, <1>6

LEMMA HandleReqBuildInv ==
    ASSUME IngInv, HandleReqBuild
    PROVE  IngInv'
  <1>1. /\ TypeOK /\ Finite /\ Lifetime /\ RepliesOK /\ EventsOK /\ NoMbsLeft
        /\ DeletedAfter
    BY DEF IngInv
  <1>2. /\ Taken = "REQ_BUILD" /\ Taken # "none" /\ queue' = Tail(queue)
        /\ UNCHANGED <<session, ctx, mbs, mbstf, post, del, svc, faults, abort>>
    BY DEF HandleReqBuild, af
  <1>3. NoNo /\ NoNo'
    BY <1>1, <1>2, OneTaken DEF EventOK, NoNo
  <1>4. session # "none"
    BY <1>1, <1>2 DEF Lifetime, Taken
  <1>5. CASE session # "live"
    <2>1. UNCHANGED <<registry, xacts, wire>>
      BY <1>5 DEF HandleReqBuild
    <2>2. /\ queue' \in Seq(Event) /\ EventsOK' /\ WireOK' /\ TwoPhases'
          /\ RepliesOK' /\ DeletedAfter'
      BY <1>2, <1>3, <2>1, TakesEvent
    <2>3. TypeOK'
      BY <1>1, <1>2, <2>1, <2>2 DEF TypeOK
    <2>4. Finite' /\ Lifetime' /\ NoMbsLeft'
      BY <1>1, <1>2, <1>4, <2>1 DEF Finite, Lifetime, NoMbsLeft
    <2>5. QED BY <2>2, <2>3, <2>4 DEF IngInv
  <1>6. CASE session = "live"
    <2> DEFINE k == Head(queue).key
               n == Len(registry) + 1
    <2>1. registry' = Append(registry, k) /\ Send("POST", n)
      BY <1>6 DEF HandleReqBuild, RegisterDistSession
    <2>2. k \in Keys
      BY <1>1, <1>2, OneTaken, EventFields
    <2>3. /\ registry \in Seq(Keys) /\ Len(registry) \in Nat
          /\ registry' \in Seq(Keys) /\ Len(registry') = n
          /\ \A id \in 1..Len(registry) : registry'[id] = registry[id]
      BY <1>1, <2>1, <2>2 DEF TypeOK
    <2>4. n \in Nat /\ "POST" \in Methods
      BY <2>3 DEF Methods
    <2> HIDE DEF k, n
    <2>5. PICK w : wire' = wire \cup {w} /\ w.method = "POST" /\ w.id = n
      BY <1>1, <2>1, <2>4, Sends
    <2>6. /\ xacts' \subseteq Xact /\ wire' \subseteq [xid: Nat, method: Methods, id: Nat]
          /\ Finite'
      BY <1>1, <2>1, <2>4, Sends
    <2>7. /\ Len(registry') \in Nat /\ Len(registry) <= Len(registry')
          /\ n \in 1..Len(registry') /\ n \notin 1..Len(registry)
      BY <2>3 DEF n
    <2>8. /\ queue' \in Seq(Event) /\ EventsOK' /\ WireOK'
          /\ \A id \in 1..Len(registry) : Ended(id) => Ended(id)'
      BY <1>2, <1>3, <2>5, <2>7, MoreWire
    <2>9. TypeOK'
      BY <1>1, <1>2, <2>3, <2>6, <2>8 DEF TypeOK
    <2>10. RepliesOK'
      <3>1. /\ queue # << >> /\ queue' = Tail(queue) \o << >> /\ << >> \in Seq(Event)
            /\ DOMAIN << >> = {}
        BY <1>1, <1>2, OneTaken
      <3>2. \A j \in Keys : /\ Len(mbs'[j].ops) \in Nat
                            /\ Len(mbs'[j].ops) >= Len(mbs[j].ops)
        BY <1>1, <1>2 DEF TypeOK, MbsSession
      <3>3. QED BY <1>1, <1>2, <3>1, <3>2, RepliesStay
    <2>11. DeletedAfter'
      <3> SUFFICES ASSUME NEW j \in Keys, mbs'[j].deleted
                   PROVE  \E id \in 1..Len(registry') : registry'[id] = j /\ Ended(id)'
        BY DEF DeletedAfter
      <3>1. PICK id \in 1..Len(registry) : registry[id] = j /\ Ended(id)
        BY <1>1, <1>2, <1>6 DEF DeletedAfter
      <3>2. id \in 1..Len(registry')
        BY <2>3, <2>7
      <3>3. QED BY <2>3, <2>8, <3>1, <3>2
    <2>12. Lifetime' /\ TwoPhases' /\ NoMbsLeft'
      BY <1>1, <1>2, <1>3, <1>6 DEF Lifetime, TwoPhases, NoMbsLeft, NoNo
    <2>13. QED BY <2>6, <2>8, <2>9, <2>10, <2>11, <2>12 DEF IngInv
  <1>7. QED BY <1>5, <1>6

LEMMA HandleDeleteSessionInv ==
    ASSUME IngInv, HandleDeleteSession
    PROVE  IngInv'
  <1>1. /\ TypeOK /\ Finite /\ Lifetime /\ RepliesOK /\ EventsOK /\ NoMbsLeft
        /\ DeletedAfter /\ TwoPhases
    BY DEF IngInv
  <1> DEFINE id == Head(queue).id
             k == registry[id]
             t == PushChanges(SetActivityStatus(mbs[k], INACTIVE))
  <1>2. /\ Taken = "DELETE_SESSION" /\ Taken # "none" /\ queue' = Tail(queue)
        /\ UNCHANGED <<session, ctx, registry, mbstf, post, del, svc, faults>>
    BY DEF HandleDeleteSession, af
  <1>3. NoNo => NoNo'
    BY <1>2 DEF NoNo
  <1>4. session # "none"
    BY <1>1, <1>2 DEF Lifetime, Taken
  <1>5. CASE session # "live"
    <2>1. UNCHANGED <<mbs, xacts, wire, abort>>
      BY <1>5 DEF HandleDeleteSession
    <2>2. /\ queue' \in Seq(Event) /\ EventsOK' /\ WireOK' /\ TwoPhases'
          /\ RepliesOK' /\ DeletedAfter'
      BY <1>2, <1>3, <2>1, TakesEvent
    <2>3. TypeOK'
      BY <1>1, <1>2, <2>1, <2>2 DEF TypeOK
    <2>4. Finite' /\ Lifetime' /\ NoMbsLeft'
      BY <1>1, <1>2, <1>4, <2>1 DEF Finite, Lifetime, NoMbsLeft
    <2>5. QED BY <2>2, <2>3, <2>4 DEF IngInv
  <1>6. CASE session = "live"
    <2>1. /\ mbs' = [mbs EXCEPT ![k] = t] /\ Send("DELETE", id)
          /\ abort' \in {"no", "null"}
      BY <1>6 DEF HandleDeleteSession
    <2>2. id \in 1..Len(registry) /\ Len(registry) \in Nat
      BY <1>1, <1>2, OneTaken DEF EventOK, TypeOK
    <2>3. id \in Nat /\ k \in Keys /\ "DELETE" \in Methods
      BY <1>1, <2>2 DEF TypeOK, Methods
    <2> HIDE DEF id, k
    <2>4. mbs[k] \in MbsSession /\ mbs \in [Keys -> MbsSession]
      BY <1>1, <2>3 DEF TypeOK
    <2>5. LET s == SetActivityStatus(mbs[k], INACTIVE)
          IN  s \in MbsSession /\ s.ops = mbs[k].ops /\ s.deleted = mbs[k].deleted
      BY <2>4, SetsStatus DEF ActivityStatus
    <2>6. t \in MbsSession /\ Len(t.ops) >= Len(mbs[k].ops) /\ t.deleted = mbs[k].deleted
      BY <2>5, Pushes
    <2> HIDE DEF t
    <2>7. /\ mbs' \in [Keys -> MbsSession]
          /\ \A j \in Keys : mbs'[j] = IF j = k THEN t ELSE mbs[j]
      BY <2>1, <2>3, <2>4, <2>6
    <2>8. \A j \in Keys : /\ mbs'[j].deleted = mbs[j].deleted
                          /\ Len(mbs'[j].ops) \in Nat
                          /\ Len(mbs'[j].ops) >= Len(mbs[j].ops)
      <3>1. \A j \in Keys : Len(mbs'[j].ops) \in Nat /\ Len(mbs[j].ops) \in Nat
        BY <1>1, <2>7 DEF TypeOK, MbsSession
      <3>2. QED BY <2>6, <2>7, <3>1
    <2>9. PICK w : wire' = wire \cup {w} /\ w.method = "DELETE" /\ w.id = id
      BY <1>1, <2>1, <2>3, Sends
    <2>10. /\ xacts' \subseteq Xact /\ wire' \subseteq [xid: Nat, method: Methods, id: Nat]
           /\ Finite'
      BY <1>1, <2>1, <2>3, Sends
    <2>11. /\ queue' \in Seq(Event) /\ EventsOK' /\ WireOK'
           /\ \A i \in 1..Len(registry) : Ended(i) => Ended(i)'
      BY <1>2, <1>3, <2>2, <2>9, MoreWire
    <2>12. TypeOK'
      BY <1>1, <1>2, <2>1, <2>7, <2>10, <2>11 DEF TypeOK
    <2>13. RepliesOK'
      <3>1. /\ queue # << >> /\ queue' = Tail(queue) \o << >> /\ << >> \in Seq(Event)
            /\ DOMAIN << >> = {}
        BY <1>1, <1>2, OneTaken
      <3>2. QED BY <1>1, <1>2, <2>8, <3>1, RepliesStay
    <2>14. DeletedAfter'
      BY <1>1, <1>2, <1>6, <2>8, <2>11 DEF DeletedAfter
    <2>15. Lifetime' /\ TwoPhases' /\ NoMbsLeft'
      BY <1>1, <1>2, <1>6 DEF Lifetime, TwoPhases, NoMbsLeft
    <2>16. QED BY <2>10, <2>11, <2>12, <2>13, <2>14, <2>15 DEF IngInv
  <1>7. QED BY <1>5, <1>6

-----------------------------------------------------------------------------
(* The invariant and what follows from it.                                 *)

LEMMA IngInvInit ==
    ASSUME Init PROVE IngInv
  <1>1. TypeOK
    <2>1. NoMbsSession(INACTIVE) \in MbsSession
      <3>1. NewMbsSession(INACTIVE) \in MbsSession
        BY DEF NewMbsSession, MbsSession, MbsRequest, ActivityStatus
      <3>2. QED BY <3>1 DEF NoMbsSession, MbsSession
    <2>2. 0 \in 0..MaxFaults
      BY BoundsAssumption
    <2>3. mbs \in [Keys -> MbsSession]
      BY <2>1 DEF Init
    <2>4. ctx \in [Keys -> [status: {"NO", "CREATED", "DELETED", "FAILED"},
                            received: BOOLEAN]]
      BY DEF Init
    <2>5. registry \in Seq(Keys) /\ queue \in Seq(Event)
      BY DEF Init
    <2>6. QED BY <2>2, <2>3, <2>4, <2>5 DEF Init, TypeOK
  <1>2. Finite
    BY FS_EmptySet DEF Init, Finite
  <1>3. Lifetime /\ RepliesOK /\ NoMbsLeft /\ DeletedAfter
    BY DEF Init, Lifetime, RepliesOK, NoMbsLeft, DeletedAfter
  <1>4. EventsOK
    BY DEF Init, EventsOK
  <1>5. WireOK /\ TwoPhases
    BY DEF Init, WireOK, TwoPhases
  <1>6. QED BY <1>1, <1>2, <1>3, <1>4, <1>5 DEF IngInv

LEMMA IngInvStep ==
    ASSUME IngInv, [Next]_vars PROVE IngInv'
  <1>1. CASE UNCHANGED vars
    BY <1>1 DEF vars, IngInv, TypeOK, Finite, Lifetime, RepliesOK, EventsOK, WireOK,
                TwoPhases, NoMbsLeft, DeletedAfter, UntakenReplies, EventOK, NoNo, Ended
  <1>2. CASE PostUserDataIngSession
    BY <1>2, PostInv
  <1>3. CASE \E i \in 1..MaxDeletes : AfDelete(i)
    BY <1>3, AfDeleteInv
  <1>4. CASE ServiceDeleteRequest
    BY <1>4, ServiceDeleteInv
  <1>5. CASE AfDisconnect
    BY <1>5, AfDisconnectInv
  <1>6. CASE SmfAnswers
    BY <1>6, SmfAnswerInv DEF SmfAnswers
  <1>7. CASE StfAnswers
    BY <1>7, StfAnswerInv DEF StfAnswers
  <1>8. CASE \E x \in xacts : ClientWaitExpires(x)
    BY <1>8, ClientWaitExpiresInv
  <1>9. CASE Dispatch
    BY <1>9, HandleAfDeleteInv, HandleServiceDeleteInv, HandleSmfReplyInv,
       HandleDanglingResultInv, HandleCreateOkInv, HandleCreateErrorInv,
       HandleDeletedInv, HandleReqBuildInv, HandleDeleteSessionInv, HandleNoXactInv,
       HandlePostOkInv, HandlePostErrorInv, HandleDeleteReplyInv, HandleClientWaitInv
       DEF Dispatch
  <1>10. QED BY <1>1, <1>2, <1>3, <1>4, <1>5, <1>6, <1>7, <1>8, <1>9 DEF Next

\* The invariant holds of the specification: the ids of the MBSTF, the replies
\* of the MB-SMF and the events in the queue agree with the session's state,
\* whatever fails and however long it runs.
THEOREM IngestConsistent == Spec => []IngInv
  <1>1. Init => IngInv
    BY IngInvInit
  <1>2. IngInv /\ [Next]_vars => IngInv'
    BY IngInvStep
  <1>3. QED BY <1>1, <1>2, PTL DEF Spec

\* Every variable keeps its type: no id in an event, a transaction or a
\* request is one that was never registered.
THEOREM IngestTyped == Spec => []TypeOK
  <1>1. IngInv => TypeOK
    BY DEF IngInv
  <1>2. QED BY <1>1, IngestConsistent, PTL

\* Nothing goes to the MBSTF before the MB-SMF has given a result for every
\* MBS Session (setMBSSessionFlag).
THEOREM CreatesInTwoPhases == Spec => []TwoPhases
  <1>1. IngInv => TwoPhases
    BY DEF IngInv
  <1>2. QED BY <1>1, IngestConsistent, PTL

\* A session that has gone has told the MB-SMF to delete each of its MBS
\* Sessions (deleteUserDataIngSession and the destructors).
THEOREM LeavesNoMbs == Spec => []NoMbsLeft
  <1>1. IngInv => NoMbsLeft
    BY DEF IngInv
  <1>2. QED BY <1>1, IngestConsistent, PTL

\* While the session lives, an MBS Session is deleted only after a
\* distribution session of its key has ended at the MBSTF
\* (setMBSTFDistSessionDeletedFlag).
THEOREM DeletesMbstfFirst == Spec => []MbsAfterMbstf
  <1>1. IngInv => MbsAfterMbstf
    BY DEF IngInv, DeletedAfter, MbsAfterMbstf, Ended
  <1>2. QED BY <1>1, IngestConsistent, PTL

-----------------------------------------------------------------------------
(* The promise of the 201.  While the AF waits for the answer to its POST  *)
(* and nobody removes the service, nothing is being deleted yet.           *)

Awaited == post = "waiting" /\ ~svc

\* The MB-SMF was not asked to delete the MBS Session.
Undeleted(s) == ~s.deleted /\ \A i \in DOMAIN s.ops : s.ops[i] # DELETE

\* The event deletes nothing; a 201 of the MBSTF is about a session it has.
CreatesOnly(e) ==
    /\ e.type \notin {"AF_DELETE", "SERVICE_DELETE", "DELETE_SESSION", "DELETED"}
    /\ e.type = "CLIENT" => e.method = "POST" /\ (e.ok => e.id \in mbstf)

EventsCreate == \A i \in DOMAIN queue : CreatesOnly(queue[i])

\* A key is as far as the answers say.
KeyOK(k) == /\ Undeleted(mbs[k]) /\ ctx[k].status # "DELETED"
            /\ ctx[k].received => AtMbstf(k) # {}

\* All keys, and the requests to the MBSTF.
KeysCreate == /\ \A k \in Keys : KeyOK(k)
              /\ \A w \in wire : w.method = "POST"
              /\ NoNo => AllCreated(ctx)

Fresh == session = "none" => \A k \in Keys : ctx[k].status = "NO" /\ ~ctx[k].received

CreateInv == Fresh /\ (Awaited => EventsCreate /\ KeysCreate)

\* A handle that was not deleted is not deleted by pushing.
LEMMA PushesNoDelete ==
    ASSUME NEW s \in MbsSession, Undeleted(s)
    PROVE  Undeleted(PushChanges(s))
  <1>1. s.ops \in Seq(MbsRequest) /\ s.status # DELETE
    BY StatusAssumption DEF MbsSession, ActivityStatus
  <1>2. CASE s.inFlight
    <2>1. PushChanges(s) = [s EXCEPT !.sendUpdates = TRUE]
      BY <1>2 DEF PushChanges
    <2>2. PushChanges(s).ops = s.ops /\ PushChanges(s).deleted = s.deleted
      BY <2>1 DEF MbsSession
    <2>3. QED BY <2>2 DEF Undeleted
  <1>3. CASE ~s.inFlight /\ LibHasChanges(s)
    <2>1. Target(s) = s.status
      BY DEF Target, Undeleted
    <2>2. LibPush(s) = [s EXCEPT !.sent = s.status, !.ops = Append(s.ops, s.status)]
      BY <1>3, <2>1 DEF LibPush
    <2>3. PushChanges(s) = [LibPush(s) EXCEPT !.inFlight = TRUE, !.sendUpdates = FALSE]
      BY <1>3 DEF PushChanges
    <2>4. /\ PushChanges(s).ops = Append(s.ops, s.status)
          /\ PushChanges(s).deleted = s.deleted
      BY <2>2, <2>3 DEF MbsSession
    <2>5. \A i \in DOMAIN Append(s.ops, s.status) : Append(s.ops, s.status)[i] # DELETE
      <3> SUFFICES ASSUME NEW i \in DOMAIN Append(s.ops, s.status)
                   PROVE  Append(s.ops, s.status)[i] # DELETE
        OBVIOUS
      <3>1. s.status \in MbsRequest
        BY DEF MbsSession, MbsRequest
      <3>2. \/ i \in DOMAIN s.ops /\ Append(s.ops, s.status)[i] = s.ops[i]
            \/ Append(s.ops, s.status)[i] = s.status
        BY <1>1, <3>1
      <3>3. QED BY <1>1, <3>2 DEF Undeleted
    <2>6. QED BY <2>4, <2>5 DEF Undeleted
  <1>4. CASE ~s.inFlight /\ ~LibHasChanges(s)
    BY <1>4 DEF PushChanges
  <1>5. QED BY <1>2, <1>3, <1>4

LEMMA CreatesUndeleted ==
    ASSUME NEW status \in ActivityStatus, NEW resolved \in BOOLEAN
    PROVE  Undeleted(CreateMbsSession(status, resolved))
  <1> DEFINE n == NewMbsSession(status)
  <1>1. n \in MbsSession /\ ~n.deleted /\ n.ops = << >>
    BY DEF NewMbsSession, MbsSession, MbsRequest
  <1>2. ~NoMbsSession(status).deleted /\ NoMbsSession(status).ops = << >>
    BY <1>1 DEF NoMbsSession, MbsSession
  <1>3. Undeleted(n) /\ Undeleted(NoMbsSession(status))
    BY <1>1, <1>2 DEF Undeleted
  <1>4. Undeleted(PushChanges(n))
    <2> HIDE DEF n
    <2>1. QED BY <1>1, <1>3, PushesNoDelete
  <1>5. QED BY <1>3, <1>4 DEF CreateMbsSession

LEMMA CallsBackUndeleted ==
    ASSUME NEW s \in MbsSession, s.ops # << >>, NEW done \in BOOLEAN, Undeleted(s)
    PROVE  Undeleted(MbsSessionCallback(s, done)) /\ Head(s.ops) # DELETE
  <1> DEFINE live == s.session /\ ~done
             a == [s EXCEPT !.ops = Tail(s.ops), !.inFlight = FALSE, !.session = live]
             b == [a EXCEPT !.sendUpdates = FALSE]
  <1>1. s.ops \in Seq(MbsRequest) /\ live \in BOOLEAN
    BY DEF MbsSession
  <1>2. /\ Tail(s.ops) \in Seq(MbsRequest)
        /\ \A i \in DOMAIN Tail(s.ops) : i + 1 \in DOMAIN s.ops /\ Tail(s.ops)[i] = s.ops[i + 1]
        /\ 1 \in DOMAIN s.ops /\ Head(s.ops) = s.ops[1]
    BY <1>1
  <1>3. MbsSessionCallback(s, done) = IF a.sendUpdates THEN PushChanges(b) ELSE a
    BY DEF MbsSessionCallback
  <1> HIDE DEF live
  <1>4. a \in MbsSession /\ a.ops = Tail(s.ops) /\ a.deleted = s.deleted
    BY <1>1, <1>2 DEF MbsSession
  <1> HIDE DEF a
  <1>5. b \in MbsSession /\ b.ops = Tail(s.ops) /\ b.deleted = s.deleted
    BY <1>4 DEF MbsSession
  <1> HIDE DEF b
  <1>6. Undeleted(a) /\ Undeleted(b)
    BY <1>2, <1>4, <1>5 DEF Undeleted
  <1>7. Undeleted(PushChanges(b))
    BY <1>5, <1>6, PushesNoDelete
  <1>8. Head(s.ops) # DELETE
    BY <1>2 DEF Undeleted
  <1>9. QED BY <1>3, <1>6, <1>7, <1>8

\* Events that are added, while no session ends at the MBSTF.
LEMMA EventsCreateStep ==
    ASSUME IngInv, EventsCreate, NEW es \in Seq(Event),
           \/ queue' = queue \o es
           \/ queue # << >> /\ queue' = Tail(queue) \o es,
           \A i \in DOMAIN es : CreatesOnly(es[i])', mbstf \subseteq mbstf'
    PROVE  EventsCreate'
  <1>1. queue \in Seq(Event)
    BY DEF IngInv, TypeOK
  <1>2. \A i \in DOMAIN queue' : \/ \E j \in DOMAIN queue : queue'[i] = queue[j]
                                 \/ \E j \in DOMAIN es : queue'[i] = es[j]
    <2>1. CASE queue' = queue \o es
      BY <1>1, <2>1
    <2>2. CASE queue # << >> /\ queue' = Tail(queue) \o es
      BY <1>1, <2>2
    <2>3. QED BY <2>1, <2>2
  <1>3. \A j \in DOMAIN queue : CreatesOnly(queue[j]) /\ \A e : e = queue[j] => CreatesOnly(e)'
    BY DEF EventsCreate, CreatesOnly
  <1>4. QED BY <1>2, <1>3 DEF EventsCreate

\* A step that leaves keys and requests alone.
LEMMA CreateFrame ==
    ASSUME IngInv, CreateInv, Awaited' => Awaited,
           UNCHANGED <<ctx, mbs, registry, wire, mbstf>>,
           session' = "none" => session = "none",
           NEW es \in Seq(Event),
           \/ queue' = queue \o es
           \/ queue # << >> /\ queue' = Tail(queue) \o es,
           Awaited' => \A i \in DOMAIN es : CreatesOnly(es[i])'
    PROVE  CreateInv'
  <1>1. Fresh'
    BY DEF CreateInv, Fresh
  <1>2. ASSUME Awaited' PROVE EventsCreate' /\ KeysCreate'
    <2>1. Awaited /\ EventsCreate /\ KeysCreate
      BY <1>2 DEF CreateInv
    <2>2. EventsCreate'
      BY <1>2, <2>1, EventsCreateStep
    <2>3. KeysCreate'
      BY <2>1 DEF KeysCreate, KeyOK, AtMbstf, NoNo, AllCreated
    <2>4. QED BY <2>2, <2>3
  <1>3. QED BY <1>1, <1>2 DEF CreateInv

\* The same for one event added, ...
LEMMA CreateAdds ==
    ASSUME IngInv, CreateInv, Awaited' => Awaited,
           UNCHANGED <<ctx, mbs, registry, wire, mbstf>>,
           session' = "none" => session = "none",
           NEW e \in Event, queue' = Append(queue, e), Awaited' => CreatesOnly(e)'
    PROVE  CreateInv'
  <1>1. TypeOK
    BY DEF IngInv
  <1>2. /\ queue' = queue \o <<e>> /\ <<e>> \in Seq(Event)
        /\ Awaited' => \A j \in DOMAIN <<e>> : CreatesOnly(<<e>>[j])'
    BY <1>1, OneEvent
  <1>3. QED BY <1>2, CreateFrame

\* ... and for one taken.
LEMMA CreateTakes ==
    ASSUME IngInv, CreateInv, Awaited' => Awaited,
           UNCHANGED <<ctx, mbs, registry, wire, mbstf>>,
           session' = "none" => session = "none",
           Taken # "none", queue' = Tail(queue)
    PROVE  CreateInv'
  <1>1. TypeOK /\ EventsOK
    BY DEF IngInv
  <1>2. /\ queue # << >> /\ queue' = Tail(queue) \o << >> /\ << >> \in Seq(Event)
        /\ DOMAIN << >> = {}
    BY <1>1, OneTaken
  <1>3. QED BY <1>2, CreateFrame

\* A handler that runs: the session has begun, and the event it takes is one
\* of creation as long as the AF waits.
LEMMA HandlerRuns ==
    ASSUME IngInv, CreateInv, Taken # "none"
    PROVE  /\ session # "none" /\ queue # << >> /\ Taken = Head(queue).type
           /\ Head(queue) \in Event /\ EventOK(Head(queue))
           /\ Awaited => CreatesOnly(Head(queue)) /\ EventsCreate /\ KeysCreate
  <1>1. TypeOK /\ EventsOK /\ Lifetime
    BY DEF IngInv
  <1>2. /\ queue # << >> /\ Taken = Head(queue).type /\ Head(queue) \in Event
        /\ EventOK(Head(queue))
    BY <1>1, OneTaken
  <1>3. session # "none"
    BY <1>1, <1>2 DEF Lifetime
  <1>4. Head(queue) = queue[1] /\ 1 \in DOMAIN queue
    BY <1>1, <1>2 DEF TypeOK
  <1>5. QED BY <1>2, <1>3, <1>4 DEF CreateInv, EventsCreate

\* Where the AF does not wait any more there is nothing to show.
LEMMA NotAwaited ==
    ASSUME session' # "none", ~Awaited'
    PROVE  CreateInv'
  BY DEF CreateInv, Fresh

LEMMA PostCreate ==
    ASSUME IngInv, CreateInv, PostUserDataIngSession
    PROVE  CreateInv'
  <1>1. session = "none" /\ queue = << >> /\ wire = {}
    BY DEF IngInv, PostUserDataIngSession, Lifetime
  <1>2. /\ session' = "live"
        /\ UNCHANGED <<ctx, registry, queue, wire, mbstf>>
    BY DEF PostUserDataIngSession, peers
  <1>3. PICK status \in [Keys -> InitialStatuses], bad \in SUBSET Keys :
           mbs' = [k \in Keys |-> CreateMbsSession(status[k], k \notin bad)]
    BY DEF PostUserDataIngSession, UpdateContexts
  <1>4. \A k \in Keys : ctx[k].status = "NO" /\ ~ctx[k].received
    BY <1>1 DEF CreateInv, Fresh
  <1>5. \A k \in Keys : KeyOK(k)'
    <2> SUFFICES ASSUME NEW k \in Keys PROVE KeyOK(k)'
      OBVIOUS
    <2>1. status[k] \in ActivityStatus /\ (k \notin bad) \in BOOLEAN
      BY BoundsAssumption
    <2>2. Undeleted(CreateMbsSession(status[k], k \notin bad))
      BY <2>1, CreatesUndeleted
    <2>3. Undeleted(mbs'[k])
      BY <1>3, <2>2
    <2>4. QED BY <1>2, <1>4, <2>3 DEF KeyOK, Undeleted
  <1>6. ~NoNo'
    <2>1. 1 \in Keys
      BY BoundsAssumption DEF Keys
    <2>2. QED BY <1>2, <1>4, <2>1 DEF NoNo
  <1>7. EventsCreate' /\ KeysCreate'
    BY <1>1, <1>2, <1>5, <1>6 DEF EventsCreate, KeysCreate
  <1>8. QED BY <1>2, <1>7 DEF CreateInv, Fresh

LEMMA AfCreate ==
    ASSUME IngInv, CreateInv,
           (\E i \in 1..MaxDeletes : AfDelete(i)) \/ ServiceDeleteRequest \/ AfDisconnect
    PROVE  CreateInv'
  <1>1. CASE AfDisconnect
    <2>1. /\ Awaited' => Awaited
          /\ UNCHANGED <<ctx, mbs, registry, wire, mbstf, session, queue>>
      BY <1>1 DEF AfDisconnect, Awaited, peers
    <2>2. queue' = queue \o << >> /\ << >> \in Seq(Event) /\ DOMAIN << >> = {}
      BY <2>1 DEF IngInv, TypeOK
    <2>3. QED BY <2>1, <2>2, CreateFrame
  <1>2. CASE ServiceDeleteRequest
    BY <1>2, NotAwaited DEF ServiceDeleteRequest, Awaited
  <1>3. CASE \E i \in 1..MaxDeletes : AfDelete(i)
    <2>1. session' = session /\ ~Awaited' /\ ctx' = ctx
      BY <1>3 DEF AfDelete, Awaited
    <2>2. QED BY <2>1 DEF CreateInv, Fresh
  <1>4. QED BY <1>1, <1>2, <1>3

LEMMA PeersCreate ==
    ASSUME IngInv, CreateInv, SmfAnswers \/ StfAnswers \/ \E x \in xacts : ClientWaitExpires(x)
    PROVE  CreateInv'
  <1>1. TypeOK /\ Lifetime /\ WireOK
    BY DEF IngInv
  <1>2. CASE SmfAnswers
    <2>1. PICK k \in Keys, ok, problem \in BOOLEAN : SmfAnswer(k, ok, problem)
      BY <1>2 DEF SmfAnswers
    <2> DEFINE e == [type |-> "SMF_REPLY", key |-> k, ok |-> ok, problem |-> problem]
    <2>2. e \in Event /\ e.type = "SMF_REPLY"
      BY PlainEvents
    <2>3. queue' = Append(queue, e)
          /\ UNCHANGED <<ctx, mbs, registry, wire, mbstf, session, post, svc>>
      BY <2>1 DEF SmfAnswer, af, peers
    <2> HIDE DEF e
    <2>4. CreatesOnly(e)' /\ (Awaited' => Awaited)
      BY <2>2, <2>3 DEF CreatesOnly, Awaited
    <2>5. QED BY <2>2, <2>3, <2>4, CreateAdds
  <1>3. CASE \E x \in xacts : ClientWaitExpires(x)
    <2>1. PICK x \in xacts : ClientWaitExpires(x)
      BY <1>3
    <2> DEFINE e == [type |-> "CLIENT_WAIT", xid |-> x.xid]
    <2>2. x.xid \in Nat
      BY <1>1 DEF TypeOK, Xact
    <2>3. e \in Event /\ e.type = "CLIENT_WAIT"
      BY <2>2, PlainEvents
    <2>4. queue' = Append(queue, e)
          /\ UNCHANGED <<ctx, mbs, registry, wire, mbstf, session, post, svc>>
      BY <2>1 DEF ClientWaitExpires, af, peers
    <2> HIDE DEF e
    <2>5. CreatesOnly(e)' /\ (Awaited' => Awaited)
      BY <2>3, <2>4 DEF CreatesOnly, Awaited
    <2>6. QED BY <2>3, <2>4, <2>5, CreateAdds
  <1>4. CASE StfAnswers
    <2>1. PICK w \in wire, ok \in BOOLEAN : StfAnswer(w, ok)
      BY <1>4 DEF StfAnswers
    <2> DEFINE e == [type |-> "CLIENT", xid |-> w.xid, method |-> w.method, id |-> w.id, ok |-> ok]
    <2>2. w.xid \in Nat /\ w.id \in Nat /\ w.method \in Methods
      BY <1>1 DEF TypeOK
    <2>3. /\ e \in Event /\ e.type = "CLIENT" /\ e.method = w.method /\ e.id = w.id /\ e.ok = ok
      BY <2>2, PlainEvents
    <2>4. /\ queue' = Append(queue, e) /\ wire' = wire \ {w}
          /\ UNCHANGED <<ctx, mbs, registry, session, post, svc>>
      BY <2>1 DEF StfAnswer, af
    <2> HIDE DEF e
    <2>5. Fresh'
      BY <2>4 DEF CreateInv, Fresh
    <2>6. ASSUME Awaited' PROVE EventsCreate' /\ KeysCreate'
      <3>1. EventsCreate /\ KeysCreate
        BY <2>4, <2>6 DEF CreateInv, Awaited
      <3>2. w.method = "POST"
        BY <3>1 DEF KeysCreate
      <3>3. mbstf' \in {mbstf \cup {w.id}} \cup (IF ok THEN {} ELSE {mbstf})
        BY <2>1, <3>2 DEF StfAnswer
      <3>4. mbstf \subseteq mbstf' /\ (ok => w.id \in mbstf')
        BY <3>3
      <3>5. CreatesOnly(e)'
        BY <2>3, <3>2, <3>4 DEF CreatesOnly
      <3>6. /\ queue' = queue \o <<e>> /\ <<e>> \in Seq(Event)
            /\ \A j \in DOMAIN <<e>> : CreatesOnly(<<e>>[j])'
        BY <1>1, <2>3, <2>4, <3>5, OneEvent
      <3>7. EventsCreate'
        BY <3>1, <3>4, <3>6, EventsCreateStep
      <3>8. \A k \in Keys : AtMbstf(k) \subseteq AtMbstf(k)'
        BY <2>4, <3>4 DEF AtMbstf
      <3>9. KeysCreate'
        BY <2>4, <3>1, <3>8 DEF KeysCreate, KeyOK, NoNo, AllCreated
      <3>10. QED BY <3>7, <3>9
    <2>7. QED BY <2>5, <2>6 DEF CreateInv
  <1>5. QED BY <1>2, <1>3, <1>4

\* The handlers of deletions do not run while the AF waits, and those that
\* answer it with an error end the wait.
LEMMA DeletingCreate ==
    ASSUME IngInv, CreateInv,
           \/ HandleAfDelete \/ HandleServiceDelete \/ HandleDeleted \/ HandleDeleteSession
           \/ HandlePostError \/ HandleDeleteReply \/ HandleClientWait
    PROVE  CreateInv'
  <1>1. Taken # "none" /\ (session' = session \/ session' = "gone")
    BY DEF HandleAfDelete, HandleServiceDelete, HandleDeleted, HandleDeleteSession,
           HandlePostError, HandleDeleteReply, HandleClientWait, Destroy
  <1>2. session # "none" /\ Taken = Head(queue).type
        /\ (Awaited => CreatesOnly(Head(queue)))
    BY <1>1, HandlerRuns
  <1>3. session' # "none"
    BY <1>1, <1>2
  <1>4. CASE \/ HandleAfDelete \/ HandleServiceDelete \/ HandleDeleted \/ HandleDeleteSession
             \/ HandleDeleteReply
    <2>1. ~Awaited
      BY <1>2, <1>4 DEF HandleAfDelete, HandleServiceDelete, HandleDeleted,
                        HandleDeleteSession, HandleDeleteReply, CreatesOnly
    <2>2. post' = post /\ svc' = svc
      BY <1>4 DEF HandleAfDelete, HandleServiceDelete, HandleDeleted,
                  HandleDeleteSession, HandleDeleteReply, af
    <2>3. QED BY <1>3, <2>1, <2>2, NotAwaited DEF Awaited
  <1>5. CASE HandlePostError \/ HandleClientWait
    <2>1. post' = PostAnswer("error")
      BY <1>5 DEF HandlePostError, HandleClientWait
    <2>2. QED BY <1>3, <2>1, NotAwaited DEF Awaited, PostAnswer
  <1>6. QED BY <1>4, <1>5

LEMMA TakingCreate ==
    ASSUME IngInv, CreateInv, HandleDanglingResult \/ HandleNoXact
    PROVE  CreateInv'
  <1>1. /\ Taken # "none" /\ queue' = Tail(queue)
        /\ UNCHANGED <<ctx, mbs, registry, wire, mbstf, session, post, svc>>
    BY DEF HandleDanglingResult, HandleNoXact, af, peers
  <1>2. Awaited' => Awaited
    BY <1>1 DEF Awaited
  <1>3. QED BY <1>1, <1>2, CreateTakes

\* The reply at the head has a request it answers.
LEMMA ReplyIsAwaited ==
    ASSUME IngInv, session = "live", queue # << >>, Head(queue).type = "SMF_REPLY",
           Head(queue).key \in Keys
    PROVE  mbs[Head(queue).key].ops # << >>
  <1> DEFINE k == Head(queue).key
  <1>1. queue \in Seq(Event) /\ Tail(queue) \in Seq(Event) /\ UntakenReplies(k) <= Len(mbs[k].ops)
    BY DEF IngInv, TypeOK, RepliesOK
  <1>2. Replies(queue, k) \in Nat /\ Replies(Tail(queue), k) \in Nat
    BY <1>1, RepliesFinite
  <1>3. Replies(Tail(queue), k) = Replies(queue, k) - 1
    BY <1>1, RepliesTaken
  <1>4. UntakenReplies(k) = Replies(queue, k)
    BY DEF UntakenReplies, Replies, RepliesAt
  <1>5. Len(mbs[k].ops) # 0
    BY <1>1, <1>2, <1>3, <1>4
  <1>6. QED BY <1>5

LEMMA SmfReplyCreate ==
    ASSUME IngInv, CreateInv, HandleSmfReply
    PROVE  CreateInv'
  <1> DEFINE e == Head(queue)
             k == e.key
             done == e.ok /\ Head(mbs[k].ops) = DELETE
  <1>1. /\ Taken = "SMF_REPLY"
        /\ UNCHANGED <<ctx, registry, wire, mbstf, session, post, svc>>
    BY DEF HandleSmfReply, af, peers
  <1>2. /\ session # "none" /\ queue # << >> /\ e \in Event /\ e.type = "SMF_REPLY"
        /\ (Awaited => EventsCreate /\ KeysCreate)
    BY <1>1, HandlerRuns
  <1>3. TypeOK /\ RepliesOK /\ EventsOK /\ Taken # "none"
    BY <1>1 DEF IngInv
  <1>4. Awaited' => Awaited
    BY <1>1 DEF Awaited
  <1>5. CASE session # "live"
    <2>1. queue' = Tail(queue) /\ mbs' = mbs
      BY <1>5 DEF HandleSmfReply
    <2>2. QED BY <1>1, <1>3, <1>4, <2>1, CreateTakes
  <1>6. CASE session = "live" /\ Awaited'
    <2>1. /\ mbs' = [mbs EXCEPT ![k] = MbsSessionCallback(mbs[k], done)]
          /\ queue' = Append(Tail(queue),
                        IF done THEN [type |-> "DELETED", key |-> k]
                                ELSE [e EXCEPT !.type = "CREATE_RESULT"])
      BY <1>6 DEF HandleSmfReply
    <2>2. k \in Keys /\ e.ok \in BOOLEAN /\ [e EXCEPT !.type = "CREATE_RESULT"] \in Event
          /\ [e EXCEPT !.type = "CREATE_RESULT"].type = "CREATE_RESULT"
      BY <1>2, EventFields
    <2>3. EventsCreate /\ KeysCreate
      BY <1>2, <1>4, <1>6
    <2>4. mbs[k].ops # << >>
      BY <1>2, <1>6, <2>2, ReplyIsAwaited
    <2>5. mbs[k] \in MbsSession /\ Undeleted(mbs[k]) /\ done \in BOOLEAN
      BY <1>3, <2>2, <2>3 DEF TypeOK, KeysCreate, KeyOK
    <2>6. Undeleted(MbsSessionCallback(mbs[k], done)) /\ ~done
      BY <2>4, <2>5, CallsBackUndeleted
    <2>7. PICK r \in Event : queue' = Append(Tail(queue), r) /\ r.type = "CREATE_RESULT"
      BY <2>1, <2>2, <2>6
    <2>8. /\ queue' = Tail(queue) \o <<r>> /\ <<r>> \in Seq(Event)
          /\ \A j \in DOMAIN <<r>> : CreatesOnly(<<r>>[j])'
      <3>1. queue \in Seq(Event) /\ Tail(queue) \in Seq(Event)
        BY <1>2, <1>3 DEF TypeOK
      <3>2. CreatesOnly(r)'
        BY <2>7 DEF CreatesOnly
      <3>3. DOMAIN <<r>> = {1} /\ <<r>>[1] = r
        OBVIOUS
      <3>4. \A j \in DOMAIN <<r>> : CreatesOnly(<<r>>[j])'
        BY <3>2, <3>3 DEF CreatesOnly
      <3>5. QED BY <2>7, <3>1, <3>4
    <2> HIDE DEF done, k, e
    <2>9. EventsCreate'
      BY <1>1, <1>2, <2>3, <2>8, EventsCreateStep
    <2>10. \A j \in Keys : Undeleted(mbs'[j])
      <3>1. mbs \in [Keys -> MbsSession]
        BY <1>3 DEF TypeOK
      <3>2. \A j \in Keys : mbs'[j] = IF j = k THEN MbsSessionCallback(mbs[k], done) ELSE mbs[j]
        BY <2>1, <2>2, <3>1
      <3>3. QED BY <2>3, <2>6, <3>2 DEF KeysCreate, KeyOK
    <2>11. KeysCreate'
      BY <1>1, <2>3, <2>10 DEF KeysCreate, KeyOK, NoNo, AllCreated, AtMbstf, Undeleted
    <2>12. QED BY <1>1, <1>2, <2>9, <2>11 DEF CreateInv, Fresh
  <1>7. CASE ~Awaited'
    BY <1>1, <1>2, <1>7, NotAwaited
  <1>8. QED BY <1>5, <1>6, <1>7

LEMMA CreateOkCreate ==
    ASSUME IngInv, CreateInv, HandleCreateOk
    PROVE  CreateInv'
  <1> DEFINE k == Head(queue).key
             c == [ctx EXCEPT ![k].status = "CREATED"]
  <1>1. /\ Taken = "CREATE_RESULT" /\ ctx' = c
        /\ post' = IF AllResponded(c) /\ ~AllCreated(c) THEN PostAnswer("error") ELSE post
        /\ UNCHANGED <<session, mbs, registry, wire, mbstf, svc>>
    BY DEF HandleCreateOk, peers
  <1>2. PICK es \in (IF AllResponded(c) /\ AllCreated(c) THEN ReqEvents(c) ELSE {<< >>}) :
             queue' = Tail(queue) \o es
    BY DEF HandleCreateOk
  <1>3. /\ session # "none" /\ queue # << >> /\ Head(queue) \in Event
        /\ Head(queue).type = "CREATE_RESULT"
        /\ (Awaited => EventsCreate /\ KeysCreate)
    BY <1>1, HandlerRuns
  <1>4. k \in Keys /\ TypeOK
    BY <1>3, EventFields DEF IngInv
  <1> HIDE DEF k
  <1>5. \A j \in Keys : /\ c[j].status = IF j = k THEN "CREATED" ELSE ctx[j].status
                        /\ c[j].received = ctx[j].received
                        /\ ctx[j].status \in {"NO", "CREATED", "DELETED", "FAILED"}
    BY <1>4 DEF TypeOK
  <1> HIDE DEF c
  <1>6. CASE Awaited'
    <2>1. Awaited /\ ~(AllResponded(c) /\ ~AllCreated(c))
      BY <1>1, <1>6 DEF Awaited, PostAnswer
    <2>2. EventsCreate /\ KeysCreate
      BY <1>3, <2>1
    <2>3. es \in Seq(Event) /\ \A i \in DOMAIN es : CreatesOnly(es[i])'
      <3>1. CASE es \in ReqEvents(c)
        BY <3>1, ReqEventsMade, BoundsAssumption DEF CreatesOnly
      <3>2. CASE es = << >>
        BY <3>2
      <3>3. QED BY <1>2, <3>1, <3>2
    <2>4. EventsCreate'
      BY <1>1, <1>2, <1>3, <2>2, <2>3, EventsCreateStep
    <2>5. \A j \in Keys : KeyOK(j)'
      BY <1>1, <1>5, <2>2 DEF KeysCreate, KeyOK, AtMbstf, Undeleted
    <2>6. NoNo' => AllCreated(ctx')
      BY <1>1, <1>5, <2>1, <2>2 DEF NoNo, KeysCreate, KeyOK, AllResponded
    <2>7. KeysCreate'
      BY <1>1, <2>2, <2>5, <2>6 DEF KeysCreate, AllCreated
    <2>8. QED BY <1>1, <1>3, <2>4, <2>7 DEF CreateInv, Fresh
  <1>7. CASE ~Awaited'
    BY <1>1, <1>3, <1>7, NotAwaited
  <1>8. QED BY <1>6, <1>7

LEMMA CreateErrorCreate ==
    ASSUME IngInv, CreateInv, HandleCreateError
    PROVE  CreateInv'
  <1> DEFINE k == Head(queue).key
             c == [ctx EXCEPT ![k].status = "FAILED"]
  <1>1. /\ Taken = "CREATE_RESULT" /\ session = "live" /\ ctx' = c /\ queue' = Tail(queue)
        /\ IF AllResponded(c) THEN post' = PostAnswer("error") /\ session' = "gone"
                              ELSE post' = post /\ mbs' = mbs /\ session' = session
        /\ UNCHANGED <<registry, wire, mbstf, svc>>
    BY DEF HandleCreateError, Destroy, peers
  <1>2. /\ session # "none" /\ queue # << >> /\ Head(queue) \in Event
        /\ Head(queue).type = "CREATE_RESULT"
        /\ (Awaited => EventsCreate /\ KeysCreate)
    BY <1>1, HandlerRuns
  <1>3. k \in Keys /\ TypeOK
    BY <1>2, EventFields DEF IngInv
  <1> HIDE DEF k
  <1>4. \A j \in Keys : /\ c[j].status = IF j = k THEN "FAILED" ELSE ctx[j].status
                        /\ c[j].received = ctx[j].received
                        /\ ctx[j].status \in {"NO", "CREATED", "DELETED", "FAILED"}
    BY <1>3 DEF TypeOK
  <1> HIDE DEF c
  <1>5. CASE Awaited'
    <2>1. Awaited /\ ~AllResponded(c)
      BY <1>1, <1>5 DEF Awaited, PostAnswer
    <2>2. EventsCreate /\ KeysCreate
      BY <1>2, <2>1
    <2>3. /\ queue' = Tail(queue) \o << >> /\ << >> \in Seq(Event) /\ DOMAIN << >> = {}
      BY <1>1, <1>2, <1>3 DEF TypeOK
    <2>4. EventsCreate'
      BY <1>1, <1>2, <2>2, <2>3, EventsCreateStep
    <2>5. \A j \in Keys : KeyOK(j)'
      BY <1>1, <1>4, <2>1, <2>2 DEF KeysCreate, KeyOK, AtMbstf, Undeleted
    <2>6. ~NoNo'
      BY <1>1, <1>4, <2>1, <2>2 DEF NoNo, KeysCreate, KeyOK, AllResponded
    <2>7. KeysCreate'
      BY <1>1, <2>2, <2>5, <2>6 DEF KeysCreate
    <2>8. QED BY <1>1, <1>2, <2>1, <2>4, <2>7 DEF CreateInv, Fresh
  <1>6. CASE ~Awaited'
    BY <1>1, <1>2, <1>6, NotAwaited
  <1>7. QED BY <1>5, <1>6

LEMMA ReqBuildCreate ==
    ASSUME IngInv, CreateInv, HandleReqBuild
    PROVE  CreateInv'
  <1>1. /\ Taken = "REQ_BUILD" /\ Taken # "none" /\ queue' = Tail(queue)
        /\ UNCHANGED <<ctx, session, mbs, mbstf, post, svc>>
    BY DEF HandleReqBuild, af
  <1>2. session # "none" /\ queue # << >> /\ (Awaited => EventsCreate /\ KeysCreate)
    BY <1>1, HandlerRuns
  <1>3. TypeOK /\ WireOK
    BY DEF IngInv
  <1>4. CASE session # "live"
    BY <1>1, <1>4, CreateTakes DEF HandleReqBuild, Awaited
  <1>5. CASE session = "live" /\ Awaited'
    <2>1. EventsCreate /\ KeysCreate
      BY <1>1, <1>2, <1>5 DEF Awaited
    <2>2. /\ queue' = Tail(queue) \o << >> /\ << >> \in Seq(Event) /\ DOMAIN << >> = {}
      BY <1>1, <1>2, <1>3 DEF TypeOK
    <2>3. EventsCreate'
      BY <1>1, <1>2, <2>1, <2>2, EventsCreateStep
    <2>4. registry' = Append(registry, Head(queue).key) /\ Send("POST", Len(registry) + 1)
      BY <1>5 DEF HandleReqBuild, RegisterDistSession
    <2>5. \A w \in wire' : w.method = "POST"
      BY <2>1, <2>4 DEF Send, KeysCreate
    <2>6. \A id \in mbstf : registry'[id] = registry[id]
      <3>1. Head(queue).key \in Keys
        BY <1>1, HandlerRuns, EventFields
      <3>2. registry \in Seq(Keys) /\ mbstf \subseteq 1..Len(registry)
        BY <1>3 DEF TypeOK, WireOK
      <3>3. QED BY <2>4, <3>1, <3>2
    <2>7. \A j \in Keys : AtMbstf(j)' = AtMbstf(j)
      BY <1>1, <2>6 DEF AtMbstf
    <2>8. KeysCreate'
      BY <1>1, <2>1, <2>5, <2>7 DEF KeysCreate, KeyOK, NoNo, AllCreated
    <2>9. QED BY <1>1, <1>2, <2>3, <2>8 DEF CreateInv, Fresh
  <1>6. CASE ~Awaited'
    BY <1>1, <1>2, <1>6, NotAwaited
  <1>7. QED BY <1>4, <1>5, <1>6

\* A 201 of the MBSTF is about a session of the key that it has.
LEMMA PostOkCreate ==
    ASSUME IngInv, CreateInv, HandlePostOk
    PROVE  CreateInv' /\ (Awaited => AtMbstf(registry[Head(queue).id]) # {})
  <1> DEFINE k == registry[Head(queue).id]
             c == [ctx EXCEPT ![k].received = TRUE]
  <1>1. /\ Taken = "CLIENT" /\ Head(queue).method = "POST" /\ Head(queue).ok
        /\ ctx' = c /\ post' = IF AllReceived(c) THEN IngestResponse ELSE post
        /\ queue' = Tail(queue)
        /\ UNCHANGED <<session, mbs, registry, wire, mbstf, svc>>
    BY DEF HandlePostOk, ProcessDistSession, peers
  <1>2. /\ session # "none" /\ queue # << >> /\ Head(queue) \in Event
        /\ Head(queue).type = "CLIENT" /\ EventOK(Head(queue))
        /\ (Awaited => CreatesOnly(Head(queue)) /\ EventsCreate /\ KeysCreate)
    BY <1>1, HandlerRuns
  <1>3. TypeOK
    BY DEF IngInv
  <1>4. k \in Keys
    BY <1>2, <1>3 DEF EventOK, TypeOK
  <1>5. Awaited => Head(queue).id \in AtMbstf(k)
    BY <1>1, <1>2 DEF CreatesOnly, AtMbstf
  <1> HIDE DEF k
  <1>6. \A j \in Keys : /\ c[j].status = ctx[j].status
                        /\ c[j].received = (j = k \/ ctx[j].received)
    BY <1>3, <1>4 DEF TypeOK
  <1> HIDE DEF c
  <1>7. CASE Awaited'
    <2>1. Awaited
      BY <1>1, <1>7 DEF Awaited, IngestResponse, PostAnswer
    <2>2. EventsCreate /\ KeysCreate /\ Head(queue).id \in AtMbstf(k)
      BY <1>2, <1>5, <2>1
    <2>3. /\ queue' = Tail(queue) \o << >> /\ << >> \in Seq(Event) /\ DOMAIN << >> = {}
      BY <1>1, <1>2, <1>3 DEF TypeOK
    <2>4. EventsCreate'
      BY <1>1, <1>2, <2>2, <2>3, EventsCreateStep
    <2>5. \A j \in Keys : KeyOK(j)'
      BY <1>1, <1>6, <2>2 DEF KeysCreate, KeyOK, AtMbstf, Undeleted
    <2>6. KeysCreate'
      BY <1>1, <1>6, <2>2, <2>5 DEF KeysCreate, NoNo, AllCreated
    <2>7. QED BY <1>1, <1>2, <1>5, <2>4, <2>6 DEF CreateInv, Fresh, k
  <1>8. CASE ~Awaited'
    BY <1>1, <1>2, <1>5, <1>8, NotAwaited DEF k
  <1>9. QED BY <1>7, <1>8

LEMMA CreateInvStep ==
    ASSUME IngInv, CreateInv, [Next]_vars
    PROVE  CreateInv'
  <1>1. CASE UNCHANGED vars
    BY <1>1 DEF vars, CreateInv, Fresh, Awaited, EventsCreate, CreatesOnly, KeysCreate,
                KeyOK, Undeleted, AtMbstf, NoNo, AllCreated
  <1>2. CASE Dispatch
    BY <1>2, DeletingCreate, TakingCreate, SmfReplyCreate, CreateOkCreate,
       CreateErrorCreate, ReqBuildCreate, PostOkCreate DEF Dispatch
  <1>3. CASE ~Dispatch /\ ~UNCHANGED vars
    BY <1>3, PostCreate, AfCreate, PeersCreate DEF Next
  <1>4. QED BY <1>1, <1>2, <1>3

\* Only the last answer of the MBSTF makes the 201.
LEMMA OnlyPostOk ==
    ASSUME [Next]_vars, post' = "created", post # "created"
    PROVE  HandlePostOk
  <1>1. SmfAnswers => post' = post
    BY DEF SmfAnswers, SmfAnswer, af
  <1>2. StfAnswers => post' = post
    BY DEF StfAnswers, StfAnswer, af
  <1>3. (\E x \in xacts : ClientWaitExpires(x)) => post' = post
    BY DEF ClientWaitExpires, af
  <1>4. PostUserDataIngSession \/ ServiceDeleteRequest \/ AfDisconnect
        \/ (\E i \in 1..MaxDeletes : AfDelete(i)) => post' \in {post, "waiting", "gone"}
    BY DEF PostUserDataIngSession, ServiceDeleteRequest, AfDisconnect, AfDelete
  <1>5. Dispatch => HandlePostOk \/ post' \in {post, "error"}
    BY DEF Dispatch, HandleAfDelete, HandleServiceDelete, HandleSmfReply,
           HandleDanglingResult, HandleCreateOk, HandleCreateError, HandleDeleted,
           HandleReqBuild, HandleDeleteSession, HandleNoXact, HandlePostError,
           HandleDeleteReply, HandleClientWait, PostAnswer, af
  <1>6. UNCHANGED vars => post' = post
    BY DEF vars
  <1>7. QED BY <1>1, <1>2, <1>3, <1>4, <1>5, <1>6 DEF Next

\* When the AF is told 201 Created (sendNmbsfMbsUserDataIngestResponse), every
\* distribution session is at the MBSTF, the MB-SMF has created every MBS
\* Session, and none was told to go, unless the MBS User Service is being
\* removed: for any number of keys and faults.
THEOREM CreatedMeansComplete == Spec => CreatedIsComplete
  <1>1. Init => CreateInv
    BY DEF Init, CreateInv, Fresh, Awaited
  <1>2. IngInv /\ CreateInv /\ [Next]_vars => CreateInv'
    BY CreateInvStep
  <1> DEFINE Complete == post' = "created" /\ post # "created" /\ ~svc =>
                            \A k \in Keys : /\ AtMbstf(k) # {}
                                            /\ ctx[k].status = "CREATED"
                                            /\ ~mbs[k].deleted
  <1>3. ASSUME IngInv, CreateInv, [Next]_vars, post' = "created", post # "created", ~svc,
               NEW k \in Keys
        PROVE  AtMbstf(k) # {} /\ ctx[k].status = "CREATED" /\ ~mbs[k].deleted
    <2> DEFINE j == registry[Head(queue).id]
    <2>1. HandlePostOk
      BY <1>3, OnlyPostOk
    <2>2. /\ Taken # "none" /\ Taken = "CLIENT"
          /\ LET c == [ctx EXCEPT ![j].received = TRUE]
             IN  post' = IF AllReceived(c) THEN PostAnswer("created") ELSE post
      BY <2>1 DEF HandlePostOk, ProcessDistSession, IngestResponse
    <2>3. Awaited
      BY <1>3, <2>2 DEF Awaited, PostAnswer
    <2>4. KeysCreate /\ EventOK(Head(queue)) /\ Head(queue).type = "CLIENT" /\ AtMbstf(j) # {}
      BY <1>3, <2>1, <2>2, <2>3, HandlerRuns, PostOkCreate
    <2>5. AllCreated(ctx)
      <3>1. Len(registry) > 0
        BY <1>3, <2>4 DEF EventOK, IngInv, TypeOK
      <3>2. NoNo
        BY <1>3, <3>1 DEF IngInv, TwoPhases, NoNo
      <3>3. QED BY <2>4, <3>2 DEF KeysCreate
    <2>6. k = j \/ ctx[k].received
      <3> HIDE DEF j
      <3>1. [ctx EXCEPT ![j].received = TRUE][k].received
        BY <1>3, <2>2 DEF AllReceived
      <3>2. QED BY <1>3, <3>1 DEF IngInv, TypeOK
    <2>7. QED BY <1>3, <2>4, <2>5, <2>6 DEF KeysCreate, KeyOK, Undeleted, AllCreated
  <1>4. IngInv /\ CreateInv /\ [Next]_vars => [Complete]_vars
    BY <1>3
  <1> HIDE DEF Complete
  <1>5. Spec => [][Complete]_vars
    BY <1>1, <1>2, <1>4, IngestConsistent, PTL DEF Spec
  <1>6. QED BY <1>5 DEF CreatedIsComplete, Complete

-----------------------------------------------------------------------------
(* Without faults.  Every key is created once, and every answer that may   *)
(* end the session tells of the only distribution session of its key.      *)

\* No POST of the id is on its way to the MBSTF.
NoPost(id) == \A w \in wire : w.method = "POST" => w.id # id

\* At most one event of q is in S; none is.
Once(q, S) == \A i, j \in DOMAIN q : q[i] \in S /\ q[j] \in S => i = j
Absent(q, S) == \A i \in DOMAIN q : q[i] \notin S

Builds(k) == {e \in Event : e.type = "REQ_BUILD" /\ e.key = k}
Results(k) == {e \in Event : e.type = "CREATE_RESULT" /\ e.key = k}

\* What the presence of an event tells when nothing has failed.
SmoothEvent(e) ==
    /\ e.type \notin {"SERVICE_DELETE", "CLIENT_WAIT"}
    /\ e.type \in {"SMF_REPLY", "CREATE_RESULT"} => e.ok
    /\ e.type = "CLIENT" => (e.method = "POST" => e.ok /\ NoPost(e.id))
    /\ e.type = "REQ_BUILD" => /\ ~ctx[e.key].received
                               /\ \A id \in 1..Len(registry) : registry[id] # e.key
    /\ e.type = "DELETED" => (session = "live" => mbs[e.key].deleted)

SmoothEvents == \A i \in DOMAIN queue : SmoothEvent(queue[i])
OneBuild == \A k \in Keys : Once(queue, Builds(k))
OneId == \A i, j \in 1..Len(registry) : registry[i] = registry[j] => i = j

\* A delete was sent only for an MBS Session that was deleted.
DeleteAsked(s) == (\E i \in DOMAIN s.ops : s.ops[i] = DELETE) => s.deleted

SmoothKey(k) ==
    /\ ctx[k].status # "FAILED"
    /\ ctx[k].received => \E id \in 1..Len(registry) : registry[id] = k /\ NoPost(id)
    /\ session = "live" => /\ DeleteAsked(mbs[k])
                           /\ ctx[k].status = "DELETED" => mbs[k].deleted

\* The creation of the MBS Session of k: its request, its result, its flag.
OneResult(k) ==
    /\ ~mbs[k].sendUpdates /\ Len(mbs[k].ops) <= 1
    /\ Once(queue, Results(k))
    /\ ctx[k].status = "CREATED" \/ mbs[k].ops # << >> => Absent(queue, Results(k))
    /\ ctx[k].status = "CREATED" => mbs[k].ops = << >>

NothingLeft == mbstf = {} /\ \A w \in wire : w.method # "POST"

SmoothInv ==
    /\ ~svc /\ post \in {"none", "waiting", "created"}
    /\ session # "none" => post # "none"
    /\ SmoothEvents /\ OneBuild /\ OneId
    /\ \A k \in Keys : SmoothKey(k)
    /\ post = "waiting" => \A k \in Keys : OneResult(k)
    /\ post = "created" => AllReceived(ctx)
    /\ session = "gone" => NothingLeft

\* Pushing and calling back send a delete only for what was deleted.
LEMMA PushesAsked ==
    ASSUME NEW s \in MbsSession, DeleteAsked(s)
    PROVE  DeleteAsked(PushChanges(s))
  <1>1. s.ops \in Seq(MbsRequest) /\ s.status # DELETE
    BY StatusAssumption DEF MbsSession, ActivityStatus
  <1>2. CASE s.inFlight
    <2>1. PushChanges(s) = [s EXCEPT !.sendUpdates = TRUE]
      BY <1>2 DEF PushChanges
    <2>2. PushChanges(s).ops = s.ops /\ PushChanges(s).deleted = s.deleted
      BY <2>1 DEF MbsSession
    <2>3. QED BY <2>2 DEF DeleteAsked
  <1>3. CASE ~s.inFlight /\ LibHasChanges(s)
    <2> DEFINE t == Target(s)
    <2>1. LibPush(s) = [s EXCEPT !.sent = t, !.ops = Append(s.ops, t)]
      BY <1>3 DEF LibPush
    <2>2. PushChanges(s) = [LibPush(s) EXCEPT !.inFlight = TRUE, !.sendUpdates = FALSE]
      BY <1>3 DEF PushChanges
    <2>3. t \in MbsRequest /\ (t = DELETE => s.deleted)
      BY <1>1 DEF Target, MbsSession, MbsRequest
    <2> HIDE DEF t
    <2>4. PushChanges(s).ops = Append(s.ops, t) /\ PushChanges(s).deleted = s.deleted
      BY <2>1, <2>2 DEF MbsSession
    <2>5. \A i \in DOMAIN Append(s.ops, t) : \/ i \in DOMAIN s.ops /\ Append(s.ops, t)[i] = s.ops[i]
                                             \/ Append(s.ops, t)[i] = t
      BY <1>1, <2>3
    <2>6. QED BY <2>3, <2>4, <2>5 DEF DeleteAsked
  <1>4. CASE ~s.inFlight /\ ~LibHasChanges(s)
    BY <1>4 DEF PushChanges
  <1>5. QED BY <1>2, <1>3, <1>4

LEMMA CallsBackAsked ==
    ASSUME NEW s \in MbsSession, s.ops # << >>, NEW done \in BOOLEAN, DeleteAsked(s)
    PROVE  LET t == MbsSessionCallback(s, done)
           IN  /\ DeleteAsked(t) /\ (Head(s.ops) = DELETE => s.deleted)
               /\ ~s.sendUpdates => t.ops = Tail(s.ops) /\ ~t.sendUpdates
  <1> DEFINE live == s.session /\ ~done
             a == [s EXCEPT !.ops = Tail(s.ops), !.inFlight = FALSE, !.session = live]
             b == [a EXCEPT !.sendUpdates = FALSE]
  <1>1. s.ops \in Seq(MbsRequest) /\ live \in BOOLEAN
    BY DEF MbsSession
  <1>2. /\ Tail(s.ops) \in Seq(MbsRequest)
        /\ \A i \in DOMAIN Tail(s.ops) : i + 1 \in DOMAIN s.ops /\ Tail(s.ops)[i] = s.ops[i + 1]
        /\ 1 \in DOMAIN s.ops /\ Head(s.ops) = s.ops[1]
    BY <1>1
  <1>3. MbsSessionCallback(s, done) = IF a.sendUpdates THEN PushChanges(b) ELSE a
    BY DEF MbsSessionCallback
  <1> HIDE DEF live
  <1>4. /\ a \in MbsSession /\ a.ops = Tail(s.ops) /\ a.deleted = s.deleted
        /\ a.sendUpdates = s.sendUpdates
    BY <1>1, <1>2 DEF MbsSession
  <1> HIDE DEF a
  <1>5. b \in MbsSession /\ b.ops = Tail(s.ops) /\ b.deleted = s.deleted
    BY <1>4 DEF MbsSession
  <1> HIDE DEF b
  <1>6. DeleteAsked(a) /\ DeleteAsked(b)
    BY <1>2, <1>4, <1>5 DEF DeleteAsked
  <1>7. DeleteAsked(PushChanges(b))
    BY <1>5, <1>6, PushesAsked
  <1>8. Head(s.ops) = DELETE => s.deleted
    BY <1>2 DEF DeleteAsked
  <1>9. QED BY <1>3, <1>4, <1>6, <1>7, <1>8

LEMMA DeletesAsked ==
    ASSUME NEW s \in MbsSession, DeleteAsked(s)
    PROVE  /\ DeleteAsked(DeleteSession(s))
           /\ s.deleted => DeleteSession(s).deleted
  <1>1. CASE ~s.session
    BY <1>1 DEF DeleteSession
  <1>2. CASE s.session
    <2> DEFINE d == [s EXCEPT !.deleted = TRUE]
    <2>1. d \in MbsSession /\ d.deleted
      BY <1>2 DEF MbsSession
    <2>2. DeleteSession(s) = [LibPush(d) EXCEPT !.inFlight = TRUE, !.sendUpdates = FALSE]
      BY <1>2 DEF DeleteSession
    <2> HIDE DEF d
    <2>3. LibPush(d) \in MbsSession /\ LibPush(d).deleted
      BY <2>1, LibPushes
    <2>4. DeleteSession(s).deleted
      BY <2>2, <2>3 DEF MbsSession
    <2>5. QED BY <2>4 DEF DeleteAsked
  <1>3. QED BY <1>1, <1>2

\* A new handle has its creation under way.
LEMMA CreatesOnce ==
    ASSUME NEW status \in ActivityStatus
    PROVE  LET s == CreateMbsSession(status, TRUE)
           IN  ~s.sendUpdates /\ s.ops = <<status>> /\ ~s.deleted /\ DeleteAsked(s)
  <1> DEFINE n == NewMbsSession(status)
  <1>1. /\ n \in MbsSession /\ ~n.deleted /\ n.session /\ ~n.inFlight /\ n.ops = << >>
        /\ n.sent = NOTHING /\ n.status = status
    BY DEF NewMbsSession, MbsSession, MbsRequest
  <1>2. Target(n) = status /\ LibHasChanges(n)
    BY <1>1, StatusAssumption DEF Target, LibHasChanges, ActivityStatus
  <1>3. PushChanges(n) = [LibPush(n) EXCEPT !.inFlight = TRUE, !.sendUpdates = FALSE]
    BY <1>1, <1>2 DEF PushChanges
  <1>4. LibPush(n) = [n EXCEPT !.sent = status, !.ops = Append(n.ops, status)]
    BY <1>1, <1>2 DEF LibPush
  <1>5. Append(n.ops, status) = <<status>>
    BY <1>1
  <1>6. /\ ~PushChanges(n).sendUpdates /\ ~PushChanges(n).deleted
        /\ PushChanges(n).ops = <<status>>
    <2> HIDE DEF n
    <2>1. QED BY <1>1, <1>3, <1>4, <1>5 DEF MbsSession
  <1>7. status # DELETE
    BY StatusAssumption DEF ActivityStatus
  <1>8. DeleteAsked(PushChanges(n))
    <2>1. \A i \in DOMAIN <<status>> : <<status>>[i] = status
      OBVIOUS
    <2>2. QED BY <1>6, <1>7, <2>1 DEF DeleteAsked
  <1>9. QED BY <1>6, <1>8 DEF CreateMbsSession

\* Where the events of r were before es was added to q, and d events taken.
Moved(q, es, r, d, n) ==
    \A i \in DOMAIN r : /\ i \in Nat \ {0}
                        /\ IF i <= n THEN i + d \in DOMAIN q /\ r[i] = q[i + d]
                                     ELSE i - n \in DOMAIN es /\ r[i] = es[i - n]

LEMMA Positions ==
    ASSUME NEW q \in Seq(Event), NEW es \in Seq(Event), NEW r, NEW d \in {0, 1},
           d = 0 => r = q \o es,
           d = 1 => q # << >> /\ r = Tail(q) \o es
    PROVE  \E n \in Nat : Moved(q, es, r, d, n)
  <1> DEFINE n == Len(q) - d
  <1>1. /\ n \in Nat /\ DOMAIN r = 1..(n + Len(es)) /\ DOMAIN q = 1..(n + d)
        /\ DOMAIN es = 1..Len(es) /\ Len(es) \in Nat
        /\ \A i \in 1..n : r[i] = q[i + d]
        /\ \A i \in (n + 1)..(n + Len(es)) : r[i] = es[i - n]
    <2>1. CASE d = 0
      BY <2>1
    <2>2. CASE d = 1
      <3>1. /\ Tail(q) \in Seq(Event) /\ Len(Tail(q)) = Len(q) - 1 /\ Len(q) \in Nat \ {0}
            /\ \A i \in 1..Len(Tail(q)) : Tail(q)[i] = q[i + 1]
        BY <2>2
      <3>2. r = Tail(q) \o es
        BY <2>2
      <3> DEFINE u == Tail(q)
      <3>3. u \in Seq(Event) /\ Len(u) = n /\ \A i \in 1..n : u[i] = q[i + 1]
        BY <2>2, <3>1
      <3> HIDE DEF u, n
      <3>4. /\ r = u \o es /\ DOMAIN q = 1..Len(q) /\ Len(q) = n + 1 /\ n \in Nat
        BY <2>2, <3>1, <3>2 DEF u, n
      <3>5. /\ DOMAIN r = 1..(n + Len(es))
            /\ \A i \in 1..n : r[i] = u[i]
            /\ \A i \in (n + 1)..(n + Len(es)) : r[i] = es[i - n]
        BY <3>3, <3>4
      <3>6. QED BY <2>2, <3>3, <3>4, <3>5
    <2>3. QED BY <2>1, <2>2
  <1> HIDE DEF n
  <1>2. \A i \in DOMAIN r : IF i <= n THEN i + d \in DOMAIN q /\ r[i] = q[i + d]
                                      ELSE i - n \in DOMAIN es /\ r[i] = es[i - n]
    <2> SUFFICES ASSUME NEW i \in DOMAIN r
                 PROVE  IF i <= n THEN i + d \in DOMAIN q /\ r[i] = q[i + d]
                                  ELSE i - n \in DOMAIN es /\ r[i] = es[i - n]
      OBVIOUS
    <2>1. i \in 1..(n + Len(es))
      BY <1>1
    <2>2. CASE i <= n
      <3>1. d \in Nat /\ i \in Int /\ 1 <= i
        BY <1>1, <2>1
      <3>2. n \in Nat
        BY <1>1
      <3>3. i \in 1..n /\ i + d \in 1..(n + d)
        BY <2>2, <3>1, <3>2
      <3>4. QED BY <1>1, <2>2, <3>3
    <2>3. CASE ~(i <= n)
      <3>1. i \in (n + 1)..(n + Len(es)) /\ i - n \in 1..Len(es)
        BY <1>1, <2>1, <2>3
      <3>2. QED BY <1>1, <2>3, <3>1
    <2>4. QED BY <2>2, <2>3
  <1>3. n \in Nat /\ \A i \in DOMAIN r : i \in Nat \ {0}
    BY <1>1
  <1>4. Moved(q, es, r, d, n)
    BY <1>2, <1>3 DEF Moved
  <1>5. QED BY <1>3, <1>4

\* Counting events in the queue.
LEMMA OnceStep ==
    ASSUME NEW S, NEW q \in Seq(Event), NEW es \in Seq(Event), NEW r,
           \/ r = q \o es
           \/ q # << >> /\ r = Tail(q) \o es
    PROVE  /\ Once(q, S) /\ Absent(es, S) => Once(r, S)
           /\ Absent(q, S) /\ Once(es, S) => Once(r, S)
           /\ Absent(q, S) /\ Absent(es, S) => Absent(r, S)
           /\ q # << >> /\ r = Tail(q) \o es /\ Once(q, S) /\ Head(q) \in S /\ Absent(es, S)
              => Absent(r, S)
  <1>1. PICK d \in {0, 1} :
           /\ d = 1 => q # << >> /\ r = Tail(q) \o es
           /\ d = 0 => r = q \o es
    OBVIOUS
  <1>2. PICK n \in Nat : Moved(q, es, r, d, n)
    BY <1>1, Positions
  <1>3. \A i \in DOMAIN r : IF i <= n THEN i + d \in DOMAIN q /\ r[i] = q[i + d]
                                      ELSE i - n \in DOMAIN es /\ r[i] = es[i - n]
    BY <1>2 DEF Moved
  <1>4. ASSUME Once(q, S), Absent(es, S) PROVE Once(r, S)
    <2> SUFFICES ASSUME NEW i \in DOMAIN r, NEW j \in DOMAIN r, r[i] \in S, r[j] \in S
                 PROVE  i = j
      BY DEF Once
    <2>1. i <= n /\ j <= n
      BY <1>3, <1>4 DEF Absent
    <2>2. i + d = j + d
      BY <1>3, <1>4, <2>1 DEF Once
    <2>3. QED BY <1>2, <2>2
  <1>5. ASSUME Absent(q, S), Once(es, S) PROVE Once(r, S)
    <2> SUFFICES ASSUME NEW i \in DOMAIN r, NEW j \in DOMAIN r, r[i] \in S, r[j] \in S
                 PROVE  i = j
      BY DEF Once
    <2>1. ~(i <= n) /\ ~(j <= n)
      BY <1>3, <1>5 DEF Absent
    <2>2. i - n = j - n
      BY <1>3, <1>5, <2>1 DEF Once
    <2>3. QED BY <1>2, <2>2
  <1>6. Absent(q, S) /\ Absent(es, S) => Absent(r, S)
    BY <1>3 DEF Absent
  <1>7. ASSUME q # << >>, r = Tail(q) \o es, Once(q, S), Head(q) \in S, Absent(es, S)
        PROVE  Absent(r, S)
    <2>1. Tail(q) \in Seq(Event) /\ Len(Tail(q)) = Len(q) - 1 /\ Len(q) \in Nat \ {0}
          /\ Head(q) = q[1] /\ 1 \in DOMAIN q
          /\ \A i \in DOMAIN Tail(q) : i + 1 \in DOMAIN q /\ i + 1 # 1 /\ Tail(q)[i] = q[i + 1]
      BY <1>7
    <2>2. Absent(Tail(q), S)
      BY <1>7, <2>1 DEF Once, Absent
    <2> DEFINE u == Tail(q)
    <2>3. u \in Seq(Event) /\ r = u \o es
      BY <1>7, <2>1
    <2> HIDE DEF u
    <2>4. \A i \in DOMAIN r : \/ \E j \in DOMAIN u : r[i] = u[j]
                              \/ \E j \in DOMAIN es : r[i] = es[j]
      <3> SUFFICES ASSUME NEW i \in DOMAIN (u \o es)
                   PROVE  \/ \E j \in DOMAIN u : (u \o es)[i] = u[j]
                          \/ \E j \in DOMAIN es : (u \o es)[i] = es[j]
        BY <2>3
      <3>1. /\ Len(u) \in Nat /\ Len(es) \in Nat /\ i \in 1..(Len(u) + Len(es))
            /\ DOMAIN u = 1..Len(u) /\ DOMAIN es = 1..Len(es)
        BY <2>3
      <3>2. CASE i <= Len(u)
        <4>1. i \in DOMAIN u /\ (u \o es)[i] = u[i]
          BY <2>3, <3>1, <3>2
        <4>2. QED BY <4>1
      <3>3. CASE ~(i <= Len(u))
        <4>1. i - Len(u) \in DOMAIN es /\ (u \o es)[i] = es[i - Len(u)]
          BY <2>3, <3>1, <3>3
        <4>2. QED BY <4>1
      <3>4. QED BY <3>2, <3>3
    <2>5. QED BY <1>7, <2>2, <2>4 DEF Absent, u
  <1>8. QED BY <1>4, <1>5, <1>6, <1>7

\* No fault was there before a step after which there is none.
LEMMA NoFaultBefore ==
    ASSUME TypeOK, [Next]_vars, faults' = 0
    PROVE  /\ faults = 0
           /\ ~ServiceDeleteRequest /\ ~AfDisconnect
           /\ ~\E x \in xacts : ClientWaitExpires(x)
  <1>1. faults \in Nat
    BY BoundsAssumption DEF TypeOK
  <1>2. UNCHANGED vars => faults' = faults
    BY DEF vars
  <1>3. /\ ServiceDeleteRequest => faults' = faults + 1
        /\ AfDisconnect => faults' = faults + 1
        /\ (\E x \in xacts : ClientWaitExpires(x)) => faults' = faults + 1
    BY DEF ServiceDeleteRequest, AfDisconnect, ClientWaitExpires
  <1>4. PostUserDataIngSession \/ SmfAnswers \/ StfAnswers => faults' \in {faults, faults + 1}
    BY DEF PostUserDataIngSession, SmfAnswers, SmfAnswer, StfAnswers, StfAnswer
  <1>5. (\E i \in 1..MaxDeletes : AfDelete(i)) \/ Dispatch => faults' = faults
    BY DEF AfDelete, Dispatch, HandleAfDelete, HandleServiceDelete, HandleSmfReply,
           HandleDanglingResult, HandleCreateOk, HandleCreateError, HandleDeleted,
           HandleReqBuild, HandleDeleteSession, HandleNoXact, HandlePostOk, HandlePostError,
           HandleDeleteReply, HandleClientWait
  <1>6. QED BY <1>1, <1>2, <1>3, <1>4, <1>5 DEF Next

\* What events tell after a step, if what they told before stays true.
LEMMA SmoothEventsStep ==
    ASSUME IngInv, SmoothEvents, NEW es \in Seq(Event),
           \/ queue' = queue \o es
           \/ queue # << >> /\ queue' = Tail(queue) \o es,
           \A i \in DOMAIN es : SmoothEvent(es[i])',
           \A e \in Event : SmoothEvent(e) => SmoothEvent(e)'
    PROVE  SmoothEvents'
  <1>1. queue \in Seq(Event)
    BY DEF IngInv, TypeOK
  <1>2. \A i \in DOMAIN queue' : \/ \E j \in DOMAIN queue : queue'[i] = queue[j]
                                 \/ \E j \in DOMAIN es : queue'[i] = es[j]
    <2>1. CASE queue' = queue \o es
      BY <1>1, <2>1
    <2>2. CASE queue # << >> /\ queue' = Tail(queue) \o es
      BY <1>1, <2>2
    <2>3. QED BY <2>1, <2>2
  <1>3. \A j \in DOMAIN queue : \E e \in Event : e = queue[j] /\ SmoothEvent(e)'
    BY <1>1 DEF SmoothEvents
  <1>4. QED BY <1>2, <1>3 DEF SmoothEvents

\* Events that create nothing leave the counts alone.
LEMMA CountsStay ==
    ASSUME IngInv, NEW es \in Seq(Event), \A i \in DOMAIN es : es[i].type \notin {"REQ_BUILD", "CREATE_RESULT"},
           \/ queue' = queue \o es
           \/ queue # << >> /\ queue' = Tail(queue) \o es
    PROVE  /\ OneBuild => OneBuild'
           /\ \A k : /\ Once(queue, Results(k)) => Once(queue', Results(k))
                     /\ Absent(queue, Results(k)) => Absent(queue', Results(k))
  <1>1. queue \in Seq(Event)
    BY DEF IngInv, TypeOK
  <1>2. \A k : Absent(es, Builds(k)) /\ Absent(es, Results(k))
    BY DEF Absent, Builds, Results
  <1>3. \A k : Once(queue, Builds(k)) => Once(queue', Builds(k))
    BY <1>1, <1>2, OnceStep
  <1>4. \A k : /\ Once(queue, Results(k)) => Once(queue', Results(k))
               /\ Absent(queue, Results(k)) => Absent(queue', Results(k))
    BY <1>1, <1>2, OnceStep
  <1>5. QED BY <1>3, <1>4 DEF OneBuild

\* A step that adds or takes such an event and changes no key.
LEMMA SmoothFrame ==
    ASSUME IngInv, SmoothInv,
           UNCHANGED <<ctx, mbs, registry, session, wire, mbstf, post, svc>>,
           NEW es \in Seq(Event), \A i \in DOMAIN es : es[i].type \notin {"REQ_BUILD", "CREATE_RESULT"},
           \/ queue' = queue \o es
           \/ queue # << >> /\ queue' = Tail(queue) \o es,
           \A i \in DOMAIN es : SmoothEvent(es[i])'
    PROVE  SmoothInv'
  <1>1. SmoothEvents'
    <2>1. \A e \in Event : SmoothEvent(e) => SmoothEvent(e)'
      BY DEF SmoothEvent, NoPost
    <2>2. QED BY <2>1, SmoothEventsStep DEF SmoothInv
  <1>2. OneBuild' /\ \A k : /\ Once(queue, Results(k)) => Once(queue', Results(k))
                            /\ Absent(queue, Results(k)) => Absent(queue', Results(k))
    BY CountsStay DEF SmoothInv
  <1>3. \A k \in Keys : SmoothKey(k)' /\ (OneResult(k) => OneResult(k)')
    BY <1>2 DEF SmoothInv, SmoothKey, NoPost, DeleteAsked, OneResult
  <1>4. OneId' /\ (post' = "created" => AllReceived(ctx')) /\ (session' = "gone" => NothingLeft')
    BY DEF SmoothInv, OneId, NothingLeft
  <1>5. QED BY <1>1, <1>2, <1>3, <1>4 DEF SmoothInv

LEMMA SmoothAdds ==
    ASSUME IngInv, SmoothInv,
           UNCHANGED <<ctx, mbs, registry, session, wire, mbstf, post, svc>>,
           NEW e \in Event, queue' = Append(queue, e),
           e.type \notin {"REQ_BUILD", "CREATE_RESULT"}, SmoothEvent(e)'
    PROVE  SmoothInv'
  <1>1. TypeOK
    BY DEF IngInv
  <1>2. /\ queue' = queue \o <<e>> /\ <<e>> \in Seq(Event)
        /\ \A j \in DOMAIN <<e>> : <<e>>[j] = e
    BY <1>1, OneEvent
  <1>3. \A j \in DOMAIN <<e>> : SmoothEvent(<<e>>[j])'
    BY <1>2 DEF SmoothEvent
  <1>4. QED BY <1>2, <1>3, SmoothFrame

LEMMA SmoothTakes ==
    ASSUME IngInv, SmoothInv,
           UNCHANGED <<ctx, mbs, registry, session, wire, mbstf, post, svc>>,
           Taken # "none", queue' = Tail(queue)
    PROVE  SmoothInv'
  <1>1. TypeOK /\ EventsOK
    BY DEF IngInv
  <1>2. /\ queue # << >> /\ queue' = Tail(queue) \o << >> /\ << >> \in Seq(Event)
        /\ DOMAIN << >> = {}
    BY <1>1, OneTaken
  <1>3. QED BY <1>2, SmoothFrame

\* The event at the head, and the queue without it.
LEMMA SmoothRuns ==
    ASSUME IngInv, SmoothInv, Taken # "none"
    PROVE  /\ session # "none" /\ post \in {"waiting", "created"}
           /\ queue # << >> /\ queue \in Seq(Event) /\ Taken = Head(queue).type
           /\ Head(queue) \in Event /\ EventOK(Head(queue)) /\ SmoothEvent(Head(queue))
           /\ Tail(queue) = Tail(queue) \o << >> /\ << >> \in Seq(Event) /\ DOMAIN << >> = {}
  <1>1. TypeOK /\ EventsOK /\ Lifetime
    BY DEF IngInv
  <1>2. /\ queue # << >> /\ Taken = Head(queue).type /\ Head(queue) \in Event
        /\ EventOK(Head(queue)) /\ Tail(queue) = Tail(queue) \o << >> /\ << >> \in Seq(Event)
        /\ DOMAIN << >> = {}
    BY <1>1, OneTaken
  <1>3. session # "none"
    BY <1>1, <1>2 DEF Lifetime
  <1>4. Head(queue) = queue[1] /\ 1 \in DOMAIN queue /\ queue \in Seq(Event)
    BY <1>1, <1>2 DEF TypeOK
  <1>5. QED BY <1>2, <1>3, <1>4 DEF SmoothInv, SmoothEvents

LEMMA PostSmooth ==
    ASSUME IngInv, CreateInv, SmoothInv, PostUserDataIngSession, faults' = 0
    PROVE  SmoothInv'
  <1>1. session = "none" /\ queue = << >> /\ wire = {}
    BY DEF IngInv, PostUserDataIngSession, Lifetime
  <1>2. /\ session' = "live" /\ post' = "waiting"
        /\ UNCHANGED <<ctx, registry, queue, wire, svc>>
    BY DEF PostUserDataIngSession, peers
  <1>3. \A k \in Keys : ctx[k].status = "NO" /\ ~ctx[k].received
    BY <1>1 DEF CreateInv, Fresh
  <1>4. registry = << >>
    <2>1. 1 \in Keys
      BY BoundsAssumption DEF Keys
    <2>2. ~(Len(registry) > 0)
      BY <1>3, <2>1 DEF IngInv, TwoPhases
    <2>3. registry \in Seq(Keys)
      BY DEF IngInv, TypeOK
    <2>4. QED BY <2>2, <2>3
  <1>5. PICK status \in [Keys -> InitialStatuses] :
           mbs' = [k \in Keys |-> CreateMbsSession(status[k], TRUE)]
    <2>1. faults \in Nat
      BY BoundsAssumption DEF IngInv, TypeOK
    <2>2. PICK status \in [Keys -> InitialStatuses], bad \in SUBSET Keys :
             /\ mbs' = [k \in Keys |-> CreateMbsSession(status[k], k \notin bad)]
             /\ faults' = IF bad = {} THEN faults ELSE faults + 1
      BY DEF PostUserDataIngSession, UpdateContexts
    <2>3. bad = {}
      BY <2>1, <2>2
    <2>4. \A k \in Keys : (k \notin bad) = TRUE
      BY <2>3
    <2>5. QED BY <2>2, <2>4
  <1>6. \A k \in Keys : /\ ~mbs'[k].sendUpdates /\ Len(mbs'[k].ops) <= 1 /\ mbs'[k].ops # << >>
                        /\ DeleteAsked(mbs'[k])
    <2> SUFFICES ASSUME NEW k \in Keys
                 PROVE  /\ ~mbs'[k].sendUpdates /\ Len(mbs'[k].ops) <= 1 /\ mbs'[k].ops # << >>
                        /\ DeleteAsked(mbs'[k])
      OBVIOUS
    <2>1. status[k] \in ActivityStatus
      BY BoundsAssumption
    <2> DEFINE s == CreateMbsSession(status[k], TRUE)
    <2>2. mbs'[k] = s
      BY <1>5
    <2>3. ~s.sendUpdates /\ s.ops = <<status[k]>> /\ DeleteAsked(s)
      BY <2>1, CreatesOnce
    <2> HIDE DEF s
    <2>4. Len(<<status[k]>>) <= 1 /\ <<status[k]>> # << >>
      OBVIOUS
    <2>5. QED BY <2>2, <2>3, <2>4
  <1>7. SmoothEvents' /\ OneBuild' /\ OneId'
        /\ \A k \in Keys : Once(queue', Results(k)) /\ Absent(queue', Results(k))
    <2>1. DOMAIN queue' = {} /\ 1..Len(registry') = {}
      BY <1>1, <1>2, <1>4
    <2>2. QED BY <2>1 DEF SmoothEvents, OneBuild, OneId, Once, Absent
  <1>8. \A k \in Keys : SmoothKey(k)' /\ OneResult(k)'
    <2>1. \A k \in Keys : SmoothKey(k)'
      BY <1>2, <1>3, <1>6 DEF SmoothKey, DeleteAsked
    <2>2. \A k \in Keys : OneResult(k)'
      <3>1. \A k \in Keys : /\ Once(queue, Results(k))' /\ Absent(queue, Results(k))'
                            /\ ctx'[k].status = "NO"
        BY <1>2, <1>3, <1>7
      <3>2. \A k \in Keys : ~mbs'[k].sendUpdates /\ Len(mbs'[k].ops) <= 1
        BY <1>6
      <3>3. QED BY <3>1, <3>2 DEF OneResult
    <2>3. QED BY <2>1, <2>2
  <1>9. QED BY <1>2, <1>7, <1>8 DEF SmoothInv

LEMMA AnswersSmooth ==
    ASSUME IngInv, SmoothInv, faults' = 0,
           (\E i \in 1..MaxDeletes : AfDelete(i)) \/ SmfAnswers \/ StfAnswers
    PROVE  SmoothInv'
  <1>1. TypeOK /\ WireOK /\ faults \in Nat
    BY BoundsAssumption DEF IngInv, TypeOK
  <1>2. CASE \E i \in 1..MaxDeletes : AfDelete(i)
    <2>1. PICK i \in 1..MaxDeletes : AfDelete(i)
      BY <1>2
    <2> DEFINE e == [type |-> "AF_DELETE", req |-> i]
    <2>2. e \in Event /\ e.type = "AF_DELETE"
      BY PlainEvents
    <2>3. /\ queue' = Append(queue, e)
          /\ UNCHANGED <<ctx, mbs, registry, session, wire, mbstf, post, svc>>
      BY <2>1 DEF AfDelete, peers
    <2> HIDE DEF e
    <2>4. SmoothEvent(e)'
      BY <2>2 DEF SmoothEvent
    <2>5. QED BY <2>2, <2>3, <2>4, SmoothAdds
  <1>3. CASE SmfAnswers
    <2>1. PICK k \in Keys, ok, problem \in BOOLEAN : SmfAnswer(k, ok, problem)
      BY <1>3 DEF SmfAnswers
    <2> DEFINE e == [type |-> "SMF_REPLY", key |-> k, ok |-> ok, problem |-> problem]
    <2>2. e \in Event /\ e.type = "SMF_REPLY" /\ e.ok = ok
      BY PlainEvents
    <2>3. /\ queue' = Append(queue, e) /\ ok
          /\ UNCHANGED <<ctx, mbs, registry, session, wire, mbstf, post, svc>>
      BY <1>1, <2>1 DEF SmfAnswer, af, peers
    <2> HIDE DEF e
    <2>4. SmoothEvent(e)'
      BY <2>2, <2>3 DEF SmoothEvent
    <2>5. QED BY <2>2, <2>3, <2>4, SmoothAdds
  <1>4. CASE StfAnswers
    <2>1. PICK w \in wire, ok \in BOOLEAN : StfAnswer(w, ok)
      BY <1>4 DEF StfAnswers
    <2> DEFINE e == [type |-> "CLIENT", xid |-> w.xid, method |-> w.method, id |-> w.id, ok |-> ok]
    <2>2. w.xid \in Nat /\ w.id \in Nat /\ w.method \in Methods
      BY <1>1 DEF TypeOK
    <2>3. /\ e \in Event /\ e.type = "CLIENT" /\ e.method = w.method /\ e.id = w.id /\ e.ok = ok
      BY <2>2, PlainEvents
    <2>4. /\ queue' = Append(queue, e) /\ wire' = wire \ {w}
          /\ UNCHANGED <<ctx, mbs, registry, session, post, svc>>
      BY <2>1 DEF StfAnswer, af
    <2>5. w.method = "POST" => ok
      BY <1>1, <2>1 DEF StfAnswer
    <2>6. w.method = "POST" \/ mbstf' \subseteq mbstf
      BY <2>1 DEF StfAnswer
    <2> HIDE DEF e
    <2>7. \A id : NoPost(id) => NoPost(id)'
      BY <2>4 DEF NoPost
    <2>8. w.method = "POST" => NoPost(w.id)'
      BY <1>1, <2>4 DEF WireOK, NoPost
    <2>9. SmoothEvent(e)'
      BY <2>3, <2>5, <2>8 DEF SmoothEvent
    <2>10. \A f \in Event : SmoothEvent(f) => SmoothEvent(f)'
      BY <2>4, <2>7 DEF SmoothEvent
    <2>11. /\ queue' = queue \o <<e>> /\ <<e>> \in Seq(Event)
           /\ \A j \in DOMAIN <<e>> : <<e>>[j] = e
      BY <1>1, <2>3, <2>4, OneEvent
    <2>12. /\ \A j \in DOMAIN <<e>> : SmoothEvent(<<e>>[j])'
           /\ \A j \in DOMAIN <<e>> : <<e>>[j].type \notin {"REQ_BUILD", "CREATE_RESULT"}
      BY <2>3, <2>9, <2>11 DEF SmoothEvent
    <2>13. SmoothEvents'
      BY <2>10, <2>11, <2>12, SmoothEventsStep DEF SmoothInv
    <2>14. OneBuild' /\ \A k : /\ Once(queue, Results(k)) => Once(queue', Results(k))
                               /\ Absent(queue, Results(k)) => Absent(queue', Results(k))
      BY <2>11, <2>12, CountsStay DEF SmoothInv
    <2>15. \A k \in Keys : SmoothKey(k)' /\ (OneResult(k) => OneResult(k)')
      BY <2>4, <2>7, <2>14 DEF SmoothInv, SmoothKey, DeleteAsked, OneResult
    <2>16. OneId' /\ (post' = "created" => AllReceived(ctx'))
      BY <2>4 DEF SmoothInv, OneId
    <2>17. session' = "gone" => NothingLeft'
      BY <2>4, <2>6 DEF SmoothInv, NothingLeft
    <2>18. QED BY <2>4, <2>13, <2>14, <2>15, <2>16, <2>17 DEF SmoothInv
  <1>5. QED BY <1>2, <1>3, <1>4

\* The handlers that take an event and change neither keys nor ids, and those
\* that only run after a fault.
LEMMA TakingSmooth ==
    ASSUME IngInv, CreateInv, SmoothInv,
           \/ HandleAfDelete \/ HandleServiceDelete \/ HandleDanglingResult \/ HandleCreateError
           \/ HandleNoXact \/ HandlePostError \/ HandleClientWait
    PROVE  SmoothInv'
  <1>1. Taken # "none"
    BY DEF HandleAfDelete, HandleServiceDelete, HandleDanglingResult, HandleCreateError,
           HandleNoXact, HandlePostError, HandleClientWait
  <1>2. /\ queue # << >> /\ queue \in Seq(Event) /\ Taken = Head(queue).type
        /\ SmoothEvent(Head(queue))
    BY <1>1, SmoothRuns
  <1>3. CASE HandleDanglingResult \/ HandleNoXact
    <2>1. /\ queue' = Tail(queue)
          /\ UNCHANGED <<ctx, mbs, registry, session, wire, mbstf, post, svc>>
      BY <1>3 DEF HandleDanglingResult, HandleNoXact, af, peers
    <2>2. QED BY <1>1, <2>1, SmoothTakes
  <1>4. ~HandleServiceDelete /\ ~HandleCreateError /\ ~HandlePostError /\ ~HandleClientWait
    BY <1>2 DEF SmoothEvent, HandleServiceDelete, HandleCreateError, HandlePostError,
                HandleClientWait
  <1>5. CASE HandleAfDelete
    <2>1. UNCHANGED <<ctx, mbs, registry, session, wire, mbstf, post, svc>>
      BY <1>5 DEF HandleAfDelete, peers
    <2>2. CASE session # "live"
      BY <1>1, <1>5, <2>1, <2>2, SmoothTakes DEF HandleAfDelete
    <2>3. CASE session = "live"
      <3>1. PICK es \in DelEvents : queue' = Tail(queue) \o es
        BY <1>5, <2>3 DEF HandleAfDelete
      <3>2. es \in Seq(Event) /\ \A i \in DOMAIN es : es[i].type = "DELETE_SESSION"
        BY <3>1, DelEventsMade DEF IngInv
      <3>3. \A i \in DOMAIN es : SmoothEvent(es[i])'
        BY <3>2 DEF SmoothEvent
      <3>4. QED BY <1>2, <2>1, <3>1, <3>2, <3>3, SmoothFrame
    <2>4. QED BY <2>2, <2>3
  <1>6. QED BY <1>3, <1>4, <1>5

\* A step of the handle on one MBS Session, after the creation.
LEMMA HandleSmooth ==
    ASSUME IngInv, SmoothInv, post = "created", NEW k \in Keys, NEW t \in MbsSession,
           mbs' = [mbs EXCEPT ![k] = t], DeleteAsked(t), mbs[k].deleted => t.deleted,
           UNCHANGED <<ctx, registry, session, mbstf, post, svc>>, session = "live",
           \A w \in wire' : w \in wire \/ w.method = "DELETE",
           Taken # "none",
           NEW es \in Seq(Event), queue' = Tail(queue) \o es,
           \A i \in DOMAIN es : es[i].type \notin {"REQ_BUILD"},
           \A i \in DOMAIN es : SmoothEvent(es[i])'
    PROVE  SmoothInv'
  <1>1. queue # << >> /\ queue \in Seq(Event)
    BY SmoothRuns
  <1>2. \A id : NoPost(id) => NoPost(id)'
    BY DEF NoPost
  <1>3. \A j \in Keys : mbs'[j] = IF j = k THEN t ELSE mbs[j]
    BY DEF IngInv, TypeOK
  <1>4. \A e \in Event : SmoothEvent(e) => SmoothEvent(e)'
    <2> SUFFICES ASSUME NEW e \in Event, SmoothEvent(e) PROVE SmoothEvent(e)'
      OBVIOUS
    <2>1. e.type = "DELETED" => e.key \in Keys
      BY EventFields
    <2>2. QED BY <1>2, <1>3, <2>1 DEF SmoothEvent
  <1>5. SmoothEvents'
    BY <1>1, <1>4, SmoothEventsStep DEF SmoothInv
  <1>6. OneBuild'
    <2>1. \A j : Absent(es, Builds(j))
      BY DEF Absent, Builds
    <2>2. \A j : Once(queue, Builds(j)) => Once(queue', Builds(j))
      BY <1>1, <2>1, OnceStep
    <2>3. QED BY <2>2 DEF SmoothInv, OneBuild
  <1>7. \A j \in Keys : SmoothKey(j)'
    BY <1>2, <1>3 DEF SmoothInv, SmoothKey
  <1>8. OneId' /\ AllReceived(ctx')
    BY DEF SmoothInv, OneId
  <1>9. QED BY <1>5, <1>6, <1>7, <1>8 DEF SmoothInv

LEMMA SmfReplySmooth ==
    ASSUME IngInv, CreateInv, SmoothInv, HandleSmfReply
    PROVE  SmoothInv'
  <1>1. /\ Taken = "SMF_REPLY" /\ Taken # "none"
        /\ UNCHANGED <<ctx, registry, wire, mbstf, session, post, svc>>
    BY DEF HandleSmfReply, af, peers
  <1>2. /\ session # "none" /\ queue # << >> /\ queue \in Seq(Event)
        /\ Head(queue) \in Event /\ Head(queue).type = "SMF_REPLY" /\ Head(queue).ok
        /\ post \in {"waiting", "created"}
    BY <1>1, SmoothRuns DEF SmoothEvent
  <1>3. CASE session # "live"
    BY <1>1, <1>3, SmoothTakes DEF HandleSmfReply
  <1>4. CASE session = "live"
    <2>1. PICK k \in Keys : k = Head(queue).key
      BY <1>2, EventFields
    <2> DEFINE done == Head(queue).ok /\ Head(mbs[k].ops) = DELETE
               t == MbsSessionCallback(mbs[k], done)
    <2>2. k \in Keys /\ [Head(queue) EXCEPT !.type = "CREATE_RESULT"] \in Event
          /\ [Head(queue) EXCEPT !.type = "CREATE_RESULT"].type = "CREATE_RESULT"
          /\ [Head(queue) EXCEPT !.type = "CREATE_RESULT"].key = k
          /\ [Head(queue) EXCEPT !.type = "CREATE_RESULT"].ok
      <3>1. \A e \in Event : e.type = "SMF_REPLY" =>
               /\ [e EXCEPT !.type = "CREATE_RESULT"].key = e.key
               /\ [e EXCEPT !.type = "CREATE_RESULT"].ok = e.ok
        BY DEF Event
      <3>2. QED BY <1>2, <2>1, <3>1, EventFields
    <2>3. PICK r \in Event :
             /\ queue' = Append(Tail(queue), r) /\ r.key = k
             /\ IF done THEN r.type = "DELETED" ELSE r.type = "CREATE_RESULT" /\ r.ok
      <3>1. queue' = Append(Tail(queue),
                        IF done THEN [type |-> "DELETED", key |-> k]
                                ELSE [Head(queue) EXCEPT !.type = "CREATE_RESULT"])
        BY <1>4, <2>1 DEF HandleSmfReply
      <3>2. CASE done
        <4>1. [type |-> "DELETED", key |-> k] \in Event
          BY <2>2, PlainEvents
        <4>2. QED BY <3>1, <3>2, <4>1
      <3>3. CASE ~done
        BY <2>2, <3>1, <3>3
      <3>4. QED BY <3>2, <3>3
    <2>4. mbs' = [mbs EXCEPT ![k] = t]
      BY <1>4, <2>1 DEF HandleSmfReply
    <2>5. mbs[k].ops # << >>
      BY <1>2, <1>4, <2>1, ReplyIsAwaited
    <2>6. mbs[k] \in MbsSession /\ DeleteAsked(mbs[k])
      BY <1>4, <2>2 DEF IngInv, TypeOK, SmoothInv, SmoothKey
    <2>7. done \in BOOLEAN
      BY <1>2, EventFields
    <2> HIDE DEF done
    <2>8. /\ t \in MbsSession /\ t.deleted = mbs[k].deleted
          /\ DeleteAsked(t) /\ (Head(mbs[k].ops) = DELETE => mbs[k].deleted)
          /\ ~mbs[k].sendUpdates => t.ops = Tail(mbs[k].ops) /\ ~t.sendUpdates
      BY <2>5, <2>6, <2>7, CallsBack, CallsBackAsked
    <2>9. done => t.deleted
      BY <2>8 DEF done
    <2> HIDE DEF t
    <2>10. \A j \in Keys : mbs'[j] = IF j = k THEN t ELSE mbs[j]
      BY <2>2, <2>4 DEF IngInv, TypeOK
    <2>11. SmoothEvent(r)'
      <3>1. r.type = "DELETED" => mbs'[r.key].deleted
        BY <2>2, <2>3, <2>9, <2>10
      <3>2. QED BY <2>3, <3>1 DEF SmoothEvent
    <2>12. /\ queue' = Tail(queue) \o <<r>> /\ <<r>> \in Seq(Event)
           /\ DOMAIN <<r>> = {1} /\ <<r>>[1] = r
      BY <1>2, <2>3
    <2>13. \A j \in DOMAIN <<r>> : SmoothEvent(<<r>>[j])'
      BY <2>11, <2>12 DEF SmoothEvent
    <2>14. \A j \in DOMAIN <<r>> : <<r>>[j].type \notin {"REQ_BUILD"}
      BY <2>3, <2>12
    <2>15. CASE post = "created"
      BY <1>1, <1>4, <2>2, <2>4, <2>8, <2>12, <2>13, <2>14, <2>15, HandleSmooth
    <2>16. CASE post = "waiting"
      <3>1. \A j \in Keys : OneResult(j) /\ SmoothKey(j)
        BY <2>16 DEF SmoothInv
      <3>2. ~mbs[k].sendUpdates /\ Len(mbs[k].ops) <= 1 /\ ctx[k].status # "CREATED"
            /\ Absent(queue, Results(k))
        BY <2>2, <2>5, <3>1 DEF OneResult
      <3>3. t.ops = << >> /\ ~t.sendUpdates
        <4>1. mbs[k].ops \in Seq(MbsRequest)
          BY <2>6 DEF MbsSession
        <4>2. Tail(mbs[k].ops) = << >>
          BY <2>5, <3>2, <4>1
        <4>3. QED BY <2>8, <3>2, <4>2
      <3>4. SmoothEvents'
        <4>1. \A e \in Event : e.type = "DELETED" => e.key \in Keys
          BY EventFields
        <4>2. \A e \in Event : SmoothEvent(e) => SmoothEvent(e)'
          BY <1>1, <2>8, <2>10, <4>1 DEF SmoothEvent, NoPost
        <4>3. QED BY <1>2, <2>12, <2>13, <4>2, SmoothEventsStep DEF SmoothInv
      <3>5. OneBuild'
        <4>1. \A j : Absent(<<r>>, Builds(j))
          BY <2>14 DEF Absent, Builds
        <4>2. \A j : Once(queue, Builds(j)) => Once(queue', Builds(j))
          BY <1>2, <2>12, <4>1, OnceStep
        <4>3. QED BY <4>2 DEF SmoothInv, OneBuild
      <3>6. \A j \in Keys \ {k} : OneResult(j)'
        <4> SUFFICES ASSUME NEW j \in Keys \ {k} PROVE OneResult(j)'
          OBVIOUS
        <4>1. Absent(<<r>>, Results(j))
          BY <2>3, <2>12 DEF Absent, Results
        <4>2. /\ Once(queue, Results(j)) => Once(queue', Results(j))
              /\ Absent(queue, Results(j)) => Absent(queue', Results(j))
          BY <1>2, <2>12, <4>1, OnceStep
        <4>3. OneResult(j) /\ mbs'[j] = mbs[j]
          BY <2>10, <3>1
        <4>4. QED BY <1>1, <4>2, <4>3 DEF OneResult
      <3>7. OneResult(k)'
        <4>1. Once(<<r>>, Results(k))
          BY <2>12 DEF Once
        <4>2. Once(queue', Results(k))
          BY <1>2, <2>12, <3>2, <4>1, OnceStep
        <4>3. mbs'[k] = t /\ Len(t.ops) <= 1
          BY <2>2, <2>10, <3>3
        <4>4. QED BY <1>1, <3>2, <3>3, <4>2, <4>3 DEF OneResult
      <3>8. \A j \in Keys : SmoothKey(j)'
        BY <1>1, <2>8, <2>10, <3>1 DEF SmoothKey, NoPost
      <3>9. OneId'
        BY <1>1 DEF SmoothInv, OneId
      <3>10. QED BY <1>1, <1>4, <2>16, <3>4, <3>5, <3>6, <3>7, <3>8, <3>9 DEF SmoothInv
    <2>17. QED BY <1>2, <2>15, <2>16
  <1>5. QED BY <1>3, <1>4

\* While the AF waits for its POST nothing is deleted.
LEMMA DeletingCreated ==
    ASSUME IngInv, CreateInv, SmoothInv,
           HandleDeleted \/ HandleDeleteSession \/ HandleDeleteReply
    PROVE  post = "created" /\ Taken # "none"
  <1>1. /\ Taken # "none"
        /\ \/ Taken \in {"DELETED", "DELETE_SESSION"}
           \/ Taken = "CLIENT" /\ Head(queue).method = "DELETE"
    BY DEF HandleDeleted, HandleDeleteSession, HandleDeleteReply
  <1>2. Taken = Head(queue).type /\ (Awaited => CreatesOnly(Head(queue)))
    BY <1>1, HandlerRuns
  <1>3. ~Awaited
    BY <1>1, <1>2 DEF CreatesOnly
  <1>4. QED BY <1>1, <1>3, SmoothRuns DEF Awaited, SmoothInv

LEMMA DeleteSessionSmooth ==
    ASSUME IngInv, CreateInv, SmoothInv, HandleDeleteSession
    PROVE  SmoothInv'
  <1>1. post = "created" /\ Taken # "none"
    BY DeletingCreated
  <1>2. /\ Taken = "DELETE_SESSION" /\ queue' = Tail(queue)
        /\ UNCHANGED <<ctx, registry, session, mbstf, post, svc>>
    BY DEF HandleDeleteSession, af
  <1>3. CASE session # "live"
    BY <1>1, <1>2, <1>3, SmoothTakes DEF HandleDeleteSession
  <1>4. CASE session = "live"
    <2>1. PICK k \in Keys : k = registry[Head(queue).id]
      BY <1>1, <1>2, SmoothRuns DEF IngInv, TypeOK, EventOK
    <2> DEFINE u == SetActivityStatus(mbs[k], INACTIVE)
    <2>2. mbs' = [mbs EXCEPT ![k] = PushChanges(u)] /\ Send("DELETE", Head(queue).id)
      BY <1>4, <2>1 DEF HandleDeleteSession
    <2>3. mbs[k] \in MbsSession /\ DeleteAsked(mbs[k])
      BY <1>4 DEF IngInv, TypeOK, SmoothInv, SmoothKey
    <2>4. u \in MbsSession /\ u.ops = mbs[k].ops /\ u.deleted = mbs[k].deleted
      BY <2>3, SetsStatus DEF ActivityStatus
    <2> HIDE DEF u
    <2>5. DeleteAsked(u)
      BY <2>3, <2>4 DEF DeleteAsked
    <2>6. PushChanges(u) \in MbsSession /\ PushChanges(u).deleted = mbs[k].deleted
          /\ DeleteAsked(PushChanges(u))
      BY <2>4, <2>5, Pushes, PushesAsked
    <2>7. \A w \in wire' : w \in wire \/ w.method = "DELETE"
      BY <2>2 DEF Send
    <2>8. queue' = Tail(queue) \o << >> /\ << >> \in Seq(Event) /\ DOMAIN << >> = {}
      BY <1>1, <1>2, SmoothRuns
    <2>9. QED BY <1>1, <1>2, <1>4, <2>2, <2>6, <2>7, <2>8, HandleSmooth
  <1>5. QED BY <1>3, <1>4

LEMMA DeleteReplySmooth ==
    ASSUME IngInv, CreateInv, SmoothInv, HandleDeleteReply
    PROVE  SmoothInv'
  <1>1. post = "created" /\ Taken # "none"
    BY DeletingCreated
  <1>2. /\ Taken = "CLIENT" /\ queue' = Tail(queue) /\ OtherXacts # xacts
        /\ UNCHANGED <<ctx, registry, session, wire, mbstf, post, svc>>
    BY DEF HandleDeleteReply, af, peers
  <1>3. session = "live"
    BY <1>2 DEF IngInv, Lifetime, OtherXacts
  <1>4. CASE ~Head(queue).ok
    BY <1>1, <1>2, <1>4, SmoothTakes DEF HandleDeleteReply
  <1>5. CASE Head(queue).ok
    <2>1. PICK k \in Keys : k = registry[Head(queue).id]
      BY <1>1, <1>2, SmoothRuns DEF IngInv, TypeOK, EventOK
    <2>2. mbs' = [mbs EXCEPT ![k] = DeleteSession(mbs[k])]
      BY <1>5, <2>1 DEF HandleDeleteReply, DistSessionDeleted
    <2>3. mbs[k] \in MbsSession /\ DeleteAsked(mbs[k])
      BY <1>3 DEF IngInv, TypeOK, SmoothInv, SmoothKey
    <2>4. /\ DeleteSession(mbs[k]) \in MbsSession /\ DeleteAsked(DeleteSession(mbs[k]))
          /\ mbs[k].deleted => DeleteSession(mbs[k]).deleted
      BY <2>3, Deletes, DeletesAsked
    <2>5. queue' = Tail(queue) \o << >> /\ << >> \in Seq(Event) /\ DOMAIN << >> = {}
      BY <1>1, <1>2, SmoothRuns
    <2>6. QED BY <1>1, <1>2, <1>3, <2>2, <2>4, <2>5, HandleSmooth
  <1>6. QED BY <1>4, <1>5

\* With the last MBS Session deleted, the only id of each key has ended.
LEMMA AllEnded ==
    ASSUME IngInv, SmoothInv, session = "live", \A k \in Keys : mbs[k].deleted
    PROVE  NothingLeft
  <1>1. registry \in Seq(Keys) /\ DeletedAfter /\ WireOK /\ OneId
    BY DEF IngInv, TypeOK, SmoothInv
  <1>2. ASSUME NEW id \in 1..Len(registry) PROVE Ended(id)
    <2>1. registry[id] \in Keys
      BY <1>1
    <2>2. PICK jd \in 1..Len(registry) : registry[jd] = registry[id] /\ Ended(jd)
      BY <1>1, <2>1 DEF DeletedAfter
    <2>3. jd = id
      BY <1>1, <2>2 DEF OneId
    <2>4. QED BY <2>2, <2>3
  <1>3. QED BY <1>1, <1>2 DEF NothingLeft, Ended, WireOK

LEMMA DeletedSmooth ==
    ASSUME IngInv, CreateInv, SmoothInv, HandleDeleted
    PROVE  SmoothInv'
  <1>1. post = "created" /\ Taken # "none"
    BY DeletingCreated
  <1>2. /\ Taken = "DELETED" /\ session = "live" /\ queue' = Tail(queue)
        /\ UNCHANGED <<registry, wire, mbstf, post, svc>>
    BY DEF HandleDeleted, peers
  <1>3. /\ queue # << >> /\ queue \in Seq(Event) /\ Head(queue) \in Event
        /\ Head(queue).type = "DELETED" /\ SmoothEvent(Head(queue))
        /\ queue' = Tail(queue) \o << >> /\ << >> \in Seq(Event) /\ DOMAIN << >> = {}
    BY <1>1, <1>2, SmoothRuns
  <1>4. PICK k \in Keys : k = Head(queue).key
    BY <1>3, EventFields
  <1> DEFINE c == [ctx EXCEPT ![k].status = "DELETED"]
  <1>5. /\ ctx' = c /\ mbs[k].deleted
        /\ \/ UNCHANGED <<session, mbs>>
           \/ AllDeleted(c) /\ session' = "gone"
    BY <1>2, <1>3, <1>4 DEF HandleDeleted, Destroy, SmoothEvent
  <1>6. \A j \in Keys : /\ c[j].status = IF j = k THEN "DELETED" ELSE ctx[j].status
                        /\ c[j].received = ctx[j].received
    BY <1>4 DEF IngInv, TypeOK
  <1> HIDE DEF c
  <1>7. OneBuild'
    BY <1>3, CountsStay DEF SmoothInv
  <1>8. SmoothEvents'
    <2>1. \A e \in Event : e.type = "REQ_BUILD" => e.key \in Keys
      BY EventFields
    <2>2. \A e \in Event : SmoothEvent(e) => SmoothEvent(e)'
      BY <1>2, <1>5, <1>6, <2>1 DEF SmoothEvent, NoPost
    <2>3. QED BY <1>3, <2>2, SmoothEventsStep DEF SmoothInv
  <1>9. \A j \in Keys : SmoothKey(j)'
    BY <1>2, <1>5, <1>6 DEF SmoothInv, SmoothKey, NoPost
  <1>10. session' = "gone" => NothingLeft'
    <2>1. ASSUME AllDeleted(c) PROVE NothingLeft
      <3>1. \A j \in Keys : mbs[j].deleted
        BY <1>2, <1>5, <1>6, <2>1 DEF AllDeleted, SmoothInv, SmoothKey
      <3>2. QED BY <1>2, <3>1, AllEnded
    <2>2. QED BY <1>2, <1>5, <2>1 DEF NothingLeft
  <1>11. OneId' /\ AllReceived(ctx')
    BY <1>1, <1>2, <1>5, <1>6 DEF SmoothInv, OneId, AllReceived
  <1>12. QED BY <1>1, <1>2, <1>7, <1>8, <1>9, <1>10, <1>11 DEF SmoothInv

LEMMA PostOkSmooth ==
    ASSUME IngInv, CreateInv, SmoothInv, HandlePostOk
    PROVE  SmoothInv'
  <1>1. /\ Taken = "CLIENT" /\ Taken # "none" /\ Head(queue).method = "POST"
        /\ queue' = Tail(queue)
        /\ UNCHANGED <<session, mbs, registry, wire, mbstf, svc>>
    BY DEF HandlePostOk, peers
  <1>2. /\ queue # << >> /\ queue \in Seq(Event) /\ Head(queue).type = "CLIENT"
        /\ EventOK(Head(queue)) /\ SmoothEvent(Head(queue))
        /\ post \in {"waiting", "created"}
        /\ queue' = Tail(queue) \o << >> /\ << >> \in Seq(Event) /\ DOMAIN << >> = {}
    BY <1>1, SmoothRuns
  <1>3. PICK id \in 1..Len(registry) : id = Head(queue).id /\ NoPost(id)
    BY <1>1, <1>2 DEF EventOK, SmoothEvent
  <1>4. PICK k \in Keys : k = registry[id]
    BY DEF IngInv, TypeOK
  <1> DEFINE c == [ctx EXCEPT ![k].received = TRUE]
  <1>5. ctx' = c /\ post' = IF AllReceived(c) THEN PostAnswer("created") ELSE post
    BY <1>3, <1>4 DEF HandlePostOk, ProcessDistSession, IngestResponse
  <1>6. \A j \in Keys : /\ c[j].status = ctx[j].status
                        /\ c[j].received = (j = k \/ ctx[j].received)
    BY <1>4 DEF IngInv, TypeOK
  <1> HIDE DEF c
  <1>7. OneBuild' /\ \A j : /\ Once(queue, Results(j)) => Once(queue', Results(j))
                            /\ Absent(queue, Results(j)) => Absent(queue', Results(j))
    BY <1>2, CountsStay DEF SmoothInv
  <1>8. SmoothEvents'
    <2>1. \A e \in Event : e.type = "REQ_BUILD" => e.key \in Keys
      BY EventFields
    <2>2. \A e \in Event : SmoothEvent(e) => SmoothEvent(e)'
      BY <1>1, <1>3, <1>4, <1>5, <1>6, <2>1 DEF SmoothEvent, NoPost
    <2>3. QED BY <1>2, <2>2, SmoothEventsStep DEF SmoothInv
  <1>9. \A j \in Keys : SmoothKey(j)' /\ (OneResult(j) => OneResult(j)')
    <2>1. \A j \in Keys : SmoothKey(j)'
      <3>1. \A j \in Keys : c[j].received =>
               \E jd \in 1..Len(registry) : registry[jd] = j /\ NoPost(jd)
        BY <1>3, <1>4, <1>6 DEF SmoothInv, SmoothKey
      <3>2. \A jd : NoPost(jd) => NoPost(jd)'
        BY <1>1 DEF NoPost
      <3>3. QED BY <1>1, <1>5, <1>6, <3>1, <3>2 DEF SmoothInv, SmoothKey
    <2>2. \A j \in Keys : OneResult(j) => OneResult(j)'
      BY <1>1, <1>5, <1>6, <1>7 DEF OneResult
    <2>3. QED BY <2>1, <2>2
  <1>10. /\ post' \in {"waiting", "created"} /\ (post' = "waiting" => post = "waiting")
         /\ post' = "created" => AllReceived(ctx')
    <2>1. CASE post = "created"
      BY <1>5, <1>6, <2>1 DEF SmoothInv, AllReceived, PostAnswer
    <2>2. CASE post = "waiting"
      BY <1>5, <2>2 DEF PostAnswer
    <2>3. QED BY <1>2, <2>1, <2>2
  <1>11. OneId' /\ (session' = "gone" => NothingLeft')
    BY <1>1 DEF SmoothInv, OneId, NothingLeft
  <1>12. QED BY <1>1, <1>7, <1>8, <1>9, <1>10, <1>11 DEF SmoothInv

LEMMA ReqBuildSmooth ==
    ASSUME IngInv, CreateInv, SmoothInv, HandleReqBuild
    PROVE  SmoothInv'
  <1>1. /\ Taken = "REQ_BUILD" /\ Taken # "none" /\ queue' = Tail(queue)
        /\ UNCHANGED <<ctx, session, mbs, mbstf, post, svc>>
    BY DEF HandleReqBuild, af
  <1>2. /\ queue # << >> /\ queue \in Seq(Event) /\ Head(queue) \in Event
        /\ Head(queue).type = "REQ_BUILD" /\ SmoothEvent(Head(queue))
        /\ queue' = Tail(queue) \o << >> /\ << >> \in Seq(Event) /\ DOMAIN << >> = {}
    BY <1>1, SmoothRuns
  <1>3. CASE session # "live"
    BY <1>1, <1>3, SmoothTakes DEF HandleReqBuild
  <1>4. CASE session = "live"
    <2>1. PICK k \in Keys : k = Head(queue).key
      BY <1>2, EventFields
    <2>2. PICK n \in Nat : n = Len(registry)
      BY DEF IngInv, TypeOK
    <2>3. registry' = Append(registry, k) /\ Send("POST", n + 1)
      BY <1>4, <2>1, <2>2 DEF HandleReqBuild, RegisterDistSession
    <2>4. /\ Len(registry') = n + 1 /\ registry'[n + 1] = k
          /\ \A id \in 1..n : registry'[id] = registry[id]
      BY <2>2, <2>3 DEF IngInv, TypeOK
    <2>5. \A id \in 1..n : NoPost(id) => NoPost(id)'
      BY <2>3 DEF Send, NoPost
    <2>6. ~ctx[k].received /\ \A id \in 1..n : registry[id] # k
      BY <1>2, <2>1, <2>2 DEF SmoothEvent
    <2>7. Head(queue) \in Builds(k)
      BY <1>2, <2>1 DEF Builds
    <2>8. OneBuild' /\ Absent(queue', Builds(k))
          /\ \A j : /\ Once(queue, Results(j)) => Once(queue', Results(j))
                    /\ Absent(queue, Results(j)) => Absent(queue', Results(j))
      <3>1. Absent(<< >>, Builds(k))
        BY DEF Absent
      <3>2. Once(queue, Builds(k))
        BY DEF SmoothInv, OneBuild
      <3>3. Absent(queue', Builds(k))
        BY <1>2, <2>7, <3>1, <3>2, OnceStep
      <3>4. QED BY <1>2, <3>3, CountsStay DEF SmoothInv
    <2>9. SmoothEvents'
      <3> SUFFICES ASSUME NEW i \in DOMAIN queue'
                   PROVE  \E e \in Event : e = queue'[i] /\ SmoothEvent(e)'
        BY DEF SmoothEvents
      <3>1. PICK e \in Event : e = queue'[i] /\ SmoothEvent(e) /\ EventOK(e)
        <4>1. PICK j \in DOMAIN queue : queue'[i] = queue[j]
          BY <1>1, <1>2
        <4>2. queue[j] \in Event
          BY <1>2
        <4>3. QED BY <4>1, <4>2 DEF SmoothInv, SmoothEvents, IngInv, EventsOK
      <3>2. e \notin Builds(k)
        BY <2>8, <3>1 DEF Absent
      <3>3. e.type = "REQ_BUILD" => e.key # k
        BY <3>2 DEF Builds
      <3>4. e.type = "REQ_BUILD" => \A id \in 1..(n + 1) : registry'[id] # e.key
        <4> SUFFICES ASSUME e.type = "REQ_BUILD", NEW id \in 1..(n + 1)
                     PROVE  registry'[id] # e.key
          OBVIOUS
        <4>1. CASE id = n + 1
          BY <2>4, <3>3, <4>1
        <4>2. CASE id # n + 1
          <5>1. id \in 1..n
            BY <4>2
          <5>2. QED BY <2>2, <2>4, <3>1, <5>1 DEF SmoothEvent
        <4>3. QED BY <4>1, <4>2
      <3>5. e.type = "CLIENT" /\ e.method = "POST" => e.ok /\ NoPost(e.id)'
        BY <2>2, <2>5, <3>1 DEF SmoothEvent, EventOK
      <3>6. SmoothEvent(e)'
        BY <1>1, <2>4, <3>1, <3>4, <3>5 DEF SmoothEvent
      <3>7. QED BY <3>1, <3>6
    <2>10. \A j \in Keys : SmoothKey(j)' /\ (OneResult(j) => OneResult(j)')
      <3>1. ASSUME NEW j \in Keys, ctx[j].received
            PROVE  \E id \in 1..(n + 1) : registry'[id] = j /\ NoPost(id)'
        <4>1. PICK id \in 1..n : registry[id] = j /\ NoPost(id)
          BY <2>2, <3>1 DEF SmoothInv, SmoothKey
        <4>2. id \in 1..(n + 1)
          BY <2>2
        <4>3. QED BY <2>4, <2>5, <4>1, <4>2
      <3>2. \A j \in Keys : SmoothKey(j)'
        BY <1>1, <2>4, <3>1 DEF SmoothInv, SmoothKey
      <3>3. \A j \in Keys : OneResult(j) => OneResult(j)'
        BY <1>1, <2>8 DEF OneResult
      <3>4. QED BY <3>2, <3>3
    <2>11. OneId'
      <3> SUFFICES ASSUME NEW i \in 1..(n + 1), NEW j \in 1..(n + 1), registry'[i] = registry'[j]
                   PROVE  i = j
        BY <2>4 DEF OneId
      <3>1. CASE i = n + 1 \/ j = n + 1
        BY <2>4, <2>6, <3>1
      <3>2. CASE i # n + 1 /\ j # n + 1
        <4>1. i \in 1..n /\ j \in 1..n
          BY <3>2
        <4>2. QED BY <2>2, <2>4, <4>1 DEF SmoothInv, OneId
      <3>3. QED BY <3>1, <3>2
    <2>12. QED BY <1>1, <1>4, <2>8, <2>9, <2>10, <2>11 DEF SmoothInv
  <1>5. QED BY <1>3, <1>4

\* The requests to the MBSTF are for keys it has not answered, one for each.
LEMMA ReqEventsOnce ==
    ASSUME NEW c, NEW es \in ReqEvents(c)
    PROVE  /\ \A i \in DOMAIN es : ~c[es[i].key].received
           /\ \A i, j \in DOMAIN es : es[i].key = es[j].key => i = j
  <1> DEFINE S == {k \in Keys : ~c[k].received}
             n == Cardinality(S)
  <1>1. PICK f \in {g \in [1..n -> S] : \A i, j \in 1..n : g[i] = g[j] => i = j} :
           es = [i \in 1..n |-> [type |-> "REQ_BUILD", key |-> f[i]]]
    BY DEF ReqEvents, AnyOrder
  <1> HIDE DEF n
  <1>2. DOMAIN es = 1..n /\ \A i \in 1..n : es[i].key = f[i]
    BY <1>1
  <1>3. QED BY <1>1, <1>2

\* The requests to the MBSTF are made once: until the last MBS Session is
\* created none is, and there is no result left that could make them again.
LEMMA CreateOkSmooth ==
    ASSUME IngInv, CreateInv, SmoothInv, HandleCreateOk
    PROVE  SmoothInv'
  <1>1. /\ Taken = "CREATE_RESULT" /\ Taken # "none" /\ session = "live"
        /\ UNCHANGED <<session, mbs, registry, wire, mbstf, svc>>
    BY DEF HandleCreateOk, peers
  <1>2. /\ queue # << >> /\ queue \in Seq(Event) /\ Head(queue) \in Event
        /\ Head(queue).type = "CREATE_RESULT" /\ post \in {"waiting", "created"}
        /\ Tail(queue) = Tail(queue) \o << >> /\ << >> \in Seq(Event) /\ DOMAIN << >> = {}
    BY <1>1, SmoothRuns
  <1>3. PICK k \in Keys : k = Head(queue).key
    BY <1>2, EventFields
  <1> DEFINE c == [ctx EXCEPT ![k].status = "CREATED"]
             all == AllResponded(c) /\ AllCreated(c)
  <1>4. /\ ctx' = c
        /\ post' = IF AllResponded(c) /\ ~AllCreated(c) THEN PostAnswer("error") ELSE post
        /\ \E es \in (IF all THEN ReqEvents(c) ELSE {<< >>}) : queue' = Tail(queue) \o es
    BY <1>3 DEF HandleCreateOk
  <1>5. \A j \in Keys : /\ c[j].status = IF j = k THEN "CREATED" ELSE ctx[j].status
                        /\ c[j].received = ctx[j].received
                        /\ ctx[j].status \in {"NO", "CREATED", "DELETED", "FAILED"}
                        /\ ctx[j].received \in BOOLEAN
    BY <1>3 DEF IngInv, TypeOK
  <1>6. post' = post
    <2>1. AllResponded(c) => AllCreated(c)
      BY <1>5 DEF AllResponded, AllCreated, SmoothInv, SmoothKey
    <2>2. QED BY <1>4, <2>1
  <1>7. PICK es \in Seq(Event) :
           /\ queue' = Tail(queue) \o es
           /\ \A i \in DOMAIN es : /\ es[i].type = "REQ_BUILD" /\ es[i].key \in Keys
                                   /\ ~ctx[es[i].key].received /\ all
           /\ \A j \in Keys : Once(es, Builds(j))
    <2>1. CASE all
      <3>1. PICK es \in ReqEvents(c) : queue' = Tail(queue) \o es
        BY <1>4, <2>1
      <3>2. es \in Seq(Event) /\ \A i \in DOMAIN es : es[i].type = "REQ_BUILD" /\ es[i].key \in Keys
        BY <3>1, ReqEventsMade, BoundsAssumption
      <3>3. \A i \in DOMAIN es : ~c[es[i].key].received
        BY <3>1, ReqEventsOnce
      <3>4. \A j \in Keys : Once(es, Builds(j))
        BY <3>1, ReqEventsOnce DEF Once, Builds
      <3>5. QED BY <1>5, <2>1, <3>1, <3>2, <3>3, <3>4
    <2>2. CASE ~all
      <3>1. queue' = Tail(queue) \o << >>
        BY <1>4, <2>2
      <3>2. \A j \in Keys : Once(<< >>, Builds(j))
        BY DEF Once
      <3>3. QED BY <1>2, <3>1, <3>2
    <2>3. QED BY <2>1, <2>2
  <1>8. \A j : Absent(es, Results(j))
    BY <1>7 DEF Absent, Results
  <1> HIDE DEF c
  <1>9. CASE post = "created"
    <2>1. DOMAIN es = {}
      BY <1>7, <1>9 DEF SmoothInv, AllReceived
    <2>2. SmoothEvents'
      <3>1. \A e \in Event : e.type = "REQ_BUILD" => e.key \in Keys
        BY EventFields
      <3>2. \A e \in Event : SmoothEvent(e) => SmoothEvent(e)'
        BY <1>1, <1>4, <1>5, <3>1 DEF SmoothEvent, NoPost
      <3>3. QED BY <1>2, <1>7, <2>1, <3>2, SmoothEventsStep DEF SmoothInv
    <2>3. OneBuild'
      BY <1>2, <1>7, <2>1, CountsStay DEF SmoothInv
    <2>4. \A j \in Keys : SmoothKey(j)'
      BY <1>1, <1>4, <1>5 DEF SmoothInv, SmoothKey, NoPost
    <2>5. OneId' /\ AllReceived(ctx')
      BY <1>1, <1>4, <1>5, <1>9 DEF SmoothInv, OneId, AllReceived
    <2>6. QED BY <1>1, <1>6, <1>9, <2>2, <2>3, <2>4, <2>5 DEF SmoothInv
  <1>10. CASE post = "waiting"
    <2>1. \A j \in Keys : OneResult(j) /\ SmoothKey(j)
      BY <1>10 DEF SmoothInv
    <2>2. Awaited
      BY <1>10 DEF Awaited, SmoothInv
    <2>3. \A j \in Keys : ctx[j].status # "DELETED"
      BY <2>2 DEF CreateInv, KeysCreate, KeyOK
    <2>4. Head(queue) \in Results(k)
      BY <1>2, <1>3 DEF Results
    <2>5. ctx[k].status # "CREATED" /\ mbs[k].ops = << >>
      <3>1. 1 \in DOMAIN queue /\ queue[1] = Head(queue)
        BY <1>2
      <3>2. ~Absent(queue, Results(k))
        BY <2>4, <3>1 DEF Absent
      <3>3. QED BY <2>1, <3>2 DEF OneResult
    <2>6. ~NoNo
      BY <1>5, <2>1, <2>3, <2>5 DEF NoNo, SmoothKey
    <2>7. \A j : Absent(queue, Builds(j))
      BY <2>6 DEF Absent, Builds, IngInv, EventsOK, EventOK
    <2>8. 1..Len(registry) = {}
      <3>1. ~(Len(registry) > 0)
        BY <2>6 DEF IngInv, TwoPhases, NoNo
      <3>2. QED BY <3>1 DEF IngInv, TypeOK
    <2>9. OneBuild'
      <3>1. \A j \in Keys : Once(queue', Builds(j))
        BY <1>2, <1>7, <2>7, OnceStep
      <3>2. QED BY <3>1 DEF OneBuild
    <2>10. SmoothEvents'
      <3>1. \A i \in DOMAIN es : SmoothEvent(es[i])'
        <4>1. \A i \in DOMAIN es : ~ctx'[es[i].key].received
          BY <1>4, <1>5, <1>7
        <4>2. QED BY <1>1, <1>7, <2>8, <4>1 DEF SmoothEvent
      <3>2. \A e \in Event : e.type = "REQ_BUILD" => e.key \in Keys
        BY EventFields
      <3>3. \A e \in Event : SmoothEvent(e) => SmoothEvent(e)'
        BY <1>1, <1>4, <1>5, <3>2 DEF SmoothEvent, NoPost
      <3>4. QED BY <1>2, <1>7, <3>1, <3>3, SmoothEventsStep DEF SmoothInv
    <2>11. \A j \in Keys : SmoothKey(j)'
      BY <1>1, <1>4, <1>5, <2>1 DEF SmoothKey, NoPost
    <2>12. \A j \in Keys : OneResult(j)'
      <3>1. Absent(queue', Results(k))
        BY <1>2, <1>7, <1>8, <2>1, <2>4, OnceStep DEF OneResult
      <3>2. \A j \in Keys : /\ Once(queue, Results(j)) => Once(queue', Results(j))
                            /\ Absent(queue, Results(j)) => Absent(queue', Results(j))
        BY <1>2, <1>7, <1>8, OnceStep
      <3>3. OneResult(k)'
        <4>1. Once(queue', Results(k))
          BY <2>1, <3>2 DEF OneResult
        <4>2. QED BY <1>1, <2>1, <2>5, <3>1, <4>1 DEF OneResult
      <3>4. \A j \in Keys \ {k} : OneResult(j)'
        BY <1>1, <1>4, <1>5, <2>1, <3>2 DEF OneResult
      <3>5. QED BY <3>3, <3>4
    <2>13. OneId'
      BY <1>1 DEF SmoothInv, OneId
    <2>14. QED BY <1>1, <1>6, <1>10, <2>9, <2>10, <2>11, <2>12, <2>13 DEF SmoothInv
  <1>11. QED BY <1>2, <1>9, <1>10

\* Without faults the invariant holds, and a session that has gone was deleted.
Smooth == faults = 0 => SmoothInv
Answered204 == \A i \in DOMAIN del : del[i] = "204" => session = "gone"

LEMMA SmoothStep ==
    ASSUME IngInv, CreateInv, Smooth, [Next]_vars
    PROVE  Smooth'
  <1> SUFFICES ASSUME faults' = 0 PROVE SmoothInv'
    BY DEF Smooth
  <1>1. TypeOK
    BY DEF IngInv
  <1>2. SmoothInv
    BY <1>1, NoFaultBefore DEF Smooth
  <1>3. CASE UNCHANGED vars
    BY <1>2, <1>3 DEF vars, SmoothInv, SmoothEvents, SmoothEvent, NoPost, OneBuild, Once, OneId,
       SmoothKey, DeleteAsked, OneResult, Absent, NothingLeft, AllReceived
  <1>4. CASE PostUserDataIngSession
    BY <1>2, <1>4, PostSmooth
  <1>5. CASE (\E i \in 1..MaxDeletes : AfDelete(i)) \/ SmfAnswers \/ StfAnswers
    BY <1>2, <1>5, AnswersSmooth
  <1>6. CASE Dispatch
    BY <1>2, <1>6, TakingSmooth, SmfReplySmooth, CreateOkSmooth, DeletedSmooth, ReqBuildSmooth,
       DeleteSessionSmooth, PostOkSmooth, DeleteReplySmooth DEF Dispatch
  <1>7. QED BY <1>1, <1>3, <1>4, <1>5, <1>6, NoFaultBefore DEF Next

\* A session does not come back, and a 204 is sent when it goes.
LEMMA Answered204Step ==
    ASSUME TypeOK, Answered204, [Next]_vars
    PROVE  Answered204'
  <1>1. session = "gone" => session' = "gone"
    BY DEF Next, vars, PostUserDataIngSession, AfDelete, ServiceDeleteRequest, AfDisconnect,
       SmfAnswers, SmfAnswer, StfAnswers, StfAnswer, ClientWaitExpires, Dispatch,
       HandleAfDelete, HandleServiceDelete, HandleSmfReply, HandleDanglingResult,
       HandleCreateOk, HandleCreateError, HandleDeleted, HandleReqBuild, HandleDeleteSession,
       HandleNoXact, HandlePostOk, HandlePostError, HandleDeleteReply, HandleClientWait
  <1>2. HandleDeleted => Answered204'
    <2>1. ASSUME HandleDeleted PROVE del' = del \/ session' = "gone"
      BY <2>1 DEF HandleDeleted, Destroy
    <2>2. QED BY <1>1, <2>1 DEF Answered204
  <1>3. ASSUME ~HandleDeleted
        PROVE  DOMAIN del' = DOMAIN del /\ \A i \in DOMAIN del : del'[i] = "204" => del[i] = "204"
    <2>1. del \in [1..MaxDeletes -> {"none", "sent", "pending", "204", "404", "gone"}]
      BY DEF TypeOK
    <2>2. \/ del' = del
          \/ \E i \in 1..MaxDeletes, a \in {"sent", "pending", "404", "gone"} : del' = [del EXCEPT ![i] = a]
      <3>1. CASE HandleAfDelete
        <4>1. HandleAfDelete => del' = [del EXCEPT ![Head(queue).req] = "pending"]
                                \/ del' = [del EXCEPT ![Head(queue).req] = "404"]
          BY DEF HandleAfDelete
        <4>2. QED BY <2>1, <3>1, <4>1
      <3>2. CASE (\E i \in 1..MaxDeletes : AfDelete(i)) \/ AfDisconnect
        BY <3>2 DEF AfDelete, AfDisconnect
      <3>3. CASE ~HandleAfDelete /\ ~(\E i \in 1..MaxDeletes : AfDelete(i)) /\ ~AfDisconnect
        BY <1>3, <3>3 DEF Next, vars, af, PostUserDataIngSession, ServiceDeleteRequest,
           SmfAnswers, SmfAnswer, StfAnswers, StfAnswer, ClientWaitExpires, Dispatch,
           HandleServiceDelete, HandleSmfReply, HandleDanglingResult,
           HandleCreateOk, HandleCreateError, HandleReqBuild, HandleDeleteSession,
           HandleNoXact, HandlePostOk, HandlePostError, HandleDeleteReply, HandleClientWait
      <3>4. QED BY <3>1, <3>2, <3>3
    <2>3. QED BY <2>1, <2>2
  <1>4. QED BY <1>1, <1>2, <1>3 DEF Answered204

LEMMA SmoothInit ==
    ASSUME Init PROVE SmoothInv
  <1> DEFINE s0 == NoMbsSession(INACTIVE)
  <1>1. s0.ops = << >> /\ ~s0.sendUpdates
    BY DEF NoMbsSession, NewMbsSession
  <1>2. \A k \in Keys : mbs[k] = s0
    BY DEF Init
  <1> HIDE DEF s0
  <1>3. SmoothEvents /\ OneBuild /\ OneId
    BY DEF Init, SmoothEvents, OneBuild, Once, OneId
  <1>4. \A k \in Keys : SmoothKey(k)
    BY DEF Init, SmoothKey
  <1>5. \A k \in Keys : OneResult(k)
    BY <1>1, <1>2 DEF Init, OneResult, Once, Absent
  <1>6. QED BY <1>3, <1>4, <1>5 DEF Init, SmoothInv

\* As long as no operation fails, no connection of the AF is lost, the MBSTF
\* answers in time and the MBS User Service stays: every distribution session
\* is POSTed once, every answer tells of it, and what has gone has ended.
THEOREM FaultFreeIsSmooth == Spec => [](CreateInv /\ Smooth /\ Answered204)
  <1>1. Init => CreateInv /\ Smooth /\ Answered204
    <2>1. Init => Smooth
      BY SmoothInit DEF Smooth
    <2>2. QED BY <2>1 DEF Init, CreateInv, Fresh, Awaited, Answered204
  <1>2. IngInv /\ CreateInv /\ Smooth /\ Answered204 /\ [Next]_vars
           => (CreateInv /\ Smooth /\ Answered204)'
    BY CreateInvStep, SmoothStep, Answered204Step DEF IngInv
  <1>3. QED BY <1>1, <1>2, IngestConsistent, PTL DEF Spec

\* Without faults the session never ends while distribution sessions remain at
\* the MBSTF or are on the way to it (setMBSTFDistSessionDeletedFlag, then
\* setMBSSessionFlag), however many DELETEs the AF sends and whenever.
THEOREM LeavesNoOrphans == Spec => []NoOrphans
  <1>1. Smooth => NoOrphans
    BY DEF Smooth, SmoothInv, NothingLeft, NoOrphans
  <1>2. QED BY <1>1, FaultFreeIsSmooth, PTL

\* Without faults a 204 to a DELETE (setMBSSessionDeleted) means that nothing
\* is left at the MBSTF nor on the way to it.
THEOREM CleanWithoutFaults == Spec => [](faults = 0 => DeletedIsClean)
  <1>1. Smooth /\ Answered204 => (faults = 0 => DeletedIsClean)
    BY DEF Smooth, SmoothInv, NothingLeft, Answered204, DeletedIsClean
  <1>2. QED BY <1>1, FaultFreeIsSmooth, PTL
-----------------------------------------------------------------------------
(* With one DELETE of the AF.  Every distribution session is asked to go   *)
(* once, at a time when its MBS Session is at rest, and nothing is said    *)
(* about an MBS Session after it was reported deleted.                     *)

\* Nothing was asked of the MBS Session since its creation was answered.
Untouched(s) == ~s.deleted /\ s.ops = << >>

\* At most one change is under way, and the delete is the last request.
HandleOK(s) ==
    /\ ~s.sendUpdates
    /\ \A i \in DOMAIN s.ops : s.ops[i] = DELETE => i = Len(s.ops)
    /\ ~s.deleted => s.session /\ (s.ops = << >> => ~s.inFlight)
    /\ ~s.session => s.ops = << >>

\* No DELETE of the AF was handled yet.
Undisturbed == \A i \in 1..MaxDeletes : del[i] \in {"none", "sent"}

\* A transaction is about this request or answer; one is about ending id.
SameXact(x, r) == x.xid = r.xid /\ x.method = r.method /\ x.id = r.id
Ending(id) == \E x \in xacts : x.method = "DELETE" /\ x.id = id

\* What a later event f is not, when e is before it.
Apart(e, f) ==
    /\ e.type = "CLIENT" /\ f.type = "CLIENT" => e.xid # f.xid
    /\ e.type = "DELETE_SESSION" /\ f.type = "DELETE_SESSION" => e.id # f.id
    /\ ~(e.type = "AF_DELETE" /\ f.type = "AF_DELETE")
    /\ e.type = "DELETED" /\ f.type \in {"CREATE_RESULT", "DELETED"} => e.key # f.key

InOrder(q) == \A i, j \in DOMAIN q : i < j => Apart(q[i], q[j])

\* What the presence of an event tells when the AF sends one DELETE.
LoneEvent(e) ==
    /\ e.type = "AF_DELETE" => del[e.req] = "sent"
    /\ e.type = "DELETE_SESSION" =>
          /\ ~Undisturbed /\ ~Ending(e.id)
          /\ session = "live" => Untouched(mbs[registry[e.id]])
    /\ e.type = "CLIENT" => /\ \E x \in xacts : SameXact(x, e)
                            /\ \A w \in wire : w.xid # e.xid
    /\ e.type \in {"CREATE_RESULT", "DELETED"} =>
          session = "live" /\ ctx[e.key].status # "DELETED"
    /\ e.type = "DELETED" => ~mbs[e.key].session

LoneEvents == (\A i \in DOMAIN queue : LoneEvent(queue[i])) /\ InOrder(queue)

\* Two transactions differ, also in what they are about.
Distinct(x, y) == x.xid # y.xid /\ (x.method = y.method => x.id # y.id)

\* What the existence of a transaction tells.
XactOK(x) ==
    /\ x.id \in 1..Len(registry)
    /\ x.method = "POST" => ~ctx[registry[x.id]].received
    /\ x.method = "DELETE" => ~Undisturbed /\ ~mbs[registry[x.id]].deleted

\* Every request to the MBSTF has a transaction of its own.
LoneXacts ==
    /\ \A x \in xacts : XactOK(x)
    /\ \A x, y \in xacts : x = y \/ Distinct(x, y)
    /\ \A w \in wire : \E x \in xacts : SameXact(x, w)
    /\ \A v, w \in wire : v = w \/ v.xid # w.xid

LoneKey(k) ==
    /\ HandleOK(mbs[k])
    /\ ctx[k].status = "DELETED" => ~mbs[k].session
    /\ post = "created" /\ Undisturbed => Untouched(mbs[k])

\* No DELETE is sent before the 201, and none is given up.
LoneDeletes ==
    \A i \in 1..MaxDeletes : del[i] # "gone" /\ (post # "created" => del[i] = "none")

LoneInv == /\ abort = "no" /\ LoneDeletes /\ LoneEvents /\ LoneXacts
           /\ session = "live" => \A k \in Keys : LoneKey(k)

\* The handle when it is created, made inactive, deleted, and called back.
LEMMA CreatesHandle ==
    ASSUME NEW status \in ActivityStatus
    PROVE  HandleOK(CreateMbsSession(status, TRUE))
  <1> DEFINE n == NewMbsSession(status)
  <1>1. /\ n \in MbsSession /\ ~n.deleted /\ n.session /\ ~n.inFlight /\ n.ops = << >>
        /\ n.sent = NOTHING /\ n.status = status
    BY DEF NewMbsSession, MbsSession, MbsRequest
  <1>2. Target(n) = status /\ LibHasChanges(n)
    BY <1>1, StatusAssumption DEF Target, LibHasChanges, ActivityStatus
  <1>3. PushChanges(n) = [LibPush(n) EXCEPT !.inFlight = TRUE, !.sendUpdates = FALSE]
    BY <1>1, <1>2 DEF PushChanges
  <1>4. LibPush(n) = [n EXCEPT !.sent = status, !.ops = Append(n.ops, status)]
    BY <1>1, <1>2 DEF LibPush
  <1>5. Append(n.ops, status) = <<status>>
    BY <1>1
  <1>6. LET t == PushChanges(n)
        IN  ~t.sendUpdates /\ ~t.deleted /\ t.session /\ t.ops = <<status>>
    <2> HIDE DEF n
    <2>1. QED BY <1>1, <1>3, <1>4, <1>5 DEF MbsSession
  <1>7. HandleOK(PushChanges(n))
    <2> DEFINE t == PushChanges(n)
    <2>1. /\ <<status>> # << >> /\ Len(<<status>>) = 1
          /\ \A i \in DOMAIN <<status>> : i = 1
      OBVIOUS
    <2>2. ~t.sendUpdates /\ ~t.deleted /\ t.session /\ t.ops = <<status>>
      BY <1>6
    <2> HIDE DEF t
    <2>3. HandleOK(t)
      BY <2>1, <2>2 DEF HandleOK
    <2>4. QED BY <2>3 DEF t
  <1>8. QED BY <1>7 DEF CreateMbsSession

LEMMA StopsHandle ==
    ASSUME NEW s \in MbsSession, HandleOK(s), Untouched(s)
    PROVE  LET t == PushChanges(SetActivityStatus(s, INACTIVE))
           IN  HandleOK(t) /\ ~t.deleted /\ s.session
  <1> DEFINE u == SetActivityStatus(s, INACTIVE)
  <1>1. s.session /\ ~s.inFlight /\ ~s.sendUpdates /\ ~s.deleted /\ s.ops = << >>
    BY DEF HandleOK, Untouched
  <1>2. /\ u \in MbsSession /\ u.session /\ ~u.inFlight /\ ~u.sendUpdates /\ ~u.deleted
        /\ u.ops = << >> /\ u.status = INACTIVE
    BY <1>1 DEF SetActivityStatus, MbsSession, ActivityStatus
  <1> HIDE DEF u
  <1>3. Target(u) = INACTIVE
    BY <1>2 DEF Target
  <1>4. CASE ~LibHasChanges(u)
    <2>1. PushChanges(u) = u
      BY <1>2, <1>4 DEF PushChanges
    <2>2. QED BY <1>1, <1>2, <2>1 DEF HandleOK, u
  <1>5. CASE LibHasChanges(u)
    <2> DEFINE t == PushChanges(u)
    <2>1. t = [LibPush(u) EXCEPT !.inFlight = TRUE, !.sendUpdates = FALSE]
      BY <1>2, <1>5 DEF PushChanges
    <2>2. LibPush(u) = [u EXCEPT !.sent = INACTIVE, !.ops = Append(u.ops, INACTIVE)]
      BY <1>3, <1>5 DEF LibPush
    <2>3. Append(u.ops, INACTIVE) = <<INACTIVE>>
      BY <1>2
    <2>4. ~t.sendUpdates /\ ~t.deleted /\ t.session /\ t.ops = <<INACTIVE>>
      BY <1>2, <2>1, <2>2, <2>3 DEF MbsSession
    <2> HIDE DEF t
    <2>5. /\ <<INACTIVE>> # << >> /\ Len(<<INACTIVE>>) = 1
          /\ \A i \in DOMAIN <<INACTIVE>> : i = 1
      OBVIOUS
    <2>6. HandleOK(t) /\ ~t.deleted
      BY <1>1, <2>4, <2>5 DEF HandleOK
    <2>7. QED BY <1>1, <2>6 DEF t, u
  <1>6. QED BY <1>4, <1>5

LEMMA DeletesHandle ==
    ASSUME NEW s \in MbsSession, HandleOK(s), ~s.deleted, DeleteAsked(s)
    PROVE  HandleOK(DeleteSession(s)) /\ DeleteSession(s).deleted /\ s.session
  <1> DEFINE d == [s EXCEPT !.deleted = TRUE]
             t == DeleteSession(s)
  <1>1. s.session /\ s.ops \in Seq(MbsRequest) /\ \A i \in DOMAIN s.ops : s.ops[i] # DELETE
    BY DEF HandleOK, DeleteAsked, MbsSession
  <1>2. d \in MbsSession /\ d.deleted /\ d.session /\ d.ops = s.ops
    BY <1>1 DEF MbsSession
  <1>3. t = [LibPush(d) EXCEPT !.inFlight = TRUE, !.sendUpdates = FALSE]
    BY <1>1 DEF DeleteSession
  <1> HIDE DEF d
  <1>4. /\ LibPush(d) \in MbsSession /\ LibPush(d).deleted /\ LibPush(d).session
        /\ LibPush(d).ops \in {s.ops, Append(s.ops, DELETE)}
    <2>1. CASE ~LibHasChanges(d)
      BY <1>2, <2>1 DEF LibPush
    <2>2. CASE LibHasChanges(d)
      <3>1. LibPush(d) = [d EXCEPT !.sent = DELETE, !.ops = Append(d.ops, DELETE)]
        BY <1>2, <2>2 DEF LibPush, Target
      <3>2. Append(d.ops, DELETE) \in Seq(MbsRequest)
        BY <1>1, <1>2 DEF MbsRequest
      <3>3. QED BY <1>2, <3>1, <3>2 DEF MbsSession, MbsRequest
    <2>3. QED BY <2>1, <2>2
  <1>5. ~t.sendUpdates /\ t.deleted /\ t.session /\ t.ops \in {s.ops, Append(s.ops, DELETE)}
    BY <1>3, <1>4 DEF MbsSession
  <1> HIDE DEF t
  <1>6. \A i \in DOMAIN t.ops : t.ops[i] = DELETE => i = Len(t.ops)
    <2>1. \A i \in DOMAIN Append(s.ops, DELETE) :
             \/ i \in DOMAIN s.ops /\ Append(s.ops, DELETE)[i] = s.ops[i]
             \/ i = Len(Append(s.ops, DELETE))
      BY <1>1
    <2>2. QED BY <1>1, <1>5, <2>1
  <1>7. HandleOK(t)
    BY <1>5, <1>6 DEF HandleOK
  <1>8. QED BY <1>1, <1>5, <1>7 DEF t

LEMMA AnswersHandle ==
    ASSUME NEW s \in MbsSession, HandleOK(s), DeleteAsked(s), s.ops # << >>, NEW done \in BOOLEAN,
           done = (Head(s.ops) = DELETE)
    PROVE  LET t == MbsSessionCallback(s, done)
           IN  HandleOK(t) /\ t.deleted = s.deleted /\ t.session = ~done /\ s.session
  <1> DEFINE live == s.session /\ ~done
             a == [s EXCEPT !.ops = Tail(s.ops), !.inFlight = FALSE, !.session = live]
  <1>1. s.ops \in Seq(MbsRequest) /\ s.session /\ live \in BOOLEAN /\ ~s.sendUpdates
    BY DEF MbsSession, HandleOK
  <1>2. /\ Tail(s.ops) \in Seq(MbsRequest)
        /\ \A i \in DOMAIN Tail(s.ops) : i + 1 \in DOMAIN s.ops /\ Tail(s.ops)[i] = s.ops[i + 1]
        /\ 1 \in DOMAIN s.ops /\ Head(s.ops) = s.ops[1]
        /\ Len(Tail(s.ops)) = Len(s.ops) - 1 /\ Len(s.ops) \in Nat
        /\ \A i \in DOMAIN Tail(s.ops) : i \in Nat
    BY <1>1
  <1>3. live = ~done
    BY <1>1
  <1> HIDE DEF live
  <1>4. /\ a.ops = Tail(s.ops) /\ a.deleted = s.deleted /\ a.session = live
        /\ ~a.sendUpdates /\ ~a.inFlight
    BY <1>1, <1>2 DEF MbsSession
  <1>5. MbsSessionCallback(s, done) = a
    BY <1>4 DEF MbsSessionCallback, live
  <1> HIDE DEF a
  <1>6. \A i \in DOMAIN a.ops : a.ops[i] = DELETE => i = Len(a.ops)
    <2> SUFFICES ASSUME NEW i \in DOMAIN Tail(s.ops), Tail(s.ops)[i] = DELETE
                 PROVE  i = Len(Tail(s.ops))
      BY <1>4
    <2>1. i + 1 = Len(s.ops)
      BY <1>2 DEF HandleOK
    <2>2. QED BY <1>2, <2>1
  <1>7. ASSUME done PROVE a.ops = << >> /\ a.deleted
    <2>1. 1 = Len(s.ops) /\ s.deleted
      BY <1>2, <1>7 DEF HandleOK, DeleteAsked
    <2>2. QED BY <1>1, <1>2, <1>4, <2>1
  <1>8. HandleOK(a)
    BY <1>3, <1>4, <1>6, <1>7 DEF HandleOK
  <1>9. QED BY <1>1, <1>3, <1>4, <1>5, <1>8

\* Queues in order stay so.
LEMMA InOrderStep ==
    ASSUME NEW q \in Seq(Event), NEW es \in Seq(Event), NEW r,
           \/ r = q \o es
           \/ q # << >> /\ r = Tail(q) \o es,
           InOrder(q), InOrder(es),
           \A i \in DOMAIN q, j \in DOMAIN es : Apart(q[i], es[j])
    PROVE  InOrder(r)
  <1>1. PICK d \in {0, 1} :
           /\ d = 1 => q # << >> /\ r = Tail(q) \o es
           /\ d = 0 => r = q \o es
    OBVIOUS
  <1>2. PICK n \in Nat : Moved(q, es, r, d, n)
    BY <1>1, Positions
  <1> SUFFICES ASSUME NEW i \in DOMAIN r, NEW j \in DOMAIN r, i < j
               PROVE  Apart(r[i], r[j])
    BY DEF InOrder
  <1>3. i \in Nat /\ j \in Nat
    BY <1>2 DEF Moved
  <1>4. CASE j <= n
    <2>1. i <= n /\ i + d < j + d
      BY <1>3, <1>4
    <2>2. /\ i + d \in DOMAIN q /\ r[i] = q[i + d]
          /\ j + d \in DOMAIN q /\ r[j] = q[j + d]
      BY <1>2, <1>4, <2>1 DEF Moved
    <2>3. QED BY <2>1, <2>2 DEF InOrder
  <1>5. CASE ~(j <= n) /\ i <= n
    BY <1>2, <1>5 DEF Moved
  <1>6. CASE ~(j <= n) /\ ~(i <= n)
    <2>1. i - n < j - n
      BY <1>3, <1>6
    <2>2. /\ i - n \in DOMAIN es /\ r[i] = es[i - n]
          /\ j - n \in DOMAIN es /\ r[j] = es[j - n]
      BY <1>2, <1>6 DEF Moved
    <2>3. QED BY <2>1, <2>2 DEF InOrder
  <1>7. QED BY <1>4, <1>5, <1>6

\* The events of the queue, and those behind the first.
InQueue == {queue[i] : i \in DOMAIN queue}
Behind == {queue[i] : i \in DOMAIN queue \ {1}}

\* InQueue after one was added.
LEMMA LoneAdded ==
    ASSUME queue \in Seq(Event), LoneEvents, NEW e \in Event, queue' = Append(queue, e),
           LoneEvent(e)',
           \A f \in InQueue : LoneEvent(f)' /\ Apart(f, e)
    PROVE  LoneEvents'
  <1>1. /\ queue' = queue \o <<e>> /\ <<e>> \in Seq(Event)
        /\ DOMAIN <<e>> = {1} /\ <<e>>[1] = e
    OBVIOUS
  <1>2. InOrder(queue')
    <2>1. InOrder(<<e>>)
      BY <1>1 DEF InOrder
    <2>2. \A i \in DOMAIN queue, j \in DOMAIN <<e>> : Apart(queue[i], <<e>>[j])
      BY <1>1 DEF InQueue
    <2>3. QED BY <1>1, <2>1, <2>2, InOrderStep DEF LoneEvents
  <1>3. \A i \in DOMAIN queue' : queue'[i] \in InQueue \cup {e}
    <2>1. \A i \in DOMAIN queue' : (\E j \in DOMAIN queue : queue'[i] = queue[j]) \/ queue'[i] = e
      OBVIOUS
    <2>2. QED BY <2>1 DEF InQueue
  <1>4. \A f \in InQueue \cup {e} : LoneEvent(f)'
    BY DEF LoneEvent
  <1>5. QED BY <1>2, <1>3, <1>4 DEF LoneEvents

\* InQueue after the first one was taken.
LEMMA LoneTaken ==
    ASSUME queue \in Seq(Event), queue # << >>, LoneEvents,
           NEW es \in Seq(Event), queue' = Tail(queue) \o es,
           InOrder(es), \A j \in DOMAIN es : LoneEvent(es[j])',
           \A f \in InQueue, j \in DOMAIN es : Apart(f, es[j]),
           \A f \in Behind : LoneEvent(f)'
    PROVE  LoneEvents'
  <1>1. InOrder(queue')
    <2>1. \A i \in DOMAIN queue, j \in DOMAIN es : Apart(queue[i], es[j])
      BY DEF InQueue
    <2>2. QED BY <2>1, InOrderStep DEF LoneEvents
  <1>2. PICK d : d = 1
    OBVIOUS
  <1>3. d \in {0, 1} /\ (d = 0 => queue' = queue \o es)
        /\ (d = 1 => queue # << >> /\ queue' = Tail(queue) \o es)
    BY <1>2
  <1>4. PICK n \in Nat : Moved(queue, es, queue', d, n)
    BY <1>3, Positions
  <1>5. \A i \in DOMAIN queue' : \/ queue'[i] \in Behind
                                 \/ \E j \in DOMAIN es : queue'[i] = es[j]
    <2> SUFFICES ASSUME NEW i \in DOMAIN queue'
                 PROVE  queue'[i] \in Behind \/ \E j \in DOMAIN es : queue'[i] = es[j]
      OBVIOUS
    <2>1. CASE i <= n
      <3>1. i + 1 \in DOMAIN queue \ {1} /\ queue'[i] = queue[i + 1]
        BY <1>2, <1>4, <2>1 DEF Moved
      <3>2. QED BY <3>1 DEF Behind
    <2>2. CASE ~(i <= n)
      BY <1>4, <2>2 DEF Moved
    <2>3. QED BY <2>1, <2>2
  <1>6. \A i \in DOMAIN queue' : \E f : f = queue'[i] /\ LoneEvent(f)'
    BY <1>5
  <1>7. QED BY <1>1, <1>6 DEF LoneEvents

\* The first event, and those behind it.
LEMMA LoneRuns ==
    ASSUME IngInv, SmoothInv, LoneInv, Taken # "none"
    PROVE  LET h == Head(queue)
           IN  /\ LoneEvent(h) /\ Taken = h.type /\ EventOK(h) /\ SmoothEvent(h) /\ h \in Event
               /\ queue # << >> /\ queue \in Seq(Event)
               /\ \A f \in InQueue : LoneEvent(f) /\ EventOK(f) /\ SmoothEvent(f)
               /\ \A f \in Behind : f \in Event /\ f \in InQueue /\ Apart(h, f)
  <1>1. /\ queue # << >> /\ queue \in Seq(Event) /\ Taken = Head(queue).type
        /\ Head(queue) \in Event /\ EventOK(Head(queue)) /\ SmoothEvent(Head(queue))
    BY SmoothRuns
  <1>2. /\ Head(queue) = queue[1] /\ 1 \in DOMAIN queue
        /\ \A i \in DOMAIN queue \ {1} : 1 < i /\ queue[i] \in Event
    BY <1>1
  <1>3. LoneEvent(Head(queue))
    BY <1>2 DEF LoneInv, LoneEvents
  <1>4. \A f \in InQueue : LoneEvent(f) /\ EventOK(f) /\ SmoothEvent(f)
    BY DEF InQueue, IngInv, EventsOK, SmoothInv, SmoothEvents, LoneInv, LoneEvents
  <1>5. \A f \in Behind : f \in Event /\ f \in InQueue /\ Apart(Head(queue), f)
    BY <1>2 DEF Behind, InQueue, LoneInv, LoneEvents, InOrder
  <1>6. QED BY <1>1, <1>3, <1>4, <1>5

\* Nothing added is in order, and apart from what is there.
LEMMA NothingAdded ==
    ASSUME queue \in Seq(Event), queue # << >>
    PROVE  /\ Tail(queue) = Tail(queue) \o << >> /\ << >> \in Seq(Event)
           /\ DOMAIN << >> = {} /\ InOrder(<< >>)
  BY DEF InOrder

\* A request to the MBSTF has a transaction of its own.
LEMMA SendsLone ==
    ASSUME TypeOK, Finite, NEW method \in Methods, NEW id \in Nat, Send(method, id)
    PROVE  \E x, w :
              /\ xacts' = xacts \cup {x} /\ wire' = wire \cup {w}
              /\ x.method = method /\ x.id = id /\ SameXact(x, w)
              /\ \A y \in xacts : y.xid # x.xid
              /\ \A v \in wire : v.xid # x.xid
              /\ \A i \in DOMAIN queue : queue[i].type = "CLIENT" => queue[i].xid # x.xid
  <1> DEFINE n == NewXid
             x == [xid |-> n, method |-> method, id |-> id, armed |-> TRUE]
             w == [xid |-> n, method |-> method, id |-> id]
  <1>1. xacts' = xacts \cup {x} /\ wire' = wire \cup {w}
    BY DEF Send
  <1>2. x.xid = n /\ x.method = method /\ x.id = id /\ SameXact(x, w)
    BY DEF SameXact
  <1>3. /\ \A y \in xacts : y.xid # n
        /\ \A v \in wire : v.xid # n
        /\ \A i \in DOMAIN queue : queue[i].type = "CLIENT" => queue[i].xid # n
    BY NewXidIsFree
  <1> HIDE DEF n, x, w
  <1>4. QED BY <1>1, <1>2, <1>3

\* The events to delete name each id once.
LEMMA DelEventsInOrder ==
    ASSUME TypeOK, NEW es \in DelEvents
    PROVE  InOrder(es)
  <1> DEFINE S == 1..Len(registry)
             n == Cardinality(S)
  <1>1. Len(registry) \in Nat
    BY DEF TypeOK
  <1>2. n \in Nat
    BY <1>1, FS_Interval, FS_CardinalityType
  <1>3. PICK f \in {g \in [1..n -> S] : \A i, j \in 1..n : g[i] = g[j] => i = j} :
           es = [i \in 1..n |-> [type |-> "DELETE_SESSION", id |-> f[i]]]
    BY DEF DelEvents, AnyOrder
  <1> HIDE DEF n, S
  <1>4. /\ DOMAIN es = 1..n
        /\ \A i \in 1..n : es[i].type = "DELETE_SESSION" /\ es[i].id = f[i]
    BY <1>3
  <1>5. \A i, j \in 1..n : i < j => i # j
    BY <1>2
  <1>6. QED BY <1>3, <1>4, <1>5 DEF InOrder, Apart

\* The AF sends one DELETE at most.
LEMMA OneRequest ==
    ASSUME MaxDeletes <= 1, NEW i \in 1..MaxDeletes, NEW j \in 1..MaxDeletes
    PROVE  i = j
  BY BoundsAssumption

\* A step that changes the queue only, and what events tell.
LEMMA LoneFrame ==
    ASSUME LoneInv, UNCHANGED <<session, ctx, mbs, registry, xacts, wire, post, del, abort>>
    PROVE  /\ abort' = "no" /\ LoneDeletes' /\ LoneXacts'
           /\ session' = "live" => \A k \in Keys : LoneKey(k)'
           /\ \A e : LoneEvent(e) => LoneEvent(e)'
  <1>1. \A e : LoneEvent(e) => LoneEvent(e)'
    BY DEF LoneEvent, Undisturbed, Ending
  <1>2. LoneXacts'
    BY DEF LoneInv, LoneXacts, XactOK, Undisturbed
  <1>3. \A k : LoneKey(k) => LoneKey(k)'
    BY DEF LoneKey, Undisturbed
  <1>4. QED BY <1>1, <1>2, <1>3 DEF LoneInv, LoneDeletes

\* The same when it takes an event, and adds none.
LEMMA LoneTakes ==
    ASSUME IngInv, SmoothInv, LoneInv, Taken # "none", queue' = Tail(queue),
           UNCHANGED <<session, ctx, mbs, registry, xacts, wire, post, del, abort>>
    PROVE  LoneInv'
  <1>1. /\ abort' = "no" /\ LoneDeletes' /\ LoneXacts'
        /\ session' = "live" => \A k \in Keys : LoneKey(k)'
        /\ \A e : LoneEvent(e) => LoneEvent(e)'
    BY LoneFrame
  <1>2. /\ queue \in Seq(Event) /\ queue # << >>
        /\ \A f \in Behind : LoneEvent(f)
    BY LoneRuns
  <1>3. /\ queue' = Tail(queue) \o << >> /\ << >> \in Seq(Event) /\ DOMAIN << >> = {}
        /\ InOrder(<< >>)
    BY <1>2, NothingAdded
  <1>4. LoneEvents'
    BY <1>1, <1>2, <1>3, LoneTaken DEF LoneInv
  <1>5. QED BY <1>1, <1>4 DEF LoneInv

LEMMA PostLone ==
    ASSUME IngInv, CreateInv, SmoothInv, LoneInv, PostUserDataIngSession, faults' = 0
    PROVE  LoneInv'
  <1>1. session = "none" /\ queue = << >> /\ wire = {} /\ xacts = {} /\ post # "created"
    BY DEF IngInv, PostUserDataIngSession, Lifetime
  <1>2. /\ post' = "waiting" /\ UNCHANGED <<ctx, registry, queue, wire, xacts, del, abort>>
    BY DEF PostUserDataIngSession, peers
  <1>3. \A k \in Keys : ctx[k].status = "NO"
    BY <1>1 DEF CreateInv, Fresh
  <1>4. PICK status \in [Keys -> InitialStatuses] :
           mbs' = [k \in Keys |-> CreateMbsSession(status[k], TRUE)]
    <2>1. faults \in Nat
      BY BoundsAssumption DEF IngInv, TypeOK
    <2>2. PICK status \in [Keys -> InitialStatuses], bad \in SUBSET Keys :
             /\ mbs' = [k \in Keys |-> CreateMbsSession(status[k], k \notin bad)]
             /\ faults' = IF bad = {} THEN faults ELSE faults + 1
      BY DEF PostUserDataIngSession, UpdateContexts
    <2>3. bad = {}
      BY <2>1, <2>2
    <2>4. \A k \in Keys : (k \notin bad) = TRUE
      BY <2>3
    <2>5. QED BY <2>2, <2>4
  <1>5. \A k \in Keys : HandleOK(mbs'[k])
    <2> SUFFICES ASSUME NEW k \in Keys PROVE HandleOK(mbs'[k])
      OBVIOUS
    <2>1. status[k] \in ActivityStatus
      BY BoundsAssumption
    <2> DEFINE s == CreateMbsSession(status[k], TRUE)
    <2>2. mbs'[k] = s /\ HandleOK(s)
      BY <1>4, <2>1, CreatesHandle
    <2> HIDE DEF s
    <2>3. QED BY <2>2
  <1>6. LoneEvents'
    <2>1. DOMAIN queue' = {}
      BY <1>1, <1>2
    <2>2. QED BY <2>1 DEF LoneEvents, InOrder
  <1>7. LoneXacts'
    BY <1>1, <1>2 DEF LoneXacts
  <1>8. \A k \in Keys : LoneKey(k)'
    BY <1>2, <1>3, <1>5 DEF LoneKey
  <1>9. LoneDeletes' /\ abort' = "no"
    BY <1>1, <1>2 DEF LoneInv, LoneDeletes
  <1>10. QED BY <1>6, <1>7, <1>8, <1>9 DEF LoneInv

LEMMA AfDeleteLone ==
    ASSUME MaxDeletes <= 1, IngInv, LoneInv, NEW i \in 1..MaxDeletes, AfDelete(i)
    PROVE  LoneInv'
  <1> DEFINE e == [type |-> "AF_DELETE", req |-> i]
  <1>1. e \in Event /\ e.type = "AF_DELETE" /\ e.req = i
    BY PlainEvents
  <1>2. /\ queue' = Append(queue, e) /\ queue \in Seq(Event) /\ post = "created"
        /\ del[i] = "none" /\ del' = [del EXCEPT ![i] = "sent"]
        /\ UNCHANGED <<session, ctx, mbs, registry, xacts, wire, post, abort>>
    BY DEF AfDelete, peers, IngInv, TypeOK
  <1> HIDE DEF e
  <1>3. \A j \in 1..MaxDeletes : j = i /\ del[j] = "none" /\ del'[j] = "sent"
    BY <1>2, OneRequest DEF IngInv, TypeOK
  <1>4. Undisturbed /\ Undisturbed'
    BY <1>3 DEF Undisturbed
  <1>5. \A f \in InQueue : f \in Event /\ LoneEvent(f)
    BY <1>2 DEF InQueue, LoneInv, LoneEvents
  <1>6. \A f \in InQueue : f.type # "AF_DELETE"
    <2>1. \A f \in InQueue : f.type = "AF_DELETE" => f.req \in 1..MaxDeletes /\ del[f.req] = "sent"
      BY <1>5, EventFields DEF LoneEvent
    <2>2. QED BY <1>3, <2>1
  <1>7. \A f \in InQueue : LoneEvent(f)' /\ Apart(f, e)
    BY <1>1, <1>2, <1>4, <1>5, <1>6 DEF LoneEvent, Apart, Ending
  <1>8. LoneEvent(e)'
    BY <1>1, <1>3 DEF LoneEvent
  <1>9. LoneEvents'
    BY <1>1, <1>2, <1>7, <1>8, LoneAdded DEF LoneInv
  <1>10. LoneXacts'
    BY <1>2, <1>4 DEF LoneInv, LoneXacts, XactOK
  <1>11. \A k : LoneKey(k) => LoneKey(k)'
    BY <1>2, <1>4 DEF LoneKey
  <1>12. LoneDeletes'
    BY <1>2, <1>3 DEF LoneDeletes
  <1>13. QED BY <1>2, <1>9, <1>10, <1>11, <1>12 DEF LoneInv

LEMMA SmfAnswerLone ==
    ASSUME IngInv, LoneInv, SmfAnswers
    PROVE  LoneInv'
  <1>1. PICK k \in Keys, ok, problem \in BOOLEAN : SmfAnswer(k, ok, problem)
    BY DEF SmfAnswers
  <1> DEFINE e == [type |-> "SMF_REPLY", key |-> k, ok |-> ok, problem |-> problem]
  <1>2. e \in Event /\ e.type = "SMF_REPLY"
    BY PlainEvents
  <1>3. /\ queue' = Append(queue, e) /\ queue \in Seq(Event)
        /\ UNCHANGED <<session, ctx, mbs, registry, xacts, wire, post, del, abort>>
    BY <1>1 DEF SmfAnswer, af, peers, IngInv, TypeOK
  <1> HIDE DEF e
  <1>4. /\ abort' = "no" /\ LoneDeletes' /\ LoneXacts'
        /\ session' = "live" => \A j \in Keys : LoneKey(j)'
        /\ \A f : LoneEvent(f) => LoneEvent(f)'
    BY <1>3, LoneFrame
  <1>5. \A f \in InQueue : LoneEvent(f)' /\ Apart(f, e)
    BY <1>2, <1>4 DEF InQueue, LoneInv, LoneEvents, Apart
  <1>6. LoneEvent(e)'
    BY <1>2 DEF LoneEvent
  <1>7. LoneEvents'
    BY <1>2, <1>3, <1>5, <1>6, LoneAdded DEF LoneInv
  <1>8. QED BY <1>4, <1>7 DEF LoneInv

LEMMA StfAnswerLone ==
    ASSUME IngInv, LoneInv, StfAnswers
    PROVE  LoneInv'
  <1>1. PICK w \in wire, ok \in BOOLEAN : StfAnswer(w, ok)
    BY DEF StfAnswers
  <1> DEFINE e == [type |-> "CLIENT", xid |-> w.xid, method |-> w.method, id |-> w.id, ok |-> ok]
  <1>2. w.xid \in Nat /\ w.id \in Nat /\ w.method \in Methods
    BY DEF IngInv, TypeOK
  <1>3. /\ e \in Event /\ e.type = "CLIENT" /\ e.method = w.method /\ e.id = w.id /\ e.xid = w.xid
    BY <1>2, PlainEvents
  <1>4. /\ queue' = Append(queue, e) /\ queue \in Seq(Event) /\ wire' = wire \ {w}
        /\ UNCHANGED <<session, ctx, mbs, registry, xacts, post, del, abort>>
    BY <1>1 DEF StfAnswer, af, IngInv, TypeOK
  <1> HIDE DEF e
  <1>5. \A f : LoneEvent(f) => LoneEvent(f)'
    BY <1>4 DEF LoneEvent, Undisturbed, Ending
  <1>6. \A f \in InQueue : LoneEvent(f)' /\ Apart(f, e)
    <2>1. \A f \in InQueue : LoneEvent(f)
      BY DEF InQueue, LoneInv, LoneEvents
    <2>2. QED BY <1>3, <1>5, <2>1 DEF LoneEvent, Apart
  <1>7. LoneEvent(e)'
    <2>1. \E x \in xacts : SameXact(x, w)
      BY DEF LoneInv, LoneXacts
    <2>2. \A v \in wire' : v.xid # w.xid
      BY <1>4 DEF LoneInv, LoneXacts
    <2>3. QED BY <1>3, <1>4, <2>1, <2>2 DEF LoneEvent, SameXact
  <1>8. LoneEvents'
    BY <1>3, <1>4, <1>6, <1>7, LoneAdded DEF LoneInv
  <1>9. LoneXacts'
    BY <1>4 DEF LoneInv, LoneXacts, XactOK, Undisturbed
  <1>10. \A k : LoneKey(k) => LoneKey(k)'
    BY <1>4 DEF LoneKey, Undisturbed
  <1>11. QED BY <1>4, <1>8, <1>9, <1>10 DEF LoneInv, LoneDeletes

\* The handlers that take an event and change no more, or only run after a fault.
LEMMA NeverRun ==
    ASSUME IngInv, SmoothInv, LoneInv
    PROVE  /\ ~HandleServiceDelete /\ ~HandleCreateError /\ ~HandlePostError /\ ~HandleClientWait
           /\ ~HandleDanglingResult /\ ~HandleNoXact
  <1>1. ASSUME Taken # "none"
        PROVE  /\ SmoothEvent(Head(queue)) /\ LoneEvent(Head(queue)) /\ Taken = Head(queue).type
    BY <1>1, LoneRuns
  <1>2. ~HandleServiceDelete /\ ~HandleCreateError /\ ~HandlePostError /\ ~HandleClientWait
    BY <1>1 DEF SmoothEvent, HandleServiceDelete, HandleCreateError, HandlePostError,
                HandleClientWait
  <1>3. ~HandleDanglingResult
    BY <1>1 DEF LoneEvent, HandleDanglingResult
  <1>4. ~HandleNoXact
    BY <1>1 DEF LoneEvent, SmoothEvent, SameXact, HandleNoXact
  <1>5. QED BY <1>2, <1>3, <1>4

LEMMA HandleAfDeleteLone ==
    ASSUME MaxDeletes <= 1, IngInv, SmoothInv, LoneInv, HandleAfDelete
    PROVE  LoneInv'
  <1> DEFINE h == Head(queue)
  <1>1. /\ Taken = "AF_DELETE" /\ Taken # "none"
        /\ UNCHANGED <<session, ctx, mbs, registry, xacts, wire, post, abort>>
    BY DEF HandleAfDelete, peers
  <1>2. /\ h \in Event /\ h.type = "AF_DELETE" /\ LoneEvent(h)
        /\ queue \in Seq(Event) /\ queue # << >>
        /\ \A f \in InQueue : LoneEvent(f)
        /\ \A f \in Behind : f \in InQueue /\ Apart(h, f)
    BY <1>1, LoneRuns
  <1> HIDE DEF h
  <1>3. PICK i \in 1..MaxDeletes : i = h.req
    BY <1>2, EventFields
  <1>4. del[i] = "sent" /\ \A j \in 1..MaxDeletes : j = i
    BY <1>2, <1>3, OneRequest DEF LoneEvent
  <1>5. PICK answer \in {"pending", "404"} :
           /\ del' = [del EXCEPT ![i] = answer]
           /\ session = "live" => \E es \in DelEvents : queue' = Tail(queue) \o es
           /\ session # "live" => queue' = Tail(queue)
    BY <1>3 DEF HandleAfDelete, h
  <1>6. Undisturbed /\ ~Undisturbed'
    <2>1. del'[i] = answer
      BY <1>5 DEF IngInv, TypeOK
    <2>2. QED BY <1>4, <2>1 DEF Undisturbed
  <1>7. \A x \in xacts : x.method # "DELETE"
    BY <1>6 DEF LoneInv, LoneXacts, XactOK
  <1>8. PICK es \in Seq(Event) :
           /\ queue' = Tail(queue) \o es /\ InOrder(es)
           /\ \A j \in DOMAIN es : /\ session = "live" /\ es[j].type = "DELETE_SESSION"
                                   /\ es[j].id \in 1..Len(registry)
    <2>1. CASE session = "live"
      <3>1. PICK es \in DelEvents : queue' = Tail(queue) \o es
        BY <1>5, <2>1
      <3>2. QED BY <2>1, <3>1, DelEventsMade, DelEventsInOrder DEF IngInv
    <2>2. CASE session # "live"
      <3>1. queue' = Tail(queue) \o << >> /\ << >> \in Seq(Event) /\ DOMAIN << >> = {}
            /\ InOrder(<< >>)
        BY <1>2, <1>5, <2>2, NothingAdded
      <3>2. QED BY <3>1
    <2>3. QED BY <2>1, <2>2
  <1>9. \A j \in DOMAIN es : LoneEvent(es[j])'
    <2> SUFFICES ASSUME NEW j \in DOMAIN es PROVE LoneEvent(es[j])'
      OBVIOUS
    <2>1. registry[es[j].id] \in Keys
      BY <1>8 DEF IngInv, TypeOK
    <2>2. post = "created"
      BY <1>4 DEF LoneInv, LoneDeletes
    <2>3. Untouched(mbs[registry[es[j].id]])
      BY <1>6, <1>8, <2>1, <2>2 DEF LoneInv, LoneKey
    <2>4. QED BY <1>1, <1>6, <1>7, <1>8, <2>3 DEF LoneEvent, Ending
  <1>10. \A f \in InQueue, j \in DOMAIN es : Apart(f, es[j])
    <2>1. \A f \in InQueue : f.type # "DELETE_SESSION"
      BY <1>2, <1>6 DEF LoneEvent
    <2>2. QED BY <1>8, <2>1 DEF Apart
  <1>11. \A f \in Behind : LoneEvent(f)'
    <2>1. \A f \in Behind : f.type # "AF_DELETE" /\ LoneEvent(f)
      BY <1>2 DEF Apart
    <2>2. QED BY <1>1, <1>6, <2>1 DEF LoneEvent, Ending
  <1>12. LoneEvents'
    BY <1>2, <1>8, <1>9, <1>10, <1>11, LoneTaken DEF LoneInv
  <1>13. LoneXacts'
    BY <1>1, <1>6, <1>7 DEF LoneInv, LoneXacts, XactOK
  <1>14. \A k : LoneKey(k) => LoneKey(k)'
    BY <1>1, <1>6 DEF LoneKey
  <1>15. LoneDeletes'
    <2>1. \A j \in 1..MaxDeletes : del'[j] # "gone"
      BY <1>4, <1>5 DEF IngInv, TypeOK
    <2>2. post = "created"
      BY <1>4 DEF LoneInv, LoneDeletes
    <2>3. QED BY <1>1, <2>1, <2>2 DEF LoneDeletes
  <1>16. QED BY <1>1, <1>12, <1>13, <1>14, <1>15 DEF LoneInv

LEMMA SmfReplyLone ==
    ASSUME IngInv, SmoothInv, LoneInv, HandleSmfReply
    PROVE  LoneInv'
  <1> DEFINE h == Head(queue)
  <1>1. /\ Taken = "SMF_REPLY" /\ Taken # "none"
        /\ UNCHANGED <<session, ctx, registry, xacts, wire, post, del>>
    BY DEF HandleSmfReply, peers, af
  <1>2. /\ h \in Event /\ h.type = "SMF_REPLY" /\ h.ok
        /\ queue \in Seq(Event) /\ queue # << >>
        /\ \A f \in InQueue : LoneEvent(f) /\ EventOK(f)
        /\ \A f \in Behind : f \in Event /\ f \in InQueue
    BY <1>1, LoneRuns DEF SmoothEvent
  <1>3. CASE session # "live"
    BY <1>1, <1>3, LoneTakes DEF HandleSmfReply
  <1>4. CASE session = "live"
    <2>1. PICK k \in Keys : k = h.key
      BY <1>2, EventFields
    <2> DEFINE done == Head(mbs[k].ops) = DELETE
               t == MbsSessionCallback(mbs[k], done)
    <2>2. mbs[k] \in MbsSession /\ DeleteAsked(mbs[k]) /\ mbs[k].ops # << >> /\ LoneKey(k)
      BY <1>2, <1>4, <2>1, ReplyIsAwaited
         DEF IngInv, TypeOK, SmoothInv, SmoothKey, LoneInv
    <2>3. done \in BOOLEAN /\ (h.ok /\ done) = done
      BY <1>2, EventFields
    <2>4. /\ mbs' = [mbs EXCEPT ![k] = MbsSessionCallback(mbs[k], h.ok /\ done)]
          /\ queue' = Append(Tail(queue),
                        IF h.ok /\ done THEN [type |-> "DELETED", key |-> k]
                                        ELSE [h EXCEPT !.type = "CREATE_RESULT"])
          /\ abort' \in {"no"} \cup (IF (h.ok /\ done) /\ mbs[k].sendUpdates
                                     THEN {"null"} ELSE {})
      BY <1>4, <2>1 DEF HandleSmfReply
    <2>5. mbs' = [mbs EXCEPT ![k] = t] /\ abort' = "no"
      BY <2>2, <2>3, <2>4 DEF LoneKey, HandleOK
    <2>6. HandleOK(t) /\ t.deleted = mbs[k].deleted /\ t.session = ~done /\ mbs[k].session
      BY <2>2, <2>3, AnswersHandle DEF LoneKey
    <2>7. PICK r \in Event :
             /\ queue' = Append(Tail(queue), r) /\ r.key = k
             /\ IF done THEN r.type = "DELETED" ELSE r.type = "CREATE_RESULT"
      <3>1. [type |-> "DELETED", key |-> k] \in Event
        BY PlainEvents
      <3>2. /\ [h EXCEPT !.type = "CREATE_RESULT"] \in Event
            /\ [h EXCEPT !.type = "CREATE_RESULT"].type = "CREATE_RESULT"
            /\ [h EXCEPT !.type = "CREATE_RESULT"].key = k
        <4>1. \A e \in Event : e.type = "SMF_REPLY" =>
                 [e EXCEPT !.type = "CREATE_RESULT"].key = e.key
          BY DEF Event
        <4>2. QED BY <1>2, <2>1, <4>1, EventFields
      <3>3. queue' = Append(Tail(queue),
                        IF done THEN [type |-> "DELETED", key |-> k]
                                ELSE [h EXCEPT !.type = "CREATE_RESULT"])
        BY <2>3, <2>4
      <3> HIDE DEF h, done
      <3>4. QED BY <3>1, <3>2, <3>3
    <2> HIDE DEF t, done, h
    <2>8. \A j \in Keys : mbs'[j] = IF j = k THEN t ELSE mbs[j]
      BY <2>5 DEF IngInv, TypeOK
    <2>9. /\ queue' = Tail(queue) \o <<r>> /\ <<r>> \in Seq(Event)
          /\ DOMAIN <<r>> = {1} /\ <<r>>[1] = r /\ InOrder(<<r>>)
      BY <1>2, <2>7 DEF InOrder
    <2>10. ctx[k].status # "DELETED" /\ ~Untouched(mbs[k])
      BY <2>2, <2>6 DEF LoneKey, Untouched
    <2>11. \A j \in DOMAIN <<r>> : LoneEvent(<<r>>[j])'
      <3>1. LoneEvent(r)'
        <4>1. r.type = "DELETED" => ~mbs'[r.key].session
          BY <2>6, <2>7, <2>8
        <4>2. QED BY <1>1, <1>4, <2>7, <2>10, <4>1 DEF LoneEvent
      <3>2. QED BY <2>9, <3>1 DEF LoneEvent
    <2>12. \A f \in InQueue, j \in DOMAIN <<r>> : Apart(f, <<r>>[j])
      BY <1>2, <2>6, <2>7, <2>9 DEF Apart, LoneEvent
    <2>13. \A f \in Behind : LoneEvent(f)'
      <3> SUFFICES ASSUME NEW f \in Behind PROVE LoneEvent(f)'
        OBVIOUS
      <3>1. LoneEvent(f) /\ EventOK(f) /\ f \in Event
        BY <1>2
      <3>2. f.type = "DELETE_SESSION" => registry[f.id] \in Keys \ {k}
        BY <1>4, <2>10, <3>1 DEF LoneEvent, EventOK, IngInv, TypeOK
      <3>3. f.type = "DELETED" => f.key \in Keys \ {k}
        BY <2>6, <3>1, EventFields DEF LoneEvent
      <3>4. QED BY <1>1, <2>8, <3>1, <3>2, <3>3 DEF LoneEvent, Undisturbed, Ending
    <2>14. LoneEvents'
      BY <1>2, <2>9, <2>11, <2>12, <2>13, LoneTaken DEF LoneInv
    <2>15. LoneXacts'
      <3>1. \A id \in 1..Len(registry) : mbs'[registry[id]].deleted = mbs[registry[id]].deleted
        BY <2>6, <2>8 DEF IngInv, TypeOK
      <3>2. \A x \in xacts : XactOK(x) => XactOK(x)'
        BY <1>1, <3>1 DEF XactOK, Undisturbed
      <3>3. QED BY <1>1, <3>2 DEF LoneInv, LoneXacts
    <2>16. \A j \in Keys : LoneKey(j)'
      <3>1. \A j \in Keys : LoneKey(j)
        BY <1>4 DEF LoneInv
      <3>2. LoneKey(k)'
        BY <1>1, <2>6, <2>8, <2>10, <3>1 DEF LoneKey, Undisturbed
      <3>3. QED BY <1>1, <2>8, <3>1, <3>2 DEF LoneKey, Undisturbed
    <2>17. QED BY <1>1, <2>5, <2>14, <2>15, <2>16 DEF LoneInv, LoneDeletes
  <1>5. QED BY <1>3, <1>4

LEMMA CreateOkLone ==
    ASSUME IngInv, SmoothInv, LoneInv, HandleCreateOk
    PROVE  LoneInv'
  <1> DEFINE h == Head(queue)
  <1>1. /\ Taken = "CREATE_RESULT" /\ Taken # "none" /\ session = "live"
        /\ UNCHANGED <<session, mbs, registry, xacts, wire, del, abort>>
    BY DEF HandleCreateOk, peers
  <1>2. /\ h \in Event /\ h.type = "CREATE_RESULT"
        /\ queue \in Seq(Event) /\ queue # << >>
        /\ \A f \in InQueue : LoneEvent(f) /\ EventOK(f)
        /\ \A f \in Behind : f \in Event /\ f \in InQueue
    BY <1>1, LoneRuns
  <1>3. PICK k \in Keys : k = h.key
    BY <1>2, EventFields
  <1> DEFINE c == [ctx EXCEPT ![k].status = "CREATED"]
  <1>4. /\ ctx' = c
        /\ post' = IF AllResponded(c) /\ ~AllCreated(c) THEN PostAnswer("error") ELSE post
        /\ \E es \in (IF AllResponded(c) /\ AllCreated(c)
                      THEN ReqEvents(c) ELSE {<< >>}) : queue' = Tail(queue) \o es
    BY <1>3 DEF HandleCreateOk
  <1>5. \A j \in Keys : /\ c[j].status = IF j = k THEN "CREATED" ELSE ctx[j].status
                        /\ c[j].received = ctx[j].received
    BY <1>3 DEF IngInv, TypeOK
  <1>6. post' = post
    <2>1. AllResponded(c) => AllCreated(c)
      BY <1>5 DEF AllResponded, AllCreated, SmoothInv, SmoothKey
    <2>2. QED BY <1>4, <2>1
  <1>7. PICK es \in Seq(Event) : queue' = Tail(queue) \o es
                                 /\ \A i \in DOMAIN es : es[i].type = "REQ_BUILD"
    <2>1. CASE AllResponded(c) /\ AllCreated(c)
      <3>1. PICK es \in ReqEvents(c) : queue' = Tail(queue) \o es
        BY <1>4, <2>1
      <3>2. QED BY <3>1, ReqEventsMade, BoundsAssumption
    <2>2. CASE ~(AllResponded(c) /\ AllCreated(c))
      <3>1. queue' = Tail(queue) \o << >> /\ << >> \in Seq(Event) /\ DOMAIN << >> = {}
        BY <1>2, <1>4, <2>2, NothingAdded
      <3>2. QED BY <3>1
    <2>3. QED BY <2>1, <2>2
  <1> HIDE DEF c, h
  <1>8. /\ InOrder(es) /\ \A j \in DOMAIN es : LoneEvent(es[j])'
        /\ \A f \in InQueue, j \in DOMAIN es : Apart(f, es[j])
    BY <1>7 DEF InOrder, Apart, LoneEvent
  <1>9. \A f \in Behind : LoneEvent(f)'
    <2> SUFFICES ASSUME NEW f \in Behind PROVE LoneEvent(f)'
      OBVIOUS
    <2>1. LoneEvent(f) /\ f \in Event
      BY <1>2
    <2>2. f.type \in {"CREATE_RESULT", "DELETED"} => ctx'[f.key].status # "DELETED"
      BY <1>4, <1>5, <2>1, EventFields DEF LoneEvent
    <2>3. QED BY <1>1, <2>1, <2>2 DEF LoneEvent, Undisturbed, Ending
  <1>10. LoneEvents'
    BY <1>2, <1>7, <1>8, <1>9, LoneTaken DEF LoneInv
  <1>11. LoneXacts'
    <2>1. \A id \in 1..Len(registry) : ctx'[registry[id]].received = ctx[registry[id]].received
      BY <1>4, <1>5 DEF IngInv, TypeOK
    <2>2. \A x \in xacts : XactOK(x) => XactOK(x)'
      BY <1>1, <2>1 DEF XactOK, Undisturbed
    <2>3. QED BY <1>1, <2>2 DEF LoneInv, LoneXacts
  <1>12. \A j \in Keys : LoneKey(j)'
    BY <1>1, <1>4, <1>5, <1>6 DEF LoneInv, LoneKey, Undisturbed
  <1>13. QED BY <1>1, <1>6, <1>10, <1>11, <1>12 DEF LoneInv, LoneDeletes

LEMMA DeletedLone ==
    ASSUME IngInv, CreateInv, SmoothInv, LoneInv, HandleDeleted
    PROVE  LoneInv'
  <1> DEFINE h == Head(queue)
  <1>1. /\ Taken = "DELETED" /\ Taken # "none" /\ session = "live" /\ queue' = Tail(queue)
        /\ UNCHANGED <<registry, wire, post>>
    BY DEF HandleDeleted, peers
  <1>2. /\ h \in Event /\ h.type = "DELETED" /\ SmoothEvent(h) /\ LoneEvent(h)
        /\ queue \in Seq(Event) /\ queue # << >>
        /\ \A f \in InQueue : LoneEvent(f) /\ EventOK(f)
        /\ \A f \in Behind : f \in Event /\ f \in InQueue /\ Apart(h, f)
    BY <1>1, LoneRuns
  <1>3. PICK k \in Keys : k = h.key
    BY <1>2, EventFields
  <1> DEFINE c == [ctx EXCEPT ![k].status = "DELETED"]
  <1>4. ctx' = c /\ mbs[k].deleted /\ ~mbs[k].session
    BY <1>1, <1>2, <1>3 DEF HandleDeleted, SmoothEvent, LoneEvent
  <1>5. \A j \in Keys : /\ c[j].status = IF j = k THEN "DELETED" ELSE ctx[j].status
                        /\ c[j].received = ctx[j].received
    BY <1>3 DEF IngInv, TypeOK
  <1>6. /\ queue' = Tail(queue) \o << >> /\ << >> \in Seq(Event) /\ DOMAIN << >> = {}
        /\ InOrder(<< >>)
    BY <1>1, <1>2, NothingAdded
  <1>7. \A f \in Behind : f.type \in {"CREATE_RESULT", "DELETED"} =>
                             /\ LoneEvent(f) /\ f.key \in Keys \ {k}
                             /\ ctx'[f.key].status # "DELETED"
    <2> SUFFICES ASSUME NEW f \in Behind, f.type \in {"CREATE_RESULT", "DELETED"}
                 PROVE  f.key \in Keys \ {k} /\ ctx'[f.key].status # "DELETED"
      BY <1>2
    <2>1. f.key \in Keys /\ f.key # k /\ ctx[f.key].status # "DELETED"
      BY <1>2, <1>3, EventFields DEF Apart, LoneEvent
    <2>2. QED BY <1>4, <1>5, <2>1
  <1>8. CASE ~AllDeleted(c)
    <2>1. UNCHANGED <<session, mbs, xacts, del, abort>>
      BY <1>3, <1>8 DEF HandleDeleted
    <2> HIDE DEF c, h
    <2>2. \A f \in Behind : LoneEvent(f)'
      BY <1>1, <1>2, <1>7, <2>1 DEF LoneEvent, Undisturbed, Ending
    <2>3. LoneEvents'
      BY <1>2, <1>6, <2>2, LoneTaken DEF LoneInv
    <2>4. LoneXacts'
      <3>1. \A id \in 1..Len(registry) : ctx'[registry[id]].received = ctx[registry[id]].received
        BY <1>4, <1>5 DEF IngInv, TypeOK
      <3>2. \A x \in xacts : XactOK(x) => XactOK(x)'
        BY <1>1, <2>1, <3>1 DEF XactOK, Undisturbed
      <3>3. QED BY <1>1, <2>1, <3>2 DEF LoneInv, LoneXacts
    <2>5. \A j \in Keys : LoneKey(j)'
      BY <1>1, <1>4, <1>5, <2>1 DEF LoneInv, LoneKey, Undisturbed
    <2>6. QED BY <1>1, <2>1, <2>3, <2>4, <2>5 DEF LoneInv, LoneDeletes
  <1>9. CASE AllDeleted(c)
    <2>1. ~\E i \in DOMAIN del : del[i] = "gone"
      BY DEF LoneInv, LoneDeletes, IngInv, TypeOK
    <2>2. /\ Destroy /\ UNCHANGED abort
          /\ del' = [i \in DOMAIN del |-> IF del[i] = "pending" THEN "204" ELSE del[i]]
      BY <1>3, <1>9, <2>1 DEF HandleDeleted
    <2>3. session' = "gone" /\ xacts' = {}
      BY <2>2 DEF Destroy
    <2>4. \A j \in Keys : mbs[j].deleted /\ ctx[j].received
      <3>1. \A j \in Keys : mbs[j].deleted
        BY <1>1, <1>4, <1>5, <1>9 DEF AllDeleted, SmoothInv, SmoothKey
      <3>2. post = "created"
        BY DeletingCreated
      <3>3. QED BY <3>1, <3>2 DEF SmoothInv, AllReceived
    <2>5. xacts = {}
      <3> SUFFICES ASSUME NEW x \in xacts PROVE FALSE
        OBVIOUS
      <3>1. XactOK(x) /\ x.method \in Methods
        BY DEF LoneInv, LoneXacts, IngInv, TypeOK, Xact
      <3>2. registry[x.id] \in Keys
        BY <3>1 DEF XactOK, IngInv, TypeOK
      <3>3. QED BY <2>4, <3>1, <3>2 DEF XactOK, Methods
    <2>6. wire' = {}
      BY <1>1, <2>5 DEF LoneInv, LoneXacts
    <2>7. \A i \in 1..MaxDeletes : del'[i] = del[i] \/ (del[i] = "pending" /\ del'[i] = "204")
      BY <2>2 DEF IngInv, TypeOK
    <2>8. \A i \in 1..MaxDeletes : del[i] = "sent" => del'[i] = "sent"
      BY <2>7
    <2>9. ~Undisturbed => ~Undisturbed'
      BY <2>7 DEF Undisturbed
    <2>10. \A f \in Behind : LoneEvent(f)'
      <3> SUFFICES ASSUME NEW f \in Behind PROVE LoneEvent(f)'
        OBVIOUS
      <3>1. LoneEvent(f) /\ f \in Event
        BY <1>2
      <3>2. f.type \notin {"CREATE_RESULT", "DELETED"}
        BY <1>5, <1>7, <1>4, <1>9 DEF AllDeleted
      <3>3. f.type # "CLIENT"
        BY <2>5, <3>1 DEF LoneEvent
      <3>4. f.type = "AF_DELETE" => del'[f.req] = "sent"
        BY <2>8, <3>1, EventFields DEF LoneEvent
      <3>5. QED BY <2>3, <2>9, <3>1, <3>2, <3>3, <3>4 DEF LoneEvent, Ending
    <2> HIDE DEF c, h
    <2>11. LoneEvents'
      BY <1>2, <1>6, <2>10, LoneTaken DEF LoneInv
    <2>12. LoneXacts'
      BY <2>3, <2>6 DEF LoneXacts
    <2>13. LoneDeletes'
      BY <1>1, <2>7 DEF LoneInv, LoneDeletes
    <2>14. QED BY <2>2, <2>3, <2>11, <2>12, <2>13 DEF LoneInv
  <1>10. QED BY <1>8, <1>9

LEMMA ReqBuildLone ==
    ASSUME IngInv, SmoothInv, LoneInv, HandleReqBuild
    PROVE  LoneInv'
  <1> DEFINE h == Head(queue)
  <1>1. /\ Taken = "REQ_BUILD" /\ Taken # "none" /\ queue' = Tail(queue)
        /\ UNCHANGED <<session, ctx, mbs, post, del, abort>>
    BY DEF HandleReqBuild, af
  <1>2. /\ h \in Event /\ h.type = "REQ_BUILD" /\ SmoothEvent(h)
        /\ queue \in Seq(Event) /\ queue # << >>
        /\ \A f \in InQueue : LoneEvent(f) /\ EventOK(f)
        /\ \A f \in Behind : f \in Event /\ f \in InQueue
    BY <1>1, LoneRuns
  <1>3. CASE session # "live"
    BY <1>1, <1>3, LoneTakes DEF HandleReqBuild
  <1>4. CASE session = "live"
    <2>1. PICK k \in Keys : k = h.key
      BY <1>2, EventFields
    <2>2. PICK n \in Nat : n = Len(registry)
      BY DEF IngInv, TypeOK
    <2>3. registry' = Append(registry, k) /\ Send("POST", n + 1)
      BY <1>4, <2>1, <2>2 DEF HandleReqBuild, RegisterDistSession
    <2>4. /\ Len(registry') = n + 1 /\ registry'[n + 1] = k
          /\ \A id \in 1..n : registry'[id] = registry[id] /\ id # n + 1 /\ id \in 1..(n + 1)
      BY <2>2, <2>3 DEF IngInv, TypeOK
    <2>5. PICK x, w :
             /\ xacts' = xacts \cup {x} /\ wire' = wire \cup {w}
             /\ x.method = "POST" /\ x.id = n + 1 /\ SameXact(x, w)
             /\ \A y \in xacts : y.xid # x.xid
             /\ \A v \in wire : v.xid # x.xid
             /\ \A i \in DOMAIN queue : queue[i].type = "CLIENT" => queue[i].xid # x.xid
      <3>1. "POST" \in Methods /\ n + 1 \in Nat
        BY DEF Methods
      <3>2. QED BY <2>3, <3>1, SendsLone DEF IngInv
    <2>6. ~ctx[k].received
      BY <1>2, <2>1 DEF SmoothEvent
    <2>7. /\ queue' = Tail(queue) \o << >> /\ << >> \in Seq(Event) /\ DOMAIN << >> = {}
          /\ InOrder(<< >>)
      BY <1>1, <1>2, NothingAdded
    <2> HIDE DEF h
    <2>8. \A f \in InQueue : f.type = "CLIENT" => f.xid # w.xid
      BY <2>5 DEF InQueue, SameXact
    <2>9. \A f \in Behind : LoneEvent(f)'
      <3> SUFFICES ASSUME NEW f \in Behind PROVE LoneEvent(f)'
        OBVIOUS
      <3>1. LoneEvent(f) /\ EventOK(f) /\ f \in Event /\ f \in InQueue
        BY <1>2
      <3>2. f.type = "DELETE_SESSION" => registry'[f.id] = registry[f.id]
        BY <2>2, <2>4, <3>1 DEF EventOK
      <3>3. \A id : Ending(id)' => Ending(id)
        BY <2>5 DEF Ending
      <3>4. f.type = "CLIENT" => (\E y \in xacts' : SameXact(y, f)) /\ \A v \in wire' : v.xid # f.xid
        BY <2>5, <2>8, <3>1 DEF LoneEvent
      <3>5. QED BY <1>1, <3>1, <3>2, <3>3, <3>4 DEF LoneEvent, Undisturbed
    <2>10. LoneEvents'
      BY <1>2, <2>7, <2>9, LoneTaken DEF LoneInv
    <2>11. LoneXacts'
      <3>1. XactOK(x)'
        BY <1>1, <2>4, <2>5, <2>6 DEF XactOK
      <3>2. \A y \in xacts : XactOK(y)'
        BY <1>1, <2>2, <2>4 DEF LoneInv, LoneXacts, XactOK, Undisturbed
      <3>3. \A y \in xacts : Distinct(x, y) /\ Distinct(y, x)
        BY <2>2, <2>4, <2>5 DEF LoneInv, LoneXacts, XactOK, Distinct
      <3>4. \A v \in wire : v.xid # w.xid
        BY <2>5 DEF SameXact
      <3>5. /\ \A y \in xacts' : y \in xacts \/ y = x
            /\ \A v \in wire' : v \in wire \/ v = w
            /\ xacts \subseteq xacts' /\ x \in xacts'
        BY <2>5
      <3>6. \A y \in xacts' : XactOK(y)'
        BY <3>1, <3>2, <3>5 DEF XactOK
      <3>7. \A y, z \in xacts' : y = z \/ Distinct(y, z)
        BY <3>3, <3>5 DEF LoneInv, LoneXacts
      <3>8. \A v \in wire' : \E y \in xacts' : SameXact(y, v)
        BY <2>5, <3>5 DEF LoneInv, LoneXacts
      <3>9. \A u, v \in wire' : u = v \/ u.xid # v.xid
        BY <3>4, <3>5 DEF LoneInv, LoneXacts
      <3>10. QED BY <3>6, <3>7, <3>8, <3>9 DEF LoneXacts
    <2>12. \A j \in Keys : LoneKey(j)'
      BY <1>1, <1>4 DEF LoneInv, LoneKey, Undisturbed
    <2>13. QED BY <1>1, <2>10, <2>11, <2>12 DEF LoneInv, LoneDeletes
  <1>5. QED BY <1>3, <1>4

LEMMA DeleteSessionLone ==
    ASSUME IngInv, SmoothInv, LoneInv, HandleDeleteSession
    PROVE  LoneInv'
  <1> DEFINE h == Head(queue)
  <1>1. /\ Taken = "DELETE_SESSION" /\ Taken # "none" /\ queue' = Tail(queue)
        /\ UNCHANGED <<session, ctx, registry, post, del>>
    BY DEF HandleDeleteSession, af
  <1>2. /\ h \in Event /\ h.type = "DELETE_SESSION" /\ LoneEvent(h) /\ EventOK(h)
        /\ queue \in Seq(Event) /\ queue # << >>
        /\ \A f \in InQueue : LoneEvent(f) /\ EventOK(f)
        /\ \A f \in Behind : f \in Event /\ f \in InQueue /\ Apart(h, f)
    BY <1>1, LoneRuns
  <1>3. CASE session # "live"
    BY <1>1, <1>3, LoneTakes DEF HandleDeleteSession
  <1>4. CASE session = "live"
    <2>1. PICK id \in 1..Len(registry) : id = h.id
      BY <1>2 DEF EventOK
    <2>2. PICK k \in Keys : k = registry[id]
      BY DEF IngInv, TypeOK
    <2> DEFINE t == PushChanges(SetActivityStatus(mbs[k], INACTIVE))
    <2>3. /\ mbs' = [mbs EXCEPT ![k] = t] /\ Send("DELETE", id)
          /\ abort' \in {"no"} \cup (IF mbs[k].session \/ mbs[k].inFlight THEN {} ELSE {"null"})
      BY <1>4, <2>1, <2>2 DEF HandleDeleteSession
    <2>4. /\ mbs[k] \in MbsSession /\ LoneKey(k)
          /\ Untouched(mbs[k]) /\ ~Undisturbed /\ ~Ending(id)
      BY <1>2, <1>4, <2>1, <2>2 DEF IngInv, TypeOK, LoneInv, LoneEvent
    <2>5. HandleOK(t) /\ ~t.deleted /\ mbs[k].session
      BY <2>4, StopsHandle DEF LoneKey
    <2>6. abort' = "no"
      BY <2>3, <2>5
    <2> HIDE DEF t
    <2>7. \A j \in Keys : mbs'[j] = IF j = k THEN t ELSE mbs[j]
      BY <2>3 DEF IngInv, TypeOK
    <2>8. PICK x, w :
             /\ xacts' = xacts \cup {x} /\ wire' = wire \cup {w}
             /\ x.method = "DELETE" /\ x.id = id /\ SameXact(x, w)
             /\ \A y \in xacts : y.xid # x.xid
             /\ \A v \in wire : v.xid # x.xid
             /\ \A i \in DOMAIN queue : queue[i].type = "CLIENT" => queue[i].xid # x.xid
      <3>1. "DELETE" \in Methods /\ id \in Nat
        BY DEF Methods
      <3>2. QED BY <2>3, <3>1, SendsLone DEF IngInv
    <2>9. /\ queue' = Tail(queue) \o << >> /\ << >> \in Seq(Event) /\ DOMAIN << >> = {}
          /\ InOrder(<< >>)
      BY <1>1, <1>2, NothingAdded
    <2> HIDE DEF h
    <2>10. \A f \in InQueue : f.type = "CLIENT" => f.xid # w.xid
      BY <2>8 DEF InQueue, SameXact
    <2>11. \A f \in Behind : LoneEvent(f)'
      <3> SUFFICES ASSUME NEW f \in Behind PROVE LoneEvent(f)'
        OBVIOUS
      <3>1. LoneEvent(f) /\ EventOK(f) /\ f \in Event /\ f \in InQueue /\ Apart(h, f)
        BY <1>2
      <3>2. f.type = "DELETE_SESSION" => f.id # id /\ registry[f.id] \in Keys \ {k}
        <4>1. ASSUME f.type = "DELETE_SESSION" PROVE f.id \in 1..Len(registry) /\ f.id # id
          BY <1>2, <2>1, <3>1, <4>1 DEF EventOK, Apart
        <4>2. QED BY <2>2, <4>1 DEF SmoothInv, OneId, IngInv, TypeOK
      <3>3. f.type = "DELETED" => f.key \in Keys \ {k}
        BY <2>5, <3>1, EventFields DEF LoneEvent
      <3>4. \A i : i # id /\ Ending(i)' => Ending(i)
        BY <2>8 DEF Ending
      <3>5. f.type = "CLIENT" => (\E y \in xacts' : SameXact(y, f)) /\ \A v \in wire' : v.xid # f.xid
        BY <2>8, <2>10, <3>1 DEF LoneEvent
      <3>6. QED BY <1>1, <2>7, <3>1, <3>2, <3>3, <3>4, <3>5 DEF LoneEvent, Undisturbed
    <2>12. LoneEvents'
      BY <1>2, <2>9, <2>11, LoneTaken DEF LoneInv
    <2>13. LoneXacts'
      <3>1. \A i \in 1..Len(registry) : ~mbs[registry[i]].deleted => ~mbs'[registry[i]].deleted
        BY <2>5, <2>7 DEF IngInv, TypeOK
      <3>2. XactOK(x)'
        BY <1>1, <2>2, <2>4, <2>5, <2>7, <2>8 DEF XactOK, Undisturbed
      <3>3. \A y \in xacts : XactOK(y)'
        BY <1>1, <3>1 DEF LoneInv, LoneXacts, XactOK, Undisturbed
      <3>4. \A y \in xacts : Distinct(x, y) /\ Distinct(y, x)
        BY <2>4, <2>8 DEF Distinct, Ending
      <3>5. \A v \in wire : v.xid # w.xid
        BY <2>8 DEF SameXact
      <3>6. /\ \A y \in xacts' : y \in xacts \/ y = x
            /\ \A v \in wire' : v \in wire \/ v = w
            /\ xacts \subseteq xacts' /\ x \in xacts'
        BY <2>8
      <3>7. \A y \in xacts' : XactOK(y)'
        BY <3>2, <3>3, <3>6 DEF XactOK
      <3>8. \A y, z \in xacts' : y = z \/ Distinct(y, z)
        BY <3>4, <3>6 DEF LoneInv, LoneXacts
      <3>9. \A v \in wire' : \E y \in xacts' : SameXact(y, v)
        BY <2>8, <3>6 DEF LoneInv, LoneXacts
      <3>10. \A u, v \in wire' : u = v \/ u.xid # v.xid
        BY <3>5, <3>6 DEF LoneInv, LoneXacts
      <3>11. QED BY <3>7, <3>8, <3>9, <3>10 DEF LoneXacts
    <2>14. \A j \in Keys : LoneKey(j)'
      <3>1. \A j \in Keys : LoneKey(j)
        BY <1>4 DEF LoneInv
      <3>2. LoneKey(k)'
        BY <1>1, <2>4, <2>5, <2>7 DEF LoneKey, Undisturbed
      <3>3. QED BY <1>1, <2>7, <3>1, <3>2 DEF LoneKey, Undisturbed
    <2>15. QED BY <1>1, <2>6, <2>12, <2>13, <2>14 DEF LoneInv, LoneDeletes
  <1>5. QED BY <1>3, <1>4

\* A step that takes the transaction of the event at the head.
LEMMA XactTakenLone ==
    ASSUME IngInv, SmoothInv, LoneInv, Taken = "CLIENT", OtherXacts # xacts, xacts' = OtherXacts,
           UNCHANGED <<registry, wire, del>>
    PROVE  \E x \in xacts :
              /\ SameXact(x, Head(queue)) /\ XactOK(x)
              /\ \A y \in xacts' : y \in xacts /\ XactOK(y) /\ Distinct(x, y)
              /\ \A f \in Behind : f.type = "CLIENT" => \E y \in xacts' : SameXact(y, f)
              /\ (\A y \in xacts' : XactOK(y)') => LoneXacts'
  <1> DEFINE h == Head(queue)
  <1>1. /\ LoneEvent(h) /\ h.type = "CLIENT"
        /\ \A f \in Behind : f \in InQueue /\ LoneEvent(f) /\ Apart(h, f)
    <2>1. Taken # "none"
      OBVIOUS
    <2>2. QED BY <2>1, LoneRuns
  <1> HIDE DEF h
  <1>2. PICK x \in xacts : SameXact(x, h)
    BY <1>1 DEF LoneEvent
  <1>3. \A w \in wire : w.xid # h.xid
    BY <1>1 DEF LoneEvent
  <1>4. \A y : y \in xacts' <=> y \in xacts /\ y.xid # h.xid
    BY DEF OtherXacts, h
  <1>5. XactOK(x) /\ \A y \in xacts' : y \in xacts /\ XactOK(y) /\ Distinct(x, y)
    BY <1>2, <1>4 DEF LoneInv, LoneXacts, SameXact
  <1>6. \A f \in Behind : f.type = "CLIENT" => \E y \in xacts' : SameXact(y, f)
    BY <1>1, <1>4 DEF LoneEvent, Apart, SameXact
  <1>7. /\ \A w \in wire' : \E y \in xacts' : SameXact(y, w)
        /\ \A v, w \in wire' : v = w \/ v.xid # w.xid
        /\ \A y, z \in xacts' : y = z \/ Distinct(y, z)
    BY <1>3, <1>4 DEF LoneInv, LoneXacts, SameXact
  <1>8. (\A y \in xacts' : XactOK(y)') => LoneXacts'
    BY <1>7 DEF LoneXacts
  <1>9. QED BY <1>2, <1>5, <1>6, <1>8 DEF h

LEMMA PostOkLone ==
    ASSUME IngInv, CreateInv, SmoothInv, LoneInv, HandlePostOk
    PROVE  LoneInv'
  <1> DEFINE h == Head(queue)
  <1>1. /\ Taken = "CLIENT" /\ Taken # "none" /\ h.method = "POST" /\ queue' = Tail(queue)
        /\ OtherXacts # xacts /\ xacts' = OtherXacts
        /\ UNCHANGED <<session, mbs, registry, wire, del, abort>>
    BY DEF HandlePostOk, peers
  <1>2. /\ h \in Event /\ h.type = "CLIENT" /\ EventOK(h)
        /\ queue \in Seq(Event) /\ queue # << >>
        /\ \A f \in InQueue : LoneEvent(f) /\ EventOK(f)
        /\ \A f \in Behind : f \in Event /\ f \in InQueue
    BY <1>1, LoneRuns
  <1>3. PICK id \in 1..Len(registry) : id = h.id
    BY <1>2 DEF EventOK
  <1>4. PICK k \in Keys : k = registry[id]
    BY DEF IngInv, TypeOK
  <1> DEFINE c == [ctx EXCEPT ![k].received = TRUE]
  <1>5. ctx' = c /\ post' = IF AllReceived(c) THEN PostAnswer("created") ELSE post
    BY <1>3, <1>4 DEF HandlePostOk, ProcessDistSession, IngestResponse
  <1>6. \A j \in Keys : c[j].status = ctx[j].status /\ c[j].received = (j = k \/ ctx[j].received)
    BY <1>4 DEF IngInv, TypeOK
  <1>7. PICK x \in xacts :
           /\ SameXact(x, h)
           /\ \A y \in xacts' : XactOK(y) /\ Distinct(x, y)
           /\ \A f \in Behind : f.type = "CLIENT" => \E y \in xacts' : SameXact(y, f)
           /\ (\A y \in xacts' : XactOK(y)') => LoneXacts'
    BY <1>1, XactTakenLone
  <1> HIDE DEF h, c
  <1>8. LoneXacts'
    <2> SUFFICES ASSUME NEW y \in xacts' PROVE XactOK(y)'
      BY <1>7
    <2>1. XactOK(y) /\ registry[y.id] \in Keys
      BY <1>7 DEF XactOK, IngInv, TypeOK
    <2>2. y.method = "POST" => y.id # id
      BY <1>1, <1>3, <1>7 DEF SameXact, Distinct
    <2>3. y.method = "POST" => registry[y.id] # k
      BY <1>4, <2>1, <2>2 DEF XactOK, SmoothInv, OneId
    <2>4. y.method = "POST" => ~ctx'[registry[y.id]].received
      BY <1>5, <1>6, <2>1, <2>3 DEF XactOK
    <2>5. QED BY <1>1, <2>1, <2>4 DEF XactOK, Undisturbed
  <1>9. /\ queue' = Tail(queue) \o << >> /\ << >> \in Seq(Event) /\ DOMAIN << >> = {}
        /\ InOrder(<< >>)
    BY <1>1, <1>2, NothingAdded
  <1>10. \A f \in Behind : LoneEvent(f)'
    <2> SUFFICES ASSUME NEW f \in Behind PROVE LoneEvent(f)'
      OBVIOUS
    <2>1. LoneEvent(f) /\ f \in Event
      BY <1>2
    <2>2. f.type \in {"CREATE_RESULT", "DELETED"} => ctx'[f.key].status # "DELETED"
      BY <1>5, <1>6, <2>1, EventFields DEF LoneEvent
    <2>3. \A i : Ending(i)' => Ending(i)
      BY <1>1 DEF Ending, OtherXacts
    <2>4. QED BY <1>1, <1>7, <2>1, <2>2, <2>3 DEF LoneEvent, Undisturbed
  <1>11. LoneEvents'
    BY <1>2, <1>9, <1>10, LoneTaken DEF LoneInv
  <1>12. post' = post \/ (post = "waiting" /\ post' = "created")
    BY <1>5 DEF PostAnswer
  <1>13. post = "waiting" => \A j \in Keys : Untouched(mbs[j])
    <2> SUFFICES ASSUME post = "waiting" PROVE \A j \in Keys : Untouched(mbs[j])
      OBVIOUS
    <2>1. KeysCreate
      BY DEF CreateInv, Awaited, SmoothInv
    <2>2. NoNo
      <3>1. Len(registry) > 0
        BY <1>3 DEF IngInv, TypeOK
      <3>2. QED BY <3>1 DEF IngInv, TwoPhases, NoNo
    <2>3. \A j \in Keys : ctx[j].status = "CREATED" /\ ~mbs[j].deleted
      BY <2>1, <2>2 DEF KeysCreate, KeyOK, Undeleted, AllCreated
    <2>4. QED BY <2>3 DEF SmoothInv, OneResult, Untouched
  <1>14. session' = "live" => \A j \in Keys : LoneKey(j)'
    <2> SUFFICES ASSUME session = "live", NEW j \in Keys PROVE LoneKey(j)'
      BY <1>1
    <2>1. LoneKey(j) /\ ctx'[j].status = ctx[j].status
      BY <1>5, <1>6 DEF LoneInv
    <2>2. QED BY <1>1, <1>12, <1>13, <2>1 DEF LoneKey, Undisturbed
  <1>15. LoneDeletes'
    BY <1>1, <1>12 DEF LoneInv, LoneDeletes
  <1>16. QED BY <1>1, <1>8, <1>11, <1>14, <1>15 DEF LoneInv

LEMMA DeleteReplyLone ==
    ASSUME IngInv, SmoothInv, LoneInv, HandleDeleteReply
    PROVE  LoneInv'
  <1> DEFINE h == Head(queue)
  <1>1. /\ Taken = "CLIENT" /\ Taken # "none" /\ h.method = "DELETE" /\ queue' = Tail(queue)
        /\ OtherXacts # xacts /\ xacts' = OtherXacts
        /\ UNCHANGED <<session, ctx, registry, wire, post, del, abort>>
    BY DEF HandleDeleteReply, peers, af
  <1>2. /\ h \in Event /\ h.type = "CLIENT" /\ EventOK(h)
        /\ queue \in Seq(Event) /\ queue # << >>
        /\ \A f \in InQueue : LoneEvent(f) /\ EventOK(f)
        /\ \A f \in Behind : f \in Event /\ f \in InQueue
    BY <1>1, LoneRuns
  <1>3. PICK id \in 1..Len(registry) : id = h.id
    BY <1>2 DEF EventOK
  <1>4. PICK k \in Keys : k = registry[id]
    BY DEF IngInv, TypeOK
  <1>5. mbs' = mbs \/ mbs' = [mbs EXCEPT ![k] = DeleteSession(mbs[k])]
    BY <1>3, <1>4 DEF HandleDeleteReply, DistSessionDeleted
  <1>6. PICK x \in xacts :
           /\ SameXact(x, h) /\ XactOK(x)
           /\ \A y \in xacts' : XactOK(y) /\ Distinct(x, y)
           /\ \A f \in Behind : f.type = "CLIENT" => \E y \in xacts' : SameXact(y, f)
           /\ (\A y \in xacts' : XactOK(y)') => LoneXacts'
    BY <1>1, XactTakenLone
  <1> HIDE DEF h
  <1>7. x.method = "DELETE" /\ x.id = id /\ Ending(id) /\ ~Undisturbed /\ ~mbs[k].deleted
    BY <1>1, <1>3, <1>4, <1>6 DEF SameXact, Ending, XactOK
  <1>8. session = "live"
    BY DEF IngInv, Lifetime
  <1>9. mbs[k] \in MbsSession /\ DeleteAsked(mbs[k]) /\ LoneKey(k)
    BY <1>8 DEF IngInv, TypeOK, SmoothInv, SmoothKey, LoneInv
  <1> DEFINE t == DeleteSession(mbs[k])
  <1>10. HandleOK(t) /\ mbs[k].session
    BY <1>7, <1>9, DeletesHandle DEF LoneKey
  <1> HIDE DEF t
  <1>11. \A j \in Keys : mbs'[j] = mbs[j] \/ (j = k /\ mbs'[j] = t)
    BY <1>5 DEF t, IngInv, TypeOK
  <1>12. LoneXacts'
    <2> SUFFICES ASSUME NEW y \in xacts' PROVE XactOK(y)'
      BY <1>6
    <2>1. XactOK(y) /\ registry[y.id] \in Keys
      BY <1>6 DEF XactOK, IngInv, TypeOK
    <2>2. y.method = "DELETE" => y.id # id
      BY <1>6, <1>7 DEF Distinct
    <2>3. y.method = "DELETE" => registry[y.id] # k
      BY <1>4, <2>1, <2>2 DEF XactOK, SmoothInv, OneId
    <2>4. y.method = "DELETE" => ~mbs'[registry[y.id]].deleted
      BY <1>11, <2>1, <2>3 DEF XactOK
    <2>5. QED BY <1>1, <2>1, <2>4 DEF XactOK, Undisturbed
  <1>13. /\ queue' = Tail(queue) \o << >> /\ << >> \in Seq(Event) /\ DOMAIN << >> = {}
         /\ InOrder(<< >>)
    BY <1>1, <1>2, NothingAdded
  <1>14. \A f \in Behind : LoneEvent(f)'
    <2> SUFFICES ASSUME NEW f \in Behind PROVE LoneEvent(f)'
      OBVIOUS
    <2>1. LoneEvent(f) /\ EventOK(f) /\ f \in Event
      BY <1>2
    <2>2. f.type = "DELETE_SESSION" => registry[f.id] \in Keys \ {k}
      <3>1. ASSUME f.type = "DELETE_SESSION" PROVE f.id \in 1..Len(registry) /\ f.id # id
        BY <1>7, <2>1, <3>1 DEF EventOK, LoneEvent
      <3>2. QED BY <1>4, <3>1 DEF SmoothInv, OneId, IngInv, TypeOK
    <2>3. f.type = "DELETED" => f.key \in Keys \ {k}
      BY <1>10, <2>1, EventFields DEF LoneEvent
    <2>4. \A i : Ending(i)' => Ending(i)
      BY <1>1 DEF Ending, OtherXacts
    <2>5. QED BY <1>1, <1>6, <1>11, <2>1, <2>2, <2>3, <2>4 DEF LoneEvent, Undisturbed
  <1>15. LoneEvents'
    BY <1>2, <1>13, <1>14, LoneTaken DEF LoneInv
  <1>16. \A j \in Keys : LoneKey(j)'
    <2>1. \A j \in Keys : LoneKey(j)
      BY <1>8 DEF LoneInv
    <2>2. ctx[k].status # "DELETED"
      BY <1>9, <1>10 DEF LoneKey
    <2>3. QED BY <1>1, <1>7, <1>10, <1>11, <2>1, <2>2 DEF LoneKey, Undisturbed
  <1>17. QED BY <1>1, <1>12, <1>15, <1>16 DEF LoneInv, LoneDeletes

Lone == faults = 0 => LoneInv

LEMMA LoneStep ==
    ASSUME MaxDeletes <= 1, IngInv, CreateInv, Smooth, Lone, [Next]_vars
    PROVE  Lone'
  <1> SUFFICES ASSUME faults' = 0 PROVE LoneInv'
    BY DEF Lone
  <1>1. TypeOK
    BY DEF IngInv
  <1>2. SmoothInv /\ LoneInv
    BY <1>1, NoFaultBefore DEF Smooth, Lone
  <1>3. CASE UNCHANGED vars
    BY <1>2, <1>3 DEF vars, LoneInv, LoneDeletes, LoneEvents, LoneEvent, Undisturbed, Ending,
       LoneXacts, XactOK, LoneKey
  <1>4. CASE PostUserDataIngSession
    BY <1>2, <1>4, PostLone
  <1>5. CASE (\E i \in 1..MaxDeletes : AfDelete(i)) \/ SmfAnswers \/ StfAnswers
    BY <1>2, <1>5, AfDeleteLone, SmfAnswerLone, StfAnswerLone
  <1>6. CASE Dispatch
    BY <1>2, <1>6, NeverRun, HandleAfDeleteLone, SmfReplyLone, CreateOkLone, DeletedLone,
       ReqBuildLone, DeleteSessionLone, PostOkLone, DeleteReplyLone DEF Dispatch
  <1>7. QED BY <1>1, <1>3, <1>4, <1>5, <1>6, NoFaultBefore DEF Next

\* Without faults no assertion (ogs_assert(sbi_xact)), no uncaught exception and
\* no pointer to what has gone ends the process, in the whole life of a session
\* that the AF deletes once: for any number of distribution sessions, whatever
\* their activity, and in whatever order the peers answer.
THEOREM NeverEndsAlone ==
    ASSUME MaxDeletes <= 1
    PROVE  Spec => []NoAbortWithoutFaults
  <1>1. Init => Lone
    BY DEF Init, Lone, LoneInv, LoneDeletes, LoneEvents, InOrder, LoneXacts
  <1>2. IngInv /\ CreateInv /\ Smooth /\ Lone /\ [Next]_vars => Lone'
    BY LoneStep
  <1>3. Lone => NoAbortWithoutFaults
    BY DEF Lone, LoneInv, NoAbortWithoutFaults
  <1>4. QED BY <1>1, <1>2, <1>3, IngestConsistent, FaultFreeIsSmooth, PTL DEF Spec

\* And every answer then finds its transaction (Nmb2Handler.cc:206).
THEOREM AnswersFindTheirXact ==
    ASSUME MaxDeletes <= 1
    PROVE  Spec => [](faults = 0 => LateAnswerDropped)
  <1>1. NoAbortWithoutFaults => (faults = 0 => LateAnswerDropped)
    BY DEF NoAbortWithoutFaults, LateAnswerDropped
  <1>2. QED BY <1>1, NeverEndsAlone, PTL
=============================================================================
