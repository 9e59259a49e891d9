--------------------------- MODULE Registry_proofs ---------------------------
(***************************************************************************)
(* Proofs about Registry: the count of services that need the channel,     *)
(* the handlers' exceptions and assertions, the answers, and the MBS       *)
(* Session Ids in use, for any services, ingest sessions, ids and number   *)
(* of requests.                                                            *)
(***************************************************************************)
EXTENDS Registry, FiniteSetTheorems, SequenceTheorems, WellFoundedInduction, TLAPS

USE RegistryAssumption

-----------------------------------------------------------------------------
(* Types.  (What AddNew takes is left open: it is computed by a fold.)     *)

Alive == {"creating", "there", "deleting"}
IngestFields == {"at", "service", "post", "deletes", "infos", "ctx"}
IngestShape(d) ==
    /\ DOMAIN d = IngestFields
    /\ d.at \in Alive \cup {"free", "orphan", "gone"} /\ d.service \in Service \cup {NoService}
    /\ d.at \in Alive => d.service \in Service
    /\ d.post \in 0..MaxRequests /\ d.deletes \subseteq Stream
    /\ DOMAIN d.ctx = Key /\ \A k \in Key : d.ctx[k] \in UniqueIds \cup {NoId}

Types ==
    /\ us \in [Service -> UserServiceState]
    /\ DOMAIN ing = Ingest /\ \A i \in Ingest : IngestShape(ing[i])
    /\ queue \in Seq(Removal) /\ counter \in Int /\ requests \in 0..MaxRequests
    /\ answers \in [Stream -> Nat] /\ odd \subseteq Odd
    /\ abort \in {"no", "uncaught", "assert", "memory"}

-----------------------------------------------------------------------------
(* Services.                                                               *)

\* A service has the ingest sessions that were created for it and are there.
SessionsAre ==
    \A s \in Service, i \in Ingest :
        i \in us[s].sessions <=> ing[i].service = s /\ ing[i].at \in Alive

\* A service that is not there has nothing; one that is to be removed waits for
\* its ingest sessions.
ServicesAre ==
    \A s \in Service :
        /\ ~us[s].there => us[s].sessions = {} /\ us[s].removal = << >>
        /\ us[s].removal # << >> =>
              /\ us[s].sessions # {}
              /\ us[s].removal[1].service = s /\ us[s].removal[1].ann = us[s].ann

\* A removal in the queue is the only one of its service, which has no ingest
\* session left and is as it was at the DELETE.
Ready(e, u) == u.there /\ u.removal = << >> /\ u.sessions = {} /\ u.ann = e.ann
QueueIs ==
    "window" \notin odd =>
        /\ \A n \in DOMAIN queue : Ready(queue[n], us[queue[n].service])
        /\ \A m, n \in DOMAIN queue : queue[m].service = queue[n].service => m = n

CounterIs == "window" \notin odd => counter = Cardinality({s \in Services : us[s].ann})

\* The keys in the model have contexts, and there is one.
InfosAre ==
    /\ odd \cap {"halfway", "contextless"} = {} =>
          \A i \in Ingest : Found(i) => ing[i].infos \subseteq Contexts(i)
    /\ "contextless" \notin odd => \A i \in Ingest : Found(i) => Contexts(i) # {}

ServiceInv ==
    Types /\ SessionsAre /\ ServicesAre /\ QueueIs /\ CounterIs /\ InfosAre /\ HandlersSafe

-----------------------------------------------------------------------------
(* Answers.                                                                *)

\* Where a request waits for its answer: with the ingest session that its POST
\* creates or its DELETE removes, with the service, or in the queue.
Place == {<<"post", i>> : i \in Ingest} \cup {<<"delete", i>> : i \in Ingest}
         \cup {<<"removal", s>> : s \in Service} \cup {<<"queue", 0>>}
Owed(p) ==
    CASE p[1] = "post" -> IF ing[p[2]].at = "creating" THEN {ing[p[2]].post} ELSE {}
      [] p[1] = "delete" -> IF ing[p[2]].at \in Alive THEN ing[p[2]].deletes ELSE {}
      [] p[1] = "removal" -> IF us[p[2]].removal = << >> THEN {} ELSE {us[p[2]].removal[1].stream}
      [] OTHER -> {queue[n].stream : n \in DOMAIN queue}

\* A request waits in one place, and has no answer yet.
OwedOnce ==
    /\ \A p \in Place : Owed(p) \subseteq 1..requests
    /\ \A p, q \in Place : p # q => Owed(p) \cap Owed(q) = {}
    /\ \A m, n \in DOMAIN queue : queue[m].stream = queue[n].stream => m = n
    /\ \A p \in Place : \A r \in Owed(p) : answers[r] = 0

AtMostOnce ==
    /\ \A r \in Stream : r > requests => answers[r] = 0
    /\ "halfway" \notin odd => \A r \in Stream : answers[r] <= 1

\* A DELETE waits for a session that is going, and with it the service.
DeletesWait ==
    "early" \notin odd =>
        /\ \A i \in Ingest : ing[i].at \in {"creating", "there"} => ing[i].deletes = {}
        /\ \A s \in Service : us[s].removal # << >> =>
              \A i \in us[s].sessions : ing[i].at = "deleting"

AllAccounted ==
    abort = "no" /\ odd \cap {"unparsable", "noid", "early", "window"} = {} =>
        \A r \in 1..requests : r \in lost \/ answers[r] >= 1 \/ \E p \in Place : r \in Owed(p)

\* An AF that has closed the stream of a DELETE that waits is one of the odd cases.
LeftIs == lost \subseteq 1..requests /\ (lost \cap Deletes # {} => "left" \in odd)

AnswerInv == ServiceInv /\ LeftIs /\ OwedOnce /\ AtMostOnce /\ DeletesWait /\ AllAccounted

-----------------------------------------------------------------------------
(* Ingest sessions and their contexts.                                     *)

LEMMA NoIdIsNone == NoId \notin UniqueIds /\ NoId.ssm = -1
  BY DEF NoId, GlobalSsm, UniqueId, UniqueIds

\* A context that moves stays a context.
LEMMA MovedIsId ==
    ASSUME NEW a \in UniqueIds, NEW b \in UniqueIds
    PROVE  Moved(a, b) \in UniqueIds
  BY DEF Moved, UniqueIds

LEMMA MapsAreIds ==
    ASSUME NEW map \in Map, NEW k \in Key
    PROVE  map[k] \in UniqueIds \cup {NoId}
  <1>1. map \in [Key -> Id \cup {NoId}] /\ Id \subseteq UniqueIds
    BY RegistryAssumption
  <1>2. QED BY <1>1

LEMMA ContextsAreFor ==
    ASSUME NEW map \in Map, NEW keys
    PROVE  /\ DOMAIN ContextsFor(map, keys) = Key
           /\ \A k \in Key : /\ ContextsFor(map, keys)[k] \in UniqueIds \cup {NoId}
                             /\ k \in keys /\ map[k] \in Reachable =>
                                    ContextsFor(map, keys)[k] = map[k] /\ map[k] # NoId
                             /\ k \notin keys => ContextsFor(map, keys)[k] = NoId
  <1>1. Reachable \subseteq UniqueIds
    BY RegistryAssumption
  <1>2. QED BY <1>1, NoIdIsNone DEF ContextsFor

\* Fields of an ingest session, set one by one.
LEMMA IngestAt ==
    ASSUME NEW d, IngestShape(d), NEW a \in Alive \cup {"free", "orphan", "gone"},
           a \in Alive => d.at \in Alive
    PROVE  /\ IngestShape([d EXCEPT !.at = a]) /\ [d EXCEPT !.at = a].at = a
           /\ \A f \in IngestFields \ {"at"} : [d EXCEPT !.at = a][f] = d[f]
  BY DEF IngestShape, IngestFields

LEMMA IngestDeletes ==
    ASSUME NEW d, IngestShape(d), NEW x \in SUBSET Stream
    PROVE  /\ IngestShape([d EXCEPT !.deletes = x]) /\ [d EXCEPT !.deletes = x].deletes = x
           /\ \A f \in IngestFields \ {"deletes"} : [d EXCEPT !.deletes = x][f] = d[f]
  BY DEF IngestShape, IngestFields

LEMMA DeletingIs ==
    ASSUME Types, NEW i \in Ingest
    PROVE  /\ IngestShape(Deleting(i))
           /\ Deleting(i).at = IF ing[i].at = "there" THEN "deleting" ELSE ing[i].at
           /\ \A f \in IngestFields \ {"at"} : Deleting(i)[f] = ing[i][f]
           /\ Deleting(i).at \in Alive <=> ing[i].at \in Alive
  <1>1. IngestShape(ing[i])
    BY DEF Types
  <1>2. CASE ing[i].at = "there"
    <2>1. Deleting(i) = [ing[i] EXCEPT !.at = "deleting"]
      BY <1>2 DEF Deleting
    <2>2. "deleting" \in Alive /\ ing[i].at \in Alive
      BY <1>2 DEF Alive
    <2>3. /\ IngestShape(Deleting(i)) /\ Deleting(i).at = "deleting"
          /\ \A f \in IngestFields \ {"at"} : Deleting(i)[f] = ing[i][f]
      BY <1>1, <2>1, <2>2, IngestAt
    <2>4. QED BY <1>2, <2>2, <2>3
  <1>3. CASE ing[i].at # "there"
    BY <1>1, <1>3 DEF Deleting
  <1>4. QED BY <1>2, <1>3

-----------------------------------------------------------------------------
(* Types.                                                                  *)

LEMMA AnswerTypes ==
    ASSUME Types, NEW streams, Answer(streams)
    PROVE  answers' \in [Stream -> Nat]
  BY DEF Types, Answer

LEMMA ReceiveTypes ==
    ASSUME Types, Receive
    PROVE  requests' \in 0..MaxRequests /\ requests' = requests + 1 /\ This \in Stream
           /\ This = requests'
  BY DEF Types, Receive, This, Stream

LEMMA NoteTypes ==
    ASSUME Types, NEW cases \in SUBSET Odd, Note(cases)
    PROVE  odd' \subseteq Odd /\ odd \subseteq odd' /\ cases \subseteq odd'
  BY DEF Types, Note

LEMMA RegistryInit == Init => AnswerInv
  <1> SUFFICES ASSUME Init PROVE AnswerInv
    OBVIOUS
  <1>1. \A i \in Ingest : ing[i] = [at |-> "free", service |-> NoService, post |-> 0,
                            deletes |-> {}, infos |-> {}, ctx |-> [k \in Key |-> NoId]]
    BY DEF Init
  <1>2. Types
    <2>1. us \in [Service -> UserServiceState]
      BY DEF Init, UserServiceState
    <2>2. \A i \in Ingest : IngestShape(ing[i])
      BY <1>1 DEF IngestShape, IngestFields, Alive, Stream
    <2>3. queue \in Seq(Removal)
      BY DEF Init
    <2>4. DOMAIN ing = Ingest /\ counter \in Int /\ requests \in 0..MaxRequests
          /\ answers \in [Stream -> Nat] /\ odd = {} /\ abort = "no"
      BY DEF Init
    <2>5. QED BY <2>1, <2>2, <2>3, <2>4 DEF Types
  <1>3. queue = << >> /\ DOMAIN queue = {}
    BY DEF Init
  <1>4. SessionsAre /\ ServicesAre /\ QueueIs /\ InfosAre /\ HandlersSafe
    BY <1>1, <1>3 DEF Init, SessionsAre, ServicesAre, QueueIs, InfosAre, HandlersSafe, Alive, Found
  <1>5. CounterIs
    <2>1. {s \in Services : us[s].ann} = {}
      BY DEF Init, Services
    <2>2. QED BY <2>1, FS_EmptySet DEF Init, CounterIs
  <1>6. \A p \in Place : Owed(p) = {}
    BY <1>1, <1>3 DEF Init, Place, Owed, Alive
  <1>7. LeftIs /\ OwedOnce /\ AtMostOnce /\ DeletesWait /\ AllAccounted
    BY <1>1, <1>3, <1>6 DEF Init, LeftIs, OwedOnce, AtMostOnce, DeletesWait, AllAccounted
  <1>8. QED BY <1>2, <1>4, <1>5, <1>7 DEF AnswerInv, ServiceInv

-----------------------------------------------------------------------------
(* The services stay right, action by action.                              *)

\* A step that leaves the services, the queue and the count alone and takes no
\* ingest session away.
LEMMA ServiceFrame ==
    ASSUME ServiceInv, Types', UNCHANGED <<us, queue, counter>>, odd \subseteq odd',
           \A i \in Ingest : /\ ing'[i].service = ing[i].service
                             /\ ing'[i].at \in Alive <=> ing[i].at \in Alive
    PROVE  (SessionsAre /\ ServicesAre /\ QueueIs /\ CounterIs)'
  BY DEF ServiceInv, SessionsAre, ServicesAre, QueueIs, CounterIs, Services, Ready

LEMMA InfosFrame ==
    ASSUME ServiceInv, odd \subseteq odd',
           \A i \in Ingest : Found(i)' =>
                \/ Found(i) /\ ing'[i].infos = ing[i].infos /\ ing'[i].ctx = ing[i].ctx
                \/ /\ odd' \cap {"halfway", "contextless"} = {} =>
                         ing'[i].infos \subseteq Contexts(i)'
                   /\ "contextless" \notin odd' => Contexts(i)' # {}
    PROVE  InfosAre'
  <1>1. ASSUME NEW i \in Ingest, Found(i)'
        PROVE  /\ odd' \cap {"halfway", "contextless"} = {} =>
                      ing'[i].infos \subseteq Contexts(i)'
               /\ "contextless" \notin odd' => Contexts(i)' # {}
    <2>1. CASE Found(i) /\ ing'[i].infos = ing[i].infos /\ ing'[i].ctx = ing[i].ctx
      <3>1. Contexts(i)' = Contexts(i)
        BY <2>1 DEF Contexts
      <3>2. QED BY <2>1, <3>1 DEF ServiceInv, InfosAre
    <2>2. QED BY <1>1, <2>1
  <1>2. QED BY <1>1 DEF InfosAre

\* A request for which nothing is changed but what it is told
Untouched == UNCHANGED <<us, ing, queue, counter>>

LEMMA EndsServices ==
    ASSUME ServiceInv, Types', Untouched, odd \subseteq odd', HandlersSafe'
    PROVE  ServiceInv'
  <1>1. (SessionsAre /\ ServicesAre /\ QueueIs /\ CounterIs)'
    BY ServiceFrame DEF Untouched
  <1>2. InfosAre'
    BY InfosFrame DEF Untouched, Found
  <1>3. QED BY <1>1, <1>2 DEF ServiceInv

LEMMA UntouchedServices ==
    ASSUME ServiceInv, Types', Untouched, odd \subseteq odd', abort' = "no"
    PROVE  ServiceInv'
  BY EndsServices DEF HandlersSafe

LEMMA RefusedServices ==
    ASSUME ServiceInv, abort = "no", Refused \/ \E case \in Odd : Ignored(case)
    PROVE  ServiceInv'
  <1>1. Types'
    <2>1. CASE Refused
      BY <2>1, AnswerTypes, ReceiveTypes DEF Refused, ServiceInv, Types
    <2>2. ASSUME NEW case \in Odd, Ignored(case) PROVE Types'
      BY <2>2, NoteTypes, ReceiveTypes DEF Ignored, ServiceInv, Types
    <2>3. QED BY <2>1, <2>2
  <1>2. Untouched /\ odd \subseteq odd' /\ abort' = "no"
    BY NoteTypes DEF Refused, Ignored, Untouched, Note
  <1>3. QED BY <1>1, <1>2, UntouchedServices

LEMMA EstablishedServices ==
    ASSUME ServiceInv, abort = "no", NEW i \in Ingest, Established(i)
    PROVE  ServiceInv'
  <1>1. /\ ing[i].at = "creating" /\ ing' = [ing EXCEPT ![i].at = "there"]
        /\ UNCHANGED <<us, ids, counter, queue, requests, odd, abort>>
        /\ answers' \in [Stream -> Nat] /\ IngestShape(ing[i]) /\ DOMAIN ing = Ingest
    BY AnswerTypes DEF Established, ServiceInv, Types
  <1>2. /\ IngestShape(ing'[i]) /\ ing'[i].at = "there"
        /\ \A f \in IngestFields \ {"at"} : ing'[i][f] = ing[i][f]
    <2>1. ing'[i] = [ing[i] EXCEPT !.at = "there"]
      BY <1>1
    <2>2. "there" \in Alive /\ ing[i].at \in Alive
      BY <1>1 DEF Alive
    <2>3. QED BY <1>1, <2>1, <2>2, IngestAt
  <1>3. DOMAIN ing' = Ingest /\ \A j \in Ingest \ {i} : ing'[j] = ing[j]
    BY <1>1
  <1>4. Types'
    BY <1>1, <1>2, <1>3 DEF ServiceInv, Types
  <1>5. \A j \in Ingest : /\ ing'[j].service = ing[j].service
                          /\ ing'[j].at \in Alive <=> ing[j].at \in Alive
    BY <1>1, <1>2, <1>3 DEF IngestFields, Alive
  <1>6. (SessionsAre /\ ServicesAre /\ QueueIs /\ CounterIs)'
    BY <1>1, <1>4, <1>5, ServiceFrame
  <1>7. InfosAre'
    BY <1>1, <1>2, <1>3, <1>5, InfosFrame DEF Found, Alive, IngestFields
  <1>8. QED BY <1>1, <1>4, <1>6, <1>7 DEF ServiceInv, HandlersSafe

LEMMA DeleteIngestRequestServices ==
    ASSUME ServiceInv, abort = "no", NEW i \in Ingest, DeleteIngestRequest(i)
    PROVE  ServiceInv'
  <1>1. /\ UNCHANGED <<us, ids, counter, queue, abort>> /\ requests' \in 0..MaxRequests
        /\ This \in Stream
    BY ReceiveTypes DEF DeleteIngestRequest, ServiceInv
  <1>2. CASE ~Found(i)
    <2>1. Untouched /\ odd' = odd /\ answers' \in [Stream -> Nat]
      BY <1>1, <1>2, AnswerTypes DEF DeleteIngestRequest, Untouched, ServiceInv
    <2>2. QED BY <1>1, <2>1, UntouchedServices DEF ServiceInv, Types, Untouched
  <1>3. CASE Found(i)
    <2> DEFINE x == Deleting(i).deletes \cup {This}
    <2>1. /\ ing' = [ing EXCEPT ![i] = [Deleting(i) EXCEPT !.deletes = x]]
          /\ answers' = answers /\ Note(Early({i}))
      BY <1>3 DEF DeleteIngestRequest
    <2>2. odd' \subseteq Odd /\ odd \subseteq odd'
      BY <2>1, NoteTypes DEF Early, Odd, ServiceInv
    <2>3. x \in SUBSET Stream /\ IngestShape(Deleting(i)) /\ DOMAIN ing = Ingest
      BY <1>1, DeletingIs DEF ServiceInv, IngestShape, Types
    <2>4. ing'[i] = [Deleting(i) EXCEPT !.deletes = x]
      BY <2>1, <2>3
    <2>5. /\ IngestShape(ing'[i])
          /\ \A f \in IngestFields \ {"deletes"} : ing'[i][f] = Deleting(i)[f]
      <3> DEFINE d == Deleting(i)
      <3>1. IngestShape(d) /\ x \in SUBSET Stream /\ ing'[i] = [d EXCEPT !.deletes = x]
        BY <2>3, <2>4
      <3> HIDE DEF x, d
      <3>2. IngestShape(d) /\ x \in SUBSET Stream
        BY <3>1
      <3>3. IngestShape([d EXCEPT !.deletes = x])
            /\ \A f \in IngestFields \ {"deletes"} : [d EXCEPT !.deletes = x][f] = d[f]
        BY <3>2, IngestDeletes
      <3>4. QED BY <3>1, <3>3 DEF d
    <2>6. DOMAIN ing' = Ingest /\ \A j \in Ingest \ {i} : ing'[j] = ing[j]
      BY <2>1, <2>3
    <2>7. Types'
      BY <1>1, <2>1, <2>2, <2>5, <2>6 DEF ServiceInv, Types
    <2>8. /\ ing'[i].service = ing[i].service /\ (ing'[i].at \in Alive <=> ing[i].at \in Alive)
          /\ ing'[i].infos = ing[i].infos /\ ing'[i].ctx = ing[i].ctx
      BY <2>5, DeletingIs DEF IngestFields, ServiceInv
    <2>9. (SessionsAre /\ ServicesAre /\ QueueIs /\ CounterIs)'
      BY <1>1, <2>2, <2>6, <2>7, <2>8, ServiceFrame
    <2>10. InfosAre'
      BY <1>3, <2>2, <2>6, <2>8, InfosFrame DEF Found
    <2>11. QED BY <1>1, <2>7, <2>9, <2>10 DEF ServiceInv, HandlersSafe
  <1>4. QED BY <1>2, <1>3

\* What a PUT comes to
LEMMA PutCases ==
    ASSUME NEW i \in Ingest, NEW map \in Map, Put(i, map)
    PROVE  LET keys == {k \in Key : map[k] # NoId}
           IN  \/ /\ UNCHANGED <<ing, ids, answers, odd>> /\ abort' = "assert"
                  /\ ~(ing[i].infos \subseteq Contexts(i))
               \/ /\ UNCHANGED <<ing, ids, answers>> /\ abort' = "memory"
                  /\ odd' = odd \cup {"dropped"}
               \/ /\ abort' = abort
                  /\ \E seen \in Walks(ing[i].infos, keys) :
                        /\ seen \in SUBSET Contexts(i)
                        /\ \E gone \in Erased(seen, keys) : PutSeen(i, map, seen, gone)
  <1> DEFINE keys == {k \in Key : map[k] # NoId}
  <1>1. PICK seen \in Walks(ing[i].infos, keys) :
            IF ~(seen \subseteq Contexts(i))
            THEN abort' = "assert" /\ UNCHANGED <<ing, ids, answers, odd>>
            ELSE \/ /\ \E gone \in Erased(seen, keys) : PutSeen(i, map, seen, gone)
                    /\ UNCHANGED abort
                 \/ /\ ~(seen \subseteq keys)
                    /\ abort' = "memory" /\ Note({"dropped"}) /\ UNCHANGED <<ing, ids, answers>>
    BY DEF Put
  <1>2. seen \subseteq ing[i].infos
    BY DEF Walks
  <1>3. QED BY <1>1, <1>2 DEF Note

\* A PUT of an ingest session: what becomes of its record.  No key loses its context
\* and, unless the PUT stops half way or an id is not reachable, every key it leaves
\* in the model has one.
LEMMA PutShape ==
    ASSUME ServiceInv, NEW i \in Ingest, Found(i), NEW map \in Map, Receive,
           NEW seen \in SUBSET Contexts(i), NEW gone, PutSeen(i, map, seen, gone)
    PROVE  /\ IngestShape(ing'[i]) /\ DOMAIN ing' = Ingest
           /\ \A j \in Ingest \ {i} : ing'[j] = ing[j]
           /\ \A f \in IngestFields \ {"infos", "ctx"} : ing'[i][f] = ing[i][f]
           /\ odd' \subseteq Odd /\ odd \subseteq odd'
           /\ odd' \cap {"halfway", "contextless"} = {} => ing'[i].infos \subseteq Contexts(i)'
           /\ Contexts(i) \subseteq Contexts(i)'
           /\ \A r \in Stream : answers'[r] = IF r = This THEN answers'[This] ELSE answers[r]
           /\ answers' \in [Stream -> Nat] /\ answers'[This] >= 1
           /\ "halfway" \in odd' \/ answers'[This] = answers[This] + 1
  <1> DEFINE keys == {k \in Key : map[k] # NoId}
             old == ing[i].infos
             new == keys \ seen
             moved == [k \in Key |-> IF k \in seen \cap keys THEN Moved(ing[i].ctx[k], map[k])
                                     ELSE ing[i].ctx[k]]
             made == ContextsFor(map, new \ Contexts(i))
  <1>1. PICK r :
            LET done == r.keys = new
            IN  /\ ing' = [ing EXCEPT ![i].infos = (@ \ gone) \cup r.keys,
                                      ![i].ctx = [k \in Key |->
                                            IF done /\ made[k] # NoId THEN made[k]
                                            ELSE moved[k]]]
                /\ answers' = [answers EXCEPT ![This] = @ + (IF done THEN 1 ELSE 2)]
                /\ Note(UNION {IF done THEN {} ELSE {"halfway"},
                               IF moved # ing[i].ctx THEN {"moved"} ELSE {},
                               IF new \cap Contexts(i) # {} THEN {"readded"} ELSE {},
                               IF gone # {} THEN {"dropped"} ELSE {},
                               Twice(map, keys), Contextless(map, new), CyclicWith(map)})
    BY DEF PutSeen
  <1> DEFINE done == r.keys = new
             c == [k \in Key |-> IF done /\ made[k] # NoId THEN made[k] ELSE moved[k]]
             infos == (old \ gone) \cup r.keys
             d == [ing[i] EXCEPT !.infos = infos, !.ctx = c]
  <1>2. IngestShape(ing[i]) /\ DOMAIN ing = Ingest
    BY DEF ServiceInv, Types
  <1>3. DOMAIN ing' = Ingest /\ \A j \in Ingest \ {i} : ing'[j] = ing[j]
    BY <1>1, <1>2
  <1>4. ing'[i] = d
    <2> HIDE DEF moved, made, new, keys
    <2> QED BY <1>1, <1>2
  <1>5. ASSUME NEW k \in Key
        PROVE  /\ moved[k] \in UniqueIds \cup {NoId} /\ made[k] \in UniqueIds \cup {NoId}
               /\ k \in Contexts(i) => moved[k] # NoId
               /\ k \in new \ Contexts(i) /\ map[k] \in Reachable => made[k] # NoId
    <2>1. /\ made[k] \in UniqueIds \cup {NoId}
          /\ k \in new \ Contexts(i) /\ map[k] \in Reachable => made[k] # NoId
      <3> DEFINE more == new \ Contexts(i)
      <3> HIDE DEF more
      <3>1. /\ ContextsFor(map, more)[k] \in UniqueIds \cup {NoId}
            /\ k \in more /\ map[k] \in Reachable =>
                   ContextsFor(map, more)[k] = map[k] /\ map[k] # NoId
        BY ContextsAreFor
      <3>2. QED BY <3>1 DEF more
    <2>2. CASE k \in seen \cap keys
      <3>1. ing[i].ctx[k] \in UniqueIds /\ map[k] \in UniqueIds
        BY <1>2, <2>2, MapsAreIds DEF IngestShape, Contexts
      <3>2. QED BY <2>1, <2>2, <3>1, MovedIsId, NoIdIsNone
    <2>3. CASE k \notin seen \cap keys
      <3>1. moved[k] = ing[i].ctx[k]
        BY <2>3
      <3>2. QED BY <1>2, <2>1, <3>1 DEF IngestShape, Contexts
    <2>4. QED BY <2>2, <2>3
  <1>6. DOMAIN c = Key /\ \A k \in Key : c[k] \in UniqueIds \cup {NoId}
    <2> HIDE DEF moved, made
    <2> QED BY <1>5
  <1>7. /\ IngestShape(d) /\ d.infos = infos /\ d.ctx = c
        /\ \A f \in IngestFields \ {"infos", "ctx"} : d[f] = ing[i][f]
    <2> HIDE DEF c, infos
    <2> QED BY <1>2, <1>6 DEF IngestShape, IngestFields
  <1>8. /\ "halfway" \in odd' \/ done
        /\ "contextless" \in odd' \/ \A k \in new : map[k] \in Reachable
        /\ odd' \subseteq Odd /\ odd \subseteq odd'
    <2> HIDE DEF moved, made, new, keys
    <2>1. /\ "halfway" \in odd' \/ done
          /\ Contextless(map, new) \subseteq odd' /\ odd \subseteq odd'
      BY <1>1 DEF Note
    <2>2. odd' \subseteq Odd
      BY <1>1 DEF Note, Odd, Twice, Contextless, CyclicWith, ServiceInv, Types
    <2>3. QED BY <2>1, <2>2 DEF Contextless
  <1>9. Contexts(i) \subseteq Contexts(i)'
    <2>1. ASSUME NEW k \in Contexts(i) PROVE k \in Key /\ c[k] # NoId
      <3>1. k \in Key
        BY DEF Contexts
      <3> HIDE DEF moved, made
      <3>2. QED BY <1>5, <3>1
    <2> HIDE DEF c, d
    <2>2. QED BY <1>4, <1>7, <2>1 DEF Contexts
  <1>10. ASSUME odd' \cap {"halfway", "contextless"} = {}
         PROVE  ing'[i].infos \subseteq Contexts(i)'
    <2>1. done /\ \A k \in new : map[k] \in Reachable
      BY <1>8, <1>10
    <2>2. old \subseteq Contexts(i)
      BY <1>8, <1>10 DEF ServiceInv, InfosAre
    <2>3. ASSUME NEW k \in new, k \notin Contexts(i) PROVE k \in Contexts(i)'
      <3>1. k \in Key /\ made[k] # NoId
        BY <1>5, <2>1, <2>3
      <3> HIDE DEF moved, made, done
      <3>2. c[k] # NoId
        BY <2>1, <3>1
      <3> HIDE DEF c
      <3>3. QED BY <1>4, <1>7, <3>1, <3>2 DEF Contexts
    <2> HIDE DEF new, old, c
    <2>4. ing'[i].infos \subseteq old \cup new
      BY <1>4, <1>7, <2>1
    <2>5. QED BY <1>9, <2>2, <2>3, <2>4
  <1>11. /\ \A q \in Stream : answers'[q] = IF q = This THEN answers'[This] ELSE answers[q]
         /\ answers' \in [Stream -> Nat] /\ answers'[This] >= 1
         /\ done => answers'[This] = answers[This] + 1
    <2>1. answers \in [Stream -> Nat] /\ This \in Stream
      BY ReceiveTypes DEF ServiceInv, Types
    <2>2. PICK n \in {1, 2} : /\ answers' = [answers EXCEPT ![This] = @ + n]
                              /\ done => n = 1
      BY <1>1
    <2> HIDE DEF done
    <2>3. QED BY <2>1, <2>2
  <1>12. QED
    <2> HIDE DEF d, c, infos, done, new, keys
    <2> QED BY <1>3, <1>4, <1>7, <1>8, <1>9, <1>10, <1>11

LEMMA PutIngestServices ==
    ASSUME ServiceInv, abort = "no", NEW i \in Ingest, NEW map \in Map, NEW ok \in BOOLEAN,
           PutIngest(i, map, ok)
    PROVE  ServiceInv'
  <1>1. /\ Receive /\ UNCHANGED <<us, counter, queue>> /\ requests' \in 0..MaxRequests
    BY ReceiveTypes DEF PutIngest, ServiceInv
  <1>2. CASE ~Found(i)
    <2>1. Untouched /\ UNCHANGED <<odd, abort>> /\ answers' \in [Stream -> Nat]
      BY <1>1, <1>2, AnswerTypes DEF PutIngest, Untouched, ServiceInv
    <2>2. QED BY <1>1, <2>1, UntouchedServices DEF ServiceInv, Types, Untouched
  <1> DEFINE Ends(case) == /\ Untouched /\ answers' = answers
                           /\ odd' = odd \cup {case} /\ HandlersSafe'
  <1>3. ASSUME NEW case \in Odd, Ends(case), abort' \in {"uncaught", "assert", "memory"}
        PROVE  ServiceInv'
    <2>1. odd' \subseteq Odd /\ odd \subseteq odd'
      BY <1>3 DEF ServiceInv, Types
    <2>2. Types'
      BY <1>1, <1>3, <2>1 DEF ServiceInv, Types, Untouched
    <2>3. QED BY <1>3, <2>1, <2>2, EndsServices
  <1>4. CASE Found(i) /\ ~ok
    <2>1. abort' = "uncaught" /\ UNCHANGED <<ing, ids, answers>> /\ odd' = odd \cup {"malformed"}
      BY <1>4 DEF PutIngest, Note
    <2>2. Ends("malformed") /\ "malformed" \in Odd
      BY <1>1, <2>1 DEF Untouched, HandlersSafe, Odd
    <2>3. QED BY <1>3, <2>1, <2>2
  <1>5. CASE Found(i) /\ ok
    <2> DEFINE keys == {k \in Key : map[k] # NoId}
    <2>1. \/ /\ UNCHANGED <<ing, ids, answers, odd>> /\ abort' = "assert"
             /\ ~(ing[i].infos \subseteq Contexts(i))
          \/ /\ UNCHANGED <<ing, ids, answers>> /\ abort' = "memory"
             /\ odd' = odd \cup {"dropped"}
          \/ /\ abort' = abort
             /\ \E seen \in Walks(ing[i].infos, keys) :
                   /\ seen \in SUBSET Contexts(i)
                   /\ \E gone \in Erased(seen, keys) : PutSeen(i, map, seen, gone)
      <3>1. Put(i, map)
        BY <1>5 DEF PutIngest
      <3>2. QED BY <3>1, PutCases
    <2> HIDE DEF keys
    <2>2. CASE /\ UNCHANGED <<ing, ids, answers, odd>> /\ abort' = "assert"
               /\ ~(ing[i].infos \subseteq Contexts(i))
      <3>1. PICK case \in {"halfway", "contextless"} : case \in odd
        BY <1>5, <2>2 DEF ServiceInv, InfosAre
      <3>2. Ends(case) /\ case \in Odd
        BY <1>1, <2>2, <3>1 DEF Untouched, HandlersSafe, Odd
      <3>3. QED BY <1>3, <2>2, <3>2
    <2>3. CASE /\ UNCHANGED <<ing, ids, answers>> /\ abort' = "memory"
               /\ odd' = odd \cup {"dropped"}
      <3>1. Ends("dropped") /\ "dropped" \in Odd
        BY <1>1, <2>3 DEF Untouched, HandlersSafe, Odd
      <3>2. QED BY <1>3, <2>3, <3>1
    <2>4. ASSUME NEW seen \in SUBSET Contexts(i), NEW gone, PutSeen(i, map, seen, gone),
                 abort' = abort
          PROVE  ServiceInv'
      <3>1. /\ IngestShape(ing'[i]) /\ DOMAIN ing' = Ingest
            /\ \A j \in Ingest \ {i} : ing'[j] = ing[j]
            /\ ing'[i].at = ing[i].at /\ ing'[i].service = ing[i].service
            /\ odd' \subseteq Odd /\ odd \subseteq odd'
            /\ odd' \cap {"halfway", "contextless"} = {} => ing'[i].infos \subseteq Contexts(i)'
            /\ Contexts(i) \subseteq Contexts(i)'
            /\ answers' \in [Stream -> Nat]
        BY <1>1, <1>5, <2>4, PutShape DEF IngestFields
      <3>2. Types'
        BY <1>1, <2>4, <3>1 DEF ServiceInv, Types
      <3>3. (SessionsAre /\ ServicesAre /\ QueueIs /\ CounterIs)'
        BY <1>1, <3>1, <3>2, ServiceFrame
      <3>4. InfosAre'
        <4>1. "contextless" \notin odd' => Contexts(i)' # {}
          BY <1>5, <3>1 DEF ServiceInv, InfosAre
        <4>2. \A j \in Ingest : j = i \/ ing'[j] = ing[j]
          BY <3>1
        <4>3. QED BY <3>1, <4>1, <4>2, InfosFrame DEF Found
      <3>5. QED BY <2>4, <3>1, <3>2, <3>3, <3>4 DEF ServiceInv, HandlersSafe
    <2>5. QED BY <2>1, <2>2, <2>3, <2>4
  <1>6. QED BY <1>2, <1>4, <1>5

-----------------------------------------------------------------------------
(* Counting the services that need the channel.                            *)

Needs(u) == u.there /\ u.ann
Needy == {s \in Services : us[s].ann}
One(b) == IF b THEN 1 ELSE 0

LEMMA NeedyCounts ==
    ASSUME NEW s \in Service, \A t \in Service \ {s} : us'[t] = us[t],
           us[s].there \in BOOLEAN, us[s].ann \in BOOLEAN
    PROVE  Cardinality(Needy') = Cardinality(Needy) - One(Needs(us[s])) + One(Needs(us'[s]))
  <1>1. Needy \subseteq Service /\ IsFiniteSet(Needy) /\ Cardinality(Needy) \in Nat
    BY FS_Subset, FS_CardinalityType DEF Needy, Services
  <1>2. (s \in Needy <=> Needs(us[s])) /\ (s \in Needy' <=> Needs(us'[s]))
    BY DEF Needy, Services, Needs
  <1>3. \A t \in Service \ {s} : t \in Needy' <=> t \in Needy
    BY DEF Needy, Services
  <1>4. Needy' \subseteq Service
    BY DEF Needy, Services
  <1>5. CASE Needs(us[s]) <=> Needs(us'[s])
    <2>1. Needy' = Needy
      BY <1>1, <1>2, <1>3, <1>4, <1>5
    <2>2. QED BY <1>1, <1>5, <2>1 DEF One
  <1>6. CASE Needs(us[s]) /\ ~Needs(us'[s])
    <2>1. Needy' = Needy \ {s} /\ s \in Needy
      BY <1>1, <1>2, <1>3, <1>4, <1>6
    <2>2. Cardinality(Needy') = Cardinality(Needy) - 1
      BY <1>1, <2>1, FS_RemoveElement
    <2>3. QED BY <1>1, <1>6, <2>2 DEF One
  <1>7. CASE ~Needs(us[s]) /\ Needs(us'[s])
    <2>1. Needy' = Needy \cup {s} /\ s \notin Needy
      BY <1>1, <1>2, <1>3, <1>4, <1>7
    <2>2. Cardinality(Needy') = Cardinality(Needy) + 1
      BY <1>1, <2>1, FS_AddElement
    <2>3. QED BY <1>1, <1>7, <2>2 DEF One
  <1>8. QED BY <1>5, <1>6, <1>7

LEMMA CountIs ==
    CounterIs <=> ("window" \notin odd => counter = Cardinality(Needy))
  BY DEF CounterIs, Needy

LEMMA QueueTypes ==
    ASSUME Types, NEW n \in DOMAIN queue
    PROVE  queue[n] \in Removal /\ queue[n].service \in Service /\ queue[n].stream \in Stream
           /\ queue[n].ann \in BOOLEAN
  <1>1. queue \in Seq(Removal)
    BY DEF Types
  <1>2. queue[n] \in Removal
    BY <1>1, LenProperties, ElementOfSeq
  <1>3. QED BY <1>2 DEF Removal

\* Whatever happens to a service that is not in the queue, the queue stays right.
LEMMA QueueFrame ==
    ASSUME ServiceInv, queue' = queue, odd \subseteq odd', NEW s \in Service,
           \A t \in Service \ {s} : us'[t] = us[t],
           "window" \notin odd' => ~RemovalQueued(s)
    PROVE  QueueIs'
  <1>1. \A n \in DOMAIN queue : queue[n].service \in Service
    BY QueueTypes DEF ServiceInv
  <1>2. "window" \notin odd' => \A n \in DOMAIN queue : queue[n].service # s
    BY DEF RemovalQueued
  <1>3. QED BY <1>1, <1>2 DEF ServiceInv, QueueIs, Ready

LEMMA PostServiceServices ==
    ASSUME ServiceInv, abort = "no", NEW s \in Service, NEW ann \in BOOLEAN, NEW ok \in BOOLEAN,
           PostService(s, ann, ok)
    PROVE  ServiceInv'
  <1>1. /\ Receive /\ UNCHANGED <<ing, queue>> /\ requests' \in 0..MaxRequests
        /\ ~us[s].there /\ ~RemovalQueued(s) /\ us \in [Service -> UserServiceState]
    BY ReceiveTypes DEF PostService, ServiceInv, Types
  <1>2. CASE ~ok
    <2>1. /\ Untouched /\ answers' = answers /\ abort' = "uncaught" /\ Note({"malformed"})
      BY <1>1, <1>2 DEF PostService, Untouched
    <2>2. odd' \subseteq Odd /\ odd \subseteq odd' /\ "malformed" \in odd'
      BY <2>1, NoteTypes DEF Odd, ServiceInv
    <2>3. Types'
      BY <1>1, <2>1, <2>2 DEF ServiceInv, Types, Untouched
    <2>4. (SessionsAre /\ ServicesAre /\ QueueIs /\ CounterIs)'
      BY <2>1, <2>2, <2>3, ServiceFrame DEF Untouched
    <2>5. InfosAre'
      BY <2>1, <2>2, InfosFrame DEF Untouched, Found
    <2>6. QED BY <2>1, <2>2, <2>3, <2>4, <2>5 DEF ServiceInv, HandlersSafe
  <1>3. CASE ok
    <2> DEFINE u == [there |-> TRUE, ann |-> ann, removal |-> << >>, sessions |-> {}]
    <2>1. /\ us' = [us EXCEPT ![s] = u] /\ counter' = IF ann THEN counter + 1 ELSE counter
          /\ UNCHANGED <<odd, abort>> /\ answers' \in [Stream -> Nat]
      BY <1>1, <1>3, AnswerTypes DEF PostService, ServiceInv
    <2>2. u \in UserServiceState /\ u.there /\ u.ann = ann /\ u.removal = << >> /\ u.sessions = {}
      BY DEF UserServiceState
    <2> HIDE DEF u
    <2>3. us'[s] = u /\ \A t \in Service \ {s} : us'[t] = us[t]
      BY <1>1, <2>1
    <2>4. Types'
      BY <1>1, <2>1, <2>2 DEF ServiceInv, Types
    <2>5. us[s].sessions = {}
      BY <1>1 DEF ServiceInv, ServicesAre
    <2>6. SessionsAre' /\ ServicesAre'
      BY <1>1, <2>1, <2>2, <2>3, <2>5 DEF ServiceInv, SessionsAre, ServicesAre
    <2>7. QueueIs'
      BY <1>1, <2>1, <2>3, QueueFrame
    <2>8. CounterIs'
      <3>1. Cardinality(Needy') = Cardinality(Needy) + One(ann)
        <4>1. ~Needs(us[s]) /\ (Needs(us'[s]) <=> ann)
          BY <1>1, <2>2, <2>3 DEF Needs
        <4>2. us[s].there \in BOOLEAN /\ us[s].ann \in BOOLEAN
          BY <1>1 DEF UserServiceState
        <4>3. Cardinality(Needy) \in Nat
          BY FS_Subset, FS_CardinalityType DEF Needy, Services
        <4>4. Cardinality(Needy') = Cardinality(Needy) - One(Needs(us[s])) + One(Needs(us'[s]))
          BY <2>3, <4>2, NeedyCounts
        <4>5. QED BY <4>1, <4>3, <4>4 DEF One
      <3>2. QED BY <2>1, <3>1, CountIs DEF ServiceInv, Types, One, CounterIs, Needy
    <2>9. InfosAre'
      BY <1>1, <2>1, InfosFrame DEF Found
    <2>10. QED BY <2>1, <2>4, <2>6, <2>7, <2>8, <2>9 DEF ServiceInv, HandlersSafe
  <1>4. QED BY <1>2, <1>3

LEMMA PutServiceServices ==
    ASSUME ServiceInv, abort = "no", NEW s \in Service, NEW ann \in BOOLEAN, NEW ok \in BOOLEAN,
           PutService(s, ann, ok)
    PROVE  ServiceInv'
  <1>1. /\ Receive /\ UNCHANGED <<ing, queue>> /\ requests' \in 0..MaxRequests
        /\ us \in [Service -> UserServiceState]
    BY ReceiveTypes DEF PutService, ServiceInv, Types
  <1>2. CASE ~Visible(s)
    <2>1. Untouched /\ UNCHANGED <<odd, abort>> /\ answers' \in [Stream -> Nat]
      BY <1>1, <1>2, AnswerTypes DEF PutService, Untouched, ServiceInv
    <2>2. QED BY <1>1, <2>1, UntouchedServices DEF ServiceInv, Types, Untouched
  <1>3. CASE Visible(s) /\ ~ok
    <2>1. /\ Untouched /\ answers' = answers /\ abort' = "uncaught" /\ Note({"malformed"})
      BY <1>1, <1>3 DEF PutService, Untouched
    <2>2. odd' \subseteq Odd /\ odd \subseteq odd' /\ "malformed" \in odd'
      BY <2>1, NoteTypes DEF Odd, ServiceInv
    <2>3. Types'
      BY <1>1, <2>1, <2>2 DEF ServiceInv, Types, Untouched
    <2>4. (SessionsAre /\ ServicesAre /\ QueueIs /\ CounterIs)'
      BY <2>1, <2>2, <2>3, ServiceFrame DEF Untouched
    <2>5. InfosAre'
      BY <2>1, <2>2, InfosFrame DEF Untouched, Found
    <2>6. QED BY <2>1, <2>2, <2>3, <2>4, <2>5 DEF ServiceInv, HandlersSafe
  <1>4. CASE Visible(s) /\ ok
    <2>1. /\ us' = [us EXCEPT ![s].ann = ann] /\ counter' = CounterAfterPut(us[s].ann, ann)
          /\ Note(InWindow(s)) /\ abort' = abort /\ answers' \in [Stream -> Nat]
      BY <1>1, <1>4, AnswerTypes DEF PutService, ServiceInv
    <2>2. odd' \subseteq Odd /\ odd \subseteq odd' /\ InWindow(s) \subseteq odd'
      BY <2>1, NoteTypes DEF InWindow, Odd, ServiceInv
    <2> DEFINE u == [us[s] EXCEPT !.ann = ann]
    <2>3. us'[s] = u /\ \A t \in Service \ {s} : us'[t] = us[t]
      BY <1>1, <2>1
    <2>4. /\ u \in UserServiceState /\ u.ann = ann /\ u.there /\ u.removal = << >>
          /\ u.sessions = us[s].sessions /\ us[s].there /\ us[s].ann \in BOOLEAN
      BY <1>1, <1>4 DEF UserServiceState, Visible
    <2> HIDE DEF u
    <2>5. us' = [us EXCEPT ![s] = u]
      BY <2>1 DEF u
    <2>6. Types'
      <3>1. counter' \in Int
        BY <2>1 DEF CounterAfterPut, ServiceInv, Types
      <3>2. us' \in [Service -> UserServiceState]
        BY <1>1, <2>4, <2>5
      <3>3. QED BY <1>1, <2>1, <2>2, <3>1, <3>2 DEF ServiceInv, Types
    <2>7. SessionsAre' /\ ServicesAre'
      BY <1>1, <2>3, <2>4 DEF ServiceInv, SessionsAre, ServicesAre
    <2>8. QueueIs'
      BY <1>1, <2>2, <2>3, QueueFrame DEF InWindow
    <2>9. CounterIs'
      <3>1. Cardinality(Needy) \in Nat
        BY FS_Subset, FS_CardinalityType DEF Needy, Services
      <3>2. Cardinality(Needy') = Cardinality(Needy) - One(us[s].ann) + One(ann)
        <4>1. (Needs(us[s]) <=> us[s].ann) /\ (Needs(us'[s]) <=> ann)
          BY <2>3, <2>4 DEF Needs
        <4>2. Cardinality(Needy') = Cardinality(Needy) - One(Needs(us[s])) + One(Needs(us'[s]))
          BY <2>3, <2>4, NeedyCounts
        <4>3. QED BY <4>1, <4>2 DEF One
      <3>3. counter' = counter - One(us[s].ann) + One(ann)
        <4>1. counter \in Int
          BY DEF ServiceInv, Types
        <4>2. CASE ann /\ ~us[s].ann
          BY <2>1, <4>1, <4>2 DEF CounterAfterPut, One
        <4>3. CASE ~ann /\ us[s].ann
          BY <2>1, <4>1, <4>3 DEF CounterAfterPut, One
        <4>4. CASE ann <=> us[s].ann
          BY <2>1, <4>1, <4>4 DEF CounterAfterPut, One
        <4>5. QED BY <4>2, <4>3, <4>4
      <3>4. "window" \notin odd' => counter' = Cardinality(Needy')
        BY <2>2, <3>1, <3>2, <3>3, CountIs DEF ServiceInv, One
      <3>5. QED BY <3>4 DEF CounterIs, Needy
    <2>10. InfosAre'
      BY <1>1, <2>2, InfosFrame DEF Found
    <2>11. QED BY <2>1, <2>6, <2>7, <2>8, <2>9, <2>10 DEF ServiceInv, HandlersSafe
  <1>5. QED BY <1>2, <1>3, <1>4

-----------------------------------------------------------------------------
(* Services and their ingest sessions.                                     *)

\* Services that need the channel as before are counted as before.
LEMMA NeedyFrame ==
    ASSUME ServiceInv, counter' = counter, odd \subseteq odd',
           \A t \in Service : us'[t].there = us[t].there /\ us'[t].ann = us[t].ann
    PROVE  CounterIs'
  <1>1. Needy' = Needy
    BY DEF Needy, Services
  <1>2. "window" \notin odd' => counter' = Cardinality(Needy')
    BY <1>1, CountIs DEF ServiceInv
  <1>3. QED BY <1>2 DEF CounterIs, Needy

LEMMA QueueAppend ==
    ASSUME Types, NEW e \in Removal
    PROVE  /\ Append(queue, e) \in Seq(Removal)
           /\ \A n \in DOMAIN Append(queue, e) :
                \/ n \in DOMAIN queue /\ Append(queue, e)[n] = queue[n]
                \/ n = Len(queue) + 1 /\ n \notin DOMAIN queue /\ Append(queue, e)[n] = e
           /\ queue \o <<e>> = Append(queue, e)
           /\ {Append(queue, e)[n].stream : n \in DOMAIN Append(queue, e)}
                 = {queue[n].stream : n \in DOMAIN queue} \cup {e.stream}
  <1>1. queue \in Seq(Removal)
    BY DEF Types
  <1>2. /\ Append(queue, e) \in Seq(Removal) /\ Len(queue) \in Nat
        /\ DOMAIN queue = 1..Len(queue) /\ DOMAIN Append(queue, e) = 1..(Len(queue) + 1)
        /\ \A n \in 1..Len(queue) : Append(queue, e)[n] = queue[n]
        /\ Append(queue, e)[Len(queue) + 1] = e
    BY <1>1
  <1>3. queue \o <<e>> = Append(queue, e)
    BY <1>1
  <1>4. Len(queue) + 1 \in DOMAIN Append(queue, e)
        /\ \A n \in DOMAIN queue : n \in DOMAIN Append(queue, e)
    BY <1>2
  <1>5. QED BY <1>2, <1>3, <1>4

\* A removal that joins the queue
LEMMA QueueGrows ==
    ASSUME ServiceInv, NEW e \in Removal, queue' = Append(queue, e), odd \subseteq odd',
           NEW s \in Service, e.service = s, \A t \in Service \ {s} : us'[t] = us[t],
           Ready(e, us'[s]), "window" \notin odd' => ~RemovalQueued(s)
    PROVE  QueueIs'
  <1>1. \A n \in DOMAIN queue : queue[n].service \in Service
    BY QueueTypes DEF ServiceInv
  <1>2. "window" \notin odd' => \A n \in DOMAIN queue : queue[n].service # s
    BY DEF RemovalQueued
  <1>3. \A n \in DOMAIN queue' :
            \/ n \in DOMAIN queue /\ queue'[n] = queue[n]
            \/ n = Len(queue) + 1 /\ n \notin DOMAIN queue /\ queue'[n] = e
    BY QueueAppend DEF ServiceInv
  <1>4. ASSUME "window" \notin odd', NEW n \in DOMAIN queue'
        PROVE  Ready(queue'[n], us'[queue'[n].service])
    <2>1. CASE n \in DOMAIN queue /\ queue'[n] = queue[n]
      <3>1. Ready(queue[n], us[queue[n].service])
            /\ us'[queue[n].service] = us[queue[n].service]
        BY <1>1, <1>2, <1>4, <2>1 DEF ServiceInv, QueueIs
      <3>2. QED BY <2>1, <3>1
    <2>2. QED BY <1>3, <1>4, <2>1
  <1>5. ASSUME "window" \notin odd', NEW m \in DOMAIN queue', NEW n \in DOMAIN queue',
               queue'[m].service = queue'[n].service
        PROVE  m = n
    BY <1>1, <1>2, <1>3, <1>5 DEF ServiceInv, QueueIs
  <1>6. QED BY <1>4, <1>5 DEF QueueIs

LEMMA DeleteServiceServices ==
    ASSUME ServiceInv, abort = "no", NEW s \in Service, DeleteService(s)
    PROVE  ServiceInv'
  <1> DEFINE event == [service |-> s, stream |-> This, ann |-> us[s].ann]
  <1>1. /\ Receive /\ UNCHANGED <<counter, abort>> /\ requests' \in 0..MaxRequests
        /\ us \in [Service -> UserServiceState] /\ This \in Stream
        /\ us[s].ann \in BOOLEAN
    BY ReceiveTypes DEF DeleteService, ServiceInv, Types, UserServiceState
  <1>2. event \in Removal /\ event.service = s /\ event.ann = us[s].ann
    BY <1>1 DEF Removal
  <1>3. CASE ~Visible(s)
    <2>1. Untouched /\ UNCHANGED odd /\ answers' \in [Stream -> Nat]
      BY <1>1, <1>3, AnswerTypes DEF DeleteService, Untouched, ServiceInv
    <2>2. QED BY <1>1, <2>1, UntouchedServices DEF ServiceInv, Types, Untouched
  <1> HIDE DEF event
  <1>4. CASE Visible(s) /\ us[s].sessions = {}
    <2>1. queue' = Append(queue, event) /\ Note(InWindow(s)) /\ UNCHANGED <<us, ing, answers>>
      BY <1>4 DEF DeleteService, event
    <2>2. odd' \subseteq Odd /\ odd \subseteq odd' /\ InWindow(s) \subseteq odd'
      BY <2>1, NoteTypes DEF InWindow, Odd, ServiceInv
    <2>3. Types'
      BY <1>1, <1>2, <2>1, <2>2, QueueAppend DEF ServiceInv, Types
    <2>4. Ready(event, us'[s])
      BY <1>2, <1>4, <2>1 DEF Ready, Visible
    <2>5. QueueIs'
      BY <1>2, <2>1, <2>2, <2>4, QueueGrows DEF InWindow
    <2>6. SessionsAre' /\ ServicesAre'
      BY <2>1 DEF ServiceInv, SessionsAre, ServicesAre
    <2>7. CounterIs'
      BY <1>1, <2>1, <2>2, NeedyFrame
    <2>8. InfosAre'
      BY <2>1, <2>2, InfosFrame DEF Found
    <2>9. QED BY <1>1, <2>3, <2>5, <2>6, <2>7, <2>8 DEF ServiceInv, HandlersSafe
  <1>5. CASE Visible(s) /\ us[s].sessions # {}
    <2>1. /\ us' = [us EXCEPT ![s].removal = <<event>>]
          /\ ing' = [i \in Ingest |-> IF i \in us[s].sessions THEN Deleting(i) ELSE ing[i]]
          /\ Note(Early(us[s].sessions) \cup InWindow(s)) /\ UNCHANGED <<queue, answers>>
      BY <1>5 DEF DeleteService, event
    <2>2. odd' \subseteq Odd /\ odd \subseteq odd' /\ InWindow(s) \subseteq odd'
      BY <2>1, NoteTypes DEF InWindow, Early, Odd, ServiceInv
    <2> DEFINE u == [us[s] EXCEPT !.removal = <<event>>]
    <2>3. us' = [us EXCEPT ![s] = u] /\ us'[s] = u /\ \A t \in Service \ {s} : us'[t] = us[t]
      BY <1>1, <2>1
    <2>4. /\ u \in UserServiceState /\ u.ann = us[s].ann /\ u.there = us[s].there
          /\ u.removal = <<event>> /\ u.sessions = us[s].sessions /\ us[s].there
      BY <1>1, <1>2, <1>5 DEF UserServiceState, Visible
    <2> HIDE DEF u
    <2>5. /\ DOMAIN ing' = Ingest
          /\ \A i \in Ingest : /\ IngestShape(ing'[i]) /\ ing'[i].service = ing[i].service
                               /\ ing'[i].infos = ing[i].infos /\ ing'[i].ctx = ing[i].ctx
                               /\ ing'[i].at \in Alive <=> ing[i].at \in Alive
      <3>1. DOMAIN ing' = Ingest
        BY <2>1
      <3>2. ASSUME NEW i \in Ingest
            PROVE  /\ IngestShape(ing'[i]) /\ ing'[i].service = ing[i].service
                   /\ ing'[i].infos = ing[i].infos /\ ing'[i].ctx = ing[i].ctx
                   /\ ing'[i].at \in Alive <=> ing[i].at \in Alive
        <4>1. ing'[i] \in {Deleting(i), ing[i]}
          BY <2>1
        <4>2. IngestShape(ing[i])
          BY DEF ServiceInv, Types
        <4>3. /\ IngestShape(Deleting(i)) /\ Deleting(i).service = ing[i].service
              /\ Deleting(i).infos = ing[i].infos /\ Deleting(i).ctx = ing[i].ctx
              /\ Deleting(i).at \in Alive <=> ing[i].at \in Alive
          BY DeletingIs DEF ServiceInv, IngestFields
        <4>4. QED BY <4>1, <4>2, <4>3
      <3>3. QED BY <3>1, <3>2
    <2>6. Types'
      <3>1. us' \in [Service -> UserServiceState]
        BY <1>1, <2>3, <2>4
      <3>2. QED BY <1>1, <2>1, <2>2, <2>5, <3>1 DEF ServiceInv, Types
    <2>7. SessionsAre'
      BY <2>3, <2>4, <2>5 DEF ServiceInv, SessionsAre
    <2>8. ServicesAre'
      <3>1. u.removal[1] = event
        BY <2>4
      <3>2. /\ us'[s].there /\ us'[s].removal[1] = event /\ us'[s].sessions # {}
            /\ us'[s].ann = us[s].ann
        BY <1>5, <2>3, <2>4, <3>1
      <3>3. ASSUME NEW t \in Service
            PROVE  /\ ~us'[t].there => us'[t].sessions = {} /\ us'[t].removal = << >>
                   /\ us'[t].removal # << >> =>
                         /\ us'[t].sessions # {}
                         /\ us'[t].removal[1].service = t /\ us'[t].removal[1].ann = us'[t].ann
        <4>1. CASE t = s
          BY <1>2, <3>2, <4>1
        <4>2. CASE t # s
          BY <2>3, <4>2 DEF ServiceInv, ServicesAre
        <4>3. QED BY <4>1, <4>2
      <3>4. QED BY <3>3 DEF ServicesAre
    <2>9. QueueIs'
      BY <2>1, <2>2, <2>3, QueueFrame DEF InWindow
    <2>10. CounterIs'
      BY <1>1, <2>2, <2>3, <2>4, NeedyFrame
    <2>11. InfosAre'
      BY <2>2, <2>5, InfosFrame DEF Found, Alive
    <2>12. QED BY <1>1, <2>2, <2>6, <2>7, <2>8, <2>9, <2>10, <2>11 DEF ServiceInv, HandlersSafe
  <1>6. QED BY <1>3, <1>4, <1>5

LEMMA PostIngestServices ==
    ASSUME ServiceInv, abort = "no", NEW i \in Ingest, NEW s \in Service, NEW map \in Map,
           PostIngest(i, s, map)
    PROVE  ServiceInv'
  <1> DEFINE keys == {k \in Key : map[k] # NoId}
             ctx == ContextsFor(map, keys)
             d == [at |-> "creating", service |-> s, post |-> This, deletes |-> {},
                   infos |-> keys, ctx |-> ctx]
  <1>1. /\ Receive /\ UNCHANGED <<counter, queue, abort>> /\ requests' \in 0..MaxRequests
        /\ us \in [Service -> UserServiceState] /\ This \in Stream /\ ing[i].at = "free"
    BY ReceiveTypes DEF PostIngest, ServiceInv, Types
  <1>2. CASE Answer({This}) /\ UNCHANGED <<us, ing, ids, odd>>
    <2>1. Untouched /\ answers' \in [Stream -> Nat]
      BY <1>1, <1>2, AnswerTypes DEF Untouched, ServiceInv
    <2>2. QED BY <1>1, <1>2, <2>1, UntouchedServices DEF ServiceInv, Types, Untouched
  <1>3. CASE us[s].there /\ us' = [us EXCEPT ![s].sessions = @ \cup {i}] /\ ing' = [ing EXCEPT ![i] = d]
             /\ answers' = answers /\ keys # {}
             /\ Note(Twice(map, keys) \cup InWindow(s)
                     \cup (IF us[s].removal # << >> THEN {"early"} ELSE {})
                     \cup Contextless(map, keys) \cup CyclicWith(map))
    <2>1. /\ odd' \subseteq Odd /\ odd \subseteq odd' /\ InWindow(s) \subseteq odd'
          /\ Contextless(map, keys) \subseteq odd'
      <3> HIDE DEF keys, d
      <3> QED BY <1>3 DEF Note, InWindow, Twice, Contextless, CyclicWith, Odd, ServiceInv, Types
    <2> DEFINE u == [us[s] EXCEPT !.sessions = @ \cup {i}]
    <2>2. us' = [us EXCEPT ![s] = u] /\ us'[s] = u /\ \A t \in Service \ {s} : us'[t] = us[t]
      BY <1>1, <1>3
    <2>3. /\ u \in UserServiceState /\ u.ann = us[s].ann /\ u.there = us[s].there
          /\ u.removal = us[s].removal /\ u.sessions = us[s].sessions \cup {i}
      BY <1>1 DEF UserServiceState
    <2>4. /\ IngestShape(d) /\ d.at \in Alive /\ d.service = s /\ d.infos = keys /\ d.ctx = ctx
      <3>1. DOMAIN ctx = Key /\ \A k \in Key : ctx[k] \in UniqueIds \cup {NoId}
        BY ContextsAreFor
      <3> HIDE DEF ctx, keys
      <3>2. QED BY <1>1, <3>1 DEF IngestShape, IngestFields, Alive, Stream
    <2> HIDE DEF u, d
    <2>5. /\ DOMAIN ing' = Ingest /\ ing'[i] = d /\ \A j \in Ingest \ {i} : ing'[j] = ing[j]
      BY <1>3 DEF ServiceInv, Types
    <2>6. Types'
      <3>1. us' \in [Service -> UserServiceState]
        BY <1>1, <2>2, <2>3
      <3>2. QED BY <1>1, <1>3, <2>1, <2>4, <2>5, <3>1 DEF ServiceInv, Types
    <2>7. SessionsAre'
      <3>1. ASSUME NEW t \in Service, NEW j \in Ingest
            PROVE  j \in us'[t].sessions <=> ing'[j].service = t /\ ing'[j].at \in Alive
        <4>1. j \in us[t].sessions <=> ing[j].service = t /\ ing[j].at \in Alive
          BY DEF ServiceInv, SessionsAre
        <4>2. "free" \notin Alive
          BY DEF Alive
        <4>3. QED BY <1>1, <2>2, <2>3, <2>4, <2>5, <4>1, <4>2
      <3>2. QED BY <3>1 DEF SessionsAre
    <2>8. ServicesAre'
      BY <1>3, <2>2, <2>3 DEF ServiceInv, ServicesAre
    <2>9. QueueIs'
      BY <1>1, <2>1, <2>2, QueueFrame DEF InWindow
    <2>10. CounterIs'
      BY <1>1, <2>1, <2>2, <2>3, NeedyFrame
    <2>11. InfosAre'
      <3>1. ASSUME "contextless" \notin odd' PROVE ing'[i].infos \subseteq Contexts(i)'
        <4>1. \A k \in keys : map[k] \in Reachable
          BY <2>1, <3>1 DEF Contextless
        <4>2. \A k \in keys : k \in Key /\ ctx[k] # NoId
          BY <4>1, ContextsAreFor
        <4> HIDE DEF ctx, keys
        <4>3. QED BY <2>4, <2>5, <4>2 DEF Contexts
      <3>2. keys # {} /\ ing'[i].infos = keys
        BY <1>3, <2>4, <2>5
      <3> HIDE DEF keys
      <3>3. \A j \in Ingest : j = i \/ ing'[j] = ing[j]
        BY <2>5
      <3>4. "contextless" \notin odd' => Contexts(i)' # {}
        BY <3>1, <3>2
      <3>5. QED BY <2>1, <3>1, <3>3, <3>4, InfosFrame DEF Found
    <2>12. QED BY <1>1, <2>1, <2>6, <2>7, <2>8, <2>9, <2>10, <2>11 DEF ServiceInv, HandlersSafe
  <1>4. QED BY <1>2, <1>3 DEF PostIngest

\* An ingest session that is gone: its service loses it, and when it was the
\* last one, and only then, a removal that waited joins the queue.
LEMMA DeleteIngestIs ==
    ASSUME Types, NEW i \in Ingest, ing[i].service \in Service, DeleteIngest(i)
    PROVE  LET s == ing[i].service
               u == us'[s]
               last == us[s].sessions = {i}
           IN  /\ us' \in [Service -> UserServiceState]
               /\ \A t \in Service \ {s} : us'[t] = us[t]
               /\ u.there = us[s].there /\ u.ann = us[s].ann
               /\ u.sessions = us[s].sessions \ {i}
               /\ u.removal = IF last THEN << >> ELSE us[s].removal
               /\ \/ queue' = queue /\ u.removal = us[s].removal
                  \/ /\ last /\ us[s].removal # << >> /\ us[s].removal[1] \in Removal
                     /\ queue' = Append(queue, us[s].removal[1])
  <1> DEFINE s == ing[i].service
             last == us[s].sessions = {i}
             u == [us[s] EXCEPT !.sessions = @ \ {i}, !.removal = IF last THEN << >> ELSE @]
  <1>1. us \in [Service -> UserServiceState] /\ s \in Service
    BY DEF Types
  <1>2. us' = [us EXCEPT ![s] = u]
    BY <1>1 DEF DeleteIngest
  <1>3. /\ u \in UserServiceState /\ u.there = us[s].there /\ u.ann = us[s].ann
        /\ u.sessions = us[s].sessions \ {i}
        /\ u.removal = IF last THEN << >> ELSE us[s].removal
    BY <1>1 DEF UserServiceState
  <1>4. queue' = IF last THEN queue \o us[s].removal ELSE queue
    BY DEF DeleteIngest
  <1>5. us[s].removal = << >> \/ \E e \in Removal : us[s].removal = <<e>>
    BY <1>1 DEF UserServiceState
  <1>6. CASE last /\ us[s].removal = << >>
    <2>1. queue' = queue
      BY <1>4, <1>6 DEF Types
    <2> HIDE DEF u
    <2>2. QED BY <1>1, <1>2, <1>3, <1>6, <2>1
  <1>7. CASE last /\ us[s].removal # << >>
    <2>1. PICK e \in Removal : us[s].removal = <<e>>
      BY <1>5, <1>7
    <2>2. queue' = Append(queue, e) /\ us[s].removal[1] = e
      BY <1>4, <1>7, <2>1, QueueAppend
    <2> HIDE DEF u
    <2>3. QED BY <1>1, <1>2, <1>3, <1>7, <2>1, <2>2
  <1>8. CASE ~last
    <2>1. queue' = queue
      BY <1>4, <1>8
    <2> HIDE DEF u
    <2>2. QED BY <1>1, <1>2, <1>3, <1>8, <2>1
  <1>9. QED BY <1>6, <1>7, <1>8

LEMMA GoneServices ==
    ASSUME ServiceInv, abort = "no", NEW i \in Ingest, CreationFails(i) \/ Deleted(i),
           abort' = "no"
    PROVE  ServiceInv'
  <1> DEFINE s == ing[i].service
  <1>1. /\ ing[i].at \in {"creating", "deleting"} /\ ing' = [ing EXCEPT ![i].at = "gone"]
        /\ DeleteIngest(i) /\ UNCHANGED <<counter, requests, odd, abort>>
        /\ answers' \in [Stream -> Nat] /\ us \in [Service -> UserServiceState]
    BY AnswerTypes DEF CreationFails, Deleted, ServiceInv, Types
  <1>2. ing[i].at \in Alive /\ s \in Service /\ IngestShape(ing[i]) /\ DOMAIN ing = Ingest
    BY <1>1 DEF Alive, ServiceInv, Types, IngestShape
  <1>3. /\ IngestShape(ing'[i]) /\ ing'[i].at = "gone"
        /\ \A f \in IngestFields \ {"at"} : ing'[i][f] = ing[i][f]
    <2>1. ing'[i] = [ing[i] EXCEPT !.at = "gone"]
      BY <1>1, <1>2
    <2>2. "gone" \notin Alive
      BY DEF Alive
    <2>3. QED BY <1>2, <2>1, <2>2, IngestAt
  <1>4. DOMAIN ing' = Ingest /\ \A j \in Ingest \ {i} : ing'[j] = ing[j]
    BY <1>1, <1>2
  <1>5. /\ us' \in [Service -> UserServiceState] /\ \A t \in Service \ {s} : us'[t] = us[t]
        /\ us'[s].there = us[s].there /\ us'[s].ann = us[s].ann
        /\ us'[s].sessions = us[s].sessions \ {i}
        /\ us'[s].removal = IF us[s].sessions = {i} THEN << >> ELSE us[s].removal
        /\ \/ queue' = queue
           \/ /\ us[s].sessions = {i} /\ us[s].removal # << >> /\ us[s].removal[1] \in Removal
              /\ queue' = Append(queue, us[s].removal[1])
    BY <1>1, <1>2, DeleteIngestIs DEF ServiceInv
  <1>6. i \in us[s].sessions
    BY <1>2 DEF ServiceInv, SessionsAre
  <1> HIDE DEF s
  <1>7. Types'
    <2>1. queue' \in Seq(Removal)
      BY <1>5, QueueAppend DEF ServiceInv, Types
    <2>2. QED BY <1>1, <1>3, <1>4, <1>5, <2>1 DEF ServiceInv, Types
  <1>8. SessionsAre'
    <2>1. ASSUME NEW t \in Service, NEW j \in Ingest
          PROVE  j \in us'[t].sessions <=> ing'[j].service = t /\ ing'[j].at \in Alive
      <3>1. j \in us[t].sessions <=> ing[j].service = t /\ ing[j].at \in Alive
        BY DEF ServiceInv, SessionsAre
      <3>2. "gone" \notin Alive
        BY DEF Alive
      <3>3. CASE j = i
        BY <1>2, <1>3, <1>5, <3>1, <3>2, <3>3 DEF s
      <3>4. CASE j # i
        BY <1>2, <1>4, <1>5, <3>1, <3>4
      <3>5. QED BY <3>3, <3>4
    <2>2. QED BY <2>1 DEF SessionsAre
  <1>9. ServicesAre'
    <2>1. ASSUME NEW t \in Service
          PROVE  /\ ~us'[t].there => us'[t].sessions = {} /\ us'[t].removal = << >>
                 /\ us'[t].removal # << >> =>
                       /\ us'[t].sessions # {}
                       /\ us'[t].removal[1].service = t /\ us'[t].removal[1].ann = us'[t].ann
      <3>1. /\ ~us[t].there => us[t].sessions = {} /\ us[t].removal = << >>
            /\ us[t].removal # << >> =>
                       /\ us[t].sessions # {}
                       /\ us[t].removal[1].service = t /\ us[t].removal[1].ann = us[t].ann
        BY DEF ServiceInv, ServicesAre
      <3>2. CASE t = s /\ us[s].sessions = {i}
        BY <1>5, <3>1, <3>2
      <3>3. CASE t = s /\ us[s].sessions # {i}
        <4>1. us'[s].sessions # {}
          BY <1>5, <1>6, <3>3
        <4>2. QED BY <1>5, <3>1, <3>3, <4>1
      <3>4. CASE t # s
        BY <1>5, <3>1, <3>4
      <3>5. QED BY <3>2, <3>3, <3>4
    <2>2. QED BY <2>1 DEF ServicesAre
  <1>10. QueueIs'
    <2>1. "window" \notin odd' => ~RemovalQueued(s)
      BY <1>1, <1>6 DEF ServiceInv, QueueIs, Ready, RemovalQueued
    <2>2. CASE queue' = queue
      BY <1>1, <1>2, <1>5, <2>1, <2>2, QueueFrame DEF s
    <2>3. CASE queue' # queue
      <3> DEFINE e == us[s].removal[1]
      <3>1. /\ us[s].sessions = {i} /\ us[s].removal # << >> /\ e \in Removal
            /\ queue' = Append(queue, e) /\ e.service = s /\ e.ann = us[s].ann /\ us[s].there
        BY <1>2, <1>5, <2>3 DEF ServiceInv, ServicesAre, s
      <3>2. Ready(e, us'[s])
        BY <1>5, <3>1 DEF Ready
      <3> HIDE DEF e
      <3>3. QED BY <1>1, <1>2, <1>5, <2>1, <3>1, <3>2, QueueGrows DEF s
    <2>4. QED BY <2>2, <2>3
  <1>11. CounterIs'
    BY <1>1, <1>5, NeedyFrame
  <1>12. InfosAre'
    BY <1>1, <1>3, <1>4, InfosFrame DEF Found
  <1>13. QED BY <1>1, <1>7, <1>8, <1>9, <1>10, <1>11, <1>12 DEF ServiceInv, HandlersSafe

LEMMA DeletesHave ==
    /\ \A i \in Ingest : Found(i) => ing[i].deletes \subseteq Deletes
    /\ \A n \in DOMAIN queue : queue[n].stream \in Deletes
  <1> DEFINE A == UNION {ing[i].deletes : i \in {j \in Ingest : Found(j)}}
             B == {us[s].removal[1].stream : s \in {t \in Service : us[t].removal # << >>}}
             C == {queue[n].stream : n \in DOMAIN queue}
  <1>1. Deletes = A \cup B \cup C
    BY DEF Deletes
  <1>2. \A n \in DOMAIN queue : queue[n].stream \in C
    OBVIOUS
  <1>3. \A i \in Ingest : Found(i) => ing[i].deletes \subseteq A
    OBVIOUS
  <1> HIDE DEF A, B, C
  <1>4. QED BY <1>1, <1>2, <1>3

\* An AF does not wait for the answer to its DELETE.
LEMMA LeftServices ==
    ASSUME ServiceInv, LeftIs, abort = "no", NEW i \in Ingest, Deleted(i), abort' # "no"
    PROVE  ServiceInv'
  <1>1. /\ Untouched /\ requests' = requests /\ odd' = odd /\ abort' = "uncaught"
        /\ ing[i].deletes \cap lost # {} /\ Found(i) /\ answers' \in [Stream -> Nat]
    BY AnswerTypes DEF Deleted, Untouched, Found, ServiceInv
  <1>2. "left" \in odd
    BY <1>1, DeletesHave DEF LeftIs
  <1>3. Types' /\ HandlersSafe'
    BY <1>1, <1>2 DEF Untouched, ServiceInv, Types, HandlersSafe
  <1>4. QED BY <1>1, <1>3, EndsServices

\* The head of the queue and what is left of it
LEMMA QueueTail ==
    ASSUME Types, queue # << >>
    PROVE  /\ Tail(queue) \in Seq(Removal) /\ 1 \in DOMAIN queue /\ Head(queue) = queue[1]
           /\ \A n \in DOMAIN Tail(queue) : /\ n + 1 \in DOMAIN queue /\ n \in Nat \ {0}
                                           /\ Tail(queue)[n] = queue[n + 1]
           /\ \A n \in DOMAIN queue : n = 1 \/ \E m \in DOMAIN Tail(queue) :
                                                 Tail(queue)[m] = queue[n]
  <1>1. queue \in Seq(Removal) /\ Len(queue) \in Nat \ {0} /\ DOMAIN queue = 1..Len(queue)
    BY DEF Types
  <1>2. /\ Tail(queue) \in Seq(Removal) /\ DOMAIN Tail(queue) = 1..(Len(queue) - 1)
        /\ Head(queue) = queue[1]
        /\ \A n \in 1..(Len(queue) - 1) : Tail(queue)[n] = queue[n + 1]
    BY <1>1
  <1>3. ASSUME NEW n \in DOMAIN queue, n # 1
        PROVE  \E m \in DOMAIN Tail(queue) : Tail(queue)[m] = queue[n]
    <2>1. n - 1 \in DOMAIN Tail(queue) /\ (n - 1) + 1 = n
      BY <1>1, <1>2, <1>3
    <2>2. QED BY <1>2, <2>1
  <1>4. QED BY <1>1, <1>2, <1>3

\* Unless a request met it in the queue, a removal finds its service there and
\* without ingest sessions.
LEMMA RemovalFinds ==
    ASSUME ServiceInv, queue # << >>, "window" \notin odd
    PROVE  Ready(queue[1], us[queue[1].service])
  BY QueueTail DEF ServiceInv, QueueIs

LEMMA HandleRemovalServices ==
    ASSUME ServiceInv, LeftIs, abort = "no", HandleRemoval
    PROVE  ServiceInv'
  <1> DEFINE e == queue[1]
             s == e.service
             left == us[s].sessions
  <1>1. /\ queue # << >> /\ queue' = Tail(queue) /\ counter' = Discount(e)
        /\ UNCHANGED <<requests, odd>> /\ us \in [Service -> UserServiceState]
        /\ e \in Removal /\ s \in Service /\ e.ann \in BOOLEAN /\ e.stream \in Stream
    BY QueueTail, QueueTypes DEF HandleRemoval, ServiceInv, Types
  <1>2. Tail(queue) \in Seq(Removal) /\ counter' \in Int
    BY <1>1, QueueTail DEF Discount, ServiceInv, Types
  <1>3. CASE ~us[s].there
    <2>1. /\ abort' = "uncaught" /\ UNCHANGED <<us, ing, answers>>
      BY <1>1, <1>3, QueueTail DEF HandleRemoval, ServiceInv
    <2>2. "window" \in odd
      BY <1>1, <1>3, RemovalFinds DEF Ready
    <2>3. Types'
      BY <1>1, <1>2, <2>1 DEF ServiceInv, Types
    <2>4. SessionsAre' /\ ServicesAre' /\ InfosAre'
      BY <1>1, <2>1 DEF ServiceInv, SessionsAre, ServicesAre, InfosAre, Found, Contexts
    <2>5. QueueIs' /\ CounterIs'
      BY <1>1, <2>2 DEF QueueIs, CounterIs
    <2>6. QED BY <1>1, <2>1, <2>2, <2>3, <2>4, <2>5 DEF ServiceInv, HandlersSafe
  <1>4. CASE us[s].there
    <2> DEFINE u == [us[s] EXCEPT !.there = FALSE, !.removal = << >>, !.sessions = {}]
    <2>1. /\ us' = [us EXCEPT ![s] = u]
          /\ ing' = [i \in Ingest |-> IF i \in left THEN [ing[i] EXCEPT !.at = "orphan"]
                                      ELSE ing[i]]
          /\ Answer({e.stream})
          /\ abort' = IF e.stream \in lost THEN "uncaught" ELSE "no"
      BY <1>1, <1>4, QueueTail DEF HandleRemoval, ServiceInv
    <2>2. /\ u \in UserServiceState /\ u.there = FALSE /\ u.removal = << >> /\ u.sessions = {}
      BY <1>1 DEF UserServiceState
    <2> HIDE DEF u
    <2>3. us'[s] = u /\ \A t \in Service \ {s} : us'[t] = us[t]
      BY <1>1, <2>1
    <2>4. ASSUME NEW i \in Ingest
          PROVE  /\ IngestShape(ing'[i])
                 /\ \A f \in IngestFields \ {"at"} : ing'[i][f] = ing[i][f]
                 /\ ing'[i].at = IF i \in left THEN "orphan" ELSE ing[i].at
      <3>1. IngestShape(ing[i])
        BY DEF ServiceInv, Types
      <3>2. "orphan" \notin Alive
        BY DEF Alive
      <3>3. CASE i \in left
        <4>1. ing'[i] = [ing[i] EXCEPT !.at = "orphan"]
          BY <2>1, <3>3
        <4>2. QED BY <3>1, <3>2, <3>3, <4>1, IngestAt
      <3>4. CASE i \notin left
        BY <2>1, <3>1, <3>4
      <3>5. QED BY <3>3, <3>4
    <2>5. Types'
      <3>1. us' \in [Service -> UserServiceState] /\ DOMAIN ing' = Ingest
        BY <1>1, <2>1, <2>2
      <3>2. answers' \in [Stream -> Nat]
        BY <2>1, AnswerTypes DEF ServiceInv
      <3>3. QED BY <1>1, <1>2, <2>1, <2>4, <3>1, <3>2 DEF ServiceInv, Types
    <2>6. SessionsAre'
      <3>1. ASSUME NEW t \in Service, NEW j \in Ingest
            PROVE  j \in us'[t].sessions <=> ing'[j].service = t /\ ing'[j].at \in Alive
        <4>1. /\ j \in us[t].sessions <=> ing[j].service = t /\ ing[j].at \in Alive
              /\ j \in us[s].sessions <=> ing[j].service = s /\ ing[j].at \in Alive
          BY <1>1 DEF ServiceInv, SessionsAre
        <4>2. "orphan" \notin Alive
          BY DEF Alive
        <4>3. ing'[j].service = ing[j].service
          BY <2>4 DEF IngestFields
        <4>4. QED BY <2>2, <2>3, <2>4, <4>1, <4>2, <4>3
      <3>2. QED BY <3>1 DEF SessionsAre
    <2>7. ServicesAre'
      BY <2>2, <2>3 DEF ServiceInv, ServicesAre
    <2>8. QueueIs'
      <3> SUFFICES ASSUME "window" \notin odd'
                   PROVE  /\ \A n \in DOMAIN queue' : Ready(queue'[n], us'[queue'[n].service])
                          /\ \A m, n \in DOMAIN queue' :
                                queue'[m].service = queue'[n].service => m = n
        BY DEF QueueIs
      <3>1. /\ \A n \in DOMAIN queue : Ready(queue[n], us[queue[n].service])
            /\ \A m, n \in DOMAIN queue : queue[m].service = queue[n].service => m = n
        BY <1>1 DEF ServiceInv, QueueIs
      <3>2. \A n \in DOMAIN queue' : /\ n + 1 \in DOMAIN queue /\ n \in Nat \ {0}
                                     /\ queue'[n] = queue[n + 1]
        BY <1>1, QueueTail DEF ServiceInv
      <3>3. \A m, n \in DOMAIN queue' : queue'[m].service = queue'[n].service => m = n
        BY <3>1, <3>2
      <3>4. ASSUME NEW n \in DOMAIN queue' PROVE Ready(queue'[n], us'[queue'[n].service])
        <4>1. 1 \in DOMAIN queue /\ n + 1 # 1
          BY <1>1, <3>2, QueueTail DEF ServiceInv
        <4>2. queue'[n].service # s
          BY <3>1, <3>2, <4>1
        <4>3. queue'[n].service \in Service
          BY <3>2, QueueTypes DEF ServiceInv
        <4>4. QED BY <2>3, <3>1, <3>2, <4>2, <4>3
      <3>5. QED BY <3>3, <3>4
    <2>9. CounterIs'
      <3> SUFFICES ASSUME "window" \notin odd' PROVE counter' = Cardinality(Needy')
        BY DEF CounterIs, Needy
      <3>1. us[s].ann = e.ann /\ us[s].ann \in BOOLEAN
        BY <1>1, RemovalFinds DEF Ready
      <3>2. Cardinality(Needy') = Cardinality(Needy) - One(Needs(us[s])) + One(Needs(us'[s]))
        BY <1>1, <1>4, <2>3, <3>1, NeedyCounts
      <3>3. (Needs(us[s]) <=> e.ann) /\ ~Needs(us'[s])
        BY <1>4, <2>2, <2>3, <3>1 DEF Needs
      <3>4. counter = Cardinality(Needy) /\ counter \in Int
        BY <1>1, CountIs DEF ServiceInv, Types
      <3>5. QED BY <1>1, <3>2, <3>3, <3>4 DEF One, Discount
    <2>10. InfosAre'
      <3>1. \A i \in Ingest : ing'[i].infos = ing[i].infos /\ ing'[i].ctx = ing[i].ctx
        BY <2>4 DEF IngestFields
      <3>2. \A i \in Ingest : Found(i)' => Found(i)
        BY <2>4 DEF Found
      <3>3. QED BY <1>1, <3>1, <3>2, InfosFrame
    <2>11. HandlersSafe'
      <3>1. e.stream \in Deletes
        BY <1>1, QueueTail, DeletesHave DEF ServiceInv
      <3>2. e.stream \in lost => "left" \in odd'
        BY <1>1, <3>1 DEF LeftIs
      <3>3. QED BY <2>1, <3>2 DEF HandlersSafe
    <2>12. QED BY <2>5, <2>6, <2>7, <2>8, <2>9, <2>10, <2>11 DEF ServiceInv
  <1>5. QED BY <1>3, <1>4

\* The AF closes a stream.
LEMMA CloseServices ==
    ASSUME ServiceInv, abort = "no", Vanished \/ \E r \in Stream : Close(r)
    PROVE  ServiceInv'
  <1>1. /\ UNCHANGED <<us, ing, queue, counter, answers>> /\ requests' \in 0..MaxRequests
        /\ odd' \in {odd, odd \cup {"left"}}
        /\ abort' = "no" \/ (abort' = "uncaught" /\ odd' = odd \cup {"left"})
    <2>1. CASE Vanished
      BY <2>1, ReceiveTypes DEF Vanished, Note, ServiceInv
    <2>2. ASSUME NEW r \in Stream, Close(r)
          PROVE  /\ UNCHANGED <<us, ing, queue, counter, answers, requests>> /\ abort' = "no"
                 /\ odd' \in {odd, odd \cup {"left"}}
      BY <2>2 DEF Close, Note
    <2>3. requests \in 0..MaxRequests
      BY DEF ServiceInv, Types
    <2>4. CASE \E r \in Stream : Close(r)
      <3>1. PICK r \in Stream : Close(r)
        BY <2>4
      <3>2. /\ UNCHANGED <<us, ing, queue, counter, answers, requests>> /\ abort' = "no"
            /\ odd' \in {odd, odd \cup {"left"}}
        BY <2>2, <3>1
      <3>3. QED BY <2>3, <3>2
    <2>5. QED BY <2>1, <2>4
  <1>2. odd \subseteq odd' /\ odd' \subseteq Odd
    BY <1>1 DEF Odd, ServiceInv, Types
  <1>3. Types' /\ HandlersSafe'
    BY <1>1, <1>2 DEF ServiceInv, Types, HandlersSafe
  <1>4. QED BY <1>1, <1>2, <1>3, EndsServices DEF Untouched

LEMMA ServiceInductive ==
    ASSUME ServiceInv, abort = "no" => LeftIs, [Next]_vars
    PROVE  ServiceInv'
  <1>1. CASE UNCHANGED vars
    BY <1>1 DEF vars, ServiceInv, Types, SessionsAre, ServicesAre, QueueIs, CounterIs, Services,
                InfosAre, Found, Contexts, HandlersSafe, Ready
  <1>2. ASSUME Next PROVE ServiceInv'
    <2>1. abort = "no"
      BY <1>2 DEF Next
    <2>2. ASSUME NEW s \in Service, NEW ann \in BOOLEAN, NEW ok \in BOOLEAN,
                 PostService(s, ann, ok) \/ PutService(s, ann, ok)
          PROVE  ServiceInv'
      BY <2>1, <2>2, PostServiceServices, PutServiceServices
    <2>3. ASSUME NEW s \in Service, DeleteService(s) PROVE ServiceInv'
      BY <2>1, <2>3, DeleteServiceServices
    <2>4. ASSUME NEW i \in Ingest, NEW s \in Service, NEW map \in Map, PostIngest(i, s, map)
          PROVE  ServiceInv'
      BY <2>1, <2>4, PostIngestServices
    <2>5. ASSUME NEW i \in Ingest, NEW map \in Map, NEW ok \in BOOLEAN, PutIngest(i, map, ok)
          PROVE  ServiceInv'
      BY <2>1, <2>5, PutIngestServices
    <2>6. ASSUME NEW i \in Ingest,
                 DeleteIngestRequest(i) \/ Established(i) \/ CreationFails(i) \/ Deleted(i)
          PROVE  ServiceInv'
      BY <2>1, <2>6, DeleteIngestRequestServices, EstablishedServices, GoneServices,
         LeftServices DEF Established, CreationFails
    <2>7. ASSUME HandleRemoval PROVE ServiceInv'
      BY <2>1, <2>7, HandleRemovalServices
    <2>8. QED
      BY <1>2, <2>1, <2>2, <2>3, <2>4, <2>5, <2>6, <2>7, RefusedServices, CloseServices
         DEF Next, Handle
  <1>3. QED BY <1>1, <1>2

-----------------------------------------------------------------------------
(* Where requests wait.                                                    *)

LEMMA PlacesAre ==
    /\ \A i \in Ingest : <<"post", i>> \in Place /\ <<"delete", i>> \in Place
    /\ \A s \in Service : <<"removal", s>> \in Place
    /\ <<"queue", 0>> \in Place
    /\ \A p \in Place : \/ \E i \in Ingest : p = <<"post", i>> \/ p = <<"delete", i>>
                        \/ \E s \in Service : p = <<"removal", s>>
                        \/ p = <<"queue", 0>>
    /\ \A i, s : /\ <<"post", i>> # <<"delete", s>> /\ <<"post", i>> # <<"removal", s>>
                 /\ <<"post", i>> # <<"queue", 0>> /\ <<"delete", i>> # <<"removal", s>>
                 /\ <<"delete", i>> # <<"queue", 0>> /\ <<"removal", s>> # <<"queue", 0>>
    /\ \A i, j : /\ <<"post", i>> = <<"post", j>> => i = j
                 /\ <<"delete", i>> = <<"delete", j>> => i = j
                 /\ <<"removal", i>> = <<"removal", j>> => i = j
  BY DEF Place

\* A DELETE waits anywhere but where POSTs do.
WhereDeletesWait == \A r : r \in Deletes <=> \E p \in Place : p[1] # "post" /\ r \in Owed(p)

LEMMA DeletesAre == WhereDeletesWait
  <1> DEFINE A == UNION {ing[i].deletes : i \in {j \in Ingest : Found(j)}}
             B == {us[s].removal[1].stream : s \in {t \in Service : us[t].removal # << >>}}
             C == {queue[n].stream : n \in DOMAIN queue}
  <1>1. Deletes = A \cup B \cup C
    BY DEF Deletes
  <1>2. \A r : r \in A <=> \E i \in Ingest : r \in Owed(<<"delete", i>>)
    <2>1. \A i \in Ingest : Owed(<<"delete", i>>) = IF Found(i) THEN ing[i].deletes ELSE {}
      BY DEF Owed, Found, Alive
    <2>2. QED BY <2>1
  <1>3. \A r : r \in B <=> \E s \in Service : r \in Owed(<<"removal", s>>)
    <2>1. \A s \in Service : Owed(<<"removal", s>>)
                = IF us[s].removal = << >> THEN {} ELSE {us[s].removal[1].stream}
      BY DEF Owed
    <2>2. QED BY <2>1
  <1>4. C = Owed(<<"queue", 0>>)
    BY DEF Owed
  <1>5. /\ \A i \in Ingest : <<"delete", i>>[1] # "post" /\ <<"post", i>>[1] = "post"
        /\ \A s \in Service : <<"removal", s>>[1] # "post"
        /\ <<"queue", 0>>[1] # "post"
    OBVIOUS
  <1> HIDE DEF A, B, C
  <1>6. ASSUME NEW r, r \in Deletes PROVE \E p \in Place : p[1] # "post" /\ r \in Owed(p)
    BY <1>1, <1>2, <1>3, <1>4, <1>5, <1>6, PlacesAre
  <1>7. ASSUME NEW p \in Place, p[1] # "post", NEW r \in Owed(p) PROVE r \in Deletes
    <2>1. CASE \E i \in Ingest : p = <<"delete", i>>
      BY <1>1, <1>2, <2>1
    <2>2. CASE \E s \in Service : p = <<"removal", s>>
      BY <1>1, <1>3, <2>2
    <2>3. CASE p = <<"queue", 0>>
      BY <1>1, <1>4, <2>3
    <2>4. QED BY <1>5, <1>7, <2>1, <2>2, <2>3, PlacesAre
  <1>8. QED BY <1>6, <1>7 DEF WhereDeletesWait

Smooth == abort = "no" /\ odd \cap {"unparsable", "noid", "early", "window"} = {}

\* The general step: a request that waits stays where it is, gets its answer, or
\* moves from place a to place b; a new one is answered at once, waits at p, or
\* is one of those that get no answer.
LEMMA AnswersStep ==
    ASSUME AnswerInv, Types', requests' \in {requests, requests + 1}, odd \subseteq odd',
           abort = "no", lost' = lost,
           NEW p \in Place, NEW a \in Place, NEW b \in Place,
           \A q \in Place : \A r \in Owed(q)' :
                \/ r \in Owed(q)
                \/ q = p /\ r = requests + 1 /\ requests' = requests + 1
                \/ q = b /\ a # b /\ r \in Owed(a),
           a # b => Owed(a)' = {} /\ a[1] # "post",
           \A m, n \in DOMAIN queue' : queue'[m].stream = queue'[n].stream => m = n,
           \A r \in Stream : answers'[r] # answers[r] =>
                /\ \A q \in Place : r \notin Owed(q)'
                /\ \/ r = requests + 1 /\ requests' = requests + 1
                   \/ \E q \in Place : r \in Owed(q)
                /\ answers'[r] >= 1 /\ ("halfway" \in odd' \/ answers'[r] = answers[r] + 1),
           Smooth' =>
                /\ \A q \in Place : \A r \in Owed(q) :
                      r \in lost \/ answers'[r] >= 1 \/ \E o \in Place : r \in Owed(o)'
                /\ requests' = requests + 1 =>
                      answers'[requests + 1] >= 1 \/ \E o \in Place : requests + 1 \in Owed(o)'
    PROVE  OwedOnce' /\ AtMostOnce' /\ AllAccounted' /\ LeftIs'
  <1>1. /\ requests \in Nat /\ requests' \in 0..MaxRequests /\ MaxRequests \in Nat
        /\ answers \in [Stream -> Nat] /\ answers' \in [Stream -> Nat]
        /\ \A q \in Place : Owed(q) \subseteq 1..requests
        /\ \A q, o \in Place : q # o => Owed(q) \cap Owed(o) = {}
        /\ \A q \in Place : \A r \in Owed(q) : answers[r] = 0
        /\ \A r \in Stream : r > requests => answers[r] = 0
    BY DEF AnswerInv, ServiceInv, Types, OwedOnce, AtMostOnce
  <1>2. \A q \in Place : Owed(q)' \subseteq 1..requests'
    BY <1>1
  <1>3. ASSUME NEW q \in Place, NEW o \in Place, q # o, NEW r \in Owed(q)', r \in Owed(o)'
        PROVE  FALSE
    <2>1. r = requests + 1 => \A t \in Place : r \notin Owed(t)
      BY <1>1
    <2>2. CASE r = requests + 1
      BY <1>3, <2>1, <2>2
    <2>3. CASE r # requests + 1
      <3>1. /\ r \in Owed(q) \/ (q = b /\ a # b /\ r \in Owed(a))
            /\ r \in Owed(o) \/ (o = b /\ a # b /\ r \in Owed(a))
        BY <1>3, <2>3
      <3>2. a # b => q # a /\ o # a
        BY <1>3
      <3>3. QED BY <1>1, <1>3, <3>1, <3>2
    <2>4. QED BY <2>2, <2>3
  <1>4. ASSUME NEW q \in Place, NEW r \in Owed(q)' PROVE answers'[r] = 0
    <2>1. r \in Stream /\ answers'[r] = answers[r]
      BY <1>1, <1>2, <1>4 DEF Stream
    <2>2. QED BY <1>1, <1>4, <2>1
  <1>5. OwedOnce'
    BY <1>2, <1>3, <1>4 DEF OwedOnce
  <1>6. AtMostOnce'
    <2>1. ASSUME NEW r \in Stream, r > requests' PROVE answers'[r] = 0
      BY <1>1, <2>1 DEF Stream
    <2>2. ASSUME NEW r \in Stream, "halfway" \notin odd' PROVE answers'[r] <= 1
      <3>1. answers[r] <= 1
        BY <2>2 DEF AnswerInv, AtMostOnce
      <3>2. CASE answers'[r] = answers[r]
        BY <3>1, <3>2
      <3>3. CASE answers'[r] # answers[r]
        <4>1. answers[r] = 0
          BY <1>1, <3>3
        <4>2. QED BY <2>2, <3>3, <4>1
      <3>4. QED BY <3>2, <3>3
    <2>3. QED BY <2>1, <2>2 DEF AtMostOnce
  <1>7. AllAccounted'
    <2> SUFFICES ASSUME Smooth', NEW r \in 1..requests'
                 PROVE  r \in lost \/ answers'[r] >= 1 \/ \E o \in Place : r \in Owed(o)'
      BY DEF AllAccounted, Smooth
    <2>1. r \in Stream
      BY <1>1 DEF Stream
    <2>2. CASE r = requests + 1
      BY <1>1, <2>2
    <2>3. CASE r # requests + 1
      <3>1. r \in 1..requests
        BY <1>1, <2>3
      <3>2. r \in lost \/ answers[r] >= 1 \/ \E o \in Place : r \in Owed(o)
        BY <3>1 DEF AnswerInv, AllAccounted, Smooth
      <3>3. answers[r] >= 1 => answers'[r] >= 1
        BY <1>1, <2>1
      <3>4. QED BY <3>2, <3>3
    <2>4. QED BY <2>2, <2>3
  <1>8. LeftIs'
    <2>1. lost \subseteq 1..requests /\ (lost \cap Deletes # {} => "left" \in odd)
      BY DEF AnswerInv, LeftIs
    <2>2. ASSUME NEW r \in lost, r \in Deletes' PROVE r \in Deletes
      <3>1. WhereDeletesWait /\ WhereDeletesWait'
        BY DeletesAre, PTL
      <3>2. r \in Deletes' <=> \E o \in Place' : o[1] # "post" /\ r \in Owed(o)'
        BY <3>1 DEF WhereDeletesWait
      <3>3. PICK q \in Place : q[1] # "post" /\ r \in Owed(q)'
        BY <2>2, <3>2 DEF Place
      <3>4. r # requests + 1
        BY <1>1, <2>1
      <3>5. \E o \in Place : o[1] # "post" /\ r \in Owed(o)
        BY <3>3, <3>4
      <3>6. QED BY <3>1, <3>5 DEF WhereDeletesWait
    <2>3. lost' \subseteq 1..requests'
      BY <1>1, <2>1
    <2>4. QED BY <2>1, <2>2, <2>3 DEF LeftIs
  <1>9. QED BY <1>5, <1>6, <1>7, <1>8

Accounts == OwedOnce /\ AtMostOnce /\ AllAccounted /\ LeftIs

LEMMA OwedStays ==
    ASSUME queue' = queue,
           \A s \in Service : us'[s].removal = us[s].removal,
           \A i \in Ingest : /\ ing'[i].at = ing[i].at /\ ing'[i].post = ing[i].post
                             /\ ing'[i].deletes = ing[i].deletes
    PROVE  \A p \in Place : Owed(p)' = Owed(p)
  <1> SUFFICES ASSUME NEW p \in Place PROVE Owed(p)' = Owed(p)
    OBVIOUS
  <1>1. ASSUME NEW i \in Ingest, p = <<"post", i>> \/ p = <<"delete", i>> PROVE Owed(p)' = Owed(p)
    <2>1. Owed(<<"post", i>>)' = Owed(<<"post", i>>)
      BY DEF Owed
    <2>2. Owed(<<"delete", i>>)' = Owed(<<"delete", i>>)
      BY DEF Owed
    <2>3. QED BY <1>1, <2>1, <2>2
  <1>2. ASSUME NEW s \in Service, p = <<"removal", s>> PROVE Owed(p)' = Owed(p)
    <2>1. Owed(<<"removal", s>>)' = Owed(<<"removal", s>>)
      BY DEF Owed
    <2>2. QED BY <1>2, <2>1
  <1>3. ASSUME p = <<"queue", 0>> PROVE Owed(p)' = Owed(p)
    <2>1. Owed(<<"queue", 0>>)' = Owed(<<"queue", 0>>)
      BY DEF Owed
    <2>2. QED BY <1>3, <2>1
  <1>4. QED BY <1>1, <1>2, <1>3, PlacesAre

LEMMA OwedInStream == AnswerInv => \A p \in Place : Owed(p) \subseteq Stream
  <1> SUFFICES ASSUME AnswerInv, NEW p \in Place, NEW r \in Owed(p) PROVE r \in Stream
    OBVIOUS
  <1>1. r \in 1..requests /\ requests \in 0..MaxRequests /\ MaxRequests \in Nat
    BY DEF AnswerInv, OwedOnce, ServiceInv, Types
  <1>2. QED BY <1>1 DEF Stream

\* A request that is answered at once, or never
LEMMA AtOnce ==
    ASSUME AnswerInv, abort = "no", Types', lost' = lost, Receive, odd \subseteq odd',
           queue' = queue, \A p \in Place : Owed(p)' = Owed(p),
           \A r \in Stream : r # This => answers'[r] = answers[r],
           \/ answers'[This] = answers[This] /\ ~Smooth'
           \/ answers'[This] >= 1 /\ ("halfway" \in odd' \/ answers'[This] = answers[This] + 1)
    PROVE  Accounts'
  <1> DEFINE q0 == <<"queue", 0>>
  <1>1. /\ requests' = requests + 1 /\ This = requests + 1 /\ requests \in Nat /\ q0 \in Place
    BY PlacesAre DEF Receive, This, AnswerInv, ServiceInv, Types
  <1>2. \A p \in Place : requests + 1 \notin Owed(p)
    BY <1>1 DEF AnswerInv, OwedOnce
  <1>3. \A m, n \in DOMAIN queue' : queue'[m].stream = queue'[n].stream => m = n
    BY DEF AnswerInv, OwedOnce
  <1> HIDE DEF q0
  <1>4. QED
    <2>1. OwedOnce' /\ AtMostOnce' /\ AllAccounted' /\ LeftIs'
      BY <1>1, <1>2, <1>3, AnswersStep
    <2>2. QED BY <2>1 DEF Accounts

LEMMA AnswerOne ==
    ASSUME Types, NEW S \in SUBSET Stream, Answer(S)
    PROVE  \A r \in Stream : answers'[r] = IF r \in S \ lost THEN answers[r] + 1
                                           ELSE answers[r]
  BY DEF Answer

\* An answer at once
LEMMA AnswerThis ==
    ASSUME AnswerInv, Receive, Answer({This})
    PROVE  /\ \A r \in Stream : r # This => answers'[r] = answers[r]
           /\ answers'[This] = answers[This] + 1 /\ answers[This] \in Nat
  <1>1. This \in Stream /\ answers \in [Stream -> Nat] /\ Types /\ requests \in Nat
    BY ReceiveTypes DEF AnswerInv, ServiceInv, Types
  <1>2. This \notin lost
    BY <1>1 DEF AnswerInv, LeftIs, This
  <1>3. \A r \in Stream : answers'[r] = IF r \in {This} \ lost THEN answers[r] + 1
                                        ELSE answers[r]
    BY <1>1, AnswerOne
  <1>4. QED BY <1>1, <1>2, <1>3

LEMMA RefusedAccounts ==
    ASSUME AnswerInv, abort = "no", Types', lost' = lost,
           Refused \/ \E case \in Odd : Ignored(case)
    PROVE  Accounts'
  <1>1. Receive /\ queue' = queue /\ \A p \in Place : Owed(p)' = Owed(p)
    BY OwedStays DEF Refused, Ignored
  <1>2. odd \subseteq odd' /\ This \in Stream /\ answers \in [Stream -> Nat]
    BY <1>1, ReceiveTypes DEF Refused, Ignored, Note, AnswerInv, ServiceInv, Types
  <1>3. CASE Refused
    <2>1. /\ \A r \in Stream : r # This => answers'[r] = answers[r]
          /\ answers'[This] = answers[This] + 1 /\ answers[This] \in Nat
      BY <1>2, <1>3, AnswerThis DEF Refused, AnswerInv, ServiceInv
    <2>2. QED BY <1>1, <1>2, <2>1, AtOnce
  <1>4. ASSUME NEW case \in Odd, Ignored(case) PROVE Accounts'
    <2>1. answers' = answers /\ ~Smooth'
      BY <1>4 DEF Ignored, Note, Smooth
    <2>2. QED BY <1>1, <1>2, <2>1, AtOnce
  <1>5. QED BY <1>3, <1>4

LEMMA ServiceAccounts ==
    ASSUME AnswerInv, abort = "no", Types', lost' = lost, NEW s \in Service,
           NEW ann \in BOOLEAN,
           NEW ok \in BOOLEAN, PostService(s, ann, ok) \/ PutService(s, ann, ok), abort' = "no"
    PROVE  Accounts'
  <1>1. /\ Receive /\ UNCHANGED <<ing, queue>> /\ odd \subseteq odd'
        /\ us \in [Service -> UserServiceState]
    BY DEF PostService, PutService, Note, AnswerInv, ServiceInv, Types
  <1>2. This \in Stream /\ answers \in [Stream -> Nat] /\ Types
    BY <1>1, ReceiveTypes DEF AnswerInv, ServiceInv, Types
  <1>3. \A t \in Service : us'[t].removal = us[t].removal
    <2>1. CASE us' = us
      BY <2>1
    <2>2. CASE us' = [us EXCEPT ![s].ann = ann]
      BY <1>1, <2>2 DEF UserServiceState
    <2>3. CASE ~us[s].there /\ us' = [us EXCEPT ![s] = [there |-> TRUE, ann |-> ann,
                                          removal |-> << >>, sessions |-> {}]]
      BY <1>1, <2>3 DEF AnswerInv, ServiceInv, ServicesAre
    <2>4. QED BY <2>1, <2>2, <2>3 DEF PostService, PutService
  <1>4. \A p \in Place : Owed(p)' = Owed(p)
    BY <1>1, <1>3, OwedStays
  <1>5. CASE Answer({This})
    <2>1. /\ \A r \in Stream : r # This => answers'[r] = answers[r]
          /\ answers'[This] = answers[This] + 1 /\ answers[This] \in Nat
      BY <1>1, <1>5, AnswerThis
    <2>2. QED BY <1>1, <1>2, <1>4, <2>1, AtOnce
  <1>6. QED BY <1>5 DEF PostService, PutService

LEMMA PutIngestAccounts ==
    ASSUME AnswerInv, abort = "no", Types', lost' = lost, NEW i \in Ingest,
           NEW map \in Map, NEW ok \in BOOLEAN, PutIngest(i, map, ok), abort' = "no"
    PROVE  Accounts'
  <1>1. Receive /\ UNCHANGED <<us, queue>>
    BY DEF PutIngest
  <1>2. This \in Stream /\ answers \in [Stream -> Nat] /\ ServiceInv /\ Types
    BY <1>1, ReceiveTypes DEF AnswerInv, ServiceInv, Types
  <1>3. CASE Answer({This}) /\ UNCHANGED <<ing, odd>>
    <2>1. /\ \A r \in Stream : r # This => answers'[r] = answers[r]
          /\ answers'[This] = answers[This] + 1 /\ answers[This] \in Nat
      BY <1>1, <1>3, AnswerThis
    <2>2. \A p \in Place : Owed(p)' = Owed(p)
      BY <1>1, <1>3, OwedStays
    <2>3. QED BY <1>1, <1>2, <1>3, <2>1, <2>2, AtOnce
  <1>4. ASSUME NEW seen \in SUBSET Contexts(i), NEW gone, PutSeen(i, map, seen, gone), Found(i)
        PROVE  Accounts'
    <2>1. /\ \A j \in Ingest \ {i} : ing'[j] = ing[j]
          /\ \A f \in IngestFields \ {"infos", "ctx"} : ing'[i][f] = ing[i][f]
          /\ odd \subseteq odd'
          /\ \A r \in Stream : answers'[r] = IF r = This THEN answers'[This] ELSE answers[r]
          /\ answers'[This] >= 1
          /\ "halfway" \in odd' \/ answers'[This] = answers[This] + 1
      BY <1>1, <1>2, <1>4, PutShape
    <2>2. ing'[i].at = ing[i].at /\ ing'[i].post = ing[i].post
          /\ ing'[i].deletes = ing[i].deletes
      BY <2>1 DEF IngestFields
    <2>3. \A p \in Place : Owed(p)' = Owed(p)
      BY <1>1, <2>1, <2>2, OwedStays
    <2>4. QED BY <1>1, <1>2, <2>1, <2>3, AtOnce
  <1>5. CASE Put(i, map) /\ Found(i)
    BY <1>4, <1>5, PutCases
  <1>6. QED BY <1>3, <1>5 DEF PutIngest

LEMMA OwedSame ==
    /\ \A i : ing'[i].at = ing[i].at /\ ing'[i].post = ing[i].post
              => Owed(<<"post", i>>)' = Owed(<<"post", i>>)
    /\ \A i : (ing'[i].at \in Alive <=> ing[i].at \in Alive) /\ ing'[i].deletes = ing[i].deletes
              => Owed(<<"delete", i>>)' = Owed(<<"delete", i>>)
    /\ \A s : us'[s].removal = us[s].removal => Owed(<<"removal", s>>)' = Owed(<<"removal", s>>)
    /\ queue' = queue => Owed(<<"queue", 0>>)' = Owed(<<"queue", 0>>)
  BY DEF Owed

\* A request that is to wait at p
LEMMA NewWaits ==
    ASSUME AnswerInv, abort = "no", Types', lost' = lost, Receive, odd \subseteq odd',
           answers' = answers,
           NEW p \in Place, \A q \in Place \ {p} : Owed(q)' = Owed(q),
           Owed(p)' = Owed(p) \cup {This},
           \A m, n \in DOMAIN queue' : queue'[m].stream = queue'[n].stream => m = n
    PROVE  Accounts'
  <1>1. requests' = requests + 1 /\ This = requests + 1
    BY DEF Receive, This
  <1>2. \A q \in Place : \A r \in Owed(q)' : r \in Owed(q) \/ (q = p /\ r = requests + 1)
    BY <1>1
  <1>3. \A q \in Place : \A r \in Owed(q) : \E o \in Place : r \in Owed(o)'
    OBVIOUS
  <1>4. requests + 1 \in Owed(p)'
    BY <1>1
  <1>5. OwedOnce' /\ AtMostOnce' /\ AllAccounted' /\ LeftIs'
    BY <1>1, <1>2, <1>3, <1>4, AnswersStep
  <1>6. QED BY <1>5 DEF Accounts

\* What waits at a, where no POST does, may move to b, and A is answered.
Moves(A, a, b) ==
    /\ a # b => Owed(a)' = {} /\ a[1] # "post"
    /\ \A q \in Place : \A r \in Owed(q)' : /\ r \notin A
                                            /\ r \in Owed(q) \/ (q = b /\ a # b /\ r \in Owed(a))

\* Requests that get the answer they have waited for
LEMMA Answered ==
    ASSUME AnswerInv, abort = "no", Types', lost' = lost, requests' = requests,
           odd' = odd,
           NEW A \in SUBSET Stream, Answer(A), NEW a \in Place, NEW b \in Place,
           Moves(A, a, b),
           \A m, n \in DOMAIN queue' : queue'[m].stream = queue'[n].stream => m = n,
           \A r \in A : \E q \in Place : r \in Owed(q),
           Smooth' => \A q \in Place : \A r \in Owed(q) : r \in A \/ \E o \in Place : r \in Owed(o)'
    PROVE  Accounts'
  <1>1. /\ Types /\ requests \in Nat /\ answers \in [Stream -> Nat]
    BY DEF AnswerInv, ServiceInv, Types
  <1>2. \A r \in Stream : answers'[r] = IF r \in A \ lost THEN answers[r] + 1 ELSE answers[r]
    BY <1>1, AnswerOne
  <1>3. \A r \in Stream : answers'[r] # answers[r] =>
                /\ \A q \in Place : r \notin Owed(q)'
                /\ \E q \in Place : r \in Owed(q)
                /\ answers'[r] >= 1 /\ answers'[r] = answers[r] + 1
    <2>1. ASSUME NEW q \in Place, NEW r \in Owed(q)' PROVE r \notin A
      BY <2>1 DEF Moves
    <2>2. QED BY <1>1, <1>2, <2>1
  <1>4. Smooth' => \A q \in Place : \A r \in Owed(q) :
                      r \in lost \/ answers'[r] >= 1 \/ \E o \in Place : r \in Owed(o)'
    BY <1>1, <1>2
  <1>5. /\ requests' \in {requests, requests + 1} /\ requests' # requests + 1
        /\ odd \subseteq odd'
    BY <1>1
  <1>6. \A q \in Place : \A r \in Owed(q)' :
                \/ r \in Owed(q)
                \/ q = a /\ r = requests + 1 /\ requests' = requests + 1
                \/ q = b /\ a # b /\ r \in Owed(a)
    BY DEF Moves
  <1>7. OwedOnce' /\ AtMostOnce' /\ AllAccounted' /\ LeftIs'
    <2>1. a # b => Owed(a)' = {} /\ a[1] # "post"
      BY DEF Moves
    <2>2. QED BY <1>3, <1>4, <1>5, <1>6, <2>1, AnswersStep
  <1>8. QED BY <1>7 DEF Accounts

LEMMA EstablishedAccounts ==
    ASSUME AnswerInv, abort = "no", Types', lost' = lost, NEW i \in Ingest, Established(i)
    PROVE  Accounts'
  <1> DEFINE p == <<"post", i>>
             A == {ing[i].post}
  <1>1. /\ ing[i].at = "creating" /\ ing' = [ing EXCEPT ![i].at = "there"] /\ Answer(A)
        /\ UNCHANGED <<us, queue, requests, odd>> /\ DOMAIN ing = Ingest /\ IngestShape(ing[i])
    BY DEF Established, AnswerInv, ServiceInv, Types
  <1>2. /\ ing'[i].at = "there" /\ ing'[i].deletes = ing[i].deletes
        /\ \A j \in Ingest \ {i} : ing'[j] = ing[j]
    BY <1>1 DEF IngestShape, IngestFields
  <1>3. p \in Place /\ Owed(p) = A /\ Owed(p)' = {}
    BY <1>1, <1>2, PlacesAre DEF Owed
  <1>4. \A q \in Place \ {p} : Owed(q)' = Owed(q)
    BY <1>1, <1>2, PlacesAre, OwedSame DEF Alive
  <1>5. \A q \in Place \ {p} : Owed(q) \cap A = {}
    BY <1>3 DEF AnswerInv, OwedOnce
  <1>6. A \in SUBSET Stream
    BY <1>3, OwedInStream
  <1>7. \A m, n \in DOMAIN queue' : queue'[m].stream = queue'[n].stream => m = n
    BY <1>1 DEF AnswerInv, OwedOnce
  <1> HIDE DEF p, A
  <1>8. Moves(A, p, p)
    BY <1>3, <1>4, <1>5 DEF Moves
  <1>9. QED BY <1>1, <1>3, <1>4, <1>6, <1>7, <1>8, Answered

LEMMA DeleteIngestRequestAccounts ==
    ASSUME AnswerInv, abort = "no", Types', lost' = lost, NEW i \in Ingest,
           DeleteIngestRequest(i)
    PROVE  Accounts'
  <1>1. /\ Receive /\ UNCHANGED <<us, queue>> /\ Types /\ This \in Stream
        /\ answers \in [Stream -> Nat] /\ DOMAIN ing = Ingest
    BY ReceiveTypes DEF DeleteIngestRequest, AnswerInv, ServiceInv, Types
  <1>2. CASE ~Found(i)
    <2>1. Answer({This}) /\ UNCHANGED <<ing, odd>>
      BY <1>2 DEF DeleteIngestRequest
    <2>2. /\ \A r \in Stream : r # This => answers'[r] = answers[r]
          /\ answers'[This] = answers[This] + 1 /\ answers[This] \in Nat
      BY <1>1, <2>1, AnswerThis
    <2>3. \A p \in Place : Owed(p)' = Owed(p)
      BY <1>1, <2>1, OwedStays
    <2>4. QED BY <1>1, <2>1, <2>2, <2>3, AtOnce
  <1>3. CASE Found(i)
    <2> DEFINE p == <<"delete", i>>
               d == Deleting(i)
    <2>1. /\ ing' = [ing EXCEPT ![i] = [d EXCEPT !.deletes = @ \cup {This}]]
          /\ odd \subseteq odd' /\ answers' = answers
      BY <1>3 DEF DeleteIngestRequest, Note
    <2>2. /\ DOMAIN d = IngestFields /\ d.deletes = ing[i].deletes /\ d.post = ing[i].post
          /\ d.at = IF ing[i].at = "there" THEN "deleting" ELSE ing[i].at
      BY <1>1, DeletingIs DEF IngestShape, IngestFields
    <2> HIDE DEF d
    <2>3. /\ ing'[i].deletes = ing[i].deletes \cup {This} /\ ing'[i].post = ing[i].post
          /\ ing'[i].at = IF ing[i].at = "there" THEN "deleting" ELSE ing[i].at
          /\ \A j \in Ingest \ {i} : ing'[j] = ing[j]
      BY <1>1, <2>1, <2>2 DEF IngestFields
    <2>4. p \in Place /\ Owed(p)' = Owed(p) \cup {This}
      BY <1>3, <2>3, PlacesAre DEF Owed, Found, Alive
    <2>5. \A q \in Place \ {p} : Owed(q)' = Owed(q)
      <3>1. Owed(<<"post", i>>)' = Owed(<<"post", i>>)
        BY <2>3 DEF Owed
      <3>2. QED BY <1>1, <2>3, <3>1, PlacesAre, OwedSame
    <2>6. \A m, n \in DOMAIN queue' : queue'[m].stream = queue'[n].stream => m = n
      BY <1>1 DEF AnswerInv, OwedOnce
    <2> HIDE DEF p
    <2>7. QED BY <1>1, <2>1, <2>4, <2>5, <2>6, NewWaits
  <1>4. QED BY <1>2, <1>3

LEMMA DeleteServiceAccounts ==
    ASSUME AnswerInv, abort = "no", Types', lost' = lost, NEW s \in Service, DeleteService(s)
    PROVE  Accounts'
  <1> DEFINE event == [service |-> s, stream |-> This, ann |-> us[s].ann]
  <1>1. /\ Receive /\ Types /\ This \in Stream /\ This = requests + 1 /\ requests \in Nat
        /\ answers \in [Stream -> Nat] /\ us \in [Service -> UserServiceState]
        /\ DOMAIN ing = Ingest /\ queue \in Seq(Removal)
    BY ReceiveTypes DEF DeleteService, This, AnswerInv, ServiceInv, Types
  <1>2. event \in Removal /\ event.stream = This
    BY <1>1 DEF Removal, UserServiceState
  <1>3. \A m, n \in DOMAIN queue : queue[m].stream = queue[n].stream => m = n
    BY DEF AnswerInv, OwedOnce
  <1>4. CASE ~Visible(s)
    <2>1. Answer({This}) /\ UNCHANGED <<us, ing, queue, odd>>
      BY <1>4 DEF DeleteService
    <2>2. /\ \A r \in Stream : r # This => answers'[r] = answers[r]
          /\ answers'[This] = answers[This] + 1 /\ answers[This] \in Nat
      BY <1>1, <2>1, AnswerThis
    <2>3. \A p \in Place : Owed(p)' = Owed(p)
      BY <2>1, OwedStays
    <2>4. QED BY <1>1, <2>1, <2>2, <2>3, AtOnce
  <1> HIDE DEF event
  <1>5. CASE Visible(s) /\ us[s].sessions = {}
    <2> DEFINE p == <<"queue", 0>>
    <2>1. /\ queue' = Append(queue, event) /\ odd \subseteq odd' /\ UNCHANGED <<us, ing, answers>>
      BY <1>5 DEF DeleteService, event, Note
    <2>2. /\ \A n \in DOMAIN queue' :
                \/ n \in DOMAIN queue /\ queue'[n] = queue[n]
                \/ n = Len(queue) + 1 /\ n \notin DOMAIN queue /\ queue'[n] = event
          /\ {queue'[n].stream : n \in DOMAIN queue'}
                = {queue[n].stream : n \in DOMAIN queue} \cup {This}
      <3>1. /\ \A n \in DOMAIN Append(queue, event) :
                \/ n \in DOMAIN queue /\ Append(queue, event)[n] = queue[n]
                \/ n = Len(queue) + 1 /\ n \notin DOMAIN queue /\ Append(queue, event)[n] = event
            /\ {Append(queue, event)[n].stream : n \in DOMAIN Append(queue, event)}
                 = {queue[n].stream : n \in DOMAIN queue} \cup {event.stream}
        BY <1>1, <1>2, QueueAppend
      <3> DEFINE after == Append(queue, event)
      <3> HIDE DEF after
      <3>2. queue' = after
        BY <2>1 DEF after
      <3>3. QED BY <1>2, <3>1, <3>2 DEF after
    <2>3. Owed(p)' = Owed(p) \cup {This} /\ p \in Place
      BY <2>2, PlacesAre DEF Owed
    <2>4. \A q \in Place \ {p} : Owed(q)' = Owed(q)
      BY <2>1, PlacesAre, OwedSame
    <2>5. \A n \in DOMAIN queue : queue[n].stream # This
      <3>1. \A n \in DOMAIN queue : queue[n].stream \in Owed(p)
        BY DEF Owed
      <3>2. Owed(p) \subseteq 1..requests
        BY <2>3 DEF AnswerInv, OwedOnce
      <3>3. QED BY <1>1, <3>1, <3>2
    <2>6. \A m, n \in DOMAIN queue' : queue'[m].stream = queue'[n].stream => m = n
      BY <1>2, <1>3, <2>2, <2>5
    <2> HIDE DEF p
    <2>7. QED BY <1>1, <2>1, <2>3, <2>4, <2>6, NewWaits
  <1>6. CASE Visible(s) /\ us[s].sessions # {}
    <2> DEFINE p == <<"removal", s>>
    <2>1. /\ us' = [us EXCEPT ![s].removal = <<event>>] /\ UNCHANGED <<queue, answers>>
          /\ ing' = [i \in Ingest |-> IF i \in us[s].sessions THEN Deleting(i) ELSE ing[i]]
          /\ odd \subseteq odd' /\ us[s].removal = << >>
      BY <1>6 DEF DeleteService, event, Note, Visible
    <2>2. /\ us'[s].removal = <<event>> /\ us'[s].removal # << >>
          /\ us'[s].removal[1].stream = This
          /\ \A t \in Service \ {s} : us'[t] = us[t]
      BY <1>1, <1>2, <2>1 DEF UserServiceState
    <2>3. p \in Place /\ Owed(p)' = Owed(p) \cup {This}
      BY <2>1, <2>2, PlacesAre DEF Owed
    <2>4. ASSUME NEW i \in Ingest
          PROVE  /\ ing'[i].post = ing[i].post /\ ing'[i].deletes = ing[i].deletes
                 /\ ing'[i].at = IF i \in us[s].sessions /\ ing[i].at = "there" THEN "deleting"
                                 ELSE ing[i].at
      BY <1>1, <2>1, DeletingIs DEF IngestFields
    <2>5. \A q \in Place \ {p} : Owed(q)' = Owed(q)
      <3>1. \A i \in Ingest : Owed(<<"post", i>>)' = Owed(<<"post", i>>)
        BY <2>4 DEF Owed
      <3>2. \A i \in Ingest : Owed(<<"delete", i>>)' = Owed(<<"delete", i>>)
        BY <2>4 DEF Owed, Alive
      <3>3. QED BY <2>1, <2>2, <3>1, <3>2, PlacesAre, OwedSame
    <2>6. \A m, n \in DOMAIN queue' : queue'[m].stream = queue'[n].stream => m = n
      BY <1>3, <2>1
    <2> HIDE DEF p
    <2>7. QED BY <1>1, <2>1, <2>3, <2>5, <2>6, NewWaits
  <1>7. QED BY <1>4, <1>5, <1>6

LEMMA PostIngestAccounts ==
    ASSUME AnswerInv, abort = "no", Types', lost' = lost, NEW i \in Ingest, NEW s \in Service,
           NEW map \in Map, PostIngest(i, s, map)
    PROVE  Accounts'
  <1> DEFINE keys == {k \in Key : map[k] # NoId}
             d == [at |-> "creating", service |-> s, post |-> This, deletes |-> {},
                   infos |-> keys, ctx |-> ContextsFor(map, keys)]
             p == <<"post", i>>
  <1>1. /\ Receive /\ Types /\ This \in Stream /\ queue' = queue /\ ing[i].at = "free"
        /\ answers \in [Stream -> Nat] /\ us \in [Service -> UserServiceState]
        /\ DOMAIN ing = Ingest
    BY ReceiveTypes DEF PostIngest, AnswerInv, ServiceInv, Types
  <1>2. CASE Answer({This}) /\ UNCHANGED <<us, ing, ids, odd>>
    <2>1. /\ \A r \in Stream : r # This => answers'[r] = answers[r]
          /\ answers'[This] = answers[This] + 1 /\ answers[This] \in Nat
      BY <1>1, <1>2, AnswerThis
    <2>2. \A q \in Place : Owed(q)' = Owed(q)
      BY <1>1, <1>2, OwedStays
    <2>3. QED BY <1>1, <1>2, <2>1, <2>2, AtOnce
  <1>3. CASE /\ us' = [us EXCEPT ![s].sessions = @ \cup {i}] /\ ing' = [ing EXCEPT ![i] = d]
             /\ answers' = answers /\ odd \subseteq odd'
    <2>1. /\ ing'[i].at = "creating" /\ ing'[i].post = This /\ ing'[i].deletes = {}
          /\ \A j \in Ingest \ {i} : ing'[j] = ing[j]
      BY <1>1, <1>3
    <2>2. \A t \in Service : us'[t].removal = us[t].removal
      BY <1>1, <1>3 DEF UserServiceState
    <2>3. p \in Place /\ Owed(p)' = Owed(p) \cup {This}
      BY <1>1, <2>1, PlacesAre DEF Owed
    <2>4. Owed(<<"delete", i>>)' = Owed(<<"delete", i>>)
      BY <1>1, <2>1 DEF Owed, Alive
    <2>5. \A q \in Place \ {p} : Owed(q)' = Owed(q)
      BY <1>1, <2>1, <2>2, <2>4, PlacesAre, OwedSame
    <2>6. \A m, n \in DOMAIN queue' : queue'[m].stream = queue'[n].stream => m = n
      BY <1>1 DEF AnswerInv, OwedOnce
    <2> HIDE DEF p, d
    <2>7. QED BY <1>1, <1>3, <2>3, <2>5, <2>6, NewWaits
  <1>4. QED BY <1>2, <1>3 DEF PostIngest, Note

\* What waits when ingest session i goes: A, at o, is answered; the removal of its
\* service s may go from a to the queue.
LEMMA GoneAccounts ==
    ASSUME AnswerInv, abort = "no", Types', lost' = lost, NEW i \in Ingest,
           CreationFails(i) \/ Deleted(i), abort' = "no"
    PROVE  Accounts'
  <1> DEFINE b == <<"queue", 0>>
  <1>1. \E t \in Service, q \in {<<"post", i>>, <<"delete", i>>},
              B \in {{ing[i].post}, ing[i].deletes} :
            /\ t = ing[i].service /\ Answer(B)
            /\ \/ ing[i].at = "creating" /\ q = <<"post", i>> /\ B = {ing[i].post}
               \/ ing[i].at = "deleting" /\ q = <<"delete", i>> /\ B = ing[i].deletes
    BY DEF CreationFails, Deleted, AnswerInv, ServiceInv, Types, IngestShape, Alive
  <1>2. PICK s \in Service, o \in {<<"post", i>>, <<"delete", i>>},
             A \in {{ing[i].post}, ing[i].deletes} :
            /\ s = ing[i].service /\ Answer(A)
            /\ \/ ing[i].at = "creating" /\ o = <<"post", i>> /\ A = {ing[i].post}
               \/ ing[i].at = "deleting" /\ o = <<"delete", i>> /\ A = ing[i].deletes
    BY <1>1
  <1>3. /\ ing' = [ing EXCEPT ![i].at = "gone"] /\ DeleteIngest(i) /\ UNCHANGED <<requests, odd>>
        /\ Types /\ IngestShape(ing[i]) /\ DOMAIN ing = Ingest
    BY DEF CreationFails, Deleted, AnswerInv, ServiceInv, Types
  <1>4. ing'[i].at = "gone" /\ \A j \in Ingest \ {i} : ing'[j] = ing[j]
    BY <1>3 DEF IngestShape, IngestFields
  <1>5. /\ \A t \in Service \ {s} : us'[t] = us[t]
        /\ us'[s].removal = IF us[s].sessions = {i} THEN << >> ELSE us[s].removal
        /\ \/ queue' = queue /\ us'[s].removal = us[s].removal
           \/ /\ us[s].sessions = {i} /\ us[s].removal # << >> /\ us[s].removal[1] \in Removal
              /\ queue' = Append(queue, us[s].removal[1])
    BY <1>2, <1>3, DeleteIngestIs
  <1>6. o \in Place /\ b \in Place /\ <<"removal", s>> \in Place
        /\ o # b /\ o # <<"removal", s>> /\ <<"removal", s>> # b
    <2>1. o = <<"post", i>> \/ o = <<"delete", i>>
      BY <1>2
    <2>2. /\ <<"post", i>> \in Place /\ <<"delete", i>> \in Place /\ b \in Place
          /\ <<"removal", s>> \in Place /\ <<"removal", s>> # b
      BY PlacesAre
    <2>3. QED BY <2>1, <2>2, PlacesAre
  <1>7. Owed(<<"post", i>>)' = {} /\ Owed(<<"delete", i>>)' = {}
    BY <1>4 DEF Owed, Alive
  <1>8. Owed(o) = A
    <2>1. CASE o = <<"post", i>> /\ ing[i].at = "creating" /\ A = {ing[i].post}
      BY <2>1 DEF Owed
    <2>2. CASE o = <<"delete", i>> /\ ing[i].at = "deleting" /\ A = ing[i].deletes
      BY <2>2 DEF Owed, Alive
    <2>3. QED BY <1>2, <2>1, <2>2
  <1>9. \E q \in Place :
            \/ /\ q = b /\ queue' = queue /\ Owed(b)' = Owed(b)
               /\ Owed(<<"removal", s>>)' = Owed(<<"removal", s>>)
            \/ /\ q = <<"removal", s>> /\ Owed(q)' = {} /\ Owed(b)' = Owed(b) \cup Owed(q)
               /\ \A m, n \in DOMAIN queue' : queue'[m].stream = queue'[n].stream => m = n
    <2>1. CASE queue' = queue /\ us'[s].removal = us[s].removal
      <3>1. Owed(b)' = Owed(b) /\ Owed(<<"removal", s>>)' = Owed(<<"removal", s>>)
        BY <2>1, OwedSame
      <3>2. QED BY <1>6, <2>1, <3>1
    <2>2. CASE /\ us[s].sessions = {i} /\ us[s].removal # << >> /\ us[s].removal[1] \in Removal
               /\ queue' = Append(queue, us[s].removal[1])
      <3> DEFINE p == <<"removal", s>>
      <3>1. PICK e \in Removal : e = us[s].removal[1]
        BY <2>2
      <3>2. /\ \A n \in DOMAIN queue' :
                  \/ n \in DOMAIN queue /\ queue'[n] = queue[n]
                  \/ n = Len(queue) + 1 /\ n \notin DOMAIN queue /\ queue'[n] = e
            /\ {queue'[n].stream : n \in DOMAIN queue'}
                   = {queue[n].stream : n \in DOMAIN queue} \cup {e.stream}
        <4> DEFINE after == Append(queue, e)
        <4>1. /\ \A n \in DOMAIN after :
                    \/ n \in DOMAIN queue /\ after[n] = queue[n]
                    \/ n = Len(queue) + 1 /\ n \notin DOMAIN queue /\ after[n] = e
              /\ {after[n].stream : n \in DOMAIN after}
                     = {queue[n].stream : n \in DOMAIN queue} \cup {e.stream}
          BY <1>3, QueueAppend
        <4>2. queue' = after
          BY <2>2, <3>1
        <4> HIDE DEF after
        <4>3. QED BY <4>1, <4>2
      <3>3. Owed(p) = {e.stream} /\ us'[s].removal = << >>
        BY <1>5, <2>2, <3>1 DEF Owed
      <3>4. Owed(p)' = {}
        BY <3>3 DEF Owed
      <3>5. Owed(b) = {queue[n].stream : n \in DOMAIN queue}
        BY DEF Owed
      <3>6. Owed(b)' = {queue'[n].stream : n \in DOMAIN queue'}
        BY DEF Owed
      <3>7. Owed(b)' = Owed(b) \cup Owed(p)
        BY <3>2, <3>3, <3>5, <3>6
      <3>8. Owed(p) \cap Owed(b) = {} /\ \A m, n \in DOMAIN queue : queue[m].stream = queue[n].stream => m = n
        BY <1>6 DEF AnswerInv, OwedOnce
      <3>9. \A n \in DOMAIN queue : queue[n].stream # e.stream
        <4>1. e.stream \notin Owed(b)
          BY <3>3, <3>8
        <4>2. \A n \in DOMAIN queue : queue[n].stream \in Owed(b)
          BY <3>5
        <4>3. QED BY <4>1, <4>2
      <3>10. \A m, n \in DOMAIN queue' : queue'[m].stream = queue'[n].stream => m = n
        BY <3>2, <3>8, <3>9
      <3>11. QED BY <1>6, <3>4, <3>7, <3>10
    <2>3. QED BY <1>5, <2>1, <2>2
  <1>10. PICK a \in Place :
            \/ /\ a = b /\ queue' = queue /\ Owed(b)' = Owed(b)
               /\ Owed(<<"removal", s>>)' = Owed(<<"removal", s>>)
            \/ /\ a = <<"removal", s>> /\ Owed(a)' = {} /\ Owed(b)' = Owed(b) \cup Owed(a)
               /\ \A m, n \in DOMAIN queue' : queue'[m].stream = queue'[n].stream => m = n
    BY <1>9
  <1>11. \A m, n \in DOMAIN queue' : queue'[m].stream = queue'[n].stream => m = n
    BY <1>10 DEF AnswerInv, OwedOnce
  <1>12. A \in SUBSET Stream
    BY <1>6, <1>8, OwedInStream
  <1>13. \A q \in Place \ {o} : Owed(q) \cap A = {}
    BY <1>6, <1>8 DEF AnswerInv, OwedOnce
  <1>14. /\ "early" \notin odd /\ ing[i].at = "creating" => Owed(<<"delete", i>>) = {}
         /\ ing[i].at = "deleting" => Owed(<<"post", i>>) = {}
    <2>1. "early" \notin odd /\ ing[i].at = "creating" => Owed(<<"delete", i>>) = {}
      BY DEF AnswerInv, DeletesWait, Owed, Alive
    <2>2. ing[i].at = "deleting" => Owed(<<"post", i>>) = {}
      BY DEF Owed
    <2>3. QED BY <2>1, <2>2
  <1>15. ASSUME NEW q \in Place, q # <<"post", i>>, q # <<"delete", i>>
         PROVE  /\ q # o
                /\ \A r \in Owed(q)' : r \in Owed(q) \/ (q = b /\ a # b /\ r \in Owed(a))
                /\ \A r \in Owed(q) : r \in Owed(q)' \/ r \in Owed(b)'
    <2>1. q # o
      BY <1>2, <1>15
    <2>2. CASE q = b
      BY <1>6, <1>10, <2>1, <2>2
    <2>3. CASE q = <<"removal", s>>
      BY <1>6, <1>10, <2>1, <2>3
    <2>4. CASE q # b /\ q # <<"removal", s>>
      <3>1. Owed(q)' = Owed(q)
        BY <1>4, <1>5, <1>15, <2>4, OwedSame, PlacesAre
      <3>2. QED BY <2>1, <3>1
    <2>5. QED BY <2>2, <2>3, <2>4
  <1>16. ASSUME NEW q \in Place, NEW r \in Owed(q)'
         PROVE  r \notin A /\ (r \in Owed(q) \/ (q = b /\ a # b /\ r \in Owed(a)))
    <2>1. q # <<"post", i>> /\ q # <<"delete", i>>
      BY <1>7, <1>16
    <2>2. q # o /\ (r \in Owed(q) \/ (q = b /\ a # b /\ r \in Owed(a)))
      BY <1>15, <1>16, <2>1
    <2>3. a # o
      BY <1>6, <1>10
    <2>4. QED BY <1>13, <2>2, <2>3
  <1>17. a # b => Owed(a)' = {} /\ a[1] # "post"
    BY <1>10
  <1>18. ASSUME Smooth', NEW q \in Place, NEW r \in Owed(q)
         PROVE  r \in A \/ \E p \in Place : r \in Owed(p)'
    <2>1. "early" \notin odd
      BY <1>3, <1>18 DEF Smooth
    <2>2. CASE q = <<"post", i>> \/ q = <<"delete", i>>
      <3>1. q = o \/ Owed(q) = {}
        BY <1>2, <1>14, <2>1, <2>2
      <3>2. QED BY <1>8, <1>18, <3>1
    <2>3. CASE q # <<"post", i>> /\ q # <<"delete", i>>
      BY <1>6, <1>15, <1>18, <2>3
    <2>4. QED BY <2>2, <2>3
  <1> HIDE DEF b
  <1>19. \A r \in A : \E q \in Place : r \in Owed(q)
    BY <1>6, <1>8
  <1>20. /\ \A q \in Place : \A r \in Owed(q)' : /\ r \notin A
                                                 /\ r \in Owed(q) \/ (q = b /\ a # b /\ r \in Owed(a))
         /\ Smooth' => \A q \in Place : \A r \in Owed(q) : r \in A \/ \E p \in Place : r \in Owed(p)'
    BY <1>16, <1>18
  <1>21. /\ b \in Place /\ A \in SUBSET Stream /\ Answer(A)
         /\ requests' = requests /\ odd' = odd
    BY <1>2, <1>3, <1>6, <1>12
  <1>22. Smooth' => \A q \in Place : \A r \in Owed(q) : r \in A \/ \E p \in Place : r \in Owed(p)'
    BY <1>20
  <1>23. Moves(A, a, b)
    BY <1>17, <1>20 DEF Moves
  <1>24. QED
    BY <1>11, <1>19, <1>21, <1>22, <1>23, Answered

LEMMA HandleRemovalAccounts ==
    ASSUME AnswerInv, abort = "no", Types', lost' = lost, HandleRemoval, abort' = "no"
    PROVE  Accounts'
  <1> DEFINE e == queue[1]
             s == e.service
             left == us[s].sessions
             b == <<"queue", 0>>
             A == {e.stream}
  <1>1. /\ queue # << >> /\ queue' = Tail(queue) /\ UNCHANGED <<requests, odd>> /\ Types
        /\ us \in [Service -> UserServiceState] /\ e \in Removal /\ s \in Service
        /\ e.stream \in Stream /\ DOMAIN ing = Ingest
        /\ answers \in [Stream -> Nat]
    BY QueueTail, QueueTypes DEF HandleRemoval, AnswerInv, ServiceInv, Types
  <1>2. /\ \A n \in DOMAIN queue' : /\ n + 1 \in DOMAIN queue /\ n \in Nat \ {0}
                                    /\ queue'[n] = queue[n + 1]
        /\ \A n \in DOMAIN queue : n = 1 \/ \E m \in DOMAIN queue' : queue'[m] = queue[n]
        /\ 1 \in DOMAIN queue /\ Head(queue) = e
    BY <1>1, QueueTail
  <1>3. \A m, n \in DOMAIN queue : queue[m].stream = queue[n].stream => m = n
    BY DEF AnswerInv, OwedOnce
  <1>4. \A m, n \in DOMAIN queue' : queue'[m].stream = queue'[n].stream => m = n
    BY <1>2, <1>3
  <1>5. b \in Place /\ e.stream \in Owed(b)
    BY <1>2, PlacesAre DEF Owed
  <1>6. ASSUME NEW r \in Owed(b)' PROVE r \in Owed(b) /\ r # e.stream
    <2>1. PICK n \in DOMAIN queue' : queue'[n].stream = r
      BY <1>6 DEF Owed
    <2>2. n + 1 \in DOMAIN queue /\ n + 1 # 1 /\ queue[n + 1].stream = r
      BY <1>2, <2>1
    <2>3. QED BY <1>2, <1>3, <2>2 DEF Owed
  <1>7. ASSUME NEW r \in Owed(b) PROVE r = e.stream \/ r \in Owed(b)'
    <2>1. PICK n \in DOMAIN queue : queue[n].stream = r
      BY <1>7 DEF Owed
    <2>2. CASE n = 1
      BY <2>1, <2>2
    <2>3. CASE n # 1
      <3>1. \E m \in DOMAIN queue' : queue'[m].stream = r
        BY <1>2, <2>1, <2>3
      <3>2. QED BY <3>1 DEF Owed
    <2>4. QED BY <2>2, <2>3
  <1>8. \A q \in Place \ {b} : e.stream \notin Owed(q)
    BY <1>5 DEF AnswerInv, OwedOnce
  <1>9. CASE ~us[s].there
    BY <1>1, <1>2, <1>9 DEF HandleRemoval
  <1>10. CASE us[s].there
    <2>1. /\ us' = [us EXCEPT ![s] = [@ EXCEPT !.there = FALSE, !.removal = << >>, !.sessions = {}]]
          /\ ing' = [i \in Ingest |-> IF i \in left THEN [ing[i] EXCEPT !.at = "orphan"]
                                      ELSE ing[i]]
          /\ Answer(A) /\ A = {e.stream} /\ A \in SUBSET Stream
      BY <1>1, <1>2, <1>10 DEF HandleRemoval
    <2>2. us'[s].removal = << >> /\ \A t \in Service \ {s} : us'[t] = us[t]
      BY <1>1, <2>1 DEF UserServiceState
    <2>3. ASSUME NEW i \in Ingest
          PROVE  /\ ing'[i].at = IF i \in left THEN "orphan" ELSE ing[i].at
                 /\ ing'[i].post = ing[i].post /\ ing'[i].deletes = ing[i].deletes
      <3>1. DOMAIN ing[i] = IngestFields
        BY <1>1 DEF Types, IngestShape
      <3>2. ing'[i] = IF i \in left THEN [ing[i] EXCEPT !.at = "orphan"] ELSE ing[i]
        BY <2>1
      <3> HIDE DEF left
      <3>3. QED BY <3>1, <3>2 DEF IngestFields
    <2>4. \A q \in Place \ {b} : Owed(q)' \subseteq Owed(q)
      <3>1. \A i \in Ingest : Owed(<<"post", i>>)' \subseteq Owed(<<"post", i>>)
        BY <2>3 DEF Owed
      <3>2. \A i \in Ingest : Owed(<<"delete", i>>)' \subseteq Owed(<<"delete", i>>)
        BY <2>3 DEF Owed, Alive
      <3>3. \A t \in Service : Owed(<<"removal", t>>)' \subseteq Owed(<<"removal", t>>)
        BY <2>2 DEF Owed
      <3>4. QED BY <3>1, <3>2, <3>3, PlacesAre
    <2>5. ASSUME Smooth' PROVE \A q \in Place \ {b} : Owed(q)' = Owed(q)
      <3>1. "window" \notin odd
        BY <1>1, <2>5 DEF Smooth
      <3>2. left = {} /\ us[s].removal = << >>
        BY <1>1, <3>1, RemovalFinds DEF AnswerInv, Ready
      <3>3. \A i \in Ingest : ing'[i].at = ing[i].at
        BY <2>3, <3>2
      <3>4. \A t \in Service : us'[t].removal = us[t].removal
        BY <2>2, <3>2
      <3> HIDE DEF s, left, A
      <3>5. QED BY <2>3, <3>3, <3>4, OwedSame, PlacesAre
    <2> HIDE DEF A, b, e
    <2>6. Moves(A, b, b)
      BY <1>6, <1>8, <2>1, <2>4 DEF Moves
    <2>7. Smooth' => \A q \in Place : \A r \in Owed(q) : r \in A \/ \E p \in Place : r \in Owed(p)'
      BY <1>5, <1>7, <2>1, <2>5
    <2>8. \A r \in A : \E q \in Place : r \in Owed(q)
      BY <1>5, <2>1
    <2>9. b \in Place /\ A \in SUBSET Stream /\ Answer(A) /\ requests' = requests /\ odd' = odd
      BY <1>1, <1>5, <2>1
    <2>10. QED BY <1>4, <2>6, <2>7, <2>8, <2>9, Answered
  <1>11. QED BY <1>9, <1>10

-----------------------------------------------------------------------------
(* DELETEs wait for what is going.                                         *)

\* Nothing about DELETEs is new.
LEMMA WaitFrame ==
    ASSUME DeletesWait, odd \subseteq odd', us \in [Service -> UserServiceState],
           \A j \in Ingest : ing'[j].at \in {"creating", "there"} =>
                 ing[j].at \in {"creating", "there"} /\ ing'[j].deletes = ing[j].deletes,
           \A j \in Ingest : ing[j].at = "deleting" => ing'[j].at \in {"deleting", "gone", "orphan"},
           \A t \in Service : us'[t].removal # << >> =>
                 /\ us[t].removal # << >>
                 /\ us'[t].sessions \subseteq {j \in us[t].sessions : ing'[j].at \notin {"gone", "orphan"}}
    PROVE  DeletesWait'
  <1>1. \A t \in Service : us[t].sessions \subseteq Ingest
    BY DEF UserServiceState
  <1>2. QED BY <1>1 DEF DeletesWait

LEMMA WaitStep ==
    ASSUME AnswerInv, ServiceInv', abort = "no", abort' = "no", Handle
    PROVE  DeletesWait'
  <1>1. /\ Types /\ DeletesWait /\ us \in [Service -> UserServiceState] /\ DOMAIN ing = Ingest
    BY DEF AnswerInv, ServiceInv, Types
  <1>2. ASSUME NEW s \in Service, NEW ann \in BOOLEAN, NEW ok \in BOOLEAN,
               PostService(s, ann, ok) \/ PutService(s, ann, ok)
        PROVE  DeletesWait'
    <2>1. ing' = ing /\ odd \subseteq odd'
      BY <1>2 DEF PostService, PutService, Note
    <2>2. CASE us' = us
      BY <1>1, <2>1, <2>2 DEF DeletesWait
    <2>3. CASE us' = [us EXCEPT ![s].ann = ann]
      <3>1. \A t \in Service : us'[t].removal = us[t].removal /\ us'[t].sessions = us[t].sessions
        BY <1>1, <2>3 DEF UserServiceState
      <3>2. QED BY <1>1, <2>1, <3>1 DEF DeletesWait
    <2>4. CASE us' = [us EXCEPT ![s] = [there |-> TRUE, ann |-> ann, removal |-> << >>,
                                        sessions |-> {}]]
      <3>1. us'[s].removal = << >> /\ \A t \in Service \ {s} : us'[t] = us[t]
        BY <1>1, <2>4
      <3>2. QED BY <1>1, <2>1, <3>1 DEF DeletesWait
    <2>5. QED BY <1>2, <2>2, <2>3, <2>4 DEF PostService, PutService
  <1>3. ASSUME NEW s \in Service, DeleteService(s) PROVE DeletesWait'
    <2>1. odd \subseteq odd'
      BY <1>3 DEF DeleteService, Note
    <2>2. CASE UNCHANGED <<us, ing>>
      BY <1>1, <2>1, <2>2 DEF DeletesWait
    <2>3. CASE /\ \E e : us' = [us EXCEPT ![s].removal = <<e>>]
               /\ ing' = [i \in Ingest |-> IF i \in us[s].sessions THEN Deleting(i) ELSE ing[i]]
               /\ Early(us[s].sessions) \subseteq odd'
      <3>1. /\ \A t \in Service : us'[t].sessions = us[t].sessions
            /\ \A t \in Service \ {s} : us'[t] = us[t]
        BY <1>1, <2>3 DEF UserServiceState
      <3>2. ASSUME NEW i \in Ingest
            PROVE  /\ ing'[i].deletes = ing[i].deletes
                   /\ ing'[i].at = IF i \in us[s].sessions /\ ing[i].at = "there" THEN "deleting"
                                   ELSE ing[i].at
        BY <1>1, <2>3, DeletingIs DEF IngestFields
      <3>3. us[s].sessions \subseteq Ingest
        BY <1>1 DEF UserServiceState
      <3>4. "early" \notin odd' => \A i \in us[s].sessions : ing'[i].at = "deleting"
        <4>1. ASSUME "early" \notin odd', NEW i \in us[s].sessions PROVE ing'[i].at = "deleting"
          <5>1. ing[i].at \in Alive
            BY <3>3 DEF AnswerInv, ServiceInv, SessionsAre
          <5>2. ing[i].at # "creating"
            BY <2>3, <4>1 DEF Early
          <5>3. QED BY <3>2, <3>3, <5>1, <5>2 DEF Alive
        <4>2. QED BY <4>1
      <3>5. \A t \in Service : us[t].sessions \subseteq Ingest
        BY <1>1 DEF UserServiceState
      <3>6. QED BY <1>1, <2>1, <3>1, <3>2, <3>4, <3>5 DEF DeletesWait
    <2>4. QED BY <1>3, <2>2, <2>3 DEF DeleteService, Note
  <1>4. ASSUME NEW i \in Ingest, NEW s \in Service, NEW map \in Map, PostIngest(i, s, map)
        PROVE  DeletesWait'
    <2> DEFINE d == [at |-> "creating", service |-> s, post |-> This, deletes |-> {},
                     infos |-> {k \in Key : map[k] # NoId},
                     ctx |-> ContextsFor(map, {k \in Key : map[k] # NoId})]
    <2>1. odd \subseteq odd'
      BY <1>4 DEF PostIngest, Note
    <2>2. CASE UNCHANGED <<us, ing>>
      BY <1>1, <2>1, <2>2 DEF DeletesWait
    <2>3. CASE /\ us' = [us EXCEPT ![s].sessions = @ \cup {i}] /\ ing' = [ing EXCEPT ![i] = d]
               /\ us[s].removal # << >> => "early" \in odd'
      <3>1. /\ \A j \in Ingest \ {i} : ing'[j] = ing[j]
            /\ ing'[i].at = "creating" /\ ing'[i].deletes = {} /\ ing[i].at = "free"
        BY <1>1, <1>4, <2>3 DEF PostIngest
      <3>2. /\ us'[s].removal = us[s].removal /\ \A t \in Service \ {s} : us'[t] = us[t]
        BY <1>1, <2>3 DEF UserServiceState
      <3>3. \A t \in Service : us[t].sessions \subseteq Ingest /\ i \notin us[t].sessions
        BY <1>1, <3>1 DEF UserServiceState, AnswerInv, ServiceInv, SessionsAre, Alive
      <3>4. "early" \notin odd' => us'[s].removal = << >>
        BY <2>3, <3>2
      <3>5. QED BY <1>1, <2>1, <3>1, <3>2, <3>3, <3>4 DEF DeletesWait
    <2>4. QED BY <1>4, <2>2, <2>3 DEF PostIngest, Note
  <1>5. ASSUME NEW i \in Ingest, NEW map \in Map, NEW ok \in BOOLEAN, PutIngest(i, map, ok)
        PROVE  DeletesWait'
    <2>1. us' = us
      BY <1>5 DEF PutIngest
    <2>2. CASE ing' = ing /\ odd \subseteq odd'
      BY <1>1, <2>1, <2>2 DEF DeletesWait
    <2>3. ASSUME NEW seen \in SUBSET Contexts(i), NEW gone, PutSeen(i, map, seen, gone), Found(i)
          PROVE  DeletesWait'
      <3>1. /\ \A j \in Ingest \ {i} : ing'[j] = ing[j]
            /\ \A f \in IngestFields \ {"infos", "ctx"} : ing'[i][f] = ing[i][f]
            /\ odd \subseteq odd'
        <4>1. Receive
          BY <1>5 DEF PutIngest
        <4>2. QED BY <2>3, <4>1, PutShape DEF AnswerInv
      <3>2. \A j \in Ingest : ing'[j].at = ing[j].at /\ ing'[j].deletes = ing[j].deletes
        BY <3>1 DEF IngestFields
      <3>3. \A t \in Service : us[t].sessions \subseteq Ingest
        BY <1>1 DEF UserServiceState
      <3>4. QED BY <1>1, <2>1, <3>1, <3>2, <3>3 DEF DeletesWait
    <2>4. CASE Found(i) /\ Put(i, map)
      BY <2>3, <2>4, PutCases
    <2>5. QED BY <1>5, <2>2, <2>4 DEF PutIngest
  <1>6. ASSUME NEW i \in Ingest, DeleteIngestRequest(i) PROVE DeletesWait'
    <2>1. us' = us /\ odd \subseteq odd'
      BY <1>6 DEF DeleteIngestRequest, Note
    <2>2. CASE ing' = ing
      BY <1>1, <2>1, <2>2 DEF DeletesWait
    <2>3. CASE Found(i)
      <3> DEFINE d == Deleting(i)
      <3>1. ing' = [ing EXCEPT ![i] = [d EXCEPT !.deletes = @ \cup {This}]] /\ Early({i}) \subseteq odd'
        BY <1>6, <2>3 DEF DeleteIngestRequest, Note
      <3>2. /\ DOMAIN d = IngestFields
            /\ d.at = IF ing[i].at = "there" THEN "deleting" ELSE ing[i].at
        BY <1>1, DeletingIs DEF IngestShape
      <3> HIDE DEF d
      <3>3. /\ ing'[i].at = IF ing[i].at = "there" THEN "deleting" ELSE ing[i].at
            /\ \A j \in Ingest \ {i} : ing'[j] = ing[j]
        BY <1>1, <3>1, <3>2 DEF IngestFields
      <3>4. "early" \notin odd' => ing'[i].at \notin {"creating", "there"}
        BY <3>1, <3>3 DEF Early
      <3>5. \A t \in Service : us[t].sessions \subseteq Ingest
        BY <1>1 DEF UserServiceState
      <3>6. ing[i].at = "deleting" => ing'[i].at = "deleting"
        BY <3>3
      <3>7. QED BY <1>1, <2>1, <3>3, <3>4, <3>5, <3>6 DEF DeletesWait
    <2>4. QED BY <1>6, <2>2, <2>3 DEF DeleteIngestRequest
  <1>7. ASSUME NEW i \in Ingest, Established(i) PROVE DeletesWait'
    <2>1. /\ us' = us /\ odd' = odd /\ ing[i].at = "creating" /\ ing' = [ing EXCEPT ![i].at = "there"]
          /\ DOMAIN ing[i] = IngestFields
      BY <1>1, <1>7 DEF Established, Types, IngestShape
    <2>2. /\ ing'[i].at = "there" /\ ing'[i].deletes = ing[i].deletes
          /\ \A j \in Ingest \ {i} : ing'[j] = ing[j]
      BY <1>1, <2>1 DEF IngestFields
    <2>3. \A t \in Service : us[t].sessions \subseteq Ingest
      BY <1>1 DEF UserServiceState
    <2>4. QED BY <1>1, <2>1, <2>2, <2>3 DEF DeletesWait
  <1>8. ASSUME NEW i \in Ingest, CreationFails(i) \/ Deleted(i) PROVE DeletesWait'
    <2>1. /\ ing[i].at \in Alive /\ ing' = [ing EXCEPT ![i].at = "gone"] /\ DeleteIngest(i)
          /\ odd' = odd /\ IngestShape(ing[i])
      BY <1>1, <1>8 DEF CreationFails, Deleted, Types, Alive
    <2>2. PICK s \in Service : s = ing[i].service
      BY <2>1 DEF IngestShape
    <2>3. /\ ing'[i].at = "gone" /\ \A j \in Ingest \ {i} : ing'[j] = ing[j]
      BY <1>1, <2>1 DEF IngestShape, IngestFields
    <2>4. /\ \A t \in Service \ {s} : us'[t] = us[t]
          /\ us'[s].sessions = us[s].sessions \ {i}
          /\ us'[s].removal # << >> => us[s].removal # << >>
      BY <1>1, <2>1, <2>2, DeleteIngestIs
    <2>5. \A t \in Service : us[t].sessions \subseteq Ingest /\ (t # s => i \notin us[t].sessions)
      BY <1>1, <2>2 DEF UserServiceState, AnswerInv, ServiceInv, SessionsAre
    <2>6. QED BY <1>1, <2>1, <2>3, <2>4, <2>5 DEF DeletesWait
  <1>9. ASSUME HandleRemoval PROVE DeletesWait'
    <2>1. odd' = odd
      BY <1>9 DEF HandleRemoval
    <2>2. CASE UNCHANGED <<us, ing>>
      BY <2>1, <1>1, <2>2 DEF DeletesWait
    <2>3. CASE us' # us \/ ing' # ing
      <3> DEFINE left == us[queue[1].service].sessions
      <3>1. queue # << >> /\ queue[1].service \in Service
        BY <1>1, <1>9, QueueTail, QueueTypes DEF HandleRemoval
      <3>2. PICK s \in Service : s = queue[1].service
        BY <3>1
      <3>3. /\ us' = [us EXCEPT ![s] = [@ EXCEPT !.there = FALSE, !.removal = << >>, !.sessions = {}]]
            /\ ing' = [i \in Ingest |-> IF i \in left THEN [ing[i] EXCEPT !.at = "orphan"]
                                         ELSE ing[i]]
        BY <1>1, <1>9, <2>3, <3>1, <3>2, QueueTail DEF HandleRemoval
      <3>4. us'[s].removal = << >> /\ \A t \in Service \ {s} : us'[t] = us[t]
        BY <1>1, <3>3 DEF UserServiceState
      <3>5. \A i \in Ingest : ing'[i].at = (IF i \in left THEN "orphan" ELSE ing[i].at)
                             /\ (i \notin left => ing'[i] = ing[i])
        <4>1. \A i \in Ingest : DOMAIN ing[i] = IngestFields
          BY <1>1 DEF Types, IngestShape
        <4> HIDE DEF left
        <4>2. QED BY <3>3, <4>1 DEF IngestFields
      <3>6. \A t \in Service : /\ us[t].sessions \subseteq Ingest
                               /\ t # s => us[t].sessions \cap left = {}
        BY <1>1, <3>2 DEF UserServiceState, AnswerInv, ServiceInv, SessionsAre
      <3> HIDE DEF left
      <3>7. \A i \in Ingest : ing'[i].at \in {"creating", "there"} =>
                ing[i].at \in {"creating", "there"} /\ ing'[i].deletes = ing[i].deletes
        BY <3>5
      <3>8. ASSUME "early" \notin odd', NEW t \in Service, us'[t].removal # << >>
            PROVE  \A i \in us'[t].sessions : ing'[i].at = "deleting"
        <4>1. t # s /\ us'[t] = us[t]
          BY <3>4, <3>8
        <4>2. \A i \in us[t].sessions : i \in Ingest /\ i \notin left /\ ing[i].at = "deleting"
          <5>1. us[t].sessions \subseteq Ingest /\ us[t].sessions \cap left = {}
            BY <3>6, <4>1
          <5>2. "early" \notin odd /\ us[t].removal # << >>
            BY <2>1, <3>8, <4>1
          <5>3. \A i \in us[t].sessions : ing[i].at = "deleting"
            BY <1>1, <5>2 DEF DeletesWait
          <5>4. QED BY <5>1, <5>3
        <4>3. QED BY <3>5, <4>1, <4>2
      <3>9. QED BY <1>1, <2>1, <3>7, <3>8 DEF DeletesWait
    <2>4. QED BY <2>2, <2>3
  <1>10. ASSUME Refused \/ \E case \in Odd : Ignored(case) PROVE DeletesWait'
    <2>1. UNCHANGED <<us, ing>> /\ odd \subseteq odd'
      BY <1>10 DEF Refused, Ignored, Note
    <2>2. QED BY <1>1, <2>1 DEF DeletesWait
  <1>11. QED
    BY <1>2, <1>3, <1>4, <1>5, <1>6, <1>7, <1>8, <1>9, <1>10 DEF Handle

LEMMA AccountsStep ==
    ASSUME AnswerInv, ServiceInv', abort = "no", abort' = "no", Handle, lost' = lost
    PROVE  Accounts'
  <1>1. Types'
    BY DEF ServiceInv
  <1>2. ASSUME NEW s \in Service, NEW ann \in BOOLEAN, NEW ok \in BOOLEAN,
               PostService(s, ann, ok) \/ PutService(s, ann, ok)
        PROVE  Accounts'
    BY <1>1, <1>2, ServiceAccounts
  <1>3. ASSUME NEW s \in Service, DeleteService(s) PROVE Accounts'
    BY <1>1, <1>3, DeleteServiceAccounts
  <1>4. ASSUME NEW i \in Ingest, NEW s \in Service, NEW map \in Map, PostIngest(i, s, map)
        PROVE  Accounts'
    BY <1>1, <1>4, PostIngestAccounts
  <1>5. ASSUME NEW i \in Ingest, NEW map \in Map, NEW ok \in BOOLEAN, PutIngest(i, map, ok)
        PROVE  Accounts'
    BY <1>1, <1>5, PutIngestAccounts
  <1>6. ASSUME NEW i \in Ingest,
               DeleteIngestRequest(i) \/ Established(i) \/ CreationFails(i) \/ Deleted(i)
        PROVE  Accounts'
    BY <1>1, <1>6, DeleteIngestRequestAccounts, EstablishedAccounts, GoneAccounts
  <1>7. ASSUME HandleRemoval PROVE Accounts'
    BY <1>1, <1>7, HandleRemovalAccounts
  <1>8. ASSUME Refused \/ \E case \in Odd : Ignored(case) PROVE Accounts'
    BY <1>1, <1>8, RefusedAccounts
  <1>9. QED BY <1>2, <1>3, <1>4, <1>5, <1>6, <1>7, <1>8 DEF Handle

\* The AF closes a stream: what waits there waits on.
LEMMA CloseAccounts ==
    ASSUME AnswerInv, abort = "no", NEW c \in Stream, Close(c)
    PROVE  DeletesWait' /\ Accounts'
  <1>1. /\ UNCHANGED <<us, ing, queue, requests, answers, abort>> /\ lost' = lost \cup {c}
        /\ odd \subseteq odd' /\ c \in Posts \cup Deletes /\ (c \in Deletes => "left" \in odd')
    BY DEF Close, Note
  <1>2. DeletesWait' /\ AtMostOnce'
    BY <1>1 DEF AnswerInv, DeletesWait, AtMostOnce
  <1>3. \A p \in Place : Owed(p)' = Owed(p)
    BY <1>1, OwedStays
  <1>4. OwedOnce'
    BY <1>1, <1>3 DEF AnswerInv, OwedOnce
  <1>5. AllAccounted'
    BY <1>1, <1>3 DEF AnswerInv, AllAccounted
  <1>6. Deletes' = Deletes
    BY <1>1 DEF Deletes, Found
  <1>7. c \in 1..requests
    <2>1. \E p \in Place : c \in Owed(p)
      <3>1. CASE c \in Posts
        <4>1. PICK i \in Ingest : ing[i].at = "creating" /\ c = ing[i].post
          BY <3>1 DEF Posts
        <4>2. c \in Owed(<<"post", i>>)
          BY <4>1 DEF Owed
        <4>3. QED BY <4>2, PlacesAre
      <3>2. CASE c \in Deletes
        BY <3>2, DeletesAre DEF WhereDeletesWait
      <3>3. QED BY <1>1, <3>1, <3>2
    <2>2. QED BY <2>1 DEF AnswerInv, OwedOnce
  <1>8. LeftIs'
    BY <1>1, <1>6, <1>7 DEF AnswerInv, LeftIs
  <1>9. QED BY <1>2, <1>4, <1>5, <1>8 DEF Accounts

\* What always holds: the answers only matter while the process runs.
RegistryInv == ServiceInv /\ (abort = "no" => AnswerInv)

LEMMA AnswerInductive == ASSUME RegistryInv, [Next]_vars PROVE RegistryInv'
  <1>1. ServiceInv'
    BY ServiceInductive DEF RegistryInv, AnswerInv
  <1> SUFFICES ASSUME abort' = "no" PROVE AnswerInv'
    BY <1>1 DEF RegistryInv
  <1>2. CASE UNCHANGED vars
    <2>1. UNCHANGED <<us, ing, queue, odd, requests, answers, lost, abort>>
      BY <1>2 DEF vars
    <2>2. DeletesWait' /\ AtMostOnce'
      BY <2>1 DEF RegistryInv, AnswerInv, DeletesWait, AtMostOnce
    <2>3. \A p \in Place : Owed(p)' = Owed(p)
      BY <2>1, OwedStays
    <2>4. OwedOnce'
      BY <2>1, <2>3 DEF RegistryInv, AnswerInv, OwedOnce
    <2>5. AllAccounted'
      BY <2>1, <2>3 DEF RegistryInv, AnswerInv, AllAccounted
    <2>6. LeftIs'
      BY <2>1 DEF RegistryInv, AnswerInv, LeftIs, Deletes, Found
    <2>7. QED BY <1>1, <2>2, <2>4, <2>5, <2>6 DEF AnswerInv
  <1>3. CASE Next
    <2>1. abort = "no" /\ AnswerInv
      BY <1>3 DEF Next, RegistryInv
    <2>2. CASE Handle /\ lost' = lost
      BY <1>1, <2>1, <2>2, WaitStep, AccountsStep DEF AnswerInv, Accounts
    <2>3. ASSUME NEW c \in Stream, Close(c) PROVE AnswerInv'
      BY <1>1, <2>1, <2>3, CloseAccounts DEF AnswerInv, Accounts
    <2>4. ~Vanished
      BY DEF Vanished
    <2>5. QED BY <1>3, <2>2, <2>3, <2>4 DEF Next
  <1>4. QED BY <1>2, <1>3

LEMMA RegistryAlways == Spec => []RegistryInv
  <1>1. Init => RegistryInv
    BY RegistryInit DEF RegistryInv, AnswerInv
  <1>2. QED BY <1>1, AnswerInductive, PTL DEF Spec

\* Whatever is created, changed and removed in whatever order, the count that
\* decides whether the announcement channel is needed is the number of services
\* that require it, unless a request meets a service whose removal is already in
\* the queue (updateAnnChannelCounter, decAnnChannelCounter).
THEOREM CountIsExact == Spec => []CounterExact
  <1>1. RegistryInv => CounterExact
    BY DEF RegistryInv, ServiceInv, CounterIs, CounterExact
  <1>2. QED BY <1>1, RegistryAlways, PTL

\* A handler throws out of the event loop only for a body that does not fit the
\* model, a second removal of a service, or an AF that does not wait for its request
\* to be handled or for the answer to its DELETE; it fails an assertion only in a
\* PUT, after one that stopped half way or one or a POST with an MBS Session Id that
\* is not reachable; and it uses memory given back only in a PUT that drops a key.
THEOREM HandlersAreSafe == Spec => []HandlersSafe
  <1>1. RegistryInv => HandlersSafe
    BY DEF RegistryInv, ServiceInv
  <1>2. QED BY <1>1, RegistryAlways, PTL

\* When nothing is to come, nothing waits.
LEMMA NothingWaits ==
    ASSUME AnswerInv, Idle, NEW p \in Place,
           odd \cap {"unparsable", "noid", "early", "window", "contextless"} = {}
    PROVE  Owed(p) = {}
  <1>1. /\ "early" \notin odd /\ queue = << >>
        /\ \A i \in Ingest : ing[i].at \notin {"creating", "deleting"}
    BY DEF Idle, AnswerInv, ServiceInv, InfosAre, Found
  <1>2. \A i \in Ingest : Owed(<<"post", i>>) = {}
    BY <1>1 DEF Owed
  <1>3. \A i \in Ingest : Owed(<<"delete", i>>) = {}
    BY <1>1 DEF Owed, Alive, AnswerInv, DeletesWait
  <1>4. ASSUME NEW s \in Service PROVE Owed(<<"removal", s>>) = {}
    <2>1. us[s].sessions \subseteq Ingest
      BY DEF AnswerInv, ServiceInv, Types, UserServiceState
    <2>2. us[s].removal # << >> => us[s].sessions # {} /\ \A i \in us[s].sessions : ing[i].at = "deleting"
      BY <1>1 DEF AnswerInv, ServiceInv, ServicesAre, DeletesWait
    <2>3. us[s].removal = << >>
      BY <1>1, <2>1, <2>2
    <2>4. QED BY <2>3 DEF Owed
  <1>5. DOMAIN queue = {}
    BY <1>1
  <1>6. Owed(<<"queue", 0>>) = {}
    BY <1>5 DEF Owed
  <1>7. QED BY <1>2, <1>3, <1>4, <1>6, PlacesAre

\* Each request gets its one answer, whoever sends it and however long the answer
\* has to wait for ingest sessions, services and messages that come and go: none is
\* answered twice, but for the PUT that stopped half way, and when nothing is to
\* come none is left without an answer, but for those whose stream the AF has closed
\* and those that the code forgets, which AnsweredOnce names.
THEOREM EachIsAnsweredOnce == Spec => []AnsweredOnce
  <1>1. RegistryInv => AnsweredOnce
    <2> SUFFICES ASSUME RegistryInv, abort = "no" PROVE AnsweredOnce
      BY DEF AnsweredOnce
    <2>1. "halfway" \notin odd => \A r \in Stream : answers[r] <= 1
      BY DEF RegistryInv, AnswerInv, AtMostOnce
    <2>2. ASSUME Idle, odd \cap {"unparsable", "noid", "early", "window", "contextless"} = {}
          PROVE  \A r \in 1..requests \ lost : answers[r] >= 1
      <3>1. \A p \in Place : Owed(p) = {}
        BY <2>2, NothingWaits DEF RegistryInv
      <3>2. QED BY <2>2, <3>1 DEF RegistryInv, AnswerInv, AllAccounted
    <2>3. QED BY <2>1, <2>2 DEF AnsweredOnce
  <1>2. QED BY <1>1, RegistryAlways, PTL

-----------------------------------------------------------------------------
(* Induction from the least element of a set of naturals, and the          *)
(* recursive function of a fold.                                           *)

\* A set of naturals has a least element.
LEMMA LeastNat ==
    ASSUME NEW T, T \subseteq Nat, T # {}
    PROVE \E n \in T : \A m \in T : n <= m
  <1>1. PICK R : R = OpToRel(<, Nat)
    OBVIOUS
  <1>2. IsWellFoundedOn(R, Nat)
    BY <1>1, NatLessThanWellFounded
  <1>3. \A x, y \in Nat : x < y => <<x, y>> \in R
    BY <1>1 DEF OpToRel
  <1>4. \E x \in T : \A y \in T : ~ (<<y, x>> \in R)
    BY <1>2, WFMin, Zenon
  <1>5. PICK n \in T : \A m \in T : <<m, n>> \notin R
    BY <1>4
  <1>6. ASSUME NEW m \in T PROVE n <= m
    <2>1. m \in Nat /\ n \in Nat
      OBVIOUS
    <2>2. <<m, n>> \notin R
      BY <1>5
    <2>3. QED BY <1>3, <2>1, <2>2
  <1>7. QED BY <1>6

\* Induction, in a form the provers can use: a set that has 0 and the successor
\* of each element has every natural number.
LEMMA Induct ==
    ASSUME NEW S \in SUBSET Nat, 0 \in S, \A n \in S : n + 1 \in S
    PROVE  S = Nat
  <1>1. SUFFICES ASSUME Nat \ S # {} PROVE FALSE
    OBVIOUS
  <1>2. PICK n \in Nat \ S : \A m \in Nat \ S : n <= m
    BY <1>1, LeastNat
  <1>3. n # 0
    OBVIOUS
  <1>4. n - 1 \in Nat /\ ~(n <= n - 1)
    BY <1>3
  <1>5. n - 1 \in S
    BY <1>2, <1>4
  <1>6. (n - 1) + 1 = n
    OBVIOUS
  <1>7. QED BY <1>5, <1>6

LEMMA MaxIs ==
    ASSUME NEW k \in Nat, NEW s \in SUBSET (1..k), s # {}
    PROVE  /\ Max(s) \in s
           /\ \A y \in s : y <= Max(s)
  <1> DEFINE T == {m \in Nat : \A y \in s : y <= m}
  <1>1. k \in T
    OBVIOUS
  <1>2. PICK m \in T : \A j \in T : m <= j
    BY <1>1, LeastNat
  <1>3. m \in s
    <2>1. SUFFICES ASSUME m \notin s PROVE FALSE
      OBVIOUS
    <2>2. PICK y \in s : TRUE
      OBVIOUS
    <2>3. y \in Nat /\ y >= 1 /\ y <= m
      OBVIOUS
    <2>4. m - 1 \in Nat
      BY <2>3
    <2>5. \A z \in s : z <= m - 1
      BY <2>1
    <2>6. m - 1 \in T
      BY <2>4, <2>5
    <2>7. QED BY <1>2, <2>6
  <1>4. \E x \in s : \A y \in s : x >= y
    BY <1>3
  <1>5. QED BY <1>4 DEF Max

\* The recursion of a fold over the first n elements of a sequence, F taking the
\* result so far and the next position: it goes over the sets of positions.
Recursion(g, n, base, F) ==
    \A p \in SUBSET (1..n) :
        g[p] = IF p = {} THEN base ELSE F[<<g[p \ {Max(p)}], Max(p)>>]

LEMMA FoldExists ==
    ASSUME NEW n \in Nat, NEW A, NEW base \in A, NEW F \in [A \X (1..n) -> A]
    PROVE  \E g \in [SUBSET (1..n) -> A] : Recursion(g, n, base, F)
  <1> DEFINE Is(g, k) == \A p \in SUBSET (1..k) :
                            g[p] = IF p = {} THEN base ELSE F[<<g[p \ {Max(p)}], Max(p)>>]
             K == {k \in Nat : k <= n => \E g \in [SUBSET (1..k) -> A] : Is(g, k)}
  <1>1. 0 \in K
    <2> DEFINE g == [p \in SUBSET (1..0) |-> base]
    <2>1. g \in [SUBSET (1..0) -> A] /\ \A p \in SUBSET (1..0) : p = {}
      OBVIOUS
    <2>2. Is(g, 0)
      BY <2>1
    <2>3. QED BY <2>1, <2>2
  <1>2. ASSUME NEW k \in K, k + 1 <= n PROVE \E g \in [SUBSET (1..(k + 1)) -> A] : Is(g, k + 1)
    <2>1. k \in Nat /\ k <= n
      BY <1>2
    <2>2. PICK g \in [SUBSET (1..k) -> A] : Is(g, k)
      BY <2>1
    <2> DEFINE h == [p \in SUBSET (1..(k + 1)) |->
                        IF p = {} THEN base ELSE F[<<g[p \ {Max(p)}], Max(p)>>]]
    <2>3. ASSUME NEW p \in SUBSET (1..(k + 1)), p # {}
          PROVE  Max(p) \in 1..n /\ p \ {Max(p)} \in SUBSET (1..k)
      <3>1. k + 1 \in Nat
        BY <2>1
      <3>2. PICK m \in 1..(k + 1) : m = Max(p) /\ \A y \in p : y <= m
        BY <2>3, <3>1, MaxIs
      <3>3. ASSUME NEW y \in p \ {m} PROVE y \in 1..k
        <4>1. y \in 1..(k + 1) /\ y <= m /\ y # m
          BY <3>2
        <4>2. QED BY <2>1, <3>2, <4>1
      <3>4. m \in 1..n
        BY <1>2, <2>1, <3>2
      <3>5. QED BY <3>2, <3>3, <3>4
    <2>4. h \in [SUBSET (1..(k + 1)) -> A]
      <3>1. ASSUME NEW p \in SUBSET (1..(k + 1))
            PROVE  (IF p = {} THEN base ELSE F[<<g[p \ {Max(p)}], Max(p)>>]) \in A
        BY <2>2, <2>3
      <3>2. QED BY <3>1
    <2>5. \A p \in SUBSET (1..k) : h[p] = g[p]
      <3>1. ASSUME NEW p \in SUBSET (1..k) PROVE p \in SUBSET (1..(k + 1))
        BY <2>1
      <3>2. ASSUME NEW p \in SUBSET (1..k)
            PROVE  h[p] = IF p = {} THEN base ELSE F[<<g[p \ {Max(p)}], Max(p)>>]
        BY <3>1
      <3>3. ASSUME NEW p \in SUBSET (1..k)
            PROVE  g[p] = IF p = {} THEN base ELSE F[<<g[p \ {Max(p)}], Max(p)>>]
        BY <2>2
      <3> HIDE DEF h
      <3>4. QED BY <3>2, <3>3
    <2>6. Is(h, k + 1)
      <3>1. ASSUME NEW p \in SUBSET (1..(k + 1))
            PROVE  h[p] = IF p = {} THEN base ELSE F[<<h[p \ {Max(p)}], Max(p)>>]
        <4>1. h[p] = IF p = {} THEN base ELSE F[<<g[p \ {Max(p)}], Max(p)>>]
          OBVIOUS
        <4>2. p # {} => h[p \ {Max(p)}] = g[p \ {Max(p)}]
          BY <2>3, <2>5
        <4> HIDE DEF h
        <4>3. QED BY <4>1, <4>2
      <3> HIDE DEF h
      <3>2. QED BY <3>1
    <2>7. QED BY <2>4, <2>6
  <1>3. \A k \in K : k + 1 \in K
    <2>1. SUFFICES ASSUME NEW k \in K PROVE k + 1 \in K
      OBVIOUS
    <2>2. k \in Nat /\ k + 1 \in Nat
      OBVIOUS
    <2>3. k + 1 <= n => \E g \in [SUBSET (1..(k + 1)) -> A] : Is(g, k + 1)
      BY <1>2
    <2> HIDE DEF Is
    <2>4. QED BY <2>2, <2>3
  <1>4. K \in SUBSET Nat
    OBVIOUS
  <1> HIDE DEF K
  <1>5. n \in K
    BY <1>1, <1>3, <1>4, Induct
  <1> HIDE DEF Is
  <1>6. n <= n
    OBVIOUS
  <1>7. \E g \in [SUBSET (1..n) -> A] : Is(g, n)
    BY <1>5, <1>6 DEF K
  <1>8. QED BY <1>7 DEF Is, Recursion

LEMMA UpTo ==
    ASSUME NEW k \in Nat
    PROVE  /\ Max(1..(k + 1)) = k + 1 /\ 1..(k + 1) # {}
           /\ (1..(k + 1)) \ {k + 1} = 1..k
           /\ 1..0 = {}
  <1>1. PICK p : p = 1..(k + 1)
    OBVIOUS
  <1>2. p # {} /\ p \in SUBSET (1..(k + 1)) /\ k + 1 \in Nat /\ k + 1 \in p
    BY <1>1
  <1>3. Max(p) \in p /\ \A y \in p : y <= Max(p)
    BY <1>2, MaxIs
  <1>4. Max(p) = k + 1
    BY <1>1, <1>2, <1>3
  <1>5. (1..(k + 1)) \ {k + 1} = 1..k
    OBVIOUS
  <1>6. QED BY <1>1, <1>2, <1>4, <1>5

\* The result of a fold is in the last of a list of sets, if each step leads from
\* one set to the next.
LEMMA FoldReaches ==
    ASSUME NEW n \in Nat, NEW R, NEW h, h[{}] \in R[0],
           \A k \in 0..(n - 1) : h[1..k] \in R[k] => h[1..(k + 1)] \in R[k + 1]
    PROVE  h[1..n] \in R[n]
  <1> DEFINE K == {k \in Nat : k <= n => h[1..k] \in R[k]}
  <1>1. 0 \in K
    <2>1. 1..0 = {}
      OBVIOUS
    <2>2. QED BY <2>1
  <1>2. ASSUME NEW k \in K PROVE k + 1 \in K
    OBVIOUS
  <1>3. K = Nat
    BY <1>1, <1>2, Induct
  <1>4. QED BY <1>3

-----------------------------------------------------------------------------
(* operator<=>.                                                            *)

Opposite(x, y) ==
    \/ x = Less /\ y = Greater
    \/ x = Greater /\ y = Less
    \/ x = Equal /\ y = Equal

LEMMA OrdersAreOpposite ==
    ASSUME NEW a \in Int, NEW b \in Int
    PROVE  Opposite(Order(a, b), Order(b, a)) /\ (Order(a, b) = Equal <=> a = b)
  BY DEF Opposite, Order, Less, Equal, Greater

LEMMA TaisAreOpposite ==
    ASSUME NEW s \in SUBSET Nat, NEW t \in SUBSET Nat
    PROVE  Opposite(OptionalOrdering(s, t, TaiLess), OptionalOrdering(t, s, TaiLess))
  <1>1. ~(Precedes(s, t, TaiLess) /\ Precedes(t, s, TaiLess))
    BY DEF Precedes, TaiLess
  <1>2. Opposite(ListOrdering(s, t, TaiLess), ListOrdering(t, s, TaiLess))
    BY <1>1 DEF Opposite, ListOrdering, Less, Equal, Greater
  <1>3. QED BY <1>2 DEF Opposite, OptionalOrdering, Less, Greater

LEMMA NcgisAreOpposite ==
    ASSUME NEW s \in SUBSET (Nat \X Nat), NEW t \in SUBSET (Nat \X Nat)
    PROVE  Opposite(OptionalOrdering(s, t, NcgiTaiLess), OptionalOrdering(t, s, NcgiTaiLess))
  <1>1. ~(Precedes(s, t, NcgiTaiLess) /\ Precedes(t, s, NcgiTaiLess))
    <2>1. ASSUME NEW m \in Nat \X Nat, NEW n \in Nat \X Nat, NcgiTaiLess(m, n), NcgiTaiLess(n, m)
          PROVE  FALSE
      BY <2>1 DEF NcgiTaiLess
    <2>2. QED BY <2>1 DEF Precedes
  <1>2. Opposite(ListOrdering(s, t, NcgiTaiLess), ListOrdering(t, s, NcgiTaiLess))
    BY <1>1 DEF Opposite, ListOrdering, Less, Equal, Greater
  <1>3. QED BY <1>2 DEF Opposite, OptionalOrdering, Less, Greater

LEMMA AreasAreOpposite ==
    ASSUME NEW a \in UniqueIds, NEW b \in UniqueIds
    PROVE  Opposite(svc_area_ordering(a, b), svc_area_ordering(b, a))
  <1>1. /\ a.ncgis \in SUBSET (Nat \X Nat) /\ b.ncgis \in SUBSET (Nat \X Nat)
        /\ a.tais \in SUBSET Nat /\ b.tais \in SUBSET Nat
    BY DEF UniqueIds
  <1>2. Opposite(OptionalOrdering(a.ncgis, b.ncgis, NcgiTaiLess),
                 OptionalOrdering(b.ncgis, a.ncgis, NcgiTaiLess))
    BY <1>1, NcgisAreOpposite
  <1>3. Opposite(OptionalOrdering(a.tais, b.tais, TaiLess),
                 OptionalOrdering(b.tais, a.tais, TaiLess))
    BY <1>1, TaisAreOpposite
  <1>4. QED BY <1>2, <1>3 DEF svc_area_ordering, Opposite, Less, Equal, Greater

LEMMA SessionsAreOpposite ==
    ASSUME NEW a \in UniqueIds, NEW b \in UniqueIds
    PROVE  Opposite(mbs_session_ordering(a, b), mbs_session_ordering(b, a))
  <1>1. a.ssm \in Int /\ b.ssm \in Int /\ a.tmgi \in Int /\ b.tmgi \in Int
    BY DEF UniqueIds
  <1>2. /\ Opposite(tmgi_ordering(a.tmgi, b.tmgi), tmgi_ordering(b.tmgi, a.tmgi))
        /\ Opposite(ssm_ordering(a.ssm, b.ssm), ssm_ordering(b.ssm, a.ssm))
    BY <1>1, OrdersAreOpposite DEF tmgi_ordering, ssm_ordering
  <1>3. QED BY <1>2 DEF mbs_session_ordering

LEMMA OverlapsAreMutual ==
    ASSUME NEW a, NEW b
    PROVE  /\ svc_area_overlap(a, b) <=> svc_area_overlap(b, a)
           /\ ext_svc_area_overlap(a, b) <=> ext_svc_area_overlap(b, a)
  BY DEF svc_area_overlap, ncgi_tai_overlap, ext_svc_area_overlap

\* a <=> b is the opposite of b <=> a.
LEMMA ComparesAreOpposite ==
    ASSUME NEW a \in UniqueIds, NEW b \in UniqueIds
    PROVE  Opposite(Compare(a, b), Compare(b, a))
  <1> DEFINE same == \/ IsGlobal(a) \/ IsGlobal(b)
                     \/ HasServiceArea(a) /\ HasServiceArea(b) /\ svc_area_overlap(a, b)
                     \/ HasExternalArea(a) /\ HasExternalArea(b) /\ ext_svc_area_overlap(a, b)
  <1>1. CASE same
    <2>1. /\ Compare(a, b) = mbs_session_ordering(a, b)
          /\ Compare(b, a) = mbs_session_ordering(b, a)
      BY <1>1, OverlapsAreMutual DEF Compare
    <2>2. QED BY <2>1, SessionsAreOpposite
  <1>2. CASE ~same /\ HasServiceArea(a) /\ HasServiceArea(b)
    <2>1. Compare(a, b) = svc_area_ordering(a, b) /\ Compare(b, a) = svc_area_ordering(b, a)
      BY <1>2, OverlapsAreMutual DEF Compare
    <2>2. QED BY <2>1, AreasAreOpposite
  <1>3. CASE ~same /\ ~(HasServiceArea(a) /\ HasServiceArea(b))
    <2>1. /\ HasServiceArea(a) \/ HasExternalArea(a)
          /\ HasServiceArea(b) \/ HasExternalArea(b)
      BY <1>3 DEF IsGlobal
    <2>2. CASE HasExternalArea(a) /\ HasExternalArea(b)
      <3>1. Compare(a, b) = Equal
        BY <1>3, <2>2 DEF Compare, ext_svc_area_ordering
      <3>2. Compare(b, a) = Equal
        BY <1>3, <2>2, OverlapsAreMutual DEF Compare, ext_svc_area_ordering
      <3>3. QED BY <3>1, <3>2 DEF Opposite
    <2>3. CASE ~(HasExternalArea(a) /\ HasExternalArea(b))
      <3>1. \/ /\ HasServiceArea(a) /\ ~HasServiceArea(b)
               /\ Compare(a, b) = Greater /\ Compare(b, a) = Less
            \/ /\ HasServiceArea(b) /\ ~HasServiceArea(a)
               /\ Compare(a, b) = Less /\ Compare(b, a) = Greater
        BY <1>3, <2>1, <2>3, OverlapsAreMutual DEF Compare
      <3>2. QED BY <3>1 DEF Opposite, Less, Greater
    <2>4. QED BY <2>2, <2>3
  <1>4. QED BY <1>1, <1>2, <1>3

\* An id is equal to itself, and to one that it clashes with.
LEMMA SelfIsEqual ==
    ASSUME NEW a \in UniqueIds
    PROVE  Compare(a, a) = Equal
  <1>1. mbs_session_ordering(a, a) = Equal
    BY OrdersAreOpposite DEF mbs_session_ordering, ssm_ordering, UniqueIds
  <1>2. /\ HasServiceArea(a) => svc_area_overlap(a, a)
        /\ HasExternalArea(a) => ext_svc_area_overlap(a, a)
    BY DEF HasServiceArea, HasExternalArea, svc_area_overlap, ncgi_tai_overlap,
           ext_svc_area_overlap, NoList
  <1>3. QED BY <1>1, <1>2 DEF Compare, IsGlobal

LEMMA ClashIsEqual ==
    ASSUME NEW a \in UniqueIds, NEW b \in UniqueIds, Clash(a, b)
    PROVE  Compare(a, b) = Equal
  <1>1. svc_area_overlap(a, b) => HasServiceArea(a) /\ HasServiceArea(b)
    BY DEF svc_area_overlap, ncgi_tai_overlap, HasServiceArea, NoList, TaisOf
  <1>2. ext_svc_area_overlap(a, b) => HasExternalArea(a) /\ HasExternalArea(b)
    BY DEF ext_svc_area_overlap, HasExternalArea, NoList
  <1>3. QED BY <1>1, <1>2 DEF Clash, Compare

-----------------------------------------------------------------------------
(* The tree.                                                               *)

\* Its elements, from left to right, each less than all that follow
Chain(s) ==
    /\ s \in Seq(UniqueIds)
    /\ \A p, q \in 1..Len(s) : p < q => Compare(s[p], s[q]) = Less

\* r is s with x at place p
Inserted(r, s, p, x) ==
    /\ Len(r) = Len(s) + 1
    /\ \A q \in 1..(Len(s) + 1) : r[q] = IF q < p THEN s[q] ELSE IF q = p THEN x ELSE s[q - 1]

LEMMA InsertAtIs ==
    ASSUME NEW S, NEW s \in Seq(S), NEW p \in 1..(Len(s) + 1), NEW x \in S
    PROVE  InsertAt(s, p, x) \in Seq(S) /\ Inserted(InsertAt(s, p, x), s, p, x)
  <1> DEFINE a == SubSeq(s, 1, p - 1)
             b == a \o <<x>>
             c == SubSeq(s, p, Len(s))
  <1>1. Len(s) \in Nat /\ p \in Nat /\ p >= 1 /\ p <= Len(s) + 1
    OBVIOUS
  <1>2. a \in Seq(S) /\ Len(a) = p - 1 /\ \A q \in 1..(p - 1) : a[q] = s[q]
    BY <1>1
  <1>3. /\ c \in Seq(S) /\ Len(c) = Len(s) - p + 1
        /\ \A q \in 1..(Len(s) - p + 1) : c[q] = s[p + q - 1]
    BY <1>1
  <1> HIDE DEF a, c
  <1>4. /\ b \in Seq(S) /\ Len(b) = p
        /\ \A q \in 1..p : b[q] = IF q < p THEN s[q] ELSE x
    BY <1>1, <1>2
  <1> HIDE DEF b
  <1>5. /\ b \o c \in Seq(S) /\ Len(b \o c) = Len(b) + Len(c)
        /\ \A q \in 1..(Len(b) + Len(c)) : (b \o c)[q] = IF q <= Len(b) THEN b[q] ELSE c[q - Len(b)]
    BY <1>3, <1>4, ConcatProperties
  <1>6. /\ b \o c \in Seq(S) /\ Len(b \o c) = Len(s) + 1
        /\ \A q \in 1..(Len(s) + 1) : (b \o c)[q] = IF q <= p THEN b[q] ELSE c[q - p]
    <2>1. Len(b) = p /\ Len(b) + Len(c) = Len(s) + 1
      BY <1>1, <1>3, <1>4
    <2>2. QED BY <1>5, <2>1
  <1>7. ASSUME NEW q \in 1..(Len(s) + 1)
        PROVE  (b \o c)[q] = IF q < p THEN s[q] ELSE IF q = p THEN x ELSE s[q - 1]
    <2>1. CASE q <= p
      BY <1>1, <1>4, <1>6, <2>1
    <2>2. CASE q > p
      <3>1. q - p \in 1..(Len(s) - p + 1) /\ p + (q - p) - 1 = q - 1
        BY <1>1, <2>2
      <3>2. QED BY <1>1, <1>3, <1>6, <2>2, <3>1
    <2>3. q <= p \/ q > p
      BY <1>1
    <2>4. QED BY <2>1, <2>2, <2>3
  <1>8. InsertAt(s, p, x) = b \o c
    BY DEF InsertAt, a, b, c
  <1>9. QED BY <1>6, <1>7, <1>8 DEF Inserted

\* What is left of a sequence without a part of it
Without(s, p, q) == SubSeq(s, 1, p - 1) \o SubSeq(s, q, Len(s))

LEMMA WithoutIs ==
    ASSUME NEW S, NEW s \in Seq(S), NEW p \in 1..(Len(s) + 1), NEW q \in p..(Len(s) + 1)
    PROVE  /\ Without(s, p, q) \in Seq(S) /\ Len(Without(s, p, q)) = Len(s) - (q - p)
           /\ \A n \in 1..(Len(s) - (q - p)) :
                 Without(s, p, q)[n] = IF n < p THEN s[n] ELSE s[n + (q - p)]
  <1> DEFINE a == SubSeq(s, 1, p - 1)
             c == SubSeq(s, q, Len(s))
  <1>1. Len(s) \in Nat /\ p \in Nat /\ p >= 1 /\ p <= q /\ q \in Nat /\ q <= Len(s) + 1
    OBVIOUS
  <1>2. a \in Seq(S) /\ Len(a) = p - 1 /\ \A n \in 1..(p - 1) : a[n] = s[n]
    BY <1>1
  <1>3. /\ c \in Seq(S) /\ Len(c) = Len(s) - q + 1
        /\ \A n \in 1..(Len(s) - q + 1) : c[n] = s[q + n - 1]
    BY <1>1
  <1> HIDE DEF a, c
  <1>4. /\ a \o c \in Seq(S) /\ Len(a \o c) = Len(a) + Len(c)
        /\ \A n \in 1..(Len(a) + Len(c)) : (a \o c)[n] = IF n <= Len(a) THEN a[n] ELSE c[n - Len(a)]
    BY <1>2, <1>3, ConcatProperties
  <1>5. /\ a \o c \in Seq(S) /\ Len(a \o c) = Len(s) - (q - p)
        /\ \A n \in 1..(Len(s) - (q - p)) : (a \o c)[n] = IF n < p THEN a[n] ELSE c[n - (p - 1)]
    <2>1. Len(a) = p - 1 /\ Len(a) + Len(c) = Len(s) - (q - p)
      BY <1>1, <1>2, <1>3
    <2>2. \A n \in 1..(Len(s) - (q - p)) : n <= p - 1 <=> n < p
      BY <1>1
    <2>3. QED BY <1>4, <2>1, <2>2
  <1>6. ASSUME NEW n \in 1..(Len(s) - (q - p))
        PROVE  (a \o c)[n] = IF n < p THEN s[n] ELSE s[n + (q - p)]
    <2>1. CASE n < p
      BY <1>1, <1>2, <1>5, <2>1
    <2>2. CASE n >= p
      <3>1. n - (p - 1) \in 1..(Len(s) - q + 1) /\ q + (n - (p - 1)) - 1 = n + (q - p)
        BY <1>1, <2>2
      <3>2. QED BY <1>1, <1>3, <1>5, <2>2, <3>1
    <2>3. n < p \/ n >= p
      BY <1>1
    <2>4. QED BY <2>1, <2>2, <2>3
  <1>7. Without(s, p, q) = a \o c
    BY DEF Without, a, c
  <1>8. QED BY <1>5, <1>6, <1>7

\* Whatever the ids are, the operations return sequences of ids.
LEMMA TreeTypes ==
    ASSUME NEW s \in Seq(UniqueIds), NEW x \in UniqueIds
    PROVE  /\ SetContains(s, x) \subseteq BOOLEAN
           /\ SetInsert(s, x) \subseteq Seq(UniqueIds)
           /\ SetErase(s, x) \subseteq Seq(UniqueIds)
           /\ Forget(s, x) \subseteq Seq(UniqueIds)
  <1>1. SetContains(s, x) \subseteq BOOLEAN
    BY DEF SetContains
  <1>2. SetInsert(s, x) \subseteq Seq(UniqueIds)
    <2>1. ASSUME NEW p \in upper_bound(s, x)
          PROVE  InsertAt(s, p, x) \in Seq(UniqueIds)
      <3>1. p \in 1..(Len(s) + 1)
        BY DEF upper_bound
      <3>2. QED BY <3>1, InsertAtIs
    <2>2. QED BY <2>1 DEF SetInsert
  <1>3. SetErase(s, x) \subseteq Seq(UniqueIds)
    <2>1. ASSUME NEW t \in SetErase(s, x) PROVE t \in Seq(UniqueIds)
      <3>1. PICK p \in lower_bound(s, x), q \in upper_bound(s, x) :
                    t = Without(s, p, q) /\ \E m \in p..(q - 1) : TRUE
        BY <2>1 DEF SetErase, Without
      <3>2. p \in 1..(Len(s) + 1) /\ q \in p..(Len(s) + 1)
        BY <3>1 DEF lower_bound, upper_bound
      <3>3. QED BY <3>1, <3>2, WithoutIs
    <2>2. QED BY <2>1
  <1>4. QED BY <1>1, <1>2, <1>3 DEF Forget

\* An id of the tree is found, and is what erase takes.
LEMMA ForgetOne ==
    ASSUME NEW s, Chain(s), NEW k \in 1..Len(s), NEW t \in Forget(s, s[k])
    PROVE  Chain(t) /\ ToSet(t) = ToSet(s) \ {s[k]}
  <1> DEFINE x == s[k]
  <1>1. /\ s \in Seq(UniqueIds) /\ Len(s) \in Nat /\ x \in UniqueIds /\ k \in Nat
        /\ \A p \in 1..Len(s) : s[p] \in UniqueIds
    BY DEF Chain
  <1>2. Compare(x, x) = Equal
    BY <1>1, SelfIsEqual
  <1>3. ASSUME NEW p \in 1..Len(s)
        PROVE  /\ Compare(s[p], x) = Less <=> p < k
               /\ Compare(x, s[p]) = Less <=> p > k
    <2>1. Opposite(Compare(s[p], x), Compare(x, s[p]))
      BY <1>1, ComparesAreOpposite
    <2>2. p < k => Compare(s[p], x) = Less
      BY DEF Chain
    <2>3. p > k => Compare(x, s[p]) = Less
      BY DEF Chain
    <2>4. p < k \/ p = k \/ p > k
      OBVIOUS
    <2>5. p < k => ~(p > k) /\ p # k
      BY <1>1
    <2>6. p > k => ~(p < k) /\ p # k
      BY <1>1
    <2>7. p = k => ~(p < k) /\ ~(p > k)
      BY <1>1
    <2>8. p = k => Compare(s[p], x) # Less /\ Compare(x, s[p]) # Less
      BY <1>2 DEF Equal, Less
    <2>9. ~(Compare(s[p], x) = Less /\ Compare(x, s[p]) = Less)
      BY <2>1 DEF Opposite, Less, Greater, Equal
    <2>10. QED BY <2>2, <2>3, <2>4, <2>5, <2>6, <2>7, <2>8, <2>9
  <1> HIDE DEF x
  <1>4. ASSUME NEW p \in lower_bound(s, x) PROVE p = k
    <2>1. /\ p \in 1..(Len(s) + 1)
          /\ p > 1 => Compare(s[p - 1], x) = Less
          /\ p <= Len(s) => Compare(s[p], x) # Less
      BY DEF lower_bound
    <2>2. CASE p > 1
      <3>1. p - 1 \in 1..Len(s)
        BY <1>1, <2>1, <2>2
      <3>2. p - 1 < k
        BY <1>3, <2>1, <2>2, <3>1
      <3>3. p <= Len(s) => ~(p < k)
        BY <1>3, <2>1, <3>1
      <3>4. QED BY <1>1, <2>1, <3>2, <3>3
    <2>3. CASE p = 1
      <3>1. 1 \in 1..Len(s) /\ ~(1 < k)
        BY <1>1, <1>3, <2>1, <2>3
      <3>2. QED BY <1>1, <2>3, <3>1
    <2>4. QED BY <1>1, <2>1, <2>2, <2>3
  <1>5. ASSUME NEW q \in upper_bound(s, x) PROVE q = k + 1
    <2>1. /\ q \in 1..(Len(s) + 1)
          /\ q > 1 => Compare(x, s[q - 1]) # Less
          /\ q <= Len(s) => Compare(x, s[q]) = Less
      BY DEF upper_bound
    <2>2. CASE q > 1
      <3>1. q - 1 \in 1..Len(s)
        BY <1>1, <2>1, <2>2
      <3>2. ~(q - 1 > k)
        BY <1>3, <2>1, <2>2, <3>1
      <3>3. q <= Len(s) => q > k
        BY <1>3, <2>1, <3>1
      <3>4. QED BY <1>1, <2>1, <3>2, <3>3
    <2>3. CASE q = 1
      <3>1. 1 \in 1..Len(s)
        BY <1>1
      <3>2. 1 > k
        BY <1>3, <2>1, <2>3, <3>1
      <3>3. QED BY <1>1, <3>2
    <2>4. QED BY <1>1, <2>1, <2>2, <2>3
  <1>6. \A found \in SetContains(s, x) : found
    <2>1. k <= Len(s) /\ Compare(x, s[k]) # Less
      BY <1>1, <1>2 DEF x, Equal, Less
    <2>2. QED BY <1>4, <2>1 DEF SetContains
  <1>7. t \in SetErase(s, x)
    BY <1>6 DEF Forget, x
  <1>8. t = Without(s, k, k + 1)
    <2>1. PICK p \in lower_bound(s, x), q \in upper_bound(s, x) : t = Without(s, p, q)
      BY <1>7 DEF SetErase, Without
    <2>2. QED BY <1>4, <1>5, <2>1
  <1>9. /\ t \in Seq(UniqueIds) /\ Len(t) = Len(s) - 1
        /\ \A n \in 1..(Len(s) - 1) : t[n] = IF n < k THEN s[n] ELSE s[n + 1]
    <2>1. PICK q : q = k + 1
      OBVIOUS
    <2>2. k \in 1..(Len(s) + 1) /\ q \in k..(Len(s) + 1) /\ q - k = 1
      BY <1>1, <2>1
    <2>3. /\ Without(s, k, q) \in Seq(UniqueIds) /\ Len(Without(s, k, q)) = Len(s) - (q - k)
          /\ \A n \in 1..(Len(s) - (q - k)) :
                Without(s, k, q)[n] = IF n < k THEN s[n] ELSE s[n + (q - k)]
      <3>1. s \in Seq(UniqueIds)
        BY <1>1
      <3>2. k \in 1..(Len(s) + 1) /\ q \in k..(Len(s) + 1)
        BY <2>2
      <3>3. QED BY <3>1, <3>2, WithoutIs
    <2>4. QED BY <1>8, <2>1, <2>2, <2>3
  <1>10. Chain(t)
    <2>1. SUFFICES ASSUME NEW p \in 1..Len(t), NEW q \in 1..Len(t), p < q
                   PROVE  Compare(t[p], t[q]) = Less
      BY <1>9 DEF Chain
    <2>2. PICK a \in 1..Len(s) : a = IF p < k THEN p ELSE p + 1
      BY <1>1, <1>9
    <2>3. PICK b \in 1..Len(s) : b = IF q < k THEN q ELSE q + 1
      BY <1>1, <1>9
    <2>4. t[p] = s[a] /\ t[q] = s[b] /\ a < b
      BY <1>1, <1>9, <2>1, <2>2, <2>3
    <2>5. QED BY <2>4 DEF Chain
  <1>11. ToSet(t) = ToSet(s) \ {x}
    <2>1. DOMAIN t = 1..Len(t) /\ DOMAIN s = 1..Len(s)
      BY <1>1, <1>9
    <2>2. ASSUME NEW n \in 1..Len(t) PROVE t[n] \in ToSet(s) \ {x}
      <3>1. PICK a \in 1..Len(s) : a = (IF n < k THEN n ELSE n + 1) /\ t[n] = s[a] /\ a # k
        BY <1>1, <1>9
      <3>2. Compare(s[a], x) = Less \/ Compare(x, s[a]) = Less
        BY <1>1, <1>3, <3>1
      <3>3. s[a] # x
        BY <1>2, <3>2 DEF Equal, Less
      <3>4. QED BY <2>1, <3>1, <3>3 DEF ToSet
    <2>3. ASSUME NEW a \in 1..Len(s), s[a] # x PROVE s[a] \in ToSet(t)
      <3>1. a # k
        BY <2>3 DEF x
      <3>2. PICK n \in 1..Len(t) : n = (IF a < k THEN a ELSE a - 1) /\ t[n] = s[a]
        BY <1>1, <1>9, <3>1
      <3>3. QED BY <2>1, <3>2 DEF ToSet
    <2>4. QED BY <2>1, <2>2, <2>3 DEF ToSet
  <1>12. QED BY <1>10, <1>11 DEF x

\* Ids that are put in an order
Ordered(S) ==
    /\ S \subseteq UniqueIds
    /\ \A a, b, c \in S : Compare(a, b) = Less /\ Compare(b, c) = Less => Compare(a, c) = Less

\* An id that is not found is equal to none.
LEMMA AbsentIs ==
    ASSUME NEW s, Chain(s), NEW x, Ordered(ToSet(s) \cup {x}), FALSE \in SetContains(s, x),
           NEW k \in 1..Len(s)
    PROVE  Compare(s[k], x) # Equal
  <1>1. /\ s \in Seq(UniqueIds) /\ Len(s) \in Nat /\ x \in UniqueIds /\ DOMAIN s = 1..Len(s)
        /\ \A p \in 1..Len(s) : s[p] \in UniqueIds /\ s[p] \in ToSet(s) \cup {x}
    BY DEF Chain, Ordered, ToSet
  <1>2. PICK p \in lower_bound(s, x) : ~(p <= Len(s) /\ Compare(x, s[p]) # Less)
    BY DEF SetContains
  <1>3. /\ p \in 1..(Len(s) + 1)
        /\ p > 1 => Compare(s[p - 1], x) = Less
        /\ p <= Len(s) => Compare(x, s[p]) = Less
    BY <1>2 DEF lower_bound
  <1>4. Less # Equal /\ Greater # Equal
    BY DEF Less, Greater, Equal
  <1>5. CASE k < p
    <2>1. p - 1 \in 1..Len(s) /\ p > 1 /\ (k = p - 1 \/ k < p - 1)
      BY <1>1, <1>3, <1>5
    <2>2. k < p - 1 => Compare(s[k], s[p - 1]) = Less
      BY <2>1 DEF Chain
    <2>3. Compare(s[k], x) = Less
      BY <1>1, <1>3, <2>1, <2>2 DEF Ordered
    <2>4. QED BY <1>4, <2>3
  <1>6. CASE k >= p
    <2>1. p \in 1..Len(s) /\ p <= Len(s) /\ (k = p \/ p < k)
      BY <1>1, <1>3, <1>6
    <2>2. p < k => Compare(s[p], s[k]) = Less
      BY <2>1 DEF Chain
    <2>3. Compare(x, s[k]) = Less
      BY <1>1, <1>3, <2>1, <2>2 DEF Ordered
    <2>4. Opposite(Compare(s[k], x), Compare(x, s[k]))
      BY <1>1, ComparesAreOpposite
    <2>5. QED BY <1>4, <2>3, <2>4 DEF Opposite
  <1>7. k < p \/ k >= p
    BY <1>1, <1>3
  <1>8. QED BY <1>5, <1>6, <1>7

\* An id that is equal to none is inserted.
LEMMA InsertNew ==
    ASSUME NEW s, Chain(s), NEW x, Ordered(ToSet(s) \cup {x}),
           \A k \in 1..Len(s) : Compare(s[k], x) # Equal, NEW t \in SetInsert(s, x)
    PROVE  Chain(t) /\ ToSet(t) = ToSet(s) \cup {x}
  <1>1. /\ s \in Seq(UniqueIds) /\ Len(s) \in Nat /\ x \in UniqueIds /\ DOMAIN s = 1..Len(s)
        /\ \A p \in 1..Len(s) : s[p] \in UniqueIds /\ s[p] \in ToSet(s) \cup {x}
    BY DEF Chain, Ordered, ToSet
  <1>2. PICK p \in upper_bound(s, x) :
           t = IF p > 1 /\ Compare(s[p - 1], x) # Less THEN s ELSE InsertAt(s, p, x)
    BY DEF SetInsert
  <1>3. /\ p \in 1..(Len(s) + 1)
        /\ p > 1 => Compare(x, s[p - 1]) # Less
        /\ p <= Len(s) => Compare(x, s[p]) = Less
    BY <1>2 DEF upper_bound
  <1>4. p > 1 => p - 1 \in 1..Len(s)
    BY <1>1, <1>3
  <1>5. p > 1 => Compare(s[p - 1], x) = Less
    <2>1. SUFFICES ASSUME p > 1 PROVE Compare(s[p - 1], x) = Less
      OBVIOUS
    <2>2. Opposite(Compare(s[p - 1], x), Compare(x, s[p - 1]))
      BY <1>1, <1>4, <2>1, ComparesAreOpposite
    <2>3. Compare(s[p - 1], x) # Equal
      BY <1>4, <2>1
    <2>4. QED BY <1>3, <2>1, <2>2, <2>3 DEF Opposite
  <1>6. t = InsertAt(s, p, x)
    BY <1>2, <1>5
  <1>7. /\ t \in Seq(UniqueIds) /\ Len(t) = Len(s) + 1
        /\ \A q \in 1..(Len(s) + 1) : t[q] = IF q < p THEN s[q] ELSE IF q = p THEN x ELSE s[q - 1]
    <2>1. InsertAt(s, p, x) \in Seq(UniqueIds) /\ Inserted(InsertAt(s, p, x), s, p, x)
      <3>1. s \in Seq(UniqueIds) /\ x \in UniqueIds /\ p \in 1..(Len(s) + 1)
        BY <1>1, <1>3
      <3>2. QED BY <3>1, InsertAtIs
    <2>2. QED BY <1>6, <2>1 DEF Inserted
  <1>8. ASSUME NEW k \in 1..Len(s), k < p PROVE Compare(s[k], x) = Less
    <2>1. p - 1 \in 1..Len(s) /\ p > 1 /\ (k = p - 1 \/ k < p - 1)
      BY <1>1, <1>3, <1>8
    <2>2. k < p - 1 => Compare(s[k], s[p - 1]) = Less
      BY <2>1 DEF Chain
    <2>3. QED BY <1>1, <1>5, <2>1, <2>2 DEF Ordered
  <1>9. ASSUME NEW k \in 1..Len(s), k >= p PROVE Compare(x, s[k]) = Less
    <2>1. p \in 1..Len(s) /\ p <= Len(s) /\ (k = p \/ p < k)
      BY <1>1, <1>3, <1>9
    <2>2. p < k => Compare(s[p], s[k]) = Less
      BY <2>1 DEF Chain
    <2>3. QED BY <1>1, <1>3, <2>1, <2>2 DEF Ordered
  <1>10. Chain(t)
    <2>1. SUFFICES ASSUME NEW m \in 1..Len(t), NEW n \in 1..Len(t), m < n
                   PROVE  Compare(t[m], t[n]) = Less
      BY <1>7 DEF Chain
    <2>2. CASE m < p /\ n < p
      <3>1. m \in 1..Len(s) /\ n \in 1..Len(s) /\ t[m] = s[m] /\ t[n] = s[n]
        BY <1>1, <1>3, <1>7, <2>2
      <3>2. QED BY <2>1, <3>1 DEF Chain
    <2>3. CASE m < p /\ n = p
      <3>1. m \in 1..Len(s) /\ t[m] = s[m] /\ t[n] = x
        BY <1>1, <1>3, <1>7, <2>3
      <3>2. QED BY <1>8, <2>3, <3>1
    <2>4. CASE m < p /\ n > p
      <3>1. m \in 1..Len(s) /\ n - 1 \in 1..Len(s) /\ t[m] = s[m] /\ t[n] = s[n - 1] /\ m < n - 1
        BY <1>1, <1>3, <1>7, <2>4
      <3>2. QED BY <3>1 DEF Chain
    <2>5. CASE m = p
      <3>1. n - 1 \in 1..Len(s) /\ t[m] = x /\ t[n] = s[n - 1] /\ n - 1 >= p
        BY <1>1, <1>3, <1>7, <2>1, <2>5
      <3>2. QED BY <1>9, <3>1
    <2>6. CASE m > p
      <3>1. /\ m - 1 \in 1..Len(s) /\ n - 1 \in 1..Len(s) /\ m - 1 < n - 1
            /\ t[m] = s[m - 1] /\ t[n] = s[n - 1]
        BY <1>1, <1>3, <1>7, <2>1, <2>6
      <3>2. QED BY <3>1 DEF Chain
    <2>7. m < p \/ m = p \/ m > p
      BY <1>1, <1>3, <1>7
    <2>8. n < p \/ n = p \/ n > p
      BY <1>1, <1>3, <1>7
    <2>9. QED BY <2>2, <2>3, <2>4, <2>5, <2>6, <2>7, <2>8
  <1>11. ToSet(t) = ToSet(s) \cup {x}
    <2>1. DOMAIN t = 1..Len(t)
      BY <1>7
    <2>2. ASSUME NEW n \in 1..Len(t) PROVE t[n] \in ToSet(s) \cup {x}
      <3>1. t[n] = x \/ \E a \in 1..Len(s) : t[n] = s[a]
        <4>1. CASE n < p
          BY <1>1, <1>3, <1>7, <4>1
        <4>2. CASE n = p
          BY <1>1, <1>3, <1>7, <4>2
        <4>3. CASE n > p
          <5>1. n - 1 \in 1..Len(s) /\ t[n] = s[n - 1]
            BY <1>1, <1>3, <1>7, <4>3
          <5>2. QED BY <5>1
        <4>4. n < p \/ n = p \/ n > p
          BY <1>3, <1>7
        <4>5. QED BY <4>1, <4>2, <4>3, <4>4
      <3>2. QED BY <1>1, <3>1 DEF ToSet
    <2>3. ASSUME NEW a \in 1..Len(s) PROVE s[a] \in ToSet(t)
      <3>1. PICK n \in 1..Len(t) : n = IF a < p THEN a ELSE a + 1
        BY <1>1, <1>7
      <3>2. t[n] = s[a]
        <4>1. CASE a < p
          BY <1>7, <3>1, <4>1
        <4>2. CASE ~(a < p)
          <5>1. n = a + 1 /\ ~(n < p) /\ n # p /\ n - 1 = a
            BY <1>3, <3>1, <4>2
          <5>2. QED BY <1>7, <5>1
        <4>3. QED BY <4>1, <4>2
      <3>3. QED BY <2>1, <3>2 DEF ToSet
    <2>4. x \in ToSet(t)
      <3>1. p \in 1..Len(t) /\ t[p] = x
        BY <1>1, <1>3, <1>7
      <3>2. QED BY <2>1, <3>1 DEF ToSet
    <2>5. QED BY <1>1, <2>1, <2>2, <2>3, <2>4 DEF ToSet
  <1>12. QED BY <1>10, <1>11

-----------------------------------------------------------------------------
(* The keys in order, and the ids of some.                                 *)

InKeyOrder(ks, keys) ==
    /\ ks \in [1..Cardinality(keys) -> keys]
    /\ ToSet(ks) = keys /\ \A m, n \in DOMAIN ks : m < n => ks[m] < ks[n]

LEMMA OrdersExist == \A keys \in SUBSET Key : \E ks : InKeyOrder(ks, keys)
  <1> DEFINE K == {n \in Nat : \A keys \in SUBSET Key : Cardinality(keys) = n =>
                                    \E ks : InKeyOrder(ks, keys)}
  <1>1. \A keys \in SUBSET Key : IsFiniteSet(keys) /\ Cardinality(keys) \in Nat
    BY FS_Subset, FS_CardinalityType DEF RegistryAssumption
  <1>2. 0 \in K
    <2>1. SUFFICES ASSUME NEW keys \in SUBSET Key, Cardinality(keys) = 0
                   PROVE  \E ks : InKeyOrder(ks, keys)
      OBVIOUS
    <2>2. keys = {}
      BY <1>1, <2>1, FS_EmptySet
    <2> DEFINE ks == [n \in 1..Cardinality(keys) |-> n]
    <2>3. DOMAIN ks = {} /\ ks \in [1..Cardinality(keys) -> keys]
      BY <2>1
    <2> HIDE DEF ks
    <2>4. InKeyOrder(ks, keys)
      BY <2>2, <2>3 DEF InKeyOrder, ToSet
    <2>5. QED BY <2>4
  <1>3. ASSUME NEW n \in K PROVE n + 1 \in K
    <2>1. SUFFICES ASSUME NEW keys \in SUBSET Key, Cardinality(keys) = n + 1
                   PROVE  \E ks : InKeyOrder(ks, keys)
      OBVIOUS
    <2>2. n \in Nat /\ keys \subseteq Nat /\ keys # {}
      BY <1>1, <2>1, FS_EmptySet DEF RegistryAssumption
    <2>3. PICK k \in keys : \A m \in keys : k <= m
      BY <2>2, LeastNat
    <2> DEFINE rest == keys \ {k}
    <2>4. Cardinality(rest) = n /\ rest \in SUBSET Key
      <3>1. IsFiniteSet(keys) /\ Cardinality(keys) = n + 1
        BY <1>1, <2>1
      <3>2. Cardinality(rest) = Cardinality(keys) - 1
        BY <2>3, <3>1, FS_RemoveElement
      <3>3. Cardinality(rest) = n
        BY <2>2, <3>1, <3>2
      <3>4. QED BY <2>1, <3>3
    <2>5. PICK l : InKeyOrder(l, rest)
      BY <2>4
    <2>6. l \in [1..n -> rest] /\ ToSet(l) = rest /\ DOMAIN l = 1..n
          /\ \A i, j \in 1..n : i < j => l[i] < l[j]
      BY <2>4, <2>5 DEF InKeyOrder
    <2> DEFINE ks == [i \in 1..(n + 1) |-> IF i = 1 THEN k ELSE l[i - 1]]
    <2>7. ASSUME NEW i \in 1..(n + 1), i # 1
          PROVE  i - 1 \in 1..n /\ ks[i] = l[i - 1] /\ l[i - 1] \in rest
      BY <2>2, <2>6, <2>7
    <2>8. 1 \in 1..(n + 1) /\ ks[1] = k
      BY <2>2
    <2>9. DOMAIN ks = 1..(n + 1)
      OBVIOUS
    <2>10. ks \in [1..(n + 1) -> keys]
      <3>1. \A i \in 1..(n + 1) : ks[i] \in keys
        BY <2>7, <2>8
      <3>2. QED BY <3>1
    <2>11. \A i \in 1..n : i + 1 \in 1..(n + 1) /\ i + 1 # 1 /\ ks[i + 1] = l[i]
      BY <2>2
    <2> HIDE DEF ks
    <2>12. ToSet(ks) = keys
      <3>1. ToSet(ks) \subseteq keys
        BY <2>9, <2>10 DEF ToSet
      <3>2. ASSUME NEW m \in rest PROVE m \in ToSet(ks)
        <4>1. PICK i \in 1..n : m = l[i]
          BY <2>6 DEF ToSet
        <4>2. QED BY <2>9, <2>11, <4>1 DEF ToSet
      <3>3. k \in ToSet(ks)
        BY <2>8, <2>9 DEF ToSet
      <3>4. QED BY <3>1, <3>2, <3>3
    <2>13. ASSUME NEW i \in 1..(n + 1), NEW j \in 1..(n + 1), i < j PROVE ks[i] < ks[j]
      <3>1. j # 1 /\ j - 1 \in 1..n /\ ks[j] = l[j - 1] /\ ks[j] \in rest
        BY <2>2, <2>7, <2>13
      <3>2. CASE i = 1
        <4>1. ks[i] = k /\ ks[j] \in keys /\ ks[j] # k
          BY <2>8, <3>1, <3>2
        <4>2. k <= ks[j] /\ k \in Nat /\ ks[j] \in Nat
          BY <2>2, <2>3, <4>1
        <4>3. QED BY <4>1, <4>2
      <3>3. CASE i # 1
        BY <2>2, <2>6, <2>7, <2>13, <3>1, <3>3
      <3>4. QED BY <3>2, <3>3
    <2>14. InKeyOrder(ks, keys)
      BY <2>1, <2>9, <2>10, <2>12, <2>13 DEF InKeyOrder
    <2>15. QED BY <2>14
  <1>4. K = Nat
    BY <1>2, <1>3, Induct
  <1>5. QED BY <1>1, <1>4

LEMMA InOrderIs ==
    ASSUME NEW keys \in SUBSET Key
    PROVE  /\ InOrder(keys) \in Seq(keys) /\ ToSet(InOrder(keys)) = keys
           /\ IsInjective(InOrder(keys))
  <1>1. \E ks : InKeyOrder(ks, keys)
    BY OrdersExist
  <1>2. InKeyOrder(InOrder(keys), keys)
    BY <1>1 DEF InOrder, InKeyOrder
  <1>3. Cardinality(keys) \in Nat /\ keys \subseteq Nat
    BY FS_Subset, FS_CardinalityType DEF RegistryAssumption
  <1>4. PICK ks : ks = InOrder(keys)
    OBVIOUS
  <1>5. /\ ks \in [1..Cardinality(keys) -> keys] /\ ToSet(ks) = keys
        /\ \A m, n \in 1..Cardinality(keys) : m < n => ks[m] < ks[n]
    BY <1>2, <1>4 DEF InKeyOrder
  <1>6. ks \in Seq(keys)
    BY <1>3, <1>5
  <1>7. ASSUME NEW m \in DOMAIN ks, NEW n \in DOMAIN ks, ks[m] = ks[n] PROVE m = n
    <2>1. m \in 1..Cardinality(keys) /\ n \in 1..Cardinality(keys) /\ ks[m] \in Nat
      BY <1>3, <1>5
    <2>2. ~(m < n) /\ ~(n < m)
      BY <1>5, <1>7, <2>1
    <2>3. QED BY <1>3, <2>1, <2>2
  <1>8. QED BY <1>4, <1>5, <1>6, <1>7 DEF IsInjective

\* No two keys have the same id.
OneEach(map, keys) == \A j, k \in keys : map[j] = map[k] => j = k

\* The ids of keys that have different ones are a list of different ids.
LEMMA IdsOfIs ==
    ASSUME NEW map, NEW keys \in SUBSET Key, \A k \in keys : map[k] \in UniqueIds
    PROVE  /\ IdsOf(map, keys) \in Seq(UniqueIds)
           /\ ToSet(IdsOf(map, keys)) = {map[k] : k \in keys}
           /\ OneEach(map, keys) => IsInjective(IdsOf(map, keys))
  <1>1. PICK ks : ks = InOrder(keys)
    OBVIOUS
  <1>2. ks \in Seq(keys) /\ ToSet(ks) = keys /\ IsInjective(ks)
    BY <1>1, InOrderIs
  <1>3. DOMAIN ks = 1..Len(ks) /\ Len(ks) \in Nat /\ \A n \in 1..Len(ks) : ks[n] \in keys
    BY <1>2
  <1>4. PICK l : l = [n \in DOMAIN ks |-> map[ks[n]]]
    OBVIOUS
  <1>5. l \in Seq(UniqueIds) /\ DOMAIN l = 1..Len(ks) /\ \A n \in 1..Len(ks) : l[n] = map[ks[n]]
    <2>1. l \in [1..Len(ks) -> UniqueIds]
      BY <1>3, <1>4
    <2>2. QED BY <1>3, <1>4, <2>1
  <1>6. ASSUME OneEach(map, keys) PROVE IsInjective(l)
    <2>1. \A m, n \in 1..Len(ks) : ks[m] = ks[n] => m = n
      BY <1>2, <1>3 DEF IsInjective
    <2>2. ASSUME NEW m \in 1..Len(ks), NEW n \in 1..Len(ks), l[m] = l[n] PROVE m = n
      <3>1. ks[m] \in keys /\ ks[n] \in keys /\ map[ks[m]] = map[ks[n]]
        BY <1>3, <1>5, <2>2
      <3>2. QED BY <1>6, <2>1, <3>1 DEF OneEach
    <2>3. QED BY <1>5, <2>2 DEF IsInjective
  <1>7. ToSet(l) = {map[k] : k \in keys}
    <2>1. ASSUME NEW k \in keys PROVE map[k] \in ToSet(l)
      <3>1. PICK n \in 1..Len(ks) : ks[n] = k
        BY <1>2, <1>3 DEF ToSet
      <3>2. QED BY <1>5, <3>1 DEF ToSet
    <2>2. ASSUME NEW n \in 1..Len(ks) PROVE l[n] \in {map[k] : k \in keys}
      BY <1>3, <1>5
    <2>3. QED BY <1>5, <2>1, <2>2 DEF ToSet
  <1>8. IdsOf(map, keys) = l
    BY <1>1, <1>4 DEF IdsOf
  <1>9. QED BY <1>5, <1>6, <1>7, <1>8

-----------------------------------------------------------------------------
(* The folds.                                                              *)

LEMMA ForgetAllSteps ==
    ASSUME NEW s \in Seq(UniqueIds), NEW l \in Seq(UniqueIds)
    PROVE  \E h : /\ h[{}] = {s} /\ ForgetAll(s, l) = h[1..Len(l)]
                  /\ \A k \in 0..(Len(l) - 1) :
                        h[1..(k + 1)] = UNION {Forget(t, l[k + 1]) : t \in h[1..k]}
  <1> DEFINE A == SUBSET Seq(UniqueIds)
             Step(x, a) == UNION {Forget(t, a) : t \in x}
  <1>1. DOMAIN l = 1..Len(l) /\ Len(l) \in Nat
    OBVIOUS
  <1> DEFINE F == [x \in A \X (1..Len(l)) |-> Step(x[1], l[x[2]])]
             Is(g, p) == IF p = {} THEN {s} ELSE Step(g[p \ {Max(p)}], l[Max(p)])
  <1>2. ASSUME NEW x \in A, NEW n \in 1..Len(l) PROVE Step(x, l[n]) \in A
    <2>1. l[n] \in UniqueIds
      BY <1>1
    <2>2. \A t \in x : Forget(t, l[n]) \subseteq Seq(UniqueIds)
      BY <2>1, TreeTypes
    <2>3. QED BY <2>2
  <1>3. F \in [A \X (1..Len(l)) -> A]
    <2> HIDE DEF Step, A
    <2>1. QED BY <1>2
  <1>4. {s} \in A
    OBVIOUS
  <1>5. PICK g \in [SUBSET (1..Len(l)) -> A] :
           \A p \in SUBSET (1..Len(l)) :
              g[p] = IF p = {} THEN {s} ELSE F[<<g[p \ {Max(p)}], Max(p)>>]
    <2> HIDE DEF F, A
    <2>1. \E g \in [SUBSET (1..Len(l)) -> A] : Recursion(g, Len(l), {s}, F)
      BY <1>1, <1>3, <1>4, FoldExists
    <2>2. QED BY <2>1 DEF Recursion
  <1> HIDE DEF A
  <1>6. ASSUME NEW p \in SUBSET (1..Len(l)) PROVE g[p] = Is(g, p)
    <2>1. CASE p = {}
      BY <1>5, <2>1
    <2>2. CASE p # {}
      <3>1. Max(p) \in p
        BY <1>1, <2>2, MaxIs
      <3>2. Max(p) \in 1..Len(l) /\ g[p \ {Max(p)}] \in A
        BY <3>1
      <3> HIDE DEF Step
      <3>3. F[<<g[p \ {Max(p)}], Max(p)>>] = Step(g[p \ {Max(p)}], l[Max(p)])
        BY <3>2
      <3> HIDE DEF F
      <3>4. g[p] = F[<<g[p \ {Max(p)}], Max(p)>>]
        BY <1>5, <2>2
      <3>5. QED BY <2>2, <3>3, <3>4
    <2>3. QED BY <2>1, <2>2
  <1> HIDE DEF F
  <1>7. g = [p \in SUBSET (1..Len(l)) |-> Is(g, p)]
    <2> HIDE DEF Is
    <2>1. QED BY <1>5, <1>6
  <1>8. PICK h : h = CHOOSE i : i = [p \in SUBSET (1..Len(l)) |-> Is(i, p)]
    OBVIOUS
  <1>9. h = [p \in SUBSET (1..Len(l)) |-> Is(h, p)]
    BY <1>7, <1>8
  <1>10. ForgetAll(s, l) = h[1..Len(l)]
    BY <1>1, <1>8 DEF ForgetAll, FoldLeft, MapThenFoldSet
  <1>11. h[{}] = {s}
    BY <1>9
  <1>12. ASSUME NEW k \in 0..(Len(l) - 1) PROVE h[1..(k + 1)] = Step(h[1..k], l[k + 1])
    <2>1. k \in Nat /\ k + 1 \in 1..Len(l) /\ 1..(k + 1) \in SUBSET (1..Len(l))
      BY <1>1
    <2>2. Max(1..(k + 1)) = k + 1 /\ 1..(k + 1) # {} /\ (1..(k + 1)) \ {k + 1} = 1..k
      BY <2>1, UpTo
    <2> HIDE DEF Step
    <2>3. QED BY <1>9, <2>1, <2>2
  <1>13. QED BY <1>10, <1>11, <1>12

\* Ids that the tree has are taken from it.
LEMMA ForgetAllIs ==
    ASSUME NEW s, Chain(s), NEW l \in Seq(UniqueIds), IsInjective(l), ToSet(l) \subseteq ToSet(s),
           NEW t \in ForgetAll(s, l)
    PROVE  Chain(t) /\ ToSet(t) = ToSet(s) \ ToSet(l)
  <1>1. DOMAIN l = 1..Len(l) /\ Len(l) \in Nat /\ s \in Seq(UniqueIds)
    BY DEF Chain
  <1>2. PICK h : /\ h[{}] = {s} /\ ForgetAll(s, l) = h[1..Len(l)]
                 /\ \A k \in 0..(Len(l) - 1) :
                       h[1..(k + 1)] = UNION {Forget(r, l[k + 1]) : r \in h[1..k]}
    BY <1>1, ForgetAllSteps
  <1> DEFINE Good(r, k) == Chain(r) /\ ToSet(r) = ToSet(s) \ {l[j] : j \in 1..k}
             R == [k \in 0..Len(l) |-> SUBSET {r \in Seq(UniqueIds) : Good(r, k)}]
  <1>3. \A k \in 0..Len(l) : R[k] = SUBSET {r \in Seq(UniqueIds) : Good(r, k)}
    OBVIOUS
  <1>4. h[{}] \in R[0]
    <2>1. {l[j] : j \in 1..0} = {}
      OBVIOUS
    <2>2. Good(s, 0)
      BY <2>1
    <2>3. {s} \in R[0]
      BY <1>1, <2>2
    <2>4. QED BY <1>2, <2>3
  <1>5. ASSUME NEW k \in 0..(Len(l) - 1), h[1..k] \in R[k] PROVE h[1..(k + 1)] \in R[k + 1]
    <2>1. k \in 0..Len(l) /\ k + 1 \in 1..Len(l) /\ k + 1 \in 0..Len(l) /\ k \in Nat
      BY <1>1
    <2>2. ASSUME NEW r \in h[1..k], NEW u \in Forget(r, l[k + 1])
          PROVE  u \in Seq(UniqueIds) /\ Good(u, k + 1)
      <3>1. Chain(r) /\ ToSet(r) = ToSet(s) \ {l[j] : j \in 1..k}
        BY <1>3, <1>5, <2>1
      <3>2. \A j \in 1..k : l[j] # l[k + 1]
        BY <1>1, <2>1 DEF IsInjective
      <3>3. l[k + 1] \in ToSet(r)
        BY <1>1, <2>1, <3>1, <3>2 DEF ToSet
      <3>4. PICK m \in 1..Len(r) : r[m] = l[k + 1]
        BY <3>1, <3>3 DEF ToSet, Chain
      <3>5. Chain(u) /\ ToSet(u) = ToSet(r) \ {l[k + 1]}
        BY <2>2, <3>1, <3>4, ForgetOne
      <3>6. {l[j] : j \in 1..(k + 1)} = {l[j] : j \in 1..k} \cup {l[k + 1]}
        <4>1. 1..(k + 1) = (1..k) \cup {k + 1}
          BY <2>1
        <4>2. QED BY <4>1
      <3>7. QED BY <3>1, <3>5, <3>6 DEF Chain
    <2>3. h[1..(k + 1)] = UNION {Forget(r, l[k + 1]) : r \in h[1..k]}
      BY <1>2
    <2> HIDE DEF Good
    <2>4. h[1..(k + 1)] \in SUBSET {r \in Seq(UniqueIds) : Good(r, k + 1)}
      BY <2>2, <2>3
    <2>5. QED BY <1>3, <2>1, <2>4
  <1> HIDE DEF R
  <1>6. h[1..Len(l)] \in R[Len(l)]
    BY <1>1, <1>4, <1>5, FoldReaches
  <1>7. Len(l) \in 0..Len(l) /\ {l[j] : j \in 1..Len(l)} = ToSet(l)
    BY <1>1 DEF ToSet
  <1>8. Good(t, Len(l))
    <2> HIDE DEF Good
    <2>1. QED BY <1>2, <1>3, <1>6, <1>7
  <1>9. QED BY <1>7, <1>8

LEMMA ForgetAllTypes ==
    ASSUME NEW s \in Seq(UniqueIds), NEW l \in Seq(UniqueIds)
    PROVE  ForgetAll(s, l) \subseteq Seq(UniqueIds)
  <1>1. Len(l) \in Nat /\ \A k \in 0..(Len(l) - 1) : l[k + 1] \in UniqueIds
    OBVIOUS
  <1>2. PICK h : /\ h[{}] = {s} /\ ForgetAll(s, l) = h[1..Len(l)]
                 /\ \A k \in 0..(Len(l) - 1) :
                       h[1..(k + 1)] = UNION {Forget(r, l[k + 1]) : r \in h[1..k]}
    BY ForgetAllSteps
  <1> DEFINE R == [k \in 0..Len(l) |-> SUBSET Seq(UniqueIds)]
  <1>3. \A k \in 0..Len(l) : R[k] = SUBSET Seq(UniqueIds)
    OBVIOUS
  <1> HIDE DEF R
  <1>4. 0 \in 0..Len(l) /\ Len(l) \in 0..Len(l)
        /\ \A k \in 0..(Len(l) - 1) : k \in 0..Len(l) /\ k + 1 \in 0..Len(l)
    BY <1>1
  <1>5. h[{}] \in R[0]
    BY <1>2, <1>3, <1>4
  <1>6. ASSUME NEW k \in 0..(Len(l) - 1), h[1..k] \in R[k] PROVE h[1..(k + 1)] \in R[k + 1]
    <2>1. h[1..k] \in SUBSET Seq(UniqueIds) /\ l[k + 1] \in UniqueIds
      BY <1>1, <1>3, <1>4, <1>6
    <2>2. ASSUME NEW r \in h[1..k] PROVE Forget(r, l[k + 1]) \subseteq Seq(UniqueIds)
      <3>1. r \in Seq(UniqueIds)
        BY <2>1
      <3>2. QED BY <2>1, <3>1, TreeTypes
    <2>3. h[1..(k + 1)] = UNION {Forget(r, l[k + 1]) : r \in h[1..k]}
      BY <1>2
    <2>4. UNION {Forget(r, l[k + 1]) : r \in h[1..k]} \in SUBSET Seq(UniqueIds)
      BY <2>2
    <2>5. R[k + 1] = SUBSET Seq(UniqueIds)
      BY <1>3, <1>4
    <2>6. QED BY <2>3, <2>4, <2>5
  <1>7. h[1..Len(l)] \in R[Len(l)]
    BY <1>1, <1>5, <1>6, FoldReaches
  <1>8. h[1..Len(l)] \in SUBSET Seq(UniqueIds)
    BY <1>3, <1>4, <1>7
  <1>9. QED BY <1>2, <1>8

LEMMA InsertAllSteps ==
    ASSUME NEW s \in Seq(UniqueIds), NEW l \in Seq(UniqueIds)
    PROVE  \E h : /\ h[{}] = {s} /\ InsertAll(s, l) = h[1..Len(l)]
                  /\ \A k \in 0..(Len(l) - 1) :
                        h[1..(k + 1)] = UNION {SetInsert(t, l[k + 1]) : t \in h[1..k]}
  <1> DEFINE A == SUBSET Seq(UniqueIds)
             Step(x, a) == UNION {SetInsert(t, a) : t \in x}
  <1>1. DOMAIN l = 1..Len(l) /\ Len(l) \in Nat
    OBVIOUS
  <1> DEFINE F == [x \in A \X (1..Len(l)) |-> Step(x[1], l[x[2]])]
             Is(g, p) == IF p = {} THEN {s} ELSE Step(g[p \ {Max(p)}], l[Max(p)])
  <1>2. ASSUME NEW x \in A, NEW n \in 1..Len(l) PROVE Step(x, l[n]) \in A
    <2>1. l[n] \in UniqueIds
      BY <1>1
    <2>2. \A t \in x : SetInsert(t, l[n]) \subseteq Seq(UniqueIds)
      BY <2>1, TreeTypes
    <2>3. QED BY <2>2
  <1>3. F \in [A \X (1..Len(l)) -> A]
    <2> HIDE DEF Step, A
    <2>1. QED BY <1>2
  <1>4. {s} \in A
    OBVIOUS
  <1>5. PICK g \in [SUBSET (1..Len(l)) -> A] :
           \A p \in SUBSET (1..Len(l)) :
              g[p] = IF p = {} THEN {s} ELSE F[<<g[p \ {Max(p)}], Max(p)>>]
    <2> HIDE DEF F, A
    <2>1. \E g \in [SUBSET (1..Len(l)) -> A] : Recursion(g, Len(l), {s}, F)
      BY <1>1, <1>3, <1>4, FoldExists
    <2>2. QED BY <2>1 DEF Recursion
  <1> HIDE DEF A
  <1>6. ASSUME NEW p \in SUBSET (1..Len(l)) PROVE g[p] = Is(g, p)
    <2>1. CASE p = {}
      BY <1>5, <2>1
    <2>2. CASE p # {}
      <3>1. Max(p) \in p
        BY <1>1, <2>2, MaxIs
      <3>2. Max(p) \in 1..Len(l) /\ g[p \ {Max(p)}] \in A
        BY <3>1
      <3> HIDE DEF Step
      <3>3. F[<<g[p \ {Max(p)}], Max(p)>>] = Step(g[p \ {Max(p)}], l[Max(p)])
        BY <3>2
      <3> HIDE DEF F
      <3>4. g[p] = F[<<g[p \ {Max(p)}], Max(p)>>]
        BY <1>5, <2>2
      <3>5. QED BY <2>2, <3>3, <3>4
    <2>3. QED BY <2>1, <2>2
  <1> HIDE DEF F
  <1>7. g = [p \in SUBSET (1..Len(l)) |-> Is(g, p)]
    <2> HIDE DEF Is
    <2>1. QED BY <1>5, <1>6
  <1>8. PICK h : h = CHOOSE i : i = [p \in SUBSET (1..Len(l)) |-> Is(i, p)]
    OBVIOUS
  <1>9. h = [p \in SUBSET (1..Len(l)) |-> Is(h, p)]
    BY <1>7, <1>8
  <1>10. InsertAll(s, l) = h[1..Len(l)]
    BY <1>1, <1>8 DEF InsertAll, FoldLeft, MapThenFoldSet
  <1>11. h[{}] = {s}
    BY <1>9
  <1>12. ASSUME NEW k \in 0..(Len(l) - 1) PROVE h[1..(k + 1)] = Step(h[1..k], l[k + 1])
    <2>1. k \in Nat /\ k + 1 \in 1..Len(l) /\ 1..(k + 1) \in SUBSET (1..Len(l))
      BY <1>1
    <2>2. Max(1..(k + 1)) = k + 1 /\ 1..(k + 1) # {} /\ (1..(k + 1)) \ {k + 1} = 1..k
      BY <2>1, UpTo
    <2> HIDE DEF Step
    <2>3. QED BY <1>9, <2>1, <2>2
  <1>13. QED BY <1>10, <1>11, <1>12

LEMMA OrderedParts ==
    ASSUME NEW S, Ordered(S), NEW T \in SUBSET S
    PROVE  Ordered(T)
  BY DEF Ordered

\* Ids that are equal to none, nor to each other, are added to the tree.
LEMMA InsertAllIs ==
    ASSUME NEW s, Chain(s), NEW l \in Seq(UniqueIds), Ordered(ToSet(s) \cup ToSet(l)),
           \A a \in ToSet(s) : \A j \in 1..Len(l) : Compare(a, l[j]) # Equal,
           \A i, j \in 1..Len(l) : i < j => Compare(l[i], l[j]) # Equal,
           NEW t \in InsertAll(s, l)
    PROVE  Chain(t) /\ ToSet(t) = ToSet(s) \cup ToSet(l)
  <1>1. DOMAIN l = 1..Len(l) /\ Len(l) \in Nat /\ s \in Seq(UniqueIds)
    BY DEF Chain
  <1>2. PICK h : /\ h[{}] = {s} /\ InsertAll(s, l) = h[1..Len(l)]
                 /\ \A k \in 0..(Len(l) - 1) :
                       h[1..(k + 1)] = UNION {SetInsert(r, l[k + 1]) : r \in h[1..k]}
    BY <1>1, InsertAllSteps
  <1> DEFINE Good(r, k) == Chain(r) /\ ToSet(r) = ToSet(s) \cup {l[j] : j \in 1..k}
             R == [k \in 0..Len(l) |-> SUBSET {r \in Seq(UniqueIds) : Good(r, k)}]
  <1>3. \A k \in 0..Len(l) : R[k] = SUBSET {r \in Seq(UniqueIds) : Good(r, k)}
    OBVIOUS
  <1>4. h[{}] \in R[0]
    <2>1. {l[j] : j \in 1..0} = {}
      OBVIOUS
    <2>2. Good(s, 0)
      BY <2>1
    <2>3. {s} \in R[0]
      BY <1>1, <2>2
    <2>4. QED BY <1>2, <2>3
  <1>5. ASSUME NEW k \in 0..(Len(l) - 1), h[1..k] \in R[k] PROVE h[1..(k + 1)] \in R[k + 1]
    <2>1. k \in 0..Len(l) /\ k + 1 \in 1..Len(l) /\ k + 1 \in 0..Len(l) /\ k \in Nat
      BY <1>1
    <2>2. ASSUME NEW r \in h[1..k], NEW u \in SetInsert(r, l[k + 1])
          PROVE  u \in Seq(UniqueIds) /\ Good(u, k + 1)
      <3>1. Chain(r) /\ ToSet(r) = ToSet(s) \cup {l[j] : j \in 1..k}
        BY <1>3, <1>5, <2>1
      <3>2. ASSUME NEW m \in 1..Len(r) PROVE Compare(r[m], l[k + 1]) # Equal
        <4>1. r[m] \in ToSet(r)
          BY <3>1 DEF ToSet, Chain
        <4>2. r[m] \in ToSet(s) \/ \E j \in 1..k : r[m] = l[j]
          BY <3>1, <4>1
        <4>3. \A j \in 1..k : j \in 1..Len(l) /\ j < k + 1
          BY <1>1, <2>1
        <4>4. QED BY <2>1, <4>2, <4>3
      <3>3. ToSet(r) \cup {l[k + 1]} \in SUBSET (ToSet(s) \cup ToSet(l))
        <4>1. \A j \in 1..k : j \in 1..Len(l)
          BY <1>1, <2>1
        <4>2. QED BY <1>1, <2>1, <3>1, <4>1 DEF ToSet
      <3>4. Ordered(ToSet(r) \cup {l[k + 1]})
        BY <3>3, OrderedParts
      <3>5. Chain(u) /\ ToSet(u) = ToSet(r) \cup {l[k + 1]}
        BY <2>2, <3>1, <3>2, <3>4, InsertNew
      <3>6. {l[j] : j \in 1..(k + 1)} = {l[j] : j \in 1..k} \cup {l[k + 1]}
        <4>1. 1..(k + 1) = (1..k) \cup {k + 1}
          BY <2>1
        <4>2. QED BY <4>1
      <3>7. QED BY <3>1, <3>5, <3>6 DEF Chain
    <2>3. h[1..(k + 1)] = UNION {SetInsert(r, l[k + 1]) : r \in h[1..k]}
      BY <1>2
    <2> HIDE DEF Good
    <2>4. h[1..(k + 1)] \in SUBSET {r \in Seq(UniqueIds) : Good(r, k + 1)}
      BY <2>2, <2>3
    <2>5. QED BY <1>3, <2>1, <2>4
  <1> HIDE DEF R
  <1>6. h[1..Len(l)] \in R[Len(l)]
    BY <1>1, <1>4, <1>5, FoldReaches
  <1>7. Len(l) \in 0..Len(l) /\ {l[j] : j \in 1..Len(l)} = ToSet(l)
    BY <1>1 DEF ToSet
  <1>8. Good(t, Len(l))
    <2> HIDE DEF Good
    <2>1. QED BY <1>2, <1>3, <1>6, <1>7
  <1>9. QED BY <1>7, <1>8

-----------------------------------------------------------------------------
(* What an ingest session leaves behind.                                   *)

LEMMA SetToSeqIs ==
    ASSUME NEW S, IsFiniteSet(S)
    PROVE  SetToSeq(S) \in Seq(S) /\ ToSet(SetToSeq(S)) = S /\ IsInjective(SetToSeq(S))
  <1>1. Cardinality(S) \in Nat /\ ExistsBijection(1..Cardinality(S), S)
    BY FS_CardinalityType
  <1>2. PICK f : f \in Bijection(1..Cardinality(S), S)
    BY <1>1 DEF ExistsBijection
  <1>3. f \in [1..Cardinality(S) -> S] /\ IsInjective(f)
    BY <1>2 DEF Bijection, Injection, IsInjective
  <1>4. PICK l : l = SetToSeq(S)
    OBVIOUS
  <1>5. l \in [1..Cardinality(S) -> S] /\ IsInjective(l)
    BY <1>3, <1>4 DEF SetToSeq
  <1>6. l \in Injection(1..Cardinality(S), S)
    BY <1>5 DEF Injection, IsInjective
  <1>7. IsFiniteSet(1..Cardinality(S)) /\ Cardinality(1..Cardinality(S)) = Cardinality(S)
    BY <1>1, FS_Interval
  <1>8. l \in Surjection(1..Cardinality(S), S)
    BY <1>6, <1>7, FS_Injection
  <1>9. ToSet(l) = S
    BY <1>5, <1>8 DEF Surjection, ToSet
  <1>10. l \in Seq(S)
    BY <1>1, <1>5, SeqDef
  <1>11. QED BY <1>4, <1>5, <1>9, <1>10

ClearedInTurn(l) ==
    FoldLeft(LAMBDA sets, i : UNION {ClearedFrom(t, i) : t \in sets}, {ids}, l)
ClearedEach(sets, i) == UNION {ClearedFrom(t, i) : t \in sets}
Clearing(h, l) ==
    /\ h[{}] = {ids} /\ ClearedInTurn(l) = h[1..Len(l)]
    /\ \A k \in 0..(Len(l) - 1) : h[1..(k + 1)] = ClearedEach(h[1..k], l[k + 1])

\* The ids in the contexts of an ingest session
IdsIn(i) == {ing[i].ctx[k] : k \in Contexts(i)}

LEMMA ContextsAreIds ==
    ASSUME Types, NEW i \in Ingest
    PROVE  Contexts(i) \in SUBSET Key /\ \A k \in Contexts(i) : ing[i].ctx[k] \in UniqueIds
  BY DEF Types, IngestShape, Contexts

LEMMA ClearedFromTypes ==
    ASSUME Types, NEW i \in Ingest, NEW s \in Seq(UniqueIds)
    PROVE  ClearedFrom(s, i) \subseteq Seq(UniqueIds)
  <1>1. IdsOf(ing[i].ctx, Contexts(i)) \in Seq(UniqueIds)
    BY ContextsAreIds, IdsOfIs
  <1>2. QED BY <1>1, ForgetAllTypes DEF ClearedFrom

LEMMA ClearedFromIs ==
    ASSUME Types, NEW i \in Ingest, NEW s, Chain(s), OneEach(ing[i].ctx, Contexts(i)),
           IdsIn(i) \subseteq ToSet(s), NEW t \in ClearedFrom(s, i)
    PROVE  Chain(t) /\ ToSet(t) = ToSet(s) \ IdsIn(i)
  <1>1. PICK l : l = IdsOf(ing[i].ctx, Contexts(i))
    OBVIOUS
  <1>2. l \in Seq(UniqueIds) /\ ToSet(l) = IdsIn(i) /\ IsInjective(l)
    BY <1>1, ContextsAreIds, IdsOfIs DEF IdsIn
  <1>3. t \in ForgetAll(s, l)
    BY <1>1 DEF ClearedFrom
  <1>4. QED BY <1>2, <1>3, ForgetAllIs

LEMMA AllClearedSteps ==
    ASSUME Types, ids \in Seq(UniqueIds),
           NEW l \in Seq(Ingest)
    PROVE  \E h : Clearing(h, l)
  <1> DEFINE A == SUBSET Seq(UniqueIds)
             Step(x, a) == ClearedEach(x, a)
  <1>1. DOMAIN l = 1..Len(l) /\ Len(l) \in Nat
    OBVIOUS
  <1> DEFINE F == [x \in A \X (1..Len(l)) |-> Step(x[1], l[x[2]])]
             Is(g, p) == IF p = {} THEN {ids} ELSE Step(g[p \ {Max(p)}], l[Max(p)])
  <1>2. ASSUME NEW x \in A, NEW n \in 1..Len(l) PROVE Step(x, l[n]) \in A
    <2>1. l[n] \in Ingest
      BY <1>1
    <2>2. \A t \in x : ClearedFrom(t, l[n]) \subseteq Seq(UniqueIds)
      BY <2>1, ClearedFromTypes
    <2>3. QED BY <2>2 DEF ClearedEach
  <1>3. F \in [A \X (1..Len(l)) -> A]
    <2> HIDE DEF Step, A
    <2>1. QED BY <1>2
  <1>4. {ids} \in A
    OBVIOUS
  <1>5. PICK g \in [SUBSET (1..Len(l)) -> A] :
           \A p \in SUBSET (1..Len(l)) :
              g[p] = IF p = {} THEN {ids} ELSE F[<<g[p \ {Max(p)}], Max(p)>>]
    <2> HIDE DEF F, A
    <2>1. \E g \in [SUBSET (1..Len(l)) -> A] : Recursion(g, Len(l), {ids}, F)
      BY <1>1, <1>3, <1>4, FoldExists
    <2>2. QED BY <2>1 DEF Recursion
  <1> HIDE DEF A
  <1>6. ASSUME NEW p \in SUBSET (1..Len(l)) PROVE g[p] = Is(g, p)
    <2>1. CASE p = {}
      BY <1>5, <2>1
    <2>2. CASE p # {}
      <3>1. Max(p) \in p
        BY <1>1, <2>2, MaxIs
      <3>2. Max(p) \in 1..Len(l) /\ g[p \ {Max(p)}] \in A
        BY <3>1
      <3> HIDE DEF Step
      <3>3. F[<<g[p \ {Max(p)}], Max(p)>>] = Step(g[p \ {Max(p)}], l[Max(p)])
        BY <3>2
      <3> HIDE DEF F
      <3>4. g[p] = F[<<g[p \ {Max(p)}], Max(p)>>]
        BY <1>5, <2>2
      <3>5. QED BY <2>2, <3>3, <3>4
    <2>3. QED BY <2>1, <2>2
  <1> HIDE DEF F
  <1>7. g = [p \in SUBSET (1..Len(l)) |-> Is(g, p)]
    <2> HIDE DEF Is
    <2>1. QED BY <1>5, <1>6
  <1>8. PICK h : h = CHOOSE i : i = [p \in SUBSET (1..Len(l)) |-> Is(i, p)]
    OBVIOUS
  <1>9. h = [p \in SUBSET (1..Len(l)) |-> Is(h, p)]
    BY <1>7, <1>8
  <1>10. ClearedInTurn(l) = h[1..Len(l)]
    BY <1>1, <1>8 DEF ClearedInTurn, ClearedEach, FoldLeft, MapThenFoldSet
  <1>11. h[{}] = {ids}
    BY <1>9
  <1>12. ASSUME NEW k \in 0..(Len(l) - 1) PROVE h[1..(k + 1)] = Step(h[1..k], l[k + 1])
    <2>1. k \in Nat /\ k + 1 \in 1..Len(l) /\ 1..(k + 1) \in SUBSET (1..Len(l))
      BY <1>1
    <2>2. Max(1..(k + 1)) = k + 1 /\ 1..(k + 1) # {} /\ (1..(k + 1)) \ {k + 1} = 1..k
      BY <2>1, UpTo
    <2> HIDE DEF Step
    <2>3. QED BY <1>9, <2>1, <2>2
  <1>13. QED BY <1>10, <1>11, <1>12 DEF Clearing

\* The ids of ingest sessions that go together are taken from the tree.
LEMMA AllClearedIs ==
    ASSUME Types, Chain(ids), NEW is \in SUBSET Ingest,
           \A i \in is : OneEach(ing[i].ctx, Contexts(i)) /\ IdsIn(i) \subseteq ToSet(ids),
           \A i, j \in is : i # j => IdsIn(i) \cap IdsIn(j) = {},
           NEW t \in AllCleared(is)
    PROVE  Chain(t) /\ ToSet(t) = ToSet(ids) \ UNION {IdsIn(i) : i \in is}
  <1>1. PICK l : l = SetToSeq(is)
    OBVIOUS
  <1>2. IsFiniteSet(is)
    BY FS_Subset DEF RegistryAssumption
  <1>3. l \in Seq(is) /\ ToSet(l) = is /\ IsInjective(l)
    BY <1>1, <1>2, SetToSeqIs
  <1>4. /\ DOMAIN l = 1..Len(l) /\ Len(l) \in Nat /\ l \in Seq(Ingest) /\ ids \in Seq(UniqueIds)
        /\ \A n \in 1..Len(l) : l[n] \in is
        /\ \A m, n \in 1..Len(l) : l[m] = l[n] => m = n
    BY <1>3 DEF Chain, IsInjective
  <1>5. PICK h : Clearing(h, l)
    BY <1>4, AllClearedSteps
  <1>6. /\ h[{}] = {ids} /\ ClearedInTurn(l) = h[1..Len(l)]
        /\ \A k \in 0..(Len(l) - 1) : h[1..(k + 1)] = ClearedEach(h[1..k], l[k + 1])
    BY <1>5 DEF Clearing
  <1>7. t \in ClearedInTurn(l)
    BY <1>1 DEF AllCleared, ClearedInTurn
  <1> DEFINE Good(r, k) == Chain(r) /\ ToSet(r) = ToSet(ids) \ UNION {IdsIn(l[j]) : j \in 1..k}
             R == [k \in 0..Len(l) |-> SUBSET {r \in Seq(UniqueIds) : Good(r, k)}]
  <1>8. \A k \in 0..Len(l) : R[k] = SUBSET {r \in Seq(UniqueIds) : Good(r, k)}
    OBVIOUS
  <1>9. h[{}] \in R[0]
    <2>1. {IdsIn(l[j]) : j \in 1..0} = {}
      OBVIOUS
    <2>2. Good(ids, 0)
      BY <2>1
    <2>3. {ids} \in R[0]
      BY <1>4, <2>2
    <2>4. QED BY <1>6, <2>3
  <1>10. ASSUME NEW k \in 0..(Len(l) - 1), h[1..k] \in R[k] PROVE h[1..(k + 1)] \in R[k + 1]
    <2>1. k \in 0..Len(l) /\ k + 1 \in 1..Len(l) /\ k + 1 \in 0..Len(l) /\ k \in Nat
      BY <1>4
    <2>2. ASSUME NEW r \in h[1..k], NEW u \in ClearedFrom(r, l[k + 1])
          PROVE  u \in Seq(UniqueIds) /\ Good(u, k + 1)
      <3>1. Chain(r) /\ ToSet(r) = ToSet(ids) \ UNION {IdsIn(l[j]) : j \in 1..k}
        BY <1>8, <1>10, <2>1
      <3>2. l[k + 1] \in is /\ \A j \in 1..k : l[j] \in is /\ l[j] # l[k + 1]
        <4>1. \A j \in 1..k : j \in 1..Len(l) /\ j # k + 1
          BY <1>4, <2>1
        <4>2. QED BY <1>4, <2>1, <4>1
      <3>3. IdsIn(l[k + 1]) \subseteq ToSet(r)
        BY <3>1, <3>2
      <3>4. Chain(u) /\ ToSet(u) = ToSet(r) \ IdsIn(l[k + 1])
        <4>1. l[k + 1] \in Ingest /\ OneEach(ing[l[k + 1]].ctx, Contexts(l[k + 1]))
          BY <3>2
        <4>2. QED BY <2>2, <3>1, <3>3, <4>1, ClearedFromIs
      <3>5. UNION {IdsIn(l[j]) : j \in 1..(k + 1)} = (UNION {IdsIn(l[j]) : j \in 1..k})
                                                  \cup IdsIn(l[k + 1])
        <4>1. 1..(k + 1) = (1..k) \cup {k + 1}
          BY <2>1
        <4>2. QED BY <4>1
      <3>6. QED BY <3>1, <3>4, <3>5 DEF Chain
    <2>3. h[1..(k + 1)] = UNION {ClearedFrom(r, l[k + 1]) : r \in h[1..k]}
      BY <1>6 DEF ClearedEach
    <2> HIDE DEF Good
    <2>4. h[1..(k + 1)] \in SUBSET {r \in Seq(UniqueIds) : Good(r, k + 1)}
      BY <2>2, <2>3
    <2>5. QED BY <1>8, <2>1, <2>4
  <1> HIDE DEF R
  <1>11. h[1..Len(l)] \in R[Len(l)]
    BY <1>4, <1>9, <1>10, FoldReaches
  <1>12. Len(l) \in 0..Len(l) /\ UNION {IdsIn(l[j]) : j \in 1..Len(l)} = UNION {IdsIn(i) : i \in is}
    <2>1. is = {l[j] : j \in 1..Len(l)}
      BY <1>3, <1>4 DEF ToSet
    <2>2. QED BY <1>4, <2>1
  <1>13. Good(t, Len(l))
    <2> HIDE DEF Good
    <2>1. QED BY <1>6, <1>8, <1>11, <1>12, <1>7
  <1>14. QED BY <1>12, <1>13

-----------------------------------------------------------------------------
(* The new keys of a PUT.                                                  *)

Taken == [set: Seq(UniqueIds), keys: SUBSET Key, refused: BOOLEAN]
TakeEach(rs, map, k) == UNION {Take(r, map, k) : r \in rs}
NoneTaken(s) == [set |-> s, keys |-> {}, refused |-> FALSE]

Adding(h, s, map, l) ==
    /\ h[{}] = {NoneTaken(s)} /\ AddNew(s, map, l) = h[1..Len(l)]
    /\ \A k \in 0..(Len(l) - 1) : h[1..(k + 1)] = TakeEach(h[1..k], map, l[k + 1])

\* The results of taking a key
LEMMA TakeIs ==
    ASSUME NEW r \in Taken, NEW map, NEW k \in Key, NEW u \in Take(r, map, k)
    PROVE  \/ r.refused /\ u = r
           \/ /\ ~r.refused /\ TRUE \in SetContains(r.set, map[k])
              /\ u.set = r.set /\ u.keys = r.keys /\ u.refused
           \/ /\ ~r.refused /\ FALSE \in SetContains(r.set, map[k])
              /\ u.set \in SetInsert(r.set, map[k]) /\ u.keys = r.keys \cup {k} /\ ~u.refused
  <1>1. CASE r.refused
    BY <1>1 DEF Take
  <1>2. CASE ~r.refused
    <2>1. PICK found \in SetContains(r.set, map[k]) :
             u \in IF found THEN {[r EXCEPT !.refused = TRUE]}
                   ELSE {[r EXCEPT !.set = t, !.keys = @ \cup {k}] : t \in SetInsert(r.set, map[k])}
      BY <1>2 DEF Take
    <2>2. CASE found
      <3>1. u = [r EXCEPT !.refused = TRUE] /\ TRUE \in SetContains(r.set, map[k])
        <4>1. found = TRUE \/ found \notin BOOLEAN
          BY <2>2
        <4>2. found \in BOOLEAN
          BY DEF SetContains
        <4>3. QED BY <2>1, <2>2, <4>1, <4>2
      <3>2. QED BY <1>2, <3>1 DEF Taken
    <2>3. CASE ~found
      <3>1. FALSE \in SetContains(r.set, map[k])
        <4>1. found \in BOOLEAN
          BY DEF SetContains
        <4>2. found = FALSE
          BY <2>3, <4>1
        <4>3. QED BY <4>2
      <3>2. PICK t \in SetInsert(r.set, map[k]) : u = [r EXCEPT !.set = t, !.keys = @ \cup {k}]
        BY <2>1, <2>3
      <3>3. u.set = t /\ u.keys = r.keys \cup {k} /\ u.refused = r.refused
        BY <3>2 DEF Taken
      <3>4. QED BY <1>2, <3>1, <3>2, <3>3
    <2>4. QED BY <2>2, <2>3
  <1>3. QED BY <1>1, <1>2

LEMMA TakeTypes ==
    ASSUME NEW r \in Taken, NEW map, NEW k \in Key, map[k] \in UniqueIds
    PROVE  Take(r, map, k) \subseteq Taken
  <1>1. CASE r.refused
    BY <1>1 DEF Take
  <1>2. CASE ~r.refused
    <2>1. r.set \in Seq(UniqueIds) /\ SetInsert(r.set, map[k]) \subseteq Seq(UniqueIds)
      BY TreeTypes DEF Taken
    <2>2. [r EXCEPT !.refused = TRUE] \in Taken
      BY DEF Taken
    <2>3. ASSUME NEW t \in SetInsert(r.set, map[k])
          PROVE  [r EXCEPT !.set = t, !.keys = @ \cup {k}] \in Taken
      BY <2>1 DEF Taken
    <2>4. \A found : (IF found THEN {[r EXCEPT !.refused = TRUE]}
                      ELSE {[r EXCEPT !.set = t, !.keys = @ \cup {k}]
                             : t \in SetInsert(r.set, map[k])})
                     \in SUBSET Taken
      BY <2>2, <2>3
    <2>5. QED BY ONLY <1>2, <2>4 DEF Take
  <1>3. QED BY <1>1, <1>2

LEMMA AddNewSteps ==
    ASSUME NEW s \in Seq(UniqueIds), NEW map, NEW l \in Seq(Key),
           \A n \in 1..Len(l) : map[l[n]] \in UniqueIds
    PROVE  \E h : Adding(h, s, map, l)
  <1> DEFINE A == SUBSET Taken
             Step(x, a) == TakeEach(x, map, a)
  <1>1. DOMAIN l = 1..Len(l) /\ Len(l) \in Nat
    OBVIOUS
  <1> DEFINE F == [x \in A \X (1..Len(l)) |-> Step(x[1], l[x[2]])]
             Is(g, p) == IF p = {} THEN {NoneTaken(s)} ELSE Step(g[p \ {Max(p)}], l[Max(p)])
  <1>2. ASSUME NEW x \in A, NEW n \in 1..Len(l) PROVE Step(x, l[n]) \in A
    <2>1. l[n] \in Key /\ map[l[n]] \in UniqueIds
      BY <1>1
    <2>2. \A r \in x : Take(r, map, l[n]) \subseteq Taken
      BY <2>1, TakeTypes
    <2>3. QED BY <2>2 DEF TakeEach
  <1>3. F \in [A \X (1..Len(l)) -> A]
    <2> HIDE DEF Step, A
    <2>1. QED BY <1>2
  <1>4. {NoneTaken(s)} \in A
    BY DEF Taken, NoneTaken
  <1>5. PICK g \in [SUBSET (1..Len(l)) -> A] :
           \A p \in SUBSET (1..Len(l)) :
              g[p] = IF p = {} THEN {NoneTaken(s)} ELSE F[<<g[p \ {Max(p)}], Max(p)>>]
    <2> HIDE DEF F, A
    <2>1. \E g \in [SUBSET (1..Len(l)) -> A] : Recursion(g, Len(l), {NoneTaken(s)}, F)
      BY <1>1, <1>3, <1>4, FoldExists
    <2>2. QED BY <2>1 DEF Recursion
  <1> HIDE DEF A
  <1>6. ASSUME NEW p \in SUBSET (1..Len(l)) PROVE g[p] = Is(g, p)
    <2>1. CASE p = {}
      BY <1>5, <2>1
    <2>2. CASE p # {}
      <3>1. Max(p) \in p
        BY <1>1, <2>2, MaxIs
      <3>2. Max(p) \in 1..Len(l) /\ g[p \ {Max(p)}] \in A
        BY <3>1
      <3> HIDE DEF Step
      <3>3. F[<<g[p \ {Max(p)}], Max(p)>>] = Step(g[p \ {Max(p)}], l[Max(p)])
        BY <3>2
      <3> HIDE DEF F
      <3>4. g[p] = F[<<g[p \ {Max(p)}], Max(p)>>]
        BY <1>5, <2>2
      <3>5. QED BY <2>2, <3>3, <3>4
    <2>3. QED BY <2>1, <2>2
  <1> HIDE DEF F
  <1>7. g = [p \in SUBSET (1..Len(l)) |-> Is(g, p)]
    <2> HIDE DEF Is
    <2>1. QED BY <1>5, <1>6
  <1>8. PICK h : h = CHOOSE i : i = [p \in SUBSET (1..Len(l)) |-> Is(i, p)]
    OBVIOUS
  <1>9. h = [p \in SUBSET (1..Len(l)) |-> Is(h, p)]
    BY <1>7, <1>8
  <1>10. AddNew(s, map, l) = h[1..Len(l)]
    BY <1>1, <1>8 DEF AddNew, TakeEach, NoneTaken, FoldLeft, MapThenFoldSet
  <1>11. h[{}] = {NoneTaken(s)}
    BY <1>9
  <1>12. ASSUME NEW k \in 0..(Len(l) - 1) PROVE h[1..(k + 1)] = Step(h[1..k], l[k + 1])
    <2>1. k \in Nat /\ k + 1 \in 1..Len(l) /\ 1..(k + 1) \in SUBSET (1..Len(l))
      BY <1>1
    <2>2. Max(1..(k + 1)) = k + 1 /\ 1..(k + 1) # {} /\ (1..(k + 1)) \ {k + 1} = 1..k
      BY <2>1, UpTo
    <2> HIDE DEF Step
    <2>3. QED BY <1>9, <2>1, <2>2
  <1>13. QED BY <1>10, <1>11, <1>12 DEF Adding

\* If all keys are taken, their ids are in the tree, which had none of them, and no
\* two of them have the same.
LEMMA AddNewIs ==
    ASSUME NEW s, Chain(s), NEW map, NEW l \in Seq(Key), IsInjective(l),
           Ordered(ToSet(s) \cup {map[k] : k \in ToSet(l)}),
           NEW t \in AddNew(s, map, l), t.keys = ToSet(l)
    PROVE  /\ Chain(t.set) /\ ToSet(t.set) = ToSet(s) \cup {map[k] : k \in ToSet(l)}
           /\ \A k \in ToSet(l) : map[k] \notin ToSet(s)
           /\ OneEach(map, ToSet(l))
  <1>1. /\ DOMAIN l = 1..Len(l) /\ Len(l) \in Nat /\ s \in Seq(UniqueIds)
        /\ \A n \in 1..Len(l) : l[n] \in Key /\ l[n] \in ToSet(l) /\ map[l[n]] \in UniqueIds
        /\ \A m, n \in 1..Len(l) : l[m] = l[n] => m = n
        /\ ToSet(l) = {l[n] : n \in 1..Len(l)}
    BY DEF Chain, IsInjective, Ordered, ToSet
  <1>2. PICK h : Adding(h, s, map, l)
    BY <1>1, AddNewSteps
  <1>3. /\ h[{}] = {NoneTaken(s)} /\ AddNew(s, map, l) = h[1..Len(l)]
        /\ \A k \in 0..(Len(l) - 1) : h[1..(k + 1)] = TakeEach(h[1..k], map, l[k + 1])
    BY <1>2 DEF Adding
  <1> DEFINE Is(r, k) ==
                /\ r.keys = {l[j] : j \in 1..k}
                /\ Chain(r.set) /\ ToSet(r.set) = ToSet(s) \cup {map[l[j]] : j \in 1..k}
                /\ \A j \in 1..k : map[l[j]] \notin ToSet(s)
                /\ \A i, j \in 1..k : map[l[i]] = map[l[j]] => i = j
             Good(r, k) == /\ r.refused => \E j \in 1..k : l[j] \notin r.keys
                           /\ ~r.refused => Is(r, k)
             R == [k \in 0..Len(l) |-> SUBSET {r \in Taken : Good(r, k)}]
  <1>4. \A k \in 0..Len(l) : R[k] = SUBSET {r \in Taken : Good(r, k)}
    OBVIOUS
  <1>5. h[{}] \in R[0]
    <2>1. 1..0 = {} /\ {map[l[j]] : j \in 1..0} = {} /\ {l[j] : j \in 1..0} = {}
      OBVIOUS
    <2>2. NoneTaken(s).keys = {} /\ NoneTaken(s).set = s /\ ~NoneTaken(s).refused
      BY DEF NoneTaken
    <2>3. Good(NoneTaken(s), 0)
      BY <2>1, <2>2
    <2>4. NoneTaken(s) \in Taken
      BY <1>1 DEF Taken, NoneTaken
    <2> HIDE DEF Good
    <2>5. {NoneTaken(s)} \in R[0]
      BY <1>1, <2>3, <2>4
    <2>6. QED BY <1>3, <2>5
  <1>6. ASSUME NEW k \in 0..(Len(l) - 1), h[1..k] \in R[k] PROVE h[1..(k + 1)] \in R[k + 1]
    <2>1. k \in 0..Len(l) /\ k + 1 \in 1..Len(l) /\ k + 1 \in 0..Len(l) /\ k \in Nat
          /\ 1..(k + 1) = (1..k) \cup {k + 1} /\ 1..k \subseteq 1..Len(l)
          /\ \A j \in 1..k : j \in 1..Len(l) /\ j # k + 1
      BY <1>1
    <2>2. ASSUME NEW r \in h[1..k], NEW u \in Take(r, map, l[k + 1])
          PROVE  u \in Taken /\ Good(u, k + 1)
      <3> DEFINE x == map[l[k + 1]]
      <3>1. r \in Taken /\ Good(r, k)
        <4> HIDE DEF Good
        <4>1. QED BY <1>4, <1>6, <2>1
      <3>2. l[k + 1] \in Key /\ x \in UniqueIds
        BY <1>1, <2>1
      <3>3. u \in Taken
        BY <2>2, <3>1, <3>2, TakeTypes
      <3>4. /\ {l[j] : j \in 1..(k + 1)} = {l[j] : j \in 1..k} \cup {l[k + 1]}
            /\ {map[l[j]] : j \in 1..(k + 1)} = {map[l[j]] : j \in 1..k} \cup {x}
            /\ l[k + 1] \notin {l[j] : j \in 1..k}
        BY <1>1, <2>1
      <3>5. \/ r.refused /\ u = r
            \/ /\ ~r.refused /\ TRUE \in SetContains(r.set, x)
               /\ u.set = r.set /\ u.keys = r.keys /\ u.refused
            \/ /\ ~r.refused /\ FALSE \in SetContains(r.set, x)
               /\ u.set \in SetInsert(r.set, x) /\ u.keys = r.keys \cup {l[k + 1]} /\ ~u.refused
        BY <2>2, <3>1, <3>2, TakeIs
      <3>6. CASE r.refused /\ u = r
        <4>1. PICK j \in 1..k : l[j] \notin r.keys
          BY <3>1, <3>6
        <4>2. j \in 1..(k + 1)
          BY <2>1
        <4>3. QED BY <3>3, <3>6, <4>1, <4>2
      <3>7. CASE ~r.refused /\ u.set = r.set /\ u.keys = r.keys /\ u.refused
        <4>1. l[k + 1] \notin u.keys /\ k + 1 \in 1..(k + 1)
          BY <2>1, <3>1, <3>4, <3>7
        <4>2. QED BY <3>3, <3>7, <4>1
      <3>8. CASE /\ ~r.refused /\ FALSE \in SetContains(r.set, x)
                 /\ u.set \in SetInsert(r.set, x) /\ u.keys = r.keys \cup {l[k + 1]} /\ ~u.refused
        <4>1. Is(r, k)
          BY <3>1, <3>8
        <4>2. Ordered(ToSet(r.set) \cup {x})
          <5>1. \A j \in 1..k : l[j] \in ToSet(l)
            BY <1>1, <2>1
          <5>2. ToSet(r.set) \cup {x} \in SUBSET (ToSet(s) \cup {map[m] : m \in ToSet(l)})
            BY <1>1, <2>1, <4>1, <5>1
          <5>3. QED BY <5>2, OrderedParts
        <4>3. \A m \in 1..Len(r.set) : Compare(r.set[m], x) # Equal
          BY <3>8, <4>1, <4>2, AbsentIs
        <4>4. Chain(u.set) /\ ToSet(u.set) = ToSet(r.set) \cup {x}
          BY <3>8, <4>1, <4>2, <4>3, InsertNew
        <4>5. x \notin ToSet(r.set)
          <5>1. r.set \in Seq(UniqueIds)
            BY <4>1 DEF Chain
          <5>2. DOMAIN r.set = 1..Len(r.set)
            BY <5>1
          <5>3. Compare(x, x) = Equal
            BY <3>2, SelfIsEqual
          <5> HIDE DEF x
          <5>4. QED BY <4>3, <5>2, <5>3 DEF ToSet
        <4>6. Is(u, k + 1)
          <5>1. u.keys = {l[j] : j \in 1..(k + 1)}
            BY <3>4, <3>8, <4>1
          <5>2. ToSet(u.set) = ToSet(s) \cup {map[l[j]] : j \in 1..(k + 1)}
            BY <3>4, <4>1, <4>4
          <5>3. \A j \in 1..(k + 1) : map[l[j]] \notin ToSet(s)
            BY <2>1, <4>1, <4>5
          <5>4. \A j \in 1..k : map[l[j]] # x
            BY <4>1, <4>5
          <5>5. ASSUME NEW i \in 1..(k + 1), NEW j \in 1..(k + 1), map[l[i]] = map[l[j]]
                PROVE  i = j
            <6>1. (i \in 1..k \/ i = k + 1) /\ (j \in 1..k \/ j = k + 1)
              BY <2>1
            <6>2. QED BY <4>1, <5>4, <5>5, <6>1
          <5> HIDE DEF x
          <5>6. QED BY <4>4, <5>1, <5>2, <5>3, <5>5
        <4> HIDE DEF Is
        <4>7. QED BY <3>3, <3>8, <4>6
      <3>9. QED BY <3>5, <3>6, <3>7, <3>8
    <2>3. h[1..(k + 1)] = UNION {Take(r, map, l[k + 1]) : r \in h[1..k]}
      BY <1>3 DEF TakeEach
    <2> HIDE DEF Good
    <2>4. h[1..(k + 1)] \in SUBSET {r \in Taken : Good(r, k + 1)}
      BY <2>2, <2>3
    <2>5. QED BY <1>4, <2>1, <2>4
  <1> HIDE DEF R
  <1>7. h[1..Len(l)] \in R[Len(l)]
    BY <1>1, <1>5, <1>6, FoldReaches
  <1>8. Len(l) \in 0..Len(l) /\ {map[l[j]] : j \in 1..Len(l)} = {map[k] : k \in ToSet(l)}
    BY <1>1
  <1>9. Good(t, Len(l))
    <2> HIDE DEF Good
    <2>1. QED BY <1>3, <1>4, <1>7, <1>8
  <1>10. Is(t, Len(l))
    <2>1. \A j \in 1..Len(l) : l[j] \in t.keys
      BY <1>1
    <2> HIDE DEF Is
    <2>2. QED BY <1>9, <2>1
  <1>11. OneEach(map, ToSet(l)) /\ \A k \in ToSet(l) : map[k] \notin ToSet(s)
    BY <1>1, <1>10 DEF OneEach
  <1>12. QED BY <1>8, <1>10, <1>11

-----------------------------------------------------------------------------
(* The MBS Session Ids in use stay those of the ingest sessions.           *)

IdCases == {"twice", "moved", "halfway", "readded", "dropped", "contextless", "cyclic"}
Calm == odd \cap IdCases = {}

\* Each ingest session has a context for each of its keys, no two have the same
\* id, and the set is in order and has these ids and no other.
Owners == {i \in Ingest : Found(i)}
IdsRight ==
    Calm =>
        /\ Chain(ids)
        /\ \A i \in Owners : ing[i].infos = Contexts(i) /\ OneEach(ing[i].ctx, Contexts(i))
        /\ \A i, j \in Owners : i # j => IdsIn(i) \cap IdsIn(j) = {}
        /\ ToSet(ids) = UNION {IdsIn(i) : i \in Owners}

LEMMA CalmBefore == odd \subseteq odd' /\ Calm' => Calm
  BY DEF Calm

\* An ingest session whose contexts are left alone
LEMMA SameContexts ==
    ASSUME NEW i \in Ingest, ing'[i].ctx = ing[i].ctx
    PROVE  Contexts(i)' = Contexts(i) /\ IdsIn(i)' = IdsIn(i)
  <1>1. Contexts(i)' = Contexts(i)
    BY DEF Contexts
  <1>2. QED BY <1>1 DEF IdsIn

\* Ingest sessions go, with their ids: none of them, or some.
LEMMA IdsGo ==
    ASSUME IdsRight, odd \subseteq odd', NEW is \in SUBSET Ingest,
           Owners' = Owners \ is, is \subseteq Owners,
           \A i \in Owners' : ing'[i].infos = ing[i].infos /\ ing'[i].ctx = ing[i].ctx,
           Calm' => Chain(ids)' /\ ToSet(ids') = ToSet(ids) \ UNION {IdsIn(i) : i \in is}
    PROVE  IdsRight'
  <1> SUFFICES ASSUME Calm' PROVE
          /\ Chain(ids)'
          /\ \A i \in Owners' : ing'[i].infos = Contexts(i)' /\ OneEach(ing'[i].ctx, Contexts(i)')
          /\ \A i, j \in Owners' : i # j => IdsIn(i)' \cap IdsIn(j)' = {}
          /\ ToSet(ids') = UNION {IdsIn(i)' : i \in Owners'}
    BY DEF IdsRight, OneEach
  <1>1. /\ \A i \in Owners : ing[i].infos = Contexts(i) /\ OneEach(ing[i].ctx, Contexts(i))
        /\ \A i, j \in Owners : i # j => IdsIn(i) \cap IdsIn(j) = {}
        /\ ToSet(ids) = UNION {IdsIn(i) : i \in Owners}
    BY CalmBefore DEF IdsRight
  <1>2. \A i \in Owners' : i \in Owners \ is /\ Contexts(i)' = Contexts(i) /\ IdsIn(i)' = IdsIn(i)
    BY SameContexts DEF Owners
  <1>3. \A i \in Owners' : ing'[i].infos = Contexts(i)' /\ OneEach(ing'[i].ctx, Contexts(i)')
    BY <1>1, <1>2
  <1>4. \A i, j \in Owners' : i # j => IdsIn(i)' \cap IdsIn(j)' = {}
    BY <1>1, <1>2
  <1>5. UNION {IdsIn(i)' : i \in Owners'} = UNION {IdsIn(i) : i \in Owners \ is}
    BY <1>2
  <1>6. (UNION {IdsIn(i) : i \in Owners}) \ (UNION {IdsIn(i) : i \in is})
           = UNION {IdsIn(i) : i \in Owners \ is}
    BY <1>1
  <1>7. QED BY <1>1, <1>3, <1>4, <1>5, <1>6

LEMMA IdsFrame ==
    ASSUME IdsRight, odd \subseteq odd', ids' = ids,
           \A i \in Ingest : /\ ing'[i].at \in Alive <=> ing[i].at \in Alive
                             /\ ing'[i].infos = ing[i].infos /\ ing'[i].ctx = ing[i].ctx
    PROVE  IdsRight'
  <1>1. Owners' = Owners \ {} /\ {} \subseteq Owners /\ {} \in SUBSET Ingest
    BY DEF Owners, Found, Alive
  <1>2. \A i \in Owners' : ing'[i].infos = ing[i].infos /\ ing'[i].ctx = ing[i].ctx
    BY DEF Owners
  <1>3. Calm' => Chain(ids)' /\ ToSet(ids') = ToSet(ids) \ UNION {IdsIn(i) : i \in {}}
    <2>1. Calm' => Chain(ids)
      BY CalmBefore DEF IdsRight
    <2>2. Chain(ids)' <=> Chain(ids)
      BY DEF Chain
    <2>3. QED BY <2>1, <2>2
  <1>4. QED BY <1>1, <1>2, <1>3, IdsGo

\* An ingest session gets more ids.
LEMMA IdsCome ==
    ASSUME IdsRight, odd \subseteq odd', NEW i \in Ingest, NEW New,
           \A j \in Ingest \ {i} : ing'[j] = ing[j], i \in Owners',
           Calm' => /\ IdsIn(i)' = IF i \in Owners THEN IdsIn(i) \cup New ELSE New
                    /\ New \cap ToSet(ids) = {}
                    /\ Chain(ids)' /\ ToSet(ids') = ToSet(ids) \cup New
                    /\ ing'[i].infos = Contexts(i)' /\ OneEach(ing'[i].ctx, Contexts(i)')
    PROVE  IdsRight'
  <1> SUFFICES ASSUME Calm' PROVE
          /\ Chain(ids)'
          /\ \A j \in Owners' : ing'[j].infos = Contexts(j)' /\ OneEach(ing'[j].ctx, Contexts(j)')
          /\ \A j, k \in Owners' : j # k => IdsIn(j)' \cap IdsIn(k)' = {}
          /\ ToSet(ids') = UNION {IdsIn(j)' : j \in Owners'}
    BY DEF IdsRight, OneEach
  <1>1. /\ \A j \in Owners : ing[j].infos = Contexts(j) /\ OneEach(ing[j].ctx, Contexts(j))
        /\ \A j, k \in Owners : j # k => IdsIn(j) \cap IdsIn(k) = {}
        /\ ToSet(ids) = UNION {IdsIn(j) : j \in Owners}
    BY CalmBefore DEF IdsRight
  <1>2. \A j \in Ingest \ {i} : Contexts(j)' = Contexts(j) /\ IdsIn(j)' = IdsIn(j)
    BY SameContexts
  <1>3. Owners' = Owners \cup {i} /\ i \in Ingest /\ Owners \subseteq Ingest
    BY DEF Owners, Found
  <1>4. ASSUME NEW j \in Owners' \ {i}
        PROVE  /\ j \in Owners /\ j \in Ingest \ {i}
               /\ ing'[j].infos = Contexts(j)' /\ OneEach(ing'[j].ctx, Contexts(j)')
               /\ IdsIn(j)' = IdsIn(j) /\ IdsIn(j)' \cap IdsIn(i)' = {}
    <2>1. j \in Owners /\ j \in Ingest \ {i}
      BY <1>3
    <2>2. IdsIn(j)' = IdsIn(j) /\ Contexts(j)' = Contexts(j) /\ ing'[j] = ing[j]
      BY <1>2, <2>1
    <2>3. IdsIn(j) \subseteq ToSet(ids)
      BY <1>1, <2>1
    <2>4. i \in Owners => IdsIn(j) \cap IdsIn(i) = {}
      BY <1>1, <2>1
    <2>5. IdsIn(j)' \cap IdsIn(i)' = {}
      BY <2>2, <2>3, <2>4
    <2>6. QED BY <1>1, <2>1, <2>2, <2>5
  <1>5. \A j \in Owners' : ing'[j].infos = Contexts(j)' /\ OneEach(ing'[j].ctx, Contexts(j)')
    BY <1>4
  <1>6. ASSUME NEW j \in Owners', NEW k \in Owners', j # k PROVE IdsIn(j)' \cap IdsIn(k)' = {}
    <2>1. CASE j = i
      BY <1>4, <1>6, <2>1
    <2>2. CASE k = i
      BY <1>4, <1>6, <2>2
    <2>3. CASE j # i /\ k # i
      BY <1>1, <1>4, <1>6, <2>3
    <2>4. QED BY <2>1, <2>2, <2>3
  <1>7. ToSet(ids') = UNION {IdsIn(j)' : j \in Owners'}
    <2>1. ASSUME NEW x \in ToSet(ids') PROVE \E j \in Owners' : x \in IdsIn(j)'
      <3>1. CASE x \in New
        BY <3>1
      <3>2. CASE x \in ToSet(ids)
        <4>1. PICK j \in Owners : x \in IdsIn(j)
          BY <1>1, <3>2
        <4>2. CASE j = i
          BY <1>3, <4>1, <4>2
        <4>3. CASE j # i
          BY <1>3, <1>4, <4>1, <4>3
        <4>4. QED BY <4>2, <4>3
      <3>3. QED BY <3>1, <3>2
    <2>2. ASSUME NEW j \in Owners' PROVE IdsIn(j)' \subseteq ToSet(ids')
      <3>1. CASE j = i
        BY <1>1, <3>1
      <3>2. CASE j # i
        BY <1>1, <1>4, <3>2
      <3>3. QED BY <3>1, <3>2
    <2>3. QED BY <2>1, <2>2
  <1>8. QED BY <1>5, <1>6, <1>7

-----------------------------------------------------------------------------
(* ... action by action.                                                   *)

\* The requests that leave the ids alone
LEMMA RequestsKeepIds ==
    ASSUME ServiceInv, IdsRight,
           \/ \E s \in Service, ann, ok \in BOOLEAN :
                  PostService(s, ann, ok) \/ PutService(s, ann, ok)
           \/ Refused \/ \E case \in Odd : Ignored(case)
           \/ Vanished \/ \E r \in Stream : Close(r)
    PROVE  IdsRight'
  <1>1. ids' = ids /\ ing' = ing /\ odd \subseteq odd'
    BY DEF PostService, PutService, Refused, Ignored, Vanished, Close, Note
  <1>2. QED BY <1>1, IdsFrame

LEMMA DeleteServiceKeepsIds ==
    ASSUME ServiceInv, IdsRight, NEW s \in Service, DeleteService(s)
    PROVE  IdsRight'
  <1>1. ids' = ids /\ odd \subseteq odd'
    BY DEF DeleteService, Note
  <1>2. \/ ing' = ing
        \/ ing' = [i \in Ingest |-> IF i \in us[s].sessions THEN Deleting(i) ELSE ing[i]]
    BY DEF DeleteService
  <1>3. ASSUME NEW i \in Ingest
        PROVE  /\ ing'[i].at \in Alive <=> ing[i].at \in Alive
               /\ ing'[i].infos = ing[i].infos /\ ing'[i].ctx = ing[i].ctx
    <2>1. ing'[i] = ing[i] \/ ing'[i] = Deleting(i)
      BY <1>2
    <2>2. /\ Deleting(i).at \in Alive <=> ing[i].at \in Alive
          /\ Deleting(i).infos = ing[i].infos /\ Deleting(i).ctx = ing[i].ctx
      BY DeletingIs DEF ServiceInv, IngestFields
    <2>3. QED BY <2>1, <2>2
  <1>4. QED BY <1>1, <1>3, IdsFrame

LEMMA DeleteIngestRequestKeepsIds ==
    ASSUME ServiceInv, IdsRight, NEW i \in Ingest, DeleteIngestRequest(i)
    PROVE  IdsRight'
  <1>1. ids' = ids /\ odd \subseteq odd' /\ DOMAIN ing = Ingest
    BY DEF DeleteIngestRequest, Note, ServiceInv, Types
  <1> DEFINE x == Deleting(i).deletes \cup {This}
  <1>2. ing' = ing \/ ing' = [ing EXCEPT ![i] = [Deleting(i) EXCEPT !.deletes = x]]
    BY DEF DeleteIngestRequest
  <1>3. CASE ing' = ing
    BY <1>1, <1>3, IdsFrame
  <1>4. CASE ing' = [ing EXCEPT ![i] = [Deleting(i) EXCEPT !.deletes = x]]
    <2>1. ing'[i] = [Deleting(i) EXCEPT !.deletes = x] /\ \A j \in Ingest \ {i} : ing'[j] = ing[j]
      BY <1>1, <1>4
    <2>2. /\ Deleting(i).at \in Alive <=> ing[i].at \in Alive
          /\ Deleting(i).infos = ing[i].infos /\ Deleting(i).ctx = ing[i].ctx
          /\ DOMAIN Deleting(i) = IngestFields
      BY DeletingIs DEF ServiceInv, IngestFields, IngestShape
    <2>3. /\ ing'[i].at \in Alive <=> ing[i].at \in Alive
          /\ ing'[i].infos = ing[i].infos /\ ing'[i].ctx = ing[i].ctx
      <3> DEFINE d == Deleting(i)
      <3>1. /\ d.at \in Alive <=> ing[i].at \in Alive
            /\ d.infos = ing[i].infos /\ d.ctx = ing[i].ctx /\ DOMAIN d = IngestFields
            /\ ing'[i] = [d EXCEPT !.deletes = x]
        BY <2>1, <2>2
      <3> HIDE DEF d, x
      <3>2. /\ ing'[i].at = d.at /\ ing'[i].infos = d.infos /\ ing'[i].ctx = d.ctx
        BY <3>1 DEF IngestFields
      <3>3. QED BY <3>1, <3>2
    <2>4. QED BY <1>1, <2>1, <2>3, IdsFrame
  <1>5. QED BY <1>2, <1>3, <1>4

\* Fields of the ingest session that moves on
LEMMA AtOnly ==
    ASSUME Types, NEW i \in Ingest, NEW a, ing' = [ing EXCEPT ![i].at = a]
    PROVE  /\ ing'[i].at = a /\ ing'[i].infos = ing[i].infos /\ ing'[i].ctx = ing[i].ctx
           /\ \A j \in Ingest \ {i} : ing'[j] = ing[j]
  <1>1. DOMAIN ing = Ingest /\ DOMAIN ing[i] = IngestFields
    BY DEF Types, IngestShape
  <1>2. ing'[i] = [ing[i] EXCEPT !.at = a]
    BY <1>1
  <1>3. QED BY <1>1, <1>2 DEF IngestFields

LEMMA EstablishedKeepsIds ==
    ASSUME ServiceInv, IdsRight, NEW i \in Ingest, Established(i)
    PROVE  IdsRight'
  <1>1. ids' = ids /\ odd \subseteq odd' /\ ing' = [ing EXCEPT ![i].at = "there"]
        /\ ing[i].at = "creating"
    BY DEF Established
  <1>2. /\ ing'[i].at = "there" /\ ing'[i].infos = ing[i].infos /\ ing'[i].ctx = ing[i].ctx
        /\ \A j \in Ingest \ {i} : ing'[j] = ing[j]
    BY <1>1, AtOnly DEF ServiceInv
  <1>3. "there" \in Alive /\ "creating" \in Alive
    BY DEF Alive
  <1>4. QED BY <1>1, <1>2, <1>3, IdsFrame

\* What the set has while it is in order
LEMMA OwnersIds ==
    ASSUME IdsRight, Calm, NEW i \in Owners
    PROVE  OneEach(ing[i].ctx, Contexts(i)) /\ IdsIn(i) \subseteq ToSet(ids) /\ Chain(ids)
  BY DEF IdsRight

LEMMA GoneTakesIds ==
    ASSUME ServiceInv, IdsRight, NEW i \in Ingest, CreationFails(i) \/ Deleted(i)
    PROVE  IdsRight'
  <1> SUFFICES ASSUME ~(ids' = ids /\ ing' = ing /\ odd' = odd) PROVE IdsRight'
    BY IdsFrame
  <1>1. /\ ing[i].at \in {"creating", "deleting"} /\ ing' = [ing EXCEPT ![i].at = "gone"]
        /\ ids' \in Cleared(i) /\ odd' = odd /\ Types
    BY DEF CreationFails, Deleted, ServiceInv
  <1>2. /\ ing'[i].at = "gone" /\ \A j \in Ingest \ {i} : ing'[j] = ing[j]
    BY <1>1, AtOnly
  <1>3. i \in Owners /\ {i} \subseteq Owners /\ {i} \in SUBSET Ingest
    BY <1>1 DEF Owners, Found
  <1>4. Owners' = Owners \ {i}
    BY <1>2 DEF Owners, Found
  <1>5. \A j \in Owners' : ing'[j].infos = ing[j].infos /\ ing'[j].ctx = ing[j].ctx
    BY <1>2, <1>4 DEF Owners
  <1>6. Calm' => Chain(ids)' /\ ToSet(ids') = ToSet(ids) \ UNION {IdsIn(j) : j \in {i}}
    <2>1. SUFFICES ASSUME Calm'
                   PROVE  Chain(ids)' /\ ToSet(ids') = ToSet(ids) \ UNION {IdsIn(j) : j \in {i}}
      OBVIOUS
    <2>2. OneEach(ing[i].ctx, Contexts(i)) /\ IdsIn(i) \subseteq ToSet(ids) /\ Chain(ids)
      BY <1>1, <1>3, <2>1, CalmBefore, OwnersIds
    <2>3. PICK t : t = ids' /\ t \in ClearedFrom(ids, i)
      BY <1>1 DEF Cleared
    <2>4. Chain(t) /\ ToSet(t) = ToSet(ids) \ IdsIn(i)
      BY <1>1, <2>2, <2>3, ClearedFromIs
    <2>5. Chain(ids)'
      BY <2>3, <2>4 DEF Chain
    <2>6. UNION {IdsIn(j) : j \in {i}} = IdsIn(i)
      OBVIOUS
    <2>7. QED BY <2>3, <2>4, <2>5, <2>6
  <1>7. QED BY <1>1, <1>3, <1>4, <1>5, <1>6, IdsGo

LEMMA HandleRemovalTakesIds ==
    ASSUME ServiceInv, IdsRight, HandleRemoval
    PROVE  IdsRight'
  <1> DEFINE s == queue[1].service
             left == us[s].sessions
  <1>1. /\ Types /\ odd' = odd /\ queue # << >>
    BY DEF HandleRemoval, ServiceInv
  <1>2. Head(queue) = queue[1] /\ s \in Service
    BY <1>1, QueueTail, QueueTypes DEF Removal
  <1>3. CASE ~us[s].there
    <2>1. ids' = ids /\ ing' = ing
      BY <1>2, <1>3 DEF HandleRemoval
    <2>2. QED BY <1>1, <2>1, IdsFrame
  <1>4. CASE us[s].there
    <2>1. /\ ing' = [i \in Ingest |-> IF i \in left THEN [ing[i] EXCEPT !.at = "orphan"]
                                      ELSE ing[i]]
          /\ ids' \in AllCleared(left)
      BY <1>2, <1>4 DEF HandleRemoval
    <2>2. left \in SUBSET Ingest /\ left \subseteq Owners
      <3>1. left \in SUBSET Ingest
        BY <1>1, <1>2 DEF Types, UserServiceState
      <3>2. \A i \in left : ing[i].at \in Alive
        BY <1>2, <3>1 DEF ServiceInv, SessionsAre
      <3>3. QED BY <3>1, <3>2 DEF Owners, Found, Alive
    <2>3. ASSUME NEW i \in Ingest
          PROVE  /\ ing'[i].infos = ing[i].infos /\ ing'[i].ctx = ing[i].ctx
                 /\ ing'[i].at = IF i \in left THEN "orphan" ELSE ing[i].at
      <3>1. DOMAIN ing[i] = IngestFields
        BY <1>1 DEF Types, IngestShape
      <3>2. CASE i \in left
        <4>1. ing'[i] = [ing[i] EXCEPT !.at = "orphan"]
          BY <2>1, <3>2
        <4>2. QED BY <3>1, <3>2, <4>1 DEF IngestFields
      <3>3. CASE i \notin left
        BY <2>1, <3>3
      <3>4. QED BY <3>2, <3>3
    <2> HIDE DEF left
    <2>4. Owners' = Owners \ left
      BY <2>3 DEF Owners, Found
    <2>5. Calm' => Chain(ids)' /\ ToSet(ids') = ToSet(ids) \ UNION {IdsIn(j) : j \in left}
      <3>1. SUFFICES ASSUME Calm'
                     PROVE  Chain(ids)' /\ ToSet(ids') = ToSet(ids) \ UNION {IdsIn(j) : j \in left}
        OBVIOUS
      <3>2. Calm
        BY <1>1, <3>1, CalmBefore
      <3>3. \A i \in left : OneEach(ing[i].ctx, Contexts(i)) /\ IdsIn(i) \subseteq ToSet(ids)
        BY <2>2, <3>2, OwnersIds
      <3>4. Chain(ids) /\ \A i, j \in left : i # j => IdsIn(i) \cap IdsIn(j) = {}
        BY <2>2, <3>2 DEF IdsRight
      <3>5. PICK t : t = ids' /\ t \in AllCleared(left)
        BY <2>1
      <3>6. Chain(t) /\ ToSet(t) = ToSet(ids) \ UNION {IdsIn(i) : i \in left}
        BY <1>1, <2>2, <3>3, <3>4, <3>5, AllClearedIs
      <3>7. QED BY <3>5, <3>6 DEF Chain
    <2>6. \A i \in Owners' : ing'[i].infos = ing[i].infos /\ ing'[i].ctx = ing[i].ctx
      BY <2>3 DEF Owners
    <2>7. QED BY <1>1, <2>2, <2>4, <2>5, <2>6, IdsGo
  <1>5. QED BY <1>3, <1>4

\* A map whose ids come up in no unusual case is in order with the set.
LEMMA OrderedWith ==
    ASSUME Chain(ids), NEW map \in Map, "cyclic" \notin CyclicWith(map)
    PROVE  Ordered(ToSet(ids) \cup {map[k] : k \in {m \in Key : map[m] # NoId}})
  <1> DEFINE keys == {m \in Key : map[m] # NoId}
             S == ToSet(ids) \cup {map[k] : k \in keys}
             T == (ToSet(ids) \cup {map[k] : k \in Key}) \ {NoId}
  <1>1. S \subseteq UniqueIds
    <2>1. ToSet(ids) \subseteq UniqueIds
      BY DEF Chain, ToSet
    <2>2. \A k \in keys : map[k] \in UniqueIds
      BY MapsAreIds
    <2>3. QED BY <2>1, <2>2
  <1>2. S \subseteq T
    BY <1>1, NoIdIsNone
  <1>3. ~Cyclic(T)
    <2> HIDE DEF T
    <2>1. Cyclic(T) => CyclicWith(map) = {"cyclic"}
      BY DEF CyclicWith, T
    <2>2. QED BY <2>1
  <1> HIDE DEF T, S
  <1>4. Ordered(S)
    BY <1>1, <1>2, <1>3 DEF Cyclic, Ordered
  <1>5. QED BY <1>4 DEF S

LEMMA PostIngestBringsIds ==
    ASSUME ServiceInv, IdsRight, NEW i \in Ingest, NEW s \in Service, NEW map \in Map,
           PostIngest(i, s, map)
    PROVE  IdsRight'
  <1> DEFINE keys == {k \in Key : map[k] # NoId}
             ctx == ContextsFor(map, keys)
             d == [at |-> "creating", service |-> s, post |-> This, deletes |-> {},
                   infos |-> keys, ctx |-> ctx]
  <1>1. PICK refused \in InUse(map, keys) :
            IF refused \/ ~us[s].there
            THEN UNCHANGED <<us, ing, ids, odd>>
            ELSE /\ ing' = [ing EXCEPT ![i] = d]
                 /\ ids' \in InsertAll(ids, IdsOf(map, keys))
                 /\ Note(Twice(map, keys) \cup InWindow(s)
                         \cup (IF us[s].removal # << >> THEN {"early"} ELSE {})
                         \cup Contextless(map, keys) \cup CyclicWith(map))
    BY DEF PostIngest
  <1>2. CASE refused \/ ~us[s].there
    BY <1>1, <1>2, IdsFrame
  <1>3. CASE ~refused /\ us[s].there
    <2>1. /\ ing' = [ing EXCEPT ![i] = d] /\ ids' \in InsertAll(ids, IdsOf(map, keys))
          /\ odd \subseteq odd' /\ CyclicWith(map) \subseteq odd'
          /\ "twice" \in odd' \/ \A j, k \in keys : j # k => Compare(map[j], map[k]) # Equal
          /\ "contextless" \in odd' \/ \A k \in keys : map[k] \in Reachable
      <3> HIDE DEF keys, d
      <3>1. /\ ing' = [ing EXCEPT ![i] = d] /\ ids' \in InsertAll(ids, IdsOf(map, keys))
            /\ odd \subseteq odd' /\ CyclicWith(map) \subseteq odd'
            /\ Twice(map, keys) \subseteq odd' /\ Contextless(map, keys) \subseteq odd'
        BY <1>1, <1>3 DEF Note
      <3>2. QED BY <3>1 DEF Twice, Contextless
    <2>2. ing[i].at = "free" /\ DOMAIN ing = Ingest
      BY DEF PostIngest, ServiceInv, Types
    <2>3. /\ ing'[i].at = "creating" /\ ing'[i].infos = keys /\ ing'[i].ctx = ctx
          /\ \A j \in Ingest \ {i} : ing'[j] = ing[j]
      <3>1. ing'[i] = d /\ \A j \in Ingest \ {i} : ing'[j] = ing[j]
        BY <2>1, <2>2
      <3> HIDE DEF ctx, keys
      <3>2. QED BY <3>1
    <2>4. i \notin Owners /\ i \in Owners'
      BY <2>2, <2>3 DEF Owners, Found
    <2>5. ASSUME Calm'
          PROVE  /\ Contexts(i)' = keys /\ IdsIn(i)' = {map[k] : k \in keys}
                 /\ OneEach(map, keys) => OneEach(ing'[i].ctx, keys)
      <3>1. \A k \in Key : /\ k \in keys => ctx[k] = map[k] /\ map[k] # NoId
                           /\ k \notin keys => ctx[k] = NoId
        <4>1. \A k \in keys : map[k] \in Reachable
          BY <2>1, <2>5 DEF Calm, IdCases
        <4> HIDE DEF keys
        <4>2. QED BY <4>1, ContextsAreFor
      <3>2. keys \subseteq Key
        OBVIOUS
      <3> HIDE DEF ctx, keys
      <3>3. Contexts(i)' = keys
        BY <2>3, <3>1, <3>2 DEF Contexts
      <3>4. QED BY <2>3, <3>1, <3>2, <3>3 DEF IdsIn, OneEach
    <2> DEFINE New == {map[k] : k \in keys}
    <2>6. ASSUME Calm'
          PROVE  /\ New \cap ToSet(ids) = {}
                 /\ Chain(ids)' /\ ToSet(ids') = ToSet(ids) \cup New
                 /\ OneEach(map, keys)
      <3>1. /\ "cyclic" \notin CyclicWith(map)
            /\ \A j, k \in keys : j # k => Compare(map[j], map[k]) # Equal
        BY <2>1, <2>6 DEF Calm, IdCases
      <3>2. Chain(ids)
        BY <2>1, <2>6, CalmBefore DEF IdsRight
      <3>3. Ordered(ToSet(ids) \cup New)
        BY <3>1, <3>2, OrderedWith
      <3>4. keys \in SUBSET Key /\ \A k \in keys : map[k] \in UniqueIds
        BY MapsAreIds
      <3> HIDE DEF keys
      <3>5. ASSUME NEW k \in keys PROVE FALSE \in SetContains(ids, map[k])
        <4>1. PICK f \in [keys -> BOOLEAN] :
                 /\ \A m \in keys : f[m] \in SetContains(ids, map[m])
                 /\ refused = \E m \in keys : f[m]
          BY <1>1 DEF InUse
        <4>2. f[k] \in BOOLEAN /\ ~f[k]
          BY <1>3, <4>1
        <4>3. f[k] = FALSE
          BY <4>2
        <4>4. QED BY <4>1, <4>3
      <3>6. ASSUME NEW a \in ToSet(ids), NEW k \in keys PROVE Compare(a, map[k]) # Equal
        <4>1. PICK m \in 1..Len(ids) : a = ids[m]
          BY <3>2 DEF ToSet, Chain
        <4>2. ToSet(ids) \cup {map[k]} \in SUBSET (ToSet(ids) \cup New)
          OBVIOUS
        <4>3. Ordered(ToSet(ids) \cup {map[k]})
          BY <3>3, <4>2, OrderedParts
        <4>4. QED BY <3>2, <3>5, <4>1, <4>3, AbsentIs
      <3>7. ASSUME NEW j \in keys, NEW k \in keys, j # k PROVE Compare(map[j], map[k]) # Equal
        BY <3>1, <3>7
      <3>8. OneEach(map, keys)
        BY <3>4, <3>7, SelfIsEqual DEF OneEach
      <3>9. New \cap ToSet(ids) = {}
        <4>1. \A k \in keys : map[k] \notin ToSet(ids)
          BY <3>4, <3>6, SelfIsEqual
        <4>2. QED BY <4>1
      <3>10. PICK l : l = IdsOf(map, keys)
        OBVIOUS
      <3>11. l \in Seq(UniqueIds) /\ ToSet(l) = New /\ IsInjective(l)
        BY <3>4, <3>8, <3>10, IdsOfIs
      <3>12. DOMAIN l = 1..Len(l) /\ \A j \in 1..Len(l) : \E k \in keys : l[j] = map[k]
        BY <3>11 DEF ToSet
      <3>13. \A a \in ToSet(ids) : \A j \in 1..Len(l) : Compare(a, l[j]) # Equal
        BY <3>6, <3>12
      <3>14. ASSUME NEW m \in 1..Len(l), NEW n \in 1..Len(l), m < n
             PROVE  Compare(l[m], l[n]) # Equal
        <4>1. PICK j \in keys : l[m] = map[j]
          BY <3>12
        <4>2. PICK k \in keys : l[n] = map[k]
          BY <3>12
        <4>3. m # n
          BY <3>14
        <4>4. l[m] # l[n]
          BY <3>11, <3>12, <4>3 DEF IsInjective
        <4>5. QED BY <3>7, <4>1, <4>2, <4>4
      <3>15. Ordered(ToSet(ids) \cup ToSet(l))
        BY <3>3, <3>11
      <3>16. PICK t : t = ids' /\ t \in InsertAll(ids, l)
        BY <2>1, <3>10
      <3>17. Chain(t) /\ ToSet(t) = ToSet(ids) \cup ToSet(l)
        BY <3>2, <3>11, <3>13, <3>14, <3>15, <3>16, InsertAllIs
      <3>18. QED BY <3>8, <3>9, <3>11, <3>16, <3>17 DEF Chain
    <2> HIDE DEF keys
    <2>7. Calm' => /\ IdsIn(i)' = IF i \in Owners THEN IdsIn(i) \cup New ELSE New
                   /\ New \cap ToSet(ids) = {}
                   /\ Chain(ids)' /\ ToSet(ids') = ToSet(ids) \cup New
                   /\ ing'[i].infos = Contexts(i)' /\ OneEach(ing'[i].ctx, Contexts(i)')
      BY <2>3, <2>4, <2>5, <2>6
    <2> HIDE DEF New
    <2>8. QED BY <2>1, <2>3, <2>4, <2>7, IdsCome
  <1>4. QED BY <1>2, <1>3

\* A PUT that is not one of the unusual cases adds the keys it has and the ingest
\* session does not, with their ids.
LEMMA PutBringsIds ==
    ASSUME ServiceInv, IdsRight, NEW i \in Ingest, NEW map \in Map, Found(i),
           NEW seen \in Walks(ing[i].infos, {k \in Key : map[k] # NoId}),
           seen \in SUBSET Contexts(i),
           NEW gone \in Erased(seen, {k \in Key : map[k] # NoId}), PutSeen(i, map, seen, gone)
    PROVE  IdsRight'
  <1> DEFINE keys == {k \in Key : map[k] # NoId}
             old == ing[i].infos
             new == keys \ seen
             moved == [k \in Key |-> IF k \in seen \cap keys THEN Moved(ing[i].ctx[k], map[k])
                                     ELSE ing[i].ctx[k]]
             made == ContextsFor(map, new \ Contexts(i))
             c(done) == [k \in Key |-> IF done /\ made[k] # NoId THEN made[k] ELSE moved[k]]
  <1>1. PICK set \in ForgetAll(ids, IdsOf(moved, gone)) :
          \E r \in AddNew(set, map, InOrder(new)) :
            /\ ids' = r.set
            /\ ing' = [ing EXCEPT ![i].infos = (@ \ gone) \cup r.keys, ![i].ctx = c(r.keys = new)]
            /\ Note(UNION {IF r.keys = new THEN {} ELSE {"halfway"},
                           IF moved # ing[i].ctx THEN {"moved"} ELSE {},
                           IF new \cap Contexts(i) # {} THEN {"readded"} ELSE {},
                           IF gone # {} THEN {"dropped"} ELSE {},
                           Twice(map, keys), Contextless(map, new), CyclicWith(map)})
    BY DEF PutSeen
  <1>2. PICK r \in AddNew(set, map, InOrder(new)) :
            /\ ids' = r.set
            /\ ing' = [ing EXCEPT ![i].infos = (@ \ gone) \cup r.keys, ![i].ctx = c(r.keys = new)]
            /\ Note(UNION {IF r.keys = new THEN {} ELSE {"halfway"},
                           IF moved # ing[i].ctx THEN {"moved"} ELSE {},
                           IF new \cap Contexts(i) # {} THEN {"readded"} ELSE {},
                           IF gone # {} THEN {"dropped"} ELSE {},
                           Twice(map, keys), Contextless(map, new), CyclicWith(map)})
    BY <1>1
  <1>3. /\ odd \subseteq odd' /\ CyclicWith(map) \subseteq odd'
        /\ Contextless(map, new) \subseteq odd'
        /\ "halfway" \in odd' \/ r.keys = new
        /\ "moved" \in odd' \/ moved = ing[i].ctx
        /\ "readded" \in odd' \/ new \cap Contexts(i) = {}
        /\ "dropped" \in odd' \/ gone = {}
    <2> HIDE DEF moved, new, old, keys, c
    <2>1. QED BY <1>2 DEF Note
  <1>4. /\ ing'[i].infos = (old \ gone) \cup r.keys /\ ing'[i].ctx = c(r.keys = new)
        /\ ing'[i].at = ing[i].at
        /\ \A j \in Ingest \ {i} : ing'[j] = ing[j]
    <2>1. DOMAIN ing = Ingest /\ DOMAIN ing[i] = IngestFields /\ IngestShape(ing[i])
      BY DEF ServiceInv, Types, IngestShape
    <2> HIDE DEF moved, new, keys, c
    <2>2. QED BY <1>2, <2>1 DEF IngestFields
  <1>5. i \in Owners /\ i \in Owners'
    BY <1>4 DEF Owners, Found
  <1> DEFINE New == {map[k] : k \in new}
  <1>6. ASSUME Calm'
        PROVE  /\ IdsIn(i)' = IdsIn(i) \cup New /\ New \cap ToSet(ids) = {}
               /\ Chain(ids)' /\ ToSet(ids') = ToSet(ids) \cup New
               /\ ing'[i].infos = Contexts(i)' /\ OneEach(ing'[i].ctx, Contexts(i)')
    <2>1. /\ "cyclic" \notin CyclicWith(map) /\ "contextless" \notin Contextless(map, new)
          /\ r.keys = new /\ moved = ing[i].ctx /\ new \cap Contexts(i) = {} /\ gone = {}
      <3> HIDE DEF moved, new
      <3>1. QED BY <1>3, <1>6 DEF Calm, IdCases
    <2>2. /\ OneEach(ing[i].ctx, Contexts(i)) /\ IdsIn(i) \subseteq ToSet(ids) /\ Chain(ids)
          /\ old = Contexts(i)
      BY <1>3, <1>5, <1>6, CalmBefore, OwnersIds DEF IdsRight
    <2>3. \A k \in Key : made[k] = IF k \in new THEN map[k] ELSE NoId
      <3>1. \A k \in new : map[k] \in Reachable
        <4> HIDE DEF new
        <4>1. QED BY <2>1 DEF Contextless
      <3>2. new \ Contexts(i) = new
        BY <2>1
      <3> HIDE DEF new
      <3>3. QED BY <3>1, <3>2, ContextsAreFor
    <2>4. seen = old
      <3>1. seen \ keys = {}
        BY <2>1 DEF Erased
      <3>2. old \subseteq Key /\ Key \subseteq Nat
        BY <2>2, RegistryAssumption DEF Contexts
      <3> HIDE DEF keys
      <3>3. seen = old \/ \E d \in old \ keys : {k \in old : k <= d} \subseteq seen
        BY DEF Walks, keys
      <3>4. ASSUME NEW d \in old \ keys, {k \in old : k <= d} \subseteq seen
            PROVE  FALSE
        <4>1. d \in old /\ d \notin keys
          BY <3>4
        <4>2. d \in Nat
          BY <3>2, <4>1
        <4>3. d <= d
          BY <4>2
        <4>4. d \in {k \in old : k <= d}
          BY <4>1, <4>3
        <4>5. d \in seen
          BY <3>4, <4>4
        <4>6. QED BY <3>1, <4>1, <4>5
      <3>5. QED BY <3>3, <3>4
    <2>5. Ordered(ToSet(ids) \cup {map[k] : k \in keys})
      BY <2>1, <2>2, OrderedWith
    <2>6. new \in SUBSET Key /\ DOMAIN ing[i].ctx = Key /\ \A k \in new : map[k] # NoId
      BY DEF ServiceInv, Types, IngestShape
    <2>7. Chain(set) /\ ToSet(set) = ToSet(ids)
      <3>1. PICK l : l = IdsOf(ing[i].ctx, {})
        OBVIOUS
      <3>2. l \in Seq(UniqueIds) /\ ToSet(l) = {} /\ IsInjective(l)
        <4>1. OneEach(ing[i].ctx, {}) /\ {} \in SUBSET Key
              /\ \A k \in {} : ing[i].ctx[k] \in UniqueIds
          BY DEF OneEach
        <4>2. {ing[i].ctx[k] : k \in {}} = {}
          OBVIOUS
        <4>3. QED BY <3>1, <4>1, <4>2, IdsOfIs
      <3>3. set \in ForgetAll(ids, l)
        <4>1. set \in ForgetAll(ids, IdsOf(moved, gone)) /\ gone = {} /\ moved = ing[i].ctx
          BY <2>1
        <4> HIDE DEF moved
        <4>2. QED BY <3>1, <4>1
      <3>4. ToSet(l) \subseteq ToSet(ids)
        BY <3>2
      <3>5. Chain(set) /\ ToSet(set) = ToSet(ids) \ ToSet(l)
        BY <2>2, <3>2, <3>3, <3>4, ForgetAllIs
      <3>6. QED BY <3>2, <3>5
    <2>8. PICK l : l = InOrder(new)
      OBVIOUS
    <2>9. l \in Seq(Key) /\ ToSet(l) = new /\ IsInjective(l)
      <3> HIDE DEF new
      <3>1. l \in Seq(new) /\ ToSet(l) = new /\ IsInjective(l)
        BY <2>6, <2>8, InOrderIs
      <3>2. PICK n \in Nat : l \in [1..n -> new]
        BY <3>1, SeqDef
      <3>3. l \in [1..n -> Key]
        BY <2>6, <3>2
      <3>4. l \in Seq(Key)
        BY <3>3, SeqDef
      <3>5. QED BY <3>1, <3>4
    <2>10. Ordered(ToSet(set) \cup {map[k] : k \in ToSet(l)})
      <3>1. ToSet(set) \cup {map[k] : k \in ToSet(l)}
                \in SUBSET (ToSet(ids) \cup {map[k] : k \in keys})
        BY <2>7, <2>9
      <3>2. QED BY <2>5, <3>1, OrderedParts
    <2>11. r \in AddNew(set, map, l) /\ r.keys = ToSet(l)
      BY <1>2, <2>1, <2>8, <2>9
    <2> HIDE DEF new, old, moved, keys
    <2>12. /\ Chain(r.set) /\ ToSet(r.set) = ToSet(set) \cup {map[k] : k \in ToSet(l)}
           /\ \A k \in ToSet(l) : map[k] \notin ToSet(set)
           /\ OneEach(map, ToSet(l))
      BY <2>7, <2>9, <2>10, <2>11, AddNewIs
    <2>13. /\ Chain(ids)' /\ ToSet(ids') = ToSet(ids) \cup New
           /\ \A k \in new : map[k] \notin ToSet(ids)
           /\ OneEach(map, new)
      BY <1>2, <2>7, <2>9, <2>12 DEF Chain
    <2>14. ing'[i].ctx = [k \in Key |-> IF k \in new THEN map[k] ELSE ing[i].ctx[k]]
      <3>1. c(r.keys = new) = [k \in Key |-> IF k \in new THEN map[k] ELSE ing[i].ctx[k]]
        <4> HIDE DEF made, moved, new
        <4>1. QED BY <2>1, <2>6, <2>3
      <3>2. QED BY <1>4, <3>1
    <2>15. Contexts(i)' = Contexts(i) \cup new
      <3>1. Contexts(i)' = {k \in Key : ing'[i].ctx[k] # NoId}
        BY DEF Contexts
      <3>2. Contexts(i) = {k \in Key : ing[i].ctx[k] # NoId}
        BY DEF Contexts
      <3>3. QED BY <2>6, <2>14, <3>1, <3>2
    <2>16. /\ \A k \in new : ing'[i].ctx[k] = map[k]
           /\ \A k \in Contexts(i) : k \notin new /\ ing'[i].ctx[k] = ing[i].ctx[k]
                                     /\ ing[i].ctx[k] \in ToSet(ids)
      <3>1. \A k \in new : ing'[i].ctx[k] = map[k]
        BY <2>6, <2>14
      <3>2. \A k \in Contexts(i) : k \in Key /\ k \notin new /\ ing[i].ctx[k] \in ToSet(ids)
        BY <2>1, <2>2 DEF Contexts, IdsIn
      <3>3. QED BY <2>14, <3>1, <3>2
    <2>17. IdsIn(i)' = IdsIn(i) \cup New
      <3>1. IdsIn(i)' = {ing'[i].ctx[k] : k \in Contexts(i) \cup new}
        BY <2>15 DEF IdsIn
      <3>2. IdsIn(i) = {ing[i].ctx[k] : k \in Contexts(i)}
        BY DEF IdsIn
      <3>3. QED BY <2>16, <3>1, <3>2
    <2>18. OneEach(ing'[i].ctx, Contexts(i)')
      <3>1. ASSUME NEW j \in Contexts(i) \cup new, NEW k \in Contexts(i) \cup new,
                   ing'[i].ctx[j] = ing'[i].ctx[k]
            PROVE  j = k
        <4>1. CASE j \in new /\ k \in new
          BY <2>13, <2>16, <3>1, <4>1 DEF OneEach
        <4>2. CASE j \in Contexts(i) /\ k \in Contexts(i)
          BY <2>2, <2>16, <3>1, <4>2 DEF OneEach
        <4>3. CASE j \in new /\ k \in Contexts(i)
          BY <2>13, <2>16, <3>1, <4>3
        <4>4. CASE j \in Contexts(i) /\ k \in new
          BY <2>13, <2>16, <3>1, <4>4
        <4>5. QED BY <4>1, <4>2, <4>3, <4>4
      <3>2. QED BY <2>15, <3>1 DEF OneEach
    <2>19. ing'[i].infos = Contexts(i)'
      BY <1>4, <2>1, <2>2, <2>15, <2>4
    <2>20. New \cap ToSet(ids) = {}
      BY <2>13
    <2>21. QED BY <2>13, <2>17, <2>18, <2>19, <2>20
  <1>7. Calm' => /\ IdsIn(i)' = IF i \in Owners THEN IdsIn(i) \cup New ELSE New
                 /\ New \cap ToSet(ids) = {}
                 /\ Chain(ids)' /\ ToSet(ids') = ToSet(ids) \cup New
                 /\ ing'[i].infos = Contexts(i)' /\ OneEach(ing'[i].ctx, Contexts(i)')
    <2> HIDE DEF New
    <2>1. QED BY <1>5, <1>6
  <1> HIDE DEF New
  <1>8. QED BY <1>3, <1>4, <1>5, <1>7, IdsCome

LEMMA PutIngestBringsIds ==
    ASSUME ServiceInv, IdsRight, NEW i \in Ingest, NEW map \in Map, NEW ok \in BOOLEAN,
           PutIngest(i, map, ok)
    PROVE  IdsRight'
  <1>1. CASE ~Found(i)
    <2>1. UNCHANGED <<ing, ids, odd>>
      BY <1>1 DEF PutIngest
    <2>2. QED BY <2>1, IdsFrame
  <1>2. CASE Found(i) /\ ~ok
    <2>1. UNCHANGED <<ing, ids>> /\ odd \subseteq odd'
      BY <1>2 DEF PutIngest, Note
    <2>2. QED BY <2>1, IdsFrame
  <1>3. CASE Found(i) /\ ok
    <2>1. Put(i, map)
      BY <1>3 DEF PutIngest
    <2>2. CASE UNCHANGED <<ing, ids>> /\ odd \subseteq odd'
      BY <2>2, IdsFrame
    <2>3. QED BY <1>3, <2>1, <2>2, PutCases, PutBringsIds
  <1>4. QED BY <1>1, <1>2, <1>3

LEMMA IdsInductive == ASSUME ServiceInv, IdsRight, [Next]_vars PROVE IdsRight'
  <1>1. CASE UNCHANGED vars
    <2>1. ids' = ids /\ ing' = ing /\ odd' = odd
      BY <1>1 DEF vars
    <2>2. QED BY <2>1, IdsFrame
  <1>2. ASSUME NEW i \in Ingest, NEW s \in Service, NEW map \in Map, PostIngest(i, s, map)
        PROVE  IdsRight'
    BY <1>2, PostIngestBringsIds
  <1>3. ASSUME NEW i \in Ingest, NEW map \in Map, NEW ok \in BOOLEAN, PutIngest(i, map, ok)
        PROVE  IdsRight'
    BY <1>3, PutIngestBringsIds
  <1>4. ASSUME NEW i \in Ingest,
               DeleteIngestRequest(i) \/ Established(i) \/ CreationFails(i) \/ Deleted(i)
        PROVE  IdsRight'
    BY <1>4, DeleteIngestRequestKeepsIds, EstablishedKeepsIds, GoneTakesIds
  <1>5. ASSUME NEW s \in Service, DeleteService(s) PROVE IdsRight'
    BY <1>5, DeleteServiceKeepsIds
  <1>6. QED
    BY <1>1, <1>2, <1>3, <1>4, <1>5, RequestsKeepIds, HandleRemovalTakesIds
       DEF Next, Handle

LEMMA IdsInit == Init => IdsRight
  <1> SUFFICES ASSUME Init PROVE IdsRight
    OBVIOUS
  <1>1. \A i \in Ingest : ing[i].at = "free"
    BY DEF Init
  <1>2. Owners = {}
    BY <1>1 DEF Owners, Found
  <1>3. ids = << >> /\ Chain(ids) /\ ToSet(ids) = {}
    BY DEF Init, Chain, ToSet
  <1>4. QED BY <1>2, <1>3 DEF IdsRight

LEMMA IdsAlways == Spec => [](RegistryInv /\ IdsRight)
  <1>1. Init => RegistryInv /\ IdsRight
    BY IdsInit, RegistryInit DEF RegistryInv, AnswerInv
  <1>2. RegistryInv /\ IdsRight /\ [Next]_vars => (RegistryInv /\ IdsRight)'
    BY AnswerInductive, IdsInductive DEF RegistryInv
  <1>3. QED BY <1>1, <1>2, PTL DEF Spec

\* Whatever ingest sessions are created, changed and removed, alone or with their
\* services, the registry has the MBS Session Ids of those that exist and no other,
\* and no two of them clash: an id is neither given twice nor left behind, wherever
\* a search in the tree goes, unless one of the unusual cases that IdsExact names
\* has come up (haveMbsSessionId, addMbsSessionId, deleteMbsSessionId).
THEOREM IdsAreExact == Spec => []IdsExact
  <1>1. IdsRight => IdsExact
    <2> SUFFICES ASSUME IdsRight, Calm
                 PROVE  /\ ToSet(ids) = {IdAt(u) : u \in Used}
                        /\ \A u, v \in Used : u # v => ~Clash(IdAt(u), IdAt(v))
      BY DEF IdsExact, Calm, IdCases
    <2>1. /\ Chain(ids)
          /\ \A i \in Owners : ing[i].infos = Contexts(i) /\ OneEach(ing[i].ctx, Contexts(i))
          /\ \A i, j \in Owners : i # j => IdsIn(i) \cap IdsIn(j) = {}
          /\ ToSet(ids) = UNION {IdsIn(i) : i \in Owners}
      BY DEF IdsRight
    <2>2. ASSUME NEW u \in Used
          PROVE  /\ u[1] \in Owners /\ u[2] \in Contexts(u[1]) /\ u = <<u[1], u[2]>>
                 /\ IdAt(u) = ing[u[1]].ctx[u[2]] /\ IdAt(u) \in IdsIn(u[1])
      <3>1. u \in Ingest \X Key /\ u[1] \in Owners /\ u[2] \in ing[u[1]].infos
        BY DEF Used, Owners
      <3>2. u[2] \in Contexts(u[1])
        BY <2>1, <3>1
      <3>3. QED BY <3>1, <3>2 DEF IdAt, IdsIn
    <2>3. ASSUME NEW i \in Owners, NEW k \in Contexts(i)
          PROVE  <<i, k>> \in Used /\ IdAt(<<i, k>>) = ing[i].ctx[k]
      <3>1. i \in Ingest /\ Found(i) /\ k \in Key /\ k \in ing[i].infos
        BY <2>1 DEF Owners, Contexts
      <3>2. QED BY <3>1 DEF Used, IdAt
    <2>4. ToSet(ids) = {IdAt(u) : u \in Used}
      <3>1. ASSUME NEW x \in ToSet(ids) PROVE \E u \in Used : x = IdAt(u)
        <4>1. PICK i \in Owners : x \in IdsIn(i)
          BY <2>1
        <4>2. PICK k \in Contexts(i) : x = ing[i].ctx[k]
          BY <4>1 DEF IdsIn
        <4>3. QED BY <2>3, <4>2
      <3>2. \A u \in Used : IdAt(u) \in ToSet(ids)
        BY <2>1, <2>2
      <3>3. QED BY <3>1, <3>2
    <2>5. ASSUME NEW u \in Used, NEW v \in Used, Clash(IdAt(u), IdAt(v)) PROVE u = v
      <3>1. DOMAIN ids = 1..Len(ids) /\ Len(ids) \in Nat
            /\ \A m \in 1..Len(ids) : ids[m] \in UniqueIds
        BY <2>1 DEF Chain
      <3>2. PICK m \in 1..Len(ids) : ids[m] = IdAt(u)
        BY <2>4, <3>1 DEF ToSet
      <3>3. PICK n \in 1..Len(ids) : ids[n] = IdAt(v)
        BY <2>4, <3>1 DEF ToSet
      <3>4. Compare(ids[m], ids[n]) = Equal
        BY <2>5, <3>1, <3>2, <3>3, ClashIsEqual
      <3>5. Opposite(Compare(ids[m], ids[n]), Compare(ids[n], ids[m]))
        BY <3>1, ComparesAreOpposite
      <3>6. ~(m < n) /\ ~(n < m)
        BY <2>1, <3>4, <3>5 DEF Chain, Opposite, Less, Equal, Greater
      <3>7. m = n
        BY <3>1, <3>6
      <3>8. IdAt(u) = IdAt(v)
        BY <3>2, <3>3, <3>7
      <3>9. u[1] = v[1]
        BY <2>1, <2>2, <3>8
      <3>10. u[2] = v[2]
        BY <2>1, <2>2, <3>8, <3>9 DEF OneEach
      <3>11. QED BY <2>2, <3>9, <3>10
    <2>6. QED BY <2>4, <2>5
  <1>2. QED BY <1>1, IdsAlways, PTL

=============================================================================
