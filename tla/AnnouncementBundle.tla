------------------------- MODULE AnnouncementBundle -------------------------
(***************************************************************************)
(* The announcement bundle of one ingest session: the documents its        *)
(* worker thread writes below docRoot (UserServiceAnnBundle.cc,            *)
(* UserServiceDesc.cc, DistributionSessionDesc.cc and the classes they     *)
(* use) and the multipart answer that the co-located MBS AF, an HTTP       *)
(* server with threads of its own, makes of them                           *)
(* (AnnouncementBundleIndexHandler.cc, MultipartMime.cc).  The list of the *)
(* files and the files themselves are shared without a lock.               *)
(*                                                                         *)
(* When bundles are asked for, and what becomes of them on the             *)
(* announcement channel, is module ServiceAnnouncement's.                  *)
(***************************************************************************)
EXTENDS Integers, Sequences, FiniteSets, FiniteSetsExt, SequencesExt

CONSTANTS None,          \* an optional value that is absent
          Data,          \* the versions of what there is to announce, see DataType
          Repair,        \* objectRepairParameters of the configuration, or None
          AbsoluteRoot,  \* is docRoot configured as an absolute path?
          MaxFailures,   \* writes and flushes that fail
          MaxReads       \* requests for the bundle

Announcement == "announcement.json"
Keys == UNION {DOMAIN Data[v].info : v \in DOMAIN Data}

\* Does the destination of the SSM have an address of the source's family, and
\* has the source an address at all?
Family == {"matching", "mixed", "unaddressed"}

\* A version: the user service's names and descriptions, the schedule with its
\* range, and the infos of the distribution sessions.
DataType(d) ==
    /\ d.names # << >>
    /\ \A k \in DOMAIN d.info :
          /\ {"method", "obj", "area", "fsa", "mbr", "family"} = DOMAIN d.info[k]
          /\ d.info[k].family \in Family

\* The file of a key is the key with ".sdp"; no such name is the announcement's.
ASSUME BundleAssumption ==
    /\ Data # << >> /\ Data \in Seq({Data[v] : v \in DOMAIN Data})
    /\ Announcement \notin Keys
    /\ \A v \in DOMAIN Data : DataType(Data[v])
    /\ AbsoluteRoot \in BOOLEAN /\ MaxFailures \in Nat /\ MaxReads \in Nat

Files == {Announcement} \cup Keys

\* What is left of a content that was not all flushed says nothing of a version.
Cut == [version |-> 0]

VARIABLES ver,      \* the current version of Data
          alive,    \* is the session in the Context?
          sdp,      \* per key: ContextData::sdp, or None
          list,     \* m_nameOfFilesToServe
          disk,     \* the files there are, with their content, or Cut
          meta,     \* the files that have their metadata, whole, beside them
          rebuild,  \* m_rebuild
          wpc,      \* where the worker is
          left,     \* the keys whose SDP it has yet to write
          file,     \* the file it writes, with the content
          reader,   \* the HTTP thread: see Reader
          answer,   \* its last answer, or None
          failures, reads,
          cut,      \* history: the files a flush of which failed in the present build
          spoilt,   \* history: was a file of it not written, or cut?
          mixed,    \* history: did a change come during it that asks for no rebuild?
          up        \* is the process running?

files == <<list, disk, meta>>
vars == <<ver, alive, sdp, files, rebuild, wpc, left, file, reader, answer, failures, reads,
          cut, spoilt, mixed, up>>

\* Is a request under way, at which file is it, what has it read; has the
\* worker been at the files meanwhile, and has the list been cleared?
NoReader == [busy |-> FALSE, at |-> 0, parts |-> << >>, raced |-> FALSE, freed |-> FALSE]

-----------------------------------------------------------------------------
(* The documents.                                                          *)

\* A distribution session that a PUT leaves out keeps its context, and with it
\* its info; so does the announcement.
Contexts == UNION {DOMAIN Data[v].info : v \in 1..ver}
InfoOf(k) == Data[CHOOSE v \in 1..ver : /\ k \in DOMAIN Data[v].info
                                        /\ \A w \in v + 1..ver : k \notin DOMAIN Data[w].info].info[k]
\* The SSM of a context is the one it was made with.
FamilyOf(k) == Data[Min({v \in 1..ver : k \in DOMAIN Data[v].info})].info[k].family
Present(s) == SelectSeq(s, LAMBDA x : x # None)

AvailabilityInfo(area, fsa) == [areas |-> <<area>>, fsa |-> fsa]

\* populateAvailabilityInfo
availabilityInfos(i) ==
    IF i.area = None /\ i.fsa = None THEN None ELSE <<AvailabilityInfo(i.area, i.fsa)>>

\* The content type is guessed from the extension and says nothing new.
ApplicationServiceDesc(prefix, id) == <<prefix, id>>

\* An entry point for each object that is streamed, below the distribution or
\* else the ingest URI.
applicationServiceDescriptions(i) ==
    LET base == IF i.obj.distrUri # None THEN i.obj.distrUri ELSE i.obj.ingUri
        ids == Present(i.obj.ids)
    IN  IF i.obj = None \/ i.obj.mode # "STREAMING" \/ base = None \/ ids = << >> THEN None
        ELSE [n \in DOMAIN ids |-> ApplicationServiceDesc(base, ids[n])]

ObjRepairParameters(k, distrUri) ==
    [base |-> <<Repair.locator, k>>, distr |-> distrUri, backOff |-> Repair.backOff]

\* Only with all of the configuration, for objects with a distribution URI
populateObjRepairParameters(i, k) ==
    IF Repair = None \/ i.obj = None \/ i.obj.distrUri = None THEN None
    ELSE ObjRepairParameters(k, i.obj.distrUri)

DistributionSessionDesc(method, locator, apps, repair, availability) ==
    [method |-> method, locator |-> locator, apps |-> apps, repair |-> repair,
     availability |-> availability]

\* The locator is that of the SDP file.
populateDistributionSessionDesc(k) ==
    LET i == InfoOf(k)
    IN  DistributionSessionDesc(i.method, k, applicationServiceDescriptions(i),
                                populateObjRepairParameters(i, k), availabilityInfos(i))

distributionSessionDescs == {populateDistributionSessionDesc(k) : k \in Contexts}

Named(d) == SelectSeq(d.names, LAMBDA n : n # None /\ n.name # None)
UserServiceDescriptionNames(d) == [n \in DOMAIN Named(d) |-> <<Named(d)[n].name, Named(d)[n].lang>>]
UserServiceDescriptionDescs(d) == [n \in DOMAIN Named(d) |-> <<Named(d)[n].descr, Named(d)[n].lang>>]

UserServiceDesc(names, descriptions, sessions, schedule) ==
    [version |-> ver, names |-> names, descriptions |-> descriptions, sessions |-> sessions,
     schedule |-> schedule]

userServiceDesc ==
    UserServiceDesc(UserServiceDescriptionNames(Data[ver]), UserServiceDescriptionDescs(Data[ver]),
                    distributionSessionDescs, Data[ver].schedule)

\* A name without a description is dereferenced all the same (getServDescrip):
\* nobody catches the exception in the worker's thread.
Describable(d) == \A n \in DOMAIN Named(d) : Named(d)[n].descr # None

\* So is a first name that is absent, and the destination's address of the
\* source's family.
Throws(k) == Data[ver].names[1] = None \/ FamilyOf(k) = "mixed"

\* What an SDP says that may change, and what it is made with.
SdpNow(k) == [version |-> ver, name |-> Data[ver].names[1].name, times |-> Data[ver].range,
              mbr |-> InfoOf(k).mbr]

\* Mutant: the SDP is only made once.
UpdatedSdpOnce(k) == IF sdp[k] = None THEN SdpNow(k) ELSE sdp[k]

\* writeServiceDescriptionProtocolDoc: a new SDP, or the old one with its name,
\* times and media replaced where they differ
UpdatedSdp(k) == SdpNow(k)

-----------------------------------------------------------------------------
(* The main thread.                                                        *)

Init == /\ ver = 1 /\ alive = TRUE /\ up = TRUE
        /\ sdp = [k \in Keys |-> None]
        /\ list = << >> /\ disk = [f \in {} |-> None] /\ meta = {}
        /\ rebuild = TRUE /\ wpc = "test" /\ left = {} /\ file = <<Announcement, None>>
        /\ reader = NoReader /\ answer = None
        /\ failures = 0 /\ reads = 0 /\ cut = {} /\ spoilt = FALSE /\ mixed = FALSE

Working == wpc # "idle"

\* The loop over the contexts has the mutex that a new context needs.
MayAdd == wpc \in {"idle", "test", "describe"} \/ file[1] = Announcement

\* A PUT or the timer that changes what there is to announce.  A PUT of the
\* ingest session, or the timer, then asks for a new bundle (announce) if all
\* its distribution sessions are established; a PUT of the user service, whose
\* name the documents show, never does.
Change(announce) ==
    /\ up /\ alive /\ ver < Len(Data)
    /\ DOMAIN Data[ver + 1].info \subseteq Contexts \/ MayAdd
    /\ ver' = ver + 1
    /\ rebuild' = (rebuild \/ announce)
    /\ wpc' = IF announce /\ ~Working THEN "test" ELSE wpc
    /\ mixed' = (mixed \/ (Working /\ ~announce))
    /\ UNCHANGED <<alive, sdp, files, left, file, reader, answer, failures, reads, cut, spoilt, up>>

\* The session leaves the Context; its files stay.  It goes with the last that
\* refers to it.
Delete ==
    /\ up /\ alive
    /\ alive' = FALSE
    /\ UNCHANGED <<ver, sdp, files, rebuild, wpc, left, file, reader, answer, failures, reads,
                   cut, spoilt, mixed, up>>

\* Does the worker refer to the session?  It does while it writes the
\* announcement, and again from the first SDP on.
WorkerHolds == wpc \in {"body", "meta", "list"} \/ (wpc = "next" /\ file[1] # Announcement)

\* The main thread or the HTTP server's has destroyed the session, and waits for
\* the worker, which it has told to end (~UserServiceAnnBundle).
Destroyed == ~alive /\ ~reader.busy /\ ~WorkerHolds

-----------------------------------------------------------------------------
(* The worker.                                                             *)

Touched == reader' = [reader EXCEPT !.raced = reader.busy]

\* What the worker referred to is destroyed by it when nobody else refers to it:
\* a thread does not join itself, and its handle is destroyed while it runs,
\* which ends the process.
Release == up' = (alive \/ reader.busy)

\* The loop of worker(): the list is emptied, and its nodes are freed.
Begin ==
    /\ up /\ wpc = "test" /\ rebuild /\ ~Destroyed
    /\ rebuild' = FALSE
    /\ list' = << >>
    /\ wpc' = "describe"
    /\ cut' = {} /\ spoilt' = FALSE /\ mixed' = FALSE
    /\ reader' = [reader EXCEPT !.raced = reader.busy, !.freed = reader.busy]
    /\ UNCHANGED <<ver, alive, sdp, disk, meta, left, file, answer, failures, reads, up>>

\* No more to do, or told to end
Finish ==
    /\ up /\ wpc = "test" /\ (~rebuild \/ Destroyed)
    /\ wpc' = "idle" /\ rebuild' = FALSE
    /\ UNCHANGED <<ver, alive, sdp, files, left, file, reader, answer, failures, reads,
                   cut, spoilt, mixed, up>>

\* writeAnnouncement, up to the files
Describe ==
    /\ up /\ wpc = "describe"
    /\ CASE Destroyed -> wpc' = "test" /\ UNCHANGED <<file, up>>
         [] ~Destroyed /\ Describable(Data[ver]) ->
              file' = <<Announcement, userServiceDesc>> /\ wpc' = "body" /\ UNCHANGED up
         [] OTHER -> up' = FALSE /\ UNCHANGED <<file, wpc>>
    /\ Touched
    /\ UNCHANGED <<ver, alive, sdp, files, rebuild, left, answer, failures, reads, cut, spoilt,
                   mixed>>

\* The end of writeAnnouncement or of one SDP
Leave == wpc' = "next" /\ IF file[1] = Announcement THEN Release ELSE UNCHANGED up

\* writeToFile: a temporary file that takes the place of the old one.  It
\* refuses a directory that is not absolute, and only writeAnnouncement makes
\* docRoot absolute.
Refuses == ~AbsoluteRoot /\ file[1] # Announcement
Fails == /\ failures < MaxFailures \/ Refuses
         /\ failures' = IF Refuses THEN failures ELSE failures + 1
         /\ spoilt' = TRUE
         /\ Leave
         /\ UNCHANGED <<disk, meta, cut>>

\* What write() buffers is flushed by close(), which nobody checks: when that
\* fails the file is cut, takes the old one's place, and counts as written.
FlushFails ==
    /\ ~Refuses /\ failures < MaxFailures
    /\ failures' = failures + 1
    /\ cut' = cut \cup {file[1]} /\ spoilt' = TRUE
Flushed == ~Refuses /\ UNCHANGED <<failures, cut, spoilt>>
Put(content) ==
    disk' = [f \in DOMAIN disk \cup {file[1]} |-> IF f = file[1] THEN content ELSE disk[f]]

WriteBody ==
    /\ up /\ wpc = "body"
    /\ \/ /\ \/ Flushed /\ Put(file[2])
             \/ FlushFails /\ Put(Cut)
          /\ wpc' = "meta"
          /\ UNCHANGED <<meta, up>>
       \/ Fails
    /\ Touched
    /\ UNCHANGED <<ver, alive, sdp, list, rebuild, left, file, answer, reads, mixed>>

WriteMeta ==
    /\ up /\ wpc = "meta"
    /\ \/ /\ \/ Flushed /\ meta' = meta \cup {file[1]}
             \/ FlushFails /\ meta' = meta \ {file[1]}
          /\ wpc' = "list"
          /\ UNCHANGED <<disk, up>>
       \/ Fails
    /\ Touched
    /\ UNCHANGED <<ver, alive, sdp, list, rebuild, left, file, answer, reads, mixed>>

\* Mutant: an SDP file is listed whether or not it was written.
AddToServingFilesAlways ==
    /\ up /\ wpc \in {"list", "next"}
    /\ wpc = "next" => spoilt /\ ~ \E i \in DOMAIN list : list[i] = file[1]
    /\ list' = Append(list, file[1])
    /\ Leave
    /\ Touched
    /\ UNCHANGED <<ver, alive, sdp, disk, meta, rebuild, left, file, answer, failures, reads,
                   cut, spoilt, mixed>>

AddToServingFiles ==
    /\ up /\ wpc = "list"
    /\ list' = Append(list, file[1])
    /\ Leave
    /\ Touched
    /\ UNCHANGED <<ver, alive, sdp, disk, meta, rebuild, left, file, answer, failures, reads,
                   cut, spoilt, mixed>>

\* writeServiceDescriptionProtocolDoc for key k, up to the files.  What it
\* throws ends the process; without an address there is no SDP.
NextSdp(k) ==
    /\ up' = ~Throws(k)
    /\ IF FamilyOf(k) = "unaddressed"
       THEN file' = <<k, None>> /\ spoilt' = TRUE /\ UNCHANGED <<sdp, wpc>>
       ELSE /\ sdp' = [sdp EXCEPT ![k] = UpdatedSdp(k)]
            /\ file' = <<k, UpdatedSdp(k)>>
            /\ wpc' = "body"
            /\ UNCHANGED spoilt

\* The next of the contexts; after the last one, or when the session is gone,
\* the loop of worker() again
NextFile ==
    /\ up /\ wpc = "next"
    /\ LET todo == IF Destroyed THEN {}
                   ELSE IF file[1] = Announcement THEN Contexts ELSE left
       IN  IF todo = {}
           THEN /\ wpc' = "test" /\ UNCHANGED <<sdp, left, file, spoilt>>
                /\ IF Destroyed THEN UNCHANGED up ELSE Release
           ELSE \E k \in todo : NextSdp(k) /\ left' = todo \ {k}
    /\ Touched
    /\ UNCHANGED <<ver, alive, files, rebuild, answer, failures, reads, cut, mixed>>

-----------------------------------------------------------------------------
(* The HTTP server.                                                        *)

\* AnnouncementBundleIndexHandler::makeResponseForDir, up to its loop
Request ==
    /\ up /\ ~reader.busy /\ reads < MaxReads
    /\ reads' = reads + 1
    /\ IF ~alive \/ list = << >>
       THEN answer' = [status |-> 404] /\ UNCHANGED reader
       ELSE /\ reader' = [NoReader EXCEPT !.busy = TRUE, !.at = 1, !.raced = Working]
            /\ UNCHANGED answer
    /\ UNCHANGED <<ver, alive, sdp, files, rebuild, wpc, left, file, failures, cut, spoilt, mixed,
                   up>>

\* MultipartMime::addFile for the next file of the list
ReadFile ==
    /\ up /\ reader.busy /\ ~reader.freed /\ reader.at <= Len(list)
    /\ LET f == list[reader.at]
       IN  reader' = [reader EXCEPT !.at = @ + 1,
                                    !.parts = Append(@, [file |-> f, body |-> disk[f],
                                                         typed |-> f \in meta])]
    /\ UNCHANGED <<ver, alive, sdp, files, rebuild, wpc, left, file, answer, failures, reads,
                   cut, spoilt, mixed, up>>

\* The end of the loop, or what a loop over freed nodes may come to: the end
\* of the process, or an answer with what it has.
Respond ==
    /\ up /\ reader.busy /\ (reader.freed \/ reader.at > Len(list))
    /\ up' \in IF reader.freed THEN BOOLEAN ELSE {TRUE}
    /\ answer' = [status |-> 200, parts |-> reader.parts, raced |-> reader.raced,
                  spoilt |-> spoilt, mixed |-> mixed]
    /\ reader' = NoReader
    /\ UNCHANGED <<ver, alive, sdp, files, rebuild, wpc, left, file, failures, reads, cut,
                   spoilt, mixed>>

Next == \/ \E announce \in BOOLEAN : Change(announce)
        \/ Delete \/ Begin \/ Finish \/ Describe \/ WriteBody \/ WriteMeta \/ AddToServingFiles
        \/ NextFile \/ Request \/ ReadFile \/ Respond

Spec == Init /\ [][Next]_vars

-----------------------------------------------------------------------------
(* Properties.                                                             *)

\* Types.
TypeOK ==
    /\ ver \in DOMAIN Data /\ wpc \in {"idle", "test", "describe", "body", "meta", "list", "next"}
    /\ list \in Seq(Files) /\ DOMAIN disk \subseteq Files /\ left \subseteq Keys
    /\ meta \subseteq Files /\ cut \subseteq Files
    /\ {alive, rebuild, spoilt, mixed, up} \subseteq BOOLEAN

\* Whichever write fails and whenever the list is looked at, a file that is listed
\* is on the disk and is listed once, and its content and its metadata are whole,
\* unless the flush of one of them failed, the one failure that writeToFile does
\* not notice: a request can find a bundle incomplete, but neither a dangling
\* name in it nor another file cut (writeAnnouncement and
\* writeServiceDescriptionProtocolDoc list a file after both writes).
ListedIsThere ==
    /\ \A i \in DOMAIN list :
          /\ list[i] \in DOMAIN disk
          /\ list[i] \notin cut => disk[list[i]] # Cut /\ list[i] \in meta
    /\ \A i, j \in DOMAIN list : list[i] = list[j] => i = j

\* An answer to a request that no build overlapped, after a build that wrote all
\* its files whole, is a whole bundle of one version: the announcement, and behind
\* each of its locators the SDP, all with the version the announcement has.
\* (A change that asks for no rebuild may mix two versions.)
WholeBundle(parts) ==
    LET a == parts[1].body
    IN  /\ parts[1].file = Announcement
        /\ {d.locator : d \in a.sessions} = {parts[i].file : i \in 2..Len(parts)}
        /\ \A i \in DOMAIN parts : parts[i].typed /\ parts[i].body.version = a.version
AnswerWhole ==
    (/\ answer # None /\ answer.status = 200
     /\ ~answer.raced /\ ~answer.spoilt /\ ~answer.mixed) => WholeBundle(answer.parts)
=============================================================================
