--------------------- MODULE AnnouncementBundle_proofs ---------------------
(***************************************************************************)
(* Proofs that the list of files never names a file that is not there, nor *)
(* one that is cut but for a flush that failed, and that an answer no build*)
(* overlapped is a whole bundle of one version, for any number of versions,*)
(* distribution sessions, failures and requests.                           *)
(***************************************************************************)
EXTENDS AnnouncementBundle, TLAPS

USE BundleAssumption

\* The worker is at a file it has not listed yet.
AtFile == wpc \in {"body", "meta", "list"}

BundleTypes ==
    /\ ver \in 1..Len(Data) /\ left \subseteq Keys /\ file[1] \in Files
    /\ list \in Seq(Files) /\ DOMAIN disk \subseteq Files
    /\ meta \subseteq Files /\ cut \subseteq Files
    /\ wpc \in {"idle", "test", "describe", "body", "meta", "list", "next"}

\* What is written before the file at hand may be listed: the whole content and
\* then the metadata, but for a flush that failed.
Written ==
    /\ AtFile => file[2] # Cut
    /\ wpc \in {"meta", "list"} =>
          file[1] \in DOMAIN disk /\ (file[1] \notin cut => disk[file[1]] # Cut)
    /\ wpc = "list" => file[1] \in meta \cup cut

\* What is yet to be listed: the file at hand, and after it those of the keys
\* left; after the announcement, those of all contexts.
Unlisted ==
    /\ wpc = "describe" => list = << >>
    /\ AtFile => \A i \in DOMAIN list : list[i] # file[1]
    /\ AtFile \/ wpc = "next" =>
         IF file[1] = Announcement THEN \A i \in DOMAIN list : list[i] = Announcement
         ELSE file[1] \notin left /\ \A i \in DOMAIN list : list[i] \notin left

BundleInv == BundleTypes /\ Written /\ Unlisted /\ ListedIsThere

-----------------------------------------------------------------------------
LEMMA ContextsAreKeys == BundleTypes => Contexts \subseteq Keys
  BY DEF BundleTypes, Contexts, Keys

LEMMA BundleInit == Init => BundleInv
  <1> SUFFICES ASSUME Init PROVE BundleInv
    OBVIOUS
  <1>1. BundleTypes
    <2>1. 1 \in 1..Len(Data)
      OBVIOUS
    <2>2. QED BY <2>1 DEF Init, BundleTypes, Files
  <1>2. Written /\ Unlisted /\ ListedIsThere
    BY DEF Init, Written, Unlisted, AtFile, ListedIsThere
  <1>3. QED BY <1>1, <1>2 DEF BundleInv

\* Nothing changes for the files when no worker step is taken: a change of
\* what there is to announce can only wake an idle worker.
LEMMA BundleFrame ==
    ASSUME BundleInv, UNCHANGED <<files, left, file, cut>>, ver' \in 1..Len(Data),
           wpc' = wpc \/ (wpc = "idle" /\ wpc' = "test")
                      \/ (wpc = "test" /\ wpc' = "idle")
    PROVE  BundleInv'
  <1>1. UNCHANGED <<list, disk, meta, left, file, cut>>
    BY DEF files
  <1>2. BundleTypes'
    BY <1>1 DEF BundleInv, BundleTypes
  <1>3. Written' /\ Unlisted'
    BY <1>1 DEF BundleInv, Written, Unlisted, AtFile
  <1>4. ListedIsThere'
    BY <1>1 DEF BundleInv, ListedIsThere
  <1>5. QED BY <1>2, <1>3, <1>4 DEF BundleInv

LEMMA ChangeBundle ==
    ASSUME BundleInv, NEW announce \in BOOLEAN, Change(announce)
    PROVE  BundleInv'
  <1>1. ver' \in 1..Len(Data)
    BY DEF Change, BundleInv, BundleTypes
  <1>2. wpc' = wpc \/ (wpc = "idle" /\ wpc' = "test")
    BY DEF Change, Working
  <1>3. UNCHANGED <<files, left, file, cut>>
    BY DEF Change
  <1>4. QED BY <1>1, <1>2, <1>3, BundleFrame

\* The main thread's deletion, the end of the worker and the HTTP server.
LEMMA OthersBundle ==
    ASSUME BundleInv, Delete \/ Finish \/ Request \/ ReadFile \/ Respond
    PROVE  BundleInv'
  <1>1. ver' \in 1..Len(Data)
    BY DEF Delete, Finish, Request, ReadFile, Respond, BundleInv, BundleTypes
  <1>2. wpc' = wpc \/ (wpc = "test" /\ wpc' = "idle")
    BY DEF Delete, Finish, Request, ReadFile, Respond
  <1>3. UNCHANGED <<files, left, file, cut>>
    BY DEF Delete, Finish, Request, ReadFile, Respond
  <1>4. QED BY <1>1, <1>2, <1>3, BundleFrame

LEMMA BeginBundle == BundleInv /\ Begin => BundleInv'
  <1> SUFFICES ASSUME BundleInv, Begin PROVE BundleInv'
    OBVIOUS
  <1>1. BundleTypes'
    BY DEF Begin, BundleInv, BundleTypes
  <1>2. Written' /\ Unlisted' /\ ListedIsThere'
    BY DEF Begin, Written, Unlisted, AtFile, ListedIsThere
  <1>3. QED BY <1>1, <1>2 DEF BundleInv

\* The announcement and the SDPs are of some version.
LEMMA NotCut ==
    ASSUME BundleTypes, NEW content, content.version = ver
    PROVE  content # Cut
  <1>1. ver # 0
    BY DEF BundleTypes
  <1>2. QED BY <1>1 DEF Cut

\* The announcement comes first, when nothing is listed.
LEMMA DescribeBundle == BundleInv /\ Describe => BundleInv'
  <1> SUFFICES ASSUME BundleInv, Describe PROVE BundleInv'
    OBVIOUS
  <1>1. UNCHANGED <<ver, list, disk, meta, left, cut>>
    BY DEF Describe, files
  <1>2. \/ wpc' \in {"describe", "test"} /\ file' = file
        \/ wpc' = "body" /\ file'[1] = Announcement /\ file'[2] # Cut
    <2>1. userServiceDesc # Cut
      BY NotCut DEF BundleInv, userServiceDesc, UserServiceDesc
    <2>2. CASE Destroyed
      BY <2>2 DEF Describe
    <2>3. CASE ~Destroyed /\ Describable(Data[ver])
      BY <2>1, <2>3 DEF Describe
    <2>4. CASE ~Destroyed /\ ~Describable(Data[ver])
      BY <2>4 DEF Describe
    <2>5. QED BY <2>2, <2>3, <2>4
  <1>3. list = << >>
    BY DEF Describe, BundleInv, Unlisted
  <1>4. BundleTypes'
    BY <1>1, <1>2 DEF BundleInv, BundleTypes, Files
  <1>5. Written' /\ Unlisted'
    BY <1>1, <1>2, <1>3 DEF BundleInv, Written, Unlisted, AtFile, Describe
  <1>6. ListedIsThere'
    BY <1>1 DEF BundleInv, ListedIsThere
  <1>7. QED BY <1>4, <1>5, <1>6 DEF BundleInv

\* A write that fails leaves the file unlisted for good.
LEMMA FailsBundle ==
    ASSUME BundleInv, AtFile, Fails, UNCHANGED <<ver, list, left, file>>
    PROVE  BundleInv'
  <1>1. UNCHANGED <<disk, meta, cut>> /\ wpc' = "next"
    BY DEF Fails, Leave
  <1>2. BundleTypes'
    BY <1>1 DEF BundleInv, BundleTypes
  <1>3. Written' /\ Unlisted'
    BY <1>1 DEF BundleInv, Written, Unlisted, AtFile
  <1>4. ListedIsThere'
    BY <1>1 DEF BundleInv, ListedIsThere
  <1>5. QED BY <1>2, <1>3, <1>4 DEF BundleInv

LEMMA WriteBodyBundle == BundleInv /\ WriteBody => BundleInv'
  <1> SUFFICES ASSUME BundleInv, WriteBody PROVE BundleInv'
    OBVIOUS
  <1>1. AtFile /\ UNCHANGED <<ver, list, left, file>>
    BY DEF WriteBody, AtFile
  <1>2. CASE Fails
    BY <1>1, <1>2, FailsBundle
  <1>3. CASE ~Fails
    <2>1. /\ DOMAIN disk' = DOMAIN disk \cup {file[1]} /\ meta' = meta /\ wpc' = "meta"
          /\ \A f \in DOMAIN disk : f # file[1] => disk'[f] = disk[f]
          /\ cut \subseteq cut' /\ cut' \subseteq cut \cup {file[1]}
          /\ file[1] \notin cut' => disk'[file[1]] = file[2]
      BY <1>3 DEF WriteBody, Flushed, FlushFails, Put
    <2>2. BundleTypes'
      BY <1>1, <2>1 DEF BundleInv, BundleTypes
    <2>3. Written' /\ Unlisted'
      BY <1>1, <2>1 DEF BundleInv, Written, Unlisted, AtFile
    <2>4. ListedIsThere'
      BY <1>1, <2>1 DEF BundleInv, ListedIsThere, Unlisted
    <2>5. QED BY <2>2, <2>3, <2>4 DEF BundleInv
  <1>4. QED BY <1>2, <1>3

LEMMA WriteMetaBundle == BundleInv /\ WriteMeta => BundleInv'
  <1> SUFFICES ASSUME BundleInv, WriteMeta PROVE BundleInv'
    OBVIOUS
  <1>1. AtFile /\ wpc = "meta" /\ UNCHANGED <<ver, list, left, file>>
    BY DEF WriteMeta, AtFile
  <1>2. CASE Fails
    BY <1>1, <1>2, FailsBundle
  <1>3. CASE ~Fails
    <2>1. /\ disk' = disk /\ wpc' = "list" /\ meta' \subseteq meta \cup {file[1]}
          /\ \A f \in meta : f # file[1] => f \in meta'
          /\ cut \subseteq cut' /\ cut' \subseteq cut \cup {file[1]}
          /\ file[1] \in meta' \cup cut'
      BY <1>3 DEF WriteMeta, Flushed, FlushFails
    <2>2. BundleTypes'
      BY <1>1, <2>1 DEF BundleInv, BundleTypes
    <2>3. Written' /\ Unlisted'
      BY <1>1, <2>1 DEF BundleInv, Written, Unlisted, AtFile
    <2>4. ListedIsThere'
      BY <1>1, <2>1 DEF BundleInv, ListedIsThere, Unlisted
    <2>5. QED BY <2>2, <2>3, <2>4 DEF BundleInv
  <1>4. QED BY <1>2, <1>3

\* The file at hand, which has both, joins the list.
LEMMA AddBundle == BundleInv /\ AddToServingFiles => BundleInv'
  <1> SUFFICES ASSUME BundleInv, AddToServingFiles PROVE BundleInv'
    OBVIOUS
  <1>1. /\ UNCHANGED <<ver, disk, meta, left, file, cut>> /\ wpc = "list"
        /\ wpc' = "next" /\ list' = Append(list, file[1])
    BY DEF AddToServingFiles, Leave
  <1>2. BundleTypes'
    BY <1>1 DEF BundleInv, BundleTypes
  <1>3. /\ DOMAIN list' = 1..Len(list) + 1 /\ DOMAIN list = 1..Len(list) /\ Len(list) \in Nat
        /\ \A i \in DOMAIN list' : list'[i] = IF i \in DOMAIN list THEN list[i] ELSE file[1]
        /\ \A i, j \in DOMAIN list' \ DOMAIN list : i = j
    BY <1>1 DEF BundleInv, BundleTypes
  <1>4. Written' /\ Unlisted'
    BY <1>1, <1>3 DEF BundleInv, Written, Unlisted, AtFile
  <1>5. ListedIsThere'
    <2>1. \A i \in DOMAIN list' :
             /\ list'[i] \in DOMAIN disk'
             /\ list'[i] \notin cut' => disk'[list'[i]] # Cut /\ list'[i] \in meta'
      BY <1>1, <1>3 DEF BundleInv, ListedIsThere, Written
    <2>2. ASSUME NEW i \in DOMAIN list', NEW j \in DOMAIN list', list'[i] = list'[j]
          PROVE  i = j
      BY <1>1, <1>3, <2>2 DEF BundleInv, ListedIsThere, Unlisted, AtFile
    <2>3. QED BY <2>1, <2>2 DEF ListedIsThere
  <1>6. QED BY <1>2, <1>4, <1>5 DEF BundleInv

\* The next key has not been listed: it is one of those left, or this is the
\* first after the announcement.
LEMMA NextFileBundle == BundleInv /\ NextFile => BundleInv'
  <1> SUFFICES ASSUME BundleInv, NextFile PROVE BundleInv'
    OBVIOUS
  <1> DEFINE all == IF file[1] = Announcement THEN Contexts ELSE left
             todo == IF Destroyed THEN {} ELSE all
  <1>1. UNCHANGED <<ver, list, disk, meta, cut>> /\ wpc = "next"
    BY DEF NextFile, files
  <1>2. ListedIsThere'
    BY <1>1 DEF BundleInv, ListedIsThere
  <1>3. CASE todo = {}
    <2>1. UNCHANGED <<left, file>> /\ wpc' = "test"
      BY <1>3 DEF NextFile
    <2>2. BundleTypes' /\ Written' /\ Unlisted'
      BY <1>1, <2>1 DEF BundleInv, BundleTypes, Written, Unlisted, AtFile
    <2>3. QED BY <1>2, <2>2 DEF BundleInv
  <1>4. CASE todo # {}
    <2>1. PICK k \in todo : NextSdp(k) /\ left' = todo \ {k}
      BY <1>4 DEF NextFile
    <2>2. todo \subseteq Keys /\ todo = all
      BY <1>4, ContextsAreKeys DEF BundleInv, BundleTypes
    <2>3. /\ file'[1] = k /\ k # Announcement
          /\ \/ wpc' = "next"
             \/ wpc' = "body" /\ file'[2] # Cut
      <3>1. UpdatedSdp(k) # Cut
        BY NotCut DEF BundleInv, UpdatedSdp, SdpNow
      <3>2. QED BY <1>1, <2>1, <2>2, <3>1 DEF NextSdp
    <2>4. \A i \in DOMAIN list : list[i] \notin todo
      BY <1>1, <2>2 DEF BundleInv, Unlisted
    <2>5. BundleTypes'
      BY <1>1, <2>1, <2>2, <2>3 DEF BundleInv, BundleTypes, Files
    <2>6. Written' /\ Unlisted'
      BY <1>1, <2>1, <2>3, <2>4 DEF Written, Unlisted, AtFile
    <2>7. QED BY <1>2, <2>5, <2>6 DEF BundleInv
  <1>5. QED BY <1>3, <1>4

-----------------------------------------------------------------------------
LEMMA BundleNext == BundleInv /\ [Next]_vars => BundleInv'
  <1> SUFFICES ASSUME BundleInv, [Next]_vars PROVE BundleInv'
    OBVIOUS
  <1>1. CASE \E announce \in BOOLEAN : Change(announce)
    BY <1>1, ChangeBundle
  <1>2. CASE Begin
    BY <1>2, BeginBundle
  <1>3. CASE Describe
    BY <1>3, DescribeBundle
  <1>4. CASE WriteBody
    BY <1>4, WriteBodyBundle
  <1>5. CASE WriteMeta
    BY <1>5, WriteMetaBundle
  <1>6. CASE AddToServingFiles
    BY <1>6, AddBundle
  <1>7. CASE NextFile
    BY <1>7, NextFileBundle
  <1>8. CASE Delete \/ Finish \/ Request \/ ReadFile \/ Respond
    BY <1>8, OthersBundle
  <1>9. CASE UNCHANGED vars
    <2>1. UNCHANGED <<ver, files, left, file, cut, wpc>>
      BY <1>9 DEF vars
    <2>2. ver' \in 1..Len(Data)
      BY <2>1 DEF BundleInv, BundleTypes
    <2>3. QED BY <2>1, <2>2, BundleFrame
  <1>10. QED BY <1>1, <1>2, <1>3, <1>4, <1>5, <1>6, <1>7, <1>8, <1>9 DEF Next

\* The list, the files and the place of the worker always agree: what is listed
\* was written, whole but for a flush that failed unnoticed, and what is to be
\* listed is not in the list yet (writeAnnouncement,
\* writeServiceDescriptionProtocolDoc, writeToFile, addToServingFiles).
THEOREM BundleConsistent == Spec => []BundleInv
  BY BundleInit, BundleNext, PTL DEF Spec

\* Whichever writes and flushes fail, however requests, builds and the end of the
\* session interleave: a file that is listed is on the disk, is listed once, and
\* is whole with its metadata unless it is one that a flush cut (writeToFile).
THEOREM NothingDangles == Spec => []ListedIsThere
  <1>1. BundleInv => ListedIsThere
    BY DEF BundleInv
  <1>2. QED BY BundleConsistent, <1>1, PTL

-----------------------------------------------------------------------------
(* Answers.                                                                *)

\* Unless a write failed or a change came in between, what the worker has
\* listed so far is of the present version: the announcement first, then SDPs
\* of contexts, all of which it will have written at the end.
Clean == ~rebuild /\ ~spoilt /\ ~mixed
Current(f) == f \in DOMAIN disk \cap meta /\ disk[f].version = ver
SoFar ==
    /\ list # << >> /\ list[1] = Announcement /\ disk[Announcement] = userServiceDesc
    /\ \A i \in DOMAIN list : Current(list[i])
Sdps == {list[i] : i \in 2..Len(list)}

AnnouncementBuilt ==
    Clean /\ file[1] = Announcement =>
        /\ AtFile => list = << >> /\ file[2] = userServiceDesc
        /\ wpc \in {"meta", "list"} => disk[Announcement] = userServiceDesc
        /\ wpc = "list" => Announcement \in meta
        /\ wpc = "next" => SoFar /\ Len(list) = 1

SdpsBuilt ==
    Clean /\ file[1] # Announcement =>
        /\ AtFile => SoFar /\ Sdps \cup {file[1]} \cup left = Contexts /\ file[2].version = ver
        /\ wpc \in {"meta", "list"} => disk[file[1]].version = ver
        /\ wpc = "list" => file[1] \in meta
        /\ wpc = "next" => SoFar /\ Sdps \cup left = Contexts

\* A whole bundle is listed.
Whole ==
    /\ list # << >> /\ list[1] = Announcement
    /\ {d.locator : d \in disk[Announcement].sessions} = Sdps
    /\ \A i \in DOMAIN list : list[i] \in meta /\ disk[list[i]].version = disk[Announcement].version

\* Somebody refers to the session but for the worker, and so it does not end early.
Live == alive \/ reader.busy
Complete == Live => /\ wpc = "test" /\ Clean => Whole
                    /\ wpc = "idle" /\ ~spoilt /\ ~mixed => Whole

\* A request that no build overlaps has read the first files of a whole bundle.
ReaderFields == {"busy", "at", "parts", "raced", "freed"}
Part(f) == [file |-> f, body |-> disk[f], typed |-> f \in meta]
ReaderIs ==
    /\ DOMAIN reader = ReaderFields
    /\ reader.busy /\ ~reader.raced =>
          /\ ~reader.freed /\ reader.at \in 1..Len(list) + 1
          /\ reader.parts = [i \in 1..reader.at - 1 |-> Part(list[i])]
          /\ ~spoilt /\ ~mixed => Whole

AnswerInv == BundleInv /\ AnnouncementBuilt /\ SdpsBuilt /\ Complete /\ ReaderIs /\ AnswerWhole

-----------------------------------------------------------------------------
LEMMA DescIs == /\ userServiceDesc.version = ver
                /\ {d.locator : d \in userServiceDesc.sessions} = Contexts
  <1>1. userServiceDesc.version = ver /\ userServiceDesc.sessions = distributionSessionDescs
    BY DEF userServiceDesc, UserServiceDesc
  <1>2. \A k : populateDistributionSessionDesc(k).locator = k
    BY DEF populateDistributionSessionDesc, DistributionSessionDesc
  <1>3. {d.locator : d \in distributionSessionDescs} = Contexts
    BY <1>2 DEF distributionSessionDescs
  <1>4. QED BY <1>1, <1>3

\* What a version has to say does not depend on anything else.
LEMMA VerFrame == ver' = ver => Contexts' = Contexts /\ userServiceDesc' = userServiceDesc
  <1> SUFFICES ASSUME ver' = ver PROVE Contexts' = Contexts /\ userServiceDesc' = userServiceDesc
    OBVIOUS
  <1>1. Contexts' = Contexts
    BY DEF Contexts
  <1>2. ASSUME NEW k PROVE InfoOf(k)' = InfoOf(k)
    BY DEF InfoOf
  <1>3. ASSUME NEW k PROVE populateDistributionSessionDesc(k)' = populateDistributionSessionDesc(k)
    BY <1>2 DEF populateDistributionSessionDesc
  <1>4. distributionSessionDescs' = distributionSessionDescs
    BY <1>1, <1>3 DEF distributionSessionDescs
  <1>5. userServiceDesc' = userServiceDesc
    BY <1>4 DEF userServiceDesc, UserServiceDesc
  <1>6. QED BY <1>1, <1>5

\* The files are as they were.
LEMMA WholeFrame == UNCHANGED files => (Whole' <=> Whole) /\ \A f : Part(f)' = Part(f)
  BY DEF files, Whole, Sdps, Part

LEMMA ReaderFrame ==
    ASSUME ReaderIs, AnswerWhole, UNCHANGED <<files, reader, answer>>,
           spoilt' = spoilt, mixed \/ mixed' => mixed'
    PROVE  ReaderIs' /\ AnswerWhole'
  <1>1. UNCHANGED <<list, disk, meta>>
    BY DEF files
  <1>2. AnswerWhole'
    BY DEF AnswerWhole
  <1>3. ReaderIs'
    <2>1. Whole' <=> Whole
      BY WholeFrame
    <2>2. \A n : [i \in 1..n |-> Part(list[i])]' = [i \in 1..n |-> Part(list[i])]
      BY <1>1 DEF Part
    <2>3. QED BY <1>1, <2>1 DEF ReaderIs, Part
  <1>4. QED BY <1>2, <1>3

\* The worker has been at the files.
LEMMA TouchedReader ==
    ASSUME ReaderIs, AnswerWhole, answer' = answer,
           reader' \in {[reader EXCEPT !.raced = reader.busy],
                        [reader EXCEPT !.raced = reader.busy, !.freed = reader.busy]}
    PROVE  ReaderIs' /\ AnswerWhole'
  <1>1. AnswerWhole'
    BY DEF AnswerWhole
  <1>2. DOMAIN reader' = ReaderFields /\ reader'.raced = reader'.busy
    BY DEF ReaderIs, ReaderFields
  <1>3. ReaderIs'
    BY <1>2 DEF ReaderIs
  <1>4. QED BY <1>1, <1>3

LEMMA AnswerInit == Init => AnswerInv
  <1> SUFFICES ASSUME Init PROVE AnswerInv
    OBVIOUS
  <1>1. BundleInv
    BY BundleInit
  <1>2. AnnouncementBuilt /\ SdpsBuilt /\ Complete
    BY DEF Init, AnnouncementBuilt, SdpsBuilt, Complete, Clean
  <1>3. ReaderIs /\ AnswerWhole
    BY DEF Init, ReaderIs, ReaderFields, NoReader, AnswerWhole
  <1>4. QED BY <1>1, <1>2, <1>3 DEF AnswerInv

LEMMA ChangeAnswer ==
    ASSUME AnswerInv, NEW announce \in BOOLEAN, Change(announce)
    PROVE  AnswerInv'
  <1>1. /\ BundleInv' /\ UNCHANGED <<files, reader, answer, left, file>> /\ spoilt' = spoilt
        /\ rebuild' = (rebuild \/ announce) /\ mixed' = (mixed \/ (Working /\ ~announce))
        /\ wpc' = IF announce /\ ~Working THEN "test" ELSE wpc
        /\ Live /\ Live'
    BY ChangeBundle DEF AnswerInv, Change, Live
  <1>2. ReaderIs' /\ AnswerWhole'
    BY <1>1, ReaderFrame DEF AnswerInv
  <1>3. CASE announce \/ Working
    <2>1. ~Clean' /\ (wpc' = "idle" => mixed')
      BY <1>1, <1>3 DEF Clean, Working
    <2>2. QED BY <1>1, <1>2, <2>1 DEF AnswerInv, AnnouncementBuilt, SdpsBuilt, Complete
  <1>4. CASE ~announce /\ ~Working
    <2>1. wpc' = "idle" /\ wpc = "idle" /\ (~mixed' => ~mixed)
      BY <1>1, <1>4 DEF Working
    <2>2. AnnouncementBuilt' /\ SdpsBuilt'
      BY <2>1 DEF AnnouncementBuilt, SdpsBuilt, AtFile
    <2>3. Complete'
      BY <1>1, <2>1, WholeFrame DEF AnswerInv, Complete
    <2>4. QED BY <1>1, <1>2, <2>2, <2>3 DEF AnswerInv
  <1>5. QED BY <1>3, <1>4

\* Nothing is built.
LEMMA BuiltFrame ==
    ASSUME AnswerInv, UNCHANGED <<ver, files, rebuild, wpc, left, file, spoilt, mixed>>,
           Live' => Live
    PROVE  (AnnouncementBuilt /\ SdpsBuilt /\ Complete)'
  <1>1. UNCHANGED <<list, disk, meta>>
    BY DEF files
  <1>2. Contexts' = Contexts /\ userServiceDesc' = userServiceDesc
    BY VerFrame
  <1>3. (SoFar' <=> SoFar) /\ Sdps' = Sdps /\ (Clean' <=> Clean) /\ (AtFile' <=> AtFile)
    BY <1>1, <1>2 DEF SoFar, Current, Sdps, Clean, AtFile
  <1>4. QED BY <1>1, <1>2, <1>3, WholeFrame DEF AnswerInv, AnnouncementBuilt, SdpsBuilt, Complete

\* It ends because there is no more to do, or because the session does.
LEMMA FinishAnswer == AnswerInv /\ Finish => AnswerInv'
  <1> SUFFICES ASSUME AnswerInv, Finish PROVE AnswerInv'
    OBVIOUS
  <1>1. /\ BundleInv' /\ UNCHANGED <<files, reader, answer, spoilt, mixed, alive>>
        /\ wpc = "test" /\ wpc' = "idle" /\ (Live => ~rebuild)
    BY OthersBundle DEF AnswerInv, Finish, Live, Destroyed
  <1>2. ReaderIs' /\ AnswerWhole'
    BY <1>1, ReaderFrame DEF AnswerInv
  <1>3. AnnouncementBuilt' /\ SdpsBuilt'
    BY <1>1 DEF AnnouncementBuilt, SdpsBuilt, AtFile
  <1>4. Complete'
    BY <1>1, WholeFrame DEF AnswerInv, Complete, Clean, Live
  <1>5. QED BY <1>1, <1>2, <1>3, <1>4 DEF AnswerInv

LEMMA BeginAnswer == AnswerInv /\ Begin => AnswerInv'
  <1> SUFFICES ASSUME AnswerInv, Begin PROVE AnswerInv'
    OBVIOUS
  <1>1. BundleInv' /\ wpc' = "describe"
    BY BeginBundle DEF AnswerInv, Begin
  <1>2. ReaderIs' /\ AnswerWhole'
    BY TouchedReader DEF AnswerInv, Begin
  <1>3. AnnouncementBuilt' /\ SdpsBuilt' /\ Complete'
    BY <1>1 DEF AnnouncementBuilt, SdpsBuilt, AtFile, Complete
  <1>4. QED BY <1>1, <1>2, <1>3 DEF AnswerInv

LEMMA DescribeAnswer == AnswerInv /\ Describe => AnswerInv'
  <1> SUFFICES ASSUME AnswerInv, Describe PROVE AnswerInv'
    OBVIOUS
  <1>1. /\ BundleInv' /\ ver' = ver /\ list' = list /\ list = << >>
        /\ \/ wpc' = "body" /\ file' = <<Announcement, userServiceDesc>>
           \/ wpc' = "describe"
           \/ wpc' = "test" /\ Destroyed
    BY DescribeBundle DEF AnswerInv, Describe, files, BundleInv, Unlisted
  <1>2. /\ ReaderIs' /\ AnswerWhole'
        /\ Destroyed => ~Live'
    <2>1. reader'.busy = reader.busy /\ alive' = alive
      BY DEF Describe, Touched, AnswerInv, ReaderIs, ReaderFields
    <2>2. QED BY <2>1, TouchedReader DEF AnswerInv, Describe, Touched, Destroyed, Live
  <1>3. userServiceDesc' = userServiceDesc
    BY <1>1, VerFrame
  <1>4. AnnouncementBuilt' /\ SdpsBuilt' /\ Complete'
    BY <1>1, <1>2, <1>3 DEF AnnouncementBuilt, SdpsBuilt, AtFile, Complete
  <1>5. QED BY <1>1, <1>2, <1>4 DEF AnswerInv

LEMMA WriteAnswer == AnswerInv /\ (WriteBody \/ WriteMeta) => AnswerInv'
  <1> SUFFICES ASSUME AnswerInv, WriteBody \/ WriteMeta PROVE AnswerInv'
    OBVIOUS
  <1>1. /\ BundleInv /\ BundleInv' /\ UNCHANGED <<ver, list, left, file, rebuild, mixed>> /\ AtFile
    BY WriteBodyBundle, WriteMetaBundle DEF AnswerInv, WriteBody, WriteMeta, AtFile
  <1>2. ReaderIs' /\ AnswerWhole'
    BY TouchedReader DEF AnswerInv, WriteBody, WriteMeta, Touched
  <1>3. Contexts' = Contexts /\ userServiceDesc' = userServiceDesc
    BY <1>1, VerFrame
  <1>4. CASE Fails \/ FlushFails
    <2>1. spoilt' /\ wpc' \in {"meta", "list", "next"}
      BY <1>4 DEF Fails, FlushFails, Leave, WriteBody, WriteMeta
    <2>2. QED BY <1>1, <1>2, <2>1 DEF AnswerInv, AnnouncementBuilt, SdpsBuilt, Complete, Clean
  <1>5. CASE ~Fails /\ ~FlushFails
    <2>1. /\ spoilt' = spoilt /\ wpc' \in {"meta", "list"} /\ DOMAIN disk \subseteq DOMAIN disk'
          /\ meta \subseteq meta'
          /\ \A f \in DOMAIN disk : f # file[1] => disk'[f] = disk[f]
          /\ \/ wpc = "body" /\ wpc' = "meta" /\ disk'[file[1]] = file[2]
             \/ wpc = "meta" /\ disk' = disk /\ file[1] \in meta'
      BY <1>5 DEF WriteBody, WriteMeta, Flushed, Put
    <2>2. (Clean' <=> Clean) /\ AtFile' /\ Sdps' = Sdps
      BY <1>1, <2>1 DEF Clean, AtFile, Sdps
    <2>3. AnnouncementBuilt'
      BY <1>1, <1>3, <2>1, <2>2 DEF AnswerInv, AnnouncementBuilt
    <2>4. file[1] # Announcement /\ SoFar => SoFar'
      <3>1. \A i \in DOMAIN list : list[i] # file[1]
        BY <1>1 DEF BundleInv, Unlisted
      <3>2. list # << >> => 1 \in DOMAIN list
        BY <1>1 DEF BundleInv, BundleTypes
      <3>3. QED BY <1>1, <1>3, <2>1, <3>1, <3>2 DEF SoFar, Current
    <2>5. SdpsBuilt'
      BY <1>1, <1>3, <2>1, <2>2, <2>4 DEF AnswerInv, SdpsBuilt
    <2>6. Complete'
      BY <2>1 DEF Complete
    <2>7. QED BY <1>1, <1>2, <2>3, <2>5, <2>6 DEF AnswerInv
  <1>6. QED BY <1>4, <1>5

LEMMA AddAnswer == AnswerInv /\ AddToServingFiles => AnswerInv'
  <1> SUFFICES ASSUME AnswerInv, AddToServingFiles PROVE AnswerInv'
    OBVIOUS
  <1>1. /\ BundleInv /\ BundleInv' /\ UNCHANGED <<ver, disk, meta, left, file, rebuild, spoilt, mixed>>
        /\ wpc = "list" /\ wpc' = "next" /\ list' = Append(list, file[1]) /\ AtFile
    BY AddBundle DEF AnswerInv, AddToServingFiles, Leave, AtFile
  <1>2. ReaderIs' /\ AnswerWhole'
    BY TouchedReader DEF AnswerInv, AddToServingFiles, Touched
  <1>3. Contexts' = Contexts /\ userServiceDesc' = userServiceDesc /\ (Clean' <=> Clean)
    BY <1>1, VerFrame DEF Clean
  <1>4. /\ DOMAIN list' = 1..Len(list) + 1 /\ DOMAIN list = 1..Len(list) /\ Len(list) \in Nat
        /\ \A i \in DOMAIN list' : list'[i] = IF i \in DOMAIN list THEN list[i] ELSE file[1]
        /\ Len(list') = Len(list) + 1 /\ list' # << >>
    BY <1>1 DEF BundleInv, BundleTypes
  <1>5. Clean => file[1] \in DOMAIN disk \cap meta
    BY <1>1 DEF BundleInv, Written, AnswerInv, AnnouncementBuilt, SdpsBuilt
  <1>6. AnnouncementBuilt'
    <2> SUFFICES ASSUME Clean, file[1] = Announcement PROVE SoFar' /\ Len(list') = 1
      BY <1>1, <1>3 DEF AnnouncementBuilt, AtFile
    <2>1. list = << >> /\ disk[Announcement] = userServiceDesc
      BY <1>1 DEF AnswerInv, AnnouncementBuilt
    <2>2. DOMAIN list' = {1} /\ list'[1] = Announcement /\ Len(list') = 1
      BY <1>4, <2>1
    <2>3. QED BY <1>1, <1>3, <1>4, <1>5, <2>1, <2>2, DescIs DEF SoFar, Current
  <1>7. SdpsBuilt'
    <2> SUFFICES ASSUME Clean, file[1] # Announcement PROVE SoFar' /\ Sdps' \cup left = Contexts
      BY <1>1, <1>3 DEF SdpsBuilt, AtFile
    <2>1. SoFar /\ Sdps \cup {file[1]} \cup left = Contexts /\ disk[file[1]].version = ver
      BY <1>1 DEF AnswerInv, SdpsBuilt
    <2>2. 1 \in DOMAIN list
      BY <1>4, <2>1 DEF SoFar
    <2>3. SoFar'
      BY <1>1, <1>3, <1>4, <1>5, <2>1, <2>2 DEF SoFar, Current
    <2>4. Sdps' = Sdps \cup {file[1]}
      <3>1. DOMAIN list = 1..Len(list) /\ Len(list) \in Nat /\ Len(list) >= 1
            /\ DOMAIN list' = 1..(Len(list) + 1) /\ Len(list') = Len(list) + 1
        BY <1>1, <1>4, <2>2 DEF BundleInv, BundleTypes
      <3>2. list'[Len(list) + 1] = file[1]
        <4>1. Len(list) + 1 \in DOMAIN list' /\ Len(list) + 1 \notin DOMAIN list
          BY <3>1
        <4>2. QED BY <1>4, <4>1
      <3>3. ASSUME NEW i \in 2..Len(list) PROVE list'[i] = list[i]
        <4>1. i \in DOMAIN list /\ i \in DOMAIN list'
          BY <3>1
        <4>2. QED BY <1>4, <4>1
      <3>4. 2..Len(list') = (2..Len(list)) \cup {Len(list) + 1}
        BY <3>1
      <3>5. {list'[i] : i \in 2..Len(list')}
                = {list[i] : i \in 2..Len(list)} \cup {file[1]}
        <4>1. {list'[i] : i \in 2..Len(list')}
                  = {list'[i] : i \in 2..Len(list)} \cup {list'[Len(list) + 1]}
          BY <3>4
        <4>2. {list'[i] : i \in 2..Len(list)} = {list[i] : i \in 2..Len(list)}
          BY <3>3
        <4>3. QED BY <3>2, <4>1, <4>2
      <3>6. QED BY <3>5 DEF Sdps
    <2>5. QED BY <2>1, <2>3, <2>4
  <1>8. Complete'
    BY <1>1 DEF Complete
  <1>9. QED BY <1>1, <1>2, <1>6, <1>7, <1>8 DEF AnswerInv

LEMMA NextFileAnswer == AnswerInv /\ NextFile => AnswerInv'
  <1> SUFFICES ASSUME AnswerInv, NextFile PROVE AnswerInv'
    OBVIOUS
  <1> DEFINE all == IF file[1] = Announcement THEN Contexts ELSE left
             todo == IF Destroyed THEN {} ELSE all
  <1>1. /\ BundleInv /\ BundleInv' /\ UNCHANGED <<ver, list, disk, meta, rebuild, mixed, alive>>
        /\ wpc = "next" /\ UNCHANGED files
    BY NextFileBundle DEF AnswerInv, NextFile, files
  <1>2. ReaderIs' /\ AnswerWhole' /\ (Live' => Live)
    <2>1. reader'.busy = reader.busy
      BY DEF NextFile, Touched, AnswerInv, ReaderIs, ReaderFields
    <2>2. QED BY <1>1, <2>1, TouchedReader DEF AnswerInv, NextFile, Touched, Live
  <1>3. Contexts' = Contexts /\ userServiceDesc' = userServiceDesc 
    BY <1>1, VerFrame
  <1>4. (SoFar' <=> SoFar) /\ Sdps' = Sdps
    BY <1>1, <1>3 DEF SoFar, Current, Sdps
  <1>5. Clean => SoFar /\ Sdps \cup all = Contexts
    <2>1. CASE file[1] = Announcement
      <3>1. Clean => SoFar /\ Len(list) = 1
        BY <1>1, <2>1 DEF AnswerInv, AnnouncementBuilt
      <3>2. Len(list) = 1 => Sdps = {}
        BY DEF Sdps
      <3>3. QED BY <2>1, <3>1, <3>2
    <2>2. CASE file[1] # Announcement
      BY <1>1, <2>2 DEF AnswerInv, SdpsBuilt
    <2>3. QED BY <2>1, <2>2
  <1>6. CASE todo = {}
    <2>1. wpc' = "test" /\ spoilt' = spoilt
      BY <1>6 DEF NextFile
    <2>2. AnnouncementBuilt' /\ SdpsBuilt'
      BY <2>1 DEF AnnouncementBuilt, SdpsBuilt, AtFile
    <2>3. ASSUME Clean, Live PROVE Whole
      <3>1. SoFar /\ Sdps = Contexts
        BY <1>5, <1>6, <2>3 DEF Live, Destroyed
      <3>2. \A i \in DOMAIN list : list[i] \in meta /\ disk[list[i]].version = ver
        BY <3>1 DEF SoFar, Current
      <3>3. QED BY <3>1, <3>2, DescIs DEF SoFar, Whole
    <2>4. Complete'
      BY <1>1, <1>2, <2>1, <2>3, WholeFrame DEF Complete, Clean
    <2>5. QED BY <1>1, <1>2, <2>2, <2>4 DEF AnswerInv
  <1>7. CASE todo # {}
    <2>1. PICK k \in todo : NextSdp(k) /\ left' = todo \ {k}
      BY <1>7 DEF NextFile
    <2>2. todo = all /\ k # Announcement
      <3>1. all \subseteq Keys
        BY <1>1, ContextsAreKeys DEF BundleInv, BundleTypes
      <3>2. QED BY <1>7, <2>1, <3>1
    <2>3. CASE FamilyOf(k) = "unaddressed"
      <3>1. spoilt' /\ wpc' = "next"
        BY <1>1, <2>1, <2>3 DEF NextSdp
      <3>2. QED BY <1>1, <1>2, <3>1 DEF AnswerInv, AnnouncementBuilt, SdpsBuilt, Complete, Clean
    <2>4. CASE FamilyOf(k) # "unaddressed"
      <3>1. /\ file' = <<k, UpdatedSdp(k)>> /\ UpdatedSdp(k).version = ver
            /\ wpc' = "body" /\ spoilt' = spoilt
        BY <2>1, <2>4 DEF NextSdp, UpdatedSdp, SdpNow
      <3>2. file'[1] = k /\ file'[2].version = ver /\ (Clean' <=> Clean)
        BY <1>1, <3>1 DEF Clean
      <3>3. Clean => Sdps \cup {k} \cup left' = Contexts
        BY <1>5, <2>1, <2>2
      <3>4. AnnouncementBuilt' /\ SdpsBuilt' /\ Complete'
        BY <1>1, <1>3, <1>4, <1>5, <2>2, <3>1, <3>2, <3>3
           DEF AnnouncementBuilt, SdpsBuilt, AtFile, Complete
      <3>5. QED BY <1>1, <1>2, <3>4 DEF AnswerInv
    <2>5. QED BY <2>3, <2>4
  <1>8. QED BY <1>6, <1>7

-----------------------------------------------------------------------------
(* The HTTP server.                                                        *)

\* Only the reader and the answer change.
LEMMA ServerFrame ==
    ASSUME AnswerInv, Request \/ ReadFile \/ Respond
    PROVE  /\ (BundleInv /\ AnnouncementBuilt /\ SdpsBuilt /\ Complete)'
           /\ UNCHANGED <<list, disk, meta, spoilt, mixed>> /\ (Whole' <=> Whole)
           /\ \A f : Part(f)' = Part(f)
  <1>1. UNCHANGED <<ver, files, rebuild, wpc, left, file, spoilt, mixed>> /\ (Live' => Live)
    <2>1. Request => (reader'.busy => reader.busy \/ alive)
      BY DEF Request
    <2>2. ReadFile => reader.busy
      BY DEF ReadFile
    <2>3. Respond => reader.busy
      BY DEF Respond
    <2>4. alive' = alive
      BY DEF Request, ReadFile, Respond
    <2>5. QED BY <2>1, <2>2, <2>3, <2>4 DEF Request, ReadFile, Respond, Live
  <1>2. BundleInv'
    BY OthersBundle DEF AnswerInv
  <1>3. QED BY <1>1, <1>2, BuiltFrame, WholeFrame DEF files

LEMMA RequestAnswer == AnswerInv /\ Request => AnswerInv'
  <1> SUFFICES ASSUME AnswerInv, Request PROVE AnswerInv'
    OBVIOUS
  <1>1. /\ (BundleInv /\ AnnouncementBuilt /\ SdpsBuilt /\ Complete)'
        /\ UNCHANGED <<list, disk, meta, spoilt, mixed>> /\ (Whole' <=> Whole)
        /\ list \in Seq(Files)
    BY ServerFrame DEF AnswerInv, BundleInv, BundleTypes
  <1>2. CASE answer' = [status |-> 404] /\ reader' = reader
    <2>1. AnswerWhole'
      BY <1>2 DEF AnswerWhole
    <2>2. ReaderIs'
      BY <1>1, <1>2 DEF Request, AnswerInv, ReaderIs
    <2>3. QED BY <1>1, <2>1, <2>2 DEF AnswerInv
  <1>3. CASE alive /\ answer' = answer /\ reader' = [NoReader EXCEPT !.busy = TRUE, !.at = 1, !.raced = Working]
    <2>1. AnswerWhole'
      BY <1>3 DEF AnswerInv, AnswerWhole
    <2>2. /\ DOMAIN reader' = ReaderFields /\ reader'.at = 1 /\ reader'.parts = << >>
          /\ reader'.freed = FALSE /\ reader'.raced = Working
      BY <1>3 DEF NoReader, ReaderFields
    <2>3. ~reader'.raced /\ ~spoilt /\ ~mixed => Whole
      BY <1>3, <2>2 DEF AnswerInv, Complete, Live, Working, BundleInv, BundleTypes
    <2>4. reader'.parts = [i \in 1..0 |-> Part(list[i])'] /\ reader'.at \in 1..Len(list') + 1
      <3>1. Len(list') \in Nat
        BY <1>1
      <3>2. QED BY <2>2, <3>1
    <2>5. ReaderIs'
      BY <1>1, <2>2, <2>3, <2>4 DEF ReaderIs, Part
    <2>6. QED BY <1>1, <2>1, <2>5 DEF AnswerInv
  <1>4. QED BY <1>2, <1>3 DEF Request

\* The next file of the list is read.
LEMMA ReadFileAnswer == AnswerInv /\ ReadFile => AnswerInv'
  <1> SUFFICES ASSUME AnswerInv, ReadFile PROVE AnswerInv'
    OBVIOUS
  <1> DEFINE n == reader.at
  <1>1. /\ (BundleInv /\ AnnouncementBuilt /\ SdpsBuilt /\ Complete)'
        /\ UNCHANGED <<list, disk, meta, spoilt, mixed>> /\ (Whole' <=> Whole)
        /\ list \in Seq(Files)
    BY ServerFrame DEF AnswerInv, BundleInv, BundleTypes
  <1>2. AnswerWhole'
    BY DEF ReadFile, AnswerInv, AnswerWhole
  <1>3. /\ reader' = [reader EXCEPT !.at = n + 1, !.parts = Append(@, Part(list[n]))]
        /\ reader.busy /\ ~reader.freed /\ n <= Len(list) /\ DOMAIN reader = ReaderFields
    BY DEF ReadFile, Part, AnswerInv, ReaderIs
  <1>4. /\ DOMAIN reader' = ReaderFields /\ reader'.at = n + 1 /\ reader'.raced = reader.raced
        /\ reader'.parts = Append(reader.parts, Part(list[n])) /\ reader'.freed = reader.freed
    BY <1>3 DEF ReaderFields
  <1>5. ASSUME ~reader.raced
        PROVE  /\ n + 1 \in 1..Len(list) + 1 /\ n \in Nat
               /\ reader'.parts = [i \in 1..n |-> Part(list[i])]
               /\ ~spoilt /\ ~mixed => Whole
    <2>1. /\ n \in 1..Len(list) + 1 /\ reader.parts = [i \in 1..n - 1 |-> Part(list[i])]
          /\ ~spoilt /\ ~mixed => Whole
      BY <1>3, <1>5 DEF AnswerInv, ReaderIs
    <2>2. n \in Nat /\ Len(list) \in Nat /\ n - 1 \in Nat /\ n \in 1..Len(list) /\ n + 1 \in 1..Len(list) + 1
      BY <1>1, <1>3, <2>1
    <2> DEFINE S == {Part(list[i]) : i \in 1..Len(list)}
               before == [i \in 1..n - 1 |-> Part(list[i])]
    <2> HIDE DEF n
    <2>3. before \in Seq(S) /\ Len(before) = n - 1 /\ Part(list[n]) \in S
      <3>1. \A i \in 1..Len(list) : Part(list[i]) \in S
        OBVIOUS
      <3> HIDE DEF S
      <3>2. before \in [1..n - 1 -> S]
        BY <2>2, <3>1
      <3> HIDE DEF before
      <3>3. before \in Seq(S) /\ Len(before) = n - 1
        BY <2>2, <3>2
      <3>4. QED BY <2>2, <3>1, <3>3
    <2>4. /\ DOMAIN Append(before, Part(list[n])) = 1..n
          /\ \A i \in 1..n : Append(before, Part(list[n]))[i] = Part(list[i])
          /\ Append(before, Part(list[n])) \in Seq(S)
      BY <2>2, <2>3
    <2>5. Append(before, Part(list[n])) = [i \in 1..n |-> Part(list[i])]
      <3> DEFINE after == Append(before, Part(list[n]))
      <3>1. after \in Seq(S) /\ DOMAIN after = 1..n /\ \A i \in 1..n : after[i] = Part(list[i])
        BY <2>4
      <3> HIDE DEF after, S
      <3>2. after \in [1..n -> S]
        BY <2>2, <3>1
      <3>3. after = [i \in 1..n |-> Part(list[i])]
        BY <3>1, <3>2
      <3>4. QED BY <3>3 DEF after
    <2>6. QED BY <1>4, <2>1, <2>2, <2>5
  <1>6. ReaderIs'
    <2>1. n \in Nat => (n + 1) - 1 = n
      OBVIOUS
    <2> HIDE DEF n
    <2>2. QED BY <1>1, <1>3, <1>4, <1>5, <2>1 DEF ReaderIs, Part
  <1>7. QED BY <1>1, <1>2, <1>6 DEF AnswerInv

\* A request that no build overlapped has read all of a whole bundle.
LEMMA RespondAnswer == AnswerInv /\ Respond => AnswerInv'
  <1> SUFFICES ASSUME AnswerInv, Respond PROVE AnswerInv'
    OBVIOUS
  <1>1. /\ (BundleInv /\ AnnouncementBuilt /\ SdpsBuilt /\ Complete)'
        /\ list \in Seq(Files)
    BY ServerFrame DEF AnswerInv, BundleInv, BundleTypes
  <1>2. ReaderIs'
    BY DEF Respond, ReaderIs, NoReader, ReaderFields
  <1>3. answer' = [status |-> 200, parts |-> reader.parts, raced |-> reader.raced,
                   spoilt |-> spoilt, mixed |-> mixed]
    BY DEF Respond
  <1>4. ASSUME ~reader.raced, ~spoilt, ~mixed PROVE WholeBundle(reader.parts)
    <2>1. /\ reader.busy /\ ~reader.freed /\ reader.at = Len(list) + 1 /\ Whole
          /\ reader.parts = [i \in 1..reader.at - 1 |-> Part(list[i])] /\ Len(list) \in Nat
      BY <1>1, <1>4 DEF Respond, AnswerInv, ReaderIs
    <2>2. reader.parts = [i \in 1..Len(list) |-> Part(list[i])]
      BY <2>1
    <2>3. Len(list) \in Nat \ {0} /\ DOMAIN list = 1..Len(list)
      BY <1>1, <2>1 DEF Whole
    <2> DEFINE parts == [i \in 1..Len(list) |-> Part(list[i])]
    <2>4. /\ DOMAIN parts = 1..Len(list) /\ Len(parts) = Len(list)
          /\ \A i \in 1..Len(list) : /\ parts[i].file = list[i] /\ parts[i].body = disk[list[i]]
                                    /\ parts[i].typed = (list[i] \in meta)
      BY <2>3 DEF Part
    <2> HIDE DEF parts
    <2>5. parts[1].file = Announcement /\ parts[1].body = disk[Announcement]
      BY <2>1, <2>3, <2>4 DEF Whole
    <2>6. {parts[i].file : i \in 2..Len(parts)} = Sdps
      <3>1. 2..Len(parts) = 2..Len(list) /\ \A i \in 2..Len(list) : parts[i].file = list[i]
        BY <2>3, <2>4
      <3>2. QED BY <3>1 DEF Sdps
    <2>7. ASSUME NEW i \in DOMAIN parts
          PROVE  parts[i].typed /\ parts[i].body.version = parts[1].body.version
      <3>1. /\ i \in 1..Len(list) /\ list[i] \in meta
            /\ disk[list[i]].version = disk[Announcement].version
        BY <2>1, <2>3, <2>4 DEF Whole
      <3>2. parts[i].typed = TRUE
        BY <2>4, <3>1
      <3>3. parts[i].typed
        BY <3>2
      <3>4. QED BY <2>4, <2>5, <3>1, <3>3
    <2>8. WholeBundle(parts)
      BY <2>1, <2>5, <2>6, <2>7 DEF WholeBundle, Whole
    <2>9. QED BY <2>2, <2>8 DEF parts
  <1>5. AnswerWhole'
    BY <1>3, <1>4 DEF AnswerWhole
  <1>6. QED BY <1>1, <1>2, <1>5 DEF AnswerInv

LEMMA DeleteAnswer == AnswerInv /\ Delete => AnswerInv'
  <1> SUFFICES ASSUME AnswerInv, Delete PROVE AnswerInv'
    OBVIOUS
  <1>1. /\ UNCHANGED <<ver, files, rebuild, wpc, left, file, spoilt, mixed, reader, answer>>
        /\ Live' => Live
    BY DEF Delete, Live
  <1>2. BundleInv'
    BY OthersBundle DEF AnswerInv
  <1>3. QED BY <1>1, <1>2, BuiltFrame, ReaderFrame DEF AnswerInv

LEMMA AnswerNext == AnswerInv /\ [Next]_vars => AnswerInv'
  <1> SUFFICES ASSUME AnswerInv, [Next]_vars PROVE AnswerInv'
    OBVIOUS
  <1>1. CASE \E announce \in BOOLEAN : Change(announce)
    BY <1>1, ChangeAnswer
  <1>2. CASE Delete
    BY <1>2, DeleteAnswer
  <1>3. CASE Begin \/ Finish \/ Describe
    BY <1>3, BeginAnswer, FinishAnswer, DescribeAnswer
  <1>4. CASE WriteBody \/ WriteMeta
    BY <1>4, WriteAnswer
  <1>5. CASE AddToServingFiles \/ NextFile
    BY <1>5, AddAnswer, NextFileAnswer
  <1>6. CASE Request \/ ReadFile \/ Respond
    BY <1>6, RequestAnswer, ReadFileAnswer, RespondAnswer
  <1>7. CASE UNCHANGED vars
    <2>1. /\ UNCHANGED <<ver, files, rebuild, wpc, left, file, spoilt, mixed, reader, answer>>
          /\ Live' => Live
      BY <1>7 DEF vars, Live
    <2>2. BundleInv'
      BY <1>7, BundleNext DEF AnswerInv
    <2>3. QED BY <2>1, <2>2, BuiltFrame, ReaderFrame DEF AnswerInv
  <1>8. QED BY <1>1, <1>2, <1>3, <1>4, <1>5, <1>6, <1>7 DEF Next

\* However builds, changes, failures and requests interleave, with no lock between
\* the worker and the HTTP server: an answer that no build overlapped, after a build
\* no write or flush of which failed and into which no change came, is the announcement
\* with the SDP of each of its locators, all of one version (makeResponseForDir, worker).
THEOREM AnswersAreWhole == Spec => []AnswerWhole
  <1>1. AnswerInv => AnswerWhole
    BY DEF AnswerInv
  <1>2. QED BY AnswerInit, AnswerNext, <1>1, PTL DEF Spec
=============================================================================
