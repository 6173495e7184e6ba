--------------------- MODULE MavBufferedTransferProofs ---------------------
(***************************************************************************)
(* Theorems about MavBufferedTransfer, for every number of fetches, every  *)
(* length and every behaviour of the server and the client.                *)
(***************************************************************************)
EXTENDS MavBufferedTransfer, TLAPS

(* The inductive invariant. *)

\* The pool's cursor is where it was at boot until the first file is opened.
FreshPoolIsEmpty == memoryPool = "null" => poolPos = 0

\* Between responses no file is being received, and at the hand-over the stage is the first.
StageFollowsDownload ==
  /\ download = "waiting" => stage # "HttpReceiving"
  /\ download = "finished" => stage = "MavlinkInitial"

\* In ordinary use the union holds a name only until the first response, and nobody points
\* at it; and once a response has begun, its length has been announced.
OrdinaryName ==
  ordinary =>
    /\ content = "name" => stage = "HttpInitial" /\ held # "fetch"
    /\ download = "receiving" => stage # "HttpInitial"

\* The part of TypeOK that the argument needs.
ControlType ==
  /\ stage \in Stages
  /\ held \in {"none", "page", "fetch"}
  /\ ordinary \in BOOLEAN /\ crashed \in BOOLEAN

FetchInv ==
  /\ ControlType
  /\ OpenFileHasPool
  /\ FreshPoolIsEmpty
  /\ StageFollowsDownload
  /\ StoredIsReceived
  /\ OrdinaryName
  /\ OrdinaryUseIsSafe

USE DEF FetchInv, ControlType, Stages, OpenFileHasPool, FreshPoolIsEmpty, StageFollowsDownload,
        StoredIsReceived, OrdinaryName, OrdinaryUseIsSafe
-----------------------------------------------------------------------------
LEMMA FetchInit == Init => FetchInv
BY DEF Init

LEMMA FetchCommandPreserves == FetchInv /\ FetchCommand /\ ~crashed => FetchInv'
BY DEF FetchCommand, transferIntoHttpInitial, clientVars

LEMMA HeaderPreserves == FetchInv /\ Header /\ ~crashed => FetchInv'
<1>1. SUFFICES ASSUME FetchInv, Header, ~crashed PROVE FetchInv'
  OBVIOUS
<1>2. PICK length \in Announcements :
        /\ CASE length = NoLength -> UNCHANGED <<stage, fileVars>>
             [] length = 0 -> transferIntoMavlinkInitial
             [] OTHER -> transferIntoHttpReceiving(length)
        /\ ordinary' = (ordinary /\ length \notin {0, NoLength})
  BY <1>1 DEF Header
<1>3. /\ download = "waiting" /\ download' = "receiving" /\ received' = 0
      /\ UNCHANGED <<phase, held, reports>>
  BY <1>1 DEF Header, clientVars
<1>4. stage # "HttpReceiving"
  BY <1>1, <1>3
<1>5. CASE length = NoLength
  <2>1. ordinary' = FALSE
    BY <1>2, <1>5
  <2>2. UNCHANGED <<stage, fileVars>>
    BY <1>2, <1>5, FetchAssumption
  <2>3. QED
    BY <1>1, <1>3, <1>4, <2>1, <2>2 DEF fileVars
<1>6. CASE length # NoLength /\ length = 0
  BY <1>1, <1>2, <1>3, <1>4, <1>6 DEF fileVars, transferIntoMavlinkInitial
<1>7. CASE length # NoLength /\ length # 0
  <2>1. transferIntoHttpReceiving(length)
    BY <1>2, <1>7
  <2>2. CASE stage = "HttpInitial"
    BY <1>1, <1>2, <1>3, <2>1, <2>2 DEF transferIntoHttpReceiving, OpenFile
  <2>3. CASE stage # "HttpInitial"
    BY <1>1, <1>2, <1>3, <2>1, <2>3 DEF transferIntoHttpReceiving, CloseFile
  <2>4. QED
    BY <2>2, <2>3
<1>8. QED
  BY <1>5, <1>6, <1>7

LEMMA ChunkPreserves == FetchInv /\ Chunk /\ ~crashed => FetchInv'
<1>1. SUFFICES ASSUME FetchInv, Chunk, ~crashed PROVE FetchInv'
  OBVIOUS
<1>2. PICK n \in 1..left : onFileChunk(n) /\ received' = received + n
  BY <1>1 DEF Chunk
<1>3. download = "receiving" /\ UNCHANGED <<download, ordinary, phase, held, reports>>
  BY <1>1 DEF Chunk, clientVars
<1>4. CASE stage # "HttpReceiving" /\ transferIntoMavlinkInitial
  BY <1>1, <1>2, <1>3, <1>4 DEF transferIntoMavlinkInitial, fileVars
<1>5. CASE stage = "HttpReceiving" /\ transferIntoMavlinkInitial
  BY <1>1, <1>2, <1>3, <1>5 DEF transferIntoMavlinkInitial, CloseFile
<1>6. CASE /\ stage = "HttpReceiving" /\ content = "open" /\ poolPos' = poolPos + n
           /\ UNCHANGED <<stage, content, memoryPool, poolSize, crashed>>
  BY <1>1, <1>2, <1>3, <1>6
<1>7. CASE content # "open" /\ UNCHANGED <<stage, fileVars>>
  BY <1>1, <1>2, <1>3, <1>7 DEF fileVars
<1>8. QED
  BY <1>2, <1>4, <1>5, <1>6, <1>7 DEF onFileChunk

LEMMA FinishPreserves == FetchInv /\ Finish /\ ~crashed => FetchInv'
<1>1. SUFFICES ASSUME FetchInv, Finish, ~crashed PROVE FetchInv'
  OBVIOUS
<1>2. /\ download = "receiving" /\ download' \in {"waiting", "finished"}
      /\ UNCHANGED <<received, ordinary, phase, held, reports>>
      /\ transferIntoMavlinkInitial
  BY <1>1 DEF Finish, clientVars
<1>3. CASE stage = "HttpReceiving"
  BY <1>1, <1>2, <1>3 DEF transferIntoMavlinkInitial, CloseFile
<1>4. CASE stage # "HttpReceiving"
  BY <1>1, <1>2, <1>4 DEF transferIntoMavlinkInitial, fileVars
<1>5. QED
  BY <1>3, <1>4

LEMMA FailPreserves == FetchInv /\ Fail /\ ~crashed => FetchInv'
BY DEF Fail, fileVars, clientVars

LEMMA HandOverPreserves == FetchInv /\ HandOver /\ ~crashed => FetchInv'
<1>1. SUFFICES ASSUME FetchInv, HandOver, ~crashed PROVE FetchInv'
  OBVIOUS
<1>2. /\ download = "finished" /\ download' = "none"
      /\ UNCHANGED <<stage, received, ordinary>>
  BY <1>1 DEF HandOver, KeepStage
<1>3. CASE held' = "fetch" /\ UNCHANGED fileVars
  BY <1>1, <1>2, <1>3 DEF fileVars
<1>4. CASE CloseFile /\ UNCHANGED held
  BY <1>1, <1>2, <1>4 DEF CloseFile
<1>5. QED
  BY <1>1, <1>3, <1>4 DEF HandOver, clientVars

LEMMA ClientReleasesPreserves == FetchInv /\ ClientReleases /\ ~crashed => FetchInv'
<1>1. SUFFICES ASSUME FetchInv, ClientReleases, ~crashed PROVE FetchInv'
  OBVIOUS
<1>2. /\ held # "none" /\ held' = "none"
      /\ UNCHANGED <<stage, download, received, ordinary>>
  BY <1>1 DEF ClientReleases, KeepStage, httpVars
<1>3. CASE held = "fetch" /\ CloseFile
  BY <1>1, <1>2, <1>3 DEF CloseFile
<1>4. CASE held = "page" /\ PageReleases
  BY <1>1, <1>2, <1>4 DEF PageReleases
<1>5. QED
  BY <1>1, <1>2, <1>3, <1>4 DEF ClientReleases

LEMMA PagePreserves == FetchInv /\ (PageOpens \/ PageHandsOver \/ PageFails) /\ ~crashed => FetchInv'
<1>1. SUFFICES ASSUME FetchInv, PageOpens \/ PageHandsOver \/ PageFails, ~crashed PROVE FetchInv'
  OBVIOUS
<1>2. CASE PageOpens
  BY <1>1, <1>2 DEF PageOpens, httpVars, clientVars
<1>3. CASE PageHandsOver
  BY <1>1, <1>3 DEF PageHandsOver, PageReleases, KeepStage, fileVars, httpVars, clientVars
<1>4. CASE PageFails
  BY <1>1, <1>4 DEF PageFails, PageReleases, httpVars, clientVars
<1>5. QED
  BY <1>1, <1>2, <1>3, <1>4

LEMMA FetchStep == FetchInv /\ [Next]_vars => FetchInv'
<1>1. CASE UNCHANGED vars
  BY <1>1 DEF vars, fileVars, httpVars, clientVars
<1>2. ASSUME FetchInv, ClientUses PROVE FetchInv'
  BY <1>2 DEF ClientUses, httpVars, clientVars
<1>3. ASSUME FetchInv, ClientCloses PROVE FetchInv'
  BY <1>3 DEF ClientCloses, fileVars, httpVars
<1>4. ASSUME Restart PROVE FetchInv'
  BY <1>4 DEF Restart
<1>5. QED
  BY <1>1, <1>2, <1>3, <1>4, FetchCommandPreserves, HeaderPreserves, ChunkPreserves,
     FinishPreserves, FailPreserves, HandOverPreserves, ClientReleasesPreserves,
     PagePreserves DEF Next

HIDE DEF FetchInv, OpenFileHasPool, StoredIsReceived, OrdinaryUseIsSafe

THEOREM FetchInvariant == Spec => []FetchInv
BY FetchInit, FetchStep, PTL DEF Spec
-----------------------------------------------------------------------------
\* However often and by whomever the file is closed, a valid descriptor has its memory.
THEOREM OpenFileHasMemory == Spec => []OpenFileHasPool
<1>1. FetchInv => OpenFileHasPool
  BY DEF FetchInv
<1>2. QED
  BY <1>1, FetchInvariant, PTL

\* Chunks go to the file of their own response, without a gap.
THEOREM ChunksAreStored == Spec => []StoredIsReceived
<1>1. FetchInv => StoredIsReceived
  BY DEF FetchInv
<1>2. QED
  BY <1>1, FetchInvariant, PTL

\* Announced lengths and a client that has let go are all it takes to use only files as
\* files, and to leave none open.
THEOREM OrdinaryFetchesAreSafe == Spec => []OrdinaryUseIsSafe
<1>1. FetchInv => OrdinaryUseIsSafe
  BY DEF FetchInv
<1>2. QED
  BY <1>1, FetchInvariant, PTL
-----------------------------------------------------------------------------
(* The types and the bounds. *)

\* A request that is waited for may be answered.
ResponsesLeft == download = "waiting" => nResponses < MaxResponses

\* What a response has brought and what it has yet to bring.
BodyFits == received + left <= MaxLen

\* Nothing is reported of a session before its file is given back, and one outcome then.
ReportsOfPhase ==
  /\ reports \in Seq(Client!Outcomes)
  /\ phase = "sending" => Len(reports) = 0
  /\ phase = "closing" => Len(reports) <= 1

TypeInv == TypeOK /\ ResponsesLeft /\ BodyFits /\ ReportsOfPhase

LEMMA Bounds ==
  /\ MaxFetches \in Nat /\ MaxLen \in Nat /\ MaxResponses \in Nat /\ MaxResponses > 0
  /\ NoLength \notin Nat
  /\ \A length \in Announcements : length = NoLength \/ length \in 0..MaxLen
BY FetchAssumption DEF FetchAssumption

LEMMA ReportFacts ==
  ASSUME reports \in Seq(Client!Outcomes), NEW outcome \in Client!Outcomes, Client!Report(outcome)
  PROVE  reports' \in Seq(Client!Outcomes) /\ Len(reports') = Len(reports) + 1
BY DEF Client!Report

\* the steps of the session
LEMMA SessionTypes ==
  ASSUME TypeInv, Client!Take \/ Client!Settle \/ Client!Abandon \/ Client!Close \/ Client!Restart
  PROVE  ReportsOfPhase' /\ phase' \in {"idle", "sending", "closing"} /\ Len(reports') <= 2
<1>1. /\ reports \in Seq(Client!Outcomes) /\ Len(reports) \in Nat
      /\ phase = "sending" => Len(reports) = 0
      /\ phase = "closing" => Len(reports) <= 1
  BY DEF TypeInv, ReportsOfPhase
<1>2. "Failed" \in Client!Outcomes
  BY DEF Client!Outcomes
<1>3. CASE Client!Take \/ Client!Restart
  <2>1. reports' = <<>> /\ phase' \in {"idle", "sending"}
    BY <1>3 DEF Client!Take, Client!Restart
  <2> QED
    BY <2>1 DEF ReportsOfPhase
<1>4. CASE Client!Settle
  <2>1. phase = "sending" /\ phase' = "closing"
    BY <1>4 DEF Client!Settle
  <2>2. CASE UNCHANGED reports
    BY <1>1, <2>1, <2>2 DEF ReportsOfPhase
  <2>3. CASE Client!Report("Failed")
    BY <1>1, <1>2, <2>1, <2>3, ReportFacts DEF ReportsOfPhase
  <2> QED
    BY <1>4, <2>2, <2>3 DEF Client!Settle
<1>5. CASE Client!Abandon
  <2>1. phase = "sending" /\ phase' = "idle" /\ Client!Report("Failed")
    BY <1>5 DEF Client!Abandon
  <2> QED
    BY <1>1, <1>2, <2>1, ReportFacts DEF ReportsOfPhase
<1>6. CASE Client!Close
  <2>1. phase = "closing" /\ phase' = "idle"
    BY <1>6 DEF Client!Close
  <2>2. PICK outcome \in Client!Outcomes : Client!Report(outcome)
    BY <1>6 DEF Client!Close
  <2> QED
    BY <1>1, <2>1, <2>2, ReportFacts DEF ReportsOfPhase
<1> QED
  BY <1>3, <1>4, <1>5, <1>6

LEMMA SessionStays ==
  ASSUME TypeInv, UNCHANGED <<phase, reports>>
  PROVE  ReportsOfPhase' /\ phase' \in {"idle", "sending", "closing"} /\ Len(reports') <= 2
BY DEF TypeInv, TypeOK, ReportsOfPhase

\* the ways a file is closed
LEMMA CloseTypes ==
  ASSUME TypeInv, CloseFile
  PROVE  /\ content' \in Contents /\ (content # "name" => content' # "name")
         /\ memoryPool' \in {"null", "page", "fetch", "dangling"}
         /\ poolSize' \in 0..MaxLen /\ poolPos' \in 0..poolSize' /\ crashed' \in BOOLEAN
BY Bounds DEF TypeInv, TypeOK, CloseFile, Contents

LEMMA StageTypes ==
  ASSUME TypeInv, transferIntoMavlinkInitial
  PROVE  /\ content' \in Contents /\ stage' = "MavlinkInitial"
         /\ memoryPool' \in {"null", "page", "fetch", "dangling"}
         /\ poolSize' \in 0..MaxLen /\ poolPos' \in 0..poolSize' /\ crashed' \in BOOLEAN
<1>1. CASE stage = "HttpReceiving"
  BY <1>1, CloseTypes DEF transferIntoMavlinkInitial
<1>2. CASE stage # "HttpReceiving"
  BY <1>2 DEF transferIntoMavlinkInitial, fileVars, TypeInv, TypeOK
<1> QED
  BY <1>1, <1>2

LEMMA InitTypes == Init => TypeInv
<1> SUFFICES ASSUME Init PROVE TypeInv
  OBVIOUS
<1>1. ReportsOfPhase /\ phase = "idle" /\ Len(reports) <= 2
  <2>1. phase = "idle" /\ reports = <<>>
    BY DEF Init, Client!Init
  <2> QED
    BY <2>1 DEF ReportsOfPhase
<1>2. ResponsesLeft /\ BodyFits
  BY Bounds DEF Init, ResponsesLeft, BodyFits
<1>3. /\ poolSize \in 0..MaxLen /\ poolPos \in 0..poolSize /\ left \in 0..MaxLen /\ received \in 0..MaxLen
      /\ nResponses \in 0..MaxResponses /\ nFetches \in 0..MaxFetches
  BY Bounds DEF Init
<1> QED
  BY <1>1, <1>2, <1>3 DEF Init, TypeInv, TypeOK, Stages, Contents

LEMMA FetchCommandTypes == TypeInv /\ FetchCommand => TypeInv'
<1> SUFFICES ASSUME TypeInv, FetchCommand PROVE TypeInv'
  OBVIOUS
<1>1. ReportsOfPhase' /\ phase' \in {"idle", "sending", "closing"} /\ Len(reports') <= 2
  BY SessionStays DEF FetchCommand, clientVars
<1>2. nFetches' \in 0..MaxFetches
  BY Bounds DEF FetchCommand, TypeInv, TypeOK
<1>3. content' \in Contents /\ stage' = "HttpInitial"
  BY DEF FetchCommand, transferIntoHttpInitial, TypeInv, TypeOK, Contents
<1> QED
  BY <1>1, <1>2, <1>3, Bounds
  DEF FetchCommand, TypeInv, TypeOK, Stages, ResponsesLeft, BodyFits, clientVars

\* A response whose body has not begun to arrive keeps the bound of its length.
LEMMA WholeBodyFits ==
    ASSUME NEW max \in Nat, NEW body \in 0..max
    PROVE 0 \in 0..max /\ 0 + body <= max
  OBVIOUS

LEMMA HeaderTypes == TypeInv /\ FetchInv /\ Header => TypeInv'
<1> SUFFICES ASSUME TypeInv, FetchInv, Header PROVE TypeInv'
  OBVIOUS
<1>1. PICK length \in Announcements : \E body \in IF length = NoLength THEN 0..MaxLen ELSE {length} :
        /\ CASE length = NoLength -> UNCHANGED <<stage, fileVars>>
             [] length = 0 -> transferIntoMavlinkInitial
             [] OTHER -> transferIntoHttpReceiving(length)
        /\ left' = body
        /\ ordinary' = (ordinary /\ length \notin {0, NoLength})
  BY DEF Header
<1>2. left' \in 0..MaxLen
  BY <1>1, Bounds
<1>3. /\ download = "waiting" /\ download' = "receiving" /\ received' = 0
      /\ nResponses' = nResponses + 1 /\ UNCHANGED <<nFetches, phase, held, reports>>
  BY DEF Header, clientVars
<1>4. nResponses' \in 0..MaxResponses
  BY <1>3, Bounds DEF TypeInv, TypeOK, ResponsesLeft
<1>5. BodyFits' /\ received' \in 0..MaxLen
  <2>1. 0 \in 0..MaxLen /\ 0 + left' <= MaxLen
    BY <1>2, Bounds, WholeBodyFits
  <2> QED
    BY <1>3, <2>1 DEF BodyFits
<1>6. ReportsOfPhase' /\ phase' \in {"idle", "sending", "closing"} /\ Len(reports') <= 2
  BY <1>3, SessionStays
<1>7. /\ stage' \in Stages /\ content' \in Contents /\ (stage' = "HttpReceiving" => content' # "name")
      /\ memoryPool' \in {"null", "page", "fetch", "dangling"}
      /\ poolSize' \in 0..MaxLen /\ poolPos' \in 0..poolSize' /\ crashed' \in BOOLEAN
  <2>1. CASE length = NoLength
    <3>1. length # 0
      BY <2>1, Bounds
    <3>2. UNCHANGED <<stage, fileVars>>
      BY <1>1, <2>1, <3>1
    <3> QED
      BY <3>2 DEF fileVars, TypeInv, TypeOK
  <2>2. CASE length # NoLength /\ length = 0
    <3>1. transferIntoMavlinkInitial
      BY <1>1, <2>2
    <3> QED
      BY <3>1, StageTypes DEF Stages
  <2>3. CASE length # NoLength /\ length # 0
    <3>1. transferIntoHttpReceiving(length)
      BY <1>1, <2>3
    <3>2. CASE stage = "HttpInitial"
      <4>1. OpenFile(length) /\ stage' = IF content' = "open" THEN "HttpReceiving" ELSE "MavlinkInitial"
        BY <3>1, <3>2 DEF transferIntoHttpReceiving
      <4>2. CASE memoryPool = "null"
        <5>1. poolPos = 0
          BY <4>2 DEF FetchInv, FreshPoolIsEmpty
        <5>2. length \in 0..MaxLen
          BY <2>3, Bounds
        <5> QED
          BY <4>1, <4>2, <5>1, <5>2, Bounds DEF OpenFile, Contents, Stages, TypeInv, TypeOK
      <4>3. CASE memoryPool # "null"
        BY <4>1, <4>3 DEF OpenFile, Contents, Stages, TypeInv, TypeOK
      <4> QED
        BY <4>2, <4>3
    <3>3. CASE stage # "HttpInitial"
      BY <3>1, <3>3, CloseTypes DEF transferIntoHttpReceiving, Stages
    <3> QED
      BY <3>2, <3>3
  <2> QED
    BY <2>1, <2>2, <2>3
<1>8. ordinary' \in BOOLEAN
  BY <1>1
<1> QED
  BY <1>2, <1>3, <1>4, <1>5, <1>6, <1>7, <1>8 DEF TypeInv, TypeOK, ResponsesLeft

LEMMA ChunkTypes == TypeInv /\ Chunk => TypeInv'
<1> SUFFICES ASSUME TypeInv, Chunk PROVE TypeInv'
  OBVIOUS
<1>1. PICK n \in 1..left : onFileChunk(n) /\ left' = left - n /\ received' = received + n
  BY DEF Chunk
<1>2. download = "receiving" /\ UNCHANGED <<download, nResponses, nFetches, ordinary, phase, held, reports>>
  BY DEF Chunk, clientVars
<1>3. left' \in 0..MaxLen /\ received' \in 0..MaxLen /\ BodyFits' /\ n \in Nat
  BY <1>1, Bounds DEF TypeInv, TypeOK, BodyFits
<1>4. ReportsOfPhase' /\ phase' \in {"idle", "sending", "closing"} /\ Len(reports') <= 2
  BY <1>2, SessionStays
<1>5. /\ stage' \in Stages /\ content' \in Contents /\ (stage' = "HttpReceiving" => content' # "name")
      /\ memoryPool' \in {"null", "page", "fetch", "dangling"}
      /\ poolSize' \in 0..MaxLen /\ poolPos' \in 0..poolSize' /\ crashed' \in BOOLEAN
  <2>1. CASE transferIntoMavlinkInitial
    BY <2>1, StageTypes DEF Stages
  <2>2. CASE /\ n <= poolSize - poolPos /\ poolPos' = poolPos + n
             /\ UNCHANGED <<stage, content, memoryPool, poolSize, crashed>>
    BY <1>3, <2>2, Bounds DEF TypeInv, TypeOK
  <2>3. CASE UNCHANGED <<stage, fileVars>>
    BY <2>3 DEF fileVars, TypeInv, TypeOK
  <2> QED
    BY <1>1, <2>1, <2>2, <2>3 DEF onFileChunk
<1> QED
  BY <1>2, <1>3, <1>4, <1>5 DEF TypeInv, TypeOK, ResponsesLeft

LEMMA FinishTypes == TypeInv /\ Finish => TypeInv'
<1> SUFFICES ASSUME TypeInv, Finish PROVE TypeInv'
  OBVIOUS
<1>1. /\ stage' \in Stages /\ content' \in Contents /\ stage' # "HttpReceiving"
      /\ memoryPool' \in {"null", "page", "fetch", "dangling"}
      /\ poolSize' \in 0..MaxLen /\ poolPos' \in 0..poolSize' /\ crashed' \in BOOLEAN
  BY StageTypes DEF Finish, Stages
<1>2. ReportsOfPhase' /\ phase' \in {"idle", "sending", "closing"} /\ Len(reports') <= 2
  BY SessionStays DEF Finish, clientVars
<1> QED
  BY <1>1, <1>2 DEF Finish, clientVars, TypeInv, TypeOK, ResponsesLeft, BodyFits

LEMMA HandOverTypes == TypeInv /\ HandOver => TypeInv'
<1> SUFFICES ASSUME TypeInv, HandOver PROVE TypeInv'
  OBVIOUS
<1>1. CASE phase = "idle"
  <2>1. held' = "fetch" /\ Client!Take /\ UNCHANGED <<content, memoryPool, poolSize, poolPos, crashed>>
    BY <1>1 DEF HandOver, fileVars
  <2>2. ReportsOfPhase' /\ phase' \in {"idle", "sending", "closing"} /\ Len(reports') <= 2
    BY <2>1, SessionTypes
  <2> QED
    BY <2>1, <2>2 DEF HandOver, KeepStage, TypeInv, TypeOK, ResponsesLeft, BodyFits
<1>2. CASE phase # "idle"
  <2>1. CloseFile /\ UNCHANGED <<phase, held, reports>>
    BY <1>2 DEF HandOver, clientVars
  <2>2. ReportsOfPhase' /\ phase' \in {"idle", "sending", "closing"} /\ Len(reports') <= 2
    BY <2>1, SessionStays
  <2> QED
    BY <2>1, <2>2, CloseTypes DEF HandOver, KeepStage, TypeInv, TypeOK, ResponsesLeft, BodyFits
<1> QED
  BY <1>1, <1>2

\* the client's and the page's steps
LEMMA OthersTypes ==
  ASSUME TypeInv, ClientUses \/ ClientReleases \/ ClientCloses \/ PageOpens \/ PageHandsOver \/ PageFails
  PROVE  TypeInv'
<1>1. UNCHANGED <<stage, download, left, received, nResponses, nFetches, ordinary>>
  BY DEF ClientUses, ClientReleases, ClientCloses, PageOpens, PageHandsOver, PageFails, KeepStage, httpVars
<1>2. ReportsOfPhase' /\ phase' \in {"idle", "sending", "closing"} /\ Len(reports') <= 2
  <2>1. CASE UNCHANGED <<phase, reports>>
    BY <2>1, SessionStays
  <2>2. CASE Client!Take \/ Client!Settle \/ Client!Abandon \/ Client!Close
    BY <2>2, SessionTypes
  <2> QED
    BY <2>1, <2>2
    DEF ClientUses, ClientReleases, ClientCloses, PageOpens, PageHandsOver, PageFails, clientVars
<1>3. held' \in {"none", "page", "fetch"}
  BY DEF ClientUses, ClientReleases, ClientCloses, PageOpens, PageHandsOver, PageFails, clientVars,
         TypeInv, TypeOK
<1>4. /\ content' \in Contents /\ (content # "name" => content' # "name")
      /\ memoryPool' \in {"null", "page", "fetch", "dangling"}
      /\ poolSize' \in 0..MaxLen /\ poolPos' \in 0..poolSize' /\ crashed' \in BOOLEAN
  <2>1. CASE CloseFile
    BY <2>1, CloseTypes
  <2>2. CASE ~CloseFile
    BY <2>2
    DEF ClientUses, ClientReleases, ClientCloses, PageOpens, PageHandsOver, PageFails, PageReleases,
        fileVars, TypeInv, TypeOK
  <2> QED
    BY <2>1, <2>2
<1> QED
  BY <1>1, <1>2, <1>3, <1>4 DEF TypeInv, TypeOK, ResponsesLeft, BodyFits

LEMMA TypeStep == TypeInv /\ FetchInv /\ [Next]_vars => TypeInv'
<1> SUFFICES ASSUME TypeInv, FetchInv, [Next]_vars PROVE TypeInv'
  OBVIOUS
<1>1. CASE UNCHANGED vars
  BY <1>1, SessionStays
  DEF vars, fileVars, httpVars, clientVars, TypeInv, TypeOK, ResponsesLeft, BodyFits
<1>2. CASE Fail
  BY <1>2, SessionStays, Bounds DEF Fail, fileVars, clientVars, TypeInv, TypeOK, ResponsesLeft, BodyFits
<1>3. CASE Restart
  <2>1. ReportsOfPhase' /\ phase' \in {"idle", "sending", "closing"} /\ Len(reports') <= 2
    BY <1>3, SessionTypes DEF Restart
  <2>2. (ResponsesLeft /\ BodyFits)'
    BY <1>3, Bounds DEF Restart, ResponsesLeft, BodyFits
  <2>3. /\ (poolSize \in 0..MaxLen /\ poolPos \in 0..poolSize /\ left \in 0..MaxLen)'
        /\ (received \in 0..MaxLen /\ nResponses \in 0..MaxResponses /\ nFetches \in 0..MaxFetches)'
    BY <1>3, Bounds DEF Restart
  <2> QED
    BY <1>3, <2>1, <2>2, <2>3 DEF Restart, TypeInv, TypeOK, Stages, Contents
<1> QED
  BY <1>1, <1>2, <1>3, FetchCommandTypes, HeaderTypes, ChunkTypes, FinishTypes, HandOverTypes,
     OthersTypes DEF Next

\* The stages, the union and the pool keep to their types: in particular the cursor of the RAM
\* buffer stays inside it whatever the server sends, the stage that appends to a file never finds a
\* name in the union, and no session is reported more than twice.
THEOREM TypeCorrect == Spec => []TypeOK
<1>1. TypeInv => TypeOK
  BY DEF TypeInv
<1> QED
  BY <1>1, InitTypes, TypeStep, FetchInvariant, PTL DEF Spec
=============================================================================
