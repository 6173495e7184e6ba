------------------------ MODULE MavBufferedTransfer ------------------------
(***************************************************************************)
(* Mav::Mic::BufferedFileTransfer: on a FETCH command it downloads a file  *)
(* over HTTP into the RAM buffer and hands it over to the FTP client.      *)
(*                                                                         *)
(* Its state is a stage and a union that holds either the name of the file *)
(* or the file itself.  What it hands over is a pointer INTO the union.    *)
(* The command is handled by the work queue thread, which stays inside the *)
(* HTTP client for the whole download; the client's timer task and the     *)
(* upload page, which share the file and the buffer, go on meanwhile.      *)
(* The client is what BftFtpClient is proved to implement, TransferSession.*)
(* The heap is large enough for every file.                                *)
(***************************************************************************)
EXTENDS Naturals, Sequences

CONSTANTS
  MaxFetches,    \* bound: FETCH commands since boot
  MaxLen,        \* bound: length of the longest body of a response, in chunks
  Announcements, \* what responses say of their length: numbers, or NoLength
  MaxResponses,  \* bound: responses to one request, all but the last one redirect
  NoLength       \* a response without Content-Length

ASSUME FetchAssumption ==
  /\ MaxFetches \in Nat
  /\ MaxLen \in Nat
  /\ NoLength \notin Nat
  /\ Announcements \subseteq 0..MaxLen \cup {NoLength}
  /\ MaxResponses \in Nat \ {0}

VARIABLES
  stage,       \* State::stage
  content,     \* what State::stageState holds, see Contents
  memoryPool,  \* SingleBufferRamFileSystem::memoryPool and whose file it is
  poolSize,    \* its memoryPoolSize
  poolPos,     \* its memoryPoolCurrentPosition; nothing seeks during a download
  download,    \* where the work queue thread is inside onCommandLongFetchFile
  left,        \* what the server has yet to send of the body
  received,    \* what the present response has brought so far (history)
  nResponses,  \* responses to the present request (history, for the bound)
  nFetches,    \* FETCH commands since boot (history, for the bound)
  ordinary,    \* every response since boot announced a length above zero, and no FETCH came
               \* while the client had the file of another one (history)
  phase,       \* TransferSession: what the FTP client is doing,
  held,        \*   whose file it holds,
  reports,     \*   and what it has reported (history)
  crashed      \* a method was called on the bytes of a name: the chip panics

fileVars == <<content, memoryPool, poolSize, poolPos, crashed>>
httpVars == <<download, left, received, nResponses>>
clientVars == <<phase, held, reports>>
vars == <<stage, fileVars, httpVars, nFetches, ordinary, clientVars>>

Client == INSTANCE TransferSession WITH holds <- held # "none"

Stages == {"MavlinkInitial", "HttpInitial", "HttpReceiving"}

\* "name": the array of the initial stage.  The rest is a file: with a valid descriptor, with
\* none because opening was refused, or closed (as is the zeroed union after boot).
Contents == {"name", "open", "refused", "closed"}

\* Type invariant.  The cursor stays inside the pool, outside a download nothing is left to
\* receive, and the union holds no name in the stage that appends to a file.
TypeOK ==
  /\ stage \in Stages
  /\ content \in Contents
  /\ stage = "HttpReceiving" => content # "name"
  /\ memoryPool \in {"null", "page", "fetch", "dangling"}
  /\ poolSize \in 0..MaxLen
  /\ poolPos \in 0..poolSize
  /\ download \in {"none", "waiting", "receiving", "finished"}
  /\ left \in 0..MaxLen
  /\ received \in 0..MaxLen
  /\ download # "receiving" => left = 0
  /\ nResponses \in 0..MaxResponses
  /\ nFetches \in 0..MaxFetches
  /\ ordinary \in BOOLEAN
  /\ phase \in {"idle", "sending", "closing"}
  /\ held \in {"none", "page", "fetch"}
  /\ Len(reports) <= 2
  /\ crashed \in BOOLEAN

Init ==
  /\ stage = "MavlinkInitial" /\ content = "closed"
  /\ memoryPool = "null" /\ poolSize = 0 /\ poolPos = 0
  /\ download = "none" /\ left = 0 /\ received = 0 /\ nResponses = 0
  /\ nFetches = 0 /\ ordinary = TRUE
  /\ held = "none" /\ Client!Init
  /\ crashed = FALSE
-----------------------------------------------------------------------------
(* The file in the union. *)

KeepStage == UNCHANGED stage

\* Mutants of File::close and of the pool's closeFile.
CloseFile_KeepsDescriptor ==
  /\ crashed' = (content = "name")
  /\ UNCHANGED content
  /\ IF content = "open"
     THEN memoryPool' = "dangling" /\ poolSize' = 0 /\ poolPos' = 0
     ELSE UNCHANGED <<memoryPool, poolSize, poolPos>>

CloseFile_KeepsPosition ==
  /\ crashed' = (content = "name")
  /\ content' = IF content = "open" THEN "closed" ELSE content
  /\ IF content = "open"
     THEN memoryPool' = "dangling" /\ poolSize' = 0 /\ UNCHANGED poolPos
     ELSE UNCHANGED <<memoryPool, poolSize, poolPos>>

\* File::close: a file without a valid descriptor is left alone.  The bytes of a name are
\* taken for a pointer to a file system and called through.
CloseFile ==
  /\ crashed' = (content = "name")
  /\ content' = IF content = "open" THEN "closed" ELSE content
  /\ IF content = "open"
     THEN memoryPool' = "dangling" /\ poolSize' = 0 /\ poolPos' = 0
     ELSE UNCHANGED <<memoryPool, poolSize, poolPos>>

\* Mutant: the file system accepts a second file.
OpenFile_Second(n) ==
  content' = "open" /\ memoryPool' = "fetch" /\ poolSize' = n /\ UNCHANGED <<poolPos, crashed>>

\* tryOpenFileWriteBinary: refused unless no file has been opened since boot.
OpenFile(n) ==
  /\ IF memoryPool = "null"
     THEN content' = "open" /\ memoryPool' = "fetch" /\ poolSize' = n
     ELSE content' = "refused" /\ UNCHANGED <<memoryPool, poolSize>>
  /\ UNCHANGED <<poolPos, crashed>>

-----------------------------------------------------------------------------
(* The stages. *)

\* Mutant: the stage is left when the name has been written.
transferIntoHttpInitial_NoStage ==
  /\ content' = IF stage = "MavlinkInitial" THEN "name" ELSE content
  /\ KeepStage

\* In any other stage the call fails, but the stage changes, and nobody looks at the result.
transferIntoHttpInitial ==
  /\ content' = IF stage = "MavlinkInitial" THEN "name" ELSE content
  /\ stage' = "HttpInitial"

transferIntoMavlinkInitial ==
  /\ stage' = "MavlinkInitial"
  /\ IF stage = "HttpReceiving" THEN CloseFile ELSE UNCHANGED fileVars

\* A length above zero has been announced.  In the wrong stage, and when the file cannot be
\* opened, the stage becomes HttpReceiving for a moment, and from there MavlinkInitial.
transferIntoHttpReceiving(n) ==
  IF stage = "HttpInitial"
  THEN /\ OpenFile(n)
       /\ stage' = IF content' = "open" THEN "HttpReceiving" ELSE "MavlinkInitial"
  ELSE CloseFile /\ stage' = "MavlinkInitial"

\* A chunk that comes in the wrong stage, or does not fit, ends the reception; one for a file
\* that has been closed meanwhile is dropped.
onFileChunk(n) ==
  \/ /\ stage # "HttpReceiving"
     /\ transferIntoMavlinkInitial
  \/ /\ stage = "HttpReceiving" /\ content = "open"
     /\ IF n <= poolSize - poolPos
        THEN poolPos' = poolPos + n /\ UNCHANGED <<stage, content, memoryPool, poolSize, crashed>>
        ELSE transferIntoMavlinkInitial
  \/ /\ stage = "HttpReceiving" /\ content # "open"
     /\ UNCHANGED <<stage, fileVars>>
-----------------------------------------------------------------------------
(* The work queue thread, inside onCommandLongFetchFile.  esp_http_client ignores what the *)
(* callback returns.                                                                       *)

FetchCommand ==
  /\ download = "none"
  /\ nFetches < MaxFetches
  /\ nFetches' = nFetches + 1
  /\ transferIntoHttpInitial
  /\ download' = "waiting" /\ nResponses' = 0
  /\ ordinary' = (ordinary /\ held # "fetch")
  /\ UNCHANGED <<memoryPool, poolSize, poolPos, crashed, left, received, clientVars>>

\* The headers of a response: a length of zero looks like the end of the download.
Header ==
  /\ download = "waiting"
  /\ \E length \in Announcements :
       \E body \in IF length = NoLength THEN 0..MaxLen ELSE {length} :
         /\ CASE length = NoLength -> UNCHANGED <<stage, fileVars>>
              [] length = 0 -> transferIntoMavlinkInitial
              [] OTHER -> transferIntoHttpReceiving(length)
         /\ left' = body
         /\ ordinary' = (ordinary /\ length \notin {0, NoLength})
  /\ received' = 0
  /\ nResponses' = nResponses + 1
  /\ download' = "receiving"
  /\ UNCHANGED <<nFetches, clientVars>>

Chunk ==
  /\ download = "receiving"
  /\ \E n \in 1..left :
       /\ onFileChunk(n)
       /\ left' = left - n
       /\ received' = received + n
  /\ UNCHANGED <<download, nResponses, nFetches, ordinary, clientVars>>

\* The end of a response; the client follows a redirection with another request.
Finish ==
  /\ download = "receiving"
  /\ left = 0
  /\ transferIntoMavlinkInitial
  /\ \/ nResponses < MaxResponses /\ download' = "waiting"
     \/ download' = "finished"
  /\ UNCHANGED <<left, received, nResponses, nFetches, ordinary, clientVars>>

\* The connection fails: the stage and the file stay as they are.
Fail ==
  /\ download \in {"waiting", "receiving"}
  /\ download' = "none" /\ left' = 0
  /\ UNCHANGED <<stage, fileVars, received, nResponses, nFetches, ordinary, clientVars>>

\* The pointer into the union is handed over.  A busy client drops it, and its deleter closes
\* the file.  The stage is MavlinkInitial since Finish.
HandOver ==
  /\ download = "finished"
  /\ download' = "none"
  /\ IF phase = "idle"
     THEN held' = "fetch" /\ Client!Take /\ UNCHANGED fileVars
     ELSE CloseFile /\ UNCHANGED clientVars
  /\ KeepStage
  /\ UNCHANGED <<left, received, nResponses, nFetches, ordinary>>
-----------------------------------------------------------------------------
(* The FTP client: any step of its sessions, at any time. *)

\* It reads or seeks, which matters only when there is no file any more.
ClientUses ==
  /\ held = "fetch" /\ content = "name"
  /\ crashed' = TRUE
  /\ UNCHANGED <<stage, content, memoryPool, poolSize, poolPos, httpVars, nFetches, ordinary,
                 clientVars>>

\* sFileBufferingContext.reset()
PageReleases ==
  /\ memoryPool' = IF memoryPool = "page" THEN "dangling" ELSE memoryPool
  /\ UNCHANGED <<content, poolSize, poolPos, crashed>>

\* It gives the file back: the deleter of the pointer runs.
ClientReleases ==
  /\ held # "none"
  /\ held' = "none"
  /\ Client!Settle \/ Client!Abandon
  /\ IF held = "fetch" THEN CloseFile ELSE PageReleases
  /\ KeepStage
  /\ UNCHANGED <<httpVars, nFetches, ordinary>>

ClientCloses ==
  /\ UNCHANGED held /\ Client!Close
  /\ UNCHANGED <<stage, fileVars, httpVars, nFetches, ordinary>>
-----------------------------------------------------------------------------
(* The upload page, which opens the same file system's only file. *)

PageOpens ==
  /\ memoryPool = "null"
  /\ memoryPool' = "page"
  /\ UNCHANGED <<stage, content, poolSize, poolPos, crashed, httpVars, nFetches, ordinary,
                 clientVars>>

\* An upload is complete, if only an empty one, and handed over on the work queue.
PageHandsOver ==
  /\ download = "none"
  /\ IF phase = "idle"
     THEN held' = "page" /\ Client!Take /\ UNCHANGED fileVars
     ELSE PageReleases /\ UNCHANGED clientVars
  /\ KeepStage
  /\ UNCHANGED <<httpVars, nFetches, ordinary>>

\* An upload breaks off.
PageFails ==
  /\ memoryPool = "page"
  /\ PageReleases
  /\ UNCHANGED <<stage, httpVars, nFetches, ordinary, clientVars>>

Restart ==
  /\ crashed
  /\ stage' = "MavlinkInitial" /\ content' = "closed"
  /\ memoryPool' = "null" /\ poolSize' = 0 /\ poolPos' = 0
  /\ download' = "none" /\ left' = 0 /\ received' = 0 /\ nResponses' = 0
  /\ nFetches' = 0 /\ ordinary' = TRUE
  /\ held' = "none" /\ Client!Restart
  /\ crashed' = FALSE

Next ==
  \/ ~crashed /\ FetchCommand
  \/ ~crashed /\ Header
  \/ ~crashed /\ Chunk
  \/ ~crashed /\ Finish
  \/ ~crashed /\ Fail
  \/ ~crashed /\ HandOver
  \/ ~crashed /\ ClientUses
  \/ ~crashed /\ ClientReleases
  \/ ~crashed /\ ClientCloses
  \/ ~crashed /\ PageOpens
  \/ ~crashed /\ PageHandsOver
  \/ ~crashed /\ PageFails
  \/ Restart

Spec == Init /\ [][Next]_vars
-----------------------------------------------------------------------------
(* Properties. *)

\* A file with a valid descriptor has its memory: none of the ways a file gets closed (the
\* last chunk, a chunk that does not fit, the wrong stage, the deleter of the pointer, a
\* hand-over that is refused) leaves a descriptor behind that would be freed again.
OpenFileHasPool == content = "open" => memoryPool = "fetch"

\* While a file is being received it holds what the response has brought, from its start.
StoredIsReceived ==
  stage = "HttpReceiving" /\ content = "open" /\ download = "receiving" => poolPos = received

\* As long as each response announces its length and the client has let go of a file before
\* the next FETCH, no method is called on the bytes of a name, whatever fails in between; and
\* a stage machine that waits for a request keeps no file open: what it hands over, or leaves
\* behind, is not a part of an earlier download.
OrdinaryUseIsSafe ==
  ordinary => ~crashed /\ (stage = "MavlinkInitial" => content # "open")

\* What is handed over can still be read (does not hold: the last chunk closes the file).
HandedOverIsOpen == download = "finished" => content = "open"

\* The client's file is a file (does not hold: a FETCH writes a name over it).
HeldIsFile == held = "fetch" => content # "name"

\* A FETCH that has been answered leaves the stage machine ready for the next one (does not
\* hold: a failed download leaves it in its stage, with the file open).
ReadyForFetch == download = "none" => stage = "MavlinkInitial"
=============================================================================
