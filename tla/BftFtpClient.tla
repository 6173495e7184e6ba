---------------------------- MODULE BftFtpClient ----------------------------
(***************************************************************************)
(* Mav::Mic::BftFtpClient: uploads a buffered file to the autopilot over   *)
(* MAVLink FTP, with at most knMaxAttempts retries of each request.        *)
(*                                                                         *)
(* Four actors: the work queue thread (incoming messages, hand-overs and   *)
(* delayed sends run on it one at a time), the esp_timer task (onHrTimer), *)
(* the HTTP server's task (UploadBuffer) and the autopilot (FtpPeer).      *)
(* process, onHrTimer and onFileBufferingFinished hold requestRepeat.mutex *)
(* for their whole length and are one action each.  A delayed send does    *)
(* not: initializeMavlinkMessage runs on the work queue without the mutex, *)
(* so its steps interleave with the timer and the HTTP server.             *)
(***************************************************************************)
EXTENDS UploadBuffer, FtpPeer

CONSTANTS
  knMaxAttempts,  \* BftFtpClient.cpp:46
  AsyncCap,       \* bound: delayed sends waiting in the work queue
  MaxFetches,     \* bound: files handed over by Mic::BufferedFileTransfer since boot; one at
                  \* most: a second FETCH overwrites the file object of the first
  Prompt          \* TRUE: the timer never elapses while a message, a delayed send or a
                  \* hand-over is still on its way (every answer takes less than 300 ms)

ASSUME ClientAssumption ==
  /\ knMaxAttempts \in Nat \ {0}
  /\ AsyncCap \in Nat \ {0}
  /\ MaxFetches \in {0, 1}
  /\ Prompt \in BOOLEAN
  /\ MaxOffset = MaxPos

VARIABLES
  state,                  \* requestRepeat.state
  iAttempt,               \* stateCommon.iAttempt
  bftFile,                \* stateCommon.bftFile: whose file the client holds, if any
  messageSequenceNumber,  \* stateCommon.messageSequenceNumber
  mavlinkFtpSessionId,    \* the word shared by stateTransferring and stateClosingSession
  fileOffset,             \* stateTransferring.fileOffset
  timerArmed,             \* the one-shot timer is running
  timerCallback,          \* it has elapsed and onHrTimer is waiting for the mutex
  asyncQueue,             \* delayed sends pushed into the work queue
  asyncSend,              \* the delayed send being formed, see AsyncType
  crashed,                \* a null file has been read: the chip panics and restarts
  nFetches,               \* hand-overs by Mic::BufferedFileTransfer (history, for the bound)
  started,                \* a transfer has begun since boot (history)
  goal,                   \* length of the file the current transfer began with (history)
  reports                 \* OnTransferUpdate events of the current transfer (history)

sessionVars ==
  <<state, iAttempt, bftFile, messageSequenceNumber, mavlinkFtpSessionId, fileOffset>>
timerVars == <<timerArmed, timerCallback>>
asyncVars == <<asyncQueue, asyncSend>>
historyVars == <<nFetches, started, goal, reports>>
vars == <<uploadVars, peerVars, sessionVars, timerVars, asyncVars, crashed, historyVars>>

States == {"Idle", "CreatingSession", "Transferring", "ClosingSession"}
Holders == {"none", "upload", "fetch"}

\* The work queue thread is forming a delayed send: about to read the file, or past the
\* copy and about to advance the file's position.
AsyncType == [pc : {"none", "read", "advance"}, size : 0..1, data : 0..MaxPos]
NoSend == [pc |-> "none", size |-> 0, data |-> 0]

\* Type invariant.  Its bounds say that onHrTimer never counts an attempt past knMaxAttempts
\* and that the offset, the sequence number and the session word keep their ranges.
TypeOK ==
  /\ UploadTypeOK
  /\ PeerTypeOK
  /\ state \in States
  /\ iAttempt \in 0..knMaxAttempts
  /\ bftFile \in Holders
  /\ messageSequenceNumber \in 0..(SeqMod - 1)
  /\ mavlinkFtpSessionId \in SessionField
  /\ fileOffset \in 0..MaxPos
  /\ timerArmed \in BOOLEAN
  /\ timerCallback \in BOOLEAN
  /\ asyncQueue \in 0..AsyncCap
  /\ asyncSend \in AsyncType
  /\ crashed \in BOOLEAN
  /\ nFetches \in 0..MaxFetches
  /\ started \in BOOLEAN
  /\ goal \in 0..MaxPos
  /\ reports \in Seq({"Failed", "Done"})

ClientInit ==
  /\ state = "Idle"
  /\ iAttempt = 0
  /\ bftFile = "none"
  /\ messageSequenceNumber = 0
  /\ mavlinkFtpSessionId = 0
  /\ fileOffset = 0
  /\ timerArmed = FALSE
  /\ timerCallback = FALSE
  /\ asyncQueue = 0
  /\ asyncSend = NoSend
  /\ crashed = FALSE
  /\ nFetches = 0
  /\ started = FALSE
  /\ goal = 0
  /\ reports = <<>>

Init == UploadInit /\ PeerInit /\ ClientInit
-----------------------------------------------------------------------------
(* The file behind stateCommon.bftFile.  Mic::BufferedFileTransfer has closed *)
(* its file by the time it hands it over.                                     *)

HeldFile == IF bftFile = "upload" THEN file ELSE ClosedFile

\* Mutant: the file is handed over without its deleter.
ReleaseFile_NoDeleter == UNCHANGED <<file, memoryPool, initialized>>

\* bftFile.reset(): dropping the last reference runs the deleter.
ReleaseFile ==
  IF bftFile = "upload"
  THEN resetContext
  ELSE UNCHANGED <<file, memoryPool, initialized>>

\* Leave the file open with the cursor moved.
MoveCursor(f) ==
  /\ file' = IF bftFile = "upload" THEN f ELSE file
  /\ UNCHANGED <<memoryPool, initialized>>

KeepFile == UNCHANGED <<file, memoryPool, initialized>>
KeepUpload == UNCHANGED <<uploading, fileSize, remaining, nUploads>>

OpenRequest ==
  [op |-> "OpenFileWo", session |-> 0, offset |-> 0, size |-> 0, data |-> 0]
WriteRequest(session, offset, size, data) ==
  [op |-> "WriteFile", session |-> session, offset |-> offset, size |-> size, data |-> data]

\* setTerminateSessionFields puts the sequence number into the session field.
TerminateRequest(seq, session) ==
  [op |-> "TerminateSession", session |-> seq, offset |-> 0, size |-> 0, data |-> 0]

NextSeq == (messageSequenceNumber + 1) % SeqMod

\* handleIdleTransition: iAttempt keeps its value.
handleIdleTransition ==
  /\ state' = "Idle"
  /\ bftFile' = "none"
  /\ ReleaseFile

\* handleClosingSessionTransition: the session id stays in the union.
handleClosingSessionTransition ==
  /\ state' = "ClosingSession"
  /\ iAttempt' = 0
  /\ bftFile' = "none"
  /\ ReleaseFile

Report(event) == reports' = Append(reports, event)

\* notify(DelayedSendAsyncCtx): the dispatcher pushes one delayed send.
PushSend == asyncQueue' = asyncQueue + 1
-----------------------------------------------------------------------------
(* The esp_timer task. *)

Quiet ==
  /\ toAp = <<>>
  /\ toClient = <<>>
  /\ asyncQueue = 0
  /\ asyncSend.pc = "none"
  /\ notifyPending = 0

TimerElapse ==
  /\ timerArmed
  /\ ~timerCallback
  /\ Prompt => Quiet
  /\ timerArmed' = FALSE
  /\ timerCallback' = TRUE
  /\ UNCHANGED <<uploadVars, peerVars, sessionVars, asyncVars, crashed, historyVars>>

\* Mutant: one retry too many.
AttemptsUsedUp_OffByOne == iAttempt > knMaxAttempts

AttemptsUsedUp == iAttempt >= knMaxAttempts

\* The attempts are used up: an open session is closed, anything else is dropped.
GiveUp ==
  /\ AttemptsUsedUp
  /\ Report("Failed")
  /\ IF state = "Transferring"
     THEN /\ handleClosingSessionTransition
          /\ PushSend
          /\ timerArmed' = TRUE
     ELSE /\ handleIdleTransition
          /\ UNCHANGED <<iAttempt, asyncQueue, timerArmed>>

\* Mutant: a retry does not rewind the file.
Resend_NoSeek ==
  /\ ~AttemptsUsedUp
  /\ iAttempt' = iAttempt + 1
  /\ KeepFile
  /\ IF state = "Idle"
     THEN UNCHANGED <<asyncQueue, timerArmed>>
     ELSE PushSend /\ timerArmed' = TRUE
  /\ UNCHANGED <<state, bftFile, reports>>

\* Mutant: a retry is not counted.
Resend_NotCounted ==
  /\ ~AttemptsUsedUp
  /\ IF state = "Transferring" THEN MoveCursor(Seek(HeldFile, fileOffset)) ELSE KeepFile
  /\ IF state = "Idle"
     THEN UNCHANGED <<asyncQueue, timerArmed>>
     ELSE PushSend /\ timerArmed' = TRUE
  /\ UNCHANGED <<state, iAttempt, bftFile, reports>>

\* resendSessionOpenRequest, resendFileTransferRequest, resendSessionCloseRequest
Resend ==
  /\ ~AttemptsUsedUp
  /\ iAttempt' = iAttempt + 1
  /\ IF state = "Transferring" THEN MoveCursor(Seek(HeldFile, fileOffset)) ELSE KeepFile
  /\ IF state = "Idle"
     THEN UNCHANGED <<asyncQueue, timerArmed>>
     ELSE PushSend /\ timerArmed' = TRUE
  /\ UNCHANGED <<state, bftFile, reports>>

onHrTimer ==
  /\ timerCallback
  /\ asyncQueue < AsyncCap
  /\ timerCallback' = FALSE
  /\ GiveUp \/ Resend
  /\ KeepUpload
  /\ UNCHANGED <<notifyPending, peerVars, messageSequenceNumber, mavlinkFtpSessionId,
                 fileOffset, asyncSend, crashed, nFetches, started, goal>>
-----------------------------------------------------------------------------
(* The work queue thread: a file is handed over. *)

WqFree == asyncSend.pc = "none" /\ ~crashed

\* onFileBufferingFinished, in StateIdle
BeginSession(holder) ==
  /\ state' = "CreatingSession"
  /\ iAttempt' = 0
  /\ bftFile' = holder
  /\ PushSend
  /\ timerArmed' = TRUE
  /\ started' = TRUE
  /\ goal' = IF holder = "upload" THEN file.len ELSE 0
  /\ reports' = <<>>

StaySession ==
  UNCHANGED <<state, iAttempt, bftFile, asyncQueue, timerArmed, started, goal, reports>>

\* The task pushed by the upload page.  When the client is busy the pointer is dropped
\* at once, and its deleter resets the page's only file.
NotifyUpload ==
  /\ WqFree
  /\ notifyPending > 0
  /\ asyncQueue < AsyncCap
  /\ notifyPending' = notifyPending - 1
  /\ IF state = "Idle"
     THEN BeginSession("upload") /\ KeepFile
     ELSE StaySession /\ resetContext
  /\ KeepUpload
  /\ UNCHANGED <<peerVars, messageSequenceNumber, mavlinkFtpSessionId, fileOffset,
                 timerCallback, asyncSend, crashed, nFetches>>

\* Mic::BufferedFileTransfer::onCommandLongFetchFile downloads a file into the same pool,
\* if it is free, and closes it before the client is notified.
NotifyFetch ==
  /\ WqFree
  /\ nFetches < MaxFetches
  /\ asyncQueue < AsyncCap
  /\ nFetches' = nFetches + 1
  /\ memoryPool' = IF memoryPool = "null" THEN "dangling" ELSE memoryPool
  /\ IF state = "Idle" THEN BeginSession("fetch") ELSE StaySession
  /\ KeepUpload
  /\ UNCHANGED <<file, initialized, notifyPending, peerVars, messageSequenceNumber, mavlinkFtpSessionId,
                 fileOffset, timerCallback, asyncSend, crashed>>
-----------------------------------------------------------------------------
(* The work queue thread: process(), with the response it forms. *)

\* initializeMavlinkMessage in StateTransferring, under the mutex, on file f
SendChunk(f, session, offset) ==
  LET n == NRead(f)
  IN /\ toAp' = Put(toAp, WriteRequest(session, offset, n, IF n = 0 THEN 0 ELSE f.pos))
     /\ MoveCursor([f EXCEPT !.pos = Step(f.pos, n)])

\* Mutant: the timer is not started again once the session is open.
OpenAcknowledged_NoTimer(r) ==
  /\ state' = "Transferring"
  /\ iAttempt' = 0
  /\ messageSequenceNumber' = NextSeq
  /\ mavlinkFtpSessionId' = r.session
  /\ fileOffset' = 0
  /\ SendChunk(Seek(HeldFile, 0), r.session, 0)
  /\ timerArmed' = FALSE
  /\ UNCHANGED <<bftFile, reports>>

\* Mutant: the first chunk counts as transferred when it is sent.
OpenAcknowledged_CountsSent(r) ==
  /\ state' = "Transferring"
  /\ iAttempt' = 0
  /\ messageSequenceNumber' = NextSeq
  /\ mavlinkFtpSessionId' = r.session
  /\ fileOffset' = NRead(Seek(HeldFile, 0))
  /\ SendChunk(Seek(HeldFile, 0), r.session, 0)
  /\ timerArmed' = TRUE
  /\ UNCHANGED <<bftFile, reports>>

\* processMavlinkMessageCreatingSession: fileSize is the position right after the
\* rewind, that is 0, whatever the length of the file.
OpenAcknowledged(r) ==
  /\ state' = "Transferring"
  /\ iAttempt' = 0
  /\ messageSequenceNumber' = NextSeq
  /\ mavlinkFtpSessionId' = r.session
  /\ fileOffset' = 0
  /\ SendChunk(Seek(HeldFile, 0), r.session, 0)
  /\ timerArmed' = TRUE
  /\ UNCHANGED <<bftFile, reports>>

\* Mutant: a refused session is not reported.
OpenRefused_Silent ==
  /\ handleIdleTransition
  /\ timerArmed' = FALSE
  /\ UNCHANGED <<reports, iAttempt, messageSequenceNumber, mavlinkFtpSessionId, fileOffset,
                 toAp>>

OpenRefused ==
  /\ handleIdleTransition
  /\ Report("Failed")
  /\ timerArmed' = FALSE
  /\ UNCHANGED <<iAttempt, messageSequenceNumber, mavlinkFtpSessionId, fileOffset, toAp>>

\* An answer with an unknown opcode, or to a write with another session id: the timer
\* has been stopped and nothing starts it again.
Disregard ==
  /\ timerArmed' = FALSE
  /\ KeepFile
  /\ UNCHANGED <<sessionVars, reports, toAp>>

SendTerminate(seq) ==
  /\ toAp' = Put(toAp, TerminateRequest(seq, mavlinkFtpSessionId))
  /\ timerArmed' = TRUE
  /\ UNCHANGED mavlinkFtpSessionId

\* stateTransferringIsEof() compares with the fileSize above.
isEof(offset) == offset = 0

ChunkAcknowledged ==
  LET offset == HeldFile.pos
  IN /\ messageSequenceNumber' = NextSeq
     /\ fileOffset' = offset
     /\ IF isEof(offset)
        THEN /\ handleClosingSessionTransition
             /\ SendTerminate(NextSeq)
        ELSE /\ SendChunk(HeldFile, mavlinkFtpSessionId, offset)
             /\ iAttempt' = 0
             /\ timerArmed' = TRUE
             /\ UNCHANGED <<state, bftFile, mavlinkFtpSessionId>>
     /\ UNCHANGED reports

ChunkRefused ==
  /\ Report("Failed")
  /\ handleClosingSessionTransition
  /\ SendTerminate(messageSequenceNumber)
  /\ UNCHANGED <<messageSequenceNumber, fileOffset>>

\* Mutant: the timer is not stopped when the session has been closed.
TerminateAnswered_TimerRuns(event) ==
  /\ Report(event)
  /\ handleIdleTransition
  /\ UNCHANGED <<iAttempt, messageSequenceNumber, mavlinkFtpSessionId, fileOffset, toAp,
                 timerArmed>>

\* Any session id will do: "accepting anyway".
TerminateAnswered(event) ==
  /\ Report(event)
  /\ handleIdleTransition
  /\ timerArmed' = FALSE
  /\ UNCHANGED <<iAttempt, messageSequenceNumber, mavlinkFtpSessionId, fileOffset, toAp>>

CreatingSession(r) ==
  /\ state = "CreatingSession" /\ r.req = "OpenFileWo"
  /\ \/ r.opcode = "Ack" /\ OpenAcknowledged(r)
     \/ r.opcode = "Nak" /\ OpenRefused
     \/ r.opcode = "Other" /\ Disregard

Transferring(r) ==
  /\ state = "Transferring" /\ r.req = "WriteFile"
  /\ \/ r.opcode = "Ack" /\ r.session = mavlinkFtpSessionId /\ ChunkAcknowledged
     \/ r.opcode = "Ack" /\ r.session # mavlinkFtpSessionId /\ Disregard
     \/ r.opcode = "Nak" /\ ChunkRefused
     \/ r.opcode = "Other" /\ Disregard

ClosingSession(r) ==
  /\ state = "ClosingSession" /\ r.req = "TerminateSession"
  /\ \/ r.opcode = "Ack" /\ TerminateAnswered("Done")
     \/ r.opcode = "Nak" /\ TerminateAnswered("Failed")
     \/ r.opcode = "Other" /\ Disregard

Expected(r) ==
  \/ state = "CreatingSession" /\ r.req = "OpenFileWo"
  \/ state = "Transferring" /\ r.req = "WriteFile"
  \/ state = "ClosingSession" /\ r.req = "TerminateSession"

\* StateIdle, or an answer to a request of another state: ignored, the timer runs on.
Irrelevant(r) ==
  /\ ~Expected(r)
  /\ KeepFile
  /\ UNCHANGED <<sessionVars, reports, toAp, timerArmed>>

process ==
  /\ WqFree
  /\ toClient # <<>>
  /\ toClient' = Tail(toClient)
  /\ LET r == Head(toClient)
     IN CreatingSession(r) \/ Transferring(r) \/ ClosingSession(r) \/ Irrelevant(r)
  /\ KeepUpload
  /\ UNCHANGED <<notifyPending, apStored, timerCallback, asyncVars, crashed, nFetches, started, goal>>
-----------------------------------------------------------------------------
(* The work queue thread: a delayed send calls initializeMavlinkMessage, *)
(* which takes no mutex.                                                 *)

AsyncFrame ==
  UNCHANGED <<memoryPool, initialized, uploading, fileSize, remaining, notifyPending, nUploads,
              toClient, apStored, sessionVars, timerVars, historyVars>>

\* switch (requestRepeat.state)
AsyncBegin ==
  /\ WqFree
  /\ asyncQueue > 0
  /\ asyncQueue' = asyncQueue - 1
  /\ \/ state = "Idle" /\ UNCHANGED <<toAp, asyncSend>>
     \/ /\ state = "CreatingSession"
        /\ toAp' = Put(toAp, OpenRequest)
        /\ UNCHANGED asyncSend
     \/ /\ state = "ClosingSession"
        /\ toAp' = Put(toAp, TerminateRequest(messageSequenceNumber, mavlinkFtpSessionId))
        /\ UNCHANGED asyncSend
     \/ /\ state = "Transferring"
        /\ asyncSend' = [NoSend EXCEPT !.pc = "read"]
        /\ UNCHANGED toAp
  /\ UNCHANGED <<file, crashed>>
  /\ AsyncFrame

\* bftFile->read: the bytes are copied.  onHrTimer may have reset the pointer.
AsyncRead ==
  /\ asyncSend.pc = "read"
  /\ ~crashed
  /\ IF bftFile = "none"
     THEN crashed' = TRUE /\ UNCHANGED asyncSend
     ELSE /\ LET n == NRead(HeldFile)
             IN asyncSend' = [pc |-> "advance", size |-> n,
                              data |-> IF n = 0 THEN 0 ELSE HeldFile.pos]
          /\ UNCHANGED crashed
  /\ UNCHANGED <<file, toAp, asyncQueue>>
  /\ AsyncFrame

\* The position is advanced and the message is packed with the offset of the moment.
AsyncPack ==
  /\ asyncSend.pc = "advance"
  /\ file' = IF asyncSend.size = 1 /\ file.open
             THEN [file EXCEPT !.pos = Step(file.pos, 1)]
             ELSE file
  /\ toAp' = Put(toAp, WriteRequest(mavlinkFtpSessionId, fileOffset,
                                    asyncSend.size, asyncSend.data))
  /\ asyncSend' = NoSend
  /\ UNCHANGED <<asyncQueue, crashed>>
  /\ AsyncFrame

\* The panic handler restarts the chip; what is on the wire stays there.
Restart ==
  /\ crashed
  /\ UploadRestart
  /\ state' = "Idle"
  /\ iAttempt' = 0
  /\ bftFile' = "none"
  /\ messageSequenceNumber' = 0
  /\ mavlinkFtpSessionId' = 0
  /\ fileOffset' = 0
  /\ timerArmed' = FALSE
  /\ timerCallback' = FALSE
  /\ asyncQueue' = 0
  /\ asyncSend' = NoSend
  /\ crashed' = FALSE
  /\ nFetches' = 0
  /\ started' = FALSE
  /\ goal' = 0
  /\ reports' = <<>>
  /\ UNCHANGED peerVars
-----------------------------------------------------------------------------
(* The other two actors, and the system. *)

Environment ==
  /\ ~crashed
  /\ \/ UploadNext /\ UNCHANGED peerVars
     \/ PeerNext /\ UNCHANGED uploadVars
  /\ UNCHANGED <<sessionVars, timerVars, asyncVars, crashed, historyVars>>

WorkQueue == NotifyUpload \/ NotifyFetch \/ process \/ AsyncBegin \/ AsyncRead \/ AsyncPack

Next ==
  \/ ~crashed /\ TimerElapse
  \/ ~crashed /\ onHrTimer
  \/ NotifyUpload
  \/ NotifyFetch
  \/ process
  \/ AsyncBegin
  \/ AsyncRead
  \/ AsyncPack
  \/ Restart
  \/ Environment

Spec == Init /\ [][Next]_vars

\* esp_timer calls a due callback, the work queue thread runs what has been pushed, and a
\* panic restarts the chip.  Nothing is assumed of the page, the link or the autopilot.
Fairness ==
  /\ WF_vars(~crashed /\ TimerElapse)
  /\ WF_vars(~crashed /\ onHrTimer)
  /\ WF_vars(AsyncBegin)
  /\ WF_vars(AsyncRead)
  /\ WF_vars(AsyncPack)
  /\ WF_vars(Restart)

FairSpec == Spec /\ Fairness

\* With an autopilot that answers and a work queue that passes the answers on.  A delayed
\* send keeps process waiting for its own length only: the work queue is served in order.
AnsweringSpec ==
  /\ FairSpec
  /\ WF_vars(Environment /\ ApAccept)
  /\ SF_vars(process)
  /\ WF_vars(NotifyUpload)
-----------------------------------------------------------------------------
(* Safety. *)

Active == state # "Idle"

\* The client holds a file exactly while it opens a session or transfers: no path, the
\* timer's included, keeps the page's only buffer from being freed or frees it early.
FileHeldWhileActive ==
  bftFile # "none" <=> state \in {"CreatingSession", "Transferring"}

\* The page's buffer is open only while the page fills it, its hand-over is queued or the
\* client holds it, and the page's `initialized` flag says so.
BufferReleased ==
  /\ initialized = file.open
  /\ file.open => uploading \/ notifyPending > 0 \/ bftFile = "upload"

\* Whatever the order of acknowledgements, retries and delayed sends, the acknowledged
\* offset stays behind the read cursor and the cursor inside the file.
CursorOrder ==
  /\ file.pos <= file.len
  /\ file.len <= file.cap
  /\ state = "Transferring" /\ bftFile = "upload" /\ file.open => fileOffset <= file.pos

\* A session that has ended was reported as done or failed: the client never drops a
\* transfer silently.
OutcomeReported == started /\ ~Active => reports # <<>>

\* No retry timer outlives its session, even when onHrTimer was already waiting for the
\* mutex while a message ended the session: it would report a failure of nothing.
TimerOnlyInSession == timerArmed => Active

\* A late onHrTimer finds the attempts counted afresh by the message that overtook it.
LateCallbackIsFresh == timerArmed /\ timerCallback => iAttempt = 0

\* The hand-overs under way were all begun as uploads.
HandoversCounted == notifyPending + (IF uploading THEN 1 ELSE 0) <= nUploads

\* Every session has begun with a hand-over, and so has the one a late onHrTimer belonged to.
SessionStarted == Active \/ timerCallback => started

\* A session in progress always has a retry ahead of it.
ActiveSessionHasRetry == Active => timerArmed \/ timerCallback

\* A write request carries the bytes of the offset it names.
ChunkMatchesOffset ==
  \A i \in 1..Len(toAp) :
    toAp[i].op = "WriteFile" /\ toAp[i].size = 1 => toAp[i].data = toAp[i].offset

\* What the client counts as transferred, the autopilot has stored where it belongs.
AckedMeansStored ==
  state = "Transferring" => \A i \in 0..MaxPos : i < fileOffset => <<i, i>> \in apStored
-----------------------------------------------------------------------------
(* What the client promises, and how its state maps to it. *)

Phase ==
  IF state = "Idle" THEN "idle" ELSE IF state = "ClosingSession" THEN "closing" ELSE "sending"

Transfer == INSTANCE TransferSession WITH phase <- Phase, holds <- bftFile # "none"

\* The client implements TransferSession: whatever order messages, retries, late timers and
\* hand-overs come in, it takes a file only when idle, gives it back before the session is
\* over, reports every session that ends (but for a crash of the chip, a null file being
\* read), and reports it done at most once, at its very end.
ImplementsTransferSession == Transfer!Spec
-----------------------------------------------------------------------------
(* Liveness. *)

\* Every session ends, with a crash of the chip if not otherwise.
SessionEnds == Active ~> ~Active

\* A session that cannot go on ends: when the autopilot falls silent for good, because the
\* attempts run out (onHrTimer); and that of a file that was fetched, because it is closed
\* before it is handed over (onCommandLongFetchFile).
DoomedSessionsEnd ==
  /\ <>[](toClient = <<>>) => []<>(~Active)
  /\ bftFile = "fetch" ~> ~Active
-----------------------------------------------------------------------------
(* Expected of this code and not kept by it: see README.md. *)

\* A transfer that ended with nothing but "done" has stored the whole file.
DoneMeansStored ==
  reports = <<"Done">> => \A i \in 0..MaxPos : i < goal => <<i, i>> \in apStored

\* initializeMavlinkMessage, which takes no mutex, never finds the file pointer reset.
NoNullFileRead == ~crashed

\* A hand-over the client ignores because a session is active leaves the file of that
\* session open.
IgnoredHandOverKeepsFile ==
  [][NotifyUpload /\ bftFile = "upload" => file'.open = file.open]_vars
=============================================================================
