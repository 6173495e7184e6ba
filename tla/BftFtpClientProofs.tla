------------------------- MODULE BftFtpClientProofs -------------------------
(***************************************************************************)
(* Type correctness, the session invariants and the order of the cursor of *)
(* BftFtpClient, for every value of the constants the theorems allow.      *)
(***************************************************************************)
EXTENDS BftFtpClient, TLAPS

\* The inductive invariant of the types: the bound on pending hand-overs needs the count
\* of uploads, the others follow from the guards.
TypeInv == TypeOK /\ HandoversCounted
-----------------------------------------------------------------------------
(* The helpers keep their types. *)

LEMMA PutType ==
  ASSUME NEW S, NEW link \in Seq(S), NEW m \in S
  PROVE  Put(link, m) \in Seq(S)
BY DEF Put

LEMMA StepType ==
  ASSUME NEW p \in 0..MaxPos, NEW n \in 0..1
  PROVE  Step(p, n) \in 0..MaxPos
BY UploadAssumption DEF Step, Lesser

LEMMA NReadType ==
  ASSUME NEW f
  PROVE  NRead(f) \in 0..1
BY DEF NRead

LEMMA ClosedFileType == ClosedFile \in FileType
BY UploadAssumption DEF ClosedFile, FileType

LEMMA SeekType ==
  ASSUME NEW f \in FileType, NEW offset \in 0..MaxPos
  PROVE  Seek(f, offset) \in FileType
BY UploadAssumption DEF Seek, FileType, Lesser

LEMMA AdvanceType ==
  ASSUME NEW f \in FileType, NEW n \in 0..1
  PROVE  [f EXCEPT !.pos = Step(f.pos, n)] \in FileType
BY StepType DEF FileType

LEMMA AppendType ==
  ASSUME NEW f \in FileType
  PROVE  append(f) \in FileType
<1>1. CASE f.open
  <2> DEFINE n == IF f.pos # f.cap THEN 1 ELSE 0
  <2> DEFINE p == Step(f.pos, n)
  <2>1. p \in 0..MaxPos
    BY StepType DEF FileType
  <2>2. append(f) = [f EXCEPT !.pos = p, !.len = p]
    BY <1>1 DEF append
  <2> HIDE DEF p
  <2>3. QED
    BY <2>1, <2>2 DEF FileType
<1>2. CASE ~f.open
  BY <1>2 DEF append
<1>3. QED
  BY <1>1, <1>2

LEMMA HeldFileType ==
  ASSUME TypeOK
  PROVE  HeldFile \in FileType
BY ClosedFileType DEF TypeOK, UploadTypeOK, HeldFile

LEMMA RequestTypes ==
  ASSUME NEW session \in SessionField, NEW offset \in 0..MaxPos,
         NEW size \in 0..1, NEW data \in 0..MaxPos, NEW seq \in 0..(SeqMod - 1)
  PROVE  /\ OpenRequest \in Request
         /\ WriteRequest(session, offset, size, data) \in Request
         /\ TerminateRequest(seq, session) \in Request
BY PeerAssumption, UploadAssumption, ClientAssumption
   DEF OpenRequest, WriteRequest, TerminateRequest, Request, Requests, SessionField

LEMMA NextSeqType ==
  ASSUME TypeOK
  PROVE  NextSeq \in 0..(SeqMod - 1)
BY PeerAssumption DEF TypeOK, NextSeq
-----------------------------------------------------------------------------
(* The parts of an action keep their types. *)

\* The types of the file and the flag behind it, the part that actions share.
FileTypes == memoryPool \in PoolStates /\ file \in FileType /\ initialized \in BOOLEAN

LEMMA FileActionTypes ==
  ASSUME TypeOK
  PROVE  /\ resetContext => FileTypes'
         /\ ReleaseFile => FileTypes'
         /\ KeepFile => FileTypes'
         /\ \A f \in FileType : MoveCursor(f) => FileTypes'
<1>1. FileTypes
  BY DEF TypeOK, UploadTypeOK, FileTypes
<1>2. resetContext => FileTypes'
  BY <1>1, ClosedFileType DEF resetContext, closeFile, FileTypes, PoolStates
<1>3. KeepFile => FileTypes'
  BY <1>1 DEF KeepFile, FileTypes
<1>4. ReleaseFile => FileTypes'
  BY <1>2, <1>3 DEF ReleaseFile, KeepFile
<1>5. \A f \in FileType : MoveCursor(f) => FileTypes'
  BY <1>1 DEF MoveCursor, FileTypes
<1>6. QED
  BY <1>2, <1>3, <1>4, <1>5

LEMMA SendChunkTypes ==
  ASSUME TypeOK, NEW f \in FileType, NEW session \in SessionField,
         NEW offset \in 0..MaxPos, SendChunk(f, session, offset)
  PROVE  FileTypes' /\ toAp' \in Seq(Request)
<1> DEFINE n == NRead(f)
<1> DEFINE m == WriteRequest(session, offset, n, IF n = 0 THEN 0 ELSE f.pos)
<1> DEFINE g == [f EXCEPT !.pos = Step(f.pos, n)]
<1>1. n \in 0..1
  BY NReadType
<1>2. (IF n = 0 THEN 0 ELSE f.pos) \in 0..MaxPos
  BY UploadAssumption DEF FileType
<1>3. 0 \in 0..(SeqMod - 1)
  BY PeerAssumption
<1> HIDE DEF n
<1>4. m \in Request
  BY <1>1, <1>2, <1>3, RequestTypes
<1>5. g \in FileType
  BY <1>1, AdvanceType
<1>6. toAp \in Seq(Request)
  BY DEF TypeOK, PeerTypeOK
<1>7. toAp' = Put(toAp, m) /\ MoveCursor(g)
  BY DEF SendChunk, n
<1> HIDE DEF m, g
<1>8. QED
  BY <1>4, <1>5, <1>6, <1>7, FileActionTypes, PutType
-----------------------------------------------------------------------------
(* process() keeps the types: one lemma for the three states, since each answer *)
(* disturbs the same variables.                                                 *)

\* What an answer may change, with its types.
AnswerTypes ==
  /\ FileTypes
  /\ state \in States
  /\ iAttempt \in 0..knMaxAttempts
  /\ bftFile \in Holders
  /\ messageSequenceNumber \in 0..(SeqMod - 1)
  /\ mavlinkFtpSessionId \in SessionField
  /\ fileOffset \in 0..MaxPos
  /\ toAp \in Seq(Request)
  /\ timerArmed \in BOOLEAN
  /\ reports \in Seq({"Failed", "Done"})

LEMMA AnswerTypesNow == TypeOK => AnswerTypes
BY DEF TypeOK, UploadTypeOK, PeerTypeOK, AnswerTypes, FileTypes

LEMMA SendTerminateTypes ==
  ASSUME TypeOK, NEW seq \in 0..(SeqMod - 1), SendTerminate(seq)
  PROVE  toAp' \in Seq(Request) /\ timerArmed' \in BOOLEAN
                                /\ mavlinkFtpSessionId' \in SessionField
<1>1. TerminateRequest(seq, mavlinkFtpSessionId) \in Request
  BY RequestTypes, UploadAssumption DEF TypeOK
<1>2. QED
  BY <1>1, PutType DEF SendTerminate, TypeOK, PeerTypeOK

LEMMA AnswerKeepsTypes ==
  ASSUME TypeOK, NEW r \in Response,
         \/ CreatingSession(r) \/ Transferring(r) \/ ClosingSession(r) \/ Irrelevant(r)
  PROVE  AnswerTypes'
<1>1. AnswerTypes
  BY AnswerTypesNow
<1> USE DEF Response, States, Holders
<1>2. HeldFile \in FileType /\ Seek(HeldFile, 0) \in FileType
  BY HeldFileType, SeekType, UploadAssumption
<1>3. HeldFile.pos \in 0..MaxPos /\ 0 \in 0..MaxPos /\ 0 \in 0..knMaxAttempts
  BY <1>2, UploadAssumption, ClientAssumption DEF FileType
<1>4. NextSeq \in 0..(SeqMod - 1)
  BY NextSeqType
<1>5. handleIdleTransition => FileTypes' /\ state' \in States /\ bftFile' \in Holders
  BY FileActionTypes DEF handleIdleTransition
<1>6. handleClosingSessionTransition => /\ FileTypes' /\ state' \in States
                                        /\ bftFile' \in Holders
                                        /\ iAttempt' \in 0..knMaxAttempts
  BY <1>3, FileActionTypes DEF handleClosingSessionTransition
<1>7. \A e \in {"Failed", "Done"} : Report(e) => reports' \in Seq({"Failed", "Done"})
  BY <1>1 DEF Report, AnswerTypes
<1>8. CASE OpenAcknowledged(r)
  <2>1. FileTypes' /\ toAp' \in Seq(Request)
    BY <1>2, <1>3, <1>8, SendChunkTypes DEF OpenAcknowledged
  <2>2. QED
    BY <1>1, <1>3, <1>4, <1>8, <2>1 DEF OpenAcknowledged, AnswerTypes
<1>9. CASE OpenRefused
  BY <1>1, <1>5, <1>7, <1>9 DEF OpenRefused, AnswerTypes
<1>10. CASE Disregard
  BY <1>1, <1>10, FileActionTypes DEF Disregard, AnswerTypes, sessionVars
<1>11. CASE ChunkAcknowledged
  <2>1. messageSequenceNumber' \in 0..(SeqMod - 1) /\ fileOffset' \in 0..MaxPos
        /\ reports' \in Seq({"Failed", "Done"})
    BY <1>1, <1>3, <1>4, <1>11 DEF ChunkAcknowledged, AnswerTypes
  <2>2. CASE isEof(HeldFile.pos)
    BY <1>4, <1>6, <1>11, <2>1, <2>2, SendTerminateTypes DEF ChunkAcknowledged, AnswerTypes
  <2>3. CASE ~isEof(HeldFile.pos)
    <3>1. FileTypes' /\ toAp' \in Seq(Request)
      BY <1>1, <1>2, <1>3, <1>11, <2>3, SendChunkTypes DEF ChunkAcknowledged, AnswerTypes
    <3>2. QED
      BY <1>1, <1>3, <1>11, <2>1, <2>3, <3>1 DEF ChunkAcknowledged, AnswerTypes
  <2>4. QED
    BY <2>2, <2>3
<1>12. CASE ChunkRefused
  <2>1. messageSequenceNumber \in 0..(SeqMod - 1)
    BY <1>1 DEF AnswerTypes
  <2>2. QED
    BY <1>1, <1>6, <1>7, <1>12, <2>1, SendTerminateTypes DEF ChunkRefused, AnswerTypes
<1>13. CASE \E e \in {"Failed", "Done"} : TerminateAnswered(e)
  BY <1>1, <1>5, <1>7, <1>13 DEF TerminateAnswered, AnswerTypes
<1>14. CASE Irrelevant(r)
  BY <1>1, <1>14, FileActionTypes DEF Irrelevant, AnswerTypes, sessionVars
<1>15. QED
  BY <1>8, <1>9, <1>10, <1>11, <1>12, <1>13, <1>14
     DEF CreatingSession, Transferring, ClosingSession
-----------------------------------------------------------------------------
(* Each action keeps the types. *)

LEMMA ProcessType ==
  ASSUME TypeInv, process
  PROVE  TypeInv'
<1> DEFINE r == Head(toClient)
<1>1. TypeOK /\ HandoversCounted
  BY DEF TypeInv
<1>2. r \in Response /\ Tail(toClient) \in Seq(Response)
  BY <1>1 DEF TypeOK, PeerTypeOK, process
<1>3. CreatingSession(r) \/ Transferring(r) \/ ClosingSession(r) \/ Irrelevant(r)
  BY DEF process
<1> HIDE DEF r
<1>4. AnswerTypes'
  BY <1>1, <1>2, <1>3, AnswerKeepsTypes
<1>5. toClient' = Tail(toClient)
  BY DEF process
<1>6. /\ UNCHANGED <<uploading, fileSize, remaining, nUploads, notifyPending>>
      /\ UNCHANGED <<apStored, timerCallback, asyncQueue, asyncSend, crashed, nFetches,
                     started, goal>>
  BY DEF process, KeepUpload, asyncVars
<1>7. TypeOK'
  BY <1>1, <1>2, <1>4, <1>5, <1>6
     DEF TypeOK, UploadTypeOK, PeerTypeOK, AnswerTypes, FileTypes
<1>8. QED
  BY <1>1, <1>6, <1>7 DEF TypeInv, HandoversCounted

LEMMA TimerElapseType ==
  ASSUME TypeInv, TimerElapse
  PROVE  TypeInv'
BY DEF TypeInv, HandoversCounted, TimerElapse, TypeOK, UploadTypeOK, PeerTypeOK, uploadVars,
       peerVars, sessionVars, asyncVars, historyVars

LEMMA OnHrTimerType ==
  ASSUME TypeInv, onHrTimer
  PROVE  TypeInv'
<1>1. TypeOK /\ HandoversCounted
  BY DEF TypeInv
<1>2. /\ UNCHANGED <<uploading, fileSize, remaining, nUploads, notifyPending>>
      /\ UNCHANGED <<toAp, toClient, apStored>>
      /\ UNCHANGED <<messageSequenceNumber, mavlinkFtpSessionId, fileOffset, asyncSend,
                     crashed, nFetches, started, goal>>
      /\ asyncQueue < AsyncCap
      /\ timerCallback' = FALSE
  BY DEF onHrTimer, KeepUpload, peerVars
<1> DEFINE Rest == /\ FileTypes' /\ state' \in States /\ iAttempt' \in 0..knMaxAttempts
                   /\ bftFile' \in Holders /\ reports' \in Seq({"Failed", "Done"})
                   /\ asyncQueue' \in 0..AsyncCap /\ timerArmed' \in BOOLEAN
<1>3. AnswerTypes
  BY <1>1, AnswerTypesNow
<1>4. asyncQueue \in 0..AsyncCap /\ asyncQueue + 1 \in 0..AsyncCap
  BY <1>1, <1>2, ClientAssumption DEF TypeOK
<1>5. ASSUME GiveUp PROVE Rest
  <2>1. reports' \in Seq({"Failed", "Done"})
    BY <1>3, <1>5 DEF GiveUp, Report, AnswerTypes
  <2>2. CASE state = "Transferring"
    BY <1>1, <1>4, <1>5, <2>1, <2>2, FileActionTypes, ClientAssumption
       DEF GiveUp, PushSend, handleClosingSessionTransition, States, Holders
  <2>3. CASE state # "Transferring"
    BY <1>1, <1>3, <1>4, <1>5, <2>1, <2>3, FileActionTypes
       DEF GiveUp, handleIdleTransition, States, Holders, AnswerTypes
  <2>4. QED
    BY <2>2, <2>3
<1>6. ASSUME Resend PROVE Rest
  <2>1. iAttempt' \in 0..knMaxAttempts
    BY <1>3, <1>6, ClientAssumption DEF Resend, AttemptsUsedUp, AnswerTypes
  <2>2. Seek(HeldFile, fileOffset) \in FileType
    BY <1>1, HeldFileType, SeekType DEF TypeOK
  <2>3. FileTypes'
    BY <1>1, <1>6, <2>2, FileActionTypes DEF Resend
  <2>4. QED
    BY <1>3, <1>4, <1>6, <2>1, <2>3 DEF Resend, PushSend, AnswerTypes
<1>7. Rest
  BY <1>5, <1>6 DEF onHrTimer
<1>8. TypeOK'
  BY <1>1, <1>2, <1>7 DEF TypeOK, UploadTypeOK, PeerTypeOK, FileTypes
<1>9. QED
  BY <1>1, <1>2, <1>8 DEF TypeInv, HandoversCounted

LEMMA NotifyUploadType ==
  ASSUME TypeInv, NotifyUpload
  PROVE  TypeInv'
<1>1. TypeOK /\ HandoversCounted
  BY DEF TypeInv
<1>2. FileTypes'
  BY <1>1, FileActionTypes DEF NotifyUpload
<1>3. /\ UNCHANGED <<uploading, fileSize, remaining, nUploads>>
      /\ UNCHANGED <<toAp, toClient, apStored>>
      /\ UNCHANGED <<messageSequenceNumber, mavlinkFtpSessionId, fileOffset, timerCallback,
                     asyncSend, crashed, nFetches>>
      /\ asyncQueue < AsyncCap
      /\ notifyPending > 0
      /\ notifyPending' = notifyPending - 1
  BY DEF NotifyUpload, KeepUpload, peerVars
<1>4. notifyPending' \in 0..MaxUploads
  BY <1>1, <1>3, UploadAssumption DEF TypeOK, UploadTypeOK
<1>5. asyncQueue \in 0..AsyncCap /\ asyncQueue + 1 \in 0..AsyncCap
  BY <1>1, <1>3, ClientAssumption DEF TypeOK
<1>6. file.len \in 0..MaxPos /\ 0 \in 0..MaxPos /\ 0 \in 0..knMaxAttempts
  BY <1>1, UploadAssumption, ClientAssumption DEF TypeOK, UploadTypeOK, FileType
<1>7. BeginSession("upload") \/ StaySession
  BY DEF NotifyUpload
<1>8. TypeOK'
  <2>1. CASE BeginSession("upload")
    BY <1>1, <1>2, <1>3, <1>4, <1>5, <1>6, <2>1
       DEF TypeOK, UploadTypeOK, PeerTypeOK, FileTypes, BeginSession, PushSend, States, Holders
  <2>2. CASE StaySession
    BY <1>1, <1>2, <1>3, <1>4, <1>5, <1>6, <2>2
       DEF TypeOK, UploadTypeOK, PeerTypeOK, FileTypes, StaySession
  <2>3. QED
    BY <1>7, <2>1, <2>2
<1>9. HandoversCounted'
  BY <1>1, <1>3, UploadAssumption DEF HandoversCounted, TypeOK, UploadTypeOK
<1>10. QED
  BY <1>8, <1>9 DEF TypeInv

LEMMA NotifyFetchType ==
  ASSUME TypeInv, NotifyFetch
  PROVE  TypeInv'
<1>1. TypeOK /\ HandoversCounted
  BY DEF TypeInv
<1>2. /\ UNCHANGED <<uploading, fileSize, remaining, nUploads, file, initialized, notifyPending>>
      /\ UNCHANGED <<toAp, toClient, apStored>>
      /\ UNCHANGED <<messageSequenceNumber, mavlinkFtpSessionId, fileOffset, timerCallback,
                     asyncSend, crashed>>
      /\ asyncQueue < AsyncCap
      /\ nFetches < MaxFetches
      /\ nFetches' = nFetches + 1
      /\ memoryPool' = IF memoryPool = "null" THEN "dangling" ELSE memoryPool
  BY DEF NotifyFetch, KeepUpload, peerVars
<1>3. memoryPool' \in PoolStates
  BY <1>1, <1>2 DEF TypeOK, UploadTypeOK, PoolStates
<1>4. nFetches' \in 0..MaxFetches
  BY <1>1, <1>2, ClientAssumption DEF TypeOK
<1>5. asyncQueue \in 0..AsyncCap /\ asyncQueue + 1 \in 0..AsyncCap
  BY <1>1, <1>2, ClientAssumption DEF TypeOK
<1>6. 0 \in 0..MaxPos /\ 0 \in 0..knMaxAttempts
  BY UploadAssumption, ClientAssumption
<1>7. BeginSession("fetch") \/ StaySession
  BY DEF NotifyFetch
<1>8. TypeOK'
  <2>1. CASE BeginSession("fetch")
    BY <1>1, <1>2, <1>3, <1>4, <1>5, <1>6, <2>1
       DEF TypeOK, UploadTypeOK, PeerTypeOK, BeginSession, PushSend, States, Holders
  <2>2. CASE StaySession
    BY <1>1, <1>2, <1>3, <1>4, <2>2
       DEF TypeOK, UploadTypeOK, PeerTypeOK, StaySession
  <2>3. QED
    BY <1>7, <2>1, <2>2
<1>9. QED
  BY <1>1, <1>2, <1>8 DEF TypeInv, HandoversCounted

\* What a delayed send leaves alone.
LEMMA AsyncFrameTypes ==
  ASSUME TypeInv, AsyncFrame, file' \in FileType, toAp' \in Seq(Request),
         asyncQueue' \in 0..AsyncCap, asyncSend' \in AsyncType, crashed' \in BOOLEAN
  PROVE  TypeInv'
BY DEF TypeInv, TypeOK, UploadTypeOK, PeerTypeOK, HandoversCounted, AsyncFrame, sessionVars,
       timerVars, historyVars

LEMMA AsyncBeginType ==
  ASSUME TypeInv, AsyncBegin
  PROVE  TypeInv'
<1>1. TypeOK /\ AsyncFrame /\ UNCHANGED <<file, crashed>>
  BY DEF TypeInv, AsyncBegin
<1>2. asyncQueue' \in 0..AsyncCap
  BY <1>1, ClientAssumption DEF TypeOK, AsyncBegin
<1>3. /\ toAp \in Seq(Request) /\ asyncSend \in AsyncType
      /\ file \in FileType /\ crashed \in BOOLEAN
      /\ messageSequenceNumber \in 0..(SeqMod - 1) /\ mavlinkFtpSessionId \in SessionField
  BY <1>1 DEF TypeOK, UploadTypeOK, PeerTypeOK
<1>4. /\ OpenRequest \in Request
      /\ TerminateRequest(messageSequenceNumber, mavlinkFtpSessionId) \in Request
  BY <1>3, RequestTypes, UploadAssumption
<1>5. [NoSend EXCEPT !.pc = "read"] \in AsyncType
  BY UploadAssumption DEF NoSend, AsyncType
<1>6. toAp' \in Seq(Request) /\ asyncSend' \in AsyncType
  BY <1>3, <1>4, <1>5, PutType DEF AsyncBegin
<1>7. QED
  BY <1>1, <1>2, <1>3, <1>6, AsyncFrameTypes

LEMMA AsyncReadType ==
  ASSUME TypeInv, AsyncRead
  PROVE  TypeInv'
<1>1. /\ TypeOK /\ AsyncFrame
      /\ UNCHANGED <<file, toAp, asyncQueue>>
  BY DEF TypeInv, AsyncRead
<1>2. /\ toAp \in Seq(Request) /\ asyncSend \in AsyncType /\ asyncQueue \in 0..AsyncCap
      /\ file \in FileType /\ crashed \in BOOLEAN
  BY <1>1 DEF TypeOK, UploadTypeOK, PeerTypeOK
<1>3. \A n \in 0..1 :
        [pc |-> "advance", size |-> n, data |-> IF n = 0 THEN 0 ELSE HeldFile.pos] \in AsyncType
  BY <1>1, HeldFileType, UploadAssumption DEF AsyncType, FileType
<1>4. asyncSend' \in AsyncType /\ crashed' \in BOOLEAN
  BY <1>2, <1>3, NReadType DEF AsyncRead
<1>5. QED
  BY <1>1, <1>2, <1>4, AsyncFrameTypes

LEMMA AsyncPackType ==
  ASSUME TypeInv, AsyncPack
  PROVE  TypeInv'
<1>1. /\ TypeOK /\ AsyncFrame
      /\ UNCHANGED <<asyncQueue, crashed>>
  BY DEF TypeInv, AsyncPack
<1>2. /\ toAp \in Seq(Request) /\ asyncSend \in AsyncType /\ asyncQueue \in 0..AsyncCap
      /\ file \in FileType /\ crashed \in BOOLEAN
      /\ fileOffset \in 0..MaxPos /\ mavlinkFtpSessionId \in SessionField
  BY <1>1 DEF TypeOK, UploadTypeOK, PeerTypeOK
<1>3. WriteRequest(mavlinkFtpSessionId, fileOffset, asyncSend.size, asyncSend.data) \in Request
  <2>1. asyncSend.size \in 0..1 /\ asyncSend.data \in 0..MaxPos /\ 0 \in 0..(SeqMod - 1)
    BY <1>2, PeerAssumption DEF AsyncType
  <2>2. QED
    BY <1>2, <2>1, RequestTypes
<1>4. file' \in FileType
  <2>1. [file EXCEPT !.pos = Step(file.pos, 1)] \in FileType
    <3>1. 1 \in 0..1
      OBVIOUS
    <3>2. QED
      BY ONLY <1>2, <3>1, AdvanceType
  <2>2. QED
    BY <1>2, <2>1 DEF AsyncPack
<1>5. toAp' \in Seq(Request)
  BY <1>2, <1>3, PutType DEF AsyncPack
<1>6. asyncSend' \in AsyncType
  BY UploadAssumption DEF AsyncPack, NoSend, AsyncType
<1>7. QED
  BY <1>1, <1>2, <1>4, <1>5, <1>6, AsyncFrameTypes

LEMMA RestartType ==
  ASSUME TypeInv, Restart
  PROVE  TypeInv'
<1>1. ClosedFile \in FileType
  BY ClosedFileType
<1>2. /\ 0 \in 0..MaxLen /\ 0 \in 0..MaxPos /\ 0 \in 0..MaxUploads /\ 0 \in 0..knMaxAttempts
      /\ 0 \in 0..(SeqMod - 1) /\ 0 \in 0..AsyncCap /\ 0 \in 0..MaxFetches
      /\ 0 \in SessionField
  BY UploadAssumption, PeerAssumption, ClientAssumption DEF SessionField
<1>3. NoSend \in AsyncType
  BY <1>2 DEF NoSend, AsyncType
<1>4. UploadTypeOK'
  BY <1>1, <1>2 DEF Restart, UploadRestart, UploadTypeOK, PoolStates
<1>5. PeerTypeOK'
  BY DEF Restart, TypeInv, TypeOK, PeerTypeOK, peerVars
<1>6. TypeOK'
  <2>1. <<>> \in Seq({"Failed", "Done"}) /\ "Idle" \in States /\ "none" \in Holders
    BY DEF States, Holders
  <2>2. QED
    BY <1>2, <1>3, <1>4, <1>5, <2>1 DEF Restart, TypeOK
<1>7. HandoversCounted'
  BY DEF Restart, UploadRestart, HandoversCounted
<1>8. QED
  BY <1>6, <1>7 DEF TypeInv

LEMMA UploadNextType ==
  ASSUME TypeInv, UploadNext
  PROVE  UploadTypeOK' /\ HandoversCounted'
<1>1. UploadTypeOK /\ HandoversCounted /\ TypeOK
  BY DEF TypeInv, TypeOK
<1>2. ASSUME NEW size \in 0..MaxLen, NEW length \in 0..MaxLen, UploadStart(size, length)
      PROVE  UploadTypeOK' /\ HandoversCounted'
  BY <1>1, <1>2, UploadAssumption DEF UploadStart, UploadTypeOK, HandoversCounted
<1>3. ASSUME UploadChunk
      PROVE  UploadTypeOK' /\ HandoversCounted'
  <2>1. Opened \in FileType
    BY <1>1, UploadAssumption DEF UploadTypeOK, FileType, Opened
  <2>2. append(Opened) \in FileType /\ append(file) \in FileType /\ ClosedFile \in FileType
    BY <1>1, <2>1, AppendType, ClosedFileType DEF UploadTypeOK
  <2>3. remaining' \in 0..MaxLen
    BY <1>1, <1>3, UploadAssumption DEF UploadChunk, UploadTypeOK
  <2>4. FileTypes'
    BY <1>1, <1>3, <2>2 DEF UploadChunk, UploadTypeOK, FileTypes, PoolStates
  <2>5. QED
    BY <1>1, <1>3, <2>3, <2>4 DEF UploadChunk, UploadTypeOK, HandoversCounted, FileTypes
<1>4. ASSUME UploadFail
      PROVE  UploadTypeOK' /\ HandoversCounted'
  <2>1. FileTypes'
    BY <1>1, <1>4, FileActionTypes DEF UploadFail
  <2>2. 0 \in 0..MaxLen
    BY UploadAssumption
  <2>3. UploadTypeOK'
    BY <1>1, <1>4, <2>1, <2>2 DEF UploadFail, UploadTypeOK, FileTypes
  <2>4. notifyPending \in Nat /\ nUploads \in Nat /\ notifyPending <= nUploads
    BY <1>1, UploadAssumption DEF UploadTypeOK, HandoversCounted
  <2>5. UNCHANGED <<notifyPending, nUploads>> /\ uploading' = FALSE
    BY <1>4 DEF UploadFail
  <2>6. QED
    BY <2>3, <2>4, <2>5 DEF HandoversCounted
<1>5. ASSUME UploadFinish
      PROVE  UploadTypeOK' /\ HandoversCounted'
  <2>1. /\ notifyPending \in Nat /\ nUploads \in 0..MaxUploads
        /\ notifyPending + 1 <= nUploads
    BY <1>1, <1>5, UploadAssumption DEF UploadFinish, UploadTypeOK, HandoversCounted
  <2>2. /\ notifyPending' = notifyPending + 1 /\ uploading' = FALSE
        /\ UNCHANGED <<memoryPool, file, initialized, remaining, nUploads>> /\ fileSize' = 0
    BY <1>5 DEF UploadFinish
  <2>3. notifyPending' \in 0..MaxUploads /\ HandoversCounted'
    BY <2>1, <2>2, UploadAssumption DEF HandoversCounted
  <2>4. 0 \in 0..MaxLen
    BY UploadAssumption
  <2>5. QED
    BY <1>1, <2>2, <2>3, <2>4 DEF UploadTypeOK
<1>6. QED
  BY <1>2, <1>3, <1>4, <1>5 DEF UploadNext

LEMMA PeerNextType ==
  ASSUME PeerTypeOK, PeerNext
  PROVE  PeerTypeOK'
<1> USE DEF PeerTypeOK
<1>1. \A m \in Request, opcode \in Opcodes, session \in SessionField :
        Reply(m, opcode, session) => toClient' \in Seq(Response)
  <2> TAKE m \in Request, opcode \in Opcodes, session \in SessionField
  <2> DEFINE r == [req |-> m.op, opcode |-> opcode, session |-> session]
  <2>1. r \in Response
    BY DEF Response, Request
  <2>2. toClient \in Seq(Response)
    OBVIOUS
  <2> HIDE DEF r
  <2>3. Put(toClient, r) \in Seq(Response)
    BY <2>1, <2>2, PutType
  <2>4. QED
    BY <2>3 DEF Reply, r
<1>2. toAp # <<>> => Head(toAp) \in Request /\ Tail(toAp) \in Seq(Request)
  OBVIOUS
<1>3. CASE ApAccept
  <2> DEFINE m == Head(toAp)
  <2>1. m \in Request /\ toAp' \in Seq(Request)
    BY <1>2, <1>3 DEF ApAccept
  <2>2. toClient' \in Seq(Response)
    BY <1>1, <1>3, <2>1 DEF ApAccept, Request, Opcodes, SessionField
  <2>3. apStored' \subseteq (0..MaxOffset) \X (0..MaxOffset)
    BY <1>3, <2>1, PeerAssumption DEF ApAccept, Request
  <2>4. QED
    BY <2>1, <2>2, <2>3
<1>4. CASE ApMisbehave
  <2> DEFINE m == Head(toAp)
  <2>1. m \in Request /\ toAp' \in Seq(Request)
    BY <1>2, <1>4 DEF ApMisbehave
  <2>2. toClient' \in Seq(Response)
    BY <1>1, <1>4, <2>1 DEF ApMisbehave, Request, Opcodes
  <2>3. QED
    BY <1>4, <2>1, <2>2 DEF ApMisbehave
<1>5. CASE Lose
  <2>1. toClient # <<>> => Tail(toClient) \in Seq(Response)
    OBVIOUS
  <2>2. toAp' \in Seq(Request) /\ toClient' \in Seq(Response)
    BY <1>2, <1>5, <2>1 DEF Lose
  <2>3. QED
    BY <1>5, <2>2 DEF Lose
<1>6. QED
  BY <1>3, <1>4, <1>5 DEF PeerNext

LEMMA EnvironmentType ==
  ASSUME TypeInv, Environment
  PROVE  TypeInv'
<1>1. TypeOK /\ HandoversCounted /\ PeerTypeOK /\ UploadTypeOK
  BY DEF TypeInv, TypeOK
<1>2. UploadTypeOK' /\ PeerTypeOK' /\ HandoversCounted'
  <2>1. CASE UploadNext /\ UNCHANGED peerVars
    BY <1>1, <2>1, UploadNextType DEF peerVars, PeerTypeOK
  <2>2. CASE PeerNext /\ UNCHANGED uploadVars
    BY <1>1, <2>2, PeerNextType DEF uploadVars, UploadTypeOK, HandoversCounted
  <2>3. QED
    BY <2>1, <2>2 DEF Environment
<1>3. UNCHANGED <<sessionVars, timerVars, asyncVars, crashed, historyVars>>
  BY DEF Environment
<1>4. QED
  BY <1>1, <1>2, <1>3 DEF TypeInv, TypeOK, sessionVars, timerVars, asyncVars, historyVars
-----------------------------------------------------------------------------
LEMMA TypeInvInit == Init => TypeInv
<1>1. ClosedFile \in FileType
  BY ClosedFileType
<1>2. /\ 0 \in 0..MaxLen /\ 0 \in 0..MaxPos /\ 0 \in 0..MaxUploads /\ 0 \in 0..knMaxAttempts
      /\ 0 \in 0..(SeqMod - 1) /\ 0 \in 0..AsyncCap /\ 0 \in 0..MaxFetches
      /\ 0 \in SessionField
  BY UploadAssumption, PeerAssumption, ClientAssumption DEF SessionField
<1>3. NoSend \in AsyncType
  BY <1>2 DEF NoSend, AsyncType
<1>4. UploadInit => UploadTypeOK /\ HandoversCounted
  <2>1. UploadInit => UploadTypeOK
    BY <1>1, <1>2 DEF UploadInit, UploadTypeOK, PoolStates
  <2>2. UploadInit => HandoversCounted
    BY DEF UploadInit, HandoversCounted
  <2>3. QED
    BY <2>1, <2>2
<1>5. PeerInit => PeerTypeOK
  BY DEF PeerInit, PeerTypeOK
<1>6. Init => TypeOK
  <2>1. <<>> \in Seq({"Failed", "Done"}) /\ "Idle" \in States /\ "none" \in Holders
    BY DEF States, Holders
  <2>2. QED
    BY <1>2, <1>3, <1>4, <1>5, <2>1 DEF Init, ClientInit, TypeOK
<1>7. QED
  BY <1>4, <1>6 DEF Init, TypeInv

LEMMA TypeInvStep == TypeInv /\ [Next]_vars => TypeInv'
<1>1. SUFFICES ASSUME TypeInv, [Next]_vars PROVE TypeInv'
  OBVIOUS
<1>2. CASE UNCHANGED vars
  BY <1>1, <1>2
     DEF TypeInv, TypeOK, UploadTypeOK, PeerTypeOK, HandoversCounted, vars, uploadVars,
         peerVars, sessionVars, timerVars, asyncVars, historyVars
<1>3. QED
  BY <1>1, <1>2, TimerElapseType, OnHrTimerType, NotifyUploadType, NotifyFetchType,
     ProcessType, AsyncBeginType, AsyncReadType, AsyncPackType, RestartType, EnvironmentType
     DEF Next

\* Every variable keeps its type, for every file length, retry limit, link capacity and
\* set of peer faults: in particular the count of attempts stays within knMaxAttempts
\* whatever the timer, the messages and the hand-overs do to it.
THEOREM TypeCorrect == Spec => []TypeOK
<1>1. TypeInv => TypeOK
  BY DEF TypeInv
<1>2. QED
  BY <1>1, TypeInvInit, TypeInvStep, PTL DEF Spec
-----------------------------------------------------------------------------
(* The session invariants.  None of the four properties is inductive alone: that a     *)
(* timer stays within its session needs the fresh count of a late callback, and that   *)
(* the buffer is released needs to know when the client holds it.                      *)

Session ==
  /\ FileHeldWhileActive
  /\ BufferReleased
  /\ OutcomeReported
  /\ TimerOnlyInSession
  /\ LateCallbackIsFresh
  /\ SessionStarted

SessionInv == TypeInv /\ Session

\* No operation on an open file closes it, or the other way round.
LEMMA OpenKept ==
  ASSUME NEW f \in FileType
  PROVE  /\ append(f).open = f.open
         /\ \A offset \in 0..MaxPos : Seek(f, offset).open = f.open
         /\ \A p \in 0..MaxPos : [f EXCEPT !.pos = p].open = f.open
BY DEF FileType, append, Seek

\* The buffer and its flag agree, and the buffer is open only in someone's hands.
LEMMA FileActionsRelease ==
  ASSUME TypeOK, BufferReleased
  PROVE  /\ resetContext => file'.open = FALSE /\ initialized' = FALSE
         /\ ReleaseFile => /\ initialized' = file'.open
                           /\ file'.open => file.open /\ bftFile # "upload"
         /\ KeepFile => initialized' = file'.open /\ file'.open = file.open
         /\ \A f \in FileType : f.open = HeldFile.open /\ MoveCursor(f) =>
              initialized' = file'.open /\ file'.open = file.open
<1>1. ClosedFile.open = FALSE
  BY DEF ClosedFile
<1>2. resetContext => file'.open = FALSE /\ initialized' = FALSE
  BY <1>1 DEF resetContext, closeFile
<1>3. KeepFile => initialized' = file'.open /\ file'.open = file.open
  BY DEF KeepFile, BufferReleased
<1>4. ReleaseFile => initialized' = file'.open /\ (file'.open => file.open /\ bftFile # "upload")
  BY <1>2, <1>3 DEF ReleaseFile, KeepFile
<1>5. \A f \in FileType : f.open = HeldFile.open /\ MoveCursor(f) =>
        initialized' = file'.open /\ file'.open = file.open
  BY DEF MoveCursor, HeldFile, BufferReleased
<1>6. QED
  BY <1>2, <1>3, <1>4, <1>5

\* A chunk is read from a file that stays open.
LEMMA SendChunkKeepsOpen ==
  ASSUME TypeOK, BufferReleased, NEW f \in FileType, f.open = HeldFile.open,
         NEW session, NEW offset, SendChunk(f, session, offset)
  PROVE  initialized' = file'.open /\ file'.open = file.open
<1> DEFINE p == Step(f.pos, NRead(f))
<1>1. p \in 0..MaxPos
  BY StepType, NReadType DEF FileType
<1> HIDE DEF p
<1>2. [f EXCEPT !.pos = p] \in FileType /\ [f EXCEPT !.pos = p].open = HeldFile.open
  BY <1>1, OpenKept DEF FileType
<1>3. MoveCursor([f EXCEPT !.pos = p])
  BY DEF SendChunk, p
<1>4. QED
  BY <1>2, <1>3, FileActionsRelease

LEMMA AnswerKeepsSession ==
  ASSUME TypeOK, Session, NEW r \in Response,
         CreatingSession(r) \/ Transferring(r) \/ ClosingSession(r) \/ Irrelevant(r),
         UNCHANGED <<uploading, notifyPending, timerCallback, started>>
  PROVE  Session'
<1> USE DEF Session, FileHeldWhileActive, BufferReleased, OutcomeReported, TimerOnlyInSession,
            LateCallbackIsFresh, SessionStarted, Active
<1>1. HeldFile \in FileType /\ Seek(HeldFile, 0) \in FileType
      /\ Seek(HeldFile, 0).open = HeldFile.open
  BY HeldFileType, SeekType, OpenKept, UploadAssumption
<1>2. \A e \in {"Failed", "Done"} : Report(e) => reports' # <<>>
  BY DEF Report, TypeOK
<1>3. CASE state = "CreatingSession" /\ OpenAcknowledged(r)
  <2>1. initialized' = file'.open /\ file'.open = file.open
    BY <1>1, <1>3, SendChunkKeepsOpen DEF OpenAcknowledged
  <2>2. QED
    BY <1>3, <2>1 DEF OpenAcknowledged
<1>4. CASE OpenRefused
  BY <1>2, <1>4, FileActionsRelease DEF OpenRefused, handleIdleTransition
<1>5. CASE Disregard
  BY <1>5, FileActionsRelease DEF Disregard, sessionVars
<1>6. CASE state = "Transferring" /\ ChunkAcknowledged
  <2>1. CASE isEof(HeldFile.pos)
    BY <1>6, <2>1, FileActionsRelease
       DEF ChunkAcknowledged, handleClosingSessionTransition, SendTerminate
  <2>2. CASE ~isEof(HeldFile.pos)
    <3>1. initialized' = file'.open /\ file'.open = file.open
      BY <1>1, <1>6, <2>2, SendChunkKeepsOpen DEF ChunkAcknowledged
    <3>2. QED
      BY <1>6, <2>2, <3>1 DEF ChunkAcknowledged
  <2>3. QED
    BY <2>1, <2>2
<1>7. CASE state = "Transferring" /\ ChunkRefused
  BY <1>7, FileActionsRelease DEF ChunkRefused, handleClosingSessionTransition, SendTerminate
<1>8. CASE \E e \in {"Failed", "Done"} : TerminateAnswered(e)
  BY <1>2, <1>8, FileActionsRelease DEF TerminateAnswered, handleIdleTransition
<1>9. CASE Irrelevant(r)
  BY <1>9, FileActionsRelease DEF Irrelevant, sessionVars
<1>10. QED
  BY <1>3, <1>4, <1>5, <1>6, <1>7, <1>8, <1>9 DEF CreatingSession, Transferring, ClosingSession

LEMMA OnHrTimerKeepsSession ==
  ASSUME TypeOK, Session, onHrTimer
  PROVE  Session'
<1> USE DEF Session, FileHeldWhileActive, BufferReleased, OutcomeReported, TimerOnlyInSession,
            LateCallbackIsFresh, SessionStarted, Active
<1>1. timerCallback /\ timerCallback' = FALSE /\ UNCHANGED <<uploading, notifyPending, started>>
  BY DEF onHrTimer, KeepUpload
<1>2. CASE GiveUp
  <2>1. reports' # <<>>
    BY <1>2 DEF GiveUp, Report, TypeOK
  <2>2. ~timerArmed
    BY <1>1, <1>2, ClientAssumption DEF GiveUp, AttemptsUsedUp
  <2>3. CASE state = "Transferring"
    BY <1>1, <1>2, <2>1, <2>3, FileActionsRelease
       DEF GiveUp, handleClosingSessionTransition
  <2>4. CASE state # "Transferring"
    BY <1>1, <1>2, <2>1, <2>2, <2>4, FileActionsRelease DEF GiveUp, handleIdleTransition
  <2>5. QED
    BY <2>3, <2>4
<1>3. CASE Resend
  <2>1. Seek(HeldFile, fileOffset) \in FileType
        /\ Seek(HeldFile, fileOffset).open = HeldFile.open
    BY HeldFileType, SeekType, OpenKept DEF TypeOK
  <2>2. initialized' = file'.open /\ file'.open = file.open
    BY <1>3, <2>1, FileActionsRelease DEF Resend
  <2>3. QED
    BY <1>1, <1>3, <2>2 DEF Resend
<1>4. QED
  BY <1>2, <1>3 DEF onHrTimer

LEMMA HandOverKeepsSession ==
  ASSUME TypeOK, Session, NotifyUpload \/ NotifyFetch
  PROVE  Session'
<1> USE DEF Session, FileHeldWhileActive, BufferReleased, OutcomeReported, TimerOnlyInSession,
            LateCallbackIsFresh, SessionStarted, Active
<1>1. CASE NotifyUpload
  <2>1. UNCHANGED <<uploading, timerCallback>>
    BY <1>1 DEF NotifyUpload, KeepUpload
  <2>2. CASE state = "Idle"
    BY <1>1, <2>1, <2>2, FileActionsRelease DEF NotifyUpload, BeginSession
  <2>3. CASE state # "Idle"
    <3>1. resetContext /\ StaySession
      BY <1>1, <2>3 DEF NotifyUpload
    <3>2. file'.open = FALSE /\ initialized' = FALSE
      BY <3>1, FileActionsRelease
    <3>3. QED
      BY <2>1, <2>3, <3>1, <3>2 DEF StaySession
  <2>4. QED
    BY <2>2, <2>3
<1>2. CASE NotifyFetch
  <2>1. UNCHANGED <<uploading, timerCallback, notifyPending, file, initialized>>
    BY <1>2 DEF NotifyFetch, KeepUpload
  <2>2. CASE state = "Idle"
    BY <1>2, <2>1, <2>2 DEF NotifyFetch, BeginSession
  <2>3. CASE state # "Idle"
    BY <1>2, <2>1, <2>3 DEF NotifyFetch, StaySession
  <2>4. QED
    BY <2>2, <2>3
<1>3. QED
  BY <1>1, <1>2

LEMMA AsyncKeepsSession ==
  ASSUME TypeOK, Session, AsyncBegin \/ AsyncRead \/ AsyncPack
  PROVE  Session'
<1> USE DEF Session, FileHeldWhileActive, BufferReleased, OutcomeReported, TimerOnlyInSession,
            LateCallbackIsFresh, SessionStarted, Active
<1>1. AsyncFrame
  BY DEF AsyncBegin, AsyncRead, AsyncPack
<1>2. file'.open = file.open
  <2>1. [file EXCEPT !.pos = Step(file.pos, 1)].open = file.open
    BY DEF TypeOK, UploadTypeOK, FileType
  <2>2. QED
    BY <2>1 DEF AsyncBegin, AsyncRead, AsyncPack
<1>3. QED
  BY <1>1, <1>2 DEF AsyncFrame, sessionVars, timerVars, historyVars

LEMMA UploadKeepsSession ==
  ASSUME TypeInv, Session, UploadNext,
         UNCHANGED <<sessionVars, timerVars, asyncVars, crashed, historyVars>>
  PROVE  Session'
<1>1. TypeOK /\ notifyPending \in Nat
  BY UploadAssumption DEF TypeInv, TypeOK, UploadTypeOK
<1>2. SUFFICES BufferReleased'
  BY DEF Session, FileHeldWhileActive, OutcomeReported, TimerOnlyInSession,
         LateCallbackIsFresh, SessionStarted, Active, sessionVars, timerVars, historyVars
<1> USE DEF Session, BufferReleased
<1>3. bftFile' = bftFile
  BY DEF sessionVars
<1>4. ASSUME NEW size \in 0..MaxLen, NEW length \in 0..MaxLen, UploadStart(size, length) PROVE BufferReleased'
  BY <1>3, <1>4 DEF UploadStart
<1>5. ASSUME UploadChunk PROVE BufferReleased'
  <2>1. Opened \in FileType /\ Opened.open = TRUE
    BY <1>1, UploadAssumption DEF TypeOK, UploadTypeOK, FileType, Opened
  <2>2. append(Opened).open = TRUE /\ append(file).open = file.open /\ ClosedFile.open = FALSE
    BY <1>1, <2>1, OpenKept DEF TypeOK, UploadTypeOK, ClosedFile
  <2>3. uploading' = TRUE
    BY <1>5 DEF UploadChunk
  <2>4. CASE initialized
    BY <1>5, <2>2, <2>3, <2>4 DEF UploadChunk
  <2>5. CASE ~initialized /\ CanOpen
    <3>1. file' = append(Opened) /\ initialized' = TRUE
      BY <1>5, <2>5 DEF UploadChunk
    <3>2. QED
      BY <2>2, <2>3, <3>1
  <2>6. CASE ~initialized /\ ~CanOpen
    <3>1. file' = ClosedFile /\ initialized' = initialized
      BY <1>5, <2>6 DEF UploadChunk
    <3>2. initialized \in BOOLEAN
      BY <1>1 DEF TypeOK, UploadTypeOK
    <3>3. QED
      BY <2>2, <2>3, <2>6, <3>1, <3>2
  <2>7. QED
    BY <2>4, <2>5, <2>6
<1>6. ASSUME UploadFail PROVE BufferReleased'
  BY <1>1, <1>6, FileActionsRelease DEF UploadFail
<1>7. ASSUME UploadFinish PROVE BufferReleased'
  BY <1>1, <1>3, <1>7 DEF UploadFinish
<1>8. QED
  BY <1>4, <1>5, <1>6, <1>7 DEF UploadNext
-----------------------------------------------------------------------------
LEMMA SessionInvInit == Init => SessionInv
<1>1. Init => TypeInv
  BY TypeInvInit
<1>2. Init => Session
  <2>1. ClosedFile.open = FALSE
    BY DEF ClosedFile
  <2>2. QED
    BY <2>1 DEF Init, UploadInit, ClientInit, Session, FileHeldWhileActive, BufferReleased,
                OutcomeReported, TimerOnlyInSession, LateCallbackIsFresh, SessionStarted, Active
<1>3. QED
  BY <1>1, <1>2 DEF SessionInv

LEMMA SessionInvStep == SessionInv /\ [Next]_vars => SessionInv'
<1>1. SUFFICES ASSUME SessionInv, [Next]_vars PROVE Session'
  BY TypeInvStep DEF SessionInv
<1>2. TypeInv /\ TypeOK /\ Session
  BY <1>1 DEF SessionInv, TypeInv
<1>3. CASE TimerElapse
  BY <1>2, <1>3
     DEF TimerElapse, Session, FileHeldWhileActive, BufferReleased, OutcomeReported,
         TimerOnlyInSession, LateCallbackIsFresh, SessionStarted, Active, uploadVars, sessionVars, historyVars
<1>4. CASE onHrTimer
  BY <1>2, <1>4, OnHrTimerKeepsSession
<1>5. CASE NotifyUpload \/ NotifyFetch
  BY <1>2, <1>5, HandOverKeepsSession
<1>6. CASE process
  <2>1. Head(toClient) \in Response
    BY <1>2, <1>6 DEF process, TypeOK, PeerTypeOK
  <2>2. UNCHANGED <<uploading, notifyPending, timerCallback, started>>
    BY <1>6 DEF process, KeepUpload
  <2>3. QED
    BY <1>2, <1>6, <2>1, <2>2, AnswerKeepsSession DEF process
<1>7. CASE AsyncBegin \/ AsyncRead \/ AsyncPack
  BY <1>2, <1>7, AsyncKeepsSession
<1>8. CASE Restart
  BY <1>8
     DEF Restart, UploadRestart, ClosedFile, Session, FileHeldWhileActive, BufferReleased,
         OutcomeReported, TimerOnlyInSession, LateCallbackIsFresh, SessionStarted, Active
<1>9. CASE Environment
  <2>1. UNCHANGED <<sessionVars, timerVars, asyncVars, crashed, historyVars>>
    BY <1>9 DEF Environment
  <2>2. CASE UploadNext
    BY <1>2, <2>1, <2>2, UploadKeepsSession
  <2>3. CASE UNCHANGED uploadVars
    BY <1>2, <2>1, <2>3
       DEF Session, FileHeldWhileActive, BufferReleased, OutcomeReported, TimerOnlyInSession,
           LateCallbackIsFresh, SessionStarted, Active, uploadVars, sessionVars, timerVars, historyVars
  <2>4. QED
    BY <1>9, <2>2, <2>3 DEF Environment
<1>10. CASE UNCHANGED vars
  BY <1>2, <1>10
     DEF Session, FileHeldWhileActive, BufferReleased, OutcomeReported, TimerOnlyInSession,
         LateCallbackIsFresh, SessionStarted, Active, vars, uploadVars, sessionVars, timerVars, historyVars
<1>11. QED
  BY <1>1, <1>3, <1>4, <1>5, <1>6, <1>7, <1>8, <1>9, <1>10 DEF Next

LEMMA SessionInvariant == Spec => []SessionInv
BY SessionInvInit, SessionInvStep, PTL DEF Spec

\* The client holds a file exactly while it opens a session or transfers, whichever of the
\* message handler, onHrTimer and the hand-overs moves it between its states.
THEOREM FileIsHeldWhileActive == Spec => []FileHeldWhileActive
<1>1. SessionInv => FileHeldWhileActive
  BY DEF SessionInv, Session
<1>2. QED
  BY <1>1, SessionInvariant, PTL

\* The page's buffer never stays open with nobody to close it, for any number of uploads
\* begun before, during and after a session (fwupload.cpp and handleIdleTransition).
THEOREM BufferIsReleased == Spec => []BufferReleased
<1>1. SessionInv => BufferReleased
  BY DEF SessionInv, Session
<1>2. QED
  BY <1>1, SessionInvariant, PTL

\* No session ends without a report to the subscribers of OnTransferUpdate.
THEOREM OutcomeIsReported == Spec => []OutcomeReported
<1>1. SessionInv => OutcomeReported
  BY DEF SessionInv, Session
<1>2. QED
  BY <1>1, SessionInvariant, PTL

\* No retry timer outlives its session, not even the one a late onHrTimer starts.
THEOREM TimerStaysInSession == Spec => []TimerOnlyInSession
<1>1. SessionInv => TimerOnlyInSession
  BY DEF SessionInv, Session
<1>2. QED
  BY <1>1, SessionInvariant, PTL
-----------------------------------------------------------------------------
(* The cursor.  The pool has one cursor for the page that appends and the client that  *)
(* reads, so its order is a matter of who uses the file: CursorOrder holds as long as  *)
(* the page receives nothing into a file that the client holds.  A second upload that  *)
(* is received during a session breaks that (fwupload.cpp has one static file).        *)

Ordered(f) == f.pos <= f.len /\ f.len <= f.cap /\ (~f.open => f.pos = 0)

\* The page, as long as it has the file, is at its end.
PageAtEnd == bftFile # "upload" => file.pos = file.len

AckedBehind ==
  state = "Transferring" /\ bftFile = "upload" /\ file.open => fileOffset <= file.pos

\* A delayed send that has copied a payload, and is about to pass it, still finds it ahead:
\* a retry in between goes back to what was acknowledged before.
PastCopy ==
  asyncSend.size = 1 =>
    /\ asyncSend.pc = "advance"
    /\ memoryPool # "null"
    /\ file.open => state = "Transferring" /\ bftFile = "upload" /\ file.pos < file.len

\* A delayed send of a chunk was begun in a transfer, and no other session begins meanwhile.
AsyncOfTransfer == asyncSend.pc # "none" => state = "Transferring" \/ bftFile = "none"

OpenHasPool == file.open => memoryPool # "null"

CursorInv ==
  /\ Ordered(file)
  /\ PageAtEnd
  /\ AckedBehind
  /\ PastCopy
  /\ AsyncOfTransfer
  /\ OpenHasPool

LEMMA FileFields ==
  ASSUME NEW f \in FileType
  PROVE  /\ f.open \in BOOLEAN
         /\ f.pos \in Nat /\ f.len \in Nat /\ f.cap \in Nat
         /\ f.pos <= MaxPos /\ f.len <= MaxPos /\ f.cap <= MaxPos
BY UploadAssumption DEF FileType

LEMMA StepIsBounded ==
  ASSUME NEW p \in Nat, NEW n \in 0..1, p + n <= MaxPos
  PROVE  Step(p, n) = p + n
BY UploadAssumption DEF Step, Lesser

\* What a read does to the file
Read(f) == [f EXCEPT !.pos = Step(f.pos, NRead(f))]

LEMMA ReadFacts ==
  ASSUME NEW f \in FileType, Ordered(f)
  PROVE  /\ Read(f) \in FileType /\ Ordered(Read(f))
         /\ Read(f).open = f.open /\ Read(f).len = f.len
         /\ Read(f).pos = f.pos + NRead(f)
         /\ NRead(f) \in 0..1 /\ (NRead(f) = 1 => f.open /\ f.pos < f.len)
<1>1. /\ f.pos \in Nat /\ f.len \in Nat /\ f.cap \in Nat /\ f.cap <= MaxPos
      /\ f.pos <= f.len /\ f.len <= f.cap
  BY FileFields DEF Ordered
<1>2. NRead(f) \in 0..1 /\ (NRead(f) = 1 => f.open /\ f.pos < f.len)
  BY <1>1 DEF NRead
<1>3. f.pos + NRead(f) <= f.len /\ f.pos + NRead(f) <= MaxPos
  BY <1>1, <1>2, UploadAssumption
<1>4. Step(f.pos, NRead(f)) = f.pos + NRead(f)
  BY <1>1, <1>2, <1>3, StepIsBounded
<1>5. Read(f) \in FileType
  BY <1>2, AdvanceType DEF Read
<1>6. /\ Read(f).open = f.open /\ Read(f).len = f.len /\ Read(f).cap = f.cap
      /\ Read(f).pos = f.pos + NRead(f)
  BY <1>4 DEF Read, FileType
<1>7. Ordered(Read(f))
  BY <1>1, <1>2, <1>3, <1>6 DEF Ordered
<1>8. QED
  BY <1>2, <1>5, <1>6, <1>7

LEMMA SeekFacts ==
  ASSUME NEW f \in FileType, NEW offset \in 0..MaxPos, Ordered(f)
  PROVE  /\ Seek(f, offset) \in FileType /\ Ordered(Seek(f, offset))
         /\ Seek(f, offset).open = f.open /\ Seek(f, offset).len = f.len
         /\ f.open /\ offset <= f.len => Seek(f, offset).pos = offset
<1>1. /\ f.pos \in Nat /\ f.len \in Nat /\ f.cap \in Nat /\ offset \in Nat
  BY FileFields, UploadAssumption
<1>2. CASE f.open
  <2>1. /\ Seek(f, offset).open = f.open /\ Seek(f, offset).len = f.len
        /\ Seek(f, offset).cap = f.cap /\ Seek(f, offset).pos = Lesser(offset, f.len)
    BY <1>2 DEF Seek, FileType
  <2>2. Lesser(offset, f.len) <= f.len /\ (offset <= f.len => Lesser(offset, f.len) = offset)
    BY <1>1 DEF Lesser
  <2>3. QED
    BY <1>2, <2>1, <2>2, SeekType DEF Ordered
<1>3. CASE ~f.open
  BY <1>3 DEF Seek
<1>4. QED
  BY <1>2, <1>3

LEMMA AppendFacts ==
  ASSUME NEW f \in FileType, Ordered(f), f.pos = f.len
  PROVE  Ordered(append(f)) /\ append(f).pos = append(f).len /\ append(f).open = f.open
<1>1. /\ f.pos \in Nat /\ f.len \in Nat /\ f.cap \in Nat /\ f.cap <= MaxPos
      /\ f.pos <= f.len /\ f.len <= f.cap
  BY FileFields DEF Ordered
<1>2. CASE f.open
  <2> DEFINE n == IF f.pos # f.cap THEN 1 ELSE 0
  <2>1. n \in 0..1 /\ f.pos + n <= f.cap /\ f.pos + n <= MaxPos
    BY <1>1, UploadAssumption
  <2>2. Step(f.pos, n) = f.pos + n
    BY <1>1, <2>1, StepIsBounded
  <2>3. append(f) = [f EXCEPT !.pos = f.pos + n, !.len = f.pos + n]
    BY <1>2, <2>2 DEF append
  <2> HIDE DEF n
  <2>4. /\ append(f).pos = f.pos + n /\ append(f).len = f.pos + n /\ append(f).cap = f.cap
        /\ append(f).open = f.open
    BY <2>3 DEF FileType
  <2>5. QED
    BY <1>1, <1>2, <2>1, <2>4 DEF Ordered
<1>3. CASE ~f.open
  BY <1>3 DEF append
<1>4. QED
  BY <1>2, <1>3

LEMMA ClosedFacts ==
  Ordered(ClosedFile) /\ ClosedFile.open = FALSE /\ ClosedFile.pos = 0 /\ ClosedFile.len = 0
BY DEF ClosedFile, Ordered
-----------------------------------------------------------------------------
(* The steps of the client and the page, on the cursor *)

\* The file is closed, or somebody else's: nothing is asked of its cursor.
LEMMA ClosedKeeps ==
  ASSUME TypeOK, file' = ClosedFile,
         asyncSend'.size = 1 => asyncSend'.pc = "advance" /\ memoryPool' # "null",
         asyncSend'.pc # "none" => state' = "Transferring" \/ bftFile' = "none"
  PROVE  CursorInv'
BY ClosedFacts
   DEF CursorInv, PageAtEnd, AckedBehind, PastCopy, AsyncOfTransfer, OpenHasPool

\* A closed file's pool is still there, as an address at least.
LEMMA ResetFile ==
  ASSUME TypeOK, resetContext
  PROVE  file' = ClosedFile /\ (memoryPool # "null" => memoryPool' # "null")
BY DEF resetContext, closeFile

\* bftFile.reset()
LEMMA ReleaseKeeps ==
  ASSUME TypeOK, CursorInv, ReleaseFile, bftFile' = "none", state' # "Transferring",
         asyncSend' = asyncSend
  PROVE  CursorInv'
<1>1. CASE bftFile = "upload"
  <2>1. file' = ClosedFile /\ (memoryPool # "null" => memoryPool' # "null")
    BY <1>1, ResetFile DEF ReleaseFile
  <2>2. QED
    BY <2>1, ClosedKeeps DEF CursorInv, PastCopy
<1>2. CASE bftFile # "upload"
  <2>1. UNCHANGED <<file, memoryPool>>
    BY <1>2 DEF ReleaseFile
  <2>2. QED
    BY <1>2, <2>1
       DEF CursorInv, PageAtEnd, AckedBehind, PastCopy, AsyncOfTransfer, OpenHasPool
<1>3. QED
  BY <1>1, <1>2

\* A chunk is sent: from the offset that is acknowledged by then.
LEMMA SendChunkCursor ==
  ASSUME TypeOK, CursorInv, asyncSend.pc = "none", asyncSend.size = 0,
         NEW f \in FileType, Ordered(f), f.open = HeldFile.open,
         NEW session, NEW offset \in Nat, f.open => offset <= f.pos, SendChunk(f, session, offset),
         bftFile' = bftFile, fileOffset' = offset, asyncSend' = asyncSend
  PROVE  CursorInv'
<1>1. MoveCursor(Read(f))
  BY DEF SendChunk, Read
<1>2. memoryPool' = memoryPool
  BY <1>1 DEF MoveCursor
<1>3. CASE bftFile = "upload"
  <2>1. file' = Read(f) /\ f.open = file.open
    BY <1>1, <1>3 DEF MoveCursor, HeldFile
  <2>2. /\ Ordered(Read(f)) /\ Read(f).open = f.open /\ Read(f).pos = f.pos + NRead(f)
        /\ NRead(f) \in 0..1 /\ f.pos \in Nat
    BY ReadFacts, FileFields
  <2>3. f.open => offset <= f.pos + NRead(f)
    BY <2>2
  <2>4. QED
    BY <1>2, <1>3, <2>1, <2>2, <2>3
       DEF CursorInv, PageAtEnd, AckedBehind, PastCopy, AsyncOfTransfer, OpenHasPool
<1>4. CASE bftFile # "upload"
  BY <1>1, <1>2, <1>4
     DEF MoveCursor, CursorInv, PageAtEnd, AckedBehind, PastCopy, AsyncOfTransfer, OpenHasPool
<1>5. QED
  BY <1>3, <1>4

LEMMA HeldFileFacts ==
  ASSUME TypeOK, CursorInv
  PROVE  /\ file \in FileType /\ HeldFile \in FileType /\ Ordered(HeldFile)
         /\ HeldFile.pos \in 0..MaxPos /\ fileOffset \in 0..MaxPos
         /\ asyncSend.size \in 0..1
<1>1. Ordered(HeldFile)
  BY ClosedFacts DEF HeldFile, CursorInv
<1>2. HeldFile.pos \in 0..MaxPos
  BY HeldFileType, FileFields DEF FileType
<1>3. asyncSend.size \in 0..1
  BY DEF TypeOK, AsyncType
<1>4. QED
  BY <1>1, <1>2, <1>3, HeldFileType DEF TypeOK, UploadTypeOK

LEMMA KeptCursor ==
  ASSUME CursorInv, UNCHANGED <<file, memoryPool, bftFile, asyncSend>>,
         state' = state \/ (state' # "Transferring" /\ asyncSend.pc = "none"),
         fileOffset' = fileOffset
  PROVE  CursorInv'
BY DEF CursorInv, PageAtEnd, AckedBehind, PastCopy, AsyncOfTransfer, OpenHasPool

LEMMA AnswerCursor ==
  ASSUME TypeOK, CursorInv, asyncSend.pc = "none", asyncSend' = asyncSend, NEW r \in Response,
         CreatingSession(r) \/ Transferring(r) \/ ClosingSession(r) \/ Irrelevant(r)
  PROVE  CursorInv'
<1>1. HeldFile \in FileType /\ Ordered(HeldFile) /\ HeldFile.pos \in 0..MaxPos
  BY HeldFileFacts
<1>2. asyncSend.size = 0
  BY HeldFileFacts DEF CursorInv, PastCopy
<1>3. CASE OpenAcknowledged(r)
  <2> DEFINE f == Seek(HeldFile, 0)
  <2>1. 0 \in 0..MaxPos /\ 0 \in Nat
    BY UploadAssumption
  <2>2. f \in FileType /\ Ordered(f) /\ f.open = HeldFile.open /\ f.pos \in Nat
    BY <1>1, <2>1, SeekFacts, FileFields
  <2>3. SendChunk(f, r.session, 0) /\ bftFile' = bftFile /\ fileOffset' = 0
    BY <1>3 DEF OpenAcknowledged
  <2> HIDE DEF f
  <2>4. f.open => 0 <= f.pos
    BY <2>2
  <2>5. QED
    BY <1>2, <2>1, <2>2, <2>3, <2>4, SendChunkCursor
<1>4. CASE OpenRefused \/ (\E e \in {"Failed", "Done"} : TerminateAnswered(e))
  BY <1>4, ReleaseKeeps DEF OpenRefused, TerminateAnswered, handleIdleTransition
<1>5. CASE Disregard \/ Irrelevant(r)
  BY <1>5, KeptCursor DEF Disregard, Irrelevant, KeepFile, sessionVars
<1>6. CASE ChunkAcknowledged
  <2>1. CASE isEof(HeldFile.pos)
    BY <1>6, <2>1, ReleaseKeeps DEF ChunkAcknowledged, handleClosingSessionTransition
  <2>2. CASE ~isEof(HeldFile.pos)
    <3>1. /\ SendChunk(HeldFile, mavlinkFtpSessionId, HeldFile.pos)
          /\ bftFile' = bftFile /\ fileOffset' = HeldFile.pos
      BY <1>6, <2>2 DEF ChunkAcknowledged
    <3>2. HeldFile.pos \in Nat /\ HeldFile.pos <= HeldFile.pos
      BY <1>1, UploadAssumption
    <3>3. QED
      BY <1>1, <1>2, <3>1, <3>2, SendChunkCursor
  <2>3. QED
    BY <2>1, <2>2
<1>7. CASE ChunkRefused
  BY <1>7, ReleaseKeeps DEF ChunkRefused, handleClosingSessionTransition
<1>8. QED
  BY <1>3, <1>4, <1>5, <1>6, <1>7 DEF CreatingSession, Transferring, ClosingSession

LEMMA OnHrTimerCursor ==
  ASSUME TypeOK, CursorInv, FileHeldWhileActive, onHrTimer
  PROVE  CursorInv'
<1>1. asyncSend' = asyncSend /\ fileOffset' = fileOffset
  BY DEF onHrTimer
<1>2. CASE GiveUp
  BY <1>1, <1>2, ReleaseKeeps
  DEF GiveUp, handleClosingSessionTransition, handleIdleTransition
<1>3. CASE Resend
  <2>1. state' = state /\ bftFile' = bftFile
    BY <1>3 DEF Resend
  <2>2. CASE state = "Transferring"
    <3> DEFINE f == Seek(HeldFile, fileOffset)
    <3>1. MoveCursor(f)
      BY <1>3, <2>2 DEF Resend
    <3>2. memoryPool' = memoryPool
      BY <3>1 DEF MoveCursor
    <3>3. CASE bftFile = "upload"
      <4>1. file \in FileType /\ fileOffset \in 0..MaxPos /\ Ordered(file)
        BY HeldFileFacts DEF CursorInv
      <4>2. file' = Seek(file, fileOffset)
        BY <3>1, <3>3 DEF MoveCursor, HeldFile
      <4>3. /\ Ordered(file') /\ file'.open = file.open /\ file'.len = file.len
            /\ file.open /\ fileOffset <= file.len => file'.pos = fileOffset
        BY <4>1, <4>2, SeekFacts
      <4>4. file.open => fileOffset <= file.pos /\ file.pos <= file.len
        BY <2>2, <3>3 DEF CursorInv, AckedBehind, Ordered
      <4>5. /\ fileOffset \in Nat /\ file.pos \in Nat /\ file.len \in Nat
        BY <4>1, UploadAssumption, FileFields
      <4>6. file.open => file'.pos = fileOffset /\ file'.pos <= file.pos
        BY <4>3, <4>4, <4>5
      <4>7. file.open /\ file.pos < file.len => file'.pos < file'.len
        BY <4>3, <4>5, <4>6
      <4>8. QED
        BY <1>1, <2>1, <2>2, <3>2, <3>3, <4>3, <4>6, <4>7, <4>5
        DEF CursorInv, PageAtEnd, AckedBehind, PastCopy, AsyncOfTransfer, OpenHasPool
    <3>4. CASE bftFile # "upload"
      BY <1>1, <2>1, <3>1, <3>2, <3>4, KeptCursor DEF MoveCursor
    <3>5. QED
      BY <3>3, <3>4
  <2>3. CASE state # "Transferring"
    BY <1>1, <1>3, <2>1, <2>3, KeptCursor DEF Resend, KeepFile
  <2>4. QED
    BY <2>2, <2>3
<1>4. QED
  BY <1>2, <1>3 DEF onHrTimer

LEMMA HandOverCursor ==
  ASSUME TypeOK, CursorInv, FileHeldWhileActive, NotifyUpload \/ NotifyFetch
  PROVE  CursorInv'
<1>1. asyncSend' = asyncSend /\ asyncSend.pc = "none" /\ fileOffset' = fileOffset
  BY DEF NotifyUpload, NotifyFetch, WqFree
<1>2. asyncSend.size # 1
  BY <1>1 DEF CursorInv, PastCopy
<1>3. CASE NotifyUpload /\ state # "Idle"
  <2>1. resetContext
    BY <1>3 DEF NotifyUpload
  <2>2. QED
    BY <1>1, <1>2, <2>1, ResetFile, ClosedKeeps
<1>4. CASE /\ state = "Idle" /\ state' = "CreatingSession" /\ file' = file
           /\ bftFile' = "upload" \/ (bftFile' = "fetch" /\ bftFile # "upload")
           /\ memoryPool # "null" => memoryPool' # "null"
  BY <1>1, <1>2, <1>4
  DEF CursorInv, PageAtEnd, AckedBehind, PastCopy, AsyncOfTransfer, OpenHasPool
<1>5. CASE /\ UNCHANGED <<state, bftFile, file>>
           /\ memoryPool # "null" => memoryPool' # "null"
  BY <1>1, <1>2, <1>5
  DEF CursorInv, PageAtEnd, AckedBehind, PastCopy, AsyncOfTransfer, OpenHasPool
<1>6. CASE NotifyUpload /\ state = "Idle"
  <2>1. BeginSession("upload") /\ KeepFile
    BY <1>6 DEF NotifyUpload
  <2>2. QED
    BY <1>4, <1>6, <2>1 DEF BeginSession, KeepFile
<1>7. CASE NotifyFetch
  <2>1. file' = file /\ (memoryPool # "null" => memoryPool' # "null")
    BY <1>7 DEF NotifyFetch
  <2>2. CASE state = "Idle"
    BY <1>4, <1>7, <2>1, <2>2 DEF NotifyFetch, BeginSession, FileHeldWhileActive
  <2>3. CASE state # "Idle"
    BY <1>5, <1>7, <2>1, <2>3 DEF NotifyFetch, StaySession
  <2>4. QED
    BY <2>2, <2>3
<1>8. QED
  BY <1>3, <1>6, <1>7

LEMMA AsyncCursor ==
  ASSUME TypeOK, CursorInv, AsyncBegin \/ AsyncRead \/ AsyncPack
  PROVE  CursorInv'
<1>1. UNCHANGED <<memoryPool, state, bftFile, fileOffset>>
  BY DEF AsyncBegin, AsyncRead, AsyncPack, AsyncFrame, sessionVars
<1>2. CASE AsyncBegin
  <2>1. file' = file
    BY <1>2 DEF AsyncBegin
  <2>2. asyncSend' = asyncSend \/ asyncSend' = [NoSend EXCEPT !.pc = "read"]
    BY <1>2 DEF AsyncBegin
  <2>3. CASE asyncSend' = asyncSend
    BY <1>1, <2>1, <2>3, KeptCursor
  <2>4. CASE asyncSend' = [NoSend EXCEPT !.pc = "read"] /\ asyncSend' # asyncSend
    <3>1. asyncSend'.size = 0 /\ state = "Transferring"
      BY <1>2, <2>4 DEF AsyncBegin, NoSend
    <3>2. QED
      BY <1>1, <2>1, <3>1
      DEF CursorInv, PageAtEnd, AckedBehind, PastCopy, AsyncOfTransfer, OpenHasPool
  <2>5. QED
    BY <2>2, <2>3, <2>4
<1>3. CASE AsyncRead
  <2>1. file' = file /\ asyncSend.pc = "read"
    BY <1>3 DEF AsyncRead
  <2>2. CASE bftFile = "none"
    BY <1>1, <1>3, <2>1, <2>2
    DEF AsyncRead, CursorInv, PageAtEnd, AckedBehind, PastCopy, AsyncOfTransfer, OpenHasPool
  <2>3. CASE bftFile # "none"
    <3>1. asyncSend'.pc = "advance" /\ asyncSend'.size = NRead(HeldFile)
      BY <1>3, <2>3 DEF AsyncRead
    <3>2. NRead(HeldFile) = 1 => bftFile = "upload" /\ file.open /\ file.pos < file.len
      <4>1. HeldFile \in FileType /\ Ordered(HeldFile)
        BY HeldFileFacts
      <4>2. NRead(HeldFile) = 1 => HeldFile.open /\ HeldFile.pos < HeldFile.len
        BY <4>1, ReadFacts
      <4>3. QED
        BY <4>2, ClosedFacts DEF HeldFile
    <3>3. state = "Transferring"
      BY <2>1, <2>3 DEF CursorInv, AsyncOfTransfer
    <3>4. QED
      BY <1>1, <2>1, <3>1, <3>2, <3>3
      DEF CursorInv, PageAtEnd, AckedBehind, PastCopy, AsyncOfTransfer, OpenHasPool
  <2>4. QED
    BY <2>2, <2>3
<1>4. CASE AsyncPack
  <2>1. asyncSend'.pc = "none" /\ asyncSend'.size = 0
    BY <1>4 DEF AsyncPack, NoSend
  <2>2. CASE asyncSend.size = 1 /\ file.open
    <3>1. /\ file \in FileType /\ Ordered(file) /\ file.pos < file.len
          /\ state = "Transferring" /\ bftFile = "upload"
      BY <2>2, HeldFileFacts DEF CursorInv, PastCopy
    <3>2. NRead(file) = 1
      BY <2>2, <3>1, FileFields DEF NRead
    <3>3. file' = Read(file)
      BY <1>4, <2>2, <3>2 DEF AsyncPack, Read
    <3>4. Ordered(file') /\ file'.open = file.open /\ file'.pos = file.pos + 1
      BY <3>1, <3>2, <3>3, ReadFacts
    <3>5. fileOffset <= file.pos /\ fileOffset \in 0..MaxPos
      BY <2>2, <3>1, HeldFileFacts DEF CursorInv, AckedBehind
    <3>6. fileOffset <= file'.pos
      BY <3>1, <3>4, <3>5, FileFields, UploadAssumption
    <3>7. QED
      BY <1>1, <2>1, <3>1, <3>4, <3>6
      DEF CursorInv, PageAtEnd, AckedBehind, PastCopy, AsyncOfTransfer, OpenHasPool
  <2>3. CASE ~(asyncSend.size = 1 /\ file.open)
    <3>1. file' = file
      BY <1>4, <2>3 DEF AsyncPack
    <3>2. QED
      BY <1>1, <2>1, <3>1
      DEF CursorInv, PageAtEnd, AckedBehind, PastCopy, AsyncOfTransfer, OpenHasPool
  <2>4. QED
    BY <2>2, <2>3
<1>5. QED
  BY <1>2, <1>3, <1>4

\* The page's steps, when it receives nothing into a file that the client holds.
LEMMA UploadCursor ==
  ASSUME TypeOK, CursorInv, BufferReleased, UploadNext, UploadChunk => bftFile # "upload",
         UNCHANGED <<sessionVars, asyncVars>>
  PROVE  CursorInv'
<1>1. UNCHANGED <<state, bftFile, fileOffset, asyncSend>>
  BY DEF sessionVars, asyncVars
<1>2. CASE UploadChunk
  <2>1. bftFile # "upload" /\ file \in FileType /\ Ordered(file) /\ file.pos = file.len
    BY <1>2, HeldFileFacts DEF CursorInv, PageAtEnd
  <2>2. asyncSend.size = 1 => ~file.open /\ memoryPool # "null"
    BY <2>1 DEF CursorInv, PastCopy
  <2>3. CASE initialized
    <3>1. file' = append(file) /\ memoryPool' = memoryPool /\ file.open
      BY <1>2, <2>3 DEF UploadChunk, BufferReleased
    <3>2. Ordered(file') /\ file'.pos = file'.len
      BY <2>1, <3>1, AppendFacts
    <3>3. QED
      BY <1>1, <2>1, <2>2, <3>1, <3>2
      DEF CursorInv, PageAtEnd, AckedBehind, PastCopy, AsyncOfTransfer, OpenHasPool
  <2>4. CASE ~initialized /\ CanOpen
    <3>1. fileSize \in Nat
      BY UploadAssumption DEF TypeOK, UploadTypeOK
    <3>2. Opened \in FileType /\ Ordered(Opened) /\ Opened.pos = Opened.len
      BY <3>1, UploadAssumption DEF TypeOK, UploadTypeOK, FileType, Ordered, Opened
    <3>3. file' = append(Opened) /\ memoryPool' = "allocated" /\ memoryPool = "null"
      BY <1>2, <2>4 DEF UploadChunk, CanOpen
    <3>4. Ordered(file') /\ file'.pos = file'.len
      BY <3>2, <3>3, AppendFacts
    <3>5. QED
      BY <1>1, <2>1, <2>2, <3>3, <3>4
      DEF CursorInv, PageAtEnd, AckedBehind, PastCopy, AsyncOfTransfer, OpenHasPool
  <2>5. CASE ~initialized /\ ~CanOpen
    <3>1. file' = ClosedFile /\ memoryPool' = memoryPool
      BY <1>2, <2>5 DEF UploadChunk
    <3>2. QED
      BY <1>1, <2>5, <3>1, ClosedKeeps DEF CursorInv, PastCopy, AsyncOfTransfer
  <2>6. QED
    BY <2>3, <2>4, <2>5
<1>3. CASE UploadFail
  <2>1. file' = ClosedFile /\ (memoryPool # "null" => memoryPool' # "null")
    BY <1>3, ResetFile DEF UploadFail
  <2>2. QED
    BY <1>1, <2>1, ClosedKeeps DEF CursorInv, PastCopy, AsyncOfTransfer
<1>4. CASE UploadFinish \/ \E size, length \in 0..MaxLen : UploadStart(size, length)
  <2>1. UNCHANGED <<file, memoryPool>>
    BY <1>4 DEF UploadFinish, UploadStart
  <2>2. QED
    BY <1>1, <2>1, KeptCursor
<1>5. QED
  BY <1>2, <1>3, <1>4 DEF UploadNext

\* What the page does not do, in the theorem of the cursor.
PageLeavesHeldFile == [][UploadChunk => bftFile # "upload"]_vars

LEMMA CursorInit == Init => CursorInv
<1>1. ASSUME Init PROVE CursorInv
  <2>1. file = ClosedFile /\ bftFile = "none" /\ asyncSend.size = 0 /\ asyncSend.pc = "none"
    BY <1>1 DEF Init, UploadInit, ClientInit, NoSend
  <2>2. QED
    BY <2>1, ClosedFacts
    DEF CursorInv, PageAtEnd, AckedBehind, PastCopy, AsyncOfTransfer, OpenHasPool
<1>2. QED
  BY <1>1

LEMMA CursorStep ==
  SessionInv /\ CursorInv /\ [Next]_vars /\ [UploadChunk => bftFile # "upload"]_vars => CursorInv'
<1>1. SUFFICES ASSUME SessionInv, CursorInv, [Next]_vars, [UploadChunk => bftFile # "upload"]_vars
               PROVE  CursorInv'
  OBVIOUS
<1>2. TypeOK /\ FileHeldWhileActive /\ BufferReleased
  BY <1>1 DEF SessionInv, TypeInv, Session
<1>3. CASE TimerElapse
  <2>1. UNCHANGED <<file, memoryPool, bftFile, asyncSend, state, fileOffset>>
    BY <1>3 DEF TimerElapse, uploadVars, sessionVars, asyncVars
  <2>2. QED
    BY <1>1, <2>1, KeptCursor
<1>4. CASE onHrTimer
  BY <1>1, <1>2, <1>4, OnHrTimerCursor
<1>5. CASE NotifyUpload \/ NotifyFetch
  BY <1>1, <1>2, <1>5, HandOverCursor
<1>6. CASE process
  <2>1. Head(toClient) \in Response
    BY <1>2, <1>6 DEF process, TypeOK, PeerTypeOK
  <2>2. asyncSend.pc = "none" /\ asyncSend' = asyncSend
    BY <1>6 DEF process, WqFree, asyncVars
  <2>3. QED
    BY <1>1, <1>2, <1>6, <2>1, <2>2, AnswerCursor DEF process
<1>7. CASE AsyncBegin \/ AsyncRead \/ AsyncPack
  BY <1>1, <1>2, <1>7, AsyncCursor
<1>8. CASE Restart
  <2>1. file' = ClosedFile /\ asyncSend'.size = 0 /\ asyncSend'.pc = "none"
    BY <1>8 DEF Restart, UploadRestart, NoSend
  <2>2. QED
    BY <1>2, <2>1, ClosedKeeps
<1>9. CASE Environment
  <2>1. UNCHANGED <<sessionVars, asyncVars>>
    BY <1>9 DEF Environment
  <2>2. CASE UNCHANGED uploadVars
    BY <1>1, <2>1, <2>2, KeptCursor DEF uploadVars, sessionVars, asyncVars
  <2>3. CASE ~UNCHANGED uploadVars
    <3>1. UploadNext
      BY <1>9, <2>3 DEF Environment
    <3>2. UploadChunk => bftFile # "upload"
      BY <1>1, <2>3 DEF vars, uploadVars
    <3>3. QED
      BY <1>1, <1>2, <2>1, <3>1, <3>2, UploadCursor
  <2>4. QED
    BY <2>2, <2>3
<1>10. CASE UNCHANGED vars
  BY <1>1, <1>10, KeptCursor DEF vars, uploadVars, sessionVars, asyncVars
<1>11. QED
  BY <1>1, <1>3, <1>4, <1>5, <1>6, <1>7, <1>8, <1>9, <1>10 DEF Next

LEMMA CursorInvariant == Spec /\ PageLeavesHeldFile => []CursorInv
BY SessionInvariant, CursorInit, CursorStep, PTL DEF Spec, PageLeavesHeldFile

\* Whatever the order of acknowledgements, retries and delayed sends, the acknowledged offset
\* stays behind the read cursor and the cursor inside the file, as long as the page receives
\* nothing into a file the client holds (onHrTimer, process, initializeMavlinkMessage).
THEOREM CursorStaysInOrder == Spec /\ PageLeavesHeldFile => []CursorOrder
<1>1. CursorInv => CursorOrder
  BY DEF CursorInv, Ordered, AckedBehind, CursorOrder
<1>2. QED
  BY <1>1, CursorInvariant, PTL

\* The uploads under way or held are all counted.
UploadsCounted ==
  notifyPending + (IF uploading THEN 1 ELSE 0) + (IF bftFile = "upload" THEN 1 ELSE 0) <= nUploads

LEMMA UploadsCountedInit == Init => UploadsCounted
BY DEF Init, UploadInit, ClientInit, UploadsCounted

LEMMA UploadsCountedStep == TypeOK /\ UploadsCounted /\ [Next]_vars => UploadsCounted'
<1>1. SUFFICES ASSUME TypeOK, UploadsCounted, [Next]_vars PROVE UploadsCounted'
  OBVIOUS
<1>2. notifyPending \in Nat /\ nUploads \in Nat /\ uploading \in BOOLEAN
  BY <1>1, UploadAssumption DEF TypeOK, UploadTypeOK
<1>3. ASSUME UNCHANGED <<uploading, notifyPending, nUploads>>, bftFile' = bftFile \/ bftFile' # "upload"
      PROVE  UploadsCounted'
  BY <1>1, <1>2, <1>3 DEF UploadsCounted
<1>4. CASE TimerElapse \/ AsyncBegin \/ AsyncRead \/ AsyncPack \/ UNCHANGED vars
  BY <1>3, <1>4
  DEF TimerElapse, AsyncBegin, AsyncRead, AsyncPack, AsyncFrame, vars, uploadVars, sessionVars
<1>5. CASE onHrTimer
  BY <1>3, <1>5 DEF onHrTimer, KeepUpload, GiveUp, Resend, handleClosingSessionTransition,
                    handleIdleTransition
<1>6. CASE process
  <2>1. bftFile' = bftFile \/ bftFile' = "none"
    BY <1>6 DEF process, CreatingSession, Transferring, ClosingSession, Irrelevant,
       OpenAcknowledged, OpenRefused, Disregard, ChunkAcknowledged, ChunkRefused,
       TerminateAnswered, handleClosingSessionTransition, handleIdleTransition, sessionVars
  <2>2. QED
    BY <1>3, <1>6, <2>1 DEF process, KeepUpload
<1>7. CASE NotifyUpload
  <2>1. /\ notifyPending > 0 /\ notifyPending' = notifyPending - 1
        /\ UNCHANGED <<uploading, nUploads>>
    BY <1>7 DEF NotifyUpload, KeepUpload
  <2>2. QED
    BY <1>1, <1>2, <2>1 DEF UploadsCounted
<1>8. CASE NotifyFetch
  <2>1. bftFile' = bftFile \/ bftFile' = "fetch"
    BY <1>8 DEF NotifyFetch, BeginSession, StaySession
  <2>2. QED
    BY <1>3, <1>8, <2>1 DEF NotifyFetch, KeepUpload
<1>9. CASE Restart
  BY <1>9 DEF Restart, UploadRestart, UploadsCounted
<1>10. CASE Environment
  <2>1. bftFile' = bftFile
    BY <1>10 DEF Environment, sessionVars
  <2>2. CASE UNCHANGED uploadVars \/ UploadChunk
    BY <1>3, <2>1, <2>2 DEF uploadVars, UploadChunk
  <2>3. CASE UploadFail
    BY <1>1, <1>2, <2>1, <2>3 DEF UploadFail, UploadsCounted
  <2>4. CASE UploadFinish
    BY <1>1, <1>2, <2>1, <2>4 DEF UploadFinish, UploadsCounted
  <2>5. CASE \E size, length \in 0..MaxLen : UploadStart(size, length)
    BY <1>1, <1>2, <2>1, <2>5 DEF UploadStart, UploadsCounted
  <2>6. QED
    BY <1>10, <2>2, <2>3, <2>4, <2>5 DEF Environment, UploadNext
<1>11. QED
  BY <1>1, <1>4, <1>5, <1>6, <1>7, <1>8, <1>9, <1>10 DEF Next

\* With one upload there is no page left that could receive into the held file.
LEMMA OneUploadLeavesHeldFile ==
  ASSUME MaxUploads <= 1
  PROVE  Spec => PageLeavesHeldFile
<1>1. TypeOK /\ UploadsCounted => (UploadChunk => bftFile # "upload")
  BY UploadAssumption DEF TypeOK, UploadTypeOK, UploadsCounted, UploadChunk
<1>2. Spec => [](TypeOK /\ UploadsCounted)
  BY TypeCorrect, UploadsCountedInit, UploadsCountedStep, PTL DEF Spec
<1>3. QED
  BY <1>1, <1>2, PTL DEF PageLeavesHeldFile

\* The page's hypothesis holds by itself while the page is used once in a boot.
THEOREM CursorOfOneUpload ==
  ASSUME MaxUploads <= 1
  PROVE  Spec => []CursorOrder
BY CursorStaysInOrder, OneUploadLeavesHeldFile
-----------------------------------------------------------------------------
(* The retry.  A client that stops its timer for an answer it then disregards has no     *)
(* retry left.  An autopilot that knows one session, answers with known opcodes and      *)
(* names the session it was asked for never makes it do so.                              *)

WellMeant == {m \in Request : m.op = "WriteFile" => m.session \in Sessions}

Regarded == {r \in Response :
               /\ r.opcode # "Other"
               /\ r.opcode = "Ack" /\ r.req # "TerminateSession" => r.session \in Sessions}

RetryInv ==
  /\ toAp \in Seq(WellMeant)
  /\ toClient \in Seq(Regarded)
  /\ state = "Transferring" \/ asyncSend.pc # "none" => mavlinkFtpSessionId \in Sessions
  /\ ActiveSessionHasRetry

LEMMA HeadTail ==
  ASSUME NEW S, NEW q \in Seq(S), q # <<>>
  PROVE  Head(q) \in S /\ Tail(q) \in Seq(S)
OBVIOUS

LEMMA WellMeantRequests ==
  ASSUME NEW offset \in 0..MaxPos, NEW size \in 0..1, NEW data \in 0..MaxPos,
         NEW seq \in 0..(SeqMod - 1), NEW field \in SessionField
  PROVE  /\ OpenRequest \in WellMeant
         /\ \A session \in Sessions : WriteRequest(session, offset, size, data) \in WellMeant
         /\ TerminateRequest(seq, field) \in WellMeant
<1>1. /\ OpenRequest \in Request /\ TerminateRequest(seq, field) \in Request
      /\ \A session \in Sessions : WriteRequest(session, offset, size, data) \in Request
  BY RequestTypes DEF SessionField
<1>2. /\ OpenRequest.op = "OpenFileWo" /\ TerminateRequest(seq, field).op = "TerminateSession"
      /\ \A session : WriteRequest(session, offset, size, data).session = session
  BY DEF OpenRequest, TerminateRequest, WriteRequest
<1>3. QED
  BY <1>1, <1>2 DEF WellMeant

LEMMA SentIsWellMeant ==
  ASSUME TypeOK, toAp \in Seq(WellMeant)
  PROVE  /\ \A f \in FileType, session \in Sessions, offset \in 0..MaxPos :
              SendChunk(f, session, offset) => toAp' \in Seq(WellMeant)
         /\ \A seq \in 0..(SeqMod - 1) : SendTerminate(seq) => toAp' \in Seq(WellMeant)
<1>1. ASSUME NEW f \in FileType, NEW session \in Sessions, NEW offset \in 0..MaxPos,
             SendChunk(f, session, offset)
      PROVE  toAp' \in Seq(WellMeant)
  <2> DEFINE n == NRead(f)
  <2> DEFINE data == IF n = 0 THEN 0 ELSE f.pos
  <2> DEFINE m == WriteRequest(session, offset, n, data)
  <2>1. n \in 0..1 /\ data \in 0..MaxPos /\ 0 \in 0..(SeqMod - 1) /\ 0 \in SessionField
    BY NReadType, UploadAssumption, PeerAssumption DEF FileType, SessionField
  <2>2. toAp' = Put(toAp, m)
    BY <1>1 DEF SendChunk
  <2> HIDE DEF n, data
  <2>3. m \in WellMeant
    BY <2>1, WellMeantRequests
  <2> HIDE DEF m
  <2>4. QED
    BY <2>2, <2>3, PutType
<1>2. ASSUME NEW seq \in 0..(SeqMod - 1), SendTerminate(seq)
      PROVE  toAp' \in Seq(WellMeant)
  <2>1. TerminateRequest(seq, mavlinkFtpSessionId) \in WellMeant
    BY WellMeantRequests, UploadAssumption DEF TypeOK
  <2>2. QED
    BY <1>2, <2>1, PutType DEF SendTerminate
<1>3. QED
  BY <1>1, <1>2

\* What the client does with an answer, when it never disregards one
LEMMA AnswerKeepsRetry ==
  ASSUME TypeOK, SessionInv, RetryInv, \A s, t \in Sessions : s = t,
         NEW r \in Regarded, asyncSend.pc = "none", asyncSend' = asyncSend,
         timerCallback' = timerCallback,
         CreatingSession(r) \/ Transferring(r) \/ ClosingSession(r) \/ Irrelevant(r)
  PROVE  /\ toAp' \in Seq(WellMeant)
         /\ state' = "Transferring" \/ asyncSend'.pc # "none" => mavlinkFtpSessionId' \in Sessions
         /\ ActiveSessionHasRetry'
<1> USE DEF ActiveSessionHasRetry, Active
<1>1. r \in Response /\ r.opcode # "Other"
      /\ (r.opcode = "Ack" /\ r.req # "TerminateSession" => r.session \in Sessions)
  BY DEF Regarded
<1>2. HeldFile \in FileType /\ Seek(HeldFile, 0) \in FileType /\ HeldFile.pos \in 0..MaxPos
      /\ 0 \in 0..MaxPos
  BY HeldFileType, SeekType, UploadAssumption DEF FileType
<1>3. NextSeq \in 0..(SeqMod - 1) /\ messageSequenceNumber \in 0..(SeqMod - 1)
  BY NextSeqType DEF TypeOK
<1>4. CASE state = "CreatingSession" /\ r.req = "OpenFileWo" /\ r.opcode = "Ack" /\ OpenAcknowledged(r)
  <2>1. r.session \in Sessions
    BY <1>1, <1>4
  <2>2. toAp' \in Seq(WellMeant)
    BY <1>2, <1>4, <2>1, SentIsWellMeant DEF OpenAcknowledged, RetryInv
  <2>3. QED
    BY <1>4, <2>1, <2>2 DEF OpenAcknowledged
<1>5. CASE OpenRefused \/ (\E e \in {"Failed", "Done"} : TerminateAnswered(e))
  BY <1>5 DEF OpenRefused, TerminateAnswered, handleIdleTransition, RetryInv
<1>6. CASE state = "Transferring" /\ ChunkAcknowledged
  <2>1. CASE isEof(HeldFile.pos)
    <3>1. SendTerminate(NextSeq) /\ handleClosingSessionTransition
      BY <1>6, <2>1 DEF ChunkAcknowledged
    <3>2. QED
      BY <1>3, <3>1, SentIsWellMeant
      DEF SendTerminate, handleClosingSessionTransition, RetryInv
  <2>2. CASE ~isEof(HeldFile.pos)
    <3>1. /\ SendChunk(HeldFile, mavlinkFtpSessionId, HeldFile.pos)
          /\ timerArmed' = TRUE /\ mavlinkFtpSessionId' = mavlinkFtpSessionId
      BY <1>6, <2>2 DEF ChunkAcknowledged
    <3>2. mavlinkFtpSessionId \in Sessions
      BY <1>6 DEF RetryInv
    <3>3. QED
      BY <1>2, <3>1, <3>2, SentIsWellMeant DEF RetryInv
  <2>3. QED
    BY <2>1, <2>2
<1>7. CASE ChunkRefused
  <2>1. SendTerminate(messageSequenceNumber) /\ handleClosingSessionTransition
    BY <1>7 DEF ChunkRefused
  <2>2. QED
    BY <1>3, <2>1, SentIsWellMeant DEF SendTerminate, handleClosingSessionTransition, RetryInv
<1>8. CASE Irrelevant(r)
  BY <1>8 DEF Irrelevant, sessionVars, RetryInv
<1>9. state = "Transferring" /\ r.req = "WriteFile" /\ r.opcode = "Ack" =>
        r.session = mavlinkFtpSessionId
  BY <1>1 DEF RetryInv
<1>10. QED
  BY <1>1, <1>4, <1>5, <1>6, <1>7, <1>8, <1>9 DEF CreatingSession, Transferring, ClosingSession

LEMMA RetryInit == Init => RetryInv
BY DEF Init, PeerInit, ClientInit, NoSend, RetryInv, ActiveSessionHasRetry, Active

LEMMA KeptRetry ==
  ASSUME RetryInv, UNCHANGED <<toAp, toClient, state, asyncSend, mavlinkFtpSessionId,
                               timerArmed, timerCallback>>
  PROVE  RetryInv'
BY DEF RetryInv, ActiveSessionHasRetry, Active

LEMMA AsyncKeepsRetry ==
  ASSUME TypeOK, RetryInv, AsyncBegin \/ AsyncRead \/ AsyncPack
  PROVE  RetryInv'
<1>1. UNCHANGED <<toClient, state, mavlinkFtpSessionId, timerArmed, timerCallback>>
  BY DEF AsyncBegin, AsyncRead, AsyncPack, AsyncFrame, sessionVars, timerVars
<1>2. ActiveSessionHasRetry'
  BY <1>1 DEF RetryInv, ActiveSessionHasRetry, Active
<1>3. /\ messageSequenceNumber \in 0..(SeqMod - 1) /\ mavlinkFtpSessionId \in SessionField
      /\ fileOffset \in 0..MaxPos /\ 0 \in 0..MaxPos /\ asyncSend \in AsyncType /\ 0 \in 0..1
  BY UploadAssumption DEF TypeOK
<1>4. toAp' \in Seq(WellMeant)
  <2>1. CASE toAp' = toAp
    BY <2>1 DEF RetryInv
  <2>2. CASE toAp' = Put(toAp, OpenRequest)
    BY <1>3, <2>2, WellMeantRequests, PutType DEF RetryInv
  <2>3. CASE toAp' = Put(toAp, TerminateRequest(messageSequenceNumber, mavlinkFtpSessionId))
    BY <1>3, <2>3, WellMeantRequests, PutType DEF RetryInv
  <2>4. CASE AsyncPack
    <3> DEFINE m == WriteRequest(mavlinkFtpSessionId, fileOffset, asyncSend.size, asyncSend.data)
    <3>1. mavlinkFtpSessionId \in Sessions
      BY <2>4 DEF AsyncPack, RetryInv
    <3>2. asyncSend.size \in 0..1 /\ asyncSend.data \in 0..MaxPos
      BY <1>3 DEF AsyncType
    <3>3. m \in WellMeant
      BY <1>3, <3>1, <3>2, WellMeantRequests
    <3>4. toAp' = Put(toAp, m)
      BY <2>4 DEF AsyncPack
    <3> HIDE DEF m
    <3>5. QED
      BY <3>3, <3>4, PutType DEF RetryInv
  <2>5. QED
    BY <2>1, <2>2, <2>3, <2>4 DEF AsyncBegin, AsyncRead
<1>5. mavlinkFtpSessionId \in Sessions \/ (state # "Transferring" /\ asyncSend'.pc = "none")
  BY DEF AsyncBegin, AsyncRead, AsyncPack, NoSend, RetryInv
<1>6. QED
  BY <1>1, <1>2, <1>4, <1>5 DEF RetryInv

LEMMA PeerKeepsRetry ==
  ASSUME TypeOK, RetryInv, Faults \subseteq {"nak"}, PeerNext,
         UNCHANGED <<state, asyncSend, mavlinkFtpSessionId, timerArmed, timerCallback>>
  PROVE  RetryInv'
<1>1. SUFFICES toAp' \in Seq(WellMeant) /\ toClient' \in Seq(Regarded)
  BY DEF RetryInv, ActiveSessionHasRetry, Active
<1> DEFINE m == Head(toAp)
<1>2. toAp \in Seq(WellMeant) /\ toClient \in Seq(Regarded)
  BY DEF RetryInv
<1>3. toAp # <<>> => m \in WellMeant /\ Tail(toAp) \in Seq(WellMeant)
  BY <1>2, HeadTail
<1>4. toClient # <<>> => Tail(toClient) \in Seq(Regarded)
  BY <1>2, HeadTail
<1> HIDE DEF m
<1>5. ASSUME NEW opcode \in {"Ack", "Nak"}, NEW session \in SessionField, m \in WellMeant,
             opcode = "Ack" /\ m.op # "TerminateSession" => session \in Sessions,
             Reply(m, opcode, session)
      PROVE  toClient' \in Seq(Regarded)
  <2> DEFINE a == [req |-> m.op, opcode |-> opcode, session |-> session]
  <2>1. m.op \in Requests
    BY <1>5 DEF WellMeant, Request
  <2>2. a \in Regarded
    BY <1>5, <2>1 DEF Regarded, Response, Opcodes
  <2>3. toClient' = Put(toClient, a)
    BY <1>5 DEF Reply
  <2> HIDE DEF a
  <2>4. QED
    BY <1>2, <2>2, <2>3, PutType
<1>6. CASE ApAccept
  <2>1. toAp # <<>> /\ toAp' = Tail(toAp) /\ m \in WellMeant
    BY <1>3, <1>6 DEF ApAccept
  <2>2. m.session \in SessionField /\ (m.op = "WriteFile" => m.session \in Sessions)
        /\ Sessions \subseteq SessionField
    BY <2>1 DEF WellMeant, Request, SessionField
  <2>3. \/ m.op = "OpenFileWo" /\ (\E s \in Sessions : Reply(m, "Ack", s))
        \/ m.op \in {"WriteFile", "TerminateSession"} /\ Reply(m, "Ack", m.session)
    BY <1>6 DEF ApAccept, m
  <2>4. QED
    BY <1>3, <1>5, <2>1, <2>2, <2>3
<1>7. CASE ApMisbehave
  <2>1. toAp # <<>> /\ toAp' = Tail(toAp) /\ Reply(m, "Nak", m.session)
    BY <1>7 DEF ApMisbehave, m
  <2>2. m.session \in SessionField
    BY <1>3, <2>1 DEF WellMeant, Request
  <2>3. QED
    BY <1>3, <1>5, <2>1, <2>2
<1>8. CASE Lose
  BY <1>2, <1>3, <1>4, <1>8 DEF Lose
<1>9. QED
  BY <1>6, <1>7, <1>8 DEF PeerNext

LEMMA RetryStep ==
  ASSUME Faults \subseteq {"nak"}, \A s, t \in Sessions : s = t
  PROVE  SessionInv /\ RetryInv /\ [Next]_vars => RetryInv'
<1>1. SUFFICES ASSUME SessionInv, RetryInv, [Next]_vars PROVE RetryInv'
  OBVIOUS
<1>2. TypeOK
  BY <1>1 DEF SessionInv, TypeInv
<1>3. CASE TimerElapse
  BY <1>1, <1>3 DEF TimerElapse, RetryInv, ActiveSessionHasRetry, Active, sessionVars, peerVars,
                    asyncVars
<1>4. CASE onHrTimer
  <2>1. UNCHANGED <<toAp, toClient, mavlinkFtpSessionId, asyncSend>> /\ timerCallback' = FALSE
    BY <1>4 DEF onHrTimer, peerVars
  <2>2. state' = state \/ state' # "Transferring"
    BY <1>4 DEF onHrTimer, GiveUp, Resend, handleClosingSessionTransition, handleIdleTransition
  <2>3. state' = "Idle" \/ timerArmed'
    BY <1>4 DEF onHrTimer, GiveUp, Resend, handleIdleTransition
  <2>4. QED
    BY <1>1, <2>1, <2>2, <2>3 DEF RetryInv, ActiveSessionHasRetry, Active
<1>5. CASE NotifyUpload \/ NotifyFetch
  <2>1. UNCHANGED <<toAp, toClient, mavlinkFtpSessionId, asyncSend, timerCallback>>
    BY <1>5 DEF NotifyUpload, NotifyFetch, peerVars
  <2>2. \/ state' = state /\ timerArmed' = timerArmed
        \/ state' = "CreatingSession" /\ timerArmed'
    BY <1>5 DEF NotifyUpload, NotifyFetch, BeginSession, StaySession
  <2>3. QED
    BY <1>1, <2>1, <2>2 DEF RetryInv, ActiveSessionHasRetry, Active
<1>6. CASE process
  <2>1. Head(toClient) \in Regarded /\ Tail(toClient) \in Seq(Regarded)
    BY <1>1, <1>6, HeadTail DEF process, RetryInv
  <2>2. /\ asyncSend.pc = "none" /\ asyncSend' = asyncSend /\ timerCallback' = timerCallback
        /\ toClient' = Tail(toClient)
    BY <1>6 DEF process, WqFree, asyncVars
  <2>3. /\ toAp' \in Seq(WellMeant)
        /\ state' = "Transferring" \/ asyncSend'.pc # "none" => mavlinkFtpSessionId' \in Sessions
        /\ ActiveSessionHasRetry'
    BY <1>1, <1>2, <1>6, <2>1, <2>2, AnswerKeepsRetry DEF process
  <2>4. QED
    BY <2>1, <2>2, <2>3 DEF RetryInv
<1>7. CASE AsyncBegin \/ AsyncRead \/ AsyncPack
  BY <1>1, <1>2, <1>7, AsyncKeepsRetry
<1>8. CASE Restart
  BY <1>1, <1>8 DEF Restart, NoSend, peerVars, RetryInv, ActiveSessionHasRetry, Active
<1>9. CASE Environment
  <2>1. UNCHANGED <<state, asyncSend, mavlinkFtpSessionId, timerArmed, timerCallback>>
    BY <1>9 DEF Environment, sessionVars, timerVars, asyncVars
  <2>2. CASE UNCHANGED peerVars
    BY <1>1, <2>1, <2>2, KeptRetry DEF peerVars
  <2>3. CASE PeerNext
    BY <1>1, <1>2, <2>1, <2>3, PeerKeepsRetry
  <2>4. QED
    BY <1>9, <2>2, <2>3 DEF Environment
<1>10. CASE UNCHANGED vars
  BY <1>1, <1>10, KeptRetry DEF vars, peerVars, sessionVars, timerVars, asyncVars
<1>11. QED
  BY <1>1, <1>3, <1>4, <1>5, <1>6, <1>7, <1>8, <1>9, <1>10 DEF Next

\* A session in progress always has a retry ahead of it, whatever is lost, refused, late or
\* retried, when the autopilot knows one session and never answers with another one or with
\* an unknown opcode (process stops the timer before it looks at the answer).
THEOREM SessionHasRetry ==
  ASSUME Faults \subseteq {"nak"}, \A s, t \in Sessions : s = t
  PROVE  Spec => []ActiveSessionHasRetry
<1>1. RetryInv => ActiveSessionHasRetry
  BY DEF RetryInv
<1>2. QED
  BY <1>1, SessionInvariant, RetryInit, RetryStep, PTL DEF Spec
-----------------------------------------------------------------------------
(* Prompt answers.  When every answer comes before the timer elapses, one request at     *)
(* most is under way: waiting in the work queue, being formed there, on the link to the  *)
(* autopilot or answered.  Wherever it is, it concerns the state the client is in and    *)
(* the chunk the client's cursor is at.                                                  *)

NoDelayedSend == asyncQueue = 0 /\ asyncSend.pc = "none"

Nothing == toAp = <<>> /\ toClient = <<>> /\ NoDelayedSend
Queued == toAp = <<>> /\ toClient = <<>> /\ asyncQueue = 1 /\ asyncSend.pc = "none"
Formed == toAp = <<>> /\ toClient = <<>> /\ asyncQueue = 0 /\ asyncSend.pc # "none"
Asked(m) == toAp = <<m>> /\ toClient = <<>> /\ NoDelayedSend
Answered(r) == toAp = <<>> /\ toClient = <<r>> /\ NoDelayedSend

Concerns(op) ==
  \/ state = "CreatingSession" /\ op = "OpenFileWo"
  \/ state = "Transferring" /\ op = "WriteFile"
  \/ state = "ClosingSession" /\ op = "TerminateSession"

\* The file may have been closed by another upload: then nothing is asked of its cursor.
ReadTo(n) == HeldFile.open => HeldFile.pos = n

Stored(n) == \A i \in 0..MaxPos : i < n => <<i, i>> \in apStored

AskedSoundly(m) ==
  /\ Concerns(m.op)
  /\ m.op = "WriteFile" =>
       /\ m.session = mavlinkFtpSessionId /\ m.offset = fileOffset
       /\ m.size = 1 => m.data = fileOffset
       /\ ReadTo(fileOffset + m.size)

AnsweredSoundly(r) ==
  /\ Concerns(r.req)
  /\ r.req = "WriteFile" /\ r.opcode = "Ack" /\ r.session = mavlinkFtpSessionId =>
       (HeldFile.open => Stored(HeldFile.pos))

QueuedSoundly == state # "Idle" /\ (state = "Transferring" => ReadTo(fileOffset))

FormedSoundly ==
  state = "Transferring" /\ ReadTo(fileOffset) /\ (asyncSend.size = 1 => asyncSend.data = fileOffset)

OneRequest ==
  \/ Nothing
  \/ Queued /\ QueuedSoundly
  \/ Formed /\ FormedSoundly
  \/ \E m \in Request : Asked(m) /\ AskedSoundly(m)
  \/ \E r \in Response : Answered(r) /\ AnsweredSoundly(r)

PromptInv ==
  /\ ~crashed
  /\ OneRequest
  /\ state = "Idle" => Nothing
  /\ timerCallback => Nothing /\ state # "Idle"
  /\ AckedMeansStored

LEMMA OneMessage ==
  ASSUME NEW m
  PROVE  /\ Put(<<>>, m) = <<m>> /\ <<m>> # <<>>
         /\ Head(<<m>>) = m /\ Tail(<<m>>) = <<>>
BY PeerAssumption DEF Put

LEMMA FileTransferFields ==
  ASSUME TypeOK
  PROVE  /\ fileOffset \in 0..MaxPos /\ fileOffset \in Nat
         /\ mavlinkFtpSessionId \in SessionField
         /\ messageSequenceNumber \in 0..(SeqMod - 1)
         /\ HeldFile.pos \in Nat /\ HeldFile.pos \in 0..MaxPos /\ 0 \in 0..MaxPos
         /\ 0 \in 0..(SeqMod - 1) /\ 0 \in SessionField
<1>1. HeldFile.pos \in Nat
  BY HeldFileType, FileFields
<1>2. HeldFile.pos \in 0..MaxPos
  BY HeldFileType DEF FileType
<1>3. QED
  BY <1>1, <1>2, UploadAssumption, PeerAssumption DEF TypeOK, SessionField

\* Nothing moves but the timer, and the file may be closed.
LEMMA KeptPrompt ==
  ASSUME PromptInv,
         UNCHANGED <<toAp, toClient, apStored, asyncQueue, asyncSend, crashed, state,
                     mavlinkFtpSessionId, fileOffset>>,
         HeldFile'.open => HeldFile' = HeldFile,
         timerCallback' => Nothing /\ state # "Idle"
  PROVE  PromptInv'
<1> USE DEF NoDelayedSend, Nothing, Queued, Formed, Asked, Answered, Concerns, ReadTo, Stored
<1>1. OneRequest'
  <2>1. CASE Nothing
    BY <2>1 DEF OneRequest
  <2>2. CASE Queued /\ QueuedSoundly
    BY <2>2 DEF OneRequest, QueuedSoundly
  <2>3. CASE Formed /\ FormedSoundly
    BY <2>3 DEF OneRequest, FormedSoundly
  <2>4. ASSUME NEW m \in Request, Asked(m), AskedSoundly(m) PROVE OneRequest'
    <3>1. Asked(m)' /\ AskedSoundly(m)'
      BY <2>4 DEF AskedSoundly
    <3>2. QED
      BY <3>1 DEF OneRequest
  <2>5. ASSUME NEW r \in Response, Answered(r), AnsweredSoundly(r) PROVE OneRequest'
    <3>1. Answered(r)' /\ AnsweredSoundly(r)'
      BY <2>5 DEF AnsweredSoundly
    <3>2. QED
      BY <3>1 DEF OneRequest
  <2>6. QED
    BY <2>1, <2>2, <2>3, <2>4, <2>5 DEF PromptInv, OneRequest
<1>2. QED
  BY <1>1 DEF PromptInv, AckedMeansStored

\* A chunk that is sent from where the cursor is, is asked soundly.
LEMMA ChunkIsAskedSoundly ==
  ASSUME TypeOK, Nothing \/ toAp = <<>>,
         NEW f \in FileType, Ordered(f), f.open = HeldFile.open,
         NEW session \in SessionField, NEW offset \in 0..MaxPos, f.open => f.pos = offset,
         SendChunk(f, session, offset), bftFile' = bftFile,
         state' = "Transferring", mavlinkFtpSessionId' = session, fileOffset' = offset
  PROVE  \E m \in Request : toAp' = <<m>> /\ AskedSoundly(m)'
<1> DEFINE n == NRead(f)
<1> DEFINE data == IF n = 0 THEN 0 ELSE f.pos
<1> DEFINE m == WriteRequest(session, offset, n, data)
<1>1. n \in 0..1 /\ (n = 1 => f.open) /\ Read(f).open = f.open /\ Read(f).pos = f.pos + n
  BY ReadFacts
<1>2. data \in 0..MaxPos /\ 0 \in 0..(SeqMod - 1)
  BY UploadAssumption, PeerAssumption DEF FileType
<1>3. toAp' = Put(toAp, m) /\ MoveCursor(Read(f))
  BY DEF SendChunk, Read
<1>4. toAp = <<>>
  BY DEF Nothing
<1>5. n = 1 => data = offset
  BY <1>1
<1> HIDE DEF n, data
<1>6. m \in Request
  BY <1>1, <1>2, RequestTypes
<1>7. m.op = "WriteFile" /\ m.session = session /\ m.offset = offset /\ m.size = n /\ m.data = data
  BY DEF WriteRequest
<1> HIDE DEF m
<1>8. toAp' = <<m>>
  BY <1>3, <1>4, OneMessage
<1>9. ReadTo(offset + n)'
  <2>1. CASE bftFile = "upload"
    BY <1>1, <1>3, <2>1 DEF ReadTo, HeldFile, MoveCursor
  <2>2. CASE bftFile # "upload"
    BY <2>2, ClosedFacts DEF ReadTo, HeldFile
  <2>3. QED
    BY <2>1, <2>2
<1>10. AskedSoundly(m)'
  BY <1>5, <1>7, <1>9 DEF AskedSoundly, Concerns
<1>11. QED
  BY <1>6, <1>8, <1>10

LEMMA TerminateIsAskedSoundly ==
  ASSUME TypeOK, toAp = <<>>, NEW seq \in 0..(SeqMod - 1), state' = "ClosingSession",
         toAp' = Put(toAp, TerminateRequest(seq, mavlinkFtpSessionId))
  PROVE  \E m \in Request : toAp' = <<m>> /\ AskedSoundly(m)'
<1>1. PICK m \in Request : m = TerminateRequest(seq, mavlinkFtpSessionId)
  BY RequestTypes, FileTransferFields
<1>2. m.op = "TerminateSession"
  BY <1>1 DEF TerminateRequest
<1>3. toAp' = <<m>>
  BY <1>1, OneMessage
<1>4. AskedSoundly(m)'
  BY <1>2 DEF AskedSoundly, Concerns
<1>5. QED
  BY <1>3, <1>4

\* The client takes an answer: it asks again, or nothing is under way any more.
LEMMA AnswerPrompt ==
  ASSUME SessionInv, CursorInv, PromptInv, NEW r \in Response, Answered(r), AnsweredSoundly(r),
         UNCHANGED <<apStored, timerCallback, asyncQueue, asyncSend, crashed>>, toClient' = <<>>,
         CreatingSession(r) \/ Transferring(r) \/ ClosingSession(r) \/ Irrelevant(r)
  PROVE  PromptInv'
<1>1. TypeOK /\ toAp = <<>> /\ NoDelayedSend /\ NoDelayedSend' /\ ~timerCallback'
  <2>1. TypeOK /\ toAp = <<>> /\ NoDelayedSend
    BY DEF SessionInv, TypeInv, Answered
  <2>2. ~timerCallback
    BY OneMessage DEF PromptInv, Nothing, Answered
  <2>3. QED
    BY <2>1, <2>2 DEF NoDelayedSend
<1>2. HeldFile \in FileType /\ Ordered(HeldFile) /\ HeldFile.pos \in 0..MaxPos
  BY <1>1, HeldFileFacts
<1>3. ASSUME toAp' = <<>>, state' # "Transferring" \/ AckedMeansStored' PROVE PromptInv'
  BY <1>1, <1>3 DEF PromptInv, OneRequest, Nothing, AckedMeansStored, NoDelayedSend
<1>4. ASSUME \E m \in Request : toAp' = <<m>> /\ AskedSoundly(m)',
             state' # "Idle", state' # "Transferring" \/ AckedMeansStored'
      PROVE  PromptInv'
  <2>1. OneRequest'
    BY <1>1, <1>4 DEF OneRequest, Asked
  <2>2. QED
    BY <1>1, <1>4, <2>1 DEF PromptInv, AckedMeansStored
<1>5. Stored(0)
  BY DEF Stored
<1>6. CASE OpenAcknowledged(r)
  <2> DEFINE f == Seek(HeldFile, 0)
  <2>1. /\ f \in FileType /\ Ordered(f) /\ f.open = HeldFile.open
        /\ f.open => f.pos = 0
    <3>1. 0 \in 0..MaxPos /\ HeldFile.len \in Nat
      BY <1>2, UploadAssumption, FileFields
    <3>2. QED
      BY <1>2, <3>1, SeekFacts
  <2>2. r.session \in SessionField /\ 0 \in 0..MaxPos
    BY UploadAssumption DEF Response
  <2>3. /\ SendChunk(f, r.session, 0) /\ bftFile' = bftFile /\ state' = "Transferring"
        /\ mavlinkFtpSessionId' = r.session /\ fileOffset' = 0
    BY <1>6 DEF OpenAcknowledged
  <2> HIDE DEF f
  <2>4. \E m \in Request : toAp' = <<m>> /\ AskedSoundly(m)'
    BY <1>1, <2>1, <2>2, <2>3, ChunkIsAskedSoundly
  <2>5. AckedMeansStored'
    BY <2>3, UploadAssumption DEF AckedMeansStored
  <2>6. QED
    BY <1>4, <2>3, <2>4, <2>5
<1>7. CASE OpenRefused \/ (\E e \in {"Failed", "Done"} : TerminateAnswered(e))
  BY <1>1, <1>3, <1>7 DEF OpenRefused, TerminateAnswered, handleIdleTransition
<1>8. CASE Disregard \/ Irrelevant(r)
  <2>1. toAp' = <<>> /\ AckedMeansStored'
    BY <1>1, <1>8 DEF Disregard, Irrelevant, sessionVars, PromptInv, AckedMeansStored
  <2>2. QED
    BY <1>3, <2>1
<1>9. CASE state = "Transferring" /\ r.req = "WriteFile" /\ r.opcode = "Ack"
           /\ r.session = mavlinkFtpSessionId /\ ChunkAcknowledged
  <2>1. CASE isEof(HeldFile.pos)
    <3>1. SendTerminate(NextSeq) /\ state' = "ClosingSession"
      BY <1>9, <2>1 DEF ChunkAcknowledged, handleClosingSessionTransition
    <3>2. NextSeq \in 0..(SeqMod - 1)
      BY <1>1, NextSeqType
    <3>3. QED
      BY <1>1, <1>4, <3>1, <3>2, TerminateIsAskedSoundly DEF SendTerminate
  <2>2. CASE ~isEof(HeldFile.pos)
    <3>1. /\ SendChunk(HeldFile, mavlinkFtpSessionId, HeldFile.pos)
          /\ UNCHANGED <<state, bftFile, mavlinkFtpSessionId>> /\ fileOffset' = HeldFile.pos
      BY <1>9, <2>2 DEF ChunkAcknowledged
    <3>2. \E m \in Request : toAp' = <<m>> /\ AskedSoundly(m)'
      BY <1>1, <1>2, <1>9, <3>1, ChunkIsAskedSoundly, FileTransferFields
    <3>3. HeldFile.open
      BY <1>2, <2>2 DEF isEof, Ordered
    <3>4. Stored(HeldFile.pos)
      BY <1>9, <3>3 DEF AnsweredSoundly
    <3>5. AckedMeansStored'
      BY <3>1, <3>4 DEF Stored, AckedMeansStored
    <3>6. QED
      BY <1>4, <1>9, <3>1, <3>2, <3>5
  <2>3. QED
    BY <2>1, <2>2
<1>10. CASE ChunkRefused
  <2>1. SendTerminate(messageSequenceNumber) /\ state' = "ClosingSession"
    BY <1>10 DEF ChunkRefused, handleClosingSessionTransition
  <2>2. QED
    BY <1>1, <1>4, <2>1, TerminateIsAskedSoundly, FileTransferFields DEF SendTerminate
<1>11. QED
  BY <1>6, <1>7, <1>8, <1>9, <1>10 DEF CreatingSession, Transferring, ClosingSession

LEMMA OnHrTimerPrompt ==
  ASSUME SessionInv, CursorInv, PromptInv, onHrTimer
  PROVE  PromptInv'
<1>1. TypeOK /\ Nothing /\ state # "Idle" /\ FileHeldWhileActive
  BY DEF onHrTimer, PromptInv, SessionInv, TypeInv, Session
<1>2. UNCHANGED <<toAp, toClient, apStored, asyncSend, crashed, mavlinkFtpSessionId, fileOffset>>
      /\ timerCallback' = FALSE
  BY DEF onHrTimer, peerVars
<1>3. ASSUME asyncQueue' = asyncQueue + 1, state' # "Idle", state' # "Transferring" \/ state' = state,
             state' = "Transferring" => ReadTo(fileOffset)'
      PROVE  PromptInv'
  <2>1. Queued'
    BY <1>1, <1>2, <1>3 DEF Nothing, NoDelayedSend, Queued
  <2>2. OneRequest'
    BY <1>3, <2>1 DEF OneRequest, QueuedSoundly
  <2>3. AckedMeansStored'
    BY <1>2, <1>3 DEF PromptInv, AckedMeansStored
  <2>4. QED
    BY <1>2, <1>3, <2>2, <2>3 DEF PromptInv
<1>4. CASE GiveUp
  <2>1. CASE state = "Transferring"
    BY <1>3, <1>4, <2>1 DEF GiveUp, handleClosingSessionTransition, PushSend
  <2>2. CASE state # "Transferring"
    <3>1. state' = "Idle" /\ asyncQueue' = asyncQueue
      BY <1>4, <2>2 DEF GiveUp, handleIdleTransition
    <3>2. QED
      BY <1>1, <1>2, <3>1
      DEF PromptInv, OneRequest, AckedMeansStored, Nothing, NoDelayedSend
  <2>3. QED
    BY <2>1, <2>2
<1>5. CASE Resend
  <2>1. state' = state /\ bftFile' = bftFile /\ asyncQueue' = asyncQueue + 1
    BY <1>1, <1>5 DEF Resend, PushSend
  <2>2. CASE state = "Transferring" /\ bftFile = "upload"
    <3>1. file' = Seek(file, fileOffset)
      BY <1>5, <2>2 DEF Resend, MoveCursor, HeldFile
    <3>2. /\ file \in FileType /\ Ordered(file) /\ fileOffset \in 0..MaxPos
          /\ file.open => fileOffset <= file.pos
      BY <1>1, <2>2, HeldFileFacts DEF CursorInv, AckedBehind
    <3>3. file.open => fileOffset <= file.len
      BY <3>2, FileFields, UploadAssumption DEF Ordered
    <3>4. file'.open => file'.pos = fileOffset
      BY <3>1, <3>2, <3>3, SeekFacts
    <3>5. ReadTo(fileOffset)'
      BY <1>2, <2>1, <2>2, <3>4 DEF ReadTo, HeldFile
    <3>6. QED
      BY <1>1, <1>3, <2>1, <3>5
  <2>3. CASE state # "Transferring" \/ bftFile # "upload"
    <3>1. bftFile # "upload" => ReadTo(fileOffset)'
      BY <2>1, ClosedFacts DEF ReadTo, HeldFile
    <3>2. QED
      BY <1>1, <1>3, <2>1, <2>3, <3>1
  <2>4. QED
    BY <2>2, <2>3
<1>6. QED
  BY <1>4, <1>5 DEF onHrTimer

LEMMA HandOverPrompt ==
  ASSUME SessionInv, PromptInv, NotifyUpload \/ NotifyFetch
  PROVE  PromptInv'
<1>1. UNCHANGED <<toAp, toClient, apStored, asyncSend, crashed, mavlinkFtpSessionId,
                  fileOffset, timerCallback>>
  BY DEF NotifyUpload, NotifyFetch, peerVars
<1>2. CASE state = "Idle"
  <2>1. state' = "CreatingSession" /\ asyncQueue' = asyncQueue + 1
    BY <1>2 DEF NotifyUpload, NotifyFetch, BeginSession, PushSend
  <2>2. Queued'
    BY <1>1, <1>2, <2>1 DEF PromptInv, Nothing, NoDelayedSend, Queued
  <2>3. OneRequest'
    BY <2>1, <2>2 DEF OneRequest, QueuedSoundly
  <2>4. QED
    BY <1>1, <1>2, <2>1, <2>3 DEF PromptInv, AckedMeansStored
<1>3. CASE state # "Idle"
  <2>1. StaySession /\ (file' = file \/ file' = ClosedFile)
    BY <1>3 DEF NotifyUpload, NotifyFetch, resetContext, closeFile
  <2>2. UNCHANGED <<state, bftFile, asyncQueue>>
    BY <2>1 DEF StaySession
  <2>3. HeldFile'.open => HeldFile' = HeldFile
    BY <2>1, <2>2, ClosedFacts DEF HeldFile
  <2>4. QED
    BY <1>1, <2>2, <2>3, KeptPrompt DEF PromptInv
<1>4. QED
  BY <1>2, <1>3

LEMMA AsyncBeginPrompt ==
  ASSUME SessionInv, PromptInv, AsyncBegin
  PROVE  PromptInv'
<1>1. UNCHANGED <<file, toClient, apStored, crashed, state, bftFile, mavlinkFtpSessionId,
                  fileOffset, timerCallback>>
  BY DEF AsyncBegin, AsyncFrame, sessionVars, timerVars
<1>2. Queued /\ QueuedSoundly /\ TypeOK
  BY DEF AsyncBegin, WqFree, PromptInv, OneRequest, Nothing, NoDelayedSend, Formed, Asked,
         Answered, SessionInv, TypeInv
<1>3. asyncQueue' = 0 /\ asyncSend.pc = "none" /\ toAp = <<>> /\ toClient' = <<>> /\ ~timerCallback'
  BY <1>1, <1>2 DEF AsyncBegin, Queued, PromptInv, Nothing, NoDelayedSend
<1>4. SUFFICES OneRequest'
  BY <1>1, <1>2, <1>3 DEF PromptInv, AckedMeansStored, QueuedSoundly
<1>5. CASE state = "CreatingSession"
  <2>1. PICK m \in Request : m = OpenRequest
    BY <1>2, RequestTypes, FileTransferFields
  <2>2. toAp' = <<m>> /\ asyncSend' = asyncSend /\ m.op = "OpenFileWo"
    BY <1>3, <1>5, <2>1, OneMessage DEF AsyncBegin, OpenRequest
  <2>3. Asked(m)' /\ AskedSoundly(m)'
    BY <1>1, <1>3, <1>5, <2>2 DEF Asked, AskedSoundly, Concerns, NoDelayedSend
  <2>4. QED
    BY <2>3 DEF OneRequest
<1>6. CASE state = "ClosingSession"
  <2>1. /\ toAp' = Put(toAp, TerminateRequest(messageSequenceNumber, mavlinkFtpSessionId))
        /\ asyncSend' = asyncSend
    BY <1>6 DEF AsyncBegin
  <2>2. PICK m \in Request : toAp' = <<m>> /\ AskedSoundly(m)'
    BY <1>1, <1>2, <1>3, <1>6, <2>1, TerminateIsAskedSoundly, FileTransferFields
  <2>3. QED
    BY <1>3, <2>1, <2>2 DEF OneRequest, Asked, NoDelayedSend
<1>7. CASE state = "Transferring"
  <2>1. asyncSend' = [NoSend EXCEPT !.pc = "read"] /\ toAp' = toAp
    BY <1>7 DEF AsyncBegin
  <2>2. asyncSend'.pc = "read" /\ asyncSend'.size = 0
    BY <2>1 DEF NoSend
  <2>3. ReadTo(fileOffset)'
    BY <1>1, <1>2, <1>7 DEF QueuedSoundly, ReadTo, HeldFile
  <2>4. QED
    BY <1>1, <1>3, <1>7, <2>1, <2>2, <2>3 DEF OneRequest, Formed, FormedSoundly
<1>8. QED
  BY <1>2, <1>5, <1>6, <1>7 DEF QueuedSoundly, TypeOK, States

LEMMA AsyncReadPrompt ==
  ASSUME SessionInv, PromptInv, AsyncRead
  PROVE  PromptInv'
<1>1. UNCHANGED <<file, toAp, toClient, apStored, asyncQueue, state, bftFile,
                  mavlinkFtpSessionId, fileOffset, timerCallback>>
  BY DEF AsyncRead, AsyncFrame, sessionVars, timerVars
<1>2. Formed /\ FormedSoundly /\ bftFile # "none"
  <2>1. Formed /\ FormedSoundly
    BY DEF AsyncRead, PromptInv, OneRequest, Nothing, NoDelayedSend, Queued, Asked, Answered
  <2>2. QED
    BY <2>1 DEF FormedSoundly, SessionInv, Session, FileHeldWhileActive
<1> DEFINE n == NRead(HeldFile)
<1>3. asyncSend' = [pc |-> "advance", size |-> n, data |-> IF n = 0 THEN 0 ELSE HeldFile.pos]
      /\ crashed' = crashed
  BY <1>2 DEF AsyncRead
<1>4. n \in 0..1 /\ (n = 1 => HeldFile.open)
  BY DEF NRead
<1> HIDE DEF n
<1>5. asyncSend'.pc = "advance" /\ asyncSend'.size = n /\ (n = 1 => asyncSend'.data = HeldFile.pos)
  BY <1>3
<1>6. n = 1 => HeldFile.pos = fileOffset
  BY <1>2, <1>4 DEF FormedSoundly, ReadTo
<1>7. ReadTo(fileOffset)'
  BY <1>1, <1>2 DEF FormedSoundly, ReadTo, HeldFile
<1>8. Formed' /\ FormedSoundly'
  BY <1>1, <1>2, <1>5, <1>6, <1>7 DEF Formed, FormedSoundly
<1>9. ~timerCallback /\ AckedMeansStored'
  BY <1>1, <1>2 DEF PromptInv, Formed, Nothing, NoDelayedSend, AckedMeansStored
<1>10. QED
  BY <1>1, <1>2, <1>3, <1>8, <1>9 DEF PromptInv, OneRequest, FormedSoundly

LEMMA AsyncPackPrompt ==
  ASSUME SessionInv, CursorInv, PromptInv, AsyncPack
  PROVE  PromptInv'
<1>1. UNCHANGED <<toClient, apStored, asyncQueue, crashed, state, bftFile,
                  mavlinkFtpSessionId, fileOffset, timerCallback>>
  BY DEF AsyncPack, AsyncFrame, sessionVars, timerVars
<1>2. Formed /\ FormedSoundly /\ TypeOK
  BY DEF AsyncPack, PromptInv, OneRequest, Nothing, NoDelayedSend, Queued, Asked,
         Answered, SessionInv, TypeInv
<1>3. asyncSend.size \in 0..1 /\ asyncSend.data \in 0..MaxPos /\ asyncSend'.pc = "none"
  BY <1>2 DEF TypeOK, AsyncType, AsyncPack, NoSend
<1>4. PICK m \in Request :
        m = WriteRequest(mavlinkFtpSessionId, fileOffset, asyncSend.size, asyncSend.data)
  BY <1>2, <1>3, RequestTypes, FileTransferFields
<1>5. /\ m.op = "WriteFile" /\ m.session = mavlinkFtpSessionId /\ m.offset = fileOffset
      /\ m.size = asyncSend.size /\ m.data = asyncSend.data
  BY <1>4 DEF WriteRequest
<1>6. toAp' = <<m>>
  BY <1>2, <1>4, OneMessage DEF AsyncPack, Formed
<1>7. ReadTo(fileOffset + m.size)'
  <2>1. CASE bftFile = "upload" /\ file.open /\ asyncSend.size = 1
    <3>1. file \in FileType /\ Ordered(file) /\ file.pos < file.len
      BY <1>2, <2>1, HeldFileFacts DEF CursorInv, PastCopy
    <3>2. NRead(file) = 1
      BY <2>1, <3>1, FileFields DEF NRead
    <3>3. file' = Read(file)
      BY <2>1, <3>2 DEF AsyncPack, Read
    <3>4. file'.pos = file.pos + 1
      BY <3>1, <3>2, <3>3, ReadFacts
    <3>5. file.pos = fileOffset
      BY <1>2, <2>1 DEF FormedSoundly, ReadTo, HeldFile
    <3>6. QED
      BY <1>1, <1>5, <2>1, <3>4, <3>5 DEF ReadTo, HeldFile
  <2>2. CASE bftFile = "upload" /\ ~(file.open /\ asyncSend.size = 1)
    <3>1. file' = file
      BY <2>2 DEF AsyncPack
    <3>2. file.open => m.size = 0 /\ file.pos = fileOffset /\ fileOffset + 0 = fileOffset
      BY <1>2, <1>3, <1>5, <2>2, FileTransferFields DEF FormedSoundly, ReadTo, HeldFile
    <3>3. QED
      BY <1>1, <2>2, <3>1, <3>2 DEF ReadTo, HeldFile
  <2>3. CASE bftFile # "upload"
    BY <1>1, <2>3, ClosedFacts DEF ReadTo, HeldFile
  <2>4. QED
    BY <2>1, <2>2, <2>3
<1>8. AskedSoundly(m)'
  BY <1>1, <1>2, <1>5, <1>7 DEF AskedSoundly, Concerns, FormedSoundly
<1>9. Asked(m)'
  BY <1>1, <1>2, <1>3, <1>6 DEF Formed, Asked, NoDelayedSend
<1>10. ~timerCallback /\ AckedMeansStored'
  BY <1>1, <1>2 DEF PromptInv, Formed, Nothing, NoDelayedSend, AckedMeansStored
<1>11. QED
  BY <1>1, <1>2, <1>8, <1>9, <1>10 DEF PromptInv, OneRequest, FormedSoundly

\* What the autopilot has stored after a chunk.
Written(stored, offset, size, data) ==
  IF size = 0 THEN stored
  ELSE {w \in stored : w[1] # offset} \cup {<<offset, data>>}

\* What comes before the chunk stays stored.
LEMMA StoredChunk ==
  ASSUME NEW stored, NEW offset \in Nat, NEW size \in 0..1, NEW data, size = 1 => data = offset,
         \A i \in 0..MaxPos : i < offset => <<i, i>> \in stored
  PROVE  /\ \A i \in 0..MaxPos : i < offset => <<i, i>> \in Written(stored, offset, size, data)
         /\ \A i \in 0..MaxPos : i < offset + size =>
              <<i, i>> \in Written(stored, offset, size, data)
<1> DEFINE stored2 == Written(stored, offset, size, data)
<1>1. ASSUME NEW i \in 0..MaxPos, i < offset PROVE <<i, i>> \in stored2
  <2>1. <<i, i>> \in stored /\ i # offset
    BY <1>1
  <2>2. <<i, i>>[1] = i
    OBVIOUS
  <2>3. QED
    BY <2>1, <2>2 DEF Written
<1>2. size = 1 => <<offset, offset>> \in stored2
  BY DEF Written
<1>3. ASSUME NEW i \in 0..MaxPos, i < offset + size PROVE i < offset \/ (size = 1 /\ i = offset)
  BY <1>3, UploadAssumption
<1>4. QED
  BY <1>1, <1>2, <1>3

\* A request is answered.
LEMMA ReplyPrompt ==
  ASSUME PromptInv, NEW m \in Request, Asked(m), toAp' = <<>>,
         NEW opcode \in Opcodes, NEW session \in SessionField, Reply(m, opcode, session),
         Concerns(m.op), AckedMeansStored',
         m.op = "WriteFile" /\ opcode = "Ack" /\ session = mavlinkFtpSessionId =>
           (HeldFile.open => Stored(HeldFile.pos)'),
         UNCHANGED <<uploadVars, sessionVars, timerVars, asyncVars, crashed>>
  PROVE  PromptInv'
<1>1. PICK r \in Response : r = [req |-> m.op, opcode |-> opcode, session |-> session]
  BY DEF Response, Request
<1>2. r.req = m.op /\ r.opcode = opcode /\ r.session = session
  BY <1>1
<1>3. toClient' = <<r>>
  BY <1>1, OneMessage DEF Reply, Asked
<1>4. UNCHANGED <<file, bftFile, state, mavlinkFtpSessionId, asyncQueue, asyncSend, timerCallback,
                  fileOffset>>
  BY DEF uploadVars, sessionVars, timerVars, asyncVars
<1>5. HeldFile' = HeldFile
  BY <1>4 DEF HeldFile
<1>6. Answered(r)'
  BY <1>3, <1>4 DEF Answered, Asked, NoDelayedSend
<1>7. AnsweredSoundly(r)'
  BY <1>2, <1>4, <1>5 DEF AnsweredSoundly, Concerns, Stored
<1>8. ~timerCallback /\ state # "Idle"
  BY OneMessage DEF PromptInv, Nothing, Asked
<1>9. QED
  BY <1>4, <1>6, <1>7, <1>8 DEF PromptInv, OneRequest

LEMMA LosePrompt ==
  ASSUME PromptInv, Lose, UNCHANGED <<sessionVars, timerVars, asyncVars, crashed>>
  PROVE  PromptInv'
<1>1. UNCHANGED <<state, fileOffset, asyncQueue, asyncSend, timerCallback, apStored, crashed>>
  BY DEF sessionVars, asyncVars, timerVars, Lose
<1>2. toAp' = <<>> /\ toClient' = <<>> /\ NoDelayedSend
  <2>1. CASE toAp # <<>> /\ toAp' = Tail(toAp) /\ toClient' = toClient
    <3>1. PICK m \in Request : Asked(m)
      BY <2>1 DEF PromptInv, OneRequest, Nothing, Queued, Formed, Answered
    <3>2. QED
      BY <2>1, <3>1, OneMessage DEF Asked
  <2>2. CASE toClient # <<>> /\ toClient' = Tail(toClient) /\ toAp' = toAp
    <3>1. PICK r \in Response : Answered(r)
      BY <2>2 DEF PromptInv, OneRequest, Nothing, Queued, Formed, Asked
    <3>2. QED
      BY <2>2, <3>1, OneMessage DEF Answered
  <2>3. QED
    BY <2>1, <2>2 DEF Lose
<1>3. Nothing'
  BY <1>1, <1>2 DEF Nothing, NoDelayedSend
<1>4. AckedMeansStored'
  BY <1>1 DEF PromptInv, AckedMeansStored
<1>5. QED
  BY <1>1, <1>3, <1>4 DEF PromptInv, OneRequest

LEMMA PeerPrompt ==
  ASSUME SessionInv, PromptInv, PeerNext,
         UNCHANGED <<uploadVars, sessionVars, timerVars, asyncVars, crashed>>
  PROVE  PromptInv'
<1>1. TypeOK /\ UNCHANGED <<state, fileOffset>>
  BY DEF SessionInv, TypeInv, sessionVars
<1>2. ASSUME toAp # <<>>
      PROVE  \E m \in Request : Asked(m) /\ AskedSoundly(m)
  BY <1>2 DEF PromptInv, OneRequest, Nothing, Queued, Formed, Answered
<1>3. CASE ApAccept
  <2>1. PICK m \in Request : Asked(m) /\ AskedSoundly(m)
    BY <1>2, <1>3 DEF ApAccept
  <2>2. Head(toAp) = m /\ toAp' = <<>>
    BY <1>3, <2>1, OneMessage DEF ApAccept, Asked
  <2>3. m.session \in SessionField /\ m.size \in 0..1 /\ Sessions \subseteq SessionField
        /\ "Ack" \in Opcodes /\ Concerns(m.op)
    BY <2>1 DEF Request, SessionField, Opcodes, AskedSoundly
  <2>4. CASE m.op = "OpenFileWo"
    <3>1. PICK s \in Sessions : Reply(m, "Ack", s)
      BY <1>3, <2>2, <2>4 DEF ApAccept
    <3>2. AckedMeansStored'
      BY <1>1, <2>3, <2>4 DEF AckedMeansStored, Concerns
    <3>3. QED
      BY <2>1, <2>2, <2>3, <2>4, <3>1, <3>2, ReplyPrompt
  <2>5. CASE m.op = "WriteFile"
    <3>1. /\ Reply(m, "Ack", m.session)
          /\ apStored' = IF m.size = 0 THEN apStored
                         ELSE {w \in apStored : w[1] # m.offset} \cup {<<m.offset, m.data>>}
      BY <1>3, <2>2, <2>5 DEF ApAccept
    <3>2. /\ m.offset = fileOffset /\ (m.size = 1 => m.data = m.offset)
          /\ ReadTo(m.offset + m.size) /\ fileOffset \in Nat /\ state = "Transferring"
      BY <1>1, <2>1, <2>5, FileTransferFields DEF AskedSoundly, Concerns
    <3>3. \A i \in 0..MaxPos : i < m.offset => <<i, i>> \in apStored
      BY <3>2 DEF PromptInv, AckedMeansStored
    <3>4. /\ \A i \in 0..MaxPos : i < m.offset => <<i, i>> \in apStored'
          /\ \A i \in 0..MaxPos : i < m.offset + m.size => <<i, i>> \in apStored'
      <4>1. m.offset \in Nat /\ m.size \in 0..1 /\ (m.size = 1 => m.data = m.offset)
        BY <2>3, <3>2
      <4>2. apStored' = Written(apStored, m.offset, m.size, m.data)
        BY <3>1 DEF Written
      <4>3. QED
        BY <3>3, <4>1, <4>2, StoredChunk
    <3>5. AckedMeansStored'
      BY <1>1, <3>2, <3>4 DEF AckedMeansStored
    <3>6. HeldFile' = HeldFile
      BY DEF HeldFile, uploadVars, sessionVars
    <3>7. HeldFile.open => Stored(HeldFile.pos)'
      BY <3>2, <3>4, <3>6 DEF ReadTo, Stored
    <3>8. QED
      BY <2>1, <2>2, <2>3, <3>1, <3>5, <3>7, ReplyPrompt
  <2>6. CASE m.op = "TerminateSession"
    <3>1. Reply(m, "Ack", m.session) /\ apStored' = apStored
      BY <1>3, <2>2, <2>6 DEF ApAccept
    <3>2. AckedMeansStored'
      BY <1>1, <3>1 DEF PromptInv, AckedMeansStored
    <3>3. QED
      BY <2>1, <2>2, <2>3, <2>6, <3>1, <3>2, ReplyPrompt
  <2>7. QED
    BY <1>3, <2>2, <2>4, <2>5, <2>6 DEF ApAccept
<1>4. CASE ApMisbehave
  <2>1. PICK m \in Request : Asked(m) /\ AskedSoundly(m)
    BY <1>2, <1>4 DEF ApMisbehave
  <2>2. Head(toAp) = m /\ toAp' = <<>> /\ apStored' = apStored
    BY <1>4, <2>1, OneMessage DEF ApMisbehave, Asked
  <2>3. m.session \in SessionField /\ Concerns(m.op) /\ "Ack" \in Opcodes
    BY <2>1 DEF Request, Opcodes, AskedSoundly
  <2>4. AckedMeansStored'
    BY <1>1, <2>2 DEF PromptInv, AckedMeansStored
  <2>5. CASE Reply(m, "Nak", m.session) \/ Reply(m, "Other", m.session)
    <3>1. PICK opcode \in Opcodes : opcode # "Ack" /\ Reply(m, opcode, m.session)
      BY <2>5 DEF Opcodes
    <3>2. QED
      BY <2>1, <2>2, <2>3, <2>4, <3>1, ReplyPrompt
  <2>6. CASE \E s \in SessionField \ {m.session} : Reply(m, "Ack", s)
    <3>1. PICK s \in SessionField : s # m.session /\ Reply(m, "Ack", s)
      BY <2>6
    <3>2. m.op = "WriteFile" => m.session = mavlinkFtpSessionId
      BY <2>1 DEF AskedSoundly
    <3>3. QED
      BY <2>1, <2>2, <2>3, <2>4, <3>1, <3>2, ReplyPrompt
  <2>7. QED
    BY <1>4, <2>2, <2>5, <2>6 DEF ApMisbehave
<1>5. QED
  BY <1>3, <1>4, LosePrompt DEF PeerNext

\* The page's steps do not reach the file the client holds, but to close it.
LEMMA UploadPrompt ==
  ASSUME PromptInv, UploadNext, UploadChunk => bftFile # "upload",
         UNCHANGED <<peerVars, sessionVars, timerVars, asyncVars, crashed>>
  PROVE  PromptInv'
<1>1. UNCHANGED <<toAp, toClient, apStored, asyncQueue, asyncSend, state, mavlinkFtpSessionId,
                  fileOffset, bftFile, timerCallback>>
  BY DEF peerVars, sessionVars, timerVars, asyncVars
<1>2. bftFile = "upload" => file' = file \/ file' = ClosedFile
  BY DEF UploadNext, UploadStart, UploadFail, UploadFinish, resetContext, closeFile
<1>3. HeldFile'.open => HeldFile' = HeldFile
  BY <1>1, <1>2, ClosedFacts DEF HeldFile
<1>4. QED
  BY <1>1, <1>3, KeptPrompt DEF PromptInv

LEMMA PromptInit == Init => PromptInv
BY DEF Init, PeerInit, ClientInit, NoSend, PromptInv, OneRequest, Nothing, NoDelayedSend,
       AckedMeansStored

LEMMA PromptStep ==
  ASSUME Prompt
  PROVE  SessionInv /\ CursorInv /\ PromptInv /\ [Next]_vars
           /\ [UploadChunk => bftFile # "upload"]_vars => PromptInv'
<1>1. SUFFICES ASSUME SessionInv, CursorInv, PromptInv, [Next]_vars,
                      [UploadChunk => bftFile # "upload"]_vars
               PROVE  PromptInv'
  OBVIOUS
<1>2. TimerOnlyInSession
  BY <1>1 DEF SessionInv, Session
<1>3. CASE TimerElapse
  <2>1. Nothing /\ state # "Idle"
    BY <1>2, <1>3 DEF TimerElapse, Quiet, Nothing, NoDelayedSend, TimerOnlyInSession, Active
  <2>2. UNCHANGED <<toAp, toClient, apStored, asyncQueue, asyncSend, crashed, state,
                    mavlinkFtpSessionId, fileOffset, bftFile, file>>
    BY <1>3 DEF TimerElapse, uploadVars, peerVars, sessionVars, asyncVars
  <2>3. HeldFile' = HeldFile
    BY <2>2 DEF HeldFile
  <2>4. QED
    BY <1>1, <2>1, <2>2, <2>3, KeptPrompt
<1>4. CASE onHrTimer
  BY <1>1, <1>4, OnHrTimerPrompt
<1>5. CASE NotifyUpload \/ NotifyFetch
  BY <1>1, <1>5, HandOverPrompt
<1>6. CASE process
  <2>1. PICK r \in Response : Answered(r) /\ AnsweredSoundly(r)
    BY <1>1, <1>6 DEF process, PromptInv, OneRequest, Nothing, NoDelayedSend, Queued, Formed, Asked
  <2>2. Head(toClient) = r /\ toClient' = <<>>
    BY <1>6, <2>1, OneMessage DEF process, Answered
  <2>3. UNCHANGED <<apStored, timerCallback, asyncQueue, asyncSend, crashed>>
    BY <1>6 DEF process, asyncVars
  <2>4. QED
    BY <1>1, <1>6, <2>1, <2>2, <2>3, AnswerPrompt DEF process
<1>7. CASE AsyncBegin \/ AsyncRead \/ AsyncPack
  BY <1>1, <1>7, AsyncBeginPrompt, AsyncReadPrompt, AsyncPackPrompt
<1>8. CASE Restart
  BY <1>1, <1>8 DEF Restart, PromptInv
<1>9. CASE UNCHANGED vars
  <2>1. UNCHANGED <<toAp, toClient, apStored, asyncQueue, asyncSend, crashed, state,
                    mavlinkFtpSessionId, fileOffset, bftFile, file, timerCallback>>
    BY <1>9 DEF vars, uploadVars, peerVars, sessionVars, timerVars, asyncVars
  <2>2. HeldFile' = HeldFile
    BY <2>1 DEF HeldFile
  <2>3. QED
    BY <1>1, <2>1, <2>2, KeptPrompt DEF PromptInv
<1>10. CASE Environment /\ ~UNCHANGED vars
  <2>1. UNCHANGED <<sessionVars, timerVars, asyncVars, crashed>>
    BY <1>10 DEF Environment
  <2>2. CASE PeerNext /\ UNCHANGED uploadVars
    BY <1>1, <2>1, <2>2, PeerPrompt
  <2>3. CASE UploadNext /\ UNCHANGED peerVars
    BY <1>1, <1>10, <2>1, <2>3, UploadPrompt
  <2>4. QED
    BY <1>10, <2>2, <2>3 DEF Environment
<1>11. QED
  BY <1>1, <1>3, <1>4, <1>5, <1>6, <1>7, <1>8, <1>9, <1>10 DEF Next

LEMMA PromptInvariant ==
  ASSUME Prompt
  PROVE  Spec /\ PageLeavesHeldFile => []PromptInv
<1>1. SessionInv /\ CursorInv /\ PromptInv /\ [Next]_vars
        /\ [UploadChunk => bftFile # "upload"]_vars => PromptInv'
  BY PromptStep
<1>2. QED
  BY <1>1, SessionInvariant, CursorInvariant, PromptInit, PTL DEF Spec, PageLeavesHeldFile

\* When answers come before the timer elapses, a write request carries the bytes of the
\* offset it names, however often messages are lost, refused or resent, as long as the page
\* receives nothing into the held file (initializeMavlinkMessage, which takes no mutex).
THEOREM ChunksMatchOffsets ==
  ASSUME Prompt
  PROVE  Spec /\ PageLeavesHeldFile => []ChunkMatchesOffset
<1>1. ASSUME PromptInv PROVE ChunkMatchesOffset
  <2>1. CASE toAp = <<>>
    BY <2>1 DEF ChunkMatchesOffset
  <2>2. ASSUME NEW m \in Request, Asked(m), AskedSoundly(m) PROVE ChunkMatchesOffset
    <3>1. Len(toAp) = 1 /\ toAp[1] = m
      BY <2>2 DEF Asked
    <3>2. m.op = "WriteFile" /\ m.size = 1 => m.data = m.offset
      BY <2>2 DEF AskedSoundly
    <3>3. QED
      BY <3>1, <3>2 DEF ChunkMatchesOffset
  <2>3. QED
    BY <1>1, <2>1, <2>2 DEF PromptInv, OneRequest, Nothing, Queued, Formed, Answered
<1>2. PromptInv => ChunkMatchesOffset
  BY <1>1
<1>3. QED
  BY <1>2, PromptInvariant, PTL

\* Under the same conditions, what the client counts as transferred the autopilot has stored
\* where it belongs (processMavlinkMessageTransferring counts up to the file's cursor).
THEOREM AcknowledgedIsStored ==
  ASSUME Prompt
  PROVE  Spec /\ PageLeavesHeldFile => []AckedMeansStored
<1>1. PromptInv => AckedMeansStored
  BY DEF PromptInv
<1>2. QED
  BY <1>1, PromptInvariant, PTL
=============================================================================
