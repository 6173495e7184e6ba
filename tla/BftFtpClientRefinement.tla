----------------------- MODULE BftFtpClientRefinement -----------------------
(***************************************************************************)
(* BftFtpClient implements TransferSession: each of its steps maps to a    *)
(* step of a session or leaves the session as it is.                       *)
(***************************************************************************)
EXTENDS BftFtpClientProofs

(* One lemma per step of TransferSession: what the client's own variables have to do *)
(* for it.                                                                           *)

LEMMA Stays ==
  ASSUME UNCHANGED <<Phase, bftFile, reports, crashed>>
  PROVE  [Transfer!Next]_(Transfer!vars)
BY DEF Transfer!vars

LEMMA Takes ==
  ASSUME ~crashed, UNCHANGED crashed, state = "Idle", state' = "CreatingSession", bftFile' # "none", reports' = <<>>
  PROVE  [Transfer!Next]_(Transfer!vars)
<1>1. Transfer!Take
  BY DEF Transfer!Take, Phase
<1>2. QED
  BY <1>1 DEF Transfer!Next, Transfer!Session

LEMMA Settles ==
  ASSUME ~crashed, UNCHANGED crashed, state \in {"CreatingSession", "Transferring"}, state' = "ClosingSession",
         bftFile' = "none", UNCHANGED reports \/ Report("Failed")
  PROVE  [Transfer!Next]_(Transfer!vars)
<1>1. Transfer!Settle
  BY DEF Transfer!Settle, Transfer!Report, Report, Phase
<1>2. QED
  BY <1>1 DEF Transfer!Next, Transfer!Session

LEMMA Abandons ==
  ASSUME ~crashed, UNCHANGED crashed, state \in {"CreatingSession", "Transferring"}, state' = "Idle",
         bftFile' = "none", Report("Failed")
  PROVE  [Transfer!Next]_(Transfer!vars)
<1>1. Transfer!Abandon
  BY DEF Transfer!Abandon, Transfer!Report, Report, Phase
<1>2. QED
  BY <1>1 DEF Transfer!Next, Transfer!Session

LEMMA Closes ==
  ASSUME ~crashed, UNCHANGED crashed, state = "ClosingSession", state' = "Idle", bftFile = "none", bftFile' = "none",
         NEW e \in {"Done", "Failed"}, Report(e)
  PROVE  [Transfer!Next]_(Transfer!vars)
<1>1. Transfer!Close
  BY DEF Transfer!Close, Transfer!Report, Transfer!Outcomes, Report, Phase
<1>2. QED
  BY <1>1 DEF Transfer!Next, Transfer!Session

LEMMA FailsLate ==
  ASSUME ~crashed, UNCHANGED crashed, state = "Idle", state' = "Idle", UNCHANGED bftFile, reports # <<>>,
         Report("Failed")
  PROVE  [Transfer!Next]_(Transfer!vars)
<1>1. Transfer!LateFailure
  BY DEF Transfer!LateFailure, Transfer!Report, Report, Phase
<1>2. QED
  BY <1>1 DEF Transfer!Next, Transfer!Session

LEMMA Crashes ==
  ASSUME ~crashed, crashed' = TRUE, bftFile = "none", UNCHANGED <<Phase, bftFile, reports>>
  PROVE  [Transfer!Next]_(Transfer!vars)
<1>1. Transfer!Crash
  BY DEF Transfer!Crash
<1>2. QED
  BY <1>1 DEF Transfer!Next

LEMMA Restarts ==
  ASSUME crashed, crashed' = FALSE, state' = "Idle", bftFile' = "none", reports' = <<>>
  PROVE  [Transfer!Next]_(Transfer!vars)
<1>1. Transfer!Restart
  BY DEF Transfer!Restart, Phase
<1>2. QED
  BY <1>1 DEF Transfer!Next
-----------------------------------------------------------------------------
LEMMA AnswerImplements ==
  ASSUME TypeOK, FileHeldWhileActive, ~crashed, UNCHANGED crashed, NEW r,
         CreatingSession(r) \/ Transferring(r) \/ ClosingSession(r) \/ Irrelevant(r)
  PROVE  [Transfer!Next]_(Transfer!vars)
<1>1. CASE state = "CreatingSession" /\ OpenAcknowledged(r)
  BY <1>1, Stays DEF OpenAcknowledged, Phase
<1>2. CASE state = "CreatingSession" /\ OpenRefused
  BY <1>2, Abandons DEF OpenRefused, handleIdleTransition
<1>3. CASE Disregard
  BY <1>3, Stays DEF Disregard, sessionVars, Phase
<1>4. CASE state = "Transferring" /\ ChunkAcknowledged
  <2>1. CASE isEof(HeldFile.pos)
    BY <1>4, <2>1, Settles DEF ChunkAcknowledged, handleClosingSessionTransition
  <2>2. CASE ~isEof(HeldFile.pos)
    BY <1>4, <2>2, Stays DEF ChunkAcknowledged, Phase
  <2>3. QED
    BY <2>1, <2>2
<1>5. CASE state = "Transferring" /\ ChunkRefused
  BY <1>5, Settles DEF ChunkRefused, handleClosingSessionTransition
<1>6. ASSUME NEW e \in {"Done", "Failed"}, state = "ClosingSession", TerminateAnswered(e)
      PROVE  [Transfer!Next]_(Transfer!vars)
  <2>1. bftFile = "none"
    BY <1>6 DEF FileHeldWhileActive
  <2>2. QED
    BY <1>6, <2>1, Closes DEF TerminateAnswered, handleIdleTransition
<1>7. CASE Irrelevant(r)
  BY <1>7, Stays DEF Irrelevant, sessionVars, Phase
<1>8. QED
  BY <1>1, <1>2, <1>3, <1>4, <1>5, <1>6, <1>7 DEF CreatingSession, Transferring, ClosingSession

LEMMA OnHrTimerImplements ==
  ASSUME TypeOK, Session, onHrTimer, ~crashed
  PROVE  [Transfer!Next]_(Transfer!vars)
<1> USE DEF Session
<1>1. timerCallback /\ (GiveUp \/ Resend) /\ UNCHANGED crashed
  BY DEF onHrTimer
<1>2. CASE Resend
  BY <1>1, <1>2, Stays DEF Resend, Phase
<1>3. CASE GiveUp /\ state = "Transferring"
  BY <1>1, <1>3, Settles DEF GiveUp, handleClosingSessionTransition
<1>4. CASE GiveUp /\ state # "Transferring"
  <2>1. /\ state' = "Idle" /\ bftFile' = "none"
        /\ Report("Failed")
    BY <1>4 DEF GiveUp, handleIdleTransition
  <2>2. CASE state = "CreatingSession"
    BY <1>1, <2>1, <2>2, Abandons
  <2>3. CASE state = "ClosingSession"
    <3>1. bftFile = "none"
      BY <2>3 DEF FileHeldWhileActive
    <3>2. QED
      BY <1>1, <2>1, <2>3, <3>1, Closes
  <2>4. CASE state = "Idle"
    <3>1. bftFile = "none"
      BY <2>4 DEF FileHeldWhileActive
    <3>2. reports # <<>>
      BY <1>1, <2>4 DEF SessionStarted, OutcomeReported, Active
    <3>3. QED
      BY <1>1, <2>1, <2>4, <3>1, <3>2, FailsLate
  <2>5. QED
    BY <1>4, <2>2, <2>3, <2>4 DEF TypeOK, States
<1>5. QED
  BY <1>1, <1>2, <1>3, <1>4

LEMMA HandOverImplements ==
  ASSUME NotifyUpload \/ NotifyFetch
  PROVE  [Transfer!Next]_(Transfer!vars)
<1> /\ ~crashed /\ UNCHANGED crashed
  BY DEF NotifyUpload, NotifyFetch, WqFree
<1>1. CASE state = "Idle"
  <2>1. \E holder \in {"upload", "fetch"} : BeginSession(holder)
    BY <1>1 DEF NotifyUpload, NotifyFetch
  <2>2. QED
    BY <1>1, <2>1, Takes DEF BeginSession
<1>2. CASE state # "Idle"
  <2>1. StaySession
    BY <1>2 DEF NotifyUpload, NotifyFetch
  <2>2. QED
    BY <2>1, Stays DEF StaySession, Phase
<1>3. QED
  BY <1>1, <1>2
-----------------------------------------------------------------------------
LEMMA TransferInit == Init => Transfer!Init
BY DEF Init, ClientInit, Transfer!Init, Phase

LEMMA TransferStep == SessionInv /\ [Next]_vars => [Transfer!Next]_(Transfer!vars)
<1>1. SUFFICES ASSUME SessionInv, [Next]_vars PROVE [Transfer!Next]_(Transfer!vars)
  OBVIOUS
<1>2. TypeOK /\ Session /\ FileHeldWhileActive
  BY <1>1 DEF SessionInv, TypeInv, Session
<1>3. CASE UNCHANGED vars \/ TimerElapse \/ Environment
  BY <1>3, Stays DEF vars, TimerElapse, Environment, sessionVars, historyVars, Phase
<1>4. CASE ~crashed /\ onHrTimer
  BY <1>2, <1>4, OnHrTimerImplements
<1>5. CASE NotifyUpload \/ NotifyFetch
  BY <1>5, HandOverImplements
<1>6. CASE process
  BY <1>2, <1>6, AnswerImplements DEF process, WqFree
<1>7. CASE AsyncBegin \/ AsyncRead \/ AsyncPack
  <2>1. AsyncFrame
    BY <1>7 DEF AsyncBegin, AsyncRead, AsyncPack
  <2>2. CASE UNCHANGED crashed
    BY <2>1, <2>2, Stays DEF AsyncFrame, sessionVars, historyVars, Phase
  <2>3. CASE AsyncRead /\ bftFile = "none"
    BY <2>1, <2>3, Crashes DEF AsyncRead, AsyncFrame, sessionVars, historyVars, Phase
  <2>4. QED
    BY <1>7, <2>2, <2>3 DEF AsyncBegin, AsyncRead, AsyncPack
<1>8. CASE Restart
  BY <1>8, Restarts DEF Restart
<1>9. QED
  BY <1>1, <1>3, <1>4, <1>5, <1>6, <1>7, <1>8 DEF Next

\* The FTP client implements TransferSession for every bound, link and autopilot: it takes a
\* file only when idle, gives it back before the session is over, reports every session that
\* ends but by a crash of the chip, and reports it as done at most once and only at its end.
THEOREM TransferIsImplemented == Spec => ImplementsTransferSession
BY TransferInit, TransferStep, SessionInvariant, PTL
   DEF Spec, ImplementsTransferSession, Transfer!Spec
=============================================================================
