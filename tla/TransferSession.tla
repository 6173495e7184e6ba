-------------------------- MODULE TransferSession --------------------------
(***************************************************************************)
(* What Mav::Mic::BftFtpClient promises to those who hand it a file and to *)
(* the subscribers of OnTransferUpdate: it keeps one file at a time, gives *)
(* it back before the session is over, and reports each session's end.     *)
(* Only a crash of the chip ends a session without a report.               *)
(***************************************************************************)
EXTENDS Sequences

VARIABLES
  phase,    \* "idle", "sending" (the file is in use) or "closing" (it is not any more)
  holds,    \* the client holds the file it was handed
  reports,  \* what has been reported of the session that began last
  crashed   \* a late read of the file that was given back has crashed the chip

vars == <<phase, holds, reports, crashed>>

Outcomes == {"Done", "Failed"}

Init == phase = "idle" /\ holds = FALSE /\ reports = <<>> /\ crashed = FALSE

Report(outcome) == reports' = Append(reports, outcome)

\* An idle client takes the file.
Take ==
  /\ phase = "idle"
  /\ phase' = "sending" /\ holds' = TRUE /\ reports' = <<>>

\* The file is given back, all of it written or after a failure; the session stays open.
Settle ==
  /\ phase = "sending"
  /\ phase' = "closing" /\ holds' = FALSE
  /\ UNCHANGED reports \/ Report("Failed")

\* The file is given back and the session is over: nothing but a failure may be reported.
Abandon ==
  /\ phase = "sending"
  /\ phase' = "idle" /\ holds' = FALSE /\ Report("Failed")

\* The session is closed or given up.  Only here may it be reported done, and a failure
\* reported before does not keep it from being so.
Close ==
  /\ phase = "closing"
  /\ phase' = "idle" /\ UNCHANGED holds
  /\ \E outcome \in Outcomes : Report(outcome)

\* A timer callback that was overtaken by the last message finds its attempts used up: an
\* ended session is reported as failed once more.
LateFailure ==
  /\ phase = "idle"
  /\ reports # <<>>
  /\ Report("Failed") /\ UNCHANGED <<phase, holds>>

Session ==
  /\ ~crashed
  /\ Take \/ Settle \/ Abandon \/ Close \/ LateFailure
  /\ UNCHANGED crashed

\* A delayed send that was under way reads the file after it was given back.
Crash ==
  /\ ~crashed /\ ~holds
  /\ crashed' = TRUE
  /\ UNCHANGED <<phase, holds, reports>>

\* The chip restarts: what has happened before is forgotten.
Restart ==
  /\ crashed
  /\ phase' = "idle" /\ holds' = FALSE /\ reports' = <<>> /\ crashed' = FALSE

Next == Session \/ Crash \/ Restart

Spec == Init /\ [][Next]_vars
=============================================================================
