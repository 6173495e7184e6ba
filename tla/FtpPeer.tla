------------------------------- MODULE FtpPeer -------------------------------
(***************************************************************************)
(* The autopilot's MAVLink FTP server and the serial link to it, as the    *)
(* client in BftFtpClient.cpp uses them.  Both are external to the         *)
(* repository.  The link keeps the order, may lose messages (a frame with  *)
(* a bad checksum is dropped), and never makes a message up; duplicates    *)
(* come from the client's own retries.                                     *)
(***************************************************************************)
EXTENDS Naturals, Sequences

CONSTANTS
  SeqMod,     \* messageSequenceNumber is a std::uint16_t: 2^16 in the code
  Sessions,   \* session ids the autopilot gives out
  MaxOffset,  \* bound: largest file offset, in payloads
  LinkCap,    \* bound: messages in flight in one direction; what does not fit is lost
  Faults,     \* a subset of FaultKinds: what the peer may do besides acknowledging
  Lossy       \* whether the link loses messages

FaultKinds == {"nak", "badSession", "oddOpcode"}

ASSUME PeerAssumption ==
  /\ SeqMod \in Nat \ {0}
  /\ Sessions \subseteq Nat
  /\ Sessions # {}
  /\ MaxOffset \in Nat
  /\ LinkCap \in Nat \ {0}
  /\ Faults \subseteq FaultKinds
  /\ Lossy \in BOOLEAN

VARIABLES
  toAp,       \* requests in flight
  toClient,   \* responses in flight
  apStored    \* <<offset, data>> pairs written since the file was last opened

peerVars == <<toAp, toClient, apStored>>

Requests == {"OpenFileWo", "WriteFile", "TerminateSession"}
Opcodes == {"Ack", "Nak", "Other"}

\* A session field holds a session id or, see setTerminateSessionFields, a sequence number.
SessionField == Sessions \cup 0..(SeqMod - 1)

\* data is the index of the payload in the file: a write of the right bytes has data = offset
Request == [op : Requests, session : SessionField, offset : 0..MaxOffset,
            size : 0..1, data : 0..MaxOffset]
Response == [req : Requests, opcode : Opcodes, session : SessionField]

\* The link's part of the type invariant: only well-formed requests and answers are on it.
PeerTypeOK ==
  /\ toAp \in Seq(Request)
  /\ toClient \in Seq(Response)
  /\ apStored \subseteq (0..MaxOffset) \X (0..MaxOffset)

PeerInit ==
  /\ toAp = <<>>
  /\ toClient = <<>>
  /\ apStored = {}

\* Put a message on a link: it is lost when the link's buffer is full.
Put(link, m) == IF Len(link) < LinkCap THEN Append(link, m) ELSE link
-----------------------------------------------------------------------------
Reply(m, opcode, session) ==
  toClient' = Put(toClient, [req |-> m.op, opcode |-> opcode, session |-> session])

\* The autopilot carries out a request and acknowledges it.
ApAccept ==
  /\ toAp # <<>>
  /\ LET m == Head(toAp)
     IN /\ toAp' = Tail(toAp)
        /\ \/ /\ m.op = "OpenFileWo"
              /\ apStored' = {}
              /\ \E s \in Sessions : Reply(m, "Ack", s)
           \/ /\ m.op = "WriteFile"
              /\ apStored' = IF m.size = 0 THEN apStored
                             ELSE {w \in apStored : w[1] # m.offset}
                                    \cup {<<m.offset, m.data>>}
              /\ Reply(m, "Ack", m.session)
           \/ /\ m.op = "TerminateSession"
              /\ UNCHANGED apStored
              /\ Reply(m, "Ack", m.session)

\* It refuses, names another session in its acknowledgement, or answers with an
\* opcode the client does not know.
ApMisbehave ==
  /\ toAp # <<>>
  /\ LET m == Head(toAp)
     IN /\ toAp' = Tail(toAp)
        /\ \/ "nak" \in Faults /\ Reply(m, "Nak", m.session)
           \/ /\ "badSession" \in Faults
              /\ \E s \in SessionField \ {m.session} : Reply(m, "Ack", s)
           \/ "oddOpcode" \in Faults /\ Reply(m, "Other", m.session)
        /\ UNCHANGED apStored

Lose ==
  /\ Lossy
  /\ \/ toAp # <<>> /\ toAp' = Tail(toAp) /\ UNCHANGED toClient
     \/ toClient # <<>> /\ toClient' = Tail(toClient) /\ UNCHANGED toAp
  /\ UNCHANGED apStored

PeerNext == ApAccept \/ ApMisbehave \/ Lose
=============================================================================
