----------------------------- MODULE TcpServer -----------------------------
(***************************************************************************)
(* The ground station reaches TCP peers through the drone: GsNetwork       *)
(* carries out its commands, Sock::Api keeps the sockets, and what happens *)
(* on them is reported back over MAVLink.                                  *)
(*                                                                         *)
(* Two threads share the sockets.  The socket task polls asio and calls    *)
(* the completion handlers; the work queue carries out commands and        *)
(* notifications.  Api's mutex, syncAsyncMutex, is taken by both, but the  *)
(* handlers keep references to sockets and acceptors while they do not     *)
(* hold it.  One TCP port is modelled.                                     *)
(***************************************************************************)
EXTENDS Naturals, Sequences

CONSTANTS
  Clients,      \* peers that connect to the port, each once (bound)
  Hosts,        \* peers that the ground station connects to, each once (bound)
  MaxCommands,  \* bound: commands that the ground station sends
  MaxSegments,  \* bound: segments on their way from each peer
  Faults        \* "bind": OPEN fails; "accept": accepting fails; "reset": a connection breaks

None == "none"

ASSUME ServerAssumption ==
  /\ Clients \cap Hosts = {}
  /\ None \notin Clients \cup Hosts
  /\ MaxCommands \in Nat
  /\ MaxSegments \in Nat
  /\ Faults \subseteq {"bind", "accept", "reset"}

VARIABLES
  listening,    \* container.tcpListening has an open acceptor for the port
  deadAcceptor, \* it has one that is closed, left there by an OPEN that failed
  sock,         \* per peer: not, still or no longer in container.tcpConnected
  rx,           \* per peer: an async_receive is outstanding
  rule,         \* RoutingRules has the rule that forwards the port's data
  mutex,        \* syncAsyncMutex: free, or held by the socket task that waits for it again
  handler,      \* the completion handler the socket task is in
  queue,        \* tasks of the work queue
  peer,         \* per peer: the state of its side of the connection
  inbox,        \* per peer: segments that have arrived and have not been received
  commands,     \* commands sent (for the bound)
  reported,     \* what has been reported to the ground station (history)
  overlap,      \* sockets were removed while the socket task was in a handler (history)
  fault         \* what has gone wrong for good

socketVars == <<listening, deadAcceptor, sock, rx>>
netVars == <<peer, inbox>>
vars == <<socketVars, netVars, rule, mutex, handler, queue, commands, reported, overlap, fault>>

Peers == Clients \cup Hosts

\* Where the socket task is: polling; between the push of CONNECTED and the mutex; waiting for
\* the work queue to notify the receivers; past that; between the push of DISCONNECTED and the
\* mutex; waiting for a mutex of its own.
Points == {"poll", "accepted", "notifying", "notified", "lost", "stuck"}

\* `stale`: the socket or acceptor that the handler refers to has been destroyed
Idle == [at |-> "poll", peer |-> None, stale |-> FALSE]
At(point, p) == [at |-> point, peer |-> p, stale |-> FALSE]

\* The tasks: commands, events on their way to GsNetwork and then to the ground station, and the
\* two rounds of a notification with received data.  `garbled`: the event's peer was read from
\* the stack frame of a handler that had returned.
Events == {"connected", "disconnected"}
Reports == {"reportConnected", "reportDisconnected"}
Commands == [kind : {"open", "close"}, peer : {None}, garbled : {FALSE}]
            \cup [kind : {"disconnect"}, peer : Peers, garbled : {FALSE}]
            \cup [kind : {"connect"}, peer : Hosts, garbled : {FALSE}]
Tasks == Commands
         \cup [kind : Events \cup {"received", "finish"}, peer : Peers, garbled : {FALSE}]
         \cup [kind : Reports, peer : Peers, garbled : BOOLEAN]
Task(kind, p) == [kind |-> kind, peer |-> p, garbled |-> FALSE]

\* q has a notification with received data if one is waited for, and no other
Notifications(q) == {i \in DOMAIN q : q[i].kind \in {"received", "finish"}}
NotifiesOnce(q, waiting) ==
  IF waiting THEN \E i \in DOMAIN q : Notifications(q) = {i} ELSE Notifications(q) = {}

\* Type invariant.  The socket task waits for the one notification it has pushed, so that there
\* is never a second one.
TypeOK ==
  /\ listening \in BOOLEAN /\ deadAcceptor \in BOOLEAN /\ rule \in BOOLEAN
  /\ sock \in [Peers -> {"none", "open", "erased"}]
  /\ rx \in [Peers -> BOOLEAN]
  /\ mutex \in {"free", "held"}
  /\ handler \in [at : Points, peer : Peers \cup {None}, stale : BOOLEAN]
  /\ queue \in Seq(Tasks)
  /\ NotifiesOnce(queue, handler.at = "notifying")
  /\ peer \in [Peers -> {"up", "closed", "reset"}]
  /\ inbox \in [Peers -> 0..MaxSegments]
  /\ commands \in 0..MaxCommands
  /\ reported \subseteq [kind : Reports \cup {"data"}, peer : Peers, garbled : BOOLEAN]
  /\ overlap \in BOOLEAN
  /\ fault \in {None, "useAfterFree", "deadAcceptor"}

Init ==
  /\ listening = FALSE /\ deadAcceptor = FALSE /\ rule = FALSE
  /\ sock = [p \in Peers |-> "none"]
  /\ rx = [p \in Peers |-> FALSE]
  /\ mutex = "free"
  /\ handler = Idle
  /\ queue = <<>>
  /\ peer = [p \in Peers |-> "up"]
  /\ inbox = [p \in Peers |-> 0]
  /\ commands = 0
  /\ reported = {}
  /\ overlap = FALSE
  /\ fault = None

\* Container::find: a socket whose peer cannot be read any more is passed over.
Found(p) == sock[p] = "open" /\ peer[p] # "reset"
-----------------------------------------------------------------------------
(* The socket task: completion handlers *)

\* A client is accepted (once): the event is pushed, with references into this frame ...
Accept(c) ==
  /\ handler.at = "poll"
  /\ listening
  /\ sock[c] = "none"
  /\ queue' = Append(queue, Task("connected", c))
  /\ handler' = At("accepted", c)
  /\ UNCHANGED <<socketVars, netVars, rule, mutex, commands, reported, overlap, fault>>

\* ... and then the socket is stored and receives, and the acceptor, if it is still there,
\* accepts again.
Accepted ==
  /\ handler.at = "accepted"
  /\ mutex = "free"
  /\ sock' = [sock EXCEPT ![handler.peer] = "open"]
  /\ rx' = [rx EXCEPT ![handler.peer] = TRUE]
  /\ fault' = IF handler.stale THEN "useAfterFree" ELSE fault
  /\ handler' = Idle
  /\ UNCHANGED <<listening, deadAcceptor, netVars, rule, mutex, queue, commands, reported, overlap>>

\* The handler of a failed accept takes the mutex and calls closeTcp, which takes it again.
AcceptFails ==
  /\ handler.at = "poll"
  /\ listening
  /\ mutex = "free"
  /\ "accept" \in Faults
  /\ mutex' = "held"
  /\ handler' = At("stuck", None)
  /\ UNCHANGED <<socketVars, netVars, rule, queue, commands, reported, overlap, fault>>

\* Mutant: the handler does not wait for the notification.
Receive_NoWait(p) ==
  /\ handler.at = "poll"
  /\ rx[p] /\ peer[p] # "reset" /\ inbox[p] > 0
  /\ inbox' = [inbox EXCEPT ![p] = @ - 1]
  /\ queue' = Append(queue, Task("received", p))
  /\ UNCHANGED <<socketVars, peer, rule, mutex, handler, commands, reported, overlap, fault>>

\* A segment is received: Receiver::notifyAs waits until the work queue has notified everybody
Receive(p) ==
  /\ handler.at = "poll"
  /\ rx[p] /\ peer[p] # "reset" /\ inbox[p] > 0
  /\ inbox' = [inbox EXCEPT ![p] = @ - 1]
  /\ rx' = [rx EXCEPT ![p] = FALSE]
  /\ queue' = Append(queue, Task("received", p))
  /\ handler' = At("notifying", p)
  /\ UNCHANGED <<listening, deadAcceptor, sock, peer, rule, mutex, commands, reported,
                 overlap, fault>>

\* Mutant: the next reception is not started.
ReceiveAgain_Not ==
  /\ handler.at = "notified"
  /\ handler' = Idle
  /\ UNCHANGED <<socketVars, netVars, rule, mutex, queue, commands, reported, overlap, fault>>

\* The next reception is started on the same socket, whatever has become of it meanwhile.
ReceiveAgain ==
  /\ handler.at = "notified"
  /\ IF handler.stale
     THEN fault' = "useAfterFree" /\ UNCHANGED rx
     ELSE rx' = [rx EXCEPT ![handler.peer] = TRUE] /\ UNCHANGED fault
  /\ handler' = Idle
  /\ UNCHANGED <<listening, deadAcceptor, sock, netVars, rule, mutex, queue, commands, reported,
                 overlap>>

\* The end of the stream: the event is pushed, with a reference into this frame ...
Lost(p) ==
  /\ handler.at = "poll"
  /\ rx[p] /\ peer[p] = "closed" /\ inbox[p] = 0
  /\ rx' = [rx EXCEPT ![p] = FALSE]
  /\ queue' = Append(queue, Task("disconnected", p))
  /\ handler' = At("lost", p)
  /\ UNCHANGED <<listening, deadAcceptor, sock, netVars, rule, mutex, commands, reported, overlap,
                 fault>>

\* Mutant: the branch falls through to the next reception.
DisconnectLost_Again ==
  /\ handler.at = "lost"
  /\ mutex = "free"
  /\ sock' = [sock EXCEPT ![handler.peer] = "erased"]
  /\ handler' = [handler EXCEPT !.at = "notified", !.stale = TRUE]
  /\ UNCHANGED <<listening, deadAcceptor, rx, netVars, rule, mutex, queue, commands, reported,
                 overlap, fault>>

\* ... and then Api::disconnect removes the socket, if a command has not done so.
DisconnectLost ==
  /\ handler.at = "lost"
  /\ mutex = "free"
  /\ sock' = IF Found(handler.peer) THEN [sock EXCEPT ![handler.peer] = "erased"] ELSE sock
  /\ handler' = Idle
  /\ UNCHANGED <<listening, deadAcceptor, rx, netVars, rule, mutex, queue, commands, reported,
                 overlap, fault>>

\* A broken connection has no endpoints to find it by: its socket stays where it is, deaf.
LostForGood(p) ==
  /\ handler.at = "poll"
  /\ rx[p] /\ peer[p] = "reset"
  /\ rx' = [rx EXCEPT ![p] = FALSE]
  /\ UNCHANGED <<listening, deadAcceptor, sock, netVars, rule, mutex, handler, queue, commands,
                 reported, overlap, fault>>
-----------------------------------------------------------------------------
(* The work queue: commands of GsNetwork *)

Begin(kind, p) ==
  /\ queue # <<>>
  /\ Head(queue).kind = kind
  /\ Head(queue).peer = p
  /\ queue' = Tail(queue)

Handling == {"accepted", "notifying", "notified", "lost"}

\* Sockets are shut down, closed and erased.  What is outstanding on them is aborted; a handler
\* that is under way is not.
Erase(gone) ==
  /\ sock' = [p \in Peers |-> IF p \in gone THEN "erased" ELSE sock[p]]
  /\ rx' = [p \in Peers |-> rx[p] /\ p \notin gone]

\* Any task that looks for an acceptor asks the dead one for its port, which is an exception
\* in a build that has none.
MeetsDeadAcceptor ==
  /\ deadAcceptor
  /\ fault' = "deadAcceptor"
  /\ UNCHANGED <<socketVars, netVars, rule, mutex, handler, commands, reported, overlap>>

\* OPEN, of a port that is open already or not
OpenTcp ==
  /\ Begin("open", None)
  /\ mutex = "free"
  /\ \/ MeetsDeadAcceptor
     \/ /\ ~deadAcceptor
        /\ listening' = TRUE /\ rule' = TRUE
        /\ UNCHANGED <<deadAcceptor, sock, rx, netVars, mutex, handler, commands, reported, overlap,
                       fault>>
     \/ /\ ~deadAcceptor /\ ~listening
        /\ "bind" \in Faults
        /\ deadAcceptor' = TRUE
        /\ UNCHANGED <<listening, sock, rx, netVars, rule, mutex, handler, commands, reported,
                       overlap, fault>>

\* Mutant: the port's connections stay.
CloseTcp_KeepsClients ==
  /\ Begin("close", None)
  /\ mutex = "free"
  /\ ~deadAcceptor
  /\ listening' = FALSE /\ rule' = FALSE
  /\ handler' = [handler EXCEPT !.stale = @ \/ handler.at = "accepted"]
  /\ overlap' = (overlap \/ handler.at \in Handling)
  /\ UNCHANGED <<deadAcceptor, sock, rx, netVars, mutex, commands, reported, fault>>

\* CLOSE removes the connections that clients have made to the port, then the acceptor.
CloseTcp ==
  LET gone == {c \in Clients : Found(c)}
  IN /\ Begin("close", None)
     /\ mutex = "free"
     /\ \/ MeetsDeadAcceptor
        \/ /\ ~deadAcceptor
           /\ Erase(gone)
           /\ listening' = FALSE /\ rule' = FALSE
           /\ handler' = [handler EXCEPT
                            !.stale = @ \/ handler.peer \in gone
                                        \/ (handler.at = "accepted" /\ listening)]
           /\ overlap' = (overlap \/ handler.at \in Handling)
           /\ UNCHANGED <<deadAcceptor, netVars, mutex, commands, reported, fault>>

\* DISCONNECT
Disconnect(p) ==
  /\ Begin("disconnect", p)
  /\ mutex = "free"
  /\ IF Found(p)
     THEN /\ Erase({p})
          /\ handler' = [handler EXCEPT !.stale = @ \/ handler.peer = p]
          /\ overlap' = (overlap \/ handler.at \in Handling)
     ELSE UNCHANGED <<sock, rx, handler, overlap>>
  /\ UNCHANGED <<listening, deadAcceptor, netVars, rule, mutex, commands, reported, fault>>

\* CONNECT, once per host: an existing connection is left as it is; the attempt may fail.
Connect(h) ==
  /\ Begin("connect", h)
  /\ mutex = "free"
  /\ \/ /\ sock[h] = "none"
        /\ sock' = [sock EXCEPT ![h] = "open"]
        /\ rx' = [rx EXCEPT ![h] = TRUE]
     \/ UNCHANGED <<sock, rx>>
  /\ UNCHANGED <<listening, deadAcceptor, netVars, rule, mutex, handler, commands, reported,
                 overlap, fault>>
-----------------------------------------------------------------------------
(* The work queue: notifications *)

FrameIsGone(kind, p) ==
  handler.peer # p \/ handler.at # (IF kind = "connected" THEN "accepted" ELSE "lost")

ReportOf(kind) == IF kind = "connected" THEN "reportConnected" ELSE "reportDisconnected"

\* Mutant: the event of a connection that is not in the table is dropped.
TcpEvent_OnlyOpen(kind, p) ==
  /\ queue # <<>>
  /\ Head(queue) = Task(kind, p)
  /\ queue' = IF Found(p)
              THEN Append(Tail(queue), [kind |-> ReportOf(kind), peer |-> p, garbled |-> FALSE])
              ELSE Tail(queue)
  /\ UNCHANGED <<socketVars, netVars, rule, mutex, handler, commands, reported, overlap, fault>>

\* OnTcpEvent::notify: GsNetwork pushes the report.  It reads the endpoint by reference.
TcpEvent(kind, p) ==
  /\ queue # <<>>
  /\ Head(queue) = Task(kind, p)
  /\ \E garbled \in (IF FrameIsGone(kind, p) THEN BOOLEAN ELSE {FALSE}) :
       queue' = Append(Tail(queue), [kind |-> ReportOf(kind), peer |-> p, garbled |-> garbled])
  /\ UNCHANGED <<socketVars, netVars, rule, mutex, handler, commands, reported, overlap, fault>>

\* PROCESS_CONNECTED or PROCESS_CONNECTION_ABORTED goes to the ground station.
Report ==
  /\ queue # <<>>
  /\ Head(queue).kind \in Reports
  /\ queue' = Tail(queue)
  /\ reported' = reported \cup {Head(queue)}
  /\ UNCHANGED <<socketVars, netVars, rule, mutex, handler, commands, overlap, fault>>

\* First round of notifyAs: what the port has received is forwarded as PROCESS_RECEIVED, if
\* there is a rule for it.  Nothing has a rule for the local port of a CONNECT.
Received(p) ==
  /\ queue # <<>>
  /\ Head(queue) = Task("received", p)
  /\ queue' = Append(Tail(queue), Task("finish", p))
  /\ reported' = IF rule /\ p \in Clients THEN reported \cup {Task("data", p)} ELSE reported
  /\ UNCHANGED <<socketVars, netVars, rule, mutex, handler, commands, overlap, fault>>

\* Second round: the route is done, and the socket task may go on.
Finish(p) ==
  /\ Begin("finish", p)
  /\ handler' = [handler EXCEPT !.at = "notified"]
  /\ UNCHANGED <<socketVars, netVars, rule, mutex, commands, reported, overlap, fault>>
-----------------------------------------------------------------------------
(* The peers and the ground station *)

PeerSends(p) ==
  /\ sock[p] = "open" /\ peer[p] = "up"
  /\ inbox[p] < MaxSegments
  /\ inbox' = [inbox EXCEPT ![p] = @ + 1]
  /\ UNCHANGED <<socketVars, peer, rule, mutex, handler, queue, commands, reported, overlap, fault>>

PeerCloses(p) ==
  /\ sock[p] = "open" /\ peer[p] = "up"
  /\ \/ peer' = [peer EXCEPT ![p] = "closed"]
     \/ "reset" \in Faults /\ peer' = [peer EXCEPT ![p] = "reset"]
  /\ UNCHANGED <<socketVars, inbox, rule, mutex, handler, queue, commands, reported, overlap,
                 fault>>

Command(c) ==
  /\ commands < MaxCommands
  /\ commands' = commands + 1
  /\ queue' = Append(queue, c)
  /\ UNCHANGED <<socketVars, netVars, rule, mutex, handler, reported, overlap, fault>>

SocketTask ==
  \/ \E c \in Clients : Accept(c)
  \/ Accepted
  \/ \E p \in Peers : Receive(p)
  \/ ReceiveAgain
  \/ \E p \in Peers : Lost(p)
  \/ DisconnectLost
  \/ \E p \in Peers : LostForGood(p)

WorkQueueTask ==
  \/ OpenTcp
  \/ CloseTcp
  \/ \E p \in Peers : Disconnect(p)
  \/ \E h \in Hosts : Connect(h)
  \/ \E kind \in Events, p \in Peers : TcpEvent(kind, p)
  \/ Report
  \/ \E p \in Peers : Received(p)
  \/ \E p \in Peers : Finish(p)

Environment ==
  \/ AcceptFails
  \/ \E p \in Peers : PeerSends(p)
  \/ \E p \in Peers : PeerCloses(p)
  \/ \E c \in Commands : Command(c)

Step(A) == fault = None /\ A

Next == Step(SocketTask) \/ Step(WorkQueueTask) \/ Step(Environment)

Spec == Init /\ [][Next]_vars

\* Both threads go on while they can.
FairSpec == Spec /\ WF_vars(Step(SocketTask)) /\ WF_vars(Step(WorkQueueTask))
-----------------------------------------------------------------------------
(* Properties *)

\* tcpAsyncReceiveFrom is started again after every segment: the socket task waits for the next
\* one on each connection in the table, unless it is just handling one, or the connection has
\* broken.
EveryConnectionIsServed ==
  \A p \in Peers : Found(p) => rx[p] \/ handler.peer = p

\* With CONFIG_SOCKET_SERVER_CLOSE_CLI_DISCONNECT closeTcp leaves no connection that a client has
\* made, and OPEN and CLOSE keep the routing rule together with the acceptor: a closed port takes
\* nobody and forwards nothing.  Only broken connections stay, and a client that was being
\* accepted, whose handler then uses the acceptor that is gone.
ClosedPortIsEmpty ==
  /\ rule <=> listening
  /\ ~listening /\ fault # "useAfterFree" => \A c \in Clients : ~Found(c)

\* The handlers' references to sockets and acceptors outlive the handlers, unless CLOSE or
\* DISCONNECT was carried out while one was under way: the socket task removes a connection only
\* itself, at the end of a handler (Api.cpp:301-356).
SocketsOutliveHandlers == fault = "useAfterFree" => overlap

Blocked == fault # None \/ mutex = "held"

\* Whoever has been accepted is announced to the ground station, and whoever is lost is reported
\* lost, even when the connection has been removed by then.  (The report may be garbled.)
EventsAreReported ==
  \A p \in Peers :
    /\ handler = At("accepted", p) ~>
         Blocked \/ \E r \in reported : r.kind = "reportConnected" /\ r.peer = p
    /\ handler = At("lost", p) ~>
         Blocked \/ \E r \in reported : r.kind = "reportDisconnected" /\ r.peer = p

(* Expected of this code and not kept by it: see README.md. *)

\* An event carries the endpoint of its connection.
ReportsAreSound == \A r \in reported : ~r.garbled

\* The ground station hears of a connection before it gets its data.
AnnouncedBeforeData ==
  \A r \in reported :
    r.kind = "data" => \E q \in reported : q.kind = "reportConnected" /\ q.peer = r.peer

\* Whoever leaves is reported.
NobodyIsLostSilently == \A p \in Peers : sock[p] = "open" => rx[p] \/ handler.peer = p
=============================================================================
