--------------------------- MODULE TcpServerProofs ---------------------------
(***************************************************************************)
(* Theorems about TcpServer, for any number of clients, hosts, commands    *)
(* and segments, and whichever of the faults happen.                       *)
(***************************************************************************)
EXTENDS TcpServer, TLAPS

(* The inductive invariant. *)

\* Who the handler is about, by where it is.
HandlerIsOfItsPeer ==
  /\ IF handler.at \in {"poll", "stuck"} THEN handler.peer = None ELSE handler.peer \in Peers
  /\ handler.at = "accepted" => handler.peer \in Clients /\ sock[handler.peer] = "none"

\* What a handler refers to is gone only after an overlapping command; a socket is then erased,
\* and stays so; an acceptor is there otherwise.
StaleIsKnown ==
  /\ handler.stale => overlap
  /\ handler.stale /\ handler.at \in {"notifying", "notified"} => sock[handler.peer] = "erased"
  /\ handler.at = "accepted" /\ ~handler.stale => listening

ServerInv ==
  /\ TypeOK
  /\ HandlerIsOfItsPeer
  /\ StaleIsKnown
  /\ EveryConnectionIsServed
  /\ ClosedPortIsEmpty
  /\ SocketsOutliveHandlers
-----------------------------------------------------------------------------
(* The queue and its one notification *)

Notifying(t) == t.kind \in {"received", "finish"}

\* A task that is no notification leaves the number of notifications as it is ...
LEMMA AppendOther ==
  ASSUME NEW q \in Seq(Tasks), NEW t \in Tasks, NEW w \in BOOLEAN,
         NotifiesOnce(q, w), ~Notifying(t)
  PROVE  Append(q, t) \in Seq(Tasks) /\ NotifiesOnce(Append(q, t), w)
<1>1. /\ Append(q, t) \in Seq(Tasks)
      /\ DOMAIN Append(q, t) = 1..(Len(q) + 1) /\ DOMAIN q = 1..Len(q) /\ Len(q) \in Nat
      /\ \A i \in 1..Len(q) : Append(q, t)[i] = q[i]
      /\ Append(q, t)[Len(q) + 1] = t
  OBVIOUS
<1>2. Notifications(Append(q, t)) = Notifications(q)
  BY <1>1 DEF Notifications, Notifying
<1>3. QED  BY <1>1, <1>2 DEF NotifiesOnce

\* ... and a notification is the only one where there was none.
LEMMA AppendNotification ==
  ASSUME NEW q \in Seq(Tasks), NEW t \in Tasks, NotifiesOnce(q, FALSE), Notifying(t)
  PROVE  Append(q, t) \in Seq(Tasks) /\ NotifiesOnce(Append(q, t), TRUE)
<1>1. /\ Append(q, t) \in Seq(Tasks)
      /\ DOMAIN Append(q, t) = 1..(Len(q) + 1) /\ DOMAIN q = 1..Len(q) /\ Len(q) \in Nat
      /\ \A i \in 1..Len(q) : Append(q, t)[i] = q[i]
      /\ Append(q, t)[Len(q) + 1] = t
  OBVIOUS
<1>2. Notifications(Append(q, t)) = {Len(q) + 1}
  BY <1>1 DEF Notifications, Notifying, NotifiesOnce
<1>3. Len(q) + 1 \in DOMAIN Append(q, t)
  BY <1>1
<1>4. QED  BY <1>1, <1>2, <1>3 DEF NotifiesOnce

\* What is queued behind the first task moves up by one place.
LEMMA TailFacts ==
  ASSUME NEW q \in Seq(Tasks), q # <<>>
  PROVE  /\ Tail(q) \in Seq(Tasks) /\ Head(q) \in Tasks
         /\ \A i : i \in Notifications(Tail(q)) <=> i + 1 \in Notifications(q) /\ i \in DOMAIN Tail(q)
         /\ \A i \in DOMAIN q : i = 1 \/ i - 1 \in DOMAIN Tail(q)
         /\ 1 \in Notifications(q) <=> Notifying(Head(q))
         /\ DOMAIN q = 1..Len(q) /\ DOMAIN Tail(q) = 1..(Len(q) - 1) /\ Len(q) \in Nat \ {0}
<1>1. /\ Tail(q) \in Seq(Tasks) /\ Head(q) \in Tasks /\ Head(q) = q[1]
      /\ DOMAIN q = 1..Len(q) /\ DOMAIN Tail(q) = 1..(Len(q) - 1) /\ Len(q) \in Nat \ {0}
      /\ \A i \in 1..(Len(q) - 1) : Tail(q)[i] = q[i + 1]
  OBVIOUS
<1>2. QED  BY <1>1 DEF Notifications, Notifying

\* Beginning a task that is no notification leaves the one that is waited for ...
LEMMA TailOther ==
  ASSUME NEW q \in Seq(Tasks), q # <<>>, NEW w \in BOOLEAN,
         NotifiesOnce(q, w), ~Notifying(Head(q))
  PROVE  Tail(q) \in Seq(Tasks) /\ NotifiesOnce(Tail(q), w)
<1>1. CASE w
  <2>1. PICK i \in DOMAIN q : Notifications(q) = {i}
    BY <1>1 DEF NotifiesOnce
  <2>2. i - 1 \in DOMAIN Tail(q) /\ i \in Nat
    BY <2>1, TailFacts
  <2>3. Notifications(Tail(q)) = {i - 1}
    BY <2>1, <2>2, TailFacts DEF Notifications
  <2>4. QED  BY <1>1, <2>2, <2>3, TailFacts DEF NotifiesOnce
<1>2. CASE ~w
  <2>1. Notifications(Tail(q)) = {}
    BY <1>2, TailFacts DEF NotifiesOnce
  <2>2. QED  BY <1>2, <2>1, TailFacts DEF NotifiesOnce
<1>3. QED  BY <1>1, <1>2

\* ... and the notification that is begun was the only one.
LEMMA TailNotification ==
  ASSUME NEW q \in Seq(Tasks), q # <<>>, NotifiesOnce(q, TRUE), Notifying(Head(q))
  PROVE  Tail(q) \in Seq(Tasks) /\ NotifiesOnce(Tail(q), FALSE)
<1>1. Notifications(q) = {1}
  BY TailFacts DEF NotifiesOnce
<1>2. Notifications(Tail(q)) = {}
  <2>1. ASSUME NEW i, i \in Notifications(Tail(q)) PROVE FALSE
    BY <1>1, <2>1, TailFacts
  <2>2. QED  BY <2>1
<1>3. QED  BY <1>2, TailFacts DEF NotifiesOnce
-----------------------------------------------------------------------------
(* Each step *)

USE ServerAssumption
USE DEF Peers, Idle, At, Found, HandlerIsOfItsPeer, StaleIsKnown, EveryConnectionIsServed,
        ClosedPortIsEmpty, SocketsOutliveHandlers

\* The invariant holds at boot.
LEMMA InitHolds == Init => ServerInv
<1>1. <<>> \in Seq(Tasks) /\ NotifiesOnce(<<>>, FALSE)
  BY DEF NotifiesOnce, Notifications
<1>2. SUFFICES ASSUME Init PROVE ServerInv
  OBVIOUS
<1>3. (handler.at = "notifying") = FALSE
  BY <1>2 DEF Init
<1>4. 0 \in 0..MaxSegments /\ 0 \in 0..MaxCommands
  OBVIOUS
<1>5. TypeOK
  BY <1>1, <1>2, <1>3, <1>4 DEF Init, TypeOK, Points
<1>6. \A p \in Peers : sock[p] = "none"
  BY <1>2 DEF Init
<1>7. QED  BY <1>2, <1>5, <1>6 DEF Init, ServerInv, None

\* What handlers and events push are tasks.
LEMMA TaskIsTask ==
  /\ \A p \in Peers : /\ Task("connected", p) \in Tasks /\ Task("disconnected", p) \in Tasks
                      /\ Task("received", p) \in Tasks /\ Task("finish", p) \in Tasks
  /\ \A p \in Peers, kind \in Reports, garbled \in BOOLEAN :
       [kind |-> kind, peer |-> p, garbled |-> garbled] \in Tasks
BY DEF Task, Tasks, Events, Reports

\* The completion handlers, cut where they push, and where they take the mutex
LEMMA AcceptPreserves ==
  ASSUME ServerInv, NEW c \in Clients, Accept(c)  PROVE ServerInv'
<1>1. queue' \in Seq(Tasks) /\ NotifiesOnce(queue', FALSE)
  <2>1. NotifiesOnce(queue, FALSE) /\ queue \in Seq(Tasks)
    BY DEF ServerInv, TypeOK, Accept
  <2>2. ~Notifying(Task("connected", c))
    BY DEF Notifying, Task
  <2>3. QED  BY <2>1, <2>2, TaskIsTask, AppendOther DEF Accept
<1>2. TypeOK'
  BY <1>1 DEF ServerInv, TypeOK, Accept, Points, socketVars, netVars
<1>3. QED  BY <1>2 DEF ServerInv, TypeOK, Accept, Points, socketVars, netVars

LEMMA AcceptedPreserves ==
  ASSUME ServerInv, Accepted  PROVE ServerInv'
<1>1. /\ NotifiesOnce(queue, FALSE) /\ (handler'.at = "notifying") = FALSE
      /\ sock \in [Peers -> {"none", "open", "erased"}] /\ rx \in [Peers -> BOOLEAN]
  BY DEF ServerInv, TypeOK, Accepted
<1>2. sock' \in [Peers -> {"none", "open", "erased"}] /\ rx' \in [Peers -> BOOLEAN]
  BY <1>1 DEF Accepted
<1>3. TypeOK'
  BY <1>1, <1>2 DEF ServerInv, TypeOK, Accepted, Points, netVars
<1>4. QED  BY <1>1, <1>3 DEF ServerInv, TypeOK, Accepted, Points, netVars

LEMMA AcceptFailsPreserves ==
  ASSUME ServerInv, AcceptFails  PROVE ServerInv'
<1>1. TypeOK'
  BY DEF ServerInv, TypeOK, AcceptFails, Points, socketVars, netVars
<1>2. QED  BY <1>1 DEF ServerInv, TypeOK, AcceptFails, Points, socketVars, netVars

LEMMA ReceivePreserves ==
  ASSUME ServerInv, NEW p \in Peers, Receive(p)  PROVE ServerInv'
<1>1. queue' \in Seq(Tasks) /\ NotifiesOnce(queue', TRUE)
  <2>1. NotifiesOnce(queue, FALSE) /\ queue \in Seq(Tasks)
    BY DEF ServerInv, TypeOK, Receive
  <2>2. Notifying(Task("received", p))
    BY DEF Notifying, Task
  <2>3. QED  BY <2>1, <2>2, TaskIsTask, AppendNotification DEF Receive
<1>2. TypeOK'
  <2>1. inbox[p] \in 0..MaxSegments /\ inbox[p] > 0
    BY DEF ServerInv, TypeOK, Receive
  <2>2. inbox[p] - 1 \in 0..MaxSegments
    BY <2>1
  <2>3. inbox' \in [Peers -> 0..MaxSegments]
    BY <2>2 DEF ServerInv, TypeOK, Receive
  <2>4. QED  BY <1>1, <2>3 DEF ServerInv, TypeOK, Receive, Points
<1>3. QED  BY <1>2 DEF ServerInv, TypeOK, Receive, Points

LEMMA ReceiveAgainPreserves ==
  ASSUME ServerInv, ReceiveAgain  PROVE ServerInv'
<1>1. TypeOK'
  BY DEF ServerInv, TypeOK, ReceiveAgain, Points, netVars
<1>2. /\ handler.at = "notified"
      /\ handler'.at = "poll" /\ handler'.peer = None /\ ~handler'.stale
      /\ UNCHANGED <<listening, deadAcceptor, sock, netVars, rule, queue, overlap>>
  BY DEF ReceiveAgain
<1>3. handler.stale => overlap /\ sock[handler.peer] = "erased"
  BY <1>2 DEF ServerInv
<1>4. HandlerIsOfItsPeer' /\ StaleIsKnown' /\ ClosedPortIsEmpty'
  BY <1>2 DEF ServerInv, ReceiveAgain, netVars
<1>5. SocketsOutliveHandlers'
  BY <1>2, <1>3 DEF ServerInv, ReceiveAgain
<1>6. EveryConnectionIsServed'
  <2>1. CASE handler.stale
    BY <1>2, <1>3, <2>1 DEF ServerInv, ReceiveAgain, netVars
  <2>2. CASE ~handler.stale
    BY <1>2, <2>2 DEF ServerInv, TypeOK, ReceiveAgain, netVars
  <2>3. QED  BY <2>1, <2>2
<1>7. QED  BY <1>1, <1>4, <1>5, <1>6 DEF ServerInv

LEMMA LostPreserves ==
  ASSUME ServerInv, NEW p \in Peers, Lost(p)  PROVE ServerInv'
<1>1. queue' \in Seq(Tasks) /\ NotifiesOnce(queue', FALSE)
  <2>1. NotifiesOnce(queue, FALSE) /\ queue \in Seq(Tasks)
    BY DEF ServerInv, TypeOK, Lost
  <2>2. ~Notifying(Task("disconnected", p))
    BY DEF Notifying, Task
  <2>3. QED  BY <2>1, <2>2, TaskIsTask, AppendOther DEF Lost
<1>2. TypeOK'
  BY <1>1 DEF ServerInv, TypeOK, Lost, Points, netVars
<1>3. QED  BY <1>2 DEF ServerInv, TypeOK, Lost, Points, netVars

LEMMA DisconnectLostPreserves ==
  ASSUME ServerInv, DisconnectLost  PROVE ServerInv'
<1>1. TypeOK'
  BY DEF ServerInv, TypeOK, DisconnectLost, Points, netVars
<1>2. QED  BY <1>1 DEF ServerInv, TypeOK, DisconnectLost, Points, netVars

LEMMA LostForGoodPreserves ==
  ASSUME ServerInv, NEW p \in Peers, LostForGood(p)  PROVE ServerInv'
<1>1. TypeOK'
  BY DEF ServerInv, TypeOK, LostForGood, Points, netVars
<1>2. QED  BY <1>1 DEF ServerInv, TypeOK, LostForGood, Points, netVars
-----------------------------------------------------------------------------
\* Taking a task that is no notification off the queue keeps the one there may be.
\* A task that begins is the first one, and the rest stays queued.
LEMMA Begins ==
  ASSUME ServerInv, queue # <<>>, ~Notifying(Head(queue))
  PROVE  Tail(queue) \in Seq(Tasks) /\ NotifiesOnce(Tail(queue), handler.at = "notifying")
BY TailOther DEF ServerInv, TypeOK

\* The ground station's commands
LEMMA OpenPreserves ==
  ASSUME ServerInv, fault = None, OpenTcp  PROVE ServerInv'
<1>1. queue' \in Seq(Tasks) /\ NotifiesOnce(queue', handler.at = "notifying")
  BY Begins DEF OpenTcp, Begin, Notifying
<1>2. handler' = handler
  BY DEF OpenTcp, MeetsDeadAcceptor
<1>3. TypeOK'
  BY <1>1, <1>2 DEF ServerInv, TypeOK, OpenTcp, MeetsDeadAcceptor, socketVars, netVars
<1>4. QED
  BY <1>2, <1>3 DEF ServerInv, TypeOK, OpenTcp, MeetsDeadAcceptor, socketVars, netVars, None

\* Erasing keeps the types of the table.
LEMMA EraseType ==
  ASSUME ServerInv, NEW gone, gone \subseteq Peers, Erase(gone)
  PROVE  /\ sock' \in [Peers -> {"none", "open", "erased"}] /\ rx' \in [Peers -> BOOLEAN]
         /\ \A p \in Peers : /\ p \in gone => sock'[p] = "erased"
                             /\ p \notin gone => sock'[p] = sock[p] /\ rx'[p] = rx[p]
BY DEF ServerInv, TypeOK, Erase

LEMMA ClosePreserves ==
  ASSUME ServerInv, fault = None, CloseTcp  PROVE ServerInv'
<1>1. queue' \in Seq(Tasks) /\ NotifiesOnce(queue', handler.at = "notifying")
  BY Begins DEF CloseTcp, Begin, Notifying
<1>2. CASE MeetsDeadAcceptor
  <2>1. TypeOK'
    BY <1>1, <1>2 DEF ServerInv, TypeOK, MeetsDeadAcceptor, socketVars, netVars
  <2>2. QED
    BY <1>2, <2>1 DEF ServerInv, TypeOK, MeetsDeadAcceptor, socketVars, netVars, None
<1>3. CASE ~MeetsDeadAcceptor
  <2> DEFINE gone == {c \in Clients : Found(c)}
  <2>1. /\ Erase(gone)
        /\ listening' = FALSE /\ rule' = FALSE
        /\ handler' = [handler EXCEPT !.stale = @ \/ handler.peer \in gone
                                                  \/ (handler.at = "accepted" /\ listening)]
        /\ overlap' = (overlap \/ handler.at \in Handling)
        /\ UNCHANGED <<deadAcceptor, netVars, mutex, commands, reported, fault>>
    BY <1>3 DEF CloseTcp
  <2> HIDE DEF gone
  <2>2. gone = {c \in Clients : Found(c)} /\ gone \subseteq Peers
    BY DEF gone
  <2>3. handler \in [at : Points, peer : Peers \cup {None}, stale : BOOLEAN]
    BY DEF ServerInv, TypeOK
  <2>4. /\ handler'.at = handler.at /\ handler'.peer = handler.peer
        /\ handler'.stale = (handler.stale \/ handler.peer \in gone
                                           \/ (handler.at = "accepted" /\ listening))
        /\ handler' \in [at : Points, peer : Peers \cup {None}, stale : BOOLEAN]
    BY <2>1, <2>3 DEF ServerInv, TypeOK
  <2>5. TypeOK'
    BY <1>1, <2>1, <2>2, <2>4, EraseType DEF ServerInv, TypeOK, netVars
  <2>6. StaleIsKnown'
    <3>1. ASSUME handler'.stale, ~handler.stale PROVE handler.at \in Handling
      BY <2>2, <2>3, <2>4, <3>1 DEF ServerInv, Handling, Points, None
    <3>2. handler'.stale => overlap'
      BY <2>1, <2>4, <3>1 DEF ServerInv
    <3>3. ASSUME handler'.stale, handler'.at \in {"notifying", "notified"}
          PROVE  sock'[handler'.peer] = "erased"
      <4>1. sock[handler.peer] = "erased" \/ handler.peer \in gone
        BY <2>4, <3>3 DEF ServerInv
      <4>2. handler.peer \in Peers
        BY <2>4, <3>3 DEF ServerInv
      <4>3. QED  BY <2>1, <2>2, <2>4, <4>1, <4>2, EraseType
    <3>4. handler'.at = "accepted" => handler'.stale
      BY <2>1, <2>4 DEF ServerInv
    <3>5. QED  BY <3>2, <3>3, <3>4
  <2>7. HandlerIsOfItsPeer'
    BY <2>1, <2>2, <2>4, EraseType DEF ServerInv, TypeOK
  <2>8. EveryConnectionIsServed' /\ ClosedPortIsEmpty'
    BY <2>1, <2>2, <2>4, EraseType DEF ServerInv, TypeOK, netVars, None
  <2>9. SocketsOutliveHandlers'
    BY <2>1 DEF ServerInv
  <2>10. QED  BY <2>5, <2>6, <2>7, <2>8, <2>9 DEF ServerInv
<1>4. QED  BY <1>2, <1>3

LEMMA DisconnectPreserves ==
  ASSUME ServerInv, NEW p \in Peers, Disconnect(p)  PROVE ServerInv'
<1>1. queue' \in Seq(Tasks) /\ NotifiesOnce(queue', handler.at = "notifying")
  BY Begins DEF Disconnect, Begin, Notifying
<1>2. CASE Found(p)
  <2>1. /\ Erase({p})
        /\ handler' = [handler EXCEPT !.stale = @ \/ handler.peer = p]
        /\ overlap' = (overlap \/ handler.at \in Handling)
        /\ UNCHANGED <<listening, deadAcceptor, netVars, rule, mutex, commands, reported, fault>>
    BY <1>2 DEF Disconnect
  <2>2. handler \in [at : Points, peer : Peers \cup {None}, stale : BOOLEAN]
    BY DEF ServerInv, TypeOK
  <2>3. /\ handler'.at = handler.at /\ handler'.peer = handler.peer
        /\ handler'.stale = (handler.stale \/ handler.peer = p)
        /\ handler' \in [at : Points, peer : Peers \cup {None}, stale : BOOLEAN]
    BY <2>1, <2>2
  <2>4. {p} \subseteq Peers
    OBVIOUS
  <2>5. TypeOK'
    BY <1>1, <2>1, <2>3, <2>4, EraseType DEF ServerInv, TypeOK, netVars
  <2>6. StaleIsKnown' /\ HandlerIsOfItsPeer'
    BY <1>2, <2>1, <2>2, <2>3, <2>4, EraseType DEF ServerInv, TypeOK, Handling, Points
  <2>7. EveryConnectionIsServed' /\ ClosedPortIsEmpty' /\ SocketsOutliveHandlers'
    BY <2>1, <2>3, <2>4, EraseType DEF ServerInv, TypeOK, netVars
  <2>8. QED  BY <2>5, <2>6, <2>7 DEF ServerInv
<1>3. CASE ~Found(p)
  <2>1. TypeOK'
    BY <1>1, <1>3 DEF ServerInv, TypeOK, Disconnect, netVars
  <2>2. QED  BY <1>3, <2>1 DEF ServerInv, TypeOK, Disconnect, netVars
<1>4. QED  BY <1>2, <1>3

LEMMA ConnectPreserves ==
  ASSUME ServerInv, NEW h \in Hosts, Connect(h)  PROVE ServerInv'
<1>1. queue' \in Seq(Tasks) /\ NotifiesOnce(queue', handler.at = "notifying")
  BY Begins DEF Connect, Begin, Notifying
<1>2. handler' = handler
  BY DEF Connect
<1>3. CASE UNCHANGED <<sock, rx>>
  <2>1. TypeOK'
    BY <1>1, <1>2, <1>3 DEF ServerInv, TypeOK, Connect, netVars
  <2>2. QED  BY <1>2, <1>3, <2>1 DEF ServerInv, Connect, netVars
<1>4. CASE ~UNCHANGED <<sock, rx>>
  <2>1. /\ sock[h] = "none"
        /\ sock' = [sock EXCEPT ![h] = "open"]
        /\ rx' = [rx EXCEPT ![h] = TRUE]
        /\ sock \in [Peers -> {"none", "open", "erased"}] /\ rx \in [Peers -> BOOLEAN]
    BY <1>4 DEF Connect, ServerInv, TypeOK
  <2>2. sock' \in [Peers -> {"none", "open", "erased"}] /\ rx' \in [Peers -> BOOLEAN]
    BY <2>1
  <2>3. TypeOK'
    BY <1>1, <1>2, <2>2 DEF ServerInv, TypeOK, Connect, netVars
  <2>4. HandlerIsOfItsPeer' /\ StaleIsKnown'
    BY <1>2, <2>1 DEF ServerInv, TypeOK, Connect
  <2>5. EveryConnectionIsServed' /\ ClosedPortIsEmpty' /\ SocketsOutliveHandlers'
    BY <1>2, <2>1 DEF ServerInv, Connect, netVars
  <2>6. QED  BY <2>3, <2>4, <2>5 DEF ServerInv
<1>5. QED  BY <1>3, <1>4

\* Notifications: events, and the two rounds of received data
LEMMA TcpEventPreserves ==
  ASSUME ServerInv, NEW kind \in Events, NEW p \in Peers, TcpEvent(kind, p)  PROVE ServerInv'
<1>1. PICK garbled \in BOOLEAN :
        queue' = Append(Tail(queue), [kind |-> ReportOf(kind), peer |-> p, garbled |-> garbled])
  BY DEF TcpEvent
<1>2. Tail(queue) \in Seq(Tasks) /\ NotifiesOnce(Tail(queue), handler.at = "notifying")
  BY Begins DEF TcpEvent, Task, Notifying, Events
<1>3. ReportOf(kind) \in Reports
  BY DEF ReportOf, Reports
<1>4. /\ [kind |-> ReportOf(kind), peer |-> p, garbled |-> garbled] \in Tasks
      /\ ~Notifying([kind |-> ReportOf(kind), peer |-> p, garbled |-> garbled])
  BY <1>3, TaskIsTask DEF Notifying, Reports
<1>5. queue' \in Seq(Tasks) /\ NotifiesOnce(queue', handler.at = "notifying")
  BY <1>1, <1>2, <1>4, AppendOther
<1>6. TypeOK'
  BY <1>5 DEF ServerInv, TypeOK, TcpEvent, socketVars, netVars
<1>7. QED  BY <1>6 DEF ServerInv, TypeOK, TcpEvent, socketVars, netVars

LEMMA ReportPreserves ==
  ASSUME ServerInv, Report  PROVE ServerInv'
<1>1. queue' \in Seq(Tasks) /\ NotifiesOnce(queue', handler.at = "notifying")
  BY Begins DEF Report, Notifying, Reports
<1>2. Head(queue) \in [kind : Reports \cup {"data"}, peer : Peers, garbled : BOOLEAN]
  <2>1. Head(queue) \in Tasks /\ Head(queue).kind \in Reports
    BY TailFacts DEF ServerInv, TypeOK, Report
  <2>2. QED  BY <2>1 DEF Tasks, Commands, Events, Reports
<1>3. reported' \subseteq [kind : Reports \cup {"data"}, peer : Peers, garbled : BOOLEAN]
  <2>1. reported' = reported \cup {Head(queue)}
    BY DEF Report
  <2>2. reported \subseteq [kind : Reports \cup {"data"}, peer : Peers, garbled : BOOLEAN]
    BY DEF ServerInv, TypeOK
  <2>3. QED  BY <1>2, <2>1, <2>2
<1>4. UNCHANGED <<socketVars, netVars, rule, mutex, handler, commands, overlap, fault>>
  BY DEF Report
<1>5. TypeOK'
  BY <1>1, <1>3, <1>4 DEF ServerInv, TypeOK, socketVars, netVars
<1>6. QED  BY <1>4, <1>5 DEF ServerInv, socketVars, netVars

LEMMA ReceivedPreserves ==
  ASSUME ServerInv, NEW p \in Peers, Received(p)  PROVE ServerInv'
<1>1. Notifying(Head(queue)) /\ Notifying(Task("finish", p)) /\ queue \in Seq(Tasks)
  BY DEF Received, Task, Notifying, ServerInv, TypeOK
<1>2. handler.at = "notifying" /\ NotifiesOnce(queue, TRUE)
  BY <1>1, TailFacts DEF ServerInv, TypeOK, Received, NotifiesOnce
<1>3. Tail(queue) \in Seq(Tasks) /\ NotifiesOnce(Tail(queue), FALSE)
  BY <1>1, <1>2, TailNotification DEF Received
<1>4. queue' \in Seq(Tasks) /\ NotifiesOnce(queue', TRUE)
  BY <1>1, <1>3, TaskIsTask, AppendNotification DEF Received
<1>5. reported' \subseteq [kind : Reports \cup {"data"}, peer : Peers, garbled : BOOLEAN]
  <2>1. Task("data", p) \in [kind : Reports \cup {"data"}, peer : Peers, garbled : BOOLEAN]
    BY DEF Task
  <2>2. /\ reported \subseteq [kind : Reports \cup {"data"}, peer : Peers, garbled : BOOLEAN]
        /\ reported' \subseteq reported \cup {Task("data", p)}
    BY DEF ServerInv, TypeOK, Received
  <2>3. QED  BY <2>1, <2>2
<1>6. TypeOK'
  BY <1>2, <1>4, <1>5 DEF ServerInv, TypeOK, Received, socketVars, netVars
<1>7. QED  BY <1>6 DEF ServerInv, TypeOK, Received, socketVars, netVars

LEMMA FinishPreserves ==
  ASSUME ServerInv, NEW p \in Peers, Finish(p)  PROVE ServerInv'
<1>1. Notifying(Head(queue)) /\ queue \in Seq(Tasks)
  BY DEF Finish, Begin, Notifying, ServerInv, TypeOK
<1>2. handler.at = "notifying" /\ NotifiesOnce(queue, TRUE)
  BY <1>1, TailFacts DEF ServerInv, TypeOK, Finish, Begin, NotifiesOnce
<1>3. queue' \in Seq(Tasks) /\ NotifiesOnce(queue', FALSE)
  BY <1>1, <1>2, TailNotification DEF Finish, Begin
<1>4. TypeOK'
  BY <1>3 DEF ServerInv, TypeOK, Finish, Points, socketVars, netVars
<1>5. QED  BY <1>2, <1>4 DEF ServerInv, TypeOK, Finish, Points, socketVars, netVars
-----------------------------------------------------------------------------
\* The environment
LEMMA PeerSendsPreserves ==
  ASSUME ServerInv, NEW p \in Peers, PeerSends(p)  PROVE ServerInv'
<1>1. inbox' \in [Peers -> 0..MaxSegments]
  <2>1. inbox[p] \in 0..MaxSegments /\ inbox[p] < MaxSegments
    BY DEF ServerInv, TypeOK, PeerSends
  <2>2. inbox[p] + 1 \in 0..MaxSegments
    BY <2>1
  <2>3. QED  BY <2>2 DEF ServerInv, TypeOK, PeerSends
<1>2. TypeOK'
  BY <1>1 DEF ServerInv, TypeOK, PeerSends, socketVars
<1>3. QED  BY <1>2 DEF ServerInv, PeerSends, socketVars

LEMMA PeerClosesPreserves ==
  ASSUME ServerInv, NEW p \in Peers, PeerCloses(p)  PROVE ServerInv'
<1>1. TypeOK'
  <2>1. peer' \in [Peers -> {"up", "closed", "reset"}]
    BY DEF ServerInv, TypeOK, PeerCloses
  <2>2. QED  BY <2>1 DEF ServerInv, TypeOK, PeerCloses, socketVars
<1>2. \A q \in Peers : Found(q)' => Found(q)
  BY DEF ServerInv, TypeOK, PeerCloses, socketVars
<1>3. QED  BY <1>1, <1>2 DEF ServerInv, PeerCloses, socketVars

LEMMA CommandPreserves ==
  ASSUME ServerInv, NEW c \in Commands, Command(c)  PROVE ServerInv'
<1>1. c \in Tasks /\ ~Notifying(c)
  BY DEF Tasks, Commands, Notifying
<1>2. queue' \in Seq(Tasks) /\ NotifiesOnce(queue', handler.at = "notifying")
  BY <1>1, AppendOther DEF Command, ServerInv, TypeOK
<1>3. commands' \in 0..MaxCommands
  BY DEF ServerInv, TypeOK, Command
<1>4. TypeOK'
  BY <1>2, <1>3 DEF ServerInv, TypeOK, Command, socketVars, netVars
<1>5. QED  BY <1>4 DEF ServerInv, Command, socketVars, netVars

\* Every step preserves the invariant ...
LEMMA NextPreserves == ServerInv /\ [Next]_vars => ServerInv'
<1>1. ASSUME ServerInv, SocketTask PROVE ServerInv'
  BY <1>1, AcceptPreserves, AcceptedPreserves, ReceivePreserves, ReceiveAgainPreserves,
     LostPreserves, DisconnectLostPreserves, LostForGoodPreserves DEF SocketTask
<1>2. ASSUME ServerInv, fault = None, WorkQueueTask PROVE ServerInv'
  BY <1>2, OpenPreserves, ClosePreserves, DisconnectPreserves, ConnectPreserves,
     TcpEventPreserves, ReportPreserves, ReceivedPreserves, FinishPreserves DEF WorkQueueTask
<1>3. ASSUME ServerInv, Environment PROVE ServerInv'
  BY <1>3, AcceptFailsPreserves, PeerSendsPreserves, PeerClosesPreserves, CommandPreserves
     DEF Environment
<1>4. ASSUME ServerInv, UNCHANGED vars PROVE ServerInv'
  <2>1. TypeOK'
    BY <1>4 DEF ServerInv, TypeOK, vars, socketVars, netVars
  <2>2. QED  BY <1>4, <2>1 DEF ServerInv, vars, socketVars, netVars
<1>5. QED  BY <1>1, <1>2, <1>3, <1>4 DEF Next, Step

\* ... which holds for good.
LEMMA ServerInvHolds == Spec => []ServerInv
<1>1. QED  BY InitHolds, NextPreserves, PTL DEF Spec

\* For every set of peers and every bound: the types hold, and the socket task never has more
\* than the one notification it waits for in the work queue (Receiver.cpp:43-78).
THEOREM TypeCorrect == Spec => []TypeOK
<1>1. ServerInv => TypeOK
  BY DEF ServerInv
<1>2. QED  BY <1>1, ServerInvHolds, PTL

\* tcpAsyncReceiveFrom: no connection that can be read is ever left without a reception, however
\* commands and handlers interleave.
THEOREM ConnectionsAreServed == Spec => []EveryConnectionIsServed
<1>1. ServerInv => EveryConnectionIsServed
  BY DEF ServerInv
<1>2. QED  BY <1>1, ServerInvHolds, PTL

\* openTcp, closeTcp and the rules of GsNetwork: a port that is not listening has no rule and no
\* connection, although an accept may overlap the closing.
THEOREM ClosedPortsAreEmpty == Spec => []ClosedPortIsEmpty
<1>1. ServerInv => ClosedPortIsEmpty
  BY DEF ServerInv
<1>2. QED  BY <1>1, ServerInvHolds, PTL

\* A handler's reference dangles only after a CLOSE or a DISCONNECT has overlapped a handler.
THEOREM SocketsAreThere == Spec => []SocketsOutliveHandlers
<1>1. ServerInv => SocketsOutliveHandlers
  BY DEF ServerInv
<1>2. QED  BY <1>1, ServerInvHolds, PTL
=============================================================================
