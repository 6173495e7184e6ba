------------------------------- MODULE Bridge -------------------------------
(***************************************************************************)
(* The Wi-Fi / UART bridge: the two tasks of the UART and their three      *)
(* buffers, the socket task with its UDP datagrams, the receivers and the  *)
(* rules by which the work queue notifies them, and the MAVLink dispatcher *)
(* with its only parser and its only buffer for what the chip says itself. *)
(*                                                                         *)
(* A message is sent in two pieces.  A chunk of a stream may end between   *)
(* them; a datagram holds whole messages.  What a message asks of the      *)
(* dispatcher is its kind: "foreign" is for somebody else, "request" is    *)
(* answered at once, "quiet" is consumed without an answer, and "alien" is *)
(* a frame that the parser does not take for a message: its id is unknown  *)
(* to the dialect, or its checksum or signature is wrong.                  *)
(***************************************************************************)
EXTENDS Naturals, Sequences, FiniteSets, SequencesExt

CONSTANTS
  Clients,        \* UDP peers of the MAVLink port
  NUart,          \* messages the autopilot sends
  NUdp,           \* messages each client sends
  ClientKinds,    \* kinds of messages the clients send
  MaxRead,        \* pieces one read of the UART returns at most
  MaxOwn          \* messages the chip sends unasked

Kinds == {"foreign", "request", "quiet", "alien"}

ASSUME BridgeAssumption ==
  /\ "uart" \notin Clients
  /\ ClientKinds \subseteq Kinds
  /\ {NUart, NUdp, MaxRead, MaxOwn} \subseteq Nat

VARIABLES
  kinds,      \* [Messages -> Kinds]: what the peers have in mind
  sent,       \* [Peers -> Nat]: pieces a peer has sent
  nFree,      \* free buffers of CircularSwap
  full,       \* what its full buffers hold, in order
  processor,  \* what the buffer that taskProcess holds contains, <<>>: it holds none
  datagram,   \* what the socket task has received last
  queue,      \* jobs of the work queue, in order
  cycle,      \* the notification under way, NoCycle: none
  parser,     \* the message the parser is in, NoMessage, or Mess
  resp,       \* what is packed in resp.buffer
  clientsUdp, \* the clients that are notified
  own,        \* how many messages the chip has sent unasked
  got,        \* history of the cycle: pieces and answers each peer was sent
  due,        \* history of the cycle: the set of those each peer is to be sent
  said,       \* history of the cycle: what was sent from resp.buffer, and was meant to be
  mixed,      \* history of the cycle: has the parser met a piece out of place?
  passed      \* history: [Peers -> Nat]: where in a peer's stream the last cycle ended

peerVars == <<kinds, sent>>
uartVars == <<nFree, full, processor>>
workVars == <<queue, cycle>>
mavVars == <<parser, resp, mixed>>
historyVars == <<got, due, said, passed>>
vars == <<peerVars, uartVars, datagram, workVars, mavVars, clientsUdp, own,
          historyVars>>

Uart == "uart"
Peers == {Uart} \cup Clients
Messages == ({Uart} \X (1..NUart)) \cup (Clients \X (1..NUdp))
NBuffers == 3
MessageOf(p) == <<p[1], p[2]>>
Pieces == {<<m[1], m[2], half>> : m \in Messages, half \in 1..2}

\* The pieces from the (a + 1)-th to the b-th of a peer's stream.
Stream(peer, a, b) ==
  [i \in 1..(b - a) |-> <<peer, (a + i + 1) \div 2, 2 - ((a + i) % 2)>>]

\* Where in its stream a piece is.
Position(p) == 2 * (p[2] - 1) + p[3]

\* An answer to a message, as a peer gets it.
AnswerTo(m) == <<m[1], m[2], 0>>

\* What resp.buffer may hold.
Empty == <<"nothing", "", 0>>
Answer(m) == <<"answer", m[1], m[2]>>
Beat == <<"heartbeat", "", 0>>
Delayed(i) == <<"delayed", "", i>>
Contents == {Empty, Beat} \cup {Answer(m) : m \in Messages} \cup {Delayed(i) : i \in 1..MaxOwn}

NoMessage == <<>>
Mess == <<"mess", 0>>
NoCycle == [owner |-> "nobody"]
NothingSent == [peer \in Peers |-> <<>>]
NothingDue == [peer \in Peers |-> {}]

-----------------------------------------------------------------------------
(* Routing *)

\* The registry keeps its receivers ordered by their endpoints.
Place(receiver) ==
  CASE receiver = "Mavlink" -> 1
    [] receiver = "uart" -> 2
    [] receiver = "udpPort" -> 3
    [] receiver = "udpHook" -> 4

\* <<who sends, who receives, as what the receiver forwards>>
Rules ==
  { <<"uart", "Mavlink", "UartMavlinkForwarded">>,
    <<"UartMavlinkForwarded", "udpPort", "None">>,
    <<"udpPort", "Mavlink", "UdpMavlinkForwarded">>,
    <<"UdpMavlinkForwarded", "uart", "None">>,
    <<"udpPort", "udpHook", "None">>,
    <<"Mavlink", "uart", "None">>,
    <<"Mavlink", "udpPort", "None">> }

Takers(origin) == {rule[2] : rule \in {known \in Rules : known[1] = origin}}

Reduced(origin) == CHOOSE x \in {rule[3] : rule \in Rules} : <<origin, "Mavlink", x>> \in Rules

\* A job of the work queue is a call of notifyAs or of notifyAsAsync.
Owners == {"processor", "socket", "timer", "delayed"}
Job(owner, i) == [owner |-> owner, id |-> i, turn |-> 1]

Origin(owner) ==
  CASE owner = "processor" -> "uart"
    [] owner = "socket" -> "udpPort"
    [] OTHER -> "Mavlink"

\* Buffers are referred to, not copied.
Buffer(owner) == IF owner = "processor" THEN processor ELSE datagram
Source(owner) == IF owner = "processor" THEN Uart ELSE datagram[1][1]

\* The peers that the hooks of these receivers send to.
Reached(receivers) ==
  {Uart : r \in receivers \cap {"uart"}} \cup UNION {clientsUdp : r \in receivers \cap {"udpPort"}}

\* Mutant: the caller goes on when its task begins.
Waits_Queued(owner) == \E i \in 1..Len(queue) : queue[i].owner = owner

\* notifyAs returns once its task has released the semaphore.
Waits(owner) ==
  \/ cycle.owner = owner
  \/ \E i \in 1..Len(queue) : queue[i].owner = owner

Init ==
  /\ kinds \in {k \in [Messages -> Kinds] : \A m \in Messages : m[1] # Uart => k[m] \in ClientKinds}
  /\ sent = [peer \in Peers |-> 0]
  /\ nFree = NBuffers
  /\ full = <<>>
  /\ processor = <<>>
  /\ datagram = <<>>
  /\ queue = <<>>
  /\ cycle = NoCycle
  /\ parser = NoMessage
  /\ resp = Empty
  /\ mixed = FALSE
  /\ clientsUdp = {}
  /\ own = 0
  /\ got = NothingSent
  /\ due = NothingDue
  /\ said = {}
  /\ passed = [peer \in Peers |-> 0]

-----------------------------------------------------------------------------
(* The UART's two tasks *)

\* taskRead takes a free buffer, or else the oldest that waits to be processed
\* ("It's better to trash a stalled buffer than miss a new message"), and reads
\* into it what has come, possibly nothing: the read does not wait.
ReaderReads(k) ==
  /\ sent[Uart] + k <= 2 * NUart
  /\ nFree = 0 => full # <<>>
  /\ LET kept == IF nFree = 0 THEN Tail(full) ELSE full
         left == IF nFree = 0 THEN 0 ELSE nFree - 1
     IN  IF k = 0 THEN full' = kept /\ nFree' = left + 1
         ELSE /\ full' = Append(kept, Stream(Uart, sent[Uart], sent[Uart] + k))
              /\ nFree' = left
  /\ sent' = [sent EXCEPT ![Uart] = @ + k]
  /\ UNCHANGED <<kinds, processor, datagram, workVars, mavVars, clientsUdp, own,
                 historyVars>>

\* Mutant: the newest full buffer is taken.
ProcessorTakes_Newest ==
  /\ processor = <<>>
  /\ full # <<>>
  /\ processor' = Last(full)
  /\ full' = Front(full)
  /\ queue' = Append(queue, Job("processor", 0))
  /\ UNCHANGED <<peerVars, nFree, datagram, cycle, mavVars, clientsUdp, own,
                 historyVars>>

\* taskProcess takes the oldest full buffer and waits in notifyAs.
ProcessorTakes ==
  /\ processor = <<>>
  /\ full # <<>>
  /\ processor' = Head(full)
  /\ full' = Tail(full)
  /\ queue' = Append(queue, Job("processor", 0))
  /\ UNCHANGED <<peerVars, nFree, datagram, cycle, mavVars, clientsUdp, own,
                 historyVars>>

\* The buffer has been processed.
ProcessorReturns ==
  /\ processor # <<>>
  /\ ~Waits("processor")
  /\ nFree' = nFree + 1
  /\ processor' = <<>>
  /\ UNCHANGED <<peerVars, full, datagram, workVars, mavVars, clientsUdp, own,
                 historyVars>>

-----------------------------------------------------------------------------
(* The other threads that notify *)

\* The socket task receives a datagram of n messages and waits in notifyAs; only
\* then does it receive again, into the same buffer.
Receive(client, n) ==
  /\ ~Waits("socket")
  /\ sent[client] + 2 * n <= 2 * NUdp
  /\ datagram' = Stream(client, sent[client], sent[client] + 2 * n)
  /\ sent' = [sent EXCEPT ![client] = @ + 2 * n]
  /\ queue' = Append(queue, Job("socket", 0))
  /\ UNCHANGED <<kinds, uartVars, cycle, mavVars, clientsUdp, own, historyVars>>

\* Camera::onHrTimer, in the task of esp_timer: the dispatcher packs the
\* heartbeat in this task, and then waits in notifyAs.
Heartbeat ==
  /\ ~Waits("timer")
  /\ own < MaxOwn
  /\ own' = own + 1
  /\ resp' = Beat
  /\ queue' = Append(queue, Job("timer", 0))
  /\ UNCHANGED <<peerVars, uartVars, datagram, cycle, parser, mixed, clientsUdp, historyVars>>

\* Mutant: a delayed send is packed when it is pushed.
AsyncSend_PackedAtOnce ==
  /\ own < MaxOwn
  /\ own' = own + 1
  /\ resp' = Delayed(own')
  /\ queue' = Append(queue, Job("delayed", own'))
  /\ UNCHANGED <<peerVars, uartVars, datagram, cycle, parser, mixed, clientsUdp, historyVars>>

\* A delayed send, from any thread and from tasks of the work queue as well.
AsyncSend ==
  /\ own < MaxOwn
  /\ own' = own + 1
  /\ queue' = Append(queue, Job("delayed", own'))
  /\ UNCHANGED <<peerVars, uartVars, datagram, cycle, mavVars, clientsUdp, historyVars>>

-----------------------------------------------------------------------------
(* The work queue: a job has two turns, the notification and its end *)

\* Whose message a piece belongs to: the chip's own or another's.
ForChip(p) == kinds[MessageOf(p)] \in {"request", "quiet"}

\* What the history expects of a chunk: the pieces that are not for the chip go
\* to those the rules reach, the answers to the sender.
Expected(chunk, source, reached) ==
  [peer \in Peers |->
     {p \in ToSet(chunk) : peer \in reached /\ ~ForChip(p)}
     \cup {AnswerTo(MessageOf(p)) :
             p \in {q \in ToSet(chunk) : peer = source /\ q[3] = 2 /\ kinds[MessageOf(q)] = "request"}}]

\* The first turn begins.  A delayed send is packed only now.
NotifyBegin ==
  /\ cycle = NoCycle
  /\ queue # <<>>
  /\ LET job == Head(queue)
     IN  /\ job.turn = 1
         /\ cycle' = [owner |-> job.owner, id |-> job.id, todo |-> Takers(Origin(job.owner)),
                      at |-> 0, out |-> <<>>, reply |-> 0]
         /\ resp' = IF job.owner = "delayed" THEN Delayed(job.id) ELSE resp
         /\ due' = IF Origin(job.owner) = "Mavlink" THEN due
                   ELSE Expected(Buffer(job.owner), Source(job.owner),
                                 Reached(Takers(Reduced(Origin(job.owner)))))
  /\ queue' = Tail(queue)
  /\ UNCHANGED <<peerVars, uartVars, datagram, parser, mixed, clientsUdp, own, got, said,
                 passed>>

Chunk == Buffer(cycle.owner)

\* The receiver whose turn it is: the first of the registry's that is left.
At(receiver) ==
  /\ cycle # NoCycle
  /\ receiver \in cycle.todo
  /\ \A r \in cycle.todo : Place(receiver) <= Place(r)

\* All receivers have been notified; the task is pushed back for its second turn.
NotifyEnd ==
  /\ cycle # NoCycle
  /\ cycle.todo = {}
  /\ queue' = Append(queue, [owner |-> cycle.owner, id |-> cycle.id, turn |-> 2])
  /\ cycle' = NoCycle
  /\ passed' = IF Origin(cycle.owner) = "Mavlink" THEN passed
               ELSE [passed EXCEPT ![Source(cycle.owner)] = Position(Last(Chunk))]
  /\ got' = NothingSent
  /\ due' = NothingDue
  /\ said' = {}
  /\ mixed' = FALSE
  /\ UNCHANGED <<peerVars, uartVars, datagram, parser, resp, clientsUdp, own>>

\* Mutant: the route is never done.
Finish_NeverDone ==
  /\ cycle = NoCycle
  /\ queue # <<>>
  /\ Head(queue).turn = 2
  /\ queue' = Append(Tail(queue), Head(queue))
  /\ UNCHANGED <<peerVars, uartVars, datagram, cycle, mavVars, clientsUdp, own, historyVars>>

\* The second turn: the route is done, and the caller, if it waits, goes on.
Finish ==
  /\ cycle = NoCycle
  /\ queue # <<>>
  /\ Head(queue).turn = 2
  /\ queue' = Tail(queue)
  /\ UNCHANGED <<peerVars, uartVars, datagram, cycle, mavVars, clientsUdp, own, historyVars>>

-----------------------------------------------------------------------------
(* The dispatcher *)

\* What is left of the chunk.
Rest == SubSeq(Chunk, cycle.at + 1, Len(Chunk))

InPlace(q, p) == q = (IF p[3] = 1 THEN NoMessage ELSE MessageOf(p))

\* What becomes of a piece.  Out of place it is skipped, or swallowed as the payload of
\* what came before it: the parser waits for a message again, or is in a mess.
Fates == {"parsed", "skipped", "swallowed"}
After(p, fate) ==
  CASE fate = "swallowed" -> Mess
    [] fate = "parsed" /\ p[3] = 1 -> MessageOf(p)
    [] OTHER -> NoMessage

\* Where the parser is before the i-th piece, and whether that piece ends a message
\* that is pushed: a frame that is not MAVLINK_FRAMING_OK is passed over.
Before(chunk, fates, i) == IF i = 1 THEN parser ELSE After(chunk[i - 1], fates[i - 1])
EndsMessage(p) == p[3] = 2 /\ kinds[MessageOf(p)] # "alien"
Completes(chunk, fates, i) == fates[i] = "parsed" /\ EndsMessage(chunk[i])

\* Unmarshalling::push: pieces are parsed until a message is complete, or to the
\* end of the buffer.
Slices(chunk, n) ==
  {fates \in [1..n -> Fates] :
     /\ \A i \in 1..n : (fates[i] = "parsed") <=> InPlace(Before(chunk, fates, i), chunk[i])
     /\ \A i \in 1..(n - 1) : ~Completes(chunk, fates, i)
     /\ n = Len(chunk) \/ Completes(chunk, fates, n)}

Parsings(chunk) ==
  UNION {{[parser |-> After(chunk[n], fates[n]), n |-> n, complete |-> Completes(chunk, fates, n),
           mixed |-> mixed \/ \E i \in 1..n : fates[i] # "parsed"] : fates \in Slices(chunk, n)}
         : n \in 1..Len(chunk)}

\* notifyAsImpl notifies those the forwarded buffer is for: whenever forwardCb
\* has been called in this loop, not only by this slice.
ForwardAfter(out, before) ==
  got' = [peer \in Peers |->
            IF peer \in Reached(Takers(Reduced(Origin(cycle.owner))))
            THEN before[peer] \o out ELSE before[peer]]
Forward(out) == ForwardAfter(out, got)

\* The buffer is sliced, and the dispatcher notified again if anything is left.
Advance(n, out) ==
  IF n = Len(Rest)
  THEN cycle' = [cycle EXCEPT !.todo = @ \ {"Mavlink"}, !.at = 0, !.out = <<>>, !.reply = 0]
  ELSE cycle' = [cycle EXCEPT !.at = @ + n, !.out = out, !.reply = 0]

\* Dispatcher::process has consumed a slice x, complete if it ends a message of
\* this kind.
Process(x, kind) ==
  /\ At("Mavlink")
  /\ cycle.reply = 0
  /\ x.complete => kinds[MessageOf(Rest[x.n])] = kind
  /\ parser' = x.parser
  /\ mixed' = x.mixed

\* Mutant: only whole messages are forwarded.
Ignore_OnlyWhole(x) ==
  /\ Process(x, "foreign")
  /\ Forward(IF x.complete THEN SubSeq(Rest, 1, x.n) ELSE <<>>)
  /\ Advance(x.n, IF x.complete THEN SubSeq(Rest, 1, x.n) ELSE <<>>)
  /\ UNCHANGED <<peerVars, uartVars, datagram, queue, resp, clientsUdp, own, due, said,
                 passed>>

\* No message, or one that no microservice handles: the slice is forwarded.
Ignore(x) ==
  /\ Process(x, "foreign")
  /\ Forward(SubSeq(Rest, 1, x.n))
  /\ Advance(x.n, SubSeq(Rest, 1, x.n))
  /\ UNCHANGED <<peerVars, uartVars, datagram, queue, resp, clientsUdp, own, due, said,
                 passed>>

Consume(x) ==
  /\ Process(x, "quiet")
  /\ x.complete
  /\ Forward(cycle.out)
  /\ Advance(x.n, cycle.out)
  /\ UNCHANGED <<peerVars, uartVars, datagram, queue, resp, clientsUdp, own, due, said,
                 passed>>

\* A microservice answers: the answer is packed, in the only buffer.
Compose(x) ==
  /\ Process(x, "request")
  /\ x.complete
  /\ resp' = Answer(MessageOf(Rest[x.n]))
  /\ cycle' = [cycle EXCEPT !.reply = x.n]
  /\ UNCHANGED <<peerVars, uartVars, datagram, queue, clientsUdp, own, historyVars>>

\* What is packed by now goes to the sender.
Respond ==
  /\ At("Mavlink")
  /\ cycle.reply > 0
  /\ LET m == MessageOf(Rest[cycle.reply])
     IN  /\ said' = said \cup {[meant |-> Answer(m), is |-> resp]}
         /\ ForwardAfter(cycle.out, [got EXCEPT ![Source(cycle.owner)] = Append(@, AnswerTo(m))])
  /\ Advance(cycle.reply, cycle.out)
  /\ UNCHANGED <<peerVars, uartVars, datagram, queue, mavVars, clientsUdp, own, due, passed>>

-----------------------------------------------------------------------------
(* The hooks *)

\* Heartbeats and delayed sends go to the UART and to the clients in turn, out
\* of the buffer they were packed in.
SendOut(receiver) ==
  /\ At(receiver)
  /\ said' = IF Reached({receiver}) = {} THEN said
             ELSE said \cup {[meant |-> IF cycle.owner = "timer" THEN Beat ELSE Delayed(cycle.id),
                              is |-> resp]}
  /\ cycle' = [cycle EXCEPT !.todo = @ \ {receiver}]
  /\ UNCHANGED <<peerVars, uartVars, datagram, queue, mavVars, clientsUdp, own, got, due, passed>>

\* The UDP hook remembers the client, for good.
AddClient ==
  /\ At("udpHook")
  /\ clientsUdp' = clientsUdp \cup {Source(cycle.owner)}
  /\ cycle' = [cycle EXCEPT !.todo = @ \ {"udpHook"}]
  /\ UNCHANGED <<peerVars, uartVars, datagram, queue, mavVars, own, historyVars>>

-----------------------------------------------------------------------------

WorkQueueRuns ==
  \/ NotifyBegin
  \/ \E x \in (IF At("Mavlink") THEN Parsings(Rest) ELSE {}) : Ignore(x) \/ Consume(x) \/ Compose(x)
  \/ Respond
  \/ \E receiver \in {"uart", "udpPort"} : SendOut(receiver)
  \/ AddClient
  \/ NotifyEnd
  \/ Finish

Next ==
  \/ \E k \in 0..MaxRead : ReaderReads(k)
  \/ ProcessorTakes
  \/ ProcessorReturns
  \/ \E client \in Clients, n \in 1..NUdp : Receive(client, n)
  \/ Heartbeat
  \/ AsyncSend
  \/ WorkQueueRuns

Spec == Init /\ [][Next]_vars

\* The work queue runs whenever it has something to run; nothing it does here
\* waits for anybody.
FairSpec == Spec /\ WF_vars(WorkQueueRuns)

-----------------------------------------------------------------------------
(* Properties *)

\* The types; the three buffers are free, full or being processed, none
\* is lost and none is in two places (CircularSwap); a slice is within its chunk.
TypeOK ==
  /\ kinds \in [Messages -> Kinds]
  /\ sent \in [Peers -> Nat]
  /\ nFree \in 0..NBuffers
  /\ \A chunk \in ToSet(full) \cup {processor, datagram} : ToSet(chunk) \subseteq Pieces
  /\ nFree + Len(full) + (IF processor = <<>> THEN 0 ELSE 1) = NBuffers
  /\ \A i \in 1..Len(queue) : queue[i].owner \in Owners /\ queue[i].turn \in 1..2
  /\ At("Mavlink") => cycle.at < Len(Chunk)
  /\ parser \in Messages \cup {NoMessage, Mess}
  /\ resp \in Contents
  /\ clientsUdp \subseteq Clients
  /\ \A e \in said : {e.meant, e.is} \subseteq Contents
  /\ mixed \in BOOLEAN
  /\ passed \in [Peers -> Nat]

\* Of what a peer was sent: the answers, and the pieces that are not for the chip.
Relayed(peer) == {p \in ToSet(got[peer]) : p[3] = 0 \/ ~ForChip(p)}

\* The i-th piece is of a frame that is passed over, and the first message that ends after
\* it is for the chip: it closes the slice the piece is in, and the slice is not forwarded.
Withheld(chunk, i) ==
  /\ kinds[MessageOf(chunk[i])] = "alien"
  /\ \E j \in i..Len(chunk) :
       /\ EndsMessage(chunk[j]) /\ ForChip(chunk[j])
       /\ \A k \in i..(j - 1) : ~EndsMessage(chunk[k])

\* What comes for the first time comes after what is before it in the stream.
InStreamOrder(s) ==
  \A i, j \in 1..Len(s) :
    i < j /\ Position(s[j]) < Position(s[i]) => \E k \in 1..(i - 1) : s[k] = s[j]

\* The notification of what a peer has sent, at its end.
Relaying == cycle # NoCycle /\ Origin(cycle.owner) # "Mavlink"

\* What a peer has sent is notified in the order it came in, nothing of it twice,
\* though the reader trashes full buffers while another is being processed, and a
\* buffer is refilled as soon as notifyAs returns (Task.cpp:44-111, Api.cpp:263-299).
ChunksInOrder == Relaying => Position(Head(Chunk)) > passed[Source(cycle.owner)]

\* The bridge changes no stream: what of a chunk is not for the chip reaches those
\* the rules say, in its order, with the answers to the sender, however chunks end
\* within messages and buffers are trashed (Receiver.cpp:138-184).  A piece of it is lost
\* only in two cases: the parser has met a piece out of place, after a trashed buffer or
\* between the halves of a message of another peer; or the piece is of a frame that the
\* parser does not take for a message, and the next message of the chunk is for the chip.
StreamArrives ==
  Relaying /\ cycle.todo = {} =>
    \A peer \in Peers :
      /\ Relayed(peer) \subseteq due[peer]
      /\ mixed \/ \A p \in due[peer] \ Relayed(peer) :
                    \E i \in 1..Len(Chunk) : p = Chunk[i] /\ Withheld(Chunk, i)
      /\ InStreamOrder(got[peer])

\* What the chip itself sends is what was composed to be sent: delayed sends and
\* answers share resp.buffer without a lock and do not meet in it
\* (Dispatcher.cpp:45-47).  Only the heartbeat, packed by another thread while
\* the work queue uses the buffer, may take the place of a message or lose its own.
SentAsComposed == \A e \in said : e.is # e.meant => Beat \in {e.is, e.meant}

\* notifyAs returns: whoever waits in it, the task of the UART, of the sockets or
\* of the timer, goes on after the chunk has been processed to its end.
NotificationsReturn ==
  \A owner \in {"processor", "socket", "timer"} : []<>~Waits(owner)

(* Expected of this code and not kept by it: see README.md. *)

\* Nothing is forwarded twice.
DeliveredOnce == \A peer \in Peers : Cardinality(ToSet(got[peer])) = Len(got[peer])

\* What the chip handles itself is not forwarded.
OnlyForeignIsForwarded ==
  mixed \/ \A peer \in Peers : \A p \in ToSet(got[peer]) :
             p[3] # 0 => ~ForChip(p)

\* What is not for the chip is forwarded, even if a parser has lost its place.
ForeignIsForwarded ==
  Relaying /\ cycle.todo = {} => \A peer \in Peers : due[peer] \subseteq ToSet(got[peer])

\* The chip sends what it has composed.
SentIsComposed == \A e \in said : e.is = e.meant
=============================================================================
