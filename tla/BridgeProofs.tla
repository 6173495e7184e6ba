---------------------------- MODULE BridgeProofs ----------------------------
(***************************************************************************)
(* Theorems about Bridge, for any number of clients and messages, reads of *)
(* any length and any number of messages of the chip's own.                *)
(***************************************************************************)
EXTENDS Bridge, SequenceTheorems, TLAPS

(* The inductive invariant. *)

Chunks == Seq(Pieces) \ {<<>>}
Jobs == [owner : Owners, id : Nat, turn : 1..2]
Registry == {"Mavlink", "uart", "udpPort", "udpHook"}
Cycles ==
  [owner : Owners, id : Nat, todo : SUBSET Registry, at : Nat, out : Seq(Pieces), reply : Nat]
Composed == [meant : Contents, is : Contents]

Types ==
  /\ kinds \in [Messages -> Kinds]
  /\ sent \in [Peers -> Nat]
  /\ nFree \in 0..NBuffers
  /\ full \in Seq(Chunks)
  /\ processor \in Seq(Pieces)
  /\ datagram \in Seq(Pieces)
  /\ queue \in Seq(Jobs)
  /\ cycle = NoCycle \/ cycle \in Cycles
  /\ parser \in Messages \cup {NoMessage, Mess}
  /\ resp \in Contents
  /\ mixed \in BOOLEAN
  /\ clientsUdp \subseteq Clients
  /\ own \in Nat
  /\ said \subseteq Composed
  /\ passed \in [Peers -> Nat]

\* CircularSwap: a buffer is free, full or being processed.
BuffersConserved == nFree + Len(full) + (IF processor = <<>> THEN 0 ELSE 1) = NBuffers

JobsOf(owner) == {i \in 1..Len(queue) : queue[i].owner = owner}

\* A caller that waits has one job, in the queue or in its cycle, and its buffer until then.
OneJob(owner) ==
  /\ cycle.owner = owner => JobsOf(owner) = {}
  /\ \A i, j \in JobsOf(owner) : i = j
CallersWait ==
  /\ OneJob("processor") /\ OneJob("socket")
  /\ Waits("processor") => processor # <<>>
  /\ Waits("socket") => datagram # <<>>

\* Which delayed send a job is about.
DelayedId(owner, i) == owner = "delayed" => i \in 1..MaxOwn
DelayedIds ==
  /\ own <= MaxOwn
  /\ \A i \in 1..Len(queue) : DelayedId(queue[i].owner, queue[i].id)
  /\ cycle # NoCycle => DelayedId(cycle.owner, cycle.id)

\* A cycle notifies those the rules reach, the dispatcher slice by slice.
SliceInChunk ==
  cycle # NoCycle =>
    /\ cycle.todo \subseteq Takers(Origin(cycle.owner))
    /\ "Mavlink" \in cycle.todo => cycle.at < Len(Chunk)
    /\ cycle.reply > 0 => "Mavlink" \in cycle.todo /\ cycle.at + cycle.reply <= Len(Chunk)

\* What resp.buffer holds while it is used by the work queue.
RespInUse ==
  cycle # NoCycle =>
    /\ cycle.reply > 0 => resp \in {Answer(MessageOf(Rest[cycle.reply])), Beat}
    /\ cycle.owner = "delayed" => resp \in {Delayed(cycle.id), Beat}

\* Where in a stream a chunk begins and ends.
Begins(chunk) == Position(chunk[1])
Ends(chunk) == Position(chunk[Len(chunk)])

\* A chunk of what a peer has sent.
IsChunkOf(chunk, peer) ==
  /\ \A i \in 1..Len(chunk) : chunk[i][1] = peer
  /\ 0 < Begins(chunk) /\ Begins(chunk) <= Ends(chunk) /\ Ends(chunk) <= sent[peer]

\* The job of a caller has not had its first turn, or is in it.
Pending(owner) ==
  \/ cycle.owner = owner
  \/ \E i \in JobsOf(owner) : queue[i].turn = 1

\* Full buffers are in the order of the stream, after the one that is being processed.
UartInOrder ==
  /\ passed[Uart] <= sent[Uart]
  /\ \A i \in 1..Len(full) : IsChunkOf(full[i], Uart) /\ Begins(full[i]) > passed[Uart]
  /\ \A i, j \in 1..Len(full) : i < j => Ends(full[i]) < Begins(full[j])
  /\ processor # <<>> =>
       /\ IsChunkOf(processor, Uart)
       /\ \A i \in 1..Len(full) : Ends(processor) < Begins(full[i])
  /\ Pending("processor") => Begins(processor) > passed[Uart]

\* A datagram is new to the client that has sent it.
DatagramsInOrder ==
  /\ \A client \in Clients : passed[client] <= sent[client]
  /\ datagram # <<>> =>
       /\ datagram[1][1] \in Clients
       /\ IsChunkOf(datagram, datagram[1][1])
       /\ Pending("socket") => Begins(datagram) > passed[datagram[1][1]]

BridgeInv ==
  /\ Types
  /\ BuffersConserved
  /\ CallersWait
  /\ DelayedIds
  /\ SliceInChunk
  /\ RespInUse
  /\ UartInOrder
  /\ DatagramsInOrder
  /\ SentAsComposed
-----------------------------------------------------------------------------
(* Pieces and streams *)

LEMMA PieceFacts ==
  ASSUME BridgeAssumption, NEW p \in Pieces
  PROVE  /\ MessageOf(p) \in Messages
         /\ p[1] \in Peers
         /\ p[2] \in Nat \ {0}
         /\ Position(p) \in Nat
<1>1. PICK m \in Messages, half \in 1..2 : p = <<m[1], m[2], half>>
  BY DEF Pieces
<1>2. m[1] \in Peers /\ m[2] \in Nat \ {0} /\ m = <<m[1], m[2]>>
  BY DEF Messages, Peers, BridgeAssumption
<1>3. p[1] = m[1] /\ p[2] = m[2] /\ p[3] \in 1..2
  BY <1>1
<1>4. Position(p) \in Nat
  BY <1>2, <1>3 DEF Position
<1>5. QED  BY <1>2, <1>3, <1>4 DEF MessageOf

LEMMA HalfFacts ==
  ASSUME NEW n \in Nat \ {0}
  PROVE  /\ (n + 1) \div 2 \in Nat \ {0}
         /\ 2 - (n % 2) \in 1..2
         /\ 2 * ((n + 1) \div 2 - 1) + (2 - (n % 2)) = n
         /\ \A N \in Nat : n <= 2 * N => (n + 1) \div 2 <= N
OBVIOUS

\* How many messages a peer sends.
Total(peer) == IF peer = Uart THEN NUart ELSE NUdp

\* A part of a stream consists of the pieces at its positions.
LEMMA StreamFacts ==
  ASSUME BridgeAssumption, NEW peer \in Peers, NEW a \in Nat, NEW b \in Nat, a < b,
         b <= 2 * Total(peer)
  PROVE  /\ Stream(peer, a, b) \in Chunks
         /\ Len(Stream(peer, a, b)) = b - a
         /\ \A i \in 1..(b - a) :
              Stream(peer, a, b)[i][1] = peer /\ Position(Stream(peer, a, b)[i]) = a + i
<1> DEFINE Piece(i) == <<peer, (a + i + 1) \div 2, 2 - ((a + i) % 2)>>
           s == Stream(peer, a, b)
<1>0. PICK N : N = Total(peer)
  OBVIOUS
<1>a. N \in Nat /\ b <= 2 * N
  BY <1>0 DEF Total, BridgeAssumption
<1>b. (peer = Uart => N = NUart) /\ (peer # Uart => N = NUdp /\ peer \in Clients)
  BY <1>0 DEF Total, Peers
<1>1. ASSUME NEW i \in 1..(b - a)
      PROVE  Piece(i) \in Pieces /\ Piece(i)[1] = peer /\ Position(Piece(i)) = a + i
  <2>1. a + i \in Nat \ {0} /\ a + i <= 2 * N
    BY <1>a
  <2>2. PICK n : n = a + i
    OBVIOUS
  <2>3. PICK h : h = (n + 1) \div 2
    OBVIOUS
  <2>4. PICK r : r = 2 - (n % 2)
    OBVIOUS
  <2>5. h \in Nat \ {0} /\ r \in 1..2 /\ 2 * (h - 1) + r = n /\ h <= N
    BY <1>a, <2>1, <2>2, <2>3, <2>4, HalfFacts
  <2>6. Piece(i) = <<peer, h, r>>
    BY <2>2, <2>3, <2>4
  <2>7. <<peer, h>> \in Messages
    BY <1>a, <1>b, <2>5 DEF Messages
  <2>8. <<peer, h, r>> \in Pieces
    <3>1. <<peer, h, r>> = <<(<<peer, h>>)[1], (<<peer, h>>)[2], r>>
      OBVIOUS
    <3>2. QED  BY <2>5, <2>7, <3>1 DEF Pieces
  <2>9. Position(<<peer, h, r>>) = n
    BY <2>5 DEF Position
  <2>10. QED  BY <2>2, <2>6, <2>8, <2>9
<1>2. s = [i \in 1..(b - a) |-> Piece(i)]
  BY DEF Stream
<1> HIDE DEF Piece, s
<1>3. s \in Seq(Pieces) /\ Len(s) = b - a /\ \A i \in 1..(b - a) : s[i] = Piece(i)
  BY <1>1, <1>2
<1>4. s # <<>>
  BY <1>3
<1>5. QED  BY <1>1, <1>3, <1>4 DEF s, Chunks

-----------------------------------------------------------------------------
(* The queue *)

LEMMA Pushed ==
  ASSUME NEW S, NEW q \in Seq(S), NEW j \in S
  PROVE  /\ Append(q, j) \in Seq(S)
         /\ Len(Append(q, j)) = Len(q) + 1
         /\ \A i \in 1..Len(q) : Append(q, j)[i] = q[i]
         /\ Append(q, j)[Len(q) + 1] = j
OBVIOUS

LEMMA Popped ==
  ASSUME NEW S, NEW q \in Seq(S), q # <<>>
  PROVE  /\ Tail(q) \in Seq(S)
         /\ Len(q) \in Nat \ {0} /\ Len(Tail(q)) = Len(q) - 1
         /\ \A i \in 1..(Len(q) - 1) : Tail(q)[i] = q[i + 1]
         /\ Head(q) = q[1] /\ q[1] \in S
OBVIOUS

\* A caller that does not wait queues a job.
LEMMA PushJob ==
  ASSUME Types, NEW o \in Owners, NEW j \in Jobs, queue' = Append(queue, j), cycle' = cycle,
         OneJob(o), j.owner = o => ~Waits(o)
  PROVE  /\ OneJob(o)'
         /\ Waits(o)' => Waits(o) \/ o = j.owner
         /\ Pending(o)' => Pending(o) \/ o = j.owner
<1>1. /\ Len(queue) \in Nat /\ Len(queue') = Len(queue) + 1
      /\ \A i \in 1..Len(queue) : queue'[i] = queue[i]
      /\ queue'[Len(queue) + 1] = j
  BY Pushed DEF Types
<1>2. JobsOf(o)' = JobsOf(o) \cup (IF j.owner = o THEN {Len(queue) + 1} ELSE {})
  BY <1>1 DEF JobsOf
<1>3. j.owner = o => JobsOf(o) = {} /\ cycle.owner # o
  BY DEF Waits, JobsOf
<1>4. OneJob(o)'
  BY <1>2, <1>3 DEF OneJob
<1>5. Waits(o)' => Waits(o) \/ o = j.owner
  BY <1>1 DEF Waits
<1>6. Pending(o)' => Pending(o) \/ o = j.owner
  BY <1>1, <1>2 DEF Pending, JobsOf
<1>7. QED  BY <1>4, <1>5, <1>6

\* The first turn of a job begins.
LEMMA BeginJob ==
  ASSUME Types, NEW o \in Owners, cycle = NoCycle, queue # <<>>, Head(queue).turn = 1,
         queue' = Tail(queue), cycle'.owner = Head(queue).owner, OneJob(o)
  PROVE  OneJob(o)' /\ (Waits(o)' => Waits(o)) /\ (Pending(o)' => Pending(o))
<1>1. /\ Len(queue) \in Nat \ {0} /\ Len(queue') = Len(queue) - 1
      /\ \A i \in 1..(Len(queue) - 1) : queue'[i] = queue[i + 1]
      /\ Head(queue) = queue[1]
  BY Popped DEF Types
<1>2. \A i \in JobsOf(o)' : i + 1 \in JobsOf(o) /\ i \in Nat \ {0} /\ queue'[i] = queue[i + 1]
  BY <1>1 DEF JobsOf
<1>3. cycle'.owner = o => 1 \in JobsOf(o) /\ queue[1].turn = 1
  BY <1>1 DEF JobsOf
<1>4. OneJob(o)'
  BY <1>2, <1>3 DEF OneJob
<1>5. Waits(o)' => Waits(o)
  BY <1>1 DEF Waits
<1>6. Pending(o)' => Pending(o)
  BY <1>2, <1>3 DEF Pending
<1>7. QED  BY <1>4, <1>5, <1>6

\* The first turn ends, and the job is queued for the second.
LEMMA EndTurn ==
  ASSUME Types, NEW o \in Owners, cycle # NoCycle, OneJob(o), cycle' = NoCycle,
         queue' = Append(queue, [owner |-> cycle.owner, id |-> cycle.id, turn |-> 2])
  PROVE  /\ OneJob(o)'
         /\ Waits(o)' => Waits(o)
         /\ Pending(o)' => Pending(o) /\ o # cycle.owner
<1>0. cycle \in Cycles /\ cycle'.owner \notin Owners
  BY DEF Types, NoCycle, Owners
<1>a. PICK j : j = [owner |-> cycle.owner, id |-> cycle.id, turn |-> 2]
  OBVIOUS
<1>b. j \in Jobs /\ j.owner = cycle.owner /\ j.turn = 2
  BY <1>0, <1>a DEF Cycles, Jobs
<1>1. /\ Len(queue) \in Nat /\ Len(queue') = Len(queue) + 1
      /\ \A i \in 1..Len(queue) : queue'[i] = queue[i]
      /\ queue'[Len(queue) + 1] = j
  BY <1>a, <1>b, Pushed DEF Types
<1>2. JobsOf(o)' = JobsOf(o) \cup (IF cycle.owner = o THEN {Len(queue) + 1} ELSE {})
  BY <1>1, <1>b DEF JobsOf
<1>3. OneJob(o)'
  BY <1>0, <1>2 DEF OneJob
<1>4. Waits(o)' => Waits(o)
  BY <1>0, <1>1, <1>b DEF Waits
<1>5. Pending(o)' => Pending(o) /\ o # cycle.owner
  <2>1. ASSUME Pending(o)' PROVE \E i \in JobsOf(o) : queue[i].turn = 1
    BY <2>1, <1>0, <1>1, <1>2, <1>b DEF Pending, JobsOf
  <2>2. QED  BY <2>1 DEF Pending, OneJob
<1>6. QED  BY <1>3, <1>4, <1>5

\* The second turn.
LEMMA FinishJob ==
  ASSUME Types, NEW o \in Owners, cycle' = cycle, queue # <<>>, queue' = Tail(queue), OneJob(o)
  PROVE  OneJob(o)' /\ (Waits(o)' => Waits(o)) /\ (Pending(o)' => Pending(o))
<1>1. /\ Len(queue) \in Nat \ {0} /\ Len(queue') = Len(queue) - 1
      /\ \A i \in 1..(Len(queue) - 1) : queue'[i] = queue[i + 1]
  BY Popped DEF Types
<1>2. \A i \in JobsOf(o)' : i + 1 \in JobsOf(o) /\ i \in Nat \ {0} /\ queue'[i] = queue[i + 1]
  BY <1>1 DEF JobsOf
<1>3. OneJob(o)'
  BY <1>2 DEF OneJob
<1>4. Waits(o)' => Waits(o)
  BY <1>1 DEF Waits
<1>5. Pending(o)' => Pending(o)
  BY <1>2 DEF Pending
<1>6. QED  BY <1>3, <1>4, <1>5
-----------------------------------------------------------------------------
(* Cycles *)

\* Whom the rules reach.
LEMMA RuleFacts ==
  /\ Takers("uart") = {"Mavlink"}
  /\ Takers("udpPort") = {"Mavlink", "udpHook"}
  /\ Takers("Mavlink") = {"uart", "udpPort"}
<1>1. \A o, r : r \in Takers(o) <=> \E rule \in Rules : rule[1] = o /\ rule[2] = r
  BY DEF Takers
<1>2. QED  BY <1>1 DEF Rules

LEMMA OwnerFacts ==
  ASSUME NEW o \in Owners
  PROVE  /\ o = "processor" => Origin(o) = "uart" /\ Takers(Origin(o)) = {"Mavlink"}
         /\ o = "socket" => Origin(o) = "udpPort" /\ Takers(Origin(o)) = {"Mavlink", "udpHook"}
         /\ o \in {"timer", "delayed"} =>
              Origin(o) = "Mavlink" /\ Takers(Origin(o)) = {"uart", "udpPort"}
         /\ Takers(Origin(o)) \subseteq Registry
         /\ o \in {"processor", "socket"} <=> Origin(o) # "Mavlink"
BY RuleFacts DEF Owners, Origin, Registry

\* A cycle's chunk is one of the two buffers whose owner waits.
LEMMA ChunkFacts ==
  ASSUME BridgeInv, cycle # NoCycle, cycle.owner \in {"processor", "socket"}
  PROVE  /\ Chunk \in Chunks
         /\ Source(cycle.owner) \in Peers
         /\ cycle.owner = "processor" => Chunk = processor /\ Source(cycle.owner) = Uart
         /\ cycle.owner = "socket" => /\ Chunk = datagram
                                      /\ Source(cycle.owner) = datagram[1][1]
                                      /\ datagram[1][1] \in Clients
         /\ Begins(Chunk) > passed[Source(cycle.owner)]
         /\ Ends(Chunk) <= sent[Source(cycle.owner)]
<1>1. cycle.owner = "processor" => processor # <<>> /\ Begins(processor) > passed[Uart]
  BY DEF BridgeInv, CallersWait, Waits, UartInOrder, Pending
<1>2. cycle.owner = "socket" => datagram # <<>> /\ Begins(datagram) > passed[datagram[1][1]]
  BY DEF BridgeInv, CallersWait, Waits, DatagramsInOrder, Pending
<1>3. CASE cycle.owner = "processor"
  <2>1. Chunk = processor /\ Source(cycle.owner) = Uart
    BY <1>3 DEF Chunk, Buffer, Source
  <2>2. processor \in Chunks /\ Ends(processor) <= sent[Uart]
    BY <1>1, <1>3 DEF BridgeInv, Types, Chunks, UartInOrder, IsChunkOf
  <2>3. QED  BY <1>1, <1>3, <2>1, <2>2 DEF Peers
<1>4. CASE cycle.owner = "socket"
  <2>1. Chunk = datagram /\ Source(cycle.owner) = datagram[1][1]
    BY <1>4 DEF Chunk, Buffer, Source
  <2>2. datagram \in Chunks /\ datagram[1][1] \in Clients /\ Ends(datagram) <= sent[datagram[1][1]]
    BY <1>2, <1>4 DEF BridgeInv, Types, Chunks, DatagramsInOrder, IsChunkOf
  <2>3. QED  BY <1>2, <1>4, <2>1, <2>2 DEF Peers
<1>5. QED  BY <1>3, <1>4

\* What is left of it.
LEMMA RestFacts ==
  ASSUME BridgeInv, cycle # NoCycle, "Mavlink" \in cycle.todo
  PROVE  /\ cycle.owner \in {"processor", "socket"}
         /\ cycle.at \in Nat /\ Len(Chunk) \in Nat /\ cycle.at < Len(Chunk)
         /\ Rest \in Seq(Pieces)
         /\ Len(Rest) = Len(Chunk) - cycle.at
         /\ \A i \in 1..Len(Rest) : Rest[i] \in Pieces
<1>1. cycle \in Cycles /\ cycle.owner \in Owners /\ cycle.at \in Nat
  BY DEF BridgeInv, Types, Cycles
<1>2. cycle.owner \in {"processor", "socket"}
  BY <1>1, OwnerFacts DEF BridgeInv, SliceInChunk, Owners
<1>3. Chunk \in Seq(Pieces)
  BY <1>2, ChunkFacts DEF Chunks
<1>4. cycle.at < Len(Chunk)
  BY DEF BridgeInv, SliceInChunk
<1>5. PICK c, a : c = Chunk /\ a = cycle.at
  OBVIOUS
<1>6. /\ SubSeq(c, a + 1, Len(c)) \in Seq(Pieces) /\ Len(SubSeq(c, a + 1, Len(c))) = Len(c) - a
  BY <1>1, <1>3, <1>4, <1>5, SubSeqProperties
<1>7. Rest = SubSeq(c, a + 1, Len(c))
  BY <1>1, <1>3, <1>5 DEF Rest
<1>8. Rest \in Seq(Pieces) /\ Len(Rest) = Len(c) - a
  BY <1>6, <1>7
<1>9. \A i \in 1..Len(Rest) : Rest[i] \in Pieces
  BY <1>8
<1>10. Len(Chunk) \in Nat
  BY <1>3
<1>11. QED  BY <1>1, <1>2, <1>4, <1>5, <1>8, <1>9, <1>10

\* What the parser makes of a chunk.
LEMMA ParsingFacts ==
  ASSUME BridgeAssumption, parser \in Messages \cup {NoMessage, Mess}, mixed \in BOOLEAN,
         NEW chunk \in Seq(Pieces), NEW x \in Parsings(chunk)
  PROVE  /\ x.n \in 1..Len(chunk)
         /\ x.parser \in Messages \cup {NoMessage, Mess}
         /\ x.mixed \in BOOLEAN
<1>a. PICK n \in 1..Len(chunk) : \E fates \in Slices(chunk, n) :
        x = [parser |-> After(chunk[n], fates[n]), n |-> n, complete |-> Completes(chunk, fates, n),
             mixed |-> mixed \/ \E i \in 1..n : fates[i] # "parsed"]
  BY DEF Parsings
<1>1. PICK fates \in Slices(chunk, n) :
        x = [parser |-> After(chunk[n], fates[n]), n |-> n, complete |-> Completes(chunk, fates, n),
             mixed |-> mixed \/ \E i \in 1..n : fates[i] # "parsed"]
  BY <1>a
<1>2. After(chunk[n], fates[n]) \in Messages \cup {NoMessage, Mess}
  <2>1. MessageOf(chunk[n]) \in Messages
    BY PieceFacts
  <2>2. QED  BY <2>1 DEF After
<1>3. x.n = n /\ x.parser = After(chunk[n], fates[n])
      /\ x.mixed = (mixed \/ \E i \in 1..n : fates[i] # "parsed")
  BY <1>1
<1>4. (mixed \/ \E i \in 1..n : fates[i] # "parsed") \in BOOLEAN
  OBVIOUS
<1>5. QED  BY <1>2, <1>3, <1>4

-----------------------------------------------------------------------------
(* Order *)

\* What does not touch a buffer or a stream, and begins no job, keeps the order.
LEMMA OrderKept ==
  ASSUME UartInOrder, DatagramsInOrder, UNCHANGED <<full, processor, datagram, sent, passed>>,
         Pending("processor")' => Pending("processor"), Pending("socket")' => Pending("socket")
  PROVE  UartInOrder' /\ DatagramsInOrder'
<1>1. \A chunk, peer : IsChunkOf(chunk, peer)' <=> IsChunkOf(chunk, peer)
  BY DEF IsChunkOf
<1>2. UartInOrder'
  BY <1>1 DEF UartInOrder
<1>3. DatagramsInOrder'
  BY <1>1 DEF DatagramsInOrder
<1>4. QED  BY <1>2, <1>3

\* Within a cycle.
LEMMA InCycle ==
  ASSUME BridgeInv, cycle # NoCycle, cycle' \in Cycles, cycle'.owner = cycle.owner,
         cycle'.id = cycle.id,
         UNCHANGED <<peerVars, uartVars, datagram, queue, own, passed>>
  PROVE  /\ BuffersConserved' /\ CallersWait' /\ DelayedIds' /\ UartInOrder' /\ DatagramsInOrder'
         /\ Chunk' = Chunk
<1>1. \A o : /\ OneJob(o)' <=> OneJob(o)
             /\ Waits(o)' <=> Waits(o)
             /\ Pending(o)' <=> Pending(o)
  BY DEF OneJob, Waits, Pending, JobsOf
<1>2. BuffersConserved' /\ CallersWait' /\ DelayedIds'
  BY <1>1 DEF BridgeInv, BuffersConserved, CallersWait, DelayedIds, DelayedId, uartVars
<1>3. UartInOrder' /\ DatagramsInOrder'
  BY <1>1, OrderKept DEF BridgeInv, uartVars, peerVars
<1>4. QED  BY <1>2, <1>3 DEF Chunk, Buffer, uartVars

\* Outside of it: what a cycle uses of its buffer stays, but for the heartbeat.
LEMMA CycleKept ==
  ASSUME BridgeInv, cycle' = cycle, resp' \in {resp, Beat},
         cycle.owner = "processor" => processor' = processor,
         cycle.owner = "socket" => datagram' = datagram
  PROVE  SliceInChunk' /\ RespInUse'
<1> SUFFICES ASSUME cycle # NoCycle PROVE SliceInChunk' /\ RespInUse'
  BY DEF SliceInChunk, RespInUse
<1>1. cycle \in Cycles /\ cycle.owner \in Owners /\ cycle.reply \in Nat
  BY DEF BridgeInv, Types, Cycles
<1>2. "Mavlink" \in cycle.todo \/ cycle.reply > 0 =>
        cycle.owner \in {"processor", "socket"}
  BY RestFacts DEF BridgeInv, SliceInChunk
<1>3. cycle.owner \in {"processor", "socket"} => Chunk' = Chunk /\ Rest' = Rest
  BY DEF Chunk, Buffer, Rest
<1>4. SliceInChunk'
  BY <1>1, <1>2, <1>3 DEF BridgeInv, SliceInChunk
<1>5. RespInUse'
  BY <1>1, <1>2, <1>3 DEF BridgeInv, RespInUse
<1>6. QED  BY <1>4, <1>5

-----------------------------------------------------------------------------
(* The UART's two tasks *)

LEMMA ChunkPositions ==
  ASSUME BridgeAssumption, NEW chunk \in Chunks
  PROVE  /\ Len(chunk) \in Nat \ {0}
         /\ \A i \in 1..Len(chunk) : chunk[i] \in Pieces
         /\ Begins(chunk) \in Nat /\ Ends(chunk) \in Nat
<1>0. chunk \in Seq(Pieces) /\ chunk # <<>>
  BY DEF Chunks
<1>a. Len(chunk) \in Nat \ {0}
  BY <1>0
<1>b. \A i \in 1..Len(chunk) : chunk[i] \in Pieces
  BY <1>0
<1>1. Len(chunk) \in Nat \ {0} /\ \A i \in 1..Len(chunk) : chunk[i] \in Pieces
  BY <1>a, <1>b
<1>2. QED  BY <1>1, PieceFacts DEF Begins, Ends

LEMMA SentGrows ==
  ASSUME BridgeAssumption, Types, NEW peer \in Peers, NEW k \in Nat, sent' = [sent EXCEPT ![peer] = @ + k]
  PROVE  /\ sent' \in [Peers -> Nat] /\ sent'[peer] = sent[peer] + k
         /\ \A p \in Peers : sent'[p] >= sent[p]
         /\ \A chunk \in Chunks : \A p \in Peers : IsChunkOf(chunk, p) => IsChunkOf(chunk, p)'
<1>1. sent \in [Peers -> Nat]
  BY DEF Types
<1>2. /\ sent' \in [Peers -> Nat] /\ sent'[peer] = sent[peer] + k
      /\ \A p \in Peers : sent'[p] >= sent[p]
  BY <1>1
<1>3. ASSUME NEW chunk \in Chunks, NEW p \in Peers, IsChunkOf(chunk, p)
      PROVE  IsChunkOf(chunk, p)'
  <2>1. Ends(chunk) \in Nat /\ sent[p] \in Nat /\ sent'[p] \in Nat /\ sent'[p] >= sent[p]
    BY <1>1, <1>2, ChunkPositions
  <2>2. Ends(chunk) <= sent[p]
    BY <1>3 DEF IsChunkOf
  <2>3. Ends(chunk) <= sent'[p]
    BY <2>1, <2>2
  <2>4. QED  BY <1>3, <2>3 DEF IsChunkOf
<1>4. QED  BY <1>2, <1>3

\* A chunk that has just been read.
LEMMA NewChunk ==
  ASSUME BridgeAssumption, Types, NEW peer \in Peers, NEW k \in Nat \ {0},
         sent[peer] + k <= 2 * Total(peer),
         sent' = [sent EXCEPT ![peer] = @ + k],
         NEW s, s = Stream(peer, sent[peer], sent[peer] + k)
  PROVE  s \in Chunks /\ s[1][1] = peer /\ IsChunkOf(s, peer)' /\ Begins(s) > sent[peer]
<1>1. PICK a : a = sent[peer]
  OBVIOUS
<1>2. PICK b : b = a + k
  OBVIOUS
<1>3. s = Stream(peer, a, b)
  BY <1>1, <1>2
<1>a. sent[peer] \in Nat
  BY DEF Types
<1>b. sent'[peer] = b
  BY <1>1, <1>2, SentGrows
<1>4. a \in Nat /\ b \in Nat /\ a < b /\ b <= 2 * Total(peer) /\ b - a = k
  BY <1>a, <1>1, <1>2
<1>c. /\ s \in Chunks /\ Len(s) = b - a
      /\ \A i \in 1..(b - a) : s[i][1] = peer /\ Position(s[i]) = a + i
  <2>1. /\ Stream(peer, a, b) \in Chunks /\ Len(Stream(peer, a, b)) = b - a
        /\ \A i \in 1..(b - a) :
             Stream(peer, a, b)[i][1] = peer /\ Position(Stream(peer, a, b)[i]) = a + i
    BY <1>4, StreamFacts
  <2>2. QED  BY <1>3, <2>1
<1>5. /\ s \in Chunks /\ Len(s) = k
      /\ \A i \in 1..k : s[i][1] = peer /\ Position(s[i]) = a + i
  BY <1>c, <1>4
<1>6. Begins(s) = a + 1 /\ Ends(s) = b
  BY <1>4, <1>5 DEF Begins, Ends
<1>7. IsChunkOf(s, peer)'
  BY <1>b, <1>4, <1>5, <1>6 DEF IsChunkOf
<1>8. s[1][1] = peer /\ Begins(s) > a
  BY <1>4, <1>5, <1>6
<1>9. QED  BY <1>1, <1>5, <1>7, <1>8

LEMMA ReaderReadsKeeps ==
  ASSUME BridgeAssumption, BridgeInv, NEW k \in 0..MaxRead, ReaderReads(k)
  PROVE  BridgeInv'
<1>0. Types /\ k \in Nat /\ Uart \in Peers /\ NUart \in Nat /\ full \in Seq(Chunks) /\ nFree \in 0..3
  BY DEF BridgeInv, Types, BridgeAssumption, Peers, NBuffers
<1>a. PICK kept : kept = IF nFree = 0 THEN Tail(full) ELSE full
  OBVIOUS
<1>b. PICK d : d = IF nFree = 0 THEN 1 ELSE 0
  OBVIOUS
<1>c. d \in 0..1 /\ nFree + d > 0
  BY <1>0, <1>b
<1>1. /\ kept \in Seq(Chunks) /\ Len(full) \in Nat /\ Len(kept) = Len(full) - d
      /\ \A i \in 1..Len(kept) : i + d \in 1..Len(full) /\ kept[i] = full[i + d]
  <2>1. CASE nFree = 0
    BY <2>1, <1>0, <1>a, <1>b, Popped DEF ReaderReads
  <2>2. CASE nFree # 0
    BY <2>2, <1>0, <1>a, <1>b
  <2>3. QED  BY <2>1, <2>2
<1>d. PICK new : new = Stream(Uart, sent[Uart], sent[Uart] + k)
  OBVIOUS
<1>2. k # 0 => new \in Chunks /\ IsChunkOf(new, Uart)' /\ Begins(new) > sent[Uart]
  <2> SUFFICES ASSUME k # 0
               PROVE  new \in Chunks /\ IsChunkOf(new, Uart)' /\ Begins(new) > sent[Uart]
    OBVIOUS
  <2>1. sent' = [sent EXCEPT ![Uart] = @ + k] /\ sent[Uart] + k <= 2 * Total(Uart)
    BY DEF ReaderReads, Total
  <2>2. k \in Nat \ {0}
    BY <1>0
  <2>3. QED  BY <1>0, <1>d, <2>1, <2>2, NewChunk
<1>3. /\ full' = IF k = 0 THEN kept ELSE Append(kept, new)
      /\ nFree' = IF k = 0 THEN nFree + d ELSE nFree + d - 1
  BY <1>0, <1>a, <1>b, <1>d DEF ReaderReads
<1>4. /\ full' \in Seq(Chunks) /\ Len(full') = Len(kept) + (IF k = 0 THEN 0 ELSE 1)
      /\ \A i \in 1..Len(kept) : full'[i] = kept[i]
      /\ k # 0 => full'[Len(kept) + 1] = new
  BY <1>1, <1>2, <1>3, Pushed
<1>5. BuffersConserved' /\ nFree' \in 0..NBuffers
  <2>1. PICK m : m = IF processor = <<>> THEN 0 ELSE 1
    OBVIOUS
  <2>2. nFree + Len(full) + m = 3 /\ m \in 0..1
    BY <2>1 DEF BridgeInv, BuffersConserved, NBuffers
  <2>3. nFree' \in 0..3 /\ nFree' + Len(full') + m = 3
    BY <1>0, <1>1, <1>3, <1>4, <1>c, <2>2
  <2>4. processor' = processor
    BY DEF ReaderReads
  <2>5. QED  BY <2>1, <2>3, <2>4 DEF BuffersConserved, NBuffers
<1>6. sent' \in [Peers -> Nat]
  BY <1>0, SentGrows DEF ReaderReads
<1>7. Types'
  BY <1>0, <1>4, <1>5, <1>6 DEF Types, ReaderReads, workVars, mavVars, historyVars
<1>8. CallersWait' /\ DelayedIds' /\ SentAsComposed'
  BY DEF BridgeInv, CallersWait, OneJob, JobsOf, Waits, DelayedIds, SentAsComposed, ReaderReads, workVars,
         historyVars
<1>9. SliceInChunk' /\ RespInUse'
  BY CycleKept DEF ReaderReads, workVars, mavVars
<1>10. /\ \A p \in Peers : sent'[p] >= sent[p] /\ sent[p] \in Nat /\ sent'[p] \in Nat
       /\ \A c \in Chunks : \A p \in Peers : IsChunkOf(c, p) => IsChunkOf(c, p)'
  BY <1>0, <1>6, SentGrows DEF ReaderReads, Types
<1>e. UNCHANGED <<processor, datagram, queue, cycle, passed>> /\ passed \in [Peers -> Nat]
  BY <1>0 DEF ReaderReads, workVars, historyVars, Types
<1>f. \A o : Pending(o)' <=> Pending(o)
  BY <1>e DEF Pending, JobsOf
<1>11. DatagramsInOrder'
  <2>1. datagram # <<>> => datagram \in Chunks
    BY <1>0 DEF Types, Chunks
  <2>2. \A client \in Clients : client \in Peers
    BY DEF Peers
  <2>3. DatagramsInOrder
    BY DEF BridgeInv
  <2>4. \A client \in Clients : passed'[client] <= sent'[client]
    BY <1>10, <1>e, <2>2, <2>3 DEF DatagramsInOrder, Types
  <2>5. QED  BY <1>10, <1>e, <1>f, <2>1, <2>2, <2>3, <2>4 DEF DatagramsInOrder
<1>12. UartInOrder'
  <2>0. UartInOrder
    BY DEF BridgeInv
  <2>1. passed'[Uart] <= sent'[Uart]
    BY <1>0, <1>10, <1>e, <2>0 DEF UartInOrder
  <2>2. \A i \in 1..Len(full) : /\ full[i] \in Chunks /\ IsChunkOf(full[i], Uart)
                                /\ Begins(full[i]) > passed[Uart] /\ Ends(full[i]) <= sent[Uart]
    <3>1. \A i \in 1..Len(full) : full[i] \in Chunks
      BY <1>0
    <3>2. \A i \in 1..Len(full) : IsChunkOf(full[i], Uart) /\ Begins(full[i]) > passed[Uart]
      BY <2>0 DEF UartInOrder
    <3>3. QED  BY <3>1, <3>2 DEF IsChunkOf
  <2>a. \A i \in 1..Len(full') : \/ i \in 1..Len(kept) /\ full'[i] = kept[i]
                                 \/ k # 0 /\ i = Len(kept) + 1 /\ full'[i] = new
    <3>1. Len(kept) \in Nat
      BY <1>1
    <3>2. PICK l : l = Len(kept)
      OBVIOUS
    <3>3. \A i \in 1..Len(full') : i \in 1..l \/ (k # 0 /\ i = l + 1)
      BY <1>4, <3>1, <3>2
    <3>4. QED  BY <1>4, <3>2, <3>3
  <2>b. sent[Uart] \in Nat /\ passed[Uart] \in Nat /\ passed[Uart] <= sent[Uart]
    BY <1>0, <1>10, <1>e, <2>0 DEF UartInOrder
  <2>3. (\A i \in 1..Len(full) : IsChunkOf(full[i], Uart) /\ Begins(full[i]) > passed[Uart])'
    <3>1. \A i \in 1..Len(kept) : /\ IsChunkOf(kept[i], Uart)'
                                  /\ Begins(kept[i]) > passed[Uart]
      BY <1>0, <1>1, <1>10, <2>2
    <3>2. k # 0 => Begins(new) > passed[Uart]
      <4>1. k # 0 => Begins(new) \in Nat /\ Begins(new) > sent[Uart]
        BY <1>2, ChunkPositions
      <4>2. QED  BY <4>1, <2>b
    <3>3. QED  BY <1>2, <1>e, <2>a, <3>1, <3>2
  <2>4. \A i, j \in 1..Len(full') : i < j => Ends(full'[i]) < Begins(full'[j])
    <3>1. ASSUME NEW i \in 1..Len(kept), NEW j \in 1..Len(kept), i < j
          PROVE  Ends(kept[i]) < Begins(kept[j])
      <4>1. i + d \in 1..Len(full) /\ j + d \in 1..Len(full) /\ i + d < j + d
        BY <1>c, <1>1, <3>1
      <4>2. Ends(full[i + d]) < Begins(full[j + d])
        BY <4>1, <2>0 DEF UartInOrder
      <4>3. QED  BY <1>1, <4>2
    <3>2. ASSUME NEW i \in 1..Len(kept), k # 0 PROVE Ends(kept[i]) < Begins(new)
      <4>1. kept[i] \in Chunks /\ Ends(kept[i]) <= sent[Uart]
        BY <1>1, <2>2
      <4>2. Ends(kept[i]) \in Nat /\ Begins(new) \in Nat /\ Begins(new) > sent[Uart]
        BY <1>2, <3>2, <4>1, ChunkPositions
      <4>3. QED  BY <2>b, <4>1, <4>2
    <3>3. Len(kept) \in Nat
      BY <1>1
    <3>4. ASSUME NEW i \in 1..Len(full'), NEW j \in 1..Len(full'), i < j
          PROVE  Ends(full'[i]) < Begins(full'[j])
      <4>1. i \in 1..Len(kept) /\ full'[i] = kept[i]
        BY <1>4, <2>a, <3>3, <3>4
      <4>2. QED  BY <2>a, <3>1, <3>2, <3>4, <4>1
    <3>5. QED  BY <3>4
  <2>5. processor # <<>> =>
          /\ IsChunkOf(processor, Uart)'
          /\ \A i \in 1..Len(full') : Ends(processor) < Begins(full'[i])
    <3> SUFFICES ASSUME processor # <<>>
                 PROVE  /\ IsChunkOf(processor, Uart)'
                        /\ \A i \in 1..Len(full') : Ends(processor) < Begins(full'[i])
      OBVIOUS
    <3>1. processor \in Chunks /\ IsChunkOf(processor, Uart) /\ Ends(processor) <= sent[Uart]
      BY <1>0, <2>0 DEF Types, Chunks, UartInOrder, IsChunkOf
    <3>2. \A i \in 1..Len(kept) : Ends(processor) < Begins(kept[i])
      BY <1>1, <2>0 DEF UartInOrder
    <3>3. k # 0 => Ends(processor) < Begins(new)
      <4>1. k # 0 => Begins(new) \in Nat /\ Begins(new) > sent[Uart]
        BY <1>2, ChunkPositions
      <4>2. Ends(processor) \in Nat
        BY <3>1, ChunkPositions
      <4>3. QED  BY <2>b, <3>1, <4>1, <4>2
    <3>4. IsChunkOf(processor, Uart)'
      BY <1>0, <1>10, <1>e, <3>1 DEF IsChunkOf
    <3>5. QED  BY <2>a, <3>2, <3>3, <3>4
  <2>6. Pending("processor") => Begins(processor) > passed[Uart]
    BY <2>0 DEF UartInOrder
  <2>c. /\ passed' = passed /\ processor' = processor
        /\ Pending("processor")' <=> Pending("processor")
    BY <1>e, <1>f
  <2>7. QED  BY <2>1, <2>3, <2>4, <2>5, <2>6, <2>c DEF UartInOrder
<1>13. QED  BY <1>5, <1>7, <1>8, <1>9, <1>11, <1>12 DEF BridgeInv

LEMMA ProcessorTakesKeeps ==
  ASSUME BridgeAssumption, BridgeInv, ProcessorTakes
  PROVE  BridgeInv'
<1>0. /\ Types /\ full \in Seq(Chunks) /\ full # <<>> /\ processor = <<>>
      /\ processor' = Head(full) /\ full' = Tail(full)
      /\ UNCHANGED <<sent, nFree, datagram, cycle, resp, own, said, passed>>
      /\ passed \in [Peers -> Nat] /\ sent \in [Peers -> Nat] /\ nFree \in 0..NBuffers
  BY DEF BridgeInv, Types, ProcessorTakes, peerVars, mavVars, historyVars
<1>1. /\ full' \in Seq(Chunks) /\ Len(full) \in Nat \ {0} /\ Len(full') = Len(full) - 1
      /\ \A i \in 1..Len(full') : full'[i] = full[i + 1]
      /\ processor' = full[1] /\ processor' \in Chunks
  <2>1. /\ Tail(full) \in Seq(Chunks) /\ Len(full) \in Nat \ {0} /\ Len(Tail(full)) = Len(full) - 1
        /\ \A i \in 1..(Len(full) - 1) : Tail(full)[i] = full[i + 1]
        /\ Head(full) = full[1] /\ full[1] \in Chunks
    BY <1>0, Popped
  <2>2. QED  BY <1>0, <2>1
<1>a. PICK job : job = Job("processor", 0)
  OBVIOUS
<1>2. job \in Jobs /\ job.owner = "processor" /\ queue' = Append(queue, job)
  BY <1>a DEF Job, Jobs, Owners, ProcessorTakes
<1>3. processor' \in Seq(Pieces) /\ processor' # <<>>
  BY <1>1 DEF Chunks
<1>4. queue' \in Seq(Jobs)
  BY <1>0, <1>2, Pushed DEF Types
<1>5. Types'
  BY <1>0, <1>1, <1>3, <1>4 DEF Types, ProcessorTakes, peerVars, mavVars, historyVars
<1>6. BuffersConserved'
  BY <1>0, <1>1, <1>3 DEF BridgeInv, BuffersConserved, NBuffers
<1>7. ~Waits("processor") /\ OneJob("processor") /\ OneJob("socket")
  BY <1>0 DEF BridgeInv, CallersWait
<1>8. /\ OneJob("processor")' /\ OneJob("socket")'
      /\ Waits("socket")' => Waits("socket")
      /\ Pending("socket")' => Pending("socket")
  BY <1>0, <1>2, <1>7, PushJob DEF Owners
<1>9. CallersWait'
  BY <1>0, <1>3, <1>8 DEF BridgeInv, CallersWait
<1>10. DelayedIds'
  <2>1. \A i \in 1..Len(queue') : (i \in 1..Len(queue) /\ queue'[i] = queue[i]) \/ queue'[i] = job
    <3>1. queue \in Seq(Jobs) /\ Len(queue) \in Nat
      BY <1>0 DEF Types
    <3>2. /\ Len(queue') = Len(queue) + 1 /\ queue'[Len(queue) + 1] = job
          /\ \A i \in 1..Len(queue) : queue'[i] = queue[i]
      BY <1>2, <3>1, Pushed
    <3>3. QED  BY <3>1, <3>2
  <2>2. QED  BY <1>0, <1>2, <2>1 DEF BridgeInv, DelayedIds, DelayedId
<1>11. SliceInChunk' /\ RespInUse'
  <2>1. cycle.owner # "processor"
    BY <1>7 DEF Waits
  <2>2. QED  BY <1>0, <2>1, CycleKept
<1>12. DatagramsInOrder'
  <2>1. \A chunk, peer : IsChunkOf(chunk, peer)' <=> IsChunkOf(chunk, peer)
    BY <1>0 DEF IsChunkOf
  <2>2. QED  BY <1>0, <1>8, <2>1 DEF BridgeInv, DatagramsInOrder
<1>13. UartInOrder'
  <2>0. UartInOrder
    BY DEF BridgeInv
  <2>1. \A chunk, peer : IsChunkOf(chunk, peer)' <=> IsChunkOf(chunk, peer)
    BY <1>0 DEF IsChunkOf
  <2>2. \A i \in 1..Len(full') : i + 1 \in 1..Len(full) /\ 1 < i + 1 /\ full'[i] = full[i + 1]
    BY <1>1
  <2>3. 1 \in 1..Len(full)
    BY <1>1
  <2>4. \A i \in 1..Len(full') : Ends(processor') < Begins(full'[i])
    BY <1>1, <2>0, <2>2, <2>3 DEF UartInOrder
  <2>5. \A i, j \in 1..Len(full') : i < j => Ends(full'[i]) < Begins(full'[j])
    <3>1. ASSUME NEW i \in 1..Len(full'), NEW j \in 1..Len(full'), i < j
          PROVE  Ends(full'[i]) < Begins(full'[j])
      <4>1. i + 1 \in 1..Len(full) /\ j + 1 \in 1..Len(full) /\ i + 1 < j + 1
        BY <2>2, <3>1
      <4>2. Ends(full[i + 1]) < Begins(full[j + 1])
        BY <4>1, <2>0 DEF UartInOrder
      <4>3. QED  BY <4>2, <2>2
    <3>2. QED  BY <3>1
  <2>6. Begins(processor') > passed'[Uart]
    BY <1>0, <1>1, <2>0, <2>3 DEF UartInOrder
  <2>7. IsChunkOf(processor, Uart)'
    <3>1. IsChunkOf(full[1], Uart)
      BY <2>0, <2>3 DEF UartInOrder
    <3>2. QED  BY <1>0, <1>1, <3>1 DEF IsChunkOf
  <2>8. (\A i \in 1..Len(full) : IsChunkOf(full[i], Uart) /\ Begins(full[i]) > passed[Uart])'
    <3>1. \A i \in 1..Len(full) : IsChunkOf(full[i], Uart) /\ Begins(full[i]) > passed[Uart]
      BY <2>0 DEF UartInOrder
    <3>2. QED  BY <1>0, <2>2, <3>1 DEF IsChunkOf
  <2>9. passed'[Uart] <= sent'[Uart]
    BY <1>0, <2>0 DEF UartInOrder
  <2>10. QED  BY <2>4, <2>5, <2>6, <2>7, <2>8, <2>9 DEF UartInOrder
<1>14. SentAsComposed'
  BY <1>0 DEF BridgeInv, SentAsComposed
<1>15. QED  BY <1>5, <1>6, <1>9, <1>10, <1>11, <1>12, <1>13, <1>14 DEF BridgeInv

LEMMA ProcessorReturnsKeeps ==
  ASSUME BridgeAssumption, BridgeInv, ProcessorReturns
  PROVE  BridgeInv'
<1>0. /\ Types /\ processor # <<>> /\ processor' = <<>> /\ nFree' = nFree + 1
      /\ UNCHANGED <<sent, full, datagram, queue, cycle, resp, own, said, passed>>
      /\ nFree \in Nat /\ Len(full) \in Nat /\ ~Waits("processor")
  BY DEF BridgeInv, Types, ProcessorReturns, peerVars, workVars, mavVars, historyVars, NBuffers
<1>1. BuffersConserved' /\ nFree' \in 0..NBuffers
  <2>1. nFree + Len(full) + 1 = 3
    BY <1>0 DEF BridgeInv, BuffersConserved, NBuffers
  <2>2. QED  BY <1>0, <2>1 DEF BuffersConserved, NBuffers
<1>2. Types'
  BY <1>0, <1>1 DEF Types, ProcessorReturns, peerVars, workVars, mavVars, historyVars
<1>3. \A o : (OneJob(o)' <=> OneJob(o)) /\ (Waits(o)' <=> Waits(o)) /\ (Pending(o)' <=> Pending(o))
  BY <1>0 DEF OneJob, Waits, Pending, JobsOf
<1>4. CallersWait'
  BY <1>0, <1>3 DEF BridgeInv, CallersWait
<1>5. DelayedIds' /\ SentAsComposed'
  BY <1>0 DEF BridgeInv, DelayedIds, DelayedId, SentAsComposed
<1>6. cycle.owner # "processor" /\ ~Pending("processor")
  BY <1>0 DEF Waits, Pending, JobsOf
<1>7. SliceInChunk' /\ RespInUse'
  BY <1>0, <1>6, CycleKept
<1>8. \A chunk, peer : IsChunkOf(chunk, peer)' <=> IsChunkOf(chunk, peer)
  BY <1>0 DEF IsChunkOf
<1>9. UartInOrder'
  BY <1>0, <1>3, <1>6, <1>8 DEF BridgeInv, UartInOrder
<1>10. DatagramsInOrder'
  BY <1>0, <1>3, <1>8 DEF BridgeInv, DatagramsInOrder
<1>11. QED  BY <1>1, <1>2, <1>4, <1>5, <1>7, <1>9, <1>10 DEF BridgeInv

-----------------------------------------------------------------------------
(* The other threads that notify *)

LEMMA ReceiveKeeps ==
  ASSUME BridgeAssumption, BridgeInv, NEW client \in Clients, NEW n \in 1..NUdp, Receive(client, n)
  PROVE  BridgeInv'
<1>0. /\ Types /\ client \in Peers /\ client # Uart /\ NUdp \in Nat
      /\ UNCHANGED <<nFree, full, processor, cycle, resp, own, said, passed>>
      /\ passed \in [Peers -> Nat] /\ sent \in [Peers -> Nat] /\ ~Waits("socket")
  BY DEF BridgeInv, Types, Receive, uartVars, mavVars, historyVars, Peers, Uart, BridgeAssumption
<1>a. PICK s : s = Stream(client, sent[client], sent[client] + 2 * n)
  OBVIOUS
<1>1. s \in Chunks /\ s[1][1] = client /\ IsChunkOf(s, client)' /\ Begins(s) > sent[client]
  <2>1. PICK k : k = 2 * n
    OBVIOUS
  <2>2. k \in Nat \ {0} /\ s = Stream(client, sent[client], sent[client] + k)
    BY <1>0, <1>a, <2>1
  <2>3. sent' = [sent EXCEPT ![client] = @ + k] /\ sent[client] + k <= 2 * Total(client)
    BY <1>0, <2>1 DEF Receive, Total
  <2>4. QED  BY <1>0, <2>2, <2>3, NewChunk
<1>2. /\ sent' \in [Peers -> Nat]
      /\ \A p \in Peers : sent'[p] >= sent[p] /\ sent'[p] \in Nat /\ sent[p] \in Nat
      /\ \A c \in Chunks : \A p \in Peers : IsChunkOf(c, p) => IsChunkOf(c, p)'
  <2>1. PICK k : k = 2 * n
    OBVIOUS
  <2>2. k \in Nat /\ sent' = [sent EXCEPT ![client] = @ + k]
    BY <1>0, <2>1 DEF Receive
  <2>3. /\ sent' \in [Peers -> Nat]
        /\ \A p \in Peers : sent'[p] >= sent[p]
        /\ \A c \in Chunks : \A p \in Peers : IsChunkOf(c, p) => IsChunkOf(c, p)'
    BY <1>0, <2>2, SentGrows
  <2>4. QED  BY <1>0, <2>3
<1>3. datagram' = s /\ datagram' \in Seq(Pieces) /\ datagram' # <<>>
  BY <1>a, <1>1 DEF Receive, Chunks
<1>b. PICK job : job = Job("socket", 0)
  OBVIOUS
<1>4. job \in Jobs /\ job.owner = "socket" /\ queue' = Append(queue, job)
  BY <1>b DEF Job, Jobs, Owners, Receive
<1>5. queue' \in Seq(Jobs)
  BY <1>0, <1>4, Pushed DEF Types
<1>6. Types'
  BY <1>0, <1>2, <1>3, <1>5 DEF Types, Receive, mavVars, historyVars
<1>7. OneJob("processor") /\ OneJob("socket")
  BY DEF BridgeInv, CallersWait
<1>8. /\ OneJob("processor")' /\ OneJob("socket")'
      /\ Waits("processor")' => Waits("processor")
      /\ Pending("processor")' => Pending("processor")
  BY <1>0, <1>4, <1>7, PushJob DEF Owners
<1>9. CallersWait'
  BY <1>0, <1>3, <1>8 DEF BridgeInv, CallersWait
<1>10. DelayedIds'
  <2>1. \A i \in 1..Len(queue') : (i \in 1..Len(queue) /\ queue'[i] = queue[i]) \/ queue'[i] = job
    <3>1. queue \in Seq(Jobs) /\ Len(queue) \in Nat
      BY <1>0 DEF Types
    <3>2. /\ Len(queue') = Len(queue) + 1 /\ queue'[Len(queue) + 1] = job
          /\ \A i \in 1..Len(queue) : queue'[i] = queue[i]
      BY <1>4, <3>1, Pushed
    <3>3. QED  BY <3>1, <3>2
  <2>2. QED  BY <1>0, <1>4, <2>1 DEF BridgeInv, DelayedIds, DelayedId
<1>11. SliceInChunk' /\ RespInUse'
  <2>1. cycle.owner # "socket"
    BY <1>0 DEF Waits
  <2>2. QED  BY <1>0, <2>1, CycleKept
<1>12. DatagramsInOrder'
  <2>1. \A c \in Clients : c \in Peers /\ passed[c] \in Nat /\ passed[c] <= sent[c]
    BY <1>0 DEF BridgeInv, DatagramsInOrder, Peers
  <2>2. \A c \in Clients : passed'[c] <= sent'[c]
    BY <1>0, <1>2, <2>1
  <2>3. Begins(s) > passed[client]
    <3>1. Begins(s) \in Nat
      BY <1>1, ChunkPositions
    <3>2. QED  BY <1>0, <1>1, <2>1, <3>1
  <2>4. datagram'[1][1] = client /\ IsChunkOf(datagram, client)'
    BY <1>1, <1>3 DEF IsChunkOf
  <2>5. QED  BY <1>0, <1>3, <2>2, <2>3, <2>4 DEF DatagramsInOrder
<1>13. UartInOrder'
  <2>0. UartInOrder /\ Uart \in Peers /\ full \in Seq(Chunks)
    BY <1>0 DEF BridgeInv, Peers, Types
  <2>1. \A i \in 1..Len(full) : full[i] \in Chunks
    BY <2>0
  <2>2. processor # <<>> => processor \in Chunks
    BY <1>0 DEF Types, Chunks
  <2>3. passed'[Uart] <= sent'[Uart]
    BY <1>0, <1>2, <2>0 DEF UartInOrder
  <2>4. (\A i \in 1..Len(full) : IsChunkOf(full[i], Uart) /\ Begins(full[i]) > passed[Uart])'
    <3>1. PICK f : f = full
      OBVIOUS
    <3>2. \A i \in 1..Len(f) : IsChunkOf(f[i], Uart) /\ Begins(f[i]) > passed[Uart]
      BY <2>0, <3>1 DEF UartInOrder
    <3>3. \A i \in 1..Len(f) : IsChunkOf(f[i], Uart)'
      BY <1>2, <2>0, <2>1, <3>1, <3>2
    <3>4. QED  BY <1>0, <3>1, <3>2, <3>3 DEF IsChunkOf
  <2>5. processor # <<>> => IsChunkOf(processor, Uart)'
    BY <1>0, <1>2, <2>0, <2>2 DEF UartInOrder, IsChunkOf
  <2>6. QED  BY <1>0, <1>8, <2>0, <2>3, <2>4, <2>5 DEF UartInOrder
<1>14. BuffersConserved' /\ SentAsComposed'
  BY <1>0 DEF BridgeInv, BuffersConserved, SentAsComposed
<1>15. QED  BY <1>6, <1>9, <1>10, <1>11, <1>12, <1>13, <1>14 DEF BridgeInv

\* A job that refers to no buffer is queued, possibly after the heartbeat has been packed.
LEMMA OwnJobKeeps ==
  ASSUME BridgeAssumption, BridgeInv, NEW job \in Jobs, job.owner \in {"timer", "delayed"},
         DelayedId(job.owner, job.id), own < MaxOwn, own' = own + 1, resp' \in {resp, Beat},
         queue' = Append(queue, job),
         UNCHANGED <<peerVars, uartVars, datagram, cycle, parser, mixed, clientsUdp, historyVars>>
  PROVE  BridgeInv'
<1>0. /\ Types /\ own \in Nat /\ MaxOwn \in Nat /\ Beat \in Contents
      /\ UNCHANGED <<kinds, sent, nFree, full, processor, said, passed>>
  BY DEF BridgeInv, Types, BridgeAssumption, Contents, peerVars, uartVars, historyVars
<1>1. /\ queue' \in Seq(Jobs)
      /\ \A i \in 1..Len(queue') : (i \in 1..Len(queue) /\ queue'[i] = queue[i]) \/ queue'[i] = job
  <2>1. queue \in Seq(Jobs) /\ Len(queue) \in Nat
    BY <1>0 DEF Types
  <2>2. /\ queue' \in Seq(Jobs)
        /\ Len(queue') = Len(queue) + 1 /\ queue'[Len(queue) + 1] = job
        /\ \A i \in 1..Len(queue) : queue'[i] = queue[i]
    BY <2>1, Pushed
  <2>3. QED  BY <2>1, <2>2
<1>2. Types'
  BY <1>0, <1>1 DEF Types
<1>3. OneJob("processor") /\ OneJob("socket")
  BY DEF BridgeInv, CallersWait
<1>4. ASSUME NEW o \in {"processor", "socket"}, OneJob(o)
      PROVE  OneJob(o)' /\ (Waits(o)' => Waits(o)) /\ (Pending(o)' => Pending(o))
  <2>1. o \in Owners /\ o # job.owner
    BY DEF Owners
  <2>2. QED  BY <1>0, <1>4, <2>1, PushJob
<1>5. CallersWait'
  BY <1>0, <1>3, <1>4 DEF BridgeInv, CallersWait
<1>6. UartInOrder' /\ DatagramsInOrder'
  BY <1>0, <1>3, <1>4, OrderKept DEF BridgeInv
<1>7. DelayedIds'
  BY <1>0, <1>1 DEF BridgeInv, DelayedIds, DelayedId
<1>8. SliceInChunk' /\ RespInUse'
  BY <1>0, CycleKept
<1>9. BuffersConserved' /\ SentAsComposed'
  BY <1>0 DEF BridgeInv, BuffersConserved, SentAsComposed
<1>10. QED  BY <1>2, <1>5, <1>6, <1>7, <1>8, <1>9 DEF BridgeInv

LEMMA HeartbeatKeeps ==
  ASSUME BridgeAssumption, BridgeInv, Heartbeat
  PROVE  BridgeInv'
<1>1. PICK job : job = Job("timer", 0)
  OBVIOUS
<1>2. job \in Jobs /\ job.owner = "timer" /\ DelayedId(job.owner, job.id)
  BY <1>1 DEF Job, Jobs, Owners, DelayedId
<1>3. /\ own < MaxOwn /\ own' = own + 1 /\ resp' \in {resp, Beat} /\ queue' = Append(queue, job)
      /\ UNCHANGED <<peerVars, uartVars, datagram, cycle, parser, mixed, clientsUdp, historyVars>>
  BY <1>1 DEF Heartbeat
<1>4. QED  BY <1>2, <1>3, OwnJobKeeps

LEMMA AsyncSendKeeps ==
  ASSUME BridgeAssumption, BridgeInv, AsyncSend
  PROVE  BridgeInv'
<1>0. own \in Nat /\ MaxOwn \in Nat /\ own < MaxOwn /\ own' = own + 1
  BY DEF BridgeInv, Types, BridgeAssumption, AsyncSend
<1>1. PICK job : job = Job("delayed", own')
  OBVIOUS
<1>2. job \in Jobs /\ job.owner = "delayed" /\ DelayedId(job.owner, job.id)
  BY <1>0, <1>1 DEF Job, Jobs, Owners, DelayedId
<1>3. /\ resp' \in {resp, Beat} /\ queue' = Append(queue, job)
      /\ UNCHANGED <<peerVars, uartVars, datagram, cycle, parser, mixed, clientsUdp, historyVars>>
  BY <1>1 DEF AsyncSend, mavVars
<1>4. QED  BY <1>0, <1>2, <1>3, OwnJobKeeps

-----------------------------------------------------------------------------
(* The turns of the work queue *)

LEMMA NotifyBeginKeeps ==
  ASSUME BridgeAssumption, BridgeInv, NotifyBegin
  PROVE  BridgeInv'
<1>0. /\ Types /\ cycle = NoCycle /\ queue \in Seq(Jobs) /\ queue # <<>> /\ queue' = Tail(queue)
      /\ UNCHANGED <<kinds, sent, nFree, full, processor, datagram, parser, mixed, clientsUdp, own, said,
                     passed>>
      /\ MaxOwn \in Nat
  BY DEF BridgeInv, Types, NotifyBegin, peerVars, uartVars, BridgeAssumption
<1>a. PICK job : job = Head(queue)
  OBVIOUS
<1>1. /\ queue' \in Seq(Jobs) /\ Len(queue) \in Nat \ {0} /\ Len(queue') = Len(queue) - 1
      /\ \A i \in 1..(Len(queue) - 1) : queue'[i] = queue[i + 1]
      /\ job = queue[1] /\ job \in Jobs
  BY <1>0, <1>a, Popped
<1>2. job.owner \in Owners /\ job.id \in Nat
  BY <1>1 DEF Jobs
<1>3. /\ job.turn = 1
      /\ cycle' = [owner |-> job.owner, id |-> job.id, todo |-> Takers(Origin(job.owner)),
                   at |-> 0, out |-> <<>>, reply |-> 0]
      /\ resp' = IF job.owner = "delayed" THEN Delayed(job.id) ELSE resp
  BY <1>a DEF NotifyBegin
<1>4. Takers(Origin(job.owner)) \subseteq Registry
  BY <1>2, OwnerFacts
<1>5. /\ cycle' \in Cycles /\ cycle'.owner = job.owner /\ cycle'.id = job.id
      /\ cycle'.todo = Takers(Origin(job.owner)) /\ cycle'.at = 0 /\ cycle'.reply = 0
  BY <1>2, <1>3, <1>4 DEF Cycles
<1>6. DelayedId(job.owner, job.id)
  BY <1>1 DEF BridgeInv, DelayedIds
<1>7. resp' \in Contents
  <2>1. job.owner = "delayed" => Delayed(job.id) \in Contents
    BY <1>6 DEF DelayedId, Contents
  <2>2. QED  BY <1>0, <1>3, <2>1 DEF Types
<1>8. Types'
  BY <1>0, <1>1, <1>5, <1>7 DEF Types
<1>9. ASSUME NEW o \in {"processor", "socket"}
      PROVE  OneJob(o)' /\ (Waits(o)' => Waits(o)) /\ (Pending(o)' => Pending(o))
  <2>1. o \in Owners /\ OneJob(o)
    BY DEF Owners, BridgeInv, CallersWait
  <2>2. Head(queue).turn = 1 /\ cycle'.owner = Head(queue).owner
    BY <1>a, <1>3, <1>5
  <2>3. QED  BY <1>0, <2>1, <2>2, BeginJob
<1>10. CallersWait'
  BY <1>0, <1>9 DEF BridgeInv, CallersWait
<1>11. UartInOrder' /\ DatagramsInOrder'
  BY <1>0, <1>9, OrderKept DEF BridgeInv
<1>12. DelayedIds'
  <2>1. \A i \in 1..Len(queue') : i + 1 \in 1..Len(queue) /\ queue'[i] = queue[i + 1]
    BY <1>1
  <2>2. QED  BY <1>0, <1>5, <1>6, <2>1 DEF BridgeInv, DelayedIds
<1>13. SliceInChunk'
  <2>1. "Mavlink" \in cycle'.todo => job.owner \in {"processor", "socket"}
    BY <1>2, <1>5, OwnerFacts DEF Owners
  <2>2. job.owner = "processor" => Chunk' = processor /\ processor # <<>>
    <3>1. job.owner = "processor" => Waits("processor")
      BY <1>1 DEF Waits
    <3>2. QED  BY <1>0, <1>5, <3>1 DEF BridgeInv, CallersWait, Chunk, Buffer
  <2>3. job.owner = "socket" => Chunk' = datagram /\ datagram # <<>>
    <3>1. job.owner = "socket" => Waits("socket")
      BY <1>1 DEF Waits
    <3>2. QED  BY <1>0, <1>5, <3>1 DEF BridgeInv, CallersWait, Chunk, Buffer
  <2>4. \A s \in Seq(Pieces) : s # <<>> => 0 < Len(s)
    OBVIOUS
  <2>5. "Mavlink" \in cycle'.todo => 0 < Len(Chunk')
    BY <1>0, <2>1, <2>2, <2>3, <2>4 DEF Types
  <2>6. QED  BY <1>5, <2>5 DEF SliceInChunk
<1>14. RespInUse'
  BY <1>3, <1>5 DEF RespInUse
<1>15. BuffersConserved' /\ SentAsComposed'
  BY <1>0 DEF BridgeInv, BuffersConserved, SentAsComposed
<1>16. QED  BY <1>8, <1>10, <1>11, <1>12, <1>13, <1>14, <1>15 DEF BridgeInv

LEMMA NotifyEndKeeps ==
  ASSUME BridgeAssumption, BridgeInv, NotifyEnd
  PROVE  BridgeInv'
<1>0. /\ Types /\ cycle # NoCycle /\ cycle \in Cycles /\ queue \in Seq(Jobs) /\ cycle' = NoCycle
      /\ queue' = Append(queue, [owner |-> cycle.owner, id |-> cycle.id, turn |-> 2])
      /\ said' = {} /\ mixed' = FALSE
      /\ UNCHANGED <<kinds, sent, nFree, full, processor, datagram, parser, resp, clientsUdp, own>>
      /\ passed \in [Peers -> Nat] /\ sent \in [Peers -> Nat]
  BY DEF BridgeInv, Types, NotifyEnd, peerVars, uartVars
<1>1. cycle.owner \in Owners /\ cycle.id \in Nat
  BY <1>0 DEF Cycles
<1>a. PICK job : job = [owner |-> cycle.owner, id |-> cycle.id, turn |-> 2]
  OBVIOUS
<1>2. job \in Jobs /\ job.owner = cycle.owner /\ job.id = cycle.id
  BY <1>1, <1>a DEF Jobs
<1>3. /\ queue' \in Seq(Jobs) /\ Len(queue) \in Nat /\ Len(queue') = Len(queue) + 1
      /\ \A i \in 1..Len(queue) : queue'[i] = queue[i]
      /\ queue'[Len(queue) + 1] = job
  BY <1>0, <1>2, <1>a, Pushed
<1>4. /\ Origin(cycle.owner) = "Mavlink" => passed' = passed
      /\ Origin(cycle.owner) # "Mavlink" =>
           passed' = [passed EXCEPT ![Source(cycle.owner)] = Ends(Chunk)]
  BY DEF NotifyEnd, Last, Ends
<1>5. cycle.owner \in {"processor", "socket"} =>
        /\ Chunk \in Chunks /\ Source(cycle.owner) \in Peers
        /\ Ends(Chunk) \in Nat /\ Ends(Chunk) <= sent[Source(cycle.owner)]
  BY <1>0, ChunkFacts, ChunkPositions
<1>6. passed' \in [Peers -> Nat]
  BY <1>0, <1>1, <1>4, <1>5, OwnerFacts
<1>7. Types'
  BY <1>0, <1>3, <1>6 DEF Types
<1>8. ASSUME NEW o \in {"processor", "socket"}
      PROVE  OneJob(o)' /\ (Waits(o)' => Waits(o)) /\ (Pending(o)' => Pending(o) /\ o # cycle.owner)
  <2>1. o \in Owners /\ OneJob(o)
    BY DEF Owners, BridgeInv, CallersWait
  <2>2. QED  BY <1>0, <2>1, EndTurn
<1>9. CallersWait'
  BY <1>0, <1>8 DEF BridgeInv, CallersWait
<1>10. DelayedIds'
  <2>1. DelayedId(job.owner, job.id)
    BY <1>0, <1>2 DEF BridgeInv, DelayedIds
  <2>2. \A i \in 1..Len(queue') : (i \in 1..Len(queue) /\ queue'[i] = queue[i]) \/ queue'[i] = job
    BY <1>3
  <2>3. QED  BY <1>0, <2>1, <2>2 DEF BridgeInv, DelayedIds
<1>11. SliceInChunk' /\ RespInUse' /\ BuffersConserved' /\ SentAsComposed'
  BY <1>0 DEF BridgeInv, SliceInChunk, RespInUse, BuffersConserved, SentAsComposed
<1>12. \A chunk, peer : IsChunkOf(chunk, peer)' <=> IsChunkOf(chunk, peer)
  BY <1>0 DEF IsChunkOf
<1>13. Uart \in Peers /\ Uart \notin Clients /\ \A c \in Clients : c \in Peers
  BY DEF Peers, Uart, BridgeAssumption
<1>14. UartInOrder'
  <2>0. UartInOrder
    BY DEF BridgeInv
  <2>1. CASE cycle.owner = "processor"
    <3>1. processor # <<>> /\ Chunk = processor /\ Source(cycle.owner) = Uart
      BY <1>0, <2>1, ChunkFacts DEF BridgeInv, CallersWait, Waits
    <3>2. passed'[Uart] = Ends(processor) /\ passed'[Uart] <= sent[Uart]
      BY <1>0, <1>1, <1>4, <1>5, <1>13, <2>1, <3>1, OwnerFacts
    <3>3. ~Pending("processor")'
      BY <1>8, <2>1
    <3>4. \A i \in 1..Len(full) : Begins(full[i]) > passed'[Uart]
      <4>1. full \in Seq(Chunks) /\ processor \in Chunks
        BY <1>0, <3>1 DEF Types, Chunks
      <4>a. \A i \in 1..Len(full) : full[i] \in Chunks
        BY <4>1
      <4>2. \A i \in 1..Len(full) : Begins(full[i]) \in Nat
        BY <4>a, ChunkPositions
      <4>3. Ends(processor) \in Nat
        BY <4>1, ChunkPositions
      <4>4. \A i \in 1..Len(full) : Ends(processor) < Begins(full[i])
        BY <2>0, <3>1 DEF UartInOrder
      <4>5. QED  BY <3>2, <4>2, <4>3, <4>4
    <3>5. QED  BY <1>0, <1>12, <2>0, <3>2, <3>3, <3>4 DEF UartInOrder
  <2>2. CASE cycle.owner # "processor"
    <3>1. passed'[Uart] = passed[Uart]
      <4>1. CASE cycle.owner = "socket"
        <5>1. Source(cycle.owner) \in Clients
          BY <1>0, <4>1, ChunkFacts
        <5>2. QED  BY <1>0, <1>4, <1>13, <5>1
      <4>2. CASE cycle.owner # "socket"
        BY <1>1, <1>4, <2>2, <4>2, OwnerFacts
      <4>3. QED  BY <4>1, <4>2
    <3>2. Pending("processor")' => Pending("processor")
      BY <1>8
    <3>3. QED  BY <1>0, <1>12, <2>0, <3>1, <3>2 DEF UartInOrder
  <2>3. QED  BY <2>1, <2>2
<1>15. DatagramsInOrder'
  <2>0. DatagramsInOrder
    BY DEF BridgeInv
  <2>1. CASE cycle.owner = "socket"
    <3>1. Source(cycle.owner) \in Clients
      BY <1>0, <2>1, ChunkFacts
    <3>2. \A c \in Clients : passed'[c] <= sent'[c]
      <4>1. PICK p, e : p = Source(cycle.owner) /\ e = Ends(Chunk)
        OBVIOUS
      <4>2. passed' = [passed EXCEPT ![p] = e] /\ e <= sent[p]
        BY <1>1, <1>4, <1>5, <2>1, <4>1, OwnerFacts
      <4>3. \A c \in Clients : passed[c] <= sent[c]
        BY <2>0 DEF DatagramsInOrder
      <4>4. \A c \in Clients : passed'[c] = IF c = p THEN e ELSE passed[c]
        BY <1>0, <1>13, <4>2
      <4>5. QED  BY <1>0, <4>2, <4>3, <4>4
    <3>3. ~Pending("socket")'
      BY <1>8, <2>1
    <3>4. QED  BY <1>0, <1>12, <2>0, <3>2, <3>3 DEF DatagramsInOrder
  <2>2. CASE cycle.owner # "socket"
    <3>1. \A c \in Clients : passed'[c] = passed[c]
      <4>1. CASE cycle.owner = "processor"
        <5>1. Source(cycle.owner) = Uart
          BY <1>0, <4>1, ChunkFacts
        <5>2. QED  BY <1>0, <1>4, <1>13, <5>1
      <4>2. CASE cycle.owner # "processor"
        BY <1>1, <1>4, <2>2, <4>2, OwnerFacts
      <4>3. QED  BY <4>1, <4>2
    <3>2. Pending("socket")' => Pending("socket")
      BY <1>8
    <3>3. QED  BY <1>0, <1>12, <2>0, <3>1, <3>2 DEF DatagramsInOrder
  <2>3. QED  BY <2>1, <2>2
<1>16. QED  BY <1>7, <1>9, <1>10, <1>11, <1>14, <1>15 DEF BridgeInv

LEMMA FinishKeeps ==
  ASSUME BridgeAssumption, BridgeInv, Finish
  PROVE  BridgeInv'
<1>0. /\ Types /\ queue \in Seq(Jobs) /\ queue # <<>> /\ queue' = Tail(queue)
      /\ UNCHANGED <<kinds, sent, nFree, full, processor, datagram, cycle, parser, resp, mixed, clientsUdp,
                     own, said, passed>>
  BY DEF BridgeInv, Types, Finish, peerVars, uartVars, mavVars, historyVars
<1>1. /\ queue' \in Seq(Jobs) /\ Len(queue) \in Nat \ {0} /\ Len(queue') = Len(queue) - 1
      /\ \A i \in 1..(Len(queue) - 1) : queue'[i] = queue[i + 1]
  BY <1>0, Popped
<1>2. Types'
  BY <1>0, <1>1 DEF Types
<1>3. ASSUME NEW o \in {"processor", "socket"}
      PROVE  OneJob(o)' /\ (Waits(o)' => Waits(o)) /\ (Pending(o)' => Pending(o))
  <2>1. o \in Owners /\ OneJob(o)
    BY DEF Owners, BridgeInv, CallersWait
  <2>2. QED  BY <1>0, <2>1, FinishJob
<1>4. CallersWait'
  BY <1>0, <1>3 DEF BridgeInv, CallersWait
<1>5. UartInOrder' /\ DatagramsInOrder'
  BY <1>0, <1>3, OrderKept DEF BridgeInv
<1>6. DelayedIds'
  <2>1. \A i \in 1..Len(queue') : i + 1 \in 1..Len(queue) /\ queue'[i] = queue[i + 1]
    BY <1>1
  <2>2. QED  BY <1>0, <2>1 DEF BridgeInv, DelayedIds
<1>7. SliceInChunk' /\ RespInUse'
  BY <1>0, CycleKept
<1>8. BuffersConserved' /\ SentAsComposed'
  BY <1>0 DEF BridgeInv, BuffersConserved, SentAsComposed
<1>9. QED  BY <1>2, <1>4, <1>5, <1>6, <1>7, <1>8 DEF BridgeInv

-----------------------------------------------------------------------------
(* Within a cycle: the dispatcher and the hooks *)

LEMMA AdvanceFacts ==
  ASSUME BridgeInv, At("Mavlink"), NEW n \in 1..Len(Rest), NEW out \in Seq(Pieces), Advance(n, out)
  PROVE  /\ cycle' \in Cycles /\ cycle'.owner = cycle.owner /\ cycle'.id = cycle.id
         /\ cycle'.todo \subseteq cycle.todo /\ cycle'.reply = 0
         /\ "Mavlink" \in cycle'.todo => cycle'.at < Len(Chunk)
<1>0. cycle # NoCycle /\ "Mavlink" \in cycle.todo /\ cycle \in Cycles
  BY DEF At, BridgeInv, Types
<1>1. cycle.at \in Nat /\ Len(Chunk) \in Nat /\ Len(Rest) = Len(Chunk) - cycle.at
  BY <1>0, RestFacts
<1>2. CASE n = Len(Rest)
  <2>1. cycle' = [cycle EXCEPT !.todo = @ \ {"Mavlink"}, !.at = 0, !.out = <<>>, !.reply = 0]
    BY <1>2 DEF Advance
  <2>2. cycle.todo \ {"Mavlink"} \in SUBSET Registry /\ <<>> \in Seq(Pieces)
    BY <1>0 DEF Cycles
  <2>3. QED  BY <1>0, <2>1, <2>2 DEF Cycles
<1>3. CASE n # Len(Rest)
  <2>1. cycle' = [cycle EXCEPT !.at = @ + n, !.out = out, !.reply = 0]
    BY <1>3 DEF Advance
  <2>2. PICK a : a = cycle.at + n
    OBVIOUS
  <2>3. a \in Nat /\ a < Len(Chunk)
    BY <1>1, <1>3, <2>2
  <2>4. cycle' = [cycle EXCEPT !.at = a, !.out = out, !.reply = 0]
    BY <2>1, <2>2
  <2>5. QED  BY <1>0, <2>3, <2>4 DEF Cycles
<1>4. QED  BY <1>2, <1>3

\* The dispatcher is done with a slice.
LEMMA SliceKeeps ==
  ASSUME BridgeAssumption, BridgeInv, At("Mavlink"), NEW n \in 1..Len(Rest), NEW out \in Seq(Pieces),
         Advance(n, out), parser' \in Messages \cup {NoMessage, Mess}, mixed' \in BOOLEAN,
         said' \subseteq Composed, SentAsComposed',
         UNCHANGED <<peerVars, uartVars, datagram, queue, resp, clientsUdp, own, passed>>
  PROVE  BridgeInv'
<1>0. Types /\ cycle # NoCycle /\ "Mavlink" \in cycle.todo
  BY DEF BridgeInv, At
<1>1. /\ cycle' \in Cycles /\ cycle'.owner = cycle.owner /\ cycle'.id = cycle.id
      /\ cycle'.todo \subseteq cycle.todo /\ cycle'.reply = 0
      /\ "Mavlink" \in cycle'.todo => cycle'.at < Len(Chunk)
  BY AdvanceFacts
<1>2. Types'
  BY <1>0, <1>1 DEF Types, peerVars, uartVars
<1>3. /\ BuffersConserved' /\ CallersWait' /\ DelayedIds' /\ UartInOrder' /\ DatagramsInOrder'
      /\ Chunk' = Chunk
  BY <1>0, <1>1, InCycle
<1>4. SliceInChunk'
  BY <1>0, <1>1, <1>3 DEF BridgeInv, SliceInChunk
<1>5. RespInUse'
  <2>1. cycle.owner # "delayed"
    BY <1>0, RestFacts
  <2>2. QED  BY <1>1, <2>1 DEF RespInUse
<1>6. QED  BY <1>2, <1>3, <1>4, <1>5 DEF BridgeInv

\* What a step of the dispatcher starts from.
LEMMA ProcessFacts ==
  ASSUME BridgeAssumption, BridgeInv, NEW x \in Parsings(Rest), NEW kind, Process(x, kind)
  PROVE  /\ At("Mavlink") /\ cycle # NoCycle /\ "Mavlink" \in cycle.todo /\ cycle \in Cycles
         /\ x.n \in 1..Len(Rest) /\ Rest \in Seq(Pieces) /\ Rest[x.n] \in Pieces
         /\ parser' \in Messages \cup {NoMessage, Mess} /\ mixed' \in BOOLEAN
<1>1. At("Mavlink") /\ cycle # NoCycle /\ "Mavlink" \in cycle.todo /\ cycle \in Cycles
  BY DEF Process, At, BridgeInv, Types
<1>2. Rest \in Seq(Pieces) /\ \A i \in 1..Len(Rest) : Rest[i] \in Pieces
  BY <1>1, RestFacts
<1>3. parser \in Messages \cup {NoMessage, Mess} /\ mixed \in BOOLEAN
  BY DEF BridgeInv, Types
<1>4. x.n \in 1..Len(Rest) /\ x.parser \in Messages \cup {NoMessage, Mess} /\ x.mixed \in BOOLEAN
  BY <1>2, <1>3, ParsingFacts
<1>5. parser' = x.parser /\ mixed' = x.mixed
  BY DEF Process
<1>6. QED  BY <1>1, <1>2, <1>4, <1>5

LEMMA IgnoreKeeps ==
  ASSUME BridgeAssumption, BridgeInv, NEW x \in Parsings(Rest), Ignore(x)
  PROVE  BridgeInv'
<1>1. /\ At("Mavlink") /\ x.n \in 1..Len(Rest) /\ Rest \in Seq(Pieces)
      /\ parser' \in Messages \cup {NoMessage, Mess} /\ mixed' \in BOOLEAN
  BY ProcessFacts DEF Ignore
<1>2. PICK out : out = SubSeq(Rest, 1, x.n)
  OBVIOUS
<1>3. out \in Seq(Pieces)
  BY <1>1, <1>2
<1>4. /\ Advance(x.n, out) /\ said' = said
      /\ UNCHANGED <<peerVars, uartVars, datagram, queue, resp, clientsUdp, own, passed>>
  BY <1>2 DEF Ignore
<1>5. said' \subseteq Composed /\ SentAsComposed'
  BY <1>4 DEF BridgeInv, Types, SentAsComposed
<1>6. QED  BY <1>1, <1>3, <1>4, <1>5, SliceKeeps

LEMMA ConsumeKeeps ==
  ASSUME BridgeAssumption, BridgeInv, NEW x \in Parsings(Rest), Consume(x)
  PROVE  BridgeInv'
<1>1. /\ At("Mavlink") /\ cycle \in Cycles /\ x.n \in 1..Len(Rest)
      /\ parser' \in Messages \cup {NoMessage, Mess} /\ mixed' \in BOOLEAN
  BY ProcessFacts DEF Consume
<1>2. cycle.out \in Seq(Pieces)
  BY <1>1 DEF Cycles
<1>3. /\ Advance(x.n, cycle.out) /\ said' = said
      /\ UNCHANGED <<peerVars, uartVars, datagram, queue, resp, clientsUdp, own, passed>>
  BY DEF Consume
<1>4. said' \subseteq Composed /\ SentAsComposed'
  BY <1>3 DEF BridgeInv, Types, SentAsComposed
<1>5. QED  BY <1>1, <1>2, <1>3, <1>4, SliceKeeps

LEMMA ComposeKeeps ==
  ASSUME BridgeAssumption, BridgeInv, NEW x \in Parsings(Rest), Compose(x)
  PROVE  BridgeInv'
<1>1. /\ At("Mavlink") /\ cycle # NoCycle /\ "Mavlink" \in cycle.todo /\ cycle \in Cycles
      /\ x.n \in 1..Len(Rest) /\ Rest[x.n] \in Pieces
      /\ parser' \in Messages \cup {NoMessage, Mess} /\ mixed' \in BOOLEAN
  BY ProcessFacts DEF Compose
<1>a. PICK n : n = x.n
  OBVIOUS
<1>b. PICK m : m = MessageOf(Rest[n])
  OBVIOUS
<1>2. m \in Messages
  BY <1>1, <1>a, <1>b, PieceFacts
<1>3. /\ Types /\ n \in Nat /\ n > 0 /\ cycle.at \in Nat /\ Len(Chunk) \in Nat
      /\ cycle.at + n <= Len(Chunk) /\ cycle.owner \in {"processor", "socket"}
  <2>1. PICK a, l : a = cycle.at /\ l = Len(Chunk)
    OBVIOUS
  <2>2. a \in Nat /\ l \in Nat /\ Len(Rest) = l - a /\ cycle.owner \in {"processor", "socket"}
    BY <1>1, <2>1, RestFacts
  <2>3. n \in Nat /\ n > 0 /\ a + n <= l
    BY <1>1, <1>a, <2>2
  <2>4. Types
    BY DEF BridgeInv
  <2>5. QED  BY <2>1, <2>2, <2>3, <2>4
<1>4. /\ resp' = Answer(m) /\ cycle' = [cycle EXCEPT !.reply = n]
      /\ UNCHANGED <<peerVars, uartVars, datagram, queue, clientsUdp, own, said, passed>>
  BY <1>a, <1>b DEF Compose, historyVars
<1>5. /\ cycle' \in Cycles /\ cycle'.owner = cycle.owner /\ cycle'.id = cycle.id
      /\ cycle'.todo = cycle.todo /\ cycle'.at = cycle.at /\ cycle'.reply = n /\ cycle' # NoCycle
  <2>1. /\ cycle' \in Cycles /\ cycle'.owner = cycle.owner /\ cycle'.id = cycle.id
        /\ cycle'.todo = cycle.todo /\ cycle'.at = cycle.at /\ cycle'.reply = n
    BY <1>1, <1>3, <1>4 DEF Cycles
  <2>2. QED  BY <1>3, <2>1 DEF NoCycle
<1>6. Answer(m) \in Contents
  BY <1>2 DEF Contents
<1>7. Types'
  BY <1>1, <1>3, <1>4, <1>5, <1>6 DEF Types, peerVars, uartVars
<1>8. /\ BuffersConserved' /\ CallersWait' /\ DelayedIds' /\ UartInOrder' /\ DatagramsInOrder'
      /\ Chunk' = Chunk
  BY <1>1, <1>4, <1>5, InCycle
<1>9. SliceInChunk'
  BY <1>1, <1>3, <1>5, <1>8 DEF BridgeInv, SliceInChunk
<1>10. RespInUse'
  <2>1. Rest' = Rest
    BY <1>5, <1>8 DEF Rest
  <2>2. Answer(MessageOf(Rest[cycle.reply]))' = Answer(m)
    BY <1>5, <1>b, <2>1
  <2>3. QED  BY <1>3, <1>4, <1>5, <2>2 DEF RespInUse
<1>11. SentAsComposed'
  BY <1>4 DEF BridgeInv, SentAsComposed
<1>12. QED  BY <1>7, <1>8, <1>9, <1>10, <1>11 DEF BridgeInv

LEMMA RespondKeeps ==
  ASSUME BridgeAssumption, BridgeInv, Respond
  PROVE  BridgeInv'
<1>1. At("Mavlink") /\ cycle # NoCycle /\ "Mavlink" \in cycle.todo /\ cycle \in Cycles /\ cycle.reply > 0
  BY DEF Respond, At, BridgeInv, Types
<1>2. cycle.reply \in Nat /\ cycle.out \in Seq(Pieces)
  BY <1>1 DEF Cycles
<1>3. cycle.reply \in 1..Len(Rest)
  <2>1. cycle.at + cycle.reply <= Len(Chunk)
    BY <1>1 DEF BridgeInv, SliceInChunk
  <2>2. PICK a, l, n : a = cycle.at /\ l = Len(Chunk) /\ n = cycle.reply
    OBVIOUS
  <2>3. a \in Nat /\ l \in Nat /\ Len(Rest) = l - a
    BY <1>1, <2>2, RestFacts
  <2>4. n \in Nat /\ n > 0 /\ a + n <= l
    BY <1>1, <1>2, <2>1, <2>2
  <2>5. n \in 1..Len(Rest)
    BY <2>3, <2>4
  <2>6. QED  BY <2>2, <2>5
<1>4. PICK m : m = MessageOf(Rest[cycle.reply])
  OBVIOUS
<1>5. m \in Messages
  <2>1. Rest[cycle.reply] \in Pieces
    BY <1>1, <1>3, RestFacts
  <2>2. QED  BY <1>4, <2>1, PieceFacts
<1>6. PICK e : e = [meant |-> Answer(m), is |-> resp]
  OBVIOUS
<1>7. said' = said \cup {e}
  BY <1>4, <1>6 DEF Respond
<1>8. resp \in {Answer(m), Beat} /\ resp \in Contents /\ Answer(m) \in Contents
  BY <1>1, <1>4, <1>5 DEF BridgeInv, RespInUse, Types, Contents
<1>9. e \in Composed /\ e.is = resp /\ e.meant = Answer(m)
  BY <1>6, <1>8 DEF Composed
<1>10. said' \subseteq Composed /\ SentAsComposed'
  BY <1>7, <1>8, <1>9 DEF BridgeInv, Types, SentAsComposed
<1>11. /\ Advance(cycle.reply, cycle.out) /\ parser' = parser /\ mixed' = mixed
       /\ UNCHANGED <<peerVars, uartVars, datagram, queue, resp, clientsUdp, own, passed>>
  BY DEF Respond, mavVars
<1>12. parser' \in Messages \cup {NoMessage, Mess} /\ mixed' \in BOOLEAN
  BY <1>11 DEF BridgeInv, Types
<1>13. QED  BY <1>1, <1>2, <1>3, <1>10, <1>11, <1>12, SliceKeeps

\* A hook is done.
LEMMA HookKeeps ==
  ASSUME BridgeAssumption, BridgeInv, NEW receiver, At(receiver), receiver # "Mavlink",
         cycle' = [cycle EXCEPT !.todo = @ \ {receiver}], clientsUdp' \subseteq Clients,
         said' \subseteq Composed, SentAsComposed',
         UNCHANGED <<peerVars, uartVars, datagram, queue, mavVars, own, passed>>
  PROVE  BridgeInv'
<1>0. Types /\ cycle # NoCycle /\ cycle \in Cycles
  BY DEF BridgeInv, Types, At
<1>1. cycle.todo \ {receiver} \in SUBSET Registry
  BY <1>0 DEF Cycles
<1>2. /\ cycle' \in Cycles /\ cycle'.owner = cycle.owner /\ cycle'.id = cycle.id
      /\ cycle'.todo = cycle.todo \ {receiver} /\ cycle'.at = cycle.at /\ cycle'.reply = cycle.reply
  BY <1>0, <1>1 DEF Cycles
<1>3. Types'
  BY <1>0, <1>2 DEF Types, peerVars, uartVars, mavVars
<1>4. /\ BuffersConserved' /\ CallersWait' /\ DelayedIds' /\ UartInOrder' /\ DatagramsInOrder'
      /\ Chunk' = Chunk
  BY <1>0, <1>2, InCycle
<1>5. SliceInChunk'
  BY <1>0, <1>2, <1>4 DEF BridgeInv, SliceInChunk
<1>6. RespInUse'
  <2>1. Rest' = Rest /\ resp' = resp
    BY <1>2, <1>4 DEF Rest, mavVars
  <2>2. QED  BY <1>0, <1>2, <2>1 DEF BridgeInv, RespInUse
<1>7. QED  BY <1>3, <1>4, <1>5, <1>6 DEF BridgeInv

LEMMA SendOutKeeps ==
  ASSUME BridgeAssumption, BridgeInv, NEW receiver \in {"uart", "udpPort"}, SendOut(receiver)
  PROVE  BridgeInv'
<1>1. /\ At(receiver) /\ cycle # NoCycle /\ cycle \in Cycles /\ receiver \in cycle.todo
      /\ cycle.todo \subseteq Takers(Origin(cycle.owner))
  BY DEF SendOut, At, BridgeInv, Types, SliceInChunk
<1>2. cycle.owner \in {"timer", "delayed"}
  <2>1. cycle.owner \in Owners
    BY <1>1 DEF Cycles
  <2>2. QED  BY <1>1, <2>1, OwnerFacts DEF Owners
<1>3. PICK b : b = IF cycle.owner = "timer" THEN Beat ELSE Delayed(cycle.id)
  OBVIOUS
<1>4. PICK e : e = [meant |-> b, is |-> resp]
  OBVIOUS
<1>5. said' \in {said, said \cup {e}}
  BY <1>3, <1>4 DEF SendOut
<1>6. b \in Contents /\ resp \in Contents
  <2>1. cycle.owner = "delayed" => cycle.id \in 1..MaxOwn
    BY <1>1 DEF BridgeInv, DelayedIds, DelayedId
  <2>2. QED  BY <1>2, <1>3, <2>1 DEF BridgeInv, Types, Contents
<1>7. resp # b => Beat \in {resp, b}
  BY <1>1, <1>2, <1>3 DEF BridgeInv, RespInUse
<1>8. e \in Composed /\ e.is = resp /\ e.meant = b
  BY <1>4, <1>6 DEF Composed
<1>9. said' \subseteq Composed /\ SentAsComposed'
  BY <1>5, <1>7, <1>8 DEF BridgeInv, Types, SentAsComposed
<1>10. /\ cycle' = [cycle EXCEPT !.todo = @ \ {receiver}] /\ clientsUdp' \subseteq Clients
       /\ UNCHANGED <<peerVars, uartVars, datagram, queue, mavVars, own, passed>>
  BY DEF SendOut, BridgeInv, Types
<1>11. QED  BY <1>1, <1>9, <1>10, HookKeeps

LEMMA AddClientKeeps ==
  ASSUME BridgeAssumption, BridgeInv, AddClient
  PROVE  BridgeInv'
<1>1. /\ At("udpHook") /\ cycle # NoCycle /\ cycle \in Cycles /\ "udpHook" \in cycle.todo
      /\ cycle.todo \subseteq Takers(Origin(cycle.owner))
  BY DEF AddClient, At, BridgeInv, Types, SliceInChunk
<1>2. cycle.owner = "socket"
  <2>1. cycle.owner \in Owners
    BY <1>1 DEF Cycles
  <2>2. QED  BY <1>1, <2>1, OwnerFacts DEF Owners
<1>3. Source(cycle.owner) \in Clients
  BY <1>1, <1>2, ChunkFacts
<1>4. clientsUdp' \subseteq Clients
  BY <1>3 DEF AddClient, BridgeInv, Types
<1>5. /\ cycle' = [cycle EXCEPT !.todo = @ \ {"udpHook"}] /\ said' = said
      /\ UNCHANGED <<peerVars, uartVars, datagram, queue, mavVars, own, passed>>
  BY DEF AddClient, historyVars
<1>6. said' \subseteq Composed /\ SentAsComposed'
  BY <1>5 DEF BridgeInv, Types, SentAsComposed
<1>7. QED  BY <1>1, <1>4, <1>5, <1>6, HookKeeps

-----------------------------------------------------------------------------
(* The theorems *)

LEMMA InitEstablishes ==
  ASSUME BridgeAssumption, Init
  PROVE  BridgeInv
<1>1. Types
  <2>1. kinds \in [Messages -> Kinds] /\ nFree \in 0..NBuffers /\ clientsUdp \subseteq Clients /\ own \in Nat
    BY DEF Init, NBuffers
  <2>2. sent \in [Peers -> Nat] /\ passed \in [Peers -> Nat]
    BY DEF Init
  <2>3. full \in Seq(Chunks) /\ processor \in Seq(Pieces) /\ datagram \in Seq(Pieces) /\ queue \in Seq(Jobs)
    BY DEF Init
  <2>4. parser \in Messages \cup {NoMessage, Mess} /\ resp \in Contents /\ mixed \in BOOLEAN
    BY DEF Init, Contents
  <2>5. cycle = NoCycle /\ said \subseteq Composed
    BY DEF Init
  <2>6. QED  BY <2>1, <2>2, <2>3, <2>4, <2>5 DEF Types
<1>2. BuffersConserved /\ DelayedIds /\ SentAsComposed /\ SliceInChunk /\ RespInUse
  BY DEF Init, BuffersConserved, NBuffers, DelayedIds, SentAsComposed, SliceInChunk, RespInUse,
         BridgeAssumption
<1>3. \A o \in Owners : OneJob(o) /\ ~Waits(o) /\ ~Pending(o)
  BY DEF Init, OneJob, Waits, Pending, JobsOf, NoCycle, Owners
<1>4. CallersWait
  BY <1>3 DEF CallersWait, Owners
<1>5. UartInOrder /\ DatagramsInOrder
  BY <1>3 DEF Init, UartInOrder, DatagramsInOrder, Owners, Peers
<1>6. QED  BY <1>1, <1>2, <1>4, <1>5 DEF BridgeInv

LEMMA StutterKeeps ==
  ASSUME BridgeInv, UNCHANGED vars
  PROVE  BridgeInv'
<1>1. /\ UNCHANGED <<kinds, sent, nFree, full, processor, datagram, queue, cycle, parser, resp, mixed,
                     clientsUdp, own, said, passed>>
      /\ Types
  BY DEF vars, peerVars, uartVars, workVars, mavVars, historyVars, BridgeInv
<1>2. Types'
  BY <1>1 DEF Types
<1>3. \A o : (OneJob(o)' <=> OneJob(o)) /\ (Waits(o)' <=> Waits(o)) /\ (Pending(o)' <=> Pending(o))
  BY <1>1 DEF OneJob, Waits, Pending, JobsOf
<1>4. BuffersConserved' /\ CallersWait' /\ DelayedIds' /\ SentAsComposed'
  BY <1>1, <1>3 DEF BridgeInv, BuffersConserved, CallersWait, DelayedIds, DelayedId, SentAsComposed
<1>5. UartInOrder' /\ DatagramsInOrder'
  BY <1>1, <1>3, OrderKept DEF BridgeInv
<1>6. SliceInChunk' /\ RespInUse'
  BY <1>1, CycleKept
<1>7. QED  BY <1>2, <1>4, <1>5, <1>6 DEF BridgeInv

LEMMA StepKeeps ==
  ASSUME BridgeAssumption, BridgeInv, [Next]_vars
  PROVE  BridgeInv'
<1>1. CASE \E k \in 0..MaxRead : ReaderReads(k)
  BY <1>1, ReaderReadsKeeps
<1>2. CASE ProcessorTakes
  BY <1>2, ProcessorTakesKeeps
<1>3. CASE ProcessorReturns
  BY <1>3, ProcessorReturnsKeeps
<1>4. CASE \E client \in Clients, n \in 1..NUdp : Receive(client, n)
  BY <1>4, ReceiveKeeps
<1>5. CASE Heartbeat
  BY <1>5, HeartbeatKeeps
<1>6. CASE AsyncSend
  BY <1>6, AsyncSendKeeps
<1>7. CASE NotifyBegin
  BY <1>7, NotifyBeginKeeps
<1>8. CASE \E x \in Parsings(Rest) : Ignore(x) \/ Consume(x) \/ Compose(x)
  BY <1>8, IgnoreKeeps, ConsumeKeeps, ComposeKeeps
<1>9. CASE Respond
  BY <1>9, RespondKeeps
<1>10. CASE \E receiver \in {"uart", "udpPort"} : SendOut(receiver)
  BY <1>10, SendOutKeeps
<1>11. CASE AddClient
  BY <1>11, AddClientKeeps
<1>12. CASE NotifyEnd
  BY <1>12, NotifyEndKeeps
<1>13. CASE Finish
  BY <1>13, FinishKeeps
<1>14. CASE UNCHANGED vars
  BY <1>14, StutterKeeps
<1>15. WorkQueueRuns =>
         \/ NotifyBegin
         \/ \E x \in Parsings(Rest) : Ignore(x) \/ Consume(x) \/ Compose(x)
         \/ Respond
         \/ \E receiver \in {"uart", "udpPort"} : SendOut(receiver)
         \/ AddClient \/ NotifyEnd \/ Finish
  BY DEF WorkQueueRuns
<1>16. QED  BY <1>1, <1>2, <1>3, <1>4, <1>5, <1>6, <1>7, <1>8, <1>9, <1>10, <1>11, <1>12, <1>13, <1>14,
               <1>15 DEF Next

LEMMA BridgeInvariant == Spec => []BridgeInv
<1>1. Init => BridgeInv
  BY BridgeAssumption, InitEstablishes
<1>2. BridgeInv /\ [Next]_vars => BridgeInv'
  BY BridgeAssumption, StepKeeps
<1>3. QED  BY <1>1, <1>2, PTL DEF Spec

LEMMA InvTypes ==
  ASSUME BridgeAssumption, BridgeInv
  PROVE  TypeOK
<1>0. Types
  BY DEF BridgeInv
<1>1. \A chunk \in ToSet(full) \cup {processor, datagram} : ToSet(chunk) \subseteq Pieces
  <2>1. \A chunk \in Seq(Pieces) : ToSet(chunk) \subseteq Pieces
    BY DEF ToSet
  <2>2. \A chunk \in ToSet(full) : chunk \in Seq(Pieces)
    <3>1. full \in Seq(Chunks)
      BY <1>0 DEF Types
    <3>2. \A chunk \in ToSet(full) : chunk \in Chunks
      BY <3>1 DEF ToSet
    <3>3. QED  BY <3>2 DEF Chunks
  <2>3. processor \in Seq(Pieces) /\ datagram \in Seq(Pieces)
    BY <1>0 DEF Types
  <2>4. QED  BY <2>1, <2>2, <2>3
<1>2. \A i \in 1..Len(queue) : queue[i].owner \in Owners /\ queue[i].turn \in 1..2
  <2>1. \A i \in 1..Len(queue) : queue[i] \in Jobs
    BY <1>0 DEF Types
  <2>2. QED  BY <2>1 DEF Jobs
<1>3. At("Mavlink") => cycle.at < Len(Chunk)
  BY DEF At, BridgeInv, SliceInChunk
<1>4. \A e \in said : {e.meant, e.is} \subseteq Contents
  BY <1>0 DEF Types, Composed
<1>5. nFree + Len(full) + (IF processor = <<>> THEN 0 ELSE 1) = NBuffers
  BY DEF BridgeInv, BuffersConserved
<1>6. QED  BY <1>0, <1>1, <1>2, <1>3, <1>4, <1>5 DEF Types, TypeOK

\* The types; no buffer of CircularSwap is lost or in two places, and the dispatcher is notified with
\* a slice of its chunk, whoever waits for the work queue meanwhile.
THEOREM TypeCorrect == Spec => []TypeOK
<1>1. BridgeInv => TypeOK
  BY BridgeAssumption, InvTypes
<1>2. QED  BY <1>1, BridgeInvariant, PTL

\* The chunks of a peer are notified in the order of its stream, and none twice.
THEOREM NotifiedInOrder == Spec => []ChunksInOrder
<1>1. ASSUME BridgeInv, Relaying PROVE Position(Head(Chunk)) > passed[Source(cycle.owner)]
  <2>1. cycle # NoCycle /\ cycle.owner \in Owners /\ Origin(cycle.owner) # "Mavlink"
    BY <1>1 DEF Relaying, BridgeInv, Types, Cycles
  <2>2. cycle.owner \in {"processor", "socket"}
    BY <2>1, OwnerFacts
  <2>3. Chunk \in Chunks /\ Begins(Chunk) > passed[Source(cycle.owner)]
    BY <1>1, <2>1, <2>2, ChunkFacts
  <2>4. Head(Chunk) = Chunk[1]
    BY <2>3 DEF Chunks
  <2>5. QED  BY <2>3, <2>4 DEF Begins
<1>2. BridgeInv => ChunksInOrder
  BY <1>1 DEF ChunksInOrder
<1>3. QED  BY <1>2, BridgeInvariant, PTL

\* Answers and delayed sends do not meet in resp.buffer; what is sent in place of another is, or takes
\* the place of, a heartbeat.
THEOREM SentIsComposedOrBeat == Spec => []SentAsComposed
<1>1. BridgeInv => SentAsComposed
  BY DEF BridgeInv
<1>2. QED  BY <1>1, BridgeInvariant, PTL

-----------------------------------------------------------------------------
(* What arrives: the invariant, on top of BridgeInv, that StreamArrives needs *)

\* What peers are sent: pieces, and answers.
Parcels == Pieces \cup {AnswerTo(m) : m \in Messages}

Foreign(p) == ~ForChip(p)
Alien(p) == kinds[MessageOf(p)] = "alien"
Asks(p) == p[3] = 2 /\ kinds[MessageOf(p)] = "request"

Increasing(chunk) ==
  \A i, j \in 1..Len(chunk) : i < j => Position(chunk[i]) < Position(chunk[j])

\* Whom the cycle forwards to, and how much of its chunk the dispatcher is done with.
Audience == Reached(Takers(Reduced(Origin(cycle.owner))))
Done == IF "Mavlink" \in cycle.todo THEN cycle.at ELSE Len(Chunk)

\* What the peers were sent is from the first n pieces of a chunk.
OnlyFrom(g, chunk, n, source, audience) ==
  \A peer \in Peers : \A i \in 1..Len(g[peer]) :
    \/ peer \in audience /\ \E j \in 1..n : g[peer][i] = chunk[j]
    \/ peer = source /\ \E j \in 1..n : Asks(chunk[j]) /\ g[peer][i] = AnswerTo(MessageOf(chunk[j]))

\* What of these is for a peer was sent to it, unless it is withheld.
AllOf(g, chunk, n, source, audience) ==
  \A j \in 1..n :
    /\ Foreign(chunk[j]) /\ ~Withheld(chunk, j) => \A peer \in audience : chunk[j] \in ToSet(g[peer])
    /\ Asks(chunk[j]) => AnswerTo(MessageOf(chunk[j])) \in ToSet(g[source])

\* What is forwarded again was forwarded before.
SentBefore(g, out, audience) ==
  \A peer \in audience : \A i \in 1..Len(out) : out[i] \in ToSet(g[peer])

\* A slice that completes a message, if no piece is out of place: frames that are passed over,
\* and that message.
OneMessage(chunk, at, n) ==
  \A j \in (at + 1)..(at + n) :
    /\ j < at + n => ~EndsMessage(chunk[j])
    /\ Alien(chunk[j]) \/ MessageOf(chunk[j]) = MessageOf(chunk[at + n])

BuffersIncrease ==
  /\ \A i \in 1..Len(full) : Increasing(full[i])
  /\ Increasing(processor)
  /\ Increasing(datagram)

\* While a chunk is notified.
StreamSoFar ==
  /\ got \in [Peers -> Seq(Parcels)]
  /\ due = Expected(Chunk, Source(cycle.owner), Audience)
  /\ OnlyFrom(got, Chunk, Done, Source(cycle.owner), Audience)
  /\ mixed \/ AllOf(got, Chunk, Done, Source(cycle.owner), Audience)
  /\ \A peer \in Peers : InStreamOrder(got[peer])
  /\ "Mavlink" \in cycle.todo => SentBefore(got, cycle.out, Audience)
  /\ cycle.reply > 0 =>
       /\ Asks(Chunk[cycle.at + cycle.reply])
       /\ mixed \/ OneMessage(Chunk, cycle.at, cycle.reply)

StreamInv ==
  /\ BuffersIncrease
  /\ IF Relaying THEN StreamSoFar ELSE got = NothingSent

(* Parcels and their order *)

LEMMA HalvesOfPieces ==
  ASSUME BridgeAssumption, NEW p \in Pieces
  PROVE  /\ p[3] \in 1..2
         /\ AnswerTo(MessageOf(p)) \in Parcels
         /\ Position(AnswerTo(MessageOf(p))) = Position(p) - p[3]
         /\ AnswerTo(MessageOf(p))[3] = 0
<1>1. PICK m \in Messages, half \in 1..2 : p = <<m[1], m[2], half>>
  BY DEF Pieces
<1>2. p[1] = m[1] /\ p[2] = m[2] /\ p[3] = half
  BY <1>1
<1>3. p[2] \in Nat \ {0} /\ MessageOf(p) \in Messages
  BY PieceFacts
<1>4. AnswerTo(MessageOf(p)) \in Parcels
  BY <1>3 DEF Parcels
<1>5. AnswerTo(MessageOf(p)) = <<p[1], p[2], 0>>
  BY DEF AnswerTo, MessageOf
<1>6. Position(AnswerTo(MessageOf(p))) = Position(p) - p[3]
  BY <1>2, <1>3, <1>5 DEF Position
<1>7. QED  BY <1>2, <1>4, <1>5, <1>6

LEMMA ParcelPositions ==
  ASSUME BridgeAssumption, NEW p \in Parcels
  PROVE  Position(p) \in Nat
<1>1. CASE p \in Pieces
  BY <1>1, PieceFacts
<1>2. CASE p \notin Pieces
  <2>1. PICK m \in Messages : p = AnswerTo(m)
    BY <1>2 DEF Parcels
  <2>2. m[2] \in Nat \ {0}
    BY DEF Messages, BridgeAssumption
  <2>3. p[2] = m[2] /\ p[3] = 0
    BY <2>1 DEF AnswerTo
  <2>4. QED  BY <2>2, <2>3 DEF Position
<1>3. QED  BY <1>1, <1>2

LEMMA Asymmetric ==
  ASSUME NEW a \in Nat, NEW b \in Nat, a < b
  PROVE  ~(b < a)
OBVIOUS

LEMMA Joined ==
  ASSUME NEW S, NEW q \in Seq(S), NEW out \in Seq(S)
  PROVE  /\ q \o out \in Seq(S) /\ Len(q) \in Nat /\ Len(out) \in Nat
         /\ Len(q \o out) = Len(q) + Len(out)
         /\ \A i \in 1..Len(q) : (q \o out)[i] = q[i]
         /\ \A j \in 1..Len(out) : (q \o out)[Len(q) + j] = out[j]
         /\ \A i \in 1..Len(q \o out) :
              i \in 1..Len(q) \/ (i - Len(q) \in 1..Len(out) /\ (q \o out)[i] = out[i - Len(q)])
OBVIOUS

LEMMA Among ==
  ASSUME NEW S, NEW q \in Seq(S), NEW e
  PROVE  e \in ToSet(q) <=> \E i \in 1..Len(q) : q[i] = e
BY DEF ToSet

LEMMA JoinedSet ==
  ASSUME NEW S, NEW q \in Seq(S), NEW out \in Seq(S)
  PROVE  /\ ToSet(q) \subseteq ToSet(q \o out)
         /\ \A j \in 1..Len(out) : out[j] \in ToSet(q \o out)
<1>1. PICK r : r = q \o out
  OBVIOUS
<1>2. /\ r \in Seq(S) /\ Len(q) \in Nat /\ Len(out) \in Nat /\ Len(r) = Len(q) + Len(out)
      /\ \A i \in 1..Len(q) : r[i] = q[i]
      /\ \A j \in 1..Len(out) : r[Len(q) + j] = out[j]
  BY <1>1, Joined
<1>3. ASSUME NEW e \in ToSet(q) PROVE e \in ToSet(r)
  <2>1. PICK i \in 1..Len(q) : q[i] = e
    BY Among
  <2>2. i \in 1..Len(r) /\ r[i] = e
    BY <1>2, <2>1
  <2>3. QED  BY <1>2, <2>2, Among
<1>4. ASSUME NEW j \in 1..Len(out) PROVE out[j] \in ToSet(r)
  <2>1. Len(q) + j \in 1..Len(r) /\ r[Len(q) + j] = out[j]
    BY <1>2
  <2>2. QED  BY <1>2, <2>1, Among
<1>5. QED  BY <1>1, <1>3, <1>4

\* What is after all that has been sent is sent.
LEMMA OrderKeptByNew ==
  ASSUME BridgeAssumption, NEW q \in Seq(Parcels), NEW out \in Seq(Parcels), InStreamOrder(q),
         \A i, j \in 1..Len(out) : i < j => Position(out[i]) < Position(out[j]),
         \A i \in 1..Len(q) : \A j \in 1..Len(out) : Position(q[i]) < Position(out[j])
  PROVE  InStreamOrder(q \o out)
<1>a. PICK r : r = q \o out
  OBVIOUS
<1>1. /\ r \in Seq(Parcels) /\ Len(q) \in Nat /\ Len(out) \in Nat /\ Len(r) = Len(q) + Len(out)
      /\ \A i \in 1..Len(q) : r[i] = q[i]
      /\ \A i \in 1..Len(r) : i \in 1..Len(q) \/ (i - Len(q) \in 1..Len(out) /\ r[i] = out[i - Len(q)])
  BY <1>a, Joined
<1>b. \A i \in 1..Len(r) : r[i] \in Parcels
  BY <1>1
<1>2. \A i \in 1..Len(r) : Position(r[i]) \in Nat
  BY <1>b, ParcelPositions
<1>3. ASSUME NEW i \in 1..Len(r), NEW j \in 1..Len(r), i < j, Position(r[j]) < Position(r[i])
      PROVE  \E k \in 1..(i - 1) : r[k] = r[j]
  <2>1. CASE j \in 1..Len(q)
    <3>1. i \in 1..Len(q)
      BY <1>1, <1>3, <2>1
    <3>2. r[i] = q[i] /\ r[j] = q[j]
      BY <1>1, <2>1, <3>1
    <3>3. PICK k \in 1..(i - 1) : q[k] = q[j]
      BY <1>3, <2>1, <3>1, <3>2 DEF InStreamOrder
    <3>4. k \in 1..Len(q) /\ r[k] = q[k]
      BY <1>1, <3>1
    <3>5. QED  BY <3>2, <3>3, <3>4
  <2>2. CASE j \notin 1..Len(q)
    <3>1. j - Len(q) \in 1..Len(out) /\ r[j] = out[j - Len(q)]
      BY <1>1, <2>2
    <3>2. CASE i \in 1..Len(q)
      <4>1. Position(q[i]) < Position(out[j - Len(q)])
        BY <3>1, <3>2
      <4>2. Position(r[i]) < Position(r[j])
        BY <1>1, <3>1, <3>2, <4>1
      <4>3. Position(r[i]) \in Nat /\ Position(r[j]) \in Nat
        BY <1>2
      <4>4. ~(Position(r[j]) < Position(r[i]))
        BY <4>2, <4>3, Asymmetric, Zenon
      <4>5. QED  BY <1>3, <4>4
    <3>3. CASE i \notin 1..Len(q)
      <4>1. i - Len(q) \in 1..Len(out) /\ r[i] = out[i - Len(q)]
        BY <1>1, <3>3
      <4>2. i - Len(q) < j - Len(q)
        BY <1>1, <1>3
      <4>3. Position(r[i]) < Position(r[j])
        BY <3>1, <4>1, <4>2
      <4>4. Position(r[i]) \in Nat /\ Position(r[j]) \in Nat
        BY <1>2
      <4>5. ~(Position(r[j]) < Position(r[i]))
        BY <4>3, <4>4, Asymmetric, Zenon
      <4>6. QED  BY <1>3, <4>5
    <3>4. QED  BY <3>2, <3>3
  <2>3. QED  BY <2>1, <2>2
<1>4. InStreamOrder(r)
  BY <1>3 DEF InStreamOrder
<1>5. QED  BY <1>a, <1>4

\* What has been sent before is sent again.
LEMMA OrderKeptByOld ==
  ASSUME BridgeAssumption, NEW q \in Seq(Parcels), NEW out \in Seq(Parcels), InStreamOrder(q),
         \A j \in 1..Len(out) : out[j] \in ToSet(q)
  PROVE  InStreamOrder(q \o out)
<1>a. PICK r : r = q \o out
  OBVIOUS
<1>1. /\ r \in Seq(Parcels) /\ Len(q) \in Nat /\ Len(out) \in Nat /\ Len(r) = Len(q) + Len(out)
      /\ \A i \in 1..Len(q) : r[i] = q[i]
      /\ \A i \in 1..Len(r) : i \in 1..Len(q) \/ (i - Len(q) \in 1..Len(out) /\ r[i] = out[i - Len(q)])
  BY <1>a, Joined
<1>b. \A i \in 1..Len(r) : r[i] \in Parcels
  BY <1>1
<1>2. \A i \in 1..Len(r) : Position(r[i]) \in Nat
  BY <1>b, ParcelPositions
<1>3. \A j \in 1..Len(r) : \E k \in 1..Len(q) : q[k] = r[j] /\ k <= j
  <2> SUFFICES ASSUME NEW j \in 1..Len(r) PROVE \E k \in 1..Len(q) : q[k] = r[j] /\ k <= j
    OBVIOUS
  <2>1. CASE j \in 1..Len(q)
    <3>1. r[j] = q[j] /\ j <= j
      BY <1>1, <2>1
    <3>2. QED  BY <2>1, <3>1
  <2>2. CASE j \notin 1..Len(q)
    <3>1. j - Len(q) \in 1..Len(out) /\ r[j] = out[j - Len(q)]
      BY <1>1, <2>2
    <3>2. r[j] \in ToSet(q)
      BY <3>1
    <3>3. PICK k \in 1..Len(q) : q[k] = r[j]
      BY <3>2, Among
    <3>4. k <= j
      BY <1>1, <2>2
    <3>5. QED  BY <3>3, <3>4
  <2>3. QED  BY <2>1, <2>2
<1>4. ASSUME NEW i \in 1..Len(r), NEW j \in 1..Len(r), i < j, Position(r[j]) < Position(r[i])
      PROVE  \E k \in 1..(i - 1) : r[k] = r[j]
  <2>1. PICK l \in 1..Len(q) : q[l] = r[j] /\ l <= j
    BY <1>3
  <2>a. r[l] = q[l]
    BY <1>1, <2>1
  <2>c. l \in Nat
    BY <2>1
  <2>b. l \in 1..Len(r)
    BY <1>1, <2>1
  <2>2. l \in Nat /\ r[l] = q[l] /\ l \in 1..Len(r)
    BY <2>a, <2>b, <2>c
  <2>3. CASE l < i
    <3>1. l \in 1..(i - 1) /\ r[l] = r[j]
      BY <2>1, <2>2, <2>3
    <3>2. QED  BY <3>1
  <2>4. CASE l = i
    <3>1. Position(r[i]) \in Nat /\ Position(r[j]) \in Nat
      BY <1>2
    <3>2. r[i] = r[j]
      BY <2>1, <2>2, <2>4
    <3>3. QED  BY <1>4, <3>1, <3>2
  <2>5. CASE l > i
    <3>1. i \in 1..Len(q) /\ r[i] = q[i]
      BY <1>1, <2>5
    <3>2. i < l /\ Position(q[l]) < Position(q[i])
      BY <1>4, <2>1, <2>5, <3>1
    <3>3. PICK k \in 1..(i - 1) : q[k] = q[l]
      BY <3>1, <3>2 DEF InStreamOrder
    <3>4. k \in 1..Len(q) /\ r[k] = q[k]
      BY <1>1, <3>1
    <3>5. QED  BY <2>1, <3>3, <3>4
  <2>6. QED  BY <2>2, <2>3, <2>4, <2>5
<1>5. InStreamOrder(r)
  BY <1>4 DEF InStreamOrder
<1>6. QED  BY <1>a, <1>5

(* Whom a cycle reaches, and with what *)

LEMMA RouteFacts ==
  /\ Takers(Reduced("uart")) = {"udpPort"}
  /\ Takers(Reduced("udpPort")) = {"uart"}
<1>1. \A o, r : r \in Takers(o) <=> \E rule \in Rules : rule[1] = o /\ rule[2] = r
  BY DEF Takers
<1>2. \A x : <<"uart", "Mavlink", x>> \in Rules <=> x = "UartMavlinkForwarded"
  BY DEF Rules
<1>3. \A x : <<"udpPort", "Mavlink", x>> \in Rules <=> x = "UdpMavlinkForwarded"
  BY DEF Rules
<1>4. \A rule \in Rules : rule[3] \in {r[3] : r \in Rules}
  OBVIOUS
<1>5. Reduced("uart") = "UartMavlinkForwarded"
  <2>1. <<"uart", "Mavlink", "UartMavlinkForwarded">>[3] \in {r[3] : r \in Rules}
    BY <1>2, <1>4
  <2>2. QED  BY <1>2, <2>1 DEF Reduced
<1>6. Reduced("udpPort") = "UdpMavlinkForwarded"
  <2>1. <<"udpPort", "Mavlink", "UdpMavlinkForwarded">>[3] \in {r[3] : r \in Rules}
    BY <1>3, <1>4
  <2>2. QED  BY <1>3, <2>1 DEF Reduced
<1>7. QED  BY <1>1, <1>5, <1>6 DEF Rules

LEMMA AudienceFacts ==
  ASSUME BridgeAssumption, BridgeInv, Relaying
  PROVE  /\ cycle # NoCycle /\ cycle \in Cycles /\ cycle.owner \in {"processor", "socket"}
         /\ cycle.owner = "processor" => Audience = clientsUdp
         /\ cycle.owner = "socket" => Audience = {Uart}
         /\ Audience \subseteq Peers
         /\ Source(cycle.owner) \in Peers /\ Source(cycle.owner) \notin Audience
         /\ Chunk \in Chunks
<1>1. cycle # NoCycle /\ cycle \in Cycles /\ cycle.owner \in Owners
  BY DEF Relaying, BridgeInv, Types, Cycles
<1>2. cycle.owner \in {"processor", "socket"}
  BY <1>1, OwnerFacts DEF Relaying
<1>3. cycle.owner = "processor" => Audience = clientsUdp
  BY RouteFacts DEF Audience, Origin, Reached
<1>4. cycle.owner = "socket" => Audience = {Uart}
  BY RouteFacts DEF Audience, Origin, Reached
<1>5. /\ Chunk \in Chunks /\ Source(cycle.owner) \in Peers
      /\ cycle.owner = "processor" => Source(cycle.owner) = Uart
      /\ cycle.owner = "socket" => Source(cycle.owner) \in Clients
  BY <1>1, <1>2, ChunkFacts
<1>6. clientsUdp \subseteq Clients /\ Uart \notin Clients
  BY DEF BridgeInv, Types, BridgeAssumption, Uart
<1>7. QED  BY <1>1, <1>2, <1>3, <1>4, <1>5, <1>6 DEF Peers

LEMMA SubSeqElements ==
  ASSUME NEW S, NEW c \in Seq(S), NEW a \in Nat, a < Len(c)
  PROVE  \A i \in 1..(Len(c) - a) :
           SubSeq(c, a + 1, Len(c))[i] = c[a + i] /\ a + i \in 1..Len(c)
OBVIOUS

LEMMA RestOfChunk ==
  ASSUME BridgeInv, cycle # NoCycle, "Mavlink" \in cycle.todo
  PROVE  /\ Len(Rest) \in Nat
         /\ \A i \in 1..Len(Rest) : /\ Rest[i] = Chunk[cycle.at + i]
                                    /\ cycle.at + i \in 1..Len(Chunk)
<1>1. /\ cycle.owner \in {"processor", "socket"}
      /\ cycle.at \in Nat /\ Len(Chunk) \in Nat /\ cycle.at < Len(Chunk)
      /\ Len(Rest) = Len(Chunk) - cycle.at
  BY RestFacts
<1>2. Chunk \in Seq(Pieces)
  BY <1>1, ChunkFacts DEF Chunks
<1>3. PICK c, a : c = Chunk /\ a = cycle.at
  OBVIOUS
<1>4. \A i \in 1..(Len(c) - a) : SubSeq(c, a + 1, Len(c))[i] = c[a + i] /\ a + i \in 1..Len(c)
  <2>1. c \in Seq(Pieces) /\ a \in Nat /\ Len(c) \in Nat /\ a < Len(c)
    BY <1>1, <1>2, <1>3
  <2>2. QED  BY <2>1, SubSeqElements
<1>5. Rest = SubSeq(c, a + 1, Len(c))
  BY <1>3 DEF Rest
<1>6. Len(Rest) \in Nat
  BY <1>1
<1>7. QED  BY <1>1, <1>3, <1>4, <1>5, <1>6

\* If no piece is out of place, a slice is of one message and of frames that are passed over, and
\* only its end ends one.
LEMMA SliceFacts ==
  ASSUME BridgeAssumption, parser \in Messages \cup {NoMessage, Mess}, mixed \in BOOLEAN,
         NEW chunk \in Seq(Pieces), NEW x \in Parsings(chunk)
  PROVE  /\ x.complete => EndsMessage(chunk[x.n])
         /\ ~x.mixed => ~mixed
         /\ ~x.mixed /\ x.complete =>
              \A j \in 1..x.n : /\ j < x.n => ~EndsMessage(chunk[j])
                                /\ Alien(chunk[j]) \/ MessageOf(chunk[j]) = MessageOf(chunk[x.n])
         /\ ~x.mixed /\ ~x.complete => \A j \in 1..x.n : ~EndsMessage(chunk[j])
<1>a. PICK n \in 1..Len(chunk) : \E fates \in Slices(chunk, n) :
        x = [parser |-> After(chunk[n], fates[n]), n |-> n, complete |-> Completes(chunk, fates, n),
             mixed |-> mixed \/ \E i \in 1..n : fates[i] # "parsed"]
  BY DEF Parsings
<1>b. PICK fates \in Slices(chunk, n) :
        x = [parser |-> After(chunk[n], fates[n]), n |-> n, complete |-> Completes(chunk, fates, n),
             mixed |-> mixed \/ \E i \in 1..n : fates[i] # "parsed"]
  BY <1>a
<1>1. /\ x.n = n /\ x.complete = Completes(chunk, fates, n)
      /\ x.mixed = (mixed \/ \E i \in 1..n : fates[i] # "parsed")
  BY <1>b
<1>2. /\ \A i \in 1..n : (fates[i] = "parsed") <=> InPlace(Before(chunk, fates, i), chunk[i])
      /\ \A i \in 1..(n - 1) : ~Completes(chunk, fates, i)
  BY DEF Slices
<1>c. n \in Nat \ {0} /\ \A i \in 1..n : chunk[i] \in Pieces
  BY <1>a
<1>3. \A i \in 1..n : chunk[i][3] \in 1..2 /\ MessageOf(chunk[i]) \in Messages
  BY <1>c, HalvesOfPieces, PieceFacts
<1>4. x.complete => EndsMessage(chunk[x.n])
  BY <1>1 DEF Completes
<1>5. ~x.mixed => ~mixed
  BY <1>1
<1>6. ASSUME ~x.mixed
      PROVE  /\ \A j \in 1..n : j < n => ~EndsMessage(chunk[j])
             /\ \A j \in 1..n : j > 1 /\ chunk[j - 1][3] = 1 =>
                  MessageOf(chunk[j]) = MessageOf(chunk[j - 1]) /\ chunk[j][3] = 2
  <2>1. \A i \in 1..n : fates[i] = "parsed"
    BY <1>1, <1>6
  <2>2. \A i \in 1..n : i < n => ~EndsMessage(chunk[i])
    <3>1. \A i \in 1..n : i < n => i \in 1..(n - 1)
      BY <1>c
    <3>2. \A i \in 1..(n - 1) : ~EndsMessage(chunk[i]) /\ i \in 1..n
      BY <1>2, <1>c, <2>1 DEF Completes
    <3>3. QED  BY <3>1, <3>2
  <2>3. ASSUME NEW j \in 1..n, j > 1, chunk[j - 1][3] = 1
        PROVE  MessageOf(chunk[j]) = MessageOf(chunk[j - 1]) /\ chunk[j][3] = 2
    <3>1. j - 1 \in 1..n /\ j - 1 < n /\ j # 1
      BY <1>c, <2>3
    <3>2. chunk[j - 1][3] = 1 /\ fates[j - 1] = "parsed"
      BY <2>1, <2>3, <3>1
    <3>3. Before(chunk, fates, j) = MessageOf(chunk[j - 1])
      BY <3>1, <3>2 DEF Before, After
    <3>4. InPlace(MessageOf(chunk[j - 1]), chunk[j])
      BY <1>2, <2>1, <3>3
    <3>5. MessageOf(chunk[j - 1]) # NoMessage
      BY DEF MessageOf, NoMessage
    <3>6. chunk[j][3] # 1
      BY <3>4, <3>5 DEF InPlace
    <3>7. MessageOf(chunk[j]) = MessageOf(chunk[j - 1])
      BY <3>4, <3>6 DEF InPlace
    <3>8. chunk[j][3] \in 1..2
      BY <1>3
    <3>9. chunk[j][3] = 2
      BY <3>6, <3>8
    <3>10. QED  BY <3>7, <3>9
  <2>4. QED  BY <2>2, <2>3
<1>7. ASSUME ~x.mixed, x.complete, NEW j \in 1..n
      PROVE  /\ j < n => ~EndsMessage(chunk[j])
             /\ Alien(chunk[j]) \/ MessageOf(chunk[j]) = MessageOf(chunk[n])
  <2>1. CASE j = n
    BY <2>1
  <2>2. CASE j < n /\ chunk[j][3] = 2
    <3>1. ~EndsMessage(chunk[j])
      BY <1>6, <1>7, <2>2
    <3>2. QED  BY <2>2, <3>1 DEF EndsMessage, Alien
  <2>3. CASE j < n /\ chunk[j][3] = 1
    <3>1. j + 1 \in 1..n /\ j + 1 > 1 /\ (j + 1) - 1 = j
      BY <1>c, <2>3
    <3>2. MessageOf(chunk[j + 1]) = MessageOf(chunk[j]) /\ chunk[j + 1][3] = 2
      BY <1>6, <1>7, <2>3, <3>1
    <3>3. CASE j + 1 < n
      <4>1. ~EndsMessage(chunk[j + 1])
        BY <1>6, <1>7, <3>1, <3>3
      <4>2. Alien(chunk[j])
        BY <3>2, <4>1 DEF EndsMessage, Alien
      <4>3. ~EndsMessage(chunk[j])
        BY <4>2 DEF EndsMessage, Alien
      <4>4. QED  BY <4>2, <4>3
    <3>4. CASE ~(j + 1 < n)
      <4>1. j + 1 = n
        BY <1>c, <3>1, <3>4
      <4>2. ~EndsMessage(chunk[j])
        BY <2>3 DEF EndsMessage
      <4>3. QED  BY <3>2, <4>1, <4>2
    <3>5. QED  BY <3>3, <3>4
  <2>4. chunk[j][3] = 1 \/ chunk[j][3] = 2
    BY <1>3
  <2>5. j = n \/ j < n
    BY <1>c
  <2>6. QED  BY <2>1, <2>2, <2>3, <2>4, <2>5
<1>8. ASSUME ~x.mixed, ~x.complete, NEW j \in 1..n
      PROVE  ~EndsMessage(chunk[j])
  <2>a. n \in 1..n
    BY <1>c
  <2>1. fates[n] = "parsed" /\ n \in 1..n
    BY <1>1, <1>8, <2>a
  <2>2. ~EndsMessage(chunk[n])
    BY <1>1, <1>8, <2>1 DEF Completes
  <2>3. j < n => ~EndsMessage(chunk[j])
    BY <1>6, <1>8
  <2>4. j = n \/ j < n
    BY <1>c
  <2>5. QED  BY <2>2, <2>3, <2>4
<1>9. QED  BY <1>1, <1>4, <1>5, <1>7, <1>8

LEMMA StreamIncreases ==
  ASSUME BridgeAssumption, NEW peer \in Peers, NEW a \in Nat, NEW b \in Nat, a < b,
         b <= 2 * Total(peer)
  PROVE  Increasing(Stream(peer, a, b))
<1>1. PICK s : s = Stream(peer, a, b)
  OBVIOUS
<1>2. Len(s) = b - a /\ \A i \in 1..(b - a) : Position(s[i]) = a + i
  BY <1>1, StreamFacts
<1>3. ASSUME NEW i \in 1..Len(s), NEW j \in 1..Len(s), i < j
      PROVE  Position(s[i]) < Position(s[j])
  <2>1. Position(s[i]) = a + i /\ Position(s[j]) = a + j /\ i \in Nat /\ j \in Nat
    BY <1>2
  <2>2. QED  BY <1>3, <2>1
<1>4. QED  BY <1>1, <1>3 DEF Increasing

LEMMA ReadIncreases ==
  ASSUME BridgeAssumption, BridgeInv, BuffersIncrease, NEW k \in 0..MaxRead, ReaderReads(k)
  PROVE  BuffersIncrease'
<1>0. /\ full \in Seq(Chunks) /\ full' \in Seq(Chunks) /\ sent[Uart] \in Nat /\ Uart \in Peers /\ k \in Nat
      /\ nFree \in 0..3 /\ NUart \in Nat
  <2>1. BridgeInv'
    BY ReaderReadsKeeps
  <2>2. QED  BY <2>1 DEF BridgeInv, Types, Peers, NBuffers, BridgeAssumption
<1>1. PICK kept : kept = IF nFree = 0 THEN Tail(full) ELSE full
  OBVIOUS
<1>2. kept \in Seq(Chunks) /\ \A i \in 1..Len(kept) : Increasing(kept[i])
  <2>1. CASE nFree = 0
    <3>1. full # <<>> /\ kept = Tail(full)
      BY <1>1, <2>1 DEF ReaderReads
    <3>2. /\ kept \in Seq(Chunks) /\ Len(full) \in Nat \ {0} /\ Len(kept) = Len(full) - 1
          /\ \A i \in 1..(Len(full) - 1) : kept[i] = full[i + 1]
      BY <1>0, <3>1, Popped
    <3>3. \A i \in 1..Len(kept) : i + 1 \in 1..Len(full) /\ kept[i] = full[i + 1]
      BY <3>2
    <3>4. QED  BY <3>2, <3>3 DEF BuffersIncrease
  <2>2. CASE nFree # 0
    BY <1>0, <1>1, <2>2 DEF BuffersIncrease
  <2>3. QED  BY <2>1, <2>2
<1>3. PICK new : new = Stream(Uart, sent[Uart], sent[Uart] + k)
  OBVIOUS
<1>4. k # 0 => Increasing(new)
  <2> SUFFICES ASSUME k # 0 PROVE Increasing(new)
    OBVIOUS
  <2>1. sent[Uart] + k <= 2 * NUart
    BY DEF ReaderReads
  <2>2. Total(Uart) = NUart
    BY DEF Total
  <2>3. PICK a, b : a = sent[Uart] /\ b = sent[Uart] + k
    OBVIOUS
  <2>a. a \in Nat /\ b = a + k /\ k \in Nat /\ b <= 2 * Total(Uart)
    BY <1>0, <2>1, <2>2, <2>3
  <2>4. a \in Nat /\ b \in Nat /\ a < b /\ b <= 2 * Total(Uart)
    BY <2>a
  <2>5. Increasing(Stream(Uart, a, b))
    BY <1>0, <2>4, StreamIncreases
  <2>6. QED  BY <1>3, <2>3, <2>5
<1>5. full' = IF k = 0 THEN kept ELSE Append(kept, new)
  BY <1>1, <1>3 DEF ReaderReads
<1>6. \A i \in 1..Len(full') : Increasing(full'[i])
  <2>1. CASE k = 0
    BY <1>2, <1>5, <2>1
  <2>2. CASE k # 0
    <3>1. full' = Append(kept, new) /\ Len(kept) \in Nat
      BY <1>2, <1>5, <2>2
    <3>2. Len(full') = Len(kept) + 1 /\ full'[Len(kept) + 1] = new
          /\ \A i \in 1..Len(kept) : full'[i] = kept[i]
      BY <1>2, <3>1
    <3>3. \A i \in 1..Len(full') : i \in 1..Len(kept) \/ i = Len(kept) + 1
      BY <3>1, <3>2
    <3>4. QED  BY <1>2, <1>4, <2>2, <3>2, <3>3
  <2>3. QED  BY <2>1, <2>2
<1>7. processor' = processor /\ datagram' = datagram
  BY DEF ReaderReads
<1>8. QED  BY <1>6, <1>7 DEF BuffersIncrease

LEMMA BuffersKeepIncreasing ==
  ASSUME BridgeAssumption, BridgeInv, BuffersIncrease, [Next]_vars
  PROVE  BuffersIncrease'
<1>0. full \in Seq(Chunks) /\ Increasing(<<>>)
  BY DEF BridgeInv, Types, Increasing
<1>1. CASE \E k \in 0..MaxRead : ReaderReads(k)
  BY <1>1, ReadIncreases
<1>2. CASE ProcessorTakes
  <2>1. full # <<>> /\ processor' = Head(full) /\ full' = Tail(full) /\ datagram' = datagram
    BY <1>2 DEF ProcessorTakes
  <2>2. /\ Len(full) \in Nat \ {0} /\ Len(full') = Len(full) - 1 /\ processor' = full[1]
        /\ \A i \in 1..(Len(full) - 1) : full'[i] = full[i + 1]
    BY <1>0, <2>1, Popped
  <2>3. \A i \in 1..Len(full') : i + 1 \in 1..Len(full) /\ full'[i] = full[i + 1]
    BY <2>2
  <2>4. 1 \in 1..Len(full)
    BY <2>2
  <2>5. QED  BY <2>1, <2>2, <2>3, <2>4 DEF BuffersIncrease
<1>3. CASE ProcessorReturns
  BY <1>0, <1>3 DEF ProcessorReturns, BuffersIncrease
<1>4. ASSUME NEW client \in Clients, NEW n \in 1..NUdp, Receive(client, n)
      PROVE  BuffersIncrease'
  <2>1. /\ datagram' = Stream(client, sent[client], sent[client] + 2 * n)
        /\ sent[client] + 2 * n <= 2 * NUdp
        /\ full' = full /\ processor' = processor
    BY <1>4 DEF Receive, uartVars
  <2>2. client \in Peers /\ client # Uart /\ sent[client] \in Nat /\ NUdp \in Nat
    BY DEF Peers, Uart, BridgeAssumption, BridgeInv, Types
  <2>3. Total(client) = NUdp
    BY <2>2 DEF Total
  <2>4. PICK a, b : a = sent[client] /\ b = sent[client] + 2 * n
    OBVIOUS
  <2>5. a \in Nat /\ b \in Nat /\ a < b /\ b <= 2 * Total(client)
    BY <2>1, <2>2, <2>3, <2>4
  <2>6. Increasing(Stream(client, a, b))
    BY <2>2, <2>5, StreamIncreases
  <2>7. Increasing(datagram')
    BY <2>1, <2>4, <2>6
  <2>8. QED  BY <2>1, <2>7 DEF BuffersIncrease
<1>5. CASE UNCHANGED <<full, processor, datagram>>
  BY <1>5 DEF BuffersIncrease
<1>6. \/ \E k \in 0..MaxRead : ReaderReads(k)
      \/ ProcessorTakes
      \/ ProcessorReturns
      \/ \E client \in Clients, n \in 1..NUdp : Receive(client, n)
      \/ UNCHANGED <<full, processor, datagram>>
  <2>1. WorkQueueRuns => UNCHANGED <<full, processor, datagram>>
    BY DEF WorkQueueRuns, NotifyBegin, Ignore, Consume, Compose, Respond, SendOut, AddClient, NotifyEnd,
           Finish, uartVars
  <2>2. Heartbeat \/ AsyncSend => UNCHANGED <<full, processor, datagram>>
    BY DEF Heartbeat, AsyncSend, uartVars
  <2>3. UNCHANGED vars => UNCHANGED <<full, processor, datagram>>
    BY DEF vars, uartVars
  <2>4. QED  BY <2>1, <2>2, <2>3 DEF Next
<1>7. QED  BY <1>1, <1>2, <1>3, <1>4, <1>5, <1>6

-----------------------------------------------------------------------------
(* Steps of others, and the beginning and the end of a cycle *)

\* What a cycle has to do with stays.
LEMMA StreamFramed ==
  ASSUME BridgeAssumption, BridgeInv, IF Relaying THEN StreamSoFar ELSE got = NothingSent,
         UNCHANGED <<kinds, got, due, mixed>>,
         cycle' # NoCycle <=> cycle # NoCycle,
         cycle'.owner = cycle.owner /\ cycle'.at = cycle.at /\ cycle'.out = cycle.out,
         cycle'.reply = cycle.reply /\ ("Mavlink" \in cycle'.todo <=> "Mavlink" \in cycle.todo),
         clientsUdp' = clientsUdp \/ cycle.owner = "socket",
         cycle.owner = "processor" => processor' = processor,
         cycle.owner = "socket" => datagram' = datagram
  PROVE  IF Relaying' THEN StreamSoFar' ELSE got' = NothingSent
<1>1. Relaying' <=> Relaying
  BY DEF Relaying, Origin
<1>2. CASE ~Relaying
  BY <1>1, <1>2
<1>3. CASE Relaying
  <2>1. cycle.owner \in {"processor", "socket"}
    BY <1>3, AudienceFacts
  <2>a. Chunk' = Chunk /\ Source(cycle.owner)' = Source(cycle.owner)
    BY <2>1 DEF Chunk, Buffer, Source
  <2>b. Audience' = Audience
    <3>1. CASE clientsUdp' = clientsUdp
      BY <3>1 DEF Audience, Reached, Origin
    <3>2. CASE cycle.owner = "socket"
      <4>1. Audience = {Uart}
        BY <1>3, <3>2, AudienceFacts
      <4>2. Audience' = {Uart}
        BY <3>2, RouteFacts DEF Audience, Origin, Reached
      <4>3. QED  BY <4>1, <4>2
    <3>3. QED  BY <3>1, <3>2
  <2>2. Chunk' = Chunk /\ Source(cycle.owner)' = Source(cycle.owner) /\ Audience' = Audience
    BY <2>a, <2>b
  <2>3. Done' = Done
    BY <2>2 DEF Done
  <2>4. \A p : (Foreign(p)' <=> Foreign(p)) /\ (Asks(p)' <=> Asks(p))
    BY DEF Foreign, ForChip, Asks
  <2>c. \A d, j : Withheld(d, j)' <=> Withheld(d, j)
    BY DEF Withheld, EndsMessage, ForChip
  <2>5. Expected(Chunk, Source(cycle.owner), Audience)' = Expected(Chunk, Source(cycle.owner), Audience)
    BY <2>2 DEF Expected, ForChip
  <2>6. /\ got' \in [Peers -> Seq(Parcels)] /\ \A peer \in Peers : InStreamOrder(got'[peer])
        /\ due' = Expected(Chunk, Source(cycle.owner), Audience)'
    BY <1>3, <2>5 DEF StreamSoFar
  <2>7. OnlyFrom(got, Chunk, Done, Source(cycle.owner), Audience)'
    BY <1>3, <2>2, <2>3, <2>4 DEF StreamSoFar, OnlyFrom
  <2>8. (mixed \/ AllOf(got, Chunk, Done, Source(cycle.owner), Audience))'
    BY <1>3, <2>2, <2>3, <2>4, <2>c DEF StreamSoFar, AllOf
  <2>9. ("Mavlink" \in cycle.todo => SentBefore(got, cycle.out, Audience))'
    BY <1>3, <2>2 DEF StreamSoFar, SentBefore
  <2>10. (cycle.reply > 0 => Asks(Chunk[cycle.at + cycle.reply])
                             /\ (mixed \/ OneMessage(Chunk, cycle.at, cycle.reply)))'
    BY <1>3, <2>2, <2>4 DEF StreamSoFar, OneMessage, EndsMessage, Alien, MessageOf
  <2>11. QED  BY <1>1, <1>3, <2>6, <2>7, <2>8, <2>9, <2>10 DEF StreamSoFar
<1>4. QED  BY <1>2, <1>3

\* Nothing of the sort is touched.
LEMMA StreamUntouched ==
  ASSUME BridgeAssumption, BridgeInv, IF Relaying THEN StreamSoFar ELSE got = NothingSent,
         UNCHANGED <<kinds, cycle, clientsUdp, got, due, mixed>>,
         cycle.owner = "processor" => processor' = processor,
         cycle.owner = "socket" => datagram' = datagram
  PROVE  IF Relaying' THEN StreamSoFar' ELSE got' = NothingSent
BY StreamFramed

LEMMA OthersKeepStream ==
  ASSUME BridgeAssumption, BridgeInv, IF Relaying THEN StreamSoFar ELSE got = NothingSent,
         \/ \E k \in 0..MaxRead : ReaderReads(k)
         \/ ProcessorTakes \/ ProcessorReturns
         \/ \E client \in Clients, n \in 1..NUdp : Receive(client, n)
         \/ Heartbeat \/ AsyncSend \/ Finish \/ UNCHANGED vars
  PROVE  IF Relaying' THEN StreamSoFar' ELSE got' = NothingSent
<1>1. UNCHANGED <<kinds, cycle, clientsUdp, got, due, mixed>>
  BY DEF ReaderReads, ProcessorTakes, ProcessorReturns, Receive, Heartbeat, AsyncSend, Finish, vars,
         peerVars, workVars, mavVars, historyVars
<1>2. cycle.owner = "processor" => Waits("processor") /\ processor # <<>>
  BY DEF Waits, BridgeInv, CallersWait
<1>3. cycle.owner = "socket" => Waits("socket")
  BY DEF Waits
<1>4. cycle.owner = "processor" => processor' = processor
  BY <1>2 DEF ReaderReads, ProcessorTakes, ProcessorReturns, Receive, Heartbeat, AsyncSend, Finish, vars,
              uartVars
<1>5. cycle.owner = "socket" => datagram' = datagram
  BY <1>3 DEF ReaderReads, ProcessorTakes, ProcessorReturns, Receive, Heartbeat, AsyncSend, Finish, vars
<1>6. QED  BY <1>1, <1>4, <1>5, StreamUntouched

LEMMA BeginKeepsStream ==
  ASSUME BridgeAssumption, BridgeInv, IF Relaying THEN StreamSoFar ELSE got = NothingSent, NotifyBegin
  PROVE  IF Relaying' THEN StreamSoFar' ELSE got' = NothingSent
<1>1. cycle = NoCycle /\ got' = NothingSent /\ UNCHANGED <<kinds, processor, datagram, clientsUdp>>
  BY DEF NotifyBegin, Relaying, peerVars, uartVars
<1>2. PICK job : job = Head(queue)
  OBVIOUS
<1>3. job \in Jobs /\ job.owner \in Owners
  <2>1. queue \in Seq(Jobs) /\ queue # <<>>
    BY DEF BridgeInv, Types, NotifyBegin
  <2>2. job \in Jobs
    BY <1>2, <2>1, Popped
  <2>3. QED  BY <2>2 DEF Jobs
<1>4. /\ cycle' = [owner |-> job.owner, id |-> job.id, todo |-> Takers(Origin(job.owner)),
                   at |-> 0, out |-> <<>>, reply |-> 0]
      /\ Origin(job.owner) # "Mavlink" =>
           due' = Expected(Buffer(job.owner), Source(job.owner), Reached(Takers(Reduced(Origin(job.owner)))))
  BY <1>2 DEF NotifyBegin
<1>5. /\ cycle'.owner = job.owner /\ cycle'.todo = Takers(Origin(job.owner)) /\ cycle'.at = 0
      /\ cycle'.out = <<>> /\ cycle'.reply = 0
  BY <1>4
<1> SUFFICES ASSUME Relaying' PROVE StreamSoFar'
  BY <1>1
<1>6. Origin(job.owner) # "Mavlink"
  BY <1>5 DEF Relaying, Origin
<1>7. "Mavlink" \in cycle'.todo
  BY <1>3, <1>5, <1>6, OwnerFacts DEF Owners
<1>8. Done' = 0
  BY <1>5, <1>7 DEF Done
<1>9. got' \in [Peers -> Seq(Parcels)] /\ \A peer \in Peers : got'[peer] = <<>>
  BY <1>1 DEF NothingSent
<1>10. due' = Expected(Chunk, Source(cycle.owner), Audience)'
  BY <1>1, <1>4, <1>5, <1>6 DEF Expected, ForChip, Chunk, Buffer, Source, Audience, Reached
<1>11. OnlyFrom(got, Chunk, Done, Source(cycle.owner), Audience)'
  BY <1>9 DEF OnlyFrom
<1>12. AllOf(got, Chunk, Done, Source(cycle.owner), Audience)'
  BY <1>8 DEF AllOf
<1>13. \A peer \in Peers : InStreamOrder(got'[peer])
  BY <1>9 DEF InStreamOrder
<1>14. SentBefore(got, cycle.out, Audience)'
  BY <1>5 DEF SentBefore
<1>15. ~(cycle'.reply > 0)
  BY <1>5
<1>16. QED  BY <1>9, <1>10, <1>11, <1>12, <1>13, <1>14, <1>15 DEF StreamSoFar

LEMMA EndKeepsStream ==
  ASSUME NotifyEnd
  PROVE  IF Relaying' THEN StreamSoFar' ELSE got' = NothingSent
BY DEF NotifyEnd, Relaying

LEMMA HooksKeepStream ==
  ASSUME BridgeAssumption, BridgeInv, IF Relaying THEN StreamSoFar ELSE got = NothingSent,
         AddClient \/ \E receiver \in {"uart", "udpPort"} : SendOut(receiver)
  PROVE  IF Relaying' THEN StreamSoFar' ELSE got' = NothingSent
<1>1. PICK receiver \in {"udpHook", "uart", "udpPort"} :
        At(receiver) /\ cycle' = [cycle EXCEPT !.todo = @ \ {receiver}]
  BY DEF AddClient, SendOut
<1>2. cycle # NoCycle /\ cycle \in Cycles /\ receiver \in cycle.todo
  BY <1>1 DEF At, BridgeInv, Types
<1>3. /\ cycle'.owner = cycle.owner /\ cycle'.at = cycle.at /\ cycle'.out = cycle.out
      /\ cycle'.reply = cycle.reply /\ cycle'.todo = cycle.todo \ {receiver}
  BY <1>1, <1>2 DEF Cycles
<1>4. cycle' # NoCycle
  <2>1. cycle.owner \in Owners
    BY <1>2 DEF Cycles
  <2>2. QED  BY <1>3, <2>1 DEF NoCycle, Owners
<1>5. UNCHANGED <<kinds, got, due, mixed, processor, datagram>>
  BY DEF AddClient, SendOut, peerVars, uartVars, mavVars, historyVars
<1>6. clientsUdp' = clientsUdp \/ cycle.owner = "socket"
  <2>1. CASE AddClient
    <3>1. "udpHook" \in cycle.todo /\ cycle.todo \subseteq Takers(Origin(cycle.owner))
          /\ cycle.owner \in Owners
      BY <1>2, <2>1 DEF AddClient, At, BridgeInv, SliceInChunk, Cycles
    <3>2. QED  BY <3>1, OwnerFacts DEF Owners
  <2>2. CASE ~AddClient
    BY <2>2 DEF SendOut
  <2>3. QED  BY <2>1, <2>2
<1>7. "Mavlink" \in cycle'.todo <=> "Mavlink" \in cycle.todo
  BY <1>1, <1>3
<1>8. QED  BY <1>2, <1>3, <1>4, <1>5, <1>6, <1>7, StreamFramed

-----------------------------------------------------------------------------
(* The dispatcher goes on by a slice *)

\* The n pieces of a chunk after its first a.
IsSlice(out, c, a, n) == Len(out) = n /\ \A i \in 1..n : out[i] = c[a + i]

\* h is what the peers were sent, if it was g and out is forwarded.
Forwarding(h, g, out, A) ==
  \A peer \in Peers : h[peer] = IF peer \in A THEN g[peer] \o out ELSE g[peer]

AllInOrder(g) == \A peer \in Peers : InStreamOrder(g[peer])

\* Pieces of a chunk, all from its first n.
FromFirst(q, c, n) == \A i \in 1..Len(q) : \E j \in 1..n : q[i] = c[j]

LEMMA BeforeAndAfter ==
  ASSUME NEW a \in Nat, NEW n \in Nat, NEW l \in Nat, a + n <= l, NEW k \in 1..a, NEW j \in 1..n
  PROVE  k \in 1..l /\ k < a + j /\ a + j \in 1..l
OBVIOUS

LEMMA OneAfterAnother ==
  ASSUME NEW a \in Nat, NEW n \in Nat, NEW i \in 1..n, NEW j \in 1..n, i < j
  PROVE  a + i < a + j
OBVIOUS

LEMMA NewForOne ==
  ASSUME BridgeAssumption, NEW c \in Chunks, Increasing(c), NEW a \in Nat, NEW n \in Nat,
         a + n <= Len(c), NEW q \in Seq(Parcels), NEW out \in Seq(Parcels), IsSlice(out, c, a, n),
         FromFirst(q, c, a), InStreamOrder(q), NEW r, r = q \o out
  PROVE  /\ FromFirst(r, c, a + n)
         /\ InStreamOrder(r)
         /\ \A i \in 1..Len(out) : out[i] \in ToSet(r)
         /\ ToSet(q) \subseteq ToSet(r)
<1>s. Len(out) = n /\ \A i \in 1..n : out[i] = c[a + i]
  BY DEF IsSlice
<1>0. Len(c) \in Nat /\ \A i \in 1..n : a + i \in 1..(a + n) /\ a + i \in 1..Len(c)
  BY ChunkPositions
<1>a. /\ Len(q) \in Nat /\ Len(q \o out) = Len(q) + Len(out)
      /\ \A i \in 1..Len(q) : (q \o out)[i] = q[i]
      /\ \A i \in 1..Len(q \o out) :
           i \in 1..Len(q) \/ (i - Len(q) \in 1..Len(out) /\ (q \o out)[i] = out[i - Len(q)])
  BY Joined
<1>1. r = q \o out
  OBVIOUS
<1>2. /\ Len(q) \in Nat /\ Len(r) = Len(q) + n
      /\ \A i \in 1..Len(q) : r[i] = q[i]
      /\ \A i \in 1..Len(r) : i \in 1..Len(q) \/ (i - Len(q) \in 1..n /\ r[i] = out[i - Len(q)])
  BY <1>1, <1>a, <1>s
<1>3. \A i \in 1..Len(q) : \E j \in 1..a : q[i] = c[j]
  BY DEF FromFirst
<1>4. \A i \in 1..Len(q) : \A j \in 1..Len(out) : Position(q[i]) < Position(out[j])
  <2> SUFFICES ASSUME NEW i \in 1..Len(q), NEW j \in 1..n PROVE Position(q[i]) < Position(out[j])
    BY <1>s
  <2>1. PICK k \in 1..a : q[i] = c[k]
    BY <1>3
  <2>2. k \in 1..Len(c) /\ k < a + j /\ a + j \in 1..Len(c)
    BY <1>0, <2>1, BeforeAndAfter, Zenon
  <2>3. Position(c[k]) < Position(c[a + j])
    BY <2>2 DEF Increasing
  <2>4. QED  BY <1>s, <2>1, <2>3
<1>5. \A i, j \in 1..Len(out) : i < j => Position(out[i]) < Position(out[j])
  <2> SUFFICES ASSUME NEW i \in 1..n, NEW j \in 1..n, i < j PROVE Position(out[i]) < Position(out[j])
    BY <1>s
  <2>1. a + i \in 1..Len(c) /\ a + j \in 1..Len(c) /\ a + i < a + j
    BY <1>0, OneAfterAnother, Zenon
  <2>2. Position(c[a + i]) < Position(c[a + j])
    BY <2>1 DEF Increasing
  <2>3. QED  BY <1>s, <2>2
<1>6. InStreamOrder(r)
  BY <1>1, <1>4, <1>5, OrderKeptByNew
<1>7. ToSet(q) \subseteq ToSet(r) /\ \A j \in 1..Len(out) : out[j] \in ToSet(r)
  BY <1>1, JoinedSet
<1>8. ASSUME NEW i \in 1..Len(r) PROVE \E j \in 1..(a + n) : r[i] = c[j]
  <2>1. CASE i \in 1..Len(q)
    <3>1. PICK j \in 1..a : q[i] = c[j]
      BY <1>3, <2>1
    <3>2. j \in 1..(a + n) /\ r[i] = c[j]
      BY <1>2, <2>1, <3>1
    <3>3. QED  BY <3>2
  <2>2. CASE i \notin 1..Len(q)
    <3>1. i - Len(q) \in 1..n /\ r[i] = out[i - Len(q)]
      BY <1>2, <2>2
    <3>2. a + (i - Len(q)) \in 1..(a + n) /\ r[i] = c[a + (i - Len(q))]
      BY <1>0, <1>s, <3>1
    <3>3. QED  BY <3>2
  <2>3. QED  BY <2>1, <2>2
<1>9. QED  BY <1>6, <1>7, <1>8 DEF FromFirst

\* New pieces are forwarded.
LEMMA ForwardNew ==
  ASSUME BridgeAssumption, NEW c \in Chunks, Increasing(c), NEW a \in Nat, NEW n \in Nat,
         a + n <= Len(c), NEW s, NEW A, A \subseteq Peers, s \notin A,
         NEW g \in [Peers -> Seq(Parcels)], NEW h, NEW out \in Seq(Parcels), IsSlice(out, c, a, n),
         Forwarding(h, g, out, A),
         OnlyFrom(g, c, a, s, A), AllInOrder(g)
  PROVE  /\ OnlyFrom(h, c, a + n, s, A)
         /\ AllInOrder(h)
         /\ SentBefore(h, out, A)
         /\ \A peer \in Peers : ToSet(g[peer]) \subseteq ToSet(h[peer])
<1>1. ASSUME NEW peer \in Peers, peer \in A
      PROVE  /\ FromFirst(h[peer], c, a + n)
             /\ InStreamOrder(h[peer])
             /\ \A i \in 1..Len(out) : out[i] \in ToSet(h[peer])
             /\ ToSet(g[peer]) \subseteq ToSet(h[peer])
  <2>1. g[peer] \in Seq(Parcels) /\ InStreamOrder(g[peer]) /\ h[peer] = g[peer] \o out
    BY <1>1 DEF AllInOrder, Forwarding
  <2>2. FromFirst(g[peer], c, a)
    BY <1>1 DEF OnlyFrom, FromFirst
  <2>3. QED  BY <2>1, <2>2, NewForOne
<1>2. ASSUME NEW peer \in Peers, peer \notin A PROVE h[peer] = g[peer]
  BY <1>2 DEF Forwarding
<1>3. OnlyFrom(h, c, a + n, s, A)
  <2> SUFFICES ASSUME NEW peer \in Peers, peer \notin A, NEW i \in 1..Len(h[peer])
               PROVE  peer = s /\ \E j \in 1..(a + n) :
                        Asks(c[j]) /\ h[peer][i] = AnswerTo(MessageOf(c[j]))
    BY <1>1 DEF OnlyFrom, FromFirst
  <2>1. h[peer] = g[peer]
    BY <1>2
  <2>2. peer = s /\ \E j \in 1..a : Asks(c[j]) /\ g[peer][i] = AnswerTo(MessageOf(c[j]))
    BY <2>1 DEF OnlyFrom
  <2>3. \A j \in 1..a : j \in 1..(a + n)
    OBVIOUS
  <2>4. QED  BY <2>1, <2>2, <2>3
<1>4. AllInOrder(h)
  BY <1>1, <1>2 DEF AllInOrder
<1>5. SentBefore(h, out, A)
  BY <1>1 DEF SentBefore
<1>6. \A peer \in Peers : ToSet(g[peer]) \subseteq ToSet(h[peer])
  BY <1>1, <1>2
<1>7. QED  BY <1>3, <1>4, <1>5, <1>6

LEMMA OldForOne ==
  ASSUME BridgeAssumption, NEW c, NEW a \in Nat, NEW q \in Seq(Parcels), NEW out \in Seq(Parcels),
         \A j \in 1..Len(out) : out[j] \in ToSet(q),
         FromFirst(q, c, a), InStreamOrder(q), NEW r, r = q \o out
  PROVE  /\ FromFirst(r, c, a)
         /\ InStreamOrder(r)
         /\ \A i \in 1..Len(out) : out[i] \in ToSet(r)
         /\ ToSet(q) \subseteq ToSet(r)
<1>a. /\ Len(q) \in Nat
      /\ \A i \in 1..Len(q) : (q \o out)[i] = q[i]
      /\ \A i \in 1..Len(q \o out) :
           i \in 1..Len(q) \/ (i - Len(q) \in 1..Len(out) /\ (q \o out)[i] = out[i - Len(q)])
  BY Joined
<1>1. r = q \o out
  OBVIOUS
<1>2. /\ Len(q) \in Nat
      /\ \A i \in 1..Len(q) : r[i] = q[i]
      /\ \A i \in 1..Len(r) : i \in 1..Len(q) \/ (i - Len(q) \in 1..Len(out) /\ r[i] = out[i - Len(q)])
  BY <1>1, <1>a
<1>3. \A i \in 1..Len(q) : \E j \in 1..a : q[i] = c[j]
  BY DEF FromFirst
<1>4. \A j \in 1..Len(out) : out[j] \in ToSet(q)
  OBVIOUS
<1>5. InStreamOrder(r)
  BY <1>1, <1>4, OrderKeptByOld
<1>6. ToSet(q) \subseteq ToSet(r) /\ \A j \in 1..Len(out) : out[j] \in ToSet(r)
  BY <1>1, JoinedSet
<1>7. ASSUME NEW i \in 1..Len(r) PROVE \E j \in 1..a : r[i] = c[j]
  <2>1. CASE i \in 1..Len(q)
    BY <1>2, <1>3, <2>1
  <2>2. CASE i \notin 1..Len(q)
    <3>1. r[i] \in ToSet(q)
      BY <1>2, <1>4, <2>2
    <3>a. r[i] \in ToSet(q) <=> \E k \in 1..Len(q) : q[k] = r[i]
      BY <1>1, Among, Zenon
    <3>2. PICK k \in 1..Len(q) : q[k] = r[i]
      BY <3>1, <3>a
    <3>3. QED  BY <1>3, <3>2
  <2>3. QED  BY <2>1, <2>2
<1>8. QED  BY <1>5, <1>6, <1>7 DEF FromFirst

\* What was forwarded last is forwarded again.
LEMMA ForwardOld ==
  ASSUME BridgeAssumption, NEW c \in Chunks, NEW a \in Nat, NEW s, NEW A, A \subseteq Peers, s \notin A,
         NEW g \in [Peers -> Seq(Parcels)], NEW h, NEW out \in Seq(Parcels),
         SentBefore(g, out, A),
         Forwarding(h, g, out, A),
         OnlyFrom(g, c, a, s, A), AllInOrder(g)
  PROVE  /\ OnlyFrom(h, c, a, s, A)
         /\ AllInOrder(h)
         /\ SentBefore(h, out, A)
         /\ \A peer \in Peers : ToSet(g[peer]) \subseteq ToSet(h[peer])
<1>1. ASSUME NEW peer \in Peers, peer \in A
      PROVE  /\ FromFirst(h[peer], c, a)
             /\ InStreamOrder(h[peer])
             /\ \A i \in 1..Len(out) : out[i] \in ToSet(h[peer])
             /\ ToSet(g[peer]) \subseteq ToSet(h[peer])
  <2>1. g[peer] \in Seq(Parcels) /\ InStreamOrder(g[peer]) /\ h[peer] = g[peer] \o out
    BY <1>1 DEF AllInOrder, Forwarding
  <2>2. FromFirst(g[peer], c, a)
    BY <1>1 DEF OnlyFrom, FromFirst
  <2>3. \A j \in 1..Len(out) : out[j] \in ToSet(g[peer])
    BY <1>1 DEF SentBefore
  <2>4. QED  BY <2>1, <2>2, <2>3, OldForOne
<1>2. ASSUME NEW peer \in Peers, peer \notin A PROVE h[peer] = g[peer]
  BY <1>2 DEF Forwarding
<1>3. OnlyFrom(h, c, a, s, A)
  <2> SUFFICES ASSUME NEW peer \in Peers, peer \notin A, NEW i \in 1..Len(h[peer])
               PROVE  peer = s /\ \E j \in 1..a :
                        Asks(c[j]) /\ h[peer][i] = AnswerTo(MessageOf(c[j]))
    BY <1>1 DEF OnlyFrom, FromFirst
  <2>1. h[peer] = g[peer]
    BY <1>2
  <2>2. \A k \in 1..Len(g[peer]) :
          peer = s /\ \E j \in 1..a : Asks(c[j]) /\ g[peer][k] = AnswerTo(MessageOf(c[j]))
    BY DEF OnlyFrom
  <2>3. QED  BY <2>1, <2>2
<1>4. AllInOrder(h)
  BY <1>1, <1>2 DEF AllInOrder
<1>5. SentBefore(h, out, A)
  BY <1>1 DEF SentBefore
<1>6. \A peer \in Peers : ToSet(g[peer]) \subseteq ToSet(h[peer])
  BY <1>1, <1>2
<1>7. QED  BY <1>3, <1>4, <1>5, <1>6

LEMMA OnlyFromMore ==
  ASSUME NEW c, NEW a \in Nat, NEW n \in Nat, NEW s, NEW A, NEW g, OnlyFrom(g, c, a, s, A)
  PROVE  OnlyFrom(g, c, a + n, s, A)
<1>1. \A j \in 1..a : j \in 1..(a + n)
  OBVIOUS
<1>2. QED  BY <1>1 DEF OnlyFrom

LEMMA AllOfMore ==
  ASSUME NEW c, NEW a \in Nat, NEW n \in Nat, NEW s \in Peers, NEW A, A \subseteq Peers, NEW g, NEW h,
         AllOf(g, c, a, s, A), \A peer \in Peers : ToSet(g[peer]) \subseteq ToSet(h[peer]),
         \A j \in (a + 1)..(a + n) :
           /\ Foreign(c[j]) /\ ~Withheld(c, j) => \A peer \in A : c[j] \in ToSet(h[peer])
           /\ Asks(c[j]) => AnswerTo(MessageOf(c[j])) \in ToSet(h[s])
  PROVE  AllOf(h, c, a + n, s, A)
<1>1. \A j \in 1..(a + n) : j \in 1..a \/ j \in (a + 1)..(a + n)
  OBVIOUS
<1>2. QED  BY <1>1 DEF AllOf

\* The slice is done.
LEMMA StreamAdvances ==
  ASSUME BridgeAssumption, BridgeInv, Relaying, StreamSoFar, At("Mavlink"),
         NEW n \in 1..Len(Rest), NEW out, Advance(n, out),
         UNCHANGED <<kinds, processor, datagram, clientsUdp, due>>,
         got' \in [Peers -> Seq(Parcels)],
         OnlyFrom(got', Chunk, cycle.at + n, Source(cycle.owner), Audience),
         mixed' \/ AllOf(got', Chunk, cycle.at + n, Source(cycle.owner), Audience),
         AllInOrder(got'),
         SentBefore(got', out, Audience)
  PROVE  Relaying' /\ StreamSoFar'
<1>1. cycle # NoCycle /\ cycle \in Cycles /\ "Mavlink" \in cycle.todo
      /\ cycle.owner \in {"processor", "socket"}
  BY AudienceFacts DEF At
<1>2. cycle.at \in Nat /\ Len(Chunk) \in Nat /\ Len(Rest) = Len(Chunk) - cycle.at /\ n \in Nat
  BY <1>1, RestFacts
<1>3. /\ cycle'.owner = cycle.owner /\ cycle'.reply = 0
      /\ n = Len(Rest) => "Mavlink" \notin cycle'.todo
      /\ n # Len(Rest) => cycle'.todo = cycle.todo /\ cycle'.at = cycle.at + n /\ cycle'.out = out
  BY <1>1 DEF Advance, Cycles
<1>4. Relaying'
  BY <1>1, <1>3 DEF Relaying, NoCycle, Origin
<1>5. Chunk' = Chunk /\ Source(cycle.owner)' = Source(cycle.owner) /\ Audience' = Audience
  BY <1>3 DEF Chunk, Buffer, Source, Audience, Reached, Origin
<1>6. Done' = cycle.at + n
  <2>1. CASE n = Len(Rest)
    <3>1. Done' = Len(Chunk)
      BY <1>3, <1>5, <2>1 DEF Done
    <3>2. PICK k, l : k = cycle.at /\ l = Len(Chunk)
      OBVIOUS
    <3>3. k + n = l
      BY <1>2, <2>1, <3>2
    <3>4. QED  BY <3>1, <3>2, <3>3
  <2>2. CASE n # Len(Rest)
    BY <1>1, <1>3, <2>2 DEF Done
  <2>3. QED  BY <2>1, <2>2
<1>7. \A p : (Foreign(p)' <=> Foreign(p)) /\ (Asks(p)' <=> Asks(p))
  BY DEF Foreign, ForChip, Asks
<1>8. due' = Expected(Chunk, Source(cycle.owner), Audience)'
  BY <1>5 DEF StreamSoFar, Expected, ForChip
<1>a. \A d, j : Withheld(d, j)' <=> Withheld(d, j)
  BY DEF Withheld, EndsMessage, ForChip
<1>9. OnlyFrom(got, Chunk, Done, Source(cycle.owner), Audience)'
  BY <1>5, <1>6, <1>7 DEF OnlyFrom
<1>10. (mixed \/ AllOf(got, Chunk, Done, Source(cycle.owner), Audience))'
  BY <1>5, <1>6, <1>7, <1>a DEF AllOf
<1>11. ("Mavlink" \in cycle.todo => SentBefore(got, cycle.out, Audience))'
  BY <1>3, <1>5 DEF SentBefore
<1>12. ~(cycle'.reply > 0)
  BY <1>3
<1>13. QED  BY <1>4, <1>8, <1>9, <1>10, <1>11, <1>12 DEF StreamSoFar, AllInOrder

LEMMA SliceContext ==
  ASSUME BridgeAssumption, BridgeInv, BuffersIncrease,
         IF Relaying THEN StreamSoFar ELSE got = NothingSent, At("Mavlink")
  PROVE  /\ Relaying /\ StreamSoFar /\ cycle # NoCycle /\ "Mavlink" \in cycle.todo /\ cycle \in Cycles
         /\ Chunk \in Chunks /\ Increasing(Chunk)
         /\ cycle.at \in Nat /\ cycle.out \in Seq(Parcels)
         /\ got \in [Peers -> Seq(Parcels)] /\ AllInOrder(got)
         /\ SentBefore(got, cycle.out, Audience)
         /\ OnlyFrom(got, Chunk, cycle.at, Source(cycle.owner), Audience)
         /\ mixed \/ AllOf(got, Chunk, cycle.at, Source(cycle.owner), Audience)
         /\ Audience \subseteq Peers /\ Source(cycle.owner) \in Peers
         /\ Source(cycle.owner) \notin Audience
<1>1. cycle # NoCycle /\ "Mavlink" \in cycle.todo /\ cycle \in Cycles
  BY DEF At, BridgeInv, Types
<1>2. cycle.owner \in {"processor", "socket"} /\ cycle.owner \in Owners
  BY <1>1, RestFacts DEF Owners
<1>3. Relaying /\ StreamSoFar
  BY <1>1, <1>2, OwnerFacts DEF Relaying
<1>4. /\ Chunk \in Chunks /\ Audience \subseteq Peers /\ Source(cycle.owner) \in Peers
      /\ Source(cycle.owner) \notin Audience
  BY <1>3, AudienceFacts
<1>5. Increasing(Chunk)
  BY <1>2 DEF Chunk, Buffer, BuffersIncrease
<1>6. cycle.at \in Nat /\ cycle.out \in Seq(Parcels)
  <2>1. cycle.at \in Nat /\ cycle.out \in Seq(Pieces)
    BY <1>1 DEF Cycles
  <2>2. Pieces \subseteq Parcels
    BY DEF Parcels
  <2>3. QED  BY <2>1, <2>2
<1>7. Done = cycle.at
  BY <1>1 DEF Done
<1>8. /\ got \in [Peers -> Seq(Parcels)] /\ AllInOrder(got)
      /\ SentBefore(got, cycle.out, Audience)
      /\ OnlyFrom(got, Chunk, cycle.at, Source(cycle.owner), Audience)
      /\ mixed \/ AllOf(got, Chunk, cycle.at, Source(cycle.owner), Audience)
  BY <1>1, <1>3, <1>7 DEF StreamSoFar, AllInOrder
<1>9. QED  BY <1>1, <1>3, <1>4, <1>5, <1>6, <1>8

LEMMA ForwardFacts ==
  ASSUME NEW before \in [Peers -> Seq(Parcels)], NEW out \in Seq(Parcels), ForwardAfter(out, before)
  PROVE  got' \in [Peers -> Seq(Parcels)] /\ Forwarding(got', before, out, Audience)
<1>1. got' = [peer \in Peers |-> IF peer \in Audience THEN before[peer] \o out ELSE before[peer]]
  BY DEF ForwardAfter, Audience
<1>2. \A peer \in Peers : (IF peer \in Audience THEN before[peer] \o out ELSE before[peer]) \in Seq(Parcels)
  OBVIOUS
<1>3. QED  BY <1>1, <1>2 DEF Forwarding

\* What the parser has made of a slice, in terms of the chunk.
LEMMA SliceInTheChunk ==
  ASSUME BridgeAssumption, BridgeInv, At("Mavlink"), NEW x \in Parsings(Rest)
  PROVE  /\ x.n \in 1..Len(Rest)
         /\ cycle.at + x.n <= Len(Chunk)
         /\ Rest[x.n] = Chunk[cycle.at + x.n]
         /\ x.complete => EndsMessage(Chunk[cycle.at + x.n])
         /\ ~x.mixed => ~mixed
         /\ ~x.mixed /\ x.complete => OneMessage(Chunk, cycle.at, x.n)
         /\ ~x.mixed /\ ~x.complete =>
              \A j \in (cycle.at + 1)..(cycle.at + x.n) : ~EndsMessage(Chunk[j])
<1>1. cycle # NoCycle /\ "Mavlink" \in cycle.todo
  BY DEF At
<1>2. Rest \in Seq(Pieces) /\ cycle.at \in Nat /\ Len(Chunk) \in Nat /\ Len(Rest) = Len(Chunk) - cycle.at
  BY <1>1, RestFacts
<1>3. parser \in Messages \cup {NoMessage, Mess} /\ mixed \in BOOLEAN
  BY DEF BridgeInv, Types
<1>4. x.n \in 1..Len(Rest)
  BY <1>2, <1>3, ParsingFacts
<1>5. /\ x.complete => EndsMessage(Rest[x.n])
      /\ ~x.mixed => ~mixed
      /\ ~x.mixed /\ x.complete =>
           \A j \in 1..x.n : /\ j < x.n => ~EndsMessage(Rest[j])
                             /\ Alien(Rest[j]) \/ MessageOf(Rest[j]) = MessageOf(Rest[x.n])
      /\ ~x.mixed /\ ~x.complete => \A j \in 1..x.n : ~EndsMessage(Rest[j])
  BY <1>2, <1>3, SliceFacts
<1>6. PICK n, a, c : n = x.n /\ a = cycle.at /\ c = Chunk
  OBVIOUS
<1>a. PICK l, k : l = Len(Rest) /\ k = Len(c)
  OBVIOUS
<1>b. a \in Nat /\ k \in Nat /\ l = k - a /\ n \in 1..l
  BY <1>2, <1>4, <1>6, <1>a
<1>7. \A i \in 1..Len(Rest) : Rest[i] = c[a + i] /\ a + i \in 1..Len(c)
  BY <1>1, <1>6, RestOfChunk
<1>8. n \in Nat /\ a \in Nat /\ n \in 1..Len(Rest) /\ a + n <= Len(c)
  <2>1. n \in Nat /\ a + n <= k
    BY <1>b
  <2>2. QED  BY <1>a, <1>b, <2>1
<1>9. \A j \in (a + 1)..(a + n) :
        j - a \in 1..n /\ j - a \in 1..Len(Rest) /\ a + (j - a) = j /\ (j < a + n => j - a < n)
  <2>1. \A j \in (a + 1)..(a + n) :
          j - a \in 1..n /\ j - a \in 1..l /\ a + (j - a) = j /\ (j < a + n => j - a < n)
    BY <1>b
  <2>2. QED  BY <1>a, <2>1
<1>10. \A j \in (a + 1)..(a + n) : Rest[j - a] = c[j]
  BY <1>7, <1>9
<1>11. Rest[n] = c[a + n]
  BY <1>7, <1>8
<1>12. ~x.mixed /\ x.complete => OneMessage(c, a, n)
  BY <1>5, <1>6, <1>9, <1>10, <1>11 DEF OneMessage
<1>13. ~x.mixed /\ ~x.complete => \A j \in (a + 1)..(a + n) : ~EndsMessage(c[j])
  BY <1>5, <1>6, <1>9, <1>10
<1>14. QED  BY <1>4, <1>5, <1>6, <1>8, <1>11, <1>12, <1>13

\* What the chip handles itself is not forwarded, nor what the parser has passed over before it.
LEMMA SliceWithheld ==
  ASSUME NEW c, Len(c) \in Nat, NEW a \in Nat, NEW n \in Nat, n > 0, a + n <= Len(c),
         OneMessage(c, a, n), EndsMessage(c[a + n]), ForChip(c[a + n]), NEW j \in (a + 1)..(a + n)
  PROVE  /\ Foreign(c[j]) => Withheld(c, j)
         /\ Asks(c[j]) => j = a + n
<1>1. PICK b, l : b = a + n /\ l = Len(c)
  OBVIOUS
<1>2. b \in j..l /\ j \in (a + 1)..b /\ \A k \in j..(b - 1) : k \in (a + 1)..b /\ k < b
  BY <1>1
<1>3. \A k \in (a + 1)..b : k < b => ~EndsMessage(c[k])
  BY <1>1 DEF OneMessage
<1>a. \A k \in (a + 1)..b : Alien(c[k]) \/ MessageOf(c[k]) = MessageOf(c[b])
  BY <1>1 DEF OneMessage
<1>4. ASSUME Foreign(c[j]) PROVE Withheld(c, j)
  <2>1. MessageOf(c[j]) # MessageOf(c[b])
    BY <1>1, <1>4 DEF Foreign, ForChip
  <2>2. kinds[MessageOf(c[j])] = "alien"
    <3>1. Alien(c[j])
      BY <1>2, <1>a, <2>1, Zenon
    <3>2. QED  BY <3>1 DEF Alien
  <2>3. EndsMessage(c[b]) /\ ForChip(c[b])
    BY <1>1
  <2>4. \A k \in j..(b - 1) : ~EndsMessage(c[k])
    BY <1>2, <1>3, Zenon
  <2>5. QED  BY <1>1, <1>2, <2>2, <2>3, <2>4 DEF Withheld
<1>5. ASSUME Asks(c[j]) PROVE j = a + n
  <2>1. EndsMessage(c[j])
    BY <1>5 DEF Asks, EndsMessage
  <2>2. ~(j < b)
    BY <1>2, <1>3, <2>1
  <2>3. QED  BY <1>1, <2>2
<1>6. QED  BY <1>4, <1>5

LEMMA IgnoreKeepsStream ==
  ASSUME BridgeAssumption, BridgeInv, BuffersIncrease,
         IF Relaying THEN StreamSoFar ELSE got = NothingSent, NEW x \in Parsings(Rest), Ignore(x)
  PROVE  Relaying' /\ StreamSoFar'
<1>a. At("Mavlink") /\ UNCHANGED <<kinds, processor, datagram, clientsUdp, due>>
  BY DEF Ignore, Process, peerVars, uartVars
<1>1. /\ Relaying /\ StreamSoFar /\ cycle # NoCycle /\ "Mavlink" \in cycle.todo
      /\ Chunk \in Chunks /\ Increasing(Chunk) /\ cycle.at \in Nat
      /\ got \in [Peers -> Seq(Parcels)] /\ AllInOrder(got)
      /\ OnlyFrom(got, Chunk, cycle.at, Source(cycle.owner), Audience)
      /\ mixed \/ AllOf(got, Chunk, cycle.at, Source(cycle.owner), Audience)
      /\ Audience \subseteq Peers /\ Source(cycle.owner) \in Peers
      /\ Source(cycle.owner) \notin Audience
  BY <1>a, SliceContext
<1>2. /\ x.n \in 1..Len(Rest) /\ cycle.at + x.n <= Len(Chunk) /\ Rest[x.n] = Chunk[cycle.at + x.n]
      /\ ~x.mixed => ~mixed
      /\ ~x.mixed /\ x.complete => OneMessage(Chunk, cycle.at, x.n)
      /\ ~x.mixed /\ ~x.complete =>
           \A j \in (cycle.at + 1)..(cycle.at + x.n) : ~EndsMessage(Chunk[j])
  BY <1>a, SliceInTheChunk
<1>3. PICK n, out : n = x.n /\ out = SubSeq(Rest, 1, x.n)
  OBVIOUS
<1>4. n \in Nat /\ n \in 1..Len(Rest) /\ out \in Seq(Parcels) /\ IsSlice(out, Chunk, cycle.at, n)
  <2>1. Rest \in Seq(Pieces) /\ Len(Rest) \in Nat /\ \A i \in 1..Len(Rest) : Rest[i] = Chunk[cycle.at + i]
    BY <1>1, RestFacts, RestOfChunk
  <2>2. n \in 1..Len(Rest)
    BY <1>2, <1>3
  <2>3. out \in Seq(Pieces) /\ Len(out) = n /\ \A i \in 1..n : out[i] = Rest[i] /\ i \in 1..Len(Rest)
    BY <1>3, <2>1, <2>2
  <2>4. Pieces \subseteq Parcels
    BY DEF Parcels
  <2>5. out \in Seq(Parcels)
    BY <2>3, <2>4
  <2>6. QED  BY <2>1, <2>2, <2>3, <2>5 DEF IsSlice
<1>5. got' \in [Peers -> Seq(Parcels)] /\ Forwarding(got', got, out, Audience)
  <2>1. ForwardAfter(out, got)
    BY <1>3 DEF Ignore, Forward
  <2>2. QED  BY <1>1, <1>4, <2>1, ForwardFacts
<1>6. PICK a, c, s, A : a = cycle.at /\ c = Chunk /\ s = Source(cycle.owner) /\ A = Audience
  OBVIOUS
<1>7. PICK h : h = got'
  OBVIOUS
<1>8. /\ OnlyFrom(h, c, a + n, s, A) /\ AllInOrder(h) /\ SentBefore(h, out, A)
      /\ \A peer \in Peers : ToSet(got[peer]) \subseteq ToSet(h[peer])
  <2>1. /\ c \in Chunks /\ Increasing(c) /\ a \in Nat /\ a + n <= Len(c) /\ A \subseteq Peers /\ s \notin A
        /\ IsSlice(out, c, a, n) /\ Forwarding(h, got, out, A) /\ OnlyFrom(got, c, a, s, A)
    BY <1>1, <1>2, <1>3, <1>4, <1>5, <1>6, <1>7
  <2>2. QED  BY <1>1, <1>4, <2>1, ForwardNew
<1>9. mixed' \/ AllOf(h, c, a + n, s, A)
  <2> SUFFICES ASSUME ~mixed' PROVE AllOf(h, c, a + n, s, A)
    OBVIOUS
  <2>1. ~x.mixed /\ ~mixed
    BY <1>2 DEF Ignore, Process
  <2>2. ASSUME NEW j \in (a + 1)..(a + n)
        PROVE  (\A peer \in A : c[j] \in ToSet(h[peer])) /\ ~Asks(c[j])
    <3>a. a \in Nat /\ n \in Nat
      BY <1>1, <1>4, <1>6
    <3>1. j - a \in 1..n /\ a + (j - a) = j
      BY <3>a
    <3>2. j - a \in 1..Len(out) /\ out[j - a] = c[j]
      BY <1>4, <1>6, <3>1 DEF IsSlice
    <3>3. \A peer \in A : c[j] \in ToSet(h[peer])
      BY <1>8, <3>2 DEF SentBefore
    <3>4. ~x.complete => ~EndsMessage(c[j])
      BY <1>2, <1>3, <1>6, <2>1
    <3>5. x.complete => (j < a + n => ~EndsMessage(c[j])) /\ kinds[MessageOf(c[a + n])] = "foreign"
      <4>1. x.complete => kinds[MessageOf(c[a + n])] = "foreign"
        BY <1>2, <1>3, <1>6 DEF Ignore, Process
      <4>2. x.complete => OneMessage(c, a, n)
        BY <1>2, <1>3, <1>6, <2>1
      <4>3. QED  BY <4>1, <4>2 DEF OneMessage
    <3>b. j < a + n \/ j = a + n
      BY <3>a
    <3>6. ~Asks(c[j])
      BY <3>4, <3>5, <3>b DEF Asks, EndsMessage
    <3>7. QED  BY <3>3, <3>6
  <2>3. AllOf(got, c, a, s, A) /\ s \in Peers /\ A \subseteq Peers /\ a \in Nat
    BY <1>1, <1>6, <2>1
  <2>4. QED  BY <1>4, <1>8, <2>2, <2>3, AllOfMore
<1>10. Advance(n, out)
  BY <1>3 DEF Ignore
<1>11. QED  BY <1>a, <1>1, <1>4, <1>5, <1>6, <1>7, <1>8, <1>9, <1>10, StreamAdvances

LEMMA ConsumeKeepsStream ==
  ASSUME BridgeAssumption, BridgeInv, BuffersIncrease,
         IF Relaying THEN StreamSoFar ELSE got = NothingSent, NEW x \in Parsings(Rest), Consume(x)
  PROVE  Relaying' /\ StreamSoFar'
<1>a. At("Mavlink") /\ x.complete /\ UNCHANGED <<kinds, processor, datagram, clientsUdp, due>>
  BY DEF Consume, Process, peerVars, uartVars
<1>1. /\ Relaying /\ StreamSoFar
      /\ Chunk \in Chunks /\ cycle.at \in Nat /\ cycle.out \in Seq(Parcels)
      /\ got \in [Peers -> Seq(Parcels)] /\ AllInOrder(got)
      /\ SentBefore(got, cycle.out, Audience)
      /\ OnlyFrom(got, Chunk, cycle.at, Source(cycle.owner), Audience)
      /\ mixed \/ AllOf(got, Chunk, cycle.at, Source(cycle.owner), Audience)
      /\ Audience \subseteq Peers /\ Source(cycle.owner) \in Peers
      /\ Source(cycle.owner) \notin Audience
  BY <1>a, SliceContext
<1>2. /\ x.n \in 1..Len(Rest) /\ Rest[x.n] = Chunk[cycle.at + x.n]
      /\ cycle.at + x.n <= Len(Chunk) /\ EndsMessage(Chunk[cycle.at + x.n])
      /\ ~x.mixed => ~mixed /\ OneMessage(Chunk, cycle.at, x.n)
  BY <1>a, SliceInTheChunk
<1>3. PICK n, out : n = x.n /\ out = cycle.out
  OBVIOUS
<1>b. n \in Nat /\ n \in 1..Len(Rest) /\ out \in Seq(Parcels)
  BY <1>1, <1>2, <1>3
<1>4. got' \in [Peers -> Seq(Parcels)] /\ Forwarding(got', got, out, Audience)
  <2>1. ForwardAfter(out, got)
    BY <1>3 DEF Consume, Forward
  <2>2. QED  BY <1>1, <1>b, <2>1, ForwardFacts
<1>5. PICK a, c, s, A : a = cycle.at /\ c = Chunk /\ s = Source(cycle.owner) /\ A = Audience
  OBVIOUS
<1>6. PICK h : h = got'
  OBVIOUS
<1>7. /\ OnlyFrom(h, c, a, s, A) /\ AllInOrder(h) /\ SentBefore(h, out, A)
      /\ \A peer \in Peers : ToSet(got[peer]) \subseteq ToSet(h[peer])
  <2>1. /\ c \in Chunks /\ a \in Nat /\ A \subseteq Peers /\ s \notin A /\ SentBefore(got, out, A)
        /\ Forwarding(h, got, out, A) /\ OnlyFrom(got, c, a, s, A)
    BY <1>1, <1>3, <1>4, <1>5, <1>6
  <2>2. QED  BY <1>1, <1>b, <2>1, ForwardOld
<1>8. OnlyFrom(h, c, a + n, s, A) /\ a \in Nat
  <2>1. a \in Nat
    BY <1>1, <1>5
  <2>2. QED  BY <1>b, <1>7, <2>1, OnlyFromMore
<1>9. mixed' \/ AllOf(h, c, a + n, s, A)
  <2> SUFFICES ASSUME ~mixed' PROVE AllOf(h, c, a + n, s, A)
    OBVIOUS
  <2>1. ~mixed /\ OneMessage(c, a, n)
    BY <1>2, <1>3, <1>5 DEF Consume, Process
  <2>2. kinds[MessageOf(c[a + n])] = "quiet"
    BY <1>a, <1>2, <1>3, <1>5 DEF Consume, Process
  <2>a. /\ Len(c) \in Nat /\ a \in Nat /\ n > 0 /\ a + n <= Len(c)
        /\ EndsMessage(c[a + n]) /\ ForChip(c[a + n])
    BY <1>1, <1>2, <1>3, <1>b, <1>5, <2>2 DEF ForChip, Chunks
  <2>3. \A j \in (a + 1)..(a + n) : (Foreign(c[j]) => Withheld(c, j)) /\ ~Asks(c[j])
    <3>1. \A j \in (a + 1)..(a + n) : (Foreign(c[j]) => Withheld(c, j)) /\ (Asks(c[j]) => j = a + n)
      BY <1>b, <2>1, <2>a, SliceWithheld
    <3>2. ~Asks(c[a + n])
      BY <2>2 DEF Asks
    <3>3. QED  BY <3>1, <3>2
  <2>4. AllOf(got, c, a, s, A) /\ s \in Peers /\ A \subseteq Peers
    BY <1>1, <1>5, <2>1
  <2>5. QED  BY <1>b, <1>7, <1>8, <2>3, <2>4, AllOfMore
<1>10. Advance(n, out)
  BY <1>3 DEF Consume
<1>11. QED  BY <1>a, <1>1, <1>b, <1>4, <1>5, <1>6, <1>7, <1>8, <1>9, <1>10, StreamAdvances

LEMMA ComposeKeepsStream ==
  ASSUME BridgeAssumption, BridgeInv, BuffersIncrease,
         IF Relaying THEN StreamSoFar ELSE got = NothingSent, NEW x \in Parsings(Rest), Compose(x)
  PROVE  Relaying' /\ StreamSoFar'
<1>1. /\ At("Mavlink") /\ x.complete /\ kinds[MessageOf(Rest[x.n])] = "request" /\ mixed' = x.mixed
      /\ UNCHANGED <<kinds, processor, datagram, clientsUdp, got, due>>
      /\ cycle' = [cycle EXCEPT !.reply = x.n]
  BY DEF Compose, Process, peerVars, uartVars, historyVars
<1>2. Relaying /\ StreamSoFar /\ cycle \in Cycles /\ "Mavlink" \in cycle.todo
  BY <1>1, SliceContext
<1>3. /\ Rest[x.n] = Chunk[cycle.at + x.n] /\ EndsMessage(Chunk[cycle.at + x.n])
      /\ ~x.mixed => ~mixed /\ OneMessage(Chunk, cycle.at, x.n)
  BY <1>1, SliceInTheChunk
<1>4. /\ cycle'.owner = cycle.owner /\ cycle'.todo = cycle.todo /\ cycle'.at = cycle.at
      /\ cycle'.out = cycle.out /\ cycle'.reply = x.n
  BY <1>1, <1>2 DEF Cycles
<1>5. Relaying'
  <2>1. cycle.owner \in Owners
    BY <1>2 DEF Cycles
  <2>2. cycle' # NoCycle
    BY <1>4, <2>1 DEF NoCycle, Owners
  <2>3. QED  BY <1>2, <1>4, <2>2 DEF Relaying, Origin
<1>6. Chunk' = Chunk /\ Source(cycle.owner)' = Source(cycle.owner) /\ Audience' = Audience
  BY <1>1, <1>4 DEF Chunk, Buffer, Source, Audience, Reached, Origin
<1>7. Done' = Done
  BY <1>4, <1>6 DEF Done
<1>8. \A p : (Foreign(p)' <=> Foreign(p)) /\ (Asks(p)' <=> Asks(p))
  BY <1>1 DEF Foreign, ForChip, Asks
<1>9. /\ got' \in [Peers -> Seq(Parcels)] /\ \A peer \in Peers : InStreamOrder(got'[peer])
      /\ due' = Expected(Chunk, Source(cycle.owner), Audience)'
  BY <1>1, <1>2, <1>6 DEF StreamSoFar, Expected, ForChip
<1>a. \A d, j : Withheld(d, j)' <=> Withheld(d, j)
  BY <1>1 DEF Withheld, EndsMessage, ForChip
<1>10. OnlyFrom(got, Chunk, Done, Source(cycle.owner), Audience)'
  BY <1>1, <1>2, <1>6, <1>7, <1>8 DEF StreamSoFar, OnlyFrom
<1>11. (mixed \/ AllOf(got, Chunk, Done, Source(cycle.owner), Audience))'
  BY <1>1, <1>2, <1>3, <1>6, <1>7, <1>8, <1>a DEF StreamSoFar, AllOf
<1>12. ("Mavlink" \in cycle.todo => SentBefore(got, cycle.out, Audience))'
  BY <1>1, <1>2, <1>4, <1>6 DEF StreamSoFar, SentBefore
<1>13. Asks(Chunk[cycle.at + cycle.reply])'
  <2>1. Asks(Chunk[cycle.at + x.n])
    BY <1>1, <1>3 DEF Asks, EndsMessage
  <2>2. QED  BY <1>4, <1>6, <1>8, <2>1
<1>14. (mixed \/ OneMessage(Chunk, cycle.at, cycle.reply))'
  <2>1. x.mixed \/ OneMessage(Chunk, cycle.at, x.n)
    BY <1>3
  <2>2. QED  BY <1>1, <1>4, <1>6, <2>1 DEF OneMessage, EndsMessage, Alien
<1>15. QED  BY <1>5, <1>9, <1>10, <1>11, <1>12, <1>13, <1>14 DEF StreamSoFar

\* Answers to requests among the first a pieces of a chunk.
AnswersOnly(q, c, a) ==
  \A i \in 1..Len(q) : \E j \in 1..a : Asks(c[j]) /\ q[i] = AnswerTo(MessageOf(c[j]))

Answered(g, s, e) == [g EXCEPT ![s] = Append(@, e)]

LEMMA AppendJoins ==
  ASSUME NEW S, NEW q \in Seq(S), NEW e \in S
  PROVE  <<e>> \in Seq(S) /\ Append(q, e) = q \o <<e>>
OBVIOUS

LEMMA TwoLess ==
  ASSUME NEW k \in Nat, NEW m \in Nat, k < m
  PROVE  k - 2 < m - 2
OBVIOUS

LEMMA Earlier ==
  ASSUME NEW a \in Nat, NEW b \in Nat, NEW l \in Nat, a < b, b <= l, NEW j \in 1..a
  PROVE  j \in 1..l /\ j < b
OBVIOUS

\* An answer is sent: after the answers to what came before.
LEMMA AnswerInOrder ==
  ASSUME BridgeAssumption, NEW c \in Chunks, Increasing(c), NEW a \in Nat, NEW b \in Nat,
         a < b, b <= Len(c), Asks(c[b]), NEW q \in Seq(Parcels), InStreamOrder(q),
         AnswersOnly(q, c, a),
         NEW e, e = AnswerTo(MessageOf(c[b]))
  PROVE  /\ Append(q, e) \in Seq(Parcels) /\ InStreamOrder(Append(q, e))
         /\ ToSet(q) \subseteq ToSet(Append(q, e)) /\ e \in ToSet(Append(q, e))
<1>1. Len(c) \in Nat /\ \A i \in 1..Len(c) : c[i] \in Pieces
  BY ChunkPositions
<1>2. b \in 1..Len(c)
  BY <1>1
<1>3. e \in Parcels /\ Position(e) = Position(c[b]) - 2 /\ Position(c[b]) \in Nat
  <2>1. c[b] \in Pieces
    BY <1>1, <1>2
  <2>2. QED  BY <2>1, HalvesOfPieces, PieceFacts DEF Asks
<1>4. PICK out : out = <<e>>
  OBVIOUS
<1>5. out \in Seq(Parcels) /\ Len(out) = 1 /\ out[1] = e /\ Append(q, e) = q \o out
  <2>1. <<e>> \in Seq(Parcels) /\ Append(q, e) = q \o <<e>>
    BY <1>3, AppendJoins
  <2>2. Len(<<e>>) = 1 /\ <<e>>[1] = e
    OBVIOUS
  <2>3. QED  BY <1>4, <2>1, <2>2
<1>6. ASSUME NEW i \in 1..Len(q) PROVE Position(q[i]) < Position(e)
  <2>1. PICK j \in 1..a : Asks(c[j]) /\ q[i] = AnswerTo(MessageOf(c[j]))
    BY DEF AnswersOnly
  <2>2. j \in 1..Len(c) /\ j < b
    BY <1>1, <2>1, Earlier, Zenon
  <2>3. c[j] \in Pieces /\ Position(c[j]) < Position(c[b])
    BY <1>1, <1>2, <2>2 DEF Increasing
  <2>4. Position(q[i]) = Position(c[j]) - 2 /\ Position(c[j]) \in Nat
    BY <2>1, <2>3, HalvesOfPieces, PieceFacts DEF Asks
  <2>5. PICK k, m : k = Position(c[j]) /\ m = Position(c[b])
    OBVIOUS
  <2>6. k \in Nat /\ m \in Nat /\ k < m /\ Position(q[i]) = k - 2 /\ Position(e) = m - 2
    BY <1>3, <2>3, <2>4, <2>5
  <2>7. k - 2 < m - 2
    BY <2>6, TwoLess, Zenon
  <2>8. QED  BY <2>6, <2>7
<1>7. \A i \in 1..Len(q) : \A j \in 1..Len(out) : Position(q[i]) < Position(out[j])
  BY <1>5, <1>6
<1>8. \A i, j \in 1..Len(out) : i < j => Position(out[i]) < Position(out[j])
  BY <1>5
<1>9. InStreamOrder(q \o out)
  BY <1>5, <1>7, <1>8, OrderKeptByNew
<1>10. ToSet(q) \subseteq ToSet(q \o out) /\ out[1] \in ToSet(q \o out) /\ q \o out \in Seq(Parcels)
  BY <1>5, JoinedSet, Joined
<1>11. QED  BY <1>5, <1>9, <1>10

\* The sender gets its answer.
LEMMA AnswerKeeps ==
  ASSUME BridgeAssumption, NEW c \in Chunks, Increasing(c), NEW a \in Nat, NEW b \in Nat,
         a < b, b <= Len(c), Asks(c[b]), NEW s \in Peers, NEW A, A \subseteq Peers, s \notin A,
         NEW g \in [Peers -> Seq(Parcels)], AllInOrder(g), OnlyFrom(g, c, a, s, A),
         NEW out, SentBefore(g, out, A),
         NEW h, h = Answered(g, s, AnswerTo(MessageOf(c[b])))
  PROVE  /\ h \in [Peers -> Seq(Parcels)] /\ AllInOrder(h) /\ SentBefore(h, out, A)
         /\ OnlyFrom(h, c, b, s, A)
         /\ \A peer \in Peers : ToSet(g[peer]) \subseteq ToSet(h[peer])
         /\ AnswerTo(MessageOf(c[b])) \in ToSet(h[s])
<1>1. PICK q, e : q = g[s] /\ e = AnswerTo(MessageOf(c[b]))
  OBVIOUS
<1>2. h[s] = Append(q, e) /\ \A peer \in Peers : peer # s => h[peer] = g[peer]
  BY <1>1 DEF Answered
<1>3. AnswersOnly(q, c, a)
  BY <1>1 DEF OnlyFrom, AnswersOnly
<1>4. q \in Seq(Parcels) /\ InStreamOrder(q)
  BY <1>1 DEF AllInOrder
<1>5. /\ Append(q, e) \in Seq(Parcels) /\ InStreamOrder(Append(q, e))
      /\ ToSet(q) \subseteq ToSet(Append(q, e)) /\ e \in ToSet(Append(q, e))
  BY <1>1, <1>3, <1>4, AnswerInOrder
<1>6. h \in [Peers -> Seq(Parcels)]
  BY <1>1, <1>5 DEF Answered
<1>7. AllInOrder(h)
  BY <1>2, <1>5 DEF AllInOrder
<1>8. SentBefore(h, out, A)
  BY <1>2 DEF SentBefore
<1>9. \A peer \in Peers : ToSet(g[peer]) \subseteq ToSet(h[peer])
  BY <1>1, <1>2, <1>5
<1>10. OnlyFrom(h, c, b, s, A)
  <2>1. ASSUME NEW i \in 1..Len(h[s])
        PROVE  \E j \in 1..b : Asks(c[j]) /\ h[s][i] = AnswerTo(MessageOf(c[j]))
    <3>1. i \in 1..(Len(q) + 1) /\ Len(q) \in Nat
      BY <1>2, <1>4
    <3>2. CASE i \in 1..Len(q)
      <4>1. h[s][i] = q[i]
        BY <1>2, <1>4, <3>2
      <4>2. PICK j \in 1..a : Asks(c[j]) /\ q[i] = AnswerTo(MessageOf(c[j]))
        BY <1>3, <3>2 DEF AnswersOnly
      <4>3. j \in 1..b
        OBVIOUS
      <4>4. QED  BY <4>1, <4>2, <4>3
    <3>3. CASE i = Len(q) + 1
      <4>1. h[s][i] = e
        BY <1>2, <1>4, <3>3
      <4>2. b \in 1..b
        OBVIOUS
      <4>3. QED  BY <1>1, <4>1, <4>2
    <3>4. i \in 1..Len(q) \/ i = Len(q) + 1
      BY <3>1
    <3>5. QED  BY <3>2, <3>3, <3>4
  <2>2. ASSUME NEW peer \in Peers, peer # s, NEW i \in 1..Len(h[peer])
        PROVE  peer \in A /\ \E j \in 1..b : h[peer][i] = c[j]
    <3>1. h[peer] = g[peer]
      BY <1>2, <2>2
    <3>2. peer \in A /\ \E j \in 1..a : g[peer][i] = c[j]
      BY <2>2, <3>1 DEF OnlyFrom
    <3>3. \A j \in 1..a : j \in 1..b
      OBVIOUS
    <3>4. QED  BY <3>1, <3>2, <3>3
  <2>3. ASSUME NEW peer \in Peers, NEW i \in 1..Len(h[peer])
        PROVE  \/ peer \in A /\ \E j \in 1..b : h[peer][i] = c[j]
               \/ peer = s /\ \E j \in 1..b : Asks(c[j]) /\ h[peer][i] = AnswerTo(MessageOf(c[j]))
    <3>1. CASE peer = s
      BY <2>1, <3>1
    <3>2. CASE peer # s
      BY <2>2, <3>2
    <3>3. QED  BY <3>1, <3>2
  <2>4. QED  BY <2>3 DEF OnlyFrom
<1>11. QED  BY <1>1, <1>2, <1>5, <1>6, <1>7, <1>8, <1>9, <1>10

LEMMA RespondKeepsStream ==
  ASSUME BridgeAssumption, BridgeInv, BuffersIncrease,
         IF Relaying THEN StreamSoFar ELSE got = NothingSent, Respond
  PROVE  Relaying' /\ StreamSoFar'
<1>a. /\ At("Mavlink") /\ cycle.reply > 0 /\ mixed' = mixed
      /\ UNCHANGED <<kinds, processor, datagram, clientsUdp, due>>
  BY DEF Respond, peerVars, uartVars, mavVars
<1>1. /\ Relaying /\ StreamSoFar /\ cycle # NoCycle /\ "Mavlink" \in cycle.todo /\ cycle \in Cycles
      /\ Chunk \in Chunks /\ Increasing(Chunk) /\ cycle.at \in Nat /\ cycle.out \in Seq(Parcels)
      /\ got \in [Peers -> Seq(Parcels)] /\ AllInOrder(got)
      /\ SentBefore(got, cycle.out, Audience)
      /\ OnlyFrom(got, Chunk, cycle.at, Source(cycle.owner), Audience)
      /\ mixed \/ AllOf(got, Chunk, cycle.at, Source(cycle.owner), Audience)
      /\ Audience \subseteq Peers /\ Source(cycle.owner) \in Peers
      /\ Source(cycle.owner) \notin Audience
  BY <1>a, SliceContext
<1>2. PICK n, out : n = cycle.reply /\ out = cycle.out
  OBVIOUS
<1>3. PICK a, c, s, A : a = cycle.at /\ c = Chunk /\ s = Source(cycle.owner) /\ A = Audience
  OBVIOUS
<1>4. n \in Nat \ {0} /\ a + n <= Len(c) /\ n \in 1..Len(Rest) /\ Rest[n] = c[a + n]
  <2>1. n \in Nat \ {0} /\ a + n <= Len(c)
    BY <1>a, <1>1, <1>2, <1>3 DEF Cycles, BridgeInv, SliceInChunk
  <2>2. PICK l, k : l = Len(Rest) /\ k = Len(c)
    OBVIOUS
  <2>3. a \in Nat /\ k \in Nat /\ l = k - a
    BY <1>1, <1>3, <2>2, RestFacts
  <2>4. n \in 1..l
    BY <2>1, <2>2, <2>3
  <2>5. Rest[n] = c[a + n]
    BY <1>1, <1>3, <2>2, <2>4, RestOfChunk
  <2>6. QED  BY <2>1, <2>2, <2>4, <2>5
<1>5. Asks(c[a + n]) /\ (mixed \/ OneMessage(c, a, n))
  BY <1>a, <1>1, <1>2, <1>3 DEF StreamSoFar
<1>6. PICK g : g = Answered(got, s, AnswerTo(MessageOf(c[a + n])))
  OBVIOUS
<1>7. /\ g \in [Peers -> Seq(Parcels)] /\ AllInOrder(g) /\ SentBefore(g, out, A)
      /\ OnlyFrom(g, c, a + n, s, A)
      /\ \A peer \in Peers : ToSet(got[peer]) \subseteq ToSet(g[peer])
      /\ AnswerTo(MessageOf(c[a + n])) \in ToSet(g[s])
  <2>1. /\ c \in Chunks /\ Increasing(c) /\ a \in Nat /\ s \in Peers /\ A \subseteq Peers /\ s \notin A
        /\ OnlyFrom(got, c, a, s, A) /\ SentBefore(got, out, A)
    BY <1>1, <1>2, <1>3
  <2>a. got \in [Peers -> Seq(Parcels)] /\ AllInOrder(got)
    BY <1>1
  <2>2. PICK b : b = a + n
    OBVIOUS
  <2>3. b \in Nat /\ a < b /\ b <= Len(c)
    <3>1. a \in Nat /\ n \in Nat \ {0} /\ a + n <= Len(c)
      BY <1>4, <2>1
    <3>2. QED  BY <2>2, <3>1
  <2>4. Asks(c[b]) /\ g = Answered(got, s, AnswerTo(MessageOf(c[b])))
    BY <1>5, <1>6, <2>2
  <2>5. /\ g \in [Peers -> Seq(Parcels)] /\ AllInOrder(g) /\ SentBefore(g, out, A)
        /\ OnlyFrom(g, c, b, s, A)
        /\ \A peer \in Peers : ToSet(got[peer]) \subseteq ToSet(g[peer])
        /\ AnswerTo(MessageOf(c[b])) \in ToSet(g[s])
    <3>1. BridgeAssumption
      OBVIOUS
    <3>2. \A h : h = Answered(got, s, AnswerTo(MessageOf(c[b]))) =>
            /\ h \in [Peers -> Seq(Parcels)] /\ AllInOrder(h) /\ SentBefore(h, out, A)
            /\ OnlyFrom(h, c, b, s, A)
            /\ \A peer \in Peers : ToSet(got[peer]) \subseteq ToSet(h[peer])
            /\ AnswerTo(MessageOf(c[b])) \in ToSet(h[s])
      BY <2>a, <2>1, <2>3, <2>4, <3>1, AnswerKeeps, Zenon
    <3>3. QED  BY <2>4, <3>2
  <2>6. QED  BY <2>2, <2>5
<1>8. ForwardAfter(out, g)
  BY <1>2, <1>3, <1>4, <1>6 DEF Respond, Answered
<1>9. PICK h : h = got'
  OBVIOUS
<1>10. got' \in [Peers -> Seq(Parcels)] /\ Forwarding(h, g, out, A) /\ out \in Seq(Parcels)
  BY <1>1, <1>2, <1>3, <1>7, <1>8, <1>9, ForwardFacts
<1>11. /\ OnlyFrom(h, c, a + n, s, A) /\ AllInOrder(h) /\ SentBefore(h, out, A)
       /\ \A peer \in Peers : ToSet(g[peer]) \subseteq ToSet(h[peer])
  <2>1. PICK b : b = a + n
    OBVIOUS
  <2>2. c \in Chunks /\ b \in Nat /\ A \subseteq Peers /\ s \notin A /\ OnlyFrom(g, c, b, s, A)
    <3>1. a \in Nat /\ n \in Nat
      BY <1>1, <1>3, <1>4
    <3>2. b \in Nat
      BY <2>1, <3>1
    <3>3. QED  BY <1>1, <1>3, <1>7, <2>1, <3>2
  <2>3. /\ OnlyFrom(h, c, b, s, A) /\ AllInOrder(h) /\ SentBefore(h, out, A)
        /\ \A peer \in Peers : ToSet(g[peer]) \subseteq ToSet(h[peer])
    BY <1>7, <1>10, <2>2, ForwardOld
  <2>4. QED  BY <2>1, <2>3
<1>12. mixed' \/ AllOf(h, c, a + n, s, A)
  <2> SUFFICES ASSUME ~mixed PROVE AllOf(h, c, a + n, s, A)
    BY <1>a
  <2>1. OneMessage(c, a, n)
    BY <1>5
  <2>a. /\ Len(c) \in Nat /\ a \in Nat /\ n \in Nat /\ n > 0 /\ a + n <= Len(c)
        /\ EndsMessage(c[a + n]) /\ ForChip(c[a + n])
    BY <1>1, <1>3, <1>4, <1>5 DEF Asks, EndsMessage, ForChip, Chunks
  <2>2. \A j \in (a + 1)..(a + n) :
          (Foreign(c[j]) => Withheld(c, j)) /\ (Asks(c[j]) => j = a + n)
    BY <2>1, <2>a, SliceWithheld
  <2>3. AllOf(got, c, a, s, A) /\ s \in Peers /\ A \subseteq Peers /\ a \in Nat /\ n \in Nat
    BY <1>1, <1>3, <1>4
  <2>5. AnswerTo(MessageOf(c[a + n])) \in ToSet(h[s])
    BY <1>7, <1>11, <2>3
  <2>6. \A peer \in Peers : ToSet(got[peer]) \subseteq ToSet(h[peer])
    BY <1>7, <1>11
  <2>7. QED  BY <2>2, <2>3, <2>5, <2>6, AllOfMore
<1>13. Advance(n, out)
  BY <1>2 DEF Respond
<1>14. QED  BY <1>a, <1>1, <1>3, <1>4, <1>9, <1>10, <1>11, <1>12, <1>13, StreamAdvances

-----------------------------------------------------------------------------

LEMMA StreamStepKeeps ==
  ASSUME BridgeAssumption, BridgeInv, StreamInv, [Next]_vars
  PROVE  StreamInv'
<1>1. BuffersIncrease /\ (IF Relaying THEN StreamSoFar ELSE got = NothingSent)
  BY DEF StreamInv
<1>2. BuffersIncrease'
  BY <1>1, BuffersKeepIncreasing
<1>3. CASE \/ \E k \in 0..MaxRead : ReaderReads(k)
           \/ ProcessorTakes \/ ProcessorReturns
           \/ \E client \in Clients, n \in 1..NUdp : Receive(client, n)
           \/ Heartbeat \/ AsyncSend \/ Finish \/ UNCHANGED vars
  <2>1. IF Relaying' THEN StreamSoFar' ELSE got' = NothingSent
    BY <1>1, <1>3, OthersKeepStream
  <2>2. QED  BY <1>2, <2>1 DEF StreamInv, NothingSent
<1>4. CASE NotifyBegin
  <2>1. IF Relaying' THEN StreamSoFar' ELSE got' = NothingSent
    BY <1>1, <1>4, BeginKeepsStream
  <2>2. QED  BY <1>2, <2>1 DEF StreamInv, NothingSent
<1>5. CASE NotifyEnd
  <2>1. IF Relaying' THEN StreamSoFar' ELSE got' = NothingSent
    BY <1>5, EndKeepsStream
  <2>2. QED  BY <1>2, <2>1 DEF StreamInv, NothingSent
<1>6. CASE AddClient \/ \E receiver \in {"uart", "udpPort"} : SendOut(receiver)
  <2>1. IF Relaying' THEN StreamSoFar' ELSE got' = NothingSent
    BY <1>1, <1>6, HooksKeepStream
  <2>2. QED  BY <1>2, <2>1 DEF StreamInv, NothingSent
<1>7. CASE Respond \/ \E x \in Parsings(Rest) : Ignore(x) \/ Consume(x) \/ Compose(x)
  <2>1. Relaying' /\ StreamSoFar'
    BY <1>1, <1>7, RespondKeepsStream, IgnoreKeepsStream, ConsumeKeepsStream, ComposeKeepsStream
  <2>2. QED  BY <1>2, <2>1 DEF StreamInv
<1>8. WorkQueueRuns =>
        \/ NotifyBegin \/ NotifyEnd \/ Finish \/ Respond \/ AddClient
        \/ \E x \in Parsings(Rest) : Ignore(x) \/ Consume(x) \/ Compose(x)
        \/ \E receiver \in {"uart", "udpPort"} : SendOut(receiver)
  BY DEF WorkQueueRuns
<1>9. QED  BY <1>3, <1>4, <1>5, <1>6, <1>7, <1>8 DEF Next

LEMMA StreamInvariant == Spec => []StreamInv
<1>1. Init => StreamInv
  BY DEF Init, StreamInv, BuffersIncrease, Increasing, Relaying, NoCycle
<1>2. BridgeInv /\ StreamInv /\ [Next]_vars => StreamInv'
  BY BridgeAssumption, StreamStepKeeps
<1>3. QED  BY <1>1, <1>2, BridgeInvariant, PTL DEF Spec

\* At the end of a notification.
LEMMA StreamHasArrived ==
  ASSUME BridgeAssumption, BridgeInv, StreamInv, Relaying, cycle.todo = {}, NEW peer \in Peers
  PROVE  /\ Relayed(peer) \subseteq due[peer]
         /\ mixed \/ \A p \in due[peer] \ Relayed(peer) :
                       \E i \in 1..Len(Chunk) : p = Chunk[i] /\ Withheld(Chunk, i)
         /\ InStreamOrder(got[peer])
<1>1. PICK c, s, A : c = Chunk /\ s = Source(cycle.owner) /\ A = Audience
  OBVIOUS
<1>2. /\ got \in [Peers -> Seq(Parcels)] /\ OnlyFrom(got, c, Len(c), s, A)
      /\ mixed \/ AllOf(got, c, Len(c), s, A)
      /\ InStreamOrder(got[peer]) /\ due = Expected(c, s, A)
  BY <1>1 DEF StreamInv, StreamSoFar, Done
<1>3. c \in Seq(Pieces) /\ s \in Peers /\ A \subseteq Peers
  BY <1>1, AudienceFacts DEF Chunks
<1>a. \A i \in 1..Len(c) : c[i] \in Pieces
  BY <1>3
<1>4. \A p : p \in ToSet(c) <=> \E j \in 1..Len(c) : c[j] = p
  BY <1>3, Among
<1>5. \A p : p \in due[peer] <=>
        \/ p \in ToSet(c) /\ peer \in A /\ Foreign(p)
        \/ \E q \in ToSet(c) : peer = s /\ Asks(q) /\ p = AnswerTo(MessageOf(q))
  BY <1>2 DEF Expected, Foreign, ForChip, Asks
<1>6. \A p : p \in ToSet(got[peer]) <=> \E i \in 1..Len(got[peer]) : got[peer][i] = p
  <2>1. got[peer] \in Seq(Parcels)
    BY <1>2
  <2>2. QED  BY <2>1, Among
<1>7. ASSUME NEW p \in Relayed(peer) PROVE p \in due[peer]
  <2>1. p \in ToSet(got[peer]) /\ (p[3] = 0 \/ Foreign(p))
    BY DEF Relayed, Foreign
  <2>2. PICK i \in 1..Len(got[peer]) : got[peer][i] = p
    BY <1>6, <2>1
  <2>3. CASE peer \in A /\ \E j \in 1..Len(c) : p = c[j]
    <3>1. PICK j \in 1..Len(c) : p = c[j]
      BY <2>3
    <3>2. p \in ToSet(c) /\ p \in Pieces
      BY <1>4, <1>a, <3>1
    <3>3. p[3] \in 1..2
      BY <3>2, HalvesOfPieces
    <3>4. Foreign(p)
      BY <2>1, <3>3
    <3>5. QED  BY <1>5, <2>3, <3>2, <3>4
  <2>4. CASE peer = s /\ \E j \in 1..Len(c) : Asks(c[j]) /\ p = AnswerTo(MessageOf(c[j]))
    BY <1>4, <1>5, <2>4
  <2>5. QED  BY <1>2, <2>2, <2>3, <2>4 DEF OnlyFrom
<1>8. ASSUME ~mixed, NEW p \in due[peer], p \notin Relayed(peer)
      PROVE  \E i \in 1..Len(c) : p = c[i] /\ Withheld(c, i)
  <2>0. AllOf(got, c, Len(c), s, A)
    BY <1>2, <1>8
  <2>1. CASE p \in ToSet(c) /\ peer \in A /\ Foreign(p)
    <3>1. PICK j \in 1..Len(c) : c[j] = p
      BY <1>4, <2>1
    <3>2. p \notin ToSet(got[peer])
      BY <1>8, <2>1 DEF Relayed, Foreign
    <3>3. Withheld(c, j)
      BY <2>0, <2>1, <3>1, <3>2 DEF AllOf
    <3>4. QED  BY <3>1, <3>3
  <2>2. CASE \E q \in ToSet(c) : peer = s /\ Asks(q) /\ p = AnswerTo(MessageOf(q))
    <3>1. PICK q \in ToSet(c) : peer = s /\ Asks(q) /\ p = AnswerTo(MessageOf(q))
      BY <2>2
    <3>2. PICK j \in 1..Len(c) : c[j] = q
      BY <1>4, <3>1
    <3>3. p \in ToSet(got[peer])
      BY <2>0, <3>1, <3>2 DEF AllOf
    <3>4. p[3] = 0
      BY <3>1 DEF AnswerTo
    <3>5. QED  BY <1>8, <3>3, <3>4 DEF Relayed
  <2>3. QED  BY <1>5, <1>8, <2>1, <2>2
<1>9. QED  BY <1>1, <1>2, <1>7, <1>8

\* Whatever of a chunk is not for the chip reaches those the rules say, in its order, with the answers
\* to the sender; nothing else of the kind does; and a piece of it is lost only if the parser has met a
\* piece out of place, or if the piece is of a frame that the parser passes over and the next message of
\* the chunk is for the chip.
THEOREM StreamsArrive == Spec => []StreamArrives
<1>1. BridgeInv /\ StreamInv => StreamArrives
  BY BridgeAssumption, StreamHasArrived DEF StreamArrives
<1>2. QED  BY <1>1, BridgeInvariant, StreamInvariant, PTL
=============================================================================
