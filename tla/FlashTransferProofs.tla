------------------------- MODULE FlashTransferProofs -------------------------
(***************************************************************************)
(* Proofs about FlashTransfer.tla: whatever the lengths of the file and of *)
(* its chunks, the sizes of the buffer, of a page and of a block, and      *)
(* wherever the chip restarts or an operation on the flash fails, append   *)
(* hands the file over in order, and the flash keeps a file that fits into *)
(* the buffer behind a header that is only there when the file is.         *)
(***************************************************************************)
EXTENDS FlashTransfer, TLAPS

RamType == [cells : Seq(Words), len : Nat, pos : Nat]
FlushingType ==
  [base : Nat, addr : Nat, lastErased : Nat, ongoing : BOOLEAN, crc : Seq(Cells \cup {OverRead})]

Types ==
  /\ ram \in RamType
  /\ chunk \in [size : Nat, done : Nat]
  /\ flush \in [last : BOOLEAN, size : Nat, done : Nat]
  /\ flushingState \in FlushingType
  /\ handed \in Seq(Words)
  /\ stored \in [file : Nat, len : Nat, whole : BOOLEAN]

\* The life of bufferFile: nothing but an open file is worked on, a boot begins with
\* everything empty, and a file is dropped only when all of it has been appended.
FileIsOpen ==
  /\ bufferFile <=> memoryPool = "allocated"
  /\ memoryPool = "null" =>
       /\ fetch = "idle" /\ got = 0 /\ fileLen = 0 /\ ram = EmptyRam
       /\ handed = <<>> /\ flushingState = InitialFlushing /\ failed \subseteq {"erase"}
  /\ ~bufferFile => pc = "none" /\ got = fileLen /\ ram.pos = 0
  /\ bufferFile => nFetches > 0 /\ fileLen \in Lens /\ crcReport = "none"
  /\ pc # "none" => fetch = "receiving"
  /\ bufferFile /\ fetch = "receiving" => finals > 0 \/ (pc \in {"start", "pages"} /\ flush.last)

\* What append has to do for its chunk stays inside the file.
ChunkInFile ==
  /\ pc = "append" => chunk.done < chunk.size
  /\ (pc = "append" \/ (pc \in {"start", "pages"} /\ ~flush.last)) =>
       got + (chunk.size - chunk.done) <= fileLen
  /\ pc \in {"start", "pages"} /\ flush.last => got = fileLen

\* The words of the buffer that are to be handed over are those from Flushed + 1 to Buffered.
Flushed == IF pc = "pages" THEN flush.done ELSE 0
Buffered == IF pc = "pages" THEN flush.size ELSE ram.pos

BufferPositions ==
  /\ ram.len <= Len(ram.cells)
  /\ pc # "pages" /\ ram.pos > 0 => ram.len = ram.pos
  /\ pc = "pages" => /\ ram.pos = flush.done
                     /\ flush.size <= ram.len
                     /\ flush.done # flush.size => ram.len = flush.size

\* What has been appended is handed over or waits in the buffer; a read or a write that fails
\* drops the rest of the buffer, so there may then be less.
NothingTwice ==
  /\ Len(handed) + (Buffered - Flushed) <= got
  /\ flushingState.addr <= Len(handed) + 1
  /\ pc = "pages" => flushingState.ongoing

InOrder ==
  failed \subseteq {"erase"} =>
    /\ Len(handed) + (Buffered - Flushed) = got
    /\ \A i \in 1..Len(handed) : handed[i] = Word(nFetches, i)
    /\ \A i \in 1..(Buffered - Flushed) :
         ram.cells[Flushed + i] = Word(nFetches, Len(handed) + i)

\* A file that fits into the buffer, from the fetch's beginning to its end.
Small == bufferFile /\ fileLen <= Cap

\* It is flushed once, and an operation that fails ends it.
OneFlush ==
  Small =>
    /\ failed \subseteq {"erase"}
    /\ pc = "append" => chunk.done = 0
    /\ pc \in {"start", "pages"} => flush.last
    /\ pc # "pages" => flushingState = InitialFlushing /\ handed = <<>>

AfterHeader(n) == IF n = 0 THEN 0 ELSE n + 1

\* Between two pages the address is the beginning of a page, the block before it is the one
\* that was erased last or its own is, and the checksum has run over what was written.
PageByPage ==
  Small /\ pc = "pages" =>
    /\ flushingState.addr = AfterHeader(Len(handed))
    /\ flush.done # flush.size => flushingState.addr = PageStart(flushingState.addr)
    /\ \/ flushingState.lastErased = BlockOf(flushingState.addr)
       \/ /\ flushingState.addr > 0
          /\ flushingState.lastErased = BlockOf(flushingState.addr - 1)
    /\ Len(flushingState.crc) = flushingState.addr
    /\ \A i \in 1..Len(flushingState.crc) : flushingState.crc[i] # OverRead
    /\ \A i \in 1..Len(handed) : flushingState.crc[i + 1] = Word(nFetches, i)

\* What was written is there, the header is not, and the rest of the block is erased.
PagesWritten ==
  Small /\ pc = "pages" /\ "erase" \notin failed =>
    /\ flash[0] = Erased
    /\ \A i \in 1..Len(handed) : flash[i] = Word(nFetches, i)
    /\ \A a \in Addresses :
         a >= flushingState.addr /\ BlockOf(a) = flushingState.lastErased => flash[a] = Erased

\* No header without a stored file.
HeaderLast ==
  /\ flushingState.ongoing => stored = NoFile
  /\ stored = NoFile /\ "erase" \notin failed => \A n \in Nat : flash[0] # SizeWord(n)

FlashInv ==
  /\ TypeOK /\ Types
  /\ FileIsOpen
  /\ ChunkInFile
  /\ BufferPositions
  /\ NothingTwice
  /\ InOrder
  /\ OneFlush
  /\ PageByPage
  /\ PagesWritten
  /\ HeaderLast
  /\ CrcMatchMeansStored
-----------------------------------------------------------------------------
(* Pages and blocks *)
LEMMA DivFacts ==
  ASSUME NEW a \in Nat, NEW b \in Nat \ {0}
  PROVE  /\ a \div b \in Nat
         /\ a % b \in Nat /\ a % b < b
         /\ a = b * (a \div b) + (a % b)
OBVIOUS

LEMMA DivMono ==
  ASSUME NEW a \in Nat, NEW c \in Nat, NEW b \in Nat \ {0}, a <= c
  PROVE  a \div b <= c \div b
OBVIOUS

LEMMA DivDiv ==
  ASSUME NEW a \in Nat, NEW b \in Nat \ {0}, NEW c \in Nat \ {0}
  PROVE  a \div (b * c) = (a \div b) \div c
OBVIOUS

LEMMA DivIs ==
  ASSUME NEW b \in Nat \ {0}, NEW q \in Nat, NEW r \in Nat, r < b
  PROVE  (b * q + r) \div b = q
OBVIOUS

\* a page begins at or before each of its cells
LEMMA PageFacts ==
  ASSUME NEW a \in Nat
  PROVE  /\ PageStart(a) \in Nat
         /\ PageStart(a) <= a /\ a < PageStart(a) + PageSize
         /\ a = PageStart(a) + (a % PageSize) /\ a % PageSize \in 0..(PageSize - 1)
<1>1. PageSize \in Nat \ {0}
  BY FlashAssumption DEF FlashAssumption
<1>2. /\ a \div PageSize \in Nat /\ a % PageSize \in Nat /\ a % PageSize < PageSize
      /\ a = PageSize * (a \div PageSize) + (a % PageSize)
  BY <1>1, DivFacts
<1>3. (a \div PageSize) * PageSize = PageSize * (a \div PageSize) /\ PageSize * (a \div PageSize) \in Nat
  BY <1>1, <1>2
<1> QED
  BY <1>1, <1>2, <1>3 DEF PageStart

\* the cells of the page that begins at an aligned address, and the next page
LEMMA AlignedFacts ==
  ASSUME NEW a \in Nat, a = PageStart(a)
  PROVE  /\ a % PageSize = 0
         /\ PageStart(a + PageSize) = a + PageSize
         /\ \A i \in 0..(PageSize - 1) : PageStart(a + i) = a
<1>1. PageSize \in Nat \ {0}
  BY FlashAssumption DEF FlashAssumption
<1> DEFINE q == a \div PageSize
<1>2. q \in Nat /\ a = PageSize * q
  BY <1>1, DivFacts DEF PageStart
<1>3. a % PageSize = 0
  BY <1>1, <1>2
<1>4. PageStart(a + PageSize) = a + PageSize
  <2>1. a + PageSize = PageSize * (q + 1) + 0 /\ q + 1 \in Nat
    BY <1>1, <1>2
  <2>2. (a + PageSize) \div PageSize = q + 1
    BY <1>1, <2>1, DivIs
  <2> QED
    BY <1>1, <2>1, <2>2 DEF PageStart
<1>5. ASSUME NEW i \in 0..(PageSize - 1)
      PROVE  PageStart(a + i) = a
  <2>1. (a + i) \div PageSize = q
    BY <1>1, <1>2, DivIs
  <2> QED
    BY <1>1, <1>2, <2>1 DEF PageStart
<1> QED
  BY <1>3, <1>4, <1>5

LEMMA BlockFacts ==
  /\ BlockSize \in Nat \ {0}
  /\ NBlocks * BlockSize \in Nat \ {0}
  /\ \A a \in Addresses : a \in Nat /\ BlockOf(a) \in 0..(NBlocks - 1)
  /\ \A a, b \in Nat : a <= b => BlockOf(a) <= BlockOf(b)
  /\ \A a \in Nat : BlockOf(a) \in Nat
  /\ 0 \in Addresses /\ BlockOf(0) = 0
<1>1. PageSize \in Nat \ {0} /\ BlockPages \in Nat \ {0} /\ NBlocks \in Nat \ {0}
  BY FlashAssumption DEF FlashAssumption
<1>2. BlockSize \in Nat \ {0}
  BY <1>1 DEF BlockSize
<1>3. NBlocks * BlockSize \in Nat \ {0}
  BY <1>1, <1>2
<1>4. \A a \in Nat : BlockOf(a) \in Nat
  BY <1>2, DivFacts DEF BlockOf
<1>5. ASSUME NEW a \in Addresses
      PROVE  a \in Nat /\ BlockOf(a) \in 0..(NBlocks - 1)
  <2>1. a \in Nat /\ a < NBlocks * BlockSize
    BY <1>3 DEF Addresses
  <2>2. a \div BlockSize \in Nat /\ BlockSize * (a \div BlockSize) <= a
    BY <1>2, <2>1, DivFacts
  <2>3. a \div BlockSize < NBlocks
    BY <1>1, <1>2, <2>1, <2>2
  <2> QED
    BY <1>1, <2>1, <2>2, <2>3 DEF BlockOf
<1>6. \A a, b \in Nat : a <= b => BlockOf(a) <= BlockOf(b)
  BY <1>2, DivMono DEF BlockOf
<1>7. 0 \in Addresses
  BY <1>3 DEF Addresses
<1>8. BlockOf(0) = 0
  BY <1>2 DEF BlockOf
<1> QED
  BY <1>2, <1>3, <1>4, <1>5, <1>6, <1>7, <1>8

\* a page lies in one block, and inside the flash
LEMMA PageInBlock ==
  ASSUME NEW a \in Nat, NEW b \in Nat, PageStart(a) = PageStart(b)
  PROVE  BlockOf(a) = BlockOf(b)
<1>1. PageSize \in Nat \ {0} /\ BlockPages \in Nat \ {0}
  BY FlashAssumption DEF FlashAssumption
<1>2. a \div PageSize \in Nat /\ b \div PageSize \in Nat
  BY <1>1, DivFacts
<1>3. a \div PageSize = b \div PageSize
  BY <1>1, <1>2 DEF PageStart
<1>4. BlockOf(a) = (a \div PageSize) \div BlockPages /\ BlockOf(b) = (b \div PageSize) \div BlockPages
  BY <1>1, DivDiv DEF BlockOf, BlockSize
<1> QED
  BY <1>3, <1>4

LEMMA PageInFlash ==
  ASSUME NEW a \in Addresses, NEW i \in 0..(PageSize - 1)
  PROVE  PageStart(a) + i \in Addresses
<1>1. PageSize \in Nat \ {0} /\ BlockPages \in Nat \ {0} /\ NBlocks \in Nat \ {0}
  BY FlashAssumption DEF FlashAssumption
<1> DEFINE q == a \div PageSize
           k == NBlocks * BlockPages
<1>2. k \in Nat /\ NBlocks * BlockSize = k * PageSize
  BY <1>1 DEF BlockSize
<1>3. a \in Nat /\ a < k * PageSize
  BY <1>2, BlockFacts DEF Addresses
<1>4. q \in Nat /\ PageSize * q <= a
  BY <1>1, <1>3, DivFacts
<1>5. q + 1 <= k
  BY <1>1, <1>2, <1>3, <1>4
<1>6. (q + 1) * PageSize <= k * PageSize
  BY <1>1, <1>2, <1>4, <1>5
<1>7. q * PageSize + i < k * PageSize /\ q * PageSize \in Nat
  BY <1>1, <1>4, <1>6
<1>8. PageStart(a) + i = q * PageSize + i
  BY DEF PageStart
<1> HIDE DEF q, k
<1>9. q * PageSize + i \in 0..(NBlocks * BlockSize - 1)
  BY <1>2, <1>7, BlockFacts, <1>1
<1> QED
  BY <1>9, <1>8 DEF Addresses

-----------------------------------------------------------------------------
(* Cells *)

\* the kinds of cells differ
LEMMA CellFacts ==
  /\ Erased \in Cells /\ Garbage \in Cells
  /\ \A n \in 0..(SizeMod - 1) : SizeWord(n) \in Cells
  /\ Words \subseteq Cells
  /\ \A c \in Cells : c # OverRead
  /\ \A n \in Nat : /\ SizeWord(n) # Erased /\ SizeWord(n) # Garbage
                    /\ \A w \in Words : w # SizeWord(n)
  /\ \A w \in Words : w # Erased
BY DEF Cells, Words, Erased, Garbage, OverRead, SizeWord, Word

LEMMA WordFacts ==
  ASSUME NEW f \in 1..MaxFetches, NEW i \in Nat, i > 0, i <= NBlocks * BlockSize
  PROVE  Word(f, i) \in Words
BY BlockFacts DEF Words

LEMMA ProgrammedFacts ==
  ASSUME NEW old \in Cells, NEW new \in Cells
  PROVE  /\ Programmed(old, new) \in {old, new, Garbage}
         /\ Programmed(old, new) \in Cells
         /\ Programmed(old, old) = old
         /\ Programmed(Erased, new) = new
BY CellFacts DEF Programmed
-----------------------------------------------------------------------------
(* The buffer *)

\* what an append leaves in the buffer
LEMMA AppendFacts ==
  ASSUME NEW r \in RamType, NEW words \in Seq(Words),
         r.pos <= Len(r.cells), Len(r.cells) <= Cap, r.pos + Len(words) <= Cap
  PROVE  LET s == AppendAt(r, words)
         IN  /\ s \in RamType
             /\ s.len = r.pos + Len(words) /\ s.pos = r.pos + Len(words)
             /\ s.len <= Len(s.cells) /\ Len(s.cells) <= Cap
             /\ \A i \in 1..r.pos : s.cells[i] = r.cells[i]
             /\ \A i \in 1..Len(words) : s.cells[r.pos + i] = words[i]
<1> DEFINE s == AppendAt(r, words)
           n == IF Len(r.cells) > r.pos + Len(words) THEN Len(r.cells) ELSE r.pos + Len(words)
           cell(i) == IF i > r.pos /\ i <= r.pos + Len(words) THEN words[i - r.pos] ELSE r.cells[i]
<1>1. Cap \in Nat
  BY FlashAssumption DEF FlashAssumption
<1>2. /\ r.pos \in Nat /\ Len(words) \in Nat /\ Len(r.cells) \in Nat
      /\ r.cells \in [1..Len(r.cells) -> Words]
      /\ words \in [1..Len(words) -> Words]
  BY DEF RamType
<1>3. n \in Nat /\ n <= Cap /\ r.pos + Len(words) <= n
  BY <1>1, <1>2
<1>4. s = [cells |-> [i \in 1..n |-> cell(i)], len |-> r.pos + Len(words), pos |-> r.pos + Len(words)]
  BY DEF AppendAt
<1>5. \A i \in 1..n : cell(i) \in Words
  BY <1>1, <1>2
<1> HIDE DEF cell, n, s
<1>6. [i \in 1..n |-> cell(i)] \in Seq(Words) /\ Len([i \in 1..n |-> cell(i)]) = n
  BY <1>3, <1>5
<1>7. /\ s.cells = [i \in 1..n |-> cell(i)] /\ s.cells \in Seq(Words) /\ Len(s.cells) = n
      /\ s.len = r.pos + Len(words) /\ s.pos = r.pos + Len(words)
  BY <1>4, <1>6
<1>8. s \in RamType
  BY <1>2, <1>4, <1>6 DEF RamType
<1>9. \A i \in 1..r.pos : s.cells[i] = r.cells[i]
  <2> SUFFICES ASSUME NEW i \in 1..r.pos PROVE s.cells[i] = r.cells[i]
    OBVIOUS
  <2>1. i \in 1..n /\ cell(i) = r.cells[i]
    BY <1>2, <1>3 DEF cell
  <2> QED
    BY <1>7, <2>1
<1>10. \A i \in 1..Len(words) : s.cells[r.pos + i] = words[i]
  <2> SUFFICES ASSUME NEW i \in 1..Len(words) PROVE s.cells[r.pos + i] = words[i]
    OBVIOUS
  <2>1. r.pos + i \in 1..n /\ cell(r.pos + i) = words[i]
    BY <1>2, <1>3 DEF cell
  <2> QED
    BY <1>7, <2>1
<1> QED
  BY <1>3, <1>7, <1>8, <1>9, <1>10 DEF s

LEMMA ConcatFacts ==
  ASSUME NEW S, NEW s \in Seq(S), NEW t \in Seq(S)
  PROVE  /\ s \o t \in Seq(S)
         /\ Len(s \o t) = Len(s) + Len(t)
         /\ \A i \in 1..Len(s) : (s \o t)[i] = s[i]
         /\ \A i \in 1..Len(t) : (s \o t)[Len(s) + i] = t[i]
OBVIOUS

\* what a read returns
LEMMA ReadFacts ==
  ASSUME NEW r \in RamType, r.pos <= r.len, r.len <= Len(r.cells), NEW k \in Nat
  PROVE  /\ ReadWords(r, k) \in Seq(Words)
         /\ Len(ReadWords(r, k)) = Lesser(k, r.len - r.pos)
         /\ \A i \in 1..Lesser(k, r.len - r.pos) : ReadWords(r, k)[i] = r.cells[r.pos + i]
<1> DEFINE n == Lesser(k, r.len - r.pos)
<1>1. r.pos \in Nat /\ r.len \in Nat /\ r.cells \in Seq(Words)
  BY DEF RamType
<1>2. n \in Nat /\ r.pos + n <= Len(r.cells)
  BY <1>1 DEF Lesser
<1>3. ReadWords(r, k) = SubSeq(r.cells, r.pos + 1, r.pos + n)
  BY DEF ReadWords, ReadLength
<1> HIDE DEF n
<1> QED
  <2>1. SubSeq(r.cells, r.pos + 1, r.pos + n) \in Seq(Words)
    BY <1>1, <1>2
  <2>2. Len(SubSeq(r.cells, r.pos + 1, r.pos + n)) = n
    BY <1>1, <1>2
  <2>3. \A i \in 1..n : SubSeq(r.cells, r.pos + 1, r.pos + n)[i] = r.cells[r.pos + i]
    BY <1>1, <1>2
  <2> QED
    BY <1>3, <2>1, <2>2, <2>3 DEF n

LEMMA SeekFacts ==
  ASSUME NEW r \in RamType
  PROVE  /\ SeekTo(r, 0) = [r EXCEPT !.pos = 0]
         /\ SeekTo(r, 0) \in RamType
         /\ SeekTo(r, 0).pos = 0 /\ SeekTo(r, 0).len = r.len /\ SeekTo(r, 0).cells = r.cells
BY DEF SeekTo, RamType, Lesser

LEMMA EmptyRamFacts ==
  EmptyRam \in RamType /\ EmptyRam.pos = 0 /\ EmptyRam.len = 0 /\ EmptyRam.cells = <<>>
BY DEF EmptyRam, RamType

\* what the caller finds when onFileBufferingFinished has returned
LEMMA ReturnFacts ==
  ASSUME NEW r \in RamType, r.len <= Len(r.cells), Len(r.cells) <= Cap, ReturnToCaller(r)
  PROVE  /\ ram' \in RamType /\ ram'.pos = 0 /\ ram'.len <= Len(ram'.cells) /\ Len(ram'.cells) <= Cap
         /\ UNCHANGED <<got, chunk, fileLen, finals, nFetches>>
         /\ flush.last =>
              /\ ram' = EmptyRam /\ memoryPool' = "dangling" /\ bufferFile' = FALSE /\ pc' = "none"
              /\ fetch' \in {"idle", fetch}
         /\ ~flush.last =>
              /\ UNCHANGED <<memoryPool, bufferFile, fetch>>
              /\ pc' = IF chunk.done < chunk.size THEN "append" ELSE "none"
<1>1. Cap \in Nat
  BY FlashAssumption DEF FlashAssumption
<1> QED
  BY <1>1, SeekFacts, EmptyRamFacts DEF ReturnToCaller, fetchVars
-----------------------------------------------------------------------------
(* The flash *)

LEMMA EraseFacts ==
  ASSUME flash \in [Addresses -> Cells], NEW b
  PROVE  /\ Erase(b) \in [Addresses -> Cells]
         /\ \A a \in Addresses : Erase(b)[a] = IF BlockOf(a) = b THEN Erased ELSE flash[a]
BY CellFacts DEF Erase

\* what programming a page does to the cells
LEMMA ProgramFacts ==
  ASSUME flash \in [Addresses -> Cells], NEW addr \in Addresses,
         NEW page \in [0..(PageSize - 1) -> Cells]
  PROVE  /\ Program(addr, page) \in [Addresses -> Cells]
         /\ \A a \in Addresses :
              IF PageStart(a) = PageStart(addr)
              THEN /\ a - PageStart(addr) \in 0..(PageSize - 1)
                   /\ Program(addr, page)[a] = Programmed(flash[a], page[a - PageStart(addr)])
              ELSE Program(addr, page)[a] = flash[a]
<1>1. ASSUME NEW a \in Addresses, PageStart(a) = PageStart(addr)
      PROVE  a - PageStart(addr) \in 0..(PageSize - 1)
  <2>1. /\ a \in Nat /\ PageStart(a) \in Nat /\ PageStart(a) <= a /\ a < PageStart(a) + PageSize
    BY BlockFacts, PageFacts
  <2>2. PageSize \in Nat
    BY FlashAssumption DEF FlashAssumption
  <2> QED
    BY <1>1, <2>1, <2>2
<1>2. ASSUME NEW a \in Addresses
      PROVE  (IF PageStart(a) = PageStart(addr)
              THEN Programmed(flash[a], page[a - PageStart(addr)]) ELSE flash[a]) \in Cells
  BY <1>1, ProgrammedFacts
<1> QED
  BY <1>1, <1>2 DEF Program

LEMMA PageOfFacts ==
  ASSUME flash \in [Addresses -> Cells], NEW addr \in Addresses
  PROVE  /\ PageOf(addr) \in [0..(PageSize - 1) -> Cells]
         /\ \A i \in 0..(PageSize - 1) : PageOf(addr)[i] = flash[PageStart(addr) + i]
BY PageInFlash DEF PageOf
-----------------------------------------------------------------------------
(* Facts of the invariant that most of the steps need *)

LEMMA LengthBounds ==
  ASSUME FlashInv
  PROVE  /\ Cap \in Nat /\ Cap > 0
         /\ got \in Nat /\ fileLen \in Nat /\ got <= fileLen
         /\ nFetches \in Nat /\ nFetches <= MaxFetches /\ MaxFetches \in Nat
         /\ fileLen < NBlocks * BlockSize /\ fileLen + 1 \in Addresses
<1>1. Cap \in Nat /\ Cap > 0 /\ Lens \subseteq Nat /\ MaxFetches \in Nat /\ PageSize \in Nat /\ PageSize > 1
  BY FlashAssumption DEF FlashAssumption
<1>2. fileLen \in Lens \cup {0} /\ got \in 0..fileLen /\ nFetches \in 0..MaxFetches
  BY DEF FlashInv, TypeOK
<1>3. fileLen \in Nat /\ fileLen + 1 < NBlocks * BlockSize
  <2>1. CASE fileLen \in Lens
    <3>1. fileLen + PageSize < NBlocks * BlockSize
      BY <2>1, FlashAssumption DEF FlashAssumption
    <3> QED
      BY <1>1, <2>1, <3>1, BlockFacts
  <2>2. CASE fileLen = 0
    <3>1. 1 \in 0..(PageSize - 1)
      BY <1>1
    <3>2. PageStart(0) + 1 \in Addresses
      BY <3>1, BlockFacts, PageInFlash
    <3>3. PageStart(0) = 0
      BY <1>1 DEF PageStart
    <3> QED
      BY <2>2, <3>2, <3>3, BlockFacts DEF Addresses
  <2> QED
    BY <1>2, <2>1, <2>2
<1> QED
  BY <1>1, <1>2, <1>3, BlockFacts DEF Addresses

LEMMA RamBounds ==
  ASSUME FlashInv
  PROVE  /\ ram \in RamType
         /\ ram.pos \in Nat /\ ram.len \in Nat /\ Len(ram.cells) \in Nat
         /\ ram.pos <= ram.len /\ ram.len <= Len(ram.cells) /\ Len(ram.cells) <= Cap
BY DEF FlashInv, Types, RamType, TypeOK, BufferPositions

LEMMA ChunkBounds ==
  ASSUME FlashInv
  PROVE  /\ chunk \in [size : Nat, done : Nat]
         /\ chunk.size \in Nat /\ chunk.done \in Nat /\ chunk.done <= chunk.size
BY DEF FlashInv, Types, TypeOK

LEMMA FlushBounds ==
  ASSUME FlashInv
  PROVE  /\ flush \in [last : BOOLEAN, size : Nat, done : Nat]
         /\ flush.size \in Nat /\ flush.done \in Nat /\ flush.last \in BOOLEAN
         /\ flush.done <= flush.size /\ flush.size <= Cap
<1>1. Cap \in Nat
  BY FlashAssumption DEF FlashAssumption
<1> QED
  BY <1>1 DEF FlashInv, Types, TypeOK

LEMMA StateBounds ==
  ASSUME FlashInv
  PROVE  /\ flushingState \in FlushingType /\ flushingState.base = 0
         /\ flushingState.addr \in Addresses /\ flushingState.addr \in Nat
         /\ handed \in Seq(Words) /\ Len(handed) \in Nat
         /\ flash \in [Addresses -> Cells]
BY DEF FlashInv, Types, FlushingType, TypeOK

\* a boot begins with nothing in RAM
LEMMA RestartKeeps ==
  ASSUME FlashInv, Restart
  PROVE  FlashInv'
<1>1. Types'
  BY EmptyRamFacts DEF FlashInv, Restart, Types, FlushingType, InitialFlushing
<1>2. TypeOK'
  <2>1. Cap \in Nat /\ NBlocks \in Nat \ {0} /\ MaxFetches \in Nat
    BY FlashAssumption DEF FlashAssumption
  <2>2. /\ (ram.pos \in 0..Cap /\ ram.len \in 0..Cap /\ ram.pos <= ram.len)'
        /\ (ram.cells \in Seq(Words) /\ Len(ram.cells) <= Cap)'
    BY <2>1, EmptyRamFacts DEF Restart, RamType
  <2>3. (flush \in [last : BOOLEAN, size : 0..Cap, done : 0..Cap] /\ flush.done <= flush.size)'
    BY <2>1 DEF Restart
  <2>4. /\ (flushingState.base = 0 /\ flushingState.addr \in Addresses)'
        /\ (flushingState.lastErased \in 0..(NBlocks - 1) /\ flushingState.ongoing \in BOOLEAN)'
    BY <2>1, BlockFacts DEF Restart, InitialFlushing
  <2>5. (fileLen \in Lens \cup {0} /\ got \in 0..fileLen /\ finals \in 0..2 /\ nFetches \in 0..MaxFetches)'
    BY <2>1 DEF FlashInv, TypeOK, Restart
  <2>6. (chunk \in [size : ChunkSizes \cup {0}, done : Nat] /\ chunk.done <= chunk.size)'
    BY DEF Restart
  <2>7. (flash \in [Addresses -> Cells] /\ failed \subseteq Faults)'
    BY CellFacts DEF FlashInv, TypeOK, Restart
  <2> QED
    BY <2>2, <2>3, <2>4, <2>5, <2>6, <2>7 DEF Restart, TypeOK, Places
<1>3. FileIsOpen' /\ ChunkInFile'
  BY EmptyRamFacts DEF Restart, FileIsOpen, ChunkInFile
<1>4. BufferPositions' /\ NothingTwice' /\ InOrder'
  BY EmptyRamFacts DEF Restart, BufferPositions, NothingTwice, InOrder, Flushed, Buffered, InitialFlushing
<1>5. OneFlush' /\ PageByPage' /\ PagesWritten'
  BY DEF Restart, OneFlush, PageByPage, PagesWritten, Small
<1>6. HeaderLast' /\ CrcMatchMeansStored'
  BY DEF FlashInv, Restart, HeaderLast, CrcMatchMeansStored, InitialFlushing
<1> QED
  BY <1>1, <1>2, <1>3, <1>4, <1>5, <1>6 DEF FlashInv

LEMMA InitHolds == Init => FlashInv
<1> SUFFICES ASSUME Init PROVE FlashInv
  OBVIOUS
<1>1. Types
  BY EmptyRamFacts, FlashAssumption DEF Init, Types, FlushingType, InitialFlushing, NoFile, FlashAssumption
<1>2. TypeOK
  <2>1. Cap \in Nat /\ NBlocks \in Nat \ {0} /\ MaxFetches \in Nat
    BY FlashAssumption DEF FlashAssumption
  <2>2. /\ (ram.pos \in 0..Cap /\ ram.len \in 0..Cap /\ ram.pos <= ram.len)
        /\ (ram.cells \in Seq(Words) /\ Len(ram.cells) <= Cap)
    BY <2>1, EmptyRamFacts DEF Init, RamType
  <2>3. (flush \in [last : BOOLEAN, size : 0..Cap, done : 0..Cap] /\ flush.done <= flush.size)
    BY <2>1 DEF Init
  <2>4. /\ (flushingState.base = 0 /\ flushingState.addr \in Addresses)
        /\ (flushingState.lastErased \in 0..(NBlocks - 1) /\ flushingState.ongoing \in BOOLEAN)
    BY <2>1, BlockFacts DEF Init, InitialFlushing
  <2>5. (fileLen \in Lens \cup {0} /\ got \in 0..fileLen /\ finals \in 0..2 /\ nFetches \in 0..MaxFetches)
    BY <2>1 DEF TypeOK, Init
  <2>6. (chunk \in [size : ChunkSizes \cup {0}, done : Nat] /\ chunk.done <= chunk.size)
    BY DEF Init
  <2>7. (flash \in [Addresses -> Cells] /\ failed \subseteq Faults)
    BY CellFacts DEF TypeOK, Init
  <2> QED
    BY <2>2, <2>3, <2>4, <2>5, <2>6, <2>7 DEF Init, TypeOK, Places
<1>3. FileIsOpen /\ ChunkInFile
  BY EmptyRamFacts DEF Init, FileIsOpen, ChunkInFile
<1>4. BufferPositions /\ NothingTwice /\ InOrder
  BY EmptyRamFacts DEF Init, BufferPositions, NothingTwice, InOrder, Flushed, Buffered, InitialFlushing
<1>5. OneFlush /\ PageByPage /\ PagesWritten
  BY DEF Init, OneFlush, PageByPage, PagesWritten, Small
<1>6. HeaderLast /\ CrcMatchMeansStored
  BY CellFacts, BlockFacts DEF Init, HeaderLast, CrcMatchMeansStored, InitialFlushing
<1> QED
  BY <1>1, <1>2, <1>3, <1>4, <1>5, <1>6 DEF FlashInv

LEMMA FetchStartKeeps ==
  ASSUME FlashInv, NEW n \in Lens, FetchStart(n)
  PROVE  FlashInv'
<1>0. n \in Nat /\ nFetches \in Nat /\ nFetches + 1 <= MaxFetches /\ MaxFetches \in Nat
  BY LengthBounds, FlashAssumption DEF FetchStart, FlashAssumption
<1>1. Types'
  BY EmptyRamFacts DEF FlashInv, FetchStart, Types, flashVars
<1>2. TypeOK'
  BY <1>0, <1>1, EmptyRamFacts, LengthBounds
  DEF FlashInv, FetchStart, TypeOK, Types, flashVars, Places, RamType
<1>3. FileIsOpen' /\ ChunkInFile'
  BY <1>0 DEF FlashInv, FetchStart, FileIsOpen, ChunkInFile, flashVars
<1>4. BufferPositions' /\ NothingTwice' /\ InOrder'
  BY <1>0, EmptyRamFacts
  DEF FlashInv, FetchStart, FileIsOpen, BufferPositions, NothingTwice, InOrder, Flushed, Buffered,
      InitialFlushing, flashVars
<1>5. OneFlush' /\ PageByPage' /\ PagesWritten'
  BY DEF FlashInv, FetchStart, FileIsOpen, OneFlush, PageByPage, PagesWritten, Small, flashVars
<1>6. HeaderLast' /\ CrcMatchMeansStored'
  BY DEF FlashInv, FetchStart, HeaderLast, CrcMatchMeansStored, flashVars
<1> QED
  BY <1>1, <1>2, <1>3, <1>4, <1>5, <1>6 DEF FlashInv

LEMMA ChunkReceivedKeeps ==
  ASSUME FlashInv, NEW n \in ChunkSizes, ChunkReceived(n)
  PROVE  FlashInv'
<1>0. n \in Nat /\ n > 0 /\ got + n <= fileLen /\ pc = "none" /\ pc' = "append"
  BY FlashAssumption DEF ChunkReceived, FlashAssumption
<1>1. bufferFile
  BY <1>0, LengthBounds DEF FlashInv, FileIsOpen
<1>2. chunk' = [size |-> n, done |-> 0] /\ chunk'.size = n /\ chunk'.done = 0
  BY DEF ChunkReceived
<1>3. Types'
  BY <1>0, <1>2 DEF FlashInv, ChunkReceived, Types, fetchVars, flashVars, historyVars
<1>4. TypeOK'
  BY <1>0, <1>2 DEF FlashInv, ChunkReceived, TypeOK, fetchVars, flashVars, historyVars, Places
<1>5. FileIsOpen' /\ ChunkInFile'
  BY <1>0, <1>1, <1>2, LengthBounds
  DEF FlashInv, ChunkReceived, FileIsOpen, ChunkInFile, fetchVars, flashVars, historyVars
<1>6. BufferPositions' /\ NothingTwice' /\ InOrder'
  BY <1>0
  DEF FlashInv, ChunkReceived, BufferPositions, NothingTwice, InOrder, Flushed, Buffered,
      fetchVars, flashVars, historyVars
<1>7. OneFlush' /\ PageByPage' /\ PagesWritten'
  BY <1>0, <1>2
  DEF FlashInv, ChunkReceived, OneFlush, PageByPage, PagesWritten, Small, fetchVars, flashVars, historyVars
<1>8. HeaderLast' /\ CrcMatchMeansStored'
  BY DEF FlashInv, ChunkReceived, HeaderLast, CrcMatchMeansStored, Payload, flashVars, historyVars
<1> QED
  BY <1>3, <1>4, <1>5, <1>6, <1>7, <1>8 DEF FlashInv

LEMMA DownloadFailsKeeps ==
  ASSUME FlashInv, DownloadFails
  PROVE  FlashInv'
<1>1. Types'
  BY DEF FlashInv, DownloadFails, Types, bufferVars, flashVars, historyVars
<1>2. TypeOK'
  BY DEF FlashInv, DownloadFails, TypeOK, bufferVars, flashVars, historyVars
<1>3. FileIsOpen' /\ ChunkInFile'
  BY DEF FlashInv, DownloadFails, FileIsOpen, ChunkInFile, bufferVars, flashVars, historyVars
<1>4. BufferPositions' /\ NothingTwice' /\ InOrder'
  BY DEF FlashInv, DownloadFails, BufferPositions, NothingTwice, InOrder, Flushed, Buffered,
         bufferVars, flashVars, historyVars
<1>5. OneFlush' /\ PageByPage' /\ PagesWritten'
  BY DEF FlashInv, DownloadFails, OneFlush, PageByPage, PagesWritten, Small,
         bufferVars, flashVars, historyVars
<1>6. HeaderLast' /\ CrcMatchMeansStored'
  BY DEF FlashInv, DownloadFails, HeaderLast, CrcMatchMeansStored, Payload, flashVars, historyVars
<1> QED
  BY <1>1, <1>2, <1>3, <1>4, <1>5, <1>6 DEF FlashInv

LEMMA AppendRoundKeeps ==
  ASSUME FlashInv, AppendRound
  PROVE  FlashInv'
<1> DEFINE left == chunk.size - chunk.done
           room == Cap - ram.pos
           n == Lesser(left, room)
           pos == ram.pos
           H == Len(handed)
           words == [i \in 1..n |-> Word(nFetches, got + i)]
<1>0. /\ pc = "append" /\ bufferFile /\ nFetches > 0 /\ fetch = "receiving"
      /\ got + left <= fileLen /\ chunk.done < chunk.size
  BY DEF FlashInv, AppendRound, FileIsOpen, ChunkInFile
<1>a. /\ ram' = AppendAt(ram, words) /\ got' = got + n /\ chunk' = [chunk EXCEPT !.done = @ + n]
      /\ pc' = (IF n = chunk.size THEN "none" ELSE "start") /\ flush' = [flush EXCEPT !.last = FALSE]
      /\ UNCHANGED <<fetchVars, memoryPool, bufferFile, flushingState, flash, historyVars>>
  BY DEF AppendRound, Room
<1>b. left \in Nat /\ left > 0 /\ left = chunk.size - chunk.done
  BY <1>0, ChunkBounds
<1>c. room \in Nat /\ pos \in Nat /\ room = Cap - pos /\ Cap \in Nat
  BY RamBounds, LengthBounds
<1>d. H \in Nat
  BY StateBounds
<1>e. Flushed = 0 /\ Buffered = pos
  BY <1>0 DEF Flushed, Buffered
<1>h. pos = ram.pos /\ H = Len(handed)
  OBVIOUS
<1> HIDE DEF left, room, pos, H
<1>1. /\ n \in Nat /\ n <= left /\ pos + n <= Cap
      /\ n = left \/ n = room
  BY <1>b, <1>c DEF Lesser
<1> HIDE DEF n
<1>2. words \in Seq(Words) /\ Len(words) = n /\ \A i \in 1..n : words[i] = Word(nFetches, got + i)
  <2>1. nFetches \in 1..MaxFetches
    BY <1>0, LengthBounds
  <2>2. ASSUME NEW i \in 1..n
        PROVE  Word(nFetches, got + i) \in Words
    <3>1. got + i \in Nat /\ got + i > 0 /\ got + i <= NBlocks * BlockSize
      BY <1>0, <1>1, <1>b, LengthBounds, BlockFacts
    <3> QED
      BY <2>1, <3>1, WordFacts
  <2> QED
    BY <1>1, <2>2
<1> HIDE DEF words
<1>4. /\ ram' \in RamType /\ ram'.len = pos + n /\ ram'.pos = pos + n
      /\ ram'.len <= Len(ram'.cells) /\ Len(ram'.cells) <= Cap
      /\ \A i \in 1..pos : ram'.cells[i] = ram.cells[i]
      /\ \A i \in 1..n : ram'.cells[pos + i] = words[i]
  <2>1. ram.pos <= Len(ram.cells) /\ Len(ram.cells) <= Cap /\ ram \in RamType
    BY RamBounds, LengthBounds
  <2>2. ram.pos + Len(words) <= Cap
    BY <1>1, <1>2, <1>c, <1>h
  <2>3. AppendAt(ram, words) \in RamType /\ AppendAt(ram, words).len = ram.pos + Len(words)
    BY <1>2, <2>1, <2>2, AppendFacts
  <2>4. AppendAt(ram, words).pos = ram.pos + Len(words)
    BY <1>2, <2>1, <2>2, AppendFacts
  <2>5. /\ AppendAt(ram, words).len <= Len(AppendAt(ram, words).cells)
        /\ Len(AppendAt(ram, words).cells) <= Cap
    BY <1>2, <2>1, <2>2, AppendFacts
  <2>6. \A i \in 1..ram.pos : AppendAt(ram, words).cells[i] = ram.cells[i]
    BY <1>2, <2>1, <2>2, AppendFacts
  <2>7. \A i \in 1..Len(words) : AppendAt(ram, words).cells[ram.pos + i] = words[i]
    BY <1>2, <2>1, <2>2, AppendFacts
  <2> QED
    BY <1>2, <1>a, <1>h, <2>3, <2>4, <2>5, <2>6, <2>7
<1>5. /\ chunk' \in [size : Nat, done : Nat] /\ chunk' \in [size : ChunkSizes \cup {0}, done : Nat]
      /\ chunk'.size = chunk.size /\ chunk'.done = chunk.done + n
  <2>1. chunk \in [size : Nat, done : Nat] /\ chunk \in [size : ChunkSizes \cup {0}, done : Nat]
    BY DEF FlashInv, Types, TypeOK
  <2> QED
    BY <1>1, <1>a, <2>1
<1>f. chunk'.size - chunk'.done = left - n /\ chunk'.done <= chunk'.size
  BY <1>1, <1>5, <1>b, ChunkBounds
<1>6. /\ flush' \in [last : BOOLEAN, size : Nat, done : Nat]
      /\ flush' \in [last : BOOLEAN, size : 0..Cap, done : 0..Cap]
      /\ flush'.last = FALSE /\ flush'.size = flush.size /\ flush'.done = flush.done
  BY <1>a DEF FlashInv, Types, TypeOK
<1>7. Types'
  BY <1>a, <1>4, <1>5, <1>6 DEF FlashInv, Types, historyVars
<1>8. TypeOK'
  <2>1. ram'.pos \in 0..Cap /\ ram'.len \in 0..Cap /\ ram'.pos <= ram'.len /\ ram'.cells \in Seq(Words)
    BY <1>1, <1>4, <1>c DEF RamType
  <2>2. got' \in 0..fileLen
    BY <1>0, <1>1, <1>a, <1>b, LengthBounds
  <2>3. pc' \in Places
    BY <1>a DEF Places
  <2> QED
    BY <1>a, <1>4, <1>5, <1>6, <1>f, <2>1, <2>2, <2>3 DEF FlashInv, TypeOK, fetchVars, historyVars
<1>9. FileIsOpen'
  BY <1>0, <1>a, <1>6 DEF FlashInv, FileIsOpen, fetchVars, historyVars
<1>10. ChunkInFile'
  <2>1. got' + (chunk'.size - chunk'.done) <= fileLen'
    BY <1>0, <1>1, <1>a, <1>b, <1>f, LengthBounds DEF fetchVars
  <2> QED
    BY <1>a, <1>6, <2>1 DEF ChunkInFile
<1>11. BufferPositions'
  BY <1>a, <1>4 DEF BufferPositions
<1>g. Flushed' = 0 /\ Buffered' = pos + n
  BY <1>a, <1>4 DEF Flushed, Buffered
<1>12. NothingTwice'
  <2>1. H + pos <= got
    BY <1>c, <1>d, <1>e, <1>h, LengthBounds DEF FlashInv, NothingTwice
  <2>2. H + ((pos + n) - 0) <= got + n
    BY <1>1, <1>c, <1>d, <2>1, LengthBounds
  <2>3. flushingState.addr <= Len(handed) + 1
    BY DEF FlashInv, NothingTwice
  <2> QED
    BY <1>a, <1>h, <1>g, <2>2, <2>3 DEF NothingTwice, historyVars
<1>13. InOrder'
  <2> SUFFICES ASSUME failed \subseteq {"erase"} PROVE InOrder'
    BY <1>a DEF InOrder, historyVars
  <2>1. H + pos = got
    BY <1>c, <1>d, <1>e, <1>h, LengthBounds DEF FlashInv, InOrder
  <2>2. \A i \in 1..Len(handed) : handed[i] = Word(nFetches, i)
    BY DEF FlashInv, InOrder
  <2>3. ASSUME NEW i \in 1..(pos + n)
        PROVE  ram'.cells[0 + i] = Word(nFetches, H + i)
    <3>0. i \in Nat /\ 0 + i = i
      BY <1>1, <1>c
    <3>1. CASE i <= pos
      <4>1. i \in 1..pos /\ i \in 1..(pos - 0)
        BY <1>1, <1>c, <3>1
      <4>2. ram.cells[0 + i] = Word(nFetches, H + i)
        BY <1>h, <1>e, <4>1 DEF FlashInv, InOrder
      <4> QED
        BY <1>4, <3>0, <4>1, <4>2
    <3>2. CASE i > pos
      <4>1. i - pos \in 1..n /\ pos + (i - pos) = i /\ got + (i - pos) = H + i
        BY <1>1, <1>c, <1>d, <2>1, <3>2, LengthBounds
      <4>2. ram'.cells[i] = words[i - pos]
        BY <1>4, <4>1
      <4>3. words[i - pos] = Word(nFetches, H + i)
        BY <1>2, <4>1
      <4> QED
        BY <3>0, <4>2, <4>3
    <3> QED
      BY <3>0, <3>1, <3>2, <1>c
  <2>4. (pos + n) - 0 = pos + n /\ H + (pos + n) = got + n
    BY <1>1, <1>c, <1>d, <2>1, LengthBounds
  <2> QED
    BY <1>a, <1>h, <1>g, <2>2, <2>3, <2>4 DEF InOrder, fetchVars, historyVars
<1>14. OneFlush'
  <2> SUFFICES ASSUME fileLen <= Cap PROVE OneFlush'
    BY <1>a DEF OneFlush, Small, fetchVars
  <2>1. failed \subseteq {"erase"} /\ chunk.done = 0 /\ flushingState = InitialFlushing /\ handed = <<>>
    BY <1>0 DEF FlashInv, OneFlush, Small
  <2>2. H = 0
    BY <1>h, <2>1
  <2>3. H + pos = got
    BY <1>c, <1>d, <1>e, <1>h, <2>1, LengthBounds DEF FlashInv, InOrder
  <2>4. left <= room
    BY <1>0, <1>b, <1>c, <2>2, <2>3, LengthBounds
  <2>5. n = chunk.size
    BY <1>1, <1>b, <1>c, <2>1, <2>4, ChunkBounds
  <2> QED
    BY <1>a, <2>1, <2>5 DEF OneFlush, historyVars
<1>15. PageByPage' /\ PagesWritten'
  BY <1>a DEF PageByPage, PagesWritten
<1>16. HeaderLast' /\ CrcMatchMeansStored'
  BY <1>a DEF FlashInv, HeaderLast, CrcMatchMeansStored, Payload, historyVars
<1> QED
  BY <1>7, <1>8, <1>9, <1>10, <1>11, <1>12, <1>13, <1>14, <1>15, <1>16 DEF FlashInv

LEMMA FinalizeKeeps ==
  ASSUME FlashInv, Finalize
  PROVE  FlashInv'
<1>1. CASE bufferFile
  <2>0. /\ pc = "none" /\ pc' = "start" /\ got = fileLen /\ fetch = "receiving" /\ finals' = finals - 1
        /\ flush' = [flush EXCEPT !.last = TRUE]
        /\ UNCHANGED <<fetch, fileLen, nFetches, bufferVars, flushingState, flash, historyVars>>
    BY <1>1 DEF Finalize
  <2>1. /\ flush' \in [last : BOOLEAN, size : Nat, done : Nat]
        /\ flush' \in [last : BOOLEAN, size : 0..Cap, done : 0..Cap]
        /\ flush'.last = TRUE /\ flush'.size = flush.size /\ flush'.done = flush.done
    BY <2>0 DEF FlashInv, Types, TypeOK
  <2>2. Types'
    BY <2>0, <2>1 DEF FlashInv, Types, bufferVars, historyVars
  <2>3. finals' \in 0..2
    BY <1>1, <2>0 DEF FlashInv, FileIsOpen, TypeOK
  <2>4. TypeOK'
    BY <2>0, <2>1, <2>3 DEF FlashInv, TypeOK, Places, bufferVars, historyVars
  <2>5. FileIsOpen' /\ ChunkInFile'
    BY <1>1, <2>0, <2>1 DEF FlashInv, FileIsOpen, ChunkInFile, bufferVars, historyVars
  <2>6. BufferPositions' /\ NothingTwice' /\ InOrder'
    BY <2>0, <2>1
    DEF FlashInv, BufferPositions, NothingTwice, InOrder, Flushed, Buffered, bufferVars, historyVars
  <2>7. OneFlush' /\ PageByPage' /\ PagesWritten'
    BY <2>0, <2>1 DEF FlashInv, OneFlush, PageByPage, PagesWritten, Small, bufferVars, historyVars
  <2>8. HeaderLast' /\ CrcMatchMeansStored'
    BY <2>0 DEF FlashInv, HeaderLast, CrcMatchMeansStored, Payload, historyVars
  <2> QED
    BY <2>2, <2>4, <2>5, <2>6, <2>7, <2>8 DEF FlashInv
<1>2. CASE ~bufferFile
  BY <1>2, RestartKeeps DEF Finalize, Panic
<1> QED
  BY <1>1, <1>2

LEMMA FetchRefusedKeeps ==
  ASSUME FlashInv, FetchRefused
  PROVE  FlashInv'
BY RestartKeeps DEF FetchRefused, Panic

\* an erase, whether it does its work or not
LEMMA EraseIntoFacts ==
  ASSUME FlashInv, NEW fs \in FlushingType, fs.base = 0, fs.addr \in Addresses,
         NEW bad \in Faults \cup {"none"}, bad \in {"none", "erase"}, EraseInto(fs, bad)
  PROVE  /\ flash' \in [Addresses -> Cells]
         /\ failed' \subseteq Faults /\ failed' \subseteq failed \cup {"erase"} /\ failed \subseteq failed'
         /\ "erase" \notin failed' =>
              /\ "erase" \notin failed
              /\ \A a \in Addresses : flash'[a] = IF BlockOf(a) = BlockOf(fs.addr) THEN Erased ELSE flash[a]
         /\ flushingState' \in FlushingType
         /\ flushingState'.base = 0 /\ flushingState'.addr = fs.addr /\ flushingState'.crc = fs.crc
         /\ flushingState'.ongoing = TRUE /\ flushingState'.lastErased = BlockOf(fs.addr)
         /\ flushingState'.lastErased \in 0..(NBlocks - 1)
<1>1. BlockOf(fs.addr) \in 0..(NBlocks - 1) /\ BlockOf(fs.addr) \in Nat
  BY BlockFacts
<1>2. flash \in [Addresses -> Cells]
  BY StateBounds
<1>3. flash' \in [Addresses -> Cells]
  BY <1>2, EraseFacts DEF EraseInto
<1>4. /\ failed' \subseteq Faults /\ failed' \subseteq failed \cup {"erase"} /\ failed \subseteq failed'
  BY DEF EraseInto, FlashInv, TypeOK
<1>5. ASSUME "erase" \notin failed'
      PROVE  \A a \in Addresses : flash'[a] = IF BlockOf(a) = BlockOf(fs.addr) THEN Erased ELSE flash[a]
  <2>1. bad = "none"
    BY <1>5 DEF EraseInto
  <2>2. flash' = Erase(BlockOf(fs.addr))
    BY <2>1 DEF EraseInto
  <2> QED
    BY <1>2, <2>2, EraseFacts
<1>6. flushingState' = [fs EXCEPT !.lastErased = BlockOf(fs.addr), !.ongoing = TRUE]
  BY DEF EraseInto
<1>7. /\ flushingState' \in FlushingType
      /\ flushingState'.base = 0 /\ flushingState'.addr = fs.addr /\ flushingState'.crc = fs.crc
      /\ flushingState'.ongoing = TRUE /\ flushingState'.lastErased = BlockOf(fs.addr)
  BY <1>1, <1>6 DEF FlushingType
<1> QED
  BY <1>1, <1>3, <1>4, <1>5, <1>7

\* the first cell of the flash after an erase
LEMMA FirstCellErased ==
  ASSUME FlashInv, NEW b,
         \A a \in Addresses : flash'[a] = IF BlockOf(a) = b THEN Erased ELSE flash[a],
         b = 0 \/ \A n \in Nat : flash[0] # SizeWord(n)
  PROVE  \A n \in Nat : flash'[0] # SizeWord(n)
BY BlockFacts, CellFacts

LEMMA EraseNextBlockKeeps ==
  ASSUME FlashInv, NEW bad \in Faults \cup {"none"}, EraseNextBlock(bad)
  PROVE  FlashInv'
<1>0. /\ pc = "pages" /\ bad \in {"none", "erase"} /\ EraseInto(flushingState, bad)
      /\ ShouldErase(flushingState) /\ flush.done # flush.size
      /\ UNCHANGED <<fetchVars, bufferVars, pc, flush, handed, stored, crcReport>>
  BY DEF EraseNextBlock
<1> DEFINE addr == flushingState.addr
<1>1. /\ flash' \in [Addresses -> Cells]
      /\ failed' \subseteq Faults /\ failed' \subseteq failed \cup {"erase"} /\ failed \subseteq failed'
      /\ "erase" \notin failed' =>
           /\ "erase" \notin failed
           /\ \A a \in Addresses : flash'[a] = IF BlockOf(a) = BlockOf(addr) THEN Erased ELSE flash[a]
      /\ flushingState' \in FlushingType
      /\ flushingState'.base = 0 /\ flushingState'.addr = addr /\ flushingState'.crc = flushingState.crc
      /\ flushingState'.ongoing = TRUE /\ flushingState'.lastErased = BlockOf(addr)
      /\ flushingState'.lastErased \in 0..(NBlocks - 1)
  BY <1>0, StateBounds, EraseIntoFacts
<1>2. Types'
  BY <1>0, <1>1 DEF FlashInv, Types, fetchVars, bufferVars
<1>3. TypeOK'
  <2>1. flushingState'.addr \in Addresses
    BY <1>1, StateBounds
  <2> QED
    BY <1>0, <1>1, <2>1 DEF FlashInv, TypeOK, fetchVars, bufferVars
<1>4. bufferFile /\ memoryPool # "null" /\ stored = NoFile /\ flushingState.ongoing
  BY <1>0 DEF FlashInv, FileIsOpen, HeaderLast, NothingTwice
<1>5. FileIsOpen' /\ ChunkInFile'
  BY <1>0, <1>4 DEF FlashInv, FileIsOpen, ChunkInFile, fetchVars, bufferVars
<1>6. BufferPositions'
  BY <1>0 DEF FlashInv, BufferPositions, fetchVars, bufferVars
<1>7. NothingTwice'
  BY <1>0, <1>1 DEF FlashInv, NothingTwice, Flushed, Buffered, fetchVars, bufferVars
<1>8. InOrder'
  <2>1. failed' \subseteq {"erase"} => failed \subseteq {"erase"}
    BY <1>1
  <2> QED
    BY <1>0, <2>1 DEF FlashInv, InOrder, Flushed, Buffered, fetchVars, bufferVars
<1>9. OneFlush'
  <2>1. failed \subseteq {"erase"} => failed' \subseteq {"erase"}
    BY <1>1
  <2> QED
    BY <1>0, <2>1 DEF FlashInv, OneFlush, Small, fetchVars, bufferVars
<1>10. PageByPage'
  BY <1>0, <1>1 DEF FlashInv, PageByPage, Small, fetchVars, bufferVars
<1>11. PagesWritten'
  <2> SUFFICES ASSUME Small, "erase" \notin failed'
               PROVE  /\ flash'[0] = Erased
                      /\ \A i \in 1..Len(handed) : flash'[i] = Word(nFetches, i)
                      /\ \A a \in Addresses : a >= addr /\ BlockOf(a) = BlockOf(addr) => flash'[a] = Erased
    BY <1>0, <1>1 DEF PagesWritten, Small, fetchVars, bufferVars
  <2>1. /\ flash[0] = Erased
        /\ \A i \in 1..Len(handed) : flash[i] = Word(nFetches, i)
    BY <1>0, <1>1 DEF FlashInv, PagesWritten
  <2>2. /\ addr = AfterHeader(Len(handed))
        /\ flushingState.lastErased = BlockOf(addr)
             \/ (addr > 0 /\ flushingState.lastErased = BlockOf(addr - 1))
    BY <1>0 DEF FlashInv, PageByPage
  <2>3. flushingState.lastErased # BlockOf(addr)
    BY <1>0, <1>4 DEF ShouldErase
  <2>4. addr > 0 /\ BlockOf(addr - 1) # BlockOf(addr)
    BY <2>2, <2>3
  <2>a. addr \in Nat /\ addr \in Addresses /\ Len(handed) \in Nat
    BY StateBounds
  <2>b. \A a \in Addresses : flash'[a] = IF BlockOf(a) = BlockOf(addr) THEN Erased ELSE flash[a]
    BY <1>1
  <2> HIDE DEF addr
  <2>5. Len(handed) = addr - 1
    BY <2>2, <2>4, <2>a DEF AfterHeader
  <2>6. ASSUME NEW a \in Nat, a < addr
        PROVE  a \in Addresses /\ flash'[a] = flash[a]
    <3>1. a \in Addresses
      BY <2>6, <2>a, BlockFacts DEF Addresses
    <3>2. BlockOf(a) <= BlockOf(addr - 1) /\ BlockOf(addr - 1) <= BlockOf(addr)
      BY <2>4, <2>6, <2>a, BlockFacts
    <3>3. BlockOf(a) # BlockOf(addr)
      BY <2>4, <2>6, <2>a, <3>2, BlockFacts
    <3> QED
      BY <2>b, <3>1, <3>3
  <2>7. flash'[0] = Erased
    BY <2>1, <2>4, <2>6, <2>a
  <2>8. \A i \in 1..Len(handed) : flash'[i] = Word(nFetches, i)
    BY <2>1, <2>5, <2>6, <2>a
  <2>9. \A a \in Addresses : a >= addr /\ BlockOf(a) = BlockOf(addr) => flash'[a] = Erased
    BY <2>b
  <2> QED
    BY <2>7, <2>8, <2>9
<1>12. HeaderLast'
  <2>1. ASSUME "erase" \notin failed'
        PROVE  \A n \in Nat : flash'[0] # SizeWord(n)
    <3>1. \A n \in Nat : flash[0] # SizeWord(n)
      BY <1>1, <1>4, <2>1 DEF FlashInv, HeaderLast
    <3>2. \A a \in Addresses : flash'[a] = IF BlockOf(a) = BlockOf(addr) THEN Erased ELSE flash[a]
      BY <1>1, <2>1
    <3> QED
      BY <3>1, <3>2, FirstCellErased
  <2> QED
    BY <1>0, <1>4, <2>1 DEF HeaderLast
<1>13. CrcMatchMeansStored'
  BY <1>0, <1>4 DEF CrcMatchMeansStored
<1> QED
  BY <1>2, <1>3, <1>5, <1>6, <1>7, <1>8, <1>9, <1>10, <1>11, <1>12, <1>13 DEF FlashInv

\* The state onFileBufferingFinished goes on with.
Current ==
  IF flushingState.ongoing THEN flushingState ELSE [flushingState EXCEPT !.base = 0, !.addr = 0]

LEMMA FlushStartKeeps ==
  ASSUME FlashInv, NEW bad \in Faults \cup {"none"}, FlushStart(bad)
  PROVE  FlashInv'
<1>0. /\ pc = "start" /\ pc' = "pages" /\ bad \in {"none", "erase"}
      /\ stored' = NoFile /\ ram' = SeekTo(ram, 0)
      /\ flush' = [flush EXCEPT !.size = CurrentPosition(ram), !.done = 0]
      /\ UNCHANGED <<fetchVars, memoryPool, bufferFile, got, chunk, handed, crcReport>>
      /\ IF ShouldErase(Current)
         THEN EraseInto(Current, bad)
         ELSE flushingState' = [Current EXCEPT !.ongoing = TRUE] /\ UNCHANGED <<flash, failed>>
  BY DEF FlushStart, Current
<1>1. /\ Current \in FlushingType /\ Current.base = 0 /\ Current.addr \in Addresses
      /\ Current.ongoing = flushingState.ongoing /\ Current.crc = flushingState.crc
      /\ Current.addr = IF flushingState.ongoing THEN flushingState.addr ELSE 0
      /\ Current.lastErased \in 0..(NBlocks - 1)
  <2>1. flushingState.lastErased \in 0..(NBlocks - 1)
    BY DEF FlashInv, TypeOK
  <2> QED
    BY <2>1, StateBounds, BlockFacts DEF Current, FlushingType
<1>2. /\ flash' \in [Addresses -> Cells]
      /\ failed' \subseteq Faults /\ failed' \subseteq failed \cup {"erase"} /\ failed \subseteq failed'
      /\ flushingState' \in FlushingType
      /\ flushingState'.base = 0 /\ flushingState'.addr = Current.addr
      /\ flushingState'.crc = flushingState.crc /\ flushingState'.ongoing = TRUE
      /\ flushingState'.lastErased \in 0..(NBlocks - 1)
      /\ "erase" \notin failed' => "erase" \notin failed
  <2>1. CASE ShouldErase(Current)
    BY <1>0, <1>1, <2>1, EraseIntoFacts
  <2>2. CASE ~ShouldErase(Current)
    <3>1. flushingState' = [Current EXCEPT !.ongoing = TRUE] /\ flash' = flash /\ failed' = failed
      BY <1>0, <2>2
    <3>2. failed \subseteq Faults
      BY DEF FlashInv, TypeOK
    <3> QED
      BY <1>1, <3>1, <3>2, StateBounds DEF FlushingType
  <2> QED
    BY <2>1, <2>2
<1>3. ASSUME "erase" \notin failed', ShouldErase(Current)
      PROVE  /\ \A a \in Addresses : flash'[a] = IF BlockOf(a) = BlockOf(Current.addr) THEN Erased ELSE flash[a]
             /\ flushingState'.lastErased = BlockOf(Current.addr)
  BY <1>0, <1>1, <1>3, EraseIntoFacts
<1>4. /\ ram' = [ram EXCEPT !.pos = 0] /\ ram' \in RamType
      /\ ram'.pos = 0 /\ ram'.len = ram.len /\ ram'.cells = ram.cells
  BY <1>0, RamBounds, SeekFacts
<1>5. /\ flush' \in [last : BOOLEAN, size : Nat, done : Nat]
      /\ flush' \in [last : BOOLEAN, size : 0..Cap, done : 0..Cap]
      /\ flush'.last = flush.last /\ flush'.size = ram.pos /\ flush'.done = 0
  <2>1. CurrentPosition(ram) = ram.pos /\ ram.pos \in Nat
    BY RamBounds DEF CurrentPosition, SeekReturn
  <2>2. ram.pos \in 0..Cap /\ 0 \in 0..Cap
    BY LengthBounds DEF FlashInv, TypeOK
  <2>3. flush' = [flush EXCEPT !.size = ram.pos, !.done = 0]
    BY <1>0, <2>1
  <2> QED
    BY <2>1, <2>2, <2>3 DEF FlashInv, Types, TypeOK
<1>6. bufferFile /\ nFetches > 0 /\ memoryPool # "null" /\ fetch = "receiving" /\ crcReport = "none"
  BY <1>0 DEF FlashInv, FileIsOpen
<1>7. Types'
  BY <1>0, <1>2, <1>4, <1>5 DEF FlashInv, Types, fetchVars, NoFile
<1>8. TypeOK'
  <2>1. ram'.pos \in 0..Cap /\ ram'.len \in 0..Cap /\ ram'.pos <= ram'.len
    BY <1>4, LengthBounds, RamBounds DEF FlashInv, TypeOK
  <2>2. ram'.cells \in Seq(Words) /\ Len(ram'.cells) <= Cap
    BY <1>4 DEF FlashInv, TypeOK
  <2>3. flush'.done <= flush'.size
    BY <1>5, RamBounds
  <2> QED
    BY <1>0, <1>1, <1>2, <1>5, <2>1, <2>2, <2>3 DEF FlashInv, TypeOK, Places, fetchVars
<1>9. FileIsOpen' /\ ChunkInFile'
  BY <1>0, <1>5, <1>6 DEF FlashInv, FileIsOpen, ChunkInFile, fetchVars
<1>10. BufferPositions'
  <2>1. ram.pos > 0 => ram.len = ram.pos
    BY <1>0 DEF FlashInv, BufferPositions
  <2>2. ram.pos \in Nat /\ ram.pos <= ram.len /\ ram.len <= Len(ram.cells)
    BY RamBounds
  <2> QED
    BY <1>0, <1>4, <1>5, <2>1, <2>2 DEF BufferPositions
<1>11. Flushed = 0 /\ Buffered = ram.pos /\ Flushed' = 0 /\ Buffered' = ram.pos
  BY <1>0, <1>5 DEF Flushed, Buffered
<1>12. NothingTwice'
  <2>1. Current.addr <= Len(handed) + 1
    BY <1>1, StateBounds DEF FlashInv, NothingTwice
  <2> QED
    BY <1>0, <1>2, <1>11, <2>1 DEF FlashInv, NothingTwice
<1>13. InOrder'
  <2>1. failed' \subseteq {"erase"} => failed \subseteq {"erase"}
    BY <1>2
  <2> QED
    BY <1>0, <1>4, <1>11, <2>1 DEF FlashInv, InOrder, fetchVars
<1>14. OneFlush'
  <2>1. failed \subseteq {"erase"} => failed' \subseteq {"erase"}
    BY <1>2
  <2> QED
    BY <1>0, <1>5, <2>1 DEF FlashInv, OneFlush, Small, fetchVars
<1>15. ASSUME Small
       PROVE  /\ handed = <<>> /\ flushingState = InitialFlushing
              /\ Current.addr = 0 /\ ShouldErase(Current)
  <2>1. handed = <<>> /\ flushingState = InitialFlushing
    BY <1>0, <1>15 DEF FlashInv, OneFlush
  <2>2. ~flushingState.ongoing
    BY <2>1 DEF InitialFlushing
  <2> QED
    BY <1>1, <2>1, <2>2 DEF ShouldErase
<1>16. ASSUME Small
       PROVE  flushingState'.lastErased = 0
  BY <1>0, <1>1, <1>15, <1>16, EraseIntoFacts, BlockFacts
<1>17. PageByPage'
  <2> SUFFICES ASSUME Small PROVE PageByPage'
    BY <1>0 DEF PageByPage, Small, fetchVars
  <2>1. Len(handed) = 0 /\ flushingState'.addr = 0 /\ flushingState'.crc = <<>> /\ Len(flushingState'.crc) = 0
    BY <1>2, <1>15 DEF InitialFlushing
  <2>2. PageStart(0) = 0 /\ BlockOf(0) = 0
    BY BlockFacts, PageFacts
  <2> QED
    BY <1>0, <1>16, <2>1, <2>2 DEF PageByPage, AfterHeader
<1>18. PagesWritten'
  <2> SUFFICES ASSUME Small, "erase" \notin failed' PROVE PagesWritten'
    BY <1>0 DEF PagesWritten, Small, fetchVars
  <2>1. Len(handed) = 0
    BY <1>15
  <2>2. \A a \in Addresses : flash'[a] = IF BlockOf(a) = 0 THEN Erased ELSE flash[a]
    BY <1>3, <1>15, BlockFacts
  <2>3. flash'[0] = Erased
    BY <2>2, BlockFacts
  <2> QED
    BY <1>0, <1>16, <2>1, <2>2, <2>3 DEF PagesWritten
<1>19. HeaderLast'
  <2>1. ASSUME "erase" \notin failed'
        PROVE  \A n \in Nat : flash'[0] # SizeWord(n)
    <3>1. CASE flushingState.ongoing
      <4>1. \A n \in Nat : flash[0] # SizeWord(n)
        BY <1>2, <2>1, <3>1 DEF FlashInv, HeaderLast
      <4>2. CASE ShouldErase(Current)
        BY <1>3, <2>1, <4>1, <4>2, FirstCellErased
      <4>3. CASE ~ShouldErase(Current)
        BY <1>0, <4>1, <4>3
      <4> QED
        BY <4>2, <4>3
    <3>2. CASE ~flushingState.ongoing
      <4>1. Current.addr = 0 /\ ShouldErase(Current)
        BY <1>1, <3>2 DEF ShouldErase
      <4>2. \A a \in Addresses : flash'[a] = IF BlockOf(a) = 0 THEN Erased ELSE flash[a]
        BY <1>3, <2>1, <4>1, BlockFacts
      <4> QED
        BY <4>2, FirstCellErased
    <3> QED
      BY <3>1, <3>2
  <2> QED
    BY <1>0, <2>1 DEF HeaderLast
<1>20. CrcMatchMeansStored'
  BY <1>0 DEF CrcMatchMeansStored
<1> QED
  BY <1>7, <1>8, <1>9, <1>10, <1>12, <1>13, <1>14, <1>17, <1>18, <1>19, <1>20 DEF FlashInv

\* The page that FlushPage writes.
PageWith(addr, start, words) ==
  [i \in 0..(PageSize - 1) |->
     IF i >= start /\ i < start + Len(words) THEN words[i - start + 1] ELSE PageOf(addr)[i]]

LEMMA PageWithFacts ==
  ASSUME flash \in [Addresses -> Cells], NEW addr \in Addresses, NEW start \in {0, 1},
         NEW words \in Seq(Words), start + Len(words) <= PageSize
  PROVE  /\ PageWith(addr, start, words) \in [0..(PageSize - 1) -> Cells]
         /\ \A i \in 1..Len(words) : /\ start + i - 1 \in 0..(PageSize - 1)
                                   /\ PageWith(addr, start, words)[start + i - 1] = words[i]
         /\ \A i \in 0..(PageSize - 1) :
              i < start \/ i >= start + Len(words) =>
                PageWith(addr, start, words)[i] = flash[PageStart(addr) + i]
<1> DEFINE n == Len(words)
           cell(i) == IF i >= start /\ i < start + n THEN words[i - start + 1] ELSE PageOf(addr)[i]
<1>1. PageSize \in Nat /\ n \in Nat /\ start \in Nat /\ start + n <= PageSize
  BY FlashAssumption DEF FlashAssumption
<1>2. /\ PageOf(addr) \in [0..(PageSize - 1) -> Cells]
      /\ \A i \in 0..(PageSize - 1) : PageOf(addr)[i] = flash[PageStart(addr) + i]
  BY PageOfFacts
<1>3. \A i \in 1..n : words[i] \in Words
  OBVIOUS
<1>4. PageWith(addr, start, words) = [i \in 0..(PageSize - 1) |-> cell(i)]
  BY DEF PageWith
<1> HIDE DEF n
<1>5. ASSUME NEW i \in 0..(PageSize - 1)
      PROVE  cell(i) \in Cells
  <2>1. CASE i >= start /\ i < start + n
    <3>1. i - start + 1 \in 1..n
      BY <1>1, <2>1
    <3> QED
      BY <1>3, <2>1, <3>1, CellFacts
  <2>2. CASE ~(i >= start /\ i < start + n)
    BY <1>2, <2>2
  <2> QED
    BY <2>1, <2>2
<1>6. ASSUME NEW i \in 1..n
      PROVE  start + i - 1 \in 0..(PageSize - 1) /\ cell(start + i - 1) = words[i]
  <2>1. /\ start + i - 1 \in 0..(PageSize - 1) /\ start + i - 1 >= start /\ start + i - 1 < start + n
        /\ (start + i - 1) - start + 1 = i
    BY <1>1
  <2> QED
    BY <2>1
<1>7. ASSUME NEW i \in 0..(PageSize - 1), i < start \/ i >= start + n
      PROVE  cell(i) = flash[PageStart(addr) + i]
  <2>1. ~(i >= start /\ i < start + n)
    BY <1>1, <1>7
  <2> QED
    BY <1>2, <2>1
<1> HIDE DEF cell
<1> QED
  BY <1>4, <1>5, <1>6, <1>7 DEF n

LEMMA ChecksummedFacts ==
  ASSUME NEW fs \in FlushingType, NEW page \in [0..(PageSize - 1) -> Cells], NEW m \in Nat
  PROVE  /\ Checksummed(fs, page, m) \in Seq(Cells \cup {OverRead})
         /\ Len(Checksummed(fs, page, m)) = m
         /\ fs.addr % PageSize = 0 /\ m <= PageSize =>
              \A i \in 1..m : i - 1 \in 0..(PageSize - 1) /\ Checksummed(fs, page, m)[i] = page[i - 1]
<1> DEFINE inner == fs.addr % PageSize
           cell(i) == IF inner + i - 1 < PageSize THEN page[inner + i - 1] ELSE OverRead
<1>1. fs.addr \in Nat
  BY DEF FlushingType
<1>2. PageSize \in Nat /\ inner \in Nat
  <2>1. PageSize \in Nat \ {0}
    BY FlashAssumption DEF FlashAssumption
  <2> QED
    BY <1>1, <2>1, DivFacts
<1>3. Checksummed(fs, page, m) = [i \in 1..m |-> cell(i)]
  BY DEF Checksummed
<1> HIDE DEF inner
<1>4. ASSUME NEW i \in 1..m
      PROVE  cell(i) \in Cells \cup {OverRead}
  <2>1. CASE inner + i - 1 < PageSize
    <3>1. inner + i - 1 \in 0..(PageSize - 1)
      BY <1>2, <2>1
    <3> QED
      BY <2>1, <3>1
  <2>2. CASE ~(inner + i - 1 < PageSize)
    BY <2>2
  <2> QED
    BY <2>1, <2>2
<1>5. ASSUME inner = 0, m <= PageSize, NEW i \in 1..m
      PROVE  i - 1 \in 0..(PageSize - 1) /\ cell(i) = page[i - 1]
  <2>1. i - 1 \in 0..(PageSize - 1) /\ inner + i - 1 = i - 1 /\ i - 1 < PageSize
    BY <1>2, <1>5
  <2> QED
    BY <2>1
<1> HIDE DEF cell
<1>6. [i \in 1..m |-> cell(i)] \in Seq(Cells \cup {OverRead}) /\ Len([i \in 1..m |-> cell(i)]) = m
  BY <1>4
<1> QED
  BY <1>3, <1>5, <1>6 DEF inner

\* the parts of the invariant that a return to append or to HttpFetch could disturb
LEMMA ReturnKeeps ==
  ASSUME FlashInv, pc = "pages", NEW r \in RamType, r.len <= Len(r.cells), Len(r.cells) <= Cap,
         ReturnToCaller(r), ~flush.last => crcReport' = crcReport
  PROVE  /\ FileIsOpen' /\ ChunkInFile' /\ BufferPositions'
         /\ OneFlush' /\ PageByPage' /\ PagesWritten'
         /\ Flushed' = 0 /\ Buffered' = 0 /\ pc' \in {"none", "append"}
         /\ ram' \in RamType /\ ram'.pos \in 0..Cap /\ ram'.len \in 0..Cap /\ ram'.pos <= ram'.len
         /\ Len(ram'.cells) <= Cap
         /\ UNCHANGED <<got, chunk, fileLen, finals, nFetches>>
         /\ fetch' \in {"idle", "receiving"} /\ bufferFile' \in BOOLEAN
         /\ memoryPool' \in {"null", "allocated", "dangling"}
<1>1. /\ ram' \in RamType /\ ram'.pos = 0 /\ ram'.len <= Len(ram'.cells) /\ Len(ram'.cells) <= Cap
      /\ UNCHANGED <<got, chunk, fileLen, finals, nFetches>>
      /\ flush.last =>
           /\ ram' = EmptyRam /\ memoryPool' = "dangling" /\ bufferFile' = FALSE /\ pc' = "none"
           /\ fetch' \in {"idle", fetch}
      /\ ~flush.last =>
           /\ UNCHANGED <<memoryPool, bufferFile, fetch>>
           /\ pc' = IF chunk.done < chunk.size THEN "append" ELSE "none"
  BY ReturnFacts
<1>2. /\ bufferFile /\ memoryPool = "allocated" /\ fetch = "receiving"
      /\ nFetches > 0 /\ fileLen \in Lens /\ crcReport = "none"
      /\ ~flush.last => finals > 0
  BY DEF FlashInv, FileIsOpen
<1>3. pc' \in {"none", "append"}
  BY <1>1
<1>4. FileIsOpen'
  <2>1. CASE flush.last
    BY <1>1, <2>1 DEF FlashInv, ChunkInFile, FileIsOpen
  <2>2. CASE ~flush.last
    BY <1>1, <1>2, <2>2 DEF FileIsOpen
  <2> QED
    BY <2>1, <2>2
<1>5. ChunkInFile'
  BY <1>1 DEF FlashInv, ChunkInFile
<1>6. BufferPositions'
  BY <1>1, <1>3 DEF BufferPositions
<1>7. fileLen <= Cap => flush.last
  BY <1>2 DEF FlashInv, OneFlush, Small
<1>8. OneFlush' /\ PageByPage' /\ PagesWritten'
  BY <1>1, <1>7 DEF OneFlush, PageByPage, PagesWritten, Small
<1>9. Flushed' = 0 /\ Buffered' = 0
  BY <1>1, <1>3 DEF Flushed, Buffered
<1>10. ram'.pos \in 0..Cap /\ ram'.len \in 0..Cap /\ ram'.pos <= ram'.len
  <2>1. ram'.len \in Nat /\ Len(ram'.cells) \in Nat
    BY <1>1 DEF RamType
  <2> QED
    BY <1>1, <2>1, LengthBounds
<1>11. /\ fetch' \in {"idle", "receiving"} /\ bufferFile' \in BOOLEAN
       /\ memoryPool' \in {"null", "allocated", "dangling"}
  BY <1>1, <1>2
<1> QED
  BY <1>1, <1>3, <1>4, <1>5, <1>6, <1>8, <1>9, <1>10, <1>11

(* What FlushPage takes from the buffer, and makes of it. *)
Start == PayloadStart(flushingState)
Out == ReadWords(ram, PageSize - Start)
Written == IF IsFirstChunk(flushingState) THEN Len(Out) + Start ELSE Len(Out)
Page == PageWith(flushingState.addr, Start, Out)
Checked == flushingState.crc \o Checksummed(flushingState, Page, Written)

LEMMA StartFacts ==
  ASSUME FlashInv
  PROVE  /\ Start = IF flushingState.addr = 0 THEN 1 ELSE 0
         /\ Start \in {0, 1} /\ PageSize - Start \in Nat /\ PageSize - Start > 0
         /\ IsFirstChunk(flushingState) <=> flushingState.addr = 0
<1>1. PageSize \in Nat /\ PageSize > 1
  BY FlashAssumption DEF FlashAssumption
<1>2. flushingState.base = 0
  BY StateBounds
<1>3. IsFirstChunk(flushingState) <=> flushingState.addr = 0
  BY <1>2 DEF IsFirstChunk
<1>4. 0 % PageSize = 0
  BY <1>1
<1>5. Start = IF flushingState.addr = 0 THEN 1 ELSE 0
  BY <1>2, <1>3, <1>4 DEF Start, PayloadStart
<1> QED
  BY <1>1, <1>3, <1>5

LEMMA OutFacts ==
  ASSUME FlashInv, pc = "pages", flush.done # flush.size
  PROVE  /\ Out \in Seq(Words) /\ Len(Out) \in Nat /\ Len(Out) > 0
         /\ Start + Len(Out) <= PageSize /\ Len(Out) <= flush.size - flush.done
         /\ Len(Out) = PageSize - Start \/ Len(Out) = flush.size - flush.done
         /\ \A i \in 1..Len(Out) : Out[i] = ram.cells[flush.done + i]
         /\ Written = Start + Len(Out)
<1> DEFINE done == flush.done
           size == flush.size
           n == Len(Out)
<1>1. ram.pos = done /\ ram.len = size /\ ram.len <= Len(ram.cells) /\ ram.pos <= ram.len /\ ram \in RamType
  BY RamBounds DEF FlashInv, BufferPositions
<1>2. done \in Nat /\ size \in Nat /\ done < size
  BY FlushBounds
<1>3. PageSize - Start \in Nat /\ PageSize - Start > 0 /\ Start \in Nat /\ PageSize \in Nat
  BY StartFacts, FlashAssumption DEF FlashAssumption
<1>4. /\ Out \in Seq(Words) /\ n = Lesser(PageSize - Start, size - done)
      /\ \A i \in 1..Lesser(PageSize - Start, size - done) : Out[i] = ram.cells[done + i]
  <2>1. /\ ReadWords(ram, PageSize - Start) \in Seq(Words)
        /\ Len(ReadWords(ram, PageSize - Start)) = Lesser(PageSize - Start, ram.len - ram.pos)
        /\ \A i \in 1..Lesser(PageSize - Start, ram.len - ram.pos) :
             ReadWords(ram, PageSize - Start)[i] = ram.cells[ram.pos + i]
    BY <1>1, <1>3, ReadFacts
  <2> QED
    BY <1>1, <2>1 DEF Out
<1>5. Written = Start + n
  <2>1. n \in Nat
    BY <1>4
  <2>2. IsFirstChunk(flushingState) \/ Start = 0
    BY StartFacts
  <2> QED
    BY <1>3, <2>1, <2>2 DEF Written
<1> HIDE DEF done, size, n
<1>6. /\ n \in Nat /\ n > 0 /\ Start + n <= PageSize /\ n <= size - done
      /\ n = PageSize - Start \/ n = size - done
  BY <1>2, <1>3, <1>4 DEF Lesser
<1>7. \A i \in 1..n : Out[i] = ram.cells[done + i]
  BY <1>4
<1> QED
  BY <1>4, <1>5, <1>6, <1>7 DEF done, size, n

LEMMA PageDataFacts ==
  ASSUME FlashInv, pc = "pages", flush.done # flush.size
  PROVE  /\ Page \in [0..(PageSize - 1) -> Cells]
         /\ \A i \in 1..Len(Out) : /\ Start + i - 1 \in 0..(PageSize - 1)
                                 /\ Page[Start + i - 1] = Out[i]
         /\ \A i \in 0..(PageSize - 1) :
              i < Start \/ i >= Start + Len(Out) => Page[i] = flash[PageStart(flushingState.addr) + i]
         /\ Checked \in Seq(Cells \cup {OverRead})
         /\ Len(Checked) = Len(flushingState.crc) + Written
         /\ \A i \in 1..Len(flushingState.crc) : Checked[i] = flushingState.crc[i]
         /\ flushingState.addr % PageSize = 0 =>
              \A i \in 1..Written : /\ i - 1 \in 0..(PageSize - 1)
                                   /\ Checked[Len(flushingState.crc) + i] = Page[i - 1]
<1>1. /\ Page \in [0..(PageSize - 1) -> Cells]
      /\ \A i \in 1..Len(Out) : /\ Start + i - 1 \in 0..(PageSize - 1)
                              /\ Page[Start + i - 1] = Out[i]
      /\ \A i \in 0..(PageSize - 1) :
           i < Start \/ i >= Start + Len(Out) => Page[i] = flash[PageStart(flushingState.addr) + i]
  <2>1. flash \in [Addresses -> Cells] /\ flushingState.addr \in Addresses
    BY StateBounds
  <2>2. Start \in {0, 1} /\ Out \in Seq(Words) /\ Start + Len(Out) <= PageSize
    BY StartFacts, OutFacts
  <2> QED
    BY <2>1, <2>2, PageWithFacts DEF Page
<1> DEFINE C == Checksummed(flushingState, Page, Written)
           crc == flushingState.crc
<1>2. Written \in Nat /\ Written <= PageSize
  BY StartFacts, OutFacts
<1>3. flushingState \in FlushingType
  BY StateBounds
<1>4. /\ C \in Seq(Cells \cup {OverRead}) /\ Len(C) = Written
      /\ flushingState.addr % PageSize = 0 =>
           \A i \in 1..Written : i - 1 \in 0..(PageSize - 1) /\ C[i] = Page[i - 1]
  BY <1>1, <1>2, <1>3, ChecksummedFacts
<1>5. crc \in Seq(Cells \cup {OverRead}) /\ Checked = crc \o C
  BY <1>3 DEF Checked, FlushingType
<1> HIDE DEF C, crc
<1>6. /\ crc \o C \in Seq(Cells \cup {OverRead}) /\ Len(crc \o C) = Len(crc) + Len(C)
      /\ \A i \in 1..Len(crc) : (crc \o C)[i] = crc[i]
      /\ \A i \in 1..Len(C) : (crc \o C)[Len(crc) + i] = C[i]
  <2> DEFINE S == Cells \cup {OverRead}
  <2>1. crc \in Seq(S) /\ C \in Seq(S)
    BY <1>4, <1>5
  <2> HIDE DEF S
  <2>2. /\ crc \o C \in Seq(S) /\ Len(crc \o C) = Len(crc) + Len(C)
        /\ \A i \in 1..Len(crc) : (crc \o C)[i] = crc[i]
        /\ \A i \in 1..Len(C) : (crc \o C)[Len(crc) + i] = C[i]
    BY <2>1, ConcatFacts
  <2> QED
    BY <2>2 DEF S
<1>9. /\ Checked \in Seq(Cells \cup {OverRead}) /\ Len(Checked) = Len(crc) + Written
      /\ \A i \in 1..Len(crc) : Checked[i] = crc[i]
      /\ flushingState.addr % PageSize = 0 =>
           \A i \in 1..Written : /\ i - 1 \in 0..(PageSize - 1)
                                /\ Checked[Len(crc) + i] = Page[i - 1]
  BY <1>4, <1>5, <1>6
<1> QED
  BY <1>1, <1>9 DEF crc

\* FlushPage in these terms
LEMMA FlushPageCases ==
  ASSUME FlashInv, NEW bad \in Faults \cup {"none"}, FlushPage(bad)
  PROVE  /\ pc = "pages" /\ flush.done # flush.size /\ ~ShouldErase(flushingState)
         /\ \/ /\ bad = "read" /\ ReturnToCaller(ram) /\ failed' = failed \cup {"read"}
               /\ UNCHANGED <<flashVars, handed, stored, crcReport>>
            \/ /\ bad = "write" /\ ReturnToCaller([ram EXCEPT !.pos = @ + Len(Out)])
               /\ flushingState' = [flushingState EXCEPT !.crc = Checked]
               /\ handed' = handed \o Out
               /\ failed' = failed \cup {"write"}
               /\ UNCHANGED <<flash, flush, stored, crcReport>>
            \/ /\ bad = "none"
               /\ flash' = Program(flushingState.addr, Page)
               /\ flushingState' = [flushingState EXCEPT !.addr = @ + Written, !.crc = Checked]
               /\ flush' = [flush EXCEPT !.done = @ + Len(Out)]
               /\ handed' = handed \o Out
               /\ ram' = [ram EXCEPT !.pos = @ + Len(Out)]
               /\ UNCHANGED <<fetchVars, memoryPool, bufferFile, got, chunk, pc, stored, crcReport, failed>>
<1>1. pc = "pages" /\ flush.done # flush.size /\ ~ShouldErase(flushingState) /\ bad \in {"none", "read", "write"}
  BY DEF FlushPage
<1>2. Len(Out) > 0 /\ Len(Out) # 0
  BY <1>1, OutFacts
<1>3. Page = [i \in 0..(PageSize - 1) |->
                IF i >= Start /\ i < Start + Len(Out) THEN Out[i - Start + 1]
                ELSE PageOf(flushingState.addr)[i]]
  BY DEF Page, PageWith
<1>4. CASE bad = "read"
  BY <1>1, <1>4 DEF FlushPage
<1>5. CASE bad = "write"
  BY <1>1, <1>2, <1>3, <1>5 DEF FlushPage, Checked, Written, Out, Start
<1>6. CASE bad = "none"
  BY <1>1, <1>2, <1>3, <1>6 DEF FlushPage, Checked, Written, Out, Start
<1> QED
  BY <1>1, <1>4, <1>5, <1>6

\* what a failed read or write leaves
LEMMA FlushPageFailsKeeps ==
  ASSUME FlashInv, pc = "pages", flush.done # flush.size,
         NEW r \in RamType, r.len <= Len(r.cells), Len(r.cells) <= Cap, ReturnToCaller(r),
         NEW bad \in Faults, bad \in {"read", "write"}, failed' = failed \cup {bad},
         flushingState' \in FlushingType, flushingState'.base = 0,
         flushingState'.addr = flushingState.addr, flushingState'.ongoing = flushingState.ongoing,
         flushingState'.lastErased = flushingState.lastErased,
         handed' \in Seq(Words), Len(handed') >= Len(handed),
         Len(handed') - Len(handed) <= flush.size - flush.done,
         UNCHANGED <<flash, flush, stored, crcReport>>
  PROVE  FlashInv'
<1>1. /\ FileIsOpen' /\ ChunkInFile' /\ BufferPositions'
      /\ OneFlush' /\ PageByPage' /\ PagesWritten'
      /\ Flushed' = 0 /\ Buffered' = 0 /\ pc' \in {"none", "append"}
      /\ ram' \in RamType /\ ram'.pos \in 0..Cap /\ ram'.len \in 0..Cap /\ ram'.pos <= ram'.len
      /\ Len(ram'.cells) <= Cap
      /\ UNCHANGED <<got, chunk, fileLen, finals, nFetches>>
      /\ fetch' \in {"idle", "receiving"} /\ bufferFile' \in BOOLEAN
      /\ memoryPool' \in {"null", "allocated", "dangling"}
  BY ReturnKeeps
<1>2. Types'
  BY <1>1 DEF FlashInv, Types
<1>3. TypeOK'
  <2>1. ram'.cells \in Seq(Words)
    BY <1>1 DEF RamType
  <2>2. failed' \subseteq Faults
    BY DEF FlashInv, TypeOK
  <2>3. pc' \in Places
    BY <1>1 DEF Places
  <2> QED
    BY <1>1, <2>1, <2>2, <2>3 DEF FlashInv, TypeOK
<1>4. NothingTwice'
  <2>1. Len(handed') + 0 <= got'
    <3>1. Len(handed) + (flush.size - flush.done) <= got
      BY DEF FlashInv, NothingTwice, Flushed, Buffered
    <3>2. Len(handed') \in Nat /\ Len(handed) \in Nat
      BY StateBounds
    <3>3. flush.size - flush.done \in Nat
      BY FlushBounds
    <3> QED
      BY <1>1, <3>1, <3>2, <3>3, LengthBounds
  <2>2. flushingState.addr <= Len(handed) + 1 /\ flushingState.addr \in Nat /\ Len(handed) \in Nat
    BY StateBounds DEF FlashInv, NothingTwice
  <2>3. flushingState'.addr <= Len(handed') + 1
    BY <2>2
  <2> QED
    BY <1>1, <2>1, <2>3 DEF NothingTwice
<1>5. InOrder'
  BY DEF InOrder
<1>6. HeaderLast' /\ CrcMatchMeansStored'
  BY DEF FlashInv, HeaderLast, NothingTwice, CrcMatchMeansStored
<1> QED
  BY <1>1, <1>2, <1>3, <1>4, <1>5, <1>6 DEF FlashInv

LEMMA FlushPageFailed ==
  ASSUME FlashInv, NEW bad \in Faults \cup {"none"}, FlushPage(bad), bad # "none"
  PROVE  FlashInv'
<1>0. pc = "pages" /\ flush.done # flush.size /\ bad \in Faults
  BY FlushPageCases
<1>1. /\ flushingState \in FlushingType /\ flushingState.base = 0
      /\ handed \in Seq(Words) /\ Len(handed) \in Nat
  BY StateBounds
<1>2. flush.size - flush.done \in Nat
  BY FlushBounds
<1>3. CASE bad = "read"
  <2>1. /\ ReturnToCaller(ram) /\ failed' = failed \cup {"read"}
        /\ UNCHANGED <<flashVars, handed, stored, crcReport>>
    BY <1>3, FlushPageCases
  <2>2. ram \in RamType /\ ram.len <= Len(ram.cells) /\ Len(ram.cells) <= Cap
    BY RamBounds
  <2>3. UNCHANGED <<flash, flush, flushingState, handed, stored, crcReport>>
    BY <2>1 DEF flashVars
  <2>4. Len(handed') >= Len(handed) /\ Len(handed') - Len(handed) <= flush.size - flush.done
    BY <1>1, <1>2, <2>3
  <2> QED
    BY <1>0, <1>1, <1>3, <2>1, <2>2, <2>3, <2>4, FlushPageFailsKeeps
<1>4. CASE bad = "write"
  <2> DEFINE r == [ram EXCEPT !.pos = @ + Len(Out)]
  <2>1. /\ ReturnToCaller(r) /\ failed' = failed \cup {"write"}
        /\ flushingState' = [flushingState EXCEPT !.crc = Checked]
        /\ handed' = handed \o Out
        /\ UNCHANGED <<flash, flush, stored, crcReport>>
    BY <1>4, FlushPageCases
  <2>2. Out \in Seq(Words) /\ Len(Out) \in Nat /\ Len(Out) <= flush.size - flush.done
    BY <1>0, OutFacts
  <2>3. r \in RamType /\ r.len <= Len(r.cells) /\ Len(r.cells) <= Cap
    BY <2>2, RamBounds DEF RamType
  <2>4. /\ flushingState' \in FlushingType /\ flushingState'.base = 0
        /\ flushingState'.addr = flushingState.addr /\ flushingState'.ongoing = flushingState.ongoing
        /\ flushingState'.lastErased = flushingState.lastErased
    <3>1. Checked \in Seq(Cells \cup {OverRead})
      BY <1>0, PageDataFacts
    <3> QED
      BY <1>1, <2>1, <3>1 DEF FlushingType
  <2>5. handed' \in Seq(Words) /\ Len(handed') = Len(handed) + Len(Out)
    BY <1>1, <2>1, <2>2, ConcatFacts
  <2>6. Len(handed') >= Len(handed) /\ Len(handed') - Len(handed) <= flush.size - flush.done
    BY <1>1, <1>2, <2>2, <2>5
  <2> HIDE DEF r
  <2> QED
    BY <1>0, <1>4, <2>1, <2>3, <2>4, <2>5, <2>6, FlushPageFailsKeeps
<1> QED
  BY <1>3, <1>4, FlushPageCases

\* the numbers of a page that is written, and what it takes from the buffer
LEMMA FlushPageNumbers ==
  ASSUME FlashInv, NEW bad \in Faults \cup {"none"}, FlushPage(bad), bad = "none"
  PROVE  /\ pc = "pages" /\ flush.done # flush.size /\ flushingState.ongoing
         /\ flushingState.lastErased = BlockOf(flushingState.addr)
         /\ handed' \in Seq(Words) /\ Len(handed') = Len(handed) + Len(Out)
         /\ \A i \in 1..Len(handed) : handed'[i] = handed[i]
         /\ \A i \in 1..Len(Out) : handed'[Len(handed) + i] = Out[i]
         /\ ram' \in RamType /\ ram'.pos = flush.done + Len(Out)
         /\ ram'.len = ram.len /\ ram'.cells = ram.cells
         /\ flush' \in [last : BOOLEAN, size : Nat, done : Nat]
         /\ flush'.last = flush.last /\ flush'.size = flush.size /\ flush'.done = flush.done + Len(Out)
         /\ flushingState' \in FlushingType /\ flushingState'.base = 0
         /\ flushingState'.addr = flushingState.addr + (Start + Len(Out)) /\ flushingState'.ongoing
         /\ flushingState'.lastErased = flushingState.lastErased /\ flushingState'.crc = Checked
         /\ flash' = Program(flushingState.addr, Page) /\ flash' \in [Addresses -> Cells]
         /\ UNCHANGED <<fetch, fileLen, finals, nFetches, memoryPool, bufferFile, got, chunk, pc,
                        stored, crcReport, failed>>
<1>1. /\ pc = "pages" /\ flush.done # flush.size /\ ~ShouldErase(flushingState)
      /\ flash' = Program(flushingState.addr, Page)
      /\ flushingState' = [flushingState EXCEPT !.addr = @ + Written, !.crc = Checked]
      /\ flush' = [flush EXCEPT !.done = @ + Len(Out)]
      /\ handed' = handed \o Out
      /\ ram' = [ram EXCEPT !.pos = @ + Len(Out)]
      /\ UNCHANGED <<fetchVars, memoryPool, bufferFile, got, chunk, pc, stored, crcReport, failed>>
  BY FlushPageCases
<1>2. flushingState.ongoing /\ flushingState.lastErased = BlockOf(flushingState.addr)
  BY <1>1 DEF FlashInv, NothingTwice, ShouldErase
<1>3. /\ Out \in Seq(Words) /\ Len(Out) \in Nat /\ Written = Start + Len(Out) /\ Start \in Nat
  BY <1>1, OutFacts, StartFacts
<1>4. /\ handed' \in Seq(Words) /\ Len(handed') = Len(handed) + Len(Out)
      /\ \A i \in 1..Len(handed) : handed'[i] = handed[i]
      /\ \A i \in 1..Len(Out) : handed'[Len(handed) + i] = Out[i]
  <2>1. handed \in Seq(Words)
    BY StateBounds
  <2> QED
    BY <1>1, <1>3, <2>1, ConcatFacts
<1>5. /\ ram' \in RamType /\ ram'.pos = flush.done + Len(Out)
      /\ ram'.len = ram.len /\ ram'.cells = ram.cells
  <2>1. ram \in RamType /\ ram.pos = flush.done /\ flush.done \in Nat
    BY <1>1, RamBounds, FlushBounds DEF FlashInv, BufferPositions
  <2> DEFINE n == Len(Out)
  <2>2. ram' = [ram EXCEPT !.pos = @ + n] /\ n \in Nat
    BY <1>1, <1>3
  <2> HIDE DEF n
  <2>3. ram' \in RamType /\ ram'.pos = flush.done + n /\ ram'.len = ram.len /\ ram'.cells = ram.cells
    BY <2>1, <2>2 DEF RamType
  <2> QED
    BY <2>3 DEF n
<1>6. /\ flush' \in [last : BOOLEAN, size : Nat, done : Nat]
      /\ flush'.last = flush.last /\ flush'.size = flush.size /\ flush'.done = flush.done + Len(Out)
  <2> DEFINE n == Len(Out)
  <2>1. flush' = [flush EXCEPT !.done = @ + n] /\ n \in Nat
    BY <1>1, <1>3
  <2> HIDE DEF n
  <2>2. flush' \in [last : BOOLEAN, size : Nat, done : Nat]
    BY <2>1, FlushBounds
  <2>3. flush'.last = flush.last /\ flush'.size = flush.size /\ flush'.done = flush.done + n
    BY <2>1, FlushBounds
  <2> QED
    BY <2>2, <2>3 DEF n
<1>7. /\ flushingState' \in FlushingType /\ flushingState'.base = 0
      /\ flushingState'.addr = flushingState.addr + (Start + Len(Out)) /\ flushingState'.ongoing
      /\ flushingState'.lastErased = flushingState.lastErased /\ flushingState'.crc = Checked
  <2>1. Checked \in Seq(Cells \cup {OverRead})
    BY <1>1, PageDataFacts
  <2> DEFINE n == Start + Len(Out)
             crc == Checked
  <2>2. flushingState' = [flushingState EXCEPT !.addr = @ + n, !.crc = crc] /\ n \in Nat
    BY <1>1, <1>3
  <2>3. crc \in Seq(Cells \cup {OverRead})
    BY <2>1
  <2> HIDE DEF n, crc
  <2>a. flushingState \in FlushingType /\ flushingState.addr \in Nat
    BY StateBounds
  <2>b. flushingState.addr + n \in Nat
    BY <2>2, <2>a
  <2>4. flushingState' \in FlushingType
    BY <2>2, <2>3, <2>a, <2>b DEF FlushingType
  <2>5. /\ flushingState'.base = 0 /\ flushingState'.addr = flushingState.addr + n
        /\ flushingState'.ongoing = flushingState.ongoing
        /\ flushingState'.lastErased = flushingState.lastErased /\ flushingState'.crc = crc
    BY <2>2, StateBounds DEF FlushingType
  <2> QED
    BY <1>2, <2>4, <2>5 DEF n, crc
<1>8. flash' \in [Addresses -> Cells]
  <2>1. Page \in [0..(PageSize - 1) -> Cells]
    BY <1>1, PageDataFacts
  <2> QED
    BY <1>1, <2>1, StateBounds, ProgramFacts
<1> QED
  BY <1>1, <1>2, <1>4, <1>5, <1>6, <1>7, <1>8 DEF fetchVars

LEMMA FlushPageWritten ==
  ASSUME FlashInv, NEW bad \in Faults \cup {"none"}, FlushPage(bad), bad = "none"
  PROVE  FlashInv'
<1> DEFINE n == Len(Out)
           H == Len(handed)
           addr == flushingState.addr
           done == flush.done
           size == flush.size
           start == Start
           crcLen == Len(flushingState.crc)
<1>0. /\ pc = "pages" /\ done # size /\ flushingState.ongoing
      /\ flushingState.lastErased = BlockOf(addr)
      /\ handed' \in Seq(Words) /\ Len(handed') = H + n
      /\ \A i \in 1..H : handed'[i] = handed[i]
      /\ \A i \in 1..n : handed'[H + i] = Out[i]
      /\ ram' \in RamType /\ ram'.pos = done + n /\ ram'.len = ram.len /\ ram'.cells = ram.cells
      /\ flush' \in [last : BOOLEAN, size : Nat, done : Nat]
      /\ flush'.last = flush.last /\ flush'.size = size /\ flush'.done = done + n
      /\ flushingState' \in FlushingType /\ flushingState'.base = 0
      /\ flushingState'.addr = addr + (start + n) /\ flushingState'.ongoing
      /\ flushingState'.lastErased = flushingState.lastErased /\ flushingState'.crc = Checked
      /\ flash' = Program(addr, Page) /\ flash' \in [Addresses -> Cells]
      /\ UNCHANGED <<fetch, fileLen, finals, nFetches, memoryPool, bufferFile, got, chunk, pc,
                     stored, crcReport, failed>>
  BY FlushPageNumbers
<1>1. /\ n \in Nat /\ n > 0 /\ start + n <= PageSize /\ n <= size - done
      /\ n = PageSize - start \/ n = size - done
      /\ \A i \in 1..n : Out[i] = ram.cells[done + i]
      /\ Out \in Seq(Words)
  BY <1>0, OutFacts
<1>2. PageSize \in Nat /\ PageSize > 1 /\ start \in {0, 1} /\ start = (IF addr = 0 THEN 1 ELSE 0)
  BY StartFacts, FlashAssumption DEF FlashAssumption
<1>3. /\ H \in Nat /\ done \in Nat /\ size \in Nat /\ done < size /\ size <= Cap /\ Cap \in Nat
      /\ addr \in Nat /\ addr \in Addresses
  BY <1>0, StateBounds, FlushBounds, LengthBounds
<1>4. Flushed = done /\ Buffered = size /\ Flushed' = done + n /\ Buffered' = size
  BY <1>0 DEF Flushed, Buffered
<1>5. H + (size - done) <= got /\ addr <= H + 1
  BY <1>4 DEF FlashInv, NothingTwice
<1>h. /\ n = Len(Out) /\ H = Len(handed) /\ addr = flushingState.addr /\ start = Start
      /\ done = flush.done /\ size = flush.size /\ crcLen = Len(flushingState.crc)
  OBVIOUS
<1> HIDE DEF n, H, addr, done, size, start, crcLen
<1>6. /\ H + n + (size - (done + n)) <= got /\ addr + (start + n) <= H + n + 1
      /\ addr + (start + n) \in Addresses /\ done + n <= size /\ H + n <= fileLen
  <2>1. H + n + (size - (done + n)) <= got /\ done + n <= size
    BY <1>1, <1>3, <1>5, LengthBounds
  <2>2. addr + (start + n) <= H + n + 1
    BY <1>1, <1>2, <1>3, <1>5
  <2>3. H + n <= fileLen
    BY <1>1, <1>3, <1>5, LengthBounds
  <2>4. addr + (start + n) \in Nat /\ addr + (start + n) <= fileLen + 1
    BY <1>1, <1>2, <1>3, <2>2, <2>3, LengthBounds
  <2>5. addr + (start + n) \in Addresses
    BY <2>4, LengthBounds, BlockFacts DEF Addresses
  <2> QED
    BY <2>1, <2>2, <2>3, <2>5
<1>7. Types'
  BY <1>0 DEF FlashInv, Types
<1>8. TypeOK'
  <2>1. ram'.pos \in 0..Cap /\ ram'.len \in 0..Cap /\ ram'.pos <= ram'.len
    <3>1. ram.len \in 0..Cap /\ size <= ram.len
      BY <1>0, <1>h DEF FlashInv, TypeOK, BufferPositions
    <3>2. ram'.pos = done + n /\ ram'.len = ram.len
      BY <1>0
    <3>3. done + n <= size
      BY <1>6
    <3> QED
      BY <1>1, <1>3, <3>1, <3>2, <3>3
  <2>2. ram'.cells \in Seq(Words) /\ Len(ram'.cells) <= Cap
    BY <1>0 DEF FlashInv, TypeOK
  <2>3. flush' \in [last : BOOLEAN, size : 0..Cap, done : 0..Cap] /\ flush'.done <= flush'.size
    <3>1. size \in 0..Cap /\ done + n \in 0..Cap /\ flush.last \in BOOLEAN
      BY <1>1, <1>3, <1>6, FlushBounds
    <3>2. flush' = [last |-> flush.last, size |-> size, done |-> done + n]
      BY <1>0
    <3> QED
      BY <3>1, <3>2, <1>0, <1>6
  <2> QED
    BY <1>0, <1>6, <2>1, <2>2, <2>3 DEF FlashInv, TypeOK
<1>9. FileIsOpen' /\ ChunkInFile'
  <2>1. bufferFile /\ memoryPool = "allocated" /\ fileLen \in Lens
    BY <1>0 DEF FlashInv, FileIsOpen
  <2> QED
    BY <1>0, <2>1 DEF FlashInv, FileIsOpen, ChunkInFile
<1>10. BufferPositions'
  <2>1. size <= ram.len /\ ram.len = size /\ ram.len <= Len(ram.cells)
    BY <1>0, <1>h DEF FlashInv, BufferPositions
  <2> QED
    BY <1>0, <2>1 DEF BufferPositions
<1>11. NothingTwice'
  BY <1>0, <1>4, <1>6 DEF NothingTwice
<1>12. ASSUME failed \subseteq {"erase"}
       PROVE  /\ H + n + (size - (done + n)) = got
              /\ \A i \in 1..n : Out[i] = Word(nFetches, H + i)
              /\ \A i \in 1..(H + n) : handed'[i] = Word(nFetches, i)
              /\ \A i \in 1..(size - (done + n)) :
                   ram.cells[(done + n) + i] = Word(nFetches, (H + n) + i)
  <2>1. /\ H + (size - done) = got
        /\ \A i \in 1..H : handed[i] = Word(nFetches, i)
        /\ \A i \in 1..(size - done) : ram.cells[done + i] = Word(nFetches, H + i)
    BY <1>4, <1>12, <1>h DEF FlashInv, InOrder
  <2>2. H + n + (size - (done + n)) = got
    BY <2>1, <1>1, <1>3, LengthBounds
  <2>3. ASSUME NEW i \in 1..n
        PROVE  Out[i] = Word(nFetches, H + i)
    <3>1. i \in 1..(size - done)
      BY <1>1, <1>3
    <3> QED
      BY <1>1, <2>1, <3>1
  <2>4. ASSUME NEW i \in 1..(H + n)
        PROVE  handed'[i] = Word(nFetches, i)
    <3>1. CASE i <= H
      <4>1. i \in 1..H
        BY <1>1, <1>3, <3>1
      <4> QED
        BY <1>0, <2>1, <4>1
    <3>2. CASE i > H
      <4>1. i - H \in 1..n /\ H + (i - H) = i
        BY <1>1, <1>3, <3>2
      <4>2. handed'[H + (i - H)] = Out[i - H] /\ Out[i - H] = Word(nFetches, H + (i - H))
        BY <1>0, <2>3, <4>1
      <4> QED
        BY <4>1, <4>2
    <3> QED
      BY <3>1, <3>2, <1>1, <1>3
  <2>5. ASSUME NEW i \in 1..(size - (done + n))
        PROVE  ram.cells[(done + n) + i] = Word(nFetches, (H + n) + i)
    <3>1. n + i \in 1..(size - done) /\ done + (n + i) = (done + n) + i /\ H + (n + i) = (H + n) + i
      BY <1>1, <1>3
    <3>2. ram.cells[done + (n + i)] = Word(nFetches, H + (n + i))
      BY <2>1, <3>1
    <3> QED
      BY <3>1, <3>2
  <2> QED
    BY <2>2, <2>3, <2>4, <2>5
<1>13. InOrder'
  BY <1>0, <1>4, <1>12 DEF InOrder
<1>14. OneFlush'
  BY <1>0 DEF FlashInv, OneFlush, Small
<1>15. stored = NoFile
  BY <1>0 DEF FlashInv, HeaderLast
<1>16. CrcMatchMeansStored'
  BY <1>0, <1>15 DEF CrcMatchMeansStored
<1>17. HeaderLast'
  <2>1. ASSUME "erase" \notin failed, NEW m \in Nat
        PROVE  flash'[0] # SizeWord(m)
    <3>1. flash[0] # SizeWord(m)
      BY <1>15, <2>1 DEF FlashInv, HeaderLast
    <3>2. /\ Page \in [0..(PageSize - 1) -> Cells] /\ flash \in [Addresses -> Cells] /\ 0 \in Addresses
          /\ flash[0] \in Cells
      BY <1>0, <1>h, PageDataFacts, StateBounds, BlockFacts
    <3>3. CASE PageStart(0) = PageStart(addr)
      <4>1. PageStart(0) = 0 /\ PageStart(addr) = 0 /\ 0 - PageStart(addr) = 0 /\ 0 \in 0..(PageSize - 1)
        BY <1>2, <3>3, PageFacts
      <4>a. Program(addr, Page)[0] = Programmed(flash[0], Page[0 - PageStart(addr)])
        BY <1>3, <3>2, <3>3, ProgramFacts
      <4>2. flash'[0] = Programmed(flash[0], Page[0])
        BY <1>0, <4>1, <4>a
      <4>3. flash'[0] \in {flash[0], Page[0], Garbage} /\ Page[0] \in Cells
        BY <3>2, <4>1, <4>2, ProgrammedFacts
      <4>4. Page[0] = flash[0] \/ Page[0] \in Words
        <5>1. CASE start = 0
          <6>1. 1 \in 1..n /\ start + 1 - 1 = 0
            BY <1>1, <5>1
          <6>2. Page[0] = Out[1] /\ Out[1] \in Words
            BY <1>0, <1>1, <1>h, <6>1, PageDataFacts
          <6> QED
            BY <6>2
        <5>2. CASE start = 1
          <6>1. 0 < start /\ PageStart(addr) + 0 = 0
            BY <4>1, <5>2
          <6>2. Page[0] = flash[PageStart(addr) + 0]
            BY <1>0, <1>h, <4>1, <6>1, PageDataFacts
          <6> QED
            BY <6>1, <6>2
        <5> QED
          BY <1>2, <5>1, <5>2
      <4> QED
        BY <3>1, <4>3, <4>4, CellFacts
    <3>4. CASE PageStart(0) # PageStart(addr)
      <4>1. flash'[0] = flash[0]
        BY <1>0, <1>3, <3>2, <3>4, ProgramFacts
      <4> QED
        BY <3>1, <4>1
    <3> QED
      BY <3>3, <3>4
  <2> QED
    BY <1>0, <1>15, <2>1 DEF HeaderLast
<1>18. ASSUME Small
       PROVE  /\ failed \subseteq {"erase"} /\ addr = AfterHeader(H) /\ crcLen = addr
              /\ addr + start = H + 1 /\ addr + (start + n) = H + n + 1
  <2>1. failed \subseteq {"erase"}
    BY <1>18 DEF FlashInv, OneFlush
  <2>2. addr = AfterHeader(H) /\ crcLen = addr
    BY <1>0, <1>h, <1>18 DEF FlashInv, PageByPage
  <2>3. addr + start = H + 1 /\ addr + (start + n) = H + n + 1
    BY <1>1, <1>2, <1>3, <2>2 DEF AfterHeader
  <2> QED
    BY <2>1, <2>2, <2>3
<1>p. ASSUME Small
      PROVE  /\ addr = PageStart(addr) /\ addr % PageSize = 0
             /\ PageStart(addr + PageSize) = addr + PageSize
             /\ \A i \in 0..(PageSize - 1) : PageStart(addr + i) = addr
  <2>1. addr = PageStart(addr)
    BY <1>0, <1>h, <1>p DEF FlashInv, PageByPage
  <2> QED
    BY <1>3, <2>1, AlignedFacts
<1>19. ASSUME Small, NEW k \in 1..n
       PROVE  /\ handed'[H + k] = Out[k] /\ Out[k] = Word(nFetches, H + k)
              /\ start + k - 1 \in 0..(PageSize - 1) /\ Page[start + k - 1] = Out[k]
              /\ H + k + 1 = crcLen + (start + k) /\ H + k = addr + (start + k - 1)
              /\ start + k \in 1..(start + n)
  <2>1. handed'[H + k] = Out[k] /\ Out[k] = Word(nFetches, H + k)
    BY <1>0, <1>12, <1>18, <1>19
  <2>2. start + k - 1 \in 0..(PageSize - 1) /\ Page[start + k - 1] = Out[k]
    BY <1>0, <1>h, PageDataFacts
  <2>3. /\ H + k + 1 = crcLen + (start + k) /\ H + k = addr + (start + k - 1)
        /\ start + k \in 1..(start + n)
    <3>1. crcLen = addr /\ addr + start = H + 1
      BY <1>18, <1>19
    <3>2. n \in Nat /\ start \in Nat /\ H \in Nat /\ addr \in Nat /\ k \in Nat /\ k > 0 /\ k <= n
      BY <1>1, <1>2, <1>3, <1>19
    <3> QED
      BY <3>1, <3>2
  <2> QED
    BY <2>1, <2>2, <2>3
<1>20. ASSUME Small
       PROVE  /\ Len(Checked) = addr + (start + n)
              /\ \A i \in 1..crcLen : Checked[i] = flushingState.crc[i]
              /\ \A i \in 1..(start + n) : /\ i - 1 \in 0..(PageSize - 1)
                                           /\ Checked[crcLen + i] = Page[i - 1]
  <2>1. Written = start + n
    BY <1>0, <1>h, OutFacts
  <2> QED
    BY <1>0, <1>h, <1>18, <1>p, <1>20, <2>1, PageDataFacts
<1>21. PageByPage'
  <2> SUFFICES ASSUME Small PROVE PageByPage'
    BY <1>0 DEF PageByPage, Small
  <2>1. addr + (start + n) = AfterHeader(H + n)
    BY <1>1, <1>3, <1>18 DEF AfterHeader
  <2>2. ASSUME done + n # size
        PROVE  addr + (start + n) = PageStart(addr + (start + n))
    <3>1. start + n = PageSize
      BY <1>1, <1>2, <1>3, <2>2
    <3> QED
      BY <1>p, <3>1
  <2>3. addr + (start + n) > 0 /\ BlockOf(addr + (start + n) - 1) = BlockOf(addr)
    <3>1. (start + n) - 1 \in 0..(PageSize - 1) /\ addr + ((start + n) - 1) = addr + (start + n) - 1
      BY <1>1, <1>2, <1>3
    <3>2. PageStart(addr + (start + n) - 1) = addr /\ addr + (start + n) - 1 \in Nat
      BY <1>3, <1>p, <3>1
    <3>3. PageStart(addr + (start + n) - 1) = PageStart(addr)
      BY <1>p, <3>2
    <3>4. BlockOf(addr + (start + n) - 1) = BlockOf(addr)
      BY <1>3, <3>2, <3>3, PageInBlock
    <3> QED
      BY <1>1, <1>2, <1>3, <3>4
  <2>4. ASSUME NEW i \in 1..(addr + (start + n))
        PROVE  Checked[i] # OverRead
    <3>1. CASE i <= addr
      <4>1. i \in 1..crcLen
        BY <1>3, <1>18, <3>1
      <4>2. flushingState.crc[i] # OverRead
        BY <1>0, <1>h, <4>1 DEF FlashInv, PageByPage
      <4> QED
        BY <1>20, <4>1, <4>2
    <3>2. CASE i > addr
      <4>1. i - addr \in 1..(start + n) /\ crcLen + (i - addr) = i
        BY <1>1, <1>2, <1>3, <1>18, <3>2
      <4>2. (i - addr) - 1 \in 0..(PageSize - 1) /\ Checked[crcLen + (i - addr)] = Page[(i - addr) - 1]
        BY <1>20, <4>1
      <4>3. Page[(i - addr) - 1] \in Cells
        BY <1>0, <1>h, <4>2, PageDataFacts
      <4> QED
        BY <4>1, <4>2, <4>3, CellFacts
    <3> QED
      BY <1>1, <1>2, <1>3, <3>1, <3>2
  <2>5. ASSUME NEW i \in 1..(H + n)
        PROVE  Checked[i + 1] = Word(nFetches, i)
    <3>1. CASE i <= H
      <4>1. i \in 1..H /\ i + 1 \in 1..crcLen
        BY <1>1, <1>3, <1>18, <3>1 DEF AfterHeader
      <4>2. flushingState.crc[i + 1] = Word(nFetches, i)
        BY <1>0, <1>h, <4>1 DEF FlashInv, PageByPage
      <4> QED
        BY <1>20, <4>1, <4>2
    <3>2. CASE i > H
      <4>1. i - H \in 1..n /\ H + (i - H) = i
        BY <1>1, <1>3, <3>2
      <4> DEFINE k == i - H
      <4>2. i = H + k /\ k \in 1..n
        BY <4>1
      <4> HIDE DEF k
      <4>3. /\ Out[k] = Word(nFetches, H + k) /\ Page[start + k - 1] = Out[k]
            /\ H + k + 1 = crcLen + (start + k) /\ start + k \in 1..(start + n)
        BY <1>19, <4>2
      <4>4. Checked[crcLen + (start + k)] = Page[start + k - 1]
        <5> DEFINE j == start + k
        <5>1. j \in 1..(start + n)
          BY <4>3
        <5>2. j - 1 = start + k - 1
          BY <1>2, <4>2, <4>3
        <5>3. crcLen + j = crcLen + (start + k)
          OBVIOUS
        <5> HIDE DEF j
        <5>4. Checked[crcLen + j] = Page[j - 1]
          BY <1>20, <5>1
        <5> QED
          BY <5>2, <5>3, <5>4
      <4>5. i + 1 = crcLen + (start + k)
        BY <4>2, <4>3
      <4>6. Checked[i + 1] = Page[start + k - 1]
        BY <4>4, <4>5
      <4> QED
        BY <4>2, <4>3, <4>6
    <3> QED
      BY <1>1, <1>3, <3>1, <3>2
  <2>6. /\ flushingState'.addr = addr + (start + n) /\ flushingState'.crc = Checked
        /\ flushingState'.lastErased = BlockOf(addr) /\ Len(handed') = H + n
        /\ flush'.done = done + n /\ flush'.size = size /\ nFetches' = nFetches
        /\ Len(Checked) = addr + (start + n)
    BY <1>0, <1>20
  <2>7. flushingState'.addr = AfterHeader(Len(handed'))
    BY <2>1, <2>6
  <2>8. flush'.done # flush'.size => flushingState'.addr = PageStart(flushingState'.addr)
    BY <2>2, <2>6
  <2>9. flushingState'.addr > 0 /\ flushingState'.lastErased = BlockOf(flushingState'.addr - 1)
    <3> DEFINE A == addr + (start + n)
    <3>a. A - 1 = addr + (start + n) - 1
      BY <1>1, <1>2, <1>3
    <3>1. A > 0 /\ BlockOf(A - 1) = BlockOf(addr)
      BY <2>3, <3>a
    <3>2. flushingState'.addr = A /\ flushingState'.lastErased = BlockOf(addr)
      BY <2>6
    <3> HIDE DEF A
    <3> QED
      BY <3>1, <3>2
  <2>10. /\ Len(flushingState'.crc) = flushingState'.addr
         /\ \A i \in 1..Len(flushingState'.crc) : flushingState'.crc[i] # OverRead
    BY <2>4, <2>6
  <2>11. \A i \in 1..Len(handed') : flushingState'.crc[i + 1] = Word(nFetches', i)
    BY <2>5, <2>6
  <2> QED
    BY <2>7, <2>8, <2>9, <2>10, <2>11 DEF PageByPage
<1>22. PagesWritten'
  <2> SUFFICES ASSUME Small, "erase" \notin failed PROVE PagesWritten'
    BY <1>0 DEF PagesWritten, Small
  <2>1. /\ flash[0] = Erased
        /\ \A i \in 1..H : flash[i] = Word(nFetches, i)
        /\ \A a \in Addresses : a >= addr /\ BlockOf(a) = BlockOf(addr) => flash[a] = Erased
    BY <1>0, <1>h DEF FlashInv, PagesWritten
  <2>2. Page \in [0..(PageSize - 1) -> Cells] /\ flash \in [Addresses -> Cells]
    BY <1>0, <1>h, PageDataFacts, StateBounds
  <2>3. ASSUME NEW a \in Addresses, PageStart(a) # addr
        PROVE  flash'[a] = flash[a]
    BY <1>0, <1>3, <1>p, <2>2, <2>3, ProgramFacts
  <2>4. ASSUME NEW a \in Addresses, PageStart(a) = addr
        PROVE  /\ a - addr \in 0..(PageSize - 1)
               /\ flash'[a] = Programmed(flash[a], Page[a - addr])
    <3>1. PageStart(a) = PageStart(addr)
      BY <1>p, <2>4
    <3>2. /\ a - PageStart(addr) \in 0..(PageSize - 1)
          /\ Program(addr, Page)[a] = Programmed(flash[a], Page[a - PageStart(addr)])
      BY <1>3, <2>2, <3>1, ProgramFacts
    <3>3. a - PageStart(addr) = a - addr
      BY <1>p
    <3> QED
      BY <1>0, <3>2, <3>3
  <2>5. ASSUME NEW a \in Addresses, a < addr
        PROVE  flash'[a] = flash[a]
    <3>1. a \in Nat
      BY BlockFacts
    <3>2. PageStart(a) <= a /\ PageStart(a) \in Nat
      BY <3>1, PageFacts
    <3> QED
      BY <1>3, <2>3, <2>5, <3>1, <3>2
  <2>6. ASSUME NEW i \in 1..(H + n)
        PROVE  flash'[i] = Word(nFetches, i)
    <3>0. i \in Addresses /\ i \in Nat
      <4>1. i \in Nat /\ i <= fileLen
        BY <1>1, <1>3, <1>6, LengthBounds
      <4> QED
        BY <4>1, LengthBounds, BlockFacts DEF Addresses
    <3>1. CASE i <= H
      <4>1. i \in 1..H /\ i < addr
        BY <1>1, <1>3, <1>18, <3>1 DEF AfterHeader
      <4> QED
        BY <2>1, <2>5, <3>0, <4>1
    <3>2. CASE i > H
      <4> DEFINE k == i - H
      <4>1. i = H + k /\ k \in 1..n
        BY <1>1, <1>3, <3>2
      <4> HIDE DEF k
      <4>2. /\ Out[k] = Word(nFetches, H + k) /\ Page[start + k - 1] = Out[k]
            /\ H + k = addr + (start + k - 1) /\ start + k - 1 \in 0..(PageSize - 1)
        BY <1>19, <4>1
      <4>3. PageStart(i) = addr /\ i - addr = start + k - 1 /\ i >= addr
        <5>1. PageStart(addr + (start + k - 1)) = addr
          BY <1>p, <4>2
        <5>2. i = addr + (start + k - 1) /\ start + k - 1 \in Nat
          BY <1>2, <4>1, <4>2
        <5> QED
          BY <1>3, <5>1, <5>2
      <4>4. flash'[i] = Programmed(flash[i], Out[k])
        BY <2>4, <3>0, <4>2, <4>3
      <4>5. BlockOf(i) = BlockOf(addr)
        BY <1>3, <1>p, <3>0, <4>3, PageInBlock
      <4>6. flash[i] = Erased
        BY <2>1, <3>0, <4>3, <4>5
      <4>7. Out[k] \in Cells
        BY <1>1, <1>h, <4>1, CellFacts
      <4> QED
        BY <4>1, <4>2, <4>4, <4>6, <4>7, ProgrammedFacts, CellFacts
    <3> QED
      BY <1>1, <1>3, <3>1, <3>2
  <2>7. ASSUME NEW a \in Addresses, a >= addr + (start + n), BlockOf(a) = BlockOf(addr)
        PROVE  flash'[a] = Erased
    <3>0. a \in Nat /\ a >= addr
      BY <1>1, <1>2, <1>3, <2>7, BlockFacts
    <3>1. flash[a] = Erased
      BY <2>1, <2>7, <3>0
    <3>2. CASE PageStart(a) = addr
      <4>1. a - addr \in 0..(PageSize - 1) /\ flash'[a] = Programmed(flash[a], Page[a - addr])
        BY <2>4, <3>2
      <4>2. a - addr >= start + n /\ PageStart(addr) + (a - addr) = a
        <5>1. PageStart(addr) = addr
          BY <1>p
        <5> QED
          BY <1>1, <1>2, <1>3, <2>7, <3>0, <5>1
      <4>3. Page[a - addr] = flash[a]
        BY <1>0, <1>h, <4>1, <4>2, PageDataFacts
      <4> QED
        BY <3>1, <4>1, <4>3, ProgrammedFacts, CellFacts
    <3>3. CASE PageStart(a) # addr
      BY <2>3, <3>1, <3>3
    <3> QED
      BY <3>2, <3>3
  <2>8. flash'[0] = Erased
    <3>0. 0 \in Addresses
      BY BlockFacts
    <3>1. CASE addr > 0
      BY <2>1, <2>5, <3>0, <3>1
    <3>2. CASE addr = 0
      <4>1. PageStart(0) = addr /\ 0 - addr = 0 /\ start = 1 /\ PageStart(addr) + 0 = 0
        BY <1>2, <1>p, <3>2
      <4>2. 0 \in 0..(PageSize - 1) /\ flash'[0] = Programmed(flash[0], Page[0])
        BY <2>4, <3>0, <4>1
      <4>3. 0 < start
        BY <4>1
      <4>4. Page[0] = flash[PageStart(addr) + 0]
        BY <1>0, <1>h, <4>2, <4>3, PageDataFacts
      <4> QED
        BY <2>1, <4>1, <4>2, <4>4, ProgrammedFacts, CellFacts
    <3> QED
      BY <1>3, <3>1, <3>2
  <2> QED
    BY <1>0, <2>6, <2>7, <2>8 DEF PagesWritten
<1> QED
  BY <1>7, <1>8, <1>9, <1>10, <1>11, <1>13, <1>14, <1>16, <1>17, <1>21, <1>22 DEF FlashInv

LEMMA ModFacts ==
  ASSUME NEW a \in Int, NEW b \in Nat \ {0}
  PROVE  a % b \in 0..(b - 1)
OBVIOUS

\* writing the size changes the first cell only
LEMMA HeaderFacts ==
  ASSUME FlashInv, NEW header, header = Program(flushingState.base, WithHeader(flushingState))
  PROVE  /\ header \in [Addresses -> Cells]
         /\ header[0] = Programmed(flash[0], SizeWord((flushingState.addr - 1) % SizeMod))
         /\ \A a \in Addresses : a # 0 => header[a] = flash[a]
<1> DEFINE word == SizeWord((flushingState.addr - 1) % SizeMod)
           page == WithHeader(flushingState)
<1>1. PageSize \in Nat /\ PageSize > 1 /\ SizeMod \in Nat \ {0}
  BY FlashAssumption DEF FlashAssumption
<1>2. flash \in [Addresses -> Cells] /\ 0 \in Addresses /\ flushingState.base = 0
  BY StateBounds, BlockFacts
<1>3. word \in Cells
  <2>1. flushingState.addr - 1 \in Int
    BY StateBounds
  <2>2. (flushingState.addr - 1) % SizeMod \in 0..(SizeMod - 1)
    BY <1>1, <2>1, ModFacts
  <2> QED
    BY <2>2, CellFacts
<1>4. PageStart(0) = 0 /\ 0 \in 0..(PageSize - 1)
  BY <1>1, PageFacts
<1>5. /\ PageOf(0) \in [0..(PageSize - 1) -> Cells]
      /\ \A i \in 0..(PageSize - 1) : PageOf(0)[i] = flash[PageStart(0) + i]
  BY <1>2, PageOfFacts
<1>6. page = [PageOf(0) EXCEPT ![0] = word]
  BY <1>2 DEF WithHeader
<1> HIDE DEF word, page
<1>7. /\ page \in [0..(PageSize - 1) -> Cells] /\ page[0] = word
      /\ \A i \in 0..(PageSize - 1) : i # 0 => page[i] = PageOf(0)[i]
  BY <1>3, <1>4, <1>5, <1>6
<1>8. header = Program(0, page)
  BY <1>2 DEF page
<1>9. /\ Program(0, page) \in [Addresses -> Cells]
      /\ \A a \in Addresses :
           IF PageStart(a) = PageStart(0)
           THEN /\ a - PageStart(0) \in 0..(PageSize - 1)
                /\ Program(0, page)[a] = Programmed(flash[a], page[a - PageStart(0)])
           ELSE Program(0, page)[a] = flash[a]
  BY <1>2, <1>7, ProgramFacts
<1>10. header[0] = Programmed(flash[0], word)
  <2>1. 0 - PageStart(0) = 0
    BY <1>4
  <2>2. Program(0, page)[0] = Programmed(flash[0], page[0 - PageStart(0)])
    BY <1>2, <1>9
  <2> QED
    BY <1>7, <1>8, <2>1, <2>2
<1>11. ASSUME NEW a \in Addresses, a # 0
       PROVE  header[a] = flash[a]
  <2>1. CASE PageStart(a) = PageStart(0)
    <3>1. a \in Nat /\ a - PageStart(0) = a /\ PageStart(0) + a = a
      BY <1>4, BlockFacts
    <3>2. a \in 0..(PageSize - 1) /\ Program(0, page)[a] = Programmed(flash[a], page[a])
      BY <1>9, <2>1, <3>1
    <3>3. page[a] = PageOf(0)[a] /\ PageOf(0)[a] = flash[PageStart(0) + a]
      BY <1>5, <1>7, <1>11, <3>2
    <3>4. page[a] = flash[a] /\ flash[a] \in Cells
      BY <1>2, <3>1, <3>3
    <3> QED
      BY <1>8, <3>2, <3>4, ProgrammedFacts
  <2>2. CASE PageStart(a) # PageStart(0)
    BY <1>8, <1>9, <2>2
  <2> QED
    BY <2>1, <2>2
<1> QED
  BY <1>8, <1>9, <1>10, <1>11 DEF word

\* the end of a flush: everything in the buffer has been handed over
LEMMA EndFacts ==
  ASSUME FlashInv, pc = "pages", flush.done = flush.size
  PROVE  /\ Len(handed) <= got
         /\ failed \subseteq {"erase"} =>
              /\ Len(handed) = got
              /\ \A i \in 1..Len(handed) : handed[i] = Word(nFetches, i)
         /\ bufferFile /\ nFetches > 0 /\ flushingState.ongoing /\ stored = NoFile /\ crcReport = "none"
<1>1. Flushed = flush.done /\ Buffered = flush.done /\ flush.done - flush.done = 0
  BY FlushBounds DEF Flushed, Buffered
<1>2. Len(handed) \in Nat
  BY StateBounds
<1>3. Len(handed) + 0 <= got
  BY <1>1 DEF FlashInv, NothingTwice
<1>4. ASSUME failed \subseteq {"erase"}
      PROVE  /\ Len(handed) + 0 = got
             /\ \A i \in 1..Len(handed) : handed[i] = Word(nFetches, i)
  BY <1>1, <1>4 DEF FlashInv, InOrder
<1>5. bufferFile /\ nFetches > 0 /\ flushingState.ongoing /\ stored = NoFile /\ crcReport = "none"
  BY DEF FlashInv, FileIsOpen, NothingTwice, HeaderLast
<1> QED
  BY <1>2, <1>3, <1>4, <1>5

\* a file that fits into the buffer, when its last flush has come to the end of the page loop
LEMMA SmallFileEnd ==
  ASSUME FlashInv, pc = "pages", flush.done = flush.size, flush.last, fileLen <= Cap
  PROVE  /\ failed \subseteq {"erase"} /\ Len(handed) = fileLen
         /\ flushingState.addr = AfterHeader(fileLen) /\ Len(flushingState.crc) = flushingState.addr
         /\ \A i \in 1..Len(flushingState.crc) : flushingState.crc[i] # OverRead
         /\ \A i \in 1..fileLen : flushingState.crc[i + 1] = Word(nFetches, i)
         /\ "erase" \notin failed =>
              flash[0] = Erased /\ \A i \in 1..fileLen : flash[i] = Word(nFetches, i)
<1>1. Small /\ failed \subseteq {"erase"} /\ Len(handed) = got /\ got = fileLen
  BY EndFacts DEF Small, FlashInv, OneFlush, ChunkInFile
<1> QED
  BY <1>1 DEF FlashInv, PageByPage, PagesWritten

\* the reports on a checksum that has only run over what was written
LEMMA CrcFacts ==
  ASSUME FlashInv, NEW bad, NEW report \in CrcReports(flushingState, bad),
         \A i \in 1..Len(flushingState.crc) : flushingState.crc[i] # OverRead, report = "match"
  PROVE  \A i \in 1..flushingState.addr : flushingState.crc[i] = flash[i - 1]
<1>1. flushingState.base = 0 /\ flushingState.addr \in Nat
  BY StateBounds
<1>2. flushingState.crc = ReadBack(flushingState)
  BY DEF CrcReports
<1>3. ReadBack(flushingState) = [i \in 1..(flushingState.addr - 0) |-> flash[0 + i - 1]]
  BY <1>1 DEF ReadBack
<1>4. ASSUME NEW i \in 1..flushingState.addr
      PROVE  flushingState.crc[i] = flash[i - 1]
  <2>1. i \in 1..(flushingState.addr - 0) /\ 0 + i - 1 = i - 1
    BY <1>1
  <2> QED
    BY <1>2, <1>3, <2>1
<1> QED
  BY <1>4

LEMMA FlushEndKeeps ==
  ASSUME FlashInv, NEW bad \in Faults \cup {"none"}, FlushEnd(bad)
  PROVE  FlashInv'
<1>1. pc = "pages" /\ flush.done = flush.size
  BY DEF FlushEnd
<1>2. ram \in RamType /\ ram.len <= Len(ram.cells) /\ Len(ram.cells) <= Cap
  BY RamBounds
<1>3. CASE flush.last /\ bad \in {"read", "write"}
  BY <1>3, RestartKeeps DEF FlushEnd, Panic
<1>4. CASE ~flush.last
  <2>1. ReturnToCaller(ram) /\ UNCHANGED <<flush, flushingState, flash, handed, stored, crcReport, failed>>
    BY <1>4 DEF FlushEnd, flashVars, historyVars
  <2>2. /\ FileIsOpen' /\ ChunkInFile' /\ BufferPositions'
        /\ OneFlush' /\ PageByPage' /\ PagesWritten'
        /\ Flushed' = 0 /\ Buffered' = 0 /\ pc' \in {"none", "append"}
        /\ ram' \in RamType /\ ram'.pos \in 0..Cap /\ ram'.len \in 0..Cap /\ ram'.pos <= ram'.len
        /\ Len(ram'.cells) <= Cap
        /\ UNCHANGED <<got, chunk, fileLen, finals, nFetches>>
        /\ fetch' \in {"idle", "receiving"} /\ bufferFile' \in BOOLEAN
        /\ memoryPool' \in {"null", "allocated", "dangling"}
    BY <1>1, <1>2, <2>1, ReturnKeeps
  <2>3. Types'
    BY <2>1, <2>2 DEF FlashInv, Types
  <2>4. TypeOK'
    <3>1. ram'.cells \in Seq(Words)
      BY <2>2 DEF RamType
    <3>2. pc' \in Places
      BY <2>2 DEF Places
    <3> QED
      BY <2>1, <2>2, <3>1, <3>2 DEF FlashInv, TypeOK
  <2>5. NothingTwice'
    <3>1. flushingState.addr <= Len(handed) + 1
      BY DEF FlashInv, NothingTwice
    <3>2. Len(handed) + (0 - 0) <= got
      BY <1>1, EndFacts, StateBounds
    <3> QED
      BY <2>1, <2>2, <3>1, <3>2 DEF NothingTwice
  <2>6. InOrder'
    <3>1. failed \subseteq {"erase"} =>
            /\ Len(handed) + (0 - 0) = got
            /\ \A i \in 1..Len(handed) : handed[i] = Word(nFetches, i)
      BY <1>1, EndFacts, StateBounds
    <3> QED
      BY <2>1, <2>2, <3>1 DEF InOrder
  <2>7. HeaderLast' /\ CrcMatchMeansStored'
    BY <1>1, <2>1, EndFacts DEF FlashInv, HeaderLast, CrcMatchMeansStored
  <2> QED
    BY <2>2, <2>3, <2>4, <2>5, <2>6, <2>7 DEF FlashInv
<1>5. CASE flush.last /\ bad \notin {"read", "write"}
  <2>1. /\ ReturnToCaller(ram) /\ UNCHANGED <<flush, handed, failed>>
        /\ crcReport' \in CrcReports(flushingState, bad)
        /\ flash' = Program(flushingState.base, WithHeader(flushingState))
        /\ flushingState' = InitialFlushing
        /\ stored' = [file |-> nFetches, len |-> fileLen, whole |-> failed \subseteq {"erase"}]
    BY <1>5 DEF FlushEnd
  <2>2. /\ FileIsOpen' /\ ChunkInFile' /\ BufferPositions'
        /\ OneFlush' /\ PageByPage' /\ PagesWritten'
        /\ Flushed' = 0 /\ Buffered' = 0 /\ pc' \in {"none", "append"}
        /\ ram' \in RamType /\ ram'.pos \in 0..Cap /\ ram'.len \in 0..Cap /\ ram'.pos <= ram'.len
        /\ Len(ram'.cells) <= Cap
        /\ UNCHANGED <<got, chunk, fileLen, finals, nFetches>>
        /\ fetch' \in {"idle", "receiving"} /\ bufferFile' \in BOOLEAN
        /\ memoryPool' \in {"null", "allocated", "dangling"}
    BY <1>1, <1>2, <1>5, <2>1, ReturnKeeps
  <2>3. /\ flash' \in [Addresses -> Cells]
        /\ \A a \in Addresses : a # 0 => flash'[a] = flash[a]
    BY <2>1, HeaderFacts
  <2>4. /\ flushingState' \in FlushingType /\ flushingState'.base = 0 /\ flushingState'.addr = 0
        /\ flushingState'.lastErased = 0 /\ flushingState'.ongoing = FALSE
    BY <2>1 DEF InitialFlushing, FlushingType
  <2>5. /\ stored' \in [file : Nat, len : Nat, whole : BOOLEAN]
        /\ stored'.file = nFetches /\ stored'.len = fileLen /\ stored' # NoFile
    <3>1. nFetches \in Nat /\ fileLen \in Nat /\ nFetches > 0
      BY <1>1, LengthBounds, EndFacts
    <3>2. stored'.file # NoFile.file
      BY <2>1, <3>1 DEF NoFile
    <3> QED
      BY <2>1, <3>1, <3>2
  <2>6. Types'
    BY <2>1, <2>2, <2>4, <2>5 DEF FlashInv, Types
  <2>7. TypeOK'
    <3>1. ram'.cells \in Seq(Words)
      BY <2>2 DEF RamType
    <3>2. pc' \in Places
      BY <2>2 DEF Places
    <3>3. crcReport' \in {"none", "match", "mismatch"}
      BY <2>1 DEF CrcReports
    <3>4. 0 \in Addresses /\ 0 \in 0..(NBlocks - 1)
      BY BlockFacts
    <3> QED
      BY <2>1, <2>2, <2>3, <2>4, <3>1, <3>2, <3>3, <3>4 DEF FlashInv, TypeOK
  <2>8. NothingTwice'
    <3>1. Len(handed) + (0 - 0) <= got /\ 0 <= Len(handed) + 1
      BY <1>1, EndFacts, StateBounds
    <3> QED
      BY <2>1, <2>2, <2>4, <3>1 DEF NothingTwice
  <2>9. InOrder'
    <3>1. failed \subseteq {"erase"} =>
            /\ Len(handed) + (0 - 0) = got
            /\ \A i \in 1..Len(handed) : handed[i] = Word(nFetches, i)
      BY <1>1, EndFacts, StateBounds
    <3> QED
      BY <2>1, <2>2, <3>1 DEF InOrder
  <2>10. HeaderLast'
    BY <2>4, <2>5 DEF HeaderLast
  <2>11. CrcMatchMeansStored'
    <3> SUFFICES ASSUME crcReport' = "match", fileLen <= Cap, NEW i \in 1..fileLen
                 PROVE  flash'[i] = Word(nFetches, i)
      BY <2>5 DEF CrcMatchMeansStored, Payload
    <3>1. /\ flushingState.addr = AfterHeader(fileLen) /\ fileLen \in Nat
          /\ \A j \in 1..Len(flushingState.crc) : flushingState.crc[j] # OverRead
          /\ flushingState.crc[i + 1] = Word(nFetches, i)
      BY <1>1, <1>5, SmallFileEnd, LengthBounds
    <3>2. \A j \in 1..flushingState.addr : flushingState.crc[j] = flash[j - 1]
      BY <2>1, <3>1, CrcFacts
    <3>3. i + 1 \in 1..flushingState.addr /\ (i + 1) - 1 = i
      BY <3>1 DEF AfterHeader
    <3>4. flash[i] = Word(nFetches, i)
      BY <3>1, <3>2, <3>3
    <3>5. i \in Addresses /\ i # 0
      BY <3>1, LengthBounds, BlockFacts DEF Addresses
    <3> QED
      BY <2>3, <3>4, <3>5
  <2> QED
    BY <2>2, <2>6, <2>7, <2>8, <2>9, <2>10, <2>11 DEF FlashInv
<1> QED
  BY <1>3, <1>4, <1>5
-----------------------------------------------------------------------------
LEMMA NextKeeps == FlashInv /\ [Next]_vars => FlashInv'
<1> SUFFICES ASSUME FlashInv, [Next]_vars PROVE FlashInv'
  OBVIOUS
<1>1. ASSUME NEW n \in Lens, FetchStart(n) PROVE FlashInv'
  BY <1>1, FetchStartKeeps
<1>2. CASE FetchRefused
  BY <1>2, FetchRefusedKeeps
<1>3. ASSUME NEW n \in ChunkSizes, ChunkReceived(n) PROVE FlashInv'
  BY <1>3, ChunkReceivedKeeps
<1>4. CASE AppendRound
  BY <1>4, AppendRoundKeeps
<1>5. CASE Finalize
  BY <1>5, FinalizeKeeps
<1>6. CASE DownloadFails
  BY <1>6, DownloadFailsKeeps
<1>7. ASSUME NEW bad \in Faults \cup {"none"}, FlushStart(bad) PROVE FlashInv'
  BY <1>7, FlushStartKeeps
<1>8. ASSUME NEW bad \in Faults \cup {"none"}, EraseNextBlock(bad) PROVE FlashInv'
  BY <1>8, EraseNextBlockKeeps
<1>9. ASSUME NEW bad \in Faults \cup {"none"}, FlushPage(bad) PROVE FlashInv'
  BY <1>9, FlushPageFailed, FlushPageWritten
<1>10. ASSUME NEW bad \in Faults \cup {"none"}, FlushEnd(bad) PROVE FlashInv'
  BY <1>10, FlushEndKeeps
<1>11. CASE Restart
  BY <1>11, RestartKeeps
<1>12. CASE UNCHANGED vars
  <2>1. UNCHANGED <<fetch, fileLen, finals, nFetches, memoryPool, bufferFile, ram, got, chunk>>
    BY <1>12 DEF vars, fetchVars, bufferVars
  <2>2. UNCHANGED <<flush, flushingState, flash, handed, stored, crcReport, failed, pc>>
    BY <1>12 DEF vars, flashVars, historyVars
  <2>3. TypeOK' /\ Types'
    BY <2>1, <2>2 DEF FlashInv, TypeOK, Types
  <2>4. FileIsOpen' /\ ChunkInFile' /\ BufferPositions' /\ NothingTwice' /\ InOrder'
    BY <2>1, <2>2
    DEF FlashInv, FileIsOpen, ChunkInFile, BufferPositions, NothingTwice, InOrder, Flushed, Buffered
  <2>5. OneFlush' /\ PageByPage' /\ PagesWritten'
    BY <2>1, <2>2 DEF FlashInv, OneFlush, PageByPage, PagesWritten, Small
  <2>6. HeaderLast' /\ CrcMatchMeansStored'
    BY <2>1, <2>2 DEF FlashInv, HeaderLast, CrcMatchMeansStored, Payload
  <2> QED
    BY <2>3, <2>4, <2>5, <2>6 DEF FlashInv
<1> QED
  BY <1>1, <1>2, <1>3, <1>4, <1>5, <1>6, <1>7, <1>8, <1>9, <1>10, <1>11, <1>12 DEF Next

\* the inductive invariant
THEOREM FlashInvariant == Spec => []FlashInv
<1>1. Init => FlashInv
  BY InitHolds
<1>2. FlashInv /\ [Next]_vars => FlashInv'
  BY NextKeeps
<1> QED
  BY <1>1, <1>2, PTL DEF Spec

\* Type correctness: FlushingBufferFileSystem::append never writes behind the RAM buffer, a flush
\* never passes its end, and onFileBufferingFinished never addresses a cell behind the flash,
\* whatever the sizes of the file, its chunks, the buffer, a page and a block.
THEOREM TypeCorrect == Spec => []TypeOK
<1>1. FlashInv => TypeOK
  BY DEF FlashInv
<1> QED
  BY <1>1, FlashInvariant, PTL

\* FlushingBufferFileSystem::append hands each word of the file over once and in order, and at the
\* end of the last flush none is missing, as long as no read or write of the flash fails.
THEOREM FlushesInOrder == Spec => []FlushedInOrder
<1>1. FlashInv => FlushedInOrder
  <2> SUFFICES ASSUME FlashInv, failed \subseteq {"erase"}
               PROVE  /\ \A i \in 1..Len(handed) : handed[i] = Word(nFetches, i)
                      /\ crcReport # "none" => Len(handed) = fileLen
    BY DEF FlushedInOrder
  <2>1. /\ Len(handed) + (Buffered - Flushed) = got
        /\ \A i \in 1..Len(handed) : handed[i] = Word(nFetches, i)
    BY DEF FlashInv, InOrder
  <2>2. ASSUME crcReport # "none"
        PROVE  Len(handed) = fileLen
    <3>1. pc = "none" /\ got = fileLen /\ ram.pos = 0
      BY <2>2 DEF FlashInv, FileIsOpen
    <3>2. Flushed = 0 /\ Buffered = 0
      BY <3>1 DEF Flushed, Buffered
    <3> QED
      BY <2>1, <3>1, <3>2, StateBounds
  <2> QED
    BY <2>1, <2>2
<1> QED
  BY <1>1, FlashInvariant, PTL

\* updateFlashMemoryCrc32 never reports success for a file that fits into the buffer unless the
\* flash holds every word of it, whichever reads, writes and erases have failed on the way.
THEOREM MatchMeansStored == Spec => []CrcMatchMeansStored
<1>1. FlashInv => CrcMatchMeansStored
  BY DEF FlashInv
<1> QED
  BY <1>1, FlashInvariant, PTL
-----------------------------------------------------------------------------
LEMMA RestIsSize ==
  ASSUME NEW a \in Nat, NEW b \in Nat, a < b
  PROVE  a % b = a
OBVIOUS

\* A stored file that is not empty is intact, and its length is that of a file.
Kept ==
  /\ stored.len > 0 => BufferedFileIntact
  /\ stored = NoFile \/ stored.len \in Lens

\* what the end of the last flush leaves in the flash
LEMMA FileStored ==
  ASSUME FlashInv, NEW bad, FlushEnd(bad), flush.last, bad \notin {"read", "write"}
  PROVE  Kept'
<1>1. /\ pc = "pages" /\ flush.done = flush.size
      /\ flash' = Program(flushingState.base, WithHeader(flushingState))
      /\ stored' = [file |-> nFetches, len |-> fileLen, whole |-> failed \subseteq {"erase"}]
      /\ failed' = failed
  BY DEF FlushEnd
<1>2. fileLen \in Lens /\ fileLen \in Nat /\ fileLen < SizeMod /\ SizeMod \in Nat
  <2>1. fileLen \in Lens
    BY <1>1, EndFacts DEF FlashInv, FileIsOpen
  <2> QED
    BY <2>1, FlashAssumption DEF FlashAssumption
<1> SUFFICES ASSUME fileLen > 0, fileLen <= Cap, "erase" \notin failed
             PROVE  flash'[0] = SizeWord(fileLen) /\ \A i \in 1..fileLen : flash'[i] = Word(nFetches, i)
  BY <1>1, <1>2 DEF Kept, BufferedFileIntact, StoredFileIntact, Payload
<1>3. /\ flushingState.addr = AfterHeader(fileLen) /\ flash[0] = Erased
      /\ \A i \in 1..fileLen : flash[i] = Word(nFetches, i)
  BY <1>1, SmallFileEnd
<1>4. /\ flash'[0] = Programmed(flash[0], SizeWord((flushingState.addr - 1) % SizeMod))
      /\ \A a \in Addresses : a # 0 => flash'[a] = flash[a]
  BY <1>1, HeaderFacts
<1>5. (flushingState.addr - 1) % SizeMod = fileLen
  <2>1. flushingState.addr - 1 = fileLen
    BY <1>2, <1>3 DEF AfterHeader
  <2> QED
    BY <1>2, <2>1, RestIsSize
<1>6. flash'[0] = SizeWord(fileLen)
  BY <1>3, <1>4, <1>5 DEF Programmed
<1>7. ASSUME NEW i \in 1..fileLen
      PROVE  flash'[i] = Word(nFetches, i)
  <2>1. i \in Addresses /\ i # 0
    BY <1>2, LengthBounds, BlockFacts DEF Addresses
  <2> QED
    BY <1>3, <1>4, <2>1
<1> QED
  BY <1>6, <1>7

\* no step harms a stored file
LEMMA StoredFileKept ==
  ASSUME FlashInv, Kept, Next
  PROVE  Kept'
<1>1. ASSUME UNCHANGED <<flash, stored>>, "erase" \in failed => "erase" \in failed'
      PROVE  Kept'
  BY <1>1 DEF Kept, BufferedFileIntact, StoredFileIntact, Payload
<1>2. ASSUME stored' = NoFile
      PROVE  Kept'
  BY <1>2 DEF Kept, NoFile
<1>3. ASSUME NEW n \in Lens, FetchStart(n) PROVE Kept'
  BY <1>1, <1>3 DEF FetchStart, flashVars
<1>4. CASE Restart
  BY <1>1, <1>4 DEF Restart
<1>5. CASE FetchRefused
  BY <1>4, <1>5 DEF FetchRefused, Panic
<1>6. ASSUME NEW n \in ChunkSizes, ChunkReceived(n) PROVE Kept'
  BY <1>1, <1>6 DEF ChunkReceived, flashVars, historyVars
<1>7. CASE AppendRound
  BY <1>1, <1>7 DEF AppendRound, historyVars
<1>8. CASE Finalize
  BY <1>1, <1>4, <1>8 DEF Finalize, historyVars, Panic
<1>9. CASE DownloadFails
  BY <1>1, <1>9 DEF DownloadFails, flashVars, historyVars
<1>10. ASSUME NEW bad \in Faults \cup {"none"}, FlushStart(bad) PROVE Kept'
  BY <1>2, <1>10 DEF FlushStart
<1>11. ASSUME pc = "pages" PROVE stored = NoFile
  BY <1>11 DEF FlashInv, NothingTwice, HeaderLast
<1>12. ASSUME NEW bad \in Faults \cup {"none"}, EraseNextBlock(bad) PROVE Kept'
  BY <1>2, <1>11, <1>12 DEF EraseNextBlock
<1>13. ASSUME NEW bad \in Faults \cup {"none"}, FlushPage(bad) PROVE Kept'
  <2>1. pc = "pages" /\ stored' = stored
    BY <1>13, FlushPageCases
  <2> QED
    BY <1>2, <1>11, <2>1
<1>14. ASSUME NEW bad \in Faults \cup {"none"}, FlushEnd(bad) PROVE Kept'
  <2>1. CASE ~flush.last
    BY <1>1, <1>14, <2>1 DEF FlushEnd, flashVars, historyVars
  <2>2. CASE flush.last /\ bad \in {"read", "write"}
    BY <1>4, <1>14, <2>2 DEF FlushEnd, Panic
  <2>3. CASE flush.last /\ bad \notin {"read", "write"}
    BY <1>14, <2>3, FileStored
  <2> QED
    BY <2>1, <2>2, <2>3
<1> QED
  BY <1>3, <1>4, <1>5, <1>6, <1>7, <1>8, <1>9, <1>10, <1>12, <1>13, <1>14 DEF Next

LEMMA KeptInvariant == Spec => []Kept
<1>1. Init => Kept
  BY DEF Init, Kept, NoFile
<1>2. FlashInv /\ Kept /\ [Next]_vars => Kept'
  <2> SUFFICES ASSUME FlashInv, Kept, [Next]_vars PROVE Kept'
    OBVIOUS
  <2>1. CASE UNCHANGED vars
    BY <2>1 DEF vars, flashVars, historyVars, Kept, BufferedFileIntact, StoredFileIntact, Payload
  <2> QED
    BY <2>1, StoredFileKept
<1> QED
  BY <1>1, <1>2, FlashInvariant, PTL DEF Spec

\* A file that fits into the buffer, is not empty and has been stored to the end keeps its size and
\* every word in the flash, through restarts, failed fetches and failed reads and writes that
\* follow, until the next call of onFileBufferingFinished begins to overwrite it.
THEOREM NonEmptyFileSafe == Spec => [](stored.len > 0 => BufferedFileIntact)
<1>1. Kept => (stored.len > 0 => BufferedFileIntact)
  BY DEF Kept
<1> QED
  BY <1>1, KeptInvariant, PTL

\* The same of every file, if none is empty.  (No page is written for an empty file, so the size
\* that onFileBufferingFinished computes from the address is that of a file of -1.)
THEOREM StoredFileSafe == ASSUME 0 \notin Lens PROVE Spec => []BufferedFileIntact
<1>1. Kept => BufferedFileIntact
  <2> SUFFICES ASSUME Kept PROVE BufferedFileIntact
    OBVIOUS
  <2>1. CASE stored = NoFile
    BY <2>1 DEF BufferedFileIntact, StoredFileIntact
  <2>2. CASE stored.len \in Lens
    <3>1. Lens \subseteq Nat
      BY FlashAssumption DEF FlashAssumption
    <3>2. stored.len \in Nat /\ stored.len # 0
      BY <2>2, <3>1
    <3>3. stored.len > 0
      BY <3>2
    <3> QED
      BY <3>3 DEF Kept
  <2> QED
    BY <2>1, <2>2 DEF Kept
<1> QED
  BY <1>1, KeptInvariant, PTL

\* As long as no read or write has failed, the address counts the header and the words that have
\* been handed over.
AddressCounts ==
  failed \subseteq {"erase"} =>
    /\ flushingState.ongoing => flushingState.addr = AfterHeader(Len(handed))
    /\ bufferFile /\ ~flushingState.ongoing => handed = <<>>

\* Unless a read or write has failed, the size of a file that is not empty is its own.
SizeIsOfFile ==
  /\ stored # NoFile /\ stored.len <= Cap => stored.whole
  /\ stored.whole /\ stored.len > 0 /\ "erase" \notin failed =>
       \A n \in Nat : flash[0] = SizeWord(n) => n = stored.len

LEMMA AddressPage ==
  ASSUME FlashInv, AddressCounts, NEW bad \in Faults \cup {"none"}, FlushPage(bad)
  PROVE  AddressCounts'
<1>1. pc = "pages" /\ flush.done # flush.size
  BY FlushPageCases
<1>2. ASSUME bad \in {"read", "write"}, failed' = failed \cup {bad}
      PROVE  AddressCounts'
  BY <1>2 DEF AddressCounts
<1>3. CASE bad = "none"
  <2>1. /\ flushingState.ongoing /\ flushingState'.ongoing /\ failed' = failed
        /\ Len(handed') = Len(handed) + Len(Out)
        /\ flushingState'.addr = flushingState.addr + (Start + Len(Out))
    BY <1>3, FlushPageNumbers
  <2>2. Len(Out) \in Nat /\ Len(Out) > 0 /\ Len(handed) \in Nat
    BY <1>1, OutFacts, StateBounds
  <2>3. Start = IF flushingState.addr = 0 THEN 1 ELSE 0
    <3>1. PageSize \in Nat /\ PageSize > 1
      BY FlashAssumption DEF FlashAssumption
    <3> QED
      BY <3>1, StateBounds DEF Start, PayloadStart, IsFirstChunk
  <2>4. ASSUME failed \subseteq {"erase"}
        PROVE  flushingState'.addr = AfterHeader(Len(handed'))
    <3>1. flushingState.addr = AfterHeader(Len(handed))
      BY <2>1, <2>4 DEF AddressCounts
    <3>2. PICK h, n, a, start :
            h = Len(handed) /\ n = Len(Out) /\ a = flushingState.addr /\ start = Start
      OBVIOUS
    <3>3. h \in Nat /\ n \in Nat /\ n > 0 /\ a = AfterHeader(h) /\ start = IF a = 0 THEN 1 ELSE 0
      BY <2>2, <2>3, <3>1, <3>2
    <3>4. a + (start + n) = AfterHeader(h + n)
      BY <3>3 DEF AfterHeader
    <3>5. Len(handed') = h + n /\ flushingState'.addr = a + (start + n)
      BY <2>1, <3>2
    <3> QED
      BY <3>4, <3>5
  <2> QED
    BY <2>1, <2>4 DEF AddressCounts
<1> QED
  BY <1>2, <1>3, FlushPageCases

LEMMA AddressStart ==
  ASSUME FlashInv, AddressCounts, NEW bad \in Faults \cup {"none"}, FlushStart(bad)
  PROVE  AddressCounts'
<1>1. /\ pc = "start" /\ handed' = handed
      /\ IF ShouldErase(Current)
         THEN EraseInto(Current, bad)
         ELSE flushingState' = [Current EXCEPT !.ongoing = TRUE] /\ UNCHANGED <<flash, failed>>
  BY DEF FlushStart, Current
<1>2. bufferFile
  BY <1>1 DEF FlashInv, FileIsOpen
<1>3. /\ Current \in FlushingType
      /\ Current.addr = IF flushingState.ongoing THEN flushingState.addr ELSE 0
  BY StateBounds DEF Current, FlushingType
<1>4. failed \subseteq failed' /\ flushingState'.addr = Current.addr /\ flushingState'.ongoing
  BY <1>1, <1>3 DEF EraseInto, FlushingType
<1>5. ASSUME failed \subseteq {"erase"}
      PROVE  Current.addr = AfterHeader(Len(handed))
  <2>1. ~flushingState.ongoing => Len(handed) = 0
    BY <1>2, <1>5 DEF AddressCounts
  <2> QED
    BY <1>3, <1>5, <2>1 DEF AddressCounts, AfterHeader
<1> QED
  BY <1>1, <1>4, <1>5 DEF AddressCounts

\* what the end of the last flush leaves in the first cell
LEMMA SizeWritten ==
  ASSUME FlashInv, AddressCounts, NEW bad, FlushEnd(bad), flush.last, bad \notin {"read", "write"}
  PROVE  AddressCounts' /\ SizeIsOfFile'
<1>1. /\ pc = "pages" /\ flush.done = flush.size
      /\ flash' = Program(flushingState.base, WithHeader(flushingState))
      /\ stored' = [file |-> nFetches, len |-> fileLen, whole |-> failed \subseteq {"erase"}]
      /\ failed' = failed /\ flushingState' = InitialFlushing /\ ReturnToCaller(ram)
  BY DEF FlushEnd
<1>2. stored'.len = fileLen /\ stored'.whole = (failed \subseteq {"erase"})
  BY <1>1
<1>3. /\ bufferFile /\ fileLen \in Lens /\ got = fileLen /\ stored = NoFile /\ flushingState.ongoing
      /\ failed \subseteq {"erase"} => Len(handed) = got
  BY <1>1, EndFacts DEF FlashInv, FileIsOpen, ChunkInFile
<1>4. fileLen \in Nat /\ fileLen < SizeMod /\ SizeMod \in Nat
  BY <1>3, FlashAssumption DEF FlashAssumption
<1>5. AddressCounts'
  <2>1. ~bufferFile' /\ ~flushingState'.ongoing
    BY <1>1 DEF ReturnToCaller, InitialFlushing
  <2> QED
    BY <2>1 DEF AddressCounts
<1>6. stored'.len <= Cap => stored'.whole
  BY <1>1, <1>2, SmallFileEnd
<1>7. ASSUME failed \subseteq {"erase"}, fileLen > 0, "erase" \notin failed,
             NEW n \in Nat, flash'[0] = SizeWord(n)
      PROVE  n = fileLen
  <2>1. flushingState.addr - 1 = fileLen
    BY <1>3, <1>4, <1>7 DEF AddressCounts, AfterHeader
  <2>2. flash'[0] = Programmed(flash[0], SizeWord(fileLen))
    BY <1>1, <1>4, <2>1, HeaderFacts, RestIsSize
  <2>3. flash[0] # SizeWord(n)
    BY <1>3, <1>7 DEF FlashInv, HeaderLast
  <2>4. SizeWord(n) # Garbage
    BY DEF SizeWord, Garbage
  <2>5. SizeWord(fileLen) = SizeWord(n)
    BY <1>7, <2>2, <2>3, <2>4 DEF Programmed
  <2> QED
    BY <2>5 DEF SizeWord
<1>8. SizeIsOfFile'
  BY <1>1, <1>2, <1>6, <1>7 DEF SizeIsOfFile
<1> QED
  BY <1>5, <1>8

\* nothing else touches a stored file's size or lets the address run away
LEMMA SizeStep == FlashInv /\ AddressCounts /\ SizeIsOfFile /\ [Next]_vars => AddressCounts' /\ SizeIsOfFile'
<1> SUFFICES ASSUME FlashInv, AddressCounts, SizeIsOfFile, [Next]_vars
             PROVE  AddressCounts' /\ SizeIsOfFile'
  OBVIOUS
<1>1. ASSUME UNCHANGED <<flash, stored>>, "erase" \in failed => "erase" \in failed'
      PROVE  SizeIsOfFile'
  BY <1>1 DEF SizeIsOfFile
<1>2. ASSUME stored' = NoFile
      PROVE  SizeIsOfFile'
  BY <1>2 DEF SizeIsOfFile, NoFile
<1>3. ASSUME UNCHANGED <<flushingState, handed, failed>>, bufferFile' => bufferFile
      PROVE  AddressCounts'
  BY <1>3 DEF AddressCounts
<1>4. ASSUME pc = "pages" PROVE stored = NoFile
  BY <1>4 DEF FlashInv, NothingTwice, HeaderLast
<1>5. ASSUME NEW n \in Lens, FetchStart(n) PROVE AddressCounts' /\ SizeIsOfFile'
  <2>1. flushingState' = InitialFlushing /\ handed' = <<>> /\ UNCHANGED <<flash, stored, failed>>
    BY <1>5 DEF FetchStart, flashVars, FlashInv, FileIsOpen
  <2> QED
    BY <1>1, <2>1 DEF AddressCounts, InitialFlushing
<1>6. ASSUME Restart PROVE AddressCounts' /\ SizeIsOfFile'
  <2>1. /\ flushingState' = InitialFlushing /\ bufferFile' = FALSE /\ UNCHANGED <<flash, stored>>
        /\ "erase" \in failed => "erase" \in failed'
    BY <1>6 DEF Restart
  <2> QED
    BY <1>1, <2>1 DEF AddressCounts, InitialFlushing
<1>7. CASE FetchRefused
  BY <1>6, <1>7 DEF FetchRefused, Panic
<1>8. ASSUME NEW n \in ChunkSizes, ChunkReceived(n) PROVE AddressCounts' /\ SizeIsOfFile'
  BY <1>1, <1>3, <1>8 DEF ChunkReceived, flashVars, historyVars
<1>9. CASE AppendRound
  BY <1>1, <1>3, <1>9 DEF AppendRound, historyVars
<1>10. CASE Finalize
  BY <1>1, <1>3, <1>6, <1>10 DEF Finalize, historyVars, Panic, bufferVars
<1>11. CASE DownloadFails
  BY <1>1, <1>3, <1>11 DEF DownloadFails, flashVars, historyVars, bufferVars
<1>12. ASSUME NEW bad \in Faults \cup {"none"}, FlushStart(bad) PROVE AddressCounts' /\ SizeIsOfFile'
  BY <1>2, <1>12, AddressStart DEF FlushStart
<1>13. ASSUME NEW bad \in Faults \cup {"none"}, EraseNextBlock(bad)
       PROVE  AddressCounts' /\ SizeIsOfFile'
  <2>1. /\ pc = "pages" /\ stored' = stored /\ handed' = handed /\ EraseInto(flushingState, bad)
    BY <1>13 DEF EraseNextBlock
  <2>2. failed \subseteq failed' /\ flushingState'.addr = flushingState.addr
    BY <2>1, StateBounds DEF EraseInto, FlushingType
  <2>3. flushingState.ongoing
    BY <2>1 DEF FlashInv, NothingTwice
  <2>4. flushingState'.ongoing
    BY <2>1, StateBounds DEF EraseInto, FlushingType
  <2> QED
    BY <1>2, <1>4, <2>1, <2>2, <2>3, <2>4 DEF AddressCounts
<1>14. ASSUME NEW bad \in Faults \cup {"none"}, FlushPage(bad) PROVE AddressCounts' /\ SizeIsOfFile'
  <2>1. pc = "pages" /\ stored' = stored
    BY <1>14, FlushPageCases
  <2> QED
    BY <1>2, <1>4, <1>14, <2>1, AddressPage
<1>15. ASSUME NEW bad \in Faults \cup {"none"}, FlushEnd(bad) PROVE AddressCounts' /\ SizeIsOfFile'
  <2>1. CASE ~flush.last
    <3>1. UNCHANGED <<flash, stored, flushingState, handed, failed, bufferFile>>
      BY <1>15, <2>1 DEF FlushEnd, flashVars, historyVars, ReturnToCaller
    <3> QED
      BY <1>1, <1>3, <3>1
  <2>2. CASE flush.last /\ bad \in {"read", "write"}
    BY <1>6, <1>15, <2>2 DEF FlushEnd, Panic
  <2>3. CASE flush.last /\ bad \notin {"read", "write"}
    BY <1>15, <2>3, SizeWritten
  <2> QED
    BY <2>1, <2>2, <2>3
<1>16. CASE UNCHANGED vars
  BY <1>1, <1>3, <1>16 DEF vars, flashVars, historyVars, bufferVars
<1> QED
  BY <1>5, <1>6, <1>7, <1>8, <1>9, <1>10, <1>11, <1>12, <1>13, <1>14, <1>15, <1>16 DEF Next

LEMMA SizeInvariant == Spec => []SizeIsOfFile
<1>1. Init => AddressCounts /\ SizeIsOfFile
  BY DEF Init, AddressCounts, SizeIsOfFile, NoFile, InitialFlushing
<1> QED
  BY <1>1, SizeStep, FlashInvariant, PTL DEF Spec

\* A size in the first cell of the flash is of a file whose transfer has come to its end, however
\* crashes and panics have interrupted onFileBufferingFinished, and it is that file's own size unless
\* a read or write has failed.  For a file within the buffer none has, and the whole file is there.
THEOREM HeaderIsLast == ASSUME 0 \notin Lens PROVE Spec => []HeaderMeansComplete
<1>1. FlashInv /\ Kept /\ SizeIsOfFile /\ BufferedFileIntact => HeaderMeansComplete
  <2> SUFFICES ASSUME FlashInv, Kept, SizeIsOfFile, BufferedFileIntact, NEW n \in 0..(SizeMod - 1),
                      flash[0] = SizeWord(n), "erase" \notin failed
               PROVE  /\ stored # NoFile
                      /\ stored.whole => n = stored.len
                      /\ stored.len <= Cap => stored.whole /\ Payload(stored.file, n)
    BY DEF HeaderMeansComplete
  <2>1. n \in Nat
    BY FlashAssumption DEF FlashAssumption
  <2>2. stored # NoFile
    BY <2>1 DEF FlashInv, HeaderLast
  <2>3. stored.len > 0
    <3>1. stored.len \in Lens
      BY <2>2 DEF Kept
    <3>2. \A m \in Lens : m \in Nat /\ m # 0
      BY FlashAssumption DEF FlashAssumption
    <3>3. stored.len \in Nat /\ stored.len # 0
      BY <3>1, <3>2
    <3> QED
      BY <3>3
  <2>4. stored.whole => n = stored.len
    BY <2>1, <2>3 DEF SizeIsOfFile
  <2>5. ASSUME stored.len <= Cap
        PROVE  stored.whole /\ Payload(stored.file, stored.len)
    BY <2>2, <2>5 DEF BufferedFileIntact, StoredFileIntact, SizeIsOfFile
  <2> QED
    BY <2>2, <2>4, <2>5
<1> QED
  BY <1>1, FlashInvariant, KeptInvariant, SizeInvariant, StoredFileSafe, PTL
-----------------------------------------------------------------------------
(* FlashTransfer implements StoredFile. *)

\* What the autopilot finds is the file stored last, or nothing while there is none: `stored` is
\* a history, Visible what the cells say.
SeesStored == Visible = IF stored = NoFile THEN <<>> ELSE File!Whole(stored.file, stored.len)

EachFitsIntoBuffer == \A n \in Lens : n > 0 /\ n <= Cap

LEMMA HeaderTells ==
  ASSUME NEW n \in 0..(SizeMod - 1), flash[0] = SizeWord(n)
  PROVE  Visible = [i \in 1..n |-> flash[i]]
<1>1. flash[0][3] = n
  BY DEF SizeWord
<1> QED
  BY <1>1 DEF Visible, HasHeader

LEMMA ReaderSees ==
  ASSUME EachFitsIntoBuffer, "erase" \notin Faults
  PROVE  FlashInv /\ Kept => SeesStored
<1> SUFFICES ASSUME FlashInv, Kept PROVE SeesStored
  OBVIOUS
<1>1. "erase" \notin failed
  BY DEF FlashInv, TypeOK
<1>2. CASE stored = NoFile
  <2>1. \A n \in Nat : flash[0] # SizeWord(n)
    BY <1>1, <1>2 DEF FlashInv, HeaderLast
  <2>2. \A n \in 0..(SizeMod - 1) : n \in Nat
    OBVIOUS
  <2> QED
    BY <1>2, <2>1, <2>2 DEF SeesStored, Visible, HasHeader
<1>3. CASE stored # NoFile
  <2> DEFINE n == stored.len
  <2>1. n \in Lens /\ n \in Nat /\ n < SizeMod /\ SizeMod \in Nat
    BY <1>3, FlashAssumption DEF FlashAssumption, Kept
  <2>2. flash[0] = SizeWord(n) /\ \A i \in 1..n : flash[i] = Word(stored.file, i)
    BY <1>1, <1>3, <2>1 DEF Kept, EachFitsIntoBuffer, BufferedFileIntact, StoredFileIntact, Payload
  <2>3. n \in 0..(SizeMod - 1)
    BY <2>1
  <2>4. Visible = [i \in 1..n |-> flash[i]]
    BY <2>2, <2>3, HeaderTells
  <2>5. [i \in 1..n |-> flash[i]] = File!Whole(stored.file, n)
    BY <2>2 DEF File!Whole, Word
  <2> QED
    BY <1>3, <2>4, <2>5 DEF SeesStored
<1> QED
  BY <1>2, <1>3

LEMMA SeesStoredInvariant ==
  ASSUME EachFitsIntoBuffer, "erase" \notin Faults
  PROVE  Spec => []SeesStored
<1>1. FlashInv /\ Kept => SeesStored
  BY ReaderSees
<1> QED
  BY <1>1, FlashInvariant, KeptInvariant, PTL

(* One lemma per step of StoredFile: what FlashTransfer's variables have to do for it. *)

LEMMA FileStays ==
  ASSUME SeesStored, SeesStored', UNCHANGED <<stored, bufferFile, fileLen, got, nFetches>>
  PROVE  [File!Next]_(File!vars)
<1>1. Visible' = Visible
  BY DEF SeesStored, File!Whole
<1> QED
  BY <1>1 DEF File!vars

LEMMA FileFetched ==
  ASSUME SeesStored, SeesStored', NEW n \in Lens, ~bufferFile, bufferFile', fileLen' = n, n # 0,
         got' = 0, nFetches' = nFetches + 1, stored' = stored
  PROVE  [File!Next]_(File!vars)
<1>1. Visible' = Visible
  BY DEF SeesStored, File!Whole
<1>2. File!Fetch(n)
  BY <1>1 DEF File!Fetch
<1> QED
  BY <1>2 DEF File!Next

LEMMA FileReceived ==
  ASSUME SeesStored, SeesStored', bufferFile, fileLen # 0, got # fileLen, got' = fileLen,
         UNCHANGED <<stored, bufferFile, fileLen, nFetches>>
  PROVE  [File!Next]_(File!vars)
<1>1. Visible' = Visible
  BY DEF SeesStored, File!Whole
<1>2. File!Receive
  BY <1>1 DEF File!Receive
<1> QED
  BY <1>2 DEF File!Next

LEMMA FileMakesRoom ==
  ASSUME SeesStored', bufferFile, got = fileLen, stored' = NoFile,
         UNCHANGED <<bufferFile, fileLen, got, nFetches>>
  PROVE  [File!Next]_(File!vars)
<1>1. Visible' = <<>>
  BY DEF SeesStored
<1>2. File!MakeRoom
  BY <1>1 DEF File!MakeRoom
<1> QED
  BY <1>2 DEF File!Next

LEMMA FileIsStored ==
  ASSUME SeesStored, SeesStored', bufferFile, got = fileLen, stored = NoFile, nFetches > 0,
         nFetches \in Nat, NEW w, stored' = [file |-> nFetches, len |-> fileLen, whole |-> w],
         ~bufferFile', UNCHANGED nFetches
  PROVE  [File!Next]_(File!vars)
<1>1. Visible = <<>>
  BY DEF SeesStored
<1>2. stored'.file = nFetches /\ stored'.len = fileLen /\ stored' # NoFile
  BY DEF NoFile
<1>3. Visible' = File!Whole(nFetches, fileLen)
  BY <1>2 DEF SeesStored, File!Whole
<1>4. File!Store
  BY <1>1, <1>3 DEF File!Store, File!Whole
<1> QED
  BY <1>4 DEF File!Next

LEMMA FileGivenUp ==
  ASSUME SeesStored, SeesStored', ~bufferFile', UNCHANGED <<stored, nFetches>>
  PROVE  [File!Next]_(File!vars)
<1>1. Visible' = Visible
  BY DEF SeesStored, File!Whole
<1>2. File!GiveUp
  BY <1>1 DEF File!GiveUp
<1> QED
  BY <1>2 DEF File!Next

LEMMA RestartGivesUp ==
  ASSUME SeesStored, SeesStored', Restart
  PROVE  [File!Next]_(File!vars)
BY FileGivenUp DEF Restart

\* A file that fits into the buffer is flushed when all of it has been downloaded.
LEMMA FlushedWhole ==
  ASSUME FlashInv, EachFitsIntoBuffer, pc \in {"start", "pages"}
  PROVE  bufferFile /\ flush.last /\ got = fileLen /\ nFetches > 0
<1>1. bufferFile /\ fileLen \in Lens /\ nFetches > 0
  BY DEF FlashInv, FileIsOpen
<1>2. Small
  BY <1>1 DEF Small, EachFitsIntoBuffer
<1>3. flush.last
  BY <1>2 DEF FlashInv, OneFlush
<1> QED
  BY <1>1, <1>3 DEF FlashInv, ChunkInFile

LEMMA AppendRoundImplements ==
  ASSUME FlashInv, FlashInv', EachFitsIntoBuffer, SeesStored, SeesStored', AppendRound
  PROVE  [File!Next]_(File!vars)
<1>1. /\ pc = "append" /\ UNCHANGED <<stored, bufferFile, fileLen, nFetches>>
  BY DEF AppendRound, fetchVars, historyVars
<1>2. bufferFile /\ fileLen \in Lens
  BY <1>1 DEF FlashInv, FileIsOpen
<1>3. fileLen \in Nat /\ fileLen # 0
  <2>1. fileLen > 0
    BY <1>2 DEF EachFitsIntoBuffer
  <2> QED
    BY <2>1, LengthBounds
<1>4. got # fileLen
  <2>1. chunk.done < chunk.size /\ got + (chunk.size - chunk.done) <= fileLen
    BY <1>1 DEF FlashInv, ChunkInFile
  <2> QED
    BY <2>1, LengthBounds, ChunkBounds
<1>5. CASE got' = fileLen
  BY <1>1, <1>2, <1>3, <1>4, <1>5, FileReceived
<1>6. CASE got' # fileLen
  <2>1. Visible' = Visible
    BY <1>1 DEF SeesStored, File!Whole
  <2> QED
    BY <1>1, <1>4, <1>6, <2>1 DEF File!vars
<1> QED
  BY <1>5, <1>6

LEMMA FlushPageImplements ==
  ASSUME FlashInv, EachFitsIntoBuffer, SeesStored, SeesStored',
         NEW bad \in Faults \cup {"none"}, FlushPage(bad)
  PROVE  [File!Next]_(File!vars)
<1>1. pc = "pages" /\ stored' = stored
  BY FlushPageCases
<1>2. flush.last
  BY <1>1, FlushedWhole
<1>3. ASSUME NEW r, ReturnToCaller(r)
      PROVE  [File!Next]_(File!vars)
  <2>1. ~bufferFile' /\ UNCHANGED nFetches
    BY <1>2, <1>3 DEF ReturnToCaller
  <2> QED
    BY <1>1, <2>1, FileGivenUp
<1>4. CASE UNCHANGED <<fetchVars, memoryPool, bufferFile, got, chunk, pc, stored, crcReport, failed>>
  BY <1>4, FileStays DEF fetchVars
<1> QED
  BY <1>3, <1>4, FlushPageCases

LEMMA FlushEndImplements ==
  ASSUME FlashInv, EachFitsIntoBuffer, SeesStored, SeesStored',
         NEW bad \in Faults \cup {"none"}, FlushEnd(bad)
  PROVE  [File!Next]_(File!vars)
<1>1. pc = "pages" /\ flush.done = flush.size
  BY DEF FlushEnd
<1>2. bufferFile /\ flush.last /\ got = fileLen /\ nFetches > 0
  BY <1>1, FlushedWhole
<1>3. CASE bad \in {"read", "write"}
  BY <1>2, <1>3, RestartGivesUp DEF FlushEnd, Panic
<1>4. CASE bad \notin {"read", "write"}
  <2>1. /\ stored' = [file |-> nFetches, len |-> fileLen, whole |-> failed \subseteq {"erase"}]
        /\ ReturnToCaller(ram)
    BY <1>2, <1>4 DEF FlushEnd
  <2>2. ~bufferFile' /\ UNCHANGED nFetches
    BY <1>2, <2>1 DEF ReturnToCaller
  <2>3. stored = NoFile /\ nFetches \in Nat
    BY <1>1, EndFacts, LengthBounds
  <2> QED
    BY <1>2, <2>1, <2>2, <2>3, FileIsStored
<1> QED
  BY <1>3, <1>4

LEMMA FileInit == Init => File!Init
<1> SUFFICES ASSUME Init PROVE File!Init
  OBVIOUS
<1>1. 0 \in Addresses
  BY BlockFacts
<1>2. flash[0] = Erased
  BY <1>1 DEF Init
<1>3. ~HasHeader
  BY <1>2 DEF HasHeader, Erased, SizeWord
<1> QED
  BY <1>3 DEF Init, File!Init, Visible

LEMMA FileStep ==
  ASSUME EachFitsIntoBuffer
  PROVE  FlashInv /\ FlashInv' /\ SeesStored /\ SeesStored' /\ [Next]_vars => [File!Next]_(File!vars)
<1> SUFFICES ASSUME FlashInv, FlashInv', SeesStored, SeesStored', [Next]_vars
             PROVE  [File!Next]_(File!vars)
  OBVIOUS
<1>1. ASSUME NEW n \in Lens, FetchStart(n) PROVE [File!Next]_(File!vars)
  <2>1. /\ ~bufferFile /\ bufferFile' /\ fileLen' = n /\ got' = 0
        /\ nFetches' = nFetches + 1 /\ stored' = stored
    BY <1>1 DEF FetchStart
  <2>2. n # 0
    <3>1. n > 0
      BY <1>1 DEF EachFitsIntoBuffer
    <3> QED
      BY <3>1
  <2> QED
    BY <1>1, <2>1, <2>2, FileFetched
<1>2. CASE FetchRefused
  BY <1>2, RestartGivesUp DEF FetchRefused, Panic
<1>3. ASSUME NEW n \in ChunkSizes, ChunkReceived(n) PROVE [File!Next]_(File!vars)
  BY <1>3, FileStays DEF ChunkReceived, fetchVars, historyVars
<1>4. CASE AppendRound
  BY <1>4, AppendRoundImplements
<1>5. CASE Finalize
  <2>1. CASE bufferFile
    BY <1>5, <2>1, FileStays DEF Finalize, bufferVars, historyVars
  <2>2. CASE ~bufferFile
    BY <1>5, <2>2, RestartGivesUp DEF Finalize, Panic
  <2> QED
    BY <2>1, <2>2
<1>6. CASE DownloadFails
  BY <1>6, FileStays DEF DownloadFails, bufferVars, historyVars
<1>7. ASSUME NEW bad \in Faults \cup {"none"}, FlushStart(bad) PROVE [File!Next]_(File!vars)
  <2>1. pc = "start" /\ stored' = NoFile /\ UNCHANGED <<bufferFile, fileLen, got, nFetches>>
    BY <1>7 DEF FlushStart, fetchVars
  <2> QED
    BY <2>1, FlushedWhole, FileMakesRoom
<1>8. ASSUME NEW bad \in Faults \cup {"none"}, EraseNextBlock(bad) PROVE [File!Next]_(File!vars)
  BY <1>8, FileStays DEF EraseNextBlock, fetchVars, bufferVars
<1>9. ASSUME NEW bad \in Faults \cup {"none"}, FlushPage(bad) PROVE [File!Next]_(File!vars)
  BY <1>9, FlushPageImplements
<1>10. ASSUME NEW bad \in Faults \cup {"none"}, FlushEnd(bad) PROVE [File!Next]_(File!vars)
  BY <1>10, FlushEndImplements
<1>11. CASE Restart
  BY <1>11, RestartGivesUp
<1>12. CASE UNCHANGED vars
  BY <1>12, FileStays DEF vars, fetchVars, bufferVars, historyVars
<1> QED
  BY <1>1, <1>2, <1>3, <1>4, <1>5, <1>6, <1>7, <1>8, <1>9, <1>10, <1>11, <1>12 DEF Next

\* Storing is atomic for the autopilot, for any lengths of files within the buffer, any sizes of
\* chunks, buffer, pages and blocks, and wherever the chip restarts, panics or meets a failed read or
\* write: the flash shows nothing or one whole file, the one fetched last when it appears, which
\* stays until another one has been downloaded.
THEOREM StoringImplementsStoredFile ==
  ASSUME EachFitsIntoBuffer, "erase" \notin Faults
  PROVE  Spec => StoringIsAtomic
<1>1. Init => File!Init
  BY FileInit
<1>2. FlashInv /\ FlashInv' /\ SeesStored /\ SeesStored' /\ [Next]_vars => [File!Next]_(File!vars)
  BY FileStep
<1>3. Spec => []SeesStored
  BY SeesStoredInvariant
<1> QED
  BY <1>1, <1>2, <1>3, FlashInvariant, PTL DEF Spec, StoringIsAtomic, File!Spec
=============================================================================
