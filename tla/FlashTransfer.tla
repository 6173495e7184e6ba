---------------------------- MODULE FlashTransfer ----------------------------
(***************************************************************************)
(* A file is fetched over HTTP and stored in the SPI flash of a Salute     *)
(* drone: HttpFetch fills the RAM buffer of SingleBufferRamFileSystem      *)
(* through FlushingBufferFileSystem, and SaluteFlashMemoryTransfer-        *)
(* Implementor writes each full buffer into the flash, page by page, as    *)
(*   [file size][file payload].                                            *)
(*                                                                         *)
(* The unit of length is the file size header (4 bytes).  The chip may     *)
(* lose its power or panic between any two operations on the flash; the    *)
(* flash keeps its cells, everything else starts anew.                     *)
(***************************************************************************)
EXTENDS Integers, Sequences

CONSTANTS
  Lens,         \* lengths of the files being fetched
  ChunkSizes,   \* lengths of the chunks the HTTP client delivers
  Cap,          \* kBufferSizeHint, HttpFetch.cpp:38
  PageSize,     \* FlashMemoryGeometry::writeBlockSize
  BlockPages,   \* eraseBlockSize / writeBlockSize
  NBlocks,      \* bound: erase blocks of the flash
  SizeMod,      \* bound: the size header counts modulo this (2^32 in the code)
  Faults,       \* flash operations that may fail
  MaxFetches    \* bound: fetches in all

BlockSize == PageSize * BlockPages
Addresses == 0..(NBlocks * BlockSize - 1)

ASSUME FlashAssumption ==
  /\ Lens \subseteq Nat
  /\ ChunkSizes \subseteq Nat \ {0}
  /\ PageSize \in Nat /\ PageSize > 1
  /\ Cap \in Nat \ {0}
  /\ BlockPages \in Nat \ {0}
  /\ NBlocks \in Nat \ {0}
  /\ \A n \in Lens : n + PageSize < NBlocks * BlockSize /\ n < SizeMod
  /\ SizeMod \in Nat \ {0}
  /\ Faults \subseteq {"read", "write", "erase", "verify"}
  /\ MaxFetches \in Nat

VARIABLES
  fetch,        \* "receiving" while httpDownloadFileOverHttpGetByUrl delivers events
  fileLen,      \* length of what the response to the fetch brings; the size it announces is
                \* only logged
  got,          \* its part that has been appended to the buffer
  finals,       \* calls (nullptr, 0) still to come for it
  memoryPool,   \* SingleBufferRamFileSystem::memoryPool
  bufferFile,   \* FlushingBufferFileSystem::bufferFile is not null
  ram,          \* the memory pool and its two positions
  chunk,        \* the chunk FlushingBufferFileSystem::append is working on
  pc,           \* where the fetching task is, see Places
  flush,        \* the locals of onFileBufferingFinished
  flushingState,\* FlashMemoryTransferImplementor::flushingState
  flash,        \* the cells of the flash
  nFetches,     \* fetches so far; numbers the files (history)
  handed,       \* words of the file the implementor has read from the buffer (history)
  stored,       \* the last file whose transfer has come to its end, while it is not being
                \* overwritten, and whether it has without a failed read or write (history)
  crcReport,    \* what the last CRC32 validation has logged (history)
  failed        \* operations that have failed: reads and writes in this boot, erases ever (history)

fetchVars == <<fetch, fileLen, finals, nFetches>>
bufferVars == <<memoryPool, bufferFile, ram, got, chunk>>
flashVars == <<flush, flushingState, flash>>
historyVars == <<handed, stored, crcReport, failed>>
vars == <<fetchVars, bufferVars, flashVars, historyVars, pc>>

\* "append": inside the loop of append; "start", "pages": inside onFileBufferingFinished
Places == {"none", "append", "start", "pages"}

(* What a cell of the flash or of the buffer may hold. *)
Erased == <<"erased", 0, 0>>
Garbage == <<"garbage", 0, 0>>    \* a programmed cell programmed with something else
OverRead == <<"overread", 0, 0>>  \* a byte behind the end of the page buffer
Word(f, i) == <<"word", f, i>>    \* the i-th word of the f-th file
SizeWord(n) == <<"size", 0, n>>   \* the header

Words == {Word(f, i) : f \in 1..MaxFetches, i \in 1..(NBlocks * BlockSize)}
Cells == Words \cup {Erased, Garbage} \cup {SizeWord(n) : n \in 0..(SizeMod - 1)}

NoFile == [file |-> 0, len |-> 0, whole |-> FALSE]
InitialFlushing == [base |-> 0, addr |-> 0, lastErased |-> 0, ongoing |-> FALSE, crc |-> <<>>]
EmptyRam == [cells |-> <<>>, len |-> 0, pos |-> 0]

\* Type invariant.  Its bounds say that append never writes behind the RAM buffer, that a
\* flush never passes its end, and that the address stays inside the flash.
TypeOK ==
  /\ fetch \in {"idle", "receiving"}
  /\ fileLen \in Lens \cup {0}
  /\ got \in 0..fileLen
  /\ finals \in 0..2
  /\ memoryPool \in {"null", "allocated", "dangling"}
  /\ bufferFile \in BOOLEAN
  /\ ram.pos \in 0..Cap /\ ram.len \in 0..Cap /\ ram.pos <= ram.len
  /\ ram.cells \in Seq(Words) /\ Len(ram.cells) <= Cap
  /\ chunk \in [size : ChunkSizes \cup {0}, done : Nat] /\ chunk.done <= chunk.size
  /\ pc \in Places
  /\ flush \in [last : BOOLEAN, size : 0..Cap, done : 0..Cap] /\ flush.done <= flush.size
  /\ flushingState.base = 0
  /\ flushingState.addr \in Addresses
  /\ flushingState.lastErased \in 0..(NBlocks - 1)
  /\ flushingState.ongoing \in BOOLEAN
  /\ flash \in [Addresses -> Cells]
  /\ nFetches \in 0..MaxFetches
  /\ crcReport \in {"none", "match", "mismatch"}
  /\ failed \subseteq Faults

Init ==
  /\ fetch = "idle" /\ fileLen = 0 /\ got = 0 /\ finals = 0
  /\ memoryPool = "null" /\ bufferFile = FALSE /\ ram = EmptyRam
  /\ chunk = [size |-> 0, done |-> 0]
  /\ pc = "none"
  /\ flush = [last |-> FALSE, size |-> 0, done |-> 0]
  /\ flushingState = InitialFlushing
  /\ flash = [a \in Addresses |-> Erased]
  /\ nFetches = 0
  /\ handed = <<>> /\ stored = NoFile /\ crcReport = "none" /\ failed = {}

\* The power fails, or Sys::panic() restarts the chip.
Restart ==
  /\ fetch' = "idle" /\ fileLen' = 0 /\ got' = 0 /\ finals' = 0
  /\ memoryPool' = "null" /\ bufferFile' = FALSE /\ ram' = EmptyRam
  /\ chunk' = [size |-> 0, done |-> 0]
  /\ pc' = "none"
  /\ flush' = [last |-> FALSE, size |-> 0, done |-> 0]
  /\ flushingState' = InitialFlushing
  /\ handed' = <<>> /\ crcReport' = "none" /\ failed' = failed \cap {"erase"}
  /\ UNCHANGED <<flash, nFetches, stored>>

Panic == Restart
-----------------------------------------------------------------------------
(* The RAM buffer: SingleBufferRamFileSystem, on the value of `ram`. *)

Lesser(a, b) == IF a <= b THEN a ELSE b

Room_OneMore(r) == Cap - r.pos + 1
Room(r) == Cap - r.pos

\* Written at the cursor; the end of the file follows the cursor.
AppendAt(r, words) ==
  [cells |-> [i \in 1..(IF Len(r.cells) > r.pos + Len(words)
                        THEN Len(r.cells) ELSE r.pos + Len(words)) |->
                IF i > r.pos /\ i <= r.pos + Len(words)
                THEN words[i - r.pos] ELSE r.cells[i]],
   len |-> r.pos + Len(words),
   pos |-> r.pos + Len(words)]

SeekTo(r, offset) == [r EXCEPT !.pos = Lesser(offset, r.len)]
\* The position the cursor had before, not the new one.
SeekReturn(r, offset) == r.pos
CurrentPosition(r) == SeekReturn(r, r.pos)

ReadLength_WholePool(r, n) == Lesser(n, Len(r.cells) - r.pos)
ReadLength(r, n) == Lesser(n, r.len - r.pos)
ReadWords(r, n) == SubSeq(r.cells, r.pos + 1, r.pos + ReadLength(r, n))
-----------------------------------------------------------------------------
(* HttpFetch::fetchFile and the events of the HTTP client. *)

\* The pool is never set back to nullptr, so a second file in one boot cannot be opened and
\* fetchFile panics.  An announced length of zero looks like the last call, (nullptr, 0).
FetchStart(n) ==
  /\ fetch = "idle"
  /\ nFetches < MaxFetches
  /\ memoryPool = "null" /\ ~bufferFile
  /\ fetch' = "receiving" /\ fileLen' = n /\ got' = 0
  /\ finals' = IF n = 0 THEN 2 ELSE 1
  /\ memoryPool' = "allocated" /\ bufferFile' = TRUE /\ ram' = EmptyRam
  /\ nFetches' = nFetches + 1
  /\ handed' = <<>> /\ crcReport' = "none"
  /\ UNCHANGED <<chunk, pc, flashVars, stored, failed>>

FetchRefused ==
  /\ fetch = "idle"
  /\ memoryPool # "null" \/ bufferFile
  /\ Panic

\* onFileChunkReceived with a chunk: File::append is entered.
ChunkReceived(n) ==
  /\ fetch = "receiving" /\ pc = "none"
  /\ got + n <= fileLen
  /\ chunk' = [size |-> n, done |-> 0]
  /\ pc' = "append"
  /\ UNCHANGED <<fetchVars, memoryPool, bufferFile, ram, got, flashVars, historyVars>>

\* One round of the loop of FlushingBufferFileSystem::append.  The comparison is with the
\* length of the whole chunk, so what is left of it after a flush is flushed at once.
AppendRound ==
  LET n == Lesser(chunk.size - chunk.done, Room(ram))
      whole == n = chunk.size
  IN /\ pc = "append"
     /\ ram' = AppendAt(ram, [i \in 1..n |-> Word(nFetches, got + i)])
     /\ got' = got + n
     /\ chunk' = [chunk EXCEPT !.done = @ + n]
     /\ pc' = IF whole THEN "none" ELSE "start"
     /\ flush' = [flush EXCEPT !.last = FALSE]
     /\ UNCHANGED <<fetchVars, memoryPool, bufferFile, flushingState, flash, historyVars>>

\* The call (nullptr, 0), when the HTTP client has delivered what the response has brought: the
\* rest is handed over as the last chunk, whatever size was announced.  The second one for
\* an empty file finds bftFile reset, and the implementor panics on the null pointer.
Finalize ==
  /\ fetch = "receiving" /\ pc = "none"
  /\ got = fileLen
  /\ IF bufferFile
     THEN /\ pc' = "start"
          /\ flush' = [flush EXCEPT !.last = TRUE]
          /\ finals' = finals - 1
          /\ UNCHANGED <<fetch, fileLen, nFetches, bufferVars, flushingState, flash, historyVars>>
     ELSE Panic

\* The connection breaks: fetchFile logs it and returns, the file stays open.
DownloadFails ==
  /\ fetch = "receiving" /\ pc = "none"
  /\ bufferFile
  /\ fetch' = "idle"
  /\ UNCHANGED <<fileLen, finals, nFetches, bufferVars, pc, flashVars, historyVars>>
-----------------------------------------------------------------------------
(* FlashMemoryTransferImplementor::onFileBufferingFinished. *)

PageStart(addr) == (addr \div PageSize) * PageSize
BlockOf(addr) == addr \div BlockSize

ShouldErase_OncePerFile(fs) == ~fs.ongoing
ShouldErase(fs) == ~fs.ongoing \/ fs.lastErased # BlockOf(fs.addr)

Erase(block) ==
  [a \in Addresses |-> IF BlockOf(a) = block THEN Erased ELSE flash[a]]

\* Programming can only clear bits.
Programmed(old, new) ==
  IF new = Erased \/ new = old THEN old ELSE IF old = Erased THEN new ELSE Garbage

Program(addr, page) ==
  [a \in Addresses |->
     IF PageStart(a) = PageStart(addr)
     THEN Programmed(flash[a], page[a - PageStart(addr)]) ELSE flash[a]]

\* Mutant: the size, known from the beginning, is written with the first page.
PageOf_SizeFirst(addr) ==
  [i \in 0..(PageSize - 1) |->
     IF PageStart(addr) + i = 0 THEN SizeWord(fileLen) ELSE flash[PageStart(addr) + i]]
PageOf(addr) == [i \in 0..(PageSize - 1) |-> flash[PageStart(addr) + i]]

\* Where a page's payload begins: behind the header on the first page of a file, else at the
\* inner offset of the BASE address (0), wherever in the page the current address is.
IsFirstChunk(fs) == fs.base = fs.addr
PayloadStart_NoHeader(fs) == fs.base % PageSize
PayloadStart(fs) == IF IsFirstChunk(fs) THEN 1 ELSE fs.base % PageSize

\* The words of the page that go into the checksum: they are taken from the inner offset of
\* the CURRENT address, behind the end of the page buffer if need be.
Checksummed(fs, page, n) ==
  [i \in 1..n |->
     LET k == (fs.addr % PageSize) + i - 1 IN IF k < PageSize THEN page[k] ELSE OverRead]

\* Back to the caller: append goes on from the beginning of the buffer; after the last chunk
\* HttpFetch drops the file, which frees the pool and leaves the pointer as it is.
ReturnToCaller(r) ==
  IF flush.last
  THEN /\ ram' = EmptyRam /\ memoryPool' = "dangling" /\ bufferFile' = FALSE
       /\ pc' = "none"
       /\ fetch' = IF finals = 0 THEN "idle" ELSE fetch
       /\ UNCHANGED <<got, chunk, fileLen, finals, nFetches>>
  ELSE /\ ram' = SeekTo(r, 0)
       /\ pc' = IF chunk.done < chunk.size THEN "append" ELSE "none"
       /\ UNCHANGED <<memoryPool, bufferFile, got, chunk, fetchVars>>
-----------------------------------------------------------------------------
EraseInto(fs, bad) ==
  /\ failed' = failed \cup ({bad} \ {"none"})
  /\ flash' = IF bad = "erase" THEN flash ELSE Erase(BlockOf(fs.addr))
  /\ flushingState' = [fs EXCEPT !.lastErased = BlockOf(fs.addr), !.ongoing = TRUE]

\* Up to the page loop.  The file is "show", the only one the partition table has, at address
\* 0: a file of another name is dropped here and does not come near the flash.
FlushStart(bad) ==
  LET fs == IF flushingState.ongoing THEN flushingState
            ELSE [flushingState EXCEPT !.base = 0, !.addr = 0]
  IN /\ pc = "start"
     /\ bad \in {"none", "erase"}
     /\ IF ShouldErase(fs)
        THEN EraseInto(fs, bad)
        ELSE bad = "none" /\ flushingState' = [fs EXCEPT !.ongoing = TRUE] /\ UNCHANGED <<flash, failed>>
     /\ flush' = [flush EXCEPT !.size = CurrentPosition(ram), !.done = 0]
     /\ ram' = SeekTo(ram, 0)
     /\ stored' = NoFile
     /\ pc' = "pages"
     /\ UNCHANGED <<fetchVars, memoryPool, bufferFile, got, chunk, handed, crcReport>>

EraseNextBlock(bad) ==
  /\ pc = "pages"
  /\ flush.done # flush.size
  /\ bad \in {"none", "erase"}
  /\ ShouldErase(flushingState)
  /\ EraseInto(flushingState, bad)
  /\ UNCHANGED <<fetchVars, bufferVars, pc, flush, handed, stored, crcReport>>

\* One page.  A failed read or write of the flash returns at once: the state keeps `ongoing`,
\* and what is left of the buffer is lost to the caller.
FlushPage(bad) ==
  LET fs == flushingState
      start == PayloadStart(fs)
      words == ReadWords(ram, PageSize - start)
      n == Len(words)
      written == IF IsFirstChunk(fs) THEN n + start ELSE n
      page == [i \in 0..(PageSize - 1) |->
                 IF i >= start /\ i < start + n THEN words[i - start + 1] ELSE PageOf(fs.addr)[i]]
      checked == fs.crc \o Checksummed(fs, page, written)
      r == [ram EXCEPT !.pos = @ + n]
  IN /\ pc = "pages"
     /\ flush.done # flush.size
     /\ bad \in {"none", "read", "write"}
     /\ ~ShouldErase(fs)
     /\ CASE bad = "read" ->
               /\ ReturnToCaller(ram)
               /\ failed' = failed \cup {"read"}
               /\ UNCHANGED <<flashVars, handed, stored, crcReport>>
          [] bad # "read" /\ n = 0 -> Panic
          [] bad = "write" /\ n > 0 ->
               /\ ReturnToCaller(r)
               /\ flushingState' = [fs EXCEPT !.crc = checked]
               /\ handed' = handed \o words
               /\ failed' = failed \cup {"write"}
               /\ UNCHANGED <<flash, flush, stored, crcReport>>
          [] bad = "none" /\ n > 0 ->
               /\ flash' = Program(fs.addr, page)
               /\ flushingState' = [fs EXCEPT !.addr = @ + written, !.crc = checked]
               /\ flush' = [flush EXCEPT !.done = @ + n]
               /\ handed' = handed \o words
               /\ ram' = r
               /\ UNCHANGED <<fetchVars, memoryPool, bufferFile, got, chunk, pc, stored, crcReport, failed>>

\* What updateFlashMemoryCrc32 reads back.
ReadBack_FromBuffer(fs) == fs.crc
ReadBack(fs) == [i \in 1..(fs.addr - fs.base) |-> flash[fs.base + i - 1]]

\* With bytes from behind the page buffer the sum is anything.
CrcReports(fs, bad) ==
  IF \E i \in 1..Len(fs.crc) : fs.crc[i] = OverRead THEN {"match", "mismatch"}
  ELSE IF bad # "verify" /\ fs.crc = ReadBack(fs) THEN {"match"} ELSE {"mismatch"}

WithHeader(fs) ==
  [PageOf(fs.base) EXCEPT ![0] = SizeWord((fs.addr - 1) % SizeMod)]

\* Past the page loop.  After the last chunk: validation, of which only the log tells, then
\* the size is written into the first page and the flushing state is reset.
FlushEnd(bad) ==
  /\ pc = "pages"
  /\ flush.done = flush.size
  /\ IF flush.last
     THEN IF bad \in {"read", "write"}
          THEN Panic
          ELSE /\ bad \in {"none", "verify"}
               /\ crcReport' \in CrcReports(flushingState, bad)
               /\ flash' = Program(flushingState.base, WithHeader(flushingState))
               /\ flushingState' = InitialFlushing
               /\ stored' = [file |-> nFetches, len |-> fileLen, whole |-> failed \subseteq {"erase"}]
               /\ ReturnToCaller(ram)
               /\ UNCHANGED <<flush, handed, failed>>
     ELSE /\ bad = "none"
          /\ ReturnToCaller(ram)
          /\ UNCHANGED <<flashVars, historyVars>>
-----------------------------------------------------------------------------
Next ==
  \/ \E n \in Lens : FetchStart(n)
  \/ FetchRefused
  \/ \E n \in ChunkSizes : ChunkReceived(n)
  \/ AppendRound
  \/ Finalize
  \/ DownloadFails
  \/ \E bad \in Faults \cup {"none"} : FlushStart(bad)
  \/ \E bad \in Faults \cup {"none"} : EraseNextBlock(bad)
  \/ \E bad \in Faults \cup {"none"} : FlushPage(bad)
  \/ \E bad \in Faults \cup {"none"} : FlushEnd(bad)
  \/ Restart

Spec == Init /\ [][Next]_vars
-----------------------------------------------------------------------------
(* Properties *)

Payload(f, n) == \A i \in 1..n : flash[i] = Word(f, i)

\* The format SaluteFlashMemoryTransferImplementor.hpp:20 promises: a transfer that has gone
\* through to the end leaves the file's size and the file in the flash, and a restart of the
\* chip or a failed fetch that follows does not harm it.
StoredFileIntact ==
  stored # NoFile => flash[0] = SizeWord(stored.len) /\ Payload(stored.file, stored.len)

\* The same for the files that are stored in one flush of the RAM buffer
\* (FlushingBufferFileSystem.cpp:58-89), when every erase has done its work.
BufferedFileIntact ==
  stored.len <= Cap /\ "erase" \notin failed => StoredFileIntact

\* The size is written last and its block is erased first
\* (SaluteFlashMemoryTransferImplementor.cpp:70-80).  So a size that the autopilot finds there
\* is of a file whose transfer has come to its end, no crash or panic leaves one before that or
\* before the payload of another, and it is the file's own size unless a read or write has
\* failed.  Behind the size of a file that is stored in one flush the whole file is found, and
\* no read or write has failed.  A longer file's is not: its later pages are displaced
\* (FlashMemoryTransferImplementor.cpp:223), and when a flush before the last fails (:103-105,
\* :125-127) the size counts what is left of the file.
HeaderMeansComplete ==
  \A n \in 0..(SizeMod - 1) :
    flash[0] = SizeWord(n) /\ "erase" \notin failed =>
      /\ stored # NoFile
      /\ stored.whole => n = stored.len
      /\ stored.len <= Cap => stored.whole /\ Payload(stored.file, n)

\* "CRC32 validation has succeeded" (FlashMemoryTransferImplementor.cpp:143) is only logged for
\* a file the flash holds, whichever operation has failed before.  For a file longer than the
\* buffer the sum runs over bytes behind the page buffer and means nothing.
CrcMatchMeansStored ==
  crcReport = "match" /\ stored # NoFile /\ stored.len <= Cap =>
    Payload(stored.file, stored.len)

\* FlushingBufferFileSystem::append hands the file over to the implementor in order, each word
\* once, however the chunks fall on the buffer; at the last call nothing is missing.  (A read or
\* a write that fails drops what is left of the buffer.)
FlushedInOrder ==
  failed \subseteq {"erase"} =>
    /\ \A i \in 1..Len(handed) : handed[i] = Word(nFetches, i)
    /\ crcReport # "none" => Len(handed) = fileLen
-----------------------------------------------------------------------------
(* What the autopilot finds in the flash: as many words as the header says. *)

HasHeader == \E n \in 0..(SizeMod - 1) : flash[0] = SizeWord(n)
Visible == IF HasHeader THEN [i \in 1..flash[0][3] |-> flash[i]] ELSE <<>>

File == INSTANCE StoredFile WITH
          visible <- Visible, fetching <- IF bufferFile THEN fileLen ELSE 0,
          received <- bufferFile /\ got = fileLen

\* Storing is atomic for whoever reads the flash, though it takes many page programs and a
\* crash, a panic or a failed read or write may come between any two of them
\* (FlashMemoryTransferImplementor.cpp:26-133, SaluteFlashMemoryTransferImplementor.cpp:42-89):
\* a file appears whole, where there was nothing, and is the one that was fetched last; it
\* stays until another one has been downloaded and takes its place.  For files that are stored
\* in one flush of the buffer and are not empty, when erases do their work.
StoringIsAtomic == File!Spec
=============================================================================
