---------------------------- MODULE UploadBuffer ----------------------------
(***************************************************************************)
(* The firmware upload page (http/pages/fwupload.cpp) and the one-file RAM *)
(* buffer it fills (SingleBufferRamFileSystem.cpp).                        *)
(*                                                                         *)
(* The page keeps ONE static file, sFileBufferingContext.file, and hands   *)
(* it over to the FTP client when the upload is complete.  The unit of     *)
(* length is one FTP payload (239 bytes): the buffer, a chunk received by  *)
(* the page and a read of the client are multiples of it.                  *)
(***************************************************************************)
EXTENDS Naturals

CONSTANTS
  MaxLen,       \* bound: length of the longest upload, in payloads
  MaxPos,       \* bound: a cursor that has run past the end stops here
  MaxUploads    \* bound: uploads since the last boot

ASSUME UploadAssumption ==
  /\ MaxLen \in Nat \ {0}
  /\ MaxPos \in Nat
  /\ MaxPos >= MaxLen
  /\ MaxUploads \in Nat

VARIABLES
  memoryPool,     \* SingleBufferRamFileSystem::memoryPool, see PoolStates
  file,           \* sFileBufferingContext.file and the positions of the pool behind it
  initialized,    \* sFileBufferingContext.initialized
  uploading,      \* the HTTP task is inside httpdReqIterateReceiveInputBytes
  fileSize,       \* inputBytesIterationContext.fileSize: the size the URL announces
  remaining,      \* its local `remaining`, at first the length of the request's body
  notifyPending,  \* pushed work queue tasks that will notify "buffering finished"
  nUploads        \* uploads begun since boot (history, for the bound)

uploadVars ==
  <<memoryPool, file, initialized, uploading, fileSize, remaining, notifyPending, nUploads>>

\* "dangling": the pool is freed and the pointer keeps its old value
PoolStates == {"null", "allocated", "dangling"}

\* len = memoryPoolNextWritePosition, pos = memoryPoolCurrentPosition, cap = memoryPoolSize
FileType == [open : BOOLEAN, len : 0..MaxPos, pos : 0..MaxPos, cap : 0..MaxLen]

ClosedFile == [open |-> FALSE, len |-> 0, pos |-> 0, cap |-> 0]

\* The page's part of the type invariant: the cursors of the pool stay in the bounds of a
\* buffer, and no more hand-overs are queued than uploads were begun.
UploadTypeOK ==
  /\ memoryPool \in PoolStates
  /\ file \in FileType
  /\ initialized \in BOOLEAN
  /\ uploading \in BOOLEAN
  /\ fileSize \in 0..MaxLen
  /\ remaining \in 0..MaxLen
  /\ notifyPending \in 0..MaxUploads
  /\ nUploads \in 0..MaxUploads

UploadInit ==
  /\ memoryPool = "null"
  /\ file = ClosedFile
  /\ initialized = FALSE
  /\ uploading = FALSE
  /\ fileSize = 0
  /\ remaining = 0
  /\ notifyPending = 0
  /\ nUploads = 0

\* after a restart of the chip
UploadRestart ==
  /\ memoryPool' = "null"
  /\ file' = ClosedFile
  /\ initialized' = FALSE
  /\ uploading' = FALSE
  /\ fileSize' = 0
  /\ remaining' = 0
  /\ notifyPending' = 0
  /\ nUploads' = 0
-----------------------------------------------------------------------------
(* The file operations, on the value of a file. *)

Lesser(a, b) == IF a <= b THEN a ELSE b

Step(pos, n) == Lesser(pos + n, MaxPos)

\* One payload, or nothing at the end.  The code clamps to `next write - current` in
\* std::size_t: once the cursor is past the end the difference is huge and clamps nothing.
NRead(f) == IF f.open /\ f.pos # f.len THEN 1 ELSE 0

\* Mutant: what is appended is not clamped to the pool.
append_NoClamp(f) ==
  IF f.open
  THEN [f EXCEPT !.pos = Step(f.pos, 1), !.len = Step(f.pos, 1)]
  ELSE f

\* The same clamp, to `size - current`: what does not fit the pool is dropped.  The end of the
\* file follows the cursor, even when nothing is written.
append(f) ==
  IF f.open
  THEN LET n == IF f.pos # f.cap THEN 1 ELSE 0
       IN [f EXCEPT !.pos = Step(f.pos, n), !.len = Step(f.pos, n)]
  ELSE f

Seek(f, offset) == IF f.open THEN [f EXCEPT !.pos = Lesser(offset, f.len)] ELSE f

\* The pool is freed but the pointer is never set to nullptr: no second file in one boot.
closeFile ==
  /\ file' = ClosedFile
  /\ memoryPool' = IF file.open THEN "dangling" ELSE memoryPool

\* sFileBufferingContext.reset(): also the deleter of the handed-over pointer
resetContext ==
  /\ closeFile
  /\ initialized' = FALSE
-----------------------------------------------------------------------------
(* The HTTP server's task. *)

\* The URL's `filesize` and the length of the body come from the page and need not agree.
UploadStart(size, length) ==
  /\ ~uploading
  /\ nUploads < MaxUploads
  /\ uploading' = TRUE
  /\ fileSize' = size
  /\ remaining' = length
  /\ nUploads' = nUploads + 1
  /\ UNCHANGED <<memoryPool, file, initialized, notifyPending>>

\* tryOpenFileWriteBinary refuses a second file and an empty one.
CanOpen == memoryPool = "null" /\ fileSize > 0

Opened == [open |-> TRUE, len |-> 0, pos |-> 0, cap |-> fileSize]

\* handleInputBytesFileBuffering, Receiving: the first chunk opens the file with the
\* announced size; a failed open is reported to a caller that does not look, and the next
\* chunk tries again.
UploadChunk ==
  /\ uploading
  /\ remaining > 0
  /\ remaining' = remaining - 1
  /\ \/ /\ initialized
        /\ file' = append(file)
        /\ UNCHANGED <<memoryPool, initialized>>
     \/ /\ ~initialized /\ CanOpen
        /\ memoryPool' = "allocated"
        /\ file' = append(Opened)
        /\ initialized' = TRUE
     \/ /\ ~initialized /\ ~CanOpen
        /\ file' = ClosedFile
        /\ UNCHANGED <<memoryPool, initialized>>
  /\ UNCHANGED <<uploading, fileSize, notifyPending, nUploads>>

\* The connection breaks: Finished with an error.
UploadFail ==
  /\ uploading
  /\ remaining > 0
  /\ uploading' = FALSE
  /\ fileSize' = 0
  /\ remaining' = 0
  /\ resetContext
  /\ UNCHANGED <<notifyPending, nUploads>>

\* Finished without an error: the hand-over is pushed into the work queue.
UploadFinish ==
  /\ uploading
  /\ remaining = 0
  /\ uploading' = FALSE
  /\ fileSize' = 0
  /\ notifyPending' = notifyPending + 1
  /\ UNCHANGED <<memoryPool, file, initialized, remaining, nUploads>>

UploadNext ==
  \/ \E size, length \in 0..MaxLen : UploadStart(size, length)
  \/ UploadChunk
  \/ UploadFail
  \/ UploadFinish
=============================================================================
