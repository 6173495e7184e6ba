# Verification project for the Esp32Cam firmware

TLA+ models of the control logic of the firmware in `src/`, the TLC runs that check them on small
instances, and the theorems that TLAPS proves for every instance.  All paths below are relative to
`src/components/` unless they start with `main/`.

## 1. The system

The firmware turns an ESP32 camera module into the companion of an autopilot.  `main/main.cpp` boots
the parts in a fixed order (non-volatile storage, work queue, recorder, camera, event loop, module
parameters, Wi-Fi, HTTP, camera thread and streamer, MAVLink, bridge, sockets, UART, tracking, buffered
file transfer, SPI flash); from then on they run on FreeRTOS tasks and talk through publish/subscribe
keys (`sub`), the work queue (`utility/utility/thr/WorkQueue.hpp`) and the bridge.

| component | state it keeps | operations | talks to |
|---|---|---|---|
| MAVLink FTP client `mav/.../BftFtpClient.cpp` | session state, attempt count, held file, sequence number, session id, offset, one-shot timer | hand-over of a file, incoming FTP message, timer, delayed send | upload page and fetch (shared pointer to a file), autopilot (link), work queue, timer task |
| upload page `http/pages/fwupload.cpp` | one static `FileBufferingContext` | receive chunks, finish, fail | RAM file system, work queue |
| RAM file system `buffered_file_transfer/.../SingleBufferRamFileSystem.cpp` | one memory pool, two positions | open, append, read, seek, close | its holder |
| flushing buffer and HTTP fetch `FlushingBufferFileSystem.cpp`, `HttpFetch.cpp`, `http/http/client/file.cpp` | open file, current chunk | download events, append, flush, finish | transfer implementor |
| flash transfer `FlashMemoryTransferImplementor.cpp`, `Salute...cpp` | `FlushingState`: base and current address, last erased block, CRC | flush a buffer page by page, validate, write the header | SPI flash |
| SPI flash `zd35` | cells | read, program, erase a block | SPI driver |
| work queue `utility/utility/thr` | three task queues, the flag `suspended` | push, pushWait, pushContinuous, pushContinuousWait, run | every other part |
| MAVLink dispatcher `mav/priv_include/Dispatcher.cpp`, `Unmarshalling.cpp` | one parser, the message it holds, one response buffer, counters of what the next onSubscription returns | reduce a slice, process a message, answer, heartbeat, delayed send | bridge, timer task, microservices |
| MAVLink microservices `mav/priv_include/Microservice` | one state each | process a message | camera recorder, tracking, sockets, Wi-Fi, FTP client |
| MAVLink buffered transfer `mav/.../BufferedFileTransfer.cpp` | stage union (initial, MAVLink receiving, HTTP receiving) | file chunks, FETCH command | RAM file system, HTTP client, FTP client |
| bridge `wifi_uart_bridge` | receivers (at most 16), routing rules, who holds the turn | notify and wait, notify asynchronously, reduce, forward, lock a route | sockets, UART, MAVLink, work queue |
| UART task `uart/Task.cpp`, `CircularSwap.cpp` | three buffers and their owners | read, trash, process | bridge |
| camera driver and module `lib/ov2640/ov2640/driver/camera.c`, `camera/Ov2640.cpp` | the driver's state, its frame task `dma_filter`, frame size and format, the lock of `Ov2640` | initialize, deinitialize, switch size or format, deliver a frame | NVS, the `NewFrame` key |
| camera recorder `camera_recorder` | subscription, file, mutex and semaphore of a photograph; file and subscription of a recording | start, stop, new frame | camera, bridge (45 s timer), MAVLink |
| tracking `tracking` | state, snapshot of the camera's settings, spinlock, region | start, stop, new frame, update in the work queue | camera, work queue, MAVLink |
| sockets and GsNetwork `socket`, `mav/.../GsNetwork.cpp` | tables of sockets and acceptors, a mutex, routing rules | connect, disconnect, open, close, receive, poll | asio, bridge, work queue |
| Wi-Fi, HTTP server, module parameters, camera streamer, UDP log, version | connections, registries, fields | connect, receive, set and get | ESP-IDF |

### What is hard in it, and what makes each part correct

* **FTP client.**  The work queue thread, the timer task and the HTTP task meet in one session.
  `process`, `onHrTimer` and `onFileBufferingFinished` hold `requestRepeat.mutex`; the delayed send does
  not.  Late timer callbacks, retries that overtake acknowledgements, refused and odd answers, lost
  messages.  Correct means: the file is held exactly while it is needed and always given back, no session
  ends unreported or hangs, and what is acknowledged is stored.
* **Work queue.**  Suspending and resuming are not atomic with looking into the queues or with each other.
  Correct means: what is pushed is run, whoever waits is released, no frame is used after its end.
* **Flash transfer.**  A file is cut three times over: into HTTP chunks, RAM buffers and flash pages.
  The chip may restart, and flash operations may fail, between any two steps.  Correct means: what the
  header announces is there, and nothing is lost or doubled at a boundary.
* **Buffered transfer over MAVLink.**  A union of stages changed by two kinds of requests.
* **Bridge, UART and dispatcher.**  The UART is read in chunks that fall anywhere in a message, into three
  buffers of which the oldest is trashed when the processor is late; one parser takes the bytes of the UART and of
  every UDP peer in turn; the timer's heartbeat is packed into the response buffer that the work queue answers
  from.  Correct means: a foreign message reaches the other side once and in order, a request is answered with
  what was composed for it, and everybody who waits for his notification gets it back.
* **Camera.**  A photograph and the web page reconfigure the driver, which deletes the frame task wherever it is: in
  a subscriber, with a mutex held.  The frame task waits busily for an update that the work queue runs, and the
  work queue waits for a mutex that the frame task holds.  The recording is stopped by a timer's task as well
  as by a command.  Correct means: photographs have the photograph's size, the user's format comes back after
  tracking, files are open while they are written, and every command is carried out.
* **Sockets.**  The asio task and the work queue share the tables; handlers keep references to a socket over the
  wait for the mutex that protects the tables, and over a notification.  Correct means: every
  connection in the table is received from or known to be lost, a closed port has no connections, no handler
  uses what has been erased, and the ground station hears of every connection.

The full list of hazards, each at its line, is in `PROJECT.json` under `hazards`.

## 2. The modules

| module | models | correspondence |
|---|---|---|
| `UploadBuffer` | upload page and its RAM file | `UploadStart`, `UploadChunk`, `UploadFail`, `UploadFinish` are the points of `httpdReqIterateReceiveInputBytes`; `CanOpen`, `Opened`, `append`, `NRead`, `Seek`, `closeFile` are the file operations.  The pool has the size that the URL announces (`fileSize`), the loop runs for the length of the body (`remaining`), and the two need not agree |
| `FtpPeer` | autopilot's FTP server and the link (external) | a request is accepted, refused, or answered oddly; messages are lost, never reordered |
| `BftFtpClient` | the client, composed with both | one action per critical section (`process`, `onHrTimer`, `NotifyUpload`, `NotifyFetch`), three for a delayed send (`AsyncBegin`, `AsyncRead`, `AsyncPack`), `TimerElapse` for the moment the timer is due, `Restart` after a panic |
| `BftFtpClientProofs` | theorems about `BftFtpClient` | |
| `TransferSession` | what the client promises, abstractly | a session takes a file when idle, gives it back, and ends with a report: `Take`, `Settle`, `Abandon`, `Close`, `LateFailure`.  Only `Crash`, when a late read has met the file given back, ends one without; `Restart` follows nothing else |
| `BftFtpClientRefinement` | proof that `BftFtpClient` implements `TransferSession` | `phase` is `Phase` (from `state`), `holds` is `bftFile # "none"`, `reports` and `crashed` are themselves |
| `MavBufferedTransfer` | stage machine of a FETCH command, composed with `TransferSession` as the client and a page that competes for the only file | `FetchCommand`, `Header`, `Chunk`, `Finish`, `Fail`, `HandOver` are the moments of `onCommandLongFetchFile` and of the HTTP client's events; `transferInto...`, `onFileChunk` are the methods of `State` |
| `MavBufferedTransferProofs` | theorems about `MavBufferedTransfer` | |
| `WorkQueue` | work queue | the thread is `Scan`, `Run`, `Mark`, `Suspend`; a pusher is `Push`, then `Check`, `Clear`, `Resume` once per `resume()`, then `Acquire` if it waits |
| `TaskRunner` | abstract: what the work queue promises to those who push | `Submit`, `Take`, `Finish`, `Return`: a task is owed, then run, then through or owed another round |
| `WorkQueueProofs` | theorems about `WorkQueue`, and that it implements `TaskRunner` | |
| `FlashTransfer` | HTTP fetch into the flash | `FetchStart`, `ChunkReceived`, `AppendRound`, `Finalize`, `DownloadFails`; `FlushStart`, `EraseNextBlock`, `FlushPage`, `FlushEnd` are one call of `onFileBufferingFinished`, cut at each flash operation; `Restart` anywhere |
| `StoredFile` | abstract: what the autopilot finds in the flash | `Fetch`, `Receive`, `MakeRoom`, `Store`, `GiveUp`: there is nothing or a whole file |
| `FlashTransferProofs` | theorems about `FlashTransfer`, and that it implements `StoredFile` | |
| `Camera` | driver, frame task up to its subscribers, `Ov2640` | `StopBus`, `Deinit`, `InitDriver`, `StartBus` are `reinit()` in the order of its statements; `FrameReceived`, `LockKey`, `UnlockKey`, `FrameDone` are `dma_filter` around its hook; `SetSize` and `SetFormat` are the two writes |
| `CameraSystem` | photographs, recordings, tracking and the web page on top of `Camera` | `Photo...` and `Record...` are the statements of `start()` that another task can come between, `Stop...` those of `stop()` in whichever task; `Frame...` are the subscribers in the frame task; `CamConf`, `TrackerUpdate` are the tasks that tracking pushes; `WebResolution`, `TimerFires` start the other tasks |
| `CameraSystemProofs` | theorems about `CameraSystem` | |
| `TcpServer` | TCP sockets, their polling task and the GsNetwork commands | `Accept`, `Accepted`, `Receive`, `ReceiveAgain`, `Lost`, `DisconnectLost` are the handlers of `Api.cpp`, cut where they wait for the mutex or for a notification; commands and events are tasks of the work queue |
| `TcpServerProofs` | theorems about `TcpServer` | |
| `Bridge` | bridge with the UART task and the dispatcher | `ReaderReads`, `ProcessorTakes`, `ProcessorReturns` are the two threads of the UART task and `CircularSwap`; `NotifyBegin`, `Process`, `Ignore`, `Consume`, `Forward`, `Respond`, `NotifyEnd`, `Finish` are `notifyAsImpl` and the dispatcher, one receiver and one slice at a time; `Heartbeat` and `AsyncSend` are what the chip says unasked |
| `BridgeProofs` | theorems about `Bridge` | |

State variables carry the names of the code's members.  The ones marked "history" in their comment are not
in the code; they record what happened for the properties, or count for a bound, and guard nothing else.

### Abstractions

* In `UploadBuffer` and `BftFtpClient` the unit of length is one FTP payload (239 bytes).  A payload is its
  index in the file, so a write of the right bytes has `data = offset`.
* In `FlashTransfer` the unit is the size header (4 bytes).  The flash is a function from addresses to
  cells; programming a cell that is not erased gives garbage.  The ratio of page, buffer and block
  is kept in kind: the buffer is a whole number of pages (20 KiB is 10 pages of 2048 bytes), a block is
  two pages, and the header is smaller than a page.
* A page program and a block erase are atomic with respect to a restart: a page torn by a power loss is
  not modelled.
* The end of a restart, that is the boot, is the initial state: what the wire or the flash holds stays.
* In `BftFtpClient` there is at most one FETCH per boot: a second one writes a file name over the file object
  that the client may still hold.  That is `MavBufferedTransfer`'s subject, where the client is abstract: a call
  through the bytes of a name reads the start of a path as a pointer, and panics.
* In `MavBufferedTransfer` the cursor of the page's file is left out (`UploadBuffer` has it), opening a file is
  one step, and the heap is large enough.
* In `Camera` a frame size is one of four kinds (small, the usual one, the photograph's, one the sensor refuses).
  A frame is either of a size or not there: torn frames and DMA buffers are left out.  Configuration is the
  repository's (`CONFIG_DRIVER_OV2640_USE_HOOKS`), in which frames go to subscribers only.
* Tracking is its state machine; the MOSSE filter is a computation that may lose its target.
* In `TcpServer` there is one port, and each client connects once: a client that comes back is another
  client.  What a segment says is left out.
* In `Bridge` a message has two pieces, so that a chunk may end inside it, and a kind: foreign (to be forwarded),
  request (answered), quiet (handled without an answer), or alien: a frame that the parser does not take for a message, since its
  id is unknown to the dialect or its checksum or signature is wrong (`Unmarshalling.cpp:33`).  A datagram holds whole messages, as the ground
  station sends them.  A parser that has lost its place may find no message or a wrong one, by choice.  Which of the three
  buffers holds which chunk, and the time between a read and the push of what was read, are left out: nobody
  else touches a buffer then.  Receivers are registered before there is traffic, as `main.cpp` does it.
  Histories last for one notification.
* Log output, wording, hashes and names are left out.

## 3. The runs

All bounds are CONSTANTS of the modules and named there.

| run | question | bounds | result |
|---|---|---|---|
| `BftFtpClient_session` | ownership of the file, cursor, timers; `TransferSession` is implemented; every session has a retry ahead; retries run out when the autopilot is silent; a fetched file's session ends | one upload up to 2 payloads, one fetch, 2 attempts, 1 message each way, loss, refusals; announced size and body length each 0, 1 or 2 | holds, 242 000 states |
| `BftFtpClient_prompt` | writes and what is acknowledged, when no answer is slower than the timer | 2 messages each way, all faults, loss | holds, 4 200 states |
| `MavBufferedTransfer_fetch` | memory and contents of the fetched file, reading of the union | 3 fetches, bodies up to 2 chunks, redirections, announced length missing, zero or right, failures anywhere, client and page at any time | holds, 16 000 states |
| `WorkQueue_one_core` | frames, waiters, order; every push is served when pushers share the core; each task is run as often and in the order promised, and whoever waits for it goes on only then: `TaskRunner` is implemented | 2 pushers, 2 calls each, 1 further round | holds, 468 000 states |
| `FlashTransfer_all` | crash safety, what stands behind a size in the flash, chunk, buffer and page boundaries, what a CRC match means | 2 fetches of 1, 4, 5, 8 or 10 units (up to 2.5 buffers) in chunks of 1, 3 or 6; restarts anywhere; reads, writes, erases and verifications fail | holds, 3.2 million states |
| `FlashTransfer_atomic` | storing is atomic for whoever reads the flash: `StoredFile` is implemented | 3 fetches of 1, 2, 4 or 6 units, the buffer's size, in chunks of 1, 3 or 6; two blocks, four pages; restarts anywhere; reads, writes and verifications fail | holds, 4 700 states |
| `CameraSystem_all` | photographs, format, recordings, the busy wait; every command is carried out unless a named cause blocks | any 2 commands, one of them or the web page disturbing; every failure of the environment, one per behaviour | holds, 292 000 states |
| `TcpServer_all` | handlers and tables; events reach the ground station | 1 client, 1 host to connect to, 3 commands, 1 segment, failing bind and accept, broken connections | holds, 137 000 states |
| `Bridge_all` | the order of the chunks, the stream through the bridge, composed answers; notifications return | 1 UDP client, 2 messages of any kind from the UART, 1 datagram with a foreign message or a request, chunks up to 4 pieces, 1 own message | holds, 1.0 million states |

Why the bounds are enough: two payloads are a first, a last and an in-between acknowledgement; two
attempts are a retry and a last one; one message per direction leaves request, answer and retry to
overlap through the delayed-send queue; a sequence range of 2 wraps.  Two pushers and two calls each let one
thread's task be queued while the other one's is run and a third is pushed back.  Four flash blocks and
two and a half buffers let an erase fall inside a buffer and a flush fall inside a page, and the second fetch
finds what the first one left.  Two camera commands are every ordered pair of them, with the web page, the timer and the
tracker's own tasks in between.  Three commands to the sockets open, close and open again.  Two messages of two
pieces are the smallest stream in which a chunk holds the end of one message and the start of the next, and a
buffer of 4 pieces, three times, is enough for the reader to run ahead and trash.  Answers with a bad session or an odd opcode stop
the client's timer for good (below), so that `BftFtpClient_session`, which says that there is always a retry ahead, leaves them to
`BftFtpClient_prompt` and to the proofs, which cover every set of faults.

On one core a waiting call's thread goes on only when the queue is asleep, so that few bugs could break
`FrameOutlivesTask` there: it is the proof that covers pushers on another core.

Beyond the runs, the safety properties were explored on larger instances: `WorkQueue` with pushers on another core
(`TaskRunner` included, 4.9 million states), `BftFtpClient`'s with all faults (735 000), `TcpServer` with four commands (1.3 million), `Bridge` with every kind of message in the datagram (2.0 million),
and with two own messages (6.9 million).

Runs named `_v_` check one statement each that a comment of the repository makes and that
the code does not keep; `findings` in `PROJECT.json` quotes the line.

| run | what it shows |
|---|---|
| `BftFtpClient_v_endless` | with a fast autopilot the transfer never ends, `fileSize` is 0 |
| `WorkQueue_v_two_cores` | a lost wake-up: `pushWait` never returns |
| `FlashTransfer_v_large` | files longer than the buffer are stored 4 bytes off |

### Divergences that no run checks

The models reproduce these as well.  Where a definition is named, adding it to the named configuration as
an INVARIANT (PROPERTY for the second) makes TLC print the trace.

* `ChunkMatchesOffset`, `BftFtpClient_session.cfg`: without promptness a write carries the bytes of another offset,
  because the delayed send reads while a retry rewinds; `Dispatcher.cpp:45-47` says that no synchronization is needed.
* `NoNullFileRead`, `BftFtpClient_session.cfg`: a delayed send reads through a null pointer when the timer gives up
  between its check of the state and the read (`BftFtpClient.cpp:446`).
* `IgnoredHandOverKeepsFile`, `BftFtpClient_session.cfg` with `MaxUploads = 2`: an upload of length zero, handed over
  while the client is busy, closes the file of the active session through its deleter (`fwupload.cpp:318-323`).
* `DoneMeansStored`, `BftFtpClient_session.cfg`: a retry rewinds the file while its acknowledgement is under way; the
  acknowledgement is then counted at offset 0, which equals `fileSize`, and the transfer is reported done.
* `ActiveSessionHasRetry` with `"badSession"` or `"oddOpcode"` in `Faults`: the answer stops the timer and nothing
  starts it again (`BftFtpClient.cpp:305-314`).
* `SleeperCanBeWoken`, `WorkQueue_v_two_cores.cfg`: `resume()` between the flag and `vTaskSuspend` leaves the queue asleep
  with its flag cleared; no later push wakes it (`Threading.cpp:74-75`).
* `HeaderMeansComplete` and `BufferedFileIntact`, `FlashTransfer_all.cfg` with `Lens = {0}`: an empty file gets the
  size 2^32 - 4 (`SaluteFlashMemoryTransferImplementor.cpp:71`).
* `HandedOverIsOpen`, `MavBufferedTransfer_fetch.cfg`: the last chunk of a FETCH closes the file before it is handed
  over (`BufferedFileTransfer.cpp:190` and `:152`); the client transfers nothing, where `BufferedFileTransfer.hpp:20-23`
  says that the file is pushed to the autopilot.
* `HeldIsFile`, `MavBufferedTransfer_fetch.cfg`: a FETCH writes a name over the file that the client holds, and a
  reply without a length, or of length 0, hands the name over as a file (`BufferedFileTransfer.cpp:264-269`, `:152`).
* `ReadyForFetch`, `MavBufferedTransfer_fetch.cfg`: a failed download leaves the stage and the open file
  (`BufferedFileTransfer.cpp:144-149`); `transferIntoMavlinkInitial`, which could always undo it
  (`BufferedFileTransfer.hpp:87-88`), is not called.
* The acknowledgement of a FETCH is always `MAV_RESULT_FAILED` (`BufferedFileTransfer.cpp:370-371` ignores its
  argument).
* A timer callback overtaken by the last answer finds its attempts used up and reports "Failed" after "Done"
  (`BftFtpClient.cpp:139-160`); `TransferSession` has it as `LateFailure`.
* A TerminateSession request carries the sequence number in its session field (`FileTransferProtocol.hpp:79`).
* The lowest priority is served first (`PrioTaskVariantQueue.cpp:24`, against the names in `wq/Types.hpp:20-26`).
* An upload whose body is longer than the `filesize` of its URL is cut at the end of the pool, and nobody is told
  (`fwupload.cpp:292-306` ignores what `append` returns; `SingleBufferRamFileSystem.cpp:67`).  With `filesize=0` the file is
  refused chunk by chunk, and a closed file is handed over all the same.
* A file longer than the buffer of which an early flush fails to read or write a page: `onFileBufferingFinished` just returns
  (`FlashMemoryTransferImplementor.cpp:103-105`, `:125-127`), the next flush begins at address 0, and its header announces what is
  left of the file.  `HeaderMeansComplete` therefore says of a longer file only that its transfer came to its end, and that the size
  is its own if no read or write has failed.
* The announced size of a fetched file is only logged (`HttpFetch.cpp:69-77`); a response that the
  HTTP client ends short of it is stored as a whole file.  `fileLen` in the model is the length of what the response brings, so that
  "whole" means all that was received; a connection that breaks, which the client does report, is `DownloadFails`.
* One file per boot: the pool's pointer is never reset (`SingleBufferRamFileSystem.cpp:53` and `:20`).
* `seek` returns the old position, not the new one as `FileSystem.hpp:46` says (`SingleBufferRamFileSystem.cpp:113-116`).

The bridge, in `Bridge_all.cfg` as INVARIANTs:

* `DeliveredOnce`: `forwarded` is set by the first slice that is forwarded and never reset, so that what follows it
  in the chunk is delivered twice (`Receiver.cpp:156-177`).
* `OnlyForeignIsForwarded`: the first part of a request that a chunk splits is forwarded with the rest of the chunk; the help text
  in `Kconfig.projbuild` says "only if those messages are not addressed to ESP32".
* `ForeignIsForwarded`: a parser that has lost its place takes foreign bytes for a part of the request that follows.  It fails as
  well while the parser is in place: a frame that it does not take for a message (a dialect's that the chip does not know,
  say) falls into the slice of the next message, and is lost with it if the chip answers or consumes that one (`Unmarshalling.cpp:33`,
  `Dispatcher.cpp:111-129`).  `Kconfig.projbuild`, quoted above, would have it forwarded.  `StreamArrives` names these two losses and
  shows that there is no third.
* `SentIsComposed`: the heartbeat is packed by the timer's thread into the buffer that the work queue answers
  from, so that a delayed send or an answer goes out as a heartbeat, or the other way round (`Dispatcher.cpp:40`;
  `Dispatcher.cpp:45-47` and `Receiver.hpp:31-32` rely on the bridge for it, and `resp.mutex` is never locked).
* A full chunk is trashed even when the read for which it made room then returns nothing (`Task.cpp:50-60`, `:110-111`).
* UDP clients are never removed, and their number is not limited, although the configuration has options for both;
  its options for forwarding are not read either.

The camera; `CommandsCarriedOut` lists the first four as `Blocked`:

* A photograph or the web page deletes `dma_filter` while it notifies: the mutex of `NewFrame`, or of `Tracking`, is never
  given back (`camera.c:1450`).
* The frame task spins in `onFrameTrackerRunning` with `NewFrame`'s mutex held, for an update that is queued behind a
  command that waits for that mutex (`Tracking.hpp:36-37`; the comment at `mav/.../Tracking.cpp:190` suspects as much).
* A region that does not fit the frame makes the frame task restore the camera's size, that is delete itself while it holds
  the lock of `Ov2640` and the mutex of `NewFrame`.
* A stop of tracking that was never started compares a null format (`strcmp(nullptr, ...)`).
* A refused photograph size leaves the file open (`RecFrame.cpp:99-102`).
* The stop of tracking may come while `onFrameTrackerInit` runs; a switch to grayscale that was queued before the stop
  starts tracking again after it.  The snapshot is never reset.
* The timer's stop of a recording overlaps a start or stop in the work queue; the web page's switch of size overlaps a
  photograph (`overlap` in the model; most camera properties are stated for behaviours without it).
* `esp_camera_deinit` stops the bus before it takes the lock and before it looks for a null state (`camera.c:1442`);
  `esp_camera.h:158-165` promises `ESP_ERR_INVALID_STATE`.
* A power cut during a photograph leaves its size in NVS: the camera starts with it.
* The comparison with the limit of a format is off by one (`Ov2640.cpp:290`).
* `VIDEO_START` is always accepted (`mav/.../Camera.cpp:351-356`); a retransmitted capture request takes another
  photograph (`mav/.../Camera.cpp:434`); the region's height is computed from the wrong dimension (`Tracking.cpp:178-179`).
* `CamConfFailed` and `TrackerInitFirst` are never entered.

The sockets; the named ones in `TcpServer_all.cfg` as INVARIANTs:

* `ReportsAreSound`: events capture locals of the handler by reference and run after it has returned
  (`Api.cpp:168`, `:346`).
* `AnnouncedBeforeData`: data may arrive before the event that announces its connection.
* `NobodyIsLostSilently`: a connection that breaks cannot be found by its endpoints any more and stays in the table,
  deaf (`Api.cpp:351-353`); a CLOSE disconnects clients without reporting it.
* A failed accept locks the mutex twice and blocks the socket task for good (`Api.cpp:156-159`); a handler may go on with the reference of an
  erased socket or acceptor (`Api.cpp:172-176`, `:326`); a failed OPEN leaves a closed acceptor whose port the next
  search asks for, which panics (`Api.cpp:142`, `Container.impl:19`).  All three are `Blocked` in the model.
* SEND to a socket that does not exist answers SUCCESS (`Api.cpp:381-386`); `(kTcp << 1) & kIp6` is never true, so
  the transport is always taken for IPv4 (`GsNetwork.impl`); OPEN of a UDP port adds a rule for events that `onReceive` then
  does not take.
* `connect` blocks the polling thread with the mutex held, and asio's sockets are used by two threads without a lock.

Wi-Fi, which is not modelled (`wifi/wifi.cpp:177-227`): a static address waits without limit inside the work queue; an early
return leaves handlers registered with the address of a dead stack frame; a late DISCONNECTED fails a new attempt; event
ids are compared without their base.

`CHECK_DEADLOCK FALSE` stands where the system may really stop: an idle client that has used its bounded
uploads, pushers that make no more calls, fetches, commands and messages used up, or a state that blocks for good.

Each passing property has a mutant: a plausible bug in a mapped definition (kept next to it, under the
comment "Mutant" or with a suffix) that makes TLC report the property violated.

### Fairness

* `BftFtpClient!FairSpec`: weak fairness of the timer (`esp_timer` calls what is due), of delayed sends (the
  work queue runs what is pushed) and of the restart after a panic.  Nothing is assumed of the page, the link
  or the autopilot.  `AnsweringSpec` adds an autopilot that answers; it is used only to show that the
  session does not end even then.
* The assumption that the work queue runs what is pushed holds when pushers share its core and run below
  its priority.  `WorkQueue_one_core` checks that, and `WorkQueue_v_two_cores` shows that it fails
  otherwise; the client's liveness is to be read under the same condition.
* `WorkQueue!FairSpec`: the scheduler runs a task that is not suspended, and a thread inside a call.  No
  thread is assumed to call.
* `CameraSystem!FairSpec`: weak fairness of the frame task (frames keep coming) and of a reconfiguration in the web
  task, strong fairness of the work queue: it waits for the mutex of `NewFrame`, which the frame task gives back
  between two frames, and FreeRTOS hands a mutex to whoever has waited for it.
* `TcpServer!FairSpec`: weak fairness of the socket task and of the work queue.
* `Bridge!FairSpec`: weak fairness of the work queue only.

The two liveness properties with an escape `Blocked` say that nothing but the named causes stops the system.

## 4. The proofs

`BftFtpClientProofs` proves, for all values of the constants that meet the named assumptions
(`UploadAssumption`, `PeerAssumption`, `ClientAssumption`: positive bounds, a finite range of sequence
numbers, `MaxOffset = MaxPos`, at most one FETCH per boot), as theorems of `Spec`:

| theorem | property |
|---|---|
| `TypeCorrect` | `TypeOK` |
| `FileIsHeldWhileActive` | `FileHeldWhileActive` (no run: `ImplementsTransferSession` implies it) |
| `BufferIsReleased` | `BufferReleased` |
| `OutcomeIsReported` | `OutcomeReported` (no run: `ImplementsTransferSession` implies it, since in `TransferSession` a session is left without a report by a crash only) |
| `TimerStaysInSession` | `TimerOnlyInSession` |
| `CursorStaysInOrder` | `CursorOrder`, if `PageLeavesHeldFile` |
| `CursorOfOneUpload` | `CursorOrder`, if `MaxUploads <= 1` |
| `SessionHasRetry` | `ActiveSessionHasRetry`, if `Faults \subseteq {"nak"}` and there is one session |
| `ChunksMatchOffsets` | `ChunkMatchesOffset`, if `Prompt` and `PageLeavesHeldFile` |
| `AcknowledgedIsStored` | `AckedMeansStored`, if `Prompt` and `PageLeavesHeldFile` |

The argument for the first five is one inductive invariant, `SessionInv`, in two halves.  `TypeInv` is `TypeOK` with
`HandoversCounted`: the number of queued hand-overs stays in its range only because each was begun as an
upload.  `Session` joins the safety properties with `LateCallbackIsFresh`: when `onHrTimer` has been waiting
for the mutex while a message started the timer again, the attempts are counted from 0, so the late callback
cannot give up; without it, giving up could return to idle with the timer running.  Every action has a lemma
of its own for each half; the lemmas on the file operations (`SeekType`, `PutType` and their like) are stated
once.

`SessionStarted` is part of the invariant for the refinement: the late callback may find an ended session, and
that session has reported something, so that its second failure is a `LateFailure` and not a report of a session
that never was.

The pool has one cursor for the page that appends and the client that reads, so `CursorOrder` is a matter of who
uses the file.  `CursorInv` says that the page, as long as it has the file, is at its end (`PageAtEnd`), that a delayed send which
has copied a payload and is about to pass it still finds that payload ahead (`PastCopy`: a retry in between only goes
back), and that a delayed chunk belongs to the transfer that is under way, or to none (`AsyncOfTransfer`).  The hypothesis `PageLeavesHeldFile ==
[][UploadChunk => bftFile # "upload"]_vars` says of the page what the code does not ensure: a second upload that is received
while the client holds the first appends to it at the client's cursor, and TLC finds `CursorOrder` violated with
`MaxUploads = 2`.  `UploadsCounted` shows that with one upload in a boot the hypothesis holds by itself.  The
size the pool is opened with is the URL's, not the body's: that the file stays within its pool (`file.len <= file.cap`) rests on
the clamp of `append`, and that the cursor does not pass the file's end on the clamps of `read` and `seek`.

`SessionHasRetry` is about messages that outlive a session: `RetryInv` says that every request and answer on the link
names one of the autopilot's sessions (`WellMeant`, `Regarded`), so that `Disregard`, which stops the timer and starts
nothing, is never taken.  The hypotheses are needed.  With two session ids TLC finds a session without a retry even if
nobody misbehaves: the open request is resent, both are acknowledged with an id each, and the answers to the chunks of one of
them are disregarded.

Under `Prompt`, `PromptInv` says that one request at most is under way, in one of four places (`Queued`, `Formed`,
`Asked`, `Answered`), that it concerns the state the client is in, and that the chunk it names is the one the cursor has just
passed; an acknowledgement on its way means that the autopilot has stored all that the cursor has passed.  Since
`onHrTimer` then finds nothing under way (`timerCallback => Nothing`), it never pulls the cursor away from under a
message.

`BftFtpClientRefinement` proves `TransferIsImplemented == Spec => Transfer!Spec`.  Each lemma named after a step of
`TransferSession` (`Takes`, `Settles`, `Abandons`, `Closes`, `FailsLate`, `Crashes`, `Restarts`, and `Stays` for stuttering) says
what the client's own variables must do for it; one lemma per handler then sends each of its branches to one
of them, with `FileHeldWhileActive` for the file.

`MavBufferedTransferProofs` proves for `MavBufferedTransfer`, whose client is that abstract session, from
`FetchAssumption` only:

| theorem | property |
|---|---|
| `OpenFileHasMemory` | `OpenFileHasPool` |
| `ChunksAreStored` | `StoredIsReceived` |
| `OrdinaryFetchesAreSafe` | `OrdinaryUseIsSafe` |
| `TypeCorrect` | `TypeOK` |

Its inductive invariant `FetchInv` adds three facts: before the first file the pool's cursor is at 0
(`FreshPoolIsEmpty`), no file is being received between two responses (`StageFollowsDownload`), and in ordinary
use a name is in the union only until the first response, with nobody pointing at it (`OrdinaryName`).
The bounds of `TypeOK` need three more, `TypeInv`: a request that is waited for may be answered (`ResponsesLeft`), what a response
has brought and what it has yet to bring fit together (`BodyFits`), and a session is reported as its phase allows
(`ReportsOfPhase`), which bounds the reports to two.

`FlashTransferProofs` proves for any lengths of files and chunks and any sizes of the buffer, a page and a block, from
`FlashAssumption`:

| theorem | property |
|---|---|
| `TypeCorrect` | `TypeOK` |
| `FlushesInOrder` | `FlushedInOrder` |
| `MatchMeansStored` | `CrcMatchMeansStored` |
| `NonEmptyFileSafe` | `BufferedFileIntact`, of a stored file that is not empty |
| `StoredFileSafe` | `BufferedFileIntact`, if `0 \notin Lens` |
| `HeaderIsLast` | `HeaderMeansComplete`, if `0 \notin Lens` |
| `StoringImplementsStoredFile` | `StoringIsAtomic`, if every file is of 1 to `Cap` units and erases do not fail |

`FlashInv` follows the words of a file from the chunk to the flash.  `ChunkInFile`, `BufferPositions` and `NothingTwice` say
which words are in the buffer and that the flushed ones are those before them (`InOrder`).  Three conjuncts are about a file
that fits into the buffer (`Small`): it is flushed once, and a failed read or write ends it (`OneFlush`); between two pages the
address is the beginning of a page whose block is the one erased last or the next (`PageByPage`); and unless an erase has
failed, the words handed over are in the flash, its first cell is still erased, and so is the rest of the last block
(`PagesWritten`).  `HeaderLast` says that nothing counts as stored during a flush, and that, with nothing stored and no
failed erase, the first cell is not the size of any file.  `AddressCounts` and `SizeIsOfFile` are about files of any length: as long as
no read or write has failed the address counts the words that were handed over, so that the size computed from it is the
file's (`HeaderIsLast`, whose last conjunct, the payload itself, is for files within the buffer).  `Kept` follows a file that has been
stored through everything that comes later.  An empty file is the exception because no page is written for it: the
size that is computed from the address is that of a file of -1 (section 3, divergences).

`StoringImplementsStoredFile` maps a transfer to `StoredFile` through the cells of the flash alone: `Visible` is as many words as the
header says.  `SeesStored`, from `FlashInv` and `Kept`, identifies it with the history `stored`; then each step of the transfer is
one of `StoredFile` or changes nothing to be seen.  Dozens of page programs come to one `Store`, the header's; only the start of a
flush is a `MakeRoom`, and a file within the buffer is not flushed before all of it is here (`FlushedWhole`), so that a
broken download leaves the file before where it is.  The two conditions are needed: an empty file has no page (above), a
longer one is stored in several flushes that fall on wrong addresses (`FlashTransfer_v_large`), and a failed
erase is only logged (`FlashMemoryTransferImplementor.cpp:62-65`).

`WorkQueueProofs` proves for any number of pushers and calls, on one core or several, from `QueueAssumption`:

| theorem | property |
|---|---|
| `TypeCorrect` | `TypeOK` |
| `WaitsAreSound` | `WaitIsSound`, that is `FrameOutlivesTask` and `WaiterHasTask` |
| `TasksBeginInOrder` | `BegunInOrder` (no run: `TasksRunAsPushed` implies it) |
| `TasksAreRun` | `TasksRunAsPushed` |

`TypeInv` adds to the types that a pusher inside `resume()` has one to finish (`ResumesLeft`).  `FrameInv` adds `FrameOf(t)`:
of a thread's call there is one task at most that a thread waits for, wherever it is (queued, taken, run), and none once its semaphore has been
released; the frame is then in use exactly while the task exists.  `OrderInv` adds that a task is in the queue of
its priority (`PlacedByPrio`) and that the tasks of one pusher at one priority are queued in the order of
their calls (`InOrder`), which what the thread takes and pushes back cannot disturb.

`TasksAreRun` maps the three queues to the set of the tasks that are owed (`Owed`), the thread's task to the one that is run and
the calls on their semaphores to those who wait.  A set hides what a queue may get wrong, a task that is in it twice, so that the
proof needs `OwedOnce`: no task is twice in the queues, none is queued while it is run, and none is of a call still to come.
`FrameInv` gives the step in which a waiting call returns (its task is neither queued nor run), `OrderInv` the step in which a task is
taken (what is first in its queue is its thread's earliest of that priority).  `resume`, `suspend` and the flag between them change
nothing of this: the wake-up that is lost with several cores (section 3) delays tasks, and never loses or repeats one.

`TcpServerProofs` proves for any peers, commands, segments and failures, from `ServerAssumption`:

| theorem | property |
|---|---|
| `TypeCorrect` | `TypeOK` |
| `ConnectionsAreServed` | `EveryConnectionIsServed` |
| `ClosedPortsAreEmpty` | `ClosedPortIsEmpty` |
| `SocketsAreThere` | `SocketsOutliveHandlers` |

`ServerInv` joins the three properties with two facts: whom a handler is about, by where it is
(`HandlerIsOfItsPeer`), and that its reference is stale only after an overlapping command (`StaleIsKnown`).  A few lemmas say that
the queue holds one notification at most, and that taking or adding another task does not change that.

`CameraSystemProofs` proves for any number of commands and disturbances, any queue and any failures of the
environment, from `CameraAssumption`:

| theorem | property |
|---|---|
| `TypeCorrect` | `TypeOK` |
| `SpinEnds` | `SpinEndsUnlessDeleted` |
| `PhotoMutexIsKept` | `PhotoMutexSurvives` |
| `PhotosAreOfTheirSize` | `PhotoIsOfItsSize` |
| `RecordingsAreSafe` | `RecordingFileSafe` |
| `FormatIsRestored` | `FormatIsUsers` |

Its invariant `Inv` says, part by part, what holds at the places where a task has left something half done.
`FrameInPlace`: the frame task holds the key exactly between locking and unlocking it, and is there only while the
driver is.  `SpinInPlace`: no update is under way between "done" and the next push.  `RetInPlace`: what the work queue will do
after a reconfiguration, and that it has the snapshot or the size it needs for it.  `PhotoInPlace`: RecFrame subscribes
only while the work queue waits for the photograph, so the frame task holds `sync.mut` only then.  `SizeInPlace`: from the
reconfiguration until the restoration the camera has the photograph's size.  `AviInPlace`: the file is open while anybody may
write to it.  `PhotoInPlace`, `SizeInPlace` and `AviInPlace` hold as long as no two tasks use the camera, or the recorder, at once: `OverlapKnown` says
that the history variable `overlap` has noticed it if they did.

`FormatIsRestored` has an invariant of its own, `FormatInv`, on top: there is a snapshot before anybody asks for
grayscale, because only an initialized driver has frames (`driver => initialized`), and a frame is what asks; then each step out of the
states of a session either starts a restoration or, when it deletes the frame task that was about to restore, is an overlap.

`BridgeProofs` proves for any number of clients and messages, reads of any length and any number of the chip's own
messages, from `BridgeAssumption`:

| theorem | property |
|---|---|
| `TypeCorrect` | `TypeOK` |
| `NotifiedInOrder` | `ChunksInOrder` |
| `SentIsComposedOrBeat` | `SentAsComposed` |
| `StreamsArrive` | `StreamArrives` |

`BridgeInv` rests on `CallersWait`: whoever waits in `notifyAs` has one job, in the queue or in its cycle, and keeps its buffer
until then, so that a cycle's chunk does not change under it (`SliceInChunk`).  `UartInOrder` says that the full buffers hold later parts of the
stream than the one being processed, in order, whatever was trashed between them; `DatagramsInOrder` that a datagram is new
until its first turn is over (`Pending`).  `RespInUse` says what `resp.buffer` may hold: the composed answer from its packing to its sending, the
delayed message from the beginning of its cycle to the end, or the heartbeat that has overwritten either.

`StreamsArrive` has an invariant of its own, `StreamInv`, on top: `StreamArrives` speaks of the end of a notification only,
and `got` is filled slice by slice.  `BuffersIncrease` says that what is in a buffer is in the order of its stream, also where
a read ends within a message.  `StreamSoFar` says of the first `Done` pieces of the chunk, those the dispatcher has taken,
what `StreamArrives` says of all: what peers were sent comes from them (`OnlyFrom`), what is foreign or asks
has been sent on or answered (`AllOf`), in order.  Since `forwarded` is never reset, the proof has two ways to append to a stream:
a slice that nobody has seen, which is later than all there is (`OrderKeptByNew`), and one that is sent again,
all of it known (`OrderKeptByOld`, from `SentBefore`).  `OneMessage` says that a slice which completes a message
holds that message, and before it frames that were passed over and nothing else, unless a piece was out of place.  So what is lost
with an answered or consumed slice is a piece of such a frame (`SliceWithheld`, from `Withheld`), and nothing foreign.

Only model-checked: all liveness (`DoomedSessionsEnd`,
`PushesServed`, `CommandsCarriedOut`, `EventsAreReported`, `NotificationsReturn`), which is out of the prover's reach.

## 5. Not modelled, and why

* Vendored libraries and sensor drivers (most of `components/lib`), SPI and DMA below the operations the models use,
  the Wi-Fi and HTTP stacks: external or device I/O.  They are the larger half of the repository's lines.
* The MOSSE filter, AVI container, CRC tables, hash of names: computation without state that others see.
* UDP sockets and SEND of GsNetwork: they repeat the pattern of TCP with fewer states.
* Wi-Fi station and access point: connection attempts are sequences of ESP-IDF calls; what was found reading them is above.
* The web page's other camera commands: it also takes photographs and starts and stops recordings, from the HTTP server's task
  (`http/pages/control.cpp:135-175`).  `CameraSystem!WebTask` only switches the frame's size; photographs and recordings come
  from the work queue and the timer.
* Sends that wait: UDP and TCP datagrams are sent under the mutex of the sockets (`socket/Api.cpp:390-396`), which a failed accept keeps
  for good (`Api.cpp:156`).  `Bridge!Forward` and `SendOut` never wait; `TcpServer` has the mutex and its loss.
* A file whose partition is not found: the flash transfer then skips the flush (`FlashMemoryTransferImplementor.cpp:50-55`).  The only
  name that is ever fetched has a partition.
* Module parameters, publish/subscribe keys, the HTTP server's table of pages, the version, the UDP log: a field or a
  list each.  Keys are modelled where their users lock them.
* The camera thread and streamer: compiled out in the configuration modelled.
* The OTA path of the upload page: ESP-IDF's OTA calls one after the other.
* A negative result of `httpd_req_recv` in the upload page: it would put the contents of the stack into the
  model.  It is listed as a hazard.

## 6. What could come next

1. Opening a file in two steps, the test of `memoryPool` and the allocation, with the page and a FETCH at once
   (`SingleBufferRamFileSystem.cpp:20-34`): whose memory does `append` write to?
2. UDP in `TcpServer`; Wi-Fi station attempts and their events; module parameters with NVS.
3. Abstract specifications for the camera (a photograph, a recording) and for the socket commands, as there are for the
   FTP client, the flash and the work queue.
