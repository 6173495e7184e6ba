--------------------------- MODULE CameraSystem ---------------------------
(***************************************************************************)
(* What uses the camera: photographs (RecFrame), recordings (RecMjpgAvi),  *)
(* the tracker (Trk::Tracking) and the web page, driven by MAVLink         *)
(* commands that the work queue runs one after the other, by the HTTP      *)
(* server's task, by a timer and by the frames themselves.                 *)
(*                                                                         *)
(* Three mutexes matter: the NewFrame key's, held by dma_filter around the *)
(* subscribers and by whoever enables or disables a subscription; the      *)
(* driver's; and RecFrame's sync.mut.  The first two are in Camera.        *)
(***************************************************************************)
EXTENDS Camera, Sequences

CONSTANTS
  MaxCommands,  \* bound: commands that the ground station sends
  MaxQueue,     \* bound: tasks in the work queue
  WebSizes      \* frame sizes the web page asks for

ASSUME CameraAssumption ==
  /\ MaxCommands \in Nat
  /\ MaxQueue \in Nat \ {0}
  /\ WebSizes \subseteq Sizes
  /\ MaxDisturbances \in Nat
  /\ EnvFaults \subseteq Failures

VARIABLES
  queue,     \* tasks of the work queue at default priority
  updates,   \* tracker updates in the work queue, at their own priority
  photoOn,   \* RecFrame's NewFrame subscription is enabled
  photoFile, \* RecFrame::file
  photoMut,  \* RecFrame::sync.mut
  photoSem,  \* RecFrame::sync.sem
  aviOn,     \* RecMjpgAvi's NewFrame subscription is enabled
  avi,       \* what RecMjpgAvi::stat.fd points to: nothing, an open or a closed file
  state,     \* Tracking::state
  snapshot,  \* Tracking::CameraState::snapshot
  roiFits,   \* the region to track fits the frame
  spinlock,  \* Tracking::spinlock
  armed,     \* the 45 s timer of StopRecordingWifiDisconnectHandler
  sent,      \* commands sent (history, for the bound)
  photo,     \* what became of the last photograph (history)
  overlap    \* two tasks have used the camera, or the recorder, at once (history)

photoVars == <<photoOn, photoFile, photoMut, photoSem, photo>>
aviVars == <<aviOn, avi>>
trackVars == <<state, snapshot, roiFits, spinlock, updates>>
envVars == <<armed, sent, others>>
camera == <<cameraVars, key, pc, ret, fault, failures>>
vars == <<camera, queue, photoVars, aviVars, trackVars, envVars, overlap>>

Commands == {"photo", "recordStart", "recordStop", "track", "trackBadRoi", "trackStop"}

\* The tasks of the work queue: commands, and the tracker's request for grayscale frames
QueueTasks == Commands \cup {"camConf"}

\* Tracking::State, in the order that stateIsCameraConfigured relies on.  CamConfFailed and
\* TrackerInitFirst are never entered: no write of a known format fails.
States == {"Disabled", "CamConfStart", "TrackerInit", "TrackerRunningFirst", "TrackerRunning"}
Configured == {"TrackerInit", "TrackerRunningFirst", "TrackerRunning"}

NoSnapshot == [format |-> "none", size |-> 0]
Snapshots == [format : Formats, size : Sizes] \cup {NoSnapshot}

\* A photograph: the size to restore, and the size of the frame written (0: none)
NoPhoto == [prev |-> 0, written |-> 0]

\* Where each task is.  A stop of the recording and the reconfiguration have points that
\* several tasks pass.
ReinitPoints == {"stopBus", "deinit", "init", "startBus"}
StopPoints == {"recDisable", "recClose", "recNull"}
PhotoPoints == {"photoSize", "photoEnable", "photoWait", "photoDisable", "photoFinish",
                "photoRestore", "photoEnd"}
ApplyPoints == {"applyFormat", "applySize"}
WqPoints == {"idle", "recEnable"} \cup ReinitPoints \cup StopPoints \cup PhotoPoints \cup ApplyPoints
FramePoints == {"none", "idle", "received", "lock", "photo", "photoWrite", "avi", "aviWrite", "track",
                "trackInit", "trackFirst", "spin", "push", "unlock"} \cup ReinitPoints \cup ApplyPoints
Points == [wq : WqPoints, web : {"idle"} \cup ReinitPoints, timer : {"idle"} \cup StopPoints,
           frame : FramePoints]

\* Type invariant.  RecFrame's semaphore is binary, and the tracker has one update at most
\* in the work queue.
TypeOK ==
  /\ CameraTypeOK
  /\ pc \in Points
  /\ ret \in [Owners -> WqPoints]
  /\ fault \in {"none", "stopNull", "runNull", "twoFrameTasks", "assertFailed", "noAvi",
                "closedAvi", "closedTwice", "noSnapshot"}
  /\ queue \in Seq(QueueTasks) /\ Len(queue) <= MaxQueue
  /\ updates \in 0..1
  /\ photoOn \in BOOLEAN
  /\ photoFile \in {"none", "open"}
  /\ photoMut \in Holders
  /\ photoSem \in 0..1
  /\ photo \in [prev : Sizes \cup {0}, written : Sizes \cup {0}]
  /\ aviOn \in BOOLEAN
  /\ avi \in {"none", "open", "closed"}
  /\ state \in States
  /\ snapshot \in Snapshots
  /\ roiFits \in BOOLEAN
  /\ spinlock \in {"wait", "done"}
  /\ armed \in BOOLEAN
  /\ sent \in 0..MaxCommands
  /\ overlap \in BOOLEAN

Init ==
  /\ CameraInit
  /\ pc = [wq |-> "idle", web |-> "idle", timer |-> "idle", frame |-> "idle"]
  /\ queue = <<>>
  /\ updates = 0
  /\ photoOn = FALSE
  /\ photoFile = "none"
  /\ photoMut = "free"
  /\ photoSem = 0
  /\ photo = NoPhoto
  /\ aviOn = FALSE
  /\ avi = "none"
  /\ state = "Disabled"
  /\ snapshot = NoSnapshot
  /\ roiFits = FALSE
  /\ spinlock = "done"
  /\ armed = FALSE
  /\ sent = 0
  /\ overlap = FALSE
-----------------------------------------------------------------------------
(* The work queue runs one task at a time, to its end. *)

Enqueue(q, t) == IF Len(q) < MaxQueue THEN Append(q, t) ELSE q

\* The work queue begins with the next task
Begin(task) ==
  /\ pc["wq"] = "idle"
  /\ queue # <<>>
  /\ Head(queue) = task
  /\ queue' = Tail(queue)

\* A command that has no effect on the camera: it is answered, and that is all.
Answer(task) ==
  /\ Begin(task)
  /\ UNCHANGED <<camera, photoVars, aviVars, trackVars, envVars>>

-----------------------------------------------------------------------------
(* A photograph: RecFrame::start *)

\* The camera's frame size is read, and the file opened under sync.mut.
PhotoOpen ==
  /\ Begin("photo")
  /\ initialized
  /\ photoMut = "free"
  /\ photoFile' = "open"
  /\ photo' = [NoPhoto EXCEPT !.prev = mode]
  /\ Goto("wq", "photoSize")
  /\ UNCHANGED <<cameraVars, key, ret, fault, failures, photoOn, photoMut, photoSem,
                 aviVars, trackVars, envVars>>

\* No answer from the camera, or the file cannot be opened
PhotoFails ==
  \/ /\ ~initialized
     /\ Answer("photo")
  \/ /\ Begin("photo")
     /\ initialized
     /\ photoMut = "free"
     /\ MayFail("open")
     /\ failures' = failures \cup {"open"}
     /\ photoFile' = "none"
     /\ UNCHANGED <<cameraVars, key, pc, ret, fault, photoOn, photoMut, photoSem, photo,
                    aviVars, trackVars, envVars>>

\* Mutant: the subscription is enabled before the camera is switched to the photo's size.
PhotoSize_Later ==
  /\ pc["wq"] = "photoSize"
  /\ Goto("wq", "photoEnable")
  /\ UNCHANGED <<cameraVars, key, ret, fault, failures, photoVars, queue, aviVars, trackVars,
                 envVars>>

\* A refused size ends the call with the file left open.
PhotoSize ==
  /\ pc["wq"] = "photoSize"
  /\ SetSize("wq", Photo, "photoEnable") \/ SizeRefused("wq", Photo, "idle")
  /\ UNCHANGED <<photoVars, queue, aviVars, trackVars, envVars>>

\* key.setEnabled(on) waits for the key, and so for the subscribers of the current frame.
PhotoEnable ==
  /\ pc["wq"] = "photoEnable"
  /\ key = "free"
  /\ photoOn' = TRUE
  /\ Goto("wq", "photoWait")
  /\ UNCHANGED <<cameraVars, key, ret, fault, failures, photoFile, photoMut, photoSem, photo,
                 queue, aviVars, trackVars, envVars>>

\* Mutant: the size is restored before the subscription is disabled.
PhotoWait_Restores ==
  /\ pc["wq"] = "photoWait"
  /\ SetSize("wq", photo.prev, "photoDisable")
  /\ UNCHANGED <<photoVars, queue, aviVars, trackVars, envVars>>

\* sem.try_acquire_for(1 s): the semaphore is taken, or the time is over; the call goes on
\* in the same way.
PhotoWait ==
  /\ pc["wq"] = "photoWait"
  /\ photoSem' = 0
  /\ Goto("wq", "photoDisable")
  /\ UNCHANGED <<cameraVars, key, ret, fault, failures, photoOn, photoFile, photoMut, photo,
                 queue, aviVars, trackVars, envVars>>

PhotoDisable ==
  /\ pc["wq"] = "photoDisable"
  /\ key = "free"
  /\ photoOn' = FALSE
  /\ Goto("wq", "photoFinish")
  /\ UNCHANGED <<cameraVars, key, ret, fault, failures, photoFile, photoMut, photoSem, photo,
                 queue, aviVars, trackVars, envVars>>

\* The semaphore is reset.  From here to the end the call holds sync.mut.  If no frame has
\* come, getFrame() is asked for one: with hooks it has none, and the file is closed empty.
PhotoFinish ==
  /\ pc["wq"] = "photoFinish"
  /\ photoMut = "free"
  /\ photoSem' = 0
  /\ photoMut' = "wq"
  /\ photoFile' = "none"
  /\ Goto("wq", "photoRestore")
  /\ UNCHANGED <<cameraVars, key, ret, fault, failures, photoOn, photo, queue, aviVars,
                 trackVars, envVars>>

\* The previous size is set again; the answer is not looked at.
PhotoRestore ==
  /\ pc["wq"] = "photoRestore"
  /\ SetSize("wq", photo.prev, "photoEnd") \/ SizeRefused("wq", photo.prev, "photoEnd")
  /\ UNCHANGED <<photoVars, queue, aviVars, trackVars, envVars>>

PhotoEnd ==
  /\ pc["wq"] = "photoEnd"
  /\ photoMut' = "free"
  /\ photo' = [photo EXCEPT !.prev = 0]
  /\ Goto("wq", "idle")
  /\ UNCHANGED <<cameraVars, key, ret, fault, failures, photoOn, photoFile, photoSem, queue,
                  aviVars, trackVars, envVars>>
-----------------------------------------------------------------------------
(* Recordings: RecMjpgAvi and the MAVLink commands for it *)

\* VIDEO_START_CAPTURE is accepted whether or not the file could be opened.
RecordStart ==
  \/ /\ Begin("recordStart")
     /\ initialized
     /\ avi = "none"
     /\ \/ /\ avi' = "open"
           /\ Goto("wq", "recEnable")
           /\ UNCHANGED failures
        \/ /\ MayFail("open")
           /\ failures' = failures \cup {"open"}
           /\ UNCHANGED <<avi, pc>>
     /\ UNCHANGED <<cameraVars, key, ret, fault, photoVars, aviOn, trackVars, envVars>>
  \/ /\ ~initialized \/ avi # "none"
     /\ Answer("recordStart")

RecordEnable ==
  /\ pc["wq"] = "recEnable"
  /\ key = "free"
  /\ aviOn' = TRUE
  /\ Goto("wq", "idle")
  /\ UNCHANGED <<cameraVars, key, ret, fault, failures, queue, photoVars, avi, trackVars, envVars>>

\* VIDEO_STOP_CAPTURE
RecordStop ==
  \/ /\ Begin("recordStop")
     /\ initialized
     /\ avi # "none"
     /\ Goto("wq", "recDisable")
     /\ UNCHANGED <<cameraVars, key, ret, fault, failures, photoVars, aviVars, trackVars, envVars>>
  \/ /\ ~initialized \/ avi = "none"
     /\ Answer("recordStop")

\* Mutant: the file is closed without waiting for the frame being written.
StopDisable_NoLock(t) ==
  /\ pc[t] = "recDisable"
  /\ aviOn' = FALSE
  /\ Goto(t, "recClose")
  /\ UNCHANGED <<cameraVars, key, ret, fault, failures, queue, photoVars, avi, trackVars, envVars>>

\* RecMjpgAvi::stop, in the work queue or in the timer's task
StopDisable(t) ==
  /\ pc[t] = "recDisable"
  /\ key = "free"
  /\ aviOn' = FALSE
  /\ Goto(t, "recClose")
  /\ UNCHANGED <<cameraVars, key, ret, fault, failures, queue, photoVars, avi, trackVars, envVars>>

StopClose(t) ==
  /\ pc[t] = "recClose"
  /\ IF avi = "closed"
     THEN Panic("closedTwice") /\ UNCHANGED avi
     ELSE /\ avi' = IF avi = "open" THEN "closed" ELSE avi
          /\ Goto(t, "recNull")
          /\ UNCHANGED <<cameraVars, key, ret, fault, failures>>
  /\ UNCHANGED <<queue, photoVars, aviOn, trackVars, envVars>>

StopEnd(t) ==
  /\ pc[t] = "recNull"
  /\ avi' = "none"
  /\ Goto(t, "idle")
  /\ UNCHANGED <<cameraVars, key, ret, fault, failures, queue, photoVars, aviOn, trackVars, envVars>>

\* StopRecordingWifiDisconnectHandler: a disconnection starts the timer anew ...
WifiDisconnected ==
  /\ Quiet
  /\ others' = others + 1
  /\ armed' = TRUE
  /\ UNCHANGED <<camera, queue, photoVars, aviVars, trackVars, sent>>

\* ... and when it expires with no station connected, the recording is stopped.
TimerFires ==
  /\ pc["timer"] = "idle"
  /\ armed
  /\ armed' = FALSE
  /\ pc' \in {pc, [pc EXCEPT !["timer"] = "recDisable"]}
  /\ UNCHANGED <<cameraVars, key, ret, fault, failures, queue, photoVars, aviVars, trackVars,
                 sent, others>>
-----------------------------------------------------------------------------
(* The tracker: commands and its tasks in the work queue *)

\* Mutant: the snapshot is taken anew for every session.
snapshotInit_Anew(s) == IF initialized THEN [format |-> format, size |-> mode] ELSE s

\* CameraState::snapshotInit.  It succeeds once, and is never undone.
snapshotInit(s) ==
  IF s = NoSnapshot /\ initialized THEN [format |-> format, size |-> mode] ELSE s

\* CAMERA_TRACK_RECTANGLE: setFieldValueRoi.  The state is changed even if the snapshot or
\* the region has failed.
Track ==
  \E task \in {"track", "trackBadRoi"} :
    /\ Begin(task)
    /\ snapshot' = snapshotInit(snapshot)
    /\ roiFits' = IF initialized THEN task = "track" ELSE roiFits
    /\ state' = IF state \in Configured THEN "TrackerInit" ELSE "CamConfStart"
    /\ UNCHANGED <<camera, photoVars, aviVars, spinlock, updates, envVars>>

\* CAMERA_STOP_TRACKING: setFieldValueInitialized(false)
TrackStop ==
  \/ /\ Begin("trackStop")
     /\ state # "Disabled"
     /\ state' = "Disabled"
     /\ Goto("wq", "applyFormat")
     /\ UNCHANGED <<cameraVars, key, ret, fault, failures, photoVars, aviVars, snapshot,
                    roiFits, spinlock, updates, envVars>>
  \/ /\ state = "Disabled"
     /\ Answer("trackStop")

\* CameraState::apply: the format of the snapshot (strcmp of no string is a panic) ...
ApplyFormat(t) ==
  /\ pc[t] = "applyFormat"
  /\ IF snapshot = NoSnapshot
     THEN Panic("noSnapshot")
     ELSE SetFormat(t, snapshot.format, "applySize")
  /\ UNCHANGED <<queue, photoVars, aviVars, trackVars, envVars>>

\* ... and then its size.  dma_filter does not get here: it has deleted itself.
ApplySize ==
  /\ pc["wq"] = "applySize"
  /\ \/ SetSize("wq", snapshot.size, "idle")
     \/ SizeRefused("wq", snapshot.size, "idle")
  /\ UNCHANGED <<queue, photoVars, aviVars, trackVars, envVars>>

\* The task pushed by onFrameCamConfStart; the state changes whatever it is by now.
CamConf ==
  /\ Begin("camConf")
  /\ SetFormat("wq", "grayscale", "idle")
  /\ state' = "TrackerInit"
  /\ UNCHANGED <<photoVars, aviVars, snapshot, roiFits, spinlock, updates, envVars>>

\* Mutant: the update does not release the spinlock.
TrackerUpdate_NoRelease ==
  /\ pc["wq"] = "idle"
  /\ queue = <<>>
  /\ updates > 0
  /\ updates' = updates - 1
  /\ UNCHANGED <<camera, queue, photoVars, aviVars, state, snapshot, roiFits, spinlock,
                 envVars>>

\* The task pushed by onFrameTrackerRunning: run when the queue of the default priority,
\* which is looked at first, is empty.
TrackerUpdate ==
  /\ pc["wq"] = "idle"
  /\ queue = <<>>
  /\ updates > 0
  /\ updates' = updates - 1
  /\ spinlock' = "done"
  /\ UNCHANGED <<camera, queue, photoVars, aviVars, state, snapshot, roiFits, envVars>>
-----------------------------------------------------------------------------
(* dma_filter inside NewFrame::notify: RecFrame, RecMjpgAvi and the tracker in turn *)

\* RecFrame::onNewFrame takes sync.mut ...
FramePhoto ==
  /\ pc["frame"] = "photo"
  /\ IF photoOn
     THEN photoMut = "free" /\ photoMut' = "frame" /\ Goto("frame", "photoWrite")
     ELSE Goto("frame", "avi") /\ UNCHANGED photoMut
  /\ UNCHANGED <<cameraVars, key, ret, fault, failures, photoOn, photoFile, photoSem, photo,
                 queue, aviVars, trackVars, envVars>>

\* ... writes the first frame and closes the file, and releases the semaphore each time
FramePhotoWrite ==
  /\ pc["frame"] = "photoWrite"
  /\ photoFile' = "none"
  /\ photo' = IF photoFile = "open" THEN [photo EXCEPT !.written = mode] ELSE photo
  /\ photoSem' = 1
  /\ photoMut' = "free"
  /\ Goto("frame", "avi")
  /\ UNCHANGED <<cameraVars, key, ret, fault, failures, photoOn, queue, aviVars, trackVars, envVars>>

FrameAvi ==
  /\ pc["frame"] = "avi"
  /\ Goto("frame", IF aviOn THEN "aviWrite" ELSE "track")
  /\ UNCHANGED <<cameraVars, key, ret, fault, failures, queue, photoVars, aviVars, trackVars, envVars>>

\* RecMjpgAvi::onNewFrame writes through stat.fd, which it does not test.
FrameAviWrite ==
  /\ pc["frame"] = "aviWrite"
  /\ CASE avi = "none" -> Panic("noAvi")
       [] avi = "closed" -> Panic("closedAvi")
       [] avi = "open" -> Goto("frame", "track")
                          /\ UNCHANGED <<cameraVars, key, ret, fault, failures>>
  /\ UNCHANGED <<queue, photoVars, aviVars, trackVars, envVars>>

\* Tracking::onFrame switches on the state; what it does then comes later.
FrameTrack ==
  /\ pc["frame"] = "track"
  /\ snapshot' = IF state = "CamConfStart" THEN snapshotInit(snapshot) ELSE snapshot
  /\ queue' = IF state = "CamConfStart" THEN Enqueue(queue, "camConf") ELSE queue
  /\ Goto("frame", CASE state \in {"Disabled", "CamConfStart"} -> "unlock"
                     [] state = "TrackerInit" -> "trackInit"
                     [] state = "TrackerRunningFirst" -> "trackFirst"
                     [] state = "TrackerRunning" -> "spin")
  /\ UNCHANGED <<cameraVars, key, ret, fault, failures, photoVars, aviVars, state, roiFits,
                 spinlock, updates, envVars>>

\* onFrameTrackerInit restores the camera if the region does not fit the frame.
FrameTrackInit ==
  /\ pc["frame"] = "trackInit"
  /\ IF roiFits
     THEN state' = "TrackerRunningFirst" /\ Goto("frame", "unlock")
     ELSE state' = "Disabled" /\ Goto("frame", "applyFormat")
  /\ UNCHANGED <<cameraVars, key, ret, fault, failures, queue, photoVars, aviVars, snapshot,
                 roiFits, spinlock, updates, envVars>>

\* The first frame of the running tracker
FrameTrackFirst ==
  /\ pc["frame"] = "trackFirst"
  /\ state' = "TrackerRunning"
  /\ Goto("frame", "spin")
  /\ UNCHANGED <<cameraVars, key, ret, fault, failures, queue, photoVars, aviVars, snapshot,
                 roiFits, spinlock, updates, envVars>>

\* Mutant: the frame does not wait for the previous update.
FrameSpin_NoWait ==
  /\ pc["frame"] = "spin"
  /\ spinlock' = "wait"
  /\ Goto("frame", "push")
  /\ UNCHANGED <<cameraVars, key, ret, fault, failures, queue, photoVars, aviVars, state, snapshot,
                 roiFits, updates, envVars>>

\* onFrameTrackerRunning waits, busily, for the previous update ...
FrameSpin ==
  /\ pc["frame"] = "spin"
  /\ spinlock = "done"
  /\ spinlock' = "wait"
  /\ Goto("frame", "push")
  /\ UNCHANGED <<cameraVars, key, ret, fault, failures, queue, photoVars, aviVars, state, snapshot,
                 roiFits, updates, envVars>>

\* ... and pushes the next one
FramePush ==
  /\ pc["frame"] = "push"
  /\ updates' = updates + 1
  /\ Goto("frame", "unlock")
  /\ UNCHANGED <<cameraVars, key, ret, fault, failures, queue, photoVars, aviVars, state, snapshot,
                 roiFits, spinlock, envVars>>
-----------------------------------------------------------------------------
(* The ground station, the web page, and the whole *)

\* A command arrives: the bridge pushes it into the work queue.
Command ==
  \E c \in Commands :
    /\ sent < MaxCommands
    /\ Len(queue) < MaxQueue
    /\ sent' = sent + 1
    /\ queue' = Append(queue, c)
    /\ UNCHANGED <<camera, photoVars, aviVars, trackVars, armed, others>>

\* processCameraResolution, in the HTTP server's task
WebResolution ==
  \E s \in WebSizes :
    /\ pc["web"] = "idle"
    /\ Quiet
    /\ others' = others + 1
    /\ SetSize("web", s, "idle") \/ SizeRefused("web", s, "idle")
    /\ UNCHANGED <<queue, photoVars, aviVars, trackVars, armed, sent>>

\* The reconfiguration in task t.  Deleting dma_filter may leave RecFrame's mutex behind too.
Reconfigure(t) ==
  /\ \/ (StopBus(t) \/ InitDriver(t) \/ StartBus(t)) /\ UNCHANGED photoMut
     \/ Deinit(t) /\ photoMut' = Orphan(photoMut)
  /\ UNCHANGED <<photoOn, photoFile, photoSem, photo, queue, aviVars, trackVars, envVars>>

DmaFilter ==
  \/ /\ FrameReceived \/ FrameDone \/ LockKey("photo") \/ UnlockKey
     /\ UNCHANGED <<queue, photoVars, aviVars, trackVars, envVars>>
  \/ FramePhoto
  \/ FramePhotoWrite
  \/ FrameAvi
  \/ FrameAviWrite
  \/ FrameTrack
  \/ FrameTrackInit
  \/ FrameTrackFirst
  \/ FrameSpin
  \/ FramePush
  \/ ApplyFormat("frame")
  \/ Reconfigure("frame")

\* The work queue's task, in a command ...
WqCommand ==
  \/ PhotoOpen \/ PhotoFails \/ PhotoSize \/ PhotoEnable \/ PhotoWait \/ PhotoDisable
  \/ PhotoFinish \/ PhotoRestore \/ PhotoEnd
  \/ RecordStart \/ RecordEnable \/ RecordStop
  \/ StopDisable("wq") \/ StopClose("wq") \/ StopEnd("wq")
  \/ Track \/ TrackStop \/ ApplyFormat("wq") \/ ApplySize
  \/ CamConf
  \/ Reconfigure("wq")

\* ... or in an update of the tracker
WqTask == WqCommand \/ TrackerUpdate

Timer == TimerFires \/ StopDisable("timer") \/ StopClose("timer") \/ StopEnd("timer")

WebTask == WebResolution \/ Reconfigure("web")

\* A task that reconfigures the camera or makes a photograph uses it; a task that starts or
\* stops a recording uses the recorder.
UsesCamera(p) ==
  {t \in DOMAIN p : p[t] \in ReinitPoints \cup PhotoPoints \cup ApplyPoints}
UsesRecorder(p) == {t \in DOMAIN p : p[t] \in StopPoints \cup {"recEnable"}}

Step(A) ==
  /\ fault = "none"
  /\ A
  /\ overlap' = (\/ overlap
                 \/ Cardinality(UsesCamera(pc')) > 1
                 \/ Cardinality(UsesRecorder(pc')) > 1)

Next ==
  \/ Step(Command)
  \/ Step(WifiDisconnected)
  \/ Step(WebTask)
  \/ Step(Timer)
  \/ Step(WqTask)
  \/ Step(DmaFilter)

Spec == Init /\ [][Next]_vars

\* Every task goes on while it can.  The work queue is strongly fair: it waits for the key,
\* which dma_filter gives back between two frames.
FairSpec ==
  /\ Spec
  /\ SF_vars(Step(WqTask))
  /\ WF_vars(Step(DmaFilter))
  /\ WF_vars(Step(Reconfigure("web")))
-----------------------------------------------------------------------------
(* Properties.  Most say "unless two tasks have used the camera, or the recorder, at once". *)

\* dma_filter is never deleted while it writes a photograph, where it holds sync.mut: the
\* size is only switched while RecFrame's subscription is disabled, and disabling waits.
PhotoMutexSurvives == ~overlap => photoMut # "deleted"

\* A photograph is a frame of the photo's size, never one of the stream before it.
PhotoIsOfItsSize == ~overlap => photo.written \in {0, Photo}

\* The user gets his format back: the camera is in grayscale mode only while there is a
\* tracking session, or while its end is about to restore the format, and what it restores is
\* never the format that the tracker set itself, in however many sessions.
FormatIsUsers ==
  /\ ~overlap /\ format = "grayscale" =>
       state \in Configured \/ "applyFormat" \in {pc["wq"], pc["frame"]}
  /\ snapshot.format # "grayscale"

\* A recording's frames are written to an open file, and the file is closed once.
RecordingFileSafe == ~overlap => fault \notin {"noAvi", "closedAvi", "closedTwice"}

\* dma_filter's busy wait has an update to wait for, unless a task was deleted between the
\* two statements that set the spinlock and push the update.
SpinEndsUnlessDeleted ==
  spinlock = "wait" => updates = 1 \/ pc["frame"] = "push" \/ key = "deleted"

\* The ways in which the work queue stops for good: a panic; a mutex of a deleted task; and
\* dma_filter waiting for a tracker update that is queued behind a command waiting for the
\* key dma_filter holds.
Blocked ==
  \/ fault # "none"
  \/ "deleted" \in {key, photoMut, stateLock}
  \/ /\ pc["frame"] = "spin"
     /\ spinlock = "wait"
     /\ pc["wq"] \in {"photoEnable", "photoDisable", "recEnable", "recDisable"}

\* There is no other: every command that arrives is carried out.
CommandsCarriedOut ==
  queue # <<>> \/ pc["wq"] # "idle" ~> (queue = <<>> /\ pc["wq"] = "idle") \/ Blocked
=============================================================================
