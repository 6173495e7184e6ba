------------------------- MODULE CameraSystemProofs -------------------------
(***************************************************************************)
(* Theorems about CameraSystem, for any number of commands and             *)
(* disturbances, any length of the work queue and any of the failures.     *)
(*                                                                         *)
(* One inductive invariant, Inv, has a part per concern; each part says    *)
(* what holds at the places where a task has left something half done.     *)
(* A second one, FormatInv, which builds on it, is about the user's        *)
(* format.                                                                 *)
(***************************************************************************)
EXTENDS CameraSystem, FiniteSetTheorems, TLAPS

Tasks == {"wq", "web", "timer", "frame"}

PlacesOf == [wq |-> WqPoints, web |-> {"idle"} \cup ReinitPoints, timer |-> {"idle"} \cup StopPoints,
             frame |-> FramePoints]

CameraPoints == ReinitPoints \cup PhotoPoints \cup ApplyPoints
RecorderPoints == StopPoints \cup {"recEnable"}

Faults == {"none", "stopNull", "runNull", "twoFrameTasks", "assertFailed", "noAvi", "closedAvi",
           "closedTwice", "noSnapshot"}
-----------------------------------------------------------------------------
(* The inductive invariant *)

\* TypeOK but for pc and overlap; the web page has nothing to do after a reconfiguration.
Typed ==
  /\ CameraTypeOK
  /\ ret \in [Owners -> WqPoints] /\ ret["web"] = "idle"
  /\ fault \in Faults
  /\ queue \in Seq(QueueTasks) /\ Len(queue) <= MaxQueue
  /\ updates \in 0..1
  /\ photoOn \in BOOLEAN
  /\ photoFile \in {"none", "open"}
  /\ photoMut \in Holders
  /\ photoSem \in 0..1
  /\ photo \in [prev : Sizes \cup {0}, written : Sizes \cup {0}]
  /\ aviOn \in BOOLEAN
  /\ avi \in {"none", "open", "closed"}
  /\ state \in States
  /\ snapshot \in Snapshots
  /\ roiFits \in BOOLEAN
  /\ spinlock \in {"wait", "done"}
  /\ armed \in BOOLEAN
  /\ sent \in 0..MaxCommands

\* Where dma_filter is when it holds the key of NewFrame
Notifying == {"photo", "photoWrite", "avi", "aviWrite", "track", "trackInit", "trackFirst", "spin",
              "push", "unlock", "applyFormat", "stopBus", "deinit"}

\* It is there while the driver is, and does not outlive its own call of esp_camera_deinit.
FrameInPlace ==
  /\ pc["frame"] \in {"none", "idle", "received", "lock"} \cup Notifying
  /\ pc["frame"] \in Notifying <=> key = "frame"
  /\ ~driver => pc["frame"] = "none"

\* There is no update between "done" and the next push, nor while that is under way.
SpinInPlace ==
  /\ spinlock = "done" => updates = 0
  /\ pc["frame"] = "push" => spinlock = "wait" /\ updates = 0
  /\ SpinEndsUnlessDeleted

\* What the work queue does after a reconfiguration, and what it needs to have for it
RetInPlace ==
  /\ ret["wq"] \in {"idle", "photoEnable", "photoEnd", "applySize"}
  /\ ret["wq"] # "idle" => pc["wq"] \in ReinitPoints
  /\ "applySize" \in {pc["wq"], ret["wq"]} => snapshot # NoSnapshot
  /\ \/ pc["wq"] \in PhotoPoints \ {"photoEnd"}
     \/ ret["wq"] = "photoEnable"
     => photo.prev # 0

\* The subscription is enabled only while the work queue waits for the photograph.
PhotoInPlace ==
  /\ photoOn => pc["wq"] \in {"photoWait", "photoDisable"}
  /\ pc["frame"] = "photoWrite" => photoOn
  /\ photoMut = "frame" => pc["frame"] = "photoWrite"
  /\ PhotoMutexSurvives

\* From the reconfiguration on the camera has the photograph's size.
SizeInPlace ==
  ~overlap =>
    /\ pc["wq"] \in {"photoEnable", "photoWait", "photoDisable"} => mode = Photo
    /\ ret["wq"] = "photoEnable" => /\ nvs = Photo /\ format = "jpeg"
                                    /\ pc["wq"] = "startBus" => mode = Photo
    /\ photo.written \in {0, Photo}

\* The file of a recording is open while anybody writes to it.
AviInPlace ==
  /\ pc["frame"] = "aviWrite" => aviOn
  /\ ~overlap =>
       /\ aviOn \/ pc["wq"] = "recEnable" => avi = "open"
       /\ \A t \in {"wq", "timer"} : pc[t] \in {"recClose", "recNull"} => ~aviOn
       /\ avi = "closed" => \E t \in {"wq", "timer"} : pc[t] = "recNull"
  /\ RecordingFileSafe

\* Two tasks among the places of the camera, or of the recorder, have been noticed.
OverlapKnown ==
  \A t, u \in Tasks :
    /\ t # u
    /\ \/ pc[t] \in CameraPoints /\ pc[u] \in CameraPoints
       \/ pc[t] \in RecorderPoints /\ pc[u] \in RecorderPoints
    => overlap

Inv ==
  /\ pc \in Points /\ overlap \in BOOLEAN
  /\ Typed
  /\ FrameInPlace
  /\ SpinInPlace
  /\ RetInPlace
  /\ PhotoInPlace
  /\ SizeInPlace
  /\ AviInPlace
  /\ OverlapKnown
-----------------------------------------------------------------------------
(* Moves, and how overlapping tasks are noticed *)

\* Task t goes to a place of its own, the others stay.
Moved(t, to) ==
  /\ pc' \in Points
  /\ pc'[t] = to
  /\ \A u \in Tasks \ {t} : pc'[u] = pc[u]

\* Goto moves one task, and no other.
LEMMA GotoMoves ==
  ASSUME pc \in Points, NEW t \in Tasks, NEW to \in PlacesOf[t], Goto(t, to)
  PROVE  Moved(t, to)
<1>1. CASE t = "wq"
  BY <1>1 DEF Moved, Tasks, Points, PlacesOf, Goto
<1>2. CASE t = "web"
  BY <1>2 DEF Moved, Tasks, Points, PlacesOf, Goto
<1>3. CASE t = "timer"
  BY <1>3 DEF Moved, Tasks, Points, PlacesOf, Goto
<1>4. CASE t = "frame"
  BY <1>4 DEF Moved, Tasks, Points, PlacesOf, Goto
<1>5. QED  BY <1>1, <1>2, <1>3, <1>4 DEF Tasks

LEMMA WqGoes ==
  ASSUME pc \in Points, NEW to \in WqPoints, Goto("wq", to)
  PROVE  Moved("wq", to)
<1>1. "wq" \in Tasks /\ to \in PlacesOf["wq"]
  BY DEF Tasks, PlacesOf
<1>2. QED  BY <1>1, GotoMoves

LEMMA FrameGoes ==
  ASSUME pc \in Points, NEW to \in FramePoints, Goto("frame", to)
  PROVE  Moved("frame", to)
<1>1. "frame" \in Tasks /\ to \in PlacesOf["frame"]
  BY DEF Tasks, PlacesOf
<1>2. QED  BY <1>1, GotoMoves

LEMMA TasksFinite == IsFiniteSet(Tasks)
<1>1. IsFiniteSet({"wq"})
  BY FS_Singleton
<1>2. IsFiniteSet({"wq"} \cup {"web"})
  BY <1>1, FS_AddElement
<1>3. IsFiniteSet(({"wq"} \cup {"web"}) \cup {"timer"})
  BY <1>2, FS_AddElement
<1>4. IsFiniteSet((({"wq"} \cup {"web"}) \cup {"timer"}) \cup {"frame"})
  BY <1>3, FS_AddElement
<1>5. Tasks = (({"wq"} \cup {"web"}) \cup {"timer"}) \cup {"frame"}
  BY DEF Tasks
<1>6. QED  BY <1>4, <1>5

\* Two different tasks in a set of tasks make it larger than one.
LEMMA TwoAreMany ==
  ASSUME NEW S \in SUBSET Tasks, NEW t \in S, NEW u \in S, t # u
  PROVE  Cardinality(S) > 1
<1>1. IsFiniteSet({t}) /\ Cardinality({t}) = 1
  BY FS_Singleton
<1>2. IsFiniteSet({t} \cup {u}) /\ Cardinality({t} \cup {u}) = 2
  <2>1. u \notin {t}
    OBVIOUS
  <2>2. Cardinality({t} \cup {u}) = Cardinality({t}) + 1
    BY <1>1, <2>1, FS_AddElement
  <2>3. IsFiniteSet({t} \cup {u})
    BY <1>1, FS_AddElement, Zenon
  <2>4. QED  BY <1>1, <2>2, <2>3
<1>3. IsFiniteSet(S)
  BY TasksFinite, FS_Subset
<1>4. ({t} \cup {u}) \in SUBSET S
  OBVIOUS
<1>5. Cardinality({t} \cup {u}) <= Cardinality(S) /\ Cardinality(S) \in Nat
  BY <1>3, <1>4, FS_Subset, FS_CardinalityType
<1>6. QED  BY <1>2, <1>5

\* What Step does to the history variable overlap
Counted ==
  overlap' = (\/ overlap
              \/ Cardinality(UsesCamera(pc')) > 1
              \/ Cardinality(UsesRecorder(pc')) > 1)

Noticed == overlap' \in BOOLEAN /\ (overlap => overlap') /\ OverlapKnown'

LEMMA Noticing ==
  ASSUME Counted, pc' \in Points, overlap \in BOOLEAN
  PROVE  Noticed
<1>1. overlap' \in BOOLEAN /\ (overlap => overlap')
  BY Zenon DEF Counted
<1>2. Cardinality(UsesCamera(pc')) > 1 \/ Cardinality(UsesRecorder(pc')) > 1 => overlap'
  BY Zenon DEF Counted
<1>3. DOMAIN pc' = Tasks
  BY DEF Points, Tasks
<1>4. UsesCamera(pc') \in SUBSET Tasks /\ UsesRecorder(pc') \in SUBSET Tasks
  BY <1>3 DEF UsesCamera, UsesRecorder
<1>5. ASSUME NEW t \in Tasks, NEW u \in Tasks, t # u,
             pc'[t] \in CameraPoints, pc'[u] \in CameraPoints
      PROVE  overlap'
  <2>1. t \in UsesCamera(pc') /\ u \in UsesCamera(pc')
    BY <1>3, <1>5 DEF UsesCamera, CameraPoints
  <2>2. QED  BY <1>2, <1>4, <1>5, <2>1, TwoAreMany
<1>6. ASSUME NEW t \in Tasks, NEW u \in Tasks, t # u,
             pc'[t] \in RecorderPoints, pc'[u] \in RecorderPoints
      PROVE  overlap'
  <2>1. t \in UsesRecorder(pc') /\ u \in UsesRecorder(pc')
    BY <1>3, <1>6 DEF UsesRecorder, RecorderPoints
  <2>2. QED  BY <1>2, <1>4, <1>6, <2>1, TwoAreMany
<1>7. OverlapKnown'
  BY <1>5, <1>6 DEF OverlapKnown
<1>8. QED  BY <1>1, <1>7 DEF Noticed
-----------------------------------------------------------------------------
(* Each step.  A lemma per action: where the task goes, whether an overlap is noticed, and then
   the parts of the invariant; Rest is what a step of Camera leaves alone. *)

USE CameraAssumption
USE DEF cameraVars, photoVars, aviVars, trackVars, envVars, camera, Typed, CameraTypeOK, Sizes,
        Small, Usual, Photo, Huge, Formats, Holders, Failures, Faults, Owners, Tasks, Moved,
        NoPhoto, States, Snapshots, NoSnapshot, WqPoints, PhotoPoints, FramePoints, ReinitPoints,
        StopPoints, ApplyPoints, CameraPoints, RecorderPoints, Notifying

\* There is room for another disturbance.
LEMMA QuietRoom ==
  ASSUME Typed, Quiet
  PROVE  others + 1 \in 0..MaxDisturbances
<1>1. IsFiniteSet({"init"} \cup {"nvs"})
  BY FS_Singleton, FS_AddElement
<1>2. IsFiniteSet(({"init"} \cup {"nvs"}) \cup {"vsync"})
  BY <1>1, FS_AddElement
<1>3. IsFiniteSet((({"init"} \cup {"nvs"}) \cup {"vsync"}) \cup {"open"})
  BY <1>2, FS_AddElement
<1>4. Failures = (({"init"} \cup {"nvs"}) \cup {"vsync"}) \cup {"open"}
  OBVIOUS
<1>5. IsFiniteSet(failures)
  BY <1>3, <1>4, FS_Subset
<1>6. Cardinality(failures) \in Nat
  BY <1>5, FS_CardinalityType
<1>7. QED  BY <1>6 DEF Quiet

LEMMA BeginTypes ==
  ASSUME Typed, NEW task, Begin(task)
  PROVE  queue' \in Seq(QueueTasks) /\ Len(queue') <= MaxQueue /\ pc["wq"] = "idle"
BY DEF Begin

LEMMA WebGoes ==
  ASSUME pc \in Points, NEW to \in {"idle"} \cup ReinitPoints, Goto("web", to)
  PROVE  Moved("web", to)
<1>1. "web" \in Tasks /\ to \in PlacesOf["web"]
  BY DEF PlacesOf
<1>2. QED  BY <1>1, GotoMoves

LEMMA TimerGoes ==
  ASSUME pc \in Points, NEW to \in {"idle"} \cup StopPoints, Goto("timer", to)
  PROVE  Moved("timer", to)
<1>1. "timer" \in Tasks /\ to \in PlacesOf["timer"]
  BY DEF PlacesOf
<1>2. QED  BY <1>1, GotoMoves

\* A step that does not touch what a part of the invariant is about keeps that part.
LEMMA RetStays ==
  ASSUME Inv, UNCHANGED <<ret, photo>>, pc'["wq"] = pc["wq"],
         snapshot # NoSnapshot => snapshot' # NoSnapshot
  PROVE  RetInPlace'
BY DEF Inv, RetInPlace

LEMMA PhotoStays ==
  ASSUME Inv, Noticed, UNCHANGED <<photoOn, photoMut>>,
         pc'["frame"] = "photoWrite" <=> pc["frame"] = "photoWrite",
         pc["wq"] \in {"photoWait", "photoDisable"} =>
           pc'["wq"] \in {"photoWait", "photoDisable"}
  PROVE  PhotoInPlace'
BY DEF Inv, PhotoInPlace, PhotoMutexSurvives, Noticed

LEMMA SizeStays ==
  ASSUME Inv, Noticed, UNCHANGED <<mode, nvs, format, ret, photo>>, pc'["wq"] = pc["wq"]
  PROVE  SizeInPlace'
BY DEF Inv, SizeInPlace, Noticed

LEMMA AviStays ==
  ASSUME Inv, Noticed, UNCHANGED <<aviOn, avi, fault>>,
         pc'["frame"] = "aviWrite" => pc["frame"] = "aviWrite",
         \A u \in {"wq", "timer"} :
           /\ pc'[u] \in {"recClose", "recNull", "recEnable"} => pc'[u] = pc[u]
           /\ pc[u] = "recNull" => pc'[u] = "recNull"
  PROVE  AviInPlace'
BY DEF Inv, AviInPlace, RecordingFileSafe, Noticed

Rest == <<queue, photoVars, aviVars, trackVars, envVars>>

\* A panic stops everything where it is.
LEMMA PanicKeeps ==
  ASSUME Inv, fault = "none", NEW what \in Faults, Panic(what), UNCHANGED Rest,
         ~overlap => what \notin {"noAvi", "closedAvi", "closedTwice"}, Counted
  PROVE  Inv'
<1>1. pc' = pc /\ pc' \in Points
  BY DEF Inv, Panic, Rest
<1>2. Noticed
  BY <1>1, Noticing DEF Inv
<1>3. FrameInPlace' /\ SpinInPlace'
  BY <1>1 DEF Inv, Panic, Rest, FrameInPlace, SpinInPlace, SpinEndsUnlessDeleted
<1>4. Typed'
  BY <1>1, <1>3, BeginTypes, QuietRoom DEF Inv, SpinInPlace, RetInPlace, Panic, Rest
<1>5. RetInPlace' /\ PhotoInPlace'
  BY <1>1, <1>2 DEF Inv, Panic, Rest, FrameInPlace, RetInPlace, PhotoInPlace, PhotoMutexSurvives,
     Noticed, OverlapKnown
<1>6. SizeInPlace'
  BY <1>1, <1>2 DEF Inv, Panic, Rest, FrameInPlace, RetInPlace, PhotoInPlace, SizeInPlace, Noticed,
     OverlapKnown
<1>7. AviInPlace'
  BY <1>1, <1>2, <1>3 DEF Inv, Panic, Rest, FrameInPlace, RetInPlace, AviInPlace, RecordingFileSafe,
     Noticed, OverlapKnown
<1>8. QED  BY <1>1, <1>2, <1>3, <1>4, <1>5, <1>6, <1>7 DEF Inv, Noticed

LEMMA AnswerKeeps ==
  ASSUME Inv, fault = "none", NEW task, Answer(task), Counted
  PROVE  Inv'
<1>1. pc' = pc /\ pc' \in Points
  BY DEF Inv, Answer, Begin
<1>2. Noticed
  BY <1>1, Noticing DEF Inv
<1>3. FrameInPlace' /\ SpinInPlace'
  BY <1>1 DEF Inv, Answer, Begin, FrameInPlace, SpinInPlace, SpinEndsUnlessDeleted
<1>4. Typed'
  BY <1>1, <1>3, BeginTypes, QuietRoom DEF Inv, SpinInPlace, RetInPlace, Answer, Begin
<1>5. RetInPlace' /\ PhotoInPlace'
  BY <1>1, <1>2, RetStays, PhotoStays DEF Answer, Begin
<1>6. SizeInPlace'
  BY <1>1, <1>2, SizeStays DEF Answer, Begin
<1>7. AviInPlace'
  BY <1>1, <1>2, <1>3, AviStays DEF Answer, Begin
<1>8. QED  BY <1>1, <1>2, <1>3, <1>4, <1>5, <1>6, <1>7 DEF Inv, Noticed

LEMMA PhotoOpenKeeps ==
  ASSUME Inv, fault = "none", PhotoOpen, Counted
  PROVE  Inv'
<1>1. Moved("wq", "photoSize")
  BY WqGoes DEF Inv, PhotoOpen, Begin
<1>2. Noticed
  BY <1>1, Noticing DEF Inv
<1>3. FrameInPlace' /\ SpinInPlace'
  BY <1>1 DEF Inv, PhotoOpen, Begin, FrameInPlace, SpinInPlace, SpinEndsUnlessDeleted
<1>4. Typed'
  BY <1>1, <1>3, BeginTypes, QuietRoom DEF Inv, SpinInPlace, RetInPlace, PhotoOpen, Begin
<1>5. RetInPlace' /\ PhotoInPlace'
  BY <1>1, <1>2 DEF Inv, PhotoOpen, Begin, FrameInPlace, RetInPlace, PhotoInPlace,
     PhotoMutexSurvives, Noticed, OverlapKnown
<1>6. SizeInPlace'
  BY <1>1, <1>2 DEF Inv, PhotoOpen, Begin, FrameInPlace, RetInPlace, PhotoInPlace, SizeInPlace,
     Noticed, OverlapKnown
<1>7. AviInPlace'
  BY <1>1, <1>2, <1>3, AviStays DEF PhotoOpen, Begin
<1>8. QED  BY <1>1, <1>2, <1>3, <1>4, <1>5, <1>6, <1>7 DEF Inv, Noticed

LEMMA PhotoEnableKeeps ==
  ASSUME Inv, fault = "none", PhotoEnable, Counted
  PROVE  Inv'
<1>1. Moved("wq", "photoWait")
  BY WqGoes DEF Inv, PhotoEnable, Begin
<1>2. Noticed
  BY <1>1, Noticing DEF Inv
<1>3. FrameInPlace' /\ SpinInPlace'
  BY <1>1 DEF Inv, PhotoEnable, Begin, FrameInPlace, SpinInPlace, SpinEndsUnlessDeleted
<1>4. photoOn' \in BOOLEAN
  BY Zenon DEF Inv, PhotoEnable, Begin
<1>5. Typed'
  BY <1>1, <1>3, <1>4, BeginTypes, QuietRoom DEF Inv, SpinInPlace, RetInPlace, PhotoEnable, Begin
<1>6. RetInPlace' /\ PhotoInPlace'
  BY <1>1, <1>2 DEF Inv, PhotoEnable, Begin, FrameInPlace, RetInPlace, PhotoInPlace,
     PhotoMutexSurvives, Noticed, OverlapKnown
<1>7. SizeInPlace'
  BY <1>1, <1>2 DEF Inv, PhotoEnable, Begin, FrameInPlace, RetInPlace, PhotoInPlace, SizeInPlace,
     Noticed, OverlapKnown
<1>8. AviInPlace'
  BY <1>1, <1>2, <1>3, AviStays DEF PhotoEnable, Begin
<1>9. QED  BY <1>1, <1>2, <1>3, <1>5, <1>6, <1>7, <1>8 DEF Inv, Noticed

LEMMA PhotoWaitKeeps ==
  ASSUME Inv, fault = "none", PhotoWait, Counted
  PROVE  Inv'
<1>1. Moved("wq", "photoDisable")
  BY WqGoes DEF Inv, PhotoWait, Begin
<1>2. Noticed
  BY <1>1, Noticing DEF Inv
<1>3. FrameInPlace' /\ SpinInPlace'
  BY <1>1 DEF Inv, PhotoWait, Begin, FrameInPlace, SpinInPlace, SpinEndsUnlessDeleted
<1>4. Typed'
  BY <1>1, <1>3, BeginTypes, QuietRoom DEF Inv, SpinInPlace, RetInPlace, PhotoWait, Begin
<1>5. RetInPlace' /\ PhotoInPlace'
  BY <1>1, <1>2 DEF Inv, PhotoWait, Begin, FrameInPlace, RetInPlace, PhotoInPlace,
     PhotoMutexSurvives, Noticed, OverlapKnown
<1>6. SizeInPlace'
  BY <1>1, <1>2 DEF Inv, PhotoWait, Begin, FrameInPlace, RetInPlace, PhotoInPlace, SizeInPlace,
     Noticed, OverlapKnown
<1>7. AviInPlace'
  BY <1>1, <1>2, <1>3, AviStays DEF PhotoWait, Begin
<1>8. QED  BY <1>1, <1>2, <1>3, <1>4, <1>5, <1>6, <1>7 DEF Inv, Noticed

LEMMA PhotoDisableKeeps ==
  ASSUME Inv, fault = "none", PhotoDisable, Counted
  PROVE  Inv'
<1>1. Moved("wq", "photoFinish")
  BY WqGoes DEF Inv, PhotoDisable, Begin
<1>2. Noticed
  BY <1>1, Noticing DEF Inv
<1>3. FrameInPlace' /\ SpinInPlace'
  BY <1>1 DEF Inv, PhotoDisable, Begin, FrameInPlace, SpinInPlace, SpinEndsUnlessDeleted
<1>4. photoOn' \in BOOLEAN
  BY Zenon DEF Inv, PhotoDisable, Begin
<1>5. Typed'
  BY <1>1, <1>3, <1>4, BeginTypes, QuietRoom DEF Inv, SpinInPlace, RetInPlace, PhotoDisable, Begin
<1>6. RetInPlace' /\ PhotoInPlace'
  BY <1>1, <1>2 DEF Inv, PhotoDisable, Begin, FrameInPlace, RetInPlace, PhotoInPlace,
     PhotoMutexSurvives, Noticed, OverlapKnown
<1>7. SizeInPlace'
  BY <1>1, <1>2 DEF Inv, PhotoDisable, Begin, FrameInPlace, RetInPlace, PhotoInPlace, SizeInPlace,
     Noticed, OverlapKnown
<1>8. AviInPlace'
  BY <1>1, <1>2, <1>3, AviStays DEF PhotoDisable, Begin
<1>9. QED  BY <1>1, <1>2, <1>3, <1>5, <1>6, <1>7, <1>8 DEF Inv, Noticed

LEMMA PhotoFinishKeeps ==
  ASSUME Inv, fault = "none", PhotoFinish, Counted
  PROVE  Inv'
<1>1. Moved("wq", "photoRestore")
  BY WqGoes DEF Inv, PhotoFinish, Begin
<1>2. Noticed
  BY <1>1, Noticing DEF Inv
<1>3. FrameInPlace' /\ SpinInPlace'
  BY <1>1 DEF Inv, PhotoFinish, Begin, FrameInPlace, SpinInPlace, SpinEndsUnlessDeleted
<1>4. Typed'
  BY <1>1, <1>3, BeginTypes, QuietRoom DEF Inv, SpinInPlace, RetInPlace, PhotoFinish, Begin
<1>5. RetInPlace' /\ PhotoInPlace'
  BY <1>1, <1>2 DEF Inv, PhotoFinish, Begin, FrameInPlace, RetInPlace, PhotoInPlace,
     PhotoMutexSurvives, Noticed, OverlapKnown
<1>6. SizeInPlace'
  BY <1>1, <1>2 DEF Inv, PhotoFinish, Begin, FrameInPlace, RetInPlace, PhotoInPlace, SizeInPlace,
     Noticed, OverlapKnown
<1>7. AviInPlace'
  BY <1>1, <1>2, <1>3, AviStays DEF PhotoFinish, Begin
<1>8. QED  BY <1>1, <1>2, <1>3, <1>4, <1>5, <1>6, <1>7 DEF Inv, Noticed

LEMMA PhotoEndKeeps ==
  ASSUME Inv, fault = "none", PhotoEnd, Counted
  PROVE  Inv'
<1>1. Moved("wq", "idle")
  BY WqGoes DEF Inv, PhotoEnd, Begin
<1>2. Noticed
  BY <1>1, Noticing DEF Inv
<1>3. FrameInPlace' /\ SpinInPlace'
  BY <1>1 DEF Inv, PhotoEnd, Begin, FrameInPlace, SpinInPlace, SpinEndsUnlessDeleted
<1>4. Typed'
  BY <1>1, <1>3, BeginTypes, QuietRoom DEF Inv, SpinInPlace, RetInPlace, PhotoEnd, Begin
<1>5. RetInPlace' /\ PhotoInPlace'
  BY <1>1, <1>2 DEF Inv, PhotoEnd, Begin, FrameInPlace, RetInPlace, PhotoInPlace,
     PhotoMutexSurvives, Noticed, OverlapKnown
<1>6. SizeInPlace'
  BY <1>1, <1>2 DEF Inv, PhotoEnd, Begin, FrameInPlace, RetInPlace, PhotoInPlace, SizeInPlace,
     Noticed, OverlapKnown
<1>7. AviInPlace'
  BY <1>1, <1>2, <1>3, AviStays DEF PhotoEnd, Begin
<1>8. QED  BY <1>1, <1>2, <1>3, <1>4, <1>5, <1>6, <1>7 DEF Inv, Noticed

LEMMA RecordEnableKeeps ==
  ASSUME Inv, fault = "none", RecordEnable, Counted
  PROVE  Inv'
<1>1. Moved("wq", "idle")
  BY WqGoes DEF Inv, RecordEnable, Begin
<1>2. Noticed
  BY <1>1, Noticing DEF Inv
<1>3. FrameInPlace' /\ SpinInPlace'
  BY <1>1 DEF Inv, RecordEnable, Begin, FrameInPlace, SpinInPlace, SpinEndsUnlessDeleted
<1>4. aviOn' \in BOOLEAN
  BY Zenon DEF Inv, RecordEnable, Begin
<1>5. Typed'
  BY <1>1, <1>3, <1>4, BeginTypes, QuietRoom DEF Inv, SpinInPlace, RetInPlace, RecordEnable, Begin
<1>6. RetInPlace' /\ PhotoInPlace'
  BY <1>1, <1>2 DEF Inv, RecordEnable, Begin, FrameInPlace, RetInPlace, PhotoInPlace,
     PhotoMutexSurvives, Noticed, OverlapKnown
<1>7. SizeInPlace'
  BY <1>1, <1>2 DEF Inv, RecordEnable, Begin, FrameInPlace, RetInPlace, PhotoInPlace, SizeInPlace,
     Noticed, OverlapKnown
<1>8. AviInPlace'
  BY <1>1, <1>2, <1>3 DEF Inv, RecordEnable, Begin, FrameInPlace, RetInPlace, AviInPlace,
     RecordingFileSafe, Noticed, OverlapKnown
<1>9. QED  BY <1>1, <1>2, <1>3, <1>5, <1>6, <1>7, <1>8 DEF Inv, Noticed

LEMMA FramePhotoWriteKeeps ==
  ASSUME Inv, fault = "none", FramePhotoWrite, Counted
  PROVE  Inv'
<1>1. Moved("frame", "avi")
  BY FrameGoes DEF Inv, FramePhotoWrite
<1>2. Noticed
  BY <1>1, Noticing DEF Inv
<1>3. FrameInPlace' /\ SpinInPlace'
  BY <1>1 DEF Inv, FramePhotoWrite, FrameInPlace, SpinInPlace, SpinEndsUnlessDeleted
<1>4. Typed'
  BY <1>1, <1>3, BeginTypes, QuietRoom DEF Inv, SpinInPlace, RetInPlace, FramePhotoWrite
<1>5. RetInPlace' /\ PhotoInPlace'
  BY <1>1, <1>2 DEF Inv, FramePhotoWrite, FrameInPlace, RetInPlace, PhotoInPlace,
     PhotoMutexSurvives, Noticed, OverlapKnown
<1>6. SizeInPlace'
  BY <1>1, <1>2 DEF Inv, FramePhotoWrite, FrameInPlace, RetInPlace, PhotoInPlace, SizeInPlace,
     Noticed, OverlapKnown
<1>7. AviInPlace'
  BY <1>1, <1>2, <1>3, AviStays DEF FramePhotoWrite
<1>8. QED  BY <1>1, <1>2, <1>3, <1>4, <1>5, <1>6, <1>7 DEF Inv, Noticed

LEMMA FrameTrackFirstKeeps ==
  ASSUME Inv, fault = "none", FrameTrackFirst, Counted
  PROVE  Inv'
<1>1. Moved("frame", "spin")
  BY FrameGoes DEF Inv, FrameTrackFirst
<1>2. Noticed
  BY <1>1, Noticing DEF Inv
<1>3. FrameInPlace' /\ SpinInPlace'
  BY <1>1 DEF Inv, FrameTrackFirst, FrameInPlace, SpinInPlace, SpinEndsUnlessDeleted
<1>4. Typed'
  BY <1>1, <1>3, BeginTypes, QuietRoom DEF Inv, SpinInPlace, RetInPlace, FrameTrackFirst
<1>5. RetInPlace' /\ PhotoInPlace'
  BY <1>1, <1>2, RetStays, PhotoStays DEF FrameTrackFirst
<1>6. SizeInPlace'
  BY <1>1, <1>2, SizeStays DEF FrameTrackFirst
<1>7. AviInPlace'
  BY <1>1, <1>2, <1>3, AviStays DEF FrameTrackFirst
<1>8. QED  BY <1>1, <1>2, <1>3, <1>4, <1>5, <1>6, <1>7 DEF Inv, Noticed

LEMMA FrameSpinKeeps ==
  ASSUME Inv, fault = "none", FrameSpin, Counted
  PROVE  Inv'
<1>1. Moved("frame", "push")
  BY FrameGoes DEF Inv, FrameSpin
<1>2. Noticed
  BY <1>1, Noticing DEF Inv
<1>3. FrameInPlace' /\ SpinInPlace'
  BY <1>1 DEF Inv, FrameSpin, FrameInPlace, SpinInPlace, SpinEndsUnlessDeleted
<1>4. Typed'
  BY <1>1, <1>3, BeginTypes, QuietRoom DEF Inv, SpinInPlace, RetInPlace, FrameSpin
<1>5. RetInPlace' /\ PhotoInPlace'
  BY <1>1, <1>2, RetStays, PhotoStays DEF FrameSpin
<1>6. SizeInPlace'
  BY <1>1, <1>2, SizeStays DEF FrameSpin
<1>7. AviInPlace'
  BY <1>1, <1>2, <1>3, AviStays DEF FrameSpin
<1>8. QED  BY <1>1, <1>2, <1>3, <1>4, <1>5, <1>6, <1>7 DEF Inv, Noticed

LEMMA FramePushKeeps ==
  ASSUME Inv, fault = "none", FramePush, Counted
  PROVE  Inv'
<1>1. Moved("frame", "unlock")
  BY FrameGoes DEF Inv, FramePush
<1>2. Noticed
  BY <1>1, Noticing DEF Inv
<1>3. FrameInPlace' /\ SpinInPlace'
  BY <1>1 DEF Inv, FramePush, FrameInPlace, SpinInPlace, SpinEndsUnlessDeleted
<1>4. Typed'
  BY <1>1, <1>3, BeginTypes, QuietRoom DEF Inv, SpinInPlace, RetInPlace, FramePush
<1>5. RetInPlace' /\ PhotoInPlace'
  BY <1>1, <1>2, RetStays, PhotoStays DEF FramePush
<1>6. SizeInPlace'
  BY <1>1, <1>2, SizeStays DEF FramePush
<1>7. AviInPlace'
  BY <1>1, <1>2, <1>3, AviStays DEF FramePush
<1>8. QED  BY <1>1, <1>2, <1>3, <1>4, <1>5, <1>6, <1>7 DEF Inv, Noticed

LEMMA FrameReceivedKeeps ==
  ASSUME Inv, fault = "none", FrameReceived, UNCHANGED Rest, Counted
  PROVE  Inv'
<1>1. Moved("frame", "received")
  BY FrameGoes DEF Inv, FrameReceived, Rest
<1>2. Noticed
  BY <1>1, Noticing DEF Inv
<1>3. FrameInPlace' /\ SpinInPlace'
  BY <1>1 DEF Inv, FrameReceived, Rest, FrameInPlace, SpinInPlace, SpinEndsUnlessDeleted
<1>4. rx' \in BOOLEAN
  BY Zenon DEF Inv, FrameReceived, Rest
<1>5. Typed'
  BY <1>1, <1>3, <1>4, BeginTypes, QuietRoom DEF Inv, SpinInPlace, RetInPlace, FrameReceived, Rest
<1>6. RetInPlace' /\ PhotoInPlace'
  BY <1>1, <1>2, RetStays, PhotoStays DEF FrameReceived, Rest
<1>7. SizeInPlace'
  BY <1>1, <1>2, SizeStays DEF FrameReceived, Rest
<1>8. AviInPlace'
  BY <1>1, <1>2, <1>3, AviStays DEF FrameReceived, Rest
<1>9. QED  BY <1>1, <1>2, <1>3, <1>5, <1>6, <1>7, <1>8 DEF Inv, Noticed

LEMMA LockKeyKeeps ==
  ASSUME Inv, fault = "none", LockKey("photo"), UNCHANGED Rest, Counted
  PROVE  Inv'
<1>1. Moved("frame", "photo")
  BY FrameGoes DEF Inv, LockKey, Rest
<1>2. Noticed
  BY <1>1, Noticing DEF Inv
<1>3. FrameInPlace' /\ SpinInPlace'
  BY <1>1 DEF Inv, LockKey, Rest, FrameInPlace, SpinInPlace, SpinEndsUnlessDeleted
<1>4. Typed'
  BY <1>1, <1>3, BeginTypes, QuietRoom DEF Inv, SpinInPlace, RetInPlace, LockKey, Rest
<1>5. RetInPlace' /\ PhotoInPlace'
  BY <1>1, <1>2, RetStays, PhotoStays DEF LockKey, Rest
<1>6. SizeInPlace'
  BY <1>1, <1>2, SizeStays DEF LockKey, Rest
<1>7. AviInPlace'
  BY <1>1, <1>2, <1>3, AviStays DEF LockKey, Rest
<1>8. QED  BY <1>1, <1>2, <1>3, <1>4, <1>5, <1>6, <1>7 DEF Inv, Noticed

LEMMA UnlockKeyKeeps ==
  ASSUME Inv, fault = "none", UnlockKey, UNCHANGED Rest, Counted
  PROVE  Inv'
<1>1. Moved("frame", "idle")
  BY FrameGoes DEF Inv, UnlockKey, Rest
<1>2. Noticed
  BY <1>1, Noticing DEF Inv
<1>3. FrameInPlace' /\ SpinInPlace'
  BY <1>1 DEF Inv, UnlockKey, Rest, FrameInPlace, SpinInPlace, SpinEndsUnlessDeleted
<1>4. Typed'
  BY <1>1, <1>3, BeginTypes, QuietRoom DEF Inv, SpinInPlace, RetInPlace, UnlockKey, Rest
<1>5. RetInPlace' /\ PhotoInPlace'
  BY <1>1, <1>2, RetStays, PhotoStays DEF UnlockKey, Rest
<1>6. SizeInPlace'
  BY <1>1, <1>2, SizeStays DEF UnlockKey, Rest
<1>7. AviInPlace'
  BY <1>1, <1>2, <1>3, AviStays DEF UnlockKey, Rest
<1>8. QED  BY <1>1, <1>2, <1>3, <1>4, <1>5, <1>6, <1>7 DEF Inv, Noticed

LEMMA TrackKeeps ==
  ASSUME Inv, fault = "none", Track, Counted
  PROVE  Inv'
<1>1. pc' = pc /\ pc' \in Points
  BY DEF Inv, Track, Begin, snapshotInit, Configured
<1>2. Noticed
  BY <1>1, Noticing DEF Inv
<1>3. FrameInPlace' /\ SpinInPlace'
  BY <1>1 DEF Inv, Track, Begin, snapshotInit, Configured, FrameInPlace, SpinInPlace,
     SpinEndsUnlessDeleted
<1>4. roiFits' \in BOOLEAN
  BY Zenon DEF Inv, Track, Begin, snapshotInit, Configured
<1>5. Typed'
  BY <1>1, <1>3, <1>4, BeginTypes, QuietRoom DEF Inv, SpinInPlace, RetInPlace, Track, Begin,
     snapshotInit, Configured
<1>6. RetInPlace' /\ PhotoInPlace'
  BY <1>1, <1>2, RetStays, PhotoStays DEF Track, Begin, snapshotInit, Configured
<1>7. SizeInPlace'
  BY <1>1, <1>2, SizeStays DEF Track, Begin, snapshotInit, Configured
<1>8. AviInPlace'
  BY <1>1, <1>2, <1>3, AviStays DEF Track, Begin, snapshotInit, Configured
<1>9. QED  BY <1>1, <1>2, <1>3, <1>5, <1>6, <1>7, <1>8 DEF Inv, Noticed

LEMMA TrackerUpdateKeeps ==
  ASSUME Inv, fault = "none", TrackerUpdate, Counted
  PROVE  Inv'
<1>1. pc' = pc /\ pc' \in Points
  BY DEF Inv, TrackerUpdate, Begin
<1>2. Noticed
  BY <1>1, Noticing DEF Inv
<1>3. FrameInPlace' /\ SpinInPlace'
  BY <1>1 DEF Inv, TrackerUpdate, Begin, FrameInPlace, SpinInPlace, SpinEndsUnlessDeleted
<1>4. Typed'
  BY <1>1, <1>3, BeginTypes, QuietRoom DEF Inv, SpinInPlace, RetInPlace, TrackerUpdate, Begin
<1>5. RetInPlace' /\ PhotoInPlace'
  BY <1>1, <1>2, RetStays, PhotoStays DEF TrackerUpdate, Begin
<1>6. SizeInPlace'
  BY <1>1, <1>2, SizeStays DEF TrackerUpdate, Begin
<1>7. AviInPlace'
  BY <1>1, <1>2, <1>3, AviStays DEF TrackerUpdate, Begin
<1>8. QED  BY <1>1, <1>2, <1>3, <1>4, <1>5, <1>6, <1>7 DEF Inv, Noticed

LEMMA CommandKeeps ==
  ASSUME Inv, fault = "none", Command, Counted
  PROVE  Inv'
<1>1. pc' = pc /\ pc' \in Points
  BY DEF Inv, Command, Begin, Commands, QueueTasks
<1>2. Noticed
  BY <1>1, Noticing DEF Inv
<1>3. FrameInPlace' /\ SpinInPlace'
  BY <1>1 DEF Inv, Command, Begin, Commands, QueueTasks, FrameInPlace, SpinInPlace,
     SpinEndsUnlessDeleted
<1>4. Typed'
  BY <1>1, <1>3, BeginTypes, QuietRoom DEF Inv, SpinInPlace, RetInPlace, Command, Begin, Commands,
     QueueTasks
<1>5. RetInPlace' /\ PhotoInPlace'
  BY <1>1, <1>2, RetStays, PhotoStays DEF Command, Begin, Commands, QueueTasks
<1>6. SizeInPlace'
  BY <1>1, <1>2, SizeStays DEF Command, Begin, Commands, QueueTasks
<1>7. AviInPlace'
  BY <1>1, <1>2, <1>3, AviStays DEF Command, Begin, Commands, QueueTasks
<1>8. QED  BY <1>1, <1>2, <1>3, <1>4, <1>5, <1>6, <1>7 DEF Inv, Noticed

LEMMA WifiDisconnectedKeeps ==
  ASSUME Inv, fault = "none", WifiDisconnected, Counted
  PROVE  Inv'
<1>1. pc' = pc /\ pc' \in Points
  BY DEF Inv, WifiDisconnected, Begin
<1>2. Noticed
  BY <1>1, Noticing DEF Inv
<1>3. FrameInPlace' /\ SpinInPlace'
  BY <1>1 DEF Inv, WifiDisconnected, Begin, FrameInPlace, SpinInPlace, SpinEndsUnlessDeleted
<1>4. armed' \in BOOLEAN
  BY Zenon DEF Inv, WifiDisconnected, Begin
<1>5. Typed'
  BY <1>1, <1>3, <1>4, BeginTypes, QuietRoom DEF Inv, SpinInPlace, RetInPlace, WifiDisconnected,
     Begin
<1>6. RetInPlace' /\ PhotoInPlace'
  BY <1>1, <1>2, RetStays, PhotoStays DEF WifiDisconnected, Begin
<1>7. SizeInPlace'
  BY <1>1, <1>2, SizeStays DEF WifiDisconnected, Begin
<1>8. AviInPlace'
  BY <1>1, <1>2, <1>3, AviStays DEF WifiDisconnected, Begin
<1>9. QED  BY <1>1, <1>2, <1>3, <1>5, <1>6, <1>7, <1>8 DEF Inv, Noticed

LEMMA FrameDoneKeeps ==
  ASSUME Inv, fault = "none", FrameDone, UNCHANGED Rest, Counted
  PROVE  Inv'
<1>1. rx' \in BOOLEAN /\ failures' \subseteq Failures
  BY DEF Inv, FrameDone, RestartReception
<1>2. Moved("frame", "lock")
  BY <1>1, FrameGoes DEF Inv, FrameDone, Rest
<1>3. Noticed
  BY <1>2, Noticing DEF Inv
<1>4. FrameInPlace' /\ SpinInPlace'
  BY <1>1, <1>2 DEF Inv, FrameDone, Rest, FrameInPlace, SpinInPlace, SpinEndsUnlessDeleted
<1>5. Typed'
  BY <1>1, <1>2, <1>4, BeginTypes, QuietRoom DEF Inv, SpinInPlace, RetInPlace, FrameDone, Rest
<1>6. RetInPlace' /\ PhotoInPlace'
  BY <1>1, <1>2, <1>3, RetStays, PhotoStays DEF FrameDone, Rest
<1>7. SizeInPlace'
  BY <1>1, <1>2, <1>3, SizeStays DEF FrameDone, Rest
<1>8. AviInPlace'
  BY <1>1, <1>2, <1>3, <1>4, AviStays DEF FrameDone, Rest
<1>9. QED  BY <1>2, <1>3, <1>4, <1>5, <1>6, <1>7, <1>8 DEF Inv, Noticed

LEMMA PhotoSizeKeeps ==
  ASSUME Inv, fault = "none", PhotoSize, Counted
  PROVE  Inv'
<1>1. CASE SetSize("wq", Photo, "photoEnable")
  <2>1. Moved("wq", "stopBus")
    BY <1>1, WqGoes DEF Inv, PhotoSize, SetSize, Reinit, Limit
  <2>2. Noticed
    BY <2>1, Noticing DEF Inv
  <2>3. FrameInPlace' /\ SpinInPlace'
    BY <1>1, <2>1 DEF Inv, PhotoSize, SetSize, Reinit, Limit, FrameInPlace, SpinInPlace,
       SpinEndsUnlessDeleted
  <2>4. Typed'
    BY <1>1, <2>1, <2>3, BeginTypes, QuietRoom DEF Inv, SpinInPlace, RetInPlace, PhotoSize, SetSize,
       Reinit, Limit
  <2>5. RetInPlace' /\ PhotoInPlace'
    BY <1>1, <2>1, <2>2 DEF Inv, PhotoSize, SetSize, Reinit, Limit, FrameInPlace, RetInPlace,
       PhotoInPlace, PhotoMutexSurvives, Noticed, OverlapKnown
  <2>6. SizeInPlace'
    BY <1>1, <2>1, <2>2 DEF Inv, PhotoSize, SetSize, Reinit, Limit, FrameInPlace, RetInPlace,
       PhotoInPlace, SizeInPlace, Noticed, OverlapKnown
  <2>7. AviInPlace'
    BY <1>1, <2>1, <2>2, <2>3, AviStays DEF PhotoSize, SetSize, Reinit, Limit
  <2>8. QED  BY <2>1, <2>2, <2>3, <2>4, <2>5, <2>6, <2>7 DEF Inv, Noticed
<1>2. CASE SizeRefused("wq", Photo, "idle")
  <2>1. Moved("wq", "idle")
    BY <1>2, WqGoes DEF Inv, PhotoSize, SizeRefused, MayFail
  <2>2. Noticed
    BY <2>1, Noticing DEF Inv
  <2>3. FrameInPlace' /\ SpinInPlace'
    BY <1>2, <2>1 DEF Inv, PhotoSize, SizeRefused, MayFail, FrameInPlace, SpinInPlace,
       SpinEndsUnlessDeleted
  <2>4. failures' \subseteq Failures
    BY <1>2 DEF Inv, SizeRefused, MayFail
  <2>5. Typed'
    BY <1>2, <2>1, <2>3, <2>4, BeginTypes, QuietRoom DEF Inv, SpinInPlace, RetInPlace, PhotoSize,
       SizeRefused, MayFail
  <2>6. RetInPlace' /\ PhotoInPlace'
    BY <1>2, <2>1, <2>2 DEF Inv, PhotoSize, SizeRefused, MayFail, FrameInPlace, RetInPlace,
       PhotoInPlace, PhotoMutexSurvives, Noticed, OverlapKnown
  <2>7. SizeInPlace'
    BY <1>2, <2>1, <2>2 DEF Inv, PhotoSize, SizeRefused, MayFail, FrameInPlace, RetInPlace,
       PhotoInPlace, SizeInPlace, Noticed, OverlapKnown
  <2>8. AviInPlace'
    BY <1>2, <2>1, <2>2, <2>3, AviStays DEF PhotoSize, SizeRefused, MayFail
  <2>9. QED  BY <2>1, <2>2, <2>3, <2>5, <2>6, <2>7, <2>8 DEF Inv, Noticed
<1>3. QED  BY <1>1, <1>2 DEF PhotoSize

LEMMA PhotoRestoreKeeps ==
  ASSUME Inv, fault = "none", PhotoRestore, Counted
  PROVE  Inv'
<1>1. CASE SetSize("wq", photo.prev, "photoEnd")
  <2>1. Moved("wq", "stopBus")
    BY <1>1, WqGoes DEF Inv, PhotoRestore, SetSize, Reinit, Limit
  <2>2. Noticed
    BY <2>1, Noticing DEF Inv
  <2>3. FrameInPlace' /\ SpinInPlace'
    BY <1>1, <2>1 DEF Inv, PhotoRestore, SetSize, Reinit, Limit, FrameInPlace, SpinInPlace,
       SpinEndsUnlessDeleted
  <2>4. Typed'
    BY <1>1, <2>1, <2>3, BeginTypes, QuietRoom DEF Inv, SpinInPlace, RetInPlace, PhotoRestore,
       SetSize, Reinit, Limit
  <2>5. RetInPlace' /\ PhotoInPlace'
    BY <1>1, <2>1, <2>2 DEF Inv, PhotoRestore, SetSize, Reinit, Limit, FrameInPlace, RetInPlace,
       PhotoInPlace, PhotoMutexSurvives, Noticed, OverlapKnown
  <2>6. SizeInPlace'
    BY <1>1, <2>1, <2>2 DEF Inv, PhotoRestore, SetSize, Reinit, Limit, FrameInPlace, RetInPlace,
       PhotoInPlace, SizeInPlace, Noticed, OverlapKnown
  <2>7. AviInPlace'
    BY <1>1, <2>1, <2>2, <2>3, AviStays DEF PhotoRestore, SetSize, Reinit, Limit
  <2>8. QED  BY <2>1, <2>2, <2>3, <2>4, <2>5, <2>6, <2>7 DEF Inv, Noticed
<1>2. CASE SizeRefused("wq", photo.prev, "photoEnd")
  <2>1. Moved("wq", "photoEnd")
    BY <1>2, WqGoes DEF Inv, PhotoRestore, SizeRefused, MayFail
  <2>2. Noticed
    BY <2>1, Noticing DEF Inv
  <2>3. FrameInPlace' /\ SpinInPlace'
    BY <1>2, <2>1 DEF Inv, PhotoRestore, SizeRefused, MayFail, FrameInPlace, SpinInPlace,
       SpinEndsUnlessDeleted
  <2>4. failures' \subseteq Failures
    BY <1>2 DEF Inv, SizeRefused, MayFail
  <2>5. Typed'
    BY <1>2, <2>1, <2>3, <2>4, BeginTypes, QuietRoom DEF Inv, SpinInPlace, RetInPlace, PhotoRestore,
       SizeRefused, MayFail
  <2>6. RetInPlace' /\ PhotoInPlace'
    BY <1>2, <2>1, <2>2 DEF Inv, PhotoRestore, SizeRefused, MayFail, FrameInPlace, RetInPlace,
       PhotoInPlace, PhotoMutexSurvives, Noticed, OverlapKnown
  <2>7. SizeInPlace'
    BY <1>2, <2>1, <2>2 DEF Inv, PhotoRestore, SizeRefused, MayFail, FrameInPlace, RetInPlace,
       PhotoInPlace, SizeInPlace, Noticed, OverlapKnown
  <2>8. AviInPlace'
    BY <1>2, <2>1, <2>2, <2>3, AviStays DEF PhotoRestore, SizeRefused, MayFail
  <2>9. QED  BY <2>1, <2>2, <2>3, <2>5, <2>6, <2>7, <2>8 DEF Inv, Noticed
<1>3. QED  BY <1>1, <1>2 DEF PhotoRestore

LEMMA ApplySizeKeeps ==
  ASSUME Inv, fault = "none", ApplySize, Counted
  PROVE  Inv'
<1>1. CASE SetSize("wq", snapshot.size, "idle")
  <2>1. Moved("wq", "stopBus")
    BY <1>1, WqGoes DEF Inv, ApplySize, SetSize, Reinit, Limit
  <2>2. Noticed
    BY <2>1, Noticing DEF Inv
  <2>3. FrameInPlace' /\ SpinInPlace'
    BY <1>1, <2>1 DEF Inv, ApplySize, SetSize, Reinit, Limit, FrameInPlace, SpinInPlace,
       SpinEndsUnlessDeleted
  <2>4. Typed'
    BY <1>1, <2>1, <2>3, BeginTypes, QuietRoom DEF Inv, SpinInPlace, RetInPlace, ApplySize, SetSize,
       Reinit, Limit
  <2>5. RetInPlace' /\ PhotoInPlace'
    BY <1>1, <2>1, <2>2 DEF Inv, ApplySize, SetSize, Reinit, Limit, FrameInPlace, RetInPlace,
       PhotoInPlace, PhotoMutexSurvives, Noticed, OverlapKnown
  <2>6. SizeInPlace'
    BY <1>1, <2>1, <2>2 DEF Inv, ApplySize, SetSize, Reinit, Limit, FrameInPlace, RetInPlace,
       PhotoInPlace, SizeInPlace, Noticed, OverlapKnown
  <2>7. AviInPlace'
    BY <1>1, <2>1, <2>2, <2>3, AviStays DEF ApplySize, SetSize, Reinit, Limit
  <2>8. QED  BY <2>1, <2>2, <2>3, <2>4, <2>5, <2>6, <2>7 DEF Inv, Noticed
<1>2. CASE SizeRefused("wq", snapshot.size, "idle")
  <2>1. Moved("wq", "idle")
    BY <1>2, WqGoes DEF Inv, ApplySize, SizeRefused, MayFail
  <2>2. Noticed
    BY <2>1, Noticing DEF Inv
  <2>3. FrameInPlace' /\ SpinInPlace'
    BY <1>2, <2>1 DEF Inv, ApplySize, SizeRefused, MayFail, FrameInPlace, SpinInPlace,
       SpinEndsUnlessDeleted
  <2>4. failures' \subseteq Failures
    BY <1>2 DEF Inv, SizeRefused, MayFail
  <2>5. Typed'
    BY <1>2, <2>1, <2>3, <2>4, BeginTypes, QuietRoom DEF Inv, SpinInPlace, RetInPlace, ApplySize,
       SizeRefused, MayFail
  <2>6. RetInPlace' /\ PhotoInPlace'
    BY <1>2, <2>1, <2>2 DEF Inv, ApplySize, SizeRefused, MayFail, FrameInPlace, RetInPlace,
       PhotoInPlace, PhotoMutexSurvives, Noticed, OverlapKnown
  <2>7. SizeInPlace'
    BY <1>2, <2>1, <2>2 DEF Inv, ApplySize, SizeRefused, MayFail, FrameInPlace, RetInPlace,
       PhotoInPlace, SizeInPlace, Noticed, OverlapKnown
  <2>8. AviInPlace'
    BY <1>2, <2>1, <2>2, <2>3, AviStays DEF ApplySize, SizeRefused, MayFail
  <2>9. QED  BY <2>1, <2>2, <2>3, <2>5, <2>6, <2>7, <2>8 DEF Inv, Noticed
<1>3. QED  BY <1>1, <1>2 DEF ApplySize

LEMMA PhotoFailsKeeps ==
  ASSUME Inv, fault = "none", PhotoFails, Counted
  PROVE  Inv'
<1>1. CASE ~initialized /\ Answer("photo")
  BY <1>1, AnswerKeeps
<1>2. CASE Begin("photo") /\ ~(~initialized /\ Answer("photo"))
  <2>1. pc' = pc /\ pc' \in Points
    BY <1>2 DEF Inv, PhotoFails, Begin
  <2>2. Noticed
    BY <2>1, Noticing DEF Inv
  <2>3. FrameInPlace' /\ SpinInPlace'
    BY <1>2, <2>1 DEF Inv, PhotoFails, Begin, FrameInPlace, SpinInPlace, SpinEndsUnlessDeleted
  <2>4. failures' \subseteq Failures
    BY <1>2 DEF Inv, PhotoFails, MayFail
  <2>5. Typed'
    <3>1. queue' \in Seq(QueueTasks) /\ Len(queue') <= MaxQueue
      BY <1>2, BeginTypes DEF Inv
    <3>2. /\ photoFile' = "none"
          /\ UNCHANGED <<cameraVars, key, ret, fault, photoOn, photoMut, photoSem, photo,
                         aviVars, trackVars, envVars>>
      BY <1>2 DEF PhotoFails
    <3>3. QED  BY <2>4, <3>1, <3>2 DEF Inv
  <2>6. RetInPlace' /\ PhotoInPlace'
    BY <1>2, <2>1, <2>2, RetStays, PhotoStays DEF PhotoFails, Begin
  <2>7. SizeInPlace'
    BY <1>2, <2>1, <2>2, SizeStays DEF PhotoFails, Begin
  <2>8. AviInPlace'
    BY <1>2, <2>1, <2>2, <2>3, AviStays DEF PhotoFails, Begin
  <2>9. QED  BY <2>1, <2>2, <2>3, <2>5, <2>6, <2>7, <2>8 DEF Inv, Noticed
<1>3. QED  BY <1>1, <1>2 DEF PhotoFails

LEMMA RecordStartKeeps ==
  ASSUME Inv, fault = "none", RecordStart, Counted
  PROVE  Inv'
<1>1. CASE Answer("recordStart")
  BY <1>1, AnswerKeeps
<1>2. CASE /\ Begin("recordStart")
             /\ avi' = "open" /\ Goto("wq", "recEnable") /\ UNCHANGED failures
             /\ UNCHANGED <<cameraVars, key, ret, fault, photoVars, aviOn, trackVars, envVars>>
             /\ avi = "none"
  <2>1. Moved("wq", "recEnable")
    BY <1>2, WqGoes DEF Inv, Begin
  <2>2. Noticed
    BY <2>1, Noticing DEF Inv
  <2>3. FrameInPlace' /\ SpinInPlace'
    BY <1>2, <2>1 DEF Inv, Begin, FrameInPlace, SpinInPlace, SpinEndsUnlessDeleted
  <2>4. Typed'
    BY <1>2, <2>1, <2>3, BeginTypes, QuietRoom DEF Inv, SpinInPlace, RetInPlace, Begin
  <2>5. RetInPlace' /\ PhotoInPlace'
    BY <1>2, <2>1, <2>2 DEF Inv, Begin, FrameInPlace, RetInPlace, PhotoInPlace, PhotoMutexSurvives,
       Noticed, OverlapKnown
  <2>6. SizeInPlace'
    BY <1>2, <2>1, <2>2 DEF Inv, Begin, FrameInPlace, RetInPlace, PhotoInPlace, SizeInPlace,
       Noticed, OverlapKnown
  <2>7. AviInPlace'
    BY <1>2, <2>1, <2>2, <2>3 DEF Inv, Begin, FrameInPlace, RetInPlace, AviInPlace,
       RecordingFileSafe, Noticed, OverlapKnown
  <2>8. QED  BY <2>1, <2>2, <2>3, <2>4, <2>5, <2>6, <2>7 DEF Inv, Noticed
<1>3. CASE /\ Begin("recordStart")
             /\ failures' = failures \cup {"open"} /\ UNCHANGED <<avi, pc>>
             /\ UNCHANGED <<cameraVars, key, ret, fault, photoVars, aviOn, trackVars, envVars>>
  <2>1. pc' = pc /\ pc' \in Points
    BY <1>3 DEF Inv, Begin
  <2>2. Noticed
    BY <2>1, Noticing DEF Inv
  <2>3. FrameInPlace' /\ SpinInPlace'
    BY <1>3, <2>1 DEF Inv, Begin, FrameInPlace, SpinInPlace, SpinEndsUnlessDeleted
  <2>4. failures' \subseteq Failures
    BY <1>3 DEF Inv, Begin
  <2>5. Typed'
    BY <1>3, <2>1, <2>3, <2>4, BeginTypes, QuietRoom DEF Inv, SpinInPlace, RetInPlace, Begin
  <2>6. RetInPlace' /\ PhotoInPlace'
    BY <1>3, <2>1, <2>2, RetStays, PhotoStays DEF Begin
  <2>7. SizeInPlace'
    BY <1>3, <2>1, <2>2, SizeStays DEF Begin
  <2>8. AviInPlace'
    BY <1>3, <2>1, <2>2, <2>3, AviStays DEF Begin
  <2>9. QED  BY <2>1, <2>2, <2>3, <2>5, <2>6, <2>7, <2>8 DEF Inv, Noticed
<1>4. QED  BY <1>1, <1>2, <1>3 DEF RecordStart

LEMMA RecordStopKeeps ==
  ASSUME Inv, fault = "none", RecordStop, Counted
  PROVE  Inv'
<1>1. CASE Answer("recordStop")
  BY <1>1, AnswerKeeps
<1>2. CASE /\ Begin("recordStop")
             /\ Goto("wq", "recDisable")
             /\ UNCHANGED <<cameraVars, key, ret, fault, failures, photoVars, aviVars,
                            trackVars, envVars>>
  <2>1. Moved("wq", "recDisable")
    BY <1>2, WqGoes DEF Inv, Begin
  <2>2. Noticed
    BY <2>1, Noticing DEF Inv
  <2>3. FrameInPlace' /\ SpinInPlace'
    BY <1>2, <2>1 DEF Inv, Begin, FrameInPlace, SpinInPlace, SpinEndsUnlessDeleted
  <2>4. Typed'
    BY <1>2, <2>1, <2>3, BeginTypes, QuietRoom DEF Inv, SpinInPlace, RetInPlace, Begin
  <2>5. RetInPlace' /\ PhotoInPlace'
    BY <1>2, <2>1, <2>2 DEF Inv, Begin, FrameInPlace, RetInPlace, PhotoInPlace, PhotoMutexSurvives,
       Noticed, OverlapKnown
  <2>6. SizeInPlace'
    BY <1>2, <2>1, <2>2 DEF Inv, Begin, FrameInPlace, RetInPlace, PhotoInPlace, SizeInPlace,
       Noticed, OverlapKnown
  <2>7. AviInPlace'
    BY <1>2, <2>1, <2>2, <2>3, AviStays DEF Begin
  <2>8. QED  BY <2>1, <2>2, <2>3, <2>4, <2>5, <2>6, <2>7 DEF Inv, Noticed
<1>3. QED  BY <1>1, <1>2 DEF RecordStop

LEMMA TrackStopKeeps ==
  ASSUME Inv, fault = "none", TrackStop, Counted
  PROVE  Inv'
<1>1. CASE Answer("trackStop")
  BY <1>1, AnswerKeeps
<1>2. CASE /\ Begin("trackStop")
             /\ state' = "Disabled" /\ Goto("wq", "applyFormat")
             /\ UNCHANGED <<cameraVars, key, ret, fault, failures, photoVars, aviVars, snapshot,
                            roiFits, spinlock, updates, envVars>>
  <2>1. Moved("wq", "applyFormat")
    BY <1>2, WqGoes DEF Inv, Begin
  <2>2. Noticed
    BY <2>1, Noticing DEF Inv
  <2>3. FrameInPlace' /\ SpinInPlace'
    BY <1>2, <2>1 DEF Inv, Begin, FrameInPlace, SpinInPlace, SpinEndsUnlessDeleted
  <2>4. Typed'
    BY <1>2, <2>1, <2>3, BeginTypes, QuietRoom DEF Inv, SpinInPlace, RetInPlace, Begin
  <2>5. RetInPlace' /\ PhotoInPlace'
    BY <1>2, <2>1, <2>2 DEF Inv, Begin, FrameInPlace, RetInPlace, PhotoInPlace, PhotoMutexSurvives,
       Noticed, OverlapKnown
  <2>6. SizeInPlace'
    BY <1>2, <2>1, <2>2 DEF Inv, Begin, FrameInPlace, RetInPlace, PhotoInPlace, SizeInPlace,
       Noticed, OverlapKnown
  <2>7. AviInPlace'
    BY <1>2, <2>1, <2>2, <2>3, AviStays DEF Begin
  <2>8. QED  BY <2>1, <2>2, <2>3, <2>4, <2>5, <2>6, <2>7 DEF Inv, Noticed
<1>3. QED  BY <1>1, <1>2 DEF TrackStop

LEMMA StopDisableKeeps ==
  ASSUME Inv, fault = "none", NEW t \in {"wq", "timer"}, StopDisable(t), Counted
  PROVE  Inv'
<1>1. Moved(t, "recClose")
  BY GotoMoves DEF Inv, StopDisable, PlacesOf
<1>2. Noticed
  BY <1>1, Noticing DEF Inv
<1>3. FrameInPlace' /\ SpinInPlace'
  BY <1>1 DEF Inv, StopDisable, FrameInPlace, SpinInPlace, SpinEndsUnlessDeleted
<1>4. aviOn' \in BOOLEAN
  BY Zenon DEF Inv, StopDisable
<1>5. Typed'
  BY <1>1, <1>3, <1>4, BeginTypes, QuietRoom DEF Inv, SpinInPlace, RetInPlace, StopDisable
<1>6. RetInPlace' /\ PhotoInPlace'
  BY <1>1, <1>2 DEF Inv, StopDisable, FrameInPlace, RetInPlace, PhotoInPlace, PhotoMutexSurvives,
     Noticed, OverlapKnown
<1>7. SizeInPlace'
  BY <1>1, <1>2 DEF Inv, StopDisable, FrameInPlace, RetInPlace, PhotoInPlace, SizeInPlace, Noticed,
     OverlapKnown
<1>8. AviInPlace'
  BY <1>1, <1>2, <1>3 DEF Inv, StopDisable, FrameInPlace, RetInPlace, AviInPlace, RecordingFileSafe,
     Noticed, OverlapKnown
<1>9. QED  BY <1>1, <1>2, <1>3, <1>5, <1>6, <1>7, <1>8 DEF Inv, Noticed

LEMMA StopEndKeeps ==
  ASSUME Inv, fault = "none", NEW t \in {"wq", "timer"}, StopEnd(t), Counted
  PROVE  Inv'
<1>1. Moved(t, "idle")
  BY GotoMoves DEF Inv, StopEnd, PlacesOf
<1>2. Noticed
  BY <1>1, Noticing DEF Inv
<1>3. FrameInPlace' /\ SpinInPlace'
  BY <1>1 DEF Inv, StopEnd, FrameInPlace, SpinInPlace, SpinEndsUnlessDeleted
<1>4. Typed'
  BY <1>1, <1>3, BeginTypes, QuietRoom DEF Inv, SpinInPlace, RetInPlace, StopEnd
<1>5. RetInPlace' /\ PhotoInPlace'
  BY <1>1, <1>2 DEF Inv, StopEnd, FrameInPlace, RetInPlace, PhotoInPlace, PhotoMutexSurvives,
     Noticed, OverlapKnown
<1>6. SizeInPlace'
  BY <1>1, <1>2 DEF Inv, StopEnd, FrameInPlace, RetInPlace, PhotoInPlace, SizeInPlace, Noticed,
     OverlapKnown
<1>7. AviInPlace'
  BY <1>1, <1>2, <1>3 DEF Inv, StopEnd, FrameInPlace, RetInPlace, AviInPlace, RecordingFileSafe,
     Noticed, OverlapKnown
<1>8. QED  BY <1>1, <1>2, <1>3, <1>4, <1>5, <1>6, <1>7 DEF Inv, Noticed

LEMMA StopCloseKeeps ==
  ASSUME Inv, fault = "none", NEW t \in {"wq", "timer"}, StopClose(t), Counted
  PROVE  Inv'
<1>1. CASE avi = "closed"
  <2>1. overlap
    BY <1>1 DEF Inv, AviInPlace, OverlapKnown, StopClose
  <2>2. Panic("closedTwice") /\ UNCHANGED Rest
    BY <1>1 DEF StopClose, Rest
  <2>3. QED  BY <2>1, <2>2, PanicKeeps
<1>2. CASE /\ pc[t] = "recClose" /\ Goto(t, "recNull")
             /\ avi' = (IF avi = "open" THEN "closed" ELSE avi)
             /\ UNCHANGED <<cameraVars, key, ret, fault, failures, queue, photoVars, aviOn, trackVars,
                           envVars>>
  <2>1. Moved(t, "recNull")
    BY <1>2, GotoMoves DEF Inv, PlacesOf
  <2>2. Noticed
    BY <2>1, Noticing DEF Inv
  <2>3. FrameInPlace' /\ SpinInPlace'
    BY <1>2, <2>1 DEF Inv, FrameInPlace, SpinInPlace, SpinEndsUnlessDeleted
  <2>4. Typed'
    BY <1>2, <2>1, <2>3, BeginTypes, QuietRoom DEF Inv, SpinInPlace, RetInPlace
  <2>5. RetInPlace' /\ PhotoInPlace'
    BY <1>2, <2>1, <2>2 DEF Inv, FrameInPlace, RetInPlace, PhotoInPlace, PhotoMutexSurvives,
       Noticed, OverlapKnown
  <2>6. SizeInPlace'
    BY <1>2, <2>1, <2>2 DEF Inv, FrameInPlace, RetInPlace, PhotoInPlace, SizeInPlace, Noticed,
       OverlapKnown
  <2>7. AviInPlace'
    BY <1>2, <2>1, <2>2, <2>3 DEF Inv, FrameInPlace, RetInPlace, AviInPlace, RecordingFileSafe,
       Noticed, OverlapKnown
  <2>8. QED  BY <2>1, <2>2, <2>3, <2>4, <2>5, <2>6, <2>7 DEF Inv, Noticed
<1>3. QED  BY <1>1, <1>2 DEF StopClose

LEMMA TimerFiresKeeps ==
  ASSUME Inv, fault = "none", TimerFires, Counted
  PROVE  Inv'
<1>1. CASE pc' = pc
  <2>1. pc' = pc /\ pc' \in Points
    BY <1>1 DEF Inv, TimerFires
  <2>2. Noticed
    BY <2>1, Noticing DEF Inv
  <2>3. FrameInPlace' /\ SpinInPlace'
    BY <1>1, <2>1 DEF Inv, TimerFires, FrameInPlace, SpinInPlace, SpinEndsUnlessDeleted
  <2>4. armed' \in BOOLEAN
    BY <1>1, Zenon DEF Inv, TimerFires
  <2>5. Typed'
    BY <1>1, <2>1, <2>3, <2>4, BeginTypes, QuietRoom DEF Inv, SpinInPlace, RetInPlace, TimerFires
  <2>6. RetInPlace' /\ PhotoInPlace'
    BY <1>1, <2>1, <2>2, RetStays, PhotoStays DEF TimerFires
  <2>7. SizeInPlace'
    BY <1>1, <2>1, <2>2, SizeStays DEF TimerFires
  <2>8. AviInPlace'
    BY <1>1, <2>1, <2>2, <2>3, AviStays DEF TimerFires
  <2>9. QED  BY <2>1, <2>2, <2>3, <2>5, <2>6, <2>7, <2>8 DEF Inv, Noticed
<1>2. CASE pc' # pc
  <2>1. Moved("timer", "recDisable")
    BY <1>2, TimerGoes DEF Inv, TimerFires, Goto
  <2>2. Noticed
    BY <2>1, Noticing DEF Inv
  <2>3. FrameInPlace' /\ SpinInPlace'
    BY <1>2, <2>1 DEF Inv, TimerFires, Goto, FrameInPlace, SpinInPlace, SpinEndsUnlessDeleted
  <2>4. armed' \in BOOLEAN
    BY <1>2, Zenon DEF Inv, TimerFires, Goto
  <2>5. Typed'
    BY <1>2, <2>1, <2>3, <2>4, BeginTypes, QuietRoom DEF Inv, SpinInPlace, RetInPlace, TimerFires,
       Goto
  <2>6. RetInPlace' /\ PhotoInPlace'
    BY <1>2, <2>1, <2>2, RetStays, PhotoStays DEF TimerFires, Goto
  <2>7. SizeInPlace'
    BY <1>2, <2>1, <2>2, SizeStays DEF TimerFires, Goto
  <2>8. AviInPlace'
    BY <1>2, <2>1, <2>2, <2>3, AviStays DEF TimerFires, Goto
  <2>9. QED  BY <2>1, <2>2, <2>3, <2>5, <2>6, <2>7, <2>8 DEF Inv, Noticed
<1>3. QED  BY <1>1, <1>2

LEMMA CamConfKeeps ==
  ASSUME Inv, fault = "none", CamConf, Counted
  PROVE  Inv'
<1>1. Moved("wq", "stopBus")
  BY WqGoes DEF Inv, CamConf, Begin, SetFormat, Reinit
<1>2. Noticed
  BY <1>1, Noticing DEF Inv
<1>3. FrameInPlace' /\ SpinInPlace'
  BY <1>1 DEF Inv, CamConf, Begin, SetFormat, Reinit, FrameInPlace, SpinInPlace,
     SpinEndsUnlessDeleted
<1>4. Typed'
  BY <1>1, <1>3, BeginTypes, QuietRoom DEF Inv, SpinInPlace, RetInPlace, CamConf, Begin, SetFormat,
     Reinit
<1>5. RetInPlace' /\ PhotoInPlace'
  BY <1>1, <1>2 DEF Inv, CamConf, Begin, SetFormat, Reinit, FrameInPlace, RetInPlace, PhotoInPlace,
     PhotoMutexSurvives, Noticed, OverlapKnown
<1>6. SizeInPlace'
  BY <1>1, <1>2 DEF Inv, CamConf, Begin, SetFormat, Reinit, FrameInPlace, RetInPlace, PhotoInPlace,
     SizeInPlace, Noticed, OverlapKnown
<1>7. AviInPlace'
  BY <1>1, <1>2, <1>3, AviStays DEF CamConf, Begin, SetFormat, Reinit
<1>8. QED  BY <1>1, <1>2, <1>3, <1>4, <1>5, <1>6, <1>7 DEF Inv, Noticed

\* The first half of CameraState::apply, with a snapshot
LEMMA FormatRestoredKeeps ==
  ASSUME Inv, fault = "none", NEW t \in {"wq", "frame"}, pc[t] = "applyFormat", snapshot # NoSnapshot,
         NEW f \in Formats, SetFormat(t, f, "applySize"), UNCHANGED Rest, Counted
  PROVE  Inv'
<1>1. Moved(t, "stopBus")
  BY GotoMoves DEF Inv, SetFormat, Reinit, PlacesOf
<1>2. Noticed
  BY <1>1, Noticing DEF Inv
<1>3. FrameInPlace' /\ SpinInPlace'
  BY <1>1 DEF Inv, SetFormat, Reinit, Rest, FrameInPlace, SpinInPlace, SpinEndsUnlessDeleted
<1>4. Typed'
  BY <1>1, <1>3, BeginTypes, QuietRoom DEF Inv, SpinInPlace, RetInPlace, SetFormat, Reinit, Rest
<1>5. RetInPlace' /\ PhotoInPlace'
  <2>1. ret' = [ret EXCEPT ![t] = "applySize"] /\ UNCHANGED <<photo, snapshot, photoOn, photoMut>>
    BY DEF SetFormat, Reinit, Rest
  <2>2. CASE t = "wq"
    <3>1. ret'["wq"] = "applySize" /\ ret'["web"] = ret["web"] /\ pc'["wq"] = "stopBus"
      BY <1>1, <2>1, <2>2 DEF Inv
    <3>2. RetInPlace'
      BY <2>1, <3>1 DEF Inv, RetInPlace
    <3>3. QED  BY <1>1, <1>2, <2>1, <2>2, <3>2, PhotoStays
  <2>3. CASE t = "frame"
    <3>1. ret'["wq"] = ret["wq"] /\ ret'["web"] = ret["web"] /\ pc'["wq"] = pc["wq"]
      BY <1>1, <2>1, <2>3 DEF Inv
    <3>2. RetInPlace'
      BY <2>1, <3>1 DEF Inv, RetInPlace
    <3>3. QED  BY <1>1, <1>2, <2>1, <2>3, <3>2, PhotoStays
  <2>4. QED  BY <2>2, <2>3
<1>6. SizeInPlace'
  BY <1>1, <1>2 DEF Inv, SetFormat, Reinit, Rest, FrameInPlace, RetInPlace, PhotoInPlace,
     SizeInPlace, Noticed, OverlapKnown
<1>7. AviInPlace'
  BY <1>1, <1>2, <1>3, AviStays DEF SetFormat, Reinit, Rest
<1>8. QED  BY <1>1, <1>2, <1>3, <1>4, <1>5, <1>6, <1>7 DEF Inv, Noticed

LEMMA ApplyFormatKeeps ==
  ASSUME Inv, fault = "none", NEW t \in {"wq", "frame"}, ApplyFormat(t), Counted
  PROVE  Inv'
<1>1. CASE snapshot = NoSnapshot
  <2>1. Panic("noSnapshot") /\ UNCHANGED Rest
    BY <1>1 DEF ApplyFormat, Rest
  <2>2. QED  BY <2>1, PanicKeeps
<1>2. CASE snapshot # NoSnapshot
  <2>1. pc[t] = "applyFormat" /\ SetFormat(t, snapshot.format, "applySize") /\ UNCHANGED Rest
    BY <1>2 DEF ApplyFormat, Rest
  <2>2. snapshot.format \in Formats
    BY <1>2 DEF Inv
  <2>3. QED  BY <1>2, <2>1, <2>2, FormatRestoredKeeps
<1>3. QED  BY <1>1, <1>2

LEMMA WebResolutionKeeps ==
  ASSUME Inv, fault = "none", WebResolution, Counted
  PROVE  Inv'
<1>1. PICK s \in WebSizes : SetSize("web", s, "idle") \/ SizeRefused("web", s, "idle")
  BY DEF WebResolution
<1>2. s \in Sizes
  OBVIOUS
<1>3. CASE SetSize("web", s, "idle")
  <2>1. Moved("web", "stopBus")
    BY <1>2, <1>3, WebGoes DEF Inv, WebResolution, SetSize, Reinit
  <2>2. Noticed
    BY <2>1, Noticing DEF Inv
  <2>3. FrameInPlace' /\ SpinInPlace'
    BY <1>2, <1>3, <2>1 DEF Inv, WebResolution, SetSize, Reinit, FrameInPlace, SpinInPlace,
       SpinEndsUnlessDeleted
  <2>4. Typed'
    BY <1>2, <1>3, <2>1, <2>3, BeginTypes, QuietRoom DEF Inv, SpinInPlace, RetInPlace,
       WebResolution, SetSize, Reinit
  <2>5. RetInPlace' /\ PhotoInPlace'
    <3>1. ret' = [ret EXCEPT !["web"] = "idle"] /\ UNCHANGED <<photo, snapshot, photoOn, photoMut>>
      BY <1>3 DEF WebResolution, SetSize, Reinit
    <3>2. ret'["wq"] = ret["wq"] /\ pc'["wq"] = pc["wq"]
      BY <2>1, <3>1 DEF Inv
    <3>3. RetInPlace'
      BY <3>1, <3>2 DEF Inv, RetInPlace
    <3>4. QED  BY <2>1, <2>2, <3>1, <3>3, PhotoStays
  <2>6. SizeInPlace'
    BY <1>2, <1>3, <2>1, <2>2 DEF Inv, WebResolution, SetSize, Reinit, FrameInPlace, RetInPlace,
       PhotoInPlace, SizeInPlace, Noticed, OverlapKnown
  <2>7. AviInPlace'
    BY <1>2, <1>3, <2>1, <2>2, <2>3, AviStays DEF WebResolution, SetSize, Reinit
  <2>8. QED  BY <2>1, <2>2, <2>3, <2>4, <2>5, <2>6, <2>7 DEF Inv, Noticed
<1>4. CASE SizeRefused("web", s, "idle")
  <2>1. Moved("web", "idle")
    BY <1>2, <1>4, WebGoes DEF Inv, WebResolution, SizeRefused, MayFail
  <2>2. Noticed
    BY <2>1, Noticing DEF Inv
  <2>3. FrameInPlace' /\ SpinInPlace'
    BY <1>2, <1>4, <2>1 DEF Inv, WebResolution, SizeRefused, MayFail, FrameInPlace, SpinInPlace,
       SpinEndsUnlessDeleted
  <2>4. failures' \subseteq Failures
    BY <1>2, <1>4 DEF Inv, SizeRefused, MayFail
  <2>5. Typed'
    BY <1>2, <1>4, <2>1, <2>3, <2>4, BeginTypes, QuietRoom DEF Inv, SpinInPlace, RetInPlace,
       WebResolution, SizeRefused, MayFail
  <2>6. RetInPlace' /\ PhotoInPlace'
    BY <1>2, <1>4, <2>1, <2>2, RetStays, PhotoStays DEF WebResolution, SizeRefused, MayFail
  <2>7. SizeInPlace'
    BY <1>2, <1>4, <2>1, <2>2, SizeStays DEF WebResolution, SizeRefused, MayFail
  <2>8. AviInPlace'
    BY <1>2, <1>4, <2>1, <2>2, <2>3, AviStays DEF WebResolution, SizeRefused, MayFail
  <2>9. QED  BY <2>1, <2>2, <2>3, <2>5, <2>6, <2>7, <2>8 DEF Inv, Noticed
<1>5. QED  BY <1>1, <1>3, <1>4

LEMMA FramePhotoKeeps ==
  ASSUME Inv, fault = "none", FramePhoto, Counted
  PROVE  Inv'
<1>1. CASE photoOn
  <2>1. Moved("frame", "photoWrite")
    BY <1>1, FrameGoes DEF Inv, FramePhoto
  <2>2. Noticed
    BY <2>1, Noticing DEF Inv
  <2>3. FrameInPlace' /\ SpinInPlace'
    BY <1>1, <2>1 DEF Inv, FramePhoto, FrameInPlace, SpinInPlace, SpinEndsUnlessDeleted
  <2>4. Typed'
    BY <1>1, <2>1, <2>3, BeginTypes, QuietRoom DEF Inv, SpinInPlace, RetInPlace, FramePhoto
  <2>5. RetInPlace' /\ PhotoInPlace'
    BY <1>1, <2>1, <2>2 DEF Inv, FramePhoto, FrameInPlace, RetInPlace, PhotoInPlace,
       PhotoMutexSurvives, Noticed, OverlapKnown
  <2>6. SizeInPlace'
    BY <1>1, <2>1, <2>2, SizeStays DEF FramePhoto
  <2>7. AviInPlace'
    BY <1>1, <2>1, <2>2, <2>3, AviStays DEF FramePhoto
  <2>8. QED  BY <2>1, <2>2, <2>3, <2>4, <2>5, <2>6, <2>7 DEF Inv, Noticed
<1>2. CASE ~photoOn
  <2>1. Moved("frame", "avi")
    BY <1>2, FrameGoes DEF Inv, FramePhoto
  <2>2. Noticed
    BY <2>1, Noticing DEF Inv
  <2>3. FrameInPlace' /\ SpinInPlace'
    BY <1>2, <2>1 DEF Inv, FramePhoto, FrameInPlace, SpinInPlace, SpinEndsUnlessDeleted
  <2>4. Typed'
    BY <1>2, <2>1, <2>3, BeginTypes, QuietRoom DEF Inv, SpinInPlace, RetInPlace, FramePhoto
  <2>5. RetInPlace' /\ PhotoInPlace'
    BY <1>2, <2>1, <2>2 DEF Inv, FramePhoto, FrameInPlace, RetInPlace, PhotoInPlace,
       PhotoMutexSurvives, Noticed, OverlapKnown
  <2>6. SizeInPlace'
    BY <1>2, <2>1, <2>2, SizeStays DEF FramePhoto
  <2>7. AviInPlace'
    BY <1>2, <2>1, <2>2, <2>3, AviStays DEF FramePhoto
  <2>8. QED  BY <2>1, <2>2, <2>3, <2>4, <2>5, <2>6, <2>7 DEF Inv, Noticed
<1>3. QED  BY <1>1, <1>2

LEMMA FrameAviKeeps ==
  ASSUME Inv, fault = "none", FrameAvi, Counted
  PROVE  Inv'
<1>1. CASE aviOn
  <2>1. Moved("frame", "aviWrite")
    BY <1>1, FrameGoes DEF Inv, FrameAvi
  <2>2. Noticed
    BY <2>1, Noticing DEF Inv
  <2>3. FrameInPlace' /\ SpinInPlace'
    BY <1>1, <2>1 DEF Inv, FrameAvi, FrameInPlace, SpinInPlace, SpinEndsUnlessDeleted
  <2>4. Typed'
    BY <1>1, <2>1, <2>3, BeginTypes, QuietRoom DEF Inv, SpinInPlace, RetInPlace, FrameAvi
  <2>5. RetInPlace' /\ PhotoInPlace'
    BY <1>1, <2>1, <2>2, RetStays, PhotoStays DEF FrameAvi
  <2>6. SizeInPlace'
    BY <1>1, <2>1, <2>2, SizeStays DEF FrameAvi
  <2>7. AviInPlace'
    BY <1>1, <2>1, <2>2, <2>3 DEF Inv, FrameAvi, FrameInPlace, RetInPlace, AviInPlace,
       RecordingFileSafe, Noticed, OverlapKnown
  <2>8. QED  BY <2>1, <2>2, <2>3, <2>4, <2>5, <2>6, <2>7 DEF Inv, Noticed
<1>2. CASE ~aviOn
  <2>1. Moved("frame", "track")
    BY <1>2, FrameGoes DEF Inv, FrameAvi
  <2>2. Noticed
    BY <2>1, Noticing DEF Inv
  <2>3. FrameInPlace' /\ SpinInPlace'
    BY <1>2, <2>1 DEF Inv, FrameAvi, FrameInPlace, SpinInPlace, SpinEndsUnlessDeleted
  <2>4. Typed'
    BY <1>2, <2>1, <2>3, BeginTypes, QuietRoom DEF Inv, SpinInPlace, RetInPlace, FrameAvi
  <2>5. RetInPlace' /\ PhotoInPlace'
    BY <1>2, <2>1, <2>2, RetStays, PhotoStays DEF FrameAvi
  <2>6. SizeInPlace'
    BY <1>2, <2>1, <2>2, SizeStays DEF FrameAvi
  <2>7. AviInPlace'
    BY <1>2, <2>1, <2>2, <2>3 DEF Inv, FrameAvi, FrameInPlace, RetInPlace, AviInPlace,
       RecordingFileSafe, Noticed, OverlapKnown
  <2>8. QED  BY <2>1, <2>2, <2>3, <2>4, <2>5, <2>6, <2>7 DEF Inv, Noticed
<1>3. QED  BY <1>1, <1>2

LEMMA FrameAviWriteKeeps ==
  ASSUME Inv, fault = "none", FrameAviWrite, Counted
  PROVE  Inv'
<1>1. pc["frame"] = "aviWrite" /\ (~overlap => avi = "open")
  BY DEF Inv, AviInPlace, FrameAviWrite
<1>2. CASE avi = "none"
  <2>1. Panic("noAvi") /\ UNCHANGED Rest
    BY <1>2 DEF FrameAviWrite, Rest
  <2>2. QED  BY <1>1, <1>2, <2>1, PanicKeeps
<1>3. CASE avi = "closed"
  <2>1. Panic("closedAvi") /\ UNCHANGED Rest
    BY <1>3 DEF FrameAviWrite, Rest
  <2>2. QED  BY <1>1, <1>3, <2>1, PanicKeeps
<1>4. CASE avi = "open"
  <2>1. /\ Goto("frame", "track")
        /\ UNCHANGED <<cameraVars, key, ret, fault, failures, Rest>>
    BY <1>4 DEF FrameAviWrite, Rest
  <2>2. Moved("frame", "track")
    BY <1>1, <2>1, FrameGoes DEF Inv, Rest
  <2>3. Noticed
    BY <2>2, Noticing DEF Inv
  <2>4. FrameInPlace' /\ SpinInPlace'
    BY <1>1, <2>1, <2>2 DEF Inv, Rest, FrameInPlace, SpinInPlace, SpinEndsUnlessDeleted
  <2>5. Typed'
    BY <1>1, <2>1, <2>2, <2>4, BeginTypes, QuietRoom DEF Inv, SpinInPlace, RetInPlace, Rest
  <2>6. RetInPlace' /\ PhotoInPlace'
    BY <1>1, <2>1, <2>2, <2>3, RetStays, PhotoStays DEF Rest
  <2>7. SizeInPlace'
    BY <1>1, <2>1, <2>2, <2>3, SizeStays DEF Rest
  <2>8. AviInPlace'
    BY <1>1, <2>1, <2>2, <2>3, <2>4, AviStays DEF Rest
  <2>9. QED  BY <2>2, <2>3, <2>4, <2>5, <2>6, <2>7, <2>8 DEF Inv, Noticed
<1>5. QED  BY <1>2, <1>3, <1>4 DEF Inv

LEMMA FrameTrackKeeps ==
  ASSUME Inv, fault = "none", FrameTrack, Counted
  PROVE  Inv'
<1>1. queue' \in Seq(QueueTasks) /\ Len(queue') <= MaxQueue
  BY DEF Inv, FrameTrack, Enqueue, QueueTasks
<1>2. snapshot' \in Snapshots /\ (snapshot # NoSnapshot => snapshot' # NoSnapshot)
  BY DEF Inv, FrameTrack, snapshotInit
<1>3. \E to \in {"unlock", "trackInit", "trackFirst", "spin"} : Goto("frame", to)
  BY DEF Inv, FrameTrack
<1>4. /\ pc["frame"] = "track"
      /\ UNCHANGED <<cameraVars, key, ret, fault, failures, photoVars, aviVars, state, roiFits,
                     spinlock, updates, envVars>>
  BY DEF FrameTrack
<1>5. PICK to \in {"unlock", "trackInit", "trackFirst", "spin"} : Goto("frame", to)
  BY <1>3
<1>6. Moved("frame", to)
  BY <1>1, <1>2, <1>4, <1>5, FrameGoes DEF Inv, Points
<1>7. Noticed
  BY <1>6, Noticing DEF Inv
<1>8. FrameInPlace' /\ SpinInPlace'
  BY <1>1, <1>2, <1>4, <1>5, <1>6 DEF Inv, Points, FrameInPlace, SpinInPlace, SpinEndsUnlessDeleted
<1>9. Typed'
  BY <1>1, <1>2, <1>4, <1>5, <1>6, <1>8, BeginTypes, QuietRoom DEF Inv, SpinInPlace, RetInPlace,
     Points
<1>10. RetInPlace' /\ PhotoInPlace'
  BY <1>1, <1>2, <1>4, <1>5, <1>6, <1>7, RetStays, PhotoStays DEF Points
<1>11. SizeInPlace'
  BY <1>1, <1>2, <1>4, <1>5, <1>6, <1>7, SizeStays DEF Points
<1>12. AviInPlace'
  BY <1>1, <1>2, <1>4, <1>5, <1>6, <1>7, <1>8, AviStays DEF Points
<1>13. QED  BY <1>6, <1>7, <1>8, <1>9, <1>10, <1>11, <1>12 DEF Inv, Noticed

LEMMA FrameTrackInitKeeps ==
  ASSUME Inv, fault = "none", FrameTrackInit, Counted
  PROVE  Inv'
<1>1. CASE roiFits
  <2>1. Moved("frame", "unlock")
    BY <1>1, FrameGoes DEF Inv, FrameTrackInit
  <2>2. Noticed
    BY <2>1, Noticing DEF Inv
  <2>3. FrameInPlace' /\ SpinInPlace'
    BY <1>1, <2>1 DEF Inv, FrameTrackInit, FrameInPlace, SpinInPlace, SpinEndsUnlessDeleted
  <2>4. Typed'
    BY <1>1, <2>1, <2>3, BeginTypes, QuietRoom DEF Inv, SpinInPlace, RetInPlace, FrameTrackInit
  <2>5. RetInPlace' /\ PhotoInPlace'
    BY <1>1, <2>1, <2>2, RetStays, PhotoStays DEF FrameTrackInit
  <2>6. SizeInPlace'
    BY <1>1, <2>1, <2>2, SizeStays DEF FrameTrackInit
  <2>7. AviInPlace'
    BY <1>1, <2>1, <2>2, <2>3, AviStays DEF FrameTrackInit
  <2>8. QED  BY <2>1, <2>2, <2>3, <2>4, <2>5, <2>6, <2>7 DEF Inv, Noticed
<1>2. CASE ~roiFits
  <2>1. Moved("frame", "applyFormat")
    BY <1>2, FrameGoes DEF Inv, FrameTrackInit
  <2>2. Noticed
    BY <2>1, Noticing DEF Inv
  <2>3. FrameInPlace' /\ SpinInPlace'
    BY <1>2, <2>1 DEF Inv, FrameTrackInit, FrameInPlace, SpinInPlace, SpinEndsUnlessDeleted
  <2>4. Typed'
    BY <1>2, <2>1, <2>3, BeginTypes, QuietRoom DEF Inv, SpinInPlace, RetInPlace, FrameTrackInit
  <2>5. RetInPlace' /\ PhotoInPlace'
    BY <1>2, <2>1, <2>2, RetStays, PhotoStays DEF FrameTrackInit
  <2>6. SizeInPlace'
    BY <1>2, <2>1, <2>2, SizeStays DEF FrameTrackInit
  <2>7. AviInPlace'
    BY <1>2, <2>1, <2>2, <2>3, AviStays DEF FrameTrackInit
  <2>8. QED  BY <2>1, <2>2, <2>3, <2>4, <2>5, <2>6, <2>7 DEF Inv, Noticed
<1>3. QED  BY <1>1, <1>2

LEMMA StopBusKeeps ==
  ASSUME Inv, fault = "none", NEW t \in Owners, StopBus(t), UNCHANGED Rest, Counted
  PROVE  Inv'
<1>1. CASE ~driver
  <2>1. Panic("stopNull")
    BY <1>1 DEF StopBus
  <2>2. QED  BY <2>1, PanicKeeps
<1>2. CASE driver
  <2>1. /\ pc[t] = "stopBus" /\ rx' = FALSE /\ Goto(t, "deinit")
        /\ UNCHANGED <<driver, initialized, format, mode, nvs, key, stateLock, ret, fault, failures>>
    BY <1>2 DEF StopBus
  <2>2. Moved(t, "deinit")
    BY <2>1, GotoMoves DEF Inv, Rest, PlacesOf
  <2>3. Noticed
    BY <2>2, Noticing DEF Inv
  <2>4. FrameInPlace' /\ SpinInPlace'
    BY <2>1, <2>2 DEF Inv, Rest, FrameInPlace, SpinInPlace, SpinEndsUnlessDeleted
  <2>5. rx' \in BOOLEAN
    BY <2>1, Zenon DEF Inv, Rest
  <2>6. Typed'
    BY <2>1, <2>2, <2>4, <2>5, BeginTypes, QuietRoom DEF Inv, SpinInPlace, RetInPlace, Rest
  <2>7. RetInPlace' /\ PhotoInPlace'
    BY <2>1, <2>2, <2>3 DEF Inv, Rest, FrameInPlace, RetInPlace, PhotoInPlace, PhotoMutexSurvives,
       Noticed, OverlapKnown
  <2>8. SizeInPlace'
    BY <2>1, <2>2, <2>3 DEF Inv, Rest, FrameInPlace, RetInPlace, PhotoInPlace, SizeInPlace, Noticed,
       OverlapKnown
  <2>9. AviInPlace'
    BY <2>1, <2>2, <2>3, <2>4, AviStays DEF Rest
  <2>10. QED  BY <2>2, <2>3, <2>4, <2>6, <2>7, <2>8, <2>9 DEF Inv, Noticed
<1>3. QED  BY <1>1, <1>2

\* The frame task deletes itself, and what it holds is held for good.
LEMMA FrameTaskEndsItself ==
  ASSUME Inv, fault = "none", Deinit("frame"), photoMut' = Orphan(photoMut),
         UNCHANGED <<photoOn, photoFile, photoSem, photo, queue, aviVars, trackVars, envVars>>,
         Counted
  PROVE  Inv'
<1>1. Moved("frame", "none")
  BY FrameGoes DEF Inv, Deinit, Orphan
<1>2. Noticed
  BY <1>1, Noticing DEF Inv
<1>3. FrameInPlace' /\ SpinInPlace'
  BY <1>1 DEF Inv, Deinit, Orphan, FrameInPlace, SpinInPlace, SpinEndsUnlessDeleted
<1>4. Typed'
  BY <1>1, <1>3, BeginTypes, QuietRoom DEF Inv, SpinInPlace, RetInPlace, Deinit, Orphan
<1>5. RetInPlace' /\ PhotoInPlace'
  <2>1. /\ pc["frame"] = "deinit" /\ pc'["frame"] = "none" /\ pc'["wq"] = pc["wq"]
        /\ ret'["wq"] = ret["wq"] /\ UNCHANGED <<photoOn, photo, snapshot>>
    BY <1>1 DEF Inv, Deinit
  <2>2. RetInPlace'
    BY <2>1 DEF Inv, RetInPlace
  <2>3. photoMut # "frame" /\ photoMut' = photoMut
    BY <2>1 DEF Inv, PhotoInPlace, Orphan
  <2>4. PhotoInPlace'
    BY <1>2, <2>1, <2>3, PhotoStays
  <2>5. QED  BY <2>2, <2>4
<1>6. SizeInPlace'
  <2>1. /\ pc'["wq"] = pc["wq"] /\ ret'["wq"] = ret["wq"]
        /\ UNCHANGED <<mode, nvs, format, photo>>
    BY <1>1 DEF Inv, Deinit
  <2>2. QED  BY <1>2, <2>1 DEF Inv, SizeInPlace, Noticed
<1>7. AviInPlace'
  BY <1>1, <1>2, <1>3, AviStays DEF Deinit, Orphan
<1>8. QED  BY <1>1, <1>2, <1>3, <1>4, <1>5, <1>6, <1>7 DEF Inv, Noticed

\* Another task deletes it: while it writes a photograph only if tasks overlap, because the work
\* queue itself is then inside the subscription, where it does not reconfigure.
LEMMA DeinitKeeps ==
  ASSUME Inv, fault = "none", NEW t \in {"wq", "web"}, Deinit(t), photoMut' = Orphan(photoMut),
         UNCHANGED <<photoOn, photoFile, photoSem, photo, queue, aviVars, trackVars, envVars>>,
         Counted
  PROVE  Inv'
<1>1. /\ driver' = FALSE /\ rx' = FALSE
      /\ pc' = [pc EXCEPT ![t] = "init", !["frame"] = IF driver THEN "none" ELSE @]
      /\ key' = Orphan(key) /\ pc[t] = "deinit"
      /\ UNCHANGED <<initialized, format, mode, nvs, stateLock, ret, fault, failures>>
  BY DEF Deinit
<1>2. /\ pc' \in Points /\ pc'[t] = "init" /\ pc'["frame"] = "none"
      /\ \A u \in Tasks \ {t, "frame"} : pc'[u] = pc[u]
  BY <1>1 DEF Inv, FrameInPlace, Points
<1>3. Noticed
  BY <1>2, Noticing DEF Inv
<1>4. FrameInPlace' /\ SpinInPlace'
  BY <1>1, <1>2 DEF Inv, Orphan, FrameInPlace, SpinInPlace, SpinEndsUnlessDeleted
<1>5. driver' \in BOOLEAN /\ rx' \in BOOLEAN
  BY <1>1, Zenon DEF Inv, Orphan
<1>6. Typed'
  BY <1>1, <1>2, <1>4, <1>5, BeginTypes, QuietRoom DEF Inv, SpinInPlace, RetInPlace, Orphan
<1>7. RetInPlace'
  <2>1. UNCHANGED <<ret, snapshot, photo>>
    BY <1>1
  <2>2. pc'["wq"] = pc["wq"] \/ (pc["wq"] = "deinit" /\ pc'["wq"] = "init")
    <3>1. CASE t = "wq"
      BY <1>1, <1>2, <3>1
    <3>2. CASE t = "web"
      BY <1>2, <3>2
    <3>3. QED  BY <3>1, <3>2
  <2>3. QED  BY <2>1, <2>2 DEF Inv, RetInPlace
<1>8. PhotoInPlace'
  <2>1. photoMut = "frame" => overlap'
    <3>1. photoMut = "frame" => pc["wq"] \in {"photoWait", "photoDisable"}
      BY DEF Inv, PhotoInPlace
    <3>2. t = "web" => pc'["wq"] = pc["wq"] /\ pc'["web"] = "init"
      BY <1>2
    <3>3. QED  BY <1>1, <1>3, <3>1, <3>2 DEF Noticed, OverlapKnown
  <2>2. PhotoMutexSurvives'
    BY <1>3, <2>1 DEF Inv, Orphan, PhotoInPlace, PhotoMutexSurvives, Noticed
  <2>3. photoMut' # "frame" /\ pc'["frame"] # "photoWrite"
    BY <1>2 DEF Inv, Orphan
  <2>4. photoOn => pc["wq"] \in {"photoWait", "photoDisable"} /\ pc'["wq"] = pc["wq"]
    BY <1>1, <1>2 DEF Inv, PhotoInPlace
  <2>5. QED  BY <2>2, <2>3, <2>4 DEF PhotoInPlace
<1>9. SizeInPlace'
  BY <1>1, <1>2, <1>3 DEF Inv, Orphan, FrameInPlace, RetInPlace, PhotoInPlace, SizeInPlace, Noticed,
     OverlapKnown
<1>10. AviInPlace'
  <2>1. UNCHANGED <<aviOn, avi, fault>> /\ pc'["frame"] = "none"
    BY <1>1, <1>2
  <2>2. \A u \in {"wq", "timer"} :
          /\ pc'[u] \in {"recClose", "recNull", "recEnable"} => pc'[u] = pc[u]
          /\ pc[u] = "recNull" => pc'[u] = "recNull"
    BY <1>1, <1>2
  <2>3. QED  BY <1>3, <2>1, <2>2 DEF Inv, AviInPlace, RecordingFileSafe, Noticed
<1>11. QED  BY <1>2, <1>3, <1>4, <1>6, <1>7, <1>8, <1>9, <1>10 DEF Inv, Noticed

\* The end of a reconfiguration: the task goes on where it has to, with what it needs there.
LEMMA ReturnKeeps ==
  ASSUME Inv, NEW t \in {"wq", "web"}, ret' = [ret EXCEPT ![t] = "idle"], Moved(t, ret[t]),
         pc[t] \in ReinitPoints, UNCHANGED <<snapshot, photo>>
  PROVE  RetInPlace'
<1>1. CASE t = "wq"
  <2>1. ret'["wq"] = "idle" /\ ret'["web"] = ret["web"] /\ pc'["wq"] = ret["wq"]
    BY <1>1 DEF Inv
  <2>2. QED  BY <2>1 DEF Inv, RetInPlace
<1>2. CASE t = "web"
  <2>1. ret'["wq"] = ret["wq"] /\ pc'["wq"] = pc["wq"]
    BY <1>2 DEF Inv
  <2>2. QED  BY <2>1 DEF Inv, RetInPlace
<1>3. QED  BY <1>1, <1>2

LEMMA InitDriverKeeps ==
  ASSUME Inv, fault = "none", NEW t \in {"wq", "web"}, InitDriver(t), UNCHANGED Rest, Counted
  PROVE  Inv'
<1>1. CASE driver
  <2>1. Panic("twoFrameTasks")
    BY <1>1 DEF InitDriver
  <2>2. QED  BY <2>1, PanicKeeps
<1>2. CASE ~driver
  <2>1. /\ pc[t] = "init"
        /\ mode' = ModeFor(format)
        /\ UNCHANGED <<rx, format, nvs, key, stateLock, fault, Rest>>
    BY <1>2 DEF InitDriver
  <2>2. mode' \in Sizes /\ (format = "jpeg" /\ nvs = Photo => mode' = Photo)
    BY <2>1 DEF Inv, ModeFor, Limit
  <2>3. pc["frame"] = "none"
    BY <1>2 DEF Inv, FrameInPlace
  <2>4. CASE /\ driver' = TRUE /\ initialized' = TRUE
             /\ pc' = [pc EXCEPT ![t] = "startBus", !["frame"] = "idle"]
             /\ UNCHANGED <<ret, failures>>
    <3>1. UNCHANGED <<ret, failures>>
      BY <2>4
    <3>2. /\ pc' \in Points /\ pc'[t] = "startBus" /\ pc'["frame"] = "idle"
          /\ \A u \in Tasks \ {t, "frame"} : pc'[u] = pc[u]
      BY <2>1, <2>2, <2>3, <2>4 DEF Inv, Points
    <3>3. Noticed
      BY <3>2, Noticing DEF Inv
    <3>4. FrameInPlace' /\ SpinInPlace'
      BY <2>1, <2>2, <2>3, <2>4, <3>2 DEF Inv, Rest, FrameInPlace, SpinInPlace,
         SpinEndsUnlessDeleted
    <3>5. driver' \in BOOLEAN /\ initialized' \in BOOLEAN
      BY <2>1, <2>2, <2>3, <2>4, Zenon DEF Inv, Rest
    <3>6. Typed'
      BY <2>1, <2>2, <2>3, <2>4, <3>2, <3>4, <3>5, BeginTypes, QuietRoom DEF Inv, SpinInPlace,
         RetInPlace, Rest
    <3>7. RetInPlace' /\ PhotoInPlace'
      <4>1. UNCHANGED <<ret, snapshot, photo, photoOn, photoMut>>
        BY <2>1, <3>1 DEF Rest
      <4>2. pc'["wq"] = pc["wq"] \/ (pc["wq"] = "init" /\ pc'["wq"] = "startBus")
        BY <2>1, <3>2
      <4>3. RetInPlace'
        BY <4>1, <4>2 DEF Inv, RetInPlace
      <4>4. PhotoInPlace'
        BY <2>3, <3>2, <3>3, <4>1, <4>2, PhotoStays
      <4>5. QED  BY <4>3, <4>4
    <3>8. SizeInPlace'
      BY <2>1, <2>2, <2>3, <3>1, <3>2, <3>3 DEF Inv, Rest, FrameInPlace, RetInPlace, PhotoInPlace,
         SizeInPlace, Noticed, OverlapKnown
    <3>9. AviInPlace'
      BY <2>1, <2>2, <2>3, <3>1, <3>2, <3>3, <3>4, AviStays DEF Rest
    <3>10. QED  BY <3>2, <3>3, <3>4, <3>6, <3>7, <3>8, <3>9 DEF Inv, Noticed
  <2>5. CASE /\ initialized' = FALSE
             /\ failures' = failures \cup {"init"}
             /\ Resume(t)
             /\ UNCHANGED driver
    <3>1. /\ Goto(t, ret[t]) /\ ret' = [ret EXCEPT ![t] = "idle"] /\ ret[t] \in PlacesOf[t]
          /\ ret[t] \in {"idle", "photoEnable", "photoEnd", "applySize"}
      BY <2>5 DEF Inv, Resume, RetInPlace, PlacesOf
    <3>2. Moved(t, ret[t])
      BY <2>1, <2>2, <2>3, <2>5, <3>1, GotoMoves DEF Inv
    <3>3. Noticed
      BY <3>2, Noticing DEF Inv
    <3>4. FrameInPlace' /\ SpinInPlace'
      BY <2>1, <2>2, <2>3, <2>5, <3>1, <3>2 DEF Inv, Rest, FrameInPlace, SpinInPlace,
         SpinEndsUnlessDeleted
    <3>5. initialized' \in BOOLEAN
      BY <2>1, <2>2, <2>3, <2>5, <3>1, Zenon DEF Inv, Rest
    <3>6. failures' \subseteq Failures
      BY <2>1, <2>2, <2>3, <2>5, <3>1 DEF Inv, Rest
    <3>7. Typed'
      BY <2>1, <2>2, <2>3, <2>5, <3>1, <3>2, <3>4, <3>5, <3>6, BeginTypes, QuietRoom DEF Inv,
         SpinInPlace, RetInPlace, Rest
    <3>8. RetInPlace' /\ PhotoInPlace'
      <4>1. UNCHANGED <<snapshot, photo, photoOn, photoMut>>
        BY <2>1 DEF Rest
      <4>2. RetInPlace'
        BY <2>1, <3>1, <3>2, <4>1, ReturnKeeps
      <4>3. PhotoInPlace'
        BY <2>1, <2>3, <3>2, <3>3, <4>1, PhotoStays
      <4>4. QED  BY <4>2, <4>3
    <3>9. SizeInPlace'
      BY <2>1, <2>2, <2>3, <3>1, <3>2, <3>3 DEF Inv, Rest, FrameInPlace, RetInPlace, PhotoInPlace,
         SizeInPlace, Noticed, OverlapKnown
    <3>10. AviInPlace'
      <4>1. UNCHANGED <<aviOn, avi, fault>>
        BY <2>1 DEF Rest
      <4>2. QED  BY <2>1, <3>1, <3>2, <3>3, <4>1, AviStays
    <3>11. QED  BY <3>2, <3>3, <3>4, <3>7, <3>8, <3>9, <3>10 DEF Inv, Noticed
  <2>6. QED  BY <1>2, <2>4, <2>5 DEF InitDriver
<1>3. QED  BY <1>1, <1>2 DEF Inv

LEMMA StartBusKeeps ==
  ASSUME Inv, fault = "none", NEW t \in {"wq", "web"}, StartBus(t), UNCHANGED Rest, Counted
  PROVE  Inv'
<1>1. CASE ~driver
  <2>1. Panic("runNull")
    BY <1>1 DEF StartBus
  <2>2. QED  BY <2>1, PanicKeeps
<1>2. CASE /\ pc[t] = "startBus" /\ driver
           /\ rx' = TRUE
           /\ Resume(t)
           /\ UNCHANGED <<driver, initialized, format, mode, nvs, key, stateLock, fault, failures>>
  <2>1. /\ Goto(t, ret[t]) /\ ret' = [ret EXCEPT ![t] = "idle"] /\ ret[t] \in PlacesOf[t]
        /\ ret[t] \in {"idle", "photoEnable", "photoEnd", "applySize"}
    BY <1>2 DEF Inv, Resume, RetInPlace, PlacesOf
  <2>2. Moved(t, ret[t])
    BY <1>2, <2>1, GotoMoves DEF Inv
  <2>3. Noticed
    BY <2>2, Noticing DEF Inv
  <2>4. FrameInPlace' /\ SpinInPlace'
    BY <1>2, <2>1, <2>2 DEF Inv, Rest, FrameInPlace, SpinInPlace, SpinEndsUnlessDeleted
  <2>5. rx' \in BOOLEAN
    BY <1>2, <2>1, Zenon DEF Inv, Rest
  <2>6. Typed'
    BY <1>2, <2>1, <2>2, <2>4, <2>5, BeginTypes, QuietRoom DEF Inv, SpinInPlace, RetInPlace, Rest
  <2>7. RetInPlace' /\ PhotoInPlace'
    <3>1. UNCHANGED <<snapshot, photo, photoOn, photoMut>>
      BY DEF Rest
    <3>2. RetInPlace'
      BY <1>2, <2>1, <2>2, <3>1, ReturnKeeps
    <3>3. PhotoInPlace'
      BY <1>2, <2>2, <2>3, <3>1, PhotoStays
    <3>4. QED  BY <3>2, <3>3
  <2>8. SizeInPlace'
    BY <1>2, <2>1, <2>2, <2>3 DEF Inv, Rest, FrameInPlace, RetInPlace, PhotoInPlace, SizeInPlace,
       Noticed, OverlapKnown
  <2>9. AviInPlace'
    <3>1. UNCHANGED <<aviOn, avi, fault>>
      BY <1>2 DEF Rest
    <3>2. QED  BY <1>2, <2>1, <2>2, <2>3, <3>1, AviStays
  <2>10. QED  BY <2>2, <2>3, <2>4, <2>6, <2>7, <2>8, <2>9 DEF Inv, Noticed
<1>3. CASE /\ pc[t] = "startBus" /\ driver
           /\ fault' = "assertFailed"
           /\ failures' = failures \cup {"vsync"}
           /\ UNCHANGED <<cameraVars, key, pc, ret>>
  <2>1. pc' = pc /\ pc' \in Points
    BY <1>3 DEF Inv, Rest
  <2>2. Noticed
    BY <2>1, Noticing DEF Inv
  <2>3. FrameInPlace' /\ SpinInPlace'
    BY <1>3, <2>1 DEF Inv, Rest, FrameInPlace, SpinInPlace, SpinEndsUnlessDeleted
  <2>4. failures' \subseteq Failures
    BY <1>3 DEF Inv, Rest
  <2>5. Typed'
    BY <1>3, <2>1, <2>3, <2>4, BeginTypes, QuietRoom DEF Inv, SpinInPlace, RetInPlace, Rest
  <2>6. RetInPlace' /\ PhotoInPlace'
    BY <1>3, <2>1, <2>2, RetStays, PhotoStays DEF Rest
  <2>7. SizeInPlace'
    BY <1>3, <2>1, <2>2, SizeStays DEF Rest
  <2>8. AviInPlace'
    BY <1>3, <2>1, <2>2, <2>3 DEF Inv, Rest, FrameInPlace, RetInPlace, AviInPlace,
       RecordingFileSafe, Noticed, OverlapKnown
  <2>9. QED  BY <2>1, <2>2, <2>3, <2>5, <2>6, <2>7, <2>8 DEF Inv, Noticed
<1>4. QED  BY <1>1, <1>2, <1>3 DEF StartBus, Inv

LEMMA ReconfigureKeeps ==
  ASSUME Inv, fault = "none", NEW t \in Owners, Reconfigure(t), Counted
  PROVE  Inv'
<1>1. CASE t = "frame"
  <2>1. pc["frame"] \notin {"init", "startBus"}
    BY DEF Inv, FrameInPlace
  <2>2. (StopBus("frame") /\ UNCHANGED Rest) \/ Deinit("frame")
    BY <1>1, <2>1 DEF Reconfigure, InitDriver, StartBus, Rest
  <2>3. CASE StopBus("frame") /\ UNCHANGED Rest
    BY <2>3, StopBusKeeps
  <2>4. CASE Deinit("frame")
    <3>1. ~StopBus("frame")
      BY <2>4 DEF StopBus, Deinit
    <3>2. QED  BY <1>1, <2>1, <2>4, <3>1, FrameTaskEndsItself DEF Reconfigure, InitDriver, StartBus
  <2>5. QED  BY <2>2, <2>3, <2>4
<1>2. CASE t \in {"wq", "web"}
  <2>1. CASE (StopBus(t) \/ InitDriver(t) \/ StartBus(t)) /\ UNCHANGED Rest
    BY <1>2, <2>1, StopBusKeeps, InitDriverKeeps, StartBusKeeps
  <2>2. CASE Deinit(t) /\ photoMut' = Orphan(photoMut)
    BY <1>2, <2>2, DeinitKeeps DEF Reconfigure
  <2>3. QED  BY <2>1, <2>2 DEF Reconfigure, Rest
<1>3. QED  BY <1>1, <1>2

-----------------------------------------------------------------------------
(* The whole *)

LEMMA InitHolds == Init => Inv
<1>1. SUFFICES ASSUME Init PROVE Inv
  OBVIOUS
<1>2. pc \in Points /\ overlap \in BOOLEAN
  BY <1>1 DEF Init, Points
<1>3. CameraTypeOK
  BY <1>1 DEF Init, CameraInit
<1>4. photo \in [prev : Sizes \cup {0}, written : Sizes \cup {0}] /\ snapshot \in Snapshots
  BY <1>1 DEF Init
<1>5. ret \in [Owners -> WqPoints] /\ ret["web"] = "idle"
  BY <1>1 DEF Init, CameraInit
<1>6. queue \in Seq(QueueTasks) /\ Len(queue) <= MaxQueue /\ sent \in 0..MaxCommands
  BY <1>1 DEF Init
<1>7. spinlock \in {"wait", "done"} /\ state \in States /\ fault \in Faults
  BY <1>1 DEF Init, CameraInit
<1>8. photoOn \in BOOLEAN /\ aviOn \in BOOLEAN /\ roiFits \in BOOLEAN /\ armed \in BOOLEAN
  BY <1>1, Zenon DEF Init
<1>9. Typed
  BY <1>1, <1>3, <1>4, <1>5, <1>6, <1>7, <1>8 DEF Init
<1>10. FrameInPlace /\ SpinInPlace
  BY <1>1 DEF Init, CameraInit, FrameInPlace, SpinInPlace, SpinEndsUnlessDeleted
<1>11. RetInPlace /\ PhotoInPlace /\ SizeInPlace
  BY <1>1 DEF Init, CameraInit, RetInPlace, PhotoInPlace, PhotoMutexSurvives, SizeInPlace
<1>12. AviInPlace
  BY <1>1 DEF Init, CameraInit, AviInPlace, RecordingFileSafe
<1>13. OverlapKnown
  BY <1>1 DEF Init, OverlapKnown
<1>14. QED  BY <1>2, <1>9, <1>10, <1>11, <1>12, <1>13 DEF Inv

LEMMA TimerKeeps ==
  ASSUME Inv, fault = "none", Timer, Counted
  PROVE  Inv'
<1>1. CASE TimerFires
  BY <1>1, TimerFiresKeeps
<1>2. CASE StopDisable("timer")
  BY <1>2, StopDisableKeeps
<1>3. CASE StopClose("timer")
  BY <1>3, StopCloseKeeps
<1>4. CASE StopEnd("timer")
  BY <1>4, StopEndKeeps
<1>5. QED  BY <1>1, <1>2, <1>3, <1>4 DEF Timer

LEMMA WqTaskKeeps ==
  ASSUME Inv, fault = "none", WqTask, Counted
  PROVE  Inv'
<1>1. CASE PhotoOpen \/ PhotoFails \/ PhotoSize
  BY <1>1, PhotoOpenKeeps, PhotoFailsKeeps, PhotoSizeKeeps
<1>2. CASE PhotoEnable \/ PhotoWait \/ PhotoDisable
  BY <1>2, PhotoEnableKeeps, PhotoWaitKeeps, PhotoDisableKeeps
<1>3. CASE PhotoFinish \/ PhotoRestore \/ PhotoEnd
  BY <1>3, PhotoFinishKeeps, PhotoRestoreKeeps, PhotoEndKeeps
<1>4. CASE RecordStart \/ RecordEnable \/ RecordStop
  BY <1>4, RecordStartKeeps, RecordEnableKeeps, RecordStopKeeps
<1>5. CASE StopDisable("wq") \/ StopClose("wq") \/ StopEnd("wq")
  BY <1>5, StopDisableKeeps, StopCloseKeeps, StopEndKeeps
<1>6. CASE Track \/ TrackStop \/ ApplyFormat("wq") \/ ApplySize \/ CamConf
  BY <1>6, TrackKeeps, TrackStopKeeps, ApplyFormatKeeps, ApplySizeKeeps, CamConfKeeps
<1>7. CASE Reconfigure("wq") \/ TrackerUpdate
  BY <1>7, ReconfigureKeeps, TrackerUpdateKeeps
<1>8. QED  BY <1>1, <1>2, <1>3, <1>4, <1>5, <1>6, <1>7 DEF WqTask, WqCommand

LEMMA DmaFilterKeeps ==
  ASSUME Inv, fault = "none", DmaFilter, Counted
  PROVE  Inv'
<1>1. CASE /\ FrameReceived \/ FrameDone \/ LockKey("photo") \/ UnlockKey
           /\ UNCHANGED <<queue, photoVars, aviVars, trackVars, envVars>>
  <2>1. UNCHANGED Rest
    BY <1>1 DEF Rest
  <2>2. QED  BY <1>1, <2>1, FrameReceivedKeeps, FrameDoneKeeps, LockKeyKeeps, UnlockKeyKeeps
<1>2. CASE FramePhoto \/ FramePhotoWrite \/ FrameAvi \/ FrameAviWrite
  BY <1>2, FramePhotoKeeps, FramePhotoWriteKeeps, FrameAviKeeps, FrameAviWriteKeeps
<1>3. CASE FrameTrack \/ FrameTrackInit \/ FrameTrackFirst \/ FrameSpin \/ FramePush
  BY <1>3, FrameTrackKeeps, FrameTrackInitKeeps, FrameTrackFirstKeeps, FrameSpinKeeps,
     FramePushKeeps
<1>4. CASE ApplyFormat("frame") \/ Reconfigure("frame")
  BY <1>4, ApplyFormatKeeps, ReconfigureKeeps
<1>5. QED  BY <1>1, <1>2, <1>3, <1>4 DEF DmaFilter

LEMMA StutterKeeps ==
  ASSUME Inv, UNCHANGED vars
  PROVE  Inv'
<1>1. pc' \in Points /\ overlap' \in BOOLEAN /\ Typed'
  BY DEF Inv, vars
<1>2. FrameInPlace' /\ SpinInPlace' /\ RetInPlace'
  BY DEF Inv, vars, FrameInPlace, SpinInPlace, SpinEndsUnlessDeleted, RetInPlace
<1>3. PhotoInPlace' /\ SizeInPlace'
  BY DEF Inv, vars, PhotoInPlace, PhotoMutexSurvives, SizeInPlace
<1>4. AviInPlace' /\ OverlapKnown'
  BY DEF Inv, vars, AviInPlace, RecordingFileSafe, OverlapKnown
<1>5. QED  BY <1>1, <1>2, <1>3, <1>4 DEF Inv

LEMMA NextKeeps == Inv /\ [Next]_vars => Inv'
<1>1. SUFFICES ASSUME Inv, [Next]_vars PROVE Inv'
  OBVIOUS
<1>2. CASE UNCHANGED vars
  BY <1>1, <1>2, StutterKeeps
<1>3. CASE Step(Command)
  BY <1>1, <1>3, CommandKeeps DEF Step, Counted
<1>4. CASE Step(WifiDisconnected)
  BY <1>1, <1>4, WifiDisconnectedKeeps DEF Step, Counted
<1>5. CASE Step(WebTask)
  BY <1>1, <1>5, WebResolutionKeeps, ReconfigureKeeps DEF Step, Counted, WebTask
<1>6. CASE Step(Timer)
  BY <1>1, <1>6, TimerKeeps DEF Step, Counted
<1>7. CASE Step(WqTask)
  BY <1>1, <1>7, WqTaskKeeps DEF Step, Counted
<1>8. CASE Step(DmaFilter)
  BY <1>1, <1>8, DmaFilterKeeps DEF Step, Counted
<1>9. QED  BY <1>1, <1>2, <1>3, <1>4, <1>5, <1>6, <1>7, <1>8 DEF Next

LEMMA InvHolds == Spec => []Inv
BY InitHolds, NextKeeps, PTL DEF Spec
-----------------------------------------------------------------------------
(* The user's format *)

HIDE CameraAssumption
HIDE DEF cameraVars, photoVars, aviVars, trackVars, envVars, camera, Typed, CameraTypeOK, Sizes,
         Small, Usual, Photo, Huge, Formats, Holders, Failures, Faults, Owners, Tasks, Moved,
         NoPhoto, States, Snapshots, NoSnapshot, WqPoints, PhotoPoints, FramePoints, ReinitPoints,
         StopPoints, ApplyPoints, CameraPoints, RecorderPoints, Notifying

\* A request for grayscale frames is in the work queue.
Asked == \E i \in 1..Len(queue) : queue[i] = "camConf"

\* A task is about to restore the format.
Restoring == "applyFormat" \in {pc["wq"], pc["frame"]}

\* There is a snapshot before anybody asks for grayscale frames: the tracker asks while there
\* are frames, and so a camera that has been initialised.
FormatInv ==
  /\ driver => initialized
  /\ Asked \/ format = "grayscale" => snapshot # NoSnapshot
  /\ FormatIsUsers

\* A task taken from the work queue asks for nothing more.
LEMMA AskedLater ==
  ASSUME queue \in Seq(QueueTasks), queue # <<>>, queue' = Tail(queue)
  PROVE  Asked' => Asked
<1>1. SUFFICES ASSUME NEW i \in 1..Len(queue'), queue'[i] = "camConf" PROVE Asked
  BY DEF Asked
<1>2. i + 1 \in 1..Len(queue) /\ queue[i + 1] = queue'[i]
  BY <1>1
<1>3. QED  BY <1>1, <1>2 DEF Asked

LEMMA AskedFirst ==
  ASSUME queue \in Seq(QueueTasks), queue # <<>>, Head(queue) = "camConf"
  PROVE  Asked
<1>1. 1 \in 1..Len(queue) /\ queue[1] = "camConf"
  OBVIOUS
<1>2. QED  BY <1>1 DEF Asked

\* Nor does a command that is added.
LEMMA AskedEarlier ==
  ASSUME queue \in Seq(QueueTasks), NEW c \in QueueTasks, c # "camConf", queue' = Append(queue, c)
  PROVE  Asked' => Asked
<1>1. SUFFICES ASSUME NEW i \in 1..Len(queue'), queue'[i] = "camConf" PROVE Asked
  BY DEF Asked
<1>2. i \in 1..Len(queue) /\ queue[i] = queue'[i]
  BY <1>1
<1>3. QED  BY <1>1, <1>2 DEF Asked

\* What a step must leave alone to be of no concern here
LEMMA FormatStays ==
  ASSUME FormatInv, overlap => overlap', driver' => initialized', Asked' => Asked,
         UNCHANGED <<format, state, snapshot>>, Restoring => Restoring' \/ overlap'
  PROVE  FormatInv'
BY DEF FormatInv, FormatIsUsers, Restoring

LEMMA QueueTyped ==
  ASSUME Inv
  PROVE  queue \in Seq(QueueTasks) /\ pc \in Points /\ format \in Formats
BY DEF Inv, Typed, CameraTypeOK

\* A step that only moves tasks other than by a restoration
Elsewhere ==
  /\ UNCHANGED <<driver, initialized, format, state, snapshot>>
  /\ Asked' => Asked
  /\ Restoring => Restoring'

LEMMA ElsewhereKeeps ==
  ASSUME FormatInv, overlap => overlap', Elsewhere
  PROVE  FormatInv'
<1>1. driver' => initialized'
  BY DEF FormatInv, Elsewhere
<1>2. QED  BY <1>1, FormatStays DEF Elsewhere

\* A task of the work queue begins, with the queue idle.
LEMMA BeginElsewhere ==
  ASSUME Inv, NEW task, Begin(task)
  PROVE  pc["wq"] = "idle" /\ (Asked' => Asked)
BY QueueTyped, AskedLater DEF Begin

LEMMA PcMoves ==
  ASSUME pc \in Points, NEW t \in {"wq", "web", "timer", "frame"}, NEW to, Goto(t, to),
         pc[t] # "applyFormat"
  PROVE  Restoring => Restoring'
<1>1. pc'["wq"] = (IF t = "wq" THEN to ELSE pc["wq"]) /\ pc'["frame"] = (IF t = "frame" THEN to ELSE pc["frame"])
  BY DEF Goto, Points
<1>2. QED  BY <1>1 DEF Restoring

\* Commands, recordings and the timer are elsewhere; so are photographs and the web page, which
\* switch the size and not the format.
LEMMA OthersElsewhere ==
  ASSUME Inv, Command \/ WifiDisconnected \/ Timer \/ WebResolution
  PROVE  Elsewhere
<1>1. CASE Command
  <2>1. PICK c \in Commands : queue' = Append(queue, c)
    BY <1>1 DEF Command
  <2>2. c \in QueueTasks /\ c # "camConf"
    BY DEF Commands, QueueTasks
  <2>3. Asked' => Asked
    BY <2>1, <2>2, QueueTyped, AskedEarlier
  <2>4. QED  BY <1>1, <2>3 DEF Command, Elsewhere, Restoring, camera, cameraVars, trackVars
<1>2. CASE WifiDisconnected
  BY <1>2 DEF WifiDisconnected, Elsewhere, Restoring, Asked, camera, cameraVars, trackVars
<1>3. CASE Timer
  <2>1. \/ pc' = pc
        \/ pc["timer"] # "applyFormat" /\ \E to \in {"recDisable", "recClose", "recNull", "idle"} : Goto("timer", to)
    BY <1>3 DEF Timer, TimerFires, StopDisable, StopClose, StopEnd, Panic, Goto
  <2>2. UNCHANGED <<queue, driver, initialized, format, state, snapshot>>
    BY <1>3 DEF Timer, TimerFires, StopDisable, StopClose, StopEnd, Panic, cameraVars, trackVars
  <2>3. Restoring => Restoring'
    BY <2>1, QueueTyped, PcMoves DEF Restoring
  <2>4. QED  BY <2>2, <2>3 DEF Elsewhere, Asked
<1>4. CASE WebResolution
  <2>1. pc["web"] = "idle" /\ \E to \in {"stopBus", "idle"} : Goto("web", to)
    BY <1>4 DEF WebResolution, SetSize, SizeRefused, Reinit
  <2>2. UNCHANGED <<queue, driver, initialized, format, state, snapshot>>
    BY <1>4 DEF WebResolution, SetSize, SizeRefused, cameraVars, trackVars
  <2>3. Restoring => Restoring'
    BY <2>1, QueueTyped, PcMoves
  <2>4. QED  BY <2>2, <2>3 DEF Elsewhere, Asked
<1>5. QED  BY <1>1, <1>2, <1>3, <1>4

LEMMA PhotoElsewhere ==
  ASSUME Inv, \/ PhotoOpen \/ PhotoFails \/ PhotoSize \/ PhotoEnable \/ PhotoWait \/ PhotoDisable
              \/ PhotoFinish \/ PhotoRestore \/ PhotoEnd
  PROVE  Elsewhere
<1>1. UNCHANGED <<driver, initialized, format, state, snapshot>>
  BY DEF PhotoOpen, PhotoFails, PhotoSize, PhotoEnable, PhotoWait, PhotoDisable, PhotoFinish,
     PhotoRestore, PhotoEnd, Answer, SetSize, SizeRefused, camera, cameraVars, trackVars
<1>2. Asked' => Asked
  <2>1. CASE PhotoOpen \/ PhotoFails
    BY <2>1, BeginElsewhere DEF PhotoOpen, PhotoFails, Answer
  <2>2. CASE ~(PhotoOpen \/ PhotoFails)
    BY <2>2 DEF PhotoSize, PhotoEnable, PhotoWait, PhotoDisable, PhotoFinish, PhotoRestore, PhotoEnd,
       Asked
  <2>3. QED  BY <2>1, <2>2
<1>3. pc["wq"] # "applyFormat"
  BY DEF PhotoOpen, PhotoFails, PhotoSize, PhotoEnable, PhotoWait, PhotoDisable, PhotoFinish,
     PhotoRestore, PhotoEnd, Answer, Begin
<1>4. pc' = pc \/ \E to : Goto("wq", to)
  BY DEF PhotoOpen, PhotoFails, PhotoSize, PhotoEnable, PhotoWait, PhotoDisable, PhotoFinish,
     PhotoRestore, PhotoEnd, Answer, SetSize, SizeRefused, Reinit, camera
<1>5. Restoring => Restoring'
  BY <1>3, <1>4, QueueTyped, PcMoves DEF Restoring
<1>6. QED  BY <1>1, <1>2, <1>5 DEF Elsewhere

LEMMA RecordElsewhere ==
  ASSUME Inv, \/ RecordStart \/ RecordEnable \/ RecordStop
              \/ StopDisable("wq") \/ StopClose("wq") \/ StopEnd("wq")
  PROVE  Elsewhere
<1>1. UNCHANGED <<driver, initialized, format, state, snapshot>>
  BY DEF RecordStart, RecordEnable, RecordStop, StopDisable, StopClose, StopEnd, Answer, Panic,
     camera, cameraVars, trackVars
<1>2. Asked' => Asked
  <2>1. CASE RecordStart \/ RecordStop
    BY <2>1, BeginElsewhere DEF RecordStart, RecordStop, Answer
  <2>2. CASE ~(RecordStart \/ RecordStop)
    BY <2>2 DEF RecordEnable, StopDisable, StopClose, StopEnd, Asked
  <2>3. QED  BY <2>1, <2>2
<1>3. pc["wq"] # "applyFormat"
  BY DEF RecordStart, RecordEnable, RecordStop, StopDisable, StopClose, StopEnd, Answer, Begin
<1>4. pc' = pc \/ \E to : Goto("wq", to)
  BY DEF RecordStart, RecordEnable, RecordStop, StopDisable, StopClose, StopEnd, Answer, Panic,
     camera
<1>5. Restoring => Restoring'
  BY <1>3, <1>4, QueueTyped, PcMoves DEF Restoring
<1>6. QED  BY <1>1, <1>2, <1>5 DEF Elsewhere

\* dma_filter outside the tracker
LEMMA FrameElsewhere ==
  ASSUME Inv, \/ /\ FrameReceived \/ FrameDone \/ LockKey("photo") \/ UnlockKey
                 /\ UNCHANGED <<queue, photoVars, aviVars, trackVars, envVars>>
              \/ FramePhoto \/ FramePhotoWrite \/ FrameAvi \/ FrameAviWrite
              \/ FrameSpin \/ FramePush
  PROVE  Elsewhere
<1>0. avi \in {"none", "open", "closed"}
  BY DEF Inv, Typed
<1>1. UNCHANGED <<queue, driver, initialized, format, state, snapshot>>
  BY <1>0 DEF FrameReceived, FrameDone, RestartReception, LockKey, UnlockKey, FramePhoto,
     FramePhotoWrite, FrameAvi, FrameAviWrite, FrameSpin, FramePush, Panic, cameraVars, trackVars
<1>2. pc["frame"] # "applyFormat"
  BY DEF FrameReceived, FrameDone, LockKey, UnlockKey, FramePhoto, FramePhotoWrite, FrameAvi,
     FrameAviWrite, FrameSpin, FramePush
<1>3. pc' = pc \/ \E to : Goto("frame", to)
  BY <1>0 DEF FrameReceived, FrameDone, LockKey, UnlockKey, FramePhoto, FramePhotoWrite, FrameAvi,
     FrameAviWrite, FrameSpin, FramePush, Panic
<1>4. Restoring => Restoring'
  BY <1>2, <1>3, QueueTyped, PcMoves DEF Restoring
<1>5. QED  BY <1>1, <1>4 DEF Elsewhere, Asked

\* The tracker's commands.  What leaves the states of a session restores the format next.
LEMMA TrackFormat ==
  ASSUME Inv, FormatInv, overlap => overlap', Track
  PROVE  FormatInv'
<1>1. PICK task \in {"track", "trackBadRoi"} :
        /\ Begin(task)
        /\ snapshot' = snapshotInit(snapshot)
        /\ state' = IF state \in Configured THEN "TrackerInit" ELSE "CamConfStart"
        /\ UNCHANGED camera
  BY DEF Track
<1>2. UNCHANGED <<driver, initialized, format, pc>>
  BY <1>1 DEF camera, cameraVars
<1>3. Asked' => Asked
  BY <1>1, BeginElsewhere
<1>4. snapshot' = snapshot \/ (snapshot = NoSnapshot /\ snapshot' = [format |-> format, size |-> mode])
  BY <1>1 DEF snapshotInit
<1>5. snapshot = NoSnapshot => format # "grayscale" /\ ~Asked
  BY DEF FormatInv
<1>6. snapshot'.format # "grayscale"
  BY <1>4, <1>5 DEF FormatInv, FormatIsUsers
<1>7. state' \in Configured \/ state \notin Configured
  BY <1>1 DEF Configured
<1>8. QED  BY <1>2, <1>3, <1>4, <1>5, <1>6, <1>7 DEF FormatInv, FormatIsUsers

LEMMA TrackStopFormat ==
  ASSUME Inv, FormatInv, overlap => overlap', TrackStop
  PROVE  FormatInv'
<1>1. UNCHANGED <<driver, initialized, format, snapshot>>
  BY DEF TrackStop, Answer, camera, cameraVars, trackVars
<1>2. Asked' => Asked
  BY BeginElsewhere DEF TrackStop, Answer
<1>3. CASE state = "Disabled"
  <2>1. pc' = pc /\ state' = state
    BY <1>3 DEF TrackStop, Answer, camera, trackVars
  <2>2. QED  BY <1>1, <1>2, <2>1, FormatStays DEF FormatInv, Restoring
<1>4. CASE state # "Disabled"
  <2>1. Goto("wq", "applyFormat")
    BY <1>4 DEF TrackStop
  <2>2. pc'["wq"] = "applyFormat"
    BY <2>1, QueueTyped DEF Goto, Points
  <2>3. QED  BY <1>1, <1>2, <2>2 DEF FormatInv, FormatIsUsers
<1>5. QED  BY <1>3, <1>4

\* The snapshot's format is not the one that the tracker has set.
LEMMA ApplyFormatFormat ==
  ASSUME Inv, FormatInv, overlap => overlap', NEW t \in {"wq", "frame"}, ApplyFormat(t)
  PROVE  FormatInv'
<1>1. UNCHANGED <<queue, state, snapshot, driver, initialized>>
  BY DEF ApplyFormat, Panic, SetFormat, cameraVars, trackVars
<1>2. Asked' => Asked
  BY <1>1 DEF Asked
<1>3. CASE snapshot = NoSnapshot
  <2>1. UNCHANGED <<format, pc>>
    BY <1>3 DEF ApplyFormat, Panic, cameraVars
  <2>2. QED  BY <1>1, <1>2, <2>1, FormatStays DEF FormatInv, Restoring
<1>4. CASE snapshot # NoSnapshot
  <2>1. format' = snapshot.format
    BY <1>4 DEF ApplyFormat, SetFormat
  <2>2. snapshot'.format # "grayscale" /\ format' # "grayscale"
    BY <1>1, <2>1 DEF FormatInv, FormatIsUsers
  <2>3. QED  BY <1>1, <1>2, <1>4, <2>2 DEF FormatInv, FormatIsUsers
<1>5. QED  BY <1>3, <1>4

LEMMA ApplySizeElsewhere ==
  ASSUME Inv, ApplySize \/ TrackerUpdate
  PROVE  Elsewhere
<1>1. UNCHANGED <<queue, state, snapshot, driver, initialized, format>>
  BY DEF ApplySize, TrackerUpdate, SetSize, SizeRefused, camera, cameraVars, trackVars
<1>2. pc["wq"] # "applyFormat" /\ (pc' = pc \/ \E to : Goto("wq", to))
  BY DEF ApplySize, TrackerUpdate, SetSize, SizeRefused, Reinit, camera
<1>3. Restoring => Restoring'
  BY <1>2, QueueTyped, PcMoves DEF Restoring
<1>4. QED  BY <1>1, <1>3 DEF Elsewhere, Asked

\* The camera is switched to grayscale for somebody who has asked, and so has a snapshot.
LEMMA CamConfFormat ==
  ASSUME Inv, FormatInv, overlap => overlap', CamConf
  PROVE  FormatInv'
<1>1. /\ Begin("camConf") /\ state' = "TrackerInit"
      /\ UNCHANGED <<snapshot, driver, initialized>>
  BY DEF CamConf, SetFormat
<1>2. Asked
  BY <1>1, QueueTyped, AskedFirst DEF Begin
<1>3. snapshot # NoSnapshot /\ snapshot.format # "grayscale"
  BY <1>2 DEF FormatInv, FormatIsUsers
<1>4. state' \in Configured
  BY <1>1 DEF Configured
<1>5. QED  BY <1>1, <1>3, <1>4 DEF FormatInv, FormatIsUsers

\* The tracker in dma_filter.  A frame has come, so there is something to take a snapshot of.
LEMMA FrameTrackFormat ==
  ASSUME Inv, FormatInv, overlap => overlap', FrameTrack
  PROVE  FormatInv'
<1>1. /\ pc["frame"] = "track" /\ (\E to : Goto("frame", to))
      /\ snapshot' = IF state = "CamConfStart" THEN snapshotInit(snapshot) ELSE snapshot
      /\ queue' = IF state = "CamConfStart" THEN Enqueue(queue, "camConf") ELSE queue
      /\ UNCHANGED <<driver, initialized, format, state>>
  BY DEF FrameTrack, cameraVars
<1>2. initialized
  BY <1>1 DEF Inv, FrameInPlace, FormatInv
<1>3. Restoring => Restoring'
  BY <1>1, QueueTyped, PcMoves
<1>4. CASE state = "CamConfStart"
  <2>1. \/ snapshot # NoSnapshot /\ snapshot' = snapshot
        \/ snapshot = NoSnapshot /\ snapshot' = [format |-> format, size |-> mode]
    BY <1>1, <1>2, <1>4 DEF snapshotInit
  <2>2. snapshot = NoSnapshot => format # "grayscale" /\ format # "none"
    BY QueueTyped DEF FormatInv, Formats
  <2>3. snapshot' # NoSnapshot /\ snapshot'.format # "grayscale"
    <3>1. CASE snapshot = NoSnapshot
      <4>1. snapshot'.format = format
        BY <2>1, <3>1
      <4>2. NoSnapshot.format = "none"
        BY DEF NoSnapshot
      <4>3. QED  BY <2>2, <3>1, <4>1, <4>2
    <3>2. CASE snapshot # NoSnapshot
      BY <2>1, <3>2 DEF FormatInv, FormatIsUsers
    <3>3. QED  BY <3>1, <3>2
  <2>4. QED  BY <1>1, <1>3, <2>3 DEF FormatInv, FormatIsUsers, Restoring
<1>5. CASE state # "CamConfStart"
  <2>1. UNCHANGED <<snapshot, queue>>
    BY <1>1, <1>5
  <2>2. QED  BY <1>1, <1>3, <2>1, ElsewhereKeeps DEF Elsewhere, Asked
<1>6. QED  BY <1>4, <1>5

LEMMA FrameTrackInitFormat ==
  ASSUME Inv, FormatInv, overlap => overlap', FrameTrackInit \/ FrameTrackFirst
  PROVE  FormatInv'
<1>1. UNCHANGED <<queue, snapshot, driver, initialized, format>>
  BY DEF FrameTrackInit, FrameTrackFirst, cameraVars
<1>2. Asked' => Asked
  BY <1>1 DEF Asked
<1>3. state' \in Configured \/ Goto("frame", "applyFormat")
  BY DEF FrameTrackInit, FrameTrackFirst, Configured
<1>4. state' \in Configured \/ pc'["frame"] = "applyFormat"
  BY <1>3, QueueTyped DEF Goto, Points
<1>5. QED  BY <1>1, <1>2, <1>4 DEF FormatInv, FormatIsUsers

\* A reconfiguration keeps the format.  It deletes a dma_filter that is about to restore it only
\* if two tasks use the camera at once.
LEMMA ReconfigureFormat ==
  ASSUME Inv, FormatInv, overlap => overlap', NEW t \in Owners, Reconfigure(t)
  PROVE  FormatInv'
<1>1. UNCHANGED <<queue, state, snapshot>>
  BY DEF Reconfigure, trackVars
<1>2. UNCHANGED format /\ (driver' => initialized')
  BY DEF Reconfigure, StopBus, Deinit, InitDriver, StartBus, Panic, cameraVars, FormatInv
<1>3. pc[t] \in ReinitPoints /\ pc[t] # "applyFormat"
  BY DEF Reconfigure, StopBus, Deinit, InitDriver, StartBus, ReinitPoints
<1>4. Restoring => Restoring' \/ overlap
  <2>1. CASE pc' = pc \/ \E to : Goto(t, to)
    <3>1. t \in {"wq", "web", "timer", "frame"}
      BY DEF Owners
    <3>2. QED  BY <1>3, <2>1, <3>1, QueueTyped, PcMoves DEF Restoring
  <2>2. CASE t # "frame" /\ \E to, there : pc' = [pc EXCEPT ![t] = to, !["frame"] = there]
    <3>1. pc["frame"] = "applyFormat" => overlap
      BY <1>3, <2>2 DEF Inv, OverlapKnown, Tasks, CameraPoints, ApplyPoints, Owners
    <3>2. pc["wq"] = "applyFormat" => pc'["wq"] = "applyFormat"
      BY <1>3, <2>2, QueueTyped DEF Owners, Points
    <3>3. QED  BY <3>1, <3>2 DEF Restoring
  <2>3. CASE StopBus(t) \/ StartBus(t)
    BY <2>1, <2>3 DEF StopBus, StartBus, Resume, Panic
  <2>4. CASE Deinit(t)
    <3>1. CASE t = "frame"
      BY <2>1, <2>4, <3>1 DEF Deinit
    <3>2. CASE t # "frame"
      <4>1. \E there : pc' = [pc EXCEPT ![t] = "init", !["frame"] = there]
        BY <2>4, <3>2 DEF Deinit
      <4>2. QED  BY <2>2, <3>2, <4>1
    <3>3. QED  BY <3>1, <3>2
  <2>5. CASE InitDriver(t)
    <3>1. t # "frame"
      BY <2>5 DEF InitDriver, Inv, FrameInPlace, Notifying
    <3>2. CASE pc' = [pc EXCEPT ![t] = "startBus", !["frame"] = "idle"]
      BY <2>2, <3>1, <3>2
    <3>3. CASE pc' = pc \/ \E to : Goto(t, to)
      BY <2>1, <3>3
    <3>4. QED  BY <2>5, <3>2, <3>3 DEF InitDriver, Resume, Panic
  <2>6. QED  BY <2>3, <2>4, <2>5 DEF Reconfigure
<1>5. QED  BY <1>1, <1>2, <1>4, FormatStays DEF Asked

LEMMA FormatNext == Inv /\ FormatInv /\ [Next]_vars => FormatInv'
<1>1. SUFFICES ASSUME Inv, FormatInv, [Next]_vars PROVE FormatInv'
  OBVIOUS
<1>2. CASE UNCHANGED vars
  BY <1>1, <1>2 DEF vars, camera, cameraVars, trackVars, FormatInv, FormatIsUsers, Asked
<1>4. CASE Step(Command) \/ Step(WifiDisconnected) \/ Step(Timer)
  BY <1>1, <1>4, OthersElsewhere, ElsewhereKeeps, Zenon DEF Step
<1>5. CASE Step(WebTask)
  <2>1. WebTask /\ (overlap => overlap')
    BY <1>5, Zenon DEF Step
  <2>2. QED  BY <1>1, <2>1, OthersElsewhere, ElsewhereKeeps, ReconfigureFormat DEF WebTask, Owners
<1>6. CASE Step(WqTask)
  <2>1. WqTask /\ (overlap => overlap')
    BY <1>6, Zenon DEF Step
  <2>2. CASE Track \/ TrackStop \/ ApplyFormat("wq") \/ CamConf \/ Reconfigure("wq")
    BY <1>1, <2>1, <2>2, TrackFormat, TrackStopFormat, ApplyFormatFormat, CamConfFormat,
       ReconfigureFormat DEF Owners
  <2>3. CASE ~(Track \/ TrackStop \/ ApplyFormat("wq") \/ CamConf \/ Reconfigure("wq"))
    <3>1. Elsewhere
      BY <1>1, <2>1, <2>3, PhotoElsewhere, RecordElsewhere, ApplySizeElsewhere
      DEF WqTask, WqCommand
    <3>2. QED  BY <1>1, <2>1, <3>1, ElsewhereKeeps
  <2>4. QED  BY <2>2, <2>3
<1>7. CASE Step(DmaFilter)
  <2>1. DmaFilter /\ (overlap => overlap')
    BY <1>7, Zenon DEF Step
  <2>2. CASE \/ FrameTrack \/ FrameTrackInit \/ FrameTrackFirst
             \/ ApplyFormat("frame") \/ Reconfigure("frame")
    BY <1>1, <2>1, <2>2, FrameTrackFormat, FrameTrackInitFormat, ApplyFormatFormat,
       ReconfigureFormat DEF Owners
  <2>3. CASE ~(\/ FrameTrack \/ FrameTrackInit \/ FrameTrackFirst
               \/ ApplyFormat("frame") \/ Reconfigure("frame"))
    <3>1. Elsewhere
      BY <1>1, <2>1, <2>3, FrameElsewhere DEF DmaFilter
    <3>2. QED  BY <1>1, <2>1, <3>1, ElsewhereKeeps
  <2>4. QED  BY <2>2, <2>3
<1>8. QED  BY <1>1, <1>2, <1>4, <1>5, <1>6, <1>7 DEF Next

LEMMA FormatInit == Init => FormatInv
BY DEF Init, CameraInit, FormatInv, FormatIsUsers, Asked, NoSnapshot
-----------------------------------------------------------------------------
(* Theorems *)

\* RecFrame's semaphore and the tracker's updates are binary, the work queue is never longer
\* than its limit, and every task is at one of its own places, for any bound and any failures.
THEOREM TypeCorrect == Spec => []TypeOK
<1>1. Inv => TypeOK
  BY DEF Inv, Typed, TypeOK, Faults
<1>2. QED  BY <1>1, InvHolds, PTL

\* Whenever the spinlock of Tracking::onFrameTrackerRunning is taken, the update that releases
\* it is in the work queue or about to be pushed, unless dma_filter was deleted in between.
THEOREM SpinEnds == Spec => []SpinEndsUnlessDeleted
<1>1. Inv => SpinEndsUnlessDeleted
  BY DEF Inv, SpinInPlace
<1>2. QED  BY <1>1, InvHolds, PTL

\* As long as no two tasks use the camera at once, a reconfiguration never deletes dma_filter
\* while it holds RecFrame's sync.mut.
THEOREM PhotoMutexIsKept == Spec => []PhotoMutexSurvives
<1>1. Inv => PhotoMutexSurvives
  BY DEF Inv, PhotoInPlace
<1>2. QED  BY <1>1, InvHolds, PTL

\* Under the same condition RecFrame writes a frame of the photograph's size and no other,
\* whatever sizes and formats the web page and the tracker have set before.
THEOREM PhotosAreOfTheirSize == Spec => []PhotoIsOfItsSize
<1>1. Inv => PhotoIsOfItsSize
  BY DEF Inv, SizeInPlace, PhotoIsOfItsSize
<1>2. QED  BY <1>1, InvHolds, PTL

\* As long as starts and stops of a recording do not overlap, RecMjpgAvi::onNewFrame writes to
\* an open file and stop() closes it once.
THEOREM RecordingsAreSafe == Spec => []RecordingFileSafe
<1>1. Inv => RecordingFileSafe
  BY DEF Inv, AviInPlace
<1>2. QED  BY <1>1, InvHolds, PTL

\* The user gets his format back: while no two tasks use the camera at once it is in grayscale
\* mode only for a tracking session or until a restoration that is about to begin, and what
\* is restored is never the tracker's own format, after however many sessions.
THEOREM FormatIsRestored == Spec => []FormatIsUsers
<1>1. FormatInv => FormatIsUsers
  BY DEF FormatInv
<1>2. QED  BY <1>1, FormatInit, FormatNext, InvHolds, PTL DEF Spec
=============================================================================
