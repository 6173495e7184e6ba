------------------------------ MODULE Camera ------------------------------
(***************************************************************************)
(* The camera as a module of the firmware: the driver (camera.c with       *)
(* CONFIG_DRIVER_OV2640_USE_HOOKS and one frame buffer), its task          *)
(* dma_filter, and class Ov2640, which reconfigures the driver by          *)
(* shutting it down and initialising it again.                             *)
(*                                                                         *)
(* dma_filter hands each frame to the subscribers of Sub::Key::NewFrame    *)
(* and holds the key's mutex while it does.  esp_camera_deinit() deletes   *)
(* the task wherever it is.  A reconfiguration takes four steps of the     *)
(* task that asked for it; a step of this module that needs to know what   *)
(* that task does next leaves it in ret.                                   *)
(***************************************************************************)
EXTENDS Naturals, FiniteSets

CONSTANTS
  EnvFaults,       \* which failures the environment may cause, see Failures
  MaxDisturbances  \* bound: such failures, and the other disturbances of a composition

VARIABLES
  driver,    \* s_state # NULL
  initialized, \* status.initialized: the result of the last initialisation
  rx,        \* I2S receives into the frame buffer (I2S0.conf.rx_start, interrupts on)
  format,    \* status.pixformat
  mode,      \* status.frame: the frame size of the last initialisation
  nvs,       \* the frame size kept in non-volatile storage
  key,       \* mutex of Sub::Key::NewFrame
  stateLock, \* s_state_mutex
  pc,        \* where each task is
  ret,       \* where a task goes on after its reconfiguration
  fault,     \* what has brought the firmware down
  failures,  \* failures of the environment so far (history)
  others     \* other disturbances so far (history, for the bound)

cameraVars == <<driver, initialized, rx, format, mode, nvs, stateLock>>

\* Frame sizes, in the order of the driver's enumeration: Small fits every format, Usual
\* (the default) and Photo (800x600) are for JPEG only, Huge is for none.
Small == 1
Usual == 2
Photo == 3
Huge == 4
Sizes == {Small, Usual, Photo, Huge}

Formats == {"jpeg", "grayscale"}

\* pixformatToResolutionLimit: the first frame size that does not fit
Limit(f) == IF f = "grayscale" THEN Usual ELSE Huge

\* Tasks that use the camera: the work queue's, the HTTP server's and dma_filter
Owners == {"wq", "web", "frame"}

\* Somebody holds a mutex: nobody, dma_filter, the work queue, or a task that was deleted
Holders == {"free", "frame", "wq", "deleted"}

Failures == {"init", "nvs", "vsync", "open"}

Quiet == Cardinality(failures) + others < MaxDisturbances
MayFail(kind) == kind \in EnvFaults \ failures /\ Quiet

Goto(t, to) == pc' = [pc EXCEPT ![t] = to]

\* A panic: the firmware stops here and restarts
Panic(what) ==
  /\ fault' = what
  /\ UNCHANGED <<cameraVars, key, pc, ret, failures>>

CameraInit ==
  /\ driver = TRUE
  /\ initialized = TRUE
  /\ rx = TRUE
  /\ format = "jpeg"
  /\ mode = Usual
  /\ nvs = Usual
  /\ key = "free"
  /\ stateLock = "free"
  /\ ret = [t \in Owners |-> "idle"]
  /\ fault = "none"
  /\ failures = {}
  /\ others = 0

CameraTypeOK ==
  /\ driver \in BOOLEAN
  /\ initialized \in BOOLEAN
  /\ rx \in BOOLEAN
  /\ format \in Formats
  /\ mode \in Sizes
  /\ nvs \in Sizes
  /\ key \in Holders
  /\ stateLock \in {"free", "deleted"}
  /\ failures \subseteq Failures
  /\ others \in 0..MaxDisturbances
-----------------------------------------------------------------------------
(* Ov2640::reinit() *)

\* cameraConfigLoad and init: the stored size, or the largest that fits the format
ModeFor(f) == IF nvs < Limit(f) THEN nvs ELSE Limit(f) - 1

\* reinit() begins in task t, which goes on at `to` when it is over
Reinit(t, to) ==
  /\ Goto(t, "stopBus")
  /\ ret' = [ret EXCEPT ![t] = to]

\* It is over: the task goes on
Resume(t) ==
  /\ Goto(t, ret[t])
  /\ ret' = [ret EXCEPT ![t] = "idle"]

\* setFieldValue(FrameFormat).  The answer, always "ok", comes before the reinitialisation.
SetFormat(t, f, to) ==
  /\ format' = f
  /\ Reinit(t, to)
  /\ UNCHANGED <<driver, initialized, rx, mode, nvs, key, stateLock, fault, failures>>

\* setFieldValue(FrameSize): the answer is "ok" when the size has been stored, and the
\* caller then goes on at `to`; a size that is refused leaves the camera as it is.
SetSize(t, s, to) ==
  /\ s < Limit(format)
  /\ nvs' = s
  /\ Reinit(t, to)
  /\ UNCHANGED <<driver, initialized, rx, format, mode, key, stateLock, fault, failures>>

SizeRefused(t, s, to) ==
  /\ \/ /\ s >= Limit(format)
        /\ UNCHANGED failures
     \/ /\ s < Limit(format)
        /\ MayFail("nvs")
        /\ failures' = failures \cup {"nvs"}
  /\ Goto(t, to)
  /\ UNCHANGED <<cameraVars, key, ret, fault>>

\* esp_camera_deinit: i2s_stop_bus() comes first, with no lock and no test of s_state.
StopBus(t) ==
  /\ pc[t] = "stopBus"
  /\ IF driver
     THEN /\ rx' = FALSE
          /\ Goto(t, "deinit")
          /\ UNCHANGED <<driver, initialized, format, mode, nvs, key, stateLock, ret, fault, failures>>
     ELSE Panic("stopNull")

\* A mutex held by dma_filter outlives it
Orphan(m) == IF m = "frame" THEN "deleted" ELSE m

\* The rest of esp_camera_deinit, under s_state_mutex.  dma_filter is deleted wherever it
\* is; if it is the caller, the deletion is the last thing it does.
Deinit(t) ==
  /\ pc[t] = "deinit"
  /\ stateLock = "free"
  /\ IF t = "frame"
     THEN /\ stateLock' = "deleted"
          /\ Goto("frame", "none")
          /\ ret' = [ret EXCEPT !["frame"] = "idle"]
          /\ UNCHANGED <<driver, rx>>
     ELSE /\ driver' = FALSE
          /\ rx' = FALSE
          /\ pc' = [pc EXCEPT ![t] = "init", !["frame"] = IF driver THEN "none" ELSE @]
          /\ UNCHANGED <<stateLock, ret>>
  /\ key' = Orphan(key)
  /\ UNCHANGED <<initialized, format, mode, nvs, fault, failures>>

\* init() up to i2s_run().  With another task's driver in place it would start a second
\* dma_filter on the same buffers: the model stops there.
InitDriver(t) ==
  /\ pc[t] = "init"
  /\ stateLock = "free"
  /\ IF driver
     THEN Panic("twoFrameTasks")
     ELSE /\ mode' = ModeFor(format)
          /\ \/ /\ driver' = TRUE
                /\ initialized' = TRUE
                /\ pc' = [pc EXCEPT ![t] = "startBus", !["frame"] = "idle"]
                /\ UNCHANGED <<ret, failures>>
             \/ /\ MayFail("init")
                /\ initialized' = FALSE
                /\ failures' = failures \cup {"init"}
                /\ Resume(t)
                /\ UNCHANGED driver
          /\ UNCHANGED <<rx, format, nvs, key, stateLock, fault>>

\* assert(i2s_run() == 0), outside the lock
StartBus(t) ==
  /\ pc[t] = "startBus"
  /\ \/ /\ driver
        /\ rx' = TRUE
        /\ Resume(t)
        /\ UNCHANGED <<driver, initialized, format, mode, nvs, key, stateLock, fault, failures>>
     \/ /\ ~driver
        /\ Panic("runNull")
     \/ /\ driver
        /\ MayFail("vsync")
        /\ fault' = "assertFailed"
        /\ failures' = failures \cup {"vsync"}
        /\ UNCHANGED <<cameraVars, key, pc, ret>>
-----------------------------------------------------------------------------
(* dma_filter: one frame after the other *)

\* The interrupt at the end of a frame stops the bus and wakes the task.
FrameReceived ==
  /\ pc["frame"] = "idle"
  /\ rx
  /\ rx' = FALSE
  /\ Goto("frame", "received")
  /\ UNCHANGED <<driver, initialized, format, mode, nvs, key, stateLock, ret, fault, failures>>

\* i2s_run(); its result is ignored
RestartReception ==
  \/ /\ rx' = TRUE
     /\ UNCHANGED failures
  \/ /\ MayFail("vsync")
     /\ failures' = failures \cup {"vsync"}
     /\ UNCHANGED rx

\* camera_fb_done restarts the reception, into the same buffer, before the hook runs.
FrameDone ==
  /\ pc["frame"] = "received"
  /\ RestartReception
  /\ Goto("frame", "lock")
  /\ UNCHANGED <<driver, initialized, format, mode, nvs, key, stateLock, ret, fault>>

\* Ov2640::hookOnFrame: NewFrame::notify locks the key ...
LockKey(first) ==
  /\ pc["frame"] = "lock"
  /\ key = "free"
  /\ key' = "frame"
  /\ Goto("frame", first)
  /\ UNCHANGED <<cameraVars, ret, fault, failures>>

\* Mutant: the key is kept.
UnlockKey_Kept ==
  /\ pc["frame"] = "unlock"
  /\ Goto("frame", "idle")
  /\ UNCHANGED <<cameraVars, key, ret, fault, failures>>

\* ... and gives it back when every subscriber has been called
UnlockKey ==
  /\ pc["frame"] = "unlock"
  /\ key' = "free"
  /\ Goto("frame", "idle")
  /\ UNCHANGED <<cameraVars, ret, fault, failures>>
=============================================================================
