------------------------- MODULE StreamCoordinator -------------------------
(***************************************************************************)
(* The per-stream coordinator (core/src/pipeline/stream_coordinator.cpp):  *)
(* it joins frames with the results of four worker pools, which answer in  *)
(* any order or not at all, and commits frames to the anonymizer by        *)
(* frame_id.                                                               *)
(*                                                                         *)
(* Only the coordinator thread touches the coordinator's state.  While it  *)
(* is idle it hands arrived frames and results to the push_* operations;   *)
(* then it calls drain_ready, which is the fixed sequence of phases that   *)
(* pc walks through.  One iteration of a loop of drain_ready is one        *)
(* action; the phase ends when no iteration is enabled.  Nothing is pushed *)
(* during a drain, so what the pools do meanwhile can be taken to happen   *)
(* before or after it.                                                     *)
(*                                                                         *)
(* A frame, a result and a task are the id of their frame.  Boxes are      *)
(* abstracted to the stage that last wrote FrameCtx::tracked_boxes.  A     *)
(* recognizer or identity worker writes them too, before its result; what  *)
(* the coordinator then writes replaces that.                              *)
(***************************************************************************)
EXTENDS Integers, Sequences, FiniteSets

CONSTANTS
  MaxFrame,       \* bound: the source emits the frames 0..MaxFrame
  ReorderWindow,  \* reorder_window_
  PendingLimit,   \* pending_limit_
  FaceMode,       \* how faces are detected, see FaceModes
  BlankFrames,    \* frames whose inference image is empty: the planner emits no probe
  LossyFrames     \* frames whose tasks and results a full queue may drop

FaceModes == {"disabled", "assigned", "independent"}
Frame == 0..MaxFrame

ASSUME CoordinatorAssumption ==
  /\ MaxFrame \in Nat
  /\ ReorderWindow \in Nat
  /\ PendingLimit \in Nat \ {0}
  /\ FaceMode \in FaceModes
  /\ BlankFrames \subseteq Frame
  /\ LossyFrames \subseteq Frame

None == -1                       \* a cursor not yet placed
Cursor == Frame \cup {None, MaxFrame + 1}

Stages == {"detector", "face", "recognizer", "identity"}
Phases == {"idle", "probes", "tracking", "face", "recognition", "commit", "trim"}
BoxStages == {"none", "tracked", "faced", "recognised", "decided"}

VARIABLES
  \* The environment: the source, the queues and the worker pools.
  nextFrame,          \* next_frame_id_ of the source
  framesIn,           \* frames in the stream's frames_in queue
  tasks,              \* per stage, the frames whose task or result is under way
  \* The coordinator.
  pc,                 \* phase of drain_ready, or "idle"
  nextTracker, nextRecognition, nextCommit,        \* next_*_frame_id_
  latestFace, latestRecognition, latestIdentity,   \* latest_*_queued_frame_id_
  pendingFrames,      \* keys of pending_frames_
  pendingDetections,  \* keys of pending_person_detections_
  queuedProbes,       \* keys of queued_independent_face_probe_ids_
  earlyFaces,         \* keys of early_face_results_
  pendingFace,        \* keys of pending_face_frames_
  waiting,            \* those of pendingFace with an unanswered probe
  recognitionQueued,  \* those of pendingFace with recognition_queued set
  pendingRecognitions,
  pendingIdentities,
  boxes,              \* per frame, the stage that last wrote tracked_boxes
  \* History, read by the properties only.
  committed,          \* the frames passed to on_frame_committed, in order
  blind,              \* frames tracked without their person detections
  refused,            \* recognition results dropped as stale on arrival
  anchor              \* the first value of nextRecognition

environment == <<nextFrame, framesIn, tasks>>
cursors == <<nextTracker, nextRecognition, nextCommit>>
latest == <<latestFace, latestRecognition, latestIdentity>>
faceStage == <<queuedProbes, earlyFaces, pendingFace, waiting, recognitionQueued>>
history == <<committed, blind, refused, anchor>>
vars == <<environment, pc, cursors, latest, pendingFrames, pendingDetections,
          faceStage, pendingRecognitions, pendingIdentities, boxes, history>>

-----------------------------------------------------------------------------
(* Guards and helpers.                                                      *)

IsFirst(f, S) == f \in S /\ \A g \in S : f <= g
IsLast(f, S) == f \in S /\ \A g \in S : g <= f
Larger(a, b) == IF a < b THEN b ELSE a

(* A result for a frame the cursor has passed. *)
Stale(cursor, f) == cursor # None /\ f < cursor

(* The stream has run more than the reorder window past frame f. *)
OverrunAtWindow(newest, f) == newest - f >= ReorderWindow        \* faulty variant
OverrunBeyondWindow(newest, f) == newest - f > ReorderWindow + 1 \* faulty variant
Overrun(newest, f) == newest - f > ReorderWindow

(* What is left of a map with keys S once its oldest entries are trimmed.   *)
KeepNewest(S) == {f \in S : Cardinality({g \in S : f < g}) < PendingLimit}

(* latest_seen of drain_tracking_: some frame or detection overruns f. *)
OverrunByArrivals(f) ==
  \E g \in pendingFrames \cup pendingDetections : Overrun(g, f)

-----------------------------------------------------------------------------
Init ==
  /\ nextFrame = 0
  /\ framesIn = {}
  /\ tasks = [s \in Stages |-> {}]
  /\ pc = "idle"
  /\ nextTracker = None /\ nextRecognition = None /\ nextCommit = None
  /\ latestFace = None /\ latestRecognition = None /\ latestIdentity = None
  /\ pendingFrames = {} /\ pendingDetections = {}
  /\ queuedProbes = {} /\ earlyFaces = {}
  /\ pendingFace = {} /\ waiting = {} /\ recognitionQueued = {}
  /\ pendingRecognitions = {} /\ pendingIdentities = {}
  /\ boxes = [f \in Frame |-> "none"]
  /\ committed = <<>> /\ blind = {} /\ refused = {} /\ anchor = None

-----------------------------------------------------------------------------
(* The environment.                                                         *)

(* The ingest thread numbers a frame, queues its detection task, then the   *)
(* frame itself.                                                            *)
Ingest ==
  /\ nextFrame <= MaxFrame
  /\ nextFrame' = nextFrame + 1
  /\ framesIn' = framesIn \cup {nextFrame}
  /\ tasks' = [tasks EXCEPT !["detector"] = @ \cup {nextFrame}]
  /\ UNCHANGED <<pc, cursors, latest, pendingFrames, pendingDetections, faceStage,
                 pendingRecognitions, pendingIdentities, boxes, history>>

(* A full queue drops its oldest element: a task, a result or a frame.      *)
DropFrame(f) ==
  /\ f \in LossyFrames \cap framesIn
  /\ framesIn' = framesIn \ {f}
  /\ UNCHANGED <<nextFrame, tasks, pc, cursors, latest, pendingFrames,
                 pendingDetections, faceStage, pendingRecognitions,
                 pendingIdentities, boxes, history>>

DropTask(s, f) ==
  /\ f \in LossyFrames \cap tasks[s]
  /\ tasks' = [tasks EXCEPT ![s] = @ \ {f}]
  /\ UNCHANGED <<nextFrame, framesIn, pc, cursors, latest, pendingFrames,
                 pendingDetections, faceStage, pendingRecognitions,
                 pendingIdentities, boxes, history>>

-----------------------------------------------------------------------------
(* The push operations, called between two drains.                          *)

Take(s, f) ==
  /\ pc = "idle"
  /\ f \in tasks[s]
  /\ tasks' = [tasks EXCEPT ![s] = @ \ {f}]

(* Frames leave their queue in order. *)
PushFrame(f) ==
  /\ pc = "idle"
  /\ IsFirst(f, framesIn)
  /\ framesIn' = framesIn \ {f}
  /\ pendingFrames' = IF Stale(nextTracker, f) THEN pendingFrames
                                               ELSE pendingFrames \cup {f}
  /\ UNCHANGED <<nextFrame, tasks, pc, cursors, latest, pendingDetections, faceStage,
                 pendingRecognitions, pendingIdentities, boxes, history>>

PushPersonDetection(f) ==
  /\ Take("detector", f)
  /\ pendingDetections' = IF Stale(nextTracker, f) THEN pendingDetections
                                                   ELSE pendingDetections \cup {f}
  /\ UNCHANGED <<nextFrame, framesIn, pc, cursors, latest, pendingFrames, faceStage,
                 pendingRecognitions, pendingIdentities, boxes, history>>

(* The answer settles the frame's probe; in independent mode an answer that *)
(* finds no such frame is kept for later.  Answers to several probes of one *)
(* frame are one answer: all but the first are ignored by the code.         *)
PushFaceResult(f) ==
  /\ Take("face", f)
  /\ waiting' = waiting \ {f}
  /\ earlyFaces' = IF /\ f \notin pendingFace
                      /\ FaceMode = "independent"
                      /\ ~Stale(nextCommit, f)
                   THEN earlyFaces \cup {f}
                   ELSE earlyFaces
  /\ UNCHANGED <<nextFrame, framesIn, pc, cursors, latest, pendingFrames,
                 pendingDetections, queuedProbes, pendingFace, recognitionQueued,
                 pendingRecognitions, pendingIdentities, boxes, history>>

PushRecognitionResult(f) ==
  /\ Take("recognizer", f)
  /\ IF Stale(nextRecognition, f)
     THEN refused' = refused \cup {f} /\ UNCHANGED pendingRecognitions
     ELSE pendingRecognitions' = pendingRecognitions \cup {f} /\ UNCHANGED refused
  /\ UNCHANGED <<nextFrame, framesIn, pc, cursors, latest, pendingFrames,
                 pendingDetections, faceStage, pendingIdentities, boxes,
                 committed, blind, anchor>>

PushIdentityResult(f) ==
  /\ Take("identity", f)
  /\ pendingIdentities' = IF Stale(nextCommit, f) THEN pendingIdentities
                                                  ELSE pendingIdentities \cup {f}
  /\ UNCHANGED <<nextFrame, framesIn, pc, cursors, latest, pendingFrames,
                 pendingDetections, faceStage, pendingRecognitions, boxes, history>>

-----------------------------------------------------------------------------
(* drain_ready.                                                             *)

BeginDrain ==
  /\ pc = "idle"
  /\ pc' = "probes"
  /\ UNCHANGED <<environment, cursors, latest, pendingFrames, pendingDetections,
                 faceStage, pendingRecognitions, pendingIdentities, boxes, history>>

(* drain_independent_face_probes_: frames still waiting for their person    *)
(* detections already go to the face pool.                                  *)
ProbeCandidates ==
  IF FaceMode = "independent"
  THEN {f \in pendingFrames \ (queuedProbes \cup pendingFace \cup BlankFrames) :
          ~Stale(nextTracker, f)}
  ELSE {}

QueueProbe(f) ==
  /\ pc = "probes"
  /\ IsFirst(f, ProbeCandidates)
  /\ queuedProbes' = queuedProbes \cup {f}
  /\ latestFace' = Larger(latestFace, f)
  /\ tasks' = [tasks EXCEPT !["face"] = @ \cup {f}]
  /\ UNCHANGED <<nextFrame, framesIn, pc, cursors, latestRecognition, latestIdentity,
                 pendingFrames, pendingDetections, earlyFaces, pendingFace, waiting,
                 recognitionQueued, pendingRecognitions, pendingIdentities, boxes,
                 history>>

ProbesDone ==
  /\ pc = "probes"
  /\ ProbeCandidates = {}
  /\ pc' = "tracking"
  /\ UNCHANGED <<environment, cursors, latest, pendingFrames, pendingDetections,
                 faceStage, pendingRecognitions, pendingIdentities, boxes, history>>

(* drain_tracking_. *)
AnchorTracker(f) ==
  /\ pc = "tracking"
  /\ nextTracker = None
  /\ IsFirst(f, pendingFrames)
  /\ nextTracker' = f
  /\ UNCHANGED <<environment, pc, nextRecognition, nextCommit, latest, pendingFrames,
                 pendingDetections, faceStage, pendingRecognitions,
                 pendingIdentities, boxes, history>>

(* process_tracked_frame_: whether the planner is asked now (not when the   *)
(* frame's probe was queued ahead), and whether the frame waits for an      *)
(* answer.  A frame that does not goes to the recognizer at once            *)
(* (queue_recognition_).                                                    *)
PlansProbe(f) ==
  FaceMode # "disabled" /\ f \notin queuedProbes \cup BlankFrames

AwaitsFace(f) ==
  PlansProbe(f) \/ (f \in queuedProbes /\ f \notin earlyFaces)

ProcessTrackedFrame(f) ==
  /\ pendingFrames' = pendingFrames \ {f}
  /\ pendingDetections' = pendingDetections \ {f}
  /\ nextTracker' = f + 1
  /\ nextCommit' = IF nextCommit = None THEN f ELSE nextCommit
  /\ queuedProbes' = queuedProbes \ {f}
  /\ earlyFaces' = earlyFaces \ {f}
  /\ pendingFace' = pendingFace \cup {f}
  /\ latestFace' = IF PlansProbe(f) THEN Larger(latestFace, f) ELSE latestFace
  /\ IF AwaitsFace(f)
     THEN /\ waiting' = waiting \cup {f}
          /\ boxes' = [boxes EXCEPT ![f] = "tracked"]
          /\ tasks' = IF PlansProbe(f)
                      THEN [tasks EXCEPT !["face"] = @ \cup {f}] ELSE tasks
          /\ UNCHANGED <<recognitionQueued, latestRecognition>>
     ELSE /\ recognitionQueued' = recognitionQueued \cup {f}
          /\ boxes' = [boxes EXCEPT ![f] = "faced"]
          /\ tasks' = [tasks EXCEPT !["recognizer"] = @ \cup {f}]
          /\ latestRecognition' = Larger(latestRecognition, f)
          /\ UNCHANGED waiting
  /\ UNCHANGED <<nextFrame, framesIn, pc, nextRecognition, latestIdentity,
                 pendingRecognitions, pendingIdentities, committed, refused, anchor>>

TrackFrame(f) ==
  /\ pc = "tracking"
  /\ f = nextTracker
  /\ f \in pendingFrames \cap pendingDetections
  /\ ProcessTrackedFrame(f)
  /\ UNCHANGED blind

(* The detections are too late: the tracker is fed an empty list. *)
TrackBlind(f) ==
  /\ pc = "tracking"
  /\ f = nextTracker
  /\ f \in pendingFrames \ pendingDetections
  /\ OverrunByArrivals(f)
  /\ ProcessTrackedFrame(f)
  /\ blind' = blind \cup {f}

(* The frame itself never came: go on with the oldest that did. *)
JumpTracker(f) ==
  /\ pc = "tracking"
  /\ nextTracker # None
  /\ nextTracker \notin pendingFrames
  /\ IsFirst(f, pendingFrames)
  /\ f > nextTracker
  /\ nextTracker' = f
  /\ UNCHANGED <<environment, pc, nextRecognition, nextCommit, latest, pendingFrames,
                 pendingDetections, faceStage, pendingRecognitions,
                 pendingIdentities, boxes, history>>

TrackerBlocked ==
  \/ nextTracker = None /\ pendingFrames = {}
  \/ /\ nextTracker # None
     /\ nextTracker \notin pendingFrames
     /\ \A f \in pendingFrames : f < nextTracker
  \/ /\ nextTracker \in pendingFrames \ pendingDetections
     /\ ~OverrunByArrivals(nextTracker)

TrackingDone ==
  /\ pc = "tracking"
  /\ TrackerBlocked
  /\ pendingDetections' = {f \in pendingDetections : ~Stale(nextTracker, f)}
  /\ pc' = "face"
  /\ UNCHANGED <<environment, cursors, latest, pendingFrames, faceStage,
                 pendingRecognitions, pendingIdentities, boxes, history>>

(* drain_face_ready_: the loop visits the frames in order and takes those   *)
(* that are answered, already queued, or overrun.                           *)
FaceReady(f) ==
  \/ f \in recognitionQueued
  \/ f \notin waiting
  \/ latestFace # None /\ Overrun(latestFace, f)

LeaveFace(f) ==
  /\ pendingFace' = pendingFace \ {f}
  /\ recognitionQueued' = recognitionQueued \ {f}
  /\ waiting' = waiting \ {f}

(* queue_recognition_ unless process_tracked_frame_ has called it already. *)
FinishFace(f) ==
  /\ pc = "face"
  /\ IsFirst(f, {g \in pendingFace : FaceReady(g)})
  /\ LeaveFace(f)
  /\ IF f \in recognitionQueued
     THEN UNCHANGED <<boxes, tasks, latestRecognition>>
     ELSE /\ boxes' = [boxes EXCEPT ![f] = "faced"]
          /\ tasks' = [tasks EXCEPT !["recognizer"] = @ \cup {f}]
          /\ latestRecognition' = Larger(latestRecognition, f)
  /\ UNCHANGED <<nextFrame, framesIn, pc, cursors, latestFace, latestIdentity,
                 pendingFrames, pendingDetections, queuedProbes, earlyFaces,
                 pendingRecognitions, pendingIdentities, history>>

FaceDone ==
  /\ pc = "face"
  /\ \A f \in pendingFace : ~FaceReady(f)
  /\ pc' = "recognition"
  /\ UNCHANGED <<environment, cursors, latest, pendingFrames, pendingDetections,
                 faceStage, pendingRecognitions, pendingIdentities, boxes, history>>

(* drain_recognition_ready_: the cursor starts at the oldest result there   *)
(* is when the first ones arrive, which need not be the oldest frame.       *)
AnchorRecognition(f) ==
  /\ pc = "recognition"
  /\ nextRecognition = None
  /\ IsFirst(f, pendingRecognitions)
  /\ nextRecognition' = f
  /\ anchor' = f
  /\ UNCHANGED <<environment, pc, nextTracker, nextCommit, latest, pendingFrames,
                 pendingDetections, faceStage, pendingRecognitions,
                 pendingIdentities, boxes, committed, blind, refused>>

QueueIdentity(f) ==
  /\ pc = "recognition"
  /\ f = nextRecognition
  /\ f \in pendingRecognitions
  /\ pendingRecognitions' = pendingRecognitions \ {f}
  /\ boxes' = [boxes EXCEPT ![f] = "recognised"]
  /\ tasks' = [tasks EXCEPT !["identity"] = @ \cup {f}]
  /\ latestIdentity' = Larger(latestIdentity, f)
  /\ nextRecognition' = f + 1
  /\ UNCHANGED <<nextFrame, framesIn, pc, nextTracker, nextCommit, latestFace,
                 latestRecognition, pendingFrames, pendingDetections, faceStage,
                 pendingIdentities, history>>

SkippableRecognitionUnbounded == \* faulty variant: skips what is merely not here yet
  nextRecognition \notin pendingRecognitions /\ latestRecognition # None

SkippableRecognition ==
  /\ nextRecognition \notin pendingRecognitions
  /\ latestRecognition # None
  /\ Overrun(latestRecognition, nextRecognition)

SkipRecognition ==
  /\ pc = "recognition"
  /\ nextRecognition # None
  /\ SkippableRecognition
  /\ nextRecognition' = nextRecognition + 1
  /\ UNCHANGED <<environment, pc, nextTracker, nextCommit, latest, pendingFrames,
                 pendingDetections, faceStage, pendingRecognitions,
                 pendingIdentities, boxes, history>>

RecognitionDone ==
  /\ pc = "recognition"
  /\ IF nextRecognition = None
     THEN pendingRecognitions = {}
     ELSE nextRecognition \notin pendingRecognitions /\ ~SkippableRecognition
  /\ pendingRecognitions' = {f \in pendingRecognitions : ~Stale(nextRecognition, f)}
  /\ pc' = "commit"
  /\ UNCHANGED <<environment, cursors, latest, pendingFrames, pendingDetections,
                 faceStage, pendingIdentities, boxes, history>>

(* drain_commit_ready_.  nextCommit is placed when the first frame is       *)
(* tracked, before any identity result can exist, so the code's own start   *)
(* of the cursor at the oldest result is not reached.                       *)
IsAnyIdentity(f) == f \in pendingIdentities \* faulty variant: whichever is there
IsNextCommit(f) == f = nextCommit

UndecidedBoxes(f) == boxes \* faulty variant: the decision is not copied
DecidedBoxes(f) == [boxes EXCEPT ![f] = "decided"]

CommitFrame(f) ==
  /\ pc = "commit"
  /\ IsNextCommit(f)
  /\ f \in pendingIdentities
  /\ pendingIdentities' = pendingIdentities \ {f}
  /\ boxes' = DecidedBoxes(f)
  /\ committed' = Append(committed, f)
  /\ nextCommit' = f + 1
  /\ UNCHANGED <<environment, pc, nextTracker, nextRecognition, latest, pendingFrames,
                 pendingDetections, faceStage, pendingRecognitions, blind, refused,
                 anchor>>

NeverSkippableCommit == FALSE \* faulty variant: waits for a lost identity for ever

SkippableCommit ==
  /\ nextCommit # None
  /\ nextCommit \notin pendingIdentities
  /\ latestIdentity # None
  /\ Overrun(latestIdentity, nextCommit)

SkipCommit ==
  /\ pc = "commit"
  /\ SkippableCommit
  /\ nextCommit' = nextCommit + 1
  /\ UNCHANGED <<environment, pc, nextTracker, nextRecognition, latest, pendingFrames,
                 pendingDetections, faceStage, pendingRecognitions,
                 pendingIdentities, boxes, history>>

CommitDone ==
  /\ pc = "commit"
  /\ nextCommit \notin pendingIdentities /\ ~SkippableCommit
  /\ pendingIdentities' = {f \in pendingIdentities : ~Stale(nextCommit, f)}
  /\ pc' = "trim"
  /\ UNCHANGED <<environment, cursors, latest, pendingFrames, pendingDetections,
                 faceStage, pendingRecognitions, boxes, history>>

(* Dropping frames that wait for faces moves the commit cursor past them.   *)
CommitPast(dropped) ==
  \/ (\A f \in dropped : Stale(nextCommit, f)) /\ UNCHANGED nextCommit
  \/ \E f \in dropped :
       IsLast(f, dropped) /\ ~Stale(nextCommit, f) /\ nextCommit' = f + 1

(* trim_pending_. *)
TrimPending ==
  /\ pc = "trim"
  /\ pc' = "idle"
  /\ pendingFrames' = KeepNewest(pendingFrames)
  /\ pendingDetections' = KeepNewest(pendingDetections)
  /\ queuedProbes' = KeepNewest(queuedProbes)
  /\ earlyFaces' = KeepNewest(earlyFaces)
  /\ pendingFace' = KeepNewest(pendingFace)
  /\ waiting' = waiting \cap KeepNewest(pendingFace)
  /\ recognitionQueued' = recognitionQueued \cap KeepNewest(pendingFace)
  /\ CommitPast(pendingFace \ KeepNewest(pendingFace))
  /\ pendingRecognitions' = KeepNewest(pendingRecognitions)
  /\ pendingIdentities' = KeepNewest(pendingIdentities)
  /\ UNCHANGED <<environment, nextTracker, nextRecognition, latest, boxes, history>>

-----------------------------------------------------------------------------
Environment ==
  \/ Ingest
  \/ \E f \in Frame : DropFrame(f)
  \/ \E s \in Stages, f \in Frame : DropTask(s, f)

Push ==
  \E f \in Frame :
    \/ PushFrame(f)
    \/ PushPersonDetection(f)
    \/ PushFaceResult(f)
    \/ PushRecognitionResult(f)
    \/ PushIdentityResult(f)

Drain ==
  \/ BeginDrain
  \/ \E f \in Frame :
       \/ QueueProbe(f)
       \/ AnchorTracker(f) \/ TrackFrame(f) \/ TrackBlind(f) \/ JumpTracker(f)
       \/ FinishFace(f)
       \/ AnchorRecognition(f) \/ QueueIdentity(f)
       \/ CommitFrame(f)
  \/ ProbesDone \/ TrackingDone \/ FaceDone
  \/ SkipRecognition \/ RecognitionDone
  \/ SkipCommit \/ CommitDone
  \/ TrimPending

Next == Environment \/ Push \/ Drain

Spec == Init /\ [][Next]_vars

(* The coordinator thread loops as long as the runtime runs, and pops every *)
(* queue between two drains; the source and the pools go on working.        *)
Fairness == WF_vars(Ingest) /\ SF_vars(Push) /\ WF_vars(Drain)
FairSpec == Spec /\ Fairness

-----------------------------------------------------------------------------
(* Properties.                                                              *)

(* Every variable of the environment, of the coordinator and of the history *)
(* has its type.                                                            *)
EnvironmentTypeOK ==
  /\ nextFrame \in 0..(MaxFrame + 1)
  /\ framesIn \subseteq Frame
  /\ tasks \in [Stages -> SUBSET Frame]

CursorsTypeOK ==
  /\ pc \in Phases
  /\ nextTracker \in Cursor /\ nextRecognition \in Cursor /\ nextCommit \in Cursor
  /\ latestFace \in Frame \cup {None}
  /\ latestRecognition \in Frame \cup {None}
  /\ latestIdentity \in Frame \cup {None}

PendingTypeOK ==
  /\ pendingFrames \subseteq Frame /\ pendingDetections \subseteq Frame
  /\ queuedProbes \subseteq Frame /\ earlyFaces \subseteq Frame
  /\ pendingFace \subseteq Frame
  /\ waiting \subseteq pendingFace /\ recognitionQueued \subseteq pendingFace
  /\ pendingRecognitions \subseteq Frame /\ pendingIdentities \subseteq Frame

HistoryTypeOK ==
  /\ boxes \in [Frame -> BoxStages]
  /\ committed \in Seq(Frame)
  /\ blind \subseteq Frame /\ refused \subseteq Frame
  /\ anchor \in Frame \cup {None}

TypeOK == EnvironmentTypeOK /\ CursorsTypeOK /\ PendingTypeOK /\ HistoryTypeOK

(* Frames are committed in frame_id order and never twice, in whatever      *)
(* order the four pools answer and whatever is skipped or trimmed.          *)
CommitsInOrder ==
  \A i, j \in DOMAIN committed : i < j => committed[i] < committed[j]

(* A committed frame carries the boxes of its identity decision and nobody   *)
(* writes them any more: the anonymizer reads tracked_boxes of the shared    *)
(* FrameCtx from another thread without a lock, and a recognizer or identity *)
(* worker that still had the frame's task would write them on its own.       *)
CommittedBoxesFinal ==
  \A i \in DOMAIN committed :
    /\ boxes[committed[i]] = "decided"
    /\ committed[i] \notin tasks["recognizer"] \cup tasks["identity"]

(* A frame is tracked without its detections, so with nobody in it to       *)
(* anonymize, only when the source is more than the window past it.  A      *)
(* recognition result is dropped on arrival only if a frame more than the   *)
(* window later was queued for recognition meanwhile, or, when the pool     *)
(* answered out of order at the start of the stream, if it precedes the     *)
(* first result that arrived.                                               *)
GivenUpOnlyLate ==
  /\ \A f \in blind : nextFrame - 1 > f + ReorderWindow
  /\ \A f \in refused : f < anchor \/ latestRecognition > f + ReorderWindow

(* With room for the window, the commit cursor passes a tracked frame       *)
(* without committing it only once a frame more than the window later has   *)
(* reached the identity stage.                                              *)
CommitPassesOnlyOverrun ==
  \A f \in Frame :
    /\ boxes[f] # "none"
    /\ f < nextCommit
    /\ \A i \in DOMAIN committed : committed[i] # f
    => latestIdentity > f + ReorderWindow

(* No cursor overtakes the stage that feeds it: a frame cannot be passed    *)
(* before it has been tracked.                                              *)
CursorsFollowStages ==
  /\ nextCommit <= nextTracker
  /\ nextRecognition <= latestRecognition + 1
  /\ latestRecognition < nextTracker \/ nextTracker = None
  /\ latestIdentity < nextRecognition \/ nextRecognition = None

(* When a drain comes to trim_pending_, what waits for detections, faces,   *)
(* recognition and identity fits in the reorder window: with a limit above  *)
(* the window no frame in progress is ever trimmed.                         *)
BacklogFitsWindow ==
  pc = "trim" =>
    /\ Cardinality(pendingFrames) <= ReorderWindow + 1
    /\ Cardinality(pendingFace) <= ReorderWindow + 1
    /\ Cardinality(pendingRecognitions) <= ReorderWindow
    /\ Cardinality(pendingIdentities) <= ReorderWindow

(* Trimming may move the commit cursor, but no cursor ever goes back to     *)
(* frames that were committed or given up.                                  *)
CursorsAdvance ==
  [][ /\ nextTracker' >= nextTracker
      /\ nextRecognition' >= nextRecognition
      /\ nextCommit' >= nextCommit ]_cursors

(* The coordinator implements the ordered log of commits.                   *)
Log == INSTANCE CommitLog WITH offered <- 0..(nextFrame - 1), log <- committed
ImplementsCommitLog == Log!Spec

(* A tracked frame does not hold up the stream for ever: if the frames that *)
(* end the stream are not lost, the commit cursor passes every frame that   *)
(* is more than the window from the end, whatever was lost of it.           *)
TrackedFramesAreSettled ==
  \A f \in Frame :
    nextTracker > f /\ f + ReorderWindow < MaxFrame ~> nextCommit > f
=============================================================================
