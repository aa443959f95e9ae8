---------------------- MODULE StreamCoordinator_proofs ----------------------
(***************************************************************************)
(* Proofs about StreamCoordinator for every value of its constants: type   *)
(* correctness; the order of the commits and that no frame is committed    *)
(* that the source did not emit, hence that it implements CommitLog; how   *)
(* the stages follow each other and never go back; that a committed frame  *)
(* is decided for good; that a stage gives up only what is late; and what  *)
(* the maps hold when they are trimmed.                                    *)
(***************************************************************************)
EXTENDS StreamCoordinator, FiniteSetTheorems, TLAPS

(* Trimming removes entries and adds none (KeepNewest of trim_pending_).    *)
LEMMA KeepNewestSubset == \A S : KeepNewest(S) \subseteq S
BY DEF KeepNewest

(* Every step of the coordinator and of its environment keeps every         *)
(* variable in its type.                                                    *)
LEMMA TypeOKInductive == TypeOK /\ [Next]_vars => TypeOK'
<1> SUFFICES ASSUME TypeOK, [Next]_vars PROVE TypeOK'
  OBVIOUS
<1> USE CoordinatorAssumption DEF TypeOK, EnvironmentTypeOK, CursorsTypeOK,
          PendingTypeOK, HistoryTypeOK, Frame, Stages, Phases, BoxStages, Cursor, None,
          environment, cursors, latest, faceStage, history
<1>1. CASE Environment
  <2>1. CASE Ingest
    BY <2>1 DEF Ingest
  <2>2. ASSUME NEW f \in Frame, DropFrame(f) PROVE TypeOK'
    BY <2>2 DEF DropFrame
  <2>3. ASSUME NEW s \in Stages, NEW f \in Frame, DropTask(s, f) PROVE TypeOK'
    BY <2>3 DEF DropTask
  <2>4. QED
    BY <1>1, <2>1, <2>2, <2>3 DEF Environment
<1>2. CASE Push
  <2>1. PICK f \in Frame :
          \/ PushFrame(f) \/ PushPersonDetection(f) \/ PushFaceResult(f)
          \/ PushRecognitionResult(f) \/ PushIdentityResult(f)
    BY <1>2 DEF Push
  <2>2. CASE PushFrame(f)
    BY <2>2 DEF PushFrame
  <2>3. CASE PushPersonDetection(f)
    BY <2>3 DEF PushPersonDetection, Take
  <2>4. CASE PushFaceResult(f)
    BY <2>4 DEF PushFaceResult, Take
  <2>5. CASE PushRecognitionResult(f)
    BY <2>5 DEF PushRecognitionResult, Take
  <2>6. CASE PushIdentityResult(f)
    BY <2>6 DEF PushIdentityResult, Take
  <2>7. QED
    BY <2>1, <2>2, <2>3, <2>4, <2>5, <2>6
<1>3. CASE BeginDrain
  BY <1>3 DEF BeginDrain
<1>4. ASSUME NEW f \in Frame, QueueProbe(f) PROVE TypeOK'
  BY <1>4 DEF QueueProbe, Larger
<1>5. CASE ProbesDone
  BY <1>5 DEF ProbesDone
<1>6. ASSUME NEW f \in Frame, AnchorTracker(f) PROVE TypeOK'
  BY <1>6 DEF AnchorTracker
<1>7. ASSUME NEW f \in Frame, TrackFrame(f) PROVE TypeOK'
  <2>1. EnvironmentTypeOK'
    BY <1>7 DEF TrackFrame, ProcessTrackedFrame, Larger
  <2>2. CursorsTypeOK'
    BY <1>7 DEF TrackFrame, ProcessTrackedFrame, Larger
  <2>3. PendingTypeOK'
    BY <1>7 DEF TrackFrame, ProcessTrackedFrame, Larger
  <2>4. HistoryTypeOK'
    BY <1>7 DEF TrackFrame, ProcessTrackedFrame, Larger
  <2>5. QED
    BY <2>1, <2>2, <2>3, <2>4
<1>8. ASSUME NEW f \in Frame, TrackBlind(f) PROVE TypeOK'
  <2>1. EnvironmentTypeOK'
    BY <1>8 DEF TrackBlind, ProcessTrackedFrame, Larger
  <2>2. CursorsTypeOK'
    BY <1>8 DEF TrackBlind, ProcessTrackedFrame, Larger
  <2>3. PendingTypeOK'
    BY <1>8 DEF TrackBlind, ProcessTrackedFrame, Larger
  <2>4. HistoryTypeOK'
    BY <1>8 DEF TrackBlind, ProcessTrackedFrame, Larger
  <2>5. QED
    BY <2>1, <2>2, <2>3, <2>4
<1>9. ASSUME NEW f \in Frame, JumpTracker(f) PROVE TypeOK'
  BY <1>9 DEF JumpTracker
<1>10. CASE TrackingDone
  BY <1>10 DEF TrackingDone
<1>11. ASSUME NEW f \in Frame, FinishFace(f) PROVE TypeOK'
  <2>1. EnvironmentTypeOK'
    BY <1>11 DEF FinishFace, LeaveFace, Larger
  <2>2. CursorsTypeOK'
    BY <1>11 DEF FinishFace, LeaveFace, Larger
  <2>3. PendingTypeOK'
    BY <1>11 DEF FinishFace, LeaveFace, Larger
  <2>4. HistoryTypeOK'
    BY <1>11 DEF FinishFace, LeaveFace, Larger
  <2>5. QED
    BY <2>1, <2>2, <2>3, <2>4
<1>12. CASE FaceDone
  BY <1>12 DEF FaceDone
<1>13. ASSUME NEW f \in Frame, AnchorRecognition(f) PROVE TypeOK'
  BY <1>13 DEF AnchorRecognition
<1>14. ASSUME NEW f \in Frame, QueueIdentity(f) PROVE TypeOK'
  BY <1>14 DEF QueueIdentity, Larger
<1>15. CASE SkipRecognition
  <2>1. EnvironmentTypeOK'
    BY <1>15 DEF SkipRecognition, SkippableRecognition, Overrun
  <2>2. CursorsTypeOK'
    BY <1>15 DEF SkipRecognition, SkippableRecognition, Overrun
  <2>3. PendingTypeOK'
    BY <1>15 DEF SkipRecognition, SkippableRecognition, Overrun
  <2>4. HistoryTypeOK'
    BY <1>15 DEF SkipRecognition, SkippableRecognition, Overrun
  <2>5. QED
    BY <2>1, <2>2, <2>3, <2>4
<1>16. CASE RecognitionDone
  BY <1>16 DEF RecognitionDone
<1>17. ASSUME NEW f \in Frame, CommitFrame(f) PROVE TypeOK'
  BY <1>17 DEF CommitFrame, DecidedBoxes
<1>18. CASE SkipCommit
  BY <1>18 DEF SkipCommit, SkippableCommit, Overrun
<1>19. CASE CommitDone
  BY <1>19 DEF CommitDone
<1>20. CASE TrimPending
  <2>1. EnvironmentTypeOK'
    BY <1>20, KeepNewestSubset DEF TrimPending, CommitPast
  <2>2. CursorsTypeOK'
    BY <1>20, KeepNewestSubset DEF TrimPending, CommitPast
  <2>3. PendingTypeOK'
    BY <1>20, KeepNewestSubset DEF TrimPending, CommitPast
  <2>4. HistoryTypeOK'
    BY <1>20, KeepNewestSubset DEF TrimPending, CommitPast
  <2>5. QED
    BY <2>1, <2>2, <2>3, <2>4
<1>21. CASE UNCHANGED vars
  BY <1>21 DEF vars
<1>22. QED
  BY <1>1, <1>2, <1>3, <1>4, <1>5, <1>6, <1>7, <1>8, <1>9, <1>10, <1>11, <1>12, <1>13,
     <1>14, <1>15, <1>16, <1>17, <1>18, <1>19, <1>20, <1>21 DEF Next, Drain

(* Every variable keeps its type in every reachable state.                  *)
THEOREM TypeCorrect == Spec => []TypeOK
<1>1. Init => TypeOK
  BY CoordinatorAssumption
     DEF Init, TypeOK, EnvironmentTypeOK, CursorsTypeOK, PendingTypeOK, HistoryTypeOK,
         Frame, Stages, Phases, BoxStages, Cursor, None
<1>2. QED
  BY <1>1, TypeOKInductive, PTL DEF Spec

-----------------------------------------------------------------------------
(* The order of commits is kept by the commit cursor, which stays above     *)
(* every frame committed so far.                                            *)
CommittedBehindCursor ==
  \A i \in DOMAIN committed : committed[i] < nextCommit

OrderInv == CommitsInOrder /\ CommittedBehindCursor

(* Only committing, tracking the first frame, skipping and trimming move    *)
(* the commit cursor, and only forward; only committing extends the log.    *)
LEMMA CommitCursorSteps ==
  ASSUME TypeOK, [Next]_vars
  PROVE  \/ committed' = committed /\ nextCommit' >= nextCommit
         \/ /\ nextCommit \in pendingIdentities
            /\ nextCommit \in Frame
            /\ committed' = Append(committed, nextCommit)
            /\ nextCommit' = nextCommit + 1
<1> DEFINE Goal == \/ committed' = committed /\ nextCommit' >= nextCommit
                   \/ /\ nextCommit \in pendingIdentities
                      /\ nextCommit \in Frame
                      /\ committed' = Append(committed, nextCommit)
                      /\ nextCommit' = nextCommit + 1
<1> USE CoordinatorAssumption
        DEF TypeOK, CursorsTypeOK, Cursor, Frame, None, cursors, history
<1>1. CASE Environment
  BY <1>1 DEF Environment, Ingest, DropFrame, DropTask
<1>2. CASE Push
  BY <1>2 DEF Push, PushFrame, PushPersonDetection, PushFaceResult,
              PushRecognitionResult, PushIdentityResult
<1>3. CASE BeginDrain \/ ProbesDone \/ TrackingDone \/ FaceDone \/ RecognitionDone \/ CommitDone
  BY <1>3 DEF BeginDrain, ProbesDone, TrackingDone, FaceDone, RecognitionDone, CommitDone
<1>4. ASSUME NEW f \in Frame,
             QueueProbe(f) \/ AnchorTracker(f) \/ JumpTracker(f) \/ FinishFace(f)
               \/ AnchorRecognition(f) \/ QueueIdentity(f)
      PROVE  Goal
  BY <1>4 DEF QueueProbe, AnchorTracker, JumpTracker, FinishFace, AnchorRecognition,
              QueueIdentity
<1>5. ASSUME NEW f \in Frame, TrackFrame(f) \/ TrackBlind(f)
      PROVE  Goal
  BY <1>5 DEF TrackFrame, TrackBlind, ProcessTrackedFrame
<1>6. ASSUME NEW f \in Frame, CommitFrame(f)
      PROVE  Goal
  BY <1>6 DEF CommitFrame, IsNextCommit
<1>7. CASE SkipRecognition \/ SkipCommit
  BY <1>7 DEF SkipRecognition, SkipCommit, SkippableCommit
<1>8. CASE TrimPending
  <2>1. PICK dropped \in SUBSET Frame : CommitPast(dropped)
    BY <1>8 DEF TrimPending, PendingTypeOK
  <2>2. nextCommit' >= nextCommit
    BY <2>1 DEF CommitPast, Stale
  <2>3. QED
    BY <1>8, <2>2 DEF TrimPending
<1>9. CASE UNCHANGED vars
  BY <1>9 DEF vars
<1>10. QED
  BY <1>1, <1>2, <1>3, <1>4, <1>5, <1>6, <1>7, <1>8, <1>9 DEF Next, Drain

LEMMA OrderInvInductive == TypeOK /\ OrderInv /\ [Next]_vars => OrderInv'
<1> SUFFICES ASSUME TypeOK, OrderInv, [Next]_vars PROVE OrderInv'
  OBVIOUS
<1> USE CoordinatorAssumption
        DEF OrderInv, CommitsInOrder, CommittedBehindCursor, TypeOK, CursorsTypeOK,
            HistoryTypeOK, Cursor, Frame, None
<1>0. committed \in Seq(Int) /\ \A i \in DOMAIN committed : committed[i] \in Int
  OBVIOUS
<1>1. CASE committed' = committed /\ nextCommit' >= nextCommit
  <2>1. nextCommit' \in Cursor
    BY TypeOKInductive
  <2>2. QED
    BY <1>0, <1>1, <2>1
<1>2. CASE /\ nextCommit \in Frame
           /\ committed' = Append(committed, nextCommit)
           /\ nextCommit' = nextCommit + 1
  <2>1. DOMAIN committed' = 1..(Len(committed) + 1)
    BY <1>2, <1>0
  <2>2. \A i \in DOMAIN committed : i \in DOMAIN committed' /\ committed'[i] = committed[i]
    BY <1>2, <1>0
  <2>3. committed'[Len(committed) + 1] = nextCommit
    BY <1>2, <1>0
  <2>4. DOMAIN committed = 1..Len(committed) /\ Len(committed) \in Nat
    BY <1>0
  <2>5. CommittedBehindCursor'
    <3>1. SUFFICES ASSUME NEW i \in DOMAIN committed' PROVE committed'[i] < nextCommit + 1
      BY <1>2
    <3>2. CASE i \in DOMAIN committed
      BY <3>2, <2>2, <1>0
    <3>3. CASE i = Len(committed) + 1
      BY <3>3, <2>3
    <3>4. QED
      BY <3>1, <3>2, <3>3, <2>1, <2>4
  <2>6. CommitsInOrder'
    <3>1. SUFFICES ASSUME NEW i \in DOMAIN committed', NEW j \in DOMAIN committed', i < j
                   PROVE  committed'[i] < committed'[j]
      OBVIOUS
    <3>2. i \in DOMAIN committed
      BY <3>1, <2>1, <2>4
    <3>3. CASE j \in DOMAIN committed
      BY <3>1, <3>2, <3>3, <2>2
    <3>4. CASE j = Len(committed) + 1
      BY <3>2, <3>4, <2>2, <2>3
    <3>5. QED
      BY <3>1, <3>3, <3>4, <2>1, <2>4
  <2>7. QED
    BY <2>5, <2>6
<1>3. QED
  BY <1>1, <1>2, CommitCursorSteps

(* Frames are committed in frame_id order, each at most once.               *)
THEOREM CommitOrder == Spec => []CommitsInOrder
<1>1. Init => OrderInv
  BY DEF Init, OrderInv, CommitsInOrder, CommittedBehindCursor
<1>2. OrderInv => CommitsInOrder
  BY DEF OrderInv
<1>3. QED
  BY <1>1, <1>2, OrderInvInductive, TypeCorrect, PTL DEF Spec

-----------------------------------------------------------------------------
(* What moves through the stages was emitted by the source.                 *)
Emitted(S) == \A f \in S : f < nextFrame

EmittedInv ==
  /\ Emitted(framesIn)
  /\ \A s \in Stages : Emitted(tasks[s])
  /\ Emitted(pendingFrames) /\ Emitted(pendingDetections)
  /\ Emitted(pendingFace)
  /\ Emitted(pendingRecognitions)
  /\ Emitted(pendingIdentities)

LEMMA EmittedInvInductive == TypeOK /\ EmittedInv /\ [Next]_vars => EmittedInv'
<1> SUFFICES ASSUME TypeOK, EmittedInv, [Next]_vars PROVE EmittedInv'
  OBVIOUS
<1> USE CoordinatorAssumption
        DEF EmittedInv, Emitted, TypeOK, EnvironmentTypeOK, PendingTypeOK, Frame, Stages,
            environment, cursors, latest, faceStage, history
<1>1. CASE Environment
  <2>1. CASE Ingest
    BY <2>1 DEF Ingest
  <2>2. ASSUME NEW f \in Frame, DropFrame(f) PROVE EmittedInv'
    BY <2>2 DEF DropFrame
  <2>3. ASSUME NEW s \in Stages, NEW f \in Frame, DropTask(s, f) PROVE EmittedInv'
    BY <2>3 DEF DropTask
  <2>4. QED
    BY <1>1, <2>1, <2>2, <2>3 DEF Environment
<1>2. ASSUME NEW f \in Frame,
             \/ PushFrame(f) \/ PushPersonDetection(f) \/ PushFaceResult(f)
             \/ PushRecognitionResult(f) \/ PushIdentityResult(f)
      PROVE  EmittedInv'
  <2>1. CASE PushFrame(f)
    BY <2>1 DEF PushFrame, IsFirst
  <2>2. CASE PushPersonDetection(f)
    BY <2>2 DEF PushPersonDetection, Take
  <2>3. CASE PushFaceResult(f)
    BY <2>3 DEF PushFaceResult, Take
  <2>4. CASE PushRecognitionResult(f)
    BY <2>4 DEF PushRecognitionResult, Take
  <2>5. CASE PushIdentityResult(f)
    BY <2>5 DEF PushIdentityResult, Take
  <2>6. QED
    BY <1>2, <2>1, <2>2, <2>3, <2>4, <2>5
<1>3. CASE BeginDrain \/ ProbesDone \/ TrackingDone \/ FaceDone \/ SkipRecognition \/ SkipCommit
  BY <1>3 DEF BeginDrain, ProbesDone, TrackingDone, FaceDone, SkipRecognition, SkipCommit
<1>4. CASE RecognitionDone \/ CommitDone
  BY <1>4 DEF RecognitionDone, CommitDone
<1>5. ASSUME NEW f \in Frame, QueueProbe(f) PROVE EmittedInv'
  BY <1>5 DEF QueueProbe, IsFirst, ProbeCandidates
<1>6. ASSUME NEW f \in Frame, AnchorTracker(f) \/ JumpTracker(f) \/ AnchorRecognition(f)
      PROVE  EmittedInv'
  BY <1>6 DEF AnchorTracker, JumpTracker, AnchorRecognition
<1>7. ASSUME NEW f \in Frame, TrackFrame(f) \/ TrackBlind(f) PROVE EmittedInv'
  <2>1. f \in pendingFrames /\ ProcessTrackedFrame(f)
    BY <1>7 DEF TrackFrame, TrackBlind
  <2>2. QED
    BY <2>1 DEF ProcessTrackedFrame
<1>8. ASSUME NEW f \in Frame, FinishFace(f) PROVE EmittedInv'
  BY <1>8 DEF FinishFace, LeaveFace, IsFirst
<1>9. ASSUME NEW f \in Frame, QueueIdentity(f) PROVE EmittedInv'
  BY <1>9 DEF QueueIdentity
<1>10. ASSUME NEW f \in Frame, CommitFrame(f) PROVE EmittedInv'
  BY <1>10 DEF CommitFrame
<1>11. CASE TrimPending
  BY <1>11, KeepNewestSubset DEF TrimPending
<1>12. CASE UNCHANGED vars
  BY <1>12 DEF vars
<1>13. QED
  BY <1>1, <1>2, <1>3, <1>4, <1>5, <1>6, <1>7, <1>8, <1>9, <1>10, <1>11, <1>12
     DEF Next, Push, Drain

(* The source's counter moves only when a frame is ingested, and the log    *)
(* does not change in that step.                                            *)
LEMMA CounterSteps ==
  ASSUME TypeOK, [Next]_vars
  PROVE  \/ UNCHANGED nextFrame
         \/ /\ nextFrame \in Frame
            /\ nextFrame' = nextFrame + 1
            /\ UNCHANGED committed
<1> USE DEF TypeOK, EnvironmentTypeOK, Frame, environment, history
<1>1. CASE Ingest
  BY <1>1, CoordinatorAssumption DEF Ingest
<1>2. CASE ~Ingest
  BY <1>2 DEF Next, vars, Environment, Push, Drain, DropFrame, DropTask, PushFrame,
       PushPersonDetection, PushFaceResult, PushRecognitionResult, PushIdentityResult,
       BeginDrain, QueueProbe, ProbesDone, AnchorTracker, TrackFrame, TrackBlind,
       ProcessTrackedFrame, JumpTracker, TrackingDone, FinishFace, FaceDone,
       AnchorRecognition, QueueIdentity, SkipRecognition, RecognitionDone, CommitFrame,
       SkipCommit, CommitDone, TrimPending
<1>3. QED
  BY <1>1, <1>2

(* The coordinator implements the ordered log of commits: every step offers *)
(* the next frame to the log, commits one, or leaves the log alone.         *)
THEOREM CoordinatorImplementsCommitLog == Spec => ImplementsCommitLog
<1>1. Init => Log!Init
  BY DEF Init, Log!Init
<1>2. TypeOK /\ OrderInv /\ EmittedInv /\ [Next]_vars => [Log!Next]_(Log!vars)
  <2> SUFFICES ASSUME TypeOK, OrderInv, EmittedInv, [Next]_vars
               PROVE  [Log!Next]_(Log!vars)
    OBVIOUS
  <2>0. nextFrame \in Nat
    BY DEF TypeOK, EnvironmentTypeOK
  <2>1. CASE committed' = committed /\ UNCHANGED nextFrame
    BY <2>1 DEF Log!vars
  <2>2. CASE nextFrame \in Frame /\ nextFrame' = nextFrame + 1 /\ UNCHANGED committed
    <3>1. Log!Offer(nextFrame)
      BY <2>0, <2>2 DEF Log!Offer
    <3>2. QED
      BY <2>2, <3>1 DEF Log!Next
  <2>3. CASE /\ UNCHANGED nextFrame
             /\ nextCommit \in pendingIdentities
             /\ nextCommit \in Frame
             /\ committed' = Append(committed, nextCommit)
    <3>1. nextCommit \in 0..(nextFrame - 1)
      BY <2>0, <2>3 DEF EmittedInv, Emitted, Frame
    <3>2. Log!Commit(nextCommit)
      BY <2>3, <3>1 DEF Log!Commit, OrderInv, CommittedBehindCursor
    <3>3. QED
      BY <2>3, <3>2 DEF Log!Next
  <2>4. QED
    <3>1. Append(committed, nextCommit) # committed
      BY DEF TypeOK, HistoryTypeOK
    <3>2. QED
      BY <2>1, <2>2, <2>3, <3>1, CommitCursorSteps, CounterSteps
<1>3. Init => OrderInv /\ EmittedInv
  BY DEF Init, OrderInv, CommitsInOrder, CommittedBehindCursor, EmittedInv, Emitted, Stages
<1>4. QED
  BY <1>1, <1>2, <1>3, TypeCorrect, OrderInvInductive, EmittedInvInductive, PTL
     DEF Spec, ImplementsCommitLog, Log!Spec

-----------------------------------------------------------------------------
(* Where a tracked frame is: with no recognizer yet, with one, answered,    *)
(* with an identity worker, decided, or committed.                          *)
Unrecognised == pendingFace \ recognitionQueued
Committed == {committed[i] : i \in DOMAIN committed}

(* What a step leaves alone that moves no frame from one place to another   *)
(* and no cursor.                                                           *)
Quiet ==
  /\ UNCHANGED <<nextTracker, nextRecognition, nextCommit, latestRecognition, latestIdentity,
                 boxes, committed, blind, refused, anchor>>
  /\ pendingFace' \subseteq pendingFace
  /\ Unrecognised' \subseteq Unrecognised
  /\ tasks'["recognizer"] \subseteq tasks["recognizer"]
  /\ pendingRecognitions' \subseteq pendingRecognitions
  /\ tasks'["identity"] \subseteq tasks["identity"]
  /\ pendingIdentities' \subseteq pendingIdentities

(* The other steps are those of the stages themselves.                      *)
Moves(f) ==
  \/ PushRecognitionResult(f) \/ PushIdentityResult(f)
  \/ AnchorTracker(f) \/ TrackFrame(f) \/ TrackBlind(f) \/ JumpTracker(f)
  \/ FinishFace(f) \/ AnchorRecognition(f) \/ QueueIdentity(f) \/ CommitFrame(f)

Skips == SkipRecognition \/ SkipCommit \/ TrimPending

(* The cursors are in the order of the stages, and what a stage is working  *)
(* on has been queued for it.                                               *)
CursorsPlaced ==
  /\ nextTracker = None => latestRecognition = None
  /\ latestIdentity = None \/ latestIdentity < nextRecognition
  /\ nextCommit = None => latestRecognition = None /\ pendingFace = {}

QueuedFor ==
  /\ \A f \in pendingFace : f < nextTracker
  /\ \A f \in tasks["recognizer"] : f <= latestRecognition
  /\ \A f \in pendingRecognitions : f <= latestRecognition
  /\ \A f \in tasks["identity"] : f <= latestIdentity
  /\ \A f \in pendingIdentities : f <= latestIdentity

StageInv == CursorsFollowStages /\ CursorsPlaced /\ QueuedFor

(* A frame is at one place at a time.                                       *)
OnePlace ==
  /\ Unrecognised \cap (tasks["recognizer"] \cup pendingRecognitions \cup tasks["identity"]
                          \cup pendingIdentities \cup Committed) = {}
  /\ tasks["recognizer"] \cap (pendingRecognitions \cup tasks["identity"]
                                 \cup pendingIdentities \cup Committed) = {}
  /\ pendingRecognitions \cap (tasks["identity"] \cup pendingIdentities \cup Committed) = {}
  /\ tasks["identity"] \cap (pendingIdentities \cup Committed) = {}
  /\ pendingIdentities \cap Committed = {}

(* A frame that the recognition cursor has passed and that has not been     *)
(* recognised yet was overrun, or precedes the first result.                *)
Overtaken(f) == anchor <= f /\ f < nextRecognition => latestRecognition > f + ReorderWindow

LateInv ==
  /\ \A f \in Unrecognised : Overtaken(f)
  /\ \A f \in tasks["recognizer"] : Overtaken(f)
  /\ nextRecognition = None => refused = {}

(* What was tracked has boxes.                                              *)
BoxedInv ==
  /\ \A f \in pendingFace : boxes[f] # "none"
  /\ \A f \in tasks["recognizer"] : boxes[f] # "none"
  /\ \A f \in pendingRecognitions : boxes[f] # "none"
  /\ \A f \in tasks["identity"] : boxes[f] # "none"
  /\ \A f \in pendingIdentities : boxes[f] # "none"
  /\ nextCommit = None => \A f \in Frame : boxes[f] = "none"

(* Nothing waits for the tracker that it has passed, or for a face that was *)
(* not asked for.                                                           *)
FramesAhead == \A f \in pendingFrames : ~Stale(nextTracker, f)

ProbesAsked ==
  /\ \A f \in waiting : f <= latestFace
  /\ \A f \in queuedProbes : f <= latestFace

(* What each phase of a drain leaves behind, until the next push.           *)
TrackingLeaves ==
  pc \in {"face", "recognition", "commit", "trim"} => \A f \in pendingFrames :
    nextTracker <= f /\ f <= nextTracker + ReorderWindow

FaceLeaves ==
  pc \in {"recognition", "commit", "trim"} => \A f \in pendingFace :
    latestFace - ReorderWindow <= f /\ f <= latestFace

RecognitionLeaves ==
  pc \in {"commit", "trim"} => \A f \in pendingRecognitions :
    nextRecognition + 1 <= f /\ f <= nextRecognition + ReorderWindow

CommitLeaves ==
  pc = "trim" => \A f \in pendingIdentities :
    nextCommit + 1 <= f /\ f <= nextCommit + ReorderWindow

BacklogInv ==
  /\ FramesAhead /\ ProbesAsked
  /\ TrackingLeaves /\ FaceLeaves /\ RecognitionLeaves /\ CommitLeaves

(* The steps of the source, of the queues and of the coordinator that only  *)
(* hand on or drop are quiet.                                               *)
LEMMA QuietSteps ==
  TypeOK /\ [Next]_vars => Quiet \/ Skips \/ \E f \in Frame : Moves(f)
<1> SUFFICES ASSUME TypeOK, [Next]_vars, ~Skips, \A f \in Frame : ~Moves(f)
             PROVE  Quiet
  OBVIOUS
<1> USE DEF Quiet, Unrecognised, environment, cursors, latest, faceStage, history
<1>1. CASE Environment
  <2>1. CASE Ingest
    BY <2>1 DEF Ingest, TypeOK, EnvironmentTypeOK, Stages
  <2>2. ASSUME NEW f \in Frame, DropFrame(f) PROVE Quiet
    BY <2>2 DEF DropFrame
  <2>3. ASSUME NEW s \in Stages, NEW f \in Frame, DropTask(s, f) PROVE Quiet
    BY <2>3 DEF DropTask, TypeOK, EnvironmentTypeOK, Stages
  <2>4. QED
    BY <1>1, <2>1, <2>2, <2>3 DEF Environment
<1>2. ASSUME NEW f \in Frame,
             PushFrame(f) \/ PushPersonDetection(f) \/ PushFaceResult(f)
      PROVE  Quiet
  <2>1. CASE PushFrame(f)
    BY <2>1 DEF PushFrame
  <2>2. CASE PushPersonDetection(f)
    BY <2>2 DEF PushPersonDetection, Take, TypeOK, EnvironmentTypeOK, Stages
  <2>3. CASE PushFaceResult(f)
    BY <2>3 DEF PushFaceResult, Take, TypeOK, EnvironmentTypeOK, Stages
  <2>4. QED
    BY <1>2, <2>1, <2>2, <2>3
<1>3. CASE BeginDrain \/ ProbesDone \/ TrackingDone \/ FaceDone
  BY <1>3 DEF BeginDrain, ProbesDone, TrackingDone, FaceDone
<1>4. ASSUME NEW f \in Frame, QueueProbe(f) PROVE Quiet
  BY <1>4 DEF QueueProbe, TypeOK, EnvironmentTypeOK, Stages
<1>5. CASE RecognitionDone \/ CommitDone
  BY <1>5 DEF RecognitionDone, CommitDone
<1>6. CASE UNCHANGED vars
  BY <1>6 DEF vars
<1>7. QED
  BY <1>1, <1>2, <1>3, <1>4, <1>5, <1>6 DEF Next, Push, Drain, Moves, Skips

(* Tracking a frame: where it goes, and the cursors.                        *)
LEMMA TrackSteps ==
  ASSUME TypeOK, NEW f \in Frame, TrackFrame(f) \/ TrackBlind(f)
  PROVE  /\ f = nextTracker /\ nextTracker' = f + 1
         /\ nextCommit' = IF nextCommit = None THEN f ELSE nextCommit
         /\ UNCHANGED <<nextRecognition, latestIdentity, pendingRecognitions,
                        pendingIdentities, committed, refused, anchor>>
         /\ tasks'["identity"] = tasks["identity"]
         /\ pendingFace' = pendingFace \cup {f}
         /\ \/ /\ UNCHANGED <<latestRecognition, recognitionQueued>>
               /\ tasks'["recognizer"] = tasks["recognizer"]
               /\ boxes' = [boxes EXCEPT ![f] = "tracked"]
            \/ /\ latestRecognition' = Larger(latestRecognition, f)
               /\ recognitionQueued' = recognitionQueued \cup {f}
               /\ tasks'["recognizer"] = tasks["recognizer"] \cup {f}
               /\ boxes' = [boxes EXCEPT ![f] = "faced"]
<1> f = nextTracker /\ ProcessTrackedFrame(f)
  BY DEF TrackFrame, TrackBlind
<1>1. CASE AwaitsFace(f)
  BY <1>1 DEF ProcessTrackedFrame, TypeOK, EnvironmentTypeOK, Stages
<1>2. CASE ~AwaitsFace(f)
  BY <1>2 DEF ProcessTrackedFrame, TypeOK, EnvironmentTypeOK, Stages
<1>3. QED
  BY <1>1, <1>2

(* The cursors are numbers from None on, and frames wait in the stages.     *)
Numbers ==
  /\ nextTracker \in Int /\ nextRecognition \in Int /\ nextCommit \in Int
  /\ latestFace \in Int /\ latestRecognition \in Int /\ latestIdentity \in Int
  /\ nextTracker >= None /\ nextRecognition >= None /\ nextCommit >= None
  /\ latestFace >= None /\ latestRecognition >= None /\ latestIdentity >= None
  /\ pendingFace \subseteq Frame /\ pendingRecognitions \subseteq Frame
  /\ pendingIdentities \subseteq Frame
  /\ tasks["recognizer"] \subseteq Frame /\ tasks["identity"] \subseteq Frame

LEMMA TypeOKNumbers == /\ TypeOK => Numbers
                       /\ TypeOK' => Numbers'
BY CoordinatorAssumption
   DEF TypeOK, EnvironmentTypeOK, CursorsTypeOK, PendingTypeOK, Numbers, Frame, Stages,
       Cursor, None

(* Arithmetic of a cursor that is at most one ahead of a latest frame.      *)
LEMMA SuccessorBound == \A a, b, c \in Int : a <= b + 1 /\ b <= c => a <= c + 1
OBVIOUS

LEMMA LeqTransitive == \A a, b, c \in Int : a <= b /\ b <= c => a <= c
OBVIOUS

LEMMA StageInvInductive == TypeOK /\ StageInv /\ [Next]_vars => StageInv'
<1> SUFFICES ASSUME TypeOK, Numbers, Numbers', StageInv, [Next]_vars PROVE StageInv'
  BY TypeOKInductive, TypeOKNumbers
<1> USE CoordinatorAssumption DEF Numbers, StageInv, CursorsFollowStages, CursorsPlaced, QueuedFor, Frame, None
<1>1. CASE Quiet
  BY <1>1 DEF Quiet
<1>2. ASSUME NEW f \in Frame, PushRecognitionResult(f) PROVE StageInv'
  BY <1>2 DEF PushRecognitionResult, Take, cursors, latest, faceStage
<1>3. ASSUME NEW f \in Frame, PushIdentityResult(f) PROVE StageInv'
  BY <1>3 DEF PushIdentityResult, Take, cursors, latest, faceStage
<1>4. ASSUME NEW f \in Frame, AnchorTracker(f) \/ JumpTracker(f) PROVE StageInv'
  <2>1. /\ nextTracker' = f /\ nextTracker < f
        /\ UNCHANGED <<nextRecognition, nextCommit, latest, faceStage, tasks,
                       pendingRecognitions, pendingIdentities>>
    BY <1>4 DEF AnchorTracker, JumpTracker, environment
  <2>2. QED
    BY <2>1 DEF latest, faceStage
<1>5. ASSUME NEW f \in Frame, TrackFrame(f) \/ TrackBlind(f) PROVE StageInv'
  <2>1. f = nextTracker /\ nextTracker' = f + 1
    BY <1>5, TrackSteps
  <2>2. /\ nextRecognition' = nextRecognition /\ latestIdentity' = latestIdentity
        /\ pendingRecognitions' = pendingRecognitions
        /\ pendingIdentities' = pendingIdentities
        /\ tasks'["identity"] = tasks["identity"]
        /\ pendingFace' = pendingFace \cup {f}
    BY <1>5, TrackSteps
  <2>3. nextCommit' <= f /\ nextCommit' # None
    BY <1>5, <2>1, TrackSteps
  <2>4. /\ latestRecognition <= latestRecognition' /\ latestRecognition' <= f
        /\ \A g \in tasks'["recognizer"] : g <= latestRecognition'
    BY <1>5, <2>1, TrackSteps DEF Larger
  <2>5. nextRecognition' <= latestRecognition' + 1
    BY <2>2, <2>4, SuccessorBound
  <2>6. CursorsFollowStages'
    <3>1. nextCommit' <= nextTracker'
      BY <2>1, <2>3
    <3>2. latestRecognition' < nextTracker'
      BY <2>1, <2>4
    <3>3. latestIdentity' < nextRecognition' \/ nextRecognition' = None
      BY <2>2
    <3>4. QED
      BY <2>5, <3>1, <3>2, <3>3
  <2>7. CursorsPlaced'
    BY <2>1, <2>2, <2>3
  <2>8. QueuedFor'
    <3>1. \A g \in pendingFace' : g < nextTracker'
      BY <2>1, <2>2
    <3>2. ASSUME NEW g \in pendingRecognitions PROVE g <= latestRecognition'
      <4>1. g \in Int /\ g <= latestRecognition
        OBVIOUS
      <4>2. QED
        BY <4>1, <2>4, LeqTransitive
    <3>3. /\ \A g \in tasks'["recognizer"] : g <= latestRecognition'
          /\ \A g \in pendingRecognitions' : g <= latestRecognition'
          /\ \A g \in tasks'["identity"] : g <= latestIdentity'
          /\ \A g \in pendingIdentities' : g <= latestIdentity'
      BY <2>2, <2>4, <3>2
    <3>4. QED
      BY <3>1, <3>3
  <2>9. QED
    BY <2>6, <2>7, <2>8
<1>6. ASSUME NEW f \in Frame, FinishFace(f) PROVE StageInv'
  <2>1. /\ f \in pendingFace
        /\ pendingFace' \subseteq pendingFace
        /\ nextTracker' = nextTracker /\ nextRecognition' = nextRecognition
        /\ nextCommit' = nextCommit /\ latestIdentity' = latestIdentity
        /\ pendingRecognitions' = pendingRecognitions
        /\ pendingIdentities' = pendingIdentities
    BY <1>6 DEF FinishFace, IsFirst, LeaveFace, cursors
  <2>2. /\ latestRecognition <= latestRecognition' /\ latestRecognition' < nextTracker
        /\ tasks'["identity"] = tasks["identity"]
        /\ \A g \in tasks'["recognizer"] : g <= latestRecognition'
    <3>1. CASE f \in recognitionQueued
      BY <1>6, <2>1, <3>1 DEF FinishFace
    <3>2. CASE f \notin recognitionQueued
      <4>1. /\ latestRecognition' = Larger(latestRecognition, f)
            /\ tasks'["recognizer"] = tasks["recognizer"] \cup {f}
            /\ tasks'["identity"] = tasks["identity"]
        BY <1>6, <3>2 DEF FinishFace, TypeOK, EnvironmentTypeOK, Stages
      <4>2. QED
        BY <2>1, <4>1 DEF Larger
    <3>3. QED
      BY <3>1, <3>2
  <2>3. nextRecognition' <= latestRecognition' + 1
    BY <2>1, <2>2, SuccessorBound
  <2>4. CursorsFollowStages'
    BY <2>1, <2>2, <2>3
  <2>5. CursorsPlaced'
    BY <2>1, <2>2
  <2>6. QueuedFor'
    <3>1. \A g \in pendingFace' : g < nextTracker'
      BY <2>1
    <3>2. \A g \in pendingRecognitions : g <= latestRecognition'
      BY <2>2, LeqTransitive
    <3>3. /\ \A g \in tasks'["recognizer"] : g <= latestRecognition'
          /\ \A g \in pendingRecognitions' : g <= latestRecognition'
          /\ \A g \in tasks'["identity"] : g <= latestIdentity'
          /\ \A g \in pendingIdentities' : g <= latestIdentity'
      BY <2>1, <2>2, <3>2
    <3>4. QED
      BY <3>1, <3>3
  <2>7. QED
    BY <2>4, <2>5, <2>6
<1>7. ASSUME NEW f \in Frame, AnchorRecognition(f) PROVE StageInv'
  <2>1. /\ nextRecognition = None /\ f \in pendingRecognitions
        /\ nextRecognition' = f
        /\ UNCHANGED <<nextTracker, nextCommit, latestRecognition, latestIdentity,
                       pendingFace, tasks, pendingRecognitions, pendingIdentities>>
    BY <1>7 DEF AnchorRecognition, IsFirst, latest, faceStage, environment
  <2>2. latestIdentity = None
    BY <2>1
  <2>3. QED
    BY <2>1, <2>2
<1>8. ASSUME NEW f \in Frame, QueueIdentity(f) PROVE StageInv'
  <2>1. /\ nextRecognition = f /\ nextRecognition' = f + 1 /\ f <= latestRecognition
        /\ latestIdentity' = Larger(latestIdentity, f)
        /\ pendingRecognitions' \subseteq pendingRecognitions
        /\ nextTracker' = nextTracker /\ nextCommit' = nextCommit
        /\ latestRecognition' = latestRecognition /\ pendingFace' = pendingFace
        /\ pendingIdentities' = pendingIdentities
    BY <1>8 DEF QueueIdentity, faceStage
  <2>2. /\ tasks'["recognizer"] = tasks["recognizer"]
        /\ tasks'["identity"] = tasks["identity"] \cup {f}
    BY <1>8 DEF QueueIdentity, TypeOK, EnvironmentTypeOK, Stages
  <2>3. latestIdentity' = f
    BY <2>1 DEF Larger
  <2>4. CursorsFollowStages'
    BY <2>1, <2>3
  <2>5. CursorsPlaced'
    BY <2>1, <2>3
  <2>6. QueuedFor'
    <3>1. latestIdentity <= f
      BY <2>1
    <3>2. \A g \in tasks["identity"] : g <= f
      BY <3>1, LeqTransitive
    <3>3. \A g \in pendingIdentities : g <= f
      BY <3>1, LeqTransitive
    <3>4. QED
      BY <2>1, <2>2, <2>3, <3>2, <3>3
  <2>7. QED
    BY <2>4, <2>5, <2>6
<1>9. ASSUME NEW f \in Frame, CommitFrame(f) PROVE StageInv'
  BY <1>9 DEF CommitFrame, IsNextCommit, latest, faceStage, environment
<1>10. CASE SkipRecognition
  <2>1. /\ nextRecognition < latestRecognition
        /\ nextRecognition' = nextRecognition + 1
        /\ UNCHANGED <<nextTracker, nextCommit, latestRecognition, latestIdentity,
                       pendingFace, tasks, pendingRecognitions, pendingIdentities>>
    BY <1>10 DEF SkipRecognition, SkippableRecognition, Overrun, latest, faceStage,
                 environment
  <2>2. CursorsFollowStages'
    BY <2>1
  <2>3. QED
    BY <2>1, <2>2
<1>11. CASE SkipCommit
  BY <1>11 DEF SkipCommit, SkippableCommit, Overrun, latest, faceStage, environment
<1>12. CASE TrimPending
  <2>1. PICK dropped \in SUBSET pendingFace : CommitPast(dropped)
    BY <1>12 DEF TrimPending
  <2>2. nextCommit' <= nextTracker
    BY <2>1 DEF CommitPast, Stale, IsLast
  <2>3. nextCommit' = None => nextCommit = None
    BY <2>1 DEF CommitPast
  <2>4. /\ UNCHANGED <<nextTracker, nextRecognition, latestRecognition, latestIdentity, tasks>>
        /\ pendingFace' \subseteq pendingFace
        /\ pendingRecognitions' \subseteq pendingRecognitions
        /\ pendingIdentities' \subseteq pendingIdentities
    BY <1>12, KeepNewestSubset DEF TrimPending, latest, environment
  <2>5. QED
    BY <2>2, <2>3, <2>4
<1>13. QED
  BY <1>1, <1>2, <1>3, <1>4, <1>5, <1>6, <1>7, <1>8, <1>9, <1>10, <1>11, <1>12, QuietSteps
     DEF Moves, Skips

LEMMA StageInvInitial == Init => StageInv
BY CoordinatorAssumption
   DEF Init, StageInv, CursorsFollowStages, CursorsPlaced, QueuedFor, None, Stages, Frame

LEMMA StageCorrect == Spec => []StageInv
<1>1. QED
  BY StageInvInitial, StageInvInductive, TypeCorrect, PTL DEF Spec

(* No cursor overtakes the stage that feeds it: a frame is not passed       *)
(* before it has been tracked.                                              *)
THEOREM CursorsBehindStages == Spec => []CursorsFollowStages
<1>1. StageInv => CursorsFollowStages
  BY DEF StageInv
<1>2. QED
  BY <1>1, StageCorrect, PTL

(* No step takes a cursor back.                                             *)
LEMMA CursorSteps ==
  ASSUME TypeOK, [Next]_vars
  PROVE  /\ nextTracker' >= nextTracker
         /\ nextRecognition' >= nextRecognition
         /\ nextCommit' >= nextCommit
<1> DEFINE Forward == nextTracker' >= nextTracker /\ nextRecognition' >= nextRecognition
<1>0. nextCommit' >= nextCommit
  <2>1. nextCommit \in Int
    BY TypeOKNumbers DEF Numbers
  <2>2. QED
    BY <2>1, CommitCursorSteps
<1>1. Numbers
  BY TypeOKNumbers
<1>2. ASSUME Quiet PROVE Forward
  BY <1>1, <1>2 DEF Quiet, Numbers
<1>3. ASSUME Skips PROVE Forward
  BY <1>1, <1>3 DEF Skips, SkipRecognition, SkipCommit, TrimPending, Numbers
<1>4. ASSUME NEW f \in Frame, Moves(f) PROVE Forward
  <2>1. CASE PushRecognitionResult(f) \/ PushIdentityResult(f)
    BY <1>1, <2>1 DEF PushRecognitionResult, PushIdentityResult, cursors, Numbers
  <2>2. CASE AnchorTracker(f) \/ JumpTracker(f)
    BY <1>1, <2>2, CoordinatorAssumption DEF AnchorTracker, JumpTracker, Numbers, None, Frame
  <2>3. CASE TrackFrame(f) \/ TrackBlind(f)
    BY <1>1, <2>3, TrackSteps DEF Numbers
  <2>4. CASE FinishFace(f) \/ CommitFrame(f)
    BY <1>1, <2>4 DEF FinishFace, CommitFrame, cursors, Numbers
  <2>5. CASE AnchorRecognition(f)
    BY <1>1, <2>5, CoordinatorAssumption DEF AnchorRecognition, Numbers, None, Frame
  <2>6. CASE QueueIdentity(f)
    BY <1>1, <2>6 DEF QueueIdentity, Numbers
  <2>7. QED
    BY <1>4, <2>1, <2>2, <2>3, <2>4, <2>5, <2>6 DEF Moves
<1>5. Forward
  BY <1>2, <1>3, <1>4, QuietSteps
<1>6. QED
  BY <1>0, <1>5

(* Trimming may move the commit cursor, but no cursor ever goes back to     *)
(* frames that were committed or given up.                                  *)
THEOREM CursorsOnlyAdvance == Spec => CursorsAdvance
<1>1. TypeOK /\ [Next]_vars => [ /\ nextTracker' >= nextTracker
                                 /\ nextRecognition' >= nextRecognition
                                 /\ nextCommit' >= nextCommit ]_cursors
  BY CursorSteps
<1>2. QED
  BY <1>1, TypeCorrect, PTL DEF Spec, CursorsAdvance

-----------------------------------------------------------------------------
LEMMA CommittedSteps ==
  ASSUME TypeOK, NEW f \in Frame, committed' = Append(committed, f)
  PROVE  Committed' = Committed \cup {f}
<1>1. committed \in Seq(Frame)
  BY DEF TypeOK, HistoryTypeOK
<1>2. /\ DOMAIN committed = 1..Len(committed)
      /\ DOMAIN committed' = 1..(Len(committed) + 1)
      /\ Len(committed) \in Nat
  BY <1>1
<1>3. \A i \in 1..Len(committed) : committed'[i] = committed[i]
  BY <1>1
<1>4. committed'[Len(committed) + 1] = f
  BY <1>1
<1>5. 1..(Len(committed) + 1) = (1..Len(committed)) \cup {Len(committed) + 1}
  BY <1>2
<1>6. QED
  BY <1>2, <1>3, <1>4, <1>5 DEF Committed

(* The frame the tracker is about to take is nowhere yet.                   *)
LEMMA TrackedFrameIsNew ==
  ASSUME TypeOK, StageInv, OrderInv, nextTracker \in Frame
  PROVE  /\ nextTracker \notin pendingFace
         /\ nextTracker \notin tasks["recognizer"]
         /\ nextTracker \notin pendingRecognitions
         /\ nextTracker \notin tasks["identity"]
         /\ nextTracker \notin pendingIdentities
         /\ nextTracker \notin Committed
<1> Numbers
  BY TypeOKNumbers
<1>1. /\ nextCommit <= nextTracker
      /\ latestRecognition < nextTracker
      /\ latestIdentity < nextTracker
  BY CoordinatorAssumption
     DEF Numbers, StageInv, CursorsFollowStages, CursorsPlaced, None, Frame
<1>2. \A f \in Committed : f < nextCommit
  BY DEF OrderInv, CommittedBehindCursor, Committed
<1>3. QED
  BY <1>1, <1>2 DEF StageInv, QueuedFor, Numbers

(* How the steps of the stages move a frame.                                *)
LEMMA RecognizedSteps ==
  ASSUME TypeOK, NEW f \in Frame, PushRecognitionResult(f)
  PROVE  /\ f \in tasks["recognizer"]
         /\ tasks'["recognizer"] = tasks["recognizer"] \ {f}
         /\ tasks'["identity"] = tasks["identity"]
         /\ UNCHANGED <<pendingFace, recognitionQueued, pendingIdentities, committed, boxes>>
         /\ pendingRecognitions' \subseteq pendingRecognitions \cup {f}
BY DEF PushRecognitionResult, Take, TypeOK, EnvironmentTypeOK, Stages, faceStage

LEMMA IdentifiedSteps ==
  ASSUME TypeOK, NEW f \in Frame, PushIdentityResult(f)
  PROVE  /\ f \in tasks["identity"]
         /\ tasks'["identity"] = tasks["identity"] \ {f}
         /\ tasks'["recognizer"] = tasks["recognizer"]
         /\ UNCHANGED <<pendingFace, recognitionQueued, pendingRecognitions, committed, boxes>>
         /\ pendingIdentities' \subseteq pendingIdentities \cup {f}
BY DEF PushIdentityResult, Take, TypeOK, EnvironmentTypeOK, Stages, faceStage, history

LEMMA FacedSteps ==
  ASSUME TypeOK, NEW f \in Frame, FinishFace(f)
  PROVE  /\ f \in pendingFace
         /\ pendingFace' = pendingFace \ {f}
         /\ Unrecognised' = Unrecognised \ {f}
         /\ tasks'["identity"] = tasks["identity"]
         /\ UNCHANGED <<pendingRecognitions, pendingIdentities, committed>>
         /\ \/ tasks'["recognizer"] = tasks["recognizer"] /\ boxes' = boxes
            \/ /\ f \in Unrecognised
               /\ tasks'["recognizer"] = tasks["recognizer"] \cup {f}
               /\ boxes' = [boxes EXCEPT ![f] = "faced"]
<1>1. /\ f \in pendingFace
      /\ pendingFace' = pendingFace \ {f}
      /\ recognitionQueued' = recognitionQueued \ {f}
      /\ UNCHANGED <<pendingRecognitions, pendingIdentities, committed>>
  BY DEF FinishFace, IsFirst, LeaveFace, history
<1>2. CASE f \in recognitionQueued
  BY <1>1, <1>2 DEF FinishFace, Unrecognised
<1>3. CASE f \notin recognitionQueued
  <2>1. /\ tasks'["recognizer"] = tasks["recognizer"] \cup {f}
        /\ tasks'["identity"] = tasks["identity"]
        /\ boxes' = [boxes EXCEPT ![f] = "faced"]
    BY <1>3 DEF FinishFace, TypeOK, EnvironmentTypeOK, Stages
  <2>2. QED
    BY <1>1, <1>3, <2>1 DEF Unrecognised
<1>4. QED
  BY <1>2, <1>3

LEMMA QueuedSteps ==
  ASSUME TypeOK, NEW f \in Frame, QueueIdentity(f)
  PROVE  /\ f \in pendingRecognitions
         /\ pendingRecognitions' = pendingRecognitions \ {f}
         /\ tasks'["recognizer"] = tasks["recognizer"]
         /\ tasks'["identity"] = tasks["identity"] \cup {f}
         /\ boxes' = [boxes EXCEPT ![f] = "recognised"]
         /\ UNCHANGED <<pendingFace, recognitionQueued, pendingIdentities, committed>>
BY DEF QueueIdentity, TypeOK, EnvironmentTypeOK, Stages, faceStage, history

LEMMA CommittingSteps ==
  ASSUME TypeOK, NEW f \in Frame, CommitFrame(f)
  PROVE  /\ f = nextCommit
         /\ f \in pendingIdentities
         /\ pendingIdentities' = pendingIdentities \ {f}
         /\ Committed' = Committed \cup {f}
         /\ boxes' = [boxes EXCEPT ![f] = "decided"]
         /\ UNCHANGED <<pendingFace, recognitionQueued, tasks, pendingRecognitions>>
<1>1. committed' = Append(committed, f)
  BY DEF CommitFrame
<1>2. QED
  BY <1>1, CommittedSteps DEF CommitFrame, IsNextCommit, DecidedBoxes, faceStage, environment

LEMMA TrimSteps ==
  ASSUME TrimPending
  PROVE  /\ pendingFace' \subseteq pendingFace
         /\ Unrecognised' \subseteq Unrecognised
         /\ pendingRecognitions' \subseteq pendingRecognitions
         /\ pendingIdentities' \subseteq pendingIdentities
         /\ UNCHANGED <<tasks, boxes, committed>>
BY KeepNewestSubset DEF TrimPending, Unrecognised, environment, history

LEMMA CommittedFollows == UNCHANGED committed => UNCHANGED Committed
BY DEF Committed

LEMMA OnePlaceInductive == TypeOK /\ StageInv /\ OrderInv /\ OnePlace /\ [Next]_vars => OnePlace'
<1> SUFFICES ASSUME TypeOK, StageInv, OrderInv, OnePlace, [Next]_vars PROVE OnePlace'
  OBVIOUS
<1>1. ASSUME UNCHANGED committed,
             Unrecognised' \subseteq Unrecognised,
             tasks'["recognizer"] \subseteq tasks["recognizer"],
             pendingRecognitions' \subseteq pendingRecognitions,
             tasks'["identity"] \subseteq tasks["identity"],
             pendingIdentities' \subseteq pendingIdentities
      PROVE  OnePlace'
  BY <1>1, CommittedFollows DEF OnePlace
<1>2. CASE Quiet
  BY <1>1, <1>2 DEF Quiet
<1>3. CASE Skips
  <2>1. CASE SkipRecognition \/ SkipCommit
    BY <1>1, <2>1 DEF SkipRecognition, SkipCommit, environment, faceStage, history, Unrecognised
  <2>2. CASE TrimPending
    BY <1>1, <2>2, TrimSteps
  <2>3. QED
    BY <1>3, <2>1, <2>2 DEF Skips
<1>4. ASSUME NEW f \in Frame, PushRecognitionResult(f) PROVE OnePlace'
  BY <1>4, RecognizedSteps, CommittedFollows DEF OnePlace, Unrecognised
<1>5. ASSUME NEW f \in Frame, PushIdentityResult(f) PROVE OnePlace'
  BY <1>5, IdentifiedSteps, CommittedFollows DEF OnePlace, Unrecognised
<1>6. ASSUME NEW f \in Frame, AnchorTracker(f) \/ JumpTracker(f) \/ AnchorRecognition(f)
      PROVE  OnePlace'
  BY <1>1, <1>6 DEF AnchorTracker, JumpTracker, AnchorRecognition, environment, faceStage,
                    history, Unrecognised
<1>7. ASSUME NEW f \in Frame, TrackFrame(f) \/ TrackBlind(f) PROVE OnePlace'
  <2>1. f = nextTracker
    BY <1>7, TrackSteps
  <2>2. /\ f \notin pendingFace /\ f \notin tasks["recognizer"] /\ f \notin pendingRecognitions
        /\ f \notin tasks["identity"] /\ f \notin pendingIdentities /\ f \notin Committed
    BY <2>1, TrackedFrameIsNew
  <2>3. /\ UNCHANGED <<pendingRecognitions, pendingIdentities, committed>>
        /\ tasks'["identity"] = tasks["identity"]
    BY <1>7, TrackSteps
  <2>4. \/ /\ Unrecognised' \subseteq Unrecognised \cup {f}
           /\ tasks'["recognizer"] = tasks["recognizer"]
        \/ /\ Unrecognised' \subseteq Unrecognised
           /\ tasks'["recognizer"] = tasks["recognizer"] \cup {f}
    BY <1>7, TrackSteps DEF Unrecognised
  <2>5. f \notin Unrecognised
    BY <2>2 DEF Unrecognised
  <2>6. QED
    BY <2>2, <2>3, <2>4, <2>5, CommittedFollows DEF OnePlace
<1>8. ASSUME NEW f \in Frame, FinishFace(f) PROVE OnePlace'
  BY <1>8, FacedSteps, CommittedFollows DEF OnePlace
<1>9. ASSUME NEW f \in Frame, QueueIdentity(f) PROVE OnePlace'
  BY <1>9, QueuedSteps, CommittedFollows DEF OnePlace, Unrecognised
<1>10. ASSUME NEW f \in Frame, CommitFrame(f) PROVE OnePlace'
  BY <1>10, CommittingSteps DEF OnePlace, Unrecognised
<1>11. QED
  BY <1>2, <1>3, <1>4, <1>5, <1>6, <1>7, <1>8, <1>9, <1>10, QuietSteps DEF Moves

(* What was committed has the boxes of its decision.                        *)
DecidedInv == \A f \in Committed : boxes[f] = "decided"

LEMMA DecidedInvInductive ==
  TypeOK /\ StageInv /\ OrderInv /\ OnePlace /\ DecidedInv /\ [Next]_vars => DecidedInv'
<1> SUFFICES ASSUME TypeOK, StageInv, OrderInv, OnePlace, DecidedInv, [Next]_vars
             PROVE  DecidedInv'
  OBVIOUS
<1>0. boxes \in [Frame -> BoxStages] /\ Committed \subseteq Frame
  BY DEF TypeOK, HistoryTypeOK, Committed
<1>1. ASSUME UNCHANGED committed, UNCHANGED boxes PROVE DecidedInv'
  BY <1>1, CommittedFollows DEF DecidedInv
<1>2. ASSUME NEW f \in Frame, NEW b, f \notin Committed, UNCHANGED committed,
             boxes' = [boxes EXCEPT ![f] = b]
      PROVE  DecidedInv'
  BY <1>0, <1>2, CommittedFollows DEF DecidedInv
<1>3. CASE Quiet
  BY <1>1, <1>3 DEF Quiet
<1>4. CASE Skips
  BY <1>1, <1>4, TrimSteps DEF Skips, SkipRecognition, SkipCommit, history
<1>5. ASSUME NEW f \in Frame, Moves(f) PROVE DecidedInv'
  <2>1. CASE PushRecognitionResult(f)
    BY <1>1, <2>1, RecognizedSteps
  <2>2. CASE PushIdentityResult(f)
    BY <1>1, <2>2, IdentifiedSteps
  <2>3. CASE AnchorTracker(f) \/ JumpTracker(f) \/ AnchorRecognition(f)
    BY <1>1, <2>3 DEF AnchorTracker, JumpTracker, AnchorRecognition, history
  <2>4. CASE TrackFrame(f) \/ TrackBlind(f)
    <3>1. f \notin Committed
      BY <2>4, TrackSteps, TrackedFrameIsNew
    <3>2. /\ UNCHANGED committed
          /\ \/ boxes' = [boxes EXCEPT ![f] = "tracked"]
             \/ boxes' = [boxes EXCEPT ![f] = "faced"]
      BY <2>4, TrackSteps
    <3>3. QED
      BY <1>2, <3>1, <3>2
  <2>5. CASE FinishFace(f)
    BY <1>1, <1>2, <2>5, FacedSteps DEF OnePlace
  <2>6. CASE QueueIdentity(f)
    BY <1>2, <2>6, QueuedSteps DEF OnePlace
  <2>7. CASE CommitFrame(f)
    BY <1>0, <2>7, CommittingSteps DEF DecidedInv
  <2>8. QED
    BY <1>5, <2>1, <2>2, <2>3, <2>4, <2>5, <2>6, <2>7 DEF Moves
<1>6. QED
  BY <1>3, <1>4, <1>5, QuietSteps

LEMMA PlacesCorrect == Spec => [](TypeOK /\ StageInv /\ OrderInv /\ OnePlace /\ DecidedInv)
<1>1. Init => OrderInv /\ OnePlace /\ DecidedInv
  BY DEF Init, OrderInv, CommitsInOrder, CommittedBehindCursor, OnePlace, DecidedInv,
         Unrecognised, Committed, Stages
<1>2. QED
  BY <1>1, StageInvInitial, StageInvInductive, OrderInvInductive, OnePlaceInductive,
     DecidedInvInductive, TypeCorrect, PTL DEF Spec

(* A committed frame carries the boxes of its identity decision and no      *)
(* worker writes them any more, whatever is skipped or trimmed.             *)
THEOREM CommittedFramesFinal == Spec => []CommittedBoxesFinal
<1>1. OnePlace /\ DecidedInv => CommittedBoxesFinal
  BY DEF OnePlace, DecidedInv, CommittedBoxesFinal, Committed
<1>2. QED
  BY <1>1, PlacesCorrect, PTL

-----------------------------------------------------------------------------
(* No step takes a latest queued frame back.                                *)
LEMMA LatestSteps ==
  ASSUME TypeOK, [Next]_vars
  PROVE  latestRecognition' >= latestRecognition /\ latestIdentity' >= latestIdentity
<1> Numbers
  BY TypeOKNumbers
<1> USE DEF Numbers
<1>1. CASE Quiet
  BY <1>1 DEF Quiet
<1>2. CASE Skips
  BY <1>2 DEF Skips, SkipRecognition, SkipCommit, TrimPending, latest
<1>3. ASSUME NEW f \in Frame, Moves(f)
      PROVE  latestRecognition' >= latestRecognition /\ latestIdentity' >= latestIdentity
  <2>0. f \in Int
    BY CoordinatorAssumption DEF Frame
  <2>1. CASE PushRecognitionResult(f) \/ PushIdentityResult(f) \/ AnchorTracker(f)
               \/ JumpTracker(f) \/ AnchorRecognition(f) \/ CommitFrame(f)
    BY <2>1 DEF PushRecognitionResult, PushIdentityResult, AnchorTracker, JumpTracker,
                AnchorRecognition, CommitFrame, latest
  <2>2. CASE TrackFrame(f) \/ TrackBlind(f)
    BY <2>0, <2>2, TrackSteps DEF Larger
  <2>3. CASE FinishFace(f)
    BY <2>0, <2>3 DEF FinishFace, Larger
  <2>4. CASE QueueIdentity(f)
    BY <2>0, <2>4 DEF QueueIdentity, Larger
  <2>5. QED
    BY <1>3, <2>1, <2>2, <2>3, <2>4 DEF Moves
<1>4. QED
  BY <1>1, <1>2, <1>3, QuietSteps

LEMMA GreaterTransitive == \A a, b, c \in Int : a > b /\ c >= a => c > b
OBVIOUS

(* What was late stays late.                                                *)
LEMMA StaysLate ==
  ASSUME TypeOK, [Next]_vars, NEW f \in Frame
  PROVE  /\ latestRecognition > f + ReorderWindow => latestRecognition' > f + ReorderWindow
         /\ latestIdentity > f + ReorderWindow => latestIdentity' > f + ReorderWindow
<1>1. Numbers /\ Numbers'
  BY TypeOKNumbers, TypeOKInductive
<1>2. f + ReorderWindow \in Int
  BY CoordinatorAssumption DEF Frame
<1>3. QED
  BY <1>1, <1>2, LatestSteps, GreaterTransitive DEF Numbers

LEMMA LateInvInductive == TypeOK /\ StageInv /\ OnePlace /\ LateInv /\ [Next]_vars => LateInv'
<1> SUFFICES ASSUME TypeOK, StageInv, OnePlace, LateInv, [Next]_vars PROVE LateInv'
  OBVIOUS
<1>0. Numbers /\ Numbers' /\ Unrecognised \subseteq Frame
  BY TypeOKNumbers, TypeOKInductive DEF Numbers, Unrecognised
<1>1. ASSUME UNCHANGED <<nextRecognition, anchor, refused>>,
             Unrecognised' \subseteq Unrecognised,
             tasks'["recognizer"] \subseteq tasks["recognizer"] \cup Unrecognised
      PROVE  LateInv'
  <2>1. ASSUME NEW f \in Frame, Overtaken(f) PROVE Overtaken(f)'
    BY <1>1, <2>1, StaysLate DEF Overtaken
  <2>2. QED
    BY <1>0, <1>1, <2>1 DEF LateInv, Numbers
<1>2. CASE Quiet
  BY <1>1, <1>2 DEF Quiet
<1>3. CASE SkipCommit \/ TrimPending
  BY <1>1, <1>3, TrimSteps DEF SkipCommit, TrimPending, environment, faceStage, history,
     Unrecognised
<1>4. CASE SkipRecognition
  <2>1. /\ nextRecognition # None /\ nextRecognition' = nextRecognition + 1
        /\ latestRecognition - nextRecognition > ReorderWindow
        /\ UNCHANGED <<latestRecognition, anchor, tasks, pendingFace, recognitionQueued>>
    BY <1>4 DEF SkipRecognition, SkippableRecognition, Overrun, latest, history, environment,
                faceStage
  <2>2. ASSUME NEW f \in Frame, Overtaken(f) PROVE Overtaken(f)'
    BY <1>0, <2>1, <2>2, CoordinatorAssumption DEF Overtaken, Numbers, Frame
  <2>3. nextRecognition' # None
    BY <1>0, <2>1 DEF Numbers, None
  <2>4. QED
    BY <1>0, <2>1, <2>2, <2>3 DEF LateInv, Numbers, Unrecognised
<1>5. ASSUME NEW f \in Frame, PushRecognitionResult(f) PROVE LateInv'
  <2>1. nextRecognition = None => UNCHANGED refused
    BY <1>5 DEF PushRecognitionResult, Stale
  <2>2. ASSUME NEW g \in Frame, Overtaken(g) PROVE Overtaken(g)'
    BY <1>5, <2>2 DEF PushRecognitionResult, Overtaken, cursors, latest
  <2>3. UNCHANGED nextRecognition
    BY <1>5 DEF PushRecognitionResult, cursors
  <2>4. QED
    BY <1>0, <1>5, <2>1, <2>2, <2>3, RecognizedSteps DEF LateInv, Numbers, Unrecognised
<1>6. ASSUME NEW f \in Frame,
             PushIdentityResult(f) \/ AnchorTracker(f) \/ JumpTracker(f) \/ CommitFrame(f)
      PROVE  LateInv'
  <2>1. CASE PushIdentityResult(f)
    BY <1>1, <2>1, IdentifiedSteps DEF PushIdentityResult, cursors, history, Unrecognised
  <2>2. CASE AnchorTracker(f) \/ JumpTracker(f)
    BY <1>1, <2>2 DEF AnchorTracker, JumpTracker, environment, faceStage, history, Unrecognised
  <2>3. CASE CommitFrame(f)
    BY <1>1, <2>3 DEF CommitFrame, environment, faceStage, Unrecognised
  <2>4. QED
    BY <1>6, <2>1, <2>2, <2>3
<1>7. ASSUME NEW f \in Frame, TrackFrame(f) \/ TrackBlind(f) PROVE LateInv'
  <2>1. f = nextTracker /\ UNCHANGED <<nextRecognition, anchor, refused>>
    BY <1>7, TrackSteps
  <2>2. /\ Unrecognised' \subseteq Unrecognised \cup {f}
        /\ tasks'["recognizer"] \subseteq tasks["recognizer"] \cup {f}
    BY <1>7, TrackSteps DEF Unrecognised
  <2>3. ~(f < nextRecognition)
    BY <1>0, <2>1, CoordinatorAssumption
       DEF StageInv, CursorsFollowStages, Numbers, None, Frame
  <2>4. ASSUME NEW g \in Frame, Overtaken(g) PROVE Overtaken(g)'
    BY <2>1, <2>4, StaysLate DEF Overtaken
  <2>5. Overtaken(f)'
    BY <2>1, <2>3 DEF Overtaken
  <2>6. QED
    BY <1>0, <2>1, <2>2, <2>4, <2>5 DEF LateInv, Numbers
<1>8. ASSUME NEW f \in Frame, FinishFace(f) PROVE LateInv'
  <2>1. UNCHANGED <<nextRecognition, anchor, refused>>
    BY <1>8 DEF FinishFace, cursors, history
  <2>2. QED
    BY <1>1, <1>8, <2>1, FacedSteps
<1>9. ASSUME NEW f \in Frame, AnchorRecognition(f) PROVE LateInv'
  <2>1. nextRecognition' = f /\ anchor' = f /\ f # None
    BY <1>9, CoordinatorAssumption DEF AnchorRecognition, None, Frame
  <2>2. ASSUME NEW g \in Frame PROVE Overtaken(g)'
    BY <2>1, CoordinatorAssumption DEF Overtaken, Frame
  <2>3. Unrecognised' = Unrecognised /\ tasks' = tasks
    BY <1>9 DEF AnchorRecognition, environment, faceStage, Unrecognised
  <2>4. QED
    BY <1>0, <2>1, <2>2, <2>3 DEF LateInv, Numbers
<1>10. ASSUME NEW f \in Frame, QueueIdentity(f) PROVE LateInv'
  <2>1. /\ nextRecognition = f /\ nextRecognition' = f + 1
        /\ UNCHANGED <<latestRecognition, anchor, refused>>
    BY <1>10 DEF QueueIdentity, history
  <2>2. /\ f \in pendingRecognitions
        /\ Unrecognised' = Unrecognised
        /\ tasks'["recognizer"] = tasks["recognizer"]
    BY <1>10, QueuedSteps DEF Unrecognised
  <2>3. f \notin Unrecognised /\ f \notin tasks["recognizer"]
    BY <2>2 DEF OnePlace
  <2>4. ASSUME NEW g \in Frame, g # f, Overtaken(g) PROVE Overtaken(g)'
    BY <1>0, <2>1, <2>4, CoordinatorAssumption DEF Overtaken, Frame, Numbers
  <2>5. nextRecognition' # None
    BY <2>1, CoordinatorAssumption DEF Frame, None
  <2>6. QED
    BY <1>0, <2>2, <2>3, <2>4, <2>5 DEF LateInv, Numbers
<1>11. QED
  BY <1>2, <1>3, <1>4, <1>5, <1>6, <1>7, <1>8, <1>9, <1>10, QuietSteps DEF Moves, Skips

(* What the steps add to the frames given up.                               *)
LEMMA BlindSteps ==
  ASSUME TypeOK, [Next]_vars
  PROVE  blind' \subseteq blind \cup {f \in Frame : OverrunByArrivals(f)}
<1>1. CASE Quiet
  BY <1>1 DEF Quiet
<1>2. CASE Skips
  BY <1>2 DEF Skips, SkipRecognition, SkipCommit, TrimPending, history
<1>3. ASSUME NEW f \in Frame, Moves(f)
      PROVE  blind' \subseteq blind \cup {g \in Frame : OverrunByArrivals(g)}
  BY <1>3 DEF Moves, PushRecognitionResult, PushIdentityResult, AnchorTracker, JumpTracker,
              TrackFrame, TrackBlind, FinishFace, AnchorRecognition, QueueIdentity,
              CommitFrame, history
<1>4. QED
  BY <1>1, <1>2, <1>3, QuietSteps

LEMMA RefusedSteps ==
  ASSUME TypeOK, [Next]_vars
  PROVE  \/ refused' = refused /\ anchor' = anchor
         \/ /\ anchor' = anchor
            /\ \E f \in tasks["recognizer"] :
                 nextRecognition # None /\ f < nextRecognition /\ refused' = refused \cup {f}
         \/ refused' = refused /\ nextRecognition = None
<1> DEFINE Goal == \/ refused' = refused /\ anchor' = anchor
                   \/ /\ anchor' = anchor
                      /\ \E f \in tasks["recognizer"] :
                           /\ nextRecognition # None /\ f < nextRecognition
                           /\ refused' = refused \cup {f}
                   \/ refused' = refused /\ nextRecognition = None
<1>1. CASE Quiet
  BY <1>1 DEF Quiet
<1>2. CASE Skips
  BY <1>2 DEF Skips, SkipRecognition, SkipCommit, TrimPending, history
<1>3. ASSUME NEW f \in Frame, PushRecognitionResult(f) PROVE Goal
  BY <1>3 DEF PushRecognitionResult, Take, Stale
<1>4. ASSUME NEW f \in Frame, AnchorRecognition(f) PROVE Goal
  BY <1>4 DEF AnchorRecognition
<1>5. ASSUME NEW f \in Frame, Moves(f), ~PushRecognitionResult(f), ~AnchorRecognition(f)
      PROVE  Goal
  BY <1>5 DEF Moves, PushIdentityResult, AnchorTracker, JumpTracker, TrackFrame, TrackBlind,
              ProcessTrackedFrame, FinishFace, QueueIdentity, CommitFrame, history
<1>6. QED
  BY <1>1, <1>2, <1>3, <1>4, <1>5, QuietSteps

LEMMA GivenUpInductive ==
  TypeOK /\ EmittedInv /\ LateInv /\ GivenUpOnlyLate /\ [Next]_vars => GivenUpOnlyLate'
<1> SUFFICES ASSUME TypeOK, EmittedInv, LateInv, GivenUpOnlyLate, [Next]_vars
             PROVE  GivenUpOnlyLate'
  OBVIOUS
<1>0. /\ nextFrame \in Int /\ blind \subseteq Int /\ ReorderWindow \in Int
      /\ refused \subseteq Frame /\ Frame \subseteq Int /\ anchor \in Int
      /\ tasks["recognizer"] \subseteq Frame
  BY CoordinatorAssumption
     DEF TypeOK, EnvironmentTypeOK, HistoryTypeOK, Frame, None, Stages
<1>1. nextFrame' \in Int /\ nextFrame' >= nextFrame
  BY <1>0, CounterSteps
<1>2. ASSUME NEW f \in blind' PROVE nextFrame' - 1 > f + ReorderWindow
  <2>1. f \in Int /\ nextFrame - 1 > f + ReorderWindow
    <3>1. CASE f \in blind
      BY <1>0, <3>1 DEF GivenUpOnlyLate
    <3>2. CASE f \in Frame /\ OverrunByArrivals(f)
      <4>1. PICK g \in pendingFrames \cup pendingDetections : g - f > ReorderWindow
        BY <3>2 DEF OverrunByArrivals, Overrun
      <4>2. g \in Int /\ g < nextFrame
        BY <1>0 DEF EmittedInv, Emitted, TypeOK, PendingTypeOK
      <4>3. QED
        BY <1>0, <3>2, <4>1, <4>2
    <3>3. QED
      BY <3>1, <3>2, BlindSteps
  <2>2. nextFrame - 1 \in Int /\ nextFrame' - 1 \in Int /\ f + ReorderWindow \in Int
    BY <1>0, <1>1, <2>1
  <2>3. nextFrame' - 1 >= nextFrame - 1
    BY <1>0, CounterSteps
  <2>4. QED
    BY <2>1, <2>2, <2>3, GreaterTransitive
<1>3. ASSUME NEW f \in refused'
      PROVE  f < anchor' \/ latestRecognition' > f + ReorderWindow
  <2>0. ASSUME NEW g \in Frame, g < anchor \/ latestRecognition > g + ReorderWindow,
               anchor' = anchor
        PROVE  g < anchor' \/ latestRecognition' > g + ReorderWindow
    BY <2>0, StaysLate
  <2>1. CASE f \in refused /\ anchor' = anchor
    BY <1>0, <2>0, <2>1 DEF GivenUpOnlyLate
  <2>2. CASE f \in tasks["recognizer"] /\ f < nextRecognition /\ anchor' = anchor
    <3>1. f \in Frame /\ anchor' = anchor
      BY <1>0, <2>2
    <3>2. f < anchor \/ latestRecognition > f + ReorderWindow
      BY <1>0, <2>2, <3>1 DEF LateInv, Overtaken
    <3>3. QED
      BY <2>0, <3>1, <3>2
  <2>3. CASE refused' = refused /\ nextRecognition = None
    BY <1>3, <2>3 DEF LateInv
  <2>4. QED
    BY <1>3, <2>1, <2>2, <2>3, RefusedSteps
<1>4. QED
  BY <1>2, <1>3 DEF GivenUpOnlyLate

(* A frame is tracked blind, or its recognition result dropped on arrival,  *)
(* only when the stream has run more than the window past it, or before the *)
(* first result that arrived.                                               *)
THEOREM GivenUpLate == Spec => []GivenUpOnlyLate
<1>1. Init => EmittedInv /\ LateInv /\ GivenUpOnlyLate
  BY DEF Init, EmittedInv, Emitted, Stages, LateInv, GivenUpOnlyLate, Unrecognised
<1>2. QED
  BY <1>1, EmittedInvInductive, LateInvInductive, GivenUpInductive, PlacesCorrect, PTL
     DEF Spec

-----------------------------------------------------------------------------
LEMMA FramesAheadInductive == TypeOK /\ FramesAhead /\ [Next]_vars => FramesAhead'
<1> SUFFICES ASSUME TypeOK, FramesAhead, [Next]_vars PROVE FramesAhead'
  OBVIOUS
<1>0. /\ nextTracker \in Int /\ pendingFrames \subseteq Frame /\ Frame \subseteq Int
      /\ None \notin Frame
  BY CoordinatorAssumption, TypeOKNumbers DEF Numbers, TypeOK, PendingTypeOK, Frame, None
<1>1. ASSUME UNCHANGED nextTracker, pendingFrames' \subseteq pendingFrames PROVE FramesAhead'
  BY <1>1 DEF FramesAhead
<1>2. ASSUME NEW f \in Frame, PushFrame(f) PROVE FramesAhead'
  BY <1>2 DEF PushFrame, FramesAhead, cursors
<1>3. ASSUME NEW f \in Frame, AnchorTracker(f) \/ JumpTracker(f) PROVE FramesAhead'
  <2>1. nextTracker' = f /\ IsFirst(f, pendingFrames) /\ pendingFrames' = pendingFrames
    BY <1>3 DEF AnchorTracker, JumpTracker
  <2>2. QED
    BY <1>0, <2>1 DEF FramesAhead, IsFirst, Stale
<1>4. ASSUME NEW f \in Frame, TrackFrame(f) \/ TrackBlind(f) PROVE FramesAhead'
  <2>1. f = nextTracker /\ nextTracker' = f + 1 /\ pendingFrames' = pendingFrames \ {f}
    BY <1>4 DEF TrackFrame, TrackBlind, ProcessTrackedFrame
  <2>2. ASSUME NEW g \in pendingFrames \ {f} PROVE f + 1 <= g
    BY <1>0, <2>1, <2>2 DEF FramesAhead, Stale
  <2>3. QED
    BY <1>0, <2>1, <2>2 DEF FramesAhead, Stale
<1>5. CASE ~\E f \in Frame : PushFrame(f) \/ AnchorTracker(f) \/ JumpTracker(f)
                               \/ TrackFrame(f) \/ TrackBlind(f)
  <2>1. UNCHANGED nextTracker /\ pendingFrames' \subseteq pendingFrames
    BY <1>5, KeepNewestSubset
       DEF Next, vars, Environment, Push, Drain, Ingest, DropFrame, DropTask,
       PushPersonDetection, PushFaceResult, PushRecognitionResult, PushIdentityResult,
       BeginDrain, QueueProbe, ProbesDone, TrackingDone, FinishFace, FaceDone,
       AnchorRecognition, QueueIdentity, SkipRecognition, RecognitionDone, CommitFrame,
       SkipCommit, CommitDone, TrimPending, cursors
  <2>2. QED
    BY <1>1, <2>1
<1>6. QED
  BY <1>2, <1>3, <1>4, <1>5

LEMMA ProbesAskedInductive == TypeOK /\ ProbesAsked /\ [Next]_vars => ProbesAsked'
<1> SUFFICES ASSUME TypeOK, ProbesAsked, [Next]_vars PROVE ProbesAsked'
  OBVIOUS
<1>0. /\ latestFace \in Int /\ Frame \subseteq Int
      /\ waiting \subseteq Frame /\ queuedProbes \subseteq Frame
  BY CoordinatorAssumption, TypeOKNumbers DEF Numbers, TypeOK, PendingTypeOK, Frame
<1>1. ASSUME UNCHANGED latestFace, waiting' \subseteq waiting,
             queuedProbes' \subseteq queuedProbes
      PROVE  ProbesAsked'
  BY <1>1 DEF ProbesAsked
<1>2. ASSUME NEW f \in Frame, latestFace' = Larger(latestFace, f),
             waiting' \subseteq waiting \cup {f}, queuedProbes' \subseteq queuedProbes \cup {f}
      PROVE  ProbesAsked'
  <2>1. CASE latestFace < f
    BY <1>0, <1>2, <2>1 DEF ProbesAsked, Larger
  <2>2. CASE ~(latestFace < f)
    BY <1>0, <1>2, <2>2 DEF ProbesAsked, Larger
  <2>3. QED
    BY <2>1, <2>2
<1>3. ASSUME NEW f \in Frame, QueueProbe(f) PROVE ProbesAsked'
  BY <1>2, <1>3 DEF QueueProbe
<1>4. ASSUME NEW f \in Frame, TrackFrame(f) \/ TrackBlind(f) PROVE ProbesAsked'
  <2>1. ProcessTrackedFrame(f)
    BY <1>4 DEF TrackFrame, TrackBlind
  <2>2. CASE PlansProbe(f)
    BY <1>2, <2>1, <2>2 DEF ProcessTrackedFrame, AwaitsFace
  <2>3. CASE ~PlansProbe(f) /\ AwaitsFace(f)
    <3>1. f \in queuedProbes
      BY <2>3 DEF AwaitsFace
    <3>2. QED
      BY <2>1, <2>3, <3>1 DEF ProcessTrackedFrame, ProbesAsked
  <2>4. CASE ~PlansProbe(f) /\ ~AwaitsFace(f)
    BY <1>1, <2>1, <2>4 DEF ProcessTrackedFrame
  <2>5. QED
    BY <2>2, <2>3, <2>4
<1>5. CASE ~\E f \in Frame : QueueProbe(f) \/ TrackFrame(f) \/ TrackBlind(f)
  <2>1. /\ UNCHANGED latestFace
        /\ waiting' \subseteq waiting /\ queuedProbes' \subseteq queuedProbes
    BY <1>5, KeepNewestSubset
       DEF Next, vars, Environment, Push, Drain, Ingest, DropFrame, DropTask, PushFrame,
       PushPersonDetection, PushFaceResult, PushRecognitionResult, PushIdentityResult,
       BeginDrain, ProbesDone, AnchorTracker, JumpTracker, TrackingDone, FinishFace,
       LeaveFace, FaceDone, AnchorRecognition, QueueIdentity, SkipRecognition,
       RecognitionDone, CommitFrame, SkipCommit, CommitDone, TrimPending, latest, faceStage
  <2>2. QED
    BY <1>1, <2>1
<1>6. QED
  BY <1>3, <1>4, <1>5

(* A phase is over once and for all until the drain ends: what it leaves    *)
(* behind changes in none of the phases after it.                           *)
LEMMA PhaseSteps ==
  ASSUME TypeOK, [Next]_vars
  PROVE  /\ \/ TrackingDone
            \/ pc' \notin {"face", "recognition", "commit", "trim"}
            \/ /\ pc \in {"face", "recognition", "commit", "trim"}
               /\ UNCHANGED <<pendingFrames, nextTracker>>
         /\ \/ FaceDone
            \/ pc' \notin {"recognition", "commit", "trim"}
            \/ /\ pc \in {"recognition", "commit", "trim"}
               /\ UNCHANGED <<pendingFace, latestFace>>
         /\ \/ RecognitionDone
            \/ pc' \notin {"commit", "trim"}
            \/ /\ pc \in {"commit", "trim"}
               /\ UNCHANGED <<pendingRecognitions, nextRecognition>>
         /\ \/ CommitDone
            \/ pc' # "trim"
            \/ pc = "trim" /\ UNCHANGED <<pendingIdentities, nextCommit>>
<1> USE DEF environment, cursors, latest, faceStage
<1>1. CASE Environment
  BY <1>1 DEF Environment, Ingest, DropFrame, DropTask
<1>2. CASE Push
  BY <1>2 DEF Push, PushFrame, PushPersonDetection, PushFaceResult, PushRecognitionResult,
              PushIdentityResult, Take
<1>3. CASE BeginDrain \/ ProbesDone \/ TrackingDone \/ FaceDone \/ TrimPending
  BY <1>3 DEF BeginDrain, ProbesDone, TrackingDone, FaceDone, TrimPending
<1>4. ASSUME NEW f \in Frame,
             QueueProbe(f) \/ AnchorTracker(f) \/ TrackFrame(f) \/ TrackBlind(f)
               \/ JumpTracker(f)
      PROVE  pc' \in {"probes", "tracking"}
  BY <1>4 DEF QueueProbe, AnchorTracker, TrackFrame, TrackBlind, ProcessTrackedFrame,
              JumpTracker
<1>5. ASSUME NEW f \in Frame, FinishFace(f)
      PROVE  pc = "face" /\ pc' = "face" /\ UNCHANGED <<pendingFrames, nextTracker>>
  BY <1>5 DEF FinishFace
<1>6. ASSUME NEW f \in Frame, AnchorRecognition(f) \/ QueueIdentity(f)
      PROVE  /\ pc = "recognition" /\ pc' = "recognition"
             /\ UNCHANGED <<pendingFrames, nextTracker, pendingFace, latestFace>>
  BY <1>6 DEF AnchorRecognition, QueueIdentity
<1>7. CASE SkipRecognition \/ RecognitionDone
  BY <1>7 DEF SkipRecognition, RecognitionDone
<1>8. ASSUME NEW f \in Frame, CommitFrame(f)
      PROVE  /\ pc = "commit" /\ pc' = "commit"
             /\ UNCHANGED <<pendingFrames, nextTracker, pendingFace, latestFace,
                            pendingRecognitions, nextRecognition>>
  BY <1>8 DEF CommitFrame
<1>9. CASE SkipCommit \/ CommitDone
  BY <1>9 DEF SkipCommit, CommitDone
<1>10. CASE UNCHANGED vars
  BY <1>10 DEF vars
<1>11. QED
  BY <1>1, <1>2, <1>3, <1>4, <1>5, <1>6, <1>7, <1>8, <1>9, <1>10 DEF Next, Drain

LEMMA BacklogInductive == TypeOK /\ StageInv /\ BacklogInv /\ [Next]_vars => BacklogInv'
<1> SUFFICES ASSUME TypeOK, StageInv, BacklogInv, [Next]_vars PROVE BacklogInv'
  OBVIOUS
<1>0. /\ Numbers /\ Frame \subseteq Int /\ ReorderWindow \in Nat
      /\ pendingFrames \subseteq Frame
  BY CoordinatorAssumption, TypeOKNumbers DEF TypeOK, PendingTypeOK, Frame
<1>1. TrackingLeaves'
  <2>1. CASE TrackingDone
    <3>1. UNCHANGED <<pendingFrames, nextTracker>>
      BY <2>1 DEF TrackingDone, cursors
    <3>2. ASSUME NEW f \in pendingFrames
          PROVE  nextTracker <= f /\ f <= nextTracker + ReorderWindow
      <4>1. f \in Int /\ nextTracker \in Int /\ (nextTracker = None \/ nextTracker <= f)
        BY <1>0 DEF Numbers, BacklogInv, FramesAhead, Stale
      <4>2. nextTracker \in pendingFrames /\ ~OverrunByArrivals(nextTracker)
        BY <2>1, <4>1 DEF TrackingDone, TrackerBlocked
      <4>3. nextTracker # None
        BY <1>0, <4>2, CoordinatorAssumption DEF Frame, None
      <4>4. ~(f - nextTracker > ReorderWindow)
        BY <4>2 DEF OverrunByArrivals, Overrun
      <4>5. QED
        BY <1>0, <4>1, <4>3, <4>4
    <3>3. QED
      BY <3>1, <3>2 DEF TrackingLeaves
  <2>2. CASE ~TrackingDone
    BY <2>2, PhaseSteps DEF BacklogInv, TrackingLeaves
  <2>3. QED
    BY <2>1, <2>2
<1>2. FaceLeaves'
  <2>1. CASE FaceDone
    <3>1. UNCHANGED <<pendingFace, latestFace>>
      BY <2>1 DEF FaceDone, latest, faceStage
    <3>2. ASSUME NEW f \in pendingFace
          PROVE  latestFace - ReorderWindow <= f /\ f <= latestFace
      <4>1. f \in waiting /\ ~(latestFace # None /\ Overrun(latestFace, f))
        BY <2>1 DEF FaceDone, FaceReady
      <4>2. f \in Int /\ f # None /\ f > None /\ latestFace \in Int /\ f <= latestFace
        BY <1>0, <4>1, CoordinatorAssumption DEF Numbers, BacklogInv, ProbesAsked, Frame, None
      <4>3. latestFace # None
        BY <4>2 DEF None
      <4>4. ~(latestFace - f > ReorderWindow)
        BY <4>1, <4>3 DEF Overrun
      <4>5. QED
        BY <1>0, <4>2, <4>4
    <3>3. QED
      BY <3>1, <3>2 DEF FaceLeaves
  <2>2. CASE ~FaceDone
    BY <2>2, PhaseSteps DEF BacklogInv, FaceLeaves
  <2>3. QED
    BY <2>1, <2>2
<1>3. RecognitionLeaves'
  <2>1. CASE RecognitionDone
    <3>1. /\ UNCHANGED nextRecognition
          /\ pendingRecognitions' =
               {f \in pendingRecognitions : ~Stale(nextRecognition, f)}
      BY <2>1 DEF RecognitionDone, cursors
    <3>2. ASSUME NEW f \in pendingRecognitions, ~Stale(nextRecognition, f)
          PROVE  nextRecognition + 1 <= f /\ f <= nextRecognition + ReorderWindow
      <4>1. /\ nextRecognition # None /\ nextRecognition \notin pendingRecognitions
            /\ ~SkippableRecognition
        BY <2>1 DEF RecognitionDone
      <4>2. /\ f \in Int /\ f # nextRecognition /\ nextRecognition <= f
            /\ f <= latestRecognition /\ f > None
        BY <1>0, <3>2, <4>1, CoordinatorAssumption
           DEF Numbers, Stale, StageInv, QueuedFor, Frame, None
      <4>3. latestRecognition # None
        BY <1>0, <4>2 DEF Numbers, None
      <4>4. ~(latestRecognition - nextRecognition > ReorderWindow)
        BY <4>1, <4>3 DEF SkippableRecognition, Overrun
      <4>5. QED
        BY <1>0, <4>2, <4>4 DEF Numbers
    <3>3. QED
      BY <3>1, <3>2 DEF RecognitionLeaves
  <2>2. CASE ~RecognitionDone
    BY <2>2, PhaseSteps DEF BacklogInv, RecognitionLeaves
  <2>3. QED
    BY <2>1, <2>2
<1>4. CommitLeaves'
  <2>1. CASE CommitDone
    <3>1. /\ UNCHANGED nextCommit
          /\ pendingIdentities' = {f \in pendingIdentities : ~Stale(nextCommit, f)}
      BY <2>1 DEF CommitDone, cursors
    <3>2. ASSUME NEW f \in pendingIdentities, ~Stale(nextCommit, f)
          PROVE  nextCommit + 1 <= f /\ f <= nextCommit + ReorderWindow
      <4>1. nextCommit \notin pendingIdentities /\ ~SkippableCommit
        BY <2>1 DEF CommitDone
      <4>2. f \in Int /\ f > None /\ f <= latestIdentity /\ f # nextCommit
        BY <1>0, <4>1, CoordinatorAssumption DEF Numbers, StageInv, QueuedFor, Frame, None
      <4>3. latestIdentity # None
        BY <1>0, <4>2 DEF Numbers, None
      <4>4. nextCommit # None
        BY <1>0, <4>2 DEF Numbers, StageInv, CursorsFollowStages, CursorsPlaced, None
      <4>5. nextCommit <= f
        BY <1>0, <3>2, <4>2, <4>4 DEF Numbers, Stale
      <4>6. ~(latestIdentity - nextCommit > ReorderWindow)
        BY <4>1, <4>3, <4>4 DEF SkippableCommit, Overrun
      <4>7. QED
        BY <1>0, <4>2, <4>5, <4>6 DEF Numbers
    <3>3. QED
      BY <3>1, <3>2 DEF CommitLeaves
  <2>2. CASE ~CommitDone
    BY <2>2, PhaseSteps DEF BacklogInv, CommitLeaves
  <2>3. QED
    BY <2>1, <2>2
<1>5. QED
  BY <1>1, <1>2, <1>3, <1>4, FramesAheadInductive, ProbesAskedInductive DEF BacklogInv

LEMMA BoxedInvInductive == TypeOK /\ StageInv /\ BoxedInv /\ [Next]_vars => BoxedInv'
<1> SUFFICES ASSUME TypeOK, StageInv, BoxedInv, [Next]_vars PROVE BoxedInv'
  OBVIOUS
<1>0. /\ Numbers /\ boxes \in [Frame -> BoxStages] /\ Frame \subseteq Int
      /\ \A f \in Frame : f > None
  BY CoordinatorAssumption, TypeOKNumbers DEF TypeOK, HistoryTypeOK, Frame, None
<1>1. ASSUME NEW f \in Frame, boxes[f] # "none", boxes' = boxes,
             nextCommit' = None => nextCommit = None,
             pendingFace' \subseteq pendingFace \cup {f},
             tasks'["recognizer"] \subseteq tasks["recognizer"] \cup {f},
             pendingRecognitions' \subseteq pendingRecognitions \cup {f},
             tasks'["identity"] \subseteq tasks["identity"] \cup {f},
             pendingIdentities' \subseteq pendingIdentities \cup {f}
      PROVE  BoxedInv'
  BY <1>1 DEF BoxedInv
<1>2. ASSUME boxes' = boxes,
             nextCommit' = None => nextCommit = None,
             pendingFace' \subseteq pendingFace,
             tasks'["recognizer"] \subseteq tasks["recognizer"],
             pendingRecognitions' \subseteq pendingRecognitions,
             tasks'["identity"] \subseteq tasks["identity"],
             pendingIdentities' \subseteq pendingIdentities
      PROVE  BoxedInv'
  BY <1>2 DEF BoxedInv
<1>3. ASSUME NEW f \in Frame, NEW b, b # "none", boxes' = [boxes EXCEPT ![f] = b],
             nextCommit' # None,
             pendingFace' \subseteq pendingFace \cup {f},
             tasks'["recognizer"] \subseteq tasks["recognizer"] \cup {f},
             pendingRecognitions' \subseteq pendingRecognitions \cup {f},
             tasks'["identity"] \subseteq tasks["identity"] \cup {f},
             pendingIdentities' \subseteq pendingIdentities \cup {f}
      PROVE  BoxedInv'
  <2>1. \A g \in Frame : boxes[g] # "none" \/ g = f => boxes'[g] # "none"
    BY <1>0, <1>3
  <2>2. QED
    BY <1>0, <1>3, <2>1 DEF BoxedInv, Numbers
<1>4. CASE Quiet
  BY <1>2, <1>4 DEF Quiet
<1>5. CASE SkipRecognition \/ SkipCommit
  <2>1. nextCommit' = None => nextCommit = None
    BY <1>0, <1>5 DEF SkipRecognition, SkipCommit, SkippableCommit, Numbers, None
  <2>2. QED
    BY <1>2, <1>5, <2>1 DEF SkipRecognition, SkipCommit, environment, faceStage
<1>6. CASE TrimPending
  <2>1. nextCommit' = None => nextCommit = None
    <3>1. PICK dropped \in SUBSET pendingFace : CommitPast(dropped)
      BY <1>6 DEF TrimPending
    <3>2. QED
      BY <1>0, <3>1 DEF CommitPast, Numbers, None
  <2>2. QED
    BY <1>2, <1>6, <2>1, TrimSteps
<1>7. ASSUME NEW f \in Frame, PushRecognitionResult(f) PROVE BoxedInv'
  BY <1>1, <1>7, RecognizedSteps DEF PushRecognitionResult, cursors, BoxedInv
<1>8. ASSUME NEW f \in Frame, PushIdentityResult(f) PROVE BoxedInv'
  BY <1>1, <1>8, IdentifiedSteps DEF PushIdentityResult, cursors, BoxedInv
<1>9. ASSUME NEW f \in Frame, AnchorTracker(f) \/ JumpTracker(f) \/ AnchorRecognition(f)
      PROVE  BoxedInv'
  BY <1>2, <1>9 DEF AnchorTracker, JumpTracker, AnchorRecognition, environment, faceStage
<1>10. ASSUME NEW f \in Frame, TrackFrame(f) \/ TrackBlind(f) PROVE BoxedInv'
  <2>1. nextCommit' # None
    BY <1>0, <1>10, TrackSteps DEF None
  <2>2. PICK b : b # "none" /\ boxes' = [boxes EXCEPT ![f] = b]
    BY <1>10, TrackSteps
  <2>3. QED
    BY <1>3, <1>10, <2>1, <2>2, TrackSteps
<1>11. ASSUME NEW f \in Frame, FinishFace(f) PROVE BoxedInv'
  <2>1. UNCHANGED nextCommit /\ nextCommit # None
    BY <1>11, FacedSteps DEF FinishFace, cursors, StageInv, CursorsPlaced
  <2>2. boxes[f] # "none"
    BY <1>11, FacedSteps DEF BoxedInv
  <2>3. QED
    BY <1>1, <1>3, <1>11, <2>1, <2>2, FacedSteps
<1>12. ASSUME NEW f \in Frame, QueueIdentity(f) PROVE BoxedInv'
  <2>1. UNCHANGED nextCommit
    BY <1>12 DEF QueueIdentity
  <2>2. f <= latestRecognition
    BY <1>12, QueuedSteps DEF StageInv, QueuedFor
  <2>3. nextCommit # None
    BY <1>0, <2>2 DEF StageInv, CursorsPlaced, Numbers, None
  <2>4. QED
    BY <1>3, <1>12, <2>1, <2>3, QueuedSteps
<1>13. ASSUME NEW f \in Frame, CommitFrame(f) PROVE BoxedInv'
  <2>1. nextCommit' # None
    BY <1>0, <1>13 DEF CommitFrame, None
  <2>2. QED
    BY <1>3, <1>13, <2>1, CommittingSteps
<1>14. QED
  BY <1>4, <1>5, <1>6, <1>7, <1>8, <1>9, <1>10, <1>11, <1>12, <1>13, QuietSteps
     DEF Moves, Skips

-----------------------------------------------------------------------------
(* A set of numbers from an interval has no more elements than it.          *)
LEMMA IntervalBound ==
  ASSUME NEW a \in Int, NEW n \in Nat, NEW S, \A x \in S : x \in Int /\ a <= x /\ x < a + n
  PROVE  IsFiniteSet(S) /\ Cardinality(S) \in Nat /\ Cardinality(S) <= n
<1>1. S \in SUBSET (a..(a + n - 1))
  OBVIOUS
<1>2. IsFiniteSet(a..(a + n - 1)) /\ Cardinality(a..(a + n - 1)) = n
  <2>1. a + n - 1 \in Int
    OBVIOUS
  <2>2. (IF a > a + n - 1 THEN 0 ELSE a + n - 1 - a + 1) = n
    OBVIOUS
  <2>3. QED
    BY <2>1, <2>2, FS_Interval
<1>3. QED
  BY <1>1, <1>2, FS_Subset, FS_CardinalityType

(* When a drain comes to trim_pending_, what waits for detections, faces,   *)
(* recognition and identity fits in the reorder window, for every window    *)
(* and whatever was lost.                                                   *)
THEOREM BacklogIsBounded == Spec => []BacklogFitsWindow
<1>1. TypeOK /\ BacklogInv => BacklogFitsWindow
  <2> SUFFICES ASSUME TypeOK, BacklogInv, pc = "trim"
               PROVE  /\ Cardinality(pendingFrames) <= ReorderWindow + 1
                      /\ Cardinality(pendingFace) <= ReorderWindow + 1
                      /\ Cardinality(pendingRecognitions) <= ReorderWindow
                      /\ Cardinality(pendingIdentities) <= ReorderWindow
    BY DEF BacklogFitsWindow
  <2>0. /\ Numbers /\ Frame \subseteq Int /\ pendingFrames \subseteq Frame
        /\ ReorderWindow \in Nat /\ ReorderWindow + 1 \in Nat
    BY CoordinatorAssumption, TypeOKNumbers DEF TypeOK, PendingTypeOK, Frame
  <2> USE DEF BacklogInv, Numbers
  <2>1. Cardinality(pendingFrames) <= ReorderWindow + 1
    <3>1. \A f \in pendingFrames : /\ f \in Int /\ nextTracker <= f
                                   /\ f < nextTracker + (ReorderWindow + 1)
      BY <2>0 DEF TrackingLeaves
    <3>2. QED
      BY <2>0, <3>1, IntervalBound
  <2>2. Cardinality(pendingFace) <= ReorderWindow + 1
    <3>1. \A f \in pendingFace : /\ f \in Int /\ latestFace - ReorderWindow <= f
                                 /\ f < (latestFace - ReorderWindow) + (ReorderWindow + 1)
      BY <2>0 DEF FaceLeaves
    <3>2. latestFace - ReorderWindow \in Int
      BY <2>0
    <3>3. QED
      BY <2>0, <3>1, <3>2, IntervalBound
  <2>3. Cardinality(pendingRecognitions) <= ReorderWindow
    <3>1. \A f \in pendingRecognitions : /\ f \in Int /\ nextRecognition + 1 <= f
                                         /\ f < (nextRecognition + 1) + ReorderWindow
      BY <2>0 DEF RecognitionLeaves
    <3>2. nextRecognition + 1 \in Int
      BY <2>0
    <3>3. QED
      BY <2>0, <3>1, <3>2, IntervalBound
  <2>4. Cardinality(pendingIdentities) <= ReorderWindow
    <3>1. \A f \in pendingIdentities : /\ f \in Int /\ nextCommit + 1 <= f
                                       /\ f < (nextCommit + 1) + ReorderWindow
      BY <2>0 DEF CommitLeaves
    <3>2. nextCommit + 1 \in Int
      BY <2>0
    <3>3. QED
      BY <2>0, <3>1, <3>2, IntervalBound
  <2>5. QED
    BY <2>1, <2>2, <2>3, <2>4
<1>2. Init => BacklogInv
  BY DEF Init, BacklogInv, FramesAhead, ProbesAsked, TrackingLeaves, FaceLeaves,
         RecognitionLeaves, CommitLeaves
<1>3. QED
  BY <1>1, <1>2, BacklogInductive, TypeCorrect, StageCorrect, PTL DEF Spec

(* With a limit above the window, trimming drops no frame in progress.      *)
LEMMA NothingTrimmed ==
  ASSUME TypeOK, BacklogInv, pc = "trim", PendingLimit > ReorderWindow
  PROVE  KeepNewest(pendingFace) = pendingFace
<1>0. /\ Numbers /\ Frame \subseteq Int /\ pendingFace \subseteq Frame
      /\ ReorderWindow \in Nat /\ PendingLimit \in Int
  BY CoordinatorAssumption, TypeOKNumbers DEF TypeOK, PendingTypeOK, Frame, Numbers
<1>1. ASSUME NEW f \in pendingFace
      PROVE  Cardinality({g \in pendingFace : f < g}) < PendingLimit
  <2>1. f \in Int /\ f + 1 \in Int
    BY <1>0
  <2>2. ASSUME NEW g \in pendingFace, f < g
        PROVE  g \in Int /\ f + 1 <= g /\ g < (f + 1) + ReorderWindow
    BY <1>0, <2>1, <2>2 DEF BacklogInv, FaceLeaves, Numbers
  <2>3. \A g \in {h \in pendingFace : f < h} :
          g \in Int /\ f + 1 <= g /\ g < (f + 1) + ReorderWindow
    BY <2>2
  <2>4. /\ Cardinality({g \in pendingFace : f < g}) \in Nat
        /\ Cardinality({g \in pendingFace : f < g}) <= ReorderWindow
    BY <1>0, <2>1, <2>3, IntervalBound
  <2>5. QED
    BY <1>0, <2>4
<1>2. QED
  BY <1>1 DEF KeepNewest

(* A tracked frame that the commit cursor has passed was committed or       *)
(* overrun: the invariant CommitPassesOnlyOverrun, frame by frame.          *)
Settled(f) ==
  boxes[f] # "none" /\ f < nextCommit /\ f \notin Committed
    => latestIdentity > f + ReorderWindow

LEMMA SettledInductive ==
  ASSUME PendingLimit > ReorderWindow, TypeOK, StageInv, BoxedInv, BacklogInv,
         \A f \in Frame : Settled(f), [Next]_vars
  PROVE  \A f \in Frame : Settled(f)'
<1>0. /\ Numbers /\ boxes \in [Frame -> BoxStages] /\ Frame \subseteq Int
      /\ ReorderWindow \in Nat
  BY CoordinatorAssumption, TypeOKNumbers DEF TypeOK, HistoryTypeOK, Frame
<1>1. ASSUME NEW f \in Frame, Settled(f), UNCHANGED <<nextCommit, committed>>,
             boxes'[f] = "none" \/ boxes[f] # "none"
      PROVE  Settled(f)'
  BY <1>1, StaysLate, CommittedFollows DEF Settled
<1>2. CASE Quiet
  BY <1>1, <1>2 DEF Quiet
<1>3. CASE SkipRecognition
  BY <1>1, <1>3 DEF SkipRecognition, history
<1>4. CASE SkipCommit
  <2>1. /\ nextCommit' = nextCommit + 1 /\ latestIdentity - nextCommit > ReorderWindow
        /\ UNCHANGED <<boxes, committed, latestIdentity>>
    BY <1>4 DEF SkipCommit, SkippableCommit, Overrun, latest, history
  <2>2. ASSUME NEW f \in Frame PROVE Settled(f)'
    <3>1. CASE f < nextCommit
      BY <2>1, <3>1, CommittedFollows DEF Settled
    <3>2. CASE f = nextCommit
      BY <1>0, <2>1, <3>2 DEF Settled, Numbers
    <3>3. CASE f > nextCommit
      BY <1>0, <2>1, <3>3 DEF Settled, Numbers
    <3>4. QED
      BY <1>0, <3>1, <3>2, <3>3 DEF Numbers
  <2>3. QED
    BY <2>2
<1>5. CASE TrimPending
  <2>1. pendingFace \ KeepNewest(pendingFace) = {}
    BY <1>5, NothingTrimmed DEF TrimPending
  <2>2. UNCHANGED nextCommit
    BY <1>5, <2>1 DEF TrimPending, CommitPast
  <2>3. QED
    BY <1>1, <1>5, <2>2, TrimSteps
<1>6. ASSUME NEW f \in Frame,
             \/ PushRecognitionResult(f) \/ PushIdentityResult(f)
             \/ AnchorTracker(f) \/ JumpTracker(f) \/ AnchorRecognition(f)
      PROVE  \A g \in Frame : Settled(g)'
  <2>1. UNCHANGED <<nextCommit, committed, boxes>>
    BY <1>6 DEF PushRecognitionResult, PushIdentityResult, AnchorTracker, JumpTracker,
                AnchorRecognition, cursors, history
  <2>2. QED
    BY <1>1, <2>1
<1>7. ASSUME NEW f \in Frame, TrackFrame(f) \/ TrackBlind(f)
      PROVE  \A g \in Frame : Settled(g)'
  <2>1. /\ f = nextTracker /\ UNCHANGED <<latestIdentity, committed>>
        /\ nextCommit' = IF nextCommit = None THEN f ELSE nextCommit
        /\ \/ boxes' = [boxes EXCEPT ![f] = "tracked"]
           \/ boxes' = [boxes EXCEPT ![f] = "faced"]
    BY <1>7, TrackSteps
  <2>2. nextCommit <= f
    BY <2>1 DEF StageInv, CursorsFollowStages
  <2>3. Settled(f)'
    <3>1. ~(f < nextCommit')
      BY <1>0, <2>1, <2>2 DEF Numbers
    <3>2. QED
      BY <3>1 DEF Settled
  <2>4. ASSUME NEW g \in Frame, g # f PROVE Settled(g)'
    <3>1. boxes'[g] = boxes[g]
      BY <1>0, <2>1, <2>4
    <3>2. CASE nextCommit = None
      BY <3>1, <3>2 DEF BoxedInv, Settled
    <3>3. CASE nextCommit # None
      BY <1>1, <2>1, <3>1, <3>3
    <3>4. QED
      BY <3>2, <3>3
  <2>5. QED
    BY <2>3, <2>4
<1>8. ASSUME NEW f \in Frame, NEW b, boxes[f] # "none", boxes' = [boxes EXCEPT ![f] = b],
             UNCHANGED <<nextCommit, committed>>
      PROVE  \A g \in Frame : Settled(g)'
  <2>1. ASSUME NEW g \in Frame PROVE boxes'[g] = "none" \/ boxes[g] # "none"
    BY <1>0, <1>8
  <2>2. QED
    BY <1>1, <1>8, <2>1
<1>9. ASSUME NEW f \in Frame, FinishFace(f) PROVE \A g \in Frame : Settled(g)'
  <2>1. UNCHANGED <<nextCommit, committed>> /\ boxes[f] # "none"
    BY <1>9, FacedSteps DEF FinishFace, cursors, BoxedInv
  <2>2. QED
    BY <1>1, <1>8, <1>9, <2>1, FacedSteps
<1>10. ASSUME NEW f \in Frame, QueueIdentity(f) PROVE \A g \in Frame : Settled(g)'
  <2>1. UNCHANGED <<nextCommit, committed>> /\ boxes[f] # "none"
    BY <1>10, QueuedSteps DEF QueueIdentity, BoxedInv
  <2>2. QED
    BY <1>8, <1>10, <2>1, QueuedSteps
<1>11. ASSUME NEW f \in Frame, CommitFrame(f) PROVE \A g \in Frame : Settled(g)'
  <2>1. /\ f = nextCommit /\ nextCommit' = f + 1 /\ Committed' = Committed \cup {f}
        /\ boxes' = [boxes EXCEPT ![f] = "decided"]
        /\ UNCHANGED latestIdentity
    BY <1>11, CommittingSteps DEF CommitFrame, IsNextCommit, latest
  <2>2. ASSUME NEW g \in Frame PROVE Settled(g)'
    <3>1. CASE g = f
      BY <2>1, <3>1 DEF Settled
    <3>2. CASE g # f
      <4>1. boxes'[g] = boxes[g]
        BY <1>0, <2>1, <3>2
      <4>2. g < nextCommit' => g < nextCommit
        BY <1>0, <2>1, <3>2
      <4>3. QED
        BY <2>1, <4>1, <4>2 DEF Settled
    <3>3. QED
      BY <3>1, <3>2
  <2>3. QED
    BY <2>2
<1>12. QED
  BY <1>2, <1>3, <1>4, <1>5, <1>6, <1>7, <1>9, <1>10, <1>11, QuietSteps DEF Moves, Skips

(* With room for the window, the commit cursor passes a tracked frame       *)
(* without committing it only once a frame more than the window later has   *)
(* reached the identity stage: no frame is given up early.                  *)
THEOREM CommitPassesLate ==
  ASSUME PendingLimit > ReorderWindow
  PROVE  Spec => []CommitPassesOnlyOverrun
<1> DEFINE SettledInv == \A f \in Frame : Settled(f)
<1>1. Init => BacklogInv /\ BoxedInv /\ SettledInv
  <2>1. Init => BacklogInv
    BY DEF Init, BacklogInv, FramesAhead, ProbesAsked, TrackingLeaves, FaceLeaves,
           RecognitionLeaves, CommitLeaves
  <2>2. Init => BoxedInv /\ SettledInv
    BY DEF Init, BoxedInv, Settled, Stages
  <2>3. QED
    BY <2>1, <2>2
<1>2. TypeOK /\ StageInv /\ BoxedInv /\ BacklogInv /\ SettledInv /\ [Next]_vars => SettledInv'
  BY SettledInductive
<1>3. SettledInv => CommitPassesOnlyOverrun
  BY DEF Settled, CommitPassesOnlyOverrun, Committed
<1> HIDE DEF SettledInv
<1>4. QED
  BY <1>1, <1>2, <1>3, BoxedInvInductive, BacklogInductive, TypeCorrect, StageCorrect, PTL
     DEF Spec
=============================================================================
