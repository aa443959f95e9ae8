----------------------------- MODULE StreamFront -----------------------------
(***************************************************************************)
(* The front of a stream: the source numbers frames (DualSource), and the  *)
(* tracker gets those that the coordinator has not given up (ByteTracker). *)
(***************************************************************************)
EXTENDS DualSource, ByteTracker

vars == <<sourceVars, trackerVars>>

Init == SourceInit /\ TrackerInit

ReadFrame == Read /\ UNCHANGED trackerVars

(* Frames are tracked in the order of their ids (StreamCoordinator), some   *)
(* time after they were read; some are skipped.                             *)
ProcessTrackedFrame ==
  /\ \E f \in (fed + 1)..(Len(emitted) - 1) : Track(f)
  /\ UNCHANGED sourceVars

Next == ReadFrame \/ ProcessTrackedFrame

Spec == Init /\ [][Next]_vars

-----------------------------------------------------------------------------
(* Types of the source's and the tracker's variables.                       *)
TypeOK == SourceTypeOK /\ TrackerTypeOK
=============================================================================
