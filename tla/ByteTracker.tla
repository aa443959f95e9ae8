----------------------------- MODULE ByteTracker -----------------------------
(***************************************************************************)
(* The tracker of a stream (core/src/tracking/bytetrack_tracker.cpp): it   *)
(* gives the detections of each frame the ids of the tracks they continue. *)
(* Its ids are what recognition decisions are remembered by.               *)
(*                                                                         *)
(* Boxes are left out: which detections continue which tracks, and which   *)
(* tracks overlap, may be anything.  The assignment is tested against the  *)
(* IoU threshold only when it is complete, so that any set of tracks may   *)
(* be matched.  Every track is activated when it is created; what the code *)
(* does with unconfirmed ones is never reached.                            *)
(***************************************************************************)
EXTENDS Integers, FiniteSets

CONSTANTS
  TrackBuffer,  \* track_buffer
  MaxTracks     \* bound on the tracks created

ASSUME TrackerAssumption ==
  TrackBuffer \in Nat \ {0} /\ MaxTracks \in Nat

VARIABLES
  fed,      \* id of the last frame handed over, or -1
  frame,    \* frame_id_ of the tracker
  nextId,   \* next_track_id_
  tracked,  \* ids in tracked_tracks_; what update() returns
  lost,     \* ids in lost_tracks_
  first,    \* per id, start_frame
  last,     \* per id, frame_id: the last frame it was seen in
  merged    \* history: tracks this update dropped as duplicates

trackerVars == <<fed, frame, nextId, tracked, lost, first, last, merged>>

Ids == 1..MaxTracks
Kept == tracked \cup lost

TrackerInit ==
  /\ fed = -1 /\ frame = 0 /\ nextId = 1
  /\ tracked = {} /\ lost = {}
  /\ first = [t \in Ids |-> 0] /\ last = [t \in Ids |-> 0]
  /\ merged = {}

-----------------------------------------------------------------------------
(* update().                                                                *)

(* frame_id 0 is not taken for an id: the tracker counts on by itself.      *)
FrameId(f) == IF f > 0 THEN f ELSE frame + 1

IdAfterKept(n) == Cardinality(Kept) + n + 1 \* faulty variant: ids of dropped tracks again
IdAfter(n) == nextId + n

SeenIn(f, S) == [t \in Ids |-> IF t \in S THEN FrameId(f) ELSE last[t]]

TooOld(f, t) == FrameId(f) - last[t] > TrackBuffer

(* What was lost before and not found, unless for too long, and what is     *)
(* missing for the first time.                                              *)
LostAfter(continued, f) ==
  {t \in lost \ continued : ~TooOld(f, t)} \cup (tracked \ continued)

(* Of a tracked and a lost track that overlap, the shorter one is dropped.  *)
Length(t) == last'[t] - first'[t]
DroppedOnTie(t, l) == {x \in {t, l} : Length(x) <= Length(t) /\ Length(x) <= Length(l)} \* faulty variant
Shorter(t, l) == IF Length(t) > Length(l) THEN {l} ELSE {t}

RemoveDuplicates(trackedNow, lostNow) ==
  \E overlaps \in SUBSET (trackedNow \X lostNow) :
    LET dropped == UNION {Shorter(p[1], p[2]) : p \in overlaps}
    IN  /\ tracked' = trackedNow \ dropped
        /\ lost' = lostNow \ dropped
        /\ merged' = dropped

(* Frame f shows the tracks continued, of those tracked or lost, and n      *)
(* people who are new.                                                      *)
Update(f, continued, n) ==
  LET new == nextId..(nextId + n - 1) IN
  /\ fed' = f /\ frame' = FrameId(f)
  /\ nextId' = IdAfter(n)
  /\ first' = [t \in Ids |-> IF t \in new THEN FrameId(f) ELSE first[t]]
  /\ last' = SeenIn(f, continued \cup new)
  /\ RemoveDuplicates(continued \cup new, LostAfter(continued, f))

-----------------------------------------------------------------------------
(* Frame f is handed over: it may show any of the tracks that are kept.     *)
Track(f) ==
  \E continued \in SUBSET Kept, n \in 0..(MaxTracks + 1 - nextId) : Update(f, continued, n)

-----------------------------------------------------------------------------
(* Properties.                                                              *)

(* Types; a track is tracked or lost but never both, and has been seen in   *)
(* the current frame exactly if it is tracked and the frame has a new id.   *)
TrackerTypeOK ==
  /\ fed \in Int /\ frame \in Nat
  /\ nextId \in 1..(MaxTracks + 1)
  /\ Kept \subseteq 1..(nextId - 1)
  /\ tracked \cap lost = {}
  /\ \A t \in tracked : last[t] = frame
  /\ \A t \in Ids : 0 <= first[t] /\ first[t] <= last[t] /\ last[t] <= frame

(* A track that has been given up never comes back, nor does its id for     *)
(* somebody else: the recognizer would take the old decision for it.        *)
NoIdReturns ==
  [][\A t \in Ids : first[t] > 0 /\ t \notin Kept => t \notin Kept']_trackerVars

(* Whoever is dropped as a duplicate is still there as a track that has     *)
(* lasted as long, however many overlap: two never give way to each other.  *)
DuplicatesLeaveOne ==
  \A t \in merged : \E u \in Kept : last[u] - first[u] >= last[t] - first[t]
=============================================================================
