---------------------------- MODULE PrivacyChain ----------------------------
(***************************************************************************)
(* Who is hidden in a published frame: the way of a frame's boxes through  *)
(* tracker (ByteTracker), face policy (face_policy.cpp), recognizer        *)
(* (mobilefacenet_recognizer.cpp, recognizer.cpp), identity decider        *)
(* (identity_decider.cpp) and anonymizer (anonymizer.cpp), for one stream  *)
(* and one worker per stage.                                               *)
(*                                                                         *)
(* A box shows a person, whom a frame's detections may give to any track.  *)
(* A face may be attached to any box, for boxes overlap.  An embedding is  *)
(* taken for its person's: whoever is in the gallery is matched by his own *)
(* face only.  Boxes and faces are larger than a pixel, and the body box   *)
(* of a person covers his face.                                            *)
(***************************************************************************)
EXTENDS ByteTracker, SequencesExt

CONSTANTS
  People,
  Nobody,     \* no person: no face attached, no identity
  Settings,   \* configurations of the modules
  CacheTTL,   \* cache_ttl_frames
  MaxFrame    \* bound on frame ids

ASSUME ChainAssumption ==
  /\ Nobody \notin People /\ {"unknown", "none"} \cap People = {}
  /\ Settings \subseteq [association : {"none", "person_bbox", "independent"},
                         recognizer : {"noop", "mobilefacenet"},
                         decider : {"noop", "passthrough"},
                         faceOnly : BOOLEAN]
  /\ CacheTTL \in Nat \ {0} /\ MaxFrame \in Nat

VARIABLES
  setting,   \* the configuration
  gallery,   \* the people whose faces are in the gallery
  decisions, \* the recognizer's cache: per box id, whom it decided for, and when last used
  stage,     \* what the frame under way waits for; "published" when it is out
  present,   \* the people the frame shows
  boxes,     \* tracked_boxes
  facesOf    \* history: per track, the people whose face was attached to it

chain == <<setting, gallery, decisions, stage, present, boxes, facesOf>>
chainVars == <<trackerVars, chain>>

BoxIds == Ids \cup {-i : i \in 1..Cardinality(People)}
Box == [id : BoxIds, shows : People, face : People \cup {Nobody},
        key : People \cup {Nobody}, action : {"allow", "anonymize"}]

NoDecision == [of |-> "none", seen |-> 0]
Decision == [of : People \cup {"unknown", "none"}, seen : 0..MaxFrame]

ChainInit ==
  /\ TrackerInit
  /\ setting \in Settings /\ gallery \in SUBSET People
  /\ decisions = [i \in BoxIds |-> NoDecision]
  /\ stage = "published" /\ present = {} /\ boxes = {}
  /\ facesOf = [t \in Ids |-> {}]

Reach(from, to) == stage = from /\ stage' = to

-----------------------------------------------------------------------------
(* process_tracked_frame_: the tracker takes the detections, none if the    *)
(* detector's answer is lost or later than the window allows, and returns   *)
(* the tracks it saw.                                                       *)
Injections(S, T) == {g \in [S -> T] : \A x, y \in S : g[x] = g[y] => x = y}

TrackFrame(f) ==
  /\ stage \in {"published", "dropped"} /\ stage' = "faces"
  /\ \E people \in SUBSET People, continued \in SUBSET Kept, n \in 0..(MaxTracks + 1 - nextId) :
       LET new == nextId..(nextId + n - 1) IN
       /\ Update(f, continued, n)
       /\ \E shows \in Injections(continued \cup new, people) :
         /\ present' = people
         /\ boxes' = {[id |-> t, shows |-> shows[t], face |-> Nobody, key |-> Nobody,
                       action |-> "anonymize"] : t \in tracked'}
         /\ facesOf' = [t \in Ids |-> IF t \in new THEN {} ELSE facesOf[t]]
  /\ UNCHANGED <<setting, gallery, decisions>>

-----------------------------------------------------------------------------
(* queue_recognition_, with the faces found in the frame: none if there is  *)
(* no detector, no inference image, or no answer in time.                   *)

(* A face goes to at most one track, and a track gets at most one.          *)
Attachments(found) ==
  UNION {Injections(S, tracked) : S \in SUBSET found}

FaceOnlyBoxes(rest) ==
  {{[id |-> -i, shows |-> order[i], face |-> order[i], key |-> Nobody, action |-> "anonymize"] :
      i \in DOMAIN order} : order \in SetToSeqs(rest)}

(* assign_full_frame_faces: of the faces no track takes, the independent    *)
(* mode makes boxes of their own, with ids that start anew in every frame.  *)
AssignFaces ==
  /\ Reach("faces", "recognizer")
  /\ \E found \in SUBSET (IF setting.association = "none" THEN {} ELSE present) :
     \E attached \in Attachments(found) :
       LET faceOf(t) == {p \in DOMAIN attached : attached[p] = t}
           withFace == {[b EXCEPT !.face = IF faceOf(b.id) = {} THEN Nobody
                                           ELSE CHOOSE p \in faceOf(b.id) : TRUE] : b \in boxes}
           rest == IF setting.association = "independent" THEN found \ DOMAIN attached ELSE {}
       IN  /\ \E own \in FaceOnlyBoxes(rest) : boxes' = withFace \cup own
           /\ facesOf' = [t \in Ids |-> facesOf[t] \cup faceOf(t)]
  /\ UNCHANGED <<trackerVars, setting, gallery, decisions, present>>

-----------------------------------------------------------------------------
(* recognize().                                                             *)

EveryBox(b) == TRUE \* faulty variant: face-only boxes are cached as well
Cacheable(b) == b.id >= 0

(* cleanup_cache *)
Fresh(i) ==
  IF decisions[i] # NoDecision /\ fed - decisions[i].seen > CacheTTL THEN NoDecision ELSE decisions[i]

(* best_gallery_match *)
Matched(b) == IF b.face \in gallery THEN b.face ELSE "unknown"

(* Whom the box shows according to the cache or, if its face passes the     *)
(* gates and the embedding succeeds (usable), according to the gallery.     *)
Recognized(b, usable) ==
  CASE Cacheable(b) /\ Fresh(b.id) # NoDecision -> Fresh(b.id).of
    [] ~(Cacheable(b) /\ Fresh(b.id) # NoDecision) /\ b \in usable -> Matched(b)
    [] OTHER -> "none"

Decided(b, whom) ==
  [b EXCEPT !.key = IF whom \in People THEN whom ELSE Nobody,
            !.action = IF whom \in People THEN "allow" ELSE "anonymize"]

Recognize ==
  /\ Reach("recognizer", "identity") /\ setting.recognizer = "mobilefacenet"
  /\ \E usable \in SUBSET {b \in boxes : b.face # Nobody} :
       /\ boxes' = {Decided(b, Recognized(b, usable)) : b \in boxes}
       /\ decisions' = [i \in BoxIds |->
            LET mine == {b \in boxes : b.id = i /\ Cacheable(b)}
                whom == {Recognized(b, usable) : b \in mine} \ {"none"}
            IN  IF whom = {} THEN Fresh(i)
                ELSE [of |-> CHOOSE x \in whom : TRUE, seen |-> fed]]
  /\ UNCHANGED <<trackerVars, setting, gallery, present, facesOf>>

(* NoopRecognizer, and the worker's handler of an exception. *)
Unrecognized ==
  /\ Reach("recognizer", "identity")
  /\ UNCHANGED <<trackerVars, setting, gallery, decisions, present, boxes, facesOf>>

-----------------------------------------------------------------------------
(* decide(): only the passthrough decider lets a known identity stand; the  *)
(* worker's handler of an exception does as the noop decider.               *)

Reset(b) == [b EXCEPT !.key = Nobody, !.action = "anonymize"]
Passed(b) == IF b.key = Nobody THEN [b EXCEPT !.action = "anonymize"] ELSE b

Decide ==
  /\ Reach("identity", "anonymizer")
  /\ \/ setting.decider = "passthrough" /\ boxes' = {Passed(b) : b \in boxes}
     \/ boxes' = {Reset(b) : b \in boxes}
  /\ UNCHANGED <<trackerVars, setting, gallery, decisions, present, facesOf>>

-----------------------------------------------------------------------------
(* planned_regions: whom the region of a box covers.                        *)

FaceOrNothing(b) == \* faulty variant: no fallback to the body
  IF b.action # "anonymize" THEN {}
  ELSE IF setting.faceOnly THEN {b.face} \ {Nobody} ELSE {b.shows}
Region(b) ==
  IF b.action # "anonymize" THEN {}
  ELSE IF setting.faceOnly /\ b.face # Nobody THEN {b.face} ELSE {b.shows}

Hidden == UNION {Region(b) : b \in boxes}

Publish ==
  /\ Reach("anonymizer", "published")
  /\ UNCHANGED <<trackerVars, setting, gallery, decisions, present, boxes, facesOf>>

(* A full queue drops the frame, or a result it waits for: it is never seen. *)
Drop ==
  /\ stage \in {"faces", "recognizer", "identity", "anonymizer"}
  /\ stage' = "dropped"
  /\ UNCHANGED <<trackerVars, setting, gallery, decisions, present, boxes, facesOf>>

-----------------------------------------------------------------------------
ChainNext ==
  \/ \E f \in (fed + 1)..MaxFrame : TrackFrame(f)
  \/ AssignFaces \/ Recognize \/ Unrecognized \/ Decide \/ Publish \/ Drop

ChainSpec == ChainInit /\ [][ChainNext]_chainVars

-----------------------------------------------------------------------------
(* Properties.                                                              *)

ChainTypeOK ==
  /\ TrackerTypeOK
  /\ setting \in Settings /\ gallery \subseteq People /\ present \subseteq People
  /\ decisions \in [BoxIds -> Decision]
  /\ stage \in {"faces", "recognizer", "identity", "anonymizer", "published", "dropped"}
  /\ boxes \subseteq Box
  /\ \A b, c \in boxes : b.id = c.id => b = c
  /\ facesOf \in [Ids -> SUBSET People]

Exposed == IF stage = "published" THEN present \ Hidden ELSE {}
BoxesOf(p) == {b \in boxes : b.shows = p}

(* Somebody who is not in the gallery is seen in a published frame for one  *)
(* of three reasons only: no box shows him, since he was not detected or    *)
(* his track gave way to another; his box is shown by a decision made for   *)
(* somebody else's face that was attached to the same track; or only a face *)
(* is hidden, and the face attached to his box is another's.                *)
ExposureHasCause ==
  \A p \in Exposed \ gallery :
    \/ BoxesOf(p) = {}
    \/ \E b \in BoxesOf(p) :
         \/ b.action = "allow" /\ b.key \in gallery
              /\ setting.decider = "passthrough" /\ setting.recognizer = "mobilefacenet"
         \/ setting.faceOnly /\ b.face \notin {p, Nobody}

(* A box is shown as somebody's only if his face was attached to that very  *)
(* track, not to an earlier one with the same id, or is the box: whatever   *)
(* tracks are lost, found, merged and given up, and however long decisions  *)
(* are remembered.                                                          *)
DecisionsFollowTracks ==
  \A b \in boxes : b.action = "allow" =>
    b.key \in gallery /\ (IF b.id \in Ids THEN b.key \in facesOf[b.id] ELSE b.key = b.face)
=============================================================================
