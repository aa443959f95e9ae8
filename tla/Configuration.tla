--------------------------- MODULE Configuration ---------------------------
(***************************************************************************)
(* What the runner makes of a configuration document: parsing and          *)
(* validation (core/src/common/config.cpp), replication of the streams     *)
(* (replicate.cpp), the options the pipeline is built with                 *)
(* (RunnerManager::make_options_), and what of them decides whether a      *)
(* pipeline can start: the factories of its stages and of its sources.     *)
(*                                                                         *)
(* A document is a record of what its YAML gives; a key it does not give   *)
(* is outside the domain.  Keys nothing depends on (paths, blob names,     *)
(* thresholds nobody bounds) are left out; a real number is an integer of  *)
(* its thousandths.                                                        *)
(***************************************************************************)
EXTENDS Integers, Sequences

CONSTANT Numbered(_, _) \* the name synthesised for a replica: id + "_" + number

-----------------------------------------------------------------------------
(* The keys whose numbers matter, by the section that holds them.           *)

Capacities ==
  {"person_detector_in", "face_detector_in", "recognizer_in", "identity_in", "anonymizer_in",
   "frames_in", "person_detections_in", "faces_in", "recognitions_in", "identities_in",
   "encoder_in"}
Instances ==
  {"person_detector_workers", "face_detector_workers", "recognizer_workers",
   "identity_workers", "anonymizer_workers"}
PersonDetector == {"yunet_threads", "scrfd_threads", "yolox_threads", "uhd_threads",
                   "uhd_input_w", "uhd_input_h"}
FaceDetector == {"face_yunet_threads", "face_scrfd_threads"}
Gates == {"min_face_score", "min_face_size_px", "min_inter_eye_px", "max_roll_deg",
          "max_yaw_offset_ratio"}
Recognizer == {"input_w", "input_h", "embedding_dim", "recognizer_threads",
               "cache_ttl_frames"}
Streaming == {"bitrate_kbps", "keyframe_interval_frames", "max_peers_per_stream",
              "ice_gathering_timeout_ms", "session_idle_timeout_s"}
Runtime == {"reorder_window", "pending_state_limit", "jpeg_quality", "pixelation_divisor",
            "blur_kernel"}
Unchecked == {"track_buffer", "log_interval_ms"}

Keys == Capacities \cup Instances \cup PersonDetector \cup FaceDetector \cup Gates
          \cup Recognizer \cup Streaming \cup Runtime \cup Unchecked

Default == [k \in Keys |->
  CASE k \in {"frames_in", "encoder_in", "reorder_window"} -> 5
    [] k \in {"person_detections_in", "faces_in", "recognitions_in", "identities_in"} -> 20
    [] k \in Capacities \ {"frames_in", "encoder_in", "person_detections_in", "faces_in",
                           "recognitions_in", "identities_in"} -> 50
    [] k \in {"uhd_input_w", "uhd_input_h"} -> 64
    [] k \in {"input_w", "input_h"} -> 112
    [] k = "embedding_dim" -> 128
    [] k = "cache_ttl_frames" -> 900
    [] k = "min_face_score" -> 700
    [] k = "min_face_size_px" -> 56000
    [] k = "min_inter_eye_px" -> 20000
    [] k = "max_roll_deg" -> 25000
    [] k = "max_yaw_offset_ratio" -> 350
    [] k = "bitrate_kbps" -> 6000
    [] k \in {"keyframe_interval_frames", "session_idle_timeout_s"} -> 30
    [] k = "max_peers_per_stream" -> 2
    [] k = "ice_gathering_timeout_ms" -> 2000
    [] k = "pending_state_limit" -> 500
    [] k = "jpeg_quality" -> 75
    [] k = "pixelation_divisor" -> 10
    [] k = "blur_kernel" -> 31
    [] k = "track_buffer" -> 100
    [] k = "log_interval_ms" -> 5000
    [] OTHER -> 1]

DefaultText ==
  [primary |-> "webrtc", fallback |-> "mjpeg", codec |-> "h264", method |-> "pixelate",
   association_mode |-> "person_bbox", person_detector |-> "yolox", tracker |-> "demo",
   face_detector |-> "scrfd", recognizer |-> "noop", identity |-> "noop"]

(* A document.  An instance count also has an older name, "workers", of     *)
(* which legacy holds the values.  broken: keys the parser reads and cannot *)
(* convert; unsupported: keys refused whatever they hold.  A stream's       *)
(* address is the url or the device it has by its section or, for a webcam, *)
(* by default.                                                              *)
IsStream(s) ==
  /\ s.profiles \subseteq {"inference", "ui", "other"}
  /\ s.fps \in Int /\ s.count \in Int
  /\ s.ids \in Seq(STRING)
  /\ s.capture \in [{"width", "height", "fps"} -> Int]

IsDocument(doc) ==
  /\ DOMAIN doc.number \subseteq Keys /\ \A k \in DOMAIN doc.number : doc.number[k] \in Int
  /\ DOMAIN doc.legacy \subseteq Instances
  /\ \A k \in DOMAIN doc.legacy : doc.legacy[k] \in Int
  /\ DOMAIN doc.text \subseteq DOMAIN DefaultText
  /\ doc.face \in {"absent", "disabled", "enabled"}
  /\ DOMAIN doc.streams = 1..Len(doc.streams) /\ Len(doc.streams) \in Nat
  /\ \A i \in DOMAIN doc.streams : IsStream(doc.streams[i])

-----------------------------------------------------------------------------
(* Parsing.                                                                 *)

Highest(a, b) == IF a >= b THEN a ELSE b

Read(doc, k) ==
  IF k \in DOMAIN doc.number THEN doc.number[k]
  ELSE IF k \in DOMAIN doc.legacy THEN doc.legacy[k] ELSE Default[k]

(* Some values are raised in silence, get_positive_int_alias ...            *)
Number(doc, k) ==
  CASE k \in Instances -> Highest(1, Read(doc, k))
    [] k = "log_interval_ms" -> Highest(250, Read(doc, k))
    [] OTHER -> Read(doc, k)

(* ... some are refused when they are given, get_size_t_min, get_int_min    *)
Refusing == Capacities \cup Runtime

Least(k) ==
  CASE k = "reorder_window" -> 0
    [] k \in Gates -> 0
    [] k = "pixelation_divisor" -> 2
    [] k = "blur_kernel" -> 3
    [] k = "ice_gathering_timeout_ms" -> 250
    [] OTHER -> 1

TooSmall(doc) == \E k \in Refusing \cap DOMAIN doc.number : doc.number[k] < Least(k)

Text(doc, k) ==
  IF k = "face_detector" /\ doc.face # "enabled" THEN "none"
  ELSE IF k \in DOMAIN doc.text THEN doc.text[k] ELSE DefaultText[k]

(* ... and so are streams without what their sort needs.                    *)
StreamRefused(s) ==
  \/ s.deprecated                                    \* stream.output
  \/ s.profiles # {} /\ s.fps <= 0
  \/ s.type = "rtsp" /\ s.address = ""
  \/ s.type = "webcam" /\ s.address = ""
  \/ s.type = "webcam" /\ \E k \in {"width", "height", "fps"} : s.capture[k] < 1

Stream(s) == [s EXCEPT !.count = Highest(1, @)]

Refused(doc) ==
  \/ doc.broken # {} \/ doc.unsupported # {}
  \/ TooSmall(doc)
  \/ doc.streams = << >>
  \/ \E i \in DOMAIN doc.streams : StreamRefused(doc.streams[i])

Parsed(doc) ==
  [number |-> [k \in Keys |-> Number(doc, k)],
   text |-> [k \in DOMAIN DefaultText |-> Text(doc, k)],
   streams |-> [i \in 1..Len(doc.streams) |-> Stream(doc.streams[i])]]

-----------------------------------------------------------------------------
(* validate_config.                                                         *)

Enough(cfg, K) == \A k \in K : cfg.number[k] >= Least(k)

ValidStreaming(cfg) ==
  /\ cfg.text.primary \in {"webrtc", "mjpeg"}
  /\ cfg.text.fallback \in {"mjpeg", "none"}
  /\ cfg.text.codec = "h264"
  /\ Enough(cfg, Streaming)
  /\ cfg.number["ice_gathering_timeout_ms"] <= 10000

ValidRuntime(cfg) ==
  /\ Enough(cfg, Capacities \cup Runtime \cup {"anonymizer_workers"})
  /\ cfg.number["jpeg_quality"] <= 100
  /\ cfg.text.method \in {"pixelate", "blur"}

ValidModules(cfg) ==
  /\ Enough(cfg, PersonDetector \cup Recognizer \cup Gates
                   \cup {"person_detector_workers", "recognizer_workers", "identity_workers"})
  /\ cfg.text.face_detector # "none" =>
       /\ cfg.text.association_mode \in {"person_bbox", "independent"}
       /\ Enough(cfg, FaceDetector \cup {"face_detector_workers"})
  /\ cfg.text.recognizer = "mobilefacenet" =>
       /\ cfg.number["input_w"] = 112 /\ cfg.number["input_h"] = 112
       /\ cfg.number["embedding_dim"] = 128

Valid(cfg) == ValidStreaming(cfg) /\ ValidRuntime(cfg) /\ ValidModules(cfg)

Accepted(doc) == ~Refused(doc) /\ Valid(Parsed(doc))

-----------------------------------------------------------------------------
(* expand_replicas: the j-th copy of the i-th stream, in the order of i and *)
(* then of j, and its id.                                                   *)

Copies(streams) ==
  UNION {{i} \X (0..(Highest(1, streams[i].count) - 1)) : i \in DOMAIN streams}

Precedes(c, d) == c[1] < d[1] \/ (c[1] = d[1] /\ c[2] < d[2])

CopyId(s, j) ==
  IF Highest(1, s.count) = 1 THEN s.id
  ELSE IF j < Len(s.ids) THEN s.ids[j + 1] ELSE Numbered(s.id, j)

IdOf(streams, c) == CopyId(streams[c[1]], c[2])

Distinct(streams) ==
  \A c, d \in Copies(streams) : IdOf(streams, c) = IdOf(streams, d) => c = d

-----------------------------------------------------------------------------
(* make_options_ and the constructors it feeds: the parameters of the       *)
(* pipeline's parts, by the constants of the modules that model them.       *)

FaceModeOf(cfg) ==
  IF cfg.text.face_detector \in {"none", ""} THEN "disabled"
  ELSE IF cfg.text.association_mode = "independent" THEN "independent" ELSE "assigned"

Options(cfg) ==
  [AnonymizerCap |-> cfg.number["anonymizer_in"],
   EncoderCap |-> cfg.number["encoder_in"],
   Anonymizers |-> Highest(1, cfg.number["anonymizer_workers"]),
   ReorderWindow |-> Highest(0, cfg.number["reorder_window"]),
   PendingLimit |-> Highest(1, cfg.number["pending_state_limit"]),
   FaceMode |-> FaceModeOf(cfg),
   CacheTTL |-> cfg.number["cache_ttl_frames"],
   MaxPeers |-> cfg.number["max_peers_per_stream"],
   TrackBuffer |-> Highest(1, cfg.number["track_buffer"])]

-----------------------------------------------------------------------------
(* PipelineRuntime::start.  Nobody validates the sorts of the stages and of *)
(* the streams: a factory throws when it does not know one.                 *)

PersonDetectors == {"", "yolox", "yunet", "scrfd", "uhd"}
Trackers == {"", "demo", "bytetrack"}
FaceDetectors == {"", "none", "scrfd", "yunet"}
Recognizers == {"", "noop", "none", "mobilefacenet"}
Deciders == {"", "noop", "none", "passthrough"}

StagesExist(cfg) ==
  /\ cfg.text.person_detector \in PersonDetectors /\ cfg.text.tracker \in Trackers
  /\ cfg.text.face_detector \in FaceDetectors
  /\ cfg.text.recognizer \in Recognizers /\ cfg.text.identity \in Deciders

SourceExists(s) ==
  {"inference", "ui"} \subseteq s.profiles /\ s.type \in {"file", "webcam", "rtsp"}

(* A pipe is made per copy and entered under its id, over an earlier one    *)
(* with the same id: what is looked up is the last.                         *)
PipeOf(streams, id) ==
  CHOOSE c \in Copies(streams) :
    /\ IdOf(streams, c) = id
    /\ \A d \in Copies(streams) : IdOf(streams, d) = id => ~Precedes(c, d)

(* The copies whose source exists get their threads in the pipe under their *)
(* id, and to assign a std::thread that runs ends the process.              *)
ThreadPipe(streams, c) == PipeOf(streams, IdOf(streams, c))

AssignsTwice(streams) ==
  \E c, d \in Copies(streams) :
    /\ c # d /\ ThreadPipe(streams, c) = ThreadPipe(streams, d)
    /\ SourceExists(streams[c[1]]) /\ SourceExists(streams[d[1]])

(* What start() needs and the document decides: every stage, and one stream *)
(* with a source.                                                           *)
MayStart(cfg) ==
  StagesExist(cfg) /\ \E i \in DOMAIN cfg.streams : SourceExists(cfg.streams[i])
=============================================================================
