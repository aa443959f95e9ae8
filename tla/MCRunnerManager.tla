-------------------------- MODULE MCRunnerManager --------------------------
(* Instances of RunnerManager for TLC, of configurations read from          *)
(* documents as Configuration reads them.                                   *)
EXTENDS RunnerManager, TLC

NumberedId(id, i) == id \o "_" \o ToString(i)

C == INSTANCE Configuration WITH Numbered <- NumberedId

Nothing == [k \in {} |-> 0]

Camera(id, count, ids) ==
  [id |-> id, type |-> "webcam", address |-> "/dev/video0", deprecated |-> FALSE,
   profiles |-> {"inference", "ui"}, fps |-> 12, count |-> count, ids |-> ids,
   capture |-> [k \in {"width", "height", "fps"} |-> 30]]

Document(streams) ==
  [number |-> Nothing, legacy |-> Nothing, text |-> Nothing, face |-> "absent",
   broken |-> {}, unsupported |-> {}, streams |-> streams]

(* "twins": two cameras of one name; "replicas": the second camera has the  *)
(* name made up for a replica of the first.                                 *)
Documents ==
  [boot |-> Document(<<Camera("cam", 1, << >>)>>),
   twins |-> Document(<<Camera("cam", 1, << >>), Camera("cam", 1, << >>)>>),
   replicas |-> Document(<<Camera("cam", 2, << >>), Camera("cam_0", 1, << >>)>>),
   ocsort |-> [Document(<<Camera("cam", 1, << >>)>>) EXCEPT !.text = [tracker |-> "ocsort"]],
   tiny |-> [Document(<<Camera("cam", 1, << >>)>>) EXCEPT
               !.number = [pending_state_limit |-> 0]],
   empty |-> Document(<< >>)]

Streams(d) == C!Parsed(Documents[d]).streams
Names(d) == {C!IdOf(Streams(d), c) : c \in C!Copies(Streams(d))}

Accepted == {d \in DOMAIN Documents : C!Accepted(Documents[d])}
Starts(d) == C!MayStart(C!Parsed(Documents[d]))
Doubles(d) == C!AssignsTwice(Streams(d))

(* What two of the documents give the manager; of the others, what is not   *)
(* accepted changes nothing, and the rest fail or end it as these do.       *)
TwoConfigs == {"boot", "twins"}
DoubledConfigs == {"twins"}
OneStream == [d \in TwoConfigs |-> {"cam"}]

ASSUME DocumentsAsMeant ==
  /\ Accepted = TwoConfigs \cup {"replicas", "ocsort"}
  /\ {d \in Accepted : Starts(d)} = TwoConfigs \cup {"replicas"}
  /\ {d \in Accepted : Doubles(d)} = DoubledConfigs \cup {"replicas"}
  /\ \A d \in TwoConfigs : Names(d) = OneStream[d]
  /\ Names("replicas") = {"cam_0", "cam_1"}
=============================================================================
