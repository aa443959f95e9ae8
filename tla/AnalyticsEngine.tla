--------------------------- MODULE AnalyticsEngine ---------------------------
(***************************************************************************)
(* Area rules of the controller's analytics engine                         *)
(* (controller/veilsight_controller/analytics_engine.py), for one stream:  *)
(* which tracks are inside which area, and the enter, exit and dwell       *)
(* events of a frame.  A rule stands for its area and for how long a track *)
(* may stay in it; of the stream, profile, kind and enabled that a request *)
(* may change, only this matters: is it an enabled area of the stream.     *)
(***************************************************************************)
CONSTANTS Rules, Tracks

VARIABLES
  rules,   \* per rule, what the engine has: one of Values
  active,  \* tracks of the last frame
  inside,  \* per rule, tracks that area_states has inside
  emitted  \* per rule, tracks whose stay has been reported (threshold_emitted)

engineVars == <<rules, active, inside, emitted>>

(* "on" is an enabled area of the stream; "off" any other rule of it, which *)
(* is disabled or a line; "away" one of another stream or profile.          *)
Settings == {"on", "off", "away"}
Values == Settings \cup {"absent"}

(* The rules of the stream, as a snapshot shows them.                       *)
OfStream(table) == [r \in Rules |-> IF table[r] = "away" THEN "absent" ELSE table[r]]

(* A frame maps its tracks to the rules whose polygon has their foot point. *)
Frames == UNION {[S -> SUBSET Rules] : S \in SUBSET Tracks}

EngineInit ==
  /\ rules = [r \in Rules |-> "absent"]
  /\ active = {}
  /\ inside = [r \in Rules |-> {}]
  /\ emitted = [r \in Rules |-> {}]

Unknown(r, v) == IF rules[r] = "absent" THEN rules ELSE [rules EXCEPT ![r] = v] \* faulty variant
Upsert(r, v) == [rules EXCEPT ![r] = v]

DeleteRule(r) == [rules EXCEPT ![r] = "absent"]

(* What judged holds of a rule are the tracks of the frame it has judged.   *)
(* A track that is missing for the first time is taken out of the areas of  *)
(* the rules that are on now, as one that has moved out of them is.         *)
MissingKept(f, judged, r) == judged[r] \* faulty variant: a missing track stays where it was
Seen(f, judged, r) == (active \ DOMAIN f) \cup judged[r]

Within(f, judged, r) == {t \in judged[r] : r \in f[t]}

InsideAfter(f, judged) == [r \in Rules |->
  IF rules[r] = "on" THEN (inside[r] \ Seen(f, judged, r)) \cup Within(f, judged, r)
  ELSE inside[r]]

Entered(f, judged) == [r \in Rules |-> InsideAfter(f, judged)[r] \ inside[r]]
Left(f, judged) == [r \in Rules |-> inside[r] \ InsideAfter(f, judged)[r]]

(* The tracks that have stayed: of those in long, whose stay has reached    *)
(* the threshold of the rule, one that was inside and is, if not reported.  *)
AgainReported(f, judged, long) == [r \in Rules |-> \* faulty variant: the flag is not looked at
  IF rules[r] = "on" THEN inside[r] \cap Within(f, judged, r) \cap long[r] ELSE {}]
Stayed(f, judged, long) == [r \in Rules |->
  IF rules[r] = "on" THEN (inside[r] \cap Within(f, judged, r) \cap long[r]) \ emitted[r]
  ELSE {}]

EmittedAfter(f, judged, long) == [r \in Rules |->
  (emitted[r] \ (Entered(f, judged)[r] \cup Left(f, judged)[r])) \cup Stayed(f, judged, long)[r]]

Judge(f, judged, long) ==
  /\ inside' = InsideAfter(f, judged)
  /\ emitted' = EmittedAfter(f, judged, long)
  /\ UNCHANGED rules

Whole(f) == [r \in Rules |-> DOMAIN f]

ProcessFrame(f, long) == active' = DOMAIN f /\ Judge(f, Whole(f), long)

(* A rule that nobody has validated raises at the frame's track t: those    *)
(* before it were judged, t itself by some rules, and active stays as it was.*)
BreakOff(f, long) ==
  /\ \E before \in SUBSET DOMAIN f, some \in SUBSET Rules, t \in DOMAIN f :
       /\ t \notin before
       /\ \E r \in Rules \ some : rules[r] \in {"on", "off"}
       /\ Judge(f, [r \in Rules |-> before \cup IF r \in some THEN {t} ELSE {}], long)
  /\ UNCHANGED active

EngineTypeOK ==
  /\ rules \in [Rules -> Values]
  /\ active \subseteq Tracks
  /\ inside \in [Rules -> SUBSET Tracks]
  /\ emitted \in [Rules -> SUBSET Tracks]
=============================================================================
