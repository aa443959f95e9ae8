----------------------- MODULE AnalyticsService_proofs -----------------------
(***************************************************************************)
(* That engine, database and events agree, for any number of rules, tracks *)
(* and clients, any queue and however the worker and the requests meet.    *)
(***************************************************************************)
EXTENDS AnalyticsService, TLAPS

Numbers == 0..MaxFrames
Changing == {"create", "update", "delete"}
AnyRule == Rules \cup {Idle.rule}
Shown == [frame : Numbers, rules : [Rules -> Values]]
Request == [op : Changing \cup {"none", "read"},
            at : {"idle", "get", "write", "apply", "list", "renew", "load"},
            rule : AnyRule, value : Values, seen : Shown]
FrameRecord == [frame : Numbers, tracks : Frames]
Result == [frame : Numbers, entered : [Rules -> SUBSET Tracks], left : [Rules -> SUBSET Tracks],
           stayed : [Rules -> SUBSET Tracks], rules : [Rules -> Values]]

Types ==
  /\ EngineTypeOK
  /\ store \in [Rules -> Values]
  /\ persisted \in [Rules -> [Tracks -> {"out", "in", "stayed"}]]
  /\ stored \in Numbers /\ received \in Numbers
  /\ queue \in Seq(FrameRecord)
  /\ result \in Result /\ snapshot \in Shown
  /\ request \in [Clients -> Request]
  /\ lapsed \in [Rules -> SUBSET Tracks]

(* A frame is processed, dropped or in the queue, which keeps its capacity. *)
QueueInv ==
  /\ done \in Nat /\ dropped \in Nat
  /\ Len(queue) <= QueueCapacity
  /\ received = done + dropped + Len(queue)

(* Who changes a rule is in the middle of it, with a rule that has an id;   *)
(* what is going to be applied by a create or an update is a rule.          *)
RequestInv ==
  \A c \in Clients :
    /\ request[c].op \in Changing => request[c].rule \in Rules \cap ids
    /\ request[c].op \in {"none", "read"} => request[c].at \in {"idle", "load", "renew"}
    /\ request[c].op = "create" => request[c].at # "get"
    /\ request[c].at = "apply" /\ request[c].op # "delete" => request[c].value # "absent"

(* While no two requests for a rule have overlapped there is one at most,   *)
(* and what it has written is what it will apply.                           *)
Alone(r) ==
  /\ \A c, d \in Busy(r) : c = d
  /\ \A c \in Busy(r) :
       /\ request[c].at = "write" /\ request[c].op # "create" => request[c].value = store[r]
       /\ request[c].at = "apply" =>
            store[r] = IF request[c].op = "delete" THEN "absent" ELSE request[c].value
  /\ (\A c \in Busy(r) : request[c].at # "apply") => rules[r] = store[r]

AloneInv == \A r \in Rules \ raced : Alone(r)

Creating(r, at) == {c \in Clients : request[c].op = "create" /\ request[c].rule = r
                                      /\ request[c].at = at}

(* A rule is created once, so that one that was deleted is not stored again.*)
CreatedOnce == \A c, d \in Clients :
  request[c].op = "create" /\ request[d].op = "create"
    /\ request[c].rule = request[d].rule => c = d

Fresh(r) ==
  /\ r \notin ids => store[r] = "absent" /\ Busy(r) = {}
  /\ Creating(r, "write") # {} => store[r] = "absent"

Gone(c) == request[c].op = "delete" /\ request[c].at = "apply" =>
  store[request[c].rule] = "absent" /\ Creating(request[c].rule, "write") = {}

CreatedInv == CreatedOnce /\ (\A r \in Rules : Fresh(r)) /\ (\A c \in Clients : Gone(c))

PresentInv ==
  \A r \in Rules : store[r] # "absent" => rules[r] # "absent" \/ Creating(r, "apply") # {}

(* What the database will say once the worker has stored its events.        *)
Says(r, t) == IF t \in emitted[r] THEN "stayed" ELSE IF t \in inside[r] THEN "in" ELSE "out"

EventsInv ==
  /\ \A r \in Rules : emitted[r] \subseteq inside[r]
  /\ worker \in {"idle", "persisting", "persisted", "broadcasting", "dead"}
  /\ \A r \in Rules, t \in Tracks :
       /\ worker \in {"idle", "persisted", "broadcasting"} => persisted[r][t] = Says(r, t)
       /\ worker = "persisting" =>
            /\ Inserted[r][t] = Says(r, t)
            /\ t \in result.entered[r] => persisted[r][t] = "out"
            /\ t \in result.stayed[r] => persisted[r][t] = "in"
            /\ t \in result.left[r] => persisted[r][t] # "out"

(* In the area of a rule that is not on there is only who was when it      *)
(* ceased to be.                                                            *)
GhostInv ==
  /\ worker # "dead" => \A r \in Rules : inside[r] \ active \subseteq lapsed[r]
  /\ \A r \in Rules : rules[r] # "on" => inside[r] \subseteq lapsed[r]

Inv == /\ Types /\ QueueInv /\ RequestInv /\ AloneInv /\ CreatedInv /\ PresentInv
       /\ EventsInv /\ GhostInv

-----------------------------------------------------------------------------
(* What judging a frame, or part of it, does to the engine keeps its types, *)
(* and its events are of theirs.                                            *)
LEMMA JudgingKeepsTypes ==
  ASSUME EngineTypeOK, NEW f, NEW judged \in [Rules -> SUBSET Tracks],
         NEW long \in [Rules -> SUBSET Tracks], Judge(f, judged, long)
  PROVE  /\ rules' \in [Rules -> Values]
         /\ inside' \in [Rules -> SUBSET Tracks] /\ emitted' \in [Rules -> SUBSET Tracks]
         /\ Entered(f, judged) \in [Rules -> SUBSET Tracks]
         /\ Left(f, judged) \in [Rules -> SUBSET Tracks]
         /\ Stayed(f, judged, long) \in [Rules -> SUBSET Tracks]
<1>1. \A r \in Rules : Within(f, judged, r) \subseteq Tracks
  BY DEF Within
<1>2. InsideAfter(f, judged) \in [Rules -> SUBSET Tracks]
  BY <1>1 DEF InsideAfter, EngineTypeOK
<1>3. Stayed(f, judged, long) \in [Rules -> SUBSET Tracks]
  BY DEF Stayed, EngineTypeOK
<1>4. /\ Entered(f, judged) \in [Rules -> SUBSET Tracks]
      /\ Left(f, judged) \in [Rules -> SUBSET Tracks]
  BY <1>2 DEF Entered, Left, EngineTypeOK
<1>5. EmittedAfter(f, judged, long) \in [Rules -> SUBSET Tracks]
  BY <1>3, <1>4 DEF EmittedAfter, EngineTypeOK
<1> QED
  BY <1>2, <1>3, <1>4, <1>5 DEF Judge, EngineTypeOK

(* The worker takes frames from its queue that are frames, of the tracks.   *)
LEMMA TakenIsFrame ==
  ASSUME Types, TakeFrame
  PROVE  /\ Head(queue) \in FrameRecord /\ queue' \in Seq(FrameRecord)
         /\ Head(queue).tracks \in Frames /\ Head(queue).frame \in Numbers
         /\ DOMAIN Head(queue).tracks \subseteq Tracks
         /\ Whole(Head(queue).tracks) \in [Rules -> SUBSET Tracks]
<1>1. Head(queue) \in FrameRecord /\ queue' \in Seq(FrameRecord)
  BY DEF TakeFrame, Types
<1>2. Head(queue).tracks \in Frames /\ Head(queue).frame \in Numbers
  BY <1>1 DEF FrameRecord
<1>3. DOMAIN Head(queue).tracks \subseteq Tracks
  BY <1>2 DEF Frames
<1> QED
  BY <1>1, <1>2, <1>3 DEF Whole

(* Whether the worker finishes a frame or breaks off, some of it is judged. *)
LEMMA FrameIsJudged ==
  ASSUME Types, Compute \/ ComputeFails
  PROVE  \E judged \in [Rules -> SUBSET Tracks], long \in [Rules -> SUBSET Tracks] :
           Judge(Head(queue).tracks, judged, long)
<1> DEFINE f == Head(queue).tracks
<1>1. TakeFrame
  BY DEF Compute, ComputeFails
<1>2. DOMAIN f \subseteq Tracks /\ Whole(f) \in [Rules -> SUBSET Tracks]
  BY <1>1, TakenIsFrame
<1> HIDE DEF f
<1>3. CASE Compute
  BY <1>2, <1>3 DEF Compute, ProcessFrame, f
<1>4. CASE ComputeFails
  <2>1. PICK long \in [Rules -> SUBSET Tracks] : BreakOff(f, long)
    BY <1>4 DEF ComputeFails, f
  <2>2. PICK before \in SUBSET DOMAIN f, some \in SUBSET Rules, t \in DOMAIN f :
          Judge(f, [r \in Rules |-> before \cup IF r \in some THEN {t} ELSE {}], long)
    BY <2>1 DEF BreakOff
  <2>3. [r \in Rules |-> before \cup IF r \in some THEN {t} ELSE {}] \in [Rules -> SUBSET Tracks]
    BY <1>2
  <2> QED
    BY <2>2, <2>3 DEF f
<1> QED
  BY <1>3, <1>4

(* The request of a client that makes none is one.                          *)
LEMMA IdleTypes ==
  0 \in Numbers /\ Idle \in Request /\ NoResult \in Result /\ NoRules \in [Rules -> Values]
<1>0. 0 \in Numbers
  BY ServiceAssumption DEF Numbers
<1>1. NoRules \in [Rules -> Values]
  BY DEF NoRules, Values
<1>2. [frame |-> 0, rules |-> NoRules] \in Shown
  BY <1>0, <1>1 DEF Shown
<1>3. Idle.rule \in AnyRule
  BY DEF AnyRule
<1>4. Idle \in Request
  BY <1>2, <1>3 DEF Idle, Request, Values
<1>5. NoResult \in Result
  BY <1>0, <1>1 DEF NoResult, Result, Nothing
<1> QED
  BY <1>0, <1>1, <1>4, <1>5

(* What a snapshot shows of the rules are rules.                            *)
LEMMA ListedRules ==
  ASSUME NEW table \in [Rules -> Values]
  PROVE  OfStream(table) \in [Rules -> Values]
BY DEF OfStream, Values

(* A request keeps the types.                                               *)
LEMMA HandleKeepsTypes ==
  ASSUME Types, RequestInv, NEW c \in Clients, Handle(c)
  PROVE  Types'
<1> USE DEF Types
<1>0. request[c] \in Request
  OBVIOUS
<1>1. ASSUME NEW r \in Rules, Create(c, r) \/ Update(c, r) \/ Delete(c, r) PROVE Types'
  <2>1. PICK op \in Changing, at \in {"write", "get"} : Begin(c, op, r, at)
    BY <1>1 DEF Create, Update, Delete, Changing
  <2>2. [Idle EXCEPT !.op = op, !.rule = r, !.at = at] \in Request
    BY IdleTypes DEF Request, AnyRule
  <2> QED
    BY <2>1, <2>2 DEF Begin, frames, engineVars, database, EngineTypeOK
<1>2. CASE GetRule(c)
  <2>0. store[request[c].rule] \in Values
    BY <1>2 DEF GetRule, At, RequestInv, Changing
  <2>1. [request[c] EXCEPT !.at = "write", !.value = store[request[c].rule]] \in Request
    BY <1>0, <2>0 DEF Request
  <2> QED
    BY <1>2, <2>1 DEF GetRule, frames, engineVars, database, history, EngineTypeOK
<1>3. CASE UpdateMisses(c) \/ RequestFails(c)
  BY <1>3, IdleTypes DEF UpdateMisses, RequestFails, Return, frames, engineVars, database, history,
                         EngineTypeOK
<1>4. CASE WriteRule(c)
  <2>1. PICK v \in Settings :
          /\ Write(c, request[c].rule, IF request[c].op = "update"
                                          /\ store[request[c].rule] = "absent"
                                       THEN "absent" ELSE v)
          /\ request' = [request EXCEPT ![c].at = "apply", ![c].value = v]
    BY <1>4 DEF WriteRule
  <2>2. [request[c] EXCEPT !.at = "apply", !.value = v] \in Request
    BY <1>0 DEF Request, Values
  <2>3. store' \in [Rules -> Values]
    BY <2>1 DEF Write, Values
  <2> QED
    BY <2>1, <2>2, <2>3 DEF Write, frames, engineVars, history, EngineTypeOK
<1>5. CASE DeleteRow(c)
  <2>1. [request[c] EXCEPT !.at = "apply"] \in Request
    BY <1>0 DEF Request
  <2>2. store' \in [Rules -> Values]
    BY <1>5 DEF DeleteRow, Write, Values
  <2>3. request' \in [Clients -> Request]
    BY <1>5, <2>1, IdleTypes DEF DeleteRow, Return, GoTo
  <2> QED
    BY <1>5, <2>2, <2>3 DEF DeleteRow, Write, frames, engineVars, history, EngineTypeOK
<1>6. CASE ApplyRule(c)
  <2>1. [request[c] EXCEPT !.at = "list", !.seen = snapshot] \in Request
    BY <1>0 DEF Request
  <2>2. request' \in [Clients -> Request]
    BY <1>6, <2>1, IdleTypes DEF ApplyRule, Return
  <2>3. request[c].value \in Values
    BY <1>0 DEF Request
  <2>4. rules' \in [Rules -> Values]
    BY <1>6, <2>3 DEF ApplyRule, AfterDelete, DeleteRule, Upsert, EngineTypeOK, Values
  <2>5. lapsed' \in [Rules -> SUBSET Tracks]
    BY <1>6 DEF ApplyRule, EngineTypeOK
  <2> QED
    BY <1>6, <2>2, <2>4, <2>5 DEF ApplyRule, frames, database, EngineTypeOK
<1>7. CASE ListRules(c)
  <2>1. [request[c] EXCEPT !.at = "renew", !.seen.rules = OfStream(store)] \in Request
    BY <1>0, ListedRules DEF Request, Shown
  <2> QED
    BY <1>7, <2>1 DEF ListRules, frames, engineVars, database, history, EngineTypeOK
<1>8. CASE RenewSnapshot(c)
  <2>1. snapshot' \in Shown
    BY <1>0, <1>8 DEF RenewSnapshot, Request
  <2> QED
    BY <1>8, <2>1, IdleTypes DEF RenewSnapshot, Return, frames, engineVars, database, history,
                                 EngineTypeOK
<1>9. CASE ReadSnapshot(c)
  <2>1. [request[c] EXCEPT !.op = "read", !.at = "load"] \in Request
    BY <1>0 DEF Request
  <2> QED
    BY <1>9, <2>1 DEF ReadSnapshot, frames, engineVars, database, EngineTypeOK
<1>10. CASE LoadSnapshot(c)
  <2>1. [request[c] EXCEPT !.at = "renew",
                           !.seen = [frame |-> stored, rules |-> OfStream(store)]] \in Request
    BY <1>0, ListedRules DEF Request, Shown
  <2>2. request' \in [Clients -> Request]
    BY <1>10, <2>1, IdleTypes DEF LoadSnapshot, Return
  <2> QED
    BY <1>10, <2>2 DEF LoadSnapshot, frames, engineVars, database, history, EngineTypeOK
<1> QED
  BY <1>1, <1>2, <1>3, <1>4, <1>5, <1>6, <1>7, <1>8, <1>9, <1>10 DEF Handle

(* A request moves its own client only, and no id is forgotten.             *)
LEMMA HandleIsLocal ==
  ASSUME Types, NEW c \in Clients, Handle(c)
  PROVE  /\ \A d \in Clients \ {c} : request'[d] = request[d]
         /\ ids \subseteq ids' /\ raced \subseteq raced'
<1>1. ASSUME NEW r \in Rules, Create(c, r) \/ Update(c, r) \/ Delete(c, r)
      PROVE  \E op, at : Begin(c, op, r, at)
  BY <1>1 DEF Create, Update, Delete
<1>2. CASE \E r \in Rules : Create(c, r) \/ Update(c, r) \/ Delete(c, r)
  BY <1>1, <1>2 DEF Begin, Types
<1>3. CASE \/ GetRule(c) \/ UpdateMisses(c) \/ RequestFails(c)
           \/ WriteRule(c) \/ DeleteRow(c) \/ ApplyRule(c)
  BY <1>3 DEF GetRule, UpdateMisses, RequestFails, WriteRule, DeleteRow, ApplyRule, Return, GoTo,
              Write, Types, history
<1>4. CASE ListRules(c) \/ RenewSnapshot(c) \/ ReadSnapshot(c) \/ LoadSnapshot(c)
  BY <1>4 DEF ListRules, RenewSnapshot, ReadSnapshot, LoadSnapshot, Return, Types, history
<1> QED
  BY <1>2, <1>3, <1>4 DEF Handle

(* A request touches neither the frames nor the areas nor the events.       *)
LEMMA HandleLeavesEvents ==
  ASSUME NEW c \in Clients, Handle(c)
  PROVE  UNCHANGED <<inside, emitted, persisted, worker, result, queue, received, dropped, done>>
<1>1. ASSUME NEW r \in Rules, Create(c, r) \/ Update(c, r) \/ Delete(c, r)
      PROVE  \E op, at : Begin(c, op, r, at)
  BY <1>1 DEF Create, Update, Delete
<1>2. CASE \E r \in Rules : Create(c, r) \/ Update(c, r) \/ Delete(c, r)
  BY <1>1, <1>2 DEF Begin, engineVars, database, frames
<1>3. CASE \/ GetRule(c) \/ UpdateMisses(c) \/ RequestFails(c)
           \/ WriteRule(c) \/ DeleteRow(c) \/ ApplyRule(c)
  BY <1>3 DEF GetRule, UpdateMisses, RequestFails, WriteRule, DeleteRow, ApplyRule, Write,
              engineVars, database, frames
<1>4. CASE ListRules(c) \/ RenewSnapshot(c) \/ ReadSnapshot(c) \/ LoadSnapshot(c)
  BY <1>4 DEF ListRules, RenewSnapshot, ReadSnapshot, LoadSnapshot, engineVars, database, frames
<1> QED
  BY <1>2, <1>3, <1>4 DEF Handle

(* Only where a rule is applied do the rules of the engine change.          *)
LEMMA OthersLeaveRules ==
  ASSUME NEW c \in Clients, Handle(c), ~ ApplyRule(c)
  PROVE  UNCHANGED <<inside, active, rules, lapsed>>
<1>1. ASSUME NEW r \in Rules, Create(c, r) \/ Update(c, r) \/ Delete(c, r)
      PROVE  \E op, at : Begin(c, op, r, at)
  BY <1>1 DEF Create, Update, Delete
<1>2. CASE \E r \in Rules : Create(c, r) \/ Update(c, r) \/ Delete(c, r)
  BY <1>1, <1>2 DEF Begin, engineVars
<1>3. CASE GetRule(c) \/ UpdateMisses(c) \/ RequestFails(c) \/ WriteRule(c) \/ DeleteRow(c)
  BY <1>3 DEF GetRule, UpdateMisses, RequestFails, WriteRule, DeleteRow, Write, engineVars, history
<1>4. CASE ListRules(c) \/ RenewSnapshot(c) \/ ReadSnapshot(c) \/ LoadSnapshot(c)
  BY <1>4 DEF ListRules, RenewSnapshot, ReadSnapshot, LoadSnapshot, engineVars, history
<1> QED
  BY <1>2, <1>3, <1>4 DEF Handle

(* Every request keeps to its order.                                        *)
LEMMA RequestInductive ==
  ASSUME Types, RequestInv, NEW c \in Clients, Handle(c)
  PROVE  RequestInv'
<1> DEFINE Good(q, known) ==
             /\ q.op \in Changing => q.rule \in Rules \cap known
             /\ q.op \in {"none", "read"} => q.at \in {"idle", "load", "renew"}
             /\ q.op = "create" => q.at # "get"
             /\ q.at = "apply" /\ q.op # "delete" => q.value # "absent"
<1>0. /\ request \in [Clients -> Request]
      /\ request[c] \in Request
      /\ Good(request[c], ids)
  BY DEF Types, RequestInv
<1>1. ASSUME Good(request'[c], ids') PROVE RequestInv'
  BY <1>1, HandleIsLocal DEF RequestInv
<1> SUFFICES Good(request'[c], ids')
  BY <1>1
<1>2. Good(Idle, ids')
  BY DEF Idle, Changing
<1>3. ASSUME NEW r \in Rules, Create(c, r) PROVE Good(request'[c], ids')
  BY <1>0, <1>3 DEF Create, Begin, Idle, Changing
<1>4. ASSUME NEW r \in Rules, Update(c, r) \/ Delete(c, r) PROVE Good(request'[c], ids')
  <2>1. CASE Update(c, r)
    BY <1>0, <2>1 DEF Update, Begin, Idle, Changing
  <2>2. CASE Delete(c, r)
    BY <1>0, <2>2 DEF Delete, Begin, Idle, Changing
  <2> QED
    BY <1>4, <2>1, <2>2
<1>5. CASE GetRule(c)
  BY <1>0, <1>5 DEF GetRule, At, history, Request, Changing
<1>6. CASE UpdateMisses(c) \/ RequestFails(c)
  BY <1>0, <1>2, <1>6 DEF UpdateMisses, RequestFails, Return
<1>7. CASE WriteRule(c)
  BY <1>0, <1>7 DEF WriteRule, Write, Settings, At, history, Request, Changing
<1>8. CASE DeleteRow(c)
  BY <1>0, <1>2, <1>8 DEF DeleteRow, Write, At, Return, GoTo, history, Request, Changing
<1>9. CASE ApplyRule(c)
  BY <1>0, <1>2, <1>9 DEF ApplyRule, Return, Request, Changing
<1>10. CASE ListRules(c)
  BY <1>0, <1>10 DEF ListRules, history, Request, Changing
<1>11. CASE RenewSnapshot(c)
  BY <1>0, <1>2, <1>11 DEF RenewSnapshot, Return
<1>12. CASE ReadSnapshot(c)
  BY <1>0, <1>12 DEF ReadSnapshot, Request, Changing
<1>13. CASE LoadSnapshot(c)
  BY <1>0, <1>2, <1>13 DEF LoadSnapshot, Return, history, Request, Changing
<1> QED
  BY <1>3, <1>4, <1>5, <1>6, <1>7, <1>8, <1>9, <1>10, <1>11, <1>12, <1>13 DEF Handle

(* A request that overlaps no other for its rule leaves engine and database *)
(* alike, or is the one that will.                                          *)
LEMMA AloneInductive ==
  ASSUME Types, RequestInv, AloneInv, NEW c \in Clients, Handle(c)
  PROVE  AloneInv'
<1> SUFFICES ASSUME NEW r \in Rules, r \notin raced'
             PROVE  Alone(r)'
  BY DEF AloneInv
<1>0. /\ request \in [Clients -> Request] /\ request[c] \in Request
      /\ store \in [Rules -> Values] /\ rules \in [Rules -> Values]
      /\ \A d \in Clients \ {c} : request'[d] = request[d]
      /\ Alone(r)
  BY HandleIsLocal DEF Types, EngineTypeOK, AloneInv
<1>1. ASSUME NEW q \in Rules, NEW op \in Changing, NEW at \in {"write", "get"}, Begin(c, op, q, at),
             at = "write" => op = "create"
      PROVE  Alone(r)'
  <2>1. request'[c].op = op /\ request'[c].rule = q /\ request'[c].at = at
    BY <1>0, <1>1 DEF Begin, Idle
  <2>2. rules' = rules /\ store' = store /\ request[c].op = "none"
    BY <1>1 DEF Begin, engineVars, database
  <2>3. c \notin Busy(r)
    BY <2>2 DEF Busy
  <2>4. CASE q = r
    <3>1. Busy(r) = {}
      BY <1>1, <2>4 DEF Begin
    <3>2. Busy(r)' = {c}
      BY <1>0, <1>1, <2>1, <2>4, <3>1 DEF Busy, Changing
    <3> QED
      BY <1>0, <1>1, <2>1, <2>2, <3>1, <3>2 DEF Alone
  <2>5. CASE q # r
    <3>1. Busy(r)' = Busy(r)
      BY <1>0, <2>1, <2>2, <2>3, <2>5 DEF Busy
    <3> QED
      BY <1>0, <2>2, <2>3, <3>1 DEF Alone, Busy
  <2> QED
    BY <2>4, <2>5
<1>2. ASSUME NEW q \in Rules, Create(c, q) \/ Update(c, q) \/ Delete(c, q) PROVE Alone(r)'
  BY <1>1, <1>2 DEF Create, Update, Delete, Changing
<1>3. CASE GetRule(c)
  <2>1. /\ request'[c].op = request[c].op /\ request'[c].rule = request[c].rule
        /\ request'[c].at = "write" /\ request'[c].value = store[request[c].rule]
    BY <1>0, <1>3 DEF GetRule
  <2>2. rules' = rules /\ store' = store /\ Busy(r)' = Busy(r) /\ request[c].at = "get"
    BY <1>0, <1>3, <2>1 DEF GetRule, At, engineVars, database, Busy
  <2> QED
    BY <1>0, <2>1, <2>2 DEF Alone, Busy
<1>4. CASE UpdateMisses(c) \/ RequestFails(c)
  <2>1. request'[c].op = "none" /\ request[c].at # "apply"
    BY <1>0, <1>4 DEF UpdateMisses, RequestFails, Return, Idle, At
  <2>2. rules' = rules /\ store' = store /\ Busy(r)' = Busy(r) \ {c}
    BY <1>0, <1>4, <2>1 DEF UpdateMisses, RequestFails, engineVars, database, Busy
  <2> QED
    BY <1>0, <2>1, <2>2 DEF Alone, Busy
<1>5. CASE WriteRule(c)
  <2>1. /\ request'[c].op = request[c].op /\ request'[c].rule = request[c].rule
        /\ request'[c].at = "apply" /\ request[c].at = "write" /\ rules' = rules
        /\ request[c].op \in {"create", "update"} /\ request[c].rule \in Rules
        /\ Busy(r)' = Busy(r)
    BY <1>0, <1>5 DEF WriteRule, Write, At, engineVars, Busy, RequestInv, Changing
  <2>2. CASE request[c].rule = r
    <3>1. c \in Busy(r)
      BY <2>1, <2>2 DEF Busy
    <3>2. request[c].op = "update" => store[r] # "absent"
      BY <1>0, <1>5, <2>1, <3>1 DEF WriteRule, At, Alone
    <3>3. store'[r] = request'[c].value
      BY <1>0, <1>5, <2>1, <2>2, <3>2 DEF WriteRule, Write
    <3> QED
      BY <1>0, <2>1, <3>1, <3>3 DEF Alone
  <2>3. CASE request[c].rule # r
    <3>1. store'[r] = store[r] /\ c \notin Busy(r)
      BY <1>0, <1>5, <2>1, <2>3 DEF WriteRule, Write, Busy
    <3> QED
      BY <1>0, <2>1, <3>1 DEF Alone, Busy
  <2> QED
    BY <2>2, <2>3
<1>6. CASE DeleteRow(c)
  <2>0. IF store[request[c].rule] = "absent" THEN request' = [request EXCEPT ![c] = Idle]
        ELSE request' = [request EXCEPT ![c].at = "apply"]
    BY <1>6 DEF DeleteRow, Return, GoTo
  <2>1. /\ request[c].op = "delete" /\ request[c].at = "write" /\ rules' = rules
        /\ request[c].rule \in Rules
        /\ store' = [store EXCEPT ![request[c].rule] = "absent"]
    BY <1>0, <1>6 DEF DeleteRow, Write, At, engineVars, RequestInv, Changing
  <2>2. CASE request[c].rule # r
    <3>1. request'[c].rule = request[c].rule \/ request'[c].op = "none"
      BY <1>0, <2>0 DEF Idle, Request
    <3>2. store'[r] = store[r] /\ c \notin Busy(r) /\ Busy(r)' = Busy(r)
      BY <1>0, <2>1, <2>2, <3>1 DEF Busy
    <3> QED
      BY <1>0, <2>1, <3>2 DEF Alone, Busy
  <2>3. CASE request[c].rule = r /\ store[r] = "absent"
    <3>1. request'[c].op = "none" /\ store'[r] = "absent" /\ Busy(r) = {c}
      BY <1>0, <1>6, <2>1, <2>3 DEF DeleteRow, Return, Idle, Busy, Alone
    <3>2. Busy(r)' = {}
      BY <1>0, <3>1 DEF Busy
    <3> QED
      BY <1>0, <2>1, <2>3, <3>1, <3>2 DEF Alone
  <2>4. CASE request[c].rule = r /\ store[r] # "absent"
    <3>1. /\ request'[c].op = "delete" /\ request'[c].at = "apply"
          /\ request'[c].rule = request[c].rule
      BY <1>0, <2>0, <2>1, <2>4 DEF Request
    <3>2. Busy(r) = {c} /\ Busy(r)' = {c} /\ store'[r] = "absent"
      BY <1>0, <2>1, <2>4, <3>1 DEF Busy, Alone
    <3> QED
      BY <1>0, <3>1, <3>2 DEF Alone
  <2> QED
    BY <2>2, <2>3, <2>4
<1>7. CASE ApplyRule(c)
  <2>1. /\ request[c].at = "apply" /\ request[c].op \in Changing /\ request[c].rule \in Rules
        /\ store' = store
    BY <1>0, <1>7 DEF ApplyRule, database, RequestInv, Request, Changing
  <2>2. \/ request'[c].op = "none"
        \/ /\ request'[c].op = request[c].op /\ request'[c].rule = request[c].rule
           /\ request'[c].at = "list"
    <3>1. \/ request' = [request EXCEPT ![c] = Idle]
          \/ request' = [request EXCEPT ![c].at = "list", ![c].seen = snapshot]
      BY <1>7 DEF ApplyRule, Return
    <3> QED
      BY <1>0, <3>1 DEF Idle, Request
  <2>3. Busy(r)' \subseteq Busy(r) /\ Busy(r) \ {c} \subseteq Busy(r)'
    BY <1>0, <2>1, <2>2 DEF Busy, Changing
  <2>4. CASE request[c].rule = r
    <3>1. Busy(r) = {c}
      BY <1>0, <2>1, <2>4 DEF Busy, Alone, Changing
    <3>2. rules'[r] = store[r]
      BY <1>0, <1>7, <2>1, <2>4, <3>1 DEF ApplyRule, AfterDelete, DeleteRule, Upsert, Alone
    <3> QED
      BY <2>1, <2>2, <2>3, <3>1, <3>2 DEF Alone, Busy
  <2>5. CASE request[c].rule # r
    <3>1. rules'[r] = rules[r] /\ c \notin Busy(r)
      BY <1>0, <1>7, <2>1, <2>5 DEF ApplyRule, AfterDelete, DeleteRule, Upsert, Busy
    <3> QED
      BY <1>0, <2>1, <2>3, <3>1 DEF Alone, Busy
  <2> QED
    BY <2>4, <2>5
<1>8. ASSUME store' = store, rules' = rules, request[c].at \notin {"write", "apply"},
             request'[c].at \notin {"write", "apply"}, Busy(r)' = Busy(r) \/ Busy(r)' = Busy(r) \ {c}
      PROVE  Alone(r)'
  BY <1>0, <1>8 DEF Alone, Busy
<1>9. CASE ListRules(c) \/ RenewSnapshot(c) \/ ReadSnapshot(c) \/ LoadSnapshot(c)
  <2>1. CASE ListRules(c)
    BY <1>0, <1>8, <2>1 DEF ListRules, engineVars, database, Busy
  <2>2. CASE RenewSnapshot(c)
    BY <1>0, <1>8, <2>2 DEF RenewSnapshot, Return, Idle, engineVars, database, Busy
  <2>3. CASE ReadSnapshot(c)
    BY <1>0, <1>8, <2>3 DEF ReadSnapshot, engineVars, database, Busy, RequestInv
  <2>4. CASE LoadSnapshot(c)
    <3>1. \/ request' = [request EXCEPT ![c] = Idle]
          \/ request' = [request EXCEPT ![c].at = "renew",
                                        ![c].seen = [frame |-> stored, rules |-> OfStream(store)]]
      BY <2>4 DEF LoadSnapshot, Return
    <3>2. /\ request'[c].at \in {"idle", "renew"}
          /\ \/ request'[c].op = "none"
             \/ request'[c].op = request[c].op /\ request'[c].rule = request[c].rule
      BY <1>0, <3>1 DEF Idle, Request
    <3>3. CASE request'[c].op = "none"
      <4>1. Busy(r)' = Busy(r) \ {c}
        BY <1>0, <3>3 DEF Busy
      <4> QED
        BY <1>8, <2>4, <3>2, <4>1 DEF LoadSnapshot, engineVars, database
    <3>4. CASE request'[c].op = request[c].op /\ request'[c].rule = request[c].rule
      <4>1. Busy(r)' = Busy(r)
        BY <1>0, <3>4 DEF Busy
      <4> QED
        BY <1>8, <2>4, <3>2, <4>1 DEF LoadSnapshot, engineVars, database
    <3> QED
      BY <3>2, <3>3, <3>4
  <2> QED
    BY <1>9, <2>1, <2>2, <2>3, <2>4
<1> QED
  BY <1>2, <1>3, <1>4, <1>5, <1>6, <1>7, <1>9 DEF Handle

(* What a step of a request may do to the two sides and to the request.     *)
Keeps(c) == request'[c].op = request[c].op /\ request'[c].rule = request[c].rule

Begins(c) ==
  /\ request[c].op = "none" /\ request'[c].op \in Changing /\ request'[c].rule \in Rules
  /\ request'[c].at = IF request'[c].op = "create" THEN "write" ELSE "get"
  /\ request'[c].op = "create" => request'[c].rule \notin ids
  /\ ids' = ids \cup {request'[c].rule} /\ store' = store /\ rules' = rules

Writes(c) ==
  /\ request[c].op \in {"create", "update"} /\ request[c].rule \in Rules \cap ids
  /\ request[c].at = "write" /\ request'[c].at = "apply" /\ Keeps(c)
  /\ request'[c].value # "absent"
  /\ store' = [store EXCEPT ![request[c].rule] =
                 IF request[c].op = "update" /\ store[request[c].rule] = "absent"
                 THEN "absent" ELSE request'[c].value]
  /\ ids' = ids /\ rules' = rules

Deletes(c) ==
  /\ request[c].op = "delete" /\ request[c].rule \in Rules \cap ids
  /\ IF store[request[c].rule] = "absent" THEN request'[c].op = "none"
     ELSE Keeps(c) /\ request'[c].at = "apply"
  /\ store' = [store EXCEPT ![request[c].rule] = "absent"]
  /\ ids' = ids /\ rules' = rules

Applies(c) ==
  /\ request[c].op \in Changing /\ request[c].rule \in Rules \cap ids
  /\ request[c].at = "apply" /\ (request'[c].op = "none" \/ (Keeps(c) /\ request'[c].at = "list"))
  /\ rules' = [rules EXCEPT ![request[c].rule] =
                 IF request[c].op = "delete" THEN "absent" ELSE request[c].value]
  /\ ids' = ids /\ store' = store

Passes(c) ==
  /\ request[c].at # "apply" /\ (request[c].at = "write" => request[c].op = "update")
  /\ \/ request'[c].op \in {"none", "read"}
     \/ Keeps(c) /\ request'[c].at \in {"write", "renew"}
          /\ (request'[c].at = "write" => request[c].op # "create")
  /\ ids' = ids /\ store' = store /\ rules' = rules

LEMMA HandleCases ==
  ASSUME Types, RequestInv, NEW c \in Clients, Handle(c)
  PROVE  Begins(c) \/ Writes(c) \/ Deletes(c) \/ Applies(c) \/ Passes(c)
<1>0. /\ request \in [Clients -> Request] /\ request[c] \in Request
      /\ store \in [Rules -> Values] /\ rules \in [Rules -> Values]
      /\ request[c].op \in Changing => request[c].rule \in Rules \cap ids
      /\ request[c].op \in {"none", "read"} => request[c].at \in {"idle", "load", "renew"}
      /\ request[c].op = "create" => request[c].at # "get"
  BY DEF Types, EngineTypeOK, RequestInv
<1>1. ASSUME NEW r \in Rules, Create(c, r) \/ Update(c, r) \/ Delete(c, r) PROVE Begins(c)
  <2>1. CASE Create(c, r)
    BY <1>0, <2>1 DEF Create, Begin, Begins, Idle, Changing, engineVars, database
  <2>2. CASE Update(c, r)
    BY <1>0, <2>2 DEF Update, Begin, Begins, Idle, Changing, engineVars, database
  <2>3. CASE Delete(c, r)
    BY <1>0, <2>3 DEF Delete, Begin, Begins, Idle, Changing, engineVars, database
  <2> QED
    BY <1>1, <2>1, <2>2, <2>3
<1>2. CASE GetRule(c)
  BY <1>0, <1>2 DEF GetRule, At, Passes, Keeps, Request, history, engineVars, database
<1>3. CASE UpdateMisses(c) \/ RequestFails(c)
  BY <1>0, <1>3 DEF UpdateMisses, RequestFails, At, Return, Idle, Passes, history, engineVars,
                    database
<1>4. CASE WriteRule(c)
  <2>1. PICK v \in Settings :
          /\ Write(c, request[c].rule, IF request[c].op = "update"
                                          /\ store[request[c].rule] = "absent"
                                       THEN "absent" ELSE v)
          /\ request' = [request EXCEPT ![c].at = "apply", ![c].value = v]
    BY <1>4 DEF WriteRule
  <2>2. request'[c].value = v /\ request'[c].at = "apply" /\ Keeps(c)
    BY <1>0, <2>1 DEF Keeps, Request
  <2> QED
    BY <1>0, <1>4, <2>1, <2>2 DEF WriteRule, Write, Settings, At, Writes, Changing, history,
                                   engineVars
<1>5. CASE DeleteRow(c)
  <2>1. IF store[request[c].rule] = "absent" THEN request' = [request EXCEPT ![c] = Idle]
        ELSE request' = [request EXCEPT ![c].at = "apply"]
    BY <1>5 DEF DeleteRow, Return, GoTo
  <2>2. IF store[request[c].rule] = "absent" THEN request'[c].op = "none"
        ELSE Keeps(c) /\ request'[c].at = "apply"
    BY <1>0, <2>1 DEF Keeps, Request, Idle
  <2> QED
    BY <1>0, <1>5, <2>2 DEF DeleteRow, Write, At, Deletes, Changing, history, engineVars
<1>6. CASE ApplyRule(c)
  <2>1. \/ request' = [request EXCEPT ![c] = Idle]
        \/ request' = [request EXCEPT ![c].at = "list", ![c].seen = snapshot]
    BY <1>6 DEF ApplyRule, Return
  <2>2. request'[c].op = "none" \/ (Keeps(c) /\ request'[c].at = "list")
    BY <1>0, <2>1 DEF Keeps, Request, Idle
  <2>3. request[c].op \in Changing
    BY <1>0, <1>6 DEF ApplyRule, Request
  <2> QED
    BY <1>0, <1>6, <2>2, <2>3 DEF ApplyRule, AfterDelete, DeleteRule, Upsert, Applies, database
<1>7. CASE ListRules(c)
  BY <1>0, <1>7 DEF ListRules, Passes, Keeps, Request, history, engineVars, database
<1>8. CASE RenewSnapshot(c)
  BY <1>0, <1>8 DEF RenewSnapshot, Return, Idle, Passes, history, engineVars, database
<1>9. CASE ReadSnapshot(c)
  BY <1>0, <1>9 DEF ReadSnapshot, Passes, Request, engineVars, database
<1>10. CASE LoadSnapshot(c)
  <2>1. \/ request' = [request EXCEPT ![c] = Idle]
        \/ request' = [request EXCEPT ![c].at = "renew",
                                      ![c].seen = [frame |-> stored, rules |-> OfStream(store)]]
    BY <1>10 DEF LoadSnapshot, Return
  <2>2. request'[c].op = "none" \/ (Keeps(c) /\ request'[c].at = "renew")
    BY <1>0, <2>1 DEF Keeps, Request, Idle
  <2> QED
    BY <1>10, <2>2 DEF LoadSnapshot, Passes, history, engineVars, database
<1> QED
  BY <1>1, <1>2, <1>3, <1>4, <1>5, <1>6, <1>7, <1>8, <1>9, <1>10 DEF Handle

(* No rule is created twice, and none is stored again once it was deleted.  *)
LEMMA CreatedInductive ==
  ASSUME Types, RequestInv, CreatedInv, NEW c \in Clients, Handle(c)
  PROVE  CreatedInv'
<1>0. /\ request \in [Clients -> Request]
      /\ store \in [Rules -> Values]
      /\ \A d \in Clients \ {c} : request'[d] = request[d]
      /\ \A d \in Clients : request[d].op \in Changing => request[d].rule \in Rules \cap ids
      /\ CreatedOnce /\ (\A r \in Rules : Fresh(r)) /\ (\A d \in Clients : Gone(d))
  BY HandleIsLocal DEF Types, RequestInv, CreatedInv
<1>1. CASE Begins(c)
  <2>1. CreatedOnce'
    BY <1>0, <1>1 DEF Begins, CreatedOnce, Changing
  <2>2. ASSUME NEW r \in Rules PROVE Fresh(r)'
    BY <1>0, <1>1 DEF Begins, Fresh, Busy, Creating, Changing
  <2>3. ASSUME NEW d \in Clients PROVE Gone(d)'
    BY <1>0, <1>1 DEF Begins, Gone, Creating, Changing
  <2> QED
    BY <2>1, <2>2, <2>3 DEF CreatedInv
<1>2. CASE Writes(c)
  <2>1. CreatedOnce'
    BY <1>0, <1>2 DEF Writes, Keeps, CreatedOnce
  <2>2. ASSUME NEW r \in Rules PROVE Fresh(r)'
    BY <1>0, <1>2 DEF Writes, Keeps, Fresh, Busy, Creating, Changing, CreatedOnce
  <2>3. ASSUME NEW d \in Clients PROVE Gone(d)'
    BY <1>0, <1>2 DEF Writes, Keeps, Gone, Creating, Changing
  <2> QED
    BY <2>1, <2>2, <2>3 DEF CreatedInv
<1>3. CASE Deletes(c)
  <2>1. CreatedOnce'
    BY <1>0, <1>3 DEF Deletes, Keeps, CreatedOnce
  <2>2. ASSUME NEW r \in Rules PROVE Fresh(r)'
    BY <1>0, <1>3 DEF Deletes, Keeps, Fresh, Busy, Creating, Changing
  <2>3. ASSUME NEW d \in Clients PROVE Gone(d)'
    BY <1>0, <1>3 DEF Deletes, Keeps, Gone, Fresh, Creating, Changing
  <2> QED
    BY <2>1, <2>2, <2>3 DEF CreatedInv
<1>4. CASE Applies(c)
  <2>1. CreatedOnce'
    BY <1>0, <1>4 DEF Applies, Keeps, CreatedOnce
  <2>2. ASSUME NEW r \in Rules PROVE Fresh(r)'
    BY <1>0, <1>4 DEF Applies, Keeps, Fresh, Busy, Creating, Changing
  <2>3. ASSUME NEW d \in Clients PROVE Gone(d)'
    BY <1>0, <1>4 DEF Applies, Keeps, Gone, Creating, Changing
  <2> QED
    BY <2>1, <2>2, <2>3 DEF CreatedInv
<1>5. CASE Passes(c)
  <2>1. CreatedOnce'
    BY <1>0, <1>5 DEF Passes, Keeps, CreatedOnce
  <2>2. ASSUME NEW r \in Rules PROVE Fresh(r)'
    BY <1>0, <1>5 DEF Passes, Keeps, Fresh, Busy, Creating, Changing
  <2>3. ASSUME NEW d \in Clients PROVE Gone(d)'
    BY <1>0, <1>5 DEF Passes, Keeps, Gone, Creating, Changing
  <2> QED
    BY <2>1, <2>2, <2>3 DEF CreatedInv
<1> QED
  BY <1>1, <1>2, <1>3, <1>4, <1>5, HandleCases

(* A stored rule is in the engine, or about to be.                          *)
LEMMA PresentInductive ==
  ASSUME Types, RequestInv, CreatedInv, PresentInv, NEW c \in Clients, Handle(c)
  PROVE  PresentInv'
<1> SUFFICES ASSUME NEW r \in Rules, store'[r] # "absent"
             PROVE  rules'[r] # "absent" \/ Creating(r, "apply")' # {}
  BY DEF PresentInv
<1>0. /\ request \in [Clients -> Request]
      /\ store \in [Rules -> Values] /\ rules \in [Rules -> Values]
      /\ \A d \in Clients \ {c} : request'[d] = request[d]
      /\ store[r] # "absent" => rules[r] # "absent" \/ Creating(r, "apply") # {}
      /\ Gone(c)
      /\ request[c].at = "apply" /\ request[c].op # "delete" => request[c].value # "absent"
  BY HandleIsLocal DEF Types, EngineTypeOK, RequestInv, PresentInv, CreatedInv
<1>1. CASE Begins(c) \/ Passes(c) \/ Deletes(c)
  <2>1. store[r] # "absent" /\ rules' = rules
    BY <1>0, <1>1 DEF Begins, Passes, Deletes
  <2>2. ASSUME NEW d \in Creating(r, "apply") PROVE d \in Creating(r, "apply")'
    BY <1>0, <1>1, <2>2 DEF Begins, Passes, Deletes, Creating
  <2> QED
    BY <1>0, <2>1, <2>2
<1>2. CASE Writes(c)
  BY <1>0, <1>2 DEF Writes, Keeps, Creating
<1>3. CASE Applies(c)
  <2>1. CASE request[c].rule = r
    BY <1>0, <1>3, <2>1 DEF Applies, Gone, Changing
  <2>2. CASE request[c].rule # r
    BY <1>0, <1>3, <2>2 DEF Applies, Creating
  <2> QED
    BY <2>1, <2>2
<1> QED
  BY <1>1, <1>2, <1>3, HandleCases

(* Every action keeps the types.                                            *)
LEMMA TypesInductive ==
  /\ Init => Types
  /\ Types /\ RequestInv /\ [Next]_vars => Types'
<1>1. ASSUME Init PROVE Types
  <2>1. EngineTypeOK
    BY <1>1 DEF Init, EngineInit, EngineTypeOK, Values
  <2>2. request \in [Clients -> Request] /\ result \in Result /\ store \in [Rules -> Values]
    BY <1>1, IdleTypes DEF Init
  <2>3. queue \in Seq(FrameRecord) /\ snapshot \in Shown
    BY <1>1, IdleTypes DEF Init, Shown
  <2> QED
    BY <1>1, <2>1, <2>2, <2>3, IdleTypes DEF Init, Nothing, Types
<1>2. ASSUME Types, RequestInv, [Next]_vars PROVE Types'
  <2> USE <1>2 DEF Types
  <2>1. ASSUME NEW f \in Frames, HandleEvent(f) PROVE Types'
    <3>1. MakeRoom \in Seq(FrameRecord)
      <4>1. CASE Len(queue) < QueueCapacity
        BY <4>1 DEF MakeRoom
      <4>2. CASE ~ Len(queue) < QueueCapacity
        <5>1. queue # << >>
          BY <4>2, ServiceAssumption
        <5> QED
          BY <4>2, <5>1 DEF MakeRoom
      <4> QED
        BY <4>1, <4>2
    <3>2. [frame |-> received + 1, tracks |-> f] \in FrameRecord /\ received' \in Numbers
      BY <2>1, ServiceAssumption DEF HandleEvent, FrameRecord, Numbers
    <3>3. queue' \in Seq(FrameRecord)
      BY <2>1, <3>1, <3>2 DEF HandleEvent, Enqueued
    <3> QED
      BY <2>1, <3>2, <3>3 DEF HandleEvent, EngineTypeOK, engineVars, database, history
  <2>2. ASSUME Compute \/ ComputeFails
        PROVE  EngineTypeOK' /\ queue' \in Seq(FrameRecord)
    <3>1. PICK judged \in [Rules -> SUBSET Tracks], long \in [Rules -> SUBSET Tracks] :
            Judge(Head(queue).tracks, judged, long)
      BY <2>2, FrameIsJudged
    <3>2. TakeFrame /\ (active' = active \/ active' = DOMAIN Head(queue).tracks)
      BY <2>2 DEF Compute, ProcessFrame, ComputeFails, BreakOff
    <3> QED
      BY <3>1, <3>2, JudgingKeepsTypes, TakenIsFrame DEF EngineTypeOK
  <2>3. CASE Compute
    <3> DEFINE f == Head(queue).tracks
    <3>1. PICK long \in [Rules -> SUBSET Tracks] :
            /\ Judge(f, Whole(f), long)
            /\ result' = [frame |-> Head(queue).frame, entered |-> Entered(f, Whole(f)),
                          left |-> Left(f, Whole(f)), stayed |-> Stayed(f, Whole(f), long),
                          rules |-> OfStream(rules)]
      BY <2>3 DEF Compute, ProcessFrame
    <3>2. Whole(f) \in [Rules -> SUBSET Tracks] /\ Head(queue).frame \in Numbers
      BY <2>3, TakenIsFrame DEF Compute
    <3> HIDE DEF f
    <3>3. result' \in Result
      BY <3>1, <3>2, JudgingKeepsTypes, ListedRules DEF Result, EngineTypeOK
    <3> QED
      BY <2>2, <2>3, <3>3 DEF Compute, database, history
  <2>4. CASE ComputeFails
    BY <2>2, <2>4 DEF ComputeFails, database, history
  <2>5. CASE Persist
    <3>1. Inserted \in [Rules -> [Tracks -> {"out", "in", "stayed"}]]
      BY DEF Inserted
    <3>2. stored' \in Numbers
      BY <2>5 DEF Persist, Result
    <3> QED
      BY <2>5, <3>1, <3>2 DEF Persist, engineVars, history, EngineTypeOK
  <2>6. CASE PersistFails
    <3>1. stored' \in Numbers
      BY <2>6 DEF PersistFails, Result
    <3>2. persisted' \in [Rules -> [Tracks -> {"out", "in", "stayed"}]]
      BY <2>6 DEF PersistFails, Inserted
    <3> QED
      BY <2>6, <3>1, <3>2, IdleTypes DEF PersistFails, engineVars, history, EngineTypeOK
  <2>7. CASE Publish
    <3>1. snapshot' \in Shown
      BY <2>7 DEF Publish, Result, Shown
    <3> QED
      BY <2>7, <3>1, IdleTypes DEF Publish, engineVars, database, history, EngineTypeOK
  <2>8. CASE EndBroadcast
    BY <2>8 DEF EndBroadcast, engineVars, database, history, EngineTypeOK
  <2>9. CASE WorkerFails
    BY <2>9 DEF WorkerFails, engineVars, database, history, EngineTypeOK
  <2>10. ASSUME NEW c \in Clients, Handle(c) PROVE Types'
    BY <2>10, HandleKeepsTypes
  <2>11. CASE UNCHANGED vars
    BY <2>11 DEF vars, engineVars, database, frames, history, EngineTypeOK
  <2> QED
    BY <2>1, <2>3, <2>4, <2>5, <2>6, <2>7, <2>8, <2>9, <2>10, <2>11 DEF Next
<1> QED
  BY <1>1, <1>2

(* A stay is reported of a track that is inside.                            *)
LEMMA ReportedInside ==
  ASSUME NEW f, NEW judged, NEW long, Judge(f, judged, long),
         NEW r \in Rules, emitted[r] \subseteq inside[r]
  PROVE  emitted'[r] \subseteq inside'[r]
<1> DEFINE in == InsideAfter(f, judged)[r]
           stay == Stayed(f, judged, long)[r]
<1>1. /\ inside'[r] = in
      /\ Entered(f, judged)[r] = in \ inside[r] /\ Left(f, judged)[r] = inside[r] \ in
  BY DEF Judge, Entered, Left, InsideAfter
<1>2. emitted'[r] = (emitted[r] \ ((in \ inside[r]) \cup (inside[r] \ in))) \cup stay
  BY <1>1 DEF Judge, EmittedAfter
<1>3. stay \subseteq inside[r] \cap in
  BY DEF Stayed, InsideAfter
<1> HIDE DEF in, stay
<1> QED
  BY <1>1, <1>2, <1>3

(* A frame changes what the database is to say by the events of its result. *)
LEMMA FrameKeepsEvents ==
  ASSUME NEW f, NEW judged, NEW long, Judge(f, judged, long),
         \A q \in Rules : emitted[q] \subseteq inside[q],
         NEW r \in Rules, NEW t \in Tracks, persisted[r][t] = Says(r, t)
  PROVE  /\ Says(r, t)' = CASE t \in Entered(f, judged)[r] -> "in"
                            [] t \in Left(f, judged)[r] -> "out"
                            [] t \in Stayed(f, judged, long)[r] -> "stayed"
                            [] OTHER -> persisted[r][t]
         /\ t \in Entered(f, judged)[r] => persisted[r][t] = "out"
         /\ t \in Stayed(f, judged, long)[r] => persisted[r][t] = "in"
         /\ t \in Left(f, judged)[r] => persisted[r][t] # "out"
<1> DEFINE in == InsideAfter(f, judged)[r]
           stay == Stayed(f, judged, long)[r]
<1>1. /\ inside'[r] = in
      /\ Entered(f, judged)[r] = in \ inside[r] /\ Left(f, judged)[r] = inside[r] \ in
  BY DEF Judge, Entered, Left, InsideAfter
<1>2. emitted'[r] = (emitted[r] \ ((in \ inside[r]) \cup (inside[r] \ in))) \cup stay
  BY <1>1 DEF Judge, EmittedAfter
<1>3. stay \subseteq inside[r] \cap in /\ stay \cap emitted[r] = {}
  BY DEF Stayed, InsideAfter
<1>4. emitted[r] \subseteq inside[r]
  OBVIOUS
<1>5. emitted'[r] \subseteq inside'[r]
  BY <1>4, ReportedInside
<1> HIDE DEF in, stay
<1>6. t \in Entered(f, judged)[r] => persisted[r][t] = "out"
  BY <1>1, <1>4 DEF Says
<1>7. t \in stay => persisted[r][t] = "in"
  BY <1>3 DEF Says
<1>8. t \in Left(f, judged)[r] => persisted[r][t] # "out"
  BY <1>1 DEF Says
<1>9. CASE t \in Entered(f, judged)[r]
  BY <1>1, <1>2, <1>3, <1>4, <1>5, <1>6, <1>7, <1>8, <1>9 DEF Says, stay
<1>10. CASE t \in Left(f, judged)[r]
  BY <1>1, <1>2, <1>3, <1>4, <1>5, <1>6, <1>7, <1>8, <1>10 DEF Says, stay
<1>11. CASE t \in stay
  BY <1>1, <1>2, <1>3, <1>4, <1>5, <1>6, <1>7, <1>8, <1>11 DEF Says, stay
<1>12. CASE t \notin Entered(f, judged)[r] /\ t \notin Left(f, judged)[r] /\ t \notin stay
  BY <1>1, <1>2, <1>3, <1>4, <1>5, <1>6, <1>7, <1>8, <1>12 DEF Says, stay
<1> QED
  BY <1>9, <1>10, <1>11, <1>12

(* The events that are stored, and those that are about to be, follow the   *)
(* engine.                                                                  *)
LEMMA EventsInductive ==
  ASSUME Types, EventsInv, [Next]_vars
  PROVE  EventsInv'
<1>1. ASSUME UNCHANGED <<inside, emitted, persisted, worker, result>> PROVE EventsInv'
  BY <1>1 DEF EventsInv, Says, Inserted
<1>2. ASSUME Compute \/ ComputeFails, NEW r \in Rules PROVE emitted'[r] \subseteq inside'[r]
  BY <1>2, FrameIsJudged, ReportedInside DEF EventsInv
<1>3. CASE Compute
  <2> DEFINE f == Head(queue).tracks
             judged == Whole(f)
  <2>1. PICK long \in [Rules -> SUBSET Tracks] :
          /\ Judge(f, judged, long)
          /\ result' = [frame |-> Head(queue).frame, entered |-> Entered(f, judged),
                        left |-> Left(f, judged), stayed |-> Stayed(f, judged, long),
                        rules |-> OfStream(rules)]
    BY <1>3 DEF Compute, ProcessFrame
  <2>2. worker = "idle" /\ worker' = "persisting" /\ persisted' = persisted
    BY <1>3 DEF Compute, TakeFrame, database
  <2>3. /\ result'.entered = Entered(f, judged) /\ result'.left = Left(f, judged)
        /\ result'.stayed = Stayed(f, judged, long)
    BY <2>1
  <2> HIDE DEF f, judged
  <2>4. ASSUME NEW r \in Rules, NEW t \in Tracks
        PROVE  /\ Inserted[r][t]' = Says(r, t)'
               /\ t \in result'.entered[r] => persisted'[r][t] = "out"
               /\ t \in result'.stayed[r] => persisted'[r][t] = "in"
               /\ t \in result'.left[r] => persisted'[r][t] # "out"
    <3>1. persisted[r][t] = Says(r, t) /\ \A q \in Rules : emitted[q] \subseteq inside[q]
      BY <2>2 DEF EventsInv
    <3>2. /\ Says(r, t)' = CASE t \in Entered(f, judged)[r] -> "in"
                             [] t \in Left(f, judged)[r] -> "out"
                             [] t \in Stayed(f, judged, long)[r] -> "stayed"
                             [] OTHER -> persisted[r][t]
          /\ t \in Entered(f, judged)[r] => persisted[r][t] = "out"
          /\ t \in Stayed(f, judged, long)[r] => persisted[r][t] = "in"
          /\ t \in Left(f, judged)[r] => persisted[r][t] # "out"
      BY <2>1, <3>1, FrameKeepsEvents
    <3>3. Inserted[r][t]' = CASE t \in Entered(f, judged)[r] -> "in"
                              [] t \in Left(f, judged)[r] -> "out"
                              [] t \in Stayed(f, judged, long)[r] -> "stayed"
                              [] OTHER -> persisted[r][t]
      BY <2>2, <2>3 DEF Inserted
    <3> QED
      BY <2>2, <2>3, <3>2, <3>3
  <2> QED
    BY <1>2, <1>3, <2>2, <2>4 DEF EventsInv
<1>4. CASE ComputeFails
  BY <1>2, <1>4 DEF ComputeFails, EventsInv
<1>5. CASE Persist
  <2>1. /\ worker = "persisting" /\ worker' = "persisted" /\ persisted' = Inserted
        /\ UNCHANGED <<inside, emitted>>
    BY <1>5 DEF Persist, engineVars
  <2>2. ASSUME NEW r \in Rules, NEW t \in Tracks PROVE persisted'[r][t] = Says(r, t)'
    BY <2>1 DEF EventsInv, Says
  <2> QED
    BY <2>1, <2>2 DEF EventsInv
<1>6. CASE PersistFails \/ Publish \/ EndBroadcast \/ WorkerFails
  BY <1>6 DEF PersistFails, Publish, EndBroadcast, WorkerFails, EventsInv, engineVars, database,
              Says
<1>7. ASSUME NEW f \in Frames, HandleEvent(f) PROVE EventsInv'
  BY <1>1, <1>7 DEF HandleEvent, engineVars, database
<1>8. ASSUME NEW c \in Clients, Handle(c) PROVE EventsInv'
  <2>1. UNCHANGED <<inside, emitted, persisted, worker, result>>
    BY <1>8, HandleLeavesEvents
  <2> QED
    BY <1>1, <2>1
<1>9. CASE UNCHANGED vars
  BY <1>1, <1>9 DEF vars, engineVars, database, frames
<1> QED
  BY <1>3, <1>4, <1>5, <1>6, <1>7, <1>8, <1>9 DEF Next

(* No frame is lost uncounted, and the queue keeps its capacity.            *)
LEMMA QueueInductive ==
  ASSUME Types, QueueInv, [Next]_vars
  PROVE  QueueInv'
<1>1. ASSUME UNCHANGED <<queue, received, dropped, done>> PROVE QueueInv'
  BY <1>1 DEF QueueInv
<1>2. ASSUME NEW f \in Frames, HandleEvent(f) PROVE QueueInv'
  <2> DEFINE record == [frame |-> received + 1, tracks |-> f]
  <2>0. /\ queue \in Seq(FrameRecord) /\ record \in FrameRecord
        /\ received \in Nat /\ QueueCapacity \in Nat \ {0}
    BY <1>2, ServiceAssumption DEF HandleEvent, Types, Numbers, FrameRecord
  <2> HIDE DEF record
  <2>1. CASE Len(queue) < QueueCapacity
    <3>1. queue' = Append(queue, record)
      BY <1>2, <2>1 DEF HandleEvent, Enqueued, MakeRoom, record
    <3>2. Len(queue') = Len(queue) + 1
      BY <2>0, <3>1
    <3> QED
      BY <1>2, <2>0, <2>1, <3>2 DEF HandleEvent, QueueInv
  <2>2. CASE ~ Len(queue) < QueueCapacity
    <3>0. Len(queue) \in Nat /\ Len(queue) <= QueueCapacity
      BY <2>0 DEF QueueInv
    <3>1. Len(queue) = QueueCapacity /\ queue # << >>
      BY <2>0, <2>2, <3>0
    <3>2. queue' = queue \/ queue' = Append(Tail(queue), record)
      <4>1. MakeRoom = queue \/ MakeRoom = Tail(queue)
        BY DEF MakeRoom
      <4>2. Len(Tail(queue)) < QueueCapacity
        BY <2>0, <3>1
      <4>3. queue' = Enqueued(record)
        BY <1>2 DEF HandleEvent, record
      <4> QED
        BY <2>2, <4>1, <4>2, <4>3 DEF Enqueued
    <3>3. Len(queue') = Len(queue)
      BY <2>0, <3>1, <3>2
    <3> QED
      BY <1>2, <2>0, <2>2, <3>1, <3>3 DEF HandleEvent, QueueInv
  <2> QED
    BY <2>1, <2>2
<1>3. CASE Compute \/ ComputeFails
  <2>1. TakeFrame /\ received' = received /\ dropped' = dropped
    BY <1>3 DEF Compute, ComputeFails
  <2>2. Len(queue') = Len(queue) - 1 /\ Len(queue) \in Nat
    BY <2>1 DEF TakeFrame, Types
  <2> QED
    BY <2>1, <2>2, ServiceAssumption DEF TakeFrame, QueueInv
<1>4. CASE Persist \/ PersistFails \/ Publish \/ EndBroadcast \/ WorkerFails
  BY <1>1, <1>4 DEF Persist, PersistFails, Publish, EndBroadcast, WorkerFails
<1>5. ASSUME NEW c \in Clients, Handle(c) PROVE QueueInv'
  BY <1>1, <1>5, HandleLeavesEvents
<1>6. CASE UNCHANGED vars
  BY <1>1, <1>6 DEF vars, frames
<1> QED
  BY <1>2, <1>3, <1>4, <1>5, <1>6 DEF Next

(* Who is inside an area is there, or was inside when its rule ceased to be *)
(* on; a worker that dies in the middle of a frame is beyond that.          *)
LEMMA GhostInductive ==
  ASSUME Types, GhostInv, [Next]_vars
  PROVE  GhostInv'
<1>1. ASSUME UNCHANGED <<inside, active, rules, lapsed>>, worker = "dead" => worker' = "dead"
      PROVE  GhostInv'
  BY <1>1 DEF GhostInv
<1>2. CASE Compute \/ ComputeFails
  <2> DEFINE f == Head(queue).tracks
  <2>0. worker = "idle" /\ lapsed' = lapsed
    BY <1>2 DEF Compute, ComputeFails, TakeFrame, history
  <2>1. ASSUME NEW r \in Rules, rules'[r] # "on" PROVE inside'[r] \subseteq lapsed'[r]
    <3>1. PICK judged, long : Judge(f, judged, long)
      BY <1>2, FrameIsJudged
    <3> QED
      BY <2>0, <2>1, <3>1 DEF GhostInv, Judge, InsideAfter
  <2>2. ASSUME NEW r \in Rules, Compute PROVE inside'[r] \ active' \subseteq lapsed'[r]
    <3>1. active' = DOMAIN f /\ inside' = InsideAfter(f, Whole(f))
      BY <2>2 DEF Compute, ProcessFrame, Judge
    <3>2. Seen(f, Whole(f), r) = active \cup DOMAIN f /\ Within(f, Whole(f), r) \subseteq DOMAIN f
      BY DEF Seen, Within, Whole
    <3>3. inside'[r] \subseteq (inside[r] \ active) \cup DOMAIN f \/ rules[r] # "on"
      BY <3>1, <3>2 DEF InsideAfter
    <3>4. rules[r] # "on" => inside'[r] = inside[r]
      BY <3>1 DEF InsideAfter
    <3> QED
      BY <2>0, <3>1, <3>3, <3>4 DEF GhostInv
  <2>3. ComputeFails => worker' = "dead"
    BY DEF ComputeFails
  <2> QED
    BY <1>2, <2>1, <2>2, <2>3 DEF GhostInv
<1>3. CASE Persist \/ PersistFails \/ Publish \/ EndBroadcast \/ WorkerFails
  BY <1>1, <1>3 DEF Persist, PersistFails, Publish, EndBroadcast, WorkerFails, engineVars, history
<1>4. ASSUME NEW f \in Frames, HandleEvent(f) PROVE GhostInv'
  BY <1>1, <1>4 DEF HandleEvent, engineVars, history
<1>5. ASSUME NEW c \in Clients, Handle(c) PROVE GhostInv'
  <2>0. worker' = worker
    BY <1>5, HandleLeavesEvents
  <2>1. CASE ApplyRule(c)
    <3>1. inside' = inside /\ active' = active
      BY <2>1 DEF ApplyRule
    <3>2. ASSUME NEW r \in Rules
          PROVE  /\ lapsed[r] \subseteq lapsed'[r]
                 /\ rules'[r] # "on" => rules[r] # "on" \/ inside[r] \subseteq lapsed'[r]
      BY <2>1 DEF ApplyRule, AfterDelete, DeleteRule, Upsert, Types, EngineTypeOK
    <3> QED
      BY <2>0, <3>1, <3>2 DEF GhostInv
  <2>2. CASE ~ ApplyRule(c)
    <3>1. UNCHANGED <<inside, active, rules, lapsed>>
      BY <1>5, <2>2, OthersLeaveRules
    <3> QED
      BY <1>1, <2>0, <3>1
  <2> QED
    BY <2>1, <2>2
<1>6. CASE UNCHANGED vars
  BY <1>1, <1>6 DEF vars, engineVars, frames, history
<1> QED
  BY <1>2, <1>3, <1>4, <1>5, <1>6 DEF Next

-----------------------------------------------------------------------------
(* What the database and the engine do outside of the requests.             *)
LEMMA WorkerLeavesRequests ==
  ASSUME [Next]_vars, \A c \in Clients : ~ Handle(c)
  PROVE  UNCHANGED <<store, rules, request, ids, raced>>
<1>1. CASE Compute \/ ComputeFails
  BY <1>1 DEF Compute, ComputeFails, ProcessFrame, BreakOff, Judge, database, history
<1>2. CASE Persist \/ PersistFails \/ Publish \/ EndBroadcast \/ WorkerFails
  BY <1>2 DEF Persist, PersistFails, Publish, EndBroadcast, WorkerFails, engineVars, database,
              history
<1>3. ASSUME NEW f \in Frames, HandleEvent(f) PROVE UNCHANGED <<store, rules, request, ids, raced>>
  BY <1>3 DEF HandleEvent, engineVars, database, history
<1>4. CASE UNCHANGED vars
  BY <1>4 DEF vars, engineVars, database, history
<1> QED
  BY <1>1, <1>2, <1>3, <1>4 DEF Next

(* The invariant holds to begin with, and every step keeps it.              *)
LEMMA InvInductive ==
  /\ Init => Inv
  /\ Inv /\ [Next]_vars => Inv'
<1>1. ASSUME Init PROVE Inv
  <2>1. \A c \in Clients : request[c] = Idle
    BY <1>1 DEF Init
  <2>2. request = [c \in Clients |-> Idle] /\ Idle.op = "none" /\ Idle.at = "idle"
    BY <1>1 DEF Init, Idle
  <2>3. RequestInv
    BY <2>1, <2>2 DEF RequestInv, Changing
  <2>4. \A r \in Rules : Busy(r) = {} /\ store[r] = "absent" /\ rules[r] = "absent"
    BY <1>1, <2>1, <2>2 DEF Init, EngineInit, NoRules, Busy
  <2>5. AloneInv
    BY <2>4 DEF AloneInv, Alone
  <2>6. CreatedInv
    BY <2>1, <2>2, <2>4 DEF CreatedInv, CreatedOnce, Fresh, Gone
  <2>7. PresentInv
    BY <2>4 DEF PresentInv
  <2>8. EventsInv
    BY <1>1 DEF Init, EngineInit, EventsInv, Says
  <2>9. GhostInv /\ QueueInv
    BY <1>1, ServiceAssumption DEF Init, EngineInit, GhostInv, QueueInv, NoRules, Nothing
  <2> QED
    BY <1>1, TypesInductive, <2>3, <2>5, <2>6, <2>7, <2>8, <2>9 DEF Inv
<1>2. ASSUME Inv, [Next]_vars PROVE Inv'
  <2>1. Types' /\ QueueInv' /\ EventsInv' /\ GhostInv'
    BY <1>2, TypesInductive, QueueInductive, EventsInductive, GhostInductive DEF Inv
  <2>2. RequestInv' /\ AloneInv' /\ CreatedInv' /\ PresentInv'
    <3>1. ASSUME NEW c \in Clients, Handle(c)
          PROVE  RequestInv' /\ AloneInv' /\ CreatedInv' /\ PresentInv'
      BY <1>2, <3>1, RequestInductive, AloneInductive, CreatedInductive, PresentInductive DEF Inv
    <3>2. CASE \A c \in Clients : ~ Handle(c)
      <4>1. UNCHANGED <<store, rules, request, ids, raced>>
        BY <1>2, <3>2, WorkerLeavesRequests
      <4>2. ASSUME NEW r \in Rules, NEW at
            PROVE  Busy(r)' = Busy(r) /\ Creating(r, at)' = Creating(r, at)
        BY <4>1 DEF Busy, Creating
      <4>3. RequestInv' /\ PresentInv'
        BY <1>2, <4>1, <4>2 DEF Inv, RequestInv, PresentInv
      <4>4. AloneInv'
        BY <1>2, <4>1, <4>2 DEF Inv, AloneInv, Alone
      <4>5. CreatedInv'
        BY <1>2, <4>1 DEF Inv, CreatedInv, CreatedOnce, Fresh, Gone, Busy, Creating
      <4> QED
        BY <4>3, <4>4, <4>5
    <3> QED
      BY <3>1, <3>2
  <2> QED
    BY <2>1, <2>2 DEF Inv
<1> QED
  BY <1>1, <1>2

-----------------------------------------------------------------------------
(* Types; every frame received was processed, or dropped, or is in the      *)
(* queue, and the queue never exceeds its capacity.                         *)
THEOREM TypeCorrect == Spec => []TypeOK
<1>1. Inv => TypeOK
  BY DEF Inv, Types, QueueInv, EventsInv, TypeOK, Numbers, Shown
<1> QED
  BY InvInductive, <1>1, PTL DEF Spec

(* With no request under way for a rule the engine has it as the database   *)
(* has, unless two requests for it have overlapped.                         *)
THEOREM RulesAgree == Spec => []RulesAgreeUnlessRaced
<1>1. Inv => RulesAgreeUnlessRaced
  BY DEF Inv, AloneInv, Alone, RulesAgreeUnlessRaced
<1> QED
  BY InvInductive, <1>1, PTL DEF Spec

(* However requests overlap, a rule of the database is never missing in the *)
(* engine once no request for it is under way.                              *)
THEOREM StoredRulesPresent == Spec => []NoStoredRuleMissing
<1>1. ASSUME NEW r \in Rules, Busy(r) = {} PROVE Creating(r, "apply") = {}
  BY <1>1 DEF Busy, Creating
<1>2. Inv => NoStoredRuleMissing
  BY <1>1 DEF Inv, PresentInv, NoStoredRuleMissing
<1> QED
  BY InvInductive, <1>2, PTL DEF Spec

(* The events in the database are those of the engine between two frames,   *)
(* each in its turn: enter, stay, exit.                                     *)
THEOREM EventsMatch == Spec => []EventsMatchEngine
<1>1. Inv => EventsMatchEngine
  BY DEF Inv, EventsInv, Says, EventsMatchEngine
<1> QED
  BY InvInductive, <1>1, PTL DEF Spec

(* While the worker lives, a track that is gone is inside an area only if   *)
(* it was when the rule was disabled, deleted, moved or made a line.        *)
THEOREM Ghosts == Spec => []GhostsOnlyOfLapsedRules
<1>1. Inv => GhostsOnlyOfLapsedRules
  BY DEF Inv, GhostInv, GhostsOnlyOfLapsedRules
<1> QED
  BY InvInductive, <1>1, PTL DEF Spec
=============================================================================
