-------------------------- MODULE AnalyticsService --------------------------
(***************************************************************************)
(* The controller's analytics service                                      *)
(* (controller/veilsight_controller/analytics_service.py), for one stream. *)
(* One event loop runs the telemetry callback, the worker and the handlers *)
(* of the rule requests; each gives way to the others only at an await.    *)
(* The database (analytics_store.py) is called in threads and serialised   *)
(* by a lock of its own.  A step here is what happens between two awaits,  *)
(* or one call of the database.                                            *)
(***************************************************************************)
EXTENDS Naturals, Sequences, AnalyticsEngine

CONSTANTS
  Clients,        \* requests that may be under way at the same time
  QueueCapacity,  \* ingest_queue_capacity
  DropPolicy,     \* ingest_drop_policy
  MaxFrames,      \* bound on the frames received
  MaxRequests     \* bound on the requests made

ASSUME ServiceAssumption ==
  /\ QueueCapacity \in Nat \ {0}
  /\ DropPolicy \in {"drop_oldest", "drop_newest"}
  /\ MaxFrames \in Nat /\ MaxRequests \in Nat

VARIABLES
  store,      \* table analytics_rules: per rule one of Values
  persisted,  \* analytics_events: per rule and track, what the newest event says
  stored,     \* aggregate_snapshots: frame of the newest, or 0
  queue,      \* frames received and not yet processed
  received, dropped, done, \* counters: frames received, dropped, processed
  worker,     \* "idle", "persisting", "persisted", "broadcasting" or "dead"
  result,     \* what the worker has computed of a frame
  snapshot,   \* _latest_snapshots: frame and rules; frame 0 for none
  request,    \* per client, the request being handled
  requests,   \* how many were made
  ids,        \* history: rules that were created
  raced,      \* history: rules with two requests under way at once
  lapsed      \* history: per rule, tracks that were inside when it ceased to be on

database == <<store, persisted, stored>>
frames == <<queue, received, dropped, done, worker, result>>
history == <<requests, ids, raced, lapsed>>
vars == <<engineVars, database, frames, snapshot, request, history>>

NoRules == [r \in Rules |-> "absent"]
Nothing == [r \in Rules |-> {}]
NoResult == [frame |-> 0, entered |-> Nothing, left |-> Nothing, stayed |-> Nothing,
             rules |-> NoRules]
Idle == [op |-> "none", at |-> "idle", rule |-> CHOOSE r \in Rules : TRUE, value |-> "absent",
         seen |-> [frame |-> 0, rules |-> NoRules]]

Init ==
  /\ EngineInit
  /\ store = NoRules /\ stored = 0
  /\ persisted = [r \in Rules |-> [t \in Tracks |-> "out"]]
  /\ queue = <<>> /\ received = 0 /\ dropped = 0 /\ done = 0
  /\ worker = "idle" /\ result = NoResult
  /\ snapshot = [frame |-> 0, rules |-> NoRules]
  /\ request = [c \in Clients |-> Idle]
  /\ requests = 0 /\ ids = {} /\ raced = {} /\ lapsed = Nothing

-----------------------------------------------------------------------------
(* handle_event.                                                            *)

MakeRoom ==
  IF Len(queue) < QueueCapacity THEN queue
  ELSE IF DropPolicy = "drop_oldest" THEN Tail(queue) ELSE queue

Enqueued(f) == IF Len(MakeRoom) < QueueCapacity THEN Append(MakeRoom, f) ELSE MakeRoom

HandleEvent(f) ==
  /\ received < MaxFrames
  /\ received' = received + 1
  /\ queue' = Enqueued([frame |-> received + 1, tracks |-> f])
  /\ dropped' = IF Len(queue) < QueueCapacity THEN dropped ELSE dropped + 1
  /\ UNCHANGED <<engineVars, database, done, worker, result, snapshot, request, history>>

-----------------------------------------------------------------------------
(* _worker: an exception, wherever it comes from, ends it for good.         *)

TakeFrame ==
  /\ worker = "idle" /\ queue # <<>>
  /\ queue' = Tail(queue)
  /\ done' = done + 1

Compute ==
  /\ TakeFrame
  /\ \E long \in [Rules -> SUBSET Tracks] :
       LET f == Head(queue).tracks
       IN  /\ ProcessFrame(f, long)
           /\ result' = [frame |-> Head(queue).frame, entered |-> Entered(f, Whole(f)),
                         left |-> Left(f, Whole(f)), stayed |-> Stayed(f, Whole(f), long),
                         rules |-> OfStream(rules)]
  /\ worker' = "persisting"
  /\ UNCHANGED <<database, received, dropped, snapshot, request, history>>

ComputeFails ==
  /\ TakeFrame
  /\ \E long \in [Rules -> SUBSET Tracks] : BreakOff(Head(queue).tracks, long)
  /\ worker' = "dead"
  /\ UNCHANGED <<database, received, dropped, result, snapshot, request, history>>

Inserted == [r \in Rules |-> [t \in Tracks |->
  CASE t \in result.entered[r] -> "in"
    [] t \in result.left[r] -> "out"
    [] t \in result.stayed[r] -> "stayed"
    [] OTHER -> persisted[r][t]]]

(* insert_frame_records; a snapshot is stored every now and then. *)
Persist ==
  /\ worker = "persisting"
  /\ persisted' = Inserted
  /\ stored' \in {stored, result.frame}
  /\ worker' = "persisted"
  /\ UNCHANGED <<engineVars, store, queue, received, dropped, done, result, snapshot,
                 request, history>>

Publish ==
  /\ worker = "persisted"
  /\ snapshot' = [frame |-> result.frame, rules |-> result.rules]
  /\ worker' = "broadcasting"
  /\ result' = NoResult
  /\ UNCHANGED <<engineVars, database, queue, received, dropped, done, request, history>>

EndBroadcast ==
  /\ worker = "broadcasting"
  /\ worker' = "idle"
  /\ UNCHANGED <<engineVars, database, queue, received, dropped, done, result, snapshot,
                 request, history>>

(* An insert raises in the middle, or prune after the last one: what was    *)
(* inserted is there, and the next commit of the connection keeps it.       *)
PersistFails ==
  /\ worker = "persisting"
  /\ \E part \in SUBSET (Rules \X Tracks) :
       persisted' = [r \in Rules |-> [t \in Tracks |->
         IF <<r, t>> \in part THEN Inserted[r][t] ELSE persisted[r][t]]]
  /\ stored' \in {stored} \cup IF persisted' = Inserted THEN {result.frame} ELSE {}
  /\ worker' = "dead" /\ result' = NoResult
  /\ UNCHANGED <<engineVars, store, queue, received, dropped, done, snapshot, request, history>>

(* A socket fails, or anything about a frame of another stream.             *)
WorkerFails ==
  /\ worker \in {"idle", "broadcasting"}
  /\ worker' = "dead"
  /\ UNCHANGED <<engineVars, database, queue, received, dropped, done, result, snapshot, request,
                 history>>

-----------------------------------------------------------------------------
(* The requests.                                                            *)

Busy(r) == {c \in Clients : request[c].op \in {"create", "update", "delete"}
                              /\ request[c].rule = r}
At(c, op, at) == request[c].op = op /\ request[c].at = at
GoTo(c, at) == request' = [request EXCEPT ![c].at = at]
Return(c) == request' = [request EXCEPT ![c] = Idle]

Begin(c, op, r, at) ==
  /\ request[c].op = "none" /\ requests < MaxRequests
  /\ requests' = requests + 1
  /\ request' = [request EXCEPT ![c] = [Idle EXCEPT !.op = op, !.rule = r, !.at = at]]
  /\ raced' = IF Busy(r) = {} THEN raced ELSE raced \cup {r}
  /\ ids' = ids \cup {r}
  /\ UNCHANGED <<engineVars, database, frames, snapshot, lapsed>>

(* A row that does not parse, or a null where the table wants a value, make *)
(* a call of the database raise: the request ends there, with a 500.        *)
RequestFails(c) ==
  /\ request[c].at \in {"get", "list", "load"} \/ At(c, "update", "write")
  /\ Return(c)
  /\ UNCHANGED <<engineVars, database, frames, snapshot, history>>

(* The id of a new rule is new; any other is one that was given to a client. *)
Create(c, r) == r \notin ids /\ Begin(c, "create", r, "write")
Update(c, r) == r \in ids /\ Begin(c, "update", r, "get")
Delete(c, r) == r \in ids /\ Begin(c, "delete", r, "get")

(* get_rule, for an update or a delete. *)
GetRule(c) ==
  /\ At(c, "update", "get") \/ At(c, "delete", "get")
  /\ request' = [request EXCEPT ![c].at = "write", ![c].value = store[request[c].rule]]
  /\ UNCHANGED <<engineVars, database, frames, snapshot, history>>

(* 404: the rule was not there to be updated. *)
UpdateMisses(c) ==
  /\ At(c, "update", "write") /\ request[c].value = "absent"
  /\ Return(c)
  /\ UNCHANGED <<engineVars, database, frames, snapshot, history>>

Write(c, r, v) ==
  /\ store' = [store EXCEPT ![r] = v]
  /\ UNCHANGED <<engineVars, persisted, stored, frames, snapshot, history>>

(* create_rule of the store inserts; update_rule changes a row if there is  *)
(* still one, and returns the merged rule whether or not there was.  Either *)
(* may set any stream, profile, kind and enabled.                           *)
WriteRule(c) ==
  LET r == request[c].rule
  IN  /\ \/ At(c, "create", "write")
         \/ At(c, "update", "write") /\ request[c].value # "absent"
      /\ \E v \in Settings :
           /\ Write(c, r, IF request[c].op = "update" /\ store[r] = "absent" THEN "absent" ELSE v)
           /\ request' = [request EXCEPT ![c].at = "apply", ![c].value = v]

DeleteRow(c) ==
  /\ At(c, "delete", "write")
  /\ Write(c, request[c].rule, "absent")
  /\ IF store[request[c].rule] = "absent" THEN Return(c) ELSE GoTo(c, "apply")

KeptRule(c) == rules \* faulty variant: deleted from the database only
AfterDelete(c) == DeleteRule(request[c].rule)

(* The engine takes the rule over; then _refresh_rule_snapshots begins, and *)
(* remembers the snapshot it is going to renew: that of the stream the rule *)
(* now has, or had when a delete read it, and so not this one if "away".    *)
ApplyRule(c) ==
  LET r == request[c].rule
  IN  /\ request[c].at = "apply"
      /\ rules' = IF request[c].op = "delete" THEN AfterDelete(c) ELSE Upsert(r, request[c].value)
      /\ lapsed' = IF rules[r] = "on" /\ rules'[r] # "on"
                   THEN [lapsed EXCEPT ![r] = @ \cup inside[r]] ELSE lapsed
      /\ IF snapshot.frame = 0 \/ request[c].value \in {"absent", "away"}
         THEN Return(c)
         ELSE request' = [request EXCEPT ![c].at = "list", ![c].seen = snapshot]
      /\ UNCHANGED <<active, inside, emitted, database, frames, snapshot, requests, ids, raced>>

ListRules(c) ==
  /\ request[c].at = "list"
  /\ request' = [request EXCEPT ![c].at = "renew", ![c].seen.rules = OfStream(store)]
  /\ UNCHANGED <<engineVars, database, frames, snapshot, history>>

(* Whatever the worker has published since the snapshot was read is lost. *)
RenewSnapshot(c) ==
  /\ request[c].at = "renew"
  /\ snapshot' = request[c].seen
  /\ Return(c)
  /\ UNCHANGED <<engineVars, database, frames, history>>

(* latest_snapshot: one from the database is kept if there is none. *)
ReadSnapshot(c) ==
  /\ request[c].op = "none" /\ requests < MaxRequests /\ snapshot.frame = 0
  /\ requests' = requests + 1
  /\ request' = [request EXCEPT ![c].op = "read", ![c].at = "load"]
  /\ UNCHANGED <<engineVars, database, frames, snapshot, ids, raced, lapsed>>

LoadSnapshot(c) ==
  /\ request[c].at = "load"
  /\ IF stored = 0 THEN Return(c)
     ELSE request' = [request EXCEPT ![c].at = "renew",
                                     ![c].seen = [frame |-> stored, rules |-> OfStream(store)]]
  /\ UNCHANGED <<engineVars, database, frames, snapshot, history>>

Handle(c) ==
  \/ \E r \in Rules : Create(c, r) \/ Update(c, r) \/ Delete(c, r)
  \/ GetRule(c) \/ UpdateMisses(c) \/ WriteRule(c) \/ DeleteRow(c) \/ ApplyRule(c)
  \/ ListRules(c) \/ RenewSnapshot(c) \/ ReadSnapshot(c) \/ LoadSnapshot(c) \/ RequestFails(c)

Next ==
  \/ \E f \in Frames : HandleEvent(f)
  \/ Compute \/ ComputeFails \/ Persist \/ PersistFails \/ Publish \/ EndBroadcast \/ WorkerFails
  \/ \E c \in Clients : Handle(c)

Spec == Init /\ [][Next]_vars

-----------------------------------------------------------------------------
(* Properties.                                                              *)

(* Types; frames are processed, dropped and counted, or still in the queue, *)
(* which never exceeds its capacity.                                        *)
TypeOK ==
  /\ EngineTypeOK
  /\ store \in [Rules -> Values]
  /\ persisted \in [Rules -> [Tracks -> {"out", "in", "stayed"}]]
  /\ worker \in {"idle", "persisting", "persisted", "broadcasting", "dead"}
  /\ stored \in 0..MaxFrames /\ snapshot.frame \in 0..MaxFrames
  /\ snapshot.rules \in [Rules -> Values]
  /\ Len(queue) <= QueueCapacity
  /\ received = done + dropped + Len(queue)

(* With no request under way for a rule, the engine has it as the database  *)
(* has, unless two requests for it have overlapped: then an update may      *)
(* bring back what a delete has taken away, or the older of two may win.    *)
RulesAgreeUnlessRaced ==
  \A r \in Rules : Busy(r) = {} /\ r \notin raced => rules[r] = store[r]

(* Whatever overlaps, a rule that is in the database is never missing in    *)
(* the engine once the request that created it has returned.                *)
NoStoredRuleMissing ==
  \A r \in Rules : Busy(r) = {} /\ store[r] # "absent" => rules[r] # "absent"

(* Between two frames, the events in the database leave a track inside an   *)
(* area, and its stay reported, exactly when the engine does: enters and    *)
(* exits alternate, a stay is reported once at most between them, and none  *)
(* is lost, unless the worker has died.                                     *)
EventsMatchEngine ==
  \A r \in Rules, t \in Tracks :
    /\ worker = "persisting" =>
         /\ t \in result.entered[r] => persisted[r][t] = "out"
         /\ t \in result.stayed[r] => persisted[r][t] = "in"
         /\ t \in result.left[r] => persisted[r][t] # "out"
    /\ worker \in {"idle", "broadcasting"} =>
         persisted[r][t] = CASE t \in emitted[r] -> "stayed"
                               [] t \in inside[r] \ emitted[r] -> "in"
                               [] OTHER -> "out"

(* A track that is no longer there is inside no area, unless it was inside  *)
(* when the rule was disabled, deleted, moved to another stream or made a   *)
(* line: its exit is then never reported, even when the rule comes back.    *)
(* An exception in the middle of a frame leaves what nobody looks at again. *)
GhostsOnlyOfLapsedRules ==
  worker # "dead" => \A r \in Rules : inside[r] \ active \subseteq lapsed[r]
=============================================================================
