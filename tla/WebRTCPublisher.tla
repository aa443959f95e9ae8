--------------------------- MODULE WebRTCPublisher ---------------------------
(***************************************************************************)
(* WebRTC sessions of the runner (core/src/streaming/webrtc_publisher.cpp) *)
(* and the threads that share them: the HTTP threads that handle offers    *)
(* and DELETE requests, the encoder thread of each stream that pushes      *)
(* frames, and the manager that clears every session when the pipeline     *)
(* stops.  The map of sessions has a mutex and each session another;       *)
(* whatever is done under one of them is one action.                       *)
(*                                                                         *)
(* Sessions are shared pointers: one that is in the map no longer lives    *)
(* until the last thread that has it lets go, and its destructor stops it. *)
(***************************************************************************)
EXTENDS Integers, FiniteSets

CONSTANTS
  StreamKeys,  \* keys an offer may name
  Offerers,    \* threads of the HTTP server
  Manager,     \* the thread that stops the pipeline
  MaxPeers,    \* max_peers_per_stream
  MaxSessions  \* bound: session ids are 1..MaxSessions

ASSUME PublisherAssumption ==
  /\ StreamKeys # {}
  /\ IsFiniteSet(Offerers) /\ Manager \notin Offerers
  /\ MaxPeers \in Nat \ {0} /\ MaxSessions \in Nat

VARIABLES
  registered, \* streams_: the keys of registered streams
  sessions,  \* ids in the map
  nextId,    \* the counter of make_session_id_
  key,       \* per id, its stream key
  pipeline,  \* per id: "none", "created" or "playing"
  pc,        \* per HTTP thread, where it is in a handler
  wanted,    \* per HTTP thread, the key of the offer
  mine,      \* per HTTP thread, the session of the offer, or 0
  expired,   \* per HTTP thread, ids that expire_idle_sessions has collected
  removed,   \* per thread, sessions out of the map, to be stopped
  targets    \* per stream, sessions its encoder thread is pushing a frame to

vars == <<registered, sessions, nextId, key, pipeline, pc, wanted, mine, expired, removed,
          targets>>

Ids == 1..MaxSessions
Threads == Offerers \cup {Manager}
AnyKey == CHOOSE s \in StreamKeys : TRUE

Working == {"admitted", "inserted", "created", "started", "offered", "answered",
            "failed", "hung"}

Blank ==
  /\ sessions = {} /\ nextId = 1
  /\ key = [i \in Ids |-> AnyKey]
  /\ pipeline = [i \in Ids |-> "none"]
  /\ pc = [h \in Offerers |-> "idle"]
  /\ wanted = [h \in Offerers |-> AnyKey]
  /\ mine = [h \in Offerers |-> 0]
  /\ expired = [h \in Offerers |-> {}]
  /\ removed = [t \in Threads |-> {}]
  /\ targets = [s \in StreamKeys |-> {}]

Init == Blank /\ registered = {}

Peers(s) == {i \in sessions : key[i] = s}

-----------------------------------------------------------------------------
(* Who has a shared pointer to a session, and what its destructor does.     *)

Held(i) ==
  \/ i \in sessions
  \/ \E h \in Offerers : mine[h] = i
  \/ \E t \in Threads : i \in removed[t]
  \/ \E s \in StreamKeys : i \in targets[s]

LeakedWith(p) == p \* faulty variant: no destructor
Destructed(p) == [i \in Ids |-> IF Held(i)' THEN p[i] ELSE "none"]

-----------------------------------------------------------------------------
(* register_stream: no stream is ever taken out.                            *)
RegisterStreams(S) ==
  /\ registered' = registered \cup S
  /\ UNCHANGED <<sessions, nextId, key, pipeline, pc, wanted, mine, expired, removed, targets>>

-----------------------------------------------------------------------------
(* delete_session and clear_sessions: out of the map, then stopped.         *)

Remove(t, S) ==
  /\ sessions' = sessions \ S
  /\ removed' = [removed EXCEPT ![t] = S \cap sessions]

StopRemoved(t) ==
  /\ removed[t] # {}
  /\ removed' = [removed EXCEPT ![t] = {}]
  /\ pipeline' = [i \in Ids |-> IF i \in removed[t] THEN "none" ELSE pipeline[i]]
  /\ UNCHANGED <<registered, sessions, nextId, key, pc, wanted, mine, expired, targets>>

(* A client knows the id once the offer has been answered. *)
DeleteRequest(h, i) ==
  /\ pc[h] = "idle" /\ removed[h] = {}
  /\ i \in sessions /\ \A g \in Offerers : mine[g] # i
  /\ Remove(h, {i})
  /\ UNCHANGED <<registered, nextId, key, pipeline, pc, wanted, mine, expired, targets>>

ClearSessions ==
  /\ removed[Manager] = {} /\ sessions # {}
  /\ Remove(Manager, sessions)
  /\ UNCHANGED <<registered, nextId, key, pipeline, pc, wanted, mine, expired, targets>>

-----------------------------------------------------------------------------
(* handle_offer, by thread h.                                               *)

(* expire_idle_sessions collects what should_expire, then deletes each. Any *)
(* session may have lost its peer or been idle for too long.                *)
ReceiveOffer(h, s) ==
  /\ pc[h] = "idle" /\ removed[h] = {}
  /\ pc' = [pc EXCEPT ![h] = "expiring"]
  /\ wanted' = [wanted EXCEPT ![h] = s]
  /\ \E S \in SUBSET sessions : expired' = [expired EXCEPT ![h] = S]
  /\ UNCHANGED <<registered, sessions, nextId, key, pipeline, mine, removed, targets>>

DeleteExpired(h, i) ==
  /\ pc[h] = "expiring" /\ removed[h] = {}
  /\ i \in expired[h]
  /\ expired' = [expired EXCEPT ![h] = @ \ {i}]
  /\ Remove(h, {i})
  /\ UNCHANGED <<registered, nextId, key, pipeline, pc, wanted, mine, targets>>

Checking(h) == pc[h] = "expiring" /\ expired[h] = {} /\ removed[h] = {}

RoomForOneMore(s) == Cardinality(Peers(s)) <= MaxPeers \* faulty variant of HasRoom
HasRoom(s) == Cardinality(Peers(s)) < MaxPeers

(* No encoder, no usable offer, unknown stream, too many peers. *)
Refuse(h) ==
  /\ Checking(h)
  /\ pc' = [pc EXCEPT ![h] = "idle"]
  /\ UNCHANGED <<registered, sessions, nextId, key, pipeline, wanted, mine, expired, removed, targets>>

Admit(h) ==
  /\ Checking(h)
  /\ wanted[h] \in registered /\ HasRoom(wanted[h])
  /\ nextId <= MaxSessions
  /\ nextId' = nextId + 1
  /\ mine' = [mine EXCEPT ![h] = nextId]
  /\ key' = [key EXCEPT ![nextId] = wanted[h]]
  /\ pc' = [pc EXCEPT ![h] = "admitted"]
  /\ UNCHANGED <<registered, sessions, pipeline, wanted, expired, removed, targets>>

Insert(h) ==
  /\ pc[h] = "admitted"
  /\ sessions' = sessions \cup {mine[h]}
  /\ pc' = [pc EXCEPT ![h] = "inserted"]
  /\ UNCHANGED <<registered, nextId, key, pipeline, wanted, mine, expired, removed, targets>>

(* One step of Session::start, set_remote_offer or create_answer.           *)
Advance(h, next, state) ==
  /\ pc' = [pc EXCEPT ![h] = next]
  /\ pipeline' = [pipeline EXCEPT ![mine[h]] = state]
  /\ UNCHANGED <<registered, sessions, nextId, key, wanted, mine, expired, removed, targets>>

(* gst_parse_launch *)
CreatePipeline(h) ==
  /\ pc[h] = "inserted"
  /\ Advance(h, "created", "created") \/ Advance(h, "failed", "none")

(* A stop() since then has taken the pipeline away: setting its state fails *)
(* as well, and start() stops the session.                                  *)
PlayRegardless(h) == Advance(h, "started", "none") \* faulty variant: success reported
PlayFails(h) == Advance(h, "failed", "none")

Play(h) ==
  /\ pc[h] = "created"
  /\ \/ pipeline[mine[h]] = "created" /\ Advance(h, "started", "playing")
     \/ PlayFails(h)

(* set_remote_offer and create_answer wait for a promise of webrtcbin, for  *)
(* ever if a stop() has taken webrtcbin away before the signal was emitted. *)
Negotiate(h, from, to) ==
  /\ pc[h] = from
  /\ IF pipeline[mine[h]] = "none"
     THEN Advance(h, "hung", "none")
     ELSE \/ Advance(h, to, pipeline[mine[h]])
          \/ Advance(h, "failed", pipeline[mine[h]])

SetRemoteOffer(h) == Negotiate(h, "started", "offered")
CreateAnswer(h) == Negotiate(h, "offered", "answered")

(* 500: the session is deleted if it is still in the map. *)
DeleteFailed(h) ==
  /\ pc[h] = "failed" /\ mine[h] \in sessions
  /\ Remove(h, {mine[h]})
  /\ UNCHANGED <<registered, nextId, key, pipeline, pc, wanted, mine, expired, targets>>

Released(h) == [mine EXCEPT ![h] = 0]

(* 201 or 500: the handler lets go of the session. *)
Return(h) ==
  /\ \/ pc[h] = "answered"
     \/ pc[h] = "failed" /\ mine[h] \notin sessions /\ removed[h] = {}
  /\ pc' = [pc EXCEPT ![h] = "idle"]
  /\ mine' = Released(h)
  /\ UNCHANGED <<registered, sessions, nextId, key, wanted, expired, removed, targets>>
  /\ pipeline' = Destructed(pipeline)

-----------------------------------------------------------------------------
(* publish_frame, by the encoder thread of stream s: the sessions are       *)
(* copied under the lock; each takes the frame unless it has been stopped.  *)

BeginPublish(s) ==
  /\ targets[s] = {} /\ Peers(s) # {}
  /\ targets' = [targets EXCEPT ![s] = Peers(s)]
  /\ UNCHANGED <<registered, sessions, nextId, key, pipeline, pc, wanted, mine, expired, removed>>

EndPublish(s) ==
  /\ targets[s] # {}
  /\ targets' = [targets EXCEPT ![s] = {}]
  /\ UNCHANGED <<registered, sessions, nextId, key, pc, wanted, mine, expired, removed>>
  /\ pipeline' = Destructed(pipeline)

-----------------------------------------------------------------------------
HandleOffer(h) ==
  \/ \E s \in StreamKeys : ReceiveOffer(h, s)
  \/ \E i \in Ids : DeleteExpired(h, i)
  \/ Refuse(h) \/ Admit(h) \/ Insert(h)
  \/ CreatePipeline(h) \/ Play(h) \/ SetRemoteOffer(h) \/ CreateAnswer(h)
  \/ DeleteFailed(h) \/ Return(h)

PublishFrame == \E s \in StreamKeys : BeginPublish(s) \/ EndPublish(s)

Next ==
  \/ \E h \in Offerers : HandleOffer(h) \/ \E i \in Ids : DeleteRequest(h, i)
  \/ \E t \in Threads : StopRemoved(t)
  \/ ClearSessions
  \/ \E s \in StreamKeys \ registered : RegisterStreams({s})
  \/ PublishFrame

Spec == Init /\ [][Next]_vars

-----------------------------------------------------------------------------
(* Properties.                                                              *)

(* Types; an id in the map has been given out, and only an offer that has   *)
(* been admitted has a session.                                             *)
TypeOK ==
  /\ registered \subseteq StreamKeys
  /\ nextId \in 1..(MaxSessions + 1)
  /\ sessions \subseteq 1..(nextId - 1)
  /\ key \in [Ids -> StreamKeys]
  /\ pipeline \in [Ids -> {"none", "created", "playing"}]
  /\ pc \in [Offerers -> Working \cup {"idle", "expiring"}]
  /\ wanted \in [Offerers -> StreamKeys]
  /\ mine \in [Offerers -> 0..(nextId - 1)]
  /\ expired \in [Offerers -> SUBSET Ids]
  /\ removed \in [Threads -> SUBSET Ids]
  /\ targets \in [StreamKeys -> SUBSET Ids]
  /\ \A h \in Offerers : mine[h] # 0 <=> pc[h] \in Working

(* A pipeline that nobody can stop any more does not run: whatever removed  *)
(* the session while an offer was still building it, some thread still has  *)
(* it or it has been stopped.                                               *)
NoOrphanPipeline == \A i \in Ids : pipeline[i] # "none" => Held(i)

(* The limit is tested before the session is inserted, so that it can be    *)
(* exceeded by the offers that are handled at the same time, never by more. *)
PeersBounded ==
  \A s \in StreamKeys : Cardinality(Peers(s)) <= MaxPeers + Cardinality(Offerers) - 1

(* An offer waits for ever only for a session that someone removed while it *)
(* was being negotiated: a failed start or a refused offer never does that. *)
HungOnlyIfRemoved == \A h \in Offerers : pc[h] = "hung" => mine[h] \notin sessions
=============================================================================
