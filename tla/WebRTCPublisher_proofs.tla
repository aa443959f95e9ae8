----------------------- MODULE WebRTCPublisher_proofs -----------------------
(***************************************************************************)
(* Proofs about WebRTCPublisher for any number of streams, HTTP threads,   *)
(* peers and sessions: type correctness, that no pipeline runs that nobody *)
(* can stop, how far the limit of peers can be exceeded, and when an offer *)
(* hangs.                                                                  *)
(***************************************************************************)
EXTENDS WebRTCPublisher, FiniteSetTheorems, TLAPS

(* The steps by what they do to the sessions: hand out a new one, put one   *)
(* into the map, take some out, stop what was taken out, build a pipeline,  *)
(* let go of sessions, or none of these.                                    *)
Removal == \/ \E h \in Offerers, i \in Ids : DeleteRequest(h, i) \/ DeleteExpired(h, i)
           \/ \E h \in Offerers : DeleteFailed(h)
           \/ ClearSessions

Building(h) == CreatePipeline(h) \/ Play(h) \/ SetRemoteOffer(h) \/ CreateAnswer(h)

Listening == \/ \E h \in Offerers, s \in StreamKeys : ReceiveOffer(h, s)
             \/ \E h \in Offerers : Refuse(h)
             \/ \E s \in StreamKeys : RegisterStreams({s})

LEMMA Steps ==
  [Next]_vars =>
    \/ Removal \/ Listening \/ UNCHANGED vars
    \/ \E h \in Offerers : Admit(h) \/ Insert(h) \/ Building(h) \/ Return(h)
    \/ \E t \in Threads : StopRemoved(t)
    \/ \E s \in StreamKeys : BeginPublish(s) \/ EndPublish(s)
BY DEF Next, HandleOffer, PublishFrame, Removal, Listening, Building

(* A thread that builds a session has nothing left to stop, but its own     *)
(* session once the offer has failed.                                       *)
BusyInv == \A h \in Offerers :
  pc[h] \in Working => removed[h] = {} \/ (pc[h] = "failed" /\ mine[h] \notin sessions)

(* A removal takes sessions of the map to one thread that had none.         *)
Removes(t, S) ==
  /\ removed[t] = {}
  /\ sessions' = sessions \ S
  /\ removed' = [removed EXCEPT ![t] = S \cap sessions]
  /\ expired' \in [Offerers -> SUBSET Ids]
  /\ UNCHANGED <<registered, nextId, key, pipeline, pc, wanted, mine, targets>>

LEMMA RemovalSteps ==
  ASSUME TypeOK, BusyInv, Removal
  PROVE  \E t \in Threads, S \in SUBSET Ids :
           /\ Removes(t, S)
           /\ t \in Offerers /\ pc[t] \in Working => pc[t] = "failed" /\ mine[t] \in S
<1> DEFINE Goal == \E t \in Threads, S \in SUBSET Ids :
                     /\ Removes(t, S)
                     /\ t \in Offerers /\ pc[t] \in Working => pc[t] = "failed" /\ mine[t] \in S
<1>0. Offerers \subseteq Threads /\ Manager \in Threads /\ Manager \notin Offerers
  BY PublisherAssumption DEF Threads
<1>1. expired \in [Offerers -> SUBSET Ids] /\ sessions \in SUBSET Ids
  BY PublisherAssumption DEF TypeOK, Ids
<1>2. ASSUME NEW h \in Offerers, NEW i \in Ids, DeleteRequest(h, i) PROVE Goal
  <2>1. Removes(h, {i})
    BY <1>1, <1>2 DEF DeleteRequest, Remove, Removes
  <2>2. pc[h] \notin Working
    BY <1>2 DEF DeleteRequest, Working
  <2>3. QED
    BY <1>0, <2>1, <2>2
<1>3. ASSUME NEW h \in Offerers, NEW i \in Ids, DeleteExpired(h, i) PROVE Goal
  <2>1. Removes(h, {i})
    BY <1>1, <1>3 DEF DeleteExpired, Remove, Removes
  <2>2. pc[h] \notin Working
    BY <1>3 DEF DeleteExpired, Working
  <2>3. QED
    BY <1>0, <2>1, <2>2
<1>4. ASSUME NEW h \in Offerers, DeleteFailed(h) PROVE Goal
  <2>1. pc[h] = "failed" /\ mine[h] \in sessions
    BY <1>4 DEF DeleteFailed
  <2>2. removed[h] = {}
    BY <2>1 DEF BusyInv, Working
  <2>3. Removes(h, {mine[h]})
    BY <1>1, <1>4, <2>2 DEF DeleteFailed, Remove, Removes
  <2>4. QED
    BY <1>0, <1>1, <2>1, <2>3
<1>5. ASSUME ClearSessions PROVE Goal
  <2>1. Removes(Manager, sessions)
    BY <1>1, <1>5 DEF ClearSessions, Remove, Removes
  <2>2. QED
    BY <1>0, <1>1, <2>1
<1>6. QED
  BY <1>2, <1>3, <1>4, <1>5 DEF Removal

(* What the step of a handler that builds a session does to it.             *)
LEMMA BuildingSteps ==
  ASSUME TypeOK, NEW h \in Offerers, Building(h)
  PROVE  /\ pc[h] \in {"inserted", "created", "started", "offered"}
         /\ \E next \in {"created", "started", "offered", "answered", "failed", "hung"},
               state \in {"none", "created", "playing"} :
              /\ Advance(h, next, state)
              /\ next = "started" => state = "playing"
              /\ next = "offered" => /\ pc[h] = "started" /\ state = pipeline[mine[h]]
              /\ next = "hung" => /\ pc[h] \in {"started", "offered"}
                                  /\ pipeline[mine[h]] = "none"
<1>0. pc[h] \in Working => mine[h] \in Ids /\ pipeline[mine[h]] \in {"none", "created", "playing"}
  BY PublisherAssumption DEF TypeOK, Ids
<1>1. CASE CreatePipeline(h)
  BY <1>1 DEF CreatePipeline
<1>2. CASE Play(h)
  BY <1>2 DEF Play, PlayFails
<1>3. ASSUME NEW from \in {"started", "offered"}, NEW to \in {"offered", "answered"},
             Negotiate(h, from, to), to = "offered" => from = "started"
      PROVE  /\ pc[h] = from
             /\ \/ Advance(h, "hung", "none") /\ pipeline[mine[h]] = "none"
                \/ Advance(h, to, pipeline[mine[h]])
                \/ Advance(h, "failed", pipeline[mine[h]])
  BY <1>3 DEF Negotiate
<1>4. CASE SetRemoteOffer(h)
  <2>1. Negotiate(h, "started", "offered")
    BY <1>4 DEF SetRemoteOffer
  <2>2. pc[h] = "started" /\ pipeline[mine[h]] \in {"none", "created", "playing"}
    BY <1>0, <2>1, <1>3 DEF Working
  <2>3. QED
    BY <1>3, <2>1, <2>2
<1>5. CASE CreateAnswer(h)
  <2>1. Negotiate(h, "offered", "answered")
    BY <1>5 DEF CreateAnswer
  <2>2. pc[h] = "offered" /\ pipeline[mine[h]] \in {"none", "created", "playing"}
    BY <1>0, <2>1, <1>3 DEF Working
  <2>3. QED
    BY <1>3, <2>1, <2>2
<1>6. QED
  BY <1>1, <1>2, <1>4, <1>5 DEF Building

(* Two threads never build the same session.                                *)
OwnInv == \A h, g \in Offerers : mine[h] # 0 /\ mine[h] = mine[g] => h = g

(* A session is in the map or taken out of it; a session just made neither. *)
FreshInv ==
  /\ \A t \in Threads : removed[t] \cap sessions = {} /\ removed[t] \subseteq 1..(nextId - 1)
  /\ \A h \in Offerers : pc[h] = "admitted" =>
       mine[h] \notin sessions /\ \A t \in Threads : mine[h] \notin removed[t]

(* A session that lost its pipeline while it was negotiated was removed.    *)
LostInv == \A h \in Offerers :
  pc[h] \in {"started", "offered"} /\ pipeline[mine[h]] = "none" => mine[h] \notin sessions

Inv == /\ TypeOK /\ BusyInv /\ OwnInv /\ FreshInv /\ LostInv
       /\ NoOrphanPipeline /\ HungOnlyIfRemoved

States == {"none", "created", "playing"}

LEMMA DestructedType == ASSUME NEW p \in [Ids -> States] PROVE Destructed(p) \in [Ids -> States]
BY DEF Destructed, States

LEMMA TypeOKInductive == TypeOK /\ BusyInv /\ [Next]_vars => TypeOK'
<1> SUFFICES ASSUME TypeOK, BusyInv, [Next]_vars PROVE TypeOK'
  OBVIOUS
<1>0. nextId \in Nat /\ nextId > 0 /\ MaxSessions \in Nat /\ pipeline \in [Ids -> States]
      /\ sessions \subseteq Ids
  BY PublisherAssumption DEF TypeOK, States, Ids
<1>1. CASE Removal
  <2>1. PICK t \in Threads, S \in SUBSET Ids : Removes(t, S)
    BY <1>1, RemovalSteps
  <2>2. QED
    BY <1>0, <2>1, PublisherAssumption DEF TypeOK, Removes, Ids
<1>2. CASE Listening
  <2>1. ASSUME NEW h \in Offerers, NEW s \in StreamKeys, ReceiveOffer(h, s) PROVE TypeOK'
    BY <1>0, <2>1 DEF TypeOK, ReceiveOffer, Working, Ids
  <2>2. ASSUME NEW h \in Offerers, Refuse(h) PROVE TypeOK'
    BY <2>2 DEF TypeOK, Refuse, Checking, Working
  <2>3. ASSUME NEW s \in StreamKeys, RegisterStreams({s}) PROVE TypeOK'
    BY <2>3 DEF TypeOK, RegisterStreams
  <2>4. QED
    BY <1>2, <2>1, <2>2, <2>3 DEF Listening
<1>3. ASSUME NEW h \in Offerers, Admit(h) PROVE TypeOK'
  <2>1. /\ nextId \in Ids /\ nextId' = nextId + 1 /\ nextId' \in 1..(MaxSessions + 1)
        /\ 1..(nextId - 1) \subseteq 1..(nextId' - 1) /\ nextId \in 0..(nextId' - 1)
        /\ nextId # 0 /\ 0..(nextId - 1) \subseteq 0..(nextId' - 1)
    BY <1>0, <1>3 DEF Admit, Ids
  <2>2. /\ mine' = [mine EXCEPT ![h] = nextId] /\ key' = [key EXCEPT ![nextId] = wanted[h]]
        /\ pc' = [pc EXCEPT ![h] = "admitted"]
        /\ UNCHANGED <<registered, sessions, pipeline, wanted, expired, removed, targets>>
    BY <1>3 DEF Admit
  <2>3. mine' \in [Offerers -> 0..(nextId' - 1)]
    BY <2>1, <2>2 DEF TypeOK
  <2>4. \A g \in Offerers : mine'[g] # 0 <=> pc'[g] \in Working
    BY <2>1, <2>2 DEF TypeOK, Working
  <2>5. /\ pc' \in [Offerers -> Working \cup {"idle", "expiring"}]
        /\ key' \in [Ids -> StreamKeys] /\ sessions' \subseteq 1..(nextId' - 1)
    BY <2>1, <2>2 DEF TypeOK, Working
  <2>6. QED
    BY <2>1, <2>2, <2>3, <2>4, <2>5 DEF TypeOK
<1>4. ASSUME NEW h \in Offerers, Insert(h) PROVE TypeOK'
  <2>1. mine[h] \in 1..(nextId - 1)
    BY <1>0, <1>4 DEF TypeOK, Insert, Working
  <2>2. QED
    BY <1>4, <2>1 DEF TypeOK, Insert, Working
<1>5. ASSUME NEW h \in Offerers, Building(h) PROVE TypeOK'
  <2>1. PICK next \in Working, state \in States : Advance(h, next, state) /\ pc[h] \in Working
    BY <1>5, BuildingSteps DEF Working, States
  <2>2. QED
    BY <2>1 DEF TypeOK, Advance, Working, States
<1>6. ASSUME NEW h \in Offerers, Return(h) PROVE TypeOK'
  <2>1. pipeline' \in [Ids -> States]
    BY <1>0, <1>6, DestructedType DEF Return
  <2>2. QED
    BY <1>0, <1>6, <2>1 DEF TypeOK, Return, Released, Working, States
<1>7. ASSUME NEW t \in Threads, StopRemoved(t) PROVE TypeOK'
  BY <1>7 DEF TypeOK, StopRemoved
<1>8. ASSUME NEW s \in StreamKeys, BeginPublish(s) \/ EndPublish(s) PROVE TypeOK'
  <2>1. CASE BeginPublish(s)
    <3>1. Peers(s) \in SUBSET Ids
      BY <1>0 DEF Peers
    <3>2. QED
      BY <2>1, <3>1 DEF TypeOK, BeginPublish
  <2>2. CASE EndPublish(s)
    <3>1. pipeline' \in [Ids -> States]
      BY <1>0, <2>2, DestructedType DEF EndPublish
    <3>2. QED
      BY <2>2, <3>1 DEF TypeOK, EndPublish, States
  <2>3. QED
    BY <1>8, <2>1, <2>2
<1>9. CASE UNCHANGED vars
  BY <1>9 DEF TypeOK, vars
<1>10. QED
  BY <1>1, <1>2, <1>3, <1>4, <1>5, <1>6, <1>7, <1>8, <1>9, Steps

(* Ids are given out once, and a thread has one session at a time.          *)
LEMMA OwnInvInductive == TypeOK /\ OwnInv /\ BusyInv /\ [Next]_vars => OwnInv'
<1> SUFFICES ASSUME TypeOK, OwnInv, BusyInv, [Next]_vars PROVE OwnInv'
  OBVIOUS
<1>0. nextId \in Nat /\ mine \in [Offerers -> 0..(nextId - 1)]
  BY DEF TypeOK
<1>1. ASSUME UNCHANGED mine PROVE OwnInv'
  BY <1>1 DEF OwnInv
<1>2. CASE Removal
  BY <1>1, <1>2, RemovalSteps DEF Removes
<1>3. CASE Listening \/ UNCHANGED vars
  BY <1>1, <1>3 DEF Listening, ReceiveOffer, Refuse, RegisterStreams, vars
<1>4. ASSUME NEW h \in Offerers, Admit(h) PROVE OwnInv'
  <2>1. mine' = [mine EXCEPT ![h] = nextId]
    BY <1>4 DEF Admit
  <2>2. \A g \in Offerers : mine[g] # nextId
    BY <1>0
  <2>3. QED
    BY <1>0, <2>1, <2>2 DEF OwnInv
<1>5. ASSUME NEW h \in Offerers, Insert(h) \/ Building(h) PROVE OwnInv'
  <2>1. CASE Insert(h)
    BY <1>1, <2>1 DEF Insert
  <2>2. CASE Building(h)
    BY <1>1, <2>2, BuildingSteps DEF Advance
  <2>3. QED
    BY <1>5, <2>1, <2>2
<1>6. ASSUME NEW h \in Offerers, Return(h) PROVE OwnInv'
  BY <1>0, <1>6 DEF Return, Released, OwnInv
<1>7. ASSUME NEW t \in Threads, StopRemoved(t) PROVE OwnInv'
  BY <1>1, <1>7 DEF StopRemoved
<1>8. ASSUME NEW s \in StreamKeys, BeginPublish(s) \/ EndPublish(s) PROVE OwnInv'
  BY <1>1, <1>8 DEF BeginPublish, EndPublish
<1>9. QED
  BY <1>2, <1>3, <1>4, <1>5, <1>6, <1>7, <1>8, Steps

LEMMA BusyInvInductive == TypeOK /\ OwnInv /\ BusyInv /\ [Next]_vars => BusyInv'
<1> SUFFICES ASSUME TypeOK, OwnInv, BusyInv, [Next]_vars PROVE BusyInv'
  OBVIOUS
<1>0. /\ pc \in [Offerers -> Working \cup {"idle", "expiring"}]
      /\ removed \in [Threads -> SUBSET Ids]
      /\ Offerers \subseteq Threads
      /\ \A h \in Offerers : mine[h] # 0 <=> pc[h] \in Working
  BY DEF TypeOK, Threads
<1>1. CASE Removal
  <2>1. PICK t \in Threads, S \in SUBSET Ids :
          /\ Removes(t, S)
          /\ t \in Offerers /\ pc[t] \in Working => pc[t] = "failed" /\ mine[t] \in S
    BY <1>1, RemovalSteps
  <2>2. ASSUME NEW h \in Offerers, pc'[h] \in Working
        PROVE  removed'[h] = {} \/ (pc'[h] = "failed" /\ mine'[h] \notin sessions')
    <3>1. CASE h = t
      BY <2>1, <2>2, <3>1 DEF Removes
    <3>2. CASE h # t
      BY <1>0, <2>1, <2>2, <3>2 DEF Removes, BusyInv
    <3>3. QED
      BY <3>1, <3>2
  <2>3. QED
    BY <2>2 DEF BusyInv
<1>2. CASE UNCHANGED vars \/ \E s \in StreamKeys : RegisterStreams({s})
  BY <1>2 DEF RegisterStreams, vars, BusyInv
<1>3. ASSUME NEW h \in Offerers, (\E s \in StreamKeys : ReceiveOffer(h, s)) \/ Refuse(h)
      PROVE  BusyInv'
  BY <1>0, <1>3 DEF ReceiveOffer, Refuse, BusyInv, Working
<1>4. ASSUME NEW h \in Offerers, Admit(h) PROVE BusyInv'
  BY <1>0, <1>4 DEF Admit, Checking, BusyInv, Working
<1>5. ASSUME NEW h \in Offerers, Insert(h) PROVE BusyInv'
  <2>1. /\ pc[h] = "admitted" /\ removed' = removed /\ mine' = mine
        /\ pc' = [pc EXCEPT ![h] = "inserted"] /\ sessions' = sessions \cup {mine[h]}
    BY <1>5 DEF Insert
  <2>2. removed[h] = {}
    BY <2>1 DEF BusyInv, Working
  <2>3. ASSUME NEW g \in Offerers, g # h, pc[g] \in Working PROVE mine[g] # mine[h]
    BY <1>0, <2>3 DEF OwnInv
  <2>4. QED
    BY <1>0, <2>1, <2>2, <2>3 DEF BusyInv, Working
<1>6. ASSUME NEW h \in Offerers, Building(h) PROVE BusyInv'
  <2>1. PICK next \in Working, state \in States :
          /\ Advance(h, next, state)
          /\ pc[h] \in {"inserted", "created", "started", "offered"}
    BY <1>6, BuildingSteps DEF Working, States
  <2>2. removed[h] = {}
    BY <2>1 DEF BusyInv, Working
  <2>3. QED
    BY <1>0, <2>1, <2>2 DEF Advance, BusyInv
<1>7. ASSUME NEW h \in Offerers, Return(h) PROVE BusyInv'
  <2>1. /\ pc' = [pc EXCEPT ![h] = "idle"] /\ mine' = [mine EXCEPT ![h] = 0]
        /\ UNCHANGED <<sessions, removed>>
    BY <1>7 DEF Return, Released
  <2>2. QED
    BY <1>0, <2>1 DEF BusyInv, Working, TypeOK
<1>8. ASSUME NEW t \in Threads, StopRemoved(t) PROVE BusyInv'
  BY <1>0, <1>8 DEF StopRemoved, BusyInv
<1>9. ASSUME NEW s \in StreamKeys, BeginPublish(s) \/ EndPublish(s) PROVE BusyInv'
  BY <1>9 DEF BeginPublish, EndPublish, BusyInv
<1>10. QED
  BY <1>1, <1>2, <1>3, <1>4, <1>5, <1>6, <1>7, <1>8, <1>9, Steps DEF Listening

LEMMA FreshInvInductive == TypeOK /\ OwnInv /\ BusyInv /\ FreshInv /\ [Next]_vars => FreshInv'
<1> SUFFICES ASSUME TypeOK, OwnInv, BusyInv, FreshInv, [Next]_vars PROVE FreshInv'
  OBVIOUS
<1>0. /\ nextId \in Nat /\ sessions \subseteq 1..(nextId - 1)
      /\ mine \in [Offerers -> 0..(nextId - 1)]
      /\ pc \in [Offerers -> Working \cup {"idle", "expiring"}]
      /\ removed \in [Threads -> SUBSET Ids]
      /\ \A h \in Offerers : mine[h] # 0 <=> pc[h] \in Working
  BY DEF TypeOK
<1>1. ASSUME UNCHANGED <<sessions, removed, nextId, mine>>,
             \A h \in Offerers : pc'[h] = "admitted" => pc[h] = "admitted"
      PROVE  FreshInv'
  BY <1>1 DEF FreshInv
<1>2. CASE Removal
  <2>1. PICK t \in Threads, S \in SUBSET Ids : Removes(t, S)
    BY <1>2, RemovalSteps
  <2>2. ASSUME NEW u \in Threads
        PROVE  /\ removed'[u] \cap sessions' = {} /\ removed'[u] \subseteq 1..(nextId - 1)
               /\ removed'[u] \subseteq removed[u] \cup sessions
    BY <1>0, <2>1 DEF Removes, FreshInv
  <2>3. QED
    BY <2>1, <2>2 DEF Removes, FreshInv
<1>3. CASE Listening \/ UNCHANGED vars
  BY <1>0, <1>1, <1>3 DEF Listening, ReceiveOffer, Refuse, RegisterStreams, vars
<1>4. ASSUME NEW h \in Offerers, Admit(h) PROVE FreshInv'
  <2>1. /\ UNCHANGED <<sessions, removed>> /\ mine' = [mine EXCEPT ![h] = nextId]
        /\ pc' = [pc EXCEPT ![h] = "admitted"] /\ nextId' = nextId + 1
    BY <1>4 DEF Admit
  <2>2. 1..(nextId - 1) \subseteq 1..(nextId' - 1) /\ nextId \notin 1..(nextId - 1)
    BY <1>0, <2>1
  <2>3. \A t \in Threads :
          removed'[t] \cap sessions' = {} /\ removed'[t] \subseteq 1..(nextId' - 1)
    BY <2>1, <2>2 DEF FreshInv
  <2>4. ASSUME NEW g \in Offerers, pc'[g] = "admitted"
        PROVE  mine'[g] \notin sessions /\ \A t \in Threads : mine'[g] \notin removed[t]
    <3>1. CASE g = h
      <4>1. mine'[g] = nextId
        BY <1>0, <2>1, <3>1
      <4>2. QED
        BY <1>0, <2>2, <4>1 DEF FreshInv
    <3>2. CASE g # h
      BY <1>0, <2>1, <2>4, <3>2 DEF FreshInv
    <3>3. QED
      BY <3>1, <3>2
  <2>5. QED
    BY <2>1, <2>3, <2>4 DEF FreshInv
<1>5. ASSUME NEW h \in Offerers, Insert(h) PROVE FreshInv'
  <2>1. /\ pc[h] = "admitted" /\ sessions' = sessions \cup {mine[h]}
        /\ pc' = [pc EXCEPT ![h] = "inserted"]
        /\ UNCHANGED <<nextId, mine, removed>>
    BY <1>5 DEF Insert
  <2>2. \A t \in Threads : removed[t] \cap sessions' = {}
    BY <2>1 DEF FreshInv
  <2>3. ASSUME NEW g \in Offerers, pc'[g] = "admitted"
        PROVE  mine[g] \notin sessions' /\ \A t \in Threads : mine[g] \notin removed[t]
    <3>1. g # h /\ pc[g] = "admitted"
      BY <1>0, <2>1, <2>3
    <3>2. mine[g] # mine[h]
      BY <1>0, <3>1 DEF OwnInv, Working
    <3>3. QED
      BY <2>1, <3>1, <3>2 DEF FreshInv
  <2>4. QED
    BY <2>1, <2>2, <2>3 DEF FreshInv
<1>6. ASSUME NEW h \in Offerers, Building(h) PROVE FreshInv'
  <2>1. PICK next \in {"created", "started", "offered", "answered", "failed", "hung"},
             state \in {"none", "created", "playing"} : Advance(h, next, state)
    BY <1>6, BuildingSteps
  <2>2. QED
    BY <1>0, <1>1, <2>1 DEF Advance
<1>7. ASSUME NEW h \in Offerers, Return(h) PROVE FreshInv'
  <2>1. /\ pc' = [pc EXCEPT ![h] = "idle"] /\ mine' = [mine EXCEPT ![h] = 0]
        /\ UNCHANGED <<sessions, removed, nextId>>
    BY <1>7 DEF Return, Released
  <2>2. QED
    BY <1>0, <2>1 DEF FreshInv
<1>8. ASSUME NEW t \in Threads, StopRemoved(t) PROVE FreshInv'
  <2>1. /\ removed' = [removed EXCEPT ![t] = {}]
        /\ UNCHANGED <<sessions, nextId, mine, pc>>
    BY <1>8 DEF StopRemoved
  <2>2. \A u \in Threads : removed'[u] \subseteq removed[u]
    BY <1>0, <2>1
  <2>3. QED
    BY <2>1, <2>2 DEF FreshInv
<1>9. ASSUME NEW s \in StreamKeys, BeginPublish(s) \/ EndPublish(s) PROVE FreshInv'
  BY <1>1, <1>9 DEF BeginPublish, EndPublish
<1>10. QED
  BY <1>2, <1>3, <1>4, <1>5, <1>6, <1>7, <1>8, <1>9, Steps

(* A step takes the pipeline of a session in the map only by its own offer. *)
LEMMA PipelineKept ==
  ASSUME TypeOK, BusyInv, FreshInv, [Next]_vars, NEW i \in Ids, i \in sessions', i \in sessions,
         \A h \in Offerers : ~(Building(h) /\ mine[h] = i)
  PROVE  pipeline'[i] = pipeline[i]
<1>0. pipeline \in [Ids -> States]
  BY DEF TypeOK, States
<1>1. CASE Removal
  BY <1>1, RemovalSteps DEF Removes
<1>2. CASE Listening \/ UNCHANGED vars
  BY <1>2 DEF Listening, ReceiveOffer, Refuse, RegisterStreams, vars
<1>3. ASSUME NEW h \in Offerers, Admit(h) \/ Insert(h) PROVE pipeline'[i] = pipeline[i]
  BY <1>3 DEF Admit, Insert
<1>4. ASSUME NEW h \in Offerers, Building(h) PROVE pipeline'[i] = pipeline[i]
  BY <1>0, <1>4, BuildingSteps DEF Advance
<1>5. Held(i)'
  BY DEF Held
<1>6. CASE pipeline' = Destructed(pipeline)
  BY <1>5, <1>6 DEF Destructed
<1>7. ASSUME NEW t \in Threads, StopRemoved(t) PROVE pipeline'[i] = pipeline[i]
  <2>1. i \notin removed[t]
    BY DEF FreshInv
  <2>2. QED
    BY <1>7, <2>1 DEF StopRemoved
<1>8. QED
  BY <1>1, <1>2, <1>3, <1>4, <1>6, <1>7, Steps DEF Return, BeginPublish, EndPublish

LEMMA LostInvInductive ==
  /\ TypeOK /\ OwnInv /\ BusyInv /\ FreshInv /\ LostInv /\ HungOnlyIfRemoved
  /\ [Next]_vars
  => LostInv' /\ HungOnlyIfRemoved'
<1> SUFFICES ASSUME TypeOK, OwnInv, BusyInv, FreshInv, LostInv, HungOnlyIfRemoved,
                    [Next]_vars,
                    NEW h \in Offerers, mine'[h] \in sessions'
             PROVE  /\ pc'[h] \in {"started", "offered"} => pipeline'[mine'[h]] # "none"
                    /\ pc'[h] # "hung"
  BY DEF LostInv, HungOnlyIfRemoved
<1> DEFINE Goal == /\ pc'[h] \in {"started", "offered"} => pipeline'[mine'[h]] # "none"
                   /\ pc'[h] # "hung"
           Negotiating == {"started", "offered", "hung"}
<1>0. /\ sessions \subseteq Ids /\ mine \in [Offerers -> 0..(nextId - 1)]
      /\ pc \in [Offerers -> Working \cup {"idle", "expiring"}]
      /\ pipeline \in [Ids -> States]
      /\ \A g \in Offerers : mine[g] # 0 <=> pc[g] \in Working
  BY PublisherAssumption DEF TypeOK, Ids, States
<1>1. ASSUME pc'[h] \in Negotiating => pc'[h] = pc[h] /\ mine'[h] = mine[h],
             pc'[h] \in Negotiating => mine[h] \in sessions,
             ~Building(h)
      PROVE  Goal
  <2>1. SUFFICES ASSUME pc'[h] \in Negotiating PROVE Goal
    OBVIOUS
  <2>2. pc[h] \in Negotiating /\ mine'[h] = mine[h] /\ mine[h] \in sessions /\ pc'[h] = pc[h]
    BY <1>1, <2>1
  <2>3. \A g \in Offerers : ~(Building(g) /\ mine[g] = mine[h])
    <3>1. pc[h] \in Working /\ mine[h] # 0
      BY <1>0, <2>2 DEF Working
    <3>2. QED
      BY <1>1, <3>1 DEF OwnInv
  <2>4. pipeline'[mine[h]] = pipeline[mine[h]]
    BY <1>0, <2>2, <2>3, PipelineKept
  <2>5. QED
    BY <2>2, <2>4 DEF LostInv, HungOnlyIfRemoved
<1>2. CASE Building(h)
  <2>1. PICK next \in {"created", "started", "offered", "answered", "failed", "hung"},
             state \in {"none", "created", "playing"} :
          /\ Advance(h, next, state)
          /\ next = "started" => state = "playing"
          /\ next = "offered" => /\ pc[h] = "started" /\ state = pipeline[mine[h]]
          /\ next = "hung" => /\ pc[h] \in {"started", "offered"}
                              /\ pipeline[mine[h]] = "none"
    BY <1>2, BuildingSteps
  <2>2. /\ pc'[h] = next /\ mine'[h] = mine[h] /\ sessions' = sessions
        /\ pipeline' = [pipeline EXCEPT ![mine[h]] = state]
    BY <1>0, <2>1 DEF Advance
  <2>3. mine[h] \in sessions /\ mine[h] \in Ids
    BY <1>0, <2>2
  <2>4. pipeline'[mine'[h]] = state
    BY <1>0, <2>2, <2>3
  <2>5. QED
    BY <2>1, <2>2, <2>3, <2>4 DEF LostInv
<1>3. CASE ~Building(h)
  <2>1. /\ pc'[h] \in Negotiating => pc'[h] = pc[h] /\ mine'[h] = mine[h]
        /\ pc'[h] \in Negotiating => mine[h] \in sessions
    <3>1. CASE Removal
      BY <3>1, RemovalSteps DEF Removes
    <3>2. CASE UNCHANGED vars \/ \E s \in StreamKeys : RegisterStreams({s})
      BY <3>2 DEF RegisterStreams, vars
    <3>3. ASSUME NEW g \in Offerers,
                 (\E s \in StreamKeys : ReceiveOffer(g, s)) \/ Refuse(g) \/ Admit(g)
          PROVE  /\ pc'[h] \in Negotiating => pc'[h] = pc[h] /\ mine'[h] = mine[h]
                 /\ pc'[h] \in Negotiating => mine[h] \in sessions
      BY <1>0, <3>3 DEF ReceiveOffer, Refuse, Admit
    <3>4. ASSUME NEW g \in Offerers, Insert(g)
          PROVE  /\ pc'[h] \in Negotiating => pc'[h] = pc[h] /\ mine'[h] = mine[h]
                 /\ pc'[h] \in Negotiating => mine[h] \in sessions
      <4>1. /\ pc' = [pc EXCEPT ![g] = "inserted"] /\ mine' = mine
            /\ sessions' = sessions \cup {mine[g]} /\ pc[g] = "admitted"
        BY <3>4 DEF Insert
      <4>2. SUFFICES ASSUME pc'[h] \in Negotiating PROVE mine[h] \in sessions /\ pc'[h] = pc[h]
        BY <4>1
      <4>3. h # g /\ pc'[h] = pc[h]
        BY <1>0, <4>1, <4>2
      <4>4. mine[h] # mine[g]
        BY <1>0, <4>2, <4>3 DEF OwnInv, Working
      <4>5. QED
        BY <4>1, <4>3, <4>4
    <3>5. ASSUME NEW g \in Offerers, Building(g)
          PROVE  /\ pc'[h] \in Negotiating => pc'[h] = pc[h] /\ mine'[h] = mine[h]
                 /\ pc'[h] \in Negotiating => mine[h] \in sessions
      <4>1. g # h
        BY <1>3, <3>5
      <4>2. QED
        BY <1>0, <3>5, <4>1, BuildingSteps DEF Advance
    <3>6. ASSUME NEW g \in Offerers, Return(g)
          PROVE  /\ pc'[h] \in Negotiating => pc'[h] = pc[h] /\ mine'[h] = mine[h]
                 /\ pc'[h] \in Negotiating => mine[h] \in sessions
      BY <1>0, <3>6 DEF Return, Released
    <3>7. CASE \/ \E t \in Threads : StopRemoved(t)
               \/ \E s \in StreamKeys : BeginPublish(s) \/ EndPublish(s)
      BY <3>7 DEF StopRemoved, BeginPublish, EndPublish
    <3>8. QED
      BY <3>1, <3>2, <3>3, <3>4, <3>5, <3>6, <3>7, Steps DEF Listening
  <2>2. QED
    BY <1>1, <1>3, <2>1
<1>4. QED
  BY <1>2, <1>3

(* Whoever lets go of a session hands it on, stops it or is not the last.   *)
LEMMA NoOrphanInductive ==
  ASSUME TypeOK, BusyInv, NoOrphanPipeline, [Next]_vars
  PROVE  NoOrphanPipeline'
<1> SUFFICES ASSUME NEW i \in Ids, pipeline'[i] # "none" PROVE Held(i)'
  BY DEF NoOrphanPipeline
<1>0. /\ sessions \subseteq Ids /\ mine \in [Offerers -> 0..(nextId - 1)]
      /\ removed \in [Threads -> SUBSET Ids] /\ targets \in [StreamKeys -> SUBSET Ids]
      /\ pipeline \in [Ids -> States] /\ nextId \in Nat /\ nextId > 0
      /\ \A h \in Offerers : mine[h] # 0 <=> pc[h] \in Working
  BY PublisherAssumption DEF TypeOK, Ids, States
<1>1. ASSUME pipeline'[i] = pipeline[i], Held(i) => Held(i)' PROVE Held(i)'
  BY <1>1 DEF NoOrphanPipeline
<1>2. CASE Removal
  <2>1. PICK t \in Threads, S \in SUBSET Ids : Removes(t, S)
    BY <1>2, RemovalSteps
  <2>2. i \in sessions => i \in sessions' \/ i \in removed'[t]
    BY <1>0, <2>1 DEF Removes
  <2>3. \A u \in Threads : i \in removed[u] => i \in removed'[u]
    BY <1>0, <2>1 DEF Removes
  <2>4. Held(i) => Held(i)'
    BY <2>1, <2>2, <2>3 DEF Held, Removes
  <2>5. QED
    BY <1>1, <2>1, <2>4 DEF Removes
<1>3. CASE Listening \/ UNCHANGED vars
  BY <1>1, <1>3 DEF Listening, ReceiveOffer, Refuse, RegisterStreams, vars, Held
<1>4. ASSUME NEW h \in Offerers, Admit(h) PROVE Held(i)'
  <2>1. \A g \in Offerers : mine[g] = i => mine'[g] = i
    <3>1. pc[h] \notin Working /\ mine[h] = 0
      BY <1>0, <1>4 DEF Admit, Checking, Working
    <3>2. i # 0
      BY PublisherAssumption DEF Ids
    <3>3. QED
      BY <1>0, <1>4, <3>1, <3>2 DEF Admit
  <2>2. Held(i) => Held(i)'
    BY <1>4, <2>1 DEF Admit, Held
  <2>3. QED
    BY <1>1, <1>4, <2>2 DEF Admit
<1>5. ASSUME NEW h \in Offerers, Insert(h) PROVE Held(i)'
  BY <1>1, <1>5 DEF Insert, Held
<1>6. ASSUME NEW h \in Offerers, Building(h) PROVE Held(i)'
  <2>1. PICK next \in {"created", "started", "offered", "answered", "failed", "hung"},
             state \in {"none", "created", "playing"} : Advance(h, next, state)
    BY <1>6, BuildingSteps
  <2>2. CASE mine[h] = i
    BY <2>1, <2>2 DEF Advance, Held
  <2>3. CASE mine[h] # i
    BY <1>0, <1>1, <2>1, <2>3 DEF Advance, Held
  <2>4. QED
    BY <2>2, <2>3
<1>7. CASE pipeline' = Destructed(pipeline)
  BY <1>7 DEF Destructed
<1>8. ASSUME NEW t \in Threads, StopRemoved(t) PROVE Held(i)'
  <2>1. /\ removed' = [removed EXCEPT ![t] = {}]
        /\ pipeline' = [j \in Ids |-> IF j \in removed[t] THEN "none" ELSE pipeline[j]]
        /\ UNCHANGED <<sessions, mine, targets>>
    BY <1>8 DEF StopRemoved
  <2>2. i \notin removed[t] /\ pipeline'[i] = pipeline[i]
    BY <2>1
  <2>3. \A u \in Threads : i \in removed[u] => i \in removed'[u]
    BY <1>0, <2>1, <2>2
  <2>4. Held(i) => Held(i)'
    BY <2>1, <2>3 DEF Held
  <2>5. QED
    BY <1>1, <2>2, <2>4
<1>9. ASSUME NEW s \in StreamKeys, BeginPublish(s) PROVE Held(i)'
  <2>1. \A u \in StreamKeys : i \in targets[u] => i \in targets'[u]
    BY <1>0, <1>9 DEF BeginPublish
  <2>2. Held(i) => Held(i)'
    BY <1>9, <2>1 DEF BeginPublish, Held
  <2>3. QED
    BY <1>1, <1>9, <2>2 DEF BeginPublish
<1>10. QED
  BY <1>2, <1>3, <1>4, <1>5, <1>6, <1>7, <1>8, <1>9, Steps DEF Return, EndPublish

(* The invariant holds at the start and every step preserves it.            *)
LEMMA InvHolds == Spec => []Inv
<1>1. Init => Inv
  <2> SUFFICES ASSUME Init PROVE Inv
    OBVIOUS
  <2>1. AnyKey \in StreamKeys
    BY PublisherAssumption DEF AnyKey
  <2>2. /\ registered = {} /\ sessions = {} /\ nextId = 1
        /\ key = [i \in Ids |-> AnyKey] /\ pipeline = [i \in Ids |-> "none"]
        /\ pc = [h \in Offerers |-> "idle"] /\ wanted = [h \in Offerers |-> AnyKey]
        /\ mine = [h \in Offerers |-> 0] /\ expired = [h \in Offerers |-> {}]
        /\ removed = [t \in Threads |-> {}] /\ targets = [s \in StreamKeys |-> {}]
    BY DEF Init, Blank
  <2>3. nextId \in 1..(MaxSessions + 1) /\ 0 \in 0..(nextId - 1)
    BY <2>2, PublisherAssumption
  <2>4. TypeOK
    BY <2>1, <2>2, <2>3 DEF TypeOK, Working
  <2>5. BusyInv /\ OwnInv /\ FreshInv /\ LostInv
    BY <2>2 DEF BusyInv, OwnInv, FreshInv, LostInv, Working
  <2>6. NoOrphanPipeline /\ HungOnlyIfRemoved
    BY <2>2 DEF NoOrphanPipeline, HungOnlyIfRemoved
  <2>7. QED
    BY <2>4, <2>5, <2>6 DEF Inv
<1>2. Inv /\ [Next]_vars => Inv'
  <2> SUFFICES ASSUME Inv, [Next]_vars PROVE Inv'
    OBVIOUS
  <2>1. TypeOK /\ BusyInv /\ OwnInv /\ FreshInv /\ LostInv /\ NoOrphanPipeline /\ HungOnlyIfRemoved
    BY DEF Inv
  <2>2. TypeOK' /\ BusyInv' /\ OwnInv' /\ FreshInv'
    BY <2>1, TypeOKInductive, BusyInvInductive, OwnInvInductive, FreshInvInductive
  <2>3. LostInv' /\ HungOnlyIfRemoved'
    BY <2>1, LostInvInductive
  <2>4. NoOrphanPipeline'
    BY <2>1, NoOrphanInductive
  <2>5. QED
    BY <2>2, <2>3, <2>4 DEF Inv
<1>3. QED
  BY <1>1, <1>2, PTL DEF Spec

(* A pipeline runs only while some thread, the map or the encoder thread of *)
(* a stream has its session, however offers, deletions, expiry and the end  *)
(* of the pipeline overlap.                                                 *)
THEOREM NoOrphan == Spec => []NoOrphanPipeline
<1>1. Inv => NoOrphanPipeline
  BY DEF Inv
<1>2. QED
  BY <1>1, InvHolds, PTL

(* An offer waits for ever for webrtcbin only if its session was taken out  *)
(* of the map while it was being negotiated.                                *)
THEOREM OfferHangsOnlyIfRemoved == Spec => []HungOnlyIfRemoved
<1>1. Inv => HungOnlyIfRemoved
  BY DEF Inv
<1>2. QED
  BY <1>1, InvHolds, PTL

-----------------------------------------------------------------------------
(* The limit of peers: an offer that was admitted takes a place although    *)
(* its session is not in the map yet.                                       *)
Pending(s) == {h \in Offerers : pc[h] = "admitted" /\ key[mine[h]] = s}

Places(s) == Cardinality(Peers(s)) + Cardinality(Pending(s))
RoomInv == \A s \in StreamKeys : Places(s) <= MaxPeers + Cardinality(Offerers) - 1

LEMMA PlacesFinite ==
  ASSUME TypeOK, NEW s \in StreamKeys
  PROVE  /\ IsFiniteSet(Peers(s)) /\ Cardinality(Peers(s)) \in Nat
         /\ IsFiniteSet(Pending(s)) /\ Cardinality(Pending(s)) \in Nat
         /\ Cardinality(Pending(s)) <= Cardinality(Offerers) /\ Cardinality(Offerers) \in Nat
<1>1. IsFiniteSet(1..MaxSessions)
  BY PublisherAssumption, FS_Interval
<1>2. Peers(s) \subseteq 1..MaxSessions
  <2>1. sessions \subseteq 1..(nextId - 1) /\ nextId \in 1..(MaxSessions + 1)
    BY DEF TypeOK
  <2>2. \A i \in 1..(nextId - 1) : i \in 1..MaxSessions
    BY <2>1, PublisherAssumption
  <2>3. QED
    BY <2>1, <2>2 DEF Peers
<1>3. Pending(s) \subseteq Offerers /\ IsFiniteSet(Offerers)
  BY PublisherAssumption DEF Pending
<1>4. QED
  BY <1>1, <1>2, <1>3, FS_Subset, FS_CardinalityType

(* No step but Admit and Insert takes a place.                              *)
LEMMA PlacesKept ==
  ASSUME TypeOK, RoomInv, NEW s \in StreamKeys,
         Peers(s)' \subseteq Peers(s), Pending(s)' \subseteq Pending(s)
  PROVE  Places(s)' <= MaxPeers + Cardinality(Offerers) - 1
<1>1. /\ Cardinality(Peers(s)') <= Cardinality(Peers(s)) /\ Cardinality(Peers(s)') \in Nat
      /\ Cardinality(Pending(s)') <= Cardinality(Pending(s)) /\ Cardinality(Pending(s)') \in Nat
  BY PlacesFinite, FS_Subset, FS_CardinalityType
<1>2. Cardinality(Peers(s)) + Cardinality(Pending(s)) <= MaxPeers + Cardinality(Offerers) - 1
  BY DEF RoomInv, Places
<1>3. \A a, b, c, d, m \in Int : a <= b /\ c <= d /\ b + d <= m => a + c <= m
  OBVIOUS
<1>4. MaxPeers + Cardinality(Offerers) - 1 \in Int
  BY PlacesFinite, PublisherAssumption
<1>5. Cardinality(Peers(s)') + Cardinality(Pending(s)') <= MaxPeers + Cardinality(Offerers) - 1
  BY <1>1, <1>2, <1>3, <1>4, PlacesFinite
<1>6. QED
  BY <1>5 DEF Places

LEMMA RoomInvInductive ==
  TypeOK /\ OwnInv /\ BusyInv /\ FreshInv /\ RoomInv /\ [Next]_vars => RoomInv'
<1> SUFFICES ASSUME TypeOK, OwnInv, BusyInv, FreshInv, RoomInv, [Next]_vars,
                    NEW s \in StreamKeys
             PROVE  Places(s)' <= MaxPeers + Cardinality(Offerers) - 1
  BY DEF RoomInv
<1> DEFINE Goal == Places(s)' <= MaxPeers + Cardinality(Offerers) - 1
<1>0. /\ nextId \in Nat /\ sessions \subseteq 1..(nextId - 1)
      /\ mine \in [Offerers -> 0..(nextId - 1)] /\ key \in [Ids -> StreamKeys]
      /\ pc \in [Offerers -> Working \cup {"idle", "expiring"}]
      /\ \A h \in Offerers : mine[h] # 0 <=> pc[h] \in Working
  BY DEF TypeOK
<1>1. ASSUME sessions' \subseteq sessions, key' = key,
             \A h \in Offerers : pc'[h] = "admitted" => pc[h] = "admitted" /\ mine'[h] = mine[h]
      PROVE  Goal
  <2>1. Peers(s)' \subseteq Peers(s) /\ Pending(s)' \subseteq Pending(s)
    BY <1>1 DEF Peers, Pending
  <2>2. QED
    BY <2>1, PlacesKept
<1>2. CASE Removal
  BY <1>1, <1>2, RemovalSteps DEF Removes
<1>3. CASE Listening \/ UNCHANGED vars
  BY <1>0, <1>1, <1>3 DEF Listening, ReceiveOffer, Refuse, RegisterStreams, vars
<1>4. ASSUME NEW h \in Offerers, Admit(h) PROVE Goal
  <2>1. /\ sessions' = sessions /\ mine' = [mine EXCEPT ![h] = nextId]
        /\ key' = [key EXCEPT ![nextId] = wanted[h]] /\ pc' = [pc EXCEPT ![h] = "admitted"]
        /\ HasRoom(wanted[h]) /\ nextId \in Ids /\ nextId \notin sessions
        /\ sessions \subseteq Ids
    BY <1>0, <1>4, PublisherAssumption DEF Admit, Ids
  <2>2. Peers(s)' = Peers(s)
    BY <1>0, <2>1 DEF Peers
  <2>3. CASE s = wanted[h]
    <3>1. Cardinality(Peers(s)) < MaxPeers
      BY <2>1, <2>3 DEF HasRoom
    <3>2. Pending(s)' \subseteq Offerers
      BY DEF Pending
    <3>3. Cardinality(Pending(s)') <= Cardinality(Offerers) /\ Cardinality(Pending(s)') \in Nat
      BY <3>2, PublisherAssumption, FS_Subset, FS_CardinalityType
    <3>4. \A a, b, c, m \in Int : a < m /\ b <= c => a + b <= m + c - 1
      OBVIOUS
    <3>5. Cardinality(Peers(s)) + Cardinality(Pending(s)') <= MaxPeers + Cardinality(Offerers) - 1
      BY <3>1, <3>3, <3>4, PlacesFinite, PublisherAssumption
    <3>6. QED
      BY <2>2, <3>5 DEF Places
  <2>4. CASE s # wanted[h]
    <3>1. ASSUME NEW g \in Pending(s)' PROVE g \in Pending(s)
      <4>1. g \in Offerers /\ pc'[g] = "admitted" /\ key'[mine'[g]] = s
        BY <3>1 DEF Pending
      <4>2. g # h
        BY <1>0, <2>1, <2>4, <4>1
      <4>3. mine'[g] = mine[g] /\ pc'[g] = pc[g] /\ mine[g] # nextId /\ mine[g] # 0
        BY <1>0, <2>1, <4>1, <4>2 DEF Working
      <4>4. key'[mine[g]] = key[mine[g]]
        BY <1>0, <2>1, <4>3 DEF Ids
      <4>5. QED
        BY <4>1, <4>3, <4>4 DEF Pending
    <3>2. QED
      BY <2>2, <3>1, PlacesKept
  <2>5. QED
    BY <2>3, <2>4
<1>5. ASSUME NEW h \in Offerers, Insert(h) PROVE Goal
  <2>1. /\ pc[h] = "admitted" /\ sessions' = sessions \cup {mine[h]} /\ mine[h] \notin sessions
        /\ pc' = [pc EXCEPT ![h] = "inserted"] /\ UNCHANGED <<mine, key>>
    BY <1>5 DEF Insert, FreshInv
  <2>2. CASE key[mine[h]] # s
    <3>1. Peers(s)' \subseteq Peers(s) /\ Pending(s)' \subseteq Pending(s)
      BY <1>0, <2>1, <2>2 DEF Peers, Pending
    <3>2. QED
      BY <3>1, PlacesKept
  <2>3. CASE key[mine[h]] = s
    <3>1. Peers(s)' = Peers(s) \cup {mine[h]} /\ mine[h] \notin Peers(s)
      BY <2>1, <2>3 DEF Peers
    <3>2. Pending(s)' = Pending(s) \ {h} /\ h \in Pending(s)
      BY <1>0, <2>1, <2>3 DEF Pending
    <3>3. Cardinality(Peers(s)') = Cardinality(Peers(s)) + 1
      BY <3>1, PlacesFinite, FS_AddElement
    <3>4. Cardinality(Pending(s)') = Cardinality(Pending(s)) - 1
      BY <3>2, PlacesFinite, FS_RemoveElement
    <3>5. Cardinality(Peers(s)') + Cardinality(Pending(s)') = Places(s)
      BY <3>3, <3>4, PlacesFinite DEF Places
    <3>6. QED
      BY <3>5 DEF Places, RoomInv
  <2>4. QED
    BY <2>2, <2>3
<1>6. ASSUME NEW h \in Offerers, Building(h) PROVE Goal
  <2>1. PICK next \in {"created", "started", "offered", "answered", "failed", "hung"},
             state \in {"none", "created", "playing"} : Advance(h, next, state)
    BY <1>6, BuildingSteps
  <2>2. QED
    BY <1>0, <1>1, <2>1 DEF Advance
<1>7. ASSUME NEW h \in Offerers, Return(h) PROVE Goal
  BY <1>0, <1>1, <1>7 DEF Return, Released
<1>8. CASE \/ \E t \in Threads : StopRemoved(t)
           \/ \E k \in StreamKeys : BeginPublish(k) \/ EndPublish(k)
  BY <1>1, <1>8 DEF StopRemoved, BeginPublish, EndPublish
<1>9. QED
  BY <1>2, <1>3, <1>4, <1>5, <1>6, <1>7, <1>8, Steps

(* The limit of peers can be exceeded by the offers that are handled at the *)
(* same time but one, because each tests it before its session is inserted. *)
THEOREM PeersLimited == Spec => []PeersBounded
<1>1. Init => RoomInv
  <2> SUFFICES ASSUME Init, NEW s \in StreamKeys
               PROVE  Places(s) <= MaxPeers + Cardinality(Offerers) - 1
    BY DEF RoomInv
  <2>1. Peers(s) = {} /\ Pending(s) = {}
    BY DEF Init, Blank, Peers, Pending
  <2>2. Cardinality({}) = 0 /\ Cardinality(Offerers) \in Nat
    BY PublisherAssumption, FS_EmptySet, FS_CardinalityType
  <2>3. QED
    BY <2>1, <2>2, PublisherAssumption DEF Places
<1>2. Inv /\ RoomInv /\ [Next]_vars => RoomInv'
  BY RoomInvInductive DEF Inv
<1>3. Inv /\ RoomInv => PeersBounded
  <2> SUFFICES ASSUME TypeOK, RoomInv, NEW s \in StreamKeys
               PROVE  Cardinality(Peers(s)) <= MaxPeers + Cardinality(Offerers) - 1
    BY DEF Inv, PeersBounded
  <2>1. Cardinality(Peers(s)) <= Places(s) /\ Places(s) \in Int
    BY PlacesFinite DEF Places
  <2>2. \A a, b, m \in Int : a <= b /\ b <= m => a <= m
    OBVIOUS
  <2>3. QED
    BY <2>1, <2>2, PlacesFinite, PublisherAssumption DEF RoomInv
<1>4. QED
  BY <1>1, <1>2, <1>3, InvHolds, PTL DEF Spec
=============================================================================
