----------------------- MODULE PipelineRuntime_proofs -----------------------
(***************************************************************************)
(* Proofs about PipelineRuntime: the bounded queues keep their capacity    *)
(* and account for what they drop; stop() leaves no thread behind,         *)
(* whatever start() had got to; nothing of one run appears in the next;    *)
(* one anonymizer publishes every stream in its order; and no committed    *)
(* frame is lost without being counted.                                    *)
(***************************************************************************)
EXTENDS PipelineRuntime, FiniteSetTheorems, WellFoundedInduction, TLAPS

-----------------------------------------------------------------------------
(* Bounded queues.                                                          *)

(* A push keeps the type and the capacity of a queue: push_drop_oldest.     *)
LEMMA PushKeepsQueue ==
  ASSUME NEW E, NEW q, NEW x \in E, IsQueue(q, E)
  PROVE  /\ IsQueue(PushDropOldest(q, x), E)
         /\ PushDropOldest(q, x).cap = q.cap
<1> DEFINE R == [items : Seq(E), cap : Nat, dropped : Nat, stopped : BOOLEAN]
<1>1. /\ q \in R /\ q.items \in Seq(E) /\ q.cap \in Nat /\ q.dropped \in Nat
      /\ Len(q.items) <= q.cap /\ Len(q.items) \in Nat
  BY DEF IsQueue
<1>2. CASE ~Accepts(q)
  BY <1>1, <1>2 DEF PushDropOldest, IsQueue
<1>3. CASE Accepts(q) /\ IsFull(q)
  <2>1. q.items # <<>> /\ Len(Tail(q.items)) = Len(q.items) - 1 /\ Tail(q.items) \in Seq(E)
    BY <1>1, <1>3 DEF Accepts, IsFull
  <2>2. /\ Append(Tail(q.items), x) \in Seq(E)
        /\ Len(Append(Tail(q.items), x)) = Len(q.items)
    BY <1>1, <2>1
  <2>3. PushDropOldest(q, x)
        = [q EXCEPT !.items = Append(Tail(q.items), x), !.dropped = q.dropped + 1]
    BY <1>3 DEF PushDropOldest
  <2>4. PushDropOldest(q, x)
        = [items |-> Append(Tail(q.items), x), cap |-> q.cap,
           dropped |-> q.dropped + 1, stopped |-> q.stopped]
    BY <1>1, <2>3
  <2> QED
    BY <1>1, <2>2, <2>4 DEF IsQueue
<1>4. CASE Accepts(q) /\ ~IsFull(q)
  <2>1. /\ Append(q.items, x) \in Seq(E)
        /\ Len(Append(q.items, x)) = Len(q.items) + 1
    BY <1>1
  <2>2. Len(q.items) + 1 <= q.cap
    BY <1>1, <1>4 DEF IsFull
  <2>3. PushDropOldest(q, x)
        = [items |-> Append(q.items, x), cap |-> q.cap,
           dropped |-> q.dropped, stopped |-> q.stopped]
    BY <1>1, <1>4 DEF PushDropOldest
  <2> QED
    BY <1>1, <2>1, <2>2, <2>3 DEF IsQueue
<1> QED
  BY <1>2, <1>3, <1>4

(* Taking the oldest element keeps the queue's type and yields an element.  *)
LEMMA PopKeepsQueue ==
  ASSUME NEW E, NEW q, IsQueue(q, E), q.items # <<>>
  PROVE  /\ IsQueue(Popped(q), E)
         /\ Popped(q).cap = q.cap
         /\ Oldest(q) \in E
<1>1. /\ q \in [items : Seq(E), cap : Nat, dropped : Nat, stopped : BOOLEAN]
      /\ q.items \in Seq(E) /\ q.cap \in Nat /\ Len(q.items) <= q.cap
  BY DEF IsQueue
<1>2. /\ Tail(q.items) \in Seq(E) /\ Len(Tail(q.items)) = Len(q.items) - 1
      /\ Head(q.items) \in E
  BY <1>1
<1>3. /\ Popped(q) \in [items : Seq(E), cap : Nat, dropped : Nat, stopped : BOOLEAN]
      /\ Popped(q).items = Tail(q.items) /\ Popped(q).cap = q.cap
  BY <1>1, <1>2 DEF Popped
<1>4. Len(q.items) \in Nat /\ Len(q.items) - 1 <= q.cap
  BY <1>1
<1> QED
  BY <1>2, <1>3, <1>4 DEF Oldest, IsQueue

(* How many elements a push makes a queue lose, and which are left.         *)
Loses(q) == IF Len(q.items) = q.cap THEN 1 ELSE 0
Kept(q) == IF Len(q.items) = q.cap THEN Tail(q.items) ELSE q.items

LEMMA PushAppends ==
  ASSUME NEW E, NEW q, NEW x \in E, IsQueue(q, E), Accepts(q)
  PROVE  /\ Kept(q) \in Seq(E) /\ Len(Kept(q)) = Len(q.items) - Loses(q)
         /\ PushDropOldest(q, x) = [items |-> Append(Kept(q), x), cap |-> q.cap,
                                    dropped |-> q.dropped + Loses(q), stopped |-> q.stopped]
<1>1. /\ q \in [items : Seq(E), cap : Nat, dropped : Nat, stopped : BOOLEAN]
      /\ q.items \in Seq(E) /\ q.cap \in Nat /\ q.cap > 0 /\ q.dropped \in Nat
      /\ Len(q.items) \in Nat /\ Len(q.items) <= q.cap
  BY DEF IsQueue, Accepts
<1>2. CASE Len(q.items) = q.cap
  <2>1. Kept(q) = Tail(q.items) /\ Loses(q) = 1
    BY <1>2 DEF Kept, Loses
  <2>2. q.items # <<>> /\ Tail(q.items) \in Seq(E) /\ Len(Tail(q.items)) = Len(q.items) - 1
    BY <1>1, <1>2
  <2>3. PushDropOldest(q, x) = [items |-> Append(Tail(q.items), x), cap |-> q.cap,
                                dropped |-> q.dropped + 1, stopped |-> q.stopped]
    BY <1>1, <1>2 DEF PushDropOldest, IsFull
  <2> QED
    BY <2>1, <2>2, <2>3
<1>3. CASE Len(q.items) # q.cap
  <2>1. ~IsFull(q) /\ Kept(q) = q.items /\ Loses(q) = 0
    BY <1>1, <1>3 DEF IsFull, Kept, Loses
  <2>2. PushDropOldest(q, x) = [items |-> Append(q.items, x), cap |-> q.cap,
                                dropped |-> q.dropped, stopped |-> q.stopped]
    BY <1>1, <2>1 DEF PushDropOldest
  <2>3. q.dropped + Loses(q) = q.dropped /\ Len(q.items) - Loses(q) = Len(q.items)
    BY <1>1, <2>1
  <2> QED
    BY <1>1, <2>1, <2>2, <2>3
<1> QED
  BY <1>2, <1>3

(* A push into a running queue never exceeds its capacity; it takes the     *)
(* oldest element away exactly if the queue was full, counts that, and      *)
(* keeps all others in their order before the new one: push_drop_oldest.    *)
THEOREM PushDropsOldestOnly ==
  ASSUME NEW E, NEW q, NEW x \in E, IsQueue(q, E), Accepts(q)
  PROVE  LET p == PushDropOldest(q, x)
         IN  /\ IsQueue(p, E) /\ p.cap = q.cap /\ p.stopped = q.stopped
             /\ p.dropped = q.dropped + Loses(q)
             /\ Len(p.items) = Len(q.items) - Loses(q) + 1
             /\ \A i \in 1..Len(q.items) : i > Loses(q) => p.items[i - Loses(q)] = q.items[i]
             /\ p.items[Len(p.items)] = x
<1> DEFINE p == PushDropOldest(q, x)
<1>1. IsQueue(p, E) /\ p.cap = q.cap
  BY PushKeepsQueue
<1>2. q.items \in Seq(E) /\ Len(q.items) \in Nat /\ Loses(q) \in {0, 1}
  BY DEF IsQueue, Loses
<1>3. Kept(q) \in Seq(E) /\ Len(Kept(q)) = Len(q.items) - Loses(q)
  BY PushAppends
<1>4. /\ p.items = Append(Kept(q), x) /\ p.stopped = q.stopped
      /\ p.dropped = q.dropped + Loses(q)
  BY PushAppends
<1> HIDE DEF p
<1>5. Len(p.items) = Len(q.items) - Loses(q) + 1 /\ p.items[Len(p.items)] = x
  BY <1>2, <1>3, <1>4
<1>6. ASSUME NEW i \in 1..Len(q.items), i > Loses(q) PROVE p.items[i - Loses(q)] = q.items[i]
  <2>1. i - Loses(q) \in 1..Len(Kept(q))
    BY <1>2, <1>3, <1>6
  <2>2. Kept(q)[i - Loses(q)] = q.items[i]
    <3>1. CASE Len(q.items) = q.cap
      BY <1>2, <1>6, <3>1 DEF Kept, Loses
    <3>2. CASE Len(q.items) # q.cap
      BY <1>2, <1>6, <3>2 DEF Kept, Loses
    <3> QED
      BY <3>1, <3>2
  <2> QED
    BY <1>3, <1>4, <2>1, <2>2
<1> QED
  BY <1>1, <1>4, <1>5, <1>6 DEF p

(* So it holds, or has counted as dropped, one element more than before.    *)
LEMMA PushAccountsForDrop ==
  ASSUME NEW E, NEW q, NEW x \in E, IsQueue(q, E), Accepts(q)
  PROVE  Held(PushDropOldest(q, x)) = Held(q) + 1
<1> DEFINE p == PushDropOldest(q, x)
<1>1. Len(q.items) \in Nat /\ q.dropped \in Nat /\ Loses(q) \in {0, 1}
  BY DEF IsQueue, Loses
<1>2. Kept(q) \in Seq(E) /\ Len(Kept(q)) = Len(q.items) - Loses(q)
  BY PushAppends
<1>3. p.items = Append(Kept(q), x) /\ p.dropped = q.dropped + Loses(q)
  BY PushAppends
<1> HIDE DEF p
<1>4. Len(p.items) = Len(q.items) - Loses(q) + 1
  BY <1>1, <1>2, <1>3
<1>5. Len(p.items) + p.dropped = Len(q.items) + q.dropped + 1
  BY <1>1, <1>3, <1>4
<1> QED
  BY <1>5 DEF Held, p

-----------------------------------------------------------------------------
(* Threads.                                                                 *)

(* Which threads may exist at each point of start() and stop(): the pools   *)
(* first, then those of the pipes start() has come to, the metrics thread   *)
(* last; and, once stop() joins, those it has not come to.                  *)
NoPipeThreadBut(S) == \A t \in PipeThread : t[2] \notin S => thread[t] = "absent"
NoPool(T) == \A t \in T : thread[t] = "absent"

ThreadInv ==
  /\ ctl \in Calls
  /\ DOMAIN thread = Thread
  /\ ctl = "stopped" => NoPipeThreadBut({}) /\ NoPool(Pools)
  /\ ctl = "workers" => NoPipeThreadBut({})
  /\ ctl = "streams" => NoPipeThreadBut(pipes) /\ todo \subseteq pipes
  /\ ctl \in {"running", "stopQueues", "stopPipes"} => NoPipeThreadBut(pipes)
  /\ ctl = "joinPipes" => NoPipeThreadBut(todo)
  /\ ctl = "joinPools" => NoPipeThreadBut({})

(* No step of a thread brings a thread into being, and none moves start()   *)
(* or stop() on.                                                            *)
LEMMA StepKeepsAbsent ==
  ASSUME NEW t \in Thread, Step(t), DOMAIN thread = Thread
  PROVE  /\ UNCHANGED control
         /\ DOMAIN thread' = Thread
         /\ \A u \in Thread : thread[u] = "absent" => thread'[u] = "absent"
<1>1. \A u, from, to : Goes(u, from, to) /\ from # "absent" =>
        /\ DOMAIN thread' = Thread
        /\ \A v \in Thread : thread[v] = "absent" => thread'[v] = "absent"
  BY DEF Goes
<1>2. \A u, from : Loop(u, from) /\ from # "absent" =>
        /\ DOMAIN thread' = Thread
        /\ \A v \in Thread : thread[v] = "absent" => thread'[v] = "absent"
  BY <1>1 DEF Loop
<1> QED
  BY <1>1, <1>2 DEF Step, Idle, TakeTask, Anonymized, OpenSource, ReadFrame, Commit,
                    TakeResult, Publish, control

(* The threads of different kinds are different.                            *)
LEMMA Kinds ==
  /\ Thread = PipeThread \cup Pools
  /\ PipeThread \cap Pools = {}
  /\ WorkerThread \cap AnonymizerThread = {}
  /\ MetricsThread \notin WorkerThread \cup AnonymizerThread
  /\ \A t \in PipeThread : t[1] \in {"ingest", "coordinator", "encoder"} /\ t[2] \in Streams
  /\ \A x \in {"ingest", "coordinator", "encoder"}, s \in Streams : <<x, s>> \in PipeThread
BY DEF Thread, PipeThread, Pools, WorkerThread, AnonymizerThread, MetricsThread

(* The threads' invariant holds initially and every step of start(), stop() *)
(* and the threads keeps it.                                                *)
LEMMA ThreadInvInductive ==
  /\ Init => ThreadInv
  /\ ThreadInv /\ [Next]_vars => ThreadInv'
<1>1. Init => ThreadInv
  BY Kinds DEF Init, ThreadInv, Calls, NoPipeThreadBut, NoPool
<1>2. ASSUME ThreadInv, [Next]_vars PROVE ThreadInv'
  <2> USE DEF ThreadInv, NoPipeThreadBut, NoPool, Calls
  <2>1. ASSUME NEW S \in SUBSET Streams, Configure(S) PROVE ThreadInv'
    BY <1>2, <2>1 DEF Configure
  <2>2. ASSUME AnonymizerInitFails PROVE ThreadInv'
    BY <1>2, <2>2 DEF AnonymizerInitFails, control
  <2>3. ASSUME NEW t \in WorkerThread, SpawnWorker(t) PROVE ThreadInv'
    <3>1. t \notin PipeThread
      BY Kinds DEF Pools
    <3> QED
      BY <1>2, <2>3, <3>1 DEF SpawnWorker, Goes, control
  <2>4. ASSUME WorkerInitFails PROVE ThreadInv'
    BY <1>2, <2>4, Kinds DEF WorkerInitFails
  <2>5. ASSUME SpawnAnonymizers PROVE ThreadInv'
    <3>1. \A t \in PipeThread : t \notin AnonymizerThread /\ t \in Thread
      BY Kinds DEF Pools
    <3> QED
      BY <1>2, <2>5, <3>1 DEF SpawnAnonymizers
  <2>6. ASSUME NEW s \in Streams, SpawnStream(s) PROVE ThreadInv'
    <3>1. ctl = "streams" /\ ctl' = "streams" /\ pipes' = pipes /\ todo' \subseteq pipes /\ s \in pipes
      BY <1>2, <2>6 DEF SpawnStream, IsNext
    <3>2. \A t \in PipeThread : t[2] # s => thread'[t] = thread[t]
      BY <1>2, <2>6, Kinds DEF SpawnStream
    <3>3. DOMAIN thread' = Thread
      BY <1>2, <2>6 DEF SpawnStream
    <3> QED
      BY <1>2, <3>1, <3>2, <3>3
  <2>7. ASSUME NEW s \in Streams, SourceInitFails(s) PROVE ThreadInv'
    BY <1>2, <2>7 DEF SourceInitFails
  <2>8. ASSUME StartDone PROVE ThreadInv'
    <3>1. \A t \in PipeThread : thread'[t] = thread[t]
      BY <1>2, <2>8, Kinds DEF StartDone, Pools
    <3>2. DOMAIN thread' = Thread /\ pipes' = pipes /\ ctl = "streams"
          /\ ctl' \in {"running", "stopQueues"}
      BY <1>2, <2>8 DEF StartDone
    <3> QED
      BY <1>2, <3>1, <3>2
  <2>9. ASSUME Stop PROVE ThreadInv'
    BY <1>2, <2>9 DEF Stop
  <2>10. ASSUME StopAnonymizerQueue PROVE ThreadInv'
    BY <1>2, <2>10 DEF StopAnonymizerQueue
  <2>11. ASSUME NEW s \in Streams, StopPipe(s) PROVE ThreadInv'
    BY <1>2, <2>11 DEF StopPipe
  <2>12. ASSUME PipesStopped PROVE ThreadInv'
    BY <1>2, <2>12 DEF PipesStopped
  <2>13. ASSUME NEW s \in Streams, JoinPipe(s) PROVE ThreadInv'
    <3> DEFINE T == {"ingest", "coordinator", "encoder"} \X {s}
    <3>1. /\ ctl = "joinPipes" /\ ctl' = "joinPipes" /\ todo' = todo \ {s}
          /\ thread' = Joined(T)
      BY <2>13 DEF JoinPipe
    <3>2. \A t \in PipeThread : t[2] = s => t \in T
      BY DEF PipeThread
    <3>3. \A t \in PipeThread : t \in Thread
      BY Kinds
    <3>4. \A t \in PipeThread : t[2] \notin todo \ {s} => Joined(T)[t] = "absent"
      BY <1>2, <3>1, <3>2, <3>3 DEF Joined
    <3> QED
      BY <3>1, <3>4 DEF Joined
  <2>14. ASSUME PipesJoined PROVE ThreadInv'
    BY <1>2, <2>14 DEF PipesJoined
  <2>15. ASSUME JoinPools PROVE ThreadInv'
    BY <1>2, <2>15, Kinds DEF JoinPools, Joined
  <2>16. ASSUME NEW t \in Thread, Step(t) PROVE ThreadInv'
    <3>1. \A u \in PipeThread \cup Pools : u \in Thread
      BY Kinds
    <3> QED
      BY <1>2, <2>16, <3>1, StepKeepsAbsent DEF control
  <2>17. CASE UNCHANGED vars
    BY <1>2, <2>17 DEF vars, control
  <2> QED
    BY <1>2, <2>1, <2>2, <2>3, <2>4, <2>5, <2>6, <2>7, <2>8, <2>9, <2>10, <2>11, <2>12,
       <2>13, <2>14, <2>15, <2>16, <2>17 DEF Next, Start, FinishStop
<1> QED
  BY <1>1, <1>2

(* stop() leaves no thread, for any number of streams, workers and          *)
(* anonymizers, whatever part of start() had succeeded when it was called.  *)
THEOREM StopJoinsEveryThread == Spec => []NoThreadOutlivesStop
<1>1. ThreadInv => NoThreadOutlivesStop
  BY Kinds DEF ThreadInv, NoThreadOutlivesStop, NoPipeThreadBut, NoPool
<1> QED
  BY <1>1, ThreadInvInductive, PTL DEF Spec

-----------------------------------------------------------------------------
(* Frames.                                                                  *)

(* A thread has an item exactly while it works on one; start() starts only  *)
(* threads that are not there.                                              *)
HandInv == \A t \in Thread : hand[t] # NoItem <=> thread[t] = "busy"

SpawnInv ==
  /\ ctl \in {"workers", "streams"} => thread[MetricsThread] = "absent"
  /\ ctl = "workers" => NoPool(AnonymizerThread)
  /\ ctl = "streams" => \A t \in PipeThread : t[2] \in todo => thread[t] = "absent"

(* The steps by what they do to the frames.                                 *)
LEMMA FlowSteps ==
  [Next]_vars =>
    \/ UNCHANGED flow
    \/ \E S \in SUBSET Streams : Configure(S)
    \/ AnonymizerInitFails \/ StopAnonymizerQueue \/ JoinPools
    \/ \E s \in Streams : StopPipe(s) \/ ReadFrame(s) \/ TakeResult(s) \/ Publish(s)
    \/ \E s \in Streams, f \in Frame : Commit(s, f)
    \/ \E t \in AnonymizerThread : TakeTask(t) \/ Anonymized(t)
BY DEF Next, Start, FinishStop, Step, vars, TakeTask, Anonymized,
       SpawnWorker, WorkerInitFails, SpawnAnonymizers, SpawnStream, SourceInitFails, StartDone,
       Stop, PipesStopped, JoinPipe, PipesJoined, OpenSource, Idle

(* Only a configuration begins a run.                                       *)
LEMMA RunSteps ==
  [Next]_vars =>
    \/ \E S \in SUBSET Streams : Configure(S)
    \/ run' = run /\ (ctl' # "stopped" => ctl # "stopped")
BY DEF Next, Start, FinishStop, Step, vars, control, TakeTask, Anonymized, OpenSource, Idle,
       SpawnWorker, WorkerInitFails, SpawnAnonymizers, SpawnStream, SourceInitFails, StartDone,
       Stop, PipesStopped, JoinPipe, PipesJoined, AnonymizerInitFails, StopAnonymizerQueue,
       StopPipe, JoinPools, ReadFrame, Commit, TakeResult, Publish

LEMMA SpawnInvInductive == ThreadInv /\ SpawnInv /\ [Next]_vars => SpawnInv'
<1> SUFFICES ASSUME ThreadInv, SpawnInv, [Next]_vars PROVE SpawnInv'
  OBVIOUS
<1> USE DEF SpawnInv, NoPool
<1>0. /\ PipeThread \subseteq Thread /\ AnonymizerThread \subseteq Thread
      /\ MetricsThread \in Thread /\ MetricsThread \notin WorkerThread
      /\ MetricsThread \notin AnonymizerThread /\ MetricsThread \notin PipeThread
      /\ \A t \in WorkerThread : t \notin AnonymizerThread /\ t \notin PipeThread
      /\ \A t \in AnonymizerThread : t \notin PipeThread
      /\ DOMAIN thread = Thread
  BY Kinds DEF Pools, ThreadInv
<1>1. ASSUME NEW S \in SUBSET Streams, Configure(S) PROVE SpawnInv'
  BY <1>0, <1>1 DEF Configure, ThreadInv, Pools
<1>2. ASSUME NEW t \in WorkerThread, SpawnWorker(t) PROVE SpawnInv'
  BY <1>0, <1>2 DEF SpawnWorker, Goes, control
<1>3. CASE SpawnAnonymizers
  BY <1>0, <1>3 DEF SpawnAnonymizers, ThreadInv, NoPipeThreadBut
<1>4. ASSUME NEW s \in Streams, SpawnStream(s) PROVE SpawnInv'
  <2>1. \A t \in Thread : t[2] # s \/ t \notin PipeThread => thread'[t] = thread[t]
    BY <1>0, <1>4, Kinds DEF SpawnStream
  <2>2. ctl' = "streams" /\ ctl = "streams" /\ todo' = todo \ {s}
    BY <1>4 DEF SpawnStream
  <2>3. QED
    BY <1>0, <2>1, <2>2
<1>5. ASSUME NEW s \in Streams, SourceInitFails(s) PROVE SpawnInv'
  BY <1>5 DEF SourceInitFails
<1>6. ASSUME NEW t \in Thread, Step(t) PROVE SpawnInv'
  BY <1>0, <1>6, StepKeepsAbsent DEF control
<1>7. CASE AnonymizerInitFails \/ UNCHANGED vars
  BY <1>7 DEF AnonymizerInitFails, vars, control
<1>8. CASE \/ WorkerInitFails \/ StartDone \/ Stop \/ FinishStop
  <2>1. ctl' \notin {"workers", "streams"}
    BY <1>8 DEF WorkerInitFails, StartDone, Stop, FinishStop, StopAnonymizerQueue, StopPipe,
                JoinPipe, PipesStopped, PipesJoined, JoinPools
  <2>2. QED
    BY <2>1
<1>9. QED
  BY <1>1, <1>2, <1>3, <1>4, <1>5, <1>6, <1>7, <1>8 DEF Next, Start

LEMMA HandInvInductive ==
  TypeOK /\ ThreadInv /\ SpawnInv /\ HandInv /\ [Next]_vars => HandInv'
<1> SUFFICES ASSUME TypeOK, ThreadInv, SpawnInv, HandInv, [Next]_vars PROVE HandInv'
  OBVIOUS
<1>0. /\ thread \in [Thread -> Places] /\ hand \in [Thread -> Item \cup {NoItem}]
      /\ PipeThread \subseteq Thread /\ AnonymizerThread \subseteq Thread
      /\ WorkerThread \subseteq Thread /\ MetricsThread \in Thread
  BY Kinds DEF TypeOK, Pools
<1>1. ASSUME hand' = hand, \A t \in Thread : thread'[t] = "busy" <=> thread[t] = "busy"
      PROVE  HandInv'
  BY <1>1 DEF HandInv
<1>2. ASSUME UNCHANGED <<hand, thread>> PROVE HandInv'
  BY <1>2 DEF HandInv
<1>3. ASSUME NEW t \in WorkerThread, SpawnWorker(t) PROVE HandInv'
  BY <1>0, <1>1, <1>3 DEF SpawnWorker, Goes, flow
<1>4. CASE SpawnAnonymizers
  BY <1>0, <1>1, <1>4 DEF SpawnAnonymizers, SpawnInv, NoPool, flow
<1>5. ASSUME NEW s \in Streams, SpawnStream(s) PROVE HandInv'
  <2>1. \A x \in {"ingest", "coordinator", "encoder"} :
          <<x, s>> \in Thread /\ thread[<<x, s>>] = "absent"
    BY <1>0, <1>5, Kinds DEF SpawnStream, SpawnInv, IsNext
  <2>2. hand' = hand /\ \A t \in Thread : thread'[t] = thread[t] \/
                          (thread[t] = "absent" /\ thread'[t] \in {"open", "wait"})
    BY <1>0, <1>5, <2>1 DEF SpawnStream, flow
  <2>3. QED
    BY <1>1, <2>2
<1>6. CASE StartDone
  BY <1>0, <1>1, <1>6 DEF StartDone, SpawnInv, flow
<1>7. ASSUME NEW T, Joinable(T), thread' = Joined(T), hand' = hand, T \subseteq Thread
      PROVE  HandInv'
  BY <1>0, <1>1, <1>7 DEF Joinable, Joined
<1>8. ASSUME NEW s \in Streams, JoinPipe(s) PROVE HandInv'
  <2> DEFINE T == {"ingest", "coordinator", "encoder"} \X {s}
  <2>1. Joinable(T) /\ thread' = Joined(T) /\ hand' = hand
    BY <1>8 DEF JoinPipe, flow
  <2>2. T \subseteq Thread
    BY <1>0, Kinds
  <2>3. QED
    BY <1>7, <2>1, <2>2
<1>9. CASE JoinPools
  <2>1. Joinable(Pools) /\ thread' = Joined(Pools) /\ hand' = hand
    BY <1>9 DEF JoinPools
  <2>2. QED
    BY <1>7, <2>1, Kinds
<1>10. ASSUME NEW t \in Thread, NEW from \in {"open", "wait"}, NEW to \in {"wait", "done"},
              Goes(t, from, to), hand' = hand
       PROVE  HandInv'
  BY <1>0, <1>1, <1>10 DEF Goes
<1>11. ASSUME NEW t \in Thread, Goes(t, "wait", "busy"),
              NEW x, x # NoItem, hand' = [hand EXCEPT ![t] = x]
       PROVE  HandInv'
  BY <1>0, <1>11 DEF Goes, HandInv
<1>12. ASSUME NEW t \in Thread, Loop(t, "busy"), hand' = [hand EXCEPT ![t] = NoItem]
       PROVE  HandInv'
  BY <1>0, <1>12 DEF Loop, Goes, HandInv
<1>13. ASSUME NEW t \in AnonymizerThread, TakeTask(t) PROVE HandInv'
  <2>1. Oldest(anonymizerIn) \in Item
    BY <1>13, PopKeepsQueue DEF TypeOK, TakeTask, CanPopFor
  <2>2. Oldest(anonymizerIn) # NoItem
    BY <2>1 DEF Item, NoItem
  <2>3. QED
    BY <1>0, <1>11, <1>13, <2>2 DEF TakeTask
<1>14. ASSUME NEW s \in Streams, TakeResult(s) PROVE HandInv'
  <2>1. Oldest(encoderIn[s]) \in Item
    BY <1>14, PopKeepsQueue DEF TypeOK, TakeResult, CanPopFor
  <2>2. Oldest(encoderIn[s]) # NoItem
    BY <2>1 DEF Item, NoItem
  <2>3. QED
    BY <1>0, <1>11, <1>14, <2>2, Kinds DEF TakeResult
<1>15. ASSUME NEW t \in AnonymizerThread, Anonymized(t) PROVE HandInv'
  BY <1>0, <1>12, <1>15 DEF Anonymized
<1>16. ASSUME NEW s \in Streams, Publish(s) PROVE HandInv'
  BY <1>0, <1>12, <1>16, Kinds DEF Publish
<1>17. ASSUME NEW s \in Streams, OpenSource(s) \/ ReadFrame(s) PROVE HandInv'
  <2>1. <<"ingest", s>> \in Thread
    BY <1>0, Kinds
  <2>2. hand' = hand /\ \E from \in {"open", "wait"}, to \in {"wait", "done"} :
                          Goes(<<"ingest", s>>, from, to)
    BY <1>17 DEF OpenSource, ReadFrame, Loop, flow
  <2>3. QED
    BY <1>10, <2>1, <2>2
<1>18. ASSUME NEW t \in Thread, Idle(t) PROVE HandInv'
  BY <1>10, <1>18 DEF Idle, Loop, flow
<1>19. CASE \/ \E S \in SUBSET Streams : Configure(S)
            \/ AnonymizerInitFails \/ WorkerInitFails \/ Stop \/ StopAnonymizerQueue
            \/ \E s \in Streams : SourceInitFails(s) \/ StopPipe(s)
            \/ PipesStopped \/ PipesJoined \/ UNCHANGED vars
            \/ \E s \in Streams, f \in Frame : Commit(s, f)
  BY <1>2, <1>19 DEF Configure, AnonymizerInitFails, WorkerInitFails, Stop, StopAnonymizerQueue,
       SourceInitFails, StopPipe, PipesStopped, PipesJoined, vars, flow, Commit
<1>20. QED
  BY <1>3, <1>4, <1>5, <1>6, <1>8, <1>9, <1>13, <1>14, <1>15, <1>16, <1>17, <1>18, <1>19
     DEF Next, Start, FinishStop, Step, TakeTask, Anonymized

(* A queue that is new, reset or stopped is a queue.                        *)
LEMMA NewQueue ==
  ASSUME NEW E, NEW cap \in Nat
  PROVE  IsQueue(EmptyQueue(cap), E) /\ EmptyQueue(cap).cap = cap /\ EmptyQueue(cap).items = <<>>
<1>1. <<>> \in Seq(E) /\ Len(<<>>) = 0
  OBVIOUS
<1>2. QED
  BY <1>1 DEF EmptyQueue, IsQueue

LEMMA StoppedQueue ==
  ASSUME NEW E, NEW q, IsQueue(q, E)
  PROVE  IsQueue(StopQueue(q), E) /\ StopQueue(q).cap = q.cap /\ StopQueue(q).items = q.items
BY DEF StopQueue, IsQueue

(* While start() or stop() is under way, a run has begun; a coordinator     *)
(* that commits is one of a run.                                            *)
RunInv == ctl # "stopped" => run > 0

LEMMA CommitInRun ==
  ASSUME ThreadInv, RunInv, TypeOK, NEW s \in Streams, NEW f \in Frame, Commit(s, f)
  PROVE  /\ ctl # "stopped" /\ run \in 1..MaxRuns
         /\ [run |-> run, stream |-> s, id |-> f] \in Item
<1>1. <<"coordinator", s>> \in PipeThread /\ thread[<<"coordinator", s>>] # "absent"
  BY Kinds DEF Commit
<1>2. ctl # "stopped"
  BY <1>1 DEF ThreadInv, NoPipeThreadBut
<1>3. run \in 1..MaxRuns
  BY <1>2, RuntimeAssumption DEF RunInv, TypeOK
<1>4. QED
  BY <1>2, <1>3 DEF Item

(* What the threads and the calls do to the control.                        *)
LEMMA ControlTypeInductive ==
  ASSUME TypeOK, [Next]_vars
  PROVE  /\ ctl' \in Calls /\ running' \in BOOLEAN /\ run' \in 0..MaxRuns
         /\ pipes' \subseteq Streams /\ todo' \subseteq Streams
         /\ thread' \in [Thread -> Places]
<1>0. /\ ctl \in Calls /\ running \in BOOLEAN /\ run \in 0..MaxRuns
      /\ pipes \subseteq Streams /\ todo \subseteq Streams
      /\ thread \in [Thread -> Places]
  BY DEF TypeOK
<1> DEFINE Goal == /\ ctl' \in Calls /\ running' \in BOOLEAN /\ run' \in 0..MaxRuns
                   /\ pipes' \subseteq Streams /\ todo' \subseteq Streams
                   /\ thread' \in [Thread -> Places]
<1>1. ASSUME NEW S \in SUBSET Streams, Configure(S) PROVE Goal
  <2>1. run + 1 \in 0..MaxRuns
    BY <1>0, <1>1, RuntimeAssumption DEF Configure
  <2>2. QED
    BY <1>0, <1>1, <2>1 DEF Configure, Calls
<1>2. \A t, from, to : Goes(t, from, to) /\ to \in Places => thread' \in [Thread -> Places]
  BY <1>0 DEF Goes
<1>3. \A t, from : Loop(t, from) => thread' \in [Thread -> Places]
  BY <1>2 DEF Loop, Places
<1>4. ASSUME NEW t \in Thread, Step(t) PROVE Goal
  <2>1. UNCHANGED control
    BY <1>4 DEF Step, Idle, TakeTask, Anonymized, OpenSource, ReadFrame, Commit, TakeResult, Publish
  <2>2. thread' \in [Thread -> Places]
    BY <1>0, <1>2, <1>3, <1>4 DEF Step, Idle, TakeTask, Anonymized, OpenSource, ReadFrame, Commit,
                              TakeResult, Publish, Places
  <2>3. QED
    BY <1>0, <2>1, <2>2 DEF control
<1>5. ASSUME NEW t \in WorkerThread, SpawnWorker(t) PROVE Goal
  BY <1>0, <1>2, <1>5 DEF SpawnWorker, control, Places
<1>6. CASE AnonymizerInitFails \/ WorkerInitFails \/ SpawnAnonymizers \/ StartDone \/ Stop
  BY <1>0, <1>6 DEF AnonymizerInitFails, WorkerInitFails, SpawnAnonymizers, StartDone, Stop,
                    control, Calls, Places
<1>7. ASSUME NEW s \in Streams, SpawnStream(s) \/ SourceInitFails(s) PROVE Goal
  BY <1>0, <1>7 DEF SpawnStream, SourceInitFails, Places
<1>8. CASE FinishStop
  <2>1. \A T : Joined(T) \in [Thread -> Places]
    BY <1>0 DEF Joined, Places
  <2>2. ASSUME NEW s \in Streams, StopPipe(s) \/ JoinPipe(s) PROVE Goal
    BY <1>0, <2>1, <2>2 DEF StopPipe, JoinPipe
  <2>3. CASE StopAnonymizerQueue \/ PipesStopped \/ PipesJoined \/ JoinPools
    BY <1>0, <2>1, <2>3 DEF StopAnonymizerQueue, PipesStopped, PipesJoined, JoinPools, Calls
  <2>4. QED
    BY <1>8, <2>2, <2>3 DEF FinishStop
<1>9. CASE UNCHANGED vars
  BY <1>0, <1>9 DEF vars, control
<1>10. QED
  BY <1>1, <1>4, <1>5, <1>6, <1>7, <1>8, <1>9 DEF Next, Start

FlowType ==
  /\ hand \in [Thread -> Item \cup {NoItem}]
  /\ nextFrame \in [Streams -> 0..(MaxFrame + 1)]
  /\ nextCommit \in [Streams -> 0..(MaxFrame + 1)]
  /\ IsQueue(anonymizerIn, Item) /\ anonymizerIn.cap = AnonymizerCap
  /\ DOMAIN encoderIn = Streams
  /\ \A s \in Streams : IsQueue(encoderIn[s], Item) /\ encoderIn[s].cap = EncoderCap
  /\ commits \in Nat
  /\ published \in [Streams -> Seq(Item)]

LEMMA FlowTypeInductive ==
  ASSUME TypeOK, ThreadInv, RunInv, HandInv, [Next]_vars
  PROVE  FlowType'
<1>0. FlowType /\ thread \in [Thread -> Places]
  BY DEF TypeOK, FlowType
<1>1. /\ EncoderCap \in Nat /\ AnonymizerCap \in Nat /\ MaxFrame \in Nat
      /\ IsQueue(EmptyQueue(EncoderCap), Item) /\ EmptyQueue(EncoderCap).cap = EncoderCap
      /\ IsQueue(ResetQueue(anonymizerIn), Item) /\ ResetQueue(anonymizerIn).cap = AnonymizerCap
  BY <1>0, RuntimeAssumption, NewQueue DEF FlowType, ResetQueue
<1>2. CASE UNCHANGED flow
  BY <1>0, <1>2 DEF FlowType, flow
<1>3. ASSUME NEW S \in SUBSET Streams, Configure(S) PROVE FlowType'
  <2>1. /\ hand' = hand /\ nextFrame' = [s \in Streams |-> 0] /\ nextCommit' = [s \in Streams |-> 0]
        /\ anonymizerIn' = ResetQueue(anonymizerIn) /\ commits' = 0
        /\ encoderIn' = [s \in Streams |-> EmptyQueue(EncoderCap)]
        /\ published' = [s \in Streams |-> <<>>]
    BY <1>3 DEF Configure
  <2>2. /\ nextFrame' \in [Streams -> 0..(MaxFrame + 1)]
        /\ nextCommit' \in [Streams -> 0..(MaxFrame + 1)]
    BY <1>1, <2>1
  <2>3. published' \in [Streams -> Seq(Item)]
    BY <2>1
  <2>4. QED
    BY <1>0, <1>1, <2>1, <2>2, <2>3 DEF FlowType
<1>4. CASE AnonymizerInitFails
  BY <1>0, <1>1, <1>4 DEF FlowType, AnonymizerInitFails
<1>5. CASE StopAnonymizerQueue
  <2>1. /\ anonymizerIn' = StopQueue(anonymizerIn)
        /\ UNCHANGED <<hand, nextFrame, nextCommit, encoderIn, commits, published>>
    BY <1>5 DEF StopAnonymizerQueue
  <2>2. IsQueue(anonymizerIn', Item) /\ anonymizerIn'.cap = AnonymizerCap
    BY <1>0, <2>1, StoppedQueue DEF FlowType
  <2>3. QED
    BY <1>0, <2>1, <2>2 DEF FlowType
<1>6. CASE JoinPools
  BY <1>0, <1>1, <1>6 DEF FlowType, JoinPools
<1>7. ASSUME NEW s \in Streams, NEW q, IsQueue(q, Item), q.cap = EncoderCap,
             encoderIn' = [encoderIn EXCEPT ![s] = q]
      PROVE  /\ DOMAIN encoderIn' = Streams
             /\ \A u \in Streams : IsQueue(encoderIn'[u], Item) /\ encoderIn'[u].cap = EncoderCap
  BY <1>0, <1>7 DEF FlowType
<1>8. ASSUME NEW s \in Streams, StopPipe(s) PROVE FlowType'
  <2>1. /\ encoderIn' = [encoderIn EXCEPT ![s] = StopQueue(encoderIn[s])]
        /\ UNCHANGED <<hand, nextFrame, nextCommit, anonymizerIn, commits, published>>
    BY <1>8 DEF StopPipe
  <2>2. IsQueue(StopQueue(encoderIn[s]), Item) /\ StopQueue(encoderIn[s]).cap = EncoderCap
    <3>1. IsQueue(encoderIn[s], Item) /\ encoderIn[s].cap = EncoderCap
      BY <1>0 DEF FlowType
    <3>2. QED
      BY <3>1, StoppedQueue
  <2>3. QED
    BY <1>0, <1>7, <2>1, <2>2 DEF FlowType
<1>9. ASSUME NEW s \in Streams, ReadFrame(s) PROVE FlowType'
  <2>1. nextFrame[s] + 1 \in 0..(MaxFrame + 1)
    BY <1>0, <1>1, <1>9 DEF FlowType, ReadFrame
  <2>2. QED
    BY <1>0, <1>9, <2>1 DEF FlowType, ReadFrame
<1>10. ASSUME NEW s \in Streams, NEW f \in Frame, Commit(s, f) PROVE FlowType'
  <2> DEFINE x == [run |-> run, stream |-> s, id |-> f]
  <2>1. /\ anonymizerIn' = PushDropOldest(anonymizerIn, x)
        /\ nextCommit' = [nextCommit EXCEPT ![s] = f + 1] /\ commits' = commits + 1
        /\ UNCHANGED <<hand, nextFrame, encoderIn, published>>
    BY <1>10 DEF Commit
  <2>2. x \in Item
    BY <1>10, CommitInRun
  <2>3. IsQueue(anonymizerIn', Item) /\ anonymizerIn'.cap = AnonymizerCap
    BY <1>0, <2>1, <2>2, PushKeepsQueue DEF FlowType
  <2>4. f + 1 \in 0..(MaxFrame + 1)
    BY <1>1 DEF Frame
  <2>5. QED
    BY <1>0, <2>1, <2>3, <2>4 DEF FlowType
<1>11. ASSUME NEW t \in AnonymizerThread, TakeTask(t) PROVE FlowType'
  <2>1. /\ anonymizerIn' = Popped(anonymizerIn) /\ anonymizerIn.items # <<>>
        /\ hand' = [hand EXCEPT ![t] = Oldest(anonymizerIn)]
        /\ UNCHANGED <<nextFrame, nextCommit, encoderIn, commits, published>>
    BY <1>11 DEF TakeTask, CanPopFor
  <2>2. /\ IsQueue(anonymizerIn', Item) /\ anonymizerIn'.cap = AnonymizerCap
        /\ Oldest(anonymizerIn) \in Item
    BY <1>0, <2>1, PopKeepsQueue DEF FlowType
  <2>3. QED
    BY <1>0, <2>1, <2>2 DEF FlowType
<1>12. ASSUME NEW t \in Thread, thread[t] = "busy"
       PROVE  hand[t] \in Item /\ hand[t].stream \in Streams
  BY <1>0, <1>12 DEF HandInv, FlowType, Item
<1>13. ASSUME NEW t \in AnonymizerThread, Anonymized(t) PROVE FlowType'
  <2> DEFINE s == hand[t].stream
             q == PushDropOldest(encoderIn[s], hand[t])
  <2>1. /\ encoderIn' = [encoderIn EXCEPT ![s] = q] /\ hand' = [hand EXCEPT ![t] = NoItem]
        /\ UNCHANGED <<nextFrame, nextCommit, anonymizerIn, commits, published>>
        /\ thread[t] = "busy"
    BY <1>13 DEF Anonymized, Loop, Goes
  <2>2. hand[t] \in Item /\ s \in Streams
    BY <1>12, <2>1, Kinds DEF Pools
  <2>3. IsQueue(q, Item) /\ q.cap = EncoderCap
    <3>1. IsQueue(encoderIn[s], Item) /\ encoderIn[s].cap = EncoderCap
      BY <1>0, <2>2 DEF FlowType
    <3>2. QED
      BY <2>2, <3>1, PushKeepsQueue
  <2> HIDE DEF q
  <2>4. /\ DOMAIN encoderIn' = Streams
        /\ \A u \in Streams : IsQueue(encoderIn'[u], Item) /\ encoderIn'[u].cap = EncoderCap
    BY <1>7, <2>1, <2>2, <2>3
  <2>5. QED
    BY <1>0, <2>1, <2>4 DEF FlowType
<1>14. ASSUME NEW s \in Streams, TakeResult(s) PROVE FlowType'
  <2>1. /\ encoderIn' = [encoderIn EXCEPT ![s] = Popped(encoderIn[s])] /\ encoderIn[s].items # <<>>
        /\ hand' = [hand EXCEPT ![<<"encoder", s>>] = Oldest(encoderIn[s])]
        /\ UNCHANGED <<nextFrame, nextCommit, anonymizerIn, commits, published>>
    BY <1>14 DEF TakeResult, CanPopFor
  <2>2. /\ IsQueue(Popped(encoderIn[s]), Item) /\ Popped(encoderIn[s]).cap = EncoderCap
        /\ Oldest(encoderIn[s]) \in Item
    BY <1>0, <2>1, PopKeepsQueue DEF FlowType
  <2>3. QED
    BY <1>0, <1>7, <2>1, <2>2 DEF FlowType
<1>15. ASSUME NEW s \in Streams, Publish(s) PROVE FlowType'
  <2> DEFINE t == <<"encoder", s>>
  <2>1. /\ published' = [published EXCEPT ![s] = Append(published[s], hand[t])]
        /\ hand' = [hand EXCEPT ![t] = NoItem] /\ thread[t] = "busy"
        /\ UNCHANGED <<nextFrame, nextCommit, anonymizerIn, encoderIn, commits>>
    BY <1>15 DEF Publish, Loop, Goes
  <2>2. hand[t] \in Item
    BY <1>12, <2>1, Kinds
  <2>3. Append(published[s], hand[t]) \in Seq(Item)
    BY <1>0, <2>2 DEF FlowType
  <2>4. QED
    BY <1>0, <2>1, <2>3 DEF FlowType
<1>16. QED
  BY <1>2, <1>3, <1>4, <1>5, <1>6, <1>8, <1>9, <1>10, <1>11, <1>13, <1>14, <1>15, FlowSteps

-----------------------------------------------------------------------------
(* What a queue holds, and in which order.                                  *)

Elements(items) == {items[i] : i \in DOMAIN items}

Precedes(items, x, y) ==
  \E i, j \in DOMAIN items : i < j /\ items[i] = x /\ items[j] = y

(* A sequence that lost its first element and one that got another one.     *)
LEMMA TailOrder ==
  ASSUME NEW E, NEW q \in Seq(E), q # <<>>
  PROVE  /\ Head(q) \in Elements(q)
         /\ \A y \in Elements(Tail(q)) : y \in Elements(q) /\ Precedes(q, Head(q), y)
         /\ \A x, y : Precedes(Tail(q), x, y) => Precedes(q, x, y)
<1>1. /\ Len(q) \in Nat /\ Len(q) > 0 /\ DOMAIN q = 1..Len(q) /\ Head(q) = q[1]
      /\ DOMAIN Tail(q) = 1..(Len(q) - 1) /\ \A i \in DOMAIN Tail(q) : Tail(q)[i] = q[i + 1]
  OBVIOUS
<1>2. \A i \in DOMAIN Tail(q) : i \in Int /\ i + 1 \in DOMAIN q /\ 1 \in DOMAIN q /\ 1 < i + 1
  BY <1>1
<1>3. Head(q) \in Elements(q)
  BY <1>1 DEF Elements
<1>4. ASSUME NEW y \in Elements(Tail(q)) PROVE y \in Elements(q) /\ Precedes(q, Head(q), y)
  BY <1>1, <1>2 DEF Elements, Precedes
<1>5. ASSUME NEW x, NEW y, Precedes(Tail(q), x, y) PROVE Precedes(q, x, y)
  <2>1. PICK i, j \in DOMAIN Tail(q) : i < j /\ Tail(q)[i] = x /\ Tail(q)[j] = y
    BY <1>5 DEF Precedes
  <2>2. i + 1 < j + 1
    BY <1>2, <2>1
  <2>3. QED
    BY <1>1, <1>2, <2>1, <2>2 DEF Precedes
<1>6. QED
  BY <1>3, <1>4, <1>5

LEMMA AppendOrder ==
  ASSUME NEW E, NEW q \in Seq(E), NEW e \in E
  PROVE  /\ \A y \in Elements(Append(q, e)) : y \in Elements(q) \/ y = e
         /\ \A x, y : Precedes(Append(q, e), x, y) =>
              Precedes(q, x, y) \/ (x \in Elements(q) /\ y = e)
<1> DEFINE p == Append(q, e)
<1>1. /\ Len(q) \in Nat /\ DOMAIN q = 1..Len(q) /\ DOMAIN p = 1..(Len(q) + 1)
      /\ \A i \in 1..Len(q) : p[i] = q[i]
      /\ p[Len(q) + 1] = e
  OBVIOUS
<1> HIDE DEF p
<1>2. \A i \in DOMAIN p : i \in DOMAIN q \/ i = Len(q) + 1
  BY <1>1
<1>3. \A i, j \in DOMAIN p : i < j => i \in DOMAIN q
  BY <1>1
<1>4. \A y \in Elements(p) : y \in Elements(q) \/ y = e
  BY <1>1, <1>2 DEF Elements
<1>5. ASSUME NEW x, NEW y, Precedes(p, x, y)
      PROVE  Precedes(q, x, y) \/ (x \in Elements(q) /\ y = e)
  <2>1. PICK i, j \in DOMAIN p : i < j /\ p[i] = x /\ p[j] = y
    BY <1>5 DEF Precedes
  <2>2. i \in DOMAIN q /\ q[i] = x
    BY <1>1, <1>3, <2>1
  <2>3. CASE j \in DOMAIN q
    BY <1>1, <2>1, <2>2, <2>3 DEF Precedes
  <2>4. CASE j = Len(q) + 1
    BY <1>1, <2>1, <2>2, <2>4 DEF Elements
  <2>5. QED
    BY <1>2, <2>3, <2>4
<1>6. QED
  BY <1>4, <1>5 DEF p

(* A push that drops the oldest puts the new element behind all others and  *)
(* keeps the order of these.                                                *)
LEMMA PushOrder ==
  ASSUME NEW E, NEW q, IsQueue(q, E), NEW e \in E
  PROVE  /\ \A y \in Elements(PushDropOldest(q, e).items) : y \in Elements(q.items) \/ y = e
         /\ \A x, y : Precedes(PushDropOldest(q, e).items, x, y) =>
              Precedes(q.items, x, y) \/ (x \in Elements(q.items) /\ y = e)
<1>1. /\ q \in [items : Seq(E), cap : Nat, dropped : Nat, stopped : BOOLEAN]
      /\ q.items \in Seq(E) /\ q.cap \in Nat /\ Len(q.items) \in Nat
  BY DEF IsQueue
<1>2. CASE ~Accepts(q)
  BY <1>2 DEF PushDropOldest
<1>3. CASE Accepts(q) /\ IsFull(q)
  <2>1. q.items # <<>> /\ Tail(q.items) \in Seq(E)
    BY <1>1, <1>3 DEF Accepts, IsFull
  <2>2. PushDropOldest(q, e).items = Append(Tail(q.items), e)
    BY <1>1, <1>3 DEF PushDropOldest
  <2>3. /\ \A y \in Elements(Tail(q.items)) : y \in Elements(q.items)
        /\ \A x, y : Precedes(Tail(q.items), x, y) => Precedes(q.items, x, y)
    BY <1>1, <2>1, TailOrder
  <2>4. /\ \A y \in Elements(PushDropOldest(q, e).items) : y \in Elements(Tail(q.items)) \/ y = e
        /\ \A x, y : Precedes(PushDropOldest(q, e).items, x, y) =>
             Precedes(Tail(q.items), x, y) \/ (x \in Elements(Tail(q.items)) /\ y = e)
    BY <2>1, <2>2, AppendOrder
  <2>5. QED
    BY <2>3, <2>4
<1>4. CASE Accepts(q) /\ ~IsFull(q)
  <2>1. PushDropOldest(q, e).items = Append(q.items, e)
    BY <1>1, <1>4 DEF PushDropOldest
  <2>2. QED
    BY <1>1, <2>1, AppendOrder
<1>5. QED
  BY <1>2, <1>3, <1>4

LEMMA PopOrder ==
  ASSUME NEW E, NEW q, IsQueue(q, E), q.items # <<>>
  PROVE  /\ Oldest(q) \in Elements(q.items)
         /\ \A y \in Elements(Popped(q).items) :
              y \in Elements(q.items) /\ Precedes(q.items, Oldest(q), y)
         /\ \A x, y : Precedes(Popped(q).items, x, y) => Precedes(q.items, x, y)
<1>1. q.items \in Seq(E) /\ Popped(q).items = Tail(q.items) /\ Oldest(q) = Head(q.items)
  BY DEF IsQueue, Popped, Oldest
<1>2. QED
  BY <1>1, TailOrder

LEMMA NothingInside == ASSUME NEW x, NEW y PROVE Elements(<<>>) = {} /\ ~Precedes(<<>>, x, y)
BY DEF Elements, Precedes

LEMMA AllOfElements == ASSUME NEW r, NEW q PROVE AllOf(r, q) <=> \A x \in Elements(q.items) : x.run = r
BY DEF AllOf, Elements

-----------------------------------------------------------------------------
(* Runs.                                                                    *)

LEMMA OnlyThisRunInductive ==
  ASSUME TypeOK, ThreadInv, RunInv, HandInv, OnlyThisRun, [Next]_vars
  PROVE  OnlyThisRun'
<1> SUFFICES ASSUME ctl' # "stopped"
             PROVE  /\ \A x \in Elements(anonymizerIn'.items) : x.run = run'
                    /\ \A s \in Streams : \A x \in Elements(encoderIn'[s].items) : x.run = run'
                    /\ \A t \in Thread : hand'[t] # NoItem => hand'[t].run = run'
  BY AllOfElements DEF OnlyThisRun
<1> DEFINE Goal == /\ \A x \in Elements(anonymizerIn'.items) : x.run = run'
                   /\ \A s \in Streams : \A x \in Elements(encoderIn'[s].items) : x.run = run'
                   /\ \A t \in Thread : hand'[t] # NoItem => hand'[t].run = run'
<1>0. /\ IsQueue(anonymizerIn, Item) /\ DOMAIN encoderIn = Streams
      /\ \A s \in Streams : IsQueue(encoderIn[s], Item)
      /\ hand \in [Thread -> Item \cup {NoItem}] /\ thread \in [Thread -> Places]
      /\ AnonymizerThread \subseteq Thread /\ \A s \in Streams : <<"encoder", s>> \in Thread
  BY Kinds DEF TypeOK, Pools
<1>1. ASSUME NEW S \in SUBSET Streams, Configure(S) PROVE Goal
  <2>1. \A t \in Thread : hand[t] = NoItem
    BY <1>0, <1>1, Kinds DEF Configure, ThreadInv, HandInv, NoPipeThreadBut, NoPool
  <2>2. /\ hand' = hand /\ anonymizerIn' = ResetQueue(anonymizerIn)
        /\ encoderIn' = [s \in Streams |-> EmptyQueue(EncoderCap)]
    BY <1>1 DEF Configure
  <2>3. anonymizerIn'.items = <<>> /\ \A s \in Streams : encoderIn'[s].items = <<>>
    BY <2>2 DEF ResetQueue, EmptyQueue
  <2>4. QED
    BY <2>1, <2>2, <2>3, NothingInside
<1>2. CASE ~\E S \in SUBSET Streams : Configure(S)
  <2>1. run' = run /\ ctl # "stopped"
    BY <1>2, RunSteps
  <2>2. /\ \A x \in Elements(anonymizerIn.items) : x.run = run
        /\ \A s \in Streams : \A x \in Elements(encoderIn[s].items) : x.run = run
        /\ \A t \in Thread : hand[t] # NoItem => hand[t].run = run
    BY <2>1, AllOfElements DEF OnlyThisRun
  <2>3. ASSUME NEW s \in Streams, NEW q, encoderIn' = [encoderIn EXCEPT ![s] = q],
               \A x \in Elements(q.items) : x.run = run
        PROVE  \A u \in Streams : \A x \in Elements(encoderIn'[u].items) : x.run = run
    BY <1>0, <2>2, <2>3
  <2>4. ASSUME NEW t \in Thread, thread[t] = "busy"
        PROVE  hand[t] \in Item /\ hand[t].run = run /\ hand[t].stream \in Streams
    BY <1>0, <2>2, <2>4 DEF HandInv, Item
  <2>5. CASE UNCHANGED <<anonymizerIn, encoderIn, hand>>
    BY <2>1, <2>2, <2>5
  <2>6. CASE AnonymizerInitFails \/ JoinPools
    BY <2>1, <2>6 DEF AnonymizerInitFails, JoinPools, control
  <2>7. CASE StopAnonymizerQueue
    <3>1. anonymizerIn'.items = anonymizerIn.items /\ UNCHANGED <<encoderIn, hand>>
      BY <1>0, <2>7, StoppedQueue DEF StopAnonymizerQueue
    <3>2. QED
      BY <2>1, <2>2, <3>1
  <2>8. ASSUME NEW s \in Streams, StopPipe(s) PROVE Goal
    <3>1. /\ encoderIn' = [encoderIn EXCEPT ![s] = StopQueue(encoderIn[s])]
          /\ UNCHANGED <<anonymizerIn, hand>>
      BY <2>8 DEF StopPipe
    <3>2. StopQueue(encoderIn[s]).items = encoderIn[s].items
      BY <1>0, StoppedQueue
    <3>3. QED
      BY <2>1, <2>2, <2>3, <3>1, <3>2
  <2>9. ASSUME NEW s \in Streams, NEW f \in Frame, Commit(s, f) PROVE Goal
    <3> DEFINE x == [run |-> run, stream |-> s, id |-> f]
    <3>1. anonymizerIn' = PushDropOldest(anonymizerIn, x) /\ UNCHANGED <<encoderIn, hand>>
      BY <2>9 DEF Commit
    <3>2. x \in Item /\ x.run = run
      BY <2>9, CommitInRun
    <3> HIDE DEF x
    <3>3. \A y \in Elements(anonymizerIn'.items) : y \in Elements(anonymizerIn.items) \/ y = x
      BY <1>0, <3>1, <3>2, PushOrder
    <3>4. QED
      BY <2>1, <2>2, <3>1, <3>2, <3>3
  <2>10. ASSUME NEW t \in AnonymizerThread, TakeTask(t) PROVE Goal
    <3>1. /\ anonymizerIn' = Popped(anonymizerIn) /\ anonymizerIn.items # <<>>
          /\ hand' = [hand EXCEPT ![t] = Oldest(anonymizerIn)] /\ encoderIn' = encoderIn
      BY <2>10 DEF TakeTask, CanPopFor
    <3>2. /\ Oldest(anonymizerIn) \in Elements(anonymizerIn.items)
          /\ \A y \in Elements(anonymizerIn'.items) : y \in Elements(anonymizerIn.items)
      BY <1>0, <3>1, PopOrder
    <3>3. QED
      BY <1>0, <2>1, <2>2, <3>1, <3>2
  <2>11. ASSUME NEW t \in AnonymizerThread, Anonymized(t) PROVE Goal
    <3> DEFINE s == hand[t].stream
               q == PushDropOldest(encoderIn[s], hand[t])
    <3>1. /\ encoderIn' = [encoderIn EXCEPT ![s] = q] /\ hand' = [hand EXCEPT ![t] = NoItem]
          /\ anonymizerIn' = anonymizerIn /\ thread[t] = "busy"
      BY <2>11 DEF Anonymized, Loop, Goes
    <3>2. hand[t] \in Item /\ hand[t].run = run /\ s \in Streams
      BY <1>0, <2>4, <3>1
    <3>3. \A y \in Elements(q.items) : y \in Elements(encoderIn[s].items) \/ y = hand[t]
      <4>1. IsQueue(encoderIn[s], Item)
        BY <1>0, <3>2
      <4>2. QED
        BY <3>2, <4>1, PushOrder
    <3>4. \A y \in Elements(q.items) : y.run = run
      BY <2>2, <3>2, <3>3
    <3> HIDE DEF q
    <3>5. \A u \in Streams : \A y \in Elements(encoderIn'[u].items) : y.run = run
      BY <2>3, <3>1, <3>2, <3>4
    <3>6. \A u \in Thread : hand'[u] # NoItem => hand'[u].run = run
      BY <1>0, <2>2, <3>1
    <3>7. QED
      BY <2>1, <2>2, <3>1, <3>5, <3>6
  <2>12. ASSUME NEW s \in Streams, TakeResult(s) PROVE Goal
    <3>1. /\ encoderIn' = [encoderIn EXCEPT ![s] = Popped(encoderIn[s])] /\ encoderIn[s].items # <<>>
          /\ hand' = [hand EXCEPT ![<<"encoder", s>>] = Oldest(encoderIn[s])]
          /\ anonymizerIn' = anonymizerIn
      BY <2>12 DEF TakeResult, CanPopFor
    <3>2. /\ Oldest(encoderIn[s]) \in Elements(encoderIn[s].items)
          /\ \A y \in Elements(Popped(encoderIn[s]).items) : y \in Elements(encoderIn[s].items)
      BY <1>0, <3>1, PopOrder
    <3>3. \A u \in Thread : hand'[u] # NoItem => hand'[u].run = run
      BY <1>0, <2>2, <3>1, <3>2
    <3>4. QED
      BY <2>1, <2>2, <2>3, <3>1, <3>2, <3>3
  <2>13. ASSUME NEW s \in Streams, Publish(s) PROVE Goal
    <3>1. hand' = [hand EXCEPT ![<<"encoder", s>>] = NoItem] /\ UNCHANGED <<anonymizerIn, encoderIn>>
      BY <2>13 DEF Publish
    <3>2. QED
      BY <1>0, <2>1, <2>2, <3>1
  <2>14. QED
    BY <1>2, <2>5, <2>6, <2>7, <2>8, <2>9, <2>10, <2>11, <2>12, <2>13, FlowSteps
       DEF flow, ReadFrame
<1>3. QED
  BY <1>1, <1>2

RuntimeInv == TypeOK /\ ThreadInv /\ SpawnInv /\ RunInv /\ HandInv /\ OnlyThisRun

LEMMA RuntimeInvHolds == Spec => []RuntimeInv
<1>1. Init => RuntimeInv
  <2> SUFFICES ASSUME Init PROVE RuntimeInv
    OBVIOUS
  <2>1. MaxFrame \in Nat /\ AnonymizerCap \in Nat /\ EncoderCap \in Nat /\ MaxRuns \in Nat
    BY RuntimeAssumption
  <2>2. /\ ctl = "stopped" /\ running = FALSE /\ run = 0 /\ pipes = {} /\ todo = {}
        /\ thread = [t \in Thread |-> "absent"] /\ hand = [t \in Thread |-> NoItem]
        /\ nextFrame = [s \in Streams |-> 0] /\ nextCommit = [s \in Streams |-> 0]
        /\ anonymizerIn = EmptyQueue(AnonymizerCap)
        /\ encoderIn = [s \in Streams |-> EmptyQueue(EncoderCap)]
        /\ commits = 0 /\ published = [s \in Streams |-> <<>>]
    BY DEF Init
  <2>3. /\ nextFrame \in [Streams -> 0..(MaxFrame + 1)]
        /\ nextCommit \in [Streams -> 0..(MaxFrame + 1)]
    BY <2>1, <2>2
  <2>4. published \in [Streams -> Seq(Item)]
    BY <2>2
  <2>5. /\ IsQueue(anonymizerIn, Item) /\ anonymizerIn.cap = AnonymizerCap
        /\ DOMAIN encoderIn = Streams
        /\ \A s \in Streams : IsQueue(encoderIn[s], Item) /\ encoderIn[s].cap = EncoderCap
    BY <2>1, <2>2, NewQueue
  <2>6. TypeOK
    <3>0. run \in 0..MaxRuns
      BY <2>1, <2>2
    <3>1. /\ ctl \in Calls /\ running \in BOOLEAN /\ run \in 0..MaxRuns
          /\ pipes \subseteq Streams /\ todo \subseteq Streams
          /\ thread \in [Thread -> Places]
      BY <2>2, <3>0 DEF Calls, Places
    <3>2. hand \in [Thread -> Item \cup {NoItem}] /\ commits \in Nat
      BY <2>2
    <3>3. QED
      BY <2>3, <2>4, <2>5, <3>1, <3>2 DEF TypeOK
  <2>7. ThreadInv
    BY ThreadInvInductive
  <2>8. SpawnInv /\ RunInv /\ HandInv /\ OnlyThisRun
    BY <2>2 DEF SpawnInv, RunInv, HandInv, OnlyThisRun
  <2>9. QED
    BY <2>6, <2>7, <2>8 DEF RuntimeInv
<1>2. RuntimeInv /\ [Next]_vars => RuntimeInv'
  <2> SUFFICES ASSUME RuntimeInv, [Next]_vars PROVE RuntimeInv'
    OBVIOUS
  <2>1. TypeOK /\ ThreadInv /\ SpawnInv /\ RunInv /\ HandInv /\ OnlyThisRun
    BY DEF RuntimeInv
  <2>2. TypeOK'
    BY <2>1, ControlTypeInductive, FlowTypeInductive DEF TypeOK, FlowType
  <2>3. RunInv'
    <3>1. ASSUME NEW S \in SUBSET Streams, Configure(S) PROVE run' > 0
      BY <2>1, <3>1, RuntimeAssumption DEF Configure, TypeOK
    <3>2. QED
      BY <2>1, <3>1, RunSteps DEF RunInv
  <2>4. QED
    BY <2>1, <2>2, <2>3, ThreadInvInductive, SpawnInvInductive, HandInvInductive,
       OnlyThisRunInductive DEF RuntimeInv
<1>3. QED
  BY <1>1, <1>2, PTL DEF Spec

(* No frame of an earlier run is queued or worked on in a later one, however *)
(* start() failed or stop() found the threads in between.                    *)
THEOREM RunsApart == Spec => []OnlyThisRun
<1>1. RuntimeInv => OnlyThisRun
  BY DEF RuntimeInv
<1>2. QED
  BY <1>1, RuntimeInvHolds, PTL

-----------------------------------------------------------------------------
(* Order.  A frame of stream s is on its way in one of five places, and of  *)
(* two places what is in the one further on has the smaller ids.            *)

Published(s) == Elements(published[s])
AtEncoder(s) == {hand[<<"encoder", s>>]} \ {NoItem}
Queued(s) == Elements(encoderIn[s].items)
AtAnonymizer(s) == {x \in {hand[t] : t \in AnonymizerThread} : x # NoItem /\ x.stream = s}
Waiting(s) == {x \in Elements(anonymizerIn.items) : x.stream = s}

Below(X, Y) == \A x \in X, y \in Y : x.id < y.id

Lined(P, E, Q, A, W, n) ==
  /\ Below(P, E) /\ Below(P, Q) /\ Below(P, A) /\ Below(P, W)
  /\ Below(E, Q) /\ Below(E, A) /\ Below(E, W)
  /\ Below(Q, A) /\ Below(Q, W)
  /\ Below(A, W)
  /\ \A x \in Item : x \in P \/ x \in E \/ x \in Q \/ x \in A \/ x \in W => x.id < n

Rising(items) == \A x, y : Precedes(items, x, y) => x.id < y.id

Ordered(s) ==
  /\ Rising(published[s]) /\ Rising(encoderIn[s].items)
  /\ \A x, y : Precedes(anonymizerIn.items, x, y) /\ x.stream = s /\ y.stream = s => x.id < y.id
  /\ Lined(Published(s), AtEncoder(s), Queued(s), AtAnonymizer(s), Waiting(s), nextCommit[s])

OrderInv == \A s \in Streams : Ordered(s)

(* A frame is committed, and a queue or a thread hands one on to the next.  *)
LEMMA LinedShrinks ==
  ASSUME NEW P, NEW E, NEW Q, NEW A, NEW W, NEW n, Lined(P, E, Q, A, W, n),
         NEW P2 \in SUBSET P, NEW E2 \in SUBSET E, NEW Q2 \in SUBSET Q,
         NEW A2 \in SUBSET A, NEW W2 \in SUBSET W
  PROVE  Lined(P2, E2, Q2, A2, W2, n)
BY DEF Lined, Below

LEMMA LinedCommit ==
  ASSUME NEW P \in SUBSET Item, NEW E \in SUBSET Item, NEW Q \in SUBSET Item,
         NEW A \in SUBSET Item, NEW W \in SUBSET Item, NEW n \in Nat, Lined(P, E, Q, A, W, n),
         NEW x \in Item, n <= x.id, NEW W2 \in SUBSET (W \cup {x})
  PROVE  Lined(P, E, Q, A, W2, x.id + 1)
<1>1. x.id \in Nat /\ \A y \in Item : y.id \in Nat
  BY DEF Item, Frame
<1>2. \A y \in Item : y \in P \/ y \in E \/ y \in Q \/ y \in A \/ y \in W => y.id < x.id
  BY <1>1 DEF Lined
<1>3. \A y \in Item : y.id < x.id => y.id < x.id + 1
  BY <1>1
<1>4. x.id < x.id + 1
  BY <1>1
<1>5. /\ Below(P, E) /\ Below(P, Q) /\ Below(P, A) /\ Below(E, Q) /\ Below(E, A) /\ Below(Q, A)
      /\ Below(P, W2) /\ Below(E, W2) /\ Below(Q, W2) /\ Below(A, W2)
  BY <1>2 DEF Lined, Below
<1>6. \A y \in Item : y \in P \/ y \in E \/ y \in Q \/ y \in A \/ y \in W2 => y.id < x.id + 1
  BY <1>2, <1>3, <1>4
<1>7. QED
  BY <1>5, <1>6 DEF Lined

LEMMA LinedTaken ==
  ASSUME NEW P, NEW E, NEW Q, NEW A, NEW W, NEW n, Lined(P, E, Q, A, W, n),
         NEW x \in W, NEW A2 \in SUBSET {x}, NEW W2 \in SUBSET W, Below({x}, W2)
  PROVE  Lined(P, E, Q, A2, W2, n)
BY DEF Lined, Below

LEMMA LinedAnonymized ==
  ASSUME NEW P, NEW E, NEW Q, NEW A, NEW W, NEW n, Lined(P, E, Q, A, W, n),
         NEW x \in A, NEW Q2 \in SUBSET (Q \cup {x})
  PROVE  Lined(P, E, Q2, {}, W, n)
BY DEF Lined, Below

LEMMA LinedResult ==
  ASSUME NEW P, NEW E, NEW Q, NEW A, NEW W, NEW n, Lined(P, E, Q, A, W, n),
         NEW x \in Q, NEW Q2 \in SUBSET Q, Below({x}, Q2)
  PROVE  Lined(P, {x}, Q2, A, W, n)
BY DEF Lined, Below

LEMMA LinedPublished ==
  ASSUME NEW P, NEW E, NEW Q, NEW A, NEW W, NEW n, Lined(P, E, Q, A, W, n),
         NEW x \in E, NEW P2 \in SUBSET (P \cup {x})
  PROVE  Lined(P2, {}, Q, A, W, n)
BY DEF Lined, Below

LEMMA ElementsType == ASSUME NEW E, NEW q \in Seq(E) PROVE Elements(q) \subseteq E
BY DEF Elements

LEMMA PlacesOfItems ==
  ASSUME TypeOK, NEW s \in Streams
  PROVE  /\ Published(s) \subseteq Item /\ AtEncoder(s) \subseteq Item /\ Queued(s) \subseteq Item
         /\ AtAnonymizer(s) \subseteq Item /\ Waiting(s) \subseteq Item
<1>1. /\ published[s] \in Seq(Item) /\ encoderIn[s].items \in Seq(Item)
      /\ anonymizerIn.items \in Seq(Item) /\ hand \in [Thread -> Item \cup {NoItem}]
  BY DEF TypeOK, IsQueue
<1>2. <<"encoder", s>> \in Thread /\ AnonymizerThread \subseteq Thread
  BY Kinds DEF Pools
<1>3. QED
  BY <1>1, <1>2, ElementsType DEF Published, AtEncoder, Queued, AtAnonymizer, Waiting

OneAnonymizerThread == \A t, v \in AnonymizerThread : t = v

LEMMA OrderInductive ==
  ASSUME TypeOK, ThreadInv, RunInv, HandInv, OneAnonymizerThread, OrderInv, [Next]_vars
  PROVE  OrderInv'
<1> SUFFICES ASSUME NEW u \in Streams PROVE Ordered(u)'
  BY DEF OrderInv
<1>0. /\ IsQueue(anonymizerIn, Item) /\ DOMAIN encoderIn = Streams
      /\ \A s \in Streams : IsQueue(encoderIn[s], Item)
      /\ hand \in [Thread -> Item \cup {NoItem}] /\ thread \in [Thread -> Places]
      /\ published \in [Streams -> Seq(Item)]
      /\ nextCommit \in [Streams -> 0..(MaxFrame + 1)]
      /\ AnonymizerThread \subseteq Thread /\ \A s \in Streams : <<"encoder", s>> \in Thread
      /\ \A s \in Streams : <<"encoder", s>> \notin AnonymizerThread
  BY Kinds DEF TypeOK, Pools
<1>1. /\ Rising(published[u]) /\ Rising(encoderIn[u].items)
      /\ \A x, y : Precedes(anonymizerIn.items, x, y) /\ x.stream = u /\ y.stream = u => x.id < y.id
      /\ Lined(Published(u), AtEncoder(u), Queued(u), AtAnonymizer(u), Waiting(u), nextCommit[u])
  BY DEF OrderInv, Ordered
<1>2. /\ Published(u) \in SUBSET Item /\ AtEncoder(u) \in SUBSET Item /\ Queued(u) \in SUBSET Item
      /\ AtAnonymizer(u) \in SUBSET Item /\ Waiting(u) \in SUBSET Item /\ nextCommit[u] \in Nat
  BY <1>0, PlacesOfItems
<1>3. ASSUME UNCHANGED <<nextCommit, hand, published>>, encoderIn'[u].items = encoderIn[u].items,
             anonymizerIn'.items = anonymizerIn.items
      PROVE  Ordered(u)'
  BY <1>1, <1>3 DEF Ordered, Published, AtEncoder, Queued, AtAnonymizer, Waiting
<1>4. ASSUME NEW t \in Thread, thread[t] = "busy"
      PROVE  hand[t] \in Item /\ hand[t].stream \in Streams /\ hand[t] # NoItem
  BY <1>0, <1>4 DEF HandInv, Item
<1>5. ASSUME NEW S \in SUBSET Streams, Configure(S) PROVE Ordered(u)'
  <2>1. \A t \in Thread : hand[t] = NoItem
    BY <1>0, <1>5, Kinds DEF Configure, ThreadInv, HandInv, NoPipeThreadBut, NoPool
  <2>2. /\ hand' = hand /\ anonymizerIn'.items = <<>> /\ encoderIn'[u].items = <<>>
        /\ published'[u] = <<>>
    BY <1>5 DEF Configure, ResetQueue, EmptyQueue
  <2>3. /\ Published(u)' = {} /\ AtEncoder(u)' = {} /\ Queued(u)' = {} /\ AtAnonymizer(u)' = {}
        /\ Waiting(u)' = {}
    BY <1>0, <2>1, <2>2, NothingInside DEF Published, AtEncoder, Queued, AtAnonymizer, Waiting
  <2>4. Lined({}, {}, {}, {}, {}, nextCommit'[u])
    BY DEF Lined, Below
  <2>5. QED
    BY <2>2, <2>3, <2>4, NothingInside DEF Ordered, Rising
<1>6. CASE AnonymizerInitFails
  <2>1. /\ anonymizerIn'.items = <<>> /\ UNCHANGED <<hand, nextCommit, encoderIn, published>>
    BY <1>6 DEF AnonymizerInitFails, ResetQueue, EmptyQueue
  <2>2. /\ Published(u)' = Published(u) /\ AtEncoder(u)' = AtEncoder(u) /\ Queued(u)' = Queued(u)
        /\ AtAnonymizer(u)' = AtAnonymizer(u) /\ Waiting(u)' = {}
    BY <2>1, NothingInside DEF Published, AtEncoder, Queued, AtAnonymizer, Waiting
  <2>3. Lined(Published(u), AtEncoder(u), Queued(u), AtAnonymizer(u), {}, nextCommit[u])
    BY <1>1, LinedShrinks
  <2>4. QED
    BY <1>1, <2>1, <2>2, <2>3, NothingInside DEF Ordered
<1>7. CASE JoinPools
  <2>1. /\ encoderIn'[u].items = <<>> /\ UNCHANGED <<hand, nextCommit, anonymizerIn, published>>
    BY <1>7 DEF JoinPools, EmptyQueue
  <2>2. /\ Published(u)' = Published(u) /\ AtEncoder(u)' = AtEncoder(u) /\ Queued(u)' = {}
        /\ AtAnonymizer(u)' = AtAnonymizer(u) /\ Waiting(u)' = Waiting(u)
    BY <2>1, NothingInside DEF Published, AtEncoder, Queued, AtAnonymizer, Waiting
  <2>3. Lined(Published(u), AtEncoder(u), {}, AtAnonymizer(u), Waiting(u), nextCommit[u])
    BY <1>1, LinedShrinks
  <2>4. QED
    BY <1>1, <2>1, <2>2, <2>3, NothingInside DEF Ordered, Rising
<1>8. CASE StopAnonymizerQueue
  BY <1>0, <1>3, <1>8, StoppedQueue DEF StopAnonymizerQueue
<1>9. ASSUME NEW s \in Streams, StopPipe(s) PROVE Ordered(u)'
  BY <1>0, <1>3, <1>9, StoppedQueue DEF StopPipe
<1>10. CASE UNCHANGED flow \/ \E s \in Streams : ReadFrame(s)
  BY <1>3, <1>10 DEF flow, ReadFrame
<1>11. ASSUME NEW s \in Streams, NEW f \in Frame, Commit(s, f) PROVE Ordered(u)'
  <2> DEFINE x == [run |-> run, stream |-> s, id |-> f]
  <2>1. /\ anonymizerIn' = PushDropOldest(anonymizerIn, x) /\ nextCommit[s] <= f
        /\ nextCommit' = [nextCommit EXCEPT ![s] = x.id + 1]
        /\ UNCHANGED <<hand, encoderIn, published>>
    BY <1>11 DEF Commit
  <2>2. x \in Item /\ x.stream = s /\ nextCommit[s] <= x.id
    BY <1>11, <2>1, CommitInRun
  <2> HIDE DEF x
  <2>3. /\ \A y \in Elements(anonymizerIn'.items) : y \in Elements(anonymizerIn.items) \/ y = x
        /\ \A y, z : Precedes(anonymizerIn'.items, y, z) =>
             Precedes(anonymizerIn.items, y, z) \/ (y \in Elements(anonymizerIn.items) /\ z = x)
    BY <1>0, <2>1, <2>2, PushOrder
  <2>4. /\ Published(u)' = Published(u) /\ AtEncoder(u)' = AtEncoder(u) /\ Queued(u)' = Queued(u)
        /\ AtAnonymizer(u)' = AtAnonymizer(u)
    BY <2>1 DEF Published, AtEncoder, Queued, AtAnonymizer
  <2>5. CASE u = s
    <3>1. Waiting(u)' \subseteq Waiting(u) \cup {x} /\ nextCommit'[u] = x.id + 1
      BY <1>0, <2>1, <2>3, <2>5 DEF Waiting
    <3>2. Lined(Published(u), AtEncoder(u), Queued(u), AtAnonymizer(u), Waiting(u)', x.id + 1)
      BY <1>1, <1>2, <2>2, <2>5, <3>1, LinedCommit
    <3>3. \A y \in Waiting(u) : y.id < x.id
      <4>1. \A y \in Item : y.id \in Nat
        BY DEF Item, Frame
      <4>2. \A y \in Waiting(u) : y.id < nextCommit[u] /\ y.id \in Nat
        BY <1>1, <1>2, <4>1 DEF Lined
      <4>3. \A k \in Nat : k < nextCommit[u] => k < x.id
        BY <1>2, <2>2, <2>5, <4>1
      <4>4. QED
        BY <4>2, <4>3
    <3>4. \A y, z : Precedes(anonymizerIn'.items, y, z) /\ y.stream = u /\ z.stream = u => y.id < z.id
      BY <1>1, <2>3, <3>3 DEF Waiting
    <3>5. QED
      BY <1>1, <2>1, <2>4, <3>1, <3>2, <3>4 DEF Ordered
  <2>6. CASE u # s
    <3>1. Waiting(u)' \subseteq Waiting(u) /\ nextCommit'[u] = nextCommit[u]
      BY <1>0, <2>1, <2>2, <2>3, <2>6 DEF Waiting
    <3>2. Lined(Published(u), AtEncoder(u), Queued(u), AtAnonymizer(u), Waiting(u)', nextCommit[u])
      BY <1>1, <3>1, LinedShrinks
    <3>3. \A y, z : Precedes(anonymizerIn'.items, y, z) /\ y.stream = u /\ z.stream = u => y.id < z.id
      BY <1>1, <2>2, <2>3, <2>6
    <3>4. QED
      BY <1>1, <2>1, <2>4, <3>1, <3>2, <3>3 DEF Ordered
  <2>7. QED
    BY <2>5, <2>6
<1>12. ASSUME NEW t \in AnonymizerThread, TakeTask(t) PROVE Ordered(u)'
  <2> DEFINE x == Oldest(anonymizerIn)
  <2>1. /\ anonymizerIn' = Popped(anonymizerIn) /\ anonymizerIn.items # <<>>
        /\ hand' = [hand EXCEPT ![t] = x]
        /\ UNCHANGED <<nextCommit, encoderIn, published>>
    BY <1>12 DEF TakeTask, CanPopFor
  <2>2. /\ x \in Elements(anonymizerIn.items)
        /\ \A y \in Elements(anonymizerIn'.items) :
             y \in Elements(anonymizerIn.items) /\ Precedes(anonymizerIn.items, x, y)
        /\ \A y, z : Precedes(anonymizerIn'.items, y, z) => Precedes(anonymizerIn.items, y, z)
    BY <1>0, <2>1, PopOrder
  <2> HIDE DEF x
  <2>3. AnonymizerThread = {t} /\ t \in Thread /\ hand'[t] = x
    BY <1>0, <2>1 DEF OneAnonymizerThread
  <2>4. /\ Published(u)' = Published(u) /\ AtEncoder(u)' = AtEncoder(u) /\ Queued(u)' = Queued(u)
        /\ Waiting(u)' \subseteq Waiting(u)
    BY <1>0, <2>1, <2>2, <2>3 DEF Published, AtEncoder, Queued, Waiting
  <2>5. AtAnonymizer(u)' \subseteq {x} /\ (x.stream # u => AtAnonymizer(u)' = {})
    BY <2>3 DEF AtAnonymizer
  <2>6. Lined(Published(u), AtEncoder(u), Queued(u), AtAnonymizer(u)', Waiting(u)', nextCommit[u])
    <3>1. CASE x.stream = u
      <4>1. x \in Waiting(u) /\ Below({x}, Waiting(u)')
        BY <1>1, <2>2, <3>1 DEF Waiting, Below
      <4>2. QED
        BY <1>1, <2>4, <2>5, <4>1, LinedTaken
    <3>2. CASE x.stream # u
      BY <1>1, <2>4, <2>5, <3>2, LinedShrinks
    <3>3. QED
      BY <3>1, <3>2
  <2>7. QED
    BY <1>1, <2>1, <2>2, <2>4, <2>6 DEF Ordered
<1>13. ASSUME NEW t \in AnonymizerThread, Anonymized(t) PROVE Ordered(u)'
  <2> DEFINE s == hand[t].stream
             q == PushDropOldest(encoderIn[s], hand[t])
  <2>1. /\ encoderIn' = [encoderIn EXCEPT ![s] = q] /\ hand' = [hand EXCEPT ![t] = NoItem]
        /\ UNCHANGED <<nextCommit, anonymizerIn, published>> /\ thread[t] = "busy"
    BY <1>13 DEF Anonymized, Loop, Goes
  <2>2. hand[t] \in Item /\ s \in Streams /\ hand[t] # NoItem /\ IsQueue(encoderIn[s], Item)
    BY <1>0, <1>4, <2>1
  <2>3. /\ \A y \in Elements(q.items) : y \in Elements(encoderIn[s].items) \/ y = hand[t]
        /\ \A y, z : Precedes(q.items, y, z) =>
             Precedes(encoderIn[s].items, y, z) \/ (y \in Elements(encoderIn[s].items) /\ z = hand[t])
    BY <2>2, PushOrder
  <2> HIDE DEF q
  <2>4. AnonymizerThread = {t} /\ t \in Thread /\ hand'[t] = NoItem
    BY <1>0, <2>1 DEF OneAnonymizerThread
  <2>5. /\ Published(u)' = Published(u) /\ AtEncoder(u)' = AtEncoder(u)
        /\ Waiting(u)' = Waiting(u) /\ AtAnonymizer(u)' = {}
    BY <1>0, <2>1, <2>4 DEF Published, AtEncoder, AtAnonymizer, Waiting
  <2>6. CASE u = s
    <3>1. hand[t] \in AtAnonymizer(u) /\ encoderIn'[u] = q /\ Queued(u)' \subseteq Queued(u) \cup {hand[t]}
      BY <1>0, <2>1, <2>2, <2>3, <2>6 DEF AtAnonymizer, Queued
    <3>2. Lined(Published(u), AtEncoder(u), Queued(u)', {}, Waiting(u), nextCommit[u])
      BY <1>1, <3>1, LinedAnonymized
    <3>3. Rising(encoderIn'[u].items)
      BY <1>1, <2>3, <2>6, <3>1 DEF Rising, Lined, Below, Queued
    <3>4. QED
      BY <1>1, <2>1, <2>5, <3>2, <3>3 DEF Ordered
  <2>7. CASE u # s
    <3>1. encoderIn'[u] = encoderIn[u] /\ Queued(u)' = Queued(u)
      BY <1>0, <2>1, <2>7 DEF Queued
    <3>2. Lined(Published(u), AtEncoder(u), Queued(u), {}, Waiting(u), nextCommit[u])
      BY <1>1, LinedShrinks
    <3>3. QED
      BY <1>1, <2>1, <2>5, <3>1, <3>2 DEF Ordered
  <2>8. QED
    BY <2>6, <2>7
<1>14. ASSUME NEW s \in Streams, TakeResult(s) PROVE Ordered(u)'
  <2> DEFINE x == Oldest(encoderIn[s])
             t == <<"encoder", s>>
  <2>1. /\ encoderIn' = [encoderIn EXCEPT ![s] = Popped(encoderIn[s])] /\ encoderIn[s].items # <<>>
        /\ hand' = [hand EXCEPT ![t] = x] /\ UNCHANGED <<nextCommit, anonymizerIn, published>>
    BY <1>14 DEF TakeResult, CanPopFor
  <2>2. /\ x \in Elements(encoderIn[s].items)
        /\ \A y \in Elements(Popped(encoderIn[s]).items) :
             y \in Elements(encoderIn[s].items) /\ Precedes(encoderIn[s].items, x, y)
        /\ \A y, z : Precedes(Popped(encoderIn[s]).items, y, z) => Precedes(encoderIn[s].items, y, z)
    BY <1>0, <2>1, PopOrder
  <2>3. x \in Item
    BY <1>0, <2>1, PopKeepsQueue
  <2> HIDE DEF x
  <2>4. /\ Published(u)' = Published(u) /\ Waiting(u)' = Waiting(u)
        /\ AtAnonymizer(u)' = AtAnonymizer(u)
    BY <1>0, <2>1 DEF Published, AtAnonymizer, Waiting
  <2>5. CASE u = s
    <3>1. AtEncoder(u)' = {x} /\ encoderIn'[u] = Popped(encoderIn[u]) /\ x \in Queued(u)
          /\ Queued(u)' \subseteq Queued(u)
      <4>1. x # NoItem
        BY <2>3 DEF Item, NoItem
      <4>2. QED
        BY <1>0, <2>1, <2>2, <2>5, <4>1 DEF AtEncoder, Queued
    <3>2. Below({x}, Queued(u)')
      BY <1>1, <2>2, <2>5, <3>1 DEF Rising, Below, Queued
    <3>3. Lined(Published(u), {x}, Queued(u)', AtAnonymizer(u), Waiting(u), nextCommit[u])
      BY <1>1, <3>1, <3>2, LinedResult
    <3>4. Rising(encoderIn'[u].items)
      BY <1>1, <2>2, <2>5, <3>1 DEF Rising
    <3>5. QED
      BY <1>1, <2>1, <2>4, <3>1, <3>3, <3>4 DEF Ordered
  <2>6. CASE u # s
    <3>1. encoderIn'[u] = encoderIn[u] /\ Queued(u)' = Queued(u) /\ AtEncoder(u)' = AtEncoder(u)
      BY <1>0, <2>1, <2>6 DEF Queued, AtEncoder
    <3>2. QED
      BY <1>1, <2>1, <2>4, <3>1 DEF Ordered
  <2>7. QED
    BY <2>5, <2>6
<1>15. ASSUME NEW s \in Streams, Publish(s) PROVE Ordered(u)'
  <2> DEFINE t == <<"encoder", s>>
  <2>1. /\ published' = [published EXCEPT ![s] = Append(published[s], hand[t])]
        /\ hand' = [hand EXCEPT ![t] = NoItem] /\ thread[t] = "busy"
        /\ UNCHANGED <<nextCommit, anonymizerIn, encoderIn>>
    BY <1>15 DEF Publish, Loop, Goes
  <2>2. hand[t] \in Item /\ hand[t] # NoItem /\ published[s] \in Seq(Item)
    BY <1>0, <1>4, <2>1
  <2>3. /\ \A y \in Elements(Append(published[s], hand[t])) :
             y \in Elements(published[s]) \/ y = hand[t]
        /\ \A y, z : Precedes(Append(published[s], hand[t]), y, z) =>
             Precedes(published[s], y, z) \/ (y \in Elements(published[s]) /\ z = hand[t])
    BY <2>2, AppendOrder
  <2>4. /\ Queued(u)' = Queued(u) /\ Waiting(u)' = Waiting(u)
        /\ AtAnonymizer(u)' = AtAnonymizer(u)
    BY <1>0, <2>1 DEF Queued, AtAnonymizer, Waiting
  <2>5. CASE u = s
    <3>1. /\ AtEncoder(u)' = {} /\ hand[t] \in AtEncoder(u)
          /\ published'[u] = Append(published[s], hand[t])
          /\ Published(u)' \subseteq Published(u) \cup {hand[t]}
      BY <1>0, <2>1, <2>2, <2>3, <2>5 DEF AtEncoder, Published
    <3>2. Lined(Published(u)', {}, Queued(u), AtAnonymizer(u), Waiting(u), nextCommit[u])
      BY <1>1, <3>1, LinedPublished
    <3>3. Rising(published'[u])
      BY <1>1, <2>3, <2>5, <3>1 DEF Rising, Lined, Below, Published
    <3>4. QED
      BY <1>1, <2>1, <2>4, <3>1, <3>2, <3>3 DEF Ordered
  <2>6. CASE u # s
    <3>1. published'[u] = published[u] /\ Published(u)' = Published(u) /\ AtEncoder(u)' = AtEncoder(u)
      BY <1>0, <2>1, <2>6 DEF Published, AtEncoder
    <3>2. QED
      BY <1>1, <2>1, <2>4, <3>1 DEF Ordered
  <2>7. QED
    BY <2>5, <2>6
<1>16. QED
  BY <1>5, <1>6, <1>7, <1>8, <1>9, <1>10, <1>11, <1>12, <1>13, <1>14, <1>15, FlowSteps

(* With one anonymizer every stream is published in frame_id order and no   *)
(* frame twice, however many streams share its queue, whichever frames the  *)
(* queues drop, and however often the pipeline is stopped and started.      *)
THEOREM StreamsInOrder ==
  ASSUME \A a, b \in Anonymizers : a = b
  PROVE  Spec => []PublishedInOrder
<1>0. OneAnonymizerThread
  BY DEF OneAnonymizerThread, AnonymizerThread
<1>1. Init => OrderInv
  <2> SUFFICES ASSUME Init, NEW s \in Streams PROVE Ordered(s)
    BY DEF OrderInv
  <2>1. /\ hand = [t \in Thread |-> NoItem] /\ anonymizerIn.items = <<>>
        /\ encoderIn[s].items = <<>> /\ published[s] = <<>>
        /\ <<"encoder", s>> \in Thread /\ AnonymizerThread \subseteq Thread
    BY Kinds DEF Init, EmptyQueue, Pools
  <2>2. /\ Published(s) = {} /\ AtEncoder(s) = {} /\ Queued(s) = {} /\ AtAnonymizer(s) = {}
        /\ Waiting(s) = {}
    BY <2>1, NothingInside DEF Published, AtEncoder, Queued, AtAnonymizer, Waiting
  <2>3. Lined({}, {}, {}, {}, {}, nextCommit[s])
    BY DEF Lined, Below
  <2>4. QED
    BY <2>1, <2>2, <2>3, NothingInside DEF Ordered, Rising
<1>2. RuntimeInv /\ OrderInv /\ [Next]_vars => OrderInv'
  BY <1>0, OrderInductive DEF RuntimeInv
<1>3. OrderInv => PublishedInOrder
  BY DEF OrderInv, Ordered, Rising, Precedes, PublishedInOrder
<1>4. QED
  BY <1>1, <1>2, <1>3, RuntimeInvHolds, PTL DEF Spec

-----------------------------------------------------------------------------
(* Sums.  MapThenSumSet folds over the streams: it takes the value, at the  *)
(* whole set, of a function on sets of streams that is chosen for its       *)
(* equation.  Solves is the equation, with the amount of each stream given  *)
(* by a function.                                                           *)

Picked(T) == CHOOSE x \in T : TRUE
Rest(T) == T \ {Picked(T)}
Solves(g, h) ==
  g = [T \in SUBSET Streams |-> IF T = {} THEN 0 ELSE h[Picked(T)] + g[Rest(T)]]
Total(h) == (CHOOSE g : Solves(g, h))[Streams]

Past == [s \in Streams |-> PastAnonymizer(s)]

LEMMA SumIsTotal == MapThenSumSet(PastAnonymizer, Streams) = Total(Past)
<1> DEFINE F(g) == [T \in SUBSET Streams |->
                      IF T = {} THEN 0 ELSE PastAnonymizer(Picked(T)) + g[Rest(T)]]
           G(g) == [T \in SUBSET Streams |->
                      IF T = {} THEN 0 ELSE Past[Picked(T)] + g[Rest(T)]]
<1>1. MapThenSumSet(PastAnonymizer, Streams) = (CHOOSE g : g = F(g))[Streams]
  BY DEF MapThenSumSet, MapThenFoldSet, Picked, Rest
<1>2. ASSUME NEW g PROVE F(g) = G(g)
  <2>1. ASSUME NEW T \in SUBSET Streams, T # {} PROVE Past[Picked(T)] = PastAnonymizer(Picked(T))
    <3>1. Picked(T) \in Streams
      BY <2>1 DEF Picked
    <3>2. QED
      BY <3>1 DEF Past
  <2>2. QED
    BY <2>1
<1>3. (CHOOSE g : g = F(g)) = CHOOSE g : g = G(g)
  <2> HIDE DEF F, G
  <2>1. QED
    BY <1>2
<1>4. Total(Past) = (CHOOSE g : g = G(g))[Streams]
  BY DEF Total, Solves
<1>5. QED
  BY <1>1, <1>3, <1>4

(* Induction over the sets of streams, one stream taken away at a time: a   *)
(* least set that is not among those of P would have its Rest among them.   *)
LEMMA SetsOfStreams ==
  ASSUME NEW P, {} \in P,
         \A T \in SUBSET Streams : T # {} /\ Rest(T) \in P => T \in P
  PROVE  Streams \in P
<1> SUFFICES ASSUME Streams \notin P PROVE FALSE
  OBVIOUS
<1> DEFINE Bad == (SUBSET Streams) \ P
<1>1. IsWellFoundedOn(StrictSubsetOrdering(Streams), SUBSET Streams)
  <2>1. IsFiniteSet(Streams)
    BY RuntimeAssumption
  <2>2. FiniteSubsetsOf(Streams) = SUBSET Streams
    BY <2>1, FS_FiniteSubsetsOfFinite
  <2>3. IsWellFoundedOn(StrictSubsetOrdering(Streams), FiniteSubsetsOf(Streams))
    BY FS_StrictSubsetOrderingWellFounded
  <2>4. QED
    BY <2>2, <2>3
<1>2. Bad \subseteq SUBSET Streams /\ Bad # {}
  OBVIOUS
<1>3. PICK T \in Bad : \A V \in Bad : ~(<<V, T>> \in StrictSubsetOrdering(Streams))
  <2> HIDE DEF Bad
  <2>1. QED
    BY <1>1, <1>2, WFMin
<1>4. T # {} /\ Rest(T) \in Bad
  BY <1>3 DEF Rest
<1>5. Rest(T) \subseteq T /\ Picked(T) \in T /\ Picked(T) \notin Rest(T)
  BY <1>4 DEF Rest, Picked
<1>6. <<Rest(T), T>> \in StrictSubsetOrdering(Streams)
  BY <1>3, <1>5 DEF StrictSubsetOrdering
<1>7. QED
  BY <1>3, <1>4, <1>6

(* The equation has a solution: built up over the sets of 0, 1, 2 ...       *)
(* streams.                                                                 *)
LEMMA SumExists ==
  ASSUME NEW h \in [Streams -> Int]
  PROVE  Solves(CHOOSE g : Solves(g, h), h)
<1> DEFINE F(g) == [T \in SUBSET Streams |->
                      IF T = {} THEN 0 ELSE h[Picked(T)] + g[Rest(T)]]
           UpTo(n) == {g \in [SUBSET Streams -> Int] :
                         \A T \in SUBSET Streams : Cardinality(T) <= n => g[T] = F(g)[T]}
           P == {T \in SUBSET Streams : UpTo(Cardinality(T)) # {}}
<1>0. \A T \in SUBSET Streams :
        /\ Cardinality(T) \in Nat /\ (Cardinality(T) = 0 <=> T = {})
        /\ Cardinality(T) <= Cardinality(Streams)
        /\ T # {} => /\ Picked(T) \in T /\ Picked(T) \in Streams
                     /\ Rest(T) \in SUBSET Streams
                     /\ Cardinality(Rest(T)) = Cardinality(T) - 1
  <2> SUFFICES ASSUME NEW T \in SUBSET Streams
               PROVE  /\ Cardinality(T) \in Nat /\ (Cardinality(T) = 0 <=> T = {})
                      /\ Cardinality(T) <= Cardinality(Streams)
                      /\ T # {} => /\ Picked(T) \in T /\ Picked(T) \in Streams
                                   /\ Rest(T) \in SUBSET Streams
                                   /\ Cardinality(Rest(T)) = Cardinality(T) - 1
    OBVIOUS
  <2>1. IsFiniteSet(T) /\ Cardinality(T) <= Cardinality(Streams)
    BY RuntimeAssumption, FS_Subset
  <2>2. Cardinality(T) \in Nat /\ (Cardinality(T) = 0 <=> T = {})
    BY <2>1, FS_CardinalityType, FS_EmptySet
  <2>3. T # {} => Picked(T) \in T
    BY DEF Picked
  <2>4. T # {} => Cardinality(Rest(T)) = Cardinality(T) - 1
    BY <2>1, <2>3, FS_RemoveElement DEF Rest
  <2>5. QED
    BY <2>1, <2>2, <2>3, <2>4 DEF Rest
<1>1. {} \in P
  <2> DEFINE zero == [T \in SUBSET Streams |-> 0]
  <2>1. Cardinality({}) = 0
    BY FS_EmptySet
  <2>2. \A T \in SUBSET Streams : Cardinality(T) <= 0 => zero[T] = F(zero)[T]
    BY <1>0
  <2>3. zero \in [SUBSET Streams -> Int]
    OBVIOUS
  <2>4. zero \in UpTo(0)
    <3> HIDE DEF zero, F
    <3>1. QED
      BY <2>2, <2>3
  <2>5. QED
    BY <2>1, <2>4
<1>2. ASSUME NEW T \in SUBSET Streams, T # {}, Rest(T) \in P PROVE T \in P
  <2> DEFINE n == Cardinality(T)
  <2>1. n \in Nat /\ n > 0 /\ Cardinality(Rest(T)) = n - 1
    BY <1>0, <1>2
  <2>2. PICK g \in [SUBSET Streams -> Int] :
          \A V \in SUBSET Streams : Cardinality(V) <= n - 1 => g[V] = F(g)[V]
    BY <1>2, <2>1
  <2>3. F(g) \in [SUBSET Streams -> Int]
    <3>1. ASSUME NEW V \in SUBSET Streams, V # {} PROVE h[Picked(V)] + g[Rest(V)] \in Int
      BY <1>0, <2>2, <3>1
    <3>2. QED
      BY <3>1
  <2>4. ASSUME NEW V \in SUBSET Streams, Cardinality(V) <= n
        PROVE  F(g)[V] = F(F(g))[V]
    <3>1. CASE V = {}
      BY <3>1
    <3>2. CASE V # {}
      <4>1. Rest(V) \in SUBSET Streams /\ Cardinality(Rest(V)) <= n - 1
        BY <1>0, <2>1, <2>4, <3>2
      <4>2. g[Rest(V)] = F(g)[Rest(V)]
        BY <2>2, <4>1
      <4>3. F(g)[V] = h[Picked(V)] + g[Rest(V)]
        BY <3>2
      <4>4. F(F(g))[V] = h[Picked(V)] + F(g)[Rest(V)]
        BY <3>2
      <4>5. QED
        BY <4>2, <4>3, <4>4
    <3>3. QED
      BY <3>1, <3>2
  <2>5. F(g) \in UpTo(n)
    <3> HIDE DEF F
    <3>1. QED
      BY <2>3, <2>4
  <2>6. QED
    BY <2>5
<1>3. Streams \in P
  <2> HIDE DEF P
  <2>1. QED
    BY <1>1, <1>2, SetsOfStreams
<1>4. PICK g \in [SUBSET Streams -> Int] : \A T \in SUBSET Streams : g[T] = F(g)[T]
  <2>1. PICK g \in UpTo(Cardinality(Streams)) : TRUE
    BY <1>3
  <2>2. \A T \in SUBSET Streams : Cardinality(T) <= Cardinality(Streams)
    BY <1>0
  <2> HIDE DEF F
  <2>3. QED
    BY <2>1, <2>2
<1>5. g = F(g)
  <2>1. F(g) = [T \in SUBSET Streams |-> F(g)[T]]
    OBVIOUS
  <2> HIDE DEF F
  <2>2. QED
    BY <1>4, <2>1
<1>6. Solves(g, h)
  BY <1>5 DEF Solves
<1>7. QED
  BY <1>6

(* When no stream has anything, nor have they together.                     *)
LEMMA TotalOfNothing == Total([s \in Streams |-> 0]) = 0
<1> DEFINE h == [s \in Streams |-> 0]
           g == CHOOSE e : Solves(e, h)
           P == {T \in SUBSET Streams : g[T] = 0}
<1>1. Solves(g, h)
  BY SumExists
<1>2. {} \in P
  BY <1>1 DEF Solves
<1>3. ASSUME NEW T \in SUBSET Streams, T # {}, Rest(T) \in P PROVE T \in P
  <2>1. Picked(T) \in Streams
    BY <1>3 DEF Picked
  <2>2. g[T] = h[Picked(T)] + g[Rest(T)]
    BY <1>1, <1>3 DEF Solves
  <2>3. h[Picked(T)] = 0 /\ g[Rest(T)] = 0
    BY <1>3, <2>1
  <2>4. QED
    BY <2>2, <2>3
<1>4. Streams \in P
  <2> HIDE DEF P
  <2>1. QED
    BY <1>2, <1>3, SetsOfStreams
<1>5. QED
  BY <1>4 DEF Total

(* When one stream has d more, so have they together.                       *)
LEMMA TotalGrows ==
  ASSUME NEW h \in [Streams -> Int], NEW k \in [Streams -> Int], NEW s \in Streams, NEW d \in Int,
         k[s] = h[s] + d, \A r \in Streams \ {s} : k[r] = h[r]
  PROVE  Total(h) \in Int /\ Total(k) = Total(h) + d
<1> DEFINE f == CHOOSE e : Solves(e, h)
           g == CHOOSE e : Solves(e, k)
           Share(T) == IF s \in T THEN d ELSE 0
           P == {T \in SUBSET Streams : f[T] \in Int /\ g[T] = f[T] + Share(T)}
<1>1. Solves(f, h) /\ Solves(g, k)
  BY SumExists
<1> HIDE DEF f, g
<1>2. {} \in P
  <2>1. f[{}] = 0 /\ g[{}] = 0
    BY <1>1 DEF Solves
  <2>2. QED
    BY <2>1
<1>3. ASSUME NEW T \in SUBSET Streams, T # {}, Rest(T) \in P PROVE T \in P
  <2>1. /\ Picked(T) \in T /\ Picked(T) \in Streams
        /\ Rest(T) = T \ {Picked(T)}
    BY <1>3 DEF Picked, Rest
  <2>2. f[T] = h[Picked(T)] + f[Rest(T)] /\ g[T] = k[Picked(T)] + g[Rest(T)]
    BY <1>1, <1>3 DEF Solves
  <2>3. f[Rest(T)] \in Int /\ g[Rest(T)] = f[Rest(T)] + Share(Rest(T))
    BY <1>3
  <2>4. h[Picked(T)] \in Int
    BY <2>1
  <2>5. CASE Picked(T) = s
    <3>1. Share(T) = d /\ Share(Rest(T)) = 0 /\ k[Picked(T)] = h[Picked(T)] + d
      BY <2>1, <2>5
    <3>2. QED
      BY <2>2, <2>3, <2>4, <3>1
  <2>6. CASE Picked(T) # s
    <3>1. Share(T) = Share(Rest(T)) /\ k[Picked(T)] = h[Picked(T)] /\ Share(T) \in Int
      BY <2>1, <2>6
    <3>2. QED
      BY <2>2, <2>3, <2>4, <3>1
  <2>7. QED
    BY <2>5, <2>6
<1>4. Streams \in P
  <2> HIDE DEF P
  <2>1. QED
    BY <1>2, <1>3, SetsOfStreams
<1>5. f[Streams] \in Int /\ g[Streams] = f[Streams] + d
  BY <1>4
<1>6. QED
  BY <1>5 DEF Total, f, g

-----------------------------------------------------------------------------
(* Accounts.                                                                *)

(* The threads that hold a frame are finitely many.                         *)
Busy == {t \in Thread : hand[t] # NoItem}

LEMMA ThreadsFinite == IsFiniteSet(Thread)
<1>1. IsFiniteSet(Streams) /\ IsFiniteSet(Workers) /\ IsFiniteSet(Anonymizers)
  BY RuntimeAssumption
<1>2. IsFiniteSet({"ingest", "coordinator", "encoder"})
  <2>1. IsFiniteSet({"ingest"}) /\ IsFiniteSet({"coordinator"}) /\ IsFiniteSet({"encoder"})
    BY FS_Singleton
  <2>2. {"ingest", "coordinator", "encoder"} = ({"ingest"} \cup {"coordinator"}) \cup {"encoder"}
    OBVIOUS
  <2>3. IsFiniteSet({"ingest"} \cup {"coordinator"})
    BY <2>1, FS_Union
  <2>4. IsFiniteSet(({"ingest"} \cup {"coordinator"}) \cup {"encoder"})
    BY <2>1, <2>3, FS_Union
  <2>5. QED
    BY <2>2, <2>4
<1>3. IsFiniteSet(PipeThread)
  BY <1>1, <1>2, FS_Product DEF PipeThread
<1>4. IsFiniteSet({"worker"}) /\ IsFiniteSet({"anonymizer"}) /\ IsFiniteSet({MetricsThread})
  BY FS_Singleton
<1>5. IsFiniteSet(WorkerThread)
  BY <1>1, <1>4, FS_Product DEF WorkerThread
<1>6. IsFiniteSet(AnonymizerThread)
  BY <1>1, <1>4, FS_Product DEF AnonymizerThread
<1>7. IsFiniteSet(PipeThread \cup WorkerThread)
  BY <1>3, <1>5, FS_Union
<1>8. IsFiniteSet((PipeThread \cup WorkerThread) \cup AnonymizerThread)
  BY <1>6, <1>7, FS_Union
<1>9. IsFiniteSet(((PipeThread \cup WorkerThread) \cup AnonymizerThread) \cup {MetricsThread})
  BY <1>4, <1>8, FS_Union
<1>10. QED
  BY <1>9 DEF Thread

(* A thread that takes a frame adds one in hand, one that passes it on      *)
(* takes one away.                                                          *)
LEMMA HandsCount ==
  /\ InHand \in Nat
  /\ \A t \in Thread : \A x :
       /\ hand[t] = NoItem /\ x # NoItem /\ DOMAIN hand = Thread
            /\ hand' = [hand EXCEPT ![t] = x] => InHand' = InHand + 1
       /\ hand[t] # NoItem /\ DOMAIN hand = Thread
            /\ hand' = [hand EXCEPT ![t] = NoItem] => InHand' = InHand - 1
<1>1. InHand = Cardinality(Busy) /\ InHand' = Cardinality(Busy')
  BY DEF InHand, Busy
<1>2. IsFiniteSet(Busy)
  BY ThreadsFinite, FS_Subset DEF Busy
<1>3. Cardinality(Busy) \in Nat
  BY <1>2, FS_CardinalityType
<1>4. ASSUME NEW t \in Thread, NEW x, hand[t] = NoItem, x # NoItem, DOMAIN hand = Thread,
             hand' = [hand EXCEPT ![t] = x]
      PROVE  InHand' = InHand + 1
  <2>1. Busy' = Busy \cup {t} /\ t \notin Busy
    BY <1>4 DEF Busy
  <2>2. Cardinality(Busy \cup {t}) = Cardinality(Busy) + 1
    BY <1>2, <2>1, FS_AddElement
  <2>3. QED
    BY <1>1, <2>1, <2>2
<1>5. ASSUME NEW t \in Thread, hand[t] # NoItem, DOMAIN hand = Thread,
             hand' = [hand EXCEPT ![t] = NoItem]
      PROVE  InHand' = InHand - 1
  <2>1. Busy' = Busy \ {t} /\ t \in Busy
    BY <1>5 DEF Busy
  <2>2. Cardinality(Busy \ {t}) = Cardinality(Busy) - 1
    BY <1>2, <2>1, FS_RemoveElement
  <2>3. QED
    BY <1>1, <2>1, <2>2
<1>6. QED
  BY <1>1, <1>3, <1>4, <1>5

(* What pushing and popping does to what a queue holds and has dropped.     *)
LEMMA PushHolds ==
  ASSUME NEW E, NEW q, NEW x \in E, IsQueue(q, E), q.cap > 0, ~q.stopped
  PROVE  /\ Held(q) \in Int
         /\ Held(PushDropOldest(q, x)) = Held(q) + 1 /\ ~PushDropOldest(q, x).stopped
<1>1. /\ q \in [items : Seq(E), cap : Nat, dropped : Nat, stopped : BOOLEAN]
      /\ Len(q.items) \in Nat /\ q.dropped \in Nat
  BY DEF IsQueue
<1>2. Held(q) \in Int
  BY <1>1 DEF Held
<1>3. Held(PushDropOldest(q, x)) = Held(q) + 1
  BY PushAccountsForDrop DEF Accepts
<1>4. ~PushDropOldest(q, x).stopped
  BY <1>1 DEF PushDropOldest
<1>5. QED
  BY <1>2, <1>3, <1>4

LEMMA PopHolds ==
  ASSUME NEW E, NEW q, IsQueue(q, E), q.items # <<>>
  PROVE  /\ Held(q) \in Int
         /\ Held(Popped(q)) = Held(q) - 1 /\ Popped(q).stopped = q.stopped
<1>1. /\ q \in [items : Seq(E), cap : Nat, dropped : Nat, stopped : BOOLEAN]
      /\ q.items \in Seq(E) /\ Len(q.items) \in Nat /\ q.dropped \in Nat
  BY DEF IsQueue
<1>2. Len(Tail(q.items)) = Len(q.items) - 1
  BY <1>1
<1>3. Popped(q).items = Tail(q.items) /\ Popped(q).dropped = q.dropped
      /\ Popped(q).stopped = q.stopped
  BY <1>1 DEF Popped
<1>4. QED
  BY <1>1, <1>2, <1>3 DEF Held

(* The account: what was committed is in the anonymizer queue or was        *)
(* dropped there, is in hand, or has got past the anonymizer.               *)
Balanced(c, q, n, p) == c = q + n + p

LEMMA Booked ==
  ASSUME NEW c \in Int, NEW q \in Int, NEW n \in Int, NEW p \in Int, Balanced(c, q, n, p)
  PROVE  /\ Balanced(c + 1, q + 1, n, p)
         /\ Balanced(c, q - 1, n + 1, p)
         /\ Balanced(c, q, n - 1, p + 1)
         /\ Balanced(c, q, n + 1, p - 1)
BY DEF Balanced

AccountInv ==
  running =>
    /\ ctl \in {"workers", "streams", "running"}
    /\ ~anonymizerIn.stopped /\ \A s \in Streams : ~encoderIn[s].stopped
    /\ Balanced(commits, Held(anonymizerIn), InHand, Total(Past))

(* The flag is raised by a configuration only, and start() and stop() lower *)
(* it as they leave the places at which it is up.                           *)
LEMMA RunningSteps ==
  [Next]_vars =>
    \/ \E S \in SUBSET Streams : Configure(S)
    \/ running' => /\ running
                   /\ \/ ctl \notin {"workers", "streams", "running"}
                      \/ ctl' \in {"workers", "streams", "running"}
BY DEF Next, Start, FinishStop, Step, vars, control, TakeTask, Anonymized, OpenSource, Idle,
       SpawnWorker, WorkerInitFails, SpawnAnonymizers, SpawnStream, SourceInitFails, StartDone,
       Stop, PipesStopped, JoinPipe, PipesJoined, AnonymizerInitFails, StopAnonymizerQueue,
       StopPipe, JoinPools, ReadFrame, Commit, TakeResult, Publish

LEMMA AccountInductive ==
  RuntimeInv /\ AccountInv /\ [Next]_vars => AccountInv'
<1> SUFFICES ASSUME RuntimeInv, AccountInv, [Next]_vars, running' PROVE AccountInv'
  BY DEF AccountInv
<1>0. /\ hand \in [Thread -> Item \cup {NoItem}] /\ NoItem \notin Item
      /\ IsQueue(anonymizerIn, Item) /\ anonymizerIn.cap > 0
      /\ DOMAIN encoderIn = Streams
      /\ \A s \in Streams : IsQueue(encoderIn[s], Item) /\ encoderIn[s].cap > 0
      /\ commits \in Nat
      /\ published \in [Streams -> Seq(Item)]
      /\ \A t \in Thread : hand[t] # NoItem <=> thread[t] = "busy"
  <2>1. AnonymizerCap > 0 /\ EncoderCap > 0
    BY RuntimeAssumption
  <2>2. NoItem \notin Item
    BY DEF NoItem, Item
  <2>3. TypeOK /\ HandInv
    BY DEF RuntimeInv
  <2> HIDE DEF Item, NoItem
  <2>4. QED
    BY <2>1, <2>2, <2>3 DEF TypeOK, HandInv
<1>1. InHand \in Int
  BY HandsCount
<1>2. \A s \in Streams : Len(published[s]) \in Nat /\ Held(encoderIn[s]) \in Int
  BY <1>0 DEF IsQueue, Held
<1>3. Past \in [Streams -> Int]
  BY <1>2 DEF Past, PastAnonymizer
<1>4. Held(anonymizerIn) \in Int
  BY <1>0 DEF IsQueue, Held
<1>5. ASSUME NEW s \in Streams
      PROVE  Total(Past) \in Int
  <2>1. Past[s] = Past[s] + 0 /\ 0 \in Int
    BY <1>3
  <2>2. QED
    BY <1>3, <2>1, TotalGrows
<1>6. Total(Past) \in Int
  BY <1>5, RuntimeAssumption
<1>7. PipeThread \subseteq Thread /\ AnonymizerThread \subseteq Thread
      /\ \A s \in Streams : <<"encoder", s>> \in Thread
  BY Kinds DEF Pools
<1>8. ASSUME NEW S \in SUBSET Streams, Configure(S) PROVE AccountInv'
  <2>1. \A t \in Thread : thread[t] = "absent"
    BY <1>8, Kinds DEF Configure, RuntimeInv, ThreadInv, NoPipeThreadBut, NoPool
  <2>2. Busy' = {}
    BY <1>0, <1>8, <2>1 DEF Busy, Configure
  <2>3. InHand' = 0
    BY <2>2, FS_EmptySet DEF InHand, Busy
  <2>4. Past' = [s \in Streams |-> 0]
    <3>1. ASSUME NEW s \in Streams PROVE Held(encoderIn'[s]) + Len(published'[s]) = 0
      BY <1>8 DEF Configure, EmptyQueue, Held
    <3>2. QED
      BY <3>1 DEF Past, PastAnonymizer
  <2>5. (Total(Past))' = 0
    <3>1. (Total(Past))' = Total(Past')
      BY DEF Total, Solves
    <3>2. QED
      BY <2>4, <3>1, TotalOfNothing
  <2>6. /\ Held(anonymizerIn') = 0 /\ commits' = 0 /\ ~anonymizerIn'.stopped
        /\ \A s \in Streams : ~encoderIn'[s].stopped
        /\ ctl' \in {"workers", "streams", "running"}
    BY <1>8 DEF Configure, ResetQueue, EmptyQueue, Held
  <2>7. Balanced(commits', Held(anonymizerIn'), InHand', (Total(Past))')
    BY <2>3, <2>5, <2>6 DEF Balanced
  <2>8. QED
    BY <2>6, <2>7 DEF AccountInv
<1>9. CASE ~\E S \in SUBSET Streams : Configure(S)
  <2>0. /\ running /\ ctl \in {"workers", "streams", "running"}
        /\ ctl' \in {"workers", "streams", "running"}
        /\ ~anonymizerIn.stopped /\ \A s \in Streams : ~encoderIn[s].stopped
        /\ Balanced(commits, Held(anonymizerIn), InHand, Total(Past))
    BY <1>9, RunningSteps DEF AccountInv
  <2>1. ASSUME ~anonymizerIn'.stopped, \A s \in Streams : ~encoderIn'[s].stopped,
               Balanced(commits', Held(anonymizerIn'), InHand', Total(Past'))
        PROVE  AccountInv'
    <3>1. (Total(Past))' = Total(Past')
      BY DEF Total, Solves
    <3>2. Balanced(commits', Held(anonymizerIn'), InHand', (Total(Past))')
      BY <2>1, <3>1
    <3>3. QED
      BY <2>0, <2>1, <3>2 DEF AccountInv
  <2>2. UNCHANGED hand => InHand' = InHand
    BY DEF InHand
  <2>3. UNCHANGED <<encoderIn, published>> => Past' = Past
    BY DEF Past, PastAnonymizer
  <2>4. ASSUME UNCHANGED <<hand, encoderIn, published, commits, anonymizerIn>> PROVE AccountInv'
    BY <2>0, <2>1, <2>2, <2>3, <2>4
  <2>5. ASSUME NEW s \in Streams, NEW f \in Frame, Commit(s, f) PROVE AccountInv'
    <3> DEFINE x == [run |-> run, stream |-> s, id |-> f]
    <3>1. /\ anonymizerIn' = PushDropOldest(anonymizerIn, x) /\ commits' = commits + 1
          /\ UNCHANGED <<hand, encoderIn, published>>
      BY <2>5 DEF Commit
    <3>2. x \in Item
      BY <2>0 DEF Item, RuntimeInv, TypeOK, RunInv
    <3> HIDE DEF x
    <3>3. /\ Held(PushDropOldest(anonymizerIn, x)) = Held(anonymizerIn) + 1
          /\ ~PushDropOldest(anonymizerIn, x).stopped
      BY <1>0, <2>0, <3>2, PushHolds
    <3>4. Balanced(commits + 1, Held(anonymizerIn) + 1, InHand, Total(Past))
      BY <1>0, <1>1, <1>4, <1>6, <2>0, Booked
    <3>5. QED
      BY <2>0, <2>1, <2>2, <2>3, <3>1, <3>3, <3>4
  <2>6. ASSUME NEW t \in AnonymizerThread, TakeTask(t) PROVE AccountInv'
    <3>1. /\ anonymizerIn' = Popped(anonymizerIn) /\ anonymizerIn.items # <<>>
          /\ hand' = [hand EXCEPT ![t] = Oldest(anonymizerIn)]
          /\ thread[t] = "wait"
          /\ UNCHANGED <<encoderIn, commits, published>>
      BY <2>6 DEF TakeTask, CanPopFor, Goes
    <3>2. Held(Popped(anonymizerIn)) = Held(anonymizerIn) - 1 /\ ~Popped(anonymizerIn).stopped
      BY <1>0, <2>0, <3>1, PopHolds
    <3>3. Oldest(anonymizerIn) # NoItem
      BY <1>0, <3>1, PopKeepsQueue
    <3>4. InHand' = InHand + 1
      BY <1>0, <1>7, <3>1, <3>3, HandsCount
    <3>5. Balanced(commits, Held(anonymizerIn) - 1, InHand + 1, Total(Past))
      BY <1>0, <1>1, <1>4, <1>6, <2>0, Booked
    <3>6. QED
      BY <2>0, <2>1, <2>3, <3>1, <3>2, <3>4, <3>5
  <2>7. ASSUME NEW s \in Streams, NEW d \in Int,
               \A r \in Streams \ {s} : encoderIn'[r] = encoderIn[r] /\ published'[r] = published[r],
               Past'[s] = Past[s] + d
        PROVE  Total(Past') = Total(Past) + d
    <3>1. \A r \in Streams \ {s} : Past'[r] = Past[r]
      BY <2>7 DEF Past, PastAnonymizer
    <3>2. Past' = [r \in Streams |-> Past'[r]]
      BY DEF Past
    <3>3. \A r \in Streams : Past'[r] \in Int
      BY <1>3, <2>7, <3>1
    <3>4. Past' \in [Streams -> Int]
      BY <3>2, <3>3
    <3>5. QED
      BY <1>3, <2>7, <3>1, <3>4, TotalGrows
  <2>8. ASSUME NEW t \in AnonymizerThread, Anonymized(t) PROVE AccountInv'
    <3> DEFINE x == hand[t]
               s == x.stream
    <3>1. /\ encoderIn' = [encoderIn EXCEPT ![s] = PushDropOldest(encoderIn[s], x)]
          /\ hand' = [hand EXCEPT ![t] = NoItem]
          /\ thread[t] = "busy"
          /\ UNCHANGED <<anonymizerIn, commits, published>>
      BY <2>8 DEF Anonymized, Loop, Goes
    <3>2. x \in Item /\ x # NoItem
      BY <1>0, <1>7, <3>1
    <3>3. s \in Streams
      BY <3>2 DEF Item
    <3> HIDE DEF x, s
    <3>4. /\ Held(PushDropOldest(encoderIn[s], x)) = Held(encoderIn[s]) + 1
          /\ ~PushDropOldest(encoderIn[s], x).stopped
      BY <1>0, <2>0, <3>2, <3>3, PushHolds
    <3>5. encoderIn'[s] = PushDropOldest(encoderIn[s], x)
      BY <1>0, <3>1, <3>3
    <3>6. \A r \in Streams : ~encoderIn'[r].stopped
      BY <1>0, <2>0, <3>1, <3>3, <3>4
    <3>7. Past'[s] = Past[s] + 1
      <4>1. Past[s] = Held(encoderIn[s]) + Len(published[s])
        BY <3>3 DEF Past, PastAnonymizer
      <4>2. Past'[s] = Held(encoderIn'[s]) + Len(published'[s])
        BY <3>3 DEF Past, PastAnonymizer
      <4>3. Past'[s] = (Held(encoderIn[s]) + 1) + Len(published[s])
        BY <3>1, <3>4, <3>5, <4>2
      <4>4. QED
        BY <1>2, <3>3, <4>1, <4>3
    <3>8. Total(Past') = Total(Past) + 1
      <4>1. \A r \in Streams \ {s} : encoderIn'[r] = encoderIn[r] /\ published'[r] = published[r]
        BY <1>0, <3>1, <3>5
      <4>2. QED
        BY <2>7, <3>3, <3>7, <4>1
    <3>9. InHand' = InHand - 1
      BY <1>0, <1>7, <3>1, <3>2, HandsCount DEF x
    <3>10. Balanced(commits, Held(anonymizerIn), InHand - 1, Total(Past) + 1)
      BY <1>0, <1>1, <1>4, <1>6, <2>0, Booked
    <3>11. QED
      BY <2>0, <2>1, <3>1, <3>6, <3>8, <3>9, <3>10
  <2>9. ASSUME NEW s \in Streams, TakeResult(s) PROVE AccountInv'
    <3> DEFINE t == <<"encoder", s>>
    <3>1. /\ encoderIn' = [encoderIn EXCEPT ![s] = Popped(encoderIn[s])]
          /\ encoderIn[s].items # <<>>
          /\ hand' = [hand EXCEPT ![t] = Oldest(encoderIn[s])]
          /\ thread[t] = "wait"
          /\ UNCHANGED <<anonymizerIn, commits, published>>
      BY <2>9 DEF TakeResult, CanPopFor, Goes
    <3>2. t \in Thread
      BY <1>7
    <3> HIDE DEF t
    <3>3. Held(Popped(encoderIn[s])) = Held(encoderIn[s]) - 1 /\ ~Popped(encoderIn[s]).stopped
      BY <1>0, <2>0, <3>1, PopHolds
    <3>4. encoderIn'[s] = Popped(encoderIn[s])
      BY <1>0, <3>1
    <3>5. \A r \in Streams : ~encoderIn'[r].stopped
      BY <1>0, <2>0, <3>1, <3>3
    <3>6. Past'[s] = Past[s] + (-1)
      <4>1. Past[s] = Held(encoderIn[s]) + Len(published[s])
        BY DEF Past, PastAnonymizer
      <4>2. Past'[s] = Held(encoderIn'[s]) + Len(published'[s])
        BY DEF Past, PastAnonymizer
      <4>3. Past'[s] = (Held(encoderIn[s]) - 1) + Len(published[s])
        BY <3>1, <3>3, <3>4, <4>2
      <4>4. QED
        BY <1>2, <4>1, <4>3
    <3>7. Total(Past') = Total(Past) + (-1)
      <4>1. \A r \in Streams \ {s} : encoderIn'[r] = encoderIn[r] /\ published'[r] = published[r]
        BY <1>0, <3>1, <3>4
      <4>2. QED
        BY <2>7, <3>6, <4>1
    <3>8. Oldest(encoderIn[s]) # NoItem
      BY <1>0, <3>1, PopKeepsQueue
    <3>9. InHand' = InHand + 1
      BY <1>0, <3>1, <3>2, <3>8, HandsCount
    <3>10. Balanced(commits, Held(anonymizerIn), InHand + 1, Total(Past) - 1)
      BY <1>0, <1>1, <1>4, <1>6, <2>0, Booked
    <3>11. Total(Past) + (-1) = Total(Past) - 1
      BY <1>6
    <3>12. QED
      BY <2>0, <2>1, <3>1, <3>5, <3>7, <3>9, <3>10, <3>11
  <2>10. ASSUME NEW s \in Streams, Publish(s) PROVE AccountInv'
    <3> DEFINE t == <<"encoder", s>>
    <3>1. /\ published' = [published EXCEPT ![s] = Append(published[s], hand[t])]
          /\ hand' = [hand EXCEPT ![t] = NoItem]
          /\ thread[t] = "busy"
          /\ UNCHANGED <<anonymizerIn, commits, encoderIn>>
      BY <2>10 DEF Publish, Loop, Goes
    <3>2. t \in Thread
      BY <1>7
    <3> HIDE DEF t
    <3>3. hand[t] \in Item /\ hand[t] # NoItem
      BY <1>0, <3>1, <3>2
    <3>4. published'[s] = Append(published[s], hand[t]) /\ published[s] \in Seq(Item)
      BY <1>0, <3>1
    <3>5. Len(published'[s]) = Len(published[s]) + 1
      BY <3>3, <3>4
    <3>6. Past'[s] = Past[s] + 1
      <4>1. Past[s] = Held(encoderIn[s]) + Len(published[s])
        BY DEF Past, PastAnonymizer
      <4>2. Past'[s] = Held(encoderIn'[s]) + Len(published'[s])
        BY DEF Past, PastAnonymizer
      <4>3. Past'[s] = Held(encoderIn[s]) + (Len(published[s]) + 1)
        BY <3>1, <3>5, <4>2
      <4>4. QED
        BY <1>2, <4>1, <4>3
    <3>7. Total(Past') = Total(Past) + 1
      <4>1. \A r \in Streams \ {s} : encoderIn'[r] = encoderIn[r] /\ published'[r] = published[r]
        BY <1>0, <3>1, <3>4
      <4>2. QED
        BY <2>7, <3>6, <4>1
    <3>8. InHand' = InHand - 1
      BY <1>0, <3>1, <3>2, <3>3, HandsCount
    <3>9. Balanced(commits, Held(anonymizerIn), InHand - 1, Total(Past) + 1)
      BY <1>0, <1>1, <1>4, <1>6, <2>0, Booked
    <3>10. QED
      BY <2>0, <2>1, <3>1, <3>7, <3>8, <3>9
  <2>11. CASE UNCHANGED flow
    BY <2>4, <2>11 DEF flow
  <2>12. CASE \E s \in Streams : ReadFrame(s)
    BY <2>4, <2>12 DEF ReadFrame
  <2>13. CASE AnonymizerInitFails \/ StopAnonymizerQueue \/ JoinPools
              \/ \E s \in Streams : StopPipe(s)
    BY <2>0, <2>13 DEF AnonymizerInitFails, StopAnonymizerQueue, JoinPools, StopPipe
  <2>14. QED
    BY <1>9, <2>5, <2>6, <2>8, <2>9, <2>10, <2>11, <2>12, <2>13, FlowSteps
<1>10. QED
  BY <1>8, <1>9

(* Between start() and stop() every frame that was committed is queued, in  *)
(* hand, published, or counted as dropped, for any number of streams,       *)
(* anonymizers and queues of any capacity.                                  *)
THEOREM NoneLostUncounted == Spec => []FramesAccounted
<1>1. Init => AccountInv
  BY DEF Init, AccountInv
<1>2. Spec => []AccountInv
  BY <1>1, AccountInductive, RuntimeInvHolds, PTL DEF Spec
<1>3. AccountInv => FramesAccounted
  BY SumIsTotal DEF AccountInv, Balanced, FramesAccounted
<1>4. QED
  BY <1>2, <1>3, PTL
=============================================================================
