-------------------------- MODULE PipelineRuntime --------------------------
(***************************************************************************)
(* The runtime that owns every thread and queue of a pipeline              *)
(* (core/src/pipeline/runtime.cpp): start() builds the pipes and starts    *)
(* the threads, stop() lowers a flag, stops the queues, joins the threads  *)
(* and destroys what they used.  In between frames go from the coordinator *)
(* of their stream through one anonymizer queue, shared by all streams,    *)
(* and an encoder queue per stream.                                        *)
(*                                                                         *)
(* Each thread is `while (running_) { pop_for(queue, timeout) ... }`.  It  *)
(* waits, works, and tests the flag at the end of an iteration: if the     *)
(* flag is lowered just after the test, it is found in its wait.  The      *)
(* stages in front of the coordinator are represented by their worker      *)
(* threads and by what StreamCoordinator is shown to implement: commits in *)
(* frame_id order (CommitLog), of any frames the source has emitted.       *)
(***************************************************************************)
EXTENDS Integers, Sequences, FiniteSets, FiniteSetsExt, BoundedQueue

CONSTANTS
  Streams,        \* configured streams, as 1..n: they are started and joined in order
  Anonymizers,    \* threads of anonymizer_pool_
  Workers,        \* threads of the detector, face, recognizer and identity pools
  AnonymizerCap,  \* anonymizer_in_cap
  EncoderCap,     \* encoder_in_cap
  MaxFrame,       \* bound: a source emits the frames 0..MaxFrame of a run
  MaxRuns         \* bound: how often start() gets past its first failures

ASSUME RuntimeAssumption ==
  /\ Streams = 1..Cardinality(Streams)
  /\ Streams # {} /\ Anonymizers # {} /\ Workers # {}
  /\ IsFiniteSet(Streams) /\ IsFiniteSet(Anonymizers) /\ IsFiniteSet(Workers)
  /\ AnonymizerCap \in Nat \ {0} /\ EncoderCap \in Nat \ {0}
  /\ MaxFrame \in Nat /\ MaxRuns \in Nat

Frame == 0..MaxFrame
Item == [run : 1..MaxRuns, stream : Streams, id : Frame]

PipeThread == {"ingest", "coordinator", "encoder"} \X Streams
WorkerThread == {"worker"} \X Workers
AnonymizerThread == {"anonymizer"} \X Anonymizers
MetricsThread == <<"metrics", 0>>
Thread == PipeThread \cup WorkerThread \cup AnonymizerThread \cup {MetricsThread}

VARIABLES
  ctl,          \* where start() or stop() is; "stopped" and "running" between calls
  running,      \* running_
  run,          \* how many times the runtime has been configured
  pipes,        \* streams in pipes_, once their coordinator could be built
  todo,         \* those the current loop of start() or stop() has not come to
  thread,       \* per thread its place in its loop; "absent" before start, after join
  hand,         \* per thread the item it is working on, or NoItem
  nextFrame,    \* per stream, the next id of its source
  nextCommit,   \* per stream, the smallest id its coordinator may still commit
  anonymizerIn, \* anonymizer_in_
  encoderIn,    \* per stream, encoder_in
  commits,      \* history: how many frames this run has committed
  published     \* history: per stream, what this run has given to the stream publisher

control == <<ctl, running, run, pipes, todo>>
flow == <<hand, nextFrame, nextCommit, anonymizerIn, encoderIn, commits, published>>
vars == <<control, thread, flow>>

NoItem == [run |-> 0, stream |-> 0, id |-> 0]
Calls == {"stopped", "workers", "streams", "running",
          "stopQueues", "stopPipes", "joinPipes", "joinPools"}
Places == {"absent", "open", "wait", "busy", "done"}

Goes(t, from, to) == thread[t] = from /\ thread' = [thread EXCEPT ![t] = to]
IsNext(s, S) == s \in S /\ \A r \in S : s <= r

Init ==
  /\ ctl = "stopped" /\ running = FALSE /\ run = 0
  /\ pipes = {} /\ todo = {}
  /\ thread = [t \in Thread |-> "absent"]
  /\ hand = [t \in Thread |-> NoItem]
  /\ nextFrame = [s \in Streams |-> 0]
  /\ nextCommit = [s \in Streams |-> 0]
  /\ anonymizerIn = EmptyQueue(AnonymizerCap)
  /\ encoderIn = [s \in Streams |-> EmptyQueue(EncoderCap)]
  /\ commits = 0
  /\ published = [s \in Streams |-> <<>>]

-----------------------------------------------------------------------------
(* start().                                                                 *)

ReopenedQueue(q) == [q EXCEPT !.stopped = FALSE] \* faulty variant: what is in it stays
ResetQueue(q) == EmptyQueue(q.cap)

(* The stage factories and the anonymizer exist; the coordinators of the    *)
(* streams S could be built.  When a factory throws, start() returns false  *)
(* and has changed nothing; when the anonymizer throws, only the queue has  *)
(* been reset, as in AnonymizerInitFails.                                   *)
Configure(S) ==
  /\ ctl = "stopped" /\ run < MaxRuns
  /\ ctl' = "workers"
  /\ running' = TRUE
  /\ run' = run + 1
  /\ pipes' = S
  /\ anonymizerIn' = ResetQueue(anonymizerIn)
  /\ encoderIn' = [s \in Streams |-> EmptyQueue(EncoderCap)]
  /\ nextFrame' = [s \in Streams |-> 0]
  /\ nextCommit' = [s \in Streams |-> 0]
  /\ commits' = 0
  /\ published' = [s \in Streams |-> <<>>]
  /\ UNCHANGED <<todo, thread, hand>>

AnonymizerInitFails ==
  /\ ctl = "stopped"
  /\ anonymizerIn' = ResetQueue(anonymizerIn)
  /\ UNCHANGED <<control, thread, hand, nextFrame, nextCommit, encoderIn, commits,
                 published>>

SpawnWorker(t) ==
  /\ ctl = "workers"
  /\ t \in WorkerThread
  /\ Goes(t, "absent", "wait")
  /\ UNCHANGED <<control, flow>>

(* A factory's create() throws: the workers started so far are running and  *)
(* start() calls stop().                                                    *)
WorkerInitFails ==
  /\ ctl = "workers"
  /\ \E t \in WorkerThread : thread[t] = "absent"
  /\ ctl' = "stopQueues"
  /\ running' = FALSE
  /\ UNCHANGED <<run, pipes, todo, thread, flow>>

SpawnAnonymizers ==
  /\ ctl = "workers"
  /\ \A t \in WorkerThread : thread[t] # "absent"
  /\ ctl' = "streams"
  /\ todo' = pipes
  /\ thread' = [t \in Thread |-> IF t \in AnonymizerThread THEN "wait" ELSE thread[t]]
  /\ UNCHANGED <<running, run, pipes, flow>>

SpawnStream(s) ==
  /\ ctl = "streams"
  /\ IsNext(s, todo)
  /\ todo' = todo \ {s}
  /\ thread' = [thread EXCEPT ![<<"ingest", s>>] = "open",
                              ![<<"coordinator", s>>] = "wait",
                              ![<<"encoder", s>>] = "wait"]
  /\ UNCHANGED <<ctl, running, run, pipes, flow>>

(* make_dual_source() throws: the stream stays in pipes_ without threads.   *)
SourceInitFails(s) ==
  /\ ctl = "streams"
  /\ IsNext(s, todo)
  /\ todo' = todo \ {s}
  /\ UNCHANGED <<ctl, running, run, pipes, thread, flow>>

StartDone ==
  /\ ctl = "streams"
  /\ todo = {}
  /\ IF \E s \in Streams : thread[<<"ingest", s>>] # "absent"
     THEN /\ ctl' = "running"
          /\ thread' \in {thread, [thread EXCEPT ![MetricsThread] = "wait"]}
          /\ UNCHANGED running
     ELSE /\ ctl' = "stopQueues"       \* "no streams were started": stop()
          /\ running' = FALSE
          /\ UNCHANGED thread
  /\ UNCHANGED <<run, pipes, todo, flow>>

-----------------------------------------------------------------------------
(* stop().  Called when nothing was started it returns at once.             *)

Stop ==
  /\ ctl = "running"
  /\ ctl' = "stopQueues"
  /\ running' = FALSE
  /\ UNCHANGED <<run, pipes, todo, thread, flow>>

StopAnonymizerQueue ==
  /\ ctl = "stopQueues"
  /\ ctl' = "stopPipes"
  /\ todo' = pipes
  /\ anonymizerIn' = StopQueue(anonymizerIn)
  /\ UNCHANGED <<running, run, pipes, thread, hand, nextFrame, nextCommit, encoderIn,
                 commits, published>>

StopPipe(s) ==
  /\ ctl = "stopPipes"
  /\ IsNext(s, todo)
  /\ todo' = todo \ {s}
  /\ encoderIn' = [encoderIn EXCEPT ![s] = StopQueue(@)]
  /\ UNCHANGED <<ctl, running, run, pipes, thread, hand, nextFrame, nextCommit,
                 anonymizerIn, commits, published>>

PipesStopped ==
  /\ ctl = "stopPipes" /\ todo = {}
  /\ ctl' = "joinPipes"
  /\ todo' = pipes
  /\ UNCHANGED <<running, run, pipes, thread, flow>>

(* A thread that was never started is not joinable and is passed over. *)
Joinable(T) == \A t \in T : thread[t] \in {"done", "absent"}
Joined(T) == [t \in Thread |-> IF t \in T THEN "absent" ELSE thread[t]]

JoinPipe(s) ==
  LET T == {"ingest", "coordinator", "encoder"} \X {s} IN
  /\ ctl = "joinPipes"
  /\ IsNext(s, todo)
  /\ Joinable(T)
  /\ thread' = Joined(T)
  /\ todo' = todo \ {s}
  /\ UNCHANGED <<ctl, running, run, pipes, flow>>

PipesJoined ==
  /\ ctl = "joinPipes" /\ todo = {}
  /\ ctl' = "joinPools"
  /\ UNCHANGED <<running, run, pipes, todo, thread, flow>>

StagePools == WorkerThread \cup {MetricsThread} \* faulty variant: not the anonymizers
Pools == WorkerThread \cup AnonymizerThread \cup {MetricsThread}

(* The pools are joined, the pipes and the stages destroyed. *)
JoinPools ==
  /\ ctl = "joinPools"
  /\ Joinable(Pools)
  /\ thread' = Joined(Pools)
  /\ ctl' = "stopped"
  /\ pipes' = {}
  /\ encoderIn' = [s \in Streams |-> EmptyQueue(EncoderCap)]
  /\ UNCHANGED <<running, run, todo, hand, nextFrame, nextCommit, anonymizerIn,
                 commits, published>>

-----------------------------------------------------------------------------
(* The threads.                                                             *)

LoopsForEver(t, from) == Goes(t, from, "wait") \* faulty variant: the flag is not tested

(* The end of an iteration and the test of while (running_).               *)
Loop(t, from) == Goes(t, from, IF running THEN "wait" ELSE "done")

(* ingest_loop_: the source starts or it does not; then each read times out *)
(* or yields a frame, whose task and context are queued.                    *)
OpenSource(s) ==
  /\ Loop(<<"ingest", s>>, "open") \/ Goes(<<"ingest", s>>, "open", "done")
  /\ UNCHANGED <<control, flow>>

ReadFrame(s) ==
  /\ Loop(<<"ingest", s>>, "wait")
  /\ nextFrame[s] <= MaxFrame
  /\ nextFrame' = [nextFrame EXCEPT ![s] = @ + 1]
  /\ UNCHANGED <<control, hand, nextCommit, anonymizerIn, encoderIn, commits, published>>

(* coordinator_loop_ and commit_frame_: within one iteration any number of  *)
(* frames are committed, in order.                                          *)
Commit(s, f) ==
  /\ thread[<<"coordinator", s>>] = "wait"
  /\ nextCommit[s] <= f /\ f < nextFrame[s]
  /\ nextCommit' = [nextCommit EXCEPT ![s] = f + 1]
  /\ anonymizerIn' = PushDropOldest(anonymizerIn, [run |-> run, stream |-> s, id |-> f])
  /\ commits' = commits + 1
  /\ UNCHANGED <<control, thread, hand, nextFrame, encoderIn, published>>

(* The end of a wait: a read or a pop that timed out, a drain that is over, *)
(* the metrics thread's sleep, and, the queues of the stages being left to  *)
(* the coordinator's environment, a stage worker's whole iteration.  A pop  *)
(* does not time out while there is something to pop.                       *)
NothingToPop(t) ==
  /\ t \in AnonymizerThread => ~CanPopFor(anonymizerIn)
  /\ \A s \in Streams : t = <<"encoder", s>> => ~CanPopFor(encoderIn[s])

Idle(t) ==
  /\ NothingToPop(t)
  /\ Loop(t, "wait")
  /\ UNCHANGED <<control, flow>>

(* anonymizer_loop_ *)
TakeTask(t) ==
  /\ t \in AnonymizerThread
  /\ Goes(t, "wait", "busy")
  /\ CanPopFor(anonymizerIn)
  /\ hand' = [hand EXCEPT ![t] = Oldest(anonymizerIn)]
  /\ anonymizerIn' = Popped(anonymizerIn)
  /\ UNCHANGED <<control, nextFrame, nextCommit, encoderIn, commits, published>>

Anonymized(t) ==
  /\ t \in AnonymizerThread
  /\ Loop(t, "busy")
  /\ encoderIn' = [encoderIn EXCEPT ![hand[t].stream] = PushDropOldest(@, hand[t])]
  /\ hand' = [hand EXCEPT ![t] = NoItem]
  /\ UNCHANGED <<control, nextFrame, nextCommit, anonymizerIn, commits, published>>

(* encoder_loop_ *)
TakeResult(s) ==
  LET t == <<"encoder", s>> IN
  /\ Goes(t, "wait", "busy")
  /\ CanPopFor(encoderIn[s])
  /\ hand' = [hand EXCEPT ![t] = Oldest(encoderIn[s])]
  /\ encoderIn' = [encoderIn EXCEPT ![s] = Popped(@)]
  /\ UNCHANGED <<control, nextFrame, nextCommit, anonymizerIn, commits, published>>

Publish(s) ==
  LET t == <<"encoder", s>> IN
  /\ Loop(t, "busy")
  /\ published' = [published EXCEPT ![s] = Append(@, hand[t])]
  /\ hand' = [hand EXCEPT ![t] = NoItem]
  /\ UNCHANGED <<control, nextFrame, nextCommit, anonymizerIn, encoderIn, commits>>

-----------------------------------------------------------------------------
Start ==
  \/ \E S \in SUBSET Streams : Configure(S)
  \/ AnonymizerInitFails
  \/ \E t \in WorkerThread : SpawnWorker(t)
  \/ WorkerInitFails
  \/ SpawnAnonymizers
  \/ \E s \in Streams : SpawnStream(s) \/ SourceInitFails(s)
  \/ StartDone

FinishStop ==
  \/ StopAnonymizerQueue
  \/ \E s \in Streams : StopPipe(s) \/ JoinPipe(s)
  \/ PipesStopped \/ PipesJoined \/ JoinPools

Step(t) ==
  \/ Idle(t) \/ TakeTask(t) \/ Anonymized(t)
  \/ \E s \in Streams :
       \/ t = <<"ingest", s>> /\ (OpenSource(s) \/ ReadFrame(s))
       \/ t = <<"coordinator", s>> /\ \E f \in Frame : Commit(s, f)
       \/ t = <<"encoder", s>> /\ (TakeResult(s) \/ Publish(s))

Next == Start \/ Stop \/ FinishStop \/ \E t \in Thread : Step(t)

Spec == Init /\ [][Next]_vars

(* A thread is scheduled, every wait of a loop has a timeout, and the       *)
(* caller of stop() goes on; nobody is bound to call start() or stop().     *)
Fairness == WF_vars(FinishStop) /\ \A t \in Thread : WF_vars(Step(t))
FairSpec == Spec /\ Fairness

-----------------------------------------------------------------------------
(* Properties.                                                              *)

(* Every variable has its type and no queue exceeds its capacity.           *)
TypeOK ==
  /\ ctl \in Calls /\ running \in BOOLEAN /\ run \in 0..MaxRuns
  /\ pipes \subseteq Streams /\ todo \subseteq Streams
  /\ thread \in [Thread -> Places]
  /\ hand \in [Thread -> Item \cup {NoItem}]
  /\ nextFrame \in [Streams -> 0..(MaxFrame + 1)]
  /\ nextCommit \in [Streams -> 0..(MaxFrame + 1)]
  /\ IsQueue(anonymizerIn, Item) /\ anonymizerIn.cap = AnonymizerCap
  /\ DOMAIN encoderIn = Streams
  /\ \A s \in Streams : IsQueue(encoderIn[s], Item) /\ encoderIn[s].cap = EncoderCap
  /\ commits \in Nat
  /\ published \in [Streams -> Seq(Item)]

(* When stop() has destroyed the pipes and the stages, whatever start() had *)
(* got to, no thread is left that would use them, and none survives into    *)
(* the next run.                                                            *)
NoThreadOutlivesStop ==
  ctl = "stopped" => \A t \in Thread : thread[t] = "absent"

(* No frame of an earlier run is queued, worked on or published in a later  *)
(* one: the anonymizer queue outlives the pipes and is emptied by start().  *)
AllOf(r, q) == \A i \in DOMAIN q.items : q.items[i].run = r

OnlyThisRun ==
  ctl # "stopped" =>
    /\ AllOf(run, anonymizerIn)
    /\ \A s \in Streams : AllOf(run, encoderIn[s])
    /\ \A t \in Thread : hand[t] # NoItem => hand[t].run = run

(* While the runtime runs, every committed frame is queued, in hand,        *)
(* published or counted as dropped by a queue: none is lost in between, in  *)
(* whatever order the threads of all streams use the shared queue.          *)
Held(q) == Len(q.items) + q.dropped
InHand == Cardinality({t \in Thread : hand[t] # NoItem})
PastAnonymizer(s) == Held(encoderIn[s]) + Len(published[s])

FramesAccounted ==
  running => commits = Held(anonymizerIn) + InHand
                       + MapThenSumSet(PastAnonymizer, Streams)

(* With a single anonymizer each stream is published in frame_id order and  *)
(* no frame twice, although all streams share the anonymizer's queue.       *)
PublishedInOrder ==
  \A s \in Streams : \A i, j \in DOMAIN published[s] :
    i < j => published[s][i].id < published[s][j].id

(* stop() returns: every thread it joins comes to the end of its loop,      *)
(* whatever it was waiting for or working on when the flag was lowered.     *)
StopReturns == ctl = "stopQueues" ~> ctl = "stopped"
=============================================================================
