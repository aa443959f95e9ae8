---------------------------- MODULE RunnerProcess ----------------------------
(***************************************************************************)
(* The life of the runner process (apps/core_service/main.cpp): the main   *)
(* thread that waits for a signal and then shuts everything down, the gRPC *)
(* server with its calls (grpc_runner_server.cpp), and the HTTP server     *)
(* with the readers of one MJPEG stream (streaming/runner_http_server.cpp).*)
(*                                                                         *)
(* A command of the manager is one step under its lock; RunnerManager has  *)
(* its steps.  The lock of the stream is not atomic here: a reader holds   *)
(* it from the test of its predicate until it sleeps, a push holds it for  *)
(* its only step, and stop() never takes it.                               *)
(***************************************************************************)
EXTENDS Naturals, FiniteSets

CONSTANTS
  Callers,  \* clients of the control service, with one call each
  Readers,  \* requests for /video of the stream
  MaxSeq    \* bound on pushed frames

VARIABLES
  main,        \* where the main thread is
  signalled,   \* ~g_running
  pipeline,    \* is there a runtime_ that runs
  accepting,   \* the gRPC server takes new calls
  call,        \* per caller: "none", "start", "stop", "status" or "over"
  watch,       \* WatchTelemetry: "none", "open" or "cancelled"
  running,     \* running_ of the HTTP server
  seq,         \* StreamState::seq
  notifying,   \* a push has counted its frame and not yet notified
  reader,      \* per reader, where it is
  sent,        \* per reader, last_sent
  overlooked   \* history: readers between test and sleep when stop() notified

process == <<main, signalled>>
rpc == <<accepting, call, watch>>
readers == <<reader, sent>>
vars == <<process, pipeline, rpc, running, seq, notifying, readers, overlooked>>

Init ==
  /\ main = "serving" /\ signalled = FALSE
  /\ pipeline \in BOOLEAN \* --no-autostart, or an autostart that failed
  /\ accepting = TRUE
  /\ call = [c \in Callers |-> "none"] /\ watch = "none"
  /\ running = TRUE
  /\ seq = 0 /\ notifying = FALSE
  /\ reader = [r \in Readers |-> "away"] /\ sent = [r \in Readers |-> 0]
  /\ overlooked = {}

-----------------------------------------------------------------------------
(* Calls.  The server answers those it has accepted, also after Shutdown(). *)

Call(c) ==
  /\ accepting /\ call[c] = "none"
  /\ \E method \in {"start", "stop", "status"} : call' = [call EXCEPT ![c] = method]
  /\ UNCHANGED <<process, pipeline, accepting, watch, running, seq, notifying, readers, overlooked>>

(* stop_locked_ and ~PipelineRuntime join the encoder thread that pushes. *)
NobodyPushes == ~notifying

(* Start, Reload, Stop or GetStatus under the lock of the manager. *)
Answer(c) ==
  /\ \/ call[c] = "start" /\ pipeline' \in {TRUE, pipeline}
     \/ call[c] = "start" /\ NobodyPushes /\ pipeline' = FALSE \* a reload that failed
     \/ call[c] = "stop" /\ NobodyPushes /\ pipeline' = FALSE
     \/ call[c] = "status" /\ pipeline' = pipeline
  /\ call' = [call EXCEPT ![c] = "over"]
  /\ UNCHANGED <<process, accepting, watch, running, seq, notifying, readers, overlooked>>

(* WatchTelemetry goes on until its client cancels it or is gone. *)
WatchTelemetry ==
  /\ \/ accepting /\ watch = "none" /\ watch' = "open"
     \/ watch = "open" /\ watch' = "cancelled"
  /\ UNCHANGED <<process, pipeline, accepting, call, running, seq, notifying, readers, overlooked>>

EndWatch ==
  /\ watch = "cancelled" /\ watch' = "none"
  /\ UNCHANGED <<process, pipeline, accepting, call, running, seq, notifying, readers, overlooked>>

-----------------------------------------------------------------------------
(* The MJPEG stream.                                                        *)

Unlocked == \A r \in Readers : reader[r] # "tested"
NoLock == TRUE \* faulty variant: the push does not take the mutex

PushLock == Unlocked

PushJpeg ==
  /\ pipeline /\ seq < MaxSeq /\ ~notifying /\ PushLock
  /\ seq' = seq + 1 /\ notifying' = TRUE
  /\ UNCHANGED <<process, pipeline, rpc, running, readers, overlooked>>

Woken == [r \in Readers |-> IF reader[r] = "asleep" THEN "testing" ELSE reader[r]]

Notify ==
  /\ notifying /\ notifying' = FALSE
  /\ reader' = Woken
  /\ UNCHANGED <<process, pipeline, rpc, running, seq, sent, overlooked>>

Reading(r, from, to) ==
  /\ reader[r] = from
  /\ reader' = [reader EXCEPT ![r] = to]
  /\ UNCHANGED <<process, pipeline, rpc, running, seq, notifying, overlooked>>

(* GET /video, while the server listens. *)
OpenVideo(r) ==
  /\ main # "join" /\ main # "ended"
  /\ Reading(r, "away", "looping")
  /\ sent' = [sent EXCEPT ![r] = 0]

(* The loop is left when running_ is false, here or once it holds the lock. *)
LeaveLoop(r) ==
  /\ ~running
  /\ \/ Reading(r, "looping", "away")
     \/ Unlocked /\ Reading(r, "testing", "away")
  /\ UNCHANGED sent

EnterLoop(r) == running /\ Reading(r, "looping", "testing") /\ UNCHANGED sent

(* The predicate holds: the newest frame is taken. *)
TakeFrame(r) ==
  /\ running /\ seq # sent[r] /\ Unlocked
  /\ Reading(r, "testing", "writing")
  /\ sent' = [sent EXCEPT ![r] = seq]

TestFails(r) ==
  /\ running /\ seq = sent[r] /\ Unlocked
  /\ Reading(r, "testing", "tested")
  /\ UNCHANGED sent

Sleep(r) == Reading(r, "tested", "asleep") /\ UNCHANGED sent

(* A write to a client that is gone fails and ends the request. *)
Write(r) ==
  /\ Reading(r, "writing", "looping") \/ Reading(r, "writing", "away")
  /\ UNCHANGED sent

Read(r) == LeaveLoop(r) \/ EnterLoop(r) \/ TakeFrame(r) \/ TestFails(r) \/ Sleep(r) \/ Write(r)

-----------------------------------------------------------------------------
(* The main thread: runner.stop(), grpc_server.stop(), and the destructors  *)
(* of RunnerManager, the runtime's first and the HTTP server's last.        *)

Signal ==
  /\ ~signalled /\ signalled' = TRUE
  /\ UNCHANGED <<main, pipeline, rpc, running, seq, notifying, readers, overlooked>>

Main(from, to) == main = from /\ main' = to /\ UNCHANGED signalled

StopRunner ==
  /\ signalled /\ NobodyPushes
  /\ Main("serving", "stopped")
  /\ pipeline' = FALSE
  /\ UNCHANGED <<rpc, running, seq, notifying, readers, overlooked>>

Shutdown ==
  /\ Main("stopped", "draining")
  /\ accepting' = FALSE
  /\ UNCHANGED <<pipeline, call, watch, running, seq, notifying, readers, overlooked>>

NotDrained == TRUE \* faulty variant: the calls under way are not waited for

(* Shutdown() has no deadline: it waits for the calls under way.            *)
Drained ==
  /\ \A c \in Callers : call[c] \in {"none", "over"}
  /\ watch = "none"

DestroyRuntime ==
  /\ Drained /\ NobodyPushes
  /\ Main("draining", "closing")
  /\ pipeline' = FALSE
  /\ UNCHANGED <<rpc, running, seq, notifying, readers, overlooked>>

NotifyNobody == \* faulty variant: stop() wakes no reader
  /\ Main("notify", "join")
  /\ overlooked' = {r \in Readers : reader[r] = "tested"}
  /\ UNCHANGED <<pipeline, rpc, running, seq, notifying, readers>>

(* RunnerHTTPServer::stop: running_ is cleared, then the readers notified.  *)
ClearRunning ==
  /\ Main("closing", "notify")
  /\ running' = FALSE
  /\ UNCHANGED <<pipeline, rpc, seq, notifying, readers, overlooked>>

NotifyReaders ==
  /\ Main("notify", "join")
  /\ reader' = Woken
  /\ overlooked' = {r \in Readers : reader[r] = "tested"}
  /\ UNCHANGED <<pipeline, rpc, running, seq, notifying, sent>>

(* faulty variant: the readers are notified while running_ is still set *)
NotifyFirst ==
  \/ /\ Main("closing", "notify")
     /\ reader' = Woken
     /\ overlooked' = {r \in Readers : reader[r] = "tested"}
     /\ UNCHANGED <<pipeline, rpc, running, seq, notifying, sent>>
  \/ /\ Main("notify", "join")
     /\ running' = FALSE
     /\ UNCHANGED <<pipeline, rpc, seq, notifying, readers, overlooked>>

StopHttp == ClearRunning \/ NotifyReaders

(* The server thread ends when every request has been served. *)
JoinServer ==
  /\ \A r \in Readers : reader[r] = "away"
  /\ Main("join", "ended")
  /\ UNCHANGED <<pipeline, rpc, running, seq, notifying, readers, overlooked>>

Next ==
  \/ \E c \in Callers : Call(c) \/ Answer(c)
  \/ WatchTelemetry \/ EndWatch
  \/ PushJpeg \/ Notify
  \/ \E r \in Readers : OpenVideo(r) \/ Read(r)
  \/ Signal \/ StopRunner \/ Shutdown \/ DestroyRuntime \/ StopHttp \/ JoinServer

Spec == Init /\ [][Next]_vars

(* Every thread goes on when it can; a write to a client ends, with what it *)
(* wrote or by its time limit.  No client has to call, cancel or leave.     *)
Fairness ==
  /\ WF_vars(StopRunner) /\ WF_vars(Shutdown) /\ WF_vars(DestroyRuntime)
  /\ WF_vars(StopHttp) /\ WF_vars(JoinServer)
  /\ WF_vars(Notify) /\ WF_vars(EndWatch)
  /\ \A c \in Callers : WF_vars(Answer(c))
  /\ \A r \in Readers : WF_vars(Read(r))

FairSpec == Spec /\ Fairness

-----------------------------------------------------------------------------
(* Properties.                                                              *)

(* No reader sleeps through a frame: while the server runs, a reader that   *)
(* sleeps after a push has notified has sent the newest frame.              *)
NoReaderMissesPush ==
  running /\ ~notifying =>
    \A r \in Readers : reader[r] = "asleep" => sent[r] = seq

(* A reader that still sleeps when stop() waits for the server thread was   *)
(* between its test and its sleep when stop() notified, without the mutex:  *)
(* such a reader never wakes, and the process never ends.                   *)
HungOnlyIfBetween ==
  main = "join" => \A r \in Readers : reader[r] = "asleep" => r \in overlooked

(* A pipeline that a Start call brought back after runner.stop() does not   *)
(* outlive the manager: when its runtime is destroyed, no call is left that *)
(* could start another.                                                     *)
StoppedForGood ==
  main \in {"closing", "notify", "join", "ended"} =>
    ~pipeline /\ \A c \in Callers : call[c] \in {"none", "over"}

(* After a signal the process ends, if no client goes on watching telemetry *)
(* (Shutdown() waits for it without a deadline) and stop() overlooks no     *)
(* reader.                                                                  *)
ShutdownEnds ==
  <>signalled /\ <>[](watch # "open") /\ [](overlooked = {}) => <>(main = "ended")
=============================================================================
