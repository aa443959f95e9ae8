---------------------------- MODULE RunnerManager ----------------------------
(***************************************************************************)
(* The manager of the runner (apps/core_service/src/runner_manager.cpp)    *)
(* and what its commands do to the rest: it starts and stops the pipeline, *)
(* reloads the configuration with a rollback, announces its status on the  *)
(* telemetry hub (TelemetryHub) and ends the WebRTC sessions of a stopped  *)
(* pipeline (WebRTCPublisher).  A command holds the manager's lock from    *)
(* its first step to its last, so that there is one at a time; the hub and *)
(* the sessions have locks of their own and go on meanwhile.               *)
(*                                                                         *)
(* The pipeline is what PipelineRuntime promises: from start() on its      *)
(* threads publish, and stop() returns when none is left.                  *)
(***************************************************************************)
EXTENDS Integers, FiniteSets, Sequences

CONSTANTS
  Configs,       \* configurations that were accepted
  Boot,          \* the one the runner is started with
  Startable,     \* those a pipeline can start with
  Doubled,       \* those that have two streams of one name
  StreamsOf,     \* per configuration, the stream keys it has
  Watchers, SubscriberCapacity,                \* of the hub
  StreamKeys, Offerers, MaxPeers, MaxSessions, \* of the publisher
  MaxRuns        \* bound on calls of PipelineRuntime::start

ASSUME ManagerAssumption ==
  /\ Boot \in Configs /\ Startable \subseteq Configs /\ Doubled \subseteq Configs
  /\ StreamsOf \in [Configs -> SUBSET StreamKeys \ {{}}]
  /\ SubscriberCapacity \in Nat \ {0}
  /\ MaxSessions \in Nat /\ MaxRuns \in Nat

VARIABLES
  config,      \* config_ and expanded_streams_
  requested,   \* what a reload is to put in place
  previous,    \* what its rollback restores
  accepted,    \* history: what the last reload that succeeded put in place
  state,       \* state_
  runtime,     \* runtime_: "none", "starting", "running" or "stopping"
  run,         \* how often a pipeline has been started
  command,     \* "start", "stop", "reload", its "restart" or its "rollback"
  step,        \* where the command is; "idle" when the lock is free,
               \* "terminated" when the process has ended
  born,        \* history: per session, the run it was inserted in, 0 for none
  subscription, queue, pending, \* of the hub
  registered, sessions, nextId, key, pipeline, pc, wanted, mine, expired, removed, targets

configs == <<config, requested, previous, accepted>>
engine == <<runtime, run>>
hub == <<subscription, queue, pending>>
publisher == <<registered, sessions, nextId, key, pipeline, pc, wanted, mine, expired,
               removed, targets>>
vars == <<configs, state, engine, command, step, born, hub, publisher>>

Kinds == {"frame", "metrics", "running", "stopped"}
Event(k) == [kind |-> k, run |-> run]

Hub == INSTANCE TelemetryHub WITH
  Publishers <- {"manager", "coordinator", "metrics"},
  Events <- [kind : Kinds, run : 0..MaxRuns]

WebRTC == INSTANCE WebRTCPublisher WITH Manager <- "manager"

(* The constructor registers the streams of the configuration.              *)
Init ==
  /\ config = Boot /\ requested = Boot /\ previous = Boot /\ accepted = Boot
  /\ state = "stopped"
  /\ runtime = "none" /\ run = 0
  /\ command = "stop" /\ step = "idle"
  /\ born = [i \in 1..MaxSessions |-> 0]
  /\ Hub!HubInit
  /\ WebRTC!Blank /\ registered = StreamsOf[Boot]

Go(from, to) == step = from /\ step' = to

-----------------------------------------------------------------------------
(* start_locked_                                                            *)

BeginStart ==
  /\ Go("start", "starting")
  /\ state' = "starting"
  /\ runtime' = "starting" /\ run' = run + 1
  /\ UNCHANGED <<configs, command, born, hub, publisher>>

StartSucceeds ==
  /\ Go("starting", "done") /\ config \in Startable
  /\ state' = "running" /\ runtime' = "running"
  /\ Hub!Publish("manager", Event("running"))
  /\ UNCHANGED <<configs, run, command, born, publisher>>

(* stop(), or the destructor of a pipeline that did not start, joins every  *)
(* thread that publishes events or frames.                                  *)
NotJoined == TRUE \* faulty variant: the threads are left to themselves
Joined ==
  /\ pending["coordinator"] = {} /\ pending["metrics"] = {}
  /\ \A s \in StreamKeys : targets[s] = {}

AnnounceNothing == UNCHANGED hub \* faulty variant: the failure is not published
AnnounceFailure == Hub!Publish("manager", Event("stopped"))

StartFails ==
  /\ Go("starting", "done") /\ Joined
  /\ state' = "error" /\ runtime' = "none"
  /\ AnnounceFailure
  /\ UNCHANGED <<configs, run, command, born, publisher>>

(* A pipe whose thread runs is given a second one: std::terminate.          *)
StartTerminates ==
  /\ Go("starting", "terminated") /\ config \in Startable \cap Doubled
  /\ UNCHANGED <<configs, state, engine, command, born, hub, publisher>>

-----------------------------------------------------------------------------
(* stop_locked_                                                             *)

NothingToStop ==
  /\ Go("stop", "done") /\ runtime = "none"
  /\ UNCHANGED <<configs, state, engine, command, born, hub, publisher>>

BeginStop ==
  /\ Go("stop", "stopping") /\ runtime # "none"
  /\ state' = "stopping" /\ runtime' = "stopping"
  /\ UNCHANGED <<configs, run, command, born, hub, publisher>>

RuntimeStopped ==
  /\ Go("stopping", "clear") /\ Joined
  /\ runtime' = "none"
  /\ UNCHANGED <<configs, state, run, command, born, hub, publisher>>

KeepSessions == UNCHANGED publisher \* faulty variant: they outlive the pipeline
ClearSessions == WebRTC!ClearSessions \/ (sessions = {} /\ UNCHANGED publisher)

Clear ==
  /\ Go("clear", "announce")
  /\ ClearSessions
  /\ UNCHANGED <<configs, state, engine, command, born, hub>>

Announce ==
  /\ Go("announce", "done") /\ removed["manager"] = {}
  /\ state' = "stopped"
  /\ Hub!Publish("manager", Event("stopped"))
  /\ UNCHANGED <<configs, engine, command, born, publisher>>

-----------------------------------------------------------------------------
(* The commands.  A start while the pipeline runs and a stop while it does  *)
(* not change nothing; nor does the reload of a document that is refused.   *)

Call(c, first) ==
  /\ Go("idle", first)
  /\ command' = c
  /\ UNCHANGED <<state, engine, born, hub, publisher>>

CallStart ==
  /\ runtime = "none" /\ run < MaxRuns
  /\ Call("start", "start")
  /\ UNCHANGED configs

CallStop ==
  /\ runtime # "none"
  /\ Call("stop", "stop")
  /\ UNCHANGED configs

(* reload_config_yaml: the old pipeline is stopped first. *)
CallReload(c) ==
  /\ run + 2 <= MaxRuns
  /\ Call("reload", "stop")
  /\ requested' = c /\ previous' = config
  /\ UNCHANGED <<config, accepted>>

(* The last status has been delivered. *)
Done(c) == step = "done" /\ command = c /\ pending["manager"] = {}

(* A configuration is put in place, its streams are registered, and a       *)
(* pipeline is started with it.                                             *)
StartWith(c, new) ==
  /\ command' = c
  /\ config' = new
  /\ step' = "start"
  /\ WebRTC!RegisterStreams(StreamsOf[new])
  /\ UNCHANGED <<requested, previous, accepted, state, engine, born, hub>>

Restart == Done("reload") /\ StartWith("restart", requested)

KeptRequested == requested \* faulty variant: the rollback restarts the new one
Restored == previous

Rollback ==
  /\ Done("restart") /\ runtime = "none"
  /\ StartWith("rollback", Restored)

(* The command returns and the lock is released. *)
EndCommand ==
  /\ \/ Done("start") \/ Done("stop") \/ Done("rollback")
     \/ Done("restart") /\ runtime = "running"
  /\ step' = "idle"
  /\ accepted' = IF command = "restart" THEN config ELSE accepted
  /\ UNCHANGED <<config, requested, previous, state, engine, command, born, hub, publisher>>

Command ==
  \/ CallStart \/ CallStop \/ \E c \in Configs : CallReload(c)
  \/ BeginStart \/ StartSucceeds \/ StartFails \/ StartTerminates
  \/ NothingToStop \/ BeginStop \/ RuntimeStopped \/ Clear \/ Announce
  \/ Restart \/ Rollback \/ EndCommand

-----------------------------------------------------------------------------
(* Meanwhile: the threads of the pipeline, the watchers, the HTTP threads.  *)

Telemetry ==
  /\ step # "terminated"
  /\ \/ runtime # "none" /\ Hub!Publish("coordinator", Event("frame"))
     \/ runtime # "none" /\ Hub!Publish("metrics", Event("metrics"))
     \/ \E p \in {"manager", "coordinator", "metrics"} : Hub!Deliver(p)
     \/ \E w \in Watchers : Hub!Watch(w)
  /\ UNCHANGED <<configs, state, engine, command, step, born, publisher>>

Inserted == [i \in 1..MaxSessions |->
  IF i \in sessions' \ sessions THEN IF runtime = "running" THEN run ELSE 0 ELSE born[i]]

WebRTCThreads ==
  /\ step # "terminated"
  /\ \/ \E h \in Offerers :
          \/ WebRTC!HandleOffer(h)
          \/ \E i \in 1..MaxSessions : WebRTC!DeleteRequest(h, i)
     \/ \E t \in Offerers \cup {"manager"} : WebRTC!StopRemoved(t)
     \/ \E s \in StreamKeys : runtime # "none" /\ WebRTC!BeginPublish(s)
     \/ \E s \in StreamKeys : WebRTC!EndPublish(s)
  /\ born' = Inserted
  /\ UNCHANGED <<configs, state, engine, command, step, hub>>

Next == Command \/ Telemetry \/ WebRTCThreads

Spec == Init /\ [][Next]_vars

-----------------------------------------------------------------------------
(* Properties.                                                              *)

TypeOK ==
  /\ {config, requested, previous, accepted} \subseteq Configs
  /\ state \in {"stopped", "starting", "running", "stopping", "error"}
  /\ runtime \in {"none", "starting", "running", "stopping"} /\ run \in 0..MaxRuns
  /\ command \in {"start", "stop", "reload", "restart", "rollback"}
  /\ step \in {"idle", "start", "starting", "stop", "stopping", "clear", "announce", "done",
              "terminated"}
  /\ born \in [1..MaxSessions -> 0..MaxRuns]
  /\ Hub!HubTypeOK
  /\ WebRTC!TypeOK

(* What a watcher reads after "stopped" is not from the pipeline that was   *)
(* stopped: stop() and the destructor join the publishing threads first.    *)
NothingAfterStopped ==
  \A w \in Watchers : \A i, j \in 1..Len(queue[w]) :
    i < j /\ queue[w][i].kind = "stopped" => queue[w][j].run > queue[w][i].run

(* When no command is under way, status() and the newest status in the      *)
(* queue of every subscribed watcher say whether the pipeline runs, after   *)
(* every failure and every rollback.                                        *)
StatusIsTrue ==
  step = "idle" =>
    /\ state = "running" <=> runtime = "running"
    /\ \A w \in {v \in Watchers : subscription[v] = "open"} : \A i \in 1..Len(queue[w]) :
         LET isStatus(j) == queue[w][j].kind \in {"running", "stopped"}
         IN  isStatus(i) /\ (\A j \in (i + 1)..Len(queue[w]) : ~isStatus(j)) =>
               /\ queue[w][i].kind = "running" <=> runtime = "running"
               /\ queue[w][i].run = run

(* A reload that failed leaves the configuration of the last that           *)
(* succeeded, whether its rollback brings the pipeline back or not.         *)
FailedReloadKeepsConfig == step = "idle" => config = accepted

(* A session opened while a pipeline ran ends with it, by stop or reload.   *)
SessionsEndWithRun ==
  step = "idle" => \A i \in sessions : born[i] # 0 => runtime = "running" /\ born[i] = run
=============================================================================
