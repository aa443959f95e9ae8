---------------------------- MODULE RunnerClient ----------------------------
(***************************************************************************)
(* How the status of the pipeline reaches the web pages: the runner        *)
(* publishes it on its telemetry hub, the controller's RunnerClient watches*)
(* the hub over gRPC and reconnects after an error, TelemetryCache keeps   *)
(* the latest and sends it to the pages connected by WebSocket, and a page *)
(* polls it too (api.py, web/src/App.tsx).                                 *)
(*                                                                         *)
(* A status is its number: how many there have been.  Frames stand for the *)
(* other events, which matter because they share the bounded queue.  The   *)
(* flags "healthy" and connection_state, which only the health response    *)
(* shows, are left out.  Names differ from those of RunnerProcess, so that *)
(* one module can hold the proofs about both.                              *)
(***************************************************************************)
EXTENDS Naturals, FiniteSets, Sequences

CONSTANTS
  MaxCalls,            \* bound on calls of WatchTelemetry
  Pages,               \* web pages
  Operators,           \* those from which the pipeline is commanded
  SubscriberCapacity,  \* of the hub's queues
  MaxVersion           \* bound on statuses

ASSUME ClientAssumption ==
  /\ MaxCalls \in Nat /\ MaxVersion \in Nat
  /\ SubscriberCapacity \in Nat \ {0}
  /\ "cache" \notin Pages

VARIABLES
  up,         \* the runner process is there
  version,    \* number of its latest status
  subscription, queue, pending, \* of the hub
  task,       \* _watch_telemetry: "off", "connecting", "watching" or "sleeping"
  current,    \* the call it reads, or 0
  calls,      \* calls made so far
  cached,     \* latest_status, 0 when there is none
  sockets,    \* _metrics_sockets
  news,       \* the status being broadcast, or 0
  targets,    \* sockets it has still to be sent to
  stale,      \* sockets found closed meanwhile
  page,       \* per page: "away", "opening", "open" and "gone"
  shown,      \* per page, the status it shows
  poll,       \* per page: "idle", "sent", "answered" or "stored"
  answer,     \* per page, the status in the answer to its poll
  misled      \* history: who has missed the latest status, or had it overwritten

hub == <<subscription, queue, pending>>
runner == <<up, version, hub>>
watching == <<task, current, calls>>
broadcast == <<sockets, news, targets, stale>>
polls == <<poll, answer>>
pages == <<page, shown>>
clientVars == <<runner, watching, cached, broadcast, pages, polls, misled>>

Cache == "cache"
Everyone == Pages \cup {Cache}
Status(n) == [kind |-> "status", n |-> n]
Frame == [kind |-> "frame", n |-> 0]

Hub == INSTANCE TelemetryHub WITH
  Watchers <- 1..MaxCalls, Publishers <- {"manager", "pipeline"},
  Events <- {Frame} \cup {Status(n) : n \in 1..MaxVersion}

ClientInit ==
  /\ up = TRUE /\ version = 1 /\ Hub!HubInit
  /\ task = "off" /\ current = 0 /\ calls = 0
  /\ cached = 0
  /\ sockets = {} /\ news = 0 /\ targets = {} /\ stale = {}
  /\ page = [p \in Pages |-> "away"] /\ shown = [p \in Pages |-> 0]
  /\ poll = [p \in Pages |-> "idle"] /\ answer = [p \in Pages |-> 0]
  /\ misled = Everyone

(* The history follows what each shows after the step. *)
Mislead(more) ==
  misled' = {h \in misled \cup more :
               (IF h = Cache THEN cached' ELSE shown'[h]) # version'}

Subscribed == current # 0 /\ subscription[current] = "open"

-----------------------------------------------------------------------------
(* The runner.                                                              *)

PublishStatus ==
  /\ up /\ version < MaxVersion /\ version' = version + 1
  /\ Hub!Publish("manager", Status(version + 1))
  /\ UNCHANGED <<up, watching, cached, broadcast, pages, polls>>
  /\ Mislead(IF Subscribed THEN {} ELSE Everyone)

PublishFrame ==
  /\ up /\ Hub!Publish("pipeline", Frame)
  /\ UNCHANGED <<up, version, watching, cached, broadcast, pages, polls, misled>>

StatusIn(q) == {i \in DOMAIN q : q[i].kind = "status"}

(* A push into a full queue may drop a status that was not read. *)
Deliver ==
  /\ \E p \in {"manager", "pipeline"} : Hub!Deliver(p)
  /\ UNCHANGED <<up, version, watching, cached, broadcast, pages, polls>>
  /\ Mislead(IF /\ current # 0
                /\ queue[current] # <<>> /\ Head(queue[current]).kind = "status"
                /\ queue'[current] # queue[current] /\ Len(queue'[current]) = Len(queue[current])
             THEN Everyone ELSE {})

(* The handler of a call subscribes; when its client is gone it leaves. *)
Handler(w) ==
  /\ \/ w = current /\ Hub!Subscribe(w)
     \/ w # current /\ (Hub!Leave(w) \/ Hub!Close(w))
  /\ UNCHANGED <<up, version, watching, cached, broadcast, pages, polls, misled>>

Crash ==
  /\ up /\ version < MaxVersion /\ calls < MaxCalls
  /\ up' = FALSE
  /\ subscription' = [w \in 1..MaxCalls |-> IF w <= calls THEN "closed" ELSE "new"]
  /\ queue' = [w \in 1..MaxCalls |-> <<>>]
  /\ pending' = [p \in DOMAIN pending |-> {}]
  /\ UNCHANGED <<version, watching, cached, broadcast, pages, polls>>
  /\ Mislead(Everyone)

Restart ==
  /\ ~up /\ up' = TRUE /\ version' = version + 1
  /\ UNCHANGED <<hub, watching, cached, broadcast, pages, polls>>
  /\ Mislead(Everyone)

Runner ==
  \/ PublishStatus \/ PublishFrame \/ Deliver \/ Crash \/ Restart
  \/ \E w \in 1..calls : Handler(w)

-----------------------------------------------------------------------------
(* RunnerClient._watch_telemetry.                                           *)

Connect ==
  /\ task = "connecting" /\ up /\ calls < MaxCalls
  /\ task' = "watching"
  /\ calls' = calls + 1 /\ current' = calls + 1
  /\ UNCHANGED <<runner, cached, broadcast, pages, polls, misled>>

ConnectFails ==
  /\ task = "connecting" /\ ~up /\ task' = "sleeping"
  /\ UNCHANGED <<runner, current, calls, cached, broadcast, pages, polls, misled>>

WakeUp ==
  /\ task = "sleeping" /\ task' = "connecting"
  /\ UNCHANGED <<runner, current, calls, cached, broadcast, pages, polls, misled>>

GiveUp == task' = "ended" \* faulty variant: an error ends the task
Retry == task' = "sleeping"

(* The call is broken; what was on its way is lost. *)
WatchFails ==
  /\ task = "watching" /\ news = 0
  /\ subscription[current] = "closed"
  /\ Retry /\ current' = 0
  /\ UNCHANGED <<runner, calls, cached, broadcast, pages, polls, misled>>

(* An event is popped, written and read: what gRPC buffers in between is    *)
(* part of the queue here.  TelemetryCache.handle_event keeps a status and  *)
(* copies the sockets to send it to; the next is read when it has been sent.*)
ReadEvent ==
  /\ task = "watching" /\ news = 0 /\ Hub!Pop(current)
  /\ IF Head(queue[current]).kind = "status"
     THEN /\ cached' = Head(queue[current]).n /\ news' = Head(queue[current]).n
          /\ targets' = sockets
          /\ UNCHANGED <<up, version, watching, sockets, stale, pages, polls>>
          /\ Mislead({p \in Pages : page[p] = "opening"})
     ELSE UNCHANGED <<up, version, watching, cached, broadcast, pages, polls, misled>>

Reconnect == Connect \/ ConnectFails \/ WakeUp \/ WatchFails

-----------------------------------------------------------------------------
(* TelemetryCache._broadcast.                                               *)

Send(p) ==
  /\ p \in targets /\ page[p] = "open"
  /\ shown' = [shown EXCEPT ![p] = news]
  /\ targets' = targets \ {p}
  /\ UNCHANGED <<runner, watching, cached, sockets, news, stale, page, polls>>
  /\ Mislead(IF news < shown[p] THEN {p} ELSE {})

(* A closed socket raises RuntimeError, and the others are still sent to.   *)
Nobody(p) == {} \* faulty variant: the others are not sent to
Rest(p) == targets \ {p}

SkipClosed(p) ==
  /\ p \in targets /\ page[p] # "open"
  /\ targets' = Rest(p) /\ stale' = stale \cup {p}
  /\ UNCHANGED <<runner, watching, cached, sockets, news, pages, polls, misled>>

(* A socket whose connection broke raises something else, which nothing     *)
(* catches before the gather: the rest of the sockets miss the status.      *)
SendBreaks(p) ==
  /\ p \in targets /\ page[p] # "open"
  /\ targets' = {} /\ stale' = {} /\ news' = 0
  /\ UNCHANGED <<runner, watching, cached, sockets, pages, polls>>
  /\ Mislead(targets)

EndBroadcast ==
  /\ news # 0 /\ targets = {}
  /\ sockets' = sockets \ stale
  /\ stale' = {} /\ news' = 0
  /\ UNCHANGED <<runner, watching, cached, targets, pages, polls, misled>>

Broadcast == EndBroadcast \/ \E p \in Pages : Send(p) \/ SkipClosed(p) \/ SendBreaks(p)

-----------------------------------------------------------------------------
(* The pages: one refreshes and opens its socket.  A page that is opened    *)
(* again is another page.                                                   *)

Controller == task # "off"

Poll(p) == poll[p] = "idle" /\ poll' = [poll EXCEPT ![p] = "sent"] /\ UNCHANGED answer

OpenPage(p) ==
  /\ Controller /\ page[p] = "away"
  /\ page' = [page EXCEPT ![p] = "opening"]
  /\ Poll(p)
  /\ misled' = misled \ {p}
  /\ UNCHANGED <<runner, watching, cached, broadcast, shown>>

Join(p) ==
  /\ page[p] = "opening" /\ page' = [page EXCEPT ![p] = "open"]
  /\ sockets' = sockets \cup {p}
  /\ UNCHANGED <<runner, watching, cached, news, targets, stale, shown, polls, misled>>

(* runCommand refreshes the page again. *)
Refresh(p) ==
  /\ p \in Operators /\ page[p] = "open" /\ Poll(p)
  /\ UNCHANGED <<runner, watching, cached, broadcast, pages, misled>>

ClosePage(p) ==
  /\ page[p] = "open" /\ page' = [page EXCEPT ![p] = "gone"]
  /\ shown' = [shown EXCEPT ![p] = 0]
  /\ misled' = misled \cup {p}
  /\ UNCHANGED <<runner, watching, cached, broadcast, polls>>

(* websocket_loop notices. *)
Disconnect(p) ==
  /\ page[p] = "gone" /\ p \in sockets
  /\ sockets' = sockets \ {p}
  /\ UNCHANGED <<runner, watching, cached, news, targets, stale, pages, polls, misled>>

(* GetStatus, under the lock of the manager, which publishes under it too.  *)
AnswerPoll(p) ==
  /\ poll[p] = "sent" /\ up /\ pending["manager"] = {}
  /\ poll' = [poll EXCEPT ![p] = "answered"] /\ answer' = [answer EXCEPT ![p] = version]
  /\ UNCHANGED <<runner, watching, cached, broadcast, pages, misled>>

(* pipeline_status keeps the answer, whatever has been cached meanwhile.    *)
StorePoll(p) ==
  /\ poll[p] = "answered" /\ poll' = [poll EXCEPT ![p] = "stored"]
  /\ cached' = answer[p]
  /\ UNCHANGED <<runner, watching, broadcast, pages, answer>>
  /\ Mislead(IF answer[p] < cached THEN {Cache} ELSE {})

(* The page shows it when every request of its refresh has been answered.   *)
ShowPoll(p) ==
  /\ poll[p] = "stored" /\ poll' = [poll EXCEPT ![p] = "idle"]
  /\ answer' = [answer EXCEPT ![p] = 0]
  /\ shown' = [shown EXCEPT ![p] = IF page[p] = "gone" THEN 0 ELSE answer[p]]
  /\ UNCHANGED <<runner, watching, cached, broadcast, page>>
  /\ Mislead(IF answer[p] < shown[p] THEN {p} ELSE {})

(* The runner is gone or out of time: the page shows "disconnected".        *)
PollFails(p) ==
  /\ poll[p] = "sent" /\ poll' = [poll EXCEPT ![p] = "idle"]
  /\ shown' = [shown EXCEPT ![p] = 0]
  /\ UNCHANGED <<runner, watching, cached, broadcast, page, answer>>
  /\ Mislead({p})

Page(p) ==
  \/ OpenPage(p) \/ Join(p) \/ Refresh(p) \/ ClosePage(p) \/ Disconnect(p)
  \/ AnswerPoll(p) \/ StorePoll(p) \/ ShowPoll(p) \/ PollFails(p)

-----------------------------------------------------------------------------
(* The controller starts, and restarts with an empty cache.                 *)

StartController ==
  /\ task = "off" /\ calls < MaxCalls /\ task' = "connecting"
  /\ UNCHANGED <<runner, current, calls, cached, broadcast, pages, polls, misled>>

StopController ==
  /\ Controller /\ calls < MaxCalls
  /\ task' = "off" /\ current' = 0
  /\ cached' = 0
  /\ sockets' = {} /\ news' = 0 /\ targets' = {} /\ stale' = {}
  /\ page' = [p \in Pages |-> IF page[p] = "away" THEN "away" ELSE "gone"]
  /\ shown' = [p \in Pages |-> 0]
  /\ poll' = [p \in Pages |-> "idle"] /\ answer' = [p \in Pages |-> 0]
  /\ UNCHANGED <<runner, calls>>
  /\ Mislead(Everyone)

ClientNext ==
  \/ Runner \/ Reconnect \/ ReadEvent \/ Broadcast
  \/ \E p \in Pages : Page(p)
  \/ StartController \/ StopController

ClientSpec == ClientInit /\ [][ClientNext]_clientVars

(* The loop of the task and the handler of its call go on. *)
ClientFairness ==
  /\ WF_clientVars(Reconnect) /\ WF_clientVars(Broadcast)
  /\ WF_clientVars(current # 0 /\ Handler(current))

FairClientSpec == ClientSpec /\ ClientFairness

-----------------------------------------------------------------------------
(* Properties.                                                              *)

(* Nothing is on its way to the controller or to a page. *)
Quiet ==
  /\ up /\ task = "watching" /\ Subscribed
  /\ pending["manager"] = {} /\ StatusIn(queue[current]) = {}
  /\ news = 0
  /\ \A p \in Pages : poll[p] = "idle"

(* When all is quiet the cache and every open page show the latest status,  *)
(* except one that could not get it: it was published while nobody watched, *)
(* dropped from a full queue, broadcast before the socket was there or in a *)
(* broadcast that broke, or overwritten by the late answer to a poll or by  *)
(* a broadcast that came to the page after such an answer.                  *)
LatestStatusShown ==
  Quiet => /\ cached = version \/ Cache \in misled
           /\ \A p \in Pages : page[p] = "open" => shown[p] = version \/ p \in misled

(* While runner and controller stay, the controller ends up watching.       *)
WatchIsRestored ==
  <>[](up /\ Controller) => <>[](task = "watching" /\ Subscribed)
=============================================================================
