---------------------------- MODULE TelemetryHub ----------------------------
(***************************************************************************)
(* Telemetry of the runner (apps/core_service/src/telemetry_hub.cpp):      *)
(* every event is pushed into the bounded queue of every watcher.  A       *)
(* publisher copies the subscribers under the lock of the hub and then     *)
(* takes the lock of each in turn; a watcher may leave in between.         *)
(***************************************************************************)
EXTENDS Naturals, FiniteSets, Sequences

CONSTANTS
  Watchers,            \* subscriptions: each is opened and closed once
  Publishers,          \* threads that publish
  Events,              \* records with a field "kind"
  SubscriberCapacity   \* of each queue, at least 1

VARIABLES
  subscription,  \* per watcher: "new", "open", "leaving" (out of the map) or "closed"
  queue,         \* per watcher, the events not yet popped
  pending        \* per publisher, pairs of watcher and event still to be pushed

hubVars == <<subscription, queue, pending>>

HubInit ==
  /\ subscription = [w \in Watchers |-> "new"]
  /\ queue = [w \in Watchers |-> <<>>]
  /\ pending = [p \in Publishers |-> {}]

Subscribe(w) ==
  /\ subscription[w] = "new"
  /\ subscription' = [subscription EXCEPT ![w] = "open"]
  /\ UNCHANGED <<queue, pending>>

(* unsubscribe_: out of the map, then closed; its queue goes with it. *)
Leave(w) ==
  /\ subscription[w] = "open"
  /\ subscription' = [subscription EXCEPT ![w] = "leaving"]
  /\ UNCHANGED <<queue, pending>>

Close(w) ==
  /\ subscription[w] = "leaving"
  /\ subscription' = [subscription EXCEPT ![w] = "closed"]
  /\ queue' = [queue EXCEPT ![w] = <<>>]
  /\ UNCHANGED pending

(* publish_: the subscribers are copied. *)
Publish(p, e) ==
  /\ pending[p] = {}
  /\ pending' = [pending EXCEPT ![p] = {w \in Watchers : subscription[w] = "open"} \X {e}]
  /\ UNCHANGED <<subscription, queue>>

NotMetrics(e) == e.kind # "metrics"

(* remove_if: SelectSeq(q, NotMetrics), spelt out for the provers. *)
WithoutMetrics(q) ==
  LET rest[i \in 0..Len(q)] ==
        IF i = 0 THEN <<>>
        ELSE IF NotMetrics(q[i]) THEN Append(rest[i - 1], q[i]) ELSE rest[i - 1]
  IN  rest[Len(q)]

(* Metrics replace the metrics in the queue; the oldest make room. *)
Push(q, e) ==
  LET kept == IF e.kind = "metrics" THEN WithoutMetrics(q) ELSE q
  IN  Append(IF Len(kept) >= SubscriberCapacity THEN Tail(kept) ELSE kept, e)

Deliver(p) ==
  \E d \in pending[p] :
    /\ pending' = [pending EXCEPT ![p] = @ \ {d}]
    /\ queue' = IF subscription[d[1]] = "closed" THEN queue
                ELSE [queue EXCEPT ![d[1]] = Push(@, d[2])]
    /\ UNCHANGED subscription

(* pop_for, by the thread of WatchTelemetry. *)
Pop(w) ==
  /\ subscription[w] = "open" /\ queue[w] # <<>>
  /\ queue' = [queue EXCEPT ![w] = Tail(@)]
  /\ UNCHANGED <<subscription, pending>>

Watch(w) == Subscribe(w) \/ Pop(w) \/ Leave(w) \/ Close(w)

(* Types; a queue is within its capacity and has at most one metrics        *)
(* snapshot, so that metrics alone never push out a status or a frame.      *)
HubTypeOK ==
  /\ subscription \in [Watchers -> {"new", "open", "leaving", "closed"}]
  /\ \A w \in Watchers :
       /\ Len(queue[w]) <= SubscriberCapacity
       /\ queue[w] \in Seq(Events)
       /\ Cardinality({i \in DOMAIN queue[w] : ~NotMetrics(queue[w][i])}) <= 1
  /\ pending \in [Publishers -> SUBSET (Watchers \X Events)]
=============================================================================
