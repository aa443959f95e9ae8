---------------------------- MODULE BoundedQueue ----------------------------
(***************************************************************************)
(* core/include/pipeline/bounded_queue.hpp: the queue between any two      *)
(* threads of the pipeline.  A producer never waits: a full queue drops    *)
(* its oldest element and counts it.  Every method holds the queue's       *)
(* mutex, so each operator below is one atomic step of its caller.         *)
(***************************************************************************)
EXTENDS Integers, Sequences

(* A queue of capacity cap, newly constructed or after reset(). *)
EmptyQueue(cap) == [items |-> <<>>, cap |-> cap, dropped |-> 0, stopped |-> FALSE]

IsQueue(q, Item) ==
  /\ q \in [items : Seq(Item), cap : Nat, dropped : Nat, stopped : BOOLEAN]
  /\ Len(q.items) <= q.cap

Accepts(q) == ~q.stopped /\ q.cap > 0
IsFull(q) == Len(q.items) >= q.cap

PushDropNewest(q, x) == \* faulty variant: a full queue loses the new element uncounted
  IF Accepts(q) /\ ~IsFull(q) THEN [q EXCEPT !.items = Append(@, x)] ELSE q

PushFront(q, x) == \* faulty variant: the newest element is handed out first
  IF ~Accepts(q) THEN q
  ELSE IF IsFull(q)
       THEN [q EXCEPT !.items = <<x>> \o Tail(@), !.dropped = @ + 1]
       ELSE [q EXCEPT !.items = <<x>> \o @]

PushDropOldest(q, x) ==
  IF ~Accepts(q) THEN q
  ELSE IF IsFull(q)
       THEN [q EXCEPT !.items = Append(Tail(@), x), !.dropped = @ + 1]
       ELSE [q EXCEPT !.items = Append(@, x)]

(* pop_for hands out nothing once the queue is stopped; try_pop does. *)
CanPopFor(q) == ~q.stopped /\ q.items # <<>>
CanTryPop(q) == q.items # <<>>
Oldest(q) == Head(q.items)
Popped(q) == [q EXCEPT !.items = Tail(@)]

StopQueue(q) == [q EXCEPT !.stopped = TRUE]
=============================================================================
