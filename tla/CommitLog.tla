----------------------------- MODULE CommitLog -----------------------------
(***************************************************************************)
(* What the coordinator of a stream promises to the anonymizer: a log of   *)
(* frames the source has emitted, each at most once and in frame_id order. *)
(* Frames may be missing from it.                                          *)
(***************************************************************************)
EXTENDS Integers, Sequences

CONSTANT Frame

VARIABLES
  offered,   \* the frames the source has emitted
  log        \* the frames committed, in order

vars == <<offered, log>>

Init == offered = {} /\ log = <<>>

Offer(f) ==
  /\ \A g \in offered : g < f
  /\ offered' = offered \cup {f}
  /\ UNCHANGED log

Commit(f) ==
  /\ f \in offered
  /\ \A i \in DOMAIN log : log[i] < f
  /\ log' = Append(log, f)
  /\ UNCHANGED offered

Next == \E f \in Frame : Offer(f) \/ Commit(f)

Spec == Init /\ [][Next]_vars
=============================================================================
