----------------------------- MODULE DualSource -----------------------------
(***************************************************************************)
(* The source of a stream (core/src/ingest/gst_dual_source.cpp).  A        *)
(* GStreamer pipeline delivers each moment of the video twice, small for   *)
(* inference and large for the viewer; read() pairs what arrives on the    *)
(* two branches by time stamp and numbers the pairs: what is found in one  *)
(* image of a frame is hidden in the other.                                *)
(*                                                                         *)
(* A sink keeps one buffer and drops the one before, so that each branch   *)
(* delivers some of the moments, in order.  A time stamp of 0 is taken for *)
(* none.  What follows a call of read() is the next call.                  *)
(***************************************************************************)
EXTENDS Integers, SequencesExt

CONSTANTS
  MaxMoment,   \* bound: the moments 0..MaxMoment are recorded
  PendingCap   \* pending_cap_

ASSUME SourceAssumption == MaxMoment \in Nat /\ PendingCap \in Nat \ {0}

VARIABLES
  reading,   \* where read() is: "top" of its loop, "mid" of it, or "trim"
  inf, ui,   \* pending_inf_ and pending_ui_: moments, by their time stamps
  infAt, uiAt, \* the next moment each branch may deliver
  emitted,   \* pairs read() has returned; the frame_id is the place less one
  live,      \* history: moments both branches have delivered
  overrun    \* history: moments dropped because a list was too long

sourceVars == <<reading, inf, ui, infAt, uiAt, emitted, live, overrun>>

Moments == 0..MaxMoment

SourceInit ==
  /\ reading = "top"
  /\ inf = <<>> /\ ui = <<>>
  /\ infAt = 0 /\ uiAt = 0
  /\ emitted = <<>> /\ live = {} /\ overrun = {}

-----------------------------------------------------------------------------
(* try_match_: the oldest inference image with a time stamp that has its    *)
(* counterpart, or the two oldest if neither has a time stamp.              *)

AnyPair(i, j) == inf[i] > 0 /\ ui[j] > 0 \* faulty variant: whatever is there
SameStamp(i, j) == inf[i] > 0 /\ inf[i] = ui[j]
Matching(i, j) ==
  /\ SameStamp(i, j)
  /\ \A k \in 1..(i - 1), l \in DOMAIN ui : ~SameStamp(k, l)

FirstsUnstamped(i, j) ==
  /\ i = 1 /\ j = 1 /\ inf[1] = 0 /\ ui[1] = 0
  /\ \A k \in DOMAIN inf, l \in DOMAIN ui : ~SameStamp(k, l)

Matches(i, j) == Matching(i, j) \/ FirstsUnstamped(i, j)
NoMatch == \A i \in DOMAIN inf, j \in DOMAIN ui : ~Matches(i, j)

TryMatch(i, j) ==
  /\ reading \in {"top", "mid"}
  /\ Matches(i, j)
  /\ emitted' = Append(emitted, <<inf[i], ui[j]>>)
  /\ inf' = RemoveAt(inf, i) /\ ui' = RemoveAt(ui, j)
  /\ reading' = "top"
  /\ UNCHANGED <<infAt, uiAt, live, overrun>>

-----------------------------------------------------------------------------
(* read(): one buffer of each branch is pulled, if there is one.            *)

PullInf ==
  /\ reading = "top" /\ NoMatch
  /\ reading' = "mid"
  /\ \/ UNCHANGED <<inf, infAt, live>>
     \/ \E m \in infAt..MaxMoment :
          /\ inf' = Append(inf, m) /\ infAt' = m + 1
          /\ live' = IF Contains(ui, m) THEN live \cup {m} ELSE live
  /\ UNCHANGED <<ui, uiAt, emitted, overrun>>

PullUi ==
  /\ reading = "mid" /\ NoMatch
  /\ reading' = "trim"
  /\ \/ UNCHANGED <<ui, uiAt, live>>
     \/ \E m \in uiAt..MaxMoment :
          /\ ui' = Append(ui, m) /\ uiAt' = m + 1
          /\ live' = IF Contains(inf, m) THEN live \cup {m} ELSE live
  /\ UNCHANGED <<inf, infAt, emitted, overrun>>

(* The time is over when read() begins, or just after its first test.       *)
TimeOut ==
  /\ reading = "top"
  /\ reading' = "trim"
  /\ UNCHANGED <<inf, ui, infAt, uiAt, emitted, live, overrun>>

-----------------------------------------------------------------------------
(* trim_pending_: down to the limit, then whatever has no counterpart and   *)
(* is older than the other branch, or than what has one there.              *)

TooLong(q) == Len(q) > PendingCap

LaterGoes(q, r) == q[1] > r[1] \* faulty variant: the newer one goes
Unpaired(q, r) ==
  /\ ~Contains(r, q[1])
  /\ Contains(q, r[1]) \/ q[1] < r[1]

Stamped == inf # <<>> /\ ui # <<>> /\ inf[1] > 0 /\ ui[1] > 0 /\ inf[1] # ui[1]
InfGoes == Stamped /\ Unpaired(inf, ui)
UiGoes == Stamped /\ ~Unpaired(inf, ui) /\ Unpaired(ui, inf)

TrimInf ==
  /\ reading = "trim"
  /\ TooLong(inf) \/ (~TooLong(ui) /\ InfGoes)
  /\ inf' = Tail(inf)
  /\ overrun' = IF TooLong(inf) THEN overrun \cup {inf[1]} ELSE overrun
  /\ UNCHANGED <<reading, ui, infAt, uiAt, emitted, live>>

TrimUi ==
  /\ reading = "trim" /\ ~TooLong(inf)
  /\ TooLong(ui) \/ UiGoes
  /\ ui' = Tail(ui)
  /\ overrun' = IF TooLong(ui) THEN overrun \cup {ui[1]} ELSE overrun
  /\ UNCHANGED <<reading, inf, infAt, uiAt, emitted, live>>

TrimDone ==
  /\ reading = "trim"
  /\ ~(TooLong(inf) \/ TooLong(ui) \/ InfGoes \/ UiGoes)
  /\ reading' = "top"
  /\ UNCHANGED <<inf, ui, infAt, uiAt, emitted, live, overrun>>

Read ==
  \/ \E i \in DOMAIN inf, j \in DOMAIN ui : TryMatch(i, j)
  \/ PullInf \/ PullUi \/ TimeOut
  \/ TrimInf \/ TrimUi \/ TrimDone

-----------------------------------------------------------------------------
SourceTypeOK ==
  /\ reading \in {"top", "mid", "trim"}
  /\ inf \in Seq(Moments) /\ ui \in Seq(Moments)
  /\ Len(inf) <= PendingCap + 1 /\ Len(ui) <= PendingCap + 1
  /\ infAt \in 0..(MaxMoment + 1) /\ uiAt \in 0..(MaxMoment + 1)

(* The two images of a frame are of one moment, and frames are numbered in  *)
(* the order of their moments, whatever the branches drop.                  *)
PairsInOrder ==
  /\ \A f \in DOMAIN emitted : emitted[f][1] = emitted[f][2]
  /\ \A f, g \in DOMAIN emitted : f < g => emitted[f][1] < emitted[g][1]

(* A moment that was there on both branches becomes a frame, or will at the *)
(* next call, unless one branch was so far ahead that its list overflowed:  *)
(* trimming alone never breaks a pair.                                      *)
NoPairBroken ==
  \A m \in live \ overrun :
    \/ \E f \in DOMAIN emitted : emitted[f][1] = m
    \/ Contains(inf, m) /\ Contains(ui, m)
=============================================================================
