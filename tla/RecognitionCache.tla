-------------------------- MODULE RecognitionCache --------------------------
(***************************************************************************)
(* The decisions about who may be shown: recognizer workers that share a   *)
(* gallery and a cache of one decision per track, and the reload of the    *)
(* gallery (core/src/recognizer/mobilefacenet_recognizer.cpp).  The        *)
(* gallery has a mutex, the cache another; whatever is done under one of   *)
(* them is one action.                                                     *)
(*                                                                         *)
(* One stream is modelled, the cache of each being separate.  Track t      *)
(* shows person t throughout, so that a gallery is a set of tracks, those  *)
(* whose embedding matches an active identity.  Every frame shows every    *)
(* track, but its face may fail the quality gates.                         *)
(***************************************************************************)
EXTENDS Integers, FiniteSets

CONSTANTS
  Tracks,     \* track ids, numbers: a worker takes them in order
  Workers,    \* recognizer threads
  CacheTTL,   \* cache_ttl_frames
  MaxFrame,   \* bound: the frames 1..MaxFrame reach the recognizer
  MaxReloads  \* bound on calls of reload_gallery

ASSUME CacheAssumption ==
  /\ Tracks \subseteq Nat /\ IsFiniteSet(Tracks)
  /\ CacheTTL \in Nat /\ MaxFrame \in Nat /\ MaxReloads \in Nat

VARIABLES
  gallery,     \* the shared gallery
  cache,       \* per track, its decision in the cache or NoEntry
  reload,      \* "idle", or "swapped" between the two steps of a reload
  reloads,     \* how many reloads have begun
  nextFrame,   \* the frame the next free worker takes
  pc,          \* per worker, where it is in recognize()
  frame,       \* per worker, the frame it has
  todo,        \* per worker, the tracks of that frame still to be done
  match,       \* per worker, the decision its embedding led to
  \* History.
  barred,      \* per worker, who was in no gallery from the start of its call on
  inFlight,    \* tracks some worker had matched as known when the gallery was replaced
  leaked       \* tracks shown although barred

shared == <<gallery, cache, reload, reloads, nextFrame>>
local == <<pc, frame, todo, match>>
history == <<barred, inFlight, leaked>>
vars == <<shared, local, history>>

States == {"in progress", "known", "unknown"}
Entry == [state : States, seen : 0..MaxFrame]
NoEntry == [state |-> "none", seen |-> 0]

IsNext(t, S) == t \in S /\ \A u \in S : t <= u

Init ==
  /\ gallery \in SUBSET Tracks
  /\ cache = [t \in Tracks |-> NoEntry]
  /\ reload = "idle" /\ reloads = 0 /\ nextFrame = 1
  /\ pc = [w \in Workers |-> "idle"]
  /\ frame = [w \in Workers |-> 0]
  /\ todo = [w \in Workers |-> {}]
  /\ match = [w \in Workers |-> "unknown"]
  /\ barred = [w \in Workers |-> {}]
  /\ inFlight = {} /\ leaked = {}

-----------------------------------------------------------------------------
(* recognize(), by worker w.                                                *)

(* The worker loop pops the next frame of the stream.                       *)
TakeFrame(w) ==
  /\ pc[w] = "idle" /\ nextFrame <= MaxFrame
  /\ nextFrame' = nextFrame + 1
  /\ frame' = [frame EXCEPT ![w] = nextFrame]
  /\ pc' = [pc EXCEPT ![w] = "taken"]
  /\ UNCHANGED <<gallery, cache, reload, reloads, todo, match, history>>

(* cleanup_cache: what was not seen for longer than the TTL is forgotten.   *)
Expired(e, f) == e # NoEntry /\ f - e.seen > CacheTTL

CleanupCache(w) ==
  /\ pc[w] = "taken"
  /\ cache' = [t \in Tracks |-> IF Expired(cache[t], frame[w]) THEN NoEntry ELSE cache[t]]
  /\ pc' = [pc EXCEPT ![w] = "lookup"]
  /\ todo' = [todo EXCEPT ![w] = Tracks]
  /\ barred' = [barred EXCEPT ![w] = IF reload = "idle" THEN Tracks \ gallery ELSE {}]
  /\ UNCHANGED <<gallery, reload, reloads, nextFrame, frame, match, inFlight, leaked>>

\* Faulty variant: a missing continue, the loop moves on inside the branch.
DecideWithoutLeaving(w, t, d) ==
  /\ todo' = [todo EXCEPT ![w] = @ \ {t}]
  /\ UNCHANGED <<pc, gallery, reload, reloads, nextFrame, frame, match, history>>

(* The track leaves recognize() with decision d: "known" is shown.          *)
Decide(w, t, d) ==
  /\ todo' = [todo EXCEPT ![w] = @ \ {t}]
  /\ pc' = [pc EXCEPT ![w] = "lookup"]
  /\ leaked' = IF d = "known" /\ t \in barred[w] THEN leaked \cup {t} ELSE leaked
  /\ UNCHANGED <<gallery, reload, reloads, nextFrame, frame, match, barred, inFlight>>

(* An entry of the cache decides; one in progress leaves the track pending, *)
(* so anonymized.                                                           *)
FromCache(w, t) ==
  /\ cache[t] # NoEntry
  /\ cache' = IF cache[t].state = "in progress" THEN cache
              ELSE [cache EXCEPT ![t].seen = frame[w]]
  /\ Decide(w, t, cache[t].state)

(* apply_cached_decision *)
ApplyCached(w, t) ==
  /\ pc[w] = "lookup"
  /\ IsNext(t, todo[w])
  /\ FromCache(w, t)

CacheMiss(w, t) ==
  /\ pc[w] = "lookup"
  /\ IsNext(t, todo[w])
  /\ cache[t] = NoEntry
  /\ pc' = [pc EXCEPT ![w] = "gates"]
  /\ UNCHANGED <<shared, frame, todo, match, history>>

(* No usable face: no decision this time. *)
GatesFail(w, t) ==
  /\ pc[w] = "gates"
  /\ IsNext(t, todo[w])
  /\ Decide(w, t, "unknown")
  /\ UNCHANGED cache

(* mark_in_progress: another worker may have come first since the miss.     *)
MarkInProgress(w, t) ==
  /\ pc[w] = "gates"
  /\ IsNext(t, todo[w])
  /\ cache[t] = NoEntry
  /\ cache' = [cache EXCEPT ![t] = [state |-> "in progress", seen |-> frame[w]]]
  /\ pc' = [pc EXCEPT ![w] = "extract"]
  /\ UNCHANGED <<gallery, reload, reloads, nextFrame, frame, todo, match, history>>

MarkedByOther(w, t) ==
  /\ pc[w] = "gates"
  /\ IsNext(t, todo[w])
  /\ FromCache(w, t)

(* extract_embedding, current_gallery, best_gallery_match. *)
Match(w, t) ==
  /\ pc[w] = "extract"
  /\ IsNext(t, todo[w])
  /\ match' = [match EXCEPT ![w] = IF t \in gallery THEN "known" ELSE "unknown"]
  /\ pc' = [pc EXCEPT ![w] = "matched"]
  /\ UNCHANGED <<shared, frame, todo, history>>

MatchedKnown(w, t) ==
  pc[w] = "matched" /\ match[w] = "known" /\ IsNext(t, todo[w])

(* finish_decision: the decision is stored whatever the entry is by now.    *)
Finish(w, t) ==
  /\ pc[w] = "matched"
  /\ IsNext(t, todo[w])
  /\ cache' = [cache EXCEPT ![t] = [state |-> match[w], seen |-> frame[w]]]
  /\ Decide(w, t, match[w])

LeaveInProgress(t) == cache \* faulty variant: a failed worker leaves its mark
ClearInProgress(t) ==
  IF cache[t].state = "in progress" THEN [cache EXCEPT ![t] = NoEntry] ELSE cache

(* catch (...) covers everything from extract_embedding to finish_decision. *)
Fail(w, t) ==
  /\ pc[w] \in {"extract", "matched"}
  /\ IsNext(t, todo[w])
  /\ cache' = ClearInProgress(t)
  /\ Decide(w, t, "unknown")

EndFrame(w) ==
  /\ pc[w] = "lookup" /\ todo[w] = {}
  /\ pc' = [pc EXCEPT ![w] = "idle"]
  /\ match' = [match EXCEPT ![w] = "unknown"]
  /\ barred' = [barred EXCEPT ![w] = {}]
  /\ UNCHANGED <<shared, frame, todo, inFlight, leaked>>

-----------------------------------------------------------------------------
(* reload_gallery: identities have been added to the database, deactivated  *)
(* or deleted; the new gallery is put in place, then the cache is emptied.  *)

ReplaceGallery(g) ==
  /\ reload = "idle" /\ reloads < MaxReloads
  /\ reload' = "swapped"
  /\ reloads' = reloads + 1
  /\ gallery' = g
  /\ barred' = [w \in Workers |-> barred[w] \ g]
  /\ inFlight' = inFlight \cup
       {t \in Tracks : \E w \in Workers : MatchedKnown(w, t)}
  /\ UNCHANGED <<cache, nextFrame, local, leaked>>

KeptDecisions == cache \* faulty variant: the cache survives the gallery
NoDecisions == [t \in Tracks |-> NoEntry]

ForgetDecisions ==
  /\ reload = "swapped"
  /\ reload' = "idle"
  /\ cache' = NoDecisions
  /\ UNCHANGED <<gallery, reloads, nextFrame, local, history>>

-----------------------------------------------------------------------------
Recognize(w) ==
  \/ TakeFrame(w) \/ CleanupCache(w) \/ EndFrame(w)
  \/ \E t \in Tracks :
       \/ ApplyCached(w, t) \/ CacheMiss(w, t) \/ GatesFail(w, t)
       \/ MarkInProgress(w, t) \/ MarkedByOther(w, t)
       \/ Match(w, t) \/ Finish(w, t) \/ Fail(w, t)

ReloadGallery == (\E g \in SUBSET Tracks : ReplaceGallery(g)) \/ ForgetDecisions

Next == ReloadGallery \/ \E w \in Workers : Recognize(w)

Spec == Init /\ [][Next]_vars

-----------------------------------------------------------------------------
(* Properties.                                                              *)

(* Types; a worker in the middle of a track has one to work on.             *)
TypeOK ==
  /\ gallery \subseteq Tracks
  /\ cache \in [Tracks -> Entry \cup {NoEntry}]
  /\ reload \in {"idle", "swapped"} /\ reloads \in 0..MaxReloads
  /\ nextFrame \in 1..(MaxFrame + 1)
  /\ pc \in [Workers -> {"idle", "taken", "lookup", "gates", "extract", "matched"}]
  /\ frame \in [Workers -> 0..MaxFrame]
  /\ todo \in [Workers -> SUBSET Tracks]
  /\ match \in [Workers -> {"known", "unknown"}]
  /\ barred \in [Workers -> SUBSET Tracks]
  /\ inFlight \subseteq Tracks /\ leaked \subseteq Tracks
  /\ \A w \in Workers : pc[w] \in {"gates", "extract", "matched"} => todo[w] # {}

(* A track in progress has a worker on it: whatever fails, expires or is    *)
(* reloaded meanwhile, no track stays pending for ever.                     *)
InProgressHasWorker ==
  \A t \in Tracks : cache[t].state = "in progress" =>
    \E w \in Workers : pc[w] \in {"extract", "matched"} /\ IsNext(t, todo[w])

(* Someone who was in no gallery during the whole call is shown only if a   *)
(* worker had matched that track, but not yet stored its decision, when the *)
(* gallery was replaced.                                                    *)
LeaksOnlyInFlight == leaked \subseteq inFlight

(* "unknown or no-decision tracks remain anonymize" (README): a call that   *)
(* begins after reload_gallery has returned shows nobody who is not in the  *)
(* gallery.                                                                 *)
UnknownRemainsAnonymized == leaked = {}
=============================================================================
