---------------------- MODULE RecognitionCache_proofs ----------------------
(***************************************************************************)
(* Proofs about RecognitionCache, for any number of tracks, workers and    *)
(* reloads: no track stays pending without a worker, and the only way past *)
(* a reload of the gallery is a decision that was in flight.  Under        *)
(* GalleryControl both still hold, the runner's gallery follows the        *)
(* database, and an enrolment is stored once.                              *)
(***************************************************************************)
EXTENDS GalleryControl, TLAPS

(* What leaving a track does to the worker's own state.                     *)
LEMMA DecideKeepsTypes ==
  ASSUME TypeOK, NEW w \in Workers, NEW t \in Tracks, NEW d, Decide(w, t, d)
  PROVE  /\ todo' \in [Workers -> SUBSET Tracks]
         /\ pc' \in [Workers -> {"idle", "taken", "lookup", "gates", "extract", "matched"}]
         /\ \A v \in Workers : pc'[v] \in {"gates", "extract", "matched"} => todo'[v] # {}
         /\ leaked' \subseteq Tracks
         /\ UNCHANGED <<gallery, reload, reloads, nextFrame, frame, match, barred, inFlight>>
<1>1. /\ todo \in [Workers -> SUBSET Tracks]
      /\ pc \in [Workers -> {"idle", "taken", "lookup", "gates", "extract", "matched"}]
      /\ \A v \in Workers : pc[v] \in {"gates", "extract", "matched"} => todo[v] # {}
      /\ leaked \subseteq Tracks
  BY DEF TypeOK
<1> QED
  BY <1>1 DEF Decide

(* Every action keeps the types, and a worker in the middle of a track has  *)
(* one to work on.                                                          *)
LEMMA TypeOKInductive ==
  /\ Init => TypeOK
  /\ TypeOK /\ [Next]_vars => TypeOK'
<1> USE CacheAssumption DEF CacheAssumption
<1>1. Init => TypeOK
  BY DEF Init, TypeOK, NoEntry
<1>2. ASSUME TypeOK, [Next]_vars PROVE TypeOK'
  <2> USE DEF TypeOK, Entry, States, NoEntry
  <2>0. ASSUME NEW w \in Workers, TakeFrame(w) PROVE TypeOK'
    <3>1. nextFrame \in 0..MaxFrame /\ nextFrame' \in 1..(MaxFrame + 1)
      <4>1. /\ MaxFrame \in Nat /\ nextFrame \in 1..(MaxFrame + 1)
            /\ nextFrame <= MaxFrame /\ nextFrame' = nextFrame + 1
        BY <1>2, <2>0 DEF TakeFrame
      <4> QED
        BY ONLY <4>1
    <3>2. /\ frame' \in [Workers -> 0..MaxFrame]
          /\ pc' \in [Workers -> {"idle", "taken", "lookup", "gates", "extract", "matched"}]
          /\ \A v \in Workers : pc'[v] \in {"gates", "extract", "matched"} => pc'[v] = pc[v]
      BY <1>2, <2>0, <3>1 DEF TakeFrame
    <3> QED
      BY <1>2, <2>0, <3>1, <3>2 DEF TakeFrame, history
  <2>1. ASSUME NEW w \in Workers, CleanupCache(w) PROVE TypeOK'
    <3>1. cache' \in [Tracks -> Entry \cup {NoEntry}]
      BY <1>2, <2>1 DEF CleanupCache
    <3>2. /\ todo' \in [Workers -> SUBSET Tracks]
          /\ pc' \in [Workers -> {"idle", "taken", "lookup", "gates", "extract", "matched"}]
          /\ barred' \in [Workers -> SUBSET Tracks]
      BY <1>2, <2>1 DEF CleanupCache
    <3>3. \A v \in Workers : pc'[v] \in {"gates", "extract", "matched"} => todo'[v] # {}
      BY <1>2, <2>1 DEF CleanupCache
    <3> QED
      BY <1>2, <2>1, <3>1, <3>2, <3>3 DEF CleanupCache
  <2>2. ASSUME NEW w \in Workers, EndFrame(w) PROVE TypeOK'
    BY <1>2, <2>2 DEF EndFrame, shared, history
  <2>3. ASSUME NEW w \in Workers, NEW t \in Tracks, ApplyCached(w, t) \/ MarkedByOther(w, t)
        PROVE  TypeOK'
    <3>1. cache' \in [Tracks -> Entry \cup {NoEntry}]
      <4>1. [cache[t] EXCEPT !.seen = frame[w]] \in Entry \cup {NoEntry}
            \/ cache[t] = NoEntry
        BY <1>2
      <4> QED
        BY <1>2, <2>3, <4>1 DEF ApplyCached, MarkedByOther, FromCache
    <3>2. Decide(w, t, cache[t].state)
      BY <2>3 DEF ApplyCached, MarkedByOther, FromCache
    <3> QED
      BY <1>2, <3>1, <3>2, DecideKeepsTypes
  <2>4. ASSUME NEW w \in Workers, NEW t \in Tracks, CacheMiss(w, t) PROVE TypeOK'
    BY <1>2, <2>4 DEF CacheMiss, IsNext, shared, history
  <2>5. ASSUME NEW w \in Workers, NEW t \in Tracks, GatesFail(w, t) PROVE TypeOK'
    BY <1>2, <2>5 DEF GatesFail, Decide
  <2>6. ASSUME NEW w \in Workers, NEW t \in Tracks, MarkInProgress(w, t) PROVE TypeOK'
    BY <1>2, <2>6 DEF MarkInProgress, IsNext, history
  <2>7. ASSUME NEW w \in Workers, NEW t \in Tracks, Match(w, t) PROVE TypeOK'
    BY <1>2, <2>7 DEF Match, IsNext, shared, history
  <2>8. ASSUME NEW w \in Workers, NEW t \in Tracks, Finish(w, t) PROVE TypeOK'
    BY <1>2, <2>8 DEF Finish, Decide
  <2>9. ASSUME NEW w \in Workers, NEW t \in Tracks, Fail(w, t) PROVE TypeOK'
    BY <1>2, <2>9 DEF Fail, ClearInProgress, Decide
  <2>10. ASSUME NEW g \in SUBSET Tracks, ReplaceGallery(g) PROVE TypeOK'
    <3>1. reload' = "swapped" /\ reloads' \in 0..MaxReloads /\ gallery' \subseteq Tracks
      <4>1. /\ MaxReloads \in Nat /\ reloads \in 0..MaxReloads
            /\ reloads < MaxReloads /\ reloads' = reloads + 1
        BY <1>2, <2>10 DEF ReplaceGallery
      <4>2. reloads' \in 0..MaxReloads
        BY ONLY <4>1
      <4> QED
        BY <2>10, <4>2 DEF ReplaceGallery
    <3>2. barred' \in [Workers -> SUBSET Tracks] /\ inFlight' \subseteq Tracks
      BY <1>2, <2>10 DEF ReplaceGallery
    <3>3. UNCHANGED <<cache, nextFrame, local, leaked>>
      BY <2>10 DEF ReplaceGallery
    <3> QED
      BY <1>2, <3>1, <3>2, <3>3 DEF local
  <2>11. ASSUME ForgetDecisions PROVE TypeOK'
    BY <1>2, <2>11 DEF ForgetDecisions, NoDecisions, local, history
  <2>12. CASE UNCHANGED vars
    BY <1>2, <2>12 DEF vars, shared, local, history
  <2> QED
    BY <1>2, <2>0, <2>1, <2>2, <2>3, <2>4, <2>5, <2>6, <2>7, <2>8, <2>9, <2>10, <2>11, <2>12
    DEF Next, Recognize, ReloadGallery
<1> QED
  BY <1>1, <1>2

(* Type correctness for any number of tracks, workers, frames and reloads.  *)
THEOREM TypeCorrect == Spec => []TypeOK
  BY TypeOKInductive, PTL DEF Spec

-----------------------------------------------------------------------------
(* A track in progress has a worker on it.                                  *)

Owns(w, t) == pc[w] \in {"extract", "matched"} /\ IsNext(t, todo[w])

LEMMA NextIsUnique ==
  ASSUME NEW S \in SUBSET Tracks, NEW t, NEW u, IsNext(t, S), IsNext(u, S)
  PROVE  t = u
<1>1. t \in S /\ u \in S /\ t <= u /\ u <= t
  BY DEF IsNext
<1>2. t \in Nat /\ u \in Nat
  BY <1>1, CacheAssumption DEF CacheAssumption
<1> QED
  BY <1>1, <1>2

(* A step of a worker that was on no track in progress takes no owner away. *)
LEMMA BystanderKeepsOwners ==
  ASSUME InProgressHasWorker, NEW w \in Workers,
         pc[w] \notin {"extract", "matched"},
         \A v \in Workers \ {w} : pc'[v] = pc[v] /\ todo'[v] = todo[v],
         \A u \in Tracks : cache'[u].state = "in progress" =>
           cache[u].state = "in progress" \/ Owns(w, u)'
  PROVE  InProgressHasWorker'
<1> SUFFICES ASSUME NEW u \in Tracks, cache'[u].state = "in progress"
             PROVE  \E v \in Workers : Owns(v, u)'
  BY DEF InProgressHasWorker, Owns
<1>1. CASE Owns(w, u)'
  BY <1>1
<1>2. CASE cache[u].state = "in progress"
  <2>1. PICK v \in Workers : Owns(v, u)
    BY <1>2 DEF InProgressHasWorker, Owns
  <2>2. v # w
    BY <2>1 DEF Owns
  <2>3. Owns(v, u)'
    BY <2>1, <2>2 DEF Owns, IsNext
  <2> QED
    BY <2>3
<1> QED
  BY <1>1, <1>2

(* A worker that leaves a track and its mark takes no other track's owner.  *)
LEMMA LeavingKeepsOwners ==
  ASSUME TypeOK, InProgressHasWorker, NEW w \in Workers, NEW t \in Tracks,
         Owns(w, t),
         \A v \in Workers \ {w} : pc'[v] = pc[v] /\ todo'[v] = todo[v],
         cache'[t].state # "in progress",
         \A u \in Tracks \ {t} : cache'[u] = cache[u]
  PROVE  InProgressHasWorker'
<1> SUFFICES ASSUME NEW u \in Tracks, cache'[u].state = "in progress"
             PROVE  \E v \in Workers : Owns(v, u)'
  BY DEF InProgressHasWorker, Owns
<1>1. u # t /\ cache[u].state = "in progress"
  OBVIOUS
<1>2. PICK v \in Workers : Owns(v, u)
  BY <1>1 DEF InProgressHasWorker, Owns
<1>3. v # w
  BY <1>1, <1>2, NextIsUnique DEF Owns, TypeOK
<1>4. Owns(v, u)'
  BY <1>2, <1>3 DEF Owns, IsNext
<1> QED
  BY <1>4

(* What Decide leaves alone.                                                *)
LEMMA DecideTouchesOne ==
  ASSUME TypeOK, NEW w \in Workers, NEW t, NEW d, Decide(w, t, d)
  PROVE  \A v \in Workers \ {w} : pc'[v] = pc[v] /\ todo'[v] = todo[v]
BY DEF Decide, TypeOK

(* A hit refreshes when an entry was seen, not what it says.                *)
LEMMA CachedKeepsStates ==
  ASSUME TypeOK, NEW w \in Workers, NEW t \in Tracks,
         ApplyCached(w, t) \/ MarkedByOther(w, t)
  PROVE  \A u \in Tracks : cache'[u].state = cache[u].state
<1>1. cache \in [Tracks -> Entry \cup {NoEntry}]
  BY DEF TypeOK
<1>2. [cache[t] EXCEPT !.seen = frame[w]].state = cache[t].state
  <2>1. cache[t] \in Entry
    BY <1>1 DEF ApplyCached, MarkedByOther, FromCache
  <2> QED
    BY <2>1 DEF Entry
<1>3. cache' = cache \/ cache' = [cache EXCEPT ![t] = [cache[t] EXCEPT !.seen = frame[w]]]
  BY DEF ApplyCached, MarkedByOther, FromCache
<1> QED
  BY <1>1, <1>2, <1>3

(* Every step keeps an owner for every track in progress.                   *)
LEMMA OwnersInductive ==
  /\ Init => InProgressHasWorker
  /\ TypeOK /\ TypeOK' /\ InProgressHasWorker /\ [Next]_vars => InProgressHasWorker'
<1>1. ASSUME Init PROVE InProgressHasWorker
  <2>1. \A t \in Tracks : cache[t].state = "none"
    <3>1. \A t \in Tracks : cache[t] = NoEntry
      BY <1>1 DEF Init
    <3>2. NoEntry.state = "none"
      BY DEF NoEntry
    <3> QED
      BY <3>1, <3>2
  <2>2. \A t \in Tracks : cache[t].state # "in progress"
    BY <2>1
  <2> QED
    BY <2>2, Zenon DEF InProgressHasWorker
<1>2. ASSUME TypeOK, TypeOK', InProgressHasWorker, [Next]_vars
      PROVE  InProgressHasWorker'
  <2>0. /\ cache \in [Tracks -> Entry \cup {NoEntry}]
        /\ pc \in [Workers -> {"idle", "taken", "lookup", "gates", "extract", "matched"}]
        /\ todo \in [Workers -> SUBSET Tracks]
        /\ match \in [Workers -> {"known", "unknown"}]
    BY <1>2 DEF TypeOK
  <2>1. ASSUME NEW w \in Workers, TakeFrame(w) \/ EndFrame(w) PROVE InProgressHasWorker'
    BY <1>2, <2>0, <2>1, BystanderKeepsOwners DEF TakeFrame, EndFrame, shared
  <2>2. ASSUME NEW w \in Workers, CleanupCache(w) PROVE InProgressHasWorker'
    <3>1. \A u \in Tracks : cache'[u] = cache[u] \/ cache'[u] = NoEntry
      BY <2>2 DEF CleanupCache
    <3>2. NoEntry.state = "none"
      BY DEF NoEntry
    <3>3. \A v \in Workers \ {w} : pc'[v] = pc[v] /\ todo'[v] = todo[v]
      BY <2>0, <2>2 DEF CleanupCache
    <3> QED
      BY <1>2, <2>2, <3>1, <3>2, <3>3, BystanderKeepsOwners DEF CleanupCache
  <2>3. ASSUME NEW w \in Workers, NEW t \in Tracks, ApplyCached(w, t) \/ MarkedByOther(w, t)
        PROVE  InProgressHasWorker'
    <3>1. Decide(w, t, cache[t].state) /\ pc[w] \in {"lookup", "gates"}
      BY <2>3 DEF ApplyCached, MarkedByOther, FromCache
    <3>2. \A u \in Tracks : cache'[u].state = cache[u].state
      BY <1>2, <2>3, CachedKeepsStates
    <3> QED
      BY <1>2, <3>1, <3>2, DecideTouchesOne, BystanderKeepsOwners
  <2>4. ASSUME NEW w \in Workers, NEW t \in Tracks, CacheMiss(w, t) PROVE InProgressHasWorker'
    BY <1>2, <2>0, <2>4, BystanderKeepsOwners DEF CacheMiss, shared
  <2>5. ASSUME NEW w \in Workers, NEW t \in Tracks, GatesFail(w, t) PROVE InProgressHasWorker'
    BY <1>2, <2>5, DecideTouchesOne, BystanderKeepsOwners DEF GatesFail
  <2>6. ASSUME NEW w \in Workers, NEW t \in Tracks, MarkInProgress(w, t)
        PROVE  InProgressHasWorker'
    <3>1. Owns(w, t)'
      BY <2>0, <2>6 DEF MarkInProgress, Owns, IsNext
    <3>2. \A u \in Tracks \ {t} : cache'[u] = cache[u]
      BY <2>0, <2>6 DEF MarkInProgress
    <3>3. \A v \in Workers \ {w} : pc'[v] = pc[v] /\ todo'[v] = todo[v]
      BY <2>0, <2>6 DEF MarkInProgress
    <3> QED
      BY <1>2, <2>6, <3>1, <3>2, <3>3, BystanderKeepsOwners DEF MarkInProgress
  <2>7. ASSUME NEW w \in Workers, NEW t \in Tracks, Match(w, t) PROVE InProgressHasWorker'
    <3>1. \A v \in Workers, u \in Tracks : Owns(v, u) => Owns(v, u)'
      BY <2>0, <2>7 DEF Match, Owns, IsNext
    <3>2. cache' = cache
      BY <2>7 DEF Match, shared
    <3> QED
      BY <1>2, <3>1, <3>2 DEF InProgressHasWorker, Owns
  <2>8. ASSUME NEW w \in Workers, NEW t \in Tracks, Finish(w, t) PROVE InProgressHasWorker'
    <3>1. Owns(w, t) /\ Decide(w, t, match[w])
      BY <2>8 DEF Finish, Owns
    <3>2. cache'[t].state # "in progress" /\ \A u \in Tracks \ {t} : cache'[u] = cache[u]
      BY <2>0, <2>8 DEF Finish
    <3> QED
      BY <1>2, <3>1, <3>2, DecideTouchesOne, LeavingKeepsOwners
  <2>9. ASSUME NEW w \in Workers, NEW t \in Tracks, Fail(w, t) PROVE InProgressHasWorker'
    <3>1. Owns(w, t) /\ Decide(w, t, "unknown")
      BY <2>9 DEF Fail, Owns
    <3>2. cache'[t].state # "in progress" /\ \A u \in Tracks \ {t} : cache'[u] = cache[u]
      BY <2>0, <2>9 DEF Fail, ClearInProgress, NoEntry
    <3> QED
      BY <1>2, <3>1, <3>2, DecideTouchesOne, LeavingKeepsOwners
  <2>10. ASSUME NEW g \in SUBSET Tracks, ReplaceGallery(g) PROVE InProgressHasWorker'
    BY <1>2, <2>10 DEF ReplaceGallery, local, InProgressHasWorker, IsNext
  <2>11. ASSUME ForgetDecisions PROVE InProgressHasWorker'
    BY <2>11 DEF ForgetDecisions, NoDecisions, NoEntry, InProgressHasWorker
  <2>12. CASE UNCHANGED vars
    BY <1>2, <2>12 DEF vars, shared, local, InProgressHasWorker, IsNext
  <2> QED
    BY <1>2, <2>1, <2>2, <2>3, <2>4, <2>5, <2>6, <2>7, <2>8, <2>9, <2>10, <2>11, <2>12
    DEF Next, Recognize, ReloadGallery
<1> QED
  BY <1>1, <1>2

(* Whatever fails, expires or is reloaded, a track marked in progress has a *)
(* worker that will decide it or clear the mark.                            *)
THEOREM PendingTracksAreWorkedOn == Spec => []InProgressHasWorker
<1>1. Init => InProgressHasWorker
  BY OwnersInductive
<1>2. TypeOK /\ TypeOK' /\ InProgressHasWorker /\ [Next]_vars => InProgressHasWorker'
  BY OwnersInductive
<1> QED
  BY <1>1, <1>2, TypeCorrect, PTL DEF Spec

-----------------------------------------------------------------------------
(* The only way past a reload is in flight.  The inductive invariant says   *)
(* where a decision for someone not in the gallery can be: nobody barred is *)
(* in the gallery, a known entry of the cache that the gallery no longer    *)
(* supports belongs to a reload that is half done, and so does a match.     *)

BarredNotInGallery == \A w \in Workers : barred[w] \cap gallery = {}

StaleEntries ==
  \A t \in Tracks : cache[t].state = "known" /\ t \notin gallery /\ t \notin inFlight =>
    reload = "swapped" /\ \A w \in Workers : t \notin barred[w]

UnbarredWhenIdle == \A w \in Workers : pc[w] \in {"idle", "taken"} => barred[w] = {}

StaleMatches ==
  \A w \in Workers, t \in Tracks : MatchedKnown(w, t) /\ t \notin gallery => t \in inFlight

LeakInv ==
  BarredNotInGallery /\ StaleEntries /\ UnbarredWhenIdle /\ StaleMatches /\ LeaksOnlyInFlight

(* A track decided as known only from the cache or from a match that the    *)
(* invariant covers adds no leak of another kind.                           *)
LEMMA DecideLeaksOnlyInFlight ==
  ASSUME LeakInv, NEW w \in Workers, NEW t \in Tracks, NEW d, Decide(w, t, d),
         d = "known" /\ t \in barred[w] => t \in inFlight
  PROVE  LeaksOnlyInFlight'
BY DEF LeakInv, LeaksOnlyInFlight, Decide

(* The matches of the other workers are untouched by a worker that leaves   *)
(* its track.                                                               *)
LEMMA DecideKeepsMatches ==
  ASSUME TypeOK, LeakInv, NEW w \in Workers, NEW t \in Tracks, NEW d, Decide(w, t, d)
  PROVE  BarredNotInGallery' /\ UnbarredWhenIdle' /\ StaleMatches'
<1>1. \A v \in Workers \ {w} : pc'[v] = pc[v] /\ todo'[v] = todo[v]
  BY DecideTouchesOne
<1>2. pc'[w] = "lookup"
  BY DEF Decide, TypeOK
<1>3. UNCHANGED <<gallery, match, barred, inFlight>>
  BY DEF Decide
<1>4. \A v \in Workers, u \in Tracks : MatchedKnown(v, u)' => MatchedKnown(v, u)
  BY <1>1, <1>2, <1>3 DEF MatchedKnown, IsNext
<1> QED
  BY <1>1, <1>2, <1>3, <1>4 DEF LeakInv, BarredNotInGallery, UnbarredWhenIdle, StaleMatches

(* Entries that only lose decisions stay within the invariant.              *)
LEMMA FewerKnownKeepsEntries ==
  ASSUME StaleEntries, UNCHANGED <<gallery, reload, barred, inFlight>>,
         \A u \in Tracks : cache'[u].state = "known" => cache[u].state = "known"
  PROVE  StaleEntries'
BY DEF StaleEntries

LEMMA LeakInvInductive ==
  /\ Init => LeakInv
  /\ TypeOK /\ TypeOK' /\ LeakInv /\ [Next]_vars => LeakInv'
<1>1. ASSUME Init PROVE LeakInv
  <2>1. \A t \in Tracks : cache[t].state # "known"
    <3>1. \A t \in Tracks : cache[t] = NoEntry
      BY <1>1 DEF Init
    <3>2. NoEntry.state = "none"
      BY DEF NoEntry
    <3> QED
      BY <3>1, <3>2
  <2>2. StaleEntries
    BY <2>1 DEF StaleEntries
  <2> QED
    BY <1>1, <2>2 DEF Init, LeakInv, BarredNotInGallery, UnbarredWhenIdle, StaleMatches, MatchedKnown,
                      LeaksOnlyInFlight
<1>2. ASSUME TypeOK, TypeOK', LeakInv, [Next]_vars PROVE LeakInv'
  <2>0. /\ cache \in [Tracks -> Entry \cup {NoEntry}]
        /\ pc \in [Workers -> {"idle", "taken", "lookup", "gates", "extract", "matched"}]
        /\ todo \in [Workers -> SUBSET Tracks]
        /\ match \in [Workers -> {"known", "unknown"}]
        /\ barred \in [Workers -> SUBSET Tracks]
    BY <1>2 DEF TypeOK
  <2>n. NoEntry.state = "none"
    BY DEF NoEntry
  <2>i. BarredNotInGallery /\ StaleEntries /\ UnbarredWhenIdle /\ StaleMatches /\ LeaksOnlyInFlight
    BY <1>2 DEF LeakInv
  <2>1. ASSUME NEW w \in Workers, TakeFrame(w) \/ EndFrame(w) PROVE LeakInv'
    <3>1. \A v \in Workers, u \in Tracks : MatchedKnown(v, u)' => MatchedKnown(v, u)
      BY <2>0, <2>1 DEF TakeFrame, EndFrame, MatchedKnown, IsNext
    <3>2. UNCHANGED <<gallery, cache, reload, inFlight, leaked>>
      BY <2>1 DEF TakeFrame, EndFrame, shared, history
    <3>3. \A v \in Workers : barred'[v] = barred[v] \/ barred'[v] = {}
      BY <2>0, <2>1 DEF TakeFrame, EndFrame, history
    <3>4. UnbarredWhenIdle'
      BY <2>0, <2>1, <2>i DEF UnbarredWhenIdle, TakeFrame, EndFrame, history
    <3> QED
      BY <2>i, <3>1, <3>2, <3>3, <3>4 DEF LeakInv, BarredNotInGallery, StaleEntries, StaleMatches,
                                          LeaksOnlyInFlight
  <2>2. ASSUME NEW w \in Workers, CleanupCache(w) PROVE LeakInv'
    <3>1. \A u \in Tracks : cache'[u].state = "known" => cache[u].state = "known"
      BY <2>2, <2>n DEF CleanupCache
    <3>2. /\ barred' = [barred EXCEPT ![w] = IF reload = "idle" THEN Tracks \ gallery ELSE {}]
          /\ UNCHANGED <<gallery, reload, inFlight, leaked, match>>
      BY <2>2 DEF CleanupCache
    <3>3. BarredNotInGallery'
      BY <2>0, <2>i, <3>2 DEF BarredNotInGallery
    <3>4. StaleEntries'
      BY <2>0, <2>i, <3>1, <3>2 DEF StaleEntries
    <3>5. \A v \in Workers, u \in Tracks : MatchedKnown(v, u)' => MatchedKnown(v, u)
      BY <2>0, <2>2 DEF CleanupCache, MatchedKnown, IsNext
    <3>6. StaleMatches' /\ LeaksOnlyInFlight'
      BY <2>i, <3>2, <3>5 DEF StaleMatches, LeaksOnlyInFlight
    <3>7. UnbarredWhenIdle'
      BY <2>0, <2>i, <2>2, <3>2 DEF CleanupCache, UnbarredWhenIdle
    <3> QED
      BY <3>3, <3>4, <3>6, <3>7 DEF LeakInv
  <2>3. ASSUME NEW w \in Workers, NEW t \in Tracks, ApplyCached(w, t) \/ MarkedByOther(w, t)
        PROVE  LeakInv'
    <3>1. Decide(w, t, cache[t].state)
      BY <2>3 DEF ApplyCached, MarkedByOther, FromCache
    <3>2. cache[t].state = "known" /\ t \in barred[w] => t \in inFlight
      BY <2>i DEF BarredNotInGallery, StaleEntries
    <3>3. \A u \in Tracks : cache'[u].state = cache[u].state
      BY <1>2, <2>3, CachedKeepsStates
    <3>4. StaleEntries'
      BY <2>i, <3>1, <3>3, FewerKnownKeepsEntries DEF Decide
    <3> QED
      BY <1>2, <3>1, <3>2, <3>4, DecideLeaksOnlyInFlight, DecideKeepsMatches DEF LeakInv
  <2>4. ASSUME NEW w \in Workers, NEW t \in Tracks, CacheMiss(w, t) \/ MarkInProgress(w, t)
        PROVE  LeakInv'
    <3>1. \A u \in Tracks : cache'[u].state = "known" => cache[u].state = "known"
      <4>1. CASE CacheMiss(w, t)
        BY <4>1 DEF CacheMiss, shared
      <4>2. CASE MarkInProgress(w, t)
        <5>1. /\ cache'[t].state = "in progress"
              /\ \A u \in Tracks \ {t} : cache'[u] = cache[u]
          BY <2>0, <4>2 DEF MarkInProgress
        <5> QED
          BY <5>1
      <4> QED
        BY <2>4, <4>1, <4>2
    <3>2. UNCHANGED <<gallery, reload, match, todo, barred, inFlight, leaked>>
      BY <2>4 DEF CacheMiss, MarkInProgress, shared, history
    <3>3. \A v \in Workers, u \in Tracks : MatchedKnown(v, u)' => MatchedKnown(v, u)
      BY <2>0, <2>4, <3>2 DEF CacheMiss, MarkInProgress, MatchedKnown, IsNext
    <3>4. UnbarredWhenIdle'
      BY <2>0, <2>i, <2>4, <3>2 DEF CacheMiss, MarkInProgress, UnbarredWhenIdle
    <3> QED
      BY <2>i, <3>1, <3>2, <3>3, <3>4, FewerKnownKeepsEntries
      DEF LeakInv, BarredNotInGallery, StaleMatches, LeaksOnlyInFlight
  <2>5. ASSUME NEW w \in Workers, NEW t \in Tracks, GatesFail(w, t) \/ Fail(w, t)
        PROVE  LeakInv'
    <3>1. Decide(w, t, "unknown")
      BY <2>5 DEF GatesFail, Fail
    <3>2. \A u \in Tracks : cache'[u].state = "known" => cache[u].state = "known"
      BY <2>0, <2>5, <2>n DEF GatesFail, Fail, ClearInProgress
    <3>3. StaleEntries'
      BY <2>i, <3>1, <3>2, FewerKnownKeepsEntries DEF Decide
    <3> QED
      BY <1>2, <3>1, <3>3, DecideLeaksOnlyInFlight, DecideKeepsMatches DEF LeakInv
  <2>6. ASSUME NEW w \in Workers, NEW t \in Tracks, Match(w, t) PROVE LeakInv'
    <3>1. UNCHANGED <<gallery, cache, reload, todo, barred, inFlight, leaked>>
      BY <2>6 DEF Match, shared, history
    <3>2. \A v \in Workers \ {w}, u \in Tracks : MatchedKnown(v, u)' => MatchedKnown(v, u)
      BY <2>0, <2>6, <3>1 DEF Match, MatchedKnown, IsNext
    <3>3. ASSUME NEW u \in Tracks, MatchedKnown(w, u)' PROVE u \in gallery
      <4>1. u = t
        BY <2>0, <2>6, <3>1, <3>3, NextIsUnique DEF Match, MatchedKnown, IsNext
      <4> QED
        BY <2>0, <2>6, <3>3, <4>1 DEF Match, MatchedKnown
    <3>4. StaleMatches'
      BY <2>i, <3>1, <3>2, <3>3 DEF StaleMatches
    <3>5. UnbarredWhenIdle'
      BY <2>0, <2>i, <2>6, <3>1 DEF Match, UnbarredWhenIdle
    <3> QED
      BY <2>i, <3>1, <3>4, <3>5 DEF LeakInv, BarredNotInGallery, StaleEntries, LeaksOnlyInFlight
  <2>7. ASSUME NEW w \in Workers, NEW t \in Tracks, Finish(w, t) PROVE LeakInv'
    <3>1. Decide(w, t, match[w])
      BY <2>7 DEF Finish
    <3>2. match[w] = "known" => MatchedKnown(w, t)
      BY <2>7 DEF Finish, MatchedKnown
    <3>3. match[w] = "known" /\ t \notin gallery => t \in inFlight
      BY <2>i, <3>2 DEF StaleMatches
    <3>4. /\ cache'[t].state = match[w]
          /\ \A u \in Tracks \ {t} : cache'[u] = cache[u]
      BY <2>0, <2>7 DEF Finish
    <3>5. StaleEntries'
      BY <2>i, <3>1, <3>3, <3>4 DEF StaleEntries, Decide
    <3>6. match[w] = "known" /\ t \in barred[w] => t \in inFlight
      BY <2>i, <3>3 DEF BarredNotInGallery
    <3> QED
      BY <1>2, <3>1, <3>5, <3>6, DecideLeaksOnlyInFlight, DecideKeepsMatches DEF LeakInv
  <2>8. ASSUME NEW g \in SUBSET Tracks, ReplaceGallery(g) PROVE LeakInv'
    <3>1. /\ reload = "idle" /\ reload' = "swapped" /\ gallery' = g
          /\ barred' = [w \in Workers |-> barred[w] \ g]
          /\ inFlight' = inFlight \cup {t \in Tracks : \E w \in Workers : MatchedKnown(w, t)}
          /\ UNCHANGED <<cache, pc, todo, match, leaked>>
      BY <2>8 DEF ReplaceGallery, local
    <3>2. BarredNotInGallery'
      BY <3>1 DEF BarredNotInGallery
    <3>3. StaleEntries'
      <4>1. ASSUME NEW t \in Tracks, cache[t].state = "known", t \notin inFlight,
                   NEW w \in Workers
            PROVE  t \notin barred[w]
        <5>1. CASE t \in gallery
          BY <2>i, <5>1 DEF BarredNotInGallery
        <5>2. CASE t \notin gallery
          BY <2>i, <3>1, <4>1, <5>2 DEF StaleEntries
        <5> QED
          BY <5>1, <5>2
      <4> QED
        BY <3>1, <4>1 DEF StaleEntries
    <3>4. StaleMatches'
      <4>1. \A w \in Workers, t \in Tracks : MatchedKnown(w, t)' => MatchedKnown(w, t)
        BY <3>1 DEF MatchedKnown, IsNext
      <4> QED
        BY <3>1, <4>1 DEF StaleMatches
    <3>5. UnbarredWhenIdle'
      BY <2>i, <3>1 DEF UnbarredWhenIdle
    <3> QED
      BY <2>i, <3>1, <3>2, <3>3, <3>4, <3>5 DEF LeakInv, LeaksOnlyInFlight
  <2>9. ASSUME ForgetDecisions PROVE LeakInv'
    <3>1. \A t \in Tracks : cache'[t].state # "known"
      BY <2>9, <2>n DEF ForgetDecisions, NoDecisions
    <3>2. UNCHANGED <<gallery, pc, todo, match, barred, inFlight, leaked>>
      BY <2>9 DEF ForgetDecisions, local, history
    <3> QED
      BY <2>i, <3>1, <3>2 DEF LeakInv, BarredNotInGallery, StaleEntries, UnbarredWhenIdle, StaleMatches,
                              MatchedKnown, IsNext, LeaksOnlyInFlight
  <2>10. CASE UNCHANGED vars
    BY <2>i, <2>10 DEF vars, shared, local, history, LeakInv, BarredNotInGallery,
                       StaleEntries, UnbarredWhenIdle, StaleMatches, MatchedKnown, IsNext, LeaksOnlyInFlight
  <2> QED
    BY <1>2, <2>1, <2>2, <2>3, <2>4, <2>5, <2>6, <2>7, <2>8, <2>9, <2>10
    DEF Next, Recognize, ReloadGallery
<1> QED
  BY <1>1, <1>2

(* Someone who was in no gallery during the whole call is shown only by a   *)
(* decision that a worker had in its hands when the gallery was replaced.   *)
THEOREM OnlyInFlightLeaks == Spec => []LeaksOnlyInFlight
<1>1. Init => LeakInv
  BY LeakInvInductive
<1>2. TypeOK /\ TypeOK' /\ LeakInv /\ [Next]_vars => LeakInv'
  BY LeakInvInductive
<1>3. LeakInv => LeaksOnlyInFlight
  BY DEF LeakInv
<1> QED
  BY <1>1, <1>2, <1>3, TypeCorrect, PTL DEF Spec

-----------------------------------------------------------------------------
(* The recognizer under the manager: calls of ReloadGallery and the starts  *)
(* and stops of the pipeline.                                               *)

(* The lock belongs to the call that is being carried out or to the command *)
(* that starts the pipeline; a pipeline that does not run has no worker in  *)
(* a call.                                                                  *)
LockInv ==
  /\ call \in [Clients -> {"none", "sent", "locked", "loaded", "swapped"}]
  /\ loaded \in [Users -> SUBSET Tracks]
  /\ pipeline \in {"stopped", "starting", "running"}
  /\ \A c \in Clients : call[c] \in {"locked", "loaded", "swapped"} => lock = c
  /\ pipeline = "starting" => lock = "command"
  /\ lock \notin {"free", "command"} => pipeline = "running"
  /\ pipeline # "running" => \A w \in Workers : pc[w] = "idle"

(* What the gallery of the database is compared with: the gallery that is   *)
(* in place, or about to be put in place by whoever has the lock.           *)
FollowInv ==
  ~owed /\ (\A c \in Clients : call[c] # "sent") =>
    /\ pipeline = "running" /\ lock = "free" => gallery = Controller!Enrolled
    /\ pipeline = "starting" => loaded["command"] = Controller!Enrolled
    /\ \A c \in Clients : call[c] = "loaded" => loaded[c] = Controller!Enrolled
    /\ \A c \in Clients : call[c] = "swapped" => gallery = Controller!Enrolled

(* The steps of requests do not reach the manager, and those of the manager *)
(* do not reach the database.                                               *)
LEMMA ControlSteps ==
  ASSUME LockInv, ControlNext
  PROVE  \/ \E c \in Clients : Request(c)
         \/ UNCHANGED <<vars, manager, owed, identity, samples>>
         \/ /\ UNCHANGED <<controller, identity, samples>>
            /\ \/ \E c \in Clients :
                    \/ CallLost(c) \/ BeginReload(c) \/ RefuseReload(c) \/ Load(c)
                    \/ LoadFails(c) \/ Swap(c) \/ Clear(c)
               \/ StopPipeline \/ StartPipeline \/ Started \/ StartFails \/ Recognizers
<1>1. ASSUME PruneExpired PROVE UNCHANGED <<vars, manager, owed, identity, samples>>
  BY <1>1 DEF PruneExpired, Controller!PruneExpired, Controller!store
<1>2. ASSUME NEW c \in Clients, Analyzed(c) \/ Answered(c) \/ DeadlinePasses(c)
      PROVE  UNCHANGED <<vars, manager, owed, identity, samples>>
  BY <1>2 DEF Analyzed, Answered, DeadlinePasses, Controller!CacheCandidates,
              Controller!AnalysisFails, Controller!ReloadReturns, Controller!store
<1>3. ASSUME NEW c \in Clients,
             \/ CallLost(c) \/ BeginReload(c) \/ RefuseReload(c) \/ Load(c)
             \/ LoadFails(c) \/ Swap(c) \/ Clear(c)
      PROVE  UNCHANGED <<controller, identity, samples>>
  BY <1>3 DEF CallLost, BeginReload, RefuseReload, Load, LoadFails, Swap, Clear, controller
<1>4. ASSUME StopPipeline \/ StartPipeline \/ Started \/ StartFails \/ Recognizers
      PROVE  UNCHANGED <<controller, identity, samples>>
  BY <1>4 DEF StopPipeline, StartPipeline, Started, StartFails, Recognizers, controller
<1>5. QED
  BY <1>1, <1>2, <1>3, <1>4 DEF ControlNext

(* Of these, only the start of a pipeline is not a step of the recognizer.  *)
LEMMA RecognizerSteps ==
  ASSUME LockInv, [ControlNext]_controlVars
  PROVE  [Next]_vars \/ Started
<1>1. CASE UNCHANGED vars
  BY <1>1
<1>2. ASSUME NEW c \in Clients, Swap(c) PROVE Next
  <2>1. loaded[c] \in SUBSET Tracks
    BY DEF LockInv, Users
  <2>2. QED
    BY <1>2, <2>1 DEF Swap, Next, ReloadGallery
<1>3. ASSUME NEW c \in Clients, Clear(c) PROVE Next
  BY <1>3 DEF Clear, Next, ReloadGallery
<1>4. ASSUME Recognizers PROVE Next
  BY <1>4 DEF Recognizers, Next
<1>5. CASE UNCHANGED controlVars
  BY <1>5 DEF controlVars
<1>6. CASE ControlNext
  <2>1. ASSUME NEW c \in Clients,
               \/ Request(c) \/ CallLost(c) \/ BeginReload(c) \/ RefuseReload(c) \/ Load(c)
               \/ LoadFails(c)
        PROVE  UNCHANGED vars
    BY <2>1 DEF Request, CallLost, BeginReload, RefuseReload, Load, LoadFails
  <2>2. ASSUME StopPipeline \/ StartPipeline \/ StartFails PROVE UNCHANGED vars
    BY <2>2 DEF StopPipeline, StartPipeline, StartFails
  <2>3. QED
    BY <1>1, <1>2, <1>3, <1>4, <1>6, <2>1, <2>2, ControlSteps
<1>7. QED
  BY <1>5, <1>6

LEMMA LockInvInductive ==
  /\ ControlInit => LockInv
  /\ LockInv /\ [ControlNext]_controlVars => LockInv'
<1>0. "command" \notin Clients /\ "free" \notin Clients /\ Users = Clients \cup {"command"}
  BY ControlAssumption DEF Users
<1>1. ControlInit => LockInv
  BY <1>0 DEF ControlInit, LockInv
<1>2. ASSUME LockInv, [ControlNext]_controlVars PROVE LockInv'
  <2>1. CASE UNCHANGED <<vars, manager>>
    BY <1>2, <2>1 DEF vars, local, manager, LockInv
  <2>2. ASSUME NEW c \in Clients, Request(c) PROVE LockInv'
    <3>1. /\ UNCHANGED <<pc, lock, pipeline, loaded>> /\ call[c] = "none"
          /\ call' = [call EXCEPT ![c] = IF request'[c] = "reload" THEN "sent" ELSE "none"]
      BY <2>2 DEF Request, Idle, vars, local
    <3>2. QED
      BY <1>2, <3>1 DEF LockInv
  <2>3. ASSUME NEW c \in Clients, CallLost(c) \/ RefuseReload(c) PROVE LockInv'
    BY <1>2, <2>3 DEF CallLost, RefuseReload, LockInv, vars, local
  <2>4. ASSUME NEW c \in Clients, BeginReload(c) PROVE LockInv'
    BY <1>0, <1>2, <2>4 DEF BeginReload, Unlocked, LockInv, vars, local
  <2>5. ASSUME NEW c \in Clients, Load(c) PROVE LockInv'
    <3>1. Controller!Enrolled \in SUBSET Tracks
      BY DEF Controller!Enrolled
    <3>2. QED
      BY <1>0, <1>2, <2>5, <3>1 DEF Load, LockInv, vars, local
  <2>6. ASSUME NEW c \in Clients, LoadFails(c) PROVE LockInv'
    BY <1>0, <1>2, <2>6 DEF LoadFails, LockInv, vars, local
  <2>7. ASSUME NEW c \in Clients, Swap(c) PROVE LockInv'
    BY <1>0, <1>2, <2>7 DEF Swap, ReplaceGallery, LockInv, local
  <2>8. ASSUME NEW c \in Clients, Clear(c) PROVE LockInv'
    BY <1>0, <1>2, <2>8 DEF Clear, ForgetDecisions, LockInv, local
  <2>9. CASE StopPipeline
    BY <1>2, <2>9 DEF StopPipeline, LockInv, vars, local
  <2>10. CASE StartPipeline
    <3>1. Controller!Enrolled \in SUBSET Tracks
      BY DEF Controller!Enrolled
    <3>2. QED
      BY <1>0, <1>2, <2>10, <3>1 DEF StartPipeline, LockInv, vars, local
  <2>11. CASE Started \/ StartFails
    BY <1>0, <1>2, <2>11 DEF Started, StartFails, LockInv, vars, local
  <2>12. CASE Recognizers
    <3>1. UNCHANGED manager /\ pipeline = "running"
      BY <2>12 DEF Recognizers
    <3>2. QED
      BY <1>2, <3>1 DEF LockInv, manager
  <2>13. QED
    BY <1>2, <2>1, <2>2, <2>3, <2>4, <2>5, <2>6, <2>7, <2>8, <2>9, <2>10, <2>11, <2>12, ControlSteps
    DEF controlVars
<1>3. QED
  BY <1>1, <1>2

(* The recognizer's invariants survive the manager as well: a start finds   *)
(* no worker in a call and an empty cache.                                  *)
LEMMA RecognizerInductive ==
  ASSUME LockInv, TypeOK, InProgressHasWorker, LeakInv, [ControlNext]_controlVars
  PROVE  TypeOK' /\ InProgressHasWorker' /\ LeakInv'
<1>1. CASE [Next]_vars
  BY <1>1, TypeOKInductive, OwnersInductive, LeakInvInductive
<1>2. CASE Started
  <2>1. /\ cache' = NoDecisions /\ gallery' = loaded["command"]
        /\ UNCHANGED <<reload, reloads, nextFrame, pc, frame, todo, match, barred, inFlight, leaked>>
    BY <1>2 DEF Started, local, history
  <2>2. \A w \in Workers : pc[w] = "idle"
    BY <1>2 DEF LockInv, Started
  <2>3. gallery' \subseteq Tracks
    BY <2>1 DEF LockInv, Users
  <2>4. /\ cache' \in [Tracks -> Entry \cup {NoEntry}]
        /\ \A t \in Tracks : cache'[t].state \notin {"known", "in progress"}
    BY <2>1 DEF NoDecisions, NoEntry
  <2>5. TypeOK'
    BY <2>1, <2>3, <2>4 DEF TypeOK
  <2>6. InProgressHasWorker'
    BY <2>4 DEF InProgressHasWorker
  <2>7. BarredNotInGallery' /\ UnbarredWhenIdle'
    BY <2>1, <2>2 DEF LeakInv, UnbarredWhenIdle, BarredNotInGallery
  <2>8. StaleEntries'
    BY <2>4 DEF StaleEntries
  <2>9. StaleMatches'
    BY <2>1, <2>2 DEF StaleMatches, MatchedKnown
  <2>10. LeaksOnlyInFlight'
    BY <2>1 DEF LeakInv, LeaksOnlyInFlight
  <2>11. QED
    BY <2>5, <2>6, <2>7, <2>8, <2>9, <2>10 DEF LeakInv
<1>3. QED
  BY <1>1, <1>2, RecognizerSteps

LEMMA ControlInvHolds == ControlSpec => [](LockInv /\ TypeOK /\ InProgressHasWorker /\ LeakInv)
<1>1. ControlInit => LockInv /\ TypeOK /\ InProgressHasWorker /\ LeakInv
  BY LockInvInductive, TypeOKInductive, OwnersInductive, LeakInvInductive DEF ControlInit
<1>2. LockInv /\ TypeOK /\ InProgressHasWorker /\ LeakInv /\ [ControlNext]_controlVars
        => (LockInv /\ TypeOK /\ InProgressHasWorker /\ LeakInv)'
  BY LockInvInductive, RecognizerInductive
<1>3. QED
  BY <1>1, <1>2, PTL DEF ControlSpec

(* With the manager, its reloads that fail or are given up, and pipelines   *)
(* that stop and start: a track in progress has a worker.                   *)
THEOREM PendingUnderControl == ControlSpec => []InProgressHasWorker
BY ControlInvHolds, PTL

(* And nobody barred is shown but by a decision in flight.                  *)
THEOREM LeaksUnderControl == ControlSpec => []LeaksOnlyInFlight
<1>1. LeakInv => LeaksOnlyInFlight
  BY DEF LeakInv
<1>2. QED
  BY <1>1, ControlInvHolds, PTL

(* No worker changes the gallery.                                           *)
LEMMA RecognizersKeepGallery == ASSUME Recognizers PROVE UNCHANGED gallery
<1>1. PICK w \in Workers : Recognize(w)
  BY DEF Recognizers
<1>2. CASE TakeFrame(w) \/ CleanupCache(w) \/ EndFrame(w)
  BY <1>2 DEF TakeFrame, CleanupCache, EndFrame, shared
<1>3. ASSUME NEW t \in Tracks,
             \/ ApplyCached(w, t) \/ CacheMiss(w, t) \/ GatesFail(w, t) \/ MarkInProgress(w, t)
             \/ MarkedByOther(w, t) \/ Match(w, t) \/ Finish(w, t) \/ Fail(w, t)
      PROVE  UNCHANGED gallery
  BY <1>3 DEF ApplyCached, CacheMiss, GatesFail, MarkInProgress, MarkedByOther, Match, Finish,
              Fail, FromCache, Decide, shared
<1>4. QED
  BY <1>1, <1>2, <1>3 DEF Recognize

(* A request that changes the gallery owes a reload or has sent a call.     *)
LEMMA RequestOwes ==
  ASSUME LockInv, NEW c \in Clients, Request(c)
  PROVE  Controller!Enrolled' = Controller!Enrolled \/ owed' \/ call'[c] = "sent"
<1>1. /\ call' = [call EXCEPT ![c] = IF request'[c] = "reload" THEN "sent" ELSE "none"]
      /\ owed' = (owed \/ (Controller!Enrolled' # Controller!Enrolled /\ request'[c] # "reload"))
  BY DEF Request
<1>2. call'[c] = IF request'[c] = "reload" THEN "sent" ELSE "none"
  BY <1>1 DEF LockInv
<1>3. QED
  BY <1>1, <1>2

LEMMA FollowInvInductive ==
  /\ ControlInit => FollowInv
  /\ LockInv /\ FollowInv /\ [ControlNext]_controlVars => FollowInv'
<1>0. "command" \notin Clients /\ "free" \notin Clients /\ Users = Clients \cup {"command"}
  BY ControlAssumption DEF Users
<1>1. ControlInit => FollowInv
  BY DEF ControlInit, FollowInv
<1>2. ASSUME LockInv, FollowInv, [ControlNext]_controlVars PROVE FollowInv'
  <2> DEFINE E == Controller!Enrolled
  <2>0. UNCHANGED <<identity, samples>> => E' = E
    BY DEF Controller!Enrolled
  <2>1. CASE UNCHANGED <<gallery, manager, owed, identity, samples>>
    <3>1. E' = E
      BY <2>0, <2>1
    <3> HIDE DEF E
    <3>2. QED
      BY <1>2, <2>1, <3>1 DEF manager, FollowInv, E
  <2>2. ASSUME NEW c \in Clients, Request(c) PROVE FollowInv'
    <3>1. /\ UNCHANGED <<gallery, lock, pipeline, loaded>> /\ call[c] = "none"
          /\ \A d \in Clients \ {c} : call'[d] = call[d]
          /\ call'[c] \in {"none", "sent"} /\ (owed => owed')
      BY <1>2, <2>2 DEF Request, Idle, vars, shared, LockInv
    <3>2. E' = E \/ owed' \/ call'[c] = "sent"
      BY <1>2, <2>2, RequestOwes
    <3> HIDE DEF E
    <3>3. SUFFICES ASSUME ~owed', \A d \in Clients : call'[d] # "sent"
                   PROVE  /\ pipeline = "running" /\ lock = "free" => gallery = E'
                          /\ pipeline = "starting" => loaded["command"] = E'
                          /\ \A d \in Clients : call'[d] = "loaded" => loaded[d] = E'
                          /\ \A d \in Clients : call'[d] = "swapped" => gallery = E'
      BY <3>1 DEF FollowInv, E
    <3>4. E' = E /\ ~owed /\ \A d \in Clients : call[d] # "sent" /\ (call'[d] = call[d])
      BY <3>1, <3>2, <3>3
    <3>5. QED
      BY <1>2, <3>1, <3>4 DEF FollowInv, E
  <2>3. CASE ~UNCHANGED <<identity, samples>>
    BY <1>2, <2>1, <2>2, <2>3, ControlSteps DEF controlVars, controller, vars, shared, manager
  <2>4. CASE UNCHANGED <<identity, samples>>
    <3>1. E' = E
      BY <2>0, <2>4
    <3> HIDE DEF E
    <3>2. SUFFICES ASSUME ~owed', \A d \in Clients : call'[d] # "sent"
                   PROVE  /\ pipeline' = "running" /\ lock' = "free" => gallery' = E
                          /\ pipeline' = "starting" => loaded'["command"] = E
                          /\ \A d \in Clients : call'[d] = "loaded" => loaded'[d] = E
                          /\ \A d \in Clients : call'[d] = "swapped" => gallery' = E
      BY <3>1 DEF FollowInv, E
    <3>3. ~owed /\ (\A d \in Clients : call[d] # "sent") =>
            /\ pipeline = "running" /\ lock = "free" => gallery = E
            /\ pipeline = "starting" => loaded["command"] = E
            /\ \A d \in Clients : call[d] = "loaded" => loaded[d] = E
            /\ \A d \in Clients : call[d] = "swapped" => gallery = E
      BY <1>2 DEF FollowInv, E
    <3> DEFINE Goal == /\ pipeline' = "running" /\ lock' = "free" => gallery' = E
                       /\ pipeline' = "starting" => loaded'["command"] = E
                       /\ \A d \in Clients : call'[d] = "loaded" => loaded'[d] = E
                       /\ \A d \in Clients : call'[d] = "swapped" => gallery' = E
    <3>4. ASSUME NEW c \in Clients, CallLost(c) \/ LoadFails(c) PROVE Goal
      BY <3>2, <3>4 DEF CallLost, LoadFails
    <3>5. ASSUME NEW c \in Clients, BeginReload(c) PROVE Goal
      BY <1>0, <1>2, <3>5 DEF BeginReload, Unlocked, LockInv
    <3>6. ASSUME NEW c \in Clients, RefuseReload(c) PROVE Goal
      BY <1>0, <1>2, <3>6 DEF RefuseReload, Unlocked, LockInv
    <3>7. ASSUME NEW c \in Clients, Load(c) PROVE Goal
      BY <1>0, <1>2, <3>7 DEF Load, LockInv, E
    <3>8. ASSUME NEW c \in Clients, Swap(c) PROVE Goal
      BY <1>0, <1>2, <3>2, <3>3, <3>8 DEF Swap, ReplaceGallery, LockInv
    <3>9. ASSUME NEW c \in Clients, Clear(c) PROVE Goal
      BY <1>0, <1>2, <3>2, <3>3, <3>9 DEF Clear, ForgetDecisions, LockInv
    <3>10. CASE StopPipeline
      BY <1>0, <1>2, <3>10 DEF StopPipeline, LockInv
    <3>11. CASE StartPipeline
      BY <1>0, <1>2, <3>11 DEF StartPipeline, LockInv, E
    <3>12. CASE Started
      BY <1>0, <1>2, <3>2, <3>3, <3>12 DEF Started, LockInv
    <3>13. CASE StartFails
      BY <1>0, <1>2, <3>13 DEF StartFails, LockInv
    <3>14. CASE Recognizers
      BY <2>1, <2>4, <3>1, <3>2, <3>3, <3>14, RecognizersKeepGallery DEF Recognizers, manager
    <3>15. ASSUME NEW c \in Clients, Request(c) PROVE Goal
      BY <2>2, <3>1, <3>2, <3>15 DEF FollowInv, E
    <3>16. CASE UNCHANGED <<vars, manager, owed>>
      BY <3>2, <3>3, <3>16 DEF vars, shared, manager
    <3>17. QED
      BY <1>2, <3>4, <3>5, <3>6, <3>7, <3>8, <3>9, <3>10, <3>11, <3>12, <3>13, <3>14, <3>15, <3>16,
         ControlSteps DEF controlVars
  <2>5. QED
    BY <2>3, <2>4
<1>3. QED
  BY <1>1, <1>2

(* Whatever requests, reloads, failures, starts and stops interleave, when  *)
(* none is under way and no reload is owed, the recognizer decides with the *)
(* gallery of the database.                                                 *)
THEOREM GalleryStaysCurrent == ControlSpec => []GalleryFollowsDatabase
<1>1. ControlInit => FollowInv
  BY FollowInvInductive
<1>2. LockInv /\ FollowInv /\ [ControlNext]_controlVars => FollowInv'
  BY FollowInvInductive
<1>3. FollowInv => GalleryFollowsDatabase
  BY DEF FollowInv, GalleryFollowsDatabase
<1>4. QED
  BY <1>1, <1>2, <1>3, ControlInvHolds, PTL DEF ControlSpec

-----------------------------------------------------------------------------
(* The candidates of an enrolment.                                          *)

(* While they can be committed, every commit that stored some has failed;   *)
(* an image is analyzed before there are any.                               *)
EnrollInv ==
  /\ stored \in Nat /\ failed \in Nat
  /\ request \in [Clients -> {"none", "analysis", "reload"}]
  /\ CommittedOnce
  /\ enrollment \in {"none", "cached"} => stored <= failed
  /\ \A c \in Clients : request[c] = "analysis" =>
       enrollment = "none" /\ \A d \in Clients : request[d] = "analysis" => d = c

LEMMA EnrollInvInductive ==
  /\ ControlInit => EnrollInv
  /\ EnrollInv /\ [ControlNext]_controlVars => EnrollInv'
<1>1. ControlInit => EnrollInv
  BY DEF ControlInit, Controller!ServiceInit, EnrollInv, CommittedOnce
<1>2. ASSUME EnrollInv, [ControlNext]_controlVars PROVE EnrollInv'
  <2>1. CASE UNCHANGED <<enrollment, request, stored, failed>>
    BY <1>2, <2>1 DEF EnrollInv, CommittedOnce
  <2>2. ASSUME NEW c \in Clients, Controller!ReloadReturns(c) PROVE EnrollInv'
    BY <1>2, <2>2 DEF EnrollInv, CommittedOnce, Controller!ReloadReturns, Controller!Return,
                      Controller!images, Controller!commits
  <2>3. ASSUME NEW c \in Clients, Controller!CacheCandidates(c) PROVE EnrollInv'
    BY <1>2, <2>3 DEF EnrollInv, CommittedOnce, Controller!CacheCandidates, Controller!Return,
                      Controller!commits
  <2>4. ASSUME NEW c \in Clients, Controller!AnalysisFails(c) PROVE EnrollInv'
    BY <1>2, <2>4 DEF EnrollInv, CommittedOnce, Controller!AnalysisFails, Controller!Return,
                      Controller!images, Controller!commits
  <2>5. CASE Controller!PruneExpired
    BY <1>2, <2>5 DEF EnrollInv, CommittedOnce, Controller!PruneExpired, Controller!commits
  <2>6. ASSUME NEW c \in Clients, NEW a \in {"none", "reload"}, Controller!Handle(c, a)
        PROVE  /\ request' \in [Clients -> {"none", "analysis", "reload"}]
               /\ \A d \in Clients : request'[d] = "analysis" => request[d] = "analysis"
    BY <1>2, <2>6 DEF Controller!Handle, EnrollInv
  <2>7. Controller!AwaitReload \in {"none", "reload"}
    BY DEF Controller!AwaitReload
  <2>8. ASSUME NEW c \in Clients, Controller!Analyze(c) PROVE EnrollInv'
    BY <1>2, <2>8 DEF EnrollInv, CommittedOnce, Controller!Analyze, Controller!Handle,
                      Controller!images, Controller!commits
  <2>9. ASSUME NEW c \in Clients, Controller!Refresh(c) PROVE EnrollInv'
    BY <1>2, <2>6, <2>9 DEF EnrollInv, CommittedOnce, Controller!Refresh, Controller!images,
                            Controller!commits
  <2>10. ASSUME NEW c \in Clients, NEW k \in Tracks,
                \/ Controller!CreateIdentity(c, k) \/ Controller!UpdateIdentity(c, k)
                \/ Controller!DeleteIdentity(c, k) \/ Controller!DeleteEmbedding(c, k)
         PROVE  EnrollInv'
    <3>1. UNCHANGED <<enrollment, stored, failed>> /\ \E a \in {"none", "reload"} : Controller!Handle(c, a)
      BY <2>7, <2>10 DEF Controller!CreateIdentity, Controller!UpdateIdentity,
                         Controller!DeleteIdentity, Controller!DeleteEmbedding,
                         Controller!images, Controller!commits
    <3>2. QED
      BY <1>2, <2>6, <3>1 DEF EnrollInv, CommittedOnce
  <2>11. ASSUME NEW c \in Clients, NEW k \in Tracks, Controller!CommitCandidates(c, k) PROVE EnrollInv'
    <3>1. /\ enrollment = "cached" /\ enrollment' = "gone" /\ failed' = failed
          /\ stored' \in {stored, stored + 1}
      BY <2>11 DEF Controller!CommitCandidates, Controller!Store, Controller!Popped
    <3>2. Controller!Handle(c, Controller!AwaitReload)
      BY <2>11 DEF Controller!CommitCandidates
    <3>3. stored' \in Nat /\ stored' <= 1 + failed
      BY <1>2, <3>1 DEF EnrollInv
    <3>4. \A d \in Clients : request'[d] # "analysis"
      BY <1>2, <2>6, <2>7, <3>1, <3>2 DEF EnrollInv
    <3>5. QED
      BY <1>2, <2>6, <2>7, <3>1, <3>2, <3>3, <3>4 DEF EnrollInv, CommittedOnce
  <2>12. ASSUME NEW c \in Clients, NEW k \in Tracks, Controller!CommitFails(c, k) PROVE EnrollInv'
    <3>1. /\ enrollment = "cached" /\ enrollment' = "cached" /\ failed' = failed + 1
          /\ stored' \in {stored, stored + 1}
      BY <2>12 DEF Controller!CommitFails, Controller!Store, Controller!images
    <3>2. Controller!Handle(c, "none")
      BY <2>12 DEF Controller!CommitFails
    <3>3. stored' \in Nat /\ failed' \in Nat /\ stored' <= failed' /\ stored' <= 1 + failed'
      BY <1>2, <3>1 DEF EnrollInv
    <3>4. \A d \in Clients : request'[d] # "analysis"
      BY <1>2, <2>6, <3>1, <3>2 DEF EnrollInv
    <3>5. QED
      BY <1>2, <2>6, <3>1, <3>2, <3>3, <3>4 DEF EnrollInv, CommittedOnce
  <2>13. ASSUME NEW c \in Clients, Request(c) PROVE EnrollInv'
    BY <2>8, <2>9, <2>10, <2>11, <2>12, <2>13 DEF Request
  <2>14. ASSUME NEW c \in Clients, Analyzed(c) \/ Answered(c) \/ DeadlinePasses(c) PROVE EnrollInv'
    BY <2>2, <2>3, <2>4, <2>14 DEF Analyzed, Answered, DeadlinePasses
  <2>15. ASSUME UNCHANGED controller PROVE EnrollInv'
    BY <2>1, <2>15 DEF controller
  <2>16. ASSUME NEW c \in Clients,
                \/ CallLost(c) \/ BeginReload(c) \/ RefuseReload(c) \/ Load(c)
                \/ LoadFails(c) \/ Swap(c) \/ Clear(c)
         PROVE  UNCHANGED controller
    BY <2>16 DEF CallLost, BeginReload, RefuseReload, Load, LoadFails, Swap, Clear
  <2>17. ASSUME StopPipeline \/ StartPipeline \/ Started \/ StartFails \/ Recognizers
         PROVE  UNCHANGED controller
    BY <2>17 DEF StopPipeline, StartPipeline, Started, StartFails, Recognizers
  <2>18. QED
    BY <1>2, <2>5, <2>13, <2>14, <2>15, <2>16, <2>17 DEF ControlNext, controlVars, PruneExpired
<1>3. QED
  BY <1>1, <1>2

(* The candidates of an enrolment are stored once, and once more for each   *)
(* commit that failed half way.                                             *)
THEOREM StoredOnce == ControlSpec => []CommittedOnce
<1>1. EnrollInv => CommittedOnce
  BY DEF EnrollInv
<1>2. QED
  BY <1>1, EnrollInvInductive, PTL DEF ControlSpec
=============================================================================
