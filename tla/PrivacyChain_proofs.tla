------------------------ MODULE PrivacyChain_proofs ------------------------
(***************************************************************************)
(* Proofs about PrivacyChain, and about the tracker and the source of      *)
(* StreamFront it is fed by, for any people, gallery, configuration,       *)
(* length of the cache and of the track buffer: who is seen in a published *)
(* frame, and why; that a decision never passes from one track to another; *)
(* that an id does not come back and that of tracks that overlap one as    *)
(* long remains; and that the two images of a frame are of one moment.     *)
(***************************************************************************)
EXTENDS PrivacyChain, StreamFront, FiniteSetTheorems, SequenceTheorems,
        WellFoundedInduction, TLAPS

-----------------------------------------------------------------------------
(* The tracker.                                                             *)

KeptInv == nextId \in 1..(MaxTracks + 1) /\ Kept \subseteq 1..(nextId - 1)

(* An update hands out the ids from nextId on, and keeps no other new one.  *)
LEMMA UpdateKeeps ==
  ASSUME KeptInv, NEW f, NEW continued \in SUBSET Kept, NEW n \in 0..(MaxTracks + 1 - nextId),
         Update(f, continued, n)
  PROVE  /\ KeptInv' /\ nextId' = nextId + n
         /\ tracked' \subseteq continued \cup (nextId..(nextId + n - 1))
         /\ nextId..(nextId + n - 1) \subseteq Ids /\ continued \subseteq Ids
<1> DEFINE new == nextId..(nextId + n - 1)
<1>0. nextId \in Nat /\ nextId > 0 /\ MaxTracks \in Nat /\ n \in Nat /\ Kept \subseteq 1..(nextId - 1)
  BY TrackerAssumption DEF KeptInv
<1>1. nextId' = nextId + n
  BY DEF Update, IdAfter
<1>2. tracked' \subseteq continued \cup new /\ lost' \subseteq LostAfter(continued, f)
  BY DEF Update, RemoveDuplicates
<1>3. LostAfter(continued, f) \subseteq Kept
  BY DEF LostAfter, Kept
<1>4. nextId' \in 1..(MaxTracks + 1) /\ new \subseteq 1..(nextId' - 1) /\ Kept \subseteq 1..(nextId' - 1)
  BY <1>0, <1>1
<1>5. Kept' \subseteq 1..(nextId' - 1)
  BY <1>2, <1>3, <1>4 DEF Kept
<1>6. new \subseteq Ids /\ continued \subseteq Ids
  BY <1>0 DEF Ids
<1>7. QED
  BY <1>1, <1>2, <1>4, <1>5, <1>6 DEF KeptInv

(* An update sees tracks again, and begins new ones.                        *)
TrackerStep == \E f \in Int, continued \in SUBSET Kept, n \in 0..(MaxTracks + 1 - nextId) :
  Update(f, continued, n)

(* An id not handed out yet has no first frame.                             *)
TrackerInv ==
  /\ KeptInv /\ frame \in Int
  /\ first \in [Ids -> Int] /\ last \in [Ids -> Int]
  /\ \A t \in Ids : t >= nextId => first[t] = 0

LEMMA TrackerInvInductive ==
  /\ TrackerInit => TrackerInv /\ DuplicatesLeaveOne
  /\ TrackerInv /\ TrackerStep => TrackerInv'
<1>1. ASSUME TrackerInit PROVE TrackerInv /\ DuplicatesLeaveOne
  <2>1. /\ nextId = 1 /\ tracked = {} /\ lost = {} /\ merged = {} /\ frame = 0
        /\ first = [t \in Ids |-> 0] /\ last = [t \in Ids |-> 0]
    BY <1>1 DEF TrackerInit
  <2>2. KeptInv
    BY <2>1, TrackerAssumption DEF KeptInv, Kept
  <2>3. QED
    BY <2>1, <2>2 DEF TrackerInv, DuplicatesLeaveOne
<1>2. ASSUME TrackerInv, TrackerStep PROVE TrackerInv'
  <2>1. PICK f \in Int, continued \in SUBSET Kept, n \in 0..(MaxTracks + 1 - nextId) :
          Update(f, continued, n)
    BY <1>2 DEF TrackerStep
  <2>2. KeptInv' /\ nextId' = nextId + n
    BY <1>2, <2>1, UpdateKeeps DEF TrackerInv
  <2>3. FrameId(f) \in Int
    BY <1>2 DEF FrameId, TrackerInv
  <2>4. /\ frame' = FrameId(f) /\ first' \in [Ids -> Int] /\ last' \in [Ids -> Int]
        /\ \A t \in Ids : t \notin nextId..(nextId + n - 1) => first'[t] = first[t]
    BY <1>2, <2>1, <2>3 DEF Update, SeenIn, TrackerInv
  <2>5. nextId \in Int /\ n \in Nat /\ Ids \subseteq Int
    BY <1>2, TrackerAssumption DEF TrackerInv, KeptInv, Ids
  <2>6. ASSUME NEW t \in Ids, t >= nextId + n PROVE first'[t] = 0
    BY <1>2, <2>4, <2>5, <2>6 DEF TrackerInv
  <2>7. QED
    BY <2>2, <2>3, <2>4, <2>6 DEF TrackerInv
<1>3. QED
  BY <1>1, <1>2

(* Of finitely many things one is the largest: a smallest set of those that *)
(* are as large as one of them has no larger ones.                          *)
LEMMA LargestExists ==
  ASSUME NEW S, IsFiniteSet(S), S # {}, NEW g \in [S -> Int]
  PROVE  \E m \in S : \A x \in S : g[x] <= g[m]
<1> DEFINE AsLarge(m) == {x \in S : g[m] <= g[x]}
           All == {AsLarge(m) : m \in S}
<1>1. IsWellFoundedOn(StrictSubsetOrdering(S), SUBSET S)
  <2>1. FiniteSubsetsOf(S) = SUBSET S
    BY FS_FiniteSubsetsOfFinite
  <2>2. IsWellFoundedOn(StrictSubsetOrdering(S), FiniteSubsetsOf(S))
    BY FS_StrictSubsetOrderingWellFounded
  <2>3. QED
    BY <2>1, <2>2
<1>2. All \subseteq SUBSET S /\ All # {}
  <2>1. PICK x \in S : TRUE
    OBVIOUS
  <2>2. AsLarge(x) \in All
    OBVIOUS
  <2>3. \A m \in S : AsLarge(m) \subseteq S
    OBVIOUS
  <2> HIDE DEF AsLarge
  <2>4. QED
    BY <2>2, <2>3
<1>3. PICK T \in All : \A U \in All : ~(<<U, T>> \in StrictSubsetOrdering(S))
  BY <1>1, <1>2, WFMin
<1>4. PICK m \in S : T = AsLarge(m)
  BY <1>3
<1>5. ASSUME NEW x \in S, ~(g[x] <= g[m]) PROVE FALSE
  <2>1. g[x] \in Int /\ g[m] \in Int /\ g[m] < g[x] /\ \A y \in S : g[y] \in Int
    BY <1>5
  <2>2. AsLarge(x) \subseteq T /\ m \in T /\ m \notin AsLarge(x)
    BY <1>4, <2>1
  <2>3. <<AsLarge(x), T>> \in StrictSubsetOrdering(S)
    BY <1>2, <1>3, <2>2 DEF StrictSubsetOrdering
  <2>4. QED
    BY <1>3, <2>3
<1>6. QED
  BY <1>5

(* Of the tracks before duplicates are dropped, one of the longest stays: a *)
(* lost one if there is one, since only a longer one could drop it.         *)
LEMMA DuplicatesInductive == ASSUME TrackerInv, TrackerStep PROVE DuplicatesLeaveOne'
<1>1. PICK f \in Int, continued \in SUBSET Kept, n \in 0..(MaxTracks + 1 - nextId) :
        Update(f, continued, n)
  BY DEF TrackerStep
<1> DEFINE A == continued \cup (nextId..(nextId + n - 1))
           L == LostAfter(continued, f)
<1>2. PICK overlaps \in SUBSET (A \X L) :
        /\ tracked' = A \ UNION {Shorter(p[1], p[2]) : p \in overlaps}
        /\ lost' = L \ UNION {Shorter(p[1], p[2]) : p \in overlaps}
        /\ merged' = UNION {Shorter(p[1], p[2]) : p \in overlaps}
  BY <1>1 DEF Update, RemoveDuplicates
<1>3. A \subseteq Ids /\ L \subseteq Ids
  <2>1. A \subseteq Ids
    BY <1>1, UpdateKeeps DEF TrackerInv
  <2>2. L \subseteq Kept
    BY DEF LostAfter, Kept
  <2>3. Kept \subseteq Ids
    BY UpdateKeeps, TrackerAssumption DEF TrackerInv, KeptInv, Ids
  <2>4. QED
    BY <2>1, <2>2, <2>3
<1>4. first' \in [Ids -> Int] /\ last' \in [Ids -> Int]
  BY TrackerInvInductive DEF TrackerInv
<1> HIDE DEF A, L
<1>5. ASSUME NEW t \in A, NEW l \in L, NEW x \in Shorter(t, l)
      PROVE  /\ x \in {t, l} /\ Length(t) \in Int /\ Length(l) \in Int
             /\ (x = l /\ Length(t) > Length(l)) \/ (x = t /\ Length(t) <= Length(l))
  <2>1. Length(t) \in Int /\ Length(l) \in Int
    BY <1>3, <1>4 DEF Length
  <2>2. CASE Length(t) > Length(l)
    BY <2>1, <2>2, <1>5 DEF Shorter
  <2>3. CASE ~(Length(t) > Length(l))
    <3>1. Length(t) <= Length(l)
      BY <2>1, <2>3
    <3>2. x = t
      BY <1>5, <2>3 DEF Shorter
    <3>3. QED
      BY <2>1, <3>1, <3>2
  <2>4. QED
    BY <2>2, <2>3
<1>6. SUFFICES ASSUME NEW t \in merged' PROVE \E u \in Kept' : Length(u) >= Length(t)
  BY DEF DuplicatesLeaveOne, Length
<1>7. t \in A \cup L
  BY <1>2, <1>5
<1> DEFINE C == A \cup L
           g == [x \in C |-> Length(x)]
<1>8. IsFiniteSet(C) /\ C # {} /\ g \in [C -> Int] /\ \A x \in C : Length(x) \in Int
  <2>1. IsFiniteSet(Ids)
    BY TrackerAssumption, FS_Interval DEF Ids
  <2>2. IsFiniteSet(C)
    BY <1>3, <2>1, FS_Subset
  <2>3. \A x \in C : Length(x) \in Int
    BY <1>3, <1>4 DEF Length
  <2>4. QED
    BY <1>7, <2>2, <2>3
<1>9. PICK m \in C : \A x \in C : Length(x) <= Length(m)
  <2>1. \E m \in C : \A x \in C : g[x] <= g[m]
    BY <1>8, LargestExists
  <2>2. QED
    BY <2>1
<1>10. CASE \E l \in L : Length(l) = Length(m)
  <2>1. PICK l \in L : Length(l) = Length(m)
    BY <1>10
  <2>2. l \notin merged' \/ l \in A
    <3>1. ASSUME l \in merged', l \notin A PROVE FALSE
      <4>1. PICK p \in overlaps : l \in Shorter(p[1], p[2])
        BY <1>2, <3>1
      <4>2. p[1] \in A /\ p[2] \in L
        BY <4>1
      <4>3. p[2] = l /\ Length(p[1]) > Length(l)
        BY <1>5, <3>1, <4>1, <4>2
      <4>4. Length(p[1]) <= Length(m)
        BY <1>9, <4>2
      <4>5. QED
        BY <1>8, <2>1, <4>2, <4>3, <4>4
    <3>2. QED
      BY <3>1
  <2>3. l \notin A
    <3>1. l \in Kept /\ l \notin continued
      BY DEF L, LostAfter, Kept
    <3>2. l \notin nextId..(nextId + n - 1)
      BY <3>1, TrackerAssumption DEF TrackerInv, KeptInv
    <3>3. QED
      BY <3>1, <3>2 DEF A
  <2>4. l \in Kept'
    BY <1>2, <2>2, <2>3 DEF Kept
  <2>5. QED
    BY <1>7, <1>8, <1>9, <2>1, <2>4
<1>11. CASE ~\E l \in L : Length(l) = Length(m)
  <2>1. m \in A
    BY <1>11
  <2>2. m \notin merged'
    <3>1. ASSUME m \in merged' PROVE FALSE
      <4>1. PICK p \in overlaps : m \in Shorter(p[1], p[2])
        BY <1>2, <3>1
      <4>2. p[1] \in A /\ p[2] \in L
        BY <4>1
      <4>3. m = p[1] /\ Length(m) <= Length(p[2])
        BY <1>5, <1>11, <4>1, <4>2
      <4>4. Length(p[2]) <= Length(m)
        BY <1>9, <4>2
      <4>5. QED
        BY <1>8, <1>11, <4>2, <4>3, <4>4
    <3>2. QED
      BY <3>1
  <2>3. m \in Kept'
    BY <1>2, <2>1, <2>2 DEF Kept
  <2>4. QED
    BY <1>7, <1>8, <1>9, <2>3
<1>12. QED
  BY <1>10, <1>11

(* A tracked frame is a step of the tracker; reading one is none.           *)
LEMMA TrackerInvHolds == Spec => [](TrackerInv /\ DuplicatesLeaveOne)
<1>1. Init => TrackerInv /\ DuplicatesLeaveOne
  BY TrackerInvInductive DEF Init
<1>2. TrackerInv /\ DuplicatesLeaveOne /\ [Next]_vars => (TrackerInv /\ DuplicatesLeaveOne)'
  <2> SUFFICES ASSUME TrackerInv, DuplicatesLeaveOne, [Next]_vars
               PROVE  TrackerInv' /\ DuplicatesLeaveOne'
    OBVIOUS
  <2>1. CASE ProcessTrackedFrame
    <3>1. TrackerStep
      BY <2>1 DEF ProcessTrackedFrame, Track, TrackerStep
    <3>2. QED
      BY <3>1, TrackerInvInductive, DuplicatesInductive
  <2>2. CASE UNCHANGED trackerVars
    BY <2>2 DEF trackerVars, TrackerInv, DuplicatesLeaveOne, KeptInv, Kept
  <2>3. QED
    BY <2>1, <2>2 DEF Next, ReadFrame, vars
<1>3. QED
  BY <1>1, <1>2, PTL DEF Spec

(* However many tracks of a frame overlap, of those dropped as duplicates   *)
(* one that lasted as long is still kept.                                   *)
THEOREM TracksLeaveOne == Spec => []DuplicatesLeaveOne
BY TrackerInvHolds, PTL

(* An id once handed out whose track is given up never comes back.          *)
THEOREM IdsNeverReturn == Spec => NoIdReturns
<1>1. ASSUME TrackerInv, [Next]_vars
      PROVE  [\A t \in Ids : first[t] > 0 /\ t \notin Kept => t \notin Kept']_trackerVars
  <2>1. CASE ProcessTrackedFrame
    <3>1. PICK f \in (fed + 1)..(Len(emitted) - 1), continued \in SUBSET Kept,
                n \in 0..(MaxTracks + 1 - nextId) : Update(f, continued, n)
      BY <2>1 DEF ProcessTrackedFrame, Track
    <3>2. tracked' \subseteq continued \cup (nextId..(nextId + n - 1))
      BY <1>1, <3>1, UpdateKeeps DEF TrackerInv
    <3>3. lost' \subseteq Kept
      BY <3>1 DEF Update, RemoveDuplicates, LostAfter, Kept
    <3>4. ASSUME NEW t \in Ids, first[t] > 0, t \notin Kept PROVE t \notin Kept'
      <4>1. t \in Int /\ nextId \in Int /\ t < nextId
        BY <1>1, <3>4, TrackerAssumption DEF TrackerInv, KeptInv, Ids
      <4>2. t \notin nextId..(nextId + n - 1)
        BY <4>1
      <4>3. QED
        BY <3>2, <3>3, <3>4, <4>2 DEF Kept
    <3>5. QED
      BY <3>4
  <2>2. CASE UNCHANGED trackerVars
    BY <2>2
  <2>3. QED
    BY <1>1, <2>1, <2>2 DEF Next, ReadFrame, vars
<1>2. QED
  BY <1>1, TrackerInvHolds, PTL DEF Spec, NoIdReturns

-----------------------------------------------------------------------------
(* The source.                                                              *)

Elems(q) == {q[i] : i \in DOMAIN q}

(* Moments that arrived in order, up to the next one.                       *)
Rising(q, at) ==
  /\ q \in Seq(Nat) /\ at \in Nat
  /\ \A i \in DOMAIN q : q[i] < at
  /\ \A i, j \in DOMAIN q : i < j => q[i] < q[j]

LEMMA ContainsElems == ASSUME NEW S, NEW q \in Seq(S), NEW m PROVE Contains(q, m) <=> m \in Elems(q)
BY DEF Contains, Elems

(* What is left when the place i is taken out.                              *)
Closed(r, q, i) ==
  /\ DOMAIN r = 1..(Len(q) - 1)
  /\ \A k \in 1..(Len(q) - 1) : r[k] = IF k < i THEN q[k] ELSE q[k + 1]

LEMMA RemoveAtCloses ==
  ASSUME NEW q \in Seq(Nat), NEW i \in DOMAIN q
  PROVE  RemoveAt(q, i) \in Seq(Nat) /\ Closed(RemoveAt(q, i), q, i)
<1> DEFINE before == SubSeq(q, 1, i - 1)
           after == SubSeq(q, i + 1, Len(q))
<1>1. i \in 1..Len(q) /\ Len(q) \in Nat
  OBVIOUS
<1>2. before \in Seq(Nat) /\ Len(before) = i - 1 /\ \A k \in 1..(i - 1) : before[k] = q[k]
  BY <1>1
<1>3. /\ after \in Seq(Nat) /\ Len(after) = Len(q) - i
      /\ \A k \in 1..(Len(q) - i) : after[k] = q[i + k]
  <2>1. i + 1 \in Int /\ Len(q) \in Int /\ \A k \in (i + 1)..Len(q) : q[k] \in Nat
    BY <1>1
  <2>2. /\ after \in Seq(Nat) /\ Len(after) = IF i + 1 <= Len(q) THEN Len(q) - (i + 1) + 1 ELSE 0
        /\ \A k \in 1..(Len(q) - (i + 1) + 1) : after[k] = q[(i + 1) + k - 1]
    BY <2>1, SubSeqProperties, SMTT(30)
  <2>3. Len(q) - (i + 1) + 1 = Len(q) - i /\ (~(i + 1 <= Len(q)) => Len(q) - i = 0)
    BY <1>1
  <2>4. ASSUME NEW k \in 1..(Len(q) - i) PROVE after[k] = q[i + k]
    <3>1. k \in 1..(Len(q) - (i + 1) + 1)
      BY <2>3
    <3>2. after[k] = q[(i + 1) + k - 1]
      BY <2>2, <3>1
    <3>3. (i + 1) + k - 1 = i + k
      BY <1>1
    <3>4. QED
      BY <3>2, <3>3
  <2>5. QED
    BY <2>2, <2>3, <2>4
<1>4. RemoveAt(q, i) = before \o after
  BY DEF RemoveAt
<1> HIDE DEF before, after
<1>5. /\ before \o after \in Seq(Nat) /\ Len(before \o after) = Len(q) - 1
      /\ \A k \in 1..(Len(q) - 1) :
           (before \o after)[k] = IF k <= i - 1 THEN before[k] ELSE after[k - (i - 1)]
  <2>1. (i - 1) + (Len(q) - i) = Len(q) - 1
    BY <1>1
  <2>2. QED
    <3>1. before \in Seq(Nat) /\ after \in Seq(Nat) /\ Len(before) + Len(after) = Len(q) - 1
      BY <1>2, <1>3, <2>1
    <3>2. /\ before \o after \in Seq(Nat) /\ Len(before \o after) = Len(before) + Len(after)
          /\ \A k \in 1..(Len(before) + Len(after)) :
               (before \o after)[k] = IF k <= Len(before) THEN before[k] ELSE after[k - Len(before)]
      BY <3>1, ConcatProperties
    <3>3. QED
      BY <1>2, <3>1, <3>2
<1>6. ASSUME NEW k \in 1..(Len(q) - 1)
      PROVE  (before \o after)[k] = IF k < i THEN q[k] ELSE q[k + 1]
  <2>1. CASE k < i
    BY <1>1, <1>2, <1>5, <2>1
  <2>2. CASE ~(k < i)
    <3>1. k - (i - 1) \in 1..(Len(q) - i) /\ i + (k - (i - 1)) = k + 1 /\ ~(k <= i - 1)
      BY <1>1, <2>2
    <3>2. after[k - (i - 1)] = q[k + 1]
      BY <1>3, <3>1
    <3>3. QED
      BY <1>5, <2>2, <3>1, <3>2
  <2>3. QED
    BY <2>1, <2>2
<1>7. DOMAIN (before \o after) = 1..(Len(q) - 1)
  BY <1>5
<1>8. QED
  BY <1>4, <1>5, <1>6, <1>7 DEF Closed

LEMMA TailCloses ==
  ASSUME NEW q \in Seq(Nat), q # <<>> PROVE Tail(q) \in Seq(Nat) /\ Closed(Tail(q), q, 1) /\ 1 \in DOMAIN q
<1>1. Tail(q) \in Seq(Nat) /\ Len(Tail(q)) = Len(q) - 1 /\ \A k \in 1..(Len(q) - 1) : Tail(q)[k] = q[k + 1]
  OBVIOUS
<1>2. DOMAIN Tail(q) = 1..(Len(q) - 1) /\ \A k \in 1..(Len(q) - 1) : ~(k < 1)
  BY <1>1
<1>3. QED
  BY <1>1, <1>2 DEF Closed

LEMMA ClosedRises ==
  ASSUME NEW q, NEW at, Rising(q, at), NEW i \in DOMAIN q, NEW r \in Seq(Nat), Closed(r, q, i)
  PROVE  Rising(r, at) /\ Elems(r) = Elems(q) \ {q[i]}
<1>0. q \in Seq(Nat) /\ DOMAIN q = 1..Len(q) /\ Len(q) \in Nat /\ i \in 1..Len(q) /\ at \in Nat
  BY DEF Rising
<1> DEFINE from(k) == IF k < i THEN k ELSE k + 1
<1>1. ASSUME NEW k \in DOMAIN r
      PROVE  from(k) \in DOMAIN q /\ from(k) # i /\ r[k] = q[from(k)]
  <2>1. k \in 1..(Len(q) - 1) /\ r[k] = IF k < i THEN q[k] ELSE q[k + 1]
    BY <1>1 DEF Closed
  <2>2. from(k) \in 1..Len(q) /\ from(k) # i
    <3>1. k \in Int /\ i \in Int /\ Len(q) \in Int /\ 1 <= k /\ k <= Len(q) - 1
      BY <1>0, <2>1
    <3>2. QED
      BY <3>1
  <2>3. QED
    BY <1>0, <2>1, <2>2
<1>2. ASSUME NEW k \in DOMAIN r, NEW l \in DOMAIN r, k < l PROVE from(k) < from(l)
  <2>1. k \in Int /\ l \in Int /\ i \in Int
    BY <1>0 DEF Closed
  <2>2. QED
    BY <1>2, <2>1
<1>3. ASSUME NEW k \in DOMAIN q, k # i PROVE \E l \in DOMAIN r : from(l) = k
  <2>1. CASE k < i
    <3>1. k \in DOMAIN r /\ from(k) = k
      BY <1>0, <1>3, <2>1 DEF Closed
    <3>2. QED
      BY <3>1
  <2>2. CASE ~(k < i)
    <3>1. k \in Int /\ i < k /\ k - 1 \in 1..(Len(q) - 1) /\ ~(k - 1 < i) /\ (k - 1) + 1 = k
      <4>1. k \in Int /\ i \in Int /\ Len(q) \in Int /\ 1 <= i /\ k <= Len(q) /\ k # i
        BY <1>0, <1>3
      <4>2. QED
        BY <2>2, <4>1
    <3>2. k - 1 \in DOMAIN r /\ from(k - 1) = k
      BY <3>1 DEF Closed
    <3>3. QED
      BY <3>2
  <2>3. QED
    BY <2>1, <2>2
<1> HIDE DEF from
<1>4. \A k, l \in DOMAIN q : q[k] = q[l] => k = l
  <2> SUFFICES ASSUME NEW k \in DOMAIN q, NEW l \in DOMAIN q, q[k] = q[l] PROVE k = l
    OBVIOUS
  <2>1. k \in Nat /\ l \in Nat /\ q[k] \in Nat /\ q[l] \in Nat
    BY <1>0
  <2>2. ~(k < l) /\ ~(l < k)
    BY <2>1 DEF Rising
  <2>3. QED
    BY <2>1, <2>2
<1>5. Rising(r, at)
  BY <1>0, <1>1, <1>2 DEF Rising
<1>6. Elems(r) = Elems(q) \ {q[i]}
  <2>1. ASSUME NEW k \in DOMAIN r PROVE r[k] \in Elems(q) /\ r[k] # q[i]
    BY <1>1, <1>4 DEF Elems
  <2>2. ASSUME NEW k \in DOMAIN q, q[k] # q[i] PROVE q[k] \in Elems(r)
    BY <1>1, <1>3, <2>2 DEF Elems
  <2>3. QED
    BY <2>1, <2>2 DEF Elems
<1>7. QED
  BY <1>5, <1>6

LEMMA AppendRises ==
  ASSUME NEW q, NEW at, Rising(q, at), NEW m \in Nat, m >= at
  PROVE  Rising(Append(q, m), m + 1) /\ Elems(Append(q, m)) = Elems(q) \cup {m}
<1>1. /\ q \in Seq(Nat) /\ at \in Nat /\ DOMAIN q = 1..Len(q) /\ Len(q) \in Nat
      /\ \A k \in DOMAIN q : q[k] \in Nat
  BY DEF Rising
<1>2. /\ Append(q, m) \in Seq(Nat) /\ DOMAIN Append(q, m) = DOMAIN q \cup {Len(q) + 1}
      /\ Append(q, m)[Len(q) + 1] = m /\ \A k \in DOMAIN q : Append(q, m)[k] = q[k] /\ k < Len(q) + 1
  BY <1>1
<1>3. \A k \in DOMAIN q : q[k] < m /\ q[k] < m + 1 /\ ~(Len(q) + 1 < k)
  BY <1>1 DEF Rising
<1>4. m + 1 \in Nat /\ m < m + 1 /\ ~(Len(q) + 1 < Len(q) + 1)
  BY <1>1
<1>5. Rising(Append(q, m), m + 1)
  BY <1>2, <1>3, <1>4 DEF Rising
<1>6. Elems(Append(q, m)) = Elems(q) \cup {m}
  BY <1>2 DEF Elems
<1>7. QED
  BY <1>5, <1>6

(* The moments both lists hold, and those already returned.                 *)
Both == Elems(inf) \cap Elems(ui)
Out == {emitted[f][1] : f \in DOMAIN emitted}

(* At most one pair waits in the lists, and it is newer than all that was   *)
(* returned; a moment that both branches delivered and no overflow took is  *)
(* that pair or was returned.                                               *)
SourceInv ==
  /\ Rising(inf, infAt) /\ Rising(ui, uiAt)
  /\ emitted \in Seq(Nat \X Nat) /\ PairsInOrder
  /\ \A e \in Out : e < infAt /\ e < uiAt
  /\ \A m, n \in Both : m = n
  /\ \A m \in Both, e \in Out : e < m
  /\ live \ overrun \subseteq Both \cup Out

LEMMA SourceElems ==
  ASSUME SourceInv
  PROVE  /\ Elems(inf) \subseteq Nat /\ Elems(ui) \subseteq Nat /\ Out \subseteq Nat
         /\ infAt \in Nat /\ uiAt \in Nat /\ inf \in Seq(Nat) /\ ui \in Seq(Nat)
         /\ \A m \in Elems(inf) : m < infAt
         /\ \A m \in Elems(ui) : m < uiAt
BY DEF SourceInv, Rising, Elems, Out

(* The oldest inference image that has a counterpart matches it.            *)
LEMMA FirstStampMatches ==
  ASSUME inf \in Seq(Nat), NEW k \in DOMAIN inf, NEW l \in DOMAIN ui, SameStamp(k, l)
  PROVE  \E i \in DOMAIN inf, j \in DOMAIN ui : Matches(i, j)
<1> DEFINE S == {i \in DOMAIN inf : \E j \in DOMAIN ui : SameStamp(i, j)}
           g == [i \in S |-> -i]
<1>1. DOMAIN inf = 1..Len(inf) /\ Len(inf) \in Nat /\ k \in S
  OBVIOUS
<1>2. IsFiniteSet(S)
  <2>1. IsFiniteSet(1..Len(inf)) /\ S \subseteq 1..Len(inf)
    BY <1>1, FS_Interval
  <2>2. QED
    BY <2>1, FS_Subset
<1>3. g \in [S -> Int]
  BY <1>1
<1> HIDE DEF S
<1>4. PICK i \in S : \A x \in S : g[x] <= g[i]
  BY <1>1, <1>2, <1>3, LargestExists
<1>5. ASSUME NEW x \in S PROVE x \in Int /\ i \in Int /\ x >= i
  <2>1. x \in Int /\ i \in Int
    BY <1>1 DEF S
  <2>2. g[x] = -x /\ g[i] = -i /\ g[x] <= g[i]
    BY <1>4
  <2>3. -x <= -i
    BY <2>2
  <2>4. QED
    BY <2>1, <2>3
<1>6. PICK j \in DOMAIN ui : SameStamp(i, j)
  BY DEF S
<1>7. ASSUME NEW x \in 1..(i - 1), NEW y \in DOMAIN ui, SameStamp(x, y) PROVE FALSE
  <2>1. x \in DOMAIN inf /\ x < i
    BY <1>1 DEF S
  <2>2. x \in S
    BY <1>7, <2>1 DEF S
  <2>3. QED
    BY <1>5, <2>1, <2>2
<1>8. QED
  BY <1>6, <1>7 DEF S, Matches, Matching

LEMMA ZeroIsFirst ==
  ASSUME NEW q, NEW at, Rising(q, at), NEW i \in DOMAIN q, q[i] = 0 PROVE i = 1
<1>1. q \in Seq(Nat) /\ DOMAIN q = 1..Len(q) /\ Len(q) \in Nat
  BY DEF Rising
<1>2. CASE i # 1
  <2>1. 1 \in DOMAIN q /\ 1 < i /\ q[1] \in Nat
    BY <1>1, <1>2
  <2>2. q[1] < 0
    BY <2>1 DEF Rising
  <2>3. QED
    BY <2>1, <2>2
<1>3. QED
  BY <1>2

(* A moment in both lists is a match: the moment 0, which has no time stamp *)
(* to be paired by, is the first of both.                                   *)
LEMMA NoMatchNoBoth == ASSUME SourceInv, NoMatch PROVE Both = {}
<1> SUFFICES ASSUME NEW m \in Both PROVE FALSE
  OBVIOUS
<1>1. PICK i \in DOMAIN inf, j \in DOMAIN ui : inf[i] = m /\ ui[j] = m
  BY DEF Both, Elems
<1>2. /\ m \in Nat /\ Rising(inf, infAt) /\ Rising(ui, uiAt)
      /\ \A k \in DOMAIN inf : inf[k] \in Nat
      /\ \A l \in DOMAIN ui : ui[l] \in Nat
  <2>1. Rising(inf, infAt) /\ Rising(ui, uiAt)
    BY DEF SourceInv
  <2>2. inf \in Seq(Nat) /\ ui \in Seq(Nat)
    BY <2>1 DEF Rising
  <2>3. QED
    BY <1>1, <2>1, <2>2
<1>3. CASE \E k \in DOMAIN inf, l \in DOMAIN ui : SameStamp(k, l)
  BY <1>3, SourceElems, FirstStampMatches DEF NoMatch
<1>4. CASE ~\E k \in DOMAIN inf, l \in DOMAIN ui : SameStamp(k, l)
  <2>1. m = 0
    BY <1>1, <1>2, <1>4 DEF SameStamp
  <2>2. i = 1 /\ j = 1
    BY <1>1, <1>2, <2>1, ZeroIsFirst
  <2>3. FirstsUnstamped(1, 1)
    BY <1>1, <1>4, <2>1, <2>2 DEF FirstsUnstamped
  <2>4. QED
    BY <1>1, <2>2, <2>3 DEF NoMatch, Matches
<1>5. QED
  BY <1>3, <1>4

(* A pair is returned: one moment, newer than all before.                   *)
LEMMA PairReturned ==
  ASSUME emitted \in Seq(Nat \X Nat), PairsInOrder, NEW m \in Nat, \A e \in Out : e < m,
         emitted' = Append(emitted, <<m, m>>)
  PROVE  emitted' \in Seq(Nat \X Nat) /\ PairsInOrder' /\ Out' = Out \cup {m}
<1> DEFINE n == Len(emitted) + 1
<1>1. /\ emitted' \in Seq(Nat \X Nat) /\ DOMAIN emitted' = DOMAIN emitted \cup {n}
      /\ emitted'[n] = <<m, m>>
      /\ \A f \in DOMAIN emitted : emitted'[f] = emitted[f] /\ f \in Nat /\ f < n
      /\ n \in Nat /\ ~(n < n)
  <2>1. <<m, m>> \in Nat \X Nat /\ emitted \in Seq(Nat \X Nat)
    OBVIOUS
  <2>2. /\ Append(emitted, <<m, m>>) \in Seq(Nat \X Nat)
        /\ Len(Append(emitted, <<m, m>>)) = n
        /\ Append(emitted, <<m, m>>)[n] = <<m, m>>
        /\ \A f \in 1..Len(emitted) : Append(emitted, <<m, m>>)[f] = emitted[f]
    BY <2>1, AppendProperties
  <2>3. DOMAIN emitted = 1..Len(emitted) /\ Len(emitted) \in Nat
    BY <2>1
  <2>4. DOMAIN emitted' = 1..n
    BY <2>2
  <2>5. QED
    BY <2>2, <2>3, <2>4
<1>2. \A f \in DOMAIN emitted : ~(n < f)
  BY <1>1
<1>3. emitted'[n][1] = m /\ emitted'[n][2] = m
  BY <1>1
<1> HIDE DEF n
<1>4. \A f \in DOMAIN emitted : emitted[f][1] < m
  BY DEF Out
<1>5. PairsInOrder'
  <2>1. ASSUME NEW f \in DOMAIN emitted' PROVE emitted'[f][1] = emitted'[f][2]
    BY <1>1, <1>3 DEF PairsInOrder
  <2>2. ASSUME NEW f \in DOMAIN emitted', NEW g \in DOMAIN emitted', f < g
        PROVE  emitted'[f][1] < emitted'[g][1]
    <3>1. CASE g \in DOMAIN emitted
      <4>1. f \in DOMAIN emitted
        BY <1>1, <1>2, <2>2, <3>1
      <4>2. QED
        BY <1>1, <2>2, <3>1, <4>1 DEF PairsInOrder
    <3>2. CASE g = n
      <4>1. f \in DOMAIN emitted
        BY <1>1, <2>2, <3>2
      <4>2. QED
        BY <1>1, <1>3, <1>4, <3>2, <4>1
    <3>3. QED
      BY <1>1, <3>1, <3>2
  <2>3. QED
    BY <2>1, <2>2 DEF PairsInOrder
<1>6. Out' = Out \cup {m}
  BY <1>1, <1>3 DEF Out
<1>7. QED
  BY <1>1, <1>5, <1>6

LEMMA MatchKeeps ==
  ASSUME SourceInv, NEW i \in DOMAIN inf, NEW j \in DOMAIN ui, TryMatch(i, j) PROVE SourceInv'
<1> DEFINE m == inf[i]
<1>1. m = ui[j]
  BY DEF TryMatch, Matches, Matching, FirstsUnstamped, SameStamp
<1>2. m \in Both /\ m \in Nat /\ m < infAt /\ m < uiAt
  BY <1>1, SourceElems DEF Both, Elems
<1>3. inf' = RemoveAt(inf, i) /\ ui' = RemoveAt(ui, j) /\ UNCHANGED <<infAt, uiAt, live, overrun>>
  BY DEF TryMatch
<1>4. Rising(inf', infAt) /\ Elems(inf') = Elems(inf) \ {m}
  BY <1>3, SourceElems, RemoveAtCloses, ClosedRises DEF SourceInv
<1>5. Rising(ui', uiAt) /\ Elems(ui') = Elems(ui) \ {m}
  BY <1>1, <1>3, SourceElems, RemoveAtCloses, ClosedRises DEF SourceInv
<1>6. Both' = {}
  <2>1. Both' = Both \ {m}
    BY <1>4, <1>5 DEF Both, Elems
  <2>2. QED
    BY <1>2, <2>1 DEF SourceInv
<1>7. emitted' \in Seq(Nat \X Nat) /\ PairsInOrder' /\ Out' = Out \cup {m}
  <2>1. emitted' = Append(emitted, <<m, m>>) /\ \A e \in Out : e < m
    BY <1>1, <1>2 DEF TryMatch, SourceInv
  <2>2. QED
    BY <1>2, <2>1, PairReturned DEF SourceInv
<1> HIDE DEF m
<1>8. live' \ overrun' \subseteq Both' \cup Out'
  <2>1. ASSUME NEW x \in live \ overrun PROVE x \in Out \cup {m}
    BY <1>2 DEF SourceInv
  <2>2. QED
    BY <1>3, <1>7, <2>1
<1>9. \A e \in Out' : e < infAt' /\ e < uiAt'
  BY <1>2, <1>3, <1>7 DEF SourceInv
<1>10. QED
  BY <1>3, <1>4, <1>5, <1>6, <1>7, <1>8, <1>9 DEF SourceInv

(* A new moment makes a pair only if there was none.                        *)
LEMMA PullInfKeeps == ASSUME SourceInv, PullInf PROVE SourceInv'
<1>1. Both = {} /\ UNCHANGED <<ui, uiAt, emitted, overrun>>
  BY NoMatchNoBoth DEF PullInf
<1>2. Out' = Out /\ (PairsInOrder => PairsInOrder')
  BY <1>1 DEF Out, PairsInOrder
<1>3. CASE UNCHANGED <<inf, infAt, live>>
  BY <1>1, <1>2, <1>3 DEF SourceInv, Both, Elems
<1>4. CASE \E m \in infAt..MaxMoment :
             /\ inf' = Append(inf, m) /\ infAt' = m + 1
             /\ live' = IF Contains(ui, m) THEN live \cup {m} ELSE live
  <2>1. PICK m \in infAt..MaxMoment :
          /\ inf' = Append(inf, m) /\ infAt' = m + 1
          /\ live' = IF Contains(ui, m) THEN live \cup {m} ELSE live
    BY <1>4
  <2>2. m \in Nat /\ m >= infAt
    BY SourceElems
  <2>3. Rising(inf', infAt') /\ Elems(inf') = Elems(inf) \cup {m}
    BY <2>1, <2>2, AppendRises DEF SourceInv
  <2>4. Both' \subseteq {m} /\ (Contains(ui, m) => m \in Both')
    <3>1. Contains(ui, m) => m \in Elems(ui)
      BY SourceElems, ContainsElems
    <3>2. Both' = Elems(inf') \cap Elems(ui)
      BY <1>1 DEF Both, Elems
    <3>3. Both = Elems(inf) \cap Elems(ui)
      BY DEF Both
    <3>4. QED
      BY <1>1, <2>3, <3>1, <3>2, <3>3
  <2>5. \A e \in Out : e < m /\ e < infAt' /\ e < uiAt
    <3>1. ASSUME NEW e \in Out PROVE e < m /\ e < m + 1 /\ e < uiAt
      <4>1. e \in Nat /\ infAt \in Nat /\ e < infAt /\ e < uiAt
        BY SourceElems DEF SourceInv
      <4>2. QED
        BY <2>2, <4>1
    <3>2. QED
      BY <2>1, <3>1
  <2>6. live' \ overrun' \subseteq Both' \cup Out'
    BY <1>1, <1>2, <2>1, <2>4 DEF SourceInv
  <2>7. QED
    BY <1>1, <1>2, <2>3, <2>4, <2>5, <2>6 DEF SourceInv
<1>5. QED
  BY <1>3, <1>4 DEF PullInf

LEMMA PullUiKeeps == ASSUME SourceInv, PullUi PROVE SourceInv'
<1>1. Both = {} /\ UNCHANGED <<inf, infAt, emitted, overrun>>
  BY NoMatchNoBoth DEF PullUi
<1>2. Out' = Out /\ (PairsInOrder => PairsInOrder')
  BY <1>1 DEF Out, PairsInOrder
<1>3. CASE UNCHANGED <<ui, uiAt, live>>
  BY <1>1, <1>2, <1>3 DEF SourceInv, Both, Elems
<1>4. CASE \E m \in uiAt..MaxMoment :
             /\ ui' = Append(ui, m) /\ uiAt' = m + 1
             /\ live' = IF Contains(inf, m) THEN live \cup {m} ELSE live
  <2>1. PICK m \in uiAt..MaxMoment :
          /\ ui' = Append(ui, m) /\ uiAt' = m + 1
          /\ live' = IF Contains(inf, m) THEN live \cup {m} ELSE live
    BY <1>4
  <2>2. m \in Nat /\ m >= uiAt
    BY SourceElems
  <2>3. Rising(ui', uiAt') /\ Elems(ui') = Elems(ui) \cup {m}
    BY <2>1, <2>2, AppendRises DEF SourceInv
  <2>4. Both' \subseteq {m} /\ (Contains(inf, m) => m \in Both')
    <3>1. Contains(inf, m) => m \in Elems(inf)
      BY SourceElems, ContainsElems
    <3>2. Both' = Elems(inf) \cap Elems(ui')
      BY <1>1 DEF Both, Elems
    <3>3. Both = Elems(inf) \cap Elems(ui)
      BY DEF Both
    <3>4. QED
      BY <1>1, <2>3, <3>1, <3>2, <3>3
  <2>5. \A e \in Out : e < m /\ e < infAt /\ e < uiAt'
    <3>1. ASSUME NEW e \in Out PROVE e < m /\ e < m + 1 /\ e < infAt
      <4>1. e \in Nat /\ uiAt \in Nat /\ e < infAt /\ e < uiAt
        BY SourceElems DEF SourceInv
      <4>2. QED
        BY <2>2, <4>1
    <3>2. QED
      BY <2>1, <3>1
  <2>6. live' \ overrun' \subseteq Both' \cup Out'
    BY <1>1, <1>2, <2>1, <2>4 DEF SourceInv
  <2>7. QED
    BY <1>1, <1>2, <2>3, <2>4, <2>5, <2>6 DEF SourceInv
<1>5. QED
  BY <1>3, <1>4 DEF PullUi

(* What is trimmed has no counterpart, or its list was too long.            *)
LEMMA TrimKeeps == ASSUME SourceInv, TrimInf \/ TrimUi PROVE SourceInv'
<1>1. UNCHANGED <<infAt, uiAt, emitted, live>> /\ Out' = Out /\ (PairsInOrder => PairsInOrder')
  BY DEF TrimInf, TrimUi, Out, PairsInOrder
<1>2. CASE TrimInf
  <2>1. inf # <<>> /\ inf' = Tail(inf) /\ UNCHANGED ui
    <3>1. PendingCap \in Nat /\ Len(<<>>) = 0
      BY SourceAssumption
    <3>2. QED
      BY <1>2, <3>1 DEF TrimInf, TooLong, InfGoes, Stamped
  <2>2. Rising(inf', infAt) /\ Elems(inf') = Elems(inf) \ {inf[1]}
    BY <2>1, SourceElems, TailCloses, ClosedRises DEF SourceInv
  <2>3. Both' = Both \ {inf[1]}
    BY <2>1, <2>2 DEF Both, Elems
  <2>4. inf[1] \in overrun' \/ inf[1] \notin Both
    <3>1. CASE TooLong(inf)
      BY <1>2, <3>1 DEF TrimInf
    <3>2. CASE InfGoes
      BY <3>2, SourceElems, ContainsElems DEF InfGoes, Unpaired, Both
    <3>3. QED
      BY <1>2, <3>1, <3>2 DEF TrimInf
  <2>5. overrun \subseteq overrun'
    BY <1>2 DEF TrimInf
  <2>6. live' \ overrun' \subseteq Both' \cup Out'
    BY <1>1, <2>3, <2>4, <2>5 DEF SourceInv
  <2>7. QED
    BY <1>1, <2>1, <2>2, <2>3, <2>6 DEF SourceInv
<1>3. CASE TrimUi
  <2>1. ui # <<>> /\ ui' = Tail(ui) /\ UNCHANGED inf
    <3>1. PendingCap \in Nat /\ Len(<<>>) = 0
      BY SourceAssumption
    <3>2. QED
      BY <1>3, <3>1 DEF TrimUi, TooLong, UiGoes, Stamped
  <2>2. Rising(ui', uiAt) /\ Elems(ui') = Elems(ui) \ {ui[1]}
    BY <2>1, SourceElems, TailCloses, ClosedRises DEF SourceInv
  <2>3. Both' = Both \ {ui[1]}
    BY <2>1, <2>2 DEF Both, Elems
  <2>4. ui[1] \in overrun' \/ ui[1] \notin Both
    <3>1. CASE TooLong(ui)
      BY <1>3, <3>1 DEF TrimUi
    <3>2. CASE UiGoes
      BY <3>2, SourceElems, ContainsElems DEF UiGoes, Unpaired, Both
    <3>3. QED
      BY <1>3, <3>1, <3>2 DEF TrimUi
  <2>5. overrun \subseteq overrun'
    BY <1>3 DEF TrimUi
  <2>6. live' \ overrun' \subseteq Both' \cup Out'
    BY <1>1, <2>3, <2>4, <2>5 DEF SourceInv
  <2>7. QED
    BY <1>1, <2>1, <2>2, <2>3, <2>6 DEF SourceInv
<1>4. QED
  BY <1>2, <1>3

LEMMA SourceInvHolds == Spec => []SourceInv
<1>1. Init => SourceInv
  <2> SUFFICES ASSUME Init PROVE SourceInv
    OBVIOUS
  <2>1. inf = <<>> /\ ui = <<>> /\ infAt = 0 /\ uiAt = 0 /\ emitted = <<>> /\ live = {}
    BY DEF Init, SourceInit
  <2>2. Elems(inf) = {} /\ Out = {} /\ PairsInOrder
    BY <2>1 DEF Elems, Out, PairsInOrder
  <2>3. Rising(inf, infAt) /\ Rising(ui, uiAt) /\ emitted \in Seq(Nat \X Nat)
    BY <2>1 DEF Rising
  <2>4. QED
    BY <2>1, <2>2, <2>3 DEF SourceInv, Both
<1>2. SourceInv /\ [Next]_vars => SourceInv'
  <2> SUFFICES ASSUME SourceInv, [Next]_vars PROVE SourceInv'
    OBVIOUS
  <2>1. CASE UNCHANGED <<inf, ui, infAt, uiAt, emitted, live, overrun>>
    BY <2>1 DEF SourceInv, PairsInOrder, Both, Out, Elems
  <2>2. CASE Read
    BY <2>1, <2>2, MatchKeeps, PullInfKeeps, PullUiKeeps, TrimKeeps DEF Read, TimeOut, TrimDone
  <2>3. QED
    BY <2>1, <2>2 DEF Next, ReadFrame, ProcessTrackedFrame, vars, sourceVars
<1>3. QED
  BY <1>1, <1>2, PTL DEF Spec

(* The images of a frame are of one moment, and frames are numbered in the  *)
(* order of their moments, whatever each branch drops or delivers late.     *)
THEOREM FramesPairMoments == Spec => []PairsInOrder
<1>1. SourceInv => PairsInOrder
  BY DEF SourceInv
<1>2. QED
  BY <1>1, SourceInvHolds, PTL

(* A moment both branches delivered becomes a frame or still waits in both  *)
(* lists, unless a list overflowed.                                         *)
THEOREM TrimmingBreaksNoPair == Spec => []NoPairBroken
<1>1. ASSUME SourceInv PROVE NoPairBroken
  <2> SUFFICES ASSUME NEW m \in live \ overrun, m \notin Out
               PROVE  Contains(inf, m) /\ Contains(ui, m)
    BY DEF NoPairBroken, Out
  <2>1. m \in Elems(inf) /\ m \in Elems(ui)
    BY <1>1 DEF SourceInv, Both
  <2>2. QED
    BY <1>1, <2>1, SourceElems, ContainsElems
<1>2. QED
  BY <1>1, SourceInvHolds, PTL

-----------------------------------------------------------------------------
(* The way of the boxes.                                                    *)

Shape == [id : Int, shows : People, face : People \cup {Nobody},
          key : People \cup {Nobody}, action : {"allow", "anonymize"}]
Answer == [of : People \cup {"unknown", "none"}, seen : Int]

(* Every box is that of a track of this frame or of a face alone.           *)
ShapeInv ==
  /\ setting \in Settings /\ gallery \subseteq People /\ present \subseteq People
  /\ fed \in Int
  /\ boxes \subseteq Shape /\ \A b \in boxes : b.id \in tracked \/ b.id < 0
  /\ decisions \in [BoxIds -> Answer]
  /\ facesOf \in [Ids -> SUBSET People]

(* The face on a track's box is one of the track's.                         *)
FaceInv == \A b \in boxes : b.id \in Ids /\ b.face \in People => b.face \in facesOf[b.id]

(* A decision is about a track that has been made, and for a face of it.    *)
CacheInv == \A i \in BoxIds : decisions[i] # NoDecision =>
  /\ i \in 1..(nextId - 1)
  /\ setting.recognizer = "mobilefacenet"
  /\ decisions[i].of \in People => decisions[i].of \in gallery \cap facesOf[i]

(* A box is shown for somebody of the gallery, once the recognizer has      *)
(* answered and as long as the decider lets it.                             *)
AllowInv == \A b \in boxes : b.action = "allow" =>
  /\ b.key \in gallery /\ (IF b.id \in Ids THEN b.key \in facesOf[b.id] ELSE b.key = b.face)
  /\ setting.recognizer = "mobilefacenet" /\ stage \notin {"faces", "recognizer"}
  /\ stage \in {"anonymizer", "published"} => setting.decider = "passthrough"

ChainInv == KeptInv /\ ShapeInv /\ FaceInv /\ CacheInv /\ AllowInv

LEMMA IdsAreBoxIds == Ids \subseteq BoxIds /\ Ids \subseteq Int /\ \A i \in Ids : i > 0
BY TrackerAssumption DEF Ids, BoxIds

(* Whom the recognizer takes a box for.                                     *)
LEMMA RecognizedFromTrack ==
  ASSUME ChainInv, setting.recognizer = "mobilefacenet",
         NEW b \in boxes, NEW usable, Recognized(b, usable) \in People
  PROVE  /\ Recognized(b, usable) \in gallery
         /\ IF b.id \in Ids THEN Recognized(b, usable) \in facesOf[b.id]
            ELSE Recognized(b, usable) = b.face
<1>0. /\ KeptInv /\ ShapeInv /\ FaceInv /\ CacheInv /\ {"unknown", "none"} \cap People = {}
      /\ "unknown" \notin People /\ "none" \notin People
  BY ChainAssumption DEF ChainInv
<1>1. b \in Shape /\ b.id \in Int /\ (b.id \in tracked \/ b.id < 0) /\ tracked \subseteq Ids
  BY <1>0, TrackerAssumption DEF ShapeInv, Shape, KeptInv, Kept, Ids
<1>2. CASE Cacheable(b) /\ Fresh(b.id) # NoDecision
  <2>1. b.id \in Ids /\ b.id \in BoxIds
    BY <1>1, <1>2, IdsAreBoxIds DEF Cacheable
  <2>2. Fresh(b.id) = decisions[b.id] /\ decisions[b.id] # NoDecision
    BY <1>2 DEF Fresh
  <2>3. Recognized(b, usable) = decisions[b.id].of
    BY <1>2, <2>2 DEF Recognized
  <2>4. QED
    BY <1>0, <2>1, <2>2, <2>3 DEF CacheInv
<1>3. CASE ~(Cacheable(b) /\ Fresh(b.id) # NoDecision) /\ b \in usable
  <2>1. Recognized(b, usable) = Matched(b)
    BY <1>3 DEF Recognized
  <2>2. b.face \in gallery /\ Matched(b) = b.face
    BY <1>0, <2>1 DEF Matched
  <2>3. b.face \in People
    BY <1>0, <2>2 DEF ShapeInv
  <2>4. QED
    BY <1>0, <2>1, <2>2, <2>3 DEF FaceInv
<1>4. CASE ~(Cacheable(b) /\ Fresh(b.id) # NoDecision) /\ b \notin usable
  BY <1>0, <1>4 DEF Recognized
<1>5. QED
  BY <1>2, <1>3, <1>4

(* The tracker's boxes of a frame: new tracks have no faces and no decision *)
(* yet, and nobody is shown.                                                *)
LEMMA TrackFrameKeeps == ASSUME ChainInv, NEW f \in (fed + 1)..MaxFrame, TrackFrame(f) PROVE ChainInv'
<1>0. KeptInv /\ ShapeInv /\ FaceInv /\ CacheInv /\ AllowInv
  BY DEF ChainInv
<1>1. PICK people \in SUBSET People, continued \in SUBSET Kept, n \in 0..(MaxTracks + 1 - nextId) :
        /\ Update(f, continued, n)
        /\ \E shows \in Injections(continued \cup (nextId..(nextId + n - 1)), people) :
             /\ present' = people
             /\ boxes' = {[id |-> t, shows |-> shows[t], face |-> Nobody, key |-> Nobody,
                           action |-> "anonymize"] : t \in tracked'}
             /\ facesOf' = [t \in Ids |-> IF t \in nextId..(nextId + n - 1) THEN {} ELSE facesOf[t]]
  BY DEF TrackFrame
<1> DEFINE new == nextId..(nextId + n - 1)
<1>2. PICK shows \in Injections(continued \cup new, people) :
        /\ present' = people
        /\ boxes' = {[id |-> t, shows |-> shows[t], face |-> Nobody, key |-> Nobody,
                      action |-> "anonymize"] : t \in tracked'}
        /\ facesOf' = [t \in Ids |-> IF t \in new THEN {} ELSE facesOf[t]]
  BY <1>1
<1>3. UNCHANGED <<setting, gallery, decisions>>
  BY DEF TrackFrame
<1>4. /\ KeptInv' /\ nextId' = nextId + n /\ tracked' \subseteq continued \cup new
      /\ new \subseteq Ids /\ continued \subseteq Ids
  BY <1>0, <1>1, UpdateKeeps
<1>5. shows \in [continued \cup new -> People]
  BY <1>2 DEF Injections
<1>6. ASSUME NEW b \in boxes'
      PROVE  b \in Shape /\ b.id \in tracked' /\ b.face \notin People /\ b.action # "allow"
  <2>1. PICK t \in tracked' : b = [id |-> t, shows |-> shows[t], face |-> Nobody, key |-> Nobody,
                                  action |-> "anonymize"]
    BY <1>2, <1>6
  <2>2. t \in Int /\ shows[t] \in People
    BY <1>4, <1>5, IdsAreBoxIds
  <2>3. QED
    BY <2>1, <2>2, ChainAssumption DEF Shape
<1>7. ShapeInv'
  <2>1. fed' = f /\ f \in Int
    BY <1>0, <1>1, ChainAssumption DEF Update
  <2>2. facesOf' \in [Ids -> SUBSET People]
    BY <1>0, <1>2 DEF ShapeInv
  <2>3. QED
    BY <1>0, <1>2, <1>3, <1>6, <2>1, <2>2 DEF ShapeInv
<1>8. FaceInv' /\ AllowInv'
  BY <1>6 DEF FaceInv, AllowInv
<1>9. CacheInv'
  <2> SUFFICES ASSUME NEW i \in BoxIds, decisions[i] # NoDecision
               PROVE  /\ i \in 1..(nextId' - 1) /\ setting.recognizer = "mobilefacenet"
                      /\ decisions[i].of \in People => decisions[i].of \in gallery \cap facesOf'[i]
    BY <1>3 DEF CacheInv
  <2>1. /\ i \in 1..(nextId - 1) /\ setting.recognizer = "mobilefacenet"
        /\ decisions[i].of \in People => decisions[i].of \in gallery \cap facesOf[i]
    BY <1>0 DEF CacheInv
  <2>2. nextId \in 1..(MaxTracks + 1) /\ MaxTracks \in Nat /\ n \in Nat
    BY <1>0, TrackerAssumption DEF KeptInv
  <2>3. i \in 1..(nextId' - 1) /\ i \notin new /\ i \in Ids
    BY <1>4, <2>1, <2>2 DEF Ids
  <2>4. facesOf'[i] = facesOf[i]
    BY <1>2, <2>3
  <2>5. QED
    BY <2>1, <2>3, <2>4
<1>10. QED
  BY <1>4, <1>7, <1>8, <1>9 DEF ChainInv

(* A face is attached to a track, or becomes a box by itself.               *)
LEMMA AssignFacesKeeps == ASSUME ChainInv, AssignFaces PROVE ChainInv'
<1>0. KeptInv /\ ShapeInv /\ FaceInv /\ CacheInv /\ AllowInv
  BY DEF ChainInv
<1> PICK found \in SUBSET (IF setting.association = "none" THEN {} ELSE present) :
      \E attached \in Attachments(found) :
        LET faceOf(t) == {p \in DOMAIN attached : attached[p] = t}
            withFace == {[b EXCEPT !.face = IF faceOf(b.id) = {} THEN Nobody
                                            ELSE CHOOSE p \in faceOf(b.id) : TRUE] : b \in boxes}
            rest == IF setting.association = "independent" THEN found \ DOMAIN attached ELSE {}
        IN  /\ \E own \in FaceOnlyBoxes(rest) : boxes' = withFace \cup own
            /\ facesOf' = [t \in Ids |-> facesOf[t] \cup faceOf(t)]
  BY DEF AssignFaces
<1>1. PICK attached \in Attachments(found) :
        LET faceOf(t) == {p \in DOMAIN attached : attached[p] = t}
            withFace == {[b EXCEPT !.face = IF faceOf(b.id) = {} THEN Nobody
                                            ELSE CHOOSE p \in faceOf(b.id) : TRUE] : b \in boxes}
            rest == IF setting.association = "independent" THEN found \ DOMAIN attached ELSE {}
        IN  /\ \E own \in FaceOnlyBoxes(rest) : boxes' = withFace \cup own
            /\ facesOf' = [t \in Ids |-> facesOf[t] \cup faceOf(t)]
  OBVIOUS
<1> DEFINE faceOf(t) == {p \in DOMAIN attached : attached[p] = t}
           withFace == {[b EXCEPT !.face = IF faceOf(b.id) = {} THEN Nobody
                                           ELSE CHOOSE p \in faceOf(b.id) : TRUE] : b \in boxes}
           rest == IF setting.association = "independent" THEN found \ DOMAIN attached ELSE {}
<1>2. /\ UNCHANGED <<trackerVars, setting, gallery, decisions, present>> /\ stage = "faces"
      /\ facesOf' = [t \in Ids |-> facesOf[t] \cup faceOf(t)]
  BY <1>1 DEF AssignFaces, Reach
<1>3. UNCHANGED <<fed, nextId, tracked, lost>>
  BY <1>2 DEF trackerVars
<1>4. PICK own \in FaceOnlyBoxes(rest) : boxes' = withFace \cup own
  BY <1>1
<1>5. found \subseteq People /\ DOMAIN attached \subseteq found
  BY <1>0 DEF ShapeInv, Attachments, Injections
<1>6. rest \subseteq People /\ \A t : faceOf(t) \subseteq People
  BY <1>5
<1>7. \A b \in boxes : b.action = "anonymize"
  BY <1>0, <1>2 DEF AllowInv, ShapeInv, Shape
<1>8. ASSUME NEW b \in own
      PROVE  b \in Shape /\ b.id < 0 /\ b.action = "anonymize"
  <2>1. PICK order \in SetToSeqs(rest) :
          own = {[id |-> -i, shows |-> order[i], face |-> order[i], key |-> Nobody,
                  action |-> "anonymize"] : i \in DOMAIN order}
    BY <1>4 DEF FaceOnlyBoxes
  <2>2. order \in [1..Cardinality(rest) -> rest]
    BY DEF SetToSeqs
  <2>3. PICK i \in 1..Cardinality(rest) :
          b = [id |-> -i, shows |-> order[i], face |-> order[i], key |-> Nobody, action |-> "anonymize"]
    BY <1>8, <2>1, <2>2
  <2>4. order[i] \in People
    BY <1>6, <2>2
  <2>5. -i \in Int /\ -i < 0
    BY <2>3
  <2>6. QED
    BY <2>3, <2>4, <2>5 DEF Shape
<1>9. ASSUME NEW b \in withFace
      PROVE  /\ b \in Shape /\ (b.id \in tracked \/ b.id < 0) /\ b.action = "anonymize"
             /\ b.face \in People => b.face \in faceOf(b.id)
  <2>1. PICK c \in boxes : b = [c EXCEPT !.face = IF faceOf(c.id) = {} THEN Nobody
                                                  ELSE CHOOSE p \in faceOf(c.id) : TRUE]
    BY <1>9
  <2>2. c \in Shape /\ (c.id \in tracked \/ c.id < 0) /\ c.action = "anonymize"
    BY <1>0, <1>7 DEF ShapeInv
  <2>3. CASE faceOf(c.id) = {}
    BY <2>1, <2>2, <2>3, ChainAssumption DEF Shape
  <2>4. CASE faceOf(c.id) # {}
    <3>1. PICK p \in faceOf(c.id) : p = CHOOSE x \in faceOf(c.id) : TRUE
      BY <2>4
    <3>2. b = [c EXCEPT !.face = p] /\ p \in People
      BY <1>6, <2>1, <2>4, <3>1
    <3>3. b \in Shape /\ b.id = c.id /\ b.face = p /\ b.action = c.action
      BY <2>2, <3>2 DEF Shape
    <3>4. QED
      BY <2>2, <3>1, <3>3
  <2>5. QED
    BY <2>3, <2>4
<1> HIDE DEF withFace
<1>10. ShapeInv'
  <2>1. facesOf' \in [Ids -> SUBSET People]
    BY <1>0, <1>2, <1>6 DEF ShapeInv
  <2>2. QED
    BY <1>0, <1>2, <1>3, <1>4, <1>8, <1>9, <2>1 DEF ShapeInv
<1>11. FaceInv'
  <2> SUFFICES ASSUME NEW b \in boxes', b.id \in Ids, b.face \in People
               PROVE  b.face \in facesOf'[b.id]
    BY DEF FaceInv
  <2>1. b \in withFace
    BY <1>4, <1>8, IdsAreBoxIds
  <2>2. QED
    BY <1>2, <1>9, <2>1
<1>12. AllowInv'
  BY <1>4, <1>8, <1>9 DEF AllowInv
<1>13. CacheInv'
  <2> SUFFICES ASSUME NEW i \in BoxIds, decisions[i] # NoDecision
               PROVE  /\ i \in 1..(nextId - 1) /\ setting.recognizer = "mobilefacenet"
                      /\ decisions[i].of \in People => decisions[i].of \in gallery \cap facesOf'[i]
    BY <1>2, <1>3 DEF CacheInv
  <2>1. /\ i \in 1..(nextId - 1) /\ setting.recognizer = "mobilefacenet"
        /\ decisions[i].of \in People => decisions[i].of \in gallery \cap facesOf[i]
    BY <1>0 DEF CacheInv
  <2>2. i \in Ids
    BY <1>0, <2>1, TrackerAssumption DEF KeptInv, Ids
  <2>3. QED
    BY <1>2, <2>1, <2>2
<1>14. QED
  BY <1>0, <1>3, <1>10, <1>11, <1>12, <1>13 DEF ChainInv, KeptInv, Kept

(* The recognizer answers for a track from its own faces only, and what it  *)
(* remembers is such an answer.                                             *)
LEMMA RecognizeKeeps == ASSUME ChainInv, Recognize PROVE ChainInv'
<1>0. KeptInv /\ ShapeInv /\ FaceInv /\ CacheInv /\ AllowInv /\ setting.recognizer = "mobilefacenet"
  BY DEF ChainInv, Recognize
<1>1. PICK usable \in SUBSET {b \in boxes : b.face # Nobody} :
        /\ boxes' = {Decided(b, Recognized(b, usable)) : b \in boxes}
        /\ decisions' = [i \in BoxIds |->
             LET mine == {b \in boxes : b.id = i /\ Cacheable(b)}
                 whom == {Recognized(b, usable) : b \in mine} \ {"none"}
             IN  IF whom = {} THEN Fresh(i)
                 ELSE [of |-> CHOOSE x \in whom : TRUE, seen |-> fed]]
  BY DEF Recognize
<1>2. /\ UNCHANGED <<fed, nextId, tracked, lost, setting, gallery, present, facesOf>>
      /\ stage' = "identity"
  BY DEF Recognize, Reach, trackerVars
<1>3. ASSUME NEW b \in boxes
      PROVE  Recognized(b, usable) \in People =>
               /\ Recognized(b, usable) \in gallery
               /\ IF b.id \in Ids THEN Recognized(b, usable) \in facesOf[b.id]
                  ELSE Recognized(b, usable) = b.face
  BY <1>0, RecognizedFromTrack
<1>4. ASSUME NEW b \in boxes
      PROVE  Recognized(b, usable) \in People \cup {"unknown", "none"}
  <2>1. CASE Cacheable(b) /\ Fresh(b.id) # NoDecision
    <3>1. b.id \in BoxIds /\ Fresh(b.id) = decisions[b.id]
      BY <1>0, <2>1, TrackerAssumption, IdsAreBoxIds DEF Cacheable, ShapeInv, Shape, KeptInv, Kept, Ids, Fresh
    <3>2. QED
      BY <1>0, <2>1, <3>1 DEF Recognized, ShapeInv, Answer
  <2>2. CASE ~(Cacheable(b) /\ Fresh(b.id) # NoDecision)
    <3>1. Recognized(b, usable) \in {Matched(b), "none"}
      BY <2>2 DEF Recognized
    <3>2. Matched(b) \in People \cup {"unknown"}
      BY <1>0 DEF Matched, ShapeInv
    <3>3. QED
      BY <3>1, <3>2
  <2>3. QED
    BY <2>1, <2>2
<1>5. ASSUME NEW c \in boxes'
      PROVE  /\ c \in Shape /\ (c.id \in tracked \/ c.id < 0)
             /\ c.id \in Ids /\ c.face \in People => c.face \in facesOf[c.id]
             /\ c.action = "allow" =>
                  c.key \in gallery /\ (IF c.id \in Ids THEN c.key \in facesOf[c.id] ELSE c.key = c.face)
  <2>1. PICK b \in boxes : c = Decided(b, Recognized(b, usable))
    BY <1>1, <1>5
  <2>2. b \in Shape /\ (b.id \in tracked \/ b.id < 0)
        /\ (b.id \in Ids /\ b.face \in People => b.face \in facesOf[b.id])
    BY <1>0 DEF ShapeInv, FaceInv
  <2>3. CASE Recognized(b, usable) \in People
    <3>1. /\ c \in Shape /\ c.id = b.id /\ c.face = b.face /\ c.key = Recognized(b, usable)
      BY <2>1, <2>2, <2>3 DEF Decided, Shape
    <3>2. QED
      BY <1>3, <2>2, <2>3, <3>1
  <2>4. CASE Recognized(b, usable) \notin People
    <3>1. /\ c \in Shape /\ c.id = b.id /\ c.face = b.face /\ c.action = "anonymize"
      BY <2>1, <2>2, <2>4 DEF Decided, Shape
    <3>2. QED
      BY <2>2, <3>1
  <2>5. QED
    BY <2>3, <2>4
<1>6. ASSUME NEW i \in BoxIds
      PROVE  /\ decisions'[i] \in Answer
             /\ decisions'[i] # NoDecision =>
                  /\ i \in 1..(nextId - 1)
                  /\ decisions'[i].of \in People => decisions'[i].of \in gallery \cap facesOf[i]
  <2> DEFINE mine == {b \in boxes : b.id = i /\ Cacheable(b)}
             whom == {Recognized(b, usable) : b \in mine} \ {"none"}
  <2>1. decisions'[i] = IF whom = {} THEN Fresh(i) ELSE [of |-> CHOOSE x \in whom : TRUE, seen |-> fed]
    BY <1>1
  <2>2. CASE whom = {}
    <3>1. Fresh(i) \in {NoDecision, decisions[i]}
      BY DEF Fresh
    <3>2. NoDecision \in Answer /\ decisions[i] \in Answer
      BY <1>0 DEF NoDecision, Answer, ShapeInv
    <3>3. QED
      BY <1>0, <2>1, <2>2, <3>1, <3>2 DEF CacheInv
  <2>3. CASE whom # {}
    <3>1. PICK x \in whom : decisions'[i] = [of |-> x, seen |-> fed]
      BY <2>1, <2>3
    <3>2. PICK b \in boxes : b.id = i /\ Cacheable(b) /\ x = Recognized(b, usable)
      BY <3>1
    <3>3. i \in tracked /\ i \in 1..(nextId - 1) /\ i \in Ids
      BY <1>0, <3>2, TrackerAssumption DEF Cacheable, ShapeInv, Shape, KeptInv, Kept, Ids
    <3>4. decisions'[i] \in Answer
      BY <1>0, <1>4, <3>1, <3>2 DEF Answer, ShapeInv
    <3>5. QED
      BY <1>3, <3>1, <3>2, <3>3, <3>4
  <2>4. QED
    BY <2>2, <2>3
<1>7. decisions' \in [BoxIds -> Answer]
  <2>1. DOMAIN decisions' = BoxIds /\ decisions' = [i \in BoxIds |-> decisions'[i]]
    BY <1>1
  <2>2. QED
    BY <1>6, <2>1
<1>8. QED
  BY <1>0, <1>2, <1>5, <1>6, <1>7 DEF ChainInv, KeptInv, Kept, ShapeInv, FaceInv, CacheInv, AllowInv

(* The decider takes decisions back, and makes none.                        *)
LEMMA DecideKeeps == ASSUME ChainInv, Decide PROVE ChainInv'
<1>0. KeptInv /\ ShapeInv /\ FaceInv /\ CacheInv /\ AllowInv /\ stage = "identity"
  BY DEF ChainInv, Decide, Reach
<1>1. /\ UNCHANGED <<fed, nextId, tracked, lost, setting, gallery, decisions, present, facesOf>>
      /\ stage' = "anonymizer"
  BY DEF Decide, Reach, trackerVars
<1>2. ASSUME NEW c \in boxes'
      PROVE  \E b \in boxes :
               /\ c \in Shape /\ c.id = b.id /\ c.face = b.face
               /\ c.action = "allow" => b.action = "allow" /\ c.key = b.key /\ setting.decider = "passthrough"
  <2>1. \A b \in boxes : b \in Shape
    BY <1>0 DEF ShapeInv
  <2>2. CASE setting.decider = "passthrough" /\ boxes' = {Passed(b) : b \in boxes}
    <3>1. PICK b \in boxes : c = Passed(b)
      BY <1>2, <2>2
    <3>2. QED
      BY <2>1, <2>2, <3>1 DEF Passed, Shape
  <2>3. CASE boxes' = {Reset(b) : b \in boxes}
    <3>1. PICK b \in boxes : c = Reset(b)
      BY <1>2, <2>3
    <3>2. QED
      BY <2>1, <3>1 DEF Reset, Shape
  <2>4. QED
    BY <2>2, <2>3 DEF Decide
<1>3. ShapeInv' /\ FaceInv' /\ AllowInv'
  <2>1. ASSUME NEW c \in boxes'
        PROVE  /\ c \in Shape /\ (c.id \in tracked \/ c.id < 0)
               /\ c.id \in Ids /\ c.face \in People => c.face \in facesOf[c.id]
               /\ c.action = "allow" =>
                    /\ c.key \in gallery
                    /\ IF c.id \in Ids THEN c.key \in facesOf[c.id] ELSE c.key = c.face
                    /\ setting.recognizer = "mobilefacenet" /\ setting.decider = "passthrough"
    BY <1>0, <1>2 DEF ShapeInv, FaceInv, AllowInv
  <2>2. QED
    BY <1>0, <1>1, <2>1 DEF ShapeInv, FaceInv, AllowInv
<1>4. QED
  BY <1>0, <1>1, <1>3 DEF ChainInv, KeptInv, Kept, CacheInv

(* The other steps only move the frame on, or drop it.                      *)
LEMMA OthersKeep == ASSUME ChainInv, Unrecognized \/ Publish \/ Drop PROVE ChainInv'
<1>0. AllowInv
  BY DEF ChainInv
<1>1. UNCHANGED <<fed, nextId, tracked, lost, setting, gallery, decisions, present, boxes, facesOf>>
  BY DEF Unrecognized, Publish, Drop, trackerVars
<1>2. AllowInv'
  <2>1. CASE Unrecognized
    BY <1>0, <1>1, <2>1 DEF Unrecognized, Reach, AllowInv
  <2>2. CASE Publish
    BY <1>0, <1>1, <2>2 DEF Publish, Reach, AllowInv
  <2>3. CASE Drop
    BY <1>0, <1>1, <2>3 DEF Drop, AllowInv
  <2>4. QED
    BY <2>1, <2>2, <2>3
<1>3. QED
  BY <1>1, <1>2 DEF ChainInv, KeptInv, Kept, ShapeInv, FaceInv, CacheInv

LEMMA ChainInvHolds == ChainSpec => []ChainInv
<1>1. ChainInit => ChainInv
  <2> SUFFICES ASSUME ChainInit PROVE ChainInv
    OBVIOUS
  <2>1. /\ fed = -1 /\ nextId = 1 /\ tracked = {} /\ lost = {}
        /\ setting \in Settings /\ gallery \in SUBSET People
        /\ decisions = [i \in BoxIds |-> NoDecision]
        /\ present = {} /\ boxes = {} /\ facesOf = [t \in Ids |-> {}]
    BY DEF ChainInit, TrackerInit
  <2>2. KeptInv
    BY <2>1, TrackerAssumption DEF KeptInv, Kept
  <2>3. NoDecision \in Answer
    BY DEF NoDecision, Answer
  <2>4. ShapeInv
    BY <2>1, <2>3 DEF ShapeInv
  <2>5. FaceInv /\ CacheInv /\ AllowInv
    BY <2>1 DEF FaceInv, CacheInv, AllowInv
  <2>6. QED
    BY <2>2, <2>4, <2>5 DEF ChainInv
<1>2. ChainInv /\ [ChainNext]_chainVars => ChainInv'
  <2> SUFFICES ASSUME ChainInv, [ChainNext]_chainVars PROVE ChainInv'
    OBVIOUS
  <2>1. CASE UNCHANGED chainVars
    BY <2>1 DEF chainVars, chain, trackerVars, ChainInv, KeptInv, Kept, ShapeInv, FaceInv, CacheInv,
                AllowInv
  <2>2. QED
    BY <2>1, TrackFrameKeeps, AssignFacesKeeps, RecognizeKeeps, DecideKeeps, OthersKeep DEF ChainNext
<1>3. QED
  BY <1>1, <1>2, PTL DEF ChainSpec

(* A box is shown as somebody's only for a face that was attached to that   *)
(* very track, however tracks are lost, found and merged, and however long  *)
(* the recognizer remembers its decisions.                                  *)
THEOREM DecisionsStayWithTracks == ChainSpec => []DecisionsFollowTracks
<1>1. ChainInv => DecisionsFollowTracks
  BY DEF ChainInv, AllowInv, DecisionsFollowTracks
<1>2. QED
  BY <1>1, ChainInvHolds, PTL

(* Somebody outside the gallery is seen in a published frame only if no box *)
(* shows him, if his box has a decision made for a face of the gallery, or  *)
(* if only faces are hidden and the face on his box is another's.           *)
THEOREM ExposureExplained == ChainSpec => []ExposureHasCause
<1>1. ChainInv => ExposureHasCause
  <2> SUFFICES ASSUME ChainInv, NEW p \in Exposed \ gallery, NEW b \in BoxesOf(p)
               PROVE  \/ b.action = "allow" /\ b.key \in gallery
                           /\ setting.decider = "passthrough" /\ setting.recognizer = "mobilefacenet"
                      \/ setting.faceOnly /\ b.face \notin {p, Nobody}
    BY DEF ExposureHasCause
  <2>1. stage = "published" /\ p \notin Hidden /\ b \in boxes /\ b.shows = p
    BY DEF Exposed, BoxesOf
  <2>2. p \notin Region(b)
    BY <2>1 DEF Hidden
  <2>3. CASE b.action = "allow"
    BY <2>1, <2>3 DEF ChainInv, AllowInv
  <2>4. CASE b.action # "allow"
    <3>1. b.action = "anonymize"
      BY <2>1, <2>4 DEF ChainInv, ShapeInv, Shape
    <3>2. setting.faceOnly /\ b.face # Nobody /\ p # b.face
      BY <2>1, <2>2, <3>1 DEF Region
    <3>3. QED
      BY <3>2
  <2>5. QED
    BY <2>3, <2>4
<1>2. QED
  BY <1>1, ChainInvHolds, PTL
=============================================================================
