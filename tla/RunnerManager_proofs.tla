------------------------ MODULE RunnerManager_proofs ------------------------
(***************************************************************************)
(* Proofs about RunnerManager for any configurations, watchers, capacity,  *)
(* streams, sessions and runs: what the watchers are told, which           *)
(* configuration a failed reload leaves, and that sessions end with their  *)
(* pipeline; and about what Configuration makes of a document.             *)
(*                                                                         *)
(* What a push does to a queue is proved by induction over the queue, from *)
(* the least place where it would fail.                                    *)
(***************************************************************************)
EXTENDS RunnerManager, Configuration, FiniteSetTheorems, SequenceTheorems,
        WellFoundedInduction, TLAPS

(* Induction up to n over the members of a set: among the numbers outside   *)
(* it one has fewest others below it.                                       *)
LEMMA Induction ==
  ASSUME NEW n \in Nat, NEW S, 0 \in S, \A i \in 1..n : i - 1 \in S => i \in S
  PROVE  \A i \in 0..n : i \in S
<1> SUFFICES ASSUME NEW k \in (0..n) \ S PROVE FALSE
  OBVIOUS
<1> DEFINE T == (0..n) \ S
           Below(i) == {j \in T : j <= i}
           All == {Below(i) : i \in T}
<1>1. IsWellFoundedOn(StrictSubsetOrdering(T), SUBSET T)
  <2>1. IsFiniteSet(T)
    BY FS_Interval, FS_Subset, 0 \in Int, n \in Int
  <2>2. QED
    BY <2>1, FS_FiniteSubsetsOfFinite, FS_StrictSubsetOrderingWellFounded
<1>2. PICK U \in All : \A V \in All : ~(<<V, U>> \in StrictSubsetOrdering(T))
  <2>1. All \subseteq SUBSET T /\ Below(k) \in All
    OBVIOUS
  <2>2. All # {}
    BY <2>1
  <2> HIDE DEF All, T
  <2>3. QED
    BY <1>1, <2>1, <2>2, WFMin
<1>3. PICK m \in T : U = Below(m)
  BY <1>2
<1>4. m \in 1..n /\ m - 1 \in T
  OBVIOUS
<1>5. Below(m - 1) \subseteq Below(m) /\ m \in Below(m) /\ m \notin Below(m - 1)
  BY <1>4
<1>6. <<Below(m - 1), U>> \in StrictSubsetOrdering(T)
  BY <1>3, <1>5 DEF StrictSubsetOrdering
<1>7. QED
  BY <1>2, <1>4, <1>6

(* The function of WithoutMetrics does what its equation says.              *)
LEMMA WithoutMetricsEquation ==
  ASSUME NEW q, Len(q) \in Nat
  PROVE  \E f :
           /\ Hub!WithoutMetrics(q) = f[Len(q)]
           /\ f[0] = <<>>
           /\ \A i \in 1..Len(q) :
                f[i] = IF Hub!NotMetrics(q[i]) THEN Append(f[i - 1], q[i]) ELSE f[i - 1]
<1> DEFINE n == Len(q)
           Body(f, i) == IF i = 0 THEN <<>>
                         ELSE IF Hub!NotMetrics(q[i]) THEN Append(f[i - 1], q[i]) ELSE f[i - 1]
           Solves(f, m) == f = [i \in 0..m |-> Body(f, i)]
           S == {m \in 0..n : \E f : Solves(f, m)}
<1>1. 0 \in S
  <2> DEFINE f == [i \in 0..0 |-> <<>>]
  <2>1. Solves(f, 0)
    OBVIOUS
  <2> HIDE DEF Solves, f
  <2>2. QED
    BY <2>1
<1>2. ASSUME NEW m \in 1..n, m - 1 \in S PROVE m \in S
  <2>1. PICK f : Solves(f, m - 1)
    BY <1>2
  <2> DEFINE g == [i \in 0..m |-> IF i = m THEN Body(f, m) ELSE f[i]]
  <2>2. ASSUME NEW i \in 0..m PROVE g[i] = Body(g, i)
    <3>1. CASE i = m
      <4>1. g[m] = Body(f, m) /\ g[m - 1] = f[m - 1]
        OBVIOUS
      <4>2. QED
        BY <3>1, <4>1
    <3>2. CASE i # m
      <4>1. i \in 0..(m - 1) /\ g[i] = f[i]
        BY <3>2
      <4>2. f[i] = Body(f, i)
        BY <2>1, <4>1
      <4>3. i # 0 => i - 1 \in 0..m /\ i - 1 # m /\ g[i - 1] = f[i - 1]
        BY <4>1
      <4>4. QED
        BY <4>1, <4>2, <4>3
    <3>3. QED
      BY <3>1, <3>2
  <2>3. Solves(g, m)
    BY <2>2
  <2> HIDE DEF Solves, g
  <2>4. QED
    BY <2>3
<1>3. n \in S
  <2>1. n \in Nat /\ n \in 0..n
    OBVIOUS
  <2> HIDE DEF S, n
  <2>2. QED
    BY <1>1, <1>2, <2>1, Induction
<1>4. PICK h : Solves(h, n)
  BY <1>3
<1> DEFINE f == CHOOSE f : Solves(f, n)
<1>5. Solves(f, n)
  BY <1>4
<1>6. Hub!WithoutMetrics(q) = f[n]
  BY DEF Hub!WithoutMetrics
<1>7. \A i \in 0..n : f[i] = Body(f, i)
  <2> HIDE DEF f
  <2>1. QED
    BY <1>5
<1>8. f[0] = <<>> /\ \A i \in 1..n :
        f[i] = IF Hub!NotMetrics(q[i]) THEN Append(f[i - 1], q[i]) ELSE f[i - 1]
  <2> HIDE DEF f
  <2>1. QED
    BY <1>7
<1>9. QED
  <2> HIDE DEF f
  <2>1. QED
    BY <1>6, <1>8

(* r is what is left of the first n of q when some are taken out: in the    *)
(* order they had, and its newest status is the newest there was.           *)
IsStatus(e) == e.kind \in {"running", "stopped"}
Newest(q, n, i) == IsStatus(q[i]) /\ \A j \in (i + 1)..n : ~IsStatus(q[j])

LeftOf(r, q, n) ==
  /\ \A k \in 1..Len(r) : \E i \in 1..n :
       r[k] = q[i] /\ (Newest(r, Len(r), k) => Newest(q, n, i))
  /\ \A k, l \in 1..Len(r) : k < l =>
       \E i, j \in 1..n : i < j /\ r[k] = q[i] /\ r[l] = q[j]

LEMMA WithoutMetricsLeaves ==
  ASSUME NEW E, NEW q \in Seq(E)
  PROVE  Hub!WithoutMetrics(q) \in Seq(E) /\ LeftOf(Hub!WithoutMetrics(q), q, Len(q))
<1> DEFINE n == Len(q)
<1>0. n \in Nat /\ \A i \in 1..n : q[i] \in E
  OBVIOUS
<1>1. PICK f : /\ Hub!WithoutMetrics(q) = f[n]
               /\ f[0] = <<>>
               /\ \A i \in 1..n :
                    f[i] = IF Hub!NotMetrics(q[i]) THEN Append(f[i - 1], q[i]) ELSE f[i - 1]
  BY <1>0, WithoutMetricsEquation
<1> DEFINE S == {i \in 0..n : f[i] \in Seq(E) /\ LeftOf(f[i], q, i)}
<1>2. 0 \in S
  <2>1. LeftOf(<<>>, q, 0)
    BY DEF LeftOf
  <2>2. 0 \in 0..n /\ <<>> \in Seq(E)
    BY <1>0
  <2>3. QED
    BY <1>1, <2>1, <2>2
<1>3. ASSUME NEW m \in 1..n, m - 1 \in S PROVE m \in S
  <2> DEFINE r == f[m - 1]
  <2>1. r \in Seq(E) /\ LeftOf(r, q, m - 1) /\ m \in Nat /\ m - 1 \in Nat
    BY <1>3
  <2>2. CASE ~Hub!NotMetrics(q[m])
    <3>1. f[m] = r /\ ~IsStatus(q[m])
      BY <1>1, <2>2 DEF Hub!NotMetrics, IsStatus
    <3>2. ASSUME NEW i \in 1..(m - 1), Newest(q, m - 1, i) PROVE Newest(q, m, i)
      BY <3>1, <3>2 DEF Newest
    <3>3. LeftOf(r, q, m)
      <4>1. 1..(m - 1) \subseteq 1..m
        BY <2>1
      <4>2. ASSUME NEW k \in 1..Len(r)
            PROVE  \E i \in 1..m : r[k] = q[i] /\ (Newest(r, Len(r), k) => Newest(q, m, i))
        <5>1. PICK i \in 1..(m - 1) :
                r[k] = q[i] /\ (Newest(r, Len(r), k) => Newest(q, m - 1, i))
          BY <2>1 DEF LeftOf
        <5>2. QED
          BY <3>2, <4>1, <5>1
      <4>3. ASSUME NEW k \in 1..Len(r), NEW l \in 1..Len(r), k < l
            PROVE  \E i, j \in 1..m : i < j /\ r[k] = q[i] /\ r[l] = q[j]
        <5>1. \E i, j \in 1..(m - 1) : i < j /\ r[k] = q[i] /\ r[l] = q[j]
          BY <2>1, <4>3 DEF LeftOf
        <5>2. QED
          BY <4>1, <5>1
      <4>4. QED
        BY <4>2, <4>3 DEF LeftOf
    <3>4. QED
      BY <2>1, <3>1, <3>3
  <2>3. CASE Hub!NotMetrics(q[m])
    <3> DEFINE s == Append(r, q[m])
    <3>1. /\ f[m] = s /\ s \in Seq(E) /\ Len(s) = Len(r) + 1 /\ Len(r) \in Nat
          /\ s[Len(s)] = q[m] /\ \A k \in 1..Len(r) : s[k] = r[k]
      <4>1. f[m] = s /\ q[m] \in E
        BY <1>0, <1>1, <2>3
      <4>2. QED
        BY <2>1, <4>1, AppendProperties
    <3> HIDE DEF s, r
    <3>2. ASSUME NEW k \in 1..Len(s)
          PROVE  \E i \in 1..m : s[k] = q[i] /\ (Newest(s, Len(s), k) => Newest(q, m, i))
      <4>1. CASE k = Len(s)
        <5>1. Newest(s, Len(s), k) => Newest(q, m, m)
          BY <2>1, <3>1, <4>1 DEF Newest
        <5>2. QED
          BY <2>1, <3>1, <4>1, <5>1
      <4>2. CASE k # Len(s)
        <5>1. k \in 1..Len(r) /\ s[k] = r[k]
          BY <3>1, <4>2
        <5>2. PICK i \in 1..(m - 1) :
                r[k] = q[i] /\ (Newest(r, Len(r), k) => Newest(q, m - 1, i))
          BY <2>1, <5>1 DEF LeftOf
        <5>3. ASSUME Newest(s, Len(s), k) PROVE Newest(q, m, i)
          <6>1. IsStatus(s[k]) /\ \A j \in (k + 1)..Len(s) : ~IsStatus(s[j])
            BY <5>3 DEF Newest
          <6>2. ~IsStatus(q[m])
            BY <3>1, <5>1, <6>1
          <6>3. \A j \in (k + 1)..Len(r) : j \in (k + 1)..Len(s) /\ s[j] = r[j]
            BY <3>1, <5>1
          <6>4. Newest(r, Len(r), k)
            BY <5>1, <6>1, <6>3 DEF Newest
          <6>5. QED
            BY <2>1, <5>2, <6>2, <6>4 DEF Newest
        <5>4. QED
          BY <2>1, <5>1, <5>2, <5>3
      <4>3. QED
        BY <4>1, <4>2
    <3>3. ASSUME NEW k \in 1..Len(s), NEW l \in 1..Len(s), k < l
          PROVE  \E i, j \in 1..m : i < j /\ s[k] = q[i] /\ s[l] = q[j]
      <4>1. k \in 1..Len(r) /\ s[k] = r[k]
        BY <3>1, <3>3
      <4>2. CASE l = Len(s)
        <5>1. PICK i \in 1..(m - 1) : r[k] = q[i]
          BY <2>1, <4>1 DEF LeftOf
        <5>2. i \in 1..m /\ m \in 1..m /\ i < m
          BY <2>1
        <5>3. QED
          BY <3>1, <4>1, <4>2, <5>1, <5>2
      <4>3. CASE l # Len(s)
        <5>1. l \in 1..Len(r) /\ s[l] = r[l]
          BY <3>1, <4>3
        <5>2. PICK i \in 1..(m - 1), j \in 1..(m - 1) : i < j /\ r[k] = q[i] /\ r[l] = q[j]
          BY <2>1, <3>3, <4>1, <5>1 DEF LeftOf
        <5>3. i \in 1..m /\ j \in 1..m
          BY <2>1
        <5>4. QED
          BY <4>1, <5>1, <5>2, <5>3
      <4>4. QED
        BY <4>2, <4>3
    <3>4. LeftOf(s, q, m)
      BY <3>2, <3>3 DEF LeftOf
    <3>5. QED
      BY <3>1, <3>4
  <2>4. QED
    BY <2>2, <2>3
<1>4. n \in S
  <2>1. n \in Nat /\ n \in 0..n
    OBVIOUS
  <2> HIDE DEF S, n
  <2>2. QED
    BY <1>2, <1>3, <2>1, Induction
<1>5. QED
  BY <1>1, <1>4

(* A push leaves the event at the end, and before it what is left of the    *)
(* queue.                                                                   *)
LEMMA PushLeaves ==
  ASSUME NEW E, NEW q \in Seq(E), NEW e \in E
  PROVE  \E r \in Seq(E) : Hub!Push(q, e) = Append(r, e) /\ LeftOf(r, q, Len(q))
<1> DEFINE kept == IF e.kind = "metrics" THEN Hub!WithoutMetrics(q) ELSE q
<1>1. kept \in Seq(E) /\ LeftOf(kept, q, Len(q))
  <2>1. LeftOf(q, q, Len(q))
    BY DEF LeftOf
  <2>2. QED
    BY <2>1, WithoutMetricsLeaves
<1>2. Hub!Push(q, e) = Append(IF Len(kept) >= SubscriberCapacity THEN Tail(kept) ELSE kept, e)
  BY DEF Hub!Push
<1>3. CASE ~(Len(kept) >= SubscriberCapacity)
  <2> HIDE DEF kept
  <2>1. QED
    BY <1>1, <1>2, <1>3
<1>4. CASE Len(kept) >= SubscriberCapacity
  <2> HIDE DEF kept
  <2> DEFINE r == Tail(kept)
  <2>1. kept # <<>> /\ Len(kept) \in Nat \ {0}
    BY <1>1, <1>4, ManagerAssumption
  <2>2. r \in Seq(E) /\ Len(r) = Len(kept) - 1 /\ \A k \in 1..Len(r) : r[k] = kept[k + 1]
    BY <1>1, <2>1
  <2> HIDE DEF r
  <2>3. ASSUME NEW k \in 1..Len(r) 
        PROVE  /\ k + 1 \in 1..Len(kept)
               /\ Newest(r, Len(r), k) => Newest(kept, Len(kept), k + 1)
    <3>1. \A j \in (k + 2)..Len(kept) : j - 1 \in (k + 1)..Len(r) /\ r[j - 1] = kept[j]
      BY <2>1, <2>2
    <3>2. (k + 1) + 1 = k + 2 /\ k + 1 \in 1..Len(kept) /\ r[k] = kept[k + 1]
      BY <2>1, <2>2
    <3>3. QED
      BY <3>1, <3>2 DEF Newest
  <2>4. LeftOf(r, q, Len(q))
    <3>1. ASSUME NEW k \in 1..Len(r) 
          PROVE  \E i \in 1..Len(q) :
                    r[k] = q[i] /\ (Newest(r, Len(r), k) => Newest(q, Len(q), i))
      <4>1. PICK i \in 1..Len(q) :
              /\ kept[k + 1] = q[i]
              /\ Newest(kept, Len(kept), k + 1) => Newest(q, Len(q), i)
        BY <1>1, <2>3 DEF LeftOf
      <4>2. QED
        BY <2>2, <2>3, <4>1
    <3>2. ASSUME NEW k \in 1..Len(r), NEW l \in 1..Len(r), k < l 
          PROVE  \E i, j \in 1..Len(q) : i < j /\ r[k] = q[i] /\ r[l] = q[j]
      <4>1. k + 1 < l + 1 /\ k + 1 \in 1..Len(kept) /\ l + 1 \in 1..Len(kept)
        BY <2>3, <3>2
      <4>2. \E i, j \in 1..Len(q) : i < j /\ kept[k + 1] = q[i] /\ kept[l + 1] = q[j]
        BY <1>1, <4>1 DEF LeftOf
      <4>3. QED
        BY <2>2, <4>2
    <3>3. QED
      BY <3>1, <3>2 DEF LeftOf
  <2>5. QED
    BY <1>2, <1>4, <2>2, <2>4 DEF r
<1>5. QED
  BY <1>3, <1>4

-----------------------------------------------------------------------------
(* Queues.                                                                  *)

Events == [kind : Kinds, run : Nat]

Ordered(q) == \A i, j \in 1..Len(q) : i < j /\ q[i].kind = "stopped" => q[j].run > q[i].run
After(e, q) == \A i \in 1..Len(q) : q[i].kind = "stopped" => e.run > q[i].run
Among(p, q, e) == \A k \in 1..Len(p) : p[k] = e \/ \E i \in 1..Len(q) : p[k] = q[i]
Tells(q, e) == \A i \in 1..Len(q) : Newest(q, Len(q), i) => q[i] = e

LEMMA PushKeeps ==
  ASSUME NEW q \in Seq(Events), NEW e \in Events, NEW p, p = Hub!Push(q, e)
  PROVE  /\ p \in Seq(Events)
         /\ Among(p, q, e)
         /\ Ordered(q) /\ After(e, q) => Ordered(p)
         /\ IsStatus(e) => Tells(p, e)
         /\ \A c : ~IsStatus(e) /\ Tells(q, c) => Tells(p, c)
<1>1. PICK r \in Seq(Events) : p = Append(r, e) /\ LeftOf(r, q, Len(q))
  BY PushLeaves
<1>2. /\ p \in Seq(Events) /\ Len(p) = Len(r) + 1 /\ Len(r) \in Nat
      /\ p[Len(p)] = e /\ \A k \in 1..Len(r) : p[k] = r[k]
  BY <1>1, AppendProperties
<1>3. \A k \in 1..Len(p) : k = Len(p) \/ k \in 1..Len(r)
  BY <1>2
<1>4. Among(p, q, e)
  BY <1>1, <1>2, <1>3 DEF LeftOf, Among
<1>5. ASSUME Ordered(q), After(e, q) PROVE Ordered(p)
  <2> SUFFICES ASSUME NEW k \in 1..Len(p), NEW l \in 1..Len(p), k < l, p[k].kind = "stopped"
               PROVE  p[l].run > p[k].run
    BY DEF Ordered
  <2>1. k \in 1..Len(r) /\ p[k] = r[k]
    BY <1>2
  <2>2. CASE l = Len(p)
    <3>1. PICK i \in 1..Len(q) : r[k] = q[i]
      BY <1>1, <2>1 DEF LeftOf
    <3>2. QED
      BY <1>2, <1>5, <2>1, <2>2, <3>1 DEF After
  <2>3. CASE l # Len(p)
    <3>1. l \in 1..Len(r) /\ p[l] = r[l]
      BY <1>2, <2>3
    <3>2. PICK i, j \in 1..Len(q) : i < j /\ r[k] = q[i] /\ r[l] = q[j]
      BY <1>1, <2>1, <3>1 DEF LeftOf
    <3>3. QED
      BY <1>5, <2>1, <3>1, <3>2 DEF Ordered
  <2>4. QED
    BY <2>2, <2>3
<1>6. ASSUME IsStatus(e) PROVE Tells(p, e)
  <2> SUFFICES ASSUME NEW k \in 1..Len(p), Newest(p, Len(p), k) PROVE k = Len(p)
    BY <1>2 DEF Tells
  <2>1. Len(p) \in (k + 1)..Len(p) => ~IsStatus(p[Len(p)])
    BY DEF Newest
  <2>2. QED
    BY <1>2, <1>6, <2>1
<1>7. ASSUME NEW c, ~IsStatus(e), Tells(q, c) PROVE Tells(p, c)
  <2> SUFFICES ASSUME NEW k \in 1..Len(p), Newest(p, Len(p), k) PROVE p[k] = c
    BY DEF Tells
  <2>1. IsStatus(p[k]) /\ \A j \in (k + 1)..Len(p) : ~IsStatus(p[j])
    BY DEF Newest
  <2>2. k \in 1..Len(r) /\ p[k] = r[k]
    BY <1>2, <1>7, <2>1
  <2>3. \A j \in (k + 1)..Len(r) : j \in (k + 1)..Len(p) /\ p[j] = r[j]
    BY <1>2, <2>2
  <2>4. Newest(r, Len(r), k)
    BY <2>1, <2>2, <2>3 DEF Newest
  <2>5. PICK i \in 1..Len(q) : r[k] = q[i] /\ Newest(q, Len(q), i)
    BY <1>1, <2>2, <2>4 DEF LeftOf
  <2>6. QED
    BY <1>7, <2>2, <2>5 DEF Tells
<1>8. QED
  BY <1>2, <1>4, <1>5, <1>6, <1>7

LEMMA TailKeeps ==
  ASSUME NEW q \in Seq(Events), q # <<>>, NEW p, p = Tail(q)
  PROVE  /\ p \in Seq(Events)
         /\ \A k \in 1..Len(p) : \E i \in 1..Len(q) : p[k] = q[i]
         /\ Ordered(q) => Ordered(p)
         /\ \A c : Tells(q, c) => Tells(p, c)
<1>1. /\ p \in Seq(Events) /\ Len(q) \in Nat \ {0} /\ Len(p) = Len(q) - 1
      /\ \A k \in 1..Len(p) : k + 1 \in 1..Len(q) /\ p[k] = q[k + 1]
  OBVIOUS
<1>2. ASSUME NEW k \in 1..Len(p), Newest(p, Len(p), k) PROVE Newest(q, Len(q), k + 1)
  <2>1. \A j \in (k + 2)..Len(q) : j - 1 \in (k + 1)..Len(p) /\ p[j - 1] = q[j]
    BY <1>1
  <2>2. (k + 1) + 1 = k + 2 /\ p[k] = q[k + 1]
    BY <1>1
  <2>3. QED
    BY <1>2, <2>1, <2>2 DEF Newest
<1>3. ASSUME Ordered(q) PROVE Ordered(p)
  <2> SUFFICES ASSUME NEW k \in 1..Len(p), NEW l \in 1..Len(p), k < l, p[k].kind = "stopped"
               PROVE  p[l].run > p[k].run
    BY DEF Ordered
  <2>1. k + 1 \in 1..Len(q) /\ l + 1 \in 1..Len(q) /\ k + 1 < l + 1
    BY <1>1
  <2>2. QED
    BY <1>1, <1>3, <2>1 DEF Ordered
<1>4. ASSUME NEW c, Tells(q, c) PROVE Tells(p, c)
  BY <1>1, <1>2, <1>4 DEF Tells
<1>5. QED
  BY <1>1, <1>3, <1>4

-----------------------------------------------------------------------------
(* The commands.                                                            *)

Publishers == {"manager", "coordinator", "metrics"}
Steps == {"idle", "start", "starting", "stop", "stopping", "clear", "announce", "done",
          "terminated"}

TypeInv ==
  /\ runtime \in {"none", "starting", "running", "stopping"} /\ run \in Nat
  /\ step \in Steps
  /\ subscription \in [Watchers -> {"new", "open", "leaving", "closed"}]
  /\ queue \in [Watchers -> Seq(Events)]
  /\ pending \in [Publishers -> SUBSET (Watchers \X Events)]

(* Where a command is says what the pipeline is and, between the steps that *)
(* change it, whether the status tells it.                                  *)
RuntimeInv ==
  /\ step \in {"start", "clear", "announce"} => runtime = "none"
  /\ step = "starting" => runtime = "starting"
  /\ step = "stopping" => runtime = "stopping"
  /\ step \in {"idle", "stop", "done"} =>
       runtime \in {"none", "running"} /\ (state = "running" <=> runtime = "running")
  /\ step \in {"stop", "stopping", "clear", "announce"} => command \in {"stop", "reload"}
  /\ step = "done" /\ command \in {"stop", "reload"} => runtime = "none"
  /\ step \in {"start", "starting"} => command \in {"start", "restart", "rollback"}

LEMMA TypeInvInductive == TypeInv /\ [Next]_vars => TypeInv'
<1> SUFFICES ASSUME TypeInv, [Next]_vars PROVE TypeInv'
  OBVIOUS
<1> USE DEF TypeInv, Steps
<1>1. \A k \in Kinds : Event(k) \in Events
  BY DEF Event, Events
<1>2. ASSUME NEW p \in Publishers, NEW k \in Kinds, Hub!Publish(p, Event(k))
      PROVE  /\ pending' \in [Publishers -> SUBSET (Watchers \X Events)]
             /\ UNCHANGED <<subscription, queue>>
  <2>1. {w \in Watchers : subscription[w] = "open"} \X {Event(k)} \subseteq Watchers \X Events
    BY <1>1
  <2>2. QED
    BY <1>2, <2>1 DEF Hub!Publish
<1>3. CASE UNCHANGED vars
  BY <1>3 DEF vars, configs, engine, hub, publisher
<1>4. CASE Command
  <2> USE DEF configs, engine, hub, publisher, Go
  <2>1. CASE StartSucceeds \/ StartFails \/ Announce
    <3>1. \E k \in Kinds : Hub!Publish("manager", Event(k))
      BY <2>1 DEF StartSucceeds, StartFails, AnnounceFailure, Announce, Kinds
    <3>2. pending' \in [Publishers -> SUBSET (Watchers \X Events)] /\ UNCHANGED <<subscription, queue>>
      BY <1>2, <3>1 DEF Publishers
    <3>3. QED
      BY <2>1, <3>2 DEF StartSucceeds, StartFails, Announce
  <2>2. CASE CallStart \/ CallStop \/ \E c \in Configs : CallReload(c)
    BY <2>2 DEF CallStart, CallStop, CallReload, Call
  <2>3. CASE BeginStart \/ StartTerminates \/ NothingToStop \/ BeginStop \/ RuntimeStopped \/ Clear
    BY <2>3 DEF BeginStart, StartTerminates, NothingToStop, BeginStop, RuntimeStopped, Clear
  <2>4. CASE Restart \/ Rollback \/ EndCommand
    BY <2>4 DEF Restart, Rollback, EndCommand, StartWith
  <2>5. QED
    BY <1>4, <2>1, <2>2, <2>3, <2>4 DEF Command
<1>5. CASE Telemetry
  <2> USE DEF configs, engine, hub, publisher
  <2>1. UNCHANGED <<runtime, run, step>>
    BY <1>5 DEF Telemetry
  <2>2. CASE \E p \in {"coordinator", "metrics"}, k \in {"frame", "metrics"} : Hub!Publish(p, Event(k))
    BY <1>2, <2>1, <2>2 DEF Publishers, Kinds
  <2>3. ASSUME NEW p \in Publishers, Hub!Deliver(p) PROVE TypeInv'
    <3>1. PICK d \in pending[p] :
            /\ pending' = [pending EXCEPT ![p] = @ \ {d}]
            /\ queue' = IF subscription[d[1]] = "closed" THEN queue
                        ELSE [queue EXCEPT ![d[1]] = Hub!Push(@, d[2])]
            /\ UNCHANGED subscription
      BY <2>3 DEF Hub!Deliver
    <3>2. d[1] \in Watchers /\ d[2] \in Events
      BY <3>1
    <3>3. queue[d[1]] \in Seq(Events)
      BY <3>2
    <3>4. Hub!Push(queue[d[1]], d[2]) \in Seq(Events)
      BY <3>2, <3>3, PushKeeps
    <3>5. queue' \in [Watchers -> Seq(Events)]
      BY <3>1, <3>4
    <3>6. pending' \in [Publishers -> SUBSET (Watchers \X Events)]
      BY <3>1
    <3>7. QED
      BY <2>1, <3>1, <3>5, <3>6
  <2>4. ASSUME NEW w \in Watchers, Hub!Watch(w) PROVE TypeInv'
    <3>1. <<>> \in Seq(Events) /\ (queue[w] # <<>> => Tail(queue[w]) \in Seq(Events))
      OBVIOUS
    <3>2. QED
      BY <2>1, <2>4, <3>1
         DEF Hub!Watch, Hub!Subscribe, Hub!Pop, Hub!Leave, Hub!Close
  <2>5. QED
    BY <1>5, <2>2, <2>3, <2>4 DEF Telemetry, Publishers
<1>6. CASE WebRTCThreads
  BY <1>6 DEF WebRTCThreads, configs, engine, hub
<1>7. QED
  BY <1>3, <1>4, <1>5, <1>6 DEF Next

LEMMA RuntimeInvInductive == RuntimeInv /\ [Next]_vars => RuntimeInv'
<1> SUFFICES ASSUME RuntimeInv, [Next]_vars PROVE RuntimeInv'
  OBVIOUS
<1> USE DEF RuntimeInv
<1>1. CASE UNCHANGED vars
  BY <1>1 DEF vars, configs, engine, hub, publisher
<1>2. CASE Command
  <2> USE DEF configs, engine, hub, publisher, Go
  <2>1. CASE StartSucceeds \/ StartFails \/ Announce
    BY <2>1 DEF StartSucceeds, StartFails, Announce
  <2>2. CASE CallStart \/ CallStop \/ \E c \in Configs : CallReload(c)
    BY <2>2 DEF CallStart, CallStop, CallReload, Call
  <2>3. CASE BeginStart \/ StartTerminates \/ NothingToStop \/ BeginStop \/ RuntimeStopped \/ Clear
    BY <2>3 DEF BeginStart, StartTerminates, NothingToStop, BeginStop, RuntimeStopped, Clear
  <2>4. CASE Restart \/ Rollback \/ EndCommand
    BY <2>4 DEF Restart, Rollback, EndCommand, StartWith, Done
  <2>5. QED
    BY <1>2, <2>1, <2>2, <2>3, <2>4 DEF Command
<1>3. CASE Telemetry \/ WebRTCThreads
  BY <1>3 DEF Telemetry, WebRTCThreads, configs, engine
<1>4. QED
  BY <1>1, <1>2, <1>3 DEF Next

(* A command that may still fail keeps what its rollback needs.             *)
ConfigInv ==
  /\ step = "idle" \/ command # "restart" => config = accepted
  /\ step # "idle" /\ command \in {"reload", "restart"} => previous = accepted

LEMMA ConfigInvInductive == ConfigInv /\ [Next]_vars => ConfigInv'
<1> SUFFICES ASSUME ConfigInv, [Next]_vars PROVE ConfigInv'
  OBVIOUS
<1> USE DEF ConfigInv
<1>1. CASE UNCHANGED vars
  BY <1>1 DEF vars, configs, engine, hub, publisher
<1>2. CASE Command
  <2> USE DEF configs, engine, hub, publisher, Go
  <2>1. CASE StartSucceeds \/ StartFails \/ Announce
    BY <2>1 DEF StartSucceeds, StartFails, Announce
  <2>2. CASE CallStart \/ CallStop \/ \E c \in Configs : CallReload(c)
    BY <2>2 DEF CallStart, CallStop, CallReload, Call
  <2>3. CASE BeginStart \/ StartTerminates \/ NothingToStop \/ BeginStop \/ RuntimeStopped \/ Clear
    BY <2>3 DEF BeginStart, StartTerminates, NothingToStop, BeginStop, RuntimeStopped, Clear
  <2>4. CASE Restart \/ Rollback \/ EndCommand
    BY <2>4 DEF Restart, Rollback, EndCommand, StartWith, Done, Restored
  <2>5. QED
    BY <1>2, <2>1, <2>2, <2>3, <2>4 DEF Command
<1>3. CASE Telemetry \/ WebRTCThreads
  BY <1>3 DEF Telemetry, WebRTCThreads, configs
<1>4. QED
  BY <1>1, <1>2, <1>3 DEF Next

(* The configuration is that of the last reload that succeeded whenever no  *)
(* command is under way.                                                    *)
THEOREM ConfigSurvivesReloads == Spec => []FailedReloadKeepsConfig
<1>1. Init => ConfigInv
  BY DEF Init, ConfigInv
<1>2. ConfigInv => FailedReloadKeepsConfig
  BY DEF ConfigInv, FailedReloadKeepsConfig
<1>3. QED
  BY <1>1, <1>2, ConfigInvInductive, PTL DEF Spec

-----------------------------------------------------------------------------
(* The hub.                                                                 *)

(* What the manager last had to say.                                        *)
Current == Event(IF runtime = "running" THEN "running" ELSE "stopped")

(* A pipeline that has been joined has nothing left to publish, and a       *)
(* command ends only when its status has been delivered.                    *)
HubInv ==
  /\ runtime = "none" => pending["coordinator"] = {} /\ pending["metrics"] = {}
  /\ \A p \in {"coordinator", "metrics"} : \A d \in pending[p] : ~IsStatus(d[2])
  /\ pending["manager"] # {} => step = "done"
  /\ \A d \in pending["manager"] : d[2] = Current
  /\ \A p \in Publishers : \A d \in pending[p] : d[2].run <= run /\ subscription[d[1]] # "new"
  /\ \A w \in Watchers : subscription[w] = "new" => queue[w] = <<>>

(* Nothing follows a "stopped" of its run, in a queue or on its way there:  *)
(* while the pipeline lives, or its stop is not announced, no queue has the *)
(* "stopped" of this run.                                                   *)
OrderInv ==
  /\ \A w \in Watchers : Ordered(queue[w])
  /\ \A w \in Watchers : \A i \in 1..Len(queue[w]) : queue[w][i].run <= run
  /\ \A p \in Publishers : \A d \in pending[p] : After(d[2], queue[d[1]])
  /\ runtime # "none" \/ step \in {"clear", "announce"} =>
       \A w \in Watchers : \A i \in 1..Len(queue[w]) :
         queue[w][i].kind = "stopped" => queue[w][i].run < run

(* Between the steps that change the pipeline, the newest status a watcher  *)
(* has is what the manager last had to say, or that is on its way to it.    *)
StatusInv ==
  step \in {"idle", "stop", "done"} =>
    \A w \in Watchers : subscription[w] = "open" =>
      <<w, Current>> \in pending["manager"] \/ Tells(queue[w], Current)

LEMMA DeliverStep ==
  ASSUME TypeInv, NEW p \in Publishers, Hub!Deliver(p)
  PROVE  \E w \in Watchers, e \in Events :
           /\ <<w, e>> \in pending[p]
           /\ pending' = [pending EXCEPT ![p] = @ \ {<<w, e>>}]
           /\ UNCHANGED subscription
           /\ \A v \in Watchers \ {w} : queue'[v] = queue[v]
           /\ \/ subscription[w] = "closed" /\ queue'[w] = queue[w]
              \/ queue'[w] = Hub!Push(queue[w], e)
<1>1. PICK d \in pending[p] :
        /\ pending' = [pending EXCEPT ![p] = @ \ {d}]
        /\ queue' = IF subscription[d[1]] = "closed" THEN queue
                    ELSE [queue EXCEPT ![d[1]] = Hub!Push(@, d[2])]
        /\ UNCHANGED subscription
  BY DEF Hub!Deliver
<1>2. PICK w \in Watchers, e \in Events : d = <<w, e>>
  BY <1>1 DEF TypeInv
<1>3. /\ \A v \in Watchers \ {w} : queue'[v] = queue[v]
      /\ \/ subscription[w] = "closed" /\ queue'[w] = queue[w]
         \/ queue'[w] = Hub!Push(queue[w], e)
  BY <1>1, <1>2 DEF TypeInv
<1>4. QED
  BY <1>1, <1>2, <1>3

LEMMA WatchStep ==
  ASSUME TypeInv, NEW w \in Watchers, Hub!Watch(w)
  PROVE  /\ UNCHANGED pending
         /\ \A v \in Watchers \ {w} : queue'[v] = queue[v] /\ subscription'[v] = subscription[v]
         /\ subscription'[w] # "new"
         /\ \/ subscription[w] = "new" /\ queue'[w] = queue[w]
            \/ /\ subscription[w] = "open" /\ queue[w] # <<>>
               /\ queue'[w] = Tail(queue[w])
            \/ /\ subscription'[w] # "open"
               /\ queue'[w] \in {queue[w], <<>>}
BY DEF TypeInv, Hub!Watch, Hub!Subscribe, Hub!Pop, Hub!Leave, Hub!Close

(* What a publication adds, and to whom.                                    *)
LEMMA PublishStep ==
  ASSUME TypeInv, NEW p \in Publishers, NEW e, Hub!Publish(p, e)
  PROVE  /\ pending[p] = {}
         /\ UNCHANGED <<subscription, queue>>
         /\ \A d \in pending'[p] : d[2] = e /\ d[1] \in Watchers /\ subscription[d[1]] = "open"
         /\ \A w \in Watchers : subscription[w] = "open" => <<w, e>> \in pending'[p]
         /\ \A o \in Publishers \ {p} : pending'[o] = pending[o]
BY DEF TypeInv, Hub!Publish

(* The steps that announce a status announce what has become of the         *)
(* pipeline, whose threads publish nothing any more if it is gone.          *)
Announcing == StartSucceeds \/ StartFails \/ Announce

LEMMA AnnouncingStep ==
  ASSUME TypeInv, RuntimeInv, HubInv, Announcing
  PROVE  /\ Hub!Publish("manager", Current') /\ Current' \in Events
         /\ step' = "done" /\ run' = run
         /\ runtime' \in {"none", "running"} /\ (state' = "running" <=> runtime' = "running")
         /\ runtime' = "none" => pending["coordinator"] = {} /\ pending["metrics"] = {}
         /\ runtime # "none" \/ step = "announce"
<1>1. CASE StartSucceeds
  <2>1. Current' = Event("running")
    BY <1>1 DEF StartSucceeds, Current, Event
  <2>2. QED
    BY <1>1, <2>1 DEF StartSucceeds, Go, RuntimeInv, TypeInv, Event, Events, Kinds
<1>2. CASE StartFails
  <2>1. Current' = Event("stopped")
    BY <1>2 DEF StartFails, Current, Event
  <2>2. QED
    BY <1>2, <2>1
       DEF StartFails, AnnounceFailure, Joined, Go, RuntimeInv, TypeInv, Event, Events, Kinds
<1>3. CASE Announce
  <2>1. runtime = "none" /\ UNCHANGED <<runtime, run>>
    BY <1>3 DEF Announce, Go, RuntimeInv, engine
  <2>2. Current' = Event("stopped")
    BY <2>1 DEF Current, Event
  <2>3. QED
    BY <1>3, <2>1, <2>2 DEF Announce, Go, HubInv, TypeInv, Event, Events, Kinds
<1>4. QED
  BY <1>1, <1>2, <1>3 DEF Announcing

(* The other steps of a command leave the hub alone.                        *)
Silent ==
  \/ CallStart \/ CallStop \/ \E c \in Configs : CallReload(c)
  \/ BeginStart \/ StartTerminates
  \/ NothingToStop \/ BeginStop \/ RuntimeStopped \/ Clear
  \/ Restart \/ Rollback \/ EndCommand

LEMMA SilentStep ==
  ASSUME RuntimeInv, HubInv, Silent
  PROVE  /\ UNCHANGED hub /\ pending["manager"] = {}
         /\ \/ UNCHANGED <<runtime, run>> /\ step' \notin {"clear", "announce"}
            \/ /\ runtime' = "starting" /\ step' = "starting" /\ run' = run + 1
            \/ /\ runtime' = "stopping" /\ step' = "stopping" /\ run' = run /\ runtime # "none"
            \/ /\ runtime' = "none" /\ step' = "clear" /\ run' = run /\ runtime # "none"
               /\ pending["coordinator"] = {} /\ pending["metrics"] = {}
            \/ UNCHANGED <<runtime, run>> /\ step = "clear" /\ step' = "announce"
         /\ step' \in {"idle", "stop", "done"} =>
              step \in {"idle", "stop", "done"} /\ UNCHANGED <<runtime, run>>
<1>1. pending["manager"] = {}
  BY DEF HubInv, Silent, CallStart, CallStop, CallReload, Call, BeginStart, StartTerminates,
         NothingToStop, BeginStop, RuntimeStopped, Clear, Go, Restart, Rollback, EndCommand, Done
<1> USE DEF engine, hub, Go
<1>2. CASE CallStart \/ CallStop \/ \E c \in Configs : CallReload(c)
  BY <1>1, <1>2 DEF CallStart, CallStop, CallReload, Call
<1>3. CASE BeginStart \/ StartTerminates
  BY <1>1, <1>3 DEF BeginStart, StartTerminates
<1>4. CASE NothingToStop \/ BeginStop
  BY <1>1, <1>4 DEF NothingToStop, BeginStop
<1>5. CASE RuntimeStopped \/ Clear
  BY <1>1, <1>5 DEF RuntimeStopped, Clear, Joined, RuntimeInv
<1>6. CASE Restart \/ Rollback \/ EndCommand
  BY <1>1, <1>6 DEF Restart, Rollback, EndCommand, StartWith, Done
<1>7. QED
  BY <1>2, <1>3, <1>4, <1>5, <1>6 DEF Silent

(* The threads of the pipeline publish while it lives.                      *)
Running == \E p \in {"coordinator", "metrics"}, k \in {"frame", "metrics"} :
             runtime # "none" /\ Hub!Publish(p, Event(k))

LEMMA HubSteps ==
  [Next]_vars =>
    \/ Announcing
    \/ Silent
    \/ /\ UNCHANGED <<state, runtime, run, step>>
       /\ \/ UNCHANGED hub
          \/ Running
          \/ \E p \in Publishers : Hub!Deliver(p)
          \/ \E w \in Watchers : Hub!Watch(w)
<1> SUFFICES ASSUME [Next]_vars
             PROVE  \/ Announcing \/ Silent
                    \/ /\ UNCHANGED <<state, runtime, run, step>>
                       /\ \/ UNCHANGED hub
                          \/ Running
                          \/ \E p \in Publishers : Hub!Deliver(p)
                          \/ \E w \in Watchers : Hub!Watch(w)
  OBVIOUS
<1>1. CASE Command
  BY <1>1 DEF Command, Announcing, Silent
<1>2. CASE Telemetry
  BY <1>2 DEF Telemetry, Running, Publishers, engine
<1>3. CASE WebRTCThreads
  BY <1>3 DEF WebRTCThreads, engine
<1>4. CASE UNCHANGED vars
  BY <1>4 DEF vars, engine
<1>5. QED
  BY <1>1, <1>2, <1>3, <1>4 DEF Next

LEMMA HubInvInductive ==
  ASSUME TypeInv, RuntimeInv, HubInv, [Next]_vars
  PROVE  HubInv'
<1>0. {"manager", "coordinator", "metrics"} = Publishers
  BY DEF Publishers
<1>1. CASE Announcing
  <2>1. /\ Hub!Publish("manager", Current') /\ Current' \in Events
        /\ step' = "done" /\ run' = run
        /\ runtime' = "none" => pending["coordinator"] = {} /\ pending["metrics"] = {}
    BY <1>1, AnnouncingStep
  <2>2. /\ UNCHANGED <<subscription, queue>>
        /\ \A d \in pending'["manager"] : d[2] = Current' /\ subscription[d[1]] = "open"
        /\ \A o \in {"coordinator", "metrics"} : pending'[o] = pending[o]
    BY <1>0, <2>1, PublishStep
  <2>3. Current'.run = run'
    BY DEF Current, Event
  <2>4. run \in Nat
    BY DEF TypeInv
  <2>5. \A p \in Publishers : \A d \in pending'[p] : d[2].run <= run /\ subscription[d[1]] # "new"
    BY <1>0, <2>1, <2>2, <2>3, <2>4 DEF HubInv, Publishers
  <2>6. QED
    BY <2>1, <2>2, <2>5 DEF HubInv
<1>2. CASE Silent
  <2>1. UNCHANGED <<subscription, queue, pending>> /\ pending["manager"] = {}
    BY <1>2, SilentStep DEF hub
  <2>2. runtime' = "none" => pending["coordinator"] = {} /\ pending["metrics"] = {}
    BY <1>2, SilentStep DEF HubInv
  <2>3. run' \in {run, run + 1} /\ run \in Nat
    BY <1>2, SilentStep DEF TypeInv
  <2>4. \A p \in Publishers : \A d \in pending[p] : d[2].run \in Nat
    BY DEF TypeInv, Events
  <2>5. \A p \in Publishers : \A d \in pending[p] : d[2].run <= run'
    BY <2>3, <2>4 DEF HubInv
  <2>6. QED
    BY <2>1, <2>2, <2>5 DEF HubInv
<1>3. ASSUME UNCHANGED <<runtime, run, step>>
      PROVE  Current' = Current
  BY <1>3 DEF Current, Event
<1>4. CASE UNCHANGED <<runtime, run, step>> /\ UNCHANGED hub
  BY <1>3, <1>4 DEF HubInv, hub
<1>5. CASE UNCHANGED <<runtime, run, step>> /\ Running
  <2>1. PICK p \in {"coordinator", "metrics"}, k \in {"frame", "metrics"} :
          runtime # "none" /\ Hub!Publish(p, Event(k))
    BY <1>5 DEF Running
  <2>2. /\ UNCHANGED <<subscription, queue>>
        /\ \A d \in pending'[p] : d[2] = Event(k) /\ subscription[d[1]] = "open"
        /\ \A o \in Publishers \ {p} : pending'[o] = pending[o]
    BY <1>0, <2>1, PublishStep DEF Publishers
  <2>3. ~IsStatus(Event(k)) /\ Event(k).run = run /\ run \in Nat
    BY DEF IsStatus, Event, TypeInv
  <2>4. pending'["manager"] = pending["manager"]
    BY <1>0, <2>2
  <2>5. \A o \in {"coordinator", "metrics"} : \A d \in pending'[o] : ~IsStatus(d[2])
    BY <1>0, <2>2, <2>3 DEF HubInv
  <2>6. \A o \in Publishers : \A d \in pending'[o] : d[2].run <= run /\ subscription[d[1]] # "new"
    BY <2>2, <2>3 DEF HubInv
  <2>7. QED
    BY <1>3, <1>5, <2>1, <2>2, <2>4, <2>5, <2>6 DEF HubInv
<1>6. ASSUME UNCHANGED <<runtime, run, step>>, NEW p \in Publishers, Hub!Deliver(p)
      PROVE  HubInv'
  <2>1. PICK w \in Watchers, e \in Events :
          /\ <<w, e>> \in pending[p]
          /\ pending' = [pending EXCEPT ![p] = @ \ {<<w, e>>}]
          /\ UNCHANGED subscription
          /\ \A v \in Watchers \ {w} : queue'[v] = queue[v]
    BY <1>6, DeliverStep
  <2>2. \A o \in Publishers : pending'[o] \subseteq pending[o]
    BY <2>1 DEF TypeInv
  <2>3. subscription[w] # "new"
    BY <2>1 DEF HubInv
  <2>4. QED
    BY <1>0, <1>3, <1>6, <2>1, <2>2, <2>3 DEF HubInv
<1>7. ASSUME UNCHANGED <<runtime, run, step>>, NEW w \in Watchers, Hub!Watch(w)
      PROVE  HubInv'
  <2>1. /\ UNCHANGED pending
        /\ \A v \in Watchers \ {w} : queue'[v] = queue[v] /\ subscription'[v] = subscription[v]
        /\ subscription'[w] # "new"
    BY <1>7, WatchStep
  <2>2. \A p \in Publishers : \A d \in pending[p] : d[1] \in Watchers
    BY DEF TypeInv
  <2>3. QED
    BY <1>3, <1>7, <2>1, <2>2 DEF HubInv
<1>8. QED
  BY <1>1, <1>2, <1>4, <1>5, <1>6, <1>7, HubSteps

LEMMA OrderInvInductive ==
  ASSUME TypeInv, RuntimeInv, HubInv, OrderInv, [Next]_vars
  PROVE  OrderInv'
<1>0. \A w \in Watchers : \A i \in 1..Len(queue[w]) : queue[w][i] \in Events
  BY DEF TypeInv
<1>1. CASE Announcing
  <2>1. /\ Hub!Publish("manager", Current') /\ Current' \in Events
        /\ step' = "done" /\ run' = run
        /\ runtime # "none" \/ step = "announce"
        /\ runtime' = "none" => pending["coordinator"] = {} /\ pending["metrics"] = {}
    BY <1>1, AnnouncingStep
  <2>2. /\ UNCHANGED <<subscription, queue>>
        /\ \A d \in pending'["manager"] : d[2] = Current' /\ d[1] \in Watchers
        /\ \A o \in Publishers \ {"manager"} : pending'[o] = pending[o]
    BY <2>1, PublishStep DEF Publishers
  <2>3. \A w \in Watchers : \A i \in 1..Len(queue[w]) :
          queue[w][i].kind = "stopped" => queue[w][i].run < run
    BY <2>1 DEF OrderInv
  <2>4. Current'.run = run
    BY <2>1 DEF Current, Event
  <2>5. \A w \in Watchers : After(Current', queue[w])
    <3>1. run \in Nat /\ \A w \in Watchers : \A i \in 1..Len(queue[w]) : queue[w][i].run \in Nat
      BY <1>0 DEF TypeInv, Events
    <3>2. QED
      BY <2>3, <2>4, <3>1 DEF After
  <2>6. \A p \in Publishers : \A d \in pending'[p] : After(d[2], queue[d[1]])
    BY <2>2, <2>5 DEF OrderInv
  <2>7. QED
    BY <2>1, <2>2, <2>3, <2>6 DEF OrderInv
<1>2. CASE Silent
  <2>1. UNCHANGED <<subscription, queue, pending>>
    BY <1>2, SilentStep DEF hub
  <2>2. run' \in {run, run + 1} /\ run \in Nat
    BY <1>2, SilentStep DEF TypeInv
  <2>3. \A w \in Watchers : \A i \in 1..Len(queue[w]) : queue[w][i].run \in Nat
    BY <1>0 DEF Events
  <2>4. \A w \in Watchers : \A i \in 1..Len(queue[w]) : queue[w][i].run <= run'
    BY <2>2, <2>3 DEF OrderInv
  <2>5. ASSUME runtime' # "none" \/ step' \in {"clear", "announce"}
        PROVE  \A w \in Watchers : \A i \in 1..Len(queue[w]) :
                 queue[w][i].kind = "stopped" => queue[w][i].run < run'
    <3>1. CASE run' = run
      <4>1. runtime # "none" \/ step \in {"clear", "announce"}
        BY <1>2, <2>2, <2>5, <3>1, SilentStep
      <4>2. QED
        BY <3>1, <4>1 DEF OrderInv
    <3>2. CASE run' = run + 1
      BY <2>2, <2>3, <3>2 DEF OrderInv
    <3>3. QED
      BY <2>2, <3>1, <3>2
  <2>6. QED
    BY <2>1, <2>4, <2>5 DEF OrderInv
<1>3. CASE UNCHANGED <<runtime, run, step>> /\ UNCHANGED hub
  BY <1>3 DEF OrderInv, hub
<1>4. CASE UNCHANGED <<runtime, run, step>> /\ Running
  <2>1. PICK p \in {"coordinator", "metrics"}, k \in {"frame", "metrics"} :
          runtime # "none" /\ Hub!Publish(p, Event(k))
    BY <1>4 DEF Running
  <2>2. /\ UNCHANGED <<subscription, queue>>
        /\ \A d \in pending'[p] : d[2] = Event(k) /\ d[1] \in Watchers
        /\ \A o \in Publishers \ {p} : pending'[o] = pending[o]
    BY <2>1, PublishStep DEF Publishers
  <2>3. \A w \in Watchers : After(Event(k), queue[w])
    <3>1. run \in Nat /\ \A w \in Watchers : \A i \in 1..Len(queue[w]) : queue[w][i].run \in Nat
      BY <1>0 DEF TypeInv, Events
    <3>2. Event(k).run = run
      BY DEF Event
    <3>3. \A w \in Watchers : \A i \in 1..Len(queue[w]) :
            queue[w][i].kind = "stopped" => queue[w][i].run < run
      BY <2>1 DEF OrderInv
    <3>4. QED
      BY <3>1, <3>2, <3>3 DEF After
  <2>4. \A o \in Publishers : \A d \in pending'[o] : After(d[2], queue[d[1]])
    BY <2>2, <2>3 DEF OrderInv
  <2>5. QED
    BY <1>4, <2>2, <2>4 DEF OrderInv
<1>5. ASSUME UNCHANGED <<runtime, run, step>>, NEW p \in Publishers, Hub!Deliver(p)
      PROVE  OrderInv'
  <2>1. PICK w \in Watchers, e \in Events :
          /\ <<w, e>> \in pending[p]
          /\ pending' = [pending EXCEPT ![p] = @ \ {<<w, e>>}]
          /\ UNCHANGED subscription
          /\ \A v \in Watchers \ {w} : queue'[v] = queue[v]
          /\ \/ subscription[w] = "closed" /\ queue'[w] = queue[w]
             \/ queue'[w] = Hub!Push(queue[w], e)
    BY <1>5, DeliverStep
  <2>2. \A o \in Publishers : pending'[o] \subseteq pending[o]
    BY <2>1 DEF TypeInv
  <2>3. \A o \in Publishers : \A d \in pending[o] : d = <<d[1], d[2]>> /\ d[1] \in Watchers
    BY DEF TypeInv
  <2>4. CASE queue'[w] = queue[w]
    <3>1. \A v \in Watchers : queue'[v] = queue[v]
      BY <2>1, <2>4
    <3>2. QED
      BY <1>5, <2>2, <2>3, <3>1 DEF OrderInv
  <2>5. CASE queue'[w] = Hub!Push(queue[w], e)
    <3>1. queue[w] \in Seq(Events) /\ Ordered(queue[w]) /\ After(e, queue[w]) /\ e.run <= run
      BY <2>1 DEF TypeInv, OrderInv, HubInv
    <3>2. Ordered(queue'[w]) /\ Among(queue'[w], queue[w], e)
      BY <2>5, <3>1, PushKeeps
    <3>3. \A k \in 1..Len(queue'[w]) : queue'[w][k].run <= run
      BY <3>1, <3>2 DEF OrderInv, Among
    <3>4. e.kind = "stopped" =>
            /\ p = "manager" /\ runtime = "none" /\ step = "done"
            /\ pending["coordinator"] = {} /\ pending["metrics"] = {}
            /\ pending'["manager"] \cap ({w} \X Events) = {}
      <4>1. SUFFICES ASSUME e.kind = "stopped"
                     PROVE  /\ p = "manager" /\ runtime = "none" /\ step = "done"
                            /\ pending["coordinator"] = {} /\ pending["metrics"] = {}
                            /\ pending'["manager"] \cap ({w} \X Events) = {}
        OBVIOUS
      <4>2. p = "manager"
        BY <2>1, <4>1 DEF HubInv, IsStatus, Publishers
      <4>3. e = Current /\ step = "done" /\ \A d \in pending["manager"] : d[2] = e
        BY <2>1, <4>2 DEF HubInv
      <4>4. runtime = "none"
        BY <4>1, <4>3 DEF Current, Event, RuntimeInv
      <4>5. pending'["manager"] \cap ({w} \X Events) = {}
        BY <2>1, <4>2, <4>3 DEF TypeInv
      <4>6. QED
        BY <4>2, <4>3, <4>4, <4>5 DEF HubInv
    <3>5. ASSUME NEW o \in Publishers, NEW d \in pending'[o]
          PROVE  After(d[2], queue'[d[1]])
      <4>1. d \in pending[o] /\ d[1] \in Watchers /\ After(d[2], queue[d[1]])
        BY <2>2, <2>3 DEF OrderInv
      <4>2. CASE d[1] # w
        BY <2>1, <4>1, <4>2
      <4>3. CASE d[1] = w
        <5>1. e.kind # "stopped"
          <6>1. ASSUME e.kind = "stopped" PROVE FALSE
            <7>1. o = "manager" /\ d \in {w} \X Events
              BY <3>4, <4>1, <4>3, <6>1 DEF Publishers, TypeInv
            <7>2. QED
              BY <3>4, <6>1, <7>1
          <6>2. QED
            BY <6>1
        <5>2. QED
          BY <3>2, <4>1, <4>3, <5>1 DEF After, Among
      <4>4. QED
        BY <4>2, <4>3
    <3>6. ASSUME runtime # "none" \/ step \in {"clear", "announce"}, 
                 NEW k \in 1..Len(queue'[w]), queue'[w][k].kind = "stopped"
          PROVE  queue'[w][k].run < run
      <4>1. queue'[w][k] # e
        BY <3>4, <3>6
      <4>2. QED
        BY <3>2, <3>6, <4>1 DEF OrderInv, Among
    <3>7. QED
      BY <1>5, <2>1, <3>2, <3>3, <3>5, <3>6 DEF OrderInv
  <2>6. QED
    BY <2>1, <2>4, <2>5
<1>6. ASSUME UNCHANGED <<runtime, run, step>>, NEW w \in Watchers, Hub!Watch(w)
      PROVE  OrderInv'
  <2>1. /\ UNCHANGED pending
        /\ \A v \in Watchers \ {w} : queue'[v] = queue[v]
        /\ \/ queue'[w] \in {queue[w], <<>>}
           \/ queue[w] # <<>> /\ queue'[w] = Tail(queue[w])
    BY <1>6, WatchStep
  <2>2. /\ \A k \in 1..Len(queue'[w]) : \E i \in 1..Len(queue[w]) : queue'[w][k] = queue[w][i]
        /\ Ordered(queue'[w])
    <3>1. queue[w] \in Seq(Events) /\ Ordered(queue[w])
      BY DEF TypeInv, OrderInv
    <3>2. CASE queue'[w] = queue[w]
      BY <3>1, <3>2
    <3>3. CASE queue'[w] = <<>>
      BY <3>3 DEF Ordered
    <3>4. CASE queue[w] # <<>> /\ queue'[w] = Tail(queue[w])
      BY <3>1, <3>4, TailKeeps
    <3>5. QED
      BY <2>1, <3>2, <3>3, <3>4
  <2>3. \A e : After(e, queue[w]) => After(e, queue'[w])
    BY <2>2 DEF After
  <2>4. \A p \in Publishers : \A d \in pending[p] : d[1] \in Watchers
    BY DEF TypeInv
  <2>5. \A p \in Publishers : \A d \in pending[p] : After(d[2], queue'[d[1]])
    BY <2>1, <2>3, <2>4 DEF OrderInv
  <2>6. QED
    BY <1>6, <2>1, <2>2, <2>5 DEF OrderInv
<1>7. QED
  BY <1>1, <1>2, <1>3, <1>4, <1>5, <1>6, HubSteps

LEMMA StatusInvInductive ==
  ASSUME TypeInv, RuntimeInv, HubInv, StatusInv, [Next]_vars
  PROVE  StatusInv'
<1>0. ASSUME UNCHANGED <<runtime, run>> PROVE Current' = Current
  BY <1>0 DEF Current, Event
<1>1. CASE Announcing
  <2>1. Hub!Publish("manager", Current')
    BY <1>1, AnnouncingStep
  <2>2. /\ UNCHANGED <<subscription, queue>>
        /\ \A w \in Watchers : subscription[w] = "open" => <<w, Current'>> \in pending'["manager"]
    BY <2>1, PublishStep DEF Publishers
  <2>3. QED
    BY <2>2 DEF StatusInv
<1>2. CASE Silent
  <2>1. UNCHANGED <<subscription, queue, pending>>
    BY <1>2, SilentStep DEF hub
  <2>2. step' \in {"idle", "stop", "done"} =>
          step \in {"idle", "stop", "done"} /\ UNCHANGED <<runtime, run>>
    BY <1>2, SilentStep
  <2>3. QED
    BY <1>0, <2>1, <2>2 DEF StatusInv
<1>3. CASE UNCHANGED <<runtime, run, step>> /\ UNCHANGED hub
  BY <1>0, <1>3 DEF StatusInv, hub
<1>4. CASE UNCHANGED <<runtime, run, step>> /\ Running
  <2>1. PICK p \in {"coordinator", "metrics"}, k \in {"frame", "metrics"} : Hub!Publish(p, Event(k))
    BY <1>4 DEF Running
  <2>2. /\ UNCHANGED <<subscription, queue>>
        /\ \A o \in Publishers \ {p} : pending'[o] = pending[o]
    BY <2>1, PublishStep DEF Publishers
  <2>3. pending'["manager"] = pending["manager"]
    BY <2>2 DEF Publishers
  <2>4. QED
    BY <1>0, <1>4, <2>2, <2>3 DEF StatusInv
<1>5. ASSUME UNCHANGED <<runtime, run, step>>, NEW p \in Publishers, Hub!Deliver(p)
      PROVE  StatusInv'
  <2>1. PICK w \in Watchers, e \in Events :
          /\ <<w, e>> \in pending[p]
          /\ pending' = [pending EXCEPT ![p] = @ \ {<<w, e>>}]
          /\ UNCHANGED subscription
          /\ \A v \in Watchers \ {w} : queue'[v] = queue[v]
          /\ \/ subscription[w] = "closed" /\ queue'[w] = queue[w]
             \/ queue'[w] = Hub!Push(queue[w], e)
    BY <1>5, DeliverStep
  <2>2. Current' = Current
    BY <1>0, <1>5
  <2> SUFFICES ASSUME step \in {"idle", "stop", "done"},
                      NEW v \in Watchers, subscription[v] = "open"
               PROVE  <<v, Current>> \in pending'["manager"] \/ Tells(queue'[v], Current)
    BY <1>5, <2>1, <2>2 DEF StatusInv
  <2>3. <<v, Current>> \in pending["manager"] \/ Tells(queue[v], Current)
    BY DEF StatusInv
  <2>4. CASE v # w
    BY <2>1, <2>3, <2>4 DEF TypeInv
  <2>5. CASE v = w
    <3>1. queue'[w] = Hub!Push(queue[w], e) /\ queue[w] \in Seq(Events)
      BY <2>1, <2>5 DEF TypeInv
    <3>2. CASE p = "manager"
      <4>1. e = Current
        BY <2>1, <3>2 DEF HubInv
      <4>2. IsStatus(e)
        BY <4>1 DEF IsStatus, Current, Event
      <4>3. QED
        BY <2>5, <3>1, <4>1, <4>2, PushKeeps
    <3>3. CASE p # "manager"
      <4>1. ~IsStatus(e)
        BY <2>1, <3>3 DEF HubInv, Publishers
      <4>2. pending'["manager"] = pending["manager"]
        BY <2>1, <3>3 DEF TypeInv, Publishers
      <4>3. Tells(queue[w], Current) => Tells(queue'[w], Current)
        BY <3>1, <4>1, PushKeeps
      <4>4. QED
        BY <2>3, <2>5, <4>2, <4>3
    <3>4. QED
      BY <3>2, <3>3
  <2>6. QED
    BY <2>4, <2>5
<1>6. ASSUME UNCHANGED <<runtime, run, step>>, NEW w \in Watchers, Hub!Watch(w)
      PROVE  StatusInv'
  <2>1. /\ UNCHANGED pending
        /\ \A v \in Watchers \ {w} : queue'[v] = queue[v] /\ subscription'[v] = subscription[v]
        /\ \/ subscription[w] = "new" /\ queue'[w] = queue[w]
           \/ /\ subscription[w] = "open" /\ queue[w] # <<>>
              /\ queue'[w] = Tail(queue[w])
           \/ subscription'[w] # "open"
    BY <1>6, WatchStep
  <2> SUFFICES ASSUME step \in {"idle", "stop", "done"},
                      NEW v \in Watchers, subscription'[v] = "open"
               PROVE  <<v, Current>> \in pending["manager"] \/ Tells(queue'[v], Current)
    BY <1>0, <1>6, <2>1 DEF StatusInv
  <2>2. CASE v # w
    BY <2>1, <2>2 DEF StatusInv
  <2>3. CASE v = w /\ subscription[w] = "new" /\ queue'[w] = queue[w]
    <3>1. queue'[v] = <<>>
      BY <2>3 DEF HubInv
    <3>2. QED
      BY <3>1 DEF Tells
  <2>4. CASE /\ v = w /\ subscription[w] = "open" /\ queue[w] # <<>>
             /\ queue'[w] = Tail(queue[w])
    <3>1. queue[w] \in Seq(Events)
      BY DEF TypeInv
    <3>2. Tells(queue[w], Current) => Tells(queue'[w], Current)
      BY <2>4, <3>1, TailKeeps
    <3>3. QED
      BY <2>4, <3>2 DEF StatusInv
  <2>5. QED
    BY <2>1, <2>2, <2>3, <2>4
<1>7. QED
  BY <1>1, <1>2, <1>3, <1>4, <1>5, <1>6, HubSteps

TelemetryInv == TypeInv /\ RuntimeInv /\ HubInv /\ OrderInv /\ StatusInv

LEMMA TelemetryInvariant == Spec => []TelemetryInv
<1>1. Init => TelemetryInv
  <2> SUFFICES ASSUME Init PROVE TelemetryInv
    OBVIOUS
  <2>1. /\ runtime = "none" /\ run = 0 /\ step = "idle" /\ state = "stopped" /\ command = "stop"
        /\ subscription = [w \in Watchers |-> "new"]
        /\ queue = [w \in Watchers |-> <<>>]
        /\ pending = [p \in Publishers |-> {}]
    BY DEF Init, Hub!HubInit, Publishers
  <2>2. TypeInv /\ RuntimeInv
    BY <2>1 DEF TypeInv, RuntimeInv, Steps
  <2>3. HubInv
    BY <2>1 DEF HubInv, Publishers
  <2>4. OrderInv
    BY <2>1 DEF OrderInv, Ordered
  <2>5. StatusInv
    BY <2>1 DEF StatusInv
  <2>6. QED
    BY <2>2, <2>3, <2>4, <2>5 DEF TelemetryInv
<1>2. TelemetryInv /\ [Next]_vars => TelemetryInv'
  BY TypeInvInductive, RuntimeInvInductive, HubInvInductive, OrderInvInductive,
     StatusInvInductive DEF TelemetryInv
<1>3. QED
  BY <1>1, <1>2, PTL DEF Spec

(* After "stopped" a watcher reads nothing of the pipeline that stopped,    *)
(* however slow it is and however many others there are.                    *)
THEOREM StoppedIsLast == Spec => []NothingAfterStopped
<1>1. TelemetryInv => NothingAfterStopped
  BY DEF TelemetryInv, OrderInv, Ordered, NothingAfterStopped
<1>2. QED
  BY <1>1, TelemetryInvariant, PTL

(* When no command is under way the status, and the newest status in the    *)
(* queue of every watcher, say whether the pipeline runs.                   *)
THEOREM StatusTells == Spec => []StatusIsTrue
<1>1. TelemetryInv => StatusIsTrue
  <2> SUFFICES ASSUME TelemetryInv, step = "idle" PROVE StatusIsTrue
    BY DEF StatusIsTrue
  <2>1. state = "running" <=> runtime = "running"
    BY DEF TelemetryInv, RuntimeInv
  <2>2. pending["manager"] = {}
    BY DEF TelemetryInv, HubInv
  <2>3. ASSUME NEW w \in Watchers, subscription[w] = "open", NEW i \in 1..Len(queue[w]),
               queue[w][i].kind \in {"running", "stopped"},
               \A j \in (i + 1)..Len(queue[w]) : ~(queue[w][j].kind \in {"running", "stopped"})
        PROVE  queue[w][i] = Current
    BY <2>2, <2>3 DEF TelemetryInv, StatusInv, Tells, Newest, IsStatus
  <2>4. (Current.kind = "running" <=> runtime = "running") /\ Current.run = run
    BY DEF Current, Event
  <2>5. QED
    BY <2>1, <2>3, <2>4 DEF StatusIsTrue
<1>2. QED
  BY <1>1, TelemetryInvariant, PTL

-----------------------------------------------------------------------------
(* The sessions.                                                            *)

Ids == 1..MaxSessions

(* A session of this run lives while the pipeline runs or is being stopped; *)
(* before the next one starts there is none.                                *)
SessionInv ==
  /\ sessions \subseteq Ids
  /\ nextId \in Nat \ {0}
  /\ pc \in [Offerers -> WebRTC!Working \cup {"idle", "expiring"}]
  /\ mine \in [Offerers -> 0..MaxSessions]
  /\ \A h \in Offerers : pc[h] = "admitted" => mine[h] # 0
  /\ born \in [Ids -> Nat]
  /\ \A i \in sessions : born[i] # 0 =>
       born[i] = run /\ (runtime = "running" \/ step \in {"stopping", "clear"})

(* What WebRTC's threads do to it.                                          *)
LEMMA OfferStep ==
  ASSUME SessionInv, WebRTCThreads
  PROVE  /\ sessions' \subseteq Ids /\ nextId' \in Nat \ {0}
         /\ pc' \in [Offerers -> WebRTC!Working \cup {"idle", "expiring"}]
         /\ mine' \in [Offerers -> 0..MaxSessions]
         /\ \A h \in Offerers : pc'[h] = "admitted" => mine'[h] # 0
<1> DEFINE Goal == /\ sessions' \subseteq Ids /\ nextId' \in Nat \ {0}
                   /\ pc' \in [Offerers -> WebRTC!Working \cup {"idle", "expiring"}]
                   /\ mine' \in [Offerers -> 0..MaxSessions]
                   /\ \A h \in Offerers : pc'[h] = "admitted" => mine'[h] # 0
<1> USE DEF SessionInv, WebRTC!Working
<1>1. ASSUME NEW h \in Offerers, WebRTC!HandleOffer(h) PROVE Goal
  <2>1. CASE WebRTC!Admit(h)
    <3>1. nextId \in 1..MaxSessions
      BY <2>1 DEF WebRTC!Admit
    <3>2. QED
      BY <2>1, <3>1 DEF WebRTC!Admit
  <2>2. CASE WebRTC!Insert(h)
    <3>1. mine[h] \in Ids
      BY <2>2 DEF WebRTC!Insert, Ids
    <3>2. QED
      BY <2>2, <3>1 DEF WebRTC!Insert
  <2>3. CASE \/ \E s \in StreamKeys : WebRTC!ReceiveOffer(h, s)
             \/ \E i \in WebRTC!Ids : WebRTC!DeleteExpired(h, i)
             \/ WebRTC!Refuse(h) \/ WebRTC!DeleteFailed(h)
    BY <2>3 DEF WebRTC!ReceiveOffer, WebRTC!DeleteExpired, WebRTC!Refuse,
                WebRTC!DeleteFailed, WebRTC!Remove
  <2>4. CASE WebRTC!Return(h)
    BY <2>4, ManagerAssumption DEF WebRTC!Return, WebRTC!Released
  <2>5. CASE WebRTC!CreatePipeline(h) \/ WebRTC!Play(h)
    BY <2>5 DEF WebRTC!CreatePipeline, WebRTC!Play, WebRTC!PlayFails, WebRTC!Advance
  <2>6. CASE WebRTC!SetRemoteOffer(h) \/ WebRTC!CreateAnswer(h)
    BY <2>6 DEF WebRTC!SetRemoteOffer, WebRTC!CreateAnswer, WebRTC!Negotiate, WebRTC!Advance
  <2>7. QED
    BY <1>1, <2>1, <2>2, <2>3, <2>4, <2>5, <2>6 DEF WebRTC!HandleOffer
<1>2. CASE \/ \E h \in Offerers, i \in 1..MaxSessions : WebRTC!DeleteRequest(h, i)
           \/ \E t \in Offerers \cup {"manager"} : WebRTC!StopRemoved(t)
           \/ \E s \in StreamKeys : WebRTC!BeginPublish(s) \/ WebRTC!EndPublish(s)
  BY <1>2 DEF WebRTC!DeleteRequest, WebRTC!Remove, WebRTC!StopRemoved,
              WebRTC!BeginPublish, WebRTC!EndPublish
<1>3. QED
  BY <1>1, <1>2 DEF WebRTCThreads

LEMMA SessionInvInductive ==
  ASSUME TypeInv, RuntimeInv, SessionInv, [Next]_vars
  PROVE  SessionInv'
<1>1. CASE UNCHANGED vars
  BY <1>1 DEF SessionInv, vars, engine, publisher
<1>2. CASE Telemetry
  BY <1>2 DEF SessionInv, Telemetry, engine, publisher
<1>3. CASE WebRTCThreads
  <2>1. born' = Inserted /\ UNCHANGED <<runtime, run, step>>
    BY <1>3 DEF WebRTCThreads, engine
  <2>2. sessions' \subseteq Ids
    BY <1>3, OfferStep
  <2>3. \A i \in Ids : born'[i] = IF i \in sessions' \ sessions
                                  THEN IF runtime = "running" THEN run ELSE 0 ELSE born[i]
    BY <2>1 DEF Inserted, Ids
  <2>4. born' \in [Ids -> Nat]
    BY <2>1, <2>3 DEF Inserted, Ids, TypeInv, SessionInv
  <2>5. ASSUME NEW i \in sessions', born'[i] # 0
        PROVE  born'[i] = run /\ (runtime = "running" \/ step \in {"stopping", "clear"})
    BY <2>2, <2>3, <2>5 DEF SessionInv
  <2>6. QED
    BY <1>3, <2>1, <2>4, <2>5, OfferStep DEF SessionInv
<1>4. CASE Command
  <2> USE DEF SessionInv, engine, publisher, Go
  <2>1. CASE Clear
    <3>1. UNCHANGED <<born, runtime, run, nextId, pc, mine>> /\ sessions' = {}
      BY <2>1 DEF Clear, ClearSessions, WebRTC!ClearSessions, WebRTC!Remove
    <3>2. QED
      BY <3>1
  <2>2. CASE Restart \/ Rollback
    BY <2>2 DEF Restart, Rollback, StartWith, Done, WebRTC!RegisterStreams
  <2>3. CASE CallStart \/ CallStop \/ \E c \in Configs : CallReload(c)
    BY <2>3 DEF CallStart, CallStop, CallReload, Call
  <2>4. CASE BeginStart \/ NothingToStop \/ BeginStop \/ RuntimeStopped
    BY <2>4 DEF BeginStart, NothingToStop, BeginStop, RuntimeStopped, RuntimeInv, TypeInv
  <2>5. CASE StartSucceeds \/ StartFails \/ StartTerminates
    BY <2>5 DEF StartSucceeds, StartFails, StartTerminates, RuntimeInv
  <2>6. CASE Announce \/ EndCommand
    BY <2>6 DEF Announce, EndCommand, Done, RuntimeInv
  <2>7. QED
    BY <1>4, <2>1, <2>2, <2>3, <2>4, <2>5, <2>6 DEF Command
<1>5. QED
  BY <1>1, <1>2, <1>3, <1>4 DEF Next

(* A session opened while a pipeline ran is gone once a stop or a reload    *)
(* has returned.                                                            *)
THEOREM RunTakesSessions == Spec => []SessionsEndWithRun
<1>1. Init => SessionInv
  BY ManagerAssumption DEF Init, WebRTC!Blank, WebRTC!Ids, SessionInv, Ids
<1>2. TelemetryInv /\ SessionInv /\ [Next]_vars => SessionInv'
  BY SessionInvInductive DEF TelemetryInv
<1>3. SessionInv => SessionsEndWithRun
  BY DEF SessionInv, SessionsEndWithRun
<1>4. QED
  BY <1>1, <1>2, <1>3, TelemetryInvariant, PTL DEF Spec

-----------------------------------------------------------------------------
(* Configuration documents.                                                 *)

LEMMA ReadIsInt ==
  ASSUME NEW doc, IsDocument(doc), NEW k \in Keys
  PROVE  Read(doc, k) \in Int
<1>1. Default[k] \in Int
  BY SMTT(60) DEF Default
<1> QED
  BY <1>1 DEF Read, IsDocument

LEMMA NumberIsInt ==
  ASSUME NEW doc, IsDocument(doc), NEW k \in Keys
  PROVE  Number(doc, k) \in Int
BY ReadIsInt DEF Number, Highest

(* What the parser lets pass is large enough without a second look: the     *)
(* queue sizes, runtime numbers and instance counts validate_config looks   *)
(* at again never fail there.                                               *)
THEOREM CheckedWhenParsed ==
  ASSUME NEW doc, IsDocument(doc), ~Refused(doc)
  PROVE  Enough(Parsed(doc), Capacities \cup Runtime \cup Instances)
<1> SUFFICES ASSUME NEW k \in Capacities \cup Runtime \cup Instances
             PROVE  Number(doc, k) >= Least(k)
  BY DEF Enough, Parsed, Keys
<1>1. k \in Keys
  BY DEF Keys
<1>2. CASE k \in Instances
  <2>1. Least(k) = 1
    BY <1>2 DEF Instances, Least, Gates
  <2>2. Number(doc, k) = Highest(1, Read(doc, k))
    BY <1>2 DEF Number, Instances
  <2> QED
    BY <2>1, <2>2, <1>1, ReadIsInt DEF Highest
<1>3. CASE k \in Refusing
  <2>1. k \notin Instances /\ k # "log_interval_ms"
    BY <1>3 DEF Refusing, Capacities, Runtime, Instances
  <2>2. Number(doc, k) = Read(doc, k) /\ k \notin DOMAIN doc.legacy
    BY <2>1 DEF Number, IsDocument
  <2>3. CASE k \in DOMAIN doc.number
    <3>1. ~(doc.number[k] < Least(k))
      BY <1>3, <2>3 DEF Refused, TooSmall
    <3>2. Least(k) \in Int
      BY DEF Least
    <3> QED
      BY <2>2, <2>3, <3>1, <3>2 DEF Read, IsDocument
  <2>4. CASE k \notin DOMAIN doc.number
    <3>1. Default[k] >= Least(k)
      BY <1>1, <1>3, SMTT(60)
         DEF Refusing, Capacities, Runtime, Default, Least, Gates
    <3> QED
      BY <2>2, <2>4, <3>1 DEF Read
  <2> QED
    BY <2>3, <2>4
<1> QED
  BY <1>2, <1>3 DEF Refusing

(* The parameters an accepted document gives the parts of the pipeline      *)
(* satisfy what the modules of those parts assume of their constants.       *)
THEOREM OptionsFit ==
  ASSUME NEW doc, IsDocument(doc), Accepted(doc),
         NEW o, o = Options(Parsed(doc))
  PROVE  /\ o.AnonymizerCap \in Nat \ {0} /\ o.EncoderCap \in Nat \ {0}
         /\ o.Anonymizers \in Nat \ {0}
         /\ o.ReorderWindow \in Nat /\ o.PendingLimit \in Nat \ {0}
         /\ o.FaceMode \in {"disabled", "assigned", "independent"}
         /\ o.CacheTTL \in Nat \ {0}
         /\ o.MaxPeers \in Nat \ {0}
         /\ o.TrackBuffer \in Nat \ {0}
<1> DEFINE cfg == Parsed(doc)
<1>1. \A k \in Keys : cfg.number[k] = Number(doc, k) /\ cfg.number[k] \in Int
  BY NumberIsInt DEF Parsed
<1>2. {"anonymizer_in", "encoder_in", "anonymizer_workers", "reorder_window",
       "pending_state_limit", "cache_ttl_frames", "max_peers_per_stream", "track_buffer"}
        \subseteq Keys
  BY DEF Keys, Capacities, Instances, Runtime, Recognizer, Streaming, Unchecked
<1>3. \A k \in {"anonymizer_in", "encoder_in"} : cfg.number[k] >= Least(k) /\ Least(k) = 1
  BY DEF Accepted, Valid, ValidRuntime, Enough, Capacities, Least, Gates
<1>4. cfg.number["cache_ttl_frames"] >= 1
  <2>1. cfg.number["cache_ttl_frames"] >= Least("cache_ttl_frames")
    BY DEF Accepted, Valid, ValidModules, Enough, Recognizer
  <2> QED
    BY <2>1 DEF Least, Gates
<1>5. cfg.number["max_peers_per_stream"] >= 1
  <2>1. cfg.number["max_peers_per_stream"] >= Least("max_peers_per_stream")
    BY DEF Accepted, Valid, ValidStreaming, Enough, Streaming
  <2> QED
    BY <2>1 DEF Least, Gates
<1>6. o = Options(cfg)
  OBVIOUS
<1> HIDE DEF cfg
<1>7. o.AnonymizerCap \in Nat \ {0} /\ o.EncoderCap \in Nat \ {0}
  <2>1. o.AnonymizerCap = cfg.number["anonymizer_in"] /\ o.EncoderCap = cfg.number["encoder_in"]
    BY <1>6 DEF Options
  <2> QED
    BY <1>1, <1>2, <1>3, <2>1
<1>8. /\ o.Anonymizers \in Nat \ {0} /\ o.TrackBuffer \in Nat \ {0}
      /\ o.ReorderWindow \in Nat /\ o.PendingLimit \in Nat \ {0}
  <2>1. /\ o.Anonymizers = Highest(1, cfg.number["anonymizer_workers"])
        /\ o.TrackBuffer = Highest(1, cfg.number["track_buffer"])
        /\ o.ReorderWindow = Highest(0, cfg.number["reorder_window"])
        /\ o.PendingLimit = Highest(1, cfg.number["pending_state_limit"])
    BY <1>6 DEF Options
  <2> QED
    BY <1>1, <1>2, <2>1 DEF Highest
<1>9. o.FaceMode \in {"disabled", "assigned", "independent"}
  <2>1. o.FaceMode = FaceModeOf(cfg)
    BY <1>6 DEF Options
  <2> QED
    BY <2>1 DEF FaceModeOf
<1>10. o.CacheTTL \in Nat \ {0} /\ o.MaxPeers \in Nat \ {0}
  <2>1. o.CacheTTL = cfg.number["cache_ttl_frames"] /\ o.MaxPeers = cfg.number["max_peers_per_stream"]
    BY <1>6 DEF Options
  <2> QED
    BY <1>1, <1>2, <1>4, <1>5, <2>1
<1> QED
  BY <1>7, <1>8, <1>9, <1>10

(* Every stream of an accepted document has at least one copy, so that the  *)
(* answer "no streams configured" of reload, of validation and of start is  *)
(* never given.                                                             *)
THEOREM StreamsExpand ==
  ASSUME NEW doc, IsDocument(doc), Accepted(doc),
         NEW streams, streams = Parsed(doc).streams
  PROVE  /\ \A i \in DOMAIN streams : <<i, 0>> \in Copies(streams)
         /\ Copies(streams) # {}
<1>1. DOMAIN streams = 1..Len(doc.streams)
  BY DEF Parsed
<1>2. \A i \in DOMAIN streams : streams[i].count \in Int
  <2> SUFFICES ASSUME NEW i \in DOMAIN streams PROVE streams[i].count \in Int
    OBVIOUS
  <2>1. streams[i] = Stream(doc.streams[i]) /\ i \in DOMAIN doc.streams
    BY <1>1 DEF Parsed, IsDocument
  <2>2. doc.streams[i].count \in Int
    BY <2>1 DEF IsDocument, IsStream
  <2>3. streams[i].count = Highest(1, doc.streams[i].count) \/ streams[i].count = doc.streams[i].count
    BY <2>1 DEF Stream
  <2> QED
    BY <2>2, <2>3 DEF Highest
<1>3. ASSUME NEW i \in DOMAIN streams PROVE <<i, 0>> \in Copies(streams)
  <2>1. 0 \in 0..(Highest(1, streams[i].count) - 1)
    BY <1>2 DEF Highest
  <2> QED
    BY <2>1 DEF Copies
<1>4. 1 \in DOMAIN streams
  <2>1. Len(doc.streams) \in Nat /\ DOMAIN doc.streams = 1..Len(doc.streams)
    BY DEF IsDocument
  <2>2. Len(doc.streams) # 0
    BY <2>1 DEF Accepted, Refused
  <2> QED
    BY <1>1, <2>1, <2>2
<1> QED
  BY <1>3, <1>4

(* When no two copies have the same id every copy has the pipe that was     *)
(* made for it, and start() assigns no thread twice.                        *)
THEOREM DistinctIdsKeepApart ==
  ASSUME NEW n \in Nat, NEW streams, DOMAIN streams = 1..n,
         \A i \in 1..n : streams[i].count \in Int,
         Distinct(streams)
  PROVE  /\ \A c \in Copies(streams) : ThreadPipe(streams, c) = c
         /\ ~AssignsTwice(streams)
<1>1. ASSUME NEW c \in Copies(streams) PROVE ~Precedes(c, c)
  <2>1. PICK i \in 1..n : c \in {i} \X (0..(Highest(1, streams[i].count) - 1))
    BY DEF Copies
  <2> QED
    BY <2>1 DEF Precedes
<1>2. ASSUME NEW c \in Copies(streams) PROVE ThreadPipe(streams, c) = c
  <2> DEFINE Last(d) == /\ IdOf(streams, d) = IdOf(streams, c)
                        /\ \A e \in Copies(streams) :
                             IdOf(streams, e) = IdOf(streams, c) => ~Precedes(d, e)
  <2>1. Last(c)
    BY <1>1 DEF Distinct
  <2>2. \A d \in Copies(streams) : Last(d) => d = c
    BY DEF Distinct
  <2>3. (CHOOSE d \in Copies(streams) : Last(d)) = c
    <3> HIDE DEF Last
    <3> QED
      BY <2>1, <2>2
  <2> QED
    BY <2>3 DEF ThreadPipe, PipeOf
<1> QED
  BY <1>2 DEF AssignsTwice

(* A stream as a document gives it.                                         *)
StreamRecord ==
  [id : STRING, type : STRING, address : STRING, deprecated : BOOLEAN,
   profiles : SUBSET {"inference", "ui", "other"}, fps : Int, count : Int, ids : Seq(STRING),
   capture : [{"width", "height", "fps"} -> Int]]

Named(streams, name) == [k \in DOMAIN streams |-> [streams[k] EXCEPT !.id = name[k]]]

(* Neither the parser nor validate_config looks at an id: a document stays  *)
(* accepted whatever its streams are called, and with one name for two of   *)
(* one copy each whose sources exist, start() assigns a running thread.     *)
THEOREM IdsAreNotChecked ==
  ASSUME NEW doc, IsDocument(doc), doc.streams \in Seq(StreamRecord), Accepted(doc),
         NEW name \in [DOMAIN doc.streams -> STRING],
         NEW other, other.streams = Named(doc.streams, name),
         other.number = doc.number, other.legacy = doc.legacy, other.text = doc.text,
         other.face = doc.face, other.broken = doc.broken, other.unsupported = doc.unsupported
  PROVE  /\ Accepted(other)
         /\ \A i, j \in DOMAIN doc.streams :
              /\ i # j /\ name[i] = name[j]
              /\ doc.streams[i].count <= 1 /\ doc.streams[j].count <= 1
              /\ SourceExists(doc.streams[i]) /\ SourceExists(doc.streams[j])
              => AssignsTwice(Parsed(other).streams)
<1> DEFINE n == Len(doc.streams)
           streams == Parsed(other).streams
<1>1. n \in Nat /\ DOMAIN doc.streams = 1..n /\ DOMAIN other.streams = 1..n
  BY DEF IsDocument, Named
<1>2. Len(other.streams) = n
  BY <1>1 DEF Named
<1>3. ASSUME NEW k \in 1..n
      PROVE  /\ doc.streams[k] \in StreamRecord
             /\ other.streams[k] = [doc.streams[k] EXCEPT !.id = name[k]]
             /\ streams[k] = Stream(other.streams[k])
  BY <1>1, <1>2, <1>3 DEF Named, Parsed
<1>4. ASSUME NEW k \in 1..n
      PROVE  /\ other.streams[k].id = name[k]
             /\ other.streams[k].type = doc.streams[k].type
             /\ other.streams[k].address = doc.streams[k].address
             /\ other.streams[k].deprecated = doc.streams[k].deprecated
             /\ other.streams[k].profiles = doc.streams[k].profiles
             /\ other.streams[k].fps = doc.streams[k].fps
             /\ other.streams[k].count = doc.streams[k].count
             /\ other.streams[k].capture = doc.streams[k].capture
             /\ other.streams[k] \in StreamRecord
  <2> DEFINE t == doc.streams[k]
             u == other.streams[k]
  <2>1. name[k] \in STRING
    BY <1>1, <1>4
  <2>2. t \in StreamRecord /\ u = [t EXCEPT !.id = name[k]]
    BY <1>3
  <2> HIDE DEF t, u
  <2>3. /\ u.id = name[k] /\ u.type = t.type /\ u.address = t.address
        /\ u.deprecated = t.deprecated /\ u.profiles = t.profiles /\ u.fps = t.fps
        /\ u.count = t.count /\ u.capture = t.capture
    BY <2>2 DEF StreamRecord
  <2>4. u \in StreamRecord
    BY <2>1, <2>2 DEF StreamRecord
  <2> QED
    BY <2>3, <2>4 DEF t, u
<1>5. Accepted(other)
  <2>1. ASSUME NEW k \in Keys PROVE Number(other, k) = Number(doc, k)
    BY DEF Number, Read
  <2>2. ASSUME NEW k \in DOMAIN DefaultText PROVE Text(other, k) = Text(doc, k)
    BY DEF Text
  <2>3. Parsed(other).number = Parsed(doc).number /\ Parsed(other).text = Parsed(doc).text
    BY <2>1, <2>2 DEF Parsed
  <2>4. Valid(Parsed(other))
    BY <2>3 DEF Accepted, Valid, ValidStreaming, ValidRuntime, ValidModules, Enough
  <2>5. ASSUME NEW k \in 1..n, StreamRefused(other.streams[k]) PROVE StreamRefused(doc.streams[k])
    <3> DEFINE Lacks(t) == \/ t.profiles # {} /\ t.fps <= 0
                           \/ t.type = "rtsp" /\ t.address = ""
                           \/ t.type = "webcam" /\ t.address = ""
                           \/ /\ t.type = "webcam"
                              /\ \E d \in {"width", "height", "fps"} : t.capture[d] < 1
    <3>1. \A t : StreamRefused(t) <=> t.deprecated \/ Lacks(t)
      BY Zenon DEF StreamRefused
    <3>2. Lacks(other.streams[k]) => Lacks(doc.streams[k])
      BY <1>4
    <3> HIDE DEF Lacks
    <3> QED
      BY <1>4, <2>5, <3>1, <3>2, Zenon
  <2>6. TooSmall(other) => TooSmall(doc)
    BY DEF TooSmall
  <2>7. ~Refused(other)
    BY <1>1, <1>2, <2>5, <2>6 DEF Accepted, Refused
  <2> QED
    BY <2>4, <2>7 DEF Accepted
<1>6. ASSUME NEW i \in 1..n, NEW j \in 1..n, i # j, name[i] = name[j],
             doc.streams[i].count <= 1, doc.streams[j].count <= 1,
             SourceExists(doc.streams[i]), SourceExists(doc.streams[j])
      PROVE  AssignsTwice(streams)
  <2>1. ASSUME NEW k \in {i, j}
        PROVE  /\ streams[k].id = name[k] /\ streams[k].count = 1
               /\ SourceExists(streams[k])
    <3>1. k \in 1..n /\ doc.streams[k].count <= 1 /\ doc.streams[k].count \in Int
      BY <1>3, <1>6, <2>1 DEF StreamRecord
    <3>2. other.streams[k] \in StreamRecord
      BY <1>4, <3>1
    <3>3. streams[k] = [other.streams[k] EXCEPT !.count = Highest(1, other.streams[k].count)]
      BY <1>3, <3>1 DEF Stream
    <3>4. /\ streams[k].id = other.streams[k].id /\ streams[k].type = other.streams[k].type
          /\ streams[k].profiles = other.streams[k].profiles
          /\ streams[k].count = Highest(1, other.streams[k].count)
      BY <3>2, <3>3 DEF StreamRecord
    <3>5. Highest(1, other.streams[k].count) = 1
      BY <1>4, <3>1 DEF Highest
    <3> QED
      BY <1>4, <1>6, <3>1, <3>4, <3>5 DEF SourceExists
  <2>2. ASSUME NEW k \in {i, j}
        PROVE  <<k, 0>> \in Copies(streams) /\ IdOf(streams, <<k, 0>>) = name[k]
    <3>1. k \in DOMAIN streams /\ Highest(1, streams[k].count) = 1
      BY <1>2, <2>1 DEF Parsed, Highest
    <3>2. <<k, 0>> \in {k} \X (0..(Highest(1, streams[k].count) - 1))
      BY <3>1
    <3> QED
      BY <2>1, <3>1, <3>2 DEF Copies, IdOf, CopyId
  <2> QED
    BY <1>6, <2>1, <2>2 DEF AssignsTwice, ThreadPipe
<1> QED
  BY <1>1, <1>5, <1>6
=============================================================================
