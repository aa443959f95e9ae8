------------------------ MODULE RunnerProcess_proofs ------------------------
(***************************************************************************)
(* Proofs about the runner's process and about its client.                 *)
(*                                                                         *)
(* RunnerProcess, for any number of callers, readers and frames: what a    *)
(* reader that sleeps has sent, which readers stop() can overlook, and that*)
(* no Start call outlives runner.stop().                                   *)
(*                                                                         *)
(* RunnerClient, for any number of pages, calls and statuses and queues of *)
(* any capacity: the latest status is shown or on its way to all whom the  *)
(* history does not name.                                                  *)
(***************************************************************************)
EXTENDS RunnerProcess, RunnerClient, TLAPS

MainSteps == {"serving", "stopped", "draining", "closing", "notify", "join", "ended"}
Methods == {"start", "stop", "status"}
ReaderSteps == {"away", "looping", "testing", "tested", "asleep", "writing"}

TypeOK ==
  /\ main \in MainSteps /\ signalled \in BOOLEAN
  /\ pipeline \in BOOLEAN /\ accepting \in BOOLEAN
  /\ call \in [Callers -> Methods \cup {"none", "over"}]
  /\ watch \in {"none", "open", "cancelled"}
  /\ running \in BOOLEAN /\ notifying \in BOOLEAN
  /\ seq \in Nat
  /\ reader \in [Readers -> ReaderSteps]
  /\ sent \in [Readers -> Nat]
  /\ overlooked \subseteq Readers

(* What the main thread has done so far.                                    *)
PhaseInv ==
  /\ accepting => main \in {"serving", "stopped"}
  /\ running <=> main \in {"serving", "stopped", "draining", "closing"}
  /\ notifying => pipeline

(* A reader keeps the mutex from its test until it sleeps, so that nothing  *)
(* is pushed between the two; what is pushed then wakes it.                 *)
AsleepInv ==
  \A r \in Readers :
    /\ reader[r] = "tested" => sent[r] = seq
    /\ reader[r] = "asleep" /\ ~notifying => sent[r] = seq

(* Nobody tests any more once the readers have been notified.               *)
OverlookedInv ==
  main = "join" => \A r \in Readers : reader[r] \in {"tested", "asleep"} => r \in overlooked

Inv == TypeOK /\ PhaseInv /\ AsleepInv /\ OverlookedInv /\ StoppedForGood

(* The steps of the readers, of the main thread and of the calls.           *)
ReaderStep == \E r \in Readers : OpenVideo(r) \/ Read(r)
MainStep == StopRunner \/ Shutdown \/ DestroyRuntime \/ StopHttp \/ JoinServer

LEMMA TypeOKInductive == TypeOK /\ [Next]_vars => TypeOK'
<1> SUFFICES ASSUME TypeOK, [Next]_vars PROVE TypeOK'
  OBVIOUS
<1> USE DEF TypeOK, MainSteps, Methods, ReaderSteps, process, rpc, readers
<1>1. ASSUME NEW c \in Callers, Call(c) PROVE TypeOK'
  BY <1>1 DEF Call
<1>0. ASSUME NEW c \in Callers, Answer(c) PROVE TypeOK'
  <2>1. pipeline' \in BOOLEAN
    BY <1>0 DEF Answer
  <2>2. call' \in [Callers -> Methods \cup {"none", "over"}]
    BY <1>0 DEF Answer
  <2>3. UNCHANGED <<main, signalled, accepting, watch, running, seq, notifying, reader, sent,
                    overlooked>>
    BY <1>0 DEF Answer
  <2>4. QED
    BY <2>1, <2>2, <2>3
<1>2. CASE WatchTelemetry \/ EndWatch
  BY <1>2 DEF WatchTelemetry, EndWatch
<1>3. CASE PushJpeg
  BY <1>3 DEF PushJpeg
<1>4. CASE Notify
  BY <1>4 DEF Notify, Woken
<1>5. ASSUME NEW r \in Readers, OpenVideo(r) PROVE TypeOK'
  BY <1>5 DEF OpenVideo, Reading
<1>6. ASSUME NEW r \in Readers, Read(r) PROVE TypeOK'
  BY <1>6 DEF Read, LeaveLoop, EnterLoop, TakeFrame, TestFails, Sleep, Write, Reading
<1>7. CASE Signal
  BY <1>7 DEF Signal
<1>8. CASE StopRunner \/ Shutdown \/ DestroyRuntime \/ JoinServer
  BY <1>8 DEF StopRunner, Shutdown, DestroyRuntime, JoinServer, Main
<1>9. CASE StopHttp
  BY <1>9 DEF StopHttp, ClearRunning, NotifyReaders, Main, Woken
<1>10. CASE UNCHANGED vars
  BY <1>10 DEF vars
<1>11. QED
  BY <1>0, <1>1, <1>2, <1>3, <1>4, <1>5, <1>6, <1>7, <1>8, <1>9, <1>10 DEF Next

LEMMA PhaseInvInductive == TypeOK /\ PhaseInv /\ [Next]_vars => PhaseInv'
<1> SUFFICES ASSUME TypeOK, PhaseInv, [Next]_vars PROVE PhaseInv'
  OBVIOUS
<1> USE DEF TypeOK, MainSteps, PhaseInv, process, rpc, readers
<1>1. ASSUME NEW c \in Callers, Call(c) \/ Answer(c) PROVE PhaseInv'
  <2>1. UNCHANGED <<main, running, notifying>> /\ (accepting' = accepting)
    BY <1>1 DEF Call, Answer
  <2>2. pipeline' = pipeline \/ pipeline' = TRUE \/ notifying = FALSE
    BY <1>1 DEF Call, Answer, NobodyPushes
  <2>3. notifying' => pipeline'
    BY <2>1, <2>2, Zenon
  <2>4. QED
    BY <2>1, <2>3
<1>2. CASE WatchTelemetry \/ EndWatch \/ PushJpeg \/ Notify \/ Signal
  BY <1>2 DEF WatchTelemetry, EndWatch, PushJpeg, Notify, Signal
<1>3. ASSUME NEW r \in Readers, OpenVideo(r) \/ Read(r) PROVE PhaseInv'
  BY <1>3 DEF OpenVideo, Read, LeaveLoop, EnterLoop, TakeFrame, TestFails, Sleep, Write,
              Reading
<1>4. CASE MainStep
  BY <1>4 DEF MainStep, StopRunner, Shutdown, DestroyRuntime, StopHttp, ClearRunning,
              NotifyReaders, JoinServer, Main, NobodyPushes
<1>5. CASE UNCHANGED vars
  BY <1>5 DEF vars
<1>6. QED
  BY <1>1, <1>2, <1>3, <1>4, <1>5 DEF Next, MainStep

LEMMA AsleepInvInductive == TypeOK /\ AsleepInv /\ [Next]_vars => AsleepInv'
<1> SUFFICES ASSUME TypeOK, AsleepInv, [Next]_vars PROVE AsleepInv'
  OBVIOUS
<1> USE DEF TypeOK, AsleepInv, readers
<1>1. ASSUME UNCHANGED <<reader, sent, seq, notifying>> PROVE AsleepInv'
  BY <1>1
<1>2. CASE PushJpeg
  BY <1>2 DEF PushJpeg, PushLock, Unlocked
<1>3. CASE Notify
  BY <1>3 DEF Notify, Woken
<1>4. ASSUME NEW r \in Readers, OpenVideo(r) PROVE AsleepInv'
  BY <1>4 DEF OpenVideo, Reading
<1>5. ASSUME NEW r \in Readers, Read(r) PROVE AsleepInv'
  <2>1. CASE LeaveLoop(r) \/ EnterLoop(r) \/ Write(r)
    BY <2>1 DEF LeaveLoop, EnterLoop, Write, Reading
  <2>2. CASE TakeFrame(r)
    BY <2>2 DEF TakeFrame, Reading
  <2>3. CASE TestFails(r)
    BY <2>3 DEF TestFails, Reading
  <2>4. CASE Sleep(r)
    BY <2>4 DEF Sleep, Reading
  <2>5. QED
    BY <1>5, <2>1, <2>2, <2>3, <2>4 DEF Read
<1>6. CASE NotifyReaders
  BY <1>6 DEF NotifyReaders, Woken
<1>7. CASE ~PushJpeg /\ ~Notify /\ ~ReaderStep /\ ~NotifyReaders
  BY <1>1, <1>7 DEF Next, vars, ReaderStep, Call, Answer, WatchTelemetry, EndWatch, Signal,
     StopRunner, Shutdown, DestroyRuntime, StopHttp, ClearRunning, JoinServer
<1>8. QED
  BY <1>2, <1>3, <1>4, <1>5, <1>6, <1>7 DEF ReaderStep

LEMMA OverlookedInvInductive ==
  TypeOK /\ PhaseInv /\ OverlookedInv /\ [Next]_vars => OverlookedInv'
<1> SUFFICES ASSUME TypeOK, PhaseInv, OverlookedInv, [Next]_vars PROVE OverlookedInv'
  OBVIOUS
<1> USE DEF TypeOK, MainSteps, PhaseInv, OverlookedInv, process, readers
<1>1. ASSUME UNCHANGED <<main, reader, overlooked>> PROVE OverlookedInv'
  BY <1>1
<1>2. CASE Notify
  BY <1>2 DEF Notify, Woken
<1>3. ASSUME NEW r \in Readers, OpenVideo(r) \/ Read(r) PROVE OverlookedInv'
  <2>1. CASE main # "join"
    BY <1>3, <2>1 DEF OpenVideo, Read, LeaveLoop, EnterLoop, TakeFrame, TestFails, Sleep,
                      Write, Reading
  <2>2. CASE main = "join"
    BY <1>3, <2>2 DEF OpenVideo, Read, LeaveLoop, EnterLoop, TakeFrame, TestFails, Sleep,
                      Write, Reading
  <2>3. QED
    BY <2>1, <2>2
<1>4. CASE NotifyReaders
  BY <1>4 DEF NotifyReaders, Main, Woken
<1>5. CASE StopRunner \/ Shutdown \/ DestroyRuntime \/ ClearRunning \/ JoinServer
  BY <1>5 DEF StopRunner, Shutdown, DestroyRuntime, ClearRunning, JoinServer, Main
<1>6. CASE ~Notify /\ ~ReaderStep /\ ~MainStep
  BY <1>1, <1>6 DEF Next, vars, ReaderStep, MainStep, Call, Answer, WatchTelemetry, EndWatch,
     PushJpeg, Signal
<1>7. QED
  BY <1>2, <1>3, <1>4, <1>5, <1>6 DEF ReaderStep, MainStep, StopHttp

LEMMA StoppedInductive ==
  TypeOK /\ PhaseInv /\ StoppedForGood /\ [Next]_vars => StoppedForGood'
<1> SUFFICES ASSUME TypeOK, PhaseInv, StoppedForGood, [Next]_vars PROVE StoppedForGood'
  OBVIOUS
<1> USE DEF TypeOK, MainSteps, PhaseInv, StoppedForGood, process, rpc
<1>1. ASSUME UNCHANGED <<main, pipeline, call>> PROVE StoppedForGood'
  BY <1>1
<1>2. ASSUME NEW c \in Callers, Call(c) PROVE StoppedForGood'
  BY <1>2 DEF Call
<1>3. ASSUME NEW c \in Callers, Answer(c) PROVE StoppedForGood'
  BY <1>3 DEF Answer
<1>4. CASE StopRunner \/ Shutdown
  BY <1>4 DEF StopRunner, Shutdown, Main
<1>5. CASE DestroyRuntime
  BY <1>5 DEF DestroyRuntime, Drained, Main
<1>6. CASE StopHttp \/ JoinServer
  BY <1>6 DEF StopHttp, ClearRunning, NotifyReaders, JoinServer, Main
<1>7. CASE ~MainStep /\ ~\E c \in Callers : Call(c) \/ Answer(c)
  BY <1>1, <1>7 DEF Next, vars, MainStep, WatchTelemetry, EndWatch, PushJpeg, Notify, Signal,
     OpenVideo, Read, LeaveLoop, EnterLoop, TakeFrame, TestFails, Sleep, Write, Reading
<1>8. QED
  BY <1>2, <1>3, <1>4, <1>5, <1>6, <1>7 DEF MainStep

LEMMA InvCorrect == Spec => []Inv
<1>1. Init => Inv
  <2> SUFFICES ASSUME Init PROVE Inv
    OBVIOUS
  <2>1. TypeOK
    BY DEF Init, TypeOK, MainSteps, Methods, ReaderSteps
  <2>2. PhaseInv
    BY DEF Init, PhaseInv
  <2>3. AsleepInv /\ OverlookedInv /\ StoppedForGood
    BY DEF Init, AsleepInv, OverlookedInv, StoppedForGood
  <2>4. QED
    BY <2>1, <2>2, <2>3 DEF Inv
<1>2. Inv /\ [Next]_vars => Inv'
  BY TypeOKInductive, PhaseInvInductive, AsleepInvInductive, OverlookedInvInductive,
     StoppedInductive DEF Inv
<1>3. QED
  BY <1>1, <1>2, PTL DEF Spec

(* No reader sleeps through a frame: one that sleeps after a push has       *)
(* notified has sent the newest frame, however pushes and readers mix.      *)
THEOREM ReadersSeePushes == Spec => []NoReaderMissesPush
<1>1. Inv => NoReaderMissesPush
  BY DEF Inv, AsleepInv, NoReaderMissesPush
<1>2. QED
  BY <1>1, InvCorrect, PTL

(* A reader that stop() leaves asleep was between its test and its sleep    *)
(* when stop() notified without the mutex; there is no other way to hang.   *)
THEOREM OnlyBetweenHangs == Spec => []HungOnlyIfBetween
<1>1. Inv => HungOnlyIfBetween
  BY DEF Inv, OverlookedInv, HungOnlyIfBetween
<1>2. QED
  BY <1>1, InvCorrect, PTL

(* No Start call that was under way at runner.stop() leaves a pipeline      *)
(* behind when the manager is destroyed.                                    *)
THEOREM NothingRestarted == Spec => []StoppedForGood
<1>1. Inv => StoppedForGood
  BY DEF Inv
<1>2. QED
  BY <1>1, InvCorrect, PTL


-----------------------------------------------------------------------------
(* The way of a status to the pages.                                        *)

Versions ==
  /\ up \in BOOLEAN /\ version \in Nat /\ version > 0
  /\ cached \in 0..version /\ news \in 0..version
  /\ shown \in [Pages -> 0..version] /\ answer \in [Pages -> 0..version]

(* Calls are made in turn, and none survives a crash of the runner. *)
CallInv ==
  /\ calls \in 0..MaxCalls /\ current \in 0..calls
  /\ task = "watching" <=> current # 0
  /\ subscription \in [1..MaxCalls -> {"new", "open", "leaving", "closed"}]
  /\ \A w \in 1..MaxCalls : w > calls => subscription[w] = "new"
  /\ ~up => \A w \in 1..calls : subscription[w] = "closed"

Told == {w \in 1..MaxCalls : subscription[w] # "new"}
StatusesUpTo(v) == {Frame} \cup {Status(n) : n \in 1..v}
Contains(q, v) == \E i \in DOMAIN q : q[i] = Status(v)

(* An older status in a queue is followed by the latest, unless that is     *)
(* still to come.                                                           *)
Ordered(q, v, come) ==
  \A i \in DOMAIN q :
    \/ q[i] = Frame \/ q[i] = Status(v) \/ come
    \/ \E j \in DOMAIN q : i < j /\ q[j] = Status(v)

ToCome == <<current, Status(version)>> \in pending["manager"]
QueueInv ==
  /\ queue \in [1..MaxCalls -> Seq(StatusesUpTo(version))]
  /\ \A w \in 1..MaxCalls : subscription[w] = "new" => queue[w] = <<>>
  /\ DOMAIN pending = {"manager", "pipeline"}
  /\ pending = [p \in {"manager", "pipeline"} |-> pending[p]]
  /\ pending["manager"] \subseteq Told \X {Status(version)}
  /\ pending["pipeline"] \subseteq Told \X {Frame}
  /\ ~up => pending["manager"] = {}
  /\ Subscribed => Ordered(queue[current], version, ToCome)

SocketInv ==
  /\ page \in [Pages -> {"away", "opening", "open", "gone"}]
  /\ poll \in [Pages -> {"idle", "sent", "answered", "stored"}]
  /\ sockets \cup targets \cup stale \subseteq Pages
  /\ \A p \in sockets \cup targets : page[p] \in {"open", "gone"}
  /\ \A p \in stale : page[p] = "gone"
  /\ \A p \in Pages :
       /\ page[p] = "open" => p \in sockets
       /\ page[p] = "away" => poll[p] = "idle"
       /\ page[p] \in {"away", "gone"} => shown[p] = 0

(* Whoever has not missed the latest status shows it, or it is on its way.  *)
Coming == Subscribed /\ (ToCome \/ Contains(queue[current], version))
OnItsWay(p) ==
  \/ Coming
  \/ news = version /\ p \in targets
  \/ poll[p] = "sent"
  \/ poll[p] \in {"answered", "stored"} /\ answer[p] = version

CacheFresh == cached = version \/ Coming
PageFresh(p) == page[p] \in {"opening", "open"} /\ (shown[p] = version \/ OnItsWay(p))

FreshInv ==
  /\ misled \subseteq Everyone
  /\ Cache \in misled \/ CacheFresh
  /\ \A p \in Pages : p \in misled \/ PageFresh(p)

ClientInv == Versions /\ CallInv /\ QueueInv /\ SocketInv /\ FreshInv

-----------------------------------------------------------------------------
LEMMA PushShape ==
  ASSUME NEW S, NEW q \in Seq(S), NEW e \in S, e.kind # "metrics"
  PROVE  /\ Hub!Push(q, e) = Append(IF Len(q) >= SubscriberCapacity THEN Tail(q) ELSE q, e)
         /\ Hub!Push(q, e) \in Seq(S)
<1>1. Hub!Push(q, e) = Append(IF Len(q) >= SubscriberCapacity THEN Tail(q) ELSE q, e)
  BY DEF Hub!Push
<1>2. Len(q) >= SubscriberCapacity => q # <<>>
  BY ClientAssumption
<1>3. QED
  BY <1>1, <1>2

(* A push keeps the order, whatever it pushes out.                          *)
LEMMA PushOrdered ==
  ASSUME NEW S, NEW q \in Seq(S), NEW e \in S, NEW v, NEW come \in BOOLEAN,
         NEW come2 \in BOOLEAN,
         Ordered(q, v, come), (e = Frame /\ come2 = come) \/ e = Status(v)
  PROVE  Ordered(Hub!Push(q, e), v, come2)
<1>1. e.kind # "metrics"
  BY DEF Frame, Status
<1>2. CASE Len(q) >= SubscriberCapacity
  <2>1. q # <<>>
    BY <1>2, ClientAssumption
  <2>2. Hub!Push(q, e) = Append(Tail(q), e)
    BY <1>1, <1>2, PushShape
  <2> DEFINE r == Append(Tail(q), e)
             n == Len(q)
  <2>9. Len(r) = n
    BY <2>1
  <2>3. /\ DOMAIN r = 1..n /\ r[n] = e
        /\ \A i \in 1..n : i # n => r[i] = q[i + 1]
    BY <2>1
  <2>4. DOMAIN q = 1..n /\ n \in Nat /\ n > 0
    BY <2>1
  <2> HIDE DEF r, n
  <2>5. Ordered(r, v, come2)
    <3>1. ASSUME NEW i \in 1..n, i # n, e = Frame, NEW j \in 1..n,
                 i + 1 < j, q[j] = Status(v)
          PROVE  \E k \in DOMAIN r : i < k /\ r[k] = Status(v)
      <4>1. j - 1 \in 1..n /\ j - 1 # n /\ i < j - 1 /\ (j - 1) + 1 = j
        BY <3>1, <2>4
      <4>2. r[j - 1] = Status(v)
        BY <4>1, <2>3, <3>1
      <4>3. QED
        BY <4>1, <4>2, <2>3
    <3>2. ASSUME NEW i \in 1..n, i # n, e = Frame
          PROVE  \/ r[i] = Frame \/ r[i] = Status(v) \/ come2
                 \/ \E j \in DOMAIN r : i < j /\ r[j] = Status(v)
      <4>1. i + 1 \in DOMAIN q /\ r[i] = q[i + 1]
        BY <3>2, <2>3, <2>4
      <4>2. \/ q[i + 1] = Frame \/ q[i + 1] = Status(v) \/ come
            \/ \E j \in DOMAIN q : i + 1 < j /\ q[j] = Status(v)
        BY <4>1 DEF Ordered
      <4>3. come2 = come
        BY <3>2 DEF Frame, Status
      <4>4. QED
        BY <4>1, <4>2, <4>3, <3>1, <3>2, <2>4
    <3>3. CASE e = Frame
      BY <3>2, <3>3, <2>3 DEF Ordered
    <3>4. CASE e = Status(v)
      BY <3>4, <2>3, <2>4 DEF Ordered
    <3>5. QED
      BY <3>3, <3>4
  <2>6. QED
    BY <2>2, <2>5 DEF r
<1>3. CASE ~(Len(q) >= SubscriberCapacity)
  <2>1. Hub!Push(q, e) = Append(q, e)
    BY <1>1, <1>3, PushShape
  <2> DEFINE r == Append(q, e)
  <2>2. /\ DOMAIN r = 1..(Len(q) + 1) /\ r[Len(q) + 1] = e
        /\ \A i \in 1..Len(q) : r[i] = q[i]
    OBVIOUS
  <2>3. DOMAIN q = 1..Len(q) /\ Len(q) \in Nat
    OBVIOUS
  <2> HIDE DEF r
  <2>4. CASE e = Frame
    <3>1. come2 = come
      BY <2>4 DEF Frame, Status
    <3>2. \A i \in 1..Len(q) :
            \/ q[i] = Frame \/ q[i] = Status(v) \/ come
            \/ \E j \in 1..Len(q) : i < j /\ q[j] = Status(v)
      BY <2>3 DEF Ordered
    <3>3. ASSUME NEW i \in DOMAIN r
          PROVE  \/ r[i] = Frame \/ r[i] = Status(v) \/ come2
                 \/ \E j \in DOMAIN r : i < j /\ r[j] = Status(v)
      <4>1. CASE i = Len(q) + 1
        BY <4>1, <2>2, <2>4
      <4>2. CASE i \in 1..Len(q)
        BY <4>2, <2>2, <2>3, <3>1, <3>2
      <4>3. QED
        BY <4>1, <4>2, <2>2, <2>3
    <3>4. QED
      BY <2>1, <3>3 DEF Ordered, r
  <2>5. CASE e = Status(v)
    <3>1. ASSUME NEW i \in DOMAIN r
          PROVE  r[i] = Status(v) \/ \E j \in DOMAIN r : i < j /\ r[j] = Status(v)
      <4>1. i = Len(q) + 1 \/ i < Len(q) + 1
        BY <2>2, <2>3
      <4>2. Len(q) + 1 \in DOMAIN r
        BY <2>2, <2>3
      <4>3. QED
        BY <4>1, <4>2, <2>2, <2>5
    <3>2. QED
      BY <2>1, <3>1 DEF Ordered, r
  <2>6. QED
    BY <2>4, <2>5
<1>4. QED
  BY <1>2, <1>3

(* What a push does with the latest status: it comes in, stays, or was at   *)
(* the head of a full queue and falls out.                                  *)
LEMMA PushKeeps ==
  ASSUME NEW S, NEW q \in Seq(S), NEW e \in S, NEW v, e = Frame \/ e = Status(v),
         Contains(q, v) \/ e = Status(v)
  PROVE  \/ Contains(Hub!Push(q, e), v)
         \/ /\ q # <<>> /\ Head(q).kind = "status"
            /\ Hub!Push(q, e) # q /\ Len(Hub!Push(q, e)) = Len(q)
<1>1. e.kind # "metrics"
  BY DEF Frame, Status
<1>2. CASE Len(q) >= SubscriberCapacity
  <2>1. q # <<>>
    BY <1>2, ClientAssumption
  <2>2. Hub!Push(q, e) = Append(Tail(q), e)
    BY <1>1, <1>2, PushShape
  <2> DEFINE r == Append(Tail(q), e)
             n == Len(q)
  <2>9. Len(r) = n
    BY <2>1
  <2>3. /\ DOMAIN r = 1..n /\ r[n] = e
        /\ \A i \in 1..n : i # n => r[i] = q[i + 1]
    BY <2>1
  <2>4. DOMAIN q = 1..n /\ n \in Nat /\ n > 0 /\ Head(q) = q[1]
    BY <2>1
  <2> HIDE DEF r, n
  <2>5. CASE e = Status(v)
    <3>1. n \in DOMAIN r /\ r[n] = Status(v)
      BY <2>3, <2>4, <2>5
    <3>2. QED
      BY <2>2, <3>1 DEF Contains, r
  <2>6. ASSUME NEW i \in DOMAIN q, q[i] = Status(v), i # 1 PROVE Contains(r, v)
    <3>1. i - 1 \in 1..n /\ i - 1 # n /\ (i - 1) + 1 = i
      BY <2>4, <2>6
    <3>2. QED
      BY <3>1, <2>3, <2>6 DEF Contains
  <2>7. CASE q[1] = Status(v)
    <3>1. Head(q).kind = "status"
      BY <2>4, <2>7 DEF Status
    <3>2. CASE r = q
      BY <3>2, <2>2, <2>4, <2>7 DEF Contains, r
    <3>3. CASE r # q
      BY <3>1, <3>3, <2>1, <2>2, <2>9 DEF r, n
    <3>4. QED
      BY <3>2, <3>3
  <2>8. QED
    BY <2>2, <2>5, <2>6, <2>7 DEF Contains, r
<1>3. CASE ~(Len(q) >= SubscriberCapacity)
  <2>1. Hub!Push(q, e) = Append(q, e)
    BY <1>1, <1>3, PushShape
  <2> DEFINE r == Append(q, e)
  <2>2. /\ DOMAIN r = 1..(Len(q) + 1) /\ r[Len(q) + 1] = e
        /\ \A i \in 1..Len(q) : r[i] = q[i]
    OBVIOUS
  <2>3. DOMAIN q = 1..Len(q) /\ Len(q) \in Nat
    OBVIOUS
  <2> HIDE DEF r
  <2>4. Contains(r, v)
    BY <2>2, <2>3 DEF Contains
  <2>5. QED
    BY <2>1, <2>4 DEF r
<1>4. QED
  BY <1>2, <1>3

(* What is read was the latest, or that one follows.                        *)
LEMMA PopKeeps ==
  ASSUME NEW S, NEW q \in Seq(S), q # <<>>, NEW v, NEW come \in BOOLEAN, Ordered(q, v, come)
  PROVE  /\ Ordered(Tail(q), v, come)
         /\ Contains(q, v) => Head(q) = Status(v) \/ Contains(Tail(q), v)
         /\ \/ Head(q) = Frame \/ Head(q) = Status(v) \/ come \/ Contains(Tail(q), v)
<1> DEFINE r == Tail(q)
<1>1. /\ DOMAIN r = 1..(Len(q) - 1) /\ Head(q) = q[1]
      /\ \A i \in 1..(Len(q) - 1) : r[i] = q[i + 1]
  OBVIOUS
<1>2. DOMAIN q = 1..Len(q) /\ Len(q) \in Nat /\ Len(q) > 0
  OBVIOUS
<1> HIDE DEF r
<1>3. ASSUME NEW i \in DOMAIN q, i # 1, q[i] = Status(v)
      PROVE  i - 1 \in DOMAIN r /\ r[i - 1] = Status(v)
  <2>1. i - 1 \in 1..(Len(q) - 1) /\ (i - 1) + 1 = i
    BY <1>2, <1>3
  <2>2. QED
    BY <2>1, <1>1, <1>3
<1>4. Ordered(r, v, come)
  <2> SUFFICES ASSUME NEW i \in DOMAIN r, r[i] # Frame, r[i] # Status(v), ~come
               PROVE  \E j \in DOMAIN r : i < j /\ r[j] = Status(v)
    BY DEF Ordered
  <2>1. i \in Nat /\ i + 1 \in DOMAIN q /\ r[i] = q[i + 1]
    BY <1>1, <1>2
  <2>2. PICK j \in DOMAIN q : i + 1 < j /\ q[j] = Status(v)
    BY <2>1 DEF Ordered
  <2>3. i < j - 1 /\ j # 1
    BY <2>1, <2>2, <1>2
  <2>4. QED
    BY <2>2, <2>3, <1>3
<1>5. Contains(q, v) => Head(q) = Status(v) \/ Contains(r, v)
  BY <1>1, <1>3 DEF Contains
<1>6. \/ Head(q) = Frame \/ Head(q) = Status(v) \/ come \/ Contains(r, v)
  <2> SUFFICES ASSUME Head(q) # Frame, Head(q) # Status(v), ~come PROVE Contains(r, v)
    OBVIOUS
  <2>1. 1 \in DOMAIN q
    BY <1>2
  <2>2. PICK j \in DOMAIN q : 1 < j /\ q[j] = Status(v)
    BY <2>1, <1>1 DEF Ordered
  <2>3. QED
    BY <2>2, <1>3, <1>2 DEF Contains
<1>7. QED
  BY <1>4, <1>5, <1>6 DEF r

LEMMA VersionGrows ==
  ASSUME NEW v \in Nat, NEW w, w = v \/ w = v + 1
  PROVE  /\ w \in Nat /\ (v > 0 => w > 0) /\ 0..v \subseteq 0..w
         /\ Seq(StatusesUpTo(v)) \subseteq Seq(StatusesUpTo(w))
<1>1. w \in Nat /\ (v > 0 => w > 0) /\ 0..v \subseteq 0..w /\ 1..v \subseteq 1..w
  OBVIOUS
<1>2. StatusesUpTo(v) \subseteq StatusesUpTo(w)
  BY <1>1 DEF StatusesUpTo
<1>3. ASSUME NEW S, NEW T, S \subseteq T PROVE Seq(S) \subseteq Seq(T)
  BY <1>3
<1>4. QED
  BY <1>1, <1>2, <1>3

LEMMA CurrentQueue ==
  ASSUME CallInv, QueueInv, current # 0
  PROVE  current \in 1..MaxCalls /\ queue[current] \in Seq(StatusesUpTo(version))
BY ClientAssumption DEF CallInv, QueueInv

LEMMA HeadIsEvent ==
  ASSUME NEW v \in Nat, NEW q \in Seq(StatusesUpTo(v)), q # <<>>
  PROVE  /\ Tail(q) \in Seq(StatusesUpTo(v))
         /\ Head(q).kind = "status" => Head(q).n \in 1..v /\ Head(q) = Status(Head(q).n)
         /\ Head(q).kind # "status" => Head(q) = Frame
<1>1. Tail(q) \in Seq(StatusesUpTo(v)) /\ Head(q) \in StatusesUpTo(v)
  OBVIOUS
<1>2. ASSUME NEW e \in StatusesUpTo(v)
      PROVE  /\ e.kind = "status" => e.n \in 1..v /\ e = Status(e.n)
             /\ e.kind # "status" => e = Frame
  BY DEF StatusesUpTo, Status, Frame
<1>3. QED
  BY <1>1, <1>2

LEMMA VersionsInductive ==
  Versions /\ CallInv /\ QueueInv /\ SocketInv /\ [ClientNext]_clientVars => Versions'
<1> SUFFICES ASSUME Versions, CallInv, QueueInv, SocketInv, [ClientNext]_clientVars
             PROVE  Versions'
  OBVIOUS
<1> USE DEF Versions, runner, hub, watching, broadcast, polls, pages
<1>1. ASSUME UNCHANGED <<up, version, cached, news, shown, answer>> PROVE Versions'
  BY <1>1
<1>2. CASE PublishStatus \/ Restart
  <2>1. version' = version + 1 /\ up' \in BOOLEAN
        /\ UNCHANGED <<cached, news, shown, answer>>
    BY <1>2 DEF PublishStatus, Restart
  <2>2. version' \in Nat /\ version' > 0 /\ 0..version \subseteq 0..version'
    BY <2>1, VersionGrows
  <2>3. QED
    BY <2>1, <2>2
<1>3. CASE PublishFrame \/ Deliver \/ Crash \/ \E w \in 1..calls : Handler(w)
  BY <1>3 DEF PublishFrame, Deliver, Crash, Handler
<1>4. CASE Reconnect \/ StartController
  BY <1>4 DEF Reconnect, Connect, ConnectFails, WakeUp, WatchFails, Retry, StartController
<1>5. CASE ReadEvent
  <2>1. CASE Head(queue[current]).kind = "status"
    <3>1. current # 0 /\ queue[current] # <<>>
      BY <1>5 DEF ReadEvent, CallInv, Hub!Pop
    <3>2. Head(queue[current]).n \in 0..version
      <4>1. queue[current] \in Seq(StatusesUpTo(version)) /\ version \in Nat
        BY <3>1, CurrentQueue
      <4>2. Head(queue[current]).n \in 1..version
        BY <2>1, <3>1, <4>1, HeadIsEvent
      <4>3. QED
        BY <4>1, <4>2
    <3>3. QED
      BY <1>5, <2>1, <3>2 DEF ReadEvent
  <2>2. CASE Head(queue[current]).kind # "status"
    BY <1>5, <2>2 DEF ReadEvent
  <2>3. QED
    BY <2>1, <2>2
<1>6. ASSUME NEW p \in Pages, Send(p) \/ SkipClosed(p) \/ SendBreaks(p) PROVE Versions'
  BY <1>6 DEF Send, SkipClosed, SendBreaks
<1>7. CASE EndBroadcast
  BY <1>7 DEF EndBroadcast
<1>8. ASSUME NEW p \in Pages, Page(p) PROVE Versions'
  BY <1>8 DEF Page, OpenPage, Join, Refresh, ClosePage, Disconnect, AnswerPoll, StorePoll,
              ShowPoll, PollFails, Poll
<1>9. CASE StopController
  BY <1>9 DEF StopController
<1>10. CASE UNCHANGED clientVars
  BY <1>1, <1>10 DEF clientVars
<1>11. QED
  BY <1>2, <1>3, <1>4, <1>5, <1>6, <1>7, <1>8, <1>9, <1>10 DEF ClientNext, Runner, Broadcast

LEMMA CallInvInductive == CallInv /\ [ClientNext]_clientVars => CallInv'
<1> SUFFICES ASSUME CallInv, [ClientNext]_clientVars PROVE CallInv'
  OBVIOUS
<1> USE ClientAssumption DEF CallInv, runner, hub, watching
<1>1. ASSUME UNCHANGED <<up, task, current, calls, subscription>> PROVE CallInv'
  BY <1>1
<1>2. CASE PublishStatus \/ PublishFrame \/ Deliver
  BY <1>2 DEF PublishStatus, PublishFrame, Deliver, Hub!Publish, Hub!Deliver
<1>3. CASE Crash
  BY <1>3 DEF Crash
<1>4. CASE Restart
  BY <1>4 DEF Restart
<1>5. ASSUME NEW w \in 1..calls, Handler(w) PROVE CallInv'
  <2>1. w \in 1..MaxCalls /\ UNCHANGED <<up, task, current, calls>>
    BY <1>5 DEF Handler
  <2>2. PICK s \in {"new", "open", "leaving", "closed"} :
           subscription' = [subscription EXCEPT ![w] = s]
    BY <1>5 DEF Handler, Hub!Subscribe, Hub!Leave, Hub!Close
  <2>3. subscription[w] # "closed"
    BY <1>5 DEF Handler, Hub!Subscribe, Hub!Leave, Hub!Close
  <2>4. up
    BY <2>3
  <2>5. \A x \in 1..MaxCalls : x > calls => x # w
    BY <2>1
  <2>6. QED
    BY <2>1, <2>2, <2>4, <2>5
<1>6. CASE Connect
  <2>1. current' = calls + 1 /\ calls' = calls + 1 /\ task' = "watching" /\ up
        /\ UNCHANGED <<up, subscription>>
    BY <1>6 DEF Connect
  <2>2. calls + 1 \in 0..MaxCalls /\ calls + 1 \in 0..(calls + 1)
    BY <1>6 DEF Connect
  <2>3. \A w \in 1..MaxCalls : w > calls + 1 => subscription[w] = "new"
    OBVIOUS
  <2>4. QED
    BY <2>1, <2>2, <2>3
<1>7. CASE ConnectFails \/ WakeUp \/ WatchFails \/ StartController \/ StopController
  BY <1>7 DEF ConnectFails, WakeUp, WatchFails, Retry, StartController, StopController
<1>8. CASE ReadEvent
  BY <1>1, <1>8 DEF ReadEvent, Hub!Pop
<1>9. CASE Broadcast \/ \E p \in Pages : Page(p)
  BY <1>1, <1>9 DEF Broadcast, EndBroadcast, Send, SkipClosed, SendBreaks,
     Page, OpenPage, Join, Refresh, ClosePage, Disconnect, AnswerPoll, StorePoll, ShowPoll,
     PollFails
<1>10. CASE UNCHANGED clientVars
  BY <1>1, <1>10 DEF clientVars
<1>11. QED
  BY <1>2, <1>3, <1>4, <1>5, <1>6, <1>7, <1>8, <1>9, <1>10 DEF ClientNext, Runner, Reconnect

LEMMA SocketInvInductive == Versions /\ SocketInv /\ [ClientNext]_clientVars => SocketInv'
<1> SUFFICES ASSUME Versions, SocketInv, [ClientNext]_clientVars PROVE SocketInv'
  OBVIOUS
<1> USE DEF SocketInv, broadcast, pages, polls
<1>1. ASSUME UNCHANGED <<sockets, targets, stale, page, shown, poll>> PROVE SocketInv'
  BY <1>1
<1>2. CASE Runner \/ Reconnect \/ StartController
  BY <1>1, <1>2 DEF Runner, PublishStatus, PublishFrame, Deliver, Crash, Restart, Handler,
     Reconnect, Connect, ConnectFails, WakeUp, WatchFails, StartController
<1>3. CASE ReadEvent
  BY <1>1, <1>3 DEF ReadEvent
<1>4. ASSUME NEW p \in Pages, Send(p) PROVE SocketInv'
  BY <1>4 DEF Send
<1>5. ASSUME NEW p \in Pages, SkipClosed(p) \/ SendBreaks(p) PROVE SocketInv'
  BY <1>5 DEF SkipClosed, Rest, SendBreaks
<1>6. CASE EndBroadcast
  BY <1>6 DEF EndBroadcast
<1>7. ASSUME NEW p \in Pages, OpenPage(p) \/ Join(p) \/ Refresh(p) PROVE SocketInv'
  BY <1>7 DEF OpenPage, Join, Refresh, Poll
<1>8. ASSUME NEW p \in Pages, ClosePage(p) \/ Disconnect(p) PROVE SocketInv'
  <2>1. CASE ClosePage(p)
    <3>1. /\ page[p] = "open" /\ page' = [page EXCEPT ![p] = "gone"]
          /\ shown' = [shown EXCEPT ![p] = 0]
          /\ UNCHANGED <<sockets, targets, stale, poll>>
      BY <2>1 DEF ClosePage
    <3>2. \A x \in Pages : page'[x] = IF x = p THEN "gone" ELSE page[x]
      BY <3>1
    <3>3. \A x \in Pages : page'[x] \in {"away", "gone"} => shown'[x] = 0
      BY <3>1, <3>2 DEF Versions
    <3>4. QED
      BY <3>1, <3>2, <3>3
  <2>2. CASE Disconnect(p)
    BY <2>2 DEF Disconnect
  <2>3. QED
    BY <1>8, <2>1, <2>2
<1>9. ASSUME NEW p \in Pages, AnswerPoll(p) \/ StorePoll(p) PROVE SocketInv'
  BY <1>9 DEF AnswerPoll, StorePoll
<1>10. ASSUME NEW p \in Pages, ShowPoll(p) \/ PollFails(p) PROVE SocketInv'
  <2>1. CASE ShowPoll(p)
    BY <2>1 DEF ShowPoll
  <2>2. CASE PollFails(p)
    BY <2>2 DEF PollFails
  <2>3. QED
    BY <1>10, <2>1, <2>2
<1>11. CASE StopController
  BY <1>11 DEF StopController
<1>12. CASE UNCHANGED clientVars
  BY <1>1, <1>12 DEF clientVars
<1>13. QED
  BY <1>2, <1>3, <1>4, <1>5, <1>6, <1>7, <1>8, <1>9, <1>10, <1>11, <1>12
     DEF ClientNext, Broadcast, Page

LEMMA Delivered ==
  ASSUME Versions, QueueInv, Deliver
  PROVE  \E p \in {"manager", "pipeline"}, w \in Told, e \in StatusesUpTo(version) :
           /\ <<w, e>> \in pending[p]
           /\ (p = "manager" /\ e = Status(version)) \/ (p = "pipeline" /\ e = Frame)
           /\ pending' = [pending EXCEPT ![p] = @ \ {<<w, e>>}]
           /\ queue' = IF subscription[w] = "closed" THEN queue
                       ELSE [queue EXCEPT ![w] = Hub!Push(@, e)]
           /\ UNCHANGED subscription
<1>1. PICK p \in {"manager", "pipeline"} : Hub!Deliver(p)
  BY DEF Deliver
<1>2. PICK d \in pending[p] :
        /\ pending' = [pending EXCEPT ![p] = @ \ {d}]
        /\ queue' = IF subscription[d[1]] = "closed" THEN queue
                    ELSE [queue EXCEPT ![d[1]] = Hub!Push(@, d[2])]
        /\ UNCHANGED subscription
  BY <1>1 DEF Hub!Deliver
<1>3. d = <<d[1], d[2]>> /\ d[1] \in Told
      /\ ((p = "manager" /\ d[2] = Status(version)) \/ (p = "pipeline" /\ d[2] = Frame))
  BY <1>2 DEF QueueInv
<1>4. d[2] \in StatusesUpTo(version)
  BY <1>3 DEF Versions, StatusesUpTo
<1>5. QED
  BY <1>2, <1>3, <1>4

LEMMA QueueInvInductive ==
  Versions /\ CallInv /\ QueueInv /\ [ClientNext]_clientVars => QueueInv'
<1> SUFFICES ASSUME Versions, CallInv, QueueInv, [ClientNext]_clientVars PROVE QueueInv'
  OBVIOUS
<1> USE DEF runner, hub, watching
<1>1. ASSUME UNCHANGED <<up, version, current, subscription, queue, pending>> PROVE QueueInv'
  BY <1>1 DEF QueueInv, Told, Subscribed, ToCome
<1>2. CASE PublishStatus
  <2>1. /\ up /\ up' /\ version' = version + 1 /\ UNCHANGED <<subscription, queue, current>>
        /\ pending' = [pending EXCEPT !["manager"] =
                         {w \in 1..MaxCalls : subscription[w] = "open"}
                           \X {Status(version + 1)}]
    BY <1>2 DEF PublishStatus, Hub!Publish
  <2>2. queue' \in [1..MaxCalls -> Seq(StatusesUpTo(version'))]
    BY <2>1, VersionGrows DEF Versions, QueueInv
  <2>3. Told' = Told
    BY <2>1 DEF Told
  <2>4. /\ pending'["manager"] =
             {w \in 1..MaxCalls : subscription[w] = "open"} \X {Status(version')}
        /\ pending'["pipeline"] = pending["pipeline"]
        /\ DOMAIN pending' = {"manager", "pipeline"}
        /\ pending' = [p \in {"manager", "pipeline"} |-> pending'[p]]
    BY <2>1 DEF QueueInv
  <2>5. {w \in 1..MaxCalls : subscription[w] = "open"} \subseteq Told
    BY DEF Told
  <2>6. Subscribed' => ToCome'
    BY <2>1, <2>4, ClientAssumption DEF Subscribed, ToCome, CallInv
  <2>7. Subscribed' => Ordered(queue'[current'], version', ToCome')
    BY <2>6 DEF Ordered
  <2>8. QED
    BY <2>1, <2>2, <2>3, <2>4, <2>5, <2>7 DEF QueueInv
<1>3. CASE PublishFrame
  <2>1. /\ up /\ up' /\ UNCHANGED <<version, subscription, queue, current>>
        /\ pending' = [pending EXCEPT !["pipeline"] =
                         {w \in 1..MaxCalls : subscription[w] = "open"} \X {Frame}]
    BY <1>3 DEF PublishFrame, Hub!Publish
  <2>2. Told' = Told /\ {w \in 1..MaxCalls : subscription[w] = "open"} \subseteq Told
    BY <2>1 DEF Told
  <2>3. /\ pending'["pipeline"] = {w \in 1..MaxCalls : subscription[w] = "open"} \X {Frame}
        /\ pending'["manager"] = pending["manager"]
        /\ DOMAIN pending' = {"manager", "pipeline"}
        /\ pending' = [p \in {"manager", "pipeline"} |-> pending'[p]]
    BY <2>1 DEF QueueInv
  <2>4. Subscribed' = Subscribed /\ ToCome' = ToCome
    BY <2>1, <2>3 DEF Subscribed, ToCome
  <2>5. Subscribed' => Ordered(queue'[current'], version', ToCome')
    BY <2>1, <2>4 DEF QueueInv
  <2>6. QED
    BY <2>1, <2>2, <2>3, <2>5 DEF QueueInv
<1>4. CASE Deliver
  <2>1. PICK p \in {"manager", "pipeline"}, w \in Told, e \in StatusesUpTo(version) :
           /\ <<w, e>> \in pending[p]
           /\ (p = "manager" /\ e = Status(version)) \/ (p = "pipeline" /\ e = Frame)
           /\ pending' = [pending EXCEPT ![p] = @ \ {<<w, e>>}]
           /\ queue' = IF subscription[w] = "closed" THEN queue
                       ELSE [queue EXCEPT ![w] = Hub!Push(@, e)]
           /\ UNCHANGED subscription
    BY <1>4, Delivered
  <2>2. UNCHANGED <<up, version, current>>
    BY <1>4 DEF Deliver
  <2>3. Told' = Told /\ w \in 1..MaxCalls /\ subscription[w] # "new"
    BY <2>1 DEF Told
  <2>4. /\ pending'["manager"] \subseteq pending["manager"]
        /\ pending'["pipeline"] \subseteq pending["pipeline"]
        /\ DOMAIN pending' = {"manager", "pipeline"}
        /\ pending' = [x \in {"manager", "pipeline"} |-> pending'[x]]
    BY <2>1 DEF QueueInv
  <2>5. queue[w] \in Seq(StatusesUpTo(version))
    BY <2>3 DEF QueueInv
  <2>6. e.kind # "metrics"
    BY <2>1 DEF Status, Frame
  <2>7. Hub!Push(queue[w], e) \in Seq(StatusesUpTo(version))
    BY <2>5, <2>6, PushShape
  <2>8. /\ queue' \in [1..MaxCalls -> Seq(StatusesUpTo(version'))]
        /\ \A x \in 1..MaxCalls : x # w => queue'[x] = queue[x]
        /\ subscription[w] # "closed" => queue'[w] = Hub!Push(queue[w], e)
    BY <2>1, <2>2, <2>3, <2>7 DEF QueueInv
  <2>9. \A x \in 1..MaxCalls : subscription'[x] = "new" => queue'[x] = <<>>
    BY <2>1, <2>3, <2>8 DEF QueueInv
  <2>10. ASSUME Subscribed' PROVE Ordered(queue'[current'], version', ToCome')
    <3>1. Subscribed /\ current # 0 /\ subscription[current] = "open"
      BY <2>1, <2>2, <2>10 DEF Subscribed
    <3>2. Ordered(queue[current], version, ToCome) /\ current \in 1..MaxCalls
      BY <3>1, CurrentQueue DEF QueueInv
    <3>3. CASE current = w
      <4>1. queue'[current] = Hub!Push(queue[w], e)
        BY <3>1, <3>3, <2>8
      <4>2. ToCome \in BOOLEAN /\ ToCome' \in BOOLEAN
        BY DEF ToCome
      <4>3. e = Frame => ToCome' = ToCome
        <5>1. Frame # Status(version)
          BY DEF Frame, Status
        <5>2. e = Frame => p = "pipeline"
          BY <5>1, <2>1
        <5>3. p = "pipeline" => pending'["manager"] = pending["manager"]
          BY <2>1 DEF QueueInv
        <5>4. QED
          BY <5>2, <5>3, <2>2 DEF ToCome
      <4>4. (e = Frame /\ ToCome' = ToCome) \/ e = Status(version)
        BY <4>3, <2>1
      <4>5. Ordered(Hub!Push(queue[w], e), version, ToCome')
        BY <4>2, <4>4, <3>2, <3>3, <2>5, PushOrdered
      <4>6. QED
        BY <4>1, <4>5, <2>2
    <3>4. CASE current # w
      <4>1. queue'[current] = queue[current]
        BY <3>2, <3>4, <2>8
      <4>2. ToCome' = ToCome
        BY <3>4, <2>1, <2>2 DEF ToCome, QueueInv
      <4>3. QED
        BY <4>1, <4>2, <3>2, <2>2
    <3>5. QED
      BY <3>3, <3>4
  <2>11. QED
    BY <2>2, <2>3, <2>4, <2>8, <2>9, <2>10 DEF QueueInv
<1>5. CASE Crash
  <2>1. /\ up' = FALSE /\ UNCHANGED <<version, current>>
        /\ subscription' = [w \in 1..MaxCalls |-> IF w <= calls THEN "closed" ELSE "new"]
        /\ queue' = [w \in 1..MaxCalls |-> <<>>]
        /\ pending' = [p \in DOMAIN pending |-> {}]
    BY <1>5 DEF Crash
  <2>2. ~Subscribed'
    BY <2>1, ClientAssumption DEF Subscribed, CallInv
  <2>3. queue' \in [1..MaxCalls -> Seq(StatusesUpTo(version'))]
    BY <2>1
  <2>4. QED
    BY <2>1, <2>2, <2>3 DEF QueueInv
<1>6. CASE Restart
  <2>1. /\ ~up /\ up' /\ version' = version + 1
        /\ UNCHANGED <<current, subscription, queue, pending>>
    BY <1>6 DEF Restart
  <2>2. ~Subscribed'
    BY <2>1, ClientAssumption DEF Subscribed, CallInv
  <2>3. queue' \in [1..MaxCalls -> Seq(StatusesUpTo(version'))]
    BY <2>1, VersionGrows DEF Versions, QueueInv
  <2>4. Told' = Told
    BY <2>1 DEF Told
  <2>5. QED
    BY <2>1, <2>2, <2>3, <2>4 DEF QueueInv
<1>7. ASSUME NEW w \in 1..calls, Handler(w) PROVE QueueInv'
  <2>1. UNCHANGED <<up, version, current, pending>> /\ w \in 1..MaxCalls
    BY <1>7, ClientAssumption DEF Handler, Hub!Subscribe, Hub!Leave, Hub!Close, CallInv
  <2>2. CASE w = current /\ Hub!Subscribe(w)
    <3>1. /\ subscription[w] = "new" /\ UNCHANGED queue
          /\ subscription' = [subscription EXCEPT ![w] = "open"]
      BY <2>2 DEF Hub!Subscribe
    <3>2. queue[w] = <<>>
      BY <3>1, <2>1 DEF QueueInv
    <3>3. Ordered(queue'[current'], version', ToCome')
      BY <3>1, <3>2, <2>1, <2>2 DEF Ordered
    <3>4. Told \subseteq Told'
      BY <3>1 DEF Told, CallInv
    <3>5. \A x \in 1..MaxCalls : subscription'[x] = "new" => subscription[x] = "new"
      BY <3>1 DEF CallInv
    <3>6. QED
      BY <3>1, <3>3, <3>4, <3>5, <2>1 DEF QueueInv
  <2>3. CASE w # current /\ (Hub!Leave(w) \/ Hub!Close(w))
    <3>1. PICK s \in {"leaving", "closed"} : subscription' = [subscription EXCEPT ![w] = s]
      BY <2>3 DEF Hub!Leave, Hub!Close
    <3>2. queue' = queue \/ queue' = [queue EXCEPT ![w] = <<>>]
      BY <2>3 DEF Hub!Leave, Hub!Close
    <3>3. /\ queue' \in [1..MaxCalls -> Seq(StatusesUpTo(version))]
          /\ \A x \in 1..MaxCalls : queue[x] = <<>> => queue'[x] = <<>>
          /\ \A x \in 1..MaxCalls : x # w => queue'[x] = queue[x]
      <4>1. /\ <<>> \in Seq(StatusesUpTo(version))
            /\ queue \in [1..MaxCalls -> Seq(StatusesUpTo(version))]
        BY DEF QueueInv
      <4>2. CASE queue' = queue
        BY <4>1, <4>2
      <4>3. CASE queue' = [queue EXCEPT ![w] = <<>>]
        BY <4>1, <4>3, Zenon
      <4>4. QED
        BY <3>2, <4>2, <4>3
    <3>4. /\ Told \subseteq Told'
          /\ \A x \in 1..MaxCalls : subscription'[x] = "new" => subscription[x] = "new"
          /\ \A x \in 1..MaxCalls : x # w => subscription'[x] = subscription[x]
      BY <3>1 DEF Told, CallInv
    <3>5. current # 0 => current \in 1..MaxCalls
      BY ClientAssumption DEF CallInv
    <3>6. Subscribed' = Subscribed /\ ToCome' = ToCome
      BY <3>4, <3>5, <2>1, <2>3 DEF Subscribed, ToCome
    <3>7. Subscribed' => Ordered(queue'[current'], version', ToCome')
      BY <3>3, <3>5, <3>6, <2>1, <2>3 DEF QueueInv, Subscribed
    <3>8. QED
      BY <3>3, <3>4, <3>7, <2>1 DEF QueueInv
  <2>4. QED
    BY <1>7, <2>2, <2>3 DEF Handler
<1>8. CASE Connect \/ WatchFails \/ StopController
  <2>1. UNCHANGED <<up, version, subscription, queue, pending>>
    BY <1>8 DEF Connect, WatchFails, StopController
  <2>2. Connect => subscription[calls + 1] = "new"
    BY ClientAssumption DEF Connect, CallInv
  <2>3. ~Subscribed'
    BY <1>8, <2>1, <2>2 DEF Connect, WatchFails, StopController, Subscribed
  <2>4. Told' = Told
    BY <2>1 DEF Told
  <2>5. QED
    BY <2>1, <2>3, <2>4 DEF QueueInv
<1>9. CASE ReadEvent
  <2>1. /\ UNCHANGED <<up, version, current, subscription, pending>>
        /\ queue' = [queue EXCEPT ![current] = Tail(@)]
        /\ queue[current] # <<>> /\ current # 0 /\ Subscribed
    BY <1>9 DEF ReadEvent, Hub!Pop, CallInv, Subscribed
  <2>2. current \in 1..MaxCalls /\ queue[current] \in Seq(StatusesUpTo(version))
    BY <2>1, CurrentQueue
  <2>3. Tail(queue[current]) \in Seq(StatusesUpTo(version))
    BY <2>1, <2>2
  <2>4. /\ queue' \in [1..MaxCalls -> Seq(StatusesUpTo(version))]
        /\ queue'[current] = Tail(queue[current])
        /\ \A x \in 1..MaxCalls : x # current => queue'[x] = queue[x]
    BY <2>1, <2>2, <2>3 DEF QueueInv
  <2>5. subscription[current] # "new"
    BY <2>1 DEF Subscribed
  <2>6. ToCome \in BOOLEAN /\ ToCome' = ToCome
    BY <2>1 DEF ToCome
  <2>7. Ordered(Tail(queue[current]), version, ToCome)
    BY <2>1, <2>2, <2>6, PopKeeps DEF QueueInv
  <2>8. Told' = Told
    BY <2>1 DEF Told
  <2>9. QED
    BY <2>1, <2>4, <2>5, <2>6, <2>7, <2>8 DEF QueueInv
<1>10. CASE ConnectFails \/ WakeUp \/ StartController
  BY <1>1, <1>10 DEF ConnectFails, WakeUp, StartController
<1>11. CASE Broadcast \/ \E p \in Pages : Page(p)
  BY <1>1, <1>11 DEF Broadcast, EndBroadcast, Send, SkipClosed, SendBreaks,
     Page, OpenPage, Join, Refresh, ClosePage, Disconnect, AnswerPoll, StorePoll, ShowPoll,
     PollFails
<1>12. CASE UNCHANGED clientVars
  BY <1>1, <1>12 DEF clientVars
<1>13. QED
  BY <1>2, <1>3, <1>4, <1>5, <1>6, <1>7, <1>8, <1>9, <1>10, <1>11, <1>12
     DEF ClientNext, Runner, Reconnect

(* Who is not in the history after a step shows the latest status, or was   *)
(* not in it before.                                                        *)
LEMMA Missed ==
  ASSUME NEW more, Mislead(more), NEW h \in Everyone, h \notin misled'
  PROVE  \/ h \notin misled /\ h \notin more
         \/ h = Cache /\ cached' = version'
         \/ h # Cache /\ shown'[h] = version'
BY DEF Mislead

(* So the history is right after a step when those it leaves out are fresh. *)
LEMMA FreshAgain ==
  ASSUME FreshInv, Versions', SocketInv', NEW more \in SUBSET Everyone, Mislead(more),
         Cache \notin misled /\ Cache \notin more => CacheFresh',
         \A p \in Pages : p \notin misled /\ p \notin more => PageFresh(p)'
  PROVE  FreshInv'
<1>1. misled' \subseteq Everyone
  BY DEF Mislead, FreshInv
<1>2. Cache \in Everyone /\ (\A p \in Pages : p \in Everyone /\ p # Cache)
  BY ClientAssumption DEF Everyone, Cache
<1>3. Cache \in misled' \/ CacheFresh'
  BY <1>2, Missed DEF CacheFresh
<1>4. ASSUME NEW p \in Pages, p \notin misled' PROVE PageFresh(p)'
  <2>1. CASE p \notin misled /\ p \notin more
    BY <2>1
  <2>2. CASE shown'[p] = version'
    <3>1. page'[p] \in {"opening", "open"}
      BY <2>2 DEF Versions, SocketInv
    <3>2. QED
      BY <2>2, <3>1 DEF PageFresh
  <2>3. QED
    BY <1>2, <1>4, <2>1, <2>2, Missed
<1>5. QED
  BY <1>1, <1>3, <1>4 DEF FreshInv

(* A step that takes nothing away leaves them fresh.                        *)
LEMMA StayFresh ==
  ASSUME Coming => Coming',
         UNCHANGED <<version, cached, news, targets, page, shown, poll, answer>>
  PROVE  (CacheFresh => CacheFresh') /\ \A p \in Pages : PageFresh(p) => PageFresh(p)'
<1>1. CacheFresh => CacheFresh'
  BY DEF CacheFresh
<1>2. \A p \in Pages : OnItsWay(p) => OnItsWay(p)'
  BY DEF OnItsWay
<1>3. \A p \in Pages : PageFresh(p) => PageFresh(p)'
  BY <1>2 DEF PageFresh
<1>4. QED
  BY <1>1, <1>3

LEMMA ComingStays ==
  ASSUME UNCHANGED <<version, current, subscription, queue, pending>>
  PROVE  Coming' = Coming
BY DEF Coming, Subscribed, ToCome

(* What the runner does leaves them fresh or enters them in the history.    *)
LEMMA RunnerKeepsFresh ==
  Versions /\ CallInv /\ QueueInv /\ FreshInv /\ Versions' /\ SocketInv' /\ Runner => FreshInv'
<1> SUFFICES ASSUME Versions, CallInv, QueueInv, FreshInv, Versions', SocketInv', Runner
             PROVE  FreshInv'
  OBVIOUS
<1> USE DEF hub, watching, broadcast, polls, pages
<1>1. {} \in SUBSET Everyone /\ Everyone \in SUBSET Everyone
  OBVIOUS
<1>2. Cache \in Everyone /\ \A p \in Pages : p \in Everyone
  BY DEF Everyone
<1>3. ASSUME Mislead(Everyone) PROVE FreshInv'
  BY <1>1, <1>2, <1>3, FreshAgain
<1>4. ASSUME Coming => Coming', UNCHANGED misled,
             UNCHANGED <<version, cached, news, targets, page, shown, poll, answer>>
      PROVE  FreshInv'
  BY <1>4, StayFresh DEF FreshInv
<1>5. CASE PublishStatus
  <2>1. CASE Subscribed
    <3>1. Mislead({})
      BY <1>5, <2>1 DEF PublishStatus
    <3>2. /\ version' = version + 1 /\ UNCHANGED <<current, subscription, page>>
          /\ pending' = [pending EXCEPT !["manager"] =
                           {w \in 1..MaxCalls : subscription[w] = "open"}
                             \X {Status(version + 1)}]
      BY <1>5 DEF PublishStatus, Hub!Publish
    <3>3. current \in 1..MaxCalls
      BY <2>1, CurrentQueue DEF Subscribed
    <3>4. ToCome'
      BY <2>1, <3>2, <3>3 DEF Subscribed, ToCome, QueueInv
    <3>5. Coming'
      BY <2>1, <3>2, <3>4 DEF Coming, Subscribed
    <3>6. CacheFresh'
      BY <3>5 DEF CacheFresh
    <3>7. \A p \in Pages : PageFresh(p) => PageFresh(p)'
      BY <3>2, <3>5 DEF PageFresh, OnItsWay
    <3>8. \A p \in Pages : p \notin misled /\ p \notin {} => PageFresh(p)'
      BY <3>7 DEF FreshInv
    <3>9. QED
      BY <1>1, <3>1, <3>6, <3>8, FreshAgain
  <2>2. CASE ~Subscribed
    BY <1>3, <1>5, <2>2 DEF PublishStatus
  <2>3. QED
    BY <2>1, <2>2
<1>6. CASE PublishFrame
  <2>1. /\ UNCHANGED <<version, current, subscription, queue>>
        /\ UNCHANGED <<cached, news, targets, page, shown, poll, answer, misled>>
        /\ pending' = [pending EXCEPT !["pipeline"] =
                         {w \in 1..MaxCalls : subscription[w] = "open"} \X {Frame}]
    BY <1>6 DEF PublishFrame, Hub!Publish
  <2>2. pending'["manager"] = pending["manager"]
    BY <2>1 DEF QueueInv
  <2>3. Coming => Coming'
    BY <2>1, <2>2 DEF Coming, Subscribed, ToCome
  <2>4. QED
    BY <1>4, <2>1, <2>3
<1>7. CASE Deliver
  <2> DEFINE dropped == /\ current # 0
                        /\ queue[current] # <<>> /\ Head(queue[current]).kind = "status"
                        /\ queue'[current] # queue[current]
                        /\ Len(queue'[current]) = Len(queue[current])
  <2>1. CASE dropped
    BY <1>3, <1>7, <2>1 DEF Deliver
  <2>2. CASE ~dropped
    <3>1. Mislead({}) /\ UNCHANGED <<version, current, cached, news, targets>>
          /\ UNCHANGED <<page, shown, poll, answer>>
      BY <1>7, <2>2 DEF Deliver
    <3>2. PICK p \in {"manager", "pipeline"}, w \in Told, e \in StatusesUpTo(version) :
             /\ <<w, e>> \in pending[p]
             /\ (p = "manager" /\ e = Status(version)) \/ (p = "pipeline" /\ e = Frame)
             /\ pending' = [pending EXCEPT ![p] = @ \ {<<w, e>>}]
             /\ queue' = IF subscription[w] = "closed" THEN queue
                         ELSE [queue EXCEPT ![w] = Hub!Push(@, e)]
             /\ UNCHANGED subscription
      BY <1>7, Delivered
    <3>3. ASSUME Coming PROVE Coming'
      <4>1. /\ current # 0 /\ subscription[current] = "open" /\ Subscribed'
            /\ current \in 1..MaxCalls
        BY <3>1, <3>2, <3>3, CurrentQueue DEF Coming, Subscribed
      <4>2. queue[current] \in Seq(StatusesUpTo(version))
        BY <4>1, CurrentQueue
      <4>3. CASE current = w
        <5>1. queue'[current] = Hub!Push(queue[current], e)
          BY <3>2, <4>1, <4>3 DEF QueueInv
        <5>2. CASE Contains(queue[current], version) \/ e = Status(version)
          <6>1. \/ Contains(Hub!Push(queue[current], e), version)
                \/ /\ queue[current] # <<>> /\ Head(queue[current]).kind = "status"
                   /\ Hub!Push(queue[current], e) # queue[current]
                   /\ Len(Hub!Push(queue[current], e)) = Len(queue[current])
            BY <3>2, <4>2, <5>2, PushKeeps
          <6>2. Contains(queue'[current], version)
            BY <2>2, <4>1, <5>1, <6>1
          <6>3. QED
            BY <3>1, <4>1, <6>2 DEF Coming
        <5>3. CASE e # Status(version) /\ ToCome
          <6>1. p = "pipeline" /\ pending'["manager"] = pending["manager"]
            BY <3>2, <5>3 DEF QueueInv
          <6>2. QED
            BY <3>1, <4>1, <5>3, <6>1 DEF Coming, ToCome
        <5>4. QED
          BY <3>3, <5>2, <5>3 DEF Coming
      <4>4. CASE current # w
        <5>1. queue'[current] = queue[current]
          BY <3>2, <4>1, <4>4 DEF QueueInv
        <5>2. ToCome => ToCome'
          BY <3>1, <3>2, <4>4 DEF ToCome, QueueInv
        <5>3. QED
          BY <3>1, <3>3, <4>1, <5>1, <5>2 DEF Coming
      <4>5. QED
        BY <4>3, <4>4
    <3>4. /\ CacheFresh => CacheFresh'
          /\ \A x \in Pages : PageFresh(x) => PageFresh(x)'
      BY <3>1, <3>3, StayFresh
    <3>5. /\ Cache \notin misled => CacheFresh'
          /\ \A x \in Pages : x \notin misled => PageFresh(x)'
      BY <3>4 DEF FreshInv
    <3>6. QED
      BY <1>1, <3>1, <3>5, FreshAgain
  <2>3. QED
    BY <2>1, <2>2
<1>8. CASE Crash \/ Restart
  BY <1>3, <1>8 DEF Crash, Restart
<1>9. ASSUME NEW w \in 1..calls, Handler(w) PROVE FreshInv'
  <2>1. /\ UNCHANGED <<version, current, pending, misled>>
        /\ UNCHANGED <<cached, news, targets, page, shown, poll, answer>>
    BY <1>9 DEF Handler, Hub!Subscribe, Hub!Leave, Hub!Close
  <2>2. CASE w = current
    <3>1. ~Coming
      BY <1>9, <2>2 DEF Handler, Hub!Subscribe, Coming, Subscribed
    <3>2. QED
      BY <1>4, <2>1, <3>1
  <2>3. CASE w # current
    <3>1. ASSUME Coming PROVE Coming'
      <4>1. current # 0 /\ current \in 1..MaxCalls
        BY <3>1, CurrentQueue DEF Coming, Subscribed
      <4>2. subscription'[current] = subscription[current] /\ queue'[current] = queue[current]
        BY <1>9, <2>3, <4>1 DEF Handler, Hub!Leave, Hub!Close, CallInv, QueueInv
      <4>3. QED
        BY <2>1, <3>1, <4>2 DEF Coming, Subscribed, ToCome
    <3>2. QED
      BY <1>4, <2>1, <3>1
  <2>4. QED
    BY <2>2, <2>3
<1>10. QED
  BY <1>5, <1>6, <1>7, <1>8, <1>9 DEF Runner

(* A status that is read is on its way to every page with a socket.         *)
LEMMA ReaderKeepsFresh ==
  /\ Versions /\ CallInv /\ QueueInv /\ SocketInv /\ FreshInv /\ Versions' /\ SocketInv'
  /\ ReadEvent
  => FreshInv'
<1> SUFFICES ASSUME Versions, CallInv, QueueInv, SocketInv, FreshInv, Versions', SocketInv',
                    ReadEvent
             PROVE  FreshInv'
  OBVIOUS
<1> USE DEF hub, watching, broadcast, polls, pages
<1>1. /\ UNCHANGED <<version, current, subscription, pending, page, shown, poll, answer>>
      /\ queue' = [queue EXCEPT ![current] = Tail(@)]
      /\ queue[current] # <<>> /\ current # 0 /\ Subscribed /\ news = 0
  BY DEF ReadEvent, Hub!Pop, CallInv, Subscribed
<1>2. current \in 1..MaxCalls /\ queue[current] \in Seq(StatusesUpTo(version))
  BY <1>1, CurrentQueue
<1>3. queue'[current] = Tail(queue[current])
  BY <1>1, <1>2 DEF QueueInv
<1>4. ToCome \in BOOLEAN /\ ToCome' = ToCome /\ Subscribed'
  BY <1>1 DEF ToCome, Subscribed
<1> DEFINE head == Head(queue[current])
<1>5. /\ Contains(queue[current], version)
           => head = Status(version) \/ Contains(queue'[current], version)
      /\ \/ head = Frame \/ head = Status(version) \/ ToCome
         \/ Contains(queue'[current], version)
  BY <1>1, <1>2, <1>3, <1>4, PopKeeps DEF QueueInv
<1>6. Coming => head = Status(version) \/ Coming'
  BY <1>1, <1>4, <1>5 DEF Coming
<1>7. head = Frame \/ head = Status(version) \/ Coming'
  BY <1>1, <1>4, <1>5 DEF Coming
<1> HIDE DEF head
<1>8. CASE head.kind # "status"
  <2>1. UNCHANGED <<cached, news, targets, misled>>
    BY <1>8 DEF ReadEvent, head
  <2>2. head # Status(version)
    BY <1>8 DEF Status
  <2>3. QED
    BY <1>1, <1>6, <2>1, <2>2, StayFresh DEF FreshInv
<1>9. CASE head.kind = "status"
  <2> DEFINE waiting == {p \in Pages : page[p] = "opening"}
  <2>1. /\ cached' = head.n /\ news' = head.n /\ targets' = sockets
        /\ Mislead(waiting)
    BY <1>9 DEF ReadEvent, head
  <2>2. head = Status(version) => news' = version
    BY <2>1 DEF Status
  <2>3. head # Frame
    BY <1>9 DEF Frame
  <2>4. CacheFresh'
    BY <1>1, <1>7, <2>1, <2>2, <2>3 DEF CacheFresh
  <2>5. ASSUME NEW p \in Pages, p \notin misled, p \notin waiting PROVE PageFresh(p)'
    <3>1. PageFresh(p)
      BY <2>5 DEF FreshInv
    <3>2. page[p] = "open" /\ p \in targets'
      BY <2>1, <2>5, <3>1 DEF PageFresh, SocketInv
    <3>3. news # version
      BY <1>1 DEF Versions
    <3>4. OnItsWay(p) => OnItsWay(p)'
      BY <1>1, <1>6, <2>2, <3>2, <3>3 DEF OnItsWay
    <3>5. QED
      BY <1>1, <3>1, <3>2, <3>4 DEF PageFresh
  <2>6. waiting \in SUBSET Everyone
    BY DEF Everyone
  <2>7. QED
    BY <2>1, <2>4, <2>5, <2>6, FreshAgain
<1>10. QED
  BY <1>8, <1>9

LEMMA BroadcastKeepsFresh ==
  Versions /\ SocketInv /\ FreshInv /\ Versions' /\ SocketInv' /\ Broadcast => FreshInv'
<1> SUFFICES ASSUME Versions, SocketInv, FreshInv, Versions', SocketInv', Broadcast
             PROVE  FreshInv'
  OBVIOUS
<1> USE DEF runner, hub, watching, broadcast, polls, pages
<1>1. Coming' = Coming /\ CacheFresh' = CacheFresh
      /\ UNCHANGED <<version, page, poll, answer>>
  <2>1. UNCHANGED <<version, cached, current, subscription, queue, pending>>
        /\ UNCHANGED <<page, poll, answer>>
    BY DEF Broadcast, EndBroadcast, Send, SkipClosed, SendBreaks
  <2>2. QED
    BY <2>1, ComingStays DEF CacheFresh
<1>2. {} \in SUBSET Everyone /\ \A p \in Pages : {p} \in SUBSET Everyone
  BY DEF Everyone
<1>3. ASSUME NEW p \in Pages, Send(p) PROVE FreshInv'
  <2>1. /\ shown' = [shown EXCEPT ![p] = news] /\ targets' = targets \ {p} /\ UNCHANGED news
        /\ Mislead(IF news < shown[p] THEN {p} ELSE {})
    BY <1>3 DEF Send
  <2>2. PICK more \in SUBSET Everyone :
          Mislead(more) /\ more = IF news < shown[p] THEN {p} ELSE {}
    BY <1>2, <2>1
  <2>3. ASSUME NEW x \in Pages, x \notin misled, x \notin more PROVE PageFresh(x)'
    <3>1. PageFresh(x)
      BY <2>3 DEF FreshInv
    <3>2. CASE x # p
      <4>1. shown'[x] = shown[x] /\ (x \in targets => x \in targets')
        BY <2>1, <3>2 DEF Versions
      <4>2. QED
        BY <1>1, <2>1, <3>1, <4>1 DEF PageFresh, OnItsWay
    <3>3. CASE x = p
      <4>1. shown'[p] = news /\ ~(news < shown[p])
        BY <2>1, <2>2, <2>3, <3>3 DEF Versions
      <4>2. shown[p] = version => news = version
        <5>1. news \in 0..version /\ shown[p] \in 0..version /\ version \in Nat
          BY DEF Versions
        <5>2. QED
          BY <4>1, <5>1
      <4>3. QED
        BY <1>1, <2>1, <3>1, <3>3, <4>1, <4>2 DEF PageFresh, OnItsWay
    <3>4. QED
      BY <3>2, <3>3
  <2>4. QED
    BY <1>1, <2>2, <2>3, FreshAgain DEF FreshInv
<1>4. ASSUME NEW p \in Pages, SkipClosed(p) PROVE FreshInv'
  <2>1. page[p] # "open" /\ page[p] # "opening" /\ targets' = targets \ {p}
        /\ UNCHANGED <<news, shown, misled>>
    BY <1>4 DEF SkipClosed, Rest, SocketInv
  <2>2. \A x \in Pages : PageFresh(x) => PageFresh(x)'
    BY <1>1, <2>1 DEF PageFresh, OnItsWay
  <2>3. QED
    BY <1>1, <2>1, <2>2 DEF FreshInv
<1>5. ASSUME NEW p \in Pages, SendBreaks(p) PROVE FreshInv'
  <2>1. Mislead(targets) /\ UNCHANGED shown
    BY <1>5 DEF SendBreaks
  <2>2. \A x \in Pages : PageFresh(x) /\ x \notin targets => PageFresh(x)'
    BY <1>1, <2>1 DEF PageFresh, OnItsWay
  <2>3. targets \in SUBSET Everyone
    BY DEF SocketInv, Everyone
  <2>4. QED
    BY <1>1, <2>1, <2>2, <2>3, FreshAgain DEF FreshInv
<1>6. CASE EndBroadcast
  <2>1. targets = {} /\ UNCHANGED <<shown, misled>>
    BY <1>6 DEF EndBroadcast
  <2>2. \A x \in Pages : PageFresh(x) => PageFresh(x)'
    BY <1>1, <2>1 DEF PageFresh, OnItsWay
  <2>3. QED
    BY <1>1, <2>1, <2>2 DEF FreshInv
<1>7. QED
  BY <1>3, <1>4, <1>5, <1>6 DEF Broadcast

LEMMA PageKeepsFresh ==
  ASSUME Versions, SocketInv, FreshInv, Versions', SocketInv', NEW p \in Pages, Page(p)
  PROVE  FreshInv'
<1> USE DEF runner, hub, watching, broadcast, polls, pages
<1>1. Coming' = Coming /\ UNCHANGED <<version, news, targets>>
  <2>1. UNCHANGED <<version, current, subscription, queue, pending, news, targets>>
    BY DEF Page, OpenPage, Join, Refresh, ClosePage, Disconnect, AnswerPoll, StorePoll,
           ShowPoll, PollFails
  <2>2. QED
    BY <2>1, ComingStays
<1>2. /\ {} \in SUBSET Everyone /\ {p} \in SUBSET Everyone /\ {Cache} \in SUBSET Everyone
      /\ p # Cache
  BY ClientAssumption DEF Everyone, Cache
<1>3. ASSUME NEW x \in Pages, PageFresh(x),
             page'[x] = page[x], shown'[x] = shown[x], poll'[x] = poll[x],
             answer'[x] = answer[x]
      PROVE  PageFresh(x)'
  BY <1>1, <1>3 DEF PageFresh, OnItsWay
<1>4. CASE OpenPage(p)
  <2>1. /\ misled' = misled \ {p} /\ UNCHANGED <<cached, shown, answer>>
        /\ page' = [page EXCEPT ![p] = "opening"] /\ poll' = [poll EXCEPT ![p] = "sent"]
    BY <1>4 DEF OpenPage, Poll
  <2>2. page'[p] = "opening" /\ poll'[p] = "sent"
    BY <2>1 DEF SocketInv
  <2>3. PageFresh(p)'
    BY <2>2 DEF PageFresh, OnItsWay
  <2>4. \A x \in Pages : x # p => page'[x] = page[x] /\ poll'[x] = poll[x]
    BY <2>1 DEF SocketInv
  <2>5. \A x \in Pages : x # p /\ x \notin misled => PageFresh(x)'
    BY <1>3, <2>1, <2>4 DEF FreshInv
  <2>6. CacheFresh' = CacheFresh
    BY <1>1, <2>1 DEF CacheFresh
  <2>7. QED
    BY <1>2, <2>1, <2>3, <2>5, <2>6 DEF FreshInv
<1>5. CASE Join(p) \/ Refresh(p) \/ Disconnect(p)
  <2>1. UNCHANGED <<cached, shown, answer, misled>>
    BY <1>5 DEF Join, Refresh, Disconnect, Poll
  <2>2. \/ UNCHANGED page
        \/ page[p] = "opening" /\ page' = [page EXCEPT ![p] = "open"]
    BY <1>5 DEF Join, Refresh, Disconnect
  <2>3. \/ UNCHANGED poll
        \/ poll[p] = "idle" /\ poll' = [poll EXCEPT ![p] = "sent"]
    BY <1>5 DEF Join, Refresh, Disconnect, Poll
  <2>4. ASSUME NEW x \in Pages
        PROVE  /\ page[x] \in {"opening", "open"} => page'[x] \in {"opening", "open"}
               /\ poll'[x] = poll[x] \/ poll[x] = "idle"
    BY <2>2, <2>3 DEF SocketInv
  <2>5. \A x \in Pages : PageFresh(x) => PageFresh(x)'
    BY <1>1, <2>1, <2>4 DEF PageFresh, OnItsWay
  <2>6. CacheFresh' = CacheFresh
    BY <1>1, <2>1 DEF CacheFresh
  <2>7. QED
    BY <2>1, <2>5, <2>6 DEF FreshInv
<1>6. CASE ClosePage(p)
  <2>1. /\ misled' = misled \cup {p} /\ UNCHANGED <<cached, poll, answer>>
        /\ page' = [page EXCEPT ![p] = "gone"] /\ shown' = [shown EXCEPT ![p] = 0]
    BY <1>6 DEF ClosePage
  <2>2. \A x \in Pages : x # p => page'[x] = page[x] /\ shown'[x] = shown[x]
    BY <2>1 DEF SocketInv, Versions
  <2>3. \A x \in Pages : x # p /\ x \notin misled => PageFresh(x)'
    BY <1>3, <2>1, <2>2 DEF FreshInv
  <2>4. CacheFresh' = CacheFresh
    BY <1>1, <2>1 DEF CacheFresh
  <2>5. QED
    BY <1>2, <2>1, <2>3, <2>4 DEF FreshInv
<1>7. CASE AnswerPoll(p)
  <2>1. /\ UNCHANGED <<cached, page, shown, misled>>
        /\ poll' = [poll EXCEPT ![p] = "answered"] /\ answer' = [answer EXCEPT ![p] = version]
    BY <1>7 DEF AnswerPoll
  <2>2. poll'[p] = "answered" /\ answer'[p] = version
    BY <2>1 DEF SocketInv, Versions
  <2>3. \A x \in Pages : x # p => poll'[x] = poll[x] /\ answer'[x] = answer[x]
    BY <2>1 DEF SocketInv, Versions
  <2>4. PageFresh(p) => PageFresh(p)'
    BY <1>1, <2>1, <2>2 DEF PageFresh, OnItsWay
  <2>5. \A x \in Pages : x # p /\ PageFresh(x) => PageFresh(x)'
    BY <1>3, <2>1, <2>3
  <2>6. CacheFresh' = CacheFresh
    BY <1>1, <2>1 DEF CacheFresh
  <2>7. QED
    BY <2>1, <2>4, <2>5, <2>6 DEF FreshInv
<1>8. CASE StorePoll(p)
  <2>1. /\ UNCHANGED <<page, shown, answer>> /\ poll[p] = "answered"
        /\ poll' = [poll EXCEPT ![p] = "stored"] /\ cached' = answer[p]
        /\ Mislead(IF answer[p] < cached THEN {Cache} ELSE {})
    BY <1>8 DEF StorePoll
  <2>2. PICK more \in SUBSET Everyone :
          Mislead(more) /\ more = IF answer[p] < cached THEN {Cache} ELSE {}
    BY <1>2, <2>1
  <2>3. ASSUME Cache \notin misled, Cache \notin more PROVE CacheFresh'
    <3>1. CacheFresh /\ ~(answer[p] < cached)
      BY <2>2, <2>3 DEF FreshInv
    <3>2. answer[p] \in 0..version /\ cached \in 0..version /\ version \in Nat
      BY DEF Versions
    <3>3. cached = version => answer[p] = version
      BY <3>1, <3>2
    <3>4. QED
      BY <1>1, <2>1, <3>1, <3>3 DEF CacheFresh
  <2>4. poll'[p] = "stored" /\ \A x \in Pages : x # p => poll'[x] = poll[x]
    BY <2>1 DEF SocketInv
  <2>5. PageFresh(p) => PageFresh(p)'
    BY <1>1, <2>1, <2>4 DEF PageFresh, OnItsWay
  <2>6. \A x \in Pages : x # p /\ PageFresh(x) => PageFresh(x)'
    BY <1>3, <2>1, <2>4
  <2>7. \A x \in Pages : x \notin misled /\ x \notin more => PageFresh(x)'
    BY <2>5, <2>6 DEF FreshInv
  <2>8. QED
    BY <2>2, <2>3, <2>7, FreshAgain
<1>9. CASE ShowPoll(p)
  <2>1. /\ UNCHANGED <<cached, page>> /\ poll[p] = "stored"
        /\ poll' = [poll EXCEPT ![p] = "idle"] /\ answer' = [answer EXCEPT ![p] = 0]
        /\ shown' = [shown EXCEPT ![p] = IF page[p] = "gone" THEN 0 ELSE answer[p]]
        /\ Mislead(IF answer[p] < shown[p] THEN {p} ELSE {})
    BY <1>9 DEF ShowPoll
  <2>2. PICK more \in SUBSET Everyone :
          Mislead(more) /\ more = IF answer[p] < shown[p] THEN {p} ELSE {}
    BY <1>2, <2>1
  <2>3. ASSUME p \notin misled, p \notin more PROVE PageFresh(p)'
    <3>1. PageFresh(p) /\ ~(answer[p] < shown[p])
      BY <2>2, <2>3 DEF FreshInv
    <3>2. answer[p] \in 0..version /\ shown[p] \in 0..version /\ version \in Nat
      BY DEF Versions
    <3>3. shown[p] = version => answer[p] = version
      BY <3>1, <3>2
    <3>4. page[p] # "gone"
      BY <3>1 DEF PageFresh
    <3>5. shown'[p] = answer[p]
      BY <2>1, <3>4 DEF Versions
    <3>6. QED
      BY <1>1, <2>1, <3>1, <3>3, <3>5 DEF PageFresh, OnItsWay
  <2>4. \A x \in Pages : x # p => /\ shown'[x] = shown[x] /\ poll'[x] = poll[x]
                                  /\ answer'[x] = answer[x]
    BY <2>1 DEF SocketInv, Versions
  <2>5. \A x \in Pages : x \notin misled /\ x \notin more => PageFresh(x)'
    BY <1>3, <2>1, <2>3, <2>4 DEF FreshInv
  <2>6. CacheFresh' = CacheFresh
    BY <1>1, <2>1 DEF CacheFresh
  <2>7. QED
    BY <2>2, <2>5, <2>6, FreshAgain DEF FreshInv
<1>10. CASE PollFails(p)
  <2>1. /\ UNCHANGED <<cached, page, answer>>
        /\ poll' = [poll EXCEPT ![p] = "idle"] /\ shown' = [shown EXCEPT ![p] = 0]
        /\ Mislead({p})
    BY <1>10 DEF PollFails
  <2>2. \A x \in Pages : x # p => shown'[x] = shown[x] /\ poll'[x] = poll[x]
    BY <2>1 DEF SocketInv, Versions
  <2>3. \A x \in Pages : x \notin misled /\ x \notin {p} => PageFresh(x)'
    BY <1>3, <2>1, <2>2 DEF FreshInv
  <2>4. CacheFresh' = CacheFresh
    BY <1>1, <2>1 DEF CacheFresh
  <2>5. QED
    BY <1>2, <2>1, <2>3, <2>4, FreshAgain DEF FreshInv
<1>11. QED
  BY <1>4, <1>5, <1>6, <1>7, <1>8, <1>9, <1>10 DEF Page

LEMMA FreshInvInductive ==
  Versions /\ CallInv /\ QueueInv /\ SocketInv /\ FreshInv /\ Versions' /\ SocketInv'
  /\ [ClientNext]_clientVars => FreshInv'
<1> SUFFICES ASSUME Versions, CallInv, QueueInv, SocketInv, FreshInv, Versions', SocketInv',
                    [ClientNext]_clientVars
             PROVE  FreshInv'
  OBVIOUS
<1> USE DEF runner, hub, watching, broadcast, polls, pages
<1>1. CASE Connect \/ WatchFails
  <2>1. ~Coming
    BY <1>1 DEF Connect, WatchFails, CallInv, Coming, Subscribed
  <2>2. UNCHANGED <<version, cached, news, targets, page, shown, poll, answer, misled>>
    BY <1>1 DEF Connect, WatchFails
  <2>3. QED
    BY <2>1, <2>2, StayFresh DEF FreshInv
<1>2. CASE ConnectFails \/ WakeUp \/ StartController \/ UNCHANGED clientVars
  <2>1. UNCHANGED <<version, current, subscription, queue, pending>>
    BY <1>2 DEF ConnectFails, WakeUp, StartController, clientVars
  <2>2. UNCHANGED <<cached, news, targets, page, shown, poll, answer, misled>>
    BY <1>2 DEF ConnectFails, WakeUp, StartController, clientVars
  <2>3. QED
    BY <2>1, <2>2, ComingStays, StayFresh DEF FreshInv
<1>3. CASE StopController
  <2>1. Mislead(Everyone)
    BY <1>3 DEF StopController
  <2>2. Everyone \in SUBSET Everyone /\ Cache \in Everyone /\ \A p \in Pages : p \in Everyone
    BY DEF Everyone
  <2>3. QED
    BY <2>1, <2>2, FreshAgain
<1>4. QED
  BY <1>1, <1>2, <1>3, RunnerKeepsFresh, ReaderKeepsFresh, BroadcastKeepsFresh, PageKeepsFresh
     DEF ClientNext, Reconnect

LEMMA ClientInvCorrect == ClientSpec => []ClientInv
<1>1. ClientInit => ClientInv
  <2> SUFFICES ASSUME ClientInit PROVE ClientInv
    OBVIOUS
  <2> USE DEF ClientInit, Hub!HubInit
  <2>1. Versions
    BY DEF Versions
  <2>2. CallInv
    BY ClientAssumption DEF CallInv
  <2>3. QueueInv
    BY DEF QueueInv, Subscribed
  <2>4. SocketInv
    BY DEF SocketInv
  <2>5. FreshInv
    BY DEF FreshInv, Everyone
  <2>6. QED
    BY <2>1, <2>2, <2>3, <2>4, <2>5 DEF ClientInv
<1>2. ClientInv /\ [ClientNext]_clientVars => ClientInv'
  BY VersionsInductive, CallInvInductive, QueueInvInductive, SocketInvInductive,
     FreshInvInductive DEF ClientInv
<1>3. QED
  BY <1>1, <1>2, PTL DEF ClientSpec

(* When all is quiet the cache and every open page show the latest status,  *)
(* but for those that the history says could not get it: whatever the       *)
(* number of pages, calls and statuses and the capacity of the queues.      *)
THEOREM PagesShowLatest == ClientSpec => []LatestStatusShown
<1>1. ClientInv => LatestStatusShown
  <2> SUFFICES ASSUME ClientInv, Quiet PROVE
        /\ cached = version \/ Cache \in misled
        /\ \A p \in Pages : page[p] = "open" => shown[p] = version \/ p \in misled
    BY DEF LatestStatusShown
  <2>1. news # version
    BY DEF ClientInv, Versions, Quiet
  <2>2. ~Coming
    BY DEF Coming, Contains, ToCome, Quiet, StatusIn, Status
  <2>3. QED
    BY <2>1, <2>2 DEF ClientInv, FreshInv, CacheFresh, PageFresh, OnItsWay, Quiet
<1>2. QED
  BY <1>1, ClientInvCorrect, PTL
=============================================================================
