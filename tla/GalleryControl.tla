--------------------------- MODULE GalleryControl ---------------------------
(***************************************************************************)
(* From the gallery in the controller's database (GalleryService) to the   *)
(* gallery the recognizer decides with (RecognitionCache): the calls of    *)
(* ReloadGallery, the manager of the runner that carries them out under    *)
(* its lock, and the starts and stops of the pipeline, each of which loads *)
(* the gallery anew.                                                       *)
(*                                                                         *)
(* A call may be lost, refused, or fail while it reads the database; its   *)
(* caller gives it up after a deadline while the runner goes on with it.   *)
(***************************************************************************)
EXTENDS RecognitionCache

CONSTANTS Clients, AutoRefresh, MaxIds, MaxRequests

ASSUME ControlAssumption ==
  /\ Clients \cap {"command", "free"} = {} /\ AutoRefresh \in BOOLEAN
  /\ MaxIds \in Nat \ {0} /\ MaxRequests \in Nat

VARIABLES
  identity, samples, enrollment, usable, request, requests, stored, failed,
  lock,      \* mutex_ of the manager: "free", a client's call, or "command"
  pipeline,  \* "stopped", "starting" or "running"
  call,      \* per client, its ReloadGallery: "none", "sent", "locked", "loaded", "swapped"
  loaded,    \* per client, and for "command", what load_gallery has read
  owed       \* history: some change was not followed by a call that loaded it

Controller == INSTANCE GalleryService WITH Keys <- Tracks

controller == <<identity, samples, enrollment, usable, request, requests, stored, failed>>
manager == <<lock, pipeline, call, loaded>>
controlVars == <<vars, controller, manager, owed>>

Users == Clients \cup {"command"}

ControlInit ==
  /\ Init
  /\ Controller!ServiceInit
  /\ gallery = Controller!Enrolled
  /\ lock = "free" /\ pipeline = "running"
  /\ call = [c \in Clients |-> "none"]
  /\ loaded = [u \in Users |-> {}]
  /\ owed = FALSE

-----------------------------------------------------------------------------
(* Requests.  Whoever awaits a reload has sent a call for it; what changes  *)
(* the gallery without a call is owed.                                      *)

Idle(c) == call[c] = "none"

Request(c) ==
  /\ Idle(c)
  /\ \/ Controller!Refresh(c)
     \/ Controller!Analyze(c)
     \/ \E k \in Tracks :
          \/ Controller!CreateIdentity(c, k) \/ Controller!UpdateIdentity(c, k)
          \/ Controller!DeleteIdentity(c, k) \/ Controller!DeleteEmbedding(c, k)
          \/ Controller!CommitCandidates(c, k) \/ Controller!CommitFails(c, k)
  /\ call' = [call EXCEPT ![c] = IF request'[c] = "reload" THEN "sent" ELSE "none"]
  /\ owed' = (owed \/ (Controller!Enrolled' # Controller!Enrolled /\ request'[c] # "reload"))
  /\ UNCHANGED <<vars, lock, pipeline, loaded>>

PruneExpired == Controller!PruneExpired /\ UNCHANGED <<vars, manager, owed>>

(* analyze_enrollment_image copies the configuration under the manager's    *)
(* lock; the controller waits for the answer for fifteen seconds.           *)
Analyzed(c) ==
  /\ \/ lock = "free" /\ Controller!CacheCandidates(c)
     \/ Controller!AnalysisFails(c)
  /\ UNCHANGED <<vars, manager, owed>>

Answered(c) ==
  /\ Idle(c)
  /\ Controller!ReloadReturns(c)
  /\ UNCHANGED <<vars, manager, owed>>

(* The handler returns, and its call may be carried out all the same.       *)
DeadlinePasses(c) ==
  /\ call[c] # "none"
  /\ Controller!ReloadReturns(c)
  /\ UNCHANGED <<vars, manager, owed>>

CallLost(c) ==
  /\ call[c] = "sent"
  /\ call' = [call EXCEPT ![c] = "none"]
  /\ owed' = TRUE
  /\ UNCHANGED <<vars, controller, lock, pipeline, loaded>>

-----------------------------------------------------------------------------
(* RunnerManager::reload_gallery.                                           *)

NotWaiting == TRUE \* faulty variant: reloads do not wait for the lock
Unlocked == lock = "free"

BeginReload(c) ==
  /\ call[c] = "sent" /\ Unlocked /\ pipeline = "running"
  /\ lock' = c
  /\ call' = [call EXCEPT ![c] = "locked"]
  /\ UNCHANGED <<vars, controller, pipeline, loaded, owed>>

(* No pipeline is running: accepted is false, and the next start loads.     *)
RefuseReload(c) ==
  /\ call[c] = "sent" /\ Unlocked /\ pipeline # "running"
  /\ call' = [call EXCEPT ![c] = "none"]
  /\ UNCHANGED <<vars, controller, lock, pipeline, loaded, owed>>

Load(c) ==
  /\ call[c] = "locked"
  /\ loaded' = [loaded EXCEPT ![c] = Controller!Enrolled]
  /\ call' = [call EXCEPT ![c] = "loaded"]
  /\ owed' = FALSE
  /\ UNCHANGED <<vars, controller, lock, pipeline>>

(* A row that cannot be used, or a database that cannot be read: the old    *)
(* gallery stays.                                                           *)
LoadFails(c) ==
  /\ call[c] = "locked"
  /\ call' = [call EXCEPT ![c] = "none"]
  /\ lock' = "free"
  /\ owed' = TRUE
  /\ UNCHANGED <<vars, controller, pipeline, loaded>>

Swap(c) ==
  /\ call[c] = "loaded"
  /\ ReplaceGallery(loaded[c])
  /\ call' = [call EXCEPT ![c] = "swapped"]
  /\ UNCHANGED <<controller, lock, pipeline, loaded, owed>>

Clear(c) ==
  /\ call[c] = "swapped"
  /\ ForgetDecisions
  /\ call' = [call EXCEPT ![c] = "none"]
  /\ lock' = "free"
  /\ loaded' = [loaded EXCEPT ![c] = {}]
  /\ UNCHANGED <<controller, pipeline, owed>>

-----------------------------------------------------------------------------
(* The pipeline: stop() joins the workers; start() builds a recognizer with *)
(* a gallery of its own and an empty cache.                                 *)

StopPipeline ==
  /\ lock = "free" /\ pipeline = "running"
  /\ \A w \in Workers : pc[w] = "idle"
  /\ pipeline' = "stopped"
  /\ UNCHANGED <<vars, controller, lock, call, loaded, owed>>

StartPipeline ==
  /\ lock = "free" /\ pipeline = "stopped"
  /\ lock' = "command" /\ pipeline' = "starting"
  /\ loaded' = [loaded EXCEPT !["command"] = Controller!Enrolled]
  /\ owed' = FALSE
  /\ UNCHANGED <<vars, controller, call>>

Started ==
  /\ pipeline = "starting"
  /\ lock' = "free" /\ pipeline' = "running"
  /\ gallery' = loaded["command"]
  /\ cache' = NoDecisions
  /\ loaded' = [loaded EXCEPT !["command"] = {}]
  /\ UNCHANGED <<reload, reloads, nextFrame, local, history, controller, call, owed>>

StartFails ==
  /\ pipeline = "starting"
  /\ lock' = "free" /\ pipeline' = "stopped"
  /\ loaded' = [loaded EXCEPT !["command"] = {}]
  /\ UNCHANGED <<vars, controller, call, owed>>

Recognizers ==
  /\ pipeline = "running"
  /\ \E w \in Workers : Recognize(w)
  /\ UNCHANGED <<controller, manager, owed>>

-----------------------------------------------------------------------------
ControlNext ==
  \/ PruneExpired \/ StopPipeline \/ StartPipeline \/ Started \/ StartFails \/ Recognizers
  \/ \E c \in Clients :
       \/ Request(c) \/ Analyzed(c) \/ Answered(c) \/ DeadlinePasses(c) \/ CallLost(c)
       \/ BeginReload(c) \/ RefuseReload(c) \/ Load(c) \/ LoadFails(c) \/ Swap(c) \/ Clear(c)

ControlSpec == ControlInit /\ [][ControlNext]_controlVars

-----------------------------------------------------------------------------
(* Properties.                                                              *)

ControlTypeOK ==
  /\ TypeOK
  /\ Controller!ServiceTypeOK
  /\ lock \in Users \cup {"free"}
  /\ pipeline \in {"stopped", "starting", "running"}
  /\ call \in [Clients -> {"none", "sent", "locked", "loaded", "swapped"}]
  /\ loaded \in [Users -> SUBSET Tracks]
  /\ owed \in BOOLEAN

(* When no call is under way, a running pipeline decides with the gallery   *)
(* of the database: however the reloads of several requests, their failures *)
(* and the starts and stops interleave, no older gallery is put in place of *)
(* a newer one.  Excepted is a change after which a call was lost or failed *)
(* or nobody made one, until the next load.                                 *)
GalleryFollowsDatabase ==
  (pipeline = "running" /\ lock = "free" /\ ~owed /\ \A c \in Clients : call[c] = "none") =>
    gallery = Controller!Enrolled

(* Candidates are stored a second time only after a commit that failed half *)
(* way, which keeps what it stored and keeps the candidates as well: two    *)
(* requests to commit the same enrolment, one of them waiting for the       *)
(* runner, never both store.                                                *)
CommittedOnce == stored <= 1 + failed
=============================================================================
