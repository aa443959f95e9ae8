--------------------------- MODULE GalleryService ---------------------------
(***************************************************************************)
(* The gallery as the controller keeps it: identities and their face       *)
(* embeddings in SQLite (gallery_store.py), the candidates of an enrolment *)
(* in memory (gallery_service.py), and the handlers that change them       *)
(* (api.py).  There is one event loop and the calls of SQLite are made in  *)
(* it, so that what a handler does between two awaits is one action.       *)
(*                                                                         *)
(* A client is a slot for a request.  A handler that has written calls the *)
(* runner, which reloads its gallery; GalleryControl has that side.        *)
(***************************************************************************)
EXTENDS Naturals

CONSTANTS
  Keys,         \* identity keys
  Clients,      \* requests that may be under way at once
  AutoRefresh,  \* gallery.auto_refresh
  MaxIds,       \* bound on the candidates of a commit
  MaxRequests   \* bound on requests

VARIABLES
  identity,    \* per key, its row: "absent", "active" or "inactive"
  samples,     \* per key, its active embeddings
  enrollment,  \* _enrollments: of one image, "none", "cached" or "gone"
  usable,      \* its candidates that may be committed
  request,     \* per client, what its handler awaits
  requests,    \* how many have been made
  \* History.
  stored,      \* commits that stored candidates of the enrolment
  failed       \* commits that raised after storing some

store == <<identity, samples>>
commits == <<stored, failed>>
images == <<enrollment, usable>>
serviceVars == <<store, images, request, requests, commits>>

(* The rows load_gallery selects: active embeddings of active identities.   *)
Enrolled == {k \in Keys : identity[k] = "active" /\ samples[k] > 0}

ServiceInit ==
  /\ identity \in [Keys -> {"absent", "active", "inactive"}]
  /\ samples \in [Keys -> 0..1]
  /\ \A k \in Keys : identity[k] = "absent" => samples[k] = 0
  /\ enrollment = "none" /\ usable = 0
  /\ request = [c \in Clients |-> "none"] /\ requests = 0
  /\ stored = 0 /\ failed = 0

(* A handler of client c begins; what it awaits first, if anything.         *)
Handle(c, awaits) ==
  /\ request[c] = "none" /\ requests < MaxRequests
  /\ request' = [request EXCEPT ![c] = awaits]
  /\ requests' = requests + 1

AwaitReload == IF AutoRefresh THEN "reload" ELSE "none"

Return(c) == request' = [request EXCEPT ![c] = "none"]

-----------------------------------------------------------------------------
(* Requests that change the store.                                          *)

(* POST identities: a key that exists is an IntegrityError, and no change.  *)
CreateIdentity(c, k) ==
  /\ identity[k] = "absent"
  /\ \E a \in {"active", "inactive"} : identity' = [identity EXCEPT ![k] = a]
  /\ Handle(c, "none")
  /\ UNCHANGED <<samples, images, commits>>

(* PATCH identities with a value for active; another name changes nothing   *)
(* here.                                                                    *)
UpdateIdentity(c, k) ==
  /\ identity[k] # "absent"
  /\ \E a \in {"active", "inactive"} : identity' = [identity EXCEPT ![k] = a]
  /\ Handle(c, AwaitReload)
  /\ UNCHANGED <<samples, images, commits>>

(* DELETE identities takes the embeddings with it. *)
DeleteIdentity(c, k) ==
  /\ identity[k] # "absent"
  /\ identity' = [identity EXCEPT ![k] = "absent"]
  /\ samples' = [samples EXCEPT ![k] = 0]
  /\ Handle(c, AwaitReload)
  /\ UNCHANGED <<images, commits>>

(* DELETE embeddings. *)
DeleteEmbedding(c, k) ==
  /\ samples[k] > 0
  /\ samples' = [samples EXCEPT ![k] = @ - 1]
  /\ Handle(c, AwaitReload)
  /\ UNCHANGED <<identity, images, commits>>

(* POST refresh. *)
Refresh(c) ==
  /\ Handle(c, "reload")
  /\ UNCHANGED <<store, images, commits>>

-----------------------------------------------------------------------------
(* Enrolment: an image is analyzed by the runner, its candidates are cached *)
(* for a while and some of them are committed to an identity.  Each image   *)
(* makes an enrolment of its own; one is followed.                          *)

Analyze(c) ==
  /\ enrollment = "none" /\ \A d \in Clients : request[d] # "analysis"
  /\ Handle(c, "analysis")
  /\ UNCHANGED <<store, images, commits>>

(* analyze_mobilefacenet_enrollment_image finds any number of faces of      *)
(* which any may be usable; an image that cannot be decoded, or a network   *)
(* that fails, is an answer without candidates.                             *)
Found == 0..MaxIds

(* _cache_runner_candidates *)
CacheCandidates(c) ==
  /\ request[c] = "analysis"
  /\ enrollment' = "cached" /\ usable' \in Found
  /\ Return(c)
  /\ UNCHANGED <<store, requests, commits>>

AnalysisFails(c) ==
  /\ request[c] = "analysis"
  /\ Return(c)
  /\ UNCHANGED <<store, images, requests, commits>>

(* prune_expired, seen by whoever looks next. *)
PruneExpired ==
  /\ enrollment = "cached"
  /\ enrollment' = "gone" /\ usable' = 0
  /\ UNCHANGED <<store, request, requests, commits>>

(* What every commit with n usable candidates does before it ends: the      *)
(* identity is made active, then the candidates are stored one by one.      *)
Store(k, n) ==
  /\ enrollment = "cached" /\ identity[k] # "absent"
  /\ n > 0 => usable > 0 \* the same candidate may be named twice
  /\ identity' = [identity EXCEPT ![k] = "active"]
  /\ samples' = [samples EXCEPT ![k] = @ + n]
  /\ stored' = IF n > 0 THEN stored + 1 ELSE stored

NotPopped == enrollment \* faulty variant: the candidates stay to be committed again
Popped == "gone"

CommitCandidates(c, k) ==
  /\ \E n \in 1..MaxIds : Store(k, n)
  /\ enrollment' = Popped
  /\ Handle(c, AwaitReload)
  /\ UNCHANGED <<usable, failed>>

(* The next candidate is unknown or not usable: the handler raises and what *)
(* it has done stays, the candidates too.  Nobody calls the runner.         *)
CommitFails(c, k) ==
  /\ \E n \in 0..MaxIds : Store(k, n)
  /\ failed' = failed + 1
  /\ Handle(c, "none")
  /\ UNCHANGED images

(* The runner has answered, or the call has failed: the exception is        *)
(* swallowed (update, delete, commit) or becomes a 502 (others).            *)
ReloadReturns(c) ==
  /\ request[c] = "reload"
  /\ Return(c)
  /\ UNCHANGED <<store, images, requests, commits>>

ServiceTypeOK ==
  /\ identity \in [Keys -> {"absent", "active", "inactive"}]
  /\ samples \in [Keys -> Nat]
  /\ \A k \in Keys : identity[k] = "absent" => samples[k] = 0
  /\ enrollment \in {"none", "cached", "gone"} /\ usable \in Found
  /\ request \in [Clients -> {"none", "analysis", "reload"}]
  /\ requests \in 0..MaxRequests
  /\ stored \in 0..MaxRequests /\ failed \in 0..MaxRequests
=============================================================================
