# VeilSight in TLA+

VeilSight takes live video, finds and tracks the people in it, recognises
those who have enrolled, and publishes streams in which everybody else is
anonymized.  A C++ *runner* does this with some twenty kinds of threads
connected by bounded queues; a Python *controller* keeps identities and
analytics rules in SQLite and commands the runner over gRPC; a web interface
talks to both.  These modules model the parts in which order, concurrency and
failure decide whether somebody is shown who should not be, whether the
streams go on, and whether the processes agree about what is running.

File and line references are to the repository; `core/...` means
`src/core/...`, `controller/...` the package `veilsight_controller`.

1. [The system and its parts](#1-the-system-and-its-parts)
2. [Modules](#2-modules)
3. [Runs: bounds and what they show](#3-runs)
4. [Fairness](#4-fairness)
5. [Theorems and their proofs](#5-theorems)
6. [Where the code and its documents disagree](#6-findings)
7. [What is not modelled](#7-what-is-not-modelled)
8. [Plan](#8-plan)

## 1. The system and its parts

### A frame's way through the runner

    source --> ingest thread --> detector pool --------.
       (per stream)  \                                  \
                      '--> frames_in --> coordinator thread (per stream) <--> face pool
                                              |   ^  \<--> recognizer pool  (gallery, cache)
                                              |    \<----> identity pool
                                              v
                             anonymizer queue (one for all streams)
                                              v
                                      anonymizer threads
                                              v
                               encoder queue --> encoder thread (per stream)
                                              v
                             MJPEG streams, WebRTC sessions, telemetry

| Part | State | Operations | Interacts by | Hard because | Right when |
|---|---|---|---|---|---|
| Bounded queue `pipeline/bounded_queue.hpp` | elements, capacity, drop counter, stopped flag | push_drop_oldest, pop_for, try_pop, stop, reset | mutex and condition variable | a full queue drops its oldest element silently to the producer | within capacity, drops counted, order kept |
| Stream coordinator `pipeline/stream_coordinator.cpp` | three cursors, three "latest" ids, seven maps keyed by frame | push_* for five kinds of input, drain_ready | called by one thread; boxes of a frame are shared with the pools without a lock | answers out of order, late, or never; a window and a limit that interact | commits in order, once; gives up a frame only beyond the window; never stalls |
| Pipeline runtime `pipeline/runtime.cpp` | `running_`, pipes, pools, queues, metrics | start, stop, the thread loops | owns everything above | start may fail between any two threads; stop joins threads that wait on each other's queues | stop returns and leaves no thread; nothing of one run appears in the next |
| Recognizer `recognizer/mobilefacenet_recognizer.cpp` | shared gallery, per-stream cache of decisions with a TTL | recognize (by each worker), reload_gallery | gallery mutex, cache mutex, taken separately | reload between match and store; a worker that throws while another waits for it | nobody is shown on a decision of an old gallery; no track pending for ever |
| Identity decider, anonymizer `identity/`, `anonymization/` | none | decision to privacy action; blur of boxes | worker threads | - | whoever is not known is hidden |
| Trackers `tracking/` | lists of tracked, lost, removed tracks | update per frame | called by the coordinator, frames in order | tracks move between lists over many frames | a track is in one list; ids do not come back |
| Detectors `person_detector/`, `face_detector/` | the network | detect | worker threads | - (arithmetic on tensors) | - |
| Ingest `ingest/gst_dual_source.cpp` | pending inference and UI frames | start, read, stop | GStreamer appsinks | two branches paired by time stamp, lists bounded | frames numbered in the order of their moments; a pair is of one moment |
| WebRTC publisher `streaming/webrtc_publisher.cpp` | streams, sessions; per session a GStreamer pipeline | register_stream, handle_offer, delete_session, clear_sessions, publish_frame | HTTP threads, encoder threads and the manager share the map | three locks; shared pointers; sessions removed while being negotiated | no pipeline without an owner; peer limit; handlers return |
| HTTP server `streaming/runner_http_server.cpp` | MJPEG streams and readers | routes, push, stop | a thread per request | readers wait on a condition variable while stop clears a flag | stop wakes all readers |
| Telemetry hub `core_service/src/telemetry_hub.cpp` | a bounded queue per watcher | subscribe, publish_*, pop_for, unsubscribe | any thread publishes; gRPC threads pop | publishers copy the list of watchers and push without the hub's lock | the last status a watcher has is true; metrics do not push out other events |
| Runner manager `core_service/src/runner_manager.cpp` | configuration, state, runtime | start, stop, reload_config_yaml, reload_gallery, status, offers | one lock for all commands; the hub and the publisher have their own | a reload stops the old pipeline before the new one is known to work | status, configuration, telemetry and sessions agree with what runs |
| gRPC server, main | - | RPC handlers, shutdown | calls the manager | a watch that ends while events are published | - |
| Runner client, telemetry cache `controller/runner_client.py`, `telemetry_cache.py` | channel; last values | reconnecting watch | asyncio tasks | ends on an exception of another type | a restart of the runner is survived |
| Analytics service and store `controller/analytics_service.py`, `analytics_store.py` | ingest queue, latest snapshots; rules, events, snapshots in SQLite | handle_event, the worker, create/update/delete_rule, latest_snapshot | one event loop; the database in threads | each await lets others run: rules are read, awaited and written | engine, database and events agree |
| Analytics engine `controller/analytics_engine.py` | per stream: rules, active tracks, who is inside which area or past which line | process_frame, upsert_rule, delete_rule | called by the service | rules that change while tracks are inside | enter and exit alternate |
| Gallery service and store `controller/gallery_service.py`, `gallery_store.py` | candidates; identities and embeddings in SQLite | analyze, commit, rename, deactivate, delete; reload of the runner | API handlers | a commit that fails half way; a reload that fails after the write | runner's gallery is that of the database |
| Configuration `common/config.cpp`, `replicate.cpp`, the factories | - | parse, validate, replicate, choose the stages | called by the manager | what is validated is not all that a start needs | an accepted document fits what the parts assume, and starts or fails but does not end the process |
| Web interface `web/src/App.tsx`, controller routes `controller/api.py` | the status a page shows | poll, WebSocket, commands | HTTP and WebSockets to the controller | a poll's answer races a pushed status | a page shows the latest status it could get |
| Evaluation tools, scripts | - | batch runs | - | - | - |

### Hazards

`PROJECT.json` lists every hazard at its line with the properties that watch
it.  The ones that shaped the models: results out of order or lost
(`stream_coordinator.cpp:256`, `:300`, `:317`), the limit that moves the commit
cursor (`:345`), start and stop meeting half-built state (`runtime.cpp:499`,
`:520`), the reload of the gallery against decisions in flight
(`mobilefacenet_recognizer.cpp:609`), sessions removed under an offer
(`webrtc_publisher.cpp:371`, `:641`), a reload of the configuration whose
rollback fails (`runner_manager.cpp:72`) or that ends the process
(`runtime.cpp:475`), reloads of the gallery that overtake each other
(`runner_manager.cpp:92`) or fail after the database was written
(`gallery_service.py:106`), faces attached to somebody else's box
(`face_policy.cpp:81`), a shutdown that waits for calls and readers
(`grpc_runner_server.cpp:243`, `runner_http_server.cpp:275`), and rules
changed across awaits (`analytics_service.py:118`, `:254`) or taken from a
stream with tracks inside (`analytics_engine.py:607`).

## 2. Modules

Every module models one component, or composes several; it is parameterised by
CONSTANTS with named assumptions and keeps the names of the source where it
can.  `map` in `PROJECT.json` gives the lines behind each definition.

| Module | Models | Correspondence |
|---|---|---|
| `CommitLog` | what the coordinator promises | frames are offered in order and committed in order, each once, some never |
| `StreamCoordinator` | `stream_coordinator.cpp`, and the ingest and coordinator threads around it | the cursors and maps are variables of the same names; each `push_*` is an action; `drain_ready` is a sequence of phases (`phase`), one loop iteration per step, because boxes are shared with the pools while it runs; the pools answer in any order |
| `BoundedQueue` | `bounded_queue.hpp` | operators on a record; used by the runtime |
| `PipelineRuntime` | `runtime.cpp`: start, stop, all thread loops | `ctl` is the caller's place in start() or stop(); each thread has a `pc`; between its loop test and its work a thread may be interrupted anywhere |
| `RecognitionCache` | `mobilefacenet_recognizer.cpp` | `gallery`, `cache`; per worker the frame, the track and the place in `recognize()`, one step per critical section |
| `GalleryService` | `gallery_service.py`, `gallery_store.py`, their handlers in `api.py` | a request is a slot; what a handler does between two awaits is one action, since SQLite is called in the event loop |
| `GalleryControl` | composes `GalleryService`, the manager's `reload_gallery` and the loads of a start with `RecognitionCache` | a call of ReloadGallery may be lost, refused or fail, and goes on in the runner when its caller has given it up; `lock` is the manager's mutex |
| `DualSource` | `gst_dual_source.cpp` | `inf` and `ui` are the pending lists; read() pulls, matches and trims in the code's order |
| `ByteTracker` | `bytetrack_tracker.cpp` | `update()` as one action over the tracked and lost lists |
| `StreamFront` | source and tracker of one stream | `DualSource` numbers the frames `ByteTracker` gets |
| `PrivacyChain` | tracker, `face_policy.cpp`, recognizer, `identity_decider.cpp`, `anonymizer.cpp`, for one stream | a frame goes through the stages in turn; a box keeps whom it shows, whose face is attached to it, what was decided and what is to be hidden |
| `WebRTCPublisher` | `webrtc_publisher.cpp` and its HTTP handlers | `sessions` is the map; a session lives while it is in the map or held by a thread (`Held`), and its pipeline ends with it (`Destructed`) or with `stop()` |
| `TelemetryHub` | `telemetry_hub.cpp` | a queue per watcher; publishing is two steps, copying the watchers and pushing to each |
| `Configuration` | `config.cpp`, `replicate.cpp`, `make_options_`, the factories | pure operators: a document to what the parser makes of it, whether it is accepted, the copies of its streams, the options of the pipeline, and whether start() can succeed or ends the process |
| `RunnerManager` | `runner_manager.cpp` | composes the hub and the publisher (`INSTANCE`) with the manager's commands; the pipeline is what `PipelineRuntime` promises: its threads publish until stop() has returned |
| `RunnerProcess` | `main.cpp`, `grpc_runner_server.cpp`, the MJPEG part of `runner_http_server.cpp` | the main thread's steps after a signal, the calls under way, the readers of a stream with their place in the wait of a condition variable |
| `RunnerClient` | `runner_client.py`, `telemetry_cache.py`, the status in `api.py` and `App.tsx` | the watch and its reconnection over the runner's `TelemetryHub` (`INSTANCE`), the cache, the broadcast to sockets, polls and their answers |
| `AnalyticsEngine` | `analytics_engine.py`, area rules | rules, tracks, who is inside and whose stay has been reported, as the engine keeps them |
| `AnalyticsService` | `analytics_service.py`, `analytics_store.py` | composes the engine with the worker and the requests; an action is what runs between two awaits, and a call of the store is one action |

`MC*` modules define the small sets the configurations name.  The theorems are
in eight modules: `StreamCoordinator_proofs`, `PipelineRuntime_proofs`,
`RecognitionCache_proofs` (with `GalleryControl`), `PrivacyChain_proofs` (with
`StreamFront`), `WebRTCPublisher_proofs`, `RunnerManager_proofs` (with
`Configuration`), `RunnerProcess_proofs` (with `RunnerClient`) and
`AnalyticsService_proofs`.  Each module has one type invariant as a definition;
the runs spend their time on the other properties.  Types are proved: those of
the coordinator, of the recognizer and of the analytics service as theorems,
those of the others as the first part of the invariants their theorems need.

Some choices a reader should know.

- *A drop is a choice of the queue.*  Where `StreamCoordinator` loses a frame,
  a task or an answer (`DropFrame`, `DropTask`, `Ingest`), it is one that a
  bounded queue drops, a worker fails on, or a source does not deliver.
- *Loop tests* are taken together with the end of the iteration before.
- *The pools* of the stages (detectors, faces, recognizers, identity) are, in
  `PipelineRuntime`, threads that can be started, wait and end; what passes
  through them is `StreamCoordinator`'s subject, and the runtime has in their
  place that frames are committed in order, or not (`CommitLog`).  It assumes
  that the streams have distinct ids; `Configuration` shows what happens when
  they have not.
- *RecognitionCache* has one stream, since the cache is keyed by stream, and
  track t always shows person t.  `PrivacyChain` drops both restrictions: there
  a person may be given to any track, and a face to any box.
- *PrivacyChain* takes an embedding for its person's; whether the threshold of
  the match is a good one is not a question of the code's control.
- *WebRTC*: whether a session may expire depends on the clock and is a free
  choice.  An offer whose session was stopped under it may wait for ever
  (`hung`): the promise is waited for without a timeout.
- *RunnerManager*: a configuration is a name; `MCRunnerManager` makes the names
  stand for documents, reads these with `Configuration`, and states which of
  them are accepted, start, or end the process (`DocumentsAsMeant`).
- *RunnerProcess*: the lock of an MJPEG stream is not atomic.  A reader holds
  it from the test of its predicate until it sleeps; stop() never takes it.
- *RunnerClient*: a status is its number, and a frame stands for every event
  that is none, since it takes its place in the queue.  `gather` with
  `return_exceptions=True` keeps the error of one callback from the others.
  A broadcast sends to one socket after another, each awaited, so that a poll
  may show a page a newer status than the one still on its way to it.
- *GalleryService* follows one enrolment; requests for others do not touch its
  candidates.
- *TelemetryHub*: the removal of metrics is spelt out by a function
  (`WithoutMetrics`), since the provers have no rules for `SelectSeq`.
- *AnalyticsEngine*: a rule is "on" when it is an enabled area of the stream,
  "off" when it is another rule of the stream, and "away" when it is one of
  another stream or profile; an update may make any of any.  That a track has
  stayed long enough is a free choice of the frame; what the code makes of it
  is not.  A rule that does not convert may raise at any track, between any two
  rules (`BreakOff`): some tracks have been judged, and `active` stays.
- *AnalyticsService*: the worker has no except, so it may die while it judges a
  frame, persists it (with part of its events inserted) or broadcasts it, and
  by a frame of another stream when it is idle.  The run has one track, so the
  parts of a frame are none or all of it there; the proofs have any number.
- *ByteTracker*: boxes are left out, so any set of tracks may be matched and
  any tracked and lost track may overlap.  All tracks are activated when they
  are created, so the branch for unconfirmed tracks is dead and has no action.
- *DualSource*: an appsink holds one buffer and drops the one before; hence
  each branch delivers a subsequence.  Moment 0 has the time stamp 0, which
  the code takes for none.

## 3. Runs

| Run | Instance | Distinct states | Shows |
|---|---|---|---|
| `coordinator_reorder` | 4 frames, window 1, limit 1, assigned faces; the second frame without an inference image, any but the last lost | 603 k | commits in order and boxes final at commit; a result is given up only when it is later than the window; cursors in the order of the stages, never back; refinement of `CommitLog` |
| `coordinator_progress` | 3 frames, window 0, limit 1, independent faces, fair | 110 k | the commit passes a frame only after an overrun, the backlog is bounded, every tracked frame is settled |
| `runtime` | 1 stream of 3 frames, 1 anonymizer, anonymizer queue of 2, 2 runs, fair | 109 k | stop() returns and leaves no thread, wherever start() failed; no frame lost uncounted; nothing of one start() of the object in the next; published in order |
| `recognition_stale` | 2 workers, 2 tracks, 4 frames, time to live 1, 2 reloads | - | *violated*: section 6 |
| `gallery_control` | 1 person, 2 workers, 2 clients, 3 requests, 3 reloads | 2.1 M | no mark without a worker; who is in no gallery is shown only by a decision in flight; the gallery in use is the database's once no call is under way; an enrolment is stored once |
| `privacy_chain` | 2 people, 2 tracks, buffer of 1, time to live 1, 4 frames, every setting | 2.8 M | whoever is not in the gallery is seen for one of three reasons only; a decision stays with the track whose face it was made for |
| `front_tracks` | 6 moments, pending lists of 2, buffer of 1, 3 tracks | 1.3 M | pairs of one moment, in order, not broken by trimming; ids never return; duplicates leave one |
| `webrtc_sessions` | 2 HTTP threads, 2 streams, 3 sessions, 1 peer | 2.0 M | no orphaned pipeline; peers bounded by limit and threads; an offer hangs only if its session was removed |
| `runner_control` | 2 configurations, one with two streams of a name, 1 watcher with a queue of 2, 1 HTTP thread, 1 session, 3 pipelines | 1.7 M | status, configuration, telemetry and sessions agree with the pipeline |
| `runner_process` | 2 callers, 2 readers, 2 frames, fair | 177 k | no reader misses a push; a reader hangs only if stop() overlooked it; no pipeline outlives the manager; the shutdown ends |
| `runner_client` | 2 pages, 1 operator, 2 calls, queue of 1, 2 statuses, fair | 1.3 M | cache and pages show the latest status they could get; the watch comes back |
| `analytics_rules` | 1 rule, 1 track, 2 clients, queue of 1, 3 frames, 3 requests | 4.9 M | engine, database and events agree, except where requests for one rule overlapped; only a rule that ceased to be judged keeps a track that is gone |

Why the bounds are enough.  Every safety property of a passing run is also a
theorem (section 5), for all values; the bounds have to show that its cases
happen, and carry the liveness properties.  In the coordinator every test compares two frame
ids, or a count with a limit; with four frames and a window of 1 there is a
frame inside, at the edge of and beyond the window of every other.  The limit
of `coordinator_reorder` is not above its window, so that trimming
(`stream_coordinator.cpp:345`) passes frames that are still at work; that of
`coordinator_progress` is, which `CommitPassesOnlyOverrun` needs.  In the
runtime two runs are the fewest in which something can be left over (the manager
makes a new `PipelineRuntime` for each start, `runner_manager.cpp:228`, so
`OnlyThisRun` is the contract of the class and not a danger today); the proof
of `NoThreadOutlivesStop` covers more streams and workers.  Two workers are
enough for a worker to wait for another's mark, three reloads for one to follow
a decision that survived another and for two to overtake each other; a frame
more than the time to live lets entries expire in between.  Two people are the
fewest whose faces can be mixed up, two tracks let one of them give way, and
four frames let a track be lost, given up and its decision expire.  Two HTTP
threads are the fewest that race for the last peer, and three sessions allow
one to be removed, one to replace it and one to be refused.  Three pipelines
are what a start, a failed reload and its rollback need.  Two readers and two
frames let one reader sleep through what the other gets; two calls of the
watch are a break and a return.  That a broadcast reaches a page after a poll
has shown it a newer status takes a third status, with which two pages are too
much for TLC; `PagesShowLatest` covers it.  Two clients overlap in every order of their
awaits, and three requests are create, update and delete; three frames let a
track enter, stay and leave.  Six moments fill a list of two beyond its limit
while a pair waits behind it; three tracks give a chain of duplicates.

`CHECK_DEADLOCK FALSE` stands where a bound ends the run (no frames, runs or
requests left) and the system simply stops.

Each property has a mutant in `PROJECT.json`, a plausible fault of a modelled
definition that makes TLC report the property violated.  The faulty forms
stand next to the definition and are marked as such; nothing uses them.

## 4. Fairness

Four runs assume any.

`Coordinator_progress.cfg`: weak fairness of the ingest thread and of the
steps of `drain_ready`, and strong fairness of the pushes.  The coordinator
thread is a loop that waits at most a few milliseconds (`runtime.cpp:642-672`),
so an answer that keeps waiting in a queue is taken.  Strong fairness is
needed as the pushes are disabled again and again while the thread drains.
Nothing is assumed of the pools: an answer may be lost.

`Runtime.cfg`: weak fairness of every thread and of the thread that calls
stop().  Every wait of the runtime has a timeout (`pop_for`,
`bounded_queue.hpp:40`) and every loop tests `running_` after it; no thread
waits for a lock that another keeps.  A call of stop() is not assumed; if it
is made, it returns.

`Runner_process.cfg`: weak fairness of the main thread after a signal, of the
threads that answer calls and readers, and of the watch, whose `pop_for` has a
timeout (`grpc_runner_server.cpp:126`).  Signals, calls and readers come or do
not.  `ShutdownEnds` supposes what the code cannot give itself: that no client
goes on watching, and that stop() has overlooked no reader.

`Runner_client.cfg`: weak fairness of the controller's task, of the broadcast
and of the runner's handler of the call.  A connection breaks when the runner
crashes, at any moment; `WatchIsRestored` supposes that runner and controller
stay from some time on.

## 5. Theorems

TLAPS proves for all values of the constants under their named assumptions:

| Theorem | States |
|---|---|
| `StreamCoordinator_proofs!TypeCorrect` | types of the coordinator |
| `StreamCoordinator_proofs!CommitOrder` | commits in frame order, each frame once |
| `StreamCoordinator_proofs!CoordinatorImplementsCommitLog` | the coordinator implements `CommitLog` |
| `StreamCoordinator_proofs!CursorsBehindStages` | no stage runs ahead of the one before it (`CursorsFollowStages`) |
| `StreamCoordinator_proofs!CursorsOnlyAdvance` | no cursor goes back (`CursorsAdvance`) |
| `StreamCoordinator_proofs!CommittedFramesFinal` | a committed frame is decided for good (`CommittedBoxesFinal`) |
| `StreamCoordinator_proofs!GivenUpLate` | a frame is given up only beyond the window (`GivenUpOnlyLate`) |
| `StreamCoordinator_proofs!BacklogIsBounded` | when the maps are trimmed they hold no more than the window (`BacklogFitsWindow`) |
| `StreamCoordinator_proofs!CommitPassesLate` | with a limit above the window, a frame is passed uncommitted only after an overrun (`CommitPassesOnlyOverrun`) |
| `PipelineRuntime_proofs!StopJoinsEveryThread` | after stop() no thread is left (`NoThreadOutlivesStop`) |
| `PipelineRuntime_proofs!PushDropsOldestOnly` | a push keeps within capacity, drops and counts the oldest if the queue was full, and keeps the others in order before the new one |
| `PipelineRuntime_proofs!RunsApart` | nothing of one run in the next (`OnlyThisRun`) |
| `PipelineRuntime_proofs!StreamsInOrder` | with one anonymizer thread a stream is published in order (`PublishedInOrder`) |
| `PipelineRuntime_proofs!NoneLostUncounted` | what was committed is queued, in hand, published or counted as dropped (`FramesAccounted`) |
| `RecognitionCache_proofs!TypeCorrect` | types of the recognizer |
| `RecognitionCache_proofs!PendingTracksAreWorkedOn` | a mark has a worker that will remove it (`InProgressHasWorker`) |
| `RecognitionCache_proofs!OnlyInFlightLeaks` | who is in no gallery during a call is shown only by a decision in flight at a reload (`LeaksOnlyInFlight`) |
| `RecognitionCache_proofs!PendingUnderControl`, `LeaksUnderControl` | both also under the controller's requests, lost calls and overtaking reloads |
| `RecognitionCache_proofs!GalleryStaysCurrent` | the runner's gallery is the database's, unless a reload or a commit failed (`GalleryFollowsDatabase`) |
| `RecognitionCache_proofs!StoredOnce` | an enrolment is stored once, unless a commit failed half way (`CommittedOnce`) |
| `PrivacyChain_proofs!DecisionsStayWithTracks` | a box is shown as somebody's only for a face attached to its own track (`DecisionsFollowTracks`) |
| `PrivacyChain_proofs!ExposureExplained` | somebody not in the gallery is seen for three reasons only (`ExposureHasCause`) |
| `PrivacyChain_proofs!IdsNeverReturn` | the id of a track given up does not come back (`NoIdReturns`) |
| `PrivacyChain_proofs!TracksLeaveOne` | a duplicate gives way to a track that is kept and has lasted as long (`DuplicatesLeaveOne`) |
| `PrivacyChain_proofs!FramesPairMoments` | the images of a frame are of one moment, in order (`PairsInOrder`) |
| `PrivacyChain_proofs!TrimmingBreaksNoPair` | a moment of both branches becomes a frame, unless a list overflowed (`NoPairBroken`) |
| `WebRTCPublisher_proofs!NoOrphan` | no pipeline without somebody who can stop it (`NoOrphanPipeline`) |
| `WebRTCPublisher_proofs!PeersLimited` | the limit of peers is exceeded by at most one for each further HTTP thread (`PeersBounded`) |
| `WebRTCPublisher_proofs!OfferHangsOnlyIfRemoved` | an offer hangs only if its session was removed meanwhile (`HungOnlyIfRemoved`) |
| `RunnerManager_proofs!ConfigSurvivesReloads` | the configuration is that of the last reload that succeeded (`FailedReloadKeepsConfig`) |
| `RunnerManager_proofs!StoppedIsLast` | nothing of a pipeline is read after its "stopped" (`NothingAfterStopped`) |
| `RunnerManager_proofs!StatusTells` | status and telemetry say whether the pipeline runs (`StatusIsTrue`) |
| `RunnerManager_proofs!RunTakesSessions` | sessions end with their pipeline (`SessionsEndWithRun`) |
| `RunnerManager_proofs!CheckedWhenParsed` | the parser lets no queue size, runtime number or instance count pass that validation would refuse as too small |
| `RunnerManager_proofs!OptionsFit` | what an accepted document gives the pipeline's parts satisfies the assumptions their modules make |
| `RunnerManager_proofs!StreamsExpand` | every accepted document has a stream after replication |
| `RunnerManager_proofs!DistinctIdsKeepApart` | with distinct ids no running thread is assigned |
| `RunnerManager_proofs!IdsAreNotChecked` | a document is accepted whatever its streams are called; called alike, two of them end the process |
| `RunnerProcess_proofs!ReadersSeePushes` | no reader sleeps through a push (`NoReaderMissesPush`) |
| `RunnerProcess_proofs!OnlyBetweenHangs` | a reader hangs only if stop() came between its test and its sleep (`HungOnlyIfBetween`) |
| `RunnerProcess_proofs!NothingRestarted` | no pipeline outlives the manager (`StoppedForGood`) |
| `RunnerProcess_proofs!PagesShowLatest` | cache and pages show the latest status they could get (`LatestStatusShown`) |
| `AnalyticsService_proofs!TypeCorrect` | types of the analytics service; no frame is lost uncounted, the queue keeps its capacity |
| `AnalyticsService_proofs!RulesAgree` | engine and database agree on a rule, unless requests for it overlapped (`RulesAgreeUnlessRaced`) |
| `AnalyticsService_proofs!StoredRulesPresent` | a stored rule is in the engine, however requests overlapped (`NoStoredRuleMissing`) |
| `AnalyticsService_proofs!EventsMatch` | the stored events are those of the engine, each in its turn (`EventsMatchEngine`) |
| `AnalyticsService_proofs!Ghosts` | while the worker lives, a track that is gone is inside only if it was when the rule was disabled, deleted, moved or made a line (`GhostsOnlyOfLapsedRules`) |

The arguments:

- *Coordinator.*  That commits are in order is not inductive alone: a frame is
  committed when the cursor has reached it, so the invariant adds that every
  committed frame is behind the commit cursor (`OrderInv`); with
  `EmittedInv`, that everything committed has been emitted, each step is a
  step of `CommitLog` or a stutter of it.  What a committed frame shows is
  final because a frame is at one place at a time (`OnePlace`): what has been
  committed is in no pool that could still write its boxes.  `QuietSteps` sums
  up the steps for that: one moves a frame from a place to the next, passes
  frames over, or is quiet.  A frame that the recognition cursor has passed
  was overrun (`LateInv`), so one that is refused was too.  What a phase of
  `drain_ready` leaves in its map lies within the window of its cursor
  (`BacklogInv`), and numbers within a window are no more than the window;
  with a limit above the window trimming therefore removes nothing, and only
  `drain_commit` moves the commit cursor.
- *Runtime.*  `ThreadInv` says which threads can exist at each place of
  start() and stop(): those of a stream only while it is in `pipes`, those of
  the pools only from the first that start() creates until they are joined.
  stop() goes through exactly these, so that each join removes what the
  invariant still allowed.  That runs stay apart needs that a queue is created
  by the start() of its run (`SpawnInv`) and that only a busy thread has a
  frame in hand (`HandInv`).  For the order, the frames of a stream are lined
  up (`Lined`): every published one before every one at the encoder, these
  before those in the encoder's queue, and so on back to the commit cursor.
  The account (`AccountInv`) is a balance that each step shifts by one; what
  is past the anonymizer is a sum over the streams, whose growth in one stream
  is proved by a well-founded induction over their subsets (`TotalGrows`).
- *Recognizer.*  Each mark has an owner among the workers, in the part of
  `recognize()` that ends with a decision or with `clear_in_progress`.  For
  the leak, the invariant follows a stale decision from the match to the cache
  and from the cache to later frames: whoever is barred is not in the gallery
  (`BarredNotInGallery`), entries and matches that are stale stem from a call
  in flight at a reload (`StaleEntries`, `StaleMatches`), and so does what was
  shown (`LeaksOnlyInFlight`).
- *Gallery.*  The controller's steps are the recognizer's, or leave it alone,
  as long as the manager's lock has one holder (`LockInv`); so its invariants
  carry over.  What is to become the gallery is the database's from the load
  on (`FollowInv`), unless the history notes that a load is owed: a change
  was written without a call after it, or the call was lost, refused or failed.
- *Privacy chain.*  A decision is cached under an id, so the argument is that
  an id means one track: the tracker hands ids out once (`KeptInv`), the cache
  holds decisions only for ids handed out and only for people whose face was
  attached under that id (`CacheInv`), and a box that is let through has such
  a decision (`AllowInv`).
- *Source.*  Of a pair that waits in both lists the older image is the first
  with a counterpart, since stamps rise and at most one pair waits
  (`SourceInv`); so trimming takes only images whose other half is gone.
- *WebRTC.*  A session is in the map or in what one thread has taken out of it
  (`FreshInv`), never with two threads (`OwnInv`).  The bound on peers counts
  a place for an offer admitted but not yet in the map (`RoomInv`).
- *Manager.*  The last status is what the pipeline is whenever no command is
  between the two (`RuntimeInv`), and the newest status in a queue, or what is
  on its way there, is the last (`StatusInv`).  That "stopped" is last needs
  that a joined pipeline has nothing left to publish (`HubInv`) and that a
  push keeps the order (`OrderInv`), which for the removal of metrics is an
  induction over the queue.  A session's pipeline is that of the run it was
  opened in (`SessionInv`).
- *Process.*  A reader keeps the stream's mutex from its test to its sleep, and
  a push needs it (`AsleepInv`); stop() does not, and whoever is between the
  two then is what the history notes (`OverlookedInv`).
- *Client.*  Whoever has not missed the latest status shows it or has it coming
  (`FreshInv`): it is about to be pushed into the queue of the watch or is in
  it, is being broadcast to the page, or is in the answer to its poll.  The
  queue needs that an older status in it is followed by the latest
  (`Ordered`), and the broadcast that an open page has its socket in the set
  (`SocketInv`).  The attempt to prove it showed that the history had to name
  one more case, for which the run has a status too few: an older status is
  broadcast to a page after a poll has shown it a newer one that was dropped
  from the queue.  TLC confirms it with `MaxVersion = 3` and a single page.
- *Analytics.*  Engine and database differ while a request is between the two,
  so the invariant says what that request has written (`AloneInv`) and, for
  rules whose requests overlapped, that a stored rule is in the engine or a
  create is about to put it there (`PresentInv`).  The latter needs that an id
  is given once, so that nothing stores a rule again after a delete has found
  it (`CreatedInv`).  `EventsInv` says of the frame being persisted what the
  database will say once its events are in (`Inserted`), and that reported
  stays are of tracks that are inside.  A departed track is inside only where
  its rule had lapsed before (`GhostInv`): a frame takes whoever is missing out
  of the areas of every rule that is on, and a rule that ceases to be on, in
  whichever way, notes whom it has inside.  `HandleCases` sums up what a step of a
  request may do, once for the lemmas that need it.
- *Configuration.*  No behaviour: what a key is read as is an integer
  (`ReadIsInt`), raised or tested by the parser, and validation adds the upper
  bounds and what only some settings need.  `OptionsFit` is what connects the
  modules: the assumptions that `StreamCoordinator`, `PipelineRuntime`,
  `RecognitionCache`, `ByteTracker` and `WebRTCPublisher` make of their
  constants are not wishes, but what a document has passed.

The only assumptions are the named ones on constants, which TLC evaluates in
the runs: ranges that configuration enforces (capacities and limits at least
one, and the like), that streams, workers, anonymizers and HTTP threads are
finitely many, and that names the code reserves ("unknown", a lock that is
free, no session) are not those of people, clients or pages.  Two theorems
have a hypothesis of their own: `CommitPassesLate` a limit above the window,
since trimming otherwise passes frames that are still at work, and
`StreamsInOrder` a single anonymizer thread, which is what the configuration
has by default; two may overtake each other.

What is model-checked only: all liveness (`TrackedFramesAreSettled`,
`StopReturns`, `ShutdownEnds`, `WatchIsRestored`), which is out of the prover's
reach as ENABLED and fairness are.

## 6. Findings

`recognition_stale` (`UnknownRemainsAnonymized`) states what a document of the
repository says and shows how the code departs from it.  README.md:142
promises that unknown tracks remain anonymized.  A worker matches a face with
the gallery, `reload_gallery` replaces the gallery and empties the cache, and
the worker stores its decision after that (`mobilefacenet_recognizer.cpp:609`).
Later frames of the track take it from the cache.  `LeaksOnlyInFlight` shows
that this is the only way as long as faces are attached to the right boxes.

Other places where a property needs an exception that a reader of the code
should know, each part of a property that holds:

- README.md:66 calls anonymization fail-closed for unknown tracks.  A frame
  whose detections came too late is tracked without any and goes out with
  nobody hidden (`stream_coordinator.cpp:95`); `GivenUpOnlyLate` says that it
  takes an overrun of the window.  A person whose track gave way to a longer
  lost one at the same place has no box either, and a face attached to
  somebody else's box decides for that box (`ExposureHasCause`).
- README.md:179 says that a reload validates first and rolls back.  A document
  with two streams of one id passes validation, and to start it ends the
  process (`runtime.cpp:475`; `StartTerminates`, `IdsAreNotChecked`).  Nor
  are the types of stages and streams validated: the tracker "ocsort" that
  `config.hpp:122` names is refused by `create_tracker_factory` when the old
  pipeline has been stopped already.
- `max_peers_per_stream` (README.md:168) is counted and inserted under the lock
  taken twice (`webrtc_publisher.cpp:617`, `:634`): offers handled at once
  exceed it, by no more than one for each further thread (`PeersBounded`).
- A commit of an enrolment that fails half way keeps what it has stored and
  the candidates, and a retry stores them again (`CommittedOnce`).
- stop() of the HTTP server notifies without the stream's mutex
  (`runner_http_server.cpp:275`): a reader between its test and its sleep keeps
  the process from ending (`HungOnlyIfBetween`, `ShutdownEnds`).
- The status published by the hub sets neither `running` nor the streams
  (`telemetry_hub.cpp:198-206`): a client that reads them from a pushed status
  finds `running` false and no streams until the next poll.  The pages do not
  read them.

## 7. What is not modelled

- Arithmetic on images, tensors and boxes: detectors, Kalman filter, costs and
  assignment, embedding and similarity, blur, encoding.  Their answers are free
  choices.
- GStreamer itself, SDP and ICE; only what the code around them waits for.
- The text of YAML, JSON, HTTP, protobuf, logs and metrics.  `Configuration`
  starts from the keys and values of a document.
- Of the configuration: paths, model variants and thresholds nobody bounds;
  `fps`, `loop` and `latency` of a file or RTSP stream without a section of its
  own are never initialised and are read all the same.
- The file the controller keeps the configuration in: selecting another file
  while a save waits for its validation makes the save go to the other.
- Of the analytics: line rules with their debounce, which judge each step of a
  track by itself (a line is a rule that is "off"), routes, heat map and
  density, and the pruning of old rows.  Frames, rules and snapshots of other
  streams are there only by what they do to this one.  A restart of the
  controller, after which an empty engine meets the events of the old one, is
  not modelled.
- Of the streams: snapshot, metadata and composite publishers, which pass on or
  keep a last value; the MJPEG server of the evaluation tools, which is like
  the runner's; the selection of an encoder.
- Rendering and forms of the web interface, evaluation programs and scripts.
- C++ data races as such: a step of a model is one access or one critical
  section, and what a torn pointer does is not described
  (`webrtc_publisher.cpp:248` assigns pipeline, appsrc and webrtc without the
  mutex under which they are read).  Nor is the order in which
  `runner_manager.hpp:49-51` has members destroyed, beyond what
  `RunnerProcess` has of it.
- An exception that leaves a thread function of the runtime
  (`runtime.cpp:701`) and ends the process; a source that fails to start ends
  its ingest thread only, and the runtime says it runs (`runtime.cpp:570`).
- A stream without any time stamps, whose images are paired by position.

## 8. Plan

What is left, in this order.

1. *Proofs*: the safety properties of the runs are proved.  What may follow is
   that `RunnerManager`'s pipeline, which publishes from start() to stop(), is
   what `PipelineRuntime` implements.
2. *Algorithms*: the assignment of `association.cpp` against the minimum over
   all assignments; line crossing and point in polygon on a small grid.
3. *The controller's configuration file*: selected, saved, read and sent.
