# Formal model of the Intelligent Video Management System

This directory holds TLA+ modules that model parts of the system under `src/services/`, the TLC
configurations that check them, and proofs of theorems about them for TLAPS. Paths below are
relative to `src/services/`.

* [What is here](#what-is-here)
* [The system](#the-system)
* [How the modules are composed](#how-the-modules-are-composed)
* [FrameRing: frames in shared memory](#framering-frames-in-shared-memory)
* [FrameBroker: rings that come and go](#framebroker-rings-that-come-and-go)
* [SegmentStore: footage and its index](#segmentstore-footage-and-its-index)
* [The way of the pictures](#the-way-of-the-pictures)
* [Smart search](#smart-search)
* [The management API's services](#the-management-apis-services)
* [What operators see of a camera](#what-operators-see-of-a-camera)
* [Runs](#runs)
* [Fairness](#fairness)
* [Disagreements between code and documentation](#disagreements-between-code-and-documentation)
* [Proofs](#proofs)
* [Not modelled](#not-modelled)
* [Plan](#plan)

## What is here

| Module | What it is |
| --- | --- |
| `FrameFeed`, `FrameRing` | what a frame ring promises; one camera's ring in shared memory, access by access |
| `FrameBroker` | one camera's life in the broker and in one consumer |
| `SegmentStore` | one camera's segment files, their index rows, and every thread that writes either |
| `Motion` | the motion service: samples, triggers, incidents, re-arming |
| `Gating` | what of a picture the detector is shown, and which of its boxes are told |
| `Tracking` | from a frame to a recorded observation: tracks, looks, the sink |
| `Activities` | one activity before things that come, stay and go |
| `Events` | an activity's event: outbox, API, expiry, pages, graph |
| `ErasableStore`, `SearchIndex` | what the index promises of an observation; rows, crops, frames and all that delete them |
| `ModelPool` | the models the search service loads and releases |
| `LeaderLock` | which worker runs a background loop |
| `CameraSync`, `Management` | one camera in the registry and its recorders; both under the lock |
| `AuditTrail` | the hash chain and the two feeds into it |
| `Discovery` | a network scan as one job, and the rows it makes |
| `Analytics` | the cameras and models of the analytics service |
| `Policy` | a role's policy as every worker remembers it |
| `AiConfig` | published activities, catalogue, a camera's design and what is made of it; the recording calendar |
| `Deepstream` | designs projected to the files of an external pipeline |
| `Relay`, `Uptime` | a camera's live paths; its status history |
| `Playback`, `Footage`, `StorageLevel` | playback artifacts; what is told of footage; the disk and its alerts |
| `Search`, `Gateway` | what a search finds; which of it is served |
| `SubTrack`, `Snapshot` | a camera's second stream; the one picture all share |
| `VideoPath`, `SmartSearch`, `Services`, `CameraWatch` | compositions, one per run |
| `MC...` | constants of the runs |
| `...Proofs` | theorems and their proofs |

`tlc -config MCVideoPath.cfg MCVideoPath` checks a run, `tlapm VideoPathProofs.tla` a proof
module. `PROJECT.json` lists the runs, the source lines each definition models, the hazards of
the code with the properties that watch them, and, for every property, plausible wrong versions
of the code (an operator next to the right one, such as `UnlinkIgnoringErrors` next to `Unlink`)
that violate it. These wrong versions are never part of a next-state relation. Budget variables
(`motionBudget`, `poolBudget`, ...) bound how often each disturbance happens in a behaviour; a
run names its budgets in its MC module. Variables marked *history* guard nothing and exist for
the properties only; where the code breaks a rule in a known way, the history variable names that
way, and the property says that nothing else breaks it.

## The system

Cameras are read by two services at once. The **frame broker** (`frames/`) decodes each stream
once, writes the frames to a ring in shared memory, judges their motion and announces them over
Redis; the **analytics** and **motion** services (`analytics/`, `motion/`) copy frames out of the
ring and turn them into observations and events. The **NVR** (`nvr/`) records each stream with
ffmpeg into segment files, keeps an SQLite index of them, plays them back, and deletes them by
age, size, free space or request. **Smart search** (`smartsearch/`) stores crops, whole frames
and rows about the objects analytics saw. **Camera management** (`camera-mgmt/`) is the registry
and the only service that users reach: it pushes the desired set of cameras to all the others and
reconciles them in loops that one elected worker runs. Services restart independently; all hold
their set of cameras in memory and rely on being told again.

## How the modules are composed

Components that share state are composed action by action: `Management` runs the reconcile passes
of `CameraSync` inside the loops that `LeaderLock` starts and stops; `SubTrack` and `Gateway` read
the footage and codecs of what the NVR keeps; `ErasableStore` and `FrameFeed` are refined by
`SearchIndex` and `FrameRing`. Components that share nothing but a queue they only put into, or a
row they only read, are checked side by side: in `VideoPath` (variable `stage`), `SmartSearch`
(`half`), `Services` (`part`) and `CameraWatch` (`watched`) one component moves in a behaviour and
the others stay in one of their initial states, so that each is explored by itself while one run
checks them all. Nothing is lost by this, because no action of one reads a variable of another.

## FrameRing: frames in shared memory

**Code.** `frames/broker/ring.py` (`FrameRing`), `frames/broker/worker.py` (`_run`, `_publish`),
`analytics/analytics/frame_source.py` (`FrameReader`, `BrokerSubscriber._handle`; `motion` uses the
same reader).

**State.** `entry` is the control block, `data` the slots, `seq` the writer's `_seq`, `wpc` and
`todo` where the writer is inside `publish()`. `notices` are the sequence numbers announced. Each
reader has the control word its `read()` began with (`before`), the parts it has still to copy
(`left`) and its private copy (`got`).

| Action | Code |
| --- | --- |
| `BeginPublish`, `Claim` | `_seq += 1`, the odd word stored, `ring.py:122-127` |
| `WritePart` | the copy into the slot, `ring.py:128-133` |
| `BeginRelease`, `Release` | the even word stored, `ring.py:135` |
| `Notify` | motion analysis and notice, `worker.py:177-181`; both may fail, the frame is then not announced |
| `BeginRead` | a notice is handled: first test of `read()`, `frame_source.py:107-111` |
| `ReadPart`, `EndRead` | the copy and the second test, `frame_source.py:112-117` |

**Modelling decisions.**

* A frame is a function from `Parts` to the number of the frame the part was taken from, so a
  torn frame is a function with two values. Parts are copied in any order.
* `struct.pack_into` clears its destination before it stores the value, so a store of a control
  word is two steps with 0 in between (`BeginPublish`/`Claim`, `BeginRelease`/`Release`).
  CPython does this for every format; a concurrent reader in another process does see the zero.
  It costs a needless refusal at most, which is what `RefusedOnlyWhenOverwritten` bounds: a reader
  that meets the 0 of `Release` would have to have had its notice before `publish()` returned.
* Stores become visible in program order and 8-byte loads are not torn, as on the x86-64 hosts the
  images are built for. On a weaker memory model the bracket in Python alone gives no such
  guarantee, and nothing here says otherwise.
* A consumer handles the notices of a camera in order (Redis keeps the order of a channel) but may
  skip any (gated frames, a lost subscription), hence `s > want[r]`.
* The ring has at least two slots, which `ring.py:80` enforces.
* The timestamp word is written and never read; it is left out. A new ring over a live one
  (restart, change of resolution) is the subject of `FrameBroker`.

**Properties.** `NoTornRead`: a copy `read()` returns is the whole frame the notice named.
`RefusedOnlyWhenOverwritten`: a refusal of an announced frame means the writer has started a frame
at least `Slots` younger. `ImplementsFeed`: under the mapping `latest <- seq, announced <- notices, asked <- want,
answer <- AnswerOf`, the ring is `FrameFeed`. `SafetyInv` is the inductive invariant the proofs use.

**Fairness.** Weak fairness of `WriterStep` only: the capture thread runs on what it has begun.
`BeginPublish` is not fair (the camera may stop), and readers owe nothing, so that
`PathMoves` (`[]<>(wpc = "idle")`: a started `publish()` ends) cannot lean on them.

**Bounds.** Two slots, two parts, two readers, five frames: the writer laps each slot twice while a
reader is anywhere in a read, two parts are the fewest that can tear, and the second reader shows
readers do not disturb each other. The theorems hold for any values.

## FrameBroker: rings that come and go

**Code.** `frames/broker/engine.py` (registry), `frames/broker/worker.py` (a camera's thread and its
`stop()`), `frames/broker/ring.py` (constructor, `close`), `analytics/analytics/frame_source.py`
(`BrokerSubscriber`; `motion` keeps its mappings the same way).

**State.** `file` is the inode under the camera's path, `data` what each inode holds. An inode is
named by the epoch of the ring that created it; a ring made over an existing file has an epoch of its
own and that file's inode. `reg` is the worker in the registry, `closing` the workers that wait in
`stop()`, `thread`, `ring` and `note` a worker's place in `_run`, its `_ring` and the frame it is about
to announce. `queue` holds the notices under way. `reader` is the consumer's mapping, `hand` the
notice its subscriber thread handles. `leftover` is the file a dead broker left.

| Action | Code |
| --- | --- |
| `Add`, `Remove` | `engine.py:36-64`: a worker is started; popped and told to stop |
| `Close` | the join in `stop()` is over, one way or the other, and the ring is closed, `worker.py:75-82` |
| `Loop`, `Grab`, `GrabFails` | the loops of `_run`, and `open()` and `grab()` with their timeouts, `worker.py:116-169` |
| `TakeRing`, `DropRing`, `MakeRing` | `_ensure_ring`: the ring fits; the old one is closed; a new one is made, `worker.py:84-114`, `ring.py:76-106` |
| `Publish`, `PublishFails`, `Announce` | `_publish`; the ring may have been closed under the thread, `worker.py:171-190` |
| `Crash` | the broker's process dies; `/dev/shm` survives it |
| `Receive`, `Open`, `Keep`, `Read` | `_handle` and `_reader_for`, which lets go of its lock while it maps the file |
| `Unwant` | `unwant()` closes the mapping, also one that is in use |
| `Resubscribe` | the connection to Redis breaks, and what was under way is lost |

**Modelling decisions.**

* A frame is written, and copied, in one step: what happens inside is `FrameRing`.
* `stop()` gives up after five seconds, so `Close` may find the thread anywhere except inside
  `_ensure_ring`, which holds the worker's lock. Such a thread goes on until it next looks at its
  stop event, and may meanwhile make a ring. Both orders are possible in every run.
* `OneCaller` says that one request has returned before the next is made. That is how camera
  management uses the broker (`frames_client.reconcile`, in a loop only the elected leader
  runs; its timeout of ten seconds is longer than the join). The broker does not enforce it: with
  `OneCaller = FALSE`, `LiveRing` fails, since a removal that still waits in `stop()` unlinks the path
  of the worker that has been added since.
* Whether a camera is wanted is left out: the model lets any notice be dropped (not wanted, gated for
  want of motion, lost), which is all a consumer's set of cameras can do to its mapping besides
  `Unwant`. One consumer is enough, since consumers share nothing but the ring they read.
* Epochs are clock readings in nanoseconds, taken to be distinct. Frames of a ring have one size; a
  notice of the previous size finds a mapping of another size and is dropped or raises, and is left
  out, as are a full `/dev/shm` and the moment in which `open()` has emptied the file and not yet
  extended it.

**Properties.** `LiveRing`: the file under the path is the one the camera's worker writes, so that a
consumer that maps the path maps the ring. `FilesOwned`: a file under the path is somebody's open
ring, or was left by a crash: `close()` misses none. `DeliveredAsNoticed`: a delivered frame is the
one its notice describes. `RefusedOnlyWhenGone`: a notice of the ring in use is refused only if its
slot was taken again or the consumer closed the mapping itself, so that no restart, rebuild or late
notice leaves a stale mapping behind. The last two are about notices of the ring in use (a notice
that outlives its ring may be answered with the frame of the same number from the next), and hold
while no thread of a removed worker has a ring open: two writers of one file do mix their frames.
There is no liveness here: a camera may send nothing, and the broker promises no delivery.

**Bounds.** The camera is added twice, so that a predecessor's thread meets its successor; three
rings, so that a ring is rebuilt beside or after another; three frames in two slots, so that a slot is
taken again; one notice under way and one in hand, so that a notice outlives its ring; one crash.
The theorems hold for any values.

## SegmentStore: footage and its index

**Code.** `nvr/recorder/stream_worker.py` (ffmpeg, indexer, reconcile), `nvr/recorder/engine.py`
(health monitor, add and remove), `nvr/storage/index.py` (SQL), `nvr/storage/retention.py` (age,
orphans, cap, floor), `nvr/storage/grooming.py`, `nvr/api/server.py` (erase, purge).

**State.** `files` on disk and `rows` in the index, with what each knows of a segment: a
file may be written recently (`fresh`, less than 5 s) or rewritten by the groomer (`touched`), a
row has an id (`rowId`), a `groomed` flag, and may have been made from an unfinished segment
(`short`). ffmpeg has `made` segments and one `open`; `csv` is `segments.csv`. Every thread has
its local variables: `idx` the indexer's poll, `rec` reconcile's pass, `pc/left/done/ids/upto` a
deletion job, `groom` the groomer. `erased`, `revived`, `slim` and `regroomed` are history
variables for the properties and guard nothing.

| Actions | Code |
| --- | --- |
| `Dial` `Connect` `Roll` `Quit` | ffmpeg's life, `stream_worker.py:253-391`; `Connect` truncates the list, a killed ffmpeg does not list its last segment |
| `Quiet` `Write` `Age` `AgeRewritten` | the clock: 5 s without a write, retention cutoff |
| `ReadList` `TakeLine` `IndexLine` `LineFails` | `_watch_segment_list`, `_index_segment_line`, `stream_worker.py:393-522` |
| `Scan` `Probe` `AddProbed` `EndScan` | `reconcile`, `stream_worker.py:524-595` |
| `Choose` `Unlink` `Commit` | size cap, disk floor (`retention.py:246-383`), erasure (`server.py:972-1049`) |
| `SelectExpired` `DeleteRows` `Unlink` `BeginSweep` `Sweep` `EndSweep` | one age pass with its orphan sweep, `retention.py:163-184, 385-414`, `index.py:205-221` |
| `SelectAll` `DeleteRows` `Unlink` `EndPurge` | purge of a camera, `server.py:922-969` |
| `BeginGroom` `ReplaceFile` `GroomFails` `MarkGroomed` | `grooming.py:113-198`, `index.py:298-330` |
| `ReplaceWorker` | a camera removed and added again, `engine.py:169-216`: a new worker, an empty watermark |
| `Crash` | the process dies between any two steps; files, rows and the list survive |

**Modelling decisions.**

* A file operation and an SQL transaction are one step each. Between any two steps of a thread the
  others may move; what it read before, it uses after. The sweep's `stat` and `unlink` are one step.
* Segments are numbered in the order of their names. (Names carry local time; when the clock is set
  back they are not in order. That hazard is not covered yet.)
* The size arithmetic of cap and floor is replaced by the choice of any oldest prefix of the rows,
  an erasure's window by any interval; the clock-jump guard only delays passes and is left out.
* A batch of the groomer is a sequence of single candidates. `Old` states its timing: grooming
  starts a day after recording at the earliest, and by then a scan or a poll that found the
  segment new is long over.
* The disk floor runs on the monitor or on the retention thread and has its own lock, so it may run
  beside any other job; age and cap share the retention thread, erase and purge the event loop.
* Segments that reconcile meets can be probed. A file ffprobe cannot read is skipped by every pass
  and waits for the orphan sweep; `StoreHeals` is about readable segments.
* `LongLookback` tells whether reconcile's lookback (from the configuration, 30 days by default)
  exceeds the retention in force (from memory): with it, reconcile indexes expired files again.
* ffmpeg does not outlive the NVR process (same container). HLS and clip caches, the removal of an
  empty camera directory, and temporary files of the groomer are left out.
* The camera directory's `segments.csv` may be unlinked by a purge under a running ffmpeg, which
  goes on writing to the unlinked file: `listed` is then FALSE until ffmpeg starts again.

**Properties.** `RowLeavesAfterFile`: outside an expiry or a purge, a row is dropped only once its
file is gone; every failed unlink keeps its row. `ErasedFilesStayGone`: a segment reported erased
has no file, except one the groomer put back. `StoreInv` adds what a job has unlinked and not yet
committed. `GroomedOnce`: with two-phase jobs and no restart, no segment is rewritten twice, except
one the groomer itself revived. (With a rows-first job it is false: between the DELETE and the
unlink, reconcile may index the file again, as ungroomed.) `StoreHeals`: a finished, unindexed
file is indexed in the end or its file goes, and an expired row without a file goes.

**Fairness.** Weak fairness of the monitor's reconcile pass, of each step of the retention thread,
of a deletion that has begun, and of the passing of time over a file nobody writes. These are
loops with no exit (`engine.py:230-298`, `main.py:41-49`) and straight-line code. Nothing is
assumed of cameras, of ffmpeg, of the indexer, of the groomer, or of the ageing of footage; a bound
on failed unlinks and crashes stands for "not for ever".

**Bounds.** `MaxSeg`, `MaxFaults`, `MaxRestarts`, `MaxGrooms`, `MaxRequests` appear in guards only.
One segment is enough for every interleaving of jobs on the same segment, two for a watermark that
passes over one segment and for jobs that hold different parts of a range.

## The way of the pictures

**Code.** `motion/detector/`, `frames/broker/motion.py`, `analytics/analytics/` (pipeline, tracking, sink,
activities, events), `camera-mgmt/backend/services/ai_events.py`, `entry_exit.py`. `VideoPath` follows the
ring, `Motion`, `Gating`, `Tracking`, `Activities` and `Events` side by side.

| Module | State | Actions |
| --- | --- | --- |
| `Motion` | entries of a camera (they outlive their removal in the hands of threads), window of samples, trigger state, open incident, subscription | requests, the capture thread's or subscriber's steps, `LoseStream`, `LoseSubscription`, `GoStale`, `Rearm`, cooldown |
| `Gating` | the picture before, the picture now, queue, regions, boxes | the scene moves, a frame is published, missed, sampled, gated, detected |
| `Tracking` | queue, tracks, ids, anchors, sink | `Submit`, `TakeFrame`, `Associate`, `AgeOut`, `MakeRoom`, `Judge`, `Emit`, `Fetch`, `Send`, `ResetGate` |
| `Activities` | tracker ids, the activity's memory, cooldown | `TakeLook`, `NameThings`, `Observe`, `Evaluate`, configuration, removal, broken streams |
| `Events` | outbox, sender, rows, expiry, pages | `Decide`, `TakeBatch`, `Reach`, `Record`, `Fail`, `Refuse`, `PurgeExpired`, `ReadPage` |

*Modelling decisions.* Association by boxes is any one-to-one choice; a picture is a grid of six by three
cells with the foremost thing in each, and despeckling, dilation and least areas are left out; geometry is
which things stand in a zone or together. A batch that is retried keeps its ids, and a handling
whose client gave up still commits.

*Properties.* `MotionTold`: incidents and trigger agree, and a window holds only samples of its own stream.
`SightsTold`: whatever comes before a camera is looked at though it then stands still; a thing of which a crop
shows the whole is told once and where it is, unless it stands within another of its kind; a walk over the pages sees each row once and the graph adds up to the list.
`LossesOwned`: two looks at a track are an interval apart; an anchor belongs to a track that can still be retired; every look and
every event is on its way, sent, or counted as lost. `ActivitiesTold`: two events of one thing have a reason that tells them apart, an event about a
thing that stays has had it in sight as long as the activity asks for, a stay that is seen is reported, and the memory holds no id that can never
retire. A reason is a new id, a configuration, a restart, a broken stream, an absence, a cooldown that ran out, or (for a crossing) the thing's
way back: a crossing told last may have been held and come back another way (`Linked`, `ToAndFro`). How long a thing has been in sight counts from
the sighting the memory keeps (`tracking.py:278-281, 325`). `IdentityHolds`: no track is continued over a
reset or after an absence longer than its age, but by the first frame with detections after a pause. `PathMoves`: a writer
returns from `publish()` whatever readers do; motion settles; an event does not wait for ever. The
exceptions (ids the worker had in hand at a reset, pictures lost behind the comparison, groups passed
over) are history variables, each named where its property is stated.

*Bounds.* The ring as in its section; a camera is added twice to the motion service; up to three
things, seven views and three frames with a queue of one; one, two or four things for activities, which is enough for two
groups; up to four events and pages of two. A confirmation takes three looks; the crossing scene has five, so that a thing can
cross, come back and cross again.

## Smart search

**Code.** `smartsearch/index/` (`pipeline.py`, `writer.py`, `store.py`, `retention.py`, `coverage.py`,
`models.py`, `engine.py`).

`SearchIndex` holds `rows` in one table per domain, `crops`, `frames` shared by the observations of
one moment, deadlines, and three kinds of thread: the ingest handler (frame, crop, stamp, insert), the retention
thread (`timer`) with its expiry, coverage sweep, frame expiry and orphan sweep, an erasure,
and registrations that restamp rows. Each is split where another may come between. `Budgets`
names scenes: which observations come and how many faults, crashes, erasures, pushes and losses of footage.
`ErasableStore` is what this promises of an observation: a hit only once its image is stored, no hit
without image, nothing dropped comes back, residue goes. `ModelPool` is the encoder and the
warm-up pipeline: requests that add and remove cameras, the loader, the reaper, the notify lock and searches.

*Properties.* `RowsKeepImages`: a row has its crop and its frame for as long as frames are kept; only an erasure or a coverage
sweep of its own moment can cost it the frame. A coverage purge (or a batch limit) takes one table after the other while frames are
shared: until it reaches the other table, or for good if it breaks off between, a row of that table is
without its frame. The rows this happens to are in `bereft`; the case was found when the proof of
`RowsKeepImages` did not go through, and two frame domains in the run show it. `DeadlineKept`: once a change of retention is
through, alone and without error, every row has the policy's deadline, but for rows whose ingest computed it before. `SweepsWithCare`: the coverage sweep leaves
half of what it is shown and every row whose footage the recorder honestly has. `ImplementsStore`: the index is
`ErasableStore`. `EngineCurrent`: the engine has the pipeline exactly when the pool does, but for a pass
between, and once every request has told it the pool is wanted exactly while cameras are registered, but for `outrun`. `NothingLeft`: residue goes.
`CamerasServed`: cameras that stay registered (`cams`, not the pool's flag `wanted`) are served, in every order but two, which the code
gets wrong and history names: `missed`, they came back in the instant the last warm-up was ending, and `outrun`, the word of the removal
before them reached the pool after they were back. `missed` is set by the last registration the pool took notice of; `outrun` lasts until
the pool is told again. Without either exception the run finds the camera that is never indexed.

*Bounds.* Four observations of two moments, two or three to a scene; one fault, one crash, one erasure,
two pushes; two requests about two cameras. Ages are 0 (within the grace of an hour), 1 and expired; the sink
in front of the handler holds 256 observations of ten seconds at most, which is why an observation arrives at age 0.

## The management API's services

`Services` follows seven parts side by side.

| Module | Code | What is followed |
| --- | --- | --- |
| `LeaderLock`, `CameraSync`, `Management` | `services/leader.py`; `routers/cameras.py`, `services/nvr_client.py`, `services/tracks.py`, `nvr/recorder/engine.py` | every step of a round; every NVR call of a request and of a pass; the recorder's monitor, removal and restart |
| `AuditTrail` | `services/audit.py` | logins and polled events on their way into the chain: fetch, claim (`SET NX`), lock, head, insert, mark |
| `Discovery` | `services/scan_manager.py`, `routers/discovery.py` | a scan as one job under a lock with a TTL, and the row of an address under probes, promotion, ignoring, deletion |
| `Analytics` | `analytics/engine.py`, `frame_source.py`, `services/analytics_client.py` | cameras pushed and compared, models built outside the lock, reaper |
| `Policy` | `services/policy.py` | a role's policy and what each worker remembers of it |
| `AiConfig` | `services/activity_catalog.py`, `deepstream.py`, `schedule.py`, `analytics/activities/` | published types, the catalogue, a design that is judged, stored and run; the recording calendar |
| `Deepstream` | `services/deepstream_projection.py`, `deepstream_client.py` | designs as files, sweeps, pushes, restarts of the pipeline |

*Modelling decisions.* The NVR's endpoints that change a recorder are `async def` with blocking calls, so it serves one at a
time. A lock's TTL is an action that may come whenever its holder is not renewing. In `AuditTrail` the
work of a task is one record (`Task`) with the events still to claim; events of one
millisecond are claimed in any order. A `Deepstream` file is known by who wrote it and of what design.

*Properties.* `OneLoop`: two workers run the loop only while one of them has had no answered round since its
lock ran out or the cache went away. `RecordersAsAsked`: a camera records with the settings of its row once the
requests that change them have ended, and nothing records without an entry for it, except after a lost call, a call that met another, or a
removal that met a round of the monitor. `AccessAccounted`: the chain verifies, nothing is recorded twice or
missed but in the ways history names, and a worker remembers a revoked right at most `KeptFor` long. `AnalysisFits`: what runs
is what was accepted, zones and hours are understood alike on both sides, hand-made and outdated files are accounted for.
`DiscoveryHolds`: two scans at once only after a lock ran out under a scan that went on; a registered camera goes back to staging only at the hands of somebody who
held its row when it was registered. `ServicesRecover`: a leader is found, a scan comes to an end, cameras, analytics, designs and pipeline heal.

*Bounds.* Two workers, two requests; three events, two pollers, pages of two; two scans, two requests, three row
ids; two analytics cameras; two policy servers; three regions, four activity names, two builds, a day of four
hours, two weekdays, six dates, two syncers; two files.

## What operators see of a camera

`CameraWatch` follows nine parts side by side.

| Module | Code | What is followed |
| --- | --- | --- |
| `Relay` | `services/relay.py`, `services/health.py`, `routers/cameras.py` | paths in MediaMTX under requests, checks, the monitor and the reconcile loop, call by call; the re-stamp flag in three places |
| `Uptime` | `services/health.py`, `routers/cameras.py`, `models.py` | stored transitions, heartbeat, recovery after a death, pruning, both reports |
| `Playback` | `nvr/api/hls.py`, `nvr/api/server.py` | artifacts under their signature, locks that are pruned, slots, eviction |
| `Footage` | `nvr/api/` | playlist, coverage, uptime, clip and snapshot of every footage of up to three segments |
| `StorageLevel` | `nvr/storage/` (capacity, settings, retention, alerts) | cap, floor, sampled free space, alerter |
| `Search`, `Gateway` | `smartsearch/index/queries.py`; `services/search_scope.py`, `routers/search.py` | what a search brings back; which of it is served |
| `SubTrack` | `services/substream.py`, `services/tracks.py`, `routers/cameras.py` | the second stream: probed, judged, stored, recorded, played |
| `Snapshot` | `routers/cameras.py`, `redis_client.py` | one decode for all who ask |

*Modelling decisions.* A transition is a row with the id the database gave it; what is read at a time is the newest row by date and id. A recovery
after a death dates its row back to the last heartbeat, behind rows of a later id.

*Properties.* `CameraTold`: unwatched time is not told as up but after the known death (`UptimeTrue`, unit by unit); what is stored of the
second stream is kept and is the best on offer, the operator's word stands unless a probe that began before wrote after, and a second stream
is played as what it is (`PlaysAsIs`) unless the recorder was not told that its source changed (`misled`). `PastTold`: both status reports agree, no gap
is invented, coverage and uptime agree, clips and snapshots hold what was asked. `PlaybackTrue`:
extraction slots are neither lost nor doubled; one artifact is built once at a time unless a waiter found nothing built
(`stranded`); nobody is served an older picture than the one named; one decode of a camera's picture at a time, and of the camera asked for, unless its
lock was taken away (`torn`) or the name changed hands (`revived`). `SearchTold`: pages are honest and recent, what is served can be played, nothing playable is
withheld, no camera outside the user's scope is shown. `FloorComesLast`: the disk floor takes footage only when the playback cache alone would not do, and never
below an accepted cap, unless other files grew since. `WatchSettles`:
paths become watchable, players are served, alerts heard, the cap kept, the second stream followed.

*Bounds.* Footage: five seconds, segments of two, up to two main and one sub segment. Playback: three players, one slot, two
versions. Storage: six units. Search: up to eight rows, two windows and the rest; four hits, two registered
cameras. Second stream: two offers beside the main one.

## Runs

| Run | Configuration | Shows |
| --- | --- | --- |
| `video_path` | `MCVideoPath.cfg` | the way of the pictures, part by part; the ring refines `FrameFeed`; 566 thousand states |
| `broker_life` | `BrokerLife.cfg` | all properties of `FrameBroker`, 6.6 million states |
| `broker_ring_freed` | `BrokerRingFreed.cfg` | violation: a removed camera's ring stays |
| `store_all_jobs` | `StoreAllJobs.cfg` | all five deletion jobs, the groomer, one failed unlink and one crash on one segment, 4.1 million states |
| `store_erase` | `StoreErase.cfg` | an erasure of part of the range, or an eviction, beside the groomer (two rewrites), the indexer and reconcile on two segments, 1.1 million states |
| `store_live` | `StoreLive.cfg` | orphans are indexed or go, ghost rows age out, across a crash, a failed unlink and a purge, 74 thousand states |
| `store_erased_for_good` | `StoreErasedForGood.cfg` | violation: an erased segment is back |
| `smart_search` | `MCSmartSearch.cfg` | the index in nine scenes, which refines `ErasableStore`; the model pool; 395 thousand states |
| `services` | `MCServices.cfg` | the seven parts of the management API, 516 thousand states |
| `faces_unasked` | `FacesUnasked.cfg` | violation: a face reader nobody asks for stays in the pipeline |
| `camera_watch` | `MCCameraWatch.cfg` | the nine parts of what operators see, 493 thousand states |
| `uptime_after_crash` | `UptimeAfterCrash.cfg` | violation: unwatched time is told as up (`MCCameraWatch`, the same constants) |

Deadlock is not checked: a camera may go away for good, and with the budgets spent there is nothing left
to do. Every action and disjunct of the passing runs' next-state relations fires in one of them.
`StoreInv` and `GroomedOnce` were also checked with `MaxRequests = 2` on two segments (13.7 million states,
five minutes); the run keeps to one.

## Fairness

Weak fairness is assumed of loops without exit and of straight-line code that has begun; strong fairness only of
the motion service's `GoStale` and `Rearm`, which every notice, frame and idle second runs. Nothing is assumed
of cameras, clients, operators, faults or crashes; budgets stand for "not for ever".

| Specification | Fair | Why |
| --- | --- | --- |
| `RingFairness` | `WriterStep` | the capture thread goes on with the frame it has begun; `BeginPublish` is not fair |
| `MotionFairness`, `EventFairness` | the entry's thread, resubscription; sending, an abandoned handling, the purge | loops of `worker.py`, `notices.py`, `events.py`; the API's own handler and sweep |
| `StoreFairness` (`SegmentStore`) | reconcile's pass, each retention step, deletions that have begun, time over a file nobody writes | `engine.py:230-298`, `main.py:41-49` |
| `IndexFairness`, `PoolFairness` | the retention thread, an ingest that has begun, time; requests, loader, reaper, the notify lock's holder | threads without exit |
| `ManagementFairness` | every round's steps, requests that have begun, a lapsed lock of the departed, the cache's return, the NVR's monitor and calls | loops of `leader.py`, `main.py`; Redis drops keys by TTL |
| `DiscoveryFairness`, `AnalyticsFairness`, `DesignFairness`, `PipelineFairness` | steps of scans, polls, senders and loops, the warm-up thread, the reaper, the passing of time, a pipeline's start | the same |
| `WatchFairness` | requests, checks and sweeps that have begun, the monitor, the loop, players, the retention pass, the sampler, the alerter, expiry of keys | the same |

## Disagreements between code and documentation

Shown by runs:

1. **Erasure "Irreversible"** (`nvr/api/server.py:985`). A rewrite that began before the erasure ends with
   `os.replace` (`grooming.py:189`), which creates the file again; the next reconcile gives it a row.
   `ErasedFilesStayGone` is the guarantee that remains.
2. **Removal: "Stop decoding `slug` and free its ring"** (`camera-mgmt/backend/services/frames_client.py:92`).
   A capture thread still inside `open()` or `grab()` when `stop()` gives up (`worker.py:79`) makes a
   ring for the frame it then gets, and nothing ever unlinks that ring.
3. **"uptime never counts unmonitored time as camera uptime"** (`camera-mgmt/backend/models.py:246`). A status stored
   after the last heartbeat sorts behind the transition a recovery dates back to that heartbeat.
4. **Face models "released at once"** (`analytics/engine.py:539`). A reader built while the last camera that asked
   for it went away is handed to the pipeline and stays there.

Met while modelling, and kept as named exceptions (history variables) or notes:

* *Store.* `INSERT OR REPLACE` by a re-created worker clears the groomed flag (`index.py:91`; `:324` "never process again").
  Reconcile indexes an open segment after five quiet seconds and moves the watermark past it (`stream_worker.py:585`; `:538`).
* *Playback.* A lock is pruned right after its release, with waiters; two ffmpegs may then build one artifact
  (`hls.py:313` says they must not). Evicting the cache deletes the scratch files of builds in progress.
* *Footage.* A live camera's trailing gap is hidden up to a segment inside the window, so a short window hides an
  offline camera. A transcoded clip over a hole runs beyond the window. A snapshot in a gap takes the first segment within 60 s, not the closest.
* *Storage.* A cap that could not be saved is answered 500 and is in force until restart; a false all-clear may follow a restart.
* *Relay.* A death between the flag's two writes leaves a path that "already exists" unwatchable (hence
  `Watchable \/ redis.flag`); `set_restamp` moves the main path only; `update_camera` wipes the mirrored flag.
* *Uptime.* Pruning by age removes a transition still in force; switching off during a check leaves "connected" (`cameras.py`, about line 712).
* *Second stream.* "Theirs wins" reads through its own session's identity map and so overwrites the operator's word; a lost path is not healed by the presence-only loop.
  A re-probe tells the recorder of a second stream that changed only when it was recording before (`cameras.py:1319-1347`), and the automatic choice
  of a profile not at all while the second stream is not recorded; `nvr_client.py:154-161` says "Call this from anywhere that repoints a track's
  source". The recorder's idea of its codec then stays as it was (`misled`).
* *Snapshot.* After a failed decode the waiters wait and get 503; a picture kept past a deletion may be shown for a camera of the same name.
* *Policy.* A failed read falls back to the defaults, which may grant what was revoked; other workers are up to 15 s behind.
* *Search.* "A short page means this query has few answers" (`queries.py`, about 297) fails when a slice holds more matches than fetched (`Crowded`). A display name can take another camera's slug (`Stolen`).
* *Index.* `/erase` answers "ok" with `frames_failed` > 0; `coverage.py` omits `search_faces` though `domains.py:107` asks sweeps to iterate its list; "a stale deadline the next reconcile pass fixes" does not hold.
* *Model pool.* A wake-up can be lost in `_spawn_loader` (`missed`), an encoder dropped in a second critical section (`regained`).
  `_wanted` is "True while at least one camera is registered" (`models.py:169`), and "an upsert makes a race harmless" (`engine.py:294-295`); but
  `want_ingest` is called outside both locks (`engine.py:272-279`, `345-347`) and ignores a repeated value (`models.py:244`). A removal of the last
  camera whose call is late, beside an upsert whose call comes first and so changes nothing, leaves `_wanted` false with a camera registered,
  which then loses its pipeline after the idle timeout, or never gets one, until the count crosses zero again (`outrun`).
* *Recorders.* A lost mask or retention push is not healed by the loop though docstrings say so; a deleted camera whose NVR was unreachable records on; the monitor may restart a worker removed during its round.
* *Audit.* With the cache away every poll records again; an event behind the mark or beyond a page of 200 is never recorded; a failed write after `SET NX` loses its event.
* *Discovery.* The lock's value names nobody, so a stalled scan deletes its successor's; a probe begun before registration demotes the row.
* *Activities' hours.* A window over midnight tests today's weekday only, though `base.py:307` says it runs across; a half-readable window is all day for one side and bound by bound for the other.
* *External pipeline.* A file that is not UTF-8 aborts every sweep (`Poisoned`) though docs say it answers False; an unmarked file under a camera's name is overwritten.
* *Activities.* A second group in one frame, or one during cooldown, is marked reported without an event.
* *Motion.* In broker mode a removal never closes the open incident (`worker.py:233` says it does); a change of aspect makes every later comparison raise until a reconnect.
* *Events.* A retention shortened later is not restamped on events. "The oldest events are evicted" (`events.py:18`) is so of the queue alone:
  while a batch is out, what makes room for the new is younger than the batch.

## Proofs

All theorems hold for every value of the constants under the assumptions the modules name (sizes are positive,
budgets have the types their tables say, the background loop belongs to the workers: `LoopsAreWorkers`). Four of these say
more than a type. `AiAssumption`: a list setting asks for at least none or one item, as `activities.py` has it (only
`stray_parking` asks for one), because validation counts what was sent and resolving counts it without repetitions, so that
a definition asking for two could accept what it cannot run; and no option's former name is a current option.
`EventAssumption`: no two events get one id (uuid4).
`AnalyticsAssumption`: the word for "no engine" is no engine's name. `DsAssumption`: a file the projection calls its own
is JSON it wrote.

**`VideoPathProofs`**, the ring. `TypeCorrect` by one step per action. For `NoTornReads` the property alone is not
inductive: one must know that a slot with a stable word holds that frame (`StableSlots`), that the
writer's bracket is closed round its copy (`WriterInv`), that only published frames are announced
and stay readable until they are lapped (`NoticesInv`, `Readable`), and that a reader's copy is good
as long as its word has not moved (`ReadersInv`). Their conjunction `SafetyInv` is inductive
(`SafetyStep`). The arithmetic (frames that share a slot are `Slots` apart, control words of
different states differ) is in `SlotsApart` and `Words`. `RingImplementsFeed` maps `BeginPublish` to
`Take`, `Notify` to `Announce`, `BeginRead` to `Ask`, `EndRead` to `Answer`, and everything else to
stuttering.

**`VideoPathProofs`**, tracking, motion and the composition. `TrackInv` is what tracking keeps beside its types: the clocks
of the frame, of a track's last sighting and of its looks are in order (`TimeInv`), a track is either live or gone with what
was kept for it (`PlaceInv`), what the worker holds between two steps is what it took (`HandInv`), the anchor of a track is
its latest look (`LooksInv`), and each look is queued, sent or counted as lost (`ListedInv`). `TracksKept` and
`IdentityKept` (an action property) follow. `MotionInv` says whose incident is whose (`OwnInv`): those begun and
neither ended nor crossed (`OpenOnes`) belong each to the trigger in force, and who may trigger has nothing open; `MotionKept`
follows. For the events, `EventInv` says where everything that happened lies: the queue is the latest stretch of it
(`OutboxInv`), the batch that is out a stretch before, which ends where the queue begins unless the queue is full (`CourierInv`), and what
the API makes of a batch is of that batch, one row for an id (`HandlingInv`, `StoredInv`); so the counters add up and own
whatever was never stored (`LedgerInv`), and `EventsAreAccounted` follows. `GateInv` says that frames are numbered, wait in their order
and that none is looked at twice, and that a verdict is one that comparing the two pictures can give. `PathTyped` and `LossesAreOwned` put the parts
together.

`SightsAreTold` holds for pictures of any size with anything in them. *What comes is looked at*: `LookInv` follows each cell by itself. A frame agrees
with the present in every cell that has not changed since it; a change the detector has not had waits with the frame that brought it, with that cell in one of the
frame's crops, or that frame was lost. This needs `CropsCover`: grouping changed cells into blobs, boxing, merging boxes until nothing overlaps, padding
and cutting lose no cell (`BlobsHold`, `BoxHolds`, `MergeHolds`, `RegionsHold`). *What is seen is told once*: the loop of `suppress_nested` keeps a kernel
of the order in which it goes through the detections (`Kernel`); the box of the whole thing is larger than every cut part of it, so it goes first among the
thing's own, and only the box of another thing of its kind that surrounds it could have covered it (`OneBoxOf`). *The pages are complete*: `WalkInv` says that what the
reader has is in order and ends at the cursor, and whatever was there when the walk began and still is, is in the list or past the cursor; a page is the
next `PageSize` by rank (`PageLists`). *The graph adds up*: each time in the window falls in exactly one bucket (`WindowIs`), so
the buckets share out the events (`BucketsAddUp`). What recursive functions compute (blobs, merged boxes, sums) is
proved by least counterexample: `StepByStep` is induction up to a bound for a set of numbers, `Unrolled` gives a function that is defined step by step.

**`ActivitiesProofs`.** `ActInv` is inductive over every look, every configuration, removal and broken stream: what the frame and the evaluation hold
between two steps belongs to the look in hand (`HandFits`, `FrameFits`), what the memory says of an id is what was seen under it (`MemFits`, `StayTrue`), what is
held for later is of a thing still known (`HeldFits`, `Released`), and whatever was told has its story (`StoryFits`, `StoryTrue`): its two last events are
linked by a reason, or the thing went to and fro between them. `Troubled` names the ids whose stream broke. `ActivitiesKept` follows through `EventsJustified`. `ReadersSafe`, `FeedKept`, `TrackingCorrect`, `MotionCorrect`, `EventsCorrect`, `SightCorrect`, `LookingCorrect`, `WalkCorrect` and `SeenInOrder`
take the parts to `PathSpec`: a step of the path is a step of the stage that moves and leaves the other stages' variables alone.

**`FrameBrokerProofs`.** `EveryFileOwned` needs no premise. The other theorems assume `OneCaller` in their
statements. `RingStaysLive` rests on `Handover`: the old worker is closed before the next is added, and a
thread that outlives its `stop()` has no ring to close or is past the point where it would close one,
so the only unlink that can hit the successor's file never happens. For `DeliveredIsNoticed` and
`RefusedMeansGone` three more parts are inductive together (`DeliveryInv`): epochs are never given out
twice and nothing refers to a ring to come (`EpochsInv`), a mapping with the epoch of the camera's ring
maps that ring's inode (`MappingInv`), and a ring nobody else writes holds its own last `Slots` frames
(`SlotsInv`).

**`SegmentStoreProofs`.** `TypeCorrect` is split over five groups of variables (`DiskOK`, `IndexOK`, `JobsOK`,
`GroomOK`, `CountersOK`), each with a lemma over all actions; it carries facts that are more than
types (a flagged row exists, nothing in a thread's hand is unrecorded). `StoreCorrect` adds
`UnlinkedStayGone`: only `OpenNext` and `ReplaceFile` create files, the first only new ones, the
second only into `revived`. `ErasureHolds` and `RowsFollowFiles` follow from it. `GroomedOnlyOnce` needs to know of every
thread's hand what it may still do to a groomed row: what the indexer or reconcile holds is not
rewritten yet, a deletion holds the id of the row it read, and a row that goes takes its file with it.

**`SmartSearchProofs`.** `IndexInv` is the type invariant with what the threads hold: the observation in hand has its crop and is
no row yet (`IngestInv`), what a job has still to unlink belongs to no row and never will (`CropsInv`), and so for frames. `HitsKeepImages`
follows. `DeadlinesFollow` adds what a restamp under way may still miss (`DeadlineInv`), `HalfIsLeft` how many rows the
coverage sweep had counted (`HalfInv`, with cardinalities), and `FootageKeeps` is an action property from the same invariant.
`IndexImplementsStore` shows every step to move each observation's life along the arrows of `ErasableStore`.
`EngineStaysCurrent` rests on `PoolInv`: whoever holds the notify lock is at that point of its code, and when no thread has still to read the pool, the engine has been told the truth.
Its part `WantInv` says of the pool's flag that it follows the cameras, or a request has still to speak, or `outrun` holds; a camera a request
has still to speak for cannot go before it has.

**`ManagementProofs`.** `AtMostOneLoop`: who runs a loop holds the lock, or has not been answered since it lost it (`HolderRuns`). `RecordersFollow`
is over all steps of requests, passes, the NVR and its monitor: `SyncInv` says of each call still to be made what it will find and
leave, so that a camera is as its row says, or a call is under way that makes it so, or `drift`, `crossed` or `leftover` says why not.
`ManagementOneLoop` takes the lock's theorem to the composition.

**`ServicesProofs`.** Every step of `Services` is a step of the part that moves and leaves the others alone, which takes the theorems about a part to
the whole. `ScansHold`: the job's lock is held by the scan under it unless `slipped` (`LockedScan`), and a task that holds a
row read it before it was registered or is in `overlapped` (`HeldBefore`). `AccessIsAccounted`: for the policy, a granted answer is as
fresh as the memory it came from (`GrantedIsFresh`, `MemoryFits`); for the audit, the chain's head is
what the lock's holder read (`Orderly`), what is claimed is on its way, known or named in history (`Complete`), and a key in the cache means the event is
recorded or in hand (`Single`). `AnalysedAsAccepted` has one part for each of three modules. `AnalyticsInv`: a pipeline that runs was
given what it needs (`PipelineSupplied`), and where no two requests met over a camera, at most one call is inside,
it asks for what the engine noted, and what it has passed of the subscriptions is as noted (`ByOne`); `PipelineFits` follows.
`AiInv`: labels are those the catalogue said (`CatalogueInv`), an accepted activity fits the definition that judged it
(`Judges`, in `DesignInv`), and the calendar's hours are those of the days they came from (`CalendarInv`); the rest is
about operators: what fits is watched, what is allowed is what resolving leaves, hours agree across midnight.
`FilesInv`: one sweep at a time under the lock (`OneSweep`), which forgets only what it wrote (`TellsOnlyItsOwn`), and a path never
asked for is as the operator left it (`NeverAsked`). `ServicesTyped` puts the nine parts' types together.

**`WatchProofs`.** The parts side by side, each with an invariant of its own, in `WatchInv`. `PlaybackHolds` rests on `PlayInv`: nobody stands twice in a
line, and who stands in one is the one whose request waits there (`LinesInv`); a lock is with the one who builds under it
(`HoldInv`), who came by the lock's entry unless a waiter found nothing built (`EntryInv`); a file is never older than a name that was
given to it (`AgeInv`). From the lines follows that a slot that is given back is handed to a request that waits, so that free and used ones stay
`Slots` in all. For the shared picture, `ShotInv` adds that the lock outlasts what the decode under it may still need (`Needs`, both passes).
`FloorIsLast` needs of `LevelInv` only that an accepted cap leaves room for the reserve (`CapFits`). `UptimeInv` carries `UptimeTrue`: the status at the end of a unit of
time is that of the newest row dated until then, rows written in order of their ids are in order of their dates but for those a recovery dated
back (`RowsOK`), what the monitor last stored is what it remembers (`Current`, `SwitchFits`), and a unit told as up was watched, is still unjudged, or
lies behind the known death (`UnitTrue`). `SubInv` says of every probe and store of the second stream under way what it may still write;
`ConfigKept`, `BestStored`, `OperatorWins` and `PlaysAsIs` follow, and with `UptimeTrue` they are `CameraIsTold`. `AlarmInv` and `RelayInv` carry the types of the
alerter and of the paths; `WatchTyped` holds all nine parts to theirs.

**Only model-checked.** All liveness (`PathMoves`, `StoreHeals`, `NothingLeft`, `CamerasServed`, `ServicesRecover`, `WatchSettles`, and `Collected` of
`ErasableStore`): the prover has no fairness rules and no ENABLED. Two invariants about what folds compute over data:
`PastTold` and `SearchTold`. Every other invariant the runs check is proved.

## Not modelled

Detectors, embeddings and other numeric code; ONVIF and Keycloak clients; ffmpeg command lines; the text of SQL and
of messages; the web frontend (`frontend-react/`), deployment files, scripts, benches and end-to-end tests. In the NVR: erasure and purge over both
tracks, the clock-jump guard, names that go back with the clock. In the broker: blur and health. In search: fusing several
photographs, ingest between two fetches of one search. `PROJECT.json` names per component what is left out, and lists two hazards that no
property covers.

## Plan

The core and all components listed as modelled or partly modelled exist, and the proofs cover every safety property but the two named above. To prove
next: these two. To model next, where it pays: erasure over two tracks with lost answers, and names that go back with the clock.
