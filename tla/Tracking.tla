------------------------------- MODULE Tracking -------------------------------
(***************************************************************************)
(* From a frame to an observation (analytics/pipeline.py, tracking.py,     *)
(* indexing_policy.py, sink.py), for one camera and one domain: the frames *)
(* that wait, the worker that names what they show and decides which looks *)
(* are recorded, the thread that sends them on, and the reset by which     *)
(* another thread drops the camera's tracks when its stream was lost or it *)
(* is removed.  Where a box is decides which track may claim it; here any  *)
(* one-to-one choice is possible.  A frame shows at most budget.crowd things.*)
(***************************************************************************)
EXTENDS Naturals, Sequences, FiniteSets

CONSTANTS
  MaxTracks,        \* max_tracks_per_key
  MaxIds,           \* bound: tracks made
  MaxAge,           \* max_age_seconds, in ticks
  MinInterval,      \* min_interval_seconds, in ticks
  Gaps,             \* ticks between two frames
  FrameQueue, ObservationQueue,   \* lengths of the two queues
  TrackBudgets

TrackBudgetTypes == [frame : Nat, crowd : Nat, reset : Nat, send : Nat, fail : Nat]

ASSUME TrackingAssumption ==
  /\ MaxTracks \in Nat \ {0} /\ MaxIds \in Nat /\ MaxAge \in Nat /\ MinInterval \in Nat
  /\ Gaps \subseteq Nat \ {0} /\ FrameQueue \in Nat \ {0} /\ ObservationQueue \in Nat \ {0}
  /\ TrackBudgets \subseteq TrackBudgetTypes

Ids == 1 .. MaxIds

VARIABLES
  clock,            \* ts of the youngest frame
  frames,           \* the pipeline's queue
  minted,           \* tracks made
  listed,           \* the tracks of the camera
  lastSeen,         \* Track.last_seen
  anchor,           \* IndexingPolicy: ts of a track's last recorded look, or 0
  worker,           \* the detection worker: its place, its frame and what it holds of it
  observations,     \* the sink's queue
  sender,           \* the observation being sent
  tally,            \* the counters of the sink
  trackBudget,
  looks, era, eraOf, lastUpdate, loose   \* history, see the properties
trackerVars == <<minted, listed, lastSeen>>
sinkVars == <<observations, sender, tally>>
frameVars == <<clock, frames>>
traceVars == <<looks, era, eraOf, lastUpdate, loose>>
trackingVars == <<frameVars, trackerVars, anchor, worker, sinkVars, trackBudget, traceVars>>

Holding(pc, frame, orphan, own, todo, pending) ==
  [pc |-> pc, ts |-> frame.ts, found |-> frame.found, era |-> frame.era,
   orphan |-> orphan, own |-> own, todo |-> todo, pending |-> pending]
Idle == Holding("idle", [ts |-> 0, found |-> 0, era |-> 0], FALSE, {}, {}, {})
WorkerAt(pc, own, todo, pending) == Holding(pc, worker, worker.orphan, own, todo, pending)
UseTrack(what) ==
  /\ trackBudget[what] > 0
  /\ trackBudget' = [trackBudget EXCEPT ![what] = @ - 1]

TrackingInit ==
  /\ clock = MaxAge + MinInterval /\ frames = <<>>
  /\ minted = 0 /\ listed = {} /\ lastSeen = [t \in Ids |-> 0]
  /\ anchor = [t \in Ids |-> 0] /\ worker = Idle
  /\ observations = <<>> /\ sender = <<>>
  /\ tally = [queued |-> 0, evicted |-> 0, sent |-> 0, failed |-> 0]
  /\ looks = {} /\ era = 0 /\ eraOf = [t \in Ids |-> 0] /\ lastUpdate = 0 /\ loose = {}
  /\ trackBudget \in TrackBudgets

-----------------------------------------------------------------------------
(* The stream's thread.                                                    *)

(* submit: the oldest frame makes room.                                    *)
Submit ==
  /\ UseTrack("frame")
  /\ \E gap \in Gaps, n \in 1 .. trackBudget.crowd :
       /\ clock' = clock + gap
       /\ frames' = Append(IF Len(frames) = FrameQueue THEN Tail(frames) ELSE frames,
                           [ts |-> clock', found |-> n, era |-> era])
  /\ UNCHANGED <<trackerVars, anchor, worker, sinkVars, traceVars>>

(* What the worker has of the camera's tracks when they are dropped.       *)
InHand == worker.own \cup worker.todo \cup worker.pending

(* reset_gate: the tracks are dropped and their anchors with them.  The    *)
(* worker keeps the list it is working on, and the frames still wait.      *)
Forgotten(S) == [t \in Ids |-> IF t \in S THEN 0 ELSE anchor[t]]
ResetGate ==
  /\ UseTrack("reset")
  /\ listed' = {} /\ anchor' = Forgotten(listed)
  /\ worker' = IF worker.pc = "took" /\ ~worker.orphan
               THEN Holding("took", worker, TRUE, listed, {}, {}) ELSE worker
  /\ era' = era + 1
  /\ loose' = loose \cup InHand \cup (IF worker.pc = "took" THEN listed ELSE {})
  /\ UNCHANGED <<frameVars, minted, lastSeen, sinkVars, looks, eraOf, lastUpdate>>

-----------------------------------------------------------------------------
(* The worker: ObjectTracker.update.                                       *)

(* A frame without detections, or with none that are wanted, goes no       *)
(* further than this; it is not modelled.                                  *)
TakeFrame ==
  /\ worker.pc = "idle" /\ frames # <<>>
  /\ worker' = Holding("took", Head(frames), FALSE, {}, {}, {})
  /\ frames' = Tail(frames)
  /\ UNCHANGED <<clock, trackerVars, anchor, sinkVars, trackBudget, traceVars>>

(* One track claims at most one detection of a frame, and the rest are new.*)
Claims(tracks, n) == {M \in SUBSET tracks : Cardinality(M) <= n}

(* Beyond max_tracks_per_key the tracks unseen for longest go, those of    *)
(* the frame itself included.                                              *)
Trims(tracks, seen) ==
  IF Cardinality(tracks) <= MaxTracks THEN {tracks}
  ELSE {K \in SUBSET tracks : /\ Cardinality(K) = MaxTracks
                              /\ \A k \in K, t \in tracks \ K : seen[t] <= seen[k]}

(* _update_domain, on the list it holds, and then the list that _age_out   *)
(* begins with.                                                            *)
Associate ==
  LET mine == IF worker.orphan THEN worker.own ELSE listed IN
  /\ worker.pc = "took"
  /\ \E M \in Claims(mine, worker.found) :
       LET new == minted + 1 .. minted + worker.found - Cardinality(M)
           shown == M \cup new IN
       /\ new \subseteq Ids
       /\ minted' = minted + Cardinality(new)
       /\ lastSeen' = [t \in Ids |-> IF t \in shown THEN worker.ts ELSE lastSeen[t]]
       /\ eraOf' = [t \in Ids |-> IF t \in shown THEN worker.era ELSE eraOf[t]]
       /\ \E K \in Trims(mine \cup new, lastSeen') :
            LET again == worker.orphan /\ K = mine \cup new
                trimmed == (mine \cup new) \ K IN
            /\ listed' = IF again THEN {} ELSE K
            /\ anchor' = Forgotten(trimmed)
            /\ worker' = WorkerAt("aging", IF again THEN {} ELSE K, shown, {})
            /\ loose' = loose \cup trimmed
                        \cup (IF worker.orphan \/ worker.era < era THEN mine \cup shown ELSE {})
  /\ UNCHANGED <<frameVars, sinkVars, trackBudget, looks, era, lastUpdate>>

(* _age_out puts back the list without the tracks unseen for too long,     *)
(* also when the camera has been reset since.                              *)
YoungAlways(t) == TRUE
Young(t) == worker.ts - lastSeen[t] <= MaxAge
AgeOut ==
  LET keep == {t \in worker.own : Young(t)} IN
  /\ worker.pc = "aging"
  /\ listed' = keep
  /\ anchor' = Forgotten(worker.own \ keep)
  /\ worker' = WorkerAt("judge", {}, worker.todo, {})
  /\ lastUpdate' = worker.ts
  /\ UNCHANGED <<frameVars, minted, lastSeen, sinkVars, trackBudget, looks, era, eraOf, loose>>

-----------------------------------------------------------------------------
(* The worker: what is recorded, and sent once the frame is decided.       *)

(* decide: the first sight is always recorded; after that one look per     *)
(* interval, if something about it has changed or a heartbeat is due.      *)
WithinTooShort(t) == MinInterval > 0 /\ worker.ts - anchor[t] < MinInterval - 1
Within(t) == MinInterval > 0 /\ worker.ts - anchor[t] < MinInterval
FirstSight(t) == anchor[t] = 0
MayRecord(t) == FirstSight(t) \/ ~Within(t)

Judge(t) ==
  /\ worker.pc = "judge" /\ t \in worker.todo /\ \A u \in worker.todo : t <= u
  /\ \/ /\ MayRecord(t)
        /\ anchor' = [anchor EXCEPT ![t] = worker.ts]
        /\ looks' = looks \cup {<<t, worker.ts>>}
        /\ worker' = WorkerAt("judge", {}, worker.todo \ {t}, worker.pending \cup {t})
     \/ /\ ~FirstSight(t)
        /\ worker' = WorkerAt("judge", {}, worker.todo \ {t}, worker.pending)
        /\ UNCHANGED <<anchor, looks>>
  /\ UNCHANGED <<frameVars, trackerVars, sinkVars, trackBudget, era, eraOf, lastUpdate, loose>>

(* Every detection of the frame is decided before the first is sent; both  *)
(* happen in the order of the detections, here in that of their tracks.    *)
Decided == worker.pc = "judge" /\ worker.todo = {}

Look(t) == [track |-> t, ts |-> worker.ts]
Handed(t) == WorkerAt("judge", {}, {}, worker.pending \ {t})

(* The sink: put, or find the queue full, take the oldest out and put.     *)
Put(t) ==
  /\ Len(observations) < ObservationQueue
  /\ observations' = Append(observations, Look(t))
  /\ tally' = [tally EXCEPT !.queued = @ + 1]
  /\ worker' = Handed(t)
Emit(t) ==
  /\ Decided /\ t \in worker.pending /\ \A u \in worker.pending : t <= u
  /\ \/ Put(t)
     \/ /\ Len(observations) = ObservationQueue
        /\ worker' = WorkerAt("full", {}, {t}, worker.pending)
        /\ UNCHANGED <<observations, tally>>
  /\ UNCHANGED <<frameVars, trackerVars, anchor, sender, trackBudget, traceVars>>

Evicts(counts) ==
  [queued |-> counts.queued + 1, evicted |-> counts.evicted + 1, sent |-> counts.sent, failed |-> counts.failed]
MakeRoom ==
  /\ worker.pc = "full"
  /\ \E t \in worker.todo :
       /\ observations' = Append(IF observations = <<>> THEN <<>> ELSE Tail(observations), Look(t))
       /\ tally' = IF observations = <<>> THEN [tally EXCEPT !.queued = @ + 1] ELSE Evicts(tally)
       /\ worker' = Handed(t)
  /\ UNCHANGED <<frameVars, trackerVars, anchor, sender, trackBudget, traceVars>>

EndFrame ==
  /\ Decided /\ worker.pending = {}
  /\ worker' = Idle
  /\ UNCHANGED <<frameVars, trackerVars, anchor, sinkVars, trackBudget, traceVars>>

-----------------------------------------------------------------------------
(* The sender: one attempt for each observation.                           *)

Fetch ==
  /\ sender = <<>> /\ observations # <<>> /\ UseTrack("send")
  /\ sender' = <<Head(observations)>> /\ observations' = Tail(observations)
  /\ UNCHANGED <<frameVars, trackerVars, anchor, worker, tally, traceVars>>

Send ==
  /\ sender # <<>> /\ sender' = <<>>
  /\ \/ /\ tally' = [tally EXCEPT !.sent = @ + 1]
        /\ UNCHANGED trackBudget
     \/ /\ tally' = [tally EXCEPT !.failed = @ + 1]
        /\ UseTrack("fail")
  /\ UNCHANGED <<frameVars, trackerVars, anchor, worker, observations, traceVars>>

-----------------------------------------------------------------------------
TrackingNext ==
  \/ Submit \/ ResetGate \/ TakeFrame \/ Associate \/ AgeOut \/ MakeRoom \/ EndFrame
  \/ Fetch \/ Send \/ \E t \in Ids : Judge(t) \/ Emit(t)

-----------------------------------------------------------------------------
Waits == [ts : Nat, found : Nat, era : Nat]
Workers ==
  [pc : {"idle", "took", "aging", "judge", "full"}, ts : Nat, found : Nat, era : Nat, orphan : BOOLEAN,
   own : SUBSET Ids, todo : SUBSET Ids, pending : SUBSET Ids]
Observed == [track : Ids, ts : Nat]
TrackingTypeOK ==
  /\ clock \in Nat /\ minted \in 0 .. MaxIds /\ era \in Nat /\ lastUpdate \in 0 .. clock
  /\ frames \in Seq(Waits) /\ Len(frames) <= FrameQueue
  /\ observations \in Seq(Observed) /\ Len(observations) <= ObservationQueue
  /\ sender \in Seq(Observed) /\ Len(sender) <= 1
  /\ worker \in Workers
  /\ listed \cup InHand \cup loose \subseteq 1 .. minted
  /\ Cardinality(listed) <= MaxTracks
  /\ lastSeen \in [Ids -> 0 .. clock] /\ anchor \in [Ids -> 0 .. clock] /\ eraOf \in [Ids -> 0 .. era]
  /\ looks \subseteq (1 .. minted) \X (0 .. clock)
  /\ tally \in [queued : Nat, evicted : Nat, sent : Nat, failed : Nat]
  /\ trackBudget \in TrackBudgetTypes

(* Between two looks at one track lies the interval, whatever queues,      *)
(* resets and evictions there were.  A track the worker had in hand when   *)
(* the camera was reset, or one trimmed in its own frame, may be seen for  *)
(* the first time twice.                                                   *)
LooksApart ==
  \A x, y \in looks : x[1] = y[1] /\ x[2] < y[2] /\ x[1] \notin loose => y[2] - x[2] >= MinInterval

(* An anchor belongs to a track that can still be retired, or else nothing *)
(* would ever prune it; the exceptions are the same.                       *)
AnchorsPruned ==
  \A t \in Ids \ loose : anchor[t] # 0 => t \in listed \cup InHand

(* Every look that was decided on is on its way, sent, or counted as lost  *)
(* ("what must never happen is silent loss").                              *)
LossesCounted ==
  /\ Cardinality(looks) = Cardinality(worker.pending) + tally.queued
  /\ tally.queued = Len(observations) + Len(sender) + tally.evicted + tally.sent + tally.failed

(* A track is not continued over a reset, nor after an absence longer than *)
(* its age - except by the first frame with detections after a pause,      *)
(* since tracks age only when something is detected.                       *)
TrackContinued(t) == lastSeen[t] # 0 /\ lastSeen'[t] # lastSeen[t]
ContinuesSame ==
  \A t \in Ids : TrackContinued(t) /\ t \notin loose' =>
    /\ eraOf'[t] = eraOf[t]
    /\ lastSeen'[t] - lastSeen[t] <= MaxAge \/ lastUpdate - lastSeen[t] <= MaxAge
IdentityHolds == [][ContinuesSame]_trackingVars
===============================================================================
