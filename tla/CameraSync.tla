------------------------------ MODULE CameraSync ------------------------------
(***************************************************************************)
(* One camera in the registry and its recorders in the NVR.  Requests      *)
(* change the registry and then call the NVR track by track; a background  *)
(* loop adds and removes what it finds missing or left over; the NVR's     *)
(* monitor restarts recorders that died, and the NVR forgets everything    *)
(* when it restarts.                                                       *)
(* Code: camera-mgmt/backend/routers/cameras.py, services/nvr_client.py,   *)
(* services/tracks.py; nvr/recorder/engine.py.                             *)
(***************************************************************************)
EXTENDS Naturals, Sequences

CONSTANTS Handlers,       \* requests that may be in progress at once
          Loops,          \* workers that may run the reconcile loop
          Days,           \* retentions an operator may choose for the main track
          SubDays,        \* the one the sub track has of its own
          SyncBudgets     \* changes to make, calls to lose, recorders and NVRs to let die

Tracks == {"main", "sub"}
Kinds == {"switch", "masks", "days", "sub", "delete", "create"}
Callers == Handlers \cup Loops

ASSUME SyncAssumption ==
  /\ Handlers \cap Loops = {}
  /\ Days \subseteq Nat \ {0} /\ (\E d \in Days : \A e \in Days : e <= d) /\ SubDays \in Nat \ {0}
  /\ SyncBudgets \subseteq [kinds : [Handlers -> SUBSET Kinds], change : Nat, lost : Nat, dead : Nat, restart : Nat]

VARIABLES
  reg,         \* the camera's row: enabled and recording, sub track, masks, retention
  op,          \* the kind of request a handler is serving
  clean,       \* history: it met no other request and no pass, and lost no call
  pass,        \* a pass of the reconcile loop: idle, read its rows, or calling
  seen,        \* the rows it read
  queue,       \* calls a handler or a pass has still to make
  worker,      \* the NVR's recorder of each track, with the masks it burns in
  kept,        \* the NVR's retention of each track
  removing,    \* the track whose recorder is being stopped
  visits,      \* the monitor's copy of the recorders: still there, or removed since
  stray,       \* tracks recorded by a worker the NVR has no entry for
  crossed,     \* history: a removal met a round of the monitor
  drift,       \* history: settings whose change was lost or overtaken
  leftover,    \* history: so was the removal of a deleted camera
  syncBudget

registryVars == <<reg, op, clean>>
passVars == <<pass, seen>>
nvrVars == <<worker, kept, removing, visits, stray>>
historyVars == <<crossed, drift, leftover>>
syncVars == <<registryVars, passVars, queue, nvrVars, historyVars, syncBudget>>

SpendSync(c) == syncBudget[c] > 0 /\ syncBudget' = [syncBudget EXCEPT ![c] = @ - 1]

CameraRows == [present : BOOLEAN, on : BOOLEAN, sub : BOOLEAN, masks : {0, 1}, days : Days]
NvrCalls == [do : {"add", "keep", "remove"}, track : Tracks, masks : {0, 1}, days : Days \cup {SubDays}]
NvrWorkers == [st : {"none", "up", "dead", "stopping"}, masks : {0, 1}]
NoWorker == [st |-> "none", masks |-> 0]
Longest == CHOOSE d \in Days : \A e \in Days : e <= d
Shorter(a, b) == IF a < b THEN a ELSE b

(* sub_retention_days: its own, and never longer than the main track's.    *)
DaysOf(r, t) == IF t = "main" THEN r.days ELSE Shorter(SubDays, r.days)

(* tracks_for, of a camera that should record.                             *)
Wanted(r, t) == r.present /\ r.on /\ (t = "main" \/ r.sub)

SyncInit ==
  /\ reg = [present |-> TRUE, on |-> TRUE, sub |-> FALSE, masks |-> 0, days |-> Longest]
  /\ op = [h \in Handlers |-> "none"] /\ clean = [h \in Handlers |-> TRUE]
  /\ pass = [w \in Loops |-> "idle"] /\ seen = [w \in Loops |-> reg]
  /\ queue = [p \in Callers |-> <<>>]
  /\ worker = [t \in Tracks |-> NoWorker] /\ kept = [t \in Tracks |-> 0]
  /\ removing = "none" /\ visits = [t \in Tracks |-> "no"] /\ stray = {}
  /\ crossed = FALSE /\ drift = {} /\ leftover = FALSE
  /\ syncBudget \in SyncBudgets

-----------------------------------------------------------------------------
(* Requests.                                                               *)

Call(do, r, t) == [do |-> do, track |-> t, masks |-> r.masks, days |-> DaysOf(r, t)]

(* _sync_recording_tracks, main first.                                     *)
SyncTrack(r, t, restart) ==
  IF Wanted(r, t)
    THEN (IF restart THEN <<Call("remove", r, t)>> ELSE <<>>) \o <<Call("add", r, t)>>
    ELSE <<Call("remove", r, t)>>

SyncTracks(r, restart) == SyncTrack(r, "main", restart) \o SyncTrack(r, "sub", restart)

(* What each request calls once its change is committed.  Switching the    *)
(* sub track on adds it whatever the schedule says, and pushes its         *)
(* retention; deleting tears down both tracks without looking.             *)
CallsFor(kind, r) ==
  CASE kind = "switch" -> SyncTracks(r, FALSE)
    [] kind = "masks" -> SyncTracks(r, TRUE)
    [] kind = "days" -> <<Call("keep", r, "main")>>
    [] kind = "sub" /\ r.sub /\ r.on -> <<Call("add", r, "sub"), Call("keep", r, "sub")>>
    [] kind = "sub" /\ r.sub /\ ~r.on -> <<>>
    [] kind = "sub" /\ ~r.sub -> <<Call("remove", r, "sub")>>
    [] kind = "delete" -> <<Call("remove", r, "main"), Call("remove", r, "sub")>>
    [] kind = "create" -> <<Call("add", r, "main")>>

Changed(kind, r) ==
  {q \in CameraRows :
     CASE kind = "switch" -> q = [r EXCEPT !.on = ~@]
       [] kind = "masks" -> q = [r EXCEPT !.masks = 1 - @]
       [] kind = "days" -> q = [r EXCEPT !.days = q.days] /\ q # r
       [] kind = "sub" -> q = [r EXCEPT !.sub = ~@]
       [] kind = "delete" -> q = [r EXCEPT !.present = FALSE]
       [] kind = "create" -> q = [present |-> TRUE, on |-> TRUE, sub |-> FALSE,
                                  masks |-> 0, days |-> Longest]}

(* Somebody still has calls to make that follow from the old row.          *)
InFlight == (\E h \in Handlers : op[h] # "none") \/ (\E w \in Loops : pass[w] # "idle")

Commit(h, kind) ==
  /\ op[h] = "none" /\ reg.present = (kind # "create")
  /\ kind \in syncBudget.kinds[h] /\ SpendSync("change")
  /\ reg' \in Changed(kind, reg)
  /\ queue' = [queue EXCEPT ![h] = CallsFor(kind, reg')]
  /\ op' = [op EXCEPT ![h] = kind]
  /\ clean' = [g \in Handlers |-> IF g = h THEN ~InFlight ELSE FALSE]
  /\ drift' = drift \cup {s \in {"masks", "days"} :
                            \/ s = kind /\ InFlight
                            \/ kind = "create" /\ (InFlight \/ leftover)}
  /\ leftover' = (leftover \/ (kind = "delete" /\ (InFlight \/ stray # {})))
  /\ UNCHANGED <<passVars, nvrVars, crossed>>

Finish(h) ==
  /\ op[h] # "none" /\ queue[h] = <<>> /\ removing = "none"
  /\ op' = [op EXCEPT ![h] = "none"]
  /\ drift' = IF clean[h] THEN drift \ {op[h]} ELSE drift
  /\ UNCHANGED <<reg, clean, passVars, queue, nvrVars, crossed, leftover, syncBudget>>

-----------------------------------------------------------------------------
(* The NVR answers one call at a time.                                     *)

Recording(t) == worker[t].st # "none"
Popped(p) == [queue EXCEPT ![p] = Tail(@)]

(* Mutant: a camera that is there already is started again.                *)
AnswerAnyAdd(c) ==
  /\ worker' = [worker EXCEPT ![c.track] = [st |-> "up", masks |-> c.masks]]
  /\ stray' = IF Recording(c.track) THEN stray \cup {c.track} ELSE stray
  /\ kept' = [kept EXCEPT ![c.track] = c.days]
  /\ UNCHANGED <<removing, crossed>>

(* 409 when the camera is there, and that counts as success.               *)
AnswerAdd(c) ==
  /\ IF Recording(c.track)
       THEN UNCHANGED <<worker, kept>>
       ELSE /\ worker' = [worker EXCEPT ![c.track] = [st |-> "up", masks |-> c.masks]]
            /\ kept' = [kept EXCEPT ![c.track] = c.days]
  /\ UNCHANGED <<removing, stray, crossed>>

AnswerKeep(c) ==
  /\ kept' = [kept EXCEPT ![c.track] = c.days]
  /\ UNCHANGED <<worker, removing, stray, crossed>>

(* stop() waits for ffmpeg and the thread, seconds in which the monitor    *)
(* goes on; 404 when there is nothing to stop.                             *)
AnswerRemove(c) ==
  /\ IF Recording(c.track)
       THEN /\ worker' = [worker EXCEPT ![c.track].st = "stopping"] /\ removing' = c.track
            /\ crossed' = (crossed \/ visits[c.track] # "no")
       ELSE UNCHANGED <<worker, removing, crossed>>
  /\ UNCHANGED <<kept, stray>>

Do(p) ==
  /\ queue[p] # <<>> /\ removing = "none"
  /\ LET c == Head(queue[p]) IN
     \/ c.do = "add" /\ AnswerAdd(c)
     \/ c.do = "keep" /\ AnswerKeep(c)
     \/ c.do = "remove" /\ AnswerRemove(c)
  /\ queue' = Popped(p)
  /\ UNCHANGED <<registryVars, passVars, visits, drift, leftover, syncBudget>>

Removed ==
  /\ removing # "none"
  /\ worker' = [worker EXCEPT ![removing] = NoWorker] /\ removing' = "none"
  /\ visits' = [visits EXCEPT ![removing] = IF @ = "there" THEN "removed" ELSE @]
  /\ UNCHANGED <<registryVars, passVars, queue, kept, stray, historyVars, syncBudget>>

(* A call that fails is logged, and the caller goes on to the next.        *)
Miss(p) ==
  /\ queue[p] # <<>> /\ removing = "none" /\ SpendSync("lost")
  /\ queue' = Popped(p)
  /\ IF p \in Handlers
       THEN /\ clean' = [clean EXCEPT ![p] = FALSE]
            /\ drift' = drift \cup ({op[p]} \cap {"masks", "days"})
            /\ leftover' = (leftover \/ op[p] = "delete")
       ELSE UNCHANGED <<clean, drift, leftover>>
  /\ UNCHANGED <<reg, op, passVars, nvrVars, crossed>>

-----------------------------------------------------------------------------
(* A pass of the reconcile loop.                                           *)

ReadRows(w) ==
  /\ pass[w] = "idle" /\ queue[w] = <<>>
  /\ pass' = [pass EXCEPT ![w] = "read"] /\ seen' = [seen EXCEPT ![w] = reg]
  /\ UNCHANGED <<registryVars, queue, nvrVars, historyVars, syncBudget>>

(* reconcile: by names only.  A camera without a row is a stranger.        *)
Missing(r, t) == Wanted(r, t) /\ ~Recording(t)
Surplus(r, t) == r.present /\ ~Wanted(r, t) /\ Recording(t)

Calls(r, t) ==
  IF Missing(r, t) THEN <<Call("add", r, t)>>
  ELSE IF Surplus(r, t) THEN <<Call("remove", r, t)>> ELSE <<>>

(* Without an answer the pass is over; the next one asks again.            *)
Compare(w) ==
  /\ pass[w] = "read"
  /\ \/ /\ removing = "none"
        /\ queue' = [queue EXCEPT ![w] = Calls(seen[w], "main") \o Calls(seen[w], "sub")]
        /\ UNCHANGED syncBudget
     \/ SpendSync("lost") /\ UNCHANGED queue
  /\ pass' = [pass EXCEPT ![w] = "call"]
  /\ UNCHANGED <<registryVars, seen, nvrVars, historyVars>>

EndPass(w) ==
  /\ pass[w] = "call" /\ queue[w] = <<>> /\ removing = "none"
  /\ pass' = [pass EXCEPT ![w] = "idle"]
  /\ UNCHANGED <<registryVars, seen, queue, nvrVars, historyVars, syncBudget>>

(* The loop is cancelled, or its process dies, between two calls.          *)
CancelPass(w) ==
  /\ pass' = [pass EXCEPT ![w] = "idle"] /\ queue' = [queue EXCEPT ![w] = <<>>]
  /\ UNCHANGED <<registryVars, seen, nvrVars, historyVars, syncBudget>>

PassStep(w) == ReadRows(w) \/ Compare(w) \/ Do(w) \/ EndPass(w)

-----------------------------------------------------------------------------
(* The NVR by itself.                                                      *)

WorkerDies(t) ==
  /\ worker[t].st = "up" /\ SpendSync("dead")
  /\ worker' = [worker EXCEPT ![t].st = "dead"]
  /\ UNCHANGED <<registryVars, passVars, queue, kept, removing, visits, stray, historyVars>>

(* Each round works on a copy of the recorders taken at its start.         *)
BeginRound ==
  /\ \A t \in Tracks : visits[t] = "no"
  /\ visits' = [t \in Tracks |-> IF Recording(t) THEN "there" ELSE "no"]
  /\ crossed' = (crossed \/ removing # "none")
  /\ UNCHANGED <<registryVars, passVars, queue, worker, kept, removing, stray, drift, leftover,
                 syncBudget>>

(* One that is not alive is stopped and started, whether it died or was    *)
(* removed while the round was under way; one that is being stopped may be *)
(* found either way.                                                       *)
Visit(t) ==
  /\ visits[t] # "no" /\ visits' = [visits EXCEPT ![t] = "no"]
  /\ \/ /\ visits[t] = "there" /\ worker[t].st = "dead"
        /\ worker' = [worker EXCEPT ![t].st = "up"] /\ UNCHANGED stray
     \/ /\ visits[t] = "removed" \/ worker[t].st = "stopping"
        /\ stray' = stray \cup {t} /\ UNCHANGED worker
     \/ visits[t] = "there" /\ worker[t].st # "dead" /\ UNCHANGED <<worker, stray>>
  /\ UNCHANGED <<registryVars, passVars, queue, kept, removing, historyVars, syncBudget>>

(* Recorders and policies live in memory.                                  *)
NvrRestart ==
  /\ SpendSync("restart")
  /\ worker' = [t \in Tracks |-> NoWorker] /\ kept' = [t \in Tracks |-> 0]
  /\ removing' = "none" /\ visits' = [t \in Tracks |-> "no"] /\ stray' = {}
  /\ drift' = IF InFlight THEN drift ELSE {}
  /\ leftover' = (leftover /\ InFlight)
  /\ UNCHANGED <<registryVars, passVars, queue, crossed>>

MonitorStep == BeginRound \/ \E t \in Tracks : Visit(t)

SyncNext ==
  \/ \E h \in Handlers : (\E kind \in Kinds : Commit(h, kind)) \/ Do(h) \/ Miss(h) \/ Finish(h)
  \/ \E w \in Loops : PassStep(w) \/ Miss(w)
  \/ Removed \/ MonitorStep \/ NvrRestart
  \/ \E t \in Tracks : WorkerDies(t)

SyncSpec == SyncInit /\ [][SyncNext]_syncVars

-----------------------------------------------------------------------------
SyncTypeOK ==
  /\ reg \in CameraRows
  /\ op \in [Handlers -> Kinds \cup {"none"}] /\ clean \in [Handlers -> BOOLEAN]
  /\ pass \in [Loops -> {"idle", "read", "call"}] /\ seen \in [Loops -> CameraRows]
  /\ queue \in [Callers -> Seq(NvrCalls)] /\ worker \in [Tracks -> NvrWorkers]
  /\ kept \in [Tracks -> Days \cup {0, SubDays}] /\ removing \in Tracks \cup {"none"}
  /\ visits \in [Tracks -> {"no", "there", "removed"}] /\ stray \subseteq Tracks
  /\ crossed \in BOOLEAN /\ drift \subseteq {"masks", "days"} /\ leftover \in BOOLEAN

Quiet(kind) == \A h \in Handlers : op[h] # kind

(* A camera records with the settings of its row once the requests that    *)
(* change them have ended, except for a change whose call was lost or met  *)
(* another request or pass.                                                *)
SettingsKept ==
  reg.present =>
    /\ \A t \in Tracks : Recording(t) /\ Quiet("masks") /\ "masks" \notin drift
         => worker[t].masks = reg.masks
    /\ Recording("main") /\ Quiet("days") /\ "days" \notin drift => kept["main"] = reg.days

(* Nothing records without an entry for it unless a removal met a round of *)
(* the monitor, and a deleted camera does not record unless its teardown   *)
(* was lost or overtaken.                                                  *)
NoStrays ==
  /\ stray # {} => crossed
  /\ ~reg.present /\ ~InFlight /\ ~leftover => \A t \in Tracks : ~Recording(t)

(* What records carries the settings of the camera's row, and nothing      *)
(* records that no row asks for.                                           *)
RecordersAsAsked == SettingsKept /\ NoStrays

(* The tracks that record are those the row asks for.                      *)
AsRegistered == reg.present => \A t \in Tracks : Recording(t) <=> Wanted(reg, t)
=============================================================================
