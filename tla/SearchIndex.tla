----------------------------- MODULE SearchIndex -----------------------------
(***************************************************************************)
(* The search index of one camera: rows in three tables, a crop file per   *)
(* row, a frame file shared by all objects of one moment, and everything   *)
(* that writes or deletes them: ingest, erasure, the retention thread      *)
(* (expiry, coverage sweep, frame expiry, orphan sweep) and the            *)
(* registration that moves the deadlines of rows already written.          *)
(* Code: smartsearch/index/{pipeline,writer,store,retention,coverage}.py.  *)
(***************************************************************************)
EXTENDS Naturals, FiniteSets, FiniteSetsExt, Sequences, SequencesExt

CONSTANTS Obs,           \* observations that analytics may send
          TimeOf,        \* when each was seen; objects of one frame share it
          DomainOf,      \* the table each belongs to
          Domains,       \* the tables, in the order every sweep takes them
          FrameDomains,  \* those whose rows refer to a frame
          SweptDomains,  \* those the coverage sweep counts
          Registrars,    \* threads that may push a retention at once
          OrphanEvery,   \* the orphan sweep runs in every n-th pass
          CoverageEvery, \* so does the coverage sweep, once it has succeeded
          Budgets        \* which observations to send, how many faults, crashes ... to allow

Times == {TimeOf[o] : o \in Obs}
Scenes == [obs : SUBSET Obs, fault : Nat, crash : Nat, erase : Nat, push : Nat, loss : Nat]
Jobs == {"request", "timer"}

ASSUME ObsAssumption ==
  /\ IsFiniteSet(Obs) /\ TimeOf \in [Obs -> Nat]
  /\ "none" \notin Obs /\ Obs \cap Nat = {}
  /\ Domains \in Seq(STRING) /\ DomainOf \in [Obs -> ToSet(Domains)]
  /\ FrameDomains \subseteq ToSet(Domains) /\ SweptDomains \subseteq ToSet(Domains)
ASSUME PeriodsAssumption == OrphanEvery \in Nat \ {0} /\ CoverageEvery \in Nat \ {0}
ASSUME BudgetsAssumption == Budgets \subseteq Scenes

VARIABLES
  rows,      \* observations with a row in their table
  stamp,     \* the retention a row's expires_at was computed from
  crops,     \* observations whose crop is on disk
  frames,    \* moments whose frame is on disk
  framed,    \* rows with a frame_path
  age,       \* of a moment: 0 within the hour's grace, 1 beyond it,
             \*   2 beyond the short retention, 3 beyond the default one
  received,  \* observations whose ingest has begun
  ingest,    \* the request being ingested (the handler blocks the event loop)
  job,       \* the two threads that delete rows
  timer,     \* where the retention thread is in sweep_now
  sweeps,    \* passes since the last orphan sweep
  sinceOk,   \* passes since the last coverage sweep that learned something
  plan,      \* the coverage sweep's local variables
  todo,      \* files the orphan sweep has decided to unlink
  policy,    \* _camera_retention: the camera's override, or the default
  push,      \* registrations inside set_camera_retention
  footage,   \* moments for which the recorder has footage
  budget,
  raced,     \* history: rows computed before and inserted after a change of policy
  unsettled, \* history: a restamp failed, overlapped another, or a restart forgot
  bereft     \* history: observations whose moment was being erased, or swept as a gap

rowVars == <<rows, stamp, framed>>
fileVars == <<crops, frames>>
sweepVars == <<timer, sweeps, sinceOk, plan, todo>>
policyVars == <<policy, push, raced, unsettled>>
worldVars == <<age, footage>>
vars == <<rowVars, fileVars, received, ingest, job, sweepVars, policyVars, worldVars,
          budget, bereft>>

Spend(c) == budget[c] > 0 /\ budget' = [budget EXCEPT ![c] = @ - 1]

(* May this call fail?  A failed call costs a fault.                       *)
Fails == Spend("fault")
Works == UNCHANGED budget

KeepsFrame(o) == DomainOf[o] \in FrameDomains
Counted(o) == DomainOf[o] \in SweptDomains
Deadline(o) == IF stamp[o] = "short" THEN 2 ELSE 3

(* Mutant: an hour is lost at the far end.                                 *)
ExpiredStrictly(o) == age[TimeOf[o]] > Deadline(o)

Expired(o) == age[TimeOf[o]] >= Deadline(o)

NoIngest == [pc |-> "idle", obs |-> "none", frame |-> FALSE, keep |-> "long"]
Job(pc, why, scope) ==
  [pc |-> pc, why |-> why, scope |-> scope, dom |-> 1, crops |-> {}, frames |-> {},
   honest |-> TRUE, counted |-> 0, lost |-> 0]
NoJob == Job("idle", "none", {})
NoPlan == [rows |-> 0, times |-> {}, holes |-> {}, honest |-> TRUE]
NoPush == [pc |-> "idle", keep |-> "long", dom |-> 1, alone |-> TRUE]

Init ==
  /\ rows = {} /\ stamp = [o \in Obs |-> "long"] /\ framed = {}
  /\ crops = {} /\ frames = {}
  /\ budget \in Budgets
  /\ age = [t \in Times |-> IF t \in {TimeOf[o] : o \in budget.obs} THEN 0 ELSE 3]
  /\ footage = Times
  /\ received = {} /\ ingest = NoIngest
  /\ job = [j \in Jobs |-> NoJob]
  /\ timer = "wait" /\ sweeps = 0 /\ sinceOk = CoverageEvery /\ plan = NoPlan /\ todo = {}
  /\ policy = "long" /\ push = [r \in Registrars |-> NoPush]
  /\ raced = {} /\ unsettled = FALSE /\ bereft = {}

-----------------------------------------------------------------------------
(* Ingest.  The handler is a coroutine that never awaits once it has the   *)
(* body, so one observation is in hand at a time.                          *)

(* One that is not wanted, a duplicate, or one whose crop cannot be        *)
(* written leaves nothing behind.                                          *)
Receive(o) ==
  /\ ingest.pc = "idle" /\ o \notin received
  /\ age[TimeOf[o]] = 0
  /\ o \in budget.obs /\ budget' = [budget EXCEPT !.obs = @ \ {o}]
  /\ received' = received \cup {o}
  /\ \/ /\ crops' = crops \cup {o}
        /\ ingest' = [NoIngest EXCEPT !.pc = IF KeepsFrame(o) THEN "frame" ELSE "stamp",
                                      !.obs = o]
     \/ UNCHANGED <<crops, ingest>>
  /\ bereft' = IF TimeOf[o] \in job["request"].scope THEN bereft \cup {o} ELSE bereft
  /\ UNCHANGED <<rowVars, frames, job, sweepVars, policyVars, worldVars>>

(* save_frame: the first object of a moment writes the file, the others    *)
(* reuse it; None when it cannot be written.                               *)
SaveFrame ==
  LET t == TimeOf[ingest.obs] IN
  /\ ingest.pc = "frame"
  /\ \/ /\ frames' = frames \cup {t}
        /\ ingest' = [ingest EXCEPT !.pc = "stamp", !.frame = TRUE]
        /\ Works
     \/ /\ t \notin frames /\ Fails
        /\ ingest' = [ingest EXCEPT !.pc = "stamp"]
        /\ UNCHANGED frames
  /\ UNCHANGED <<rowVars, crops, received, job, sweepVars, policyVars, worldVars, bereft>>

(* write_batch computes expires_at before it opens its transaction.        *)
Stamp ==
  /\ ingest.pc = "stamp"
  /\ ingest' = [ingest EXCEPT !.pc = "insert", !.keep = policy]
  /\ UNCHANGED <<rowVars, fileVars, received, job, sweepVars, policyVars, worldVars,
                 budget, bereft>>

(* A failed INSERT is counted and swallowed: the files stay.               *)
Insert ==
  LET o == ingest.obs IN
  /\ ingest.pc = "insert"
  /\ ingest' = NoIngest
  /\ \/ /\ rows' = rows \cup {o}
        /\ stamp' = [stamp EXCEPT ![o] = ingest.keep]
        /\ framed' = IF ingest.frame THEN framed \cup {o} ELSE framed
        /\ raced' = IF ingest.keep # policy THEN raced \cup {o} ELSE raced
        /\ Works
     \/ Fails /\ UNCHANGED <<rowVars, raced>>
  /\ UNCHANGED <<fileVars, received, job, sweepVars, policy, push, unsettled, worldVars, bereft>>

-----------------------------------------------------------------------------
(* Deletion, row first: what erase_range and expire_once share.            *)

Doomed(j) ==
  {o \in rows : /\ DomainOf[o] = Domains[job[j].dom]
                /\ IF job[j].why = "expire" THEN Expired(o)
                                           ELSE TimeOf[o] \in job[j].scope}

Began(why, scope) == Job("run", why, scope)

(* The files of a batch are unlinked before the next DELETE.               *)
Unlinked(j) == job[j].pc = "run" /\ job[j].crops = {} /\ job[j].frames = {}

(* Mutant: one table too many.                                             *)
SweptLate(j) == Unlinked(j) /\ job[j].dom > Len(Domains) + 1

Swept(j) == Unlinked(j) /\ job[j].dom > Len(Domains)

(* DELETE ... LIMIT ... RETURNING in a transaction of its own, table by     *)
(* table, until a table has nothing left that matches.                     *)
DeleteBatch(j) ==
  /\ Unlinked(j) /\ ~Swept(j)
  /\ \E S \in SUBSET Doomed(j) :
       /\ S # {}
       /\ rows' = rows \ S /\ framed' = framed \ S
       /\ stamp' = [o \in Obs |-> IF o \in S THEN "long" ELSE stamp[o]]
       /\ raced' = raced \ S /\ bereft' = bereft \ S
       /\ job' = [job EXCEPT ![j].crops = S, ![j].frames = {TimeOf[o] : o \in S \cap framed},
                             ![j].lost = @ + Cardinality({o \in S : Counted(o)})]
  /\ UNCHANGED <<fileVars, received, ingest, sweepVars, policy, push, unsettled, worldVars,
                 budget>>

NextTable(j) ==
  /\ Unlinked(j) /\ ~Swept(j) /\ Doomed(j) = {}
  /\ job' = [job EXCEPT ![j].dom = @ + 1]
  /\ UNCHANGED <<rowVars, fileVars, received, ingest, sweepVars, policyVars, worldVars,
                 budget, bereft>>

(* The crops of a batch are unlinked before its frames.  A file that is    *)
(* gone is no failure; one that cannot be unlinked is counted and left.    *)
UnlinkCrop(j) ==
  \E o \in job[j].crops :
    /\ job' = [job EXCEPT ![j].crops = @ \ {o}]
    /\ \/ crops' = crops \ {o} /\ Works
       \/ o \in crops /\ Fails /\ UNCHANGED crops
    /\ UNCHANGED <<rowVars, frames, received, ingest, sweepVars, policyVars, worldVars, bereft>>

UnlinkFrame(j) ==
  /\ job[j].crops = {}
  /\ \E t \in job[j].frames :
       /\ job' = [job EXCEPT ![j].frames = @ \ {t}]
       /\ \/ frames' = frames \ {t} /\ Works
          \/ t \in frames /\ Fails /\ UNCHANGED frames
  /\ UNCHANGED <<rowVars, crops, received, ingest, sweepVars, policyVars, worldVars, bereft>>

Deleting(j) == DeleteBatch(j) \/ NextTable(j) \/ UnlinkCrop(j) \/ UnlinkFrame(j)

(* The database goes away: an erasure answers 503 and keeps what it did,   *)
(* a pass of the retention thread goes on to its next sweep.               *)
Broken(j) == Unlinked(j) /\ ~Swept(j) /\ Fails

(* DELETE /erase of a window of time.                                      *)
RequestErase ==
  /\ job["request"].pc = "idle" /\ Spend("erase")
  /\ \E a, b \in Times :
       LET W == Times \cap (a..b) IN
       /\ W # {}
       /\ job' = [job EXCEPT !["request"] = Began("erase", W)]
       /\ bereft' = bereft \cup {o \in received : TimeOf[o] \in W}
  /\ UNCHANGED <<rowVars, fileVars, received, ingest, sweepVars, policyVars, worldVars>>

EndErase ==
  /\ \/ Swept("request") /\ Works
     \/ Broken("request")
  /\ job' = [job EXCEPT !["request"] = NoJob]
  /\ UNCHANGED <<rowVars, fileVars, received, ingest, sweepVars, policyVars, worldVars, bereft>>

-----------------------------------------------------------------------------
(* sweep_now: expiry, coverage, frame expiry, orphans, once an hour.       *)

StartPass ==
  /\ timer = "wait" /\ timer' = "expire"
  /\ job' = [job EXCEPT !["timer"] = Began("expire", {})]
  /\ UNCHANGED <<rowVars, fileVars, received, ingest, sweeps, sinceOk, plan, todo, policyVars,
                 worldVars, budget, bereft>>

(* The pass is counted once expiry is over.                                *)
EndExpiry ==
  /\ timer = "expire"
  /\ \/ Swept("timer") /\ Works
     \/ Broken("timer")
  /\ job' = [job EXCEPT !["timer"] = NoJob]
  /\ sweeps' = (sweeps + 1) % OrphanEvery
  /\ sinceOk' = IF sinceOk < CoverageEvery THEN sinceOk + 1 ELSE sinceOk
  /\ timer' = IF sinceOk' >= CoverageEvery THEN "spans" ELSE "frames"
  /\ UNCHANGED <<rowVars, fileVars, received, ingest, plan, todo, policyVars, worldVars, bereft>>

(* Mutant: a segment still being written is asked about, too.              *)
AnyTime(t) == age[t] >= 0

(* The clamp of plan_for_camera: nothing within the last hour is asked     *)
(* about.                                                                  *)
Settled(t) == age[t] >= 1

(* indexed_spans, from the first row to the last.  When it fails nothing   *)
(* was learned.                                                            *)
Spans ==
  LET counted == {o \in rows : Counted(o)}
      when == {TimeOf[o] : o \in counted}
      span == IF when = {} THEN {} ELSE Times \cap (Min(when)..Max(when))
  IN
  /\ timer = "spans"
  /\ \/ /\ plan' = [NoPlan EXCEPT !.rows = Cardinality(counted), !.times = {t \in span : Settled(t)}]
        /\ IF plan'.times = {} THEN timer' = "frames" /\ sinceOk' = 0
                               ELSE timer' = "ask" /\ UNCHANGED sinceOk
        /\ Works
     \/ Fails /\ timer' = "frames" /\ UNCHANGED <<sinceOk, plan>>
  /\ UNCHANGED <<rowVars, fileVars, received, ingest, job, sweeps, todo, policyVars, worldVars,
                 bereft>>

(* What the recorder answers: nothing within reach, the truth about        *)
(* finished segments, or, when its index was lost, that it has no footage. *)
(* Unknown is not empty: the pass ends and the next one asks again.        *)
Ask ==
  /\ timer = "ask"
  /\ \/ /\ Fails /\ timer' = "frames" /\ UNCHANGED plan
     \/ /\ \/ plan' = [plan EXCEPT !.holes = plan.times \ {t \in footage : age[t] >= 1}] /\ Works
           \/ plan' = [plan EXCEPT !.holes = plan.times, !.honest = FALSE] /\ Fails
        /\ timer' = "count"
  /\ UNCHANGED <<rowVars, fileVars, received, ingest, job, sweeps, sinceOk, todo, policyVars,
                 worldVars, bereft>>

(* count_rows for each window, then the brake: more than half of the rows  *)
(* counted at first is more than a recorder is believed on.                *)
(* Mutant: the brake looks for an empty recorder only.                     *)
OverruledByAll(n) == n = plan.rows

Overruled(n) == 2 * n > plan.rows

Count ==
  LET n == Cardinality({o \in rows : Counted(o) /\ TimeOf[o] \in plan.holes}) IN
  /\ timer = "count"
  /\ sinceOk' = 0
  /\ \/ /\ n = 0 \/ Overruled(n)
        /\ timer' = "frames" /\ UNCHANGED <<job, bereft>> /\ Works
     \/ /\ n > 0 /\ ~Overruled(n)
        /\ timer' = "purge" /\ Works
        /\ bereft' = bereft \cup {o \in received : TimeOf[o] \in plan.holes}
        /\ job' = [job EXCEPT !["timer"] =
             [Began("coverage", plan.holes) EXCEPT !.honest = plan.honest, !.counted = plan.rows]]
     \/ Fails /\ timer' = "frames" /\ UNCHANGED <<job, bereft>>
  /\ UNCHANGED <<rowVars, fileVars, received, ingest, sweeps, plan, todo, policyVars, worldVars>>

EndPurge ==
  /\ timer = "purge"
  /\ \/ Swept("timer") /\ Works
     \/ Broken("timer")
  /\ job' = [job EXCEPT !["timer"] = NoJob]
  /\ timer' = "frames"
  /\ UNCHANGED <<rowVars, fileVars, received, ingest, sweeps, sinceOk, plan, todo, policyVars,
                 worldVars, bereft>>

(* Frames are kept for days, rows for weeks.                               *)
ExpireFrames ==
  LET old == {t \in frames : age[t] >= 2} IN
  /\ timer = "frames"
  /\ \/ frames' = frames \ old /\ Works
     \/ \E t \in old : frames' = frames \ (old \ {t}) /\ Fails
  /\ timer' = IF sweeps = 0 THEN "snapshot" ELSE "wait"
  /\ plan' = NoPlan
  /\ UNCHANGED <<rowVars, crops, received, ingest, job, sweeps, sinceOk, todo, policyVars,
                 worldVars, bereft>>

(* Every path some row refers to; files it does not name, and that are     *)
(* older than the grace, are unlinked one by one afterwards.               *)
Referenced == rows \cup {TimeOf[o] : o \in framed}

(* Mutants: no grace; the comparison the wrong way round.                  *)
AnyFile(x) == x = x
YoungEnough(x) == age[IF x \in Obs THEN TimeOf[x] ELSE x] < 1

OldEnough(x) == age[IF x \in Obs THEN TimeOf[x] ELSE x] >= 1

Snapshot ==
  /\ timer = "snapshot"
  /\ \/ /\ todo' = {x \in (crops \cup frames) \ Referenced : OldEnough(x)} /\ timer' = "walk"
        /\ Works
     \/ Fails /\ timer' = "wait" /\ UNCHANGED todo
  /\ UNCHANGED <<rowVars, fileVars, received, ingest, job, sweeps, sinceOk, plan, policyVars,
                 worldVars, bereft>>

Walk ==
  /\ timer = "walk"
  /\ \E x \in todo :
       /\ todo' = todo \ {x}
       /\ \/ crops' = crops \ {x} /\ frames' = frames \ {x} /\ Works
          \/ x \in crops \cup frames /\ Fails /\ UNCHANGED fileVars
  /\ UNCHANGED <<rowVars, received, ingest, job, timer, sweeps, sinceOk, plan, policyVars,
                 worldVars, bereft>>

EndWalk ==
  /\ timer = "walk" /\ todo = {}
  /\ timer' = "wait"
  /\ UNCHANGED <<rowVars, fileVars, received, ingest, job, sweeps, sinceOk, plan, todo,
                 policyVars, worldVars, budget, bereft>>

-----------------------------------------------------------------------------
(* set_camera_retention: the new value first, then every row, in batches.  *)

Pushing == {r \in Registrars : push[r].pc # "idle"}

Push(r) ==
  /\ push[r].pc = "idle" /\ Spend("push")
  /\ \E keep \in {"short", "long"} :
       /\ policy' = keep
       /\ IF keep = policy
            THEN UNCHANGED <<push, unsettled>>
            ELSE /\ push' = [q \in Registrars |->
                      IF q = r THEN [pc |-> "restamp", keep |-> keep, dom |-> 1,
                                     alone |-> Pushing = {}]
                               ELSE [push[q] EXCEPT !.alone = FALSE]]
                 /\ unsettled' = (unsettled \/ Pushing # {})
  /\ UNCHANGED <<rowVars, fileVars, received, ingest, job, sweepVars, worldVars, raced, bereft>>

(* Mutant: a deadline is brought forward and never put back.               *)
StaleWhenLonger(r) ==
  {o \in rows : /\ DomainOf[o] = Domains[push[r].dom]
                /\ stamp[o] = "long" /\ push[r].keep = "short"}

(* IS DISTINCT FROM: rows whose expires_at is not what the push makes it.  *)
Stale(r) ==
  {o \in rows : DomainOf[o] = Domains[push[r].dom] /\ stamp[o] # push[r].keep}

Restamp(r) ==
  LET S == Stale(r) IN
  /\ push[r].pc = "restamp" /\ push[r].dom <= Len(Domains)
  /\ \/ /\ S # {}
        /\ stamp' = [o \in Obs |-> IF o \in S THEN push[r].keep ELSE stamp[o]]
        /\ raced' = raced \ S
        /\ UNCHANGED push
     \/ /\ S = {}
        /\ push' = [push EXCEPT ![r].dom = @ + 1]
        /\ UNCHANGED <<stamp, raced>>
  /\ UNCHANGED <<rows, framed, fileVars, received, ingest, job, sweepVars, policy, unsettled,
                 worldVars, budget, bereft>>

(* The error is returned and logged; nothing remembers it, and the next    *)
(* push of the same value finds nothing changed.                           *)
EndPush(r) ==
  /\ push[r].pc = "restamp"
  /\ \/ /\ push[r].dom > Len(Domains) /\ Works
        /\ unsettled' = IF push[r].alone THEN FALSE ELSE unsettled
     \/ push[r].dom <= Len(Domains) /\ Fails /\ unsettled' = TRUE
  /\ push' = [push EXCEPT ![r] = NoPush]
  /\ UNCHANGED <<rowVars, fileVars, received, ingest, job, sweepVars, policy, raced, worldVars,
                 bereft>>

-----------------------------------------------------------------------------
(* The world.                                                              *)

(* Older moments age first.  An hour is longer than an observation can     *)
(* wait in the sink's queue and than a request takes.                      *)
Age(t) ==
  /\ age[t] < 3
  /\ \A u \in Times : u < t => age[u] > age[t] \/ age[u] = 3
  /\ age[t] = 0 => ingest.obs \notin {o \in Obs : TimeOf[o] = t}
  /\ age' = [age EXCEPT ![t] = @ + 1]
  /\ UNCHANGED <<rowVars, fileVars, received, ingest, job, sweepVars, policyVars, footage,
                 budget, bereft>>

(* The recorder deletes footage.                                           *)
LoseFootage(t) ==
  /\ t \in footage /\ Spend("loss")
  /\ footage' = footage \ {t}
  /\ UNCHANGED <<rowVars, fileVars, received, ingest, job, sweepVars, policyVars, age, bereft>>

(* The process dies; rows and files stay.                                  *)
Crash ==
  /\ Spend("crash")
  /\ ingest' = NoIngest
  /\ job' = [j \in Jobs |-> NoJob]
  /\ timer' = "wait" /\ sweeps' = 0 /\ sinceOk' = CoverageEvery /\ plan' = NoPlan /\ todo' = {}
  /\ policy' = "long" /\ push' = [r \in Registrars |-> NoPush]
  /\ unsettled' = TRUE
  /\ UNCHANGED <<rowVars, fileVars, received, worldVars, raced, bereft>>

Ingesting == (\E o \in Obs : Receive(o)) \/ SaveFrame \/ Stamp \/ Insert
Sweeping ==
  \/ StartPass \/ EndExpiry \/ Spans \/ Ask \/ Count \/ EndPurge \/ ExpireFrames
  \/ Snapshot \/ Walk \/ EndWalk

Next ==
  \/ Ingesting
  \/ RequestErase \/ EndErase
  \/ Sweeping
  \/ \E j \in Jobs : Deleting(j)
  \/ \E r \in Registrars : Push(r) \/ Restamp(r) \/ EndPush(r)
  \/ \E t \in Times : Age(t) \/ LoseFootage(t)
  \/ Crash

Spec == Init /\ [][Next]_vars

-----------------------------------------------------------------------------
(* Properties.                                                             *)

(* What the ingest, a deleting thread, a coverage sweep and a registration  *)
(* have in hand.                                                            *)
Ingests == [pc : {"idle", "frame", "stamp", "insert"}, obs : Obs \cup {"none"},
            frame : BOOLEAN, keep : {"short", "long"}]
Runs == [pc : {"idle", "run"}, why : {"none", "erase", "expire", "coverage"},
         scope : SUBSET Times, dom : 1..(Len(Domains) + 1), crops : SUBSET Obs,
         frames : SUBSET Times, honest : BOOLEAN, counted : Nat, lost : Nat]
Plans == [rows : Nat, times : SUBSET Times, holes : SUBSET Times, honest : BOOLEAN]
Pushes == [pc : {"idle", "restamp"}, keep : {"short", "long"},
           dom : 1..(Len(Domains) + 1), alone : BOOLEAN]

TypeOK ==
  /\ rows \subseteq Obs /\ crops \subseteq Obs /\ frames \subseteq Times
  /\ framed \subseteq rows /\ received \subseteq Obs
  /\ stamp \in [Obs -> {"short", "long"}] /\ policy \in {"short", "long"}
  /\ age \in [Times -> 0..3] /\ footage \subseteq Times
  /\ ingest \in Ingests /\ (ingest.pc # "idle" => ingest.obs \in Obs)
  /\ job \in [Jobs -> Runs]
  /\ timer \in {"wait", "expire", "spans", "ask", "count", "purge", "frames", "snapshot", "walk"}
  /\ sweeps \in 0..(OrphanEvery - 1) /\ sinceOk \in 0..CoverageEvery
  /\ plan \in Plans /\ todo \subseteq Obs \cup Times
  /\ push \in [Registrars -> Pushes]
  /\ budget \in Scenes
  /\ raced \subseteq Obs /\ unsettled \in BOOLEAN /\ bereft \subseteq Obs

(* A search hit has its crop, and its frame for as long as frames are kept, *)
(* whichever sweeps, erasures and failures ran beside its ingest; only an   *)
(* erasure or a coverage sweep of its own moment, which takes one table     *)
(* after the other, can cost it the frame they share.                       *)
RowsKeepImages ==
  /\ rows \subseteq crops
  /\ \A o \in framed \ bereft : age[TimeOf[o]] < 2 => TimeOf[o] \in frames

(* Once a change of retention is through, alone and without an error, every *)
(* row has the deadline of the policy, rows written meanwhile included; the *)
(* exception are rows whose ingest computed its deadline before the change. *)
DeadlineKept ==
  Pushing = {} /\ ~unsettled => \A o \in rows \ raced : stamp[o] = policy

(* However wrong the recorder's answer, one coverage pass deletes at most   *)
(* half of the rows it counted.                                             *)
HalfRemains ==
  job["timer"].why = "coverage" => 2 * job["timer"].lost <= job["timer"].counted

(* The coverage sweep deletes no row whose footage the recorder still has,  *)
(* unless the recorder answered from an index it had lost: a segment that   *)
(* is still being written does not count as a gap.                          *)
FootageKeepsRows ==
  [][\A o \in rows \ rows' :
       job["timer"].why = "coverage" /\ job["timer"].honest /\ o \in job'["timer"].crops
       => TimeOf[o] \notin footage]_vars

(* Rows, crops and ingest are one life of an observation.                   *)
LifeOf(o) ==
  IF o \in rows THEN (IF o \in crops THEN "hit" ELSE "broken")
  ELSE IF o \in crops THEN (IF ingest.obs = o THEN "stored" ELSE "residue")
  ELSE IF o \in received THEN "gone" ELSE "new"

Store == INSTANCE ErasableStore WITH life <- [o \in Obs |-> LifeOf(o)]

(* The index keeps the promise of ErasableStore across crashes, failed      *)
(* statements and failed unlinks; what a failure strands is collected.      *)
ImplementsStore == Store!Spec

(* When every moment is past every retention, nothing is left: no row, no   *)
(* crop and no frame, whatever failed or crashed on the way.                *)
NothingLeft == []<>((\A t \in Times : age[t] = 3) => rows = {} /\ crops = {} /\ frames = {})
=============================================================================
