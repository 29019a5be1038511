-------------------------- MODULE SmartSearchProofs --------------------------
(* Proofs about the smart search service: about SearchIndex, for any        *)
(* observations, tables, registrars and budgets of faults, crashes, erasures *)
(* and pushes; about ModelPool, for any clients, cameras and budgets; and    *)
(* about the service the two make up together.                               *)
EXTENDS SmartSearch, Integers, FiniteSetTheorems, TLAPS

(* The observation in hand has its crop, is not a row yet and its moment is  *)
(* still within the grace; its frame is there unless an erasure took it.     *)
IngestInv ==
  /\ ingest.pc = "idle" => ingest = NoIngest
  /\ ingest.pc # "idle" =>
       /\ ingest.obs \in received \cap crops /\ ingest.obs \notin rows
       /\ age[TimeOf[ingest.obs]] = 0
       /\ ingest.frame => \/ TimeOf[ingest.obs] \in frames
                          \/ ingest.obs \in bereft

(* What a job has still to unlink belongs to no row, nor will it again.      *)
CropsInv ==
  \A j \in Jobs : /\ job[j].crops \subseteq received \ rows
                  /\ ingest.pc # "idle" => ingest.obs \notin job[j].crops

(* Moments a job deletes by name: the rows it may find there are bereft.  An *)
(* erasure may meet an ingest, a coverage sweep comes an hour too late.      *)
ScopeInv ==
  /\ job["request"].why # "expire"
  /\ \A o \in rows : \A j \in Jobs : TimeOf[o] \in job[j].scope => o \in bereft
  /\ ingest.pc # "idle" /\ TimeOf[ingest.obs] \in job["request"].scope => ingest.obs \in bereft
  /\ \A t \in job["timer"].scope : age[t] >= 1

(* Frames a job has still to unlink: of its own moments, or past their time. *)
FramesInv ==
  /\ job["request"].frames \subseteq job["request"].scope
  /\ \A t \in job["timer"].frames :
       age[t] >= 1 /\ (age[t] >= 2 \/ \A o \in framed : TimeOf[o] = t => o \in bereft)

(* The coverage sweep plans with moments beyond the grace, and an honest     *)
(* answer names no moment that has footage.                                  *)
PlanInv ==
  /\ \A t \in plan.times \cup plan.holes : age[t] >= 1
  /\ plan.honest => plan.holes \cap footage = {}
  /\ job["timer"].why = "coverage" /\ job["timer"].honest => job["timer"].scope \cap footage = {}

(* The orphan sweep unlinks what no row refers to, and none will: no ingest  *)
(* reaches a moment beyond the grace.                                        *)
TodoInv ==
  \A x \in todo :
    /\ OldEnough(x)
    /\ x \in Obs => x \in received \ rows
    /\ x \in Times => \A o \in framed : TimeOf[o] # x

Received == rows \cup crops \subseteq received

IndexInv ==
  /\ TypeOK /\ Received /\ IngestInv /\ CropsInv /\ ScopeInv /\ FramesInv /\ PlanInv /\ TodoInv
  /\ RowsKeepImages

(* A registration that has had the field to itself has brought every row of *)
(* the tables behind it to the policy.                                      *)
AloneInv ==
  \A r \in Pushing : push[r].alone =>
    /\ push[r].keep = policy /\ Pushing = {r}
    /\ \A o \in rows \ raced : \A i \in 1..Len(Domains) :
         i < push[r].dom /\ DomainOf[o] = Domains[i] => stamp[o] = policy

(* Whatever overlaps, fails or is forgotten leaves the deadlines unsettled. *)
SettledInv == ~unsettled => \A r \in Pushing : push[r].alone

DeadlineInv == TypeOK /\ AloneInv /\ SettledInv /\ DeadlineKept

(* What the coverage sweep has deleted and may yet delete is at most half of *)
(* what it counted.                                                          *)
Left == {o \in rows : Counted(o) /\ TimeOf[o] \in job["timer"].scope}
HalfInv ==
  job["timer"].why = "coverage" =>
    2 * (job["timer"].lost + Cardinality(Left)) <= job["timer"].counted

-----------------------------------------------------------------------------
\* A budget that pays for a fault, a crash, ... is still a budget.
LEMMA SpendType ==
  ASSUME budget \in Scenes, NEW c \in {"fault", "crash", "erase", "push", "loss"}, Spend(c)
  PROVE  budget' \in Scenes
BY DEF Scenes, Spend

\* The tables come in a finite order.
LEMMA Tables == Len(Domains) \in Nat /\ \A o \in Obs : TimeOf[o] \in Times
BY ObsAssumption DEF Times

\* Every set of observations can be counted.
LEMMA Countable ==
  ASSUME NEW S \in SUBSET Obs
  PROVE  IsFiniteSet(S) /\ Cardinality(S) \in Nat
BY ObsAssumption, FS_Subset, FS_CardinalityType

\* The records that mean "nothing in hand" have their types.
LEMMA Idle ==
  NoIngest \in Ingests /\ NoJob \in Runs /\ NoPlan \in Plans /\ NoPush \in Pushes
BY Tables DEF NoIngest, NoJob, Job, NoPlan, NoPush, Ingests, Runs, Plans, Pushes

LEMMA TypeInit == Init => TypeOK
<1> SUFFICES ASSUME Init PROVE TypeOK
  OBVIOUS
<1>1. job \in [Jobs -> Runs] /\ push \in [Registrars -> Pushes] /\ plan \in Plans
  BY Idle DEF Init
<1>2. ingest \in Ingests /\ ingest.pc = "idle"
  BY Idle DEF Init, NoIngest
<1>3. sweeps \in 0..(OrphanEvery - 1) /\ sinceOk \in 0..CoverageEvery
  BY PeriodsAssumption DEF Init
<1>4. budget \in Scenes
  BY BudgetsAssumption DEF Init
<1>5. age \in [Times -> 0..3]
  BY DEF Init
<1>. QED
  BY <1>1, <1>2, <1>3, <1>4, <1>5 DEF Init, TypeOK

\* An observation in hand is one, and its moment a moment.
LEMMA InHand ==
  ASSUME TypeOK, ingest.pc # "idle"
  PROVE  ingest.obs \in Obs /\ TimeOf[ingest.obs] \in Times
BY Tables DEF TypeOK

LEMMA TypeIngest == TypeOK /\ Ingesting => TypeOK'
<1> SUFFICES ASSUME TypeOK, Ingesting PROVE TypeOK'
  OBVIOUS
<1> USE DEF TypeOK, rowVars, fileVars, sweepVars, policyVars, worldVars
<1>1. ASSUME NEW o \in Obs, Receive(o) PROVE TypeOK'
  <2>1. budget' \in Scenes
    BY <1>1 DEF Receive, Scenes
  <2>2. ingest' \in Ingests /\ (ingest'.pc # "idle" => ingest'.obs \in Obs)
    <3>1. CASE KeepsFrame(o)
      BY <1>1, <3>1 DEF Receive, NoIngest, Ingests
    <3>2. CASE ~KeepsFrame(o)
      BY <1>1, <3>2 DEF Receive, NoIngest, Ingests
    <3>. QED
      BY <3>1, <3>2
  <2>. QED
    BY <1>1, <2>1, <2>2 DEF Receive
<1>2. CASE SaveFrame
  <2>1. ingest.obs \in Obs /\ TimeOf[ingest.obs] \in Times
    BY <1>2, InHand DEF SaveFrame
  <2>2. budget' \in Scenes
    BY <1>2, SpendType DEF SaveFrame, Fails, Works
  <2>3. ingest' \in Ingests /\ ingest'.obs = ingest.obs
    BY <1>2 DEF SaveFrame, Ingests
  <2>. QED
    BY <1>2, <2>1, <2>2, <2>3 DEF SaveFrame
<1>3. CASE Stamp
  <2>1. ingest' \in Ingests /\ ingest'.obs = ingest.obs
    BY <1>3 DEF Stamp, Ingests
  <2>. QED
    BY <1>3, <2>1 DEF Stamp
<1>4. CASE Insert
  <2>1. ingest' \in Ingests /\ ingest'.pc = "idle"
    BY <1>4, Idle DEF Insert, NoIngest
  <2>2. budget' \in Scenes
    BY <1>4, SpendType DEF Insert, Fails, Works
  <2>3. ingest.obs \in Obs /\ ingest.keep \in {"short", "long"}
    BY <1>4, InHand DEF Insert, Ingests
  <2>4. raced' \subseteq Obs /\ rows' \subseteq Obs /\ framed' \subseteq rows'
    BY <1>4, <2>3 DEF Insert
  <2>5. stamp' \in [Obs -> {"short", "long"}]
    BY <1>4, <2>3 DEF Insert
  <2>. QED
    BY <1>4, <2>1, <2>2, <2>4, <2>5 DEF Insert
<1>. QED
  BY <1>1, <1>2, <1>3, <1>4 DEF Ingesting

\* A job that is set up anew has its type.
LEMMA BeganType ==
  ASSUME NEW why \in {"erase", "expire", "coverage"}, NEW S \in SUBSET Times
  PROVE  Began(why, S) \in Runs
BY Tables DEF Began, Job, Runs

\* A job keeps its type when a batch falls to it, when it moves on to the next
\* table and when a file is unlinked.
LEMMA RunParts ==
  ASSUME NEW r \in Runs
  PROVE  /\ \A S \in SUBSET Obs : [r EXCEPT !.crops = S] \in Runs
         /\ \A S \in SUBSET Times : [r EXCEPT !.frames = S] \in Runs
         /\ \A n \in 1..(Len(Domains) + 1) : [r EXCEPT !.dom = n] \in Runs
         /\ \A n \in Nat : [r EXCEPT !.lost = n] \in Runs
<1>1. \A S \in SUBSET Obs : [r EXCEPT !.crops = S] \in Runs
  BY DEF Runs
<1>2. \A S \in SUBSET Times : [r EXCEPT !.frames = S] \in Runs
  BY DEF Runs
<1>3. \A n \in 1..(Len(Domains) + 1) : [r EXCEPT !.dom = n] \in Runs
  BY DEF Runs
<1>4. \A n \in Nat : [r EXCEPT !.lost = n] \in Runs
  BY DEF Runs
<1>. QED
  BY <1>1, <1>2, <1>3, <1>4

\* A plan keeps its type as the sweep learns more.
LEMMA PlanParts ==
  ASSUME NEW r \in Plans
  PROVE  /\ \A n \in Nat : [r EXCEPT !.rows = n] \in Plans
         /\ \A S \in SUBSET Times : [r EXCEPT !.times = S] \in Plans
         /\ \A S \in SUBSET Times : [r EXCEPT !.holes = S] \in Plans
         /\ \A b \in BOOLEAN : [r EXCEPT !.honest = b] \in Plans
BY DEF Plans

\* So has a coverage sweep, with what it learned.
LEMMA CoverageType ==
  ASSUME TypeOK
  PROVE  [Began("coverage", plan.holes) EXCEPT !.honest = plan.honest, !.counted = plan.rows]
         \in Runs
<1>1. plan.holes \in SUBSET Times /\ plan.honest \in BOOLEAN /\ plan.rows \in Nat
  BY DEF TypeOK, Plans
<1>2. Began("coverage", plan.holes) \in Runs
  BY <1>1, BeganType
<1>3. \A r \in Runs : \A b \in BOOLEAN : [r EXCEPT !.honest = b] \in Runs
  BY DEF Runs
<1>4. \A r \in Runs : \A n \in Nat : [r EXCEPT !.counted = n] \in Runs
  BY DEF Runs
<1>. QED
  BY <1>1, <1>2, <1>3, <1>4

LEMMA TypeDelete == ASSUME TypeOK, NEW j \in Jobs, Deleting(j) PROVE TypeOK'
<1> USE DEF TypeOK, rowVars, fileVars, sweepVars, policyVars, worldVars
<1>1. CASE DeleteBatch(j)
  <2>1. PICK S \in SUBSET Doomed(j) :
          /\ rows' = rows \ S /\ framed' = framed \ S
          /\ stamp' = [o \in Obs |-> IF o \in S THEN "long" ELSE stamp[o]]
          /\ raced' = raced \ S /\ bereft' = bereft \ S
          /\ job' = [job EXCEPT ![j].crops = S, ![j].frames = {TimeOf[o] : o \in S \cap framed},
                                ![j].lost = @ + Cardinality({o \in S : Counted(o)})]
    BY <1>1 DEF DeleteBatch
  <2>2. S \in SUBSET Obs /\ {TimeOf[o] : o \in S \cap framed} \in SUBSET Times
    BY Tables DEF Doomed
  <2>3. Cardinality({o \in S : Counted(o)}) \in Nat
    BY <2>2, Countable
  <2>4. job' \in [Jobs -> Runs]
    <3> DEFINE F == {TimeOf[o] : o \in S \cap framed}
               n == job[j].lost + Cardinality({o \in S : Counted(o)})
               r1 == [job[j] EXCEPT !.crops = S]
               r2 == [r1 EXCEPT !.frames = F]
               r3 == [r2 EXCEPT !.lost = n]
    <3>1. n \in Nat
      BY <2>3 DEF Runs
    <3>2. r1 \in Runs
      BY <2>2, RunParts
    <3>3. r2 \in Runs
      BY <2>2, <3>2, RunParts
    <3>4. r3 \in Runs
      BY <3>1, <3>3, RunParts
    <3>5. job' = [job EXCEPT ![j] = r3]
      BY <2>1
    <3>. QED
      BY <3>4, <3>5
  <2>. QED
    BY <1>1, <2>1, <2>2, <2>4 DEF DeleteBatch
<1>2. CASE NextTable(j)
  <2>1. job[j].dom \in 1..Len(Domains)
    BY <1>2, Tables DEF NextTable, Swept, Unlinked, Runs
  <2>2. job' \in [Jobs -> Runs]
    <3>1. job[j].dom + 1 \in 1..(Len(Domains) + 1)
      BY <2>1, Tables
    <3>2. job' = [job EXCEPT ![j] = [job[j] EXCEPT !.dom = job[j].dom + 1]]
      BY <1>2 DEF NextTable
    <3>. QED
      BY <3>1, <3>2, RunParts
  <2>. QED
    BY <1>2, <2>2 DEF NextTable
<1>3. CASE UnlinkCrop(j)
  <2>1. PICK o \in job[j].crops :
          /\ job' = [job EXCEPT ![j].crops = @ \ {o}]
          /\ crops' \subseteq crops /\ (Works \/ Fails)
    BY <1>3 DEF UnlinkCrop
  <2>2. job' \in [Jobs -> Runs]
    <3>1. job[j].crops \ {o} \in SUBSET Obs
      BY DEF Runs
    <3>2. job' = [job EXCEPT ![j] = [job[j] EXCEPT !.crops = job[j].crops \ {o}]]
      BY <2>1
    <3>. QED
      BY <3>1, <3>2, RunParts
  <2>3. budget' \in Scenes
    BY <2>1, SpendType DEF Fails, Works
  <2>. QED
    BY <1>3, <2>1, <2>2, <2>3 DEF UnlinkCrop
<1>4. CASE UnlinkFrame(j)
  <2>1. PICK t \in job[j].frames :
          /\ job' = [job EXCEPT ![j].frames = @ \ {t}]
          /\ frames' \subseteq frames /\ (Works \/ Fails)
    BY <1>4 DEF UnlinkFrame
  <2>2. job' \in [Jobs -> Runs]
    <3>1. job[j].frames \ {t} \in SUBSET Times
      BY DEF Runs
    <3>2. job' = [job EXCEPT ![j] = [job[j] EXCEPT !.frames = job[j].frames \ {t}]]
      BY <2>1
    <3>. QED
      BY <3>1, <3>2, RunParts
  <2>3. budget' \in Scenes
    BY <2>1, SpendType DEF Fails, Works
  <2>. QED
    BY <1>4, <2>1, <2>2, <2>3 DEF UnlinkFrame
<1>. QED
  BY <1>1, <1>2, <1>3, <1>4 DEF Deleting

LEMMA TypeErase == TypeOK /\ (RequestErase \/ EndErase) => TypeOK'
<1> SUFFICES ASSUME TypeOK, RequestErase \/ EndErase PROVE TypeOK'
  OBVIOUS
<1> USE DEF TypeOK, rowVars, fileVars, sweepVars, policyVars, worldVars
<1>1. CASE RequestErase
  <2>1. job' \in [Jobs -> Runs]
    <3>1. PICK W \in SUBSET Times : job' = [job EXCEPT !["request"] = Began("erase", W)]
      BY <1>1 DEF RequestErase
    <3>. QED
      BY <3>1, BeganType
  <2>2. budget' \in Scenes
    BY <1>1, SpendType DEF RequestErase
  <2>. QED
    BY <1>1, <2>1, <2>2 DEF RequestErase
<1>2. CASE EndErase
  <2>1. budget' \in Scenes
    BY <1>2, SpendType DEF EndErase, Broken, Fails, Works
  <2>. QED
    BY <1>2, <2>1, Idle DEF EndErase
<1>. QED
  BY <1>1, <1>2

LEMMA TypeSweep == TypeOK /\ Sweeping => TypeOK'
<1> SUFFICES ASSUME TypeOK, Sweeping PROVE TypeOK'
  OBVIOUS
<1> USE DEF TypeOK, rowVars, fileVars, sweepVars, policyVars, worldVars
<1>1. CASE StartPass
  BY <1>1, BeganType DEF StartPass
<1>2. CASE EndExpiry
  <2>1. budget' \in Scenes
    BY <1>2, SpendType DEF EndExpiry, Broken, Fails, Works
  <2>2. sweeps' \in 0..(OrphanEvery - 1) /\ sinceOk' \in 0..CoverageEvery
    BY <1>2, PeriodsAssumption DEF EndExpiry
  <2>. QED
    BY <1>2, <2>1, <2>2, Idle DEF EndExpiry
<1>3. CASE Spans
  <2> DEFINE counted == {o \in rows : Counted(o)}
             when == {TimeOf[o] : o \in counted}
             span == IF when = {} THEN {} ELSE Times \cap (Min(when)..Max(when))
             times == {t \in span : Settled(t)}
  <2>1. budget' \in Scenes
    BY <1>3, SpendType DEF Spans, Fails, Works
  <2>2. Cardinality(counted) \in Nat
    BY Countable
  <2>3. times \subseteq Times
    OBVIOUS
  <2>4. \/ plan' = [[NoPlan EXCEPT !.rows = Cardinality(counted)] EXCEPT !.times = times]
        \/ plan' = plan
    BY <1>3 DEF Spans
  <2>5. plan' \in Plans
    <3> HIDE DEF counted, times
    <3> DEFINE r1 == [NoPlan EXCEPT !.rows = Cardinality(counted)]
               r2 == [r1 EXCEPT !.times = times]
    <3>1. r1 \in Plans
      BY <2>2, Idle, PlanParts
    <3>2. r2 \in Plans
      BY <2>3, <3>1, PlanParts
    <3>. QED
      BY <2>4, <3>2
  <2>. QED
    BY <1>3, <2>1, <2>5, PeriodsAssumption DEF Spans
<1>4. CASE Ask
  <2>1. budget' \in Scenes
    BY <1>4, SpendType DEF Ask, Fails, Works
  <2>2. plan' \in Plans
    <3> DEFINE H == plan.times \ {t \in footage : age[t] >= 1}
               r1 == [plan EXCEPT !.holes = plan.times]
    <3>1. plan.times \subseteq Times /\ H \subseteq Times
      BY DEF Plans
    <3>2. \/ plan' = plan
          \/ plan' = [plan EXCEPT !.holes = H]
          \/ plan' = [r1 EXCEPT !.honest = FALSE]
      BY <1>4 DEF Ask
    <3>3. r1 \in Plans /\ [plan EXCEPT !.holes = H] \in Plans
      BY <3>1, PlanParts
    <3>4. [r1 EXCEPT !.honest = FALSE] \in Plans
      BY <3>3, PlanParts
    <3>. QED
      BY <3>2, <3>3, <3>4
  <2>. QED
    BY <1>4, <2>1, <2>2 DEF Ask
<1>5. CASE Count
  <2>1. budget' \in Scenes
    BY <1>5, SpendType DEF Count, Fails, Works
  <2>2. job' \in [Jobs -> Runs]
    BY <1>5, CoverageType DEF Count
  <2>3. bereft' \subseteq Obs
    BY <1>5 DEF Count
  <2>. QED
    BY <1>5, <2>1, <2>2, <2>3, PeriodsAssumption DEF Count
<1>6. CASE EndPurge
  <2>1. budget' \in Scenes
    BY <1>6, SpendType DEF EndPurge, Broken, Fails, Works
  <2>. QED
    BY <1>6, <2>1, Idle DEF EndPurge
<1>7. CASE ExpireFrames
  <2>1. budget' \in Scenes
    BY <1>7, SpendType DEF ExpireFrames, Fails, Works
  <2>. QED
    BY <1>7, <2>1, Idle DEF ExpireFrames
<1>8. CASE Snapshot
  <2>1. budget' \in Scenes
    BY <1>8, SpendType DEF Snapshot, Fails, Works
  <2>. QED
    BY <1>8, <2>1 DEF Snapshot
<1>9. CASE Walk
  <2>1. budget' \in Scenes
    BY <1>9, SpendType DEF Walk, Fails, Works
  <2>. QED
    BY <1>9, <2>1 DEF Walk
<1>10. CASE EndWalk
  BY <1>10 DEF EndWalk
<1>. QED
  BY <1>1, <1>2, <1>3, <1>4, <1>5, <1>6, <1>7, <1>8, <1>9, <1>10 DEF Sweeping

LEMMA TypePush == ASSUME TypeOK, NEW r \in Registrars, Push(r) \/ Restamp(r) \/ EndPush(r)
                  PROVE  TypeOK'
<1> USE DEF TypeOK, rowVars, fileVars, sweepVars, policyVars, worldVars
<1>1. CASE Push(r)
  <2>1. budget' \in Scenes
    BY <1>1, SpendType DEF Push
  <2>2. PICK keep \in {"short", "long"} :
          /\ policy' = keep
          /\ IF keep = policy
               THEN UNCHANGED <<push, unsettled>>
               ELSE /\ push' = [q \in Registrars |->
                         IF q = r THEN [pc |-> "restamp", keep |-> keep, dom |-> 1,
                                        alone |-> Pushing = {}]
                                  ELSE [push[q] EXCEPT !.alone = FALSE]]
                    /\ unsettled' = (unsettled \/ Pushing # {})
    BY <1>1 DEF Push
  <2>3. push' \in [Registrars -> Pushes]
    <3>1. [pc |-> "restamp", keep |-> keep, dom |-> 1, alone |-> Pushing = {}] \in Pushes
      BY Tables DEF Pushes
    <3>2. \A q \in Registrars : [push[q] EXCEPT !.alone = FALSE] \in Pushes
      BY DEF Pushes
    <3>. QED
      BY <2>2, <3>1, <3>2
  <2>4. unsettled' \in BOOLEAN
    BY <2>2
  <2>. QED
    BY <1>1, <2>1, <2>2, <2>3, <2>4 DEF Push
<1>2. CASE Restamp(r)
  <2>1. push' \in [Registrars -> Pushes]
    <3>1. CASE push' = push
      BY <3>1
    <3>2. CASE push' = [push EXCEPT ![r].dom = @ + 1]
      <4>1. push[r].dom + 1 \in 1..(Len(Domains) + 1)
        BY <1>2, Tables DEF Restamp, Pushes
      <4>2. [push[r] EXCEPT !.dom = push[r].dom + 1] \in Pushes
        BY <4>1 DEF Pushes
      <4>. QED
        BY <3>2, <4>2
    <3>. QED
      BY <1>2, <3>1, <3>2 DEF Restamp
  <2>2. stamp' \in [Obs -> {"short", "long"}]
    BY <1>2 DEF Restamp, Pushes
  <2>3. raced' \subseteq Obs
    BY <1>2 DEF Restamp
  <2>. QED
    BY <1>2, <2>1, <2>2, <2>3 DEF Restamp
<1>3. CASE EndPush(r)
  <2>1. budget' \in Scenes
    BY <1>3, SpendType DEF EndPush, Fails, Works
  <2>2. unsettled' \in BOOLEAN
    BY <1>3 DEF EndPush
  <2>. QED
    BY <1>3, <2>1, <2>2, Idle DEF EndPush
<1>. QED
  BY <1>1, <1>2, <1>3

LEMMA TypeWorld ==
  TypeOK /\ (Crash \/ \E t \in Times : Age(t) \/ LoseFootage(t)) => TypeOK'
<1> SUFFICES ASSUME TypeOK, Crash \/ \E t \in Times : Age(t) \/ LoseFootage(t) PROVE TypeOK'
  OBVIOUS
<1> USE DEF TypeOK, rowVars, fileVars, sweepVars, policyVars, worldVars
<1>1. ASSUME NEW t \in Times, Age(t) PROVE TypeOK'
  BY <1>1 DEF Age
<1>2. ASSUME NEW t \in Times, LoseFootage(t) PROVE TypeOK'
  <2>1. budget' \in Scenes
    BY <1>2, SpendType DEF LoseFootage
  <2>. QED
    BY <1>2, <2>1 DEF LoseFootage
<1>3. CASE Crash
  <2>1. budget' \in Scenes
    BY <1>3, SpendType DEF Crash
  <2>2. ingest'.pc = "idle"
    BY <1>3 DEF Crash, NoIngest
  <2>. QED
    BY <1>3, <2>1, <2>2, Idle, PeriodsAssumption DEF Crash
<1>. QED
  BY <1>1, <1>2, <1>3

LEMMA TypeStep == TypeOK /\ [Next]_vars => TypeOK'
<1> SUFFICES ASSUME TypeOK, [Next]_vars PROVE TypeOK'
  OBVIOUS
<1>1. CASE UNCHANGED vars
  BY <1>1 DEF TypeOK, vars, rowVars, fileVars, sweepVars, policyVars, worldVars
<1>. QED
  BY <1>1, TypeIngest, TypeErase, TypeSweep, TypeDelete, TypePush, TypeWorld DEF Next

\* Every variable of the index keeps its type, for any observations and tables.
THEOREM IndexTypeCorrect == Spec => []TypeOK
BY TypeInit, TypeStep, PTL DEF Spec
-----------------------------------------------------------------------------
\* Moments are no observations, and every observation has its moment.
LEMMA Apart == Times \cap Obs = {} /\ \A o \in Obs : TimeOf[o] \in Times
BY ObsAssumption DEF Times

\* What the orphan sweep has decided to unlink is not in hand, nor its frame.
LEMMA NotInHand ==
  ASSUME TypeOK, IngestInv, TodoInv, ingest.pc # "idle"
  PROVE  ingest.obs \notin todo /\ TimeOf[ingest.obs] \notin todo
<1>1. ingest.obs \in Obs /\ TimeOf[ingest.obs] \in Times /\ TimeOf[ingest.obs] \notin Obs
  BY InHand, Apart
<1>2. age[TimeOf[ingest.obs]] = 0
  BY DEF IngestInv
<1>. QED
  BY <1>1, <1>2 DEF TodoInv, OldEnough

LEMMA IndexInit == Init => IndexInv
<1> SUFFICES ASSUME Init PROVE IndexInv
  OBVIOUS
<1>1. TypeOK
  BY TypeInit
<1>2. Received /\ IngestInv /\ RowsKeepImages /\ TodoInv
  BY DEF Init, NoIngest, Received, IngestInv, RowsKeepImages, TodoInv
<1>3. CropsInv /\ ScopeInv /\ FramesInv
  BY DEF Init, NoJob, Job, Jobs, CropsInv, ScopeInv, FramesInv, NoIngest
<1>4. PlanInv
  BY DEF Init, NoJob, Job, Jobs, NoPlan, PlanInv
<1>. QED
  BY <1>1, <1>2, <1>3, <1>4 DEF IndexInv

\* A new observation is in nobody's hands.
LEMMA InvReceive == ASSUME IndexInv, TypeOK', NEW o \in Obs, Receive(o) PROVE IndexInv'
<1> USE DEF IndexInv, rowVars, fileVars, sweepVars, policyVars, worldVars
<1>1. /\ o \notin received /\ received' = received \cup {o} /\ age[TimeOf[o]] = 0
      /\ crops \subseteq crops' /\ crops' \subseteq crops \cup {o}
      /\ bereft \subseteq bereft'
      /\ TimeOf[o] \in job["request"].scope => o \in bereft'
      /\ UNCHANGED <<rows, framed, frames, job, plan, todo, age, footage>>
  BY DEF Receive
<1>2. \/ ingest' = NoIngest
      \/ ingest'.pc # "idle" /\ ingest'.obs = o /\ ~ingest'.frame /\ o \in crops'
  <2>1. CASE ingest' = ingest
    BY <2>1 DEF Receive, IngestInv
  <2>2. CASE KeepsFrame(o)
    BY <2>1, <2>2 DEF Receive, NoIngest
  <2>3. CASE ~KeepsFrame(o)
    BY <2>1, <2>3 DEF Receive, NoIngest
  <2>. QED
    BY <2>1, <2>2, <2>3
<1>3. o \notin rows /\ \A j \in Jobs : o \notin job[j].crops
  BY <1>1 DEF Received, CropsInv
<1>4. Received' /\ IngestInv'
  BY <1>1, <1>2, <1>3 DEF Received, IngestInv, NoIngest
<1>5. CropsInv'
  BY <1>1, <1>2, <1>3 DEF CropsInv, NoIngest
<1>6. ScopeInv' /\ FramesInv' /\ PlanInv'
  BY <1>1, <1>2 DEF ScopeInv, FramesInv, PlanInv, NoIngest
<1>7. TodoInv' /\ RowsKeepImages'
  BY <1>1 DEF TodoInv, OldEnough, RowsKeepImages
<1>. QED
  BY <1>4, <1>5, <1>6, <1>7

\* The frame of the moment in hand is written, or the row will name none.
LEMMA InvSaveFrame == ASSUME IndexInv, TypeOK', SaveFrame PROVE IndexInv'
<1> USE DEF IndexInv, rowVars, fileVars, sweepVars, policyVars, worldVars
<1>1. /\ ingest.pc # "idle" /\ ingest'.pc # "idle" /\ ingest'.obs = ingest.obs
      /\ ingest'.frame => ingest.frame \/ TimeOf[ingest.obs] \in frames'
      /\ frames \subseteq frames'
      /\ UNCHANGED <<rows, framed, crops, received, job, plan, todo, age, footage, bereft>>
  BY DEF SaveFrame, TypeOK, Ingests
<1>2. Received' /\ CropsInv' /\ ScopeInv' /\ FramesInv'
  BY <1>1 DEF Received, CropsInv, ScopeInv, FramesInv
<1>3. IngestInv'
  BY <1>1 DEF IngestInv
<1>4. PlanInv' /\ TodoInv' /\ RowsKeepImages'
  BY <1>1 DEF PlanInv, TodoInv, OldEnough, RowsKeepImages
<1>. QED
  BY <1>2, <1>3, <1>4

LEMMA InvStamp == ASSUME IndexInv, TypeOK', Stamp PROVE IndexInv'
<1> USE DEF IndexInv, rowVars, fileVars, sweepVars, policyVars, worldVars
<1>1. /\ ingest.pc # "idle" /\ ingest'.pc # "idle" /\ ingest'.obs = ingest.obs
      /\ ingest'.frame = ingest.frame
      /\ UNCHANGED <<rows, framed, crops, frames, received, job, plan, todo, age, footage, bereft>>
  BY DEF Stamp, TypeOK, Ingests
<1>2. Received' /\ IngestInv' /\ CropsInv' /\ ScopeInv'
  BY <1>1 DEF Received, IngestInv, CropsInv, ScopeInv
<1>3. FramesInv' /\ PlanInv' /\ TodoInv' /\ RowsKeepImages'
  BY <1>1 DEF FramesInv, PlanInv, TodoInv, OldEnough, RowsKeepImages
<1>. QED
  BY <1>2, <1>3

\* The row that appears has its images: nobody has named them for deletion.
LEMMA InvInsert == ASSUME IndexInv, TypeOK', Insert PROVE IndexInv'
<1> USE DEF IndexInv, rowVars, fileVars, sweepVars, policyVars, worldVars
<1> DEFINE o == ingest.obs
<1>1. /\ ingest.pc # "idle" /\ ingest' = NoIngest
      /\ rows \subseteq rows' /\ rows' \subseteq rows \cup {o}
      /\ framed \subseteq framed' /\ framed' \subseteq framed \cup {o}
      /\ o \in framed' \ framed => ingest.frame
      /\ UNCHANGED <<crops, frames, received, job, plan, todo, age, footage, bereft>>
  BY DEF Insert
<1>2. /\ o \in Obs /\ TimeOf[o] \in Times /\ o \in received \cap crops
      /\ age[TimeOf[o]] = 0 /\ (ingest.frame => TimeOf[o] \in frames \/ o \in bereft)
  BY <1>1, InHand DEF IngestInv
<1>3. o \notin todo /\ TimeOf[o] \notin todo
  BY <1>1, NotInHand
<1>4. \A j \in Jobs : o \notin job[j].crops
  BY <1>1 DEF CropsInv
<1> HIDE DEF o
<1>5. Received' /\ IngestInv'
  BY <1>1, <1>2 DEF Received, IngestInv, NoIngest
<1>6. CropsInv'
  BY <1>1, <1>4 DEF CropsInv, NoIngest
<1>7. ScopeInv'
  <2>1. TimeOf[o] \in job["request"].scope => o \in bereft
    BY <1>1 DEF ScopeInv, o
  <2>2. TimeOf[o] \notin job["timer"].scope
    BY <1>2 DEF ScopeInv
  <2>. QED
    BY <1>1, <2>1, <2>2 DEF ScopeInv, NoIngest, Jobs
<1>8. FramesInv'
  <2>1. TimeOf[o] \notin job["timer"].frames
    BY <1>2 DEF FramesInv
  <2>. QED
    BY <1>1, <2>1 DEF FramesInv
<1>9. PlanInv'
  BY <1>1 DEF PlanInv
<1>10. TodoInv'
  BY <1>1, <1>3 DEF TodoInv, OldEnough
<1>11. RowsKeepImages'
  BY <1>1, <1>2 DEF RowsKeepImages
<1>. QED
  BY <1>5, <1>6, <1>7, <1>8, <1>9, <1>10, <1>11
\* An erasure makes bereft whatever of its moments was received.
LEMMA InvErase == ASSUME IndexInv, TypeOK', RequestErase \/ EndErase PROVE IndexInv'
<1> USE DEF IndexInv, rowVars, fileVars, sweepVars, policyVars, worldVars
<1>1. CASE RequestErase
  <2>1. PICK W \in SUBSET Times :
          /\ job' = [job EXCEPT !["request"] = Began("erase", W)]
          /\ bereft' = bereft \cup {o \in received : TimeOf[o] \in W}
    BY <1>1 DEF RequestErase
  <2>2. /\ job'["request"] = Began("erase", W) /\ job'["timer"] = job["timer"]
        /\ UNCHANGED <<rows, framed, crops, frames, received, ingest, plan, todo, age, footage>>
    BY <1>1, <2>1 DEF RequestErase, TypeOK, Jobs
  <2>3. Received' /\ IngestInv' /\ CropsInv'
    BY <2>1, <2>2 DEF Received, IngestInv, CropsInv, Jobs, Began, Job
  <2>4. ScopeInv'
    BY <2>1, <2>2 DEF ScopeInv, Jobs, Began, Job, Received, IngestInv
  <2>5. FramesInv' /\ PlanInv'
    BY <2>1, <2>2 DEF FramesInv, PlanInv, Began, Job
  <2>6. TodoInv' /\ RowsKeepImages'
    BY <2>1, <2>2 DEF TodoInv, OldEnough, RowsKeepImages
  <2>. QED
    BY <2>3, <2>4, <2>5, <2>6
<1>2. CASE EndErase
  <2>1. /\ job'["request"] = NoJob /\ job'["timer"] = job["timer"]
        /\ UNCHANGED <<rows, framed, crops, frames, received, ingest, plan, todo, age, footage,
                        bereft>>
    BY <1>2 DEF EndErase, TypeOK, Jobs
  <2>2. Received' /\ IngestInv' /\ CropsInv' /\ ScopeInv'
    BY <2>1 DEF Received, IngestInv, CropsInv, ScopeInv, Jobs, NoJob, Job
  <2>3. FramesInv' /\ PlanInv' /\ TodoInv' /\ RowsKeepImages'
    BY <2>1 DEF FramesInv, PlanInv, TodoInv, OldEnough, RowsKeepImages, NoJob, Job
  <2>. QED
    BY <2>2, <2>3
<1>. QED
  BY <1>1, <1>2

\* What a batch changes of its job, and what it leaves.
LEMMA Batch ==
  ASSUME TypeOK, NEW j \in Jobs, NEW S \in SUBSET Obs,
         job' = [job EXCEPT ![j].crops = S, ![j].frames = {TimeOf[o] : o \in S \cap framed},
                           ![j].lost = @ + Cardinality({o \in S : Counted(o)})]
  PROVE  /\ job'[j].crops = S /\ job'[j].frames = {TimeOf[o] : o \in S \cap framed}
         /\ job'[j].lost = job[j].lost + Cardinality({o \in S : Counted(o)})
         /\ \A i \in Jobs : /\ job'[i].scope = job[i].scope /\ job'[i].why = job[i].why
                            /\ job'[i].honest = job[i].honest /\ job'[i].counted = job[i].counted
         /\ \A i \in Jobs \ {j} : job'[i] = job[i]
<1> DEFINE F == {TimeOf[o] : o \in S \cap framed}
           n == job[j].lost + Cardinality({o \in S : Counted(o)})
           r1 == [job[j] EXCEPT !.crops = S]
           r2 == [r1 EXCEPT !.frames = F]
           r3 == [r2 EXCEPT !.lost = n]
<1>1. job[j] \in Runs
  BY DEF TypeOK
<1>2. /\ r1.crops = S /\ r1.scope = job[j].scope /\ r1.why = job[j].why
      /\ r1.honest = job[j].honest /\ r1.counted = job[j].counted
  BY <1>1 DEF Runs
<1>3. r1 \in Runs
  BY <1>1, RunParts
<1>4. /\ r2.frames = F /\ r2.crops = r1.crops /\ r2.scope = r1.scope /\ r2.why = r1.why
      /\ r2.honest = r1.honest /\ r2.counted = r1.counted
  <2> HIDE DEF r1, F
  <2>. QED
    BY <1>3 DEF Runs
<1>5. r2 \in Runs
  <2>1. F \in SUBSET Times
    BY Apart
  <2>. QED
    BY <1>3, <2>1, RunParts
<1>6. /\ r3.frames = r2.frames /\ r3.crops = r2.crops /\ r3.scope = r2.scope
      /\ r3.why = r2.why /\ r3.honest = r2.honest /\ r3.counted = r2.counted /\ r3.lost = n
  <2> HIDE DEF r2, n
  <2>. QED
    BY <1>5 DEF Runs
<1>7. job' = [job EXCEPT ![j] = r3]
  OBVIOUS
<1>8. job'[j] = r3 /\ \A i \in Jobs \ {j} : job'[i] = job[i]
  <2> HIDE DEF r3
  <2>. QED
    BY <1>7 DEF TypeOK
<1>9. /\ r3.crops = S /\ r3.frames = F /\ r3.lost = n /\ r3.scope = job[j].scope /\ r3.why = job[j].why
      /\ r3.honest = job[j].honest /\ r3.counted = job[j].counted
  <2> HIDE DEF r1, r2, r3, F, n
  <2>. QED
    BY <1>2, <1>4, <1>6
<1> HIDE DEF r1, r2, r3
<1>10. job'[j].crops = S /\ job'[j].frames = F /\ job'[j].lost = n
  BY <1>8, <1>9
<1>11. ASSUME NEW i \in Jobs
       PROVE  /\ job'[i].scope = job[i].scope /\ job'[i].why = job[i].why
              /\ job'[i].honest = job[i].honest /\ job'[i].counted = job[i].counted
  <2>1. CASE i = j
    BY <1>8, <1>9, <2>1
  <2>2. CASE i # j
    BY <1>8, <2>2
  <2>. QED
    BY <2>1, <2>2
<1>. QED
  BY <1>8, <1>10, <1>11

\* A batch leaves its tables before its files go: its rows never come back.
LEMMA InvDeleteBatch ==
  ASSUME IndexInv, TypeOK', NEW j \in Jobs, DeleteBatch(j) PROVE IndexInv'
<1> USE DEF IndexInv, rowVars, fileVars, sweepVars, policyVars, worldVars
<1>1. PICK S \in SUBSET Doomed(j) :
        /\ rows' = rows \ S /\ framed' = framed \ S /\ bereft' = bereft \ S
        /\ job' = [job EXCEPT ![j].crops = S, ![j].frames = {TimeOf[o] : o \in S \cap framed},
                              ![j].lost = @ + Cardinality({o \in S : Counted(o)})]
  BY DEF DeleteBatch
<1>2. UNCHANGED <<crops, frames, received, ingest, plan, todo, age, footage>>
  BY DEF DeleteBatch
<1>3. /\ S \subseteq rows /\ S \subseteq received
      /\ \A o \in S : o \in Obs /\ TimeOf[o] \in Times /\ age[TimeOf[o]] \in 0..3
      /\ \A o \in S : IF job[j].why = "expire" THEN age[TimeOf[o]] >= 2
                                              ELSE TimeOf[o] \in job[j].scope
      /\ ingest.pc # "idle" => ingest.obs \notin S
  BY Apart DEF Doomed, Expired, Deadline, Received, IngestInv, TypeOK
<1>4. /\ job'[j].crops = S /\ job'[j].frames = {TimeOf[o] : o \in S \cap framed}
      /\ \A i \in Jobs : /\ job'[i].scope = job[i].scope /\ job'[i].why = job[i].why
                         /\ job'[i].honest = job[i].honest
      /\ \A i \in Jobs \ {j} : job'[i] = job[i]
  BY <1>1, <1>3, Batch DEF TypeOK
<1>5. Received' /\ IngestInv'
  BY <1>1, <1>2, <1>3 DEF Received, IngestInv
<1>6. CropsInv'
  BY <1>1, <1>2, <1>3, <1>4 DEF CropsInv
<1>7. ScopeInv'
  BY <1>1, <1>2, <1>3, <1>4 DEF ScopeInv, Jobs
<1>8. FramesInv'
  <2>1. CASE j = "request"
    <3>1. job'["request"].frames \subseteq job'["request"].scope
      BY <2>1, <1>3, <1>4 DEF ScopeInv, Jobs
    <3>2. job'["timer"] = job["timer"]
      BY <2>1, <1>4 DEF Jobs
    <3>. QED
      BY <3>1, <3>2, <1>1, <1>2 DEF FramesInv
  <2>2. CASE j = "timer"
    <3>1. ASSUME NEW o \in S
          PROVE  \/ age[TimeOf[o]] >= 2
                 \/ TimeOf[o] \in job["timer"].scope
      BY <2>2, <1>3
    <3>2. \A o \in S : age[TimeOf[o]] >= 1
      BY <3>1, <1>3 DEF ScopeInv
    <3>3. ASSUME NEW o \in S, NEW q \in framed \ S, TimeOf[q] = TimeOf[o]
          PROVE  age[TimeOf[o]] >= 2 \/ q \in bereft \ S
      BY <3>1, <3>3 DEF ScopeInv, TypeOK, Jobs
    <3>4. /\ job'["request"] = job["request"]
          /\ job'["timer"].frames = {TimeOf[o] : o \in S \cap framed}
      BY <2>2, <1>4 DEF Jobs
    <3>5. ASSUME NEW t \in job'["timer"].frames
          PROVE  age[t] >= 1 /\ (age[t] >= 2 \/ \A q \in framed' : TimeOf[q] = t => q \in bereft')
      <4>1. PICK o \in S : t = TimeOf[o]
        BY <3>4
      <4>. QED
        BY <4>1, <3>2, <3>3, <1>1
    <3>. QED
      BY <3>4, <3>5, <1>2 DEF FramesInv
  <2>. QED
    BY <2>1, <2>2 DEF Jobs
<1>9. PlanInv'
  BY <1>2, <1>4 DEF PlanInv, Jobs
<1>10. TodoInv' /\ RowsKeepImages'
  BY <1>1, <1>2 DEF TodoInv, OldEnough, RowsKeepImages
<1>. QED
  BY <1>5, <1>6, <1>7, <1>8, <1>9, <1>10
\* What is unlinked belongs to no row, or to a row whose frame may go.
LEMMA InvUnlink ==
  ASSUME IndexInv, TypeOK', NEW j \in Jobs, NextTable(j) \/ UnlinkCrop(j) \/ UnlinkFrame(j)
  PROVE  IndexInv'
<1> USE DEF IndexInv, rowVars, fileVars, sweepVars, policyVars, worldVars
<1>1. CASE NextTable(j)
  <2>1. /\ \A i \in Jobs : /\ job'[i].scope = job[i].scope /\ job'[i].why = job[i].why
                           /\ job'[i].honest = job[i].honest /\ job'[i].crops = job[i].crops
                           /\ job'[i].frames = job[i].frames
        /\ UNCHANGED <<rows, framed, crops, frames, received, ingest, plan, todo, age, footage,
                        bereft>>
    BY <1>1 DEF NextTable, TypeOK, Runs
  <2>2. Received' /\ IngestInv' /\ CropsInv' /\ ScopeInv'
    BY <2>1 DEF Received, IngestInv, CropsInv, ScopeInv, Jobs
  <2>3. FramesInv' /\ PlanInv' /\ TodoInv' /\ RowsKeepImages'
    BY <2>1 DEF FramesInv, PlanInv, TodoInv, OldEnough, RowsKeepImages, Jobs
  <2>. QED
    BY <2>2, <2>3
<1>2. CASE UnlinkCrop(j)
  <2>1. PICK o \in job[j].crops :
          job' = [job EXCEPT ![j].crops = @ \ {o}] /\ crops' \in {crops, crops \ {o}}
    BY <1>2 DEF UnlinkCrop
  <2>2. UNCHANGED <<rows, framed, frames, received, ingest, plan, todo, age, footage, bereft>>
    BY <1>2 DEF UnlinkCrop
  <2>3. \A i \in Jobs : /\ job'[i].scope = job[i].scope /\ job'[i].why = job[i].why
                        /\ job'[i].honest = job[i].honest /\ job'[i].crops \subseteq job[i].crops
                        /\ job'[i].frames = job[i].frames
    BY <2>1 DEF TypeOK, Runs
  <2>4. o \notin rows /\ (ingest.pc # "idle" => ingest.obs # o)
    BY <2>1 DEF CropsInv
  <2>5. Received' /\ IngestInv' /\ CropsInv'
    BY <2>1, <2>2, <2>3, <2>4 DEF Received, IngestInv, CropsInv
  <2>6. ScopeInv' /\ FramesInv' /\ PlanInv'
    BY <2>2, <2>3 DEF ScopeInv, FramesInv, PlanInv, Jobs
  <2>7. TodoInv' /\ RowsKeepImages'
    BY <2>1, <2>2, <2>4 DEF TodoInv, OldEnough, RowsKeepImages
  <2>. QED
    BY <2>5, <2>6, <2>7
<1>3. CASE UnlinkFrame(j)
  <2>1. PICK t \in job[j].frames :
          job' = [job EXCEPT ![j].frames = @ \ {t}] /\ frames' \in {frames, frames \ {t}}
    BY <1>3 DEF UnlinkFrame
  <2>2. UNCHANGED <<rows, framed, crops, received, ingest, plan, todo, age, footage, bereft>>
    BY <1>3 DEF UnlinkFrame
  <2>3. \A i \in Jobs : /\ job'[i].scope = job[i].scope /\ job'[i].why = job[i].why
                        /\ job'[i].honest = job[i].honest /\ job'[i].crops = job[i].crops
                        /\ job'[i].frames \subseteq job[i].frames
    BY <2>1 DEF TypeOK, Runs
  <2>4. /\ \A o \in framed : TimeOf[o] = t => o \in bereft \/ age[t] >= 2
        /\ ingest.pc # "idle" /\ TimeOf[ingest.obs] = t => ingest.obs \in bereft
    <3>1. CASE j = "request"
      BY <2>1, <3>1 DEF FramesInv, ScopeInv, TypeOK, Jobs
    <3>2. CASE j = "timer"
      BY <2>1, <3>2 DEF FramesInv, IngestInv
    <3>. QED
      BY <3>1, <3>2 DEF Jobs
  <2>5. Received' /\ CropsInv'
    BY <2>2, <2>3 DEF Received, CropsInv
  <2>6. IngestInv'
    BY <2>1, <2>2, <2>4 DEF IngestInv
  <2>7. ScopeInv' /\ FramesInv' /\ PlanInv'
    BY <2>2, <2>3 DEF ScopeInv, FramesInv, PlanInv, Jobs
  <2>8. TodoInv'
    BY <2>2 DEF TodoInv, OldEnough
  <2>9. RowsKeepImages'
    <3>1. \A o \in framed : TimeOf[o] \in Times /\ age[TimeOf[o]] \in 0..3
      BY Apart DEF TypeOK
    <3>. QED
      BY <2>1, <2>2, <2>4, <3>1 DEF RowsKeepImages
  <2>. QED
    BY <2>5, <2>6, <2>7, <2>8, <2>9
<1>. QED
  BY <1>1, <1>2, <1>3

\* The steps of a pass that delete nothing: they begin and end a job, ask, count.
LEMMA InvPass ==
  ASSUME IndexInv, TypeOK', StartPass \/ EndExpiry \/ Spans \/ Ask \/ EndPurge \/ EndWalk
  PROVE  IndexInv'
<1> USE DEF IndexInv, rowVars, fileVars, sweepVars, policyVars, worldVars
<1>1. /\ UNCHANGED <<rows, framed, crops, frames, received, ingest, todo, age, footage, bereft>>
      /\ job'["request"] = job["request"]
      /\ job'["timer"] \in {job["timer"], NoJob, Began("expire", {})}
  BY DEF StartPass, EndExpiry, Spans, Ask, EndPurge, EndWalk, TypeOK, Jobs
<1>2. Received' /\ IngestInv' /\ CropsInv' /\ ScopeInv'
  BY <1>1 DEF Received, IngestInv, CropsInv, ScopeInv, Jobs, NoJob, Began, Job
<1>3. FramesInv'
  BY <1>1 DEF FramesInv, NoJob, Began, Job
<1>4. TodoInv' /\ RowsKeepImages'
  BY <1>1 DEF TodoInv, OldEnough, RowsKeepImages
<1>5. PlanInv'
  <2>1. /\ \A t \in plan'.times \cup plan'.holes : age[t] >= 1
        /\ plan'.honest => plan'.holes \cap footage = {}
    <3>1. CASE plan' = plan
      BY <3>1 DEF PlanInv
    <3>2. CASE Spans /\ plan' # plan
      <4> DEFINE counted == {o \in rows : Counted(o)}
                 when == {TimeOf[o] : o \in counted}
                 span == IF when = {} THEN {} ELSE Times \cap (Min(when)..Max(when))
                 times == {t \in span : Settled(t)}
                 r1 == [NoPlan EXCEPT !.rows = Cardinality(counted)]
      <4>1. plan' = [r1 EXCEPT !.times = times]
        BY <3>2 DEF Spans
      <4>2. times \subseteq Times /\ \A t \in times : Settled(t)
        OBVIOUS
      <4>3. NoPlan \in Plans /\ NoPlan.holes = {}
        BY Idle DEF NoPlan
      <4>4. r1 \in Plans /\ r1.holes = {}
        BY <4>3, Countable, PlanParts DEF Plans, TypeOK
      <4>5. plan'.times = times /\ plan'.holes = {}
        <5> HIDE DEF r1, times
        <5>. QED
          BY <4>1, <4>4 DEF Plans
      <4>. QED
        <5> HIDE DEF times
        <5>. QED
          BY <4>2, <4>5 DEF Settled
    <3>3. CASE Ask /\ plan' # plan
      <4> DEFINE H == plan.times \ {t \in footage : age[t] >= 1}
                 r1 == [plan EXCEPT !.holes = plan.times]
      <4>1. plan' = [plan EXCEPT !.holes = H] \/ plan' = [r1 EXCEPT !.honest = FALSE]
        BY <3>3 DEF Ask
      <4>2. plan \in Plans /\ r1.times = plan.times /\ r1.holes = plan.times /\ r1 \in Plans
        BY PlanParts DEF TypeOK, Plans
      <4>3. CASE plan' = [plan EXCEPT !.holes = H]
        <5>1. plan'.times = plan.times /\ plan'.holes = H
          BY <4>2, <4>3 DEF Plans
        <5>. QED
          BY <5>1 DEF PlanInv
      <4>4. CASE plan' = [r1 EXCEPT !.honest = FALSE]
        <5>1. plan'.times = plan.times /\ plan'.holes = plan.times /\ ~plan'.honest
          <6> HIDE DEF r1
          <6>. QED
            BY <4>2, <4>4 DEF Plans
        <5>. QED
          BY <5>1 DEF PlanInv
      <4>. QED
        BY <4>1, <4>3, <4>4
    <3>. QED
      BY <3>1, <3>2, <3>3 DEF StartPass, EndExpiry, EndPurge, EndWalk
  <2>. QED
    BY <1>1, <2>1 DEF PlanInv, NoJob, Began, Job
<1>. QED
  BY <1>2, <1>3, <1>4, <1>5

\* The coverage sweep takes moments beyond the grace, and makes their rows bereft.
LEMMA InvCount == ASSUME IndexInv, TypeOK', Count PROVE IndexInv'
<1> USE DEF IndexInv, rowVars, fileVars, sweepVars, policyVars, worldVars
<1>1. UNCHANGED <<rows, framed, crops, frames, received, ingest, plan, todo, age, footage>>
  BY DEF Count
<1>2. CASE UNCHANGED <<job, bereft>>
  <2>1. Received' /\ IngestInv' /\ CropsInv' /\ ScopeInv'
    BY <1>1, <1>2 DEF Received, IngestInv, CropsInv, ScopeInv
  <2>2. FramesInv' /\ PlanInv' /\ TodoInv' /\ RowsKeepImages'
    BY <1>1, <1>2 DEF FramesInv, PlanInv, TodoInv, OldEnough, RowsKeepImages
  <2>. QED
    BY <2>1, <2>2
<1>3. ASSUME ~UNCHANGED <<job, bereft>> PROVE IndexInv'
  <2> DEFINE r0 == Began("coverage", plan.holes)
             r1 == [r0 EXCEPT !.honest = plan.honest]
             r2 == [r1 EXCEPT !.counted = plan.rows]
  <2>1. /\ job' = [job EXCEPT !["timer"] = r2]
        /\ bereft' = bereft \cup {o \in received : TimeOf[o] \in plan.holes}
    BY <1>3 DEF Count
  <2>2. plan \in Plans /\ job \in [Jobs -> Runs]
    BY DEF TypeOK
  <2>3. r0 \in Runs
    BY <2>2, BeganType DEF Plans
  <2>4. r0.crops = {} /\ r0.frames = {} /\ r0.scope = plan.holes /\ r0.why = "coverage"
    BY DEF Began, Job
  <2>5. /\ r1 \in Runs /\ r1.honest = plan.honest
        /\ r1.crops = r0.crops /\ r1.frames = r0.frames /\ r1.scope = r0.scope /\ r1.why = r0.why
    <3> HIDE DEF r0
    <3>. QED
      BY <2>2, <2>3 DEF Runs, Plans
  <2>6. /\ r2.honest = r1.honest
        /\ r2.crops = r1.crops /\ r2.frames = r1.frames /\ r2.scope = r1.scope /\ r2.why = r1.why
    <3> HIDE DEF r1
    <3>. QED
      BY <2>5 DEF Runs
  <2>7. job'["timer"] = r2 /\ job'["request"] = job["request"]
    <3> HIDE DEF r2
    <3>. QED
      BY <2>1, <2>2 DEF Jobs
  <2> HIDE DEF r0, r1, r2
  <2>8. Received' /\ IngestInv' /\ CropsInv'
    BY <1>1, <2>1, <2>4, <2>5, <2>6, <2>7 DEF Received, IngestInv, CropsInv, Jobs
  <2>9. ScopeInv'
    BY <1>1, <2>1, <2>4, <2>5, <2>6, <2>7 DEF Received, ScopeInv, PlanInv, Jobs
  <2>10. FramesInv'
    BY <1>1, <2>1, <2>4, <2>5, <2>6, <2>7 DEF FramesInv
  <2>11. PlanInv'
    BY <1>1, <2>4, <2>5, <2>6, <2>7 DEF PlanInv
  <2>12. TodoInv' /\ RowsKeepImages'
    BY <1>1, <2>1 DEF TodoInv, OldEnough, RowsKeepImages
  <2>. QED
    BY <2>8, <2>9, <2>10, <2>11, <2>12
<1>. QED
  BY <1>2, <1>3
\* The file sweeps take frames past their time and files that nothing refers to.
LEMMA InvSweepFiles ==
  ASSUME IndexInv, TypeOK', ExpireFrames \/ Snapshot \/ Walk PROVE IndexInv'
<1> USE DEF IndexInv, rowVars, fileVars, sweepVars, policyVars, worldVars
<1>1. CASE ExpireFrames
  <2>1. /\ UNCHANGED <<rows, framed, crops, received, ingest, job, todo, age, footage, bereft>>
        /\ plan' = NoPlan
        /\ \A t \in frames \ frames' : age[t] >= 2
    BY <1>1 DEF ExpireFrames
  <2>2. Received' /\ CropsInv' /\ ScopeInv' /\ FramesInv' /\ TodoInv'
    BY <2>1 DEF Received, CropsInv, ScopeInv, FramesInv, TodoInv, OldEnough
  <2>3. IngestInv'
    BY <2>1 DEF IngestInv
  <2>4. PlanInv'
    BY <2>1 DEF PlanInv, NoPlan
  <2>5. RowsKeepImages'
    <3>1. \A o \in framed : TimeOf[o] \in Times /\ age[TimeOf[o]] \in 0..3
      BY Apart DEF TypeOK
    <3>. QED
      BY <2>1, <3>1 DEF RowsKeepImages
  <2>. QED
    BY <2>2, <2>3, <2>4, <2>5
<1>2. CASE Snapshot
  <2>1. /\ UNCHANGED <<rows, framed, crops, frames, received, ingest, job, plan, age, footage,
                        bereft>>
        /\ todo' = todo \/ todo' = {x \in (crops \cup frames) \ Referenced : OldEnough(x)}
    BY <1>2 DEF Snapshot
  <2>2. Received' /\ IngestInv' /\ CropsInv' /\ ScopeInv'
    BY <2>1 DEF Received, IngestInv, CropsInv, ScopeInv
  <2>3. FramesInv' /\ PlanInv' /\ RowsKeepImages'
    BY <2>1 DEF FramesInv, PlanInv, RowsKeepImages
  <2>4. TodoInv'
    BY <2>1, Apart DEF TodoInv, OldEnough, Referenced, Received, TypeOK
  <2>. QED
    BY <2>2, <2>3, <2>4
<1>3. CASE Walk
  <2>1. PICK x \in todo :
          /\ todo' = todo \ {x}
          /\ crops' \in {crops, crops \ {x}} /\ frames' \in {frames, frames \ {x}}
    BY <1>3 DEF Walk
  <2>2. UNCHANGED <<rows, framed, received, ingest, job, plan, age, footage, bereft>>
    BY <1>3 DEF Walk
  <2>3. ingest.pc # "idle" => x # ingest.obs /\ x # TimeOf[ingest.obs]
    BY <2>1, NotInHand
  <2>4. x \notin rows /\ \A o \in framed : TimeOf[o] # x
    BY <2>1, Apart DEF TodoInv, TypeOK
  <2>5. Received' /\ CropsInv' /\ ScopeInv' /\ FramesInv' /\ PlanInv'
    BY <2>1, <2>2 DEF Received, CropsInv, ScopeInv, FramesInv, PlanInv
  <2>6. IngestInv'
    BY <2>1, <2>2, <2>3 DEF IngestInv
  <2>7. TodoInv'
    BY <2>1, <2>2 DEF TodoInv, OldEnough
  <2>8. RowsKeepImages'
    BY <2>1, <2>2, <2>4 DEF RowsKeepImages
  <2>. QED
    BY <2>5, <2>6, <2>7, <2>8
<1>. QED
  BY <1>1, <1>2, <1>3

\* Registrations touch deadlines only.
LEMMA InvPush ==
  ASSUME IndexInv, TypeOK', NEW r \in Registrars, Push(r) \/ Restamp(r) \/ EndPush(r)
  PROVE  IndexInv'
<1> USE DEF IndexInv, rowVars, fileVars, sweepVars, policyVars, worldVars
<1>1. UNCHANGED <<rows, framed, crops, frames, received, ingest, job, plan, todo, age, footage,
                  bereft>>
  BY DEF Push, Restamp, EndPush
<1>2. Received' /\ IngestInv' /\ CropsInv' /\ ScopeInv'
  BY <1>1 DEF Received, IngestInv, CropsInv, ScopeInv
<1>3. FramesInv' /\ PlanInv' /\ TodoInv' /\ RowsKeepImages'
  BY <1>1 DEF FramesInv, PlanInv, TodoInv, OldEnough, RowsKeepImages
<1>. QED
  BY <1>2, <1>3

\* A moment in hand stays within the grace; every other one only grows older.
LEMMA InvAge == ASSUME IndexInv, TypeOK', NEW t \in Times, Age(t) PROVE IndexInv'
<1> USE DEF IndexInv, rowVars, fileVars, sweepVars, policyVars, worldVars
<1>1. UNCHANGED <<rows, framed, crops, frames, received, ingest, job, plan, todo, footage, bereft>>
  BY DEF Age
<1>2. \A u \in Times : /\ age[u] >= 1 => age'[u] >= 1
                       /\ age[u] >= 2 => age'[u] >= 2
                       /\ age'[u] < 2 => age[u] < 2
  BY DEF Age, TypeOK
<1>3. ingest.pc # "idle" => age'[TimeOf[ingest.obs]] = 0
  BY InHand DEF Age, IngestInv, TypeOK
<1>4. \A j \in Jobs : job[j].scope \subseteq Times /\ job[j].frames \subseteq Times
  BY DEF TypeOK, Runs
<1>5. Received' /\ CropsInv'
  BY <1>1 DEF Received, CropsInv
<1>6. IngestInv'
  BY <1>1, <1>3 DEF IngestInv
<1>7. ScopeInv'
  <2>1. \A u \in job["timer"].scope : age'[u] >= 1
    BY <1>2, <1>4 DEF ScopeInv, Jobs
  <2>. QED
    BY <1>1, <2>1 DEF ScopeInv
<1>8. FramesInv'
  BY <1>1, <1>2, <1>4 DEF FramesInv, Jobs
<1>9. PlanInv'
  <2>1. plan.times \subseteq Times /\ plan.holes \subseteq Times
    BY DEF TypeOK, Plans
  <2>. QED
    BY <1>1, <1>2, <2>1 DEF PlanInv
<1>10. TodoInv'
  <2>1. ASSUME NEW x \in todo PROVE OldEnough(x)'
    <3>1. (IF x \in Obs THEN TimeOf[x] ELSE x) \in Times
      BY Apart DEF TypeOK
    <3>. QED
      BY <1>2, <3>1 DEF TodoInv, OldEnough
  <2>. QED
    BY <1>1, <2>1 DEF TodoInv
<1>11. RowsKeepImages'
  <2>1. \A o \in framed : TimeOf[o] \in Times
    BY Apart DEF TypeOK
  <2>. QED
    BY <1>1, <1>2, <2>1 DEF RowsKeepImages
<1>. QED
  BY <1>5, <1>6, <1>7, <1>8, <1>9, <1>10, <1>11

LEMMA InvLoss == ASSUME IndexInv, TypeOK', NEW t \in Times, LoseFootage(t) PROVE IndexInv'
<1> USE DEF IndexInv, rowVars, fileVars, sweepVars, policyVars, worldVars
<1>1. /\ UNCHANGED <<rows, framed, crops, frames, received, ingest, job, plan, todo, age, bereft>>
      /\ footage' \subseteq footage
  BY DEF LoseFootage
<1>2. Received' /\ IngestInv' /\ CropsInv' /\ ScopeInv'
  BY <1>1 DEF Received, IngestInv, CropsInv, ScopeInv
<1>3. FramesInv' /\ PlanInv' /\ TodoInv' /\ RowsKeepImages'
  BY <1>1 DEF FramesInv, PlanInv, TodoInv, OldEnough, RowsKeepImages
<1>. QED
  BY <1>2, <1>3

\* A crash forgets everything in hand; what it leaves half done is an image
\* without a row, never a row without an image.
LEMMA InvCrash == ASSUME IndexInv, TypeOK', Crash PROVE IndexInv'
<1> USE DEF IndexInv, rowVars, fileVars, sweepVars, policyVars, worldVars
<1>1. /\ UNCHANGED <<rows, framed, crops, frames, received, age, footage, bereft>>
      /\ ingest' = NoIngest /\ plan' = NoPlan /\ todo' = {}
      /\ \A j \in Jobs : job'[j] = NoJob
  BY DEF Crash
<1>2. Received' /\ IngestInv' /\ CropsInv' /\ ScopeInv'
  BY <1>1 DEF Received, IngestInv, CropsInv, ScopeInv, NoIngest, NoJob, Job, Jobs
<1>3. FramesInv' /\ PlanInv'
  BY <1>1 DEF FramesInv, PlanInv, NoPlan, NoJob, Job, Jobs
<1>4. TodoInv' /\ RowsKeepImages'
  BY <1>1 DEF TodoInv, RowsKeepImages
<1>. QED
  BY <1>2, <1>3, <1>4

LEMMA IndexStep == IndexInv /\ [Next]_vars => IndexInv'
<1> SUFFICES ASSUME IndexInv, [Next]_vars PROVE IndexInv'
  OBVIOUS
<1>1. TypeOK'
  BY TypeStep DEF IndexInv
<1>2. CASE UNCHANGED vars
  BY <1>1, <1>2
  DEF IndexInv, vars, rowVars, fileVars, sweepVars, policyVars, worldVars, Received, IngestInv,
      CropsInv, ScopeInv, FramesInv, PlanInv, TodoInv, OldEnough, RowsKeepImages
<1>3. CASE Ingesting
  BY <1>1, <1>3, InvReceive, InvSaveFrame, InvStamp, InvInsert DEF Ingesting
<1>4. CASE Sweeping
  BY <1>1, <1>4, InvPass, InvCount, InvSweepFiles DEF Sweeping
<1>5. ASSUME NEW j \in Jobs, Deleting(j) PROVE IndexInv'
  BY <1>1, <1>5, InvDeleteBatch, InvUnlink DEF Deleting
<1>. QED
  BY <1>1, <1>2, <1>3, <1>4, <1>5, InvErase, InvPush, InvAge, InvLoss, InvCrash DEF Next

\* The inductive invariant: what is in hand, named for deletion, planned or
\* snapshotted never meets a row whose images it could cost.
THEOREM IndexCorrect == Spec => []IndexInv
BY IndexInit, IndexStep, PTL DEF Spec

\* A search hit has its crop, and its frame while frames are kept, unless its own
\* moment was erased or swept as a gap (writer.py, store.py, retention.py).
THEOREM HitsKeepImages == Spec => []RowsKeepImages
<1>1. IndexInv => RowsKeepImages
  BY DEF IndexInv
<1>. QED
  BY <1>1, IndexCorrect, PTL
-----------------------------------------------------------------------------
\* Steps that touch no row, deadline or registration leave the deadlines alone.
LEMMA DeadlineSame ==
  ASSUME DeadlineInv, TypeOK', UNCHANGED <<rows, stamp, raced, push, policy, unsettled>>
  PROVE  DeadlineInv'
BY DEF DeadlineInv, AloneInv, SettledInv, DeadlineKept, Pushing

LEMMA DeadlineInit == Init => DeadlineInv
BY TypeInit DEF Init, NoPush, DeadlineInv, AloneInv, SettledInv, DeadlineKept, Pushing

\* A row appears with the policy of the moment, or is known to have been raced.
LEMMA DeadlineRows ==
  ASSUME DeadlineInv, TypeOK', Insert \/ \E j \in Jobs : DeleteBatch(j) PROVE DeadlineInv'
<1> USE DEF DeadlineInv, rowVars, policyVars
<1>1. /\ UNCHANGED <<push, policy, unsettled>>
      /\ \A o \in rows' \ raced' : \/ o \in rows \ raced /\ stamp'[o] = stamp[o]
                                   \/ stamp'[o] = policy
  <2>1. CASE Insert
    <3>1. \A o \in Obs \ {ingest.obs} : stamp'[o] = stamp[o]
      BY <2>1 DEF Insert, TypeOK
    <3>2. ingest.obs \in Obs
      BY <2>1, InHand DEF Insert
    <3>. QED
      BY <2>1, <3>1, <3>2 DEF Insert, TypeOK
  <2>2. ASSUME NEW j \in Jobs, DeleteBatch(j)
        PROVE  /\ UNCHANGED <<push, policy, unsettled>>
               /\ \A o \in rows' \ raced' : o \in rows \ raced /\ stamp'[o] = stamp[o]
    BY <2>2 DEF DeleteBatch, TypeOK
  <2>. QED
    BY <2>1, <2>2 DEF Insert
<1>2. Pushing' = Pushing
  BY <1>1 DEF Pushing
<1>3. AloneInv' /\ SettledInv'
  BY <1>1, <1>2 DEF AloneInv, SettledInv
<1>4. DeadlineKept'
  BY <1>1, <1>2 DEF DeadlineKept
<1>. QED
  BY <1>3, <1>4

\* A new registration takes the others' claim to be alone.
LEMMA DeadlinePush ==
  ASSUME DeadlineInv, TypeOK', NEW r \in Registrars, Push(r) PROVE DeadlineInv'
<1> USE DEF DeadlineInv, rowVars, policyVars
<1>1. PICK keep \in {"short", "long"} :
        /\ policy' = keep
        /\ IF keep = policy
             THEN UNCHANGED <<push, unsettled>>
             ELSE /\ push' = [q \in Registrars |->
                       IF q = r THEN [pc |-> "restamp", keep |-> keep, dom |-> 1,
                                      alone |-> Pushing = {}]
                                ELSE [push[q] EXCEPT !.alone = FALSE]]
                  /\ unsettled' = (unsettled \/ Pushing # {})
  BY DEF Push
<1>2. UNCHANGED <<rows, stamp, raced>> /\ push[r].pc = "idle"
  BY DEF Push
<1>3. CASE keep = policy
  BY <1>1, <1>2, <1>3, DeadlineSame
<1>4. CASE keep # policy
  <2>1. /\ push'[r].pc = "restamp" /\ push'[r].keep = keep /\ push'[r].dom = 1
        /\ push'[r].alone = (Pushing = {})
        /\ \A q \in Registrars \ {r} : push'[q].pc = push[q].pc /\ push'[q].alone = FALSE
    BY <1>1, <1>4 DEF TypeOK, Pushes
  <2>2. r \in Pushing' /\ Pushing' = Pushing \cup {r}
    BY <1>2, <2>1 DEF Pushing
  <2>3. AloneInv'
    <3> SUFFICES ASSUME NEW q \in Pushing', push'[q].alone
                 PROVE  /\ push'[q].keep = policy' /\ Pushing' = {q}
                        /\ \A o \in rows' \ raced' : \A i \in 1..Len(Domains) :
                             i < push'[q].dom /\ DomainOf[o] = Domains[i] => stamp'[o] = policy'
      BY DEF AloneInv
    <3>1. q = r /\ Pushing = {}
      BY <2>1, <2>2 DEF Pushing
    <3>2. \A i \in 1..Len(Domains) : ~(i < push'[q].dom)
      BY <2>1, <3>1, Tables
    <3>. QED
      BY <1>1, <2>1, <2>2, <3>1, <3>2
  <2>4. SettledInv'
    BY <1>1, <1>4, <2>1, <2>2 DEF SettledInv
  <2>5. DeadlineKept'
    BY <2>2 DEF DeadlineKept
  <2>. QED
    BY <2>3, <2>4, <2>5
<1>. QED
  BY <1>3, <1>4

\* A table is restamped batch by batch; only one behind nobody else counts.
LEMMA DeadlineRestamp ==
  ASSUME DeadlineInv, TypeOK', NEW r \in Registrars, Restamp(r) PROVE DeadlineInv'
<1> USE DEF DeadlineInv, rowVars, policyVars
<1>1. /\ r \in Pushing /\ push[r].dom <= Len(Domains)
      /\ UNCHANGED <<rows, policy, unsettled>>
  BY DEF Restamp, Pushing
<1>2. \A q \in Registrars : /\ push'[q].pc = push[q].pc /\ push'[q].keep = push[q].keep
                            /\ push'[q].alone = push[q].alone
  BY DEF Restamp, TypeOK, Pushes
<1>3. Pushing' = Pushing
  BY <1>2 DEF Pushing
<1>4. SettledInv' /\ DeadlineKept'
  BY <1>1, <1>2, <1>3 DEF SettledInv, DeadlineKept, Pushing
<1>5. AloneInv'
  <2> SUFFICES ASSUME NEW q \in Pushing, push[q].alone,
                      NEW o \in rows' \ raced', NEW i \in 1..Len(Domains),
                      i < push'[q].dom, DomainOf[o] = Domains[i]
               PROVE  stamp'[o] = policy
    BY <1>1, <1>2, <1>3 DEF AloneInv, Pushing
  <2>1. q = r /\ push[r].keep = policy /\ push[r].alone
    BY <1>1 DEF AloneInv
  <2>2. CASE Stale(r) # {}
    <3>1. /\ stamp' = [x \in Obs |-> IF x \in Stale(r) THEN push[r].keep ELSE stamp[x]]
          /\ raced' = raced \ Stale(r) /\ push' = push /\ o \in rows /\ o \in Obs
      BY <1>1, <2>2 DEF Restamp, TypeOK
    <3>2. CASE o \in Stale(r)
      BY <2>1, <3>1, <3>2
    <3>3. CASE o \notin Stale(r)
      BY <2>1, <3>1, <3>3 DEF AloneInv
    <3>. QED
      BY <3>2, <3>3
  <2>3. CASE Stale(r) = {}
    <3>1. /\ stamp' = stamp /\ raced' = raced /\ o \in rows \ raced
          /\ push' = [push EXCEPT ![r].dom = @ + 1]
      BY <1>1, <2>3 DEF Restamp
    <3>2. push'[r].dom = push[r].dom + 1 /\ push[r].dom \in Nat
      BY <3>1 DEF TypeOK, Pushes
    <3>3. CASE i = push[r].dom
      BY <2>1, <2>3, <3>1, <3>3 DEF Stale
    <3>4. CASE i # push[r].dom
      <4>1. i < push[r].dom
        BY <2>1, <3>2, <3>4
      <4>. QED
        BY <2>1, <3>1, <4>1 DEF AloneInv
    <3>. QED
      BY <3>3, <3>4
  <2>. QED
    BY <2>2, <2>3
<1>. QED
  BY <1>4, <1>5

\* One that ends alone has been through every table.
LEMMA DeadlineEnd ==
  ASSUME DeadlineInv, TypeOK', NEW r \in Registrars, EndPush(r) PROVE DeadlineInv'
<1> USE DEF DeadlineInv, rowVars, policyVars
<1>1. /\ UNCHANGED <<rows, stamp, raced, policy>>
      /\ r \in Pushing /\ push' = [push EXCEPT ![r] = NoPush]
  BY DEF EndPush, Pushing
<1>2. Pushing' = Pushing \ {r} /\ \A q \in Pushing' : push'[q] = push[q]
  BY <1>1 DEF Pushing, NoPush, TypeOK
<1>3. AloneInv'
  BY <1>1, <1>2 DEF AloneInv
<1>4. CASE push[r].alone /\ push[r].dom > Len(Domains)
  <2>1. Pushing' = {} /\ policy = push[r].keep
    BY <1>1, <1>2, <1>4 DEF AloneInv
  <2>2. \A o \in rows \ raced : stamp[o] = policy
    <3> SUFFICES ASSUME NEW o \in rows \ raced PROVE stamp[o] = policy
      OBVIOUS
    <3>1. PICK i \in 1..Len(Domains) : DomainOf[o] = Domains[i]
      <4>1. DOMAIN Domains = 1..Len(Domains)
        BY ObsAssumption
      <4>2. DomainOf[o] \in ToSet(Domains)
        BY ObsAssumption DEF TypeOK
      <4>. QED
        BY <4>1, <4>2 DEF ToSet
    <3>2. push[r].dom \in Nat /\ Len(Domains) \in Nat
      BY Tables DEF TypeOK, Pushes
    <3>3. i < push[r].dom
      BY <1>4, <3>2
    <3>. QED
      BY <1>1, <1>4, <3>1, <3>3 DEF AloneInv
  <2>. QED
    BY <1>1, <1>3, <2>1, <2>2 DEF SettledInv, DeadlineKept
<1>5. CASE ~(push[r].alone /\ push[r].dom > Len(Domains))
  <2>1. unsettled' \in {unsettled, TRUE}
    BY <1>5 DEF EndPush, TypeOK
  <2>2. SettledInv'
    BY <1>1, <1>2, <2>1 DEF SettledInv
  <2>3. unsettled'
    BY <1>1, <1>5 DEF EndPush, SettledInv
  <2>. QED
    BY <1>3, <2>2, <2>3 DEF DeadlineKept
<1>. QED
  BY <1>4, <1>5

LEMMA DeadlineStep == DeadlineInv /\ [Next]_vars => DeadlineInv'
<1> SUFFICES ASSUME DeadlineInv, [Next]_vars PROVE DeadlineInv'
  OBVIOUS
<1>1. TypeOK'
  BY TypeStep DEF DeadlineInv
<1>2. CASE UNCHANGED vars
  BY <1>1, <1>2, DeadlineSame DEF vars, rowVars, policyVars
<1>3. CASE Ingesting /\ ~Insert
  BY <1>1, <1>3, DeadlineSame DEF Ingesting, Receive, SaveFrame, Stamp, rowVars, policyVars
<1>4. CASE RequestErase \/ EndErase
  BY <1>1, <1>4, DeadlineSame DEF RequestErase, EndErase, rowVars, policyVars
<1>5. CASE Sweeping
  <2>1. UNCHANGED <<rows, stamp, raced, push, policy, unsettled>>
    BY <1>5 DEF Sweeping, StartPass, EndExpiry, Spans, Ask, Count, EndPurge, ExpireFrames, Snapshot,
                Walk, EndWalk, rowVars, policyVars
  <2>. QED
    BY <1>1, <2>1, DeadlineSame
<1>6. ASSUME NEW j \in Jobs, Deleting(j), ~DeleteBatch(j) PROVE DeadlineInv'
  BY <1>1, <1>6, DeadlineSame DEF Deleting, NextTable, UnlinkCrop, UnlinkFrame, rowVars, policyVars
<1>7. ASSUME NEW t \in Times, Age(t) \/ LoseFootage(t) PROVE DeadlineInv'
  BY <1>1, <1>7, DeadlineSame DEF Age, LoseFootage, rowVars, policyVars
<1>8. CASE Crash
  BY <1>1, <1>8
  DEF Crash, DeadlineInv, AloneInv, SettledInv, DeadlineKept, Pushing, NoPush, rowVars
<1>. QED
  BY <1>1, <1>2, <1>3, <1>4, <1>5, <1>6, <1>7, <1>8,
     DeadlineRows, DeadlinePush, DeadlineRestamp, DeadlineEnd
  DEF Next, Deleting

\* Once a change of retention is through, alone and without an error, every row
\* has the policy's deadline, those written meanwhile included (store.py).
THEOREM DeadlinesFollow == Spec => []DeadlineKept
<1>1. DeadlineInv => DeadlineKept
  BY DEF DeadlineInv
<1>. QED
  BY <1>1, DeadlineInit, DeadlineStep, PTL DEF Spec
-----------------------------------------------------------------------------
\* What is left can be counted, and less is left of fewer rows.
LEMMA LeftCounts ==
  ASSUME TypeOK, NEW S \in SUBSET Left
  PROVE  /\ Cardinality(S) \in Nat /\ Cardinality(Left) \in Nat
         /\ Cardinality(S) <= Cardinality(Left)
<1>1. IsFiniteSet(Left) /\ Cardinality(Left) \in Nat
  BY Countable DEF Left, TypeOK
<1>. QED
  BY <1>1, FS_Subset, FS_CardinalityType

\* A step that leaves the sweep's own account alone and adds no row to it.
LEMMA HalfSame ==
  ASSUME IndexInv, HalfInv,
         \/ job'["timer"].why # "coverage"
         \/ /\ job'["timer"].why = job["timer"].why /\ job'["timer"].lost = job["timer"].lost
            /\ job'["timer"].counted = job["timer"].counted
            /\ Left' \subseteq Left
  PROVE  HalfInv'
<1> SUFFICES ASSUME job'["timer"].why = "coverage" PROVE HalfInv'
  BY DEF HalfInv
<1>1. job["timer"].lost \in Nat /\ job["timer"].counted \in Nat
  BY DEF IndexInv, TypeOK, Jobs, Runs
<1>2. Cardinality(Left') \in Nat /\ Cardinality(Left) \in Nat
      /\ Cardinality(Left') <= Cardinality(Left)
  BY LeftCounts DEF IndexInv
<1>3. Cardinality(Left)' = Cardinality(Left')
  OBVIOUS
<1>. QED
  BY <1>1, <1>2, <1>3 DEF HalfInv

\* A batch moves rows from what is left to what is lost.
LEMMA HalfDelete ==
  ASSUME IndexInv, HalfInv, NEW j \in Jobs, DeleteBatch(j) PROVE HalfInv'
<1>1. PICK S \in SUBSET Doomed(j) :
        /\ rows' = rows \ S
        /\ job' = [job EXCEPT ![j].crops = S, ![j].frames = {TimeOf[o] : o \in S \cap framed},
                              ![j].lost = @ + Cardinality({o \in S : Counted(o)})]
  BY DEF DeleteBatch
<1>2. S \in SUBSET Obs
  BY DEF Doomed, IndexInv, TypeOK
<1>3. /\ job'["timer"].scope = job["timer"].scope /\ job'["timer"].why = job["timer"].why
      /\ job'["timer"].counted = job["timer"].counted
      /\ j # "timer" => job'["timer"] = job["timer"]
      /\ j = "timer" => job'["timer"].lost
                          = job["timer"].lost + Cardinality({o \in S : Counted(o)})
  BY <1>1, <1>2, Batch DEF IndexInv, Jobs
<1>4. Left' = Left \ {o \in S : Counted(o)}
  BY <1>1, <1>3 DEF Left, Counted
<1>5. CASE j # "timer" \/ job["timer"].why # "coverage"
  BY <1>3, <1>4, <1>5, HalfSame
<1>6. CASE j = "timer" /\ job["timer"].why = "coverage"
  <2> DEFINE C == {o \in S : Counted(o)}
             D == Left \ C
  <2>1. C \in SUBSET Left
    BY <1>6 DEF Doomed, Left
  <2>2. IsFiniteSet(Left)
    BY Countable DEF Left, IndexInv, TypeOK
  <2>3. IsFiniteSet(C) /\ IsFiniteSet(D)
    BY <2>1, <2>2, FS_Subset
  <2>4. Left' = D
    BY <1>4
  <2>5. /\ Cardinality(Left) = Cardinality(C) + Cardinality(D)
        /\ Cardinality(C) \in Nat /\ Cardinality(D) \in Nat /\ Cardinality(Left) \in Nat
    <3>1. C \cap D = {} /\ C \cup D = Left
      BY <2>1
    <3> HIDE DEF C, D
    <3>2. Cardinality(C) \in Nat /\ Cardinality(D) \in Nat /\ Cardinality(Left) \in Nat
      BY <2>2, <2>3, FS_CardinalityType
    <3>3. Cardinality(C \cup D) = Cardinality(C) + Cardinality(D) - Cardinality(C \cap D)
      BY <2>3, FS_Union
    <3>4. Cardinality(C \cap D) = 0
      BY <3>1, FS_EmptySet
    <3>5. Cardinality(Left) = Cardinality(C) + Cardinality(D) - 0
      BY <3>1, <3>3, <3>4
    <3>. QED
      BY <3>2, <3>5
  <2>6. job["timer"].lost \in Nat /\ job["timer"].counted \in Nat
    BY DEF IndexInv, TypeOK, Jobs, Runs
  <2>7. 2 * (job["timer"].lost + Cardinality(Left)) <= job["timer"].counted
    BY <1>6 DEF HalfInv
  <2>8. job'["timer"].lost = job["timer"].lost + Cardinality(C)
    BY <1>3, <1>6
  <2>9. Cardinality(Left)' = Cardinality(D)
    BY <2>4
  <2> HIDE DEF C, D
  <2>10. 2 * (job'["timer"].lost + Cardinality(D)) <= job["timer"].counted
    BY <2>5, <2>6, <2>7, <2>8
  <2>. QED
    BY <1>3, <2>9, <2>10 DEF HalfInv
<1>. QED
  BY <1>5, <1>6

\* The brake: a sweep begins with no more than half of what it counted.
LEMMA HalfCount == ASSUME IndexInv, HalfInv, Count PROVE HalfInv'
<1> DEFINE holes == {o \in rows : Counted(o) /\ TimeOf[o] \in plan.holes}
<1>1. CASE job' = job
  <2>1. Left' = Left
    BY <1>1 DEF Count, Left, rowVars, Counted
  <2>. QED
    BY <1>1, <2>1, HalfSame
<1>2. CASE job' # job
  <2> DEFINE r0 == Began("coverage", plan.holes)
             r1 == [r0 EXCEPT !.honest = plan.honest]
             r2 == [r1 EXCEPT !.counted = plan.rows]
  <2>1. /\ job' = [job EXCEPT !["timer"] = r2] /\ rows' = rows
        /\ ~Overruled(Cardinality(holes))
    BY <1>2 DEF Count, rowVars
  <2>2. plan \in Plans /\ job \in [Jobs -> Runs]
    BY DEF IndexInv, TypeOK
  <2>3. r0 \in Runs /\ r0.lost = 0 /\ r0.scope = plan.holes
    BY <2>2, BeganType DEF Plans, Began, Job
  <2>4. r1 \in Runs /\ r1.lost = 0 /\ r1.scope = plan.holes
    <3> HIDE DEF r0
    <3>. QED
      BY <2>2, <2>3 DEF Runs, Plans
  <2>5. r2.lost = 0 /\ r2.scope = plan.holes /\ r2.counted = plan.rows
    <3> HIDE DEF r1
    <3>. QED
      BY <2>4 DEF Runs
  <2>6. job'["timer"] = r2
    <3> HIDE DEF r2
    <3>. QED
      BY <2>1, <2>2 DEF Jobs
  <2> HIDE DEF r2
  <2>7. Left' = holes
    BY <2>1, <2>5, <2>6 DEF Left, Counted
  <2>8. Cardinality(Left)' = Cardinality(holes)
    BY <2>7
  <2>9. Cardinality(holes) \in Nat /\ plan.rows \in Nat
    BY <2>2, Countable DEF IndexInv, TypeOK, Plans
  <2>10. 2 * Cardinality(holes) <= plan.rows
    BY <2>1, <2>9 DEF Overruled
  <2>. QED
    BY <2>5, <2>6, <2>8, <2>9, <2>10 DEF HalfInv
<1>. QED
  BY <1>1, <1>2

LEMMA HalfStep == IndexInv /\ HalfInv /\ [Next]_vars => HalfInv'
<1> SUFFICES ASSUME IndexInv, HalfInv, [Next]_vars PROVE HalfInv'
  OBVIOUS
<1> USE DEF rowVars, sweepVars
<1>0. ASSUME rows' = rows, job' = job PROVE HalfInv'
  <2>1. Left' = Left
    BY <1>0 DEF Left, Counted
  <2>. QED
    BY <1>0, <2>1, HalfSame
<1>1. CASE UNCHANGED vars
  BY <1>0, <1>1 DEF vars
<1>2. CASE Ingesting /\ ~Insert
  BY <1>0, <1>2 DEF Ingesting, Receive, SaveFrame, Stamp
<1>3. CASE Insert
  <2>1. /\ rows' \subseteq rows \cup {ingest.obs} /\ job' = job
        /\ TimeOf[ingest.obs] \notin job["timer"].scope
    BY <1>3, InHand DEF Insert, IndexInv, IngestInv, ScopeInv
  <2>2. Left' \subseteq Left
    BY <2>1 DEF Left, Counted
  <2>. QED
    BY <2>1, <2>2, HalfSame
<1>4. CASE RequestErase \/ EndErase
  <2>1. job'["timer"] = job["timer"] /\ rows' = rows
    BY <1>4 DEF RequestErase, EndErase, IndexInv, TypeOK, Jobs
  <2>2. Left' = Left
    BY <2>1 DEF Left, Counted
  <2>. QED
    BY <2>1, <2>2, HalfSame
<1>5. CASE StartPass \/ EndExpiry \/ EndPurge
  <2>1. job'["timer"].why # "coverage"
    BY <1>5 DEF StartPass, EndExpiry, EndPurge, IndexInv, TypeOK, Jobs, NoJob, Began, Job
  <2>. QED
    BY <2>1, HalfSame
<1>6. CASE Spans \/ Ask \/ ExpireFrames \/ Snapshot \/ Walk \/ EndWalk
  BY <1>0, <1>6 DEF Spans, Ask, ExpireFrames, Snapshot, Walk, EndWalk
<1>7. ASSUME NEW j \in Jobs, NextTable(j) \/ UnlinkCrop(j) \/ UnlinkFrame(j) PROVE HalfInv'
  <2>1. /\ rows' = rows /\ job["timer"] \in Runs
        /\ job'["timer"].why = job["timer"].why /\ job'["timer"].lost = job["timer"].lost
        /\ job'["timer"].counted = job["timer"].counted /\ job'["timer"].scope = job["timer"].scope
    BY <1>7 DEF NextTable, UnlinkCrop, UnlinkFrame, IndexInv, TypeOK, Jobs, Runs
  <2>2. Left' = Left
    BY <2>1 DEF Left, Counted
  <2>. QED
    BY <2>1, <2>2, HalfSame
<1>8. ASSUME NEW r \in Registrars, Push(r) \/ Restamp(r) \/ EndPush(r) PROVE HalfInv'
  BY <1>0, <1>8 DEF Push, Restamp, EndPush
<1>9. ASSUME NEW t \in Times, Age(t) \/ LoseFootage(t) PROVE HalfInv'
  BY <1>0, <1>9 DEF Age, LoseFootage
<1>10. CASE Crash
  <2>1. job'["timer"].why # "coverage"
    BY <1>10 DEF Crash, Jobs, NoJob, Job
  <2>. QED
    BY <2>1, HalfSame
<1>. QED
  BY <1>1, <1>2, <1>3, <1>4, <1>5, <1>6, <1>7, <1>8, <1>9, <1>10, HalfDelete, HalfCount
  DEF Next, Ingesting, Sweeping, Deleting

\* However wrong the recorder's answer, a coverage pass deletes at most half of the
\* rows it counted (coverage.py, the brake of plan_for_camera).
THEOREM HalfIsLeft == Spec => []HalfRemains
<1>1. Init => HalfInv
  BY DEF Init, HalfInv, NoJob, Job, Jobs
<1>2. IndexInv /\ HalfInv => HalfRemains
  <2> SUFFICES ASSUME IndexInv, HalfInv, job["timer"].why = "coverage"
               PROVE  2 * job["timer"].lost <= job["timer"].counted
    BY DEF HalfRemains
  <2>1. Cardinality(Left) \in Nat
    BY Countable DEF Left, IndexInv, TypeOK
  <2>2. job["timer"].lost \in Nat /\ job["timer"].counted \in Nat
    BY DEF IndexInv, TypeOK, Jobs, Runs
  <2>. QED
    BY <2>1, <2>2 DEF HalfInv
<1>. QED
  BY <1>1, <1>2, HalfStep, IndexCorrect, PTL DEF Spec

\* The coverage sweep deletes no row whose footage the recorder has, unless the
\* recorder answered from an index it had lost (coverage.py).
THEOREM FootageKeeps == Spec => FootageKeepsRows
<1> DEFINE Kept == \A o \in rows \ rows' :
                     job["timer"].why = "coverage" /\ job["timer"].honest /\ o \in job'["timer"].crops
                     => TimeOf[o] \notin footage
<1>1. IndexInv /\ [Next]_vars => [Kept]_vars
  <2> SUFFICES ASSUME IndexInv, Next,
                      NEW z \in rows \ rows', job["timer"].why = "coverage", job["timer"].honest,
                      z \in job'["timer"].crops
               PROVE  TimeOf[z] \notin footage
    OBVIOUS
  <2>1. PICK j \in Jobs : DeleteBatch(j)
    <3>1. rows' # rows
      OBVIOUS
    <3>2. CASE Ingesting
      <4>1. rows \subseteq rows'
        BY <3>2 DEF Ingesting, Receive, SaveFrame, Stamp, Insert, rowVars
      <4>. QED
        BY <4>1
    <3>3. CASE RequestErase \/ EndErase \/ Sweeping
      BY <3>1, <3>3 DEF RequestErase, EndErase, Sweeping, StartPass, EndExpiry, Spans, Ask, Count,
                        EndPurge, ExpireFrames, Snapshot, Walk, EndWalk, rowVars
    <3>4. CASE \E j \in Jobs : Deleting(j)
      BY <3>1, <3>4 DEF Deleting, NextTable, UnlinkCrop, UnlinkFrame, rowVars
    <3>5. CASE \E r \in Registrars : Push(r) \/ Restamp(r) \/ EndPush(r)
      BY <3>1, <3>5 DEF Push, Restamp, EndPush, rowVars
    <3>6. CASE (\E t \in Times : Age(t) \/ LoseFootage(t)) \/ Crash
      BY <3>1, <3>6 DEF Age, LoseFootage, Crash, rowVars
    <3>. QED
      BY <3>2, <3>3, <3>4, <3>5, <3>6 DEF Next
  <2>2. PICK S \in SUBSET Doomed(j) :
          job' = [job EXCEPT ![j].crops = S, ![j].frames = {TimeOf[o] : o \in S \cap framed},
                             ![j].lost = @ + Cardinality({o \in S : Counted(o)})]
    BY <2>1 DEF DeleteBatch
  <2>3. S \in SUBSET Obs
    BY DEF Doomed, IndexInv, TypeOK
  <2>4. job'[j].crops = S /\ \A i \in Jobs \ {j} : job'[i] = job[i]
    BY <2>2, <2>3, Batch DEF IndexInv
  <2>5. z \notin job["timer"].crops
    BY DEF IndexInv, CropsInv, Jobs
  <2>6. j = "timer" /\ z \in S
    BY <2>4, <2>5 DEF Jobs
  <2>7. TimeOf[z] \in job["timer"].scope
    BY <2>6 DEF Doomed
  <2>. QED
    BY <2>7 DEF IndexInv, PlanInv
<1>. QED
  BY <1>1, IndexCorrect, PTL DEF Spec, FootageKeepsRows
-----------------------------------------------------------------------------
\* What a step may do to the row, the crop and the ingest of an observation: a row
\* comes only from the ingest in hand, and with its crop; a row goes before its crop;
\* the crop of the ingest in hand stays; what is received was not received before.
Lived(o) ==
  /\ o \in rows' \ rows => o \in crops \cap crops' /\ ingest.obs = o
  /\ o \in rows \ rows' => o \in crops' /\ ingest'.obs # o
  /\ ingest'.obs = o /\ ingest.obs # o => o \notin received
  /\ o \in crops \ crops' => ingest.obs # o /\ o \notin rows
  /\ o \in crops' \ crops => o \notin received /\ ingest'.obs = o
  /\ received \subseteq received'

\* A step that touches neither rows nor crops and takes nothing in hand.
LEMMA LivedSame ==
  ASSUME rows' = rows, crops' = crops, received' = received,
         ingest'.obs = ingest.obs \/ ingest'.obs = "none"
  PROVE  \A o \in Obs : Lived(o)
BY ObsAssumption DEF Lived

LEMMA LivedStep == IndexInv /\ IndexInv' /\ [Next]_vars => \A o \in Obs : Lived(o)
<1> SUFFICES ASSUME IndexInv, IndexInv', [Next]_vars, NEW o \in Obs PROVE Lived(o)
  OBVIOUS
<1> USE DEF rowVars, fileVars
<1>0. "none" \notin Obs
  BY ObsAssumption
<1>1. CASE UNCHANGED vars
  BY <1>1, LivedSame DEF vars
<1>2. ASSUME NEW x \in Obs, Receive(x) PROVE Lived(o)
  <2>1. ingest.obs = "none" /\ x \notin received /\ crops \subseteq received
    BY <1>2 DEF Receive, IndexInv, IngestInv, NoIngest, Received
  <2>2. CASE crops' = crops /\ ingest' = ingest
    BY <1>2, <2>2 DEF Receive, Lived
  <2>3. CASE crops' = crops \cup {x} /\ ingest'.obs = x
    BY <1>0, <1>2, <2>1, <2>3 DEF Receive, Lived
  <2>. QED
    BY <1>2, <2>2, <2>3 DEF Receive, NoIngest
<1>3. CASE SaveFrame \/ Stamp
  <2>1. ingest'.obs = ingest.obs
    BY <1>3 DEF SaveFrame, Stamp, IndexInv, TypeOK, Ingests
  <2>. QED
    BY <1>3, <2>1, LivedSame DEF SaveFrame, Stamp
<1>4. CASE Insert
  <2>1. ingest'.obs = "none" /\ ingest.obs \in crops /\ rows' \subseteq rows \cup {ingest.obs}
        /\ rows \subseteq rows' /\ crops' = crops /\ received' = received
    BY <1>4 DEF Insert, NoIngest, IndexInv, IngestInv
  <2>. QED
    BY <1>0, <2>1 DEF Lived
<1>5. CASE RequestErase \/ EndErase
  BY <1>5, LivedSame DEF RequestErase, EndErase
<1>6. CASE Sweeping /\ ~Walk
  BY <1>6, LivedSame DEF Sweeping, StartPass, EndExpiry, Spans, Ask, Count, EndPurge,
                         ExpireFrames, Snapshot, EndWalk
<1>7. CASE Walk
  <2>1. PICK x \in todo : crops' = crops \ {x} \/ crops' = crops
    BY <1>7 DEF Walk
  <2>2. rows' = rows /\ ingest' = ingest /\ received' = received
    BY <1>7 DEF Walk
  <2>3. x \in Obs => x \notin rows /\ ingest.obs # x
    <3>1. ingest.pc # "idle" => age[TimeOf[ingest.obs]] = 0
      BY DEF IndexInv, IngestInv
    <3>2. x \in Obs => age[TimeOf[x]] >= 1
      BY DEF IndexInv, TodoInv, OldEnough
    <3>3. ingest.pc = "idle" => ingest.obs = "none"
      BY DEF IndexInv, IngestInv, NoIngest
    <3>4. x \in Obs => x \notin rows
      BY DEF IndexInv, TodoInv
    <3>. QED
      BY <1>0, <3>1, <3>2, <3>3, <3>4
  <2>. QED
    BY <2>1, <2>2, <2>3 DEF Lived
<1>8. ASSUME NEW j \in Jobs, DeleteBatch(j) PROVE Lived(o)
  <2>1. PICK S \in SUBSET Doomed(j) : rows' = rows \ S
    BY <1>8 DEF DeleteBatch
  <2>2. crops' = crops /\ ingest' = ingest /\ received' = received
    BY <1>8 DEF DeleteBatch
  <2>3. rows \subseteq crops /\ ingest.obs \notin rows
    BY <1>0 DEF IndexInv, RowsKeepImages, IngestInv, NoIngest, TypeOK
  <2>. QED
    BY <2>1, <2>2, <2>3 DEF Lived
<1>9. ASSUME NEW j \in Jobs, NextTable(j) \/ UnlinkFrame(j) PROVE Lived(o)
  BY <1>9, LivedSame DEF NextTable, UnlinkFrame
<1>10. ASSUME NEW j \in Jobs, UnlinkCrop(j) PROVE Lived(o)
  <2>1. PICK x \in job[j].crops : crops' = crops \ {x} \/ crops' = crops
    BY <1>10 DEF UnlinkCrop
  <2>2. rows' = rows /\ ingest' = ingest /\ received' = received
    BY <1>10 DEF UnlinkCrop
  <2>3. x \in Obs /\ x \notin rows /\ ingest.obs # x
    BY <1>0 DEF IndexInv, CropsInv, TypeOK, IngestInv, NoIngest
  <2>. QED
    BY <2>1, <2>2, <2>3 DEF Lived
<1>11. ASSUME NEW r \in Registrars, Push(r) \/ Restamp(r) \/ EndPush(r) PROVE Lived(o)
  BY <1>11, LivedSame DEF Push, Restamp, EndPush
<1>12. CASE (\E t \in Times : Age(t) \/ LoseFootage(t)) \/ Crash
  BY <1>12, LivedSame DEF Age, LoseFootage, Crash, NoIngest
<1>. QED
  BY <1>1, <1>2, <1>3, <1>4, <1>5, <1>6, <1>7, <1>8, <1>9, <1>10, <1>11, <1>12
  DEF Next, Ingesting, Deleting, Sweeping

\* An observation's life moves along the arrows of ErasableStore, or not at all.
LEMMA LifeMoves ==
  ASSUME IndexInv, IndexInv', NEW o \in Obs, Lived(o)
  PROVE  /\ LifeOf(o)' \in Store!Lives
         /\ LifeOf(o)' # LifeOf(o) => <<LifeOf(o), LifeOf(o)'>> \in Store!MayBecome
<1>1. rows \subseteq crops /\ crops \subseteq received /\ ingest.obs \notin rows
  BY ObsAssumption DEF IndexInv, RowsKeepImages, Received, IngestInv, NoIngest, TypeOK
<1>2. rows' \subseteq crops' /\ crops' \subseteq received' /\ ingest'.obs \notin rows'
  BY ObsAssumption DEF IndexInv, RowsKeepImages, Received, IngestInv, NoIngest, TypeOK
<1>3. ingest.obs = o => o \in crops
  BY ObsAssumption DEF IndexInv, IngestInv, NoIngest
<1>4. ingest'.obs = o => o \in crops'
  BY ObsAssumption DEF IndexInv, IngestInv, NoIngest
<1>. QED
  BY <1>1, <1>2, <1>3, <1>4 DEF Lived, LifeOf, Store!Lives, Store!MayBecome

\* The index takes every observation along the life ErasableStore allows: a hit only
\* once its image is stored, a dropped one never again (that residue is collected in
\* the end is a question of fairness and stays with the runs).
THEOREM IndexImplementsStore == Spec => Store!Steps
<1> DEFINE life == [o \in Obs |-> LifeOf(o)]
<1>1. Init => Store!Init
  BY DEF Init, Store!Init, LifeOf
<1>2. IndexInv /\ IndexInv' /\ [Next]_vars => [Store!Next]_life
  <2> SUFFICES ASSUME IndexInv, IndexInv', [Next]_vars PROVE Store!Next
    OBVIOUS
  <2>1. \A o \in Obs : Lived(o)
    BY LivedStep
  <2>2. \A o \in Obs : /\ LifeOf(o)' \in Store!Lives
                       /\ LifeOf(o)' # LifeOf(o) => <<LifeOf(o), LifeOf(o)'>> \in Store!MayBecome
    BY <2>1, LifeMoves
  <2>3. life' = [o \in Obs |-> LifeOf(o)']
    OBVIOUS
  <2>. QED
    BY <2>2, <2>3 DEF Store!Next
<1>. QED
  BY <1>1, <1>2, IndexCorrect, PTL DEF Spec, Store!Steps
-----------------------------------------------------------------------------

(* What the engine has, or is about to be told by whoever holds the notify   *)
(* lock.                                                                     *)
Told == IF teller = Free THEN engine ELSE teller.has

(* Who holds the notify lock is the one at that point of its own code.       *)
TellerInv ==
  /\ teller.who = "nobody" => teller = Free
  /\ teller.who = Loader <=> loader = "told"

(* When neither the loader nor the reaper has still to read what the pool    *)
(* has, the engine has been told, or is being told, the truth.               *)
ToldInv == loader # "tell" /\ ~reaper.tell => Told = (pipe # "none")

(* While an encoder is on its way out a pipeline, or a wish for one, can     *)
(* only have come from a camera that came back.                              *)
DropInv ==
  /\ reaper.drop /\ (wanted \/ pipe # "none") => regained
  /\ pipe = "own" => regained

(* What the pool believes of the cameras is what they are, or somebody has   *)
(* still to tell it, or the word of a removal came late; the camera a request *)
(* has still to speak for cannot go before it has.                           *)
WantInv ==
  /\ \A c \in Clients : client[c].at = "yes" => client[c].cam \in cams
  /\ wanted /\ cams = {} => \E c \in Clients : client[c].at \in {"no", "move"}
  /\ cams # {} /\ ~wanted => outrun \/ \E c \in Clients : client[c].at = "yes"
  /\ outrun => ~wanted

PoolInv == PoolTypeOK /\ TellerInv /\ ToldInv /\ DropInv /\ WantInv
-----------------------------------------------------------------------------
(* The models.                                                               *)

\* What is noted for a request, and what is read and left to do, have their types.
LEMMA Notes ==
  ASSUME NEW b \in BOOLEAN, NEW d \in BOOLEAN
  PROVE  /\ Resting \in Orders
         /\ \A k \in Slugs : \A at \in {"yes", "no", "again", "move"} :
              [at |-> at, cam |-> k] \in Orders
         /\ Free \in Tellers /\ [who |-> Loader, has |-> b] \in Tellers
         /\ [who |-> Reaper, has |-> b] \in Tellers
         /\ NoTick \in Ticks /\ [tell |-> b, drop |-> d] \in Ticks
         /\ \A x \in Ticks : [x EXCEPT !.tell = FALSE] \in Ticks
BY DEF Resting, Orders, Free, Tellers, NoTick, Ticks, Loader, Reaper

LEMMA Asked == \A x \in Orders : x.at # "idle" => x.cam \in Slugs
<1>1. Resting.at = "idle"
  BY DEF Resting
<1>2. \A x \in [at : {"yes", "no", "again", "move"}, cam : Slugs] : x.cam \in Slugs
  OBVIOUS
<1>. QED
  BY <1>1, <1>2 DEF Orders

LEMMA PoolTypeStep == PoolTypeOK /\ [PoolNext]_poolVars => PoolTypeOK'
<1> SUFFICES ASSUME PoolTypeOK, [PoolNext]_poolVars PROVE PoolTypeOK'
  OBVIOUS
<1> USE DEF PoolTypeOK, poolVars, engineVars, loadVars, tellVars, clockVars, poolHistory
<1>0. ASSUME NEW c \in Clients
      PROVE  client[c].at # "idle" => client[c].cam \in Slugs
  BY Asked
<1>1. CASE UNCHANGED poolVars
  BY <1>1
<1>2. ASSUME NEW c \in Clients, NEW k \in Slugs,
             AddCamera(c, k) \/ RemoveCamera(c, k) \/ MoveCamera(c, k)
      PROVE  PoolTypeOK'
  <2>1. client' \in [Clients -> Orders]
    <3>1. client' = client \/ \E x \in Orders : client' = [client EXCEPT ![c] = x]
      BY <1>2, Notes DEF AddCamera, RemoveCamera, MoveCamera, Becomes, Enter
    <3>. QED
      BY <3>1
  <2>2. cams' \subseteq Slugs
    BY <1>2 DEF AddCamera, RemoveCamera, MoveCamera, Enter
  <2>. QED
    BY <1>2, <2>1, <2>2 DEF AddCamera, RemoveCamera, MoveCamera
<1>3. ASSUME NEW c \in Clients, ClientStep(c) PROVE PoolTypeOK'
  <2>1. client' \in [Clients -> Orders]
    <3>1. client' = client \/ \E x \in Orders : client' = [client EXCEPT ![c] = x]
      BY <1>0, <1>3, Notes DEF ClientStep, AddAgain, WantIngest, UnwantIngest, Becomes, Enter
    <3>. QED
      BY <3>1
  <2>2. CASE AddAgain(c)
    <3>1. cams' \subseteq Slugs
      BY <1>0, <2>2 DEF AddAgain, Enter
    <3>. QED
      BY <2>1, <2>2, <3>1 DEF AddAgain
  <2>3. CASE WantIngest(c)
    BY <2>1, <2>3 DEF WantIngest, SpawnLoader
  <2>4. CASE UnwantIngest(c)
    BY <2>1, <2>4 DEF UnwantIngest
  <2>. QED
    BY <1>3, <2>2, <2>3, <2>4 DEF ClientStep
<1>4. CASE LoaderStep
  BY <1>4 DEF LoaderStep, WarmForNobody, Warm, WarmFails, LoaderEnds
<1>5. CASE Retry
  BY <1>5 DEF Retry, SpawnLoader
<1>6. CASE Release
  <2>1. reaper' \in Ticks
    BY <1>6, Notes DEF Release
  <2>. QED
    BY <1>6, <2>1 DEF Release
<1>7. CASE DropEncoder
  BY <1>7, Notes DEF DropEncoder
<1>8. CASE Carry(Loader) \/ Carry(Reaper)
  <2>1. teller' \in Tellers /\ reaper' \in Ticks
    BY <1>8, Notes DEF Carry
  <2>. QED
    BY <1>8, <2>1 DEF Carry
<1>9. CASE Deliver
  <2>1. engine' \in BOOLEAN /\ teller' \in Tellers
    <3>1. teller.has \in BOOLEAN
      BY DEF Tellers
    <3>. QED
      BY <1>9, <3>1, Notes DEF Deliver
  <2>. QED
    BY <1>9, <2>1 DEF Deliver
<1>10. CASE Search \/ Pause
  BY <1>10 DEF Search, Pause
<1>. QED
  BY <1>1, <1>2, <1>3, <1>4, <1>5, <1>6, <1>7, <1>8, <1>9, <1>10
  DEF PoolNext, ReaperStep, TellStep

LEMMA PoolInitial == PoolInit => PoolInv
<1> SUFFICES ASSUME PoolInit PROVE PoolInv
  OBVIOUS
<1>1. client \in [Clients -> Orders] /\ teller \in Tellers /\ reaper \in Ticks
  BY Notes DEF PoolInit
<1>2. PoolTypeOK
  BY <1>1 DEF PoolInit, PoolTypeOK
<1>3. TellerInv /\ ToldInv /\ DropInv
  BY DEF PoolInit, TellerInv, ToldInv, DropInv, Told, Free, NoTick, Loader
<1>4. WantInv
  <2>1. \A c \in Clients : client[c].at = "idle"
    BY DEF PoolInit, Resting
  <2>. QED
    BY <2>1 DEF PoolInit, WantInv
<1>. QED
  BY <1>2, <1>3, <1>4 DEF PoolInv

\* Nothing but the requests moves what the pool is told of the cameras.
LEMMA WantStep == PoolInv /\ [PoolNext]_poolVars => WantInv'
<1> SUFFICES ASSUME PoolInv, [PoolNext]_poolVars PROVE WantInv'
  OBVIOUS
<1>0. WantInv /\ client \in [Clients -> Orders]
  BY DEF PoolInv, PoolTypeOK
<1>1. CASE UNCHANGED <<cams, client, wanted, outrun>>
  BY <1>0, <1>1 DEF WantInv
<1>2. ASSUME NEW c \in Clients, NEW x, client' = [client EXCEPT ![c] = x]
      PROVE  client'[c] = x /\ \A d \in Clients \ {c} : client'[d] = client[d]
  BY <1>0, <1>2
<1>3. ASSUME NEW c \in Clients, NEW k \in Slugs, client[c].at \in {"idle", "again"},
             Enter(c, k), UNCHANGED <<wanted, outrun>>
      PROVE  WantInv'
  <2>1. cams' = cams \cup {k} /\ \A d \in Clients \ {c} : client'[d] = client[d]
    BY <1>2, <1>3 DEF Enter, Becomes
  <2>2. IF cams = {} THEN client'[c].at = "yes" /\ client'[c].cam = k
                     ELSE client'[c].at = "idle"
    BY <1>2, <1>3 DEF Enter, Becomes, Resting
  <2>. QED
    BY <1>0, <1>3, <2>1, <2>2 DEF WantInv
<1>4. ASSUME NEW c \in Clients, NEW k \in Slugs, client[c].at = "idle", ~Locked(k),
             RemoveCamera(c, k) \/ MoveCamera(c, k)
      PROVE  WantInv'
  <2>1. /\ \A d \in Clients \ {c} : client'[d] = client[d]
        /\ client'[c].at \in {"idle", "no", "again", "move"}
        /\ cams = {k} => client'[c].at \in {"no", "move"}
    BY <1>2, <1>4 DEF RemoveCamera, MoveCamera, Becomes
  <2>2. cams' = cams \ {k} /\ UNCHANGED <<wanted, outrun>> /\ k \in cams
    BY <1>4 DEF RemoveCamera, MoveCamera, loadVars, poolHistory
  <2>3. \A d \in Clients : client[d].at = "yes" => client[d].cam # k
    BY <1>4 DEF Locked
  <2>4. \A d \in Clients : /\ client'[d].at = "yes" => d # c /\ client[d].at = "yes"
                           /\ client[d].at \in {"yes", "no", "move"} => client'[d] = client[d]
    BY <1>4, <2>1
  <2>5. \A d \in Clients : client'[d].at = "yes" => client'[d].cam \in cams'
    BY <1>0, <2>1, <2>2, <2>3, <2>4 DEF WantInv
  <2>6. wanted' /\ cams' = {} => \E d \in Clients : client'[d].at \in {"no", "move"}
    BY <1>4, <2>1, <2>2
  <2>7. cams' # {} /\ ~wanted' => outrun' \/ \E d \in Clients : client'[d].at = "yes"
    <3> SUFFICES ASSUME cams' # {}, ~wanted', ~outrun'
                 PROVE  \E d \in Clients : client'[d].at = "yes"
      OBVIOUS
    <3>1. cams # {} /\ ~wanted /\ ~outrun
      BY <2>2
    <3>2. PICK d \in Clients : client[d].at = "yes"
      BY <1>0, <3>1 DEF WantInv
    <3>3. client'[d] = client[d]
      BY <2>4, <3>2
    <3>. QED
      BY <3>2, <3>3
  <2>. QED
    BY <1>0, <2>2, <2>5, <2>6, <2>7 DEF WantInv
<1>5. ASSUME NEW c \in Clients, WantIngest(c) PROVE WantInv'
  <2>1. /\ \A d \in Clients \ {c} : client'[d] = client[d]
        /\ client'[c].at = "idle" /\ client[c].at = "yes"
    <3>1. client' = [client EXCEPT ![c] = Resting] /\ client[c].at = "yes"
      BY <1>5 DEF WantIngest
    <3>2. client'[c] = Resting /\ \A d \in Clients \ {c} : client'[d] = client[d]
      BY <1>2, <3>1
    <3>. QED
      BY <3>1, <3>2 DEF Resting
  <2>2. cams' = cams /\ wanted' /\ (outrun' => wanted /\ outrun)
    BY <1>5 DEF WantIngest, poolHistory
  <2>. QED
    BY <1>0, <2>1, <2>2 DEF WantInv
<1>6. ASSUME NEW c \in Clients, UnwantIngest(c) PROVE WantInv'
  <2>1. /\ \A d \in Clients \ {c} : client'[d] = client[d]
        /\ client'[c].at \in {"idle", "again"} /\ client[c].at # "yes"
    BY <1>2, <1>6 DEF UnwantIngest, Becomes, Resting
  <2>2. cams' = cams /\ ~wanted' /\ outrun' = (cams # {})
    BY <1>6 DEF UnwantIngest
  <2>. QED
    BY <1>0, <2>1, <2>2 DEF WantInv
<1>7. ASSUME NEW c \in Clients, AddAgain(c) PROVE WantInv'
  <2>1. client[c] \in Orders /\ client[c].at = "again"
    BY <1>0, <1>7 DEF AddAgain
  <2>2. client[c].cam \in Slugs
    BY <2>1, Asked
  <2>. QED
    BY <1>3, <1>7, <2>2 DEF AddAgain, loadVars, poolHistory
<1>8. ASSUME NEW c \in Clients, NEW k \in Slugs,
             AddCamera(c, k) \/ RemoveCamera(c, k) \/ MoveCamera(c, k)
      PROVE  WantInv'
  <2>1. CASE AddCamera(c, k)
    BY <1>3, <2>1 DEF AddCamera, loadVars, poolHistory
  <2>2. CASE RemoveCamera(c, k) \/ MoveCamera(c, k)
    BY <1>4, <2>2 DEF RemoveCamera, MoveCamera
  <2>. QED
    BY <1>8, <2>1, <2>2
<1>9. CASE LoaderStep \/ ReaperStep \/ TellStep \/ Search \/ Pause \/ UNCHANGED poolVars
  <2>. USE DEF poolVars, engineVars, loadVars, poolHistory
  <2>1. CASE LoaderStep \/ UNCHANGED poolVars
    BY <1>1, <2>1 DEF LoaderStep, WarmForNobody, Warm, WarmFails, LoaderEnds
  <2>2. CASE ReaperStep
    BY <1>1, <2>2 DEF ReaperStep, Retry, Release, DropEncoder
  <2>3. CASE TellStep
    BY <1>1, <2>3 DEF TellStep, Carry, Deliver
  <2>4. CASE Search \/ Pause
    BY <1>1, <2>4 DEF Search, Pause
  <2>. QED
    BY <1>9, <2>1, <2>2, <2>3, <2>4
<1>. QED
  BY <1>5, <1>6, <1>7, <1>8, <1>9 DEF PoolNext, ClientStep

LEMMA PoolStep == PoolInv /\ [PoolNext]_poolVars => PoolInv'
<1> SUFFICES ASSUME PoolInv, [PoolNext]_poolVars PROVE TellerInv' /\ ToldInv' /\ DropInv'
  BY PoolTypeStep, WantStep DEF PoolInv
<1> USE DEF PoolInv, TellerInv, ToldInv, DropInv, Told,
            poolVars, engineVars, loadVars, tellVars, clockVars, poolHistory, Loader, Reaper, Free
<1>1. CASE UNCHANGED poolVars
  BY <1>1
<1>2. ASSUME NEW c \in Clients, NEW k \in Slugs,
             AddCamera(c, k) \/ RemoveCamera(c, k) \/ MoveCamera(c, k)
      PROVE  TellerInv' /\ ToldInv' /\ DropInv'
  <2>1. UNCHANGED <<wanted, loader, pipe, engine, teller, reaper, regained>>
    BY <1>2 DEF AddCamera, RemoveCamera, MoveCamera
  <2>. QED
    BY <2>1
<1>3. ASSUME NEW c \in Clients, ClientStep(c) PROVE TellerInv' /\ ToldInv' /\ DropInv'
  <2>1. CASE AddAgain(c)
    BY <2>1 DEF AddAgain
  <2>2. CASE WantIngest(c)
    <3>1. DropInv'
      BY <2>2 DEF WantIngest, PoolTypeOK
    <3>2. TellerInv' /\ ToldInv'
      BY <2>2 DEF WantIngest, SpawnLoader, Spawnable, PoolTypeOK
    <3>. QED
      BY <3>1, <3>2
  <2>3. CASE UnwantIngest(c)
    BY <2>3 DEF UnwantIngest
  <2>. QED
    BY <1>3, <2>1, <2>2, <2>3 DEF ClientStep
<1>4. CASE LoaderStep
  BY <1>4 DEF LoaderStep, WarmForNobody, Warm, WarmFails, LoaderEnds, PoolTypeOK
<1>5. CASE Retry
  BY <1>5 DEF Retry, SpawnLoader, Spawnable, PoolTypeOK
<1>6. CASE Release
  BY <1>6 DEF Release, TickIdle, NoTick, PoolTypeOK
<1>7. CASE DropEncoder
  BY <1>7 DEF DropEncoder, NoTick, PoolTypeOK
<1>8. CASE Carry(Loader) \/ Carry(Reaper)
  <2>1. teller' = [who |-> "loader", has |-> pipe # "none"] \/ teller' = [who |-> "reaper", has |-> pipe # "none"]
    BY <1>8 DEF Carry
  <2>2. Told' = (pipe # "none") /\ teller'.who # "nobody"
    BY <2>1
  <2>3. teller'.who = "loader" <=> loader' = "told"
    BY <1>8 DEF Carry
  <2>4. UNCHANGED <<wanted, pipe, engine, regained>> /\ reaper'.drop = reaper.drop
    BY <1>8 DEF Carry, PoolTypeOK, Ticks
  <2>. QED
    BY <2>2, <2>3, <2>4
<1>9. CASE Deliver
  BY <1>9 DEF Deliver, Free, Loader, Reaper, PoolTypeOK
<1>10. CASE Search \/ Pause
  BY <1>10 DEF Search, Pause
<1>. QED
  BY <1>1, <1>2, <1>3, <1>4, <1>5, <1>6, <1>7, <1>8, <1>9, <1>10
  DEF PoolNext, ReaperStep, TellStep

THEOREM PoolCorrect == PoolSpec => []PoolInv
BY PoolInitial, PoolStep, PTL DEF PoolSpec

\* The engine feeds the pipeline the pool has and none it has released, once nobody has
\* still to tell it, and the pool is wanted exactly while there are cameras, once it has
\* been told, unless a removal's word came late; whatever loads, releases and
\* registrations overlap (models.py, _notify, want_ingest and the reaper).
THEOREM EngineStaysCurrent == PoolSpec => []EngineCurrent
<1>1. PoolInv => EngineCurrent
  <2> SUFFICES ASSUME PoolInv PROVE EngineCurrent
    OBVIOUS
  <2>1. Heard => wanted = (cams # {} /\ ~outrun)
    <3>1. {wanted, outrun} \subseteq BOOLEAN /\ WantInv
      BY DEF PoolInv, PoolTypeOK
    <3>. QED
      BY <3>1 DEF WantInv, Heard
  <2>. QED
    BY <2>1 DEF PoolInv, ToldInv, DropInv, Told, EngineCurrent
<1>. QED
  BY <1>1, PoolCorrect, PTL

-----------------------------------------------------------------------------
(* The service.                                                              *)

\* Each half of the service behaves as its own specification says.
LEMMA IndexHalf == SearchSpec => Spec
<1>1. SearchInit => Init
  BY DEF SearchInit
<1>2. [SearchNext]_searchVars => [Next]_vars
  BY DEF SearchNext, Indexes, Pools, searchVars
<1>. QED
  BY <1>1, <1>2, PTL DEF SearchSpec, Spec

LEMMA PoolHalf == SearchSpec => PoolSpec
<1>1. SearchInit => PoolInit
  BY DEF SearchInit
<1>2. [SearchNext]_searchVars => [PoolNext]_poolVars
  BY DEF SearchNext, Indexes, Pools, searchVars
<1>. QED
  BY <1>1, <1>2, PTL DEF SearchSpec, PoolSpec

\* Both halves keep their types.
THEOREM SearchTypeCorrect == SearchSpec => []SearchTypeOK
<1>1. SearchInit => half \in Halves
  BY DEF SearchInit
<1>2. half \in Halves /\ [SearchNext]_searchVars => (half \in Halves)'
  BY DEF SearchNext, Indexes, Pools, searchVars
<1>3. SearchSpec => [](half \in Halves)
  BY <1>1, <1>2, PTL DEF SearchSpec
<1>4. half \in Halves /\ TypeOK /\ PoolInv => SearchTypeOK
  BY DEF SearchTypeOK, PoolInv
<1>. QED
  BY <1>3, <1>4, IndexHalf, PoolHalf, IndexTypeCorrect, PoolCorrect, PTL

\* The coverage sweep leaves half of what it counts, and every row whose footage an
\* honest recorder has, in the service as a whole (coverage.py).
THEOREM CoverageIsCareful == SearchSpec => SweepsWithCare
BY IndexHalf, HalfIsLeft, FootageKeeps, PTL DEF SweepsWithCare

\* Hits keep their images, deadlines follow the policy and the engine is told the truth,
\* in the service as a whole.
THEOREM ServiceCorrect == SearchSpec => [](RowsKeepImages /\ DeadlineKept /\ EngineCurrent)
BY IndexHalf, PoolHalf, HitsKeepImages, DeadlinesFollow, EngineStaysCurrent, PTL
==============================================================================
