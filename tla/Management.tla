------------------------------ MODULE Management ------------------------------
(***************************************************************************)
(* The workers of the management API together: each of them would run the  *)
(* reconcile loop, the one that leads does, and any of them may be serving *)
(* the request that changes the camera.                                    *)
(* Code: main.py starts reconcile_loop under run_as_leader in each worker. *)
(***************************************************************************)
EXTENDS LeaderLock, CameraSync

CONSTANT Scenarios        \* what a behaviour may spend: <<lock budget, sync budget>>

ASSUME LoopsAreWorkers == Loops = Workers
ASSUME ScenarioAssumption == Scenarios \subseteq LockBudgets \X SyncBudgets

managementVars == <<lockVars, syncVars>>

ManagementInit ==
  /\ LockInit /\ SyncInit /\ <<lockBudget, syncBudget>> \in Scenarios

(* A pass belongs to the loop: it makes its next call only while the loop  *)
(* runs, and is dropped with it.                                           *)
LeaderPass(w) == loop[w] = "on" /\ PassStep(w) /\ UNCHANGED lockVars
LeaderMiss(w) == loop[w] = "on" /\ Miss(w) /\ UNCHANGED lockVars
RoundStep(w) ==
  \/ (StopLoop(w) \/ Release(w)) /\ CancelPass(w)
  \/ (Acquire(w) \/ Renew(w) \/ FailOpen(w)) /\ UNCHANGED syncVars
LoopFails(w) == (LoopExits(w) \/ Die(w)) /\ CancelPass(w)
QuitStep(w) == Quit(w) /\ UNCHANGED syncVars
StartStep(w) == Start(w) /\ UNCHANGED syncVars
LapseStep == Lapse /\ UNCHANGED syncVars
CacheGoes == LoseCache /\ UNCHANGED syncVars
CacheReturns == RegainCache /\ UNCHANGED syncVars

(* Requests, and the NVR by itself.                                        *)
RequestChange(h) == (\E kind \in Kinds : Commit(h, kind)) /\ UNCHANGED lockVars
RequestCall(h) == (Do(h) \/ Finish(h)) /\ UNCHANGED lockVars
RequestMiss(h) == Miss(h) /\ UNCHANGED lockVars
NvrStop == Removed /\ UNCHANGED lockVars
NvrMonitor == MonitorStep /\ UNCHANGED lockVars
NvrFault == (NvrRestart \/ \E t \in Tracks : WorkerDies(t)) /\ UNCHANGED lockVars

ManagementNext ==
  \/ \E w \in Workers : \/ LeaderPass(w) \/ LeaderMiss(w) \/ RoundStep(w)
                        \/ LoopFails(w) \/ QuitStep(w) \/ StartStep(w)
  \/ \E h \in Handlers : RequestChange(h) \/ RequestCall(h) \/ RequestMiss(h)
  \/ LapseStep \/ CacheGoes \/ CacheReturns \/ NvrStop \/ NvrMonitor \/ NvrFault

ManagementSpec == ManagementInit /\ [][ManagementNext]_managementVars
=============================================================================
