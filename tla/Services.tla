------------------------------- MODULE Services -------------------------------
(***************************************************************************)
(* What the workers of the management API do, side by side: the reconcile  *)
(* loop under its lock, the audit trail, the network scan, the cameras of  *)
(* the analytics service, who may do what, what cameras are analysed for,  *)
(* and the files of an external pipeline.  They share a process but no     *)
(* state, so one of them moves in a behaviour and the others stay where    *)
(* they began.                                                             *)
(***************************************************************************)
EXTENDS Management, AuditTrail, Discovery, Analytics, Policy, AiConfig, Deepstream

VARIABLE part

Parts == {"management", "audit", "discovery", "analytics", "access", "design", "pipeline"}
On(p) == part = p

servicesVars ==
  <<managementVars, auditVars, discoveryVars, analyticsVars, policyVars, aiVars, dsVars, part>>

(* A part that stays takes one of its initial states.                      *)
Begins(p, all) == IF On(p) THEN all ELSE {CHOOSE one \in all : TRUE}
ServicesInit ==
  /\ part \in Parts
  /\ \E s \in Begins("management", Scenarios) : lockBudget = s[1] /\ syncBudget = s[2]
  /\ ManagementInit
  /\ auditBudget \in Begins("audit", AuditBudgets) /\ stamp \in Begins("audit", Timings) /\ AuditInit
  /\ scanBudget \in Begins("discovery", ScanBudgets) /\ DiscoveryInit
  /\ siteBudget \in Begins("analytics", AnalyticsBudgets) /\ AnalyticsInit
  /\ policyBudget \in Begins("access", PolicyBudgets) /\ PolicyInit
  /\ ~On("access") => stored.says = <<>>
  /\ aiBudget \in Begins("design", AiBudgets) /\ AiInit
  /\ dsBudget \in Begins("pipeline", DsBudgets) /\ first \in Begins("pipeline", Dirs) /\ DsInit

Manages ==
  /\ On("management") /\ ManagementNext
  /\ UNCHANGED <<auditVars, discoveryVars, analyticsVars, policyVars, aiVars, dsVars, part>>
Audits ==
  /\ On("audit") /\ AuditNext
  /\ UNCHANGED <<managementVars, discoveryVars, analyticsVars, policyVars, aiVars, dsVars, part>>
Discovers ==
  /\ On("discovery") /\ DiscoveryNext
  /\ UNCHANGED <<managementVars, auditVars, analyticsVars, policyVars, aiVars, dsVars, part>>
Analyses ==
  /\ On("analytics") /\ AnalyticsNext
  /\ UNCHANGED <<managementVars, auditVars, discoveryVars, policyVars, aiVars, dsVars, part>>
Permits ==
  /\ On("access") /\ PolicyNext
  /\ UNCHANGED <<managementVars, auditVars, discoveryVars, analyticsVars, aiVars, dsVars, part>>
Plans ==
  /\ On("design") /\ AiNext
  /\ UNCHANGED <<managementVars, auditVars, discoveryVars, analyticsVars, policyVars, dsVars, part>>
Projects ==
  /\ On("pipeline") /\ DsNext
  /\ UNCHANGED <<managementVars, auditVars, discoveryVars, analyticsVars, policyVars, aiVars, part>>

ServicesNext == Manages \/ Audits \/ Discovers \/ Analyses \/ Permits \/ Plans \/ Projects

(* Rounds, passes, calls and the monitor go on; a process that ends is     *)
(* started again, the key of one that is gone expires, and the cache comes *)
(* back.                                                                   *)
ManagementFairness ==
  /\ \A w \in Workers : /\ WF_managementVars(On("management") /\ LeaderPass(w))
                        /\ WF_managementVars(On("management") /\ RoundStep(w))
                        /\ WF_managementVars(On("management") /\ StartStep(w))
  /\ \A h \in Handlers : WF_managementVars(On("management") /\ RequestCall(h))
  /\ WF_managementVars(On("management") /\ lock = Departed /\ LapseStep)
  /\ WF_managementVars(On("management") /\ CacheReturns)
  /\ WF_managementVars(On("management") /\ NvrStop) /\ WF_managementVars(On("management") /\ NvrMonitor)

(* A scan's calls time out, the page polls the job, and a key that nobody  *)
(* renews expires.                                                         *)
DiscoveryFairness ==
  /\ \A s \in Scans : WF_discoveryVars(On("discovery") /\ ScanStep(s))
  /\ \A r \in Polls : WF_discoveryVars(On("discovery") /\ PollStep(r))
  /\ WF_discoveryVars(On("discovery") /\ (\A s \in Scans : ~Under(s)) /\ Expire)

(* Requests are answered, the loop and the reaper go round, a load ends,   *)
(* time passes, and a container that stops is started again.               *)
AnalyticsFairness ==
  /\ \A c \in Savers : WF_analyticsVars(On("analytics") /\ SenderStep(c))
  /\ WF_analyticsVars(On("analytics") /\ LoopStep) /\ WF_analyticsVars(On("analytics") /\ LoadStep)
  /\ WF_analyticsVars(On("analytics") /\ TimePasses) /\ WF_analyticsVars(On("analytics") /\ ReaperTick)
  /\ WF_analyticsVars(On("analytics") /\ Process)

(* A save ends, what it pushes is sent, and the loop asserts what is stored.*)
DesignFairness ==
  /\ WF_aiVars(On("design") /\ EndSave) /\ WF_aiVars(On("design") /\ PushDesign)
  /\ WF_aiVars(On("design") /\ AssertRead) /\ WF_aiVars(On("design") /\ AssertDesign)

(* Sweeps end, the loop goes on, and a pipeline that stops is started.     *)
PipelineFairness ==
  /\ \A w \in Sweepers : WF_dsVars(On("pipeline") /\ Sweeping(w))
  /\ WF_dsVars(On("pipeline") /\ Looping) /\ WF_dsVars(On("pipeline") /\ PipeStarts)

(* Fairness is asked of the part that moves.                               *)
ServicesSpec ==
  /\ ServicesInit /\ [][ServicesNext]_servicesVars
  /\ ManagementFairness /\ DiscoveryFairness /\ AnalyticsFairness /\ DesignFairness /\ PipelineFairness

-----------------------------------------------------------------------------
ServicesTypeOK ==
  /\ part \in Parts /\ LockTypeOK /\ SyncTypeOK /\ AuditTypeOK /\ DiscoveryTypeOK /\ AnalyticsTypeOK
  /\ PolicyTypeOK /\ AiTypeOK /\ DsTypeOK

(* The reconcile loop never stays unattended: across deaths, stalls, loops *)
(* that end and a cache that is away, some worker comes to run it.         *)
LeaderFound == []<>(On("management") => Led)

(* When changes and faults end, the tracks that record are those the row   *)
(* asks for: a failed start or stop is made good by the reconcile loop.    *)
CamerasHeal == <>[](On("management") => AsRegistered)

(* When changes and faults end, analytics comes to watch the cameras as    *)
(* their rows ask, with the models they need and, without cameras, none.   *)
AnalyticsHeals == <>[](On("analytics") => Provided)

(* Discovery: one scan at a time while its lock is kept alive, and a camera *)
(* that was registered stays so, whatever probe still holds its row.       *)
DiscoveryHolds == []OneScan /\ RegistrationLasts

(* When saves and failures end, the activity engine runs the stored        *)
(* designs, and the pipeline the files of every camera that has one.       *)
DesignsHeal == <>[](On("design") => AiSettled)
PipelineHeals == <>[](On("pipeline") => DsSettled)

(* What was done by whom is on record, and what somebody may no longer do  *)
(* is refused by every worker before long.                                 *)
AccessAccounted == TrailComplete /\ RevokedSoon /\ EditSeen

(* What a camera is analysed for is what was accepted, in the hours and    *)
(* places that were drawn, whichever engine runs it, and what nobody here  *)
(* wrote is left alone.                                                    *)
AnalysisFits ==
  /\ PipelineFits /\ AcceptedRuns /\ ZonesNamed /\ HoursAgree /\ CalendarKept /\ NamesKept
  /\ HandmadeKept /\ OutdatedAccounted

(* The services come back from what befell them: a leader is found, a scan *)
(* is told as over, the cameras record and are watched as registered, and  *)
(* what was designed is run.                                               *)
ServicesRecover == LeaderFound /\ ScanTold /\ CamerasHeal /\ AnalyticsHeals /\ DesignsHeal /\ PipelineHeals
=============================================================================
