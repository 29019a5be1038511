------------------------------- MODULE Analytics -------------------------------
(***************************************************************************)
(* The analytics service loads the models its cameras ask for and releases *)
(* those that nobody asks for.  Its cameras come from the registry: a save *)
(* pushes one camera, a loop compares them all.  Requests, the warm-up     *)
(* thread and the reaper meet under one lock, but models are built and     *)
(* frames subscribed to outside it.                                        *)
(* Code: analytics/analytics/engine.py, frame_source.py;                   *)
(* camera-mgmt/backend/services/analytics_client.py.                       *)
(***************************************************************************)
EXTENDS Naturals, Sequences, FiniteSets

CONSTANTS Sites,          \* cameras
          Savers,         \* requests that save a camera's configuration
          Wishes,         \* what a configuration may ask for
          AnalyticsBudgets  \* what to ask for; saves, lost calls, failed loads, restarts

Readers == {"plate", "face"}
Pusher == "reconcile loop"
Senders == Savers \cup {Pusher}
Nothing == {}

ASSUME AnalyticsAssumption ==
  /\ IsFiniteSet(Sites) /\ Pusher \notin Savers /\ "none" \notin Sites
  /\ Wishes \subseteq SUBSET (Readers \cup {"person", "activity"}) /\ Nothing \notin Wishes
  /\ AnalyticsBudgets \subseteq [wish : [Sites -> SUBSET Wishes], save : Nat, lost : Nat, fail : Nat, restart : Nat]

VARIABLES
  row,         \* what each camera's row asks for
  deleted,     \* cameras whose row is gone
  sight,       \* the rows the loop has read: a function, or nothing yet
  todo,        \* calls a sender has still to make
  call,        \* the engine's answer under way: which subscription is next
  watched,     \* the engine's cameras, and what each asks for
  models,      \* the engine's models and who asks for them
  idleFor,     \* the clocks of those nobody asks for
  engineRuns,  \* the engine's mode, its warm-up thread, and how far stop() is
  told,        \* the domains the pipeline was given
  searchSub,   \* cameras whose frames the search pipeline gets
  everySub,    \* cameras of which the activity pipeline gets every frame
  overtaken,   \* history: cameras of which two requests were in the engine at once
  outlived,    \* history: faces were loaded for cameras that had stopped asking
  siteBudget

senderVars == <<row, deleted, sight, todo>>
subscriptionVars == <<searchSub, everySub>>
engineVars == <<watched, models, idleFor, engineRuns, told>>
analyticsVars == <<senderVars, call, engineVars, subscriptionVars, overtaken, outlived, siteBudget>>

SpendSite(c) == siteBudget[c] > 0 /\ siteBudget' = [siteBudget EXCEPT ![c] = @ - 1]

NoSites == [k \in {} |-> Nothing]
NotRead == [k \in {"nothing read"} |-> Nothing]
CallAt(at, site, ask) == [at |-> at, site |-> site, ask |-> ask]
NoCall == CallAt("idle", "none", Nothing)
Without(f, k) == [j \in DOMAIN f \ {k} |-> f[j]]
With(f, k, x) == [j \in DOMAIN f \cup {k} |-> IF j = k THEN x ELSE f[j]]

(* held and fitted are the readers the engine and its pipeline have, demand*)
(* those asked for, absent those that could not be had; a clock runs while *)
(* nobody asks for all models, the plate reader, or the activity detector. *)
Stock(pipe, active, held, fitted, demand, absent) ==
  [pipe |-> pipe, active |-> active, held |-> held, fitted |-> fitted, demand |-> demand, absent |-> absent]
Clocks(all, plate, activity) == [all |-> all, plate |-> plate, activity |-> activity]
EngineAt(mode, cooling, loader, need, down) ==
  [mode |-> mode, cooling |-> cooling, loader |-> loader, need |-> need, down |-> down]
ColdModels == Stock(FALSE, FALSE, {}, {}, {}, {})
ColdEngine ==
  /\ watched' = NoSites /\ told' = NoSites /\ models' = ColdModels
  /\ idleFor' = Clocks("on", "off", "off") /\ engineRuns' = EngineAt("idle", FALSE, "off", {}, "no")

AnalyticsInit ==
  /\ row = [k \in Sites |-> Nothing] /\ deleted = {} /\ sight = NotRead
  /\ todo = [c \in Senders |-> <<>>] /\ call = [c \in Senders |-> NoCall]
  /\ watched = NoSites /\ told = NoSites /\ models = ColdModels
  /\ idleFor = Clocks("on", "off", "off") /\ engineRuns = EngineAt("idle", FALSE, "off", {}, "no")
  /\ searchSub = {} /\ everySub = {} /\ overtaken = {} /\ outlived = FALSE
  /\ siteBudget \in AnalyticsBudgets

-----------------------------------------------------------------------------
(* The registry's side.                                                    *)

(* update_analytics_config commits and pushes what it committed.  A push   *)
(* that is lost stands for the handlers that leave it to the loop, too.    *)
Save(c, k) ==
  /\ k \notin deleted /\ todo[c] = <<>> /\ call[c] = NoCall /\ SpendSite("save")
  /\ \E ask \in siteBudget.wish[k] \cup {Nothing} :
       /\ ask # row[k] /\ row' = [row EXCEPT ![k] = ask]
       /\ todo' = [todo EXCEPT ![c] = <<[site |-> k, ask |-> ask]>>]
  /\ UNCHANGED <<deleted, sight, call, engineVars, subscriptionVars, overtaken, outlived>>

(* Nobody tells the service that a camera was deleted; one that asked for  *)
(* nothing is of no account.                                               *)
DeleteRow(k) ==
  /\ k \notin deleted /\ row[k] # Nothing /\ SpendSite("save") /\ deleted' = deleted \cup {k}
  /\ UNCHANGED <<row, sight, todo, call, engineVars, subscriptionVars, overtaken, outlived>>

ReadSites ==
  /\ todo[Pusher] = <<>> /\ call[Pusher] = NoCall /\ sight = NotRead
  /\ sight' = [k \in Sites \ deleted |-> row[k]]
  /\ UNCHANGED <<row, deleted, todo, call, engineVars, subscriptionVars, overtaken,
                 outlived, siteBudget>>

(* reconcile: add the missing, correct those that differ, and remove those *)
(* a row does not want; a camera without a row is left alone.              *)
AskOf(k, have) == IF k \in DOMAIN have THEN have[k] ELSE Nothing

Drifts(k) == k \in DOMAIN sight /\ AskOf(k, watched) # sight[k]

InOrder(S) == CHOOSE f \in [1..Cardinality(S) -> S] : \A k \in S : \E i \in DOMAIN f : f[i] = k

CompareSites ==
  /\ sight # NotRead /\ sight' = NotRead
  /\ todo' = [todo EXCEPT ![Pusher] =
       LET order == InOrder({k \in Sites : Drifts(k)})
       IN [i \in DOMAIN order |-> [site |-> order[i], ask |-> sight[order[i]]]]]
  /\ UNCHANGED <<row, deleted, call, engineVars, subscriptionVars, overtaken, outlived,
                 siteBudget>>

(* A call that does not get through is logged.                             *)
LoseCall(c) ==
  /\ todo[c] # <<>> /\ call[c] = NoCall /\ SpendSite("lost")
  /\ todo' = [todo EXCEPT ![c] = Tail(@)]
  /\ UNCHANGED <<row, deleted, sight, call, engineVars, subscriptionVars, overtaken,
                 outlived>>

-----------------------------------------------------------------------------
(* What the engine does under its lock.                                    *)

Asked(W, what) == \E k \in DOMAIN W : what \in W[k]

(* _note_plate_demand, _note_activity_demand, _note_face_demand: the face  *)
(* reader goes at once, the others' clocks start.                          *)
Noted(m, W) ==
  LET wants == {r \in Readers : Asked(W, r)}
      gone == {"face"} \cap (m.held \ wants)
  IN Stock(m.pipe, m.active, m.held \ gone, m.fitted \ gone, wants, m.absent \ (wants \ m.demand))
Ticks(now, asked, idle) == IF asked THEN "off" ELSE IF idle /\ now = "off" THEN "on" ELSE now
NotedClocks(clocks, m, W) ==
  Clocks(clocks.all, Ticks(clocks.plate, Asked(W, "plate"), "plate" \in m.held),
         Ticks(clocks.activity, Asked(W, "activity"), m.active))

NeedsWarmup(m, W) ==
  /\ W # NoSites
  /\ \/ ~m.pipe
     \/ Asked(W, "activity") /\ ~m.active
     \/ \E r \in Readers : Asked(W, r) /\ r \notin m.held \cup m.absent

Ensured(m, W) ==
  IF /\ engineRuns.down = "no" /\ NeedsWarmup(m, W) /\ engineRuns.loader = "off"
     /\ ~(engineRuns.mode = "failed" /\ engineRuns.cooling)
    THEN EngineAt("warming", engineRuns.cooling, "started", engineRuns.need, engineRuns.down) ELSE engineRuns

(* add_camera, also for one that is there, and remove_camera.              *)
Adds(k, ask) ==
  /\ watched' = With(watched, k, ask) /\ told' = IF models.pipe THEN With(told, k, ask) ELSE told
  /\ models' = Noted(models, watched') /\ engineRuns' = Ensured(models', watched')
  /\ idleFor' = NotedClocks([idleFor EXCEPT !.all = "off"], models, watched')

Removes(k) ==
  /\ watched' = Without(watched, k) /\ told' = Without(told, k)
  /\ models' = Noted(models, watched') /\ UNCHANGED engineRuns
  /\ idleFor' = NotedClocks([idleFor EXCEPT !.all = IF watched' = NoSites /\ @ = "off" THEN "on" ELSE @],
                            models, watched')

Inside(k) == \E c \in Senders : call[c].site = k

Enter(c) ==
  /\ todo[c] # <<>> /\ call[c] = NoCall /\ engineRuns.down # "done"
  /\ LET k == Head(todo[c]).site
         ask == Head(todo[c]).ask
     IN /\ \/ ask # Nothing /\ Adds(k, ask)
           \/ ask = Nothing /\ k \in DOMAIN watched /\ Removes(k)
           \/ ask = Nothing /\ k \notin DOMAIN watched /\ UNCHANGED engineVars
        /\ IF ask = Nothing /\ k \notin DOMAIN watched
             THEN UNCHANGED <<call, overtaken>>
             ELSE /\ call' = [call EXCEPT ![c] = CallAt("search", k, ask)]
                  /\ overtaken' = IF Inside(k) THEN overtaken \cup {k} ELSE overtaken \ {k}
  /\ todo' = [todo EXCEPT ![c] = Tail(@)]
  /\ UNCHANGED <<row, deleted, sight, subscriptionVars, outlived, siteBudget>>

(* The subscriptions follow, after the lock, one after the other.          *)
Toggle(S, k, on) == IF on THEN S \cup {k} ELSE S \ {k}

Subscribe(c) ==
  /\ \/ /\ call[c].at = "search" /\ call' = [call EXCEPT ![c] = CallAt("every", @.site, @.ask)]
        /\ searchSub' = Toggle(searchSub, call[c].site, call[c].ask \ {"activity"} # {})
        /\ UNCHANGED everySub
     \/ /\ call[c].at = "every" /\ call' = [call EXCEPT ![c] = NoCall]
        /\ everySub' = Toggle(everySub, call[c].site, "activity" \in call[c].ask)
        /\ UNCHANGED searchSub
  /\ UNCHANGED <<senderVars, engineVars, overtaken, outlived, siteBudget>>

-----------------------------------------------------------------------------
(* The warm-up thread.                                                     *)

(* Whatever is missing is built without the lock ...                       *)
Lacking ==
  {r \in Readers : Asked(watched, r) /\ r \notin models.held}
  \cup (IF Asked(watched, "activity") /\ ~models.active THEN {"activity"} ELSE {})
StartBuild ==
  /\ engineRuns.loader = "started"
  /\ engineRuns' = EngineAt(engineRuns.mode, engineRuns.cooling, "building", Lacking, engineRuns.down)
  /\ UNCHANGED <<senderVars, call, watched, models, idleFor, told, subscriptionVars, overtaken, outlived,
                 siteBudget>>

(* ... and installed under it, unless the service is going down.  A reader *)
(* nobody asks for any more is released by the first step, and handed to   *)
(* the pipeline by the second.                                             *)
Built(m, need, new) ==
  Stock(m.pipe, m.active \/ "activity" \in need, m.held \cup new, m.fitted, m.demand,
        m.absent \cup ((need \cap Readers) \ new))
Installed(m, need, new, W) ==
  LET n == Noted(Built(m, need, new), W)
  IN Stock(TRUE, n.active, n.held, (IF m.pipe THEN n.fitted ELSE n.held) \cup new, n.demand, n.absent)
Installs(new) ==
  /\ engineRuns.loader = "building" /\ engineRuns.down = "no"
  /\ IF new = engineRuns.need \cap Readers THEN UNCHANGED siteBudget ELSE SpendSite("fail")
  /\ models' = Installed(models, engineRuns.need, new, watched)
  /\ idleFor' = NotedClocks(idleFor, Built(models, engineRuns.need, new), watched)
  /\ engineRuns' = EngineAt("running", engineRuns.cooling, "off", {}, "no")
  /\ outlived' = (outlived \/ ("face" \in new /\ ~Asked(watched, "face")))
  /\ UNCHANGED <<senderVars, call, watched, subscriptionVars, overtaken>>

(* Mutant: cameras that came during the load are not told.                 *)
InstallUntold == (\E new \in SUBSET (engineRuns.need \cap Readers) : Installs(new)) /\ UNCHANGED told
Install ==
  \E new \in SUBSET (engineRuns.need \cap Readers) : Installs(new) /\ told' = IF models.pipe THEN told ELSE watched

BuildEnds ==
  /\ engineRuns.loader = "building"
  /\ \/ engineRuns.down # "no" /\ UNCHANGED siteBudget
        /\ engineRuns' = EngineAt(engineRuns.mode, engineRuns.cooling, "off", {}, engineRuns.down)
     \/ SpendSite("fail") /\ engineRuns' = EngineAt("failed", TRUE, "off", {}, engineRuns.down)
  /\ UNCHANGED <<senderVars, call, watched, models, idleFor, told, subscriptionVars, overtaken, outlived>>

-----------------------------------------------------------------------------
(* The reaper.                                                             *)

TimePasses ==
  /\ \/ /\ \E c \in {"all", "plate", "activity"} : idleFor[c] = "on" /\ idleFor' = [idleFor EXCEPT ![c] = "over"]
        /\ UNCHANGED engineRuns
     \/ engineRuns.cooling /\ engineRuns' = [engineRuns EXCEPT !.cooling = FALSE] /\ UNCHANGED idleFor
  /\ UNCHANGED <<senderVars, call, watched, models, told, subscriptionVars, overtaken, outlived, siteBudget>>

(* With cameras: what is missing is loaded, what has rested is released.   *)
TickBusy ==
  LET m == Noted(models, watched)
      clocks == NotedClocks([idleFor EXCEPT !.all = "off"], models, watched)
      rested(c) == clocks[c] = "over" /\ ~Asked(watched, c)
      plates == IF "plate" \in m.held /\ rested("plate") THEN {"plate"} ELSE {}
      activity == m.active /\ rested("activity") IN
  /\ watched # NoSites /\ engineRuns.down = "no" /\ engineRuns' = Ensured(models, watched)
  /\ models' = Stock(m.pipe, m.active /\ ~activity, m.held \ plates, m.fitted \ plates, m.demand, m.absent)
  /\ idleFor' = Clocks("off", IF plates # {} THEN "off" ELSE clocks.plate, IF activity THEN "off" ELSE clocks.activity)
  /\ UNCHANGED <<senderVars, call, watched, told, subscriptionVars, overtaken, outlived, siteBudget>>

(* _detach: the detector, the pipeline and the plate reader; and           *)
(* _detach_activity.                                                       *)
Detached(m) == Stock(FALSE, FALSE, m.held \ {"plate"}, {}, m.demand, m.absent \ {"plate"})

(* Without cameras for the timeout: everything is.                         *)
TickIdle ==
  /\ watched = NoSites /\ engineRuns.down = "no" /\ idleFor.all = "over"
  /\ models' = IF models.pipe THEN Detached(models) ELSE [models EXCEPT !.active = FALSE]
  /\ idleFor' = Clocks("over", IF models.pipe THEN "off" ELSE idleFor.plate,
                       IF models.active THEN "off" ELSE idleFor.activity)
  /\ engineRuns' = IF models.pipe THEN [engineRuns EXCEPT !.mode = "idle"] ELSE engineRuns
  /\ told' = NoSites
  /\ UNCHANGED <<senderVars, call, watched, subscriptionVars, overtaken, outlived, siteBudget>>

-----------------------------------------------------------------------------
(* The process.  stop() sets the event, then releases what there is.       *)

StopSet ==
  /\ engineRuns.down = "no" /\ SpendSite("restart") /\ engineRuns' = [engineRuns EXCEPT !.down = "set"]
  /\ UNCHANGED <<senderVars, call, watched, models, idleFor, told, subscriptionVars, overtaken, outlived>>

StopDone ==
  /\ engineRuns.down = "set" /\ told' = NoSites
  /\ models' = Detached(models) /\ idleFor' = Clocks(idleFor.all, "off", "off")
  /\ engineRuns' = EngineAt("idle", engineRuns.cooling, engineRuns.loader, engineRuns.need, "done")
  /\ UNCHANGED <<senderVars, call, watched, subscriptionVars, overtaken, outlived, siteBudget>>

(* A new process knows no camera; calls that were under way are lost.      *)
Restart ==
  /\ engineRuns.down = "done" /\ ColdEngine
  /\ call' = [c \in Senders |-> NoCall]
  /\ searchSub' = {} /\ everySub' = {} /\ overtaken' = {} /\ outlived' = FALSE
  /\ UNCHANGED <<senderVars, siteBudget>>

SenderStep(c) == Enter(c) \/ Subscribe(c)
LoopStep == ReadSites \/ CompareSites \/ SenderStep(Pusher)
LoadStep == StartBuild \/ Install \/ BuildEnds
ReaperTick == TickBusy \/ TickIdle
Process == StopDone \/ Restart

AnalyticsNext ==
  \/ \E c \in Savers : SenderStep(c) \/ \E k \in Sites : Save(c, k)
  \/ \E c \in Senders : LoseCall(c)
  \/ \E k \in Sites : DeleteRow(k)
  \/ LoopStep \/ LoadStep \/ TimePasses \/ ReaperTick \/ StopSet \/ Process

AnalyticsSpec == AnalyticsInit /\ [][AnalyticsNext]_analyticsVars

-----------------------------------------------------------------------------
AnalyticsTypeOK ==
  /\ row \in [Sites -> Wishes \cup {Nothing}] /\ deleted \subseteq Sites
  /\ DOMAIN watched \subseteq Sites /\ DOMAIN told \subseteq Sites
  /\ call \in [Senders -> [at : {"idle", "search", "every"}, site : Sites \cup {"none"},
                           ask : Wishes \cup {Nothing}]]
  /\ models \in [pipe : BOOLEAN, active : BOOLEAN, held : SUBSET Readers, fitted : SUBSET Readers,
                 demand : SUBSET Readers, absent : SUBSET Readers]
  /\ idleFor \in [all : {"off", "on", "over"}, plate : {"off", "on", "over"}, activity : {"off", "on", "over"}]
  /\ engineRuns \in [mode : {"idle", "warming", "running", "failed"}, cooling : BOOLEAN,
                     loader : {"off", "started", "building"}, need : SUBSET (Readers \cup {"activity"}),
                     down : {"no", "set", "done"}]
  /\ searchSub \subseteq Sites /\ everySub \subseteq Sites
  /\ overtaken \subseteq Sites /\ outlived \in BOOLEAN

(* What the pipeline has is what the engine has and what cameras asked for:*)
(* their domains, though they came during a load; the plate reader, though *)
(* demand came and went; nothing, after the service was stopped; and the   *)
(* frames of the cameras that want them.  Two exceptions: faces loaded for *)
(* nobody, and a camera of which two requests met.                         *)
PipelineFits ==
  /\ models.pipe => told = watched
  /\ models.pipe => models.fitted \ models.held \subseteq (IF outlived THEN {"face"} ELSE {})
  /\ models.pipe => models.held \subseteq models.fitted
  /\ engineRuns.down = "done" => ~models.pipe /\ ~models.active
  /\ \A k \in Sites \ overtaken : ~Inside(k) =>
       /\ k \in searchSub <=> AskOf(k, watched) \ {"activity"} # {}
       /\ k \in everySub <=> "activity" \in AskOf(k, watched)

(* The service watches the cameras of the rows as they ask; a model that   *)
(* somebody asks for is loaded or known not to be had, and without cameras *)
(* every model is released.                                                *)
Provided ==
  /\ \A k \in Sites \ deleted : AskOf(k, watched) = row[k]
  /\ \A r \in Readers : Asked(watched, r) => r \in models.fitted \cup models.absent
  /\ Asked(watched, "activity") => models.active
  /\ watched = NoSites => ~models.pipe /\ ~models.active

(* The face reader is released at once when no camera asks for faces.      *)
FacesOnlyWhenAsked == "face" \in models.fitted => Asked(watched, "face")
=============================================================================
