-------------------------------- MODULE AiConfig --------------------------------
(***************************************************************************)
(* What a camera is analysed for: the activities a build of the analytics  *)
(* service publishes, the catalogue camera management copies them into, a  *)
(* camera's design of regions and activities that is judged by the         *)
(* catalogue and stored, and what the activity engine makes of it.  The    *)
(* same design is also handed out in the form of an external pipeline;     *)
(* and beside it, when the camera records by its calendar.                 *)
(* Code: camera-mgmt/backend/services/activity_catalog.py,                 *)
(* analytics_client.py, deepstream.py, ai_events.py, schedule.py,          *)
(* analytics/activities/base.py, engine.py.                                *)
(***************************************************************************)
EXTENDS Naturals, Sequences, FiniteSets

CONSTANTS Keys,        \* names of activities
          Builds,      \* what a build of the service publishes: of some keys, a definition
          LineType,    \* the activity that counts who crosses a line
          DayLength,   \* clock times are 0..DayLength, the last only as an end
          Weekdays,    \* days of the week
          Dates,       \* days one after the other, what each is called by mode
          Calendars,   \* calendars that may be sent
          Syncers,     \* workers whose loop copies the registry
          AiBudgets    \* what may happen, from which design, with which designs sent

(* What a setting may be: numbers are counted in halves, items may be      *)
(* former names of options; and what may be sent of it.                    *)
SoundSetting(p) ==
  /\ p.kind \in {"number", "bool", "text", "enum", "list"} /\ p.least \in {0, 1}
  /\ DOMAIN p.aliases \cap p.options = {}
SoundValue(v) ==
  /\ v.items \in Seq({v.items[i] : i \in DOMAIN v.items})
  /\ v.kind \in {"enum", "list"} => v.n = 0
  /\ v.kind \notin {"enum", "list"} => v.items = <<>>
  /\ v.kind = "enum" => v.items # <<>>

(* Hours of an activity: none, or two clock times that may be garbled.     *)
Garbled == DayLength + 1
NoHours == [start |-> Garbled, end |-> Garbled, given |-> FALSE]
SoundHours(h) == h = NoHours \/ (h.start \in 0..Garbled /\ h.end \in 0..Garbled /\ h.given)
AiDesigns == UNION {b.from \cup b.offer : b \in AiBudgets}

ASSUME AiAssumption ==
  /\ LineType \in Keys /\ DayLength \in Nat \ {0, 1} /\ Len(Dates) \in Nat
  /\ \A b \in Builds : DOMAIN b \subseteq Keys /\ \A t \in DOMAIN b :
       b[t].rule \in {"required", "optional", "tripwire"} /\ SoundSetting(b[t].param)
  /\ \A d \in AiDesigns : \A t \in DOMAIN d.acts : SoundValue(d.acts[t].value) /\ SoundHours(d.acts[t].hours)
  /\ \A c \in Calendars : \A r \in c.rules : r.start \in 0..DayLength /\ r.end \in 0..DayLength
  /\ AiBudgets \subseteq [from : SUBSET AiDesigns, first : Builds, offer : SUBSET AiDesigns, copy : Nat, label : Nat,
                          save : Nat, lost : Nat, build : Nat, calendar : Nat]

VARIABLES
  build,      \* what the service that runs publishes
  catalogue,  \* a row of each activity that has ever been published
  syncing,    \* a copying worker: the definitions it fetched and the rows it read
  design,     \* the camera's stored design
  saving,     \* a request: the design it is about to store and the definitions that judged it
  pushes,     \* designs on their way to the service
  asserting,  \* the loop: the design it read
  engine,     \* the design the activity engine runs
  calendar,   \* when the camera records
  judged,     \* history: the definition by which a stored activity was accepted
  said,       \* history: the label an administrator gave
  aiBudget

copyVars == <<build, catalogue, syncing, said>>
designVars == <<design, saving, pushes, asserting, engine, judged>>
aiVars == <<copyVars, designVars, calendar, aiBudget>>

SpendAi(c) == aiBudget[c] > 0 /\ aiBudget' = [aiBudget EXCEPT ![c] = @ - 1]

CopyAt(st, defs, rows) == [st |-> st, defs |-> defs, rows |-> rows]
NoSyncing == CopyAt("idle", <<>>, <<>>)
NoActs == [drawn |-> <<>>, acts |-> <<>>]

-----------------------------------------------------------------------------
(* The catalogue.                                                          *)

(* Definitions that do not parse are passed over.                          *)
Parsed(b) == [k \in {j \in DOMAIN b : b[j].sound} |-> b[k]]

FetchDefs(w) ==
  /\ syncing[w] = NoSyncing /\ SpendAi("copy")
  /\ syncing' = [syncing EXCEPT ![w] = CopyAt("read", Parsed(build), <<>>)]
  /\ UNCHANGED <<build, catalogue, said, designVars, calendar>>
ReadTypes(w) ==
  /\ syncing[w].st = "read"
  /\ syncing' = [syncing EXCEPT ![w] = CopyAt("write", @.defs, catalogue)]
  /\ UNCHANGED <<build, catalogue, said, designVars, calendar, aiBudget>>

(* A row takes what differs from what was read; the label stays.           *)
Put(new, read, now) == IF new = read THEN now ELSE new
TypeRow(label, status, rule, param) == [label |-> label, status |-> status, rule |-> rule, param |-> param]
(* Mutant: the row is written anew.                                        *)
EntryAnew(d, read, now) == TypeRow("own", d.status, d.rule, d.param)
Entry(d, read, now) ==
  TypeRow(now.label, Put(d.status, read.status, now.status), Put(d.rule, read.rule, now.rule),
          Put(d.param, read.param, now.param))
NewRow(d) == TypeRow("own", d.status, d.rule, d.param)
Withdrawal(read, now) == TypeRow(now.label, Put("unregistered", read.status, now.status), now.rule, now.param)
(* A row that somebody else added meanwhile fails the whole copy.          *)
WriteTypes(w) ==
  LET s == syncing[w]
      new == DOMAIN s.defs \ DOMAIN s.rows
  IN
  /\ s.st = "write" /\ syncing' = [syncing EXCEPT ![w] = NoSyncing]
  /\ IF new \cap DOMAIN catalogue # {} THEN UNCHANGED <<catalogue, said>>
     ELSE /\ catalogue' = [k \in DOMAIN catalogue \cup new |->
                IF k \in new THEN NewRow(s.defs[k])
                ELSE IF k \notin DOMAIN s.rows THEN catalogue[k]
                ELSE IF k \in DOMAIN s.defs THEN Entry(s.defs[k], s.rows[k], catalogue[k])
                ELSE Withdrawal(s.rows[k], catalogue[k])]
          /\ said' = [k \in Keys |-> IF k \in new THEN "own" ELSE said[k]]
  /\ UNCHANGED <<build, designVars, calendar, aiBudget>>
Relabel(k) ==
  /\ k \in DOMAIN catalogue /\ SpendAi("label")
  /\ catalogue' = [catalogue EXCEPT ![k] = TypeRow("given", @.status, @.rule, @.param)] /\ said' = [said EXCEPT ![k] = "given"]
  /\ UNCHANGED <<build, syncing, designVars, calendar>>

-----------------------------------------------------------------------------
(* Settings.                                                               *)

NoValue == [kind |-> "none", n |-> 0, items |-> <<>>]
ItemsOf(v) == {v.items[i] : i \in DOMAIN v.items}

(* validate_params, in camera management.                                  *)
(* Mutant: any number.                                                     *)
AnyNumber(p, v) == v = NoValue \/ v.kind = p.kind
SettingsAllowed(p, v) ==
  \/ v = NoValue
  \/ /\ v.kind = p.kind
     /\ v.kind = "number" => (p.whole => v.n % 2 = 0) /\ v.n >= p.min /\ v.n <= p.max
     /\ v.kind \in {"enum", "list"} => ItemsOf(v) \subseteq p.options
     /\ v.kind = "list" => Len(v.items) >= p.least

(* Param.resolve, in the service: what does not do is replaced by the      *)
(* default, items that are unknown are left out, former names understood.  *)
Current(p, i) == IF i \in DOMAIN p.aliases THEN p.aliases[i] ELSE i
Resolved(p, v) ==
  LET kept == {Current(p, i) : i \in ItemsOf(v)} \cap p.options
      number == v.kind = "number" /\ (p.whole => v.n % 2 = 0) /\ v.n >= p.min /\ v.n <= p.max
  IN
  CASE v.kind # p.kind -> p.default
    [] p.kind = "number" -> IF number THEN [v |-> v.n, s |-> {}] ELSE p.default
    [] p.kind = "enum" -> IF kept = {} THEN p.default ELSE [v |-> 0, s |-> kept]
    [] p.kind = "list" -> IF Cardinality(kept) < p.least THEN p.default ELSE [v |-> 0, s |-> kept]
    [] OTHER -> [v |-> v.n, s |-> {}]

(* Regions: an area or a line, of which one may have no length; what is    *)
(* stored of old may be neither.                                           *)
RegionsOf(d, a) == {a.at[i] : i \in DOMAIN a.at}
KindsOf(d, a) == {d.drawn[r].kind : r \in RegionsOf(d, a) \cap DOMAIN d.drawn}
PlacesFit(rule, kinds) ==
  CASE rule = "required" -> "zone" \in kinds
    [] rule = "optional" -> "tripwire" \in kinds => "zone" \in kinds
    [] rule = "tripwire" -> kinds = {"tripwire"}

(* validate_activities: what is not available may stay where it is.        *)
Acceptable(rows, old, d) ==
  \A t \in DOMAIN d.acts :
    /\ t \in DOMAIN rows
    /\ IF rows[t].status # "available" THEN t \in DOMAIN old.acts
       ELSE PlacesFit(rows[t].rule, KindsOf(d, d.acts[t])) /\ SettingsAllowed(rows[t].param, d.acts[t].value)
(* AnalyticsConfigBody: regions are well formed, an activity names those   *)
(* of its design, and none twice.                                          *)
WellFormed(d) ==
  /\ \A r \in DOMAIN d.drawn : d.drawn[r].kind \in {"zone", "tripwire"}
  /\ \A t \in DOMAIN d.acts : LET a == d.acts[t] IN
       RegionsOf(d, a) \subseteq DOMAIN d.drawn /\ Cardinality(RegionsOf(d, a)) = Len(a.at)

BeginSave(d) ==
  /\ saving = <<>> /\ SpendAi("save") /\ WellFormed(d) /\ Acceptable(catalogue, design, d)
  /\ saving' = <<[new |-> d, by |-> [t \in DOMAIN d.acts |-> catalogue[t]]]>>
  /\ UNCHANGED <<copyVars, design, pushes, asserting, engine, judged, calendar>>
EndSave ==
  /\ saving # <<>> /\ design' = saving[1].new /\ judged' = saving[1].by
  /\ pushes' = Append(pushes, saving[1].new) /\ saving' = <<>>
  /\ UNCHANGED <<copyVars, asserting, engine, calendar, aiBudget>>

-----------------------------------------------------------------------------
(* The service.                                                            *)

(* A camera without activities is not analysed.                            *)
DesiredOf(d) == IF d.acts = <<>> THEN NoActs ELSE d
PushDesign ==
  /\ pushes # <<>>
  /\ \/ engine' = DesiredOf(Head(pushes)) /\ UNCHANGED aiBudget
     \/ SpendAi("lost") /\ UNCHANGED engine
  /\ pushes' = Tail(pushes)
  /\ UNCHANGED <<copyVars, design, saving, asserting, judged, calendar>>
AssertRead ==
  /\ asserting = <<>> /\ asserting' = <<design>>
  /\ UNCHANGED <<copyVars, design, saving, pushes, engine, judged, calendar, aiBudget>>
AssertDesign ==
  /\ asserting # <<>> /\ asserting' = <<>> /\ engine' = DesiredOf(asserting[1])
  /\ UNCHANGED <<copyVars, design, saving, pushes, judged, calendar, aiBudget>>
(* A build replaces another: its engine knows nothing.                     *)
NewBuild(b) ==
  /\ b # build /\ SpendAi("build") /\ build' = b /\ engine' = NoActs
  /\ UNCHANGED <<catalogue, syncing, said, design, saving, pushes, asserting, judged, calendar>>

(* resolve_zones: the regions an activity watches, the whole picture when  *)
(* it may and none was drawn for it.                                       *)
Sound(d, a) == {r \in RegionsOf(d, a) \cap DOMAIN d.drawn : d.drawn[r].kind \in {"zone", "tripwire"}}
ZonesWatched(d, a, rule) ==
  LET areas == {r \in Sound(d, a) : d.drawn[r].kind = "zone"} IN
  CASE rule = "tripwire" -> Sound(d, a) \ areas
    [] areas = {} /\ rule = "optional" /\ Sound(d, a) = {} -> {"frame"}
    [] OTHER -> areas
Evaluated(d) ==
  {t \in DOMAIN d.acts \cap DOMAIN build :
     build[t].status = "available" /\ ZonesWatched(d, d.acts[t], build[t].rule) # {}}

-----------------------------------------------------------------------------
(* The same design for the pipeline: regions become positions.             *)

Lane(r) == r.kind = "tripwire" /\ ~r.flat
Counted(d, t, r) == r \in DOMAIN d.drawn /\ (t = LineType => Lane(d.drawn[r]))
Positions(d, t) == SelectSeq(d.acts[t].at, LAMBDA r : Counted(d, t, r))
(* zone_name: a region's name may read like a position.                    *)
(* Mutant: lines that cannot be used are counted.                          *)
CountedAll(d, t, r) == r \in DOMAIN d.drawn
CountedFor(d, t, r) == r \in DOMAIN d.drawn /\ (t = LineType => Lane(d.drawn[r]))
ZoneName(d, t, pos) ==
  LET named == SelectSeq(d.acts[t].at, LAMBDA r : CountedFor(d, t, r)) IN
  IF (\E r \in DOMAIN d.drawn : d.drawn[r].name = pos) \/ pos \notin DOMAIN named THEN pos ELSE d.drawn[named[pos]].name

InWindow(t, from, to) == IF from <= to THEN from <= t /\ t <= to ELSE t >= from \/ t <= to
RunsAt(a, day, t) ==
  /\ a.days.given => day \in a.days.of
  /\ a.hours.start = Garbled \/ a.hours.end = Garbled \/ InWindow(t, a.hours.start, a.hours.end)
PipelineTime(c, default) == IF c < DayLength THEN c ELSE default
PipelineRunsAt(a, day, t) ==
  /\ day \in (IF a.days.given THEN a.days.of ELSE Weekdays)
  /\ InWindow(t, PipelineTime(a.hours.start, 0), PipelineTime(a.hours.end, DayLength - 1))

-----------------------------------------------------------------------------
(* The calendar of recording.                                              *)

DayKey(date) == Dates[date][calendar.mode]
(* Mutant: what is left of a window is looked for on its own morning.      *)
OwnMorning(date) == DayKey(date)
DayBefore(date) == DayKey(date - 1)
RecordsAt(date, t) ==
  \/ calendar.rules = {}
  \/ \E r \in calendar.rules :
       IF r.end > r.start THEN DayKey(date) \in r.days /\ r.start <= t /\ t < r.end
       ELSE \/ DayKey(date) \in r.days /\ t >= r.start
            \/ DayBefore(date) \in r.days /\ t < r.end
(* ScheduleRule: a window has a length and does not begin at its day's end.*)
SaneRule(r) == r.days # {} /\ r.start # r.end /\ r.start < DayLength
SaveCalendar(c) ==
  /\ SpendAi("calendar") /\ (\A r \in c.rules : SaneRule(r)) /\ calendar' = c
  /\ UNCHANGED <<copyVars, designVars>>

AiInit ==
  /\ aiBudget \in AiBudgets /\ design \in aiBudget.from /\ build = aiBudget.first
  /\ catalogue = [k \in DOMAIN Parsed(build) |-> NewRow(build[k])]
  /\ syncing = [w \in Syncers |-> NoSyncing] /\ saving = <<>> /\ pushes = <<>> /\ asserting = <<>>
  /\ engine = NoActs /\ calendar = [mode |-> "weekly", rules |-> {}]
  /\ judged = <<>> /\ said = [k \in Keys |-> "own"]
Copying(w) == FetchDefs(w) \/ ReadTypes(w) \/ WriteTypes(w)
Asserting == AssertRead \/ AssertDesign
AiNext ==
  \/ (\E w \in Syncers : Copying(w)) \/ (\E k \in Keys : Relabel(k))
  \/ (\E d \in aiBudget.offer : BeginSave(d)) \/ EndSave \/ PushDesign \/ Asserting
  \/ (\E b \in Builds : NewBuild(b)) \/ \E c \in Calendars : SaveCalendar(c)

-----------------------------------------------------------------------------
AiTypeOK ==
  /\ build \in Builds /\ DOMAIN catalogue \subseteq Keys /\ design \in aiBudget.offer \cup aiBudget.from
  /\ pushes \in Seq(aiBudget.offer) /\ Len(saving) <= 1 /\ Len(asserting) <= 1 /\ said \in [Keys -> {"own", "given"}]

(* What was accepted runs, with the settings that were accepted, for as    *)
(* long as the build publishes the definition it was accepted by.          *)
SameDefinition(row, d) == row.status = d.status /\ row.rule = d.rule /\ row.param = d.param
AcceptedRuns ==
  \A t \in DOMAIN judged \cap DOMAIN build :
    SameDefinition(judged[t], build[t]) /\ build[t].status = "available" =>
      LET v == design.acts[t].value IN
      /\ t \in Evaluated(design)
      /\ v # NoValue => Resolved(build[t].param, v) = [v |-> v.n, s |-> ItemsOf(v)]

(* An event of the pipeline is told with the name of the region it saw,    *)
(* unless a region is named like a position.                               *)
ZonesNamed ==
  \A t \in DOMAIN design.acts : \A i \in DOMAIN Positions(design, t) :
    \/ ZoneName(design, t, i) = design.drawn[Positions(design, t)[i]].name
    \/ \E r \in DOMAIN design.drawn : design.drawn[r].name = i

(* Engine and pipeline keep the same hours, when these can be read and are *)
(* not from the end of a day to the end of a day.                          *)
HoursAgree ==
  \A t \in DOMAIN design.acts : LET a == design.acts[t] IN
    (~a.hours.given \/ (Garbled \notin {a.hours.start, a.hours.end} /\ {a.hours.start, a.hours.end} # {DayLength}))
      => \A day \in Weekdays, c \in 0..(DayLength - 1) : RunsAt(a, day, c) = PipelineRunsAt(a, day, c)

(* The camera records in its windows, each from its day's start to its     *)
(* end, on the next day when that comes first, and in no other time.       *)
CalendarKept ==
  \A date \in 2..Len(Dates), t \in 0..(DayLength - 1) :
    RecordsAt(date, t) <=>
      \/ calendar.rules = {}
      \/ \E r \in calendar.rules, d \in {date - 1, date} :
           /\ DayKey(d) \in r.days
           /\ d * DayLength + r.start <= date * DayLength + t
           /\ date * DayLength + t < (IF r.end > r.start THEN d ELSE d + 1) * DayLength + r.end

(* What administrators call an activity survives every copy.               *)
NamesKept == \A k \in DOMAIN catalogue : catalogue[k].label = said[k]

(* In the end the engine runs the design that is stored.                   *)
AiSettled == saving = <<>> /\ pushes = <<>> /\ engine = DesiredOf(design)
================================================================================
