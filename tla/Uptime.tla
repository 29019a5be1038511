-------------------------------- MODULE Uptime --------------------------------
(***************************************************************************)
(* A camera's status and the history its uptime is computed from           *)
(* (services/health.py, routers/cameras.py): a transition is stored when   *)
(* the status changes, the monitor stamps a heartbeat before every poll,   *)
(* and a start after an ungraceful death dates its transition back to the  *)
(* last heartbeat.  "error" counts as "disconnected" does.                 *)
(***************************************************************************)
EXTENDS Naturals, Sequences, SequencesExt, FiniteSets

CONSTANTS
  Horizon,         \* units of time
  Grace,           \* a gap no longer than this is an ordinary restart
  HistoryKept,     \* uptime_events_retention_days
  UptimeBudgets    \* how often each thing happens
ASSUME UptimeAssumption == {Horizon, Grace, HistoryKept} \subseteq Nat /\ 1 <= Horizon

VARIABLES
  now,             \* the unit of time
  on,              \* the row's enabled
  reaches,         \* the camera delivers
  status,          \* the row's health_status
  transitions,     \* the rows of camera_status_events
  lastId,          \* the id of the last one
  beat,            \* monitor_heartbeat, or Never
  monitor,         \* where the monitor is in its cycle, or off with the service
  soon,            \* check_camera_soon
  toggle,          \* the status a request has still to write, or "none"
  marked,          \* stream:mark_unknown_lock
  uptimeBudget,
  was, excused, forfeited, raced, tangled   \* history, see the properties
monitorVars == <<beat, monitor, soon, marked>>
pastVars == <<was, excused, forfeited, raced, tangled>>
statusEvents == <<transitions, lastId>>
uptimeVars == <<now, on, reaches, status, statusEvents, monitorVars, toggle, uptimeBudget, pastVars>>

Never == 0
UseUptime(what) ==
  /\ uptimeBudget[what] > 0
  /\ uptimeBudget' = [uptimeBudget EXCEPT ![what] = @ - 1]

(* Within a unit the heartbeat comes before what is stored in it.          *)
BeatStamp == 2 * now
Stamp == 2 * now + 1
UnitOf(stamp) == stamp \div 2

UptimeInit ==
  /\ uptimeBudget \in UptimeBudgets
  /\ now = 1 /\ on = TRUE /\ reaches = TRUE /\ status = "unknown" /\ transitions = {} /\ lastId = 0
  /\ beat = Never /\ monitor = "off" /\ soon = "off" /\ toggle = "none" /\ marked = FALSE
  /\ was = <<>> /\ excused = {} /\ forfeited = {} /\ raced = FALSE /\ tangled = FALSE

-----------------------------------------------------------------------------
(* _update_db_health: the previous status comes back under the row's lock. *)
Stored(s) == s # status
Enter(s, at) ==
  transitions' = transitions \cup {[id |-> lastId + 1, status |-> s, at |-> at]} /\ lastId' = lastId + 1
Write(s) ==
  /\ status' = s /\ IF Stored(s) THEN Enter(s, Stamp) ELSE UNCHANGED statusEvents
  /\ tangled' = (tangled /\ ~Stored(s))
  /\ raced' = (raced \/ (s = "connected" /\ ~on))

(* mark_all_unknown: one of those that start or stop gets the lock; only a *)
(* status that is not "unknown" yet is changed.                            *)
MarkedAs(recovering) == IF recovering /\ status = "connected" THEN "disconnected" ELSE "unknown"
MarkAll(recovering, at) ==
  IF marked \/ status = "unknown" THEN UNCHANGED <<status, statusEvents>> /\ marked' = TRUE
  ELSE status' = MarkedAs(recovering) /\ Enter(MarkedAs(recovering), at) /\ marked' = TRUE

(* startup_mark_unknown.  A gap within the grace is dark time told as the  *)
(* status before it.  A transition stored after the heartbeat sorts behind *)
(* the one that is dated back: it stays in force until the next.           *)
Recovers == beat # Never /\ now - UnitOf(beat) > Grace
MarkedNow == Stamp
MarkedAt == IF Recovers THEN beat ELSE Stamp
Dark == {t \in DOMAIN was : was[t] = "dark"}
Start ==
  /\ monitor = "off" /\ UseUptime("start")
  /\ monitor' = "idle"
  /\ MarkAll(Recovers, MarkedAt)
  /\ tangled' = IF transitions' = transitions THEN tangled
                 ELSE Recovers /\ \E e \in transitions : e.at > beat
  /\ excused' = IF Recovers /\ ~tangled' THEN excused ELSE excused \cup Dark
  /\ forfeited' = IF Recovers THEN forfeited \cup UnitOf(beat) .. (now - 1) ELSE forfeited
  /\ UNCHANGED <<now, on, reaches, beat, soon, toggle, was, raced>>

Halts == monitor' = "off" /\ soon' = "off" /\ toggle' = "none"
(* Requests end first, the monitor is cancelled, and the uptime history is *)
(* closed.                                                                 *)
Stop ==
  /\ monitor # "off" /\ toggle = "none" /\ UseUptime("stop") /\ Halts
  /\ MarkAll(FALSE, Stamp) /\ tangled' = (tangled /\ transitions' = transitions)
  /\ UNCHANGED <<now, on, reaches, beat, was, excused, forfeited, raced>>
Die ==
  /\ monitor # "off" /\ UseUptime("die") /\ Halts
  /\ raced' = (raced \/ toggle # "none")
  /\ UNCHANGED <<now, on, reaches, status, statusEvents, beat, marked, was, excused, forfeited, tangled>>

-----------------------------------------------------------------------------
(* monitor_loop and check_camera_soon.                                     *)

Beat ==
  /\ monitor = "idle" /\ beat # BeatStamp
  /\ beat' = BeatStamp /\ monitor' = "beaten"
  /\ UNCHANGED <<now, on, reaches, status, statusEvents, soon, toggle, marked, uptimeBudget, pastVars>>
ReadCamera ==
  /\ monitor = "beaten"
  /\ monitor' = IF on THEN "checking" ELSE "idle"
  /\ UNCHANGED <<now, on, reaches, status, statusEvents, beat, soon, toggle, marked, uptimeBudget, pastVars>>
Seen == IF reaches THEN "connected" ELSE "disconnected"
StoreStatus ==
  /\ \/ monitor = "checking" /\ monitor' = "idle" /\ UNCHANGED soon
     \/ soon = "checking" /\ soon' = "off" /\ UNCHANGED monitor
  /\ Write(Seen)
  /\ UNCHANGED <<now, on, reaches, beat, toggle, marked, uptimeBudget, was, excused, forfeited>>
ReadSoon ==
  /\ soon = "due"
  /\ soon' = IF on THEN "checking" ELSE "off"
  /\ UNCHANGED <<now, on, reaches, status, statusEvents, beat, monitor, toggle, marked, uptimeBudget, pastVars>>

(* _prune_events goes by age alone: a transition that is still in force    *)
(* goes with the rest.                                                     *)
Kept(e) == UnitOf(e.at) + HistoryKept >= now
Prune ==
  LET left == {e \in transitions : Kept(e)} IN
  /\ monitor = "idle" /\ left # transitions /\ UseUptime("prune")
  /\ transitions' = left /\ UNCHANGED lastId
  /\ forfeited' = forfeited \cup {t \in DOMAIN was : \A e \in left : UnitOf(e.at) > t}
  /\ tangled' = (tangled \/ left = {})
  /\ UNCHANGED <<now, on, reaches, status, monitorVars, toggle, was, excused, raced>>

-----------------------------------------------------------------------------
(* Requests and the world.                                                 *)

Toggle ==
  /\ monitor # "off" /\ toggle = "none" /\ UseUptime("toggle")
  /\ on' = ~on /\ toggle' = IF on THEN "disabled" ELSE "unknown"
  /\ UNCHANGED <<now, reaches, status, statusEvents, monitorVars, pastVars>>
SetStatus ==
  /\ toggle # "none" /\ Write(toggle) /\ toggle' = "none"
  /\ soon' = IF toggle = "unknown" /\ soon = "off" THEN "due" ELSE soon
  /\ UNCHANGED <<now, on, reaches, beat, monitor, marked, uptimeBudget, was, excused, forfeited>>
CameraTurns ==
  /\ UseUptime("turn") /\ reaches' = ~reaches
  /\ UNCHANGED <<now, on, status, statusEvents, monitorVars, toggle, pastVars>>

(* A unit is over; what the row said at its end is what it stands for.     *)
PassTime ==
  /\ now < Horizon /\ now' = now + 1 /\ marked' = FALSE
  /\ was' = Append(was, IF monitor = "off" THEN "dark" ELSE status)
  /\ excused' = IF tangled THEN excused \cup {now} ELSE excused
  /\ forfeited' = IF tangled THEN forfeited \cup {now} ELSE forfeited
  /\ UNCHANGED <<on, reaches, status, statusEvents, beat, monitor, soon, toggle, uptimeBudget, raced, tangled>>

UptimeNext ==
  \/ Start \/ Stop \/ Die \/ Beat \/ ReadCamera \/ StoreStatus \/ ReadSoon \/ Prune
  \/ Toggle \/ SetStatus \/ CameraTurns \/ PassTime
UptimeSpec == UptimeInit /\ [][UptimeNext]_uptimeVars

-----------------------------------------------------------------------------
(* The reports.                                                            *)

BucketOf(s) == CASE s = "connected" -> "Up" [] s = "disconnected" -> "Down" [] OTHER -> "No data"
(* ORDER BY changed_at; of one stamp's rows, the later was entered later.  *)
Sooner(d, e) == d.at < e.at \/ (d.at = e.at /\ d.id < e.id)
InOrderOfTime(S) ==
  [n \in 1 .. Cardinality(S) |-> CHOOSE e \in S : Cardinality({d \in S : Sooner(d, e)}) = n - 1]

(* The seed is the last transition before the window; the intervals follow *)
(* from those inside it.                                                   *)
Until(from) == {e \in transitions : UnitOf(e.at) < from}
NewestOf(S) == CHOOSE e \in S : \A d \in S \ {e} : Sooner(d, e)
Seed(from) == IF Until(from) = {} THEN "unknown" ELSE NewestOf(Until(from)).status
Inside(from, to) == InOrderOfTime({e \in transitions : UnitOf(e.at) \in from .. (to - 1)})

(* camera_uptime: a transition to the status in force opens no interval.   *)
Timeline(from, to) ==
  LET step(t, e) == IF e.status = t.status THEN t
                    ELSE [status |-> e.status, start |-> UnitOf(e.at),
                          done |-> Append(t.done, [status |-> t.status, start |-> t.start, end |-> UnitOf(e.at)])]
      all == FoldLeft(step, [status |-> Seed(from), start |-> from, done |-> <<>>], Inside(from, to)) IN
  Append(all.done, [status |-> all.status, start |-> all.start, end |-> to])
TimeIn(bucket, line) ==
  FoldLeft(LAMBDA n, i : IF BucketOf(i.status) = bucket THEN n + i.end - i.start ELSE n, 0, line)

(* uptime_summary: every transition closes what was in force.              *)
Summary(bucket, from, to) ==
  LET step(a, e) == [status |-> e.status, start |-> UnitOf(e.at),
                     sum |-> IF BucketOf(a.status) = bucket THEN a.sum + UnitOf(e.at) - a.start ELSE a.sum]
      all == FoldLeft(step, [status |-> Seed(from), start |-> from, sum |-> 0],
                      Append(Inside(from, to), [status |-> "unknown", at |-> 2 * to])) IN
  all.sum

-----------------------------------------------------------------------------
UptimeTypeOK ==
  /\ now \in 1 .. Horizon /\ Len(was) = now - 1
  /\ status \in {"connected", "disconnected", "unknown", "disabled"}
  /\ monitor \in {"off", "idle", "beaten", "checking"} /\ soon \in {"off", "due", "checking"}

ToldAs(t) == BucketOf(Seed(t + 1))
(* While the service answers: a unit is told as up only if the row said so *)
(* then; a unit the row called connected is told as up, unless a recovery  *)
(* or the retention took it; and a camera that is switched off is          *)
(* connected only if a check was on its way when it was.                   *)
UptimeTrue ==
  monitor # "off" =>
    /\ \A t \in DOMAIN was :
         /\ ToldAs(t) = "Up" => was[t] = "connected" \/ t \in excused
         /\ was[t] = "connected" => ToldAs(t) = "Up" \/ t \in forfeited
    /\ status = "connected" /\ ~on /\ toggle = "none" => raced

(* Both reports of a window, made in different ways, give the time its     *)
(* units add up to.                                                        *)
ReportsAgree ==
  \A from \in 1 .. now : \A to \in from .. now : \A b \in {"Up", "Down"} :
    /\ TimeIn(b, Timeline(from, to)) = Cardinality({t \in from .. (to - 1) : ToldAs(t) = b})
    /\ Summary(b, from, to) = TimeIn(b, Timeline(from, to))

(* What models.py:244-248 promises of the heartbeat: time in which nobody  *)
(* watched, longer than a restart takes, is not counted as uptime.         *)
UnmonitoredNeverUp ==
  monitor # "off" =>
    \A s \in 1 .. now - 1 : s + Grace < now /\ (\A t \in s .. s + Grace : was[t] = "dark")
      => \A t \in s .. s + Grace : ToldAs(t) # "Up"
==============================================================================
