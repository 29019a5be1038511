------------------------------- MODULE Activities -------------------------------
(***************************************************************************)
(* One camera's activity (analytics/activity_pipeline.py, activities/): the *)
(* tracker's ids, the activity's memory of them, and the events it decides *)
(* on.  The worker looks at frame after frame, the requests configure and  *)
(* remove the camera, and the stream's thread drops identity when the      *)
(* stream was interrupted.  Of geometry remains where a frame shows a      *)
(* thing, or who stands together; a seen thing keeps its track.  The       *)
(* queue of frames is Tracking's; here frames come at any gap.             *)
(***************************************************************************)
EXTENDS Naturals, Sequences, FiniteSets

CONSTANTS
  Things,            \* what moves before the camera
  MaxIssued,         \* bound: tracks made
  TrackAge,          \* max_age_seconds, in ticks
  ConfirmAfter,      \* confirm_after_seconds
  Duration,          \* required_duration_s
  Cooldown,          \* cooldown_s
  ResetAfter,        \* last_time, of a gathering
  Groups,            \* who may stand together
  ActivityBudgets    \* the activity, its things, the ticks between two frames, and
                     \* how often what happens

ASSUME ActivityAssumption ==
  /\ MaxIssued \in Nat /\ TrackAge \in Nat /\ ConfirmAfter \in Nat /\ Duration \in Nat \ {0}
  /\ Cooldown \in Nat \ {0} /\ ResetAfter \in Nat \ {0} /\ Things \subseteq Nat /\ IsFiniteSet(Things)
  /\ Groups \subseteq SUBSET Things
  /\ \A b \in ActivityBudgets :
       /\ {"kind", "things", "pauses", "off"} \subseteq DOMAIN b
       /\ b["kind"] \in {"entry", "parking", "crossing", "gathering"} /\ b["things"] \subseteq Things
       /\ b["pauses"] \subseteq Nat \ {0} /\ b["off"] \in BOOLEAN

TrackIds == 1 .. MaxIssued

VARIABLES
  moment,            \* ts of the frame that was last updated with
  trackOf,           \* [Things -> its track, or 0]
  seenAt, firstAt,   \* [Things -> Track.last_seen, first_seen]
  issued,            \* tracks made
  retired,           \* ObjectTracker._expired
  setup,             \* the number of the camera's last _CameraActivities
  present,           \* and whether it has one now
  memory,            \* the state of that instance
  hand,              \* the worker: its place and its frame
  breaker,           \* where the thread that resets is
  decided,           \* the events, in order
  activityBudget,
  facts, mislaid, stay, overlooked   \* history, see the properties
identityVars == <<moment, trackOf, seenAt, firstAt, issued>>
configVars == <<setup, present, breaker, activityBudget>>
storyVars == <<decided, facts, mislaid, stay, overlooked>>
activityVars == <<identityVars, retired, configVars, memory, hand, storyVars>>

Kind == activityBudget.kind
Actors == activityBudget.things
UseActivity(what) ==
  /\ activityBudget[what] > 0
  /\ activityBudget' = [activityBudget EXCEPT ![what] = @ - 1]

(* What an instance remembers, of all four activities: who is inside and   *)
(* when each last raised an event; when each came in and who was reported; *)
(* the side each was last on, what it has met since, and its crossings     *)
(* that await confirmation; how long a group has been there.               *)
Blank ==
  [inside |-> {}, last |-> [t \in TrackIds |-> 0],
   entered |-> [t \in TrackIds |-> 0], reported |-> {},
   side |-> [t \in TrackIds |-> "none"], across |-> {}, touched |-> {}, pending |-> {},
   since |-> 0, lastSeen |-> 0, until |-> 0]
Resting == [pc |-> "idle", ts |-> 0, on |-> TRUE, shown |-> << >>, with |-> {}, act |-> 0, old |-> Blank]

NoStay == [from |-> 0, upto |-> 0]

ActivityInit ==
  /\ moment = 1 /\ issued = 0 /\ retired = {} /\ setup = 1 /\ present = TRUE /\ memory = Blank
  /\ trackOf = [h \in Things |-> 0] /\ seenAt = [h \in Things |-> 0] /\ firstAt = [h \in Things |-> 0]
  /\ hand = Resting /\ breaker = "idle" /\ decided = {}
  /\ facts = [h \in Things |-> {}] /\ mislaid = {} /\ overlooked = {}
  /\ stay = [h \in Things |-> NoStay]
  /\ activityBudget \in ActivityBudgets

(* forget_tracks: nothing is kept for an id the tracker has retired.       *)
Without(m, ids) ==
  [m EXCEPT !.inside = @ \ ids, !.reported = @ \ ids, !.across = @ \ ids, !.touched = @ \ ids,
            !.last = [t \in TrackIds |-> IF t \in ids THEN 0 ELSE @[t]],
            !.entered = [t \in TrackIds |-> IF t \in ids THEN 0 ELSE @[t]],
            !.side = [t \in TrackIds |-> IF t \in ids THEN "none" ELSE @[t]],
            !.pending = {p \in @ : p.track \notin ids}]

Retire(ids) == IF present THEN Without(memory, ids) ELSE memory

-----------------------------------------------------------------------------
(* The worker: process().                                                  *)

Places == IF Kind = "crossing" THEN {"left", "right", "gate", "beside"}
          ELSE IF Kind = "gathering" THEN {"in"} ELSE {"in", "out"}
Hours == IF activityBudget.off THEN BOOLEAN ELSE {TRUE}

(* Who stands together; a person alone is nobody to a gathering.           *)
Meetings ==
  IF Kind = "gathering" THEN {G \in SUBSET Groups : \A g, k \in G : g = k \/ g \cap k = {}} ELSE {{}}

(* A frame of a camera without work goes no further.                       *)
TakeLook ==
  /\ hand.pc = "idle" /\ present /\ UseActivity("look")
  /\ hand' = [Resting EXCEPT !.pc = "took"]
  /\ UNCHANGED <<identityVars, retired, setup, present, breaker, memory, storyVars>>

(* ObjectTracker.update, and _retire of what it gave up.  The ids are read *)
(* off the tracks after that.                                              *)
NameThings ==
  /\ hand.pc = "took"
  /\ \E gap \in activityBudget.pauses, with \in Meetings, on \in Hours :
     \E who \in IF Kind = "gathering" THEN {UNION with} ELSE SUBSET Actors : \E at \in [who -> Places] :
       LET ts == moment + gap
           gone == {h \in Actors \ who : trackOf[h] # 0 /\ ts - seenAt[h] > TrackAge}
           fresh == {h \in who : trackOf[h] = 0} IN
       /\ moment' = ts
       /\ issued' = issued + Cardinality(fresh) /\ issued' <= MaxIssued
       /\ trackOf' = [h \in Things |-> IF h \in gone THEN 0
                                       ELSE IF h \notin fresh THEN trackOf[h]
                                       ELSE issued + Cardinality({g \in fresh : g <= h})]
       /\ seenAt' = [h \in Things |-> IF h \in who THEN ts ELSE seenAt[h]]
       /\ firstAt' = [h \in Things |-> IF h \in fresh THEN ts ELSE firstAt[h]]
       /\ memory' = Retire(retired \cup {trackOf[h] : h \in gone}) /\ retired' = {}
       /\ hand' = [hand EXCEPT !.pc = "look", !.ts = ts, !.on = on, !.with = with, !.shown =
            [h \in who |-> [id |-> trackOf'[h], at |-> at[h],
                            sure |-> ts - firstAt'[h] >= ConfirmAfter]]]
       /\ facts' = [h \in Things |-> facts[h] \cup
            (IF h \in gone THEN {"lost"} ELSE {}) \cup (IF h \in who /\ at[h] = "out" THEN {"outside"} ELSE {})]
       /\ stay' = [h \in Things |-> IF h \in gone THEN NoStay ELSE stay[h]]
  /\ UNCHANGED <<configVars, decided, mislaid, overlooked>>

Shown == DOMAIN hand.shown

(* observe() looks up the camera's activities.                             *)
Observe ==
  /\ hand.pc = "look"
  /\ hand' = IF ~present THEN Resting ELSE [hand EXCEPT !.pc = "evaluate", !.act = setup]
  /\ UNCHANGED <<identityVars, retired, configVars, memory, storyVars>>

-----------------------------------------------------------------------------
(* evaluate(), one operator per activity: the memory after the frame and   *)
(* the events, here as who they are about and what they say.               *)

IdsAt(place) == {hand.shown[h].id : h \in {g \in Shown : hand.shown[g].at = place}}
ThingOf(t) == CHOOSE h \in Shown : hand.shown[h].id = t
Says(t, what) == [who |-> {ThingOf(t)}, says |-> what, ts |-> hand.ts]

NobodyLearns == [around |-> {}, overlooked |-> {}]

(* restricted_zone_entry: one event per stay, none within the cooldown.    *)
StayingInView(m) == m.inside \cap IdsAt("in")
Staying(m) == m.inside \ IdsAt("out")
Entering(m) ==
  LET arrive == IdsAt("in") \ Staying(m)
      raise == {t \in arrive : m.last[t] = 0 \/ hand.ts - m.last[t] >= Cooldown} IN
  {[mem |-> [m EXCEPT !.inside = Staying(m) \cup arrive,
                      !.last = [t \in TrackIds |-> IF t \in raise THEN hand.ts ELSE @[t]]],
    says |-> {Says(t, "entered") : t \in raise}, learn |-> NobodyLearns]}

(* stray_parking: timed from the first frame inside, once per track.       *)
Parking(m) ==
  LET came == [t \in TrackIds |-> IF t \in IdsAt("out") \ m.reported THEN 0
                                  ELSE IF t \in IdsAt("in") \ m.reported /\ m.entered[t] = 0 THEN hand.ts
                                  ELSE m.entered[t]]
      raise == {t \in IdsAt("in") \ m.reported : hand.ts - came[t] >= Duration} IN
  {[mem |-> [m EXCEPT !.reported = @ \cup raise,
                      !.entered = [t \in TrackIds |-> IF t \in raise THEN 0 ELSE came[t]]],
    says |-> {Says(t, "parked") : t \in raise}, learn |-> NobodyLearns]}

(* entry_exit: a crossing is a change of side through the gateway; without *)
(* a frame in between, the path may or may not have met it.                *)
Sides == {"left", "right"}
Crossing(m) ==
  LET ids(S) == UNION {IdsAt(p) : p \in S}
      sideNow == [t \in ids(Sides) |-> CHOOSE p \in Sides : t \in IdsAt(p)]
      changed == {t \in ids(Sides) : m.side[t] # "none" /\ m.side[t] # sideNow[t]}
      jumped == changed \ m.across
      held(through) == m.pending \cup {[track |-> t, says |-> sideNow[t], ts |-> hand.ts] : t \in through}
      sure == {hand.shown[h].id : h \in {g \in Shown : hand.shown[g].sure}}
      given(through) == {p \in held(through) : p.track \in sure}
      \* Told of last when it went the other way: it has come back by another.
      returned(through) ==
        {p \in given(through) : /\ \A q \in given(through) : q.track = p.track => q.ts <= p.ts
                                /\ p.says # (IF p.track \in ids(Sides) THEN sideNow[p.track] ELSE m.side[p.track])}
      after(through) ==
        [m EXCEPT !.side = [t \in TrackIds |-> IF t \in ids(Sides) THEN sideNow[t] ELSE @[t]],
                  !.across = (@ \cup ids({"gate", "beside"})) \ ids(Sides),
                  !.touched = (@ \cup IdsAt("gate")) \ ids(Sides),
                  !.pending = {p \in held(through) : p.track \notin sure}] IN
  {[mem |-> after(through),
    says |-> {[who |-> {ThingOf(p.track)}, says |-> p.says, ts |-> p.ts] : p \in given(through)},
    learn |-> [around |-> {ThingOf(t) : t \in (changed \ through) \cup {p.track : p \in returned(through)}},
               overlooked |-> {}]] :
   through \in {(changed \cap m.across \cap m.touched) \cup J : J \in SUBSET jumped}}

(* people_gathering: a group most of whose members were reported is no new *)
(* one; after the duration one group is reported, and every other that is  *)
(* there, then or while the zone cools down, counts as reported too.       *)
NewGroup(m, ids) == (100 * Cardinality(ids \cap m.reported)) \div Cardinality(ids) < 70
Gathering(m) ==
  LET idsOf(g) == {hand.shown[h].id : h \in g}
      active == {g \in hand.with : NewGroup(m, idsOf(g))}
      start == IF m.since = 0 THEN hand.ts ELSE m.since
      all == UNION {idsOf(g) : g \in active} IN
  IF active = {} THEN
    {[mem |-> IF m.since # 0 /\ hand.ts - m.lastSeen > ResetAfter
              THEN [m EXCEPT !.since = 0, !.lastSeen = hand.ts] ELSE m,
      says |-> {}, learn |-> NobodyLearns]}
  ELSE IF hand.ts - start < Duration THEN
    {[mem |-> [m EXCEPT !.since = start, !.lastSeen = hand.ts], says |-> {}, learn |-> NobodyLearns]}
  ELSE
    LET restarted == [m EXCEPT !.since = hand.ts, !.lastSeen = hand.ts, !.reported = @ \cup all] IN
    IF hand.ts < m.until THEN
      {[mem |-> restarted, says |-> {}, learn |-> [around |-> {}, overlooked |-> UNION active]]}
    ELSE
      {[mem |-> [restarted EXCEPT !.until = hand.ts + Cooldown],
        says |-> {[who |-> g, says |-> "gathered", ts |-> hand.ts]},
        learn |-> [around |-> {}, overlooked |-> UNION (active \ {g})]] : g \in active}

Outcomes(m) ==
  CASE Kind = "entry" -> Entering(m)
    [] Kind = "parking" -> Parking(m)
    [] Kind = "crossing" -> Crossing(m)
    [] Kind = "gathering" -> Gathering(m)

(* An instance that was replaced since is evaluated all the same, and its  *)
(* events are sent.  The reset of its memory by the other thread during an *)
(* evaluation is taken to come before or after it.                         *)
Current(h) == hand.act = setup /\ breaker = "idle" /\ trackOf[h] = hand.shown[h].id
Evaluate ==
  /\ hand.pc = "evaluate" /\ hand' = Resting
  /\ IF ~hand.on THEN UNCHANGED <<memory, storyVars>>
     ELSE \E out \in Outcomes(IF hand.act = setup THEN memory ELSE hand.old) :
       LET about == UNION {v.who : v \in out.says} IN
       /\ memory' = IF hand.act = setup THEN out.mem ELSE memory
       /\ decided' = decided \cup
            {[who |-> v.who, says |-> v.says, ts |-> v.ts, why |-> UNION {facts[h] : h \in v.who}] : v \in out.says}
       /\ facts' = [h \in Things |-> (IF h \in about THEN IF Current(h) THEN {} ELSE {"reset"} ELSE facts[h])
                                     \cup (IF h \in out.learn.around THEN {"around"} ELSE {})]
       /\ overlooked' = overlooked \cup out.learn.overlooked
       /\ stay' = [h \in Things |->
            IF h \notin Shown THEN stay[h]
            ELSE IF ~Current(h) \/ hand.shown[h].at # "in" THEN NoStay
            ELSE [from |-> IF stay[h].from = 0 THEN hand.ts ELSE stay[h].from, upto |-> hand.ts]]
       /\ UNCHANGED mislaid
  /\ UNCHANGED <<identityVars, retired, configVars>>

-----------------------------------------------------------------------------
(* The requests and the stream.                                            *)

Interrupted == /\ facts' = [h \in Things |-> facts[h] \cup {"reset"}]
               /\ stay' = [h \in Things |-> NoStay]
InView == {hand.shown[h].id : h \in Shown}
Named == hand.pc \in {"look", "evaluate"}

(* configure: the same configuration again changes nothing; another one is *)
(* built anew and replaces the camera's entry whole.                       *)
Configures(same) == ~same
Configure(same) ==
  /\ UseActivity(IF same THEN "push" ELSE "edit")
  /\ same => present
  /\ IF Configures(same)
     THEN /\ setup' = setup + 1 /\ present' = TRUE /\ memory' = Blank
          /\ hand' = IF hand.act = setup THEN [hand EXCEPT !.old = memory] ELSE hand
          /\ IF same THEN UNCHANGED <<facts, stay>> ELSE Interrupted
     ELSE UNCHANGED <<setup, present, memory, hand, facts, stay>>
  /\ UNCHANGED <<identityVars, retired, breaker, decided, mislaid, overlooked>>

(* ObjectTracker.reset.                                                    *)
Dropped == {trackOf[h] : h \in Things} \ {0}
LoseTracks ==
  /\ trackOf' = [h \in Things |-> 0]
  /\ mislaid' = mislaid \cup (IF Named THEN InView ELSE {})
  /\ Interrupted
  /\ UNCHANGED <<seenAt, firstAt, issued, moment>>

(* _on_discontinuity, in three steps between those of the worker.          *)
BreakStream ==
  /\ breaker = "idle" /\ UseActivity("break") /\ breaker' = "tracks"
  /\ LoseTracks /\ retired' = retired \cup Dropped
  /\ UNCHANGED <<setup, present, memory, hand, decided, overlooked>>
RetireBroken ==
  /\ breaker = "tracks" /\ breaker' = "retired"
  /\ memory' = Retire(retired) /\ retired' = {}
  /\ UNCHANGED <<identityVars, setup, present, activityBudget, hand, storyVars>>
ResetActivities ==
  /\ breaker = "retired" /\ breaker' = "idle"
  /\ memory' = IF present THEN Blank ELSE memory
  /\ Interrupted
  /\ UNCHANGED <<identityVars, retired, setup, present, activityBudget, hand, decided, mislaid, overlooked>>

(* remove_camera: its activities are forgotten, then its tracks, and what  *)
(* retires has no entry left to be dropped from.                           *)
RemoveActivities ==
  /\ present /\ UseActivity("remove") /\ present' = FALSE
  /\ LoseTracks /\ retired' = {}
  /\ UNCHANGED <<setup, breaker, memory, hand, decided, overlooked>>

-----------------------------------------------------------------------------
ActivityNext ==
  \/ TakeLook \/ NameThings \/ Observe \/ Evaluate
  \/ Configure(TRUE) \/ Configure(FALSE) \/ RemoveActivities
  \/ BreakStream \/ RetireBroken \/ ResetActivities

-----------------------------------------------------------------------------
ActivityTypeOK ==
  /\ trackOf \in [Things -> 0 .. issued] /\ issued <= MaxIssued
  /\ retired \cup mislaid \subseteq 1 .. issued
  /\ memory.inside \cup memory.reported \cup memory.across \cup memory.touched \subseteq 1 .. issued
  /\ memory.touched \subseteq memory.across /\ {p.track : p \in memory.pending} \subseteq 1 .. issued
  /\ hand.pc \in {"idle", "took", "look", "evaluate"}
  /\ breaker \in {"idle", "tracks", "retired"} /\ present \in BOOLEAN /\ setup \in Nat
  /\ \A h \in Things : seenAt[h] <= moment /\ firstAt[h] <= seenAt[h]

(* A second event about one thing has its reason: it was seen outside and  *)
(* the cooldown was over, it went the other way, or it was lost for longer *)
(* than a track lives, interrupted or configured anew - never a frame the  *)
(* detector missed it in, a repeated push, the end of another track, or    *)
(* hours in which the activity does not look.                              *)
Before(e) == {d \in decided : d.ts < e.ts /\ d.who \cap e.who # {}}
LastBefore(e) == {d \in Before(e) : \A c \in Before(e) : c.ts <= d.ts}
Justified(d, e) ==
  \/ e.why \cap {"lost", "reset"} # {}
  \/ Kind = "entry" /\ "outside" \in e.why /\ e.ts - d.ts >= Cooldown
  \/ Kind = "crossing" /\ (d.says # e.says \/ "around" \in e.why)
  \/ Kind = "gathering" /\ e.ts - d.ts >= Cooldown
EventsJustified == \A e \in decided : \A d \in LastBefore(e) : Justified(d, e)

(* A stay that is seen is reported: a person's entry at once, unless it    *)
(* follows the last one within the cooldown, a vehicle's once it lasts,    *)
(* and whoever counts as reported was named in an event.  Two kinds of     *)
(* group are passed over for good, though "each active cluster is          *)
(* reported": the second one of a frame, and one seen during the cooldown. *)
Told(h) == {e \in decided : h \in e.who}
StaysReported ==
  hand.pc = "idle" => \A h \in Actors : stay[h].from # 0 =>
    /\ Kind = "entry" => \E e \in Told(h) : e.ts + Cooldown > stay[h].from
    /\ Kind = "parking" /\ stay[h].upto - stay[h].from >= Duration =>
         \E e \in Told(h) : e.ts >= firstAt[h]
    /\ Kind = "gathering" /\ trackOf[h] \in memory.reported => Told(h) # {} \/ h \in overlooked

(* The activity keeps nothing for ids that will never retire again, apart  *)
(* from those the worker had in hand when they were dropped.               *)
Remembered ==
  memory.inside \cup memory.reported \cup memory.across \cup {p.track : p \in memory.pending}
  \cup {t \in TrackIds : memory.last[t] # 0 \/ memory.entered[t] # 0 \/ memory.side[t] # "none"}
MemoryReleased ==
  present => Remembered \subseteq ({trackOf[h] : h \in Things} \cup retired \cup mislaid)
=============================================================================
