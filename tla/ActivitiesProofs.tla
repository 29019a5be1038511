--------------------------- MODULE ActivitiesProofs ---------------------------
(* Proofs about the activities, for any number of things, tracks and frames   *)
(* and any intervals: the invariant behind what the events are justified by,  *)
(* which stays are reported and whose memory is kept.                         *)
EXTENDS Activities, FiniteSetTheorems, TLAPS

-----------------------------------------------------------------------------
(* The types.                                                                 *)

KnownFacts == {"lost", "outside", "reset", "around"}
ActivityKinds == {"entry", "parking", "crossing", "gathering"}
HeldCrossings == [track : TrackIds, says : Sides, ts : Nat]
Memories ==
  [inside : SUBSET TrackIds, last : [TrackIds -> Nat], entered : [TrackIds -> Nat], reported : SUBSET TrackIds,
   side : [TrackIds -> Sides \cup {"none"}], across : SUBSET TrackIds, touched : SUBSET TrackIds,
   pending : SUBSET HeldCrossings, since : Nat, lastSeen : Nat, until : Nat]
Tells == [who : SUBSET Things, says : {"entered", "parked", "gathered"} \cup Sides, ts : Nat, why : SUBSET KnownFacts]

(* What a memory keeps is about these ids.                                    *)
Keeps(m, ids) ==
  /\ m.inside \cup m.reported \cup m.across \cup m.touched \subseteq ids
  /\ \A t \in TrackIds \ ids : m.last[t] = 0 /\ m.entered[t] = 0 /\ m.side[t] = "none"
  /\ \A p \in m.pending : p.track \in ids
Fits(m) == m \in Memories /\ Keeps(m, 1..issued) /\ m.touched \subseteq m.across

-----------------------------------------------------------------------------
(* The invariant.  A track is one thing's, and what is retired or mislaid is  *)
(* nobody's any more.                                                         *)
TrackValues == {trackOf[h] : h \in Things}
ThingsTyped ==
  /\ moment \in Nat /\ moment > 0 /\ issued \in Nat /\ issued <= MaxIssued
  /\ trackOf \in [Things -> 0..issued] /\ seenAt \in [Things -> Nat] /\ firstAt \in [Things -> Nat]
  /\ \A h \in Things : seenAt[h] <= moment /\ firstAt[h] <= seenAt[h]
  /\ \A g, h \in Things : trackOf[g] = trackOf[h] => g = h \/ trackOf[h] = 0
  /\ retired \subseteq 1..issued /\ mislaid \subseteq 1..issued
  /\ \A h \in Things : trackOf[h] \notin retired \cup mislaid
  /\ setup \in Nat /\ setup > 0 /\ present \in BOOLEAN /\ breaker \in {"idle", "tracks", "retired"}
BudgetFits ==
  /\ {"kind", "things", "pauses", "off"} \subseteq DOMAIN activityBudget
  /\ Kind \in ActivityKinds /\ Actors \subseteq Things
  /\ activityBudget["pauses"] \subseteq Nat \ {0} /\ activityBudget["off"] \in BOOLEAN

(* The worker's frame: its ids are those of the tracks, or of tracks that     *)
(* were dropped since, and it is later than all that was decided.             *)
Shots == [id : TrackIds, at : {"in", "out", "left", "right", "gate", "beside"}, sure : BOOLEAN]
Hands ==
  [pc : {"idle", "took", "look", "evaluate"}, ts : Nat, on : BOOLEAN, shown : UNION {[S -> Shots] : S \in SUBSET Things},
   with : SUBSET Groups, act : Nat, old : Memories]
HandFits ==
  /\ hand \in Hands /\ Fits(hand.old)
  /\ hand.act \in 0..setup /\ (hand.pc # "evaluate" => hand.act = 0) /\ (hand.pc = "evaluate" => hand.act > 0)
FrameFits ==
  Named =>
    /\ Shown \subseteq Things /\ hand.shown \in [Shown -> Shots]
    /\ hand.ts = moment
    /\ Kind = "gathering" => UNION hand.with = Shown
    /\ \A h \in Shown : /\ hand.shown[h].id \in 1..issued /\ trackOf[h] \in {0, hand.shown[h].id}
                        /\ \A g \in Things : trackOf[g] = hand.shown[h].id => g = h
                        /\ \A g \in Shown : hand.shown[g].id = hand.shown[h].id => g = h
                        /\ trackOf[h] = 0 => hand.shown[h].id \in mislaid
                        /\ trackOf[h] # 0 => hand.shown[h].sure = (moment - firstAt[h] >= ConfirmAfter)
                        /\ hand.shown[h].at = "out" => "outside" \in facts[h]
                        /\ hand.shown[h].at \in IF Kind = "crossing" THEN {"left", "right", "gate", "beside"} ELSE {"in", "out"}
    /\ \A e \in decided : e.ts < moment

(* The history, the types of it: an event is over, and a stay is one of a     *)
(* thing that is tracked.                                                     *)
StoryFits ==
  /\ facts \in [Things -> SUBSET KnownFacts] /\ decided \subseteq Tells
  /\ stay \in [Things -> [from : Nat, upto : Nat]] /\ overlooked \subseteq Things
  /\ \A e \in decided : 0 < e.ts /\ e.ts <= moment /\ (Kind # "gathering" => \E h \in Things : e.who = {h})
  /\ \A h \in Things : stay[h].from # 0 => trackOf[h] # 0 /\ stay[h].from <= stay[h].upto /\ stay[h].upto <= moment

(* While identity is being dropped, or the worker holds an instance that was  *)
(* replaced, every thing is known to be interrupted.                          *)
Replaced == hand.pc = "evaluate" /\ hand.act # setup
Unsettled == breaker # "idle" \/ ~present \/ Replaced
Troubled ==
  /\ Unsettled => \A h \in Things : "reset" \in facts[h]
  /\ hand.pc = "evaluate" /\ ~present /\ ~Replaced => \A h \in Things : trackOf[h] = 0
  /\ Replaced => Keeps(memory, {})
  /\ Named => \A h \in Shown : "reset" \notin facts[h] => trackOf[h] # 0

(* A crossing that is held is later than all that was told of its thing.      *)
Clean(h) == facts[h] \cap {"lost", "reset"} = {}
IdIn(h) == IF Named /\ h \in Shown THEN {trackOf[h], hand.shown[h].id} ELSE {trackOf[h]}
Later(m) == \A p \in m.pending, h \in Things : p.track \in IdIn(h) => \A d \in Told(h) : d.ts < p.ts
Dated(m) == \A p \in m.pending : Kind = "crossing" /\ 0 < p.ts /\ p.ts <= moment /\ (Named => p.ts < moment)
OneAtATime(m) == \A p, q \in m.pending : p.track = q.track /\ p.ts = q.ts => p = q
HeldFits == \A m \in {memory, hand.old} : Later(m) /\ Dated(m) /\ OneAtATime(m)
MemFits == Fits(memory)
Held(t) == {p \in memory.pending : p.track = t}

(* Crossings that are held go to and fro, up to the side the thing is on.     *)
ToAndFro(h) ==
  "around" \notin facts[h] /\ trackOf[h] # 0 =>
    /\ \A p \in Held(trackOf[h]) : (\A q \in Held(trackOf[h]) : q.ts <= p.ts) => p.says = memory.side[trackOf[h]]
    /\ \A p, q \in Held(trackOf[h]) :
         p.ts < q.ts /\ (\A r \in Held(trackOf[h]) : ~(p.ts < r.ts /\ r.ts < q.ts)) => p.says # q.says
LatestTold(h) == {d \in Told(h) : \A c \in Told(h) : c.ts <= d.ts}

(* What links what was told of a thing that was neither lost nor interrupted  *)
(* since to the memory of its track: an entry to the cooldown and to being    *)
(* inside or seen outside, a vehicle to being reported, a crossing to the     *)
(* side that was told last, a group to the cooldown of the zone.              *)
Linked(h) ==
  Clean(h) /\ Told(h) # {} =>
    LET t == trackOf[h] IN
    /\ t # 0
    /\ Kind = "entry" => /\ \A d \in Told(h) : d.ts <= memory.last[t]
                         /\ t \in memory.inside \/ "outside" \in facts[h]
    /\ Kind = "parking" => t \in memory.reported
    /\ Kind = "crossing" => /\ moment - firstAt[h] >= ConfirmAfter /\ Held(t) = {}
                            /\ "around" \notin facts[h] => \A d \in LatestTold(h) : d.says = memory.side[t]
    /\ Kind = "gathering" => \A d \in Told(h) : d.ts + Cooldown <= memory.until
StoryTrue == \A h \in Things : Linked(h) /\ (Kind = "crossing" => ToAndFro(h))

(* What links a stay to the memory, and the memory to what was told.          *)
StayHolds(h) ==
  LET t == trackOf[h] IN
  /\ Kind = "entry" =>
       /\ t # 0 /\ memory.last[t] # 0 => \E e \in Told(h) : e.ts = memory.last[t]
       /\ breaker = "idle" /\ present /\ t \in memory.inside => stay[h].from # 0
       /\ stay[h].from # 0 => \E e \in Told(h) : e.ts + Cooldown > stay[h].from
  /\ Kind = "parking" =>
       /\ t # 0 => memory.entered[t] <= moment
       /\ t \in memory.reported => \E e \in Told(h) : e.ts >= firstAt[h]
       /\ stay[h].from # 0 /\ t \notin memory.reported => 0 < memory.entered[t] /\ memory.entered[t] <= stay[h].from
       /\ stay[h].from # 0 /\ stay[h].upto - stay[h].from >= Duration => t \in memory.reported
  /\ Kind = "gathering" => (t \in memory.reported => Told(h) # {} \/ h \in overlooked)
StayTrue == \A h \in Things : StayHolds(h)

(* Nothing is kept for an id that will never retire again.                    *)
Released == present => Keeps(memory, TrackValues \cup retired \cup mislaid)
ActInv ==
  /\ ThingsTyped /\ BudgetFits /\ HandFits /\ FrameFits /\ StoryFits /\ MemFits /\ Troubled /\ HeldFits
  /\ StoryTrue /\ StayTrue /\ Released /\ EventsJustified

-----------------------------------------------------------------------------
(* What the proofs need of the model's parts.                                 *)
LEMMA ActivitySizes ==
  /\ MaxIssued \in Nat /\ TrackAge \in Nat /\ ConfirmAfter \in Nat /\ Duration \in Nat /\ Duration > 0
  /\ Cooldown \in Nat /\ Cooldown > 0 /\ ResetAfter \in Nat /\ Things \subseteq Nat /\ IsFiniteSet(Things)
  /\ Groups \subseteq SUBSET Things
BY ActivityAssumption

LEMMA BlankFits ==
  /\ Blank \in Memories /\ \A S : Keeps(Blank, S) /\ Blank.touched \subseteq Blank.across
  /\ Blank.pending = {} /\ Blank.inside = {} /\ Blank.reported = {} /\ Blank.until = 0
  /\ \A t \in TrackIds : Blank.last[t] = 0 /\ Blank.entered[t] = 0 /\ Blank.side[t] = "none"
<1>1. Blank \in Memories
  BY DEF Blank, Memories
<1>. QED
  BY <1>1 DEF Blank, Keeps

LEMMA RestingFits ==
  /\ Resting \in Hands /\ Resting.pc = "idle" /\ Resting.act = 0 /\ Resting.old = Blank
  /\ [Resting EXCEPT !.pc = "took"] \in Hands /\ [Resting EXCEPT !.pc = "took"].pc = "took"
  /\ [Resting EXCEPT !.pc = "took"].act = 0 /\ [Resting EXCEPT !.pc = "took"].old = Blank
<1>1. << >> \in [{} -> Shots]
  OBVIOUS
<1>2. << >> \in UNION {[S -> Shots] : S \in SUBSET Things}
  BY <1>1
<1>3. Blank \in Memories
  BY BlankFits
<1>4. Resting \in Hands
  BY <1>2, <1>3 DEF Resting, Hands
<1>. QED
  BY <1>4 DEF Resting, Hands

\* Memories that say the same of one track.
Alike(m, n, t) ==
  t \in TrackIds =>
    /\ (t \in m.inside) = (t \in n.inside) /\ (t \in m.reported) = (t \in n.reported)
    /\ m.last[t] = n.last[t] /\ m.entered[t] = n.entered[t] /\ m.side[t] = n.side[t]
    /\ {p \in m.pending : p.track = t} = {p \in n.pending : p.track = t}

LEMMA WithoutFits ==
  ASSUME NEW m \in Memories, NEW ids
  PROVE  LET n == Without(m, ids) IN
         /\ n \in Memories /\ n.pending \subseteq m.pending /\ n.until = m.until
         /\ \A S : Keeps(m, S) => Keeps(n, S) /\ Keeps(n, S \ ids)
         /\ m.touched \subseteq m.across => n.touched \subseteq n.across
         /\ \A t \in TrackIds : t \notin ids => Alike(m, n, t)
<1> DEFINE n == Without(m, ids)
<1>1. n \in Memories
  <2>1. /\ [t \in TrackIds |-> IF t \in ids THEN 0 ELSE m.last[t]] \in [TrackIds -> Nat]
        /\ [t \in TrackIds |-> IF t \in ids THEN 0 ELSE m.entered[t]] \in [TrackIds -> Nat]
        /\ [t \in TrackIds |-> IF t \in ids THEN "none" ELSE m.side[t]] \in [TrackIds -> Sides \cup {"none"}]
    BY DEF Memories
  <2>2. m.inside \ ids \in SUBSET TrackIds /\ m.reported \ ids \in SUBSET TrackIds /\ m.across \ ids \in SUBSET TrackIds
        /\ m.touched \ ids \in SUBSET TrackIds /\ {p \in m.pending : p.track \notin ids} \in SUBSET HeldCrossings
    BY DEF Memories
  <2>. QED
    BY <2>1, <2>2 DEF Without, Memories
<1>2. /\ n.inside = m.inside \ ids /\ n.reported = m.reported \ ids /\ n.across = m.across \ ids /\ n.touched = m.touched \ ids
      /\ n.pending = {p \in m.pending : p.track \notin ids} /\ n.until = m.until
      /\ \A t \in TrackIds : /\ n.last[t] = IF t \in ids THEN 0 ELSE m.last[t]
                             /\ n.entered[t] = IF t \in ids THEN 0 ELSE m.entered[t]
                             /\ n.side[t] = IF t \in ids THEN "none" ELSE m.side[t]
  BY DEF Without, Memories
<1> HIDE DEF n
<1>3. ASSUME NEW S, Keeps(m, S) PROVE Keeps(n, S) /\ Keeps(n, S \ ids)
  BY <1>2, <1>3 DEF Keeps
<1>4. ASSUME NEW t \in TrackIds, t \notin ids PROVE Alike(m, n, t)
  BY <1>2, <1>4 DEF Alike
<1>. QED
  BY <1>1, <1>2, <1>3, <1>4 DEF n

LEMMA Retired ==
  ASSUME Fits(memory), NEW ids
  PROVE  LET n == Retire(ids) IN
         /\ Fits(n) /\ n.pending \subseteq memory.pending /\ n.until = memory.until
         /\ \A S : Keeps(memory, S) => Keeps(n, S) /\ (present => Keeps(n, S \ ids))
         /\ \A t \in TrackIds : t \notin ids => Alike(memory, n, t)
<1>1. memory \in Memories /\ Keeps(memory, 1..issued) /\ memory.touched \subseteq memory.across
  BY DEF Fits
<1>2. CASE present
  BY <1>1, <1>2, WithoutFits DEF Retire, Fits
<1>3. CASE ~present
  BY <1>1, <1>3 DEF Retire, Fits, Alike
<1>. QED
  BY <1>2, <1>3

\* Ranks in a finite set of numbers.
LEMMA Ranks ==
  ASSUME NEW F, F \subseteq Things
  PROVE  /\ IsFiniteSet(F) /\ Cardinality(F) \in Nat
         /\ \A h \in F : Cardinality({g \in F : g <= h}) \in 1..Cardinality(F)
         /\ \A g, h \in F : Cardinality({x \in F : x <= g}) = Cardinality({x \in F : x <= h}) => g = h
<1>1. IsFiniteSet(F) /\ Cardinality(F) \in Nat /\ F \subseteq Nat
  BY ActivitySizes, FS_Subset, FS_CardinalityType
<1>2. ASSUME NEW h \in F PROVE /\ IsFiniteSet({g \in F : g <= h}) /\ Cardinality({g \in F : g <= h}) \in Nat
                               /\ Cardinality({g \in F : g <= h}) <= Cardinality(F) /\ Cardinality({g \in F : g <= h}) > 0
  <2> DEFINE S == {g \in F : g <= h}
  <2>1. S \subseteq F /\ h \in S
    BY <1>1
  <2>2. IsFiniteSet(S) /\ Cardinality(S) <= Cardinality(F) /\ Cardinality(S) \in Nat
    BY <2>1, <1>1, FS_Subset, FS_CardinalityType
  <2>3. Cardinality(S) # 0
    BY <2>1, <2>2, FS_EmptySet
  <2>. QED
    BY <2>2, <2>3
<1>3. ASSUME NEW g \in F, NEW h \in F, g < h PROVE Cardinality({x \in F : x <= g}) < Cardinality({x \in F : x <= h})
  <2> DEFINE S == {x \in F : x <= h}
             R == {x \in F : x <= g}
  <2>1. IsFiniteSet(S) /\ Cardinality(S) \in Nat /\ Cardinality(R) \in Nat
    BY <1>2
  <2>2. h \in S /\ R \subseteq S \ {h}
    <3>1. g \in Nat /\ h \in Nat /\ h <= h
      BY <1>1
    <3>2. ASSUME NEW x \in F, x <= g PROVE x <= h /\ x # h
      <4>1. x \in Nat
        BY <1>1
      <4>. QED
        BY <4>1, <3>1, <3>2, <1>3
    <3>. QED
      BY <3>1, <3>2
  <2>3. IsFiniteSet(S \ {h}) /\ Cardinality(S \ {h}) = Cardinality(S) - 1
    BY <2>1, <2>2, FS_RemoveElement
  <2>4. Cardinality(R) <= Cardinality(S \ {h})
    BY <2>2, <2>3, FS_Subset
  <2>. QED
    BY <2>1, <2>3, <2>4
<1>4. ASSUME NEW g \in F, NEW h \in F, Cardinality({x \in F : x <= g}) = Cardinality({x \in F : x <= h}) PROVE g = h
  <2>1. ~(g < h) /\ ~(h < g)
    BY <1>2, <1>3, <1>4
  <2>. QED
    BY <2>1, <1>1
<1>. QED
  BY <1>1, <1>2, <1>4

LEMMA BudgetUsed ==
  ASSUME BudgetFits, NEW what \in {"look", "push", "edit", "break", "remove"}, UseActivity(what)
  PROVE  BudgetFits' /\ Kind' = Kind
<1>1. activityBudget' = [activityBudget EXCEPT ![what] = @ - 1]
  BY DEF UseActivity
<1>2. \A x \in {"kind", "things", "pauses", "off"} : x \in DOMAIN activityBudget' /\ activityBudget'[x] = activityBudget[x]
  BY <1>1 DEF BudgetFits
<1>3. Kind' = Kind /\ Actors' = Actors
  BY <1>2 DEF Kind, Actors
<1>. QED
  BY <1>2, <1>3 DEF BudgetFits

\* What does not change of a thing and of the memory of its track keeps the links.
LEMMA LinkKept ==
  ASSUME NEW h \in Things, Linked(h), trackOf[h] \in 0..MaxIssued, trackOf'[h] = trackOf[h], firstAt'[h] = firstAt[h], firstAt[h] \in Nat,
         moment \in Nat, moment' \in Nat, moment' >= moment, Told(h)' = Told(h), Kind' = Kind, facts[h] \subseteq facts'[h],
         Alike(memory, memory', trackOf[h]), Kind = "gathering" => memory'.until = memory.until
  PROVE  Linked(h)'
<1>1. SUFFICES ASSUME Clean(h)', Told(h)' # {} PROVE Linked(h)'
  BY DEF Linked
<1>2. Told(h)' = Told(h) /\ Clean(h) /\ LatestTold(h)' = LatestTold(h)
  BY <1>1 DEF Clean, LatestTold
<1>3. trackOf[h] # 0 /\ trackOf[h] \in TrackIds
  BY <1>1, <1>2, ActivitySizes DEF Linked, TrackIds
<1>4. Held(trackOf[h])' = Held(trackOf[h])
  BY <1>3 DEF Alike, Held
<1>5. CASE Kind = "entry"
  BY <1>1, <1>2, <1>3, <1>5 DEF Linked, Alike
<1>6. CASE Kind = "parking"
  BY <1>1, <1>2, <1>3, <1>6 DEF Linked, Alike
<1>7. CASE Kind = "crossing"
  <2>1. moment' - firstAt'[h] >= ConfirmAfter
    BY <1>1, <1>2, <1>7, ActivitySizes DEF Linked
  <2>2. "around" \notin facts'[h] => \A d \in LatestTold(h) : d.says = memory'.side[trackOf[h]]
    BY <1>1, <1>2, <1>3, <1>7 DEF Linked, Alike
  <2>3. Held(trackOf[h]) = {}
    BY <1>1, <1>2, <1>7 DEF Linked
  <2>. QED
    BY <1>1, <1>2, <1>3, <1>4, <1>7, <2>1, <2>2, <2>3 DEF Linked
<1>8. CASE Kind = "gathering"
  BY <1>1, <1>2, <1>3, <1>8 DEF Linked
<1>9. CASE Kind \notin ActivityKinds
  BY <1>1, <1>2, <1>3, <1>9 DEF Linked, ActivityKinds
<1>. QED
  BY <1>5, <1>6, <1>7, <1>8, <1>9 DEF ActivityKinds

LEMMA FroKept ==
  ASSUME NEW h \in Things, ToAndFro(h), trackOf[h] \in 0..MaxIssued, trackOf'[h] = trackOf[h], facts[h] \subseteq facts'[h],
         Alike(memory, memory', trackOf[h])
  PROVE  ToAndFro(h)'
<1>1. SUFFICES ASSUME "around" \notin facts'[h], trackOf'[h] # 0 PROVE ToAndFro(h)'
  BY DEF ToAndFro
<1>2. trackOf[h] \in TrackIds /\ "around" \notin facts[h]
  BY <1>1, ActivitySizes DEF TrackIds
<1>3. Held(trackOf[h])' = Held(trackOf[h]) /\ memory'.side[trackOf[h]] = memory.side[trackOf[h]]
  BY <1>2 DEF Alike, Held
<1>. QED
  BY <1>1, <1>2, <1>3 DEF ToAndFro

LEMMA StayKept ==
  ASSUME NEW h \in Things, StayHolds(h), trackOf[h] \in 0..MaxIssued, trackOf'[h] = trackOf[h], firstAt'[h] = firstAt[h],
         Told(h)' = Told(h), h \in overlooked => h \in overlooked', Kind' = Kind, Alike(memory, memory', trackOf[h]), memory \in Memories,
         moment \in Nat, moment' \in Nat, moment' >= moment, stay'[h] = stay[h], 0 \notin memory'.inside, 0 \notin memory'.reported, stay[h].from # 0 => trackOf[h] # 0,
         breaker' = "idle" /\ present' => breaker = "idle" /\ present
  PROVE  StayHolds(h)'
<1>1. Told(h)' = Told(h)
  OBVIOUS
<1>2. CASE trackOf[h] = 0
  BY <1>1, <1>2 DEF StayHolds
<1>3. CASE trackOf[h] \in TrackIds
  <2>1. memory.entered[trackOf[h]] \in Nat
    BY <1>3 DEF Memories
  <2>. QED
    BY <1>1, <1>3, <2>1 DEF StayHolds, Alike
<1>. QED
  BY <1>2, <1>3, ActivitySizes DEF TrackIds

\* Nothing is known any more of a thing that was interrupted.
LEMMA LinkBroken == ASSUME NEW h \in Things, facts'[h] \cap {"lost", "reset"} # {} PROVE Linked(h)'
BY DEF Linked, Clean

LEMMA JustifiedKept == ASSUME EventsJustified, decided' = decided, Kind' = Kind PROVE EventsJustified'
BY DEF EventsJustified, LastBefore, Before, Justified


LEMMA ActivityStart == ASSUME ActivityInit PROVE ActInv
<1>0. /\ moment = 1 /\ issued = 0 /\ retired = {} /\ setup = 1 /\ present = TRUE /\ memory = Blank
      /\ trackOf = [h \in Things |-> 0] /\ seenAt = [h \in Things |-> 0] /\ firstAt = [h \in Things |-> 0]
      /\ hand = Resting /\ breaker = "idle" /\ decided = {}
      /\ facts = [h \in Things |-> {}] /\ mislaid = {} /\ overlooked = {}
      /\ stay = [h \in Things |-> NoStay] /\ activityBudget \in ActivityBudgets
  BY DEF ActivityInit
<1>1. ThingsTyped
  BY <1>0, ActivitySizes DEF ThingsTyped
<1>2. BudgetFits
  BY <1>0, ActivityAssumption DEF BudgetFits, Kind, Actors, ActivityKinds
<1>3. HandFits /\ ~Named /\ MemFits
  BY <1>0, RestingFits, BlankFits DEF HandFits, Fits, Named, MemFits
<1>4. StoryFits
  <2>1. NoStay \in [from : Nat, upto : Nat] /\ NoStay.from = 0
    BY DEF NoStay
  <2>2. stay \in [Things -> [from : Nat, upto : Nat]] /\ \A h \in Things : stay[h].from = 0
    BY <1>0, <2>1
  <2>. QED
    BY <1>0, <2>2 DEF StoryFits
<1>5. FrameFits /\ Troubled
  BY <1>0, <1>3, RestingFits DEF FrameFits, Troubled, Unsettled, Replaced
<1>6. HeldFits
  BY <1>0, RestingFits, BlankFits DEF HeldFits, Later, Dated, OneAtATime
<1>7. StoryTrue
  <2>1. \A h \in Things : Told(h) = {} /\ trackOf[h] = 0
    BY <1>0 DEF Told
  <2>. QED
    BY <2>1 DEF StoryTrue, Linked, ToAndFro
<1>8. StayTrue
  <2>1. ASSUME NEW h \in Things PROVE trackOf[h] = 0 /\ stay[h].from = 0 /\ memory.inside = {} /\ memory.reported = {}
    BY <1>0, BlankFits DEF NoStay
  <2>. QED
    BY <2>1 DEF StayTrue, StayHolds
<1>9. Released /\ EventsJustified
  BY <1>0, BlankFits DEF Released, EventsJustified
<1>. QED
  BY <1>1, <1>2, <1>3, <1>4, <1>5, <1>6, <1>7, <1>8, <1>9 DEF ActInv

\* What the two stories say does not depend on the worker.
LEMMA StorySame ==
  ASSUME StoryTrue, StayTrue, Released, EventsJustified, StoryFits, ThingsTyped, Kind' = Kind,
         UNCHANGED <<identityVars, retired, setup, present, breaker, memory, storyVars>>
  PROVE  StoryTrue' /\ StayTrue' /\ Released' /\ EventsJustified' /\ StoryFits' /\ ThingsTyped'
<1>0. /\ moment' = moment /\ trackOf' = trackOf /\ seenAt' = seenAt /\ firstAt' = firstAt /\ issued' = issued /\ retired' = retired
      /\ setup' = setup /\ present' = present /\ breaker' = breaker /\ memory' = memory /\ decided' = decided /\ facts' = facts
      /\ mislaid' = mislaid /\ stay' = stay /\ overlooked' = overlooked
  BY DEF identityVars, storyVars
<1>1. \A h \in Things : Told(h)' = Told(h) /\ LatestTold(h)' = LatestTold(h) /\ Clean(h)' = Clean(h)
  BY <1>0 DEF Told, LatestTold, Clean
<1>2. ASSUME NEW h \in Things PROVE Linked(h)' /\ StayHolds(h)' /\ (Kind = "crossing" => ToAndFro(h)')
  <2>1. \A t : Held(t)' = Held(t)
    BY <1>0 DEF Held
  <2>2. Linked(h)'
    <3>1. Linked(h)
      BY DEF StoryTrue
    <3>. QED
      BY <3>1, <2>1, <1>0, <1>1 DEF Linked
  <2>3. StayHolds(h)'
    <3>1. StayHolds(h)
      BY DEF StayTrue
    <3>. QED
      BY <3>1, <1>0, <1>1 DEF StayHolds
  <2>4. ASSUME Kind = "crossing" PROVE ToAndFro(h)'
    <3>1. ToAndFro(h)
      BY <2>4 DEF StoryTrue
    <3>. QED
      BY <3>1, <2>1, <1>0 DEF ToAndFro
  <2>. QED
    BY <2>2, <2>3, <2>4
<1>3. StoryTrue' /\ StayTrue'
  BY <1>2 DEF StoryTrue, StayTrue
<1>4. Released'
  BY <1>0 DEF Released, TrackValues
<1>5. EventsJustified'
  BY <1>0, JustifiedKept
<1>6. StoryFits' /\ ThingsTyped'
  BY <1>0 DEF StoryFits, ThingsTyped
<1>. QED
  BY <1>3, <1>4, <1>5, <1>6

LEMMA StaysSo ==
  ASSUME ActInv, BudgetFits', Kind' = Kind, UNCHANGED <<identityVars, retired, setup, present, breaker, memory, hand, storyVars>>
  PROVE  ActInv'
<1>0. /\ moment' = moment /\ trackOf' = trackOf /\ seenAt' = seenAt /\ firstAt' = firstAt /\ issued' = issued /\ retired' = retired
      /\ setup' = setup /\ present' = present /\ breaker' = breaker /\ memory' = memory /\ decided' = decided /\ facts' = facts
      /\ mislaid' = mislaid /\ stay' = stay /\ overlooked' = overlooked /\ hand' = hand
  BY DEF identityVars, storyVars
<1>1. StoryTrue' /\ StayTrue' /\ Released' /\ EventsJustified' /\ StoryFits' /\ ThingsTyped'
  BY StorySame DEF ActInv
<1>2. HandFits' /\ MemFits' /\ Troubled'
  BY <1>0 DEF ActInv, HandFits, MemFits, Fits, Troubled, Unsettled, Replaced, Named, Shown
<1>3. FrameFits'
  BY <1>0 DEF ActInv, FrameFits, Named, Shown
<1>4. HeldFits'
  BY <1>0 DEF ActInv, HeldFits, Later, Dated, OneAtATime, IdIn, Named, Shown, Told
<1>. QED
  BY <1>1, <1>2, <1>3, <1>4 DEF ActInv

\* The worker has nothing in hand.
LEMMA Rests ==
  ASSUME ActInv, BudgetFits', Kind' = Kind, UNCHANGED <<identityVars, retired, setup, present, breaker, memory, storyVars>>,
         hand' \in {Resting, [Resting EXCEPT !.pc = "took"]}
  PROVE  ActInv'
<1>0. /\ moment' = moment /\ trackOf' = trackOf /\ issued' = issued /\ retired' = retired
      /\ setup' = setup /\ present' = present /\ breaker' = breaker /\ memory' = memory /\ decided' = decided /\ facts' = facts
      /\ mislaid' = mislaid
  BY DEF identityVars, storyVars
<1>1. StoryTrue' /\ StayTrue' /\ Released' /\ EventsJustified' /\ StoryFits' /\ ThingsTyped'
  BY StorySame DEF ActInv
<1>2. hand' \in Hands /\ hand'.pc \in {"idle", "took"} /\ hand'.act = 0 /\ hand'.old = Blank
  BY RestingFits
<1>3. ~Named' /\ ~Replaced' /\ FrameFits'
  BY <1>2 DEF Named, Replaced, FrameFits
<1>4. HandFits' /\ MemFits'
  <2>1. Fits(Blank)'
    BY BlankFits DEF Fits
  <2>2. hand'.act \in 0..setup'
    BY <1>0, <1>2 DEF ActInv, ThingsTyped
  <2>3. MemFits'
    BY <1>0 DEF ActInv, MemFits, Fits
  <2>. QED
    BY <1>2, <2>1, <2>2, <2>3 DEF HandFits, Fits
<1>5. Troubled'
  BY <1>0, <1>2, <1>3 DEF ActInv, Troubled, Unsettled
<1>6. HeldFits'
  <2>1. Later(memory)' /\ Dated(memory)' /\ OneAtATime(memory)'
    <3>1. \A h \in Things : IdIn(h)' = {trackOf[h]} /\ trackOf[h] \in IdIn(h) /\ Told(h)' = Told(h)
      BY <1>0, <1>3 DEF IdIn, Told
    <3>2. Later(memory) /\ Dated(memory) /\ OneAtATime(memory)
      BY DEF ActInv, HeldFits
    <3>. QED
      BY <3>1, <3>2, <1>0, <1>3 DEF Later, Dated, OneAtATime
  <2>2. Later(hand.old)' /\ Dated(hand.old)' /\ OneAtATime(hand.old)'
    BY <1>2, BlankFits DEF Later, Dated, OneAtATime
  <2>. QED
    BY <2>1, <2>2 DEF HeldFits
<1>. QED
  BY <1>1, <1>3, <1>4, <1>5, <1>6 DEF ActInv

LEMMA Observes == ASSUME ActInv, Observe PROVE ActInv'
<1>0. /\ moment' = moment /\ trackOf' = trackOf /\ seenAt' = seenAt /\ firstAt' = firstAt /\ issued' = issued /\ retired' = retired
      /\ setup' = setup /\ present' = present /\ breaker' = breaker /\ memory' = memory /\ decided' = decided /\ facts' = facts
      /\ mislaid' = mislaid /\ activityBudget' = activityBudget /\ hand.pc = "look"
      /\ UNCHANGED <<identityVars, retired, setup, present, breaker, memory, storyVars>>
  BY DEF identityVars, storyVars, configVars, Observe
<1>1. BudgetFits' /\ Kind' = Kind
  BY <1>0 DEF ActInv, BudgetFits, Kind, Actors
<1>2. CASE ~present
  <2>1. hand' = Resting
    BY <1>2 DEF Observe
  <2>. QED
    BY <2>1, <1>0, <1>1, Rests
<1>3. CASE present
  <2>0. hand' = [hand EXCEPT !.pc = "evaluate", !.act = setup] /\ HandFits /\ ThingsTyped
    BY <1>3 DEF Observe, ActInv
  <2>1. /\ hand' \in Hands /\ hand'.pc = "evaluate" /\ hand'.act = setup /\ hand'.ts = hand.ts /\ hand'.shown = hand.shown
        /\ hand'.with = hand.with /\ hand'.old = hand.old
    BY <2>0 DEF HandFits, Hands, ThingsTyped
  <2>2. Named /\ Named' /\ ~Replaced' /\ Shown' = Shown
    BY <1>0, <2>1 DEF Named, Replaced, Shown
  <2>3. HandFits' /\ MemFits'
    BY <1>0, <2>0, <2>1 DEF ActInv, HandFits, MemFits, Fits, ThingsTyped
  <2>4. FrameFits'
    BY <1>0, <1>1, <2>1, <2>2 DEF ActInv, FrameFits
  <2>5. Troubled'
    BY <1>0, <1>3, <2>1, <2>2 DEF ActInv, Troubled, Unsettled
  <2>6. HeldFits'
    <3>1. \A h \in Things : IdIn(h)' = IdIn(h) /\ Told(h)' = Told(h)
      BY <1>0, <2>1, <2>2 DEF IdIn, Told
    <3>2. \A m \in {memory, hand.old} : Later(m) /\ Dated(m) /\ OneAtATime(m)
      BY DEF ActInv, HeldFits
    <3>. QED
      BY <3>1, <3>2, <1>0, <1>1, <2>1, <2>2 DEF HeldFits, Later, Dated, OneAtATime
  <2>7. StoryTrue' /\ StayTrue' /\ Released' /\ EventsJustified' /\ StoryFits' /\ ThingsTyped'
    BY <1>0, <1>1, StorySame DEF ActInv
  <2>. QED
    BY <1>1, <2>3, <2>4, <2>5, <2>6, <2>7 DEF ActInv
<1>. QED
  BY <1>2, <1>3

LEMMA KeepsMore == ASSUME NEW m \in Memories, NEW S, NEW T, Keeps(m, S), S \cap TrackIds \subseteq T PROVE Keeps(m, T)
<1>1. m.inside \cup m.reported \cup m.across \cup m.touched \subseteq TrackIds /\ \A p \in m.pending : p.track \in TrackIds
  BY DEF Memories, HeldCrossings
<1>. QED
  BY <1>1 DEF Keeps

LEMMA Interrupts ==
  ASSUME StoryFits, Interrupted
  PROVE  /\ facts' \in [Things -> SUBSET KnownFacts] /\ stay' \in [Things -> [from : Nat, upto : Nat]]
         /\ \A h \in Things : facts'[h] = facts[h] \cup {"reset"} /\ stay'[h].from = 0
<1>1. NoStay \in [from : Nat, upto : Nat] /\ NoStay.from = 0
  BY DEF NoStay
<1>. QED
  BY <1>1 DEF StoryFits, Interrupted, KnownFacts

LEMMA Loses ==
  ASSUME ActInv, LoseTracks, UNCHANGED <<setup, memory, hand, decided, overlooked>>, Kind' = Kind, BudgetFits',
         retired' \subseteq 1..issued, present' \in BOOLEAN, breaker' \in {"idle", "tracks", "retired"},
         present' => present /\ retired \cup Dropped \subseteq retired'
  PROVE  ActInv'
<1>0. /\ ThingsTyped /\ HandFits /\ FrameFits /\ StoryFits /\ MemFits /\ Troubled /\ HeldFits /\ StoryTrue /\ StayTrue /\ Released
      /\ trackOf' = [h \in Things |-> 0] /\ mislaid' = mislaid \cup (IF Named THEN InView ELSE {}) /\ Interrupted
      /\ seenAt' = seenAt /\ firstAt' = firstAt /\ issued' = issued /\ moment' = moment
      /\ setup' = setup /\ memory' = memory /\ hand' = hand /\ decided' = decided /\ overlooked' = overlooked
  BY DEF ActInv, LoseTracks
<1>1. /\ facts' \in [Things -> SUBSET KnownFacts] /\ stay' \in [Things -> [from : Nat, upto : Nat]]
      /\ \A h \in Things : facts'[h] = facts[h] \cup {"reset"} /\ stay'[h].from = 0
  BY <1>0, Interrupts
<1>2. /\ Named' = Named /\ Shown' = Shown /\ Replaced' = Replaced /\ mislaid \subseteq mislaid' /\ mislaid' \subseteq 1..issued
      /\ Named => \A h \in Shown : hand.shown[h].id \in mislaid' /\ hand.shown[h].id \in 1..issued
  <2>1. Named => InView \subseteq 1..issued /\ \A h \in Shown : hand.shown[h].id \in InView
    BY <1>0 DEF FrameFits, InView
  <2>2. mislaid \subseteq 1..issued
    BY <1>0 DEF ThingsTyped
  <2>. QED
    BY <1>0, <2>1, <2>2 DEF Named, Shown, Replaced
<1>3. 0 \notin 1..issued /\ 0 \in 0..issued
  BY <1>0 DEF ThingsTyped
<1>4. ThingsTyped'
  <2>1. /\ trackOf' \in [Things -> 0..issued] /\ \A h \in Things : trackOf'[h] = 0
    BY <1>0, <1>3
  <2>. QED
    BY <1>0, <1>2, <1>3, <2>1 DEF ThingsTyped
<1>5. HandFits' /\ MemFits'
  BY <1>0 DEF HandFits, MemFits, Fits
<1>6. FrameFits'
  <2>1. ASSUME Named, NEW h \in Shown
        PROVE  /\ h \in Things /\ hand.shown[h].id \in 1..issued /\ trackOf'[h] = 0 /\ hand.shown[h].id \in mislaid'
               /\ \A g \in Things : trackOf'[g] # hand.shown[h].id
               /\ hand.shown[h].at = "out" => "outside" \in facts'[h]
    BY <1>0, <1>1, <1>2, <1>3, <2>1 DEF FrameFits
  <2>2. ASSUME Named
        PROVE  /\ Shown \subseteq Things /\ hand.shown \in [Shown -> Shots] /\ hand.ts = moment
               /\ Kind = "gathering" => UNION hand.with = Shown
               /\ \A h \in Shown : \A g \in Shown : hand.shown[g].id = hand.shown[h].id => g = h
               /\ \A h \in Shown : hand.shown[h].at \in IF Kind = "crossing" THEN {"left", "right", "gate", "beside"} ELSE {"in", "out"}
               /\ \A e \in decided : e.ts < moment
    BY <1>0, <2>2 DEF FrameFits
  <2>3. Kind' = Kind
    OBVIOUS
  <2>. QED
    BY <1>0, <1>2, <2>1, <2>2, <2>3 DEF FrameFits
<1>7. StoryFits'
  BY <1>0, <1>1 DEF StoryFits
<1>8. Troubled'
  BY <1>0, <1>1, <1>2 DEF Troubled, FrameFits
<1>9. HeldFits'
  <2>1. ASSUME NEW m \in {memory, hand.old} PROVE Later(m)'
    <3>1. m \in Memories /\ m.pending \subseteq HeldCrossings /\ 0 \notin TrackIds
      BY <1>0 DEF MemFits, HandFits, Fits, Memories, TrackIds
    <3>2. ASSUME NEW p \in m.pending, NEW h \in Things, p.track \in IdIn(h)' PROVE p.track \in IdIn(h)
      <4>1. p.track # 0
        BY <3>1 DEF HeldCrossings
      <4>2. trackOf'[h] = 0
        BY <1>0
      <4>. QED
        BY <3>2, <4>1, <4>2, <1>0, <1>2 DEF IdIn
    <3>3. Later(m)
      BY <1>0 DEF HeldFits
    <3>. QED
      BY <3>2, <3>3, <1>0 DEF Later, Told
  <2>2. \A m \in {memory, hand.old} : Dated(m)' /\ OneAtATime(m)'
    BY <1>0, <1>2 DEF HeldFits, Dated, OneAtATime
  <2>3. hand'.old = hand.old
    BY <1>0
  <2>. QED
    BY <2>1, <2>2, <2>3, <1>0 DEF HeldFits, Later, Dated, OneAtATime
<1>10. StoryTrue'
  <2>1. ASSUME NEW h \in Things PROVE facts'[h] \cap {"lost", "reset"} # {} /\ trackOf'[h] = 0
    BY <1>0, <1>1
  <2>2. \A h \in Things : Linked(h)'
    BY <2>1, LinkBroken
  <2>. QED
    BY <2>1, <2>2 DEF StoryTrue, ToAndFro
<1>11. StayTrue'
  <2>1. 0 \notin memory.inside /\ 0 \notin memory.reported
    BY <1>0 DEF MemFits, Fits, Memories, TrackIds
  <2>. QED
    BY <1>0, <1>1, <2>1 DEF StayTrue, StayHolds
<1>12. Released'
  <2>1. SUFFICES ASSUME present' PROVE Keeps(memory, (TrackValues \cup retired \cup mislaid)')
    BY <1>0 DEF Released
  <2>2. Keeps(memory, TrackValues \cup retired \cup mislaid) /\ memory \in Memories
    BY <1>0, <2>1 DEF Released, MemFits, Fits
  <2>3. (TrackValues \cup retired \cup mislaid) \cap TrackIds \subseteq (TrackValues \cup retired \cup mislaid)'
    BY <1>2, <2>1 DEF TrackValues, Dropped, TrackIds
  <2>. QED
    BY <2>2, <2>3, KeepsMore
<1>13. EventsJustified'
  BY <1>0, JustifiedKept DEF ActInv
<1>. QED
  BY <1>4, <1>5, <1>6, <1>7, <1>8, <1>9, <1>10, <1>11, <1>12, <1>13 DEF ActInv

LEMMA DroppedIds == ASSUME ThingsTyped PROVE Dropped \subseteq 1..issued
BY DEF ThingsTyped, Dropped

LEMMA BreaksStream == ASSUME ActInv, BreakStream PROVE ActInv'
<1>1. BudgetFits' /\ Kind' = Kind
  BY BudgetUsed DEF BreakStream, ActInv
<1>2. retired' \subseteq 1..issued /\ present' = present /\ present \in BOOLEAN
  BY DroppedIds DEF ActInv, ThingsTyped, BreakStream
<1>. QED
  BY <1>1, <1>2, Loses DEF BreakStream

LEMMA RemovesActivities == ASSUME ActInv, RemoveActivities PROVE ActInv'
<1>1. BudgetFits' /\ Kind' = Kind
  BY BudgetUsed DEF RemoveActivities, ActInv
<1>2. breaker \in {"idle", "tracks", "retired"}
  BY DEF ActInv, ThingsTyped
<1>. QED
  BY <1>1, <1>2, Loses DEF RemoveActivities

LEMMA ForgetsBroken == ASSUME ActInv, RetireBroken PROVE ActInv'
<1>0. /\ ThingsTyped /\ BudgetFits /\ HandFits /\ FrameFits /\ StoryFits /\ MemFits /\ Troubled /\ HeldFits /\ StoryTrue /\ StayTrue /\ Released
      /\ EventsJustified
      /\ trackOf' = trackOf /\ mislaid' = mislaid /\ facts' = facts /\ stay' = stay
      /\ seenAt' = seenAt /\ firstAt' = firstAt /\ issued' = issued /\ moment' = moment /\ present' = present
      /\ setup' = setup /\ hand' = hand /\ decided' = decided /\ overlooked' = overlooked /\ activityBudget' = activityBudget
      /\ breaker = "tracks" /\ breaker' = "retired" /\ memory' = Retire(retired) /\ retired' = {}
  BY DEF ActInv, RetireBroken, identityVars, storyVars
<1>1. /\ Fits(memory') /\ memory'.pending \subseteq memory.pending /\ memory'.until = memory.until
      /\ \A S : Keeps(memory, S) => Keeps(memory', S) /\ (present => Keeps(memory', S \ retired))
      /\ \A t \in TrackIds : t \notin retired => Alike(memory, memory', t)
  BY <1>0, Retired DEF MemFits
<1>2. Kind' = Kind /\ BudgetFits' /\ Named' = Named /\ Replaced' = Replaced /\ Shown' = Shown
  BY <1>0 DEF Kind, Actors, BudgetFits, Named, Replaced, Shown
<1>3. ThingsTyped' /\ HandFits' /\ StoryFits'
  BY <1>0, <1>2 DEF ThingsTyped, HandFits, Fits, StoryFits
<1>4. FrameFits'
  BY <1>0, <1>2 DEF FrameFits
<1>5. Troubled' /\ \A h \in Things : "reset" \in facts'[h]
  BY <1>0, <1>1, <1>2 DEF Troubled, Unsettled
<1>6. HeldFits'
  <2>1. \A h \in Things : IdIn(h)' = IdIn(h) /\ Told(h)' = Told(h)
    BY <1>0, <1>2 DEF IdIn, Told
  <2>. QED
    BY <2>1, <1>0, <1>1, <1>2 DEF HeldFits, Later, Dated, OneAtATime
<1>7. MemFits'
  BY <1>0, <1>1 DEF MemFits, Fits
<1>8. ASSUME NEW h \in Things PROVE trackOf[h] \in 0..MaxIssued /\ Alike(memory, memory', trackOf[h]) /\ firstAt[h] \in Nat
  <2>1. trackOf[h] \in 0..issued /\ issued <= MaxIssued /\ trackOf[h] \notin retired /\ issued \in Nat /\ firstAt[h] \in Nat
    BY <1>0 DEF ThingsTyped
  <2>2. trackOf[h] \in 0..MaxIssued
    BY <2>1, ActivitySizes
  <2>3. CASE trackOf[h] \in TrackIds
    BY <1>1, <2>1, <2>2, <2>3
  <2>4. CASE trackOf[h] \notin TrackIds
    BY <2>1, <2>2, <2>4 DEF Alike
  <2>. QED
    BY <2>1, <2>2, <2>3, <2>4
<1>9. StoryTrue'
  <2>1. \A h \in Things : ToAndFro(h) => ToAndFro(h)'
    BY <1>0, <1>8, FroKept
  <2>. QED
    BY <1>0, <1>2, <1>5, <2>1, LinkBroken DEF StoryTrue
<1>10. StayTrue'
  <2>1. 0 \notin memory'.inside /\ 0 \notin memory'.reported
    BY <1>1 DEF Fits, Memories, TrackIds
  <2>2. ASSUME NEW h \in Things PROVE StayHolds(h)'
    <3>1. StayHolds(h) /\ (stay[h].from # 0 => trackOf[h] # 0) /\ Told(h)' = Told(h)
      BY <1>0 DEF StayTrue, StoryFits, Told
    <3>2. moment \in Nat /\ moment' \in Nat /\ moment' >= moment /\ memory \in Memories
      BY <1>0 DEF ThingsTyped, MemFits, Fits
    <3>. QED
      BY <3>1, <3>2, <2>1, <1>0, <1>2, <1>8, StayKept
  <2>. QED
    BY <2>2 DEF StayTrue
<1>11. Released'
  <2>1. SUFFICES ASSUME present PROVE Keeps(memory', (TrackValues \cup retired \cup mislaid)')
    BY <1>0 DEF Released
  <2>2. Keeps(memory', (TrackValues \cup retired \cup mislaid) \ retired)
    BY <1>0, <1>1, <2>1 DEF Released
  <2>3. ((TrackValues \cup retired \cup mislaid) \ retired) \cap TrackIds \subseteq (TrackValues \cup retired \cup mislaid)'
    BY <1>0 DEF TrackValues
  <2>. QED
    BY <1>1, <2>2, <2>3, KeepsMore DEF Fits
<1>12. EventsJustified'
  BY <1>0, <1>2, JustifiedKept
<1>. QED
  BY <1>2, <1>3, <1>4, <1>5, <1>6, <1>7, <1>9, <1>10, <1>11, <1>12 DEF ActInv

\* Everything is put back: what an empty memory says is true of everyone.
LEMMA BlankTrue ==
  ASSUME memory' = Blank, moment' \in Nat, \A h \in Things : stay'[h].from = 0 /\ "reset" \in facts'[h] /\ trackOf'[h] \in 0..MaxIssued
  PROVE  StoryTrue' /\ StayTrue' /\ Released' /\ Keeps(memory', {})
<1>1. /\ \A S : Keeps(memory', S) /\ memory'.pending = {} /\ memory'.inside = {} /\ memory'.reported = {}
      /\ \A t \in TrackIds : memory'.last[t] = 0 /\ memory'.entered[t] = 0
  BY BlankFits
<1>2. StoryTrue'
  BY <1>1, LinkBroken DEF StoryTrue, ToAndFro, Held
<1>3. StayTrue'
  <2>1. ASSUME NEW h \in Things PROVE trackOf'[h] # 0 => memory'.last[trackOf'[h]] = 0 /\ memory'.entered[trackOf'[h]] <= moment'
    <3>1. trackOf'[h] # 0 => trackOf'[h] \in TrackIds
      BY ActivitySizes DEF TrackIds
    <3>. QED
      BY <1>1, <3>1
  <2>. QED
    BY <1>1, <2>1 DEF StayTrue, StayHolds
<1>. QED
  BY <1>1, <1>2, <1>3 DEF Released

LEMMA ResetsActivities == ASSUME ActInv, ResetActivities PROVE ActInv'
<1>0. /\ ThingsTyped /\ BudgetFits /\ HandFits /\ FrameFits /\ StoryFits /\ MemFits /\ Troubled /\ HeldFits /\ StoryTrue /\ StayTrue /\ Released
      /\ EventsJustified /\ Interrupted
      /\ trackOf' = trackOf /\ mislaid' = mislaid /\ retired' = retired
      /\ seenAt' = seenAt /\ firstAt' = firstAt /\ issued' = issued /\ moment' = moment /\ present' = present
      /\ setup' = setup /\ hand' = hand /\ decided' = decided /\ overlooked' = overlooked /\ activityBudget' = activityBudget
      /\ breaker = "retired" /\ breaker' = "idle" /\ memory' = IF present THEN Blank ELSE memory
  BY DEF ActInv, ResetActivities, identityVars
<1>1. /\ facts' \in [Things -> SUBSET KnownFacts] /\ stay' \in [Things -> [from : Nat, upto : Nat]]
      /\ \A h \in Things : facts'[h] = facts[h] \cup {"reset"} /\ stay'[h].from = 0
  BY <1>0, Interrupts
<1>2. Kind' = Kind /\ BudgetFits' /\ Named' = Named /\ Replaced' = Replaced /\ Shown' = Shown
  BY <1>0 DEF Kind, Actors, BudgetFits, Named, Replaced, Shown
<1>3. ThingsTyped' /\ HandFits'
  BY <1>0, <1>2 DEF ThingsTyped, HandFits, Fits
<1>4. StoryFits'
  BY <1>0, <1>1, <1>2 DEF StoryFits
<1>5. FrameFits'
  <2>1. \A h \in Things : facts[h] \subseteq facts'[h]
    BY <1>1
  <2>. QED
    BY <2>1, <1>0, <1>2 DEF FrameFits
<1>6. MemFits'
  <2>1. Fits(Blank)'
    BY BlankFits DEF Fits
  <2>2. Fits(memory)
    BY <1>0 DEF MemFits
  <2>. QED
    BY <1>0, <2>1, <2>2 DEF MemFits, Fits
<1>7. Troubled'
  <2>1. Keeps(Blank, {})
    BY BlankFits
  <2>2. Replaced => Keeps(memory', {})
    BY <1>0, <2>1 DEF Troubled
  <2>3. \A h \in Things : "reset" \in facts'[h]
    BY <1>1
  <2>4. hand.pc = "evaluate" /\ ~present /\ ~Replaced => \A h \in Things : trackOf[h] = 0
    BY <1>0 DEF Troubled
  <2>5. Named => Shown \subseteq Things
    BY <1>0 DEF FrameFits
  <2>. QED
    BY <1>0, <1>2, <2>2, <2>3, <2>4, <2>5 DEF Troubled
<1>8. HeldFits'
  <2>1. \A h \in Things : IdIn(h)' = IdIn(h) /\ Told(h)' = Told(h)
    BY <1>0, <1>2 DEF IdIn, Told
  <2>2. memory'.pending \subseteq memory.pending
    BY <1>0, BlankFits
  <2>. QED
    BY <2>1, <2>2, <1>0, <1>2 DEF HeldFits, Later, Dated, OneAtATime
<1>9. \A h \in Things : /\ stay'[h].from = 0 /\ "reset" \in facts'[h] /\ facts[h] \subseteq facts'[h]
                        /\ trackOf[h] \in 0..MaxIssued /\ trackOf'[h] \in 0..MaxIssued
  <2>1. ASSUME NEW h \in Things PROVE trackOf[h] \in 0..MaxIssued
    <3>1. trackOf[h] \in 0..issued /\ issued <= MaxIssued /\ issued \in Nat
      BY <1>0 DEF ThingsTyped
    <3>. QED
      BY <3>1, ActivitySizes
  <2>. QED
    BY <1>0, <1>1, <2>1
<1>10. StoryTrue' /\ StayTrue' /\ Released'
  <2>1. CASE present
    BY <1>0, <1>9, <2>1, BlankTrue DEF ThingsTyped
  <2>2. CASE ~present
    <3>1. memory' = memory
      BY <1>0, <2>2
    <3>2. StoryTrue'
      <4>1. \A h \in Things : Linked(h)'
        <5>1. \A h \in Things : facts'[h] \cap {"lost", "reset"} # {}
          BY <1>9
        <5>. QED
          BY <5>1, LinkBroken
      <4>2. \A h \in Things : Alike(memory, memory', trackOf[h])
        BY <3>1 DEF Alike
      <4>3. \A h \in Things : ToAndFro(h) => ToAndFro(h)'
        BY <1>0, <1>9, <4>2, FroKept
      <4>. QED
        BY <1>0, <1>2, <4>1, <4>3 DEF StoryTrue
    <3>3. StayTrue'
      <4>1. ASSUME NEW h \in Things PROVE StayHolds(h)'
        <5>1. StayHolds(h)
          BY <1>0 DEF StayTrue
        <5>2. Told(h)' = Told(h) /\ stay'[h].from = 0
          BY <1>0, <1>9 DEF Told
        <5>. QED
          BY <5>1, <5>2, <3>1, <1>0, <1>2, <2>2 DEF StayHolds
      <4>. QED
        BY <4>1 DEF StayTrue
    <3>4. Released'
      BY <1>0, <2>2 DEF Released
    <3>. QED
      BY <3>2, <3>3, <3>4
  <2>. QED
    BY <2>1, <2>2
<1>11. EventsJustified'
  BY <1>0, <1>2, JustifiedKept
<1>. QED
  BY <1>2, <1>3, <1>4, <1>5, <1>6, <1>7, <1>8, <1>10, <1>11 DEF ActInv

LEMMA EditsActivities == ASSUME ActInv, Configure(FALSE) PROVE ActInv'
<1>0. /\ ThingsTyped /\ BudgetFits /\ HandFits /\ FrameFits /\ StoryFits /\ MemFits /\ Troubled /\ HeldFits /\ StoryTrue /\ StayTrue /\ Released
      /\ EventsJustified /\ Interrupted /\ UseActivity("edit")
      /\ trackOf' = trackOf /\ mislaid' = mislaid /\ retired' = retired
      /\ seenAt' = seenAt /\ firstAt' = firstAt /\ issued' = issued /\ moment' = moment /\ present' = TRUE
      /\ setup' = setup + 1 /\ decided' = decided /\ overlooked' = overlooked
      /\ breaker' = breaker /\ memory' = Blank
      /\ hand' = IF hand.act = setup THEN [hand EXCEPT !.old = memory] ELSE hand
  BY DEF ActInv, Configure, Configures, identityVars
<1>1. /\ facts' \in [Things -> SUBSET KnownFacts] /\ stay' \in [Things -> [from : Nat, upto : Nat]]
      /\ \A h \in Things : facts'[h] = facts[h] \cup {"reset"} /\ stay'[h].from = 0
  BY <1>0, Interrupts
<1>2. /\ hand' \in Hands /\ hand'.pc = hand.pc /\ hand'.shown = hand.shown /\ hand'.ts = hand.ts /\ hand'.with = hand.with
      /\ hand'.act = hand.act /\ hand'.old \in {memory, hand.old}
  BY <1>0 DEF HandFits, MemFits, Fits, Hands
<1>3. Kind' = Kind /\ BudgetFits'
  BY <1>0, BudgetUsed
<1>4. Named' = Named /\ Shown' = Shown /\ setup \in Nat /\ Fits(memory) /\ Fits(hand.old) /\ hand.act \in 0..setup
  BY <1>0, <1>2 DEF Named, Shown, ThingsTyped, HandFits, MemFits
<1>5. ThingsTyped'
  BY <1>0, <1>4 DEF ThingsTyped
<1>6. HandFits'
  <2>1. hand.act \in 0..(setup + 1)
    BY <1>4
  <2>2. Fits(hand.old)'
    BY <1>0, <1>2, <1>4 DEF Fits
  <2>. QED
    BY <1>0, <1>2, <2>1, <2>2 DEF HandFits
<1>7. StoryFits'
  BY <1>0, <1>1, <1>3 DEF StoryFits
<1>8. FrameFits'
  <2>1. \A h \in Things : facts[h] \subseteq facts'[h]
    BY <1>1
  <2>. QED
    BY <2>1, <1>0, <1>2, <1>3, <1>4 DEF FrameFits
<1>9. MemFits'
  <2>1. Fits(Blank)'
    BY BlankFits DEF Fits
  <2>. QED
    BY <1>0, <2>1 DEF MemFits, Fits
<1>10. \A h \in Things : /\ stay'[h].from = 0 /\ "reset" \in facts'[h] /\ trackOf'[h] \in 0..MaxIssued
  <2>1. ASSUME NEW h \in Things PROVE trackOf[h] \in 0..MaxIssued
    <3>1. trackOf[h] \in 0..issued /\ issued <= MaxIssued /\ issued \in Nat
      BY <1>0 DEF ThingsTyped
    <3>. QED
      BY <3>1, ActivitySizes
  <2>. QED
    BY <1>0, <1>1, <2>1
<1>11. StoryTrue' /\ StayTrue' /\ Released' /\ Keeps(memory', {})
  BY <1>0, <1>10, BlankTrue DEF ThingsTyped
<1>12. Troubled'
  <2>1. Named => Shown \subseteq Things
    BY <1>0 DEF FrameFits
  <2>. QED
    BY <1>0, <1>4, <1>10, <1>11, <2>1 DEF Troubled, Keeps
<1>13. HeldFits'
  <2>1. \A h \in Things : IdIn(h)' = IdIn(h) /\ Told(h)' = Told(h)
    BY <1>0, <1>2, <1>4 DEF IdIn, Told
  <2>2. ASSUME NEW m \in {memory, hand.old} PROVE Later(m)' /\ Dated(m)' /\ OneAtATime(m)'
    BY <2>1, <1>0, <1>3, <1>4 DEF HeldFits, Later, Dated, OneAtATime
  <2>3. Later(Blank)' /\ Dated(Blank)' /\ OneAtATime(Blank)'
    BY BlankFits DEF Later, Dated, OneAtATime
  <2>4. ASSUME NEW m \in {memory', hand'.old} PROVE m = Blank \/ m \in {memory, hand.old}
    BY <1>0, <1>2, <2>4
  <2>. QED
    BY <2>2, <2>3, <2>4 DEF HeldFits, Later, Dated, OneAtATime
<1>14. EventsJustified'
  BY <1>0, <1>3, JustifiedKept
<1>. QED
  BY <1>3, <1>5, <1>6, <1>7, <1>8, <1>9, <1>11, <1>12, <1>13, <1>14 DEF ActInv

\* What ObjectTracker.update and _retire make of a frame.
Updates(ts, with, on, who, gone, fresh, at) ==
  /\ moment' = ts /\ issued' \in Nat /\ issued <= issued' /\ issued' <= MaxIssued
  /\ \A h \in fresh : trackOf[h] = 0 /\ trackOf'[h] > issued
  /\ \A h \in gone : trackOf[h] # 0 /\ trackOf'[h] = 0 /\ h \notin who
  /\ \A h \in Things : h \notin gone \cup fresh => trackOf'[h] = trackOf[h]
  /\ \A h \in who : trackOf'[h] # 0
  /\ trackOf' \in [Things -> 0..issued']
  /\ \A g, h \in Things : trackOf'[g] = trackOf'[h] => g = h \/ trackOf'[h] = 0
  /\ seenAt' = [h \in Things |-> IF h \in who THEN ts ELSE seenAt[h]]
  /\ firstAt' = [h \in Things |-> IF h \in fresh THEN ts ELSE firstAt[h]]
  /\ memory' = Retire(retired \cup {trackOf[h] : h \in gone}) /\ retired' = {}
  /\ hand' = [hand EXCEPT !.pc = "look", !.ts = ts, !.on = on, !.with = with, !.shown =
       [h \in who |-> [id |-> trackOf'[h], at |-> at[h], sure |-> ts - firstAt'[h] >= ConfirmAfter]]]
  /\ facts' = [h \in Things |-> facts[h] \cup
       (IF h \in gone THEN {"lost"} ELSE {}) \cup (IF h \in who /\ at[h] = "out" THEN {"outside"} ELSE {})]
  /\ stay' = [h \in Things |-> IF h \in gone THEN NoStay ELSE stay[h]]
  /\ Kind = "gathering" => UNION with = who
  /\ \A h \in who : at[h] \in IF Kind = "crossing" THEN {"left", "right", "gate", "beside"} ELSE {"in", "out"}

\* New ids are new, and each thing shown has one.
LEMMA Names ==
  ASSUME ActInv, NameThings
  PROVE  \E gap \in Nat \ {0}, with \in SUBSET Groups, on \in BOOLEAN, who \in SUBSET Things, gone \in SUBSET Things :
         \E at \in [who -> {"in", "out", "left", "right", "gate", "beside"}], fresh \in SUBSET who :
           Updates(moment + gap, with, on, who, gone, fresh, at)
<1>0. ThingsTyped /\ BudgetFits
  BY DEF ActInv
<1>1. PICK gap \in activityBudget.pauses, with \in Meetings, on \in Hours :
      \E who \in IF Kind = "gathering" THEN {UNION with} ELSE SUBSET Actors : \E at \in [who -> Places] :
       LET ts == moment + gap
           gone == {h \in Actors \ who : trackOf[h] # 0 /\ ts - seenAt[h] > TrackAge}
           fresh == {h \in who : trackOf[h] = 0} IN
       /\ moment' = ts
       /\ issued' = issued + Cardinality(fresh) /\ issued' <= MaxIssued
       /\ trackOf' = [h \in Things |-> IF h \in gone THEN 0
                                       ELSE IF h \notin fresh THEN trackOf[h]
                                       ELSE issued + Cardinality({g \in fresh : g <= h})]
       /\ seenAt' = [h \in Things |-> IF h \in who THEN ts ELSE seenAt[h]]
       /\ firstAt' = [h \in Things |-> IF h \in fresh THEN ts ELSE firstAt[h]]
       /\ memory' = Retire(retired \cup {trackOf[h] : h \in gone}) /\ retired' = {}
       /\ hand' = [hand EXCEPT !.pc = "look", !.ts = ts, !.on = on, !.with = with, !.shown =
            [h \in who |-> [id |-> trackOf'[h], at |-> at[h],
                            sure |-> ts - firstAt'[h] >= ConfirmAfter]]]
       /\ facts' = [h \in Things |-> facts[h] \cup
            (IF h \in gone THEN {"lost"} ELSE {}) \cup (IF h \in who /\ at[h] = "out" THEN {"outside"} ELSE {})]
       /\ stay' = [h \in Things |-> IF h \in gone THEN NoStay ELSE stay[h]]
  BY DEF NameThings
<1>2. PICK who \in IF Kind = "gathering" THEN {UNION with} ELSE SUBSET Actors : \E at \in [who -> Places] :
       LET ts == moment + gap
           gone == {h \in Actors \ who : trackOf[h] # 0 /\ ts - seenAt[h] > TrackAge}
           fresh == {h \in who : trackOf[h] = 0} IN
       /\ moment' = ts
       /\ issued' = issued + Cardinality(fresh) /\ issued' <= MaxIssued
       /\ trackOf' = [h \in Things |-> IF h \in gone THEN 0
                                       ELSE IF h \notin fresh THEN trackOf[h]
                                       ELSE issued + Cardinality({g \in fresh : g <= h})]
       /\ seenAt' = [h \in Things |-> IF h \in who THEN ts ELSE seenAt[h]]
       /\ firstAt' = [h \in Things |-> IF h \in fresh THEN ts ELSE firstAt[h]]
       /\ memory' = Retire(retired \cup {trackOf[h] : h \in gone}) /\ retired' = {}
       /\ hand' = [hand EXCEPT !.pc = "look", !.ts = ts, !.on = on, !.with = with, !.shown =
            [h \in who |-> [id |-> trackOf'[h], at |-> at[h],
                            sure |-> ts - firstAt'[h] >= ConfirmAfter]]]
       /\ facts' = [h \in Things |-> facts[h] \cup
            (IF h \in gone THEN {"lost"} ELSE {}) \cup (IF h \in who /\ at[h] = "out" THEN {"outside"} ELSE {})]
       /\ stay' = [h \in Things |-> IF h \in gone THEN NoStay ELSE stay[h]]
  BY <1>1
<1> DEFINE ts == moment + gap
           gone == {h \in Actors \ who : trackOf[h] # 0 /\ ts - seenAt[h] > TrackAge}
           fresh == {h \in who : trackOf[h] = 0}
<1>3. PICK at \in [who -> Places] :
       /\ moment' = ts
       /\ issued' = issued + Cardinality(fresh) /\ issued' <= MaxIssued
       /\ trackOf' = [h \in Things |-> IF h \in gone THEN 0
                                       ELSE IF h \notin fresh THEN trackOf[h]
                                       ELSE issued + Cardinality({g \in fresh : g <= h})]
       /\ seenAt' = [h \in Things |-> IF h \in who THEN ts ELSE seenAt[h]]
       /\ firstAt' = [h \in Things |-> IF h \in fresh THEN ts ELSE firstAt[h]]
       /\ memory' = Retire(retired \cup {trackOf[h] : h \in gone}) /\ retired' = {}
       /\ hand' = [hand EXCEPT !.pc = "look", !.ts = ts, !.on = on, !.with = with, !.shown =
            [h \in who |-> [id |-> trackOf'[h], at |-> at[h],
                            sure |-> ts - firstAt'[h] >= ConfirmAfter]]]
       /\ facts' = [h \in Things |-> facts[h] \cup
            (IF h \in gone THEN {"lost"} ELSE {}) \cup (IF h \in who /\ at[h] = "out" THEN {"outside"} ELSE {})]
       /\ stay' = [h \in Things |-> IF h \in gone THEN NoStay ELSE stay[h]]
  BY <1>2
<1>4. gap \in Nat \ {0} /\ with \in SUBSET Groups /\ on \in BOOLEAN
  <2>1. gap \in Nat \ {0}
    BY <1>0 DEF BudgetFits
  <2>2. with \in SUBSET Groups
    BY DEF Meetings
  <2>3. on \in BOOLEAN
    BY DEF Hours
  <2>. QED
    BY <2>1, <2>2, <2>3
<1>5. who \in SUBSET Things /\ (Kind = "gathering" => UNION with = who)
  <2>1. CASE Kind = "gathering"
    <3>1. who = UNION with
      BY <2>1
    <3>2. with \subseteq SUBSET Things
      BY <1>4, ActivitySizes
    <3>. QED
      BY <3>1, <3>2
  <2>2. CASE Kind # "gathering"
    BY <1>0, <2>2 DEF BudgetFits
  <2>. QED
    BY <2>1, <2>2
<1>6. /\ \A h \in who : at[h] \in IF Kind = "crossing" THEN {"left", "right", "gate", "beside"} ELSE {"in", "out"}
      /\ at \in [who -> {"in", "out", "left", "right", "gate", "beside"}]
  <2>1. \A h \in who : at[h] \in Places /\ at \in [who -> Places]
    OBVIOUS
  <2>2. Places \subseteq {"in", "out", "left", "right", "gate", "beside"}
        /\ Places \subseteq IF Kind = "crossing" THEN {"left", "right", "gate", "beside"} ELSE {"in", "out"}
    BY DEF Places
  <2>3. at \in [who -> {"in", "out", "left", "right", "gate", "beside"}]
    BY <2>2
  <2>. QED
    BY <2>1, <2>2, <2>3
<1>7. gone \in SUBSET Things /\ fresh \in SUBSET who /\ fresh \subseteq Things
      /\ (\A h \in gone : trackOf[h] # 0 /\ h \notin who /\ h \notin fresh) /\ \A h \in fresh : trackOf[h] = 0
  BY <1>0, <1>5 DEF BudgetFits
<1>8. \A h \in who : h \notin fresh => trackOf[h] # 0
  OBVIOUS
<1> HIDE DEF gone, fresh, ts
<1>9. /\ Cardinality(fresh) \in Nat
      /\ \A h \in fresh : Cardinality({g \in fresh : g <= h}) \in 1..Cardinality(fresh)
      /\ \A g, h \in fresh : Cardinality({x \in fresh : x <= g}) = Cardinality({x \in fresh : x <= h}) => g = h
  BY <1>7, Ranks
<1>10. issued \in Nat /\ trackOf \in [Things -> 0..issued] /\ \A g, h \in Things : trackOf[g] = trackOf[h] => g = h \/ trackOf[h] = 0
  BY <1>0 DEF ThingsTyped
<1>11. issued' \in Nat /\ issued <= issued' /\ issued' <= MaxIssued
  BY <1>3, <1>9, <1>10
<1>12. /\ \A h \in gone : trackOf'[h] = 0
       /\ \A h \in fresh : trackOf'[h] = issued + Cardinality({g \in fresh : g <= h})
       /\ \A h \in Things : h \notin gone \cup fresh => trackOf'[h] = trackOf[h]
  BY <1>3, <1>7
<1>13. \A h \in fresh : trackOf'[h] > issued /\ trackOf'[h] \in 0..issued'
  <2>1. ASSUME NEW h \in fresh PROVE trackOf'[h] > issued /\ trackOf'[h] \in 0..issued'
    <3> DEFINE k == Cardinality({g \in fresh : g <= h})
    <3>1. k \in 1..Cardinality(fresh) /\ trackOf'[h] = issued + k
      BY <1>9, <1>12
    <3> HIDE DEF k
    <3>. QED
      BY <3>1, <1>3, <1>9, <1>10
  <2>. QED
    BY <2>1
<1>14. trackOf' \in [Things -> 0..issued']
  <2>1. \A h \in Things : h \notin gone \cup fresh => trackOf'[h] \in 0..issued'
    BY <1>10, <1>11, <1>12
  <2>2. \A h \in gone : trackOf'[h] \in 0..issued'
    BY <1>11, <1>12
  <2>3. trackOf' = [h \in Things |-> trackOf'[h]]
    BY <1>3
  <2>4. \A h \in Things : trackOf'[h] \in 0..issued'
    BY <2>1, <2>2, <1>13
  <2>. QED
    BY <2>3, <2>4
<1>15. ASSUME NEW g \in Things, NEW h \in Things, trackOf'[g] = trackOf'[h], trackOf'[h] # 0 PROVE g = h
  <2>0. g \notin gone /\ h \notin gone
    BY <1>12, <1>15
  <2>1. CASE g \in fresh /\ h \in fresh
    <3> DEFINE k == Cardinality({x \in fresh : x <= g})
               l == Cardinality({x \in fresh : x <= h})
    <3>1. issued + k = issued + l /\ k \in 1..Cardinality(fresh) /\ l \in 1..Cardinality(fresh)
      BY <2>1, <1>9, <1>12, <1>15
    <3>2. k = l
      <4> HIDE DEF k, l
      <4>. QED
        BY <3>1, <1>9, <1>10
    <3>. QED
      BY <3>2, <2>1, <1>9
  <2>2. CASE g \notin fresh /\ h \notin fresh
    BY <2>0, <2>2, <1>10, <1>12, <1>15
  <2>3. CASE g \in fresh /\ h \notin fresh
    <3>1. trackOf'[h] \in 0..issued /\ trackOf'[g] > issued
      BY <2>0, <2>3, <1>10, <1>12, <1>13
    <3>. QED
      BY <3>1, <1>10, <1>15
  <2>4. CASE g \notin fresh /\ h \in fresh
    <3>1. trackOf'[g] \in 0..issued /\ trackOf'[h] > issued
      BY <2>0, <2>4, <1>10, <1>12, <1>13
    <3>. QED
      BY <3>1, <1>10, <1>15
  <2>. QED
    BY <2>1, <2>2, <2>3, <2>4
<1>16. \A h \in who : trackOf'[h] # 0
  <2>1. \A h \in who : h \in fresh \/ (trackOf'[h] = trackOf[h] /\ trackOf[h] # 0)
    BY <1>5, <1>7, <1>8, <1>12
  <2>. QED
    BY <2>1, <1>10, <1>13
<1>17. /\ \A h \in fresh : trackOf[h] = 0 /\ trackOf'[h] > issued
       /\ \A h \in gone : trackOf[h] # 0 /\ trackOf'[h] = 0 /\ h \notin who
       /\ \A g, h \in Things : trackOf'[g] = trackOf'[h] => g = h \/ trackOf'[h] = 0
  BY <1>7, <1>12, <1>13, <1>15
<1>18. Updates(moment + gap, with, on, who, gone, fresh, at)
  BY <1>3, <1>5, <1>6, <1>11, <1>12, <1>14, <1>16, <1>17, Zenon DEF Updates, ts
<1>19. /\ gap \in Nat \ {0} /\ with \in SUBSET Groups /\ on \in BOOLEAN /\ who \in SUBSET Things /\ gone \in SUBSET Things
       /\ at \in [who -> {"in", "out", "left", "right", "gate", "beside"}] /\ fresh \in SUBSET who
  BY <1>4, <1>5, <1>6, <1>7
<1>. QED
  BY <1>18, <1>19

LEMMA NamesKeep ==
  ASSUME ActInv, hand.pc = "took", UNCHANGED <<configVars, decided, mislaid, overlooked>>,
         NEW gap \in Nat \ {0}, NEW with \in SUBSET Groups, NEW on \in BOOLEAN, NEW who \in SUBSET Things, NEW gone \in SUBSET Things,
         NEW at \in [who -> {"in", "out", "left", "right", "gate", "beside"}], NEW fresh \in SUBSET who,
         Updates(moment + gap, with, on, who, gone, fresh, at)
  PROVE  ActInv'
<1> DEFINE ts == moment + gap
           ids == retired \cup {trackOf[h] : h \in gone}
<1>0. /\ ThingsTyped /\ BudgetFits /\ HandFits /\ FrameFits /\ StoryFits /\ MemFits /\ Troubled /\ HeldFits /\ StoryTrue /\ StayTrue /\ Released
      /\ EventsJustified
      /\ setup' = setup /\ present' = present /\ breaker' = breaker /\ activityBudget' = activityBudget
      /\ decided' = decided /\ mislaid' = mislaid /\ overlooked' = overlooked
  BY DEF ActInv, configVars
<1>1. /\ moment' = ts /\ issued' \in Nat /\ issued <= issued' /\ issued' <= MaxIssued
      /\ \A h \in fresh : trackOf[h] = 0 /\ trackOf'[h] > issued
      /\ \A h \in gone : trackOf[h] # 0 /\ trackOf'[h] = 0 /\ h \notin who
      /\ \A h \in Things : h \notin gone \cup fresh => trackOf'[h] = trackOf[h]
      /\ \A h \in who : trackOf'[h] # 0
      /\ trackOf' \in [Things -> 0..issued']
      /\ \A g, h \in Things : trackOf'[g] = trackOf'[h] => g = h \/ trackOf'[h] = 0
      /\ memory' = Retire(ids) /\ retired' = {}
      /\ Kind = "gathering" => UNION with = who
      /\ \A h \in who : at[h] \in IF Kind = "crossing" THEN {"left", "right", "gate", "beside"} ELSE {"in", "out"}
  BY Zenon DEF Updates
<1>2. /\ seenAt' = [h \in Things |-> IF h \in who THEN ts ELSE seenAt[h]]
      /\ firstAt' = [h \in Things |-> IF h \in fresh THEN ts ELSE firstAt[h]]
      /\ facts' = [h \in Things |-> facts[h] \cup
           (IF h \in gone THEN {"lost"} ELSE {}) \cup (IF h \in who /\ at[h] = "out" THEN {"outside"} ELSE {})]
      /\ stay' = [h \in Things |-> IF h \in gone THEN NoStay ELSE stay[h]]
  BY Zenon DEF Updates
<1>3. hand' = [hand EXCEPT !.pc = "look", !.ts = ts, !.on = on, !.with = with, !.shown =
        [h \in who |-> [id |-> trackOf'[h], at |-> at[h], sure |-> ts - firstAt'[h] >= ConfirmAfter]]]
  BY Zenon DEF Updates
<1>4. /\ issued \in Nat /\ moment \in Nat /\ moment > 0 /\ ts \in Nat /\ ts > moment /\ ts > 0
      /\ 1..issued \subseteq 1..issued' /\ 1..issued' \subseteq TrackIds /\ 0 \notin TrackIds
  BY <1>0, <1>1, ActivitySizes DEF ThingsTyped, TrackIds
<1> HIDE DEF ts
<1>5. /\ Kind' = Kind /\ BudgetFits'
  BY <1>0 DEF Kind, Actors, BudgetFits
<1>6. \A h \in Things : \/ h \in fresh /\ trackOf[h] = 0 /\ trackOf'[h] > issued /\ trackOf'[h] \in TrackIds /\ trackOf'[h] \notin 1..issued
                        \/ h \in gone /\ trackOf[h] # 0 /\ trackOf'[h] = 0
                        \/ trackOf'[h] = trackOf[h] /\ h \notin gone \cup fresh
  <2>1. ASSUME NEW h \in fresh PROVE trackOf'[h] \in TrackIds /\ trackOf'[h] \notin 1..issued
    <3>1. trackOf'[h] \in 0..issued' /\ trackOf'[h] > issued
      BY <1>1
    <3>. QED
      BY <3>1, <1>1, <1>4, ActivitySizes DEF TrackIds
  <2>. QED
    BY <2>1, <1>1
<1>7. /\ seenAt' \in [Things -> Nat] /\ firstAt' \in [Things -> Nat]
      /\ \A h \in Things : /\ seenAt'[h] = IF h \in who THEN ts ELSE seenAt[h]
                           /\ firstAt'[h] = IF h \in fresh THEN ts ELSE firstAt[h]
  BY <1>0, <1>2, <1>4 DEF ThingsTyped
<1>8. ThingsTyped'
  <2>1. \A h \in Things : seenAt'[h] <= moment' /\ firstAt'[h] <= seenAt'[h]
    <3>1. ASSUME NEW h \in Things PROVE seenAt'[h] <= moment' /\ firstAt'[h] <= seenAt'[h]
      <4>1. seenAt[h] \in Nat /\ firstAt[h] \in Nat /\ seenAt[h] <= moment /\ firstAt[h] <= seenAt[h]
        BY <1>0 DEF ThingsTyped
      <4>. QED
        BY <4>1, <1>1, <1>4, <1>7
    <3>. QED
      BY <3>1
  <2>2. \A h \in Things : trackOf'[h] \notin (retired \cup mislaid)'
    <3>1. ASSUME NEW h \in Things PROVE trackOf'[h] \notin mislaid
      <4>1. trackOf[h] \notin mislaid /\ mislaid \subseteq 1..issued
        BY <1>0 DEF ThingsTyped
      <4>. QED
        BY <4>1, <1>4, <1>6
    <3>. QED
      BY <3>1, <1>0, <1>1
  <2>3. retired' \subseteq 1..issued' /\ mislaid' \subseteq 1..issued'
    BY <1>0, <1>1, <1>4 DEF ThingsTyped
  <2>4. moment' \in Nat /\ moment' > 0
    BY <1>1, <1>4
  <2>. QED
    BY <2>1, <2>2, <2>3, <2>4, <1>0, <1>1, <1>7 DEF ThingsTyped
<1> DEFINE shown == [h \in who |-> [id |-> trackOf'[h], at |-> at[h], sure |-> ts - firstAt'[h] >= ConfirmAfter]]
<1>9. /\ shown \in [who -> Shots] /\ DOMAIN shown = who
      /\ \A h \in who : shown[h].id = trackOf'[h] /\ shown[h].id \in 1..issued' /\ shown[h].at = at[h]
                        /\ shown[h].sure = (ts - firstAt'[h] >= ConfirmAfter)
  <2>1. \A h \in who : trackOf'[h] \in 1..issued'
    BY <1>1
  <2>2. ASSUME NEW h \in who PROVE [id |-> trackOf'[h], at |-> at[h], sure |-> ts - firstAt'[h] >= ConfirmAfter] \in Shots
    BY <2>1, <1>4 DEF Shots
  <2>. QED
    BY <2>1, <2>2
<1>10. /\ hand' \in Hands /\ hand'.pc = "look" /\ hand'.ts = ts /\ hand'.with = with /\ hand'.act = hand.act /\ hand'.old = hand.old
       /\ hand'.shown = shown
  <2>1. shown \in UNION {[S -> Shots] : S \in SUBSET Things}
    BY <1>9
  <2>2. hand' = [hand EXCEPT !.pc = "look", !.ts = ts, !.on = on, !.with = with, !.shown = shown]
    BY <1>3
  <2> HIDE DEF shown
  <2>3. hand \in Hands
    BY <1>0 DEF HandFits
  <2>. QED
    BY <2>1, <2>2, <2>3, <1>4 DEF Hands
<1> HIDE DEF shown
<1>11. Named' /\ ~Replaced' /\ Shown' = who /\ ~Named
  BY <1>9, <1>10 DEF Named, Replaced, Shown
<1>12. \A m \in Memories : Keeps(m, 1..issued) => Keeps(m, 1..issued')
  BY <1>4, KeepsMore
<1>13. HandFits'
  <2>1. hand.act = 0 /\ Fits(hand.old) /\ setup \in Nat
    BY <1>0 DEF HandFits, ThingsTyped
  <2>2. Fits(hand.old)'
    BY <2>1, <1>10, <1>12 DEF Fits
  <2>. QED
    BY <2>1, <2>2, <1>0, <1>10 DEF HandFits
<1>14. FrameFits'
  <2>1. \A e \in decided : e.ts < moment'
    <3>1. ASSUME NEW e \in decided PROVE e.ts < moment'
      <4>1. e.ts <= moment /\ e.ts \in Nat
        BY <1>0 DEF StoryFits, Tells
      <4>. QED
        BY <4>1, <1>1, <1>4
    <3>. QED
      BY <3>1
  <2>2. Kind' = "gathering" => UNION hand'.with = who
    BY <1>1, <1>5, <1>10
  <2>3. ASSUME NEW h \in who
        PROVE /\ shown[h].id \in 1..issued' /\ trackOf'[h] \in {0, shown[h].id}
              /\ \A g \in Things : trackOf'[g] = shown[h].id => g = h
              /\ \A g \in who : shown[g].id = shown[h].id => g = h
              /\ trackOf'[h] # 0
              /\ shown[h].sure = (moment' - firstAt'[h] >= ConfirmAfter)
              /\ shown[h].at = "out" => "outside" \in facts'[h]
              /\ shown[h].at \in IF Kind' = "crossing" THEN {"left", "right", "gate", "beside"} ELSE {"in", "out"}
    <3>1. shown[h].id = trackOf'[h] /\ shown[h].id \in 1..issued' /\ shown[h].at = at[h] /\ trackOf'[h] # 0
          /\ shown[h].sure = (moment' - firstAt'[h] >= ConfirmAfter)
      BY <1>1, <1>9
    <3>2. \A g \in Things : trackOf'[g] = trackOf'[h] => g = h
      BY <1>1, <3>1
    <3>3. \A g \in who : shown[g].id = shown[h].id => g = h
      BY <3>1, <3>2, <1>9
    <3>4. at[h] = "out" => "outside" \in facts'[h]
      BY <1>2
    <3>. QED
      BY <3>1, <3>2, <3>3, <3>4, <1>1, <1>5
  <2>. QED
    BY <2>1, <2>2, <2>3, <1>0, <1>1, <1>9, <1>10, <1>11 DEF FrameFits
<1>15. /\ facts' \in [Things -> SUBSET KnownFacts]
       /\ \A h \in Things : facts[h] \subseteq facts'[h] /\ (h \in gone => "lost" \in facts'[h])
  BY <1>0, <1>2 DEF StoryFits, KnownFacts
<1>16. /\ stay' \in [Things -> [from : Nat, upto : Nat]]
       /\ \A h \in Things : IF h \in gone THEN stay'[h].from = 0 ELSE stay'[h] = stay[h]
  <2>1. NoStay \in [from : Nat, upto : Nat] /\ NoStay.from = 0
    BY DEF NoStay
  <2>. QED
    BY <2>1, <1>0, <1>2 DEF StoryFits
<1>17. StoryFits'
  <2>1. \A e \in decided : 0 < e.ts /\ e.ts <= moment' /\ (Kind' # "gathering" => \E h \in Things : e.who = {h})
    <3>1. ASSUME NEW e \in decided PROVE 0 < e.ts /\ e.ts <= moment' /\ (Kind' # "gathering" => \E h \in Things : e.who = {h})
      <4>1. 0 < e.ts /\ e.ts <= moment /\ e.ts \in Nat /\ (Kind # "gathering" => \E h \in Things : e.who = {h})
        BY <1>0 DEF StoryFits, Tells
      <4>2. e.ts <= moment'
        BY <4>1, <1>1, <1>4
      <4>. QED
        BY <4>1, <4>2, <1>5
    <3>. QED
      BY <3>1
  <2>2. \A h \in Things : stay'[h].from # 0 => trackOf'[h] # 0 /\ stay'[h].from <= stay'[h].upto /\ stay'[h].upto <= moment'
    <3>1. ASSUME NEW h \in Things, stay'[h].from # 0
          PROVE  trackOf'[h] # 0 /\ stay'[h].from <= stay'[h].upto /\ stay'[h].upto <= moment'
      <4>1. h \notin gone /\ stay'[h] = stay[h]
        BY <1>16, <3>1
      <4>2. trackOf[h] # 0 /\ stay[h].from <= stay[h].upto /\ stay[h].upto <= moment /\ stay[h].upto \in Nat
        BY <1>0, <3>1, <4>1 DEF StoryFits
      <4>. QED
        BY <4>1, <4>2, <1>1, <1>4, <1>6
    <3>. QED
      BY <3>1
  <2>3. decided \subseteq Tells /\ overlooked \subseteq Things
    BY <1>0 DEF StoryFits
  <2>. QED
    BY <2>1, <2>2, <2>3, <1>0, <1>15, <1>16 DEF StoryFits
<1>18. /\ Fits(memory') /\ memory'.pending \subseteq memory.pending /\ memory'.until = memory.until
       /\ \A S : Keeps(memory, S) => Keeps(memory', S) /\ (present => Keeps(memory', S \ ids))
       /\ \A t \in TrackIds : t \notin ids => Alike(memory, memory', t)
  <2>1. Fits(memory)
    BY <1>0 DEF MemFits
  <2> DEFINE k == ids
  <2> HIDE DEF k
  <2>2. LET n == Retire(k) IN
         /\ Fits(n) /\ n.pending \subseteq memory.pending /\ n.until = memory.until
         /\ \A S : Keeps(memory, S) => Keeps(n, S) /\ (present => Keeps(n, S \ k))
         /\ \A t \in TrackIds : t \notin k => Alike(memory, n, t)
    BY <2>1, Retired
  <2>3. memory' = Retire(k)
    BY <1>1 DEF k
  <2>. QED
    BY <2>2, <2>3 DEF k
<1>19. MemFits'
  BY <1>12, <1>18 DEF MemFits, Fits
<1>20. Troubled'
  <2>1. Unsettled' => Unsettled
    BY <1>0, <1>11 DEF Unsettled
  <2>2. Unsettled => \A h \in Things : "reset" \in facts'[h]
    BY <1>0, <1>15 DEF Troubled
  <2>. QED
    BY <2>1, <2>2, <1>1, <1>10, <1>11 DEF Troubled
<1>21. HeldFits'
  <2>1. ASSUME NEW m, m \in {memory, hand.old} PROVE m \in Memories /\ m.pending \subseteq HeldCrossings /\ (\A p \in m.pending : p.track \in 1..issued)
               /\ Later(m) /\ Dated(m) /\ OneAtATime(m)
    <3>1. Fits(m)
      BY <2>1, <1>0 DEF MemFits, HandFits
    <3>2. m.pending \subseteq HeldCrossings
      BY <3>1 DEF Fits, Memories
    <3>. QED
      BY <3>1, <3>2, <2>1, <1>0 DEF Fits, Keeps, HeldFits
  <2>2. ASSUME NEW m, m \in {memory, hand.old} PROVE Later(m)' /\ Dated(m)' /\ OneAtATime(m)'
    <3>1. ASSUME NEW p \in m.pending, NEW h \in Things, p.track \in IdIn(h)' PROVE p.track \in IdIn(h)
      <4>1. p.track \in 1..issued
        BY <2>1, <2>2
      <4>2. IdIn(h)' = {trackOf'[h]}
        BY <1>9, <1>10, <1>11 DEF IdIn
      <4>3. p.track = trackOf[h]
        BY <3>1, <4>1, <4>2, <1>4, <1>6
      <4>. QED
        BY <4>3 DEF IdIn
    <3>2. Later(m)'
      BY <3>1, <2>1, <2>2, <1>0 DEF Later, Told
    <3>3. ASSUME NEW p \in m.pending PROVE Kind' = "crossing" /\ 0 < p.ts /\ p.ts <= moment' /\ p.ts < moment'
      <4>1. Kind = "crossing" /\ 0 < p.ts /\ p.ts <= moment
        BY <2>1, <2>2 DEF Dated
      <4>2. p.ts \in Nat
        BY <2>1, <2>2 DEF HeldCrossings
      <4>. QED
        BY <4>1, <4>2, <1>1, <1>4, <1>5
    <3>4. Dated(m)'
      BY <3>3 DEF Dated
    <3>5. OneAtATime(m)'
      BY <2>1, <2>2 DEF OneAtATime
    <3>. QED
      BY <3>2, <3>4, <3>5
  <2>3. Later(memory)' /\ Dated(memory)' /\ OneAtATime(memory)'
    BY <2>2, <1>18 DEF Later, Dated, OneAtATime
  <2>4. Later(hand.old)' /\ Dated(hand.old)' /\ OneAtATime(hand.old)'
    BY <2>2, <1>10 DEF Later, Dated, OneAtATime
  <2>. QED
    BY <2>3, <2>4 DEF HeldFits
<1>22. ASSUME NEW h \in Things, h \notin gone \cup fresh
       PROVE  /\ trackOf[h] \in 0..MaxIssued /\ trackOf'[h] = trackOf[h] /\ firstAt'[h] = firstAt[h] /\ firstAt[h] \in Nat
              /\ Alike(memory, memory', trackOf[h])
  <2>1. trackOf[h] \in 0..issued /\ firstAt[h] \in Nat /\ trackOf[h] \notin retired /\ issued <= MaxIssued
        /\ \A g \in Things : trackOf[g] = trackOf[h] => g = h \/ trackOf[h] = 0
    BY <1>0 DEF ThingsTyped
  <2>2. trackOf[h] \in 0..MaxIssued
    BY <2>1, <1>4, ActivitySizes
  <2>3. CASE trackOf[h] \in TrackIds
    <3>1. trackOf[h] \notin ids
      BY <2>1, <2>3, <1>1, <1>4, <1>22
    <3>. QED
      BY <3>1, <2>1, <2>2, <2>3, <1>1, <1>7, <1>18, <1>22
  <2>4. CASE trackOf[h] \notin TrackIds
    BY <2>1, <2>2, <2>4, <1>1, <1>7, <1>22 DEF Alike
  <2>. QED
    BY <2>3, <2>4
<1>23. \A t \in TrackIds : t \notin 1..issued =>
         /\ t \notin memory'.inside /\ t \notin memory'.reported /\ memory'.last[t] = 0 /\ memory'.entered[t] = 0 /\ (\A p \in memory'.pending : p.track # t)
  BY <1>18 DEF Fits, Keeps
<1>24. 0 \notin memory'.inside /\ 0 \notin memory'.reported
  BY <1>18, <1>4 DEF Fits, Memories
<1>25. StoryTrue'
  <2>1. ASSUME NEW h \in Things PROVE Linked(h)' /\ (Kind = "crossing" => ToAndFro(h)')
    <3>0. Linked(h) /\ (Kind = "crossing" => ToAndFro(h)) /\ Told(h)' = Told(h)
      BY <1>0 DEF StoryTrue, Told
    <3>1. CASE h \in gone
      <4>1. facts'[h] \cap {"lost", "reset"} # {} /\ trackOf'[h] = 0
        BY <3>1, <1>1, <1>15
      <4>. QED
        BY <4>1, LinkBroken DEF ToAndFro
    <3>2. CASE h \in fresh
      <4>1. trackOf[h] = 0 /\ trackOf'[h] \in TrackIds /\ trackOf'[h] \notin 1..issued
        BY <3>2, <1>1, <1>6
      <4>2. Clean(h)' => Clean(h)
        BY <1>15 DEF Clean
      <4>3. Clean(h) => Told(h) = {}
        BY <4>1, <3>0 DEF Linked
      <4>4. Linked(h)'
        BY <4>2, <4>3, <3>0 DEF Linked
      <4>5. {p \in memory'.pending : p.track = trackOf'[h]} = {}
        BY <4>1, <1>23
      <4>6. ToAndFro(h)'
        BY <4>5 DEF ToAndFro, Held
      <4>. QED
        BY <4>4, <4>6
    <3>3. CASE h \notin gone \cup fresh
      <4>1. /\ trackOf[h] \in 0..MaxIssued /\ trackOf'[h] = trackOf[h] /\ firstAt'[h] = firstAt[h] /\ firstAt[h] \in Nat
            /\ Alike(memory, memory', trackOf[h]) /\ facts[h] \subseteq facts'[h]
        BY <3>3, <1>15, <1>22
      <4>2. moment \in Nat /\ moment' \in Nat /\ moment' >= moment
        BY <1>1, <1>4
      <4>3. Linked(h)'
        BY <4>1, <4>2, <3>0, <1>0, <1>5, <1>18, LinkKept
      <4>4. Kind = "crossing" => ToAndFro(h)'
        BY <4>1, <3>0, FroKept
      <4>. QED
        BY <4>3, <4>4
    <3>. QED
      BY <3>1, <3>2, <3>3
  <2>. QED
    BY <2>1, <1>5 DEF StoryTrue
<1>26. StayTrue'
  <2>1. ASSUME NEW h \in Things PROVE StayHolds(h)'
    <3>0. StayHolds(h) /\ (stay[h].from # 0 => trackOf[h] # 0)
      BY <1>0 DEF StayTrue, StoryFits
    <3>1. CASE h \in gone
      <4>1. trackOf'[h] = 0 /\ stay'[h].from = 0
        BY <3>1, <1>1, <1>16
      <4>. QED
        BY <4>1, <1>24 DEF StayHolds
    <3>2. CASE h \in fresh
      <4>1. trackOf[h] = 0 /\ trackOf'[h] \in TrackIds /\ trackOf'[h] \notin 1..issued
        BY <3>2, <1>1, <1>6
      <4>2. stay'[h].from = 0
        BY <4>1, <3>0, <1>16
      <4>3. trackOf'[h] \notin memory'.inside /\ trackOf'[h] \notin memory'.reported /\ memory'.last[trackOf'[h]] = 0
            /\ memory'.entered[trackOf'[h]] <= moment'
        BY <4>1, <1>1, <1>4, <1>23
      <4>. QED
        BY <4>2, <4>3 DEF StayHolds
    <3>3. CASE h \notin gone \cup fresh
      <4>1. /\ trackOf[h] \in 0..MaxIssued /\ trackOf'[h] = trackOf[h] /\ firstAt'[h] = firstAt[h]
            /\ Alike(memory, memory', trackOf[h]) /\ stay'[h] = stay[h] /\ Told(h)' = Told(h)
        BY <3>3, <1>0, <1>16, <1>22 DEF Told
      <4>2. moment \in Nat /\ moment' \in Nat /\ moment' >= moment /\ memory \in Memories
        BY <1>0, <1>1, <1>4 DEF MemFits, Fits
      <4>. QED
        BY <4>1, <4>2, <3>0, <1>0, <1>5, <1>24, StayKept
    <3>. QED
      BY <3>1, <3>2, <3>3
  <2>. QED
    BY <2>1 DEF StayTrue
<1>27. Released'
  <2>1. SUFFICES ASSUME present PROVE Keeps(memory', (TrackValues \cup retired \cup mislaid)')
    BY <1>0 DEF Released
  <2>2. Keeps(memory', (TrackValues \cup retired \cup mislaid) \ ids)
    BY <1>0, <1>18, <2>1 DEF Released
  <2>3. ((TrackValues \cup retired \cup mislaid) \ ids) \cap TrackIds \subseteq (TrackValues \cup retired \cup mislaid)'
    <3>1. ASSUME NEW h \in Things, trackOf[h] \notin ids, trackOf[h] \in TrackIds PROVE trackOf[h] \in TrackValues'
      <4>1. trackOf'[h] = trackOf[h]
        BY <3>1, <1>4, <1>6
      <4>. QED
        BY <4>1 DEF TrackValues
    <3>. QED
      BY <3>1, <1>0 DEF TrackValues
  <2>. QED
    BY <1>18, <2>2, <2>3, KeepsMore DEF Fits
<1>28. EventsJustified'
  BY <1>0, <1>5, JustifiedKept
<1>. QED
  BY <1>5, <1>8, <1>13, <1>14, <1>17, <1>19, <1>20, <1>21, <1>25, <1>26, <1>27, <1>28 DEF ActInv

LEMMA NamesHolds == ASSUME ActInv, NameThings PROVE ActInv'
<1>1. PICK gap \in Nat \ {0}, with \in SUBSET Groups, on \in BOOLEAN, who \in SUBSET Things, gone \in SUBSET Things :
      \E at \in [who -> {"in", "out", "left", "right", "gate", "beside"}], fresh \in SUBSET who :
        Updates(moment + gap, with, on, who, gone, fresh, at)
  BY Names
<1>2. PICK at \in [who -> {"in", "out", "left", "right", "gate", "beside"}], fresh \in SUBSET who :
        Updates(moment + gap, with, on, who, gone, fresh, at)
  BY <1>1
<1>3. hand.pc = "took" /\ UNCHANGED <<configVars, decided, mislaid, overlooked>>
  BY DEF NameThings
<1>. QED
  BY <1>2, <1>3, NamesKeep

\* A frame in hand: the ids and the things shown stand for each other.
LEMMA ShownIs ==
  ASSUME ActInv, Named
  PROVE  /\ Shown \subseteq Things /\ InView \subseteq 1..issued /\ InView \subseteq TrackIds /\ hand.ts = moment /\ moment \in Nat /\ moment > 0
         /\ \A h \in Shown : ThingOf(hand.shown[h].id) = h /\ hand.shown[h].id \in InView
         /\ \A t \in InView : ThingOf(t) \in Shown /\ hand.shown[ThingOf(t)].id = t
         /\ \A p : IdsAt(p) \subseteq InView
         /\ \A p : \A h \in Shown : (hand.shown[h].id \in IdsAt(p)) = (hand.shown[h].at = p)
         /\ \A h \in Things : trackOf[h] \in InView => h \in Shown /\ hand.shown[h].id = trackOf[h]
         /\ \A h \in Shown : trackOf[h] \in {0, hand.shown[h].id} /\ hand.shown[h].sure \in BOOLEAN
         /\ \A e \in decided : e.ts \in Nat /\ e.ts < moment
<1>1. /\ Shown \subseteq Things /\ hand.shown \in [Shown -> Shots] /\ hand.ts = moment
      /\ \A h \in Shown : /\ hand.shown[h].id \in 1..issued /\ trackOf[h] \in {0, hand.shown[h].id}
                          /\ \A g \in Things : trackOf[g] = hand.shown[h].id => g = h
                          /\ \A g \in Shown : hand.shown[g].id = hand.shown[h].id => g = h
      /\ \A e \in decided : e.ts < moment
  BY DEF ActInv, FrameFits
<1>2. issued \in Nat /\ issued <= MaxIssued /\ moment \in Nat /\ moment > 0 /\ decided \subseteq Tells
  BY DEF ActInv, ThingsTyped, StoryFits
<1>3. 1..issued \subseteq TrackIds
  BY <1>2, ActivitySizes DEF TrackIds
<1>4. InView \subseteq 1..issued /\ \A h \in Shown : hand.shown[h].id \in InView
  BY <1>1 DEF InView
<1>5. ASSUME NEW h \in Shown PROVE ThingOf(hand.shown[h].id) = h
  <2>1. \A g \in Shown : hand.shown[g].id = hand.shown[h].id => g = h
    BY <1>1
  <2>. QED
    BY <2>1 DEF ThingOf
<1>6. ASSUME NEW t \in InView PROVE ThingOf(t) \in Shown /\ hand.shown[ThingOf(t)].id = t
  <2>1. PICK h \in Shown : t = hand.shown[h].id
    BY DEF InView
  <2>. QED
    BY <2>1, <1>5
<1>7. ASSUME NEW p PROVE IdsAt(p) \subseteq InView /\ \A h \in Shown : (hand.shown[h].id \in IdsAt(p)) = (hand.shown[h].at = p)
  BY <1>1 DEF IdsAt, InView
<1>8. ASSUME NEW h \in Things, trackOf[h] \in InView PROVE h \in Shown /\ hand.shown[h].id = trackOf[h]
  BY <1>1, <1>8 DEF InView
<1>9. \A h \in Shown : hand.shown[h].sure \in BOOLEAN
  BY <1>1 DEF Shots
<1>10. \A e \in decided : e.ts \in Nat
  BY <1>2 DEF Tells
<1>. QED
  BY <1>1, <1>2, <1>3, <1>4, <1>5, <1>6, <1>7, <1>8, <1>9, <1>10

Spoken(out) ==
  /\ \A v \in out.says : /\ v \in [who : SUBSET Shown, says : {"entered", "parked", "gathered"} \cup Sides, ts : Nat]
                         /\ 0 < v.ts /\ v.ts <= moment /\ (Kind # "gathering" => \E h \in Shown : v.who = {h})
                         /\ \A h \in v.who : \A d \in Told(h) : d.ts < v.ts
  /\ out.learn.around \subseteq Shown /\ out.learn.overlooked \subseteq Shown
Written(m, out) ==
  /\ out.mem \in Memories /\ out.mem.touched \subseteq out.mem.across
  /\ \A S : Keeps(m, S) /\ InView \subseteq S => Keeps(out.mem, S)
  /\ \A t \in TrackIds \ InView : Alike(m, out.mem, t)
  /\ Kind # "crossing" => out.mem.pending = m.pending

\* An event of a track in view, now.
LEMMA SaysNow ==
  ASSUME ActInv, Named, NEW t \in InView, NEW what \in {"entered", "parked", "gathered"} \cup Sides
  PROVE  LET v == Says(t, what) IN
         /\ v \in [who : SUBSET Shown, says : {"entered", "parked", "gathered"} \cup Sides, ts : Nat]
         /\ v.who = {ThingOf(t)} /\ v.says = what /\ v.ts = moment /\ 0 < v.ts /\ v.ts <= moment
         /\ (\E h \in Shown : v.who = {h}) /\ \A h \in v.who : \A d \in Told(h) : d.ts < v.ts
<1>1. ThingOf(t) \in Shown /\ hand.ts = moment /\ moment \in Nat /\ moment > 0 /\ \A e \in decided : e.ts < moment
  BY ShownIs
<1>. QED
  BY <1>1 DEF Says, Told

LEMMA EnteringIs ==
  ASSUME ActInv, Named, Kind = "entry", NEW m \in Memories, m.touched \subseteq m.across, NEW out \in Entering(m)
  PROVE  /\ Spoken(out) /\ Written(m, out)
         /\ LET raise == {t \in IdsAt("in") \ Staying(m) : m.last[t] = 0 \/ moment - m.last[t] >= Cooldown} IN
            /\ out.mem.inside = Staying(m) \cup IdsAt("in")
            /\ \A t \in TrackIds : out.mem.last[t] = IF t \in raise THEN moment ELSE m.last[t]
            /\ out.says = {Says(t, "entered") : t \in raise} /\ out.learn = NobodyLearns /\ raise \subseteq InView
<1> DEFINE raise == {t \in IdsAt("in") \ Staying(m) : m.last[t] = 0 \/ moment - m.last[t] >= Cooldown}
<1>1. InView \subseteq TrackIds /\ hand.ts = moment /\ moment \in Nat /\ IdsAt("in") \subseteq InView /\ IdsAt("out") \subseteq InView
  BY ShownIs
<1>2. /\ out.mem = [m EXCEPT !.inside = Staying(m) \cup (IdsAt("in") \ Staying(m)),
                             !.last = [t \in TrackIds |-> IF t \in raise THEN hand.ts ELSE m.last[t]]]
      /\ out.says = {Says(t, "entered") : t \in raise} /\ out.learn = NobodyLearns
  BY <1>1 DEF Entering
<1>3. /\ m.inside \subseteq TrackIds /\ m.last \in [TrackIds -> Nat]
      /\ Staying(m) \subseteq m.inside /\ \A t \in m.inside \ InView : t \in Staying(m)
  BY <1>1 DEF Memories, Staying
<1>4. raise \subseteq InView
  BY <1>1
<1> HIDE DEF raise
<1>5. /\ out.mem \in Memories /\ out.mem.inside = Staying(m) \cup IdsAt("in")
      /\ out.mem.reported = m.reported /\ out.mem.across = m.across /\ out.mem.touched = m.touched /\ out.mem.pending = m.pending
      /\ out.mem.entered = m.entered /\ out.mem.side = m.side
      /\ \A t \in TrackIds : out.mem.last[t] = IF t \in raise THEN moment ELSE m.last[t]
  <2> DEFINE L == [t \in TrackIds |-> IF t \in raise THEN hand.ts ELSE m.last[t]]
             I == Staying(m) \cup (IdsAt("in") \ Staying(m))
  <2>1. L \in [TrackIds -> Nat] /\ \A t \in TrackIds : L[t] = IF t \in raise THEN moment ELSE m.last[t]
    BY <1>1, <1>3
  <2>2. I \in SUBSET TrackIds /\ I = Staying(m) \cup IdsAt("in")
    BY <1>1, <1>3
  <2>3. out.mem = [m EXCEPT !.inside = I, !.last = L]
    BY <1>2
  <2> HIDE DEF I, L
  <2>4. /\ out.mem \in Memories /\ out.mem.inside = I /\ out.mem.last = L
        /\ out.mem.reported = m.reported /\ out.mem.across = m.across /\ out.mem.touched = m.touched /\ out.mem.pending = m.pending
        /\ out.mem.entered = m.entered /\ out.mem.side = m.side
    BY <2>1, <2>2, <2>3 DEF Memories
  <2>. QED
    BY <2>1, <2>2, <2>4
<1>6. Spoken(out)
  <2>1. out.learn.around \subseteq Shown /\ out.learn.overlooked \subseteq Shown
    BY <1>2 DEF NobodyLearns
  <2>2. ASSUME NEW v \in out.says
        PROVE /\ v \in [who : SUBSET Shown, says : {"entered", "parked", "gathered"} \cup Sides, ts : Nat]
              /\ 0 < v.ts /\ v.ts <= moment /\ (\E h \in Shown : v.who = {h}) /\ \A h \in v.who : \A d \in Told(h) : d.ts < v.ts
    <3>1. PICK t \in raise : v = Says(t, "entered")
      BY <1>2
    <3>. QED
      BY <3>1, <1>4, SaysNow
  <2>. QED
    BY <2>1, <2>2 DEF Spoken
<1>7. Written(m, out)
  <2>1. ASSUME NEW S, Keeps(m, S), InView \subseteq S PROVE Keeps(out.mem, S)
    BY <2>1, <1>1, <1>3, <1>4, <1>5 DEF Keeps
  <2>2. ASSUME NEW t \in TrackIds \ InView PROVE Alike(m, out.mem, t)
    BY <1>1, <1>3, <1>4, <1>5 DEF Alike
  <2>. QED
    BY <2>1, <2>2, <1>5 DEF Written
<1>. QED
  BY <1>2, <1>4, <1>5, <1>6, <1>7 DEF raise

LEMMA ParkingIs ==
  ASSUME ActInv, Named, Kind = "parking", NEW m \in Memories, m.touched \subseteq m.across, NEW out \in Parking(m)
  PROVE  /\ Spoken(out) /\ Written(m, out)
         /\ LET came == [t \in TrackIds |-> IF t \in IdsAt("out") \ m.reported THEN 0
                                            ELSE IF t \in IdsAt("in") \ m.reported /\ m.entered[t] = 0 THEN moment
                                            ELSE m.entered[t]]
                raise == {t \in IdsAt("in") \ m.reported : moment - came[t] >= Duration} IN
            /\ out.mem.reported = m.reported \cup raise
            /\ \A t \in TrackIds : out.mem.entered[t] = IF t \in raise THEN 0 ELSE came[t]
            /\ out.says = {Says(t, "parked") : t \in raise} /\ out.learn = NobodyLearns /\ raise \subseteq InView
<1> DEFINE came == [t \in TrackIds |-> IF t \in IdsAt("out") \ m.reported THEN 0
                                       ELSE IF t \in IdsAt("in") \ m.reported /\ m.entered[t] = 0 THEN moment
                                       ELSE m.entered[t]]
           raise == {t \in IdsAt("in") \ m.reported : moment - came[t] >= Duration}
<1>1. InView \subseteq TrackIds /\ hand.ts = moment /\ moment \in Nat /\ IdsAt("in") \subseteq InView /\ IdsAt("out") \subseteq InView
  BY ShownIs
<1>2. /\ out.mem = [m EXCEPT !.reported = m.reported \cup raise, !.entered = [t \in TrackIds |-> IF t \in raise THEN 0 ELSE came[t]]]
      /\ out.says = {Says(t, "parked") : t \in raise} /\ out.learn = NobodyLearns
  BY <1>1 DEF Parking
<1>3. m.reported \subseteq TrackIds /\ m.entered \in [TrackIds -> Nat]
  BY DEF Memories
<1>4. raise \subseteq InView
  BY <1>1
<1>5. came \in [TrackIds -> Nat] /\ \A t \in TrackIds \ InView : came[t] = m.entered[t]
  BY <1>1, <1>3
<1> HIDE DEF raise, came
<1>6. /\ out.mem \in Memories /\ out.mem.reported = m.reported \cup raise
      /\ out.mem.inside = m.inside /\ out.mem.across = m.across /\ out.mem.touched = m.touched /\ out.mem.pending = m.pending
      /\ out.mem.last = m.last /\ out.mem.side = m.side
      /\ \A t \in TrackIds : out.mem.entered[t] = IF t \in raise THEN 0 ELSE came[t]
  <2> DEFINE E == [t \in TrackIds |-> IF t \in raise THEN 0 ELSE came[t]]
             R == m.reported \cup raise
  <2>1. E \in [TrackIds -> Nat] /\ \A t \in TrackIds : E[t] = IF t \in raise THEN 0 ELSE came[t]
    BY <1>5
  <2>2. R \in SUBSET TrackIds
    BY <1>1, <1>3, <1>4
  <2>3. out.mem = [m EXCEPT !.reported = R, !.entered = E]
    BY <1>2
  <2> HIDE DEF R, E
  <2>4. /\ out.mem \in Memories /\ out.mem.reported = R /\ out.mem.entered = E
        /\ out.mem.inside = m.inside /\ out.mem.across = m.across /\ out.mem.touched = m.touched /\ out.mem.pending = m.pending
        /\ out.mem.last = m.last /\ out.mem.side = m.side
    BY <2>1, <2>2, <2>3 DEF Memories
  <2>. QED
    BY <2>1, <2>4 DEF R
<1>7. Spoken(out)
  <2>1. out.learn.around \subseteq Shown /\ out.learn.overlooked \subseteq Shown
    BY <1>2 DEF NobodyLearns
  <2>2. ASSUME NEW v \in out.says
        PROVE /\ v \in [who : SUBSET Shown, says : {"entered", "parked", "gathered"} \cup Sides, ts : Nat]
              /\ 0 < v.ts /\ v.ts <= moment /\ (\E h \in Shown : v.who = {h}) /\ \A h \in v.who : \A d \in Told(h) : d.ts < v.ts
    <3>1. PICK t \in raise : v = Says(t, "parked")
      BY <1>2
    <3>. QED
      BY <3>1, <1>4, SaysNow
  <2>. QED
    BY <2>1, <2>2 DEF Spoken
<1>8. Written(m, out)
  <2>1. ASSUME NEW S, Keeps(m, S), InView \subseteq S PROVE Keeps(out.mem, S)
    BY <2>1, <1>1, <1>3, <1>4, <1>5, <1>6 DEF Keeps
  <2>2. ASSUME NEW t \in TrackIds \ InView PROVE Alike(m, out.mem, t)
    BY <1>1, <1>3, <1>4, <1>5, <1>6 DEF Alike
  <2>. QED
    BY <2>1, <2>2, <1>6 DEF Written
<1>. QED
  BY <1>2, <1>4, <1>6, <1>7, <1>8 DEF raise, came

LEMMA GatheringIs ==
  ASSUME ActInv, Named, Kind = "gathering", NEW m \in Memories, m.touched \subseteq m.across, NEW out \in Gathering(m)
  PROVE  /\ Spoken(out) /\ Written(m, out) /\ out.learn.around = {}
         /\ \/ out.says = {} /\ out.mem.until = m.until
            \/ moment >= m.until /\ out.mem.until = moment + Cooldown /\ \A v \in out.says : v.ts = moment
         /\ \A h \in Shown : hand.shown[h].id \in out.mem.reported =>
              hand.shown[h].id \in m.reported \/ h \in out.learn.overlooked \/ \E v \in out.says : h \in v.who
<1> DEFINE idsOf(g) == {hand.shown[h].id : h \in g}
           active == {g \in hand.with : NewGroup(m, idsOf(g))}
           start == IF m.since = 0 THEN hand.ts ELSE m.since
           all == UNION {idsOf(g) : g \in active}
           restarted == [m EXCEPT !.since = hand.ts, !.lastSeen = hand.ts, !.reported = @ \cup all]
<1>1. /\ InView \subseteq TrackIds /\ hand.ts = moment /\ moment \in Nat /\ moment > 0 /\ \A e \in decided : e.ts < moment
      /\ \A h \in Shown : hand.shown[h].id \in InView
      /\ \A g, h \in Shown : hand.shown[g].id = hand.shown[h].id => g = h
  <2>1. \A h \in Shown : ThingOf(hand.shown[h].id) = h
    BY ShownIs
  <2>2. ASSUME NEW g \in Shown, NEW h \in Shown, hand.shown[g].id = hand.shown[h].id PROVE g = h
    <3>1. ThingOf(hand.shown[g].id) = g /\ ThingOf(hand.shown[h].id) = h
      BY <2>1
    <3>. QED
      BY <3>1, <2>2
  <2>3. InView \subseteq TrackIds /\ hand.ts = moment /\ moment \in Nat /\ moment > 0 /\ (\A e \in decided : e.ts < moment)
        /\ \A h \in Shown : hand.shown[h].id \in InView
    BY ShownIs
  <2>. QED
    BY <2>2, <2>3
<1>2. UNION hand.with = Shown
  BY DEF ActInv, FrameFits
<1>3. UNION active \subseteq Shown /\ all \subseteq InView /\ \A h \in Shown : hand.shown[h].id \in all => h \in UNION active
  <2>1. \A g \in active : g \subseteq Shown
    BY <1>2
  <2> HIDE DEF active
  <2>2. ASSUME NEW h \in Shown, hand.shown[h].id \in all PROVE h \in UNION active
    <3>1. PICK g \in active : hand.shown[h].id \in idsOf(g)
      BY <2>2
    <3>2. PICK k \in g : hand.shown[h].id = hand.shown[k].id
      BY <3>1
    <3>3. k = h
      BY <2>1, <3>2, <1>1
    <3>. QED
      BY <3>3
  <2>3. all \subseteq InView
    <3>1. ASSUME NEW t \in all PROVE t \in InView
      <4>1. PICK g \in active : t \in idsOf(g)
        OBVIOUS
      <4>2. PICK k \in g : t = hand.shown[k].id
        BY <4>1
      <4>. QED
        BY <2>1, <4>2, <1>1
    <3>. QED
      BY <3>1
  <2>4. UNION active \subseteq Shown
    BY <2>1
  <2>. QED
    BY <2>2, <2>3, <2>4
<1>4. /\ m.since \in Nat /\ m.lastSeen \in Nat /\ m.reported \subseteq TrackIds /\ start \in Nat /\ m.reported \cup all \in SUBSET TrackIds
  BY <1>1, <1>3 DEF Memories
<1>5. CASE active = {}
  <2>1. out = [mem |-> IF m.since # 0 /\ hand.ts - m.lastSeen > ResetAfter THEN [m EXCEPT !.since = 0, !.lastSeen = hand.ts] ELSE m,
               says |-> {}, learn |-> NobodyLearns]
    BY <1>5 DEF Gathering
  <2>2. /\ out.mem \in Memories /\ out.mem.reported = m.reported /\ out.mem.until = m.until
        /\ out.mem.inside = m.inside /\ out.mem.across = m.across /\ out.mem.touched = m.touched /\ out.mem.pending = m.pending
        /\ out.mem.last = m.last /\ out.mem.side = m.side /\ out.mem.entered = m.entered
    BY <1>1, <2>1 DEF Memories
  <2>3. Written(m, out)
    BY <2>2 DEF Written, Keeps, Alike
  <2>. QED
    BY <2>1, <2>2, <2>3 DEF Spoken, NobodyLearns
<1>6. CASE active # {} /\ hand.ts - start < Duration
  <2>1. out = [mem |-> [m EXCEPT !.since = start, !.lastSeen = hand.ts], says |-> {}, learn |-> NobodyLearns]
    BY <1>6 DEF Gathering
  <2> HIDE DEF start
  <2>2. /\ out.mem \in Memories /\ out.mem.reported = m.reported /\ out.mem.until = m.until
        /\ out.mem.inside = m.inside /\ out.mem.across = m.across /\ out.mem.touched = m.touched /\ out.mem.pending = m.pending
        /\ out.mem.last = m.last /\ out.mem.side = m.side /\ out.mem.entered = m.entered
    BY <1>1, <1>4, <2>1 DEF Memories
  <2>3. Written(m, out)
    BY <2>2 DEF Written, Keeps, Alike
  <2>. QED
    BY <2>1, <2>2, <2>3 DEF Spoken, NobodyLearns
<1>7. CASE active # {} /\ ~(hand.ts - start < Duration)
  <2>1. \/ hand.ts < m.until /\ out = [mem |-> restarted, says |-> {}, learn |-> [around |-> {}, overlooked |-> UNION active]]
        \/ /\ ~(hand.ts < m.until)
           /\ \E g \in active : out = [mem |-> [restarted EXCEPT !.until = hand.ts + Cooldown],
                                       says |-> {[who |-> g, says |-> "gathered", ts |-> hand.ts]},
                                       learn |-> [around |-> {}, overlooked |-> UNION (active \ {g})]]
    BY <1>7 DEF Gathering
  <2>2. /\ restarted \in Memories /\ restarted.reported = m.reported \cup all /\ restarted.until = m.until
        /\ restarted.inside = m.inside /\ restarted.across = m.across /\ restarted.touched = m.touched /\ restarted.pending = m.pending
        /\ restarted.last = m.last /\ restarted.side = m.side /\ restarted.entered = m.entered
    <3> DEFINE R == m.reported \cup all
    <3>1. R \in SUBSET TrackIds /\ restarted = [m EXCEPT !.since = hand.ts, !.lastSeen = hand.ts, !.reported = R]
      BY <1>4
    <3> HIDE DEF R, restarted
    <3>2. /\ restarted \in Memories /\ restarted.reported = R /\ restarted.until = m.until
          /\ restarted.inside = m.inside /\ restarted.across = m.across /\ restarted.touched = m.touched /\ restarted.pending = m.pending
          /\ restarted.last = m.last /\ restarted.side = m.side /\ restarted.entered = m.entered
      BY <3>1, <1>1 DEF Memories
    <3>. QED
      BY <3>2 DEF R
  <2>3. [restarted EXCEPT !.until = hand.ts + Cooldown] \in Memories /\ hand.ts + Cooldown \in Nat
    <3> HIDE DEF restarted
    <3>. QED
      BY <2>2, <1>1, ActivitySizes DEF Memories
  <2> HIDE DEF restarted, all, active
  <2>4. /\ out.mem \in Memories /\ out.mem.reported = m.reported \cup all
        /\ out.mem.inside = m.inside /\ out.mem.across = m.across /\ out.mem.touched = m.touched /\ out.mem.pending = m.pending
        /\ out.mem.last = m.last /\ out.mem.side = m.side /\ out.mem.entered = m.entered
    BY <2>1, <2>2, <2>3 DEF Memories
  <2>5. Written(m, out)
    <3>1. ASSUME NEW S, Keeps(m, S), InView \subseteq S PROVE Keeps(out.mem, S)
      BY <3>1, <1>3, <2>4 DEF Keeps
    <3>2. ASSUME NEW t \in TrackIds \ InView PROVE Alike(m, out.mem, t)
      BY <1>3, <2>4 DEF Alike
    <3>. QED
      BY <3>1, <3>2, <2>4 DEF Written
  <2>6. /\ Spoken(out) /\ out.learn.around = {}
        /\ \/ out.says = {} /\ out.mem.until = m.until
           \/ moment >= m.until /\ out.mem.until = moment + Cooldown /\ \A v \in out.says : v.ts = moment
        /\ \A h \in UNION active : h \in out.learn.overlooked \/ \E v \in out.says : h \in v.who
    <3>1. CASE hand.ts < m.until /\ out = [mem |-> restarted, says |-> {}, learn |-> [around |-> {}, overlooked |-> UNION active]]
      BY <3>1, <1>3, <2>2 DEF Spoken
    <3>2. ASSUME ~(hand.ts < m.until), NEW g \in active,
                 out = [mem |-> [restarted EXCEPT !.until = hand.ts + Cooldown],
                        says |-> {[who |-> g, says |-> "gathered", ts |-> hand.ts]},
                        learn |-> [around |-> {}, overlooked |-> UNION (active \ {g})]]
          PROVE  /\ Spoken(out) /\ out.learn.around = {}
                 /\ moment >= m.until /\ out.mem.until = moment + Cooldown /\ \A v \in out.says : v.ts = moment
                 /\ \A h \in UNION active : h \in out.learn.overlooked \/ \E v \in out.says : h \in v.who
      <4>1. out.says = {[who |-> g, says |-> "gathered", ts |-> hand.ts]} /\ out.learn.around = {} /\ out.learn.overlooked = UNION (active \ {g})
        BY <3>2
      <4>2. out.mem.until = hand.ts + Cooldown
        BY <3>2, <2>2 DEF Memories
      <4>3. g \subseteq Shown
        BY <1>3
      <4>4. Spoken(out)
        BY <4>1, <4>3, <1>1, <1>3 DEF Spoken, Told
      <4>5. \A h \in UNION active : h \in g \/ h \in UNION (active \ {g})
        OBVIOUS
      <4>6. m.until \in Nat
        BY DEF Memories
      <4>. QED
        BY <4>1, <4>2, <4>4, <4>5, <4>6, <3>2, <1>1
    <3>. QED
      BY <2>1, <3>1, <3>2
  <2>7. ASSUME NEW h \in Shown, hand.shown[h].id \in out.mem.reported
        PROVE  hand.shown[h].id \in m.reported \/ h \in out.learn.overlooked \/ \E v \in out.says : h \in v.who
    BY <2>4, <2>6, <2>7, <1>3
  <2>. QED
    BY <2>5, <2>6, <2>7
<1>. QED
  BY <1>5, <1>6, <1>7

\* What a crossing is made of.
SideIds == UNION {IdsAt(p) : p \in Sides}
SideNow == [t \in SideIds |-> CHOOSE p \in Sides : t \in IdsAt(p)]
Changed(m) == {t \in SideIds : m.side[t] # "none" /\ m.side[t] # SideNow[t]}
SureIds == {hand.shown[h].id : h \in {g \in Shown : hand.shown[g].sure}}
HeldWith(m, through) == m.pending \cup {[track |-> t, says |-> SideNow[t], ts |-> hand.ts] : t \in through}
Given(m, through) == {p \in HeldWith(m, through) : p.track \in SureIds}
SideAfter(m, t) == IF t \in SideIds THEN SideNow[t] ELSE m.side[t]
Back(m, through) ==
  {p \in Given(m, through) : /\ \A q \in Given(m, through) : q.track = p.track => q.ts <= p.ts
                             /\ p.says # SideAfter(m, p.track)}

LEMMA CrossingIs ==
  ASSUME ActInv, Named, Kind = "crossing", NEW m \in {memory, hand.old}, NEW out \in Crossing(m)
  PROVE  /\ Spoken(out) /\ Written(m, out)
         /\ \E through \in SUBSET Changed(m) :
              /\ \A t \in TrackIds : out.mem.side[t] = SideAfter(m, t)
              /\ out.mem.pending = {p \in HeldWith(m, through) : p.track \notin SureIds}
              /\ out.says = {[who |-> {ThingOf(p.track)}, says |-> p.says, ts |-> p.ts] : p \in Given(m, through)}
              /\ out.learn.overlooked = {}
              /\ out.learn.around = {ThingOf(t) : t \in (Changed(m) \ through) \cup {p.track : p \in Back(m, through)}}
<1>1. /\ InView \subseteq TrackIds /\ hand.ts = moment /\ moment \in Nat /\ moment > 0 /\ \A e \in decided : e.ts < moment
      /\ \A p : IdsAt(p) \subseteq InView /\ \A h \in Shown : hand.shown[h].id \in InView
      /\ \A t \in InView : ThingOf(t) \in Shown /\ hand.shown[ThingOf(t)].id = t /\ Shown \subseteq Things
  BY ShownIs
<1>2. m \in Memories /\ m.touched \subseteq m.across /\ m.pending \subseteq HeldCrossings /\ Later(m) /\ Dated(m)
  BY DEF ActInv, MemFits, HandFits, HeldFits, Fits, Memories
<1>3. SideIds \subseteq InView /\ \A t \in SideIds : SideNow[t] \in Sides
  BY <1>1 DEF SideIds, SideNow
<1>4. SureIds \subseteq InView /\ Changed(m) \subseteq InView
  BY <1>1, <1>3 DEF SureIds, Changed
<1>5. PICK through \in SUBSET Changed(m) :
        out = [mem |-> [m EXCEPT !.side = [t \in TrackIds |-> SideAfter(m, t)],
                                 !.across = (m.across \cup UNION {IdsAt(p) : p \in {"gate", "beside"}}) \ SideIds,
                                 !.touched = (m.touched \cup IdsAt("gate")) \ SideIds,
                                 !.pending = {p \in HeldWith(m, through) : p.track \notin SureIds}],
               says |-> {[who |-> {ThingOf(p.track)}, says |-> p.says, ts |-> p.ts] : p \in Given(m, through)},
               learn |-> [around |-> {ThingOf(t) : t \in (Changed(m) \ through) \cup {p.track : p \in Back(m, through)}}, overlooked |-> {}]]
  BY DEF Crossing, SideIds, SideNow, Changed, SureIds, HeldWith, Given, SideAfter, Back
<1> DEFINE S == [t \in TrackIds |-> SideAfter(m, t)]
           A == (m.across \cup UNION {IdsAt(p) : p \in {"gate", "beside"}}) \ SideIds
           T == (m.touched \cup IdsAt("gate")) \ SideIds
           P == {p \in HeldWith(m, through) : p.track \notin SureIds}
<1>6. m.side \in [TrackIds -> Sides \cup {"none"}] /\ m.across \subseteq TrackIds /\ m.touched \subseteq TrackIds
  BY <1>2 DEF Memories
<1>7. S \in [TrackIds -> Sides \cup {"none"}] /\ \A t \in TrackIds : S[t] = SideAfter(m, t)
  BY <1>3, <1>6 DEF SideAfter
<1>8. A \in SUBSET TrackIds /\ T \in SUBSET TrackIds /\ T \subseteq A
  BY <1>1, <1>2, <1>6
<1>9. HeldWith(m, through) \subseteq HeldCrossings
  BY <1>1, <1>2, <1>3, <1>4 DEF HeldWith, HeldCrossings, Changed
<1>10. P \in SUBSET HeldCrossings
  BY <1>9
<1>11. out.mem = [m EXCEPT !.side = S, !.across = A, !.touched = T, !.pending = P]
  BY <1>5
<1>12. /\ \A S_ : m.across \cup m.touched \subseteq S_ /\ InView \subseteq S_ => A \cup T \subseteq S_
       /\ \A t \in TrackIds \ InView : S[t] = m.side[t] /\ t \notin through
       /\ \A p \in P : p \in m.pending \/ p.track \in InView
       /\ \A t \in TrackIds \ InView : {p \in P : p.track = t} = {p \in m.pending : p.track = t}
  <2>1. \A t \in TrackIds \ InView : S[t] = m.side[t] /\ t \notin through
    BY <1>3, <1>4, <1>7 DEF SideAfter
  <2>2. \A p \in HeldWith(m, through) : p \in m.pending \/ p.track \in InView
    BY <1>4 DEF HeldWith
  <2>3. m.pending \subseteq HeldWith(m, through)
    BY DEF HeldWith
  <2>4. \A S_ : m.across \cup m.touched \subseteq S_ /\ InView \subseteq S_ => A \cup T \subseteq S_
    BY <1>1
  <2>5. \A t \in TrackIds \ InView : {p \in P : p.track = t} = {p \in m.pending : p.track = t}
    BY <1>4, <2>2, <2>3
  <2>. QED
    BY <2>1, <2>2, <2>4, <2>5
<1> HIDE DEF S, A, T, P
<1>13. /\ out.mem \in Memories /\ out.mem.side = S /\ out.mem.across = A /\ out.mem.touched = T /\ out.mem.pending = P
       /\ out.mem.inside = m.inside /\ out.mem.reported = m.reported /\ out.mem.last = m.last /\ out.mem.entered = m.entered
  BY <1>2, <1>7, <1>8, <1>10, <1>11 DEF Memories
<1>14. Written(m, out)
  <2>1. ASSUME NEW S_, Keeps(m, S_), InView \subseteq S_ PROVE Keeps(out.mem, S_)
    BY <2>1, <1>1, <1>12, <1>13 DEF Keeps
  <2>2. ASSUME NEW t \in TrackIds \ InView PROVE Alike(m, out.mem, t)
    BY <1>8, <1>12, <1>13 DEF Alike
  <2>. QED
    BY <2>1, <2>2, <1>8, <1>13 DEF Written
<1>15. Spoken(out)
  <2>1. out.learn.around \subseteq Shown /\ out.learn.overlooked = {}
    <3>1. \A p \in Back(m, through) : p.track \in InView
      BY <1>4 DEF Back, Given
    <3>2. out.learn.around = {ThingOf(t) : t \in (Changed(m) \ through) \cup {p.track : p \in Back(m, through)}} /\ out.learn.overlooked = {}
      BY <1>5
    <3>. QED
      BY <3>1, <3>2, <1>1, <1>4
  <2>2. ASSUME NEW p \in Given(m, through)
        PROVE  /\ p \in HeldCrossings /\ ThingOf(p.track) \in Shown /\ 0 < p.ts /\ p.ts <= moment
               /\ \A d \in Told(ThingOf(p.track)) : d.ts < p.ts
    <3>1. p \in HeldCrossings /\ p.track \in InView /\ p \in HeldWith(m, through)
      BY <1>4, <1>9 DEF Given
    <3>2. CASE p \in m.pending
      <4>1. p.track \in IdIn(ThingOf(p.track)) /\ ThingOf(p.track) \in Things
        BY <3>1, <1>1 DEF IdIn
      <4>. QED
        BY <3>1, <3>2, <4>1, <1>1, <1>2 DEF Later, Dated
    <3>3. CASE p \notin m.pending
      <4>1. p.ts = moment
        BY <3>1, <3>3, <1>1 DEF HeldWith
      <4>. QED
        BY <3>1, <4>1, <1>1 DEF Told
    <3>. QED
      BY <3>2, <3>3
  <2>3. ASSUME NEW v \in out.says
        PROVE /\ v \in [who : SUBSET Shown, says : {"entered", "parked", "gathered"} \cup Sides, ts : Nat]
              /\ 0 < v.ts /\ v.ts <= moment /\ (\E h \in Shown : v.who = {h}) /\ \A h \in v.who : \A d \in Told(h) : d.ts < v.ts
    <3>1. PICK p \in Given(m, through) : v = [who |-> {ThingOf(p.track)}, says |-> p.says, ts |-> p.ts]
      BY <1>5
    <3>. QED
      BY <3>1, <2>2 DEF HeldCrossings
  <2>. QED
    BY <2>1, <2>3 DEF Spoken
<1>16. /\ out.says = {[who |-> {ThingOf(p.track)}, says |-> p.says, ts |-> p.ts] : p \in Given(m, through)}
       /\ out.learn.overlooked = {}
       /\ out.learn.around = {ThingOf(t) : t \in (Changed(m) \ through) \cup {p.track : p \in Back(m, through)}}
       /\ out.mem.pending = {p \in HeldWith(m, through) : p.track \notin SureIds}
       /\ \A t \in TrackIds : out.mem.side[t] = SideAfter(m, t)
  BY <1>5, <1>7, <1>13 DEF P
<1>. QED
  BY <1>14, <1>15, <1>16

LEMMA EventsAdded ==
  ASSUME StoryFits, EventsJustified, Kind' = Kind, NEW N, N \subseteq Tells, decided' = decided \cup N,
         \A e \in N : \A h \in e.who : \A d \in Told(h) : d.ts < e.ts,
         \A e \in N : \A d \in LastBefore(e)' : Justified(d, e)
  PROVE  EventsJustified'
<1>1. ASSUME NEW e \in decided PROVE LastBefore(e)' = LastBefore(e)
  <2>1. ASSUME NEW n \in N, n.ts < e.ts, n.who \cap e.who # {} PROVE FALSE
    <3>1. PICK x \in n.who : x \in e.who
      BY <2>1
    <3>2. e.ts < n.ts /\ n.ts \in Nat /\ e.ts \in Nat
      BY <3>1 DEF Told, StoryFits, Tells
    <3>. QED
      BY <3>2, <2>1
  <2>2. Before(e)' = Before(e)
    BY <2>1 DEF Before
  <2>. QED
    BY <2>2 DEF LastBefore
<1>2. \A e \in decided : \A d \in LastBefore(e)' : Justified(d, e)
  BY <1>1 DEF EventsJustified
<1>3. \A d, e : Justified(d, e)' = Justified(d, e)
  BY DEF Justified
<1>. QED
  BY <1>2, <1>3 DEF EventsJustified

About(out) == UNION {v.who : v \in out.says}
NewTells(out) == {[who |-> v.who, says |-> v.says, ts |-> v.ts, why |-> UNION {facts[h] : h \in v.who}] : v \in out.says}
\* What Evaluate makes of an outcome.
Settles(out) ==
  /\ memory' = IF hand.act = setup THEN out.mem ELSE memory
  /\ decided' = decided \cup NewTells(out)
  /\ facts' = [h \in Things |-> (IF h \in About(out) THEN IF Current(h) THEN {} ELSE {"reset"} ELSE facts[h])
                                \cup (IF h \in out.learn.around THEN {"around"} ELSE {})]
  /\ overlooked' = overlooked \cup out.learn.overlooked
  /\ stay' = [h \in Things |->
       IF h \notin Shown THEN stay[h]
       ELSE IF ~Current(h) \/ hand.shown[h].at # "in" THEN NoStay
       ELSE [from |-> IF stay[h].from = 0 THEN hand.ts ELSE stay[h].from, upto |-> hand.ts]]
  /\ mislaid' = mislaid

Evaluated(out) ==
  /\ hand.pc = "evaluate" /\ hand' = Resting /\ UNCHANGED <<identityVars, retired, configVars>>
  /\ Settles(out) /\ Spoken(out) /\ (hand.act = setup => Written(memory, out))

LEMMA CurrentIs == ASSUME ActInv, hand.pc = "evaluate", NEW h \in Shown, Current(h)
  PROVE hand.act = setup /\ breaker = "idle" /\ present /\ trackOf[h] = hand.shown[h].id /\ trackOf[h] # 0 /\ ~Unsettled
<1>1. Named /\ hand.shown[h].id # 0 /\ h \in Things
  <2>1. Named
    BY DEF Named
  <2>2. hand.shown[h].id \in 1..issued /\ h \in Things
    BY <2>1 DEF ActInv, FrameFits
  <2>. QED
    BY <2>1, <2>2
<1>2. hand.act = setup /\ breaker = "idle" /\ trackOf[h] = hand.shown[h].id
  BY DEF Current
<1>3. ~Replaced
  BY <1>2 DEF Replaced
<1>4. present
  BY <1>1, <1>2, <1>3 DEF ActInv, Troubled
<1>. QED
  BY <1>1, <1>2, <1>3, <1>4 DEF Unsettled

\* Who is shown and was not interrupted stands before the instance that is there.
LEMMA CleanIs == ASSUME ActInv, hand.pc = "evaluate", NEW h \in Shown, Clean(h)
  PROVE hand.act = setup /\ breaker = "idle" /\ present /\ trackOf[h] = hand.shown[h].id /\ trackOf[h] # 0
<1>1. Named /\ h \in Things /\ "reset" \notin facts[h]
  BY ShownIs DEF Named, Clean
<1>2. ~Unsettled /\ trackOf[h] # 0
  BY <1>1 DEF ActInv, Troubled
<1>3. trackOf[h] = hand.shown[h].id
  BY <1>1, <1>2 DEF ActInv, FrameFits
<1>. QED
  BY <1>2, <1>3 DEF Unsettled, Replaced

LEMMA TellsIs ==
  ASSUME ActInv, NEW out, Evaluated(out)
  PROVE  /\ About(out) \subseteq Shown /\ NewTells(out) \subseteq Tells
         /\ \A e \in NewTells(out) : /\ e.who \subseteq Shown /\ 0 < e.ts /\ e.ts <= moment /\ e.ts \in Nat
                                     /\ Kind # "gathering" => \E h \in Things : e.who = {h}
                                     /\ \A h \in e.who : h \in About(out) /\ facts[h] \subseteq e.why /\ \A d \in Told(h) : d.ts < e.ts
         /\ \A h \in Things : Told(h)' = Told(h) \cup {e \in NewTells(out) : h \in e.who}
         /\ \A h \in Things : h \notin About(out) => Told(h)' = Told(h)
<1>1. Named /\ Shown \subseteq Things
  BY ShownIs DEF Evaluated, Named
<1>2. \A v \in out.says : /\ v \in [who : SUBSET Shown, says : {"entered", "parked", "gathered"} \cup Sides, ts : Nat]
                          /\ 0 < v.ts /\ v.ts <= moment /\ (Kind # "gathering" => \E h \in Shown : v.who = {h})
                          /\ \A h \in v.who : \A d \in Told(h) : d.ts < v.ts
  BY DEF Evaluated, Spoken
<1>3. \A h \in Things : facts[h] \subseteq KnownFacts
  BY DEF ActInv, StoryFits
<1>4. About(out) \subseteq Shown
  BY <1>2 DEF About
<1>5. ASSUME NEW e \in NewTells(out)
      PROVE  /\ e \in Tells /\ e.who \subseteq Shown /\ 0 < e.ts /\ e.ts <= moment /\ e.ts \in Nat
             /\ Kind # "gathering" => \E h \in Things : e.who = {h}
             /\ \A h \in e.who : h \in About(out) /\ facts[h] \subseteq e.why /\ \A d \in Told(h) : d.ts < e.ts
  <2>1. PICK v \in out.says : e = [who |-> v.who, says |-> v.says, ts |-> v.ts, why |-> UNION {facts[h] : h \in v.who}]
    BY DEF NewTells
  <2>2. v.who \subseteq Things /\ UNION {facts[h] : h \in v.who} \in SUBSET KnownFacts
    BY <1>1, <1>2, <1>3
  <2>3. e \in Tells
    BY <2>1, <2>2, <1>2 DEF Tells
  <2>4. \A h \in e.who : h \in About(out) /\ facts[h] \subseteq e.why
    BY <2>1 DEF About
  <2>. QED
    BY <2>1, <2>3, <2>4, <1>1, <1>2
<1>6. decided' = decided \cup NewTells(out)
  BY DEF Evaluated, Settles
<1>7. \A h \in Things : Told(h)' = Told(h) \cup {e \in NewTells(out) : h \in e.who}
  BY <1>6 DEF Told
<1>8. \A h \in Things : h \notin About(out) => Told(h)' = Told(h)
  BY <1>5, <1>7
<1>. QED
  BY <1>4, <1>5, <1>7, <1>8

LEMMA FactsIs ==
  ASSUME ActInv, NEW out, Evaluated(out)
  PROVE  /\ facts' \in [Things -> SUBSET KnownFacts] /\ stay' \in [Things -> [from : Nat, upto : Nat]]
         /\ \A h \in Things : h \in About(out) /\ ~Current(h) => "reset" \in facts'[h]
         /\ \A h \in Things : h \notin About(out) => facts[h] \subseteq facts'[h] /\ Clean(h)' = Clean(h)
         /\ \A h \in Things : h \in out.learn.around => "around" \in facts'[h]
         /\ \A h \in Things : h \notin Shown => stay'[h] = stay[h]
         /\ \A h \in Shown : stay'[h].from # 0 => Current(h) /\ hand.shown[h].at = "in"
         /\ \A h \in Shown : Current(h) /\ hand.shown[h].at = "in" =>
              stay'[h].from = (IF stay[h].from = 0 THEN moment ELSE stay[h].from) /\ stay'[h].upto = moment
<1>1. Named /\ Shown \subseteq Things /\ hand.ts = moment /\ moment \in Nat
  BY ShownIs DEF Evaluated, Named
<1>2. facts \in [Things -> SUBSET KnownFacts] /\ stay \in [Things -> [from : Nat, upto : Nat]]
  BY DEF ActInv, StoryFits
<1>3. facts' = [h \in Things |-> (IF h \in About(out) THEN IF Current(h) THEN {} ELSE {"reset"} ELSE facts[h])
                                 \cup (IF h \in out.learn.around THEN {"around"} ELSE {})]
  BY DEF Evaluated, Settles
<1>4. stay' = [h \in Things |->
         IF h \notin Shown THEN stay[h]
         ELSE IF ~Current(h) \/ hand.shown[h].at # "in" THEN NoStay
         ELSE [from |-> IF stay[h].from = 0 THEN hand.ts ELSE stay[h].from, upto |-> hand.ts]]
  BY DEF Evaluated, Settles
<1>5. NoStay \in [from : Nat, upto : Nat] /\ NoStay.from = 0
  BY DEF NoStay
<1>6. facts' \in [Things -> SUBSET KnownFacts]
  BY <1>2, <1>3 DEF KnownFacts
<1>7. stay' \in [Things -> [from : Nat, upto : Nat]]
  BY <1>1, <1>2, <1>4, <1>5
<1>8. \A h \in Things : /\ h \in About(out) /\ ~Current(h) => "reset" \in facts'[h]
                        /\ h \notin About(out) => facts[h] \subseteq facts'[h] /\ facts'[h] \subseteq facts[h] \cup {"around"}
                        /\ h \in out.learn.around => "around" \in facts'[h]
  BY <1>3
<1>9. \A h \in Things : h \notin About(out) => Clean(h)' = Clean(h)
  BY <1>8 DEF Clean
<1>10. /\ \A h \in Things : h \notin Shown => stay'[h] = stay[h]
       /\ \A h \in Shown : stay'[h].from # 0 => Current(h) /\ hand.shown[h].at = "in"
       /\ \A h \in Shown : Current(h) /\ hand.shown[h].at = "in" =>
            stay'[h].from = (IF stay[h].from = 0 THEN moment ELSE stay[h].from) /\ stay'[h].upto = moment
  BY <1>1, <1>4, <1>5
<1>. QED
  BY <1>6, <1>7, <1>8, <1>9, <1>10

\* What an evaluation leaves of the invariant whatever the activity.
LEMMA EvaluationKeeps ==
  ASSUME ActInv, NEW out, Evaluated(out)
  PROVE  /\ ThingsTyped' /\ BudgetFits' /\ HandFits' /\ FrameFits' /\ StoryFits' /\ MemFits' /\ Troubled' /\ Released'
         /\ Kind' = Kind /\ ~Named' /\ hand'.old = Blank
<1>0. /\ ThingsTyped /\ BudgetFits /\ FrameFits /\ StoryFits /\ MemFits /\ Troubled /\ Released /\ Named
      /\ trackOf' = trackOf /\ retired' = retired /\ seenAt' = seenAt /\ firstAt' = firstAt /\ issued' = issued /\ moment' = moment
      /\ setup' = setup /\ present' = present /\ breaker' = breaker /\ activityBudget' = activityBudget
      /\ hand.pc = "evaluate" /\ hand' = Resting
  BY DEF ActInv, Evaluated, identityVars, configVars, Named
<1>1. /\ mislaid' = mislaid /\ memory' = (IF hand.act = setup THEN out.mem ELSE memory) /\ overlooked' = overlooked \cup out.learn.overlooked
      /\ decided' = decided \cup NewTells(out)
  BY DEF Evaluated, Settles
<1>2. hand' \in Hands /\ hand'.pc = "idle" /\ hand'.act = 0 /\ hand'.old = Blank
  BY <1>0, RestingFits
<1>3. ~Named' /\ ~Replaced' /\ FrameFits'
  BY <1>2 DEF Named, Replaced, FrameFits
<1>4. Kind' = Kind /\ BudgetFits' /\ ThingsTyped'
  BY <1>0, <1>1 DEF Kind, Actors, BudgetFits, ThingsTyped
<1>5. HandFits'
  <2>1. Fits(Blank)'
    BY BlankFits DEF Fits
  <2>2. hand'.act \in 0..setup'
    BY <1>0, <1>2 DEF ThingsTyped
  <2>. QED
    BY <1>2, <2>1, <2>2 DEF HandFits, Fits
<1>6. MemFits'
  <2>1. CASE hand.act = setup
    <3>1. Written(memory, out) /\ InView \subseteq 1..issued /\ Keeps(memory, 1..issued)
      BY <1>0, <2>1, ShownIs DEF Evaluated, MemFits, Fits
    <3>2. out.mem \in Memories /\ Keeps(out.mem, 1..issued) /\ out.mem.touched \subseteq out.mem.across
      BY <3>1 DEF Written
    <3>. QED
      BY <3>2, <2>1, <1>0, <1>1 DEF MemFits, Fits
  <2>2. CASE hand.act # setup
    BY <2>2, <1>0, <1>1 DEF MemFits, Fits
  <2>. QED
    BY <2>1, <2>2
<1>7. Released'
  <2>1. SUFFICES ASSUME present PROVE Keeps(memory', TrackValues \cup retired \cup mislaid)
    BY <1>0, <1>1 DEF Released, TrackValues
  <2>2. Keeps(memory, TrackValues \cup retired \cup mislaid)
    BY <1>0, <2>1 DEF Released
  <2>3. CASE hand.act = setup
    <3>1. InView \subseteq TrackValues \cup retired \cup mislaid
      <4>1. ASSUME NEW h \in Shown PROVE hand.shown[h].id \in TrackValues \cup mislaid
        <5>1. h \in Things /\ trackOf[h] \in {0, hand.shown[h].id} /\ (trackOf[h] = 0 => hand.shown[h].id \in mislaid)
          BY <1>0 DEF FrameFits
        <5>. QED
          BY <5>1 DEF TrackValues
      <4>. QED
        BY <4>1 DEF InView
    <3>2. Written(memory, out)
      BY <2>3 DEF Evaluated
    <3>. QED
      BY <2>2, <2>3, <3>1, <3>2, <1>1 DEF Written
  <2>4. CASE hand.act # setup
    BY <2>2, <2>4, <1>1
  <2>. QED
    BY <2>3, <2>4
<1>8. StoryFits'
  <2>1. /\ facts' \in [Things -> SUBSET KnownFacts] /\ stay' \in [Things -> [from : Nat, upto : Nat]]
        /\ \A h \in Things : h \notin Shown => stay'[h] = stay[h]
        /\ \A h \in Shown : stay'[h].from # 0 => Current(h) /\ hand.shown[h].at = "in"
        /\ \A h \in Shown : Current(h) /\ hand.shown[h].at = "in" =>
             stay'[h].from = (IF stay[h].from = 0 THEN moment ELSE stay[h].from) /\ stay'[h].upto = moment
    BY FactsIs
  <2>2. /\ NewTells(out) \subseteq Tells
        /\ \A e \in NewTells(out) : 0 < e.ts /\ e.ts <= moment /\ (Kind # "gathering" => \E h \in Things : e.who = {h})
    BY TellsIs
  <2>3. out.learn.overlooked \subseteq Things
    BY <1>0, ShownIs DEF Evaluated, Spoken
  <2>4. ASSUME NEW h \in Things, stay'[h].from # 0
        PROVE  trackOf[h] # 0 /\ stay'[h].from <= stay'[h].upto /\ stay'[h].upto <= moment
    <3>1. CASE h \notin Shown
      BY <3>1, <2>1, <2>4, <1>0 DEF StoryFits
    <3>2. CASE h \in Shown
      <4>1. Current(h) /\ trackOf[h] # 0 /\ stay'[h].upto = moment /\ stay'[h].from = (IF stay[h].from = 0 THEN moment ELSE stay[h].from)
        BY <3>2, <2>1, <2>4, <1>0, CurrentIs
      <4>2. stay[h].from # 0 => stay[h].from <= stay[h].upto /\ stay[h].upto <= moment
        BY <1>0 DEF StoryFits
      <4>3. stay[h].from \in Nat /\ stay[h].upto \in Nat /\ moment \in Nat
        BY <1>0 DEF StoryFits, ThingsTyped
      <4>. QED
        BY <4>1, <4>2, <4>3
    <3>. QED
      BY <3>1, <3>2
  <2>5. decided' \subseteq Tells /\ overlooked' \subseteq Things
    BY <2>2, <2>3, <1>0, <1>1 DEF StoryFits
  <2>6. \A e \in decided' : 0 < e.ts /\ e.ts <= moment /\ (Kind # "gathering" => \E h \in Things : e.who = {h})
    BY <2>2, <1>0, <1>1 DEF StoryFits
  <2>. QED
    BY <2>1, <2>4, <2>5, <2>6, <1>0, <1>4 DEF StoryFits
<1>9. Troubled'
  <2>1. SUFFICES ASSUME breaker # "idle" \/ ~present PROVE \A h \in Things : "reset" \in facts'[h]
    BY <1>0, <1>2, <1>3 DEF Troubled, Unsettled
  <2>2. \A h \in Things : "reset" \in facts[h]
    BY <1>0, <2>1 DEF Troubled, Unsettled
  <2>3. ASSUME NEW h \in Things PROVE "reset" \in facts'[h]
    <3>1. CASE h \in About(out)
      <4>1. h \in Shown /\ ~Current(h)
        BY <1>0, <2>1, <3>1, CurrentIs, TellsIs
      <4>. QED
        BY <3>1, <4>1, FactsIs
    <3>2. CASE h \notin About(out)
      BY <2>2, <3>2, FactsIs
    <3>. QED
      BY <3>1, <3>2
  <2>. QED
    BY <2>3
<1>. QED
  BY <1>2, <1>3, <1>4, <1>5, <1>6, <1>7, <1>8, <1>9

LEMMA EventsFollow ==
  ASSUME ActInv, NEW out, Evaluated(out),
         \A h \in Shown : \A e \in NewTells(out) : \A d \in LastBefore(e)' : Clean(h) /\ h \in e.who /\ h \in d.who => Justified(d, e)
  PROVE  EventsJustified'
<1>1. /\ NewTells(out) \subseteq Tells
      /\ \A e \in NewTells(out) : /\ e.who \subseteq Shown
                                  /\ \A h \in e.who : facts[h] \subseteq e.why /\ \A d \in Told(h) : d.ts < e.ts
  BY TellsIs
<1>2. decided' = decided \cup NewTells(out) /\ StoryFits /\ EventsJustified /\ Kind' = Kind
  BY EvaluationKeeps DEF Evaluated, Settles, ActInv
<1>3. ASSUME NEW e \in NewTells(out), NEW d \in LastBefore(e)' PROVE Justified(d, e)
  <2>1. PICK h \in e.who : h \in d.who
    BY DEF LastBefore, Before
  <2>2. CASE Clean(h)
    BY <1>1, <2>1, <2>2
  <2>3. CASE ~Clean(h)
    BY <1>1, <2>1, <2>3 DEF Clean, Justified
  <2>. QED
    BY <2>2, <2>3
<1> DEFINE N == NewTells(out)
<1>4. N \subseteq Tells /\ decided' = decided \cup N /\ (\A e \in N : \A h \in e.who : \A d \in Told(h) : d.ts < e.ts)
      /\ \A e \in N : \A d \in LastBefore(e)' : Justified(d, e)
  BY <1>1, <1>2, <1>3
<1> HIDE DEF N
<1>. QED
  BY <1>2, <1>4, EventsAdded

LEMMA NothingHeld == ASSUME ActInv, NEW out, Evaluated(out), memory'.pending = {} PROVE HeldFits'
<1>1. hand'.old = Blank
  BY EvaluationKeeps
<1>. QED
  BY <1>1, BlankFits DEF HeldFits, Later, Dated, OneAtATime

LEMMA NotHeld == ASSUME ActInv, NEW out, Evaluated(out), hand.act = setup, Kind # "crossing" PROVE memory'.pending = {}
<1>1. memory' = out.mem /\ Written(memory, out)
  BY DEF Evaluated, Settles
<1>2. Dated(memory)
  BY DEF ActInv, HeldFits
<1>. QED
  BY <1>1, <1>2 DEF Dated, Written

\* What was replaced raises its events, and nothing comes of them.
LEMMA ReplacedKeeps ==
  ASSUME ActInv, NEW out, Evaluated(out), hand.act # setup
  PROVE  StoryTrue' /\ StayTrue' /\ HeldFits' /\ EventsJustified'
<1>1. hand.pc = "evaluate" /\ Replaced /\ memory' = memory /\ trackOf' = trackOf /\ firstAt' = firstAt /\ moment' = moment
      /\ overlooked' = overlooked \cup out.learn.overlooked /\ breaker' = breaker /\ present' = present
  BY DEF Evaluated, Settles, Replaced, identityVars, configVars
<1>2. Keeps(memory, {}) /\ \A h \in Things : "reset" \in facts[h]
  BY <1>1 DEF ActInv, Troubled, Unsettled
<1>3. memory'.pending = {} /\ memory.pending = {}
  BY <1>1, <1>2 DEF Keeps
<1>4. HeldFits'
  BY <1>3, NothingHeld
<1>5. \A h \in Things : "reset" \in facts'[h]
  <2>1. ASSUME NEW h \in Things PROVE "reset" \in facts'[h]
    <3>1. CASE h \in About(out)
      <4>1. h \in Shown /\ ~Current(h)
        BY <1>1, <3>1, CurrentIs, TellsIs
      <4>. QED
        BY <3>1, <4>1, FactsIs
    <3>2. CASE h \notin About(out)
      BY <1>2, <3>2, FactsIs
    <3>. QED
      BY <3>1, <3>2
  <2>. QED
    BY <2>1
<1>6. StoryTrue'
  <2>1. ASSUME NEW h \in Things PROVE Linked(h)' /\ ToAndFro(h)'
    <3>1. facts'[h] \cap {"lost", "reset"} # {}
      BY <1>5
    <3>2. ToAndFro(h)'
      BY <1>3 DEF ToAndFro, Held
    <3>. QED
      BY <3>1, <3>2, LinkBroken
  <2>. QED
    BY <2>1 DEF StoryTrue
<1>7. Kind' = Kind
  BY EvaluationKeeps
<1>8. StayTrue'
  <2>1. ASSUME NEW h \in Things PROVE StayHolds(h)'
    <3>0. StayHolds(h) /\ Told(h) \subseteq Told(h)'
      BY TellsIs DEF ActInv, StayTrue
    <3>1. CASE h \notin Shown
      <4>1. stay'[h] = stay[h]
        BY <3>1, FactsIs
      <4>. QED
        BY <3>0, <4>1, <1>1, <1>7 DEF StayHolds
    <3>2. CASE h \in Shown
      <4>1. stay'[h].from = 0
        BY <1>1, <3>2, CurrentIs, FactsIs
      <4>2. memory.inside = {} /\ memory.reported = {}
        BY <1>2 DEF Keeps
      <4>. QED
        BY <3>0, <4>1, <4>2, <1>1, <1>7 DEF StayHolds
    <3>. QED
      BY <3>1, <3>2
  <2>. QED
    BY <2>1 DEF StayTrue
<1>9. EventsJustified'
  <2>1. \A h \in Shown : ~Clean(h)
    BY <1>1, CleanIs
  <2>. QED
    BY <2>1, EventsFollow
<1>. QED
  BY <1>4, <1>6, <1>8, <1>9

\* Of what the frame does not show nothing changes.
LEMMA UnseenKept ==
  ASSUME ActInv, NEW out, Evaluated(out), hand.act = setup, NEW h \in Things, h \notin Shown
  PROVE  (Kind # "gathering" => Linked(h)') /\ StayHolds(h)' /\ (Kind = "crossing" => ToAndFro(h)')
<1>1. Named /\ memory' = out.mem /\ Written(memory, out) /\ trackOf' = trackOf /\ firstAt' = firstAt /\ moment' = moment
      /\ overlooked' = overlooked \cup out.learn.overlooked /\ breaker' = breaker /\ present' = present
  BY DEF Evaluated, Settles, Named, identityVars, configVars
<1>2. trackOf[h] \notin InView /\ h \notin About(out)
  BY <1>1, ShownIs, TellsIs
<1>3. trackOf[h] \in 0..MaxIssued /\ firstAt[h] \in Nat /\ moment \in Nat /\ moment >= moment
  <2>1. trackOf[h] \in 0..issued /\ issued \in Nat /\ issued <= MaxIssued /\ firstAt[h] \in Nat /\ moment \in Nat
    BY DEF ActInv, ThingsTyped
  <2>. QED
    BY <2>1, ActivitySizes
<1>4. Alike(memory, memory', trackOf[h])
  BY <1>1, <1>2 DEF Written, Alike
<1>5. Told(h)' = Told(h) /\ facts[h] \subseteq facts'[h] /\ stay'[h] = stay[h]
  BY <1>2, TellsIs, FactsIs
<1>6. Kind' = Kind /\ MemFits'
  BY EvaluationKeeps
<1>7. 0 \notin memory'.inside /\ 0 \notin memory'.reported /\ memory \in Memories
  <2>1. memory' \in Memories
    BY <1>6 DEF MemFits, Fits
  <2>2. memory \in Memories
    BY DEF ActInv, MemFits, Fits
  <2>3. 0 \notin TrackIds
    BY ActivitySizes DEF TrackIds
  <2>. QED
    BY <2>1, <2>2, <2>3 DEF Memories
<1>8. Linked(h) /\ StayHolds(h) /\ (Kind = "crossing" => ToAndFro(h)) /\ (stay[h].from # 0 => trackOf[h] # 0)
  BY DEF ActInv, StoryTrue, StayTrue, StoryFits
<1>9. Kind # "gathering" => Linked(h)'
  BY <1>1, <1>3, <1>4, <1>5, <1>6, <1>8, LinkKept
<1>10. Kind = "crossing" => ToAndFro(h)'
  BY <1>1, <1>3, <1>4, <1>5, <1>8, FroKept
<1>11. StayHolds(h)'
  BY <1>1, <1>3, <1>4, <1>5, <1>6, <1>7, <1>8, StayKept
<1>. QED
  BY <1>9, <1>10, <1>11

LEMMA AboutTold == ASSUME NEW out, NEW h \in About(out) PROVE \E e \in NewTells(out) : h \in e.who
<1>1. PICK v \in out.says : h \in v.who
  BY DEF About
<1> DEFINE e == [who |-> v.who, says |-> v.says, ts |-> v.ts, why |-> UNION {facts[g] : g \in v.who}]
<1>2. e \in NewTells(out) /\ e.who = v.who
  BY DEF NewTells
<1>. QED
  BY <1>1, <1>2

\* Who the events of these tracks are about.
LEMMA SaysAbout ==
  ASSUME ActInv, Named, NEW out, NEW raise, raise \subseteq InView, NEW what, out.says = {Says(t, what) : t \in raise}
  PROVE  \A h \in Shown : (h \in About(out)) = (hand.shown[h].id \in raise)
<1>1. /\ \A h \in Shown : ThingOf(hand.shown[h].id) = h
      /\ \A t \in InView : ThingOf(t) \in Shown /\ hand.shown[ThingOf(t)].id = t
  BY ShownIs
<1>2. ASSUME NEW t \in raise PROVE ThingOf(t) \in About(out)
  <2>1. Says(t, what) \in out.says /\ Says(t, what).who = {ThingOf(t)}
    BY DEF Says
  <2>. QED
    BY <2>1 DEF About
<1>3. ASSUME NEW h \in About(out) PROVE \E t \in raise : h = ThingOf(t)
  BY DEF About, Says
<1>. QED
  BY <1>1, <1>2, <1>3

\* restricted_zone_entry: at once, and again only from outside and after the cooldown.
LEMMA EntryKeeps ==
  ASSUME ActInv, Kind = "entry", NEW out \in Entering(memory), Evaluated(out), hand.act = setup
  PROVE  StoryTrue' /\ StayTrue' /\ HeldFits' /\ EventsJustified'
<1> DEFINE raise == {t \in IdsAt("in") \ Staying(memory) : memory.last[t] = 0 \/ moment - memory.last[t] >= Cooldown}
<1>1. Named /\ memory' = out.mem /\ trackOf' = trackOf /\ firstAt' = firstAt /\ moment' = moment /\ breaker' = breaker /\ present' = present
      /\ hand.pc = "evaluate"
  BY DEF Evaluated, Settles, Named, identityVars, configVars
<1>2. memory \in Memories /\ memory.touched \subseteq memory.across
  BY DEF ActInv, MemFits, Fits
<1>3. /\ memory'.inside = Staying(memory) \cup IdsAt("in")
      /\ \A t \in TrackIds : memory'.last[t] = IF t \in raise THEN moment ELSE memory.last[t]
      /\ out.says = {Says(t, "entered") : t \in raise} /\ out.learn = NobodyLearns /\ raise \subseteq InView
  BY <1>1, <1>2, EnteringIs
<1>4. /\ Shown \subseteq Things /\ InView \subseteq TrackIds /\ hand.ts = moment /\ moment \in Nat /\ moment > 0
      /\ \A h \in Shown : ThingOf(hand.shown[h].id) = h /\ hand.shown[h].id \in InView
      /\ \A t \in InView : ThingOf(t) \in Shown /\ hand.shown[ThingOf(t)].id = t
      /\ \A p : \A h \in Shown : (hand.shown[h].id \in IdsAt(p)) = (hand.shown[h].at = p)
      /\ \A h \in Things : trackOf[h] \in InView => h \in Shown /\ hand.shown[h].id = trackOf[h]
      /\ \A e \in decided : e.ts \in Nat /\ e.ts < moment
  BY <1>1, ShownIs
<1>5. /\ \A h \in Shown : hand.shown[h].at \in {"in", "out"} /\ (hand.shown[h].at = "out" => "outside" \in facts[h])
      /\ \A h \in Shown : trackOf[h] \in {0, hand.shown[h].id}
  BY <1>1 DEF ActInv, FrameFits
<1> HIDE DEF raise
<1>6. \A e \in NewTells(out) : e.ts = moment /\ e.says = "entered" /\ \E t \in raise : e.who = {ThingOf(t)}
  BY <1>3, <1>4 DEF NewTells, Says
<1>7. \A h \in Shown : (h \in About(out)) = (hand.shown[h].id \in raise)
  BY <1>1, <1>3, SaysAbout
<1>8. \A h \in Shown : hand.shown[h].id \in raise => \E e \in Told(h)' : e.ts = moment
  <2>1. ASSUME NEW h \in Shown, hand.shown[h].id \in raise PROVE \E e \in Told(h)' : e.ts = moment
    <3>1. PICK e \in NewTells(out) : h \in e.who
      BY <2>1, <1>7, AboutTold
    <3>. QED
      BY <3>1, <1>4, <1>6, TellsIs
  <2>. QED
    BY <2>1
<1>9. ASSUME NEW h \in Things PROVE Linked(h) /\ StayHolds(h) /\ facts[h] \subseteq KnownFacts /\ trackOf[h] \in 0..MaxIssued
  <2>1. trackOf[h] \in 0..issued /\ issued \in Nat /\ issued <= MaxIssued
    BY DEF ActInv, ThingsTyped
  <2>2. trackOf[h] \in 0..MaxIssued
    BY <2>1, ActivitySizes
  <2>. QED
    BY <2>2 DEF ActInv, StoryTrue, StayTrue, StoryFits
<1>10. Kind' = Kind
  BY EvaluationKeeps
<1>11. StoryTrue'
  <2>1. ASSUME NEW h \in Shown, Clean(h)', Told(h)' # {}
        PROVE  /\ trackOf[h] # 0 /\ (\A d \in Told(h)' : d.ts <= memory'.last[trackOf[h]])
               /\ trackOf[h] \in memory'.inside \/ "outside" \in facts'[h]
    <3>1. CASE h \in About(out)
      <4>1. Current(h)
        BY <1>4, <2>1, <3>1, FactsIs DEF Clean
      <4>2. trackOf[h] # 0 /\ trackOf[h] = hand.shown[h].id
        BY <1>1, <4>1, CurrentIs
      <4>3. trackOf[h] \in raise /\ trackOf[h] \in TrackIds
        BY <1>3, <1>4, <1>7, <3>1, <4>2
      <4>4. memory'.last[trackOf[h]] = moment
        BY <1>3, <4>3
      <4>5. trackOf[h] \in memory'.inside
        BY <1>3, <4>3 DEF raise
      <4>6. \A d \in Told(h)' : d.ts <= moment
        BY <1>4, <1>6, TellsIs DEF Told
      <4>. QED
        BY <4>2, <4>4, <4>5, <4>6
    <3>2. CASE h \notin About(out)
      <4>1. Clean(h) /\ Told(h)' = Told(h) /\ facts[h] \subseteq facts'[h]
        BY <1>4, <2>1, <3>2, FactsIs, TellsIs
      <4>2. trackOf[h] # 0 /\ (\A d \in Told(h) : d.ts <= memory.last[trackOf[h]]) /\ (trackOf[h] \in memory.inside \/ "outside" \in facts[h])
        BY <1>4, <1>9, <2>1, <4>1 DEF Linked
      <4>3. trackOf[h] = hand.shown[h].id /\ trackOf[h] \notin raise /\ trackOf[h] \in TrackIds
        BY <1>4, <1>5, <1>7, <3>2, <4>2
      <4>4. memory'.last[trackOf[h]] = memory.last[trackOf[h]]
        BY <1>3, <4>3
      <4>5. trackOf[h] \in memory.inside => trackOf[h] \in memory'.inside \/ "outside" \in facts[h]
        BY <1>3, <1>4, <1>5, <4>3 DEF Staying
      <4>. QED
        BY <4>1, <4>2, <4>4, <4>5
    <3>. QED
      BY <3>1, <3>2
  <2>2. ASSUME NEW h \in Things PROVE Linked(h)'
    <3>1. CASE h \in Shown
      BY <2>1, <3>1, <1>1, <1>10 DEF Linked
    <3>2. CASE h \notin Shown
      BY <3>2, UnseenKept
    <3>. QED
      BY <3>1, <3>2
  <2>. QED
    BY <2>2, <1>10 DEF StoryTrue
<1>12. StayTrue'
  <2>1. ASSUME NEW h \in Shown PROVE StayHolds(h)'
    <3> DEFINE t == trackOf[h]
    <3>0. h \in Things /\ Told(h) \subseteq Told(h)' /\ t \in {0, hand.shown[h].id}
      BY <1>4, <1>5, TellsIs
    <3>1. t # 0 /\ memory'.last[t] # 0 => \E e \in Told(h)' : e.ts = memory'.last[t]
      <4>1. SUFFICES ASSUME t # 0, memory'.last[t] # 0 PROVE \E e \in Told(h)' : e.ts = memory'.last[t]
        OBVIOUS
      <4>2. t = hand.shown[h].id /\ t \in TrackIds
        BY <3>0, <4>1, <1>4
      <4>3. CASE t \in raise
        BY <1>3, <1>8, <4>2, <4>3
      <4>4. CASE t \notin raise
        BY <1>3, <1>9, <3>0, <4>1, <4>2, <4>4 DEF StayHolds
      <4>. QED
        BY <4>3, <4>4
    <3>2. breaker = "idle" /\ present /\ t \in memory'.inside => stay'[h].from # 0
      <4>1. SUFFICES ASSUME breaker = "idle", present, t \in memory'.inside PROVE stay'[h].from # 0
        OBVIOUS
      <4>2. t \in TrackIds
        BY <4>1, <1>2, <1>3, <1>4, ShownIs, <1>1 DEF Staying, Memories
      <4>3. t = hand.shown[h].id /\ Current(h)
        BY <3>0, <4>1, <4>2, ActivitySizes DEF Current, TrackIds
      <4>4. hand.shown[h].at = "in"
        BY <1>3, <1>4, <1>5, <4>1, <4>3 DEF Staying
      <4>. QED
        BY <1>4, <4>3, <4>4, FactsIs
    <3>3. stay'[h].from # 0 => \E e \in Told(h)' : e.ts + Cooldown > stay'[h].from
      <4>1. SUFFICES ASSUME stay'[h].from # 0 PROVE \E e \in Told(h)' : e.ts + Cooldown > stay'[h].from
        OBVIOUS
      <4>2. Current(h) /\ hand.shown[h].at = "in" /\ stay'[h].from = IF stay[h].from = 0 THEN moment ELSE stay[h].from
        BY <4>1, FactsIs
      <4>3. CASE stay[h].from # 0
        BY <1>9, <3>0, <4>2, <4>3 DEF StayHolds
      <4>4. CASE stay[h].from = 0
        <5>1. breaker = "idle" /\ present /\ t = hand.shown[h].id /\ t # 0
          BY <1>1, <4>2, CurrentIs
        <5>2. t \notin memory.inside
          BY <1>9, <3>0, <4>4, <5>1 DEF StayHolds
        <5>3. t \in IdsAt("in") \ Staying(memory) /\ t \in TrackIds
          BY <1>4, <4>2, <5>1, <5>2 DEF Staying
        <5>4. CASE t \in raise
          <6>1. PICK e \in Told(h)' : e.ts = moment
            BY <1>8, <5>1, <5>4
          <6>. QED
            BY <6>1, <4>2, <4>4, <1>4, ActivitySizes
        <5>5. CASE t \notin raise
          <6>1. memory.last[t] # 0 /\ ~(moment - memory.last[t] >= Cooldown) /\ memory.last[t] \in Nat
            BY <5>3, <5>5, <1>2 DEF raise, Memories
          <6>2. PICK e \in Told(h) : e.ts = memory.last[t]
            BY <1>9, <3>0, <5>1, <6>1 DEF StayHolds
          <6>3. e.ts + Cooldown > moment
            BY <6>1, <6>2, <1>4, ActivitySizes
          <6>. QED
            BY <6>2, <6>3, <3>0, <4>2, <4>4
        <5>. QED
          BY <5>4, <5>5
      <4>. QED
        BY <4>3, <4>4
    <3>. QED
      BY <3>1, <3>2, <3>3, <1>1, <1>10 DEF StayHolds
  <2>2. ASSUME NEW h \in Things PROVE StayHolds(h)'
    BY <2>1, UnseenKept
  <2>. QED
    BY <2>2 DEF StayTrue
<1>13. HeldFits'
  BY NotHeld, NothingHeld
<1>14. EventsJustified'
  <2>1. ASSUME NEW h \in Shown, NEW e \in NewTells(out), NEW d \in LastBefore(e)', Clean(h), h \in e.who, h \in d.who PROVE Justified(d, e)
    <3>1. trackOf[h] = hand.shown[h].id /\ trackOf[h] # 0
      BY <1>1, <2>1, CleanIs
    <3>2. trackOf[h] \in raise /\ e.ts = moment /\ facts[h] \subseteq e.why /\ trackOf[h] \in TrackIds
      BY <1>3, <1>4, <1>6, <1>7, <2>1, <3>1, TellsIs
    <3>3. d \in Told(h) /\ d.ts \in Nat
      <4>1. d \in decided' /\ d.ts < e.ts
        BY DEF LastBefore, Before
      <4>2. d \in Told(h)' /\ d.ts < moment
        BY <2>1, <3>2, <4>1 DEF Told
      <4>3. d \notin NewTells(out)
        BY <1>4, <1>6, <4>2
      <4>. QED
        BY <1>4, <4>2, <4>3, TellsIs DEF Told
    <3>4. d.ts <= memory.last[trackOf[h]] /\ (trackOf[h] \in memory.inside \/ "outside" \in facts[h])
      BY <1>4, <1>9, <2>1, <3>3 DEF Linked
    <3>5. memory.last[trackOf[h]] \in Nat /\ 0 < d.ts
      BY <1>2, <3>2, <3>3 DEF Memories, ActInv, StoryFits, Told
    <3>6. memory.last[trackOf[h]] # 0
      BY <3>3, <3>4, <3>5
    <3>7. moment - memory.last[trackOf[h]] >= Cooldown
      BY <3>2, <3>6 DEF raise
    <3>8. e.ts - d.ts >= Cooldown
      BY <3>2, <3>3, <3>4, <3>5, <3>7, <1>4, ActivitySizes
    <3>9. trackOf[h] \in IdsAt("in") \ Staying(memory)
      BY <3>2 DEF raise
    <3>10. "outside" \in facts[h]
      BY <1>4, <1>5, <3>1, <3>4, <3>9 DEF Staying
    <3>. QED
      BY <3>2, <3>8, <3>10 DEF Justified
  <2>. QED
    BY <2>1, EventsFollow
<1>. QED
  BY <1>11, <1>12, <1>13, <1>14

\* stray_parking: once per track, when the stay has lasted.
LEMMA ParkingKeeps ==
  ASSUME ActInv, Kind = "parking", NEW out \in Parking(memory), Evaluated(out), hand.act = setup
  PROVE  StoryTrue' /\ StayTrue' /\ HeldFits' /\ EventsJustified'
<1> DEFINE came == [t \in TrackIds |-> IF t \in IdsAt("out") \ memory.reported THEN 0
                                       ELSE IF t \in IdsAt("in") \ memory.reported /\ memory.entered[t] = 0 THEN moment
                                       ELSE memory.entered[t]]
           raise == {t \in IdsAt("in") \ memory.reported : moment - came[t] >= Duration}
<1>1. Named /\ memory' = out.mem /\ trackOf' = trackOf /\ firstAt' = firstAt /\ moment' = moment /\ breaker' = breaker /\ present' = present
      /\ hand.pc = "evaluate"
  BY DEF Evaluated, Settles, Named, identityVars, configVars
<1>2. memory \in Memories /\ memory.touched \subseteq memory.across
  BY DEF ActInv, MemFits, Fits
<1>3. /\ memory'.reported = memory.reported \cup raise
      /\ \A t \in TrackIds : memory'.entered[t] = IF t \in raise THEN 0 ELSE came[t]
      /\ out.says = {Says(t, "parked") : t \in raise} /\ out.learn = NobodyLearns /\ raise \subseteq InView
  <2>1. /\ out.mem.reported = memory.reported \cup raise
        /\ \A t \in TrackIds : out.mem.entered[t] = IF t \in raise THEN 0 ELSE came[t]
        /\ out.says = {Says(t, "parked") : t \in raise} /\ out.learn = NobodyLearns /\ raise \subseteq InView
    BY <1>1, <1>2, ParkingIs, Zenon
  <2> HIDE DEF raise, came
  <2>. QED
    BY <1>1, <2>1
<1>4. /\ Shown \subseteq Things /\ InView \subseteq TrackIds /\ hand.ts = moment /\ moment \in Nat /\ moment > 0
      /\ \A h \in Shown : hand.shown[h].id \in InView
      /\ \A p : \A h \in Shown : (hand.shown[h].id \in IdsAt(p)) = (hand.shown[h].at = p)
      /\ \A e \in decided : e.ts \in Nat /\ e.ts < moment
  BY <1>1, ShownIs
<1>5. \A h \in Shown : hand.shown[h].at \in {"in", "out"} /\ trackOf[h] \in {0, hand.shown[h].id}
  BY <1>1 DEF ActInv, FrameFits
<1>6. \A t \in TrackIds : /\ came[t] \in Nat /\ memory.entered[t] \in Nat
                          /\ came[t] = IF t \in IdsAt("out") \ memory.reported THEN 0
                                       ELSE IF t \in IdsAt("in") \ memory.reported /\ memory.entered[t] = 0 THEN moment
                                       ELSE memory.entered[t]
                          /\ (t \in raise) = (t \in IdsAt("in") \ memory.reported /\ moment - came[t] >= Duration)
  BY <1>2, <1>4 DEF Memories
<1> HIDE DEF raise, came
<1>7. \A e \in NewTells(out) : e.ts = moment
  BY <1>3, <1>4 DEF NewTells, Says
<1>8. \A h \in Shown : (h \in About(out)) = (hand.shown[h].id \in raise)
  BY <1>1, <1>3, SaysAbout
<1>9. ASSUME NEW h \in Things PROVE Linked(h) /\ StayHolds(h) /\ trackOf[h] \in 0..MaxIssued /\ firstAt[h] <= moment /\ firstAt[h] \in Nat
                                    /\ stay[h].from \in Nat /\ stay[h].upto \in Nat /\ stay[h].from <= moment
  <2>1. trackOf[h] \in 0..issued /\ issued \in Nat /\ issued <= MaxIssued /\ firstAt[h] <= seenAt[h] /\ seenAt[h] <= moment
        /\ firstAt[h] \in Nat /\ seenAt[h] \in Nat
    BY DEF ActInv, ThingsTyped
  <2>2. trackOf[h] \in 0..MaxIssued /\ firstAt[h] <= moment
    BY <1>4, <2>1, ActivitySizes
  <2>3. /\ stay[h].from \in Nat /\ stay[h].upto \in Nat
        /\ stay[h].from # 0 => stay[h].from <= stay[h].upto /\ stay[h].upto <= moment
    BY DEF ActInv, StoryFits
  <2>4. stay[h].from <= moment
    BY <2>3, <1>4
  <2>. QED
    BY <2>1, <2>2, <2>3, <2>4 DEF ActInv, StoryTrue, StayTrue
<1>10. Kind' = Kind
  BY EvaluationKeeps
<1>11. StoryTrue'
  <2>1. ASSUME NEW h \in Shown, Clean(h)', Told(h)' # {} PROVE trackOf[h] # 0 /\ trackOf[h] \in memory'.reported
    <3>1. CASE h \in About(out)
      <4>1. Current(h)
        BY <1>4, <2>1, <3>1, FactsIs DEF Clean
      <4>2. trackOf[h] # 0 /\ trackOf[h] = hand.shown[h].id
        BY <1>1, <4>1, CurrentIs
      <4>. QED
        BY <1>3, <1>8, <3>1, <4>2
    <3>2. CASE h \notin About(out)
      <4>1. Clean(h) /\ Told(h)' = Told(h)
        BY <1>4, <2>1, <3>2, FactsIs, TellsIs
      <4>. QED
        BY <1>3, <1>4, <1>9, <2>1, <4>1 DEF Linked
    <3>. QED
      BY <3>1, <3>2
  <2>2. ASSUME NEW h \in Things PROVE Linked(h)'
    <3>1. CASE h \in Shown
      BY <2>1, <3>1, <1>1, <1>10 DEF Linked
    <3>2. CASE h \notin Shown
      BY <3>2, UnseenKept
    <3>. QED
      BY <3>1, <3>2
  <2>. QED
    BY <2>2, <1>10 DEF StoryTrue
<1>12. StayTrue'
  <2>1. ASSUME NEW h \in Shown PROVE StayHolds(h)'
    <3> DEFINE t == trackOf[h]
    <3>0. /\ h \in Things /\ Told(h) \subseteq Told(h)' /\ t \in {0, hand.shown[h].id} /\ 0 \notin TrackIds /\ 0 \notin memory.reported
          /\ hand.shown[h].id \in TrackIds
      <4>1. h \in Things /\ t \in {0, hand.shown[h].id} /\ hand.shown[h].id \in TrackIds
        BY <1>4, <1>5
      <4>2. 0 \notin TrackIds
        BY ActivitySizes DEF TrackIds
      <4>3. 0 \notin memory.reported
        BY <1>2, <4>2 DEF Memories
      <4>4. Told(h) \subseteq Told(h)'
        BY <4>1, TellsIs
      <4>. QED
        BY <4>1, <4>2, <4>3, <4>4
    <3>1. t # 0 => memory'.entered[t] <= moment
      <4>1. SUFFICES ASSUME t # 0 PROVE memory'.entered[t] <= moment
        OBVIOUS
      <4>2. t \in TrackIds /\ memory.entered[t] <= moment
        BY <1>9, <3>0, <4>1 DEF StayHolds
      <4>3. came[t] <= moment
        BY <1>4, <1>6, <4>2
      <4>. QED
        BY <1>3, <1>4, <4>2, <4>3
    <3>2. t \in memory'.reported => \E e \in Told(h)' : e.ts >= firstAt[h]
      <4>1. CASE t \in raise
        <5>1. t = hand.shown[h].id
          BY <1>3, <1>4, <3>0, <4>1
        <5>2. PICK e \in NewTells(out) : h \in e.who
          BY <1>8, <4>1, <5>1, AboutTold
        <5>. QED
          BY <5>2, <1>7, <1>9, <3>0, TellsIs
      <4>2. CASE t \notin raise
        BY <1>3, <1>9, <3>0, <4>2 DEF StayHolds
      <4>. QED
        BY <4>1, <4>2
    <3>3. stay'[h].from # 0 => /\ t = hand.shown[h].id /\ t # 0 /\ t \in IdsAt("in") /\ t \notin IdsAt("out")
                               /\ stay'[h].from = (IF stay[h].from = 0 THEN moment ELSE stay[h].from) /\ stay'[h].upto = moment
      <4>1. SUFFICES ASSUME stay'[h].from # 0
                     PROVE /\ t = hand.shown[h].id /\ t # 0 /\ t \in IdsAt("in") /\ t \notin IdsAt("out")
                           /\ stay'[h].from = (IF stay[h].from = 0 THEN moment ELSE stay[h].from) /\ stay'[h].upto = moment
        OBVIOUS
      <4>2. Current(h) /\ hand.shown[h].at = "in"
        BY <4>1, FactsIs
      <4>3. t = hand.shown[h].id /\ t # 0
        BY <1>1, <4>2, CurrentIs
      <4>4. "in" # "out"
        OBVIOUS
      <4>. QED
        BY <1>4, <4>2, <4>3, <4>4, FactsIs
    <3>4. stay'[h].from # 0 /\ t \notin memory'.reported => 0 < memory'.entered[t] /\ memory'.entered[t] <= stay'[h].from
      <4>1. SUFFICES ASSUME stay'[h].from # 0, t \notin memory'.reported PROVE 0 < memory'.entered[t] /\ memory'.entered[t] <= stay'[h].from
        OBVIOUS
      <4>2. t \in TrackIds /\ t \notin memory.reported /\ t \notin raise /\ t \in IdsAt("in") /\ t \notin IdsAt("out") /\ t # 0
        BY <1>3, <3>0, <3>3, <4>1
      <4>3. memory'.entered[t] = came[t] /\ came[t] = (IF memory.entered[t] = 0 THEN moment ELSE memory.entered[t])
        BY <1>3, <1>6, <4>2
      <4>4. CASE stay[h].from = 0
        BY <3>3, <4>1, <4>2, <4>3, <4>4, <1>4, <1>6, <1>9 DEF StayHolds
      <4>5. CASE stay[h].from # 0
        <5>1. 0 < memory.entered[t] /\ memory.entered[t] <= stay[h].from
          BY <1>9, <3>0, <4>2, <4>5 DEF StayHolds
        <5>. QED
          BY <5>1, <3>3, <4>1, <4>2, <4>3, <4>5, <1>6
      <4>. QED
        BY <4>4, <4>5
    <3>5. stay'[h].from # 0 /\ stay'[h].upto - stay'[h].from >= Duration => t \in memory'.reported
      <4>1. SUFFICES ASSUME stay'[h].from # 0, stay'[h].upto - stay'[h].from >= Duration, t \notin memory.reported PROVE t \in raise
        BY <1>3
      <4>2. t \in TrackIds /\ t \in IdsAt("in") /\ t \notin IdsAt("out")
        BY <3>0, <3>3, <4>1
      <4>3. stay[h].from # 0
        BY <3>3, <4>1, <1>4, ActivitySizes
      <4>4. 0 < memory.entered[t] /\ memory.entered[t] <= stay[h].from /\ memory.entered[t] \in Nat /\ stay[h].from \in Nat
        BY <1>6, <1>9, <3>0, <4>1, <4>2, <4>3 DEF StayHolds
      <4>5. came[t] = memory.entered[t] /\ moment - stay[h].from >= Duration
        BY <1>6, <3>3, <4>1, <4>2, <4>3, <4>4
      <4>6. moment - came[t] >= Duration
        BY <4>4, <4>5, <1>4, ActivitySizes
      <4>. QED
        BY <4>1, <4>2, <4>6, <1>6
    <3>. QED
      BY <3>1, <3>2, <3>4, <3>5, <1>1, <1>10 DEF StayHolds
  <2>2. ASSUME NEW h \in Things PROVE StayHolds(h)'
    BY <2>1, UnseenKept
  <2>. QED
    BY <2>2 DEF StayTrue
<1>13. HeldFits'
  BY NotHeld, NothingHeld
<1>14. EventsJustified'
  <2>1. ASSUME NEW h \in Shown, NEW e \in NewTells(out), NEW d \in LastBefore(e)', Clean(h), h \in e.who, h \in d.who PROVE Justified(d, e)
    <3>1. trackOf[h] = hand.shown[h].id /\ h \in About(out)
      BY <1>1, <2>1, CleanIs, TellsIs
    <3>2. trackOf[h] \in raise /\ trackOf[h] \in TrackIds
      BY <1>3, <1>4, <1>8, <3>1
    <3>3. d \in Told(h)
      <4>1. d \in decided' /\ d.ts < e.ts /\ e.ts = moment
        BY <1>7 DEF LastBefore, Before
      <4>2. d \in Told(h)'
        BY <2>1, <4>1 DEF Told
      <4>3. d \notin NewTells(out)
        BY <1>4, <1>7, <4>1
      <4>. QED
        BY <1>4, <4>2, <4>3, TellsIs
    <3>4. trackOf[h] \in memory.reported
      BY <1>4, <1>9, <2>1, <3>3 DEF Linked
    <3>. QED
      BY <3>2, <3>4, <1>6
  <2>. QED
    BY <2>1, EventsFollow
<1>. QED
  BY <1>11, <1>12, <1>13, <1>14

\* people_gathering: not again within the cooldown.
LEMMA GatheringKeeps ==
  ASSUME ActInv, Kind = "gathering", NEW out \in Gathering(memory), Evaluated(out), hand.act = setup
  PROVE  StoryTrue' /\ StayTrue' /\ HeldFits' /\ EventsJustified'
<1>1. Named /\ memory' = out.mem /\ trackOf' = trackOf /\ firstAt' = firstAt /\ moment' = moment /\ breaker' = breaker /\ present' = present
      /\ hand.pc = "evaluate" /\ overlooked' = overlooked \cup out.learn.overlooked
  BY DEF Evaluated, Settles, Named, identityVars, configVars
<1>2. memory \in Memories /\ memory.touched \subseteq memory.across
  BY DEF ActInv, MemFits, Fits
<1>3. /\ \/ out.says = {} /\ memory'.until = memory.until
         \/ moment >= memory.until /\ memory'.until = moment + Cooldown /\ \A v \in out.says : v.ts = moment
      /\ \A h \in Shown : hand.shown[h].id \in memory'.reported =>
           hand.shown[h].id \in memory.reported \/ h \in out.learn.overlooked \/ \E v \in out.says : h \in v.who
  BY <1>1, <1>2, GatheringIs
<1>4. /\ Shown \subseteq Things /\ InView \subseteq TrackIds /\ moment \in Nat /\ moment > 0 /\ memory.until \in Nat
      /\ \A h \in Shown : hand.shown[h].id \in InView
      /\ \A e \in decided : e.ts \in Nat /\ e.ts < moment
  BY <1>1, <1>2, ShownIs DEF Memories
<1>5. \A h \in Shown : trackOf[h] \in {0, hand.shown[h].id}
  BY <1>1 DEF ActInv, FrameFits
<1>6. NewTells(out) # {} => moment >= memory.until /\ memory'.until = moment + Cooldown /\ \A e \in NewTells(out) : e.ts = moment
  BY <1>3 DEF NewTells
<1>7. ASSUME NEW h \in Things PROVE Linked(h) /\ StayHolds(h)
  BY DEF ActInv, StoryTrue, StayTrue
<1>8. Kind' = Kind /\ MemFits'
  BY EvaluationKeeps
<1>9. StoryTrue'
  <2>1. ASSUME NEW h \in Things, Clean(h)', Told(h)' # {} PROVE trackOf[h] # 0 /\ \A d \in Told(h)' : d.ts + Cooldown <= memory'.until
    <3>1. CASE h \in About(out)
      <4>1. Current(h) /\ h \in Shown
        BY <2>1, <3>1, FactsIs, TellsIs DEF Clean
      <4>2. trackOf[h] # 0
        BY <1>1, <4>1, CurrentIs
      <4>3. NewTells(out) # {}
        BY <3>1, AboutTold
      <4>4. ASSUME NEW d \in Told(h)' PROVE d.ts + Cooldown <= memory'.until
        <5>1. d.ts \in Nat /\ d.ts <= moment
          BY <1>4, <1>6, TellsIs DEF Told
        <5>. QED
          BY <5>1, <4>3, <1>4, <1>6, ActivitySizes
      <4>. QED
        BY <4>2, <4>4
    <3>2. CASE h \notin About(out)
      <4>1. Clean(h) /\ Told(h)' = Told(h)
        BY <2>1, <3>2, FactsIs, TellsIs
      <4>2. trackOf[h] # 0 /\ \A d \in Told(h) : d.ts + Cooldown <= memory.until
        BY <1>7, <2>1, <4>1 DEF Linked
      <4>3. memory'.until \in Nat /\ memory'.until >= memory.until
        BY <1>3, <1>4, ActivitySizes
      <4>4. \A d \in Told(h) : d.ts \in Nat
        BY <1>4 DEF Told
      <4>5. ASSUME NEW d \in Told(h)' PROVE d.ts + Cooldown <= memory'.until
        <5>1. d.ts \in Nat /\ d.ts + Cooldown <= memory.until
          BY <4>1, <4>2, <4>4
        <5>. QED
          BY <5>1, <4>3, <1>4, ActivitySizes
      <4>. QED
        BY <4>2, <4>5
    <3>. QED
      BY <3>1, <3>2
  <2>2. \A h \in Things : Linked(h)'
    BY <2>1, <1>1, <1>8 DEF Linked
  <2>. QED
    BY <2>2, <1>8 DEF StoryTrue
<1>10. StayTrue'
  <2>1. ASSUME NEW h \in Shown, trackOf[h] \in memory'.reported PROVE Told(h)' # {} \/ h \in overlooked'
    <3>1. trackOf[h] = hand.shown[h].id
      <4>1. 0 \notin memory'.reported
        BY <1>8, ActivitySizes DEF MemFits, Fits, Memories, TrackIds
      <4>. QED
        BY <4>1, <1>5, <2>1
    <3>2. h \in Things /\ Told(h) \subseteq Told(h)'
      BY <1>4, TellsIs
    <3>3. CASE trackOf[h] \in memory.reported
      BY <1>1, <1>7, <3>2, <3>3 DEF StayHolds
    <3>4. CASE h \in out.learn.overlooked
      BY <1>1, <3>4
    <3>5. CASE h \in About(out)
      <4>1. PICK e \in NewTells(out) : h \in e.who
        BY <3>5, AboutTold
      <4>. QED
        BY <4>1, <3>2, TellsIs
    <3>. QED
      BY <1>3, <2>1, <3>1, <3>3, <3>4, <3>5 DEF About
  <2>2. ASSUME NEW h \in Things PROVE StayHolds(h)'
    <3>1. CASE h \in Shown
      BY <2>1, <3>1, <1>1, <1>8 DEF StayHolds
    <3>2. CASE h \notin Shown
      BY <3>2, UnseenKept
    <3>. QED
      BY <3>1, <3>2
  <2>. QED
    BY <2>2 DEF StayTrue
<1>11. HeldFits'
  BY NotHeld, NothingHeld
<1>12. EventsJustified'
  <2>1. ASSUME NEW h \in Shown, NEW e \in NewTells(out), NEW d \in LastBefore(e)', Clean(h), h \in e.who, h \in d.who PROVE Justified(d, e)
    <3>1. e.ts = moment /\ moment >= memory.until
      BY <1>6
    <3>2. d \in Told(h)
      <4>1. d \in decided' /\ d.ts < e.ts
        BY DEF LastBefore, Before
      <4>2. d \in Told(h)'
        BY <2>1, <4>1 DEF Told
      <4>3. d \notin NewTells(out)
        BY <1>4, <1>6, <3>1, <4>1
      <4>. QED
        BY <1>4, <4>2, <4>3, TellsIs
    <3>3. d.ts + Cooldown <= memory.until /\ d.ts \in Nat
      BY <1>4, <1>7, <2>1, <3>2 DEF Linked, Told
    <3>4. e.ts - d.ts >= Cooldown
      BY <3>1, <3>3, <1>4, ActivitySizes
    <3>. QED
      BY <3>4 DEF Justified
  <2>. QED
    BY <2>1, EventsFollow
<1>. QED
  BY <1>9, <1>10, <1>11, <1>12

\* entry_exit: to and fro through the gateway, and what is held is told once its track is sure.
LEMMA CrossingKeeps ==
  ASSUME ActInv, Kind = "crossing", NEW out \in Crossing(memory), Evaluated(out), hand.act = setup
  PROVE  StoryTrue' /\ StayTrue' /\ HeldFits' /\ EventsJustified'
<1>1. Named /\ memory' = out.mem /\ trackOf' = trackOf /\ firstAt' = firstAt /\ moment' = moment /\ hand.pc = "evaluate"
  BY DEF Evaluated, Settles, Named, identityVars
<1>2. PICK through \in SUBSET Changed(memory) :
        /\ \A t \in TrackIds : memory'.side[t] = SideAfter(memory, t)
        /\ memory'.pending = {p \in HeldWith(memory, through) : p.track \notin SureIds}
        /\ out.says = {[who |-> {ThingOf(p.track)}, says |-> p.says, ts |-> p.ts] : p \in Given(memory, through)}
        /\ out.learn.around = {ThingOf(t) : t \in (Changed(memory) \ through) \cup {p.track : p \in Back(memory, through)}}
  <2>1. \E through \in SUBSET Changed(memory) :
          /\ \A t \in TrackIds : out.mem.side[t] = SideAfter(memory, t)
          /\ out.mem.pending = {p \in HeldWith(memory, through) : p.track \notin SureIds}
          /\ out.says = {[who |-> {ThingOf(p.track)}, says |-> p.says, ts |-> p.ts] : p \in Given(memory, through)}
          /\ out.learn.overlooked = {}
          /\ out.learn.around = {ThingOf(t) : t \in (Changed(memory) \ through) \cup {p.track : p \in Back(memory, through)}}
    BY <1>1, CrossingIs
  <2>. QED
    BY <1>1, <2>1
<1> DEFINE all == HeldWith(memory, through)
           given == Given(memory, through)
<1>3. /\ Shown \subseteq Things /\ InView \subseteq TrackIds /\ hand.ts = moment /\ moment \in Nat /\ moment > 0
      /\ \A h \in Shown : ThingOf(hand.shown[h].id) = h /\ hand.shown[h].id \in InView
      /\ \A t \in InView : ThingOf(t) \in Shown /\ hand.shown[ThingOf(t)].id = t
      /\ \A p : IdsAt(p) \subseteq InView
      /\ \A h \in Shown : trackOf[h] \in {0, hand.shown[h].id}
      /\ \A e \in decided : e.ts \in Nat /\ e.ts < moment
  BY <1>1, ShownIs
<1>4. /\ memory.pending \subseteq HeldCrossings /\ Later(memory) /\ OneAtATime(memory)
      /\ \A p \in memory.pending : 0 < p.ts /\ p.ts < moment
  <2>1. memory \in Memories /\ Later(memory) /\ OneAtATime(memory) /\ Dated(memory)
    BY DEF ActInv, MemFits, HeldFits, Fits
  <2>. QED
    BY <1>1, <2>1 DEF Memories, Dated
<1>5. /\ SideIds \subseteq InView /\ (\A t \in SideIds : SideNow[t] \in Sides) /\ SureIds \subseteq InView
      /\ \A t \in Changed(memory) : t \in SideIds /\ memory.side[t] # "none" /\ memory.side[t] # SideNow[t]
      /\ \A t \in SideIds : memory.side[t] # "none" /\ memory.side[t] # SideNow[t] => t \in Changed(memory)
  BY <1>3 DEF SideIds, SideNow, SureIds, Changed
<1>6. \A h \in Shown : hand.shown[h].id \in SureIds => hand.shown[h].sure = TRUE
  <2>1. ASSUME NEW h \in Shown, hand.shown[h].id \in SureIds PROVE hand.shown[h].sure = TRUE
    <3>1. PICK g \in Shown : hand.shown[g].sure /\ hand.shown[g].id = hand.shown[h].id
      BY <2>1 DEF SureIds
    <3>2. g = h
      BY <1>3, <3>1
    <3>3. hand.shown[h].sure \in BOOLEAN
      BY <1>1, ShownIs
    <3>. QED
      BY <3>1, <3>2, <3>3
  <2>. QED
    BY <2>1
<1>7. /\ \A p \in all : /\ p \in HeldCrossings /\ 0 < p.ts /\ p.ts <= moment
                        /\ \/ p \in memory.pending /\ p.ts < moment
                           \/ p.ts = moment /\ p.track \in through /\ p.says = SideNow[p.track]
      /\ \A p, q \in all : p.track = q.track /\ p.ts = q.ts => p = q
      /\ memory.pending \subseteq all
      /\ \A t \in through : \E p \in all : p.track = t /\ p.ts = moment
  <2>1. ASSUME NEW p \in all
        PROVE /\ p \in HeldCrossings /\ 0 < p.ts /\ p.ts <= moment
              /\ \/ p \in memory.pending /\ p.ts < moment
                 \/ p = [track |-> p.track, says |-> SideNow[p.track], ts |-> moment] /\ p.track \in through
    <3>1. CASE p \in memory.pending
      BY <1>3, <1>4, <3>1 DEF HeldCrossings
    <3>2. ASSUME NEW t \in through, p = [track |-> t, says |-> SideNow[t], ts |-> hand.ts]
          PROVE  p \in HeldCrossings /\ p = [track |-> p.track, says |-> SideNow[p.track], ts |-> moment] /\ p.track \in through /\ p.ts = moment
      BY <1>3, <1>5, <3>2 DEF HeldCrossings
    <3>. QED
      BY <1>3, <3>1, <3>2 DEF HeldWith
  <2>2. memory.pending \subseteq all
    BY DEF HeldWith
  <2>3. ASSUME NEW t \in through PROVE \E p \in all : p.track = t /\ p.ts = moment
    <3>1. [track |-> t, says |-> SideNow[t], ts |-> hand.ts] \in all
      BY DEF HeldWith
    <3>. QED
      BY <1>3, <3>1
  <2> HIDE DEF all
  <2>4. ASSUME NEW p \in all, NEW q \in all, p.track = q.track, p.ts = q.ts PROVE p = q
    <3>1. CASE p.ts = moment
      <4>1. p \notin memory.pending /\ q \notin memory.pending
        <5>1. moment \in Nat /\ \A r \in memory.pending : r.ts < moment
          BY <1>3, <1>4
        <5>2. \A r \in memory.pending : r.ts # moment
          BY <5>1
        <5>. QED
          BY <2>4, <3>1, <5>2, Zenon
      <4>2. /\ p = [track |-> p.track, says |-> SideNow[p.track], ts |-> moment]
            /\ q = [track |-> q.track, says |-> SideNow[q.track], ts |-> moment]
        BY <2>1, <4>1
      <4>. QED
        BY <2>4, <4>2
    <3>2. CASE p.ts # moment
      BY <2>1, <2>4, <3>2, <1>4 DEF OneAtATime
    <3>. QED
      BY <3>1, <3>2
  <2>5. \A p \in all : \/ p \in memory.pending /\ p.ts < moment
                       \/ p.ts = moment /\ p.track \in through /\ p.says = SideNow[p.track]
    <3>1. ASSUME NEW p \in all, p = [track |-> p.track, says |-> SideNow[p.track], ts |-> moment]
          PROVE  p.ts = moment /\ p.says = SideNow[p.track]
      BY <3>1
    <3>2. \A p \in all : p \in memory.pending => p.ts < moment
      BY <1>4
    <3>3. ASSUME NEW p \in all 
          PROVE (p \in memory.pending /\ p.ts < moment) \/ (p.ts = moment /\ p.track \in through /\ p.says = SideNow[p.track])
      <4>1. \/ p \in memory.pending
            \/ p = [track |-> p.track, says |-> SideNow[p.track], ts |-> moment] /\ p.track \in through
        BY <2>1
      <4>. QED
        BY <4>1, <3>1, <3>2, Zenon
    <3>. QED
      BY <3>3
  <2>. QED
    BY <2>1, <2>2, <2>3, <2>4, <2>5
<1>8. /\ given = {p \in all : p.track \in SureIds} /\ memory'.pending = {p \in all : p.track \notin SureIds}
  BY <1>2 DEF Given
<1> HIDE DEF all, given
<1>9. /\ \A h \in Shown : \A e \in NewTells(out) : h \in e.who =>
           \E p \in given : p.track = hand.shown[h].id /\ p.says = e.says /\ p.ts = e.ts
      /\ \A h \in Shown : \A p \in given : p.track = hand.shown[h].id =>
           \E e \in NewTells(out) : h \in e.who /\ e.says = p.says /\ e.ts = p.ts
  <2>1. ASSUME NEW h \in Shown, NEW e \in NewTells(out), h \in e.who
        PROVE  \E p \in given : p.track = hand.shown[h].id /\ p.says = e.says /\ p.ts = e.ts
    <3>1. PICK v \in out.says : e.who = v.who /\ e.says = v.says /\ e.ts = v.ts
      BY DEF NewTells
    <3>2. PICK p \in given : v = [who |-> {ThingOf(p.track)}, says |-> p.says, ts |-> p.ts]
      BY <1>2 DEF given
    <3>3. h = ThingOf(p.track) /\ p.track \in InView
      BY <2>1, <3>1, <3>2, <1>5, <1>8
    <3>. QED
      BY <3>1, <3>2, <3>3, <1>3
  <2>2. ASSUME NEW h \in Shown, NEW p \in given, p.track = hand.shown[h].id
        PROVE  \E e \in NewTells(out) : h \in e.who /\ e.says = p.says /\ e.ts = p.ts
    <3> DEFINE v == [who |-> {ThingOf(p.track)}, says |-> p.says, ts |-> p.ts]
               e == [who |-> v.who, says |-> v.says, ts |-> v.ts, why |-> UNION {facts[g] : g \in v.who}]
    <3>1. v \in out.says
      BY <1>2 DEF given
    <3>2. e \in NewTells(out)
      BY <3>1 DEF NewTells
    <3>3. h \in e.who /\ e.says = p.says /\ e.ts = p.ts
      BY <2>2, <1>3
    <3>. QED
      BY <3>2, <3>3
  <2>. QED
    BY <2>1, <2>2
<1>10. \A h \in Shown : h \in About(out) => hand.shown[h].id \in SureIds
  <2>1. ASSUME NEW h \in Shown, h \in About(out) PROVE hand.shown[h].id \in SureIds
    <3>1. PICK e \in NewTells(out) : h \in e.who
      BY <2>1, AboutTold
    <3>. QED
      BY <3>1, <1>8, <1>9
  <2>. QED
    BY <2>1
<1>11. \A h \in Shown : h \notin out.learn.around =>
         /\ hand.shown[h].id \notin Changed(memory) \ through
         /\ \A p \in given : p.track = hand.shown[h].id /\ (\A q \in given : q.track = p.track => q.ts <= p.ts) =>
              p.says = SideAfter(memory, p.track)
  <2>1. ASSUME NEW h \in Shown, hand.shown[h].id \in (Changed(memory) \ through) \cup {p.track : p \in Back(memory, through)}
        PROVE  h \in out.learn.around
    <3>1. ThingOf(hand.shown[h].id) \in {ThingOf(t) : t \in (Changed(memory) \ through) \cup {p.track : p \in Back(memory, through)}}
      BY <2>1
    <3>. QED
      BY <3>1, <1>2, <1>3
  <2>2. ASSUME NEW p \in given, \A q \in given : q.track = p.track => q.ts <= p.ts, p.says # SideAfter(memory, p.track)
        PROVE  p \in Back(memory, through)
    BY <2>2 DEF Back, given
  <2>. QED
    BY <2>1, <2>2
<1>12. ASSUME NEW h \in Things PROVE Linked(h) /\ ToAndFro(h)
  BY DEF ActInv, StoryTrue
<1>13. Kind' = Kind /\ ~Named' /\ hand'.old = Blank
  BY EvaluationKeeps
<1>14. SideIds \subseteq TrackIds /\ \A t \in TrackIds : memory'.side[t] = IF t \in SideIds THEN SideNow[t] ELSE memory.side[t]
  BY <1>2, <1>3, <1>5 DEF SideAfter
<1>15. ASSUME NEW h \in Shown, trackOf[h] # 0 PROVE h \in Things /\ trackOf[h] = hand.shown[h].id /\ trackOf[h] \in TrackIds
  BY <1>3, <1>15
<1>16. ASSUME NEW h \in Shown, h \notin About(out)
       PROVE  \A p \in given : p.track # hand.shown[h].id
  <2>1. ASSUME NEW p \in given, p.track = hand.shown[h].id PROVE FALSE
    <3>1. PICK e \in NewTells(out) : h \in e.who
      BY <2>1, <1>9
    <3>. QED
      BY <3>1, <1>16, TellsIs
  <2>. QED
    BY <2>1
<1>17. HeldFits'
  <2>1. Later(memory)'
    <3>1. ASSUME NEW p \in memory'.pending, NEW h \in Things, p.track = trackOf[h], NEW d \in Told(h)' PROVE d.ts < p.ts
      <4>1. p \in all /\ p.track \notin SureIds /\ p.track \in TrackIds
        BY <1>7, <1>8 DEF HeldCrossings
      <4>2. CASE d \in Told(h)
        <5>1. trackOf[h] \in IdIn(h)
          BY DEF IdIn
        <5>2. p \in memory.pending => d.ts < p.ts
          BY <1>4, <3>1, <4>2, <5>1 DEF Later
        <5>3. d.ts < moment
          BY <1>3, <4>2 DEF Told
        <5>. QED
          BY <1>7, <4>1, <5>2, <5>3
      <4>3. CASE d \notin Told(h)
        <5>1. d \in NewTells(out) /\ h \in d.who /\ h \in Shown
          BY <4>3, TellsIs
        <5>2. hand.shown[h].id \in SureIds
          BY <5>1, <1>8, <1>9
        <5>3. trackOf[h] # 0
          BY <3>1, <4>1, ActivitySizes DEF TrackIds
        <5>. QED
          BY <1>15, <3>1, <4>1, <5>1, <5>2, <5>3
      <4>. QED
        BY <4>2, <4>3
    <3>2. \A h \in Things : IdIn(h)' = {trackOf[h]}
      BY <1>1, <1>13 DEF IdIn
    <3>. QED
      BY <3>1, <3>2 DEF Later
  <2>2. Dated(memory)'
    BY <1>1, <1>7, <1>8, <1>13 DEF Dated
  <2>3. OneAtATime(memory)'
    BY <1>7, <1>8 DEF OneAtATime
  <2>4. Later(hand.old)' /\ Dated(hand.old)' /\ OneAtATime(hand.old)'
    BY <1>13, BlankFits DEF Later, Dated, OneAtATime
  <2>. QED
    BY <2>1, <2>2, <2>3, <2>4 DEF HeldFits
<1>18. ASSUME NEW h \in Shown PROVE ToAndFro(h)'
  <2> DEFINE t == trackOf[h]
             new == {p \in memory'.pending : p.track = t}
  <2>1. SUFFICES ASSUME "around" \notin facts'[h], t # 0
                 PROVE  /\ \A p \in new : (\A q \in new : q.ts <= p.ts) => p.says = memory'.side[t]
                        /\ \A p, q \in new : p.ts < q.ts /\ (\A r \in new : ~(p.ts < r.ts /\ r.ts < q.ts)) => p.says # q.says
    BY <1>1 DEF ToAndFro, Held
  <2>2. h \in Things /\ t = hand.shown[h].id /\ t \in TrackIds
    BY <1>15, <2>1
  <2>3. CASE t \in SureIds
    BY <1>8, <2>3
  <2>4. CASE t \notin SureIds
    <3>1. h \notin About(out)
      BY <1>10, <2>2, <2>4
    <3>2. "around" \notin facts[h] /\ h \notin out.learn.around
      BY <2>1, <2>2, <3>1, FactsIs
    <3>3. /\ \A p \in Held(t) : (\A q \in Held(t) : q.ts <= p.ts) => p.says = memory.side[t]
          /\ \A p, q \in Held(t) : p.ts < q.ts /\ (\A r \in Held(t) : ~(p.ts < r.ts /\ r.ts < q.ts)) => p.says # q.says
      BY <1>12, <2>1, <2>2, <3>2 DEF ToAndFro
    <3>4. t \notin Changed(memory) \ through
      BY <1>11, <2>2, <3>2
    <3>5. new = {p \in all : p.track = t} /\ Held(t) = {p \in memory.pending : p.track = t} /\ Held(t) \subseteq new
      BY <1>7, <1>8, <2>4 DEF Held
    <3>6. \A p \in new : p.ts \in Nat /\ p.ts <= moment /\ (p \notin Held(t) => p.ts = moment /\ t \in through /\ p.says = SideNow[t])
      BY <1>7, <3>5 DEF HeldCrossings
    <3>7. \A p \in Held(t) : p.ts < moment /\ p.ts \in Nat /\ p.says \in Sides
      BY <1>4, <3>5 DEF HeldCrossings
    <3> HIDE DEF new
    <3>8. CASE t \in through
      <4>1. t \in SideIds /\ memory.side[t] # SideNow[t] /\ memory'.side[t] = SideNow[t]
        BY <1>5, <1>14, <2>2, <3>8
      <4>2. PICK n \in new : n.ts = moment
        BY <1>7, <3>5, <3>8
      <4>3. \A p \in new : (\A q \in new : q.ts <= p.ts) => p.says = memory'.side[t]
        BY <1>3, <3>6, <3>7, <4>1, <4>2
      <4>4. ASSUME NEW p \in new, NEW q \in new, p.ts < q.ts, \A r \in new : ~(p.ts < r.ts /\ r.ts < q.ts) PROVE p.says # q.says
        <5>1. p \in Held(t)
          BY <1>3, <3>6, <4>4
        <5>2. CASE q \in Held(t)
          BY <3>3, <3>5, <4>4, <5>1, <5>2
        <5>3. CASE q \notin Held(t)
          <6>1. q.ts = moment /\ q.says = SideNow[t]
            BY <3>6, <5>3
          <6>2. \A r \in Held(t) : r.ts <= p.ts
            BY <3>5, <3>7, <4>4, <5>1, <6>1
          <6>. QED
            BY <3>3, <4>1, <5>1, <6>1, <6>2
        <5>. QED
          BY <5>2, <5>3
      <4>. QED
        BY <4>3, <4>4
    <3>9. CASE t \notin through
      <4>1. new = Held(t) /\ t \notin Changed(memory)
        BY <3>4, <3>5, <3>6, <3>9
      <4>2. ASSUME NEW p \in Held(t), \A q \in Held(t) : q.ts <= p.ts PROVE p.says = memory'.side[t]
        <5>1. p.says = memory.side[t] /\ memory.side[t] # "none"
          BY <3>3, <3>7, <4>2 DEF Sides
        <5>2. memory'.side[t] = memory.side[t]
          BY <1>5, <1>14, <2>2, <4>1, <5>1
        <5>. QED
          BY <5>1, <5>2
      <4>. QED
        BY <3>3, <4>1, <4>2
    <3>. QED
      BY <3>8, <3>9
  <2>. QED
    BY <2>3, <2>4
<1>19. ASSUME NEW h \in Shown PROVE Linked(h)'
  <2> DEFINE t == trackOf[h]
  <2>1. SUFFICES ASSUME Clean(h)', Told(h)' # {}
                 PROVE  /\ t # 0 /\ moment - firstAt[h] >= ConfirmAfter /\ {p \in memory'.pending : p.track = t} = {}
                        /\ "around" \notin facts'[h] => \A d \in LatestTold(h)' : d.says = memory'.side[t]
    BY <1>1, <1>13 DEF Linked, Held
  <2>2. h \in Things
    BY <1>3
  <2>3. ASSUME t # 0, t \in SureIds
        PROVE  moment - firstAt[h] >= ConfirmAfter /\ {p \in memory'.pending : p.track = t} = {}
    <3>1. hand.shown[h].sure = TRUE
      BY <1>6, <1>15, <2>3
    <3>2. hand.shown[h].sure = (moment - firstAt[h] >= ConfirmAfter)
      BY <1>1, <2>3 DEF ActInv, FrameFits
    <3>. QED
      BY <1>8, <2>3, <3>1, <3>2
  <2>4. CASE h \in About(out)
    <3>1. Current(h)
      BY <2>1, <2>2, <2>4, FactsIs DEF Clean
    <3>2. t # 0 /\ t = hand.shown[h].id /\ t \in SureIds /\ t \in TrackIds
      BY <1>1, <1>10, <1>15, <2>4, <3>1, CurrentIs
    <3>3. ASSUME "around" \notin facts'[h], NEW d \in LatestTold(h)' PROVE d.says = memory'.side[t]
      <4>1. h \notin out.learn.around
        BY <2>2, <3>3, FactsIs
      <4>2. PICK e \in NewTells(out) : h \in e.who
        BY <2>4, AboutTold
      <4>3. d \in Told(h)' /\ \A c \in Told(h)' : c.ts <= d.ts
        BY DEF LatestTold
      <4>4. \A c \in NewTells(out) : h \in c.who => c \in Told(h)'
        BY <2>2, TellsIs
      <4>5. d \in NewTells(out) /\ h \in d.who
        <5>1. CASE d \in Told(h)
          <6>1. d.ts < e.ts /\ e.ts <= d.ts
            BY <4>2, <4>3, <4>4, <5>1, TellsIs
          <6>2. d.ts \in Nat /\ e.ts \in Nat
            BY <1>3, <5>1, TellsIs DEF Told
          <6>. QED
            BY <6>1, <6>2
        <5>2. CASE d \notin Told(h)
          BY <2>2, <4>3, <5>2, TellsIs
        <5>. QED
          BY <5>1, <5>2
      <4>6. PICK p \in given : p.track = t /\ p.says = d.says /\ p.ts = d.ts
        BY <1>9, <3>2, <4>5
      <4>7. \A q \in given : q.track = p.track => q.ts <= p.ts
        BY <1>9, <3>2, <4>3, <4>4, <4>6
      <4>8. p.says = SideAfter(memory, t)
        BY <1>11, <3>2, <4>1, <4>6, <4>7
      <4>. QED
        BY <1>2, <3>2, <4>6, <4>8
    <3>. QED
      BY <2>3, <3>2, <3>3
  <2>5. CASE h \notin About(out)
    <3>1. Clean(h) /\ Told(h)' = Told(h)
      BY <2>1, <2>2, <2>5, FactsIs, TellsIs
    <3>2. /\ t # 0 /\ moment - firstAt[h] >= ConfirmAfter /\ Held(t) = {}
          /\ "around" \notin facts[h] => \A d \in LatestTold(h) : d.says = memory.side[t]
      BY <1>12, <2>1, <2>2, <3>1 DEF Linked
    <3>3. t = hand.shown[h].id /\ t \in TrackIds
      BY <1>15, <3>2
    <3>4. t \in SureIds
      <4>1. hand.shown[h].sure = (moment - firstAt[h] >= ConfirmAfter)
        BY <1>1, <3>2 DEF ActInv, FrameFits
      <4>2. hand.shown[h].sure
        BY <3>2, <4>1
      <4>. QED
        BY <3>3, <4>2 DEF SureIds
    <3>5. t \notin through
      BY <1>7, <1>8, <1>16, <2>5, <3>3, <3>4
    <3>6. ASSUME "around" \notin facts'[h], NEW d \in LatestTold(h)' PROVE d.says = memory'.side[t]
      <4>1. "around" \notin facts[h] /\ h \notin out.learn.around
        BY <2>2, <2>5, <3>6, FactsIs
      <4>2. t \notin Changed(memory)
        BY <1>11, <3>3, <3>5, <4>1
      <4>3. d \in LatestTold(h) /\ d \in decided
        BY <3>1 DEF LatestTold, Told
      <4>4. d.says = memory.side[t]
        BY <3>2, <4>1, <4>3
      <4>5. decided \subseteq Tells
        BY DEF ActInv, StoryFits
      <4>6. d.says # "none"
        BY <4>3, <4>5 DEF Tells, Sides
      <4>7. memory'.side[t] = memory.side[t]
        BY <1>5, <1>14, <3>3, <4>2, <4>4, <4>6
      <4>. QED
        BY <4>4, <4>7
    <3>. QED
      BY <2>3, <3>2, <3>4, <3>6
  <2>. QED
    BY <2>4, <2>5
<1>20. StoryTrue'
  <2>1. ASSUME NEW h \in Things PROVE Linked(h)' /\ ToAndFro(h)'
    <3>1. CASE h \in Shown
      BY <1>18, <1>19, <3>1
    <3>2. CASE h \notin Shown
      BY <3>2, UnseenKept
    <3>. QED
      BY <3>1, <3>2
  <2>. QED
    BY <2>1 DEF StoryTrue
<1>21. StayTrue'
  BY <1>13 DEF StayTrue, StayHolds
<1>22. EventsJustified'
  <2>1. ASSUME NEW h \in Shown, NEW e \in NewTells(out), NEW d \in LastBefore(e)', Clean(h), h \in e.who, h \in d.who PROVE Justified(d, e)
    <3> DEFINE t == trackOf[h]
    <3>0. SUFFICES ASSUME "around" \notin e.why PROVE d.says # e.says
      BY DEF Justified
    <3>1. h \in Things /\ "around" \notin facts[h]
      BY <1>3, <2>1, <3>0, TellsIs
    <3>2. t # 0 /\ t = hand.shown[h].id /\ t \in TrackIds
      BY <1>1, <1>15, <2>1, CleanIs
    <3>3. PICK p \in given : p.track = t /\ p.says = e.says /\ p.ts = e.ts
      BY <1>9, <2>1, <3>2
    <3>4. /\ d \in decided' /\ d.ts < e.ts
          /\ \A c \in decided' : c.ts < e.ts /\ h \in c.who => c.ts <= d.ts
      BY <2>1 DEF LastBefore, Before
    <3>5. /\ \A q, r \in Held(t) : q.ts < r.ts /\ (\A s \in Held(t) : ~(q.ts < s.ts /\ s.ts < r.ts)) => q.says # r.says
          /\ \A q \in Held(t) : (\A r \in Held(t) : r.ts <= q.ts) => q.says = memory.side[t]
      BY <1>12, <3>1, <3>2 DEF ToAndFro
    <3>6. decided' = decided \cup NewTells(out) /\ decided \subseteq decided' /\ NewTells(out) \subseteq decided'
      BY DEF Evaluated, Settles
    <3>7. p \in all /\ p.ts \in Nat /\ p.ts <= moment /\ t \in SureIds
      BY <1>7, <1>8, <3>3 DEF HeldCrossings
    <3>8. \A q \in Held(t) : q \in memory.pending /\ q.track = t /\ q \in given /\ q.ts < moment /\ q.ts \in Nat
      BY <1>4, <1>7, <1>8, <3>7 DEF Held, HeldCrossings
    <3>9. CASE d \in NewTells(out)
      <4>1. PICK q \in given : q.track = t /\ q.says = d.says /\ q.ts = d.ts
        BY <1>9, <2>1, <3>2, <3>9
      <4>2. \A r \in given : r.track = t /\ r.ts < p.ts => r.ts <= q.ts
        BY <1>9, <3>2, <3>3, <3>4, <3>6, <4>1
      <4>3. q \in Held(t)
        BY <1>3, <1>7, <1>8, <3>3, <3>4, <3>7, <4>1 DEF Held
      <4>4. CASE p \in memory.pending
        <5>1. p \in Held(t)
          BY <3>3, <4>4 DEF Held
        <5>2. \A s \in Held(t) : ~(q.ts < s.ts /\ s.ts < p.ts)
          BY <3>8, <4>2, <4>3
        <5>. QED
          BY <3>3, <3>4, <3>5, <4>1, <4>3, <5>1, <5>2
      <4>5. CASE p \notin memory.pending
        <5>1. p.ts = moment /\ t \in through /\ p.says = SideNow[t]
          BY <1>7, <3>3, <3>7, <4>5
        <5>2. \A r \in Held(t) : r.ts <= q.ts
          BY <3>8, <4>2, <5>1
        <5>3. q.says = memory.side[t]
          BY <3>5, <4>3, <5>2
        <5>. QED
          BY <1>5, <3>3, <4>1, <5>1, <5>3
      <4>. QED
        BY <4>4, <4>5
    <3>10. CASE d \notin NewTells(out)
      <4>1. d \in Told(h)
        BY <2>1, <3>4, <3>6, <3>10 DEF Told
      <4>2. Held(t) = {} /\ \A c \in LatestTold(h) : c.says = memory.side[t]
        BY <1>12, <1>13, <2>1, <3>1, <4>1 DEF Linked
      <4>3. \A c \in Told(h) : c \in decided' /\ h \in c.who /\ c.ts < e.ts
        BY <2>1, <3>6, TellsIs DEF Told
      <4>4. d \in LatestTold(h)
        BY <3>4, <4>1, <4>3 DEF LatestTold
      <4>5. p \notin memory.pending
        BY <3>3, <4>2 DEF Held
      <4>6. t \in through /\ p.says = SideNow[t]
        BY <1>7, <3>3, <3>7, <4>5
      <4>. QED
        BY <1>5, <3>3, <4>2, <4>4, <4>6
    <3>. QED
      BY <3>9, <3>10
  <2>. QED
    BY <2>1, EventsFollow
<1>. QED
  BY <1>17, <1>20, <1>21, <1>22

LEMMA SpokenOf ==
  ASSUME ActInv, Named, NEW m \in {memory, hand.old}, NEW out \in Outcomes(m)
  PROVE  Spoken(out) /\ Written(m, out)
<1>1. m \in Memories /\ m.touched \subseteq m.across
  BY DEF ActInv, MemFits, HandFits, Fits
<1>2. Kind \in ActivityKinds
  BY DEF ActInv, BudgetFits
<1>3. CASE Kind = "entry"
  <2>1. out \in Entering(m)
    BY <1>3 DEF Outcomes
  <2>. QED
    BY <1>1, <1>3, <2>1, EnteringIs
<1>4. CASE Kind = "parking"
  <2>1. out \in Parking(m)
    BY <1>4 DEF Outcomes
  <2>. QED
    BY <1>1, <1>4, <2>1, ParkingIs
<1>5. CASE Kind = "crossing"
  <2>1. out \in Crossing(m)
    BY <1>5 DEF Outcomes
  <2>. QED
    BY <1>5, <2>1, CrossingIs
<1>6. CASE Kind = "gathering"
  <2>1. out \in Gathering(m)
    BY <1>6 DEF Outcomes
  <2>. QED
    BY <1>1, <1>6, <2>1, GatheringIs
<1>. QED
  BY <1>2, <1>3, <1>4, <1>5, <1>6 DEF ActivityKinds

LEMMA EvaluateKeeps == ASSUME ActInv, Evaluate PROVE ActInv'
<1>0. hand.pc = "evaluate" /\ hand' = Resting /\ UNCHANGED <<identityVars, retired, configVars>>
  BY DEF Evaluate
<1>1. Named
  BY <1>0 DEF Named
<1>2. CASE ~hand.on
  <2>1. UNCHANGED <<identityVars, retired, setup, present, breaker, memory, storyVars>> /\ activityBudget' = activityBudget
    BY <1>0, <1>2 DEF Evaluate, configVars
  <2>2. BudgetFits' /\ Kind' = Kind
    BY <2>1 DEF ActInv, BudgetFits, Kind, Actors
  <2>. QED
    BY <1>0, <2>1, <2>2, Rests
<1>3. CASE hand.on
  <2>1. PICK out \in Outcomes(IF hand.act = setup THEN memory ELSE hand.old) : Settles(out)
    BY <1>3 DEF Evaluate, Settles, About, NewTells
  <2>2. Evaluated(out)
    <3>1. CASE hand.act = setup
      BY <1>0, <1>1, <2>1, <3>1, SpokenOf DEF Evaluated
    <3>2. CASE hand.act # setup
      BY <1>0, <1>1, <2>1, <3>2, SpokenOf DEF Evaluated
    <3>. QED
      BY <3>1, <3>2
  <2>3. StoryTrue' /\ StayTrue' /\ HeldFits' /\ EventsJustified'
    <3>1. CASE hand.act # setup
      BY <2>2, <3>1, ReplacedKeeps
    <3>2. CASE hand.act = setup
      <4>1. out \in Outcomes(memory) /\ Kind \in ActivityKinds
        BY <2>1, <3>2 DEF ActInv, BudgetFits
      <4>2. CASE Kind = "entry"
        <5>1. out \in Entering(memory)
          BY <4>1, <4>2 DEF Outcomes
        <5>. QED
          BY <2>2, <3>2, <4>2, <5>1, EntryKeeps
      <4>3. CASE Kind = "parking"
        <5>1. out \in Parking(memory)
          BY <4>1, <4>3 DEF Outcomes
        <5>. QED
          BY <2>2, <3>2, <4>3, <5>1, ParkingKeeps
      <4>4. CASE Kind = "crossing"
        <5>1. out \in Crossing(memory)
          BY <4>1, <4>4 DEF Outcomes
        <5>. QED
          BY <2>2, <3>2, <4>4, <5>1, CrossingKeeps
      <4>5. CASE Kind = "gathering"
        <5>1. out \in Gathering(memory)
          BY <4>1, <4>5 DEF Outcomes
        <5>. QED
          BY <2>2, <3>2, <4>5, <5>1, GatheringKeeps
      <4>. QED
        BY <4>1, <4>2, <4>3, <4>4, <4>5 DEF ActivityKinds
    <3>. QED
      BY <3>1, <3>2
  <2>. QED
    BY <2>2, <2>3, EvaluationKeeps DEF ActInv
<1>. QED
  BY <1>2, <1>3

LEMMA ActivitySteps == ASSUME ActInv, ActivityNext PROVE ActInv'
<1>1. CASE TakeLook
  <2>1. UseActivity("look") /\ hand' = [Resting EXCEPT !.pc = "took"] /\ UNCHANGED <<identityVars, retired, setup, present, breaker, memory, storyVars>>
    BY <1>1 DEF TakeLook
  <2>2. BudgetFits' /\ Kind' = Kind
    BY <2>1, BudgetUsed DEF ActInv
  <2>. QED
    BY <2>1, <2>2, Rests
<1>2. CASE Configure(TRUE)
  <2>1. UseActivity("push") /\ UNCHANGED <<identityVars, retired, setup, present, breaker, memory, hand, storyVars>>
    BY <1>2 DEF Configure, Configures, storyVars
  <2>2. BudgetFits' /\ Kind' = Kind
    BY <2>1, BudgetUsed DEF ActInv
  <2>. QED
    BY <2>1, <2>2, StaysSo
<1>3. CASE NameThings \/ Observe \/ Evaluate
  BY <1>3, NamesHolds, Observes, EvaluateKeeps
<1>4. CASE Configure(FALSE)
  BY <1>4, EditsActivities, Zenon
<1>6. CASE RemoveActivities
  BY <1>6, RemovesActivities
<1>5. CASE BreakStream \/ RetireBroken \/ ResetActivities
  BY <1>5, BreaksStream, ForgetsBroken, ResetsActivities
<1>. QED
  BY <1>1, <1>2, <1>3, <1>4, <1>5, <1>6, Zenon DEF ActivityNext

LEMMA ActivityRests == ASSUME ActInv, UNCHANGED activityVars PROVE ActInv'
<1>1. UNCHANGED <<identityVars, retired, setup, present, breaker, memory, hand, storyVars>> /\ activityBudget' = activityBudget
  BY DEF activityVars, configVars
<1>2. BudgetFits' /\ Kind' = Kind
  BY <1>1 DEF ActInv, BudgetFits, Kind, Actors
<1>. QED
  BY <1>1, <1>2, StaysSo

\* What the invariant says of the activity.
LEMMA ActivityHolds == ASSUME ActInv PROVE ActivityTypeOK /\ EventsJustified /\ StaysReported /\ MemoryReleased
<1>1. ActivityTypeOK
  <2>1. /\ trackOf \in [Things -> 0 .. issued] /\ issued <= MaxIssued /\ retired \cup mislaid \subseteq 1 .. issued
        /\ breaker \in {"idle", "tracks", "retired"} /\ present \in BOOLEAN /\ setup \in Nat
        /\ \A h \in Things : seenAt[h] <= moment /\ firstAt[h] <= seenAt[h]
    BY DEF ActInv, ThingsTyped
  <2>2. /\ memory.inside \cup memory.reported \cup memory.across \cup memory.touched \subseteq 1 .. issued
        /\ memory.touched \subseteq memory.across /\ {p.track : p \in memory.pending} \subseteq 1 .. issued
    BY DEF ActInv, MemFits, Fits, Keeps
  <2>3. hand.pc \in {"idle", "took", "look", "evaluate"}
    BY DEF ActInv, HandFits, Hands
  <2>. QED
    BY <2>1, <2>2, <2>3 DEF ActivityTypeOK
<1>2. StaysReported
  <2>1. ASSUME NEW h \in Actors, stay[h].from # 0
        PROVE  /\ Kind = "entry" => \E e \in Told(h) : e.ts + Cooldown > stay[h].from
               /\ Kind = "parking" /\ stay[h].upto - stay[h].from >= Duration => \E e \in Told(h) : e.ts >= firstAt[h]
               /\ Kind = "gathering" /\ trackOf[h] \in memory.reported => Told(h) # {} \/ h \in overlooked
    <3>1. StayHolds(h)
      BY DEF ActInv, BudgetFits, StayTrue
    <3>. QED
      BY <2>1, <3>1 DEF StayHolds
  <2>. QED
    BY <2>1 DEF StaysReported
<1>3. MemoryReleased
  <2>1. SUFFICES ASSUME present PROVE Remembered \subseteq TrackValues \cup retired \cup mislaid
    BY DEF MemoryReleased, TrackValues
  <2>2. Keeps(memory, TrackValues \cup retired \cup mislaid)
    BY <2>1 DEF ActInv, Released
  <2>3. {p.track : p \in memory.pending} \subseteq TrackValues \cup retired \cup mislaid
    BY <2>2 DEF Keeps
  <2>4. {t \in TrackIds : memory.last[t] # 0 \/ memory.entered[t] # 0 \/ memory.side[t] # "none"} \subseteq TrackValues \cup retired \cup mislaid
    BY <2>2 DEF Keeps
  <2>. QED
    BY <2>2, <2>3, <2>4 DEF Remembered, Keeps
<1>. QED
  BY <1>1, <1>2, <1>3 DEF ActInv
=============================================================================
