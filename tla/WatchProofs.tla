------------------------------ MODULE WatchProofs ------------------------------
(* Proofs about what the operators see of a camera: the footage it plays back,  *)
(* the picture its viewers share, its status history and its second stream, the *)
(* order in which cap and floor take footage from a full disk, and the types of *)
(* every pane.  Each is proved of its part alone and then of all of them side   *)
(* by side.                                                                     *)
EXTENDS CameraWatch, FiniteSetTheorems, SequenceTheorems, TLAPS

--------------------------------------------------------------------------------
(* Playback.                                                                    *)

(* What follows from the code between two suspensions: who has a lock, who waits. *)
Holding(p) == At(p) \in {"slot", "open", "encode", "lost"}
NoneTwice(line) == \A i, j \in DOMAIN line : line[i] = line[j] => i = j

(* Who waits for a lock is in its line, once; who waits for a slot in the     *)
(* slots'; and only transcodes wait for slots.                                *)
LinesInv ==
  /\ \A l \in Locks : NoneTwice(lockLine[l])
  /\ \A l \in Locks, p \in Players : InLine(p, lockLine[l]) <=> At(p) = "lock" /\ play[p].lock = l
  /\ NoneTwice(slotLine)
  /\ \A p \in Players : InLine(p, slotLine) <=> At(p) = "slot"
  /\ ~Transcodes => slotLine = <<>>

(* A lock is with the one who builds, or waits for a slot, under it.          *)
HoldInv == \A l \in Locks, p \in Players : lockBy[l] = p <=> Holding(p) /\ play[p].lock = l

(* While no waiter found nothing built, who holds a lock came by its entry.   *)
EntryInv == ~stranded => \A p \in Players : Holding(p) => lockAt[play[p].sig] = play[p].lock

(* A picture is never older than its name, as the file only gets younger.     *)
ShelfAged == \A s \in Versions, k \in Kinds : shelf[s, k] # 0 => shelf[s, k] >= s
AgeInv ==
  /\ ShelfAged
  /\ \A p \in Players : At(p) # "idle" /\ source.file # 0 => source.file >= play[p].sig
  /\ \A p \in Players : At(p) = "encode" => play[p].opened >= play[p].sig

PlayTyped ==
  /\ source \in [file : 0..MaxVersion, row : BOOLEAN]
  /\ shelf \in [Versions \X Kinds -> 0..MaxVersion]
  /\ lockAt \in [Versions -> Locks \cup {0}] /\ lockBy \in [Locks -> Players \cup {Nobody}]
  /\ lockLine \in [Locks -> Seq(Players)] /\ slotLine \in Seq(Players)
  /\ play \in [Players -> Standings]
  /\ served \in [by : Players \cup {Nobody}, sig : Versions, shows : 0..MaxVersion]
  /\ free \in Nat /\ clips \in Nat
  /\ stranded \in BOOLEAN /\ playBudget \in PlayBudgetTypes

PlayInv == PlayTyped /\ LinesInv /\ HoldInv /\ EntryInv /\ AgeInv /\ SlotsKept /\ ServedCurrent
-----------------------------------------------------------------------------
(* Lines.                                                                     *)

LEMMA JoinsLine ==
  ASSUME NEW S, NEW line \in Seq(S), NEW p \in S
  PROVE  /\ \A q : InLine(q, Append(line, p)) <=> InLine(q, line) \/ q = p
         /\ NoneTwice(line) /\ ~InLine(p, line) => NoneTwice(Append(line, p))
<1>1. /\ Len(line) \in Nat /\ DOMAIN line = 1..Len(line)
      /\ Append(line, p) \in Seq(S) /\ Len(Append(line, p)) = Len(line) + 1
      /\ \A i \in 1..Len(line) : Append(line, p)[i] = line[i]
      /\ Append(line, p)[Len(line) + 1] = p
  BY LenProperties, AppendProperties
<1>2. DOMAIN Append(line, p) = 1..(Len(line) + 1)
  BY <1>1, LenProperties
<1>. QED
  BY <1>1, <1>2 DEF InLine, NoneTwice

LEMMA Advanced ==
  ASSUME NEW S, NEW line \in Seq(S), line # <<>>, NoneTwice(line)
  PROVE  /\ Head(line) \in S /\ InLine(Head(line), line) /\ Tail(line) \in Seq(S)
         /\ \A q : InLine(q, Tail(line)) <=> InLine(q, line) /\ q # Head(line)
         /\ NoneTwice(Tail(line))
<1>1. /\ Len(line) \in Nat \ {0} /\ DOMAIN line = 1..Len(line)
      /\ Head(line) \in S /\ Tail(line) \in Seq(S) /\ Len(Tail(line)) = Len(line) - 1
      /\ \A i \in 1..Len(Tail(line)) : Tail(line)[i] = line[i + 1]
  BY LenProperties, HeadTailProperties, EmptySeq
<1>2. DOMAIN Tail(line) = 1..(Len(line) - 1)
  BY <1>1, LenProperties
<1>3. Head(line) = line[1]
  BY <1>1
<1>4. NoneTwice(Tail(line))
  BY <1>1, <1>2 DEF NoneTwice
<1>5. ASSUME NEW q PROVE InLine(q, Tail(line)) <=> InLine(q, line) /\ q # Head(line)
  <2>1. ASSUME InLine(q, Tail(line)) PROVE InLine(q, line) /\ q # Head(line)
    <3>1. PICK i \in 1..(Len(line) - 1) : Tail(line)[i] = q
      BY <2>1, <1>2 DEF InLine
    <3>. QED
      BY <3>1, <1>1, <1>2, <1>3 DEF InLine, NoneTwice
  <2>2. ASSUME InLine(q, line), q # Head(line) PROVE InLine(q, Tail(line))
    <3>1. PICK i \in 1..Len(line) : line[i] = q
      BY <2>2, <1>1 DEF InLine
    <3>2. i # 1 /\ i - 1 \in 1..(Len(line) - 1) /\ Tail(line)[i - 1] = q
      BY <3>1, <2>2, <1>1, <1>2, <1>3
    <3>. QED
      BY <3>2, <1>2 DEF InLine
  <2>. QED
    BY <2>1, <2>2
<1>. QED
  BY <1>1, <1>3, <1>4, <1>5 DEF InLine

LEMMA NobodyInLine ==
  ASSUME NEW S, NEW line \in Seq(S), \A p \in S : ~InLine(p, line)
  PROVE  line = <<>>
<1>1. Len(line) \in Nat /\ DOMAIN line = 1..Len(line) /\ \A i \in 1..Len(line) : line[i] \in S
  BY LenProperties, ElementOfSeq
<1>2. line # <<>> => 1 \in 1..Len(line)
  BY <1>1, EmptySeq
<1>. QED
  BY <1>1, <1>2 DEF InLine

LEMMA EmptyLine == (\A q : ~InLine(q, <<>>)) /\ NoneTwice(<<>>)
BY DEF InLine, NoneTwice
-----------------------------------------------------------------------------
(* What the operators do to a request.                                        *)

LEMMA PlaySets ==
  /\ Slots \in Nat /\ Slots > 0 /\ MaxVersion \in Nat /\ MaxVersion > 0 /\ MaxLocks \in Nat /\ MaxLocks > 0
  /\ 1 \in Versions /\ 1 \in Locks /\ Versions \subseteq Nat /\ Locks \subseteq Nat /\ 0 \notin Versions /\ 0 \notin Locks
  /\ Resting \in Standings /\ Resting.at = "idle" /\ Kinds # {}
BY PlayAssumption DEF Versions, Locks, Resting, Standing, Standings, Kinds

LEMMA TurnedIs ==
  ASSUME NEW r \in Standings, NEW at \in {"idle", "lock", "slot", "open", "encode", "lost"},
         NEW o \in 0..MaxVersion, NEW t \in {1, 2}
  PROVE  /\ Turned(r, at, o, t) \in Standings /\ Turned(r, at, o, t).at = at
         /\ Turned(r, at, o, t).sig = r.sig /\ Turned(r, at, o, t).lock = r.lock
         /\ Turned(r, at, o, t).opened = o /\ Turned(r, at, o, t).kind = r.kind
BY DEF Turned, Standing, Standings

LEMMA SetAt ==
  ASSUME NEW r \in Standings, NEW at \in {"idle", "lock", "slot", "open", "encode", "lost"}
  PROVE  /\ [r EXCEPT !.at = at] \in Standings /\ [r EXCEPT !.at = at].at = at
         /\ [r EXCEPT !.at = at].sig = r.sig /\ [r EXCEPT !.at = at].lock = r.lock
         /\ [r EXCEPT !.at = at].opened = r.opened /\ [r EXCEPT !.at = at].kind = r.kind
BY DEF Standings

\* HandedOn touches the first in the slots' line and nobody else.
LEMMA HandedIs ==
  ASSUME PlayTyped, LinesInv
  PROVE  /\ HandedOn(play) \in [Players -> Standings]
         /\ \A q \in Players : /\ HandedOn(play)[q].sig = play[q].sig /\ HandedOn(play)[q].lock = play[q].lock
                               /\ HandedOn(play)[q].opened = play[q].opened /\ HandedOn(play)[q].kind = play[q].kind
         /\ slotLine # <<>> => /\ Head(slotLine) \in Players /\ At(Head(slotLine)) = "slot"
                               /\ HandedOn(play)[Head(slotLine)].at = "open"
         /\ \A q \in Players : slotLine = <<>> \/ q # Head(slotLine) => HandedOn(play)[q] = play[q]
<1>1. slotLine # <<>> => Head(slotLine) \in Players /\ InLine(Head(slotLine), slotLine)
  BY Advanced DEF PlayTyped, LinesInv
<1>2. \A q \in Players : HandedOn(play)[q] = IF slotLine # <<>> /\ q = Head(slotLine) THEN [play[q] EXCEPT !.at = "open"] ELSE play[q]
  BY DEF HandedOn, FirstInLine
<1>3. \A q \in Players : play[q] \in Standings /\ [play[q] EXCEPT !.at = "open"] \in Standings
  BY SetAt DEF PlayTyped
<1>4. HandedOn(play) \in [Players -> Standings]
  BY <1>2, <1>3 DEF HandedOn
<1>5. \A q \in Players : /\ [play[q] EXCEPT !.at = "open"].at = "open"
                          /\ [play[q] EXCEPT !.at = "open"].sig = play[q].sig
                          /\ [play[q] EXCEPT !.at = "open"].lock = play[q].lock
                          /\ [play[q] EXCEPT !.at = "open"].opened = play[q].opened
                          /\ [play[q] EXCEPT !.at = "open"].kind = play[q].kind
  BY <1>3, SetAt
<1>6. slotLine # <<>> => At(Head(slotLine)) = "slot"
  BY <1>1 DEF LinesInv
<1>. QED
  BY <1>1, <1>2, <1>4, <1>5, <1>6

\* An attempt takes a slot or joins the line.
LEMMA AttemptIs ==
  ASSUME PlayTyped, NEW p \in Players, NEW r \in Standings, Attempt(p, r)
  PROVE  /\ play' \in [Players -> Standings] /\ \A q \in Players \ {p} : play'[q] = play[q]
         /\ play'[p].sig = r.sig /\ play'[p].lock = r.lock /\ play'[p].opened = r.opened /\ play'[p].kind = r.kind
         /\ slotLine' \in Seq(Players) /\ free' \in Nat
         /\ \/ Transcodes /\ ~SlotFree /\ play'[p].at = "slot" /\ slotLine' = Append(slotLine, p) /\ free' = free
            \/ Transcodes /\ SlotFree /\ play'[p].at = "open" /\ slotLine' = slotLine /\ free' = free - 1
            \/ ~Transcodes /\ play'[p].at = "open" /\ slotLine' = slotLine /\ free' = free
<1>1. CASE Transcodes /\ ~SlotFree
  <2>1. play' = [play EXCEPT ![p] = [r EXCEPT !.at = "slot"]] /\ slotLine' = Append(slotLine, p) /\ free' = free
    BY <1>1 DEF Attempt
  <2>2. /\ [r EXCEPT !.at = "slot"] \in Standings /\ [r EXCEPT !.at = "slot"].at = "slot"
        /\ [r EXCEPT !.at = "slot"].sig = r.sig /\ [r EXCEPT !.at = "slot"].lock = r.lock
        /\ [r EXCEPT !.at = "slot"].opened = r.opened /\ [r EXCEPT !.at = "slot"].kind = r.kind
    BY SetAt
  <2>3. slotLine' \in Seq(Players) /\ free' \in Nat
    BY <2>1, AppendProperties DEF PlayTyped
  <2>4. play' \in [Players -> Standings] /\ play'[p] = [r EXCEPT !.at = "slot"] /\ \A q \in Players \ {p} : play'[q] = play[q]
    BY <2>1, <2>2 DEF PlayTyped
  <2>. QED
    BY <2>1, <2>2, <2>3, <2>4, <1>1
<1>2. CASE ~(Transcodes /\ ~SlotFree)
  <2>1. play' = [play EXCEPT ![p] = [r EXCEPT !.at = "open"]] /\ slotLine' = slotLine
        /\ free' = IF Transcodes THEN free - 1 ELSE free
    BY <1>2 DEF Attempt
  <2>2. /\ [r EXCEPT !.at = "open"] \in Standings /\ [r EXCEPT !.at = "open"].at = "open"
        /\ [r EXCEPT !.at = "open"].sig = r.sig /\ [r EXCEPT !.at = "open"].lock = r.lock
        /\ [r EXCEPT !.at = "open"].opened = r.opened /\ [r EXCEPT !.at = "open"].kind = r.kind
    BY SetAt
  <2>3. slotLine' \in Seq(Players) /\ free' \in Nat
    BY <2>1, <1>2 DEF PlayTyped, SlotFree
  <2>4. play' \in [Players -> Standings] /\ play'[p] = [r EXCEPT !.at = "open"] /\ \A q \in Players \ {p} : play'[q] = play[q]
    BY <2>1, <2>2 DEF PlayTyped
  <2>. QED
    BY <2>1, <2>2, <2>3, <2>4, <1>2
<1>. QED
  BY <1>1, <1>2

LEMMA SpendKeeps ==
  ASSUME PlayTyped, NEW what \in {"fetch", "fail", "clip", "rewrite", "erase", "purge", "evict"}, Spend(what)
  PROVE  playBudget' \in PlayBudgetTypes /\ Transcodes' = Transcodes
<1>1. playBudget \in PlayBudgetTypes /\ playBudget[what] > 0 /\ playBudget' = [playBudget EXCEPT ![what] = @ - 1]
  BY DEF PlayTyped, Spend
<1>. QED
  BY <1>1 DEF PlayBudgetTypes, Transcodes

LEMMA LetGoIs ==
  ASSUME PlayTyped, NEW l \in Locks, NEW s \in Versions, LetGoOf(l, s)
  PROVE  /\ lockBy' \in [Locks -> Players \cup {Nobody}] /\ lockAt' \in [Versions -> Locks \cup {0}]
         /\ lockBy'[l] = Nobody /\ \A k \in Locks \ {l} : lockBy'[k] = lockBy[k]
         /\ \A t \in Versions : lockAt'[t] # lockAt[t] => lockAt[t] = l
BY DEF PlayTyped, LetGoOf

\* A slot that is given back is free or goes to the first in line.
LEMMA GivenIs ==
  ASSUME PlayTyped, LinesInv, GiveBack
  PROVE  /\ free' \in Nat /\ slotLine' \in Seq(Players) /\ NoneTwice(slotLine')
         /\ slotLine = <<>> => free' = free + 1 /\ slotLine' = <<>>
         /\ slotLine # <<>> => free' = free /\ \A q : InLine(q, slotLine') <=> InLine(q, slotLine) /\ q # Head(slotLine)
<1>1. CASE slotLine = <<>>
  BY <1>1, EmptyLine DEF PlayTyped, LinesInv, GiveBack
<1>2. CASE slotLine # <<>>
  <2>1. slotLine' = Tail(slotLine) /\ free' = free /\ slotLine \in Seq(Players) /\ NoneTwice(slotLine)
    BY <1>2 DEF PlayTyped, LinesInv, GiveBack
  <2>. QED
    BY <1>2, <2>1, Advanced DEF PlayTyped
<1>. QED
  BY <1>1, <1>2
-----------------------------------------------------------------------------
(* Lines, locks and slots.                                                    *)
Encoders == {p \in Players : Encoding(p)}
StandInv == LinesInv /\ HoldInv /\ SlotsKept

LEMMA EncodersFinite == IsFiniteSet(Encoders) /\ IsFiniteSet(Encoders') /\ Cardinality(Encoders) \in Nat /\ Cardinality(Encoders') \in Nat
BY PlayAssumption, FS_Subset, FS_CardinalityType DEF Encoders

LEMMA OneMore ==
  ASSUME NEW p, p \notin Encoders, Encoders' = Encoders \cup {p} PROVE Cardinality(Encoders') = Cardinality(Encoders) + 1
BY EncodersFinite, FS_AddElement

LEMMA OneLess ==
  ASSUME NEW p, p \in Encoders, Encoders' = Encoders \ {p} PROVE Cardinality(Encoders') = Cardinality(Encoders) - 1
BY EncodersFinite, FS_RemoveElement

LEMMA OneForAnother ==
  ASSUME NEW p, NEW q, p \in Encoders, q \notin Encoders, Encoders' = (Encoders \ {p}) \cup {q}
  PROVE  Cardinality(Encoders') = Cardinality(Encoders)
<1>1. /\ Cardinality(Encoders \ {p}) = Cardinality(Encoders) - 1 /\ IsFiniteSet(Encoders \ {p}) /\ q \notin Encoders \ {p}
  BY EncodersFinite, FS_RemoveElement
<1>. QED
  BY <1>1, FS_AddElement, EncodersFinite

\* Nobody changes between resting, waiting for a lock, waiting for a slot and building.
Class(at) == IF at \in {"open", "encode", "lost"} THEN "builds" ELSE at
LEMMA Calm ==
  ASSUME PlayTyped, StandInv, UNCHANGED <<lockBy, lockLine, slotLine, free, clips>>, Transcodes' = Transcodes,
         play' \in [Players -> Standings],
         \A q \in Players : play'[q].lock = play[q].lock /\ Class(play'[q].at) = Class(play[q].at)
  PROVE  StandInv'
<1>1. \A q \in Players : (Encoding(q)' <=> Encoding(q)) /\ (Holding(q)' <=> Holding(q))
                        /\ (At(q)' = "lock" <=> At(q) = "lock") /\ (At(q)' = "slot" <=> At(q) = "slot")
  <2>1. \A q \in Players : play[q] \in Standings /\ play'[q] \in Standings
    BY DEF PlayTyped
  <2>. QED
    BY <2>1 DEF Class, Encoding, Holding, At, Standings
<1>2. LinesInv'
  BY <1>1 DEF StandInv, LinesInv, At
<1>3. HoldInv'
  BY <1>1 DEF StandInv, HoldInv
<1>4. Encoders' = Encoders
  BY <1>1 DEF Encoders
<1>5. SlotsKept'
  BY <1>4 DEF StandInv, SlotsKept, Encoders
<1>. QED
  BY <1>2, <1>3, <1>5 DEF StandInv

\* One who rested or waited for a lock takes it and makes an attempt.
LEMMA Begins ==
  ASSUME PlayTyped, StandInv, NEW p \in Players, NEW r \in Standings, Attempt(p, r),
         At(p) \in {"idle", "lock"}, lockBy[r.lock] = Nobody, lockBy' = [lockBy EXCEPT ![r.lock] = p],
         \A l \in Locks : /\ NoneTwice(lockLine'[l])
                          /\ \A q \in Players : InLine(q, lockLine'[l]) <=> InLine(q, lockLine[l]) /\ q # p,
         clips' = clips, Transcodes' = Transcodes
  PROVE  StandInv'
<1>1. /\ \A q \in Players \ {p} : play'[q] = play[q]
      /\ play'[p].lock = r.lock
      /\ \/ Transcodes /\ ~SlotFree /\ play'[p].at = "slot" /\ slotLine' = Append(slotLine, p) /\ free' = free
         \/ Transcodes /\ SlotFree /\ play'[p].at = "open" /\ slotLine' = slotLine /\ free' = free - 1
         \/ ~Transcodes /\ play'[p].at = "open" /\ slotLine' = slotLine /\ free' = free
  BY AttemptIs
<1>2. r.lock \in Locks /\ Nobody \notin Players
  BY PlayAssumption DEF Standings
<1>3. ~InLine(p, slotLine) /\ NoneTwice(slotLine)
  BY DEF StandInv, LinesInv
<1>4. NoneTwice(slotLine') /\ \A q \in Players : InLine(q, slotLine') <=> At(q)' = "slot"
  <2>1. slotLine' = Append(slotLine, p) => /\ NoneTwice(slotLine')
                                           /\ \A q \in Players : InLine(q, slotLine') <=> InLine(q, slotLine) \/ q = p
    BY <1>3, JoinsLine DEF PlayTyped
  <2>. QED
    BY <2>1, <1>1, <1>3 DEF StandInv, LinesInv, At
<1>5. LinesInv'
  BY <1>1, <1>4 DEF StandInv, LinesInv, At
<1>6. HoldInv'
  <2>1. \A l \in Locks : lockBy[l] # p
    BY DEF StandInv, HoldInv, Holding
  <2>2. Holding(p)' /\ \A q \in Players \ {p} : Holding(q)' <=> Holding(q)
    BY <1>1 DEF Holding, At
  <2>3. lockBy'[r.lock] = p /\ \A l \in Locks \ {r.lock} : lockBy'[l] = lockBy[l]
    BY <1>2 DEF PlayTyped
  <2>4. \A q \in Players : lockBy[r.lock] # q
    BY <1>2
  <2>. QED
    BY <1>1, <1>2, <2>1, <2>2, <2>3, <2>4 DEF StandInv, HoldInv
<1>7. SlotsKept'
  <2>1. p \notin Encoders
    BY DEF Encoders, Encoding
  <2>2. CASE play'[p].at = "slot"
    <3>1. Encoders' = Encoders
      BY <1>1, <2>2, <2>1 DEF Encoders, Encoding, At
    <3>2. slotLine # <<>> \/ free = 0
      BY <1>1, <2>2 DEF SlotFree, PlayTyped
    <3>. QED
      BY <1>1, <2>2, <3>1, <3>2 DEF StandInv, SlotsKept, Encoders
  <2>3. CASE play'[p].at = "open" /\ Transcodes
    <3>1. Encoders' = Encoders \cup {p}
      BY <1>1, <2>3, <2>1 DEF Encoders, Encoding, At
    <3>2. free' = free - 1 /\ slotLine' = <<>>
      BY <1>1, <2>3 DEF SlotFree
    <3>3. Cardinality(Encoders') = Cardinality(Encoders) + 1
      BY <3>1, <2>1, OneMore
    <3>4. free + clips + Cardinality(Encoders) = Slots
      BY <2>3 DEF StandInv, SlotsKept, Encoders
    <3>. QED
      BY <2>3, <3>2, <3>3, <3>4, EncodersFinite, PlaySets DEF SlotsKept, Encoders, PlayTyped
  <2>4. CASE ~Transcodes
    BY <2>4, <1>1 DEF StandInv, SlotsKept
  <2>. QED
    BY <1>1, <2>2, <2>3, <2>4
<1>. QED
  BY <1>5, <1>6, <1>7 DEF StandInv

\* One who built comes to rest, and what it had goes on to others.
Ends(p) ==
  /\ LetGoOf(play[p].lock, play[p].sig)
  /\ IF Transcodes THEN GiveBack ELSE UNCHANGED slotVars
  /\ play' = [(IF Transcodes THEN HandedOn(play) ELSE play) EXCEPT ![p] = Resting]
LEMMA EndsKeeps ==
  ASSUME PlayTyped, StandInv, NEW p \in Players, Encoding(p), Ends(p), UNCHANGED <<lockLine, clips>>, Transcodes' = Transcodes
  PROVE  StandInv'
<1>. DEFINE next == IF Transcodes /\ slotLine # <<>> THEN Head(slotLine) ELSE Nobody
<1>1. play[p] \in Standings /\ play[p].lock \in Locks /\ play[p].sig \in Versions /\ Nobody \notin Players
  BY PlayAssumption DEF PlayTyped, Standings
<1>2. LinesInv /\ HoldInv /\ SlotsKept
  BY DEF StandInv
<1>3. /\ play'[p].at = "idle"
      /\ \A q \in Players \ {p, next} : play'[q] = play[q]
      /\ next # Nobody => /\ next \in Players /\ At(next) = "slot" /\ next # p
                          /\ play'[next].at = "open" /\ play'[next].lock = play[next].lock
  BY <1>1, <1>2, HandedIs, PlaySets DEF Ends, PlayTyped, Encoding
<1>4. /\ lockBy'[play[p].lock] = Nobody
      /\ \A k \in Locks \ {play[p].lock} : lockBy'[k] = lockBy[k]
  BY <1>1, LetGoIs DEF Ends
<1>5. /\ next = Nobody => /\ slotLine' = slotLine
                          /\ slotLine = <<>>
                          /\ free' = IF Transcodes THEN free + 1 ELSE free
      /\ next # Nobody => /\ free' = free /\ Transcodes
                          /\ \A q : InLine(q, slotLine') <=> InLine(q, slotLine) /\ q # next
                          /\ slotLine # <<>>
      /\ NoneTwice(slotLine')
  <2>1. CASE Transcodes
    <3>1. GiveBack
      BY <2>1 DEF Ends
    <3>2. slotLine # <<>> => next # Nobody
      BY <2>1, <1>1, <1>2, HandedIs
    <3>. QED
      BY <2>1, <3>1, <3>2, <1>2, GivenIs
  <2>2. CASE ~Transcodes
    BY <2>2, <1>2 DEF Ends, slotVars, LinesInv
  <2>. QED
    BY <2>1, <2>2
<1>. HIDE DEF next
<1>10. At(p) \in {"open", "encode", "lost"}
  BY DEF Encoding
<1>6. LinesInv'
  <2>1. \A q \in Players : InLine(q, slotLine') <=> At(q)' = "slot"
    <3>1. At(p) # "slot" /\ \A q \in Players : InLine(q, slotLine) <=> At(q) = "slot"
      BY <1>2, <1>10 DEF LinesInv
    <3>2. CASE next = Nobody
      BY <3>1, <3>2, <1>1, <1>3, <1>5 DEF At
    <3>3. CASE next # Nobody
      BY <3>1, <3>3, <1>3, <1>5 DEF At
    <3>. QED
      BY <3>2, <3>3
  <2>2. ~Transcodes => slotLine' = <<>>
    BY <1>5
  <2>3. \A l \in Locks, q \in Players : InLine(q, lockLine[l]) <=> At(q)' = "lock" /\ play'[q].lock = l
    <3>1. \A l \in Locks, q \in Players : InLine(q, lockLine[l]) <=> At(q) = "lock" /\ play[q].lock = l
      BY <1>2 DEF LinesInv
    <3>2. \A q \in Players : (At(q)' = "lock" <=> At(q) = "lock") /\ (At(q) = "lock" => play'[q].lock = play[q].lock)
      BY <1>3, <1>10, <1>1 DEF At
    <3>. QED
      BY <3>1, <3>2
  <2>. QED
    BY <1>2, <1>5, <2>1, <2>2, <2>3 DEF LinesInv
<1>7. HoldInv'
  <2>1. ~Holding(p)' /\ \A q \in Players \ {p} : (Holding(q)' <=> Holding(q)) /\ play'[q].lock = play[q].lock
    BY <1>3, <1>1 DEF Holding, At
  <2>2. Holding(p)
    BY DEF Holding, Encoding
  <2>. QED
    BY <1>1, <1>2, <1>4, <2>1, <2>2 DEF HoldInv
<1>8. SlotsKept'
  <2>1. p \in Encoders
    BY DEF Encoders
  <2>2. CASE ~Transcodes
    BY <2>2, <1>2, <1>5 DEF SlotsKept
  <2>3. CASE Transcodes /\ next = Nobody
    <3>1. Encoders' = Encoders \ {p}
      BY <1>3, <2>3, <1>1 DEF Encoders, Encoding, At
    <3>2. Cardinality(Encoders') = Cardinality(Encoders) - 1
      BY <2>1, <3>1, OneLess
    <3>3. free + clips + Cardinality(Encoders) = Slots
      BY <1>2, <2>3 DEF SlotsKept, Encoders
    <3>4. free' = free + 1 /\ slotLine' = <<>>
      BY <1>5, <2>3
    <3>5. free' + clips' + Cardinality(Encoders') = Slots
      BY <3>2, <3>3, <3>4, EncodersFinite, PlaySets DEF PlayTyped
    <3>. QED
      BY <2>3, <3>4, <3>5 DEF SlotsKept, Encoders
  <2>4. CASE Transcodes /\ next # Nobody
    <3>1. Encoders' = (Encoders \ {p}) \cup {next} /\ next \notin Encoders
      BY <1>3, <2>4 DEF Encoders, Encoding, At
    <3>2. Cardinality(Encoders') = Cardinality(Encoders)
      BY <3>1, <2>1, OneForAnother
    <3>. QED
      BY <1>2, <1>5, <2>4, <3>2 DEF SlotsKept, Encoders
  <2>. QED
    BY <2>2, <2>3, <2>4
<1>. QED
  BY <1>6, <1>7, <1>8 DEF StandInv

LEMMA Records ==
  ASSUME PlayTyped, NEW p \in Players
  PROVE  /\ play[p] \in Standings /\ play[p].lock \in Locks /\ play[p].sig \in Versions /\ play[p].kind \in Kinds
         /\ play[p].opened \in 0..MaxVersion /\ play[p].tries \in {1, 2}
         /\ At(p) \in {"idle", "lock", "slot", "open", "encode", "lost"}
BY DEF PlayTyped, Standings, At

LEMMA ShelfIs ==
  ASSUME PlayTyped, NEW s \in Versions, NEW k \in Kinds PROVE shelf[s, k] \in 0..MaxVersion /\ <<s, k>> \in Versions \X Kinds
BY DEF PlayTyped

\* What is built and what may be built keeps up with the names.
LEMMA Ages ==
  ASSUME PlayTyped, AgeInv, PlayTyped',
         source'.file # 0 => source.file # 0 /\ source'.file >= source.file,
         \A q \in Players : At(q)' # "idle" =>
            (play'[q].sig = play[q].sig /\ At(q) # "idle") \/ play'[q].sig = source.file,
         \A q \in Players : At(q)' = "encode" => play'[q].opened >= play'[q].sig,
         ShelfAged'
  PROVE  AgeInv'
<1>1. source.file \in Nat /\ source'.file \in Nat
  BY PlaySets DEF PlayTyped
<1>2. ASSUME NEW q \in Players, At(q)' # "idle", source'.file # 0 PROVE source'.file >= play'[q].sig
  <2>1. play'[q].sig \in Nat /\ play[q].sig \in Nat
    <3>1. play'[q] \in Standings /\ play[q] \in Standings
      BY DEF PlayTyped
    <3>. QED
      BY <3>1, PlaySets DEF Standings
  <2>2. source.file # 0 /\ source'.file >= source.file
    BY <1>2
  <2>3. source.file >= play'[q].sig
    <3>1. CASE play'[q].sig = source.file
      BY <1>1, <3>1
    <3>2. CASE play'[q].sig = play[q].sig /\ At(q) # "idle"
      BY <2>2, <3>2 DEF AgeInv
    <3>. QED
      BY <1>2, <3>1, <3>2
  <2>. QED
    BY <1>1, <2>1, <2>2, <2>3
<1>. QED
  BY <1>2 DEF AgeInv

\* Entries stand as long as those who hold a lock keep theirs.
LEMMA Entries ==
  ASSUME EntryInv, stranded' = stranded,
         \A q \in Players : Holding(q)' => Holding(q) /\ play'[q].sig = play[q].sig /\ play'[q].lock = play[q].lock
                                           /\ lockAt'[play[q].sig] = lockAt[play[q].sig]
  PROVE  EntryInv'
BY DEF EntryInv

\* The entry that goes with a lock is nobody else's.
LEMMA EntryGoes ==
  ASSUME PlayTyped, HoldInv, EntryInv, stranded' = stranded, NEW p \in Players, NEW l \in Locks, NEW s \in Versions,
         LetGoOf(l, s), lockBy[l] \in {p, Nobody}, ~Holding(p)',
         \A q \in Players \ {p} : Holding(q)' => Holding(q) /\ play'[q].sig = play[q].sig /\ play'[q].lock = play[q].lock
  PROVE  EntryInv'
<1>1. ASSUME NEW q \in Players, Holding(q)', ~stranded PROVE lockAt'[play'[q].sig] = play'[q].lock
  <2>1. q # p /\ Holding(q) /\ play'[q].sig = play[q].sig /\ play'[q].lock = play[q].lock
    BY <1>1
  <2>2. lockAt[play[q].sig] = play[q].lock /\ play[q].sig \in Versions /\ play[q].lock \in Locks
    BY <1>1, <2>1, Records DEF EntryInv
  <2>3. play[q].lock # l
    BY <2>1, <2>2, PlayAssumption DEF HoldInv
  <2>4. lockAt'[play[q].sig] = lockAt[play[q].sig]
    BY <2>2, <2>3, LetGoIs
  <2>. QED
    BY <2>1, <2>2, <2>4
<1>. QED
  BY <1>1 DEF EntryInv

LEMMA LockForIs ==
  ASSUME PlayTyped, LinesInv, HoldInv, NEW s \in Versions, LockLeft(s)
  PROVE  /\ LockFor(s) \in Locks /\ (lockAt[s] # 0 => LockFor(s) = lockAt[s])
         /\ Taken(LockFor(s)) => lockAt[s] = LockFor(s)
<1>1. lockAt[s] \in Locks \cup {0}
  BY DEF PlayTyped
<1>2. CASE lockAt[s] # 0
  BY <1>1, <1>2 DEF LockFor
<1>3. CASE lockAt[s] = 0
  <2>. DEFINE l == LockFor(s)
  <2>1. l \in Locks /\ ~InUse(l)
    BY <1>3 DEF LockFor, LockLeft
  <2>. HIDE DEF l
  <2>2. \A q \in Players : At(q) = "idle" \/ play[q].lock # l
    BY <2>1 DEF InUse
  <2>3. lockBy[l] = Nobody
    <3>1. lockBy[l] \in Players \cup {Nobody}
      BY <2>1 DEF PlayTyped
    <3>. QED
      BY <2>1, <2>2, <3>1 DEF HoldInv, Holding
  <2>4. lockLine[l] = <<>>
    <3>1. lockLine[l] \in Seq(Players) /\ \A q \in Players : ~InLine(q, lockLine[l])
      BY <2>1, <2>2 DEF PlayTyped, LinesInv
    <3>. QED
      BY <3>1, NobodyInLine
  <2>. QED
    BY <1>3, <2>1, <2>3, <2>4 DEF Taken, l
<1>. QED
  BY <1>2, <1>3

LEMMA Fetches ==
  ASSUME PlayInv, NEW p \in Players, NEW s \in Versions, NEW k \in Kinds, Fetch(p, s, k) PROVE PlayInv'
<1>1. PlayTyped /\ StandInv /\ EntryInv /\ AgeInv /\ ServedCurrent /\ LinesInv /\ HoldInv
  BY DEF PlayInv, StandInv
<1>2. /\ At(p) = "idle" /\ source.file = s /\ UNCHANGED <<source, clips, stranded>>
      /\ playBudget' \in PlayBudgetTypes /\ Transcodes' = Transcodes
  BY <1>1, SpendKeeps DEF Fetch, Fetchable
<1>3. CASE Cached(s, k) # 0
  <2>1. /\ UNCHANGED <<shelf, lockAt, lockBy, lockLine, free, slotLine, play>>
        /\ served' = [by |-> p, sig |-> s, shows |-> shelf[s, k]]
    BY <1>3 DEF Fetch, lockVars, Hand, Name
  <2>2. shelf[s, k] \in 0..MaxVersion /\ shelf[s, k] >= s
    BY <1>1, <1>3, ShelfIs DEF Cached, Name, AgeInv, ShelfAged
  <2>3. served'.shows = shelf[s, k] /\ served'.sig = s
        /\ served' \in [by : Players \cup {Nobody}, sig : Versions, shows : 0..MaxVersion]
    BY <2>1, <2>2
  <2>4. PlayTyped'
    BY <1>1, <1>2, <2>1, <2>3 DEF PlayTyped
  <2>5. StandInv'
    BY <1>1, <1>2, <2>1, Calm DEF PlayTyped
  <2>6. EntryInv' /\ AgeInv'
    BY <1>1, <1>2, <2>1 DEF EntryInv, AgeInv, ShelfAged, Holding, At
  <2>7. ServedCurrent'
    BY <2>2, <2>3 DEF ServedCurrent
  <2>. QED
    BY <2>4, <2>5, <2>6, <2>7 DEF PlayInv, StandInv
<1>4. CASE Cached(s, k) = 0
  <2>. DEFINE l == LockFor(s)
              r == Standing("lock", k, s, l, 0, 1)
  <2>1. /\ LockLeft(s) /\ lockAt' = [lockAt EXCEPT ![s] = l] /\ UNCHANGED <<shelf, served>>
    BY <1>4 DEF Fetch
  <2>2. l \in Locks /\ (lockAt[s] # 0 => l = lockAt[s]) /\ (Taken(l) => lockAt[s] = l)
    BY <1>1, <2>1, LockForIs
  <2>3. r \in Standings /\ r.at = "lock" /\ r.lock = l /\ r.sig = s /\ r.opened = 0 /\ r.kind = k
    BY <2>2, PlaySets DEF Standing, Standings
  <2>4. lockAt' \in [Versions -> Locks \cup {0}] /\ lockAt'[s] = l /\ \A t \in Versions \ {s} : lockAt'[t] = lockAt[t]
    BY <1>1, <2>1, <2>2 DEF PlayTyped
  <2>5. ~InLine(p, slotLine) /\ \A x \in Locks : ~InLine(p, lockLine[x])
    BY <1>1, <1>2 DEF LinesInv
  <2>6. CASE Taken(l)
    <3>1. /\ lockLine' = [lockLine EXCEPT ![l] = Append(@, p)] /\ play' = [play EXCEPT ![p] = r]
          /\ UNCHANGED <<lockBy, free, slotLine>>
      BY <1>4, <2>6 DEF Fetch, slotVars
    <3>. HIDE DEF r, l
    <3>2. lockLine[l] \in Seq(Players) /\ Append(lockLine[l], p) \in Seq(Players)
      BY <1>1, <2>2, AppendProperties DEF PlayTyped
    <3>3. /\ lockLine' \in [Locks -> Seq(Players)] /\ lockLine'[l] = Append(lockLine[l], p)
          /\ \A x \in Locks \ {l} : lockLine'[x] = lockLine[x]
      BY <1>1, <2>2, <3>1, <3>2 DEF PlayTyped
    <3>4. play' \in [Players -> Standings] /\ play'[p] = r /\ \A q \in Players \ {p} : play'[q] = play[q]
      BY <1>1, <2>3, <3>1 DEF PlayTyped
    <3>5. PlayTyped'
      BY <1>1, <1>2, <2>1, <2>4, <3>1, <3>3, <3>4 DEF PlayTyped
    <3>6. LinesInv'
      <4>1. /\ NoneTwice(lockLine'[l])
            /\ \A q \in Players : InLine(q, lockLine'[l]) <=> InLine(q, lockLine[l]) \/ q = p
        BY <1>1, <2>2, <2>5, <3>2, <3>3, JoinsLine DEF LinesInv
      <4>2. \A x \in Locks, q \in Players : InLine(q, lockLine'[x]) <=> At(q)' = "lock" /\ play'[q].lock = x
        <5>1. \A x \in Locks, q \in Players : InLine(q, lockLine[x]) <=> At(q) = "lock" /\ play[q].lock = x
          BY <1>1 DEF LinesInv
        <5>2. \A q \in Players \ {p} : At(q)' = At(q) /\ play'[q].lock = play[q].lock
          BY <3>4 DEF At
        <5>3. At(p)' = "lock" /\ play'[p].lock = l
          BY <2>3, <3>4 DEF At
        <5>4. \A x \in Locks \ {l}, q \in Players : InLine(q, lockLine'[x]) <=> At(q)' = "lock" /\ play'[q].lock = x
          BY <2>5, <3>3, <5>1, <5>2, <5>3
        <5>5. \A q \in Players : InLine(q, lockLine'[l]) <=> At(q)' = "lock" /\ play'[q].lock = l
          BY <2>2, <4>1, <5>1, <5>2, <5>3
        <5>. QED
          BY <5>4, <5>5
      <4>3. \A q \in Players : InLine(q, slotLine) <=> At(q)' = "slot"
        BY <1>1, <2>3, <2>5, <3>4 DEF LinesInv, At
      <4>. QED
        BY <1>1, <1>2, <3>1, <3>3, <4>1, <4>2, <4>3 DEF LinesInv
    <3>7. \A q \in Players : (Holding(q)' <=> Holding(q)) /\ (Encoding(q)' <=> Encoding(q))
                            /\ (Holding(q) => play'[q] = play[q])
      BY <1>2, <2>3, <3>4 DEF Holding, Encoding, At
    <3>8. HoldInv'
      BY <1>1, <3>1, <3>7 DEF HoldInv
    <3>9. SlotsKept'
      <4>1. Encoders' = Encoders
        BY <3>7 DEF Encoders
      <4>. QED
        BY <1>1, <1>2, <3>1, <4>1 DEF StandInv, SlotsKept, Encoders
    <3>10. EntryInv'
      <4>1. \A t \in Versions : lockAt'[t] = lockAt[t]
        BY <2>2, <2>4, <2>6
      <4>. QED
        BY <1>1, <1>2, <3>7, <4>1, Records, Entries
    <3>11. AgeInv'
      <4>1. /\ \A q \in Players : At(q)' # "idle" =>
                    (play'[q].sig = play[q].sig /\ At(q) # "idle") \/ play'[q].sig = source.file
            /\ \A q \in Players : At(q)' = "encode" => play'[q].opened >= play'[q].sig
        BY <1>1, <1>2, <2>3, <3>4 DEF At, AgeInv
      <4>2. source.file \in Nat /\ source' = source /\ shelf' = shelf
        BY <1>1, <1>2, <2>1, PlaySets DEF PlayTyped
      <4>3. source'.file # 0 => source.file # 0 /\ source'.file >= source.file
        BY <4>2
      <4>4. ShelfAged'
        BY <1>1, <4>2 DEF AgeInv, ShelfAged
      <4>. QED
        BY <1>1, <3>5, <4>1, <4>3, <4>4, Ages
    <3>. QED
      BY <1>1, <2>1, <3>5, <3>6, <3>8, <3>9, <3>10, <3>11 DEF PlayInv, ServedCurrent
  <2>7. CASE ~Taken(l)
    <3>1. lockBy' = [lockBy EXCEPT ![l] = p] /\ lockLine' = lockLine /\ Attempt(p, r)
      BY <1>4, <2>7 DEF Fetch
    <3>. HIDE DEF r, l
    <3>2. lockBy[l] = Nobody
      BY <2>7 DEF Taken
    <3>3. StandInv'
      <4>1. \A x \in Locks : /\ NoneTwice(lockLine'[x])
                             /\ \A q \in Players : InLine(q, lockLine'[x]) <=> InLine(q, lockLine[x]) /\ q # p
        BY <1>1, <2>5, <3>1 DEF LinesInv
      <4>. QED
        BY <1>1, <1>2, <2>3, <3>1, <3>2, <4>1, Begins
    <3>4. /\ play' \in [Players -> Standings] /\ \A q \in Players \ {p} : play'[q] = play[q]
          /\ play'[p].sig = s /\ play'[p].lock = l /\ slotLine' \in Seq(Players) /\ free' \in Nat
          /\ play'[p].at \in {"slot", "open"}
      BY <1>1, <2>3, <3>1, AttemptIs
    <3>5. PlayTyped'
      BY <1>1, <1>2, <2>1, <2>2, <2>4, <3>1, <3>4 DEF PlayTyped
    <3>6. EntryInv'
      <4>1. ASSUME NEW q \in Players \ {p}, Holding(q)', ~stranded PROVE lockAt'[play'[q].sig] = play'[q].lock
        <5>1. Holding(q) /\ play'[q] = play[q]
          BY <3>4, <4>1 DEF Holding, At
        <5>2. lockAt[play[q].sig] = play[q].lock /\ play[q].lock # 0 /\ play[q].sig \in Versions
          BY <1>1, <4>1, <5>1, Records, PlaySets DEF EntryInv
        <5>. QED
          BY <2>2, <2>4, <5>1, <5>2
      <4>. QED
        BY <1>2, <2>4, <3>4, <4>1 DEF EntryInv
    <3>7. AgeInv'
      <4>1. /\ \A q \in Players : At(q)' # "idle" =>
                    (play'[q].sig = play[q].sig /\ At(q) # "idle") \/ play'[q].sig = source.file
            /\ \A q \in Players : At(q)' = "encode" => play'[q].opened >= play'[q].sig
        BY <1>1, <1>2, <3>4 DEF At, AgeInv
      <4>2. source.file \in Nat /\ source' = source /\ shelf' = shelf
        BY <1>1, <1>2, <2>1, PlaySets DEF PlayTyped
      <4>3. source'.file # 0 => source.file # 0 /\ source'.file >= source.file
        BY <4>2
      <4>4. ShelfAged'
        BY <1>1, <4>2 DEF AgeInv, ShelfAged
      <4>. QED
        BY <1>1, <3>5, <4>1, <4>3, <4>4, Ages
    <3>. QED
      BY <1>1, <2>1, <3>3, <3>5, <3>6, <3>7 DEF PlayInv, StandInv, ServedCurrent
  <2>. QED
    BY <2>6, <2>7
<1>. QED
  BY <1>3, <1>4

LEMMA SourceIs == ASSUME PlayTyped PROVE /\ source \in [file : 0..MaxVersion, row : BOOLEAN] /\ source.file \in 0..MaxVersion
                                         /\ source.file \in Nat /\ MaxVersion \in Nat
BY PlaySets DEF PlayTyped

LEMMA ShelfStays == ASSUME ShelfAged, shelf' = shelf PROVE ShelfAged'
BY DEF ShelfAged


LEMMA WokenKeeps ==
  ASSUME PlayInv, NEW p \in Players, Woken(p) PROVE PlayInv'
<1>. DEFINE r == play[p]
            l == r.lock
<1>1. PlayTyped /\ StandInv /\ EntryInv /\ AgeInv /\ ServedCurrent /\ LinesInv /\ HoldInv
  BY DEF PlayInv, StandInv
<1>2. r \in Standings /\ l \in Locks /\ r.sig \in Versions /\ r.kind \in Kinds
  BY <1>1, Records
<1>3. /\ At(p) = "lock" /\ lockBy[l] = Nobody /\ Head(lockLine[l]) = p /\ lockLine' = [lockLine EXCEPT ![l] = Tail(@)]
      /\ UNCHANGED <<source, clips, playBudget>> /\ Transcodes' = Transcodes
  BY DEF Woken, Transcodes, At
<1>. HIDE DEF r, l
<1>4. /\ lockLine' \in [Locks -> Seq(Players)]
      /\ \A x \in Locks : /\ NoneTwice(lockLine'[x])
                          /\ \A q \in Players : InLine(q, lockLine'[x]) <=> InLine(q, lockLine[x]) /\ q # p
  <2>1. InLine(p, lockLine[l]) /\ \A x \in Locks \ {l} : ~InLine(p, lockLine[x])
    BY <1>1, <1>2, <1>3 DEF LinesInv, l, r
  <2>2. lockLine[l] \in Seq(Players) /\ lockLine[l] # <<>> /\ NoneTwice(lockLine[l])
    BY <1>1, <1>2, <2>1, EmptyLine DEF PlayTyped, LinesInv
  <2>3. /\ Tail(lockLine[l]) \in Seq(Players) /\ NoneTwice(Tail(lockLine[l]))
        /\ \A q : InLine(q, Tail(lockLine[l])) <=> InLine(q, lockLine[l]) /\ q # p
    BY <1>3, <2>2, Advanced
  <2>4. lockLine'[l] = Tail(lockLine[l]) /\ \A x \in Locks \ {l} : lockLine'[x] = lockLine[x]
    BY <1>1, <1>2, <1>3 DEF PlayTyped
  <2>5. lockLine' \in [Locks -> Seq(Players)]
    BY <1>1, <1>2, <1>3, <2>3 DEF PlayTyped
  <2>6. \A x \in Locks : NoneTwice(lockLine'[x])
    BY <1>1, <2>3, <2>4 DEF LinesInv
  <2>. QED
    BY <2>1, <2>3, <2>4, <2>5, <2>6
<1>5. CASE Cached(r.sig, r.kind) # 0
  <2>1. /\ play' = [play EXCEPT ![p] = Resting] /\ LetGoOf(l, r.sig) /\ UNCHANGED <<shelf, free, slotLine, stranded>>
        /\ served' = [by |-> p, sig |-> r.sig, shows |-> shelf[r.sig, r.kind]]
    BY <1>5 DEF Woken, slotVars, Hand, Name, r, l
  <2>2. shelf[r.sig, r.kind] \in 0..MaxVersion /\ shelf[r.sig, r.kind] >= r.sig
    BY <1>1, <1>2, <1>5, ShelfIs DEF Cached, Name, AgeInv, ShelfAged
  <2>3. served'.shows = shelf[r.sig, r.kind] /\ served'.sig = r.sig
        /\ served' \in [by : Players \cup {Nobody}, sig : Versions, shows : 0..MaxVersion]
    BY <1>2, <2>1, <2>2
  <2>4. /\ lockBy' \in [Locks -> Players \cup {Nobody}] /\ lockAt' \in [Versions -> Locks \cup {0}]
        /\ \A x \in Locks : lockBy'[x] = lockBy[x]
    BY <1>1, <1>2, <1>3, <2>1, LetGoIs
  <2>5. /\ play' \in [Players -> Standings] /\ play'[p].at = "idle" /\ \A q \in Players \ {p} : play'[q] = play[q]
    BY <1>1, <2>1, PlaySets DEF PlayTyped
  <2>6. PlayTyped'
    BY <1>1, <1>3, <1>4, <2>1, <2>3, <2>4, <2>5 DEF PlayTyped
  <2>7. \A q \in Players : (Holding(q)' <=> Holding(q)) /\ (Encoding(q)' <=> Encoding(q)) /\ (Holding(q) => play'[q] = play[q])
                           /\ (At(q)' = "slot" <=> At(q) = "slot") /\ (At(q)' = "lock" <=> At(q) = "lock" /\ q # p)
                           /\ (At(q)' = "lock" => play'[q] = play[q])
    BY <1>3, <2>5 DEF Holding, Encoding, At
  <2>8. LinesInv'
    <3>1. \A x \in Locks, q \in Players : InLine(q, lockLine'[x]) <=> At(q)' = "lock" /\ play'[q].lock = x
      <4>1. \A x \in Locks, q \in Players : InLine(q, lockLine[x]) <=> At(q) = "lock" /\ play[q].lock = x
        BY <1>1 DEF LinesInv
      <4>. QED
        BY <1>4, <2>7, <4>1
    <3>2. NoneTwice(slotLine') /\ \A q \in Players : InLine(q, slotLine') <=> At(q)' = "slot"
      BY <1>1, <2>1, <2>7 DEF LinesInv
    <3>. QED
      BY <1>1, <1>3, <1>4, <2>1, <3>1, <3>2 DEF LinesInv
  <2>9. HoldInv'
    BY <1>1, <2>4, <2>7 DEF HoldInv
  <2>10. SlotsKept'
    <3>1. Encoders' = Encoders
      BY <2>7 DEF Encoders
    <3>. QED
      BY <1>1, <1>3, <2>1, <3>1 DEF StandInv, SlotsKept, Encoders
  <2>11. EntryInv'
    <3>1. ~Holding(p)'
      BY <1>3, <2>7 DEF Holding
    <3>. QED
      BY <1>1, <1>2, <1>3, <2>1, <2>7, <3>1, EntryGoes
  <2>12. AgeInv'
    <3>1. /\ \A q \in Players : At(q)' # "idle" => play'[q].sig = play[q].sig /\ At(q) # "idle"
          /\ \A q \in Players : At(q)' = "encode" => play'[q].opened >= play'[q].sig
      BY <1>1, <2>5 DEF At, AgeInv
    <3>2. ShelfAged' /\ source.file \in Nat /\ source' = source
      BY <1>1, <1>3, <2>1, SourceIs, ShelfStays DEF AgeInv
    <3>3. source'.file # 0 => source.file # 0 /\ source'.file >= source.file
      BY <3>2
    <3>. QED
      BY <1>1, <2>6, <3>1, <3>2, <3>3, Ages
  <2>13. ServedCurrent'
    BY <2>2, <2>3 DEF ServedCurrent
  <2>. QED
    BY <2>6, <2>8, <2>9, <2>10, <2>11, <2>12, <2>13 DEF PlayInv
<1>6. CASE Cached(r.sig, r.kind) = 0
  <2>1. /\ lockBy' = [lockBy EXCEPT ![l] = p] /\ stranded' = TRUE /\ UNCHANGED <<lockAt, shelf, served>> /\ Attempt(p, r)
    BY <1>6 DEF Woken, r, l
  <2>2. StandInv'
    BY <1>1, <1>2, <1>3, <1>4, <2>1, Begins DEF l
  <2>3. /\ play' \in [Players -> Standings] /\ \A q \in Players \ {p} : play'[q] = play[q]
        /\ play'[p].sig = r.sig /\ play'[p].at \in {"slot", "open"} /\ slotLine' \in Seq(Players) /\ free' \in Nat
    BY <1>1, <1>2, <2>1, AttemptIs
  <2>4. PlayTyped'
    BY <1>1, <1>2, <1>3, <1>4, <2>1, <2>3 DEF PlayTyped
  <2>5. EntryInv'
    BY <2>1 DEF EntryInv
  <2>6. AgeInv'
    <3>1. /\ \A q \in Players : At(q)' # "idle" => play'[q].sig = play[q].sig /\ At(q) # "idle"
          /\ \A q \in Players : At(q)' = "encode" => play'[q].opened >= play'[q].sig
      BY <1>1, <1>3, <2>3 DEF At, AgeInv, r
    <3>2. ShelfAged' /\ source.file \in Nat /\ source' = source
      BY <1>1, <1>3, <2>1, SourceIs, ShelfStays DEF AgeInv
    <3>3. source'.file # 0 => source.file # 0 /\ source'.file >= source.file
      BY <3>2
    <3>. QED
      BY <1>1, <2>4, <3>1, <3>2, <3>3, Ages
  <2>. QED
    BY <1>1, <2>1, <2>2, <2>4, <2>5, <2>6 DEF PlayInv, StandInv, ServedCurrent
<1>. QED
  BY <1>5, <1>6

\* What leaves requests, their locks and slots alone, and the segment no older.
LEMMA Aside ==
  ASSUME PlayInv, UNCHANGED <<lockAt, lockBy, lockLine, slotLine, free, clips, served, stranded>>, Transcodes' = Transcodes,
         playBudget' \in PlayBudgetTypes, source' \in [file : 0..MaxVersion, row : BOOLEAN],
         source'.file # 0 => source.file # 0 /\ source'.file >= source.file,
         shelf' \in [Versions \X Kinds -> 0..MaxVersion], ShelfAged',
         play' \in [Players -> Standings],
         \A q \in Players : /\ play'[q].lock = play[q].lock /\ play'[q].sig = play[q].sig
                            /\ Class(play'[q].at) = Class(play[q].at),
         \A q \in Players : At(q)' = "encode" => play'[q].opened >= play'[q].sig
  PROVE  PlayInv'
<1>1. PlayTyped /\ StandInv /\ EntryInv /\ AgeInv /\ ServedCurrent
  BY DEF PlayInv, StandInv
<1>2. PlayTyped'
  BY <1>1 DEF PlayTyped
<1>3. StandInv'
  BY <1>1, Calm
<1>4. \A q \in Players : (Holding(q)' <=> Holding(q)) /\ (At(q)' = "idle" <=> At(q) = "idle")
  <2>1. \A q \in Players : play[q] \in Standings /\ play'[q] \in Standings
    BY <1>1 DEF PlayTyped
  <2>. QED
    BY <2>1 DEF Class, Holding, At, Standings
<1>5. EntryInv'
  BY <1>1, <1>4 DEF EntryInv
<1>6. AgeInv'
  <2>1. \A q \in Players : At(q)' # "idle" =>
            (play'[q].sig = play[q].sig /\ At(q) # "idle") \/ play'[q].sig = source.file
    BY <1>4
  <2>. QED
    BY <1>1, <1>2, <2>1, Ages
<1>7. ServedCurrent'
  BY <1>1 DEF ServedCurrent
<1>. QED
  BY <1>2, <1>3, <1>5, <1>6, <1>7 DEF PlayInv, StandInv

LEMMA Opens ==
  ASSUME PlayInv, NEW p \in Players, Open(p) PROVE PlayInv'
<1>. DEFINE new == Turned(play[p], "encode", source.file, play[p].tries)
<1>1. PlayTyped /\ AgeInv
  BY DEF PlayInv
<1>2. /\ At(p) = "open" /\ source.file # 0 /\ play' = [play EXCEPT ![p] = new]
      /\ UNCHANGED <<source, shelf, lockAt, lockBy, lockLine, free, slotLine, clips, served, stranded, playBudget>>
  BY DEF Open, lockVars, slotVars
<1>3. /\ new \in Standings /\ new.at = "encode" /\ new.sig = play[p].sig /\ new.lock = play[p].lock /\ new.opened = source.file
  <2>1. source.file \in 0..MaxVersion /\ play[p] \in Standings /\ play[p].tries \in {1, 2}
    BY <1>1, SourceIs, Records
  <2>. QED
    BY <2>1 DEF Turned, Standing, Standings
<1>. HIDE DEF new
<1>4. play' \in [Players -> Standings] /\ play'[p] = new /\ \A q \in Players \ {p} : play'[q] = play[q]
  BY <1>1, <1>2, <1>3 DEF PlayTyped
<1>5. source.file >= play[p].sig /\ ShelfAged
  BY <1>1, <1>2 DEF AgeInv
<1>6. \A q \in Players : /\ play'[q].lock = play[q].lock /\ play'[q].sig = play[q].sig
                         /\ Class(play'[q].at) = Class(play[q].at)
  BY <1>2, <1>3, <1>4 DEF Class, At
<1>7. \A q \in Players : At(q)' = "encode" => play'[q].opened >= play'[q].sig
  BY <1>1, <1>3, <1>4, <1>5 DEF AgeInv, At
<1>8. /\ source' \in [file : 0..MaxVersion, row : BOOLEAN] /\ source.file \in Nat
      /\ shelf' \in [Versions \X Kinds -> 0..MaxVersion] /\ playBudget' \in PlayBudgetTypes /\ Transcodes' = Transcodes
      /\ ShelfAged'
  BY <1>1, <1>2, <1>5, SourceIs, ShelfStays DEF PlayTyped, Transcodes
<1>9. source'.file # 0 => source.file # 0 /\ source'.file >= source.file
  BY <1>2, <1>8
<1>. QED
  BY <1>2, <1>4, <1>6, <1>7, <1>8, <1>9, Aside

\* The file under it is rewritten, or goes, and its row.
LEMMA SourceChanges ==
  ASSUME PlayInv, Rewrite \/ UnlinkSource \/ DropRow PROVE PlayInv'
<1>1. PlayTyped /\ AgeInv
  BY DEF PlayInv
<1>2. /\ UNCHANGED <<shelf, lockAt, lockBy, lockLine, free, slotLine, clips, play, served, stranded>>
      /\ playBudget' \in PlayBudgetTypes /\ Transcodes' = Transcodes
  BY <1>1, SpendKeeps DEF Rewrite, UnlinkSource, DropRow, lockVars, slotVars, PlayTyped, Transcodes
<1>3. source \in [file : 0..MaxVersion, row : BOOLEAN] /\ source.file \in 0..MaxVersion /\ MaxVersion \in Nat
  BY <1>1, PlaySets DEF PlayTyped
<1>4. /\ source' \in [file : 0..MaxVersion, row : BOOLEAN]
      /\ source'.file # 0 => source.file # 0 /\ source'.file >= source.file
  <2>1. CASE Rewrite
    BY <1>3, <2>1 DEF Rewrite
  <2>2. CASE UnlinkSource
    BY <1>3, <2>2 DEF UnlinkSource
  <2>3. CASE DropRow
    BY <1>3, <2>3 DEF DropRow
  <2>. QED
    BY <2>1, <2>2, <2>3
<1>5. /\ shelf' \in [Versions \X Kinds -> 0..MaxVersion] /\ play' \in [Players -> Standings] /\ ShelfAged'
      /\ \A q \in Players : At(q)' = "encode" => play'[q].opened >= play'[q].sig
  BY <1>1, <1>2 DEF PlayTyped, AgeInv, ShelfAged, At
<1>. QED
  BY <1>2, <1>4, <1>5, Aside

\* The sweep of the scratch directories.
LEMMA SweptIs ==
  ASSUME PlayTyped
  PROVE  /\ Swept(play) \in [Players -> Standings]
         /\ \A q \in Players : /\ Swept(play)[q].lock = play[q].lock /\ Swept(play)[q].sig = play[q].sig
                               /\ Class(Swept(play)[q].at) = Class(play[q].at) /\ Swept(play)[q].at # "encode"
<1>1. \A q \in Players : play[q] \in Standings
  BY DEF PlayTyped
<1>2. \A q \in Players : /\ [play[q] EXCEPT !.at = "lost"] \in Standings /\ [play[q] EXCEPT !.at = "lost"].at = "lost"
                         /\ [play[q] EXCEPT !.at = "lost"].lock = play[q].lock /\ [play[q] EXCEPT !.at = "lost"].sig = play[q].sig
  BY <1>1, SetAt
<1>3. \A q \in Players : Swept(play)[q] = IF play[q].at = "encode" THEN [play[q] EXCEPT !.at = "lost"] ELSE play[q]
  BY DEF Swept
<1>4. Swept(play) \in [Players -> Standings]
  BY <1>1, <1>2 DEF Swept
<1>. QED
  BY <1>2, <1>3, <1>4 DEF Class

LEMMA Sweeps ==
  ASSUME PlayInv, Purge \/ EvictAll PROVE PlayInv'
<1>1. PlayTyped /\ AgeInv
  BY DEF PlayInv
<1>2. /\ UNCHANGED <<lockAt, lockBy, lockLine, free, slotLine, clips, served, stranded>>
      /\ shelf' = [x \in DOMAIN shelf |-> 0] /\ play' = Swept(play)
      /\ playBudget' \in PlayBudgetTypes /\ Transcodes' = Transcodes
  BY <1>1, SpendKeeps DEF Purge, EvictAll, lockVars, slotVars
<1>3. /\ source' \in [file : 0..MaxVersion, row : BOOLEAN]
      /\ source'.file # 0 => source.file # 0 /\ source'.file >= source.file
  <2>1. source' = source \/ source' = [file |-> 0, row |-> FALSE]
    BY DEF Purge, EvictAll
  <2>2. CASE source' = source
    BY <1>1, <2>2, SourceIs
  <2>3. CASE source' = [file |-> 0, row |-> FALSE]
    BY <1>1, <2>3, SourceIs
  <2>. QED
    BY <2>1, <2>2, <2>3
<1>4. shelf' \in [Versions \X Kinds -> 0..MaxVersion] /\ ShelfAged'
  <2>1. DOMAIN shelf = Versions \X Kinds /\ 0 \in 0..MaxVersion
    BY <1>1, PlaySets DEF PlayTyped
  <2>2. shelf' \in [Versions \X Kinds -> 0..MaxVersion]
    BY <1>2, <2>1
  <2>3. \A s \in Versions, k \in Kinds : shelf'[s, k] = 0
    BY <1>2, <2>1
  <2>. QED
    BY <2>2, <2>3 DEF ShelfAged
<1>5. /\ play' \in [Players -> Standings]
      /\ \A q \in Players : /\ play'[q].lock = play[q].lock /\ play'[q].sig = play[q].sig
                            /\ Class(play'[q].at) = Class(play[q].at)
      /\ \A q \in Players : At(q)' # "encode"
  BY <1>1, <1>2, SweptIs DEF At
<1>. QED
  BY <1>2, <1>3, <1>4, <1>5, Aside

LEMMA EvictsOne ==
  ASSUME PlayInv, NEW x \in DOMAIN shelf, EvictOne(x) PROVE PlayInv'
<1>1. PlayTyped /\ AgeInv
  BY DEF PlayInv
<1>2. /\ UNCHANGED <<source, lockAt, lockBy, lockLine, free, slotLine, clips, play, served, stranded>>
      /\ shelf' = [shelf EXCEPT ![x] = 0] /\ playBudget' \in PlayBudgetTypes /\ Transcodes' = Transcodes
  BY <1>1, SpendKeeps DEF EvictOne, lockVars, slotVars
<1>3. shelf' \in [Versions \X Kinds -> 0..MaxVersion] /\ ShelfAged'
  <2>1. shelf \in [Versions \X Kinds -> 0..MaxVersion] /\ 0 \in 0..MaxVersion
    BY <1>1, PlaySets DEF PlayTyped
  <2>2. shelf' \in [Versions \X Kinds -> 0..MaxVersion]
    BY <1>2, <2>1
  <2>3. \A s \in Versions, k \in Kinds : shelf'[s, k] = 0 \/ shelf'[s, k] = shelf[s, k]
    BY <1>2, <2>1
  <2>. QED
    BY <1>1, <2>2, <2>3 DEF AgeInv, ShelfAged
<1>4. /\ source' \in [file : 0..MaxVersion, row : BOOLEAN] /\ source.file \in Nat
      /\ play' \in [Players -> Standings]
      /\ \A q \in Players : At(q)' = "encode" => play'[q].opened >= play'[q].sig
  BY <1>1, <1>2, PlaySets DEF PlayTyped, AgeInv, At
<1>5. source'.file # 0 => source.file # 0 /\ source'.file >= source.file
  BY <1>2, <1>4
<1>6. \A q \in Players : /\ play'[q].lock = play[q].lock /\ play'[q].sig = play[q].sig
                         /\ Class(play'[q].at) = Class(play[q].at)
  BY <1>2
<1>. QED
  BY <1>2, <1>3, <1>4, <1>5, <1>6, Aside

\* A request that ended rests, and the others stand where they stood, or have its slot.
Settled(p) ==
  /\ lockBy' \in [Locks -> Players \cup {Nobody}] /\ lockAt' \in [Versions -> Locks \cup {0}]
  /\ free' \in Nat /\ slotLine' \in Seq(Players) /\ play' \in [Players -> Standings]
  /\ At(p)' = "idle"
  /\ \A q \in Players \ {p} :
        /\ play'[q].sig = play[q].sig /\ play'[q].lock = play[q].lock /\ play'[q].opened = play[q].opened
        /\ (Holding(q)' <=> Holding(q)) /\ (At(q)' = "idle" <=> At(q) = "idle") /\ (At(q)' = "encode" => At(q) = "encode")

LEMMA HandedStands ==
  ASSUME PlayTyped, LinesInv
  PROVE  \A q \in Players :
           /\ HandedOn(play)[q].at \in {play[q].at, "open"} /\ (HandedOn(play)[q].at # play[q].at => play[q].at = "slot")
           /\ HandedOn(play)[q].sig = play[q].sig /\ HandedOn(play)[q].lock = play[q].lock
           /\ HandedOn(play)[q].opened = play[q].opened
<1>1. ASSUME NEW q \in Players, slotLine # <<>>, q = Head(slotLine)
      PROVE  HandedOn(play)[q].at = "open" /\ play[q].at = "slot"
  BY <1>1, HandedIs DEF At
<1>2. ASSUME NEW q \in Players, ~(slotLine # <<>> /\ q = Head(slotLine))
      PROVE  HandedOn(play)[q] = play[q]
  BY <1>2, HandedIs
<1>. QED
  BY <1>1, <1>2, HandedIs

LEMMA EndsIs ==
  ASSUME PlayTyped, LinesInv, NEW p \in Players, Ends(p) PROVE Settled(p)
<1>1. play[p].lock \in Locks /\ play[p].sig \in Versions
  BY Records
<1>2. lockBy' \in [Locks -> Players \cup {Nobody}] /\ lockAt' \in [Versions -> Locks \cup {0}]
  BY <1>1, LetGoIs DEF Ends
<1>3. free' \in Nat /\ slotLine' \in Seq(Players)
  <2>1. CASE Transcodes
    BY <2>1, GivenIs DEF Ends
  <2>2. CASE ~Transcodes
    BY <2>2 DEF Ends, slotVars, PlayTyped
  <2>. QED
    BY <2>1, <2>2
<1>. DEFINE f == IF Transcodes THEN HandedOn(play) ELSE play
<1>4. /\ f \in [Players -> Standings]
      /\ \A q \in Players : /\ f[q].at \in {play[q].at, "open"} /\ (f[q].at # play[q].at => play[q].at = "slot")
                            /\ f[q].sig = play[q].sig /\ f[q].lock = play[q].lock /\ f[q].opened = play[q].opened
  <2>1. CASE Transcodes
    BY <2>1, HandedIs, HandedStands
  <2>2. CASE ~Transcodes
    BY <2>2 DEF PlayTyped
  <2>. QED
    BY <2>1, <2>2
<1>5. play' = [f EXCEPT ![p] = Resting]
  BY DEF Ends
<1>. HIDE DEF f
<1>6. play' \in [Players -> Standings] /\ play'[p].at = "idle" /\ \A q \in Players \ {p} : play'[q] = f[q]
  BY <1>4, <1>5, PlaySets
<1>7. ASSUME NEW q \in Players \ {p}
      PROVE  /\ play'[q].sig = play[q].sig /\ play'[q].lock = play[q].lock /\ play'[q].opened = play[q].opened
             /\ (Holding(q)' <=> Holding(q)) /\ (At(q)' = "idle" <=> At(q) = "idle") /\ (At(q)' = "encode" => At(q) = "encode")
  <2>1. play'[q] = f[q]
    BY <1>6
  <2>2. /\ f[q].at \in {play[q].at, "open"} /\ (f[q].at # play[q].at => play[q].at = "slot")
        /\ f[q].sig = play[q].sig /\ f[q].lock = play[q].lock /\ f[q].opened = play[q].opened
    BY <1>4
  <2>. QED
    BY <2>1, <2>2 DEF Holding, At
<1>. QED
  BY <1>2, <1>3, <1>6, <1>7 DEF Settled, At

LEMMA EndsEntry ==
  ASSUME PlayTyped, HoldInv, EntryInv, stranded' = stranded, NEW p \in Players, Encoding(p), Ends(p), Settled(p)
  PROVE  EntryInv'
<1>1. play[p].lock \in Locks /\ play[p].sig \in Versions /\ Holding(p) /\ LetGoOf(play[p].lock, play[p].sig)
  BY Records DEF Encoding, Holding, Ends
<1>2. lockBy[play[p].lock] = p
  BY <1>1 DEF HoldInv
<1>3. ~Holding(p)' /\ \A q \in Players \ {p} : Holding(q)' => Holding(q) /\ play'[q].sig = play[q].sig /\ play'[q].lock = play[q].lock
  BY DEF Settled, Holding
<1>. QED
  BY <1>1, <1>2, <1>3, EntryGoes

LEMMA EndsAge ==
  ASSUME PlayTyped, AgeInv, PlayTyped', ShelfAged', source' = source, NEW p \in Players, Settled(p)
  PROVE  AgeInv'
<1>1. \A q \in Players : At(q)' # "idle" => play'[q].sig = play[q].sig /\ At(q) # "idle"
  BY DEF Settled
<1>2. \A q \in Players : At(q)' = "encode" => play'[q].opened >= play'[q].sig
  BY DEF Settled, AgeInv
<1>3. source'.file # 0 => source.file # 0 /\ source'.file >= source.file
  BY SourceIs
<1>. QED
  BY <1>1, <1>2, <1>3, Ages

LEMMA BuiltKeeps ==
  ASSUME PlayInv, NEW p \in Players, Built(p) PROVE PlayInv'
<1>. DEFINE r == play[p]
<1>1. PlayTyped /\ StandInv /\ EntryInv /\ AgeInv /\ ServedCurrent /\ LinesInv /\ HoldInv
  BY DEF PlayInv, StandInv
<1>2. r \in Standings /\ r.lock \in Locks /\ r.sig \in Versions /\ r.kind \in Kinds /\ r.opened \in 0..MaxVersion
  BY <1>1, Records
<1>3. /\ At(p) = "encode" /\ shelf' = Shelved(r.sig, r.opened) /\ Hand(p, r.sig, r.kind)
      /\ Ends(p) /\ UNCHANGED <<source, lockLine, clips, stranded, playBudget>> /\ Transcodes' = Transcodes
  BY DEF Built, Ends, Transcodes, At
<1>4. LetGoOf(r.lock, r.sig) /\ Encoding(p)
  BY <1>3 DEF Ends, Encoding
<1>. HIDE DEF r
<1>5. StandInv'
  BY <1>1, <1>3, <1>4, EndsKeeps
<1>6. Settled(p)
  BY <1>1, <1>3, EndsIs
<1>7. /\ shelf' \in [Versions \X Kinds -> 0..MaxVersion] /\ ShelfAged'
      /\ served' \in [by : Players \cup {Nobody}, sig : Versions, shows : 0..MaxVersion] /\ ServedCurrent'
  <2>1. r.opened >= r.sig
    BY <1>1, <1>3 DEF AgeInv, r
  <2>2. shelf' \in [Versions \X Kinds -> 0..MaxVersion]
    BY <1>1, <1>2, <1>3 DEF PlayTyped, Shelved
  <2>3. \A s \in Versions, k \in Kinds : shelf'[s, k] = IF s = r.sig THEN r.opened ELSE shelf[s, k]
    BY <1>3 DEF Shelved, Name
  <2>4. ShelfAged'
    BY <1>1, <2>1, <2>3 DEF AgeInv, ShelfAged
  <2>5. served' = [by |-> p, sig |-> r.sig, shows |-> r.opened]
    BY <1>2, <1>3, <2>3 DEF Hand, Name
  <2>. QED
    BY <1>2, <2>1, <2>2, <2>4, <2>5 DEF ServedCurrent
<1>8. PlayTyped'
  BY <1>1, <1>3, <1>6, <1>7 DEF PlayTyped, Settled
<1>9. EntryInv'
  BY <1>1, <1>2, <1>3, <1>4, <1>6, EndsEntry DEF r
<1>10. AgeInv'
  BY <1>1, <1>3, <1>6, <1>7, <1>8, EndsAge
<1>. QED
  BY <1>5, <1>7, <1>8, <1>9, <1>10 DEF PlayInv, StandInv

\* One who tries again keeps its lock, and waits behind those in line for a slot.
LEMMA Retries ==
  ASSUME PlayTyped, StandInv, NEW p \in Players, Encoding(p), Transcodes, UNCHANGED <<lockAt, lockBy, lockLine, clips, free>>,
         Transcodes' = Transcodes,
         \/ slotLine = <<>> /\ play' = [play EXCEPT ![p] = Again(play[p], "open")] /\ UNCHANGED slotLine
         \/ slotLine # <<>> /\ slotLine' = Append(Tail(slotLine), p) /\ play' = [HandedOn(play) EXCEPT ![p] = Again(play[p], "slot")]
  PROVE  /\ StandInv' /\ play' \in [Players -> Standings] /\ slotLine' \in Seq(Players)
         /\ \A q \in Players : /\ play'[q].sig = play[q].sig /\ play'[q].lock = play[q].lock
                               /\ (Holding(q)' <=> Holding(q)) /\ (At(q)' = "idle" <=> At(q) = "idle")
         /\ \A q \in Players : At(q)' = "encode" => At(q) = "encode" /\ play'[q].opened = play[q].opened
<1>1. LinesInv /\ HoldInv /\ SlotsKept /\ At(p) \in {"open", "encode", "lost"}
  BY DEF StandInv, Encoding
<1>2. play[p] \in Standings /\ 0 \in 0..MaxVersion
  BY Records, PlaySets
<1>3. ASSUME NEW at \in {"open", "slot"}
      PROVE  /\ Again(play[p], at) \in Standings /\ Again(play[p], at).at = at
             /\ Again(play[p], at).sig = play[p].sig /\ Again(play[p], at).lock = play[p].lock
  BY <1>2 DEF Again, Turned, Standing, Standings
<1>4. CASE slotLine = <<>>
  <2>. DEFINE new == Again(play[p], "open")
  <2>1. play' = [play EXCEPT ![p] = new] /\ slotLine' = slotLine
    BY <1>4
  <2>2. new \in Standings /\ new.at = "open" /\ new.sig = play[p].sig /\ new.lock = play[p].lock
    BY <1>3
  <2>. HIDE DEF new
  <2>3. play' \in [Players -> Standings] /\ play'[p] = new /\ \A q \in Players \ {p} : play'[q] = play[q]
    BY <2>1, <2>2 DEF PlayTyped
  <2>4. \A q \in Players : play'[q].lock = play[q].lock /\ Class(play'[q].at) = Class(play[q].at)
    BY <1>1, <2>2, <2>3 DEF Class, At
  <2>5. StandInv'
    BY <2>1, <2>3, <2>4, Calm
  <2>6. /\ \A q \in Players : /\ play'[q].sig = play[q].sig /\ play'[q].lock = play[q].lock
                              /\ (Holding(q)' <=> Holding(q)) /\ (At(q)' = "idle" <=> At(q) = "idle")
        /\ \A q \in Players : At(q)' = "encode" => At(q) = "encode" /\ play'[q].opened = play[q].opened
    BY <1>1, <2>2, <2>3 DEF Holding, At
  <2>. QED
    BY <2>1, <2>3, <2>5, <2>6 DEF PlayTyped
<1>5. CASE slotLine # <<>>
  <2>. DEFINE new == Again(play[p], "slot")
              f == HandedOn(play)
  <2>0. PICK next \in Players : next = Head(slotLine)
    BY <1>1, <1>5, HandedIs
  <2>1. play' = [f EXCEPT ![p] = new] /\ slotLine' = Append(Tail(slotLine), p)
    BY <1>5
  <2>2. new \in Standings /\ new.at = "slot" /\ new.sig = play[p].sig /\ new.lock = play[p].lock
    BY <1>3
  <2>3. /\ f \in [Players -> Standings] /\ next \in Players /\ At(next) = "slot" /\ f[next].at = "open"
        /\ \A q \in Players : f[q].sig = play[q].sig /\ f[q].lock = play[q].lock
        /\ \A q \in Players \ {next} : f[q] = play[q]
    BY <1>1, <1>5, <2>0, HandedIs
  <2>. HIDE DEF new, f
  <2>4. /\ play' \in [Players -> Standings] /\ play'[p] = new /\ \A q \in Players \ {p} : play'[q] = f[q]
    BY <2>1, <2>2, <2>3
  <2>5. p # next
    BY <1>1, <2>3
  <2>6. /\ slotLine' \in Seq(Players) /\ NoneTwice(slotLine')
        /\ \A q \in Players : InLine(q, slotLine') <=> (InLine(q, slotLine) /\ q # next) \/ q = p
    <3>1. slotLine \in Seq(Players) /\ NoneTwice(slotLine) /\ ~InLine(p, slotLine)
      BY <1>1 DEF PlayTyped, LinesInv
    <3>2. /\ Tail(slotLine) \in Seq(Players) /\ NoneTwice(Tail(slotLine))
          /\ \A q : InLine(q, Tail(slotLine)) <=> InLine(q, slotLine) /\ q # next
      BY <1>5, <2>0, <3>1, Advanced
    <3>3. ~InLine(p, Tail(slotLine))
      BY <3>1, <3>2
    <3>4. /\ NoneTwice(Append(Tail(slotLine), p))
          /\ \A q : InLine(q, Append(Tail(slotLine), p)) <=> InLine(q, Tail(slotLine)) \/ q = p
      BY <3>2, <3>3, JoinsLine
    <3>. QED
      BY <2>1, <3>2, <3>4, AppendProperties
  <2>7. /\ At(p)' = "slot" /\ At(next)' = "open" /\ \A q \in Players \ {p, next} : play'[q] = play[q]
        /\ \A q \in Players : play'[q].sig = play[q].sig /\ play'[q].lock = play[q].lock
    <3>1. play'[p] = new /\ play'[next] = f[next] /\ \A q \in Players \ {p, next} : play'[q] = play[q]
      BY <2>3, <2>4, <2>5
    <3>2. At(p)' = "slot" /\ At(next)' = "open"
      BY <2>2, <2>3, <3>1 DEF At
    <3>3. \A q \in Players \ {p} : play'[q].sig = play[q].sig /\ play'[q].lock = play[q].lock
      BY <2>3, <2>4
    <3>. QED
      BY <2>2, <3>1, <3>2, <3>3
  <2>8. /\ \A q \in Players : (Holding(q)' <=> Holding(q)) /\ (At(q)' = "idle" <=> At(q) = "idle") /\ (At(q)' = "lock" <=> At(q) = "lock")
        /\ \A q \in Players : At(q)' = "encode" => At(q) = "encode" /\ play'[q].opened = play[q].opened
        /\ \A q \in Players : At(q)' = "slot" <=> (At(q) = "slot" /\ q # next) \/ q = p
    <3>1. \A q \in Players \ {p, next} : At(q)' = At(q) /\ play'[q].opened = play[q].opened
      BY <2>7 DEF At
    <3>2. /\ Holding(p) /\ Holding(p)' /\ Holding(next) /\ Holding(next)'
      BY <1>1, <2>3, <2>7 DEF Holding
    <3>3. \A q \in Players : (Holding(q)' <=> Holding(q))
      BY <3>1, <3>2 DEF Holding
    <3>4. \A q \in Players : /\ (At(q)' = "idle" <=> At(q) = "idle") /\ (At(q)' = "lock" <=> At(q) = "lock")
                            /\ (At(q)' = "slot" <=> (At(q) = "slot" /\ q # next) \/ q = p)
      <4>1. ASSUME NEW q \in Players, q # p, q # next
            PROVE  /\ (At(q)' = "idle" <=> At(q) = "idle") /\ (At(q)' = "lock" <=> At(q) = "lock")
                   /\ (At(q)' = "slot" <=> (At(q) = "slot" /\ q # next) \/ q = p)
        BY <3>1, <4>1
      <4>. QED
        BY <1>1, <2>3, <2>5, <2>7, <4>1
    <3>5. \A q \in Players : At(q)' = "encode" => At(q) = "encode" /\ play'[q].opened = play[q].opened
      BY <2>7, <3>1
    <3>. QED
      BY <3>3, <3>4, <3>5
  <2>9. LinesInv'
    <3>1. \A l \in Locks, q \in Players : InLine(q, lockLine'[l]) <=> At(q)' = "lock" /\ play'[q].lock = l
      BY <1>1, <2>7, <2>8 DEF LinesInv
    <3>2. \A q \in Players : InLine(q, slotLine') <=> At(q)' = "slot"
      BY <1>1, <2>6, <2>8 DEF LinesInv
    <3>. QED
      BY <1>1, <2>6, <3>1, <3>2 DEF LinesInv
  <2>10. HoldInv'
    BY <1>1, <2>7, <2>8 DEF HoldInv
  <2>11. SlotsKept'
    <3>1. p \in Encoders /\ next \notin Encoders
      BY <1>1, <2>3 DEF Encoders, Encoding
    <3>2. Encoders' = (Encoders \ {p}) \cup {next}
      <4>1. /\ ~Encoding(p)' /\ Encoding(next)' /\ \A q \in Players \ {p, next} : Encoding(q)' <=> Encoding(q)
        BY <2>7 DEF Encoding, At
      <4>. QED
        BY <2>3, <2>5, <3>1, <4>1 DEF Encoders
    <3>3. Cardinality(Encoders') = Cardinality(Encoders)
      BY <3>1, <3>2, OneForAnother
    <3>. QED
      BY <1>1, <1>5, <3>3 DEF SlotsKept, Encoders
  <2>. QED
    BY <2>4, <2>6, <2>7, <2>8, <2>9, <2>10, <2>11 DEF StandInv
<1>. QED
  BY <1>4, <1>5

LEMMA FailsKeeps ==
  ASSUME PlayInv, NEW p \in Players, Fails(p) PROVE PlayInv'
<1>1. PlayTyped /\ StandInv /\ EntryInv /\ AgeInv /\ ServedCurrent /\ LinesInv /\ HoldInv
  BY DEF PlayInv, StandInv
<1>2. /\ Encoding(p) /\ UNCHANGED <<source, shelf, lockLine, clips, served, stranded>>
      /\ playBudget' \in PlayBudgetTypes /\ Transcodes' = Transcodes
  <2>1. playBudget' = playBudget \/ Spend("fail")
    BY DEF Fails
  <2>2. playBudget' \in PlayBudgetTypes /\ Transcodes' = Transcodes
    BY <1>1, <2>1, SpendKeeps DEF PlayTyped, Transcodes
  <2>. QED
    BY <2>2 DEF Fails, Encoding, At
<1>3. ShelfAged' /\ source'.file # 0 => source.file # 0 /\ source'.file >= source.file
  BY <1>1, <1>2, ShelfStays, SourceIs DEF AgeInv
<1>4. CASE Transcodes /\ play[p].tries = 1
  <2>1. /\ UNCHANGED <<lockAt, lockBy, free>>
        /\ \/ slotLine = <<>> /\ play' = [play EXCEPT ![p] = Again(play[p], "open")] /\ UNCHANGED slotLine
           \/ slotLine # <<>> /\ slotLine' = Append(Tail(slotLine), p) /\ play' = [HandedOn(play) EXCEPT ![p] = Again(play[p], "slot")]
    BY <1>4 DEF Fails
  <2>2. /\ StandInv' /\ play' \in [Players -> Standings] /\ slotLine' \in Seq(Players)
        /\ \A q \in Players : /\ play'[q].sig = play[q].sig /\ play'[q].lock = play[q].lock
                              /\ (Holding(q)' <=> Holding(q)) /\ (At(q)' = "idle" <=> At(q) = "idle")
        /\ \A q \in Players : At(q)' = "encode" => At(q) = "encode" /\ play'[q].opened = play[q].opened
    BY <1>1, <1>2, <1>4, <2>1, Retries
  <2>3. PlayTyped'
    BY <1>1, <1>2, <2>1, <2>2 DEF PlayTyped
  <2>4. EntryInv'
    BY <1>1, <1>2, <2>1, <2>2, Entries
  <2>5. AgeInv'
    <3>1. \A q \in Players : At(q)' # "idle" => play'[q].sig = play[q].sig /\ At(q) # "idle"
      BY <2>2
    <3>2. \A q \in Players : At(q)' = "encode" => play'[q].opened >= play'[q].sig
      BY <1>1, <2>2 DEF AgeInv
    <3>3. ShelfAged' /\ (source'.file # 0 => source.file # 0 /\ source'.file >= source.file)
      BY <1>1, <1>2, ShelfStays, SourceIs DEF AgeInv
    <3>. QED
      BY <1>1, <2>3, <3>1, <3>2, <3>3, Ages
  <2>. QED
    BY <1>1, <1>2, <2>2, <2>3, <2>4, <2>5 DEF PlayInv, StandInv, ServedCurrent
<1>5. CASE ~(Transcodes /\ play[p].tries = 1)
  <2>1. Ends(p)
    BY <1>5 DEF Fails, Ends
  <2>2. Settled(p)
    BY <1>1, <2>1, EndsIs
  <2>3. StandInv'
    BY <1>1, <1>2, <2>1, EndsKeeps
  <2>4. PlayTyped'
    BY <1>1, <1>2, <2>2 DEF PlayTyped, Settled
  <2>5. EntryInv'
    BY <1>1, <1>2, <2>1, <2>2, EndsEntry
  <2>6. AgeInv'
    BY <1>1, <1>2, <2>2, <2>4, ShelfStays, EndsAge DEF AgeInv
  <2>. QED
    BY <1>1, <1>2, <2>3, <2>4, <2>5, <2>6 DEF PlayInv, StandInv, ServedCurrent
<1>. QED
  BY <1>4, <1>5

LEMMA ClipBegins ==
  ASSUME PlayInv, BeginClip PROVE PlayInv'
<1>1. PlayTyped /\ LinesInv /\ HoldInv /\ SlotsKept /\ EntryInv /\ AgeInv /\ ServedCurrent
  BY DEF PlayInv
<1>2. /\ UNCHANGED <<source, shelf, lockAt, lockBy, lockLine, slotLine, play, served, stranded>>
      /\ slotLine = <<>> /\ free > 0 /\ free' = free - 1 /\ clips' = clips + 1
      /\ playBudget' \in PlayBudgetTypes /\ Transcodes' = Transcodes
  BY <1>1, SpendKeeps DEF BeginClip, SlotFree, lockVars
<1>3. free \in Nat /\ clips \in Nat /\ free' \in Nat /\ clips' \in Nat
  BY <1>1, <1>2 DEF PlayTyped
<1>4. PlayTyped'
  BY <1>1, <1>2, <1>3 DEF PlayTyped
<1>5. LinesInv' /\ HoldInv' /\ EntryInv' /\ ServedCurrent'
  BY <1>1, <1>2 DEF LinesInv, HoldInv, EntryInv, ServedCurrent, Holding, At
<1>6. AgeInv'
  BY <1>1, <1>2 DEF AgeInv, ShelfAged, At
<1>7. SlotsKept'
  <2>1. Encoders' = Encoders
    BY <1>2 DEF Encoders, Encoding, At
  <2>2. Cardinality(Encoders) \in Nat
    BY EncodersFinite
  <2>3. CASE Transcodes
    <3>1. free + clips + Cardinality(Encoders) = Slots
      BY <1>1, <2>3 DEF SlotsKept, Encoders
    <3>2. free' + clips' + Cardinality(Encoders') = Slots
      BY <1>2, <1>3, <2>1, <2>2, <3>1
    <3>. QED
      BY <1>2, <2>3, <3>2 DEF SlotsKept, Encoders
  <2>4. CASE ~Transcodes
    BY <1>1, <1>2, <1>3, <2>4 DEF SlotsKept
  <2>. QED
    BY <2>3, <2>4
<1>. QED
  BY <1>4, <1>5, <1>6, <1>7 DEF PlayInv

LEMMA ClipEnds ==
  ASSUME PlayInv, EndClip PROVE PlayInv'
<1>1. PlayTyped /\ LinesInv /\ HoldInv /\ SlotsKept /\ EntryInv /\ AgeInv /\ ServedCurrent
  BY DEF PlayInv
<1>2. /\ UNCHANGED <<source, shelf, lockAt, lockBy, lockLine, served, stranded, playBudget>>
      /\ clips > 0 /\ clips' = clips - 1 /\ GiveBack /\ play' = HandedOn(play) /\ Transcodes' = Transcodes
  BY DEF EndClip, lockVars, Transcodes
<1>3. /\ free' \in Nat /\ slotLine' \in Seq(Players) /\ NoneTwice(slotLine')
      /\ slotLine = <<>> => free' = free + 1 /\ slotLine' = <<>>
      /\ slotLine # <<>> => free' = free /\ \A q : InLine(q, slotLine') <=> InLine(q, slotLine) /\ q # Head(slotLine)
  BY <1>1, <1>2, GivenIs
<1>4. /\ play' \in [Players -> Standings]
      /\ \A q \in Players : /\ play'[q].at \in {play[q].at, "open"} /\ (play'[q].at # play[q].at => play[q].at = "slot")
                            /\ play'[q].sig = play[q].sig /\ play'[q].lock = play[q].lock /\ play'[q].opened = play[q].opened
      /\ slotLine # <<>> => Head(slotLine) \in Players /\ At(Head(slotLine)) = "slot" /\ play'[Head(slotLine)].at = "open"
      /\ \A q \in Players : slotLine = <<>> \/ q # Head(slotLine) => play'[q] = play[q]
  BY <1>1, <1>2, HandedIs, HandedStands
<1>5. \A q \in Players : /\ (Holding(q)' <=> Holding(q)) /\ (At(q)' = "idle" <=> At(q) = "idle")
                        /\ (At(q)' = "lock" <=> At(q) = "lock") /\ (At(q)' = "encode" => At(q) = "encode")
  BY <1>4 DEF Holding, At
<1>6. PlayTyped'
  BY <1>1, <1>2, <1>3, <1>4 DEF PlayTyped
<1>7. LinesInv'
  <2>1. \A l \in Locks, q \in Players : InLine(q, lockLine'[l]) <=> At(q)' = "lock" /\ play'[q].lock = l
    BY <1>1, <1>2, <1>4, <1>5 DEF LinesInv
  <2>2. \A q \in Players : InLine(q, slotLine') <=> At(q)' = "slot"
    <3>1. \A q \in Players : InLine(q, slotLine) <=> At(q) = "slot"
      BY <1>1 DEF LinesInv
    <3>2. CASE slotLine = <<>>
      BY <1>3, <1>4, <3>1, <3>2 DEF At
    <3>3. CASE slotLine # <<>>
      BY <1>3, <1>4, <3>1, <3>3 DEF At
    <3>. QED
      BY <3>2, <3>3
  <2>3. ~Transcodes' => slotLine' = <<>>
    BY <1>1, <1>2, <1>3 DEF LinesInv
  <2>. QED
    BY <1>1, <1>2, <1>3, <2>1, <2>2, <2>3 DEF LinesInv
<1>8. HoldInv'
  BY <1>1, <1>2, <1>4, <1>5 DEF HoldInv
<1>9. SlotsKept'
  <2>1. CASE slotLine = <<>>
    <3>1. Encoders' = Encoders
      BY <1>4, <2>1 DEF Encoders, Encoding, At
    <3>2. Cardinality(Encoders) \in Nat /\ free \in Nat /\ clips \in Nat
      BY <1>1, EncodersFinite DEF PlayTyped
    <3>3. CASE Transcodes
      <4>1. free + clips + Cardinality(Encoders) = Slots
        BY <1>1, <3>3 DEF SlotsKept, Encoders
      <4>2. free' + clips' + Cardinality(Encoders') = Slots
        BY <1>2, <1>3, <2>1, <3>1, <3>2, <4>1
      <4>. QED
        BY <1>2, <1>3, <2>1, <3>3, <4>2 DEF SlotsKept, Encoders
    <3>4. CASE ~Transcodes
      BY <1>1, <1>2, <1>3, <2>1, <3>2, <3>4 DEF SlotsKept
    <3>. QED
      BY <3>3, <3>4
  <2>2. CASE slotLine # <<>>
    <3>1. Transcodes
      BY <1>1, <2>2 DEF LinesInv
    <3>2. Head(slotLine) \notin Encoders /\ Encoders' = Encoders \cup {Head(slotLine)}
      BY <1>4, <2>2 DEF Encoders, Encoding, At
    <3>3. Cardinality(Encoders') = Cardinality(Encoders) + 1
      BY <3>2, OneMore
    <3>4. free + clips + Cardinality(Encoders) = Slots /\ free = 0
      BY <1>1, <2>2, <3>1 DEF SlotsKept, Encoders
    <3>5. free' + clips' + Cardinality(Encoders') = Slots /\ free' = 0
      BY <1>1, <1>2, <1>3, <2>2, <3>3, <3>4, EncodersFinite, PlaySets DEF PlayTyped
    <3>. QED
      BY <1>2, <3>1, <3>5 DEF SlotsKept, Encoders
  <2>. QED
    BY <2>1, <2>2
<1>10. EntryInv'
  BY <1>1, <1>2, <1>4, <1>5, Entries
<1>11. AgeInv'
  <2>1. \A q \in Players : At(q)' # "idle" => play'[q].sig = play[q].sig /\ At(q) # "idle"
    BY <1>4, <1>5
  <2>2. \A q \in Players : At(q)' = "encode" => play'[q].opened >= play'[q].sig
    BY <1>1, <1>4, <1>5 DEF AgeInv
  <2>3. ShelfAged' /\ (source'.file # 0 => source.file # 0 /\ source'.file >= source.file)
    BY <1>1, <1>2, ShelfStays, SourceIs DEF AgeInv
  <2>. QED
    BY <1>1, <1>6, <2>1, <2>2, <2>3, Ages
<1>. QED
  BY <1>1, <1>2, <1>6, <1>7, <1>8, <1>9, <1>10, <1>11 DEF PlayInv, ServedCurrent

LEMMA PlayStarts == PlayInit => PlayInv
<1>. SUFFICES ASSUME PlayInit PROVE PlayInv
  OBVIOUS
<1>1. /\ source = [file |-> 1, row |-> TRUE] /\ shelf = [x \in Versions \X Kinds |-> 0]
      /\ lockAt = [s \in Versions |-> 0] /\ lockBy = [l \in Locks |-> Nobody] /\ lockLine = [l \in Locks |-> <<>>]
      /\ free = Slots /\ slotLine = <<>> /\ clips = 0 /\ play = [p \in Players |-> Resting]
      /\ served = [by |-> Nobody, sig |-> 1, shows |-> 1] /\ stranded = FALSE /\ playBudget \in PlayBudgetTypes
  BY PlayAssumption DEF PlayInit
<1>2. <<>> \in Seq(Players) /\ Nobody \notin Players
  BY PlayAssumption
<1>3. \A p \in Players : At(p) = "idle" /\ play[p] \in Standings
  BY <1>1, PlaySets DEF At
<1>4. PlayTyped
  <2>1. source \in [file : 0..MaxVersion, row : BOOLEAN] /\ served \in [by : Players \cup {Nobody}, sig : Versions, shows : 0..MaxVersion]
    BY <1>1, PlaySets
  <2>2. shelf \in [Versions \X Kinds -> 0..MaxVersion] /\ free \in Nat /\ clips \in Nat
    BY <1>1, PlaySets
  <2>3. play \in [Players -> Standings] /\ lockAt \in [Versions -> Locks \cup {0}] /\ lockBy \in [Locks -> Players \cup {Nobody}]
    BY <1>1, PlaySets
  <2>4. lockLine \in [Locks -> Seq(Players)] /\ slotLine \in Seq(Players)
    BY <1>1, <1>2
  <2>. QED
    BY <1>1, <2>1, <2>2, <2>3, <2>4 DEF PlayTyped
<1>5. LinesInv
  BY <1>1, <1>3, EmptyLine DEF LinesInv
<1>6. HoldInv /\ EntryInv
  BY <1>1, <1>2, <1>3 DEF HoldInv, EntryInv, Holding
<1>7. ShelfAged
  <2>1. \A s \in Versions, k \in Kinds : shelf[s, k] = 0
    BY <1>1
  <2>. QED
    BY <2>1 DEF ShelfAged
<1>8. AgeInv
  BY <1>3, <1>7 DEF AgeInv
<1>9. SlotsKept
  <2>1. Encoders = {}
    BY <1>3 DEF Encoders, Encoding
  <2>2. Cardinality(Encoders) = 0
    BY <2>1, FS_EmptySet
  <2>. QED
    BY <1>1, <2>2, PlaySets DEF SlotsKept, Encoders
<1>10. ServedCurrent
  BY <1>1 DEF ServedCurrent
<1>. QED
  BY <1>4, <1>5, <1>6, <1>8, <1>9, <1>10 DEF PlayInv

LEMMA PlaySteps == ASSUME PlayInv, PlayNext PROVE PlayInv'
BY Fetches, WokenKeeps, Opens, BuiltKeeps, FailsKeeps, ClipBegins, ClipEnds, SourceChanges, Sweeps, EvictsOne DEF PlayNext, Serving

LEMMA PlayStays == ASSUME PlayInv, UNCHANGED playVars PROVE PlayInv'
<1>1. /\ PlayTyped /\ AgeInv /\ Transcodes' = Transcodes
      /\ UNCHANGED <<source, shelf, lockAt, lockBy, lockLine, slotLine, free, clips, play, served, stranded, playBudget>>
  BY DEF PlayInv, playVars, Transcodes
<1>2. /\ playBudget' \in PlayBudgetTypes /\ source' \in [file : 0..MaxVersion, row : BOOLEAN]
      /\ shelf' \in [Versions \X Kinds -> 0..MaxVersion] /\ play' \in [Players -> Standings]
  BY <1>1 DEF PlayTyped
<1>3. ShelfAged' /\ (source'.file # 0 => source.file # 0 /\ source'.file >= source.file)
  BY <1>1, ShelfStays, SourceIs DEF AgeInv
<1>4. /\ \A q \in Players : /\ play'[q].lock = play[q].lock /\ play'[q].sig = play[q].sig
                            /\ Class(play'[q].at) = Class(play[q].at)
      /\ \A q \in Players : At(q)' = "encode" => play'[q].opened >= play'[q].sig
  BY <1>1 DEF AgeInv, At
<1>. QED
  BY <1>1, <1>2, <1>3, <1>4, Aside

LEMMA PlayShows == ASSUME PlayInv PROVE PlayTypeOK /\ SlotsKept /\ BuiltOnce /\ ServedCurrent
<1>1. PlayTyped /\ LinesInv /\ HoldInv /\ SlotsKept /\ EntryInv
  BY DEF PlayInv
<1>2. free \in 0..Slots /\ clips \in 0..Slots
  <2>1. free \in Nat /\ clips \in Nat /\ Cardinality(Encoders) \in Nat /\ Slots \in Nat
    BY <1>1, EncodersFinite, PlaySets DEF PlayTyped
  <2>2. free + clips <= Slots
    <3>1. CASE Transcodes
      BY <1>1, <2>1, <3>1 DEF SlotsKept, Encoders
    <3>2. CASE ~Transcodes
      BY <1>1, <2>1, <3>2 DEF SlotsKept
    <3>. QED
      BY <3>1, <3>2
  <2>. QED
    BY <2>1, <2>2
<1>3. \A p \in Players : At(p) = "lock" <=> InLine(p, lockLine[play[p].lock])
  BY <1>1, Records DEF LinesInv
<1>4. PlayTypeOK
  BY <1>1, <1>2, <1>3 DEF PlayTyped, PlayTypeOK
<1>5. BuiltOnce
  <2>1. ASSUME NEW p \in Players, NEW q \in Players, p # q, Encoding(p), Encoding(q), play[p].sig = play[q].sig, ~stranded
        PROVE  FALSE
    <3>1. Holding(p) /\ Holding(q)
      BY <2>1 DEF Encoding, Holding
    <3>2. play[p].lock = play[q].lock /\ play[p].lock \in Locks
      BY <1>1, <2>1, <3>1, Records DEF EntryInv
    <3>. QED
      BY <1>1, <2>1, <3>1, <3>2 DEF HoldInv
  <2>. QED
    BY <2>1 DEF BuiltOnce
<1>. QED
  BY <1>1, <1>4, <1>5 DEF PlayInv

--------------------------------------------------------------------------------
(* The shared picture.                                                          *)

(* What a request carries: it is of a camera that has been, and of the one asked for unless a picture was left of one that was gone. *)
Truthful(r, c, left) ==
  /\ r.at # "away" => r.of # 0
  /\ r.of = 2 \/ r.got.of = 2 => c # 1
  /\ r.got # NoPicture => r.got.of # 0
  /\ r.at \in {"served", "decoded"} => r.got # NoPicture
  /\ r.of = 2 /\ r.got # NoPicture => left \/ r.got.of = 2
CacheTrue(p, c, left) == p # NoPicture => p.of # 0 /\ (p.of = 2 => c # 1) /\ (left \/ p.of = c)

(* The time a decode may still take; the lock outlasts it. *)
Needs(r) == IF r.at = "decoding" THEN IF r.pass = 1 THEN PassLimit + r.left ELSE r.left ELSE 0
PassInv == \A v \in Viewers : viewer[v].at = "decoding" => viewer[v].pass \in {1, 2} /\ viewer[v].left <= PassLimit
LockInv == ~torn => /\ \A v \in Decoders : lock > Needs(viewer[v])
                    /\ \A v, w \in Decoders : v = w
ShotInv ==
  /\ ShotTypeOK /\ PassInv /\ LockInv
  /\ \A v \in Viewers : Truthful(viewer[v], camera, revived)
  /\ CacheTrue(picture, camera, revived)

LEMMA ShotSizes ==
  /\ PassLimit \in Nat /\ PassLimit > 0 /\ WaitTime \in Nat /\ CacheTime \in Nat /\ LockTime \in Nat /\ 2 * PassLimit < LockTime
  /\ 0 \in 0..(PassLimit + WaitTime) /\ PassLimit \in 0..(PassLimit + WaitTime) /\ WaitTime \in 0..(PassLimit + WaitTime)
  /\ NoPicture \in Pictures /\ NoPicture.of = 0 /\ Away \in Viewings /\ Away.at = "away" /\ Away.got = NoPicture /\ Away.of = 0
BY ShotAssumption DEF NoPicture, Pictures, Away, Viewing, Viewings

LEMMA ViewingIs ==
  ASSUME NEW at \in {"away", "missed", "waiting", "decoding", "decoded", "leaving", "served", "failed"}, NEW of \in 0..2,
         NEW pass \in 0..2, NEW left \in 0..(PassLimit + WaitTime), NEW got \in Pictures
  PROVE  LET r == Viewing(at, of, pass, left, got) IN
         r \in Viewings /\ r.at = at /\ r.of = of /\ r.pass = pass /\ r.left = left /\ r.got = got
BY DEF Viewing, Viewings

LEMMA OneMoves ==
  ASSUME viewer \in [Viewers -> Viewings], NEW v \in Viewers, NEW new \in Viewings, Moves(v, new)
  PROVE  viewer' \in [Viewers -> Viewings] /\ viewer'[v] = new /\ \A w \in Viewers \ {v} : viewer'[w] = viewer[w]
BY DEF Moves

LEMMA ShotSpent ==
  ASSUME ShotTypeOK, NEW what \in {"ask", "die", "delete"}, SpendShot(what) PROVE shotBudget' \in ShotBudgetTypes
BY DEF ShotTypeOK, ShotBudgetTypes, SpendShot

\* A step of one request that neither takes the lock nor changes camera or cache.
LEMMA Quiet ==
  ASSUME ShotInv, NEW v \in Viewers, NEW new \in Viewings, Moves(v, new), UNCHANGED <<camera, lock, picture, torn, revived>>,
         shotBudget' \in ShotBudgetTypes, Truthful(new, camera, revived),
         new.at = "decoding" => new.pass \in {1, 2} /\ new.left <= PassLimit,
         new.at \in {"decoding", "decoded", "leaving"} => v \in Decoders /\ Needs(new) <= Needs(viewer[v])
  PROVE  ShotInv'
<1>1. viewer' \in [Viewers -> Viewings] /\ viewer'[v] = new /\ \A w \in Viewers \ {v} : viewer'[w] = viewer[w]
  BY OneMoves DEF ShotInv, ShotTypeOK
<1>2. ShotTypeOK'
  BY <1>1 DEF ShotInv, ShotTypeOK
<1>3. PassInv'
  BY <1>1 DEF ShotInv, PassInv
<1>4. Decoders' \subseteq Decoders
  BY <1>1 DEF Decoders
<1>5. LockInv'
  <2>1. \A w \in Viewers : viewer[w] \in Viewings /\ Needs(viewer[w]) \in Nat
    BY ShotSizes DEF ShotInv, ShotTypeOK, Viewings, Needs
  <2>2. Needs(new) \in Nat /\ lock \in Nat
    BY ShotSizes DEF ShotInv, ShotTypeOK, Viewings, Needs
  <2>3. \A w \in Decoders' : Needs(viewer'[w]) <= Needs(viewer[w]) /\ Needs(viewer'[w]) \in Nat
    BY <1>1, <1>4, <2>1, <2>2 DEF Decoders
  <2>. QED
    BY <1>4, <2>1, <2>2, <2>3 DEF ShotInv, LockInv, Decoders
<1>6. \A w \in Viewers : Truthful(viewer'[w], camera', revived')
  BY <1>1 DEF ShotInv
<1>. QED
  BY <1>2, <1>3, <1>5, <1>6 DEF ShotInv

LEMMA Looks ==
  ASSUME ShotInv, NEW v \in Viewers, Look(v) PROVE ShotInv'
<1>1. viewer[v].at \in {"away", "served", "failed"} /\ camera # 0 /\ UNCHANGED <<camera, lock, picture, torn, revived>>
      /\ shotBudget' \in ShotBudgetTypes
  BY ShotSpent DEF Look, ShotInv
<1>2. camera \in 0..2 /\ picture \in Pictures /\ CacheTrue(picture, camera, revived)
  BY DEF ShotInv, ShotTypeOK
<1>3. CASE picture # NoPicture
  <2>. DEFINE new == Viewing("served", camera, 0, 0, picture)
  <2>1. Moves(v, new)
    BY <1>3 DEF Look, Shown
  <2>2. new \in Viewings /\ new.at = "served" /\ new.of = camera /\ new.got = picture
    <3>1. camera \in 0..2 /\ 0 \in 0..2 /\ 0 \in 0..(PassLimit + WaitTime) /\ picture \in Pictures
      BY <1>2, ShotSizes
    <3>. QED
      BY <3>1, ViewingIs
  <2>. HIDE DEF new
  <2>3. Truthful(new, camera, revived)
    BY <2>2, <1>1, <1>2, <1>3 DEF Truthful, CacheTrue
  <2>. QED
    BY <2>1, <2>2, <2>3, <1>1, Quiet
<1>4. CASE picture = NoPicture
  <2>. DEFINE new == Viewing("missed", camera, 0, 0, NoPicture)
  <2>1. Moves(v, new)
    BY <1>4 DEF Look
  <2>2. new \in Viewings /\ new.at = "missed" /\ new.of = camera /\ new.got = NoPicture
    <3>1. camera \in 0..2 /\ 0 \in 0..2 /\ 0 \in 0..(PassLimit + WaitTime) /\ NoPicture \in Pictures
      BY <1>2, ShotSizes
    <3>. QED
      BY <3>1, ViewingIs
  <2>. HIDE DEF new
  <2>3. Truthful(new, camera, revived)
    BY <2>2, <1>1, <1>2, ShotSizes DEF Truthful
  <2>. QED
    BY <2>1, <2>2, <2>3, <1>1, Quiet
<1>. QED
  BY <1>3, <1>4

LEMMA Decides ==
  ASSUME ShotInv, NEW v \in Viewers, Decide(v) PROVE ShotInv'
<1>1. viewer[v].at = "missed" /\ UNCHANGED <<camera, picture, torn, revived, shotBudget>>
  BY DEF Decide
<1>2. viewer[v] \in Viewings /\ viewer[v].of \in 0..2 /\ Truthful(viewer[v], camera, revived) /\ shotBudget \in ShotBudgetTypes
  BY DEF ShotInv, ShotTypeOK, Viewings
<1>3. CASE ~Unclaimed
  <2>. DEFINE new == Viewing("waiting", viewer[v].of, 0, WaitTime, NoPicture)
  <2>1. Moves(v, new) /\ lock' = lock
    BY <1>3 DEF Decide
  <2>2. new \in Viewings /\ new.at = "waiting" /\ new.of = viewer[v].of /\ new.got = NoPicture
    BY <1>2, ShotSizes, ViewingIs
  <2>. HIDE DEF new
  <2>3. Truthful(new, camera, revived)
    BY <2>2, <1>1, <1>2, ShotSizes DEF Truthful
  <2>. QED
    BY <2>1, <2>2, <2>3, <1>1, <1>2, Quiet
<1>4. CASE Unclaimed
  <2>. DEFINE new == Viewing("decoding", viewer[v].of, 1, PassLimit, NoPicture)
  <2>1. Moves(v, new) /\ lock' = LockTime /\ lock = 0
    BY <1>4 DEF Decide, Unclaimed
  <2>2. new \in Viewings /\ new.at = "decoding" /\ new.of = viewer[v].of /\ new.got = NoPicture /\ new.pass = 1 /\ new.left = PassLimit
    BY <1>2, ShotSizes, ViewingIs
  <2>. HIDE DEF new
  <2>3. Truthful(new, camera, revived)
    BY <2>2, <1>1, <1>2, ShotSizes DEF Truthful
  <2>4. viewer' \in [Viewers -> Viewings] /\ viewer'[v] = new /\ \A w \in Viewers \ {v} : viewer'[w] = viewer[w]
    BY <2>1, <2>2, OneMoves DEF ShotInv, ShotTypeOK
  <2>5. ~torn => Decoders = {}
    <3>1. \A w \in Viewers : Needs(viewer[w]) \in Nat
      BY ShotSizes DEF ShotInv, ShotTypeOK, Viewings, Needs
    <3>. QED
      BY <3>1, <2>1 DEF ShotInv, LockInv, Decoders
  <2>6. LockInv'
    <3>1. ~torn => Decoders' = {v}
      BY <2>5, <2>4, <2>2 DEF Decoders
    <3>2. Needs(viewer'[v]) < LockTime
      BY <2>4, <2>2, ShotSizes DEF Needs
    <3>. QED
      BY <3>1, <3>2, <2>1, <1>1 DEF LockInv
  <2>7. PassInv'
    BY <2>4, <2>2, ShotSizes DEF ShotInv, PassInv
  <2>8. ShotTypeOK'
    BY <2>4, <2>1, <1>1, ShotSizes DEF ShotInv, ShotTypeOK
  <2>9. \A w \in Viewers : Truthful(viewer'[w], camera', revived')
    BY <2>3, <2>4, <1>1 DEF ShotInv
  <2>. QED
    BY <2>6, <2>7, <2>8, <2>9, <1>1 DEF ShotInv
<1>. QED
  BY <1>3, <1>4

LEMMA Waits ==
  ASSUME ShotInv, NEW v \in Viewers, Wait(v) PROVE ShotInv'
<1>1. viewer[v].at = "waiting" /\ UNCHANGED <<camera, lock, picture, torn, revived, shotBudget>>
  BY DEF Wait
<1>2. viewer[v] \in Viewings /\ viewer[v].of \in 0..2 /\ Truthful(viewer[v], camera, revived) /\ shotBudget \in ShotBudgetTypes
      /\ camera \in 0..2 /\ picture \in Pictures /\ CacheTrue(picture, camera, revived)
  BY DEF ShotInv, ShotTypeOK, Viewings
<1>3. CASE picture # NoPicture
  <2>. DEFINE new == Viewing("served", viewer[v].of, 0, 0, picture)
  <2>1. Moves(v, new)
    BY <1>3 DEF Wait, Shown
  <2>2. new \in Viewings /\ new.at = "served" /\ new.of = viewer[v].of /\ new.got = picture
    BY <1>2, ShotSizes, ViewingIs
  <2>. HIDE DEF new
  <2>3. picture.of \in 0..2
    BY <1>2 DEF Pictures
  <2>4. Truthful(new, camera, revived)
    BY <2>2, <2>3, <1>1, <1>2, <1>3 DEF Truthful, CacheTrue
  <2>. QED
    BY <2>1, <2>2, <2>4, <1>1, <1>2, Quiet
<1>4. CASE picture = NoPicture
  <2>. DEFINE new == Viewing("failed", viewer[v].of, 0, 0, NoPicture)
  <2>1. Moves(v, new)
    BY <1>4 DEF Wait, Failed
  <2>2. new \in Viewings /\ new.at = "failed" /\ new.of = viewer[v].of /\ new.got = NoPicture
    <3>1. viewer[v].of \in 0..2 /\ 0 \in 0..2 /\ 0 \in 0..(PassLimit + WaitTime) /\ NoPicture \in Pictures
      BY <1>2, ShotSizes
    <3>. QED
      BY <3>1, ViewingIs
  <2>. HIDE DEF new
  <2>3. Truthful(new, camera, revived)
    BY <2>2, <1>1, <1>2, ShotSizes DEF Truthful
  <2>. QED
    BY <2>1, <2>2, <2>3, <1>1, <1>2, Quiet
<1>. QED
  BY <1>3, <1>4

\* A pass that ends with `got`: a picture of the camera in time, or none.
LEMMA Passes ==
  ASSUME ShotInv, NEW v \in Viewers, viewer[v].at = "decoding", NEW got \in Pictures, Passed(v, got),
         got # NoPicture => camera # 0 /\ got.of = camera,
         UNCHANGED <<camera, lock, picture, torn, revived, shotBudget>>
  PROVE  ShotInv'
<1>. DEFINE best == IF got = NoPicture THEN viewer[v].got ELSE got
            last == viewer[v].pass = 2 \/ (got # NoPicture /\ ~got.flat)
            again == Viewing("decoding", viewer[v].of, 2, PassLimit, best)
            end == Viewing(IF best = NoPicture THEN "leaving" ELSE "decoded", viewer[v].of, viewer[v].pass, 0, best)
<1>1. /\ viewer[v] \in Viewings /\ viewer[v].of \in 0..2 /\ viewer[v].pass \in {1, 2} /\ viewer[v].got \in Pictures
      /\ viewer[v].left \in Nat
      /\ Truthful(viewer[v], camera, revived) /\ shotBudget \in ShotBudgetTypes /\ camera \in 0..2
  BY DEF ShotInv, ShotTypeOK, Viewings, PassInv
<1>2. /\ again \in Viewings /\ again.at = "decoding" /\ again.of = viewer[v].of /\ again.pass = 2
      /\ again.left = PassLimit /\ again.got = best
      /\ end \in Viewings /\ end.at = (IF best = NoPicture THEN "leaving" ELSE "decoded")
      /\ end.of = viewer[v].of /\ end.got = best
  <2>0. /\ viewer[v].of \in 0..2 /\ viewer[v].pass \in 0..2 /\ 2 \in 0..2
        /\ 0 \in 0..(PassLimit + WaitTime) /\ PassLimit \in 0..(PassLimit + WaitTime)
    BY <1>1, ShotSizes
  <2>1. best \in Pictures
    BY <1>1
  <2>. HIDE DEF best
  <2>. DEFINE where == IF best = NoPicture THEN "leaving" ELSE "decoded"
  <2>2. where \in {"leaving", "decoded"}
    OBVIOUS
  <2>. HIDE DEF where
  <2>3. /\ again \in Viewings /\ again.at = "decoding" /\ again.of = viewer[v].of /\ again.pass = 2
        /\ again.left = PassLimit /\ again.got = best
    BY <2>0, <2>1, ViewingIs
  <2>4. end \in Viewings /\ end.at = where /\ end.of = viewer[v].of /\ end.got = best
    <3>1. end = Viewing(where, viewer[v].of, viewer[v].pass, 0, best)
      BY DEF where
    <3>2. where \in {"away", "missed", "waiting", "decoding", "decoded", "leaving", "served", "failed"}
      BY <2>2
    <3>3. LET r == Viewing(where, viewer[v].of, viewer[v].pass, 0, best)
          IN  r \in Viewings /\ r.at = where /\ r.of = viewer[v].of /\ r.got = best
      <4>. HIDE DEF end
      <4>. QED
        BY <2>0, <2>1, <3>2 DEF Viewing, Viewings
    <3>. HIDE DEF end
    <3>. QED
      BY <3>1, <3>3
  <2>. QED
    BY <2>3, <2>4 DEF where
<1>3. Moves(v, IF ~last THEN again ELSE end)
  BY DEF Passed
<1>4. /\ best # NoPicture => best.of # 0
      /\ best.of = 2 => camera # 1
      /\ viewer[v].of = 2 /\ best # NoPicture => revived \/ best.of = 2
  BY <1>1, ShotSizes DEF Truthful
<1>5. viewer[v].of # 0 /\ (viewer[v].of = 2 => camera # 1) /\ v \in Decoders
  BY <1>1 DEF Truthful, Decoders
<1>6. ~last => viewer[v].pass = 1
  BY <1>1
<1>. HIDE DEF best, last, again, end
<1>7. Truthful(again, camera, revived)
  BY <1>2, <1>4, <1>5 DEF Truthful
<1>8. Truthful(end, camera, revived)
  BY <1>2, <1>4, <1>5 DEF Truthful
<1>9. CASE ~last
  <2>1. Needs(again) <= Needs(viewer[v])
    BY <1>1, <1>2, <1>6, <1>9, ShotSizes DEF Needs
  <2>. QED
    BY <1>9, <1>1, <1>2, <1>3, <1>5, <1>7, <2>1, ShotSizes, Quiet
<1>10. CASE last
  <2>1. Needs(end) <= Needs(viewer[v])
    BY <1>1, <1>2, ShotSizes DEF Needs
  <2>. QED
    BY <1>10, <1>1, <1>2, <1>3, <1>5, <1>8, <2>1, Quiet
<1>. QED
  BY <1>9, <1>10

LEMMA DecodesPass ==
  ASSUME ShotInv, NEW v \in Viewers, DecodePass(v) PROVE ShotInv'
<1>1. camera \in 0..2
  BY DEF ShotInv, ShotTypeOK
<1>2. \A flat \in BOOLEAN : Shot(flat) \in Pictures /\ Shot(flat).of = camera
  BY <1>1, ShotSizes DEF Shot, Pictures
<1>3. viewer[v].at = "decoding" /\ UNCHANGED <<camera, lock, picture, torn, revived, shotBudget>>
  BY DEF DecodePass
<1>4. \/ camera # 0 /\ \E flat \in BOOLEAN : Passed(v, Shot(flat))
      \/ Passed(v, NoPicture)
  BY DEF DecodePass
<1>. QED
  BY <1>2, <1>3, <1>4, Passes, ShotSizes

LEMMA Publishes ==
  ASSUME ShotInv, NEW v \in Viewers, Publish(v) PROVE ShotInv'
<1>. DEFINE new == [viewer[v] EXCEPT !.at = "leaving"]
<1>1. /\ viewer[v].at = "decoded" /\ picture' = viewer[v].got /\ revived' = (revived \/ viewer[v].got.of # camera)
      /\ Moves(v, new) /\ UNCHANGED <<camera, lock, torn, shotBudget>>
  BY DEF Publish
<1>2. /\ viewer[v] \in Viewings /\ viewer[v].got \in Pictures /\ Truthful(viewer[v], camera, revived)
      /\ revived \in BOOLEAN
  BY DEF ShotInv, ShotTypeOK, Viewings
<1>3. /\ new \in Viewings /\ new.at = "leaving" /\ new.of = viewer[v].of /\ new.got = viewer[v].got
  BY <1>2 DEF Viewings
<1>. HIDE DEF new
<1>4. viewer' \in [Viewers -> Viewings] /\ viewer'[v] = new /\ \A w \in Viewers \ {v} : viewer'[w] = viewer[w]
  BY <1>1, <1>3, OneMoves DEF ShotInv, ShotTypeOK
<1>5. ShotTypeOK'
  BY <1>1, <1>2, <1>4 DEF ShotInv, ShotTypeOK
<1>6. PassInv'
  BY <1>3, <1>4 DEF ShotInv, PassInv
<1>7. LockInv'
  <2>1. Decoders' = Decoders
    BY <1>1, <1>3, <1>4 DEF Decoders
  <2>2. \A w \in Viewers : Needs(viewer'[w]) = Needs(viewer[w])
    BY <1>1, <1>3, <1>4 DEF Needs
  <2>. QED
    BY <1>1, <2>1, <2>2 DEF ShotInv, LockInv, Decoders
<1>8. \A w \in Viewers : Truthful(viewer'[w], camera', revived')
  <2>1. Truthful(new, camera, revived')
    BY <1>1, <1>2, <1>3 DEF Truthful
  <2>2. \A w \in Viewers : Truthful(viewer[w], camera, revived')
    BY <1>1 DEF ShotInv, Truthful
  <2>. QED
    BY <1>1, <1>4, <2>1, <2>2
<1>9. CacheTrue(picture', camera', revived')
  BY <1>1, <1>2 DEF Truthful, CacheTrue
<1>. QED
  BY <1>5, <1>6, <1>7, <1>8, <1>9 DEF ShotInv

LEMMA LetsGo ==
  ASSUME ShotInv, NEW v \in Viewers, LetGo(v) PROVE ShotInv'
<1>. DEFINE got == viewer[v].got
            new == IF got = NoPicture THEN Failed(viewer[v].of) ELSE Shown(viewer[v].of, got)
<1>1. /\ viewer[v].at = "leaving" /\ lock' = 0 /\ Moves(v, new) /\ torn' = (torn \/ (lock # 0 /\ Decoders # {v}))
      /\ UNCHANGED <<camera, picture, revived, shotBudget>>
  BY DEF LetGo
<1>2. /\ viewer[v] \in Viewings /\ viewer[v].of \in 0..2 /\ got \in Pictures /\ Truthful(viewer[v], camera, revived)
      /\ torn \in BOOLEAN
  BY DEF ShotInv, ShotTypeOK, Viewings
<1>3. /\ new \in Viewings /\ new.at = (IF got = NoPicture THEN "failed" ELSE "served") /\ new.of = viewer[v].of /\ new.got = got
  <2>1. got = NoPicture => /\ Failed(viewer[v].of) \in Viewings /\ Failed(viewer[v].of).at = "failed"
                            /\ Failed(viewer[v].of).of = viewer[v].of /\ Failed(viewer[v].of).got = got
    BY <1>2, ShotSizes, ViewingIs DEF Failed
  <2>2. /\ Shown(viewer[v].of, got) \in Viewings /\ Shown(viewer[v].of, got).at = "served"
        /\ Shown(viewer[v].of, got).of = viewer[v].of /\ Shown(viewer[v].of, got).got = got
    BY <1>2, ShotSizes, ViewingIs DEF Shown
  <2>. QED
    BY <2>1, <2>2
<1>. HIDE DEF new, got
<1>4. viewer' \in [Viewers -> Viewings] /\ viewer'[v] = new /\ \A w \in Viewers \ {v} : viewer'[w] = viewer[w]
  BY <1>1, <1>3, OneMoves DEF ShotInv, ShotTypeOK
<1>5. ShotTypeOK'
  BY <1>1, <1>2, <1>4, ShotSizes DEF ShotInv, ShotTypeOK
<1>6. PassInv'
  BY <1>3, <1>4 DEF ShotInv, PassInv
<1>7. LockInv'
  <2>1. v \in Decoders
    BY <1>1 DEF Decoders
  <2>2. ~torn => lock # 0
    <3>1. Needs(viewer[v]) = 0
      BY <1>1 DEF Needs
    <3>. QED
      BY <2>1, <3>1 DEF ShotInv, LockInv
  <2>3. ~torn' => Decoders' = {}
    BY <1>1, <1>3, <1>4, <2>2 DEF Decoders
  <2>. QED
    BY <2>3 DEF LockInv
<1>8. \A w \in Viewers : Truthful(viewer'[w], camera', revived')
  <2>1. Truthful(new, camera, revived)
    BY <1>1, <1>2, <1>3 DEF Truthful, got
  <2>. QED
    BY <1>1, <1>4, <2>1 DEF ShotInv
<1>. QED
  BY <1>1, <1>5, <1>6, <1>7, <1>8 DEF ShotInv

LEMMA WorkersDie ==
  ASSUME ShotInv, NEW v \in Viewers, WorkerLost(v) PROVE ShotInv'
<1>1. Moves(v, Away) /\ UNCHANGED <<camera, lock, picture, torn, revived>> /\ shotBudget' \in ShotBudgetTypes
  BY ShotSpent DEF WorkerLost, ShotInv
<1>2. Truthful(Away, camera, revived)
  BY ShotSizes DEF Truthful
<1>. QED
  BY <1>1, <1>2, ShotSizes, Quiet

LEMMA CamerasGo ==
  ASSUME ShotInv, Delete \/ Create PROVE ShotInv'
<1>1. /\ viewer' = viewer /\ revived' = revived /\ camera' # 1 /\ camera' \in 0..2
      /\ \/ lock' = 0 /\ picture' = NoPicture /\ torn' = (torn \/ Decoders # {})
         \/ lock' = lock /\ picture' = picture /\ torn' = torn /\ camera = 0
      /\ shotBudget' \in ShotBudgetTypes
  BY ShotSpent DEF Delete, Create, ShotInv, ShotTypeOK
<1>2. ShotTypeOK' /\ PassInv'
  <2>1. lock' \in 0..LockTime /\ picture' \in Pictures
    <3>1. lock \in 0..LockTime /\ picture \in Pictures /\ 0 \in 0..LockTime
      BY ShotSizes DEF ShotInv, ShotTypeOK
    <3>. QED
      BY <1>1, <3>1, ShotSizes
  <2>3. torn' \in BOOLEAN
    BY <1>1 DEF ShotInv, ShotTypeOK
  <2>2. ShotTypeOK'
    BY <1>1, <2>1, <2>3 DEF ShotInv, ShotTypeOK
  <2>. QED
    BY <1>1, <2>2 DEF ShotInv, PassInv
<1>3. LockInv'
  <2>1. Decoders' = Decoders
    BY <1>1 DEF Decoders
  <2>2. (~torn' => ~torn) /\ (~torn' => lock' = lock \/ Decoders = {})
    <3>1. torn \in BOOLEAN
      BY DEF ShotInv, ShotTypeOK
    <3>2. CASE Delete
      BY <3>1, <3>2 DEF Delete
    <3>3. CASE Create
      BY <3>3 DEF Create
    <3>. QED
      BY <3>2, <3>3
  <2>. QED
    BY <1>1, <2>1, <2>2 DEF ShotInv, LockInv
<1>4. \A w \in Viewers : Truthful(viewer'[w], camera', revived')
  BY <1>1 DEF ShotInv, Truthful
<1>5. CacheTrue(picture', camera', revived')
  BY <1>1 DEF ShotInv, CacheTrue
<1>. QED
  BY <1>2, <1>3, <1>4, <1>5 DEF ShotInv

LEMMA TimePasses ==
  ASSUME ShotInv, TickOver PROVE ShotInv'
<1>1. /\ UNCHANGED <<camera, torn, revived, shotBudget>> /\ lock' = Less(lock)
      /\ picture' = IF picture.left <= 1 THEN NoPicture ELSE [picture EXCEPT !.left = @ - 1]
      /\ viewer' = [v \in Viewers |-> IF viewer[v].at \in Timed THEN [viewer[v] EXCEPT !.left = @ - 1] ELSE viewer[v]]
      /\ \A v \in Viewers : viewer[v].at \in {"away", "served", "failed"} \/ (viewer[v].at \in Timed /\ viewer[v].left > 0)
  BY DEF TickOver
<1>2. ShotTypeOK
  BY DEF ShotInv
<1>3. \A v \in Viewers : viewer[v] \in Viewings /\ viewer[v].left \in 0..(PassLimit + WaitTime)
  BY <1>2 DEF ShotTypeOK, Viewings
<1>4. \A v \in Viewers : viewer[v].left > 0 =>
        LET r == [viewer[v] EXCEPT !.left = @ - 1] IN
        r \in Viewings /\ r.at = viewer[v].at /\ r.of = viewer[v].of /\ r.pass = viewer[v].pass /\ r.got = viewer[v].got
        /\ r.left = viewer[v].left - 1
  BY <1>3, ShotSizes DEF Viewings
<1>5. \A v \in Viewers : /\ viewer'[v] \in Viewings /\ viewer'[v].at = viewer[v].at /\ viewer'[v].of = viewer[v].of
                         /\ viewer'[v].pass = viewer[v].pass /\ viewer'[v].got = viewer[v].got
                         /\ viewer[v].at \in Timed => viewer[v].left > 0 /\ viewer'[v].left = viewer[v].left - 1
  BY <1>1, <1>3, <1>4 DEF Timed
<1>6. viewer' \in [Viewers -> Viewings]
  BY <1>1, <1>5
<1>7. picture' \in Pictures /\ (picture' # NoPicture => picture # NoPicture /\ picture'.of = picture.of)
  <2>1. picture \in Pictures /\ picture.left \in 0..CacheTime
    BY <1>2 DEF ShotTypeOK, Pictures
  <2>2. picture.left > 1 => [picture EXCEPT !.left = @ - 1] \in Pictures /\ [picture EXCEPT !.left = @ - 1].of = picture.of
    BY <2>1, ShotSizes DEF Pictures
  <2>3. NoPicture.left = 0
    BY DEF NoPicture
  <2>. QED
    BY <1>1, <2>1, <2>2, <2>3, ShotSizes
<1>8. lock' \in 0..LockTime /\ (lock > 0 => lock' = lock - 1) /\ lock \in 0..LockTime
  BY <1>1, <1>2, ShotSizes DEF ShotTypeOK, Less
<1>9. ShotTypeOK'
  BY <1>1, <1>2, <1>6, <1>7, <1>8 DEF ShotTypeOK
<1>10. PassInv'
  BY <1>3, <1>5, ShotSizes DEF ShotInv, PassInv, Timed
<1>11. LockInv'
  <2>1. Decoders' = Decoders
    BY <1>5 DEF Decoders
  <2>2. \A v \in Decoders : viewer[v].at = "decoding" /\ viewer[v].left > 0
    BY <1>1 DEF Decoders, Timed
  <2>3. \A v \in Decoders : Needs(viewer[v]) \in Nat /\ Needs(viewer[v]) > 0 /\ Needs(viewer'[v]) = Needs(viewer[v]) - 1
    BY <1>3, <1>5, <2>2, ShotSizes DEF Needs, Decoders, Timed
  <2>4. ASSUME ~torn, NEW v \in Decoders PROVE lock' > Needs(viewer'[v])
    <3>1. lock > Needs(viewer[v])
      BY <2>4 DEF ShotInv, LockInv
    <3>. QED
      BY <3>1, <2>3, <1>8
  <2>. QED
    BY <1>1, <2>1, <2>4 DEF ShotInv, LockInv
<1>12. \A v \in Viewers : Truthful(viewer'[v], camera', revived')
  BY <1>1, <1>5 DEF ShotInv, Truthful
<1>13. CacheTrue(picture', camera', revived')
  BY <1>1, <1>7 DEF ShotInv, CacheTrue
<1>. QED
  BY <1>9, <1>10, <1>11, <1>12, <1>13 DEF ShotInv

LEMMA ShotStarts == ShotInit => ShotInv
<1>. SUFFICES ASSUME ShotInit PROVE ShotInv
  OBVIOUS
<1>1. ShotTypeOK
  <2>1. shotBudget \in ShotBudgetTypes
    BY ShotAssumption DEF ShotInit
  <2>2. viewer \in [Viewers -> Viewings] /\ lock \in 0..LockTime
    BY ShotSizes DEF ShotInit
  <2>3. camera \in 0..2 /\ picture \in Pictures
    BY ShotSizes DEF ShotInit
  <2>4. torn \in BOOLEAN /\ revived \in BOOLEAN
    BY DEF ShotInit
  <2>. QED
    BY <2>1, <2>2, <2>3, <2>4 DEF ShotTypeOK
<1>2. \A v \in Viewers : viewer[v] = Away
  BY DEF ShotInit
<1>3. PassInv /\ LockInv
  BY <1>2, ShotSizes DEF PassInv, LockInv, Decoders
<1>4. \A v \in Viewers : Truthful(viewer[v], camera, revived)
  BY <1>2, ShotSizes DEF Truthful
<1>5. CacheTrue(picture, camera, revived)
  BY DEF ShotInit, CacheTrue
<1>. QED
  BY <1>1, <1>3, <1>4, <1>5 DEF ShotInv

LEMMA ShotSteps == ASSUME ShotInv, ShotNext PROVE ShotInv'
BY Looks, Decides, Waits, DecodesPass, Publishes, LetsGo, WorkersDie, CamerasGo, TimePasses DEF ShotNext, Asking

LEMMA ShotShows == ASSUME ShotInv PROVE OneDecode /\ OwnPicture
<1>1. OneDecode
  <2>1. CASE Decoders = {}
    BY <2>1, FS_EmptySet DEF OneDecode
  <2>2. CASE Decoders # {} /\ ~torn
    <3>1. PICK v : v \in Decoders
      BY <2>2
    <3>2. Decoders = {v}
      BY <3>1, <2>2 DEF ShotInv, LockInv
    <3>3. Cardinality({v}) = 1
      BY FS_Singleton
    <3>4. Cardinality(Decoders) = 1
      BY <3>2, <3>3
    <3>. QED
      BY <3>4 DEF OneDecode
  <2>. QED
    BY <2>1, <2>2 DEF OneDecode
<1>2. OwnPicture
  <2>1. \A v \in Viewers : viewer[v] \in Viewings /\ viewer[v].of \in 0..2 /\ viewer[v].got.of \in 0..2
    BY DEF ShotInv, ShotTypeOK, Viewings, Pictures
  <2>. QED
    BY <2>1 DEF ShotInv, Truthful, OwnPicture
<1>. QED
  BY <1>1, <1>2

--------------------------------------------------------------------------------
(* Cap and floor.                                                               *)

(* An accepted cap leaves the reserve free beside the other files, as long as they do not grow. *)
CapFits == honest => cap.memory = 0 \/ cap.memory + disk.other <= Disk - Reserve
LevelInv ==
  /\ disk \in [footage : 0..Disk, cache : 0..Disk, other : 0..Disk] /\ Free >= 0
  /\ cap \in [memory : 0..Disk, file : 0..Disk] /\ honest \in BOOLEAN
  /\ levelBudget \in LevelBudgetTypes
  /\ CapFits

LEMMA LevelSizes ==
  /\ Disk \in Nat /\ CritFree \in Nat /\ WarnFree \in Nat /\ Reserve \in Nat
  /\ 3 <= Disk /\ CritFree < WarnFree /\ CritFree <= Reserve /\ Reserve < Disk
BY LevelAssumption

LEMMA DiskParts ==
  ASSUME NEW d \in [footage : 0..Disk, cache : 0..Disk, other : 0..Disk]
  PROVE  d.footage \in 0..Disk /\ d.cache \in 0..Disk /\ d.other \in 0..Disk
OBVIOUS

LEMMA Paid ==
  ASSUME LevelInv, NEW what \in {"footage", "cache", "other", "shrink", "cap", "save", "post", "hours", "restart"}, Pay(what)
  PROVE  levelBudget' \in LevelBudgetTypes /\ levelBudget' # levelBudget
<1>1. /\ levelBudget \in LevelBudgetTypes /\ levelBudget[what] > 0 /\ levelBudget' = [levelBudget EXCEPT ![what] = @ - 1]
  BY DEF LevelInv, Pay
<1>2. levelBudget[what] \in Nat /\ levelBudget'[what] = levelBudget[what] - 1
  BY <1>1 DEF LevelBudgetTypes
<1>3. levelBudget' # levelBudget
  BY <1>2
<1>. QED
  BY <1>1, <1>3 DEF LevelBudgetTypes

LEMMA FloorKept ==
  ASSUME LevelInv, KeepFloor
  PROVE  /\ disk' \in [footage : 0..Disk, cache : 0..Disk, other : 0..Disk] /\ Free' >= 0
         /\ disk'.other = disk.other
         /\ disk'.footage < disk.footage => Free + disk.cache < Reserve
<1>1. disk \in [footage : 0..Disk, cache : 0..Disk, other : 0..Disk] /\ Free >= 0
  BY DEF LevelInv
<1>2. disk.footage \in 0..Disk /\ disk.cache \in 0..Disk /\ disk.other \in 0..Disk
  BY <1>1
<1>3. CASE ~FloorBroken
  BY <1>1, <1>2, <1>3, LevelSizes DEF KeepFloor, Free
<1>4. CASE FloorBroken
  <2>. DEFINE d == CacheDropped
              left == Disk - d.footage - d.cache - d.other
              take == Least(d.footage, Reserve - left)
  <2>1. d.footage = disk.footage /\ d.cache = 0 /\ d.other = disk.other
        /\ d \in [footage : 0..Disk, cache : 0..Disk, other : 0..Disk]
    BY <1>1, LevelSizes DEF CacheDropped
  <2>2. left = Free + disk.cache /\ left \in Nat
    BY <1>1, <1>2, <2>1, LevelSizes DEF Free
  <2>3. CASE left >= Reserve
    <3>1. disk' = d
      BY <1>4, <2>3 DEF KeepFloor
    <3>. HIDE DEF d
    <3>. QED
      BY <3>1, <2>1, <1>1, <1>2, LevelSizes DEF Free
  <2>4. CASE left < Reserve
    <3>1. disk' = [d EXCEPT !.footage = @ - Least(@, Reserve - left)]
      BY <1>4, <2>2, <2>4, LevelSizes DEF KeepFloor
    <3>2. take \in 0..d.footage
      BY <2>1, <2>2, <2>4, <1>2, LevelSizes DEF Least
    <3>3. disk' = [d EXCEPT !.footage = @ - take]
      BY <3>1
    <3>. HIDE DEF d, take
    <3>4. disk'.footage = d.footage - take /\ disk'.cache = d.cache /\ disk'.other = d.other
          /\ disk' \in [footage : 0..Disk, cache : 0..Disk, other : 0..Disk]
      BY <3>2, <3>3, <2>1, <1>2, LevelSizes
    <3>. QED
      BY <3>4, <3>2, <2>1, <2>2, <2>4, <1>1, <1>2, LevelSizes DEF Free
  <2>. QED
    BY <2>2, <2>3, <2>4, LevelSizes
<1>. QED
  BY <1>3, <1>4

LEMMA LevelStarts == LevelInit => LevelInv
<1>. SUFFICES ASSUME LevelInit PROVE LevelInv
  OBVIOUS
<1>1. levelBudget \in LevelBudgetTypes /\ levelBudget.seed \in 0..Disk
  BY LevelAssumption DEF LevelInit, LevelBudgetTypes
<1>2. disk = [footage |-> 2, cache |-> 0, other |-> 1] /\ disk \in [footage : 0..Disk, cache : 0..Disk, other : 0..Disk]
  BY LevelSizes DEF LevelInit
<1>3. Free >= 0
  BY <1>2, LevelSizes DEF Free
<1>4. cap = [memory |-> levelBudget.seed, file |-> levelBudget.seed] /\ honest = FALSE
  BY DEF LevelInit
<1>5. cap \in [memory : 0..Disk, file : 0..Disk]
  BY <1>1, <1>4
<1>. QED
  BY <1>1, <1>2, <1>3, <1>4, <1>5 DEF LevelInv, CapFits

\* What a step does to the disk, the cap and the account.
LEMMA LevelSteps ==
  ASSUME LevelInv, LevelNext
  PROVE  LevelInv' /\ (TakenByFloor => KeepFloor)
<1>1. /\ disk \in [footage : 0..Disk, cache : 0..Disk, other : 0..Disk] /\ Free >= 0
      /\ cap \in [memory : 0..Disk, file : 0..Disk] /\ honest \in BOOLEAN
      /\ levelBudget \in LevelBudgetTypes /\ CapFits
  BY DEF LevelInv
<1>2. disk.footage \in 0..Disk /\ disk.cache \in 0..Disk /\ disk.other \in 0..Disk /\ cap.memory \in 0..Disk /\ cap.file \in 0..Disk
  BY <1>1
<1>3. ASSUME NEW what \in {"footage", "cache", "other"}, Fill(what) PROVE LevelInv' /\ ~TakenByFloor
  <2>1. levelBudget' \in LevelBudgetTypes /\ levelBudget' # levelBudget
    BY <1>3, Paid DEF Fill
  <2>2. Free > 0 /\ disk' = [disk EXCEPT ![what] = @ + 1] /\ cap' = cap /\ honest' = (honest /\ what # "other")
    BY <1>3 DEF Fill
  <2>3. disk' \in [footage : 0..Disk, cache : 0..Disk, other : 0..Disk] /\ Free' >= 0 /\ (what # "other" => disk'.other = disk.other)
    BY <2>2, <1>1, <1>2, LevelSizes DEF Free
  <2>. QED
    BY <1>1, <2>1, <2>2, <2>3 DEF LevelInv, CapFits, TakenByFloor
<1>4. ASSUME NEW what \in {"footage", "other"}, Shrink(what) PROVE LevelInv' /\ ~TakenByFloor
  <2>1. levelBudget' \in LevelBudgetTypes /\ levelBudget' # levelBudget
    BY <1>4, Paid DEF Shrink
  <2>2. disk[what] > 0 /\ disk' = [disk EXCEPT ![what] = @ - 1] /\ cap' = cap /\ honest' = honest
    BY <1>4 DEF Shrink
  <2>3. disk' \in [footage : 0..Disk, cache : 0..Disk, other : 0..Disk] /\ Free' >= 0 /\ disk'.other <= disk.other /\ disk'.other \in 0..Disk
    BY <2>2, <1>1, <1>2, LevelSizes DEF Free
  <2>4. CapFits'
    BY <1>1, <1>2, <2>2, <2>3, LevelSizes DEF CapFits
  <2>. QED
    BY <1>1, <2>1, <2>2, <2>3, <2>4 DEF LevelInv, TakenByFloor
<1>5. ASSUME NEW g \in 0..Disk, SetCap(g) PROVE LevelInv' /\ ~TakenByFloor
  <2>1. levelBudget' \in LevelBudgetTypes /\ levelBudget' # levelBudget /\ disk' = disk /\ honest' = TRUE /\ g <= Ceiling
    BY <1>5, Paid DEF SetCap
  <2>2. cap' \in [memory : 0..Disk, file : 0..Disk] /\ cap'.memory = g
    BY <1>5, <1>1 DEF SetCap
  <2>3. g = 0 \/ g + disk.other <= Disk - Reserve
    BY <2>1, <1>1, <1>2, LevelSizes DEF Ceiling, Free
  <2>. QED
    BY <1>1, <2>1, <2>2, <2>3 DEF LevelInv, CapFits, TakenByFloor, Free
<1>6. CASE EnforceCap
  <2>1. cap' = cap /\ honest' = honest /\ levelBudget' = levelBudget /\ ~TakenByFloor
    BY <1>6 DEF EnforceCap, TakenByFloor
  <2>2. disk' = disk \/ (OverCap /\ disk' = [disk EXCEPT !.footage = cap.memory])
    BY <1>6 DEF EnforceCap
  <2>3. disk' \in [footage : 0..Disk, cache : 0..Disk, other : 0..Disk] /\ Free' >= 0 /\ disk'.other = disk.other
    BY <2>2, <1>1, <1>2, LevelSizes DEF OverCap, Free
  <2>. QED
    BY <1>1, <2>1, <2>3 DEF LevelInv, CapFits
<1>7. CASE EnforceFloor
  BY <1>7, <1>1, FloorKept DEF EnforceFloor, LevelInv, CapFits
<1>8. CASE CheckDisk
  <2>1. cap' = cap /\ honest' = honest /\ levelBudget' = levelBudget /\ (KeepFloor \/ disk' = disk)
    BY <1>8 DEF CheckDisk
  <2>2. disk' = disk => LevelInv' /\ ~TakenByFloor
    BY <1>1, <1>2, <2>1 DEF LevelInv, CapFits, Free, TakenByFloor
  <2>3. KeepFloor => LevelInv'
    BY <1>1, <2>1, FloorKept DEF LevelInv, CapFits
  <2>. QED
    BY <2>1, <2>2, <2>3
<1>9. CASE HoursPass
  <2>1. levelBudget' \in LevelBudgetTypes /\ levelBudget' # levelBudget
    BY <1>9, Paid DEF HoursPass
  <2>. QED
    BY <1>1, <1>9, <2>1 DEF HoursPass, LevelInv, CapFits, Free, TakenByFloor
<1>10. CASE Alarming
  <2>1. disk' = disk /\ cap' = cap /\ honest' = honest
    BY <1>10 DEF Alarming, CheckAlarm, Notify, SaveState
  <2>2. levelBudget' \in LevelBudgetTypes
    BY <1>10, <1>1, Paid DEF Alarming, CheckAlarm, Notify, SaveState
  <2>. QED
    BY <1>1, <1>2, <2>1, <2>2 DEF LevelInv, CapFits, Free, TakenByFloor
<1>11. CASE Restart
  <2>1. levelBudget' \in LevelBudgetTypes /\ levelBudget' # levelBudget
    BY <1>11, Paid DEF Restart
  <2>2. disk' = disk /\ cap' = [cap EXCEPT !.memory = cap.file] /\ honest' = (honest /\ cap.memory = cap.file)
    BY <1>11 DEF Restart
  <2>3. cap' \in [memory : 0..Disk, file : 0..Disk] /\ cap'.memory = cap.file
    BY <2>2, <1>1
  <2>. QED
    BY <1>1, <2>1, <2>2, <2>3 DEF LevelInv, CapFits, Free, TakenByFloor
<1>. QED
  BY <1>3, <1>4, <1>5, <1>6, <1>7, <1>8, <1>9, <1>10, <1>11 DEF LevelNext, Keeping, EnforceFloor

\* The floor comes last: only when the cache was not enough, and never below an accepted cap.
LEMMA FloorSteps ==
  ASSUME LevelInv, LevelNext, TakenByFloor
  PROVE  /\ Free + disk.cache < Reserve
         /\ honest /\ cap.memory # 0 => disk.footage > cap.memory
<1>1. Free + disk.cache < Reserve
  BY LevelSteps, FloorKept DEF TakenByFloor
<1>2. disk.footage \in 0..Disk /\ disk.cache \in 0..Disk /\ disk.other \in 0..Disk /\ cap.memory \in 0..Disk /\ CapFits
  BY DEF LevelInv
<1>. QED
  BY <1>1, <1>2, LevelSizes DEF CapFits, Free

\* The alerter's state and the last sample keep their types.
AlarmInv ==
  /\ sampled \in -1..Disk
  /\ alarm \in [at : {"idle", "notify", "save"}, level : Levels]
  /\ told \in [memory : Levels \cup {"unknown"}, file : Levels \cup {"unknown"}]

LEMMA AlarmStarts == LevelInit => AlarmInv
BY LevelSizes DEF LevelInit, AlarmInv, Levels

LEMMA AlarmSteps == ASSUME LevelInv, AlarmInv, LevelNext PROVE AlarmInv'
<1>. USE DEF AlarmInv
<1>1. ASSUME UNCHANGED <<sampled, alarm, told>> PROVE AlarmInv'
  BY <1>1
<1>2. ASSUME NEW what \in {"footage", "cache", "other"}, Fill(what) \/ Shrink(what) PROVE AlarmInv'
  BY <1>1, <1>2 DEF Fill, Shrink, alarmVars
<1>3. ASSUME NEW g \in 0..Disk, SetCap(g) PROVE AlarmInv'
  BY <1>1, <1>3 DEF SetCap, alarmVars
<1>4. ASSUME Keeping \/ HoursPass PROVE AlarmInv'
  BY <1>1, <1>4 DEF Keeping, EnforceCap, EnforceFloor, HoursPass, alarmVars
<1>5. CASE CheckDisk
  <2>1. Free \in 0..Disk
    <3>1. disk.footage \in 0..Disk /\ disk.cache \in 0..Disk /\ disk.other \in 0..Disk /\ Free >= 0
      BY DEF LevelInv
    <3>. QED
      BY <3>1, LevelSizes DEF Free
  <2>2. sampled' = Free /\ UNCHANGED <<alarm, told>>
    BY <1>5 DEF CheckDisk, alarmVars
  <2>. QED
    BY <2>1, <2>2
<1>6. CASE CheckAlarm
  <2>1. Evaluate \in Levels
    BY DEF Evaluate, Levels
  <2>. QED
    BY <1>6, <2>1 DEF CheckAlarm
<1>7. CASE Notify \/ SaveState
  <2>1. alarm.level \in Levels
    OBVIOUS
  <2>. QED
    BY <1>7, <2>1 DEF Notify, SaveState
<1>8. CASE Restart
  <2>1. -1 \in -1..Disk
    BY LevelSizes
  <2>2. told.file \in Levels \cup {"unknown"}
    OBVIOUS
  <2>. QED
    BY <1>8, <2>1, <2>2 DEF Restart
<1>. QED
  BY <1>2, <1>3, <1>4, <1>5, <1>6, <1>7, <1>8 DEF LevelNext, Alarming

LEMMA LevelHolds == LevelInv /\ AlarmInv => LevelTypeOK
BY DEF LevelInv, AlarmInv, LevelTypeOK

--------------------------------------------------------------------------------
(* The live paths.                                                            *)

Sites == [enabled : BOOLEAN, url : Urls, sub : {"none", "resolved", "recorded"}] \cup {NoSite}
RelayPaths == [pull : Urls \cup {NoUrl}, hop : Urls \cup {NoUrl}]
RelayCalls == [do : {"add", "patch", "remove", "mirror", "flag", "unfail", "forget"}, track : Streams, url : Urls \cup {NoUrl}]
PartyStates == [at : {"idle", "row", "check", "sweep", "compare"}, site : Sites, todo : Seq(RelayCalls),
                shape : {"unread", "pull", "hop"}]
Notes == [flag : BOOLEAN, fails : 0 .. Threshold, held : SUBSET {"reconnect", "restamp"}]

(* What a party has read of the flag is for the call it is at.                  *)
ShapeFits(q) == q.shape # "unread" => q.todo # <<>> /\ Head(q.todo).do \in {"add", "patch"}
RelayInv ==
  /\ site \in Sites /\ accepts \subseteq Urls /\ accepts # {}
  /\ paths \in [Streams -> RelayPaths] /\ mtx \in BOOLEAN
  /\ redis \in Notes /\ mirror \in BOOLEAN
  /\ party \in [Parties -> PartyStates]
  /\ \A p \in Parties : ShapeFits(party[p])
  /\ party["monitor"].at = "sweep" => party["monitor"].todo = <<>>
  /\ "anew" \in DOMAIN relayBudget /\ relayBudget["anew"] \in Urls

LEMMA RelayStarts == RelayInit => RelayInv
<1>. SUFFICES ASSUME RelayInit PROVE RelayInv
  OBVIOUS
<1>1. relayBudget \in RelayBudgets
  BY DEF RelayInit
<1>2. /\ "anew" \in DOMAIN relayBudget /\ relayBudget["anew"] \in Urls
      /\ relayBudget.sub \in {"none", "resolved", "recorded"}
  BY <1>1, RelayAssumption DEF Urls
<1>3. site \in Sites
  BY <1>2 DEF RelayInit, Sites, Urls
<1>4. accepts \subseteq Urls /\ accepts # {} /\ paths \in [Streams -> RelayPaths]
  <2>1. accepts = {1} /\ 1 \in Urls
    BY DEF RelayInit, Urls
  <2>2. [pull |-> 1, hop |-> NoUrl] \in RelayPaths /\ NoPath \in RelayPaths
    BY DEF Urls, RelayPaths, NoUrl, NoPath
  <2>. QED
    BY <2>1, <2>2 DEF RelayInit
<1>5. AtEase \in PartyStates /\ ShapeFits(AtEase) /\ AtEase.at = "idle"
  BY DEF AtEase, PartyStates, ShapeFits, Sites
<1>6. redis \in Notes
  BY RelayAssumption DEF RelayInit, Notes, NothingNoted
<1>7. party \in [Parties -> PartyStates] /\ \A p \in Parties : party[p] = AtEase
  BY <1>5 DEF RelayInit
<1>. QED
  BY <1>2, <1>3, <1>4, <1>5, <1>6, <1>7 DEF RelayInv, RelayInit, Parties

LEMMA CallTypes ==
  ASSUME NEW u \in Urls \cup {NoUrl}, NEW names
  PROVE  /\ AddAll(names, u) \in Seq(RelayCalls) /\ RemoveAll(names) \in Seq(RelayCalls)
         /\ Cycle(u) \in Seq(RelayCalls) /\ Ensure(u) \in Seq(RelayCalls)
         /\ \A what \in {"mirror", "flag", "unfail", "forget"} : Note(what) \in RelayCalls
         /\ \A what \in {"add", "patch", "remove"}, t \in Streams : Do(what, t, u) \in RelayCalls /\ Do(what, t, NoUrl) \in RelayCalls
<1>1. /\ \A what \in {"add", "patch", "remove"}, t \in Streams : Do(what, t, u) \in RelayCalls /\ Do(what, t, NoUrl) \in RelayCalls
      /\ \A what \in {"mirror", "flag", "unfail", "forget"} : Note(what) \in RelayCalls
  BY DEF Do, Note, RelayCalls, Streams
<1>2. Do("add", "main", u) \in RelayCalls /\ Do("add", "sub", u) \in RelayCalls /\ Do("patch", "sub", u) \in RelayCalls
      /\ Do("remove", "main", u) \in RelayCalls /\ Do("remove", "main", NoUrl) \in RelayCalls /\ Do("remove", "sub", NoUrl) \in RelayCalls
  BY <1>1 DEF Streams
<1>3. AddAll(names, u) \in Seq(RelayCalls)
  <2> DEFINE a == IF "main" \in names THEN <<Do("add", "main", u)>> ELSE <<>>
             b == IF "sub" \in names THEN <<Do("add", "sub", u)>> ELSE <<>>
  <2>1. a \in Seq(RelayCalls) /\ b \in Seq(RelayCalls)
    BY <1>2
  <2>2. AddAll(names, u) = a \o b
    BY DEF AddAll, ForEach
  <2>. QED
    BY <2>1, <2>2, ConcatProperties
<1>4. RemoveAll(names) \in Seq(RelayCalls)
  <2> DEFINE a == IF "main" \in names THEN <<Do("remove", "main", NoUrl)>> ELSE <<>>
             b == IF "sub" \in names THEN <<Do("remove", "sub", NoUrl)>> ELSE <<>>
  <2>1. a \in Seq(RelayCalls) /\ b \in Seq(RelayCalls)
    BY <1>2
  <2>2. RemoveAll(names) = a \o b
    BY DEF RemoveAll, ForEach
  <2>. QED
    BY <2>1, <2>2, ConcatProperties
<1>5. Cycle(u) \in Seq(RelayCalls) /\ Ensure(u) \in Seq(RelayCalls)
  BY <1>2 DEF Cycle, Ensure
<1>. QED
  BY <1>1, <1>3, <1>4, <1>5

(* One party goes on.                                                           *)
LEMMA OneParty ==
  ASSUME RelayInv, NEW p \in Parties, NEW q \in PartyStates, ShapeFits(q),
         p = "monitor" /\ q.at = "sweep" => q.todo = <<>>,
         party' = [party EXCEPT ![p] = q],
         site' \in Sites, accepts' = accepts, paths' \in [Streams -> RelayPaths], mtx' = mtx, redis' \in Notes, mirror' \in BOOLEAN,
         relayBudget' = relayBudget
  PROVE  RelayInv'
<1>1. \A r \in Parties : party'[r] = IF r = p THEN q ELSE party[r]
  BY DEF RelayInv
<1>2. party' \in [Parties -> PartyStates] /\ \A r \in Parties : ShapeFits(party'[r])
  BY <1>1 DEF RelayInv
<1>3. party'["monitor"].at = "sweep" => party'["monitor"].todo = <<>>
  BY <1>1 DEF RelayInv, Parties
<1>4. \A r \in Parties : ShapeFits(party[r])'
  BY <1>2 DEF ShapeFits
<1>. QED
  BY <1>2, <1>3, <1>4 DEF RelayInv

LEMMA FlagRead == ASSUME RelayInv, NEW p \in Parties, ReadFlag(p) PROVE RelayInv'
<1> DEFINE o == party[p]
           q == [at |-> o.at, site |-> o.site, todo |-> o.todo, shape |-> IF redis.flag THEN "hop" ELSE "pull"]
<1>1. o \in PartyStates /\ party \in [Parties -> PartyStates]
  BY DEF RelayInv
<1>2. party' = [party EXCEPT ![p] = q]
  <2>1. [o EXCEPT !.shape = IF redis.flag THEN "hop" ELSE "pull"] = q
    BY <1>1 DEF PartyStates
  <2>2. party' = [party EXCEPT ![p] = [o EXCEPT !.shape = IF redis.flag THEN "hop" ELSE "pull"]]
    BY <1>1 DEF ReadFlag
  <2>. QED
    BY <2>1, <2>2
<1>3. q \in PartyStates /\ ShapeFits(q)
  BY <1>1 DEF PartyStates, ShapeFits, ReadFlag, Busy, NextCall
<1>4. ~(p = "monitor" /\ q.at = "sweep")
  BY DEF RelayInv, ReadFlag, Busy
<1>5. /\ site' \in Sites /\ accepts' = accepts /\ paths' \in [Streams -> RelayPaths] /\ mtx' = mtx /\ redis' \in Notes
      /\ mirror' \in BOOLEAN /\ relayBudget' = relayBudget
  BY DEF RelayInv, ReadFlag, mtxVars
<1>. QED
  BY <1>2, <1>3, <1>4, <1>5, OneParty

(* A party is past its first call.                                              *)
LEMMA NextCallType ==
  ASSUME RelayInv, NEW p \in Parties, Busy(p)
  PROVE  /\ NextCall(p) \in RelayCalls /\ Tail(party[p].todo) \in Seq(RelayCalls)
         /\ party[p] \in PartyStates /\ ~(p = "monitor" /\ party[p].at = "sweep")
<1>1. party[p] \in PartyStates
  BY DEF RelayInv
<1>2. party[p].todo \in Seq(RelayCalls) /\ party[p].todo # <<>>
  BY <1>1 DEF PartyStates, Busy
<1>. QED
  BY <1>1, <1>2 DEF NextCall, RelayInv

LEMMA AfterKept ==
  ASSUME RelayInv, NEW p \in Parties, Busy(p), NEW rest \in Seq(RelayCalls), party' = After(p, rest),
         site' \in Sites, accepts' = accepts, paths' \in [Streams -> RelayPaths], mtx' = mtx, redis' \in Notes, mirror' \in BOOLEAN,
         relayBudget' = relayBudget
  PROVE  RelayInv'
<1> DEFINE o == party[p]
           q == [at |-> o.at, site |-> o.site, todo |-> rest, shape |-> "unread"]
<1>1. o \in PartyStates /\ party \in [Parties -> PartyStates] /\ ~(p = "monitor" /\ o.at = "sweep")
  BY NextCallType DEF RelayInv
<1>2. party' = [party EXCEPT ![p] = q]
  BY <1>1 DEF After
<1>3. q \in PartyStates /\ ShapeFits(q)
  BY <1>1 DEF PartyStates, ShapeFits
<1>. QED
  BY <1>1, <1>2, <1>3, OneParty

LEMMA RelayCalled == ASSUME RelayInv, NEW p \in Parties, CallRelay(p) PROVE RelayInv'
<1> DEFINE c == NextCall(p)
           t == c.track
<1>1. Busy(p) /\ c \in RelayCalls /\ Tail(party[p].todo) \in Seq(RelayCalls) /\ t \in Streams
  BY NextCallType DEF CallRelay, RelayCalls
<1>2. Shaped(p) \in RelayPaths /\ NoPath \in RelayPaths /\ paths[t] \in RelayPaths
  BY <1>1 DEF Shaped, RelayPaths, RelayCalls, NoPath, RelayInv
<1>3. Merged(paths[t], Shaped(p)) \in RelayPaths
  BY <1>2 DEF Merged, RelayPaths
<1>4. paths' \in [Streams -> RelayPaths]
  <2> DEFINE x == CASE c.do = "remove" -> NoPath
                    [] c.do = "patch" -> Merged(paths[t], Shaped(p))
                    [] c.do = "add" -> IF Present(t) THEN paths[t] ELSE Shaped(p)
  <2>1. x \in RelayPaths
    BY <1>2, <1>3 DEF CallRelay
  <2>2. paths' = [paths EXCEPT ![t] = x]
    BY <1>1 DEF CallRelay, RelayInv
  <2>. QED
    BY <2>1, <2>2 DEF RelayInv
<1>. QED
  BY <1>1, <1>4, AfterKept DEF CallRelay, RelayInv

LEMMA CallFailed == ASSUME RelayInv, NEW p \in Parties, CallFails(p) PROVE RelayInv'
<1> DEFINE rest == IF p = "sync" THEN Tail(party[p].todo) ELSE <<>>
<1>1. Busy(p) /\ rest \in Seq(RelayCalls)
  BY NextCallType DEF CallFails
<1>2. redis' \in Notes
  BY DEF RelayInv, CallFails, Notes
<1>. QED
  BY <1>1, <1>2, AfterKept DEF CallFails, RelayInv, mtxVars

LEMMA StoreCalled == ASSUME RelayInv, NEW p \in Parties, CallStore(p) PROVE RelayInv'
<1> DEFINE o == party[p]
           rest == Tail(o.todo)
           q == [at |-> o.at, site |-> o.site, todo |-> rest, shape |-> o.shape]
<1>1. /\ Busy(p) /\ o \in PartyStates /\ party \in [Parties -> PartyStates] /\ ~(p = "monitor" /\ o.at = "sweep")
      /\ Tail(o.todo) \in Seq(RelayCalls)
  BY NextCallType DEF CallStore, RelayInv
<1>2. party' = [party EXCEPT ![p] = q]
  <2>2. party' = [party EXCEPT ![p] = [o EXCEPT !.todo = rest]]
    BY <1>1 DEF CallStore
  <2> HIDE DEF rest
  <2>1. [o EXCEPT !.todo = rest] = q
    BY <1>1 DEF PartyStates
  <2>. QED
    BY <2>1, <2>2
<1>3. o.shape = "unread"
  BY <1>1 DEF RelayInv, ShapeFits, CallStore, NextCall, Busy, PartyStates
<1>4. q \in PartyStates /\ ShapeFits(q)
  BY <1>1, <1>3 DEF PartyStates, ShapeFits
<1>5. redis' \in Notes /\ mirror' \in BOOLEAN
  <2>1. /\ redis \in Notes /\ mirror \in BOOLEAN /\ 0 \in 0 .. Threshold /\ redis.held \in SUBSET {"reconnect", "restamp"}
    BY RelayAssumption DEF RelayInv, Notes
  <2>2. mirror' \in BOOLEAN
    BY <2>1 DEF CallStore
  <2>3. \/ redis' = redis \/ redis' = [redis EXCEPT !.flag = TRUE] \/ redis' = [redis EXCEPT !.fails = 0]
        \/ redis' = [flag |-> FALSE, fails |-> 0, held |-> redis.held]
    BY DEF CallStore
  <2>4. [redis EXCEPT !.flag = TRUE] \in Notes
    BY <2>1 DEF Notes
  <2>5. [redis EXCEPT !.fails = 0] \in Notes
    BY <2>1 DEF Notes
  <2>6. [flag |-> FALSE, fails |-> 0, held |-> redis.held] \in Notes
    BY <2>1 DEF Notes
  <2>. QED
    BY <2>1, <2>2, <2>3, <2>4, <2>5, <2>6
<1>. QED
  BY <1>1, <1>2, <1>4, <1>5, OneParty DEF CallStore, RelayInv, mtxVars
(* The parties' own steps: what each reads, and what it goes on to call.        *)
LEMMA Replaced ==
  ASSUME RelayInv, NEW p \in Parties, NEW q \in PartyStates, q.shape = "unread",
         p = "monitor" /\ q.at = "sweep" => q.todo = <<>>,
         party' = [party EXCEPT ![p] = q], UNCHANGED <<site, accepts, mtxVars, mirror, relayBudget>>, redis' \in Notes
  PROVE  RelayInv'
BY OneParty DEF RelayInv, ShapeFits, mtxVars

LEMMA Checked == ASSUME RelayInv, NEW p \in {"check", "monitor"}, Check(p) PROVE RelayInv'
<1> DEFINE o == party[p]
           u == o.site.url
<1>1. p \in Parties /\ o \in PartyStates /\ redis \in Notes
  BY DEF RelayInv, Parties
<1>2. u \in Urls \cup {NoUrl}
  BY <1>1 DEF PartyStates, Sites, NoSite, NoUrl
<1>3. ASSUME NEW todo \in Seq(RelayCalls)
      PROVE  [AtEase EXCEPT !.todo = todo] \in PartyStates
             /\ [AtEase EXCEPT !.todo = todo].shape = "unread" /\ [AtEase EXCEPT !.todo = todo].at = "idle"
  BY DEF AtEase, PartyStates, Sites
<1>4. AtEase \in PartyStates /\ AtEase.shape = "unread" /\ AtEase.at = "idle"
  BY DEF AtEase, PartyStates, Sites
<1>5. /\ redis' \in Notes
      /\ \E q \in PartyStates : q.shape = "unread" /\ q.at = "idle" /\ party' = [party EXCEPT ![p] = q]
  <2>1. CASE Connected("main")
    <3> DEFINE n == IF redis.fails < Threshold THEN redis.fails + 1 ELSE redis.fails
               wins == n >= Threshold /\ "restamp" \notin redis.held
               held == IF wins THEN redis.held \cup {"restamp"} ELSE redis.held
               todo == IF wins THEN <<Note("mirror"), Note("flag")>> \o Cycle(u) \o <<Note("unfail")>> ELSE <<>>
    <3>1. \/ redis' = [redis EXCEPT !.fails = 0] /\ party' = [party EXCEPT ![p] = AtEase]
          \/ redis' = redis /\ party' = [party EXCEPT ![p] = AtEase]
          \/ /\ redis' = [flag |-> redis.flag, fails |-> n, held |-> held]
             /\ party' = [party EXCEPT ![p] = [AtEase EXCEPT !.todo = todo]]
      BY <2>1 DEF Check, Probed
    <3>2. n \in 0 .. Threshold /\ 0 \in 0 .. Threshold /\ redis.flag \in BOOLEAN /\ redis.held \in SUBSET {"reconnect", "restamp"}
      BY <1>1, RelayAssumption DEF Notes
    <3>3. held \in SUBSET {"reconnect", "restamp"}
      BY <3>2
    <3>4. [redis EXCEPT !.fails = 0] \in Notes
      BY <1>1, <3>2 DEF Notes
    <3>5. [flag |-> redis.flag, fails |-> n, held |-> held] \in Notes
      <4> HIDE DEF n, held
      <4>. QED
        BY <3>2, <3>3 DEF Notes
    <3>6. todo \in Seq(RelayCalls)
      <4> DEFINE a == <<Note("mirror"), Note("flag")>>
                 b == <<Note("unfail")>>
      <4>1. a \in Seq(RelayCalls) /\ b \in Seq(RelayCalls) /\ Cycle(u) \in Seq(RelayCalls)
        BY <1>2, CallTypes
      <4> HIDE DEF a, b, u
      <4>2. (a \o Cycle(u)) \o b \in Seq(RelayCalls)
        BY <4>1
      <4>. QED
        BY <4>2 DEF a, b
    <3> HIDE DEF todo, n, held
    <3>. QED
      BY <1>1, <1>3, <1>4, <3>1, <3>4, <3>5, <3>6
  <2>2. CASE ~Connected("main")
    <3> DEFINE wins == "reconnect" \notin redis.held
               todo == IF ~wins THEN <<>>
                       ELSE IF mtx /\ Present("main") THEN Reconnect(u)
                       ELSE AddAll({"main"}, u)
    <3>1. /\ redis' = (IF wins THEN [redis EXCEPT !.held = @ \cup {"reconnect"}] ELSE redis)
          /\ party' = [party EXCEPT ![p] = [AtEase EXCEPT !.todo = todo]]
      BY <2>2 DEF Check, Down
    <3>2. todo \in Seq(RelayCalls)
      BY <1>2, CallTypes DEF Reconnect
    <3>3. redis' \in Notes
      BY <1>1, <3>1 DEF Notes
    <3> HIDE DEF todo
    <3>. QED
      BY <1>3, <3>1, <3>2, <3>3
  <2>. QED
    BY <2>1, <2>2
<1>. QED
  BY <1>1, <1>5, Replaced DEF Check, mtxVars
LEMMA RowsRead == ASSUME RelayInv, ReadRow PROVE RelayInv'
<1> DEFINE o == party["check"]
           q == IF site.enabled THEN [at |-> "check", site |-> site, todo |-> o.todo, shape |-> o.shape] ELSE AtEase
<1>1. o \in PartyStates /\ site \in Sites /\ "check" \in Parties /\ ShapeFits(o)
  BY DEF RelayInv, Parties
<1>2. AtEase \in PartyStates /\ ShapeFits(AtEase)
  BY DEF AtEase, PartyStates, Sites, ShapeFits
<1>3. [at |-> "check", site |-> site, todo |-> o.todo, shape |-> o.shape] \in PartyStates
      /\ ShapeFits([at |-> "check", site |-> site, todo |-> o.todo, shape |-> o.shape])
  BY <1>1 DEF PartyStates, ShapeFits
<1>4. q \in PartyStates /\ ShapeFits(q)
  BY <1>2, <1>3
<1>5. party' = [party EXCEPT !["check"] = q]
  BY <1>1 DEF ReadRow, RelayInv
<1>. QED
  BY <1>1, <1>4, <1>5, OneParty DEF ReadRow, RelayInv, mtxVars

LEMMA MonitorKept == ASSUME RelayInv, Poll \/ Sweep \/ EndPoll PROVE RelayInv'
<1>1. party["monitor"] \in PartyStates /\ site \in Sites /\ "monitor" \in Parties /\ redis \in Notes
  BY DEF RelayInv, Parties
<1>2. CASE Poll
  <2> DEFINE q == [at |-> "sweep", site |-> site, todo |-> <<>>, shape |-> "unread"]
  <2>1. q \in PartyStates
    BY <1>1 DEF PartyStates
  <2>. QED
    BY <1>1, <1>2, <2>1, Replaced DEF Poll
<1>3. CASE Sweep
  <2> DEFINE s == party["monitor"].site
             orphans == {t \in Streams : mtx /\ Present(t)} \ KnownNames(s)
             q == [at |-> IF s.enabled THEN "check" ELSE "idle", site |-> s, todo |-> RemoveAll(orphans), shape |-> "unread"]
  <2>1. RemoveAll(orphans) \in Seq(RelayCalls)
    BY CallTypes
  <2>2. party["monitor"].shape = "unread"
    BY <1>1, <1>3 DEF RelayInv, Sweep, ShapeFits, PartyStates
  <2>3. s \in Sites
    BY <1>1 DEF PartyStates
  <2>4. party' = [party EXCEPT !["monitor"] = q]
    BY <1>1, <1>3, <2>2 DEF Sweep, RelayInv
  <2>5. q \in PartyStates /\ q.shape = "unread" /\ q.at # "sweep"
    BY <2>1, <2>3 DEF PartyStates
  <2>6. UNCHANGED <<site, accepts, mtxVars, redis, mirror, relayBudget>>
    BY <1>3 DEF Sweep
  <2>. HIDE DEF q
  <2>7. UNCHANGED <<site, accepts, mtxVars, mirror, relayBudget>> /\ redis' \in Notes
    BY <1>1, <2>6
  <2>. QED
    BY <1>1, <2>4, <2>5, <2>7, Replaced
<1>4. CASE EndPoll
  <2>1. AtEase \in PartyStates /\ AtEase.shape = "unread" /\ AtEase.at = "idle"
    BY DEF AtEase, PartyStates, Sites
  <2>. QED
    BY <1>1, <1>4, <2>1, Replaced DEF EndPoll
<1>. QED
  BY <1>2, <1>3, <1>4

LEMMA SyncKept == ASSUME RelayInv, ReadSites \/ ComparePaths PROVE RelayInv'
<1>1. party["sync"] \in PartyStates /\ site \in Sites /\ "sync" \in Parties /\ redis \in Notes
  BY DEF RelayInv, Parties
<1>2. CASE ReadSites
  <2> DEFINE q == [at |-> "compare", site |-> site, todo |-> <<>>, shape |-> "unread"]
  <2>1. q \in PartyStates
    BY <1>1 DEF PartyStates
  <2>. QED
    BY <1>1, <1>2, <2>1, Replaced DEF ReadSites
<1>3. CASE ComparePaths
  <2> DEFINE s == party["sync"].site
             current == {t \in Streams : mtx /\ Present(t)}
             todo == AddAll(Carried(s) \ current, s.url) \o RemoveAll(Absent(s) \cap current)
             q == [AtEase EXCEPT !.todo = todo]
  <2>1. s \in Sites /\ s.url \in Urls \cup {NoUrl}
    BY <1>1 DEF PartyStates, Sites, NoSite, NoUrl
  <2>2. todo \in Seq(RelayCalls)
    BY <2>1, CallTypes, ConcatProperties
  <2>3. party' = [party EXCEPT !["sync"] = q]
    BY <1>3 DEF ComparePaths
  <2> HIDE DEF todo
  <2>4. q \in PartyStates /\ q.shape = "unread"
    BY <2>2 DEF PartyStates, AtEase, Sites
  <2>. QED
    BY <1>1, <1>3, <2>3, <2>4, Replaced DEF ComparePaths
<1>. QED
  BY <1>2, <1>3

(* Requests, and what else happens.                                             *)
LEMMA Requested == ASSUME RelayInv, NEW kind \in RequestKinds, Request(kind) PROVE RelayInv'
<1> DEFINE calls == IF kind = "repoint" /\ ~site.enabled THEN <<>> ELSE CallsOf(kind, site')
           o == party["request"]
           c == party["check"]
           q == [at |-> o.at, site |-> o.site, todo |-> calls, shape |-> o.shape]
           r == IF Follows(kind) /\ site'.enabled /\ c = AtEase THEN [c EXCEPT !.at = "row"] ELSE c
<1>1. /\ o \in PartyStates /\ c \in PartyStates /\ ShapeFits(o) /\ ShapeFits(c) /\ site \in Sites
      /\ party \in [Parties -> PartyStates] /\ kind \in RequestKinds /\ Allowed(kind) /\ o.todo = <<>>
  BY DEF RelayInv, Parties, Request, Busy
<1>2. site' = RowAfter(kind) /\ UNCHANGED <<accepts, mtxVars, redis>> /\ mirror' = (mirror /\ kind # "delete")
  BY DEF Request
<1>3. site' \in Sites
  <2>1. relayBudget["anew"] \in Urls /\ 2 \in Urls
    BY DEF RelayInv, Urls
  <2>2. kind \notin {"create", "delete"} => Registered(site) /\ site \in [enabled : BOOLEAN, url : Urls, sub : {"none", "resolved", "recorded"}]
    <3>1. kind \in {"record", "unrecord"} => site # NoSite
      <4>1. NoSite.sub = "none"
        BY DEF NoSite
      <4>2. kind = "record" => site.sub = "resolved"
        BY <1>1 DEF Allowed
      <4>3. kind = "unrecord" => site.sub = "recorded"
        BY <1>1 DEF Allowed
      <4>. QED
        BY <4>1, <4>2, <4>3
    <3>2. kind \in {"disable", "enable", "reconnect", "repoint", "find"} => site # NoSite
      BY <1>1 DEF Allowed, Registered
    <3>. QED
      BY <1>1, <3>1, <3>2 DEF RequestKinds, Registered, Sites
  <2>3. kind \in {"create", "delete"} => site' \in Sites
    BY <1>2, <2>1 DEF RowAfter, Sites
  <2>4. kind \in {"disable", "enable", "reconnect"} => site' \in Sites
    BY <1>2, <2>2 DEF RowAfter, Sites
  <2>5. kind \in {"repoint", "record", "unrecord", "find"} => site' \in Sites
    BY <1>2, <2>1, <2>2 DEF RowAfter, Sites
  <2>. QED
    BY <2>3, <2>4, <2>5 DEF RequestKinds
<1>4. calls \in Seq(RelayCalls)
  <2> DEFINE u == site'.url
  <2>1. u \in Urls \cup {NoUrl}
    BY <1>3 DEF Sites, NoSite, NoUrl
  <2>2. /\ \A names : AddAll(names, u) \in Seq(RelayCalls) /\ RemoveAll(names) \in Seq(RelayCalls)
        /\ Cycle(u) \in Seq(RelayCalls) /\ Ensure(u) \in Seq(RelayCalls)
        /\ Note("forget") \in RelayCalls /\ Do("remove", "main", NoUrl) \in RelayCalls
        /\ Do("patch", "main", u) \in RelayCalls /\ Do("patch", "sub", u) \in RelayCalls
    BY <2>1, CallTypes DEF Streams
  <2>3. kind = "repoint" => CallsOf(kind, site') \in Seq(RelayCalls)
    <3> DEFINE a == <<Do("patch", "main", u)>>
               b == IF site'.sub = "recorded" THEN <<Do("patch", "sub", u)>> ELSE <<>>
    <3>1. a \in Seq(RelayCalls) /\ b \in Seq(RelayCalls)
      BY <2>2
    <3>2. a \o b \in Seq(RelayCalls)
      BY <3>1, ConcatProperties
    <3>. QED
      BY <3>2 DEF CallsOf
  <2>4. kind = "delete" => CallsOf(kind, site') \in Seq(RelayCalls)
    <3>1. RemoveAll(Streams) \o <<Note("forget")>> \in Seq(RelayCalls)
      BY <2>2, ConcatProperties
    <3>. QED
      BY <3>1 DEF CallsOf
  <2>5. kind \notin {"repoint", "delete"} => CallsOf(kind, site') \in Seq(RelayCalls)
    BY <1>1, <2>2 DEF CallsOf, RequestKinds
  <2>. QED
    BY <2>3, <2>4, <2>5
<1>5. party' = [party EXCEPT !["request"] = q, !["check"] = r]
  <2> HIDE DEF calls
  <2>1. [o EXCEPT !.todo = calls] = q
    BY <1>1 DEF PartyStates
  <2>2. party' = [party EXCEPT !["request"].todo = calls,
                    !["check"] = IF Follows(kind) /\ site'.enabled /\ @ = AtEase THEN [@ EXCEPT !.at = "row"] ELSE @]
    BY DEF Request, calls
  <2>. QED
    BY <1>1, <2>1, <2>2 DEF Parties
<1>6. q \in PartyStates /\ ShapeFits(q)
  <2>1. o.shape = "unread"
    BY <1>1 DEF ShapeFits
  <2> HIDE DEF calls
  <2>. QED
    BY <1>1, <1>4, <2>1 DEF PartyStates, ShapeFits
<1>7. r \in PartyStates /\ ShapeFits(r)
  BY <1>1 DEF PartyStates, ShapeFits, AtEase
<1>8. party' \in [Parties -> PartyStates] /\ \A p \in Parties : party'[p] \in {party[p], q, r}
  <2> HIDE DEF q, r
  <2>. QED
    BY <1>1, <1>5, <1>6, <1>7 DEF Parties
<1>9. \A p \in Parties : ShapeFits(party[p])'
  <2>1. \A p \in Parties : ShapeFits(party'[p])
    BY <1>6, <1>7, <1>8 DEF RelayInv
  <2>. QED
    BY <2>1 DEF ShapeFits
<1>10. party'["monitor"] = party["monitor"]
  BY <1>1, <1>5 DEF Parties
<1>11. "anew" \in DOMAIN relayBudget' /\ relayBudget'["anew"] \in Urls
  BY DEF RelayInv, Request, UseRelay, RequestKinds
<1>. QED
  BY <1>2, <1>3, <1>8, <1>9, <1>10, <1>11 DEF RelayInv, mtxVars

LEMMA WorldKept ==
  ASSUME RelayInv, LockExpires \/ CameraMoves \/ MtxStops \/ MtxStarts \/ ApiRestart \/ RedisForgets
  PROVE  RelayInv'
<1>1. redis \in Notes /\ site \in Sites
  BY DEF RelayInv
<1>2. redis' \in Notes
  <2>1. NothingNoted \in Notes
    BY RelayAssumption DEF NothingNoted, Notes
  <2>2. \A l \in redis.held : [redis EXCEPT !.held = @ \ {l}] \in Notes
    BY <1>1 DEF Notes
  <2>3. mirror \in BOOLEAN => [redis EXCEPT !.flag = @ \/ mirror] \in Notes
    BY <1>1 DEF Notes
  <2>4. mirror \in BOOLEAN
    BY DEF RelayInv
  <2>5. \/ redis' = redis \/ redis' = NothingNoted \/ redis' = [redis EXCEPT !.flag = @ \/ mirror]
        \/ \E l \in redis.held : redis' = [redis EXCEPT !.held = @ \ {l}]
    BY DEF LockExpires, CameraMoves, MtxStops, MtxStarts, ApiRestart, RedisForgets
  <2>. QED
    BY <1>1, <2>1, <2>2, <2>3, <2>4, <2>5
<1>3. paths' \in [Streams -> RelayPaths] /\ mtx' \in BOOLEAN /\ mirror' \in BOOLEAN /\ site' = site
  <2>1. NoPath \in RelayPaths
    BY DEF NoPath, RelayPaths, NoUrl
  <2>. QED
    BY <2>1 DEF RelayInv, LockExpires, CameraMoves, MtxStops, MtxStarts, ApiRestart, RedisForgets, mtxVars
<1>4. accepts' \subseteq Urls /\ accepts' # {}
  BY DEF RelayInv, LockExpires, CameraMoves, MtxStops, MtxStarts, ApiRestart, RedisForgets, Urls
<1>5. "anew" \in DOMAIN relayBudget' /\ relayBudget'["anew"] \in Urls
  BY DEF RelayInv, LockExpires, CameraMoves, MtxStops, MtxStarts, ApiRestart, RedisForgets, UseRelay
<1>6. CASE ApiRestart
  <2> DEFINE u == site.url
             todo == AddAll(Carried(site), u)
             q == [AtEase EXCEPT !.todo = todo]
  <2>1. todo \in Seq(RelayCalls)
    <3>1. u \in Urls \cup {NoUrl}
      BY <1>1 DEF Sites, NoSite, NoUrl
    <3>. QED
      BY <3>1, CallTypes
  <2>2. party' = [[p \in Parties |-> AtEase] EXCEPT !["sync"].todo = todo]
    BY <1>6 DEF ApiRestart
  <2> HIDE DEF todo
  <2>3. AtEase \in PartyStates /\ ShapeFits(AtEase) /\ q \in PartyStates /\ ShapeFits(q)
    BY <2>1 DEF AtEase, PartyStates, Sites, ShapeFits
  <2>4. party' = [p \in Parties |-> IF p = "sync" THEN q ELSE AtEase]
    BY <2>2 DEF Parties
  <2>5. party' \in [Parties -> PartyStates] /\ \A p \in Parties : ShapeFits(party'[p])
    BY <2>3, <2>4
  <2>6. party'["monitor"].at # "sweep"
    BY <2>4 DEF Parties, AtEase
  <2>7. \A p \in Parties : ShapeFits(party[p])'
    BY <2>5 DEF ShapeFits
  <2>. QED
    BY <1>2, <1>3, <1>4, <1>5, <2>5, <2>6, <2>7 DEF RelayInv
<1>7. CASE ~ApiRestart
  <2>1. party' = party
    BY <1>7 DEF LockExpires, CameraMoves, MtxStops, MtxStarts, RedisForgets
  <2>. QED
    BY <1>2, <1>3, <1>4, <1>5, <2>1 DEF RelayInv, ShapeFits
<1>. QED
  BY <1>6, <1>7

LEMMA RelaySteps == ASSUME RelayInv, RelayNext PROVE RelayInv'
<1>1. ASSUME NEW p \in Parties, Calls(p) PROVE RelayInv'
  BY <1>1, FlagRead, RelayCalled, CallFailed, StoreCalled DEF Calls
<1>. QED
  BY <1>1, Checked, RowsRead, MonitorKept, SyncKept, Requested, WorldKept
     DEF RelayNext, Checking, Monitoring, Syncing, Parties

LEMMA RelayHolds == RelayInv => RelayTypeOK
<1>. SUFFICES ASSUME RelayInv PROVE RelayTypeOK
  OBVIOUS
<1>1. \A p \in Parties : party[p].shape # "unread" => Busy(p) /\ NextCall(p).do \in {"add", "patch"}
  BY DEF RelayInv, ShapeFits, Busy, NextCall
<1>. QED
  BY <1>1 DEF RelayInv, RelayTypeOK, Sites, RelayPaths, Notes

--------------------------------------------------------------------------------
(* The history.                                                               *)

Statuses == {"connected", "disconnected", "unknown", "disabled"}
Pasts == Statuses \cup {"dark"}
StatusRows == [id : Nat, status : Statuses, at : Nat]
Reach(T, u) == {e \in T : UnitOf(e.at) < u}
Tops(e, S) == e \in S /\ \A d \in S \ {e} : Sooner(d, e)
SeedIn(T, u) == IF Reach(T, u) = {} THEN "unknown" ELSE NewestOf(Reach(T, u)).status
(* Whatever is asked for, there is a newest row, or none.                     *)
Peaked(T) == \A u \in Nat : Reach(T, u) = {} \/ \E e \in Reach(T, u) : Tops(e, Reach(T, u))

TimesOK ==
  /\ now \in 1 .. Horizon /\ was \in Seq(Pasts) /\ Len(was) = now - 1
  /\ status \in Statuses /\ toggle \in {"none", "disabled", "unknown"}
  /\ monitor \in {"off", "idle", "beaten", "checking"} /\ soon \in {"off", "due", "checking"}
  /\ beat \in Nat /\ beat <= 2 * now /\ tangled \in BOOLEAN /\ on \in BOOLEAN /\ raced \in BOOLEAN
RowsOK ==
  /\ transitions \subseteq StatusRows /\ lastId \in Nat /\ Peaked(transitions)
  /\ \A e \in transitions : e.id <= lastId /\ e.at <= 2 * now + 1
(* Unless a row that was dated back lies under it, the newest row is the      *)
(* status of the camera.                                                      *)
Current == ~tangled => SeedIn(transitions, now + 1) = status
(* Requests end before the monitor does; a camera that is switched off is     *)
(* connected only if somebody wrote that after it was.                        *)
SwitchFits ==
  /\ monitor = "off" => soon = "off" /\ toggle = "none"
  /\ toggle = "disabled" => ~on
  /\ toggle = "unknown" => on
  /\ status = "connected" /\ ~on /\ toggle = "none" => raced
(* Units of the present darkness, which the next start has still to judge.    *)
Unjudged(t) ==
  /\ monitor = "off" /\ was[t] = "dark" /\ ~marked
  /\ beat # Never => UnitOf(beat) <= t
  /\ \A e \in transitions : e.at <= 2 * t + 1
UnitTrue(t) ==
  /\ SeedIn(transitions, t + 1) = "connected" => was[t] = "connected" \/ t \in excused \/ Unjudged(t)
  /\ was[t] = "connected" => SeedIn(transitions, t + 1) = "connected" \/ t \in forfeited
UptimeInv == TimesOK /\ RowsOK /\ Current /\ SwitchFits /\ \A t \in 1 .. now - 1 : UnitTrue(t)

\* A stamp within a unit is of that unit, and units follow their stamps.
LEMMA StampUnits ==
  /\ \A n \in Nat : UnitOf(2 * n) = n /\ UnitOf(2 * n + 1) = n
  /\ \A x \in Nat : UnitOf(x) \in Nat
  /\ \A x, n \in Nat : (UnitOf(x) <= n <=> x <= 2 * n + 1) /\ (UnitOf(x) < n + 1 <=> x <= 2 * n + 1)
  /\ \A x, y \in Nat : x <= y => UnitOf(x) <= UnitOf(y)
BY DEF UnitOf

LEMMA SoonerOrders ==
  ASSUME NEW d \in StatusRows, NEW e \in StatusRows
  PROVE  /\ ~(Sooner(d, e) /\ Sooner(e, d))
         /\ d.id < e.id /\ d.at <= e.at => Sooner(d, e)
         /\ d.at < e.at => Sooner(d, e)
         /\ Sooner(d, e) => d.at <= e.at
BY DEF StatusRows, Sooner

LEMMA SoonerChains ==
  ASSUME NEW c \in StatusRows, NEW d \in StatusRows, NEW e \in StatusRows, Sooner(c, d), Sooner(d, e)
  PROVE  Sooner(c, e)
BY DEF StatusRows, Sooner

\* The newest row of a set is the only one.
LEMMA SeedOfTop ==
  ASSUME NEW T, T \subseteq StatusRows, NEW u, NEW e, Tops(e, Reach(T, u))
  PROVE  SeedIn(T, u) = e.status
<1> DEFINE S == Reach(T, u)
           f == NewestOf(S)
<1>1. S \subseteq StatusRows /\ e \in S /\ \A d \in S \ {e} : Sooner(d, e)
  BY DEF Reach, Tops
<1>2. f \in S /\ \A d \in S \ {f} : Sooner(d, f)
  BY <1>1 DEF NewestOf
<1>3. f = e
  BY <1>1, <1>2, SoonerOrders
<1>4. S # {}
  BY <1>1
<1>. QED
  BY <1>3, <1>4 DEF SeedIn

\* A new row is in force from its unit on, unless newer ones lie above it.
LEMMA RowEnters ==
  ASSUME NEW T, T \subseteq StatusRows, Peaked(T), NEW r \in StatusRows, \A e \in T : e.id < r.id
  PROVE  /\ Peaked(T \cup {r})
         /\ \A u \in Nat :
              /\ u <= UnitOf(r.at) => SeedIn(T \cup {r}, u) = SeedIn(T, u)
              /\ SeedIn(T \cup {r}, u) \in {SeedIn(T, u), r.status}
              /\ UnitOf(r.at) < u /\ (\A e \in T : e.at <= r.at) => SeedIn(T \cup {r}, u) = r.status
<1> DEFINE R == T \cup {r}
<1>0. R \subseteq StatusRows /\ r \in R /\ T \subseteq R
  OBVIOUS
<1>1. ASSUME NEW u \in Nat
      PROVE  /\ Reach(R, u) = {} \/ \E e \in Reach(R, u) : Tops(e, Reach(R, u))
             /\ u <= UnitOf(r.at) => SeedIn(R, u) = SeedIn(T, u)
             /\ SeedIn(R, u) \in {SeedIn(T, u), r.status}
             /\ UnitOf(r.at) < u /\ (\A e \in T : e.at <= r.at) => SeedIn(R, u) = r.status
  <2>0. UnitOf(r.at) \in Nat /\ r.at \in Nat
    BY StampUnits DEF StatusRows
  <2>1. CASE u <= UnitOf(r.at)
    <3>1. Reach(R, u) = Reach(T, u)
      BY <2>0, <2>1 DEF Reach
    <3>2. SeedIn(R, u) = SeedIn(T, u)
      BY <3>1 DEF SeedIn
    <3>3. Reach(R, u) = {} \/ \E e \in Reach(R, u) : Tops(e, Reach(R, u))
      BY <3>1 DEF Peaked
    <3>. HIDE DEF R
    <3>. QED
      BY <3>2, <3>3, <2>0, <2>1
  <2>2. CASE UnitOf(r.at) < u
    <3>1. Reach(R, u) = Reach(T, u) \cup {r} /\ Reach(T, u) \subseteq T
      BY <2>2 DEF Reach
    <3>2. CASE \E e \in Reach(T, u) : Tops(e, Reach(T, u)) /\ r.at < e.at
      <4>1. PICK e \in Reach(T, u) : Tops(e, Reach(T, u)) /\ r.at < e.at
        BY <3>2
      <4>2. e \in StatusRows /\ Sooner(r, e)
        BY <3>1, <4>1, SoonerOrders
      <4>3. Tops(e, Reach(R, u))
        BY <3>1, <4>1, <4>2 DEF Tops
      <4>4. SeedIn(R, u) = e.status /\ SeedIn(T, u) = e.status
        BY <4>1, <4>3, <1>0, SeedOfTop
      <4>5. ~(\A d \in T : d.at <= r.at)
        BY <4>1, <4>2, <3>1, <2>0 DEF StatusRows
      <4>. QED
        BY <2>0, <2>2, <4>1, <4>3, <4>4, <4>5, <3>1
    <3>3. CASE ~\E e \in Reach(T, u) : Tops(e, Reach(T, u)) /\ r.at < e.at
      <4>1. ASSUME NEW d \in Reach(R, u) \ {r} PROVE Sooner(d, r)
        <5>1. d \in Reach(T, u) /\ d \in StatusRows /\ d.id < r.id
          BY <4>1, <3>1
        <5>2. PICK e \in Reach(T, u) : Tops(e, Reach(T, u))
          BY <5>1 DEF Peaked
        <5>3. e \in StatusRows /\ e.at <= r.at /\ e.id < r.id
          BY <5>2, <3>1, <3>3, <2>0 DEF StatusRows
        <5>4. Sooner(e, r)
          BY <5>3, SoonerOrders
        <5>5. d = e \/ Sooner(d, e)
          BY <5>1, <5>2 DEF Tops
        <5>. QED
          BY <5>1, <5>3, <5>4, <5>5, SoonerChains
      <4>2. Tops(r, Reach(R, u))
        BY <4>1, <3>1 DEF Tops
      <4>3. SeedIn(R, u) = r.status
        BY <4>2, <1>0, SeedOfTop
      <4>4. r \in Reach(R, u)
        BY <3>1
      <4>. HIDE DEF R
      <4>. QED
        BY <2>0, <2>2, <4>2, <4>3, <4>4
    <3>. QED
      BY <3>2, <3>3
  <2>. QED
    BY <2>0, <2>1, <2>2
<1>. QED
  BY <1>1 DEF Peaked

\* Rows go by age: what was in force stays so, or nothing is known any more.
LEMMA RowsGo ==
  ASSUME NEW T, T \subseteq StatusRows, Peaked(T), NEW h \in Nat, NEW n \in Nat
  PROVE  LET L == {e \in T : UnitOf(e.at) + h >= n} IN
         /\ Peaked(L)
         /\ \A u \in Nat : Reach(L, u) = {} \/ SeedIn(L, u) = SeedIn(T, u)
<1> DEFINE L == {e \in T : UnitOf(e.at) + h >= n}
<1>1. ASSUME NEW u \in Nat, Reach(L, u) # {}
      PROVE  (\E e \in Reach(L, u) : Tops(e, Reach(L, u))) /\ SeedIn(L, u) = SeedIn(T, u)
  <2>1. PICK c \in Reach(L, u) : TRUE
    BY <1>1
  <2>2. c \in Reach(T, u) /\ c \in StatusRows /\ UnitOf(c.at) + h >= n
    BY <2>1 DEF Reach
  <2>3. PICK e \in Reach(T, u) : Tops(e, Reach(T, u))
    BY <2>2 DEF Peaked
  <2>4. e \in StatusRows /\ (c = e \/ c.at <= e.at)
    BY <2>2, <2>3, SoonerOrders DEF Tops, Reach
  <2>5. UnitOf(c.at) <= UnitOf(e.at) /\ UnitOf(c.at) \in Nat /\ UnitOf(e.at) \in Nat
    <3>1. c.at \in Nat /\ e.at \in Nat /\ c.at <= e.at
      BY <2>2, <2>4 DEF StatusRows
    <3>. HIDE DEF L
    <3>. QED
      BY <3>1, StampUnits
  <2>6. e \in L /\ e \in Reach(L, u)
    BY <2>2, <2>3, <2>5 DEF Reach
  <2>7. Reach(L, u) \subseteq Reach(T, u)
    BY DEF Reach
  <2>8. Tops(e, Reach(L, u))
    BY <2>3, <2>6, <2>7 DEF Tops
  <2>9. L \subseteq StatusRows
    OBVIOUS
  <2>. HIDE DEF L
  <2>10. SeedIn(L, u) = e.status /\ SeedIn(T, u) = e.status
    BY <2>3, <2>8, <2>9, SeedOfTop
  <2>. QED
    BY <2>6, <2>8, <2>10
<1>. HIDE DEF L
<1>2. Peaked(L) /\ \A u \in Nat : Reach(L, u) = {} \/ SeedIn(L, u) = SeedIn(T, u)
  BY <1>1 DEF Peaked
<1>. QED
  BY <1>2 DEF L

\* Once all rows are older than a unit, the rest of time makes no difference.
LEMMA SeedSettles ==
  ASSUME NEW T, T \subseteq StatusRows, NEW m \in Nat, NEW n \in Nat, m <= n, \A e \in T : e.at <= 2 * m + 1
  PROVE  SeedIn(T, m + 1) = SeedIn(T, n + 1)
<1>1. ASSUME NEW e \in T PROVE UnitOf(e.at) < m + 1 /\ UnitOf(e.at) < n + 1
  <2>1. e.at \in Nat /\ e.at <= 2 * m + 1 /\ e.at <= 2 * n + 1
    BY DEF StatusRows
  <2>. QED
    BY <2>1, StampUnits
<1>2. Reach(T, m + 1) = T /\ Reach(T, n + 1) = T
  BY <1>1 DEF Reach
<1>. QED
  BY <1>2 DEF SeedIn

LEMMA UptimeSizes == ASSUME UptimeInv PROVE now \in Nat /\ 1 <= now /\ now <= Horizon /\ Horizon \in Nat /\ Stamp \in Nat /\ UnitOf(Stamp) = now
<1>1. Horizon \in Nat
  BY UptimeAssumption
<1>2. now \in Nat /\ 1 <= now /\ now <= Horizon
  BY <1>1 DEF UptimeInv, TimesOK
<1>. QED
  BY <1>1, <1>2, StampUnits DEF Stamp

\* A row entered at some moment until now, and what the past becomes by it.
LEMMA RowEntered ==
  ASSUME UptimeInv, NEW s \in Statuses, NEW a \in Nat, a <= Stamp, Enter(s, a), now' = now
  PROVE  /\ RowsOK' /\ transitions' # transitions
         /\ \A u \in Nat : /\ u <= UnitOf(a) => SeedIn(transitions', u) = SeedIn(transitions, u)
                           /\ SeedIn(transitions', u) \in {SeedIn(transitions, u), s}
                           /\ UnitOf(a) < u /\ (\A e \in transitions : e.at <= a) => SeedIn(transitions', u) = s
<1> DEFINE r == [id |-> lastId + 1, status |-> s, at |-> a]
<1>1. /\ transitions \subseteq StatusRows /\ lastId \in Nat /\ Peaked(transitions)
      /\ \A e \in transitions : e.id <= lastId /\ e.at <= 2 * now + 1
  BY DEF UptimeInv, RowsOK
<1>2. r \in StatusRows /\ r.id = lastId + 1 /\ r.at = a /\ r.status = s
  BY <1>1 DEF StatusRows
<1>3. transitions' = transitions \cup {r} /\ lastId' = lastId + 1
  BY DEF Enter
<1>. HIDE DEF r
<1>4. \A e \in transitions : e.id < r.id
  BY <1>1, <1>2 DEF StatusRows
<1>5. r \notin transitions
  BY <1>1, <1>2
<1>6. Peaked(transitions')
  BY <1>1, <1>2, <1>3, <1>4, RowEnters
<1>7. \A u \in Nat : /\ u <= UnitOf(a) => SeedIn(transitions', u) = SeedIn(transitions, u)
                     /\ SeedIn(transitions', u) \in {SeedIn(transitions, u), s}
                     /\ UnitOf(a) < u /\ (\A e \in transitions : e.at <= a) => SeedIn(transitions', u) = s
  BY <1>1, <1>2, <1>3, <1>4, RowEnters
<1>8. transitions' \subseteq StatusRows /\ lastId' \in Nat
  BY <1>1, <1>2, <1>3
<1>9. \A e \in transitions' : e.id <= lastId' /\ e.at <= 2 * now' + 1
  BY <1>1, <1>2, <1>3 DEF StatusRows, Stamp
<1>. QED
  BY <1>3, <1>5, <1>6, <1>7, <1>8, <1>9 DEF RowsOK

\* A row entered now becomes the status and leaves the past alone.
LEMMA EnteredNow ==
  ASSUME UptimeInv, NEW s \in Statuses, Enter(s, Stamp), now' = now, status' = s
  PROVE  /\ RowsOK' /\ Current' /\ transitions' # transitions
         /\ \A t \in 1 .. now - 1 : SeedIn(transitions', t + 1) = SeedIn(transitions, t + 1)
<1>1. now \in Nat /\ 1 <= now /\ Stamp \in Nat /\ UnitOf(Stamp) = now
  BY UptimeSizes
<1>2. /\ RowsOK' /\ transitions' # transitions
      /\ \A u \in Nat : /\ u <= now => SeedIn(transitions', u) = SeedIn(transitions, u)
                        /\ now < u /\ (\A e \in transitions : e.at <= Stamp) => SeedIn(transitions', u) = s
  BY <1>1, RowEntered
<1>3. \A e \in transitions : e.at <= Stamp
  BY DEF UptimeInv, RowsOK, Stamp
<1>4. SeedIn(transitions', now' + 1) = status'
  BY <1>1, <1>2, <1>3
<1>5. \A t \in 1 .. now - 1 : t + 1 \in Nat /\ t + 1 <= now
  BY <1>1
<1>. QED
  BY <1>2, <1>4, <1>5 DEF Current

\* While somebody watches, what is true of the past stays so.
LEMMA PastStays ==
  ASSUME UptimeInv, monitor # "off", UNCHANGED <<now, was>>, excused \subseteq excused', forfeited \subseteq forfeited',
         \A t \in 1 .. now - 1 : SeedIn(transitions', t + 1) = SeedIn(transitions, t + 1)
  PROVE  \A t \in 1 .. now' - 1 : UnitTrue(t)'
<1>1. ASSUME NEW t \in 1 .. now - 1
      PROVE  /\ SeedIn(transitions', t + 1) = "connected" => was'[t] = "connected" \/ t \in excused'
             /\ was'[t] = "connected" => SeedIn(transitions', t + 1) = "connected" \/ t \in forfeited'
  BY DEF UptimeInv, UnitTrue, Unjudged
<1>. QED
  BY <1>1 DEF UnitTrue

LEMMA StatusWritten ==
  ASSUME UptimeInv, NEW s \in Statuses, Write(s), UNCHANGED now
  PROVE  /\ RowsOK' /\ Current' /\ status' = s
         /\ \A t \in 1 .. now - 1 : SeedIn(transitions', t + 1) = SeedIn(transitions, t + 1)
<1>1. status' = s /\ tangled' = (tangled /\ ~Stored(s)) /\ IF Stored(s) THEN Enter(s, Stamp) ELSE UNCHANGED statusEvents
  BY DEF Write
<1>2. CASE Stored(s)
  BY <1>1, <1>2, EnteredNow
<1>3. CASE ~Stored(s)
  <2>1. UNCHANGED <<transitions, lastId, tangled, status>>
    BY <1>1, <1>3 DEF Stored, statusEvents, UptimeInv, TimesOK
  <2>. QED
    BY <1>1, <2>1 DEF UptimeInv, RowsOK, Current
<1>. QED
  BY <1>2, <1>3

LEMMA UptimeStarts == UptimeInit => UptimeInv
<1>. SUFFICES ASSUME UptimeInit PROVE UptimeInv
  OBVIOUS
<1>1. Horizon \in Nat /\ 1 <= Horizon
  BY UptimeAssumption
<1>2. TimesOK
  <2>1. was = <<>> /\ was \in Seq(Pasts) /\ Len(was) = now - 1
    BY <1>1 DEF UptimeInit
  <2>2. now \in 1 .. Horizon /\ beat \in Nat /\ beat <= 2 * now
    BY <1>1 DEF UptimeInit, Never
  <2>3. /\ status \in Statuses /\ toggle = "none" /\ monitor = "off" /\ soon = "off"
        /\ tangled = FALSE /\ on = TRUE /\ raced = FALSE
    BY DEF UptimeInit, Statuses
  <2>. QED
    BY <2>1, <2>2, <2>3 DEF TimesOK
<1>3. \A u : Reach(transitions, u) = {}
  BY DEF UptimeInit, Reach
<1>4. RowsOK
  BY <1>3 DEF UptimeInit, RowsOK, Peaked
<1>5. Current
  BY <1>3 DEF UptimeInit, Current, SeedIn
<1>6. SwitchFits
  BY DEF UptimeInit, SwitchFits
<1>7. 1 .. now - 1 = {}
  BY DEF UptimeInit
<1>. QED
  BY <1>2, <1>4, <1>5, <1>6, <1>7 DEF UptimeInv

\* What a start makes of the status, and of the units nobody watched.
LEMMA Started == ASSUME UptimeInv, Start PROVE UptimeInv'
<1>0. now \in Nat /\ 1 <= now /\ Stamp \in Nat /\ UnitOf(Stamp) = now
  BY UptimeSizes
<1>1. /\ monitor = "off" /\ monitor' = "idle" /\ MarkAll(Recovers, MarkedAt)
      /\ tangled' = IF transitions' = transitions THEN tangled ELSE Recovers /\ \E e \in transitions : e.at > beat
      /\ excused' = IF Recovers /\ ~tangled' THEN excused ELSE excused \cup Dark
      /\ forfeited' = IF Recovers THEN forfeited \cup UnitOf(beat) .. (now - 1) ELSE forfeited
      /\ UNCHANGED <<now, on, reaches, beat, soon, toggle, was, raced>>
  BY DEF Start
<1>2. /\ now \in 1 .. Horizon /\ was \in Seq(Pasts) /\ Len(was) = now - 1 /\ status \in Statuses
      /\ toggle = "none" /\ soon = "off" /\ beat \in Nat /\ beat <= 2 * now
  BY <1>1 DEF UptimeInv, TimesOK, SwitchFits
<1>3. MarkedAs(Recovers) \in {"disconnected", "unknown"} /\ status' \in Statuses
  BY <1>1, <1>2 DEF MarkedAs, MarkAll, Statuses
<1>4. TimesOK'
  <2>1. tangled' \in BOOLEAN /\ on' \in BOOLEAN /\ raced' \in BOOLEAN
    BY <1>1 DEF UptimeInv, TimesOK
  <2>. QED
    BY <1>1, <1>2, <1>3, <2>1 DEF TimesOK
<1>5. SwitchFits'
  <2>1. status' = "connected" => status = "connected"
    BY <1>1, <1>3 DEF MarkAll
  <2>. QED
    BY <1>1, <1>2, <2>1 DEF UptimeInv, SwitchFits
<1>6. \A t \in 1 .. now - 1 : was[t] = "dark" => t \in Dark
  BY <1>2 DEF Dark
<1>7. ASSUME NEW t \in 1 .. now - 1
      PROVE  /\ SeedIn(transitions, t + 1) = "connected" => was[t] = "connected" \/ t \in excused \/ Unjudged(t)
             /\ was[t] = "connected" => SeedIn(transitions, t + 1) = "connected" \/ t \in forfeited
  BY DEF UptimeInv, UnitTrue
<1>8. CASE marked \/ status = "unknown"
  <2>1. UNCHANGED <<status, transitions, lastId, tangled>>
    BY <1>1, <1>8 DEF MarkAll, statusEvents
  <2>2. RowsOK' /\ Current'
    BY <1>1, <2>1 DEF UptimeInv, RowsOK, Current
  <2>3. ASSUME NEW t \in 1 .. now - 1, SeedIn(transitions, t + 1) = "connected", was[t] # "connected"
        PROVE  t \in excused'
    <3>1. t \in excused \/ Unjudged(t)
      BY <1>7, <2>3
    <3>2. CASE Unjudged(t) /\ ~tangled
      <4>1. ~marked /\ \A e \in transitions : e.at <= 2 * t + 1
        BY <3>2 DEF Unjudged
      <4>2. SeedIn(transitions, t + 1) = SeedIn(transitions, now + 1)
        BY <1>0, <4>1, SeedSettles DEF UptimeInv, RowsOK
      <4>3. SeedIn(transitions, now + 1) = status
        BY <3>2 DEF UptimeInv, Current
      <4>. QED
        BY <1>8, <2>3, <4>1, <4>2, <4>3
    <3>3. CASE Unjudged(t) /\ tangled
      <4>1. was[t] = "dark"
        BY <3>3 DEF Unjudged
      <4>. QED
        BY <1>1, <1>6, <2>1, <3>3, <4>1
    <3>. QED
      BY <1>1, <3>1, <3>2, <3>3
  <2>4. ASSUME NEW t \in 1 .. now' - 1 PROVE UnitTrue(t)'
    BY <1>1, <1>7, <2>1, <2>3 DEF UnitTrue
  <2>. QED
    BY <1>4, <1>5, <2>2, <2>4 DEF UptimeInv
<1>9. CASE ~(marked \/ status = "unknown")
  <2> DEFINE s == MarkedAs(Recovers)
  <2>1. status' = s /\ Enter(s, MarkedAt) /\ s \in Statuses /\ s # "connected"
    BY <1>1, <1>3, <1>9 DEF MarkAll, Statuses
  <2>. HIDE DEF s
  <2>2. CASE ~Recovers
    <3>1. MarkedAt = Stamp /\ excused' = excused \cup Dark /\ forfeited' = forfeited
      BY <1>1, <2>2 DEF MarkedAt
    <3>2. /\ RowsOK' /\ Current'
          /\ \A t \in 1 .. now - 1 : SeedIn(transitions', t + 1) = SeedIn(transitions, t + 1)
      BY <1>1, <2>1, <3>1, EnteredNow
    <3>3. ASSUME NEW t \in 1 .. now' - 1 PROVE UnitTrue(t)'
      <4>1. t \in 1 .. now - 1 /\ SeedIn(transitions', t + 1) = SeedIn(transitions, t + 1)
        BY <1>1, <3>2
      <4>2. Unjudged(t) => t \in Dark
        BY <1>6, <4>1 DEF Unjudged
      <4>. QED
        BY <1>1, <1>7, <3>1, <4>1, <4>2 DEF UnitTrue
    <3>. QED
      BY <1>4, <1>5, <3>2, <3>3 DEF UptimeInv
  <2>3. CASE Recovers
    <3>1. MarkedAt = beat /\ forfeited' = forfeited \cup UnitOf(beat) .. (now - 1) /\ beat # Never
      BY <1>1, <2>3 DEF MarkedAt, Recovers
    <3>2. beat <= Stamp /\ UnitOf(beat) \in Nat /\ UnitOf(beat) <= now
      <4>1. beat \in Nat /\ beat <= 2 * now + 1 /\ beat <= Stamp
        BY <1>0, <1>2 DEF Stamp
      <4>. QED
        BY <1>0, <4>1, StampUnits
    <3>3. /\ RowsOK' /\ transitions' # transitions
          /\ \A u \in Nat : /\ u <= UnitOf(beat) => SeedIn(transitions', u) = SeedIn(transitions, u)
                            /\ SeedIn(transitions', u) \in {SeedIn(transitions, u), s}
                            /\ UnitOf(beat) < u /\ (\A e \in transitions : e.at <= beat) => SeedIn(transitions', u) = s
      BY <1>1, <1>2, <2>1, <3>1, <3>2, RowEntered
    <3>4. ~tangled' => \A e \in transitions : e.at <= beat
      <4>1. tangled' <=> \E e \in transitions : e.at > beat
        BY <1>1, <2>3, <3>3
      <4>2. \A e \in transitions : e.at \in Nat
        BY DEF UptimeInv, RowsOK, StatusRows
      <4>. QED
        BY <1>2, <4>1, <4>2
    <3>5. Current'
      <4>1. ~tangled' => SeedIn(transitions', now + 1) = s
        BY <1>0, <3>2, <3>3, <3>4
      <4>. QED
        BY <1>1, <2>1, <4>1 DEF Current
    <3>6. ASSUME NEW t \in 1 .. now' - 1 PROVE UnitTrue(t)'
      <4>1. t \in 1 .. now - 1 /\ t + 1 \in Nat /\ t \in Nat
        BY <1>0, <1>1
      <4>2. SeedIn(transitions', t + 1) = "connected" => SeedIn(transitions, t + 1) = "connected"
        BY <2>1, <3>3, <4>1
      <4>3. Unjudged(t) /\ SeedIn(transitions', t + 1) = "connected" => t \in excused'
        <5>1. CASE tangled'
          BY <1>1, <1>6, <4>1, <5>1 DEF Unjudged
        <5>2. CASE ~tangled'
          <6>1. Unjudged(t) => UnitOf(beat) < t + 1
            BY <3>1, <3>2, <4>1 DEF Unjudged
          <6>. QED
            BY <2>1, <3>3, <3>4, <4>1, <5>2, <6>1
        <5>. QED
          BY <5>1, <5>2
      <4>4. SeedIn(transitions', t + 1) = SeedIn(transitions, t + 1) \/ t \in forfeited'
        <5>1. CASE t + 1 <= UnitOf(beat)
          BY <3>3, <4>1, <5>1
        <5>2. CASE ~(t + 1 <= UnitOf(beat))
          BY <1>0, <3>1, <3>2, <4>1, <5>2
        <5>. QED
          BY <5>1, <5>2
      <4>5. excused \subseteq excused' /\ forfeited \subseteq forfeited' /\ was' = was
        BY <1>1
      <4>. QED
        BY <1>7, <4>1, <4>2, <4>3, <4>4, <4>5 DEF UnitTrue
    <3>. QED
      BY <1>4, <1>5, <3>3, <3>5, <3>6 DEF UptimeInv
  <2>. QED
    BY <2>2, <2>3
<1>. QED
  BY <1>8, <1>9

\* The service stops: the history is closed with what nobody knows.
LEMMA Stopped == ASSUME UptimeInv, Stop PROVE UptimeInv'
<1>1. /\ monitor # "off" /\ toggle = "none" /\ Halts /\ MarkAll(FALSE, Stamp)
      /\ tangled' = (tangled /\ transitions' = transitions)
      /\ UNCHANGED <<now, on, reaches, beat, was, excused, forfeited, raced>>
  BY DEF Stop
<1>2. MarkedAs(FALSE) = "unknown"
  BY DEF MarkedAs
<1>3. /\ RowsOK' /\ Current' /\ status' \in {status, "unknown"}
      /\ \A t \in 1 .. now - 1 : SeedIn(transitions', t + 1) = SeedIn(transitions, t + 1)
  <2>1. CASE marked \/ status = "unknown"
    <3>1. UNCHANGED <<status, transitions, lastId>> /\ tangled' = tangled
      BY <1>1, <2>1 DEF MarkAll, statusEvents, UptimeInv, TimesOK
    <3>. QED
      BY <1>1, <3>1 DEF UptimeInv, RowsOK, Current
  <2>2. CASE ~(marked \/ status = "unknown")
    <3>1. status' = "unknown" /\ Enter("unknown", Stamp)
      BY <1>1, <1>2, <2>2 DEF MarkAll
    <3>. QED
      BY <1>1, <3>1, EnteredNow DEF Statuses
  <2>. QED
    BY <2>1, <2>2
<1>4. TimesOK'
  BY <1>1, <1>3 DEF UptimeInv, TimesOK, Halts, Statuses
<1>5. SwitchFits'
  BY <1>1, <1>3 DEF UptimeInv, SwitchFits, Halts
<1>6. \A t \in 1 .. now' - 1 : UnitTrue(t)'
  BY <1>1, <1>3, PastStays
<1>. QED
  BY <1>3, <1>4, <1>5, <1>6 DEF UptimeInv

\* The status is stored, by a check or by the request that waits to.
LEMMA StatusStored == ASSUME UptimeInv, StoreStatus \/ SetStatus PROVE UptimeInv'
<1>1. /\ Write(Seen) \/ (toggle # "none" /\ Write(toggle))
      /\ UNCHANGED <<now, on, beat, was, excused, forfeited, marked>>
  BY DEF StoreStatus, SetStatus
<1>2. monitor # "off" /\ monitor' # "off"
  BY DEF UptimeInv, SwitchFits, StoreStatus, SetStatus
<1>3. Seen \in {"connected", "disconnected"} /\ (toggle # "none" => toggle \in {"disabled", "unknown"})
  BY DEF Seen, UptimeInv, TimesOK
<1>4. /\ RowsOK' /\ Current' /\ status' \in Statuses
      /\ \A t \in 1 .. now - 1 : SeedIn(transitions', t + 1) = SeedIn(transitions, t + 1)
  BY <1>1, <1>3, StatusWritten DEF Statuses
<1>5. tangled' \in BOOLEAN /\ raced' \in BOOLEAN
  BY <1>1 DEF Write
<1>6. TimesOK'
  <2>1. /\ monitor' \in {"off", "idle", "beaten", "checking"} /\ soon' \in {"off", "due", "checking"}
        /\ toggle' \in {"none", "disabled", "unknown"}
    BY DEF UptimeInv, TimesOK, StoreStatus, SetStatus
  <2>. QED
    BY <1>1, <1>4, <1>5, <2>1 DEF UptimeInv, TimesOK
<1>7. SwitchFits'
  <2>1. CASE StoreStatus
    BY <2>1, <1>2 DEF StoreStatus, Write, UptimeInv, SwitchFits
  <2>2. CASE SetStatus
    BY <2>2, <1>2, <1>3 DEF SetStatus, Write, UptimeInv, SwitchFits
  <2>. QED
    BY <2>1, <2>2
<1>8. \A t \in 1 .. now' - 1 : UnitTrue(t)'
  BY <1>1, <1>2, <1>4, PastStays
<1>. QED
  BY <1>4, <1>6, <1>7, <1>8 DEF UptimeInv

\* Rows go by age, and with them what they were in force for.
LEMMA Pruned == ASSUME UptimeInv, Prune PROVE UptimeInv'
<1> DEFINE L == {e \in transitions : UnitOf(e.at) + HistoryKept >= now}
<1>0. now \in Nat /\ HistoryKept \in Nat
  BY UptimeSizes, UptimeAssumption
<1>1. /\ monitor = "idle" /\ transitions' = L /\ UNCHANGED lastId
      /\ forfeited' = forfeited \cup {t \in DOMAIN was : \A e \in L : UnitOf(e.at) > t}
      /\ tangled' = (tangled \/ L = {})
      /\ UNCHANGED <<now, on, reaches, status, beat, monitor, soon, marked, toggle, was, excused, raced>>
  BY DEF Prune, Kept, monitorVars
<1>2. /\ Peaked(L) /\ \A u \in Nat : Reach(L, u) = {} \/ SeedIn(L, u) = SeedIn(transitions, u)
  BY <1>0, RowsGo DEF UptimeInv, RowsOK
<1>3. L \subseteq transitions /\ \A e \in L : UnitOf(e.at) \in Nat
  BY StampUnits DEF UptimeInv, RowsOK, StatusRows
<1>. HIDE DEF L
<1>4. TimesOK'
  BY <1>1 DEF UptimeInv, TimesOK
<1>5. RowsOK'
  BY <1>1, <1>2, <1>3 DEF UptimeInv, RowsOK
<1>6. SwitchFits'
  BY <1>1 DEF UptimeInv, SwitchFits
<1>7. Current'
  <2>1. ASSUME ~tangled' PROVE SeedIn(L, now + 1) = status
    <3>1. ~tangled /\ L # {}
      BY <1>1, <2>1
    <3>2. \A e \in L : UnitOf(e.at) < now + 1
      <4>1. ASSUME NEW e \in L PROVE e.at \in Nat /\ e.at <= 2 * now + 1
        BY <1>3 DEF UptimeInv, RowsOK, StatusRows
      <4>. QED
        BY <1>0, <4>1, StampUnits
    <3>3. Reach(L, now + 1) # {}
      BY <3>1, <3>2 DEF Reach
    <3>. QED
      BY <1>0, <1>2, <3>1, <3>3 DEF UptimeInv, Current
  <2>. QED
    BY <1>1, <2>1 DEF Current
<1>8. ASSUME NEW t \in 1 .. now - 1 PROVE UnitTrue(t)'
  <2>0. t \in Nat /\ t + 1 \in Nat /\ t \in DOMAIN was
    BY <1>0 DEF UptimeInv, TimesOK
  <2>1. /\ SeedIn(transitions, t + 1) = "connected" => was[t] = "connected" \/ t \in excused
        /\ was[t] = "connected" => SeedIn(transitions, t + 1) = "connected" \/ t \in forfeited
    BY <1>1 DEF UptimeInv, UnitTrue, Unjudged
  <2>2. CASE Reach(L, t + 1) = {}
    <3>1. SeedIn(L, t + 1) = "unknown"
      BY <2>2 DEF SeedIn
    <3>2. \A e \in L : UnitOf(e.at) > t
      BY <1>3, <2>0, <2>2 DEF Reach
    <3>3. t \in forfeited'
      BY <1>1, <2>0, <3>2
    <3>. QED
      BY <1>1, <3>1, <3>3 DEF UnitTrue
  <2>3. CASE SeedIn(L, t + 1) = SeedIn(transitions, t + 1)
    BY <1>1, <2>1, <2>3 DEF UnitTrue
  <2>. QED
    BY <1>2, <2>0, <2>2, <2>3
<1>. QED
  BY <1>1, <1>4, <1>5, <1>6, <1>7, <1>8 DEF UptimeInv

\* A unit is over: the newest row is what the camera was at its end.
LEMMA TimePassed == ASSUME UptimeInv, PassTime PROVE UptimeInv'
<1>0. now \in Nat /\ 1 <= now /\ Horizon \in Nat
  BY UptimeSizes
<1> DEFINE s == IF monitor = "off" THEN "dark" ELSE status
<1>1. /\ now < Horizon /\ now' = now + 1 /\ marked' = FALSE /\ was' = Append(was, s)
      /\ excused' = IF tangled THEN excused \cup {now} ELSE excused
      /\ forfeited' = IF tangled THEN forfeited \cup {now} ELSE forfeited
      /\ UNCHANGED <<on, reaches, status, transitions, lastId, beat, monitor, soon, toggle, raced, tangled>>
  BY DEF PassTime, statusEvents
<1>2. s \in Pasts /\ was \in Seq(Pasts) /\ Len(was) = now - 1
  BY DEF UptimeInv, TimesOK, Pasts
<1>. HIDE DEF s
<1>3. /\ was' \in Seq(Pasts) /\ Len(was') = now /\ was'[now] = s
      /\ \A t \in 1 .. now - 1 : was'[t] = was[t]
  BY <1>0, <1>1, <1>2
<1>4. TimesOK'
  BY <1>0, <1>1, <1>3 DEF UptimeInv, TimesOK
<1>5. RowsOK'
  <2>1. \A e \in transitions : e.id <= lastId /\ e.at <= 2 * now + 1 /\ e.at \in Nat
    BY DEF UptimeInv, RowsOK, StatusRows
  <2>2. \A e \in transitions : e.at <= 2 * (now + 1) + 1
    BY <1>0, <2>1
  <2>. QED
    BY <1>1, <2>1, <2>2 DEF UptimeInv, RowsOK
<1>6. SwitchFits'
  BY <1>1 DEF UptimeInv, SwitchFits
<1>7. SeedIn(transitions, now + 1) = SeedIn(transitions, (now + 1) + 1)
  BY <1>0, SeedSettles DEF UptimeInv, RowsOK
<1>8. Current'
  BY <1>1, <1>7 DEF UptimeInv, Current
<1>9. ASSUME NEW t \in 1 .. now - 1 PROVE UnitTrue(t)'
  <2>1. was'[t] = was[t] /\ excused \subseteq excused' /\ forfeited \subseteq forfeited'
    BY <1>1, <1>3
  <2>2. Unjudged(t) => Unjudged(t)'
    BY <1>1, <2>1 DEF Unjudged
  <2>. QED
    BY <1>1, <2>1, <2>2 DEF UptimeInv, UnitTrue
<1>10. ASSUME NEW t \in 1 .. now' - 1, t = now PROVE UnitTrue(t)'
  <2>1. CASE tangled
    BY <1>1, <1>10, <2>1 DEF UnitTrue
  <2>2. CASE ~tangled
    <3>1. SeedIn(transitions', t + 1) = status
      BY <1>1, <1>10, <2>2 DEF UptimeInv, Current
    <3>2. CASE monitor = "off"
      <4>1. was'[t] = "dark"
        BY <1>3, <1>10, <3>2 DEF s
      <4>2. UnitOf(beat) <= t
        <5>1. beat \in Nat /\ beat <= 2 * now + 1
          BY <1>0 DEF UptimeInv, TimesOK
        <5>. QED
          BY <1>0, <1>10, <5>1, StampUnits
      <4>3. \A e \in transitions' : e.at <= 2 * t + 1
        BY <1>1, <1>10 DEF UptimeInv, RowsOK
      <4>4. Unjudged(t)'
        BY <1>1, <3>2, <4>1, <4>2, <4>3 DEF Unjudged
      <4>. QED
        BY <4>1, <4>4 DEF UnitTrue
    <3>3. CASE monitor # "off"
      <4>1. was'[t] = status
        BY <1>3, <1>10, <3>3 DEF s
      <4>. QED
        BY <3>1, <4>1 DEF UnitTrue
    <3>. QED
      BY <3>2, <3>3
  <2>. QED
    BY <2>1, <2>2
<1>11. \A t \in 1 .. now' - 1 : t = now \/ t \in 1 .. now - 1
  BY <1>0, <1>1
<1>. QED
  BY <1>4, <1>5, <1>6, <1>8, <1>9, <1>10, <1>11 DEF UptimeInv

\* Nothing else touches the rows or the past.
LEMMA PastRests ==
  ASSUME UptimeInv, Die \/ Beat \/ ReadCamera \/ ReadSoon \/ Toggle \/ CameraTurns
  PROVE  UptimeInv'
<1>0. now \in Nat /\ 1 <= now
  BY UptimeSizes
<1>1. UNCHANGED <<now, status, transitions, lastId, was, excused, forfeited, tangled, marked>>
  BY DEF Die, Beat, ReadCamera, ReadSoon, Toggle, CameraTurns, statusEvents, monitorVars, pastVars
<1>2. RowsOK' /\ Current'
  BY <1>1 DEF UptimeInv, RowsOK, Current
<1>3. beat' \in {beat, 2 * now} /\ (beat' # beat => monitor # "off" /\ monitor' # "off")
  BY DEF Die, Beat, BeatStamp, ReadCamera, ReadSoon, Toggle, CameraTurns, monitorVars
<1>4. TimesOK'
  <2>1. beat' \in Nat /\ beat' <= 2 * now'
    BY <1>0, <1>1, <1>3 DEF UptimeInv, TimesOK
  <2>2. on' \in BOOLEAN /\ raced' \in BOOLEAN
    BY DEF UptimeInv, TimesOK, Die, Beat, ReadCamera, ReadSoon, Toggle, CameraTurns, pastVars
  <2>3. /\ monitor' \in {"off", "idle", "beaten", "checking"} /\ soon' \in {"off", "due", "checking"}
        /\ toggle' \in {"none", "disabled", "unknown"}
    BY DEF UptimeInv, TimesOK, Die, Beat, ReadCamera, ReadSoon, Toggle, CameraTurns, Halts, monitorVars
  <2>. QED
    BY <1>1, <2>1, <2>2, <2>3 DEF UptimeInv, TimesOK
<1>5. SwitchFits'
  <2>1. CASE Die
    BY <1>1, <2>1 DEF UptimeInv, TimesOK, SwitchFits, Die, Halts
  <2>2. CASE Toggle
    BY <1>1, <2>2 DEF UptimeInv, TimesOK, SwitchFits, Toggle, monitorVars, pastVars
  <2>3. CASE Beat \/ ReadCamera \/ ReadSoon
    BY <1>1, <2>3 DEF UptimeInv, SwitchFits, Beat, ReadCamera, ReadSoon, pastVars
  <2>4. CASE CameraTurns
    BY <1>1, <2>4 DEF UptimeInv, SwitchFits, CameraTurns, monitorVars, pastVars
  <2>. QED
    BY <2>1, <2>2, <2>3, <2>4
<1>6. ASSUME NEW t \in 1 .. now - 1 PROVE UnitTrue(t)'
  <2>1. Unjudged(t) => Unjudged(t)'
    <3>1. monitor = "off" => monitor' = "off" /\ beat' = beat
      BY <1>3 DEF UptimeInv, SwitchFits, Die, Beat, ReadCamera, ReadSoon, Toggle, CameraTurns, Halts, monitorVars
    <3>. QED
      BY <1>1, <3>1 DEF Unjudged
  <2>. QED
    BY <1>1, <2>1 DEF UptimeInv, UnitTrue
<1>. QED
  BY <1>1, <1>2, <1>4, <1>5, <1>6 DEF UptimeInv

LEMMA UptimeSteps == ASSUME UptimeInv, UptimeNext PROVE UptimeInv'
BY Started, Stopped, StatusStored, Pruned, TimePassed, PastRests DEF UptimeNext

LEMMA UptimeStays == ASSUME UptimeInv, UNCHANGED uptimeVars PROVE UptimeInv'
BY DEF UptimeInv, TimesOK, RowsOK, Current, SwitchFits, UnitTrue, Unjudged, uptimeVars, statusEvents, monitorVars, pastVars

LEMMA UptimeHolds == UptimeInv => UptimeTypeOK /\ UptimeTrue
<1>. SUFFICES ASSUME UptimeInv PROVE UptimeTypeOK /\ UptimeTrue
  OBVIOUS
<1>1. UptimeTypeOK
  BY DEF UptimeInv, TimesOK, UptimeTypeOK, Statuses
<1>2. ASSUME monitor # "off", NEW t \in DOMAIN was
      PROVE  /\ ToldAs(t) = "Up" => was[t] = "connected" \/ t \in excused
             /\ was[t] = "connected" => ToldAs(t) = "Up" \/ t \in forfeited
  <2>1. t \in 1 .. now - 1
    BY UptimeSizes DEF UptimeInv, TimesOK
  <2>2. Seed(t + 1) = SeedIn(transitions, t + 1)
    BY DEF Seed, SeedIn, Reach, Until
  <2>3. ToldAs(t) = "Up" <=> SeedIn(transitions, t + 1) = "connected"
    BY <2>2 DEF ToldAs, BucketOf
  <2>. QED
    BY <1>2, <2>1, <2>3 DEF UptimeInv, UnitTrue, Unjudged
<1>3. monitor # "off" /\ status = "connected" /\ ~on /\ toggle = "none" => raced
  BY DEF UptimeInv, SwitchFits
<1>. QED
  BY <1>1, <1>2, <1>3 DEF UptimeTrue

--------------------------------------------------------------------------------
(* The second stream.                                                         *)

(* Rows, calls and paths: the stream 0 is none.                                 *)
SubRows == {s \in [url : 0..Ladder, rec : BOOLEAN, days : 0..1] : s.url = 0 => s = NoSub}
SubPaths == {x \in [url : 0..Ladder, demand : BOOLEAN] : x.url = 0 => x = NoSubPath}
SubCalls == {c \in [do : {"point", "unpath", "forget", "remove", "add"}, url : 0..Ladder] : c.do = "point" => c.url # 0}
Bests == {b \in [url : 0..Ladder, class : 0..2, cost : Nat] : b.url = 0 => b = NoBest}
Probes == [st : {"idle", "main", "others"}, read : SubRows, main : Stream, next : Nat, best : Bests,
           fell : BOOLEAN, guess : BOOLEAN]
Switches == [read : SubRows \ {NoSub}, on : BOOLEAN, days : 0..1]

SubTyped ==
  /\ menu \in Menus /\ up \in BOOLEAN /\ sub \in SubRows /\ probe \in [Probers -> Probes]
  /\ \/ switching = <<>>
     \/ \E s \in Switches : switching = <<s>>
  /\ chores \in [Callers -> Seq(SubCalls)]
  /\ path \in SubPaths /\ recorder \in BOOLEAN
  /\ footage \subseteq [url : 1..Ladder, safe : BOOLEAN] /\ codec \in footage \cup {NoCodec}
  /\ wish \in [url : {0}, rec : BOOLEAN, days : 0..1]
  /\ overtaken \in BOOLEAN /\ astray \in BOOLEAN /\ misled \in BOOLEAN
  /\ faults \subseteq {"erased", "poor", "black"}

(* A probe nothing disturbed knows the camera as it is, and has the best of the *)
(* streams it has tried.                                                        *)
Knows(q) ==
  /\ q.best # NoBest => q.st = "others" /\ q.main # Silent
  /\ q.st = "others" => q.next >= 1
  /\ q.st = "others" /\ ~q.fell /\ q.main # Silent =>
       /\ up /\ q.main = menu.main
       /\ \A u \in 1..Ladder : u < q.next /\ Worth(menu.main, menu.subs[u]) =>
            /\ q.best # NoBest
            /\ ~q.guess => ~Better(Rating(u, menu.subs[u], TRUE), q.best)
ProbesKnow ==
  /\ \A p \in Probers : Knows(probe[p])
  /\ probe["auto"].st # "idle" => probe["auto"].read = NoSub
  /\ probe["check"].st # "idle" => chores["check"] = <<>>

WishKept ==
  ~overtaken => /\ sub = NoSub => wish = NoSub
                /\ sub.rec = wish.rec /\ sub.days = wish.days

(* What the NVR remembers is of the stream that is stored, or about to be       *)
(* forgotten; and footage of one stream is of one kind.                         *)
ForgetsSoon == \E i \in DOMAIN chores["check"] : chores["check"][i].do = "forget"
CodecFits ==
  ~(misled \/ overtaken \/ astray) =>
    /\ \A f \in footage : f.safe = menu.subs[f.url].safe
    /\ codec # NoCodec /\ sub # NoSub => codec.url = sub.url \/ ForgetsSoon
    /\ "black" \notin faults

SubInv == SubTyped /\ ProbesKnow /\ WishKept /\ CodecFits /\ ConfigKept /\ BestStored
LEMMA LadderNat == ASSUME menu \in Menus PROVE Ladder \in Nat /\ menu.main \in Stream /\ menu.subs \in [1..Ladder -> Stream]
<1>1. menu \in [main : Stream, subs : Seq(Stream)]
  BY SubAssumption
<1>. QED
  BY <1>1 DEF Ladder

LEMMA LadderSame == ASSUME menu \in Menus, menu' \in Menus PROVE Ladder' = Ladder
BY SubAssumption DEF Ladder

(* The sets above depend on the ladder alone.                                   *)
LEMMA SetsSame ==
  ASSUME menu \in Menus, menu' \in Menus
  PROVE  SubRows' = SubRows /\ SubPaths' = SubPaths /\ SubCalls' = SubCalls /\ Probes' = Probes /\ Switches' = Switches
<1>1. Ladder' = Ladder
  BY LadderSame
<1>. QED
  BY <1>1 DEF SubRows, SubPaths, SubCalls, Probes, Switches, Bests

LEMMA SubStarts == SubInit => SubInv
<1>. SUFFICES ASSUME SubInit PROVE SubInv
  OBVIOUS
<1>1. menu \in Menus /\ Ladder \in Nat
  BY LadderNat DEF SubInit
<1>2. NoSub \in SubRows /\ NoSubPath \in SubPaths /\ NoBest \in Bests /\ Silent \in Stream
  BY <1>1 DEF NoSub, NoSubPath, NoBest, Silent, SubRows, SubPaths, Bests, Stream
<1>3. ProbeIdle \in Probes
  BY <1>2 DEF ProbeIdle, Probes
<1>4. probe \in [Probers -> Probes] /\ chores \in [Callers -> Seq(SubCalls)]
  BY <1>3 DEF SubInit
<1>5. SubTyped
  <2>1. wish \in [url : {0}, rec : BOOLEAN, days : 0..1]
    BY DEF SubInit, NoSub
  <2>. QED
    BY <1>1, <1>2, <1>4, <2>1 DEF SubInit, SubTyped
<1>6. ProbesKnow
  BY DEF SubInit, ProbesKnow, Knows, ProbeIdle, Probers, Callers
<1>7. WishKept /\ CodecFits
  BY DEF SubInit, WishKept, CodecFits
<1>. QED
  BY <1>5, <1>6, <1>7 DEF SubInv, ConfigKept, BestStored, SubInit
(* What one probe learns changes what it knows, and nothing else.               *)
LEMMA OneProbe ==
  ASSUME SubInv, NEW p \in Probers, NEW q \in Probes, Knows(q),
         probe' = [probe EXCEPT ![p] = q], UNCHANGED <<rowVars, switching, chores, nvrSideVars, subHistory>>,
         p = "auto" => q.read = NoSub, p = "check" => chores["check"] = <<>>
  PROVE  SubInv'
<1>1. SubTyped /\ ProbesKnow
  BY DEF SubInv
<1>2. menu \in Menus /\ Ladder \in Nat
  BY <1>1, LadderNat DEF SubTyped
<1>5. menu' = menu /\ SubRows' = SubRows /\ SubPaths' = SubPaths /\ SubCalls' = SubCalls /\ Probes' = Probes /\ Switches' = Switches
  BY <1>2, SetsSame DEF rowVars
<1>6. SubTyped'
  <2>1. probe' \in [Probers -> Probes]
    BY <1>1 DEF SubTyped
  <2>. QED
    BY <1>1, <1>5, <2>1 DEF SubTyped, rowVars, nvrSideVars, subHistory, Ladder
<1>7. ProbesKnow'
  <2>1. \A r \in Probers : probe'[r] = IF r = p THEN q ELSE probe[r]
    BY <1>1 DEF SubTyped
  <2>2. ASSUME NEW r \in Probers PROVE Knows(probe[r])'
    <3>1. Knows(probe'[r])
      BY <1>1, <2>1 DEF ProbesKnow
    <3>. QED
      BY <3>1, <1>5 DEF Knows, Ladder, rowVars
  <2>4. probe'["auto"].st # "idle" => probe'["auto"].read = NoSub
    BY <1>1, <2>1 DEF ProbesKnow, Probers
  <2>5. probe'["check"].st # "idle" => chores' = chores /\ chores["check"] = <<>>
    BY <1>1, <2>1 DEF ProbesKnow, Probers
  <2>. QED
    BY <2>2, <2>4, <2>5 DEF ProbesKnow
<1>8. WishKept' /\ CodecFits' /\ ConfigKept' /\ BestStored'
  BY DEF SubInv, WishKept, CodecFits, ForgetsSoon, ConfigKept, BestStored, rowVars, nvrSideVars, subHistory, Ladder
<1>. QED
  BY <1>6, <1>7, <1>8 DEF SubInv

LEMMA Begun == ASSUME SubInv, NEW p \in Probers, Begin(p) PROVE SubInv'
<1> DEFINE q == [st |-> "main", read |-> sub, main |-> Silent, next |-> 0, best |-> NoBest, fell |-> FALSE, guess |-> FALSE]
<1>1. SubTyped /\ ProbesKnow
  BY DEF SubInv
<1>2. menu \in Menus /\ Ladder \in Nat
  BY <1>1, LadderNat DEF SubTyped
<1>3. q \in Probes /\ Knows(q)
  BY <1>1, <1>2 DEF SubTyped, Probes, Bests, NoBest, Silent, Stream, Knows
<1>4. /\ probe' = [probe EXCEPT ![p] = q] /\ UNCHANGED <<rowVars, switching, chores, nvrSideVars, subHistory>>
      /\ p = "auto" => q.read = NoSub
      /\ p = "check" => chores["check"] = <<>>
  BY DEF Begin
<1>. QED
  BY <1>3, <1>4, OneProbe

LEMMA MainProbed == ASSUME SubInv, NEW p \in Probers, ProbeMain(p) PROVE SubInv'
<1> DEFINE o == probe[p]
           q == [st |-> "others", read |-> o.read, main |-> IF up THEN menu.main ELSE Silent, next |-> 1,
                 best |-> o.best, fell |-> o.fell, guess |-> o.guess]
<1>1. SubTyped /\ ProbesKnow
  BY DEF SubInv
<1>2. menu \in Menus /\ Ladder \in Nat /\ menu.main \in Stream /\ Silent \in Stream
  BY <1>1, LadderNat DEF SubTyped, Silent, Stream
<1>3. o \in Probes /\ o.st = "main" /\ Knows(o)
  BY <1>1 DEF SubTyped, ProbesKnow, ProbeMain
<1>4. q \in Probes
  BY <1>2, <1>3 DEF Probes
<1>5. Knows(q)
  <2>1. o.best = NoBest /\ \A u \in 1..Ladder : ~(u < 1)
    BY <1>2, <1>3 DEF Knows
  <2>2. q.best = NoBest /\ q.next = 1 /\ q.fell = o.fell /\ q.main = IF up THEN menu.main ELSE Silent
    BY <2>1
  <2> HIDE DEF q
  <2>. QED
    BY <2>1, <2>2 DEF Knows
<1>6. /\ probe' = [probe EXCEPT ![p] = q] /\ UNCHANGED <<rowVars, switching, chores, nvrSideVars, subHistory>>
      /\ p = "auto" => q.read = NoSub
      /\ p = "check" => chores["check"] = <<>>
  BY <1>1, <1>3 DEF ProbeMain, ProbesKnow, SubTyped
<1>. QED
  BY <1>4, <1>5, <1>6, OneProbe
(* Better orders what it compares.                                              *)
LEMMA BetterOrder ==
  ASSUME NEW a \in Bests, NEW b \in Bests, NEW c \in Bests, Ladder \in Nat
  PROVE  /\ ~Better(a, a)
         /\ ~Better(a, b) /\ Better(c, b) => ~Better(a, c)
<1>1. /\ a.class \in Nat /\ b.class \in Nat /\ c.class \in Nat
      /\ a.cost \in Nat /\ b.cost \in Nat /\ c.cost \in Nat
  BY DEF Bests
<1>. QED
  BY <1>1 DEF Better

LEMMA RatingType ==
  ASSUME Ladder \in Nat, NEW u \in 1..Ladder, NEW s \in Stream, NEW measured \in BOOLEAN
  PROVE  Rating(u, s, measured) \in Bests /\ Rating(u, s, measured) # NoBest
<1>1. s.px \in Nat /\ s.rate \in Nat
  BY DEF Stream
<1>2. Rating(u, s, measured).url # 0
  BY DEF Rating
<1>. QED
  BY <1>1, <1>2 DEF Rating, Bests, NoBest

LEMMA OtherProbed == ASSUME SubInv, NEW p \in Probers, ProbeOther(p) PROVE SubInv'
<1> DEFINE o == probe[p]
           u == o.next
           s == IF up /\ u <= Ladder THEN menu.subs[u] ELSE Silent
           ok == Worth(o.main, s)
<1>1. SubTyped /\ ProbesKnow
  BY DEF SubInv
<1>2. menu \in Menus /\ Ladder \in Nat /\ menu.main \in Stream /\ menu.subs \in [1..Ladder -> Stream] /\ Silent \in Stream
  BY <1>1, LadderNat DEF SubTyped, Silent, Stream
<1>3. o \in Probes /\ o.st = "others" /\ u <= Ladder /\ Knows(o)
  BY <1>1 DEF SubTyped, ProbesKnow, ProbeOther
<1>4. PICK measured \in BOOLEAN :
        /\ ~ok => measured
        /\ probe' = [probe EXCEPT ![p] =
            [st |-> @.st, read |-> @.read, main |-> @.main, next |-> u + 1,
             best |-> IF ok /\ (@.best = NoBest \/ Better(Rating(u, s, measured), @.best))
                      THEN Rating(u, s, measured) ELSE @.best,
             fell |-> @.fell, guess |-> @.guess \/ ~measured]]
  BY DEF ProbeOther
<1> DEFINE r == Rating(u, s, measured)
           q == [st |-> o.st, read |-> o.read, main |-> o.main, next |-> u + 1,
                 best |-> IF ok /\ (o.best = NoBest \/ Better(r, o.best)) THEN r ELSE o.best,
                 fell |-> o.fell, guess |-> o.guess \/ ~measured]
<1>5. UNCHANGED <<rowVars, switching, chores, nvrSideVars, subHistory>>
  BY DEF ProbeOther
<1>6. probe' = [probe EXCEPT ![p] = q]
  BY <1>1, <1>4 DEF SubTyped
<1>70. u \in Nat \ {0}
  BY <1>3 DEF Probes, Knows
<1>7. ok => s = menu.subs[u] /\ u \in 1..Ladder /\ o.main # Silent /\ s \in Stream /\ r \in Bests /\ r # NoBest
  <2>1. ok => s # Silent /\ o.main # Silent
    BY DEF Worth
  <2>. QED
    BY <1>1, <1>2, <1>3, <1>70, <2>1, RatingType
<1>8. q \in Probes
  <2>1. q.best \in Bests
    BY <1>3, <1>7 DEF Probes
  <2>. QED
    BY <1>3, <2>1 DEF Probes
<1>9. Knows(q)
  <2>1. q.st = "others" /\ q.next = u + 1 /\ q.main = o.main /\ q.fell = o.fell /\ q.guess = (o.guess \/ ~measured)
    BY <1>3
  <2>2. o.best \in Bests /\ q.best = (IF ok /\ (o.best = NoBest \/ Better(r, o.best)) THEN r ELSE o.best)
    BY <1>3 DEF Probes
  <2>3. ok => q.best # NoBest /\ ~Better(r, q.best)
    BY <1>2, <1>7, <2>2, BetterOrder
  <2>4. o.best # NoBest => q.best # NoBest
    BY <1>7, <2>2
  <2>5. ASSUME NEW v \in 1..Ladder, o.best # NoBest, ~Better(Rating(v, menu.subs[v], TRUE), o.best)
        PROVE  ~Better(Rating(v, menu.subs[v], TRUE), q.best)
    <3>1. Rating(v, menu.subs[v], TRUE) \in Bests
      BY <1>2, RatingType
    <3>. QED
      BY <1>2, <1>7, <2>2, <2>5, <3>1, BetterOrder
  <2>6. ASSUME ~o.fell, o.main # Silent, NEW v \in 1..Ladder, v < u + 1, Worth(menu.main, menu.subs[v])
        PROVE  /\ q.best # NoBest
               /\ ~q.guess => ~Better(Rating(v, menu.subs[v], TRUE), q.best)
    <3>1. up /\ o.main = menu.main
      BY <1>3, <2>6 DEF Knows
    <3>2. CASE v = u
      <4>1. s = menu.subs[u] /\ ok
        BY <1>3, <2>6, <3>1, <3>2
      <4>2. measured => r = Rating(v, menu.subs[v], TRUE)
        BY <3>2, <4>1
      <4>. QED
        BY <2>1, <2>3, <4>1, <4>2
    <3>3. CASE v < u
      <4>1. o.best # NoBest /\ (~o.guess => ~Better(Rating(v, menu.subs[v], TRUE), o.best))
        BY <1>3, <2>6, <3>3 DEF Knows
      <4>. QED
        BY <2>1, <2>4, <2>5, <4>1
    <3>4. v \in Nat /\ (v = u \/ v < u)
      BY <1>2, <1>70, <2>6
    <3>. QED
      BY <3>2, <3>3, <3>4
  <2>7. q.best # NoBest => o.main # Silent
    BY <1>3, <1>7, <2>2 DEF Knows
  <2>8. u + 1 >= 1
    BY <1>70
  <2>9. ~o.fell /\ o.main # Silent => up /\ o.main = menu.main
    BY <1>3 DEF Knows
  <2> HIDE DEF q, r, ok, s
  <2>. QED
    BY <2>1, <2>6, <2>7, <2>8, <2>9 DEF Knows
<1>10. /\ p = "auto" => q.read = NoSub
       /\ p = "check" => chores["check"] = <<>>
  BY <1>1, <1>3 DEF ProbesKnow
<1>. QED
  BY <1>5, <1>6, <1>8, <1>9, <1>10, OneProbe
(* A probe that has ended.                                                      *)
LEMMA ProbeOver ==
  ASSUME SubTyped, ProbesKnow, NEW p \in Probers, probe' = [probe EXCEPT ![p] = ProbeIdle], UNCHANGED <<menu, up>>
  PROVE  /\ probe' \in [Probers -> Probes]
         /\ \A r \in Probers : Knows(probe[r])'
         /\ \A r \in Probers : probe'[r] = IF r = p THEN ProbeIdle ELSE probe[r]
<1>1. menu \in Menus /\ Ladder \in Nat
  BY LadderNat DEF SubTyped
<1>2. ProbeIdle \in Probes /\ Knows(ProbeIdle)
  BY <1>1 DEF Probes, ProbeIdle, Bests, NoBest, Silent, Stream, SubRows, NoSub, Knows
<1>3. \A r \in Probers : probe'[r] = IF r = p THEN ProbeIdle ELSE probe[r]
  BY DEF SubTyped
<1>4. ASSUME NEW r \in Probers PROVE Knows(probe[r])'
  <2>1. Knows(probe'[r])
    BY <1>2, <1>3 DEF ProbesKnow
  <2>. QED
    BY <2>1 DEF Knows, Ladder
<1>. QED
  BY <1>2, <1>3, <1>4 DEF SubTyped

(* What a probe that read the row stores is the best, and never less for want   *)
(* of an answer.                                                                *)
LEMMA StoresWell ==
  ASSUME SubInv, NEW p \in Probers, AllProbed(p), NEW s, s # NoSub => probe[p].best # NoBest,
         s = NoSub => probe[p].best = NoBest /\ (probe[p].main = Silent => sub = NoSub \/ Stale(probe[p].read)),
         Store(p, s)
  PROVE  faults' = faults
<1>1. SubTyped /\ Knows(probe[p])
  BY DEF SubInv, ProbesKnow
<1>2. menu \in Menus /\ Ladder \in Nat
  BY <1>1, LadderNat DEF SubTyped
<1>3. probe[p].next \in Nat /\ probe[p].next > Ladder /\ probe[p].st = "others"
  BY <1>1 DEF SubTyped, Probes, AllProbed
<1>4. ~probe[p].fell /\ probe[p].main # Silent =>
        \A u \in Offered : probe[p].best # NoBest /\ (~probe[p].guess => ~Better(Rating(u, menu.subs[u], TRUE), probe[p].best))
  <2>1. \A u \in 1..Ladder : u < probe[p].next
    BY <1>2, <1>3
  <2>. QED
    BY <1>1, <1>3, <2>1 DEF Knows, Offered
<1>5. s # NoSub => ~Poorly(p)
  <2>1. s # NoSub => probe[p].main # Silent
    BY <1>1 DEF Knows
  <2>. QED
    BY <1>4, <2>1 DEF Poorly, Steady, Better
<1>6. s = NoSub => ~Wronged(p)
  BY <1>4 DEF Wronged
<1>. QED
  BY <1>5, <1>6 DEF Store

LEMMA AutoKept == ASSUME SubInv, AutoStores PROVE SubInv'
<1> DEFINE p == "auto"
           s == Carry(NoSub, probe[p].best.url)
<1>1. SubTyped /\ ProbesKnow /\ WishKept /\ CodecFits /\ p \in Probers
  BY DEF SubInv, Probers
<1>2. menu \in Menus /\ Ladder \in Nat
  BY <1>1, LadderNat DEF SubTyped
<1>3. /\ probe' = [probe EXCEPT ![p] = ProbeIdle] /\ AllProbed(p)
      /\ UNCHANGED <<menu, up, switching, chores, nvrSideVars, wish, astray, subBudget>>
  BY DEF AutoStores
<1>4. menu' = menu /\ SubRows' = SubRows /\ SubPaths' = SubPaths /\ SubCalls' = SubCalls /\ Probes' = Probes /\ Switches' = Switches
  BY <1>2, <1>3, SetsSame
<1>5. /\ probe' \in [Probers -> Probes]
      /\ \A r \in Probers : Knows(probe[r])'
      /\ \A r \in Probers : probe'[r] = IF r = p THEN ProbeIdle ELSE probe[r]
  BY <1>1, <1>3, ProbeOver
<1>6. ProbesKnow'
  BY <1>1, <1>3, <1>5 DEF ProbesKnow, ProbeIdle, Probers
<1>7. CASE probe[p].best = NoBest
  <2>1. UNCHANGED <<sub, overtaken, misled, faults>>
    BY <1>7 DEF AutoStores
  <2>2. SubTyped'
    BY <1>1, <1>3, <1>4, <1>5, <2>1 DEF SubTyped, nvrSideVars, Ladder
  <2>3. WishKept' /\ CodecFits' /\ ConfigKept' /\ BestStored'
    BY <1>1, <1>3, <2>1 DEF SubInv, WishKept, CodecFits, ForgetsSoon, ConfigKept, BestStored, nvrSideVars
  <2>. QED
    BY <1>6, <2>2, <2>3 DEF SubInv
<1>8. CASE probe[p].best # NoBest
  <2>1. Store(p, s)
    BY <1>8 DEF AutoStores
  <2>2. probe[p].best.url \in 1..Ladder
    BY <1>1, <1>2, <1>8 DEF SubTyped, Probes, Bests
  <2>3. s \in SubRows /\ s # NoSub /\ s.rec = FALSE /\ s.days = 0
    BY <1>2, <2>2 DEF Carry, NoSub, SubRows
  <2>4. faults' = faults
    BY <1>1, <1>3, <1>8, <2>1, <2>3, StoresWell
  <2>5. probe[p].read = NoSub
    BY <1>1, <1>3 DEF ProbesKnow, AllProbed
  <2>6. sub' = s /\ overtaken' = (overtaken \/ sub # NoSub) /\ misled' = (misled \/ Unforgotten(s))
    BY <2>1, <2>5 DEF Store, Stale, NoSub
  <2>7. SubTyped'
    BY <1>1, <1>3, <1>4, <1>5, <2>3, <2>4, <2>6 DEF SubTyped, nvrSideVars, Ladder
  <2>8. WishKept'
    <3>1. ~overtaken' => wish = NoSub
      BY <1>1, <2>6 DEF WishKept, SubTyped
    <3>2. sub'.rec = FALSE /\ sub'.days = 0 /\ sub' # NoSub /\ wish' = wish
      BY <1>3, <2>3, <2>6
    <3>3. NoSub.rec = FALSE /\ NoSub.days = 0
      BY DEF NoSub
    <3>. QED
      BY <3>1, <3>2, <3>3 DEF WishKept
  <2>9. CodecFits'
    BY <1>1, <1>3, <2>4, <2>6 DEF SubTyped, CodecFits, ForgetsSoon, Unforgotten, nvrSideVars
  <2>. QED
    BY <1>6, <2>4, <2>7, <2>8, <2>9 DEF SubInv, ConfigKept, BestStored
<1>. QED
  BY <1>7, <1>8

LEMMA CheckKept == ASSUME SubInv, CheckStores PROVE SubInv'
<1> DEFINE p == "check"
           old == probe[p].read
           best == probe[p].best.url
           s == IF best = 0 THEN NoSub ELSE Carry(old, best)
<1>1. SubTyped /\ ProbesKnow /\ WishKept /\ CodecFits /\ p \in Probers
  BY DEF SubInv, Probers
<1>2. menu \in Menus /\ Ladder \in Nat
  BY <1>1, LadderNat DEF SubTyped
<1>3. /\ probe' = [probe EXCEPT ![p] = ProbeIdle] /\ AllProbed(p)
      /\ UNCHANGED <<menu, up, switching, nvrSideVars, astray, subBudget>>
  BY DEF CheckStores
<1>4. menu' = menu /\ SubRows' = SubRows /\ SubPaths' = SubPaths /\ SubCalls' = SubCalls /\ Probes' = Probes /\ Switches' = Switches
  BY <1>2, <1>3, SetsSame
<1>5. /\ probe' \in [Probers -> Probes]
      /\ \A r \in Probers : Knows(probe[r])'
      /\ \A r \in Probers : probe'[r] = IF r = p THEN ProbeIdle ELSE probe[r]
  BY <1>1, <1>3, ProbeOver
<1>6. ProbesKnow'
  BY <1>1, <1>3, <1>5 DEF ProbesKnow, ProbeIdle, Probers
<1>60. chores["check"] = <<>>
  BY <1>1, <1>3 DEF ProbesKnow, AllProbed
<1>61. probe[p] \in Probes
  BY <1>1 DEF SubTyped
<1>7. CASE Unreachable(p) /\ old # NoSub
  <2>1. UNCHANGED <<sub, wish, overtaken, misled, faults, chores>>
    BY <1>7 DEF CheckStores
  <2>2. SubTyped'
    BY <1>1, <1>3, <1>4, <1>5, <2>1 DEF SubTyped, nvrSideVars, Ladder
  <2>3. WishKept' /\ CodecFits' /\ ConfigKept' /\ BestStored'
    BY <1>1, <1>3, <2>1 DEF SubInv, WishKept, CodecFits, ForgetsSoon, ConfigKept, BestStored, nvrSideVars
  <2>. QED
    BY <1>6, <2>2, <2>3 DEF SubInv
<1>8. CASE ~(Unreachable(p) /\ old # NoSub)
  <2> DEFINE calls == IF old.rec /\ best = 0 THEN <<Tell("remove")>>
                      ELSE IF old.rec /\ best # old.url THEN Swap(best) ELSE <<>>
  <2>1. Store(p, s) /\ wish' = (IF s = NoSub THEN NoSub ELSE wish) /\ chores' = [chores EXCEPT ![p] = calls]
    BY <1>8 DEF CheckStores
  <2>2. best \in 0..Ladder /\ old \in SubRows /\ (best = 0 => probe[p].best = NoBest)
    BY <1>61 DEF Probes, Bests
  <2>3. s \in SubRows /\ (s = NoSub <=> best = 0) /\ (best # 0 => s.rec = old.rec /\ s.days = old.days /\ s.url = best)
    <3>1. best = 0 => s = NoSub /\ NoSub \in SubRows
      BY <1>2 DEF NoSub, SubRows
    <3>2. best # 0 => s = [url |-> best, rec |-> old.rec, days |-> old.days]
      BY DEF Carry
    <3>3. best \in Nat /\ old.rec \in BOOLEAN /\ old.days \in 0..1
      BY <1>2, <2>2 DEF SubRows
    <3> HIDE DEF s, best, old
    <3>4. best # 0 => s \in SubRows /\ s # NoSub
      BY <1>2, <2>2, <3>2, <3>3 DEF SubRows, NoSub
    <3>. QED
      BY <3>1, <3>2, <3>4
  <2>4. faults' = faults
    <3>1. s # NoSub => probe[p].best # NoBest
      BY <2>3 DEF NoBest
    <3>2. s = NoSub => probe[p].best = NoBest /\ (probe[p].main = Silent => sub = NoSub \/ Stale(old))
      BY <1>8, <2>2, <2>3 DEF Unreachable, Stale
    <3>. QED
      BY <1>1, <1>3, <2>1, <3>1, <3>2, StoresWell
  <2>5. sub' = s /\ overtaken' = (overtaken \/ sub # old) /\ misled' = (misled \/ (~old.rec /\ Unforgotten(s)))
    BY <2>1 DEF Store, Stale
  <2>6. calls \in Seq(SubCalls) /\ chores' \in [Callers -> Seq(SubCalls)]
    <3>1. Tell("remove") \in SubCalls /\ Tell("forget") \in SubCalls /\ Tell("add") \in SubCalls
      BY <1>2 DEF Tell, SubCalls
    <3>2. best # 0 => Point(best) \in SubCalls
      BY <2>2 DEF Point, SubCalls
    <3>3. old.rec /\ best # 0 /\ best # old.url => Swap(best) \in Seq(SubCalls)
      BY <3>1, <3>2 DEF Swap
    <3>4. calls \in Seq(SubCalls)
      BY <3>1, <3>3
    <3>. QED
      BY <1>1, <2>1, <3>4 DEF SubTyped
  <2>7. SubTyped'
    <3>1. wish' \in [url : {0}, rec : BOOLEAN, days : 0..1]
      BY <1>1, <2>1 DEF SubTyped, NoSub
    <3>2. misled' \in BOOLEAN /\ overtaken' \in BOOLEAN
      BY <1>1, <2>5 DEF SubTyped, SubRows
    <3>. QED
      BY <1>1, <1>3, <1>4, <1>5, <2>3, <2>4, <2>5, <2>6, <3>1, <3>2 DEF SubTyped, nvrSideVars, Ladder
  <2>8. WishKept'
    BY <1>1, <2>1, <2>3, <2>5 DEF WishKept, NoSub
  <2>9. CodecFits'
    <3>1. ASSUME ~(misled' \/ overtaken' \/ astray') PROVE ~(misled \/ overtaken \/ astray) /\ sub = old
      BY <1>3, <2>5, <3>1
    <3>2. ASSUME ~(misled' \/ overtaken' \/ astray'), codec # NoCodec, s # NoSub PROVE codec.url = s.url \/ ForgetsSoon'
      <4>1. CASE ~old.rec
        BY <2>5, <3>2, <4>1 DEF Unforgotten
      <4>2. CASE old.rec /\ best # old.url
        <5>1. calls = Swap(best)
          BY <2>3, <3>2, <4>2
        <5>2. Len(Swap(best)) = 4 /\ Swap(best)[2].do = "forget"
          BY DEF Swap, Tell
        <5>3. chores'["check"] = Swap(best)
          BY <1>1, <2>1, <5>1 DEF SubTyped, Callers
        <5>4. 2 \in DOMAIN Swap(best)
          BY <5>2 DEF Swap
        <5>. QED
          BY <5>2, <5>3, <5>4 DEF ForgetsSoon
      <4>3. CASE old.rec /\ best = old.url
        <5>1. old # NoSub /\ ~ForgetsSoon
          BY <1>60, <4>3 DEF NoSub, ForgetsSoon
        <5>2. codec.url = sub.url
          BY <1>1, <3>1, <3>2, <5>1 DEF CodecFits
        <5>. QED
          BY <2>3, <3>1, <3>2, <4>3, <5>2
      <4>. QED
        BY <2>2, <4>1, <4>2, <4>3 DEF SubRows
    <3>. QED
      BY <1>1, <1>3, <2>4, <2>5, <3>1, <3>2 DEF CodecFits, nvrSideVars
  <2>. QED
    BY <1>6, <2>4, <2>7, <2>8, <2>9 DEF SubInv, ConfigKept, BestStored
<1>. QED
  BY <1>7, <1>8
(* The switch writes what it was asked for over the row it read.                *)
LEMMA AskKept == ASSUME SubInv, NEW wanted \in BOOLEAN, NEW days \in 0..1, AskSwitch(wanted, days) PROVE SubInv'
<1>1. SubTyped /\ menu \in Menus
  BY DEF SubInv, SubTyped
<1>2. UNCHANGED <<rowVars, probe, chores, nvrSideVars, subHistory>>
  BY DEF AskSwitch
<1>3. menu' = menu /\ SubRows' = SubRows /\ SubPaths' = SubPaths /\ SubCalls' = SubCalls /\ Probes' = Probes /\ Switches' = Switches
  BY <1>1, <1>2, SetsSame DEF rowVars
<1>4. [read |-> sub, on |-> wanted, days |-> days] \in Switches
  BY <1>1 DEF SubTyped, Switches, AskSwitch
<1>5. SubTyped'
  BY <1>1, <1>2, <1>3, <1>4 DEF SubTyped, AskSwitch, rowVars, nvrSideVars, subHistory, Ladder
<1>6. ProbesKnow' /\ WishKept' /\ CodecFits' /\ ConfigKept' /\ BestStored'
  BY <1>2 DEF SubInv, ProbesKnow, Knows, WishKept, CodecFits, ForgetsSoon, ConfigKept, BestStored, rowVars, nvrSideVars, subHistory, Ladder
<1>. QED
  BY <1>5, <1>6 DEF SubInv

LEMMA SwitchKept == ASSUME SubInv, StoreSwitch PROVE SubInv'
<1>1. SubTyped /\ ProbesKnow /\ WishKept /\ CodecFits
  BY DEF SubInv
<1>2. menu \in Menus /\ Ladder \in Nat
  BY <1>1, LadderNat DEF SubTyped
<1>3. PICK s \in Switches : switching = <<s>>
  BY <1>1 DEF SubTyped, StoreSwitch
<1> DEFINE row == [url |-> s.read.url, rec |-> s.on, days |-> IF s.days = 0 THEN s.read.days ELSE s.days]
           calls == IF s.on THEN <<Point(row.url), Tell("add")>> ELSE <<Tell("remove"), Tell("unpath")>>
<1>4. /\ sub' = row /\ overtaken' = (overtaken \/ sub # s.read)
      /\ wish' = [url |-> 0, rec |-> row.rec, days |-> row.days]
      /\ chores' = [chores EXCEPT !["switch"] = calls] /\ switching' = <<>>
      /\ UNCHANGED <<menu, up, probe, nvrSideVars, astray, misled, faults, subBudget>>
  BY <1>3 DEF StoreSwitch, Stale
<1>5. menu' = menu /\ SubRows' = SubRows /\ SubPaths' = SubPaths /\ SubCalls' = SubCalls /\ Probes' = Probes /\ Switches' = Switches
  BY <1>2, <1>4, SetsSame
<1>6. s.read \in SubRows /\ s.read # NoSub /\ s.on \in BOOLEAN /\ s.days \in 0..1 /\ s.read.url \in 1..Ladder
  BY <1>2 DEF Switches, SubRows
<1>7. row \in SubRows /\ row.url = s.read.url /\ row.url \in 1..Ladder /\ row # NoSub
  BY <1>2, <1>6 DEF SubRows, NoSub
<1>8. calls \in Seq(SubCalls)
  <2>1. Point(row.url) \in SubCalls /\ Tell("add") \in SubCalls /\ Tell("remove") \in SubCalls /\ Tell("unpath") \in SubCalls
    BY <1>2, <1>7 DEF Point, Tell, SubCalls
  <2>. QED
    BY <2>1
<1>9. chores' \in [Callers -> Seq(SubCalls)] /\ chores'["check"] = chores["check"]
  BY <1>1, <1>4, <1>8 DEF SubTyped, Callers
<1>10. row.rec \in BOOLEAN /\ row.days \in 0..1
  BY <1>7 DEF SubRows
<1> HIDE DEF row, calls
<1>11. SubTyped'
  BY <1>1, <1>4, <1>5, <1>7, <1>9, <1>10 DEF SubTyped, nvrSideVars, Ladder
<1>12. ProbesKnow'
  BY <1>1, <1>4, <1>9 DEF ProbesKnow, Knows, Ladder
<1>13. WishKept'
  BY <1>4, <1>7 DEF WishKept
<1>14. CodecFits'
  <2>1. ForgetsSoon' = ForgetsSoon
    BY <1>9 DEF ForgetsSoon
  <2>. QED
    BY <1>1, <1>4, <1>6, <1>7, <2>1 DEF CodecFits, nvrSideVars
<1>. QED
  BY <1>4, <1>11, <1>12, <1>13, <1>14 DEF SubInv, ConfigKept, BestStored

(* A call is made or lost.                                                      *)
LEMMA OneCall ==
  ASSUME SubTyped, NEW h \in Callers, chores[h] # <<>>,
         \/ chores' = [chores EXCEPT ![h] = Tail(@)]
         \/ h = "switch" /\ chores' = [chores EXCEPT ![h] = <<>>]
  PROVE  /\ Head(chores[h]) \in SubCalls
         /\ chores' \in [Callers -> Seq(SubCalls)]
         /\ chores["check"] = <<>> => chores'["check"] = <<>>
         /\ ForgetsSoon => ForgetsSoon' \/ Head(chores[h]).do = "forget"
<1>1. chores \in [Callers -> Seq(SubCalls)] /\ chores[h] \in Seq(SubCalls) /\ h \in {"check", "switch"}
  BY DEF SubTyped, Callers
<1>2. Head(chores[h]) \in SubCalls /\ Tail(chores[h]) \in Seq(SubCalls)
  BY <1>1
<1>3. chores' \in [Callers -> Seq(SubCalls)]
  <2>1. CASE chores' = [chores EXCEPT ![h] = Tail(@)]
    BY <1>1, <1>2, <2>1
  <2>2. CASE chores' = [chores EXCEPT ![h] = <<>>]
    <3>1. <<>> \in Seq(SubCalls)
      OBVIOUS
    <3>. QED
      BY <1>1, <2>2, <3>1
  <2>. QED
    BY <2>1, <2>2
<1>4. h = "switch" => chores'["check"] = chores["check"]
  BY <1>1 DEF Callers
<1>5. h = "check" => chores'["check"] = Tail(chores["check"])
  BY <1>1
<1>6. ASSUME ForgetsSoon, Head(chores[h]).do # "forget" PROVE ForgetsSoon'
  <2>1. PICK i \in DOMAIN chores["check"] : chores["check"][i].do = "forget"
    BY <1>6 DEF ForgetsSoon
  <2>2. CASE h = "switch"
    BY <1>4, <2>1, <2>2 DEF ForgetsSoon
  <2>3. CASE h = "check"
    <3> DEFINE t == Tail(chores["check"])
    <3>1. chores["check"] \in Seq(SubCalls) /\ i \in 1 .. Len(chores["check"])
      BY <1>1, <2>1, <2>3
    <3>2. i # 1
      BY <1>6, <2>1, <2>3, <3>1
    <3>3. i - 1 \in 1 .. Len(t) /\ t[i - 1] = chores["check"][i]
      BY <1>1, <2>3, <3>1, <3>2, HeadTailProperties
    <3>4. i - 1 \in DOMAIN t
      BY <1>2, <2>3, <3>3
    <3>. QED
      BY <1>5, <2>1, <2>3, <3>3, <3>4 DEF ForgetsSoon
  <2>. QED
    BY <1>1, <2>2, <2>3
<1>. QED
  BY <1>1, <1>2, <1>3, <1>4, <1>5, <1>6

LEMMA CallMade == ASSUME SubInv, NEW h \in Callers, CallNow(h) PROVE SubInv'
<1> DEFINE c == Head(chores[h])
<1>1. SubTyped /\ ProbesKnow /\ WishKept /\ CodecFits
  BY DEF SubInv
<1>2. menu \in Menus /\ Ladder \in Nat
  BY <1>1, LadderNat DEF SubTyped
<1>3. /\ c \in SubCalls /\ chores' \in [Callers -> Seq(SubCalls)]
      /\ chores["check"] = <<>> => chores'["check"] = <<>>
      /\ ForgetsSoon => ForgetsSoon' \/ c.do = "forget"
  BY <1>1, OneCall DEF CallNow
<1>4. /\ UNCHANGED <<rowVars, probe, switching, footage, wish, overtaken, misled, faults>>
      /\ astray' = (astray \/ (c.do = "point" /\ c.url # sub.url))
      /\ path' = PathAfter(c)
      /\ recorder' = (CASE c.do = "add" -> TRUE [] c.do = "remove" -> FALSE [] OTHER -> recorder)
      /\ codec' = (IF c.do = "forget" THEN NoCodec ELSE codec)
  BY DEF CallNow, Effect
<1>5. menu' = menu /\ SubRows' = SubRows /\ SubPaths' = SubPaths /\ SubCalls' = SubCalls /\ Probes' = Probes /\ Switches' = Switches
  BY <1>2, <1>4, SetsSame DEF rowVars
<1>6. path' \in SubPaths /\ recorder' \in BOOLEAN /\ codec' \in footage \cup {NoCodec}
  <2>1. NoSubPath \in SubPaths /\ (c.do = "point" => [url |-> c.url, demand |-> FALSE] \in SubPaths)
    BY <1>2, <1>3 DEF SubPaths, SubCalls, NoSubPath
  <2>2. path' \in {NoSubPath, path} \/ (c.do = "point" /\ path' = [url |-> c.url, demand |-> FALSE])
    BY <1>4 DEF PathAfter
  <2>. QED
    BY <1>1, <1>4, <2>1, <2>2 DEF SubTyped
<1>7. SubTyped'
  BY <1>1, <1>3, <1>4, <1>5, <1>6 DEF SubTyped, rowVars, Ladder
<1>8. ProbesKnow' /\ WishKept' /\ ConfigKept' /\ BestStored'
  BY <1>1, <1>3, <1>4 DEF SubInv, ProbesKnow, Knows, WishKept, ConfigKept, BestStored, rowVars, Ladder
<1>9. CodecFits'
  BY <1>1, <1>3, <1>4 DEF CodecFits, rowVars
<1>. QED
  BY <1>7, <1>8, <1>9 DEF SubInv

LEMMA CallMissed == ASSUME SubInv, NEW h \in Callers, CallLost(h) PROVE SubInv'
<1> DEFINE c == Head(chores[h])
<1>1. SubTyped /\ ProbesKnow /\ WishKept /\ CodecFits
  BY DEF SubInv
<1>2. menu \in Menus
  BY <1>1 DEF SubTyped
<1>3. /\ chores[h] # <<>>
      /\ \/ chores' = [chores EXCEPT ![h] = Tail(@)]
         \/ h = "switch" /\ chores' = [chores EXCEPT ![h] = <<>>]
  BY DEF CallLost
<1>4. /\ chores' \in [Callers -> Seq(SubCalls)]
      /\ chores["check"] = <<>> => chores'["check"] = <<>>
      /\ ForgetsSoon => ForgetsSoon' \/ c.do = "forget"
  BY <1>1, <1>3, OneCall
<1>5. /\ UNCHANGED <<rowVars, probe, switching, nvrSideVars, wish, overtaken, faults>>
      /\ astray' = (astray \/ c.do = "point") /\ misled' = (misled \/ c.do = "forget")
  BY DEF CallLost
<1>6. menu' = menu /\ SubRows' = SubRows /\ SubPaths' = SubPaths /\ SubCalls' = SubCalls /\ Probes' = Probes /\ Switches' = Switches
  BY <1>2, <1>5, SetsSame DEF rowVars
<1>7. SubTyped'
  BY <1>1, <1>4, <1>5, <1>6 DEF SubTyped, rowVars, nvrSideVars, Ladder
<1>8. ProbesKnow' /\ WishKept' /\ ConfigKept' /\ BestStored'
  BY <1>1, <1>4, <1>5 DEF SubInv, ProbesKnow, Knows, WishKept, ConfigKept, BestStored, rowVars, Ladder
<1>9. CodecFits'
  BY <1>1, <1>4, <1>5 DEF CodecFits, rowVars, nvrSideVars
<1>. QED
  BY <1>7, <1>8, <1>9 DEF SubInv

(* The relay, the recorder and the players.                                     *)
LEMMA NvrSideKept ==
  ASSUME SubInv, SyncPath \/ SyncRecorder \/ Record \/ RunOut \/ RelayForgets \/ \E f \in footage : Play(f)
  PROVE  SubInv'
<1>1. SubTyped /\ ProbesKnow /\ WishKept /\ CodecFits
  BY DEF SubInv
<1>2. menu \in Menus /\ Ladder \in Nat /\ menu.subs \in [1..Ladder -> Stream] /\ sub \in SubRows
  BY <1>1, LadderNat DEF SubTyped
<1>3. UNCHANGED <<rowVars, callVars, wish, overtaken, astray>>
  BY DEF SyncPath, SyncRecorder, Record, RunOut, RelayForgets, Play, subHistory
<1>4. menu' = menu /\ SubRows' = SubRows /\ SubPaths' = SubPaths /\ SubCalls' = SubCalls /\ Probes' = Probes /\ Switches' = Switches
  BY <1>2, <1>3, SetsSame DEF rowVars
<1>5. path' \in SubPaths
  <2>1. NoSubPath \in SubPaths
    BY <1>2 DEF SubPaths, NoSubPath
  <2>2. sub # NoSub => [url |-> sub.url, demand |-> ~sub.rec] \in SubPaths
    BY <1>2 DEF SubRows, SubPaths
  <2>3. path' \in {NoSubPath, path} \/ (sub # NoSub /\ path' = [url |-> sub.url, demand |-> ~sub.rec])
    BY DEF SyncPath, SyncRecorder, Record, RunOut, RelayForgets, Play
  <2>. QED
    BY <1>1, <2>1, <2>2, <2>3 DEF SubTyped
<1>6. recorder' \in BOOLEAN
  BY <1>1, <1>2 DEF SubTyped, SubRows, SyncPath, SyncRecorder, Record, RunOut, RelayForgets, Play, Recordable
<1>7. /\ footage \subseteq footage' /\ footage' \subseteq [url : 1..Ladder, safe : BOOLEAN]
      /\ \A f \in footage' : f \in footage \/ f.safe = menu.subs[f.url].safe
  <2>1. CASE Record
    <3>1. path.url \in 1..Ladder
      BY <1>1, <1>2, <2>1 DEF SubTyped, SubPaths, Record
    <3>2. menu.subs[path.url].safe \in BOOLEAN
      BY <1>2, <3>1 DEF Stream
    <3>. QED
      BY <1>1, <2>1, <3>1, <3>2 DEF SubTyped, Record
  <2>2. CASE ~Record
    BY <1>1, <2>2 DEF SubTyped, SyncPath, SyncRecorder, RunOut, RelayForgets, Play
  <2>. QED
    BY <2>1, <2>2
<1>8. /\ codec' \in footage \cup {NoCodec} /\ misled' \in BOOLEAN /\ (misled => misled')
      /\ faults' \subseteq faults \cup {"black"}
      /\ codec' # NoCodec /\ codec' # codec => misled' \/ codec'.url = sub.url
  BY <1>1 DEF SubTyped, SyncPath, SyncRecorder, Record, RunOut, RelayForgets, Play, subHistory
<1>9. SubTyped'
  BY <1>1, <1>3, <1>4, <1>5, <1>6, <1>7, <1>8 DEF SubTyped, rowVars, callVars, Ladder
<1>10. ProbesKnow' /\ WishKept' /\ ConfigKept' /\ BestStored'
  BY <1>1, <1>3, <1>8 DEF SubInv, ProbesKnow, Knows, WishKept, ConfigKept, BestStored, rowVars, callVars, Ladder
<1>11. CodecFits'
  <2>1. ForgetsSoon' = ForgetsSoon
    BY <1>3 DEF ForgetsSoon, callVars
  <2>2. ASSUME ~(misled' \/ overtaken' \/ astray') PROVE faults' = faults
    <3>1. ASSUME NEW f \in footage, Play(f) PROVE faults' = faults
      <4>1. SUFFICES ASSUME f.url = sub.url, chores["check"] = <<>>, codec'.safe PROVE f.safe
        BY <3>1 DEF Play
      <4>2. CASE codec = NoCodec
        BY <3>1, <4>1, <4>2 DEF Play
      <4>3. CASE codec # NoCodec
        <5>1. codec' = codec /\ codec \in footage /\ ~ForgetsSoon
          BY <1>1, <3>1, <4>1, <4>3 DEF Play, SubTyped, ForgetsSoon
        <5>2. sub # NoSub
          BY <1>1, <1>2, <4>1 DEF SubTyped, NoSub
        <5>3. codec.url = sub.url
          BY <1>1, <1>3, <1>8, <2>2, <4>3, <5>1, <5>2 DEF CodecFits
        <5>. QED
          BY <1>1, <1>3, <1>8, <2>2, <4>1, <5>1, <5>3 DEF CodecFits
      <4>. QED
        BY <4>2, <4>3
    <3>2. (\A f \in footage : ~Play(f)) => faults' = faults
      BY DEF SyncPath, SyncRecorder, Record, RunOut, RelayForgets, subHistory
    <3>. QED
      BY <3>1, <3>2
  <2>. QED
    BY <1>1, <1>3, <1>7, <1>8, <2>1, <2>2 DEF CodecFits, rowVars
<1>. QED
  BY <1>9, <1>10, <1>11 DEF SubInv

(* The camera.                                                                  *)
LEMMA CameraKept == ASSUME SubInv, CameraFalls \/ CameraAnswers \/ CameraChanges PROVE SubInv'
<1>1. SubTyped /\ ProbesKnow /\ WishKept /\ CodecFits
  BY DEF SubInv
<1>2. menu \in Menus /\ menu' \in Menus /\ Ladder \in Nat
  BY <1>1, LadderNat DEF SubTyped, CameraFalls, CameraAnswers, CameraChanges
<1>3. Ladder' = Ladder
  BY <1>2, LadderSame
<1>4. SubRows' = SubRows /\ SubPaths' = SubPaths /\ SubCalls' = SubCalls /\ Probes' = Probes /\ Switches' = Switches
  BY <1>2, SetsSame
<1>5. UNCHANGED <<sub, switching, chores, nvrSideVars, wish, overtaken, astray, faults>>
  BY DEF CameraFalls, CameraAnswers, CameraChanges, callVars, subHistory
<1>6. ASSUME probe' = Disturbed
      PROVE  /\ probe' \in [Probers -> Probes] /\ \A p \in Probers : Knows(probe[p])'
             /\ \A p \in Probers : probe'[p].st = probe[p].st /\ probe'[p].read = probe[p].read
  <2>1. ASSUME NEW p \in Probers
        PROVE  /\ probe'[p].st = probe[p].st /\ probe'[p].read = probe[p].read
               /\ probe'[p].best = probe[p].best /\ probe'[p].main = probe[p].main
               /\ probe'[p].next = probe[p].next /\ probe'[p].guess = probe[p].guess
               /\ probe'[p].fell = (probe[p].fell \/ probe[p].st # "idle")
               /\ probe'[p] \in Probes
    <3>1. probe[p] \in Probes /\ probe'[p] = [probe[p] EXCEPT !.fell = @ \/ probe[p].st # "idle"]
      BY <1>1, <1>6 DEF SubTyped, Disturbed
    <3>. QED
      BY <3>1 DEF Probes
  <2>2. ASSUME NEW p \in Probers PROVE Knows(probe[p])'
    <3>1. Knows(probe[p])
      BY <1>1 DEF ProbesKnow
    <3>. QED
      BY <3>1, <2>1 DEF Knows
  <2>3. probe' \in [Probers -> Probes]
    BY <1>6, <2>1 DEF Disturbed
  <2>. QED
    BY <2>1, <2>2, <2>3
<1>7. ASSUME probe' = probe, menu' = menu, up' = TRUE
      PROVE  \A p \in Probers : Knows(probe[p])'
  BY <1>1, <1>7 DEF ProbesKnow, Knows, Ladder
<1>8. /\ probe' \in [Probers -> Probes] /\ \A p \in Probers : Knows(probe[p])'
      /\ \A p \in Probers : probe'[p].st = probe[p].st /\ probe'[p].read = probe[p].read
  <2>1. CameraAnswers => probe' = probe /\ menu' = menu /\ up' = TRUE
    BY DEF CameraAnswers, callVars
  <2>2. CameraFalls \/ CameraChanges => probe' = Disturbed
    BY DEF CameraFalls, CameraChanges
  <2>. QED
    BY <1>1, <1>6, <1>7, <2>1, <2>2 DEF SubTyped
<1>9. up' \in BOOLEAN /\ misled' \in BOOLEAN
  BY <1>1 DEF SubTyped, CameraFalls, CameraAnswers, CameraChanges, subHistory
<1>10. SubTyped'
  BY <1>1, <1>2, <1>3, <1>4, <1>5, <1>8, <1>9 DEF SubTyped, nvrSideVars
<1>11. ProbesKnow' /\ WishKept' /\ ConfigKept' /\ BestStored'
  BY <1>1, <1>5, <1>8 DEF SubInv, ProbesKnow, WishKept, ConfigKept, BestStored, Probers
<1>12. CodecFits'
  <2>1. CameraFalls \/ CameraAnswers => misled' = misled /\ menu' = menu
    BY DEF CameraFalls, CameraAnswers, subHistory
  <2>2. CameraChanges => misled' = (misled \/ footage # {})
    BY DEF CameraChanges
  <2>. QED
    BY <1>1, <1>5, <2>1, <2>2 DEF CodecFits, ForgetsSoon, nvrSideVars
<1>. QED
  BY <1>10, <1>11, <1>12 DEF SubInv

LEMMA SubSteps == ASSUME SubInv, SubNext PROVE SubInv'
BY Begun, MainProbed, OtherProbed, AutoKept, CheckKept, AskKept, SwitchKept, CallMade, CallMissed, NvrSideKept, CameraKept
   DEF SubNext, Probing, Answering, Calling


LEMMA SubHolds == SubInv => SubTypeOK /\ ConfigKept /\ BestStored /\ OperatorWins /\ PlaysAsIs
<1>. SUFFICES ASSUME SubInv PROVE SubTypeOK /\ ConfigKept /\ BestStored /\ OperatorWins /\ PlaysAsIs
  OBVIOUS
<1>1. SubTyped /\ WishKept /\ CodecFits /\ ConfigKept /\ BestStored
  BY DEF SubInv
<1>2. SubTypeOK
  BY <1>1 DEF SubTyped, SubTypeOK, SubRows, SubPaths
<1>3. OperatorWins /\ PlaysAsIs
  BY <1>1 DEF WishKept, OperatorWins, CodecFits, PlaysAsIs
<1>. QED
  BY <1>1, <1>2, <1>3

--------------------------------------------------------------------------------
(* The theorems.                                                                *)

WatchInv ==
  /\ watched \in WatchedParts
  /\ PlayInv /\ ShotInv /\ LevelInv /\ AlarmInv /\ RelayInv /\ UptimeInv /\ SubInv

LEMMA WatchBegins == WatchInit => WatchInv
BY PlayStarts, ShotStarts, LevelStarts, AlarmStarts, RelayStarts, UptimeStarts, SubStarts DEF WatchInit, WatchInv

\* A step of the watch is one of the part that moves, and none of the others.
LEMMA WatchMoves ==
  ASSUME [WatchNext]_watchVars
  PROVE  /\ watched' = watched
         /\ [PlayNext]_playVars /\ [ShotNext]_shotVars /\ [LevelNext]_levelVars
         /\ [RelayNext]_relayVars /\ [UptimeNext]_uptimeVars /\ [SubNext]_subVars
BY DEF WatchNext, watchVars, paneVars, WatchPaths, WatchHistory, WatchPlayback, WatchFootage, WatchStorage,
       WatchResults, WatchServed, WatchSecond, WatchPicture

LEMMA ShotStays == ASSUME ShotInv, UNCHANGED shotVars PROVE ShotInv'
BY DEF ShotInv, shotVars, ShotTypeOK, PassInv, LockInv, Decoders

LEMMA LevelStays == ASSUME LevelInv, AlarmInv, UNCHANGED levelVars PROVE LevelInv' /\ AlarmInv'
BY DEF LevelInv, AlarmInv, levelVars, CapFits, Free

LEMMA RelayStays == ASSUME RelayInv, UNCHANGED relayVars PROVE RelayInv'
BY DEF RelayInv, relayVars, mtxVars, ShapeFits

LEMMA SubStays == ASSUME SubInv, UNCHANGED subVars PROVE SubInv'
<1>1. UNCHANGED <<rowVars, callVars, nvrSideVars, subHistory>>
  BY DEF subVars
<1>2. menu \in Menus /\ menu' = menu
  BY <1>1 DEF SubInv, SubTyped, rowVars
<1>3. SubRows' = SubRows /\ SubPaths' = SubPaths /\ SubCalls' = SubCalls /\ Probes' = Probes /\ Switches' = Switches /\ Ladder' = Ladder
  BY <1>2, SetsSame, LadderSame
<1>4. SubTyped'
  <2>1. SubTyped
    BY DEF SubInv
  <2>. QED
    BY <2>1, <1>1, <1>3 DEF SubTyped, rowVars, callVars, nvrSideVars, subHistory
<1>5. ProbesKnow'
  <2>1. \A p \in Probers : Knows(probe[p])'
    BY <1>1, <1>3 DEF SubInv, ProbesKnow, Knows, rowVars, callVars
  <2>. QED
    BY <2>1, <1>1 DEF SubInv, ProbesKnow, rowVars, callVars
<1>6. WishKept' /\ ConfigKept' /\ BestStored'
  BY <1>1 DEF SubInv, WishKept, ConfigKept, BestStored, rowVars, subHistory
<1>7. CodecFits'
  BY <1>1 DEF SubInv, CodecFits, ForgetsSoon, rowVars, callVars, nvrSideVars, subHistory
<1>. QED
  BY <1>4, <1>5, <1>6, <1>7 DEF SubInv

LEMMA WatchKeeps == WatchInv /\ [WatchNext]_watchVars => WatchInv'
<1>. SUFFICES ASSUME WatchInv, [WatchNext]_watchVars PROVE WatchInv'
  OBVIOUS
<1>1. /\ watched' = watched
      /\ [PlayNext]_playVars /\ [ShotNext]_shotVars /\ [LevelNext]_levelVars
      /\ [RelayNext]_relayVars /\ [UptimeNext]_uptimeVars /\ [SubNext]_subVars
  BY WatchMoves
<1>2. PlayInv'
  BY <1>1, PlaySteps, PlayStays DEF WatchInv
<1>3. ShotInv'
  BY <1>1, ShotSteps, ShotStays DEF WatchInv
<1>4. LevelInv' /\ AlarmInv'
  BY <1>1, LevelSteps, AlarmSteps, LevelStays DEF WatchInv
<1>5. RelayInv'
  BY <1>1, RelaySteps, RelayStays DEF WatchInv
<1>6. UptimeInv'
  BY <1>1, UptimeSteps, UptimeStays DEF WatchInv
<1>7. SubInv'
  BY <1>1, SubSteps, SubStays DEF WatchInv
<1>. QED
  BY <1>1, <1>2, <1>3, <1>4, <1>5, <1>6, <1>7 DEF WatchInv, WatchedParts

\* The extraction slots are neither lost nor doubled and nobody waits while one is
\* free, no artifact is built twice at a time unless a waiter found nothing built,
\* and none older than its name is handed out (nvr/api/hls.py, server.py); live,
\* one request decodes for all as long as its lock is not taken away, and shows
\* the camera that was asked for (camera-mgmt routers/cameras.py).
THEOREM PlaybackHolds == WatchSpec => []PlaybackTrue
<1>1. WatchInv => PlaybackTrue
  BY PlayShows, ShotShows DEF WatchInv, PlaybackTrue
<1>. QED
  BY <1>1, WatchBegins, WatchKeeps, PTL DEF WatchSpec

\* Everything that is kept of a camera keeps its type: its row and its paths with
\* the calls still to be made, its history, the lines of playback and the slots,
\* the disk that is never overfull, the probes and the row of the second stream,
\* the passes of the shared picture.
THEOREM WatchTyped == WatchSpec => []WatchTypeOK
<1>1. WatchInv => WatchTypeOK
  BY RelayHolds, UptimeHolds, PlayShows, LevelHolds, SubHolds DEF WatchInv, ShotInv, WatchTypeOK
<1>. QED
  BY <1>1, WatchBegins, WatchKeeps, PTL DEF WatchSpec

\* The floor takes footage only when the playback cache alone would not do, and
\* never below a cap that was accepted while the other files have not grown
\* (retention.enforce_disk_floor, server.set_storage_limit).
THEOREM FloorIsLast == WatchSpec => FloorComesLast
<1>1. WatchInv /\ [WatchNext]_watchVars =>
        [TakenByFloor => /\ Free + disk.cache < Reserve
                         /\ honest /\ cap.memory # 0 => disk.footage > cap.memory]_levelVars
  BY WatchMoves, FloorSteps DEF WatchInv
<1>. QED
  BY <1>1, WatchBegins, WatchKeeps, PTL DEF WatchSpec, FloorComesLast

\* What is told of a camera is so.  A unit of time is reported as up only if the
\* status said so when it ended, and one the status called connected is reported as
\* up, but for what a recovery at the last heartbeat or the retention took, and for
\* rows that were dated back under newer ones (services/health.py,
\* routers/cameras.py).  The second stream is configured as the operator said last,
\* whatever a probe that was under way stores afterwards; what is stored is the best
\* of what answered; a probe that found nothing leaves what is stored; and footage of
\* it is handed out as playable only when it is, unless a row, the relay or the NVR's
\* codec was overtaken (substream.py, tracks.py, routers/cameras.py).
THEOREM CameraIsTold == WatchSpec => []CameraTold
<1>1. WatchInv => CameraTold
  BY SubHolds, UptimeHolds DEF WatchInv, CameraTold
<1>. QED
  BY <1>1, WatchBegins, WatchKeeps, PTL DEF WatchSpec
================================================================================
