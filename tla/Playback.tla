------------------------------- MODULE Playback -------------------------------
(***************************************************************************)
(* Recorded footage on its way to a player: the artifacts the NVR makes    *)
(* of a segment (nvr/api/hls.py), one lock for each of them, and the       *)
(* extraction slots that transcodes and clips share (nvr/api/server.py),   *)
(* beside a groomer, erasures, purges and evictions of the cache.          *)
(*                                                                         *)
(* Requests are coroutines of one event loop: an action is what one does   *)
(* between two suspensions.  The segment on disk is known by its version;  *)
(* its signature (size and mtime) is the version, and an artifact is kept  *)
(* under the signature the player asked for, with what it shows beside it. *)
(***************************************************************************)
EXTENDS Naturals, Sequences, FiniteSets

CONSTANTS
  Players,        \* requests that may be in progress at once
  Slots,          \* extractions at a time
  MaxVersion,     \* how often the segment may be rewritten, and once more
  MaxLocks,       \* locks at a time
  PlayBudgets     \* whether a segment is transcoded, and what may happen

Kinds == {"init", "m4s"}
Versions == 1..MaxVersion
Locks == 1..MaxLocks
Nobody == "nobody"
PlayBudgetTypes ==
  [transcode : BOOLEAN, fetch : Nat, fail : Nat, clip : Nat, rewrite : Nat, erase : Nat, purge : Nat, evict : Nat]

ASSUME PlayAssumption ==
  /\ {Slots, MaxVersion, MaxLocks} \subseteq Nat \ {0}
  /\ IsFiniteSet(Players) /\ Nobody \notin Players
  /\ PlayBudgets \subseteq PlayBudgetTypes

VARIABLES
  source,     \* the segment: its file's version (0: no file), its row
  shelf,      \* what the artifact of a signature and a kind shows (0: none)
  lockAt,     \* HlsCache._locks: the lock of a signature (0: none)
  lockBy,     \* who holds a lock
  lockLine,   \* who waits for it; the first one may have been woken
  free,       \* the extraction slots left
  slotLine,   \* who waits for one
  clips,      \* clips that are being extracted
  play,       \* where each player's request stands
  served,     \* the last artifact that was handed out
  stranded,   \* a waiter's artifact was not there when it got its lock
  playBudget
lockVars == <<lockAt, lockBy, lockLine>>
slotVars == <<free, slotLine>>
playVars == <<source, shelf, lockAt, lockBy, lockLine, free, slotLine, clips, play, served,
              stranded, playBudget>>

At(p) == play[p].at
Standing(at, k, s, l, opened, tries) ==
  [at |-> at, kind |-> k, sig |-> s, lock |-> l, opened |-> opened, tries |-> tries]
Resting == Standing("idle", "m4s", 1, 1, 0, 1)
Turned(r, at, opened, tries) == Standing(at, r.kind, r.sig, r.lock, opened, tries)
Spend(what) == playBudget[what] > 0 /\ playBudget' = [playBudget EXCEPT ![what] = @ - 1]
Transcodes == playBudget.transcode

-----------------------------------------------------------------------------
(* The locks.  asyncio.Lock is fair: a released lock wakes the first of    *)
(* its line and is unlocked until that one runs.                           *)

InUse(l) == (\E s \in Versions : lockAt[s] = l) \/ \E p \in Players : At(p) # "idle" /\ play[p].lock = l
\* A lock of its own for every request.
LockForOne(s) == CHOOSE l \in Locks : ~InUse(l)
LockFor(s) == IF lockAt[s] # 0 THEN lockAt[s] ELSE CHOOSE l \in Locks : ~InUse(l)
LockLeft(s) == lockAt[s] # 0 \/ \E l \in Locks : ~InUse(l)
Taken(l) == lockBy[l] # Nobody \/ lockLine[l] # <<>>

(* The end of `async with lock` and the `finally` after it are one step:   *)
(* the waiter that was woken has not run, so the lock is never locked here *)
(* and its entry always goes, with somebody in line or without.            *)
LetGoOf(l, s) ==
  /\ lockBy' = [lockBy EXCEPT ![l] = Nobody]
  /\ lockAt' = [lockAt EXCEPT ![s] = IF @ = l THEN 0 ELSE @]

(* The slots.  A released slot is handed to the first of the line.         *)
SlotFree == free > 0 /\ slotLine = <<>>
GiveBack ==
  IF slotLine = <<>> THEN /\ free' = free + 1 /\ UNCHANGED slotLine
                     ELSE /\ slotLine' = Tail(slotLine) /\ UNCHANGED free
FirstInLine == IF slotLine = <<>> THEN {} ELSE {Head(slotLine)}
HandedOn(f) == [q \in Players |-> IF q \in FirstInLine THEN [f[q] EXCEPT !.at = "open"] ELSE f[q]]

(* An attempt begins: a transcode needs a slot, a remux does not.          *)
Attempt(p, r) ==
  IF Transcodes /\ ~SlotFree
    THEN /\ play' = [play EXCEPT ![p] = [r EXCEPT !.at = "slot"]]
         /\ slotLine' = Append(slotLine, p) /\ UNCHANGED free
    ELSE /\ play' = [play EXCEPT ![p] = [r EXCEPT !.at = "open"]]
         /\ free' = IF Transcodes THEN free - 1 ELSE free
         /\ UNCHANGED slotLine

(* An artifact's name holds the signature that was asked for.              *)
\* Artifacts named by their segment alone.
NameOfSegment(s) == 1
Name(s) == s
Cached(s, k) == shelf[Name(s), k]
Hand(p, s, k) == served' = [by |-> p, sig |-> s, shows |-> shelf'[Name(s), k]]

-----------------------------------------------------------------------------
(* hls_segment: the row and the file are looked up and the signature is    *)
(* compared, then the cache is asked; up to here nothing suspends.         *)
Fetchable(s) == source.row /\ source.file = s

Fetch(p, s, k) ==
  /\ At(p) = "idle" /\ Spend("fetch") /\ Fetchable(s)
  /\ IF Cached(s, k) # 0
       THEN /\ UNCHANGED <<shelf, lockVars, free, slotLine, play>>
            /\ Hand(p, s, k)
       ELSE LET l == LockFor(s)
                r == Standing("lock", k, s, l, 0, 1) IN
            /\ LockLeft(s)
            /\ lockAt' = [lockAt EXCEPT ![s] = l]
            /\ UNCHANGED <<shelf, served>>
            /\ IF Taken(l)
                 THEN /\ lockLine' = [lockLine EXCEPT ![l] = Append(@, p)]
                      /\ play' = [play EXCEPT ![p] = r]
                      /\ UNCHANGED <<lockBy, slotVars>>
                 ELSE /\ lockBy' = [lockBy EXCEPT ![l] = p] /\ UNCHANGED lockLine
                      /\ Attempt(p, r)
  /\ UNCHANGED <<source, clips, stranded>>

(* A woken waiter runs: what it wants was built meanwhile, or it builds.   *)
Woken(p) ==
  LET r == play[p]  l == r.lock IN
  /\ r.at = "lock" /\ lockBy[l] = Nobody /\ Head(lockLine[l]) = p
  /\ lockLine' = [lockLine EXCEPT ![l] = Tail(@)]
  /\ IF Cached(r.sig, r.kind) # 0
       THEN /\ play' = [play EXCEPT ![p] = Resting] /\ LetGoOf(l, r.sig)
            /\ UNCHANGED <<shelf, slotVars, stranded>> /\ Hand(p, r.sig, r.kind)
       ELSE /\ lockBy' = [lockBy EXCEPT ![l] = p] /\ stranded' = TRUE
            /\ UNCHANGED <<lockAt, shelf, served>> /\ Attempt(p, r)
  /\ UNCHANGED <<source, clips, playBudget>>

(* _materialise: ffmpeg opens the file that is there by then.              *)
Open(p) ==
  /\ At(p) = "open" /\ source.file # 0
  /\ play' = [play EXCEPT ![p] = Turned(@, "encode", source.file, @.tries)]
  /\ UNCHANGED <<source, shelf, lockVars, slotVars, clips, served, stranded, playBudget>>

(* Both files are moved into place, media first; then the slot and the     *)
(* lock are given back and the answer goes out.                            *)
Shelved(s, o) == [x \in Versions \X Kinds |-> IF x[1] = Name(s) THEN o ELSE shelf[x]]

Built(p) ==
  LET r == play[p] IN
  /\ r.at = "encode"
  /\ shelf' = Shelved(r.sig, r.opened)
  /\ LetGoOf(r.lock, r.sig)
  /\ IF Transcodes THEN GiveBack ELSE UNCHANGED slotVars
  /\ play' = [(IF Transcodes THEN HandedOn(play) ELSE play) EXCEPT ![p] = Resting]
  /\ Hand(p, r.sig, r.kind)
  /\ UNCHANGED <<source, lockLine, clips, stranded, playBudget>>

(* ffmpeg fails or runs out of time, finds no file, or its scratch         *)
(* directory is swept away ("lost"): the slot is given back; a transcode   *)
(* on hardware is tried again on the CPU, behind those that wait for a     *)
(* slot; the last attempt answers 500.                                     *)
Again(r, where) == Turned(r, where, 0, 2)
Fails(p) ==
  LET r == play[p] IN
  /\ \/ r.at = "open" /\ source.file = 0 /\ UNCHANGED playBudget
     \/ r.at = "lost" /\ UNCHANGED playBudget
     \/ r.at \in {"open", "encode"} /\ Spend("fail")
  /\ IF Transcodes /\ r.tries = 1
       THEN /\ UNCHANGED <<lockAt, lockBy, free>>
            /\ IF slotLine = <<>>
                 THEN play' = [play EXCEPT ![p] = Again(r, "open")] /\ UNCHANGED slotLine
                 ELSE /\ slotLine' = Append(Tail(slotLine), p)
                      /\ play' = [HandedOn(play) EXCEPT ![p] = Again(r, "slot")]
       ELSE /\ IF Transcodes THEN GiveBack ELSE UNCHANGED slotVars
            /\ play' = [(IF Transcodes THEN HandedOn(play) ELSE play) EXCEPT ![p] = Resting]
            /\ LetGoOf(r.lock, r.sig)
  /\ UNCHANGED <<source, shelf, lockLine, clips, served, stranded>>

-----------------------------------------------------------------------------
(* get_clip: with no slot free it is refused at once; it never waits.      *)
BeginClip ==
  /\ Spend("clip") /\ SlotFree /\ free' = free - 1 /\ clips' = clips + 1
  /\ UNCHANGED <<source, shelf, lockVars, slotLine, play, served, stranded>>
EndClip ==
  /\ clips > 0 /\ clips' = clips - 1 /\ GiveBack /\ play' = HandedOn(play)
  /\ UNCHANGED <<source, shelf, lockVars, served, stranded, playBudget>>

(* The segment under it: rewritten by the groomer; expired by the          *)
(* retention thread, file first; purged, rows and files and the cache.     *)
Rewrite ==
  /\ source.file \in 1..(MaxVersion - 1) /\ Spend("rewrite")
  /\ source' = [source EXCEPT !.file = @ + 1]
  /\ UNCHANGED <<shelf, lockVars, slotVars, clips, play, served, stranded>>
UnlinkSource ==
  /\ source.file # 0 /\ Spend("erase") /\ source' = [source EXCEPT !.file = 0]
  /\ UNCHANGED <<shelf, lockVars, slotVars, clips, play, served, stranded>>
DropRow ==
  /\ source.file = 0 /\ source.row /\ source' = [source EXCEPT !.row = FALSE]
  /\ UNCHANGED <<shelf, lockVars, slotVars, clips, play, served, stranded, playBudget>>
Swept(f) == [p \in Players |-> IF f[p].at = "encode" THEN [f[p] EXCEPT !.at = "lost"] ELSE f[p]]
Purge ==
  /\ source.row /\ Spend("purge") /\ source' = [file |-> 0, row |-> FALSE]
  /\ shelf' = [x \in DOMAIN shelf |-> 0] /\ play' = Swept(play)
  /\ UNCHANGED <<lockVars, slotVars, clips, served, stranded>>

(* The cache's own evictions: one artifact by age, or all of it and the    *)
(* scratch directories when the disk is full.                              *)
EvictOne(x) ==
  /\ shelf[x] # 0 /\ Spend("evict") /\ shelf' = [shelf EXCEPT ![x] = 0]
  /\ UNCHANGED <<source, lockVars, slotVars, clips, play, served, stranded>>
EvictAll ==
  /\ Spend("evict") /\ shelf' = [x \in DOMAIN shelf |-> 0] /\ play' = Swept(play)
  /\ UNCHANGED <<source, lockVars, slotVars, clips, served, stranded>>

-----------------------------------------------------------------------------
PlayInit ==
  /\ source = [file |-> 1, row |-> TRUE]
  /\ shelf = [x \in Versions \X Kinds |-> 0]
  /\ lockAt = [s \in Versions |-> 0]
  /\ lockBy = [l \in Locks |-> Nobody] /\ lockLine = [l \in Locks |-> <<>>]
  /\ free = Slots /\ slotLine = <<>> /\ clips = 0
  /\ play = [p \in Players |-> Resting]
  /\ served = [by |-> Nobody, sig |-> 1, shows |-> 1]
  /\ stranded = FALSE
  /\ playBudget \in PlayBudgets

Serving(p) == Woken(p) \/ Open(p) \/ Built(p) \/ Fails(p)
PlayNext ==
  \/ \E p \in Players, s \in Versions, k \in Kinds : Fetch(p, s, k)
  \/ \E p \in Players : Serving(p)
  \/ BeginClip \/ EndClip \/ Rewrite \/ UnlinkSource \/ DropRow \/ Purge
  \/ EvictAll \/ \E x \in DOMAIN shelf : EvictOne(x)

-----------------------------------------------------------------------------
Encoding(p) == At(p) \in {"open", "encode", "lost"}
Standings ==
  [at : {"idle", "lock", "slot", "open", "encode", "lost"}, kind : Kinds, sig : Versions, lock : Locks,
   opened : 0..MaxVersion, tries : {1, 2}]
InLine(p, line) == \E i \in DOMAIN line : line[i] = p
PlayTypeOK ==
  /\ source \in [file : 0..MaxVersion, row : BOOLEAN]
  /\ shelf \in [Versions \X Kinds -> 0..MaxVersion]
  /\ lockAt \in [Versions -> Locks \cup {0}] /\ lockBy \in [Locks -> Players \cup {Nobody}]
  /\ lockLine \in [Locks -> Seq(Players)] /\ slotLine \in Seq(Players)
  /\ play \in [Players -> Standings]
  /\ \A p \in Players : At(p) = "lock" <=> InLine(p, lockLine[play[p].lock])
  /\ served \in [by : Players \cup {Nobody}, sig : Versions, shows : 0..MaxVersion]
  /\ free \in 0..Slots /\ clips \in 0..Slots
  /\ stranded \in BOOLEAN /\ playBudget \in PlayBudgetTypes

(* The extraction slots are neither lost nor doubled, whatever fails: with *)
(* those that encode and the clips they make up the limit, and nobody is   *)
(* in line while one is free (server._extraction_slot, get_clip).          *)
SlotsKept ==
  /\ free + clips + (IF Transcodes THEN Cardinality({p \in Players : Encoding(p)}) ELSE 0) = Slots
  /\ slotLine # <<>> => free = 0

(* "two players seeking to the same segment must not run two ffmpegs"      *)
(* (hls.py:313): it takes a waiter that found nothing built.               *)
BuiltOnce ==
  \A p, q \in Players :
    p # q /\ Encoding(p) /\ Encoding(q) /\ play[p].sig = play[q].sig => stranded

(* A player gets what its playlist named, or what the groomer made of it   *)
(* while the request was waiting; never an older picture (hls.py:38-41).   *)
ServedCurrent == served.shows >= served.sig

AllServed == clips = 0 /\ \A p \in Players : At(p) = "idle"
===============================================================================
