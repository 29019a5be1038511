-------------------------------- MODULE SubTrack --------------------------------
(***************************************************************************)
(* The low-resolution second stream of one camera: how the streams it      *)
(* offers are probed and judged, what is stored of the best, and how the   *)
(* relay's path, the recorder and the codec the NVR remembers follow what  *)
(* is stored.  A camera is probed by the task its registration leaves      *)
(* behind and by an operator's request, another request switches the       *)
(* recording; all three read the row, take their time, and write it.       *)
(* Code: camera-mgmt/backend/services/substream.py, services/tracks.py,    *)
(* routers/cameras.py.                                                     *)
(***************************************************************************)
EXTENDS Naturals, Sequences

CONSTANTS Menus,       \* what the camera may offer: its main stream and the same number of others
          SubBudgets   \* what may happen

Stream == [safe : BOOLEAN, px : Nat, rate : Nat]
ASSUME SubAssumption ==
  /\ Menus \subseteq [main : Stream, subs : Seq(Stream)]
  /\ \A m, n \in Menus : Len(m.subs) = Len(n.subs)

Probers == {"auto", "check"}
Callers == {"check", "switch"}

VARIABLES
  menu,       \* what the camera offers now
  up,         \* it answers
  sub,        \* the row's sub track: which stream, whether to record it, how long to keep it
  probe,      \* what a prober read, found so far and is about to try
  switching,  \* the switch: what it read and is about to write
  chores,     \* calls a request has still to make
  path,       \* the relay's path of the sub track
  recorder,   \* the NVR records it
  footage,    \* what has been recorded: of which stream, playable as it is or not
  codec,      \* what the NVR remembers the sub track to be
  wish,       \* history: what the operator last asked for
  overtaken,  \* history: a row was written by somebody who had read another one
  astray,     \* history: the relay was not told of a stream, or of a former one
  misled,     \* history: the codec is that of another stream, or the NVR was not told
  faults,     \* history: stored wrongly, or shown black
  subBudget

rowVars == <<menu, up, sub>>
callVars == <<probe, switching, chores>>
nvrSideVars == <<path, recorder, footage, codec>>
subHistory == <<wish, overtaken, astray, misled, faults>>
subVars == <<rowVars, callVars, nvrSideVars, subHistory, subBudget>>

SpendSub(c) == subBudget[c] > 0 /\ subBudget' = [subBudget EXCEPT ![c] = @ - 1]

Silent == [safe |-> FALSE, px |-> 0, rate |-> 0]
NoSub == [url |-> 0, rec |-> FALSE, days |-> 0]
NoSubPath == [url |-> 0, demand |-> FALSE]
NoBest == [url |-> 0, class |-> 0, cost |-> 0]
NoCodec == [url |-> 0, safe |-> FALSE]
Ladder == Len(menu.subs)

-----------------------------------------------------------------------------
(* Probing and judging.                                                    *)

(* A sub track spares playback a conversion: of no use when the main       *)
(* stream plays as it is or is not known; of use when it plays as it is or *)
(* has at most half of the pixels.                                         *)
Worth(main, s) ==
  s # Silent /\ main # Silent /\ ~main.safe /\ (s.safe \/ 2 * s.px <= main.px)

(* What plays as it is before what does not, then the cheapest: measured,  *)
(* or by its pixels when the measuring failed.                             *)
Rating(u, s, measured) ==
  [url |-> u, class |-> IF s.safe THEN 2 ELSE 1, cost |-> IF measured THEN s.rate ELSE s.px]
(* Mutant: the biggest picture of a class.                                 *)
Bigger(a, b) == a.class > b.class \/ (a.class = b.class /\ a.cost > b.cost)
Better(a, b) == a.class > b.class \/ (a.class = b.class /\ a.cost < b.cost)

ProbeIdle == [st |-> "idle", read |-> NoSub, main |-> Silent, next |-> 0, best |-> NoBest, fell |-> FALSE, guess |-> FALSE]

(* The task of a registration looks only at a camera that has no sub track.*)
Begin(p) ==
  /\ probe[p].st = "idle" /\ SpendSub(p) /\ (p = "check" => chores[p] = <<>>)
  /\ p = "auto" => sub = NoSub
  /\ probe' = [probe EXCEPT ![p] = [st |-> "main", read |-> sub, main |-> Silent, next |-> 0,
                                    best |-> NoBest, fell |-> FALSE, guess |-> FALSE]]
  /\ UNCHANGED <<rowVars, switching, chores, nvrSideVars, subHistory>>
ProbeMain(p) ==
  /\ probe[p].st = "main"
  /\ probe' = [probe EXCEPT ![p] = [st |-> "others", read |-> @.read, main |-> IF up THEN menu.main ELSE Silent,
                                    next |-> 1, best |-> @.best, fell |-> @.fell, guess |-> @.guess]]
  /\ UNCHANGED <<rowVars, switching, chores, nvrSideVars, subHistory, subBudget>>
ProbeOther(p) ==
  LET u == probe[p].next
      s == IF up /\ u <= Ladder THEN menu.subs[u] ELSE Silent
      ok == Worth(probe[p].main, s)
  IN
  /\ probe[p].st = "others" /\ u <= Ladder
  /\ \E measured \in BOOLEAN :
       /\ IF measured \/ ~ok THEN measured /\ UNCHANGED subBudget ELSE SpendSub("measure")
       /\ LET r == Rating(u, s, measured) IN
          probe' = [probe EXCEPT ![p] =
            [st |-> @.st, read |-> @.read, main |-> @.main, next |-> u + 1,
             best |-> IF ok /\ (@.best = NoBest \/ Better(r, @.best)) THEN r ELSE @.best,
             fell |-> @.fell, guess |-> @.guess \/ ~measured]]
  /\ UNCHANGED <<rowVars, switching, chores, nvrSideVars, subHistory>>
AllProbed(p) == probe[p].st = "others" /\ probe[p].next > Ladder

-----------------------------------------------------------------------------
(* Storing.                                                                *)

(* carry_operator_settings: what a person decided is carried across.       *)
(* Mutant: the recording only.                                             *)
CarryRecording(prior, u) == [url |-> u, rec |-> prior.rec, days |-> 0]
Carry(prior, u) == [url |-> u, rec |-> prior.rec, days |-> prior.days]

(* A camera that did not answer teaches nothing.                           *)
(* Mutant: it has nothing to offer.                                        *)
NothingLearnt(p) == FALSE
Unreachable(p) == probe[p].main = Silent /\ probe[p].best = NoBest

Stale(read) == sub # read
Steady(p) == ~probe[p].fell /\ ~probe[p].guess
Offered == {u \in 1..Ladder : Worth(menu.main, menu.subs[u])}
Poorly(p) ==
  /\ Steady(p)
  /\ \E u \in Offered :
       LET r == Rating(u, menu.subs[u], TRUE)
           b == probe[p].best
       IN r.class > b.class \/ (r.class = b.class /\ r.cost < b.cost)
(* Erased for no more than not having answered.                            *)
Wronged(p) == sub # NoSub /\ ~Stale(probe[p].read) /\ Offered # {} /\ (probe[p].main = Silent \/ ~probe[p].fell)

\* A stream that is not being recorded is replaced and the NVR not told, whatever it
\* remembers of the one before.
Unforgotten(s) == codec # NoCodec /\ s # NoSub /\ codec.url # s.url
Store(p, s) ==
  /\ sub' = s /\ overtaken' = (overtaken \/ Stale(probe[p].read))
  /\ misled' = (misled \/ (~probe[p].read.rec /\ Unforgotten(s)))
  /\ faults' = faults \cup (IF s = NoSub /\ Wronged(p) THEN {"erased"} ELSE {})
                     \cup (IF s # NoSub /\ Poorly(p) THEN {"poor"} ELSE {})

(* The task reads the row again, but through a session that has it: what   *)
(* somebody else stored meanwhile does not show, and the task writes.      *)
AutoStores ==
  /\ AllProbed("auto") /\ probe' = [probe EXCEPT !["auto"] = ProbeIdle]
  /\ IF probe["auto"].best = NoBest THEN UNCHANGED <<sub, overtaken, misled, faults>>
     ELSE Store("auto", Carry(NoSub, probe["auto"].best.url))
  /\ UNCHANGED <<menu, up, switching, chores, nvrSideVars, wish, astray, subBudget>>

(* The calls carry the stream the row had when it was committed.           *)
Point(u) == [do |-> "point", url |-> u]
Tell(what) == [do |-> what, url |-> 0]
(* A recorded stream replaced by another: the relay is repointed, the NVR  *)
(* forgets the codec, and its recorder begins anew.                        *)
Swap(u) == <<Point(u), Tell("forget"), Tell("remove"), Tell("add")>>
CheckStores ==
  LET was == probe["check"].read
      best == probe["check"].best.url
      now == IF best = 0 THEN NoSub ELSE Carry(was, best)
  IN
  /\ AllProbed("check") /\ probe' = [probe EXCEPT !["check"] = ProbeIdle]
  /\ IF Unreachable("check") /\ was # NoSub
       THEN UNCHANGED <<sub, wish, overtaken, misled, faults, chores>>
       ELSE /\ Store("check", now)
            /\ wish' = IF now = NoSub THEN NoSub ELSE wish
            /\ chores' = [chores EXCEPT !["check"] =
                 IF was.rec /\ best = 0 THEN <<Tell("remove")>>
                 ELSE IF was.rec /\ best # was.url THEN Swap(best) ELSE <<>>]
  /\ UNCHANGED <<menu, up, switching, nvrSideVars, astray, subBudget>>

(* The switch: only for a sub track that is there; keeping it for so many  *)
(* days may be said with it.                                               *)
AskSwitch(on, days) ==
  /\ switching = <<>> /\ chores["switch"] = <<>> /\ sub # NoSub /\ SpendSub("switch")
  /\ switching' = <<[read |-> sub, on |-> on, days |-> days]>>
  /\ UNCHANGED <<rowVars, probe, chores, nvrSideVars, subHistory>>
StoreSwitch ==
  /\ switching # <<>>
  /\ LET s == switching[1]
         now == [url |-> s.read.url, rec |-> s.on, days |-> IF s.days = 0 THEN s.read.days ELSE s.days]
     IN /\ sub' = now /\ overtaken' = (overtaken \/ Stale(s.read))
        /\ wish' = [url |-> 0, rec |-> now.rec, days |-> now.days]
        /\ chores' = [chores EXCEPT !["switch"] =
             IF s.on THEN <<Point(now.url), Tell("add")>> ELSE <<Tell("remove"), Tell("unpath")>>]
  /\ switching' = <<>>
  /\ UNCHANGED <<menu, up, probe, nvrSideVars, astray, misled, faults, subBudget>>

-----------------------------------------------------------------------------
(* The relay and the NVR.                                                  *)

Recordable == sub # NoSub /\ sub.rec

(* ensure_path adds a path, or repoints it when it is there; a recorder is *)
(* added unless it is there.                                               *)
(* Mutant: a path that is there is left as it is.                          *)
PathAdded(c) ==
  CASE c.do = "point" /\ path = NoSubPath -> [url |-> c.url, demand |-> FALSE] [] c.do = "unpath" -> NoSubPath [] OTHER -> path
PathAfter(c) ==
  CASE c.do = "point" -> [url |-> c.url, demand |-> FALSE] [] c.do = "unpath" -> NoSubPath [] OTHER -> path
Effect(c) ==
  /\ path' = PathAfter(c)
  /\ recorder' = CASE c.do = "add" -> TRUE [] c.do = "remove" -> FALSE [] OTHER -> recorder
  /\ codec' = IF c.do = "forget" THEN NoCodec ELSE codec
CallNow(h) ==
  /\ chores[h] # <<>> /\ Effect(Head(chores[h]))
  /\ chores' = [chores EXCEPT ![h] = Tail(@)]
  /\ astray' = (astray \/ (Head(chores[h]).do = "point" /\ Head(chores[h]).url # sub.url))
  /\ UNCHANGED <<rowVars, probe, switching, footage, wish, overtaken, misled, faults, subBudget>>
(* A relay that does not answer ends the calls of the switch; the check    *)
(* goes on, as both do when the NVR does not.                              *)
CallLost(h) ==
  LET c == Head(chores[h]) IN
  /\ chores[h] # <<>> /\ SpendSub("lost")
  /\ chores' = [chores EXCEPT ![h] = IF h = "switch" /\ c.do \in {"point", "unpath"} THEN <<>> ELSE Tail(@)]
  /\ astray' = (astray \/ c.do = "point") /\ misled' = (misled \/ c.do = "forget")
  /\ UNCHANGED <<rowVars, probe, switching, nvrSideVars, wish, overtaken, faults>>

(* The loops look for what is missing or left over, and for that only.     *)
SyncPath ==
  /\ \/ path = NoSubPath /\ sub # NoSub /\ path' = [url |-> sub.url, demand |-> ~sub.rec]
     \/ path # NoSubPath /\ sub = NoSub /\ path' = NoSubPath
  /\ UNCHANGED <<rowVars, callVars, recorder, footage, codec, subHistory, subBudget>>
SyncRecorder ==
  /\ recorder # Recordable /\ recorder' = Recordable
  /\ UNCHANGED <<rowVars, callVars, path, footage, codec, subHistory, subBudget>>

Record ==
  /\ recorder /\ path # NoSubPath /\ up
  /\ footage' = footage \cup {[url |-> path.url, safe |-> menu.subs[path.url].safe]}
  /\ UNCHANGED <<rowVars, callVars, path, recorder, codec, subHistory, subBudget>>

(* A player asks for footage of the sub track: its codec is remembered,    *)
(* unless one is.  Footage that does not play as it is, and is handed out  *)
(* as if it did, is shown black.                                           *)
Play(f) ==
  /\ f \in footage
  /\ codec' = IF codec = NoCodec THEN f ELSE codec
  /\ misled' = (misled \/ (codec = NoCodec /\ f.url # sub.url))
  /\ faults' = faults \cup
       IF f.url = sub.url /\ chores["check"] = <<>> /\ codec'.safe /\ ~f.safe THEN {"black"} ELSE {}
  /\ UNCHANGED <<rowVars, callVars, path, recorder, footage, wish, overtaken, astray, subBudget>>
RunOut ==
  /\ codec # NoCodec /\ SpendSub("expire") /\ codec' = NoCodec
  /\ UNCHANGED <<rowVars, callVars, path, recorder, footage, subHistory>>

-----------------------------------------------------------------------------
(* The camera, and the relay's memory.                                     *)

Disturbed == [p \in Probers |-> [probe[p] EXCEPT !.fell = @ \/ probe[p].st # "idle"]]
CameraFalls ==
  /\ up /\ SpendSub("down") /\ up' = FALSE /\ probe' = Disturbed
  /\ UNCHANGED <<menu, sub, switching, chores, nvrSideVars, subHistory>>
CameraAnswers ==
  /\ ~up /\ up' = TRUE /\ UNCHANGED <<menu, sub, callVars, nvrSideVars, subHistory, subBudget>>
CameraChanges ==
  /\ SpendSub("change") /\ menu' \in Menus \ {menu} /\ probe' = Disturbed
  /\ misled' = (misled \/ footage # {})
  /\ UNCHANGED <<up, sub, switching, chores, nvrSideVars, wish, overtaken, astray, faults>>
RelayForgets ==
  /\ path # NoSubPath /\ SpendSub("restart") /\ path' = NoSubPath
  /\ UNCHANGED <<rowVars, callVars, recorder, footage, codec, subHistory>>

SubInit ==
  /\ menu \in Menus /\ up = TRUE /\ sub = NoSub
  /\ probe = [p \in Probers |-> ProbeIdle] /\ switching = <<>> /\ chores = [h \in Callers |-> <<>>]
  /\ path = NoSubPath /\ recorder = FALSE /\ footage = {} /\ codec = NoCodec
  /\ wish = NoSub /\ overtaken = FALSE /\ astray = FALSE /\ misled = FALSE /\ faults = {}
  /\ subBudget \in SubBudgets

Probing(p) == Begin(p) \/ ProbeMain(p) \/ ProbeOther(p)
Calling(h) == CallNow(h) \/ CallLost(h)
Answering == AutoStores \/ CheckStores \/ StoreSwitch
SubNext ==
  \/ \E p \in Probers : Probing(p)
  \/ Answering \/ \E h \in Callers : Calling(h)
  \/ \E on \in BOOLEAN, days \in 0..1 : AskSwitch(on, days)
  \/ SyncPath \/ SyncRecorder \/ Record \/ \E f \in footage : Play(f)
  \/ RunOut \/ CameraFalls \/ CameraAnswers \/ CameraChanges \/ RelayForgets

-----------------------------------------------------------------------------
SubTypeOK ==
  /\ menu \in Menus /\ sub \in [url : 0..Ladder, rec : BOOLEAN, days : 0..1] /\ (sub.url = 0 => sub = NoSub)
  /\ path \in [url : 0..Ladder, demand : BOOLEAN] /\ footage \subseteq [url : 1..Ladder, safe : BOOLEAN]
  /\ codec \in footage \cup {NoCodec} /\ faults \subseteq {"erased", "poor", "black"}

(* A camera that does not answer keeps what is known of it, but for one    *)
(* that falls silent after its main stream has answered; and what is       *)
(* stored is the best the camera offers.                                   *)
ConfigKept == "erased" \notin faults
BestStored == "poor" \notin faults

(* Whether a sub track is recorded, and how long it is kept, is what the   *)
(* operator last said - unless a probe that began before wrote after.      *)
OperatorWins == sub = NoSub \/ overtaken \/ (sub.rec = wish.rec /\ sub.days = wish.days)

(* Footage of the stream now stored is handed out as what it is, unless    *)
(* the codec was learnt from footage of another stream meanwhile.          *)
PlaysAsIs == "black" \in faults => misled \/ overtaken \/ astray

(* The recorder records what the row says, from a path that carries it.    *)
SubFollowed ==
  /\ recorder = Recordable /\ (path = NoSubPath) = (sub = NoSub)
  /\ recorder => path.url = sub.url \/ overtaken \/ astray
================================================================================
