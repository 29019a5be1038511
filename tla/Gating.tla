-------------------------------- MODULE Gating --------------------------------
(***************************************************************************)
(* What the detector gets to look at, for one camera.  Each picture is     *)
(* compared with the one before; nothing changed, nothing is looked at;    *)
(* some of it changed, only those regions are; and of what the detector    *)
(* finds, boxes within boxes are dropped.  The comparison is made by the   *)
(* broker before frames are announced, refused or evicted, or by the       *)
(* worker that takes them from the queue.  A picture is a grid of cells;   *)
(* a change too slight to count is none here.                              *)
(* Code: frames/broker/motion.py and worker.py, analytics/motion.py,       *)
(* pipeline.py, nested_boxes.py, sampler.py, frame_source.py.              *)
(***************************************************************************)
EXTENDS Naturals, Sequences, FiniteSets, SequencesExt

CONSTANTS Wide, Tall,        \* cells of a picture
          Grain,             \* pixels of a cell's side
          Views,             \* what may be in a picture: boxes of things, by thing
          Sort,              \* the domain of a thing
          MaxRegions, Padding, FullFrame, SceneChange,   \* MotionParams, in hundredths
          Nested,            \* nested_containment, in hundredths
          Waiting,           \* length of the pipeline's queue
          GateBudgets        \* who compares, and what may happen

ASSUME GatingAssumption ==
  /\ Wide \in Nat \ {0} /\ Tall \in Nat \ {0} /\ Grain \in Nat \ {0} /\ Waiting \in Nat \ {0}
  /\ {Padding, FullFrame, SceneChange, Nested} \subseteq 0..100
  /\ \A v \in Views : /\ IsFiniteSet(DOMAIN v) /\ DOMAIN v \subseteq Nat \ {0}
                      /\ \A t \in DOMAIN v : v[t] \in Nat \X Nat \X Nat \X Nat
  /\ GateBudgets \subseteq [by : {"broker", "sampler"}, enabled : BOOLEAN, move : Nat, frame : Nat, shape : Nat,
                            connect : Nat, lost : Nat]

VARIABLES
  view,       \* what is before the camera, and the shape of its pictures
  taken,      \* pictures decoded
  base,       \* the picture the next is compared with
  waiting,    \* frames in the pipeline's queue
  looker,     \* the worker: its frame, and what is made of it
  had,        \* history: what the detector last had before it, cell by cell
  since,      \* history: the picture since which a cell shows what it does
  judged,     \* history: the last picture the worker has done with
  spoilt,     \* history: pictures that got lost
  gateBudget

gateVars == <<view, taken, base, waiting, looker, had, since, judged, spoilt, gateBudget>>

SpendGate(c) == gateBudget[c] > 0 /\ gateBudget' = [gateBudget EXCEPT ![c] = @ - 1]

-----------------------------------------------------------------------------
(* Boxes are <<left, top, right, bottom>>.                                 *)

Lower(a, b) == IF a < b THEN a ELSE b
Upper(a, b) == IF a > b THEN a ELSE b
Area(b) == (b[3] - b[1]) * (b[4] - b[2])
Meets(a, b) == a[1] < b[3] /\ b[1] < a[3] /\ a[2] < b[4] /\ b[2] < a[4]
Touches(a, b) == a[1] <= b[3] /\ b[1] <= a[3] /\ a[2] <= b[4] /\ b[2] <= a[4]
Around(a, b) == <<Lower(a[1], b[1]), Lower(a[2], b[2]), Upper(a[3], b[3]), Upper(a[4], b[4])>>
Shared(a, b) == <<Upper(a[1], b[1]), Upper(a[2], b[2]), Lower(a[3], b[3]), Lower(a[4], b[4])>>
LiesIn(a, b) == a[1] >= b[1] /\ a[2] >= b[2] /\ a[3] <= b[3] /\ a[4] <= b[4]
InPixels(b) == [i \in 1..4 |-> b[i] * Grain]
Whole == InPixels(<<0, 0, Wide, Tall>>)

(* What a picture shows in a cell: the foremost thing, or nothing.         *)
Cells == (0..(Wide - 1)) \X (0..(Tall - 1))
Shows(v, c) ==
  LET here == {t \in DOMAIN v : Meets(<<c[1], c[2], c[1] + 1, c[2] + 1>>, v[t])} IN
  IF here = {} THEN 0 ELSE CHOOSE t \in here : \A u \in here : u <= t
Part(v, t) == {c \in Cells : Shows(v, c) = t}
Stirred(v, w) == {c \in Cells : Shows(v, c) # Shows(w, c)}

-----------------------------------------------------------------------------
(* CanonicalMotion.analyse.                                                *)

(* The cells that changed hang together in blobs, and each has its box.    *)
Beside(c, d) == c[1] <= d[1] + 1 /\ d[1] <= c[1] + 1 /\ c[2] <= d[2] + 1 /\ d[2] <= c[2] + 1
Hung(c, blobs) ==
  LET near == {B \in blobs : \E e \in B : Beside(c, e)} IN (blobs \ near) \cup {(UNION near) \cup {c}}
CellAt(k) == CHOOSE c \in Cells : c[2] * Wide + c[1] + 1 = k
Blobs(S) ==
  LET hung[k \in 0..(Wide * Tall)] ==
        IF k = 0 THEN {} ELSE IF CellAt(k) \in S THEN Hung(CellAt(k), hung[k - 1]) ELSE hung[k - 1]
  IN hung[Wide * Tall]
BoxOf(B) ==
  LET xs == {c[1] : c \in B}
      ys == {c[2] : c \in B}
      Lowest(N) == CHOOSE n \in N : \A o \in N : n <= o
      Highest(N) == CHOOSE n \in N : \A o \in N : n >= o
  IN <<Lowest(xs), Lowest(ys), Highest(xs) + 1, Highest(ys) + 1>>

(* Boxes that touch become one; three rounds of it.                        *)
Joined(boxes, b) ==
  LET hits == {i \in DOMAIN boxes : Touches(b, boxes[i])} IN
  IF hits = {} THEN Append(boxes, b)
  ELSE LET i == CHOOSE i \in hits : \A j \in hits : i <= j IN [boxes EXCEPT ![i] = Around(@, b)]
Merged(boxes) ==
  LET merged[k \in 0..Len(boxes)] == IF k = 0 THEN <<>> ELSE Joined(merged[k - 1], boxes[k])
  IN merged[Len(boxes)]
MergeBoxes(boxes) == Merged(Merged(Merged(boxes)))

Padded(b) ==
  LET p == InPixels(b)
      dx == ((p[3] - p[1]) * Padding) \div 100
      dy == ((p[4] - p[2]) * Padding) \div 100
  IN <<Upper(dx, p[1]) - dx, Upper(dy, p[2]) - dy, Lower(Whole[3], p[3] + dx), Lower(Whole[4], p[4] + dy)>>

AreaOf(boxes) == FoldLeft(LAMBDA n, b : n + Area(b), 0, boxes)
Regions(S) ==
  LET boxes == MergeBoxes(SetToSeq({BoxOf(B) : B \in Blobs(S)})) IN [i \in DOMAIN boxes |-> Padded(boxes[i])]

Skip == [kind |-> "none", crops |-> <<>>]
Full == [kind |-> "full", crops |-> <<Whole>>]
Compared(v, w) ==
  LET S == Stirred(v, w)  crops == Regions(S) IN
  CASE S = {} -> Skip
    [] Cardinality(S) * 100 >= SceneChange * Wide * Tall -> Full
    [] Len(crops) > MaxRegions \/ AreaOf(crops) * 100 >= FullFrame * Area(Whole) -> Full
    [] OTHER -> [kind |-> "regions", crops |-> crops]

NoBase == [known |-> FALSE, shape |-> 0, of |-> <<>>]
(* Mutant: the first picture after a connection shows nothing new.         *)
VerdictCalm(b, f) == IF ~b.known THEN Skip ELSE Compared(b.of, f.of)
Verdict(b, f) == IF ~b.known THEN Full ELSE Compared(b.of, f.of)
(* Pictures of two shapes cannot be compared: that is an error, and it     *)
(* leaves the base as it was.                                              *)
Comparable(b, f) == b.known => b.shape = f.shape
Based(b, f) == [known |-> TRUE, shape |-> f.shape, of |-> f.of]

-----------------------------------------------------------------------------
(* The stream.                                                             *)

ByBroker == gateBudget.by = "broker"
Judges == gateBudget.enabled
Now == [n |-> taken + 1, shape |-> view.shape, of |-> view.of, verdict |-> Full]
Moves(v) ==
  /\ v # view.of /\ SpendGate("move") /\ view' = [view EXCEPT !.of = v]
  /\ UNCHANGED <<taken, base, waiting, looker, had, since, judged, spoilt>>
Reshapes ==
  /\ SpendGate("shape") /\ view' = [view EXCEPT !.shape = 3 - @]
  /\ UNCHANGED <<taken, base, waiting, looker, had, since, judged, spoilt>>

Queued(f) == Append(IF Len(waiting) = Waiting THEN Tail(waiting) ELSE waiting, f)
PushedOut == IF Len(waiting) = Waiting THEN {Head(waiting).n} ELSE {}
Arrives(f) ==
  /\ taken' = f.n /\ view' = [view EXCEPT !.last = f.of]
  /\ since' = [c \in Cells |-> IF c \in Stirred(view.last, f.of) THEN f.n ELSE since[c]]

(* The broker: a frame that cannot be compared is not announced, as if it  *)
(* had never been; one that shows nothing new is not read; the notice may  *)
(* get lost, or its frame be overwritten when it is asked for.  Where the  *)
(* gate is switched off the detector looks at the whole of what it is      *)
(* given, but the broker's verdict still decides what that is.             *)
GatedOut(f) == f.verdict.kind = "none"
Published ==
  LET f == [Now EXCEPT !.verdict = Verdict(base, Now)] IN
  /\ ByBroker /\ SpendGate("frame")
  /\ \/ /\ ~Comparable(base, f) /\ taken' = f.n /\ UNCHANGED <<view, since, base, waiting, spoilt>>
     \/ /\ Comparable(base, f) /\ Arrives(f) /\ base' = Based(base, f)
        /\ \/ GatedOut(f) /\ UNCHANGED <<waiting, spoilt>>
           \/ ~GatedOut(f) /\ waiting' = Queued(f) /\ spoilt' = spoilt \cup PushedOut
  /\ UNCHANGED <<looker, had, judged>>
Missed ==
  LET f == Now IN
  /\ ByBroker /\ gateBudget.frame > 0 /\ gateBudget.lost > 0 /\ Arrives(f)
  /\ gateBudget' = [gateBudget EXCEPT !.frame = @ - 1, !.lost = @ - 1]
  /\ Comparable(base, f) /\ base' = Based(base, f) /\ spoilt' = spoilt \cup {f.n}
  /\ UNCHANGED <<waiting, looker, had, judged>>
(* The sampler hands every frame on.                                       *)
Sampled ==
  /\ ~ByBroker /\ SpendGate("frame") /\ Arrives(Now) /\ waiting' = Queued(Now)
  /\ UNCHANGED <<base, looker, had, judged, spoilt>>
(* A new connection: what went before is no longer compared with.  In      *)
(* sampler mode this is another thread than the one that compares.         *)
Reconnect ==
  /\ SpendGate("connect") /\ base' = NoBase
  /\ UNCHANGED <<view, taken, waiting, looker, had, since, judged, spoilt>>

-----------------------------------------------------------------------------
(* The worker.                                                             *)

Unoccupied == [pc |-> "idle", frame |-> Now, found |-> <<>>]
Idles == looker.pc = "idle"
(* A frame of the broker brings its verdict; the gate gives its own.       *)
FirstStep == IF ByBroker \/ ~Judges THEN "look" ELSE IF base.known THEN "compare" ELSE "first"
TakesFrame ==
  /\ Idles /\ waiting # <<>> /\ waiting' = Tail(waiting)
  /\ looker' = [pc |-> FirstStep,
                frame |-> IF Judges THEN Head(waiting) ELSE [Head(waiting) EXCEPT !.verdict = Full],
                found |-> <<>>]
  /\ UNCHANGED <<view, taken, base, had, since, judged, spoilt, gateBudget>>
(* The local gate looks at its base twice: whether there is one, and then  *)
(* at the picture, which may have been dropped meanwhile.  The frames      *)
(* evicted since are lost with the one that fails.                         *)
Fails(f) ==
  judged' = f.n /\ spoilt' = spoilt \cup (judged + 1)..f.n /\ looker' = [looker EXCEPT !.pc = "idle"]
GatesFirst ==
  /\ looker.pc = "first" /\ base' = Based(base, looker.frame)
  /\ looker' = [looker EXCEPT !.pc = "look", !.frame = [@ EXCEPT !.verdict = Full]]
  /\ UNCHANGED <<view, taken, waiting, had, since, judged, spoilt, gateBudget>>
Gates ==
  LET f == looker.frame IN
  /\ looker.pc = "compare"
  /\ IF ~base.known \/ ~Comparable(base, f) THEN Fails(f) /\ UNCHANGED base
     ELSE /\ base' = Based(base, f) /\ UNCHANGED <<judged, spoilt>>
          /\ looker' = [looker EXCEPT !.pc = "look", !.frame = [@ EXCEPT !.verdict = Verdict(base, f)]]
  /\ UNCHANGED <<view, taken, waiting, had, since, gateBudget>>

(* The detector finds of each thing what the crop shows, in the crop's     *)
(* own coordinates.                                                        *)
Found(v, crop) ==
  LET seen == {t \in DOMAIN v : Part(v, t) # {} /\ Meets(InPixels(v[t]), crop)}
      inCrop(t) == LET b == Shared(InPixels(v[t]), crop) IN
                   <<b[1] - crop[1], b[2] - crop[2], b[3] - crop[1], b[4] - crop[2]>>
  IN SetToSeq({[t |-> t, box |-> inCrop(t)] : t \in seen})
(* Mutant: the place of the crop is forgotten.                             *)
PlacedInCrop(d, crop) == d
Placed(d, crop) ==
  [d EXCEPT !.box = <<d.box[1] + crop[1], d.box[2] + crop[2], d.box[3] + crop[1], d.box[4] + crop[2]>>]
DetectRaw(f) ==
  LET of(i) == LET d == Found(f.of, f.verdict.crops[i]) IN [j \in DOMAIN d |-> Placed(d[j], f.verdict.crops[i])]
      all[i \in 0..Len(f.verdict.crops)] == IF i = 0 THEN <<>> ELSE all[i - 1] \o of(i)
  IN all[Len(f.verdict.crops)]

(* suppress_nested: the larger box stays, of boxes of one domain.          *)
Contained(a, b) == Meets(a, b) /\ Area(Shared(a, b)) * 100 >= Nested * Lower(Area(a), Area(b))
(* Mutant: of whatever domain.                                             *)
RivalsAny(d, e) == Contained(d.box, e.box)
Rivals(d, e) == Sort[d.t] = Sort[e.t] /\ Contained(d.box, e.box)
(* By size, a box stays unless one that stays before it covers it.         *)
SuppressNested(found) ==
  LET Sooner(i, j) == Area(found[i].box) > Area(found[j].box) \/ (Area(found[i].box) = Area(found[j].box) /\ i < j)
      Kept(K) == \A i \in DOMAIN found : i \in K <=> \A j \in K : Sooner(j, i) => ~Rivals(found[i], found[j])
  IN {found[i] : i \in CHOOSE K \in SUBSET DOMAIN found : Kept(K)}
Cropped(f, c) ==
  \E i \in DOMAIN f.verdict.crops : Meets(InPixels(<<c[1], c[2], c[1] + 1, c[2] + 1>>), f.verdict.crops[i])
Detects ==
  LET f == looker.frame IN
  /\ looker.pc = "look"
  /\ looker' = [looker EXCEPT !.pc = "found", !.found = SuppressNested(DetectRaw(f))]
  /\ had' = [c \in Cells |-> IF Cropped(f, c) THEN Shows(f.of, c) ELSE had[c]]
  /\ judged' = f.n
  /\ UNCHANGED <<view, taken, base, waiting, since, spoilt, gateBudget>>
EndsFrame ==
  /\ looker.pc = "found" /\ looker' = [looker EXCEPT !.pc = "idle", !.found = <<>>]
  /\ UNCHANGED <<view, taken, base, waiting, had, since, judged, spoilt, gateBudget>>

GatingInit ==
  /\ gateBudget \in GateBudgets /\ view = [of |-> <<>>, shape |-> 1, last |-> <<>>] /\ taken = 0
  /\ base = NoBase /\ waiting = <<>> /\ looker = Unoccupied /\ judged = 0 /\ spoilt = {}
  /\ had = [c \in Cells |-> 0] /\ since = [c \in Cells |-> 0]
GatingNext ==
  \/ (\E v \in Views : Moves(v)) \/ Reshapes \/ Published \/ Missed \/ Sampled \/ Reconnect
  \/ TakesFrame \/ GatesFirst \/ Gates \/ Detects \/ EndsFrame

-----------------------------------------------------------------------------
GatingTypeOK ==
  /\ view.of \in Views \cup {<<>>} /\ view.shape \in {1, 2} /\ taken >= judged
  /\ Len(waiting) <= Waiting /\ looker.pc \in {"idle", "first", "compare", "look", "found"}

(* Whatever changes before the camera is looked at: where the last picture *)
(* is not as the detector last had it before it, the change came with a    *)
(* picture the worker has still to deal with or one that got lost, though  *)
(* pictures since are skipped, refused or pushed out.                      *)
EverythingLooked ==
  \A c \in Cells : Shows(view.last, c) = had[c] \/ since[c] > judged \/ since[c] \in spoilt

(* A thing of which a crop shows the whole is told once, and where it is,  *)
(* unless it stands within another of its kind.                            *)
WithinAnother(v, t) ==
  \E u \in DOMAIN v \ {t} : Sort[u] = Sort[t] /\ Contained(InPixels(v[t]), InPixels(v[u]))
OneBoxEach ==
  looker.pc = "found" =>
    LET f == looker.frame IN
    \A t \in {u \in DOMAIN f.of : Part(f.of, u) # {}} :
      \/ \A i \in DOMAIN f.verdict.crops : ~LiesIn(InPixels(f.of[t]), f.verdict.crops[i])
      \/ WithinAnother(f.of, t)
      \/ {d.box : d \in {e \in looker.found : e.t = t}} = {InPixels(f.of[t])}
===============================================================================
