----------------------------- MODULE MCCameraWatch -----------------------------
(* A camera of the relay, in good time or not, about which one to three    *)
(* things are asked; one whose history runs over five units; three players *)
(* of one segment; two segments at most of five seconds; a disk of six; up   *)
(* to eight rows of an index, up to four hits to be served; a camera that    *)
(* offers two more streams; two requests for its picture.                  *)
EXTENDS CameraWatch

RB(q, k, s, a, which) ==
  [quick |-> q, skewed |-> k, sub |-> s, anew |-> a] @@
  [x \in RequestKinds \cup {"move", "stop", "restart", "flush"} |-> IF x \in which THEN 1 ELSE 0]
MCRelayBudgets ==
  {RB(FALSE, TRUE, "none", 2, {"delete", "create"}), RB(FALSE, TRUE, "resolved", 1, {"disable", "enable", "restart"}),
   RB(FALSE, FALSE, "recorded", 2, {"move", "repoint"}), RB(FALSE, TRUE, "none", 2, {"repoint", "move"}),
   RB(FALSE, TRUE, "none", 1, {"find", "stop"}), RB(FALSE, TRUE, "resolved", 1, {"record", "flush"}),
   RB(TRUE, FALSE, "none", 1, {"reconnect", "disable"}), RB(TRUE, FALSE, "recorded", 1, {"unrecord", "stop"})}

UB(a, s, d, g, t, p) == [start |-> a, stop |-> s, die |-> d, toggle |-> g, turn |-> t, prune |-> p]
MCUptimeBudgets ==
  {UB(2, 0, 1, 0, 1, 0), UB(2, 0, 1, 1, 0, 0), UB(2, 1, 0, 1, 0, 0), UB(1, 0, 0, 1, 0, 1), UB(1, 0, 0, 0, 2, 1)}

PB(t, some) == [transcode |-> t] @@ some @@
  [x \in {"fetch", "fail", "clip", "rewrite", "erase", "purge", "evict"} |-> 0]
MCPlayBudgets ==
  {PB(TRUE, [fetch |-> 3, fail |-> 2, clip |-> 1]), PB(FALSE, [fetch |-> 3, fail |-> 1, rewrite |-> 1]),
   PB(TRUE, [fetch |-> 3, rewrite |-> 1, evict |-> 1, clip |-> 1]), PB(FALSE, [fetch |-> 3, erase |-> 1, evict |-> 1]),
   PB(TRUE, [fetch |-> 3, fail |-> 1, purge |-> 1, clip |-> 1])}

Pieces == {s \in [from : 0..Now, to : 0..Now] : s.from < s.to /\ s.to - s.from <= SegmentSeconds}
MCReels ==
  [main : {{x, y} : x, y \in Pieces} \cup {{}}, sub : {{x} : x \in {y \in Pieces : y.to - y.from = SegmentSeconds}} \cup {{}},
   codec : {[main |-> "h264", sub |-> "h264"], [main |-> "hevc", sub |-> "h264"]}]

LB(seed, some) == [seed |-> seed] @@ some @@
  [x \in {"footage", "cache", "other", "shrink", "cap", "save", "post", "hours", "restart"} |-> 0]
MCLevelBudgets ==
  {LB(0, [footage |-> 3, cap |-> 1, other |-> 1]), LB(0, [footage |-> 2, cache |-> 1, cap |-> 1, hours |-> 1]),
   LB(3, [footage |-> 3, other |-> 2, restart |-> 1]), LB(4, [footage |-> 2, restart |-> 1, save |-> 1, cap |-> 1]),
   LB(0, [footage |-> 3, post |-> 1, shrink |-> 1, cache |-> 1])}

Row(n, d, some) ==
  some @@ [id |-> n, domain |-> d, camera |-> "c", tracker |-> 0, age |-> 1, score |-> 2, kind |-> 0, sure |-> 1, plate |-> 0, live |-> TRUE]
Trio(a, s, k) == {Row(n, "vehicles", [age |-> a[n], score |-> s[n], tracker |-> k[n], kind |-> (n % 2) + 1, sure |-> n, plate |-> k[n]]) : n \in 1..3}
Mixed == {Row(1, "person", [age |-> 0, tracker |-> 1]), Row(2, "person", [age |-> 1, score |-> 3, tracker |-> 1]), Row(3, "person", [camera |-> "d", score |-> 4]),
          Row(4, "vehicles", [kind |-> 1, age |-> 2, plate |-> 1]), Row(5, "vehicles", [kind |-> 0, age |-> 3, plate |-> 2]),
          Row(6, "vehicles", [live |-> FALSE, score |-> 4]), Row(7, "face", [age |-> 3, score |-> 1]), Row(8, "face", [age |-> 2, score |-> 3])}
Crowd == {Row(n, "person", [age |-> n % 2, score |-> 3 + (n \div 5), tracker |-> 1]) : n \in 1..5} \cup {Row(6, "person", [age |-> 0, tracker |-> 2])}
MCCorpora ==
  {Trio(a, s, k) : a \in [1..3 -> {0, 2, 5}], s \in [1..3 -> {1, 2, 4}], k \in {<<1, 1, 2>>, <<1, 0, 0>>}}
    \cup SUBSET Mixed \cup SUBSET Crowd
Q(some) ==
  some @@ [cameras |-> {"c"}, named |-> {}, chosen |-> {}, from |-> Ever, to |-> 0, floor |-> 0, top |-> 2, by |-> "time",
           ascending |-> FALSE, domains |-> {}, shift |-> 0, plate |-> 0]
MCInquiries ==
  {Q([top |-> 1, domains |-> {"vehicles"}]), Q([cameras |-> {"c", "d"}, floor |-> 2]), Q([by |-> "score"]),
   Q([by |-> "score", ascending |-> TRUE, named |-> {1}]), Q([ascending |-> TRUE, top |-> 3]), Q([from |-> 3, shift |-> 1]),
   Q([to |-> 1, named |-> {1, 2}, chosen |-> {2}]), Q([cameras |-> {}]), Q([top |-> 1, domains |-> {"person"}, plate |-> 1])}
MCSteps == <<1, 3>>

K(s, n) == [slug |-> s, name |-> n]
MCRegistries == {<<K("c", "gate"), K("d", "c")>>, <<K("d", "c"), K("c", "gate")>>, <<K("c", "x"), K("e", "d")>>, <<K("e", "e")>>}
H(o, t) == [of |-> o, at |-> t]
MCHits == {<<H("c", u[1]), H("x", u[1]), H("d", u[2]), H("c", u[2])>> : u \in {v \in (-1..Now) \X (-1..Now) : v[1] # v[2]}}
A(k, c, n, some) == [kind |-> k, camera |-> c, top |-> n] @@ some @@ [recorder |-> TRUE, coverage |-> TRUE, live |-> TRUE]
MCAskings ==
  {A("people", "any", 2, [live |-> FALSE]), A("people", "c", 2, [live |-> TRUE]), A("plates", "any", 2, [coverage |-> FALSE]),
   A("vehicles", "any", 1, [live |-> TRUE]), A("vehicles", "e", 1, [recorder |-> FALSE]), A("people", "e", 1, [live |-> TRUE]),
   A("faces", "any", 1, [recorder |-> FALSE])}
(* A menu is the camera's main stream and the two others it offers.        *)
Offer(s, x, r) == [safe |-> s, px |-> x, rate |-> r]
MCMenus ==
  {[main |-> Offer(FALSE, 8, 4), subs |-> u] :
      u \in {<<Offer(TRUE, 4, 3), Offer(TRUE, 2, 2)>>, <<Offer(FALSE, 3, 1), Offer(TRUE, 6, 5)>>,
             <<Offer(FALSE, 3, 1), Offer(FALSE, 6, 5)>>}}
  \cup {[main |-> Offer(TRUE, 8, 4), subs |-> <<Offer(TRUE, 4, 3), Offer(FALSE, 1, 1)>>]}
SB(some) ==
  some @@ [x \in {"auto", "check", "switch", "measure", "lost", "expire", "down", "change", "restart"} |-> 0]
MCSubBudgets ==
  {SB([auto |-> 1, check |-> 1, switch |-> 1]), SB([check |-> 2, down |-> 1]),
   SB([auto |-> 1, switch |-> 1, measure |-> 1, restart |-> 1]),
   SB([check |-> 2, switch |-> 1, lost |-> 1, change |-> 1]), SB([auto |-> 1, switch |-> 2, expire |-> 1])}
HB(a, d, x) == [ask |-> a, die |-> d, delete |-> x]
MCShotBudgets == {HB(3, 1, 0), HB(3, 0, 1), HB(2, 1, 1)}
MCHoldings ==
  [main : {{x, y} : x, y \in Pieces} \cup {{}}, sub : {{}}, codec : {[main |-> "h264", sub |-> "h264"]}]
================================================================================
