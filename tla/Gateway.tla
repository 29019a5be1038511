-------------------------------- MODULE Gateway --------------------------------
(***************************************************************************)
(* Which hits of the index the management API serves                       *)
(* (camera-mgmt/backend/services/search_scope.py, routers/search.py): only *)
(* those that lead to footage the recorder still holds.  The recorder's    *)
(* footage of camera "c", and what /coverage says of it, are those of      *)
(* Footage.                                                                *)
(***************************************************************************)
EXTENDS Footage

CONSTANTS
  Chunk,        \* CHUNK_SECONDS, by which the retained window is widened
  FreshMargin,  \* FRESH_MARGIN_SECONDS
  Overfetch,    \* the results asked of the index for each result shown
  Registries,   \* the registered cameras, in the order the rows are read
  Hits,         \* what the index would find, best first: the camera named, the second or -1
  Askings       \* the search, and what the recorder answers

VARIABLES registry, hits, asking
gateVars == <<registry, hits, asking>>
Inventory == {registry[n].slug : n \in DOMAIN registry}

(* build_index: every identifier of every camera, the first writer wins.   *)
Names(cam) == {cam.slug, cam.name}
Places(h) == {n \in DOMAIN registry : h.of \in Names(registry[n])}
\* The last writer wins.
ResolveLast(h) ==
  IF Places(h) = {} THEN "nobody" ELSE registry[CHOOSE n \in Places(h) : \A m \in Places(h) : m <= n].slug
Resolve(h) ==
  IF Places(h) = {} THEN "nobody" ELSE registry[CHOOSE n \in Places(h) : \A m \in Places(h) : n <= m].slug

(* The recorder's inventory, or nothing when it does not answer: camera    *)
(* "c" with its footage, and "d", of which it has none yet.                *)
Reached == asking.recorder
OurSlugs == {s \in Inventory : ~Reached \/ s \in {"c", "d"}}

-----------------------------------------------------------------------------
(* The cameras the index is asked for: the one that was chosen, else ours; *)
(* vehicles are looked for in all of a shared index.                       *)
Everything == {"c", "d", "e", "x"}
TurnedAway == asking.camera # "any" /\ asking.camera \notin (IF asking.kind = "vehicles" THEN Inventory ELSE OurSlugs)
Chosen == asking.camera # "any"
\* Scoped on our side only.
AnyScope == IF TurnedAway THEN {} ELSE IF Chosen THEN {asking.camera} ELSE Everything
OwnScope == IF TurnedAway THEN {} ELSE IF Chosen THEN {asking.camera} ELSE OurSlugs
Scope == IF asking.kind = "vehicles" THEN AnyScope ELSE OwnScope

(* More is fetched than shown, unless the index filters exactly.           *)
Fetched == IF asking.kind = "people" /\ Chosen THEN asking.top ELSE asking.top * Overfetch
Brought == LET ours == SelectSeq(hits, LAMBDA h : h.of \in Scope) IN SubSeq(ours, 1, Lesser(Fetched, Len(ours)))

-----------------------------------------------------------------------------
Windows(slug) == slug = "c" /\ tape.main # {}
UpperEnd == IF asking.live THEN Greater(Now, Latest(tape.main)) ELSE Latest(tape.main)
InWindow(h) == Earliest(tape.main) - Chunk <= h.at /\ h.at <= UpperEnd

(* Rules 1 to 4, in their order.                                           *)
Reason(h) ==
  IF Resolve(h) = "nobody" THEN "unmapped"
  ELSE IF h.at = -1 THEN "no_timestamp"
  ELSE IF ~Reached THEN "none"
  ELSE IF ~Windows(Resolve(h)) THEN "not_recorded"
  ELSE IF ~InWindow(h) THEN "outside_retention" ELSE "none"
Coarse == {h \in Range(Brought) : Reason(h) = "none"}

(* Rule 5: one question for a camera, over the span of its hits; the       *)
(* freshest are not asked about.                                           *)
AskedAbout == {h \in Coarse : h.at < Latest(tape.main) - FreshMargin}
\* Over the hits themselves, without the margin.
SpanningTight(S) ==
  [from |-> CHOOSE x \in {h.at : h \in S} : \A h \in S : x <= h.at,
   to |-> CHOOSE x \in {h.at : h \in S} : \A h \in S : x >= h.at, live |-> asking.live]
Spanning(S) ==
  [from |-> Greater(0, (CHOOSE x \in {h.at : h \in S} : \A h \in S : x <= h.at) - Chunk),
   to |-> (CHOOSE x \in {h.at : h \in S} : \A h \in S : x >= h.at) + Chunk, live |-> asking.live]
FromOf(q) == Greater(q.from, Earliest(tape.main))
TillOf(q) == Lesser(q.to, Latest(tape.main))
(* A second is covered if a span that begins or ends with it is.           *)
CoveredAt(t, q) ==
  /\ FromOf(q) < TillOf(q) /\ t \in FromOf(q)..TillOf(q)
  /\ \/ t \in FromOf(q)..(TillOf(q) - 1) /\ t \notin Coverage(q)
     \/ t - 1 \in FromOf(q)..(TillOf(q) - 1) /\ t - 1 \notin Coverage(q)
InGap == IF Reached /\ asking.coverage THEN {h \in AskedAbout : ~CoveredAt(h.at, Spanning(AskedAbout))} ELSE {}
Remaining == Coarse \ InGap
Withheld(reason) ==
  Cardinality(IF reason = "in_gap" THEN InGap ELSE {h \in Range(Brought) : Reason(h) = reason})
Served == LET left == SelectSeq(Brought, LAMBDA h : h \in Remaining) IN SubSeq(left, 1, Lesser(asking.top, Len(left)))

(* How many rows of the index are ours.  An empty list in a query string   *)
(* does not arrive, and reads as everything.                               *)
AsReceived(slugs) == IF slugs = {} THEN Everything ELSE slugs
Count(S) == Len(SelectSeq(hits, LAMBDA h : h.of \in S))
\* What comes back is what is ours.
CountedAnyway == Count(AsReceived(OurSlugs))
Counted == IF OurSlugs = {} THEN 0 ELSE Count(AsReceived(OurSlugs))

-----------------------------------------------------------------------------
NoAsking == [kind |-> "people", camera |-> "any", top |-> 1, recorder |-> FALSE, coverage |-> FALSE, live |-> FALSE]
GateInit == registry = <<>> /\ hits = <<>> /\ asking = NoAsking
(* A search is served; the recorder answers or not.                        *)
Serve(r, S, a) ==
  /\ hits = <<>> /\ registry' = r /\ hits' = S /\ asking' = a
  /\ UNCHANGED footageVars
GateNext == \E r \in Registries, S \in Hits, a \in Askings : Serve(r, S, a)

-----------------------------------------------------------------------------
(* A name that is another camera's slug, read before it.                   *)
Stolen(h) == \E n, m \in DOMAIN registry : n < m /\ registry[n].name = h.of /\ registry[m].slug = h.of
Filmed(t) == t \in Recorded(tape.main) \/ t - 1 \in Recorded(tape.main)
(* A hole that /coverage calls none.                                       *)
Bridge(t) == \E i, j \in Recorded(tape.main) : i < t /\ t <= j /\ j - i - 1 <= MinGap

(* What is served is a registered camera's and can be played back: the     *)
(* recorder holds footage of that second, or does not say                  *)
(* (search_scope.py:14-24).                                                *)
ServedPlayable ==
  \A h \in Range(Served) :
    /\ Resolve(h) \in Inventory
    /\ Resolve(h) = h.of \/ Stolen(h) \/ h.of \notin Inventory
    /\ Reached => Resolve(h) = "c" /\ InWindow(h)
    /\ Reached /\ asking.coverage /\ h.at < Latest(tape.main) - FreshMargin => Filmed(h.at) \/ Bridge(h.at)

(* What can be played back is not withheld, unless the page is full or     *)
(* what was fetched is, and then by hits of our own, save where vehicles   *)
(* are sought everywhere; every hit is accounted for, served or withheld   *)
(* for one reason.                                                         *)
Sought(h) == h.of = "c" /\ "c" \in OurSlugs /\ ~TurnedAway /\ (Chosen => asking.camera = "c")
NothingPlayableWithheld ==
  /\ \A h \in Range(hits) : Sought(h) /\ ~Stolen(h) /\ h.at # -1 /\ Filmed(h.at) =>
       \/ h \in Range(Served) \/ Len(Served) = asking.top
       \/ /\ Len(Brought) = Fetched
          /\ asking.kind = "vehicles" \/ \A g \in Range(Brought) : g.of \in OurSlugs
  /\ Len(Brought) = Cardinality(Remaining) + Withheld("unmapped") + Withheld("no_timestamp")
       + Withheld("not_recorded") + Withheld("outside_retention") + Withheld("in_gap")

(* Figures that cannot be narrowed afterwards never count another's rows.  *)
ScopeKept == Counted <= Len(SelectSeq(hits, LAMBDA h : h.of \in Inventory))
================================================================================
