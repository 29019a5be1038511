-------------------------------- MODULE Search --------------------------------
(***************************************************************************)
(* What a search answers out of the rows of the index                      *)
(* (smartsearch/index/queries.py): the page of a search by words or by a   *)
(* picture, the faces nearest to a photograph, the feed of detections with *)
(* its totals, and the sightings of a plate.                               *)
(*                                                                         *)
(* Likeness is a score out of the embeddings; age counts back from now;    *)
(* the shares and spans the code names are small numbers.                  *)
(***************************************************************************)
EXTENDS Integers, Sequences, FiniteSets, SequencesExt

CONSTANTS
  Corpora,     \* the indexes that are asked
  Inquiries,   \* what they are asked
  Factor,      \* _CANDIDATE_FACTOR, rows fetched for each result
  MaxFetch,    \* _MAX_CANDIDATES
  Sample,      \* _REFERENCE_ROWS
  Margin,      \* _RELEVANCE_MARGIN
  Steps,       \* _WINDOW_STEPS, but for the last, which has no end
  OldestAge,   \* _OLDEST_FIRST_DAYS
  Ever         \* an age beyond all

VARIABLES corpus, inquiry
findVars == <<corpus, inquiry>>

Object(r) == IF r.tracker = 0 THEN <<"row", r.id>> ELSE <<"track", r.tracker>>
Objects(S) == {Object(r) : r \in S}

(* Rows that have not expired, of the cameras and classes asked for: a     *)
(* class that is chosen, else the ones the words name.  No cameras is a    *)
(* scope, too.                                                             *)
Classes(i) == IF i.chosen # {} THEN i.chosen ELSE i.named
Matching(i, domain) ==
  {r \in corpus :
     /\ r.live /\ r.domain = domain /\ r.camera \in i.cameras
     /\ domain = "vehicles" /\ Classes(i) # {} => r.kind \in Classes(i)
     /\ i.to <= r.age /\ r.age <= i.from}

(* ORDER BY embedding <=> vec, ts DESC, id DESC LIMIT n.                   *)
Closer(r, s) ==
  r.score > s.score \/ (r.score = s.score /\ (r.age < s.age \/ (r.age = s.age /\ r.id > s.id)))
Nearest(S, n) == LET ranked == SetToSortSeq(S, Closer) IN Range(SubSeq(ranked, 1, Min({n, Len(ranked)})))

-----------------------------------------------------------------------------
(* The lowest score that counts as a match to this question.               *)
Bar(rows, i) == Max({i.floor} \cup {r.score - Margin : r \in rows})
FetchLimit(i) == Max({1, Min({i.top * Factor, MaxFetch})})

Slice(S, k) ==
  {r \in S : (k > 1 => r.age > Steps[k - 1]) /\ (k <= Len(Steps) => r.age <= Steps[k])}
\* Enough rows end the search, whatever they show.
EnoughRows(kept, i) == Cardinality(kept) >= i.top
EnoughObjects(kept, i) == Cardinality(Objects(kept)) >= i.top
\* The best of what is at hand sets the bar.
BarAtHand(S, i) == Bar(Nearest(Slice(S, 1), Sample), i)
BarAnywhere(S, i) == Bar(Nearest(S, Sample), i)

Widen(S, i, bar, kept, k) ==
  IF k > 1 /\ EnoughObjects(kept, i) THEN kept
  ELSE kept \cup {r \in Nearest(Slice(S, k), FetchLimit(i)) : r.score >= bar}
Recent(S, i) ==
  LET bar == BarAnywhere(S, i) IN
  FoldLeft(LAMBDA kept, k : Widen(S, i, bar, kept, k), {}, [k \in 1..(Len(Steps) + 1) |-> k])
InRange(S, i) ==
  LET rows == Nearest(S, FetchLimit(i)) IN {r \in rows : r.score >= Bar(rows, i)}

(* Time, ascending, bounds the reach of a question that names no range.    *)
OldestFirst(i) == i.by = "time" /\ i.ascending
Bounded30(i) == IF OldestFirst(i) /\ i.from = Ever THEN [i EXCEPT !.from = OldestAge] ELSE i
Windowed(i) == i.from = Ever /\ i.to = 0
Found(j, domain) ==
  LET i == Bounded30(j)  S == Matching(i, domain) IN IF Windowed(i) THEN Recent(S, i) ELSE InRange(S, i)

-----------------------------------------------------------------------------
(* One card for each thing: its best observation, the class its            *)
(* observations agree on, and how many they are.                           *)
Weight(seen, k) == FoldSet(LAMBDA r, acc : acc + r.sure, 0, {r \in seen : r.kind = k})
Labels(seen) == {r.kind : r \in seen} \ {0}
Voted(seen) == Cardinality(seen) > 1 /\ Labels(seen) # {}
Vote(seen) ==
  CHOOSE k \in Labels(seen) : \A l \in Labels(seen) :
    Weight(seen, k) > Weight(seen, l) \/ (Weight(seen, k) = Weight(seen, l) /\ k <= l)
Represents(r, seen) == \A s \in seen : r.score > s.score \/ (r.score = s.score /\ r.id <= s.id)
Card(seen) ==
  LET best == CHOOSE r \in seen : Represents(r, seen) IN
  [id |-> best.id, object |-> Object(best), camera |-> best.camera, age |-> best.age, score |-> best.score,
   sightings |-> Cardinality(seen),
   kind |-> IF Voted(seen) THEN Vote(seen) ELSE best.kind,
   sure |-> IF Voted(seen) THEN Max({r.sure : r \in {s \in seen : s.kind = Vote(seen)}}) ELSE best.sure]
Cards(rows) == {Card({r \in rows : Object(r) = o}) : o \in Objects(rows)}

(* The one field that was chosen, then the id.                             *)
Rank(c, i) == (IF i.ascending THEN 1 ELSE -1) * (IF i.by = "time" THEN -c.age ELSE c.score)
ResultPage(i, domain) ==
  LET Before(c, d) == Rank(c, i) < Rank(d, i) \/ (Rank(c, i) = Rank(d, i) /\ c.id > d.id)
      cards == SetToSortSeq(Cards(Found(i, domain)), Before) IN
  SubSeq(cards, 1, Min({i.top, Len(cards)}))

(* Faces: every row for itself, the nearest of the face index.             *)
Faces(i) == {r \in Nearest(Matching(i, "face"), Max({1, i.top})) : r.score >= i.floor}

-----------------------------------------------------------------------------
(* The feed of detections and its totals.  The domains asked for narrow    *)
(* the feed and nothing else; faces are no part of it.                     *)
Detected(i, domain) ==
  {r \in corpus : r.live /\ r.domain = domain /\ r.camera \in i.cameras /\ r.age <= i.from}
Newest(S, n) ==
  LET rows == SetToSortSeq(S, LAMBDA r, s : r.age < s.age \/ (r.age = s.age /\ r.id > s.id)) IN
  SubSeq(rows, 1, Min({n, Len(rows)}))
\* What is left of one feed when the other is struck from it.
FeedStruck(i) == SelectSeq(Newest(Detected(i, "person") \cup Detected(i, "vehicles"), i.top), LAMBDA r : r.domain \in i.domains)
Feed(i) ==
  LET both == SortSeq(Newest(Detected(i, "person"), i.top) \o Newest(Detected(i, "vehicles"), i.top), LAMBDA r, s : r.age < s.age)
      rows == IF i.domains = {} THEN both ELSE SelectSeq(both, LAMBDA r : r.domain \in i.domains) IN
  SubSeq(rows, 1, Min({i.top, Len(rows)}))
Tally(i) ==
  LET S == Detected(i, "person") \cup Detected(i, "vehicles")
      reads == {r \in Detected(i, "vehicles") : r.plate # 0} IN
  [total |-> Cardinality(S),
   vehicles |-> Cardinality(Detected(i, "vehicles")),
   hours |-> [h \in 0..1 |-> Cardinality({r \in S : (r.age + i.shift) % 2 = h})],
   cameras |-> [c \in {r.camera : r \in S} |-> Cardinality({r \in S : r.camera = c})],
   reads |-> Cardinality(reads), plates |-> Cardinality({r.plate : r \in reads})]

(* A plate's sightings: the LIMIT falls on the rows by plate and time.     *)
Sightings(i) ==
  LET S == {r \in Matching(i, "vehicles") : r.plate # 0 /\ i.plate \in {0, r.plate}}
      rows == SetToSortSeq(S, LAMBDA r, s : r.plate < s.plate \/ (r.plate = s.plate /\ (r.age < s.age \/ (r.age = s.age /\ r.id > s.id))))
      got == SubSeq(rows, 1, Min({i.top, Len(rows)}))
      Of(p) == SelectSeq(got, LAMBDA r : r.plate = p) IN
  [p \in {got[n].plate : n \in DOMAIN got} |->
     [count |-> Len(Of(p)), last |-> Of(p)[1].age, first |-> Of(p)[Len(Of(p))].age]]

-----------------------------------------------------------------------------
NoInquiry == [by |-> "nothing"]
FindInit == corpus \in Corpora /\ inquiry = NoInquiry
Inquire(i) == inquiry = NoInquiry /\ inquiry' = i /\ UNCHANGED corpus
FindNext == \E i \in Inquiries : Inquire(i)

-----------------------------------------------------------------------------
Inquired == inquiry # NoInquiry
Listed(page) == {page[n].object : n \in DOMAIN page}
(* The matches there are, by the whole index and not by what was fetched.  *)
Matches(i, domain) ==
  LET S == Matching(Bounded30(i), domain) IN {r \in S : r.score >= Bar(S, i)}

(* A page shows each thing once, in the one order that was asked for, and  *)
(* shows nothing but matches to the question - by what the question can    *)
(* find anywhere, not by what lay at hand (queries.py:70-87).              *)
PageHonest ==
  Inquired => \A domain \in {"person", "vehicles"} :
    LET page == ResultPage(inquiry, domain) IN
    /\ \A n \in DOMAIN page :
         /\ \E r \in Matches(inquiry, domain) : r.id = page[n].id
         /\ page[n].sightings <= Cardinality({r \in Matches(inquiry, domain) : Object(r) = page[n].object})
         /\ n > 1 => Rank(page[n - 1], inquiry) <= Rank(page[n], inquiry)
    /\ Cardinality(Listed(page)) = Len(page)
    /\ \A n \in DOMAIN page : \E r \in corpus :
         Object(r) = page[n].object /\ r.kind = page[n].kind /\ r.sure = page[n].sure

(* "a short page means this query has few answers" (queries.py): it holds  *)
(* every thing that matches, unless one slice holds more matches than are  *)
(* fetched of it - then one thing seen often hides another.                *)
Crowded(i, domain) ==
  LET S == Matches(i, domain) IN
  \E k \in 1..(Len(Steps) + 1) :
    Cardinality(IF Windowed(Bounded30(i)) THEN Slice(S, k) ELSE S) > FetchLimit(i)
ShortPageComplete ==
  Inquired => \A domain \in {"person", "vehicles"} :
    LET page == ResultPage(inquiry, domain) IN
    Len(page) < inquiry.top /\ ~Crowded(inquiry, domain) => Listed(page) = Objects(Matches(inquiry, domain))

(* No range asked for: what is left out is no newer than what is shown, by *)
(* the window that was needed to fill the page.                            *)
RecentFirst ==
  Inquired /\ Windowed(Bounded30(inquiry)) => \A domain \in {"person", "vehicles"} :
    LET S == Matches(inquiry, domain)
        page == ResultPage(inquiry, domain)
        reach == {n \in 1..(Len(Steps) + 1) : Cardinality(Objects(UNION {Slice(S, k) : k \in 1..n})) >= inquiry.top} IN
    ~Crowded(inquiry, domain) /\ reach # {} =>
       \A n \in DOMAIN page : \E k \in 1..Min(reach) : page[n].age \in {r.age : r \in Slice(S, k)}

(* No face that is left out is nearer than one that is shown.              *)
FacesNearest ==
  Inquired => \A r \in Faces(inquiry), s \in Matching(inquiry, "face") \ Faces(inquiry) : s.score <= r.score \/ s.score < inquiry.floor

(* The feed holds the newest rows of the domains it was asked for, however *)
(* many newer ones the others have, and the totals are the same whatever   *)
(* the feed was narrowed to (queries.py, detections).                      *)
FeedTrue ==
  Inquired =>
    LET i == inquiry  feed == Feed(i)
        asked == IF i.domains = {} THEN {"person", "vehicles"} ELSE i.domains
        S == UNION {Detected(i, d) : d \in asked} IN
    /\ Len(feed) = Min({i.top, Cardinality(S)})
    /\ \A r \in S \ Range(feed) : \A n \in DOMAIN feed : feed[n].age <= r.age
    /\ Tally(i) = Tally([i EXCEPT !.domains = {}])
    /\ Tally(i).hours[0] + Tally(i).hours[1] = Tally(i).total
    /\ Tally(i).plates <= Tally(i).reads /\ Tally(i).reads <= Tally(i).vehicles

(* A plate that is listed is listed with all its sightings, unless the     *)
(* limit fell into it; and one that is not listed was not seen, or comes   *)
(* behind the limit.                                                       *)
PlatesTold ==
  Inquired =>
    LET told == Sightings(inquiry)
        S == {r \in Matching(inquiry, "vehicles") : r.plate # 0 /\ inquiry.plate \in {0, r.plate}} IN
    \/ Cardinality(S) > inquiry.top
    \/ /\ DOMAIN told = {r.plate : r \in S}
       /\ \A p \in DOMAIN told :
            /\ told[p].count = Cardinality({r \in S : r.plate = p})
            /\ \A r \in S : r.plate = p => told[p].last <= r.age /\ r.age <= told[p].first
================================================================================
