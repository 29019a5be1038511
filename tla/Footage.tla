-------------------------------- MODULE Footage --------------------------------
(***************************************************************************)
(* What the NVR says of recorded footage: which track a playlist shows     *)
(* (nvr/api/hls.py), what a clip and a snapshot hold, and the gaps and     *)
(* outages that /coverage and /report/uptime make out of the same index    *)
(* rows (nvr/api/server.py).                                               *)
(*                                                                         *)
(* Time is counted in seconds 0..Now; second i is the footage between i    *)
(* and i + 1.  A question fixes a window, the browser's codecs and whether *)
(* a worker records the camera; every answer is computed from the index.   *)
(***************************************************************************)
EXTENDS Integers, Sequences, FiniteSets, SequencesExt

CONSTANTS
  Now,            \* the clock
  SegmentSeconds, \* recording.segment_duration, and the snapshot's minute
  MinGap,         \* min_gap_seconds
  Reels           \* the recordings that are asked about

Tracks == {"sub", "main"}
VARIABLES tape, question
footageVars == <<tape, question>>

Greater(x, y) == IF x >= y THEN x ELSE y
Lesser(x, y) == IF x <= y THEN x ELSE y
Seconds(s) == s.from..(s.to - 1)
Recorded(S) == UNION {Seconds(s) : s \in S}
Overlapping(S) == \E s, t \in S : s # t /\ Seconds(s) \cap Seconds(t) # {}

(* The index: rows that touch the window, by their start.                  *)
Find(S, a, b) == {s \in S : s.from <= b /\ s.to >= a}
InOrder(S) == SetToSortSeq(S, LAMBDA s, t : s.from < t.from \/ (s.from = t.from /\ s.to < t.to))
Clipped(s, a, b) == [from |-> Greater(s.from, a), to |-> Lesser(s.to, b)]

-----------------------------------------------------------------------------
(* Which track is shown.                                                   *)
ChooseMode(codec, hevc) ==
  IF codec = "h264" THEN "ts" ELSE IF codec = "hevc" /\ hevc THEN "fmp4" ELSE "h264"
ModeCost == [ts |-> 0, fmp4 |-> 1, h264 |-> 2]
RankOf(t, q) == <<ModeCost[ChooseMode(tape.codec[t], q.hevc)], IF t = "main" THEN 2 ELSE 1>>
Cheaper(m, n) == m[1] < n[1] \/ (m[1] = n[1] /\ m[2] < n[2])

(* covered_seconds: spans in order; one that begins behind the current end *)
(* closes it, one that reaches further extends it.                         *)
Extend(acc, s) ==
  IF s.to <= s.from THEN acc
  ELSE IF acc.to < s.from THEN [total |-> acc.total + (acc.to - acc.from), from |-> s.from, to |-> s.to]
  ELSE [acc EXCEPT !.to = Greater(@, s.to)]
CoveredSeconds(S, a, b) ==
  LET spans == InOrder({Clipped(s, a, b) : s \in S})
      end == FoldLeft(Extend, [total |-> 0, from |-> -1, to |-> -1], spans) IN
  end.total + (end.to - end.from)

Candidates(q) == {t \in Tracks : Find(tape[t], q.from, q.to) # {}}
CoveredBy(t, q) == CoveredSeconds(Find(tape[t], q.from, q.to), q.from, q.to)
Finalists(q) == {t \in Candidates(q) : \A u \in Candidates(q) : CoveredBy(t, q) >= CoveredBy(u, q) - 1}
\* Cost alone decides.
CheapestOfAll(q) == CHOOSE t \in Candidates(q) : \A u \in Candidates(q) : ~Cheaper(RankOf(u, q), RankOf(t, q))
SelectTrack(q) == CHOOSE t \in Finalists(q) : \A u \in Finalists(q) : ~Cheaper(RankOf(u, q), RankOf(t, q))

-----------------------------------------------------------------------------
(* Gaps and outages of the main track.                                     *)
Join(acc, s) ==
  IF s.to <= s.from THEN acc
  ELSE IF acc # <<>> /\ s.from - acc[Len(acc)].to <= MinGap
         THEN [acc EXCEPT ![Len(acc)].to = Greater(@, s.to)]
         ELSE Append(acc, s)
MergeSegments(S, a, b) ==
  LET rows == InOrder(S) IN FoldLeft(Join, <<>>, [i \in DOMAIN rows |-> Clipped(rows[i], a, b)])

Earliest(S) == CHOOSE x \in {s.from : s \in S} : \A s \in S : x <= s.from
Latest(S) == CHOOSE x \in {s.to : s \in S} : \A s \in S : x >= s.to

(* /coverage: the cursor walks over what is covered between the first      *)
(* recording and the window's end, or now while the camera is recorded.    *)
GapStart(q) == Greater(q.from, Earliest(tape.main))
GapEnd(q) == Lesser(q.to, IF q.live THEN Greater(Now, Latest(tape.main)) ELSE Latest(tape.main))
Pass(acc, m, start, end) ==
  IF m.to <= start \/ m.from >= end THEN acc
  ELSE [cursor |-> Greater(acc.cursor, Lesser(m.to, end)),
        gaps |-> acc.gaps \cup acc.cursor..(Greater(m.from, start) - 1)]
Coverage(q) ==
  LET merged == MergeSegments(Find(tape.main, q.from, q.to), q.from, q.to)
      start == GapStart(q)  end == GapEnd(q)
      walked == FoldLeft(LAMBDA acc, m : Pass(acc, m, start, end), [cursor |-> start, gaps |-> {}], merged) IN
  IF walked.cursor < end /\ (~q.live \/ end - walked.cursor > SegmentSeconds)
    THEN walked.gaps \cup walked.cursor..(end - 1) ELSE walked.gaps

(* /report/uptime: the segment that is being written is not indexed yet;   *)
(* a short hole before the window's end counts as up.                      *)
Bridged(q, merged) ==
  LET last == IF merged # <<>> THEN merged[Len(merged)].to ELSE Latest(tape.main)
      slack == SegmentSeconds + MinGap IN
  IF q.live /\ q.to - last \in 1..slack /\ last >= q.from - slack
    THEN IF merged # <<>> THEN [merged EXCEPT ![Len(merged)].to = q.to]
                          ELSE <<[from |-> Greater(q.from, last), to |-> q.to]>>
    ELSE merged
UpSeconds(q) ==
  LET merged == Bridged(q, MergeSegments(Find(tape.main, q.from, q.to), q.from, q.to)) IN
  UNION {Seconds(merged[i]) : i \in DOMAIN merged}
DownSeconds(q) == q.from..(q.to - 1) \ UpSeconds(q)

-----------------------------------------------------------------------------
(* A clip: the files are joined in order and cut.  One file, or a          *)
(* transcode, is cut by an offset and a length on the joined timeline; a   *)
(* stream copy of several by a point in the first and one in the last.     *)
Film(s) == [i \in 1..(s.to - s.from) |-> s.from + i - 1]
Joined(rows) == FlattenSeq([i \in DOMAIN rows |-> Film(rows[i])])
Cut(film, seek, length) == SubSeq(film, seek + 1, Lesser(Len(film), seek + length))
\* Stream copies cut on the joined timeline too.
BoundedByLength(rows, a, b) == Cut(Joined(rows), Greater(0, a - rows[1].from), b - a)
Bounded(rows, a, b) ==
  FlattenSeq([i \in DOMAIN rows |->
    SubSeq(Film(rows[i]), (IF i = 1 THEN Greater(0, a - rows[i].from) ELSE 0) + 1,
           IF i = Len(rows) THEN Lesser(Greater(0, b - rows[i].from), rows[i].to - rows[i].from)
                            ELSE rows[i].to - rows[i].from)])
Copied(q) == tape.codec.main = "h264"
Clip(q) ==
  LET rows == InOrder(Find(tape.main, q.from, q.to)) IN
  IF rows = <<>> THEN <<>>
  ELSE IF Len(rows) > 1 /\ Copied(q) THEN Bounded(rows, q.from, q.to)
  ELSE Cut(Joined(rows), Greater(0, q.from - rows[1].from), q.to - q.from)
InClip(q) == {Clip(q)[i] : i \in DOMAIN Clip(q)}

(* X-NVR-Coverage: with a second's tolerance.                              *)
SumOf(f, S) == FoldLeft(LAMBDA acc, s : acc + f[s], 0, InOrder(S))
Warned(q) ==
  LET S == Find(tape.main, q.from, q.to) IN
  SumOf([s \in S |-> Greater(0, Lesser(s.to, q.to) - Greater(s.from, q.from))], S) + 1 < q.to - q.from

(* A snapshot: a segment that holds the moment, or the first one within a  *)
(* minute of it; the second that is shown, or none beyond the file's end,  *)
(* and none outside of what is recorded.                                   *)
Snapshot(q) ==
  LET t == q.from
      near == IF Find(tape.main, t, t) # {} THEN Find(tape.main, t, t)
              ELSE Find(tape.main, t - SegmentSeconds, t + SegmentSeconds)
      rows == InOrder(near)
      hit == {i \in DOMAIN rows : rows[i].from <= t /\ t <= rows[i].to}
      row == rows[IF hit = {} THEN 1 ELSE CHOOSE i \in hit : \A j \in hit : i <= j] IN
  IF near = {} \/ t \notin Earliest(tape.main)..Latest(tape.main) THEN {}
  ELSE Seconds(row) \cap {row.from + Greater(0, t - row.from)}

-----------------------------------------------------------------------------
Questions == {q \in [from : 0..Now, to : 0..Now, hevc : BOOLEAN, live : BOOLEAN] : q.from < q.to}
FootageInit ==
  /\ tape \in Reels
  /\ question = [from |-> 0, to |-> 0, hevc |-> FALSE, live |-> FALSE]
Ask(q) == question.to = 0 /\ question' = q /\ UNCHANGED tape
FootageNext == \E q \in Questions : Ask(q)

-----------------------------------------------------------------------------
Window == question.from..(question.to - 1)
(* "the one thing a playlist must never invent" (hls.py:147): what is      *)
(* shown covers as much of the window as any track does, to the tolerance; *)
(* and covered_seconds is the measure of what is there.                    *)
NoGapInvented ==
  question.to > 0 /\ Candidates(question) # {} =>
    /\ \A t \in Tracks : CoveredBy(t, question) = Cardinality(Recorded(tape[t]) \cap Window)
    /\ \A t \in Tracks : Cardinality(Recorded(tape[SelectTrack(question)]) \cap Window) + 1
                           >= Cardinality(Recorded(tape[t]) \cap Window)

(* "so both agree on what counts as a gap" (server.py:1194): neither calls *)
(* footage missing, both name each longer hole; they differ only behind    *)
(* the last footage of the window.                                         *)
Behind(q) == {i \in Window : \A s \in tape.main : s.from < q.to /\ s.to > q.from => i >= s.to}
GapsAgree ==
  question.to > 0 /\ tape.main # {} =>
    LET gaps == Coverage(question)  down == DownSeconds(question)
        inside == GapStart(question)..(GapEnd(question) - 1) IN
    /\ (gaps \cup down) \cap Recorded(tape.main) = {}
    /\ (inside \ Behind(question)) \cap gaps = (inside \ Behind(question)) \cap down
    /\ \A i \in inside \ (gaps \cup Recorded(tape.main)) :
         \/ i \in Behind(question) /\ question.live /\ GapEnd(question) - SegmentSeconds <= i
         \/ \E j \in Recorded(tape.main) \cup {question.from - 1} : j < i /\ i - j <= MinGap
    /\ (Behind(question) \cap inside \cap down) \ gaps # {} =>
         question.live /\ Cardinality(Behind(question) \cap inside) <= SegmentSeconds

(* A clip holds all footage of its window, and nothing else unless a hole  *)
(* lets the joined timeline run on; a hole of more than a second is told   *)
(* in the answer.  Overlapping segments are another matter.                *)
ClipHolds ==
  question.to = 0 \/ Overlapping(tape.main) \/
    LET there == Recorded(tape.main) \cap Window IN
    /\ there \subseteq InClip(question)
    /\ ~(InClip(question) \subseteq Window) =>
         /\ there # Window
         /\ ~Copied(question) \/ Cardinality(Find(tape.main, question.from, question.to)) = 1
    /\ Warned(question) <=> Cardinality(Window \ there) > 1

(* A snapshot shows the second it was asked for; where nothing is recorded *)
(* it may show the beginning of what follows, never what came before.      *)
SnapshotTrue ==
  question.to > 0 => \A i \in Snapshot(question) :
    \/ i = question.from
    \/ question.from \notin Recorded(tape.main) /\ i > question.from
================================================================================
