----------------------------- MODULE MCVideoPath -----------------------------
(* A ring small enough to lap its readers several times; one camera added   *)
(* twice to the motion service; a picture of six by three cells before      *)
(* which things come, go and stand; a camera whose tracks are cut at two,   *)
(* with frames that come within a track's age and later than that; one      *)
(* activity of each kind before one, two or two pairs of things; a handful  *)
(* of events whose ids are not in their order.                              *)
EXTENDS VideoPath, TLC

CONSTANTS front, back, r1, r2, c1, c2

MCParts   == {front, back}
MCReaders == {r1, r2}

MB(m, r, x, b, p, o, z) ==
  [mode |-> m, remove |-> r, reset |-> x, break |-> b, pause |-> p, outage |-> o, resize |-> z]
MCMotionBudgets ==
  {MB("capture", 1, 1, 1, 0, 0, 0), MB("broker", 1, 1, 1, 1, 0, 0), MB("broker", 0, 1, 0, 1, 1, 1)}
MCWidths == {2, 3}

(* Two people, a bus with a rider, somebody small in a corner.             *)
Man(x) == 1 :> <<x, 0, x + 1, 2>>
Bus == 2 :> <<0, 0, 3, 3>>
Rider == 3 :> <<1, 1, 2, 3>>
Far(x) == 4 :> <<x, 2, x + 1, 3>>
MCViews ==
  {Man(0), Man(3), Man(3) @@ Far(0), Bus @@ Rider, Man(5) @@ Rider, Man(5) @@ Far(0) @@ Rider, Man(1) @@ Far(1)}
MCSort == [t \in 1..4 |-> IF t = 2 THEN "vehicles" ELSE "person"]
GB(by, e, m, f, s, c, l) ==
  [by |-> by, enabled |-> e, move |-> m, frame |-> f, shape |-> s, connect |-> c, lost |-> l]
MCGateBudgets ==
  {GB("broker", TRUE, 2, 3, 0, 1, 1), GB("broker", TRUE, 1, 3, 1, 1, 0), GB("sampler", TRUE, 2, 3, 0, 1, 0),
   GB("sampler", TRUE, 1, 3, 1, 1, 0), GB("broker", FALSE, 2, 3, 0, 0, 0), GB("sampler", FALSE, 1, 2, 0, 0, 0)}

TB(f, c, r, s, x) == [frame |-> f, crowd |-> c, reset |-> r, send |-> s, fail |-> x]
MCTrackBudgets ==
  {TB(3, 1, 1, 0, 0), TB(2, 2, 1, 0, 0), TB(3, 1, 0, 3, 1), TB(2, 2, 0, 3, 1), TB(3, 2, 0, 0, 0)}
MCGaps == {1, 3}

YB(k, th, g, off, l, p, e, b, r) ==
  [kind |-> k, things |-> th, pauses |-> g, off |-> off, look |-> l, push |-> p, edit |-> e, break |-> b, remove |-> r]
MCGroups == {{1, 2}, {3, 4}, {1, 2, 3, 4}}
MCActivityBudgets ==
  {YB("entry", {1}, {1, 3}, FALSE, 4, 1, 0, 0, 0), YB("entry", {1}, {1}, FALSE, 3, 0, 0, 1, 0),
   YB("entry", {1}, {1}, FALSE, 3, 0, 1, 0, 1), YB("entry", {1, 2}, {1}, FALSE, 3, 0, 0, 0, 0),
   YB("parking", {1}, {1, 3}, FALSE, 4, 1, 0, 0, 0), YB("parking", {1}, {1}, TRUE, 3, 0, 1, 1, 0),
   YB("crossing", {1}, {1}, FALSE, 5, 0, 0, 0, 0), YB("crossing", {1}, {1}, TRUE, 4, 0, 0, 0, 0), YB("crossing", {1}, {1}, FALSE, 3, 0, 0, 1, 0),
   YB("crossing", {1}, {1, 3}, FALSE, 4, 0, 0, 0, 0),
   YB("gathering", {1, 2, 3, 4}, {2}, FALSE, 4, 0, 0, 1, 0),
   YB("gathering", {1, 2, 3, 4}, {1, 3}, FALSE, 4, 0, 0, 0, 0)}

MCReporters == {c1, c2}
EB(i, o, k, f, r, t, e, w) ==
  [ids |-> i, of |-> o, keeps |-> k, fail |-> f, refuse |-> r, tick |-> t, edit |-> e, read |-> w]
MCEventBudgets ==
  {EB(<<1, 2, 3, 4>>, {c1}, 3, 2, 0, 0, 0, 0), EB(<<2, 1, 3>>, {c1}, 3, 1, 1, 0, 1, 0),
   EB(<<1, 2>>, {c1}, 1, 1, 0, 3, 1, 0), EB(<<1, 2>>, {c1}, 3, 2, 0, 1, 1, 0),
   EB(<<1, 2>>, {c1, c2}, 3, 1, 0, 0, 1, 0), EB(<<1, 3, 2>>, {c1}, 3, 1, 0, 2, 0, 1),
   EB(<<2, 1>>, {c1}, 1, 0, 0, 4, 0, 1), EB(<<3, 1>>, {c1, c2}, 1, 0, 0, 0, 2, 1)}
=============================================================================
