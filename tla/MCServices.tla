------------------------------ MODULE MCServices ------------------------------
(* Two workers, two requests about one camera, two scans of one address,   *)
(* three events of which two may share a millisecond, two cameras of the   *)
(* analytics service, two workers that remember a policy, designs of up to *)
(* three regions and two activities in two builds, two cameras of the      *)
(* pipeline.                                                               *)
EXTENDS Services
CONSTANTS h1, e1, e2, e3, k1

LB(s, o, d, e) == [stall |-> s, outage |-> o, death |-> d, exit |-> e]
SB(one, other, c, l, d, r) ==
  [kinds |-> [h \in Handlers |-> IF h = h1 THEN one ELSE other],
   change |-> c, lost |-> l, dead |-> d, restart |-> r]
MCScenarios ==
  {<<LB(0, 0, 0, 0), SB({"masks"}, {"switch"}, 2, 0, 0, 0)>>,
   <<LB(0, 0, 0, 0), SB({"delete"}, {"create"}, 2, 0, 0, 0)>>,
   <<LB(0, 0, 0, 0), SB({"sub", "switch", "days"}, {}, 1, 1, 0, 0)>>,
   <<LB(0, 0, 0, 0), SB({"days"}, {}, 1, 0, 1, 1)>>,
   <<LB(0, 0, 1, 0), SB({"switch"}, {}, 1, 0, 0, 0)>>,
   <<LB(1, 0, 0, 1), SB({}, {}, 0, 0, 0, 0)>>,
   <<LB(0, 1, 0, 1), SB({}, {}, 0, 0, 0, 0)>>}
MCLockBudgets == {s[1] : s \in MCScenarios}
MCSyncBudgets == {s[2] : s \in MCScenarios}
MCDays == {1, 3}

AB(e, l, f, c, o, b) == [event |-> e, load |-> l, fail |-> f, crash |-> c, outage |-> o, blind |-> b]
MCAuditBudgets == {AB(3, 0, 0, 0, 0, 0), AB(2, 0, 1, 0, 0, 0), AB(2, 0, 0, 1, 0, 0),
                   AB(1, 0, 0, 0, 1, 1), AB(1, 2, 0, 1, 0, 0), AB(0, 3, 0, 0, 1, 0)}
At(a, b, c) == e1 :> a @@ e2 :> b @@ e3 :> c
MCTimings == {At(1, 2, 2), At(1, 2, 3)}

DB(a, s, r, t, d) == [asks |-> a, scan |-> s, request |-> r, stall |-> t, death |-> d]
MCScanBudgets == {DB({}, 2, 0, 1, 1), DB({"credentials", "add"}, 1, 2, 0, 0),
                  DB({"manual"}, 2, 1, 0, 0), DB({"ignore", "delete", "add"}, 1, 2, 0, 0)}

YB(w, v, s, l, f, r) == [wish |-> [k \in Sites |-> IF k = k1 THEN w ELSE v],
                         save |-> s, lost |-> l, fail |-> f, restart |-> r]
Seen == {"person"}
Plates == {"person", "plate"}
Faces == {"face"}
Acts == {"activity"}
MCWishes == {Seen, Plates, Faces, Acts}
MCAnalyticsBudgets ==
  {YB({Plates, Seen}, {}, 2, 0, 1, 0), YB({Plates, Seen}, {}, 3, 0, 0, 0), YB({Plates}, {Seen}, 2, 0, 0, 0), YB({Faces}, {}, 3, 0, 0, 0),
   YB({Acts, Seen}, {}, 2, 1, 0, 0), YB({Faces}, {}, 2, 0, 0, 1)}

PB(a, e, f) == [ask |-> a, edit |-> e, fail |-> f]
MCPolicyBudgets == {PB(2, 2, 0), PB(2, 1, 1)}

Num(n) == [kind |-> "number", n |-> n, items |-> <<>>]
Many(s) == [kind |-> "list", n |-> 0, items |-> s]
ParamNum(whole, min, max) ==
  [kind |-> "number", whole |-> whole, min |-> min, max |-> max, options |-> {}, least |-> 0, aliases |-> <<>>,
   default |-> [v |-> min, s |-> {}]]
ParamList ==
  [kind |-> "list", whole |-> FALSE, min |-> 0, max |-> 0, options |-> {"car", "bus"}, least |-> 1,
   aliases |-> [van |-> "car"], default |-> [v |-> 0, s |-> {"car"}]]
Def(status, rule, param) == [status |-> status, rule |-> rule, param |-> param, sound |-> TRUE]
FirstBuild == "dwell" :> Def("available", "required", ParamNum(TRUE, 2, 6)) @@ "line" :> Def("available", "tripwire", ParamNum(FALSE, 1, 3))
  @@ "park" :> Def("hold", "optional", ParamList)
NextBuild == "dwell" :> Def("available", "optional", ParamNum(TRUE, 4, 8)) @@ "park" :> Def("available", "optional", ParamList)
  @@ "line" :> [Def("available", "tripwire", ParamNum(FALSE, 1, 3)) EXCEPT !.sound = FALSE]
MCBuilds == {FirstBuild, NextBuild}
Zone(n) == [kind |-> "zone", flat |-> FALSE, name |-> n]
Wire(flat, n) == [kind |-> "tripwire", flat |-> flat, name |-> n]
Always == [given |-> FALSE, of |-> {}]
Act(at, v, h, d) == [at |-> at, value |-> v, hours |-> h, days |-> d]
NotSaid == [start |-> 5, end |-> 5, given |-> FALSE]
Plain(at, v) == Act(at, v, NotSaid, Always)
Plan(drawn, acts) == [drawn |-> drawn, acts |-> acts]
MCDrawn == {<<Zone(11), Wire(FALSE, 12)>>, <<Zone(11), Zone(1)>>, <<Wire(TRUE, 11), Wire(FALSE, 12)>>}
Ats == {<<>>, <<1>>, <<2>>, <<1, 2>>, <<2, 1>>}
Settings == {NoValue, Num(1), Num(4), Num(5), Num(8), Many(<<"car">>), Many(<<"bus", "bus">>), Many(<<"van">>)}
HoursSet == {NotSaid} \cup {[start |-> s, end |-> e, given |-> TRUE] : s \in {0, 1, 3, 4, 5}, e \in {0, 2, 4, 5}}
MCPlans ==
  {Plan(w, k :> Plain(a, NoValue)) : w \in MCDrawn, k \in {"dwell", "line", "park"}, a \in Ats}
  \cup {Plan(<<Zone(11), Wire(FALSE, 12)>>, k :> Plain(IF k = "line" THEN <<2>> ELSE <<1>>, v)) : k \in {"dwell", "line", "park"}, v \in Settings}
  \cup {Plan(<<Zone(11)>>, "dwell" :> Act(<<1>>, Num(4), h, d)) : h \in HoursSet, d \in {Always, [given |-> TRUE, of |-> {0}], [given |-> TRUE, of |-> {}]}}
  \cup {NoActs}
OldPlan == Plan(<<[kind |-> "torn", flat |-> FALSE, name |-> 13]>>, "park" :> Plain(<<1, 2>>, Many(<<"van">>)) @@ "gone" :> Plain(<<>>, NoValue))
MCDates == [i \in 1..6 |-> [weekly |-> i % 2, monthly |-> IF i <= 3 THEN i ELSE i - 3]]
Rule(d, s, e) == [days |-> d, start |-> s, end |-> e]
Rules == {Rule(d, s, e) : d \in {{1}, {0, 3}}, s \in 0..4, e \in 0..4}
MCCalendars == {[mode |-> m, rules |-> {r}] : m \in {"weekly", "monthly"}, r \in Rules}
  \cup {[mode |-> "weekly", rules |-> {Rule({1}, 3, 1), r}] : r \in Rules}
AiB(f, o, c, l, s, lost, b, cal) ==
  [from |-> f, first |-> FirstBuild, offer |-> o, copy |-> c, label |-> l, save |-> s, lost |-> lost, build |-> b, calendar |-> cal]
Few == {OldPlan, NoActs, Plan(<<Zone(11), Wire(FALSE, 12)>>, "dwell" :> Plain(<<1>>, Num(4))),
        Plan(<<Zone(11)>>, "park" :> Plain(<<1>>, Many(<<"bus">>)))}
MCAiBudgets == {AiB({NoActs}, MCPlans, 0, 0, 1, 0, 0, 0), AiB({OldPlan}, {}, 2, 1, 0, 0, 1, 0),
                AiB({OldPlan}, Few, 1, 0, 1, 0, 1, 0), AiB({NoActs}, {}, 0, 0, 0, 0, 0, 1), AiB({OldPlan}, Few, 0, 0, 2, 1, 0, 0)}

Ours == Written(2)
Theirs == [kind |-> "json", ours |-> FALSE, of |-> ByHand]
Bytes == [kind |-> "garbled", ours |-> FALSE, of |-> 0]
Dir(a, b) == "a" :> a @@ "b" :> b
MCDirs == {Dir(Ours, Theirs), Dir(Bytes, Ours)}
DsB(s, d, l, n, k, e, p) == [save |-> s, disk |-> d, lost |-> l, lines |-> n, die |-> k, edit |-> e, stop |-> p]
MCDsBudgets == {DsB(2, 0, 0, 1, 0, 0, 0), DsB(1, 0, 1, 0, 0, 1, 0), DsB(1, 0, 0, 0, 1, 0, 1), DsB(1, 1, 0, 0, 0, 0, 0)}
=============================================================================
