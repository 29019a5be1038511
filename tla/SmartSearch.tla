------------------------------ MODULE SmartSearch ------------------------------
(***************************************************************************)
(* The smart search service: its index and, beside it, the models it holds *)
(* while cameras are registered.  The two share no lock and no state, so   *)
(* one of them moves in a behaviour and the other stays where it began.    *)
(***************************************************************************)
EXTENDS SearchIndex, ModelPool

VARIABLE half

Halves == {"index", "pool"}
Moves(h) == half = h

searchVars == <<vars, poolVars, half>>

SearchInit ==
  /\ half \in Halves /\ Init /\ PoolInit
  /\ ~Moves("index") => budget = CHOOSE b \in Budgets : TRUE
  /\ ~Moves("pool") => fits /\ poolBudget = CHOOSE b \in PoolBudgets : TRUE

Indexes == Moves("index") /\ Next /\ UNCHANGED <<poolVars, half>>
Pools == Moves("pool") /\ PoolNext /\ UNCHANGED <<vars, half>>

SearchNext == Indexes \/ Pools

(* The retention thread is a loop with no exit, an ingest runs to its end, *)
(* and time passes.                                                        *)
IndexFairness ==
  /\ WF_vars(Moves("index") /\ (Sweeping \/ Deleting("timer")))
  /\ WF_vars(Moves("index") /\ (SaveFrame \/ Stamp \/ Insert))
  /\ WF_vars(Moves("index") /\ \E t \in Times : Age(t))

(* Requests return, threads run, and the reaper ticks.                     *)
PoolFairness ==
  /\ \A c \in Clients : WF_poolVars(Moves("pool") /\ ClientStep(c))
  /\ WF_poolVars(Moves("pool") /\ LoaderStep) /\ WF_poolVars(Moves("pool") /\ ReaperStep)
  /\ WF_poolVars(Moves("pool") /\ TellStep)

SearchSpec == SearchInit /\ [][SearchNext]_searchVars /\ IndexFairness /\ PoolFairness

(* The coverage sweep is careful: it leaves half of what it is shown, and  *)
(* what has footage or is young (coverage.py:206).                         *)
SweepsWithCare == []HalfRemains /\ FootageKeepsRows

(* Both halves stay within their types.                                    *)
SearchTypeOK == half \in Halves /\ TypeOK /\ PoolTypeOK
===============================================================================
