----------------------------- MODULE MCSmartSearch -----------------------------
(* A person and a vehicle in one frame, a face and a person in the next.   *)
(* Two requests about two cameras use the models.                          *)
EXTENDS SmartSearch, TLC
CONSTANTS p1, v1, f2, p2

MCTimeOf == p1 :> 1 @@ v1 :> 1 @@ f2 :> 2 @@ p2 :> 2
MCDomainOf == p1 :> "person" @@ v1 :> "vehicle" @@ f2 :> "face" @@ p2 :> "person"
MCDomains == <<"person", "vehicle", "face">>

Scene(sent, f, c, e, p, l) ==
  [obs |-> sent, fault |-> f, crash |-> c, erase |-> e, push |-> p, loss |-> l]
MCBudgets ==
  {Scene({p1, v1, p2}, 0, 0, 0, 0, 1), Scene({p1, v1}, 1, 0, 0, 0, 0), Scene({p1, f2}, 0, 0, 0, 0, 1),
   Scene({p1, v1}, 0, 0, 1, 0, 0), Scene({f2}, 1, 0, 1, 0, 0), Scene({p1}, 1, 1, 1, 0, 0),
   Scene({p1}, 1, 1, 0, 1, 0), Scene({p1}, 0, 0, 0, 2, 0), Scene({p1, v1}, 0, 0, 0, 1, 0)}

PB(c, s, f, p) == [change |-> c, search |-> s, fail |-> f, pause |-> p]
MCPoolBudgets == {PB(3, 1, 0, 2), PB(3, 0, 1, 2)}
===============================================================================
