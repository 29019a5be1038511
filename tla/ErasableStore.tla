---------------------------- MODULE ErasableStore ----------------------------
(***************************************************************************)
(* What the search index promises about one observation: it becomes a hit  *)
(* only once its image is stored, a hit always has its image, an           *)
(* observation that was dropped is never a hit again, and an image that    *)
(* belongs to no hit goes in the end.  How rows and files come and go is   *)
(* the business of the implementation.                                     *)
(***************************************************************************)

CONSTANT Obs

VARIABLE life     \* where each observation is in its life

(* "new": not received; "stored": its image is on disk and a hit may       *)
(* follow; "hit": searchable; "residue": an image that nothing refers to;  *)
(* "gone": neither image nor hit, for good.                                *)
Lives == {"new", "stored", "hit", "residue", "gone"}

MayBecome == {<<"new", "stored">>, <<"new", "gone">>, <<"stored", "hit">>,
              <<"stored", "residue">>, <<"hit", "residue">>, <<"residue", "gone">>}

Init == life = [o \in Obs |-> "new"]

(* Several observations may move on at once: a batch is dropped together.  *)
Next ==
  /\ life' \in [Obs -> Lives]
  /\ \A o \in Obs : life'[o] # life[o] => <<life[o], life'[o]>> \in MayBecome

Steps == Init /\ [][Next]_life

(* Residue is an image nobody can find and nobody asked to keep.           *)
Collected == \A o \in Obs : life[o] = "residue" ~> life[o] = "gone"

Spec == Steps /\ Collected
=============================================================================
