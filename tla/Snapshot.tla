-------------------------------- MODULE Snapshot --------------------------------
(***************************************************************************)
(* One picture of a camera for everyone who asks at once: the first takes  *)
(* a lock and decodes, the others wait for what it leaves in a cache.      *)
(* Lock and cache are keys of Redis by the camera's slug, and go by        *)
(* themselves after a time; a camera that is deleted takes them with it.   *)
(* Code: camera-mgmt/backend/routers/cameras.py, redis_client.py.          *)
(***************************************************************************)
EXTENDS Naturals, FiniteSets

CONSTANTS Viewers,         \* requests
          PassLimit,        \* one decode is given up after so long, and there are two
          WaitTime,        \* a request waits so long for somebody else's
          LockTime,        \* the lock goes after so long
          CacheTime,       \* so does the picture
          ShotBudgets      \* what may happen

ShotBudgetTypes == [ask : Nat, die : Nat, delete : Nat]

ASSUME ShotAssumption ==
  /\ PassLimit \in Nat \ {0} /\ WaitTime \in Nat \ {0} /\ CacheTime \in Nat \ {0}
  /\ LockTime \in Nat /\ 2 * PassLimit < LockTime
  /\ IsFiniteSet(Viewers) /\ ShotBudgets \subseteq ShotBudgetTypes

VARIABLES
  camera,     \* which camera bears the slug, 0 for none
  viewer,     \* a request: what it is doing, for which camera, since when, with which picture
  lock,       \* time the lock has left
  picture,    \* the picture in the cache and the time it has left
  torn,       \* history: the lock was removed under the one who held it
  revived,    \* history: a picture was left of a camera that was gone
  shotBudget

shotVars == <<camera, viewer, lock, picture, torn, revived, shotBudget>>

SpendShot(c) == shotBudget[c] > 0 /\ shotBudget' = [shotBudget EXCEPT ![c] = @ - 1]

NoPicture == [of |-> 0, flat |-> FALSE, left |-> 0]
Viewing(at, of, pass, left, got) == [at |-> at, of |-> of, pass |-> pass, left |-> left, got |-> got]
Away == Viewing("away", 0, 0, 0, NoPicture)
Decoders == {v \in Viewers : viewer[v].at \in {"decoding", "decoded", "leaving"}}

Moves(v, new) == viewer' = [viewer EXCEPT ![v] = new]
Shown(of, p) == Viewing("served", of, 0, 0, p)
Failed(of) == Viewing("failed", of, 0, 0, NoPicture)

(* A request finds its camera, and may find a picture.                     *)
Look(v) ==
  /\ viewer[v].at \in {"away", "served", "failed"} /\ camera # 0 /\ SpendShot("ask")
  /\ Moves(v, IF picture # NoPicture THEN Shown(camera, picture) ELSE Viewing("missed", camera, 0, 0, NoPicture))
  /\ UNCHANGED <<camera, lock, picture, torn, revived>>
(* Only one gets the lock; who does not, waits.                            *)
\* Whoever finds no picture decodes.
Unlocked == TRUE
Unclaimed == lock = 0
Decide(v) ==
  /\ viewer[v].at = "missed"
  /\ IF Unclaimed
       THEN Moves(v, Viewing("decoding", viewer[v].of, 1, PassLimit, NoPicture)) /\ lock' = LockTime
       ELSE Moves(v, Viewing("waiting", viewer[v].of, 0, WaitTime, NoPicture)) /\ UNCHANGED lock
  /\ UNCHANGED <<camera, picture, torn, revived, shotBudget>>
(* Looking again and again; the last look is at the deadline.              *)
Wait(v) ==
  /\ viewer[v].at = "waiting"
  /\ \/ picture # NoPicture /\ Moves(v, Shown(viewer[v].of, picture))
     \/ picture = NoPicture /\ viewer[v].left = 0 /\ Moves(v, Failed(viewer[v].of))
  /\ UNCHANGED <<camera, lock, picture, torn, revived, shotBudget>>

(* A pass gives a picture, a flat one, or none - when it fails or has      *)
(* lasted too long.  After the first a flat picture is not good enough.    *)
Shot(flat) == [of |-> camera, flat |-> flat, left |-> CacheTime]
Passed(v, got) ==
  LET of == viewer[v].of
      best == IF got = NoPicture THEN viewer[v].got ELSE got
      last == viewer[v].pass = 2 \/ (got # NoPicture /\ ~got.flat)
  IN
  Moves(v, IF ~last THEN Viewing("decoding", of, 2, PassLimit, best)
           ELSE Viewing(IF best = NoPicture THEN "leaving" ELSE "decoded", of, viewer[v].pass, 0, best))
DecodePass(v) ==
  /\ viewer[v].at = "decoding"
  /\ \/ camera # 0 /\ viewer[v].left > 0 /\ \E flat \in BOOLEAN : Passed(v, Shot(flat))
     \/ (viewer[v].left = 0 \/ camera = 0) /\ Passed(v, NoPicture)
  /\ UNCHANGED <<camera, lock, picture, torn, revived, shotBudget>>
(* The picture is left for the others before the lock is let go - deleted, *)
(* whoever's it is.                                                        *)
Publish(v) ==
  /\ viewer[v].at = "decoded"
  /\ picture' = viewer[v].got /\ revived' = (revived \/ viewer[v].got.of # camera)
  /\ Moves(v, [viewer[v] EXCEPT !.at = "leaving"])
  /\ UNCHANGED <<camera, lock, torn, shotBudget>>
LetGo(v) ==
  /\ viewer[v].at = "leaving" /\ lock' = 0
  /\ Moves(v, IF viewer[v].got = NoPicture THEN Failed(viewer[v].of) ELSE Shown(viewer[v].of, viewer[v].got))
  /\ torn' = (torn \/ (lock # 0 /\ Decoders # {v}))
  /\ UNCHANGED <<camera, picture, revived, shotBudget>>
(* The worker dies, and the request with it.                               *)
WorkerLost(v) ==
  /\ v \in Decoders /\ SpendShot("die") /\ Moves(v, Away)
  /\ UNCHANGED <<camera, lock, picture, torn, revived>>

(* A deleted or disabled camera's keys go; another may bear its slug.      *)
Delete ==
  /\ camera # 0 /\ SpendShot("delete") /\ camera' = 0
  /\ lock' = 0 /\ picture' = NoPicture /\ torn' = (torn \/ Decoders # {})
  /\ UNCHANGED <<viewer, revived>>
Create ==
  /\ camera = 0 /\ camera' = 2 /\ UNCHANGED <<viewer, lock, picture, torn, revived, shotBudget>>

(* Time passes, but not beyond what must be done by now; a picture is      *)
(* left, the lock taken or let go in no time.                              *)
Less(n) == IF n = 0 THEN 0 ELSE n - 1
Timed == {"waiting", "decoding"}
TickOver ==
  /\ \A v \in Viewers : viewer[v].at \in {"away", "served", "failed"} \/ (viewer[v].at \in Timed /\ viewer[v].left > 0)
  /\ lock # 0 \/ picture # NoPicture \/ \E v \in Viewers : viewer[v].at \in Timed
  /\ viewer' = [v \in Viewers |-> IF viewer[v].at \in Timed THEN [viewer[v] EXCEPT !.left = @ - 1] ELSE viewer[v]]
  /\ lock' = Less(lock)
  /\ picture' = IF picture.left <= 1 THEN NoPicture ELSE [picture EXCEPT !.left = @ - 1]
  /\ UNCHANGED <<camera, torn, revived, shotBudget>>

ShotInit ==
  /\ camera = 1 /\ viewer = [v \in Viewers |-> Away] /\ lock = 0 /\ picture = NoPicture
  /\ torn = FALSE /\ revived = FALSE /\ shotBudget \in ShotBudgets

Asking(v) == Decide(v) \/ Wait(v) \/ DecodePass(v) \/ Publish(v) \/ LetGo(v)
ShotNext == (\E v \in Viewers : Look(v) \/ Asking(v) \/ WorkerLost(v)) \/ Delete \/ Create \/ TickOver

-----------------------------------------------------------------------------
Pictures == [of : 0..2, flat : BOOLEAN, left : 0..CacheTime]
Viewings ==
  [at : {"away", "missed", "waiting", "decoding", "decoded", "leaving", "served", "failed"},
   of : 0..2, pass : 0..2, left : 0..(PassLimit + WaitTime), got : Pictures]
ShotTypeOK ==
  /\ camera \in 0..2 /\ lock \in 0..LockTime /\ picture \in Pictures /\ viewer \in [Viewers -> Viewings]
  /\ torn \in BOOLEAN /\ revived \in BOOLEAN /\ shotBudget \in ShotBudgetTypes

(* One decode at a time, for as long as nobody takes away its lock: both   *)
(* passes fit into the lock's time.                                        *)
OneDecode == torn \/ Cardinality(Decoders) <= 1

(* Who is served is shown the camera asked for, unless a picture was left  *)
(* of one that was gone or the slug had changed hands.                     *)
OwnPicture ==
  \A v \in Viewers : viewer[v].at = "served" => viewer[v].got.of = viewer[v].of \/ revived \/ camera # viewer[v].of

(* While one decodes under its lock, nobody else is refused before the     *)
(* time is up - and a lock without anybody behind it goes.                 *)
ShotSettled == lock = 0 /\ picture = NoPicture /\ \A v \in Viewers : viewer[v].at \in {"away", "served", "failed"}
================================================================================
