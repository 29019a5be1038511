------------------------------ MODULE LeaderLock ------------------------------
(***************************************************************************)
(* Four workers serve the management API, and each of them would run the   *)
(* background loops.  run_as_leader lets the holder of a lock in the cache *)
(* run a loop, and every worker run it while the cache is away.            *)
(* Code: camera-mgmt/backend/services/leader.py.                           *)
(***************************************************************************)
EXTENDS Naturals, FiniteSets

CONSTANTS Workers,        \* the worker processes
          LockBudgets     \* how many stalls, outages, deaths and ended loops to allow

NoOwner == "free"
Departed == "departed"    \* a process that is gone and left its lock behind

ASSUME WorkersAssumption ==
  /\ IsFiniteSet(Workers) /\ {NoOwner, Departed} \cap Workers = {}
  /\ LockBudgets \subseteq [stall : Nat, outage : Nat, death : Nat, exit : Nat]

VARIABLES
  lock,        \* the key's value
  cache,       \* does the cache answer?
  alive,       \* worker processes that run
  tick,        \* where a worker is in its round
  leads,       \* its `holding`
  loop,        \* its inner task: off, on, or done (it ended by itself)
  lapsed,      \* history: its lock ran out since the last round that found it its own
  blind,       \* history: the cache did not answer its last round
  lockBudget

lockVars == <<lock, cache, alive, tick, leads, loop, lapsed, blind, lockBudget>>

Running == {w \in Workers : loop[w] = "on"}
SpendLock(c) == lockBudget[c] > 0 /\ lockBudget' = [lockBudget EXCEPT ![c] = @ - 1]

LockInit ==
  /\ lock = NoOwner /\ cache = TRUE /\ alive = Workers
  /\ tick = [w \in Workers |-> "sleep"] /\ leads = [w \in Workers |-> FALSE]
  /\ loop = [w \in Workers |-> "off"]
  /\ lapsed = [w \in Workers |-> FALSE] /\ blind = [w \in Workers |-> FALSE]
  /\ lockBudget \in LockBudgets

(* A round that leads starts the loop if it does not run yet.  It notices  *)
(* one that ended by itself: the lock is kept, and the next round starts   *)
(* the loop again.                                                         *)
Lead(w) ==
  /\ leads' = [leads EXCEPT ![w] = loop[w] # "done"]
  /\ loop' = [loop EXCEPT ![w] = IF @ = "done" THEN "off" ELSE "on"]

Confirm(w) ==
  /\ Lead(w) /\ tick' = [tick EXCEPT ![w] = "sleep"]
  /\ lapsed' = [lapsed EXCEPT ![w] = FALSE] /\ blind' = [blind EXCEPT ![w] = FALSE]

(* SET NX PX: the lock is free and is ours now, or it is somebody's.       *)
Acquire(w) ==
  /\ w \in alive /\ tick[w] = "sleep" /\ cache
  /\ \/ lock = NoOwner /\ lock' = w /\ Confirm(w)
     \/ /\ lock # NoOwner /\ tick' = [tick EXCEPT ![w] = "renew"]
        /\ UNCHANGED <<lock, leads, loop, lapsed, blind>>
  /\ UNCHANGED <<cache, alive, lockBudget>>

(* Mutant: PEXPIRE without the comparison.                                 *)
RenewAnybodys(w) ==
  /\ w \in alive /\ tick[w] = "renew" /\ cache
  /\ lock # NoOwner /\ Confirm(w)
  /\ UNCHANGED <<lock, cache, alive, lockBudget>>

(* The compare-and-expire: ours still; or lost, and the loop is cancelled. *)
Renew(w) ==
  /\ w \in alive /\ tick[w] = "renew" /\ cache
  /\ \/ lock = w /\ Confirm(w)
     \/ /\ lock # w /\ leads[w]
        /\ leads' = [leads EXCEPT ![w] = FALSE] /\ tick' = [tick EXCEPT ![w] = "stop"]
        /\ UNCHANGED <<loop, lapsed, blind>>
     \/ /\ lock # w /\ ~leads[w]
        /\ tick' = [tick EXCEPT ![w] = "sleep"] /\ UNCHANGED <<leads, loop, lapsed, blind>>
  /\ UNCHANGED <<lock, cache, alive, lockBudget>>

(* _stop waits for the cancelled task, which may be inside a call.         *)
StopLoop(w) ==
  /\ w \in alive /\ tick[w] = "stop"
  /\ loop' = [loop EXCEPT ![w] = "off"] /\ tick' = [tick EXCEPT ![w] = "sleep"]
  /\ lapsed' = [lapsed EXCEPT ![w] = FALSE] /\ blind' = [blind EXCEPT ![w] = FALSE]
  /\ UNCHANGED <<lock, cache, alive, leads, lockBudget>>

(* Fail-open: without an answer the loop runs anyway.                      *)
FailOpen(w) ==
  /\ w \in alive /\ tick[w] \in {"sleep", "renew"} /\ ~cache
  /\ Lead(w) /\ blind' = [blind EXCEPT ![w] = TRUE] /\ tick' = [tick EXCEPT ![w] = "sleep"]
  /\ UNCHANGED <<lock, cache, alive, lapsed, lockBudget>>

LoopExits(w) ==
  /\ loop[w] = "on" /\ tick[w] # "stop" /\ SpendLock("exit")
  /\ loop' = [loop EXCEPT ![w] = "done"]
  /\ UNCHANGED <<lock, cache, alive, tick, leads, lapsed, blind>>

(* Shutdown: the loop is stopped, and the lock released if it is ours.     *)
Quit(w) ==
  /\ w \in alive /\ tick[w] \in {"sleep", "renew"} /\ SpendLock("death")
  /\ tick' = [tick EXCEPT ![w] = "quit"]
  /\ UNCHANGED <<lock, cache, alive, leads, loop, lapsed, blind>>

Gone(w) ==
  /\ alive' = alive \ {w} /\ tick' = [tick EXCEPT ![w] = "sleep"]
  /\ leads' = [leads EXCEPT ![w] = FALSE] /\ loop' = [loop EXCEPT ![w] = "off"]
  /\ lapsed' = [lapsed EXCEPT ![w] = FALSE] /\ blind' = [blind EXCEPT ![w] = FALSE]

Release(w) ==
  /\ w \in alive /\ tick[w] = "quit" /\ Gone(w)
  /\ lock' = IF lock # w THEN lock ELSE IF cache THEN NoOwner ELSE Departed
  /\ UNCHANGED <<cache, lockBudget>>

Die(w) ==
  /\ w \in alive /\ SpendLock("death") /\ Gone(w)
  /\ lock' = IF lock = w THEN Departed ELSE lock
  /\ UNCHANGED cache

(* A process that starts has an identity of its own.                       *)
Start(w) ==
  /\ w \notin alive /\ alive' = alive \cup {w}
  /\ UNCHANGED <<lock, cache, tick, leads, loop, lapsed, blind, lockBudget>>

(* Nobody renewed for the TTL: the owner is gone, or its event loop stalls.*)
Lapse ==
  /\ lock # NoOwner /\ lock' = NoOwner
  /\ \/ lock = Departed /\ UNCHANGED <<lapsed, lockBudget>>
     \/ lock \in alive /\ lapsed' = [lapsed EXCEPT ![lock] = TRUE] /\ SpendLock("stall")
  /\ UNCHANGED <<cache, alive, tick, leads, loop, blind>>

LoseCache ==
  /\ cache /\ SpendLock("outage") /\ cache' = FALSE
  /\ UNCHANGED <<lock, alive, tick, leads, loop, lapsed, blind>>

(* It comes back with its keys, or without them.                           *)
RegainCache ==
  /\ ~cache /\ cache' = TRUE
  /\ \/ UNCHANGED <<lock, lapsed>>
     \/ /\ lock' = NoOwner
        /\ lapsed' = [w \in Workers |-> lapsed[w] \/ lock = w]
  /\ UNCHANGED <<alive, tick, leads, loop, blind, lockBudget>>

Round(w) == Acquire(w) \/ Renew(w) \/ StopLoop(w) \/ FailOpen(w) \/ Release(w)

LockNext ==
  \/ \E w \in Workers : Round(w) \/ LoopExits(w) \/ Quit(w) \/ Die(w) \/ Start(w)
  \/ Lapse \/ LoseCache \/ RegainCache

LockSpec == LockInit /\ [][LockNext]_lockVars

-----------------------------------------------------------------------------
LockTypeOK ==
  /\ lock \in Workers \cup {NoOwner, Departed} /\ cache \in BOOLEAN /\ alive \subseteq Workers
  /\ tick \in [Workers -> {"sleep", "renew", "stop", "quit"}]
  /\ leads \in [Workers -> BOOLEAN] /\ loop \in [Workers -> {"off", "on", "done"}]
  /\ lapsed \in [Workers -> BOOLEAN] /\ blind \in [Workers -> BOOLEAN]
  /\ lockBudget \in [stall : Nat, outage : Nat, death : Nat, exit : Nat]

(* Two workers run a loop only while one of them has had no answered round *)
(* since its lock ran out or the cache went away: after a stall or an      *)
(* outage, one round of each worker leaves one loop.                       *)
OneLoop ==
  \A v, w \in Running : v = w \/ lapsed[v] \/ blind[v] \/ lapsed[w] \/ blind[w]

(* Some worker runs the loop.                                              *)
Led == Running # {}
=============================================================================
