------------------------------- MODULE ModelPool -------------------------------
(***************************************************************************)
(* The smart search service loads its encoder and its warmup pipeline when *)
(* the first camera is registered and releases them when nobody needs them.*)
(* Four kinds of thread meet here: requests that register cameras, a loader,*)
(* a reaper, and searches.                                                 *)
(* Code: smartsearch/index/models.py, smartsearch/index/engine.py.         *)
(***************************************************************************)
EXTENDS Naturals, FiniteSets

CONSTANTS Clients,        \* requests that register and unregister cameras
          Slugs,          \* cameras
          PoolBudgets     \* changes, searches, failed loads, long pauses

ASSUME PoolAssumption ==
  /\ IsFiniteSet(Slugs)
  /\ PoolBudgets \subseteq [change : Nat, search : Nat, fail : Nat, pause : Nat]

VARIABLES
  cams,        \* the engine's cameras
  client,      \* what a request has still to do: tell the pool, add the camera again
  wanted,      \* the pool's `_wanted`
  warmup,      \* the pool's `_ingest_state`
  loader,      \* the warm-up thread: off, started, telling the engine, or ending
  encoder,     \* the pool holds the encoder; or it can never be had
  pipe,        \* the pool's pipeline, and whether its encoder is the pool's
  engine,      \* the engine has a pipeline
  teller,      \* who holds the notify lock, and what it read
  reaper,      \* the rest of a tick: tell the engine, drop the encoder
  rested,      \* no camera for the idle timeout
  quiet,       \* no search for the idle timeout
  fits,        \* the configured encoder has the schema's width
  missed,      \* history: a camera came back while the last warm-up was ending
  outrun,      \* history: the word that no camera is left came after one was back
  regained,    \* history: a camera came back while the reaper was releasing
  poolBudget

engineVars == <<cams, client>>
loadVars == <<wanted, warmup, loader, encoder, pipe>>
tellVars == <<engine, teller, reaper>>
clockVars == <<rested, quiet, fits>>
poolHistory == <<missed, outrun, regained>>
poolVars == <<engineVars, loadVars, tellVars, clockVars, poolHistory, poolBudget>>

SpendPool(c) == poolBudget[c] > 0 /\ poolBudget' = [poolBudget EXCEPT ![c] = @ - 1]
Loader == "loader"
Reaper == "reaper"
Free == [who |-> "nobody", has |-> FALSE]
NoTick == [tell |-> FALSE, drop |-> FALSE]
Resting == [at |-> "idle", cam |-> "none"]

PoolInit ==
  /\ cams = {} /\ client = [c \in Clients |-> Resting]
  /\ wanted = FALSE /\ warmup = "idle" /\ loader = "off" /\ encoder = "none" /\ pipe = "none"
  /\ engine = FALSE /\ teller = Free /\ reaper = NoTick
  /\ rested = FALSE /\ quiet = FALSE /\ fits \in BOOLEAN
  /\ missed = FALSE /\ outrun = FALSE /\ regained = FALSE /\ poolBudget \in PoolBudgets

-----------------------------------------------------------------------------
(* The engine.  A request changes the cameras under the engine's lock and  *)
(* tells the pool, after it, when the count left or reached zero.  The     *)
(* camera's own lock is held until an upsert has told the pool, but not    *)
(* until a removal has.                                                    *)

Locked(k) == \E c \in Clients : client[c].at \in {"yes", "again", "move"} /\ client[c].cam = k
Becomes(c, at, k) == client' = [client EXCEPT ![c] = [at |-> at, cam |-> k]]
Enter(c, k) == /\ cams' = cams \cup {k}
               /\ IF cams = {} THEN Becomes(c, "yes", k) ELSE client' = [client EXCEPT ![c] = Resting]

AddCamera(c, k) ==
  /\ client[c].at = "idle" /\ k \notin cams /\ ~Locked(k) /\ SpendPool("change") /\ Enter(c, k)
  /\ UNCHANGED <<loadVars, tellVars, clockVars, poolHistory>>

RemoveCamera(c, k) ==
  /\ client[c].at = "idle" /\ k \in cams /\ ~Locked(k) /\ SpendPool("change")
  /\ cams' = cams \ {k}
  /\ IF cams = {k} THEN Becomes(c, "no", k) ELSE UNCHANGED client
  /\ UNCHANGED <<loadVars, tellVars, clockVars, poolHistory>>

(* upsert_camera with another URL: out and in again.                       *)
MoveCamera(c, k) ==
  /\ client[c].at = "idle" /\ k \in cams /\ ~Locked(k) /\ SpendPool("change")
  /\ cams' = cams \ {k} /\ Becomes(c, IF cams = {k} THEN "move" ELSE "again", k)
  /\ UNCHANGED <<loadVars, tellVars, clockVars, poolHistory>>

AddAgain(c) ==
  /\ client[c].at = "again" /\ Enter(c, client[c].cam)
  /\ UNCHANGED <<loadVars, tellVars, clockVars, poolHistory, poolBudget>>

(* _spawn_loader: one warm-up at a time.                                   *)
Spawnable == warmup \in {"idle", "failed"} /\ loader = "off"
SpawnLoader ==
  IF Spawnable THEN warmup' = "warming" /\ loader' = "started" ELSE UNCHANGED <<warmup, loader>>

(* want_ingest(True), which a pool that is wanted already ignores ...      *)
WantIngest(c) ==
  /\ client[c].at = "yes" /\ client' = [client EXCEPT ![c] = Resting] /\ wanted' = TRUE
  /\ IF wanted THEN UNCHANGED <<warmup, loader, rested, poolHistory>>
     ELSE /\ SpawnLoader /\ rested' = FALSE
          /\ missed' = (warmup = "idle" /\ ~Spawnable) /\ outrun' = FALSE
          /\ regained' = (regained \/ reaper.drop)
  /\ UNCHANGED <<cams, encoder, pipe, tellVars, quiet, fits, poolBudget>>

(* ... and want_ingest(False), which starts the clock.  No lock orders it  *)
(* with the word of a camera that is back by now (outrun).                 *)
UnwantIngest(c) ==
  /\ client[c].at \in {"no", "move"} /\ wanted' = FALSE
  /\ IF client[c].at = "no" THEN client' = [client EXCEPT ![c] = Resting]
                            ELSE Becomes(c, "again", client[c].cam)
  /\ rested' = (~wanted /\ rested) /\ outrun' = (cams # {})
  /\ UNCHANGED <<cams, warmup, loader, encoder, pipe, tellVars, quiet, fits, missed, regained,
                 poolBudget>>

-----------------------------------------------------------------------------
(* The loader.  It holds the pool's lock from the question whether anybody *)
(* wants it to the end of the load.                                        *)

WarmForNobody ==
  /\ loader = "started" /\ ~wanted /\ warmup' = "idle" /\ loader' = "ending"
  /\ UNCHANGED <<engineVars, wanted, encoder, pipe, tellVars, clockVars, poolHistory, poolBudget>>

Warm ==
  /\ loader = "started" /\ wanted /\ (fits \/ encoder = "held")
  /\ encoder' = "held" /\ pipe' = "shared" /\ warmup' = "ready" /\ loader' = "tell"
  /\ UNCHANGED <<engineVars, wanted, tellVars, clockVars, poolHistory, poolBudget>>

(* An encoder of another width will never do; a load that failed is tried  *)
(* again later.                                                            *)
WarmFails ==
  /\ loader = "started" /\ wanted /\ loader' = "ending"
  /\ \/ ~fits /\ encoder' = "unfit" /\ warmup' = "unavailable" /\ UNCHANGED poolBudget
     \/ SpendPool("fail") /\ warmup' = "failed" /\ UNCHANGED encoder
  /\ UNCHANGED <<engineVars, wanted, pipe, tellVars, clockVars, poolHistory>>

LoaderEnds ==
  /\ loader = "ending" /\ loader' = "off"
  /\ UNCHANGED <<engineVars, wanted, warmup, encoder, pipe, tellVars, clockVars, poolHistory,
                 poolBudget>>

(* Mutant: the caller passes on what it did itself.                        *)
CarryOwn(who) ==
  /\ teller = Free
  /\ \/ who = Loader /\ loader = "tell" /\ loader' = "told"
        /\ teller' = [who |-> who, has |-> TRUE] /\ UNCHANGED reaper
     \/ who = Reaper /\ reaper.tell /\ reaper' = [reaper EXCEPT !.tell = FALSE]
        /\ teller' = [who |-> who, has |-> FALSE] /\ UNCHANGED loader
  /\ UNCHANGED <<engineVars, wanted, warmup, encoder, pipe, engine, clockVars, poolHistory, poolBudget>>

(* _notify: what the pool has is read again under the notify lock ...      *)
Carry(who) ==
  /\ teller = Free /\ teller' = [who |-> who, has |-> pipe # "none"]
  /\ \/ who = Loader /\ loader = "tell" /\ loader' = "told" /\ UNCHANGED reaper
     \/ who = Reaper /\ reaper.tell /\ reaper' = [reaper EXCEPT !.tell = FALSE] /\ UNCHANGED loader
  /\ UNCHANGED <<engineVars, wanted, warmup, encoder, pipe, engine, clockVars, poolHistory, poolBudget>>

(* ... and handed to the engine.                                           *)
Deliver ==
  /\ teller # Free /\ engine' = teller.has /\ teller' = Free
  /\ loader' = IF teller.who = Loader THEN "ending" ELSE loader
  /\ UNCHANGED <<engineVars, wanted, warmup, encoder, pipe, reaper, clockVars, poolHistory, poolBudget>>

-----------------------------------------------------------------------------
(* The reaper, and the searches.                                           *)

TickIdle == reaper = NoTick /\ teller.who # Reaper

(* Mutant: a warm-up that failed is not tried again.                       *)
NeverRetry == TickIdle /\ wanted /\ warmup = "failed" /\ FALSE /\ UNCHANGED poolVars

Retry ==
  /\ TickIdle /\ wanted /\ warmup = "failed" /\ Spawnable /\ SpawnLoader
  /\ UNCHANGED <<engineVars, wanted, encoder, pipe, tellVars, clockVars, poolHistory, poolBudget>>

(* Without cameras for the timeout the pipeline is detached; without       *)
(* searches either, the encoder is to go, in a second critical section     *)
(* after the engine has been told.                                         *)
Release ==
  /\ TickIdle /\ ~wanted /\ rested /\ (pipe # "none" \/ (encoder = "held" /\ quiet))
  /\ reaper' = [tell |-> pipe # "none", drop |-> encoder = "held" /\ quiet]
  /\ pipe' = "none" /\ warmup' = IF pipe # "none" /\ warmup # "unavailable" THEN "idle" ELSE warmup
  /\ UNCHANGED <<engineVars, wanted, loader, encoder, engine, teller, clockVars, poolHistory,
                 poolBudget>>

(* The pipeline that came meanwhile keeps the copy it was built with.      *)
DropEncoder ==
  /\ reaper.drop /\ ~reaper.tell /\ teller.who # Reaper /\ reaper' = NoTick
  /\ encoder' = IF encoder = "held" THEN "none" ELSE encoder
  /\ pipe' = IF pipe = "shared" THEN "own" ELSE pipe
  /\ UNCHANGED <<engineVars, wanted, warmup, loader, engine, teller, clockVars, poolHistory,
                 poolBudget>>

(* acquire_embedder: a search loads the encoder if it must.                *)
Search ==
  /\ SpendPool("search") /\ quiet' = FALSE
  /\ encoder' = IF encoder # "none" THEN encoder ELSE IF fits THEN "held" ELSE "unfit"
  /\ UNCHANGED <<engineVars, wanted, warmup, loader, pipe, tellVars, rested, fits, poolHistory>>

Pause ==
  /\ SpendPool("pause") /\ quiet' = TRUE /\ rested' = ~wanted
  /\ UNCHANGED <<engineVars, loadVars, tellVars, fits, poolHistory>>

-----------------------------------------------------------------------------
ClientStep(c) == AddAgain(c) \/ WantIngest(c) \/ UnwantIngest(c)
LoaderStep == WarmForNobody \/ Warm \/ WarmFails \/ LoaderEnds
ReaperStep == Retry \/ Release \/ DropEncoder
TellStep == Carry(Loader) \/ Carry(Reaper) \/ Deliver

PoolNext ==
  \/ \E c \in Clients : \/ ClientStep(c)
                        \/ \E k \in Slugs : AddCamera(c, k) \/ RemoveCamera(c, k) \/ MoveCamera(c, k)
  \/ LoaderStep \/ ReaperStep \/ TellStep \/ Search \/ Pause

PoolSpec == PoolInit /\ [][PoolNext]_poolVars

-----------------------------------------------------------------------------
Orders == {Resting} \cup [at : {"yes", "no", "again", "move"}, cam : Slugs]
Tellers == [who : {"nobody", Loader, Reaper}, has : BOOLEAN]
Ticks == [tell : BOOLEAN, drop : BOOLEAN]

PoolTypeOK ==
  /\ cams \subseteq Slugs /\ client \in [Clients -> Orders]
  /\ warmup \in {"idle", "warming", "ready", "failed", "unavailable"}
  /\ loader \in {"off", "started", "tell", "told", "ending"}
  /\ encoder \in {"none", "held", "unfit"} /\ pipe \in {"none", "shared", "own"}
  /\ teller \in Tellers /\ reaper \in Ticks
  /\ {wanted, engine, rested, quiet, missed, outrun, regained} \subseteq BOOLEAN

(* Nobody has still to tell the pool whether there are cameras.            *)
Heard == \A c \in Clients : client[c].at \in {"idle", "again"}

(* The engine feeds the pipeline the pool has, and none the pool has       *)
(* released, once nobody has still to tell it; the pipeline's encoder is   *)
(* the one searches use, unless a camera came back during the release.     *)
(* `_wanted` is TRUE while at least one camera is registered, once every   *)
(* request has told the pool, unless a removal's word came after its       *)
(* successor's (outrun; engine.remove_camera speaks outside both locks).   *)
EngineCurrent ==
  /\ loader # "tell" /\ ~reaper.tell /\ teller = Free => engine = (pipe # "none")
  /\ pipe = "own" => regained
  /\ Heard => wanted = (cams # {} /\ ~outrun)

(* Cameras that stay registered come to be indexed, whatever the pool      *)
(* believes of them, unless the encoder does not fit, they came back in    *)
(* the instant the last warm-up was ending (missed), or the word of the    *)
(* removal before them reached the pool after they were back (outrun).     *)
CamerasServed ==
  []<>(cams # {} /\ ~missed /\ ~outrun => engine \/ warmup = "unavailable")
=============================================================================
