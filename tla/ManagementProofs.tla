-------------------------- MODULE ManagementProofs --------------------------
(* Proofs about the workers of the management API: for every number of them  *)
(* one loop runs, and for every number of requests about a camera and of     *)
(* loops what records has the settings of its row.                           *)
EXTENDS Management, SequenceTheorems, TLAPS

-----------------------------------------------------------------------------
(* The leader: types, and one loop.                                          *)

\* What a round that leads does to the variables it writes.
LEMMA ConfirmType ==
  ASSUME LockTypeOK, NEW w \in Workers, Confirm(w)
  PROVE  /\ tick' \in [Workers -> {"sleep", "renew", "stop", "quit"}]
         /\ leads' \in [Workers -> BOOLEAN] /\ loop' \in [Workers -> {"off", "on", "done"}]
         /\ lapsed' \in [Workers -> BOOLEAN] /\ blind' \in [Workers -> BOOLEAN]
  BY DEF LockTypeOK, Confirm, Lead

\* What is left of a process that is gone.
LEMMA GoneType ==
  ASSUME LockTypeOK, NEW w \in Workers, Gone(w)
  PROVE  /\ alive' \subseteq Workers
         /\ tick' \in [Workers -> {"sleep", "renew", "stop", "quit"}]
         /\ leads' \in [Workers -> BOOLEAN] /\ loop' \in [Workers -> {"off", "on", "done"}]
         /\ lapsed' \in [Workers -> BOOLEAN] /\ blind' \in [Workers -> BOOLEAN]
  BY DEF LockTypeOK, Gone

\* A budget that is spent stays a budget.
LEMMA SpendType ==
  ASSUME LockTypeOK, NEW c \in {"stall", "outage", "death", "exit"}, SpendLock(c)
  PROVE  lockBudget' \in [stall : Nat, outage : Nat, death : Nat, exit : Nat]
  BY DEF LockTypeOK, SpendLock

\* The variables keep their types in every step.
LEMMA TypeStep == LockTypeOK /\ [LockNext]_lockVars => LockTypeOK'
<1> SUFFICES ASSUME LockTypeOK, [LockNext]_lockVars PROVE LockTypeOK'
  OBVIOUS
<1>1. ASSUME NEW w \in Workers, Acquire(w) PROVE LockTypeOK'
  <2>1. CASE lock = NoOwner /\ lock' = w /\ Confirm(w)
    BY <1>1, <2>1, ConfirmType DEF LockTypeOK, Acquire
  <2>2. CASE /\ lock # NoOwner /\ tick' = [tick EXCEPT ![w] = "renew"]
             /\ UNCHANGED <<lock, leads, loop, lapsed, blind>>
    BY <1>1, <2>2 DEF LockTypeOK, Acquire
  <2>. QED BY <1>1, <2>1, <2>2 DEF Acquire
<1>2. ASSUME NEW w \in Workers, Renew(w) PROVE LockTypeOK'
  <2>1. CASE lock = w /\ Confirm(w)
    BY <1>2, <2>1, ConfirmType DEF LockTypeOK, Renew
  <2>2. CASE lock # w
    BY <1>2, <2>2 DEF LockTypeOK, Renew
  <2>. QED BY <1>2, <2>1, <2>2 DEF Renew
<1>3. ASSUME NEW w \in Workers, StopLoop(w) PROVE LockTypeOK'
  BY <1>3 DEF LockTypeOK, StopLoop
<1>4. ASSUME NEW w \in Workers, FailOpen(w) PROVE LockTypeOK'
  BY <1>4 DEF LockTypeOK, FailOpen, Lead
<1>5. ASSUME NEW w \in Workers, Release(w) PROVE LockTypeOK'
  BY <1>5, GoneType DEF LockTypeOK, Release
<1>6. ASSUME NEW w \in Workers, LoopExits(w) PROVE LockTypeOK'
  BY <1>6, SpendType DEF LockTypeOK, LoopExits
<1>7. ASSUME NEW w \in Workers, Quit(w) PROVE LockTypeOK'
  BY <1>7, SpendType DEF LockTypeOK, Quit
<1>8. ASSUME NEW w \in Workers, Die(w) PROVE LockTypeOK'
  BY <1>8, SpendType, GoneType DEF LockTypeOK, Die
<1>9. ASSUME NEW w \in Workers, Start(w) PROVE LockTypeOK'
  BY <1>9 DEF LockTypeOK, Start
<1>10. CASE Lapse
  BY <1>10, SpendType DEF LockTypeOK, Lapse
<1>11. CASE LoseCache
  BY <1>11, SpendType DEF LockTypeOK, LoseCache
<1>12. CASE RegainCache
  BY <1>12 DEF LockTypeOK, RegainCache
<1>13. CASE UNCHANGED lockVars
  BY <1>13 DEF LockTypeOK, lockVars
<1>. QED
  BY <1>1, <1>2, <1>3, <1>4, <1>5, <1>6, <1>7, <1>8, <1>9, <1>10, <1>11, <1>12, <1>13
  DEF LockNext, Round

\* Every variable keeps its type, for any number of workers, stalls, outages
\* and deaths (run_as_leader).
THEOREM LockTypeCorrect == LockSpec => []LockTypeOK
<1>1. LockInit => LockTypeOK
  BY WorkersAssumption DEF LockInit, LockTypeOK
<1>. QED BY <1>1, TypeStep, PTL DEF LockSpec

\* A worker that runs the loop by an answered round, and whose lock has not
\* run out since, holds the lock.
HolderRuns ==
  \A w \in Workers : loop[w] = "on" /\ ~lapsed[w] /\ ~blind[w] => lock = w

\* A worker whose loop does not start and whose history does not shrink keeps
\* what HolderRuns says of it while the lock stays.
LEMMA HolderStays ==
  ASSUME HolderRuns, NEW v \in Workers, lock' = lock,
         loop'[v] = "on" => loop[v] = "on",
         lapsed[v] => lapsed'[v], blind[v] => blind'[v]
  PROVE  loop'[v] = "on" /\ ~lapsed'[v] /\ ~blind'[v] => lock' = v
  BY DEF HolderRuns

\* Taking the lock, renewing it, losing it or being gone keeps HolderRuns.
LEMMA HolderStep == LockTypeOK /\ HolderRuns /\ [LockNext]_lockVars => HolderRuns'
<1> SUFFICES ASSUME LockTypeOK, HolderRuns, [LockNext]_lockVars,
                    NEW v \in Workers, loop'[v] = "on", ~lapsed'[v], ~blind'[v]
             PROVE  lock' = v
  BY DEF HolderRuns
<1>1. ASSUME NEW w \in Workers, Acquire(w) PROVE lock' = v
  <2>1. CASE lock = NoOwner /\ lock' = w /\ Confirm(w)
    <3>1. CASE v = w
      BY <2>1, <3>1
    <3>2. CASE v # w
      <4>1. loop[v] = "on" /\ ~lapsed[v] /\ ~blind[v]
        BY <2>1, <3>2 DEF LockTypeOK, Confirm, Lead
      <4>2. lock = v
        BY <4>1 DEF HolderRuns
      <4>. QED BY <2>1, <4>2, WorkersAssumption
    <3>. QED BY <3>1, <3>2
  <2>2. CASE lock # NoOwner /\ UNCHANGED <<lock, leads, loop, lapsed, blind>>
    BY <2>2, HolderStays
  <2>. QED BY <1>1, <2>1, <2>2 DEF Acquire
<1>2. ASSUME NEW w \in Workers, Renew(w) PROVE lock' = v
  <2>1. CASE lock = w /\ Confirm(w)
    <3>1. lock' = w
      BY <1>2, <2>1 DEF Renew
    <3>2. CASE v # w
      <4>1. loop[v] = "on" /\ ~lapsed[v] /\ ~blind[v]
        BY <2>1, <3>2 DEF LockTypeOK, Confirm, Lead
      <4>. QED BY <2>1, <3>1, <4>1 DEF HolderRuns
    <3>. QED BY <3>1, <3>2
  <2>2. CASE lock # w
    BY <1>2, <2>2, HolderStays DEF Renew
  <2>. QED BY <1>2, <2>1, <2>2 DEF Renew
<1>3. ASSUME NEW w \in Workers, StopLoop(w) PROVE lock' = v
  <2>1. v # w
    BY <1>3 DEF LockTypeOK, StopLoop
  <2>. QED BY <1>3, <2>1, HolderStays DEF LockTypeOK, StopLoop
<1>4. ASSUME NEW w \in Workers, FailOpen(w) PROVE lock' = v
  <2>1. v # w
    BY <1>4 DEF LockTypeOK, FailOpen
  <2>. QED BY <1>4, <2>1, HolderStays DEF LockTypeOK, FailOpen, Lead
<1>5. ASSUME NEW w \in Workers, Gone(w), lock' = lock \/ lock = w PROVE lock' = v
  <2>1. v # w
    BY <1>5 DEF LockTypeOK, Gone
  <2>2. loop[v] = "on" /\ ~lapsed[v] /\ ~blind[v]
    BY <1>5, <2>1 DEF LockTypeOK, Gone
  <2>. QED BY <1>5, <2>1, <2>2 DEF HolderRuns
<1>6. ASSUME NEW w \in Workers, Release(w) \/ Die(w) PROVE lock' = v
  BY <1>5, <1>6 DEF Release, Die
<1>7. ASSUME NEW w \in Workers, LoopExits(w) PROVE lock' = v
  BY <1>7, HolderStays DEF LockTypeOK, LoopExits
<1>8. ASSUME NEW w \in Workers, Quit(w) \/ Start(w) PROVE lock' = v
  BY <1>8, HolderStays DEF Quit, Start
<1>9. CASE Lapse
  <2>1. loop[v] = "on" /\ ~lapsed[v] /\ ~blind[v]
    BY <1>9 DEF LockTypeOK, Lapse
  <2>2. lock = v
    BY <2>1 DEF HolderRuns
  <2>. QED BY <1>9, <2>2, WorkersAssumption DEF LockTypeOK, Lapse
<1>10. CASE LoseCache
  BY <1>10, HolderStays DEF LoseCache
<1>11. CASE RegainCache
  <2>1. CASE UNCHANGED <<lock, lapsed>>
    BY <1>11, <2>1, HolderStays DEF RegainCache
  <2>2. CASE lapsed' = [w \in Workers |-> lapsed[w] \/ lock = w]
    BY <1>11, <2>2 DEF RegainCache, HolderRuns
  <2>. QED BY <1>11, <2>1, <2>2 DEF RegainCache
<1>12. CASE UNCHANGED lockVars
  BY <1>12, HolderStays DEF lockVars
<1>. QED
  BY <1>1, <1>2, <1>3, <1>4, <1>6, <1>7, <1>8, <1>9, <1>10, <1>11, <1>12 DEF LockNext, Round

\* Two workers run a loop only while one of them has had no answered round
\* since its lock ran out or the cache went away, for any number of workers.
THEOREM AtMostOneLoop == LockSpec => []OneLoop
<1>1. LockInit => HolderRuns
  BY DEF LockInit, HolderRuns
<1>2. HolderRuns => OneLoop
  BY DEF HolderRuns, OneLoop, Running
<1>. QED BY <1>1, <1>2, LockTypeCorrect, HolderStep, PTL DEF LockSpec

-----------------------------------------------------------------------------
(* The calls of a request and of a pass.                                     *)

\* What a queue asks for.
AsksFor(q, do, t) == \E c \in Range(q) : c.do = do /\ c.track = t

\* The first call of a queue and the calls that are left.
LEMMA FirstCall ==
  ASSUME NEW S, NEW q \in Seq(S), q # <<>>
  PROVE  /\ Head(q) \in S /\ Tail(q) \in Seq(S)
         /\ Range(q) = {Head(q)} \cup Range(Tail(q))
<1>1. /\ Head(q) \in S /\ Tail(q) \in Seq(S) /\ Len(q) \in Nat \ {0}
      /\ Len(Tail(q)) = Len(q) - 1 /\ \A i \in 1..Len(Tail(q)) : Tail(q)[i] = q[i + 1]
  BY HeadTailProperties, LenProperties, EmptySeq
<1>2. Range(q) = {q[i] : i \in 1..Len(q)} /\ Range(Tail(q)) = {Tail(q)[i] : i \in 1..Len(Tail(q))}
  BY <1>1, RangeEquality
<1>3. Head(q) = q[1]
  OBVIOUS
<1>4. ASSUME NEW c \in Range(q) PROVE c \in {Head(q)} \cup Range(Tail(q))
  <2>1. PICK i \in 1..Len(q) : c = q[i]
    BY <1>2, <1>4
  <2>2. CASE i = 1
    BY <1>3, <2>1, <2>2
  <2>3. CASE i # 1
    <3>1. i - 1 \in 1..Len(Tail(q)) /\ Tail(q)[i - 1] = q[i]
      BY <1>1, <2>3
    <3>. QED BY <1>2, <2>1, <3>1
  <2>. QED BY <2>2, <2>3
<1>5. ASSUME NEW c \in {Head(q)} \cup Range(Tail(q)) PROVE c \in Range(q)
  <2>1. CASE c = Head(q)
    <3>1. 1 \in 1..Len(q)
      BY <1>1
    <3>. QED BY <1>2, <1>3, <2>1, <3>1
  <2>2. CASE c \in Range(Tail(q))
    <3>1. PICK i \in 1..Len(Tail(q)) : c = Tail(q)[i]
      BY <1>2, <2>2
    <3>2. i + 1 \in 1..Len(q) /\ c = q[i + 1]
      BY <1>1, <3>1
    <3>. QED BY <1>2, <3>2
  <2>. QED BY <1>5, <2>1, <2>2
<1>. QED BY <1>1, <1>4, <1>5

\* The calls of short queues.
LEMMA Short ==
  /\ Range(<<>>) = {}
  /\ \A a : Range(<<a>>) = {a}
  /\ \A a, b : Range(<<a, b>>) = {a, b}
<1>1. Range(<<>>) = {}
  BY DEF Range
<1>2. ASSUME NEW a PROVE Range(<<a>>) = {a}
  BY DEF Range
<1>3. ASSUME NEW a, NEW b PROVE Range(<<a, b>>) = {a, b}
  <2>1. DOMAIN <<a, b>> = {1, 2}
    OBVIOUS
  <2>2. <<a, b>>[1] = a /\ <<a, b>>[2] = b
    OBVIOUS
  <2>. QED BY <2>1, <2>2 DEF Range
<1>. QED BY <1>1, <1>2, <1>3

\* Two calls, one after the other.
LEMMA Pair == ASSUME NEW a, NEW b PROVE <<a>> \o <<b>> = <<a, b>>
<1>1. <<a>> \in Seq({a, b}) /\ <<b>> \in Seq({a, b}) /\ <<a, b>> \in Seq({a, b})
  OBVIOUS
<1>2. Len(<<a>>) = 1 /\ Len(<<b>>) = 1 /\ Len(<<a, b>>) = 2
  OBVIOUS
<1>3. /\ <<a>> \o <<b>> \in Seq({a, b}) /\ Len(<<a>> \o <<b>>) = 2
      /\ \A i \in 1..2 : (<<a>> \o <<b>>)[i] = IF i <= 1 THEN <<a>>[i] ELSE <<b>>[i - 1]
  BY <1>1, <1>2, ConcatProperties
<1>4. (<<a>> \o <<b>>)[1] = <<a, b>>[1] /\ (<<a>> \o <<b>>)[2] = <<a, b>>[2]
  BY <1>3
<1>5. \A i \in 1..2 : (<<a>> \o <<b>>)[i] = <<a, b>>[i]
  BY <1>4
<1>. QED BY <1>1, <1>2, <1>3, <1>5, SeqEqual

\* A call carries the row's settings.
LEMMA CallMade ==
  ASSUME NEW r \in CameraRows, NEW do \in {"add", "keep", "remove"}, NEW t \in Tracks
  PROVE  /\ Call(do, r, t) \in NvrCalls
         /\ Call(do, r, t).do = do /\ Call(do, r, t).track = t /\ Call(do, r, t).masks = r.masks
         /\ t = "main" => Call(do, r, t).days = r.days
<1>1. r.masks \in {0, 1} /\ r.days \in Days
  BY DEF CameraRows
<1>2. DaysOf(r, t) \in Days \cup {SubDays}
  BY <1>1 DEF DaysOf, Shorter
<1>. QED BY <1>1, <1>2 DEF Call, NvrCalls, DaysOf

\* What a track's part of a synchronisation asks for.
LEMMA TrackSynced ==
  ASSUME NEW r \in CameraRows, NEW t \in Tracks, NEW restart \in BOOLEAN
  PROVE  /\ SyncTrack(r, t, restart) \in Seq(NvrCalls)
         /\ Range(SyncTrack(r, t, restart)) \subseteq {Call("add", r, t), Call("remove", r, t)}
         /\ restart => Call("remove", r, t) \in Range(SyncTrack(r, t, restart))
<1>1. Call("add", r, t) \in NvrCalls /\ Call("remove", r, t) \in NvrCalls
  BY CallMade
<1>2. SyncTrack(r, t, restart) \in {<<Call("remove", r, t)>>, <<Call("add", r, t)>>,
                                    <<Call("remove", r, t), Call("add", r, t)>>}
  <2>1. <<Call("remove", r, t)>> \o <<Call("add", r, t)>> = <<Call("remove", r, t), Call("add", r, t)>>
    BY Pair
  <2>2. <<>> \o <<Call("add", r, t)>> = <<Call("add", r, t)>>
    OBVIOUS
  <2>. QED BY <2>1, <2>2 DEF SyncTrack
<1>3. restart => SyncTrack(r, t, restart) # <<Call("add", r, t)>>
  <2>1. Call("add", r, t) # Call("remove", r, t)
    BY CallMade, "add" # "remove"
  <2>2. <<Call("remove", r, t)>> \o <<Call("add", r, t)>> # <<Call("add", r, t)>>
    OBVIOUS
  <2>3. <<Call("remove", r, t)>> # <<Call("add", r, t)>>
    BY <2>1
  <2>. QED BY <2>2, <2>3 DEF SyncTrack
<1>4. {<<Call("remove", r, t)>>, <<Call("add", r, t)>>, <<Call("remove", r, t), Call("add", r, t)>>}
        \subseteq Seq(NvrCalls)
  BY <1>1
<1>5. Range(SyncTrack(r, t, restart)) \subseteq {Call("add", r, t), Call("remove", r, t)}
  BY <1>2, Short
<1>6. restart => Call("remove", r, t) \in Range(SyncTrack(r, t, restart))
  <2>1. SUFFICES ASSUME restart PROVE Call("remove", r, t) \in Range(SyncTrack(r, t, restart))
    OBVIOUS
  <2>2. CASE SyncTrack(r, t, restart) = <<Call("remove", r, t)>>
    BY <2>2, Short
  <2>3. CASE SyncTrack(r, t, restart) = <<Call("remove", r, t), Call("add", r, t)>>
    BY <2>3, Short
  <2>. QED BY <1>2, <1>3, <2>1, <2>2, <2>3
<1>. QED BY <1>2, <1>4, <1>5, <1>6

\* What a request asks for: its row's settings, and what its kind is for.
LEMMA RequestAsks ==
  ASSUME NEW r \in CameraRows, NEW kind \in Kinds
  PROVE  /\ CallsFor(kind, r) \in Seq(NvrCalls)
         /\ \A c \in Range(CallsFor(kind, r)) :
              c.masks = r.masks /\ (c.track = "main" => c.days = r.days)
         /\ kind = "masks" => \A t \in Tracks : AsksFor(CallsFor(kind, r), "remove", t)
         /\ kind = "days" => AsksFor(CallsFor(kind, r), "keep", "main")
         /\ kind = "delete" => /\ \A c \in Range(CallsFor(kind, r)) : c.do = "remove"
                               /\ \A t \in Tracks : AsksFor(CallsFor(kind, r), "remove", t)
<1>1. ASSUME NEW do \in {"add", "keep", "remove"}, NEW t \in Tracks
      PROVE  /\ Call(do, r, t) \in NvrCalls /\ Call(do, r, t).do = do /\ Call(do, r, t).track = t
             /\ Call(do, r, t).masks = r.masks /\ (t = "main" => Call(do, r, t).days = r.days)
  BY <1>1, CallMade
<1>2. ASSUME NEW restart \in BOOLEAN
      PROVE  /\ SyncTracks(r, restart) \in Seq(NvrCalls)
             /\ Range(SyncTracks(r, restart)) \subseteq
                  {Call("add", r, "main"), Call("remove", r, "main"), Call("add", r, "sub"), Call("remove", r, "sub")}
             /\ restart => \A t \in Tracks : Call("remove", r, t) \in Range(SyncTracks(r, restart))
  <2>1. /\ SyncTracks(r, restart) \in Seq(NvrCalls)
        /\ Range(SyncTracks(r, restart)) =
             Range(SyncTrack(r, "main", restart)) \cup Range(SyncTrack(r, "sub", restart))
    BY TrackSynced, RangeConcatenation, ConcatProperties, "main" \in Tracks, "sub" \in Tracks DEF SyncTracks, Tracks
  <2>. QED BY <2>1, TrackSynced DEF Tracks
<1>3. CASE kind = "switch"
  BY <1>1, <1>2, <1>3 DEF CallsFor, Tracks
<1>4. CASE kind = "masks"
  BY <1>1, <1>2, <1>4 DEF CallsFor, Tracks, AsksFor
<1>5. CASE kind = "days"
  BY <1>1, <1>5, Short DEF CallsFor, Tracks, AsksFor
<1>6. CASE kind = "sub"
  BY <1>1, <1>6, Short DEF CallsFor, Tracks, CameraRows
<1>7. CASE kind = "delete"
  BY <1>1, <1>7, Short DEF CallsFor, Tracks, AsksFor
<1>8. CASE kind = "create"
  BY <1>1, <1>8, Short DEF CallsFor, Tracks
<1>. QED BY <1>3, <1>4, <1>5, <1>6, <1>7, <1>8 DEF Kinds

\* What a pass asks for: the settings of the row it read, and nothing of a
\* camera that is gone.
LEMMA PassAsks ==
  ASSUME NEW r \in CameraRows
  PROVE  /\ Calls(r, "main") \o Calls(r, "sub") \in Seq(NvrCalls)
         /\ \A c \in Range(Calls(r, "main") \o Calls(r, "sub")) :
              c.masks = r.masks /\ (c.track = "main" => c.days = r.days)
         /\ ~r.present => Calls(r, "main") \o Calls(r, "sub") = <<>>
<1>1. ASSUME NEW t \in Tracks
      PROVE  /\ Calls(r, t) \in Seq(NvrCalls)
             /\ Range(Calls(r, t)) \subseteq {Call("add", r, t), Call("remove", r, t)}
             /\ ~r.present => Calls(r, t) = <<>>
  BY CallMade, Short DEF Calls, Missing, Surplus, Wanted
<1>2. /\ Calls(r, "main") \o Calls(r, "sub") \in Seq(NvrCalls)
      /\ Range(Calls(r, "main") \o Calls(r, "sub")) = Range(Calls(r, "main")) \cup Range(Calls(r, "sub"))
  BY <1>1, RangeConcatenation, ConcatProperties DEF Tracks
<1>3. ~r.present => Calls(r, "main") \o Calls(r, "sub") = <<>>
  BY <1>1 DEF Tracks
<1>. QED BY <1>1, <1>2, <1>3, CallMade DEF Tracks

-----------------------------------------------------------------------------
(* Types.                                                                    *)

\* A step of the requests, passes and the NVR, or the end of a pass whose loop
\* is cancelled.
SyncStep == SyncNext \/ \E w \in Loops : CancelPass(w)

\* A recorder whose state alone changes.
LEMMA StateSet ==
  ASSUME worker \in [Tracks -> NvrWorkers], NEW t \in Tracks,
         NEW s \in {"none", "up", "dead", "stopping"}, worker' = [worker EXCEPT ![t].st = s]
  PROVE  /\ worker' \in [Tracks -> NvrWorkers]
         /\ \A u \in Tracks : worker'[u].masks = worker[u].masks
         /\ \A u \in Tracks : worker'[u].st = IF u = t THEN s ELSE worker[u].st
  BY DEF NvrWorkers

\* What a change makes of the row.
LEMMA RowChanged ==
  ASSUME NEW r \in CameraRows, NEW kind \in Kinds, NEW q \in Changed(kind, r)
  PROVE  /\ q \in CameraRows
         /\ kind \notin {"masks", "create"} => q.masks = r.masks
         /\ kind \notin {"days", "create"} => q.days = r.days
         /\ kind \notin {"delete", "create"} => q.present = r.present
         /\ kind = "delete" => ~q.present
<1>1. /\ q \in CameraRows
      /\ CASE kind = "switch" -> q = [r EXCEPT !.on = ~@]
           [] kind = "masks" -> q = [r EXCEPT !.masks = 1 - @]
           [] kind = "days" -> q = [r EXCEPT !.days = q.days] /\ q # r
           [] kind = "sub" -> q = [r EXCEPT !.sub = ~@]
           [] kind = "delete" -> q = [r EXCEPT !.present = FALSE]
           [] kind = "create" -> q = [present |-> TRUE, on |-> TRUE, sub |-> FALSE,
                                      masks |-> 0, days |-> Longest]
  BY DEF Changed
<1>2. r \in CameraRows
  OBVIOUS
<1>3. CASE kind = "switch"
  BY <1>1, <1>2, <1>3 DEF CameraRows
<1>4. CASE kind = "masks"
  BY <1>1, <1>2, <1>4 DEF CameraRows
<1>5. CASE kind = "days"
  BY <1>1, <1>2, <1>5 DEF CameraRows
<1>6. CASE kind = "sub"
  BY <1>1, <1>2, <1>6 DEF CameraRows
<1>7. CASE kind = "delete"
  BY <1>1, <1>2, <1>7 DEF CameraRows
<1>8. CASE kind = "create"
  BY <1>1, <1>8
<1>. QED BY <1>3, <1>4, <1>5, <1>6, <1>7, <1>8 DEF Kinds

\* What the first call of a queue does to the recorders.
LEMMA Answered ==
  ASSUME SyncTypeOK, NEW p \in Callers, Do(p)
  PROVE  LET c == Head(queue[p]) IN
         /\ c \in NvrCalls /\ Range(queue[p]) = {c} \cup Range(Tail(queue[p]))
         /\ queue' = [queue EXCEPT ![p] = Tail(@)] /\ queue' \in [Callers -> Seq(NvrCalls)]
         /\ removing = "none" /\ queue[p] # <<>>
         /\ \/ c.do = "add" /\ AnswerAdd(c)
            \/ c.do = "keep" /\ AnswerKeep(c)
            \/ c.do = "remove" /\ AnswerRemove(c)
         /\ UNCHANGED <<registryVars, passVars, visits, drift, leftover, syncBudget>>
<1>1. queue \in [Callers -> Seq(NvrCalls)] /\ queue[p] # <<>>
  BY DEF SyncTypeOK, Do
<1>2. /\ Head(queue[p]) \in NvrCalls /\ Tail(queue[p]) \in Seq(NvrCalls)
      /\ Range(queue[p]) = {Head(queue[p])} \cup Range(Tail(queue[p]))
  BY <1>1, FirstCall
<1>. QED BY <1>1, <1>2 DEF Do, Popped

LEMMA SyncTypeStep == SyncTypeOK /\ [SyncStep]_syncVars => SyncTypeOK'
<1> SUFFICES ASSUME SyncTypeOK, [SyncStep]_syncVars PROVE SyncTypeOK'
  OBVIOUS
<1>0. Handlers \subseteq Callers /\ Loops \subseteq Callers
  BY DEF Callers
<1>1. ASSUME NEW h \in Handlers, NEW kind \in Kinds, Commit(h, kind) PROVE SyncTypeOK'
  <2>1. reg' \in CameraRows
    BY <1>1, RowChanged DEF Commit, SyncTypeOK
  <2>2. queue' \in [Callers -> Seq(NvrCalls)]
    BY <1>0, <1>1, <2>1, RequestAsks DEF Commit, SyncTypeOK
  <2>3. op' \in [Handlers -> Kinds \cup {"none"}]
    BY <1>1 DEF Commit, SyncTypeOK
  <2>4. clean' \in [Handlers -> BOOLEAN]
    <3>1. InFlight \in BOOLEAN
      BY DEF InFlight
    <3>. QED BY <1>1, <3>1 DEF Commit
  <2>5. drift' \subseteq {"masks", "days"} /\ leftover' \in BOOLEAN
    BY <1>1 DEF Commit, SyncTypeOK
  <2>. QED BY <1>1, <2>1, <2>2, <2>3, <2>4, <2>5 DEF Commit, SyncTypeOK, passVars, nvrVars
<1>2. ASSUME NEW h \in Handlers, Finish(h) PROVE SyncTypeOK'
  BY <1>2 DEF Finish, SyncTypeOK, passVars, nvrVars
<1>3. ASSUME NEW p \in Callers, Do(p) PROVE SyncTypeOK'
  <2> DEFINE c == Head(queue[p])
  <2>1. c \in NvrCalls /\ queue' \in [Callers -> Seq(NvrCalls)]
    BY <1>3, Answered
  <2>2. c.track \in Tracks /\ c.masks \in {0, 1} /\ c.days \in Days \cup {0, SubDays}
    BY <2>1 DEF NvrCalls
  <2> HIDE DEF c
  <2>3. [st |-> "up", masks |-> c.masks] \in NvrWorkers
    BY <2>2 DEF NvrWorkers
  <2>4. /\ worker' \in [Tracks -> NvrWorkers] /\ kept' \in [Tracks -> Days \cup {0, SubDays}]
        /\ removing' \in Tracks \cup {"none"} /\ stray' \subseteq Tracks /\ crossed' \in BOOLEAN
    <3>1. CASE AnswerAdd(c)
      <4>1. UNCHANGED <<removing, stray, crossed>>
        BY <3>1 DEF AnswerAdd
      <4>2. CASE Recording(c.track)
        BY <3>1, <4>1, <4>2 DEF AnswerAdd, SyncTypeOK
      <4>3. CASE ~Recording(c.track)
        <5>1. worker' = [worker EXCEPT ![c.track] = [st |-> "up", masks |-> c.masks]]
              /\ kept' = [kept EXCEPT ![c.track] = c.days]
          BY <3>1, <4>3 DEF AnswerAdd
        <5>2. worker' \in [Tracks -> NvrWorkers]
          BY <2>3, <5>1 DEF SyncTypeOK
        <5>3. kept' \in [Tracks -> Days \cup {0, SubDays}]
          BY <2>2, <5>1 DEF SyncTypeOK
        <5>. QED
          BY <4>1, <5>2, <5>3 DEF SyncTypeOK
      <4>. QED
        BY <4>2, <4>3
    <3>2. CASE AnswerKeep(c)
      BY <2>2, <3>2 DEF AnswerKeep, SyncTypeOK
    <3>3. CASE AnswerRemove(c)
      <4>1. CASE Recording(c.track)
        <5>1. /\ worker' = [worker EXCEPT ![c.track].st = "stopping"] /\ removing' = c.track
              /\ crossed' = (crossed \/ visits[c.track] # "no") /\ UNCHANGED <<kept, stray>>
          BY <3>3, <4>1 DEF AnswerRemove
        <5>2. worker' \in [Tracks -> NvrWorkers]
          BY <2>2, <5>1, StateSet DEF SyncTypeOK
        <5>. QED BY <2>2, <5>1, <5>2 DEF SyncTypeOK
      <4>2. CASE ~Recording(c.track)
        BY <3>3, <4>2 DEF AnswerRemove, SyncTypeOK
      <4>. QED BY <4>1, <4>2
    <3>. QED BY <1>3, <3>1, <3>2, <3>3, Answered DEF c
  <2>. QED BY <1>3, <2>1, <2>4, Answered DEF SyncTypeOK, registryVars, passVars
<1>4. CASE Removed
  BY <1>4 DEF Removed, SyncTypeOK, NoWorker, NvrWorkers, registryVars, passVars, historyVars
<1>5. ASSUME NEW p \in Callers, Miss(p) PROVE SyncTypeOK'
  <2>1. queue' \in [Callers -> Seq(NvrCalls)]
    BY <1>5, FirstCall DEF Miss, Popped, SyncTypeOK
  <2>. QED BY <1>5, <2>1 DEF Miss, SyncTypeOK, passVars, nvrVars
<1>6. ASSUME NEW w \in Loops, ReadRows(w) PROVE SyncTypeOK'
  BY <1>6 DEF ReadRows, SyncTypeOK, registryVars, nvrVars, historyVars
<1>7. ASSUME NEW w \in Loops, Compare(w) PROVE SyncTypeOK'
  <2>1. queue' \in [Callers -> Seq(NvrCalls)]
    <3>1. seen[w] \in CameraRows
      BY DEF SyncTypeOK
    <3>2. Calls(seen[w], "main") \o Calls(seen[w], "sub") \in Seq(NvrCalls)
      BY <3>1, PassAsks
    <3>3. queue' = [queue EXCEPT ![w] = Calls(seen[w], "main") \o Calls(seen[w], "sub")] \/ queue' = queue
      BY <1>7 DEF Compare
    <3>. QED BY <1>0, <3>2, <3>3 DEF SyncTypeOK
  <2>. QED BY <1>7, <2>1 DEF Compare, SyncTypeOK, registryVars, nvrVars, historyVars
<1>8. ASSUME NEW w \in Loops, EndPass(w) PROVE SyncTypeOK'
  BY <1>8 DEF EndPass, SyncTypeOK, registryVars, nvrVars, historyVars
<1>9. ASSUME NEW w \in Loops, CancelPass(w) PROVE SyncTypeOK'
  BY <1>0, <1>9, EmptySeq DEF CancelPass, SyncTypeOK, registryVars, nvrVars, historyVars
<1>10. ASSUME NEW t \in Tracks, WorkerDies(t) PROVE SyncTypeOK'
  BY <1>10, StateSet DEF WorkerDies, SyncTypeOK, registryVars, passVars, historyVars
<1>11. CASE BeginRound
  BY <1>11 DEF BeginRound, SyncTypeOK, registryVars, passVars
<1>12. ASSUME NEW t \in Tracks, Visit(t) PROVE SyncTypeOK'
  BY <1>12, StateSet DEF Visit, SyncTypeOK, registryVars, passVars, historyVars
<1>13. CASE NvrRestart
  <2>1. InFlight \in BOOLEAN
    BY DEF InFlight
  <2>. QED BY <1>13, <2>1 DEF NvrRestart, SyncTypeOK, NoWorker, NvrWorkers, registryVars, passVars
<1>14. CASE UNCHANGED syncVars
  BY <1>14 DEF syncVars, SyncTypeOK, registryVars, passVars, nvrVars, historyVars
<1>. QED
  BY <1>0, <1>1, <1>2, <1>3, <1>4, <1>5, <1>6, <1>7, <1>8, <1>9, <1>10, <1>11, <1>12, <1>13, <1>14
  DEF SyncStep, SyncNext, PassStep, MonitorStep

-----------------------------------------------------------------------------
(* The inductive invariant.                                                  *)

\* Who is not calling has nothing to call.
QuietQueues ==
  /\ \A h \in Handlers : op[h] = "none" => queue[h] = <<>>
  /\ \A w \in Loops : pass[w] # "call" => queue[w] = <<>>

\* A request that met no other is the only one.
Alone == \A h, g \in Handlers : clean[h] /\ op[h] # "none" /\ g # h => op[g] = "none"

\* No change of a setting was lost, or it is being made good.
Sure(s) == s \notin drift \/ \E h \in Handlers : clean[h] /\ op[h] = s

\* Then what is still to be called carries the row's setting, and so does a row
\* that was read.
Suits(c) ==
  /\ Sure("masks") => c.masks = reg.masks
  /\ Sure("days") /\ c.track = "main" => c.days = reg.days
Carried ==
  /\ \A p \in Callers : \A c \in Range(queue[p]) : Suits(c)
  /\ \A w \in Loops : pass[w] = "read" => /\ Sure("masks") => seen[w].masks = reg.masks
                                          /\ Sure("days") => seen[w].days = reg.days

\* What records has the row's setting when no request about it is under way, and
\* while one is, what its calls have dealt with has it.
MasksKept ==
  /\ reg.present /\ Quiet("masks") /\ "masks" \notin drift =>
       \A t \in Tracks : Recording(t) => worker[t].masks = reg.masks
  /\ \A h \in Handlers : op[h] = "masks" /\ Sure("masks") =>
       \A t \in Tracks : Recording(t) /\ removing # t /\ ~AsksFor(queue[h], "remove", t)
                           => worker[t].masks = reg.masks
DaysKept ==
  /\ reg.present /\ Quiet("days") /\ "days" \notin drift /\ Recording("main") => kept["main"] = reg.days
  /\ \A h \in Handlers : op[h] = "days" /\ Sure("days") /\ Recording("main")
       /\ ~AsksFor(queue[h], "keep", "main") => kept["main"] = reg.days

\* A worker that is being stopped is the one whose removal is under way, and a
\* round of the monitor that still has to visit it has met the removal.
RoundsMet ==
  /\ \A t \in Tracks : worker[t].st = "stopping" <=> removing = t
  /\ \A t \in Tracks : visits[t] = "removed" \/ (removing = t /\ visits[t] # "no") => crossed
  /\ stray # {} => crossed

\* Of a camera that is gone, unless its removal was lost or overtaken, only the
\* removal has calls to make, and what still records is what it has to remove.
Teardown ==
  ~reg.present /\ ~leftover =>
    /\ \A w \in Loops : queue[w] = <<>> /\ (pass[w] = "read" => ~seen[w].present)
    /\ \A h \in Handlers : queue[h] # <<>> => op[h] = "delete"
    /\ \A p \in Callers : \A c \in Range(queue[p]) : c.do = "remove"
    /\ removing # "none" => \E h \in Handlers : op[h] = "delete"
    /\ \A t \in Tracks : Recording(t) /\ removing # t =>
         \E h \in Handlers : op[h] = "delete" /\ AsksFor(queue[h], "remove", t)

SyncInv == QuietQueues /\ Alone /\ Carried /\ MasksKept /\ DaysKept /\ RoundsMet /\ Teardown

LEMMA SyncInitial == SyncInit => SyncTypeOK /\ SyncInv
<1> SUFFICES ASSUME SyncInit PROVE SyncTypeOK /\ SyncInv
  OBVIOUS
<1>1. Longest \in Days
  BY SyncAssumption DEF Longest
<1>2. SyncTypeOK
  BY <1>1, EmptySeq DEF SyncInit, SyncTypeOK, CameraRows, NoWorker, NvrWorkers, Tracks
<1>3. /\ \A h \in Handlers : op[h] = "none"
      /\ \A w \in Loops : pass[w] = "idle"
      /\ \A p \in Callers : queue[p] = <<>> /\ Range(queue[p]) = {}
      /\ \A t \in Tracks : ~Recording(t) /\ worker[t].st = "none" /\ visits[t] = "no"
      /\ removing = "none" /\ stray = {}
  BY Short DEF SyncInit, Recording, NoWorker
<1>4. Handlers \subseteq Callers /\ Loops \subseteq Callers /\ "main" \in Tracks /\ "none" \notin Tracks
  BY DEF Callers, Tracks
<1>5. QuietQueues /\ Alone /\ Carried
  BY <1>3, <1>4 DEF QuietQueues, Alone, Carried
<1>6. MasksKept /\ DaysKept
  BY <1>3, <1>4 DEF MasksKept, DaysKept
<1>7. RoundsMet
  BY <1>3, <1>4 DEF RoundsMet
<1>8. Teardown
  BY <1>3, <1>4 DEF Teardown
<1>. QED BY <1>2, <1>5, <1>6, <1>7, <1>8 DEF SyncInv

\* While nobody is calling, there is nothing to call.
LEMMA IdleQueues ==
  ASSUME QuietQueues, ~InFlight
  PROVE  /\ \A p \in Callers : queue[p] = <<>>
         /\ \A h \in Handlers : op[h] = "none"
         /\ \A w \in Loops : pass[w] = "idle"
  BY DEF QuietQueues, InFlight, Callers

\* A step that makes no new call leaves the others.
LEMMA QueueShrinks ==
  ASSUME SyncTypeOK, NEW p \in Callers, Do(p) \/ Miss(p) \/ (p \in Loops /\ CancelPass(p))
  PROVE  /\ \A q \in Callers : Range(queue'[q]) \subseteq Range(queue[q])
         /\ \A q \in Callers : queue[q] = <<>> => queue'[q] = <<>>
         /\ \A q \in Callers \ {p} : queue'[q] = queue[q]
<1>1. CASE Do(p) \/ Miss(p)
  <2>1. queue' = [queue EXCEPT ![p] = Tail(@)] /\ queue[p] # <<>>
    BY <1>1 DEF Do, Miss, Popped
  <2>2. Range(queue[p]) = {Head(queue[p])} \cup Range(Tail(queue[p]))
    BY <2>1, FirstCall DEF SyncTypeOK
  <2>. QED BY <2>1, <2>2 DEF SyncTypeOK
<1>2. CASE p \in Loops /\ CancelPass(p)
  <2>1. queue' = [queue EXCEPT ![p] = <<>>]
    BY <1>2 DEF CancelPass
  <2>. QED BY <2>1, Short DEF SyncTypeOK
<1>. QED BY <1>1, <1>2

\* Who calls and who is alone.
LEMMA QueuesStep == SyncTypeOK /\ QuietQueues /\ [SyncStep]_syncVars => QuietQueues'
<1> SUFFICES ASSUME SyncTypeOK, QuietQueues, [SyncStep]_syncVars PROVE QuietQueues'
  OBVIOUS
<1>0. Handlers \subseteq Callers /\ Loops \subseteq Callers /\ Handlers \cap Loops = {}
  BY SyncAssumption DEF Callers
<1>1. ASSUME NEW h \in Handlers, NEW kind \in Kinds, Commit(h, kind) PROVE QuietQueues'
  BY <1>0, <1>1 DEF Commit, QuietQueues, SyncTypeOK, Kinds, passVars
<1>2. ASSUME NEW h \in Handlers, Finish(h) PROVE QuietQueues'
  BY <1>2 DEF Finish, QuietQueues, SyncTypeOK, passVars
<1>3. ASSUME NEW p \in Callers, Do(p) PROVE QuietQueues'
  BY <1>0, <1>3, QueueShrinks DEF Do, QuietQueues, registryVars, passVars
<1>5. ASSUME NEW p \in Callers, Miss(p) PROVE QuietQueues'
  BY <1>0, <1>5, QueueShrinks DEF Miss, QuietQueues, passVars
<1>6. ASSUME NEW w \in Loops, ReadRows(w) PROVE QuietQueues'
  BY <1>0, <1>6 DEF ReadRows, QuietQueues, SyncTypeOK, registryVars
<1>7. ASSUME NEW w \in Loops, Compare(w) PROVE QuietQueues'
  BY <1>0, <1>7 DEF Compare, QuietQueues, SyncTypeOK, registryVars
<1>8. ASSUME NEW w \in Loops, EndPass(w) PROVE QuietQueues'
  BY <1>0, <1>8 DEF EndPass, QuietQueues, SyncTypeOK, registryVars
<1>9. ASSUME NEW w \in Loops, CancelPass(w) PROVE QuietQueues'
  BY <1>0, <1>9 DEF CancelPass, QuietQueues, SyncTypeOK, registryVars
<1>10. CASE UNCHANGED <<op, pass, queue>>
  BY <1>10 DEF QuietQueues
<1>11. Removed \/ MonitorStep \/ NvrRestart \/ (\E t \in Tracks : WorkerDies(t)) \/ UNCHANGED syncVars
         => UNCHANGED <<op, pass, queue>>
  BY DEF Removed, MonitorStep, BeginRound, Visit, NvrRestart, WorkerDies, syncVars, registryVars, passVars
<1>. QED
  BY <1>0, <1>1, <1>2, <1>3, <1>5, <1>6, <1>7, <1>8, <1>9, <1>10, <1>11 DEF SyncStep, SyncNext, PassStep

LEMMA AloneStep == SyncTypeOK /\ Alone /\ [SyncStep]_syncVars => Alone'
<1> SUFFICES ASSUME SyncTypeOK, Alone, [SyncStep]_syncVars PROVE Alone'
  OBVIOUS
<1>1. ASSUME NEW h \in Handlers, NEW kind \in Kinds, Commit(h, kind) PROVE Alone'
  BY <1>1 DEF Commit, Alone, SyncTypeOK, InFlight
<1>2. ASSUME NEW h \in Handlers, Finish(h) PROVE Alone'
  BY <1>2 DEF Finish, Alone, SyncTypeOK
<1>3. ASSUME NEW p \in Callers, Miss(p) PROVE Alone'
  BY <1>3 DEF Miss, Alone, SyncTypeOK
<1>4. CASE UNCHANGED <<op, clean>>
  BY <1>4 DEF Alone
<1>5. ASSUME NEW w \in Loops, PassStep(w) \/ CancelPass(w) PROVE UNCHANGED <<op, clean>>
  BY <1>5 DEF PassStep, ReadRows, Compare, Do, EndPass, CancelPass, registryVars
<1>6. ASSUME NEW h \in Handlers, Do(h) PROVE UNCHANGED <<op, clean>>
  BY <1>6 DEF Do, registryVars
<1>7. Removed \/ MonitorStep \/ NvrRestart \/ (\E t \in Tracks : WorkerDies(t)) \/ UNCHANGED syncVars
         => UNCHANGED <<op, clean>>
  BY DEF Removed, MonitorStep, BeginRound, Visit, NvrRestart, WorkerDies, syncVars, registryVars
<1>. QED BY <1>1, <1>2, <1>3, <1>4, <1>5, <1>6, <1>7 DEF SyncStep, SyncNext, Callers

\* A change that leaves a setting sure is alone, or is not about it.
LEMMA CommitSure ==
  ASSUME SyncTypeOK, NEW h \in Handlers, NEW kind \in Kinds, Commit(h, kind),
         NEW s \in {"masks", "days"}, Sure(s)'
  PROVE  \/ ~InFlight /\ (kind = "create" => s \in drift \/ ~leftover)
         \/ kind \notin {s, "create"} /\ s \notin drift
<1>1. op' = [op EXCEPT ![h] = kind] /\ op \in [Handlers -> Kinds \cup {"none"}]
      /\ clean' = [g \in Handlers |-> IF g = h THEN ~InFlight ELSE FALSE]
      /\ drift' = drift \cup {d \in {"masks", "days"} :
                                \/ d = kind /\ InFlight
                                \/ kind = "create" /\ (InFlight \/ leftover)}
  BY DEF Commit, SyncTypeOK
<1>2. CASE s \notin drift'
  BY <1>1, <1>2
<1>3. ASSUME NEW g \in Handlers, clean'[g], op'[g] = s
      PROVE  kind = s /\ ~InFlight
  BY <1>1, <1>3
<1>. QED BY <1>2, <1>3 DEF Sure, Kinds

\* The end of a request makes nothing sure that was not.
LEMMA FinishSure ==
  ASSUME SyncTypeOK, NEW h \in Handlers, Finish(h), NEW s, Sure(s)'
  PROVE  Sure(s)
  BY DEF Sure, Finish, SyncTypeOK

\* Nor does a call that fails.
LEMMA MissSure ==
  ASSUME SyncTypeOK, NEW p \in Callers, Miss(p), NEW s, Sure(s)'
  PROVE  Sure(s)
  BY DEF Sure, Miss, SyncTypeOK

\* What the queues hold and what was read is not told apart by a setting that is
\* sure only if it was before.
LEMMA CarriedStays ==
  ASSUME Carried, reg' = reg, Sure("masks")' => Sure("masks"), Sure("days")' => Sure("days"),
         \A p \in Callers : Range(queue'[p]) \subseteq Range(queue[p]),
         \A w \in Loops : pass'[w] = "read" => pass[w] = "read" /\ seen'[w] = seen[w]
  PROVE  Carried'
  BY DEF Carried, Suits

LEMMA CarriedStep == SyncTypeOK /\ QuietQueues /\ Carried /\ [SyncStep]_syncVars => Carried'
<1> SUFFICES ASSUME SyncTypeOK, QuietQueues, Carried, [SyncStep]_syncVars PROVE Carried'
  OBVIOUS
<1>0. Handlers \subseteq Callers /\ Loops \subseteq Callers /\ Handlers \cap Loops = {}
  BY SyncAssumption DEF Callers
<1>1. ASSUME NEW h \in Handlers, NEW kind \in Kinds, Commit(h, kind) PROVE Carried'
  <2>1. /\ reg' \in CameraRows
        /\ kind \notin {"masks", "create"} => reg'.masks = reg.masks
        /\ kind \notin {"days", "create"} => reg'.days = reg.days
    BY <1>1, RowChanged DEF Commit, SyncTypeOK
  <2>2. \A c \in Range(queue'[h]) : c.masks = reg'.masks /\ (c.track = "main" => c.days = reg'.days)
    BY <1>0, <1>1, <2>1, RequestAsks DEF Commit, SyncTypeOK
  <2>3. \A p \in Callers \ {h} : queue'[p] = queue[p]
    BY <1>1 DEF Commit, SyncTypeOK
  <2>4. pass' = pass /\ seen' = seen
    BY <1>1 DEF Commit, passVars
  <2>5. CASE ~InFlight
    <3>1. \A p \in Callers \ {h} : Range(queue'[p]) = {}
      BY <2>3, <2>5, IdleQueues, Short
    <3>2. \A w \in Loops : pass'[w] # "read"
      BY <2>4, <2>5, IdleQueues
    <3>. QED BY <2>2, <3>1, <3>2 DEF Carried, Suits
  <2>6. CASE InFlight
    <3>1. Sure("masks")' => Sure("masks") /\ reg'.masks = reg.masks
      BY <1>1, <2>1, <2>6, CommitSure DEF Sure
    <3>2. Sure("days")' => Sure("days") /\ reg'.days = reg.days
      BY <1>1, <2>1, <2>6, CommitSure DEF Sure
    <3>3. ASSUME NEW p \in Callers, NEW c \in Range(queue'[p]) PROVE Suits(c)'
      <4>1. CASE p = h
        BY <2>2, <3>3, <4>1 DEF Suits
      <4>2. CASE p # h
        BY <2>3, <3>1, <3>2, <3>3, <4>2 DEF Carried, Suits
      <4>. QED BY <4>1, <4>2
    <3>. QED BY <2>4, <3>1, <3>2, <3>3 DEF Carried
  <2>. QED BY <2>5, <2>6
<1>2. ASSUME NEW h \in Handlers, Finish(h) PROVE Carried'
  BY <1>2, FinishSure, CarriedStays DEF Finish, passVars
<1>3. ASSUME NEW p \in Callers, Do(p) PROVE Carried'
  BY <1>3, QueueShrinks, CarriedStays DEF Do, Sure, registryVars, passVars
<1>5. ASSUME NEW p \in Callers, Miss(p) PROVE Carried'
  BY <1>5, QueueShrinks, MissSure, CarriedStays DEF Miss, passVars
<1>6. ASSUME NEW w \in Loops, ReadRows(w) PROVE Carried'
  BY <1>0, <1>6 DEF ReadRows, Carried, Suits, Sure, SyncTypeOK, registryVars, historyVars
<1>7. ASSUME NEW w \in Loops, Compare(w) PROVE Carried'
  <2>1. seen[w] \in CameraRows
    BY DEF SyncTypeOK
  <2>2. \A c \in Range(queue'[w]) : Suits(c)
    <3>1. CASE queue' = queue
      BY <1>0, <3>1 DEF Carried
    <3>2. CASE queue' = [queue EXCEPT ![w] = Calls(seen[w], "main") \o Calls(seen[w], "sub")]
      <4>1. queue'[w] = Calls(seen[w], "main") \o Calls(seen[w], "sub")
        BY <1>0, <3>2 DEF SyncTypeOK
      <4>2. \A c \in Range(queue'[w]) : c.masks = seen[w].masks /\ (c.track = "main" => c.days = seen[w].days)
        BY <2>1, <4>1, PassAsks
      <4>3. pass[w] = "read"
        BY <1>7 DEF Compare
      <4>. QED BY <4>2, <4>3 DEF Carried, Suits
    <3>. QED BY <1>7, <3>1, <3>2 DEF Compare
  <2>3. \A p \in Callers \ {w} : queue'[p] = queue[p]
    BY <1>7 DEF Compare, SyncTypeOK
  <2>4. UNCHANGED <<reg, op, clean, drift, seen>> /\ \A v \in Loops : pass'[v] = "read" => pass[v] = "read"
    BY <1>7 DEF Compare, SyncTypeOK, registryVars, historyVars
  <2>. QED BY <2>2, <2>3, <2>4 DEF Carried, Suits, Sure
<1>8. ASSUME NEW w \in Loops, EndPass(w) PROVE Carried'
  BY <1>8, CarriedStays DEF EndPass, Sure, SyncTypeOK, registryVars, historyVars
<1>9. ASSUME NEW w \in Loops, CancelPass(w) PROVE Carried'
  BY <1>0, <1>9, QueueShrinks, CarriedStays DEF CancelPass, Sure, SyncTypeOK, registryVars, historyVars
<1>10. CASE NvrRestart
  <2>1. CASE InFlight
    BY <1>10, <2>1, CarriedStays DEF NvrRestart, Sure, registryVars, passVars
  <2>2. CASE ~InFlight
    BY <1>10, <2>2, IdleQueues, Short DEF NvrRestart, Carried, passVars
  <2>. QED BY <2>1, <2>2
<1>11. CASE Removed \/ MonitorStep \/ (\E t \in Tracks : WorkerDies(t)) \/ UNCHANGED syncVars
  <2>1. UNCHANGED <<reg, op, clean, drift, queue, pass, seen>>
    BY <1>11 DEF Removed, MonitorStep, BeginRound, Visit, WorkerDies, syncVars, registryVars, passVars, historyVars
  <2>. QED BY <2>1, CarriedStays DEF Sure
<1>. QED
  BY <1>0, <1>1, <1>2, <1>3, <1>5, <1>6, <1>7, <1>8, <1>9, <1>10, <1>11 DEF SyncStep, SyncNext, PassStep

\* What the answer to a call may do to a recorder and a retention.
LEMMA AnswerMoves ==
  ASSUME SyncTypeOK, NEW p \in Callers, Do(p), NEW t \in Tracks
  PROVE  /\ Recording(t)' => \/ Recording(t) /\ worker'[t].masks = worker[t].masks /\ kept'[t] = kept[t]
                             \/ \E c \in Range(queue[p]) : c.track = t /\ kept'[t] = c.days /\ Recording(t)
                                                           /\ worker'[t].masks = worker[t].masks
                             \/ \E c \in Range(queue[p]) : c.track = t /\ kept'[t] = c.days
                                                           /\ worker'[t].masks = c.masks
         /\ AsksFor(queue[p], "remove", t) /\ ~AsksFor(queue'[p], "remove", t) => ~Recording(t)' \/ removing' = t
         /\ AsksFor(queue[p], "keep", t) /\ ~AsksFor(queue'[p], "keep", t) =>
              \E c \in Range(queue[p]) : c.track = t /\ kept'[t] = c.days
         /\ removing = "none" /\ (removing' = "none" \/ ~Recording(t) => removing' # t)
<1> DEFINE c == Head(queue[p])
<1>1. /\ c \in NvrCalls /\ Range(queue[p]) = {c} \cup Range(Tail(queue[p])) /\ queue'[p] = Tail(queue[p])
      /\ removing = "none"
      /\ \/ c.do = "add" /\ AnswerAdd(c)
         \/ c.do = "keep" /\ AnswerKeep(c)
         \/ c.do = "remove" /\ AnswerRemove(c)
  BY Answered DEF SyncTypeOK
<1>2. c.track \in Tracks /\ worker \in [Tracks -> NvrWorkers] /\ kept \in [Tracks -> Days \cup {0, SubDays}]
  BY <1>1 DEF NvrCalls, SyncTypeOK
<1>3. \A do : AsksFor(queue[p], do, t) /\ ~AsksFor(queue'[p], do, t) => c.do = do /\ c.track = t
  BY <1>1 DEF AsksFor
<1> HIDE DEF c
<1>. "none" \notin Tracks
  BY DEF Tracks
<1>4. CASE c.do = "add" /\ AnswerAdd(c)
  <2>1. CASE Recording(c.track)
    BY <1>1, <1>3, <1>4, <2>1 DEF AnswerAdd, Recording
  <2>2. CASE ~Recording(c.track)
    <3>1. /\ worker' = [worker EXCEPT ![c.track] = [st |-> "up", masks |-> c.masks]]
          /\ kept' = [kept EXCEPT ![c.track] = c.days] /\ removing' = removing
      BY <1>4, <2>2 DEF AnswerAdd
    <3>2. CASE t = c.track
      BY <1>1, <1>2, <1>3, <1>4, <3>1, <3>2
    <3>3. CASE t # c.track
      BY <1>1, <1>2, <1>3, <1>4, <3>1, <3>3 DEF Recording
    <3>. QED BY <3>2, <3>3
  <2>. QED BY <2>1, <2>2
<1>5. CASE c.do = "keep" /\ AnswerKeep(c)
  <2>1. kept' = [kept EXCEPT ![c.track] = c.days] /\ worker' = worker /\ removing' = removing
    BY <1>5 DEF AnswerKeep
  <2>2. CASE t = c.track
    BY <1>1, <1>2, <1>3, <1>5, <2>1, <2>2 DEF Recording
  <2>3. CASE t # c.track
    BY <1>1, <1>2, <1>3, <1>5, <2>1, <2>3 DEF Recording
  <2>. QED BY <2>2, <2>3
<1>6. CASE c.do = "remove" /\ AnswerRemove(c)
  <2>1. CASE Recording(c.track)
    <3>1. worker' = [worker EXCEPT ![c.track].st = "stopping"] /\ removing' = c.track /\ kept' = kept
      BY <1>6, <2>1 DEF AnswerRemove
    <3>2. /\ \A u \in Tracks : worker'[u].masks = worker[u].masks
          /\ \A u \in Tracks : worker'[u].st = IF u = c.track THEN "stopping" ELSE worker[u].st
      BY <1>2, <3>1, StateSet
    <3>. QED BY <1>1, <1>2, <1>3, <1>6, <2>1, <3>1, <3>2 DEF Recording
  <2>2. CASE ~Recording(c.track)
    BY <1>1, <1>2, <1>3, <1>6, <2>2 DEF AnswerRemove, Recording
  <2>. QED BY <2>1, <2>2
<1>. QED BY <1>1, <1>4, <1>5, <1>6

\* Masks and retentions that a step does not touch.
LEMMA KeptStays ==
  ASSUME MasksKept, DaysKept, UNCHANGED <<reg, op, clean, drift>>,
         \A t \in Tracks : Recording(t)' /\ removing' # t =>
            Recording(t) /\ removing # t /\ worker'[t].masks = worker[t].masks,
         \A t \in Tracks : Recording(t)' => Recording(t) /\ worker'[t].masks = worker[t].masks /\ kept'[t] = kept[t],
         \A h \in Handlers : queue'[h] = queue[h]
  PROVE  MasksKept' /\ DaysKept'
<1>1. "main" \in Tracks
  BY DEF Tracks
<1>2. MasksKept'
  BY DEF MasksKept, Sure, Quiet
<1>3. DaysKept'
  BY <1>1 DEF DaysKept, Sure, Quiet
<1>. QED BY <1>2, <1>3

\* A change keeps the settings of what records: a new camera begins with nothing
\* that records, and a change of a setting has its calls before it.
LEMMA KeptCommit ==
  ASSUME SyncTypeOK, SyncInv, NEW h \in Handlers, NEW kind \in Kinds, Commit(h, kind)
  PROVE  MasksKept' /\ DaysKept'
<1>1. /\ reg' \in CameraRows
      /\ kind \notin {"masks", "create"} => reg'.masks = reg.masks
      /\ kind \notin {"days", "create"} => reg'.days = reg.days
      /\ kind \notin {"delete", "create"} => reg'.present = reg.present
      /\ kind = "delete" => ~reg'.present
  BY RowChanged DEF Commit, SyncTypeOK
<1>2. /\ kind = "masks" => \A t \in Tracks : AsksFor(queue'[h], "remove", t)
      /\ kind = "days" => AsksFor(queue'[h], "keep", "main")
  BY <1>1, RequestAsks DEF Commit, SyncTypeOK, Callers
<1>3. /\ \A g \in Handlers \ {h} : queue'[g] = queue[g] /\ op'[g] = op[g]
      /\ op'[h] = kind /\ op[h] = "none" /\ kind # "none"
      /\ UNCHANGED <<worker, kept, removing>>
      /\ reg.present = (kind # "create")
      /\ drift \subseteq drift' /\ (kind = "create" /\ (InFlight \/ leftover) => {"masks", "days"} \subseteq drift')
  BY DEF Commit, SyncTypeOK, nvrVars, Kinds
<1>4. \A t \in Tracks : Recording(t)' = Recording(t)
  BY <1>3 DEF Recording
<1>5. kind = "create" /\ ~InFlight /\ ~leftover => \A t \in Tracks : ~Recording(t)
  <2>1. SUFFICES ASSUME kind = "create", ~InFlight, ~leftover, NEW t \in Tracks, Recording(t) PROVE FALSE
    OBVIOUS
  <2>2. \A g \in Handlers : op[g] # "delete"
    BY <2>1 DEF InFlight
  <2>3. removing = "none" /\ t # "none"
    BY <1>3, <2>1, <2>2 DEF SyncInv, Teardown, Tracks
  <2>. QED BY <1>3, <2>1, <2>2, <2>3 DEF SyncInv, Teardown
<1>6. QuietQueues
  BY DEF SyncInv
<1>. "main" \in Tracks
  BY DEF Tracks
<1>7. MasksKept'
  <2>1. ASSUME reg'.present, \A g \in Handlers : op'[g] # "masks", "masks" \notin drift',
               NEW t \in Tracks, Recording(t)
        PROVE  worker[t].masks = reg'.masks
    <3>1. kind # "masks" /\ kind # "create"
      BY <1>3, <1>5, <2>1
    <3>2. \A g \in Handlers : op[g] # "masks"
      BY <1>3, <2>1
    <3>. QED BY <1>1, <1>3, <2>1, <3>1, <3>2 DEF SyncInv, MasksKept, Quiet
  <2>2. ASSUME NEW g \in Handlers, op'[g] = "masks", Sure("masks")',
               NEW t \in Tracks, Recording(t), removing # t, ~AsksFor(queue'[g], "remove", t)
        PROVE  worker[t].masks = reg'.masks
    <3>1. g # h
      BY <1>2, <1>3, <2>2
    <3>2. op[g] = "masks" /\ InFlight /\ queue'[g] = queue[g]
      BY <1>3, <2>2, <3>1 DEF InFlight
    <3>3. kind \notin {"masks", "create"} /\ "masks" \notin drift
      BY <2>2, <3>2, CommitSure
    <3>. QED BY <1>1, <2>2, <3>2, <3>3 DEF SyncInv, MasksKept, Sure
  <2>. QED BY <1>3, <1>4, <2>1, <2>2 DEF MasksKept, Quiet
<1>8. DaysKept'
  <2>1. ASSUME reg'.present, \A g \in Handlers : op'[g] # "days", "days" \notin drift', Recording("main")
        PROVE  kept["main"] = reg'.days
    <3>1. kind # "days" /\ kind # "create"
      BY <1>3, <1>5, <2>1
    <3>2. \A g \in Handlers : op[g] # "days"
      BY <1>3, <2>1
    <3>. QED BY <1>1, <1>3, <2>1, <3>1, <3>2 DEF SyncInv, DaysKept, Quiet
  <2>2. ASSUME NEW g \in Handlers, op'[g] = "days", Sure("days")', Recording("main"),
               ~AsksFor(queue'[g], "keep", "main")
        PROVE  kept["main"] = reg'.days
    <3>1. g # h
      BY <1>2, <1>3, <2>2
    <3>2. op[g] = "days" /\ InFlight /\ queue'[g] = queue[g]
      BY <1>3, <2>2, <3>1 DEF InFlight
    <3>3. kind \notin {"days", "create"} /\ "days" \notin drift
      BY <2>2, <3>2, CommitSure
    <3>. QED BY <1>1, <2>2, <3>2, <3>3 DEF SyncInv, DaysKept, Sure
  <2>. QED BY <1>3, <1>4, <2>1, <2>2 DEF DaysKept, Quiet
<1>. QED BY <1>7, <1>8

\* A request that ends has dealt with every track.
LEMMA KeptFinish ==
  ASSUME SyncTypeOK, SyncInv, NEW h \in Handlers, Finish(h)
  PROVE  MasksKept' /\ DaysKept'
<1>1. /\ queue[h] = <<>> /\ removing = "none"
      /\ \A g \in Handlers : op'[g] = IF g = h THEN "none" ELSE op[g]
      /\ UNCHANGED <<reg, clean, queue, worker, kept, removing>>
      /\ drift' = IF clean[h] THEN drift \ {op[h]} ELSE drift
  BY DEF Finish, SyncTypeOK, nvrVars
<1>2. \A do, t : ~AsksFor(queue[h], do, t)
  BY <1>1, Short DEF AsksFor
<1>3. \A s \in {"masks", "days"} : s \notin drift' => Sure(s) \/ op[h] = s
  BY <1>1 DEF Sure
<1>4. \A s \in {"masks", "days"} : s \notin drift' => Sure(s)
  BY <1>1 DEF Sure
<1>5. \A s : Sure(s)' => Sure(s)
  BY FinishSure
<1>. "main" \in Tracks /\ "none" \notin Tracks
  BY DEF Tracks
<1>6. MasksKept'
  <2>1. ASSUME reg.present, \A g \in Handlers : op'[g] # "masks", "masks" \notin drift',
               NEW t \in Tracks, Recording(t)
        PROVE  worker[t].masks = reg.masks
    <3>1. CASE op[h] = "masks"
      BY <1>1, <1>2, <1>4, <2>1, <3>1 DEF SyncInv, MasksKept
    <3>2. CASE op[h] # "masks"
      BY <1>1, <2>1, <3>2 DEF SyncInv, MasksKept, Quiet
    <3>. QED BY <3>1, <3>2
  <2>2. ASSUME NEW g \in Handlers, op'[g] = "masks", Sure("masks")',
               NEW t \in Tracks, Recording(t), removing # t, ~AsksFor(queue[g], "remove", t)
        PROVE  worker[t].masks = reg.masks
    BY <1>1, <1>5, <2>2 DEF SyncInv, MasksKept
  <2>. QED BY <1>1, <2>1, <2>2 DEF MasksKept, Quiet, Recording
<1>7. DaysKept'
  <2>1. ASSUME reg.present, \A g \in Handlers : op'[g] # "days", "days" \notin drift', Recording("main")
        PROVE  kept["main"] = reg.days
    <3>1. CASE op[h] = "days"
      BY <1>1, <1>2, <1>4, <2>1, <3>1 DEF SyncInv, DaysKept
    <3>2. CASE op[h] # "days"
      BY <1>1, <2>1, <3>2 DEF SyncInv, DaysKept, Quiet
    <3>. QED BY <3>1, <3>2
  <2>2. ASSUME NEW g \in Handlers, op'[g] = "days", Sure("days")', Recording("main"),
               ~AsksFor(queue[g], "keep", "main")
        PROVE  kept["main"] = reg.days
    BY <1>1, <1>5, <2>2 DEF SyncInv, DaysKept
  <2>. QED BY <1>1, <2>1, <2>2 DEF DaysKept, Quiet, Recording
<1>. QED BY <1>6, <1>7

\* What is started has the row's settings, and a request's removal of a track
\* is under way or leaves nothing that records.
LEMMA KeptDo ==
  ASSUME SyncTypeOK, SyncInv, NEW p \in Callers, Do(p)
  PROVE  MasksKept' /\ DaysKept'
<1>1. UNCHANGED <<reg, op, clean, drift>> /\ \A q \in Callers \ {p} : queue'[q] = queue[q]
  BY QueueShrinks DEF Do, registryVars
<1>2. \A c \in Range(queue[p]) : Suits(c)
  BY DEF SyncInv, Carried
<1>3. Handlers \subseteq Callers /\ "main" \in Tracks
  BY DEF Callers, Tracks
<1>4. \A s : Sure(s)' = Sure(s)
  BY <1>1 DEF Sure
<1>5. "masks" \notin drift => Sure("masks")
  BY DEF Sure
<1>6. "days" \notin drift => Sure("days")
  BY DEF Sure
<1>7. MasksKept'
  <2>1. ASSUME reg.present, Quiet("masks"), "masks" \notin drift, NEW t \in Tracks, Recording(t)'
        PROVE  worker'[t].masks = reg.masks
    BY <1>2, <1>5, <2>1, AnswerMoves DEF SyncInv, MasksKept, Suits
  <2>2. ASSUME NEW g \in Handlers, op[g] = "masks", Sure("masks"),
               NEW t \in Tracks, Recording(t)', removing' # t, ~AsksFor(queue'[g], "remove", t)
        PROVE  worker'[t].masks = reg.masks
    <3>1. ~AsksFor(queue[g], "remove", t)
      BY <1>1, <1>3, <2>2, AnswerMoves
    <3>2. removing # t
      BY AnswerMoves DEF Tracks
    <3>. QED BY <1>2, <2>2, <3>1, <3>2, AnswerMoves DEF SyncInv, MasksKept, Suits
  <2>. QED BY <1>1, <1>4, <2>1, <2>2 DEF MasksKept, Quiet
<1>8. DaysKept'
  <2>1. ASSUME reg.present, Quiet("days"), "days" \notin drift, Recording("main")'
        PROVE  kept'["main"] = reg.days
    BY <1>2, <1>3, <1>6, <2>1, AnswerMoves DEF SyncInv, DaysKept, Suits
  <2>2. ASSUME NEW g \in Handlers, op[g] = "days", Sure("days"), Recording("main")',
               ~AsksFor(queue'[g], "keep", "main")
        PROVE  kept'["main"] = reg.days
    <3>1. CASE AsksFor(queue[g], "keep", "main")
      <4>1. g = p
        BY <1>1, <1>3, <2>2, <3>1
      <4>2. PICK c \in Range(queue[p]) : c.track = "main" /\ kept'["main"] = c.days
        BY <1>3, <2>2, <3>1, <4>1, AnswerMoves
      <4>. QED BY <1>2, <2>2, <4>2 DEF Suits
    <3>2. CASE ~AsksFor(queue[g], "keep", "main")
      BY <1>2, <1>3, <2>2, <3>2, AnswerMoves DEF SyncInv, DaysKept, Suits
    <3>. QED BY <3>1, <3>2
  <2>. QED BY <1>1, <1>4, <2>1, <2>2 DEF DaysKept, Quiet
<1>. QED BY <1>7, <1>8

\* A request whose call failed is unsure of its setting.
LEMMA KeptMiss ==
  ASSUME SyncTypeOK, SyncInv, NEW p \in Callers, Miss(p)
  PROVE  MasksKept' /\ DaysKept'
<1>1. /\ UNCHANGED <<reg, op, worker, kept, removing>> /\ drift \subseteq drift'
      /\ \A q \in Callers \ {p} : queue'[q] = queue[q]
  BY QueueShrinks DEF Miss, nvrVars
<1>2. \A s : Sure(s)' => Sure(s)
  BY MissSure
<1>3. ASSUME NEW g \in Handlers, NEW s \in {"masks", "days"}, op[g] = s, Sure(s)' PROVE queue'[g] = queue[g]
  <2>1. SUFFICES ASSUME g = p PROVE FALSE
    BY <1>1 DEF Callers
  <2>2. s \in drift' /\ clean' = [clean EXCEPT ![g] = FALSE]
    BY <1>3, <2>1 DEF Miss
  <2>3. PICK f \in Handlers : clean'[f] /\ op[f] = s
    BY <1>1, <1>3, <2>2 DEF Sure
  <2>4. f # g /\ clean[f]
    BY <2>2, <2>3 DEF SyncTypeOK
  <2>. QED BY <1>3, <2>3, <2>4 DEF SyncInv, Alone
<1>4. MasksKept'
  BY <1>1, <1>2, <1>3 DEF SyncInv, MasksKept, Quiet, Recording
<1>5. DaysKept'
  BY <1>1, <1>2, <1>3 DEF SyncInv, DaysKept, Quiet, Recording
<1>. QED BY <1>4, <1>5

LEMMA KeptStep == SyncTypeOK /\ SyncInv /\ [SyncStep]_syncVars => MasksKept' /\ DaysKept'
<1> SUFFICES ASSUME SyncTypeOK, SyncInv, [SyncStep]_syncVars PROVE MasksKept' /\ DaysKept'
  OBVIOUS
<1>0. /\ Handlers \subseteq Callers /\ Loops \subseteq Callers /\ \A w \in Loops : w \notin Handlers
      /\ "none" \notin Tracks /\ MasksKept /\ DaysKept
  BY SyncAssumption DEF Callers, Tracks, SyncInv
<1>1. CASE Removed
  <2>1. /\ UNCHANGED <<reg, op, clean, drift, queue, kept>> /\ removing \in Tracks
        /\ worker' = [worker EXCEPT ![removing] = NoWorker] /\ worker \in [Tracks -> NvrWorkers]
    BY <1>1 DEF Removed, registryVars, historyVars, SyncTypeOK
  <2>2. \A t \in Tracks : Recording(t)' => Recording(t) /\ removing # t /\ worker'[t].masks = worker[t].masks
    BY <2>1 DEF Recording, NoWorker
  <2>. QED BY <1>0, <2>1, <2>2, KeptStays
<1>2. ASSUME NEW w \in Loops, ReadRows(w) \/ Compare(w) \/ EndPass(w) \/ CancelPass(w)
      PROVE MasksKept' /\ DaysKept'
  <2>1. \A h \in Handlers : queue'[h] = queue[h]
    BY <1>0, <1>2 DEF ReadRows, Compare, EndPass, CancelPass, SyncTypeOK
  <2>2. UNCHANGED <<reg, op, clean, drift, worker, kept, removing>>
    BY <1>2 DEF ReadRows, Compare, EndPass, CancelPass, registryVars, nvrVars, historyVars
  <2>. QED BY <1>0, <2>1, <2>2, KeptStays DEF Recording
<1>3. ASSUME NEW t \in Tracks, WorkerDies(t) PROVE MasksKept' /\ DaysKept'
  <2>1. worker' = [worker EXCEPT ![t].st = "dead"] /\ worker[t].st = "up"
        /\ UNCHANGED <<reg, op, clean, drift, queue, kept, removing>>
    BY <1>3 DEF WorkerDies, registryVars, historyVars
  <2>2. \A u \in Tracks : worker'[u].masks = worker[u].masks /\ (Recording(u)' => Recording(u))
    BY <2>1, StateSet DEF Recording, SyncTypeOK
  <2>. QED BY <1>0, <2>1, <2>2, KeptStays
<1>4. ASSUME NEW t \in Tracks, Visit(t) PROVE MasksKept' /\ DaysKept'
  <2>1. UNCHANGED <<reg, op, clean, drift, queue, kept, removing>>
    BY <1>4 DEF Visit, registryVars, historyVars
  <2>2. worker' = worker \/ (worker' = [worker EXCEPT ![t].st = "up"] /\ worker[t].st = "dead")
    BY <1>4 DEF Visit
  <2>3. \A u \in Tracks : worker'[u].masks = worker[u].masks /\ (Recording(u)' => Recording(u))
    BY <2>2, StateSet DEF Recording, SyncTypeOK
  <2>. QED BY <1>0, <2>1, <2>3, KeptStays
<1>5. CASE BeginRound \/ UNCHANGED syncVars
  <2>1. UNCHANGED <<reg, op, clean, drift, queue, kept, removing, worker>>
    BY <1>5 DEF BeginRound, syncVars, registryVars, passVars, nvrVars, historyVars
  <2>. QED BY <1>0, <2>1, KeptStays DEF Recording
<1>6. CASE NvrRestart
  <2>1. \A t \in Tracks : ~Recording(t)'
    BY <1>6 DEF NvrRestart, Recording, NoWorker
  <2>. QED BY <2>1 DEF MasksKept, DaysKept, Tracks
<1>. QED
  BY <1>0, <1>1, <1>2, <1>3, <1>4, <1>5, <1>6, KeptCommit, KeptFinish, KeptDo, KeptMiss
  DEF SyncStep, SyncNext, PassStep, MonitorStep

-----------------------------------------------------------------------------
(* Removals and rounds of the monitor.                                       *)

LEMMA RoundsStep == SyncTypeOK /\ RoundsMet /\ [SyncStep]_syncVars => RoundsMet'
<1> SUFFICES ASSUME SyncTypeOK, RoundsMet, [SyncStep]_syncVars PROVE RoundsMet'
  OBVIOUS
<1>0. /\ Handlers \subseteq Callers /\ Loops \subseteq Callers /\ "none" \notin Tracks
      /\ worker \in [Tracks -> NvrWorkers] /\ visits \in [Tracks -> {"no", "there", "removed"}]
  BY DEF Callers, Tracks, SyncTypeOK
<1>1. ASSUME NEW p \in Callers, Do(p) PROVE RoundsMet'
  <2> DEFINE c == Head(queue[p])
  <2>1. /\ c \in NvrCalls /\ removing = "none" /\ visits' = visits
        /\ \/ c.do = "add" /\ AnswerAdd(c)
           \/ c.do = "keep" /\ AnswerKeep(c)
           \/ c.do = "remove" /\ AnswerRemove(c)
    BY <1>1, Answered
  <2>2. c.track \in Tracks
    BY <2>1 DEF NvrCalls
  <2> HIDE DEF c
  <2>3. CASE AnswerAdd(c)
    <3>1. UNCHANGED <<removing, stray, crossed>>
      BY <2>3 DEF AnswerAdd
    <3>2. \A t \in Tracks : worker'[t].st = "stopping" <=> worker[t].st = "stopping"
      <4>1. CASE Recording(c.track)
        BY <2>3, <4>1 DEF AnswerAdd
      <4>2. CASE ~Recording(c.track)
        BY <1>0, <2>2, <2>3, <4>2 DEF AnswerAdd, Recording
      <4>. QED BY <4>1, <4>2
    <3>. QED BY <2>1, <3>1, <3>2 DEF RoundsMet
  <2>4. CASE AnswerKeep(c)
    BY <2>1, <2>4 DEF AnswerKeep, RoundsMet
  <2>5. CASE AnswerRemove(c)
    <3>1. CASE Recording(c.track)
      <4>1. /\ worker' = [worker EXCEPT ![c.track].st = "stopping"] /\ removing' = c.track
            /\ crossed' = (crossed \/ visits[c.track] # "no") /\ stray' = stray
        BY <2>5, <3>1 DEF AnswerRemove
      <4>2. \A u \in Tracks : worker'[u].st = IF u = c.track THEN "stopping" ELSE worker[u].st
        BY <1>0, <2>2, <4>1, StateSet
      <4>. QED BY <1>0, <2>1, <4>1, <4>2 DEF RoundsMet
    <3>2. CASE ~Recording(c.track)
      BY <2>1, <2>5, <3>2 DEF AnswerRemove, RoundsMet
    <3>. QED BY <3>1, <3>2
  <2>. QED BY <2>1, <2>3, <2>4, <2>5
<1>2. CASE Removed
  <2>1. /\ removing \in Tracks /\ removing' = "none" /\ worker' = [worker EXCEPT ![removing] = NoWorker]
        /\ visits' = [visits EXCEPT ![removing] = IF @ = "there" THEN "removed" ELSE @]
        /\ UNCHANGED <<stray, crossed>>
    BY <1>2 DEF Removed, SyncTypeOK, historyVars
  <2>2. \A t \in Tracks : worker'[t].st # "stopping"
    BY <1>0, <2>1 DEF NoWorker, RoundsMet
  <2>3. \A t \in Tracks : visits'[t] = "removed" => crossed
    BY <1>0, <2>1 DEF RoundsMet
  <2>. QED BY <1>0, <2>1, <2>2, <2>3 DEF RoundsMet
<1>3. ASSUME NEW t \in Tracks, WorkerDies(t) PROVE RoundsMet'
  <2>1. worker' = [worker EXCEPT ![t].st = "dead"] /\ worker[t].st = "up"
        /\ UNCHANGED <<removing, visits, stray, crossed>>
    BY <1>3 DEF WorkerDies, historyVars
  <2>2. \A u \in Tracks : worker'[u].st = IF u = t THEN "dead" ELSE worker[u].st
    BY <1>0, <2>1, StateSet
  <2>. QED BY <2>1, <2>2 DEF RoundsMet
<1>4. ASSUME NEW t \in Tracks, Visit(t) PROVE RoundsMet'
  <2>1. visits[t] # "no" /\ visits' = [visits EXCEPT ![t] = "no"] /\ UNCHANGED <<removing, crossed>>
    BY <1>4 DEF Visit, historyVars
  <2>2. CASE visits[t] = "there" /\ worker[t].st = "dead" /\ worker' = [worker EXCEPT ![t].st = "up"] /\ stray' = stray
    <3>1. \A u \in Tracks : worker'[u].st = IF u = t THEN "up" ELSE worker[u].st
      BY <1>0, <2>2, StateSet
    <3>. QED BY <1>0, <2>1, <2>2, <3>1 DEF RoundsMet
  <2>3. CASE (visits[t] = "removed" \/ worker[t].st = "stopping") /\ worker' = worker
    BY <1>0, <2>1, <2>3 DEF RoundsMet
  <2>4. CASE worker' = worker /\ stray' = stray
    BY <1>0, <2>1, <2>4 DEF RoundsMet
  <2>. QED BY <1>4, <2>2, <2>3, <2>4 DEF Visit
<1>5. CASE BeginRound
  BY <1>0, <1>5 DEF BeginRound, RoundsMet, Recording
<1>6. CASE NvrRestart
  BY <1>0, <1>6 DEF NvrRestart, RoundsMet, NoWorker
<1>7. CASE UNCHANGED <<worker, removing, visits, stray, crossed>>
  BY <1>7 DEF RoundsMet
<1>8. ASSUME NEW h \in Handlers, NEW kind \in Kinds, Commit(h, kind) \/ Finish(h)
      PROVE  UNCHANGED <<worker, removing, visits, stray, crossed>>
  BY <1>8 DEF Commit, Finish, nvrVars
<1>9. ASSUME NEW p \in Callers, Miss(p) PROVE UNCHANGED <<worker, removing, visits, stray, crossed>>
  BY <1>9 DEF Miss, nvrVars
<1>10. ASSUME NEW w \in Loops, ReadRows(w) \/ Compare(w) \/ EndPass(w) \/ CancelPass(w)
       PROVE  UNCHANGED <<worker, removing, visits, stray, crossed>>
  BY <1>10 DEF ReadRows, Compare, EndPass, CancelPass, nvrVars, historyVars
<1>11. UNCHANGED syncVars => UNCHANGED <<worker, removing, visits, stray, crossed>>
  BY DEF syncVars, nvrVars, historyVars
<1>. QED
  BY <1>0, <1>1, <1>2, <1>3, <1>4, <1>5, <1>6, <1>7, <1>8, <1>9, <1>10, <1>11
  DEF SyncStep, SyncNext, PassStep, MonitorStep, Kinds

-----------------------------------------------------------------------------
(* A camera that is gone.                                                    *)

\* What leaves the row, the requests and the queues alone, and starts nothing.
LEMMA TeardownStays ==
  ASSUME Teardown, UNCHANGED <<reg, op, leftover>>,
         ~reg.present => \A w \in Loops : queue'[w] = queue[w] /\ (pass'[w] = "read" => pass[w] = "read" /\ seen'[w] = seen[w]),
         \A h \in Handlers : queue'[h] = queue[h],
         removing' # "none" => removing # "none",
         \A t \in Tracks : Recording(t)' /\ removing' # t => Recording(t) /\ removing # t
  PROVE  Teardown'
<1> SUFFICES ASSUME ~reg.present, ~leftover PROVE Teardown'
  BY DEF Teardown
<1>1. \A p \in Callers : queue'[p] = queue[p]
  BY DEF Callers
<1>. QED BY <1>1 DEF Teardown

LEMMA TeardownStep == SyncTypeOK /\ SyncInv /\ [SyncStep]_syncVars => Teardown'
<1> SUFFICES ASSUME SyncTypeOK, SyncInv, [SyncStep]_syncVars PROVE Teardown'
  OBVIOUS
<1>0. /\ Handlers \subseteq Callers /\ Loops \subseteq Callers /\ \A w \in Loops : w \notin Handlers
      /\ "none" \notin Tracks /\ Teardown /\ QuietQueues
  BY SyncAssumption DEF Callers, Tracks, SyncInv
<1>1. ASSUME NEW h \in Handlers, NEW kind \in Kinds, Commit(h, kind) PROVE Teardown'
  <2>1. SUFFICES ASSUME ~reg'.present, ~leftover' PROVE Teardown'
    BY DEF Teardown
  <2>2. reg \in CameraRows /\ reg.present = (kind # "create") /\ reg' \in Changed(kind, reg)
    BY <1>1 DEF Commit, SyncTypeOK
  <2>3. kind = "delete"
    <3>1. CASE kind = "create"
      BY <2>1, <2>2, <3>1 DEF Changed
    <3>2. CASE kind \notin {"create", "delete"}
      BY <2>1, <2>2, <3>2, RowChanged
    <3>. QED BY <3>1, <3>2
  <2>4. ~InFlight /\ \A p \in Callers \ {h} : queue'[p] = queue[p] /\ op'[h] = "delete"
    BY <1>1, <2>1, <2>3 DEF Commit, SyncTypeOK
  <2>5. /\ \A c \in Range(queue'[h]) : c.do = "remove"
        /\ \A t \in Tracks : AsksFor(queue'[h], "remove", t)
    BY <1>0, <1>1, <2>2, <2>3, RowChanged, RequestAsks DEF Commit, SyncTypeOK
  <2>6. /\ \A p \in Callers \ {h} : queue'[p] = <<>> /\ Range(queue'[p]) = {}
        /\ \A w \in Loops : pass'[w] = "idle"
        /\ op'[h] = "delete"
    BY <1>0, <1>1, <2>3, <2>4, IdleQueues, Short DEF Commit, passVars, SyncTypeOK
  <2>. QED BY <1>0, <2>5, <2>6 DEF Teardown
<1>2. ASSUME NEW h \in Handlers, Finish(h) PROVE Teardown'
  <2>1. /\ queue[h] = <<>> /\ removing = "none" /\ \A g \in Handlers \ {h} : op'[g] = op[g]
        /\ UNCHANGED <<reg, pass, seen, queue, worker, removing, leftover>>
    BY <1>2 DEF Finish, SyncTypeOK, passVars, nvrVars
  <2>2. \A t : ~AsksFor(queue[h], "remove", t)
    BY <2>1, Short DEF AsksFor
  <2>. QED BY <1>0, <2>1, <2>2 DEF Teardown, Recording
<1>3. ASSUME NEW p \in Callers, Do(p) PROVE Teardown'
  <2>1. SUFFICES ASSUME ~reg.present, ~leftover PROVE Teardown'
    BY <1>3 DEF Do, Teardown, registryVars
  <2>2. /\ UNCHANGED <<reg, op, pass, seen, leftover>> /\ queue[p] # <<>>
        /\ \A q \in Callers : Range(queue'[q]) \subseteq Range(queue[q])
        /\ \A q \in Callers : queue[q] = <<>> => queue'[q] = <<>>
        /\ \A q \in Callers \ {p} : queue'[q] = queue[q]
    BY <1>3, QueueShrinks DEF Do, registryVars, passVars
  <2>3. p \in Handlers /\ op[p] = "delete"
    BY <1>0, <2>1, <2>2 DEF Teardown, Callers
  <2>4. \A c \in Range(queue[p]) : c.do = "remove"
    BY <1>0, <2>1 DEF Teardown
  <2>5. ASSUME NEW t \in Tracks, Recording(t)', removing' # t
        PROVE  \E h \in Handlers : op[h] = "delete" /\ AsksFor(queue'[h], "remove", t)
    <3>1. removing = "none" /\ Recording(t)
      <4> DEFINE c == Head(queue[p])
      <4>1. c.do = "remove" /\ removing = "none" /\ AnswerRemove(c)
        BY <1>3, <2>4, Answered
      <4>2. (worker' = [worker EXCEPT ![c.track].st = "stopping"] /\ Recording(c.track)) \/ worker' = worker
        BY <4>1 DEF AnswerRemove
      <4> HIDE DEF c
      <4>3. c.track \in Tracks
        BY <1>3, Answered DEF NvrCalls, c
      <4>4. Recording(t)' => Recording(t)
        <5>1. CASE worker' = worker
          BY <5>1 DEF Recording
        <5>2. CASE worker' = [worker EXCEPT ![c.track].st = "stopping"] /\ Recording(c.track)
          BY <4>3, <5>2, StateSet DEF Recording, SyncTypeOK
        <5>. QED BY <4>2, <5>1, <5>2
      <4>. QED BY <2>5, <4>1, <4>4
    <3>2. PICK h \in Handlers : op[h] = "delete" /\ AsksFor(queue[h], "remove", t)
      BY <1>0, <2>1, <3>1 DEF Teardown
    <3>3. AsksFor(queue'[h], "remove", t)
      BY <1>0, <1>3, <2>2, <2>5, <3>2, AnswerMoves
    <3>. QED BY <3>2, <3>3
  <2>. QED BY <1>0, <2>1, <2>2, <2>3, <2>5 DEF Teardown
<1>4. ASSUME NEW p \in Callers, Miss(p) PROVE Teardown'
  <2>1. SUFFICES ASSUME ~reg'.present, ~leftover' PROVE Teardown'
    BY DEF Teardown
  <2>2. /\ UNCHANGED <<reg, op, pass, seen, worker, removing>> /\ queue[p] # <<>> /\ (leftover => leftover')
        /\ (p \in Handlers => (op[p] = "delete" => leftover'))
    BY <1>4 DEF Miss, passVars, nvrVars
  <2>3. FALSE
    BY <1>0, <2>1, <2>2 DEF Teardown, Callers
  <2>. QED BY <2>3
<1>5. ASSUME NEW w \in Loops, ReadRows(w) PROVE Teardown'
  BY <1>0, <1>5 DEF ReadRows, Teardown, SyncTypeOK, registryVars, nvrVars, historyVars, Recording
<1>6. ASSUME NEW w \in Loops, Compare(w) PROVE Teardown'
  <2>1. UNCHANGED <<reg, op, leftover, seen, worker, removing>> /\ pass[w] = "read"
        /\ \A v \in Loops : pass'[v] = IF v = w THEN "call" ELSE pass[v]
    BY <1>6 DEF Compare, registryVars, historyVars, nvrVars, SyncTypeOK
  <2>2. \A q \in Callers \ {w} : queue'[q] = queue[q]
    BY <1>6 DEF Compare, SyncTypeOK
  <2>3. ASSUME ~reg.present, ~leftover PROVE queue'[w] = queue[w]
    <3>1. ~seen[w].present /\ queue[w] = <<>> /\ seen[w] \in CameraRows
      BY <1>0, <2>1, <2>3 DEF Teardown, SyncTypeOK
    <3>2. Calls(seen[w], "main") \o Calls(seen[w], "sub") = <<>>
      BY <3>1, PassAsks
    <3>. QED BY <1>0, <1>6, <3>1, <3>2 DEF Compare, SyncTypeOK
  <2>4. ~reg.present /\ ~leftover => \A q \in Callers : queue'[q] = queue[q]
    BY <2>2, <2>3
  <2>. QED BY <1>0, <2>1, <2>4 DEF Teardown, Recording
<1>7. ASSUME NEW w \in Loops, EndPass(w) PROVE Teardown'
  BY <1>0, <1>7, TeardownStays DEF EndPass, registryVars, nvrVars, historyVars, SyncTypeOK, Recording
<1>8. ASSUME NEW w \in Loops, CancelPass(w) PROVE Teardown'
  <2>1. UNCHANGED <<reg, op, leftover, seen, worker, removing>> /\ \A h \in Handlers : queue'[h] = queue[h]
    BY <1>0, <1>8 DEF CancelPass, registryVars, historyVars, nvrVars, SyncTypeOK
  <2>2. \A v \in Loops : queue'[v] = <<>> \/ queue'[v] = queue[v]
    BY <1>0, <1>8 DEF CancelPass, SyncTypeOK
  <2>3. \A v \in Loops : pass'[v] = "read" => pass[v] = "read"
    BY <1>8 DEF CancelPass, SyncTypeOK
  <2>4. \A q \in Callers : Range(queue'[q]) \subseteq Range(queue[q])
    BY <1>0, <1>8, QueueShrinks
  <2>. QED BY <1>0, <2>1, <2>2, <2>3, <2>4 DEF Teardown, Recording, Callers
<1>9. CASE NvrRestart
  <2>1. \A t \in Tracks : ~Recording(t)'
    BY <1>9 DEF NvrRestart, Recording, NoWorker
  <2>2. UNCHANGED <<reg, op, pass, seen, queue>> /\ removing' = "none"
    BY <1>9 DEF NvrRestart, registryVars, passVars
  <2>3. CASE InFlight
    <3>1. leftover' = leftover
      BY <1>9, <2>3 DEF NvrRestart, SyncTypeOK
    <3>. QED BY <1>0, <2>1, <2>2, <3>1 DEF Teardown
  <2>4. CASE ~InFlight
    <3>1. \A p \in Callers : queue[p] = <<>> /\ Range(queue[p]) = {}
      BY <1>0, <2>4, IdleQueues, Short
    <3>2. \A w \in Loops : pass[w] = "idle"
      BY <1>0, <2>4, IdleQueues
    <3>. QED BY <1>0, <2>1, <2>2, <3>1, <3>2 DEF Teardown
  <2>. QED BY <2>3, <2>4
<1>10. CASE Removed
  <2>1. /\ removing \in Tracks /\ removing' = "none" /\ worker' = [worker EXCEPT ![removing] = NoWorker]
        /\ UNCHANGED <<reg, op, pass, seen, queue, leftover>>
    BY <1>10 DEF Removed, SyncTypeOK, registryVars, passVars, historyVars
  <2>2. \A t \in Tracks : Recording(t)' => Recording(t) /\ removing # t
    BY <2>1 DEF Recording, NoWorker, SyncTypeOK
  <2>. QED BY <1>0, <2>1, <2>2, TeardownStays
<1>11. ASSUME NEW t \in Tracks, WorkerDies(t) PROVE Teardown'
  <2>1. worker' = [worker EXCEPT ![t].st = "dead"] /\ worker[t].st = "up"
        /\ UNCHANGED <<reg, op, pass, seen, queue, leftover, removing>>
    BY <1>11 DEF WorkerDies, registryVars, passVars, historyVars
  <2>2. \A u \in Tracks : Recording(u)' => Recording(u)
    BY <2>1, StateSet DEF Recording, SyncTypeOK
  <2>. QED BY <1>0, <2>1, <2>2, TeardownStays
<1>12. ASSUME NEW t \in Tracks, Visit(t) PROVE Teardown'
  <2>1. UNCHANGED <<reg, op, pass, seen, queue, leftover, removing>>
    BY <1>12 DEF Visit, registryVars, passVars, historyVars
  <2>2. worker' = worker \/ (worker' = [worker EXCEPT ![t].st = "up"] /\ worker[t].st = "dead")
    BY <1>12 DEF Visit
  <2>3. \A u \in Tracks : Recording(u)' => Recording(u)
    BY <2>2, StateSet DEF Recording, SyncTypeOK
  <2>. QED BY <1>0, <2>1, <2>3, TeardownStays
<1>13. CASE BeginRound \/ UNCHANGED syncVars
  <2>1. UNCHANGED <<reg, op, pass, seen, queue, leftover, removing, worker>>
    BY <1>13 DEF BeginRound, syncVars, registryVars, passVars, nvrVars, historyVars
  <2>. QED BY <1>0, <2>1, TeardownStays DEF Recording
<1>. QED
  BY <1>0, <1>1, <1>2, <1>3, <1>4, <1>5, <1>6, <1>7, <1>8, <1>9, <1>10, <1>11, <1>12, <1>13
  DEF SyncStep, SyncNext, PassStep, MonitorStep

LEMMA SyncInvStep == SyncTypeOK /\ SyncInv /\ [SyncStep]_syncVars => SyncTypeOK' /\ SyncInv'
<1> SUFFICES ASSUME SyncTypeOK, SyncInv, [SyncStep]_syncVars PROVE SyncTypeOK' /\ SyncInv'
  OBVIOUS
<1>1. SyncTypeOK' /\ QuietQueues' /\ Alone' /\ Carried' /\ RoundsMet'
  BY SyncTypeStep, QueuesStep, AloneStep, CarriedStep, RoundsStep DEF SyncInv
<1>2. MasksKept' /\ DaysKept' /\ Teardown'
  BY KeptStep, TeardownStep
<1>. QED BY <1>1, <1>2 DEF SyncInv

LEMMA SyncInvEnough == SyncTypeOK /\ SyncInv => RecordersAsAsked
<1> SUFFICES ASSUME SyncTypeOK, SyncInv PROVE RecordersAsAsked
  OBVIOUS
<1>1. SettingsKept
  BY DEF SyncInv, MasksKept, DaysKept, SettingsKept, Quiet, Tracks
<1>2. NoStrays
  <2>1. SUFFICES ASSUME ~reg.present, ~InFlight, ~leftover, NEW t \in Tracks, Recording(t) PROVE FALSE
    BY DEF NoStrays, SyncInv, RoundsMet
  <2>2. \A h \in Handlers : op[h] # "delete"
    BY <2>1 DEF InFlight
  <2>3. removing = "none" /\ t # "none"
    BY <2>1, <2>2 DEF SyncInv, Teardown, Tracks
  <2>. QED BY <2>1, <2>2, <2>3 DEF SyncInv, Teardown
<1>. QED BY <1>1, <1>2 DEF RecordersAsAsked

-----------------------------------------------------------------------------
(* The theorems.                                                             *)

\* A step of the management API is one of the lock, and one of the camera and
\* its recorders.
LEMMA ManagementSteps ==
  ASSUME [ManagementNext]_managementVars
  PROVE  [LockNext]_lockVars /\ [SyncStep]_syncVars
<1>1. CASE UNCHANGED managementVars
  BY <1>1 DEF managementVars
<1>2. ASSUME NEW w \in Workers, LeaderPass(w) \/ LeaderMiss(w)
      PROVE  [LockNext]_lockVars /\ [SyncStep]_syncVars
  BY <1>2, LoopsAreWorkers DEF LeaderPass, LeaderMiss, SyncStep, SyncNext
<1>3. ASSUME NEW w \in Workers, RoundStep(w) \/ LoopFails(w) \/ QuitStep(w) \/ StartStep(w)
      PROVE  [LockNext]_lockVars /\ [SyncStep]_syncVars
  BY <1>3, LoopsAreWorkers DEF RoundStep, LoopFails, QuitStep, StartStep, LockNext, Round, SyncStep
<1>4. ASSUME NEW h \in Handlers, RequestChange(h) \/ RequestCall(h) \/ RequestMiss(h)
      PROVE  [LockNext]_lockVars /\ [SyncStep]_syncVars
  BY <1>4 DEF RequestChange, RequestCall, RequestMiss, SyncStep, SyncNext
<1>5. CASE LapseStep \/ CacheGoes \/ CacheReturns
  BY <1>5 DEF LapseStep, CacheGoes, CacheReturns, LockNext
<1>6. CASE NvrStop \/ NvrMonitor \/ NvrFault
  BY <1>6 DEF NvrStop, NvrMonitor, NvrFault, SyncStep, SyncNext
<1>. QED BY <1>1, <1>2, <1>3, <1>4, <1>5, <1>6 DEF ManagementNext

\* The camera's row, the calls about it and the recorders keep their types,
\* whatever requests, passes, rounds and restarts come together.
THEOREM SyncTypeCorrect == ManagementSpec => []SyncTypeOK
<1>1. ManagementInit => SyncTypeOK /\ SyncInv
  BY SyncInitial DEF ManagementInit
<1>2. SyncTypeOK /\ SyncInv /\ [ManagementNext]_managementVars => SyncTypeOK' /\ SyncInv'
  BY ManagementSteps, SyncInvStep
<1>. QED BY <1>1, <1>2, PTL DEF ManagementSpec

\* What records carries the settings of the camera's row once the requests about
\* them have ended, except for a change that was lost or overtaken, and nothing
\* records that no row asks for (cameras.py and nvr_client.py against the NVR's
\* engine and its monitor).
THEOREM RecordersFollow == ManagementSpec => []RecordersAsAsked
<1>1. ManagementInit => SyncTypeOK /\ SyncInv
  BY SyncInitial DEF ManagementInit
<1>2. SyncTypeOK /\ SyncInv /\ [ManagementNext]_managementVars => SyncTypeOK' /\ SyncInv'
  BY ManagementSteps, SyncInvStep
<1>3. SyncTypeOK /\ SyncInv => RecordersAsAsked
  BY SyncInvEnough
<1>. QED BY <1>1, <1>2, <1>3, PTL DEF ManagementSpec

\* With the loops and the cameras together still at most one worker runs the
\* reconcile loop, stalls and outages excepted.
THEOREM ManagementOneLoop == ManagementSpec => []OneLoop
<1>1. ManagementInit => LockTypeOK /\ HolderRuns
  BY WorkersAssumption DEF ManagementInit, LockInit, LockTypeOK, HolderRuns
<1>2. LockTypeOK /\ HolderRuns /\ [ManagementNext]_managementVars => LockTypeOK' /\ HolderRuns'
  BY ManagementSteps, TypeStep, HolderStep
<1>3. HolderRuns => OneLoop
  BY DEF HolderRuns, OneLoop, Running
<1>. QED BY <1>1, <1>2, <1>3, PTL DEF ManagementSpec
=============================================================================
