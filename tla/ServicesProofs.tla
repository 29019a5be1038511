---------------------------- MODULE ServicesProofs ----------------------------
(* Proofs about the parts of the management API that run side by side: the   *)
(* network scan, who may do what, the audit trail, and, from the proofs of   *)
(* Management, the reconcile loop and the recorders.                         *)
EXTENDS Services, ManagementProofs, FiniteSetTheorems

-----------------------------------------------------------------------------
(* The network scan.                                                         *)

Stages == Staging \cup {Absent, "registered"}

\* What a session that lets go of its row leaves.
LEMMA EndsType ==
  ASSUME DiscoveryTypeOK, NEW a \in Agents, Ends(a)
  PROVE  /\ step' \in [Agents -> {"off", "asked", "look", "mark", "verdict", "ended", "unlock",
                                  "register", "ignore", "delete"}]
         /\ target' \in [Agents -> Rows \cup {NoRow}] /\ saw' \in [Agents -> Stages]
         /\ \A b \in Agents : target'[b] \in Rows <=> step'[b] \in OnRow
         /\ \A b \in Agents \ {a} : target'[b] = target[b] /\ step'[b] = step[b]
         /\ target'[a] = NoRow /\ step'[a] \in {"off", "ended"}
<1>1. /\ step' = [step EXCEPT ![a] = IF a \in Scans THEN "ended" ELSE "off"]
      /\ target' = [target EXCEPT ![a] = NoRow] /\ saw' = [saw EXCEPT ![a] = Absent]
  BY DEF Ends, Goes, LetGo
<1>. QED BY <1>1, DiscoveryAssumption DEF DiscoveryTypeOK, OnRow, Stages

\* A session that takes a row has it in hand.
LEMMA TakesType ==
  ASSUME DiscoveryTypeOK, NEW a \in Agents, NEW r \in Rows, NEW to \in OnRow, Takes(a, r), Goes(a, to)
  PROVE  /\ step' \in [Agents -> {"off", "asked", "look", "mark", "verdict", "ended", "unlock",
                                  "register", "ignore", "delete"}]
         /\ target' \in [Agents -> Rows \cup {NoRow}] /\ saw' \in [Agents -> Stages]
         /\ \A b \in Agents : target'[b] \in Rows <=> step'[b] \in OnRow
  BY DEF DiscoveryTypeOK, OnRow, Takes, Goes, Stages

\* A commit writes the stage of the row in hand, or nothing.
LEMMA CommitsType ==
  ASSUME DiscoveryTypeOK, NEW a \in Agents, NEW new \in Stages, Commits(a, new)
  PROVE  /\ stage' \in [Rows -> Stages]
         /\ \A r \in Rows : stage'[r] # stage[r] => r = target[a] /\ stage'[r] = new
  BY DEF DiscoveryTypeOK, Commits, Stages

LEMMA DiscoveryTypeStep == DiscoveryTypeOK /\ [DiscoveryNext]_discoveryVars => DiscoveryTypeOK'
<1> SUFFICES ASSUME DiscoveryTypeOK, [DiscoveryNext]_discoveryVars PROVE DiscoveryTypeOK'
  OBVIOUS
<1>0. Scans \subseteq Agents /\ Requests \subseteq Agents /\ NoRow \notin Rows
      /\ {"probing", "registered", "ignored", "discovered"} \subseteq Stages /\ Verdict \subseteq Stages
  BY DiscoveryAssumption DEF Agents, Stages, Staging, Verdict
<1>1. ASSUME NEW s \in Scans, StartScan(s) PROVE DiscoveryTypeOK'
  BY <1>0, <1>1 DEF StartScan, Goes, rowVars, DiscoveryTypeOK, OnRow
<1>2. ASSUME NEW s \in Scans, BeginJob(s) PROVE DiscoveryTypeOK'
  BY <1>0, <1>2 DEF BeginJob, Goes, rowVars, DiscoveryTypeOK, OnRow
<1>3. ASSUME NEW s \in Scans, FinishJob(s) PROVE DiscoveryTypeOK'
  BY <1>0, <1>3 DEF FinishJob, Goes, rowVars, DiscoveryTypeOK, OnRow
<1>4. ASSUME NEW s \in Scans, Unlock(s) PROVE DiscoveryTypeOK'
  BY <1>0, <1>4 DEF Unlock, Goes, rowVars, DiscoveryTypeOK, OnRow
<1>5. CASE Expire
  BY <1>5 DEF Expire, rowVars, DiscoveryTypeOK, OnRow
<1>6. ASSUME NEW s \in Scans, WorkerGone(s) PROVE DiscoveryTypeOK'
  BY <1>0, <1>6 DEF WorkerGone, Goes, scanVars, DiscoveryTypeOK, OnRow
<1>7. ASSUME NEW r \in Polls, PollStep(r) PROVE DiscoveryTypeOK'
  BY <1>7 DEF PollStep, ReadJob, CheckLock, MarkInterrupted, rowVars, DiscoveryTypeOK
<1>8. ASSUME NEW s \in Scans, Look(s) PROVE DiscoveryTypeOK'
  <2>1. CASE Ends(s)
    BY <1>0, <1>8, <2>1, EndsType DEF Look, scanVars, DiscoveryTypeOK, Stages
  <2>2. ASSUME NEW r \in Rows, Takes(s, r), Goes(s, "mark") PROVE DiscoveryTypeOK'
    BY <1>0, <1>8, <2>2, TakesType DEF Look, scanVars, DiscoveryTypeOK, Stages, OnRow
  <2>. QED BY <1>8, <2>1, <2>2 DEF Look
<1>9. ASSUME NEW q \in Requests, NEW kind \in Asks \ {"manual"}, Ask(q, kind) PROVE DiscoveryTypeOK'
  <2>1. PICK r \in Rows : Takes(q, r)
    BY <1>9 DEF Ask
  <2>2. AskedFirst[kind] \in OnRow
    BY DEF Asks, AskedFirst, OnRow
  <2>. QED BY <1>0, <1>9, <2>1, <2>2, TakesType DEF Ask, scanVars, DiscoveryTypeOK, Stages
<1>10. ASSUME NEW q \in Requests, AskManual(q) PROVE DiscoveryTypeOK'
  <2>1. PICK r \in Rows : /\ Takes(q, r)
                          /\ stage' = IF Fresh(r) THEN [stage EXCEPT ![r] = "discovered"] ELSE stage
    BY <1>10 DEF AskManual
  <2>2. stage' \in [Rows -> Stages]
    BY <1>0, <2>1 DEF DiscoveryTypeOK, Stages
  <2>. QED BY <1>0, <1>10, <2>1, <2>2, TakesType DEF AskManual, scanVars, DiscoveryTypeOK, Stages, OnRow
<1>11. ASSUME NEW a \in Agents, Probe(a) PROVE DiscoveryTypeOK'
  <2>1. stage' \in [Rows -> Stages]
    BY <1>0, <1>11, CommitsType DEF Probe
  <2>2. CASE Ends(a)
    BY <1>11, <2>1, <2>2, EndsType DEF Probe, scanVars, DiscoveryTypeOK, Stages
  <2>3. CASE saw' = [saw EXCEPT ![a] = "probing"] /\ Goes(a, "verdict") /\ UNCHANGED target
    BY <1>0, <1>11, <2>1, <2>3 DEF Probe, Goes, scanVars, DiscoveryTypeOK, Stages, OnRow
  <2>. QED BY <1>11, <2>2, <2>3 DEF Probe
<1>12. ASSUME NEW a \in Agents, NEW new \in Stages, Commits(a, new), Ends(a),
              UNCHANGED scanVars, overlapped' \subseteq Rows
       PROVE  DiscoveryTypeOK'
  BY <1>12, CommitsType, EndsType DEF scanVars, DiscoveryTypeOK, Stages
<1>13. ASSUME NEW a \in Agents, Conclude(a) PROVE DiscoveryTypeOK'
  <2>1. PICK v \in Verdict : Commits(a, v)
    BY <1>13 DEF Conclude
  <2>. QED BY <1>0, <1>12, <1>13, <2>1 DEF Conclude, DiscoveryTypeOK
<1>14. ASSUME NEW s \in Scans, NoteOnly(s) PROVE DiscoveryTypeOK'
  <2>1. PICK v \in {"discovered", "no_onvif"} : Commits(s, v)
    BY <1>14 DEF NoteOnly
  <2>. QED BY <1>0, <1>12, <1>14, <2>1 DEF NoteOnly, DiscoveryTypeOK, Verdict
<1>15. ASSUME NEW q \in Requests, Register(q) PROVE DiscoveryTypeOK'
  <2>1. target[q] \in Rows
    BY <1>0, <1>15 DEF Register, DiscoveryTypeOK, OnRow
  <2>. QED BY <1>0, <1>12, <1>15, <2>1 DEF Register, DiscoveryTypeOK
<1>16. ASSUME NEW q \in Requests, Ignore(q) PROVE DiscoveryTypeOK'
  BY <1>0, <1>12, <1>16 DEF Ignore, DiscoveryTypeOK
<1>17. ASSUME NEW q \in Requests, Delete(q) PROVE DiscoveryTypeOK'
  <2>1. stage' \in [Rows -> Stages]
    BY <1>17 DEF Delete, DiscoveryTypeOK, Stages
  <2>. QED BY <1>0, <1>17, <2>1, EndsType DEF Delete, scanVars, DiscoveryTypeOK, Stages
<1>18. CASE UNCHANGED discoveryVars
  BY <1>18 DEF discoveryVars, scanVars, rowVars, DiscoveryTypeOK
<1>. QED
  BY <1>0, <1>1, <1>2, <1>3, <1>4, <1>5, <1>6, <1>7, <1>8, <1>9, <1>10, <1>11, <1>13, <1>14, <1>15, <1>16, <1>17, <1>18
  DEF DiscoveryNext, ScanStep, RequestStep

\* While no lock ran out under a scan, the scan that goes on has it.
LockedScan == ~slipped => \A s \in Scans : Under(s) => scanLock

\* What a step about a row, a poll or a job's end leaves of the scans.
LEMMA ScanStays ==
  ASSUME LockedScan, OneScan, scanLock' = scanLock, slipped' = slipped,
         \A s \in Scans : Under(s)' => Under(s)
  PROVE  LockedScan' /\ OneScan'
  BY DEF LockedScan, OneScan

LEMMA ScanStepOne == DiscoveryTypeOK /\ LockedScan /\ OneScan /\ [DiscoveryNext]_discoveryVars => LockedScan' /\ OneScan'
<1> SUFFICES ASSUME DiscoveryTypeOK, LockedScan, OneScan, [DiscoveryNext]_discoveryVars
             PROVE  LockedScan' /\ OneScan'
  OBVIOUS
<1>0. Scans \subseteq Agents /\ Requests \subseteq Agents /\ Scans \cap Requests = {}
  BY DiscoveryAssumption DEF Agents
<1>1. ASSUME NEW s \in Scans, StartScan(s) PROVE LockedScan' /\ OneScan'
  <2>1. ~scanLock /\ scanLock' /\ slipped' = slipped /\ \A t \in Scans \ {s} : step'[t] = step[t]
    BY <1>1 DEF StartScan, Goes, DiscoveryTypeOK
  <2>. QED BY <2>1 DEF LockedScan, OneScan, Under
<1>2. ASSUME NEW s \in Scans, Unlock(s) PROVE LockedScan' /\ OneScan'
  <2>1. Under(s) /\ ~Under(s)' /\ slipped' = slipped /\ \A t \in Scans \ {s} : step'[t] = step[t]
    BY <1>0, <1>2 DEF Unlock, Goes, DiscoveryTypeOK, Under
  <2>. QED BY <2>1 DEF LockedScan, OneScan, Under
<1>3. CASE Expire
  BY <1>3 DEF Expire, LockedScan, OneScan, Under
<1>4. ASSUME NEW s \in Scans, BeginJob(s) \/ FinishJob(s) \/ WorkerGone(s) PROVE LockedScan' /\ OneScan'
  <2>1. scanLock' = scanLock /\ slipped' = slipped /\ Under(s)
    BY <1>4 DEF BeginJob, FinishJob, WorkerGone, scanVars, Under
  <2>2. \A t \in Scans : Under(t)' => Under(t)
    BY <1>0, <1>4, <2>1 DEF BeginJob, FinishJob, WorkerGone, Goes, DiscoveryTypeOK, Under
  <2>. QED BY <2>1, <2>2, ScanStays
<1>5. ASSUME NEW a \in Agents, step[a] # "off", NEW to, step' = [step EXCEPT ![a] = to], UNCHANGED scanVars
      PROVE  LockedScan' /\ OneScan'
  <2>1. \A t \in Scans : Under(t)' => Under(t)
    BY <1>0, <1>5 DEF DiscoveryTypeOK, Under
  <2>. QED BY <1>5, <2>1, ScanStays DEF scanVars
<1>6. ASSUME NEW s \in Scans, Look(s) PROVE LockedScan' /\ OneScan'
  BY <1>0, <1>5, <1>6 DEF Look, Ends, Goes
<1>7. ASSUME NEW a \in Agents, Probe(a) PROVE LockedScan' /\ OneScan'
  BY <1>5, <1>7 DEF Probe, Ends, Goes
<1>8. ASSUME NEW a \in Agents, Conclude(a) \/ NoteOnly(a) \/ Register(a) \/ Ignore(a) \/ Delete(a)
      PROVE LockedScan' /\ OneScan'
  BY <1>5, <1>8 DEF Conclude, NoteOnly, Register, Ignore, Delete, Ends, Goes
<1>9. ASSUME NEW q \in Requests, AskManual(q) \/ \E kind \in Asks : Ask(q, kind)
      PROVE  LockedScan' /\ OneScan'
  <2>1. scanLock' = scanLock /\ slipped' = slipped /\ \A t \in Agents \ {q} : step'[t] = step[t]
    BY <1>0, <1>9 DEF AskManual, Ask, Goes, scanVars, DiscoveryTypeOK
  <2>. QED BY <1>0, <2>1, ScanStays DEF Under
<1>10. CASE (\E r \in Polls : PollStep(r)) \/ UNCHANGED discoveryVars
  <2>1. UNCHANGED <<scanLock, slipped, step>>
    BY <1>10 DEF PollStep, ReadJob, CheckLock, MarkInterrupted, discoveryVars, scanVars
  <2>. QED BY <2>1, ScanStays DEF Under
<1>. QED
  BY <1>0, <1>1, <1>2, <1>3, <1>4, <1>6, <1>7, <1>8, <1>9, <1>10 DEF DiscoveryNext, ScanStep, RequestStep

\* Who has a registered row in hand had it when it was registered.
HeldBefore == \A a \in Agents : target[a] \in Rows /\ stage[target[a]] = "registered" => target[a] \in overlapped

\* A step keeps that, and takes a registration back only of such a row.
Lasts == \A r \in Rows : stage[r] = "registered" /\ stage'[r] # "registered" => r \in overlapped

LEMMA HeldStep == DiscoveryTypeOK /\ HeldBefore /\ [DiscoveryNext]_discoveryVars => HeldBefore' /\ Lasts
<1> SUFFICES ASSUME DiscoveryTypeOK, HeldBefore, [DiscoveryNext]_discoveryVars PROVE HeldBefore' /\ Lasts
  OBVIOUS
<1>0. Scans \subseteq Agents /\ Requests \subseteq Agents /\ NoRow \notin Rows /\ "registered" \notin Staging
      /\ "registered" # Absent /\ Verdict \subseteq Stages /\ "registered" \notin Verdict
      /\ {"probing", "registered", "ignored", "discovered", "no_onvif"} \subseteq Stages
  BY DiscoveryAssumption DEF Agents, Staging, Verdict, Absent, Stages
<1>1. ASSUME stage' = stage, overlapped' = overlapped,
             \A b \in Agents : target'[b] = target[b] \/ target'[b] = NoRow
      PROVE  HeldBefore' /\ Lasts
  BY <1>0, <1>1 DEF HeldBefore, Lasts
<1>2. ASSUME NEW a \in Agents, NEW r \in Rows, Takes(a, r), overlapped' = overlapped, stage'[r] # "registered",
             \A x \in Rows \ {r} : stage'[x] = stage[x], stage[r] # "registered"
      PROVE  HeldBefore' /\ Lasts
  <2>1. \A b \in Agents : target'[b] = IF b = a THEN r ELSE target[b]
    BY <1>2 DEF Takes, DiscoveryTypeOK
  <2>. QED BY <1>2, <2>1 DEF HeldBefore, Lasts
<1>3. ASSUME NEW a \in Agents, NEW new \in Stages \ {"registered"}, Commits(a, new), overlapped' = overlapped,
             \A b \in Agents : target'[b] = target[b] \/ target'[b] = NoRow
      PROVE  HeldBefore' /\ Lasts
  <2>1. \A r \in Rows : stage'[r] # stage[r] => r = target[a] /\ stage'[r] # "registered"
    BY <1>3, CommitsType
  <2>. QED BY <1>0, <1>3, <2>1 DEF HeldBefore, Lasts
<1>4. ASSUME NEW s \in Scans, Look(s) PROVE HeldBefore' /\ Lasts
  <2>1. CASE Ends(s)
    BY <1>0, <1>1, <1>4, <2>1, EndsType DEF Look
  <2>2. ASSUME NEW r \in Rows, Suitable(r), Takes(s, r) PROVE HeldBefore' /\ Lasts
    BY <1>0, <1>2, <1>4, <2>2 DEF Look, Suitable, Fresh
  <2>. QED BY <1>4, <2>1, <2>2 DEF Look
<1>5. ASSUME NEW q \in Requests, NEW kind \in Asks \ {"manual"}, Ask(q, kind) PROVE HeldBefore' /\ Lasts
  BY <1>0, <1>2, <1>5 DEF Ask
<1>6. ASSUME NEW q \in Requests, AskManual(q) PROVE HeldBefore' /\ Lasts
  <2>1. PICK r \in Rows : /\ Suitable(r) /\ Takes(q, r)
                          /\ stage' = IF Fresh(r) THEN [stage EXCEPT ![r] = "discovered"] ELSE stage
    BY <1>6 DEF AskManual
  <2>2. stage[r] # "registered" /\ stage'[r] # "registered" /\ \A x \in Rows \ {r} : stage'[x] = stage[x]
    BY <1>0, <2>1 DEF Suitable, Fresh, DiscoveryTypeOK
  <2>. QED BY <1>0, <1>2, <1>6, <2>1, <2>2 DEF AskManual
<1>7. ASSUME NEW a \in Agents, Probe(a) PROVE HeldBefore' /\ Lasts
  <2>1. \A b \in Agents : target'[b] = target[b] \/ target'[b] = NoRow
    BY <1>7, EndsType DEF Probe
  <2>. QED BY <1>0, <1>3, <1>7, <2>1 DEF Probe
<1>8. ASSUME NEW a \in Agents, NEW new \in Stages \ {"registered"}, Commits(a, new), Ends(a), overlapped' = overlapped
      PROVE  HeldBefore' /\ Lasts
  <2>1. \A b \in Agents : target'[b] = target[b] \/ target'[b] = NoRow
    BY <1>8, EndsType
  <2>. QED BY <1>3, <1>8, <2>1
<1>9. ASSUME NEW a \in Agents, Conclude(a) \/ NoteOnly(a) \/ Ignore(a) PROVE HeldBefore' /\ Lasts
  <2>1. PICK new \in Stages \ {"registered"} : Commits(a, new)
    BY <1>0, <1>9 DEF Conclude, NoteOnly, Ignore
  <2>. QED BY <1>8, <1>9, <2>1 DEF Conclude, NoteOnly, Ignore
<1>10. ASSUME NEW q \in Requests, Register(q) PROVE HeldBefore' /\ Lasts
  <2>1. /\ \A r \in Rows : stage'[r] # stage[r] => r = target[q] /\ stage'[r] = "registered"
        /\ target'[q] = NoRow /\ \A b \in Agents \ {q} : target'[b] = target[b]
    BY <1>0, <1>10, CommitsType, EndsType DEF Register
  <2>2. /\ overlapped \subseteq overlapped'
        /\ \A b \in Agents \ {q} : target[b] = target[q] => target[q] \in overlapped'
    BY <1>10 DEF Register
  <2>. QED BY <1>0, <2>1, <2>2 DEF HeldBefore, Lasts
<1>11. ASSUME NEW q \in Requests, Delete(q) PROVE HeldBefore' /\ Lasts
  <2>1. /\ target[q] \in Rows /\ stage' = [stage EXCEPT ![target[q]] = Absent]
        /\ overlapped' = overlapped \ {target[q]}
    BY <1>0, <1>11 DEF Delete, DiscoveryTypeOK, OnRow
  <2>2. target'[q] = NoRow /\ \A b \in Agents \ {q} : target'[b] = target[b]
    BY <1>0, <1>11, EndsType DEF Delete
  <2>. QED BY <1>0, <2>1, <2>2 DEF HeldBefore, Lasts, DiscoveryTypeOK
<1>12. ASSUME NEW s \in Scans, StartScan(s) \/ BeginJob(s) \/ FinishJob(s) \/ Unlock(s) \/ WorkerGone(s)
       PROVE  HeldBefore' /\ Lasts
  <2>1. stage' = stage /\ overlapped' = overlapped /\ \A b \in Agents : target'[b] = target[b] \/ target'[b] = NoRow
    BY <1>12 DEF StartScan, BeginJob, FinishJob, Unlock, WorkerGone, rowVars, DiscoveryTypeOK
  <2>. QED BY <1>1, <2>1
<1>13. CASE Expire \/ (\E r \in Polls : PollStep(r)) \/ UNCHANGED discoveryVars
  BY <1>1, <1>13 DEF Expire, PollStep, ReadJob, CheckLock, MarkInterrupted, rowVars, discoveryVars
<1>. QED
  BY <1>0, <1>4, <1>5, <1>6, <1>7, <1>9, <1>10, <1>11, <1>12, <1>13 DEF DiscoveryNext, ScanStep, RequestStep

DiscoveryInv == DiscoveryTypeOK /\ LockedScan /\ OneScan /\ HeldBefore

LEMMA DiscoveryInitial == DiscoveryInit => DiscoveryInv
<1>1. ASSUME DiscoveryInit PROVE DiscoveryTypeOK
  <2>1. NoJobYet \in [scan : Scans \cup {NoScan}, status : {"none", "running", "done", "error"}]
    BY DEF NoJobYet
  <2>2. Absent \in Staging \cup {Absent, "registered"}
    OBVIOUS
  <2>3. \A a \in Agents : target[a] \in Rows <=> step[a] \in OnRow
    BY <1>1, DiscoveryAssumption DEF DiscoveryInit, OnRow
  <2>. QED BY <1>1, <2>1, <2>2, <2>3 DEF DiscoveryInit, DiscoveryTypeOK
<1>2. DiscoveryInit => LockedScan /\ OneScan /\ HeldBefore
  BY DiscoveryAssumption DEF DiscoveryInit, LockedScan, OneScan, HeldBefore, Under, Agents
<1>. QED BY <1>1, <1>2 DEF DiscoveryInv

LEMMA DiscoveryInvStep == DiscoveryInv /\ [DiscoveryNext]_discoveryVars => DiscoveryInv' /\ Lasts
  BY DiscoveryTypeStep, ScanStepOne, HeldStep DEF DiscoveryInv

-----------------------------------------------------------------------------
(* Who may do what.                                                          *)

\* What a worker holds, with its types.
Grants == SUBSET Capabilities
Kept == [can : Grants, of : Nat, left : 0..KeptFor, guess : BOOLEAN]
Answers == [st : {"no", "asked", "told", "failed"}, can : Grants, of : Nat]
Typed ==
  /\ memory \in [Servers -> Kept] /\ reading \in [Servers -> Answers]
  /\ editing \in [Servers -> Nat] /\ own \in [Servers -> Nat] /\ raced \in [Servers -> BOOLEAN]
  /\ stored.of \in Nat /\ ruled \in [Capabilities -> 0..(KeptFor + 1)]

\* A capability that the row grants has not been away.
GrantedIsFresh == \A c \in Merged(stored.says) : ruled[c] = 0

\* An answer on its way speaks of the row, or of the defaults.
AnswerFits ==
  \A w \in Servers :
    /\ reading[w].st = "told" => \A c \in reading[w].can : ruled[c] = 0
    /\ reading[w].st = "failed" => reading[w].can \subseteq Defaults

\* What a worker remembers runs out before it has been away too long.
MemoryFits ==
  \A w \in Servers : Remembers(w) =>
    /\ memory[w].guess => memory[w].can \subseteq Defaults
    /\ ~memory[w].guess => \A c \in memory[w].can : ruled[c] + memory[w].left <= KeptFor

PolicyInv == Typed /\ GrantedIsFresh /\ AnswerFits /\ MemoryFits /\ EditSeen

LEMMA GrantsKnown == \A says : Merged(says) \in Grants
BY DEF Merged, Grants

LEMMA NothingKept == NoMemory \in Kept /\ ~(NoMemory.left > 0) /\ NotReading \in Answers /\ NotReading.st = "no"
BY PolicyAssumption DEF NoMemory, NotReading, Kept, Answers, Grants

LEMMA PolicyInitial == PolicyInit => PolicyInv
<1> SUFFICES ASSUME PolicyInit PROVE PolicyInv
  OBVIOUS
<1>1. PICK says : stored = [of |-> 0, says |-> says]
  BY DEF PolicyInit
<1>2. Typed
  BY <1>1, NothingKept, PolicyAssumption DEF PolicyInit, Typed
<1>3. GrantedIsFresh /\ AnswerFits /\ MemoryFits /\ EditSeen
  BY NothingKept, GrantsKnown DEF PolicyInit, GrantedIsFresh, AnswerFits, MemoryFits, EditSeen, Remembers, Grants
<1>. QED BY <1>2, <1>3 DEF PolicyInv

LEMMA InquireKeeps == ASSUME PolicyInv, NEW w \in Servers, Inquire(w) PROVE PolicyInv'
<1>1. [NotReading EXCEPT !.st = "asked"] = [st |-> "asked", can |-> {}, of |-> 0]
  BY DEF NotReading
<1>2. reading' = [reading EXCEPT ![w] = [st |-> "asked", can |-> {}, of |-> 0]]
      /\ UNCHANGED <<stored, memory, editing, ruled, own, raced>>
  BY <1>1 DEF Inquire
<1>3. Typed'
  BY <1>2 DEF PolicyInv, Typed, Answers, Grants
<1>4. AnswerFits'
  BY <1>2 DEF PolicyInv, Typed, AnswerFits
<1>. QED BY <1>2, <1>3, <1>4 DEF PolicyInv, GrantedIsFresh, MemoryFits, EditSeen, Remembers

LEMMA AnswerKeeps == ASSUME PolicyInv, NEW w \in Servers, Answer(w) PROVE PolicyInv'
<1>1. PICK a \in Answers :
        /\ reading' = [reading EXCEPT ![w] = a]
        /\ \/ a.st = "told" /\ a.can = Merged(stored.says)
           \/ a.st = "failed" /\ a.can = Merged(<<>>)
  <2>. DEFINE answered == [st |-> "told", can |-> Merged(stored.says), of |-> stored.of]
              unanswered == [st |-> "failed", can |-> Merged(<<>>), of |-> stored.of]
  <2>1. answered \in Answers /\ answered.st = "told" /\ answered.can = Merged(stored.says)
    BY GrantsKnown DEF PolicyInv, Typed, Answers
  <2>2. unanswered \in Answers /\ unanswered.st = "failed" /\ unanswered.can = Merged(<<>>)
    BY GrantsKnown DEF PolicyInv, Typed, Answers
  <2>3. reading' = [reading EXCEPT ![w] = answered] \/ reading' = [reading EXCEPT ![w] = unanswered]
    BY DEF Answer
  <2> HIDE DEF answered, unanswered
  <2>. QED BY <2>1, <2>2, <2>3
<1>2. UNCHANGED <<stored, memory, editing, ruled, own, raced>>
  BY DEF Answer
<1>3. Typed'
  BY <1>1, <1>2 DEF PolicyInv, Typed
<1>4. Merged(<<>>) \subseteq Defaults
  BY DEF Merged
<1>5. AnswerFits'
  BY <1>1, <1>2, <1>4 DEF PolicyInv, Typed, AnswerFits, GrantedIsFresh
<1>. QED BY <1>2, <1>3, <1>5 DEF PolicyInv, GrantedIsFresh, MemoryFits, EditSeen, Remembers

LEMMA KeepKeeps == ASSUME PolicyInv, NEW w \in Servers, Keep(w) PROVE PolicyInv'
<1> DEFINE m == [can |-> reading[w].can, of |-> reading[w].of, left |-> KeptFor,
                 guess |-> reading[w].st = "failed"]
<1>1. /\ reading[w].st \in {"told", "failed"} /\ reading' = [reading EXCEPT ![w] = NotReading]
      /\ memory' = [memory EXCEPT ![w] = m] /\ raced' = [raced EXCEPT ![w] = reading[w].of < own[w]]
      /\ UNCHANGED <<stored, editing, ruled, own>>
  BY DEF Keep
<1>2. m \in Kept /\ m.can = reading[w].can /\ m.of = reading[w].of /\ m.left = KeptFor
      /\ m.guess = (reading[w].st = "failed")
  BY PolicyAssumption DEF PolicyInv, Typed, Kept, Answers
<1> HIDE DEF m
<1>3. Typed'
  BY <1>1, <1>2, NothingKept DEF PolicyInv, Typed
<1>4. AnswerFits'
  BY <1>1, NothingKept DEF PolicyInv, Typed, AnswerFits
<1>4a. /\ memory'[w] = m /\ \A v \in Servers \ {w} : memory'[v] = memory[v]
       /\ raced'[w] = (reading[w].of < own[w]) /\ \A v \in Servers \ {w} : raced'[v] = raced[v]
  BY <1>1 DEF PolicyInv, Typed
<1>5. MemoryFits'
  <2>1. m.guess => m.can \subseteq Defaults
    BY <1>1, <1>2 DEF PolicyInv, AnswerFits
  <2>2. ~m.guess => \A c \in m.can : ruled[c] + m.left <= KeptFor
    <3>1. ~m.guess => \A c \in m.can : ruled[c] = 0
      BY <1>1, <1>2 DEF PolicyInv, AnswerFits
    <3>. QED BY <1>2, <3>1, PolicyAssumption
  <2>. QED BY <1>1, <1>4a, <2>1, <2>2 DEF PolicyInv, MemoryFits, Remembers
<1>6. EditSeen'
  <2>1. m.of >= own[w] \/ reading[w].of < own[w]
    BY <1>2 DEF PolicyInv, Typed, Answers
  <2>. QED BY <1>1, <1>4a, <2>1 DEF PolicyInv, EditSeen, Remembers
<1>. QED BY <1>1, <1>3, <1>4, <1>5, <1>6 DEF PolicyInv, GrantedIsFresh

LEMMA EditKeeps ==
  ASSUME PolicyInv, NEW w \in Servers, NEW edit, Edit(w, edit) PROVE PolicyInv'
<1>1. /\ stored'.of = stored.of + 1 /\ stored'.says = RowOf(edit)
      /\ editing' = [editing EXCEPT ![w] = stored.of + 1]
      /\ ruled' = [c \in Capabilities |-> IF c \in Merged(RowOf(edit)) THEN 0 ELSE ruled[c]]
      /\ UNCHANGED <<memory, reading, own, raced>>
  BY DEF Edit
<1>2. \A c \in Capabilities : ruled'[c] = 0 \/ ruled'[c] = ruled[c]
  BY <1>1
<1>3. Typed'
  BY <1>1, PolicyAssumption DEF PolicyInv, Typed
<1>4. GrantedIsFresh'
  BY <1>1, GrantsKnown DEF GrantedIsFresh, Grants
<1>5. AnswerFits'
  BY <1>1, <1>2 DEF PolicyInv, Typed, Answers, Grants, AnswerFits
<1>6. MemoryFits'
  BY <1>1, <1>2, PolicyAssumption DEF PolicyInv, Typed, Kept, Grants, MemoryFits, Remembers
<1>. QED BY <1>1, <1>3, <1>4, <1>5, <1>6 DEF PolicyInv, EditSeen, Remembers

LEMMA ClearKeeps == ASSUME PolicyInv, NEW w \in Servers, Clear(w) PROVE PolicyInv'
<1>1. /\ editing' = [editing EXCEPT ![w] = 0] /\ own' = [own EXCEPT ![w] = editing[w]]
      /\ memory' = [memory EXCEPT ![w] = NoMemory] /\ UNCHANGED <<stored, reading, ruled, raced>>
  BY DEF Clear, Forgotten
<1>2. Typed'
  BY <1>1, NothingKept DEF PolicyInv, Typed
<1>3. MemoryFits' /\ EditSeen'
  BY <1>1, NothingKept DEF PolicyInv, Typed, MemoryFits, EditSeen, Remembers
<1>. QED BY <1>1, <1>2, <1>3 DEF PolicyInv, GrantedIsFresh, AnswerFits

LEMMA TicksKeep == ASSUME PolicyInv, PolicyTicks PROVE PolicyInv'
<1>1. /\ \A w \in Servers : reading[w] = NotReading
      /\ UNCHANGED <<stored, reading, editing, own, raced>>
  BY DEF PolicyTicks
<1>2. memory' \in [Servers -> Kept]
      /\ \A w \in Servers : Remembers(w)' =>
           /\ memory'[w].left = memory[w].left - 1 /\ memory[w].left > 1
           /\ memory'[w].can = memory[w].can /\ memory'[w].of = memory[w].of /\ memory'[w].guess = memory[w].guess
  <2>1. memory' = [w \in Servers |-> IF memory[w].left <= 1 THEN NoMemory ELSE [memory[w] EXCEPT !.left = @ - 1]]
    BY DEF PolicyTicks
  <2>2. ASSUME NEW w \in Servers, ~(memory[w].left <= 1), NEW m, m = [memory[w] EXCEPT !.left = @ - 1]
        PROVE  m \in Kept /\ m.left = memory[w].left - 1 /\ m.can = memory[w].can
               /\ m.of = memory[w].of /\ m.guess = memory[w].guess
    BY <2>2, PolicyAssumption DEF PolicyInv, Typed, Kept
  <2>3. \A w \in Servers : memory[w].left \in Nat
    BY PolicyAssumption DEF PolicyInv, Typed, Kept
  <2>. QED BY <2>1, <2>2, <2>3, NothingKept DEF Remembers
<1>3. /\ ruled' \in [Capabilities -> 0..(KeptFor + 1)]
      /\ \A c \in Capabilities : /\ c \in Merged(stored.says) => ruled'[c] = 0
                                 /\ ruled[c] <= KeptFor => ruled'[c] <= ruled[c] + 1
  BY PolicyAssumption DEF PolicyTicks, PolicyInv, Typed
<1>4. Typed'
  BY <1>1, <1>2, <1>3 DEF PolicyInv, Typed
<1>5. GrantedIsFresh'
  BY <1>1, <1>3, GrantsKnown DEF GrantedIsFresh, Grants
<1>6. AnswerFits'
  BY <1>1, NothingKept DEF AnswerFits
<1>7. MemoryFits'
  <2> SUFFICES ASSUME NEW w \in Servers, Remembers(w)'
               PROVE  /\ memory'[w].guess => memory'[w].can \subseteq Defaults
                      /\ ~memory'[w].guess =>
                           \A c \in memory'[w].can : ruled'[c] + memory'[w].left <= KeptFor
    BY DEF MemoryFits
  <2>1. Remembers(w)
    BY <1>2, PolicyAssumption DEF Remembers, PolicyInv, Typed, Kept
  <2>2. ASSUME NEW c \in memory[w].can, ~memory[w].guess PROVE ruled'[c] + memory'[w].left <= KeptFor
    <3>1. c \in Capabilities /\ ruled[c] + memory[w].left <= KeptFor /\ memory[w].left \in 0..KeptFor
      BY <2>1, <2>2 DEF PolicyInv, MemoryFits, Typed, Kept, Grants
    <3>. QED BY <1>2, <1>3, <3>1, PolicyAssumption DEF PolicyInv, Typed
  <2>. QED BY <1>2, <2>1, <2>2 DEF PolicyInv, MemoryFits
<1>8. EditSeen'
  BY <1>1, <1>2, PolicyAssumption DEF PolicyInv, EditSeen, Remembers, Typed, Kept
<1>. QED BY <1>4, <1>5, <1>6, <1>7, <1>8 DEF PolicyInv

LEMMA PolicyStep == PolicyInv /\ [PolicyNext]_policyVars => PolicyInv'
<1>1. CASE UNCHANGED policyVars
  BY <1>1 DEF policyVars, PolicyInv, Typed, GrantedIsFresh, AnswerFits, MemoryFits, EditSeen, Remembers
<1>. QED
  BY <1>1, InquireKeeps, AnswerKeeps, KeepKeeps, EditKeeps, ClearKeeps, TicksKeep DEF PolicyNext

LEMMA PolicyHolds == PolicyInv => PolicyTypeOK /\ RevokedSoon /\ EditSeen
<1> SUFFICES ASSUME PolicyInv PROVE PolicyTypeOK /\ RevokedSoon
  BY DEF PolicyInv
<1>1. PolicyTypeOK
  BY DEF PolicyInv, Typed, PolicyTypeOK, Kept, Answers, Grants
<1>2. ASSUME NEW w \in Servers, NEW c \in Capabilities, Allows(w, c), ~(memory[w].guess /\ c \in Defaults)
      PROVE  ruled[c] < KeptFor
  <2>1. c \in memory[w].can /\ Remembers(w) /\ ~memory[w].guess
    BY <1>2 DEF Allows, PolicyInv, MemoryFits
  <2>2. ruled[c] + memory[w].left <= KeptFor /\ memory[w].left > 0
    BY <2>1 DEF PolicyInv, MemoryFits, Remembers
  <2>. QED BY <2>2, PolicyAssumption DEF PolicyInv, Typed, Kept
<1>. QED BY <1>1, <1>2 DEF RevokedSoon

-----------------------------------------------------------------------------
(* The audit trail.                                                          *)

Items == Sessions \cup Events
Done(e) == Recorded(e) \/ \E p \in Recorders : rec[p].job = e
Polling(p) == rec[p].at = "each" \/ rec[p].job \in Events

\* What a recorder carries fits what it does.
TasksFit ==
  \A p \in Recorders :
    /\ rec[p].at \in {"idle", "mark", "each"} <=> rec[p].job = NoJob
    /\ rec[p].at \in {"idle", "mark"} \/ rec[p].job \in Sessions => rec[p].top = 0
    /\ rec[p].at = "idle" \/ rec[p].job \in Sessions => rec[p].todo = {}
    /\ rec[p].todo \subseteq kcEvents /\ rec[p].high <= rec[p].top
    /\ Polling(p) => \A e \in rec[p].todo : stamp[e] > rec[p].high

\* The last hash is read under the lock.
LockHeld == \A p \in Recorders : rec[p].at = "insert" => chainLock = p /\ rec[p].head = LastHash

\* Marks are times of events that Keycloak has told of.
Times == {0} \cup {stamp[d] : d \in kcEvents}
MarksKnown == mark \in Times /\ \A p \in Recorders : rec[p].top \in Times

\* What was claimed in the cache is done, or was lost.
KnownDone == \A e \in known \cap Events : Done(e) \/ e \in dropped

\* What a poller has not before it is done, or comes after all it has.
Owed(p, e) ==
  e \in rec[p].todo \/ (stamp[e] > rec[p].top /\ \A d \in rec[p].todo : stamp[e] > stamp[d])
NoneSkipped == \A p \in Recorders : \A e \in kcEvents \ (late \cup dropped) : Done(e) \/ Owed(p, e)

\* While the cache was never away, what is done is known to it, or behind the
\* mark of everyone, and nobody does what another does or did.
Passed(e) == e \in Events /\ stamp[e] <= mark /\ \A p \in Recorders : Polling(p) => stamp[e] <= rec[p].high
DoneIsKnown ==
  ~blackout =>
    /\ answers
    /\ \A p \in Recorders : rec[p].job # NoJob =>
         ~Recorded(rec[p].job) /\ \A q \in Recorders \ {p} : rec[q].job # rec[p].job
    /\ \A e \in Items : Done(e) => e \in known \/ Passed(e)

Orderly == AuditTypeOK /\ TasksFit /\ LockHeld /\ MarksKnown /\ ChainVerifies
Complete == KnownDone /\ NoneSkipped /\ NothingMissed
Single == DoneIsKnown /\ RecordedOnce
AuditInv == Orderly /\ Complete /\ Single

LEMMA Names == Nobody \notin Recorders /\ NoJob \notin Items /\ Sessions \cap Events = {}
BY AuditAssumption, NamesAssumption DEF Items

LEMMA NoHash == <<>> \in Seq(Items)
OBVIOUS

\* What a step makes of a recorder; the others stay.
Turns(p, at, item, rest, high, top, head) ==
  /\ rec' \in [Recorders -> Tasks] /\ \A q \in Recorders \ {p} : rec'[q] = rec[q]
  /\ rec'[p].at = at /\ rec'[p].job = item /\ rec'[p].todo = rest
  /\ rec'[p].high = high /\ rec'[p].top = top /\ rec'[p].head = head

LEMMA DoesTask ==
  ASSUME AuditTypeOK, NEW p \in Recorders,
         NEW at \in {"idle", "mark", "each", "wait", "insert"}, NEW item \in Items \cup {NoJob},
         NEW rest \in SUBSET Events, NEW high \in Nat, NEW top \in Nat, NEW head \in Seq(Items),
         Does(p, Task(at, item, rest, high, top, head))
  PROVE  Turns(p, at, item, rest, high, top, head)
<1> DEFINE t == Task(at, item, rest, high, top, head)
<1>1. /\ t \in Tasks /\ t.at = at /\ t.job = item /\ t.todo = rest
      /\ t.high = high /\ t.top = top /\ t.head = head
  BY DEF Task, Tasks, Items
<1>2. rec' = [rec EXCEPT ![p] = t]
  BY DEF Does
<1> HIDE DEF t
<1>. QED BY <1>1, <1>2 DEF Turns, AuditTypeOK

LEMMA DoesIdle ==
  ASSUME AuditTypeOK, NEW p \in Recorders, Does(p, Idle)
  PROVE  Turns(p, "idle", NoJob, {}, 0, 0, <<>>)
BY DoesTask, NoHash DEF Idle

\* Whoever has written, or failed to, goes on as its task says.
LEMMA ServedTask ==
  ASSUME Orderly, NEW p \in Recorders, rec[p].at \in {"wait", "insert"}, Served(p)
  PROVE  /\ rec[p].job \in Items
         /\ Turns(p, IF rec[p].job \in Events THEN "each" ELSE "idle", NoJob,
                    rec[p].todo, rec[p].high, rec[p].top, <<>>)
<1>1. rec[p] \in Tasks /\ rec[p].job \in Items
  BY DEF Orderly, AuditTypeOK, TasksFit, Tasks, Items
<1>2. CASE rec[p].job \in Events
  BY <1>1, <1>2, DoesTask, NoHash DEF Served, Tasks, Orderly
<1>3. CASE rec[p].job \notin Events
  <2>1. rec[p].todo = {} /\ rec[p].top = 0 /\ rec[p].high = 0
    BY <1>1, <1>3 DEF Orderly, TasksFit, Items, Tasks
  <2>. QED BY <1>1, <1>3, <2>1, DoesIdle DEF Served, Orderly
<1>. QED BY <1>2, <1>3

Row == [what : Items, prev : Seq(Items)]

LEMMA LastRow ==
  ASSUME AuditTypeOK
  PROVE  /\ log \in Seq(Row) /\ LastHash \in Seq(Items)
         /\ (log = <<>> => LastHash = <<>>)
         /\ (log # <<>> => LastHash = HashOf(log[Len(log)].prev, log[Len(log)].what))
<1>1. log \in Seq(Row)
  BY DEF AuditTypeOK, Items, Row
<1>2. log # <<>> => log[Len(log)] \in Row
  <2>1. log # <<>> => Len(log) \in 1..Len(log)
    BY <1>1, EmptySeq
  <2>. QED BY <1>1, <2>1, ElementOfSeq
<1>3. log # <<>> => HashOf(log[Len(log)].prev, log[Len(log)].what) \in Seq(Items)
  BY <1>2 DEF HashOf, Row
<1>. QED BY <1>1, <1>3, NoHash DEF LastHash, Last, HashOf

-----------------------------------------------------------------------------
\* What each step does.

LEMMA LoadDoes ==
  ASSUME Orderly, NEW p \in Recorders, NEW s \in Sessions, PageLoad(p, s)
  PROVE  /\ UNCHANGED <<log, chainLock, stamp, kcEvents, mark, answers, dropped, late, blackout>>
         /\ \/ UNCHANGED <<rec, known>>
            \/ /\ rec[p].at = "idle" /\ ~(answers /\ s \in known)
               /\ Turns(p, "wait", s, {}, 0, 0, <<>>)
               /\ known' = IF answers THEN known \cup {s} ELSE known
BY DoesTask, NoHash DEF PageLoad, Orderly, Items

LEMMA FetchDoes ==
  ASSUME Orderly, NEW p \in Recorders, Fetch(p)
  PROVE  /\ UNCHANGED <<log, chainLock, stamp, kcEvents, mark, known, answers, dropped, blackout>>
         /\ rec[p].at = "idle"
         /\ \E P \in SUBSET kcEvents : /\ Turns(p, "mark", NoJob, P, 0, 0, <<>>)
                                       /\ late' = late \cup {e \in kcEvents \ P : stamp[e] > mark}
<1>1. PICK P \in SUBSET kcEvents : /\ Does(p, Task("mark", NoJob, P, 0, 0, <<>>))
                                   /\ late' = late \cup {e \in kcEvents \ P : stamp[e] > mark}
  BY DEF Fetch, Newest
<1>2. P \in SUBSET Events
  BY DEF Orderly, AuditTypeOK
<1>3. Turns(p, "mark", NoJob, P, 0, 0, <<>>)
  BY <1>1, <1>2, DoesTask, NoHash DEF Orderly
<1>. QED BY <1>1, <1>3 DEF Fetch, feedVars

LEMMA MarkDoes ==
  ASSUME Orderly, NEW p \in Recorders, ReadMark(p)
  PROVE  /\ UNCHANGED <<log, chainLock, stamp, kcEvents, mark, known, answers, dropped, late, blackout>>
         /\ rec[p].at = "mark"
         /\ \E h \in {mark, 0} : /\ answers => h = mark
                                 /\ Turns(p, "each", NoJob, Above(rec[p].todo, h), h, h, <<>>)
<1> DEFINE h == IF answers THEN mark ELSE 0
<1>1. Does(p, Task("each", NoJob, Above(rec[p].todo, h), h, h, <<>>)) /\ rec[p].at = "mark"
      /\ UNCHANGED <<log, chainLock, stamp, kcEvents, mark, known, answers, dropped, late, blackout>>
  BY DEF ReadMark, feedVars
<1>2. h \in Nat /\ Above(rec[p].todo, h) \in SUBSET Events
  BY DEF Orderly, AuditTypeOK, Tasks, Above
<1>3. h \in {mark, 0} /\ (answers => h = mark)
  OBVIOUS
<1> HIDE DEF h
<1>4. Turns(p, "each", NoJob, Above(rec[p].todo, h), h, h, <<>>)
  BY <1>1, <1>2, DoesTask, NoHash DEF Orderly
<1>. QED BY <1>1, <1>3, <1>4

LEMMA ClaimDoes ==
  ASSUME Orderly, NEW p \in Recorders, Claim(p)
  PROVE  /\ UNCHANGED <<log, chainLock, stamp, kcEvents, mark, answers, dropped, late, blackout>>
         /\ rec[p].at = "each"
         /\ \E e \in Oldest(rec[p].todo) :
              /\ known' = IF answers THEN known \cup {e} ELSE known
              /\ \/ /\ answers /\ e \in known
                    /\ Turns(p, "each", NoJob, rec[p].todo \ {e}, rec[p].high, Later(rec[p].top, e), <<>>)
                 \/ /\ ~(answers /\ e \in known)
                    /\ Turns(p, "wait", e, rec[p].todo \ {e}, rec[p].high, Later(rec[p].top, e), <<>>)
<1>1. PICK e \in Oldest(rec[p].todo) :
        /\ known' = IF answers THEN known \cup {e} ELSE known
        /\ IF answers /\ e \in known
             THEN Does(p, Task("each", NoJob, rec[p].todo \ {e}, rec[p].high, Later(rec[p].top, e), <<>>))
             ELSE Does(p, Task("wait", e, rec[p].todo \ {e}, rec[p].high, Later(rec[p].top, e), <<>>))
  BY DEF Claim
<1>2. /\ e \in Items /\ rec[p].todo \ {e} \in SUBSET Events /\ rec[p].high \in Nat
      /\ Later(rec[p].top, e) \in Nat
  BY DEF Orderly, AuditTypeOK, Tasks, Oldest, Later, Items
<1>3. \/ /\ answers /\ e \in known
         /\ Turns(p, "each", NoJob, rec[p].todo \ {e}, rec[p].high, Later(rec[p].top, e), <<>>)
      \/ /\ ~(answers /\ e \in known)
         /\ Turns(p, "wait", e, rec[p].todo \ {e}, rec[p].high, Later(rec[p].top, e), <<>>)
  BY <1>1, <1>2, DoesTask, NoHash DEF Orderly
<1>. QED BY <1>1, <1>3 DEF Claim

LEMMA StoreDoes ==
  ASSUME Orderly, NEW p \in Recorders, StoreMark(p)
  PROVE  /\ UNCHANGED <<log, chainLock, stamp, kcEvents, known, answers, dropped, late, blackout>>
         /\ rec[p].at = "each" /\ rec[p].todo = {}
         /\ Turns(p, "idle", NoJob, {}, 0, 0, <<>>)
         /\ mark' = mark \/ mark' = rec[p].top
         /\ (rec[p].top > rec[p].high /\ answers) \/ mark' = mark
BY DoesIdle DEF StoreMark, Orderly

LEMMA LockDoes ==
  ASSUME Orderly, NEW p \in Recorders, TakeLock(p)
  PROVE  /\ UNCHANGED <<log, stamp, kcEvents, mark, known, answers, dropped, late, blackout>>
         /\ rec[p].at = "wait" /\ chainLock = Nobody /\ chainLock' = p
         /\ Turns(p, "insert", rec[p].job, rec[p].todo, rec[p].high, rec[p].top, LastHash)
<1>1. /\ rec[p].job \in Items \cup {NoJob} /\ rec[p].todo \in SUBSET Events
      /\ rec[p].high \in Nat /\ rec[p].top \in Nat
  BY DEF Orderly, AuditTypeOK, Tasks, Items
<1>. QED BY <1>1, DoesTask, LastRow DEF TakeLock, feedVars, Orderly

LEMMA InsertDoes ==
  ASSUME Orderly, NEW p \in Recorders, Insert(p)
  PROVE  /\ UNCHANGED <<stamp, kcEvents, mark, known, answers, dropped, late, blackout>>
         /\ rec[p].at = "insert" /\ chainLock' = Nobody /\ rec[p].job \in Items
         /\ Turns(p, IF rec[p].job \in Events THEN "each" ELSE "idle", NoJob,
                    rec[p].todo, rec[p].high, rec[p].top, <<>>)
         /\ log' = Append(log, [what |-> rec[p].job, prev |-> rec[p].head])
BY ServedTask DEF Insert, feedVars

LEMMA FailDoes ==
  ASSUME Orderly, NEW p \in Recorders, WriteFails(p) \/ WorkerCrashes(p)
  PROVE  /\ UNCHANGED <<log, stamp, kcEvents, mark, known, answers, late, blackout>>
         /\ chainLock' = IF chainLock = p THEN Nobody ELSE chainLock
         /\ dropped' = dropped \cup ({rec[p].job} \ {NoJob})
         /\ \/ /\ rec[p].at \in {"wait", "insert"} /\ rec[p].job \in Items
               /\ Turns(p, IF rec[p].job \in Events THEN "each" ELSE "idle", NoJob,
                          rec[p].todo, rec[p].high, rec[p].top, <<>>)
            \/ Turns(p, "idle", NoJob, {}, 0, 0, <<>>)
<1>1. CASE WriteFails(p)
  BY <1>1, ServedTask, Names DEF WriteFails, feedVars
<1>2. CASE WorkerCrashes(p)
  BY <1>2, DoesIdle DEF WorkerCrashes, feedVars, Orderly
<1>. QED BY <1>1, <1>2
-----------------------------------------------------------------------------
\* Types, tasks, the lock and the chain.

ASound == AuditTypeOK /\ TasksFit /\ MarksKnown

LEMMA TimesAreTimes == ASSUME AuditTypeOK PROVE Times \subseteq Nat
BY DEF AuditTypeOK, Times

LEMMA LoadSound == ASSUME Orderly, NEW p \in Recorders, NEW s \in Sessions, PageLoad(p, s) PROVE ASound'
<1>1. CASE UNCHANGED <<rec, known>>
  BY <1>1, LoadDoes DEF Orderly, ASound, AuditTypeOK, TasksFit, MarksKnown, Times, Polling
<1>2. CASE /\ Turns(p, "wait", s, {}, 0, 0, <<>>) /\ known' = IF answers THEN known \cup {s} ELSE known
  <2>1. UNCHANGED <<log, chainLock, stamp, kcEvents, mark, answers, dropped, late, blackout>>
    BY LoadDoes
  <2>2. AuditTypeOK'
    BY <1>2, <2>1 DEF Orderly, AuditTypeOK, Turns
  <2>3. TasksFit'
    BY <1>2, <2>1, Names DEF Orderly, TasksFit, Turns, Polling, Items
  <2>4. MarksKnown'
    BY <1>2, <2>1 DEF Orderly, MarksKnown, Times, Turns
  <2>. QED BY <2>2, <2>3, <2>4 DEF ASound
<1>. QED BY <1>1, <1>2, LoadDoes

LEMMA FetchSound == ASSUME Orderly, NEW p \in Recorders, Fetch(p) PROVE ASound'
<1>1. PICK P \in SUBSET kcEvents : /\ Turns(p, "mark", NoJob, P, 0, 0, <<>>)
                                   /\ late' = late \cup {e \in kcEvents \ P : stamp[e] > mark}
  BY FetchDoes
<1>2. UNCHANGED <<log, chainLock, stamp, kcEvents, mark, known, answers, dropped, blackout>>
  BY FetchDoes
<1>3. AuditTypeOK'
  BY <1>1, <1>2 DEF Orderly, AuditTypeOK, Turns
<1>4. TasksFit'
  BY <1>1, <1>2, Names DEF Orderly, TasksFit, Turns, Polling, Items
<1>5. MarksKnown'
  BY <1>1, <1>2 DEF Orderly, MarksKnown, Times, Turns
<1>. QED BY <1>3, <1>4, <1>5 DEF ASound

LEMMA MarkSound == ASSUME Orderly, NEW p \in Recorders, ReadMark(p) PROVE ASound'
<1>1. PICK h \in {mark, 0} : Turns(p, "each", NoJob, Above(rec[p].todo, h), h, h, <<>>)
  BY MarkDoes
<1>2. UNCHANGED <<log, chainLock, stamp, kcEvents, mark, known, answers, dropped, late, blackout>>
  BY MarkDoes
<1>3. AuditTypeOK'
  BY <1>1, <1>2 DEF Orderly, AuditTypeOK, Turns
<1>4. TasksFit'
  <2>1. h \in Nat
    BY DEF Orderly, AuditTypeOK
  <2>. QED BY <1>1, <1>2, <2>1, Names DEF Orderly, TasksFit, Turns, Polling, Items, Above
<1>5. MarksKnown'
  BY <1>1, <1>2 DEF Orderly, MarksKnown, Times, Turns
<1>. QED BY <1>3, <1>4, <1>5 DEF ASound

LEMMA ClaimSound == ASSUME Orderly, NEW p \in Recorders, Claim(p) PROVE ASound'
<1>1. PICK e \in Oldest(rec[p].todo) :
        /\ known' = IF answers THEN known \cup {e} ELSE known
        /\ \/ /\ answers /\ e \in known
              /\ Turns(p, "each", NoJob, rec[p].todo \ {e}, rec[p].high, Later(rec[p].top, e), <<>>)
           \/ /\ ~(answers /\ e \in known)
              /\ Turns(p, "wait", e, rec[p].todo \ {e}, rec[p].high, Later(rec[p].top, e), <<>>)
  BY ClaimDoes
<1>2. UNCHANGED <<log, chainLock, stamp, kcEvents, mark, answers, dropped, late, blackout>>
  BY ClaimDoes
<1>3. /\ e \in rec[p].todo /\ e \in kcEvents /\ e \in Events /\ stamp[e] \in Nat \ {0}
      /\ rec[p].high \in Nat /\ rec[p].top \in Nat /\ rec[p].high <= rec[p].top
  BY DEF Orderly, AuditTypeOK, TasksFit, Tasks, Oldest
<1>4. /\ Later(rec[p].top, e) \in Nat /\ rec[p].high <= Later(rec[p].top, e)
      /\ Later(rec[p].top, e) \in Times
  BY <1>3 DEF Later, Orderly, MarksKnown, Times
<1>5. AuditTypeOK'
  BY <1>1, <1>2, <1>3 DEF Orderly, AuditTypeOK, Turns
<1>6. TasksFit'
  <2>1. /\ rec[p].at = "each" /\ rec[p].todo \subseteq kcEvents
        /\ \A d \in rec[p].todo : stamp[d] > rec[p].high
    BY ClaimDoes DEF Orderly, TasksFit, Polling
  <2>. QED BY <1>1, <1>2, <1>3, <1>4, <2>1, Names DEF Orderly, TasksFit, Turns, Polling, Items
<1>7. MarksKnown'
  BY <1>1, <1>2, <1>4 DEF Orderly, MarksKnown, Times, Turns
<1>. QED BY <1>5, <1>6, <1>7 DEF ASound

LEMMA StoreSound == ASSUME Orderly, NEW p \in Recorders, StoreMark(p) PROVE ASound'
<1>1. /\ UNCHANGED <<log, chainLock, stamp, kcEvents, known, answers, dropped, late, blackout>>
      /\ Turns(p, "idle", NoJob, {}, 0, 0, <<>>) /\ (mark' = mark \/ mark' = rec[p].top)
  BY StoreDoes
<1>2. AuditTypeOK'
  BY <1>1 DEF Orderly, AuditTypeOK, Turns, Tasks
<1>3. TasksFit'
  BY <1>1, Names DEF Orderly, TasksFit, Turns, Polling, Items
<1>4. MarksKnown'
  BY <1>1 DEF Orderly, MarksKnown, Times, Turns
<1>. QED BY <1>2, <1>3, <1>4 DEF ASound

LEMMA LockSound == ASSUME Orderly, NEW p \in Recorders, TakeLock(p) PROVE ASound'
<1>1. /\ UNCHANGED <<log, stamp, kcEvents, mark, known, answers, dropped, late, blackout>>
      /\ rec[p].at = "wait" /\ chainLock' = p
      /\ Turns(p, "insert", rec[p].job, rec[p].todo, rec[p].high, rec[p].top, LastHash)
  BY LockDoes
<1>2. AuditTypeOK'
  BY <1>1 DEF Orderly, AuditTypeOK, Turns
<1>3. TasksFit'
  BY <1>1, Names DEF Orderly, TasksFit, Turns, Polling
<1>4. MarksKnown'
  BY <1>1 DEF Orderly, MarksKnown, Times, Turns
<1>. QED BY <1>2, <1>3, <1>4 DEF ASound

\* A recorder that has written, or failed to, keeps what it had before it.
LEMMA DoneWriting ==
  ASSUME Orderly, NEW p \in Recorders, rec[p].job \in Items,
         Turns(p, IF rec[p].job \in Events THEN "each" ELSE "idle", NoJob,
                 rec[p].todo, rec[p].high, rec[p].top, <<>>),
         UNCHANGED <<stamp, kcEvents, mark>>
  PROVE  TasksFit' /\ MarksKnown'
<1>1. rec[p].job \notin Events => rec[p].todo = {} /\ rec[p].top = 0
  BY DEF Orderly, TasksFit, Items
<1>2. TasksFit'
  BY <1>1, Names DEF Orderly, TasksFit, Turns, Polling, Items
<1>3. MarksKnown'
  BY DEF Orderly, MarksKnown, Times, Turns
<1>. QED BY <1>2, <1>3

LEMMA InsertSound == ASSUME Orderly, NEW p \in Recorders, Insert(p) PROVE ASound'
<1>1. /\ UNCHANGED <<stamp, kcEvents, mark, known, answers, dropped, late, blackout>>
      /\ chainLock' = Nobody /\ rec[p].job \in Items
      /\ Turns(p, IF rec[p].job \in Events THEN "each" ELSE "idle", NoJob,
                    rec[p].todo, rec[p].high, rec[p].top, <<>>)
      /\ log' = Append(log, [what |-> rec[p].job, prev |-> rec[p].head])
  BY InsertDoes
<1>2. log' \in Seq(Row)
  <2>1. [what |-> rec[p].job, prev |-> rec[p].head] \in Row
    BY <1>1 DEF Row, Orderly, AuditTypeOK, Tasks, Items
  <2>. QED BY <1>1, <2>1, LastRow, AppendProperties DEF Orderly
<1>3. AuditTypeOK'
  BY <1>1, <1>2 DEF Orderly, AuditTypeOK, Turns, Row, Items
<1>. QED BY <1>1, <1>3, DoneWriting DEF ASound

LEMMA FailSound == ASSUME Orderly, NEW p \in Recorders, WriteFails(p) \/ WorkerCrashes(p) PROVE ASound'
<1>1. /\ UNCHANGED <<log, stamp, kcEvents, mark, known, answers, late, blackout>>
      /\ chainLock' = IF chainLock = p THEN Nobody ELSE chainLock
      /\ dropped' = dropped \cup ({rec[p].job} \ {NoJob})
  BY FailDoes
<1>2. dropped' \subseteq Sessions \cup Events
  BY <1>1 DEF Orderly, AuditTypeOK, Tasks
<1>3. CASE /\ rec[p].at \in {"wait", "insert"} /\ rec[p].job \in Items
           /\ Turns(p, IF rec[p].job \in Events THEN "each" ELSE "idle", NoJob,
                      rec[p].todo, rec[p].high, rec[p].top, <<>>)
  <2>1. AuditTypeOK'
    BY <1>1, <1>2, <1>3 DEF Orderly, AuditTypeOK, Turns
  <2>. QED BY <1>1, <1>3, <2>1, DoneWriting DEF ASound
<1>4. CASE Turns(p, "idle", NoJob, {}, 0, 0, <<>>)
  <2>1. AuditTypeOK'
    BY <1>1, <1>2, <1>4 DEF Orderly, AuditTypeOK, Turns
  <2>2. TasksFit'
    BY <1>1, <1>4, Names DEF Orderly, TasksFit, Turns, Polling, Items
  <2>3. MarksKnown'
    BY <1>1, <1>4 DEF Orderly, MarksKnown, Times, Turns
  <2>. QED BY <2>1, <2>2, <2>3 DEF ASound
<1>. QED BY <1>3, <1>4, FailDoes

LEMMA OutsideSound ==
  ASSUME Orderly, (\E e \in Events : Happens(e) \/ KeyExpires(e)) \/ CacheAway \/ CacheBack
  PROVE  ASound' /\ UNCHANGED <<log, chainLock, rec>>
<1>1. UNCHANGED <<log, chainLock, rec, stamp>>
  BY DEF Happens, KeyExpires, CacheAway, CacheBack
<1>2. AuditTypeOK'
  <2>1. /\ kcEvents' \subseteq Events /\ mark' \in Nat /\ known' \subseteq Sessions \cup Events
        /\ answers' \in BOOLEAN
    <3>1. ASSUME NEW e \in Events, Happens(e) PROVE kcEvents' = kcEvents \cup {e} /\ UNCHANGED <<mark, known, answers>>
      BY <3>1 DEF Happens
    <3>2. ASSUME NEW e \in Events, KeyExpires(e)
          PROVE  known' = known \ {e} /\ UNCHANGED <<kcEvents, mark, answers>>
      BY <3>2 DEF KeyExpires
    <3>3. CASE CacheAway
      BY <3>3 DEF CacheAway, Orderly, AuditTypeOK
    <3>4. CASE CacheBack
      BY <3>4 DEF CacheBack, Orderly, AuditTypeOK
    <3>. QED BY <3>1, <3>2, <3>3, <3>4 DEF Orderly, AuditTypeOK
  <2>2. dropped' = dropped /\ late' \subseteq Events /\ blackout' \in BOOLEAN
    BY DEF Orderly, AuditTypeOK, Happens, KeyExpires, CacheAway, CacheBack
  <2>. QED BY <1>1, <2>1, <2>2 DEF Orderly, AuditTypeOK
<1>3. kcEvents \subseteq kcEvents' /\ mark' \in {mark, 0}
  BY DEF Happens, KeyExpires, CacheAway, CacheBack
<1>4. TasksFit'
  BY <1>1, <1>3 DEF Orderly, TasksFit, Polling
<1>5. MarksKnown'
  BY <1>1, <1>3 DEF Orderly, MarksKnown, Times
<1>. QED BY <1>1, <1>2, <1>4, <1>5 DEF ASound
LEMMA AuditStepSound == ASSUME Orderly, AuditNext PROVE ASound'
BY LoadSound, FetchSound, MarkSound, ClaimSound, StoreSound, LockSound, InsertSound, FailSound, OutsideSound
   DEF AuditNext, Poll

\* The holder of the lock reads the last hash, and nobody appends meanwhile.
LEMMA ChainStep == ASSUME Orderly, AuditNext PROVE (LockHeld /\ ChainVerifies)'
<1>1. ASSUME UNCHANGED <<log, chainLock>>,
             \A q \in Recorders : rec'[q].at = "insert" => rec'[q] = rec[q]
      PROVE  (LockHeld /\ ChainVerifies)'
  BY <1>1 DEF Orderly, LockHeld, ChainVerifies, LastHash
<1>2. ASSUME NEW p \in Recorders, \/ Fetch(p) \/ ReadMark(p) \/ Claim(p) \/ StoreMark(p)
                                  \/ \E s \in Sessions : PageLoad(p, s)
      PROVE  (LockHeld /\ ChainVerifies)'
  <2>1. UNCHANGED <<log, chainLock>> /\ \A q \in Recorders : rec'[q].at = "insert" => rec'[q] = rec[q]
    BY <1>2, LoadDoes, FetchDoes, MarkDoes, ClaimDoes, StoreDoes DEF Turns
  <2>. QED BY <1>1, <2>1
<1>3. ASSUME NEW p \in Recorders, TakeLock(p) PROVE (LockHeld /\ ChainVerifies)'
  <2>1. /\ log' = log /\ chainLock = Nobody /\ chainLock' = p
        /\ Turns(p, "insert", rec[p].job, rec[p].todo, rec[p].high, rec[p].top, LastHash)
    BY <1>3, LockDoes
  <2>2. LockHeld'
    BY <2>1, Names DEF Orderly, LockHeld, Turns, LastHash
  <2>. QED BY <2>1, <2>2 DEF Orderly, ChainVerifies
<1>4. ASSUME NEW p \in Recorders, Insert(p) PROVE (LockHeld /\ ChainVerifies)'
  <2>1. /\ rec[p].at = "insert" /\ chainLock' = Nobody
        /\ Turns(p, IF rec[p].job \in Events THEN "each" ELSE "idle", NoJob,
                      rec[p].todo, rec[p].high, rec[p].top, <<>>)
    BY <1>4, InsertDoes
  <2> DEFINE entry == [what |-> rec[p].job, prev |-> rec[p].head]
  <2>2. log' = Append(log, entry) /\ entry \in Row /\ entry.prev = LastHash
    BY <1>4, InsertDoes DEF Orderly, LockHeld, Row, AuditTypeOK, Tasks, Items
  <2> HIDE DEF entry
  <2>3. chainLock = p /\ \A q \in Recorders \ {p} : rec[q].at # "insert"
    BY <2>1 DEF Orderly, LockHeld
  <2>4. LockHeld'
    BY <2>1, <2>3 DEF LockHeld, Turns
  <2>5. /\ log \in Seq(Row) /\ log' \in Seq(Row) /\ Len(log') = Len(log) + 1 /\ Len(log) \in Nat
        /\ log'[Len(log) + 1] = entry /\ \A i \in 1..Len(log) : log'[i] = log[i]
    BY <2>2, LastRow, AppendProperties, LenProperties DEF Orderly
  <2>6. DOMAIN log = 1..Len(log) /\ DOMAIN log' = 1..(Len(log) + 1)
    BY <2>5, LenProperties
  <2>7. entry.prev = IF Len(log) = 0 THEN <<>> ELSE HashOf(log[Len(log)].prev, log[Len(log)].what)
    BY <2>2, <2>5, LastRow, EmptySeq DEF Orderly
  <2>8. ASSUME NEW i \in 1..(Len(log) + 1)
        PROVE  log'[i].prev = IF i = 1 THEN <<>> ELSE HashOf(log'[i - 1].prev, log'[i - 1].what)
    <3>1. CASE i = Len(log) + 1
      <4>1. i = 1 \/ (i # 1 /\ i - 1 \in 1..Len(log) /\ i - 1 = Len(log) /\ Len(log) # 0)
        BY <2>5, <3>1
      <4>. QED BY <2>5, <2>7, <3>1, <4>1
    <3>2. CASE i # Len(log) + 1
      <4>1. i \in 1..Len(log) /\ (i = 1 \/ (i # 1 /\ i - 1 \in 1..Len(log)))
        BY <2>5, <3>2
      <4>2. log[i].prev = IF i = 1 THEN <<>> ELSE HashOf(log[i - 1].prev, log[i - 1].what)
        BY <2>6, <4>1 DEF Orderly, ChainVerifies
      <4>. QED BY <2>5, <4>1, <4>2
    <3>. QED BY <3>1, <3>2
  <2>9. ChainVerifies'
    BY <2>6, <2>8 DEF ChainVerifies
  <2>. QED BY <2>4, <2>9
<1>5. ASSUME NEW p \in Recorders, WriteFails(p) \/ WorkerCrashes(p) PROVE (LockHeld /\ ChainVerifies)'
  <2>1. log' = log /\ chainLock' = (IF chainLock = p THEN Nobody ELSE chainLock)
        /\ \A q \in Recorders : rec'[q].at = "insert" => rec'[q] = rec[q] /\ q # p
    BY <1>5, FailDoes DEF Turns
  <2>2. LockHeld'
    BY <2>1 DEF Orderly, LockHeld, LastHash
  <2>. QED BY <2>1, <2>2 DEF Orderly, ChainVerifies
<1>6. CASE (\E e \in Events : Happens(e) \/ KeyExpires(e)) \/ CacheAway \/ CacheBack
  BY <1>1, <1>6, OutsideSound
<1>. QED BY <1>2, <1>3, <1>4, <1>5, <1>6 DEF AuditNext, Poll

-----------------------------------------------------------------------------
\* Nothing is missed.

\* What is done stays done, or is lost with its claim.
Lasting == /\ late \subseteq late' /\ dropped \subseteq dropped'
           /\ \A e \in Items : Done(e) => Done(e)' \/ e \in dropped'

LEMMA RecordedLasts ==
  ASSUME Orderly, NEW p \in Recorders, Insert(p)
  PROVE  \A e : Recorded(e)' <=> Recorded(e) \/ e = rec[p].job
<1> DEFINE entry == [what |-> rec[p].job, prev |-> rec[p].head]
<1>1. log' = Append(log, entry) /\ entry \in Row /\ entry.what = rec[p].job
  BY InsertDoes DEF Row, Orderly, AuditTypeOK, Tasks, Items
<1> HIDE DEF entry
<1>2. /\ log \in Seq(Row) /\ log' \in Seq(Row) /\ Len(log') = Len(log) + 1 /\ Len(log) \in Nat
      /\ log'[Len(log) + 1] = entry /\ \A i \in 1..Len(log) : log'[i] = log[i]
  BY <1>1, LastRow, AppendProperties, LenProperties DEF Orderly
<1>3. DOMAIN log = 1..Len(log) /\ DOMAIN log' = 1..(Len(log) + 1)
  BY <1>2, LenProperties
<1>4. DOMAIN log' = DOMAIN log \cup {Len(log) + 1}
  BY <1>2, <1>3
<1>. QED BY <1>1, <1>2, <1>3, <1>4 DEF Recorded

LEMMA DoneLasts == ASSUME Orderly, AuditNext PROVE Lasting
<1>1. ASSUME UNCHANGED log, \A q \in Recorders : rec[q].job \in Items => rec'[q].job = rec[q].job \/ rec[q].job \in dropped',
             late \subseteq late', dropped \subseteq dropped'
      PROVE  Lasting
  BY <1>1 DEF Lasting, Done, Recorded
<1>2. ASSUME NEW p \in Recorders, \/ Fetch(p) \/ ReadMark(p) \/ Claim(p) \/ StoreMark(p)
                                  \/ \E s \in Sessions : PageLoad(p, s)
      PROVE  Lasting
  <2>1. UNCHANGED <<log, dropped>> /\ late \subseteq late'
    BY <1>2, LoadDoes, FetchDoes, MarkDoes, ClaimDoes, StoreDoes
  <2>2. UNCHANGED rec \/ (rec[p].job = NoJob /\ \A q \in Recorders \ {p} : rec'[q] = rec[q])
    BY <1>2, LoadDoes, FetchDoes, MarkDoes, ClaimDoes, StoreDoes DEF Turns, Orderly, TasksFit
  <2>. QED BY <1>1, <2>1, <2>2, Names
<1>3. ASSUME NEW p \in Recorders, TakeLock(p) PROVE Lasting
  BY <1>1, <1>3, LockDoes DEF Turns
<1>4. ASSUME NEW p \in Recorders, Insert(p) PROVE Lasting
  <2>1. late' = late /\ dropped' = dropped /\ \A q \in Recorders \ {p} : rec'[q] = rec[q]
    BY <1>4, InsertDoes DEF Turns
  <2>. QED BY <1>4, <2>1, RecordedLasts DEF Lasting, Done
<1>5. ASSUME NEW p \in Recorders, WriteFails(p) \/ WorkerCrashes(p) PROVE Lasting
  BY <1>1, <1>5, FailDoes, Names DEF Turns
<1>6. CASE (\E e \in Events : Happens(e) \/ KeyExpires(e)) \/ CacheAway \/ CacheBack
  <2>1. late \subseteq late' /\ dropped' = dropped
    BY <1>6 DEF Happens, KeyExpires, CacheAway, CacheBack
  <2>. QED BY <1>1, <1>6, <2>1, OutsideSound
<1>. QED BY <1>2, <1>3, <1>4, <1>5, <1>6 DEF AuditNext, Poll
LEMMA LastingMarks ==
  ASSUME Orderly, Complete, AuditNext, mark' \in {mark, 0}, UNCHANGED <<stamp, kcEvents>>
  PROVE  NothingMissed'
<1>1. Lasting
  BY DoneLasts
<1>2. ASSUME NEW e \in kcEvents, stamp[e] <= mark', e \notin late' \cup dropped' PROVE Done(e)'
  <2>1. e \in Items /\ stamp[e] <= mark /\ e \notin late \cup dropped
    BY <1>1, <1>2 DEF Lasting, Orderly, AuditTypeOK, Items
  <2>. QED BY <1>1, <1>2, <2>1 DEF Complete, NothingMissed, Lasting, Done
<1>. QED BY <1>2 DEF NothingMissed, Done

\* A step that leaves a poller's task shorter by nothing keeps what it owes.
LEMMA OwingLasts ==
  ASSUME Orderly, Complete, AuditNext, NEW q \in Recorders, UNCHANGED <<stamp, kcEvents>>,
         rec'[q].todo = rec[q].todo, rec'[q].top = rec[q].top
  PROVE  \A e \in kcEvents \ (late' \cup dropped') : Done(e)' \/ Owed(q, e)'
<1>1. Lasting
  BY DoneLasts
<1>2. kcEvents \subseteq Items
  BY DEF Orderly, AuditTypeOK, Items
<1>. QED BY <1>1, <1>2 DEF Lasting, Complete, NoneSkipped, Owed

LEMMA OthersOwe ==
  ASSUME Orderly, Complete, AuditNext, NEW p \in Recorders, UNCHANGED <<stamp, kcEvents>>,
         \A q \in Recorders \ {p} : rec'[q] = rec[q],
         \A e \in kcEvents \ (late' \cup dropped') : Done(e)' \/ Owed(p, e)'
  PROVE  NoneSkipped'
BY OwingLasts DEF NoneSkipped

LEMMA KnownLasts ==
  ASSUME Orderly, Complete, AuditNext, NEW e \in known \cap Events PROVE Done(e)' \/ e \in dropped'
BY DoneLasts DEF Lasting, Complete, KnownDone, Items

LEMMA CompleteStep == ASSUME Orderly, Complete, AuditNext PROVE Complete'
<1>0. Lasting
  BY DoneLasts
<1>0a. \A e \in Events : stamp[e] > 0 /\ stamp[e] \in Nat
  BY DEF Orderly, AuditTypeOK
<1>1. ASSUME UNCHANGED <<stamp, kcEvents, mark>>, known' \subseteq known PROVE (KnownDone /\ NothingMissed)'
  BY <1>1, KnownLasts, LastingMarks DEF KnownDone
<1>2. ASSUME NEW p \in Recorders, NEW s \in Sessions, PageLoad(p, s) PROVE Complete'
  <2>1. UNCHANGED <<stamp, kcEvents, mark>> /\ known' \cap Events = known \cap Events
    BY <1>2, LoadDoes, Names
  <2>2. \A q \in Recorders : rec'[q].todo = rec[q].todo /\ rec'[q].top = rec[q].top
    BY <1>2, LoadDoes DEF Turns, Orderly, TasksFit
  <2>3. NoneSkipped'
    BY <2>1, <2>2, OwingLasts DEF NoneSkipped
  <2>4. KnownDone'
    BY <2>1, KnownLasts DEF KnownDone
  <2>. QED BY <2>1, <2>3, <2>4, LastingMarks DEF Complete
<1>3. ASSUME NEW p \in Recorders, Fetch(p) PROVE Complete'
  <2>1. PICK P \in SUBSET kcEvents : /\ Turns(p, "mark", NoJob, P, 0, 0, <<>>)
                                     /\ late' = late \cup {e \in kcEvents \ P : stamp[e] > mark}
    BY <1>3, FetchDoes
  <2>2. UNCHANGED <<stamp, kcEvents, mark, known, dropped>>
    BY <1>3, FetchDoes
  <2>3. ASSUME NEW e \in kcEvents \ (late' \cup dropped'), e \notin P PROVE Done(e)'
    <3>1. e \in Events /\ stamp[e] <= mark /\ e \notin late \cup dropped
      BY <2>1, <2>2, <2>3 DEF Orderly, AuditTypeOK
    <3>. QED BY <1>0, <2>2, <3>1 DEF Complete, NothingMissed, Lasting, Done, Items
  <2>4. \A e \in kcEvents \ (late' \cup dropped') : Done(e)' \/ Owed(p, e)'
    BY <2>1, <2>3 DEF Owed, Turns
  <2>5. \A q \in Recorders \ {p} : rec'[q] = rec[q]
    BY <2>1 DEF Turns
  <2>. QED BY <1>1, <2>2, <2>4, <2>5, OthersOwe DEF Complete
<1>4. ASSUME NEW p \in Recorders, ReadMark(p) PROVE Complete'
  <2>1. PICK h \in {mark, 0} : Turns(p, "each", NoJob, Above(rec[p].todo, h), h, h, <<>>)
    BY <1>4, MarkDoes
  <2>2. UNCHANGED <<stamp, kcEvents, mark, known, dropped, late>> /\ rec[p].at = "mark"
    BY <1>4, MarkDoes
  <2>3. ASSUME NEW e \in kcEvents \ (late' \cup dropped'), ~Done(e)' PROVE Owed(p, e)'
    <3>1. e \in Events /\ e \notin late \cup dropped /\ ~Done(e)
      BY <1>0, <2>2, <2>3 DEF Lasting, Orderly, AuditTypeOK, Items
    <3>2. stamp[e] > h /\ h \in Nat
      <4>1. ~(stamp[e] <= mark) /\ mark \in Nat
        BY <3>1, <2>3 DEF Complete, NothingMissed, Done, Orderly, AuditTypeOK
      <4>. QED BY <1>0a, <3>1, <4>1
    <3>3. Owed(p, e)
      BY <2>3, <3>1 DEF Complete, NoneSkipped
    <3>. QED BY <2>1, <2>2, <3>2, <3>3 DEF Owed, Turns, Above
  <2>5. \A q \in Recorders \ {p} : rec'[q] = rec[q]
    BY <2>1 DEF Turns
  <2>. QED BY <1>1, <2>2, <2>3, <2>5, OthersOwe DEF Complete
<1>5. ASSUME NEW p \in Recorders, Claim(p) PROVE Complete'
  <2>1. PICK e \in Oldest(rec[p].todo) :
          /\ known' = IF answers THEN known \cup {e} ELSE known
          /\ \/ /\ answers /\ e \in known
                /\ Turns(p, "each", NoJob, rec[p].todo \ {e}, rec[p].high, Later(rec[p].top, e), <<>>)
             \/ /\ ~(answers /\ e \in known)
                /\ Turns(p, "wait", e, rec[p].todo \ {e}, rec[p].high, Later(rec[p].top, e), <<>>)
    BY <1>5, ClaimDoes
  <2>2. UNCHANGED <<stamp, kcEvents, mark, dropped, late>>
    BY <1>5, ClaimDoes
  <2>3. e \in rec[p].todo /\ e \in Events /\ \A d \in rec[p].todo : stamp[e] <= stamp[d]
    BY DEF Oldest, Orderly, AuditTypeOK, Tasks
  <2>4. Done(e)' \/ e \in dropped'
    <3>1. CASE answers /\ e \in known
      BY <2>3, <3>1, KnownLasts
    <3>2. CASE ~(answers /\ e \in known)
      BY <2>1, <3>2 DEF Done, Turns
    <3>. QED BY <3>1, <3>2
  <2>5. ASSUME NEW f \in kcEvents \ (late' \cup dropped'), ~Done(f)' PROVE Owed(p, f)'
    <3>1. f \in Events /\ f \notin late \cup dropped /\ ~Done(f) /\ f # e
      BY <1>0, <2>2, <2>4, <2>5 DEF Lasting, Orderly, AuditTypeOK, Items
    <3>2. Owed(p, f)
      BY <2>5, <3>1 DEF Complete, NoneSkipped
    <3>3. /\ rec'[p].todo = rec[p].todo \ {e} /\ rec'[p].top = Later(rec[p].top, e) /\ stamp' = stamp
      BY <2>1, <2>2 DEF Turns
    <3>4. CASE f \in rec[p].todo
      BY <3>1, <3>3, <3>4 DEF Owed
    <3>5. CASE f \notin rec[p].todo
      <4>1. stamp[f] > rec[p].top /\ \A d \in rec[p].todo : stamp[f] > stamp[d]
        BY <3>2, <3>5 DEF Owed
      <4>. QED BY <2>3, <3>3, <4>1 DEF Owed, Later
    <3>. QED BY <3>4, <3>5
  <2>6. \A q \in Recorders \ {p} : rec'[q] = rec[q]
    BY <2>1 DEF Turns
  <2>7. KnownDone'
    BY <2>1, <2>4, KnownLasts DEF KnownDone
  <2>. QED BY <2>2, <2>5, <2>6, <2>7, OthersOwe, LastingMarks DEF Complete
<1>6. ASSUME NEW p \in Recorders, StoreMark(p) PROVE Complete'
  <2>1. /\ UNCHANGED <<stamp, kcEvents, known, dropped, late>> /\ rec[p].todo = {}
        /\ Turns(p, "idle", NoJob, {}, 0, 0, <<>>) /\ (mark' = mark \/ mark' = rec[p].top)
    BY <1>6, StoreDoes
  <2>2. \A e \in kcEvents \ (late' \cup dropped') : Done(e)' \/ Owed(p, e)'
    BY <1>0a, <2>1 DEF Turns, Owed, Orderly, AuditTypeOK
  <2>3. NoneSkipped'
    BY <2>1, <2>2, OthersOwe DEF Turns
  <2>4. KnownDone'
    BY <2>1, KnownLasts DEF KnownDone
  <2>5. NothingMissed'
    <3>1. CASE mark' = mark
      BY <2>1, <3>1, LastingMarks
    <3>2. CASE mark' = rec[p].top
      <4>1. ASSUME NEW e \in kcEvents, stamp[e] <= rec[p].top, e \notin late' \cup dropped' PROVE Done(e)'
        <5>1. e \in Events /\ ~Owed(p, e)
          BY <2>1, <4>1 DEF Owed, Orderly, AuditTypeOK, Tasks
        <5>. QED BY <1>0, <2>1, <4>1, <5>1 DEF Complete, NoneSkipped, Lasting, Items
      <4>. QED BY <2>1, <3>2, <4>1 DEF NothingMissed, Done
    <3>. QED BY <2>1, <3>1, <3>2
  <2>. QED BY <2>3, <2>4, <2>5 DEF Complete
<1>7. ASSUME NEW p \in Recorders, TakeLock(p) \/ Insert(p) PROVE Complete'
  <2>1. /\ UNCHANGED <<stamp, kcEvents, mark, known, dropped, late>>
        /\ \A q \in Recorders : rec'[q].todo = rec[q].todo /\ rec'[q].top = rec[q].top
    BY <1>7, LockDoes, InsertDoes DEF Turns
  <2>. QED BY <1>1, <2>1, OwingLasts DEF Complete, NoneSkipped
<1>8. ASSUME NEW p \in Recorders, WriteFails(p) \/ WorkerCrashes(p) PROVE Complete'
  <2>1. /\ UNCHANGED <<stamp, kcEvents, mark, known, late>>
        /\ \A q \in Recorders \ {p} : rec'[q] = rec[q]
        /\ \/ rec'[p].todo = rec[p].todo /\ rec'[p].top = rec[p].top
           \/ rec'[p].todo = {} /\ rec'[p].top = 0
    BY <1>8, FailDoes DEF Turns
  <2>2. \A e \in kcEvents \ (late' \cup dropped') : Done(e)' \/ Owed(p, e)'
    <3>1. CASE rec'[p].todo = rec[p].todo /\ rec'[p].top = rec[p].top
      BY <2>1, <3>1, OwingLasts
    <3>2. CASE rec'[p].todo = {} /\ rec'[p].top = 0
      BY <1>0a, <2>1, <3>2 DEF Owed, Orderly, AuditTypeOK
    <3>. QED BY <2>1, <3>1, <3>2
  <2>. QED BY <1>1, <2>1, <2>2, OthersOwe DEF Complete
<1>9. ASSUME NEW e \in Events, Happens(e) PROVE Complete'
  <2>1. /\ kcEvents' = kcEvents \cup {e} /\ e \notin kcEvents
        /\ late' = IF \E d \in kcEvents : stamp[d] >= stamp[e] THEN late \cup {e} ELSE late
        /\ UNCHANGED <<log, stamp, mark, known, rec, dropped>>
    BY <1>9 DEF Happens
  <2>2. e \notin late' => \A t \in Times : stamp[e] > t
    <3>1. ASSUME e \notin late', NEW d \in kcEvents PROVE stamp[e] > stamp[d]
      BY <1>0a, <2>1, <3>1 DEF Orderly, AuditTypeOK
    <3>. QED BY <1>0a, <3>1 DEF Times
  <2>3. e \notin late' => stamp[e] > mark
    BY <2>2 DEF Orderly, MarksKnown
  <2>4. ASSUME NEW q \in Recorders, e \notin late' PROVE Owed(q, e)'
    <3>1. \A d \in rec[q].todo : stamp[d] \in Times
      BY DEF Orderly, TasksFit, Times
    <3>2. rec[q].top \in Times
      BY DEF Orderly, MarksKnown
    <3>. QED BY <2>1, <2>2, <2>4, <3>1, <3>2 DEF Owed
  <2>5. \A f : Done(f)' = Done(f)
    BY <2>1 DEF Done, Recorded
  <2>6. NoneSkipped'
    <3>1. \A q \in Recorders, f \in kcEvents : Owed(q, f)' <=> Owed(q, f)
      BY <2>1 DEF Owed
    <3>. QED BY <2>1, <2>4, <2>5, <3>1 DEF NoneSkipped, Complete
  <2>7. NothingMissed'
    <3>1. ~(e \notin late' /\ stamp[e] <= mark)
      BY <1>0a, <2>3 DEF Orderly, AuditTypeOK
    <3>. QED BY <2>1, <3>1 DEF NothingMissed, Complete, Recorded
  <2>. QED BY <2>1, <2>6, <2>7, KnownLasts DEF Complete, KnownDone
<1>10. ASSUME NEW e \in Events, KeyExpires(e) PROVE Complete'
  <2>1. UNCHANGED <<stamp, kcEvents, mark, rec>> /\ known' \subseteq known
    BY <1>10 DEF KeyExpires
  <2>. QED BY <1>1, <2>1, OwingLasts DEF Complete, NoneSkipped
<1>11. CASE CacheAway
  <2>1. UNCHANGED <<stamp, kcEvents, mark, rec, known>>
    BY <1>11 DEF CacheAway
  <2>. QED BY <1>1, <2>1, OwingLasts DEF Complete, NoneSkipped
<1>12. CASE CacheBack
  <2>1. UNCHANGED <<stamp, kcEvents, rec>> /\ known' \subseteq known /\ mark' \in {mark, 0}
    BY <1>12 DEF CacheBack
  <2>2. KnownDone'
    BY <2>1, KnownLasts DEF KnownDone
  <2>. QED BY <2>1, <2>2, LastingMarks, OwingLasts DEF Complete, NoneSkipped
<1>. QED
  BY <1>2, <1>3, <1>4, <1>5, <1>6, <1>7, <1>8, <1>9, <1>10, <1>11, <1>12 DEF AuditNext, Poll
-----------------------------------------------------------------------------
\* Nothing is said twice.

\* A step that begins nothing new and forgets nothing keeps it so.
LEMMA SingleLasts ==
  ASSUME Orderly, Single, UNCHANGED <<log, stamp, answers>>, ~blackout' => ~blackout,
         \A q \in Recorders : rec'[q].job # NoJob => rec'[q].job = rec[q].job,
         \A e \in known : e \in known' \/ Passed(e)', \A e \in Events : Passed(e) => Passed(e)'
  PROVE  Single'
<1>1. \A e \in Items : Done(e)' => Done(e)
  BY Names DEF Done, Recorded
<1>2. \A e : Recorded(e)' = Recorded(e)
  BY DEF Recorded
<1>3. ASSUME ~blackout', NEW q \in Recorders, rec'[q].job # NoJob
      PROVE  ~Recorded(rec[q].job)' /\ \A r \in Recorders \ {q} : rec'[r].job # rec'[q].job
  <2>1. rec'[q].job = rec[q].job /\ rec[q].job # NoJob
    BY <1>3
  <2>2. ~Recorded(rec[q].job) /\ \A r \in Recorders \ {q} : rec[r].job # rec[q].job
    BY <1>3, <2>1 DEF Single, DoneIsKnown
  <2>3. \A r \in Recorders : rec'[r].job = NoJob \/ rec'[r].job = rec[r].job
    OBVIOUS
  <2>. QED BY <1>2, <1>3, <2>1, <2>2, <2>3
<1>4. ASSUME ~blackout', NEW e \in Items, Done(e)' PROVE e \in known' \/ Passed(e)'
  <2>1. e \in known \/ Passed(e)
    BY <1>1, <1>4 DEF Single, DoneIsKnown, Orderly, AuditTypeOK
  <2>. QED BY <2>1 DEF Passed
<1>5. DoneIsKnown'
  <2>1. ~blackout' => answers'
    BY DEF Single, DoneIsKnown
  <2>2. ~blackout' => \A q \in Recorders : rec'[q].job # NoJob =>
          ~Recorded(rec[q].job)' /\ \A r \in Recorders \ {q} : rec'[r].job # rec'[q].job
    BY <1>3
  <2>. QED BY <1>4, <2>1, <2>2 DEF DoneIsKnown
<1>6. RecordedOnce'
  BY DEF RecordedOnce, Single, Orderly, AuditTypeOK
<1>. QED BY <1>5, <1>6 DEF Single

\* A claim of what nobody has done nor does.
LEMMA SingleGrows ==
  ASSUME Orderly, Single, UNCHANGED <<log, stamp, mark, answers, blackout>>, NEW p \in Recorders,
         NEW e \in Items, rec[p].job = NoJob, rec'[p].job = e, ~blackout => ~Done(e) /\ e \in known',
         \A q \in Recorders \ {p} : rec'[q] = rec[q], known \subseteq known',
         \A d \in Events : Passed(d) => Passed(d)'
  PROVE  Single'
<1>1. \A d \in Items : Done(d)' => Done(d) \/ d = e
  BY Names DEF Done, Recorded
<1>2. \A d : Recorded(d)' = Recorded(d)
  BY DEF Recorded
<1>3. ASSUME ~blackout', NEW q \in Recorders, rec'[q].job # NoJob
      PROVE  ~Recorded(rec[q].job)' /\ \A r \in Recorders \ {q} : rec'[r].job # rec'[q].job
  <2>1. ~Recorded(e)' /\ \A r \in Recorders \ {p} : rec'[r].job # e
    BY <1>2, <1>3 DEF Done
  <2>2. CASE q = p
    BY <2>1, <2>2
  <2>3. CASE q # p
    <3>1. rec'[q].job = rec[q].job /\ rec[q].job # NoJob
      BY <1>3, <2>3
    <3>2. ~Recorded(rec[q].job) /\ \A r \in Recorders \ {q} : rec[r].job # rec[q].job
      BY <1>3, <3>1 DEF Single, DoneIsKnown
    <3>3. \A r \in Recorders \ {q} : rec'[r].job # rec'[q].job
      BY <2>1, <2>3, <3>1, <3>2
    <3>. QED BY <1>2, <3>1, <3>2, <3>3
  <2>. QED BY <2>2, <2>3
<1>4. ASSUME ~blackout', NEW d \in Items, Done(d)' PROVE d \in known' \/ Passed(d)'
  <2>1. d = e \/ d \in known \/ Passed(d)
    BY <1>1, <1>4 DEF Single, DoneIsKnown
  <2>. QED BY <1>4, <2>1 DEF Passed
<1>5. DoneIsKnown'
  <2>1. ~blackout' => answers'
    BY DEF Single, DoneIsKnown
  <2>2. ~blackout' => \A q \in Recorders : rec'[q].job # NoJob =>
          ~Recorded(rec[q].job)' /\ \A r \in Recorders \ {q} : rec'[r].job # rec'[q].job
    BY <1>3
  <2>. QED BY <1>4, <2>1, <2>2 DEF DoneIsKnown
<1>6. RecordedOnce'
  BY DEF RecordedOnce, Single
<1>. QED BY <1>5, <1>6 DEF Single

LEMMA SingleStep == ASSUME Orderly, Single, AuditNext PROVE Single'
<1>0. \A e \in Events : stamp[e] \in Nat /\ stamp[e] > 0
  BY DEF Orderly, AuditTypeOK
<1>1. ASSUME NEW p \in Recorders, NEW s \in Sessions, PageLoad(p, s) PROVE Single'
  <2>1. UNCHANGED <<log, stamp, mark, answers, blackout>>
    BY <1>1, LoadDoes
  <2>2. CASE UNCHANGED <<rec, known>>
    <3>1. \A e \in Events : Passed(e) => Passed(e)'
      BY <2>1, <2>2 DEF Passed, Polling
    <3>. QED BY <2>1, <2>2, <3>1, SingleLasts
  <2>3. CASE /\ rec[p].at = "idle" /\ ~(answers /\ s \in known) /\ Turns(p, "wait", s, {}, 0, 0, <<>>)
             /\ known' = IF answers THEN known \cup {s} ELSE known
    <3>1. \A e \in Events : Passed(e) => Passed(e)'
      BY <2>1, <2>3, Names DEF Passed, Polling, Turns
    <3>2. ~blackout => ~Done(s) /\ s \in known'
      BY <2>3, Names DEF Single, DoneIsKnown, Passed, Items
    <3>3. rec[p].job = NoJob /\ rec'[p].job = s /\ s \in Items /\ \A q \in Recorders \ {p} : rec'[q] = rec[q]
      BY <2>3 DEF Orderly, TasksFit, Turns, Items
    <3>. QED BY <2>1, <2>3, <3>1, <3>2, <3>3, SingleGrows
  <2>. QED BY <1>1, <2>2, <2>3, LoadDoes
<1>2. ASSUME NEW p \in Recorders, Fetch(p) PROVE Single'
  <2>1. PICK P \in SUBSET kcEvents : Turns(p, "mark", NoJob, P, 0, 0, <<>>)
    BY <1>2, FetchDoes
  <2>2. UNCHANGED <<log, stamp, mark, known, answers, blackout>>
    BY <1>2, FetchDoes
  <2>3. \A e \in Events : Passed(e) => Passed(e)'
    BY <2>1, <2>2, Names DEF Passed, Polling, Turns, Items
  <2>. QED BY <2>1, <2>2, <2>3, SingleLasts DEF Turns
<1>3. ASSUME NEW p \in Recorders, ReadMark(p) PROVE Single'
  <2>1. PICK h \in {mark, 0} : /\ answers => h = mark
                               /\ Turns(p, "each", NoJob, Above(rec[p].todo, h), h, h, <<>>)
    BY <1>3, MarkDoes
  <2>2. UNCHANGED <<log, stamp, mark, known, answers, blackout>>
    BY <1>3, MarkDoes
  <2>3. CASE answers
    <3>1. \A e \in Events : Passed(e) => Passed(e)'
      BY <2>1, <2>2, <2>3 DEF Passed, Polling, Turns
    <3>. QED BY <2>1, <2>2, <3>1, SingleLasts DEF Turns
  <2>4. CASE ~answers
    BY <2>2, <2>4 DEF Single, DoneIsKnown, RecordedOnce
  <2>. QED BY <2>3, <2>4
<1>4. ASSUME NEW p \in Recorders, Claim(p) PROVE Single'
  <2>1. PICK e \in Oldest(rec[p].todo) :
          /\ known' = IF answers THEN known \cup {e} ELSE known
          /\ \/ /\ answers /\ e \in known
                /\ Turns(p, "each", NoJob, rec[p].todo \ {e}, rec[p].high, Later(rec[p].top, e), <<>>)
             \/ /\ ~(answers /\ e \in known)
                /\ Turns(p, "wait", e, rec[p].todo \ {e}, rec[p].high, Later(rec[p].top, e), <<>>)
    BY <1>4, ClaimDoes
  <2>2. UNCHANGED <<log, stamp, mark, answers, blackout>> /\ rec[p].at = "each"
    BY <1>4, ClaimDoes
  <2>3. e \in rec[p].todo /\ e \in Events /\ stamp[e] > rec[p].high /\ rec[p].high \in Nat
    BY <2>2 DEF Oldest, Orderly, AuditTypeOK, Tasks, TasksFit, Polling
  <2>4. \A d \in Events : Passed(d) => Passed(d)'
    BY <2>1, <2>2 DEF Passed, Polling, Turns
  <2>5. ~Passed(e)
    BY <1>0, <2>2, <2>3 DEF Passed, Polling
  <2>6. rec[p].job = NoJob
    BY <2>2 DEF Orderly, TasksFit
  <2>7. CASE answers /\ e \in known
    BY <2>1, <2>2, <2>4, <2>7, SingleLasts DEF Turns
  <2>8. CASE ~(answers /\ e \in known)
    <3>1. ~blackout => ~Done(e) /\ e \in known'
      BY <2>1, <2>3, <2>5, <2>8 DEF Single, DoneIsKnown, Items
    <3>2. rec'[p].job = e /\ e \in Items /\ known \subseteq known' /\ \A q \in Recorders \ {p} : rec'[q] = rec[q]
      BY <2>1, <2>3, <2>8 DEF Turns, Items
    <3>. QED BY <2>2, <2>4, <2>6, <3>1, <3>2, SingleGrows
  <2>. QED BY <2>7, <2>8
<1>5. ASSUME NEW p \in Recorders, StoreMark(p) PROVE Single'
  <2>1. /\ UNCHANGED <<log, stamp, known, answers, blackout>> /\ rec[p].at = "each"
        /\ Turns(p, "idle", NoJob, {}, 0, 0, <<>>) /\ (mark' = mark \/ mark' = rec[p].top)
    BY <1>5, StoreDoes
  <2>2. rec[p].high <= rec[p].top /\ rec[p].high \in Nat /\ rec[p].top \in Nat
    BY DEF Orderly, TasksFit, AuditTypeOK, Tasks
  <2>3. ASSUME NEW e \in Events, Passed(e) PROVE Passed(e)'
    <3>1. stamp[e] <= mark /\ stamp[e] <= rec[p].high
      BY <2>1, <2>3 DEF Passed, Polling
    <3>2. stamp[e] <= mark'
      BY <1>0, <2>1, <2>2, <3>1
    <3>. QED BY <2>1, <2>3, <3>2, Names DEF Passed, Polling, Turns, Items
  <2>. QED BY <2>1, <2>3, SingleLasts DEF Turns
<1>6. ASSUME NEW p \in Recorders, TakeLock(p) PROVE Single'
  <2>1. UNCHANGED <<log, stamp, mark, known, answers, blackout>> /\ rec[p].at = "wait"
        /\ Turns(p, "insert", rec[p].job, rec[p].todo, rec[p].high, rec[p].top, LastHash)
    BY <1>6, LockDoes
  <2>2. \A e \in Events : Passed(e) => Passed(e)'
    BY <2>1 DEF Passed, Polling, Turns
  <2>. QED BY <2>1, <2>2, SingleLasts DEF Turns
<1>7. ASSUME NEW p \in Recorders, Insert(p) PROVE Single'
  <2>1. /\ UNCHANGED <<stamp, mark, known, answers, blackout>> /\ rec[p].job \in Items
        /\ Turns(p, IF rec[p].job \in Events THEN "each" ELSE "idle", NoJob,
                      rec[p].todo, rec[p].high, rec[p].top, <<>>)
    BY <1>7, InsertDoes
  <2>2. \A e \in Events : Passed(e)' = Passed(e)
    BY <2>1, Names DEF Passed, Polling, Turns, Items, Orderly, TasksFit
  <2>3. \A e \in Items : Done(e)' => Done(e)
    BY <1>7, <2>1, RecordedLasts, Names DEF Done, Turns
  <2>4. DoneIsKnown'
    <3>1. ASSUME ~blackout', NEW q \in Recorders, rec'[q].job # NoJob
          PROVE  ~Recorded(rec[q].job)' /\ \A r \in Recorders \ {q} : rec'[r].job # rec'[q].job
      <4>1. q # p /\ rec'[q] = rec[q]
        BY <2>1, <3>1 DEF Turns
      <4>2. ~Recorded(rec[q].job) /\ \A r \in Recorders \ {q} : rec[r].job # rec[q].job
        BY <2>1, <3>1, <4>1 DEF Single, DoneIsKnown
      <4>3. rec[q].job # rec[p].job
        BY <3>1, <4>1, <4>2
      <4>4. ~Recorded(rec[q].job)'
        BY <1>7, <4>1, <4>2, <4>3, RecordedLasts
      <4>5. \A r \in Recorders \ {q} : rec'[r].job # rec'[q].job
        BY <2>1, <3>1, <4>1, <4>2 DEF Turns
      <4>. QED BY <4>4, <4>5
    <3>1a. ~blackout' => \A q \in Recorders : rec'[q].job # NoJob =>
             ~Recorded(rec[q].job)' /\ \A r \in Recorders \ {q} : rec'[r].job # rec'[q].job
      BY <3>1
    <3>2. ~blackout' => \A e \in Items : Done(e)' => e \in known' \/ Passed(e)'
      BY <2>1, <2>2, <2>3 DEF Single, DoneIsKnown, Passed
    <3>3. ~blackout' => answers'
      BY <2>1 DEF Single, DoneIsKnown
    <3>. QED BY <3>1a, <3>2, <3>3 DEF DoneIsKnown
  <2>5. RecordedOnce'
    <3> DEFINE entry == [what |-> rec[p].job, prev |-> rec[p].head]
    <3>1. log' = Append(log, entry) /\ entry \in Row /\ entry.what = rec[p].job
      BY <1>7, InsertDoes DEF Row, Orderly, AuditTypeOK, Tasks, Items
    <3> HIDE DEF entry
    <3>2. /\ log \in Seq(Row) /\ log' \in Seq(Row) /\ Len(log') = Len(log) + 1 /\ Len(log) \in Nat
          /\ log'[Len(log) + 1] = entry /\ \A i \in 1..Len(log) : log'[i] = log[i]
      BY <3>1, LastRow, AppendProperties, LenProperties DEF Orderly
    <3>3. DOMAIN log = 1..Len(log) /\ DOMAIN log' = DOMAIN log \cup {Len(log) + 1}
      <4>1. DOMAIN log = 1..Len(log) /\ DOMAIN log' = 1..(Len(log) + 1)
        BY <3>2, LenProperties
      <4>. QED BY <3>2, <4>1
    <3>4. ~blackout => \A i \in DOMAIN log : log[i].what # rec[p].job
      <4>1. ~blackout => ~Recorded(rec[p].job)
        BY <2>1, Names DEF Single, DoneIsKnown
      <4>. QED BY <4>1 DEF Recorded
    <3>. QED BY <2>1, <3>1, <3>2, <3>3, <3>4 DEF RecordedOnce, Single
  <2>. QED BY <2>4, <2>5 DEF Single
<1>8. ASSUME NEW p \in Recorders, WriteFails(p) \/ WorkerCrashes(p) PROVE Single'
  <2>1. /\ UNCHANGED <<log, stamp, mark, known, answers, blackout>>
        /\ \A q \in Recorders \ {p} : rec'[q] = rec[q]
    BY <1>8, FailDoes DEF Turns
  <2>2. rec'[p].job = NoJob
    BY <1>8, FailDoes DEF Turns
  <2>3. \A e \in Events : Passed(e) => Passed(e)'
    BY <1>8, <2>1, <2>2, FailDoes, Names DEF Passed, Polling, Turns, Items
  <2>. QED BY <2>1, <2>2, <2>3, SingleLasts
<1>9. ASSUME NEW e \in Events, Happens(e) \/ KeyExpires(e) PROVE Single'
  <2>1. UNCHANGED <<log, stamp, mark, answers, rec, blackout>>
    BY <1>9 DEF Happens, KeyExpires
  <2>2. \A d \in Events : Passed(d) => Passed(d)'
    BY <2>1 DEF Passed, Polling
  <2>3. \A d \in known : d \in known' \/ Passed(d)'
    <3>1. CASE Happens(e)
      BY <3>1 DEF Happens
    <3>2. CASE KeyExpires(e)
      <4>1. known' = known \ {e} /\ mark >= stamp[e] /\ \A p \in Recorders : rec[p].at = "idle"
        BY <3>2 DEF KeyExpires
      <4>2. \A p \in Recorders : ~Polling(p)
        BY <4>1, Names DEF Polling, Orderly, TasksFit, Items
      <4>3. Passed(e)
        BY <1>0, <4>1, <4>2 DEF Passed, Orderly, AuditTypeOK
      <4>. QED BY <2>2, <4>1, <4>3
    <3>. QED BY <1>9, <3>1, <3>2
  <2>. QED BY <2>1, <2>2, <2>3, SingleLasts
<1>10. CASE CacheAway \/ CacheBack
  <2>1. blackout'
    BY <1>10 DEF CacheAway, CacheBack, Single, DoneIsKnown
  <2>. QED BY <2>1 DEF Single, DoneIsKnown, RecordedOnce
<1>. QED
  BY <1>1, <1>2, <1>3, <1>4, <1>5, <1>6, <1>7, <1>8, <1>9, <1>10 DEF AuditNext, Poll

LEMMA AuditInitial == AuditInit => AuditInv
<1> SUFFICES ASSUME AuditInit PROVE AuditInv
  OBVIOUS
<1>1. Idle \in Tasks /\ Idle.at = "idle" /\ Idle.job = NoJob /\ Idle.todo = {} /\ Idle.high = 0 /\ Idle.top = 0
  BY NoHash DEF Idle, Task, Tasks, Items
<1>2. rec \in [Recorders -> Tasks] /\ \A p \in Recorders : rec[p] = Idle
  BY <1>1 DEF AuditInit
<1>3. stamp \in [Events -> Nat \ {0}]
  BY AuditAssumption DEF AuditInit
<1>4. AuditTypeOK
  <2>1. log \in Seq([what : Sessions \cup Events, prev : Seq(Sessions \cup Events)])
    BY DEF AuditInit
  <2>. QED BY <1>2, <1>3, <2>1 DEF AuditInit, AuditTypeOK
<1>5. TasksFit /\ LockHeld /\ MarksKnown /\ ChainVerifies
  BY <1>1, <1>2, Names DEF AuditInit, TasksFit, LockHeld, MarksKnown, Times, ChainVerifies, Polling, Items
<1>6. Complete
  BY DEF AuditInit, Complete, KnownDone, NoneSkipped, NothingMissed
<1>7. Single
  BY <1>1, <1>2, Names DEF AuditInit, Single, DoneIsKnown, RecordedOnce, Done, Recorded, Items
<1>. QED BY <1>4, <1>5, <1>6, <1>7 DEF AuditInv, Orderly

LEMMA AuditStep == AuditInv /\ [AuditNext]_auditVars => AuditInv'
<1> SUFFICES ASSUME AuditInv, [AuditNext]_auditVars PROVE AuditInv'
  OBVIOUS
<1>1. CASE AuditNext
  BY <1>1, AuditStepSound, ChainStep, CompleteStep, SingleStep DEF AuditInv, Orderly, ASound
<1>2. CASE UNCHANGED auditVars
  <2>1. UNCHANGED <<log, chainLock, stamp, kcEvents, mark, known, answers, rec, dropped, late, blackout>>
    BY <1>2 DEF auditVars, feedVars
  <2>2. Orderly'
    BY <2>1 DEF AuditInv, Orderly, AuditTypeOK, TasksFit, LockHeld, MarksKnown, ChainVerifies, Polling,
                Times, LastHash
  <2>3. Complete'
    BY <2>1 DEF AuditInv, Complete, KnownDone, NoneSkipped, NothingMissed, Done, Recorded, Owed
  <2>4. Single'
    BY <2>1 DEF AuditInv, Single, DoneIsKnown, RecordedOnce, Done, Recorded, Passed, Polling
  <2>. QED BY <2>2, <2>3, <2>4 DEF AuditInv
<1>. QED BY <1>1, <1>2

LEMMA AuditHolds == AuditInv => AuditTypeOK /\ TrailComplete
BY DEF AuditInv, Orderly, Complete, Single, TrailComplete, TrailSound

-----------------------------------------------------------------------------
(* The analytics service and its cameras.                                    *)

AskedFor == Wishes \cup {Nothing}
Stocks == [pipe : BOOLEAN, active : BOOLEAN, held : SUBSET Readers, fitted : SUBSET Readers,
           demand : SUBSET Readers, absent : SUBSET Readers]
Faces == {"off", "on", "over"}
ClockSets == [all : Faces, plate : Faces, activity : Faces]
EngineStates == [mode : {"idle", "warming", "running", "failed"}, cooling : BOOLEAN, loader : {"off", "started", "building"},
                 need : SUBSET (Readers \cup {"activity"}), down : {"no", "set", "done"}]
SiteRecords == [wish : [Sites -> SUBSET Wishes], save : Nat, lost : Nat, fail : Nat, restart : Nat]
CallsTo == [site : Sites, ask : AskedFor]
CallStates == [at : {"idle", "search", "every"}, site : Sites \cup {"none"}, ask : AskedFor]

SendersTyped ==
  /\ row \in [Sites -> AskedFor] /\ deleted \subseteq Sites /\ siteBudget \in SiteRecords
  /\ \A k \in DOMAIN sight : sight[k] \in AskedFor
  /\ todo \in [Senders -> Seq(CallsTo)]
EngineTyped ==
  /\ DOMAIN watched \subseteq Sites /\ DOMAIN told \subseteq Sites
  /\ models \in Stocks /\ idleFor \in ClockSets /\ engineRuns \in EngineStates
AnswersTyped ==
  /\ call \in [Senders -> CallStates] /\ \A c \in Senders : call[c].at = "idle" <=> call[c].site = "none"
  /\ searchSub \subseteq Sites /\ everySub \subseteq Sites /\ overtaken \subseteq Sites /\ outlived \in BOOLEAN
AnalyticsTyped == SendersTyped /\ EngineTyped /\ AnswersTyped

(* What the pipeline has is what the engine has.                             *)
PipelineSupplied ==
  /\ models.pipe => told = watched
  /\ models.pipe => models.fitted \ models.held \subseteq (IF outlived THEN {"face"} ELSE {})
  /\ models.pipe => models.held \subseteq models.fitted
  /\ engineRuns.down = "done" => ~models.pipe /\ ~models.active
(* One request at a time is in the engine about a camera where no two met,   *)
(* it asks for what the engine has noted, and the subscriptions it is past   *)
(* are those it asks for; with none in the engine all of them are.           *)
ByOne(k) ==
  /\ \A c, d \in Senders : call[c].site = k /\ call[d].site = k => c = d
  /\ \A c \in Senders : call[c].site = k =>
       /\ call[c].ask = AskOf(k, watched)
       /\ call[c].at = "every" => (k \in searchSub <=> call[c].ask \ {"activity"} # {})
  /\ ~Inside(k) => /\ k \in searchSub <=> AskOf(k, watched) \ {"activity"} # {}
                   /\ k \in everySub <=> "activity" \in AskOf(k, watched)
Subscribed == \A k \in Sites \ overtaken : ByOne(k)
AnalyticsInv == AnalyticsTyped /\ PipelineSupplied /\ Subscribed

-----------------------------------------------------------------------------
LEMMA NotedTyped ==
  ASSUME NEW m \in Stocks, NEW W
  PROVE  /\ Noted(m, W) \in Stocks /\ Noted(m, W).pipe = m.pipe /\ Noted(m, W).active = m.active
         /\ Noted(m, W).held \subseteq m.held
         /\ Noted(m, W).fitted \ Noted(m, W).held \subseteq m.fitted \ m.held
         /\ m.held \subseteq m.fitted => Noted(m, W).held \subseteq Noted(m, W).fitted
         /\ m.held \ Noted(m, W).held \subseteq {"face"}
         /\ Asked(W, "face") => m.held = Noted(m, W).held
BY DEF Noted, Stock, Stocks, Readers

LEMMA ClocksTyped ==
  ASSUME NEW clocks \in ClockSets, NEW m, NEW W PROVE NotedClocks(clocks, m, W) \in ClockSets
BY DEF NotedClocks, Clocks, ClockSets, Ticks, Faces

LEMMA EnsuredTyped ==
  ASSUME EngineTyped, NEW m, NEW W PROVE Ensured(m, W) \in EngineStates /\ Ensured(m, W).down = engineRuns.down
BY DEF EngineTyped, Ensured, EngineAt, EngineStates

LEMMA BuiltTyped ==
  ASSUME NEW m \in Stocks, NEW need \in SUBSET (Readers \cup {"activity"}), NEW new \in SUBSET Readers
  PROVE  /\ Built(m, need, new) \in Stocks /\ Built(m, need, new).held = m.held \cup new
         /\ Built(m, need, new).fitted = m.fitted /\ Built(m, need, new).pipe = m.pipe
BY DEF Built, Stock, Stocks

LEMMA InstalledTyped ==
  ASSUME NEW m \in Stocks, NEW need \in SUBSET (Readers \cup {"activity"}), NEW new \in SUBSET Readers, NEW W
  PROVE  /\ Installed(m, need, new, W) \in Stocks
         /\ Installed(m, need, new, W).fitted \ Installed(m, need, new, W).held
              \subseteq (IF m.pipe THEN m.fitted \ m.held ELSE {})
                        \cup (IF "face" \in new /\ ~Asked(W, "face") THEN {"face"} ELSE {})
         /\ (m.pipe => m.held \subseteq m.fitted) =>
              Installed(m, need, new, W).held \subseteq Installed(m, need, new, W).fitted
<1> DEFINE b == Built(m, need, new)
           n == Noted(b, W)
<1>1. b \in Stocks /\ b.held = m.held \cup new /\ b.fitted = m.fitted
  BY BuiltTyped
<1>2. /\ n \in Stocks /\ n.held \subseteq b.held /\ n.fitted \ n.held \subseteq b.fitted \ b.held
      /\ b.held \ n.held \subseteq {"face"} /\ (Asked(W, "face") => b.held = n.held)
  BY <1>1, NotedTyped
<1>3. m.pipe => (m.held \subseteq m.fitted => n.held \subseteq n.fitted \cup new)
  BY <1>1 DEF Noted, Stock, Stocks, Built
<1> HIDE DEF b, n
<1>4. Installed(m, need, new, W)
      = Stock(TRUE, n.active, n.held, (IF m.pipe THEN n.fitted ELSE n.held) \cup new, n.demand, n.absent)
  BY DEF Installed, n, b
<1>5. /\ Installed(m, need, new, W).held = n.held
      /\ Installed(m, need, new, W).fitted = (IF m.pipe THEN n.fitted ELSE n.held) \cup new
      /\ Installed(m, need, new, W) \in Stocks
  BY <1>2, <1>4 DEF Stock, Stocks
<1>. QED BY <1>1, <1>2, <1>3, <1>5

LEMMA SpendSiteKeeps ==
  ASSUME siteBudget \in SiteRecords, NEW c \in {"save", "lost", "fail", "restart"}, SpendSite(c)
  PROVE  siteBudget' \in SiteRecords
<1>1. CASE c = "save"
  BY <1>1 DEF SpendSite, SiteRecords
<1>2. CASE c = "lost"
  BY <1>2 DEF SpendSite, SiteRecords
<1>3. CASE c = "fail"
  BY <1>3 DEF SpendSite, SiteRecords
<1>4. CASE c = "restart"
  BY <1>4 DEF SpendSite, SiteRecords
<1>. QED BY <1>1, <1>2, <1>3, <1>4

\* A camera comes, or asks for something else.
LEMMA AddsSound ==
  ASSUME EngineTyped, PipelineSupplied, NEW k \in Sites, NEW ask \in Wishes, Adds(k, ask), UNCHANGED outlived
  PROVE  /\ EngineTyped' /\ PipelineSupplied' /\ AskOf(k, watched') = ask
         /\ \A j \in Sites \ {k} : AskOf(j, watched') = AskOf(j, watched)
<1>1. watched' = With(watched, k, ask) /\ told' = IF models.pipe THEN With(told, k, ask) ELSE told
  BY DEF Adds
<1>2. /\ DOMAIN watched' \subseteq Sites /\ DOMAIN told' \subseteq Sites /\ AskOf(k, watched') = ask
      /\ \A j \in Sites \ {k} : AskOf(j, watched') = AskOf(j, watched)
  BY <1>1 DEF With, AskOf, EngineTyped
<1>3. models \in Stocks /\ [idleFor EXCEPT !.all = "off"] \in ClockSets
  BY DEF EngineTyped, ClockSets, Faces
<1>4. models' = Noted(models, watched') /\ engineRuns' = Ensured(models', watched')
      /\ idleFor' = NotedClocks([idleFor EXCEPT !.all = "off"], models, watched')
  BY DEF Adds
<1>5. EngineTyped'
  BY <1>2, <1>3, <1>4, NotedTyped, ClocksTyped, EnsuredTyped DEF EngineTyped
<1>6. engineRuns'.down = engineRuns.down
  BY <1>4, EnsuredTyped
<1>7. /\ models'.pipe = models.pipe /\ models'.active = models.active
      /\ models'.fitted \ models'.held \subseteq models.fitted \ models.held
      /\ models.held \subseteq models.fitted => models'.held \subseteq models'.fitted
  BY <1>3, <1>4, NotedTyped
<1>8. PipelineSupplied'
  BY <1>1, <1>6, <1>7 DEF PipelineSupplied
<1>. QED BY <1>2, <1>5, <1>8

LEMMA RemovesSound ==
  ASSUME EngineTyped, PipelineSupplied, NEW k \in Sites, Removes(k), UNCHANGED outlived
  PROVE  /\ EngineTyped' /\ PipelineSupplied' /\ AskOf(k, watched') = Nothing
         /\ \A j \in Sites \ {k} : AskOf(j, watched') = AskOf(j, watched)
<1>1. watched' = Without(watched, k) /\ told' = Without(told, k)
  BY DEF Removes
<1>2. /\ DOMAIN watched' \subseteq Sites /\ DOMAIN told' \subseteq Sites /\ AskOf(k, watched') = Nothing
      /\ \A j \in Sites \ {k} : AskOf(j, watched') = AskOf(j, watched)
  BY <1>1 DEF Without, AskOf, EngineTyped
<1> DEFINE clocks == [idleFor EXCEPT !.all = IF watched' = NoSites /\ @ = "off" THEN "on" ELSE @]
<1>3. models \in Stocks /\ clocks \in ClockSets
  BY DEF EngineTyped, ClockSets, Faces
<1>4. models' = Noted(models, watched') /\ engineRuns' = engineRuns /\ idleFor' = NotedClocks(clocks, models, watched')
  BY DEF Removes
<1> HIDE DEF clocks
<1>5. EngineTyped'
  BY <1>2, <1>3, <1>4, NotedTyped, ClocksTyped DEF EngineTyped
<1>6. /\ models'.pipe = models.pipe /\ models'.active = models.active
      /\ models'.fitted \ models'.held \subseteq models.fitted \ models.held
      /\ models.held \subseteq models.fitted => models'.held \subseteq models'.fitted
  BY <1>3, <1>4, NotedTyped
<1>7. PipelineSupplied'
  BY <1>1, <1>4, <1>6 DEF PipelineSupplied
<1>. QED BY <1>2, <1>5, <1>7

\* The warm-up thread, the reaper and the process do nothing about a camera.
LEMMA ModelsSound ==
  ASSUME EngineTyped, PipelineSupplied, outlived \in BOOLEAN,
         StartBuild \/ Install \/ BuildEnds \/ TimePasses \/ TickBusy \/ TickIdle \/ StopSet \/ StopDone
  PROVE  EngineTyped' /\ PipelineSupplied' /\ outlived' \in BOOLEAN /\ UNCHANGED watched
<1>0. /\ models \in Stocks /\ idleFor \in ClockSets /\ engineRuns \in EngineStates
      /\ DOMAIN watched \subseteq Sites /\ DOMAIN told \subseteq Sites
  BY DEF EngineTyped
<1>1. CASE StartBuild
  <2>1. Lacking \subseteq Readers \cup {"activity"}
    BY DEF Lacking
  <2>2. engineRuns' \in EngineStates /\ engineRuns'.down = engineRuns.down
    BY <1>0, <1>1, <2>1 DEF StartBuild, EngineAt, EngineStates
  <2>. QED BY <1>1, <2>2 DEF StartBuild, EngineTyped, PipelineSupplied
<1>2. CASE Install
  <2>1. PICK new \in SUBSET (engineRuns.need \cap Readers) : Installs(new) /\ told' = IF models.pipe THEN told ELSE watched
    BY <1>2 DEF Install
  <2>2. new \in SUBSET Readers /\ engineRuns.need \in SUBSET (Readers \cup {"activity"})
    BY <1>0 DEF EngineStates
  <2>3. /\ models' = Installed(models, engineRuns.need, new, watched) /\ UNCHANGED watched
        /\ idleFor' = NotedClocks(idleFor, Built(models, engineRuns.need, new), watched)
        /\ engineRuns' = EngineAt("running", engineRuns.cooling, "off", {}, "no")
        /\ outlived' = (outlived \/ ("face" \in new /\ ~Asked(watched, "face")))
    BY <2>1 DEF Installs
  <2>4. engineRuns' \in EngineStates /\ engineRuns'.down = "no"
    BY <1>0, <2>3 DEF EngineAt, EngineStates
  <2>5. models' \in Stocks /\ idleFor' \in ClockSets
    BY <1>0, <2>2, <2>3, InstalledTyped, ClocksTyped
  <2>6. models'.fitted \ models'.held \subseteq (IF outlived' THEN {"face"} ELSE {})
    BY <1>0, <2>2, <2>3, InstalledTyped DEF PipelineSupplied
  <2>7. models'.held \subseteq models'.fitted
    BY <1>0, <2>2, <2>3, InstalledTyped DEF PipelineSupplied
  <2>8. told' = watched' /\ DOMAIN told' \subseteq Sites
    BY <1>0, <2>1, <2>3 DEF PipelineSupplied
  <2>9. outlived' \in BOOLEAN
    BY <2>3
  <2>. QED BY <1>0, <2>3, <2>4, <2>5, <2>6, <2>7, <2>8, <2>9 DEF EngineTyped, PipelineSupplied
<1>3. CASE BuildEnds
  <2>1. engineRuns' \in EngineStates /\ engineRuns'.down = engineRuns.down
    <3>1. CASE engineRuns' = EngineAt(engineRuns.mode, engineRuns.cooling, "off", {}, engineRuns.down)
      BY <1>0, <3>1 DEF EngineAt, EngineStates
    <3>2. CASE engineRuns' = EngineAt("failed", TRUE, "off", {}, engineRuns.down)
      BY <1>0, <3>2 DEF EngineAt, EngineStates
    <3>. QED BY <1>3, <3>1, <3>2 DEF BuildEnds
  <2>. QED BY <1>3, <2>1 DEF BuildEnds, EngineTyped, PipelineSupplied
<1>4. CASE TimePasses
  <2>1. engineRuns' \in EngineStates /\ engineRuns'.down = engineRuns.down
    BY <1>0, <1>4 DEF TimePasses, EngineStates
  <2>2. idleFor' \in ClockSets
    <3>1. CASE UNCHANGED idleFor
      BY <1>0, <3>1
    <3>2. ASSUME NEW c \in {"all", "plate", "activity"}, idleFor' = [idleFor EXCEPT ![c] = "over"] PROVE idleFor' \in ClockSets
      <4>1. CASE c = "all"
        BY <1>0, <3>2, <4>1 DEF ClockSets, Faces
      <4>2. CASE c = "plate"
        BY <1>0, <3>2, <4>2 DEF ClockSets, Faces
      <4>3. CASE c = "activity"
        BY <1>0, <3>2, <4>3 DEF ClockSets, Faces
      <4>. QED BY <3>2, <4>1, <4>2, <4>3
    <3>. QED BY <1>4, <3>1, <3>2 DEF TimePasses
  <2>. QED BY <1>4, <2>1, <2>2 DEF TimePasses, EngineTyped, PipelineSupplied
<1>5. CASE TickBusy
  <2> DEFINE m == Noted(models, watched)
             clocks == NotedClocks([idleFor EXCEPT !.all = "off"], models, watched)
             rested(c) == clocks[c] = "over" /\ ~Asked(watched, c)
             plates == IF "plate" \in m.held /\ rested("plate") THEN {"plate"} ELSE {}
             activity == m.active /\ rested("activity")
  <2>1. /\ models' = Stock(m.pipe, m.active /\ ~activity, m.held \ plates, m.fitted \ plates, m.demand, m.absent)
        /\ idleFor' = Clocks("off", IF plates # {} THEN "off" ELSE clocks.plate, IF activity THEN "off" ELSE clocks.activity)
        /\ engineRuns' = Ensured(models, watched) /\ engineRuns.down = "no" /\ UNCHANGED <<watched, told, outlived>>
    BY <1>5 DEF TickBusy
  <2>2. /\ m \in Stocks /\ m.pipe = models.pipe /\ m.fitted \ m.held \subseteq models.fitted \ models.held
        /\ models.held \subseteq models.fitted => m.held \subseteq m.fitted
    BY <1>0, NotedTyped
  <2>3. [idleFor EXCEPT !.all = "off"] \in ClockSets
    BY <1>0 DEF ClockSets, Faces
  <2>4. clocks \in ClockSets
    BY <2>3, ClocksTyped
  <2> HIDE DEF m, clocks, plates, activity
  <2>5. /\ models' \in Stocks /\ models'.pipe = m.pipe /\ models'.held = m.held \ plates /\ models'.fitted = m.fitted \ plates
    BY <2>1, <2>2 DEF Stock, Stocks
  <2>6. idleFor' \in ClockSets
    BY <2>1, <2>4 DEF Clocks, ClockSets, Faces
  <2>7. engineRuns' \in EngineStates /\ engineRuns'.down = engineRuns.down
    BY <2>1, EnsuredTyped
  <2>8. EngineTyped'
    BY <1>0, <2>1, <2>5, <2>6, <2>7 DEF EngineTyped
  <2>9. PipelineSupplied'
    BY <2>1, <2>2, <2>5, <2>7 DEF PipelineSupplied
  <2>. QED BY <2>1, <2>8, <2>9
<1>6. CASE TickIdle
  <2>1. watched = NoSites /\ engineRuns.down = "no" /\ told' = NoSites /\ UNCHANGED <<watched, outlived>>
    BY <1>6 DEF TickIdle
  <2>2. models' \in Stocks /\ ~models'.pipe
    BY <1>0, <1>6 DEF TickIdle, Detached, Stock, Stocks
  <2>3. idleFor' \in ClockSets
    BY <1>0, <1>6 DEF TickIdle, Clocks, ClockSets, Faces
  <2>4. engineRuns' \in EngineStates /\ engineRuns'.down = "no"
    BY <1>0, <1>6, <2>1 DEF TickIdle, EngineStates
  <2>5. DOMAIN told' \subseteq Sites
    BY <2>1 DEF NoSites
  <2>. QED BY <1>0, <2>1, <2>2, <2>3, <2>4, <2>5, <1>6 DEF TickIdle, EngineTyped, PipelineSupplied
<1>7. CASE StopSet
  <2>1. engineRuns' \in EngineStates /\ engineRuns'.down = "set"
    BY <1>0, <1>7 DEF StopSet, EngineStates
  <2>. QED BY <1>7, <2>1 DEF StopSet, EngineTyped, PipelineSupplied
<1>8. CASE StopDone
  <2>1. models' \in Stocks /\ ~models'.pipe /\ ~models'.active
    BY <1>0, <1>8 DEF StopDone, Detached, Stock, Stocks
  <2>2. idleFor' \in ClockSets
    BY <1>0, <1>8 DEF StopDone, Clocks, ClockSets, Faces
  <2>3. engineRuns' \in EngineStates
    BY <1>0, <1>8 DEF StopDone, EngineAt, EngineStates
  <2>4. DOMAIN told' \subseteq Sites
    BY <1>8 DEF StopDone, NoSites
  <2>. QED BY <1>8, <2>1, <2>2, <2>3, <2>4 DEF StopDone, EngineTyped, PipelineSupplied
<1>. QED BY <1>1, <1>2, <1>3, <1>4, <1>5, <1>6, <1>7, <1>8

\* Cameras in some order are cameras.
LEMMA InOrderTyped ==
  ASSUME NEW S \in SUBSET Sites
  PROVE  /\ Cardinality(S) \in Nat /\ InOrder(S) \in [1..Cardinality(S) -> S]
<1>1. IsFiniteSet(S)
  BY AnalyticsAssumption, FS_Subset
<1>2. Cardinality(S) \in Nat /\ ExistsBijection(1..Cardinality(S), S)
  BY <1>1, FS_CardinalityType
<1>3. \E f \in [1..Cardinality(S) -> S] : \A k \in S : \E i \in DOMAIN f : f[i] = k
  BY <1>2 DEF ExistsBijection, Bijection, Surjection
<1>. QED BY <1>2, <1>3 DEF InOrder

\* What a sender has still to do, after one step of the registry or of a call.
LEMMA TodoTyped ==
  ASSUME todo \in [Senders -> Seq(CallsTo)], NEW c \in Senders, NEW new \in Seq(CallsTo), todo' = [todo EXCEPT ![c] = new]
  PROVE  todo' \in [Senders -> Seq(CallsTo)]
OBVIOUS

LEMMA RegistrySound ==
  ASSUME AnalyticsInv,
         \/ \E c \in Senders, k \in Sites : Save(c, k)
         \/ \E k \in Sites : DeleteRow(k)
         \/ ReadSites \/ CompareSites \/ \E c \in Senders : LoseCall(c)
  PROVE  SendersTyped'
<1>0. SendersTyped /\ Pusher \in Senders
  BY DEF AnalyticsInv, AnalyticsTyped, Senders
<1>1. ASSUME NEW c \in Senders, NEW k \in Sites, Save(c, k) PROVE SendersTyped'
  <2>1. PICK ask \in siteBudget.wish[k] \cup {Nothing} :
          row' = [row EXCEPT ![k] = ask] /\ todo' = [todo EXCEPT ![c] = <<[site |-> k, ask |-> ask]>>]
    BY <1>1 DEF Save
  <2>2. ask \in AskedFor
    BY <1>0 DEF SendersTyped, SiteRecords, AskedFor
  <2>3. [site |-> k, ask |-> ask] \in CallsTo
    BY <2>2 DEF CallsTo
  <2>4. <<[site |-> k, ask |-> ask]>> \in Seq(CallsTo)
    BY <2>3
  <2>5. todo' \in [Senders -> Seq(CallsTo)]
    BY <1>0, <2>1, <2>4, TodoTyped DEF SendersTyped
  <2>6. siteBudget' \in SiteRecords
    BY <1>0, <1>1, SpendSiteKeeps DEF Save, SendersTyped
  <2>. QED BY <1>0, <1>1, <2>1, <2>2, <2>5, <2>6 DEF Save, SendersTyped
<1>2. ASSUME NEW k \in Sites, DeleteRow(k) PROVE SendersTyped'
  BY <1>0, <1>2, SpendSiteKeeps DEF DeleteRow, SendersTyped
<1>3. CASE ReadSites
  BY <1>0, <1>3 DEF ReadSites, SendersTyped
<1>4. CASE CompareSites
  <2> DEFINE drifting == {k \in Sites : Drifts(k)}
             order == InOrder(drifting)
             calls == [i \in DOMAIN order |-> [site |-> order[i], ask |-> sight[order[i]]]]
  <2>1. Cardinality(drifting) \in Nat /\ order \in [1..Cardinality(drifting) -> drifting]
    BY InOrderTyped
  <2>2. \A k \in drifting : k \in Sites /\ sight[k] \in AskedFor
    BY <1>0 DEF Drifts, SendersTyped
  <2>3. todo' = [todo EXCEPT ![Pusher] = calls]
    BY <1>4 DEF CompareSites
  <2> HIDE DEF drifting, order
  <2>4. \A i \in DOMAIN order : [site |-> order[i], ask |-> sight[order[i]]] \in CallsTo
    BY <2>1, <2>2 DEF CallsTo
  <2>5. calls \in [1..Cardinality(drifting) -> CallsTo]
    BY <2>1, <2>4
  <2>6. calls \in Seq(CallsTo)
    BY <2>1, <2>5, SeqDef
  <2> HIDE DEF calls
  <2>7. todo' \in [Senders -> Seq(CallsTo)]
    BY <1>0, <2>3, <2>6, TodoTyped DEF SendersTyped
  <2>8. \A k \in DOMAIN NotRead : NotRead[k] \in AskedFor
    BY DEF NotRead, AskedFor
  <2>. QED BY <1>0, <1>4, <2>7, <2>8 DEF CompareSites, SendersTyped
<1>5. ASSUME NEW c \in Senders, LoseCall(c) PROVE SendersTyped'
  <2>1. Tail(todo[c]) \in Seq(CallsTo)
    BY <1>0, <1>5 DEF LoseCall, SendersTyped
  <2>2. todo' \in [Senders -> Seq(CallsTo)]
    BY <1>0, <1>5, <2>1, TodoTyped DEF LoseCall, SendersTyped
  <2>. QED BY <1>0, <1>5, <2>2, SpendSiteKeeps DEF LoseCall, SendersTyped
<1>. QED BY <1>1, <1>2, <1>3, <1>4, <1>5

\* Nothing that concerns a camera's answers and subscriptions has moved.
LEMMA SubscribedStays ==
  ASSUME Subscribed, UNCHANGED <<call, watched, searchSub, everySub, overtaken>>
  PROVE  Subscribed'
BY DEF Subscribed, ByOne, Inside, AskOf

LEMMA EnterSound ==
  ASSUME AnalyticsInv, NEW c \in Senders, Enter(c)
  PROVE  AnalyticsInv'
<1>0. /\ SendersTyped /\ EngineTyped /\ AnswersTyped /\ PipelineSupplied /\ Subscribed
      /\ call \in [Senders -> CallStates] /\ todo \in [Senders -> Seq(CallsTo)]
  BY DEF AnalyticsInv, AnalyticsTyped, AnswersTyped, SendersTyped
<1>1. todo[c] \in Seq(CallsTo) /\ todo[c] # <<>>
  BY <1>0 DEF Enter
<1>2. Head(todo[c]) \in CallsTo /\ Tail(todo[c]) \in Seq(CallsTo)
  BY <1>1, HeadTailProperties
<1>3. PICK k \in Sites, ask \in AskedFor : Head(todo[c]).site = k /\ Head(todo[c]).ask = ask
  BY <1>2 DEF CallsTo
<1>4. SendersTyped'
  <2>1. todo' \in [Senders -> Seq(CallsTo)]
    BY <1>0, <1>2, TodoTyped DEF Enter
  <2>. QED BY <1>0, <2>1 DEF Enter, SendersTyped
<1>5. UNCHANGED <<searchSub, everySub, outlived>> /\ call[c] = NoCall
  BY DEF Enter, subscriptionVars
<1>6. CASE UNCHANGED engineVars /\ UNCHANGED <<call, overtaken>>
  <2>1. UNCHANGED <<watched, models, idleFor, engineRuns, told>>
    BY <1>6 DEF engineVars
  <2>2. EngineTyped' /\ AnswersTyped' /\ PipelineSupplied'
    BY <1>0, <1>5, <1>6, <2>1 DEF EngineTyped, AnswersTyped, PipelineSupplied
  <2>. QED BY <1>0, <1>4, <1>5, <1>6, <2>1, <2>2, SubscribedStays DEF AnalyticsInv, AnalyticsTyped
<1>7. CASE /\ (ask # Nothing /\ Adds(k, ask)) \/ (ask = Nothing /\ Removes(k))
           /\ call' = [call EXCEPT ![c] = CallAt("search", k, ask)]
           /\ overtaken' = IF Inside(k) THEN overtaken \cup {k} ELSE overtaken \ {k}
  <2>1. /\ EngineTyped' /\ PipelineSupplied' /\ AskOf(k, watched') = ask
        /\ \A j \in Sites \ {k} : AskOf(j, watched') = AskOf(j, watched)
    BY <1>0, <1>5, <1>7, AddsSound, RemovesSound DEF AskedFor
  <2>2. CallAt("search", k, ask) \in CallStates /\ CallAt("search", k, ask).at = "search"
        /\ CallAt("search", k, ask).site = k /\ CallAt("search", k, ask).ask = ask
    BY DEF CallAt, CallStates
  <2>3. /\ call' \in [Senders -> CallStates] /\ call'[c].at = "search" /\ call'[c].site = k /\ call'[c].ask = ask
        /\ \A d \in Senders \ {c} : call'[d] = call[d]
    BY <1>0, <1>7, <2>2
  <2>4. k # "none" /\ call[c].site = "none"
    BY <1>5, AnalyticsAssumption DEF NoCall, CallAt
  <2>5. AnswersTyped'
    BY <1>0, <1>5, <1>7, <2>3, <2>4 DEF AnswersTyped
  <2>6. ASSUME NEW j \in Sites \ overtaken' PROVE ByOne(j)'
    <3>1. CASE j = k
      <4>1. \A d \in Senders : call[d].site # k
        BY <1>7, <2>6, <3>1 DEF Inside
      <4>2. \A d \in Senders \ {c} : call'[d].site # k
        BY <2>3, <4>1
      <4>. QED BY <2>1, <2>3, <3>1, <4>2 DEF ByOne, Inside
    <3>2. CASE j # k
      <4>1. ByOne(j)
        BY <1>0, <1>7, <2>6, <3>2 DEF Subscribed
      <4>2. j # "none"
        BY AnalyticsAssumption
      <4>3. \A d \in Senders : call'[d].site = j <=> call[d].site = j
        BY <2>3, <2>4, <3>2, <4>2
      <4>4. \A d \in Senders : call'[d].site = j => call'[d] = call[d]
        BY <2>3, <3>2
      <4>5. Inside(j)' = Inside(j)
        BY <4>3 DEF Inside
      <4>6. AskOf(j, watched') = AskOf(j, watched)
        BY <2>1, <3>2
      <4>. QED BY <1>5, <4>1, <4>3, <4>4, <4>5, <4>6 DEF ByOne
    <3>. QED BY <3>1, <3>2
  <2>. QED BY <1>4, <2>1, <2>5, <2>6 DEF AnalyticsInv, AnalyticsTyped, Subscribed
<1>8. /\ \/ ask # Nothing /\ Adds(k, ask)
         \/ ask = Nothing /\ k \in DOMAIN watched /\ Removes(k)
         \/ ask = Nothing /\ k \notin DOMAIN watched /\ UNCHANGED engineVars
      /\ IF ask = Nothing /\ k \notin DOMAIN watched
           THEN UNCHANGED <<call, overtaken>>
           ELSE /\ call' = [call EXCEPT ![c] = CallAt("search", k, ask)]
                /\ overtaken' = IF Inside(k) THEN overtaken \cup {k} ELSE overtaken \ {k}
  BY <1>3 DEF Enter
<1>. QED BY <1>6, <1>7, <1>8

LEMMA SubscribeSound ==
  ASSUME AnalyticsInv, NEW c \in Senders, Subscribe(c)
  PROVE  AnalyticsInv'
<1>0. /\ SendersTyped /\ EngineTyped /\ AnswersTyped /\ PipelineSupplied /\ Subscribed
      /\ call \in [Senders -> CallStates] /\ call[c] \in CallStates /\ call[c].at # "idle"
  BY DEF AnalyticsInv, AnalyticsTyped, AnswersTyped, Subscribe
<1>1. PICK k \in Sites, ask \in AskedFor : call[c].site = k /\ call[c].ask = ask
  BY <1>0 DEF AnswersTyped, CallStates
<1>2. UNCHANGED <<row, deleted, sight, todo, watched, models, idleFor, engineRuns, told, overtaken, outlived, siteBudget>>
  BY DEF Subscribe, senderVars, engineVars
<1>3. SendersTyped' /\ EngineTyped' /\ PipelineSupplied'
  BY <1>0, <1>2 DEF SendersTyped, EngineTyped, PipelineSupplied
<1>4. \A j : AskOf(j, watched') = AskOf(j, watched)
  BY <1>2
<1>5. CASE /\ call[c].at = "search" /\ call' = [call EXCEPT ![c] = CallAt("every", k, ask)]
           /\ searchSub' = Toggle(searchSub, k, ask \ {"activity"} # {}) /\ UNCHANGED everySub
  <2>1. CallAt("every", k, ask) \in CallStates /\ CallAt("every", k, ask).at = "every"
        /\ CallAt("every", k, ask).site = k /\ CallAt("every", k, ask).ask = ask
    BY DEF CallAt, CallStates
  <2>2. /\ call' \in [Senders -> CallStates] /\ call'[c].at = "every" /\ call'[c].site = k /\ call'[c].ask = ask
        /\ \A d \in Senders \ {c} : call'[d] = call[d]
    BY <1>0, <1>5, <2>1
  <2>3. /\ searchSub' \subseteq Sites /\ (k \in searchSub' <=> ask \ {"activity"} # {})
        /\ \A j \in Sites \ {k} : j \in searchSub' <=> j \in searchSub
    BY <1>0, <1>5 DEF Toggle, AnswersTyped
  <2>4. k # "none"
    BY AnalyticsAssumption
  <2>5. AnswersTyped'
    BY <1>0, <1>2, <1>5, <2>2, <2>3, <2>4 DEF AnswersTyped
  <2>6. ASSUME NEW j \in Sites \ overtaken' PROVE ByOne(j)'
    <3>1. ByOne(j)
      BY <1>0, <1>2, <2>6 DEF Subscribed
    <3>2. \A d \in Senders : call'[d].site = call[d].site /\ call'[d].ask = call[d].ask
                            /\ (d # c => call'[d].at = call[d].at)
      BY <1>1, <2>2
    <3>3. Inside(j)' = Inside(j)
      BY <3>2 DEF Inside
    <3>4. CASE j = k
      BY <1>1, <1>4, <1>5, <2>3, <3>1, <3>2, <3>3, <3>4 DEF ByOne, Inside
    <3>5. CASE j # k
      BY <1>1, <1>4, <1>5, <2>3, <3>1, <3>2, <3>3, <3>5 DEF ByOne
    <3>. QED BY <3>4, <3>5
  <2>. QED BY <1>3, <2>5, <2>6 DEF AnalyticsInv, AnalyticsTyped, Subscribed
<1>6. CASE /\ call[c].at = "every" /\ call' = [call EXCEPT ![c] = NoCall]
           /\ everySub' = Toggle(everySub, k, "activity" \in ask) /\ UNCHANGED searchSub
  <2>1. NoCall \in CallStates /\ NoCall.at = "idle" /\ NoCall.site = "none"
    BY DEF NoCall, CallAt, CallStates, AskedFor
  <2>2. /\ call' \in [Senders -> CallStates] /\ call'[c].at = "idle" /\ call'[c].site = "none"
        /\ \A d \in Senders \ {c} : call'[d] = call[d]
    BY <1>0, <1>6, <2>1
  <2>3. /\ everySub' \subseteq Sites /\ (k \in everySub' <=> "activity" \in ask)
        /\ \A j \in Sites \ {k} : j \in everySub' <=> j \in everySub
    BY <1>0, <1>6 DEF Toggle, AnswersTyped
  <2>4. AnswersTyped'
    BY <1>0, <1>2, <1>6, <2>2, <2>3 DEF AnswersTyped
  <2>5. ASSUME NEW j \in Sites \ overtaken' PROVE ByOne(j)'
    <3>1. ByOne(j) /\ j # "none"
      BY <1>0, <1>2, <2>5, AnalyticsAssumption DEF Subscribed
    <3>2. CASE j = k
      <4>1. \A d \in Senders : call'[d].site # k
        BY <1>1, <2>2, <3>1, <3>2 DEF ByOne
      <4>2. (k \in searchSub <=> ask \ {"activity"} # {}) /\ ask = AskOf(k, watched)
        BY <1>1, <1>6, <3>1, <3>2 DEF ByOne
      <4>. QED BY <1>4, <1>6, <2>3, <3>2, <4>1, <4>2 DEF ByOne
    <3>3. CASE j # k
      <4>1. \A d \in Senders : (call'[d].site = j <=> call[d].site = j) /\ (call'[d].site = j => call'[d] = call[d])
        BY <1>1, <2>2, <3>1, <3>3
      <4>2. Inside(j)' = Inside(j)
        BY <4>1 DEF Inside
      <4>. QED BY <1>4, <1>6, <2>3, <3>1, <3>3, <4>1, <4>2 DEF ByOne
    <3>. QED BY <3>2, <3>3
  <2>. QED BY <1>3, <2>4, <2>5 DEF AnalyticsInv, AnalyticsTyped, Subscribed
<1>. QED BY <1>1, <1>5, <1>6 DEF Subscribe

LEMMA RestartSound ==
  ASSUME AnalyticsInv, Restart
  PROVE  AnalyticsInv'
<1>1. NoCall \in CallStates /\ NoCall.at = "idle" /\ NoCall.site = "none"
  BY DEF NoCall, CallAt, CallStates, AskedFor
<1>2. /\ call' = [c \in Senders |-> NoCall] /\ searchSub' = {} /\ everySub' = {} /\ overtaken' = {} /\ outlived' = FALSE
      /\ watched' = NoSites /\ told' = NoSites /\ models' = ColdModels
      /\ idleFor' = Clocks("on", "off", "off") /\ engineRuns' = EngineAt("idle", FALSE, "off", {}, "no")
      /\ UNCHANGED <<row, deleted, sight, todo, siteBudget>>
  BY DEF Restart, ColdEngine, senderVars
<1>3. SendersTyped'
  BY <1>2 DEF AnalyticsInv, AnalyticsTyped, SendersTyped
<1>4. EngineTyped' /\ PipelineSupplied'
  <2>1. models' \in Stocks /\ ~models'.pipe
    BY <1>2 DEF ColdModels, Stock, Stocks
  <2>2. idleFor' \in ClockSets
    BY <1>2 DEF Clocks, ClockSets, Faces
  <2>3. engineRuns' \in EngineStates /\ engineRuns'.down = "no"
    BY <1>2 DEF EngineAt, EngineStates
  <2>4. DOMAIN watched' \subseteq Sites /\ DOMAIN told' \subseteq Sites
    BY <1>2 DEF NoSites
  <2>. QED BY <2>1, <2>2, <2>3, <2>4 DEF EngineTyped, PipelineSupplied
<1>5. call' \in [Senders -> CallStates] /\ \A c \in Senders : call'[c].at = "idle" /\ call'[c].site = "none"
  BY <1>1, <1>2
<1>6. AnswersTyped'
  BY <1>2, <1>5 DEF AnswersTyped
<1>7. \A k \in Sites : AskOf(k, watched') = {}
  BY <1>2 DEF AskOf, NoSites, Nothing
<1>8. Subscribed'
  <2>1. \A k \in Sites : \A c \in Senders : call'[c].site # k
    BY <1>5, AnalyticsAssumption
  <2>. QED BY <1>2, <1>7, <2>1 DEF Subscribed, ByOne
<1>. QED BY <1>3, <1>4, <1>6, <1>8 DEF AnalyticsInv, AnalyticsTyped

LEMMA AnalyticsInitial == AnalyticsInit => AnalyticsInv
<1> SUFFICES ASSUME AnalyticsInit PROVE AnalyticsInv
  OBVIOUS
<1>1. NoCall \in CallStates /\ NoCall.at = "idle" /\ NoCall.site = "none"
  BY DEF NoCall, CallAt, CallStates, AskedFor
<1>2. call \in [Senders -> CallStates] /\ \A c \in Senders : call[c].at = "idle" /\ call[c].site = "none"
  BY <1>1 DEF AnalyticsInit
<1>3. SendersTyped
  <2>1. todo \in [Senders -> Seq(CallsTo)] /\ row \in [Sites -> AskedFor] /\ deleted \subseteq Sites
    BY DEF AnalyticsInit, AskedFor
  <2>2. siteBudget \in SiteRecords
    BY AnalyticsAssumption DEF AnalyticsInit, SiteRecords
  <2>3. \A k \in DOMAIN sight : sight[k] \in AskedFor
    BY DEF AnalyticsInit, NotRead, AskedFor
  <2>. QED BY <2>1, <2>2, <2>3 DEF SendersTyped
<1>4. EngineTyped /\ PipelineSupplied
  <2>1. models \in Stocks /\ ~models.pipe
    BY DEF AnalyticsInit, ColdModels, Stock, Stocks
  <2>2. idleFor \in ClockSets
    BY DEF AnalyticsInit, Clocks, ClockSets, Faces
  <2>3. engineRuns \in EngineStates /\ engineRuns.down = "no"
    BY DEF AnalyticsInit, EngineAt, EngineStates
  <2>4. DOMAIN watched \subseteq Sites /\ DOMAIN told \subseteq Sites
    BY DEF AnalyticsInit, NoSites
  <2>. QED BY <2>1, <2>2, <2>3, <2>4 DEF EngineTyped, PipelineSupplied
<1>5. AnswersTyped
  BY <1>2 DEF AnalyticsInit, AnswersTyped
<1>6. Subscribed
  <2>1. \A k \in Sites : \A c \in Senders : call[c].site # k
    BY <1>2, AnalyticsAssumption
  <2>2. \A k \in Sites : AskOf(k, watched) = {}
    BY DEF AnalyticsInit, AskOf, NoSites, Nothing
  <2>. QED BY <2>1, <2>2 DEF AnalyticsInit, Subscribed, ByOne
<1>. QED BY <1>3, <1>4, <1>5, <1>6 DEF AnalyticsInv, AnalyticsTyped

LEMMA AnalyticsStep == AnalyticsInv /\ [AnalyticsNext]_analyticsVars => AnalyticsInv'
<1> SUFFICES ASSUME AnalyticsInv, [AnalyticsNext]_analyticsVars PROVE AnalyticsInv'
  OBVIOUS
<1>0. SendersTyped /\ EngineTyped /\ AnswersTyped /\ PipelineSupplied /\ Subscribed
      /\ Savers \subseteq Senders /\ Pusher \in Senders
  BY DEF AnalyticsInv, AnalyticsTyped, Senders
<1>1. CASE \/ \E c \in Senders, k \in Sites : Save(c, k)
           \/ \E k \in Sites : DeleteRow(k)
           \/ ReadSites \/ CompareSites \/ \E c \in Senders : LoseCall(c)
  <2>1. SendersTyped'
    BY <1>1, RegistrySound
  <2>2. UNCHANGED <<call, watched, models, idleFor, engineRuns, told, searchSub, everySub, overtaken, outlived>>
    BY <1>1 DEF Save, DeleteRow, ReadSites, CompareSites, LoseCall, engineVars, subscriptionVars
  <2>3. EngineTyped' /\ AnswersTyped' /\ PipelineSupplied'
    BY <1>0, <2>2 DEF EngineTyped, AnswersTyped, PipelineSupplied
  <2>. QED BY <1>0, <2>1, <2>2, <2>3, SubscribedStays DEF AnalyticsInv, AnalyticsTyped
<1>2. CASE StartBuild \/ Install \/ BuildEnds \/ TimePasses \/ TickBusy \/ TickIdle \/ StopSet \/ StopDone
  <2>1. EngineTyped' /\ PipelineSupplied' /\ outlived' \in BOOLEAN /\ UNCHANGED watched
    BY <1>0, <1>2, ModelsSound DEF AnswersTyped
  <2>2. UNCHANGED <<row, deleted, sight, todo, call, searchSub, everySub, overtaken>>
    BY <1>2 DEF StartBuild, Install, Installs, BuildEnds, TimePasses, TickBusy, TickIdle, StopSet, StopDone, senderVars,
                subscriptionVars
  <2>3. siteBudget' \in SiteRecords
    BY <1>0, <1>2, SpendSiteKeeps DEF StartBuild, Install, Installs, BuildEnds, TimePasses, TickBusy, TickIdle, StopSet,
                                      StopDone, SendersTyped
  <2>4. SendersTyped' /\ AnswersTyped'
    BY <1>0, <2>1, <2>2, <2>3 DEF SendersTyped, AnswersTyped
  <2>. QED BY <1>0, <2>1, <2>2, <2>4, SubscribedStays DEF AnalyticsInv, AnalyticsTyped
<1>3. CASE UNCHANGED analyticsVars
  <2>1. UNCHANGED <<row, deleted, sight, todo, call, watched, models, idleFor, engineRuns, told, searchSub, everySub,
                    overtaken, outlived, siteBudget>>
    BY <1>3 DEF analyticsVars, senderVars, engineVars, subscriptionVars
  <2>2. SendersTyped' /\ EngineTyped' /\ AnswersTyped' /\ PipelineSupplied'
    BY <1>0, <2>1 DEF SendersTyped, EngineTyped, AnswersTyped, PipelineSupplied
  <2>. QED BY <1>0, <2>1, <2>2, SubscribedStays DEF AnalyticsInv, AnalyticsTyped
<1>. QED
  BY <1>0, <1>1, <1>2, <1>3, EnterSound, SubscribeSound, RestartSound
     DEF AnalyticsNext, SenderStep, LoopStep, LoadStep, ReaperTick, Process

LEMMA AnalyticsHolds == AnalyticsInv => AnalyticsTypeOK /\ PipelineFits
<1> SUFFICES ASSUME AnalyticsInv PROVE AnalyticsTypeOK /\ PipelineFits
  OBVIOUS
<1>1. AnalyticsTypeOK
  BY DEF AnalyticsInv, AnalyticsTyped, SendersTyped, EngineTyped, AnswersTyped, AnalyticsTypeOK, AskedFor, CallStates, Stocks,
         ClockSets, Faces, EngineStates
<1>2. \A k \in Sites \ overtaken : ~Inside(k) =>
        /\ k \in searchSub <=> AskOf(k, watched) \ {"activity"} # {}
        /\ k \in everySub <=> "activity" \in AskOf(k, watched)
  BY DEF AnalyticsInv, Subscribed, ByOne
<1>. QED BY <1>1, <1>2 DEF AnalyticsInv, PipelineSupplied, PipelineFits

-----------------------------------------------------------------------------
(* What cameras are analysed for.                                            *)

AiRecords == [from : SUBSET AiDesigns, first : Builds, offer : SUBSET AiDesigns, copy : Nat, label : Nat,
              save : Nat, lost : Nat, build : Nat, calendar : Nat]

\* A budget is spent from, and what may be sent stays what it was.
LEMMA SpendAiKeeps ==
  ASSUME aiBudget \in AiRecords, NEW c \in {"copy", "label", "save", "lost", "build", "calendar"}, SpendAi(c)
  PROVE  aiBudget' \in AiRecords /\ aiBudget'.offer = aiBudget.offer /\ aiBudget'.from = aiBudget.from
<1>1. CASE c = "copy"
  BY <1>1 DEF SpendAi, AiRecords
<1>2. CASE c = "label"
  BY <1>2 DEF SpendAi, AiRecords
<1>3. CASE c = "save"
  BY <1>3 DEF SpendAi, AiRecords
<1>4. CASE c = "lost"
  BY <1>4 DEF SpendAi, AiRecords
<1>5. CASE c = "build"
  BY <1>5 DEF SpendAi, AiRecords
<1>6. CASE c = "calendar"
  BY <1>6 DEF SpendAi, AiRecords
<1>. QED BY <1>1, <1>2, <1>3, <1>4, <1>5, <1>6

(* Every row has the label that was given, and copies write rows of known    *)
(* activities.                                                               *)
CatalogueInv ==
  /\ DOMAIN catalogue \subseteq Keys /\ NamesKept /\ said \in [Keys -> {"own", "given"}]
  /\ DOMAIN syncing = Syncers /\ \A w \in Syncers : DOMAIN syncing[w].defs \subseteq Keys

(* An activity that was accepted fits the definition that judged it.         *)
Judges(d, by) ==
  /\ DOMAIN by \subseteq DOMAIN d.acts /\ (DOMAIN by # {} => WellFormed(d))
  /\ \A t \in DOMAIN by : by[t].status = "available" =>
       PlacesFit(by[t].rule, KindsOf(d, d.acts[t])) /\ SettingsAllowed(by[t].param, d.acts[t].value)
DesignInv ==
  /\ aiBudget \in AiRecords /\ build \in Builds /\ design \in aiBudget.offer \cup aiBudget.from /\ Judges(design, judged)
  /\ Len(saving) \in {0, 1} /\ (Len(saving) = 0 => saving = <<>>)
  /\ saving # <<>> => saving[1].new \in aiBudget.offer /\ Judges(saving[1].new, saving[1].by)
  /\ pushes \in Seq(aiBudget.offer) /\ Len(asserting) \in {0, 1}
CalendarInv ==
  \A r \in calendar.rules : SaneRule(r) /\ r.start \in 0..DayLength /\ r.end \in 0..DayLength
AiInv == CatalogueInv /\ DesignInv /\ CalendarInv

LEMMA ParsedKeys == ASSUME NEW b \in Builds PROVE DOMAIN Parsed(b) \subseteq Keys
BY AiAssumption DEF Parsed

LEMMA AiInitial == (AiInit) => AiInv
<1> SUFFICES ASSUME AiInit PROVE AiInv
  OBVIOUS
<1>1. aiBudget \in AiRecords /\ build \in Builds /\ design \in aiBudget.offer \cup aiBudget.from
  BY AiAssumption DEF AiInit, AiRecords
<1>2. CatalogueInv
  <2>1. DOMAIN Parsed(build) \subseteq Keys
    BY <1>1, ParsedKeys
  <2>2. \A k \in DOMAIN catalogue : catalogue[k].label = "own" /\ said[k] = "own"
    BY <2>1 DEF AiInit, NewRow, TypeRow
  <2>3. \A w \in Syncers : syncing[w].defs = <<>>
    BY DEF AiInit, NoSyncing, CopyAt
  <2>. QED BY <2>1, <2>2, <2>3 DEF AiInit, CatalogueInv, NamesKept
<1>3. DesignInv
  BY <1>1 DEF AiInit, DesignInv, Judges
<1>4. CalendarInv
  BY DEF AiInit, CalendarInv
<1>. QED BY <1>2, <1>3, <1>4 DEF AiInv

LEMMA CatalogueStep == AiInv /\ [AiNext]_aiVars => CatalogueInv'
<1> SUFFICES ASSUME AiInv, [AiNext]_aiVars PROVE CatalogueInv'
  OBVIOUS
<1>1. ASSUME NEW w \in Syncers, FetchDefs(w) PROVE CatalogueInv'
  <2>1. DOMAIN Parsed(build) \subseteq Keys
    BY ParsedKeys DEF AiInv, DesignInv
  <2>2. CopyAt("read", Parsed(build), <<>>).defs = Parsed(build)
    BY DEF CopyAt
  <2>3. DOMAIN syncing' = Syncers /\ \A v \in Syncers : DOMAIN syncing'[v].defs \subseteq Keys
    BY <1>1, <2>1, <2>2 DEF FetchDefs, AiInv, CatalogueInv
  <2>. QED BY <1>1, <2>3 DEF FetchDefs, AiInv, CatalogueInv, NamesKept
<1>2. ASSUME NEW w \in Syncers, ReadTypes(w) PROVE CatalogueInv'
  <2>1. CopyAt("write", syncing[w].defs, catalogue).defs = syncing[w].defs
    BY DEF CopyAt
  <2>2. DOMAIN syncing' = Syncers /\ \A v \in Syncers : DOMAIN syncing'[v].defs \subseteq Keys
    BY <1>2, <2>1 DEF ReadTypes, AiInv, CatalogueInv
  <2>. QED BY <1>2, <2>2 DEF ReadTypes, AiInv, CatalogueInv, NamesKept
<1>3. ASSUME NEW w \in Syncers, WriteTypes(w) PROVE CatalogueInv'
  <2> DEFINE s == syncing[w]
             new == DOMAIN s.defs \ DOMAIN s.rows
  <2>1. NoSyncing.defs = <<>>
    BY DEF NoSyncing, CopyAt
  <2>2. DOMAIN syncing' = Syncers /\ \A v \in Syncers : DOMAIN syncing'[v].defs \subseteq Keys
    BY <1>3, <2>1 DEF WriteTypes, AiInv, CatalogueInv
  <2>3. CASE UNCHANGED <<catalogue, said>>
    BY <2>2, <2>3 DEF AiInv, CatalogueInv, NamesKept
  <2>4. CASE new \cap DOMAIN catalogue = {}
    <3>1. new \subseteq Keys
      BY DEF AiInv, CatalogueInv
    <3>2. /\ catalogue' = [k \in DOMAIN catalogue \cup new |->
                IF k \in new THEN NewRow(s.defs[k])
                ELSE IF k \notin DOMAIN s.rows THEN catalogue[k]
                ELSE IF k \in DOMAIN s.defs THEN Entry(s.defs[k], s.rows[k], catalogue[k])
                ELSE Withdrawal(s.rows[k], catalogue[k])]
          /\ said' = [k \in Keys |-> IF k \in new THEN "own" ELSE said[k]]
      BY <1>3, <2>4 DEF WriteTypes
    <3>3. \A d, read, now : Entry(d, read, now).label = now.label /\ Withdrawal(read, now).label = now.label
                            /\ NewRow(d).label = "own"
      BY DEF Entry, Withdrawal, NewRow, TypeRow
    <3> HIDE DEF new
    <3>4. \A k \in DOMAIN catalogue' : catalogue'[k].label = IF k \in new THEN "own" ELSE catalogue[k].label
      <4>1. SUFFICES ASSUME NEW k \in DOMAIN catalogue \cup new
                     PROVE  catalogue'[k].label = IF k \in new THEN "own" ELSE catalogue[k].label
        BY <3>2
      <4>2. CASE k \in new
        BY <3>2, <3>3, <4>2
      <4>3. CASE k \notin new /\ k \notin DOMAIN s.rows
        BY <3>2, <4>3
      <4>4. CASE k \notin new /\ k \in DOMAIN s.rows /\ k \in DOMAIN s.defs
        BY <3>2, <3>3, <4>4
      <4>5. CASE k \notin new /\ k \in DOMAIN s.rows /\ k \notin DOMAIN s.defs
        BY <3>2, <3>3, <4>5
      <4>. QED BY <4>2, <4>3, <4>4, <4>5
    <3>5. said' \in [Keys -> {"own", "given"}] /\ \A k \in Keys : said'[k] = IF k \in new THEN "own" ELSE said[k]
      BY <3>2 DEF AiInv, CatalogueInv
    <3>. QED BY <2>2, <3>1, <3>2, <3>4, <3>5 DEF AiInv, CatalogueInv, NamesKept
  <2>. QED BY <1>3, <2>3, <2>4 DEF WriteTypes
<1>4. ASSUME NEW k \in Keys, Relabel(k) PROVE CatalogueInv'
  <2>1. TypeRow("given", catalogue[k].status, catalogue[k].rule, catalogue[k].param).label = "given"
    BY DEF TypeRow
  <2>2. DOMAIN catalogue' = DOMAIN catalogue /\ catalogue'[k].label = "given"
        /\ \A j \in DOMAIN catalogue \ {k} : catalogue'[j] = catalogue[j]
    BY <1>4, <2>1 DEF Relabel
  <2>3. said' = [said EXCEPT ![k] = "given"] /\ UNCHANGED syncing
    BY <1>4 DEF Relabel
  <2>. QED BY <2>2, <2>3 DEF AiInv, CatalogueInv, NamesKept
<1>5. CASE UNCHANGED <<catalogue, syncing, said>>
  BY <1>5 DEF AiInv, CatalogueInv, NamesKept
<1>. QED
  BY <1>1, <1>2, <1>3, <1>4, <1>5 DEF AiNext, Copying, Asserting, BeginSave, EndSave, PushDesign, AssertRead, AssertDesign,
     NewBuild, SaveCalendar, copyVars, designVars, aiVars

LEMMA CalendarStep == AiInv /\ [AiNext]_aiVars => CalendarInv'
<1> SUFFICES ASSUME AiInv, [AiNext]_aiVars PROVE CalendarInv'
  OBVIOUS
<1>1. ASSUME NEW c \in Calendars, SaveCalendar(c) PROVE CalendarInv'
  BY <1>1, AiAssumption DEF SaveCalendar, CalendarInv, SaneRule
<1>2. CASE UNCHANGED calendar
  BY <1>2 DEF AiInv, CalendarInv, SaneRule
<1>. QED
  BY <1>1, <1>2 DEF AiNext, Copying, Asserting, BeginSave, EndSave, PushDesign, AssertRead, AssertDesign,
     NewBuild, FetchDefs, ReadTypes, WriteTypes, Relabel, aiVars

LEMMA DesignStep == AiInv /\ [AiNext]_aiVars => DesignInv'
<1> SUFFICES ASSUME AiInv, [AiNext]_aiVars PROVE DesignInv'
  OBVIOUS
<1>0. /\ aiBudget \in AiRecords /\ build \in Builds /\ design \in aiBudget.offer \cup aiBudget.from /\ Judges(design, judged)
      /\ Len(saving) \in {0, 1} /\ (Len(saving) = 0 => saving = <<>>)
      /\ (saving # <<>> => saving[1].new \in aiBudget.offer /\ Judges(saving[1].new, saving[1].by))
      /\ pushes \in Seq(aiBudget.offer) /\ Len(asserting) \in {0, 1}
  BY DEF AiInv, DesignInv
<1>1. ASSUME UNCHANGED <<build, design, judged, saving, pushes, asserting>>, aiBudget' \in AiRecords,
             aiBudget'.offer = aiBudget.offer, aiBudget'.from = aiBudget.from
      PROVE  DesignInv'
  BY <1>0, <1>1 DEF DesignInv, Judges
<1>2. ASSUME NEW w \in Syncers, Copying(w) PROVE DesignInv'
  BY <1>0, <1>1, <1>2, SpendAiKeeps DEF Copying, FetchDefs, ReadTypes, WriteTypes, designVars
<1>3. ASSUME NEW k \in Keys, Relabel(k) PROVE DesignInv'
  BY <1>0, <1>1, <1>3, SpendAiKeeps DEF Relabel, designVars
<1>4. ASSUME NEW d \in aiBudget.offer, BeginSave(d) PROVE DesignInv'
  <2> DEFINE by == [t \in DOMAIN d.acts |-> catalogue[t]]
             new == [new |-> d, by |-> by]
  <2>1. aiBudget' \in AiRecords /\ aiBudget'.offer = aiBudget.offer /\ aiBudget'.from = aiBudget.from
    BY <1>0, <1>4, SpendAiKeeps DEF BeginSave
  <2>2. Judges(d, by)
    BY <1>4 DEF BeginSave, Acceptable, Judges
  <2>3. new.new = d /\ new.by = by /\ saving' = <<new>>
    BY <1>4 DEF BeginSave
  <2> HIDE DEF by, new
  <2>4. Len(saving') = 1 /\ saving'[1] = new
    BY <2>3
  <2>5. UNCHANGED <<build, design, judged, pushes, asserting>>
    BY <1>4 DEF BeginSave, copyVars
  <2>6. Judges(saving'[1].new, saving'[1].by) /\ saving'[1].new \in aiBudget'.offer
    BY <2>1, <2>2, <2>3, <2>4
  <2>7. Judges(design', judged')
    BY <1>0, <2>5
  <2>. QED BY <1>0, <2>1, <2>4, <2>5, <2>6, <2>7 DEF DesignInv
<1>5. CASE EndSave
  <2>1. /\ design' \in aiBudget.offer /\ Judges(design', judged') /\ saving' = <<>>
        /\ UNCHANGED <<build, asserting, aiBudget>>
    BY <1>0, <1>5 DEF EndSave, copyVars
  <2>2. saving[1].new \in aiBudget.offer /\ pushes' = Append(pushes, saving[1].new)
    BY <1>0, <1>5 DEF EndSave
  <2>3. pushes' \in Seq(aiBudget.offer)
    BY <1>0, <2>2, AppendProperties
  <2>. QED BY <1>0, <2>1, <2>3 DEF DesignInv
<1>6. CASE PushDesign
  <2>1. aiBudget' \in AiRecords /\ aiBudget'.offer = aiBudget.offer /\ aiBudget'.from = aiBudget.from
    BY <1>0, <1>6, SpendAiKeeps DEF PushDesign
  <2>2. pushes' \in Seq(aiBudget.offer)
    BY <1>0, <1>6 DEF PushDesign
  <2>3. UNCHANGED <<build, design, judged, saving, asserting>>
    BY <1>6 DEF PushDesign, copyVars
  <2>. QED BY <1>0, <2>1, <2>2, <2>3 DEF DesignInv, Judges
<1>7. CASE Asserting
  <2>1. Len(asserting') \in {0, 1}
    BY <1>7 DEF Asserting, AssertRead, AssertDesign
  <2>2. UNCHANGED <<build, design, judged, saving, pushes, aiBudget>>
    BY <1>7 DEF Asserting, AssertRead, AssertDesign, copyVars
  <2>. QED BY <1>0, <2>1, <2>2 DEF DesignInv, Judges
<1>8. ASSUME NEW b \in Builds, NewBuild(b) PROVE DesignInv'
  <2>1. aiBudget' \in AiRecords /\ aiBudget'.offer = aiBudget.offer /\ aiBudget'.from = aiBudget.from
    BY <1>0, <1>8, SpendAiKeeps DEF NewBuild
  <2>2. UNCHANGED <<design, judged, saving, pushes, asserting>> /\ build' \in Builds
    BY <1>8 DEF NewBuild
  <2>. QED BY <1>0, <2>1, <2>2 DEF DesignInv, Judges
<1>9. ASSUME NEW c \in Calendars, SaveCalendar(c) PROVE DesignInv'
  BY <1>0, <1>1, <1>9, SpendAiKeeps DEF SaveCalendar, copyVars, designVars
<1>10. CASE UNCHANGED aiVars
  BY <1>0, <1>1, <1>10 DEF aiVars, copyVars, designVars
<1>. QED BY <1>2, <1>3, <1>4, <1>5, <1>6, <1>7, <1>8, <1>9, <1>10 DEF AiNext

LEMMA AiStep == AiInv /\ [AiNext]_aiVars => AiInv'
BY CatalogueStep, DesignStep, CalendarStep DEF AiInv

\* What is drawn for an activity it was accepted for is watched.
LEMMA FittingIsWatched ==
  ASSUME NEW d, NEW a, NEW rule \in {"required", "optional", "tripwire"}, PlacesFit(rule, KindsOf(d, a))
  PROVE  ZonesWatched(d, a, rule) # {}
<1> DEFINE areas == {r \in Sound(d, a) : d.drawn[r].kind = "zone"}
<1>1. \A r : r \in areas <=> r \in RegionsOf(d, a) \cap DOMAIN d.drawn /\ d.drawn[r].kind = "zone"
  BY DEF Sound
<1>2. \A k : k \in KindsOf(d, a) <=> \E r \in RegionsOf(d, a) \cap DOMAIN d.drawn : d.drawn[r].kind = k
  BY DEF KindsOf
<1>3. CASE rule = "required"
  <2>1. "zone" \in KindsOf(d, a)
    BY <1>3 DEF PlacesFit
  <2>2. areas # {}
    BY <1>1, <1>2, <2>1
  <2>. QED BY <1>3, <2>2 DEF ZonesWatched
<1>4. CASE rule = "tripwire"
  <2>1. KindsOf(d, a) = {"tripwire"}
    BY <1>4 DEF PlacesFit
  <2>2. PICK r \in RegionsOf(d, a) \cap DOMAIN d.drawn : d.drawn[r].kind = "tripwire"
    BY <1>2, <2>1
  <2>3. r \in Sound(d, a) \ areas
    BY <1>1, <2>2 DEF Sound
  <2>. QED BY <1>4, <2>3 DEF ZonesWatched
<1>5. CASE rule = "optional"
  <2>1. "tripwire" \in KindsOf(d, a) => "zone" \in KindsOf(d, a)
    BY <1>5 DEF PlacesFit
  <2>2. areas = {} => Sound(d, a) = {}
    BY <1>1, <1>2, <2>1 DEF Sound
  <2>. QED BY <1>5, <2>2 DEF ZonesWatched
<1>. QED BY <1>3, <1>4, <1>5

\* Settings that were allowed are what the service makes of them.
LEMMA AllowedIsResolved ==
  ASSUME NEW p, NEW v, SoundSetting(p), SoundValue(v), SettingsAllowed(p, v), v # NoValue
  PROVE  Resolved(p, v) = [v |-> v.n, s |-> ItemsOf(v)]
<1>0. /\ v.kind = p.kind /\ p.kind \in {"number", "bool", "text", "enum", "list"} /\ p.least \in {0, 1}
      /\ v.kind = "number" => (p.whole => v.n % 2 = 0) /\ v.n >= p.min /\ v.n <= p.max
      /\ v.kind \in {"enum", "list"} => ItemsOf(v) \subseteq p.options
      /\ v.kind = "list" => Len(v.items) >= p.least
  BY DEF SettingsAllowed, SoundSetting
<1>1. v.kind \notin {"enum", "list"} => ItemsOf(v) = {}
  BY DEF SoundValue, ItemsOf
<1>2. v.kind \in {"enum", "list"} => {Current(p, i) : i \in ItemsOf(v)} \cap p.options = ItemsOf(v)
  BY <1>0 DEF SoundSetting, Current
<1>3. CASE p.kind = "number"
  BY <1>0, <1>1, <1>3 DEF Resolved
<1>4. CASE p.kind = "enum"
  <2>1. v.items # <<>> /\ v.n = 0 /\ v.items \in Seq({v.items[i] : i \in DOMAIN v.items})
    BY <1>0, <1>4 DEF SoundValue
  <2>2. 1 \in DOMAIN v.items
    BY <2>1, EmptySeq
  <2>3. ItemsOf(v) # {}
    BY <2>2 DEF ItemsOf
  <2>. QED BY <1>0, <1>2, <1>4, <2>1, <2>3 DEF Resolved
<1>5. CASE p.kind = "list"
  <2>1. v.n = 0 /\ v.items \in Seq({v.items[i] : i \in DOMAIN v.items})
    BY <1>0, <1>5 DEF SoundValue
  <2>2. Len(v.items) \in Nat /\ DOMAIN v.items = 1..Len(v.items)
    BY <2>1
  <2>3. IsFiniteSet(DOMAIN v.items)
    BY <2>2, FS_Interval
  <2>4. IsFiniteSet({v.items[i] : i \in DOMAIN v.items})
    <3>1. v.items \in Surjection(DOMAIN v.items, {v.items[i] : i \in DOMAIN v.items})
      BY <2>1, <2>2 DEF Surjection
    <3>. QED BY <2>3, <3>1, FS_Surjection
  <2>5. IsFiniteSet(ItemsOf(v))
    BY <2>4 DEF ItemsOf
  <2>6. Cardinality(ItemsOf(v)) \in Nat
    BY <2>5, FS_CardinalityType
  <2>7. p.least = 1 => ItemsOf(v) # {}
    <3>1. p.least = 1 => 1 \in DOMAIN v.items
      BY <1>0, <1>5, <2>2
    <3>. QED BY <3>1 DEF ItemsOf
  <2>8. ItemsOf(v) # {} => Cardinality(ItemsOf(v)) # 0
    BY <2>5, FS_EmptySet
  <2>9. ~(Cardinality(ItemsOf(v)) < p.least)
    BY <1>0, <2>6, <2>7, <2>8
  <2>. QED BY <1>0, <1>2, <1>5, <2>1, <2>9 DEF Resolved
<1>6. CASE p.kind \in {"bool", "text"}
  BY <1>0, <1>1, <1>6 DEF Resolved
<1>. QED BY <1>0, <1>3, <1>4, <1>5, <1>6

LEMMA AcceptedHolds == AiInv => AcceptedRuns
<1> SUFFICES ASSUME AiInv, NEW t \in DOMAIN judged \cap DOMAIN build, SameDefinition(judged[t], build[t]),
                    build[t].status = "available"
             PROVE  /\ t \in Evaluated(design)
                    /\ design.acts[t].value # NoValue =>
                         Resolved(build[t].param, design.acts[t].value)
                           = [v |-> design.acts[t].value.n, s |-> ItemsOf(design.acts[t].value)]
  BY DEF AcceptedRuns
<1>1. build[t].rule \in {"required", "optional", "tripwire"} /\ SoundSetting(build[t].param)
  BY AiAssumption DEF AiInv, DesignInv
<1>2. /\ t \in DOMAIN design.acts /\ PlacesFit(build[t].rule, KindsOf(design, design.acts[t]))
      /\ SettingsAllowed(build[t].param, design.acts[t].value)
  BY DEF AiInv, DesignInv, Judges, SameDefinition
<1>3. SoundValue(design.acts[t].value)
  <2>1. design \in AiDesigns
    BY DEF AiInv, DesignInv, AiRecords
  <2>. QED BY <1>2, <2>1, AiAssumption
<1>4. t \in Evaluated(design)
  BY <1>1, <1>2, FittingIsWatched DEF Evaluated
<1>. QED BY <1>1, <1>2, <1>3, <1>4, AllowedIsResolved

LEMMA ZonesHold == ZonesNamed
<1> SUFFICES ASSUME NEW t \in DOMAIN design.acts, NEW i \in DOMAIN Positions(design, t),
                    ~ \E r \in DOMAIN design.drawn : design.drawn[r].name = i
             PROVE  ZoneName(design, t, i) = design.drawn[Positions(design, t)[i]].name
  BY DEF ZonesNamed
<1>1. SelectSeq(design.acts[t].at, LAMBDA r : CountedFor(design, t, r)) = Positions(design, t)
  BY Zenon DEF Positions, Counted, CountedFor
<1>. QED BY <1>1 DEF ZoneName

LEMMA HoursHold == AiInv => HoursAgree
<1> SUFFICES ASSUME AiInv, NEW t \in DOMAIN design.acts,
                    ~design.acts[t].hours.given
                      \/ (/\ Garbled \notin {design.acts[t].hours.start, design.acts[t].hours.end}
                          /\ {design.acts[t].hours.start, design.acts[t].hours.end} # {DayLength}),
                    NEW day \in Weekdays, NEW c \in 0..(DayLength - 1)
             PROVE  RunsAt(design.acts[t], day, c) = PipelineRunsAt(design.acts[t], day, c)
  BY DEF HoursAgree
<1> DEFINE a == design.acts[t]
<1>1. SoundHours(a.hours) /\ DayLength \in Nat \ {0, 1}
  <2>1. design \in AiDesigns
    BY DEF AiInv, DesignInv, AiRecords
  <2>. QED BY <2>1, AiAssumption
<1>2. (a.days.given => day \in a.days.of) = (day \in (IF a.days.given THEN a.days.of ELSE Weekdays))
  OBVIOUS
<1>3. (a.hours.start = Garbled \/ a.hours.end = Garbled \/ InWindow(c, a.hours.start, a.hours.end))
      = InWindow(c, PipelineTime(a.hours.start, 0), PipelineTime(a.hours.end, DayLength - 1))
  <2>1. CASE a.hours = NoHours
    <3>1. a.hours.start = Garbled /\ a.hours.end = Garbled
      BY <2>1 DEF NoHours
    <3>. QED BY <1>1, <3>1 DEF Garbled, InWindow, PipelineTime
  <2>2. CASE a.hours.start \in 0..Garbled /\ a.hours.end \in 0..Garbled /\ a.hours.given
    <3>1. PICK x \in 0..DayLength, y \in 0..DayLength : a.hours.start = x /\ a.hours.end = y /\ ~(x = DayLength /\ y = DayLength)
      BY <1>1, <2>2 DEF Garbled
    <3>. QED BY <1>1, <3>1 DEF Garbled, InWindow, PipelineTime
  <2>. QED BY <1>1, <2>1, <2>2 DEF SoundHours
<1>. QED BY <1>2, <1>3 DEF RunsAt, PipelineRunsAt

LEMMA CalendarHolds == AiInv => CalendarKept
<1> SUFFICES ASSUME AiInv, NEW date \in 2..Len(Dates), NEW t \in 0..(DayLength - 1)
             PROVE  RecordsAt(date, t) <=>
                      \/ calendar.rules = {}
                      \/ \E r \in calendar.rules, d \in {date - 1, date} :
                           /\ DayKey(d) \in r.days
                           /\ d * DayLength + r.start <= date * DayLength + t
                           /\ date * DayLength + t < (IF r.end > r.start THEN d ELSE d + 1) * DayLength + r.end
  BY DEF CalendarKept
<1>1. DayLength \in Nat \ {0, 1} /\ Len(Dates) \in Nat
  BY AiAssumption
<1>2. date \in Nat /\ t \in Nat /\ t < DayLength
  BY <1>1
<1>3. PICK n \in Int : n = date * DayLength
  BY <1>1, <1>2
<1>4. (date - 1) * DayLength = n - DayLength /\ (date + 1) * DayLength = n + DayLength /\ (date - 1) + 1 = date
  BY <1>1, <1>2, <1>3
<1>5. ASSUME NEW r \in calendar.rules
      PROVE  (IF r.end > r.start THEN DayKey(date) \in r.days /\ r.start <= t /\ t < r.end
              ELSE \/ DayKey(date) \in r.days /\ t >= r.start
                   \/ DayBefore(date) \in r.days /\ t < r.end)
             <=> \E d \in {date - 1, date} :
                   /\ DayKey(d) \in r.days
                   /\ d * DayLength + r.start <= date * DayLength + t
                   /\ date * DayLength + t < (IF r.end > r.start THEN d ELSE d + 1) * DayLength + r.end
  <2> DEFINE Within(d) == /\ d * DayLength + r.start <= date * DayLength + t
                          /\ date * DayLength + t < (IF r.end > r.start THEN d ELSE d + 1) * DayLength + r.end
  <2>1. PICK s \in 0..(DayLength - 1), e \in 0..DayLength : r.start = s /\ r.end = e /\ s # e
    BY <1>1 DEF AiInv, CalendarInv, SaneRule
  <2>2. (IF r.end > r.start THEN date ELSE date + 1) * DayLength = (IF e > s THEN n ELSE n + DayLength)
    BY <1>3, <1>4, <2>1
  <2>3. (IF r.end > r.start THEN date - 1 ELSE date - 1 + 1) * DayLength = (IF e > s THEN n - DayLength ELSE n)
    BY <1>3, <1>4, <2>1
  <2>4. Within(date) <=> n + s <= n + t /\ n + t < (IF e > s THEN n ELSE n + DayLength) + e
    BY <1>3, <2>1, <2>2
  <2>5. Within(date - 1) <=> n - DayLength + s <= n + t /\ n + t < (IF e > s THEN n - DayLength ELSE n) + e
    BY <1>3, <1>4, <2>1, <2>3
  <2> HIDE DEF Within
  <2>6. Within(date) <=> s <= t /\ t < (IF e > s THEN e ELSE DayLength + e)
    BY <1>1, <1>2, <2>1, <2>4
  <2>7. Within(date - 1) <=> e <= s /\ t < e
    <3>1. e > s => ~Within(date - 1)
      BY <1>1, <1>2, <2>1, <2>5
    <3>2. ~(e > s) => (Within(date - 1) <=> t < e)
      BY <1>1, <1>2, <2>1, <2>5
    <3>. QED BY <1>1, <2>1, <3>1, <3>2
  <2>8. (IF r.end > r.start THEN DayKey(date) \in r.days /\ r.start <= t /\ t < r.end
         ELSE \/ DayKey(date) \in r.days /\ t >= r.start
              \/ DayBefore(date) \in r.days /\ t < r.end)
        <=> (DayKey(date) \in r.days /\ Within(date)) \/ (DayKey(date - 1) \in r.days /\ Within(date - 1))
    <3>1. CASE e > s
      BY <1>1, <1>2, <2>1, <2>6, <2>7, <3>1 DEF DayBefore
    <3>2. CASE ~(e > s)
      BY <1>1, <1>2, <2>1, <2>6, <2>7, <3>2 DEF DayBefore
    <3>. QED BY <3>1, <3>2
  <2>. QED BY <2>8 DEF Within
<1>. QED BY <1>5 DEF RecordsAt

LEMMA AiHolds == AiInv => AiTypeOK /\ AcceptedRuns /\ ZonesNamed /\ HoursAgree /\ CalendarKept /\ NamesKept
<1> SUFFICES ASSUME AiInv PROVE AiTypeOK /\ NamesKept
  BY AcceptedHolds, ZonesHold, HoursHold, CalendarHolds
<1>0. Len(saving) \in {0, 1} /\ Len(asserting) \in {0, 1}
  BY DEF AiInv, DesignInv
<1>1. Len(saving) <= 1 /\ Len(asserting) <= 1
  BY <1>0
<1>. QED BY <1>1 DEF AiInv, CatalogueInv, DesignInv, AiTypeOK

-----------------------------------------------------------------------------
(* The files of the external pipeline.                                       *)

Versions == Designs \cup {0, ByHand}
FileRecords == [kind : {"none", "json", "garbled"}, ours : BOOLEAN, of : Versions]
Passing == {"write", "clean"}
SweepStages == {"idle", "ask", "write", "clean", "tell", "compare", "missing"}
Sweeps == [st : SweepStages, want : [Sensors -> Designs \cup {0}], left : SUBSET Sensors,
           wrote : SUBSET Sensors, gone : SUBSET Sensors]
FilesTyped ==
  /\ wish \in [Sensors -> Designs \cup {0}] /\ loaded \in [Sensors -> Versions]
  /\ file \in [Sensors -> FileRecords] /\ sweeper \in [Sweepers -> Sweeps]
  /\ asked \subseteq Sensors /\ excused \subseteq Sensors /\ running \in BOOLEAN
  /\ \A s \in Sensors : file[s].ours => file[s].kind = "json"
(* One sweep at a time is under the lock, and only one that wrote or removed *)
(* something has something to tell.                                          *)
OneSweep == \A v, w \in Sweepers : sweeper[v].st \in Passing /\ sweeper[w].st \in Passing => v = w
TellsOnlyItsOwn ==
  \A w \in Sweepers : sweeper[w].st \notin {"write", "clean", "tell"} => Untold(w) = {}
(* Of a camera that never had a design nothing is wanted, nor written.       *)
NeverAsked ==
  \A s \in Sensors \ asked :
    /\ wish[s] = 0
    /\ \A w \in Sweepers : sweeper[w].want[s] = 0 /\ (sweeper[w].st = "write" => s \notin sweeper[w].left)
FilesInv == FilesTyped /\ OneSweep /\ TellsOnlyItsOwn /\ NeverAsked /\ HandmadeKept /\ OutdatedAccounted

LEMMA FilesInitial == DsInit => FilesInv
<1> SUFFICES ASSUME DsInit PROVE FilesInv
  OBVIOUS
<1>1. NotSweeping \in Sweeps /\ NotSweeping.st = "idle" /\ NotSweeping.wrote = {} /\ NotSweeping.gone = {}
      /\ \A s \in Sensors : NotSweeping.want[s] = 0
  BY DEF NotSweeping, Afresh, SweepAt, Sweeps, SweepStages
<1>2. \A w \in Sweepers : sweeper[w] = NotSweeping
  BY DEF DsInit
<1>3. FilesTyped
  BY <1>1, DsAssumption DEF DsInit, FilesTyped, FileRecords, Versions
<1>4. OneSweep /\ TellsOnlyItsOwn /\ NeverAsked
  BY <1>1, <1>2 DEF DsInit, OneSweep, TellsOnlyItsOwn, NeverAsked, Passing, Untold
<1>. QED BY <1>3, <1>4 DEF DsInit, FilesInv, HandmadeKept, OutdatedAccounted

\* How a sweep goes on: what it wants stays or is what the rows want now.
LEMMA SweepsTyped ==
  ASSUME FilesTyped, NEW w \in Sweepers, NEW new \in Sweeps, Becomes(w, new)
  PROVE  sweeper' \in [Sweepers -> Sweeps] /\ sweeper'[w] = new /\ \A v \in Sweepers \ {w} : sweeper'[v] = sweeper[v]
BY DEF FilesTyped, Becomes

LEMMA EndedTyped ==
  ASSUME NEW w \in Sweepers
  PROVE  /\ Ended(w) \in Sweeps /\ Ended(w).st \in {"idle", "compare"} /\ Ended(w).wrote = {} /\ Ended(w).gone = {}
         /\ \A s \in Sensors : Ended(w).want[s] = 0
BY DEF Ended, NotSweeping, Afresh, SweepAt, Sweeps, SweepStages

\* A sweep that ends, is begun, or goes to look at the pipeline.
LEMMA AfreshTyped ==
  ASSUME NEW st \in SweepStages, NEW left \in SUBSET Sensors
  PROVE  /\ Afresh(st, left) \in Sweeps /\ Afresh(st, left).st = st /\ Afresh(st, left).left = left
         /\ Afresh(st, left).wrote = {} /\ Afresh(st, left).gone = {}
         /\ \A s \in Sensors : Afresh(st, left).want[s] = 0
BY DEF Afresh, SweepAt, Sweeps

\* A step that only moves one sweep on leaves the rest as it was.
LEMMA MovesOn ==
  ASSUME FilesInv, NEW w \in Sweepers, NEW new \in Sweeps, Becomes(w, new),
         UNCHANGED <<wish, file, first, running, loaded, asked>>, excused \subseteq excused', excused' \subseteq Sensors,
         new.st \in Passing => (sweeper[w].st \in Passing \/ ~Locked),
         new.st \notin {"write", "clean", "tell"} => new.wrote \cup new.gone = {},
         Untold(w) \subseteq excused' \cup new.wrote \cup new.gone,
         \A s \in Sensors \ asked : new.want[s] = 0 /\ (new.st = "write" => s \notin new.left)
  PROVE  FilesInv'
<1>1. /\ sweeper' \in [Sweepers -> Sweeps] /\ sweeper'[w] = new
      /\ \A v \in Sweepers \ {w} : sweeper'[v] = sweeper[v]
  BY SweepsTyped DEF FilesInv
<1>2. FilesTyped'
  BY <1>1 DEF FilesInv, FilesTyped
<1>3. OneSweep'
  BY <1>1 DEF FilesInv, OneSweep, Locked, Passing
<1>4. TellsOnlyItsOwn'
  BY <1>1 DEF FilesInv, TellsOnlyItsOwn, Untold
<1>5. NeverAsked'
  BY <1>1 DEF FilesInv, NeverAsked
<1>6. HandmadeKept'
  BY DEF FilesInv, HandmadeKept
<1>7. OutdatedAccounted'
  <2>1. \A v \in Sweepers \ {w} : Untold(v)' = Untold(v)
    BY <1>1 DEF Untold
  <2>2. Untold(w)' = new.wrote \cup new.gone
    BY <1>1 DEF Untold
  <2>3. excused \cup Untold("hook") \cup Untold("loop") \subseteq (excused \cup Untold("hook") \cup Untold("loop"))'
    BY <2>1, <2>2 DEF Sweepers
  <2>. QED BY <2>3 DEF FilesInv, OutdatedAccounted
<1>. QED BY <1>2, <1>3, <1>4, <1>5, <1>6, <1>7 DEF FilesInv

\* A camera of a sweep is passed over: nothing else changes.
LEMMA PassesOn ==
  ASSUME FilesInv, NEW w \in Sweepers, NEW s \in sweeper[w].left, NEW wrote \in SUBSET Sensors, NEW gone \in SUBSET Sensors,
         sweeper[w].st \in Passing, Passes(w, s, wrote, gone),
         UNCHANGED <<wish, first, running, loaded, asked, excused>>,
         Untold(w) \subseteq wrote \cup gone,
         \/ UNCHANGED file
         \/ /\ s \in wrote \cup gone /\ \A t \in Sensors \ {s} : file'[t] = file[t]
            /\ file' \in [Sensors -> FileRecords] /\ (file'[s].ours => file'[s].kind = "json")
            /\ s \notin asked => ~(first[s].kind # "none" /\ ~first[s].ours)
  PROVE  FilesInv'
<1> DEFINE new == SweepAt(sweeper[w].st, sweeper[w].want, sweeper[w].left \ {s}, wrote, gone)
<1>0. new \in Sweeps /\ s \in Sensors
  BY DEF FilesInv, FilesTyped, Sweeps, SweepAt
<1>1. /\ sweeper' \in [Sweepers -> Sweeps] /\ sweeper'[w] = new
      /\ \A v \in Sweepers \ {w} : sweeper'[v] = sweeper[v]
  <2>1. Becomes(w, new)
    BY DEF Passes
  <2>. QED BY <1>0, <2>1, SweepsTyped DEF FilesInv
<1>2. new.st = sweeper[w].st /\ new.want = sweeper[w].want /\ new.left = sweeper[w].left \ {s} /\ new.wrote = wrote
      /\ new.gone = gone
  BY DEF SweepAt
<1> HIDE DEF new
<1>3. FilesTyped'
  <2>1. file' \in [Sensors -> FileRecords] /\ \A t \in Sensors : file'[t].ours => file'[t].kind = "json"
    BY <1>0 DEF FilesInv, FilesTyped
  <2>. QED BY <1>1, <2>1 DEF FilesInv, FilesTyped
<1>4. OneSweep'
  BY <1>1, <1>2 DEF FilesInv, OneSweep
<1>5. TellsOnlyItsOwn'
  BY <1>1, <1>2 DEF FilesInv, TellsOnlyItsOwn, Untold, Passing
<1>6. NeverAsked'
  BY <1>1, <1>2 DEF FilesInv, NeverAsked
<1>7. HandmadeKept'
  BY DEF FilesInv, HandmadeKept
<1>8. OutdatedAccounted'
  <2>1. \A v \in Sweepers \ {w} : Untold(v)' = Untold(v)
    BY <1>1 DEF Untold
  <2>2. Untold(w)' = wrote \cup gone
    BY <1>1, <1>2 DEF Untold
  <2>3. excused \cup Untold("hook") \cup Untold("loop") \subseteq (excused \cup Untold("hook") \cup Untold("loop"))'
    BY <2>1, <2>2 DEF Sweepers
  <2>4. UNCHANGED file \/ (s \in (Untold("hook") \cup Untold("loop"))' /\ \A t \in Sensors \ {s} : file'[t] = file[t])
    BY <2>2 DEF Sweepers
  <2>. QED BY <2>3, <2>4 DEF FilesInv, OutdatedAccounted
<1>. QED BY <1>3, <1>4, <1>5, <1>6, <1>7, <1>8 DEF FilesInv

LEMMA AbortSound ==
  ASSUME FilesInv, NEW w \in Sweepers, Abort(w), UNCHANGED <<wish, file, first, running, loaded, asked>>
  PROVE  FilesInv'
<1>1. excused' \subseteq Sensors /\ excused \subseteq excused' /\ Untold(w) \subseteq excused'
  BY DEF Abort, Untold, FilesInv, FilesTyped, Sweeps
<1>. QED BY <1>1, EndedTyped, MovesOn DEF Abort, Passing

LEMMA WriteSound ==
  ASSUME FilesInv, NEW w \in Sweepers, NEW s \in Sensors, WriteFile(w, s)
  PROVE  FilesInv'
<1>0. sweeper[w] \in Sweeps /\ sweeper[w].st = "write" /\ s \in sweeper[w].left /\ sweeper[w].want[s] \in Designs \cup {0}
  BY DEF WriteFile, FilesInv, FilesTyped, Sweeps
<1>1. CASE file[s].kind = "garbled"
  BY <1>1, AbortSound DEF WriteFile
<1>2. CASE Passes(w, s, sweeper[w].wrote, sweeper[w].gone) /\ UNCHANGED <<file, excused>>
  BY <1>0, <1>2, PassesOn DEF WriteFile, Passing, Untold, Sweeps
<1>3. CASE /\ Passes(w, s, sweeper[w].wrote \cup {s}, sweeper[w].gone) /\ UNCHANGED excused
           /\ file' = [file EXCEPT ![s] = Written(sweeper[w].want[s])]
  <2>1. s \in asked
    BY <1>0 DEF FilesInv, NeverAsked
  <2>2. Written(sweeper[w].want[s]) \in FileRecords /\ Written(sweeper[w].want[s]).kind = "json"
    BY <1>0 DEF Written, FileOf, FileRecords, Versions
  <2>3. /\ file' \in [Sensors -> FileRecords] /\ file'[s].kind = "json" /\ \A t \in Sensors \ {s} : file'[t] = file[t]
    BY <1>3, <2>2 DEF FilesInv, FilesTyped
  <2>. QED BY <1>0, <1>3, <2>1, <2>3, PassesOn DEF WriteFile, Passing, Untold, Sweeps
<1>. QED BY <1>1, <1>2, <1>3 DEF WriteFile

LEMMA CleanSound ==
  ASSUME FilesInv, NEW w \in Sweepers, NEW s \in Sensors, CleanFile(w, s)
  PROVE  FilesInv'
<1>0. sweeper[w] \in Sweeps /\ sweeper[w].st = "clean" /\ s \in sweeper[w].left
  BY DEF CleanFile, FilesInv, FilesTyped
<1>1. CASE file[s].kind = "garbled"
  BY <1>1, AbortSound DEF CleanFile
<1>2. CASE Passes(w, s, sweeper[w].wrote, sweeper[w].gone) /\ UNCHANGED <<file, excused>>
  BY <1>0, <1>2, PassesOn DEF CleanFile, Passing, Untold, Sweeps
<1>3. CASE /\ IsOurs(s) /\ Passes(w, s, sweeper[w].wrote, Reported(sweeper[w].gone, s)) /\ UNCHANGED excused
           /\ file' = [file EXCEPT ![s] = NoFile]
  <2>1. s \notin asked => ~(first[s].kind # "none" /\ ~first[s].ours)
    BY <1>3 DEF FilesInv, HandmadeKept, IsOurs
  <2>2. NoFile \in FileRecords /\ ~NoFile.ours
    BY DEF NoFile, FileOf, FileRecords, Versions
  <2>3. /\ file' \in [Sensors -> FileRecords] /\ ~file'[s].ours /\ \A t \in Sensors \ {s} : file'[t] = file[t]
    BY <1>3, <2>2 DEF FilesInv, FilesTyped
  <2>. QED BY <1>0, <1>3, <2>1, <2>3, PassesOn DEF CleanFile, Passing, Untold, Sweeps, Reported
<1>. QED BY <1>1, <1>2, <1>3 DEF CleanFile

\* What the pipeline is told, and what of a camera it has then.
LEMMA ApplySound ==
  ASSUME FilesInv, NEW s \in Sensors, Applies(s)
  PROVE  /\ loaded' \in [Sensors -> Versions] /\ running' \in BOOLEAN
         /\ running' => running /\ file[s].kind = "json" /\ loaded'[s] = file[s].of
                        /\ \A t \in Sensors \ {s} : loaded'[t] = loaded[t]
<1>1. file[s].of \in Versions /\ 0 \in Versions
  BY DEF FilesInv, FilesTyped, FileRecords, Versions
<1>. QED BY <1>1 DEF Applies, FilesInv, FilesTyped

\* A sweep that tells, or looks, steps on; what the pipeline has of the cameras
\* that are no longer to be told is what the files say, or the failure is known.
LEMMA TellingOn ==
  ASSUME FilesInv, NEW w \in Sweepers, NEW new \in Sweeps, Becomes(w, new), new.st \notin Passing,
         UNCHANGED <<wish, file, first, asked>>, loaded' \in [Sensors -> Versions], running' \in BOOLEAN,
         excused' \subseteq Sensors, new.st # "tell" => new.wrote \cup new.gone = {},
         \A s \in Sensors \ asked : new.want[s] = 0,
         running' => /\ running
                     /\ \A s \in Sensors : \/ loaded'[s] = loaded[s] /\ s \notin (excused \ excused') \cup (Untold(w) \ (new.wrote \cup new.gone \cup excused'))
                                           \/ loaded'[s] = IF file[s].kind = "json" THEN file[s].of ELSE 0
  PROVE  FilesInv'
<1>1. /\ sweeper' \in [Sweepers -> Sweeps] /\ sweeper'[w] = new
      /\ \A v \in Sweepers \ {w} : sweeper'[v] = sweeper[v]
  BY SweepsTyped DEF FilesInv
<1>2. FilesTyped'
  BY <1>1 DEF FilesInv, FilesTyped
<1>3. OneSweep'
  BY <1>1 DEF FilesInv, OneSweep, Passing
<1>4. TellsOnlyItsOwn'
  BY <1>1 DEF FilesInv, TellsOnlyItsOwn, Untold, Passing
<1>5. NeverAsked'
  BY <1>1 DEF FilesInv, NeverAsked, Passing
<1>6. HandmadeKept'
  BY DEF FilesInv, HandmadeKept
<1>7. OutdatedAccounted'
  <2>1. \A v \in Sweepers \ {w} : Untold(v)' = Untold(v)
    BY <1>1 DEF Untold
  <2>2. Untold(w)' = new.wrote \cup new.gone
    BY <1>1 DEF Untold
  <2>3. SUFFICES ASSUME running', NEW s \in Sensors, loaded'[s] = loaded[s],
                        s \notin (excused \ excused') \cup (Untold(w) \ (new.wrote \cup new.gone \cup excused')),
                        s \in excused \cup Untold("hook") \cup Untold("loop")
                 PROVE  s \in (excused \cup Untold("hook") \cup Untold("loop"))'
    BY DEF FilesInv, OutdatedAccounted
  <2>. QED BY <2>1, <2>2, <2>3 DEF Sweepers
<1>. QED BY <1>2, <1>3, <1>4, <1>5, <1>6, <1>7 DEF FilesInv

LEMMA TellSound ==
  ASSUME FilesInv, NEW w \in Sweepers, NEW s \in Sensors, TellGone(w, s) \/ TellWritten(w, s)
  PROVE  FilesInv'
<1>0. /\ sweeper[w] \in Sweeps /\ sweeper[w].st = "tell" /\ \A t \in Sensors \ asked : sweeper[w].want[t] = 0
      /\ loaded \in [Sensors -> Versions] /\ excused \subseteq Sensors /\ running \in BOOLEAN
  BY DEF TellGone, TellWritten, FilesInv, FilesTyped, NeverAsked
<1>1. CASE TellGone(w, s) /\ running' = FALSE /\ Becomes(w, Ended(w)) /\ loaded' = [t \in Sensors |-> 0] /\ UNCHANGED excused
  BY <1>0, <1>1, EndedTyped, TellingOn DEF TellGone, Versions, Passing
<1>2. CASE TellGone(w, s) /\ Becomes(w, [sweeper[w] EXCEPT !.gone = @ \ {s}]) /\ excused' = excused \cup {s}
           /\ UNCHANGED <<running, loaded>>
  <2> DEFINE new == [sweeper[w] EXCEPT !.gone = @ \ {s}]
  <2>1. new \in Sweeps /\ new.st = "tell" /\ new.wrote = sweeper[w].wrote /\ new.gone = sweeper[w].gone \ {s}
        /\ new.want = sweeper[w].want
    BY <1>0 DEF Sweeps
  <2>2. Becomes(w, new)
    BY <1>2
  <2> HIDE DEF new
  <2>3. \A t \in Sensors : t \notin (excused \ excused') \cup (Untold(w) \ (new.wrote \cup new.gone \cup excused'))
    BY <1>2, <2>1 DEF Untold
  <2>. QED BY <1>0, <1>2, <2>1, <2>2, <2>3, TellingOn DEF TellGone, Passing
<1>3. ASSUME TellWritten(w, s), NEW after \in Sweeps, Becomes(w, after), after.st \notin Passing,
             \A t \in Sensors \ asked : after.want[t] = 0, after.st # "tell" => after.wrote \cup after.gone = {},
             running' => Untold(w) \ {s} \subseteq after.wrote \cup after.gone,
             \/ Applies(s) /\ excused' = excused \ {s}
             \/ UNCHANGED <<running, loaded>> /\ excused' = excused \cup {s}
      PROVE  FilesInv'
  <2>1. CASE Applies(s) /\ excused' = excused \ {s}
    <3>1. loaded' \in [Sensors -> Versions] /\ running' \in BOOLEAN
      BY <2>1, ApplySound
    <3>2. running' => /\ running
                      /\ \A t \in Sensors : \/ loaded'[t] = loaded[t] /\ t \notin (excused \ excused') \cup (Untold(w) \ (after.wrote \cup after.gone \cup excused'))
                                            \/ loaded'[t] = IF file[t].kind = "json" THEN file[t].of ELSE 0
      BY <1>3, <2>1, ApplySound
    <3>. QED BY <1>0, <1>3, <2>1, <3>1, <3>2, TellingOn DEF TellWritten
  <2>2. CASE UNCHANGED <<running, loaded>> /\ excused' = excused \cup {s}
    <3>1. running' => \A t \in Sensors : t \notin (excused \ excused') \cup (Untold(w) \ (after.wrote \cup after.gone \cup excused'))
      BY <1>3, <2>2
    <3>. QED BY <1>0, <1>3, <2>2, <3>1, TellingOn DEF TellWritten
  <2>. QED BY <1>3, <2>1, <2>2
<1>4. CASE TellWritten(w, s)
  <2> DEFINE new == [sweeper[w] EXCEPT !.wrote = @ \ {s}]
  <2>1. new \in Sweeps /\ new.st = "tell" /\ new.wrote = sweeper[w].wrote \ {s} /\ new.gone = sweeper[w].gone
        /\ new.want = sweeper[w].want
    BY <1>0 DEF Sweeps
  <2>2. \/ Applies(s) /\ excused' = excused \ {s} /\ Becomes(w, IF running' THEN new ELSE Ended(w))
        \/ UNCHANGED <<running, loaded>> /\ excused' = excused \cup {s} /\ Becomes(w, new)
    BY <1>4 DEF TellWritten, NotApplied
  <2>3. Untold(w) \ {s} \subseteq new.wrote \cup new.gone
    BY <2>1 DEF Untold
  <2> HIDE DEF new
  <2>4. CASE Becomes(w, new)
    BY <1>0, <1>3, <1>4, <2>1, <2>2, <2>3, <2>4 DEF Passing
  <2>5. CASE Becomes(w, Ended(w)) /\ running' # TRUE
    BY <1>3, <1>4, <2>2, <2>5, EndedTyped DEF Passing
  <2>. QED BY <2>2, <2>4, <2>5
<1>. QED BY <1>1, <1>2, <1>4 DEF TellGone

LEMMA AddSound ==
  ASSUME FilesInv, NEW s \in Sensors, AddMissing(s)
  PROVE  FilesInv'
<1> DEFINE new == [sweeper["loop"] EXCEPT !.left = @ \ {s}]
<1>0. /\ sweeper["loop"] \in Sweeps /\ sweeper["loop"].st = "missing" /\ Untold("loop") = {}
      /\ \A t \in Sensors \ asked : sweeper["loop"].want[t] = 0
      /\ loaded \in [Sensors -> Versions] /\ excused \subseteq Sensors /\ running \in BOOLEAN /\ "loop" \in Sweepers
  BY DEF AddMissing, FilesInv, FilesTyped, NeverAsked, TellsOnlyItsOwn, Sweepers
<1>1. /\ new \in Sweeps /\ new.st = "missing" /\ new.wrote \cup new.gone = {} /\ new.want = sweeper["loop"].want
  BY <1>0 DEF Sweeps, Untold
<1>2. Becomes("loop", new)
  BY DEF AddMissing
<1> HIDE DEF new
<1>3. CASE Applies(s) /\ excused' = excused \ {s}
  <2>1. loaded' \in [Sensors -> Versions] /\ running' \in BOOLEAN
    BY <1>3, ApplySound
  <2>2. running' => /\ running
                    /\ \A t \in Sensors : \/ loaded'[t] = loaded[t] /\ t \notin (excused \ excused') \cup (Untold("loop") \ (new.wrote \cup new.gone \cup excused'))
                                          \/ loaded'[t] = IF file[t].kind = "json" THEN file[t].of ELSE 0
    BY <1>0, <1>3, ApplySound
  <2>. QED BY <1>0, <1>1, <1>2, <1>3, <2>1, <2>2, TellingOn DEF AddMissing, Passing
<1>4. CASE UNCHANGED <<running, loaded, excused>>
  BY <1>0, <1>1, <1>2, <1>4, TellingOn DEF AddMissing, Passing
<1>. QED BY <1>3, <1>4 DEF AddMissing, NotApplied

LEMMA SweepSound ==
  ASSUME FilesInv, NEW w \in Sweepers, Sweep(w) \/ ListDir(w) \/ EndSweep(w) \/ Told(w)
  PROVE  FilesInv'
<1>0. /\ sweeper[w] \in Sweeps /\ excused \subseteq Sensors /\ wish \in [Sensors -> Designs \cup {0}]
      /\ \A t \in Sensors \ asked : sweeper[w].want[t] = 0 /\ wish[t] = 0
  BY DEF FilesInv, FilesTyped, NeverAsked
<1>1. CASE Sweep(w)
  <2>1. Untold(w) = {}
    BY <1>1 DEF Sweep, FilesInv, TellsOnlyItsOwn
  <2>2. CASE Locked
    BY <1>0, <1>1, <2>1, <2>2, EndedTyped, MovesOn DEF Sweep, Passing
  <2>3. CASE ~Locked
    <3> DEFINE new == SweepAt("write", wish, {s \in Sensors : wish[s] # 0}, {}, {})
    <3>1. /\ new \in Sweeps /\ new.st = "write" /\ new.want = wish /\ new.left = {s \in Sensors : wish[s] # 0}
      BY <1>0 DEF SweepAt, Sweeps, SweepStages
    <3>2. Becomes(w, new)
      BY <1>1, <2>3 DEF Sweep
    <3> HIDE DEF new
    <3>. QED BY <1>0, <1>1, <2>1, <2>3, <3>1, <3>2, MovesOn DEF Sweep, Passing
  <2>. QED BY <2>2, <2>3
<1>2. CASE ListDir(w)
  <2> DEFINE new == SweepAt("clean", sweeper[w].want, {s \in Sensors : file[s] # NoFile /\ sweeper[w].want[s] = 0},
                            sweeper[w].wrote, sweeper[w].gone)
  <2>1. /\ new \in Sweeps /\ new.st = "clean" /\ new.want = sweeper[w].want /\ new.wrote = sweeper[w].wrote
        /\ new.gone = sweeper[w].gone
    BY <1>0 DEF SweepAt, Sweeps, SweepStages
  <2>2. Becomes(w, new)
    BY <1>2 DEF ListDir
  <2> HIDE DEF new
  <2>. QED BY <1>0, <1>2, <2>1, <2>2, MovesOn DEF ListDir, Passing, Untold
<1>3. CASE EndSweep(w)
  <2> DEFINE new == [sweeper[w] EXCEPT !.st = "tell"]
  <2>1. /\ new \in Sweeps /\ new.st = "tell" /\ new.want = sweeper[w].want /\ new.wrote = sweeper[w].wrote
        /\ new.gone = sweeper[w].gone
    BY <1>0 DEF Sweeps, SweepStages
  <2>2. Becomes(w, new)
    BY <1>3 DEF EndSweep
  <2> HIDE DEF new
  <2>. QED BY <1>0, <1>3, <2>1, <2>2, MovesOn DEF EndSweep, Passing, Untold
<1>4. CASE Told(w)
  BY <1>0, <1>4, EndedTyped, MovesOn DEF Told, Passing
<1>. QED BY <1>1, <1>2, <1>3, <1>4

LEMMA LoopSound ==
  ASSUME FilesInv, NextPass \/ CompareLists \/ EndCompare
  PROVE  FilesInv'
<1>0. "loop" \in Sweepers /\ sweeper["loop"].st \notin {"write", "clean", "tell"} /\ Untold("loop") = {}
      /\ excused \subseteq Sensors
  BY DEF NextPass, CompareLists, EndCompare, FilesInv, FilesTyped, TellsOnlyItsOwn, Sweepers
<1>1. ASSUME NEW st \in {"idle", "ask", "missing"}, NEW left \in SUBSET Sensors, Becomes("loop", Afresh(st, left)),
             UNCHANGED <<wish, file, first, running, loaded, asked, excused>>
      PROVE  FilesInv'
  <2>1. st \in SweepStages
    BY DEF SweepStages
  <2> DEFINE new == Afresh(st, left)
  <2>2. /\ new \in Sweeps /\ new.st = st /\ new.wrote = {} /\ new.gone = {} /\ \A s \in Sensors : new.want[s] = 0
    BY <2>1, AfreshTyped
  <2>3. Becomes("loop", new)
    BY <1>1
  <2> HIDE DEF new
  <2>. QED BY <1>0, <1>1, <2>2, <2>3, MovesOn DEF Passing
<1>2. {s \in Sensors : wish[s] # 0 /\ loaded[s] = 0} \in SUBSET Sensors
  OBVIOUS
<1>. QED BY <1>1, <1>2 DEF NextPass, CompareLists, EndCompare, NotSweeping

LEMMA DiesSound ==
  ASSUME FilesInv, NEW w \in Sweepers, SweeperDies(w)
  PROVE  FilesInv'
<1>1. excused' \subseteq Sensors /\ excused \subseteq excused' /\ Untold(w) \subseteq excused'
  BY DEF SweeperDies, Untold, FilesInv, FilesTyped, Sweeps
<1>2. "idle" \in SweepStages
  BY DEF SweepStages
<1>3. NotSweeping \in Sweeps /\ NotSweeping.st = "idle" /\ NotSweeping.wrote = {} /\ NotSweeping.gone = {}
      /\ \A s \in Sensors : NotSweeping.want[s] = 0
  BY <1>2, AfreshTyped DEF NotSweeping
<1>. QED BY <1>1, <1>3, MovesOn DEF SweeperDies, Passing

LEMMA SaveDesignSound ==
  ASSUME FilesInv, NEW s \in Sensors, NEW v \in Designs \cup {0}, SaveDesign(s, v)
  PROVE  FilesInv'
<1>0. "ask" \in SweepStages /\ "hook" \in Sweepers /\ Untold("hook") = {}
  BY DEF SaveDesign, SweepStages, Sweepers, FilesInv, TellsOnlyItsOwn
<1>1. /\ Afresh("ask", {}) \in Sweeps /\ Afresh("ask", {}).st = "ask" /\ Afresh("ask", {}).wrote = {}
      /\ Afresh("ask", {}).gone = {} /\ \A t \in Sensors : Afresh("ask", {}).want[t] = 0
  BY <1>0, AfreshTyped
<1>2. /\ sweeper' \in [Sweepers -> Sweeps] /\ sweeper'["hook"] = Afresh("ask", {})
      /\ \A w \in Sweepers \ {"hook"} : sweeper'[w] = sweeper[w]
  BY <1>0, <1>1, SweepsTyped DEF SaveDesign, FilesInv
<1>3. /\ wish' \in [Sensors -> Designs \cup {0}] /\ \A t \in Sensors \ {s} : wish'[t] = wish[t]
      /\ asked' = asked \cup {s}
      /\ UNCHANGED <<file, first, running, loaded, excused>>
  BY DEF SaveDesign, FilesInv, FilesTyped
<1>4. FilesTyped'
  BY <1>2, <1>3 DEF FilesInv, FilesTyped
<1>5. OneSweep' /\ TellsOnlyItsOwn'
  BY <1>1, <1>2 DEF FilesInv, OneSweep, TellsOnlyItsOwn, Untold, Passing
<1>6. NeverAsked'
  BY <1>1, <1>2, <1>3 DEF FilesInv, NeverAsked
<1>7. HandmadeKept'
  BY <1>3 DEF FilesInv, HandmadeKept
<1>8. OutdatedAccounted'
  <2>1. Untold("loop")' = Untold("loop")
    BY <1>2 DEF Untold, Sweepers
  <2>. QED BY <1>0, <1>3, <2>1 DEF FilesInv, OutdatedAccounted
<1>. QED BY <1>4, <1>5, <1>6, <1>7, <1>8 DEF FilesInv

LEMMA AroundSound ==
  ASSUME FilesInv, (\E s \in Sensors : HandEdits(s)) \/ PipeStops \/ PipeStarts
  PROVE  FilesInv'
<1>1. ASSUME NEW s \in Sensors, HandEdits(s) PROVE FilesInv'
  <2>1. file[s] \in FileRecords /\ ByHand \in Versions
    BY DEF FilesInv, FilesTyped, Versions
  <2>2. FileOf(file[s].kind, TRUE, ByHand) \in FileRecords /\ FileOf(file[s].kind, TRUE, ByHand).kind = file[s].kind
    BY <2>1 DEF FileRecords, FileOf
  <2>3. file' \in [Sensors -> FileRecords] /\ file'[s].kind = file[s].kind /\ \A t \in Sensors \ {s} : file'[t] = file[t]
    BY <1>1, <2>2 DEF HandEdits, FilesInv, FilesTyped
  <2>4. UNCHANGED <<wish, first, running, loaded, sweeper, asked>> /\ excused' = excused \cup {s} /\ file[s].ours
    BY <1>1 DEF HandEdits
  <2>5. FilesTyped'
    BY <2>3, <2>4 DEF FilesInv, FilesTyped
  <2>6. OneSweep' /\ TellsOnlyItsOwn' /\ NeverAsked'
    BY <2>4 DEF FilesInv, OneSweep, TellsOnlyItsOwn, NeverAsked, Untold
  <2>7. HandmadeKept'
    BY <2>3, <2>4 DEF FilesInv, HandmadeKept
  <2>8. OutdatedAccounted'
    BY <2>3, <2>4 DEF FilesInv, OutdatedAccounted, Untold
  <2>. QED BY <2>5, <2>6, <2>7, <2>8 DEF FilesInv
<1>2. CASE PipeStops \/ PipeStarts
  <2>1. /\ loaded' \in [Sensors -> Versions] /\ running' \in BOOLEAN /\ excused' \subseteq Sensors
        /\ running' => \A s \in Sensors : loaded'[s] = IF file[s].kind = "json" THEN file[s].of ELSE 0
    BY <1>2 DEF PipeStops, PipeStarts, FilesInv, FilesTyped, FileRecords, Versions
  <2>2. UNCHANGED <<wish, file, first, sweeper, asked>>
    BY <1>2 DEF PipeStops, PipeStarts
  <2>. QED BY <2>1, <2>2 DEF FilesInv, FilesTyped, OneSweep, TellsOnlyItsOwn, NeverAsked, Untold, HandmadeKept,
                             OutdatedAccounted
<1>. QED BY <1>1, <1>2

LEMMA FilesStep == FilesInv /\ [DsNext]_dsVars => FilesInv'
<1>1. FilesInv /\ DsNext => FilesInv'
  BY SweepSound, WriteSound, CleanSound, TellSound, DiesSound, LoopSound, AddSound, SaveDesignSound, AroundSound
     DEF DsNext, Sweeping, Looping
<1>2. FilesInv /\ UNCHANGED dsVars => FilesInv'
  BY DEF dsVars, FilesInv, FilesTyped, OneSweep, TellsOnlyItsOwn, NeverAsked, Untold, HandmadeKept, OutdatedAccounted
<1>. QED BY <1>1, <1>2

\* Sweeps have their types, files their marks, and one sweep is under the lock.
LEMMA FilesHold == FilesInv => DsTypeOK /\ HandmadeKept /\ OutdatedAccounted
<1> SUFFICES ASSUME FilesInv PROVE DsTypeOK
  BY DEF FilesInv
<1> DEFINE under == {w \in Sweepers : sweeper[w].st \in {"write", "clean"}}
<1>1. Cardinality(under) <= 1
  <2>1. \A v, w \in under : v = w
    BY DEF FilesInv, OneSweep, Passing
  <2> HIDE DEF under
  <2>2. CASE under = {}
    BY <2>2, FS_EmptySet
  <2>3. ASSUME NEW w \in under PROVE Cardinality(under) <= 1
    <3>1. under = {w}
      BY <2>1
    <3>. QED BY <3>1, FS_Singleton
  <2>. QED BY <2>2, <2>3
<1>. QED BY <1>1 DEF FilesInv, FilesTyped, DsTypeOK, Versions, Sweeps, SweepStages

-----------------------------------------------------------------------------
(* The theorems.                                                             *)

\* A step of the services is one of the part that moves, and none of the others.
LEMMA ServicesSteps ==
  ASSUME [ServicesNext]_servicesVars
  PROVE  /\ [ManagementNext]_managementVars /\ [AuditNext]_auditVars /\ [DiscoveryNext]_discoveryVars
         /\ [PolicyNext]_policyVars /\ [AnalyticsNext]_analyticsVars /\ [AiNext]_aiVars /\ [DsNext]_dsVars /\ UNCHANGED part
BY DEF ServicesNext, servicesVars, Manages, Audits, Discovers, Analyses, Permits, Plans, Projects

LEMMA ServicesBegin ==
  ServicesInit => /\ ManagementInit /\ AuditInit /\ DiscoveryInit /\ PolicyInit /\ AnalyticsInit /\ AiInit /\ DsInit
                  /\ part \in Parts
BY DEF ServicesInit

\* Beside everything else the API does still at most one worker runs the
\* reconcile loop, stalls and outages excepted.
THEOREM ServicesOneLoop == ServicesSpec => []OneLoop
<1>1. ServicesInit => LockTypeOK /\ HolderRuns
  BY ServicesBegin, WorkersAssumption DEF ManagementInit, LockInit, LockTypeOK, HolderRuns
<1>2. LockTypeOK /\ HolderRuns /\ [ServicesNext]_servicesVars => LockTypeOK' /\ HolderRuns'
  BY ServicesSteps, ManagementSteps, TypeStep, HolderStep
<1>3. HolderRuns => OneLoop
  BY DEF HolderRuns, OneLoop, Running
<1>. QED BY <1>1, <1>2, <1>3, PTL DEF ServicesSpec

\* What records carries the settings of the camera's row once the requests about
\* them have ended, and nothing records that no row asks for.
THEOREM ServicesRecordersFollow == ServicesSpec => []RecordersAsAsked
<1>1. ServicesInit => SyncTypeOK /\ SyncInv
  BY ServicesBegin, SyncInitial DEF ManagementInit
<1>2. SyncTypeOK /\ SyncInv /\ [ServicesNext]_servicesVars => SyncTypeOK' /\ SyncInv'
  BY ServicesSteps, ManagementSteps, SyncInvStep
<1>3. SyncTypeOK /\ SyncInv => RecordersAsAsked
  BY SyncInvEnough
<1>. QED BY <1>1, <1>2, <1>3, PTL DEF ServicesSpec

\* Two network scans run at once only after the lock of one ran out, and a camera
\* once registered goes back to a staging stage only by one that held its row when
\* it was registered, whatever scans, probes and requests come together.
THEOREM ScansHold == ServicesSpec => DiscoveryHolds
<1>1. ServicesInit => DiscoveryInv
  BY ServicesBegin, DiscoveryInitial
<1>2. DiscoveryInv /\ [ServicesNext]_servicesVars => DiscoveryInv' /\ Lasts
  BY ServicesSteps, DiscoveryInvStep
<1>3. DiscoveryInv => OneScan
  BY DEF DiscoveryInv
<1>4. Lasts => [\A r \in Rows : stage[r] = "registered" /\ stage'[r] # "registered" => r \in overlapped]_stage
  BY DEF Lasts
<1>. QED BY <1>1, <1>2, <1>3, <1>4, PTL DEF ServicesSpec, DiscoveryHolds, RegistrationLasts

\* What was done by whom is in the trail, once, in a chain that verifies, unless
\* it is known how it was lost; a capability that was taken away is refused by
\* every worker once its memory has run out, and an edit is seen by its own worker.
THEOREM AccessIsAccounted == ServicesSpec => []AccessAccounted
<1>1. ServicesInit => AuditInv /\ PolicyInv
  BY ServicesBegin, AuditInitial, PolicyInitial
<1>2. AuditInv /\ PolicyInv /\ [ServicesNext]_servicesVars => AuditInv' /\ PolicyInv'
  BY ServicesSteps, AuditStep, PolicyStep
<1>3. AuditInv /\ PolicyInv => AccessAccounted
  BY AuditHolds, PolicyHolds DEF AccessAccounted
<1>. QED BY <1>1, <1>2, <1>3, PTL DEF ServicesSpec

\* What a camera is analysed for is what was accepted: the models of its service
\* serve the cameras that ask, an accepted activity runs in the places and hours
\* that were drawn, whichever engine runs it, it records by its calendar, labels
\* stay as given, files nobody here wrote are left alone, and where the pipeline
\* has not what the files say it is known why.
THEOREM AnalysedAsAccepted == ServicesSpec => []AnalysisFits
<1>1. ServicesInit => AnalyticsInv /\ AiInv /\ FilesInv
  BY ServicesBegin, AnalyticsInitial, AiInitial, FilesInitial
<1>2. AnalyticsInv /\ AiInv /\ FilesInv /\ [ServicesNext]_servicesVars => AnalyticsInv' /\ AiInv' /\ FilesInv'
  BY ServicesSteps, AnalyticsStep, AiStep, FilesStep
<1>3. AnalyticsInv /\ AiInv /\ FilesInv => AnalysisFits
  BY AnalyticsHolds, AiHolds, FilesHold DEF AnalysisFits
<1>. QED BY <1>1, <1>2, <1>3, PTL DEF ServicesSpec

\* Every part of the services has its types, whatever the others do.
THEOREM ServicesTyped == ServicesSpec => []ServicesTypeOK
<1> DEFINE Inv == /\ part \in Parts /\ LockTypeOK /\ SyncTypeOK /\ SyncInv /\ DiscoveryInv
                  /\ AuditInv /\ PolicyInv /\ AnalyticsInv /\ AiInv /\ FilesInv
<1>1. ServicesInit => Inv
  BY ServicesBegin, SyncInitial, DiscoveryInitial, AuditInitial, PolicyInitial, AnalyticsInitial, AiInitial,
     FilesInitial, WorkersAssumption DEF ManagementInit, LockInit, LockTypeOK
<1>2. Inv /\ [ServicesNext]_servicesVars => Inv'
  <2> SUFFICES ASSUME Inv, [ServicesNext]_servicesVars PROVE Inv'
    OBVIOUS
  <2>1. LockTypeOK' /\ SyncTypeOK' /\ SyncInv'
    BY ServicesSteps, ManagementSteps, TypeStep, SyncInvStep
  <2>2. DiscoveryInv' /\ AuditInv' /\ PolicyInv'
    BY ServicesSteps, DiscoveryInvStep, AuditStep, PolicyStep
  <2>3. AnalyticsInv' /\ AiInv' /\ FilesInv' /\ part' \in Parts
    BY ServicesSteps, AnalyticsStep, AiStep, FilesStep
  <2>. QED BY <2>1, <2>2, <2>3
<1>3. Inv => ServicesTypeOK
  BY AuditHolds, PolicyHolds, AnalyticsHolds, AiHolds, FilesHold DEF ServicesTypeOK, DiscoveryInv, PolicyInv
<1>. QED BY <1>1, <1>2, <1>3, PTL DEF ServicesSpec
===============================================================================
