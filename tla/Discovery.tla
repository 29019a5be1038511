------------------------------- MODULE Discovery -------------------------------
(***************************************************************************)
(* A network scan as one job of several workers, and the rows it makes for *)
(* one address, which requests probe, promote, ignore and delete while the *)
(* scan goes on.                                                           *)
(* Code: camera-mgmt/backend/services/scan_manager.py,                     *)
(* routers/discovery.py.                                                   *)
(***************************************************************************)
EXTENDS Naturals, FiniteSets

CONSTANTS Scans,          \* scans, each in the worker that was asked for it
          Requests,       \* requests about a device
          Polls,          \* readers of the job
          Rows,           \* rows the address may get
          ScanBudgets     \* scans, requests, stalls, deaths of a worker

NoRow == "no row"
NoScan == "no scan"
Agents == Scans \cup Requests
Asks == {"credentials", "add", "manual", "ignore", "delete"}

ASSUME DiscoveryAssumption ==
  /\ IsFiniteSet(Agents) /\ IsFiniteSet(Rows) /\ Scans \cap Requests = {}
  /\ NoRow \notin Rows /\ NoScan \notin Scans
  /\ ScanBudgets \subseteq [asks : SUBSET Asks, scan : Nat, request : Nat, stall : Nat, death : Nat]

Verdict == {"verified", "auth_failed", "no_onvif"}
Staging == {"discovered", "probing", "ignored"} \cup Verdict
Absent == "absent"

VARIABLES
  scanLock,    \* the key exists; its value names nobody
  job,         \* the job's hash: the scan that wrote it, and its status
  step,        \* what a scan or request does next
  target,      \* the row it works on
  saw,         \* the stage its session last loaded or wrote
  poll,        \* a reader of the job: has read "running", has found no lock
  stage,       \* the stage of each row, or absent
  slipped,     \* history: a lock ran out under a scan that goes on
  overlapped,  \* history: rows registered while somebody else held their old stage
  scanBudget

scanVars == <<scanLock, job, poll, slipped>>
rowVars == <<target, saw, stage, overlapped>>
discoveryVars == <<scanVars, step, rowVars, scanBudget>>

SpendScan(c) == scanBudget[c] > 0 /\ scanBudget' = [scanBudget EXCEPT ![c] = @ - 1]
Under(s) == step[s] # "off"
OnRow == {"mark", "verdict", "register", "ignore", "delete"}   \* steps with a row in hand
Goes(a, to) == step' = [step EXCEPT ![a] = to]
NoJobYet == [scan |-> NoScan, status |-> "none"]

DiscoveryInit ==
  /\ scanLock = FALSE /\ job = NoJobYet /\ poll = [r \in Polls |-> "idle"]
  /\ step = [a \in Agents |-> "off"] /\ target = [a \in Agents |-> NoRow]
  /\ saw = [a \in Agents |-> Absent] /\ stage = [r \in Rows |-> Absent]
  /\ slipped = FALSE /\ overlapped = {} /\ scanBudget \in ScanBudgets

-----------------------------------------------------------------------------
(* The job.                                                                *)

(* Mutant: the key is set without NX.                                      *)
StartAnyway(s) ==
  /\ step[s] = "off" /\ SpendScan("scan")
  /\ scanLock' = TRUE /\ Goes(s, "asked")
  /\ UNCHANGED <<job, poll, slipped, rowVars>>

(* SET NX; a second scan is refused while the key lives.                   *)
StartScan(s) ==
  /\ step[s] = "off" /\ ~scanLock /\ SpendScan("scan")
  /\ scanLock' = TRUE /\ Goes(s, "asked")
  /\ UNCHANGED <<job, poll, slipped, rowVars>>

BeginJob(s) ==
  /\ step[s] = "asked" /\ job' = [scan |-> s, status |-> "running"] /\ Goes(s, "look")
  /\ UNCHANGED <<scanLock, poll, slipped, rowVars, scanBudget>>

(* The status is set on whatever job the hash holds by now.                *)
FinishJob(s) ==
  /\ step[s] \in {"look", "ended"}
  /\ \/ step[s] = "ended" /\ job' = [job EXCEPT !.status = "done"]
     \/ step[s] = "look" /\ job' = [job EXCEPT !.status = "error"]
  /\ Goes(s, "unlock")
  /\ UNCHANGED <<scanLock, poll, slipped, rowVars, scanBudget>>

(* And the key is deleted whoever set it.                                  *)
Unlock(s) ==
  /\ step[s] = "unlock" /\ scanLock' = FALSE /\ Goes(s, "off")
  /\ UNCHANGED <<job, poll, slipped, rowVars, scanBudget>>

(* Mutant: the safety valve of an hour, for ever.                          *)
ExpireNever == scanLock /\ FALSE /\ UNCHANGED discoveryVars

(* The heartbeat renews the key while its process lives and does not stall.*)
Expire ==
  /\ scanLock /\ scanLock' = FALSE
  /\ IF \E s \in Scans : Under(s) THEN SpendScan("stall") /\ slipped' = TRUE
                                  ELSE UNCHANGED <<slipped, scanBudget>>
  /\ UNCHANGED <<job, poll, step, rowVars>>

WorkerGone(s) ==
  /\ Under(s) /\ SpendScan("death") /\ Goes(s, "off")
  /\ target' = [target EXCEPT ![s] = NoRow] /\ saw' = [saw EXCEPT ![s] = Absent]
  /\ UNCHANGED <<scanVars, stage, overlapped>>

(* current_job reads the hash, then the key, then writes.                  *)
ReadJob(r) ==
  /\ poll[r] = "idle" /\ job.status = "running" /\ poll' = [poll EXCEPT ![r] = "running"]
  /\ UNCHANGED <<scanLock, job, slipped, step, rowVars, scanBudget>>

CheckLock(r) ==
  /\ poll[r] = "running"
  /\ poll' = [poll EXCEPT ![r] = IF scanLock THEN "idle" ELSE "unlocked"]
  /\ UNCHANGED <<scanLock, job, slipped, step, rowVars, scanBudget>>

MarkInterrupted(r) ==
  /\ poll[r] = "unlocked" /\ poll' = [poll EXCEPT ![r] = "idle"]
  /\ job' = [job EXCEPT !.status = "error"]
  /\ UNCHANGED <<scanLock, slipped, step, rowVars, scanBudget>>

-----------------------------------------------------------------------------
(* The rows.  A session that loaded a row writes a stage only if it is     *)
(* another than the one it loaded, and overwrites what others wrote.       *)

Held == {target[a] : a \in Agents}
Takes(a, r) == target' = [target EXCEPT ![a] = r] /\ saw' = [saw EXCEPT ![a] = stage[r]]
(* Mutant: the session keeps its row when the work is done.                *)
KeepHold(a) == a \in Agents /\ UNCHANGED <<target, saw>>
LetGo(a) == target' = [target EXCEPT ![a] = NoRow] /\ saw' = [saw EXCEPT ![a] = Absent]

Ends(a) == Goes(a, IF a \in Scans THEN "ended" ELSE "off") /\ LetGo(a)

(* The row is inserted if the session made it, updated if it is there; one *)
(* deleted meanwhile fails the commit.                                     *)
Commits(a, new) ==
  LET r == target[a] IN
  stage' = IF saw[a] = Absent \/ (stage[r] # Absent /\ saw[a] # new)
             THEN [stage EXCEPT ![r] = new] ELSE stage

(* Mutant: a registered row is as good as a staging row.                   *)
LookAnywhere(s) ==
  /\ step[s] = "look"
  /\ \E r \in Rows : (stage[r] # Absent \/ r \notin Held) /\ Takes(s, r) /\ Goes(s, "mark")
  /\ UNCHANGED <<scanVars, stage, overlapped, scanBudget>>

Fresh(r) == stage[r] = Absent /\ r \notin Held
Suitable(r) ==
  stage[r] \in Staging \/ (Fresh(r) /\ \A x \in Rows : stage[x] \notin Staging)

(* _get_or_create_staging: nothing where the address has a registered      *)
(* camera, else its staging row, else a new one.                           *)
Look(s) ==
  /\ step[s] = "look"
  /\ IF \E r \in Rows : stage[r] = "registered"
       THEN Ends(s)
       ELSE \E r \in Rows : Suitable(r) /\ Takes(s, r) /\ Goes(s, "mark")
  /\ UNCHANGED <<scanVars, stage, overlapped, scanBudget>>

(* A request about a device finds the row, and refuses a registered one.   *)
AskedFirst == [credentials |-> "mark", add |-> "register", ignore |-> "ignore", delete |-> "delete"]

Ask(q, kind) ==
  /\ step[q] = "off" /\ kind \in scanBudget.asks \ {"manual"} /\ SpendScan("request")
  /\ \E r \in Rows : stage[r] \in Staging /\ Takes(q, r)
  /\ Goes(q, AskedFirst[kind])
  /\ UNCHANGED <<scanVars, stage, overlapped>>

(* add_manual works on the address's staging row or on a new one, beside a *)
(* registered camera if there is one, and saves it before it registers.    *)
AskManual(q) ==
  /\ step[q] = "off" /\ "manual" \in scanBudget.asks /\ SpendScan("request")
  /\ \E r \in Rows : /\ Suitable(r) /\ Takes(q, r)
                     /\ stage' = IF Fresh(r) THEN [stage EXCEPT ![r] = "discovered"] ELSE stage
  /\ Goes(q, "register") /\ UNCHANGED <<scanVars, overlapped>>

(* probe_device commits "probing", asks the device for seconds ...         *)
Probe(a) ==
  /\ step[a] = "mark" /\ Commits(a, "probing")
  /\ IF saw[a] # Absent /\ stage[target[a]] = Absent
       THEN Ends(a)
       ELSE /\ saw' = [saw EXCEPT ![a] = "probing"] /\ Goes(a, "verdict") /\ UNCHANGED target
  /\ UNCHANGED <<scanVars, overlapped, scanBudget>>

(* ... and commits what it found.                                          *)
Conclude(a) ==
  /\ step[a] = "verdict" /\ \E v \in Verdict : Commits(a, v)
  /\ Ends(a) /\ UNCHANGED <<scanVars, overlapped, scanBudget>>

(* A scan without credentials only notes what the ports say.               *)
NoteOnly(s) ==
  /\ step[s] = "mark" /\ s \in Scans /\ \E v \in {"discovered", "no_onvif"} : Commits(s, v)
  /\ Ends(s) /\ UNCHANGED <<scanVars, overlapped, scanBudget>>

(* _register; whoever holds the row meanwhile knows it by its old stage.   *)
Register(q) ==
  /\ step[q] = "register" /\ Commits(q, "registered") /\ Ends(q)
  /\ overlapped' = IF \E a \in Agents \ {q} : target[a] = target[q]
                     THEN overlapped \cup {target[q]} ELSE overlapped
  /\ UNCHANGED <<scanVars, scanBudget>>

Ignore(q) ==
  /\ step[q] = "ignore" /\ Commits(q, "ignored") /\ Ends(q)
  /\ UNCHANGED <<scanVars, overlapped, scanBudget>>

Delete(q) ==
  /\ step[q] = "delete" /\ stage' = [stage EXCEPT ![target[q]] = Absent] /\ Ends(q)
  /\ overlapped' = overlapped \ {target[q]}
  /\ UNCHANGED <<scanVars, scanBudget>>

-----------------------------------------------------------------------------
ScanStep(s) == \/ BeginJob(s) \/ Look(s) \/ Probe(s) \/ Conclude(s) \/ NoteOnly(s)
               \/ FinishJob(s) \/ Unlock(s)
RequestStep(q) == Probe(q) \/ Conclude(q) \/ Register(q) \/ Ignore(q) \/ Delete(q)
PollStep(r) == ReadJob(r) \/ CheckLock(r) \/ MarkInterrupted(r)

DiscoveryNext ==
  \/ \E s \in Scans : StartScan(s) \/ ScanStep(s) \/ WorkerGone(s)
  \/ \E q \in Requests : AskManual(q) \/ RequestStep(q) \/ \E kind \in Asks \ {"manual"} : Ask(q, kind)
  \/ \E r \in Polls : PollStep(r)
  \/ Expire

DiscoverySpec == DiscoveryInit /\ [][DiscoveryNext]_discoveryVars

-----------------------------------------------------------------------------
DiscoveryTypeOK ==
  /\ scanLock \in BOOLEAN /\ job \in [scan : Scans \cup {NoScan},
                                      status : {"none", "running", "done", "error"}]
  /\ step \in [Agents -> {"off", "asked", "look", "mark", "verdict", "ended", "unlock",
                          "register", "ignore", "delete"}]
  /\ target \in [Agents -> Rows \cup {NoRow}]
  /\ saw \in [Agents -> Staging \cup {Absent, "registered"}]
  /\ poll \in [Polls -> {"idle", "running", "unlocked"}]
  /\ stage \in [Rows -> Staging \cup {Absent, "registered"}]
  /\ \A a \in Agents : target[a] \in Rows <=> step[a] \in OnRow
  /\ slipped \in BOOLEAN /\ overlapped \subseteq Rows

(* Two scans run at once only after a lock ran out under a scan that went  *)
(* on.                                                                     *)
OneScan == ~slipped => \A s, t \in Scans : Under(s) /\ Under(t) => s = t

(* A job that says it is running comes to say something else, whatever     *)
(* became of its worker.                                                   *)
ScanTold == []<>(job.status # "running")

(* A camera once registered goes back to a staging stage only at the hands *)
(* of somebody who held its row when it was registered.                    *)
RegistrationLasts ==
  [][\A r \in Rows : stage[r] = "registered" /\ stage'[r] # "registered" => r \in overlapped]_stage
=============================================================================
