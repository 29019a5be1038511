------------------------------ MODULE StorageLevel ------------------------------
(***************************************************************************)
(* How full the NVR's disk is, and who hears of it: the size cap and its   *)
(* ceiling (storage/capacity.py, storage/settings.py), the two evictions   *)
(* that keep cap and disk floor (storage/retention.py), and the alerter    *)
(* that tells a webhook when the state changes (storage/alerts.py).        *)
(*                                                                         *)
(* The disk has Disk units; footage, the playback cache and other files    *)
(* share it.  The shares of the disk that the code names in per cent are   *)
(* numbers of units here.                                                  *)
(***************************************************************************)
EXTENDS Integers

CONSTANTS
  Disk,           \* units on the volume
  CritFree,       \* free units below which the disk is critical
  WarnFree,       \* and below which it is worth a warning
  Reserve,        \* free units the floor makes, and no cap may claim
  LevelBudgets    \* the cap that is on file, and what may happen

LevelBudgetTypes ==
  [seed : 0..Disk, footage : Nat, cache : Nat, other : Nat, shrink : Nat, cap : Nat, save : Nat, post : Nat,
   hours : Nat, restart : Nat]

ASSUME LevelAssumption ==
  /\ {Disk, CritFree, WarnFree, Reserve} \subseteq Nat /\ 3 <= Disk
  /\ CritFree < WarnFree /\ CritFree <= Reserve /\ Reserve < Disk
  /\ LevelBudgets \subseteq LevelBudgetTypes

VARIABLES
  disk,        \* units of footage, of playback cache and of other files
  cap,         \* the size cap in memory and in its file (0: none)
  keeper,      \* the retention pass: "idle", or about to enforce the floor
  evicted,     \* when cap and floor last evicted: "never", "lately", "past"
  sampled,     \* the engine's last sample of the free space (-1: none yet)
  alarm,       \* the alerter: where its check stands, the level it found
  told,        \* the level notified last: in memory, in its file
  heard,       \* what the webhook last received
  lost,        \* a notification failed, or a death came before it was saved
  honest,      \* the cap was accepted, and other files have not grown since
  levelBudget
levelVars == <<disk, cap, keeper, evicted, sampled, alarm, told, heard, lost, honest, levelBudget>>
alarmVars == <<alarm, told, heard, lost>>

Levels == {"ok", "warning", "critical"}
Free == Disk - disk.footage - disk.cache - disk.other
Pay(what) == levelBudget[what] > 0 /\ levelBudget' = [levelBudget EXCEPT ![what] = @ - 1]

-----------------------------------------------------------------------------
(* The disk fills.  Footage comes and goes by age; clips, the index and    *)
(* what else lives on the volume grow and shrink.                          *)
Fill(what) ==
  /\ Free > 0 /\ Pay(what) /\ disk' = [disk EXCEPT ![what] = @ + 1]
  /\ honest' = (honest /\ what # "other")
  /\ UNCHANGED <<cap, keeper, evicted, sampled, alarmVars>>
Shrink(what) ==
  /\ disk[what] > 0 /\ Pay("shrink") /\ disk' = [disk EXCEPT ![what] = @ - 1]
  /\ UNCHANGED <<cap, keeper, evicted, sampled, alarmVars, honest>>

(* set_storage_limit: a cap above what the volume can hold is refused.  It *)
(* is in force before it is saved, and stays so when the save fails.       *)
\* Free space that counts without the reserve.
CeilingOfAll == disk.footage + Free
Ceiling == IF disk.footage + Free > Reserve THEN disk.footage + Free - Reserve ELSE 0
SetCap(g) ==
  /\ Pay("cap") /\ g <= Ceiling
  /\ \/ cap' = [memory |-> g, file |-> g]
     \/ levelBudget["save"] > 0 /\ cap' = [cap EXCEPT !.memory = g]
  /\ honest' = TRUE
  /\ UNCHANGED <<disk, keeper, evicted, sampled, alarmVars>>

-----------------------------------------------------------------------------
(* The retention pass: the oldest footage goes until the cap is kept; then *)
(* the floor, which the engine's monitor calls as well when it samples a   *)
(* critical disk.  The floor drops the playback cache first.               *)
OverCap == cap.memory # 0 /\ disk.footage > cap.memory
EnforceCap ==
  /\ keeper = "idle" /\ keeper' = "floor"
  /\ IF OverCap THEN /\ disk' = [disk EXCEPT !.footage = cap.memory]
                     /\ evicted' = [evicted EXCEPT !.cap = "lately"]
                ELSE UNCHANGED <<disk, evicted>>
  /\ UNCHANGED <<cap, sampled, alarmVars, honest, levelBudget>>

CacheDropped == [disk EXCEPT !.cache = 0]
Least(x, y) == IF x <= y THEN x ELSE y
FloorBroken == Free < CritFree
KeepFloor ==
  IF ~FloorBroken THEN UNCHANGED <<disk, evicted>>
  ELSE LET d == CacheDropped  left == Disk - d.footage - d.cache - d.other IN
       IF left >= Reserve THEN disk' = d /\ UNCHANGED evicted
       ELSE /\ disk' = [d EXCEPT !.footage = @ - Least(@, Reserve - left)]
            /\ evicted' = [evicted EXCEPT !.floor = "lately"]
EnforceFloor ==
  /\ keeper = "floor" /\ keeper' = "idle" /\ KeepFloor
  /\ UNCHANGED <<cap, sampled, alarmVars, honest, levelBudget>>
CheckDisk ==
  /\ sampled' = Free
  /\ IF Free <= CritFree THEN KeepFloor ELSE UNCHANGED <<disk, evicted>>
  /\ UNCHANGED <<cap, keeper, alarmVars, honest, levelBudget>>

(* Six hours later an eviction no longer counts.                           *)
HoursPass ==
  /\ Pay("hours") /\ evicted' = [x \in DOMAIN evicted |-> IF evicted[x] = "lately" THEN "past" ELSE evicted[x]]
  /\ UNCHANGED <<disk, cap, keeper, sampled, alarmVars, honest>>

-----------------------------------------------------------------------------
(* The alerter: evaluate what is gathered; tell a change; save it.         *)
NearCap == cap.memory # 0 /\ 10 * disk.footage >= 9 * cap.memory
Evaluate ==
  IF sampled \in 0..CritFree \/ evicted.floor = "lately" THEN "critical"
  ELSE IF sampled \in 0..WarnFree \/ evicted.cap = "lately" \/ NearCap THEN "warning" ELSE "ok"

CheckAlarm ==
  /\ alarm.at = "idle" /\ Evaluate # told.memory
  /\ alarm' = [at |-> "notify", level |-> Evaluate]
  /\ UNCHANGED <<disk, cap, keeper, evicted, sampled, told, heard, lost, honest, levelBudget>>
(* The webhook is tried once; the state counts as notified either way.     *)
Notify ==
  /\ alarm.at = "notify" /\ alarm' = [alarm EXCEPT !.at = "save"]
  /\ \/ heard' = alarm.level /\ lost' = FALSE /\ UNCHANGED levelBudget
     \/ Pay("post") /\ lost' = TRUE /\ UNCHANGED heard
  /\ told' = [told EXCEPT !.memory = alarm.level]
  /\ UNCHANGED <<disk, cap, keeper, evicted, sampled, honest>>
SaveState ==
  /\ alarm.at = "save" /\ alarm' = [alarm EXCEPT !.at = "idle"]
  /\ \/ told' = [told EXCEPT !.file = alarm.level] /\ UNCHANGED levelBudget
     \/ Pay("save") /\ UNCHANGED told
  /\ UNCHANGED <<disk, cap, keeper, evicted, sampled, heard, lost, honest>>

(* The NVR stops and starts again: the cap and the level come from their   *)
(* files; evictions and samples are forgotten.                             *)
Unsaved == told.file # heard
Restart ==
  /\ Pay("restart")
  /\ cap' = [cap EXCEPT !.memory = cap.file] /\ told' = [told EXCEPT !.memory = told.file]
  /\ honest' = (honest /\ cap.memory = cap.file)
  /\ keeper' = "idle" /\ evicted' = [x \in DOMAIN evicted |-> "never"] /\ sampled' = -1
  /\ alarm' = [alarm EXCEPT !.at = "idle"] /\ lost' = (lost \/ Unsaved)
  /\ UNCHANGED <<disk, heard>>

-----------------------------------------------------------------------------
LevelInit ==
  /\ disk = [footage |-> 2, cache |-> 0, other |-> 1]
  /\ levelBudget \in LevelBudgets
  /\ cap = [memory |-> levelBudget.seed, file |-> levelBudget.seed]
  /\ keeper = "idle" /\ evicted = [cap |-> "never", floor |-> "never"] /\ sampled = -1
  /\ alarm = [at |-> "idle", level |-> "ok"]
  /\ told = [memory |-> "unknown", file |-> "unknown"] /\ heard = "unknown" /\ lost = FALSE
  /\ honest = FALSE

Keeping == EnforceCap \/ EnforceFloor
Alarming == CheckAlarm \/ Notify \/ SaveState
LevelNext ==
  \/ \E what \in {"footage", "cache", "other"} : Fill(what)
  \/ \E what \in {"footage", "other"} : Shrink(what)
  \/ \E g \in 0..Disk : SetCap(g)
  \/ Keeping \/ CheckDisk \/ HoursPass \/ Alarming \/ Restart

-----------------------------------------------------------------------------
LevelTypeOK ==
  /\ disk \in [footage : 0..Disk, cache : 0..Disk, other : 0..Disk]
  /\ Free >= 0 /\ cap \in [memory : 0..Disk, file : 0..Disk] /\ sampled \in -1..Disk
  /\ alarm \in [at : {"idle", "notify", "save"}, level : Levels]
  /\ told \in [memory : Levels \cup {"unknown"}, file : Levels \cup {"unknown"}]

(* The floor takes footage only when the playback cache alone would not    *)
(* do, and never below a cap that was accepted, unless other files grew    *)
(* since: "a larger cap is not a larger limit" (server.set_storage_limit). *)
TakenByFloor == /\ disk'.footage < disk.footage /\ levelBudget' = levelBudget
                /\ ~(keeper = "idle" /\ keeper' = "floor")
FloorComesLast ==
  [][TakenByFloor => /\ Free + disk.cache < Reserve
                     /\ honest /\ cap.memory # 0 => disk.footage > cap.memory]_levelVars

(* What the webhook last heard is what the alerter would say now, unless   *)
(* its one attempt failed or the process died before it had saved.         *)
WellHeard == lost \/ (heard = Evaluate /\ alarm.at = "idle")
DiskKept == Free >= CritFree \/ disk.footage = 0
===============================================================================
