------------------------------- MODULE Deepstream -------------------------------
(***************************************************************************)
(* Designs of cameras on their way to an external pipeline: a sweep writes *)
(* a file for each camera that has one and removes those it finds left     *)
(* over, then what it changed is pushed to the pipeline, which otherwise   *)
(* reads the files only when it starts.  Requests sweep, and a loop that   *)
(* also brings back what the pipeline has lost.                            *)
(* Code: camera-mgmt/backend/services/deepstream_projection.py,            *)
(* deepstream_client.py.                                                   *)
(***************************************************************************)
EXTENDS Naturals, FiniteSets

CONSTANTS Sensors,     \* names of cameras, and of files
          Designs,     \* versions of a camera's design, numbers from 1
          Dirs,        \* what the directory may hold at first
          DsBudgets    \* what may happen

Sweepers == {"hook", "loop"}
ByHand == 9

ASSUME DsAssumption ==
  /\ Designs \subseteq Nat \ {0, ByHand}
  /\ Dirs \subseteq [Sensors -> [kind : {"none", "json", "garbled"}, ours : BOOLEAN, of : Designs \cup {0, ByHand}]]
  /\ \A d \in Dirs : \A s \in Sensors : d[s].ours => d[s].kind = "json"

VARIABLES
  wish,       \* the design a camera's row asks for, 0 for none
  file,       \* a camera's file: whether there, whether marked as ours, the design in it
  first,      \* what the directory held at first
  running,    \* the pipeline runs
  loaded,     \* the design it has of a camera, 0 for none
  sweeper,    \* a sweep: what it read, what it still has to look at, what it changed
  asked,      \* history: cameras that ever had a design
  excused,    \* history: cameras of whose file the pipeline was not told
  dsBudget

dsVars == <<wish, file, first, running, loaded, sweeper, asked, excused, dsBudget>>

SpendDs(c) == dsBudget[c] > 0 /\ dsBudget' = [dsBudget EXCEPT ![c] = @ - 1]

FileOf(kind, ours, of) == [kind |-> kind, ours |-> ours, of |-> of]
NoFile == FileOf("none", FALSE, 0)
Written(v) == FileOf("json", TRUE, v)
SweepAt(st, want, left, wrote, gone) == [st |-> st, want |-> want, left |-> left, wrote |-> wrote, gone |-> gone]
Afresh(st, left) == SweepAt(st, [s \in Sensors |-> 0], left, {}, {})
NotSweeping == Afresh("idle", {})
Locked == \E w \in Sweepers : sweeper[w].st \in {"write", "clean"}
Becomes(w, new) == sweeper' = [sweeper EXCEPT ![w] = new]

(* A sweep that ends: the loop goes on to compare.                         *)
Ended(w) == IF w = "loop" THEN Afresh("compare", {}) ELSE NotSweeping
Untold(w) == sweeper[w].wrote \cup sweeper[w].gone

-----------------------------------------------------------------------------
(* The sweep.                                                              *)

(* Who does not get the lock leaves it to the one who has it.              *)
Sweep(w) ==
  /\ sweeper[w].st = "ask"
  /\ Becomes(w, IF Locked THEN Ended(w)
                ELSE SweepAt("write", wish, {s \in Sensors : wish[s] # 0}, {}, {}))
  /\ UNCHANGED <<wish, file, first, running, loaded, asked, excused, dsBudget>>

(* A camera is done with: what was written and what removed since.         *)
Passes(w, s, wrote, gone) ==
  Becomes(w, SweepAt(sweeper[w].st, sweeper[w].want, sweeper[w].left \ {s}, wrote, gone))
(* Bytes that are no text end the sweep, and nobody is told what it did.   *)
Abort(w) == Becomes(w, Ended(w)) /\ excused' = excused \cup Untold(w)
(* Mutant: a file that is there is taken for written.                      *)
NewOnly(w, s) == file[s] = NoFile
Differs(w, s) == file[s] # Written(sweeper[w].want[s])
WriteFile(w, s) ==
  /\ sweeper[w].st = "write" /\ s \in sweeper[w].left
  /\ IF file[s].kind = "garbled" THEN Abort(w) /\ UNCHANGED <<file, dsBudget>>
     ELSE
       /\ \/ ~Differs(w, s) /\ Passes(w, s, sweeper[w].wrote, sweeper[w].gone) /\ UNCHANGED <<file, dsBudget>>
          \/ /\ Differs(w, s) /\ Passes(w, s, sweeper[w].wrote \cup {s}, sweeper[w].gone) /\ UNCHANGED dsBudget
             /\ file' = [file EXCEPT ![s] = Written(sweeper[w].want[s])]
          \/ Differs(w, s) /\ SpendDs("disk") /\ Passes(w, s, sweeper[w].wrote, sweeper[w].gone) /\ UNCHANGED file
       /\ UNCHANGED excused
  /\ UNCHANGED <<wish, first, running, loaded, asked>>
ListDir(w) ==
  /\ sweeper[w].st = "write" /\ sweeper[w].left = {}
  /\ Becomes(w, SweepAt("clean", sweeper[w].want, {s \in Sensors : file[s] # NoFile /\ sweeper[w].want[s] = 0},
                        sweeper[w].wrote, sweeper[w].gone))
  /\ UNCHANGED <<wish, file, first, running, loaded, asked, excused, dsBudget>>
(* Mutant: whatever belongs to no camera goes.                             *)
Anyones(s) == TRUE
IsOurs(s) == file[s].ours
(* Mutant: a file that is removed is not reported.                         *)
Unreported(gone, s) == gone
Reported(gone, s) == gone \cup {s}
CleanFile(w, s) ==
  /\ sweeper[w].st = "clean" /\ s \in sweeper[w].left
  /\ IF file[s].kind = "garbled" THEN Abort(w) /\ UNCHANGED <<file, dsBudget>>
     ELSE
       /\ \/ ~IsOurs(s) /\ Passes(w, s, sweeper[w].wrote, sweeper[w].gone) /\ UNCHANGED <<file, dsBudget>>
          \/ /\ IsOurs(s) /\ Passes(w, s, sweeper[w].wrote, Reported(sweeper[w].gone, s)) /\ UNCHANGED dsBudget
             /\ file' = [file EXCEPT ![s] = NoFile]
          \/ IsOurs(s) /\ SpendDs("disk") /\ Passes(w, s, sweeper[w].wrote, sweeper[w].gone) /\ UNCHANGED file
       /\ UNCHANGED excused
  /\ UNCHANGED <<wish, first, running, loaded, asked>>
EndSweep(w) ==
  /\ sweeper[w].st = "clean" /\ sweeper[w].left = {}
  /\ Becomes(w, [sweeper[w] EXCEPT !.st = "tell"])
  /\ UNCHANGED <<wish, file, first, running, loaded, asked, excused, dsBudget>>

-----------------------------------------------------------------------------
(* Telling the pipeline.                                                   *)

(* A removal restarts it, and then it reads the files again.               *)
TellGone(w, s) ==
  /\ sweeper[w].st = "tell" /\ s \in sweeper[w].gone
  /\ \/ /\ running /\ loaded[s] # 0 /\ running' = FALSE /\ loaded' = [t \in Sensors |-> 0]
        /\ Becomes(w, Ended(w)) /\ UNCHANGED <<excused, dsBudget>>
     \/ /\ running => loaded[s] = 0 \/ dsBudget["lost"] > 0
        /\ IF running /\ loaded[s] # 0 THEN SpendDs("lost") ELSE UNCHANGED dsBudget
        /\ Becomes(w, [sweeper[w] EXCEPT !.gone = @ \ {s}])
        /\ excused' = excused \cup {s} /\ UNCHANGED <<running, loaded>>
  /\ UNCHANGED <<wish, file, first, asked>>

(* It reads the file as it is now; a line that is counted at can make it   *)
(* start again.                                                            *)
Applies(s) ==
  /\ running /\ file[s].kind = "json"
  /\ \/ loaded' = [loaded EXCEPT ![s] = file[s].of] /\ UNCHANGED <<running, dsBudget>>
     \/ SpendDs("lines") /\ running' = FALSE /\ loaded' = [t \in Sensors |-> 0]
NotApplied(s) ==
  /\ UNCHANGED <<running, loaded>>
  /\ IF running /\ file[s].kind = "json" THEN SpendDs("lost") ELSE UNCHANGED dsBudget
TellWritten(w, s) ==
  LET done == [sweeper[w] EXCEPT !.wrote = @ \ {s}] IN
  /\ sweeper[w].st = "tell" /\ sweeper[w].gone = {} /\ s \in sweeper[w].wrote
  /\ \/ Applies(s) /\ excused' = excused \ {s} /\ Becomes(w, IF running' THEN done ELSE Ended(w))
     \/ NotApplied(s) /\ excused' = excused \cup {s} /\ Becomes(w, done)
  /\ UNCHANGED <<wish, file, first, asked>>
Told(w) ==
  /\ sweeper[w].st = "tell" /\ Untold(w) = {} /\ Becomes(w, Ended(w))
  /\ UNCHANGED <<wish, file, first, running, loaded, asked, excused, dsBudget>>

(* The loop looks for cameras the pipeline does not have, by the rows as   *)
(* they are now, and tells it of those; of no other.                       *)
CompareLists ==
  /\ sweeper["loop"].st = "compare"
  /\ Becomes("loop", IF running THEN Afresh("missing", {s \in Sensors : wish[s] # 0 /\ loaded[s] = 0})
                     ELSE NotSweeping)
  /\ UNCHANGED <<wish, file, first, running, loaded, asked, excused, dsBudget>>
AddMissing(s) ==
  /\ sweeper["loop"].st = "missing" /\ s \in sweeper["loop"].left
  /\ Becomes("loop", [sweeper["loop"] EXCEPT !.left = @ \ {s}])
  /\ \/ Applies(s) /\ excused' = excused \ {s}
     \/ NotApplied(s) /\ UNCHANGED excused
  /\ UNCHANGED <<wish, file, first, asked>>
EndCompare ==
  /\ sweeper["loop"].st = "missing" /\ sweeper["loop"].left = {} /\ Becomes("loop", NotSweeping)
  /\ UNCHANGED <<wish, file, first, running, loaded, asked, excused, dsBudget>>
NextPass ==
  /\ sweeper["loop"].st = "idle" /\ Becomes("loop", Afresh("ask", {}))
  /\ UNCHANGED <<wish, file, first, running, loaded, asked, excused, dsBudget>>

-----------------------------------------------------------------------------
(* A request stores a design, or that there is none, and sweeps.           *)
SaveDesign(s, v) ==
  /\ sweeper["hook"].st = "idle" /\ wish[s] # v /\ SpendDs("save")
  /\ wish' = [wish EXCEPT ![s] = v] /\ asked' = asked \cup {s}
  /\ Becomes("hook", Afresh("ask", {}))
  /\ UNCHANGED <<file, first, running, loaded, excused>>
(* A process dies; the lock goes with its connection.                      *)
SweeperDies(w) ==
  /\ sweeper[w].st # "idle" /\ SpendDs("die") /\ Becomes(w, NotSweeping) /\ excused' = excused \cup Untold(w)
  /\ UNCHANGED <<wish, file, first, running, loaded, asked>>
HandEdits(s) ==
  /\ file[s].ours /\ SpendDs("edit") /\ file' = [file EXCEPT ![s] = FileOf(@.kind, TRUE, ByHand)] /\ excused' = excused \cup {s}
  /\ UNCHANGED <<wish, first, running, loaded, sweeper, asked>>
PipeStops ==
  /\ running /\ SpendDs("stop") /\ running' = FALSE /\ loaded' = [s \in Sensors |-> 0]
  /\ UNCHANGED <<wish, file, first, sweeper, asked, excused>>
PipeStarts ==
  /\ ~running /\ running' = TRUE
  /\ loaded' = [s \in Sensors |-> IF file[s].kind = "json" THEN file[s].of ELSE 0]
  /\ excused' = {} /\ UNCHANGED <<wish, file, first, sweeper, asked, dsBudget>>

DsInit ==
  /\ dsBudget \in DsBudgets /\ first \in Dirs /\ file = first
  /\ wish = [s \in Sensors |-> 0] /\ running = FALSE /\ loaded = [s \in Sensors |-> 0]
  /\ sweeper = [w \in Sweepers |-> NotSweeping] /\ asked = {} /\ excused = {}

Sweeping(w) ==
  \/ Sweep(w) \/ ListDir(w) \/ EndSweep(w) \/ Told(w)
  \/ \E s \in Sensors : WriteFile(w, s) \/ CleanFile(w, s) \/ TellGone(w, s) \/ TellWritten(w, s)
Looping == NextPass \/ CompareLists \/ EndCompare \/ \E s \in Sensors : AddMissing(s)
DsNext ==
  \/ (\E w \in Sweepers : Sweeping(w) \/ SweeperDies(w)) \/ Looping
  \/ (\E s \in Sensors, v \in Designs \cup {0} : SaveDesign(s, v)) \/ (\E s \in Sensors : HandEdits(s))
  \/ PipeStops \/ PipeStarts

-----------------------------------------------------------------------------
DsTypeOK ==
  /\ \A s \in Sensors : wish[s] \in Designs \cup {0} /\ loaded[s] \in Designs \cup {0, ByHand}
  /\ \A s \in Sensors : file[s].ours => file[s].kind = "json"
  /\ \A w \in Sweepers : sweeper[w].st \in {"idle", "ask", "write", "clean", "tell", "compare", "missing"}
  /\ Cardinality({w \in Sweepers : sweeper[w].st \in {"write", "clean"}}) <= 1

(* A file somebody else made, of a camera that never had a design, stays   *)
(* as it is, whatever befalls sweeps and pushes.                           *)
HandmadeKept ==
  \A s \in Sensors \ asked : first[s].kind # "none" /\ ~first[s].ours => file[s] = first[s]

(* What the pipeline runs is what the files say, but where a sweep is      *)
(* about to tell it, or a call failed, a process died or a hand changed it.*)
OutdatedAccounted ==
  running => \A s \in Sensors :
    loaded[s] # (IF file[s].kind = "json" THEN file[s].of ELSE 0)
      => s \in excused \cup Untold("hook") \cup Untold("loop")

(* In the end the files are those of the rows and the pipeline has every   *)
(* camera - unless the directory holds a file that is no text.             *)
Poisoned == \E s \in Sensors : file[s].kind = "garbled"
DsSettled ==
  \/ Poisoned
  \/ /\ running /\ \A s \in Sensors : wish[s] # 0 => file[s] = Written(wish[s]) /\ loaded[s] # 0
     /\ \A s \in Sensors : wish[s] = 0 => ~file[s].ours
================================================================================
