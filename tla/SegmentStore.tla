---------------------------- MODULE SegmentStore ----------------------------
(***************************************************************************)
(* One camera's recorded footage in the NVR (services/nvr): the segment    *)
(* files on disk, the rows of the SQLite index, and everything that writes *)
(* either.                                                                 *)
(*                                                                         *)
(*   ffmpeg      writes segments and the list segments.csv                 *)
(*   indexer     the worker thread, turns CSV lines into rows              *)
(*   reconcile   the health monitor's scan of the files against the index  *)
(*   age, cap    the retention thread: expiry, orphan sweep, size cap      *)
(*   floor       disk-floor eviction, on the monitor or retention thread   *)
(*   groom       the nightly keyframe-only rewrite                         *)
(*   erase,purge the two deletion requests of the API                      *)
(*                                                                         *)
(* Segments are numbered in recording order, as their file names sort.  A  *)
(* file operation and an SQL transaction are one step each; what a thread  *)
(* read before a step it may use after others have moved.  Ageing is the   *)
(* only use of the wall clock: segments 1..aged are past the retention     *)
(* cutoff.                                                                 *)
(***************************************************************************)
EXTENDS Naturals, FiniteSets

CONSTANTS
  Jobs,             \* the deletion jobs that run, a subset of AllJobs
  LongLookback,     \* reconcile's lookback exceeds the camera's retention
  MaxSeg,           \* bound: segments recorded
  MaxFaults,        \* bound: unlink() calls that fail
  MaxRestarts,      \* bound: crashes of the NVR and replacements of the worker
  MaxGrooms,        \* bound: rewrites by the groomer
  MaxRequests       \* bound: deletions by erase, purge, cap and floor

TwoPhase  == {"cap", "floor", "erase"}    \* unlink first, then the rows
RowsFirst == {"age", "purge"}             \* the rows first, then unlink
AllJobs   == TwoPhase \cup RowsFirst

ASSUME JobsAssumption == Jobs \subseteq AllJobs
ASSUME LookbackAssumption == LongLookback \in BOOLEAN
ASSUME BoundsAssumption ==
  /\ MaxSeg \in Nat
  /\ MaxFaults \in Nat
  /\ MaxRestarts \in Nat
  /\ MaxGrooms \in Nat
  /\ MaxRequests \in Nat

VARIABLES
  files,      \* segments whose .ts exists
  fresh,      \* files modified less than 5 s ago
  touched,    \* files the groomer rewrote within the retention period
  made,       \* segments ffmpeg has opened so far
  open,       \* the segment ffmpeg is writing, 0 if none
  ffmpeg,     \* "down", "dialling" (started, no stream yet) or "recording"
  csv,        \* the lines of segments.csv
  listed,     \* ffmpeg's list is still the one under that name
  idx,        \* the indexer: [left, seg], lines to handle, line in hand
  watermark,  \* _last_indexed_filename
  rec,        \* reconcile: [pc, left, seg, short, old]
  rows,       \* segments with an index row
  rowId,      \* [segment -> id of its youngest row]; ids are never reused
  short,      \* rows made while the segment was still being written
  groomed,    \* rows with groomed = 1
  aged,       \* segments 1..aged are past the retention cutoff
  pc,         \* [AllJobs -> where the job is]
  left,       \* [AllJobs -> files it has still to unlink]
  done,       \* [AllJobs -> files it has unlinked, rows to follow]
  ids,        \* [AllJobs -> row ids it read]
  upto,       \* the cutoff the running age pass computed
  groom,      \* the groomer: [pc, seg, id]
  faults, restarts, grooms, requests,  \* counters for the bounds
  erased,     \* history: segments an erasure reported deleted
  revived,    \* history: files the groomer put back after they were unlinked
  slim,       \* history: segments the groomer rewrote
  regroomed   \* history: segments it rewrote again

diskVars    == <<files, fresh, touched>>
ffmpegVars  == <<made, open, ffmpeg, csv, listed>>
indexVars   == <<idx, watermark, rec>>
rowVars     == <<rows, rowId, short, groomed>>
jobVars     == <<pc, left, done, ids, upto, requests>>
groomVars   == <<groom, grooms, slim, regroomed, revived>>
otherVars   == <<aged, faults, restarts, erased>>
vars == <<diskVars, ffmpegVars, indexVars, rowVars, jobVars, groomVars, otherVars>>

Segs     == 1 .. MaxSeg
Closed   == 1 .. made \ {open}
Largest(a, b) == IF a >= b THEN a ELSE b
Idle     == [left |-> {}, seg |-> 0]
NoScan   == [pc |-> "idle", left |-> {}, seg |-> 0, short |-> FALSE, old |-> FALSE]
NoIds    == [s \in Segs |-> 0]
NoGroom  == [pc |-> "idle", seg |-> 0, id |-> 0]

\* INSERT OR REPLACE: a new id, and groomed is back to its default 0.
AddRow(s, partial) ==
  /\ rows' = rows \cup {s}
  /\ rowId' = [rowId EXCEPT ![s] = @ + 1]
  /\ short' = IF partial THEN short \cup {s} ELSE short \ {s}
  /\ groomed' = groomed \ {s}

DropRows(S) ==
  /\ rows' = rows \ S
  /\ short' = short \ S
  /\ groomed' = groomed \ S
  /\ UNCHANGED rowId

Unlinked(S) ==
  /\ files' = files \ S
  /\ fresh' = fresh \ S
  /\ touched' = touched \ S

-----------------------------------------------------------------------------
(* ffmpeg and the clock.                                                    *)

Dial ==
  /\ ffmpeg = "down"
  /\ made < MaxSeg
  /\ ffmpeg' = "dialling"
  /\ UNCHANGED <<diskVars, made, open, csv, listed, indexVars, rowVars, jobVars, groomVars,
                 otherVars>>

\* ffmpeg opens its next segment; the last write to the one before is recent.
OpenNext ==
  /\ made < MaxSeg
  /\ made' = made + 1
  /\ open' = made + 1
  /\ files' = files \cup {made + 1}
  /\ fresh' = fresh \cup {made + 1} \cup ({open} \cap files)
  /\ UNCHANGED <<touched, indexVars, rowVars, jobVars, groomVars, otherVars>>

\* The stream is up: segments.csv is reopened with O_TRUNC.
Connect ==
  /\ ffmpeg = "dialling"
  /\ ffmpeg' = "recording"
  /\ csv' = {}
  /\ listed' = TRUE
  /\ OpenNext

Roll ==
  /\ ffmpeg = "recording"
  /\ csv' = IF listed THEN csv \cup {open} ELSE csv
  /\ UNCHANGED <<ffmpeg, listed>>
  /\ OpenNext

\* ffmpeg is gone; its last write was just now.
Stopped ==
  /\ ffmpeg' = "down"
  /\ open' = 0
  /\ fresh' = fresh \cup ({open} \cap files)
  /\ UNCHANGED <<files, touched, made>>

\* ffmpeg ends: it lists its last segment, unless it was killed.
Quit ==
  /\ ffmpeg # "down"
  /\ Stopped
  /\ \/ open # 0 /\ listed /\ csv' = csv \cup {open}
     \/ UNCHANGED csv
  /\ UNCHANGED <<listed, indexVars, rowVars, jobVars, groomVars, otherVars>>

\* Five seconds without a write.  Muxer buffers and stalls leave the open segment
\* quiet for as long, too.
Quiet(s) ==
  /\ s \in fresh
  /\ fresh' = fresh \ {s}
  /\ UNCHANGED <<files, touched, ffmpegVars, indexVars, rowVars, jobVars, groomVars, otherVars>>

Write ==
  /\ open \in files \ fresh
  /\ fresh' = fresh \cup {open}
  /\ UNCHANGED <<files, touched, ffmpegVars, indexVars, rowVars, jobVars, groomVars, otherVars>>

Age ==
  /\ aged + 1 \in Closed \ (fresh \ touched)
  /\ aged' = aged + 1
  /\ UNCHANGED <<diskVars, ffmpegVars, indexVars, rowVars, jobVars, groomVars, faults, restarts,
                 erased>>

\* The modification time of a rewritten file passes the cutoff, too.
AgeRewritten(s) ==
  /\ s \in touched \ fresh
  /\ s <= aged
  /\ touched' = touched \ {s}
  /\ UNCHANGED <<files, fresh, ffmpegVars, indexVars, rowVars, jobVars, groomVars, otherVars>>

-----------------------------------------------------------------------------
(* The indexer: _watch_segment_list and _index_segment_line.                *)

ReadList ==
  /\ ffmpeg # "down"
  /\ idx = Idle
  /\ \E s \in csv : s > watermark
  /\ idx' = [idx EXCEPT !.left = {s \in csv : s > watermark}]
  /\ UNCHANGED <<diskVars, ffmpegVars, watermark, rec, rowVars, jobVars, groomVars, otherVars>>

\* The next line: passed over if its name is not above the watermark, or if its
\* file is not there.
TakeLine(s) ==
  /\ idx.seg = 0
  /\ s \in idx.left
  /\ \A t \in idx.left : s <= t
  /\ idx' = [left |-> idx.left \ {s},
             seg  |-> IF s > watermark /\ s \in files THEN s ELSE 0]
  /\ UNCHANGED <<diskVars, ffmpegVars, watermark, rec, rowVars, jobVars, groomVars, otherVars>>

IndexLine ==
  /\ idx.seg # 0
  /\ AddRow(idx.seg, FALSE)
  /\ watermark' = Largest(watermark, idx.seg)
  /\ idx' = [idx EXCEPT !.seg = 0]
  /\ UNCHANGED <<diskVars, ffmpegVars, rec, jobVars, groomVars, otherVars>>

\* An exception (the index is locked, the file vanished before its size was
\* read): this poll is over.
LineFails ==
  /\ idx.seg # 0
  /\ idx' = Idle
  /\ UNCHANGED <<diskVars, ffmpegVars, watermark, rec, rowVars, jobVars, groomVars, otherVars>>

-----------------------------------------------------------------------------
(* Reconciliation: StreamWorker.reconcile, from the health monitor.         *)

Horizon == IF LongLookback THEN 0 ELSE aged

\* Files the scan goes through.  Those written in the last 5 s are left to the
\* next pass.
Unindexed == {s \in files \ (rows \cup fresh) : s > Horizon}

\* A scan that only knows the lines of the CSV: the last segment of a killed
\* ffmpeg is never listed.
ScanListed ==
  /\ rec.pc = "idle"
  /\ Unindexed \cap csv # {}
  /\ rec' = [NoScan EXCEPT !.pc = "scan", !.left = Unindexed \cap csv]
  /\ UNCHANGED <<diskVars, ffmpegVars, idx, watermark, rowVars, jobVars, groomVars, otherVars>>

Scan ==
  /\ rec.pc = "idle"
  /\ Unindexed # {}
  /\ rec' = [NoScan EXCEPT !.pc = "scan", !.left = Unindexed]
  /\ UNCHANGED <<diskVars, ffmpegVars, idx, watermark, rowVars, jobVars, groomVars, otherVars>>

\* Probe the next file, unless it has gone or was written to meanwhile.
Probe(s) ==
  /\ rec.pc = "scan"
  /\ s \in rec.left
  /\ rec' = IF s \in files \ fresh
              THEN [rec EXCEPT !.pc = "add", !.left = @ \ {s}, !.seg = s, !.short = (s = open)]
              ELSE [rec EXCEPT !.left = @ \ {s}]
  /\ UNCHANGED <<diskVars, ffmpegVars, idx, watermark, rowVars, jobVars, groomVars, otherVars>>

\* The watermark is the scanned worker's, which may have been replaced.
AddProbed ==
  /\ rec.pc = "add"
  /\ AddRow(rec.seg, rec.short)
  /\ watermark' = IF rec.old THEN watermark ELSE Largest(watermark, rec.seg)
  /\ rec' = [rec EXCEPT !.pc = "scan", !.seg = 0, !.short = FALSE]
  /\ UNCHANGED <<diskVars, ffmpegVars, idx, jobVars, groomVars, otherVars>>

EndScan ==
  /\ rec.pc = "scan"
  /\ rec.left = {}
  /\ rec' = NoScan
  /\ UNCHANGED <<diskVars, ffmpegVars, idx, watermark, rowVars, jobVars, groomVars, otherVars>>

-----------------------------------------------------------------------------
(* Two-phase deletion: size cap, disk floor, erasure of a time range.       *)

\* Eviction takes the oldest rows, an erasure the rows inside its window.
InScope(j, S) ==
  IF j = "erase"
    THEN \E a, b \in Segs : S = rows \cap (a .. b)
    ELSE \E b \in Segs : S = rows \cap (1 .. b)

\* Age pass and size cap share a thread, erase and purge the API's event loop;
\* the disk floor has its own lock and may run beside any of them.
Free(j) ==
  /\ pc[j] = "idle"
  /\ j = "cap" => pc["age"] = "idle"
  /\ j = "age" => pc["cap"] = "idle"
  /\ j = "erase" => pc["purge"] = "idle"
  /\ j = "purge" => pc["erase"] = "idle"

Start(j, state, S) ==
  /\ pc' = [pc EXCEPT ![j] = state]
  /\ left' = [left EXCEPT ![j] = S]
  /\ done' = [done EXCEPT ![j] = {}]

\* The call returns, its local variables are gone.
Finish(j) ==
  /\ pc' = [pc EXCEPT ![j] = "idle"]
  /\ left' = [left EXCEPT ![j] = {}]
  /\ done' = [done EXCEPT ![j] = {}]
  /\ ids' = [ids EXCEPT ![j] = NoIds]
  /\ upto' = IF j = "age" THEN 0 ELSE upto

Choose(j, S) ==
  /\ j \in Jobs \cap TwoPhase
  /\ Free(j)
  /\ requests < MaxRequests
  /\ S # {}
  /\ InScope(j, S)
  /\ requests' = requests + 1
  /\ Start(j, "unlink", S)
  /\ ids' = [ids EXCEPT ![j] = rowId]
  /\ UNCHANGED <<diskVars, ffmpegVars, indexVars, rowVars, upto, groomVars, otherVars>>

\* unlink() of one file; a failure is logged and the file is passed over.
Remove(j, s) ==
  /\ Unlinked({s})
  /\ done' = [done EXCEPT ![j] = @ \cup {s}]
  /\ UNCHANGED faults

Fail(s) ==
  /\ faults < MaxFaults
  /\ s \in files
  /\ faults' = faults + 1
  /\ UNCHANGED diskVars

\* A failed unlink taken for a success: the row goes, the file stays.
UnlinkIgnoringErrors(j, s) ==
  /\ pc[j] = "unlink"
  /\ s \in left[j]
  /\ left' = [left EXCEPT ![j] = @ \ {s}]
  /\ \/ Remove(j, s)
     \/ Fail(s) /\ done' = [done EXCEPT ![j] = @ \cup {s}]
  /\ UNCHANGED <<ffmpegVars, indexVars, rowVars, aged, pc, ids, upto, requests, groomVars,
                 restarts, erased>>

Unlink(j, s) ==
  /\ pc[j] = "unlink"
  /\ s \in left[j]
  /\ left' = [left EXCEPT ![j] = @ \ {s}]
  /\ \/ Remove(j, s)
     \/ Fail(s) /\ UNCHANGED done
  /\ UNCHANGED <<ffmpegVars, indexVars, rowVars, aged, pc, ids, upto, requests, groomVars,
                 restarts, erased>>

\* delete_by_ids: only the rows that were read, not one that replaced them.
Commit(j) ==
  /\ j \in TwoPhase
  /\ pc[j] = "unlink"
  /\ left[j] = {}
  /\ DropRows({s \in done[j] \cap rows : rowId[s] = ids[j][s]})
  /\ erased' = IF j = "erase" THEN erased \cup done[j] ELSE erased
  /\ Finish(j)
  /\ UNCHANGED <<diskVars, ffmpegVars, indexVars, aged, requests, groomVars, faults, restarts>>

-----------------------------------------------------------------------------
(* Rows-first deletion: the age pass of retention and the purge request.    *)

Expired(j) == IF j = "age" THEN 1 .. upto ELSE Segs

\* delete_before, the SELECT.  The pass runs every hour; one that would find
\* nothing to delete is left out.
SelectExpired ==
  /\ "age" \in Jobs
  /\ Free("age")
  /\ (files \cup rows) \cap (1 .. aged) # {}
  /\ Start("age", "delete", rows \cap (1 .. aged))
  /\ upto' = aged
  /\ UNCHANGED <<diskVars, ffmpegVars, indexVars, rowVars, ids, requests, groomVars, otherVars>>

\* The cutoff of a purge lies in the future; without rows it answers 404.
SelectAll ==
  /\ "purge" \in Jobs
  /\ Free("purge")
  /\ requests < MaxRequests
  /\ rows # {}
  /\ requests' = requests + 1
  /\ Start("purge", "delete", rows)
  /\ UNCHANGED <<diskVars, ffmpegVars, indexVars, rowVars, ids, upto, groomVars, otherVars>>

\* An expiry that drops only the rows whose file it finds.
DeleteRowsOfFiles(j) ==
  /\ j \in RowsFirst
  /\ pc[j] = "delete"
  /\ pc' = [pc EXCEPT ![j] = "unlink"]
  /\ DropRows(rows \cap Expired(j) \cap files)
  /\ UNCHANGED <<diskVars, ffmpegVars, indexVars, left, done, ids, upto, requests, groomVars,
                 otherVars>>

\* delete_before, the DELETE: by the same condition, on the rows there are now.
DeleteRows(j) ==
  /\ j \in RowsFirst
  /\ pc[j] = "delete"
  /\ pc' = [pc EXCEPT ![j] = "unlink"]
  /\ IF left[j] = {} THEN UNCHANGED rowVars ELSE DropRows(rows \cap Expired(j))
  /\ UNCHANGED <<diskVars, ffmpegVars, indexVars, left, done, ids, upto, requests, groomVars,
                 otherVars>>

\* With no segment left in the directory the segment list goes, too.
EndPurge ==
  /\ pc["purge"] = "unlink"
  /\ left["purge"] = {}
  /\ Finish("purge")
  /\ csv' = IF files = {} THEN {} ELSE csv
  /\ listed' = (listed /\ files # {})
  /\ UNCHANGED <<diskVars, made, open, ffmpeg, indexVars, rowVars, requests, groomVars, otherVars>>

\* _clean_orphans: files without a row, last written before the cutoff.
BeginSweep ==
  /\ pc["age"] = "unlink"
  /\ left["age"] = {}
  /\ Start("age", "sweep", {s \in files \ rows : s <= upto})
  /\ UNCHANGED <<diskVars, ffmpegVars, indexVars, rowVars, ids, upto, requests, groomVars,
                 otherVars>>

Sweep(s) ==
  /\ pc["age"] = "sweep"
  /\ s \in left["age"]
  /\ left' = [left EXCEPT !["age"] = @ \ {s}]
  /\ \/ s \in fresh \cup touched /\ UNCHANGED <<diskVars, faults>>
     \/ s \notin fresh \cup touched /\ Unlinked({s}) /\ UNCHANGED faults
     \/ Fail(s)
  /\ UNCHANGED <<ffmpegVars, indexVars, rowVars, aged, pc, done, ids, upto, requests, groomVars,
                 restarts, erased>>

EndSweep ==
  /\ pc["age"] = "sweep"
  /\ left["age"] = {}
  /\ Finish("age")
  /\ UNCHANGED <<diskVars, ffmpegVars, indexVars, rowVars, requests, groomVars, otherVars>>

-----------------------------------------------------------------------------
(* The groomer: GroomingManager.run_once, one candidate at a time.          *)

\* Old enough to be groomed, a day at least: a finished segment, and not one
\* that a running scan or poll has found to be new.
Old(s) ==
  /\ s \in Closed \ (fresh \ touched)
  /\ s \notin rec.left \cup idx.left \cup {rec.seg, idx.seg}

\* A row whose file is not there is passed over.
BeginGroom(s) ==
  /\ groom.pc = "idle"
  /\ grooms < MaxGrooms
  /\ s \in (rows \ groomed) \cap files
  /\ Old(s)
  /\ groom' = [pc |-> "remux", seg |-> s, id |-> rowId[s]]
  /\ grooms' = grooms + 1
  /\ UNCHANGED <<diskVars, ffmpegVars, indexVars, rowVars, jobVars, slim, regroomed, revived,
                 otherVars>>

\* os.replace puts the rewritten file under the segment's name, whether or not
\* the original is still there.
ReplaceFile ==
  LET s == groom.seg IN
  /\ groom.pc = "remux"
  /\ groom' = [groom EXCEPT !.pc = "mark"]
  /\ files' = files \cup {s}
  /\ fresh' = fresh \cup {s}
  /\ touched' = touched \cup {s}
  /\ revived' = IF s \in files THEN revived ELSE revived \cup {s}
  /\ slim' = slim \cup {s}
  /\ regroomed' = regroomed \cup (slim \cap {s})
  /\ UNCHANGED <<ffmpegVars, indexVars, rowVars, jobVars, grooms, otherVars>>

GroomFails ==
  /\ groom.pc = "remux"
  /\ groom' = NoGroom
  /\ UNCHANGED <<diskVars, ffmpegVars, indexVars, rowVars, jobVars, grooms, slim, regroomed,
                 revived, otherVars>>

\* The file's size recorded, the flag forgotten.
MarkNothing ==
  /\ groom.pc = "mark"
  /\ groom' = NoGroom
  /\ UNCHANGED <<diskVars, ffmpegVars, indexVars, rowVars, jobVars, grooms, slim, regroomed,
                 revived, otherVars>>

MarkGroomed ==
  LET s == groom.seg IN
  /\ groom.pc = "mark"
  /\ groomed' = IF s \in rows /\ rowId[s] = groom.id THEN groomed \cup {s} ELSE groomed
  /\ groom' = NoGroom
  /\ UNCHANGED <<diskVars, ffmpegVars, indexVars, rows, rowId, short, jobVars, grooms, slim,
                 regroomed, revived, otherVars>>

-----------------------------------------------------------------------------
(* Restarts.                                                                *)

\* A camera is removed and added again (its address changed, recording was
\* toggled): a new StreamWorker with an empty watermark.
ReplaceWorker ==
  /\ restarts < MaxRestarts
  /\ restarts' = restarts + 1
  /\ Stopped
  /\ idx' = Idle
  /\ watermark' = 0
  /\ rec' = IF rec.pc = "idle" THEN rec ELSE [rec EXCEPT !.old = TRUE]
  /\ UNCHANGED <<csv, listed, rowVars, jobVars, groomVars, aged, faults, erased>>

\* The NVR dies between any two steps; files, rows and segments.csv survive.
Crash ==
  /\ restarts < MaxRestarts
  /\ restarts' = restarts + 1
  /\ Stopped
  /\ idx' = Idle
  /\ watermark' = 0
  /\ rec' = NoScan
  /\ pc' = [j \in AllJobs |-> "idle"]
  /\ left' = [j \in AllJobs |-> {}]
  /\ done' = [j \in AllJobs |-> {}]
  /\ ids' = [j \in AllJobs |-> NoIds]
  /\ upto' = 0
  /\ groom' = NoGroom
  /\ UNCHANGED <<csv, listed, rowVars, requests, grooms, slim, regroomed, revived, aged, faults,
                 erased>>

-----------------------------------------------------------------------------
Init ==
  /\ files = {} /\ fresh = {} /\ touched = {}
  /\ made = 0 /\ open = 0 /\ ffmpeg = "down" /\ csv = {} /\ listed = TRUE
  /\ idx = Idle /\ watermark = 0 /\ rec = NoScan
  /\ rows = {} /\ short = {} /\ groomed = {}
  /\ rowId = [s \in Segs |-> 0]
  /\ pc = [j \in AllJobs |-> "idle"]
  /\ left = [j \in AllJobs |-> {}]
  /\ done = [j \in AllJobs |-> {}]
  /\ ids = [j \in AllJobs |-> NoIds]
  /\ upto = 0 /\ requests = 0
  /\ groom = NoGroom /\ grooms = 0 /\ slim = {} /\ regroomed = {} /\ revived = {}
  /\ aged = 0 /\ faults = 0 /\ restarts = 0 /\ erased = {}

Recording == Dial \/ Connect \/ Roll \/ Quit \/ Write \/ Age
Indexing == ReadList \/ (\E s \in Segs : TakeLine(s)) \/ IndexLine \/ LineFails
Reconciling == Scan \/ (\E s \in Segs : Probe(s)) \/ AddProbed \/ EndScan
Deleting(j) == (\E s \in Segs : Unlink(j, s)) \/ Commit(j) \/ DeleteRows(j)
Ageing == SelectExpired \/ BeginSweep \/ (\E s \in Segs : Sweep(s)) \/ EndSweep
Grooming == (\E s \in Segs : BeginGroom(s)) \/ ReplaceFile \/ GroomFails \/ MarkGroomed

Next ==
  \/ Recording
  \/ \E s \in Segs : Quiet(s) \/ AgeRewritten(s)
  \/ Indexing
  \/ Reconciling
  \/ \E j \in TwoPhase, S \in SUBSET Segs : Choose(j, S)
  \/ \E j \in AllJobs : Deleting(j)
  \/ SelectAll \/ EndPurge
  \/ Ageing
  \/ Grooming
  \/ ReplaceWorker \/ Crash

Spec == Init /\ [][Next]_vars

\* The monitor and the retention thread keep running, a request runs to its end,
\* and time passes for a file nobody writes.  Cameras owe nothing.
FairSpec ==
  /\ Spec
  /\ WF_vars(Reconciling)
  /\ WF_vars(Ageing)
  /\ \A j \in AllJobs : WF_vars(Deleting(j))
  /\ \A s \in Segs : WF_vars(s # open /\ Quiet(s)) /\ WF_vars(AgeRewritten(s))

-----------------------------------------------------------------------------
\* The types, with what the parts of the state owe each other.
DiskOK ==
  /\ files \subseteq 1 .. made /\ fresh \subseteq files /\ touched \subseteq files
  /\ made \in 0 .. MaxSeg /\ open \in {0, made}
  /\ ffmpeg \in {"down", "dialling", "recording"}
  /\ open # 0 <=> ffmpeg = "recording"
  /\ csv \subseteq Closed /\ listed \in BOOLEAN
  /\ aged \in 0 .. made
IndexOK ==
  /\ idx \in [left : SUBSET Closed, seg : {0} \cup Closed]
  /\ watermark \in 0 .. made
  /\ rec \in [pc : {"idle", "scan", "add"}, left : SUBSET (1 .. made), seg : 0 .. made,
              short : BOOLEAN, old : BOOLEAN]
  /\ rec.pc = "add" <=> rec.seg # 0
  /\ rows \subseteq 1 .. made /\ short \subseteq rows /\ groomed \subseteq rows
  /\ rowId \in [Segs -> Nat]
JobsOK ==
  /\ pc \in [AllJobs -> {"idle", "delete", "unlink", "sweep"}]
  /\ left \in [AllJobs -> SUBSET (1 .. made)]
  /\ done \in [AllJobs -> SUBSET (1 .. made)]
  /\ ids \in [AllJobs -> [Segs -> Nat]]
  /\ upto \in 0 .. aged
GroomOK ==
  /\ groom \in [pc : {"idle", "remux", "mark"}, seg : 0 .. made, id : Nat]
  /\ groom.pc # "idle" => groom.seg # 0
  /\ slim \subseteq 1 .. made /\ regroomed \subseteq slim
  /\ erased \subseteq 1 .. made /\ revived \subseteq 1 .. made
CountersOK ==
  /\ faults \in 0 .. MaxFaults /\ restarts \in 0 .. MaxRestarts
  /\ grooms \in 0 .. MaxGrooms /\ requests \in 0 .. MaxRequests
TypeOK == DiskOK /\ IndexOK /\ JobsOK /\ GroomOK /\ CountersOK

\* What a job has unlinked stays gone until its rows follow: only the groomer may
\* put it back.
UnlinkedStayGone == \A j \in AllJobs : \A s \in done[j] \ revived : s \notin files

\* A segment an erasure reported deleted has no file, whoever else indexed,
\* rewrote or deleted it meanwhile and whichever unlink failed, unless the groomer
\* put the file back (server.py:1014-1032).
ErasedFilesStayGone == \A s \in erased \ revived : s \notin files

StoreInv == TypeOK /\ UnlinkedStayGone /\ ErasedFilesStayGone

\* Cap, floor and erase drop the row of a segment only once its file is gone: a
\* failed unlink keeps the row, for the next pass to retry (retention.py:246-265).
\* Only an expiry or a purge drops rows first.
RowLeavesAfterFile ==
  [][(\A j \in RowsFirst : pc[j] = "delete" => pc'[j] = "delete" \/ pc'[j] = "idle")
       => \A s \in rows \ rows' : s \notin files \ revived]_vars

\* No segment is rewritten twice, save one the groomer itself put back on disk, as
\* long as nothing restarts and all deletion is two-phase (grooming.py:20-21).  A
\* job that drops rows first lets reconcile index a file it has yet to unlink.
GroomedOnce == restarts = 0 /\ Jobs \subseteq TwoPhase => regroomed \subseteq revived

\* An erasure is for good (server.py:985, "Irreversible").
ErasedForGood == \A s \in erased : s \notin files \cup rows

\* The disk and the index come to agree: a finished segment whose file is not
\* indexed is indexed in the end, or its file goes, so that nothing recorded stays
\* invisible on the disk (stream_worker.py:524, retention.py:385); and a row past
\* the cutoff whose file is gone goes, too.
StoreHeals ==
  \A s \in Segs :
    /\ (s \in files \ rows /\ s \in Closed) ~> (s \in rows \/ s \notin files)
    /\ (s \in rows \ files /\ s <= aged) ~> (s \notin rows \ files)
=============================================================================
